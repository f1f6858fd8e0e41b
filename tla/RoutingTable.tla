----------------------------- MODULE RoutingTable -----------------------------
(***************************************************************************)
(* The contacts of a node: buckets of core contacts and buckets of edge    *)
(* contacts, oldest first.  Pure operators.                                *)
(*                                                                         *)
(* A contact is [id, role, net]: the address of its key, the role it said  *)
(* it has and the /24 its socket is in.  A mesh id is a prefix of the      *)
(* address, so the id stands for both.  Every contact is put in Live, and  *)
(* nothing changes that, so the state of a contact is left out; with it go *)
(* the eviction of dead contacts and that of edge contacts from a core     *)
(* bucket, which holds none.                                               *)
(***************************************************************************)
EXTENDS Naturals, SequencesExt, Selection

CONSTANTS
    Buckets,          \* in the order they are listed: 1, 2, ...
    BucketOf(_, _),   \* bucket of a remote id in the table of a local one
    K,                \* contacts in a bucket
    MAX_PER_SLASH24   \* of them with the same /24

ASSUME RoutingTableAssumption ==
    /\ IsFiniteSet(Buckets) /\ Buckets = 1 .. Cardinality(Buckets)
    /\ K \in Nat /\ MAX_PER_SLASH24 \in Nat

EmptyTable == [core |-> [b \in Buckets |-> <<>>], edge |-> [b \in Buckets |-> <<>>]]

Side(role) == IF role = "CoreValidator" THEN "core" ELSE "edge"

remove_overlay(t, id) ==
    [s \in DOMAIN t |->
        [b \in Buckets |-> Selected(t[s][b], {p \in ToSet(t[s][b]) : p.id # id})]]

SameNet(bucket, net) == Cardinality({k \in DOMAIN bucket : bucket[k].net = net})

(* A plausible fault of Place: the cap on a /24 is forgotten.               *)
place_uncapped(t, local, peer) ==
    LET side == Side(peer.role)
        at   == BucketOf(local, peer.id)
    IN  IF Len(t[side][at]) >= K
        THEN [ok |-> FALSE, table |-> t]
        ELSE [ok |-> TRUE, table |-> [t EXCEPT ![side][at] = Append(@, peer)]]

(* What insert does with a contact that is not the node itself and whose    *)
(* former entry is out of the table.                                        *)
Place(t, local, peer) ==
    LET side == Side(peer.role)
        at   == BucketOf(local, peer.id)
    IN  IF SameNet(t[side][at], peer.net) >= MAX_PER_SLASH24 \/ Len(t[side][at]) >= K
        THEN [ok |-> FALSE, table |-> t]
        ELSE [ok |-> TRUE, table |-> [t EXCEPT ![side][at] = Append(@, peer)]]

(* A denied contact is gone from where it was.                              *)
insert(t, local, peer) ==
    IF peer.id = local
    THEN [ok |-> FALSE, table |-> t]
    ELSE Place(remove_overlay(t, peer.id), local, peer)

Listed(t, side) == FlattenSeq([b \in Buckets |-> t[side][b]])

live_peers(t) == Listed(t, "core") \o Listed(t, "edge")

contains_overlay(t, local, id) == \/ id = local
                                  \/ \E p \in ToSet(live_peers(t)) : p.id = id

FirstOf(s, n) == SubSeq(s, 1, IF Len(s) < n THEN Len(s) ELSE n)

(* Phones talk to a few cores and one or two neighbours.                    *)
gossip_targets(t, role) ==
    IF role = "EdgeMiner"
    THEN FirstOf(Listed(t, "core"), 3) \o FirstOf(Listed(t, "edge"), 2)
    ELSE FirstOf(live_peers(t), 8)
=============================================================================
