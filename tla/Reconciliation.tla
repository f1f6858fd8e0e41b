---------------------------- MODULE Reconciliation ----------------------------
(***************************************************************************)
(* What two replicas compare before they exchange vertices: the inventory  *)
(* each advertises, what the other then needs, and what it has to offer.   *)
(* Sequences of hashes are sets here: they are sorted before they are sent *)
(* and only looked up after.                                               *)
(***************************************************************************)
EXTENDS ReplicaFacts

CONSTANT MAX_INVENTORY_HASHES   \* the longest hash list a reader decodes

ASSUME ReconciliationAssumption == MAX_INVENTORY_HASHES \in Nat

(* A plausible fault of from_dag: one tip hides what the others approve.    *)
from_highest_tip(g) ==
    [tips |-> {Max(g.tips)}, recent |-> parent_closure(g, Max(g.tips)) \ {g.genesis_id}]

(* SyncInventory::from_dag: the tips and, within the walk bound, what they  *)
(* approve.                                                                 *)
from_dag(g) ==
    [tips   |-> g.tips,
     recent |-> (UNION {parent_closure(g, tip) : tip \in g.tips}) \ {g.genesis_id}]

advertised(inv) == inv.tips \cup inv.recent

(* A plausible fault of collect_need: only the tips are asked for.          *)
need_tips_only(g, inv) == inv.tips \ VertexSet(g)

(* The advertised vertices that are not stored, and parents missing under a *)
(* stored tip.                                                              *)
collect_need(g, inv) ==
    LET under == UNION {ParentSet(g.vertices[tip]) : tip \in inv.tips \cap VertexSet(g)}
    IN  (advertised(inv) \cup under) \ VertexSet(g)

(* What the tips approve, down to what the other side advertised.           *)
collect_have(g, known) ==
    LET Unlisted(ids) == ids \ (known \cup {g.genesis_id, NULL_PARENT})
        grow[n \in 0 .. Cardinality(VertexSet(g))] ==
            IF n = 0 THEN Unlisted(g.tips)
            ELSE grow[n - 1] \cup
                     Unlisted(UNION {ParentSet(g.vertices[i]) : i \in grow[n - 1]})
    IN  grow[Cardinality(VertexSet(g))]

(* The decoder refuses longer lists.                                        *)
InventoryDecodes(inv) == Cardinality(inv.tips) + Cardinality(inv.recent) <= MAX_INVENTORY_HASHES

IdsDecode(ids) == Cardinality(ids) <= MAX_INVENTORY_HASHES
=============================================================================
