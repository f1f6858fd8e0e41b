------------------------------ MODULE GossipStore ------------------------------
(***************************************************************************)
(* The bounded Have/Need store of a node.  Pure operators on the sequence  *)
(* of the stored messages, oldest first; a message stands for its id and   *)
(* its body, so that a body always has the id it came under.               *)
(***************************************************************************)
EXTENDS Naturals, SequencesExt, Selection

CONSTANTS
    max_store,   \* per role: a store has room for at least one message
    max_want     \* per role

ASSUME GossipStoreAssumption ==
    /\ max_store \in [{"EdgeMiner", "CoreValidator"} -> Nat \ {0}]
    /\ max_want \in [{"EdgeMiner", "CoreValidator"} -> Nat]

Holds(order, m) == Contains(order, m)

(* What makes room for m.                                                   *)
EvictedFor(order, role, m) ==
    IF ~Holds(order, m) /\ Len(order) >= max_store[role] THEN {Head(order)} ELSE {}

(* A plausible fault of StoreInsert: the oldest message stays listed.       *)
insert_without_eviction(order, role, m) ==
    IF Holds(order, m) THEN order ELSE Append(order, m)

StoreInsert(order, role, m) ==
    IF Holds(order, m) THEN order
    ELSE Append(IF Len(order) >= max_store[role] THEN Tail(order) ELSE order, m)

(* What is left of these when they are put in one after the other.          *)
StoreAll(role, messages) ==
    LET upto[n \in 0 .. Len(messages)] ==
            IF n = 0 THEN <<>> ELSE StoreInsert(upto[n - 1], role, messages[n])
    IN  upto[Len(messages)]

(* Plausible faults of on_payload and on_inventory: every body is news; a   *)
(* full store asks for nothing.                                             *)
on_payload_unchecked(order, m) == TRUE

on_inventory_unless_full(order, role, ids) ==
    IF Len(order) >= max_store[role] THEN <<>> ELSE ids

(* The ids of an inventory a node asks for.                                 *)
on_inventory(order, role, ids) ==
    LET missing == Selected(ids, ToSet(ids) \ ToSet(order))
    IN  SubSeq(missing, 1, IF Len(missing) < max_want[role] THEN Len(missing)
                           ELSE max_want[role])

on_want(order, ids) == Selected(ids, ToSet(order))

(* Is a body news?                                                          *)
on_payload(order, m) == ~Holds(order, m)
=============================================================================
