------------------------------ MODULE MCMeshSync ------------------------------
(***************************************************************************)
(* Instances of MeshSync for TLC: two hubs that hold rival spends and what *)
(* was built on them, and vertices that arrive while they synchronise.     *)
(* Some vertices have smaller ids than their parents.                      *)
(***************************************************************************)
EXTENDS MeshSync

CONSTANTS A, B, R, G    \* two spending phones, a relay phone, genesis
CONSTANTS d, l          \* the dialing and the listening hub

MCTx(id, p1, p2, from, to, amount, nonce) ==
    [id |-> id, parent_1 |-> p1, parent_2 |-> p2, sender |-> from,
     recipient |-> to, amount |-> amount, nonce |-> nonce,
     relays |-> <<>>, wellformed |-> TRUE]

MCFaucet == [a \in {A, B, R, G} |-> IF a \in {A, B} THEN 6 ELSE 0]

(* The dialer has a chain on one spend, the listener on its rival.          *)
MCHistory ==
    [h \in {d, l} |->
        IF h = d THEN <<MCTx(3, 1, 1, A, R, 2, 0), MCTx(2, 3, 3, A, R, 1, 1)>>
        ELSE <<MCTx(5, 1, 1, A, A, 1, 0), MCTx(4, 5, 1, B, R, 1, 0)>>]

(* One approves both chains, one only the rival and is more than B can pay. *)
MCFresh == {MCTx(6, 2, 5, B, A, 1, 1), MCTx(7, 5, 4, B, R, 9, 1)}

(* A hub that has only heard of genesis calls one with a chain.             *)
MCLateHistory ==
    [h \in {d, l} |->
        IF h = d THEN <<>>
        ELSE <<MCTx(2, 1, 1, A, R, 1, 0), MCTx(3, 2, 2, A, R, 1, 1),
               MCTx(4, 3, 3, B, R, 1, 0), MCTx(5, 4, 4, B, R, 1, 1)>>]

MCNothingFresh == {}
=============================================================================
