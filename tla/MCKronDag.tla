------------------------------- MODULE MCKronDag -------------------------------
(***************************************************************************)
(* Instances of KronDag for TLC: a family of vertices deep enough for      *)
(* conflicts whose losers gain weight.  An id that occurs with different   *)
(* contents stands for the different hashes those contents may have.       *)
(***************************************************************************)
EXTENDS KronDag

CONSTANTS A, B, R, G   \* two spending phones, a relay phone, genesis

MCTx(id, p1, p2, from, to, amount, nonce, relays) ==
    [id |-> id, parent_1 |-> p1, parent_2 |-> p2, sender |-> from,
     recipient |-> to, amount |-> amount, nonce |-> nonce,
     relays |-> relays, wellformed |-> TRUE]

(* Two rivals for the nonce 0 of A, under either order of their ids, ...    *)
MCRivals ==
    {MCTx(2, 1, 1, A, B, 2, 0, <<R>>), MCTx(2, 1, 1, A, B, 2, 0, <<>>),
     MCTx(3, 1, 1, A, A, 1, 0, <<>>),
     MCTx(3, 1, 1, A, B, 2, 0, <<R>>), MCTx(2, 1, 1, A, A, 1, 0, <<>>)}

MCForks ==
    MCRivals \cup
    {MCTx(4, 2, 1, A, B, 1, 1, <<R, B>>),   \* spends on after 2
     MCTx(5, 3, 2, B, A, 2, 0, <<R>>),      \* approves both spends
     MCTx(6, 1, 1, A, B, 9, 0, <<>>),       \* contests nonce 0, unpayable
     MCTx(7, 3, 5, B, R, 1, 1, <<>>),       \* raises the weight of 3 and 5
     MCTx(7, 2, 4, B, R, 1, 0, <<>>)}       \* or of 2 and 4
    \cup {[MCTx(8, 1, 2, B, A, 1, 0, <<>>) EXCEPT !.wellformed = FALSE]}
=============================================================================
