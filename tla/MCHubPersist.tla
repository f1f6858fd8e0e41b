----------------------------- MODULE MCHubPersist -----------------------------
(***************************************************************************)
(* Instances of HubPersist for TLC: a phone A with credit whose spends     *)
(* build on each other and contest a nonce, and a miner that needs dust.   *)
(***************************************************************************)
EXTENDS HubPersist

CONSTANTS A, M, R, G    \* a spending phone, the miner, a relay, genesis
CONSTANTS t1, t2, m     \* two sessions and the mining thread

MCTx(id, p1, p2, from, to, amount, nonce, relays) ==
    [id |-> id, parent_1 |-> p1, parent_2 |-> p2, sender |-> from,
     recipient |-> to, amount |-> amount, nonce |-> nonce,
     relays |-> relays, wellformed |-> TRUE]

MCFaucet == [a \in {A, M, R, G} |-> IF a = A THEN 6 ELSE 0]

MCSpends ==
    {MCTx(2, 1, 1, A, R, 2, 0, <<R>>),
     MCTx(3, 2, 1, A, R, 1, 1, <<>>),     \* spends on after 2
     MCTx(4, 1, 1, A, A, 1, 0, <<>>)}     \* contests nonce 0 of A

MCShares ==
    {MCTx(5, 1, 1, M, M, 1, 0, <<>>),     \* the first share, paid with dust
     MCTx(6, 2, 5, M, M, 1, 1, <<>>)}     \* approves a share and a spend

MCVertices == MCSpends \cup MCShares

(* The instance meets what FundedTheorem assumes of the shares.             *)
ASSUME MCSharesAssumption == MinesAlone /\ OneFirstShare
=============================================================================
