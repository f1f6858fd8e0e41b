-------------------------------- MODULE KronDag --------------------------------
(***************************************************************************)
(* One DAG replica as the rest of the program drives it: hubs accept       *)
(* vertices from the wire, phones attach what they mined or were sent, and *)
(* an operator credits an account.  Every call runs under the lock of the  *)
(* replica, so each is one atomic action.                                  *)
(***************************************************************************)
EXTENDS ReplicaFacts

CONSTANTS
    Vertices,      \* the signed vertices that phones may send or compose
    CreditAmounts, \* the sizes of a bootstrap credit
    MaxFaucet      \* bound: the credit one account receives in total

ASSUME KronDagAssumption ==
    /\ AreVertices(Vertices)
    /\ CreditAmounts \subseteq Nat \ {0}
    /\ MaxFaucet \in Nat

(* 64 bits hold what these vertices and credits can add up to.              *)
ASSUME KronDagRoom ==
    /\ RoomForVertices(Vertices)
    /\ Cardinality(Address) * MaxFaucet + HARD_CAP <= U64_MAX

VARIABLE dag

Received == {t \in Vertices : Receivable(dag.graph, t)}

Init == dag = with_genesis

AcceptWireVertex ==
    \E t \in Received : dag' = accept_wire_vertex(dag, t).dag

AttachAndVerify ==
    \E t \in Received : dag' = attach_and_verify_tx(dag, t).dag

(* compose_and_sign takes the next nonce of the sender and parents of the   *)
(* replica's own choice; the phone then attaches the vertex it signed.      *)
ComposeAndAttach ==
    \E t \in Received :
        /\ t.nonce = dag.ledger.next_nonce[t.sender]
        /\ <<t.parent_1, t.parent_2>> \in ParentChoices(dag.graph)
        /\ dag' = attach_and_verify_tx(dag, t).dag

CreditAccount ==
    \E a \in Address, amount \in CreditAmounts :
        /\ dag.faucet[a] + amount <= MaxFaucet
        /\ dag' = credit_account(dag, a, amount)

Next == AcceptWireVertex \/ AttachAndVerify \/ ComposeAndAttach \/ CreditAccount

Spec == Init /\ [][Next]_dag

-----------------------------------------------------------------------------
(* Type correctness of the replica.                                         *)
TypeOK == IsReplica(dag)

(* tips_are_consistent: the incremental updates of tips and children agree  *)
(* with the parent links of the stored vertices, after any arrivals.        *)
TipsAreConsistent == TipsConsistent(dag.graph)

(* Bodies are sent and persisted in attach order so that a receiver knows   *)
(* the parents of each before it: the order lists every vertex once and no  *)
(* vertex before its parents.                                               *)
AttachOrderIsTopological == OrderTopological(dag.graph)

(* The cumulative weight of increment_ancestor_weights is the vertex itself *)
(* plus each vertex that approves it, directly or indirectly, counted once, *)
(* whatever the order of arrival and however many paths lead to it.         *)
WeightsCountApprovers == WeightsExact(dag.graph)

(* No units appear or vanish: what the accounts hold is what was credited   *)
(* plus what was minted, through fees, splits, dust and every rebuild.      *)
Conservation == Conserved(dag)

(* The supply is what the emission schedule mints for the number of applied *)
(* vertices, and never passes the cap; each applied vertex mints once.      *)
SupplyFollowsSchedule ==
    LET count == dag.ledger.dag_tx_count
    IN  /\ count = Cardinality(Applied(dag))
        /\ dag.ledger.current_supply = emitted[count]
        /\ dag.ledger.current_supply <= HARD_CAP

(* The spends of an account that affect balances carry the nonces           *)
(* 0 .. next_nonce - 1, each exactly once, whatever was stored, lost or     *)
(* reinstated on the way.                                                   *)
OneSpendPerNonce == NoncesSpentOnce(dag)

(* A replica that never met a conflict loses nothing when it rebuilds its   *)
(* ledger, as a restart does: replaying over the full faucet baseline gives *)
(* the incremental ledger back.  (A rebuild skips genesis, so the nonce of  *)
(* the genesis account falls back to 0.)                                    *)
QuietReplicaSurvivesRebuild ==
    LET rebuilt == resolve_conflicts_and_rebuild_ledger(dag)
    IN  Quiet(dag) =>
            /\ rebuilt.verdict = "Ok"
            /\ rebuilt.dag = [dag EXCEPT !.ledger.next_nonce[GenesisSender] = 0]

(* A spend that loses its nonce or its funds on arrival.                    *)
ConflictArrives ==
    \E i \in VertexSet(dag'.graph) \ VertexSet(dag.graph) :
        SpendVerdict(dag.ledger, dag'.graph.vertices[i])
            \in {"DoubleSpend", "InsufficientBalance"}

(* Only the arrival of a conflicting spend takes back a spend that already  *)
(* affected balances; no other call reopens the past.                       *)
OnlyConflictsReopenThePast ==
    [][~ConflictArrives => Applied(dag) \subseteq Applied(dag')]_dag

(* When a conflict is stored every nonce is decided afresh by rank: each    *)
(* spend that affects balances outranks all of its rivals.                  *)
ConflictDecidedByRank ==
    [][ConflictArrives =>
          \A i \in Applied(dag') :
              \A j \in Rivals(dag'.graph, i) \ {i} : Outranks(dag'.graph, i, j)]_dag

-----------------------------------------------------------------------------
(* What the documentation promises and the code does not keep.             *)

(* README "Conflict rule": of same-sender spends that cannot both be true   *)
(* the one with the higher weight wins, equal weights by the greater id.    *)
(* Here of the losers the replica records, in every state.                  *)
HigherWeightWins ==
    \A loser \in DOMAIN dag.conflicts :
        dag.conflicts[loser] # NULL_PARENT =>
            Outranks(dag.graph, dag.conflicts[loser], loser)

(* The contract of accept_wire_vertex: a conflicting spend is stored and    *)
(* the ledger rebuilt so that exactly one of the spends affects balances.   *)
ConflictKeepsOneSpend ==
    [][\A i \in Applied(dag) :
          Cardinality(Rivals(dag'.graph, i) \cap Applied(dag')) = 1]_dag
=============================================================================
