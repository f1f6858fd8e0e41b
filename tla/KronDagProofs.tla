----------------------------- MODULE KronDagProofs -----------------------------
(***************************************************************************)
(* Theorems about one replica, for every set of vertices and every value   *)
(* of the constants.                                                       *)
(*                                                                         *)
(* Every operation leaves the graph alone or inserts one vertex that       *)
(* passed the graph checks, and every ledger is the one before with one    *)
(* vertex applied, or the result of a replay.  ReplicaState, which holds   *)
(* initially and is preserved by every operation (ReplicaProofs), says     *)
(* what both leave behind; Counted, that the ledger has applied exactly    *)
(* the vertices not recorded as losers, survives as well as long as no     *)
(* rebuild overflows.                                                      *)
(***************************************************************************)
EXTENDS KronDag, ReplicaProofs

-----------------------------------------------------------------------------
(* The inductive invariant.                                                *)

KronInv == /\ ReplicaState(dag, Vertices)
           /\ dag.faucet \in [Address -> 0 .. MaxFaucet]

AmountsPayable == Payable(Vertices)

CountedInv == AmountsPayable => Counted(dag)

(* The walk that raises weights sees the whole graph.                       *)
WalksSeeAll == WalksUncut(Vertices)

(* The vertices of the model are well formed.                               *)
LEMMA VerticesKnown == KnownOK(Vertices)
  BY KronDagAssumption, KronDagRoom, KnownVertices

(* The bound on the credits leaves room for the cap.                        *)
LEMMA FaucetRoom ==
    ASSUME NEW f \in [Address -> 0 .. MaxFaucet]
    PROVE  KnownRoom(Vertices, f) /\ f \in [Address -> 0 .. U64_MAX]
  <1> DEFINE K == Cardinality({t.id : t \in Vertices})
             A == Cardinality(Address)
  <1>0. /\ MaxFaucet \in Nat /\ U64_MAX \in Nat /\ HARD_CAP \in Nat
        /\ PoolBound = INITIAL_TX_SUBSIDY + FIXED_TRANSACTION_FEE
    BY KronDagAssumption, EconomicsAssumption DEF PoolBound
  <1>1. A \in Nat /\ A # 0
    <2>1. Address # {} /\ IsFiniteSet(Address)
      BY DagLedgerAssumption
    <2> QED BY <2>1, FS_CardinalityType, FS_EmptySet
  <1>2. K \in Nat
    BY FS_CardinalityType, KronDagRoom DEF RoomForVertices
  <1>3. /\ K < U64_MAX
        /\ K * PoolBound <= U64_MAX
        /\ A * MaxFaucet + HARD_CAP <= U64_MAX
    BY <1>0, KronDagRoom DEF RoomForVertices
  <1> HIDE DEF K, A
  <1>4. f \in [Address -> Nat] /\ \A a \in Address : f[a] <= MaxFaucet
    BY <1>0
  <1>5. Total(f) \in Nat /\ Total(f) <= A * MaxFaucet
    BY <1>0, <1>4, TotalBounds DEF A
  <1>6. A * MaxFaucet = MaxFaucet + (A - 1) * MaxFaucet
        /\ (A - 1) * MaxFaucet \in Nat
    <2>1. A - 1 \in Nat
      BY <1>1
    <2> QED BY <1>0, <1>1, <2>1
  <1>7. MaxFaucet <= U64_MAX
    BY <1>0, <1>3, <1>6
  <1>8. f \in [Address -> 0 .. U64_MAX]
    BY <1>0, <1>7
  <1>9. Total(f) + HARD_CAP <= U64_MAX
    <2>1. A * MaxFaucet \in Nat
      BY <1>0, <1>1
    <2> QED BY <1>0, <1>3, <1>5, <2>1
  <1>10. K + 1 <= U64_MAX
    BY <1>0, <1>2, <1>3
  <1> QED BY <1>3, <1>8, <1>9, <1>10 DEF KnownRoom, RoomFor, K

-----------------------------------------------------------------------------
(* What each action does, in terms of the operations.                      *)

(* A step without a credit: a refusal, or the storage of one vertex t that  *)
(* passed the graph checks, applied at once or decided by a rebuild.        *)
StoresVertex(t) ==
    /\ GraphVerdict(dag.graph, t) = "Ok" /\ dag'.graph = InsertVertex(dag.graph, t)
    /\ \/ /\ SpendVerdict(dag.ledger, t) = "Ok"
          /\ Counted(dag) => Counted(dag')
          /\ Applied(dag) \subseteq Applied(dag')
       \/ /\ SpendVerdict(dag.ledger, t) \in {"DoubleSpend", "InsufficientBalance"}
          /\ AmountsFit(dag'.graph) =>
                /\ Counted(dag')
                /\ \A i \in Applied(dag') : Winner(dag'.graph, i) = i

(* Whatever entrance a vertex takes, it is refused or stored that way.      *)
LEMMA ArrivalStep ==
    ASSUME KronInv, AcceptWireVertex \/ AttachAndVerify \/ ComposeAndAttach
    PROVE  /\ KronInv'
           /\ UNCHANGED dag \/ \E t \in Vertices : StoresVertex(t)
  <1>1. KnownOK(Vertices) /\ KnownRoom(Vertices, dag.faucet)
    BY VerticesKnown, FaucetRoom DEF KronInv
  <1>2. CASE AcceptWireVertex
    <2>1. PICK t \in Vertices : dag' = accept_wire_vertex(dag, t).dag
      BY <1>2 DEF AcceptWireVertex, Received
    <2>2. IsAccept(dag, Vertices, t, accept_wire_vertex(dag, t))
      BY <1>1, AcceptState DEF KronInv
    <2> QED BY <2>1, <2>2 DEF IsAccept, KronInv, StoresVertex
  <1>3. CASE AttachAndVerify \/ ComposeAndAttach
    <2>1. PICK t \in Vertices : dag' = attach_and_verify_tx(dag, t).dag
      BY <1>3 DEF AttachAndVerify, ComposeAndAttach, Received
    <2>2. IsAttach(dag, Vertices, t, attach_and_verify_tx(dag, t))
      BY <1>1, AttachState DEF KronInv
    <2> QED BY <2>1, <2>2 DEF IsAttach, KronInv, StoresVertex
  <1> QED BY <1>2, <1>3

(* A credit changes neither the graph nor what is applied.                  *)
LEMMA CreditStep ==
    ASSUME KronInv, CreditAccount
    PROVE  /\ KronInv'
           /\ dag'.graph = dag.graph /\ Applied(dag') = Applied(dag)
           /\ Counted(dag) => Counted(dag')
  <1>1. PICK a \in Address, amount \in CreditAmounts :
           dag.faucet[a] + amount <= MaxFaucet /\ dag' = credit_account(dag, a, amount)
    BY DEF CreditAccount
  <1> DEFINE f == [dag.faucet EXCEPT ![a] = @ + amount]
  <1>2. amount \in Nat /\ MaxFaucet \in Nat /\ U64_MAX \in Nat
    BY KronDagAssumption, EconomicsAssumption
  <1>3. f \in [Address -> 0 .. MaxFaucet]
    BY <1>1, <1>2 DEF KronInv
  <1> HIDE DEF f
  <1>4. KnownOK(Vertices) /\ KnownRoom(Vertices, f)
    BY <1>3, VerticesKnown, FaucetRoom
  <1>5. dag.faucet[a] + amount <= U64_MAX
    <2>1. f[a] = dag.faucet[a] + amount
      BY DEF f, KronInv
    <2>2. f[a] \in 0 .. U64_MAX
      BY <1>3, FaucetRoom
    <2> QED BY <1>2, <2>1, <2>2
  <1> DEFINE r == credit_account(dag, a, amount)
  <1>6. /\ ReplicaState(r, Vertices)
        /\ Counted(dag) => Counted(r)
        /\ Applied(r) = Applied(dag) /\ r.graph = dag.graph
        /\ r.faucet = f
    BY <1>2, <1>4, <1>5, CreditState DEF KronInv, f
  <1> QED BY <1>1, <1>3, <1>6 DEF KronInv

-----------------------------------------------------------------------------
(* The replica keeps its invariant through every history of arrivals,       *)
(* conflicts, rebuilds and credits.                                         *)
THEOREM ReplicaInvariant == Spec => []KronInv
  <1>1. Init => KronInv
    <2>1. /\ ReplicaState(with_genesis, Vertices)
          /\ with_genesis.faucet = NoFaucet
      BY VerticesKnown, GenesisState
    <2>2. NoFaucet \in [Address -> 0 .. MaxFaucet]
      BY KronDagAssumption DEF NoFaucet
    <2> QED BY <2>1, <2>2 DEF Init, KronInv
  <1>2. KronInv /\ [Next]_dag => KronInv'
    <2> SUFFICES ASSUME KronInv, [Next]_dag PROVE KronInv'
      OBVIOUS
    <2>1. CASE AcceptWireVertex \/ AttachAndVerify \/ ComposeAndAttach
      BY <2>1, ArrivalStep
    <2>2. CASE CreditAccount
      BY <2>2, CreditStep
    <2>3. CASE UNCHANGED dag
      BY <2>3 DEF KronInv
    <2> QED BY <2>1, <2>2, <2>3 DEF Next
  <1> QED BY <1>1, <1>2, PTL DEF Spec

(* The ledger keeps counting exactly the applied vertices.                  *)
THEOREM CountInvariant == Spec => []CountedInv
  <1>1. Init => CountedInv
    BY VerticesKnown, GenesisState DEF Init, CountedInv
  <1>2. KronInv /\ CountedInv /\ [Next]_dag => CountedInv'
    <2> SUFFICES ASSUME KronInv, CountedInv, [Next]_dag, AmountsPayable
                 PROVE  Counted(dag')
      BY DEF CountedInv, AmountsPayable
    <2>0. Counted(dag)
      BY DEF CountedInv
    <2>1. CASE AcceptWireVertex \/ AttachAndVerify \/ ComposeAndAttach
      <3>1. KronInv' /\ (UNCHANGED dag \/ \E t \in Vertices : StoresVertex(t))
        BY <2>1, ArrivalStep
      <3>2. AmountsFit(dag'.graph)
        BY <3>1, StoredAmounts DEF KronInv, ReplicaState, AmountsPayable
      <3> QED BY <2>0, <3>1, <3>2 DEF StoresVertex
    <2>2. CASE CreditAccount
      BY <2>0, <2>2, CreditStep
    <2>3. CASE UNCHANGED dag
      BY <2>0, <2>3
    <2> QED BY <2>1, <2>2, <2>3 DEF Next
  <1> QED BY <1>1, <1>2, ReplicaInvariant, PTL DEF Spec

(* A weight is the vertex itself plus each of its approvers, counted once,  *)
(* whatever the order of arrival and however many paths lead to it: the     *)
(* depth-first walk of an arrival visits exactly the ancestors of the new   *)
(* vertex, as long as fewer vertices are stored than the walk may visit.    *)
THEOREM WeightTheorem == ASSUME WalksSeeAll PROVE Spec => []WeightsCountApprovers
  <1>1. Init => WeightsCountApprovers
    BY VerticesKnown, GenesisWeights DEF Init, WeightsCountApprovers
  <1>2. KronInv /\ WeightsCountApprovers /\ [Next]_dag => WeightsCountApprovers'
    <2> SUFFICES ASSUME KronInv, WeightsExact(dag.graph), [Next]_dag
                 PROVE  WeightsExact(dag'.graph)
      BY DEF WeightsCountApprovers
    <2>1. CASE AcceptWireVertex \/ AttachAndVerify \/ ComposeAndAttach
      <3>1. UNCHANGED dag \/ \E t \in Vertices : StoresVertex(t)
        BY <2>1, ArrivalStep
      <3>2. ASSUME NEW t \in Vertices, StoresVertex(t) PROVE WeightsExact(dag'.graph)
        <4>1. GraphOK(dag.graph) /\ StoredFrom(dag.graph, Vertices)
          BY DEF KronInv, ReplicaState, ReplicaOK
        <4>2. Cardinality({x.id : x \in Vertices}) + 1 <= U64_MAX
          BY FaucetRoom DEF KronInv, KnownRoom, RoomFor
        <4>3. WeightsExact(InsertVertex(dag.graph, t))
          BY <3>2, <4>1, <4>2, VerticesKnown, StoredWeights DEF StoresVertex, WalksSeeAll
        <4> QED BY <3>2, <4>3 DEF StoresVertex
      <3> QED BY <3>1, <3>2
    <2>2. CASE CreditAccount
      BY <2>2, CreditStep
    <2>3. CASE UNCHANGED dag
      BY <2>3
    <2> QED BY <2>1, <2>2, <2>3 DEF Next
  <1> QED BY <1>1, <1>2, ReplicaInvariant, PTL DEF Spec

(* Whatever arrives, every field of the replica stays in its range: ids,    *)
(* weights, balances, nonces, income and supply fit their integers, and the *)
(* recorded losers are stored.                                              *)
THEOREM TypeTheorem == Spec => []TypeOK
  <1>1. KronInv => TypeOK
    BY VerticesKnown, FaucetRoom, ReplicaTyped DEF KronInv, TypeOK
  <1> QED BY <1>1, ReplicaInvariant, PTL

(* tips_are_consistent holds after any history: a phone never picks a       *)
(* parent that is not a tip, and never overlooks one.                       *)
THEOREM TipsTheorem == Spec => []TipsAreConsistent
  <1>1. KronInv => TipsAreConsistent
    BY DEF KronInv, ReplicaState, ReplicaOK, GraphOK, TipsAreConsistent
  <1> QED BY <1>1, ReplicaInvariant, PTL

(* The attach order, in which bodies are sent and replayed, lists every     *)
(* vertex once and never before its parents.                                *)
THEOREM OrderTheorem == Spec => []AttachOrderIsTopological
  <1>1. KronInv => AttachOrderIsTopological
    BY DEF KronInv, ReplicaState, ReplicaOK, GraphOK, AttachOrderIsTopological
  <1> QED BY <1>1, ReplicaInvariant, PTL

(* What the accounts hold is what was credited plus what was minted, after  *)
(* any number of fees, splits, dust, conflicts and rebuilds, aborted ones   *)
(* included.                                                                *)
THEOREM ConservationTheorem == Spec => []Conservation
  <1>1. KronInv => Conservation
    BY DEF KronInv, ReplicaState, LedgerOK, Conservation, Conserved
  <1> QED BY <1>1, ReplicaInvariant, PTL

(* The supply is what the schedule mints for the applied vertices, never    *)
(* above the cap.                                                           *)
THEOREM SupplyTheorem == ASSUME AmountsPayable PROVE Spec => []SupplyFollowsSchedule
  <1>1. KronInv /\ CountedInv => SupplyFollowsSchedule
    <2> SUFFICES ASSUME KronInv, CountedInv PROVE SupplyFollowsSchedule
      OBVIOUS
    <2>1. LedgerOK(dag.ledger, dag.faucet)
      BY DEF KronInv, ReplicaState
    <2>2. dag.ledger.current_supply <= HARD_CAP
      BY <2>1, LedgerFields, EconomicsAssumption DEF LedgerOK
    <2>3. dag.ledger.dag_tx_count = Cardinality(Applied(dag))
      BY DEF CountedInv, Counted, LedgerCounts
    <2> QED BY <2>1, <2>2, <2>3 DEF LedgerOK, SupplyFollowsSchedule
  <1> QED BY <1>1, ReplicaInvariant, CountInvariant, PTL

(* The applied spends of an account carry the nonces below its next one,    *)
(* each exactly once: no double spend affects balances twice.               *)
THEOREM NonceTheorem == ASSUME AmountsPayable PROVE Spec => []OneSpendPerNonce
  <1>1. CountedInv => OneSpendPerNonce
    BY DEF CountedInv, Counted, LedgerCounts, SpentBy, OneSpendPerNonce, NoncesSpentOnce,
           AppliedBy
  <1> QED BY <1>1, CountInvariant, PTL

-----------------------------------------------------------------------------
(* Rebuilding without conflicts.                                           *)

(* The program signs with the genesis key once, the genesis vertex itself.  *)
(* A spend of that key would be attached with the nonce 1, which a replay   *)
(* that skips genesis does not reach.                                       *)
GenesisKeyRests == GenesisSilent(Vertices)

QuietInv == QuietReplays(dag)

(* A replica that never met a conflict loses nothing when it rebuilds its   *)
(* ledger: whatever was attached and credited, in whatever order, replaying *)
(* the spends over all the credits rejects none and ends in the same        *)
(* balances, income, supply and nonces.                                     *)
THEOREM QuietTheorem ==
    ASSUME AmountsPayable, GenesisKeyRests PROVE Spec => []QuietReplicaSurvivesRebuild
  <1>0. KnownOK(Vertices) /\ Payable(Vertices) /\ GenesisSilent(Vertices)
    BY VerticesKnown DEF AmountsPayable, GenesisKeyRests
  <1>1. Init => QuietInv
    BY <1>0, QuietGenesis DEF Init, QuietInv, QuietReplays
  <1>2. KronInv /\ QuietInv /\ [Next]_dag => QuietInv'
    <2> SUFFICES ASSUME KronInv, QuietReplays(dag), [Next]_dag
                 PROVE  QuietReplays(dag')
      BY DEF QuietInv
    <2>0. ReplicaState(dag, Vertices) /\ KnownRoom(Vertices, dag.faucet)
      BY FaucetRoom DEF KronInv
    <2>1. CASE AcceptWireVertex
      <3>1. PICK t \in Vertices : dag' = accept_wire_vertex(dag, t).dag
        BY <2>1 DEF AcceptWireVertex, Received
      <3>2. QuietReplays(accept_wire_vertex(dag, t).dag)
        BY <1>0, <2>0, QuietAccept
      <3> QED BY <3>1, <3>2
    <2>2. CASE AttachAndVerify \/ ComposeAndAttach
      <3>1. PICK t \in Vertices : dag' = attach_and_verify_tx(dag, t).dag
        BY <2>2 DEF AttachAndVerify, ComposeAndAttach, Received
      <3>2. QuietReplays(attach_and_verify_tx(dag, t).dag)
        BY <1>0, <2>0, QuietAttach
      <3> QED BY <3>1, <3>2
    <2>3. CASE CreditAccount
      <3>1. PICK a \in Address, amount \in CreditAmounts :
               dag.faucet[a] + amount <= MaxFaucet /\ dag' = credit_account(dag, a, amount)
        BY <2>3 DEF CreditAccount
      <3> DEFINE f == [dag.faucet EXCEPT ![a] = @ + amount]
      <3>2. amount \in Nat /\ MaxFaucet \in Nat /\ U64_MAX \in Nat
        BY KronDagAssumption, EconomicsAssumption
      <3>3. f \in [Address -> 0 .. MaxFaucet] /\ f[a] = dag.faucet[a] + amount
        BY <3>1, <3>2 DEF KronInv
      <3> HIDE DEF f
      <3>4. KnownRoom(Vertices, f) /\ dag.faucet[a] + amount <= U64_MAX
        <4>1. KnownRoom(Vertices, f) /\ f \in [Address -> 0 .. U64_MAX]
          BY <3>3, FaucetRoom
        <4> QED BY <3>2, <3>3, <4>1
      <3>5. QuietReplays(credit_account(dag, a, amount))
        BY <1>0, <2>0, <3>2, <3>4, QuietCredit DEF f
      <3> QED BY <3>1, <3>5
    <2>4. CASE UNCHANGED dag
      BY <2>4
    <2> QED BY <2>1, <2>2, <2>3, <2>4 DEF Next
  <1>3. KronInv /\ QuietInv => QuietReplicaSurvivesRebuild
    <2> SUFFICES ASSUME ReplicaState(dag, Vertices), Quiet(dag), Replayable(dag)
                 PROVE  LET rebuilt == resolve_conflicts_and_rebuild_ledger(dag)
                        IN  /\ rebuilt.verdict = "Ok"
                            /\ rebuilt.dag = [dag EXCEPT !.ledger.next_nonce[GenesisSender] = 0]
      BY DEF KronInv, QuietInv, QuietReplays, QuietReplicaSurvivesRebuild
    <2> QED BY QuietSurvives
  <1> QED BY <1>1, <1>2, <1>3, ReplicaInvariant, PTL DEF Spec

-----------------------------------------------------------------------------
(* What a step may do.                                                     *)

(* A vertex stored with a lost nonce or without funds is a conflict that    *)
(* arrives.                                                                 *)
LEMMA ConflictStored ==
    ASSUME KronInv, NEW t \in Vertices, StoresVertex(t)
    PROVE  ConflictArrives <=>
              SpendVerdict(dag.ledger, t) \in {"DoubleSpend", "InsufficientBalance"}
  <1>1. GraphVerdict(dag.graph, t) = "Ok" /\ dag'.graph = InsertVertex(dag.graph, t)
    BY DEF StoresVertex
  <1>2. VertexSet(dag'.graph) = VertexSet(dag.graph) \cup {t.id}
    BY <1>1, InsertedFields
  <1>3. t.id \notin VertexSet(dag.graph) /\ dag'.graph.vertices[t.id] = t
    BY <1>1, VerdictOk DEF InsertVertex
  <1> QED BY <1>2, <1>3 DEF ConflictArrives

(* Only the arrival of a conflicting spend takes back an applied one: no    *)
(* attach, refused vertex or credit reopens the past.                       *)
THEOREM PastTheorem == Spec => OnlyConflictsReopenThePast
  <1>1. KronInv /\ [Next]_dag =>
          [~ConflictArrives => Applied(dag) \subseteq Applied(dag')]_dag
    <2> SUFFICES ASSUME KronInv, Next, ~ConflictArrives
                 PROVE  Applied(dag) \subseteq Applied(dag')
      OBVIOUS
    <2>1. CASE AcceptWireVertex \/ AttachAndVerify \/ ComposeAndAttach
      <3>1. UNCHANGED dag \/ \E t \in Vertices : StoresVertex(t)
        BY <2>1, ArrivalStep
      <3>2. ASSUME NEW t \in Vertices, StoresVertex(t)
            PROVE  Applied(dag) \subseteq Applied(dag')
        BY <3>2, ConflictStored DEF StoresVertex
      <3> QED BY <3>1, <3>2
    <2>2. CASE CreditAccount
      BY <2>2, CreditStep
    <2> QED BY <2>1, <2>2 DEF Next
  <1> QED BY <1>1, ReplicaInvariant, PTL DEF Spec, OnlyConflictsReopenThePast

(* When a conflict is stored, every spend that affects balances afterwards  *)
(* outranks all of its rivals.                                              *)
THEOREM RankTheorem == ASSUME AmountsPayable PROVE Spec => ConflictDecidedByRank
  <1>1. KronInv /\ [Next]_dag =>
          [ConflictArrives =>
             \A i \in Applied(dag') :
                \A j \in Rivals(dag'.graph, i) \ {i} : Outranks(dag'.graph, i, j)]_dag
    <2> SUFFICES ASSUME KronInv, Next, ConflictArrives, NEW i \in Applied(dag'),
                        NEW j \in Rivals(dag'.graph, i) \ {i}
                 PROVE  Outranks(dag'.graph, i, j)
      OBVIOUS
    <2>0. ~(dag'.graph = dag.graph)
      BY DEF ConflictArrives
    <2>1. CASE AcceptWireVertex \/ AttachAndVerify \/ ComposeAndAttach
      <3>1. KronInv' /\ \E t \in Vertices : StoresVertex(t)
        BY <2>0, <2>1, ArrivalStep
      <3>2. PICK t \in Vertices : StoresVertex(t)
        BY <3>1
      <3>3. /\ GraphOK(dag'.graph) /\ StoredFrom(dag'.graph, Vertices)
        BY <3>1 DEF KronInv, ReplicaState, ReplicaOK
      <3>4. AmountsFit(dag'.graph)
        BY <3>3, StoredAmounts DEF AmountsPayable
      <3>5. Winner(dag'.graph, i) = i
        BY <3>2, <3>4, ConflictStored DEF StoresVertex
      <3>6. i \in UserVertices(dag'.graph)
        BY DEF Applied
      <3> QED BY <3>3, <3>5, <3>6, WinnerFacts
    <2>2. CASE CreditAccount
      BY <2>0, <2>2, CreditStep
    <2> QED BY <2>1, <2>2 DEF Next
  <1> QED BY <1>1, ReplicaInvariant, PTL DEF Spec, ConflictDecidedByRank
=============================================================================
