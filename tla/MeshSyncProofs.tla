---------------------------- MODULE MeshSyncProofs ----------------------------
(***************************************************************************)
(* Theorems about two hubs and their sessions, for every history, every    *)
(* set of fresh vertices, and any number of timeouts and refusals.         *)
(*                                                                         *)
(* The argument about the session is a table: for every pair of places     *)
(* that the two threads can have reached, what is on its way to each.      *)
(* Lockstep is that table, and every action moves from one row to another. *)
(***************************************************************************)
EXTENDS MeshSync, ReplicaProofs

-----------------------------------------------------------------------------
(* The replicas.                                                           *)

(* The vertices of the model are well formed, and 64 bits hold what they    *)
(* and the credits add up to.                                               *)
LEMMA VerticesKnown == KnownOK(Vertices) /\ KnownRoom(Vertices, Faucet)
  <1> DEFINE K == Cardinality({t.id : t \in Vertices})
  <1>1. KnownOK(Vertices)
    BY MeshSyncVertices, MeshSyncRoom, KnownVertices
  <1>2. K \in Nat /\ K < U64_MAX /\ K * PoolBound <= U64_MAX
    BY MeshSyncRoom, FS_CardinalityType DEF RoomForVertices, PoolBound
  <1> HIDE DEF K
  <1>3. K + 1 <= U64_MAX
    BY <1>2, EconomicsAssumption
  <1> QED BY <1>1, <1>2, <1>3, MeshSyncAssumption, MeshSyncRoom DEF KnownRoom, RoomFor, K

(* The two graphs and the common faucet.                                    *)
ReplicasOK(dags) ==
    \A h \in Hubs : ReplicaState(dags[h], Vertices) /\ dags[h].faucet = Faucet

(* Each hub starts in such a state.                                         *)
LEMMA StartedOK ==
    ASSUME NEW h \in Hubs
    PROVE  /\ ReplicaState(Started(h), Vertices) /\ Started(h).faucet = Faucet
           /\ WalksUncut(Vertices) => WeightsExact(Started(h).graph)
  <1>1. History[h] \in Seq(Vertices)
    BY MeshSyncVertices
  <1> DEFINE d == Recovered(History[h], Faucet).dag
             r == resolve_conflicts_and_rebuild_ledger(d)
  <1>2. Started(h) = r.dag
    BY DEF Started
  <1>3. /\ ReplicaState(d, Vertices) /\ d.faucet = Faucet
        /\ WalksUncut(Vertices) => WeightsExact(d.graph)
    BY <1>1, VerticesKnown, RecoveredState
  <1> HIDE DEF d
  <1>4. IsRebuild(d, Vertices, r)
    BY <1>3, VerticesKnown, RebuildState
  <1> HIDE DEF r
  <1> QED BY <1>2, <1>3, <1>4 DEF IsRebuild

(* ... and accepts vertices as any replica does.                            *)
LEMMA AcceptOK ==
    ASSUME NEW d, ReplicaState(d, Vertices), d.faucet = Faucet,
           NEW t \in Vertices, NEW r, r = accept_wire_vertex(d, t)
    PROVE  /\ ReplicaState(r.dag, Vertices) /\ r.dag.faucet = Faucet
           /\ \/ r.dag = d
              \/ GraphVerdict(d.graph, t) = "Ok" /\ r.dag.graph = InsertVertex(d.graph, t)
  <1>1. IsAccept(d, Vertices, t, r)
    BY VerticesKnown, AcceptState
  <1> QED BY <1>1 DEF IsAccept

-----------------------------------------------------------------------------
(* The same graph has the same winners.                                    *)

(* Two graphs of the same vertices, stored in whatever order.               *)
SameVertices(g, h) ==
    /\ GraphOK(g) /\ GraphOK(h) /\ StoredFrom(g, Vertices) /\ StoredFrom(h, Vertices)
    /\ VertexSet(g) = VertexSet(h)

(* They agree on what every sender signed.                                  *)
LEMMA SameSigned ==
    ASSUME NEW g, NEW h, SameVertices(g, h), NEW i \in VertexSet(g)
    PROVE  /\ g.vertices[i].parent_1 = h.vertices[i].parent_1
           /\ g.vertices[i].parent_2 = h.vertices[i].parent_2
           /\ g.vertices[i].sender = h.vertices[i].sender
           /\ g.vertices[i].nonce = h.vertices[i].nonce
  <1> DEFINE t == g.vertices[i]
             u == h.vertices[i]
  <1>1. CASE i = GenesisId
    BY <1>1 DEF SameVertices, StoredFrom
  <1>2. CASE i # GenesisId
    <2>1. t \in Vertices /\ u \in Vertices /\ t.id = i /\ u.id = i
      BY <1>2 DEF SameVertices, StoredFrom
    <2>2. Signed(t) = Signed(u)
      BY <2>1, MeshSyncHashes
    <2> HIDE DEF t, u
    <2>3. <<t.parent_1, t.parent_2, t.sender, t.recipient, t.amount, t.nonce>>
            = <<u.parent_1, u.parent_2, u.sender, u.recipient, u.amount, u.nonce>>
      BY <2>2 DEF Signed
    <2> QED BY <2>3 DEF t, u
  <1> QED BY <1>1, <1>2

(* ... and so on the approvers of every vertex, and on its weight.          *)
LEMMA SameWeights ==
    ASSUME NEW g, NEW h, SameVertices(g, h), WeightsExact(g), WeightsExact(h),
           NEW i \in VertexSet(g)
    PROVE  g.weights[i] = h.weights[i]
  <1>0. VertexSet(h) = VertexSet(g) /\ GraphOK(g) /\ GraphOK(h)
    BY DEF SameVertices
  <1>1. \A j \in VertexSet(g) : ParentSet(g.vertices[j]) = ParentSet(h.vertices[j])
    BY SameSigned DEF ParentSet
  <1>2. \A C : IsClosed(g, C) <=> IsClosed(h, C)
    BY <1>0, <1>1 DEF IsClosed
  <1>3. ASSUME NEW j \in VertexSet(g) PROVE Ancestors(g, j) = Ancestors(h, j)
    <2> DEFINE S == ParentSet(g.vertices[j])
    <2>1. IsClosure(g, S, Ancestors(g, j))
      BY <1>0, AncestorsFacts
    <2>2. IsClosure(h, S, Ancestors(h, j))
      BY <1>0, <1>1, AncestorsFacts
    <2> HIDE DEF S
    <2>3. IsClosure(g, S, Ancestors(h, j))
      BY <1>2, <2>2 DEF IsClosure
    <2> QED BY <2>1, <2>3, ClosureUnique
  <1>4. {j \in VertexSet(g) : i \in Ancestors(g, j)} = {j \in VertexSet(h) : i \in Ancestors(h, j)}
    BY <1>0, <1>3
  <1>5. /\ g.weights[i] = 1 + Cardinality({j \in VertexSet(g) : i \in Ancestors(g, j)})
        /\ h.weights[i] = 1 + Cardinality({j \in VertexSet(h) : i \in Ancestors(h, j)})
    BY <1>0 DEF WeightsExact
  <1> QED BY <1>4, <1>5

(* ... and on the winner among the rivals of every spend.                   *)
LEMMA SameLosers ==
    ASSUME NEW g, NEW h, SameVertices(g, h), WeightsExact(g), WeightsExact(h)
    PROVE  Losers(g) = Losers(h)
  <1>0. VertexSet(h) = VertexSet(g) /\ GraphOK(g) /\ GraphOK(h)
    BY DEF SameVertices
  <1>1. UserVertices(g) = UserVertices(h)
    BY <1>0, SameSigned DEF UserVertices, is_genesis
  <1>2. ASSUME NEW i \in UserVertices(g) PROVE Winner(g, i) = Winner(h, i)
    <2> DEFINE R == Rivals(g, i)
               v == Winner(g, i)
               w == Winner(h, i)
    <2>1. R = Rivals(h, i) /\ R \subseteq VertexSet(g)
      <3>1. i \in VertexSet(g) /\ UserVertices(g) \subseteq VertexSet(g)
        BY DEF UserVertices
      <3>2. ASSUME NEW j \in UserVertices(g)
            PROVE  /\ (g.vertices[j].sender = g.vertices[i].sender)
                        <=> (h.vertices[j].sender = h.vertices[i].sender)
                   /\ (g.vertices[j].nonce = g.vertices[i].nonce)
                        <=> (h.vertices[j].nonce = h.vertices[i].nonce)
        BY <3>1, SameSigned
      <3> QED BY <1>1, <3>1, <3>2 DEF Rivals
    <2>2. v \in R /\ \A j \in R \ {v} : Outranks(g, v, j)
      BY <1>0, WinnerFacts
    <2>3. w \in R /\ \A j \in R \ {w} : Outranks(h, w, j)
      BY <1>0, <1>1, <2>1, WinnerFacts
    <2> HIDE DEF R, v, w
    <2>4. ASSUME v # w PROVE FALSE
      <3>1. Outranks(g, v, w) /\ Outranks(h, w, v)
        BY <2>2, <2>3, <2>4
      <3>2. /\ v \in Nat /\ w \in Nat
            /\ g.weights[v] = h.weights[v] /\ g.weights[w] = h.weights[w]
            /\ g.weights[v] \in Nat /\ g.weights[w] \in Nat
        <4>1. v \in VertexSet(g) /\ w \in VertexSet(g)
          BY <2>1, <2>2, <2>3
        <4>2. g.weights[v] = h.weights[v] /\ g.weights[w] = h.weights[w]
          BY <4>1, SameWeights
        <4>3. VertexSet(g) \subseteq TxHash /\ TxHash \subseteq Nat
          BY <1>0, DagGraphAssumption DEF GraphOK
        <4>4. g.weights \in [VertexSet(g) -> 0 .. U64_MAX]
          BY <1>0 DEF GraphOK
        <4>5. v \in Nat /\ w \in Nat
          BY <4>1, <4>3
        <4>6. g.weights[v] \in 0 .. U64_MAX /\ g.weights[w] \in 0 .. U64_MAX
          BY <4>1, <4>4
        <4> QED BY <4>2, <4>5, <4>6, EconomicsAssumption
      <3> QED BY <3>1, <3>2 DEF Outranks
    <2> QED BY <2>4 DEF v, w
  <1> QED BY <1>1, <1>2 DEF Losers

-----------------------------------------------------------------------------
(* Graphs that can be sent.                                                *)

(* So a log is read back into such a graph.                                 *)
LEMMA RecoveredStock ==
    ASSUME NEW Known, KnownOK(Known), NEW f, KnownRoom(Known, f),
           NEW txs \in Seq(Known), NEW d, d = Recovered(txs, f).dag
    PROVE  Stocked(d.graph)
  <1> DEFINE N == Len(txs)
  <1>1. N \in Nat /\ DOMAIN txs = 1 .. N /\ \A n \in 1 .. N : txs[n] \in Known
    OBVIOUS
  <1>2. PICK run : IsRecovery(f, txs, N, run) /\ Recovered(txs, f) = run[N]
    BY <1>1, RecoveryRun
  <1> HIDE DEF N
  <1> DEFINE Held(n) == /\ ReplicaState(run[n].dag, Known) /\ run[n].dag.faucet = f
                        /\ Stocked(run[n].dag.graph)
             T == {n \in 0 .. N : Held(n)}
  <1>3. 0 \in T
    <2> DEFINE b == CreditAll(with_genesis, f)
    <2>1. ReplicaState(b, Known) /\ b.faucet = f /\ Stocked(b.graph)
      <3>1. f \in [Address -> 0 .. U64_MAX]
        BY DEF KnownRoom, RoomFor
      <3> QED BY <3>1, BootstrapState, GenesisStocked
    <2>2. run[0].dag = b
      BY <1>2 DEF IsRecovery
    <2> HIDE DEF b
    <2> QED BY <1>1, <2>1, <2>2
  <1>4. ASSUME NEW n \in 1 .. N, n - 1 \in T PROVE n \in T
    <2> DEFINE r == run[n - 1]
               s == run[n]
               t == txs[n]
    <2>1. ReplicaState(r.dag, Known) /\ r.dag.faucet = f /\ Stocked(r.dag.graph)
      BY <1>4
    <2>2. s = ReplayRecord(r, t) /\ t \in Known
      BY <1>1, <1>2 DEF IsRecovery
    <2> HIDE DEF r, s, t
    <2>3. IsRecordRead(Known, r, t, s)
      BY <2>1, <2>2, RecordRead
    <2>4. Stocked(s.dag.graph)
      <3>1. GraphOK(r.dag.graph) /\ StoredFrom(r.dag.graph, Known)
        BY <2>1 DEF ReplicaState, ReplicaOK
      <3>2. GraphVerdict(r.dag.graph, t) = "Ok" => Stocked(InsertVertex(r.dag.graph, t))
        BY <2>1, <2>2, <3>1, InsertKeepsStock
      <3> QED BY <2>1, <2>3, <3>2 DEF IsRecordRead
    <2>5. Held(n)
      BY <2>1, <2>3, <2>4 DEF s, IsRecordRead
    <2> HIDE DEF Held
    <2> QED BY <2>5
  <1>5. Held(N)
    <2>1. \A n \in 0 .. N : n \in T
      <3> HIDE DEF T
      <3> QED BY <1>1, <1>3, <1>4, IndexSetInduction
    <2>2. N \in 0 .. N
      BY <1>1
    <2> HIDE DEF Held
    <2> QED BY <2>1, <2>2
  <1> QED BY <1>2, <1>5

(* Each hub starts with such a graph.                                       *)
LEMMA StartedStock ==
    ASSUME NEW h \in Hubs
    PROVE  Stocked(Started(h).graph)
  <1>1. History[h] \in Seq(Vertices)
    BY MeshSyncVertices
  <1> DEFINE d == Recovered(History[h], Faucet).dag
             r == resolve_conflicts_and_rebuild_ledger(d)
  <1>2. Started(h) = r.dag
    BY DEF Started
  <1>3. ReplicaState(d, Vertices) /\ d.faucet = Faucet /\ Stocked(d.graph)
    BY <1>1, VerticesKnown, RecoveredState, RecoveredStock
  <1> HIDE DEF d
  <1>4. IsRebuild(d, Vertices, r)
    BY <1>3, VerticesKnown, RebuildState
  <1> HIDE DEF r
  <1> QED BY <1>2, <1>3, <1>4 DEF IsRebuild

(* A spend whose amount fits never overflows: the recipient cannot hold     *)
(* more than there is.                                                      *)
LEMMA SpendFits ==
    ASSUME NEW L, NEW faucet, LedgerOK(L, faucet),
           faucet \in [Address -> 0 .. U64_MAX], Total(faucet) + HARD_CAP <= U64_MAX,
           NEW t, IsTransaction(t), ~is_genesis(t),
           t.amount + FIXED_TRANSACTION_FEE <= U64_MAX
    PROVE  SpendVerdict(L, t) \in {"Ok", "DoubleSpend", "InsufficientBalance"}
  <1> DEFINE bal  == L.balances
             cost == t.amount + Fee(t)
             a    == t.sender
             b    == t.recipient
  <1>1. /\ U64_MAX \in Nat /\ HARD_CAP \in Nat /\ FIXED_TRANSACTION_FEE \in Nat
        /\ a \in Address /\ b \in Address /\ t.amount \in Nat
    BY EconomicsAssumption DEF IsTransaction
  <1>2. /\ bal \in [Address -> Nat] /\ Total(bal) \in Nat
        /\ L.current_supply \in 0 .. HARD_CAP
        /\ Total(bal) = Total(faucet) + L.current_supply
    BY LedgerFields DEF LedgerOK
  <1>3. Total(faucet) \in Nat
    <2>1. faucet \in [Address -> Nat]
      BY <1>1
    <2> QED BY <2>1, TotalBounds, 0 \in Nat
  <1>4. cost \in Nat /\ t.amount <= cost /\ cost <= U64_MAX
    BY <1>1 DEF Fee
  <1>5. ASSUME bal[a] >= cost, a # b PROVE bal[b] + t.amount <= U64_MAX
    <2>1. bal[a] + bal[b] <= Total(bal) /\ bal[a] \in Nat /\ bal[b] \in Nat
      BY <1>1, <1>2, <1>5, TotalOfTwo
    <2> HIDE DEF bal, cost
    <2> QED BY <1>1, <1>2, <1>3, <1>4, <1>5, <2>1
  <1>6. bal[a] \in Nat
    BY <1>1, <1>2
  <1>7. /\ ~(cost > U64_MAX)
        /\ ~(bal[a] < cost) /\ a # b => ~(bal[b] + t.amount > U64_MAX)
    <2>1. bal[b] + t.amount \in Nat
      BY <1>1, <1>2
    <2> HIDE DEF bal, cost, a, b
    <2> QED BY <1>1, <1>4, <1>5, <1>6, <2>1
  <1> QED BY <1>7, Zenon DEF SpendVerdict

(* A well-formed vertex whose parents are stored is stored when it arrives, *)
(* if it was not already.                                                   *)
LEMMA AcceptStores ==
    ASSUME Payable(Vertices), NEW d, ReplicaState(d, Vertices), d.faucet = Faucet,
           NEW t \in Vertices, t.wellformed,
           {t.parent_1, t.parent_2} \subseteq VertexSet(d.graph),
           NEW r, r = accept_wire_vertex(d, t)
    PROVE  t.id \in VertexSet(r.dag.graph)
  <1> DEFINE g        == d.graph
             attached == attach_and_verify_tx(d, t)
             stored   == insert_graph_only(d, t)
             rebuilt  == resolve_conflicts_and_rebuild_ledger(stored.dag)
  <1>1. r = IF t.id \in VertexSet(g) THEN [verdict |-> "Known", dag |-> d]
            ELSE IF attached.verdict \notin {"DoubleSpend", "InsufficientBalance"}
            THEN attached
            ELSE IF stored.verdict # "Ok" THEN stored ELSE rebuilt
    BY DEF accept_wire_vertex
  <1>2. CASE t.id \in VertexSet(g)
    BY <1>1, <1>2
  <1>3. CASE t.id \notin VertexSet(g)
    <2>1. GraphOK(g) /\ StoredFrom(g, Vertices) /\ LedgerOK(d.ledger, Faucet)
      BY DEF ReplicaState, ReplicaOK
    <2>2. t.id \in TxHash /\ IsTransaction(t)
      BY VerticesKnown DEF KnownOK
    <2>3. ~is_genesis(t)
      <3>1. NULL_PARENT \notin VertexSet(g)
        BY <2>1, DagGraphAssumption DEF GraphOK
      <3> QED BY <3>1 DEF is_genesis
    <2>4. GraphVerdict(g, t) = "Ok"
      BY <1>3, <2>3 DEF GraphVerdict, ParentsAdmitted
    <2>5. SpendVerdict(d.ledger, t) \in {"Ok", "DoubleSpend", "InsufficientBalance"}
      BY <2>1, <2>2, <2>3, SpendFits, MeshSyncAssumption, MeshSyncRoom DEF Payable
    <2>6. IsAttach(d, Vertices, t, attached)
      BY VerticesKnown, AttachState
    <2>7. t.id \in VertexSet(InsertVertex(g, t))
      BY InsertedFields
    <2>8. CASE SpendVerdict(d.ledger, t) = "Ok"
      <3> HIDE DEF attached
      <3>1. attached.verdict = "Ok" /\ attached.dag.graph = InsertVertex(g, t)
        BY <2>4, <2>6, <2>8 DEF IsAttach
      <3> QED BY <1>1, <1>3, <2>7, <3>1
    <2>9. CASE SpendVerdict(d.ledger, t) # "Ok"
      <3> DEFINE s == stored.dag
      <3>1. attached.verdict \in {"DoubleSpend", "InsufficientBalance"}
        <4> HIDE DEF attached
        <4> QED BY <2>4, <2>5, <2>6, <2>9 DEF IsAttach
      <3>2. /\ stored.verdict = "Ok"
            /\ s = [d EXCEPT !.graph = InsertVertex(g, t)]
        BY <2>4 DEF insert_graph_only
      <3> HIDE DEF attached, s
      <3>3. s.graph = InsertVertex(g, t) /\ s.faucet = d.faucet
        BY <3>2 DEF ReplicaState, ReplicaOK, IsRecord
      <3>4. ReplicaState(s, Vertices)
        BY <2>4, <3>2, VerticesKnown, StoredState
      <3>5. r = resolve_conflicts_and_rebuild_ledger(s)
        BY <1>1, <1>3, <3>1, <3>2 DEF s
      <3>6. IsRebuild(s, Vertices, r)
        BY <3>3, <3>4, <3>5, VerticesKnown, RebuildState
      <3> QED BY <2>7, <3>3, <3>6 DEF IsRebuild
    <2> QED BY <2>8, <2>9
  <1> QED BY <1>2, <1>3

-----------------------------------------------------------------------------
(* What the messages carry.                                                *)

Hashes == TxHash \ {GenesisId}

Inventories == [tips : SUBSET TxHash, recent : SUBSET TxHash]

Pings       == {Msg("Ping")}
Pongs       == {Msg("Pong")}
Dones       == {Msg("Done")}
InvMsgs     == {InvMsg(inv) : inv \in Inventories}
NeedMsgs    == {IdsMsg("Need", ids) : ids \in SUBSET Hashes}
HaveMsgs    == {IdsMsg("Have", ids) : ids \in SUBSET TxHash}
BodyMsgs    == {BodyMsg(t) : t \in Vertices}

(* An inventory lists stored vertices, and the closure of a tip only has    *)
(* such, whether or not a walk was cut.                                     *)
LEMMA InventoryTyped ==
    ASSUME NEW g, GraphOK(g)
    PROVE  InvMsg(from_dag(g)) \in InvMsgs
  <1>1. g.tips \subseteq VertexSet(g) /\ VertexSet(g) \subseteq TxHash
    BY DEF GraphOK, TipsConsistent
  <1>2. ASSUME NEW tip \in g.tips PROVE parent_closure(g, tip) \subseteq VertexSet(g)
    <2> DEFINE w == Walk(g, <<tip>>)
               s == <<tip>>
               K == WalkLength(g)
    <2>1. s \in Seq(VertexSet(g))
      BY <1>1, <1>2
    <2> HIDE DEF s
    <2>2. PICK run : IsWalkRun(g, s, run)
      BY <2>1, WalkRun
    <2>3. K \in Nat
      BY FS_CardinalityType DEF GraphOK, WalkLength
    <2>4. w \in WalkStates(VertexSet(g))
      <3>1. K \in 0 .. K
        BY <2>3
      <3>2. w = run[K] /\ run[K] \in WalkStates(VertexSet(g))
        BY <2>2, <3>1 DEF IsWalkRun, s
      <3> QED BY <3>2
    <2>5. parent_closure(g, tip) = w.visited \cup w.cut
      BY DEF parent_closure
    <2> HIDE DEF w
    <2> QED BY <2>4, <2>5 DEF WalkStates
  <1> DEFINE closures == UNION {parent_closure(g, tip) : tip \in g.tips}
             recent   == closures \ {g.genesis_id}
             inv      == [tips |-> g.tips, recent |-> recent]
  <1>3. from_dag(g) = inv
    BY DEF from_dag
  <1>4. closures \subseteq VertexSet(g)
    <2> QED BY <1>2
  <1>5. recent \subseteq TxHash
    <2> HIDE DEF closures
    <2> QED BY <1>1, <1>4
  <1> HIDE DEF recent
  <1>6. inv \in Inventories
    BY <1>1, <1>5 DEF Inventories
  <1> HIDE DEF inv
  <1> QED BY <1>3, <1>6 DEF InvMsgs

(* Nobody asks for genesis.                                                 *)
LEMMA NeedTyped ==
    ASSUME NEW g, GraphOK(g), GenesisId \in VertexSet(g), NEW inv \in Inventories
    PROVE  collect_need(g, inv) \in SUBSET Hashes
  <1>1. \A i \in VertexSet(g) : ParentSet(g.vertices[i]) \subseteq VertexSet(g)
    BY DEF GraphOK, ParentsStored, ParentSet
  <1>2. inv.tips \subseteq TxHash /\ inv.recent \subseteq TxHash
    BY DEF Inventories
  <1> QED BY <1>1, <1>2 DEF collect_need, advertised, Hashes

(* A list of all that is stored makes the receiver need what it lacks.      *)
LEMMA NeedIsMissing ==
    ASSUME NEW g, GraphOK(g), GenesisId \in VertexSet(g),
           NEW inv, NEW A, advertised(inv) \cup {GenesisId} = A
    PROVE  collect_need(g, inv) = A \ VertexSet(g)
  <1>1. \A i \in VertexSet(g) : ParentSet(g.vertices[i]) \subseteq VertexSet(g)
    BY DEF GraphOK, ParentsStored, ParentSet
  <1> DEFINE under == UNION {ParentSet(g.vertices[tip]) : tip \in inv.tips \cap VertexSet(g)}
  <1>2. under \subseteq VertexSet(g)
    BY <1>1
  <1>3. collect_need(g, inv) = (advertised(inv) \cup under) \ VertexSet(g)
    BY DEF collect_need
  <1> HIDE DEF under
  <1> QED BY <1>2, <1>3

(* What is offered beyond a list, is offered with all its parents beyond    *)
(* the list.                                                                *)
LEMMA HaveIsClosed ==
    ASSUME NEW g, GraphOK(g), NEW known, NEW H, H = collect_have(g, known)
    PROVE  /\ H \subseteq VertexSet(g) \ {g.genesis_id}
           /\ \A i \in H : ParentSet(g.vertices[i]) \subseteq H \cup known \cup {g.genesis_id}
  <1> DEFINE S == VertexSet(g)
             N == Cardinality(S)
             V == SUBSET S
             Unlisted(ids) == ids \ (known \cup {g.genesis_id, NULL_PARENT})
             More(C) == Unlisted(UNION {ParentSet(g.vertices[i]) : i \in C})
             Step(C) == C \cup More(C)
             b == Unlisted(g.tips)
             Eq(f) == f = [n \in 0 .. N |->
                             IF n = 0 THEN b
                             ELSE f[n - 1] \cup
                                    Unlisted(UNION {ParentSet(g.vertices[i]) : i \in f[n - 1]})]
             grow == CHOOSE f : Eq(f)
             step == [p \in Nat \X V |-> Step(p[2])]
  <1>1. /\ IsFiniteSet(S) /\ N \in Nat /\ g.tips \subseteq S
    BY FS_CardinalityType DEF GraphOK, TipsConsistent
  <1>2. H = grow[N]
    BY DEF collect_have
  <1>3. \A i \in S : ParentSet(g.vertices[i]) \subseteq S
    BY DEF GraphOK, ParentsStored, ParentSet
  <1>4. /\ b \in V /\ g.genesis_id \notin b
        /\ \A C \in V : More(C) \in V /\ g.genesis_id \notin More(C)
    BY <1>1, <1>3
  <1> HIDE DEF More, b
  <1>5. \A p \in Nat \X V : step[p] \in V
    BY <1>4
  <1>6. \A n \in Nat : \A C \in V : step[<<n, C>>] = Step(C)
    OBVIOUS
  <1> HIDE DEF step
  <1>7. PICK r : IsRecursion(V, b, step, r)
    BY <1>4, <1>5, NatRecursion
  <1>8. r \in [Nat -> V] /\ r[0] = b /\ \A n \in Nat : r[n + 1] = Step(r[n])
    BY <1>6, <1>7 DEF IsRecursion
  <1> HIDE DEF Step
  <1> DEFINE f == [n \in 0 .. N |-> r[n]]
  <1>9. ASSUME NEW n \in 0 .. N
        PROVE  f[n] = IF n = 0 THEN b ELSE Step(f[n - 1])
    <2>1. CASE n = 0
      BY <1>8, <2>1
    <2>2. CASE n # 0
      <3>1. n - 1 \in Nat /\ n - 1 \in 0 .. N /\ (n - 1) + 1 = n
        BY <1>1, <2>2
      <3>2. r[n] = Step(r[n - 1]) /\ f[n] = r[n] /\ f[n - 1] = r[n - 1]
        BY <1>8, <3>1
      <3> QED BY <2>2, <3>2
    <2> QED BY <2>1, <2>2
  <1>10. f = [n \in 0 .. N |-> f[n]]
    OBVIOUS
  <1> HIDE DEF f, N, V, S, Unlisted
  <1>11. Eq(f)
    BY <1>9, <1>10, Zenon DEF Step, More
  <1>12. \E h : Eq(h)
    <2> HIDE DEF Eq
    <2> QED BY <1>11
  <1>13. Eq(grow)
    <2> HIDE DEF Eq
    <2> QED BY <1>12
  <1>14. \A n \in 0 .. N : grow[n] = IF n = 0 THEN b ELSE Step(grow[n - 1])
    BY <1>13, Zenon DEF Step, More
  <1> HIDE DEF grow, Eq
  <1> DEFINE Good(n, C) == /\ C \in V /\ g.genesis_id \notin C
                           /\ More(C) \subseteq C \/ Cardinality(C) >= n + 1
             T == {n \in 0 .. N : Good(n, grow[n])}
  <1>15. 0 \in T
    <2>1. grow[0] = b /\ 0 \in 0 .. N
      BY <1>1, <1>14
    <2>2. CASE b = {}
      <3>1. More({}) = {}
        BY DEF More, Unlisted
      <3> QED BY <1>4, <2>1, <2>2, <3>1
    <2>3. CASE b # {}
      <3>1. IsFiniteSet(b) /\ Cardinality(b) \in Nat /\ Cardinality(b) # 0
        BY <1>1, <1>4, <2>3, FS_Subset, FS_CardinalityType, FS_EmptySet DEF V
      <3>2. Cardinality(b) >= 0 + 1
        BY <3>1
      <3> QED BY <1>4, <2>1, <3>2
    <2> QED BY <2>2, <2>3
  <1>16. ASSUME NEW n \in 1 .. N, n - 1 \in T PROVE n \in T
    <2> DEFINE B == grow[n - 1]
               C == grow[n]
    <2>1. n \in 0 .. N /\ n # 0 /\ n \in Nat /\ (n - 1) + 1 = n
      BY <1>1
    <2>2. Good(n - 1, B)
      BY <1>16
    <2>3. C = Step(B)
      BY <1>14, <2>1
    <2> HIDE DEF B, C
    <2>4. C = B \cup More(B)
      BY <2>3 DEF Step
    <2>5. C \in V /\ g.genesis_id \notin C /\ B \subseteq C /\ B \in V
      <3>1. B \in V /\ More(B) \in V /\ g.genesis_id \notin B /\ g.genesis_id \notin More(B)
        BY <1>4, <2>2
      <3> QED BY <2>4, <3>1 DEF V
    <2>6. CASE More(B) \subseteq B
      <3>1. C = B
        BY <2>4, <2>6
      <3> QED BY <2>1, <2>5, <2>6, <3>1 DEF C
    <2>7. CASE ~(More(B) \subseteq B)
      <3>1. PICK x \in C : x \notin B
        BY <2>4, <2>7
      <3>2. IsFiniteSet(B) /\ IsFiniteSet(C) /\ Cardinality(B) \in Nat /\ Cardinality(C) \in Nat
        BY <1>1, <2>5, FS_Subset, FS_CardinalityType DEF V
      <3>3. Cardinality(B \cup {x}) = Cardinality(B) + 1 /\ B \cup {x} \subseteq C
        BY <2>5, <3>1, <3>2, FS_AddElement
      <3>4. Cardinality(B \cup {x}) <= Cardinality(C)
        BY <3>2, <3>3, FS_Subset
      <3>5. Cardinality(B) >= (n - 1) + 1
        BY <2>2, <2>7
      <3>6. Cardinality(C) >= n + 1
        <4> DEFINE c == Cardinality(C)
                   k == Cardinality(B)
        <4>1. c \in Nat /\ k \in Nat /\ k + 1 <= c /\ k >= n
          BY <2>1, <3>2, <3>3, <3>4, <3>5
        <4> HIDE DEF c, k
        <4>2. c >= n + 1
          BY <2>1, <4>1
        <4> QED BY <4>2 DEF c
      <3> QED BY <2>1, <2>5, <3>6 DEF C
    <2> QED BY <2>6, <2>7
  <1>17. Good(N, grow[N])
    <2>1. \A n \in 0 .. N : n \in T
      <3> HIDE DEF T
      <3> QED BY <1>1, <1>15, <1>16, IndexSetInduction
    <2>2. N \in 0 .. N
      BY <1>1
    <2> QED BY <2>1, <2>2
  <1>18. H \in V /\ g.genesis_id \notin H /\ (More(H) \subseteq H \/ Cardinality(H) >= N + 1)
    BY <1>2, <1>17
  <1>19. Cardinality(H) \in Nat /\ Cardinality(H) <= N
    BY <1>1, <1>18, FS_Subset, FS_CardinalityType DEF V, N
  <1>20. More(H) \subseteq H
    BY <1>1, <1>18, <1>19
  <1>21. NULL_PARENT \notin UNION {ParentSet(g.vertices[i]) : i \in H}
    BY DEF ParentSet
  <1>22. H \subseteq S
    BY <1>18 DEF V
  <1> QED BY <1>18, <1>20, <1>21, <1>22 DEF More, Unlisted, S

(* So an offer lists stored vertices.                                       *)
LEMMA HaveTyped ==
    ASSUME NEW g, GraphOK(g), NEW known
    PROVE  collect_have(g, known) \in SUBSET TxHash
  <1>1. collect_have(g, known) \subseteq VertexSet(g) /\ VertexSet(g) \subseteq TxHash
    BY HaveIsClosed DEF GraphOK
  <1> QED BY <1>1

(* The bodies of some vertices other than genesis, as messages.             *)
LEMMA BodiesTyped ==
    ASSUME NEW g, GraphOK(g), StoredFrom(g, Vertices), NEW ids \in SUBSET Hashes,
           NEW txs, txs = transactions_for_in_order(g, ids)
    PROVE  [n \in DOMAIN txs |-> BodyMsg(txs[n])] \in Seq(BodyMsgs)
  <1>1. IsBodyList(g, ids, txs)
    <2>1. \A i \in VertexSet(g) : g.vertices[i].id = i
      BY DEF StoredFrom
    <2> QED BY <2>1, StoredBodies
  <1>2. /\ DOMAIN txs = 1 .. Len(txs) /\ Len(txs) \in Nat
        /\ {txs[n].id : n \in 1 .. Len(txs)} = VertexSet(g) \cap ids
        /\ \A n \in 1 .. Len(txs) : txs[n] = g.vertices[txs[n].id]
    BY <1>1 DEF IsBodyList, ListsOnce
  <1>3. ASSUME NEW n \in 1 .. Len(txs) PROVE BodyMsg(txs[n]) \in BodyMsgs
    <2>1. txs[n].id \in VertexSet(g) /\ txs[n].id \in Hashes
      BY <1>2
    <2>2. txs[n] \in Vertices
      BY <1>2, <2>1 DEF StoredFrom, Hashes
    <2> QED BY <2>2 DEF BodyMsgs
  <1> DEFINE k == Len(txs)
  <1> HIDE DEF k
  <1>4. [n \in 1 .. k |-> BodyMsg(txs[n])] \in Seq(BodyMsgs)
    BY <1>2, <1>3 DEF k
  <1> QED BY <1>2, <1>4 DEF k

-----------------------------------------------------------------------------
(* What is on its way.                                                     *)

Only(S) == {<<m>> : m \in S}

NeedHave == {<<m, k>> : m \in NeedMsgs, k \in HaveMsgs}

BodiesDone == {s \o <<Msg("Done")>> : s \in Seq(BodyMsgs)}

Messages == Pings \cup Pongs \cup Dones \cup InvMsgs \cup NeedMsgs \cup HaveMsgs \cup BodyMsgs

NeedThen(S) == {q \in Seq(Messages) : q # <<>> /\ Head(q) \in NeedMsgs /\ Tail(q) \in S}

NeedBodies == NeedThen(Seq(BodyMsgs))

NeedBodiesDone == NeedThen(BodiesDone)

(* The kind of a message, and what it carries.                              *)
LEMMA MessageFacts ==
    /\ \A m \in Pings : m.kind = "Ping"
    /\ \A m \in Pongs : m.kind = "Pong"
    /\ \A m \in Dones : m.kind = "Done"
    /\ \A m \in InvMsgs : m.kind = "SyncInventory" /\ m.inv \in Inventories
    /\ \A m \in NeedMsgs : m.kind = "Need" /\ m.ids \in SUBSET Hashes
    /\ \A m \in HaveMsgs : m.kind = "Have" /\ m.ids \in SUBSET TxHash
    /\ \A m \in BodyMsgs : m.kind = "DagTransaction" /\ m.tx \in Vertices
  BY DEF Pings, Pongs, Dones, InvMsgs, NeedMsgs, HaveMsgs, BodyMsgs, Msg, IdsMsg, InvMsg, BodyMsg

(* Only lists of hashes can be too long to decode.                          *)
LEMMA ShortDecodes ==
    ASSUME NEW m, m \in Pings \cup Pongs \cup Dones \cup BodyMsgs
    PROVE  Decodes(m)
  <1>1. m.kind \in {"Ping", "Pong", "Done", "DagTransaction"}
    BY MessageFacts
  <1> QED BY <1>1 DEF Decodes

(* Adding nothing.                                                          *)
LEMMA EmptyConcat ==
    ASSUME NEW S, NEW s \in Seq(S)
    PROVE  <<>> \o s = s /\ s \o <<>> = s
  OBVIOUS

(* Taking the next message off ...                                          *)
LEMMA OnlyNext ==
    ASSUME NEW S, NEW q \in Only(S)
    PROVE  q \in Seq(S) /\ q # <<>> /\ Head(q) \in S /\ Tail(q) = <<>>
  <1>1. PICK m \in S : q = <<m>>
    BY DEF Only
  <1> QED BY <1>1

(* ... off a list of needs followed by what is offered beside them, ...     *)
LEMMA NeedHaveNext ==
    ASSUME NEW q \in NeedHave
    PROVE  /\ q \in Seq(Messages) /\ q # <<>>
           /\ Head(q) \in NeedMsgs /\ Tail(q) \in Only(HaveMsgs)
  <1>1. PICK m \in NeedMsgs, k \in HaveMsgs : q = <<m, k>>
    BY DEF NeedHave
  <1>2. Head(q) = m /\ Tail(q) = <<k>> /\ q # <<>>
    BY <1>1
  <1>3. m \in Messages /\ k \in Messages
    BY DEF Messages
  <1>4. q \in Seq(Messages)
    BY <1>1, <1>3
  <1> QED BY <1>2, <1>4 DEF Only

(* ... off bodies alone, ...                                                *)
LEMMA BodiesNext ==
    ASSUME NEW q \in Seq(BodyMsgs)
    PROVE  /\ q \in Seq(Messages)
           /\ q # <<>> => Head(q) \in BodyMsgs /\ Tail(q) \in Seq(BodyMsgs)
  <1>1. BodyMsgs \subseteq Messages
    BY DEF Messages
  <1> QED BY <1>1

(* ... and off bodies that end in Done.                                     *)
LEMMA BodiesDoneNext ==
    ASSUME NEW q \in BodiesDone
    PROVE  /\ q \in Seq(Messages) /\ q # <<>>
           /\ \/ Head(q) \in Dones /\ Tail(q) = <<>>
              \/ Head(q) \in BodyMsgs /\ Tail(q) \in BodiesDone
  <1> DEFINE z == Msg("Done")
  <1>1. PICK s \in Seq(BodyMsgs) : q = s \o <<z>>
    BY DEF BodiesDone
  <1>2. z \in Dones /\ z \in Messages /\ BodyMsgs \subseteq Messages
    BY DEF Dones, Messages
  <1>d. \A r \in Seq(BodyMsgs) : r \o <<z>> \in BodiesDone
    BY DEF BodiesDone
  <1> HIDE DEF z
  <1>3. q \in Seq(Messages) /\ q # <<>>
    <2>1. s \in Seq(Messages) /\ <<z>> \in Seq(Messages)
      BY <1>2
    <2> QED BY <1>1, <2>1
  <1>4. CASE s = <<>>
    <2>1. q = <<z>>
      BY <1>1, <1>4
    <2> QED BY <1>2, <1>3, <2>1
  <1>5. CASE s # <<>>
    <2>1. Head(s) \in BodyMsgs /\ Tail(s) \in Seq(BodyMsgs)
      BY <1>5
    <2>2. Head(q) = Head(s) /\ Tail(q) = Tail(s) \o <<z>>
      BY <1>1, <1>5
    <2> QED BY <1>3, <1>d, <2>1, <2>2
  <1> QED BY <1>4, <1>5

(* A Need in front of a stream of bodies.                                   *)
LEMMA NeedFirst ==
    ASSUME NEW m \in NeedMsgs, NEW s \in Seq(Messages), NEW S, s \in S
    PROVE  <<m>> \o s \in NeedThen(S)
  <1> DEFINE q == <<m>> \o s
             M == Messages
  <1>0. m \in M
    BY DEF Messages
  <1> HIDE DEF M
  <1>1. <<m>> \in Seq(M) /\ s \in Seq(M)
    BY <1>0 DEF M
  <1>2. /\ q \in Seq(M) /\ Len(q) = Len(s) + 1 /\ q[1] = m
        /\ \A n \in 1 .. Len(s) : q[n + 1] = s[n]
    BY <1>1
  <1> HIDE DEF q
  <1>3. q # <<>> /\ Head(q) = m
    BY <1>2
  <1>4. Tail(q) = s
    BY <1>1, <1>2, <1>3
  <1>5. q \in NeedThen(S)
    BY <1>2, <1>3, <1>4 DEF NeedThen, M
  <1> QED BY <1>5 DEF q

(* ... and a late Done at the end.                                          *)
LEMMA LateDone ==
    /\ \A q \in Seq(BodyMsgs) : Append(q, Msg("Done")) \in BodiesDone
    /\ \A q \in NeedBodies : Append(q, Msg("Done")) \in NeedBodiesDone
  <1> DEFINE z == Msg("Done")
             M == Messages
  <1>1. z \in M /\ BodyMsgs \subseteq M /\ NeedMsgs \subseteq M
    BY DEF Messages, Dones
  <1>d. \A r \in Seq(BodyMsgs) : r \o <<z>> \in BodiesDone
    BY DEF BodiesDone
  <1> HIDE DEF z, M
  <1>2. ASSUME NEW q \in Seq(BodyMsgs) PROVE Append(q, z) \in BodiesDone
    <2>1. Append(q, z) = q \o <<z>>
      <3>1. q \in Seq(M)
        BY <1>1
      <3> QED BY <1>1, <3>1
    <2> QED BY <1>d, <2>1
  <1>3. ASSUME NEW q \in NeedBodies PROVE Append(q, z) \in NeedBodiesDone
    <2>1. q \in Seq(M) /\ q # <<>> /\ Head(q) \in NeedMsgs /\ Tail(q) \in Seq(BodyMsgs)
      BY DEF NeedBodies, NeedThen, M
    <2>2. /\ Append(q, z) \in Seq(M) /\ Append(q, z) # <<>>
          /\ Head(Append(q, z)) = Head(q) /\ Tail(Append(q, z)) = Append(Tail(q), z)
      BY <1>1, <2>1
    <2>3. Append(Tail(q), z) \in BodiesDone
      BY <1>2, <2>1
    <2> QED BY <2>1, <2>2, <2>3 DEF NeedBodiesDone, NeedThen, M
  <1> QED BY <1>2, <1>3 DEF z

-----------------------------------------------------------------------------
(* Streams of bodies.                                                      *)

(* The ids of the bodies among the first n messages.                        *)
Carried(q, n) == {q[m].tx.id : m \in {m \in 1 .. n : q[m].kind = "DagTransaction"}}

(* One after the other, a hub that stores S finds both parents of every     *)
(* body stored.                                                             *)
Storable(S, q) ==
    \A n \in 1 .. Len(q) :
        q[n].kind = "DagTransaction" =>
            /\ q[n].tx.wellformed
            /\ {q[n].tx.parent_1, q[n].tx.parent_2} \subseteq S \cup Carried(q, n - 1)

(* ... and then all it was offered.                                         *)
Due(S, O, q) == Storable(S, q) /\ O \subseteq S \cup Carried(q, Len(q))

(* What a hub accepts meanwhile does no harm.                               *)
LEMMA DueLater ==
    ASSUME NEW S, NEW O, NEW q, Due(S, O, q), NEW U, S \subseteq U
    PROVE  Due(U, O, q)
  BY DEF Due, Storable

(* The first body can be stored ...                                         *)
LEMMA DueFirst ==
    ASSUME NEW S, NEW O, NEW q \in Seq(Messages), q # <<>>, Due(S, O, q),
           Head(q).kind = "DagTransaction"
    PROVE  /\ Head(q).tx.wellformed
           /\ {Head(q).tx.parent_1, Head(q).tx.parent_2} \subseteq S
  <1>1. 1 \in 1 .. Len(q) /\ Head(q) = q[1]
    OBVIOUS
  <1>2. Carried(q, 1 - 1) = {}
    BY DEF Carried
  <1> QED BY <1>1, <1>2 DEF Due, Storable

(* ... and then the rest.                                                   *)
LEMMA DueRest ==
    ASSUME NEW S, NEW O, NEW q \in Seq(Messages), q # <<>>, Due(S, O, q),
           NEW U, S \subseteq U,
           Head(q).kind = "DagTransaction" => Head(q).tx.id \in U
    PROVE  Due(U, O, Tail(q))
  <1> DEFINE r == Tail(q)
  <1>1. /\ Len(q) \in Nat /\ Len(r) \in Nat /\ Len(q) = Len(r) + 1 /\ q[1] = Head(q)
        /\ \A n \in 1 .. Len(r) : r[n] = q[n + 1]
    OBVIOUS
  <1> HIDE DEF r
  <1>2. ASSUME NEW n \in 0 .. Len(r)
        PROVE  Carried(q, n + 1) \subseteq U \cup Carried(r, n)
    <2>1. ASSUME NEW m \in 1 .. n + 1, q[m].kind = "DagTransaction"
          PROVE  q[m].tx.id \in U \cup Carried(r, n)
      <3>1. CASE m = 1
        BY <1>1, <2>1, <3>1
      <3>2. CASE m # 1
        <4>1. m - 1 \in 1 .. n /\ m - 1 \in 1 .. Len(r) /\ (m - 1) + 1 = m
          BY <1>1, <3>2
        <4>2. r[m - 1] = q[m]
          BY <1>1, <4>1
        <4> QED BY <2>1, <4>1, <4>2 DEF Carried
      <3> QED BY <3>1, <3>2
    <2> QED BY <2>1 DEF Carried
  <1>3. ASSUME NEW n \in 1 .. Len(r), r[n].kind = "DagTransaction"
        PROVE  /\ r[n].tx.wellformed
               /\ {r[n].tx.parent_1, r[n].tx.parent_2} \subseteq U \cup Carried(r, n - 1)
    <2>1. n + 1 \in 1 .. Len(q) /\ (n + 1) - 1 = n /\ n - 1 \in 0 .. Len(r) /\ (n - 1) + 1 = n
      BY <1>1
    <2>2. r[n] = q[n + 1]
      BY <1>1
    <2>3. /\ r[n].tx.wellformed
          /\ {r[n].tx.parent_1, r[n].tx.parent_2} \subseteq S \cup Carried(q, n)
      BY <1>3, <2>1, <2>2 DEF Due, Storable
    <2>4. Carried(q, n) \subseteq U \cup Carried(r, n - 1)
      BY <1>2, <2>1
    <2> QED BY <2>3, <2>4
  <1>4. O \subseteq U \cup Carried(r, Len(r))
    <2>1. Len(r) \in 0 .. Len(r)
      BY <1>1
    <2>2. Carried(q, Len(q)) \subseteq U \cup Carried(r, Len(r))
      BY <1>1, <1>2, <2>1
    <2> QED BY <2>2 DEF Due
  <1>5. Due(U, O, r)
    BY <1>3, <1>4 DEF Due, Storable
  <1> QED BY <1>5 DEF r

(* Done is no body.                                                         *)
LEMMA DueDone ==
    ASSUME NEW S, NEW O, NEW q \in Seq(BodyMsgs), Due(S, O, q)
    PROVE  Due(S, O, q \o <<Msg("Done")>>)
  <1> DEFINE z == Msg("Done")
             r == q \o <<z>>
  <1>0. z.kind # "DagTransaction" /\ z \in Messages /\ q \in Seq(Messages)
    BY BodiesNext DEF Msg, Messages, Dones
  <1> HIDE DEF z
  <1>1. /\ Len(q) \in Nat /\ Len(r) = Len(q) + 1 /\ r[Len(q) + 1] = z
        /\ \A n \in 1 .. Len(q) : r[n] = q[n]
    BY <1>0
  <1> HIDE DEF r
  <1>2. \A n \in 0 .. Len(q) : Carried(r, n) = Carried(q, n)
    BY <1>1 DEF Carried
  <1>3. Carried(q, Len(q)) \subseteq Carried(r, Len(r))
    BY <1>1 DEF Carried
  <1>4. ASSUME NEW n \in 1 .. Len(r), r[n].kind = "DagTransaction"
        PROVE  /\ r[n].tx.wellformed
               /\ {r[n].tx.parent_1, r[n].tx.parent_2} \subseteq S \cup Carried(r, n - 1)
    <2>1. n \in 1 .. Len(q) /\ n - 1 \in 0 .. Len(q)
      BY <1>0, <1>1, <1>4
    <2>2. r[n] = q[n] /\ Carried(r, n - 1) = Carried(q, n - 1)
      BY <1>1, <1>2, <2>1
    <2> QED BY <1>4, <2>1, <2>2 DEF Due, Storable
  <1>5. Due(S, O, r)
    BY <1>3, <1>4 DEF Due, Storable
  <1> QED BY <1>5 DEF r, z

(* Once all is read all that was offered is stored.                         *)
LEMMA DueNothing ==
    ASSUME NEW S, NEW O, Due(S, O, <<>>)
    PROVE  O \subseteq S
  <1>1. Carried(<<>>, Len(<<>>)) = {}
    BY DEF Carried
  <1> QED BY <1>1 DEF Due

-----------------------------------------------------------------------------
(* What was asked for, and its bodies.                                     *)

(* ids are vertices of g that have all their parents in ids or in S.        *)
Sound(g, ids, S) ==
    /\ ids \subseteq VertexSet(g) \ {GenesisId}
    /\ \A i \in ids : ParentSet(g.vertices[i]) \subseteq ids \cup S

Needed(g, O, ids, S) == Sound(g, ids, S) /\ O \subseteq ids \cup S

(* g may have grown to h.                                                   *)
Grown(g, h) ==
    VertexSet(g) \subseteq VertexSet(h) /\ \A i \in VertexSet(g) : h.vertices[i] = g.vertices[i]

(* What holds of the lists of a graph holds after it has grown.             *)
LEMMA SoundLater ==
    ASSUME NEW g, NEW h, Grown(g, h), NEW ids, NEW S, NEW U, S \subseteq U, NEW O
    PROVE  /\ Sound(g, ids, S) => Sound(h, ids, U)
           /\ Needed(g, O, ids, S) => Needed(h, O, ids, U)
  BY DEF Grown, Sound, Needed

(* Bodies come after those of their parents.                                *)
LEMMA BodiesOrdered ==
    ASSUME NEW g, GraphOK(g), \A i \in VertexSet(g) : g.vertices[i].id = i,
           NEW ids, NEW txs, txs = transactions_for_in_order(g, ids)
    PROVE  \A n \in 1 .. Len(txs) :
              ParentSet(txs[n]) \cap ids \subseteq {txs[m].id : m \in 1 .. n - 1}
  <1> DEFINE order == g.attach_order
             N     == Len(order)
             W     == {g.vertices[i] : i \in VertexSet(g)}
             Before(n) == {order[m] : m \in 1 .. n}
             Listing(q, n) == {q[m].id : m \in 1 .. n}
             Sorted(q) == \A n \in 1 .. Len(q) :
                              ParentSet(q[n]) \cap ids \subseteq Listing(q, n - 1)
  <1>1. /\ order \in Seq(TxHash) /\ N \in Nat /\ DOMAIN order = 1 .. N
        /\ Before(N) = VertexSet(g)
        /\ \A n \in 1 .. N :
              {g.vertices[order[n]].parent_1, g.vertices[order[n]].parent_2}
                  \subseteq {order[m] : m \in 1 .. n - 1} \cup {NULL_PARENT}
    <2>1. order \in Seq(TxHash) /\ OrderTopological(g)
      BY DEF GraphOK
    <2>2. N \in Nat /\ DOMAIN order = 1 .. N
      BY <2>1
    <2>3. Before(N) = VertexSet(g)
      BY <2>1, <2>2 DEF OrderTopological, ToSet
    <2>4. ASSUME NEW n \in 1 .. N
          PROVE  {g.vertices[order[n]].parent_1, g.vertices[order[n]].parent_2}
                    \subseteq {order[m] : m \in 1 .. n - 1} \cup {NULL_PARENT}
      BY <2>1, <2>2 DEF OrderTopological
    <2> QED BY <2>1, <2>2, <2>3, <2>4
  <1>2. \A n \in 1 .. N : order[n] \in VertexSet(g)
    BY <1>1
  <1>3. PICK run : IsBodyRun(g, ids, run)
    BY BodyRun
  <1>4. /\ run[0] = <<>> /\ txs = run[N]
        /\ \A n \in 1 .. N : run[n] = Listed(g, ids, run[n - 1], n)
    BY <1>3 DEF IsBodyRun
  <1> HIDE DEF order, N
  <1> DEFINE Held(n) == /\ run[n] \in Seq(W) /\ Sorted(run[n])
                        /\ Before(n) \cap ids = Listing(run[n], Len(run[n]))
             T == {n \in 0 .. N : Held(n)}
  <1>5. 0 \in T
    <2>1. Before(0) = {} /\ 0 \in 0 .. N /\ Listing(<<>>, Len(<<>>)) = {}
      BY <1>1
    <2>2. <<>> \in Seq(W) /\ Sorted(<<>>)
      <3> HIDE DEF W
      <3> QED OBVIOUS
    <2>3. Held(0)
      <3> HIDE DEF W, Sorted, Before, Listing
      <3> QED BY <1>4, <2>1, <2>2
    <2> HIDE DEF Held
    <2> QED BY <2>1, <2>3
  <1>6. ASSUME NEW n \in 1 .. N, n - 1 \in T PROVE n \in T
    <2> DEFINE x == order[n]
               q == run[n - 1]
               t == g.vertices[x]
    <2>1. /\ q \in Seq(W) /\ Sorted(q) /\ n \in 0 .. N
          /\ Before(n - 1) \cap ids = Listing(q, Len(q))
      <3>1. Held(n - 1)
        <4> HIDE DEF Held
        <4> QED BY <1>6
      <3>2. n \in 0 .. N
        BY <1>1
      <3> HIDE DEF Sorted, Listing, Before, W
      <3> QED BY <3>1, <3>2
    <2>2. Before(n) = Before(n - 1) \cup {x}
      <3>1. 1 .. n = (1 .. n - 1) \cup {n}
        BY <1>1
      <3> QED BY <3>1
    <2>3. x \in VertexSet(g) /\ t.id = x /\ t \in W
      BY <1>2
    <2>4. ParentSet(t) \subseteq Before(n - 1)
      BY <1>1 DEF ParentSet
    <2>5. run[n] = IF x \in ids THEN Append(q, t) ELSE q
      BY <1>4 DEF Listed, order
    <2> HIDE DEF Before, q, x, t, W
    <2>6. CASE x \in ids
      <3> DEFINE more == Append(q, t)
      <3>1. /\ Len(q) \in Nat /\ Len(more) = Len(q) + 1 /\ more \in Seq(W)
            /\ more[Len(q) + 1] = t /\ \A m \in 1 .. Len(q) : more[m] = q[m]
        BY <2>1, <2>3
      <3> HIDE DEF more
      <3>2. \A m \in 0 .. Len(q) : Listing(more, m) = Listing(q, m)
        BY <3>1
      <3>3. Listing(more, Len(more)) = Listing(q, Len(q)) \cup {x}
        <4>1. 1 .. Len(more) = (1 .. Len(q)) \cup {Len(q) + 1}
          BY <3>1
        <4> QED BY <2>3, <3>1, <4>1
      <3>4. ASSUME NEW m \in 1 .. Len(more)
            PROVE  ParentSet(more[m]) \cap ids \subseteq Listing(more, m - 1)
        <4>1. CASE m \in 1 .. Len(q)
          <5>1. m - 1 \in 0 .. Len(q)
            BY <3>1, <4>1
          <5>2. Listing(more, m - 1) = Listing(q, m - 1) /\ more[m] = q[m]
            BY <3>1, <3>2, <4>1, <5>1
          <5>3. ParentSet(q[m]) \cap ids \subseteq Listing(q, m - 1)
            BY <2>1, <4>1
          <5> HIDE DEF Listing
          <5> QED BY <5>2, <5>3
        <4>2. CASE m = Len(q) + 1
          <5>1. m - 1 = Len(q) /\ Len(q) \in 0 .. Len(q)
            BY <3>1, <4>2
          <5>2. Listing(more, m - 1) = Listing(q, Len(q)) /\ more[m] = t
            BY <3>1, <3>2, <4>2, <5>1
          <5> HIDE DEF Listing
          <5> QED BY <2>1, <2>4, <5>2
        <4> QED BY <3>1, <4>1, <4>2
      <3>5. Before(n) \cap ids = Listing(more, Len(more))
        <4> HIDE DEF Listing
        <4> QED BY <2>1, <2>2, <2>6, <3>3
      <3>6. Sorted(more)
        BY <3>4
      <3>7. run[n] = more
        BY <2>5, <2>6 DEF more
      <3> HIDE DEF Sorted, Listing
      <3>8. Held(n)
        BY <3>1, <3>5, <3>6, <3>7
      <3> HIDE DEF Held
      <3> QED BY <2>1, <3>8
    <2>7. CASE x \notin ids
      <3>1. run[n] = q /\ Before(n) \cap ids = Before(n - 1) \cap ids
        BY <2>2, <2>5, <2>7
      <3> HIDE DEF Sorted, Listing
      <3>2. Held(n)
        BY <2>1, <3>1
      <3> HIDE DEF Held
      <3> QED BY <2>1, <3>2
    <2> QED BY <2>6, <2>7
  <1>7. Held(N)
    <2>1. \A n \in 0 .. N : n \in T
      <3> HIDE DEF T
      <3> QED BY <1>1, <1>5, <1>6, IndexSetInduction
    <2>2. N \in 0 .. N
      BY <1>1
    <2> HIDE DEF Held
    <2> QED BY <2>1, <2>2
  <1>8. Sorted(txs)
    <2> HIDE DEF Sorted, Before, Listing, W
    <2> QED BY <1>4, <1>7
  <1> QED BY <1>8

(* The bodies of what a hub needs are all that is missing, in an order in   *)
(* which it can store them.                                                 *)
LEMMA BodiesDue ==
    ASSUME NEW g, GraphOK(g), StoredFrom(g, Vertices), Stocked(g),
           NEW S, NEW O, NEW ids, Needed(g, O, ids, S),
           NEW txs, txs = transactions_for_in_order(g, ids),
           NEW q, q = [n \in DOMAIN txs |-> BodyMsg(txs[n])]
    PROVE  Due(S, O, q)
  <1>1. \A i \in VertexSet(g) : g.vertices[i].id = i
    BY DEF StoredFrom
  <1>2. /\ ids \subseteq VertexSet(g) \ {GenesisId}
        /\ \A i \in ids : ParentSet(g.vertices[i]) \subseteq ids \cup S
        /\ O \subseteq ids \cup S
    BY DEF Needed, Sound
  <1>3. ListsOnce(g, ids, txs)
    BY <1>1, <1>2, OrderedBodies
  <1>4. \A n \in 1 .. Len(txs) :
            ParentSet(txs[n]) \cap ids \subseteq {txs[m].id : m \in 1 .. n - 1}
    BY <1>1, BodiesOrdered
  <1>5. /\ DOMAIN txs = 1 .. Len(txs) /\ Len(txs) \in Nat
        /\ {txs[n].id : n \in 1 .. Len(txs)} = ids
        /\ \A n \in 1 .. Len(txs) : txs[n] = g.vertices[txs[n].id]
    BY <1>3 DEF ListsOnce
  <1> DEFINE k == Len(txs)
  <1> HIDE DEF k
  <1>6. /\ k \in Nat /\ Len(q) = k
        /\ \A n \in 1 .. k : q[n].kind = "DagTransaction" /\ q[n].tx = txs[n]
    BY <1>5 DEF k, BodyMsg
  <1>7. ASSUME NEW n \in 0 .. k PROVE Carried(q, n) = {txs[m].id : m \in 1 .. n}
    <2>1. \A m \in 1 .. n : m \in 1 .. k
      BY <1>6
    <2> QED BY <1>6, <2>1 DEF Carried
  <1>8. ASSUME NEW n \in 1 .. k
        PROVE  /\ txs[n].wellformed
               /\ {txs[n].parent_1, txs[n].parent_2} \subseteq S \cup Carried(q, n - 1)
    <2> DEFINE i == txs[n].id
    <2>1. i \in ids /\ txs[n] = g.vertices[i]
      BY <1>5 DEF k
    <2>2. /\ txs[n].wellformed
          /\ {txs[n].parent_1, txs[n].parent_2} \subseteq VertexSet(g)
      BY <1>2, <2>1 DEF Stocked
    <2>3. NULL_PARENT \notin VertexSet(g)
      BY DagGraphAssumption DEF GraphOK
    <2>4. ParentSet(txs[n]) = {txs[n].parent_1, txs[n].parent_2}
      BY <2>2, <2>3 DEF ParentSet
    <2>5. ParentSet(txs[n]) \subseteq ids \cup S
      BY <1>2, <2>1
    <2>6. ParentSet(txs[n]) \cap ids \subseteq {txs[m].id : m \in 1 .. n - 1}
      BY <1>4 DEF k
    <2>7. n - 1 \in 0 .. k
      BY <1>6
    <2>8. Carried(q, n - 1) = {txs[m].id : m \in 1 .. n - 1}
      BY <1>7, <2>7
    <2> HIDE DEF i
    <2> QED BY <2>2, <2>4, <2>5, <2>6, <2>8
  <1>9. Carried(q, k) = ids
    <2>1. k \in 0 .. k
      BY <1>6
    <2> QED BY <1>5, <1>7, <2>1 DEF k
  <1> QED BY <1>2, <1>6, <1>8, <1>9 DEF Due, Storable

-----------------------------------------------------------------------------
(* The table: where the threads of dialer and listener are, and what is on  *)
(* its way to each.  First the rows of a session that one side has left.    *)

DialerAlone(pd, qd) ==
    \/ pd \in {"idle", "inventory", "need"} /\ qd = <<>>
    \/ pd = "pong" /\ qd \in Only(Pongs)
    \/ pd = "inventory" /\ qd \in Only(InvMsgs)
    \/ pd = "need" /\ qd \in NeedBodiesDone
    \/ pd = "bodies" /\ qd \in BodiesDone

ListenerAlone(pl, ql) ==
    \/ pl \in {"idle", "their_inventory", "their_need", "bodies"} /\ ql = <<>>
    \/ pl = "ping" /\ ql \in Only(Pings)
    \/ pl = "their_inventory" /\ ql \in Only(InvMsgs)
    \/ pl = "their_need" /\ ql \in NeedHave
    \/ pl = "their_have" /\ ql \in Only(HaveMsgs)
    \/ pl = "bodies" /\ ql \in BodiesDone

Together(pd, pl, qd, ql) ==
    \/ pd = "pong" /\ pl = "ping" /\ qd = <<>> /\ ql \in Only(Pings)
    \/ pd = "pong" /\ pl = "their_inventory" /\ qd \in Only(Pongs) /\ ql = <<>>
    \/ pd = "inventory" /\ pl = "their_inventory" /\ qd = <<>> /\ ql \in Only(InvMsgs)
    \/ pd = "inventory" /\ pl = "their_need" /\ qd \in Only(InvMsgs) /\ ql = <<>>
    \/ pd = "need" /\ pl = "their_need" /\ qd = <<>> /\ ql \in NeedHave
    \/ pd = "need" /\ pl = "their_have" /\ qd = <<>> /\ ql \in Only(HaveMsgs)
    \/ pd = "need" /\ pl = "bodies" /\ qd \in NeedBodies /\ ql = <<>>
    \/ pd = "bodies" /\ pl = "bodies" /\ qd \in Seq(BodyMsgs) /\ ql \in BodiesDone

Lockstep(pd, pl, qd, ql) ==
    \/ pl = "idle" /\ ql = <<>> /\ DialerAlone(pd, qd)
    \/ pd = "idle" /\ qd = <<>> /\ ListenerAlone(pl, ql)
    \/ Together(pd, pl, qd, ql)

(* What h receives when its peer answers.                                   *)
Sent(p, q, msgs) == IF p = "idle" THEN <<>> ELSE q \o msgs

-----------------------------------------------------------------------------
(* The steps from row to row.                                              *)

(* GetPing.                                                                 *)
LEMMA PingRow ==
    ASSUME NEW pd, NEW qd, NEW ql, Lockstep(pd, "ping", qd, ql)
    PROVE  Lockstep(pd, "their_inventory", Sent(pd, qd, <<Msg("Pong")>>), Tail(ql))
  <1>1. ql \in Only(Pings) /\ qd = <<>> /\ pd \in {"idle", "pong"}
    BY DEF Lockstep, DialerAlone, ListenerAlone, Together
  <1>2. Tail(ql) = <<>>
    BY <1>1, OnlyNext
  <1>3. <<>> \o <<Msg("Pong")>> = <<Msg("Pong")>> /\ <<Msg("Pong")>> \in Only(Pongs)
    BY DEF Only, Pongs
  <1> QED BY <1>1, <1>2, <1>3 DEF Lockstep, Together, ListenerAlone, Sent

(* GetPong.                                                                 *)
LEMMA PongRow ==
    ASSUME NEW pl, NEW qd, NEW ql, Lockstep("pong", pl, qd, ql), qd # <<>>,
           NEW m \in InvMsgs
    PROVE  Lockstep("inventory", pl, Tail(qd), Sent(pl, ql, <<m>>))
  <1>1. qd \in Only(Pongs) /\ ql = <<>> /\ pl \in {"idle", "their_inventory"}
    BY DEF Lockstep, DialerAlone, ListenerAlone, Together
  <1>2. Tail(qd) = <<>>
    BY <1>1, OnlyNext
  <1>3. <<>> \o <<m>> = <<m>> /\ <<m>> \in Only(InvMsgs)
    BY DEF Only
  <1> QED BY <1>1, <1>2, <1>3 DEF Lockstep, Together, DialerAlone, Sent

(* GetTheirInventory.                                                       *)
LEMMA TheirInventoryRow ==
    ASSUME NEW pd, NEW qd, NEW ql, Lockstep(pd, "their_inventory", qd, ql), ql # <<>>,
           NEW m \in InvMsgs
    PROVE  /\ Head(ql) \in InvMsgs
           /\ Lockstep(pd, "their_need", Sent(pd, qd, <<m>>), Tail(ql))
  <1>1. ql \in Only(InvMsgs) /\ qd = <<>> /\ pd \in {"idle", "inventory"}
    BY DEF Lockstep, DialerAlone, ListenerAlone, Together
  <1>2. Tail(ql) = <<>> /\ Head(ql) \in InvMsgs
    BY <1>1, OnlyNext
  <1>3. <<>> \o <<m>> = <<m>> /\ <<m>> \in Only(InvMsgs)
    BY DEF Only
  <1> QED BY <1>1, <1>2, <1>3 DEF Lockstep, Together, ListenerAlone, Sent

(* GetInventory.                                                            *)
LEMMA InventoryRow ==
    ASSUME NEW pl, NEW qd, NEW ql, Lockstep("inventory", pl, qd, ql), qd # <<>>
    PROVE  /\ Head(qd) \in InvMsgs
           /\ \A m \in NeedMsgs, k \in HaveMsgs :
                 Lockstep("need", pl, Tail(qd), Sent(pl, ql, <<m, k>>))
  <1>1. qd \in Only(InvMsgs) /\ ql = <<>> /\ pl \in {"idle", "their_need"}
    BY DEF Lockstep, DialerAlone, ListenerAlone, Together
  <1>2. Tail(qd) = <<>> /\ Head(qd) \in InvMsgs
    BY <1>1, OnlyNext
  <1>3. ASSUME NEW m \in NeedMsgs, NEW k \in HaveMsgs
        PROVE  Lockstep("need", pl, Tail(qd), Sent(pl, ql, <<m, k>>))
    <2>1. <<>> \o <<m, k>> = <<m, k>> /\ <<m, k>> \in NeedHave
      BY DEF NeedHave
    <2> QED BY <1>1, <1>2, <2>1 DEF Lockstep, Together, DialerAlone, Sent
  <1> QED BY <1>2, <1>3

(* GetTheirNeed.                                                            *)
LEMMA TheirNeedRow ==
    ASSUME NEW pd, NEW qd, NEW ql, Lockstep(pd, "their_need", qd, ql), ql # <<>>
    PROVE  /\ Head(ql) \in NeedMsgs
           /\ Lockstep(pd, "their_have", Sent(pd, qd, <<>>), Tail(ql))
  <1>1. ql \in NeedHave /\ qd = <<>> /\ pd \in {"idle", "need"}
    BY DEF Lockstep, DialerAlone, ListenerAlone, Together
  <1>2. Tail(ql) \in Only(HaveMsgs) /\ Head(ql) \in NeedMsgs
    BY <1>1, NeedHaveNext
  <1>3. <<>> \o <<>> = <<>>
    OBVIOUS
  <1> QED BY <1>1, <1>2, <1>3 DEF Lockstep, Together, ListenerAlone, Sent

(* GetTheirHave.                                                            *)
LEMMA TheirHaveRow ==
    ASSUME NEW pd, NEW qd, NEW ql, Lockstep(pd, "their_have", qd, ql), ql # <<>>
    PROVE  /\ Head(ql) \in HaveMsgs
           /\ \A m \in NeedMsgs, s \in Seq(BodyMsgs) :
                 Lockstep(pd, "bodies", Sent(pd, qd, <<m>> \o s), Tail(ql))
  <1>1. ql \in Only(HaveMsgs) /\ qd = <<>> /\ pd \in {"idle", "need"}
    BY DEF Lockstep, DialerAlone, ListenerAlone, Together
  <1>2. Tail(ql) = <<>> /\ Head(ql) \in HaveMsgs
    BY <1>1, OnlyNext
  <1>3. ASSUME NEW m \in NeedMsgs, NEW s \in Seq(BodyMsgs)
        PROVE  Lockstep(pd, "bodies", Sent(pd, qd, <<m>> \o s), Tail(ql))
    <2> DEFINE q == <<m>> \o s
    <2>1. q \in NeedBodies
      BY BodiesNext, NeedFirst DEF NeedBodies
    <2>2. q \in Seq(Messages)
      BY <2>1 DEF NeedBodies, NeedThen
    <2> HIDE DEF q
    <2>3. <<>> \o q = q
      BY <2>2, EmptyConcat
    <2>4. Lockstep(pd, "bodies", Sent(pd, qd, q), Tail(ql))
      BY <1>1, <1>2, <2>1, <2>3 DEF Lockstep, Together, ListenerAlone, Sent
    <2> QED BY <2>4 DEF q
  <1> QED BY <1>2, <1>3

(* GetNeed.                                                                 *)
LEMMA NeedRow ==
    ASSUME NEW pl, NEW qd, NEW ql, Lockstep("need", pl, qd, ql), qd # <<>>
    PROVE  /\ Head(qd) \in NeedMsgs
           /\ \A s \in Seq(BodyMsgs) :
                 Lockstep("bodies", pl, Tail(qd), Sent(pl, ql, s \o <<Msg("Done")>>))
  <1>1. ql = <<>> /\ \/ pl = "idle" /\ qd \in NeedBodiesDone
                     \/ pl = "bodies" /\ qd \in NeedBodies
    BY DEF Lockstep, DialerAlone, ListenerAlone, Together
  <1>2. Head(qd) \in NeedMsgs /\ \/ pl = "idle" /\ Tail(qd) \in BodiesDone
                                 \/ pl = "bodies" /\ Tail(qd) \in Seq(BodyMsgs)
    BY <1>1 DEF NeedBodiesDone, NeedBodies, NeedThen
  <1>3. ASSUME NEW s \in Seq(BodyMsgs)
        PROVE  Lockstep("bodies", pl, Tail(qd), Sent(pl, ql, s \o <<Msg("Done")>>))
    <2> DEFINE q == s \o <<Msg("Done")>>
    <2>1. q \in BodiesDone
      BY DEF BodiesDone
    <2> HIDE DEF q
    <2>2. <<>> \o q = q
      BY <2>1, BodiesDoneNext, EmptyConcat
    <2>3. Lockstep("bodies", pl, Tail(qd), Sent(pl, ql, q))
      BY <1>1, <1>2, <2>1, <2>2 DEF Lockstep, Together, DialerAlone, Sent
    <2> QED BY <2>3 DEF q
  <1> QED BY <1>2, <1>3

(* GetBody and RefuseBody of the dialer ...                                 *)
LEMMA DialerBodyRow ==
    ASSUME NEW pl, NEW qd, NEW ql, Lockstep("bodies", pl, qd, ql), qd # <<>>,
           Head(qd).kind = "DagTransaction"
    PROVE  /\ Head(qd) \in BodyMsgs
           /\ Lockstep("bodies", pl, Tail(qd), Sent(pl, ql, <<>>))
  <1>1. \/ pl = "idle" /\ ql = <<>> /\ qd \in BodiesDone
        \/ pl = "bodies" /\ ql \in BodiesDone /\ qd \in Seq(BodyMsgs)
    BY DEF Lockstep, DialerAlone, ListenerAlone, Together
  <1>2. CASE pl = "idle" /\ ql = <<>> /\ qd \in BodiesDone
    <2>1. Head(qd) \in BodyMsgs /\ Tail(qd) \in BodiesDone
      BY <1>2, BodiesDoneNext, MessageFacts
    <2> QED BY <1>2, <2>1 DEF Lockstep, DialerAlone, Sent
  <1>3. CASE pl = "bodies" /\ ql \in BodiesDone /\ qd \in Seq(BodyMsgs)
    <2>1. Head(qd) \in BodyMsgs /\ Tail(qd) \in Seq(BodyMsgs)
      BY <1>3, BodiesNext
    <2>2. ql \o <<>> = ql
      BY <1>3, BodiesDoneNext, EmptyConcat
    <2> QED BY <1>3, <2>1, <2>2 DEF Lockstep, Together, Sent
  <1> QED BY <1>1, <1>2, <1>3

(* ... and of the listener.                                                 *)
LEMMA ListenerBodyRow ==
    ASSUME NEW pd, NEW qd, NEW ql, Lockstep(pd, "bodies", qd, ql), ql # <<>>,
           Head(ql).kind = "DagTransaction"
    PROVE  /\ Head(ql) \in BodyMsgs
           /\ Lockstep(pd, "bodies", Sent(pd, qd, <<>>), Tail(ql))
  <1>1. \/ pd = "idle" /\ qd = <<>> /\ ql \in BodiesDone
        \/ pd = "bodies" /\ qd \in Seq(BodyMsgs) /\ ql \in BodiesDone
    BY DEF Lockstep, DialerAlone, ListenerAlone, Together
  <1>2. Head(ql) \in BodyMsgs /\ Tail(ql) \in BodiesDone
    BY <1>1, BodiesDoneNext, MessageFacts
  <1>3. pd # "idle" => qd \o <<>> = qd
    BY <1>1, EmptyConcat
  <1> QED BY <1>1, <1>2, <1>3 DEF Lockstep, ListenerAlone, Together, Sent

(* GetDone of the dialer ...                                                *)
LEMMA DialerDoneRow ==
    ASSUME NEW pl, NEW qd, NEW ql, Lockstep("bodies", pl, qd, ql), qd # <<>>,
           Head(qd).kind = "Done"
    PROVE  Lockstep("idle", pl, Tail(qd), Sent(pl, ql, <<>>))
  <1>1. pl = "idle" /\ ql = <<>> /\ qd \in BodiesDone
    <2>1. \/ pl = "idle" /\ ql = <<>> /\ qd \in BodiesDone
          \/ qd \in Seq(BodyMsgs)
      BY DEF Lockstep, DialerAlone, ListenerAlone, Together
    <2>2. CASE qd \in Seq(BodyMsgs)
      BY <2>2, BodiesNext, MessageFacts
    <2> QED BY <2>1, <2>2
  <1>2. Tail(qd) = <<>>
    BY <1>1, BodiesDoneNext, MessageFacts
  <1> QED BY <1>1, <1>2 DEF Lockstep, DialerAlone, Sent

(* ... and of the listener, who confirms.                                   *)
LEMMA ListenerDoneRow ==
    ASSUME NEW pd, NEW qd, NEW ql, Lockstep(pd, "bodies", qd, ql), ql # <<>>,
           Head(ql).kind = "Done"
    PROVE  Lockstep(pd, "idle", Sent(pd, qd, <<Msg("Done")>>), Tail(ql))
  <1>1. \/ pd = "idle" /\ qd = <<>> /\ ql \in BodiesDone
        \/ pd = "bodies" /\ qd \in Seq(BodyMsgs) /\ ql \in BodiesDone
    BY DEF Lockstep, DialerAlone, ListenerAlone, Together
  <1>2. Tail(ql) = <<>>
    BY <1>1, BodiesDoneNext, MessageFacts
  <1>3. pd = "bodies" => qd \o <<Msg("Done")>> \in BodiesDone
    BY <1>1 DEF BodiesDone
  <1> QED BY <1>1, <1>2, <1>3 DEF Lockstep, DialerAlone, Sent

(* GiveUp: the dialer leaves the round.                                     *)
LEMMA DialerGivesUpRow ==
    ASSUME NEW pd, NEW pl, NEW qd, NEW ql, Lockstep(pd, pl, qd, ql),
           \/ pl = "idle"
           \/ qd # <<>> /\ ~Decodes(Head(qd))
    PROVE  Lockstep("idle", pl, <<>>, ql)
  <1>1. CASE pl = "idle" /\ ql = <<>>
    BY <1>1 DEF Lockstep, ListenerAlone
  <1>2. CASE pd = "idle" /\ qd = <<>>
    BY <1>2 DEF Lockstep, ListenerAlone, DialerAlone, Together
  <1>3. CASE pl # "idle" /\ Together(pd, pl, qd, ql)
    <2>1. ~(qd \in Only(Pongs))
      BY <1>3, OnlyNext, ShortDecodes
    <2>2. ~(qd \in Seq(BodyMsgs))
      BY <1>3, BodiesNext, ShortDecodes
    <2>3. qd # <<>>
      BY <1>3
    <2> QED BY <1>3, <2>1, <2>2, <2>3 DEF Lockstep, ListenerAlone, Together
  <1> QED BY <1>1, <1>2, <1>3 DEF Lockstep, Together, DialerAlone, ListenerAlone

(* The listener does.                                                       *)
LEMMA ListenerGivesUpRow ==
    ASSUME NEW pd, NEW pl, NEW qd, NEW ql, Lockstep(pd, pl, qd, ql),
           \/ pd = "idle"
           \/ ql # <<>> /\ ~Decodes(Head(ql))
    PROVE  Lockstep(pd, "idle", qd, <<>>)
  <1>1. CASE pd = "idle" /\ qd = <<>>
    BY <1>1 DEF Lockstep, DialerAlone
  <1>2. CASE pl = "idle" /\ ql = <<>>
    BY <1>2 DEF Lockstep, ListenerAlone, DialerAlone, Together
  <1>3. CASE pd # "idle" /\ Together(pd, pl, qd, ql)
    <2>1. ~(ql \in Only(Pings))
      BY <1>3, OnlyNext, ShortDecodes
    <2>2. ~(ql \in BodiesDone)
      BY <1>3, BodiesDoneNext, ShortDecodes
    <2>3. ql # <<>>
      BY <1>3
    <2> QED BY <1>3, <2>1, <2>2, <2>3 DEF Lockstep, DialerAlone, Together
  <1> QED BY <1>1, <1>2, <1>3 DEF Lockstep, Together, DialerAlone, ListenerAlone

(* TimeOut: the dialer just leaves ...                                      *)
LEMMA DialerTimesOutRow ==
    ASSUME NEW pd, NEW pl, NEW ql, Lockstep(pd, pl, <<>>, ql), pd # "idle", pl # "idle"
    PROVE  Lockstep("idle", pl, <<>>, ql)
  <1>1. Together(pd, pl, <<>>, ql)
    BY DEF Lockstep
  <1>2. \A S : ~(<<>> \in Only(S)) /\ ~(<<>> \in NeedBodies)
    BY OnlyNext DEF NeedBodies, NeedThen
  <1> QED BY <1>1, <1>2 DEF Lockstep, ListenerAlone, Together

(* ... and the listener says Done if it was among the bodies.               *)
LEMMA ListenerTimesOutRow ==
    ASSUME NEW pd, NEW pl, NEW qd, Lockstep(pd, pl, qd, <<>>), pd # "idle", pl # "idle"
    PROVE  Lockstep(pd, "idle", IF pl = "bodies" THEN Append(qd, Msg("Done")) ELSE qd, <<>>)
  <1>1. Together(pd, pl, qd, <<>>)
    BY DEF Lockstep
  <1>2. \A S : ~(<<>> \in Only(S))
    BY OnlyNext
  <1>3. ~(<<>> \in NeedHave) /\ ~(<<>> \in BodiesDone)
    BY NeedHaveNext, BodiesDoneNext
  <1>4. \/ pd = "pong" /\ pl = "their_inventory" /\ qd \in Only(Pongs)
        \/ pd = "inventory" /\ pl = "their_need" /\ qd \in Only(InvMsgs)
        \/ pd = "need" /\ pl = "bodies" /\ qd \in NeedBodies
    BY <1>1, <1>2, <1>3 DEF Together
  <1> QED BY <1>4, LateDone DEF Lockstep, DialerAlone

-----------------------------------------------------------------------------
(* A session, and the replicas under it.                                   *)

SessionInv ==
    /\ dag = [h \in Hubs |-> dag[h]] /\ ReplicasOK(dag)
    /\ pc = [h \in Hubs |-> pc[h]]
    /\ inbox = [h \in Hubs |-> inbox[h]]
    /\ Lockstep(pc[Dialer], pc[Listener], inbox[Dialer], inbox[Listener])
    /\ remote \in Inventories
    /\ wanted \in SUBSET Hashes
    /\ offered \in [Hubs -> SUBSET TxHash]
    /\ clean \in BOOLEAN
    /\ timeouts \in 0 .. MaxTimeouts
    /\ refusals \in 0 .. MaxRefusals

(* The part that a step of the session disturbs.                            *)
StreamInv ==
    /\ pc = [h \in Hubs |-> pc[h]]
    /\ inbox = [h \in Hubs |-> inbox[h]]
    /\ Lockstep(pc[Dialer], pc[Listener], inbox[Dialer], inbox[Listener])

(* The two hubs.                                                            *)
LEMMA TwoHubs ==
    /\ Hubs = {Dialer, Listener} /\ Dialer # Listener
    /\ Peer(Dialer) = Listener /\ Peer(Listener) = Dialer
  BY MeshSyncAssumption DEF Hubs, Peer

(* An answer takes a message off one stream and puts its own on the other.  *)
LEMMA AnswerFacts ==
    ASSUME inbox = [h \in Hubs |-> inbox[h]], NEW h \in Hubs, NEW msgs, Answer(h, msgs)
    PROVE  /\ inbox' = [k \in Hubs |-> inbox'[k]]
           /\ inbox'[h] = Tail(inbox[h])
           /\ inbox'[Peer(h)] = Sent(pc[Peer(h)], inbox[Peer(h)], msgs)
  <1>1. h # Peer(h) /\ Peer(h) \in Hubs
    BY TwoHubs
  <1>2. inbox' = [inbox EXCEPT ![h] = Tail(inbox[h]),
                     ![Peer(h)] = IF pc[Peer(h)] = "idle" THEN <<>> ELSE inbox[Peer(h)] \o msgs]
    BY <1>1 DEF Answer
  <1> QED BY <1>1, <1>2 DEF Sent

(* ... while its thread moves on.                                           *)
LEMMA GotoFacts ==
    ASSUME pc = [h \in Hubs |-> pc[h]], NEW h \in Hubs, NEW at, Goto(h, at)
    PROVE  /\ pc' = [k \in Hubs |-> pc'[k]]
           /\ pc'[h] = at /\ pc'[Peer(h)] = pc[Peer(h)]
  BY TwoHubs DEF Goto

(* A thread that stays where it is.                                         *)
LEMMA GotoSame ==
    ASSUME pc = [h \in Hubs |-> pc[h]], NEW h \in Hubs, UNCHANGED pc
    PROVE  Goto(h, pc[h])
  BY DEF Goto

(* What a step of the dialer has to show ...                                *)
LEMMA DialerStep ==
    ASSUME StreamInv, NEW at, NEW msgs, Answer(Dialer, msgs), Goto(Dialer, at),
           Lockstep(at, pc[Listener], Tail(inbox[Dialer]),
                    Sent(pc[Listener], inbox[Listener], msgs))
    PROVE  StreamInv'
  <1>1. /\ inbox' = [k \in Hubs |-> inbox'[k]]
        /\ inbox'[Dialer] = Tail(inbox[Dialer])
        /\ inbox'[Listener] = Sent(pc[Listener], inbox[Listener], msgs)
    BY TwoHubs, AnswerFacts DEF StreamInv
  <1>2. pc' = [k \in Hubs |-> pc'[k]] /\ pc'[Dialer] = at /\ pc'[Listener] = pc[Listener]
    BY TwoHubs, GotoFacts DEF StreamInv
  <1> QED BY <1>1, <1>2 DEF StreamInv

(* ... and a step of the listener.                                          *)
LEMMA ListenerStep ==
    ASSUME StreamInv, NEW at, NEW msgs, Answer(Listener, msgs), Goto(Listener, at),
           Lockstep(pc[Dialer], at, Sent(pc[Dialer], inbox[Dialer], msgs),
                    Tail(inbox[Listener]))
    PROVE  StreamInv'
  <1>1. /\ inbox' = [k \in Hubs |-> inbox'[k]]
        /\ inbox'[Listener] = Tail(inbox[Listener])
        /\ inbox'[Dialer] = Sent(pc[Dialer], inbox[Dialer], msgs)
    BY TwoHubs, AnswerFacts DEF StreamInv
  <1>2. pc' = [k \in Hubs |-> pc'[k]] /\ pc'[Listener] = at /\ pc'[Dialer] = pc[Dialer]
    BY TwoHubs, GotoFacts DEF StreamInv
  <1> QED BY <1>1, <1>2 DEF StreamInv

(* A session thread that reads is where the action says.                    *)
LEMMA ReadsFacts ==
    ASSUME NEW h, NEW at, NEW kind, Reads(h, at, kind)
    PROVE  pc[h] = at /\ inbox[h] # <<>> /\ Head(inbox[h]).kind = kind
  BY DEF Reads

(* The graphs, which have genesis.                                          *)
LEMMA GraphFacts ==
    ASSUME ReplicasOK(dag), NEW h \in Hubs
    PROVE  /\ GraphOK(dag[h].graph) /\ StoredFrom(dag[h].graph, Vertices)
           /\ GenesisId \in VertexSet(dag[h].graph) /\ VertexSet(dag[h].graph) \subseteq TxHash
  BY DEF ReplicasOK, ReplicaState, ReplicaOK, GraphOK, StoredFrom

(* The bodies that a hub sends.                                             *)
LEMMA BodiesSent ==
    ASSUME ReplicasOK(dag), NEW h \in Hubs, NEW ids \in SUBSET Hashes
    PROVE  Bodies(h, ids) \in Seq(BodyMsgs)
  <1> DEFINE txs == transactions_for_in_order(dag[h].graph, ids)
  <1>1. [n \in DOMAIN txs |-> BodyMsg(txs[n])] \in Seq(BodyMsgs)
    BY GraphFacts, BodiesTyped
  <1> QED BY <1>1 DEF Bodies

-----------------------------------------------------------------------------
(* The steps.                                                              *)

SameRest == UNCHANGED <<dag, round_vars, clean, timeouts, refusals>>

(* The two sides say hello.                                                 *)
LEMMA HelloSteps ==
    ASSUME SessionInv, Connect \/ GetPing
    PROVE  SessionInv'
  <1>1. CASE Connect
    <2>1. /\ pc' = [h \in Hubs |-> pc'[h]] /\ pc'[Dialer] = "pong" /\ pc'[Listener] = "ping"
          /\ inbox' = [h \in Hubs |-> inbox'[h]]
          /\ inbox'[Dialer] = <<>> /\ inbox'[Listener] = <<Msg("Ping")>>
      BY <1>1, TwoHubs DEF Connect
    <2>2. <<Msg("Ping")>> \in Only(Pings)
      BY DEF Only, Pings
    <2>3. Lockstep("pong", "ping", <<>>, <<Msg("Ping")>>)
      BY <2>2 DEF Lockstep, Together
    <2>4. remote' \in Inventories
      BY <1>1 DEF Connect, NoInventory, Inventories
    <2>5. offered' \in [Hubs -> SUBSET TxHash]
      BY <1>1 DEF Connect
    <2> QED BY <1>1, <2>1, <2>3, <2>4, <2>5 DEF Connect, SessionInv
  <1>2. CASE GetPing
    <2> DEFINE ms == <<Msg("Pong")>>
    <2>1. StreamInv
      BY DEF SessionInv, StreamInv
    <2>2. /\ Reads(Listener, "ping", "Ping")
          /\ Answer(Listener, ms) /\ Goto(Listener, "their_inventory") /\ SameRest
      BY <1>2 DEF GetPing, SameRest
    <2>r. Lockstep(pc[Dialer], "ping", inbox[Dialer], inbox[Listener])
      BY <2>1, <2>2, ReadsFacts DEF StreamInv
    <2>3. Lockstep(pc[Dialer], "their_inventory", Sent(pc[Dialer], inbox[Dialer], ms),
                   Tail(inbox[Listener]))
      BY <2>1, <2>r, PingRow DEF StreamInv
    <2> HIDE DEF ms
    <2>4. StreamInv'
      BY <2>1, <2>2, <2>3, ListenerStep
    <2> QED BY <2>2, <2>4 DEF SessionInv, StreamInv, SameRest, round_vars
  <1> QED BY <1>1, <1>2

(* They exchange inventories ...                                            *)
LEMMA InventorySteps ==
    ASSUME SessionInv, GetPong \/ GetTheirInventory
    PROVE  SessionInv'
  <1>1. StreamInv /\ ReplicasOK(dag)
    BY DEF SessionInv, StreamInv
  <1>2. CASE GetPong
    <2> DEFINE m == InvMsg(from_dag(dag[Dialer].graph))
               ms == <<m>>
    <2>1. /\ Reads(Dialer, "pong", "Pong")
          /\ Answer(Dialer, ms) /\ Goto(Dialer, "inventory")
          /\ offered' = [offered EXCEPT ![Dialer] = VertexSet(dag[Dialer].graph)]
          /\ UNCHANGED <<dag, remote, wanted, clean, timeouts, refusals>>
      BY <1>2 DEF GetPong
    <2>2. Lockstep("pong", pc[Listener], inbox[Dialer], inbox[Listener]) /\ inbox[Dialer] # <<>>
      BY <1>1, <2>1, ReadsFacts DEF StreamInv
    <2>3. m \in InvMsgs /\ VertexSet(dag[Dialer].graph) \subseteq TxHash
      BY <1>1, TwoHubs, GraphFacts, InventoryTyped
    <2> HIDE DEF m
    <2>4. Lockstep("inventory", pc[Listener], Tail(inbox[Dialer]),
                   Sent(pc[Listener], inbox[Listener], ms))
      BY <2>2, <2>3, PongRow
    <2> HIDE DEF ms
    <2>5. StreamInv'
      BY <1>1, <2>1, <2>4, DialerStep
    <2>6. offered' \in [Hubs -> SUBSET TxHash]
      BY <2>1, <2>3 DEF SessionInv
    <2> QED BY <2>1, <2>5, <2>6 DEF SessionInv, StreamInv
  <1>3. CASE GetTheirInventory
    <2> DEFINE m == InvMsg(from_dag(dag[Listener].graph))
               ms == <<m>>
    <2>1. /\ Reads(Listener, "their_inventory", "SyncInventory")
          /\ Answer(Listener, ms) /\ Goto(Listener, "their_need")
          /\ remote' = Head(inbox[Listener]).inv
          /\ offered' = [offered EXCEPT ![Listener] = VertexSet(dag[Listener].graph)]
          /\ UNCHANGED <<dag, wanted, clean, timeouts, refusals>>
      BY <1>3 DEF GetTheirInventory
    <2>2. /\ Lockstep(pc[Dialer], "their_inventory", inbox[Dialer], inbox[Listener])
          /\ inbox[Listener] # <<>>
      BY <1>1, <2>1, ReadsFacts DEF StreamInv
    <2>3. m \in InvMsgs /\ VertexSet(dag[Listener].graph) \subseteq TxHash
      BY <1>1, TwoHubs, GraphFacts, InventoryTyped
    <2> HIDE DEF m
    <2>4. /\ Head(inbox[Listener]) \in InvMsgs
          /\ Lockstep(pc[Dialer], "their_need", Sent(pc[Dialer], inbox[Dialer], ms),
                      Tail(inbox[Listener]))
      BY <2>2, <2>3, TheirInventoryRow
    <2> HIDE DEF ms
    <2>5. StreamInv'
      BY <1>1, <2>1, <2>4, ListenerStep
    <2>6. offered' \in [Hubs -> SUBSET TxHash] /\ remote' \in Inventories
      BY <2>1, <2>3, <2>4, MessageFacts DEF SessionInv
    <2> QED BY <2>1, <2>5, <2>6 DEF SessionInv, StreamInv
  <1> QED BY <1>2, <1>3

(* ... and what they need of each other.                                    *)
LEMMA NeedSteps ==
    ASSUME SessionInv, GetInventory \/ GetTheirNeed
    PROVE  SessionInv'
  <1>1. StreamInv /\ ReplicasOK(dag)
    BY DEF SessionInv, StreamInv
  <1>2. CASE GetInventory
    <2> DEFINE g   == dag[Dialer].graph
               inv == Head(inbox[Dialer]).inv
               m   == IdsMsg("Need", collect_need(g, inv))
               k   == IdsMsg("Have", collect_have(g, advertised(inv)))
               ms  == <<m, k>>
    <2>1. /\ Reads(Dialer, "inventory", "SyncInventory")
          /\ Answer(Dialer, ms) /\ Goto(Dialer, "need") /\ SameRest
      BY <1>2 DEF GetInventory, SameRest
    <2>2. /\ Lockstep("inventory", pc[Listener], inbox[Dialer], inbox[Listener])
          /\ inbox[Dialer] # <<>>
      BY <1>1, <2>1, ReadsFacts DEF StreamInv
    <2>3. inv \in Inventories
      BY <2>2, InventoryRow, MessageFacts
    <2>4. m \in NeedMsgs /\ k \in HaveMsgs
      <3>1. GraphOK(g) /\ GenesisId \in VertexSet(g)
        BY <1>1, TwoHubs, GraphFacts
      <3> HIDE DEF g, inv
      <3>2. collect_need(g, inv) \in SUBSET Hashes
        BY <2>3, <3>1, NeedTyped
      <3>3. collect_have(g, advertised(inv)) \in SUBSET TxHash
        BY <3>1, HaveTyped
      <3> QED BY <3>2, <3>3 DEF NeedMsgs, HaveMsgs
    <2> HIDE DEF m, k
    <2>5. Lockstep("need", pc[Listener], Tail(inbox[Dialer]),
                   Sent(pc[Listener], inbox[Listener], ms))
      BY <2>2, <2>4, InventoryRow
    <2> HIDE DEF ms
    <2>6. StreamInv'
      BY <1>1, <2>1, <2>5, DialerStep
    <2> QED BY <2>1, <2>6 DEF SessionInv, StreamInv, SameRest, round_vars
  <1>3. CASE GetTheirNeed
    <2> DEFINE ms == <<>>
    <2>1. /\ Reads(Listener, "their_need", "Need")
          /\ Answer(Listener, ms) /\ Goto(Listener, "their_have")
          /\ wanted' = Head(inbox[Listener]).ids
          /\ UNCHANGED <<dag, remote, offered, clean, timeouts, refusals>>
      BY <1>3 DEF GetTheirNeed
    <2>2. /\ Lockstep(pc[Dialer], "their_need", inbox[Dialer], inbox[Listener])
          /\ inbox[Listener] # <<>>
      BY <1>1, <2>1, ReadsFacts DEF StreamInv
    <2>3. /\ Head(inbox[Listener]) \in NeedMsgs
          /\ Lockstep(pc[Dialer], "their_have", Sent(pc[Dialer], inbox[Dialer], ms),
                      Tail(inbox[Listener]))
      BY <2>2, TheirNeedRow
    <2> HIDE DEF ms
    <2>4. StreamInv'
      BY <1>1, <2>1, <2>3, ListenerStep
    <2>5. wanted' \in SUBSET Hashes
      BY <2>1, <2>3, MessageFacts
    <2> QED BY <2>1, <2>4, <2>5 DEF SessionInv, StreamInv
  <1> QED BY <1>2, <1>3

(* They send the bodies ...                                                 *)
LEMMA SendSteps ==
    ASSUME SessionInv, GetTheirHave \/ GetNeed
    PROVE  SessionInv'
  <1>1. StreamInv /\ ReplicasOK(dag)
    BY DEF SessionInv, StreamInv
  <1>2. CASE GetTheirHave
    <2> DEFINE g     == dag[Listener].graph
               extra == Head(inbox[Listener]).ids \ VertexSet(g)
               need  == collect_need(g, remote) \cup extra
               m     == IdsMsg("Need", need)
               bs    == Bodies(Listener, wanted)
               ms    == <<m>> \o bs
    <2>1. /\ Reads(Listener, "their_have", "Have")
          /\ Answer(Listener, ms) /\ Goto(Listener, "bodies") /\ SameRest
      BY <1>2 DEF GetTheirHave, SameRest
    <2>2. /\ Lockstep(pc[Dialer], "their_have", inbox[Dialer], inbox[Listener])
          /\ inbox[Listener] # <<>>
      BY <1>1, <2>1, ReadsFacts DEF StreamInv
    <2>3. extra \in SUBSET Hashes
      <3>1. Head(inbox[Listener]).ids \subseteq TxHash
        BY <2>2, TheirHaveRow, MessageFacts
      <3>2. GenesisId \in VertexSet(g)
        BY <1>1, TwoHubs, GraphFacts
      <3> QED BY <3>1, <3>2 DEF Hashes
    <2>4. m \in NeedMsgs /\ bs \in Seq(BodyMsgs)
      <3>1. GraphOK(g) /\ GenesisId \in VertexSet(g) /\ remote \in Inventories
        BY <1>1, TwoHubs, GraphFacts DEF SessionInv
      <3>b. bs \in Seq(BodyMsgs)
        BY <1>1, TwoHubs, BodiesSent DEF SessionInv
      <3> HIDE DEF g, extra
      <3>2. collect_need(g, remote) \in SUBSET Hashes
        BY <3>1, NeedTyped
      <3> QED BY <2>3, <3>2, <3>b DEF NeedMsgs
    <2> HIDE DEF m, bs
    <2>5. Lockstep(pc[Dialer], "bodies", Sent(pc[Dialer], inbox[Dialer], ms),
                   Tail(inbox[Listener]))
      BY <2>2, <2>4, TheirHaveRow
    <2> HIDE DEF ms
    <2>6. StreamInv'
      BY <1>1, <2>1, <2>5, ListenerStep
    <2> QED BY <2>1, <2>6 DEF SessionInv, StreamInv, SameRest, round_vars
  <1>3. CASE GetNeed
    <2> DEFINE bs == Bodies(Dialer, Head(inbox[Dialer]).ids)
               ms == bs \o <<Msg("Done")>>
    <2>1. /\ Reads(Dialer, "need", "Need")
          /\ Answer(Dialer, ms) /\ Goto(Dialer, "bodies") /\ SameRest
      BY <1>3 DEF GetNeed, SameRest
    <2>2. /\ Lockstep("need", pc[Listener], inbox[Dialer], inbox[Listener])
          /\ inbox[Dialer] # <<>>
      BY <1>1, <2>1, ReadsFacts DEF StreamInv
    <2>3. bs \in Seq(BodyMsgs)
      <3>1. Head(inbox[Dialer]).ids \in SUBSET Hashes
        BY <2>2, NeedRow, MessageFacts
      <3> QED BY <1>1, <3>1, TwoHubs, BodiesSent
    <2> HIDE DEF bs
    <2>4. Lockstep("bodies", pc[Listener], Tail(inbox[Dialer]),
                   Sent(pc[Listener], inbox[Listener], ms))
      BY <2>2, <2>3, NeedRow
    <2> HIDE DEF ms
    <2>5. StreamInv'
      BY <1>1, <2>1, <2>4, DialerStep
    <2> QED BY <2>1, <2>5 DEF SessionInv, StreamInv, SameRest, round_vars
  <1> QED BY <1>2, <1>3

(* ... and take them in.  What happens to a body is for the replica; on the *)
(* stream it is gone, whatever becomes of it.                               *)
LEMMA BodyTaken ==
    ASSUME SessionInv, NEW h \in Hubs, Reads(h, "bodies", "DagTransaction"),
           Answer(h, <<>>), UNCHANGED pc
    PROVE  StreamInv' /\ Head(inbox[h]) \in BodyMsgs
  <1> DEFINE ms == <<>>
  <1>1. StreamInv
    BY DEF SessionInv, StreamInv
  <1>2. pc[h] = "bodies" /\ inbox[h] # <<>> /\ Head(inbox[h]).kind = "DagTransaction"
    BY ReadsFacts
  <1>3. Goto(h, "bodies") /\ Answer(h, ms)
    BY <1>1, <1>2, GotoSame DEF StreamInv
  <1>4. CASE h = Dialer
    <2>1. Lockstep("bodies", pc[Listener], inbox[Dialer], inbox[Listener])
      BY <1>1, <1>2, <1>4 DEF StreamInv
    <2>2. /\ Head(inbox[Dialer]) \in BodyMsgs
          /\ Lockstep("bodies", pc[Listener], Tail(inbox[Dialer]),
                      Sent(pc[Listener], inbox[Listener], ms))
      BY <1>2, <1>4, <2>1, DialerBodyRow
    <2> HIDE DEF ms
    <2> QED BY <1>1, <1>3, <1>4, <2>2, DialerStep
  <1>5. CASE h = Listener
    <2>1. Lockstep(pc[Dialer], "bodies", inbox[Dialer], inbox[Listener])
      BY <1>1, <1>2, <1>5 DEF StreamInv
    <2>2. /\ Head(inbox[Listener]) \in BodyMsgs
          /\ Lockstep(pc[Dialer], "bodies", Sent(pc[Dialer], inbox[Dialer], ms),
                      Tail(inbox[Listener]))
      BY <1>2, <1>5, <2>1, ListenerBodyRow
    <2> HIDE DEF ms
    <2> QED BY <1>1, <1>3, <1>5, <2>2, ListenerStep
  <1> QED BY <1>4, <1>5, TwoHubs

(* A hub accepts a vertex that its graph may or may not admit.              *)
Accepts(h, t) == dag' = [dag EXCEPT ![h] = accept_wire_vertex(@, t).dag]

(* The replica invariant survives it; a graph takes the vertex or stays.    *)
LEMMA AcceptStep ==
    ASSUME dag = [h \in Hubs |-> dag[h]], ReplicasOK(dag), NEW h \in Hubs,
           NEW t \in Vertices, Accepts(h, t)
    PROVE  /\ dag' = [k \in Hubs |-> dag'[k]] /\ ReplicasOK(dag')
           /\ \A k \in Hubs :
                 \/ dag'[k].graph = dag[k].graph
                 \/ /\ GraphVerdict(dag[k].graph, t) = "Ok"
                    /\ dag'[k].graph = InsertVertex(dag[k].graph, t)
  <1> DEFINE r == accept_wire_vertex(dag[h], t)
  <1>1. dag' = [dag EXCEPT ![h] = r.dag]
    BY DEF Accepts
  <1>2. ReplicaState(dag[h], Vertices) /\ dag[h].faucet = Faucet
    BY DEF ReplicasOK
  <1>3. /\ ReplicaState(r.dag, Vertices) /\ r.dag.faucet = Faucet
        /\ \/ r.dag = dag[h]
           \/ GraphVerdict(dag[h].graph, t) = "Ok" /\ r.dag.graph = InsertVertex(dag[h].graph, t)
    BY <1>2, AcceptOK
  <1> HIDE DEF r
  <1> QED BY <1>1, <1>3 DEF ReplicasOK

(* A body is stored or refused.                                             *)
LEMMA BodySteps ==
    ASSUME SessionInv, NEW h \in Hubs, GetBody(h) \/ RefuseBody(h)
    PROVE  SessionInv'
  <1>1. CASE GetBody(h)
    <2>1. /\ Reads(h, "bodies", "DagTransaction") /\ Answer(h, <<>>)
          /\ Accepts(h, Head(inbox[h]).tx)
          /\ UNCHANGED <<pc, round_vars, clean, timeouts, refusals>>
      BY <1>1 DEF GetBody, Accepts
    <2>2. StreamInv' /\ Head(inbox[h]) \in BodyMsgs
      BY <2>1, BodyTaken
    <2>3. Head(inbox[h]).tx \in Vertices
      BY <2>2, MessageFacts
    <2>4. dag' = [k \in Hubs |-> dag'[k]] /\ ReplicasOK(dag')
      BY <2>1, <2>3, AcceptStep DEF SessionInv
    <2> QED BY <2>1, <2>2, <2>4 DEF SessionInv, StreamInv, round_vars
  <1>2. CASE RefuseBody(h)
    <2>1. /\ Reads(h, "bodies", "DagTransaction") /\ Answer(h, <<>>)
          /\ refusals < MaxRefusals /\ refusals' = refusals + 1 /\ clean' = FALSE
          /\ UNCHANGED <<dag, pc, round_vars, timeouts>>
      BY <1>2 DEF RefuseBody
    <2>2. StreamInv'
      BY <2>1, BodyTaken
    <2>3. refusals' \in 0 .. MaxRefusals
      BY <2>1, MeshSyncAssumption DEF SessionInv
    <2> QED BY <2>1, <2>2, <2>3 DEF SessionInv, StreamInv, round_vars
  <1> QED BY <1>1, <1>2

(* Whoever brings a vertex, the session does not notice.                    *)
LEMMA ArrivalStep ==
    ASSUME SessionInv, NEW h \in Hubs, LocalArrival(h)
    PROVE  SessionInv'
  <1>1. PICK t \in Fresh : Accepts(h, t)
    BY DEF LocalArrival, Accepts
  <1>2. t \in Vertices
    BY DEF Vertices
  <1>3. dag' = [k \in Hubs |-> dag'[k]] /\ ReplicasOK(dag')
    BY <1>1, <1>2, AcceptStep DEF SessionInv
  <1> QED BY <1>3 DEF SessionInv, LocalArrival, round_vars

(* The round ends ...                                                       *)
LEMMA DoneSteps ==
    ASSUME SessionInv, NEW h \in Hubs, GetDone(h)
    PROVE  SessionInv'
  <1> DEFINE ms == IF h = Listener THEN <<Msg("Done")>> ELSE <<>>
  <1>1. /\ Reads(h, "bodies", "Done") /\ Answer(h, ms) /\ Goto(h, "idle") /\ SameRest
    BY DEF GetDone, SameRest
  <1>2. pc[h] = "bodies" /\ inbox[h] # <<>> /\ Head(inbox[h]).kind = "Done" /\ StreamInv
    BY <1>1, ReadsFacts DEF SessionInv, StreamInv
  <1>3. ASSUME h = Dialer PROVE StreamInv'
    <2>1. Lockstep("bodies", pc[Listener], inbox[Dialer], inbox[Listener]) /\ ms = <<>>
      BY <1>2, <1>3, TwoHubs DEF StreamInv
    <2> HIDE DEF ms
    <2>2. Lockstep("idle", pc[Listener], Tail(inbox[Dialer]),
                   Sent(pc[Listener], inbox[Listener], ms))
      BY <1>2, <1>3, <2>1, DialerDoneRow
    <2> QED BY <1>1, <1>2, <1>3, <2>2, DialerStep
  <1>4. ASSUME h = Listener PROVE StreamInv'
    <2>1. /\ Lockstep(pc[Dialer], "bodies", inbox[Dialer], inbox[Listener])
          /\ ms = <<Msg("Done")>>
      BY <1>2, <1>4 DEF StreamInv
    <2> HIDE DEF ms
    <2>2. Lockstep(pc[Dialer], "idle", Sent(pc[Dialer], inbox[Dialer], ms),
                   Tail(inbox[Listener]))
      BY <1>2, <1>4, <2>1, ListenerDoneRow
    <2> QED BY <1>1, <1>2, <1>4, <2>2, ListenerStep
  <1>5. StreamInv'
    BY <1>3, <1>4, TwoHubs
  <1> QED BY <1>1, <1>5 DEF SessionInv, StreamInv, SameRest, round_vars

(* ... or one side leaves it, ...                                           *)
LEMMA GiveUpSteps ==
    ASSUME SessionInv, NEW h \in Hubs, GiveUp(h)
    PROVE  SessionInv'
  <1>1. /\ \/ pc[Peer(h)] = "idle"
           \/ inbox[h] # <<>> /\ ~Decodes(Head(inbox[h]))
        /\ inbox' = [inbox EXCEPT ![h] = <<>>] /\ Goto(h, "idle") /\ clean' = FALSE
        /\ UNCHANGED <<dag, round_vars, timeouts, refusals>>
    BY DEF GiveUp
  <1>2. /\ pc = [k \in Hubs |-> pc[k]] /\ inbox = [k \in Hubs |-> inbox[k]]
        /\ Lockstep(pc[Dialer], pc[Listener], inbox[Dialer], inbox[Listener])
    BY DEF SessionInv
  <1>3. /\ pc' = [k \in Hubs |-> pc'[k]] /\ pc'[h] = "idle" /\ pc'[Peer(h)] = pc[Peer(h)]
        /\ inbox' = [k \in Hubs |-> inbox'[k]]
        /\ inbox'[h] = <<>> /\ inbox'[Peer(h)] = inbox[Peer(h)]
    <2>1. Peer(h) \in Hubs /\ Peer(h) # h
      BY TwoHubs
    <2> QED BY <1>1, <1>2, <2>1, GotoFacts
  <1>4. CASE h = Dialer
    <2>1. Lockstep("idle", pc[Listener], <<>>, inbox[Listener])
      BY <1>1, <1>2, <1>4, TwoHubs, DialerGivesUpRow
    <2> QED BY <1>1, <1>3, <1>4, <2>1, TwoHubs DEF SessionInv, round_vars
  <1>5. CASE h = Listener
    <2>1. Lockstep(pc[Dialer], "idle", inbox[Dialer], <<>>)
      BY <1>1, <1>2, <1>5, TwoHubs, ListenerGivesUpRow
    <2> QED BY <1>1, <1>3, <1>5, <2>1, TwoHubs DEF SessionInv, round_vars
  <1> QED BY <1>4, <1>5, TwoHubs

(* ... or waits too long.                                                   *)
LEMMA TimeOutSteps ==
    ASSUME SessionInv, NEW h \in Hubs, TimeOut(h)
    PROVE  SessionInv'
  <1> DEFINE late == h = Listener /\ pc[h] = "bodies"
  <1>1. /\ pc[h] # "idle" /\ inbox[h] = <<>> /\ pc[Peer(h)] # "idle"
        /\ timeouts < MaxTimeouts /\ timeouts' = timeouts + 1
        /\ inbox' = [inbox EXCEPT ![Peer(h)] =
                        IF late THEN Append(inbox[Peer(h)], Msg("Done")) ELSE inbox[Peer(h)]]
        /\ Goto(h, "idle") /\ clean' = FALSE
        /\ UNCHANGED <<dag, round_vars, refusals>>
    BY DEF TimeOut
  <1>2. /\ pc = [k \in Hubs |-> pc[k]] /\ inbox = [k \in Hubs |-> inbox[k]]
        /\ Lockstep(pc[Dialer], pc[Listener], inbox[Dialer], inbox[Listener])
    BY DEF SessionInv
  <1>3. /\ pc' = [k \in Hubs |-> pc'[k]] /\ pc'[h] = "idle" /\ pc'[Peer(h)] = pc[Peer(h)]
        /\ inbox' = [k \in Hubs |-> inbox'[k]] /\ inbox'[h] = <<>>
        /\ inbox'[Peer(h)] =
              IF late THEN Append(inbox[Peer(h)], Msg("Done")) ELSE inbox[Peer(h)]
    <2>1. Peer(h) \in Hubs /\ Peer(h) # h
      BY TwoHubs
    <2> HIDE DEF late
    <2> QED BY <1>1, <1>2, <2>1, GotoFacts
  <1>4. timeouts' \in 0 .. MaxTimeouts
    BY <1>1, MeshSyncAssumption DEF SessionInv
  <1>5. CASE h = Dialer
    <2>1. Lockstep("idle", pc[Listener], <<>>, inbox[Listener])
      BY <1>1, <1>2, <1>5, TwoHubs, DialerTimesOutRow
    <2>2. ~late
      BY <1>5, TwoHubs
    <2> HIDE DEF late
    <2> QED BY <1>1, <1>3, <1>4, <1>5, <2>1, <2>2, TwoHubs DEF SessionInv, round_vars
  <1>6. CASE h = Listener
    <2>1. Lockstep(pc[Dialer], "idle",
                   IF pc[Listener] = "bodies" THEN Append(inbox[Dialer], Msg("Done"))
                   ELSE inbox[Dialer], <<>>)
      BY <1>1, <1>2, <1>6, TwoHubs, ListenerTimesOutRow
    <2>2. inbox'[Dialer] = IF pc[Listener] = "bodies" THEN Append(inbox[Dialer], Msg("Done"))
                           ELSE inbox[Dialer]
      BY <1>3, <1>6, TwoHubs
    <2> HIDE DEF late
    <2> QED BY <1>1, <1>3, <1>4, <1>6, <2>1, <2>2, TwoHubs DEF SessionInv, round_vars
  <1> QED BY <1>5, <1>6, TwoHubs

-----------------------------------------------------------------------------
(* The theorems.                                                           *)

(* Every step of every interleaving, whoever leaves a round in whatever     *)
(* state, moves from one row of the table to another.                       *)
THEOREM SessionInvariant == Spec => []SessionInv
  <1>1. Init => SessionInv
    <2> SUFFICES ASSUME Init PROVE SessionInv
      OBVIOUS
    <2>1. ReplicasOK(dag) /\ dag = [h \in Hubs |-> dag[h]]
      BY StartedOK DEF Init, ReplicasOK
    <2>2. Lockstep(pc[Dialer], pc[Listener], inbox[Dialer], inbox[Listener])
      BY TwoHubs DEF Init, Lockstep, DialerAlone
    <2>3. remote \in Inventories /\ offered \in [Hubs -> SUBSET TxHash]
      BY DEF Init, NoInventory, Inventories
    <2> QED BY <2>1, <2>2, <2>3, MeshSyncAssumption DEF Init, SessionInv
  <1>2. SessionInv /\ [Next]_vars => SessionInv'
    <2> SUFFICES ASSUME SessionInv, [Next]_vars PROVE SessionInv'
      OBVIOUS
    <2>1. CASE Connect \/ Handshake
      BY <2>1, HelloSteps, InventorySteps, NeedSteps, SendSteps DEF Handshake
    <2>2. ASSUME NEW h \in Hubs,
                 \/ GetBody(h) \/ RefuseBody(h) \/ GetDone(h)
                 \/ GiveUp(h) \/ TimeOut(h) \/ LocalArrival(h)
          PROVE  SessionInv'
      BY <2>2, BodySteps, DoneSteps, GiveUpSteps, TimeOutSteps, ArrivalStep
    <2>3. CASE UNCHANGED vars
      BY <2>3 DEF vars, round_vars, SessionInv
    <2> QED BY <2>1, <2>2, <2>3 DEF Next
  <1> QED BY <1>1, <1>2, PTL DEF Spec

(* Streams hold messages, and no row but that of two idle threads has both  *)
(* streams empty.                                                           *)
LEMMA RowFacts ==
    ASSUME NEW pd, NEW pl, NEW qd, NEW ql, Lockstep(pd, pl, qd, ql)
    PROVE  /\ qd \in Seq(Messages) /\ ql \in Seq(Messages)
           /\ pd \in {"idle", "pong", "inventory", "need", "bodies"}
           /\ pl \in {"idle", "ping", "their_inventory", "their_need", "their_have", "bodies"}
           /\ pd = "idle" \/ pl = "idle" \/ qd # <<>> \/ ql # <<>>
  <1> DEFINE Stream(q) == q \in Seq(Messages)
  <1>1. /\ Stream(<<>>)
        /\ \A q \in NeedHave \cup Seq(BodyMsgs) \cup BodiesDone \cup NeedBodies
                     \cup NeedBodiesDone : Stream(q)
    BY NeedHaveNext, BodiesNext, BodiesDoneNext DEF NeedBodies, NeedBodiesDone, NeedThen
  <1>2. \A q : q \in Only(Pings) \cup Only(Pongs) \cup Only(InvMsgs) \cup Only(HaveMsgs)
               => Stream(q) /\ q # <<>>
    <2>1. /\ Pings \subseteq Messages /\ Pongs \subseteq Messages
          /\ InvMsgs \subseteq Messages /\ HaveMsgs \subseteq Messages
      BY DEF Messages
    <2> QED BY <2>1, OnlyNext
  <1>3. /\ \A q \in NeedHave \cup BodiesDone : q # <<>>
        /\ \A q \in NeedBodies : q # <<>>
    BY NeedHaveNext, BodiesDoneNext DEF NeedBodies, NeedThen
  <1> HIDE DEF Stream
  <1>4. /\ Stream(qd) /\ Stream(ql)
        /\ pd = "idle" \/ pl = "idle" \/ qd # <<>> \/ ql # <<>>
    BY <1>1, <1>2, <1>3 DEF Lockstep, DialerAlone, ListenerAlone, Together
  <1>5. /\ pd \in {"idle", "pong", "inventory", "need", "bodies"}
        /\ pl \in {"idle", "ping", "their_inventory", "their_need", "their_have", "bodies"}
    BY DEF Lockstep, DialerAlone, ListenerAlone, Together
  <1> QED BY <1>4, <1>5 DEF Stream

(* What may come first, and where.                                          *)
LEMMA HeadFacts ==
    ASSUME NEW pd, NEW pl, NEW qd, NEW ql, Lockstep(pd, pl, qd, ql)
    PROVE  /\ qd # <<>> =>
                \/ pd = "pong" /\ Head(qd).kind = "Pong"
                \/ pd = "inventory" /\ Head(qd).kind = "SyncInventory"
                \/ pd = "need" /\ Head(qd).kind = "Need"
                \/ pd = "bodies" /\ Head(qd).kind \in {"DagTransaction", "Done"}
           /\ ql # <<>> =>
                \/ pl = "ping" /\ Head(ql).kind = "Ping"
                \/ pl = "their_inventory" /\ Head(ql).kind = "SyncInventory"
                \/ pl = "their_need" /\ Head(ql).kind = "Need"
                \/ pl = "their_have" /\ Head(ql).kind = "Have"
                \/ pl = "bodies" /\ Head(ql).kind \in {"DagTransaction", "Done"}
  <1> DEFINE Kind(q) == Head(q).kind
  <1>1. /\ \A q \in Only(Pings) : Kind(q) = "Ping"
        /\ \A q \in Only(Pongs) : Kind(q) = "Pong"
        /\ \A q \in Only(InvMsgs) : Kind(q) = "SyncInventory"
        /\ \A q \in Only(HaveMsgs) : Kind(q) = "Have"
    BY OnlyNext, MessageFacts
  <1>2. \A q \in NeedHave \cup NeedBodies \cup NeedBodiesDone : Kind(q) = "Need"
    BY NeedHaveNext, MessageFacts DEF NeedBodies, NeedBodiesDone, NeedThen
  <1>3. /\ \A q \in BodiesDone : Kind(q) \in {"DagTransaction", "Done"}
        /\ \A q \in Seq(BodyMsgs) : q # <<>> => Kind(q) = "DagTransaction"
    BY BodiesNext, BodiesDoneNext, MessageFacts
  <1> HIDE DEF Kind
  <1>4. qd # <<>> =>
          \/ pd = "pong" /\ Kind(qd) = "Pong"
          \/ pd = "inventory" /\ Kind(qd) = "SyncInventory"
          \/ pd = "need" /\ Kind(qd) = "Need"
          \/ pd = "bodies" /\ Kind(qd) \in {"DagTransaction", "Done"}
    BY <1>1, <1>2, <1>3 DEF Lockstep, DialerAlone, Together
  <1>5. ql # <<>> =>
          \/ pl = "ping" /\ Kind(ql) = "Ping"
          \/ pl = "their_inventory" /\ Kind(ql) = "SyncInventory"
          \/ pl = "their_need" /\ Kind(ql) = "Need"
          \/ pl = "their_have" /\ Kind(ql) = "Have"
          \/ pl = "bodies" /\ Kind(ql) \in {"DagTransaction", "Done"}
    BY <1>1, <1>2, <1>3 DEF Lockstep, ListenerAlone, Together
  <1> QED BY <1>4, <1>5 DEF Kind

(* The two sides of run_sync_round read and write in matching order: they   *)
(* never both wait for a message that nobody has sent, whoever gave up in   *)
(* an earlier round, and none finds a message it did not expect.            *)
THEOREM LockstepTheorem == Spec => []NeverBothWaiting
  <1>1. SessionInv => NeverBothWaiting
    <2> SUFFICES ASSUME SessionInv PROVE NeverBothWaiting
      OBVIOUS
    <2>1. Lockstep(pc[Dialer], pc[Listener], inbox[Dialer], inbox[Listener])
      BY DEF SessionInv
    <2>2. \E h \in Hubs : pc[h] = "idle" \/ inbox[h] # <<>>
      BY <2>1, RowFacts, TwoHubs
    <2>3. ASSUME NEW h \in Hubs, HasMessage(h) PROVE Expects(h, Head(inbox[h]).kind)
      <3>1. inbox[h] # <<>>
        BY <2>3 DEF HasMessage
      <3>2. CASE h = Dialer
        <4> DEFINE k == Head(inbox[Dialer]).kind
        <4>1. \/ pc[Dialer] = "pong" /\ k = "Pong"
              \/ pc[Dialer] = "inventory" /\ k = "SyncInventory"
              \/ pc[Dialer] = "need" /\ k = "Need"
              \/ pc[Dialer] = "bodies" /\ k \in {"DagTransaction", "Done"}
          BY <2>1, <3>1, <3>2, HeadFacts
        <4> HIDE DEF k
        <4>2. Expects(Dialer, k)
          BY <4>1 DEF Expects
        <4> QED BY <3>2, <4>2 DEF k
      <3>3. CASE h = Listener
        <4> DEFINE k == Head(inbox[Listener]).kind
        <4>1. \/ pc[Listener] = "ping" /\ k = "Ping"
              \/ pc[Listener] = "their_inventory" /\ k = "SyncInventory"
              \/ pc[Listener] = "their_need" /\ k = "Need"
              \/ pc[Listener] = "their_have" /\ k = "Have"
              \/ pc[Listener] = "bodies" /\ k \in {"DagTransaction", "Done"}
          BY <2>1, <3>1, <3>3, HeadFacts
        <4> HIDE DEF k
        <4>2. Expects(Listener, k)
          BY <4>1 DEF Expects
        <4> QED BY <3>3, <4>2 DEF k
      <3> QED BY <3>2, <3>3, TwoHubs
    <2> QED BY <2>2, <2>3 DEF NeverBothWaiting
  <1> QED BY <1>1, SessionInvariant, PTL

(* Replicas, threads, streams and what they carry keep their types.         *)
THEOREM TypeTheorem == Spec => []TypeOK
  <1>1. SessionInv => TypeOK
    <2> SUFFICES ASSUME SessionInv PROVE TypeOK
      OBVIOUS
    <2>1. \A h \in Hubs : IsReplica(dag[h])
      BY VerticesKnown, ReplicaTyped DEF SessionInv, ReplicasOK
    <2>2. Lockstep(pc[Dialer], pc[Listener], inbox[Dialer], inbox[Listener])
      BY DEF SessionInv
    <2>3. ASSUME NEW h \in Hubs, NEW n \in DOMAIN inbox[h]
          PROVE  inbox[h][n].kind \in {"Ping", "Pong", "SyncInventory", "Need", "Have",
                                       "DagTransaction", "Done"}
      <3>1. inbox[h] \in Seq(Messages)
        BY <2>2, RowFacts, TwoHubs
      <3>2. inbox[h][n] \in Messages
        BY <3>1
      <3> QED BY <3>2, MessageFacts DEF Messages
    <2>4. {remote.tips, remote.recent, wanted} \cup {offered[h] : h \in Hubs}
            \subseteq SUBSET TxHash
      BY DEF SessionInv, Inventories, Hashes
    <2> QED BY <2>1, <2>2, <2>3, <2>4, RowFacts DEF TypeOK, SessionInv
  <1> QED BY <1>1, SessionInvariant, PTL

(* A step accepts some vertex, or leaves the replicas alone.                *)
LEMMA DagMoves ==
    ASSUME SessionInv, [Next]_vars
    PROVE  UNCHANGED dag \/ \E h \in Hubs, t \in Vertices : Accepts(h, t)
  <1>1. CASE Connect \/ Handshake
    BY <1>1 DEF Connect, Handshake, GetPing, GetPong, GetTheirInventory, GetInventory,
                GetTheirNeed, GetTheirHave, GetNeed
  <1>2. ASSUME NEW h \in Hubs, GetBody(h)
        PROVE  \E t \in Vertices : Accepts(h, t)
    <2>1. Head(inbox[h]) \in BodyMsgs
      BY <1>2, BodyTaken DEF GetBody
    <2>2. Head(inbox[h]).tx \in Vertices
      BY <2>1, MessageFacts
    <2> QED BY <1>2, <2>2 DEF GetBody, Accepts
  <1>3. ASSUME NEW h \in Hubs, RefuseBody(h) \/ GetDone(h) \/ GiveUp(h) \/ TimeOut(h)
        PROVE  UNCHANGED dag
    BY <1>3 DEF RefuseBody, GetDone, GiveUp, TimeOut
  <1>4. ASSUME NEW h \in Hubs, LocalArrival(h)
        PROVE  \E t \in Vertices : Accepts(h, t)
    BY <1>4 DEF LocalArrival, Accepts, Vertices
  <1>5. CASE UNCHANGED vars
    BY <1>5 DEF vars
  <1> QED BY <1>1, <1>2, <1>3, <1>4, <1>5 DEF Next

(* Where no walk for a weight is cut short, the weights of both graphs are  *)
(* exact ...                                                                *)
BothExact == \A h \in Hubs : WeightsExact(dag[h].graph)

(* ... in every state.                                                      *)
LEMMA ExactInvariant == ASSUME WalksUncut(Vertices) PROVE Spec => []BothExact
  <1>1. Init => BothExact
    BY StartedOK DEF Init, BothExact
  <1>2. SessionInv /\ SessionInv' /\ BothExact /\ [Next]_vars => BothExact'
    <2> SUFFICES ASSUME SessionInv, BothExact, [Next]_vars PROVE BothExact'
      OBVIOUS
    <2>1. dag = [h \in Hubs |-> dag[h]] /\ ReplicasOK(dag)
      BY DEF SessionInv
    <2>2. UNCHANGED dag \/ \E h \in Hubs, t \in Vertices : Accepts(h, t)
      BY DagMoves
    <2>3. ASSUME NEW h \in Hubs, NEW t \in Vertices, Accepts(h, t), NEW k \in Hubs
          PROVE  WeightsExact(dag'[k].graph)
      <3>1. \/ dag'[k].graph = dag[k].graph
            \/ /\ GraphVerdict(dag[k].graph, t) = "Ok"
               /\ dag'[k].graph = InsertVertex(dag[k].graph, t)
        BY <2>1, <2>3, AcceptStep
      <3>2. /\ WeightsExact(dag[k].graph)
            /\ GraphOK(dag[k].graph) /\ StoredFrom(dag[k].graph, Vertices)
        BY <2>1, GraphFacts DEF BothExact
      <3>3. Cardinality({x.id : x \in Vertices}) + 1 <= U64_MAX
        BY VerticesKnown DEF KnownRoom, RoomFor
      <3>4. GraphVerdict(dag[k].graph, t) = "Ok" => WeightsExact(InsertVertex(dag[k].graph, t))
        BY <3>2, <3>3, VerticesKnown, StoredWeights
      <3> QED BY <3>1, <3>2, <3>4
    <2> QED BY <2>2, <2>3 DEF BothExact
  <1> QED BY <1>1, <1>2, SessionInvariant, PTL DEF Spec

(* ... and hubs with the same vertices, met in whatever order and brought   *)
(* by whomever, agree on the winner of every nonce.                         *)
THEOREM WinnersTheorem == ASSUME WalksUncut(Vertices) PROVE Spec => []SameGraphSameWinners
  <1>1. SessionInv /\ BothExact => SameGraphSameWinners
    <2> SUFFICES ASSUME SessionInv, BothExact, SameGraph
                 PROVE  Losers(dag[Dialer].graph) = Losers(dag[Listener].graph)
      BY DEF SameGraphSameWinners
    <2>1. SameVertices(dag[Dialer].graph, dag[Listener].graph)
      BY TwoHubs, GraphFacts DEF SessionInv, SameGraph, Stored, SameVertices
    <2> QED BY <2>1, TwoHubs, SameLosers DEF BothExact
  <1> QED BY <1>1, SessionInvariant, ExactInvariant, PTL

-----------------------------------------------------------------------------
(* What an undisturbed round delivers.                                     *)

(* Then an inventory lists all there is.                                    *)
LEMMA InventoryComplete ==
    ASSUME ClosuresUncut(Vertices), NEW g, GraphOK(g), StoredFrom(g, Vertices), Stocked(g)
    PROVE  advertised(from_dag(g)) \cup {GenesisId} = VertexSet(g)
  <1>1. UNION {parent_closure(g, tip) : tip \in g.tips} = VertexSet(g)
    BY VerticesKnown, TipsSeeAll
  <1>2. g.tips \subseteq VertexSet(g) /\ GenesisId \in VertexSet(g)
    BY DEF GraphOK, TipsConsistent, StoredFrom
  <1> QED BY <1>1, <1>2 DEF from_dag, advertised, Stocked

(* All that is stored is closed, and what is closed remains so.             *)
LEMMA ClosedFacts ==
    ASSUME NEW g
    PROVE  /\ IsClosed(g, {})
           /\ GraphOK(g) => IsClosed(g, VertexSet(g))
           /\ \A h, C : Grown(g, h) /\ IsClosed(g, C) => IsClosed(h, C)
  BY DEF IsClosed, GraphOK, ParentsStored, ParentSet, Grown

(* What a list makes a hub need of the other.                               *)
LEMMA ListedNeed ==
    ASSUME NEW g, GraphOK(g), GenesisId \in VertexSet(g),
           NEW h, NEW O, IsClosed(h, O),
           NEW inv, advertised(inv) \cup {GenesisId} = O
    PROVE  Needed(h, O, collect_need(g, inv), VertexSet(g))
  <1>1. collect_need(g, inv) = O \ VertexSet(g)
    BY NeedIsMissing
  <1> QED BY <1>1 DEF Needed, Sound, IsClosed

(* What a hub offers beside what the other has listed.                      *)
LEMMA HaveSound ==
    ASSUME NEW g, GraphOK(g), Stocked(g), NEW S, NEW O, O \subseteq S,
           NEW inv, advertised(inv) \cup {GenesisId} = O
    PROVE  Sound(g, collect_have(g, advertised(inv)), S)
  <1> DEFINE H == collect_have(g, advertised(inv))
  <1>1. /\ H \subseteq VertexSet(g) \ {g.genesis_id}
        /\ \A i \in H :
              ParentSet(g.vertices[i]) \subseteq H \cup advertised(inv) \cup {g.genesis_id}
    BY HaveIsClosed
  <1> HIDE DEF H
  <1>2. Sound(g, H, S)
    BY <1>1 DEF Sound, Stocked
  <1> QED BY <1>2 DEF H

(* ... and that the other then needs, too.                                  *)
LEMMA ExtraNeed ==
    ASSUME NEW g, NEW O, NEW S, NEW need, Needed(g, O, need, S), NEW have, Sound(g, have, S)
    PROVE  Needed(g, O, need \cup (have \ S), S)
  BY DEF Needed, Sound

-----------------------------------------------------------------------------
(* A round that nothing has disturbed.                                      *)

(* The inventory lists all that was stored when it was sent.                *)
Lists(inv, O) == advertised(inv) \cup {GenesisId} = O

(* The rows of the table that such a round goes through, and what the       *)
(* messages mean in each: an inventory lists all of a hub, a Need names all *)
(* that is missing of it, and the bodies bring just that.                   *)
Undisturbed ==
    LET gd == dag[Dialer].graph
        gl == dag[Listener].graph
        od == offered[Dialer]
        ol == offered[Listener]
        qd == inbox[Dialer]
        ql == inbox[Listener]
        At(pd, pl) == pc[Dialer] = pd /\ pc[Listener] = pl
    IN  \/ At("idle", "idle")
        \/ At("pong", "ping")
        \/ At("pong", "their_inventory")
        \/ At("inventory", "their_inventory") /\ Lists(Head(ql).inv, od)
        \/ /\ At("inventory", "their_need")
           /\ Lists(remote, od) /\ Lists(Head(qd).inv, ol)
        \/ /\ At("need", "their_need")
           /\ Lists(remote, od) /\ Needed(gl, ol, Head(ql).ids, VertexSet(gd))
           /\ Sound(gd, Head(Tail(ql)).ids, VertexSet(gl))
        \/ /\ At("need", "their_have")
           /\ Lists(remote, od) /\ Needed(gl, ol, wanted, VertexSet(gd))
           /\ Sound(gd, Head(ql).ids, VertexSet(gl))
        \/ /\ At("need", "bodies")
           /\ Needed(gd, od, Head(qd).ids, VertexSet(gl)) /\ Due(VertexSet(gd), ol, Tail(qd))
        \/ /\ At("bodies", "bodies")
           /\ Due(VertexSet(gd), ol, qd) /\ Due(VertexSet(gl), od, ql)
        \/ At("bodies", "idle") /\ Due(VertexSet(gd), ol, qd) /\ od \subseteq VertexSet(gl)

(* What the graphs are for it.                                              *)
Ground ==
    \A h \in Hubs : Stocked(dag[h].graph) /\ IsClosed(dag[h].graph, offered[h])

DeliveryInv == Ground /\ (clean => Undisturbed)

(* Graphs only grow.                                                        *)
LEMMA GraphsGrow ==
    ASSUME SessionInv, [Next]_vars, NEW k \in Hubs
    PROVE  /\ Grown(dag[k].graph, dag'[k].graph)
           /\ Stocked(dag[k].graph) => Stocked(dag'[k].graph)
  <1>1. dag = [h \in Hubs |-> dag[h]] /\ ReplicasOK(dag)
    BY DEF SessionInv
  <1>2. GraphOK(dag[k].graph) /\ StoredFrom(dag[k].graph, Vertices)
    BY <1>1, GraphFacts
  <1>3. \A g : Grown(g, g)
    BY DEF Grown
  <1>4. CASE UNCHANGED dag
    BY <1>3, <1>4
  <1>5. ASSUME NEW h \in Hubs, NEW t \in Vertices, Accepts(h, t)
        PROVE  /\ Grown(dag[k].graph, dag'[k].graph)
               /\ Stocked(dag[k].graph) => Stocked(dag'[k].graph)
    <2> DEFINE g == dag[k].graph
               n == InsertVertex(g, t)
    <2>1. \/ dag'[k].graph = g
          \/ GraphVerdict(g, t) = "Ok" /\ dag'[k].graph = n
      BY <1>1, <1>5, AcceptStep
    <2>2. GraphVerdict(g, t) = "Ok" /\ Stocked(g) => Stocked(n)
      BY <1>2, VerticesKnown, InsertKeepsStock
    <2>3. GraphVerdict(g, t) = "Ok" => Grown(g, n)
      BY <1>2, VerticesKnown, InsertedUsers, InsertedFields DEF Grown
    <2> HIDE DEF g, n
    <2> QED BY <1>3, <2>1, <2>2, <2>3 DEF g
  <1> QED BY <1>4, <1>5, DagMoves

(* The ground holds through every step.                                     *)
LEMMA GroundStep ==
    ASSUME SessionInv, Ground, [Next]_vars
    PROVE  Ground'
  <1> SUFFICES ASSUME NEW h \in Hubs
               PROVE  Stocked(dag'[h].graph) /\ IsClosed(dag'[h].graph, offered'[h])
    BY DEF Ground
  <1>1. GraphOK(dag[h].graph)
    BY GraphFacts DEF SessionInv
  <1>2. /\ Grown(dag[h].graph, dag'[h].graph)
        /\ Stocked(dag[h].graph) /\ Stocked(dag'[h].graph)
    BY GraphsGrow DEF Ground
  <1>3. offered'[h] = offered[h] \/ offered'[h] = {} \/ offered'[h] = VertexSet(dag[h].graph)
    <2>0. offered \in [Hubs -> SUBSET TxHash]
      BY DEF SessionInv
    <2>1. CASE Connect
      BY <2>1 DEF Connect
    <2>2. CASE Handshake
      BY <2>0, <2>2 DEF Handshake, GetPing, GetPong, GetTheirInventory, GetInventory,
                  GetTheirNeed, GetTheirHave, GetNeed, round_vars
    <2>3. ASSUME NEW k \in Hubs,
                 \/ GetBody(k) \/ RefuseBody(k) \/ GetDone(k)
                 \/ GiveUp(k) \/ TimeOut(k) \/ LocalArrival(k)
          PROVE  UNCHANGED offered
      BY <2>3 DEF GetBody, RefuseBody, GetDone, GiveUp, TimeOut, LocalArrival, round_vars
    <2>4. CASE UNCHANGED vars
      BY <2>4 DEF vars, round_vars
    <2> QED BY <2>1, <2>2, <2>3, <2>4 DEF Next
  <1>4. /\ IsClosed(dag[h].graph, offered[h]) /\ IsClosed(dag[h].graph, {})
        /\ IsClosed(dag[h].graph, VertexSet(dag[h].graph))
    <2> DEFINE g == dag[h].graph
    <2>1. IsClosed(g, {}) /\ IsClosed(g, VertexSet(g))
      <3> HIDE DEF g
      <3> QED BY <1>1, ClosedFacts DEF g
    <2> QED BY <2>1 DEF Ground
  <1>5. IsClosed(dag'[h].graph, offered'[h])
    BY <1>2, <1>3, <1>4, ClosedFacts
  <1> QED BY <1>2, <1>5

(* Where a step of the dialer leads ...                                     *)
LEMMA DialerMoves ==
    ASSUME SessionInv, NEW at, NEW msgs, Answer(Dialer, msgs), Goto(Dialer, at)
    PROVE  /\ pc'[Dialer] = at /\ pc'[Listener] = pc[Listener]
           /\ inbox'[Dialer] = Tail(inbox[Dialer])
           /\ inbox'[Listener] = Sent(pc[Listener], inbox[Listener], msgs)
  <1>1. pc = [h \in Hubs |-> pc[h]] /\ inbox = [h \in Hubs |-> inbox[h]]
    BY DEF SessionInv
  <1>2. /\ inbox'[Dialer] = Tail(inbox[Dialer])
        /\ inbox'[Listener] = Sent(pc[Listener], inbox[Listener], msgs)
    BY <1>1, TwoHubs, AnswerFacts
  <1>3. pc'[Dialer] = at /\ pc'[Listener] = pc[Listener]
    BY <1>1, TwoHubs, GotoFacts
  <1> QED BY <1>2, <1>3

(* ... and one of the listener.                                             *)
LEMMA ListenerMoves ==
    ASSUME SessionInv, NEW at, NEW msgs, Answer(Listener, msgs), Goto(Listener, at)
    PROVE  /\ pc'[Listener] = at /\ pc'[Dialer] = pc[Dialer]
           /\ inbox'[Listener] = Tail(inbox[Listener])
           /\ inbox'[Dialer] = Sent(pc[Dialer], inbox[Dialer], msgs)
  <1>1. pc = [h \in Hubs |-> pc[h]] /\ inbox = [h \in Hubs |-> inbox[h]]
    BY DEF SessionInv
  <1>2. /\ inbox'[Listener] = Tail(inbox[Listener])
        /\ inbox'[Dialer] = Sent(pc[Dialer], inbox[Dialer], msgs)
    BY <1>1, TwoHubs, AnswerFacts
  <1>3. pc'[Listener] = at /\ pc'[Dialer] = pc[Dialer]
    BY <1>1, TwoHubs, GotoFacts
  <1> QED BY <1>2, <1>3

(* The round begins ...                                                     *)
LEMMA HelloUndisturbed ==
    ASSUME SessionInv, Undisturbed, GetPing \/ GetPong \/ GetTheirInventory, Ground,
           ClosuresUncut(Vertices)
    PROVE  Undisturbed'
  <1>1. Lockstep(pc[Dialer], pc[Listener], inbox[Dialer], inbox[Listener])
    BY DEF SessionInv
  <1>2. \A h \in Hubs : Lists(from_dag(dag[h].graph), VertexSet(dag[h].graph))
    BY GraphFacts, InventoryComplete DEF SessionInv, Ground, Lists
  <1>3. offered \in [Hubs -> SUBSET TxHash]
    BY DEF SessionInv
  <1>4. CASE GetPing
    <2> DEFINE ms == <<Msg("Pong")>>
    <2>1. pc[Listener] = "ping" /\ Answer(Listener, ms) /\ Goto(Listener, "their_inventory")
      BY <1>4, ReadsFacts DEF GetPing
    <2>2. pc[Dialer] = "pong"
      BY <2>1 DEF Undisturbed
    <2> HIDE DEF ms
    <2>3. pc'[Dialer] = "pong" /\ pc'[Listener] = "their_inventory"
      BY <2>1, <2>2, ListenerMoves
    <2> QED BY <2>3 DEF Undisturbed
  <1>5. CASE GetPong
    <2> DEFINE m  == InvMsg(from_dag(dag[Dialer].graph))
               ms == <<m>>
    <2>1. /\ pc[Dialer] = "pong" /\ inbox[Dialer] # <<>>
          /\ Answer(Dialer, ms) /\ Goto(Dialer, "inventory")
          /\ offered' = [offered EXCEPT ![Dialer] = VertexSet(dag[Dialer].graph)]
      BY <1>5, ReadsFacts DEF GetPong
    <2>2. pc[Listener] = "their_inventory" /\ inbox[Listener] = <<>>
      <3>1. pc[Listener] # "idle"
        BY <2>1 DEF Undisturbed
      <3> QED BY <1>1, <2>1, <3>1 DEF Lockstep, Together
    <2>3. /\ pc'[Dialer] = "inventory" /\ pc'[Listener] = "their_inventory"
          /\ inbox'[Listener] = Sent(pc[Listener], inbox[Listener], ms)
      <3> HIDE DEF ms
      <3> QED BY <2>1, <2>2, DialerMoves
    <2>4. inbox'[Listener] = <<m>>
      <3> HIDE DEF m
      <3> QED BY <2>2, <2>3 DEF Sent
    <2>5. Head(inbox'[Listener]).inv = from_dag(dag[Dialer].graph)
      BY <2>4 DEF InvMsg
    <2>6. offered'[Dialer] = VertexSet(dag[Dialer].graph)
      BY <1>3, <2>1, TwoHubs
    <2>7. Lists(Head(inbox'[Listener]).inv, offered'[Dialer])
      BY <1>2, <2>5, <2>6, TwoHubs
    <2> QED BY <2>3, <2>7 DEF Undisturbed
  <1>6. CASE GetTheirInventory
    <2> DEFINE m  == InvMsg(from_dag(dag[Listener].graph))
               ms == <<m>>
    <2>1. /\ pc[Listener] = "their_inventory" /\ inbox[Listener] # <<>>
          /\ Answer(Listener, ms) /\ Goto(Listener, "their_need")
          /\ remote' = Head(inbox[Listener]).inv
          /\ offered' = [offered EXCEPT ![Listener] = VertexSet(dag[Listener].graph)]
      BY <1>6, ReadsFacts DEF GetTheirInventory
    <2>2. /\ pc[Dialer] = "inventory" /\ inbox[Dialer] = <<>>
          /\ Lists(Head(inbox[Listener]).inv, offered[Dialer])
      <3>1. pc[Dialer] # "idle"
        BY <2>1 DEF Undisturbed
      <3>2. pc[Dialer] = "inventory" /\ inbox[Dialer] = <<>>
        BY <1>1, <2>1, <3>1 DEF Lockstep, Together
      <3> QED BY <2>1, <3>2 DEF Undisturbed
    <2>3. /\ pc'[Dialer] = "inventory" /\ pc'[Listener] = "their_need"
          /\ inbox'[Dialer] = Sent(pc[Dialer], inbox[Dialer], ms)
      <3> HIDE DEF ms
      <3> QED BY <2>1, <2>2, ListenerMoves
    <2>4. inbox'[Dialer] = <<m>>
      <3> HIDE DEF m
      <3> QED BY <2>2, <2>3 DEF Sent
    <2>5. Head(inbox'[Dialer]).inv = from_dag(dag[Listener].graph)
      BY <2>4 DEF InvMsg
    <2>6. /\ offered'[Listener] = VertexSet(dag[Listener].graph)
          /\ offered'[Dialer] = offered[Dialer]
      BY <1>3, <2>1, TwoHubs
    <2>7. Lists(Head(inbox'[Dialer]).inv, offered'[Listener]) /\ Lists(remote', offered'[Dialer])
      BY <1>2, <2>1, <2>2, <2>5, <2>6, TwoHubs
    <2> QED BY <2>3, <2>7 DEF Undisturbed
  <1> QED BY <1>4, <1>5, <1>6

(* What both stored when they sent their inventories is stored.             *)
LEMMA OfferedStored ==
    ASSUME Ground, NEW h \in Hubs
    PROVE  offered[h] \subseteq VertexSet(dag[h].graph)
  BY DEF Ground, IsClosed

(* ... goes on with what is needed ...                                      *)
LEMMA NeedUndisturbed ==
    ASSUME SessionInv, Undisturbed, GetInventory \/ GetTheirNeed, Ground
    PROVE  Undisturbed'
  <1> DEFINE gd == dag[Dialer].graph
             gl == dag[Listener].graph
             od == offered[Dialer]
             ol == offered[Listener]
  <1>1. Lockstep(pc[Dialer], pc[Listener], inbox[Dialer], inbox[Listener])
    BY DEF SessionInv
  <1>2. /\ GraphOK(gd) /\ GenesisId \in VertexSet(gd) /\ Stocked(gd)
        /\ IsClosed(gl, ol) /\ ol \subseteq VertexSet(gl)
    BY TwoHubs, GraphFacts, OfferedStored DEF SessionInv, Ground
  <1>3. CASE GetInventory
    <2> DEFINE inv  == Head(inbox[Dialer]).inv
               need == collect_need(gd, inv)
               have == collect_have(gd, advertised(inv))
               m    == IdsMsg("Need", need)
               k    == IdsMsg("Have", have)
               ms   == <<m, k>>
    <2>1. /\ pc[Dialer] = "inventory" /\ inbox[Dialer] # <<>>
          /\ Answer(Dialer, ms) /\ Goto(Dialer, "need")
          /\ UNCHANGED <<dag, remote, wanted, offered>>
      BY <1>3, ReadsFacts DEF GetInventory, round_vars
    <2>2. /\ pc[Listener] = "their_need" /\ inbox[Listener] = <<>>
          /\ Lists(remote, od) /\ Lists(inv, ol)
      <3>1. pc[Listener] # "idle"
        BY <2>1 DEF Undisturbed
      <3>2. pc[Listener] = "their_need" /\ inbox[Listener] = <<>>
        BY <1>1, <2>1, <3>1 DEF Lockstep, Together
      <3> QED BY <2>1, <3>2 DEF Undisturbed
    <2>3. Needed(gl, ol, need, VertexSet(gd))
      <3> HIDE DEF gd, gl, ol, inv
      <3> QED BY <1>2, <2>2, ListedNeed DEF Lists
    <2>4. Sound(gd, have, VertexSet(gl))
      <3> HIDE DEF gd, gl, ol, inv
      <3> QED BY <1>2, <2>2, HaveSound DEF Lists
    <2>5. /\ pc'[Dialer] = "need" /\ pc'[Listener] = "their_need"
          /\ inbox'[Listener] = Sent(pc[Listener], inbox[Listener], ms)
      <3> HIDE DEF ms
      <3> QED BY <2>1, <2>2, DialerMoves
    <2>6. Head(inbox'[Listener]) = m /\ Head(Tail(inbox'[Listener])) = k
      <3> HIDE DEF m, k
      <3>1. inbox'[Listener] = <<m, k>>
        BY <2>2, <2>5 DEF Sent
      <3>2. Head(<<m, k>>) = m /\ Tail(<<m, k>>) = <<k>> /\ Head(<<k>>) = k
        OBVIOUS
      <3> QED BY <3>1, <3>2
    <2>7. m.ids = need /\ k.ids = have
      BY DEF IdsMsg
    <2> HIDE DEF need, have, m, k
    <2>8. /\ Needed(gl, ol, Head(inbox'[Listener]).ids, VertexSet(gd))
          /\ Sound(gd, Head(Tail(inbox'[Listener])).ids, VertexSet(gl))
      <3> HIDE DEF gd, gl, ol
      <3> QED BY <2>3, <2>4, <2>6, <2>7
    <2> QED BY <2>1, <2>2, <2>5, <2>8 DEF Undisturbed
  <1>4. CASE GetTheirNeed
    <2> DEFINE ms == <<>>
    <2>1. /\ pc[Listener] = "their_need" /\ inbox[Listener] # <<>>
          /\ Answer(Listener, ms) /\ Goto(Listener, "their_have")
          /\ wanted' = Head(inbox[Listener]).ids
          /\ UNCHANGED <<dag, remote, offered>>
      BY <1>4, ReadsFacts DEF GetTheirNeed
    <2>2. /\ pc[Dialer] = "need" /\ inbox[Dialer] = <<>>
          /\ Lists(remote, od) /\ Needed(gl, ol, Head(inbox[Listener]).ids, VertexSet(gd))
          /\ Sound(gd, Head(Tail(inbox[Listener])).ids, VertexSet(gl))
      <3>1. pc[Dialer] # "idle"
        BY <2>1 DEF Undisturbed
      <3>2. pc[Dialer] = "need" /\ inbox[Dialer] = <<>>
        BY <1>1, <2>1, <3>1 DEF Lockstep, Together
      <3> QED BY <2>1, <3>2 DEF Undisturbed
    <2> HIDE DEF ms
    <2>3. /\ pc'[Dialer] = "need" /\ pc'[Listener] = "their_have"
          /\ inbox'[Listener] = Tail(inbox[Listener])
      BY <2>1, <2>2, ListenerMoves
    <2> QED BY <2>1, <2>2, <2>3 DEF Undisturbed
  <1> QED BY <1>3, <1>4

(* ... and the bodies of that ...                                           *)
LEMMA SendUndisturbed ==
    ASSUME SessionInv, Undisturbed, GetTheirHave \/ GetNeed, Ground
    PROVE  Undisturbed'
  <1> DEFINE gd == dag[Dialer].graph
             gl == dag[Listener].graph
             od == offered[Dialer]
             ol == offered[Listener]
  <1>1. /\ Lockstep(pc[Dialer], pc[Listener], inbox[Dialer], inbox[Listener])
        /\ ReplicasOK(dag) /\ wanted \in SUBSET Hashes
    BY DEF SessionInv
  <1>2. \A h \in Hubs : \A S, O, ids :
           Needed(dag[h].graph, O, ids, S) => Due(S, O, Bodies(h, ids))
    <2> SUFFICES ASSUME NEW h \in Hubs, NEW S, NEW O, NEW ids, Needed(dag[h].graph, O, ids, S)
                 PROVE  Due(S, O, Bodies(h, ids))
      OBVIOUS
    <2>1. /\ GraphOK(dag[h].graph) /\ StoredFrom(dag[h].graph, Vertices)
          /\ Stocked(dag[h].graph)
      BY <1>1, GraphFacts DEF Ground
    <2> QED BY <2>1, BodiesDue DEF Bodies
  <1>3. CASE GetTheirHave
    <2> DEFINE have == Head(inbox[Listener]).ids
               need == collect_need(gl, remote) \cup (have \ VertexSet(gl))
               m    == IdsMsg("Need", need)
               bs   == Bodies(Listener, wanted)
               ms   == <<m>> \o bs
    <2>1. /\ pc[Listener] = "their_have" /\ inbox[Listener] # <<>>
          /\ Answer(Listener, ms) /\ Goto(Listener, "bodies")
          /\ UNCHANGED <<dag, remote, wanted, offered>>
      BY <1>3, ReadsFacts DEF GetTheirHave, round_vars
    <2>2. /\ pc[Dialer] = "need" /\ inbox[Dialer] = <<>>
          /\ Lists(remote, od) /\ Needed(gl, ol, wanted, VertexSet(gd))
          /\ Sound(gd, have, VertexSet(gl))
      <3>1. pc[Dialer] # "idle"
        BY <2>1 DEF Undisturbed
      <3>2. pc[Dialer] = "need" /\ inbox[Dialer] = <<>>
        BY <1>1, <2>1, <3>1 DEF Lockstep, Together
      <3> QED BY <2>1, <3>2 DEF Undisturbed
    <2>3. Needed(gd, od, need, VertexSet(gl))
      <3>1. /\ GraphOK(gl) /\ GenesisId \in VertexSet(gl) /\ IsClosed(gd, od)
        BY <1>1, TwoHubs, GraphFacts DEF Ground
      <3> HIDE DEF gd, gl, od, have
      <3>2. Needed(gd, od, collect_need(gl, remote), VertexSet(gl))
        BY <2>2, <3>1, ListedNeed DEF Lists
      <3> QED BY <2>2, <3>2, ExtraNeed
    <2>4. Due(VertexSet(gd), ol, bs)
      BY <1>2, <2>2, TwoHubs
    <2>5. bs \in Seq(BodyMsgs)
      BY <1>1, TwoHubs, BodiesSent
    <2>6. m.ids = need
      BY DEF IdsMsg
    <2> HIDE DEF need, m, bs
    <2>7. /\ pc'[Dialer] = "need" /\ pc'[Listener] = "bodies"
          /\ inbox'[Dialer] = Sent(pc[Dialer], inbox[Dialer], ms)
      <3> HIDE DEF ms
      <3> QED BY <2>1, <2>2, ListenerMoves
    <2>8. Head(inbox'[Dialer]) = m /\ Tail(inbox'[Dialer]) = bs
      <3> DEFINE S == BodyMsgs \cup {m}
      <3>1. m \in S /\ bs \in Seq(S)
        BY <2>5
      <3> HIDE DEF S
      <3>2. ms \in Seq(S) /\ Head(ms) = m /\ Tail(ms) = bs
        <4>1. /\ ms \in Seq(S) /\ Len(ms) = Len(bs) + 1 /\ ms[1] = m
              /\ \A n \in 1 .. Len(bs) : ms[n + 1] = bs[n]
          BY <3>1
        <4> HIDE DEF ms
        <4> QED BY <3>1, <4>1
      <3> HIDE DEF ms
      <3>3. <<>> \o ms = ms
        BY <3>2, EmptyConcat
      <3> QED BY <2>2, <2>7, <3>2, <3>3 DEF Sent
    <2>9. /\ Needed(gd, od, Head(inbox'[Dialer]).ids, VertexSet(gl))
          /\ Due(VertexSet(gd), ol, Tail(inbox'[Dialer]))
      <3> HIDE DEF gd, gl, od, ol
      <3> QED BY <2>3, <2>4, <2>6, <2>8
    <2> QED BY <2>1, <2>7, <2>9 DEF Undisturbed
  <1>4. CASE GetNeed
    <2> DEFINE ids == Head(inbox[Dialer]).ids
               bs  == Bodies(Dialer, ids)
               ms  == bs \o <<Msg("Done")>>
    <2>1. /\ pc[Dialer] = "need" /\ inbox[Dialer] # <<>>
          /\ Answer(Dialer, ms) /\ Goto(Dialer, "bodies")
          /\ UNCHANGED <<dag, remote, wanted, offered>>
      BY <1>4, ReadsFacts DEF GetNeed, round_vars
    <2>2. /\ pc[Listener] = "bodies" /\ inbox[Listener] = <<>>
          /\ Needed(gd, od, ids, VertexSet(gl))
          /\ Due(VertexSet(gd), ol, Tail(inbox[Dialer]))
      <3>1. pc[Listener] # "idle"
        BY <2>1 DEF Undisturbed
      <3>2. pc[Listener] = "bodies" /\ inbox[Listener] = <<>>
        BY <1>1, <2>1, <3>1 DEF Lockstep, Together
      <3> QED BY <2>1, <3>2 DEF Undisturbed
    <2>3. Due(VertexSet(gl), od, bs)
      BY <1>2, <2>2, TwoHubs
    <2>4. bs \in Seq(BodyMsgs)
      <3>1. ids \in SUBSET Hashes
        BY <1>1, <2>1, NeedRow, MessageFacts
      <3> QED BY <1>1, <3>1, TwoHubs, BodiesSent
    <2> HIDE DEF bs
    <2>5. Due(VertexSet(gl), od, ms)
      <3> HIDE DEF gl, od
      <3> QED BY <2>3, <2>4, DueDone
    <2>6. ms \in BodiesDone
      BY <2>4 DEF BodiesDone
    <2> HIDE DEF ms
    <2>7. /\ pc'[Dialer] = "bodies" /\ pc'[Listener] = "bodies"
          /\ inbox'[Dialer] = Tail(inbox[Dialer])
          /\ inbox'[Listener] = Sent(pc[Listener], inbox[Listener], ms)
      BY <2>1, <2>2, DialerMoves
    <2>8. inbox'[Listener] = ms
      <3>1. <<>> \o ms = ms
        BY <2>6, BodiesDoneNext, EmptyConcat
      <3> QED BY <2>2, <2>7, <3>1 DEF Sent
    <2>9. Due(VertexSet(gl), od, inbox'[Listener]) /\ Due(VertexSet(gd), ol, inbox'[Dialer])
      BY <2>2, <2>5, <2>7, <2>8
    <2> QED BY <2>1, <2>7, <2>9 DEF Undisturbed
  <1> QED BY <1>3, <1>4

(* A body that arrives in such a round can be stored.                       *)
LEMMA BodyArrives ==
    ASSUME SessionInv, Undisturbed, NEW h \in Hubs, GetBody(h)
    PROVE  /\ \/ pc[Dialer] = "bodies" /\ pc[Listener] = "bodies"
              \/ h = Dialer /\ pc[Dialer] = "bodies" /\ pc[Listener] = "idle"
           /\ inbox[h] \in Seq(Messages) /\ inbox[h] # <<>>
           /\ Head(inbox[h]).kind = "DagTransaction"
           /\ Head(inbox[h]).tx \in Vertices
           /\ Due(VertexSet(dag[h].graph), offered[Peer(h)], inbox[h])
           /\ Payable(Vertices) => Head(inbox[h]).tx.id \in VertexSet(dag'[h].graph)
  <1> DEFINE t == Head(inbox[h]).tx
             S == VertexSet(dag[h].graph)
             O == offered[Peer(h)]
             r == accept_wire_vertex(dag[h], t)
  <1>1. /\ Lockstep(pc[Dialer], pc[Listener], inbox[Dialer], inbox[Listener])
        /\ dag = [k \in Hubs |-> dag[k]] /\ ReplicasOK(dag)
    BY DEF SessionInv
  <1>2. pc[h] = "bodies" /\ inbox[h] # <<>> /\ Head(inbox[h]).kind = "DagTransaction"
    BY ReadsFacts DEF GetBody
  <1>3. Head(inbox[h]) \in BodyMsgs
    BY BodyTaken DEF GetBody
  <1>4. t \in Vertices
    BY <1>3, MessageFacts
  <1>5. inbox[h] \in Seq(Messages)
    BY <1>1, RowFacts, TwoHubs
  <1>6. /\ \/ pc[Dialer] = "bodies" /\ pc[Listener] = "bodies"
           \/ h = Dialer /\ pc[Dialer] = "bodies" /\ pc[Listener] = "idle"
        /\ Due(S, O, inbox[h])
    <2>1. CASE h = Dialer
      BY <1>2, <2>1, TwoHubs DEF Undisturbed
    <2>2. CASE h = Listener
      <3>1. pc[Dialer] # "need"
        BY <1>1, <1>2, <2>2 DEF Lockstep, ListenerAlone, Together
      <3> QED BY <1>2, <2>2, <3>1, TwoHubs DEF Undisturbed
    <2> QED BY <2>1, <2>2, TwoHubs
  <1>7. t.wellformed /\ {t.parent_1, t.parent_2} \subseteq S
    <2> HIDE DEF S, O
    <2> QED BY <1>2, <1>5, <1>6, DueFirst
  <1>8. ASSUME Payable(Vertices) PROVE t.id \in VertexSet(dag'[h].graph)
    <2>1. ReplicaState(dag[h], Vertices) /\ dag[h].faucet = Faucet
      BY <1>1 DEF ReplicasOK
    <2>2. t.id \in VertexSet(r.dag.graph)
      <3> HIDE DEF t
      <3> QED BY <1>4, <1>7, <1>8, <2>1, AcceptStores
    <2>3. dag' = [dag EXCEPT ![h] = r.dag]
      BY DEF GetBody
    <2> HIDE DEF r, t
    <2>4. dag'[h] = r.dag
      BY <1>1, <2>3
    <2> QED BY <2>2, <2>4
  <1> HIDE DEF S, O
  <1> QED BY <1>2, <1>4, <1>5, <1>6, <1>8 DEF S, O

(* ... until all are stored.                                                *)
LEMMA BodyUndisturbed ==
    ASSUME SessionInv, Undisturbed, NEW h \in Hubs, GetBody(h), Payable(Vertices), Ground
    PROVE  Undisturbed'
  <1> DEFINE ms == <<>>
             k  == Peer(h)
             S  == VertexSet(dag[h].graph)
             U  == VertexSet(dag'[h].graph)
  <1>0. k \in Hubs /\ k # h
    BY TwoHubs
  <1>1. /\ \/ pc[Dialer] = "bodies" /\ pc[Listener] = "bodies"
           \/ h = Dialer /\ pc[Dialer] = "bodies" /\ pc[Listener] = "idle"
        /\ inbox[h] \in Seq(Messages) /\ inbox[h] # <<>>
        /\ Due(S, offered[k], inbox[h])
        /\ Head(inbox[h]).tx.id \in U
    BY BodyArrives
  <1>2. [Next]_vars
    BY DEF Next
  <1>3. S \subseteq U /\ VertexSet(dag[k].graph) \subseteq VertexSet(dag'[k].graph)
    BY <1>0, <1>2, GraphsGrow DEF Grown
  <1>4. Due(U, offered[k], Tail(inbox[h]))
    <2> HIDE DEF S, U, k
    <2> QED BY <1>1, <1>3, DueRest
  <1>5. /\ Answer(h, ms) /\ UNCHANGED <<pc, offered>>
    BY DEF GetBody, round_vars
  <1>6. /\ inbox'[h] = Tail(inbox[h])
        /\ inbox'[k] = Sent(pc[k], inbox[k], ms)
    <2>1. inbox = [j \in Hubs |-> inbox[j]]
      BY DEF SessionInv
    <2> HIDE DEF ms
    <2> QED BY <1>5, <2>1, AnswerFacts
  <1>7. /\ Lockstep(pc[Dialer], pc[Listener], inbox[Dialer], inbox[Listener])
        /\ inbox[Dialer] \in Seq(Messages) /\ inbox[Listener] \in Seq(Messages)
    BY RowFacts DEF SessionInv
  <1>8. pc[k] # "idle" => inbox'[k] = inbox[k]
    BY <1>0, <1>6, <1>7, TwoHubs, EmptyConcat DEF Sent
  <1>9. Due(U, offered'[k], inbox'[h])
    BY <1>4, <1>5, <1>6
  <1>10. CASE pc[Dialer] = "bodies" /\ pc[Listener] = "bodies"
    <2>1. /\ Due(VertexSet(dag[Dialer].graph), offered[Listener], inbox[Dialer])
          /\ Due(VertexSet(dag[Listener].graph), offered[Dialer], inbox[Listener])
      BY <1>10 DEF Undisturbed
    <2>2. Due(VertexSet(dag[k].graph), offered[h], inbox[k])
      BY <2>1, TwoHubs
    <2>3. Due(VertexSet(dag'[k].graph), offered'[h], inbox'[k])
      <3>1. pc[k] # "idle"
        BY <1>0, <1>10, TwoHubs
      <3> HIDE DEF k
      <3> QED BY <1>3, <1>5, <1>8, <2>2, <3>1, DueLater
    <2>4. /\ Due(VertexSet(dag'[Dialer].graph), offered'[Listener], inbox'[Dialer])
          /\ Due(VertexSet(dag'[Listener].graph), offered'[Dialer], inbox'[Listener])
      BY <1>9, <2>3, TwoHubs
    <2> QED BY <1>5, <1>10, <2>4 DEF Undisturbed
  <1>11. CASE h = Dialer /\ pc[Dialer] = "bodies" /\ pc[Listener] = "idle"
    <2>1. offered[Dialer] \subseteq VertexSet(dag[Listener].graph)
      BY <1>11 DEF Undisturbed
    <2>2. offered'[Dialer] \subseteq VertexSet(dag'[Listener].graph)
      BY <1>3, <1>5, <1>11, <2>1, TwoHubs
    <2>3. Due(VertexSet(dag'[Dialer].graph), offered'[Listener], inbox'[Dialer])
      BY <1>9, <1>11, TwoHubs
    <2> QED BY <1>5, <1>11, <2>2, <2>3 DEF Undisturbed
  <1> QED BY <1>1, <1>10, <1>11

(* The listener has all it was offered when it confirms ...                 *)
LEMMA ListenerDone ==
    ASSUME SessionInv, Undisturbed, GetDone(Listener)
    PROVE  Undisturbed'
  <1> DEFINE ms == <<Msg("Done")>>
             gd == dag[Dialer].graph
             gl == dag[Listener].graph
  <1>1. Lockstep(pc[Dialer], pc[Listener], inbox[Dialer], inbox[Listener])
    BY DEF SessionInv
  <1>2. /\ pc[Listener] = "bodies" /\ inbox[Listener] # <<>>
        /\ Head(inbox[Listener]).kind = "Done"
        /\ Answer(Listener, ms) /\ Goto(Listener, "idle")
        /\ UNCHANGED <<dag, offered>>
    BY ReadsFacts DEF GetDone, round_vars
  <1>3. /\ pc[Dialer] = "bodies"
        /\ inbox[Dialer] \in Seq(BodyMsgs) /\ inbox[Listener] \in BodiesDone
    <2>1. pc[Dialer] # "idle"
      BY <1>2 DEF Undisturbed
    <2> QED BY <1>1, <1>2, <2>1 DEF Lockstep, Together
  <1>4. /\ Due(VertexSet(gd), offered[Listener], inbox[Dialer])
        /\ Due(VertexSet(gl), offered[Dialer], inbox[Listener])
    BY <1>2, <1>3 DEF Undisturbed
  <1>5. offered[Dialer] \subseteq VertexSet(gl)
    <2>1. Tail(inbox[Listener]) = <<>> /\ inbox[Listener] \in Seq(Messages)
      BY <1>2, <1>3, BodiesDoneNext, MessageFacts
    <2> HIDE DEF gl
    <2>2. Due(VertexSet(gl), offered[Dialer], Tail(inbox[Listener]))
      BY <1>2, <1>4, <2>1, DueRest
    <2> QED BY <2>1, <2>2, DueNothing
  <1> HIDE DEF ms
  <1>6. /\ pc'[Dialer] = "bodies" /\ pc'[Listener] = "idle"
        /\ inbox'[Dialer] = inbox[Dialer] \o ms
    BY <1>2, <1>3, ListenerMoves DEF Sent
  <1>7. Due(VertexSet(gd), offered[Listener], inbox'[Dialer])
    <2> HIDE DEF gd
    <2> QED BY <1>3, <1>4, <1>6, DueDone DEF ms
  <1> QED BY <1>2, <1>5, <1>6, <1>7 DEF Undisturbed

(* ... and the dialer when it reads that.                                   *)
LEMMA DialerDone ==
    ASSUME SessionInv, Undisturbed, GetDone(Dialer)
    PROVE  /\ offered[Listener] \subseteq VertexSet(dag[Dialer].graph)
           /\ offered[Dialer] \subseteq VertexSet(dag[Listener].graph)
           /\ Undisturbed'
  <1> DEFINE ms == <<>>
             gd == dag[Dialer].graph
  <1>1. Lockstep(pc[Dialer], pc[Listener], inbox[Dialer], inbox[Listener])
    BY DEF SessionInv
  <1>2. /\ pc[Dialer] = "bodies" /\ inbox[Dialer] # <<>>
        /\ Head(inbox[Dialer]).kind = "Done"
        /\ Answer(Dialer, ms) /\ Goto(Dialer, "idle")
    BY TwoHubs, ReadsFacts DEF GetDone
  <1>3. pc[Listener] = "idle" /\ inbox[Dialer] \in BodiesDone
    <2>1. \/ pc[Listener] = "idle" /\ inbox[Dialer] \in BodiesDone
          \/ inbox[Dialer] \in Seq(BodyMsgs)
      BY <1>1, <1>2 DEF Lockstep, DialerAlone, ListenerAlone, Together
    <2>2. CASE inbox[Dialer] \in Seq(BodyMsgs)
      BY <1>2, <2>2, BodiesNext, MessageFacts
    <2> QED BY <2>1, <2>2
  <1>4. /\ Due(VertexSet(gd), offered[Listener], inbox[Dialer])
        /\ offered[Dialer] \subseteq VertexSet(dag[Listener].graph)
    BY <1>2, <1>3 DEF Undisturbed
  <1>5. offered[Listener] \subseteq VertexSet(gd)
    <2>1. Tail(inbox[Dialer]) = <<>> /\ inbox[Dialer] \in Seq(Messages)
      BY <1>2, <1>3, BodiesDoneNext, MessageFacts
    <2> HIDE DEF gd
    <2>2. Due(VertexSet(gd), offered[Listener], Tail(inbox[Dialer]))
      BY <1>2, <1>4, <2>1, DueRest
    <2> QED BY <2>1, <2>2, DueNothing
  <1> HIDE DEF ms
  <1>6. pc'[Dialer] = "idle" /\ pc'[Listener] = "idle"
    BY <1>2, <1>3, DialerMoves
  <1> QED BY <1>4, <1>5, <1>6 DEF Undisturbed

(* What other threads bring meanwhile, or a pause, disturbs nothing.        *)
LEMMA ArrivalUndisturbed ==
    ASSUME SessionInv, Undisturbed, [Next]_vars,
           UNCHANGED <<pc, inbox, remote, wanted, offered>>
    PROVE  Undisturbed'
  <1> DEFINE gd == dag[Dialer].graph
             gl == dag[Listener].graph
             hd == dag'[Dialer].graph
             hl == dag'[Listener].graph
  <1>1. Grown(gd, hd) /\ Grown(gl, hl)
    BY TwoHubs, GraphsGrow
  <1> HIDE DEF gd, gl, hd, hl
  <1>2. VertexSet(gd) \subseteq VertexSet(hd) /\ VertexSet(gl) \subseteq VertexSet(hl)
    BY <1>1 DEF Grown
  <1>3. /\ \A O, q : Due(VertexSet(gd), O, q) => Due(VertexSet(hd), O, q)
        /\ \A O, q : Due(VertexSet(gl), O, q) => Due(VertexSet(hl), O, q)
    BY <1>2, DueLater
  <1>4. \A ids : /\ Sound(gd, ids, VertexSet(gl)) => Sound(hd, ids, VertexSet(hl))
                 /\ Sound(gl, ids, VertexSet(gd)) => Sound(hl, ids, VertexSet(hd))
    BY <1>1, <1>2, SoundLater
  <1>5. \A ids, O :
           /\ Needed(gd, O, ids, VertexSet(gl)) => Needed(hd, O, ids, VertexSet(hl))
           /\ Needed(gl, O, ids, VertexSet(gd)) => Needed(hl, O, ids, VertexSet(hd))
    BY <1>1, <1>2, SoundLater
  <1>6. /\ pc' = pc /\ inbox' = inbox /\ remote' = remote
        /\ wanted' = wanted /\ offered' = offered
    OBVIOUS
  <1>7. CASE pc[Dialer] \in {"idle", "pong", "inventory"}
    BY <1>6, <1>7 DEF Undisturbed
  <1>8. CASE pc[Dialer] = "need"
    BY <1>2, <1>3, <1>4, <1>5, <1>6, <1>8 DEF Undisturbed, gd, gl, hd, hl
  <1>9. CASE pc[Dialer] = "bodies"
    BY <1>2, <1>3, <1>6, <1>9 DEF Undisturbed, gd, gl, hd, hl
  <1> QED BY <1>7, <1>8, <1>9 DEF Undisturbed

(* So the meaning of the messages survives every step.                      *)
LEMMA DeliveryInvariant ==
    ASSUME Payable(Vertices), ClosuresUncut(Vertices)
    PROVE  Spec => []DeliveryInv
  <1>1. Init => DeliveryInv
    <2> SUFFICES ASSUME Init PROVE DeliveryInv
      OBVIOUS
    <2>1. Ground
      BY StartedStock, ClosedFacts DEF Init, Ground
    <2>2. Undisturbed
      BY TwoHubs DEF Init, Undisturbed
    <2> QED BY <2>1, <2>2 DEF DeliveryInv
  <1>2. SessionInv /\ DeliveryInv /\ [Next]_vars => DeliveryInv'
    <2> SUFFICES ASSUME SessionInv, DeliveryInv, [Next]_vars PROVE DeliveryInv'
      OBVIOUS
    <2>1. Ground /\ Ground'
      BY GroundStep DEF DeliveryInv
    <2> SUFFICES ASSUME clean' PROVE Undisturbed'
      BY <2>1 DEF DeliveryInv
    <2>2. CASE Connect
      <3>1. pc'[Dialer] = "pong" /\ pc'[Listener] = "ping"
        BY <2>2, TwoHubs DEF Connect
      <3> QED BY <3>1 DEF Undisturbed
    <2>3. CASE Handshake
      <3>1. UNCHANGED clean
        BY <2>3 DEF Handshake, GetPing, GetPong, GetTheirInventory, GetInventory,
                    GetTheirNeed, GetTheirHave, GetNeed
      <3>2. Undisturbed
        BY <3>1 DEF DeliveryInv
      <3> QED BY <2>1, <2>3, <3>2, HelloUndisturbed, NeedUndisturbed, SendUndisturbed
              DEF Handshake
    <2>4. ASSUME NEW h \in Hubs, GetBody(h) \/ GetDone(h) \/ LocalArrival(h)
          PROVE  Undisturbed'
      <3>1. UNCHANGED clean
        BY <2>4 DEF GetBody, GetDone, LocalArrival
      <3>2. Undisturbed
        BY <3>1 DEF DeliveryInv
      <3>3. LocalArrival(h) => UNCHANGED <<pc, inbox, remote, wanted, offered>>
        BY DEF LocalArrival, round_vars
      <3> QED BY <2>1, <2>4, <3>2, <3>3, TwoHubs, BodyUndisturbed, ListenerDone, DialerDone,
                 ArrivalUndisturbed
    <2>5. ASSUME NEW h \in Hubs, RefuseBody(h) \/ GiveUp(h) \/ TimeOut(h)
          PROVE  FALSE
      BY <2>5 DEF RefuseBody, GiveUp, TimeOut
    <2>6. CASE UNCHANGED vars
      <3>1. Undisturbed /\ UNCHANGED <<pc, inbox, remote, wanted, offered>>
        BY <2>6 DEF DeliveryInv, vars, round_vars
      <3> QED BY <3>1, ArrivalUndisturbed
    <2> QED BY <2>2, <2>3, <2>4, <2>5, <2>6 DEF Next
  <1> QED BY <1>1, <1>2, SessionInvariant, PTL DEF Spec

(* Bodies travel in attach order and are complete below, so that in a round *)
(* that nothing disturbs the receiver can store every single one, although  *)
(* both graphs may grow between the inventories and the bodies.             *)
THEOREM BodiesTheorem ==
    ASSUME Payable(Vertices), ClosuresUncut(Vertices)
    PROVE  Spec => EveryBodyIsStored
  <1> DEFINE P == \A h \in Hubs :
                     (GetBody(h) /\ clean) => Head(inbox[h]).tx.id \in VertexSet(dag'[h].graph)
  <1>1. SessionInv /\ DeliveryInv => P
    BY BodyArrives DEF DeliveryInv
  <1> QED BY <1>1, SessionInvariant, DeliveryInvariant, PTL DEF EveryBodyIsStored

(* A round that nothing disturbs leaves each hub with everything the other  *)
(* had stored when it sent its inventory.                                   *)
THEOREM RoundTheorem ==
    ASSUME Payable(Vertices), ClosuresUncut(Vertices)
    PROVE  Spec => RoundDelivers
  <1> DEFINE P == (GetDone(Dialer) /\ clean) =>
                     /\ offered[Listener] \subseteq Stored(Dialer)
                     /\ offered[Dialer] \subseteq Stored(Listener)
  <1>1. SessionInv /\ DeliveryInv => P
    BY DialerDone DEF DeliveryInv, Stored
  <1> QED BY <1>1, SessionInvariant, DeliveryInvariant, PTL DEF RoundDelivers
=============================================================================
