--------------------------- MODULE HubPersistProofs ---------------------------
(***************************************************************************)
(* Theorems about a hub process and its data directory, for every number   *)
(* of threads and of crashes, every set of vertices and every value of the *)
(* constants.                                                              *)
(*                                                                         *)
(* A restart is a fold over the log.  The argument follows it record by    *)
(* record: the replica keeps ReplicaState, which no record can break, and  *)
(* holds just the vertices whose parents were logged before them.          *)
(*                                                                         *)
(* A share is paid for by dust, and dust is credited on genesis alone.  A  *)
(* miner without it holds what its credits say, which buys no share; with  *)
(* it the snapshot is saved before the share is logged, or the first share *)
(* is in the log and a restart does not find genesis alone.                *)
(***************************************************************************)
EXTENDS HubPersist, ReplicaProofs

-----------------------------------------------------------------------------
(* The inductive invariant.                                                *)

Records == [vertex : Vertices, whole : BOOLEAN]

(* The faucet is what the operator credited, but for the dust of the first  *)
(* share: it is credited to an account that lacks it, and so only once.     *)
Need == FIXED_TRANSACTION_FEE + 1

Faucets == {InitialFaucet, [InitialFaucet EXCEPT ![MinerAccount] = Need]}

(* On genesis alone the accounts hold what was credited.                    *)
Fresh(d) == VertexSet(d.graph) = {GenesisId} => d.ledger.balances = d.faucet

(* The replica, and the snapshot it was or will be read from.               *)
DagInv ==
    /\ ReplicaState(dag, Vertices) /\ Fresh(dag)
    /\ {dag.faucet, snap} \subseteq Faucets

(* The threads and the log.  Who logs a vertex holds the lock.              *)
ThreadInv ==
    /\ pc \in [Threads -> {"idle", "dusted", "attached", "logged"}]
    /\ job = [th \in Threads |-> job[th]]
    /\ \A th \in Threads : pc[th] # "idle" => job[th] \in Vertices
    /\ lock \in Threads \cup {NoThread}
    /\ \A th \in Threads : pc[th] = "logged" <=> lock = th
    /\ wal \in Seq(Records)

HubInv == DagInv /\ ThreadInv

-----------------------------------------------------------------------------
(* The constants.                                                          *)

(* The vertices of the model are well formed.                               *)
LEMMA VerticesKnown == KnownOK(Vertices)
  BY HubPersistVertices, HubPersistRoom, KnownVertices

(* Whichever faucet map it is, it leaves room for the cap.                  *)
LEMMA FaucetRoom ==
    ASSUME NEW f \in Faucets
    PROVE  KnownRoom(Vertices, f) /\ f \in [Address -> 0 .. U64_MAX]
  <1> DEFINE K == Cardinality({t.id : t \in Vertices})
             I == InitialFaucet
             M == MinerAccount
  <1>0. /\ U64_MAX \in Nat /\ HARD_CAP \in Nat /\ Need \in Nat
        /\ PoolBound = INITIAL_TX_SUBSIDY + FIXED_TRANSACTION_FEE
    BY EconomicsAssumption DEF PoolBound, Need
  <1>1. K \in Nat /\ K < U64_MAX /\ K * PoolBound <= U64_MAX
    BY <1>0, FS_CardinalityType, HubPersistRoom DEF RoomForVertices
  <1> HIDE DEF K
  <1>2. /\ M \in Address
        /\ I \in [Address -> 0 .. U64_MAX] /\ I \in [Address -> Nat]
        /\ I \in [Address -> Int]
    BY <1>0, HubPersistAssumption
  <1>3. Total(I) \in Nat /\ I[M] \in Nat /\ Total(I) + Need + HARD_CAP <= U64_MAX
    <2>1. Total(I) \in Nat
      BY <1>2, TotalBounds, 0 \in Nat
    <2> QED BY <1>0, <1>2, <2>1, HubPersistRoom, EconomicsAssumption DEF Need
  <1> HIDE DEF I
  <1>4. CASE f = I
    <2>1. Total(f) + HARD_CAP <= U64_MAX
      BY <1>0, <1>3, <1>4
    <2> QED BY <1>0, <1>1, <1>2, <1>4, <2>1 DEF KnownRoom, RoomFor, K
  <1>5. CASE f = [I EXCEPT ![M] = Need]
    <2>1. Need <= U64_MAX
      BY <1>0, <1>3
    <2>2. /\ f \in [Address -> 0 .. U64_MAX] /\ f \in [Address -> Int]
          /\ f[M] = Need /\ \A x \in Address \ {M} : I[x] = f[x]
      BY <1>0, <1>2, <1>5, <2>1
    <2>3. Total(f) = Total(I) - I[M] + f[M]
      BY <1>2, <2>2, TotalUpdate
    <2>4. Total(f) + HARD_CAP <= U64_MAX
      BY <1>0, <1>3, <2>2, <2>3
    <2> QED BY <1>0, <1>1, <2>2, <2>4 DEF KnownRoom, RoomFor, K
  <1> QED BY <1>4, <1>5 DEF Faucets, I

-----------------------------------------------------------------------------
(* How a graph came about.                                                 *)

(* The graphs between genesis and the last of these vertices.               *)
IsBuild(txs, N, built) ==
    /\ built[0] = with_genesis.graph
    /\ \A n \in 1 .. N : /\ GraphVerdict(built[n - 1], txs[n]) = "Ok"
                         /\ built[n] = InsertVertex(built[n - 1], txs[n])

(* A graph is what its bodies build, inserted in attach order.              *)
Built(g) ==
    LET txs == SpendsInOrder(g, {})
    IN  /\ UserVertices(g) = VertexSet(g) \ {GenesisId}
        /\ \E built : IsBuild(txs, Len(txs), built) /\ built[Len(txs)] = g

(* Genesis needs no body.                                                   *)
LEMMA GenesisBuilt == Built(with_genesis.graph)
  <1> DEFINE g   == with_genesis.graph
             ids == UserVertices(g) \ {}
             txs == SpendsInOrder(g, {})
             built == [n \in {0} |-> g]
  <1>1. /\ ReplicaState(with_genesis, Vertices)
        /\ UserVertices(g) = {} /\ VertexSet(g) = {GenesisId}
    BY VerticesKnown, GenesisState
  <1>2. /\ \A i \in VertexSet(g) : g.vertices[i].id = i
        /\ ids \subseteq VertexSet(g) /\ ids = {}
        /\ txs = transactions_for_in_order(g, ids) /\ GraphOK(g)
    BY <1>1 DEF ReplicaState, ReplicaOK, StoredFrom, SpendsInOrder
  <1> HIDE DEF ids, txs, g
  <1>3. Len(txs) = 0
    <2>1. ListsOnce(g, ids, txs)
      BY <1>2, OrderedBodies
    <2> QED BY <1>2, <2>1, FS_EmptySet DEF ListsOnce
  <1>4. IsBuild(txs, 0, built) /\ built[0] = g
    BY DEF IsBuild, g
  <1>5. \E b : IsBuild(txs, Len(txs), b) /\ b[Len(txs)] = g
    <2> HIDE DEF built
    <2> QED BY <1>3, <1>4
  <1> QED BY <1>1, <1>5 DEF Built, txs, g

(* One more body.                                                           *)
LEMMA InsertBuilt ==
    ASSUME NEW g, GraphOK(g), StoredFrom(g, Vertices), Built(g),
           NEW t \in Vertices, GraphVerdict(g, t) = "Ok",
           NEW h, h = InsertVertex(g, t)
    PROVE  Built(h)
  <1> DEFINE txs  == SpendsInOrder(g, {})
             more == SpendsInOrder(h, {})
             N    == Len(txs)
             K    == N + 1
  <1>1. PICK built : IsBuild(txs, N, built) /\ built[N] = g
    BY DEF Built
  <1>2. /\ UserVertices(h) = UserVertices(g) \cup {t.id}
        /\ VertexSet(h) = VertexSet(g) \cup {t.id} /\ t.id # GenesisId
    BY VerticesKnown, InsertedUsers, InsertedFields DEF KnownOK
  <1>3. UserVertices(h) = VertexSet(h) \ {GenesisId}
    BY <1>2 DEF Built
  <1>4. more = Append(txs, t)
    BY VerticesKnown, SpendsAppend
  <1>5. txs \in Seq({g.vertices[i] : i \in VertexSet(g)})
    <2> DEFINE chosen == UserVertices(g) \ {}
    <2>1. \A i \in VertexSet(g) : g.vertices[i].id = i
      BY DEF StoredFrom
    <2>2. IsBodyList(g, chosen, txs)
      BY <2>1, StoredBodies DEF SpendsInOrder
    <2> HIDE DEF chosen, txs
    <2> QED BY <2>2 DEF IsBodyList
  <1> HIDE DEF txs, more
  <1>6. /\ N \in Nat /\ Len(more) = K /\ more[K] = t
        /\ \A n \in 1 .. N : more[n] = txs[n]
    BY <1>4, <1>5
  <1> DEFINE next == [n \in 0 .. K |-> IF n = K THEN h ELSE built[n]]
  <1>7. next[K] = h /\ \A n \in 0 .. N : next[n] = built[n]
    BY <1>6
  <1>8. IsBuild(more, K, next)
    <2>1. next[0] = with_genesis.graph
      BY <1>1, <1>6, <1>7 DEF IsBuild
    <2> HIDE DEF next
    <2>2. ASSUME NEW n \in 1 .. K
          PROVE  /\ GraphVerdict(next[n - 1], more[n]) = "Ok"
                 /\ next[n] = InsertVertex(next[n - 1], more[n])
      <3>1. CASE n = K
        <4>1. n - 1 = N /\ N \in 0 .. N /\ more[n] = t
          BY <1>6, <3>1
        <4>2. next[n - 1] = g
          BY <1>1, <1>7, <4>1
        <4> QED BY <1>7, <3>1, <4>1, <4>2
      <3>2. CASE n # K
        <4>1. n \in 1 .. N /\ n \in 0 .. N /\ n - 1 \in 0 .. N
          BY <1>6, <3>2
        <4>2. next[n - 1] = built[n - 1] /\ next[n] = built[n] /\ more[n] = txs[n]
          BY <1>6, <1>7, <4>1
        <4> QED BY <1>1, <4>1, <4>2 DEF IsBuild
      <3> QED BY <3>1, <3>2
    <2> QED BY <2>1, <2>2 DEF IsBuild
  <1> HIDE DEF next
  <1>9. \E b : IsBuild(more, Len(more), b) /\ b[Len(more)] = h
    BY <1>6, <1>7, <1>8
  <1> QED BY <1>3, <1>9 DEF Built, more

-----------------------------------------------------------------------------
(* What a restart reads.                                                   *)

(* The vertices of a log that come after both of their parents, record by   *)
(* record.                                                                  *)
IsKept(txs, N, kept) ==
    /\ kept[0] = {GenesisId}
    /\ \A n \in 1 .. N :
          kept[n] = IF {txs[n].parent_1, txs[n].parent_2} \subseteq kept[n - 1]
                    THEN kept[n - 1] \cup {txs[n].id} ELSE kept[n - 1]
    /\ InOrder(txs) = kept[N]

(* InOrder is the last of them.                                             *)
LEMMA KeptRun ==
    ASSUME NEW txs, NEW N \in Nat, Len(txs) = N
    PROVE  \E kept : IsKept(txs, N, kept)
  <1> DEFINE V == SUBSET ({GenesisId} \cup {txs[m].id : m \in 1 .. N})
             Eq(g) == g = [n \in 0 .. N |->
                             IF n = 0 THEN {GenesisId}
                             ELSE IF {txs[n].parent_1, txs[n].parent_2} \subseteq g[n - 1]
                                  THEN g[n - 1] \cup {txs[n].id} ELSE g[n - 1]]
             step == [p \in Nat \X V |->
                        IF p[1] + 1 \in 1 .. N
                           /\ {txs[p[1] + 1].parent_1, txs[p[1] + 1].parent_2} \subseteq p[2]
                        THEN p[2] \cup {txs[p[1] + 1].id} ELSE p[2]]
             kept == CHOOSE g : Eq(g)
  <1>1. {GenesisId} \in V
    OBVIOUS
  <1>2. \A p \in Nat \X V : step[p] \in V
    OBVIOUS
  <1>3. \A m \in Nat : \A x \in V :
          step[<<m, x>>] =
             IF m + 1 \in 1 .. N /\ {txs[m + 1].parent_1, txs[m + 1].parent_2} \subseteq x
             THEN x \cup {txs[m + 1].id} ELSE x
    OBVIOUS
  <1> HIDE DEF V, step
  <1>4. PICK f : IsRecursion(V, {GenesisId}, step, f)
    BY <1>1, <1>2, NatRecursion
  <1> DEFINE h == [n \in 0 .. N |-> f[n]]
  <1>5. Eq(h)
    <2>1. ASSUME NEW n \in 0 .. N
          PROVE  h[n] = IF n = 0 THEN {GenesisId}
                        ELSE IF {txs[n].parent_1, txs[n].parent_2} \subseteq h[n - 1]
                             THEN h[n - 1] \cup {txs[n].id} ELSE h[n - 1]
      <3>1. CASE n = 0
        BY <1>4, <3>1 DEF IsRecursion
      <3>2. CASE n # 0
        <4>1. n - 1 \in Nat /\ n - 1 \in 0 .. N /\ (n - 1) + 1 = n /\ n \in 1 .. N
          BY <3>2
        <4>2. f[n - 1] \in V /\ f[(n - 1) + 1] = step[<<n - 1, f[n - 1]>>]
          BY <1>4, <4>1 DEF IsRecursion
        <4>3. step[<<n - 1, f[n - 1]>>] =
                IF {txs[n].parent_1, txs[n].parent_2} \subseteq f[n - 1]
                THEN f[n - 1] \cup {txs[n].id} ELSE f[n - 1]
          <5> DEFINE m == n - 1
                     x == f[n - 1]
          <5>1. m \in Nat /\ x \in V /\ m + 1 = n /\ n \in 1 .. N
            BY <4>1, <4>2
          <5> HIDE DEF m, x
          <5>2. step[<<m, x>>] =
                  IF m + 1 \in 1 .. N /\ {txs[m + 1].parent_1, txs[m + 1].parent_2} \subseteq x
                  THEN x \cup {txs[m + 1].id} ELSE x
            BY <1>3, <5>1
          <5>3. step[<<m, x>>] =
                  IF {txs[n].parent_1, txs[n].parent_2} \subseteq x
                  THEN x \cup {txs[n].id} ELSE x
            BY <5>1, <5>2
          <5> QED BY <5>3 DEF m, x
        <4> QED BY <3>2, <4>1, <4>2, <4>3
      <3> QED BY <3>1, <3>2
    <2> HIDE DEF h
    <2>2. h = [n \in 0 .. N |-> h[n]]
      BY DEF h
    <2> QED BY <2>1, <2>2, Zenon
  <1>6. \E g : Eq(g)
    <2> HIDE DEF Eq, h
    <2> QED BY <1>5
  <1>7. Eq(kept)
    <2> HIDE DEF Eq
    <2> QED BY <1>6
  <1>8. InOrder(txs) = kept[N]
    BY DEF InOrder
  <1>9. \A n \in 0 .. N :
          kept[n] = IF n = 0 THEN {GenesisId}
                    ELSE IF {txs[n].parent_1, txs[n].parent_2} \subseteq kept[n - 1]
                         THEN kept[n - 1] \cup {txs[n].id} ELSE kept[n - 1]
    BY <1>7, Zenon
  <1> HIDE DEF kept
  <1>10. kept[0] = {GenesisId}
    BY <1>9, 0 \in 0 .. N
  <1>11. \A n \in 1 .. N :
          kept[n] = IF {txs[n].parent_1, txs[n].parent_2} \subseteq kept[n - 1]
                    THEN kept[n - 1] \cup {txs[n].id} ELSE kept[n - 1]
    <2>1. \A n \in 1 .. N : n \in 0 .. N /\ n # 0
      OBVIOUS
    <2> QED BY <1>9, <2>1
  <1> QED BY <1>8, <1>10, <1>11 DEF IsKept

(* read_wal takes whole records only, from the first one on.                *)
LEMMA ReadFacts ==
    ASSUME NEW log \in Seq(Records)
    PROVE  /\ Len(ReadWal(log)) \in Nat
           /\ DOMAIN ReadWal(log) = 1 .. Len(ReadWal(log))
           /\ \A n \in DOMAIN ReadWal(log) :
                 /\ n \in DOMAIN log /\ log[n].whole
                 /\ ReadWal(log)[n] = log[n].vertex
                 /\ ReadWal(log)[n] \in Vertices
  <1> DEFINE torn == {n \in DOMAIN log : ~log[n].whole}
             k    == IF torn = {} THEN Len(log) ELSE Min(torn) - 1
             read == IF torn = {} THEN log ELSE SubSeq(log, 1, Min(torn) - 1)
  <1>1. Len(log) \in Nat /\ DOMAIN log = 1 .. Len(log)
    OBVIOUS
  <1>2. torn # {} => Min(torn) \in torn /\ \A n \in torn : Min(torn) <= n
    <2> SUFFICES ASSUME torn # {}
                 PROVE  Min(torn) \in torn /\ \A n \in torn : Min(torn) <= n
      OBVIOUS
    <2>1. torn \subseteq Nat
      BY <1>1
    <2> HIDE DEF torn
    <2>2. \E x \in torn : \A y \in torn : x <= y
      BY <2>1, LeastNat
    <2> QED BY <2>2 DEF Min
  <1>3. k \in 0 .. Len(log) /\ \A n \in 1 .. k : n \in DOMAIN log /\ n \notin torn
    <2>1. CASE torn = {}
      BY <1>1, <2>1
    <2>2. CASE torn # {}
      <3> DEFINE m == Min(torn)
      <3>1. m \in DOMAIN log /\ k = m - 1 /\ \A n \in torn : m <= n
        BY <1>2, <2>2
      <3> HIDE DEF torn, m, k
      <3>2. m \in 1 .. Len(log)
        BY <1>1, <3>1
      <3>3. ASSUME NEW n \in 1 .. k PROVE n \in DOMAIN log /\ n \notin torn
        BY <1>1, <3>1, <3>2
      <3> QED BY <1>1, <3>1, <3>2, <3>3
    <2> QED BY <2>1, <2>2
  <1>4. DOMAIN read = 1 .. k /\ \A n \in 1 .. k : read[n] = log[n]
    <2>1. CASE torn = {}
      BY <1>1, <2>1
    <2>2. CASE torn # {}
      <3>1. read = SubSeq(log, 1, k)
        BY <2>2
      <3> HIDE DEF read, k
      <3> QED BY <1>1, <1>3, <3>1
    <2> QED BY <2>1, <2>2
  <1>5. ReadWal(log) = [n \in 1 .. k |-> read[n].vertex]
    BY <1>4 DEF ReadWal
  <1>6. \A n \in 1 .. k : log[n] \in Records /\ log[n].whole
    BY <1>3
  <1> HIDE DEF read, k, torn
  <1>7. ReadWal(log) = [n \in 1 .. k |-> log[n].vertex]
    BY <1>4, <1>5
  <1>8. k \in Nat /\ Len(ReadWal(log)) = k /\ DOMAIN ReadWal(log) = 1 .. k
    BY <1>1, <1>3, <1>7
  <1> QED BY <1>3, <1>6, <1>7, <1>8 DEF Records

(* What a restart reads back: a replica in order, over the credits of the   *)
(* snapshot, with the vertices that were logged after their parents.        *)
IsLoaded(log, faucet, d) ==
    /\ ReplicaState(d, Vertices) /\ d.faucet = faucet /\ Fresh(d) /\ Built(d.graph)
    /\ VertexSet(d.graph) = InOrder(ReadWal(log))
    /\ VertexSet(d.graph) \subseteq
          {GenesisId} \cup {log[n].vertex.id : n \in {m \in DOMAIN log : log[m].whole}}

(* DagStore::load reads such a replica back, if it succeeds.                *)
LEMMA LoadFacts ==
    ASSUME NEW log \in Seq(Records), NEW faucet \in Faucets, NEW d, Loads(log, faucet, d)
    PROVE  IsLoaded(log, faucet, d)
  <1> DEFINE txs == ReadWal(log)
             N   == Len(txs)
             ids == {log[n].vertex.id : n \in {m \in DOMAIN log : log[m].whole}}
  <1>1. /\ N \in Nat /\ DOMAIN txs = 1 .. N
        /\ \A n \in 1 .. N : txs[n] \in Vertices /\ txs[n].id \in ids
    BY ReadFacts
  <1>2. PICK run : IsRecovery(faucet, txs, N, run) /\ Recovered(txs, faucet) = run[N]
    BY <1>1, RecoveryRun
  <1> HIDE DEF txs, N, ids
  <1>3. PICK kept : IsKept(txs, N, kept)
    BY <1>1, KeptRun DEF N
  <1> DEFINE Held(n) == /\ ReplicaState(run[n].dag, Vertices) /\ run[n].dag.faucet = faucet
                        /\ Built(run[n].dag.graph)
                        /\ run[n].verdict = "Ok" => VertexSet(run[n].dag.graph) = kept[n]
                        /\ kept[n] \subseteq {GenesisId} \cup ids
             T == {n \in 0 .. N : Held(n)}
  <1>4. 0 \in T
    <2> DEFINE b == CreditAll(with_genesis, faucet)
    <2>1. /\ ReplicaState(b, Vertices) /\ b.faucet = faucet
          /\ Built(b.graph) /\ VertexSet(b.graph) = {GenesisId}
      BY VerticesKnown, FaucetRoom, BootstrapState, GenesisBuilt
    <2>2. run[0].dag = b /\ kept[0] = {GenesisId}
      BY <1>2, <1>3 DEF IsRecovery, IsKept
    <2> HIDE DEF b
    <2>3. Held(0)
      BY <2>1, <2>2
    <2> HIDE DEF Held
    <2> QED BY <1>1, <2>3
  <1>5. ASSUME NEW n \in 1 .. N, n - 1 \in T PROVE n \in T
    <2> DEFINE r == run[n - 1]
               s == run[n]
               t == txs[n]
    <2>1. /\ ReplicaState(r.dag, Vertices) /\ r.dag.faucet = faucet
          /\ Built(r.dag.graph)
          /\ r.verdict = "Ok" => VertexSet(r.dag.graph) = kept[n - 1]
          /\ kept[n - 1] \subseteq {GenesisId} \cup ids
      BY <1>5
    <2>2. s = ReplayRecord(r, t) /\ t \in Vertices /\ t.id \in ids
      BY <1>1, <1>2 DEF IsRecovery
    <2>3. kept[n] = IF {t.parent_1, t.parent_2} \subseteq kept[n - 1]
                    THEN kept[n - 1] \cup {t.id} ELSE kept[n - 1]
      BY <1>3 DEF IsKept
    <2> HIDE DEF r, s, t
    <2>4. IsRecordRead(Vertices, r, t, s)
      BY <2>1, <2>2, VerticesKnown, FaucetRoom, RecordRead
    <2>5. s.verdict = "Ok" => VertexSet(s.dag.graph) = kept[n]
      BY <2>1, <2>3, <2>4 DEF IsRecordRead
    <2>6. kept[n] \subseteq {GenesisId} \cup ids
      BY <2>1, <2>2, <2>3
    <2>7. Built(s.dag.graph)
      <3>1. GraphOK(r.dag.graph) /\ StoredFrom(r.dag.graph, Vertices)
        BY <2>1 DEF ReplicaState, ReplicaOK
      <3> QED BY <2>1, <2>2, <2>4, <3>1, InsertBuilt DEF IsRecordRead
    <2>8. Held(n)
      BY <2>1, <2>4, <2>5, <2>6, <2>7 DEF s, IsRecordRead
    <2> HIDE DEF Held
    <2> QED BY <2>8
  <1>6. Held(N)
    <2>1. \A n \in 0 .. N : n \in T
      <3> HIDE DEF T
      <3> QED BY <1>1, <1>4, <1>5, IndexSetInduction
    <2>2. N \in 0 .. N
      BY <1>1
    <2> HIDE DEF Held
    <2> QED BY <2>1, <2>2
  <1> DEFINE before  == run[N].dag
             rebuilt == resolve_conflicts_and_rebuild_ledger(before)
  <1>7. run[N].verdict = "Ok" /\ d = rebuilt.dag
    BY <1>2 DEF Loads, txs
  <1>8. /\ ReplicaState(before, Vertices) /\ before.faucet = faucet /\ Built(before.graph)
        /\ VertexSet(before.graph) = kept[N] /\ kept[N] \subseteq {GenesisId} \cup ids
    BY <1>6, <1>7
  <1> HIDE DEF before
  <1>9. IsRebuild(before, Vertices, rebuilt)
    BY <1>8, VerticesKnown, FaucetRoom, RebuildState
  <1>10. VertexSet(before.graph) = {GenesisId} => rebuilt.dag.ledger.balances = faucet
    BY <1>8, VerticesKnown, FreshRebuild
  <1> HIDE DEF rebuilt
  <1>11. /\ ReplicaState(d, Vertices) /\ d.faucet = faucet
         /\ d.graph = before.graph
    BY <1>7, <1>8, <1>9 DEF IsRebuild
  <1>12. InOrder(txs) = kept[N]
    BY <1>3 DEF IsKept
  <1> QED BY <1>7, <1>8, <1>10, <1>11, <1>12 DEF IsLoaded, Fresh, txs, ids

(* A log of a graph's bodies, read back, builds that graph.                 *)
LEMMA RecordsBuild ==
    ASSUME NEW faucet \in Faucets, NEW N \in Nat, NEW txs, DOMAIN txs = 1 .. N,
           \A n \in 1 .. N : txs[n] \in Vertices,
           NEW built, IsBuild(txs, N, built),
           NEW r, r = Recovered(txs, faucet), r.verdict = "Ok"
    PROVE  /\ ReplicaState(r.dag, Vertices) /\ r.dag.faucet = faucet
           /\ r.dag.graph = built[N]
  <1>1. PICK run : IsRecovery(faucet, txs, N, run) /\ r = run[N]
    BY RecoveryRun
  <1> DEFINE Held(n) == /\ ReplicaState(run[n].dag, Vertices) /\ run[n].dag.faucet = faucet
                        /\ run[n].verdict = "Ok" => run[n].dag.graph = built[n]
             T == {n \in 0 .. N : Held(n)}
  <1>2. 0 \in T
    <2> DEFINE b == CreditAll(with_genesis, faucet)
    <2>1. /\ ReplicaState(b, Vertices) /\ b.faucet = faucet
          /\ b.graph = with_genesis.graph
      BY VerticesKnown, FaucetRoom, BootstrapState
    <2>2. run[0].dag = b /\ built[0] = with_genesis.graph
      BY <1>1 DEF IsRecovery, IsBuild
    <2> HIDE DEF b
    <2>3. Held(0)
      BY <2>1, <2>2
    <2> HIDE DEF Held
    <2> QED BY <2>3
  <1>3. ASSUME NEW n \in 1 .. N, n - 1 \in T PROVE n \in T
    <2> DEFINE p == run[n - 1]
               s == run[n]
               t == txs[n]
    <2>1. /\ ReplicaState(p.dag, Vertices) /\ p.dag.faucet = faucet
          /\ p.verdict = "Ok" => p.dag.graph = built[n - 1]
      BY <1>3
    <2>2. s = ReplayRecord(p, t) /\ t \in Vertices
      BY <1>1 DEF IsRecovery
    <2>3. GraphVerdict(built[n - 1], t) = "Ok" /\ built[n] = InsertVertex(built[n - 1], t)
      BY DEF IsBuild
    <2> HIDE DEF p, s, t
    <2>4. IsRecordRead(Vertices, p, t, s)
      BY <2>1, <2>2, VerticesKnown, FaucetRoom, RecordRead
    <2>5. ASSUME s.verdict = "Ok" PROVE s.dag.graph = built[n]
      <3> DEFINE g == p.dag.graph
      <3>1. g = built[n - 1] /\ GenesisId \in VertexSet(g)
        BY <2>1, <2>4, <2>5 DEF IsRecordRead, ReplicaState, StoredFrom
      <3>2. t.id \notin VertexSet(g) /\ {t.parent_1, t.parent_2} \subseteq VertexSet(g)
        BY <2>3, <3>1, VerdictOk
      <3>3. t.id \in VertexSet(s.dag.graph)
        BY <2>4, <2>5, <3>2 DEF IsRecordRead
      <3>4. s.dag.graph = InsertVertex(g, t)
        BY <2>4, <3>2, <3>3 DEF IsRecordRead
      <3> QED BY <2>3, <3>1, <3>4
    <2>6. Held(n)
      BY <2>1, <2>4, <2>5 DEF s, IsRecordRead
    <2> HIDE DEF Held
    <2> QED BY <2>6
  <1>4. Held(N)
    <2>1. \A n \in 0 .. N : n \in T
      <3> HIDE DEF T
      <3> QED BY <1>2, <1>3, IndexSetInduction
    <2>2. N \in 0 .. N
      OBVIOUS
    <2> HIDE DEF Held
    <2> QED BY <2>1, <2>2
  <1> QED BY <1>1, <1>4

-----------------------------------------------------------------------------
(* The ledger of a replica without conflicts.                              *)

(* A rebuild gives it back as it is: there is no nonce of genesis to lose,  *)
(* since the replica has been through a rebuild when it was loaded.         *)
Restartable(d) ==
    Quiet(d) => Replayable(d) /\ d.ledger.next_nonce[GenesisSender] = 0

(* A rebuild leaves a ledger that the next one finds again.                 *)
LEMMA RebuildRestarts ==
    ASSUME Payable(Vertices), GenesisSilent(Vertices),
           NEW d, ReplicaState(d, Vertices), d.faucet \in Faucets,
           NEW r, r = resolve_conflicts_and_rebuild_ledger(d)
    PROVE  Restartable(r.dag)
  <1> SUFFICES ASSUME Quiet(r.dag)
               PROVE  Replayable(r.dag) /\ r.dag.ledger.next_nonce[GenesisSender] = 0
    BY DEF Restartable
  <1>1. KnownRoom(Vertices, d.faucet)
    BY FaucetRoom
  <1>2. Replayable(r.dag)
    BY <1>1, VerticesKnown, QuietRebuild DEF QuietReplays
  <1>3. /\ ReplicaState(r.dag, Vertices)
        /\ r.dag.graph = d.graph /\ r.dag.faucet = d.faucet
    <2>1. IsRebuild(d, Vertices, r)
      BY <1>1, VerticesKnown, RebuildState
    <2> QED BY <2>1 DEF IsRebuild
  <1>4. Losers(d.graph) = {}
    BY <1>3, QuietLosers DEF Quiet, ReplicaState, ReplicaOK
  <1> DEFINE L == r.dag.ledger
             n == L.next_nonce
  <1>5. L = Replay(d.faucet, SpendsInOrder(d.graph, {})).ledger
    BY <1>4 DEF resolve_conflicts_and_rebuild_ledger, ReplicaState, ReplicaOK, IsRecord
  <1>6. L = [L EXCEPT !.next_nonce[GenesisSender] = 0]
    BY <1>2, <1>3, <1>5 DEF Replayable
  <1>7. L \in Ledgers
    BY <1>3 DEF ReplicaState, LedgerOK
  <1> HIDE DEF L
  <1>8. n = [n EXCEPT ![GenesisSender] = 0]
    BY <1>6, <1>7, ResetLedger
  <1>9. n \in [Address -> 0 .. U64_MAX] /\ GenesisSender \in Address
    BY <1>7, LedgerFields, DagLedgerAssumption
  <1> HIDE DEF n
  <1>10. n[GenesisSender] = 0
    BY <1>8, <1>9
  <1> QED BY <1>2, <1>10 DEF n, L

(* No spend takes the nonce of genesis.                                     *)
LEMMA AttachRestarts ==
    ASSUME Payable(Vertices), GenesisSilent(Vertices),
           NEW d, ReplicaState(d, Vertices), d.faucet \in Faucets, Restartable(d),
           NEW t \in Vertices,
           NEW r, r = attach_and_verify_tx(d, t)
    PROVE  Restartable(r.dag)
  <1> DEFINE g == d.graph
             L == d.ledger
             e == apply_ledger_effects(L, t)
             h == InsertVertex(g, t)
  <1>1. KnownOK(Vertices) /\ KnownRoom(Vertices, d.faucet)
    BY VerticesKnown, FaucetRoom
  <1>2. CASE GraphVerdict(g, t) # "Ok" \/ SpendVerdict(L, t) # "Ok"
    <2>1. r.dag = d
      BY <1>2 DEF attach_and_verify_tx
    <2> QED BY <2>1
  <1>3. CASE GraphVerdict(g, t) = "Ok" /\ SpendVerdict(L, t) = "Ok"
    <2>1. /\ IsRecord(d) /\ GraphOK(g) /\ StoredFrom(g, Vertices)
          /\ LedgerOK(L, d.faucet) /\ L \in Ledgers
          /\ L.dag_tx_count <= Cardinality(UserVertices(g))
      BY DEF ReplicaState, ReplicaOK, LedgerOK
    <2>2. /\ GraphOK(h) /\ StoredFrom(h, Vertices) /\ ~is_genesis(t)
          /\ Cardinality(UserVertices(h)) = Cardinality(UserVertices(g)) + 1
      BY <1>1, <1>3, <2>1, InsertedUsers
    <2>3. r.dag = [d EXCEPT !.graph = h, !.ledger = e.ledger]
      BY <1>3, <2>2 DEF attach_and_verify_tx
    <2> HIDE DEF h, e
    <2>4. /\ r.dag.graph = h /\ r.dag.ledger = e.ledger
          /\ r.dag.conflicts = d.conflicts
      BY <2>1, <2>3 DEF IsRecord
    <2> SUFFICES ASSUME Quiet(r.dag)
                 PROVE  Replayable(r.dag) /\ r.dag.ledger.next_nonce[GenesisSender] = 0
      BY DEF Restartable
    <2>5. Quiet(d)
      <3>1. \A i \in UserVertices(h) : Rivals(h, i) = {i}
        BY <2>4 DEF Quiet
      <3>2. \A i \in UserVertices(g) : Rivals(g, i) = {i}
        BY <1>1, <1>3, <2>1, <3>1, QuietBefore DEF h
      <3> QED BY <2>4, <3>2 DEF Quiet
    <2>6. Replayable(r.dag)
      <3>1. QuietReplays(d)
        BY DEF Restartable, QuietReplays
      <3>2. QuietReplays(r.dag)
        BY <1>1, <3>1, QuietAttach
      <3> QED BY <3>2 DEF QuietReplays
    <2>7. RoomFor(d.faucet, L.dag_tx_count + 1)
      <3> DEFINE N == Cardinality({x.id : x \in Vertices})
      <3>1. /\ Cardinality(UserVertices(h)) <= N /\ Cardinality(UserVertices(g)) \in Nat
        BY <1>1, <2>1, <2>2, UserVerticesFacts
      <3>2. N \in Nat
        BY <1>1, FS_CardinalityType DEF KnownOK
      <3>3. RoomFor(d.faucet, N)
        BY <1>1 DEF KnownRoom
      <3>4. L.dag_tx_count \in Nat
        BY <2>1, LedgerFields
      <3> HIDE DEF N
      <3>5. L.dag_tx_count + 1 \in 0 .. N
        BY <2>1, <2>2, <3>1, <3>2, <3>4
      <3> QED BY <3>2, <3>3, <3>5, RoomBelow
    <2>8. IsTransaction(t) /\ t.sender # GenesisSender
      BY <1>1 DEF KnownOK, GenesisSilent
    <2> HIDE DEF L
    <2>9. IsEffect(d.faucet, L, t, e)
      BY <2>1, <2>2, <2>7, <2>8, EffectsFacts DEF e
    <2>10. e.ledger.next_nonce = [L.next_nonce EXCEPT ![t.sender] = @ + 1]
      BY <1>3, <2>9 DEF IsEffect, L
    <2>11. L.next_nonce \in [Address -> 0 .. U64_MAX] /\ GenesisSender \in Address
      BY <2>1, LedgerFields, DagLedgerAssumption
    <2>12. e.ledger.next_nonce[GenesisSender] = L.next_nonce[GenesisSender]
      BY <2>8, <2>10, <2>11
    <2>13. L.next_nonce[GenesisSender] = 0
      BY <2>5 DEF Restartable, L
    <2> QED BY <2>4, <2>6, <2>12, <2>13
  <1> QED BY <1>2, <1>3

(* Live ingest attaches or rebuilds.                                        *)
LEMMA AcceptRestarts ==
    ASSUME Payable(Vertices), GenesisSilent(Vertices),
           NEW d, ReplicaState(d, Vertices), d.faucet \in Faucets, Restartable(d),
           NEW t \in Vertices,
           NEW r, r = accept_wire_vertex(d, t)
    PROVE  Restartable(r.dag)
  <1> DEFINE g        == d.graph
             attached == attach_and_verify_tx(d, t)
             s        == [d EXCEPT !.graph = InsertVertex(d.graph, t)]
             rebuilt  == resolve_conflicts_and_rebuild_ledger(s)
  <1>1. \/ r.dag = d
        \/ r.dag = attached.dag
        \/ GraphVerdict(g, t) = "Ok" /\ r = rebuilt
    BY DEF accept_wire_vertex, insert_graph_only
  <1>2. Restartable(attached.dag)
    BY AttachRestarts
  <1>3. ASSUME GraphVerdict(g, t) = "Ok" PROVE Restartable(rebuilt.dag)
    <2>1. ReplicaState(s, Vertices)
      BY <1>3, VerticesKnown, FaucetRoom, StoredState
    <2>2. s.faucet = d.faucet
      BY DEF ReplicaState, ReplicaOK, IsRecord
    <2> HIDE DEF s
    <2> QED BY <2>1, <2>2, RebuildRestarts
  <1> HIDE DEF attached, rebuilt
  <1> QED BY <1>1, <1>2, <1>3

-----------------------------------------------------------------------------
(* The steps of the hub.                                                   *)

Carried == {job[th].id : th \in {x \in Threads : pc[x] \in {"dusted", "attached"}}}

(* The dust leaves a replica in order, over one of the two faucet maps.     *)
LEMMA DustState ==
    ASSUME DagInv, NEW r, r = credit_account(dag, MinerAccount, Dust(dag))
    PROVE  /\ ReplicaState(r, Vertices) /\ r.faucet \in Faucets
           /\ r.graph = dag.graph
           /\ Dust(dag) \in Nat /\ dag.faucet[MinerAccount] + Dust(dag) <= U64_MAX
           /\ KnownRoom(Vertices, [dag.faucet EXCEPT ![MinerAccount] = @ + Dust(dag)])
  <1> DEFINE M    == MinerAccount
             dust == Dust(dag)
             f    == [dag.faucet EXCEPT ![M] = @ + dust]
             held == dag.ledger.balances[M]
             n    == Cardinality(VertexSet(dag.graph))
  <1>1. /\ ReplicaState(dag, Vertices) /\ dag.faucet \in Faucets
        /\ M \in Address /\ U64_MAX \in Nat /\ Need \in Nat
        /\ dag.faucet \in [Address -> 0 .. U64_MAX]
    BY HubPersistAssumption, EconomicsAssumption, FaucetRoom DEF DagInv, Need
  <1>2. held \in Nat
    <2>1. dag.ledger \in Ledgers
      BY <1>1 DEF ReplicaState, LedgerOK
    <2> QED BY <1>1, <2>1, LedgerFields
  <1>3. n <= 1 => held = dag.faucet[M]
    <2>1. n <= 1 => VertexSet(dag.graph) = {GenesisId}
      BY <1>1, VerticesKnown, StoredFinite DEF ReplicaState
    <2> QED BY <2>1 DEF DagInv, Fresh
  <1>4. dust = IF n <= 1 THEN SaturatingSub(Need, held) ELSE 0
    BY DEF Dust, Need
  <1> HIDE DEF n, dust, held
  <1>5. dust \in Nat /\ f \in Faucets
    <2>1. CASE dust = 0
      <3>1. f = dag.faucet
        BY <1>1, <2>1
      <3> QED BY <1>1, <2>1, <3>1
    <2>2. CASE dust # 0
      <3>1. dust = Need - held /\ held < Need /\ n <= 1
        BY <1>1, <1>2, <1>4, <2>2 DEF SaturatingSub
      <3>2. dag.faucet[M] = held
        BY <1>3, <3>1
      <3>3. f = [dag.faucet EXCEPT ![M] = Need]
        BY <1>1, <1>2, <3>1, <3>2
      <3>4. f = [InitialFaucet EXCEPT ![M] = Need]
        BY <1>1, <3>3 DEF Faucets
      <3> QED BY <1>1, <1>2, <3>1, <3>4 DEF Faucets
    <2> QED BY <2>1, <2>2
  <1> HIDE DEF f
  <1>6. dag.faucet[M] + dust <= U64_MAX /\ KnownRoom(Vertices, f)
    <2>1. KnownRoom(Vertices, f) /\ f \in [Address -> 0 .. U64_MAX]
      BY <1>5, FaucetRoom
    <2>2. f[M] = dag.faucet[M] + dust
      BY <1>1 DEF f
    <2> QED BY <1>1, <2>1, <2>2
  <1>7. r = credit_account(dag, M, dust)
    BY DEF dust
  <1>8. /\ ReplicaState(r, Vertices) /\ r.graph = dag.graph
        /\ r.faucet = [dag.faucet EXCEPT ![M] = @ + dust]
    BY <1>1, <1>5, <1>6, <1>7, VerticesKnown, CreditState DEF f
  <1> QED BY <1>5, <1>6, <1>8 DEF f, M, dust

(* The dust is one credit more.                                             *)
LEMMA DustRestarts ==
    ASSUME Payable(Vertices), GenesisSilent(Vertices), DagInv, Restartable(dag),
           NEW r, r = credit_account(dag, MinerAccount, Dust(dag))
    PROVE  Restartable(r)
  <1> DEFINE M    == MinerAccount
             dust == Dust(dag)
             f    == [dag.faucet EXCEPT ![M] = @ + dust]
  <1>1. /\ ReplicaState(r, Vertices) /\ r.faucet \in Faucets /\ r.graph = dag.graph
        /\ dust \in Nat /\ dag.faucet[M] + dust <= U64_MAX /\ KnownRoom(Vertices, f)
    BY DustState
  <1>2. /\ ReplicaState(dag, Vertices) /\ KnownRoom(Vertices, dag.faucet) /\ M \in Address
        /\ IsRecord(dag)
    BY FaucetRoom, HubPersistAssumption DEF DagInv, ReplicaState, ReplicaOK
  <1>3. r.ledger.next_nonce = dag.ledger.next_nonce /\ r.conflicts = dag.conflicts
    <2>1. dag.ledger \in Ledgers
      BY <1>2 DEF ReplicaState, LedgerOK
    <2> QED BY <1>2, <2>1 DEF credit_account, IsRecord, Ledgers
  <1> SUFFICES ASSUME Quiet(r)
               PROVE  Replayable(r) /\ r.ledger.next_nonce[GenesisSender] = 0
    BY DEF Restartable
  <1>4. Quiet(dag)
    BY <1>1, <1>3 DEF Quiet
  <1>5. QuietReplays(dag)
    BY DEF Restartable, QuietReplays
  <1> HIDE DEF dust
  <1>6. QuietReplays(r)
    BY <1>1, <1>2, <1>5, VerticesKnown, QuietCredit DEF dust
  <1> QED BY <1>3, <1>4, <1>6 DEF Restartable, QuietReplays

(* Where a new vertex is stored, genesis is not alone.                      *)
LEMMA NoLongerFresh ==
    ASSUME NEW d, NEW e, NEW t \in Vertices, e.graph = InsertVertex(d.graph, t)
    PROVE  Fresh(e)
  <1>1. t.id \in VertexSet(e.graph)
    BY InsertedFields
  <1>2. t.id # GenesisId
    BY HubPersistVertices DEF AreVertices
  <1> QED BY <1>1, <1>2 DEF Fresh

(* Live ingest.  Unless an amount beyond 64 bits stops the rebuild, what is *)
(* stored is also reported as new, so that the thread goes on to log it.    *)
LEMMA IngestKeeps ==
    ASSUME HubInv, NEW th \in Threads, Ingest(th)
    PROVE  HubInv' /\ (Payable(Vertices) /\ NothingForgotten => NothingForgotten')
  <1>1. PICK t \in Vertices :
           /\ dag' = accept_wire_vertex(dag, t).dag
           /\ IF IsNew(accept_wire_vertex(dag, t), t)
              THEN /\ pc' = [pc EXCEPT ![th] = "attached"]
                   /\ job' = [job EXCEPT ![th] = t]
              ELSE UNCHANGED <<pc, job>>
    BY DEF Ingest, Received, Available
  <1>2. /\ up = TRUE /\ lock = NoThread /\ pc[th] = "idle"
        /\ lock' = lock /\ wal' = wal /\ snap' = snap /\ up' = up
    BY DEF Ingest
  <1> DEFINE r == accept_wire_vertex(dag, t)
  <1>3. IsAccept(dag, Vertices, t, r)
    BY VerticesKnown, FaucetRoom, AcceptState DEF HubInv, DagInv
  <1>4. dag' = r.dag /\ (IsNew(r, t) <=> r.verdict = "Ok")
    BY <1>1 DEF IsNew
  <1> HIDE DEF r
  <1>5. DagInv'
    <2>1. Fresh(dag')
      <3>1. CASE r.dag = dag
        BY <1>4, <3>1 DEF HubInv, DagInv
      <3>2. CASE r.dag.graph = InsertVertex(dag.graph, t)
        BY <1>4, <3>2, NoLongerFresh
      <3> QED BY <1>3, <3>1, <3>2 DEF IsAccept
    <2>2. ReplicaState(dag', Vertices) /\ dag'.faucet = dag.faucet
      BY <1>3, <1>4 DEF IsAccept
    <2> QED BY <1>2, <2>1, <2>2 DEF HubInv, DagInv, Fresh
  <1>6. ThreadInv'
    BY <1>1, <1>2, HubPersistAssumption DEF HubInv, ThreadInv
  <1>7. ASSUME Payable(Vertices), NothingForgotten PROVE NothingForgotten'
    <2>1. CASE r.verdict = "Ok"
      <3>1. VertexSet(dag'.graph) = VertexSet(dag.graph) \cup {t.id}
        <4>1. dag'.graph = InsertVertex(dag.graph, t)
          BY <1>3, <1>4, <2>1 DEF IsAccept
        <4> QED BY <4>1, InsertedFields
      <3>2. pc' = [pc EXCEPT ![th] = "attached"] /\ job' = [job EXCEPT ![th] = t]
        BY <1>1, <1>4, <2>1 DEF r
      <3>3. Carried \cup {t.id} \subseteq Carried'
        <4>1. /\ pc'[th] = "attached" /\ job'[th] = t
              /\ \A x \in Threads \ {th} : pc'[x] = pc[x] /\ job'[x] = job[x]
          BY <3>2 DEF HubInv, ThreadInv
        <4> QED BY <1>2, <4>1 DEF Carried
      <3>4. LoggedIds' = LoggedIds
        BY <1>2 DEF LoggedIds
      <3> QED BY <1>2, <1>7, <3>1, <3>3, <3>4 DEF NothingForgotten, StoredIds, Carried
    <2>2. CASE r.verdict # "Ok"
      <3>1. dag' = dag
        <4>1. dag'.graph = InsertVertex(dag.graph, t) => AmountsFit(r.dag.graph)
          BY <1>3, <1>4, <1>7, StoredAmounts DEF IsAccept, ReplicaState
        <4> QED BY <1>3, <1>4, <2>2, <4>1 DEF IsAccept
      <3>2. pc' = pc /\ job' = job
        BY <1>1, <1>4, <2>2 DEF r
      <3> QED BY <1>2, <1>7, <3>1, <3>2 DEF NothingForgotten, StoredIds, LoggedIds
    <2> QED BY <2>1, <2>2
  <1> QED BY <1>5, <1>6, <1>7 DEF HubInv

(* The miner logs every share it composes.                                  *)
LEMMA MinerTickKeeps ==
    ASSUME HubInv, NEW th \in Threads, MinerTick(th)
    PROVE  HubInv' /\ (NothingForgotten => NothingForgotten')
  <1> DEFINE ready == credit_account(dag, MinerAccount, Dust(dag))
             next  == AfterTick(Dust(dag))
  <1>1. PICK t \in Vertices :
           /\ attach_and_verify_tx(ready, t).verdict = "Ok"
           /\ dag' = attach_and_verify_tx(ready, t).dag
           /\ pc' = [pc EXCEPT ![th] = next]
           /\ job' = [job EXCEPT ![th] = t]
    BY DEF MinerTick, Available
  <1>2. /\ up = TRUE /\ lock = NoThread /\ pc[th] = "idle"
        /\ lock' = lock /\ wal' = wal /\ snap' = snap /\ up' = up
    BY DEF MinerTick
  <1>3. /\ ReplicaState(ready, Vertices) /\ ready.faucet \in Faucets
        /\ ready.graph = dag.graph
    BY DustState DEF HubInv
  <1>4. next \in {"dusted", "attached"}
    BY DEF AfterTick
  <1> HIDE DEF ready, next
  <1> DEFINE r == attach_and_verify_tx(ready, t)
  <1>5. IsAttach(ready, Vertices, t, r)
    BY <1>3, VerticesKnown, FaucetRoom, AttachState
  <1>6. dag' = r.dag /\ r.verdict = "Ok"
    BY <1>1
  <1> HIDE DEF r
  <1>7. dag'.graph = InsertVertex(ready.graph, t)
    BY <1>5, <1>6 DEF IsAttach
  <1>8. DagInv'
    <2>1. Fresh(dag')
      BY <1>7, NoLongerFresh
    <2>2. ReplicaState(dag', Vertices) /\ dag'.faucet = ready.faucet
      BY <1>5, <1>6 DEF IsAttach
    <2> QED BY <1>2, <1>3, <2>1, <2>2 DEF HubInv, DagInv, Fresh
  <1>9. ThreadInv'
    BY <1>1, <1>2, <1>4, HubPersistAssumption DEF HubInv, ThreadInv
  <1>10. ASSUME NothingForgotten PROVE NothingForgotten'
    <2>1. VertexSet(dag'.graph) = VertexSet(dag.graph) \cup {t.id}
      BY <1>3, <1>7, InsertedFields
    <2>2. /\ pc'[th] \in {"dusted", "attached"} /\ job'[th] = t
          /\ \A x \in Threads \ {th} : pc'[x] = pc[x] /\ job'[x] = job[x]
      BY <1>1, <1>4 DEF HubInv, ThreadInv
    <2>3. Carried \cup {t.id} \subseteq Carried'
      BY <1>2, <2>2 DEF Carried
    <2>4. LoggedIds' = LoggedIds
      BY <1>2 DEF LoggedIds
    <2> QED BY <1>2, <1>10, <2>1, <2>3, <2>4 DEF NothingForgotten, StoredIds, Carried
  <1> QED BY <1>8, <1>9, <1>10 DEF HubInv

(* A log with one more record.                                              *)
LEMMA Logs ==
    ASSUME NEW log \in Seq(Records), NEW x \in Records, NEW more, more = Append(log, x)
    PROVE  /\ more \in Seq(Records)
           /\ DOMAIN log \subseteq DOMAIN more
           /\ \A n \in DOMAIN log : more[n] = log[n]
           /\ Len(log) + 1 \in DOMAIN more
           /\ more[Len(log) + 1] = x
  OBVIOUS

(* Persisting a vertex takes it from the thread to the log.                 *)
LEMMA PersistKeeps ==
    ASSUME HubInv, NEW th \in Threads,
           SnapshotDust(th) \/ AppendVertex(th) \/ WriteSnapshot(th)
    PROVE  HubInv' /\ (NothingForgotten => NothingForgotten')
  <1>1. CASE SnapshotDust(th)
    <2>1. /\ dag' = dag /\ job' = job /\ lock' = lock /\ wal' = wal /\ up' = up
          /\ snap' = dag.faucet /\ pc[th] = "dusted"
          /\ pc' = [pc EXCEPT ![th] = "attached"]
      BY <1>1 DEF SnapshotDust, from_dag_with_faucet
    <2>2. DagInv'
      BY <2>1 DEF HubInv, DagInv, Fresh
    <2>3. ThreadInv'
      BY <2>1 DEF HubInv, ThreadInv
    <2>4. Carried' = Carried /\ LoggedIds' = LoggedIds
      <3>1. \A x \in Threads :
               pc'[x] \in {"dusted", "attached"} <=> pc[x] \in {"dusted", "attached"}
        BY <2>1 DEF HubInv, ThreadInv
      <3> QED BY <2>1, <3>1 DEF Carried, LoggedIds
    <2> QED BY <2>1, <2>2, <2>3, <2>4 DEF HubInv, NothingForgotten, StoredIds, Carried
  <1>2. CASE AppendVertex(th)
    <2>1. /\ dag' = dag /\ job' = job /\ snap' = snap /\ up' = up
          /\ lock = NoThread /\ lock' = th /\ pc[th] = "attached"
          /\ wal' = Append(wal, Record(job[th], TRUE))
          /\ pc' = [pc EXCEPT ![th] = "logged"]
      BY <1>2 DEF AppendVertex
    <2>2. DagInv'
      BY <2>1 DEF HubInv, DagInv, Fresh
    <2>3. Record(job[th], TRUE) \in Records /\ wal \in Seq(Records)
      BY <2>1 DEF HubInv, ThreadInv, Record, Records
    <2>4. /\ wal' \in Seq(Records)
          /\ DOMAIN wal \subseteq DOMAIN wal'
          /\ \A n \in DOMAIN wal : wal'[n] = wal[n]
          /\ Len(wal) + 1 \in DOMAIN wal'
          /\ wal'[Len(wal) + 1] = Record(job[th], TRUE)
      <3> DEFINE x    == Record(job[th], TRUE)
                 more == Append(wal, x)
      <3>1. x \in Records /\ wal \in Seq(Records)
        BY <2>3
      <3> HIDE DEF x
      <3>2. more = Append(wal, x)
        OBVIOUS
      <3> HIDE DEF more
      <3>3. /\ more \in Seq(Records)
            /\ DOMAIN wal \subseteq DOMAIN more
            /\ \A n \in DOMAIN wal : more[n] = wal[n]
            /\ Len(wal) + 1 \in DOMAIN more
            /\ more[Len(wal) + 1] = x
        BY <3>1, <3>2, Logs
      <3>4. wal' = more
        BY <2>1 DEF more, x
      <3> QED BY <3>3, <3>4 DEF x
    <2>5. ThreadInv'
      BY <2>1, <2>4, HubPersistAssumption DEF HubInv, ThreadInv
    <2>6. LoggedIds \cup {job[th].id} \subseteq LoggedIds'
      <3>1. /\ wal'[Len(wal) + 1].whole = TRUE
            /\ wal'[Len(wal) + 1].vertex = job[th]
        BY <2>4 DEF Record
      <3> QED BY <2>4, <3>1 DEF LoggedIds
    <2>7. Carried \subseteq Carried' \cup {job[th].id}
      <3>1. \A x \in Threads \ {th} : pc'[x] = pc[x]
        BY <2>1 DEF HubInv, ThreadInv
      <3> QED BY <2>1, <3>1 DEF Carried
    <2> QED BY <2>1, <2>2, <2>5, <2>6, <2>7 DEF HubInv, NothingForgotten, StoredIds, Carried
  <1>3. CASE WriteSnapshot(th)
    <2>1. /\ dag' = dag /\ wal' = wal /\ up' = up
          /\ lock' = NoThread /\ pc[th] = "logged" /\ snap' = dag.faucet
          /\ pc' = [pc EXCEPT ![th] = "idle"]
          /\ job' = [job EXCEPT ![th] = signed_genesis_tx]
      BY <1>3 DEF WriteSnapshot, from_dag_with_faucet
    <2>2. DagInv'
      BY <2>1 DEF HubInv, DagInv, Fresh
    <2>3. ThreadInv'
      BY <2>1, HubPersistAssumption DEF HubInv, ThreadInv
    <2>4. Carried \subseteq Carried' /\ LoggedIds' = LoggedIds
      <3>1. \A x \in Threads \ {th} : pc'[x] = pc[x] /\ job'[x] = job[x]
        BY <2>1 DEF HubInv, ThreadInv
      <3> QED BY <2>1, <3>1 DEF Carried, LoggedIds
    <2> QED BY <2>1, <2>2, <2>3, <2>4 DEF HubInv, NothingForgotten, StoredIds, Carried
  <1> QED BY <1>1, <1>2, <1>3

(* A dead process leaves its log, with at most one record cut short.        *)
LEMMA CrashKeeps ==
    ASSUME HubInv, Crash
    PROVE  HubInv' /\ NothingForgotten'
  <1>1. /\ dag' = dag /\ snap' = snap /\ up' = FALSE
        /\ pc' = Idle /\ job' = NoJob /\ lock' = NoThread
    BY DEF Crash
  <1>2. wal' \in Seq(Records)
    <2>1. CASE wal' = wal
      BY <2>1 DEF HubInv, ThreadInv
    <2>2. ASSUME NEW th \in Threads, pc[th] = "attached",
                 wal' = Append(wal, Record(job[th], FALSE))
          PROVE  wal' \in Seq(Records)
      <3> DEFINE x == Record(job[th], FALSE)
      <3>1. x \in Records /\ wal \in Seq(Records)
        BY <2>2 DEF HubInv, ThreadInv, Record, Records
      <3>2. wal' = Append(wal, x)
        BY <2>2
      <3> HIDE DEF x
      <3> QED BY <3>1, <3>2, Logs
    <2> QED BY <2>1, <2>2 DEF Crash
  <1>3. DagInv'
    BY <1>1 DEF HubInv, DagInv, Fresh
  <1>4. ThreadInv'
    BY <1>1, <1>2, HubPersistAssumption DEF ThreadInv, Idle, NoJob
  <1> QED BY <1>1, <1>3, <1>4 DEF HubInv, NothingForgotten

(* A restart holds what it read from the log, and nothing else.             *)
LEMMA BootKeeps ==
    ASSUME HubInv, Boot
    PROVE  /\ HubInv' /\ NothingForgotten'
           /\ VertexSet(dag'.graph) = InOrder(ReadWal(wal))
  <1>1. /\ Loads(wal, snap, dag') /\ snap' = dag'.faucet
        /\ pc' = pc /\ job' = job /\ lock' = lock /\ wal' = wal
    BY DEF Boot, from_dag_with_faucet
  <1>2. wal \in Seq(Records) /\ snap \in Faucets
    BY DEF HubInv, DagInv, ThreadInv
  <1>3. IsLoaded(wal, snap, dag')
    BY <1>1, <1>2, LoadFacts
  <1>4. DagInv'
    BY <1>1, <1>2, <1>3 DEF IsLoaded, DagInv, Fresh
  <1>5. ThreadInv'
    BY <1>1 DEF HubInv, ThreadInv
  <1>6. NothingForgotten'
    BY <1>1, <1>3 DEF IsLoaded, NothingForgotten, StoredIds, LoggedIds
  <1> QED BY <1>3, <1>4, <1>5, <1>6 DEF HubInv, IsLoaded

(* The hub starts on an empty log.                                          *)
LEMMA HubInit == Init => HubInv /\ NothingForgotten
  <1> SUFFICES ASSUME Init PROVE HubInv /\ NothingForgotten
    OBVIOUS
  <1>1. InitialFaucet \in Faucets /\ <<>> \in Seq(Records)
    BY DEF Faucets
  <1>2. IsLoaded(<<>>, InitialFaucet, dag)
    BY <1>1, LoadFacts DEF Init
  <1>3. DagInv
    BY <1>1, <1>2 DEF Init, IsLoaded, DagInv
  <1>4. ThreadInv
    BY <1>1, HubPersistAssumption DEF Init, ThreadInv, Idle, NoJob
  <1>5. NothingForgotten
    BY <1>2 DEF Init, IsLoaded, NothingForgotten, StoredIds, LoggedIds
  <1> QED BY <1>3, <1>4, <1>5 DEF HubInv

(* Every step keeps the invariant; while no amount exceeds 64 bits, no step *)
(* forgets a vertex.                                                        *)
LEMMA HubStep ==
    ASSUME HubInv, [Next]_vars
    PROVE  HubInv' /\ (Payable(Vertices) /\ NothingForgotten => NothingForgotten')
  <1>1. CASE \E th \in Threads : Ingest(th)
    BY <1>1, IngestKeeps
  <1>2. CASE \E th \in Threads : MinerTick(th)
    BY <1>2, MinerTickKeeps
  <1>3. CASE \E th \in Threads : SnapshotDust(th) \/ AppendVertex(th) \/ WriteSnapshot(th)
    BY <1>3, PersistKeeps
  <1>4. CASE Crash
    BY <1>4, CrashKeeps
  <1>5. CASE Boot
    BY <1>5, BootKeeps
  <1>6. CASE UNCHANGED vars
    BY <1>6 DEF vars, HubInv, DagInv, Fresh, ThreadInv,
                NothingForgotten, StoredIds, LoggedIds
  <1> QED BY <1>1, <1>2, <1>3, <1>4, <1>5, <1>6 DEF Next

-----------------------------------------------------------------------------
(* A restart without conflicts.                                            *)

(* The replica can be read back from its bodies.                            *)
KeptInv == Built(dag.graph) /\ Restartable(dag)

(* What DagStore::load reads back is such a replica.                        *)
LEMMA LoadKept ==
    ASSUME Payable(Vertices), GenesisSilent(Vertices),
           NEW log \in Seq(Records), NEW faucet \in Faucets, NEW d, Loads(log, faucet, d)
    PROVE  Built(d.graph) /\ Restartable(d)
  <1> DEFINE txs == ReadWal(log)
             b   == Recovered(txs, faucet).dag
  <1>1. Built(d.graph)
    BY LoadFacts DEF IsLoaded
  <1>2. d = resolve_conflicts_and_rebuild_ledger(b).dag
    BY DEF Loads
  <1>3. ReplicaState(b, Vertices) /\ b.faucet = faucet
    <2>1. txs \in Seq(Vertices)
      <3> DEFINE N == Len(txs)
      <3>1. N \in Nat /\ DOMAIN txs = 1 .. N /\ \A n \in 1 .. N : txs[n] \in Vertices
        BY ReadFacts
      <3>2. txs = [n \in 1 .. N |-> txs[n]]
        <4>1. txs = [n \in DOMAIN txs |-> txs[n]]
          BY DEF ReadWal
        <4> HIDE DEF txs, N
        <4> QED BY <3>1, <4>1
      <3> HIDE DEF txs, N
      <3>3. txs \in [1 .. N -> Vertices]
        BY <3>1, <3>2
      <3> QED BY <3>1, <3>3
    <2> HIDE DEF txs
    <2> QED BY <2>1, VerticesKnown, FaucetRoom, RecoveredState DEF b
  <1> HIDE DEF b
  <1> QED BY <1>1, <1>2, <1>3, RebuildRestarts

(* Every step keeps it, a crash and a restart too.                          *)
LEMMA KeptStep ==
    ASSUME Payable(Vertices), GenesisSilent(Vertices), HubInv, KeptInv, [Next]_vars
    PROVE  KeptInv'
  <1>0. /\ ReplicaState(dag, Vertices) /\ dag.faucet \in Faucets
        /\ Built(dag.graph) /\ Restartable(dag)
        /\ GraphOK(dag.graph) /\ StoredFrom(dag.graph, Vertices)
    BY DEF HubInv, DagInv, KeptInv, ReplicaState, ReplicaOK
  <1>1. ASSUME NEW th \in Threads, Ingest(th) PROVE KeptInv'
    <2>1. PICK t \in Vertices : dag' = accept_wire_vertex(dag, t).dag
      BY <1>1 DEF Ingest, Received, Available
    <2> DEFINE r == accept_wire_vertex(dag, t)
    <2>2. IsAccept(dag, Vertices, t, r)
      BY <1>0, VerticesKnown, FaucetRoom, AcceptState
    <2>3. Restartable(r.dag)
      BY <1>0, AcceptRestarts
    <2> HIDE DEF r
    <2>4. Built(r.dag.graph)
      BY <1>0, <2>2, InsertBuilt DEF IsAccept
    <2> QED BY <2>1, <2>3, <2>4 DEF KeptInv, r
  <1>2. ASSUME NEW th \in Threads, MinerTick(th) PROVE KeptInv'
    <2> DEFINE ready == credit_account(dag, MinerAccount, Dust(dag))
    <2>1. PICK t \in Vertices : dag' = attach_and_verify_tx(ready, t).dag
      BY <1>2 DEF MinerTick, Available
    <2>2. /\ ReplicaState(ready, Vertices) /\ ready.faucet \in Faucets
          /\ ready.graph = dag.graph /\ Restartable(ready)
      BY <1>0, DustState, DustRestarts DEF HubInv
    <2> HIDE DEF ready
    <2> DEFINE r == attach_and_verify_tx(ready, t)
    <2>3. IsAttach(ready, Vertices, t, r)
      BY <2>2, VerticesKnown, FaucetRoom, AttachState
    <2>4. Restartable(r.dag)
      BY <2>2, AttachRestarts
    <2> HIDE DEF r
    <2>5. Built(r.dag.graph)
      BY <1>0, <2>2, <2>3, InsertBuilt DEF IsAttach
    <2> QED BY <2>1, <2>4, <2>5 DEF KeptInv, r
  <1>3. ASSUME NEW th \in Threads,
               SnapshotDust(th) \/ AppendVertex(th) \/ WriteSnapshot(th)
        PROVE  KeptInv'
    BY <1>0, <1>3 DEF KeptInv, SnapshotDust, AppendVertex, WriteSnapshot
  <1>4. CASE Crash \/ UNCHANGED vars
    BY <1>0, <1>4 DEF KeptInv, Crash, vars
  <1>5. CASE Boot
    <2>1. wal \in Seq(Records) /\ snap \in Faucets /\ Loads(wal, snap, dag')
      BY <1>5 DEF Boot, HubInv, DagInv, ThreadInv
    <2>2. Built(dag'.graph) /\ Restartable(dag')
      BY <2>1, LoadKept
    <2> QED BY <2>2 DEF KeptInv
  <1> QED BY <1>1, <1>2, <1>3, <1>4, <1>5 DEF Next

(* A log that holds the bodies of such a replica in attach order brings it  *)
(* back.                                                                    *)
LEMMA BootKept ==
    ASSUME HubInv, KeptInv, Boot, Quiet(dag), snap = dag.faucet,
           ReadWal(wal) = transactions_for_in_order(dag.graph, StoredIds)
    PROVE  dag' = dag
  <1> DEFINE txs   == ReadWal(wal)
             N     == Len(txs)
             read  == Recovered(txs, snap)
             again == resolve_conflicts_and_rebuild_ledger(dag)
             R     == Replay(dag.faucet, SpendsInOrder(dag.graph, Losers(dag.graph)))
             lost  == [i \in Losers(dag.graph) \cup R.rejected |->
                         IF i \in Losers(dag.graph) THEN Winner(dag.graph, i)
                         ELSE NULL_PARENT]
  <1>1. /\ read.verdict = "Ok"
        /\ resolve_conflicts_and_rebuild_ledger(read.dag).verdict = "Ok"
        /\ dag' = resolve_conflicts_and_rebuild_ledger(read.dag).dag
    BY DEF Boot, Loads
  <1>2. /\ wal \in Seq(Records) /\ snap \in Faucets
        /\ ReplicaState(dag, Vertices) /\ IsRecord(dag)
        /\ Built(dag.graph) /\ Restartable(dag)
    BY DEF HubInv, DagInv, ThreadInv, KeptInv, ReplicaState, ReplicaOK
  <1>3. /\ N \in Nat /\ DOMAIN txs = 1 .. N
        /\ \A n \in 1 .. N : txs[n] \in Vertices
    BY <1>2, ReadFacts
  <1>4. txs = SpendsInOrder(dag.graph, {})
    <2>1. UserVertices(dag.graph) \ {} = StoredIds
      BY <1>2 DEF Built, StoredIds
    <2> QED BY <2>1 DEF SpendsInOrder
  <1> HIDE DEF txs
  <1>5. PICK built : IsBuild(txs, N, built) /\ built[N] = dag.graph
    BY <1>2, <1>4 DEF Built
  <1> HIDE DEF N
  <1>6. /\ ReplicaState(read.dag, Vertices)
        /\ read.dag.faucet = dag.faucet /\ read.dag.graph = dag.graph
    BY <1>1, <1>2, <1>3, <1>5, RecordsBuild
  <1> HIDE DEF read
  <1>7. Replayable(dag) /\ dag.ledger.next_nonce[GenesisSender] = 0
    BY <1>2 DEF Restartable
  <1>8. again.verdict = "Ok" /\ again.dag = dag
    <2>1. again.verdict = "Ok" /\ again.dag = [dag EXCEPT !.ledger.next_nonce[GenesisSender] = 0]
      BY <1>2, <1>7, QuietSurvives
    <2> DEFINE L == dag.ledger
               n == L.next_nonce
    <2>2. L \in Ledgers
      BY <1>2 DEF ReplicaState, LedgerOK
    <2>3. n = [n EXCEPT ![GenesisSender] = 0]
      <3>1. n \in [Address -> 0 .. U64_MAX]
        BY <2>2, LedgerFields
      <3> HIDE DEF n
      <3> QED BY <1>7, <3>1 DEF n
    <2>4. L = [L EXCEPT !.next_nonce = n]
      <3> HIDE DEF L
      <3> QED BY <2>2 DEF Ledgers, n
    <2>5. dag = [dag EXCEPT !.ledger = L]
      BY <1>2 DEF IsRecord
    <2> QED BY <2>1, <2>3, <2>4, <2>5
  <1>9. /\ again.verdict = IF R.aborted THEN "Overflow" ELSE "Ok"
        /\ again.dag = [dag EXCEPT !.ledger = R.ledger,
                                   !.conflicts = IF R.aborted THEN dag.conflicts ELSE lost]
    BY DEF resolve_conflicts_and_rebuild_ledger
  <1>10. dag' = [read.dag EXCEPT !.ledger = R.ledger,
                                 !.conflicts = IF R.aborted THEN read.dag.conflicts ELSE lost]
    BY <1>1, <1>6 DEF resolve_conflicts_and_rebuild_ledger
  <1> HIDE DEF again, R, lost
  <1>11. ~R.aborted
    BY <1>8, <1>9
  <1>12. IsRecord(read.dag)
    BY <1>6 DEF ReplicaState, ReplicaOK
  <1> QED BY <1>2, <1>6, <1>8, <1>9, <1>10, <1>11, <1>12 DEF IsRecord

-----------------------------------------------------------------------------
(* The miner's account while it cannot pay for a share.                     *)

(* What a vertex of another does to the account of the miner: nothing.      *)
Spares(t) ==
    /\ t.sender # MinerAccount /\ t.recipient # MinerAccount
    /\ MinerAccount \notin ToSet(t.relays)

(* The spend of another leaves the miner's balance alone.                   *)
LEMMA SpendSpares ==
    ASSUME NEW L \in Ledgers, NEW t, IsTransaction(t), SpendVerdict(L, t) = "Ok", Spares(t),
           NEW S, S = Spend(L, t)
    PROVE  S \in Ledgers /\ S.balances[MinerAccount] = L.balances[MinerAccount]
  <1> DEFINE bal    == L.balances
             fee    == Fee(t)
             self   == [bal EXCEPT ![t.sender] = @ - fee]
             paid   == [bal EXCEPT ![t.sender] = @ - (t.amount + fee)]
             both   == [paid EXCEPT ![t.recipient] = @ + t.amount]
             moved  == IF t.sender = t.recipient THEN self ELSE both
             nonces == [L.next_nonce EXCEPT ![t.sender] = SaturatingAdd(@, 1)]
  <1>1. fee \in Nat /\ U64_MAX \in Nat
    BY EconomicsAssumption DEF Fee
  <1>2. /\ t.sender \in Address /\ t.recipient \in Address /\ MinerAccount \in Address
        /\ t.sender # MinerAccount /\ t.recipient # MinerAccount
        /\ t.amount \in Nat /\ t.nonce \in Nat
    BY HubPersistAssumption DEF IsTransaction, Spares
  <1>3. /\ bal \in [Address -> 0 .. U64_MAX] /\ L.next_nonce \in [Address -> 0 .. U64_MAX]
    BY LedgerFields
  <1>4. /\ bal[t.sender] >= t.amount + fee
        /\ t.sender # t.recipient => bal[t.recipient] + t.amount <= U64_MAX
    BY <1>1, <1>2, <1>3 DEF SpendVerdict
  <1>5. S = [L EXCEPT !.balances = moved, !.next_nonce = nonces]
    BY DEF Spend
  <1> HIDE DEF fee, bal
  <1>6. nonces \in [Address -> 0 .. U64_MAX]
    BY <1>1, <1>2, <1>3 DEF SaturatingAdd
  <1>7. /\ self \in [Address -> 0 .. U64_MAX] /\ paid \in [Address -> 0 .. U64_MAX]
        /\ self[MinerAccount] = bal[MinerAccount] /\ paid[MinerAccount] = bal[MinerAccount]
    BY <1>1, <1>2, <1>3, <1>4
  <1>8. t.sender # t.recipient => paid[t.recipient] = bal[t.recipient]
    BY <1>2, <1>3
  <1> HIDE DEF self, paid, nonces
  <1>9. t.sender # t.recipient => both \in [Address -> 0 .. U64_MAX]
    BY <1>1, <1>2, <1>3, <1>4, <1>7, <1>8
  <1>10. both[MinerAccount] = paid[MinerAccount]
    BY <1>2, <1>7
  <1> HIDE DEF both
  <1>11. moved \in [Address -> 0 .. U64_MAX] /\ moved[MinerAccount] = bal[MinerAccount]
    BY <1>7, <1>9, <1>10
  <1> HIDE DEF moved
  <1>12. S \in Ledgers /\ S.balances = moved
    BY <1>5, <1>6, <1>11 DEF Ledgers
  <1> QED BY <1>11, <1>12 DEF bal

(* So does a credit to another account ...                                  *)
LEMMA CreditSpares ==
    ASSUME NEW m \in Mints, NEW to \in Address, to # MinerAccount, NEW amount \in Nat,
           NEW r, r = CreditMiner(m, to, amount)
    PROVE  r \in Mints /\ r.ledger.balances[MinerAccount] = m.ledger.balances[MinerAccount]
  <1>1. r \in Mints
    BY CreditMinerFacts
  <1>2. m.ledger \in Ledgers /\ m.ok \in BOOLEAN
    BY DEF Mints
  <1> DEFINE new == [m.ledger.balances EXCEPT ![to] = @ + amount]
  <1>3. new[MinerAccount] = m.ledger.balances[MinerAccount]
    BY <1>2, HubPersistAssumption, LedgerFields
  <1> HIDE DEF new
  <1>4. r = [m EXCEPT !.ok = FALSE] \/ r = [m EXCEPT !.ledger = [m.ledger EXCEPT !.balances = new]]
    BY DEF CreditMiner, new
  <1>5. r.ledger = m.ledger \/ r.ledger.balances = new
    BY <1>2, <1>4 DEF Mints, Ledgers
  <1> QED BY <1>1, <1>3, <1>5

(* ... and a relay's payout.                                                *)
LEMMA PayoutSpares ==
    ASSUME NEW m \in Mints, NEW p, p.to \in Address, p.to # MinerAccount, p.amount \in Nat,
           NEW r, r = CreditRelay(m, p)
    PROVE  r.ledger.balances[MinerAccount] = m.ledger.balances[MinerAccount]
  <1> DEFINE to     == p.to
             amount == p.amount
             paid   == CreditMiner(m, to, amount)
             new    == [paid.ledger.relay_credits EXCEPT ![to] = @ + amount]
  <1>1. /\ paid \in Mints
        /\ paid.ledger.balances[MinerAccount] = m.ledger.balances[MinerAccount]
    BY CreditSpares
  <1>2. \/ r = [m EXCEPT !.ok = FALSE]
        \/ r = [paid EXCEPT !.ok = FALSE]
        \/ r = [paid EXCEPT !.ledger = [paid.ledger EXCEPT !.relay_credits = new]]
    BY DEF CreditRelay
  <1> HIDE DEF paid, new
  <1>3. \/ r.ledger = m.ledger
        \/ r.ledger = paid.ledger
        \/ r.ledger.balances = paid.ledger.balances
    BY <1>1, <1>2 DEF Mints, Ledgers
  <1> QED BY <1>1, <1>3

(* The payouts of a vertex go to its relays.                                *)
LEMMA PayoutsToRelays ==
    ASSUME NEW relays \in Seq(Address), NEW total
    PROVE  \A n \in 1 .. Len(relays) : RelayPayouts(relays, total)[n].to = relays[n]
  <1>1. DOMAIN relays = 1 .. Len(relays)
    OBVIOUS
  <1> QED BY <1>1 DEF RelayPayouts

(* Relays that are not the miner's account leave it alone.                  *)
LEMMA RelaysSpare ==
    ASSUME NEW base \in Mints, NEW relays \in Seq(Address), NEW total \in Nat,
           MinerAccount \notin ToSet(relays),
           NEW r, r = FoldLeft(CreditRelay, base, RelayPayouts(relays, total))
    PROVE  r.ledger.balances[MinerAccount] = base.ledger.balances[MinerAccount]
  <1> DEFINE payouts == RelayPayouts(relays, total)
             k == Len(relays)
  <1>1. /\ k \in Nat /\ DOMAIN relays = 1 .. k /\ DOMAIN payouts = 1 .. k
        /\ \A n \in 1 .. k : payouts[n].to = relays[n] /\ relays[n] \in ToSet(relays)
    <2>1. k \in Nat /\ DOMAIN relays = 1 .. k
      OBVIOUS
    <2>2. DOMAIN payouts = DOMAIN relays
      BY DEF RelayPayouts
    <2>3. \A n \in DOMAIN relays : relays[n] \in ToSet(relays)
      BY DEF ToSet
    <2> QED BY <2>1, <2>2, <2>3, PayoutsToRelays
  <1>2. \A n \in 1 .. k : payouts[n].to \in Address /\ payouts[n].amount \in Nat
    <2>1. CASE relays = <<>>
      BY <1>1, <2>1
    <2>2. CASE relays # <<>>
      <3>1. PICK each \in Nat, dust \in Nat :
               /\ Len(relays) * each + dust = total
               /\ \A n \in 1 .. Len(relays) :
                     /\ RelayPayouts(relays, total)[n].to \in Address
                     /\ RelayPayouts(relays, total)[n].amount =
                           IF n = 1 THEN each + dust ELSE each
        BY <2>2, PayoutFacts
      <3> QED BY <3>1
    <2> QED BY <2>1, <2>2
  <1> HIDE DEF payouts, k
  <1>3. PICK run : IsPayoutRun(base, payouts, k, run)
    BY <1>1, <1>2, PayoutRun
  <1>4. /\ run[0] = base
        /\ \A n \in 0 .. k : run[n] \in Mints
        /\ \A n \in 1 .. k : run[n] = CreditRelay(run[n - 1], payouts[n])
        /\ r = run[k]
    BY <1>3 DEF IsPayoutRun, payouts
  <1> DEFINE P(n) == run[n].ledger.balances[MinerAccount]
                       = base.ledger.balances[MinerAccount]
             T == {n \in 0 .. k : P(n)}
  <1>5. 0 \in T
    BY <1>1, <1>4
  <1>6. ASSUME NEW n \in 1 .. k, n - 1 \in T PROVE n \in T
    <2>1. n \in 0 .. k /\ n - 1 \in 0 .. k /\ P(n - 1)
      BY <1>1, <1>6
    <2> DEFINE m == run[n - 1]
               p == payouts[n]
               s == run[n]
    <2>2. /\ m \in Mints /\ s = CreditRelay(m, p)
          /\ p.to \in Address /\ p.to # MinerAccount /\ p.amount \in Nat
      BY <1>1, <1>2, <1>4, <2>1
    <2> HIDE DEF m, p, s
    <2>3. s.ledger.balances[MinerAccount] = m.ledger.balances[MinerAccount]
      BY <2>2, PayoutSpares
    <2> QED BY <2>1, <2>3 DEF m, s
  <1>7. \A n \in 0 .. k : n \in T
    <2> HIDE DEF T
    <2> QED BY <1>1, <1>5, <1>6, IndexSetInduction
  <1>8. k \in 0 .. k
    BY <1>1
  <1>9. P(k)
    BY <1>7, <1>8
  <1> QED BY <1>4, <1>9

(* What another mints is not the miner's.                                   *)
LEMMA MintSpares ==
    ASSUME NEW L \in Ledgers, NEW fee \in Nat, NEW miner \in Address, miner # MinerAccount,
           NEW relays \in Seq(Address), MinerAccount \notin ToSet(relays),
           NEW r, r = mint_confirmed_tx(L, fee, miner, relays)
    PROVE  r.ledger.balances[MinerAccount] = L.balances[MinerAccount]
  <1> DEFINE subsidy == get_current_tx_subsidy(L.dag_tx_count, L.current_supply)
             pool  == subsidy + fee
             total == dag_relay_total_of(pool)
             share == MinerPayout(relays, pool)
             start == [ok |-> TRUE, ledger |-> L]
             first == CreditMiner(start, miner, share)
             paid  == FoldLeft(CreditRelay, first, RelayPayouts(relays, total))
  <1>0. U64_MAX \in Nat
    BY EconomicsAssumption
  <1>s. subsidy \in Nat
    <2>1. L.current_supply \in 0 .. HARD_CAP /\ L.dag_tx_count \in Nat
      BY LedgerFields
    <2>2. subsidy \in 0 .. INITIAL_TX_SUBSIDY /\ INITIAL_TX_SUBSIDY \in Nat
      BY <2>1, SubsidyBound, EconomicsAssumption
    <2> HIDE DEF subsidy
    <2> QED BY <2>2
  <1>1. r = IF pool > U64_MAX THEN [start EXCEPT !.ok = FALSE]
            ELSE IF ~paid.ok THEN paid
            ELSE [paid EXCEPT !.ledger.current_supply = @ + subsidy,
                              !.ledger.dag_tx_count = @ + 1]
    BY DEF mint_confirmed_tx
  <1>2. start \in Mints /\ start.ledger = L /\ pool \in Nat
    BY <1>s DEF Mints
  <1> HIDE DEF pool, subsidy
  <1>3. dag_miner_share_of(pool) \in Nat /\ total \in Nat
    BY <1>2, SplitOfPool
  <1>4. share \in Nat
    <2>1. CASE relays = <<>>
      BY <1>0, <1>3, <2>1 DEF MinerPayout, SaturatingAdd
    <2>2. CASE relays # <<>>
      BY <1>3, <2>2 DEF MinerPayout
    <2> QED BY <2>1, <2>2
  <1>n. ([start EXCEPT !.ok = FALSE]).ledger = L
    BY DEF Mints
  <1> HIDE DEF share, start, total
  <1>6. first \in Mints /\ first.ledger.balances[MinerAccount] = L.balances[MinerAccount]
    BY <1>2, <1>4, CreditSpares
  <1> HIDE DEF first
  <1>7. paid \in Mints
    BY <1>3, <1>6, RelaysPaid
  <1>8. paid.ledger.balances[MinerAccount] = first.ledger.balances[MinerAccount]
    BY <1>3, <1>6, RelaysSpare
  <1> HIDE DEF paid
  <1>9. r.ledger = L \/ r.ledger.balances = paid.ledger.balances
    BY <1>1, <1>7, <1>n DEF Mints, Ledgers
  <1> QED BY <1>6, <1>8, <1>9

(* While the miner lacks the price of a share, no vertex changes what it    *)
(* holds: its own are refused, those of others spare it.                    *)
LEMMA EffectSpares ==
    ASSUME NEW L \in Ledgers, NEW t, IsTransaction(t), ~is_genesis(t),
           IF t.sender = MinerAccount THEN t.amount >= 1 ELSE Spares(t),
           L.balances[MinerAccount] < Need,
           NEW r, r = apply_ledger_effects(L, t)
    PROVE  r.ledger.balances[MinerAccount] = L.balances[MinerAccount]
  <1> DEFINE S == Spend(L, t)
             m == mint_confirmed_tx(S, Fee(t), t.sender, t.relays)
  <1>1. r = IF SpendVerdict(L, t) # "Ok" THEN [verdict |-> SpendVerdict(L, t), ledger |-> L]
            ELSE [verdict |-> IF m.ok THEN "Ok" ELSE "Overflow", ledger |-> m.ledger]
    BY DEF apply_ledger_effects
  <1>2. /\ Fee(t) = FIXED_TRANSACTION_FEE /\ Fee(t) \in Nat
        /\ t.sender \in Address /\ t.relays \in Seq(Address)
        /\ t.amount \in Nat
    BY EconomicsAssumption DEF Fee, IsTransaction
  <1>3. CASE SpendVerdict(L, t) # "Ok"
    BY <1>1, <1>3
  <1>4. CASE SpendVerdict(L, t) = "Ok"
    <2>1. t.sender # MinerAccount
      <3> SUFFICES ASSUME t.sender = MinerAccount PROVE FALSE
        OBVIOUS
      <3>1. L.balances[MinerAccount] \in Nat
        BY HubPersistAssumption, LedgerFields
      <3>2. ~(L.balances[MinerAccount] < t.amount + Fee(t))
        BY <1>4 DEF SpendVerdict
      <3> QED BY <1>2, <3>1, <3>2 DEF Need
    <2>2. Spares(t)
      BY <2>1
    <2>3. S \in Ledgers /\ S.balances[MinerAccount] = L.balances[MinerAccount]
      <3>1. S = Spend(L, t)
        OBVIOUS
      <3> HIDE DEF S, m
      <3> QED BY <1>4, <2>2, <3>1, SpendSpares
    <2> HIDE DEF S
    <2>4. m.ledger.balances[MinerAccount] = S.balances[MinerAccount]
      BY <1>2, <2>1, <2>2, <2>3, MintSpares DEF Spares
    <2>5. r.ledger = m.ledger
      BY <1>1, <1>4
    <2> QED BY <2>3, <2>4, <2>5
  <1> QED BY <1>3, <1>4

(* Credits that buy no share.                                               *)
Poor(faucet) == faucet[MinerAccount] < Need

(* While its credits buy no share, the miner holds these credits.           *)
Penniless(d) == Poor(d.faucet) => d.ledger.balances[MinerAccount] = d.faucet[MinerAccount]

(* A rebuild over such credits leaves them.                                 *)
LEMMA PoorReplay ==
    ASSUME NEW faucet, Poor(faucet), NEW N \in Nat, RoomFor(faucet, N),
           NEW txs, DOMAIN txs = 1 .. N,
           \A n \in 1 .. N :
              /\ IsTransaction(txs[n]) /\ ~is_genesis(txs[n])
              /\ IF txs[n].sender = MinerAccount THEN txs[n].amount >= 1 ELSE Spares(txs[n]),
           NEW r, r = Replay(faucet, txs)
    PROVE  r.ledger.balances[MinerAccount] = faucet[MinerAccount]
  <1>1. PICK run : IsReplayRun(faucet, txs, N, run)
    BY ReplayRun
  <1>2. /\ run[0] = [ledger |-> BaselineLedger(faucet), rejected |-> {}, aborted |-> FALSE]
        /\ \A n \in 1 .. N : run[n] = ReplayStep(run[n - 1], txs[n])
        /\ r = run[N]
    BY <1>1 DEF IsReplayRun
  <1> DEFINE P(n) == /\ LedgerOK(run[n].ledger, faucet)
                     /\ run[n].ledger.dag_tx_count <= n
                     /\ run[n].ledger.balances[MinerAccount] = faucet[MinerAccount]
             T == {n \in 0 .. N : P(n)}
  <1>3. 0 \in T
    <2>1. LedgerOK(BaselineLedger(faucet), faucet)
      BY BaselineLedgerOK DEF RoomFor
    <2>2. /\ BaselineLedger(faucet).dag_tx_count = 0
          /\ BaselineLedger(faucet).balances = faucet
      BY DEF BaselineLedger
    <2>3. run[0].ledger = BaselineLedger(faucet) /\ 0 \in 0 .. N /\ 0 <= 0
      BY <1>2
    <2>4. P(0)
      BY <2>1, <2>2, <2>3
    <2> HIDE DEF P
    <2> QED BY <2>3, <2>4
  <1>4. ASSUME NEW n \in 1 .. N, n - 1 \in T PROVE n \in T
    <2> DEFINE p == run[n - 1]
               t == txs[n]
               L == p.ledger
               e == apply_ledger_effects(L, t)
               s == run[n]
    <2>1. P(n - 1) /\ n - 1 \in Nat /\ n - 1 \in 0 .. N /\ n \in 0 .. N
      BY <1>4
    <2>2. s.ledger = L \/ s.ledger = e.ledger
      <3>1. s = ReplayStep(p, t)
        BY <1>2
      <3> HIDE DEF t, s
      <3> QED BY <3>1 DEF ReplayStep
    <2>3. /\ IsTransaction(t) /\ ~is_genesis(t)
          /\ IF t.sender = MinerAccount THEN t.amount >= 1 ELSE Spares(t)
      OBVIOUS
    <2>4. /\ LedgerOK(L, faucet) /\ L.dag_tx_count <= n - 1
          /\ L.balances[MinerAccount] = faucet[MinerAccount]
      BY <2>1
    <2>5. L \in Ledgers /\ L.dag_tx_count \in Nat
      <3>1. L \in Ledgers
        BY <2>4 DEF LedgerOK
      <3> QED BY <3>1, LedgerFields
    <2>6. RoomFor(faucet, L.dag_tx_count + 1)
      <3>1. L.dag_tx_count + 1 \in 0 .. N
        BY <2>4, <2>5
      <3> QED BY <3>1, RoomBelow
    <2>7. P(n) <=> /\ LedgerOK(s.ledger, faucet)
                   /\ s.ledger.dag_tx_count <= n
                   /\ s.ledger.balances[MinerAccount] = faucet[MinerAccount]
      OBVIOUS
    <2> HIDE DEF P, p, L, t, s
    <2>8. IsEffect(faucet, L, t, e)
      BY <2>3, <2>4, <2>6, EffectsFacts
    <2>9. e.ledger.balances[MinerAccount] = L.balances[MinerAccount]
      <3>1. L.balances[MinerAccount] < Need
        BY <2>4 DEF Poor
      <3> QED BY <2>3, <2>5, <3>1, EffectSpares
    <2> HIDE DEF e
    <2>10. LedgerOK(e.ledger, faucet) /\ e.ledger.dag_tx_count <= n
      BY <2>1, <2>4, <2>5, <2>8 DEF IsEffect
    <2>11. L.dag_tx_count <= n
      BY <2>1, <2>4, <2>5
    <2>12. P(n)
      BY <2>2, <2>4, <2>7, <2>9, <2>10, <2>11
    <2> QED BY <2>1, <2>12
  <1>5. \A n \in 0 .. N : n \in T
    <2> HIDE DEF T
    <2> QED BY <1>3, <1>4, IndexSetInduction
  <1>6. N \in 0 .. N
    OBVIOUS
  <1>7. P(N)
    BY <1>5, <1>6
  <1> QED BY <1>2, <1>7

(* So a rebuild leaves a poor miner what it was credited.                   *)
LEMMA PoorRebuild ==
    ASSUME MinesAlone, NEW d, ReplicaState(d, Vertices), KnownRoom(Vertices, d.faucet),
           NEW r, r = resolve_conflicts_and_rebuild_ledger(d)
    PROVE  Penniless(r.dag)
  <1> DEFINE g      == d.graph
             V      == g.vertices
             losers == Losers(g)
             chosen == UserVertices(g) \ losers
             txs    == SpendsInOrder(g, losers)
             N      == Len(txs)
             replay == Replay(d.faucet, txs)
  <1>1. /\ IsRecord(d) /\ GraphOK(g) /\ StoredFrom(g, Vertices)
    BY DEF ReplicaState, ReplicaOK
  <1>2. /\ UserVertices(g) \subseteq VertexSet(g)
        /\ IsFiniteSet(UserVertices(g))
        /\ Cardinality(UserVertices(g)) \in Nat
        /\ Cardinality(UserVertices(g)) <= Cardinality({t.id : t \in Vertices})
        /\ \A i \in UserVertices(g) : V[i].id = i /\ IsTransaction(V[i]) /\ ~is_genesis(V[i])
    BY <1>1, VerticesKnown, UserVerticesFacts
  <1>3. \A i \in UserVertices(g) :
           IF V[i].sender = MinerAccount THEN V[i].amount >= 1 ELSE Spares(V[i])
    <2>1. \A i \in UserVertices(g) : V[i] \in Vertices
      <3>1. is_genesis(signed_genesis_tx)
        BY DEF is_genesis, signed_genesis_tx
      <3> QED BY <1>1, <3>1 DEF StoredFrom, UserVertices
    <2> HIDE DEF V
    <2> QED BY <2>1 DEF MinesAlone, Spares
  <1>4. r.dag.ledger = replay.ledger /\ r.dag.faucet = d.faucet
    <2> HIDE DEF replay
    <2>1. \E C : r.dag = [d EXCEPT !.ledger = replay.ledger, !.conflicts = C]
      BY DEF resolve_conflicts_and_rebuild_ledger, replay, txs, losers, g
    <2> QED BY <1>1, <2>1 DEF IsRecord
  <1>5. ListsOnce(g, chosen, txs)
    <2>1. \A i \in VertexSet(g) : V[i].id = i
      BY <1>1 DEF StoredFrom
    <2>2. chosen \subseteq VertexSet(g) /\ txs = transactions_for_in_order(g, chosen)
      BY <1>2 DEF SpendsInOrder
    <2> HIDE DEF chosen, txs
    <2> QED BY <1>1, <2>1, <2>2, OrderedBodies
  <1> HIDE DEF txs
  <1>6. /\ DOMAIN txs = 1 .. N /\ N \in Nat /\ N = Cardinality(chosen)
        /\ {txs[n].id : n \in 1 .. N} = chosen
        /\ \A n \in 1 .. N : txs[n] = V[txs[n].id]
    BY <1>5 DEF ListsOnce
  <1> HIDE DEF N
  <1>7. N <= Cardinality(UserVertices(g))
    BY <1>2, <1>6, FS_Subset
  <1>8. RoomFor(d.faucet, N)
    <2> DEFINE K == Cardinality({t.id : t \in Vertices})
               c == Cardinality(UserVertices(g))
    <2>1. K \in Nat /\ RoomFor(d.faucet, K)
      BY VerticesKnown, FS_CardinalityType DEF KnownOK, KnownRoom
    <2>2. c <= K /\ c \in Nat /\ N <= c /\ N \in Nat
      BY <1>2, <1>6, <1>7
    <2> HIDE DEF K, c
    <2>3. N \in 0 .. K
      BY <2>1, <2>2
    <2> QED BY <2>1, <2>3, RoomBelow
  <1>9. \A n \in 1 .. N : txs[n].id \in UserVertices(g)
    <2>1. \A n \in 1 .. N : txs[n].id \in {txs[m].id : m \in 1 .. N}
      OBVIOUS
    <2>2. chosen \subseteq UserVertices(g)
      OBVIOUS
    <2> HIDE DEF chosen
    <2> QED BY <1>6, <2>1, <2>2
  <1>10. \A n \in 1 .. N :
            /\ IsTransaction(txs[n]) /\ ~is_genesis(txs[n])
            /\ IF txs[n].sender = MinerAccount THEN txs[n].amount >= 1 ELSE Spares(txs[n])
    <2> SUFFICES ASSUME NEW n \in 1 .. N
                 PROVE  /\ IsTransaction(txs[n]) /\ ~is_genesis(txs[n])
                        /\ IF txs[n].sender = MinerAccount THEN txs[n].amount >= 1
                           ELSE Spares(txs[n])
      OBVIOUS
    <2> DEFINE i == txs[n].id
    <2>1. i \in UserVertices(g) /\ txs[n] = V[i]
      BY <1>6, <1>9
    <2> HIDE DEF i, V
    <2> QED BY <1>2, <1>3, <2>1
  <1>11. ASSUME Poor(d.faucet)
         PROVE  replay.ledger.balances[MinerAccount] = d.faucet[MinerAccount]
    <2>1. replay = Replay(d.faucet, txs)
      OBVIOUS
    <2> HIDE DEF replay
    <2> QED BY <1>6, <1>8, <1>10, <1>11, <2>1, PoorReplay
  <1> HIDE DEF replay
  <1> QED BY <1>4, <1>11 DEF Penniless

(* Nor does anything that a poor miner's hub accepts change its balance.    *)
LEMMA PoorAccept ==
    ASSUME MinesAlone, NEW d, ReplicaState(d, Vertices), KnownRoom(Vertices, d.faucet),
           Penniless(d), NEW t \in Vertices, NEW r, r = accept_wire_vertex(d, t)
    PROVE  Penniless(r.dag)
  <1> DEFINE g        == d.graph
             L        == d.ledger
             attached == attach_and_verify_tx(d, t)
             stored   == insert_graph_only(d, t)
             rebuilt  == resolve_conflicts_and_rebuild_ledger(stored.dag)
             e        == apply_ledger_effects(L, t)
  <1>1. \/ r.dag = d
        \/ r = attached
        \/ stored.verdict # "Ok" /\ r = stored
        \/ stored.verdict = "Ok" /\ r = rebuilt
    <2> HIDE DEF attached, stored, rebuilt
    <2> QED BY DEF accept_wire_vertex, attached, stored, rebuilt
  <1>2. /\ IsRecord(d) /\ GraphOK(g) /\ StoredFrom(g, Vertices) /\ LedgerOK(L, d.faucet)
        /\ L \in Ledgers /\ GenesisId \in VertexSet(g)
    BY DEF ReplicaState, ReplicaOK, LedgerOK, StoredFrom
  <1>3. /\ stored.verdict # "Ok" => stored.dag = d
        /\ stored.verdict = "Ok" =>
              /\ GraphVerdict(g, t) = "Ok"
              /\ stored.dag = [d EXCEPT !.graph = InsertVertex(g, t)]
    BY DEF insert_graph_only
  <1>4. Penniless(attached.dag)
    <2>1. CASE GraphVerdict(g, t) # "Ok" \/ SpendVerdict(L, t) # "Ok"
      <3>1. attached.dag = d
        BY <2>1 DEF attach_and_verify_tx
      <3> QED BY <3>1
    <2>2. CASE GraphVerdict(g, t) = "Ok" /\ SpendVerdict(L, t) = "Ok"
      <3>1. ~is_genesis(t)
        BY <1>2, <2>2, VerdictOk
      <3>2. \E h : attached.dag = [d EXCEPT !.graph = h, !.ledger = e.ledger]
        BY <2>2, <3>1 DEF attach_and_verify_tx
      <3>3. IsTransaction(t) /\ IF t.sender = MinerAccount THEN t.amount >= 1 ELSE Spares(t)
        BY VerticesKnown DEF KnownOK, MinesAlone, Spares
      <3> HIDE DEF attached
      <3>4. ASSUME L.balances[MinerAccount] < Need
            PROVE  e.ledger.balances[MinerAccount] = L.balances[MinerAccount]
        BY <1>2, <3>1, <3>3, <3>4, EffectSpares
      <3> HIDE DEF e
      <3>5. attached.dag.ledger = e.ledger /\ attached.dag.faucet = d.faucet
        BY <1>2, <3>2 DEF IsRecord
      <3> QED BY <3>4, <3>5 DEF Penniless, Poor
    <2> QED BY <2>1, <2>2
  <1>5. ASSUME stored.verdict = "Ok" PROVE Penniless(rebuilt.dag)
    <2> DEFINE s == stored.dag
    <2>1. s = [d EXCEPT !.graph = InsertVertex(g, t)] /\ GraphVerdict(g, t) = "Ok"
      BY <1>3, <1>5
    <2> HIDE DEF s
    <2>2. ReplicaState(s, Vertices)
      BY <2>1, VerticesKnown, StoredState
    <2>3. s.faucet = d.faucet
      BY <1>2, <2>1 DEF IsRecord
    <2>4. rebuilt = resolve_conflicts_and_rebuild_ledger(s)
      BY DEF s
    <2> HIDE DEF rebuilt
    <2> QED BY <2>2, <2>3, <2>4, PoorRebuild
  <1> HIDE DEF attached, stored, rebuilt
  <1> QED BY <1>1, <1>3, <1>4, <1>5

-----------------------------------------------------------------------------
(* The log, record by record.                                              *)

(* read_wal takes a record exactly if no record up to it is torn.           *)
LEMMA ReadPrefix ==
    ASSUME NEW log \in Seq(Records)
    PROVE  \A n \in DOMAIN log : n \in DOMAIN ReadWal(log) <=> \A m \in 1 .. n : log[m].whole
  <1> DEFINE torn == {n \in DOMAIN log : ~log[n].whole}
             k    == IF torn = {} THEN Len(log) ELSE Min(torn) - 1
             read == IF torn = {} THEN log ELSE SubSeq(log, 1, Min(torn) - 1)
  <1>1. Len(log) \in Nat /\ DOMAIN log = 1 .. Len(log)
    OBVIOUS
  <1>2. torn # {} => Min(torn) \in torn /\ \A n \in torn : Min(torn) <= n
    <2> SUFFICES ASSUME torn # {}
                 PROVE  Min(torn) \in torn /\ \A n \in torn : Min(torn) <= n
      OBVIOUS
    <2>1. torn \subseteq Nat
      BY <1>1
    <2> HIDE DEF torn
    <2>2. \E x \in torn : \A y \in torn : x <= y
      BY <2>1, LeastNat
    <2> QED BY <2>2 DEF Min
  <1>3. DOMAIN ReadWal(log) = DOMAIN read
    BY DEF ReadWal
  <1>4. CASE torn = {}
    <2>1. DOMAIN read = DOMAIN log
      BY <1>4
    <2> HIDE DEF read
    <2>2. \A n \in DOMAIN log : \A m \in 1 .. n : m \in DOMAIN log /\ m \notin torn
      BY <1>1, <1>4
    <2> QED BY <1>3, <2>1, <2>2
  <1>5. CASE torn # {}
    <2> DEFINE first == Min(torn)
    <2>1. first \in torn /\ \A n \in torn : first <= n
      BY <1>2, <1>5
    <2>2. first \in 1 .. Len(log) /\ ~log[first].whole
      BY <1>1, <2>1
    <2>3. read = SubSeq(log, 1, first - 1)
      BY <1>5
    <2> HIDE DEF first, read
    <2>4. DOMAIN read = 1 .. first - 1
      BY <1>1, <2>2, <2>3
    <2>5. ASSUME NEW n \in DOMAIN log, n < first, NEW m \in 1 .. n PROVE log[m].whole
      <3>1. m \in DOMAIN log /\ ~(first <= m)
        BY <1>1, <2>2, <2>5
      <3>2. m \notin torn
        BY <2>1, <3>1
      <3> QED BY <3>1, <3>2
    <2>6. ASSUME NEW n \in DOMAIN log, ~(n < first) PROVE first \in 1 .. n
      BY <1>1, <2>2, <2>6
    <2>7. \A n \in DOMAIN log : n \in 1 .. first - 1 <=> n < first
      BY <1>1, <2>2
    <2> HIDE DEF torn
    <2> QED BY <1>3, <2>2, <2>4, <2>5, <2>6, <2>7
  <1> QED BY <1>4, <1>5

(* One more record makes one more vertex readable at most.                  *)
LEMMA ReadMore ==
    ASSUME NEW log \in Seq(Records), NEW x \in Records, NEW more, more = Append(log, x)
    PROVE  ToSet(ReadWal(more)) \subseteq
              ToSet(ReadWal(log)) \cup (IF x.whole THEN {x.vertex} ELSE {})
  <1>1. /\ more \in Seq(Records) /\ Len(log) \in Nat
        /\ DOMAIN log = 1 .. Len(log) /\ DOMAIN more = 1 .. Len(log) + 1
        /\ \A n \in DOMAIN log : more[n] = log[n]
        /\ more[Len(log) + 1] = x
    OBVIOUS
  <1> SUFFICES ASSUME NEW n \in DOMAIN ReadWal(more)
               PROVE  \/ ReadWal(more)[n] \in ToSet(ReadWal(log))
                      \/ x.whole /\ ReadWal(more)[n] = x.vertex
    BY DEF ToSet
  <1>2. n \in DOMAIN more /\ more[n].whole /\ ReadWal(more)[n] = more[n].vertex
    BY <1>1, ReadFacts
  <1>3. CASE n = Len(log) + 1
    BY <1>1, <1>2, <1>3
  <1>4. CASE n # Len(log) + 1
    <2>1. n \in DOMAIN log
      BY <1>1, <1>2, <1>4
    <2>2. \A m \in 1 .. n : more[m].whole
      BY <1>1, <1>2, ReadPrefix
    <2>3. \A m \in 1 .. n : m \in DOMAIN log
      BY <1>1, <2>1
    <2>4. n \in DOMAIN ReadWal(log)
      BY <1>1, <2>1, <2>2, <2>3, ReadPrefix
    <2>5. ReadWal(log)[n] = log[n].vertex
      BY <2>4, ReadFacts
    <2> QED BY <1>1, <1>2, <2>1, <2>4, <2>5 DEF ToSet
  <1> QED BY <1>3, <1>4

(* A record that approves genesis alone is read back wherever it stands.    *)
LEMMA FirstShareKept ==
    ASSUME NEW log \in Seq(Records), NEW t \in ToSet(ReadWal(log)), FirstShare(t)
    PROVE  t.id \in InOrder(ReadWal(log))
  <1> DEFINE txs == ReadWal(log)
             N   == Len(txs)
  <1>1. N \in Nat /\ DOMAIN txs = 1 .. N
    BY ReadFacts
  <1>2. PICK i \in 1 .. N : txs[i] = t
    BY <1>1 DEF ToSet
  <1> HIDE DEF txs, N
  <1>3. PICK kept : IsKept(txs, N, kept)
    BY <1>1, KeptRun DEF N
  <1>4. /\ kept[0] = {GenesisId}
        /\ \A n \in 1 .. N :
              kept[n] = IF {txs[n].parent_1, txs[n].parent_2} \subseteq kept[n - 1]
                        THEN kept[n - 1] \cup {txs[n].id} ELSE kept[n - 1]
        /\ InOrder(txs) = kept[N]
    BY <1>3 DEF IsKept
  <1> DEFINE P(n) == GenesisId \in kept[n] /\ (n >= i => t.id \in kept[n])
             T == {n \in 0 .. N : P(n)}
  <1>5. 0 \in T
    <2>1. 0 \in 0 .. N /\ ~(0 >= i)
      BY <1>1
    <2> QED BY <1>4, <2>1
  <1>6. ASSUME NEW n \in 1 .. N, n - 1 \in T PROVE n \in T
    <2>1. P(n - 1) /\ n \in 0 .. N
      BY <1>1, <1>6
    <2>2. kept[n - 1] \subseteq kept[n]
      BY <1>4
    <2>3. CASE n = i
      <3>1. {txs[n].parent_1, txs[n].parent_2} \subseteq kept[n - 1]
        BY <1>2, <2>1, <2>3 DEF FirstShare
      <3>2. t.id \in kept[n]
        BY <1>2, <1>4, <2>3, <3>1
      <3> QED BY <2>1, <2>2, <3>2
    <2>4. CASE n # i
      <3>1. n >= i => n - 1 >= i
        BY <1>1, <2>4
      <3> QED BY <2>1, <2>2, <3>1
    <2> QED BY <2>3, <2>4
  <1>7. \A n \in 0 .. N : n \in T
    <2> HIDE DEF T
    <2> QED BY <1>1, <1>5, <1>6, IndexSetInduction
  <1>8. N \in 0 .. N /\ N >= i
    BY <1>1
  <1>9. P(N)
    <2> HIDE DEF P
    <2> QED BY <1>7, <1>8
  <1> QED BY <1>4, <1>8, <1>9 DEF txs

-----------------------------------------------------------------------------
(* The dust and the share it pays for.                                     *)

(* The threads that hold a vertex.                                          *)
Busy == {x \in Threads : pc[x] # "idle"}

(* The shares that a restart would read.                                    *)
ReadShares == {t \in ToSet(ReadWal(wal)) : t.sender = MinerAccount}

(* Threads and log hold shares that were mined; while the snapshot has no   *)
(* dust, these are all the first share.                                     *)
MinedInv ==
    /\ ~up => Busy = {}
    /\ \A x \in Busy : job[x].sender = MinerAccount => job[x] \in mined
    /\ \A n \in DOMAIN wal : wal[n].vertex.sender = MinerAccount => wal[n].vertex \in mined
    /\ Poor(snap) => \A t \in mined : FirstShare(t)

(* What threads carry is stored, and so is the first share, if it can be    *)
(* read from the log.                                                       *)
StoredInv ==
    up => /\ \A x \in Busy : job[x].id \in VertexSet(dag.graph)
          /\ Poor(snap) => \A t \in ReadShares : t.id \in VertexSet(dag.graph)

(* Between the credit of the dust and the first snapshot after it, the      *)
(* share it pays for is with the miner's thread and nowhere else.           *)
DustInv ==
    up /\ snap # dag.faucet =>
        /\ Poor(snap) /\ ReadShares = {}
        /\ Miner \in Threads /\ pc[Miner] = "dusted" /\ FirstShare(job[Miner])
        /\ \A x \in Busy \ {Miner} : job[x].sender # MinerAccount

FundInv == Penniless(dag) /\ MinedInv /\ StoredInv /\ DustInv

(* The dust is missing from the snapshot only where it was credited.        *)
LEMMA DustOnce ==
    ASSUME HubInv, DustInv, up, Poor(dag.faucet)
    PROVE  snap = dag.faucet
  <1> SUFFICES ASSUME snap # dag.faucet PROVE FALSE
    OBVIOUS
  <1>1. Poor(snap) /\ {dag.faucet, snap} \subseteq Faucets
    BY DEF DustInv, HubInv, DagInv
  <1>2. Need \in Nat /\ [InitialFaucet EXCEPT ![MinerAccount] = Need][MinerAccount] = Need
    BY HubPersistAssumption, EconomicsAssumption DEF Need
  <1>3. ~Poor([InitialFaucet EXCEPT ![MinerAccount] = Need])
    BY <1>2 DEF Poor
  <1> QED BY <1>1, <1>3 DEF Faucets

(* No share is read back without its funds.                                 *)
LEMMA FundInvSuffices == FundInv => LoggedSharesAreFunded
  BY DEF FundInv, DustInv, ReadShares, LoggedSharesAreFunded

(* Ingest.  A share that peers return while the dust is not yet saved is    *)
(* the first one, which the graph knows: it does not reach the log early.   *)
LEMMA IngestFunds ==
    ASSUME MinesAlone, OneFirstShare, HubInv, FundInv, NEW th \in Threads, Ingest(th)
    PROVE  FundInv'
  <1>1. PICK t \in Vertices :
           /\ t.sender = MinerAccount => t \in mined
           /\ dag' = accept_wire_vertex(dag, t).dag
           /\ IF IsNew(accept_wire_vertex(dag, t), t)
              THEN /\ pc' = [pc EXCEPT ![th] = "attached"]
                   /\ job' = [job EXCEPT ![th] = t]
              ELSE UNCHANGED <<pc, job>>
    BY DEF Ingest, Received, Available
  <1>2. /\ up /\ lock = NoThread /\ pc[th] = "idle" /\ th # Miner
        /\ wal' = wal /\ snap' = snap /\ up' = up /\ mined' = mined
    BY DEF Ingest
  <1> DEFINE r == accept_wire_vertex(dag, t)
  <1>3. IsAccept(dag, Vertices, t, r)
    BY VerticesKnown, FaucetRoom, AcceptState DEF HubInv, DagInv
  <1>4. Penniless(r.dag)
    BY VerticesKnown, FaucetRoom, PoorAccept DEF HubInv, DagInv, FundInv
  <1>5. dag' = r.dag /\ (IsNew(r, t) <=> r.verdict = "Ok")
    BY <1>1 DEF IsNew
  <1>n. IF r.verdict = "Ok"
        THEN pc' = [pc EXCEPT ![th] = "attached"] /\ job' = [job EXCEPT ![th] = t]
        ELSE pc' = pc /\ job' = job
    BY <1>1, <1>5
  <1> HIDE DEF r
  <1>6. dag'.faucet = dag.faucet /\ VertexSet(dag.graph) \subseteq VertexSet(dag'.graph)
    <2>1. r.dag.graph = InsertVertex(dag.graph, t) =>
             VertexSet(r.dag.graph) = VertexSet(dag.graph) \cup {t.id}
      BY InsertedFields
    <2> QED BY <1>3, <1>5, <2>1 DEF IsAccept
  <1>7. ReadShares' = ReadShares
    BY <1>2 DEF ReadShares
  <1>8. Penniless(dag')
    BY <1>4, <1>5
  <1>9. CASE r.verdict # "Ok"
    <2>1. pc' = pc /\ job' = job /\ Busy' = Busy
      BY <1>9, <1>n DEF Busy
    <2> QED BY <1>2, <1>6, <1>7, <1>8, <2>1
            DEF FundInv, MinedInv, StoredInv, DustInv, Penniless
  <1>10. CASE r.verdict = "Ok"
    <2>1. /\ pc'[th] = "attached" /\ job'[th] = t
          /\ \A x \in Threads \ {th} : pc'[x] = pc[x] /\ job'[x] = job[x]
      BY <1>10, <1>n DEF HubInv, ThreadInv
    <2>2. Busy' = Busy \cup {th} /\ th \notin Busy
      BY <1>2, <2>1 DEF Busy
    <2>3. t.id \notin VertexSet(dag.graph) /\ t.id \in VertexSet(dag'.graph)
      <3>1. GraphVerdict(dag.graph, t) = "Ok" /\ r.dag.graph = InsertVertex(dag.graph, t)
        BY <1>3, <1>10 DEF IsAccept
      <3> QED BY <1>5, <3>1, VerdictOk, InsertedFields
    <2>4. \A x \in Busy : x \in Threads /\ job'[x] = job[x] /\ pc'[x] = pc[x]
      BY <2>1, <2>2 DEF Busy
    <2>5. MinedInv'
      BY <1>1, <1>2, <2>1, <2>2, <2>4 DEF FundInv, MinedInv
    <2>6. StoredInv'
      BY <1>2, <1>6, <1>7, <2>1, <2>2, <2>3, <2>4 DEF FundInv, StoredInv
    <2>7. DustInv'
      <3> SUFFICES ASSUME snap # dag.faucet PROVE DustInv'
        BY <1>2, <1>6 DEF DustInv
      <3>1. /\ Poor(snap) /\ ReadShares = {}
            /\ Miner \in Threads /\ pc[Miner] = "dusted" /\ FirstShare(job[Miner])
            /\ \A x \in Busy \ {Miner} : job[x].sender # MinerAccount
        BY <1>2 DEF FundInv, DustInv
      <3>2. Miner \in Busy /\ job[Miner] \in Vertices
            /\ job[Miner].id \in VertexSet(dag.graph)
        BY <1>2, <3>1 DEF Busy, HubInv, ThreadInv, FundInv, StoredInv
      <3>3. t.sender # MinerAccount
        <4> SUFFICES ASSUME t.sender = MinerAccount PROVE FALSE
          OBVIOUS
        <4>1. FirstShare(t)
          BY <1>1, <3>1 DEF FundInv, MinedInv
        <4>2. t.id = job[Miner].id
          BY <3>1, <3>2, <4>1 DEF OneFirstShare
        <4> QED BY <2>3, <3>2, <4>2
      <3>4. pc'[Miner] = "dusted" /\ job'[Miner] = job[Miner]
        BY <2>4, <3>1, <3>2
      <3>5. \A x \in Busy' \ {Miner} : job'[x].sender # MinerAccount
        BY <2>1, <2>2, <2>4, <3>1, <3>3
      <3>6. Poor(snap') /\ FirstShare(job'[Miner])
        BY <1>2, <3>1, <3>4
      <3> QED BY <1>7, <3>1, <3>4, <3>5, <3>6 DEF DustInv
    <2> QED BY <1>8, <2>5, <2>6, <2>7 DEF FundInv, Penniless
  <1> QED BY <1>9, <1>10

(* A tick.  Dust is credited on genesis alone, where no share is stored, so *)
(* that none is in the log or with a thread; without dust the miner can pay *)
(* from what it holds, and its snapshot is up to date.                      *)
LEMMA MinerTickFunds ==
    ASSUME HubInv, FundInv, NEW th \in Threads, MinerTick(th)
    PROVE  FundInv'
  <1> DEFINE M     == MinerAccount
             dust  == Dust(dag)
             ready == credit_account(dag, M, dust)
             n     == Cardinality(VertexSet(dag.graph))
             held  == dag.ledger.balances[M]
  <1>1. PICK t \in Vertices :
           /\ t.sender = M
           /\ attach_and_verify_tx(ready, t).verdict = "Ok"
           /\ dag' = attach_and_verify_tx(ready, t).dag
           /\ pc' = [pc EXCEPT ![th] = AfterTick(dust)]
           /\ job' = [job EXCEPT ![th] = t]
           /\ mined' = mined \cup {t}
    BY DEF MinerTick, Available
  <1>2. /\ up /\ lock = NoThread /\ pc[th] = "idle" /\ th = Miner
        /\ wal' = wal /\ snap' = snap /\ up' = up
        /\ ready.ledger.balances[M] >= Need
    BY DEF MinerTick, Need
  <1>3. /\ ReplicaState(ready, Vertices) /\ ready.faucet \in Faucets
        /\ ready.graph = dag.graph
    BY DustState DEF HubInv
  <1>4. /\ M \in Address /\ U64_MAX \in Nat /\ Need \in Nat
        /\ ReplicaState(dag, Vertices) /\ dag.faucet \in [Address -> 0 .. U64_MAX]
        /\ dag.ledger \in Ledgers /\ dag.ledger.balances \in [Address -> 0 .. U64_MAX]
        /\ IsRecord(dag)
    <2>1. /\ ReplicaState(dag, Vertices) /\ dag.faucet \in Faucets
          /\ dag.ledger \in Ledgers /\ IsRecord(dag)
      BY DEF HubInv, DagInv, ReplicaState, ReplicaOK, LedgerOK
    <2> QED BY <2>1, HubPersistAssumption, EconomicsAssumption, FaucetRoom, LedgerFields
            DEF Need
  <1>5. held \in 0 .. U64_MAX /\ dag.faucet[M] \in 0 .. U64_MAX
    BY <1>4
  <1>6. dust = IF n <= 1 THEN SaturatingSub(Need, held) ELSE 0
    BY DEF Dust, Need
  <1>7. n <= 1 => VertexSet(dag.graph) = {GenesisId} /\ held = dag.faucet[M]
    <2>1. n <= 1 => VertexSet(dag.graph) = {GenesisId}
      BY <1>4, VerticesKnown, StoredFinite DEF ReplicaState
    <2> QED BY <2>1 DEF HubInv, DagInv, Fresh
  <1>8. dust # 0 => /\ VertexSet(dag.graph) = {GenesisId}
                    /\ dag.faucet[M] < Need /\ dust = Need - dag.faucet[M] /\ dust > 0
    <2> HIDE DEF n, dust, held
    <2> QED BY <1>4, <1>5, <1>6, <1>7 DEF SaturatingSub
  <1>9. /\ ready.ledger.balances[M] = SaturatingAdd(held, dust)
        /\ ready.faucet = [dag.faucet EXCEPT ![M] = SaturatingAdd(@, dust)]
    <2> HIDE DEF dust
    <2> DEFINE new == [dag.ledger.balances EXCEPT ![M] = SaturatingAdd(@, dust)]
               led == [dag.ledger EXCEPT !.balances = new]
               fau == [dag.faucet EXCEPT ![M] = SaturatingAdd(@, dust)]
    <2>1. ready = [dag EXCEPT !.ledger = led, !.faucet = fau]
      BY <1>4 DEF credit_account, IsRecord, Ledgers
    <2>2. new[M] = SaturatingAdd(held, dust)
      BY <1>4
    <2> HIDE DEF new, fau
    <2>3. led.balances = new
      BY <1>4 DEF Ledgers
    <2> HIDE DEF led, held
    <2>4. ready.ledger = led /\ ready.faucet = fau
      BY <1>4, <2>1 DEF IsRecord
    <2> QED BY <2>2, <2>3, <2>4 DEF fau
  <1>10. dust = 0 => ready.ledger.balances[M] = held /\ ready.faucet = dag.faucet
    <2> HIDE DEF ready, dust
    <2> QED BY <1>4, <1>5, <1>9 DEF SaturatingAdd
  <1>d. dust \in Nat /\ AfterTick(dust) = IF dust > 0 THEN "dusted" ELSE "attached"
    <2> HIDE DEF dust
    <2> QED BY <1>4, <1>5, <1>8 DEF AfterTick
  <1> HIDE DEF ready, dust, n
  <1> DEFINE r == attach_and_verify_tx(ready, t)
  <1>11. IsAttach(ready, Vertices, t, r)
    BY <1>3, VerticesKnown, FaucetRoom, AttachState
  <1>12. dag' = r.dag /\ r.verdict = "Ok"
    BY <1>1
  <1> HIDE DEF r
  <1>13. /\ dag'.graph = InsertVertex(dag.graph, t) /\ GraphVerdict(dag.graph, t) = "Ok"
         /\ dag'.faucet = ready.faucet
    BY <1>3, <1>11, <1>12 DEF IsAttach
  <1>14. VertexSet(dag'.graph) = VertexSet(dag.graph) \cup {t.id}
    BY <1>13, InsertedFields
  <1>15. snap = dag.faucet
    BY <1>2 DEF FundInv, DustInv
  <1>16. dust = 0 => ~Poor(dag.faucet)
    BY <1>2, <1>4, <1>5, <1>10 DEF FundInv, Penniless, Poor
  <1>17. ASSUME dust # 0 PROVE FirstShare(t) /\ ~Poor(ready.faucet)
    <2>1. {t.parent_1, t.parent_2} = {GenesisId}
      <3>1. ~is_genesis(t)
        BY <1>8, <1>13, <1>17, VerdictOk
      <3>2. {t.parent_1, t.parent_2} \subseteq {GenesisId}
        BY <1>8, <1>13, <1>17, <3>1, VerdictOk
      <3> QED BY <3>2
    <2>2. ready.faucet[M] = SaturatingAdd(dag.faucet[M], dust)
      BY <1>4, <1>9
    <2>3. dag.faucet[M] + dust = Need
      BY <1>4, <1>5, <1>8, <1>17
    <2>4. SaturatingAdd(dag.faucet[M], dust) = Need
      <3>1. Need <= U64_MAX
        <4>1. ready.faucet[M] \in 0 .. U64_MAX /\ ready.ledger.balances[M] <= U64_MAX
              /\ ready.ledger.balances[M] \in Nat
          <5>1. ready.ledger \in Ledgers /\ ready.faucet \in [Address -> 0 .. U64_MAX]
            BY <1>3 DEF ReplicaState, LedgerOK
          <5>2. ready.ledger.balances \in [Address -> 0 .. U64_MAX]
            BY <5>1, LedgerFields
          <5> QED BY <1>4, <5>1, <5>2
        <4> QED BY <1>2, <1>4, <4>1
      <3> QED BY <1>4, <2>3, <3>1 DEF SaturatingAdd
    <2> QED BY <1>1, <1>4, <2>1, <2>2, <2>4 DEF FirstShare, Poor
  <1>18. Penniless(dag')
    BY <1>10, <1>13, <1>16, <1>17 DEF Penniless
  <1>19. /\ pc'[th] = AfterTick(dust) /\ job'[th] = t
         /\ \A x \in Threads \ {th} : pc'[x] = pc[x] /\ job'[x] = job[x]
    BY <1>1 DEF HubInv, ThreadInv
  <1>20. /\ Busy' = Busy \cup {th} /\ th \notin Busy
         /\ \A x \in Busy : x \in Threads /\ job'[x] = job[x]
    <2>1. AfterTick(dust) # "idle"
      BY <1>d
    <2> QED BY <1>2, <1>19, <2>1 DEF Busy
  <1>21. ReadShares' = ReadShares
    BY <1>2 DEF ReadShares
  <1>22. MinedInv'
    <2>1. Poor(snap) => FirstShare(t)
      BY <1>15, <1>16, <1>17
    <2> QED BY <1>1, <1>2, <1>19, <1>20, <2>1 DEF FundInv, MinedInv
  <1>23. StoredInv'
    BY <1>2, <1>14, <1>19, <1>20, <1>21 DEF FundInv, StoredInv
  <1>24. DustInv'
    <2> SUFFICES ASSUME snap # dag'.faucet PROVE DustInv'
      BY <1>2 DEF DustInv
    <2>1. dust # 0
      BY <1>10, <1>13, <1>15
    <2>2. Poor(snap) /\ VertexSet(dag.graph) = {GenesisId} /\ pc'[th] = "dusted"
      BY <1>8, <1>15, <1>19, <1>d, <2>1 DEF Poor
    <2>3. \A u \in Vertices : u.id # GenesisId
      BY VerticesKnown DEF KnownOK
    <2>4. ReadShares = {}
      <3>1. \A u \in ReadShares : u \in Vertices
        <4>1. wal \in Seq(Records)
          BY DEF HubInv, ThreadInv
        <4> QED BY <4>1, ReadFacts DEF ReadShares, ToSet
      <3> QED BY <1>2, <2>2, <2>3, <3>1 DEF FundInv, StoredInv
    <2>5. Busy = {}
      <3>1. \A x \in Busy : job[x] \in Vertices
        BY DEF Busy, HubInv, ThreadInv
      <3> QED BY <1>2, <2>2, <2>3, <3>1 DEF FundInv, StoredInv
    <2>6. FirstShare(job'[Miner]) /\ Poor(snap')
      BY <1>2, <1>17, <1>19, <2>1, <2>2
    <2> QED BY <1>2, <1>20, <1>21, <2>2, <2>4, <2>5, <2>6 DEF DustInv
  <1> QED BY <1>18, <1>22, <1>23, <1>24 DEF FundInv, Penniless

(* Persisting.  While the dust is not saved, no thread but the miner's has  *)
(* a share to log, and the miner's saves the dust first.                    *)
LEMMA PersistFunds ==
    ASSUME HubInv, FundInv, NEW th \in Threads,
           SnapshotDust(th) \/ AppendVertex(th) \/ WriteSnapshot(th)
    PROVE  FundInv'
  <1>u. up /\ up' = up /\ mined' = mined /\ dag' = dag
    BY DEF SnapshotDust, AppendVertex, WriteSnapshot
  <1>s. Poor(dag.faucet) => snap = dag.faucet
    BY <1>u, DustOnce DEF FundInv
  <1>1. CASE SnapshotDust(th)
    <2>1. /\ job' = job /\ wal' = wal /\ snap' = dag.faucet /\ pc[th] = "dusted"
          /\ pc' = [pc EXCEPT ![th] = "attached"]
      BY <1>1 DEF SnapshotDust, from_dag_with_faucet
    <2>2. Busy' = Busy /\ ReadShares' = ReadShares
      BY <2>1 DEF HubInv, ThreadInv, Busy, ReadShares
    <2> QED BY <1>u, <1>s, <2>1, <2>2
            DEF FundInv, MinedInv, StoredInv, DustInv, Penniless
  <1>2. CASE WriteSnapshot(th)
    <2>1. /\ wal' = wal /\ snap' = dag.faucet /\ pc[th] = "logged"
          /\ pc' = [pc EXCEPT ![th] = "idle"]
          /\ job' = [job EXCEPT ![th] = signed_genesis_tx]
      BY <1>2 DEF WriteSnapshot, from_dag_with_faucet
    <2>2. /\ Busy' \subseteq Busy /\ ReadShares' = ReadShares
          /\ \A x \in Busy' : job'[x] = job[x]
      BY <2>1 DEF HubInv, ThreadInv, Busy, ReadShares
    <2> QED BY <1>u, <1>s, <2>1, <2>2
            DEF FundInv, MinedInv, StoredInv, DustInv, Penniless
  <1>3. CASE AppendVertex(th)
    <2> DEFINE x    == Record(job[th], TRUE)
               more == Append(wal, x)
    <2>1. /\ job' = job /\ snap' = snap /\ pc[th] = "attached"
          /\ wal' = more /\ pc' = [pc EXCEPT ![th] = "logged"]
      BY <1>3 DEF AppendVertex
    <2>2. x \in Records /\ wal \in Seq(Records) /\ x.whole /\ x.vertex = job[th]
      BY <2>1 DEF HubInv, ThreadInv, Record, Records
    <2>3. Busy' = Busy /\ th \in Busy /\ (th = Miner => pc[Miner] # "dusted")
      BY <2>1 DEF HubInv, ThreadInv, Busy
    <2> HIDE DEF x
    <2>4. more = Append(wal, x)
      OBVIOUS
    <2> HIDE DEF more
    <2>5. ToSet(ReadWal(more)) \subseteq ToSet(ReadWal(wal)) \cup {job[th]}
      BY <2>2, <2>4, ReadMore
    <2>6. \A n \in DOMAIN more : (n \in DOMAIN wal /\ more[n] = wal[n]) \/ more[n] = x
      BY <2>2, <2>4
    <2>7. ReadShares' \subseteq ReadShares \cup {job[th]}
      BY <2>1, <2>5 DEF ReadShares
    <2>8. MinedInv'
      BY <1>u, <2>1, <2>2, <2>3, <2>6 DEF FundInv, MinedInv
    <2>9. StoredInv'
      BY <1>u, <2>1, <2>3, <2>7 DEF FundInv, StoredInv
    <2>10. DustInv'
      <3> SUFFICES ASSUME snap # dag.faucet PROVE DustInv'
        BY <1>u, <2>1 DEF DustInv
      <3>1. /\ Poor(snap) /\ ReadShares = {}
            /\ Miner \in Threads /\ pc[Miner] = "dusted" /\ FirstShare(job[Miner])
            /\ \A y \in Busy \ {Miner} : job[y].sender # MinerAccount
        BY <1>u DEF FundInv, DustInv
      <3>2. th # Miner /\ pc'[Miner] = "dusted"
        BY <2>1, <2>3, <3>1 DEF HubInv, ThreadInv
      <3>3. ReadShares' = {}
        <4>1. job[th].sender # MinerAccount
          BY <2>3, <3>1, <3>2
        <4>2. \A t \in ReadShares' : t.sender = MinerAccount
          BY DEF ReadShares
        <4> QED BY <2>7, <3>1, <4>1, <4>2
      <3> QED BY <2>1, <2>3, <3>1, <3>2, <3>3 DEF DustInv
    <2> QED BY <1>u, <2>8, <2>9, <2>10 DEF FundInv, Penniless
  <1> QED BY <1>1, <1>2, <1>3

(* A crash leaves at most the torn record of a vertex that was carried.     *)
LEMMA CrashFunds ==
    ASSUME HubInv, FundInv, Crash
    PROVE  FundInv'
  <1>1. /\ up /\ ~up' /\ dag' = dag /\ snap' = snap /\ pc' = Idle /\ mined' = mined
    BY DEF Crash
  <1>2. Busy' = {}
    BY <1>1 DEF Busy, Idle
  <1>3. \A n \in DOMAIN wal' : wal'[n].vertex.sender = MinerAccount => wal'[n].vertex \in mined
    <2>1. CASE wal' = wal
      BY <2>1 DEF FundInv, MinedInv
    <2>2. ASSUME NEW th \in Threads, pc[th] = "attached",
                 wal' = Append(wal, Record(job[th], FALSE))
          PROVE  \A n \in DOMAIN wal' :
                    wal'[n].vertex.sender = MinerAccount => wal'[n].vertex \in mined
      <3> DEFINE x    == Record(job[th], FALSE)
                 more == Append(wal, x)
      <3>1. x \in Records /\ wal \in Seq(Records) /\ x.vertex = job[th] /\ th \in Busy
        BY <2>2 DEF HubInv, ThreadInv, Record, Records, Busy
      <3> HIDE DEF x
      <3>2. \A n \in DOMAIN more : (n \in DOMAIN wal /\ more[n] = wal[n]) \/ more[n] = x
        BY <3>1
      <3>3. wal' = more
        BY <2>2 DEF x
      <3> HIDE DEF more
      <3> QED BY <3>1, <3>2, <3>3 DEF FundInv, MinedInv
    <2> QED BY <2>1, <2>2 DEF Crash
  <1> QED BY <1>1, <1>2, <1>3 DEF FundInv, MinedInv, StoredInv, DustInv, Penniless

(* A log over poor credits is read back with the miner as poor.             *)
LEMMA LoadFunds ==
    ASSUME MinesAlone, NEW log \in Seq(Records), NEW faucet \in Faucets,
           NEW d, Loads(log, faucet, d)
    PROVE  Penniless(d)
  <1> DEFINE txs     == ReadWal(log)
             before  == Recovered(txs, faucet).dag
             rebuilt == resolve_conflicts_and_rebuild_ledger(before)
  <1>1. txs \in Seq(Vertices)
    <2> HIDE DEF txs
    <2>1. /\ Len(txs) \in Nat /\ DOMAIN txs = 1 .. Len(txs)
          /\ \A n \in DOMAIN txs : txs[n] \in Vertices
      BY ReadFacts DEF txs
    <2>2. \E k \in Nat : txs = [n \in 1 .. k |-> txs[n]]
      <3> DEFINE torn == {n \in DOMAIN log : ~log[n].whole}
                 read == IF torn = {} THEN log ELSE SubSeq(log, 1, Min(torn) - 1)
      <3>1. txs = [n \in DOMAIN read |-> read[n].vertex]
        BY DEF ReadWal, txs
      <3> HIDE DEF read
      <3>2. txs = [n \in DOMAIN txs |-> txs[n]]
        BY <3>1
      <3> QED BY <2>1, <3>2
    <2> QED BY <2>1, <2>2
  <1>2. d = rebuilt.dag
    BY DEF Loads
  <1>3. ReplicaState(before, Vertices) /\ before.faucet = faucet
    <2> HIDE DEF txs
    <2> QED BY <1>1, VerticesKnown, FaucetRoom, RecoveredState
  <1> HIDE DEF before, txs
  <1>4. Penniless(rebuilt.dag)
    BY <1>3, FaucetRoom, PoorRebuild
  <1> QED BY <1>2, <1>4

(* A restart over a snapshot without dust reads the first share back if it  *)
(* was logged, as that approves nothing but genesis.                        *)
LEMMA BootFunds ==
    ASSUME MinesAlone, HubInv, FundInv, Boot
    PROVE  FundInv'
  <1>1. /\ ~up /\ up' /\ Loads(wal, snap, dag') /\ snap' = dag'.faucet
        /\ pc' = pc /\ job' = job /\ wal' = wal /\ mined' = mined
    BY DEF Boot, from_dag_with_faucet
  <1>2. wal \in Seq(Records) /\ snap \in Faucets
    BY DEF HubInv, DagInv, ThreadInv
  <1>3. IsLoaded(wal, snap, dag')
    BY <1>1, <1>2, LoadFacts
  <1>4. Penniless(dag')
    BY <1>1, <1>2, LoadFunds
  <1>5. snap' = snap /\ VertexSet(dag'.graph) = InOrder(ReadWal(wal))
    BY <1>1, <1>3 DEF IsLoaded
  <1>6. Busy = {} /\ Busy' = Busy /\ ReadShares' = ReadShares
    BY <1>1 DEF FundInv, MinedInv, Busy, ReadShares
  <1>7. ASSUME Poor(snap), NEW t \in ReadShares PROVE t.id \in VertexSet(dag'.graph)
    <2>1. t \in ToSet(ReadWal(wal)) /\ t.sender = MinerAccount
      BY DEF ReadShares
    <2>2. t \in mined
      <3>1. PICK n \in DOMAIN ReadWal(wal) : t = ReadWal(wal)[n]
        BY <2>1 DEF ToSet
      <3>2. n \in DOMAIN wal /\ t = wal[n].vertex
        BY <1>2, <3>1, ReadFacts
      <3> QED BY <2>1, <3>2 DEF FundInv, MinedInv
    <2>3. FirstShare(t)
      BY <1>7, <2>2 DEF FundInv, MinedInv
    <2> QED BY <1>2, <1>5, <2>1, <2>3, FirstShareKept
  <1>8. MinedInv'
    BY <1>1, <1>5, <1>6 DEF FundInv, MinedInv
  <1>9. StoredInv'
    BY <1>1, <1>5, <1>6, <1>7 DEF StoredInv
  <1>10. DustInv'
    BY <1>1 DEF DustInv
  <1> QED BY <1>4, <1>8, <1>9, <1>10 DEF FundInv, Penniless

(* Nothing is mined before the hub starts.                                  *)
LEMMA FundInit ==
    ASSUME MinesAlone, Init
    PROVE  FundInv
  <1>1. InitialFaucet \in Faucets /\ <<>> \in Seq(Records)
    BY DEF Faucets
  <1>2. IsLoaded(<<>>, InitialFaucet, dag) /\ Penniless(dag)
    BY <1>1, LoadFacts, LoadFunds DEF Init
  <1>3. up /\ mined = {} /\ Busy = {} /\ wal = <<>> /\ snap = dag.faucet
    BY <1>2 DEF Init, Busy, Idle, IsLoaded
  <1>4. ReadShares = {}
    <2>1. \A n \in DOMAIN ReadWal(<<>>) : n \in DOMAIN <<>>
      BY <1>1, ReadFacts
    <2>2. \A t \in ToSet(ReadWal(<<>>)) : \E n \in DOMAIN ReadWal(<<>>) : TRUE
      BY DEF ToSet
    <2> QED BY <1>3, <2>1, <2>2 DEF ReadShares
  <1> QED BY <1>2, <1>3, <1>4 DEF FundInv, MinedInv, StoredInv, DustInv

(* Every step keeps the dust and the share it pays for together.            *)
LEMMA FundStep ==
    ASSUME MinesAlone, OneFirstShare, HubInv, FundInv, [Next]_vars
    PROVE  FundInv'
  <1>1. CASE \E th \in Threads : Ingest(th)
    BY <1>1, IngestFunds
  <1>2. CASE \E th \in Threads : MinerTick(th)
    BY <1>2, MinerTickFunds
  <1>3. CASE \E th \in Threads : SnapshotDust(th) \/ AppendVertex(th) \/ WriteSnapshot(th)
    BY <1>3, PersistFunds
  <1>4. CASE Crash
    BY <1>4, CrashFunds
  <1>5. CASE Boot
    BY <1>5, BootFunds
  <1>6. CASE UNCHANGED vars
    BY <1>6 DEF vars, FundInv, Penniless, MinedInv, StoredInv, DustInv, Busy, ReadShares
  <1> QED BY <1>1, <1>2, <1>3, <1>4, <1>5, <1>6 DEF Next

-----------------------------------------------------------------------------
(* Through every interleaving of sessions, miner and persisting threads,    *)
(* and every crash and restart, the replica in memory is in order and the   *)
(* lock is held by the one thread that has logged and not yet saved.        *)
THEOREM HubInvariant == Spec => []HubInv
  <1> QED BY HubInit, HubStep, PTL DEF Spec

(* The replica, the program counters, the lock and the snapshot keep their  *)
(* types.                                                                   *)
THEOREM TypeTheorem == Spec => []TypeOK
  <1>1. HubInv => TypeOK
    <2> SUFFICES ASSUME HubInv PROVE TypeOK
      OBVIOUS
    <2>1. IsReplica(dag)
      BY VerticesKnown, FaucetRoom, ReplicaTyped DEF HubInv, DagInv
    <2>2. snap \in [Address -> 0 .. U64_MAX]
      BY FaucetRoom DEF HubInv, DagInv
    <2> QED BY <2>1, <2>2 DEF HubInv, ThreadInv, TypeOK
  <1> QED BY <1>1, HubInvariant, PTL

(* Whatever happens between attach and append: each vertex a running hub    *)
(* stores is in its log, or in the hands of a thread that will log it.      *)
(* Conflict losers too, whose ingest reports success after a rebuild; an    *)
(* amount beyond 64 bits would stop that rebuild and hide the storage.      *)
THEOREM NothingForgottenTheorem ==
    ASSUME Payable(Vertices) PROVE Spec => []NothingForgotten
  <1>1. HubInv /\ NothingForgotten /\ [Next]_vars => NothingForgotten'
    BY HubStep
  <1> QED BY <1>1, HubInit, HubInvariant, PTL DEF Spec

(* A restart brings back the vertices that were logged after their parents, *)
(* up to the first torn record: these and no others.                        *)
THEOREM RestartTheorem == Spec => RestartRestoresOrderedPrefix
  <1>1. HubInv /\ [Next]_vars =>
          [Boot => VertexSet(dag'.graph) = InOrder(ReadWal(wal))]_vars
    BY BootKeeps
  <1> QED BY <1>1, HubInvariant, PTL DEF Spec, RestartRestoresOrderedPrefix

(* Wherever the process dies, and whatever peers send while the dust is     *)
(* only in memory: no share of the miner is read back without its funds.    *)
(* The miner is its account's only source of income, and signs one share    *)
(* per fresh graph: on genesis alone it always composes the same one.       *)
THEOREM FundedTheorem ==
    ASSUME MinesAlone, OneFirstShare PROVE Spec => []LoggedSharesAreFunded
  <1>1. Init => FundInv
    BY FundInit
  <1>2. HubInv /\ FundInv /\ [Next]_vars => FundInv'
    BY FundStep
  <1> QED BY <1>1, <1>2, FundInvSuffices, HubInvariant, PTL DEF Spec

(* A hub that met no conflict and logged in attach order loses nothing by a *)
(* restart: the replica that is read back is the one that died, with its    *)
(* weights, balances, nonces, relay credits and supply.  A rebuild replays  *)
(* no genesis, so the genesis key must have signed none of the vertices,    *)
(* and an amount beyond 64 bits would stop it.                              *)
THEOREM QuietRestartTheorem ==
    ASSUME Payable(Vertices), GenesisSilent(Vertices)
    PROVE  Spec => QuietRestartKeepsReplica
  <1>1. Init => KeptInv
    <2> SUFFICES ASSUME Init PROVE KeptInv
      OBVIOUS
    <2>1. <<>> \in Seq(Records) /\ InitialFaucet \in Faucets
      BY DEF Faucets
    <2> QED BY <2>1, LoadKept DEF Init, KeptInv
  <1>2. HubInv /\ KeptInv /\ [Next]_vars => KeptInv'
    BY KeptStep
  <1>3. HubInv /\ KeptInv /\ [Next]_vars =>
          [/\ Boot
           /\ Quiet(dag)
           /\ snap = dag.faucet
           /\ ReadWal(wal) = transactions_for_in_order(dag.graph, StoredIds)
           => dag' = dag]_vars
    BY BootKept
  <1> QED BY <1>1, <1>2, <1>3, HubInvariant, PTL DEF Spec, QuietRestartKeepsReplica

=============================================================================
