--------------------------- MODULE PhoneMeetupProofs ---------------------------
(***************************************************************************)
(* The relay phone keeps its promise of CarrierStore whatever the phones    *)
(* around it do, for any capacity of its mempool and any vertices.  And the *)
(* offline merge: whatever the phones hand each other, a replica stays a    *)
(* replica, and its ledger is that of the vertices that count.              *)
(***************************************************************************)
EXTENDS PhoneMeetup, ReplicaProofs

(* What the owner pushes, and what that becomes when it is signed.          *)
SignedVertices == {relay_intercept_and_sign(t) : t \in Handed}

RelayInv ==
    /\ inbound \in Seq(Handed)
    /\ mempool \in Seq(SignedVertices)
    /\ flush_ready \in Seq(SignedVertices)
    /\ taken \in Seq(SignedVertices)

(* The steps of PhoneMeetup as the relay phone sees them.                   *)
RelayStep ==
    \/ \E t \in Handed : push_inbound(t)
    \/ set_global_link_up
    \/ request_stop
    \/ start_wallet_relay_mode
    \/ wallet_relay_step
    \/ take_flush
    \/ UNCHANGED relay_vars

-----------------------------------------------------------------------------
(* Every step of the phone is a step of its relay state.                    *)
LEMMA StepsOfThePhone == [Next]_vars => RelayStep
  <1>1. CASE UNCHANGED vars
    BY <1>1 DEF vars, RelayStep
  <1>2. ASSUME NEW p \in Phones, Attach(p) PROVE RelayStep
    BY <1>2 DEF Attach, RelayStep
  <1>3. ASSUME NEW p \in Phones, NEW q \in Phones, Meet(p, q) PROVE RelayStep
    BY <1>3 DEF Meet, RelayStep
  <1>4. CASE Hand
    BY <1>4 DEF Hand, RelayStep
  <1>5. CASE StartRelayMode
    BY <1>5 DEF StartRelayMode, RelayStep
  <1>6. CASE Relay
    BY <1>6 DEF Relay, RelayStep
  <1>7. CASE Deposit
    BY <1>7 DEF Deposit, RelayStep
  <1>8. CASE DepositAsRelay
    BY <1>8 DEF DepositAsRelay, RelayStep
  <1> QED
    BY <1>1, <1>2, <1>3, <1>4, <1>5, <1>6, <1>7, <1>8 DEF Next

(* Signing keeps a queue's length and order.                                *)
LEMMA InterceptedType ==
    ASSUME NEW s \in Seq(Handed)
    PROVE  /\ Intercepted(s) \in Seq(SignedVertices)
           /\ Len(Intercepted(s)) = Len(s)
           /\ \A n \in 1 .. Len(s) : Intercepted(s)[n] = relay_intercept_and_sign(s[n])
  <1> DEFINE signed(n) == relay_intercept_and_sign(s[n])
  <1>1. DOMAIN s = 1 .. Len(s) /\ Len(s) \in Nat
    BY LenProperties
  <1>2. \A n \in 1 .. Len(s) : s[n] \in Handed
    BY ElementOfSeq
  <1>3. Intercepted(s) = [n \in 1 .. Len(s) |-> signed(n)]
    BY <1>1 DEF Intercepted
  <1>4. \A n \in 1 .. Len(s) : signed(n) \in SignedVertices
    BY <1>2 DEF SignedVertices
  <1> HIDE DEF signed
  <1>5. Intercepted(s) \in [1 .. Len(s) -> SignedVertices]
    BY <1>3, <1>4
  <1>6. Intercepted(s) \in Seq(SignedVertices) /\ Len(Intercepted(s)) = Len(s)
    BY <1>1, <1>5
  <1>7. \A n \in 1 .. Len(s) : Intercepted(s)[n] = signed(n)
    BY <1>3
  <1> QED
    BY <1>6, <1>7 DEF signed

(* An empty channel carries nothing for the mempool.                        *)
LEMMA InterceptedEmpty == Intercepted(<<>>) = <<>>
  <1>1. <<>> \in Seq(Handed) /\ Len(<<>>) = 0
    BY EmptySeq
  <1>2. Intercepted(<<>>) \in Seq(SignedVertices) /\ Len(Intercepted(<<>>)) = 0
    BY <1>1, InterceptedType
  <1> QED
    BY <1>2, EmptySeq

(* The newest of a queue are a queue of the same vertices.                  *)
LEMMA KeptType ==
    ASSUME NEW s \in Seq(SignedVertices)
    PROVE  Kept(s) \in Seq(SignedVertices) /\ Kept(s) = Carried!Newest(s)
  <1>1. Len(s) \in Nat /\ RELAY_MEMPOOL_CAP \in Nat \ {0}
    BY LenProperties, WalletRelayAssumption
  <1>2. \A n \in 1 .. Len(s) : s[n] \in SignedVertices
    BY ElementOfSeq
  <1>3. CASE Len(s) <= RELAY_MEMPOOL_CAP
    BY <1>3 DEF Kept, Carried!Newest
  <1>4. CASE ~(Len(s) <= RELAY_MEMPOOL_CAP)
    <2> DEFINE first == Len(s) - RELAY_MEMPOOL_CAP + 1
    <2>1. first \in Int /\ first >= 1
      BY <1>1, <1>4
    <2>2. \A n \in first .. Len(s) : s[n] \in SignedVertices
      BY <1>1, <1>2, <2>1
    <2> HIDE DEF first
    <2>3. SubSeq(s, first, Len(s)) \in Seq(SignedVertices)
      BY <1>1, <2>1, <2>2, SubSeqProperties
    <2>4. Kept(s) = SubSeq(s, first, Len(s))
      BY <1>4 DEF Kept, first
    <2> QED
      BY <2>3, <2>4 DEF Kept, Carried!Newest
  <1> QED
    BY <1>3, <1>4

-----------------------------------------------------------------------------
(* The relay invariant holds at the start.                                  *)
LEMMA RelayInvInit == Init => RelayInv
  BY EmptySeq DEF Init, RelayInit, RelayInv

(* Every step keeps the relay invariant.                                    *)
LEMMA RelayInvStep == RelayInv /\ RelayStep => RelayInv'
  <1> SUFFICES ASSUME RelayInv, RelayStep PROVE RelayInv'
    OBVIOUS
  <1> USE DEF RelayInv
  <1>1. ASSUME NEW t \in Handed, push_inbound(t) PROVE RelayInv'
    BY <1>1 DEF push_inbound
  <1>2. CASE wallet_relay_step
    <2>1. mempool \o Intercepted(inbound) \in Seq(SignedVertices)
      BY InterceptedType, ConcatProperties
    <2> DEFINE pool == Kept(mempool \o Intercepted(inbound))
    <2>2. pool \in Seq(SignedVertices)
      BY <2>1, KeptType
    <2> HIDE DEF pool
    <2>3. flush_ready \o pool \in Seq(SignedVertices)
      BY <2>2, ConcatProperties
    <2>4. /\ inbound' = <<>>
          /\ mempool' \in {<<>>, pool}
          /\ flush_ready' \in {flush_ready \o pool, flush_ready}
          /\ taken' = taken
      BY <1>2 DEF wallet_relay_step, pool
    <2> QED
      BY <2>2, <2>3, <2>4, EmptySeq
  <1>3. CASE take_flush
    BY <1>3, ConcatProperties, EmptySeq DEF take_flush
  <1>4. CASE set_global_link_up
    BY <1>4 DEF set_global_link_up, queues
  <1>5. CASE request_stop
    BY <1>5 DEF request_stop, queues
  <1>6. CASE start_wallet_relay_mode
    BY <1>6 DEF start_wallet_relay_mode, queues
  <1>7. CASE UNCHANGED relay_vars
    BY <1>7 DEF relay_vars
  <1> QED
    BY <1>1, <1>2, <1>3, <1>4, <1>5, <1>6, <1>7 DEF RelayStep

-----------------------------------------------------------------------------
(* One step of the phone is one step of the store, or none.                 *)
LEMMA StoreInit == Init => Carried!Init
  BY InterceptedEmpty, EmptySeq, ConcatEmptySeq DEF Init, RelayInit, Carried!Init

(* Taking a vertex in carry mode is a step of the abstract store.           *)
LEMMA PushTakes ==
    ASSUME RelayInv, NEW t \in Handed, push_inbound(t)
    PROVE  Carried!Take
  <1> DEFINE old == mempool \o Intercepted(inbound)
             new == mempool \o Intercepted(Append(inbound, t))
  <1>1. Append(inbound, t) \in Seq(Handed) /\ Len(Append(inbound, t)) = Len(inbound) + 1
    BY DEF RelayInv
  <1>2. \A n \in 1 .. Len(inbound) : Append(inbound, t)[n] = inbound[n]
    BY DEF RelayInv
  <1>3. /\ Len(inbound) \in Nat /\ Len(mempool) \in Nat
        /\ mempool \in Seq(SignedVertices)
    BY LenProperties DEF RelayInv
  <1>4. /\ Intercepted(inbound) \in Seq(SignedVertices)
        /\ Len(Intercepted(inbound)) = Len(inbound)
        /\ Intercepted(Append(inbound, t)) \in Seq(SignedVertices)
        /\ Len(Intercepted(Append(inbound, t))) = Len(inbound) + 1
        /\ \A n \in 1 .. Len(inbound) :
              Intercepted(Append(inbound, t))[n] = Intercepted(inbound)[n]
    <2>1. /\ Intercepted(inbound) \in Seq(SignedVertices)
          /\ Len(Intercepted(inbound)) = Len(inbound)
          /\ \A n \in 1 .. Len(inbound) :
                Intercepted(inbound)[n] = relay_intercept_and_sign(inbound[n])
      BY InterceptedType DEF RelayInv
    <2>2. /\ Intercepted(Append(inbound, t)) \in Seq(SignedVertices)
          /\ Len(Intercepted(Append(inbound, t))) = Len(inbound) + 1
          /\ \A n \in 1 .. Len(inbound) + 1 :
                Intercepted(Append(inbound, t))[n]
                    = relay_intercept_and_sign(Append(inbound, t)[n])
      BY <1>1, InterceptedType
    <2> QED
      BY <1>2, <1>3, <2>1, <2>2
  <1>5. /\ old \in Seq(SignedVertices)
        /\ Len(old) = Len(mempool) + Len(inbound)
        /\ new \in Seq(SignedVertices)
        /\ Len(new) = Len(mempool) + Len(inbound) + 1
    <2>1. /\ old \in Seq(SignedVertices)
          /\ Len(old) = Len(mempool) + Len(Intercepted(inbound))
      BY <1>3, <1>4, ConcatProperties
    <2>2. /\ new \in Seq(SignedVertices)
          /\ Len(new) = Len(mempool) + Len(Intercepted(Append(inbound, t)))
      BY <1>3, <1>4, ConcatProperties
    <2> QED
      BY <1>3, <1>4, <2>1, <2>2
  <1>6. ASSUME NEW n \in 1 .. Len(old) PROVE new[n] = old[n]
    <2>1. n \in 1 .. Len(mempool) + Len(inbound)
      BY <1>5
    <2>2. old[n] = IF n <= Len(mempool) THEN mempool[n]
                   ELSE Intercepted(inbound)[n - Len(mempool)]
      BY <1>3, <1>4, <2>1, ConcatProperties
    <2>3. new[n] = IF n <= Len(mempool) THEN mempool[n]
                   ELSE Intercepted(Append(inbound, t))[n - Len(mempool)]
      <3>1. n \in 1 .. Len(mempool) + Len(Intercepted(Append(inbound, t)))
        BY <1>3, <1>4, <2>1
      <3> QED
        BY <1>3, <1>4, <3>1, ConcatProperties
    <2>4. ~(n <= Len(mempool)) => n - Len(mempool) \in 1 .. Len(inbound)
      BY <1>3, <2>1
    <2> QED
      BY <1>4, <2>2, <2>3, <2>4
  <1> DEFINE front == SubSeq(new, 1, Len(old))
  <1>7. /\ front \in Seq(SignedVertices)
        /\ Len(front) = Len(old)
        /\ \A n \in 1 .. Len(old) : front[n] = new[n]
    <2>1. Len(old) \in Nat /\ \A n \in 1 .. Len(old) : new[n] \in SignedVertices
      BY <1>3, <1>5, ElementOfSeq
    <2> HIDE DEF new, old
    <2>2. /\ SubSeq(new, 1, Len(old)) \in Seq(SignedVertices)
          /\ Len(SubSeq(new, 1, Len(old))) = IF 1 <= Len(old) THEN Len(old) - 1 + 1 ELSE 0
          /\ \A n \in 1 .. Len(old) - 1 + 1 : SubSeq(new, 1, Len(old))[n] = new[1 + n - 1]
      BY <2>1, SubSeqProperties
    <2> QED
      BY <2>1, <2>2
  <1>8. old = front
    <2> HIDE DEF new, old, front
    <2> QED
      BY <1>5, <1>6, <1>7, SeqEqual
  <1>9. Len(new) = Len(old) + 1
    BY <1>5
  <1>10. /\ (mempool \o Intercepted(inbound))' = new
         /\ (taken \o flush_ready)' = taken \o flush_ready
    BY DEF push_inbound
  <1> QED
    BY <1>8, <1>9, <1>10 DEF Carried!Take

(* A duty cycle hands over or keeps what the abstract store allows.         *)
LEMMA DutyCycleRefines ==
    ASSUME RelayInv, wallet_relay_step
    PROVE  Carried!Lose \/ Carried!PassOn
  <1> DEFINE old  == mempool \o Intercepted(inbound)
             pool == Kept(old)
  <1>1. old \in Seq(SignedVertices)
    BY InterceptedType, ConcatProperties DEF RelayInv
  <1>2. pool \in Seq(SignedVertices) /\ pool = Carried!Newest(old)
    BY <1>1, KeptType
  <1>3. inbound' = <<>> /\ taken' = taken
    BY DEF wallet_relay_step
  <1>4. mempool' = IF link_up THEN <<>> ELSE pool
    BY DEF wallet_relay_step
  <1>5. flush_ready' = IF link_up THEN flush_ready \o pool ELSE flush_ready
    BY DEF wallet_relay_step
  <1>6. (mempool \o Intercepted(inbound))' = mempool' \o <<>>
    BY <1>3, InterceptedEmpty
  <1> HIDE DEF old, pool
  <1>7. CASE link_up
    <2>1. (mempool \o Intercepted(inbound))' = <<>>
      BY <1>4, <1>6, <1>7, EmptySeq, ConcatEmptySeq
    <2>2. (taken \o flush_ready)' = taken \o (flush_ready \o pool)
      BY <1>3, <1>5, <1>7
    <2>3. taken \o (flush_ready \o pool) = (taken \o flush_ready) \o pool
      BY <1>2, ConcatAssociative DEF RelayInv
    <2> QED
      BY <1>2, <2>1, <2>2, <2>3 DEF Carried!PassOn, old
  <1>8. CASE ~link_up
    <2>1. (mempool \o Intercepted(inbound))' = pool
      BY <1>2, <1>4, <1>6, <1>8, ConcatEmptySeq
    <2>2. (taken \o flush_ready)' = taken \o flush_ready
      BY <1>3, <1>5, <1>8
    <2> QED
      BY <1>2, <2>1, <2>2 DEF Carried!Lose, old
  <1> QED
    BY <1>7, <1>8

(* Every step of the phone is a step of the abstract store, or none.        *)
LEMMA StoreStep == RelayInv /\ RelayStep => [Carried!Next]_(Carried!vars)
  <1> SUFFICES ASSUME RelayInv, RelayStep
               PROVE  Carried!Next \/ UNCHANGED Carried!vars
    OBVIOUS
  <1>1. ASSUME NEW t \in Handed, push_inbound(t) PROVE Carried!Next
    BY <1>1, PushTakes DEF Carried!Next
  <1>2. CASE wallet_relay_step
    BY <1>2, DutyCycleRefines DEF Carried!Next
  <1>3. CASE take_flush
    <2>1. taken' = taken \o flush_ready /\ flush_ready' = <<>>
      BY <1>3 DEF take_flush
    <2>2. taken \o flush_ready \in Seq(SignedVertices)
      BY ConcatProperties DEF RelayInv
    <2>3. (taken \o flush_ready)' = taken \o flush_ready
      BY <2>1, <2>2, ConcatEmptySeq
    <2>4. UNCHANGED <<mempool, inbound>>
      BY <1>3 DEF take_flush
    <2> QED
      BY <2>3, <2>4 DEF Carried!vars
  <1>4. CASE set_global_link_up \/ request_stop \/ start_wallet_relay_mode
    BY <1>4 DEF set_global_link_up, request_stop, start_wallet_relay_mode, queues,
                Carried!vars
  <1>5. CASE UNCHANGED relay_vars
    BY <1>5 DEF relay_vars, Carried!vars
  <1> QED
    BY <1>1, <1>2, <1>3, <1>4, <1>5 DEF RelayStep

(* The relay service of wallet_relay.rs implements CarrierStore: whatever   *)
(* it is handed it passes on in that order, each vertex once, and it loses  *)
(* only the oldest of more than its capacity.                               *)
THEOREM RelayRefinesCarrierStore == Spec => CarriesInOrder
  <1>1. Init => RelayInv
    BY RelayInvInit
  <1>2. RelayInv /\ [Next]_vars => RelayInv'
    BY StepsOfThePhone, RelayInvStep
  <1>3. RelayInv /\ [Next]_vars => [Carried!Next]_(Carried!vars)
    BY StepsOfThePhone, StoreStep
  <1> QED
    BY <1>1, <1>2, <1>3, StoreInit, PTL DEF Spec, CarriesInOrder, Carried!Spec

-----------------------------------------------------------------------------
(* The offline merge of one batch.                                          *)

(* Ordering runs through the batch one vertex after the other.              *)
Ordered(graph, batch) ==
    LET ready == {i \in DOMAIN batch : Awaited(graph, batch, i) = {}}
    IN  FoldLeft(LAMBDA r, n : Order(graph, batch, r),
                 [queue |-> Ascending(ready), ordered |-> <<>>],
                 [n \in 1 .. Cardinality(DOMAIN batch) |-> n])

IsOrdering(graph, batch, N, run) ==
    /\ run[0] = [queue |-> Ascending({i \in DOMAIN batch : Awaited(graph, batch, i) = {}}),
                 ordered |-> <<>>]
    /\ \A n \in 1 .. N : run[n] = Order(graph, batch, run[n - 1])

(* The run exists: it is what the fold computes on the way.                 *)
LEMMA OrderingRun ==
    ASSUME NEW graph, NEW batch, NEW N \in Nat, N = Cardinality(DOMAIN batch)
    PROVE  \E run : IsOrdering(graph, batch, N, run) /\ Ordered(graph, batch) = run[N]
  <1> DEFINE ready == {i \in DOMAIN batch : Awaited(graph, batch, i) = {}}
             base == [queue |-> Ascending(ready), ordered |-> <<>>]
             Eq(g, n) == g = [s \in SUBSET (1 .. n) |->
                                IF s = {} THEN base
                                ELSE Order(graph, batch, g[s \ {Max(s)}])]
             T == {n \in Nat : \E g : Eq(g, n)}
  <1>1. 0 \in T
    <2> DEFINE g == [s \in SUBSET (1 .. 0) |-> base]
    <2>1. \A s \in SUBSET (1 .. 0) : s = {}
      OBVIOUS
    <2>2. Eq(g, 0)
      BY <2>1
    <2>3. \E j : Eq(j, 0)
      <3> HIDE DEF Eq, g
      <3> QED BY <2>2
    <2> HIDE DEF Eq
    <2> QED BY <2>3
  <1>2. ASSUME NEW n \in Nat, n \in T PROVE n + 1 \in T
    <2>1. PICK g : Eq(g, n)
      BY <1>2
    <2> DEFINE h == [s \in SUBSET (1 .. n + 1) |->
                        IF s = {} THEN base
                        ELSE Order(graph, batch, g[s \ {Max(s)}])]
    <2>2. ASSUME NEW s \in SUBSET (1 .. n) PROVE h[s] = g[s]
      <3>1. s \in SUBSET (1 .. n + 1)
        OBVIOUS
      <3>2. g[s] = IF s = {} THEN base ELSE Order(graph, batch, g[s \ {Max(s)}])
        BY <2>1
      <3> QED BY <3>1, <3>2
    <2>3. ASSUME NEW s \in SUBSET (1 .. n + 1), s # {}
          PROVE  s \ {Max(s)} \in SUBSET (1 .. n)
      BY <2>3, MaxOfNextIndices, MaxOfIndices
    <2>4. Eq(h, n + 1)
      <3>1. ASSUME NEW s \in SUBSET (1 .. n + 1)
            PROVE  h[s] = IF s = {} THEN base
                          ELSE Order(graph, batch, h[s \ {Max(s)}])
        <4>1. CASE s = {}
          BY <4>1
        <4>2. CASE s # {}
          <5>1. h[s \ {Max(s)}] = g[s \ {Max(s)}]
            BY <4>2, <2>2, <2>3
          <5> QED BY <4>2, <5>1
        <4> QED BY <4>1, <4>2
      <3> QED BY <3>1, Zenon
    <2>5. \E j : Eq(j, n + 1)
      <3> HIDE DEF Eq, h
      <3> QED BY <2>4
    <2> HIDE DEF Eq
    <2> QED BY <2>5
  <1>3. \E g : Eq(g, N)
    <2>1. \A n \in Nat : n \in T
      <3> HIDE DEF T
      <3> QED BY <1>1, <1>2, NatSetInduction
    <2> QED BY <2>1
  <1> DEFINE iter == CHOOSE g : Eq(g, N)
  <1>4. Eq(iter, N)
    <2> HIDE DEF Eq
    <2> QED BY <1>3
  <1>5. Ordered(graph, batch) = iter[1 .. N]
    <2>1. DOMAIN [n \in 1 .. N |-> n] = 1 .. N
      OBVIOUS
    <2> QED BY <2>1 DEF Ordered, FoldLeft, MapThenFoldSet
  <1> DEFINE run == [n \in 0 .. N |-> iter[1 .. n]]
  <1>6. \A s \in SUBSET (1 .. N) :
          iter[s] = IF s = {} THEN base ELSE Order(graph, batch, iter[s \ {Max(s)}])
    BY <1>4, Zenon
  <1> HIDE DEF iter
  <1>7. run[0] = base
    <2>1. 1 .. 0 = {} /\ 0 \in 0 .. N
      OBVIOUS
    <2> QED BY <1>6, <2>1, Zenon
  <1>8. ASSUME NEW n \in 1 .. N PROVE run[n] = Order(graph, batch, run[n - 1])
    <2>1. n \in 0 .. N /\ n - 1 \in 0 .. N /\ 1 .. n \in SUBSET (1 .. N)
      OBVIOUS
    <2>n. n \in Nat /\ n # 0
      OBVIOUS
    <2>2. 1 .. n # {} /\ Max(1 .. n) = n /\ (1 .. n) \ {n} = 1 .. n - 1
      BY <2>n, MaxOfPrefix
    <2> QED BY <1>6, <2>1, <2>2, Zenon
  <1>9. Ordered(graph, batch) = run[N]
    BY <1>5
  <1> HIDE DEF run
  <1>10. IsOrdering(graph, batch, N, run)
    BY <1>7, <1>8 DEF IsOrdering
  <1> QED BY <1>9, <1>10

(* Merging stores one vertex after the other.                               *)
AllMerged(v, d, batch, order) ==
    FoldLeft(LAMBDA m, i : MergeOne(m, batch[i]),
             [verdict |-> v, dag |-> d, inserted |-> {}], order)

IsMerging(v, d, batch, order, N, run) ==
    /\ run[0] = [verdict |-> v, dag |-> d, inserted |-> {}]
    /\ \A n \in 1 .. N : run[n] = MergeOne(run[n - 1], batch[order[n]])

(* This run exists likewise.                                                *)
LEMMA MergingRun ==
    ASSUME NEW v, NEW d, NEW batch, NEW order, NEW N \in Nat, DOMAIN order = 1 .. N
    PROVE  \E run : /\ IsMerging(v, d, batch, order, N, run)
                    /\ AllMerged(v, d, batch, order) = run[N]
  <1> DEFINE base == [verdict |-> v, dag |-> d, inserted |-> {}]
             Eq(g, n) == g = [s \in SUBSET (1 .. n) |->
                                IF s = {} THEN base
                                ELSE MergeOne(g[s \ {Max(s)}], batch[order[Max(s)]])]
             T == {n \in Nat : \E g : Eq(g, n)}
  <1>1. 0 \in T
    <2> DEFINE g == [s \in SUBSET (1 .. 0) |-> base]
    <2>1. \A s \in SUBSET (1 .. 0) : s = {}
      OBVIOUS
    <2>2. Eq(g, 0)
      BY <2>1
    <2>3. \E j : Eq(j, 0)
      <3> HIDE DEF Eq, g
      <3> QED BY <2>2
    <2> HIDE DEF Eq
    <2> QED BY <2>3
  <1>2. ASSUME NEW n \in Nat, n \in T PROVE n + 1 \in T
    <2>1. PICK g : Eq(g, n)
      BY <1>2
    <2> DEFINE h == [s \in SUBSET (1 .. n + 1) |->
                        IF s = {} THEN base
                        ELSE MergeOne(g[s \ {Max(s)}], batch[order[Max(s)]])]
    <2>2. ASSUME NEW s \in SUBSET (1 .. n) PROVE h[s] = g[s]
      <3>1. s \in SUBSET (1 .. n + 1)
        OBVIOUS
      <3>2. g[s] = IF s = {} THEN base ELSE MergeOne(g[s \ {Max(s)}], batch[order[Max(s)]])
        BY <2>1
      <3> QED BY <3>1, <3>2
    <2>3. ASSUME NEW s \in SUBSET (1 .. n + 1), s # {}
          PROVE  s \ {Max(s)} \in SUBSET (1 .. n)
      BY <2>3, MaxOfNextIndices, MaxOfIndices
    <2>4. Eq(h, n + 1)
      <3>1. ASSUME NEW s \in SUBSET (1 .. n + 1)
            PROVE  h[s] = IF s = {} THEN base
                          ELSE MergeOne(h[s \ {Max(s)}], batch[order[Max(s)]])
        <4>1. CASE s = {}
          BY <4>1
        <4>2. CASE s # {}
          <5>1. h[s \ {Max(s)}] = g[s \ {Max(s)}]
            BY <4>2, <2>2, <2>3
          <5> QED BY <4>2, <5>1
        <4> QED BY <4>1, <4>2
      <3> QED BY <3>1, Zenon
    <2>5. \E j : Eq(j, n + 1)
      <3> HIDE DEF Eq, h
      <3> QED BY <2>4
    <2> HIDE DEF Eq
    <2> QED BY <2>5
  <1>3. \E g : Eq(g, N)
    <2>1. \A n \in Nat : n \in T
      <3> HIDE DEF T
      <3> QED BY <1>1, <1>2, NatSetInduction
    <2> QED BY <2>1
  <1> DEFINE iter == CHOOSE g : Eq(g, N)
  <1>4. Eq(iter, N)
    <2> HIDE DEF Eq
    <2> QED BY <1>3
  <1>5. AllMerged(v, d, batch, order) = iter[1 .. N]
    BY DEF AllMerged, FoldLeft, MapThenFoldSet
  <1> DEFINE run == [n \in 0 .. N |-> iter[1 .. n]]
  <1>6. \A s \in SUBSET (1 .. N) :
          iter[s] = IF s = {} THEN base ELSE MergeOne(iter[s \ {Max(s)}], batch[order[Max(s)]])
    BY <1>4, Zenon
  <1> HIDE DEF iter
  <1>7. run[0] = base
    <2>1. 1 .. 0 = {} /\ 0 \in 0 .. N
      OBVIOUS
    <2> QED BY <1>6, <2>1, Zenon
  <1>8. ASSUME NEW n \in 1 .. N PROVE run[n] = MergeOne(run[n - 1], batch[order[n]])
    <2>1. n \in 0 .. N /\ n - 1 \in 0 .. N /\ 1 .. n \in SUBSET (1 .. N)
      OBVIOUS
    <2>n. n \in Nat /\ n # 0
      OBVIOUS
    <2>2. 1 .. n # {} /\ Max(1 .. n) = n /\ (1 .. n) \ {n} = 1 .. n - 1
      BY <2>n, MaxOfPrefix
    <2> QED BY <1>6, <2>1, <2>2, Zenon
  <1>9. AllMerged(v, d, batch, order) = run[N]
    BY <1>5
  <1> HIDE DEF run
  <1>10. IsMerging(v, d, batch, order, N, run)
    BY <1>7, <1>8 DEF IsMerging
  <1> QED BY <1>9, <1>10

(* A batch holds known vertices, each under its own id.                     *)
LEMMA BatchFacts ==
    ASSUME NEW Known, \A t \in Known : t.id \in TxHash,
           NEW txs \in Seq(Known), NEW batch, batch = Batch(txs)
    PROVE  /\ IsFiniteSet(DOMAIN batch)
           /\ DOMAIN batch \subseteq TxHash
           /\ \A i \in DOMAIN batch : batch[i] \in Known /\ batch[i].id = i
  <1> DEFINE N == Len(txs)
             ids == {txs[n].id : n \in 1 .. N}
  <1>1. /\ N \in Nat /\ DOMAIN txs = 1 .. N
        /\ \A n \in 1 .. N : txs[n] \in Known
    BY LenProperties, ElementOfSeq
  <1>2. DOMAIN batch = ids
    BY <1>1 DEF Batch
  <1>3. IsFiniteSet(ids)
    <2> DEFINE f == [n \in 1 .. N |-> txs[n].id]
    <2>1. f \in Surjection(1 .. N, ids)
      BY DEF Surjection
    <2>2. IsFiniteSet(1 .. N)
      BY <1>1, FS_Interval
    <2> HIDE DEF f, ids
    <2> QED BY <2>1, <2>2, FS_Surjection
  <1>4. ASSUME NEW i \in ids PROVE batch[i] \in Known /\ batch[i].id = i
    <2> DEFINE at == {n \in DOMAIN txs : txs[n].id = i}
    <2>1. batch[i] = txs[Min(at)]
      BY <1>1, <1>4 DEF Batch
    <2>2. at # {} /\ at \subseteq Nat /\ \A n \in at : n \in 1 .. N /\ txs[n].id = i
      BY <1>1, <1>4
    <2> HIDE DEF at
    <2>3. \E x \in at : \A y \in at : x <= y
      BY <2>2, LeastNat
    <2>4. Min(at) \in at
      BY <2>3 DEF Min
    <2> QED BY <1>1, <2>1, <2>2, <2>4
  <1>5. ids \subseteq TxHash
    BY <1>1
  <1> QED BY <1>2, <1>3, <1>4, <1>5

(* Only vertices of the batch are ordered.                                  *)
LEMMA OrderedTyped ==
    ASSUME NEW graph, NEW batch, IsFiniteSet(DOMAIN batch), DOMAIN batch \subseteq Nat
    PROVE  Ordered(graph, batch).ordered \in Seq(DOMAIN batch)
  <1> DEFINE N == Cardinality(DOMAIN batch)
             D == DOMAIN batch
  <1>1. N \in Nat
    BY FS_CardinalityType
  <1>2. PICK run : IsOrdering(graph, batch, N, run) /\ Ordered(graph, batch) = run[N]
    BY <1>1, OrderingRun
  <1>a. ASSUME NEW R, R \subseteq D PROVE Ascending(R) \in Seq(D)
    <2>1. R \subseteq Nat /\ IsFiniteSet(R)
      BY <1>a, FS_Subset
    <2>2. Ascending(R) \in Seq(R)
      BY <2>1, AscendingFacts
    <2> QED BY <1>a, <2>2
  <1>3. /\ run[0] = [queue |-> Ascending({i \in D : Awaited(graph, batch, i) = {}}),
                     ordered |-> <<>>]
        /\ \A n \in 1 .. N : run[n] = Order(graph, batch, run[n - 1])
    BY <1>2 DEF IsOrdering
  <1> DEFINE T == {n \in 0 .. N : run[n].queue \in Seq(D) /\ run[n].ordered \in Seq(D)}
  <1> HIDE DEF N
  <1>4. 0 \in T
    <2>1. <<>> \in Seq(D)
      OBVIOUS
    <2>2. Ascending({i \in D : Awaited(graph, batch, i) = {}}) \in Seq(D)
      BY <1>a
    <2>3. run[0].queue \in Seq(D) /\ run[0].ordered \in Seq(D)
      BY <1>3, <2>1, <2>2
    <2>4. 0 \in 0 .. N
      BY <1>1
    <2> HIDE DEF D
    <2> QED BY <2>3, <2>4
  <1>5. ASSUME NEW n \in 1 .. N, n - 1 \in T PROVE n \in T
    <2> DEFINE s == run[n - 1]
               i == Head(s.queue)
               done  == ToSet(s.ordered) \cup {i}
               freed == {j \in D : i \in Awaited(graph, batch, j)
                                     /\ Awaited(graph, batch, j) \subseteq done}
    <2>1. s.queue \in Seq(D) /\ s.ordered \in Seq(D) /\ n \in 0 .. N
      BY <1>1, <1>5
    <2>2. run[n] = Order(graph, batch, s)
      BY <1>3
    <2> HIDE DEF s
    <2>3. CASE s.queue = <<>>
      <3>1. run[n] = s
        BY <2>2, <2>3 DEF Order
      <3> HIDE DEF D
      <3> QED BY <2>1, <3>1
    <2>4. CASE s.queue # <<>>
      <3>1. run[n] = [queue |-> Tail(s.queue) \o Ascending(freed),
                      ordered |-> Append(s.ordered, i)]
        BY <2>2, <2>4 DEF Order
      <3>2. Ascending(freed) \in Seq(D)
        BY <1>a
      <3> HIDE DEF D, freed
      <3>3. Tail(s.queue) \in Seq(D) /\ i \in D
        BY <2>1, <2>4
      <3> HIDE DEF i
      <3>4. Tail(s.queue) \o Ascending(freed) \in Seq(D) /\ Append(s.ordered, i) \in Seq(D)
        BY <2>1, <3>2, <3>3
      <3>5. /\ run[n].queue = Tail(s.queue) \o Ascending(freed)
            /\ run[n].ordered = Append(s.ordered, i)
        BY <3>1
      <3> QED BY <2>1, <3>4, <3>5
    <2> QED BY <2>3, <2>4
  <1>6. \A n \in 0 .. N : n \in T
    <2> HIDE DEF T
    <2> QED BY <1>1, <1>4, <1>5, IndexSetInduction
  <1>7. N \in 0 .. N
    BY <1>1
  <1>8. N \in T
    <2> HIDE DEF T
    <2> QED BY <1>6, <1>7
  <1> QED BY <1>2, <1>8

-----------------------------------------------------------------------------
(* What ordering yields.                                                    *)

(* A list of some is a list of more.                                        *)
LEMMA SeqOfMore ==
    ASSUME NEW S, NEW T, S \subseteq T, NEW s \in Seq(S)
    PROVE  s \in Seq(T)
  OBVIOUS

LEMMA ElementsAreSet ==
    ASSUME NEW S, NEW s \in Seq(S)
    PROVE  ToSet(s) = Elements(s)
  <1>1. DOMAIN s = 1 .. Len(s)
    OBVIOUS
  <1> QED BY <1>1 DEF ToSet, Elements

(* A list without repetitions is as long as it has elements.                *)
LEMMA ListSize ==
    ASSUME NEW S, NEW s \in Seq(S), NoRepeats(s)
    PROVE  Cardinality(Elements(s)) = Len(s)
  <1> DEFINE k == Len(s)
  <1>1. k \in Nat /\ DOMAIN s = 1 .. k /\ s \in [1 .. k -> S]
    OBVIOUS
  <1> HIDE DEF k
  <1>2. \A m, n \in 1 .. k : s[m] = s[n] => m = n
    BY DEF NoRepeats, k
  <1>3. Elements(s) = {s[n] : n \in 1 .. k}
    BY DEF Elements, k
  <1>4. s \in [1 .. k -> Elements(s)]
    BY <1>1, <1>3
  <1>5. s \in Bijection(1 .. k, Elements(s))
    <2>1. IsInjective(s)
      BY <1>1, <1>2 DEF IsInjective
    <2>2. \A y \in Elements(s) : \E n \in 1 .. k : s[n] = y
      BY <1>3
    <2>3. s \in Injection(1 .. k, Elements(s))
      BY <1>4, <2>1 DEF Injection
    <2>4. s \in Surjection(1 .. k, Elements(s))
      BY <1>4, <2>2 DEF Surjection
    <2> QED BY <2>3, <2>4 DEF Bijection
  <1>6. IsFiniteSet(1 .. k) /\ Cardinality(1 .. k) = k
    <2>1. IsFiniteSet(1 .. k) /\ Cardinality(1 .. k) = IF 1 > k THEN 0 ELSE k - 1 + 1
      BY <1>1, FS_Interval
    <2> QED BY <1>1, <2>1
  <1>7. ExistsBijection(1 .. k, Elements(s))
    BY <1>5 DEF ExistsBijection
  <1> QED BY <1>6, <1>7, FS_Bijection DEF k

(* A sorted set lists each of its members once.                             *)
LEMMA AscendingLists ==
    ASSUME NEW S, S \subseteq Nat, IsFiniteSet(S), NEW s, s = Ascending(S)
    PROVE  s \in Seq(S) /\ NoRepeats(s) /\ Elements(s) = S
  <1> DEFINE k == Cardinality(S)
  <1>1. IsAscending(S, s) /\ s \in Seq(S) /\ k \in Nat
    BY AscendingFacts, FS_CardinalityType
  <1>2. Len(s) = k /\ s \in [1 .. k -> S] /\ \A m, n \in 1 .. k : m < n => s[m] < s[n]
    BY <1>1 DEF IsAscending
  <1> HIDE DEF k
  <1>3. \A m, n \in 1 .. k : s[m] = s[n] => m = n
    <2>1. ASSUME NEW m \in 1 .. k, NEW n \in 1 .. k, s[m] = s[n] PROVE m = n
      <3>1. s[m] \in Nat /\ s[n] \in Nat
        BY <1>2
      <3>2. ~(m < n) /\ ~(n < m)
        BY <1>2, <2>1, <3>1
      <3> QED BY <1>1, <3>2
    <2> QED BY <2>1
  <1>4. Elements(s) = {s[n] : n \in 1 .. k} /\ Elements(s) \subseteq S
    BY <1>2 DEF Elements
  <1>7. Cardinality(Elements(s)) = k
    BY <1>1, <1>2, <1>3, ListSize DEF NoRepeats
  <1>8. Elements(s) = S
    BY <1>4, <1>7, FS_Subset DEF k
  <1> QED BY <1>1, <1>2, <1>3, <1>8 DEF NoRepeats

(* A list without repetitions after its first element is taken off.         *)
LEMMA TailElements ==
    ASSUME NEW S, NEW s \in Seq(S), s # <<>>, NoRepeats(s)
    PROVE  /\ Head(s) \in S /\ Tail(s) \in Seq(S) /\ NoRepeats(Tail(s))
           /\ Elements(s) = {Head(s)} \cup Elements(Tail(s))
           /\ Head(s) \notin Elements(Tail(s))
  <1> DEFINE r == Tail(s)
             k == Len(s)
  <1>1. /\ r \in Seq(S) /\ k \in Nat \ {0} /\ Len(r) = k - 1 /\ Head(s) = s[1] /\ s[1] \in S
        /\ \A n \in 1 .. k - 1 : r[n] = s[n + 1]
    BY HeadTailProperties
  <1>2. \A m, n \in 1 .. k : s[m] = s[n] => m = n
    BY DEF NoRepeats
  <1>3. Elements(s) = {s[n] : n \in 1 .. k} /\ Elements(r) = {r[n] : n \in 1 .. k - 1}
    BY <1>1 DEF Elements
  <1> HIDE DEF r, k
  <1>4. NoRepeats(r)
    <2>1. ASSUME NEW m \in 1 .. k - 1, NEW n \in 1 .. k - 1, r[m] = r[n] PROVE m = n
      <3>1. m + 1 \in 1 .. k /\ n + 1 \in 1 .. k
        BY <1>1
      <3>2. m + 1 = n + 1
        BY <1>1, <1>2, <2>1, <3>1
      <3> QED BY <1>1, <3>2
    <2> QED BY <1>1, <2>1 DEF NoRepeats
  <1>5. ASSUME NEW n \in 1 .. k PROVE s[n] = s[1] \/ s[n] \in Elements(r)
    <2>1. CASE n = 1
      BY <2>1
    <2>2. CASE n # 1
      <3>1. n - 1 \in 1 .. k - 1 /\ (n - 1) + 1 = n
        BY <1>1, <2>2
      <3>2. r[n - 1] = s[n]
        BY <1>1, <3>1
      <3> QED BY <1>3, <3>1, <3>2
    <2> QED BY <2>1, <2>2
  <1>6. ASSUME NEW n \in 1 .. k - 1 PROVE r[n] \in Elements(s) /\ r[n] # s[1]
    <2>1. n + 1 \in 1 .. k /\ 1 \in 1 .. k /\ n + 1 # 1
      BY <1>1
    <2> QED BY <1>1, <1>2, <1>3, <2>1
  <1>7. s[1] \in Elements(s)
    BY <1>1, <1>3
  <1> QED BY <1>1, <1>3, <1>4, <1>5, <1>6, <1>7 DEF r

(* Two lists without common elements in a row.                              *)
LEMMA ConcatOnce ==
    ASSUME NEW S, NEW s \in Seq(S), NEW r \in Seq(S), NoRepeats(s), NoRepeats(r),
           Elements(s) \cap Elements(r) = {}
    PROVE  NoRepeats(s \o r)
  <1> DEFINE c == s \o r
             a == Len(s)
             b == Len(r)
  <1>1. /\ a \in Nat /\ b \in Nat /\ Len(c) = a + b
        /\ \A n \in 1 .. a + b : c[n] = IF n <= a THEN s[n] ELSE r[n - a]
    BY ConcatProperties
  <1>2. /\ \A m, n \in 1 .. a : s[m] = s[n] => m = n
        /\ \A m, n \in 1 .. b : r[m] = r[n] => m = n
    BY DEF NoRepeats
  <1>3. \A m \in 1 .. a : \A n \in 1 .. b : s[m] # r[n]
    BY DEF Elements
  <1> HIDE DEF a, b, c
  <1>4. ASSUME NEW m \in 1 .. a + b, NEW n \in 1 .. a + b, c[m] = c[n] PROVE m = n
    <2>1. /\ ~(m <= a) => m - a \in 1 .. b
          /\ ~(n <= a) => n - a \in 1 .. b
          /\ m <= a => m \in 1 .. a
          /\ n <= a => n \in 1 .. a
      BY <1>1
    <2>2. c[m] = (IF m <= a THEN s[m] ELSE r[m - a]) /\ c[n] = (IF n <= a THEN s[n] ELSE r[n - a])
      BY <1>1
    <2>3. CASE m <= a /\ n <= a
      BY <1>2, <1>4, <2>1, <2>2, <2>3
    <2>4. CASE ~(m <= a) /\ ~(n <= a)
      <3>1. m - a = n - a
        BY <1>2, <1>4, <2>1, <2>2, <2>4
      <3> QED BY <1>1, <3>1
    <2>5. CASE m <= a /\ ~(n <= a)
      BY <1>3, <1>4, <2>1, <2>2, <2>5
    <2>6. CASE ~(m <= a) /\ n <= a
      BY <1>3, <1>4, <2>1, <2>2, <2>6
    <2> QED BY <2>3, <2>4, <2>5, <2>6
  <1> QED BY <1>1, <1>4 DEF NoRepeats, c

-----------------------------------------------------------------------------
(* Where Kahn's algorithm is after n steps.  What is ordered or queued is   *)
(* what awaits nothing that is not ordered; and each vertex is ordered      *)
(* after those it awaits.                                                   *)
Kahn(graph, batch, n, s) ==
    LET D == DOMAIN batch
    IN  /\ s.queue \in Seq(D) /\ s.ordered \in Seq(D)
        /\ NoRepeats(s.queue) /\ NoRepeats(s.ordered)
        /\ Elements(s.queue) \cap Elements(s.ordered) = {}
        /\ Elements(s.queue) \cup Elements(s.ordered)
              = {i \in D : Awaited(graph, batch, i) \subseteq Elements(s.ordered)}
        /\ \A k \in 1 .. Len(s.ordered) :
              Awaited(graph, batch, s.ordered[k]) \subseteq {s.ordered[m] : m \in 1 .. k - 1}
        /\ s.queue = <<>> \/ Len(s.ordered) = n

(* At the start only what awaits nothing is queued.                         *)
LEMMA KahnStarts ==
    ASSUME NEW graph, NEW batch, IsFiniteSet(DOMAIN batch), DOMAIN batch \subseteq Nat,
           NEW s, s = [queue |-> Ascending({i \in DOMAIN batch : Awaited(graph, batch, i) = {}}),
                       ordered |-> <<>>]
    PROVE  Kahn(graph, batch, 0, s)
  <1> DEFINE D == DOMAIN batch
             ready == {i \in D : Awaited(graph, batch, i) = {}}
  <1>1. ready \subseteq D /\ ready \subseteq Nat /\ IsFiniteSet(ready)
    BY FS_Subset
  <1>2. ready = {i \in D : Awaited(graph, batch, i) \subseteq {}}
    OBVIOUS
  <1>3. s.queue = Ascending(ready) /\ s.ordered = <<>>
    OBVIOUS
  <1> HIDE DEF ready, D
  <1>4. s.queue \in Seq(ready) /\ NoRepeats(s.queue) /\ Elements(s.queue) = ready
    BY <1>1, <1>3, AscendingLists
  <1>5. s.queue \in Seq(D)
    BY <1>1, <1>4, SeqOfMore
  <1>6. /\ <<>> \in Seq(D) /\ Len(<<>>) = 0 /\ Elements(<<>>) = {}
        /\ NoRepeats(<<>>)
    BY DEF Elements, NoRepeats
  <1> QED BY <1>2, <1>3, <1>4, <1>5, <1>6 DEF Kahn, D

(* One step of it.                                                          *)
LEMMA KahnStep ==
    ASSUME NEW graph, NEW batch, IsFiniteSet(DOMAIN batch), DOMAIN batch \subseteq Nat,
           NEW n \in Nat, NEW s, Kahn(graph, batch, n, s), NEW r, r = Order(graph, batch, s)
    PROVE  Kahn(graph, batch, n + 1, r)
  <1> DEFINE D == DOMAIN batch
             A(i) == Awaited(graph, batch, i)
             i == Head(s.queue)
             rest == Tail(s.queue)
             old == Elements(s.ordered)
             done == old \cup {i}
             freed == {j \in D : i \in A(j) /\ A(j) \subseteq done}
             new == Ascending(freed)
  <1>1. /\ s.queue \in Seq(D) /\ s.ordered \in Seq(D)
        /\ NoRepeats(s.queue) /\ NoRepeats(s.ordered)
        /\ Elements(s.queue) \cap old = {}
        /\ Elements(s.queue) \cup old = {j \in D : A(j) \subseteq old}
        /\ \A k \in 1 .. Len(s.ordered) :
              A(s.ordered[k]) \subseteq {s.ordered[m] : m \in 1 .. k - 1}
        /\ s.queue = <<>> \/ Len(s.ordered) = n
    BY DEF Kahn
  <1>2. CASE s.queue = <<>>
    <2>1. r = s
      BY <1>2 DEF Order
    <2>2. Kahn(graph, batch, n + 1, s)
      BY <1>2 DEF Kahn
    <2> QED BY <2>1, <2>2
  <1>3. CASE s.queue # <<>>
    <2>0. ToSet(s.ordered) = old
      BY <1>1, ElementsAreSet
    <2>1. r.queue = rest \o new /\ r.ordered = Append(s.ordered, i)
      BY <1>3, <2>0 DEF Order
    <2>2. /\ i \in D /\ rest \in Seq(D) /\ NoRepeats(rest)
          /\ Elements(s.queue) = {i} \cup Elements(rest) /\ i \notin Elements(rest)
      BY <1>1, <1>3, TailElements
    <2>3. freed \subseteq D /\ freed \subseteq Nat /\ IsFiniteSet(freed)
      BY FS_Subset
    <2>4. new \in Seq(freed) /\ NoRepeats(new) /\ Elements(new) = freed
      BY <2>3, AscendingLists
    <2>5. new \in Seq(D)
      <3> HIDE DEF freed, new, D
      <3> QED BY <2>3, <2>4, SeqOfMore
    <2>6. i \notin old /\ A(i) \subseteq old
      BY <1>1, <2>2
    <2>7. freed \cap {j \in D : A(j) \subseteq old} = {}
      BY <2>6
    <2>8. {j \in D : A(j) \subseteq done} = {j \in D : A(j) \subseteq old} \cup freed
      <3> HIDE DEF A, old
      <3> QED OBVIOUS
    <2> DEFINE q == rest \o new
               o == Append(s.ordered, i)
    <2>9. q \in Seq(D) /\ Elements(q) = Elements(rest) \cup freed
      <3> HIDE DEF rest, new, freed, D
      <3> QED BY <2>2, <2>4, <2>5, ConcatElements
    <2>10. NoRepeats(q)
      <3>1. Elements(rest) \cap Elements(new) = {}
        BY <1>1, <2>2, <2>4, <2>7
      <3> HIDE DEF rest, new, freed, D
      <3> QED BY <2>2, <2>4, <2>5, <3>1, ConcatOnce
    <2>11. /\ o \in Seq(D) /\ Len(o) = Len(s.ordered) + 1 /\ Len(s.ordered) \in Nat
           /\ \A k \in 1 .. Len(s.ordered) : o[k] = s.ordered[k]
           /\ o[Len(s.ordered) + 1] = i
      <3> HIDE DEF i, D
      <3> QED BY <1>1, <2>2
    <2>12. /\ Elements(o) = done
           /\ \A k \in 1 .. Len(s.ordered) + 1 :
                 {o[m] : m \in 1 .. k - 1} = {s.ordered[m] : m \in 1 .. k - 1}
      <3> HIDE DEF i, D
      <3> QED BY <1>1, <2>2, <2>11, AppendElements DEF Elements
    <2> HIDE DEF A, i, rest, new, freed, done, old, q, o, D
    <2>13. NoRepeats(o)
      <3>1. ASSUME NEW m \in 1 .. Len(o), NEW k \in 1 .. Len(o), o[m] = o[k] PROVE m = k
        <4> DEFINE l == Len(s.ordered)
        <4>1. \A x \in 1 .. l : s.ordered[x] # i
          BY <2>6 DEF old, Elements
        <4>2. \A x, y \in 1 .. l : s.ordered[x] = s.ordered[y] => x = y
          BY <1>1 DEF NoRepeats
        <4>3. m \in 1 .. l \/ m = l + 1
          BY <2>11, <3>1
        <4>4. k \in 1 .. l \/ k = l + 1
          BY <2>11, <3>1
        <4> QED BY <2>11, <3>1, <4>1, <4>2, <4>3, <4>4
      <3> QED BY <3>1 DEF NoRepeats
    <2>14. Elements(q) \cap done = {}
      <3>1. Elements(s.queue) \cap freed = {} /\ old \cap freed = {}
        BY <1>1, <2>7
      <3> QED BY <1>1, <2>2, <2>6, <2>9, <3>1 DEF done
    <2>15. Elements(q) \cup done = {j \in D : A(j) \subseteq done}
      <3>1. Elements(q) \cup done = (Elements(s.queue) \cup old) \cup freed
        BY <2>2, <2>9 DEF done
      <3> QED BY <1>1, <2>8, <3>1
    <2>16. ASSUME NEW k \in 1 .. Len(o) PROVE A(o[k]) \subseteq {o[m] : m \in 1 .. k - 1}
      <3>1. {o[m] : m \in 1 .. k - 1} = {s.ordered[m] : m \in 1 .. k - 1}
        BY <2>11, <2>12
      <3>2. CASE k \in 1 .. Len(s.ordered)
        BY <1>1, <2>11, <3>1, <3>2
      <3>3. CASE k = Len(s.ordered) + 1
        <4>1. k - 1 = Len(s.ordered)
          BY <2>11, <3>3
        <4>2. {o[m] : m \in 1 .. k - 1} = old
          BY <3>1, <4>1 DEF old, Elements
        <4> QED BY <2>6, <2>11, <3>3, <4>2
      <3> QED BY <2>11, <3>2, <3>3
    <2>17. Len(o) = n + 1
      BY <1>1, <1>3, <2>11
    <2>18. r.queue = q /\ r.ordered = o
      BY <2>1 DEF q, o
    <2>19. Elements(o) = done
      BY <2>12
    <2>20. r.queue \in Seq(D) /\ r.ordered \in Seq(D) /\ NoRepeats(r.queue) /\ NoRepeats(r.ordered)
      BY <2>9, <2>10, <2>11, <2>13, <2>18
    <2>21. /\ Elements(r.queue) \cap Elements(r.ordered) = {}
           /\ Elements(r.queue) \cup Elements(r.ordered)
                 = {j \in D : A(j) \subseteq Elements(r.ordered)}
      BY <2>14, <2>15, <2>18, <2>19
    <2>22. \A k \in 1 .. Len(r.ordered) :
              A(r.ordered[k]) \subseteq {r.ordered[m] : m \in 1 .. k - 1}
      <3> SUFFICES ASSUME NEW k \in 1 .. Len(r.ordered)
                   PROVE  A(r.ordered[k]) \subseteq {r.ordered[m] : m \in 1 .. k - 1}
        OBVIOUS
      <3>1. k \in 1 .. Len(o)
        BY <2>18
      <3>2. A(o[k]) \subseteq {o[m] : m \in 1 .. k - 1}
        BY <2>16, <3>1
      <3>3. r.ordered = o
        BY <2>18
      <3> QED BY <3>2, <3>3
    <2>23. Len(r.ordered) = n + 1
      BY <2>17, <2>18
    <2> QED BY <2>20, <2>21, <2>22, <2>23 DEF Kahn, A, D
  <1> QED BY <1>2, <1>3

(* So it is when ordering ends.                                             *)
LEMMA KahnEnds ==
    ASSUME NEW graph, NEW batch, IsFiniteSet(DOMAIN batch), DOMAIN batch \subseteq Nat
    PROVE  Kahn(graph, batch, Cardinality(DOMAIN batch), Ordered(graph, batch))
  <1> DEFINE N == Cardinality(DOMAIN batch)
  <1>1. N \in Nat
    BY FS_CardinalityType
  <1>2. PICK run : IsOrdering(graph, batch, N, run) /\ Ordered(graph, batch) = run[N]
    BY <1>1, OrderingRun
  <1> DEFINE T == {n \in 0 .. N : Kahn(graph, batch, n, run[n])}
  <1> HIDE DEF N
  <1>3. 0 \in T
    <2>1. run[0] = [queue |-> Ascending({i \in DOMAIN batch : Awaited(graph, batch, i) = {}}),
                    ordered |-> <<>>]
      BY <1>2 DEF IsOrdering
    <2>2. Kahn(graph, batch, 0, run[0])
      BY <2>1, KahnStarts
    <2> QED BY <1>1, <2>2
  <1>4. ASSUME NEW n \in 1 .. N, n - 1 \in T PROVE n \in T
    <2>1. run[n] = Order(graph, batch, run[n - 1])
      BY <1>2 DEF IsOrdering
    <2>2. n - 1 \in Nat /\ (n - 1) + 1 = n /\ n \in 0 .. N
      BY <1>1
    <2>3. Kahn(graph, batch, n - 1, run[n - 1])
      BY <1>4
    <2>4. Kahn(graph, batch, (n - 1) + 1, run[n])
      BY <2>1, <2>2, <2>3, KahnStep
    <2> QED BY <2>2, <2>4
  <1>5. \A n \in 0 .. N : n \in T
    <2> HIDE DEF T
    <2> QED BY <1>1, <1>3, <1>4, IndexSetInduction
  <1>6. N \in T
    <2>1. N \in 0 .. N
      BY <1>1
    <2> HIDE DEF T
    <2> QED BY <1>5, <2>1
  <1> QED BY <1>2, <1>6 DEF N

(* Each vertex of the batch once, after those it awaits.                    *)
ListsParentsFirst(graph, batch, order) ==
    /\ order \in Seq(DOMAIN batch) /\ Elements(order) = DOMAIN batch
    /\ Len(order) = Cardinality(DOMAIN batch)
    /\ \A k \in 1 .. Len(order) :
          Awaited(graph, batch, order[k]) \subseteq {order[m] : m \in 1 .. k - 1}

(* Without a cycle, which a rank excludes, everything gets ordered.         *)
Acyclic(batch) ==
    \E rank \in [DOMAIN batch -> Nat] :
        \A i, j \in DOMAIN batch : j \in ParentSet(batch[i]) => rank[j] < rank[i]

LEMMA OrdersAll ==
    ASSUME NEW graph, NEW batch, IsFiniteSet(DOMAIN batch), DOMAIN batch \subseteq Nat,
           Acyclic(batch)
    PROVE  ListsParentsFirst(graph, batch, Ordered(graph, batch).ordered)
  <1> DEFINE s == Ordered(graph, batch)
             D == DOMAIN batch
             N == Cardinality(D)
             A(i) == Awaited(graph, batch, i)
             order == s.ordered
             done == Elements(order)
  <1>0. PICK rank \in [D -> Nat] : \A i, j \in D : j \in ParentSet(batch[i]) => rank[j] < rank[i]
    BY DEF Acyclic
  <1>1. Kahn(graph, batch, N, s)
    BY KahnEnds
  <1> HIDE DEF s
  <1>2. /\ order \in Seq(D) /\ NoRepeats(order)
        /\ Elements(s.queue) \cup done = {i \in D : A(i) \subseteq done}
        /\ \A k \in 1 .. Len(order) : A(order[k]) \subseteq {order[m] : m \in 1 .. k - 1}
        /\ s.queue = <<>> \/ Len(order) = N
    BY <1>1 DEF Kahn
  <1> HIDE DEF order
  <1>a. \A k \in 1 .. Len(order) :
           Awaited(graph, batch, order[k]) \subseteq {order[m] : m \in 1 .. k - 1}
    BY <1>2 DEF A
  <1>3. \A i \in D : A(i) \subseteq D /\ \A j \in A(i) : rank[j] < rank[i]
    BY <1>0 DEF Awaited
  <1>4. Cardinality(done) = Len(order)
    BY <1>2, ListSize
  <1> HIDE DEF A
  <1>5. done \subseteq D
    BY <1>2
  <1>6. ASSUME Len(order) = N
        PROVE  ListsParentsFirst(graph, batch, order)
    <2>1. done = D
      BY <1>4, <1>5, <1>6, FS_Subset
    <2> QED BY <1>2, <1>a, <1>6, <2>1 DEF ListsParentsFirst
  <1>7. ASSUME s.queue = <<>>
        PROVE  ListsParentsFirst(graph, batch, order)
    <2>1. done = {i \in D : A(i) \subseteq done}
      <3>1. Elements(s.queue) = {}
        BY <1>7 DEF Elements
      <3> QED BY <1>2, <3>1
    <2>2. ASSUME D \ done # {} PROVE FALSE
      <3> DEFINE R == {rank[i] : i \in D \ done}
      <3>1. R \subseteq Nat /\ R # {}
        BY <2>2
      <3>2. PICK x \in R : \A y \in R : x <= y
        BY <3>1, LeastNat
      <3>3. PICK i \in D \ done : x = rank[i]
        BY <3>2
      <3>4. PICK j \in A(i) : j \notin done
        BY <2>1, <3>3
      <3>5. j \in D /\ rank[j] < rank[i] /\ rank[j] \in Nat /\ rank[i] \in Nat
        BY <1>3, <3>3
      <3>6. rank[j] \in R
        BY <3>4, <3>5
      <3> QED BY <3>2, <3>3, <3>5, <3>6
    <2>3. done = D
      BY <1>5, <2>2
    <2> QED BY <1>2, <1>a, <1>4, <2>3 DEF ListsParentsFirst
  <1> QED BY <1>2, <1>6, <1>7 DEF order, s

-----------------------------------------------------------------------------
(* A batch that fits a replica: the vertices are well formed, and their     *)
(* parents are stored or come with them, in an order without cycles.        *)
Fitting(g, batch) ==
    /\ \A i \in DOMAIN batch :
          /\ batch[i].wellformed
          /\ {batch[i].parent_1, batch[i].parent_2} \subseteq VertexSet(g) \cup DOMAIN batch
    /\ NULL_PARENT \notin DOMAIN batch
    /\ Acyclic(batch)

(* A list of the whole batch in which each vertex comes after its parents.  *)
ListsForMerge(g, batch, order) ==
    /\ order \in Seq(DOMAIN batch) /\ Elements(order) = DOMAIN batch
    /\ \A k \in 1 .. Len(order) :
          {batch[order[k]].parent_1, batch[order[k]].parent_2}
              \subseteq VertexSet(g) \cup {order[m] : m \in 1 .. k - 1}

(* All of it is ordered, and nothing is found missing.                      *)
LEMMA FittingOrder ==
    ASSUME NEW g, NEW batch, IsFiniteSet(DOMAIN batch), DOMAIN batch \subseteq Nat,
           NULL_PARENT \notin VertexSet(g), Fitting(g, batch),
           NEW topo, topo = topo_order_incoming(g, batch)
    PROVE  topo.verdict = "Ok" /\ ListsForMerge(g, batch, topo.ordered)
  <1> DEFINE D == DOMAIN batch
             N == Cardinality(D)
  <1>1. PICK order : order = Ordered(g, batch).ordered
    OBVIOUS
  <1>2. /\ topo.ordered = order
        /\ topo.verdict = IF \E i \in D : ~(ParentSet(batch[i]) \subseteq VertexSet(g) \cup D)
                          THEN "MissingParent"
                          ELSE IF Len(order) < N THEN "CyclicBatch" ELSE "Ok"
    BY <1>1 DEF topo_order_incoming, Ordered
  <1>3. ListsParentsFirst(g, batch, order)
    BY <1>1, OrdersAll DEF Fitting
  <1>5. /\ order \in Seq(D) /\ Elements(order) = D /\ Len(order) = N
        /\ \A k \in 1 .. Len(order) :
              Awaited(g, batch, order[k]) \subseteq {order[m] : m \in 1 .. k - 1}
    BY <1>3 DEF ListsParentsFirst
  <1>6. \A i \in D : {batch[i].parent_1, batch[i].parent_2} \subseteq VertexSet(g) \cup D
    BY DEF Fitting
  <1>7. N \in Nat
    BY FS_CardinalityType
  <1>8. topo.verdict = "Ok"
    <2>1. ~(N < N)
      BY <1>7
    <2>2. \A i \in D : ParentSet(batch[i]) \subseteq VertexSet(g) \cup D
      BY <1>6 DEF ParentSet
    <2> QED BY <1>2, <1>5, <2>1, <2>2
  <1> HIDE DEF N
  <1>9. ASSUME NEW k \in 1 .. Len(order)
        PROVE  {batch[order[k]].parent_1, batch[order[k]].parent_2}
                  \subseteq VertexSet(g) \cup {order[m] : m \in 1 .. k - 1}
    <2>1. order[k] \in D
      BY <1>5 DEF Elements
    <2> DEFINE t == batch[order[k]]
    <2>2. {t.parent_1, t.parent_2} \subseteq VertexSet(g) \cup D
      BY <1>6, <2>1
    <2>3. NULL_PARENT \notin VertexSet(g) \cup D
      BY DEF Fitting
    <2>4. ParentSet(t) = {t.parent_1, t.parent_2}
      BY <2>2, <2>3 DEF ParentSet
    <2>5. Awaited(g, batch, order[k]) = (ParentSet(t) \cap D) \ VertexSet(g)
      BY DEF Awaited
    <2> HIDE DEF t
    <2>6. Awaited(g, batch, order[k]) \subseteq {order[m] : m \in 1 .. k - 1}
      BY <1>5
    <2> QED BY <2>2, <2>4, <2>5, <2>6 DEF t
  <1>10. ListsForMerge(g, batch, order)
    BY <1>5, <1>9 DEF ListsForMerge
  <1> QED BY <1>2, <1>8, <1>10

-----------------------------------------------------------------------------
(* A merge under way: vertices were stored, ledger and conflicts are as     *)
(* they were.                                                               *)
IsMerge(d, Known, m) ==
    /\ m = [verdict |-> m.verdict, dag |-> m.dag, inserted |-> m.inserted]
    /\ ReplicaState(m.dag, Known)
    /\ m.dag.ledger = d.ledger /\ m.dag.faucet = d.faucet
    /\ m.dag.conflicts = d.conflicts
    /\ VertexSet(d.graph) \subseteq VertexSet(m.dag.graph)
    /\ \A i \in VertexSet(d.graph) : m.dag.graph.vertices[i] = d.graph.vertices[i]
    /\ UserVertices(m.dag.graph) = UserVertices(d.graph) \cup m.inserted
    /\ m.inserted \cap VertexSet(d.graph) = {}
    /\ m.inserted = {} => m.dag = d
    /\ Stocked(d.graph) => Stocked(m.dag.graph)

(* One vertex more is stored, or none.                                      *)
LEMMA MergeOneState ==
    ASSUME NEW Known, KnownOK(Known), NEW d, NEW m, IsMerge(d, Known, m),
           NEW t \in Known, NEW r, r = MergeOne(m, t)
    PROVE  IsMerge(d, Known, r)
  <1> DEFINE g == m.dag.graph
             stored == insert_graph_only(m.dag, t)
             h == InsertVertex(g, t)
  <1>1. \/ r = m
        \/ r = [m EXCEPT !.verdict = "MissingParent"]
        \/ /\ t.id \notin VertexSet(g)
           /\ r = [verdict |-> stored.verdict, dag |-> stored.dag,
                   inserted |-> IF stored.verdict = "Ok" THEN m.inserted \cup {t.id}
                                ELSE m.inserted]
    BY DEF MergeOne
  <1>2. CASE r = m
    BY <1>2
  <1>3. CASE r = [m EXCEPT !.verdict = "MissingParent"]
    <2>1. r.dag = m.dag /\ r.inserted = m.inserted
          /\ r = [verdict |-> r.verdict, dag |-> r.dag, inserted |-> r.inserted]
      BY <1>3 DEF IsMerge
    <2> QED BY <2>1 DEF IsMerge
  <1>4. /\ stored.verdict = GraphVerdict(g, t)
        /\ stored.dag = IF GraphVerdict(g, t) = "Ok"
                        THEN [m.dag EXCEPT !.graph = h] ELSE m.dag
    BY DEF insert_graph_only
  <1> HIDE DEF stored
  <1>5. CASE /\ GraphVerdict(g, t) # "Ok"
             /\ r = [verdict |-> stored.verdict, dag |-> stored.dag,
                     inserted |-> m.inserted]
    BY <1>4, <1>5 DEF IsMerge
  <1>6. CASE /\ GraphVerdict(g, t) = "Ok"
             /\ r = [verdict |-> stored.verdict, dag |-> stored.dag,
                     inserted |-> m.inserted \cup {t.id}]
    <2> DEFINE s == [m.dag EXCEPT !.graph = h]
    <2>1. ReplicaState(m.dag, Known) /\ GraphOK(g) /\ StoredFrom(g, Known) /\ IsRecord(m.dag)
      BY DEF IsMerge, ReplicaState, ReplicaOK
    <2>2. ReplicaState(s, Known)
      BY <1>6, <2>1, StoredState
    <2>3. /\ t.id \notin VertexSet(g)
          /\ h.vertices[t.id] = t
          /\ \A i \in VertexSet(g) : h.vertices[i] = g.vertices[i]
          /\ UserVertices(h) = UserVertices(g) \cup {t.id}
      BY <1>6, <2>1, InsertedUsers
    <2>4. VertexSet(h) = VertexSet(g) \cup {t.id}
      BY InsertedFields
    <2> HIDE DEF h
    <2>5. /\ s.graph = h /\ s.ledger = m.dag.ledger /\ s.faucet = m.dag.faucet
          /\ s.conflicts = m.dag.conflicts
      BY <2>1 DEF IsRecord
    <2>6. r.dag = s /\ r.inserted = m.inserted \cup {t.id}
          /\ r = [verdict |-> r.verdict, dag |-> r.dag, inserted |-> r.inserted]
      BY <1>4, <1>6
    <2>7. Stocked(g) => Stocked(s.graph)
      BY <1>6, <2>1, <2>5, InsertKeepsStock DEF h
    <2> HIDE DEF s
    <2> QED BY <2>2, <2>3, <2>4, <2>5, <2>6, <2>7 DEF IsMerge
  <1> QED BY <1>1, <1>2, <1>3, <1>4, <1>5, <1>6

(* And so the whole batch, whatever ends it.                                *)
LEMMA MergeState ==
    ASSUME NEW Known, KnownOK(Known), NEW d, ReplicaState(d, Known),
           NEW batch, \A i \in DOMAIN batch : batch[i] \in Known,
           NEW order \in Seq(DOMAIN batch), NEW v
    PROVE  IsMerge(d, Known, AllMerged(v, d, batch, order))
  <1> DEFINE N == Len(order)
  <1>1. /\ N \in Nat /\ DOMAIN order = 1 .. N
        /\ \A n \in 1 .. N : order[n] \in DOMAIN batch
    BY LenProperties, ElementOfSeq
  <1> HIDE DEF N
  <1>2. PICK run : /\ IsMerging(v, d, batch, order, N, run)
                   /\ AllMerged(v, d, batch, order) = run[N]
    BY <1>1, MergingRun
  <1> DEFINE T == {n \in 0 .. N : IsMerge(d, Known, run[n])}
  <1>3. 0 \in T
    <2>1. run[0] = [verdict |-> v, dag |-> d, inserted |-> {}]
      BY <1>2 DEF IsMerging
    <2>2. IsMerge(d, Known, run[0])
      BY <2>1 DEF IsMerge
    <2> QED BY <1>1, <2>2
  <1>4. ASSUME NEW n \in 1 .. N, n - 1 \in T PROVE n \in T
    <2>1. IsMerge(d, Known, run[n - 1]) /\ n \in 0 .. N
      BY <1>1, <1>4
    <2>2. run[n] = MergeOne(run[n - 1], batch[order[n]])
      BY <1>2 DEF IsMerging
    <2>3. batch[order[n]] \in Known
      BY <1>1
    <2>4. IsMerge(d, Known, run[n])
      BY <2>1, <2>2, <2>3, MergeOneState
    <2> QED BY <2>1, <2>4
  <1>5. \A n \in 0 .. N : n \in T
    <2> HIDE DEF T
    <2> QED BY <1>1, <1>3, <1>4, IndexSetInduction
  <1>6. N \in T
    <2>1. N \in 0 .. N
      BY <1>1
    <2> HIDE DEF T
    <2> QED BY <1>5, <2>1
  <1> QED BY <1>2, <1>6

-----------------------------------------------------------------------------
(* What the relays are paid.                                               *)

(* A larger pool leaves the relays no less.                                 *)
LEMMA RelayTotalGrows ==
    ASSUME NEW p \in Nat, NEW q \in Nat, p <= q
    PROVE  dag_relay_total_of(p) <= dag_relay_total_of(q)
  <1> DEFINE x == IF p * 80 > U64_MAX THEN U64_MAX ELSE p * 80
             y == IF q * 80 > U64_MAX THEN U64_MAX ELSE q * 80
  <1>0. U64_MAX \in Nat
    BY EconomicsAssumption
  <1>1. /\ dag_miner_share_of(p) = x \div 100
        /\ dag_miner_share_of(q) = y \div 100
    BY DEF dag_miner_share_of, SaturatingMul, DAG_MINER_SHARE_PERCENT
  <1>2. x \in Nat /\ y \in Nat /\ y <= x + 80 * (q - p)
    BY <1>0
  <1> HIDE DEF x, y
  <1> DEFINE a == x \div 100
             b == y \div 100
  <1>3. /\ a \in Nat /\ b \in Nat
        /\ 100 * a <= x /\ x < 100 * a + 100
        /\ 100 * b <= y /\ y < 100 * b + 100
    BY <1>2
  <1>4. dag_miner_share_of(p) = a /\ dag_miner_share_of(q) = b
    BY <1>1
  <1> HIDE DEF a, b
  <1>5. dag_relay_total_of(p) = p - a /\ dag_relay_total_of(q) = q - b
    BY <1>3, <1>4, SplitOfPool
  <1>6. b - a <= q - p
    BY <1>2, <1>3
  <1> QED BY <1>3, <1>5, <1>6

(* A total that is no smaller than the number of relays has a share for     *)
(* each.                                                                    *)
LEMMA EachRelayGets ==
    ASSUME NEW relays \in Seq(Address), NEW total \in Nat, Len(relays) <= total
    PROVE  /\ DOMAIN RelayPayouts(relays, total) = 1 .. Len(relays)
           /\ \A n \in 1 .. Len(relays) :
                 /\ RelayPayouts(relays, total)[n].to = relays[n]
                 /\ RelayPayouts(relays, total)[n].amount \in Nat \ {0}
  <1> DEFINE k == Len(relays)
             each == total \div k
             dust == total % k
  <1>1. k \in Nat /\ DOMAIN relays = 1 .. k
    OBVIOUS
  <1>2. RelayPayouts(relays, total) =
           [n \in 1 .. k |-> [to |-> relays[n], amount |-> IF n = 1 THEN each + dust ELSE each]]
    BY <1>1 DEF RelayPayouts
  <1>3. ASSUME NEW n \in 1 .. k PROVE each \in Nat \ {0} /\ dust \in Nat
    <2> HIDE DEF k
    <2>1. k > 0 /\ k \in Nat /\ k <= total
      BY <1>1, <1>3 DEF k
    <2>2. each \in Nat /\ dust \in 0 .. k - 1 /\ k * each + dust = total
      BY <2>1
    <2> HIDE DEF each, dust
    <2>3. each # 0
      <3>1. SUFFICES ASSUME each = 0 PROVE FALSE
        OBVIOUS
      <3>2. k * each = 0
        BY <2>1, <3>1
      <3> QED BY <2>1, <2>2, <3>2
    <2> QED BY <2>2, <2>3
  <1> HIDE DEF each, dust, k
  <1>4. \A n \in 1 .. k : (IF n = 1 THEN each + dust ELSE each) \in Nat \ {0}
    BY <1>3
  <1> QED BY <1>2, <1>4 DEF k

(* One payout that is made.                                                 *)
LEMMA RelayCredited ==
    ASSUME NEW m \in Mints, NEW payout, payout.to \in Address, payout.amount \in Nat \ {0},
           NEW r, r = CreditRelay(m, payout), r.ok
    PROVE  /\ m.ok
           /\ \A a \in Address : r.ledger.relay_credits[a] > 0
                                   <=> m.ledger.relay_credits[a] > 0 \/ a = payout.to
  <1> DEFINE to     == payout.to
             amount == payout.amount
             paid   == CreditMiner(m, to, amount)
  <1>0. to \in Address /\ amount \in Nat \ {0} /\ U64_MAX \in Nat
    BY EconomicsAssumption
  <1>1. /\ paid \in Mints
        /\ paid.ledger.relay_credits = m.ledger.relay_credits
        /\ paid.ok => m.ok
    BY <1>0, CreditMinerFacts
  <1>d. r = IF ~m.ok \/ ~paid.ok THEN [m EXCEPT !.ok = FALSE]
            ELSE IF paid.ledger.relay_credits[to] + amount > U64_MAX
            THEN [paid EXCEPT !.ok = FALSE]
            ELSE [paid EXCEPT !.ledger.relay_credits[to] = @ + amount]
    BY DEF CreditRelay
  <1>t. /\ m.ledger \in Ledgers /\ m.ok \in BOOLEAN
        /\ paid.ledger \in Ledgers /\ paid.ok \in BOOLEAN
    BY <1>1 DEF Mints
  <1>c. paid.ledger.relay_credits \in [Address -> 0 .. U64_MAX]
    BY <1>t, LedgerFields
  <1> HIDE DEF paid, to, amount
  <1>2. m.ok /\ paid.ok /\ ~(paid.ledger.relay_credits[to] + amount > U64_MAX)
    <2>1. ([m EXCEPT !.ok = FALSE]).ok = FALSE /\ ([paid EXCEPT !.ok = FALSE]).ok = FALSE
      BY <1>1 DEF Mints
    <2> QED BY <1>d, <2>1
  <1> DEFINE old == paid.ledger.relay_credits
             new == [old EXCEPT ![to] = @ + amount]
  <1>3. r = [paid EXCEPT !.ledger = [paid.ledger EXCEPT !.relay_credits = new]]
    BY <1>2, <1>d
  <1>4. \A a \in Address : new[a] > 0 <=> old[a] > 0 \/ a = to
    BY <1>0, <1>c
  <1> HIDE DEF new
  <1>5. r.ledger.relay_credits = new
    BY <1>1, <1>t, <1>3 DEF Mints, Ledgers
  <1> QED BY <1>1, <1>2, <1>4, <1>5 DEF to

(* All payouts of a vertex.                                                 *)
LEMMA RelaysCredited ==
    ASSUME NEW base \in Mints, NEW relays \in Seq(Address), NEW total \in Nat,
           Len(relays) <= total,
           NEW r, r = FoldLeft(CreditRelay, base, RelayPayouts(relays, total)), r.ok
    PROVE  \A a \in Address : r.ledger.relay_credits[a] > 0
                                <=> base.ledger.relay_credits[a] > 0 \/ a \in ToSet(relays)
  <1> DEFINE payouts == RelayPayouts(relays, total)
             k == Len(relays)
  <1>1. /\ k \in Nat /\ DOMAIN relays = 1 .. k /\ DOMAIN payouts = 1 .. k
        /\ \A n \in 1 .. k : /\ relays[n] \in Address /\ payouts[n].to = relays[n]
                             /\ payouts[n].amount \in Nat \ {0}
    BY EachRelayGets
  <1> HIDE DEF payouts, k
  <1>2. \A n \in 1 .. k : payouts[n].to \in Address /\ payouts[n].amount \in Nat
    BY <1>1
  <1>3. PICK run : IsPayoutRun(base, payouts, k, run)
    BY <1>1, <1>2, PayoutRun
  <1>4. /\ run[0] = base
        /\ \A n \in 0 .. k : run[n] \in Mints
        /\ \A n \in 1 .. k : run[n] = CreditRelay(run[n - 1], payouts[n])
        /\ r = run[k]
    BY <1>3 DEF IsPayoutRun, payouts
  <1> DEFINE Paid(n, a) == base.ledger.relay_credits[a] > 0 \/ \E i \in 1 .. n : relays[i] = a
             P(n) == run[n].ok =>
                        \A a \in Address : run[n].ledger.relay_credits[a] > 0 <=> Paid(n, a)
             T == {n \in 0 .. k : P(n)}
  <1>5. 0 \in T
    <2>1. 0 \in 0 .. k /\ 1 .. 0 = {}
      BY <1>1
    <2> QED BY <1>4, <2>1
  <1>6. ASSUME NEW n \in 1 .. k, n - 1 \in T PROVE n \in T
    <2>1. n \in 0 .. k /\ n - 1 \in 0 .. k /\ P(n - 1)
      BY <1>1, <1>6
    <2>2. 1 .. n = (1 .. n - 1) \cup {n}
      BY <1>1
    <2> DEFINE m == run[n - 1]
               s == run[n]
    <2>3. m \in Mints /\ s = CreditRelay(m, payouts[n])
      BY <1>4, <2>1
    <2> HIDE DEF m, s
    <2>4. ASSUME s.ok
          PROVE  /\ m.ok
                 /\ \A a \in Address : s.ledger.relay_credits[a] > 0
                                         <=> m.ledger.relay_credits[a] > 0 \/ a = relays[n]
      BY <1>1, <2>3, <2>4, RelayCredited
    <2>5. ASSUME NEW a \in Address PROVE Paid(n, a) <=> Paid(n - 1, a) \/ a = relays[n]
      BY <2>2
    <2> HIDE DEF Paid
    <2> QED BY <2>1, <2>4, <2>5 DEF m, s
  <1>7. \A n \in 0 .. k : n \in T
    <2> HIDE DEF T
    <2> QED BY <1>1, <1>5, <1>6, IndexSetInduction
  <1>8. k \in 0 .. k
    BY <1>1
  <1>9. P(k)
    BY <1>7, <1>8
  <1>10. \A a \in Address : (\E i \in 1 .. k : relays[i] = a) <=> a \in ToSet(relays)
    BY <1>1 DEF ToSet
  <1> QED BY <1>4, <1>9, <1>10

(* The mint of a vertex whose fee has a share for each of its relays.       *)
LEMMA MintCredits ==
    ASSUME NEW L \in Ledgers, NEW fee \in Nat, NEW miner \in Address,
           NEW relays \in Seq(Address), Len(relays) <= dag_relay_total_of(fee),
           NEW r, r = mint_confirmed_tx(L, fee, miner, relays), r.ok
    PROVE  \A a \in Address : r.ledger.relay_credits[a] > 0
                                <=> L.relay_credits[a] > 0 \/ a \in ToSet(relays)
  <1> DEFINE subsidy == get_current_tx_subsidy(L.dag_tx_count, L.current_supply)
             pool  == subsidy + fee
             total == dag_relay_total_of(pool)
             share == MinerPayout(relays, pool)
             start == [ok |-> TRUE, ledger |-> L]
             first == CreditMiner(start, miner, share)
             paid  == FoldLeft(CreditRelay, first, RelayPayouts(relays, total))
  <1>0. U64_MAX \in Nat
    BY EconomicsAssumption
  <1>s. subsidy \in Nat
    <2>1. L.current_supply \in 0 .. HARD_CAP /\ L.dag_tx_count \in Nat
      BY LedgerFields
    <2>2. subsidy \in 0 .. INITIAL_TX_SUBSIDY /\ INITIAL_TX_SUBSIDY \in Nat
      BY <2>1, SubsidyBound, EconomicsAssumption
    <2> HIDE DEF subsidy
    <2> QED BY <2>2
  <1>1. r = IF pool > U64_MAX THEN [start EXCEPT !.ok = FALSE]
            ELSE IF ~paid.ok THEN paid
            ELSE [paid EXCEPT !.ledger.current_supply = @ + subsidy,
                              !.ledger.dag_tx_count = @ + 1]
    BY DEF mint_confirmed_tx
  <1>2. start \in Mints /\ start.ledger = L
    BY DEF Mints
  <1>p. pool \in Nat /\ fee <= pool
    BY <1>s
  <1> HIDE DEF pool, subsidy
  <1>3. /\ dag_miner_share_of(pool) \in Nat /\ total \in Nat
        /\ dag_miner_share_of(pool) + total = pool
        /\ dag_relay_total_of(fee) <= total /\ dag_relay_total_of(fee) \in Nat
    BY <1>p, SplitOfPool, RelayTotalGrows
  <1>4. share \in Nat
    <2>1. CASE relays = <<>>
      BY <1>0, <1>3, <2>1 DEF MinerPayout, SaturatingAdd
    <2>2. CASE relays # <<>>
      BY <1>3, <2>2 DEF MinerPayout
    <2> QED BY <2>1, <2>2
  <1>5. Len(relays) <= total
    <2>1. Len(relays) \in Nat
      OBVIOUS
    <2> HIDE DEF total
    <2> QED BY <1>3, <2>1
  <1> HIDE DEF share, start, total
  <1>6. first \in Mints /\ first.ledger.relay_credits = L.relay_credits
    BY <1>2, <1>4, CreditMinerFacts
  <1> HIDE DEF first
  <1>7. paid \in Mints
    BY <1>3, <1>6, RelaysPaid
  <1>8. ASSUME paid.ok
        PROVE  \A a \in Address : paid.ledger.relay_credits[a] > 0
                                    <=> first.ledger.relay_credits[a] > 0 \/ a \in ToSet(relays)
    BY <1>3, <1>5, <1>6, <1>8, RelaysCredited
  <1> HIDE DEF paid
  <1>9. paid.ok /\ r.ledger.relay_credits = paid.ledger.relay_credits
    <2>1. ([start EXCEPT !.ok = FALSE]).ok = FALSE
      BY <1>2 DEF Mints
    <2>2. ~(pool > U64_MAX) /\ paid.ok
      BY <1>1, <2>1
    <2>3. r = [paid EXCEPT !.ledger.current_supply = @ + subsidy,
                           !.ledger.dag_tx_count = @ + 1]
      BY <1>1, <2>2
    <2> QED BY <1>7, <2>2, <2>3 DEF Mints, Ledgers
  <1> QED BY <1>6, <1>8, <1>9

(* The relays' part of the fee has a share for each relay of t.              *)
HasShares(t) == Len(t.relays) <= dag_relay_total_of(FIXED_TRANSACTION_FEE)

SharesFit(Known) == \A t \in Known : HasShares(t)

(* A spend that is allowed moves money, and no relay income.                *)
LEMMA SpendCredits ==
    ASSUME NEW L \in Ledgers, NEW t, IsTransaction(t), SpendVerdict(L, t) = "Ok",
           NEW S, S = Spend(L, t)
    PROVE  S \in Ledgers /\ S.relay_credits = L.relay_credits
  <1> DEFINE bal    == L.balances
             fee    == Fee(t)
             self   == [bal EXCEPT ![t.sender] = @ - fee]
             paid   == [bal EXCEPT ![t.sender] = @ - (t.amount + fee)]
             both   == [paid EXCEPT ![t.recipient] = @ + t.amount]
             moved  == IF t.sender = t.recipient THEN self ELSE both
             nonces == [L.next_nonce EXCEPT ![t.sender] = SaturatingAdd(@, 1)]
  <1>1. fee \in Nat /\ U64_MAX \in Nat
    BY EconomicsAssumption DEF Fee
  <1>2. /\ t.sender \in Address /\ t.recipient \in Address
        /\ t.amount \in Nat /\ t.nonce \in Nat
    BY DEF IsTransaction
  <1>3. /\ bal \in [Address -> 0 .. U64_MAX] /\ L.next_nonce \in [Address -> 0 .. U64_MAX]
    BY LedgerFields
  <1>4. /\ bal[t.sender] >= t.amount + fee
        /\ t.sender # t.recipient => bal[t.recipient] + t.amount <= U64_MAX
    BY <1>1, <1>2, <1>3 DEF SpendVerdict
  <1>5. S = [L EXCEPT !.balances = moved, !.next_nonce = nonces]
    BY DEF Spend
  <1> HIDE DEF fee, bal
  <1>6. nonces \in [Address -> 0 .. U64_MAX]
    BY <1>1, <1>2, <1>3 DEF SaturatingAdd
  <1>7. self \in [Address -> 0 .. U64_MAX] /\ paid \in [Address -> 0 .. U64_MAX]
    BY <1>1, <1>2, <1>3, <1>4
  <1>8. t.sender # t.recipient => paid[t.recipient] = bal[t.recipient]
    BY <1>2, <1>3
  <1> HIDE DEF self, paid, nonces
  <1>9. t.sender # t.recipient => both \in [Address -> 0 .. U64_MAX]
    BY <1>1, <1>2, <1>3, <1>4, <1>7, <1>8
  <1> HIDE DEF both
  <1>10. moved \in [Address -> 0 .. U64_MAX]
    BY <1>7, <1>9
  <1> HIDE DEF moved
  <1> QED BY <1>5, <1>6, <1>10 DEF Ledgers

(* Applying a vertex.                                                       *)
LEMMA EffectCredits ==
    ASSUME NEW L \in Ledgers, NEW t, IsTransaction(t), ~is_genesis(t),
           HasShares(t), NEW r, r = apply_ledger_effects(L, t), r.verdict = "Ok"
    PROVE  \A a \in Address : r.ledger.relay_credits[a] > 0
                                <=> L.relay_credits[a] > 0 \/ a \in ToSet(t.relays)
  <1> DEFINE S == Spend(L, t)
             m == mint_confirmed_tx(S, Fee(t), t.sender, t.relays)
  <1>1. SpendVerdict(L, t) = "Ok" /\ m.ok /\ r.ledger = m.ledger
    BY DEF apply_ledger_effects
  <1>2. S \in Ledgers /\ S.relay_credits = L.relay_credits
    <2>1. S = Spend(L, t)
      OBVIOUS
    <2>2. SpendVerdict(L, t) = "Ok"
      BY <1>1
    <2> HIDE DEF S, m
    <2> QED BY <2>1, <2>2, SpendCredits
  <1>3. /\ Fee(t) = FIXED_TRANSACTION_FEE /\ Fee(t) \in Nat
        /\ t.sender \in Address /\ t.relays \in Seq(Address)
    BY EconomicsAssumption DEF Fee, IsTransaction
  <1> HIDE DEF S
  <1>4. Len(t.relays) <= dag_relay_total_of(Fee(t))
    BY <1>3 DEF HasShares
  <1>5. \A a \in Address : m.ledger.relay_credits[a] > 0
                             <=> S.relay_credits[a] > 0 \/ a \in ToSet(t.relays)
    BY <1>1, <1>2, <1>3, <1>4, MintCredits
  <1> QED BY <1>1, <1>2, <1>5

(* The ledger has relay income for an account exactly if one of the         *)
(* vertices A of V carries its proof.                                       *)
Pays(L, V, A) ==
    \A a \in Address : L.relay_credits[a] > 0 <=> \E i \in A : a \in ToSet(V[i].relays)

(* One more vertex.                                                         *)
LEMMA PaysOneMore ==
    ASSUME NEW L, NEW V, NEW A, NEW x, NEW M, Pays(L, V, A),
           \A a \in Address : M.relay_credits[a] > 0
                                <=> L.relay_credits[a] > 0 \/ a \in ToSet(V[x].relays)
    PROVE  Pays(M, V, A \cup {x})
  BY DEF Pays

(* Only the vertices paid for matter.                                       *)
LEMMA PaysSame ==
    ASSUME NEW L, NEW V, NEW A, NEW W, Pays(L, V, A), \A i \in A : V[i] = W[i]
    PROVE  Pays(L, W, A)
  BY DEF Pays

(* What a replay of txs that is not aborted pays for.                       *)
IsPaidReplay(txs, N, V, r) ==
    ~r.aborted => Pays(r.ledger, V, {txs[n].id : n \in 1 .. N} \ r.rejected)

(* A replay pays for what it applies.                                       *)
LEMMA ReplayPays ==
    ASSUME NEW faucet, NEW N \in Nat, RoomFor(faucet, N),
           NEW V, NEW txs, DOMAIN txs = 1 .. N,
           \A n \in 1 .. N :
              /\ IsTransaction(txs[n]) /\ ~is_genesis(txs[n]) /\ V[txs[n].id] = txs[n]
              /\ HasShares(txs[n]),
           \A m, n \in 1 .. N : txs[m].id = txs[n].id => m = n,
           NEW r, r = Replay(faucet, txs)
    PROVE  IsPaidReplay(txs, N, V, r)
  <1>1. PICK run : IsReplayRun(faucet, txs, N, run)
    BY ReplayRun
  <1>2. /\ run[0] = [ledger |-> BaselineLedger(faucet), rejected |-> {}, aborted |-> FALSE]
        /\ \A n \in 1 .. N : run[n] = ReplayStep(run[n - 1], txs[n])
        /\ r = run[N]
    BY <1>1 DEF IsReplayRun
  <1> DEFINE Ids(n) == {txs[m].id : m \in 1 .. n}
             P(n) == /\ LedgerOK(run[n].ledger, faucet)
                     /\ run[n].ledger.dag_tx_count <= n
                     /\ run[n].rejected \subseteq Ids(n)
                     /\ run[n].aborted \in BOOLEAN
                     /\ ~run[n].aborted => Pays(run[n].ledger, V, Ids(n) \ run[n].rejected)
             T == {n \in 0 .. N : P(n)}
  <1>3. 0 \in T
    <2> DEFINE L == BaselineLedger(faucet)
    <2>1. run[0].ledger = L /\ run[0].rejected = {} /\ run[0].aborted = FALSE
      BY <1>2
    <2>2. LedgerOK(L, faucet)
      BY BaselineLedgerOK DEF RoomFor
    <2>3. L.dag_tx_count = 0 /\ \A a \in Address : L.relay_credits[a] = 0
      BY DEF BaselineLedger
    <2>4. Ids(0) = {} /\ Ids(0) \ {} = {}
      OBVIOUS
    <2> HIDE DEF L, Ids
    <2>5. Pays(L, V, {})
      BY <2>3 DEF Pays
    <2>6. 0 \in 0 .. N /\ 0 <= 0
      OBVIOUS
    <2>7. P(0)
      BY <2>1, <2>2, <2>3, <2>4, <2>5, <2>6
    <2> HIDE DEF P
    <2> QED BY <2>6, <2>7
  <1>4. ASSUME NEW n \in 1 .. N, n - 1 \in T PROVE n \in T
    <2> DEFINE p == run[n - 1]
               t == txs[n]
               L == p.ledger
               e == apply_ledger_effects(L, t)
               s == run[n]
    <2>1. P(n - 1) /\ n - 1 \in Nat /\ n - 1 \in 0 .. N /\ n \in 0 .. N
      BY <1>4
    <2>2. /\ p.aborted => s = p
          /\ ~p.aborted =>
                /\ s.ledger = e.ledger
                /\ s.rejected = IF e.verdict \in {"DoubleSpend", "InsufficientBalance"}
                                THEN p.rejected \cup {t.id} ELSE p.rejected
                /\ s.aborted = (e.verdict = "Overflow")
      <3>1. s = ReplayStep(p, t)
        BY <1>2
      <3> HIDE DEF p, t, s
      <3> QED BY <3>1 DEF ReplayStep
    <2>3. Ids(n) = Ids(n - 1) \cup {t.id} /\ t.id \notin Ids(n - 1)
      <3>1. 1 .. n = (1 .. n - 1) \cup {n}
        OBVIOUS
      <3>2. \A m \in 1 .. n - 1 : m \in 1 .. N /\ m # n
        OBVIOUS
      <3> QED BY <3>1, <3>2
    <2>4. /\ IsTransaction(t) /\ ~is_genesis(t) /\ V[t.id] = t
          /\ HasShares(t)
      OBVIOUS
    <2>5. /\ LedgerOK(L, faucet) /\ L.dag_tx_count <= n - 1 /\ p.rejected \subseteq Ids(n - 1)
          /\ p.aborted \in BOOLEAN
          /\ ~p.aborted => Pays(L, V, Ids(n - 1) \ p.rejected)
      BY <2>1
    <2>6. L \in Ledgers /\ L.dag_tx_count \in Nat
      <3>1. L \in Ledgers
        BY <2>5 DEF LedgerOK
      <3> QED BY <3>1, LedgerFields
    <2>7. RoomFor(faucet, L.dag_tx_count + 1)
      <3>1. L.dag_tx_count + 1 \in 0 .. N
        BY <2>5, <2>6
      <3> QED BY <3>1, RoomBelow
    <2> HIDE DEF Ids, t, s
    <2>8. P(n) <=> /\ LedgerOK(s.ledger, faucet)
                   /\ s.ledger.dag_tx_count <= n
                   /\ s.rejected \subseteq Ids(n)
                   /\ s.aborted \in BOOLEAN
                   /\ ~s.aborted => Pays(s.ledger, V, Ids(n) \ s.rejected)
      BY DEF s
    <2> HIDE DEF P, p, L
    <2>9. IsEffect(faucet, L, t, e)
      BY <2>4, <2>5, <2>7, EffectsFacts
    <2>10. e.verdict = "Ok" =>
              \A a \in Address : e.ledger.relay_credits[a] > 0
                                   <=> L.relay_credits[a] > 0 \/ a \in ToSet(t.relays)
      BY <2>4, <2>6, EffectCredits
    <2> HIDE DEF e
    <2>11. /\ LedgerOK(e.ledger, faucet)
           /\ e.verdict \in {"Ok", "DoubleSpend", "InsufficientBalance", "Overflow"}
           /\ e.verdict # "Ok" => e.ledger = L
           /\ e.verdict = "Ok" => e.ledger.dag_tx_count = L.dag_tx_count + 1
      BY <2>9 DEF IsEffect
    <2>12. CASE p.aborted
      <3>1. s.ledger = L /\ s.rejected = p.rejected /\ s.aborted
        BY <2>2, <2>12 DEF L
      <3>2. L.dag_tx_count <= n
        BY <2>1, <2>5, <2>6
      <3>3. p.rejected \subseteq Ids(n) /\ s.aborted \in BOOLEAN
        BY <2>2, <2>3, <2>5, <2>12
      <3> QED BY <2>5, <2>8, <3>1, <3>2, <3>3, <2>1
    <2>13. CASE ~p.aborted /\ e.verdict = "Ok"
      <3>1. s.ledger = e.ledger /\ s.rejected = p.rejected /\ s.aborted = FALSE
        BY <2>2, <2>13
      <3> DEFINE A == Ids(n - 1) \ p.rejected
      <3>2. Pays(L, V, A) /\ Ids(n) \ p.rejected = A \cup {t.id}
        BY <2>3, <2>5, <2>13
      <3> HIDE DEF A
      <3>3. \A a \in Address : e.ledger.relay_credits[a] > 0
                                 <=> L.relay_credits[a] > 0 \/ a \in ToSet(V[t.id].relays)
        BY <2>4, <2>10, <2>13
      <3> DEFINE x == t.id
                 M == e.ledger
      <3>4. Pays(M, V, A \cup {x})
        <4>1. \A a \in Address : M.relay_credits[a] > 0
                                   <=> L.relay_credits[a] > 0 \/ a \in ToSet(V[x].relays)
          BY <3>3
        <4> HIDE DEF x, M
        <4> QED BY <3>2, <4>1, PaysOneMore
      <3>5. e.ledger.dag_tx_count <= n
        BY <2>1, <2>5, <2>6, <2>11, <2>13
      <3>6. p.rejected \subseteq Ids(n)
        BY <2>3, <2>5
      <3> QED BY <2>1, <2>8, <2>11, <3>1, <3>2, <3>4, <3>5, <3>6
    <2>14. CASE ~p.aborted /\ e.verdict \in {"DoubleSpend", "InsufficientBalance"}
      <3>1. /\ s.ledger = L /\ s.rejected = p.rejected \cup {t.id} /\ s.aborted = FALSE
        BY <2>2, <2>11, <2>14
      <3>2. Ids(n) \ s.rejected = Ids(n - 1) \ p.rejected
        BY <2>3, <2>5, <3>1
      <3>3. L.dag_tx_count <= n /\ s.rejected \subseteq Ids(n)
        BY <2>1, <2>3, <2>5, <2>6, <3>1
      <3> QED BY <2>1, <2>5, <2>8, <2>14, <3>1, <3>2, <3>3
    <2>15. CASE ~p.aborted /\ e.verdict = "Overflow"
      <3>1. s.ledger = L /\ s.rejected = p.rejected /\ s.aborted = TRUE
        BY <2>2, <2>11, <2>15
      <3>2. L.dag_tx_count <= n /\ p.rejected \subseteq Ids(n)
        BY <2>1, <2>3, <2>5, <2>6
      <3> QED BY <2>1, <2>5, <2>8, <3>1, <3>2
    <2>16. P(n)
      BY <2>11, <2>12, <2>13, <2>14, <2>15
    <2> QED BY <2>1, <2>16
  <1>5. \A n \in 0 .. N : n \in T
    <2> HIDE DEF T
    <2> QED BY <1>3, <1>4, IndexSetInduction
  <1>6. P(N)
    <2>1. N \in 0 .. N
      OBVIOUS
    <2>2. N \in T
      BY <1>5, <2>1
    <2> HIDE DEF P
    <2> QED BY <2>2
  <1> HIDE DEF Ids
  <1>7. ~r.aborted => Pays(r.ledger, V, Ids(N) \ r.rejected)
    BY <1>2, <1>6
  <1> QED BY <1>7 DEF IsPaidReplay, Ids

(* All spends of d but the pending ones are paid for, and no others.        *)
Paying(d, pending) == Pays(d.ledger, d.graph.vertices, Applied(d) \ pending)

(* A rebuild pays for all it applies, if every amount can be paid.          *)
LEMMA RebuildPays ==
    ASSUME NEW Known, KnownOK(Known), SharesFit(Known), NEW d, ReplicaState(d, Known),
           KnownRoom(Known, d.faucet), AmountsFit(d.graph),
           NEW r, r = resolve_conflicts_and_rebuild_ledger(d)
    PROVE  Paying(r.dag, {})
  <1> DEFINE g      == d.graph
             V      == g.vertices
             losers == Losers(g)
             chosen == UserVertices(g) \ losers
             txs    == SpendsInOrder(g, losers)
             N      == Len(txs)
             replay == Replay(d.faucet, txs)
             lost   == [i \in losers \cup replay.rejected |->
                          IF i \in losers THEN Winner(g, i) ELSE NULL_PARENT]
             C      == IF replay.aborted THEN d.conflicts ELSE lost
  <1>1. /\ IsRecord(d) /\ GraphOK(g) /\ StoredFrom(g, Known)
    BY DEF ReplicaState, ReplicaOK
  <1>2. /\ UserVertices(g) \subseteq VertexSet(g)
        /\ IsFiniteSet(UserVertices(g))
        /\ Cardinality(UserVertices(g)) \in Nat
        /\ Cardinality(UserVertices(g)) <= Cardinality({t.id : t \in Known})
        /\ \A i \in UserVertices(g) : V[i].id = i /\ IsTransaction(V[i]) /\ ~is_genesis(V[i])
    BY <1>1, UserVerticesFacts
  <1>s. \A i \in UserVertices(g) :
           HasShares(V[i])
    <2>1. \A i \in UserVertices(g) : V[i] \in Known
      <3>1. is_genesis(signed_genesis_tx)
        BY DEF is_genesis, signed_genesis_tx
      <3> QED BY <1>1, <3>1 DEF StoredFrom, UserVertices
    <2> QED BY <2>1 DEF SharesFit
  <1>3. /\ r.dag = [d EXCEPT !.ledger = replay.ledger, !.conflicts = C]
        /\ r.verdict = IF replay.aborted THEN "Overflow" ELSE "Ok"
    BY DEF resolve_conflicts_and_rebuild_ledger
  <1>4. /\ r.dag.graph = g /\ r.dag.ledger = replay.ledger /\ r.dag.conflicts = C
    <2> HIDE DEF C, replay
    <2> QED BY <1>1, <1>3 DEF IsRecord
  <1>5. ListsOnce(g, chosen, txs)
    <2>1. \A i \in VertexSet(g) : V[i].id = i
      BY <1>1 DEF StoredFrom
    <2>2. chosen \subseteq VertexSet(g) /\ txs = transactions_for_in_order(g, chosen)
      BY <1>2 DEF SpendsInOrder
    <2> HIDE DEF chosen, txs
    <2> QED BY <1>1, <2>1, <2>2, OrderedBodies
  <1> HIDE DEF txs
  <1>6. /\ DOMAIN txs = 1 .. N /\ N \in Nat /\ N = Cardinality(chosen)
        /\ {txs[n].id : n \in 1 .. N} = chosen
        /\ \A n \in 1 .. N : txs[n] = V[txs[n].id]
        /\ \A m, n \in 1 .. N : txs[m].id = txs[n].id => m = n
    BY <1>5 DEF ListsOnce
  <1> HIDE DEF N
  <1>7. N <= Cardinality(UserVertices(g))
    BY <1>2, <1>6, FS_Subset
  <1>8. RoomFor(d.faucet, N)
    <2> DEFINE K == Cardinality({t.id : t \in Known})
               c == Cardinality(UserVertices(g))
    <2>1. K \in Nat /\ RoomFor(d.faucet, K)
      BY FS_CardinalityType DEF KnownOK, KnownRoom
    <2>2. c <= K /\ c \in Nat /\ N <= c /\ N \in Nat
      BY <1>2, <1>6, <1>7
    <2> HIDE DEF K, c
    <2>3. N \in 0 .. K
      BY <2>1, <2>2
    <2> QED BY <2>1, <2>3, RoomBelow
  <1>9. \A n \in 1 .. N : txs[n].id \in UserVertices(g)
    <2>1. \A n \in 1 .. N : txs[n].id \in {txs[m].id : m \in 1 .. N}
      OBVIOUS
    <2>2. chosen \subseteq UserVertices(g)
      OBVIOUS
    <2> HIDE DEF chosen
    <2> QED BY <1>6, <2>1, <2>2
  <1>10. \A n \in 1 .. N :
            /\ IsTransaction(txs[n]) /\ ~is_genesis(txs[n]) /\ V[txs[n].id] = txs[n]
            /\ HasShares(txs[n])
    BY <1>2, <1>6, <1>9, <1>s
  <1>11. r.verdict = "Ok"
    <2>1. IsRebuild(d, Known, r)
      BY RebuildState
    <2> QED BY <2>1 DEF IsRebuild
  <1>12. ~replay.aborted
    BY <1>3, <1>11
  <1>13. chosen = UserVertices(g) \ losers
    OBVIOUS
  <1> HIDE DEF chosen
  <1>14. Pays(replay.ledger, V, chosen \ replay.rejected)
    <2> HIDE DEF V
    <2>1. replay = Replay(d.faucet, txs)
      OBVIOUS
    <2> HIDE DEF replay
    <2>2. IsPaidReplay(txs, N, V, replay)
      BY <1>6, <1>8, <1>10, <2>1, ReplayPays
    <2> QED BY <1>6, <1>12, <2>2 DEF IsPaidReplay
  <1> HIDE DEF replay
  <1>15. DOMAIN r.dag.conflicts = losers \cup replay.rejected
    BY <1>4, <1>12
  <1>16. Applied(r.dag) \ {} = chosen \ replay.rejected
    BY <1>4, <1>13, <1>15 DEF Applied
  <1> QED BY <1>4, <1>14, <1>16 DEF Paying

(* A strict attach pays for the one vertex it stores.                       *)
LEMMA AttachPays ==
    ASSUME NEW Known, KnownOK(Known), SharesFit(Known), NEW d, ReplicaState(d, Known),
           NEW t \in Known, KnownRoom(Known, d.faucet),
           NEW pending, pending \subseteq UserVertices(d.graph), Paying(d, pending),
           NEW r, r = attach_and_verify_tx(d, t)
    PROVE  Paying(r.dag, pending)
  <1> DEFINE g == d.graph
             h == InsertVertex(g, t)
             L == d.ledger
             e == apply_ledger_effects(L, t)
  <1>1. CASE GraphVerdict(g, t) # "Ok" \/ SpendVerdict(L, t) # "Ok"
    <2>1. r.dag = d
      BY <1>1 DEF attach_and_verify_tx
    <2> QED BY <2>1
  <1>2. CASE GraphVerdict(g, t) = "Ok" /\ SpendVerdict(L, t) = "Ok"
    <2>1. /\ IsRecord(d) /\ GraphOK(g) /\ StoredFrom(g, Known) /\ ConflictsOK(d)
          /\ LedgerOK(L, d.faucet)
      BY DEF ReplicaState, ReplicaOK
    <2>2. /\ ~is_genesis(t) /\ t.id \notin VertexSet(g)
          /\ h.vertices[t.id] = t
          /\ \A i \in VertexSet(g) : h.vertices[i] = g.vertices[i]
          /\ UserVertices(h) = UserVertices(g) \cup {t.id}
      BY <1>2, <2>1, InsertedUsers
    <2> HIDE DEF h
    <2>3. r.verdict = e.verdict /\ r.dag = [d EXCEPT !.graph = h, !.ledger = e.ledger]
      BY <1>2, <2>2 DEF attach_and_verify_tx, h
    <2>4. IsAttach(d, Known, t, r)
      BY AttachState
    <2>5. e.verdict = "Ok"
      <3>1. r.verdict = SpendVerdict(L, t)
        BY <1>2, <2>4 DEF IsAttach
      <3> QED BY <1>2, <2>3, <3>1
    <2>6. IsTransaction(t) /\ L \in Ledgers
          /\ HasShares(t)
      BY <2>1 DEF KnownOK, LedgerOK, SharesFit
    <2>7. \A a \in Address : e.ledger.relay_credits[a] > 0
                               <=> L.relay_credits[a] > 0 \/ a \in ToSet(t.relays)
      BY <2>2, <2>5, <2>6, EffectCredits
    <2> HIDE DEF e
    <2>8. /\ r.dag.graph = h /\ r.dag.ledger = e.ledger /\ r.dag.conflicts = d.conflicts
      BY <2>1, <2>3 DEF IsRecord
    <2>9. t.id \notin UserVertices(g) /\ t.id \notin DOMAIN d.conflicts /\ t.id \notin pending
      BY <2>1, <2>2 DEF UserVertices, ConflictsOK
    <2> DEFINE A == Applied(d) \ pending
    <2>10. Applied(r.dag) \ pending = A \cup {t.id}
      BY <2>2, <2>8, <2>9 DEF Applied
    <2>11. /\ Pays(L, g.vertices, A)
           /\ \A i \in A : g.vertices[i] = h.vertices[i]
      BY <2>2 DEF Paying, Applied, UserVertices
    <2> HIDE DEF A
    <2>12. Pays(L, h.vertices, A)
      BY <2>11, PaysSame
    <2> DEFINE x == t.id
               M == e.ledger
               V == h.vertices
    <2>13. \A a \in Address : M.relay_credits[a] > 0
                                <=> L.relay_credits[a] > 0 \/ a \in ToSet(V[x].relays)
      BY <2>2, <2>7
    <2> HIDE DEF x, M, V
    <2>14. Pays(M, V, A \cup {x})
      <3>1. Pays(L, V, A)
        BY <2>12 DEF V
      <3> HIDE DEF L
      <3> QED BY <2>13, <3>1, PaysOneMore DEF L
    <2> QED BY <2>8, <2>10, <2>14 DEF Paying, x, M, V
  <1> QED BY <1>1, <1>2

-----------------------------------------------------------------------------
(* The ledger of d has counted all it stores but the vertices of pending.   *)
Standing(d, pending) ==
    LedgerCounts(d.ledger, d.graph.vertices, Applied(d) \ pending)

(* A strict attach counts the one vertex it stores, whatever is pending:    *)
(* what is pending counts as little as what lost.                           *)
LEMMA AttachStanding ==
    ASSUME NEW Known, KnownOK(Known), NEW d, ReplicaState(d, Known), NEW t \in Known,
           KnownRoom(Known, d.faucet),
           NEW pending, pending \subseteq UserVertices(d.graph), Standing(d, pending),
           NEW r, r = attach_and_verify_tx(d, t)
    PROVE  Standing(r.dag, pending)
  <1> DEFINE out == DOMAIN d.conflicts \cup pending
             c   == [i \in out |-> NULL_PARENT]
             e   == [d EXCEPT !.conflicts = c]
             q   == attach_and_verify_tx(e, t)
  <1>1. IsRecord(d) /\ ConflictsOK(d)
    BY DEF ReplicaState, ReplicaOK
  <1>2. DOMAIN c = out /\ c \in [out -> TxHash \cup {NULL_PARENT}]
    OBVIOUS
  <1> HIDE DEF c
  <1>3. /\ e.graph = d.graph /\ e.ledger = d.ledger /\ e.faucet = d.faucet
        /\ e.conflicts = c /\ IsRecord(e)
    BY <1>1 DEF IsRecord
  <1> HIDE DEF e
  <1>4. ReplicaState(e, Known)
    <2>1. ConflictsOK(e)
      BY <1>1, <1>2, <1>3 DEF ConflictsOK
    <2> QED BY <1>3, <2>1 DEF ReplicaState, ReplicaOK
  <1>5. Applied(e) = Applied(d) \ pending
    BY <1>2, <1>3 DEF Applied
  <1>6. Counted(e)
    BY <1>3, <1>5 DEF Standing, Counted
  <1>7. KnownRoom(Known, e.faucet)
    BY <1>3
  <1>8. IsAttach(e, Known, t, q)
    BY <1>4, <1>7, AttachState
  <1>9. Counted(q.dag)
    BY <1>6, <1>8 DEF IsAttach
  <1>10. q.dag = [r.dag EXCEPT !.conflicts = c]
    BY <1>1, <1>3 DEF attach_and_verify_tx, IsRecord, e
  <1>11. /\ r.dag.conflicts = d.conflicts
         /\ IsRecord(r.dag)
    BY <1>1 DEF attach_and_verify_tx, IsRecord
  <1> HIDE DEF q
  <1>12. /\ q.dag.graph = r.dag.graph /\ q.dag.ledger = r.dag.ledger
         /\ q.dag.conflicts = c
    BY <1>10, <1>11 DEF IsRecord
  <1>13. Applied(q.dag) = Applied(r.dag) \ pending
    BY <1>2, <1>11, <1>12 DEF Applied
  <1> QED BY <1>9, <1>12, <1>13 DEF Standing, Counted

(* A merge, whether it succeeds, fails or finds nothing new: what it leaves *)
(* pending.                                                                 *)
PendingAfter(m, pending) ==
    IF m.inserted = {} THEN pending
    ELSE IF m.verdict = "Ok" THEN {} ELSE pending \cup m.inserted

IsMergeResult(d, Known, m) ==
    /\ ReplicaState(m.dag, Known) /\ m.dag.faucet = d.faucet
    /\ VertexSet(d.graph) \subseteq VertexSet(m.dag.graph)
    /\ UserVertices(m.dag.graph) = UserVertices(d.graph) \cup m.inserted
    /\ Stocked(d.graph) => Stocked(m.dag.graph)
    /\ \A pending \in SUBSET UserVertices(d.graph) :
          /\ Payable(Known) /\ Standing(d, pending)
                => Standing(m.dag, PendingAfter(m, pending))
          /\ Payable(Known) /\ SharesFit(Known) /\ Paying(d, pending)
                => Paying(m.dag, PendingAfter(m, pending))

(* merge_offline_graphs is one of these, and a merge that comes to its end  *)
(* counts all there is, if every amount can be paid.                        *)
LEMMA MergeResult ==
    ASSUME NEW Known, KnownOK(Known), NEW d, ReplicaState(d, Known),
           KnownRoom(Known, d.faucet), NEW txs \in Seq(Known),
           NEW m, m = merge_offline_graphs(d, txs)
    PROVE  IsMergeResult(d, Known, m)
  <1> DEFINE batch == Batch(txs)
             order == topo_order_incoming(d.graph, batch).ordered
             v     == topo_order_incoming(d.graph, batch).verdict
             merged == AllMerged(v, d, batch, order)
             rebuilt == resolve_conflicts_and_rebuild_ledger(merged.dag)
  <1>1. m = IF merged.verdict # "Ok" \/ merged.inserted = {} THEN merged
            ELSE [merged EXCEPT !.verdict = rebuilt.verdict, !.dag = rebuilt.dag]
    BY DEF merge_offline_graphs, AllMerged
  <1>2. order = Ordered(d.graph, batch).ordered
    BY DEF topo_order_incoming, Ordered
  <1>b. batch = Batch(txs)
    OBVIOUS
  <1> HIDE DEF batch, order, v
  <1>3. /\ IsFiniteSet(DOMAIN batch) /\ DOMAIN batch \subseteq TxHash
        /\ \A i \in DOMAIN batch : batch[i] \in Known
    <2>1. \A t \in Known : t.id \in TxHash
      BY DEF KnownOK
    <2> QED BY <1>b, <2>1, BatchFacts
  <1>4. order \in Seq(DOMAIN batch)
    <2>1. DOMAIN batch \subseteq Nat
      BY <1>3, DagGraphAssumption
    <2> QED BY <1>2, <1>3, <2>1, OrderedTyped
  <1>5. IsMerge(d, Known, merged)
    BY <1>3, <1>4, MergeState
  <1> HIDE DEF merged
  <1> DEFINE g == merged.dag.graph
             new == merged.inserted
  <1>6. /\ merged = [verdict |-> merged.verdict, dag |-> merged.dag, inserted |-> new]
        /\ ReplicaState(merged.dag, Known)
        /\ merged.dag.ledger = d.ledger /\ merged.dag.faucet = d.faucet
        /\ merged.dag.conflicts = d.conflicts
        /\ VertexSet(d.graph) \subseteq VertexSet(g)
        /\ \A i \in VertexSet(d.graph) : g.vertices[i] = d.graph.vertices[i]
        /\ UserVertices(g) = UserVertices(d.graph) \cup new
        /\ new \cap VertexSet(d.graph) = {}
        /\ new = {} => merged.dag = d
        /\ Stocked(d.graph) => Stocked(g)
    BY <1>5 DEF IsMerge
  <1>7. CASE new = {}
    <2>1. m = merged /\ m.inserted = {} /\ m.dag = d
      BY <1>1, <1>6, <1>7
    <2> QED BY <1>6, <2>1 DEF IsMergeResult, PendingAfter
  <1>8. CASE new # {} /\ merged.verdict # "Ok"
    <2>1. m = merged
      BY <1>1, <1>8
    <2>2. ASSUME NEW pending \in SUBSET UserVertices(d.graph)
          PROVE  /\ Standing(d, pending) => Standing(m.dag, PendingAfter(m, pending))
                 /\ Paying(d, pending) => Paying(m.dag, PendingAfter(m, pending))
      <3> DEFINE A == Applied(d) \ pending
      <3>1. PendingAfter(m, pending) = pending \cup new
        BY <1>8, <2>1 DEF PendingAfter
      <3>2. UserVertices(d.graph) \cap new = {}
        BY <1>6 DEF UserVertices
      <3>3. Applied(m.dag) \ (pending \cup new) = A
        BY <1>6, <2>1, <3>2 DEF Applied
      <3>4. /\ Standing(d, pending) => LedgerCounts(d.ledger, d.graph.vertices, A)
            /\ Paying(d, pending) => Pays(d.ledger, d.graph.vertices, A)
        BY DEF Standing, Paying
      <3>5. \A i \in A : d.graph.vertices[i] = g.vertices[i]
        BY <1>6 DEF Applied, UserVertices
      <3> HIDE DEF A
      <3>6. Standing(d, pending) => LedgerCounts(d.ledger, g.vertices, A)
        BY <3>4, <3>5, CountSame
      <3>7. Paying(d, pending) => Pays(d.ledger, g.vertices, A)
        BY <3>4, <3>5, PaysSame
      <3>8. Standing(d, pending) => Standing(m.dag, pending \cup new)
        BY <1>6, <2>1, <3>3, <3>6 DEF Standing
      <3>9. Paying(d, pending) => Paying(m.dag, pending \cup new)
        BY <1>6, <2>1, <3>3, <3>7 DEF Paying
      <3> QED BY <3>1, <3>8, <3>9
    <2> QED BY <1>6, <2>1, <2>2 DEF IsMergeResult
  <1>9. CASE new # {} /\ merged.verdict = "Ok"
    <2>0. KnownRoom(Known, merged.dag.faucet)
      BY <1>6
    <2>1. IsRebuild(merged.dag, Known, rebuilt)
      BY <1>6, <2>0, RebuildState
    <2>p. SharesFit(Known) /\ AmountsFit(g) => Paying(rebuilt.dag, {})
      BY <1>6, <2>0, RebuildPays
    <2> HIDE DEF rebuilt
    <2>2. m = [merged EXCEPT !.verdict = rebuilt.verdict, !.dag = rebuilt.dag]
      BY <1>1, <1>9
    <2>3. m.verdict = rebuilt.verdict /\ m.dag = rebuilt.dag /\ m.inserted = new
      BY <1>6, <2>2
    <2>4. ASSUME NEW pending \in SUBSET UserVertices(d.graph), Payable(Known)
          PROVE  /\ Standing(m.dag, PendingAfter(m, pending))
                 /\ SharesFit(Known) => Paying(m.dag, PendingAfter(m, pending))
      <3>1. StoredFrom(g, Known)
        BY <1>6 DEF ReplicaState
      <3>2. AmountsFit(g)
        BY <2>4, <3>1, StoredAmounts
      <3>3. rebuilt.verdict = "Ok" /\ Counted(rebuilt.dag)
        BY <2>1, <3>2 DEF IsRebuild
      <3>4. PendingAfter(m, pending) = {}
        BY <1>9, <2>3, <3>3 DEF PendingAfter
      <3>5. Applied(m.dag) \ {} = Applied(m.dag)
        OBVIOUS
      <3>6. Standing(m.dag, {})
        BY <2>3, <3>3, <3>5 DEF Standing, Counted
      <3>7. SharesFit(Known) => Paying(m.dag, {})
        BY <2>3, <2>p, <3>2
      <3> QED BY <3>4, <3>6, <3>7
    <2> QED BY <1>6, <2>1, <2>3, <2>4 DEF IsMergeResult, IsRebuild
  <1> QED BY <1>7, <1>8, <1>9

-----------------------------------------------------------------------------
(* What may reach a replica: what circulates, signed by the carrier or not. *)
PhoneKnown == Circulating \cup {relay_intercept_and_sign(t) : t \in Circulating}

(* Signing changes nothing but the list of relays.                          *)
LEMMA SignedVertex ==
    ASSUME NEW t, t.relays \in Seq(Address),
           NEW u, u = relay_intercept_and_sign(t)
    PROVE  /\ u.id = t.id /\ u.sender = t.sender /\ u.recipient = t.recipient
           /\ u.amount = t.amount /\ u.nonce = t.nonce
           /\ u.relays \in Seq(Address)
  <1> DEFINE r == IF Carrier \in ToSet(t.relays) THEN t.relays ELSE Append(t.relays, Carrier)
  <1>1. r \in Seq(Address)
    <2>1. Append(t.relays, Carrier) \in Seq(Address)
      BY PhoneMeetupAssumption
    <2> QED BY <2>1
  <1>2. u = [t EXCEPT !.relays = r]
    BY DEF relay_intercept_and_sign
  <1> HIDE DEF r
  <1> QED BY <1>1, <1>2

(* The ids of what circulates are few enough for the emission schedule.     *)
LEMMA PhoneVertices == KnownOK(PhoneKnown) /\ KnownRoom(PhoneKnown, Faucet)
  <1> DEFINE C   == Circulating
             ids == {t.id : t \in C}
             K   == Cardinality(ids)
  <1>1. /\ AreVertices(C) /\ IsFiniteSet(ids) /\ K < U64_MAX
        /\ K * PoolBound <= U64_MAX
        /\ Total(Faucet) + HARD_CAP <= U64_MAX
    BY PhoneMeetupRoom DEF RoomForVertices, PoolBound
  <1>2. \A t \in C : /\ t.id \in TxHash \ {GenesisId} /\ IsTransaction(t)
                     /\ t.relays \in Seq(Address)
    BY <1>1 DEF AreVertices, IsTransaction
  <1>3. ASSUME NEW t \in C
        PROVE  /\ relay_intercept_and_sign(t).id = t.id
               /\ IsTransaction(relay_intercept_and_sign(t))
    <2> DEFINE u == relay_intercept_and_sign(t)
    <2>1. /\ u.id = t.id /\ u.sender = t.sender /\ u.recipient = t.recipient
          /\ u.amount = t.amount /\ u.nonce = t.nonce /\ u.relays \in Seq(Address)
      BY <1>2, SignedVertex
    <2> HIDE DEF u
    <2>2. IsTransaction(u)
      BY <1>2, <2>1 DEF IsTransaction
    <2> QED BY <2>1, <2>2 DEF u
  <1> HIDE DEF C
  <1>4. PhoneKnown = C \cup {relay_intercept_and_sign(t) : t \in C}
    BY DEF PhoneKnown, C
  <1>5. {t.id : t \in PhoneKnown} = ids
    BY <1>3, <1>4
  <1>6. \A t \in PhoneKnown : t.id \in TxHash \ {GenesisId} /\ IsTransaction(t)
    BY <1>2, <1>3, <1>4
  <1>7. KnownOK(PhoneKnown)
    BY <1>1, <1>5, <1>6 DEF KnownOK
  <1>8. K \in Nat
    BY <1>1, FS_CardinalityType
  <1>9. RoomFor(Faucet, K)
    <2> HIDE DEF K
    <2>1. K + 1 <= U64_MAX
      BY <1>1, <1>8, EconomicsAssumption
    <2> QED BY <1>1, <2>1, PhoneMeetupAssumption DEF RoomFor
  <1> QED BY <1>5, <1>7, <1>9 DEF KnownRoom

(* The replicas of the phones; limbo and relay_of speak of what is stored.  *)
PhoneOK(d, brought, pending) ==
    /\ ReplicaState(d, PhoneKnown) /\ d.faucet = Faucet
    /\ pending \subseteq UserVertices(d.graph)
    /\ brought \in [DOMAIN brought -> {Carrier}]
    /\ DOMAIN brought \subseteq VertexSet(d.graph)

PhonesOK ==
    /\ DOMAIN dag = Phones /\ DOMAIN relay_of = Phones /\ DOMAIN limbo = Phones
    /\ \A p \in Phones : PhoneOK(dag[p], relay_of[p], limbo[p])

PhonesStanding == \A p \in Phones : Standing(dag[p], limbo[p])

PhonesPaying == \A p \in Phones : Paying(dag[p], limbo[p])

(* What every phone stores can be handed on.                                *)
PhonesStocked == \A p \in Phones : Stocked(dag[p].graph)

(* What a step does for the ledgers of the phones and for what they store.  *)
LedgersKept ==
    /\ PhonesStocked => PhonesStocked'
    /\ Payable(PhoneKnown) /\ PhonesStanding => PhonesStanding'
    /\ Payable(PhoneKnown) /\ SharesFit(PhoneKnown) /\ PhonesPaying => PhonesPaying'

(* A ledger that has counted nothing has paid nobody.                       *)
LEMMA NothingPaid ==
    ASSUME NEW b, ReplicaState(b, PhoneKnown), UserVertices(b.graph) = {}, Counted(b)
    PROVE  Paying(b, {})
  <1> DEFINE L == b.ledger
  <1>1. Applied(b) = {} /\ Applied(b) \ {} = {}
    BY DEF Applied
  <1>2. L.dag_tx_count = 0
    <2>1. L.dag_tx_count = Cardinality({})
      BY <1>1 DEF Counted, LedgerCounts
    <2> QED BY <2>1, FS_EmptySet
  <1>3. L \in Ledgers /\ \A a \in Address : L.relay_credits[a] <= L.dag_tx_count * PoolBound
    BY DEF ReplicaState, LedgerOK
  <1> HIDE DEF L
  <1>4. \A a \in Address : L.relay_credits[a] <= 0
    <2>1. PoolBound \in Nat /\ 0 * PoolBound = 0
      BY EconomicsAssumption DEF PoolBound
    <2> QED BY <1>2, <1>3, <2>1
  <1>5. \A a \in Address : L.relay_credits[a] \in Nat
    <2>1. L.relay_credits \in [Address -> 0 .. U64_MAX]
      BY <1>3, LedgerFields
    <2> QED BY <2>1
  <1>6. \A a \in Address : ~(L.relay_credits[a] > 0)
    BY <1>4, <1>5
  <1> QED BY <1>1, <1>6 DEF Paying, Pays, L

(* At the start every phone has genesis and the credits.                    *)
LEMMA PhonesInit == Init => PhonesOK /\ PhonesStanding /\ PhonesPaying /\ PhonesStocked
  <1> SUFFICES ASSUME Init PROVE PhonesOK /\ PhonesStanding /\ PhonesPaying /\ PhonesStocked
    OBVIOUS
  <1> DEFINE b == CreditAll(with_genesis, Faucet)
             none == [i \in {} |-> Carrier]
  <1>1. /\ dag = [p \in Phones |-> b]
        /\ relay_of = [p \in Phones |-> none]
        /\ limbo = [p \in Phones |-> {}]
    BY DEF Init
  <1>2. /\ ReplicaState(b, PhoneKnown) /\ b.faucet = Faucet
        /\ UserVertices(b.graph) = {} /\ Counted(b)
        /\ b.graph = with_genesis.graph
    BY PhoneVertices, PhoneMeetupAssumption, BootstrapState
  <1> HIDE DEF b
  <1>s. Stocked(b.graph)
    BY <1>2, GenesisStocked
  <1>p. Paying(b, {})
    BY <1>2, NothingPaid
  <1>3. Applied(b) \ {} = Applied(b)
    OBVIOUS
  <1>4. Standing(b, {})
    BY <1>2, <1>3 DEF Standing, Counted
  <1>5. DOMAIN none = {} /\ none \in [DOMAIN none -> {Carrier}]
    OBVIOUS
  <1> HIDE DEF none
  <1>6. PhoneOK(b, none, {})
    BY <1>2, <1>5 DEF PhoneOK
  <1>7. PhonesOK
    BY <1>1, <1>6 DEF PhonesOK
  <1>8. PhonesStanding /\ PhonesPaying /\ PhonesStocked
    BY <1>1, <1>4, <1>p, <1>s DEF PhonesStanding, PhonesPaying, PhonesStocked
  <1> QED BY <1>7, <1>8

(* The owner attaches a vertex.                                             *)
LEMMA AttachStep ==
    ASSUME PhonesOK, NEW p \in Phones, Attach(p)
    PROVE  PhonesOK' /\ LedgersKept
  <1>1. PICK t \in Fresh[p] :
           dag' = [dag EXCEPT ![p] = attach_and_verify_tx(dag[p], t).dag]
    BY DEF Attach
  <1>2. UNCHANGED <<relay_of, limbo>>
    BY DEF Attach
  <1>3. t \in PhoneKnown
    BY DEF PhoneKnown, Circulating
  <1> DEFINE D == dag[p]
  <1>4. PhoneOK(D, relay_of[p], limbo[p]) /\ p \in DOMAIN dag
    BY DEF PhonesOK
  <1>5. PICK r : r = attach_and_verify_tx(D, t)
    OBVIOUS
  <1>6. dag' = [dag EXCEPT ![p] = r.dag]
    BY <1>1, <1>5
  <1> HIDE DEF D
  <1>7. KnownOK(PhoneKnown) /\ KnownRoom(PhoneKnown, D.faucet)
    BY <1>4, PhoneVertices DEF PhoneOK
  <1>8. IsAttach(D, PhoneKnown, t, r)
    BY <1>3, <1>4, <1>5, <1>7, AttachState DEF PhoneOK
  <1>9. VertexSet(D.graph) \subseteq VertexSet(r.dag.graph)
        /\ UserVertices(D.graph) \subseteq UserVertices(r.dag.graph)
    <2>1. CASE r.dag = D
      BY <2>1
    <2>2. CASE GraphVerdict(D.graph, t) = "Ok" /\ r.dag.graph = InsertVertex(D.graph, t)
      <3>1. GraphOK(D.graph) /\ StoredFrom(D.graph, PhoneKnown)
        BY <1>4 DEF PhoneOK, ReplicaState, ReplicaOK
      <3>2. UserVertices(r.dag.graph) = UserVertices(D.graph) \cup {t.id}
        BY <1>3, <1>7, <2>2, <3>1, InsertedUsers
      <3>3. VertexSet(r.dag.graph) = VertexSet(D.graph) \cup {t.id}
        BY <2>2, InsertedFields
      <3> QED BY <3>2, <3>3
    <2> QED BY <1>8, <2>1, <2>2 DEF IsAttach
  <1>10. PhoneOK(r.dag, relay_of[p], limbo[p])
    BY <1>4, <1>8, <1>9 DEF PhoneOK, IsAttach
  <1>11. PhonesOK'
    BY <1>2, <1>6, <1>10 DEF PhonesOK
  <1>12. dag'[p] = r.dag /\ limbo' = limbo
         /\ \A q \in Phones : q # p => dag'[q] = dag[q]
    BY <1>2, <1>4, <1>6 DEF PhonesOK
  <1>13. ASSUME PhonesStanding PROVE PhonesStanding'
    <2>1. Standing(D, limbo[p])
      BY <1>13 DEF PhonesStanding, D
    <2>2. Standing(r.dag, limbo[p])
      BY <1>3, <1>4, <1>5, <1>7, <2>1, AttachStanding DEF PhoneOK
    <2>3. ASSUME NEW q \in Phones PROVE Standing(dag'[q], limbo'[q])
      BY <1>12, <1>13, <2>2 DEF PhonesStanding
    <2> QED BY <2>3 DEF PhonesStanding
  <1>14. ASSUME SharesFit(PhoneKnown), PhonesPaying PROVE PhonesPaying'
    <2>1. Paying(D, limbo[p])
      BY <1>14 DEF PhonesPaying, D
    <2>2. Paying(r.dag, limbo[p])
      BY <1>3, <1>4, <1>5, <1>7, <1>14, <2>1, AttachPays DEF PhoneOK
    <2>3. ASSUME NEW q \in Phones PROVE Paying(dag'[q], limbo'[q])
      BY <1>12, <1>14, <2>2 DEF PhonesPaying
    <2> QED BY <2>3 DEF PhonesPaying
  <1>15. ASSUME PhonesStocked PROVE PhonesStocked'
    <2>1. Stocked(D.graph)
      BY <1>15 DEF PhonesStocked, D
    <2>2. Stocked(r.dag.graph)
      <3>1. CASE r.dag = D
        BY <2>1, <3>1
      <3>2. CASE GraphVerdict(D.graph, t) = "Ok" /\ r.dag.graph = InsertVertex(D.graph, t)
        <4>1. GraphOK(D.graph) /\ StoredFrom(D.graph, PhoneKnown)
          BY <1>4 DEF PhoneOK, ReplicaState, ReplicaOK
        <4> QED BY <1>3, <1>7, <2>1, <3>2, <4>1, InsertKeepsStock
      <3> QED BY <1>8, <3>1, <3>2 DEF IsAttach
    <2>3. ASSUME NEW q \in Phones PROVE Stocked(dag'[q].graph)
      BY <1>12, <1>15, <2>2 DEF PhonesStocked
    <2> QED BY <2>3 DEF PhonesStocked
  <1> QED BY <1>11, <1>13, <1>14, <1>15 DEF LedgersKept

(* A phone takes over a merge.                                              *)
LEMMA MergedStep ==
    ASSUME PhonesOK, NEW p \in Phones, NEW m, IsMergeResult(dag[p], PhoneKnown, m),
           Merged(p, m)
    PROVE  PhonesOK' /\ LedgersKept
  <1> DEFINE D == dag[p]
             B == relay_of[p]
             l == limbo[p]
             k == PendingAfter(m, l)
             C == Noted(B, m.inserted)
  <1>1. PhoneOK(D, B, l) /\ p \in DOMAIN dag /\ p \in DOMAIN relay_of /\ p \in DOMAIN limbo
    BY DEF PhonesOK
  <1>2. /\ dag' = [dag EXCEPT ![p] = m.dag]
        /\ relay_of' = [relay_of EXCEPT ![p] = C]
        /\ limbo' = [limbo EXCEPT ![p] = k]
    BY DEF Merged, PendingAfter
  <1> HIDE DEF D, B, l
  <1>3. /\ ReplicaState(m.dag, PhoneKnown) /\ m.dag.faucet = D.faucet
        /\ VertexSet(D.graph) \subseteq VertexSet(m.dag.graph)
        /\ UserVertices(m.dag.graph) = UserVertices(D.graph) \cup m.inserted
        /\ Payable(PhoneKnown) /\ Standing(D, l) => Standing(m.dag, k)
        /\ Payable(PhoneKnown) /\ SharesFit(PhoneKnown) /\ Paying(D, l) => Paying(m.dag, k)
    BY <1>1 DEF IsMergeResult, PhoneOK, D
  <1>4. k \subseteq UserVertices(m.dag.graph)
    BY <1>1, <1>3 DEF PhoneOK, PendingAfter
  <1>5. C \in [DOMAIN C -> {Carrier}] /\ DOMAIN C = DOMAIN B \cup m.inserted
    BY <1>1 DEF PhoneOK, Noted
  <1>6. m.inserted \subseteq VertexSet(m.dag.graph)
    BY <1>3 DEF UserVertices
  <1> HIDE DEF k, C
  <1>7. PhoneOK(m.dag, C, k)
    BY <1>1, <1>3, <1>4, <1>5, <1>6 DEF PhoneOK
  <1>8. ASSUME NEW q \in Phones, q # p
        PROVE  dag'[q] = dag[q] /\ relay_of'[q] = relay_of[q] /\ limbo'[q] = limbo[q]
    BY <1>2, <1>8 DEF PhonesOK
  <1>9. dag'[p] = m.dag /\ relay_of'[p] = C /\ limbo'[p] = k
    BY <1>1, <1>2
  <1>10. DOMAIN dag' = Phones /\ DOMAIN relay_of' = Phones /\ DOMAIN limbo' = Phones
    BY <1>2 DEF PhonesOK
  <1>11. ASSUME NEW q \in Phones PROVE PhoneOK(dag'[q], relay_of'[q], limbo'[q])
    <2>1. CASE q = p
      BY <1>7, <1>9, <2>1
    <2>2. CASE q # p
      BY <1>8, <2>2 DEF PhonesOK
    <2> QED BY <2>1, <2>2
  <1>12. ASSUME Payable(PhoneKnown), PhonesStanding PROVE PhonesStanding'
    <2>1. Standing(m.dag, k)
      BY <1>3, <1>12 DEF PhonesStanding, D, l
    <2>2. ASSUME NEW q \in Phones PROVE Standing(dag'[q], limbo'[q])
      <3>1. CASE q = p
        BY <1>9, <2>1, <3>1
      <3>2. CASE q # p
        BY <1>8, <1>12, <3>2 DEF PhonesStanding
      <3> QED BY <3>1, <3>2
    <2> QED BY <2>2 DEF PhonesStanding
  <1>13. ASSUME Payable(PhoneKnown), SharesFit(PhoneKnown), PhonesPaying PROVE PhonesPaying'
    <2>1. Paying(m.dag, k)
      BY <1>3, <1>13 DEF PhonesPaying, D, l
    <2>2. ASSUME NEW q \in Phones PROVE Paying(dag'[q], limbo'[q])
      <3>1. CASE q = p
        BY <1>9, <2>1, <3>1
      <3>2. CASE q # p
        BY <1>8, <1>13, <3>2 DEF PhonesPaying
      <3> QED BY <3>1, <3>2
    <2> QED BY <2>2 DEF PhonesPaying
  <1>14. ASSUME PhonesStocked PROVE PhonesStocked'
    <2>1. Stocked(m.dag.graph)
      BY <1>14 DEF PhonesStocked, IsMergeResult
    <2>2. ASSUME NEW q \in Phones PROVE Stocked(dag'[q].graph)
      <3>1. CASE q = p
        BY <1>9, <2>1, <3>1
      <3>2. CASE q # p
        BY <1>8, <1>14, <3>2 DEF PhonesStocked
      <3> QED BY <3>1, <3>2
    <2> QED BY <2>2 DEF PhonesStocked
  <1> QED BY <1>10, <1>11, <1>12, <1>13, <1>14 DEF PhonesOK, LedgersKept

(* What a phone hands over at a meeting are known vertices, for the other   *)
(* one has genesis and does not ask for it.                                 *)
LEMMA BodiesHandedOver ==
    ASSUME NEW Known, NEW d, ReplicaState(d, Known), NEW e, ReplicaState(e, Known)
    PROVE  transactions_for_in_order(e.graph, collect_need(d.graph, from_dag(e.graph)))
               \in Seq(Known)
  <1> DEFINE need == collect_need(d.graph, from_dag(e.graph))
             txs  == transactions_for_in_order(e.graph, need)
             g    == e.graph
  <1>1. /\ GraphOK(g) /\ StoredFrom(g, Known) /\ GenesisId \in VertexSet(d.graph)
    BY DEF ReplicaState, ReplicaOK, StoredFrom
  <1>2. \A i \in VertexSet(g) :
           g.vertices[i].id = i /\ (i # GenesisId => g.vertices[i] \in Known)
    BY <1>1 DEF StoredFrom
  <1>3. GenesisId \notin need
    BY <1>1 DEF collect_need
  <1> HIDE DEF need, g
  <1>4. IsBodyList(g, need, txs)
    BY <1>1, <1>2, StoredBodies DEF g
  <1> HIDE DEF txs
  <1>5. /\ DOMAIN txs = 1 .. Len(txs) /\ Len(txs) \in Nat
        /\ {txs[n].id : n \in 1 .. Len(txs)} = VertexSet(g) \cap need
        /\ \A n \in 1 .. Len(txs) : txs[n] = g.vertices[txs[n].id]
        /\ txs \in Seq({g.vertices[i] : i \in VertexSet(g)})
    BY <1>4 DEF IsBodyList, ListsOnce
  <1>6. \A n \in 1 .. Len(txs) : txs[n] \in Known
    BY <1>2, <1>3, <1>5
  <1>7. txs \in Seq(Known)
    <2> DEFINE N == Len(txs)
    <2>1. txs = [n \in 1 .. N |-> txs[n]] /\ N \in Nat
      BY <1>5
    <2>2. \A n \in 1 .. N : txs[n] \in Known
      BY <1>6
    <2> HIDE DEF N
    <2>3. txs \in [1 .. N -> Known]
      BY <2>1, <2>2
    <2> QED BY <2>1, <2>3
  <1> QED BY <1>7 DEF txs, need, g

(* A meeting merges what the other phone has and p lacks.                   *)
LEMMA MeetStep ==
    ASSUME PhonesOK, NEW p \in Phones, NEW q \in Phones, Meet(p, q)
    PROVE  PhonesOK' /\ LedgersKept
  <1> DEFINE txs == transactions_for_in_order(dag[q].graph,
                        collect_need(dag[p].graph, from_dag(dag[q].graph)))
  <1>1. PICK m : m = merge_offline_graphs(dag[p], txs)
    OBVIOUS
  <1>2. exchange_and_merge(dag[p], dag[q]) = m
    BY <1>1 DEF exchange_and_merge
  <1>3. Merged(p, m)
    <2>1. Merged(p, exchange_and_merge(dag[p], dag[q]))
      BY DEF Meet
    <2> QED BY <1>2, <2>1 DEF Merged
  <1>4. ReplicaState(dag[p], PhoneKnown) /\ ReplicaState(dag[q], PhoneKnown)
        /\ KnownRoom(PhoneKnown, dag[p].faucet) /\ KnownOK(PhoneKnown)
    BY PhoneVertices DEF PhonesOK, PhoneOK
  <1>5. txs \in Seq(PhoneKnown)
    BY <1>4, BodiesHandedOver
  <1> HIDE DEF txs
  <1>6. IsMergeResult(dag[p], PhoneKnown, m)
    BY <1>1, <1>4, <1>5, MergeResult
  <1> QED BY <1>3, <1>6, MergedStep

(* A deposit merges all that the relay phone has staged.                    *)
LEMMA DepositStep ==
    ASSUME PhonesOK, RelayInv, Deposit
    PROVE  PhonesOK' /\ LedgersKept
  <1>1. PICK m : m = merge_offline_graphs(dag[Home], flush_ready)
    OBVIOUS
  <1>2. Merged(Home, m) /\ Home \in Phones
    <2>1. Merged(Home, merge_offline_graphs(dag[Home], flush_ready))
      BY DEF Deposit
    <2> QED BY <1>1, <2>1, PhoneMeetupAssumption DEF Merged
  <1>3. ReplicaState(dag[Home], PhoneKnown)
        /\ KnownRoom(PhoneKnown, dag[Home].faucet) /\ KnownOK(PhoneKnown)
    BY <1>2, PhoneVertices DEF PhonesOK, PhoneOK
  <1>4. flush_ready \in Seq(PhoneKnown)
    <2>1. SignedVertices \subseteq PhoneKnown
      <3>1. Handed \subseteq Circulating
        BY DEF Circulating
      <3>2. ASSUME NEW t \in Handed PROVE relay_intercept_and_sign(t) \in PhoneKnown
        BY <3>1 DEF PhoneKnown
      <3> QED BY <3>2 DEF SignedVertices
    <2>2. flush_ready \in Seq(SignedVertices)
      BY DEF RelayInv
    <2> HIDE DEF SignedVertices, PhoneKnown
    <2> QED BY <2>1, <2>2
  <1>5. IsMergeResult(dag[Home], PhoneKnown, m)
    BY <1>1, <1>3, <1>4, MergeResult
  <1> QED BY <1>2, <1>5, MergedStep

(* Every other step leaves the replicas as they are.                        *)
LEMMA PhonesStep ==
    ASSUME PhonesOK, RelayInv, [Next]_vars
    PROVE  PhonesOK' /\ LedgersKept
  <1>1. CASE UNCHANGED <<dag, relay_of, limbo>>
    BY <1>1 DEF PhonesOK, PhonesStanding, PhonesPaying, PhonesStocked, LedgersKept
  <1>2. ASSUME NEW p \in Phones, Attach(p)
        PROVE  PhonesOK' /\ LedgersKept
    BY <1>2, AttachStep
  <1>3. ASSUME NEW p \in Phones, NEW q \in Phones, Meet(p, q)
        PROVE  PhonesOK' /\ LedgersKept
    BY <1>3, MeetStep
  <1>4. CASE Deposit
    BY <1>4, DepositStep
  <1>5. CASE Hand \/ StartRelayMode \/ Relay \/ DepositAsRelay \/ UNCHANGED vars
    <2>1. UNCHANGED <<dag, relay_of, limbo>>
      BY <1>5 DEF Hand, StartRelayMode, Relay, DepositAsRelay, vars
    <2> QED BY <1>1, <2>1
  <1> QED BY <1>2, <1>3, <1>4, <1>5 DEF Next

-----------------------------------------------------------------------------
(* The mempool of the relay phone stays within its cap.                     *)
RelayOK == RelayInv /\ RelayTypeOK

(* wallet_relay_step drops the oldest vertices over the cap.                *)
LEMMA RelayOKStep == RelayOK /\ RelayStep => RelayOK'
  <1> SUFFICES ASSUME RelayOK, RelayStep PROVE RelayTypeOK'
    BY RelayInvStep DEF RelayOK
  <1>0. RelayInv /\ RelayTypeOK /\ RELAY_MEMPOOL_CAP \in Nat \ {0}
    BY WalletRelayAssumption DEF RelayOK
  <1>1. CASE wallet_relay_step
    <2> DEFINE pool == Kept(mempool \o Intercepted(inbound))
    <2>1. mempool \o Intercepted(inbound) \in Seq(SignedVertices)
      BY <1>0, InterceptedType, ConcatProperties DEF RelayInv
    <2>2. Len(pool) <= RELAY_MEMPOOL_CAP
      <3> DEFINE s == mempool \o Intercepted(inbound)
      <3>1. s \in Seq(SignedVertices) /\ Len(s) \in Nat
        BY <2>1, LenProperties
      <3> HIDE DEF s
      <3>2. CASE Len(s) <= RELAY_MEMPOOL_CAP
        BY <3>2 DEF Kept, s
      <3>3. CASE ~(Len(s) <= RELAY_MEMPOOL_CAP)
        <4> DEFINE first == Len(s) - RELAY_MEMPOOL_CAP + 1
        <4>1. first \in Int /\ first >= 1 /\ first <= Len(s)
          BY <1>0, <3>1, <3>3
        <4>2. \A n \in first .. Len(s) : s[n] \in SignedVertices
          BY <3>1, <4>1, ElementOfSeq
        <4> HIDE DEF first
        <4>3. Len(SubSeq(s, first, Len(s))) = Len(s) - first + 1
          BY <3>1, <4>1, <4>2, SubSeqProperties
        <4>4. Kept(s) = SubSeq(s, first, Len(s))
          BY <3>3 DEF Kept, first
        <4>5. Len(Kept(s)) = RELAY_MEMPOOL_CAP
          BY <1>0, <3>1, <4>3, <4>4 DEF first
        <4> QED BY <1>0, <4>5 DEF s
      <3> QED BY <3>2, <3>3
    <2> HIDE DEF pool
    <2>3. /\ mempool' \in {<<>>, pool} /\ serving' \in BOOLEAN
          /\ link_up' = link_up /\ stopped' = stopped
      BY <1>1 DEF wallet_relay_step, pool
    <2>4. Len(<<>>) = 0
      OBVIOUS
    <2>5. Len(mempool') <= RELAY_MEMPOOL_CAP
      BY <1>0, <2>2, <2>3, <2>4
    <2> QED BY <1>0, <2>3, <2>5 DEF RelayTypeOK
  <1>2. CASE \E t \in Handed : push_inbound(t)
    BY <1>0, <1>2 DEF push_inbound, RelayTypeOK
  <1>3. CASE take_flush
    BY <1>0, <1>3 DEF take_flush, RelayTypeOK
  <1>4. CASE set_global_link_up
    BY <1>0, <1>4 DEF set_global_link_up, queues, RelayTypeOK
  <1>5. CASE request_stop
    BY <1>0, <1>5 DEF request_stop, queues, RelayTypeOK
  <1>6. CASE start_wallet_relay_mode
    BY <1>0, <1>6 DEF start_wallet_relay_mode, queues, RelayTypeOK
  <1>7. CASE UNCHANGED relay_vars
    BY <1>0, <1>7 DEF relay_vars, RelayTypeOK
  <1> QED BY <1>1, <1>2, <1>3, <1>4, <1>5, <1>6, <1>7 DEF RelayStep

(* At the start there is nothing in the mempool.                            *)
LEMMA RelayOKInit == Init => RelayOK
  <1>1. Init => RelayTypeOK
    <2> SUFFICES ASSUME Init PROVE RelayTypeOK
      OBVIOUS
    <2>1. mempool = <<>> /\ link_up = FALSE /\ stopped = FALSE /\ serving = FALSE
      BY DEF Init, RelayInit
    <2>2. Len(mempool) = 0
      BY <2>1
    <2>3. Len(mempool) <= RELAY_MEMPOOL_CAP
      BY <2>2, WalletRelayAssumption
    <2> QED BY <2>1, <2>3 DEF RelayTypeOK
  <1> QED BY <1>1, RelayInvInit DEF RelayOK

-----------------------------------------------------------------------------
(* The inductive invariant of the phones.                                   *)
PhoneInv == PhonesOK /\ RelayOK

(* Every step of the phones and of the relay service keeps both.            *)
LEMMA PhoneInvStep == PhoneInv /\ [Next]_vars => PhoneInv'
  BY PhonesStep, StepsOfThePhone, RelayOKStep DEF PhoneInv, RelayOK

(* And this is what the type invariant says.                                *)
LEMMA PhoneInvTyped == PhoneInv => TypeOK
  <1> SUFFICES ASSUME PhoneInv PROVE TypeOK
    OBVIOUS
  <1>1. ASSUME NEW p \in Phones
        PROVE  /\ IsReplica(dag[p])
               /\ relay_of[p] \in [DOMAIN relay_of[p] -> {Carrier}]
               /\ DOMAIN relay_of[p] \cup limbo[p] \subseteq VertexSet(dag[p].graph)
    <2>1. PhoneOK(dag[p], relay_of[p], limbo[p])
      BY DEF PhoneInv, PhonesOK
    <2>2. IsReplica(dag[p])
      BY <2>1, PhoneVertices, ReplicaTyped DEF PhoneOK
    <2> QED BY <2>1, <2>2 DEF PhoneOK, UserVertices
  <1> QED BY <1>1 DEF TypeOK, PhoneInv, RelayOK

(* merge_offline_graphs, attach and the relay service keep every replica a  *)
(* replica, write down a carrier only for what is stored, and keep the      *)
(* mempool within its cap, whoever meets whom and whatever is handed over.  *)
THEOREM TypeTheorem == Spec => []TypeOK
  <1>1. Init => PhoneInv
    BY PhonesInit, RelayOKInit DEF PhoneInv
  <1> QED BY <1>1, PhoneInvStep, PhoneInvTyped, PTL DEF Spec

(* The ledger of a phone that has counted all but the pending vertices.     *)
LEMMA StandingCounts == PhoneInv /\ PhonesStanding => LedgerCountsTheSettled
  <1> SUFFICES ASSUME PhoneInv, PhonesStanding, NEW p \in Phones
               PROVE  LET L == dag[p].ledger
                      IN  /\ L.dag_tx_count = Cardinality(Settled(p))
                          /\ \A a \in Users :
                                LET spends == {i \in Settled(p) :
                                                  dag[p].graph.vertices[i].sender = a}
                                IN  /\ L.next_nonce[a] = Cardinality(spends)
                                    /\ {dag[p].graph.vertices[i].nonce : i \in spends}
                                          = {n \in 0 .. Cardinality(spends) - 1 : TRUE}
                          /\ Conserved(dag[p])
    BY DEF LedgerCountsTheSettled
  <1> DEFINE L == dag[p].ledger
             V == dag[p].graph.vertices
             S == Settled(p)
  <1>1. LedgerCounts(L, V, S)
    BY DEF PhonesStanding, Standing, Settled
  <1>2. Conserved(dag[p])
    <2>1. LedgerOK(L, dag[p].faucet)
      BY DEF PhoneInv, PhonesOK, PhoneOK, ReplicaState
    <2> QED BY <2>1 DEF LedgerOK, Conserved
  <1> HIDE DEF L, V, S
  <1>3. L.dag_tx_count = Cardinality(S)
    BY <1>1 DEF LedgerCounts
  <1>4. ASSUME NEW a \in Users
        PROVE  LET spends == {i \in S : V[i].sender = a}
               IN  /\ L.next_nonce[a] = Cardinality(spends)
                   /\ {V[i].nonce : i \in spends} = {n \in 0 .. Cardinality(spends) - 1 : TRUE}
    <2> DEFINE spends == {i \in S : V[i].sender = a}
    <2>1. /\ {V[i].nonce : i \in spends} = 0 .. L.next_nonce[a] - 1
          /\ Cardinality(spends) = L.next_nonce[a]
      BY <1>1 DEF LedgerCounts, SpentBy
    <2> HIDE DEF spends
    <2>2. {n \in 0 .. Cardinality(spends) - 1 : TRUE} = 0 .. Cardinality(spends) - 1
      OBVIOUS
    <2>3. /\ L.next_nonce[a] = Cardinality(spends)
          /\ {V[i].nonce : i \in spends} = {n \in 0 .. Cardinality(spends) - 1 : TRUE}
      BY <2>1, <2>2
    <2> QED BY <2>3 DEF spends
  <1> QED BY <1>2, <1>3, <1>4 DEF L, V, S

(* If no vertex moves more than 64 bits hold, a merge of                    *)
(* src/dag/sync.rs that fails half way leaves the ledger as it was, and *)
(* the next one that succeeds counts everything, each nonce once: at any    *)
(* time and on every phone the ledger is that of the settled vertices.      *)
THEOREM SettledTheorem ==
    ASSUME Payable(PhoneKnown)
    PROVE  Spec => []LedgerCountsTheSettled
  <1> DEFINE Inv == PhoneInv /\ PhonesStanding
  <1>1. Init => Inv
    BY PhonesInit, RelayOKInit DEF PhoneInv
  <1>2. Inv /\ [Next]_vars => Inv'
    BY PhoneInvStep, PhonesStep DEF PhoneInv, RelayOK, LedgersKept
  <1>3. Inv => LedgerCountsTheSettled
    BY StandingCounts
  <1> HIDE DEF Inv
  <1> QED BY <1>1, <1>2, <1>3, PTL DEF Spec

(* If the relays' part of the fee has a share for each relay as well, the   *)
(* carrier has relay income on a phone exactly if a settled vertex there    *)
(* carries its proof: a mint pays all relays of a vertex or none, and a     *)
(* merge of src/dag/sync.rs that fails half way pays nobody yet.            *)
THEOREM ProofsTheorem ==
    ASSUME Payable(PhoneKnown), SharesFit(PhoneKnown)
    PROVE  Spec => []OnlyProofsArePaid
  <1> DEFINE Inv == PhoneInv /\ PhonesPaying
  <1>1. Init => Inv
    BY PhonesInit, RelayOKInit DEF PhoneInv
  <1>2. Inv /\ [Next]_vars => Inv'
    BY PhoneInvStep, PhonesStep DEF PhoneInv, RelayOK, LedgersKept
  <1>3. Inv => OnlyProofsArePaid
    BY PhoneMeetupAssumption DEF PhonesPaying, Paying, Pays, OnlyProofsArePaid, Settled
  <1> HIDE DEF Inv
  <1> QED BY <1>1, <1>2, <1>3, PTL DEF Spec

-----------------------------------------------------------------------------
(* Meetings deliver.                                                        *)

(* A vertex that fits is stored, if it is not there yet.                    *)
LEMMA FittingMerged ==
    ASSUME NEW Known, KnownOK(Known), NEW d, NEW m, IsMerge(d, Known, m), m.verdict = "Ok",
           NEW t \in Known, t.wellformed,
           {t.parent_1, t.parent_2} \subseteq VertexSet(m.dag.graph),
           NEW r, r = MergeOne(m, t)
    PROVE  /\ IsMerge(d, Known, r) /\ r.verdict = "Ok"
           /\ VertexSet(m.dag.graph) \cup {t.id} \subseteq VertexSet(r.dag.graph)
  <1> DEFINE g == m.dag.graph
             stored == insert_graph_only(m.dag, t)
             h == InsertVertex(g, t)
  <1>1. IsMerge(d, Known, r)
    BY MergeOneState
  <1>2. CASE t.id \in VertexSet(g)
    <2>1. r = m
      BY <1>2 DEF MergeOne
    <2> QED BY <1>1, <1>2, <2>1
  <1>3. CASE t.id \notin VertexSet(g)
    <2>1. /\ ReplicaState(m.dag, Known) /\ GraphOK(g) /\ IsRecord(m.dag)
      BY DEF IsMerge, ReplicaState, ReplicaOK
    <2>2. NULL_PARENT \notin VertexSet(g)
      BY <2>1, DagGraphAssumption DEF GraphOK
    <2>3. ~is_genesis(t) /\ ParentsAdmitted(g, t)
      BY <2>2 DEF is_genesis, ParentsAdmitted
    <2>4. GraphVerdict(g, t) = "Ok"
      BY <1>3, <2>3 DEF GraphVerdict
    <2>5. stored.verdict = "Ok" /\ stored.dag = [m.dag EXCEPT !.graph = h]
      BY <2>4 DEF insert_graph_only
    <2>6. r = [verdict |-> stored.verdict, dag |-> stored.dag,
               inserted |-> IF stored.verdict = "Ok" THEN m.inserted \cup {t.id}
                            ELSE m.inserted]
      BY <1>3, <2>3 DEF MergeOne
    <2> HIDE DEF stored, h
    <2>7. r.verdict = "Ok" /\ r.dag.graph = h
      BY <2>1, <2>5, <2>6 DEF IsRecord
    <2>8. VertexSet(h) = VertexSet(g) \cup {t.id}
      BY InsertedFields DEF h
    <2> QED BY <1>1, <2>7, <2>8
  <1> QED BY <1>2, <1>3

(* All of a batch is stored that has parents before children.               *)
LEMMA FittingStored ==
    ASSUME NEW Known, KnownOK(Known), NEW d, ReplicaState(d, Known),
           NEW batch, \A i \in DOMAIN batch : /\ batch[i] \in Known /\ batch[i].id = i
                                              /\ batch[i].wellformed,
           NEW order, ListsForMerge(d.graph, batch, order),
           NEW m, m = AllMerged("Ok", d, batch, order)
    PROVE  /\ IsMerge(d, Known, m) /\ m.verdict = "Ok"
           /\ DOMAIN batch \subseteq VertexSet(m.dag.graph)
  <1> DEFINE N == Len(order)
             Before(n) == {order[k] : k \in 1 .. n}
  <1>0. order \in Seq(DOMAIN batch) /\ Elements(order) = DOMAIN batch
    BY DEF ListsForMerge
  <1>1. /\ N \in Nat /\ DOMAIN order = 1 .. N
        /\ \A n \in 1 .. N : order[n] \in DOMAIN batch
        /\ DOMAIN batch = Before(N)
    BY <1>0 DEF Elements
  <1>2. \A k \in 1 .. N : {batch[order[k]].parent_1, batch[order[k]].parent_2}
                             \subseteq VertexSet(d.graph) \cup Before(k - 1)
    BY DEF ListsForMerge
  <1> HIDE DEF N
  <1>3. PICK run : IsMerging("Ok", d, batch, order, N, run) /\ m = run[N]
    BY <1>1, MergingRun
  <1> DEFINE Fine(n) == /\ IsMerge(d, Known, run[n]) /\ run[n].verdict = "Ok"
                        /\ Before(n) \subseteq VertexSet(run[n].dag.graph)
             T == {n \in 0 .. N : Fine(n)}
  <1>4. 0 \in T
    <2>1. run[0] = [verdict |-> "Ok", dag |-> d, inserted |-> {}]
      BY <1>3 DEF IsMerging
    <2>2. IsMerge(d, Known, run[0])
      BY <2>1 DEF IsMerge
    <2>3. Before(0) = {} /\ run[0].verdict = "Ok"
      BY <2>1
    <2> HIDE DEF Before
    <2> QED BY <1>1, <2>2, <2>3
  <1>5. ASSUME NEW n \in 1 .. N, n - 1 \in T PROVE n \in T
    <2> DEFINE t == batch[order[n]]
               g == run[n - 1].dag.graph
    <2>1. Fine(n - 1) /\ n \in 0 .. N
      BY <1>1, <1>5
    <2>2. run[n] = MergeOne(run[n - 1], t)
      BY <1>3 DEF IsMerging
    <2>3. t \in Known /\ t.wellformed /\ t.id = order[n]
      BY <1>1
    <2>4. VertexSet(d.graph) \subseteq VertexSet(g)
      BY <2>1 DEF IsMerge
    <2>5. {t.parent_1, t.parent_2} \subseteq VertexSet(g)
      <3>1. {t.parent_1, t.parent_2} \subseteq VertexSet(d.graph) \cup Before(n - 1)
        BY <1>2
      <3>2. Before(n - 1) \subseteq VertexSet(g)
        BY <2>1
      <3> HIDE DEF Before, t, g
      <3> QED BY <2>4, <3>1, <3>2
    <2> HIDE DEF t
    <2>6. /\ IsMerge(d, Known, run[n]) /\ run[n].verdict = "Ok"
          /\ VertexSet(g) \cup {t.id} \subseteq VertexSet(run[n].dag.graph)
      <3>1. IsMerge(d, Known, run[n - 1]) /\ run[n - 1].verdict = "Ok"
        BY <2>1
      <3> HIDE DEF Fine
      <3> QED BY <2>2, <2>3, <2>5, <3>1, FittingMerged
    <2>7. Before(n) \subseteq Before(n - 1) \cup {order[n]}
      <3>1. \A k \in 1 .. n : k = n \/ k \in 1 .. n - 1
        BY <1>1
      <3> QED BY <3>1
    <2>8. Before(n) \subseteq VertexSet(run[n].dag.graph)
      <3>1. Before(n - 1) \subseteq VertexSet(g)
        BY <2>1
      <3> HIDE DEF Before, g
      <3> QED BY <2>3, <2>6, <2>7, <3>1
    <2> QED BY <2>1, <2>6, <2>8
  <1>6. \A n \in 0 .. N : n \in T
    <2> HIDE DEF T
    <2> QED BY <1>1, <1>4, <1>5, IndexSetInduction
  <1>7. Fine(N)
    <2>1. N \in 0 .. N
      BY <1>1
    <2> HIDE DEF Fine
    <2> QED BY <1>6, <2>1
  <1> QED BY <1>1, <1>3, <1>7

(* Then the whole merge is a success.                                       *)
LEMMA FittingDelivered ==
    ASSUME NEW Known, KnownOK(Known), Payable(Known),
           NEW d, ReplicaState(d, Known), KnownRoom(Known, d.faucet),
           NEW txs \in Seq(Known), Fitting(d.graph, Batch(txs)),
           NEW m, m = merge_offline_graphs(d, txs)
    PROVE  m.verdict = "Ok" /\ DOMAIN Batch(txs) \subseteq VertexSet(m.dag.graph)
  <1> DEFINE batch == Batch(txs)
             D == DOMAIN batch
             topo == topo_order_incoming(d.graph, batch)
             merged == AllMerged(topo.verdict, d, batch, topo.ordered)
             rebuilt == resolve_conflicts_and_rebuild_ledger(merged.dag)
  <1>1. m = IF merged.verdict # "Ok" \/ merged.inserted = {} THEN merged
            ELSE [merged EXCEPT !.verdict = rebuilt.verdict, !.dag = rebuilt.dag]
    BY DEF merge_offline_graphs, AllMerged
  <1>2. /\ IsFiniteSet(D) /\ D \subseteq TxHash
        /\ \A i \in D : batch[i] \in Known /\ batch[i].id = i
    <2>1. \A t \in Known : t.id \in TxHash
      BY DEF KnownOK
    <2> QED BY <2>1, BatchFacts
  <1>3. Fitting(d.graph, batch)
    OBVIOUS
  <1> HIDE DEF batch
  <1>4. PICK t : t = topo
    OBVIOUS
  <1>5. t.verdict = "Ok" /\ ListsForMerge(d.graph, batch, t.ordered)
    <2>1. DOMAIN batch \subseteq Nat /\ NULL_PARENT \notin VertexSet(d.graph)
      BY <1>2, DagGraphAssumption DEF ReplicaState, ReplicaOK, GraphOK
    <2> QED BY <1>2, <1>3, <1>4, <2>1, FittingOrder
  <1>6. merged = AllMerged("Ok", d, batch, t.ordered)
    BY <1>4, <1>5
  <1> HIDE DEF topo, merged
  <1>7. /\ IsMerge(d, Known, merged) /\ merged.verdict = "Ok"
        /\ D \subseteq VertexSet(merged.dag.graph)
    <2>1. \A i \in D : batch[i].wellformed
      BY <1>3 DEF Fitting
    <2> QED BY <1>2, <1>5, <1>6, <2>1, FittingStored
  <1>8. CASE merged.inserted = {}
    BY <1>1, <1>7, <1>8 DEF batch
  <1>9. CASE merged.inserted # {}
    <2>1. /\ merged = [verdict |-> merged.verdict, dag |-> merged.dag,
                       inserted |-> merged.inserted]
          /\ ReplicaState(merged.dag, Known) /\ KnownRoom(Known, merged.dag.faucet)
      BY <1>7 DEF IsMerge
    <2>2. IsRebuild(merged.dag, Known, rebuilt)
      BY <2>1, RebuildState
    <2>3. AmountsFit(merged.dag.graph)
      BY <2>1, StoredAmounts DEF ReplicaState
    <2>4. rebuilt.verdict = "Ok" /\ rebuilt.dag.graph = merged.dag.graph
      BY <2>2, <2>3 DEF IsRebuild
    <2> HIDE DEF rebuilt
    <2>5. m.verdict = rebuilt.verdict /\ m.dag = rebuilt.dag
      BY <1>1, <1>7, <1>9, <2>1
    <2> QED BY <1>7, <2>4, <2>5 DEF batch
  <1> QED BY <1>8, <1>9

(* What p needs of a phone that it meets is all that p lacks.               *)
LEMMA MeetingNeed ==
    ASSUME NEW Known, KnownOK(Known), ClosuresUncut(Known),
           NEW d, ReplicaState(d, Known), NEW e, ReplicaState(e, Known), Stocked(e.graph)
    PROVE  collect_need(d.graph, from_dag(e.graph)) = VertexSet(e.graph) \ VertexSet(d.graph)
  <1> DEFINE g == d.graph
             h == e.graph
             inv == from_dag(h)
             under == UNION {ParentSet(g.vertices[tip]) : tip \in inv.tips \cap VertexSet(g)}
  <1>1. GraphOK(g) /\ GraphOK(h) /\ StoredFrom(g, Known) /\ StoredFrom(h, Known)
    BY DEF ReplicaState, ReplicaOK
  <1>2. UNION {parent_closure(h, tip) : tip \in h.tips} = VertexSet(h)
    BY <1>1, TipsSeeAll
  <1>3. /\ h.tips \subseteq VertexSet(h) /\ GenesisId \in VertexSet(h)
        /\ GenesisId \in VertexSet(g) /\ h.genesis_id = GenesisId
    BY <1>1 DEF GraphOK, TipsConsistent, StoredFrom, Stocked
  <1>4. advertised(inv) \cup {GenesisId} = VertexSet(h)
    BY <1>2, <1>3 DEF from_dag, advertised
  <1>5. \A i \in VertexSet(g) : ParentSet(g.vertices[i]) \subseteq VertexSet(g)
    BY <1>1 DEF GraphOK, ParentsStored, ParentSet
  <1>6. under \subseteq VertexSet(g)
    BY <1>5
  <1>7. collect_need(g, inv) = (advertised(inv) \cup under) \ VertexSet(g)
    BY DEF collect_need
  <1> HIDE DEF under, inv
  <1>8. collect_need(g, inv) = VertexSet(h) \ VertexSet(g)
    BY <1>3, <1>4, <1>6, <1>7
  <1> QED BY <1>8 DEF inv

(* Vertices of a stored graph form no cycle: parents are attached first.    *)
LEMMA StoredAcyclic ==
    ASSUME NEW g, GraphOK(g), NEW batch, DOMAIN batch \subseteq VertexSet(g),
           \A i \in DOMAIN batch : batch[i] = g.vertices[i]
    PROVE  Acyclic(batch)
  <1> DEFINE order == g.attach_order
             N == Len(order)
             at(i) == CHOOSE n \in 1 .. N : order[n] = i
             rank == [i \in DOMAIN batch |-> at(i)]
  <1>1. /\ N \in Nat
        /\ {order[n] : n \in 1 .. N} = VertexSet(g)
        /\ \A m, n \in 1 .. N : order[m] = order[n] => m = n
        /\ \A n \in 1 .. N :
              {g.vertices[order[n]].parent_1, g.vertices[order[n]].parent_2}
                  \subseteq {order[m] : m \in 1 .. n - 1} \cup {NULL_PARENT}
    <2>1. order \in Seq(TxHash) /\ DOMAIN order = 1 .. N /\ N \in Nat
      BY DEF GraphOK
    <2> QED BY <2>1 DEF GraphOK, OrderTopological, ToSet, NoRepeats
  <1> HIDE DEF order, N
  <1>2. ASSUME NEW i \in VertexSet(g) PROVE at(i) \in 1 .. N /\ order[at(i)] = i
    <2>1. \E n \in 1 .. N : order[n] = i
      BY <1>1
    <2> QED BY <2>1
  <1> HIDE DEF at
  <1>3. rank \in [DOMAIN batch -> Nat]
    <2>1. ASSUME NEW i \in DOMAIN batch PROVE at(i) \in Nat
      <3>1. at(i) \in 1 .. N
        BY <1>2
      <3> QED BY <1>1, <3>1
    <2> QED BY <2>1
  <1>4. ASSUME NEW i \in DOMAIN batch, NEW j \in DOMAIN batch, j \in ParentSet(batch[i])
        PROVE  rank[j] < rank[i]
    <2>1. j \in {g.vertices[i].parent_1, g.vertices[i].parent_2} /\ j # NULL_PARENT
      BY <1>4 DEF ParentSet
    <2>2. /\ at(i) \in 1 .. N /\ order[at(i)] = i
          /\ at(j) \in 1 .. N /\ order[at(j)] = j
      BY <1>2
    <2>3. PICK m \in 1 .. at(i) - 1 : order[m] = j
      BY <1>1, <2>1, <2>2
    <2>4. m \in 1 .. N /\ m < at(i)
      BY <1>1, <2>2, <2>3
    <2>5. m = at(j)
      BY <1>1, <2>2, <2>3, <2>4
    <2> QED BY <2>4, <2>5
  <1>5. \A i, j \in DOMAIN batch : j \in ParentSet(batch[i]) => rank[j] < rank[i]
    BY <1>4
  <1> HIDE DEF rank
  <1> QED BY <1>3, <1>5 DEF Acyclic

(* A batch of stored bodies is what is stored.                              *)
StoredPart(g, need, batch) ==
    /\ DOMAIN batch = VertexSet(g) \cap need
    /\ \A i \in DOMAIN batch : batch[i] = g.vertices[i]

LEMMA BatchOfBodies ==
    ASSUME NEW g, NEW need, NEW txs, IsBodyList(g, need, txs)
    PROVE  StoredPart(g, need, Batch(txs))
  <1> DEFINE N == Len(txs)
             batch == Batch(txs)
  <1>1. /\ DOMAIN txs = 1 .. N /\ N \in Nat
        /\ {txs[n].id : n \in 1 .. N} = VertexSet(g) \cap need
        /\ \A n \in 1 .. N : txs[n] = g.vertices[txs[n].id]
    BY DEF IsBodyList, ListsOnce
  <1> HIDE DEF N
  <1>2. DOMAIN batch = VertexSet(g) \cap need
    BY <1>1 DEF Batch
  <1>3. ASSUME NEW i \in DOMAIN batch PROVE batch[i] = g.vertices[i]
    <2> DEFINE at == {n \in DOMAIN txs : txs[n].id = i}
    <2>1. batch[i] = txs[Min(at)]
      BY <1>1, <1>2 DEF Batch
    <2>2. at # {} /\ at \subseteq Nat /\ \A n \in at : n \in 1 .. N /\ txs[n].id = i
      BY <1>1, <1>2
    <2> HIDE DEF at
    <2>3. \E x \in at : \A y \in at : x <= y
      BY <2>2, LeastNat
    <2>4. Min(at) \in at
      BY <2>3 DEF Min
    <2> QED BY <1>1, <2>1, <2>2, <2>4
  <1> QED BY <1>2, <1>3 DEF StoredPart

(* What a phone that is met hands over fits, and is all there is.           *)
LEMMA MeetingFits ==
    ASSUME NEW Known, KnownOK(Known), ClosuresUncut(Known),
           NEW d, ReplicaState(d, Known), NEW e, ReplicaState(e, Known), Stocked(e.graph),
           NEW txs, txs = transactions_for_in_order(e.graph,
                              collect_need(d.graph, from_dag(e.graph)))
    PROVE  /\ Fitting(d.graph, Batch(txs))
           /\ VertexSet(e.graph) \subseteq VertexSet(d.graph) \cup DOMAIN Batch(txs)
  <1> PICK g : g = e.graph
    OBVIOUS
  <1>0. PICK need : need = VertexSet(g) \ VertexSet(d.graph)
    OBVIOUS
  <1>1. txs = transactions_for_in_order(g, need)
    BY <1>0, MeetingNeed
  <1>2. /\ GraphOK(g) /\ StoredFrom(g, Known) /\ GenesisId \in VertexSet(d.graph)
        /\ NULL_PARENT \notin VertexSet(g)
    BY DagGraphAssumption DEF ReplicaState, ReplicaOK, StoredFrom, GraphOK
  <1>3. IsBodyList(g, need, txs)
    <2>1. \A i \in VertexSet(g) : g.vertices[i].id = i
      BY <1>2 DEF StoredFrom
    <2> QED BY <1>1, <1>2, <2>1, StoredBodies
  <1>4. PICK batch : batch = Batch(txs)
    OBVIOUS
  <1>5. DOMAIN batch = need /\ \A i \in DOMAIN batch : batch[i] = g.vertices[i]
    <2>1. VertexSet(g) \cap need = need
      BY <1>0
    <2>2. StoredPart(g, need, batch)
      BY <1>3, <1>4, BatchOfBodies
    <2> QED BY <2>1, <2>2 DEF StoredPart
  <1>6. Acyclic(batch)
    BY <1>0, <1>2, <1>5, StoredAcyclic
  <1>7. ASSUME NEW i \in DOMAIN batch
        PROVE  /\ batch[i].wellformed
               /\ {batch[i].parent_1, batch[i].parent_2}
                     \subseteq VertexSet(d.graph) \cup DOMAIN batch
    BY <1>0, <1>2, <1>5 DEF Stocked
  <1>8. Fitting(d.graph, batch)
    BY <1>0, <1>2, <1>5, <1>6, <1>7 DEF Fitting
  <1> QED BY <1>0, <1>4, <1>5, <1>8

(* So a meeting delivers all that the other phone has.                      *)
LEMMA MeetingDelivers ==
    ASSUME NEW Known, KnownOK(Known), ClosuresUncut(Known), Payable(Known),
           NEW d, ReplicaState(d, Known), KnownRoom(Known, d.faucet),
           NEW e, ReplicaState(e, Known), Stocked(e.graph),
           NEW m, m = exchange_and_merge(d, e)
    PROVE  m.verdict = "Ok" /\ VertexSet(e.graph) \subseteq VertexSet(m.dag.graph)
  <1> DEFINE txs == transactions_for_in_order(e.graph,
                        collect_need(d.graph, from_dag(e.graph)))
  <1>1. m = merge_offline_graphs(d, txs)
    BY DEF exchange_and_merge
  <1>2. txs \in Seq(Known)
    BY BodiesHandedOver
  <1>3. /\ Fitting(d.graph, Batch(txs))
        /\ VertexSet(e.graph) \subseteq VertexSet(d.graph) \cup DOMAIN Batch(txs)
    BY MeetingFits
  <1> HIDE DEF txs
  <1>4. m.verdict = "Ok" /\ DOMAIN Batch(txs) \subseteq VertexSet(m.dag.graph)
    BY <1>1, <1>2, <1>3, FittingDelivered
  <1>5. VertexSet(d.graph) \subseteq VertexSet(m.dag.graph)
    <2>1. IsMergeResult(d, Known, m)
      BY <1>1, <1>2, MergeResult
    <2> QED BY <2>1 DEF IsMergeResult
  <1> QED BY <1>3, <1>4, <1>5

(* A phone delivers what is so stored.                                      *)
LEMMA StockedDeliver ==
    ASSUME Payable(PhoneKnown), ClosuresUncut(PhoneKnown), PhoneInv, PhonesStocked
    PROVE  MeetingsDeliver
  <1> SUFFICES ASSUME NEW p \in Phones, NEW q \in Phones
               PROVE  LET m == exchange_and_merge(dag[p], dag[q])
                      IN  /\ m.verdict = "Ok"
                          /\ VertexSet(dag[q].graph) \subseteq VertexSet(m.dag.graph)
    BY DEF MeetingsDeliver
  <1>1. /\ ReplicaState(dag[p], PhoneKnown) /\ ReplicaState(dag[q], PhoneKnown)
        /\ KnownRoom(PhoneKnown, dag[p].faucet) /\ KnownOK(PhoneKnown)
    BY PhoneVertices DEF PhoneInv, PhonesOK, PhoneOK
  <1>2. Stocked(dag[q].graph)
    BY DEF PhonesStocked
  <1> QED BY <1>1, <1>2, MeetingDelivers

(* If the walk bound cuts no closure and no amount is more than 64 bits     *)
(* hold, a meeting of two phones that trust each other succeeds, and the    *)
(* phone then stores all that the other has: exchange_and_merge of          *)
(* src/dag/sync.rs asks for enough, and what it is handed orders and merges *)
(* whatever stray vertices either phone has taken in before.                *)
THEOREM DeliveryTheorem ==
    ASSUME Payable(PhoneKnown), ClosuresUncut(PhoneKnown)
    PROVE  Spec => []MeetingsDeliver
  <1> DEFINE Inv == PhoneInv /\ PhonesStocked
  <1>1. Init => Inv
    BY PhonesInit, RelayOKInit DEF PhoneInv
  <1>2. Inv /\ [Next]_vars => Inv'
    BY PhoneInvStep, PhonesStep DEF PhoneInv, RelayOK, LedgersKept
  <1>3. Inv => MeetingsDeliver
    BY StockedDeliver
  <1> HIDE DEF Inv
  <1> QED BY <1>1, <1>2, <1>3, PTL DEF Spec
=============================================================================
