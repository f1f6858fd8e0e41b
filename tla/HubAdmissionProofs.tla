-------------------------- MODULE HubAdmissionProofs --------------------------
(***************************************************************************)
(* The slot counter, the rate window and the types of HubAdmission, for    *)
(* any finite number of sessions and any limits.                           *)
(***************************************************************************)
EXTENDS HubAdmission, FiniteSetTheorems, WellFoundedInduction, TLAPS

-----------------------------------------------------------------------------
(* Session slots.  AtMostMaxServing is not inductive: that an admitted      *)
(* session leaves the limit intact follows only because the counter it read *)
(* covers every session served at that moment.                              *)

SlotInv ==
    /\ pc \in [Sessions -> {"idle", "serving", "overshot"}]
    /\ SlotsAccounted
    /\ AtMostMaxServing

(* Served sessions are among those whose increment stands.                 *)
LEMMA SlotSets ==
    /\ IsFiniteSet(Serving) /\ Cardinality(Serving) \in Nat
    /\ IsFiniteSet(Holding) /\ Cardinality(Holding) \in Nat
    /\ Cardinality(Serving) <= Cardinality(Holding)
  <1>1. Serving \subseteq Holding /\ Holding \subseteq Sessions
    BY DEF Serving, Holding
  <1>2. IsFiniteSet(Holding) /\ IsFiniteSet(Serving)
    BY <1>1, FS_Subset, HubAdmissionAssumption
  <1> QED BY <1>1, <1>2, FS_Subset, FS_CardinalityType

(* A thread that leaves the slots it held: what it does to both counts.     *)
LEMMA LeaveSlot ==
    ASSUME SlotInv, NEW s \in Holding, pc' = [pc EXCEPT ![s] = "idle"],
           sessions' = sessions - 1
    PROVE  SlotInv' /\ sessions \in Nat \ {0}
  <1>1. s \in Sessions /\ pc[s] # "idle"
    BY DEF Holding
  <1>2. Holding' = Holding \ {s} /\ Serving' = Serving \ {s}
    BY <1>1 DEF Holding, Serving, SlotInv
  <1>3. Cardinality(Holding') = Cardinality(Holding) - 1
    BY <1>2, SlotSets, FS_RemoveElement
  <1>4. Cardinality(Serving') <= Cardinality(Serving)
    BY <1>2, SlotSets, FS_Subset
  <1>5. Cardinality(Serving') \in Nat /\ Cardinality(Holding') \in Nat
    BY <1>2, SlotSets, FS_Subset, FS_RemoveElement, FS_CardinalityType
  <1>6. sessions \in Nat \ {0}
    BY <1>3, <1>5, SlotSets DEF SlotInv, SlotsAccounted
  <1>7. pc' \in [Sessions -> {"idle", "serving", "overshot"}]
    BY <1>1 DEF SlotInv
  <1> QED
    BY <1>3, <1>4, <1>5, <1>6, <1>7, SlotSets, HubAdmissionAssumption
       DEF SlotInv, SlotsAccounted, AtMostMaxServing

(* try_acquire_session and release_session keep the counter exact and the  *)
(* served sessions within the limit, in any interleaving of their steps.   *)
THEOREM SlotTheorem == Spec => []SlotInv
  <1>1. Init => SlotInv
    <2> SUFFICES ASSUME Init PROVE SlotInv
      OBVIOUS
    <2>1. Holding = {} /\ Serving = {}
      BY DEF Init, Nobody, Holding, Serving
    <2> QED
      BY <2>1, FS_EmptySet, HubAdmissionAssumption
         DEF Init, Nobody, SlotInv, SlotsAccounted, AtMostMaxServing
  <1>2. SlotInv /\ [Next]_vars => SlotInv'
    <2> SUFFICES ASSUME SlotInv, [Next]_vars PROVE SlotInv'
      OBVIOUS
    <2>1. ASSUME NEW s \in Sessions, TryAcquire(s) PROVE SlotInv'
      <3>1. s \notin Holding /\ s \notin Serving
        BY <2>1 DEF TryAcquire, Holding, Serving
      <3>2. Holding' = Holding \cup {s}
        BY <2>1 DEF TryAcquire, Holding, SlotInv
      <3>3. Cardinality(Holding') = Cardinality(Holding) + 1
        BY <3>1, <3>2, SlotSets, FS_AddElement
      <3>4. pc' \in [Sessions -> {"idle", "serving", "overshot"}]
        BY <2>1 DEF TryAcquire, SlotInv
      <3>5. SlotsAccounted'
        BY <2>1, <3>3 DEF TryAcquire, SlotInv, SlotsAccounted
      <3>6. CASE HasRoom(sessions)
        <4>1. Serving' = Serving \cup {s}
          BY <2>1, <3>6 DEF TryAcquire, Serving, SlotInv
        <4>2. Cardinality(Serving') = Cardinality(Serving) + 1
          BY <3>1, <4>1, SlotSets, FS_AddElement
        <4>3. Cardinality(Serving) < MAX_MESH_CONNECTIONS
          BY <3>6, SlotSets, HubAdmissionAssumption
             DEF HasRoom, SlotInv, SlotsAccounted
        <4> QED
          BY <3>4, <3>5, <4>2, <4>3, SlotSets, HubAdmissionAssumption
             DEF SlotInv, AtMostMaxServing
      <3>7. CASE ~HasRoom(sessions)
        <4>1. Serving' = Serving
          BY <2>1, <3>7 DEF TryAcquire, Serving, SlotInv
        <4> QED BY <3>4, <3>5, <4>1 DEF SlotInv, AtMostMaxServing
      <3> QED BY <3>6, <3>7
    <2>2. ASSUME NEW s \in Sessions, UndoAcquire(s) PROVE SlotInv'
      BY <2>2, LeaveSlot DEF UndoAcquire, Holding
    <2>3. ASSUME NEW s \in Sessions, ReleaseSession(s) PROVE SlotInv'
      <3>1. s \in Holding
        BY <2>3 DEF ReleaseSession, Holding
      <3>2. sessions # 0
        BY <3>1, SlotSets, FS_EmptySet DEF SlotInv, SlotsAccounted
      <3> QED BY <2>3, <3>1, <3>2, LeaveSlot DEF ReleaseSession
    <2>4. CASE UNCHANGED slot_vars
      BY <2>4 DEF slot_vars, SlotInv, SlotsAccounted, AtMostMaxServing, Holding, Serving
    <2>5. (\E s \in Sessions : OfferVertex(s)) \/ Tick \/ UNCHANGED vars
             => UNCHANGED slot_vars
      BY DEF OfferVertex, Tick, vars, slot_vars
    <2> QED BY <2>1, <2>2, <2>3, <2>4, <2>5 DEF Next
  <1> QED BY <1>1, <1>2, PTL DEF Spec

(* However many threads race for the last slots, at most                    *)
(* MAX_MESH_CONNECTIONS sessions are served at once.                        *)
THEOREM ServingTheorem == Spec => []AtMostMaxServing
  <1>1. SlotInv => AtMostMaxServing
    BY DEF SlotInv
  <1> QED BY <1>1, SlotTheorem, PTL

(* The counter neither leaks a slot nor gives one back twice.               *)
THEOREM AccountTheorem == Spec => []SlotsAccounted
  <1>1. SlotInv => SlotsAccounted
    BY DEF SlotInv
  <1> QED BY <1>1, SlotTheorem, PTL

-----------------------------------------------------------------------------
(* Types.  A session was admitted at most as many vertices as the window    *)
(* has counted, which is what keeps spent below the limit; that the         *)
(* decrement of a refused session stays in Nat needs SlotInv.               *)
SpentIsCounted == \A s \in Sessions : spent[s] <= vertices_in_window

(* Every variable keeps its type; in particular no session is ever admitted *)
(* more vertices in one window than the limit of the hub.                   *)
THEOREM TypeTheorem == Spec => []TypeOK
  <1> DEFINE IInv == TypeOK /\ SpentIsCounted
  <1> USE HubAdmissionAssumption
  <1>1. Init => IInv
    BY DEF Init, Nobody, TypeOK, SpentIsCounted
  <1>2. IInv /\ SlotInv /\ [Next]_vars => IInv'
    <2> SUFFICES ASSUME IInv, SlotInv, [Next]_vars PROVE IInv'
      OBVIOUS
    <2> USE DEF TypeOK, SpentIsCounted
    <2>1. ASSUME NEW s \in Sessions, TryAcquire(s) PROVE IInv'
      BY <2>1 DEF TryAcquire, rate_vars
    <2>2. ASSUME NEW s \in Sessions, UndoAcquire(s) PROVE IInv'
      <3>1. sessions \in Nat \ {0}
        BY <2>2, LeaveSlot DEF UndoAcquire, Holding
      <3> QED BY <2>2, <3>1 DEF UndoAcquire, rate_vars
    <2>3. ASSUME NEW s \in Sessions, ReleaseSession(s) PROVE IInv'
      <3>1. sessions' \in Nat
        BY <2>3 DEF ReleaseSession
      <3> QED BY <2>3, <3>1 DEF ReleaseSession, rate_vars
    <2>4. ASSUME NEW s \in Sessions, OfferVertex(s) PROVE IInv'
      BY <2>4 DEF OfferVertex, Expired, AgeAfterOffer, Allowed, Nobody, slot_vars
    <2>5. ASSUME Tick PROVE IInv'
      BY <2>5 DEF Tick, Expired, slot_vars
    <2>6. CASE UNCHANGED vars
      BY <2>6 DEF vars
    <2> QED BY <2>1, <2>2, <2>3, <2>4, <2>5, <2>6 DEF Next
  <1> QED BY <1>1, <1>2, SlotTheorem, PTL DEF Spec
-----------------------------------------------------------------------------
(* The rate window.  The limit of a span is not inductive: what an offer    *)
(* may still add depends on how much of the span the current window has     *)
(* admitted, so the two parts of the span are bounded one by one.           *)

(* What the recursive function YoungerThan computes.                        *)
Counts(p) ==
    /\ p \in [0 .. VERTEX_RATE_WINDOW -> Nat]
    /\ p[0] = 0
    /\ \A n \in 0 .. VERTEX_RATE_WINDOW - 1 : p[n + 1] = p[n] + recent[n]

(* The ages below this one are of the current window.                       *)
WindowAge == IF Expired THEN VERTEX_RATE_WINDOW ELSE age + 1

(* The current window has counted what it admitted and kept to its limit;   *)
(* what is left of earlier windows is within one limit; an expired window   *)
(* admits nothing, so the next one starts on an empty instant.              *)
RateInv ==
    \E p : /\ Counts(p)
           /\ p[WindowAge] <= vertices_in_window
           /\ p[WindowAge] <= MAX_VERTICES_PER_PEER_WINDOW
           /\ p[VERTEX_RATE_WINDOW] - p[WindowAge] <= MAX_VERTICES_PER_PEER_WINDOW
           /\ Expired => recent[0] = 0

(* There is one such function only, so it is YoungerThan.                   *)
LEMMA YoungerThanCounts ==
    ASSUME TypeOK, NEW p, Counts(p)
    PROVE  YoungerThan[VERTEX_RATE_WINDOW] = p[VERTEX_RATE_WINDOW]
  <1> DEFINE W == VERTEX_RATE_WINDOW
             Eq(g) == g = [n \in 0 .. W |-> IF n = 0 THEN 0 ELSE g[n - 1] + recent[n - 1]]
             R == {q \in Nat \X Nat : q[1] < q[2]}
  <1>1. W \in Nat
    BY HubAdmissionAssumption
  <1>2. /\ p \in [0 .. W -> Nat] /\ p[0] = 0
        /\ \A n \in 0 .. W - 1 : p[n + 1] = p[n] + recent[n]
    BY DEF Counts
  <1>3. \A n \in 0 .. W : n # 0 => p[n] = p[n - 1] + recent[n - 1]
    <2> TAKE n \in 0 .. W
    <2> HAVE n # 0
    <2>1. n - 1 \in 0 .. W - 1 /\ (n - 1) + 1 = n
      BY <1>1
    <2> QED BY <1>2, <2>1
  <1>4. Eq(p)
    <2>1. \A n \in 0 .. W : p[n] = IF n = 0 THEN 0 ELSE p[n - 1] + recent[n - 1]
      BY <1>2, <1>3
    <2> QED BY <1>2, <2>1, Zenon
  <1>5. Eq(YoungerThan)
    <2>1. YoungerThan = CHOOSE g : Eq(g)
      BY DEF YoungerThan
    <2> HIDE DEF Eq
    <2> QED BY <1>4, <2>1
  <1> DEFINE T == {n \in 0 .. W : YoungerThan[n] # p[n]}
  <1>6. T = {}
    <2> SUFFICES ASSUME T # {} PROVE FALSE
      OBVIOUS
    <2>1. IsWellFoundedOn(R, Nat) /\ T \subseteq Nat
      BY NatLessThanWellFounded DEF OpToRel
    <2>2. PICK n \in T : \A m \in T : <<m, n>> \notin R
      <3> HIDE DEF R, T
      <3> QED BY <2>1, WFMin
    <2>3. n \in 0 .. W /\ n # 0
      BY <1>1, <1>2, <1>5
    <2>4. n - 1 \in 0 .. W /\ <<n - 1, n>> \in R
      BY <1>1, <2>3
    <2>5. YoungerThan[n - 1] = p[n - 1]
      BY <2>2, <2>4
    <2>6. YoungerThan[n] = YoungerThan[n - 1] + recent[n - 1]
      BY <1>5, <2>3, Zenon
    <2> QED BY <1>3, <2>2, <2>3, <2>5, <2>6
  <1> QED BY <1>1, <1>6

(* The counts grow with the age.                                            *)
LEMMA YoungerIsFewer ==
    ASSUME TypeOK, NEW p, Counts(p)
    PROVE  \A n \in 0 .. VERTEX_RATE_WINDOW - 1 :
              p[n] <= p[n + 1] /\ p[n] \in Nat /\ p[n + 1] \in Nat
  BY HubAdmissionAssumption DEF TypeOK, Counts

(* allow_new_vertex keeps to the limits of both windows of the span.        *)
LEMMA OfferKeepsRate ==
    ASSUME TypeOK, RateInv, NEW s \in Sessions, OfferVertex(s)
    PROVE  RateInv'
  <1> USE HubAdmissionAssumption
  <1> DEFINE W == VERTEX_RATE_WINDOW
             M == MAX_VERTICES_PER_PEER_WINDOW
             counted == IF Expired THEN 0 ELSE vertices_in_window
  <1>1. PICK p : /\ Counts(p)
                 /\ p[WindowAge] <= vertices_in_window
                 /\ p[WindowAge] <= M
                 /\ p[W] - p[WindowAge] <= M
                 /\ Expired => recent[0] = 0
    BY DEF RateInv
  <1>2. /\ age' = IF Expired THEN 0 ELSE age
        /\ vertices_in_window' = counted + 1
        /\ recent' = [recent EXCEPT ![0] = IF Allowed(counted) THEN @ + 1 ELSE @]
    BY DEF OfferVertex, AgeAfterOffer
  <1>3. /\ recent \in [0 .. W - 1 -> Nat] /\ age \in 0 .. W /\ vertices_in_window \in Nat
        /\ p \in [0 .. W -> Nat] /\ p[0] = 0 /\ counted \in Nat
    BY <1>1 DEF TypeOK, Counts
  <1>r. \A n \in 0 .. W - 1 : p[n + 1] = p[n] + recent[n]
    BY <1>1 DEF Counts
  <1> DEFINE now == IF Expired THEN 1 ELSE age + 1
  <1>4. ~Expired' /\ WindowAge' = now
    BY <1>2, <1>3 DEF Expired, WindowAge
  <1>5. now \in 1 .. W /\ p[now] \in Nat /\ p[W] \in Nat
    BY <1>3 DEF Expired
  <1>8. p[now] <= counted /\ p[W] - p[now] <= M /\ p[now] <= M
    <2>1. CASE Expired
      <3>1. p[0 + 1] = p[0] + recent[0] /\ recent[0] = 0
        BY <2>1, <1>1, <1>r
      <3>2. p[1] = 0 /\ WindowAge = W /\ now = 1
        BY <2>1, <3>1, <1>3 DEF WindowAge
      <3>3. p[W] <= M
        BY <3>2, <1>1, <1>5
      <3> QED BY <3>2, <3>3, <1>3, <1>5
    <2>2. CASE ~Expired
      <3>1. WindowAge = now /\ counted = vertices_in_window
        BY <2>2 DEF WindowAge
      <3> QED BY <3>1, <1>1
    <2> QED BY <2>1, <2>2
  <1> HIDE DEF now
  <1>6. CASE Allowed(counted)
    <2> DEFINE q == [n \in 0 .. W |-> IF n = 0 THEN 0 ELSE p[n] + 1]
    <2>1. Counts(q)'
      <3>1. q \in [0 .. W -> Nat] /\ q[0] = 0
        BY <1>3
      <3>2. ASSUME NEW n \in 0 .. W - 1 PROVE q[n + 1] = q[n] + recent'[n]
        <4>1. q[n + 1] = p[n + 1] + 1 /\ p[n + 1] = p[n] + recent[n]
          BY <1>3, <1>r
        <4>2. CASE n = 0
          BY <4>1, <4>2, <1>2, <1>3, <1>6
        <4>3. CASE n # 0
          <5>1. q[n] = p[n] + 1 /\ recent'[n] = recent[n] /\ p[n] \in Nat /\ recent[n] \in Nat
            BY <4>3, <1>2, <1>3
          <5> QED BY <4>1, <5>1
        <4> QED BY <4>2, <4>3
      <3> QED BY <3>1, <3>2 DEF Counts
    <2>2. q[now] = p[now] + 1 /\ q[W] = p[W] + 1
      BY <1>5
    <2>4. counted < M
      BY <1>6 DEF Allowed
    <2> HIDE DEF q
    <2>6. /\ q[now] <= vertices_in_window' /\ q[now] <= M
          /\ q[W] - q[now] <= M
      BY <1>2, <1>3, <1>5, <1>8, <2>2, <2>4
    <2> QED BY <1>4, <2>1, <2>6 DEF RateInv
  <1>7. CASE ~Allowed(counted)
    <2>1. recent' = recent
      BY <1>2, <1>3, <1>7
    <2>2. Counts(p)'
      BY <1>1, <2>1 DEF Counts
    <2>3. p[now] <= vertices_in_window'
      BY <1>2, <1>3, <1>5, <1>8
    <2> QED BY <1>4, <1>8, <2>2, <2>3 DEF RateInv
  <1> QED BY <1>6, <1>7

(* When time passes, every vertex of the span ages and the oldest leave it. *)
LEMMA TickKeepsRate ==
    ASSUME TypeOK, RateInv, Tick
    PROVE  RateInv'
  <1> USE HubAdmissionAssumption
  <1> DEFINE W == VERTEX_RATE_WINDOW
             M == MAX_VERTICES_PER_PEER_WINDOW
  <1>1. PICK p : /\ Counts(p)
                 /\ p[WindowAge] <= vertices_in_window
                 /\ p[WindowAge] <= M
                 /\ p[W] - p[WindowAge] <= M
                 /\ Expired => recent[0] = 0
    BY DEF RateInv
  <1>2. /\ recent \in [0 .. W - 1 -> Nat] /\ age \in 0 .. W /\ vertices_in_window \in Nat
        /\ p \in [0 .. W -> Nat] /\ p[0] = 0
    BY <1>1 DEF TypeOK, Counts
  <1>r. \A n \in 0 .. W - 1 : p[n + 1] = p[n] + recent[n]
    BY <1>1 DEF Counts
  <1>3. /\ recent' = [a \in 0 .. W - 1 |-> IF a = 0 THEN 0 ELSE recent[a - 1]]
        /\ age' = IF Expired THEN age ELSE age + 1
        /\ vertices_in_window' = vertices_in_window
    BY <1>2 DEF Tick
  <1> DEFINE q == [n \in 0 .. W |-> IF n = 0 THEN 0 ELSE p[n - 1]]
  <1>4. Counts(q)'
    <2>1. q \in [0 .. W -> Nat] /\ q[0] = 0
      BY <1>2
    <2>2. ASSUME NEW n \in 0 .. W - 1 PROVE q[n + 1] = q[n] + recent'[n]
      <3>1. q[n + 1] = p[n]
        BY <1>2
      <3>2. CASE n = 0
        BY <3>1, <3>2, <1>2, <1>3
      <3>3. CASE n # 0
        <4>1. n - 1 \in 0 .. W - 1 /\ (n - 1) + 1 = n
          BY <3>3
        <4>2. p[n] = p[n - 1] + recent[n - 1]
          BY <4>1, <1>r
        <4>3. q[n] = p[n - 1] /\ recent'[n] = recent[n - 1]
          BY <3>3, <1>3
        <4> QED BY <3>1, <4>2, <4>3
      <3> QED BY <3>2, <3>3
    <2> QED BY <2>1, <2>2 DEF Counts
  <1>5. q[W] = p[W - 1] /\ p[W - 1] <= p[W] /\ p[W - 1] \in Nat /\ p[W] \in Nat
    <2>1. W - 1 \in 0 .. W - 1 /\ (W - 1) + 1 = W
      OBVIOUS
    <2> QED BY <2>1, <1>1, YoungerIsFewer
  <1>6. Expired' => recent'[0] = 0
    BY <1>3
  <1>7. CASE WindowAge = W
    <2>1. WindowAge' = W
      BY <1>2, <1>3, <1>7 DEF WindowAge, Expired
    <2> HIDE DEF q
    <2>2. /\ q[W] <= vertices_in_window' /\ q[W] <= M /\ q[W] - q[W] <= M
      BY <1>1, <1>2, <1>3, <1>5, <1>7
    <2> QED BY <1>4, <1>6, <2>1, <2>2 DEF RateInv
  <1>8. CASE WindowAge # W
    <2>1. WindowAge = age + 1 /\ age + 1 \in 1 .. W - 1 /\ WindowAge' = age + 2
      BY <1>2, <1>3, <1>8 DEF WindowAge, Expired
    <2>2. q[age + 2] = p[age + 1] /\ p[age + 1] \in Nat
      BY <1>2, <2>1
    <2>3. /\ q[age + 2] <= vertices_in_window' /\ q[age + 2] <= M
          /\ q[W] - q[age + 2] <= M
      BY <1>1, <1>3, <1>5, <2>1, <2>2
    <2> HIDE DEF q
    <2> QED BY <1>4, <1>6, <2>1, <2>3 DEF RateInv
  <1> QED BY <1>7, <1>8

(* The window restarts only when it is over, and the limit holds for each:  *)
(* so in no span as long as a window are more than two windows' worth of    *)
(* vertices admitted, wherever in time the span lies.                       *)
THEOREM SpanTheorem == Spec => []AtMostTwoBudgetsPerSpan
  <1> USE HubAdmissionAssumption
  <1>1. Init => RateInv
    <2> SUFFICES ASSUME Init PROVE RateInv
      OBVIOUS
    <2> DEFINE p == [n \in 0 .. VERTEX_RATE_WINDOW |-> 0]
    <2>1. Counts(p) /\ WindowAge \in 0 .. VERTEX_RATE_WINDOW /\ ~Expired
      BY DEF Init, Counts, WindowAge, Expired
    <2>2. p[WindowAge] = 0 /\ p[VERTEX_RATE_WINDOW] = 0
      BY <2>1
    <2> HIDE DEF p
    <2> QED BY <2>1, <2>2 DEF Init, RateInv
  <1>2. TypeOK /\ RateInv /\ [Next]_vars => RateInv'
    <2> SUFFICES ASSUME TypeOK, RateInv, [Next]_vars PROVE RateInv'
      OBVIOUS
    <2>1. ASSUME NEW s \in Sessions, OfferVertex(s) PROVE RateInv'
      BY <2>1, OfferKeepsRate
    <2>2. CASE Tick
      BY <2>2, TickKeepsRate
    <2>3. CASE UNCHANGED rate_vars
      BY <2>3 DEF rate_vars, RateInv, Counts, WindowAge, Expired
    <2>4. (\E s \in Sessions : TryAcquire(s) \/ UndoAcquire(s) \/ ReleaseSession(s))
             \/ UNCHANGED vars => UNCHANGED rate_vars
      BY DEF TryAcquire, UndoAcquire, ReleaseSession, vars, rate_vars
    <2> QED BY <2>1, <2>2, <2>3, <2>4 DEF Next
  <1>3. TypeOK /\ RateInv => AtMostTwoBudgetsPerSpan
    <2> SUFFICES ASSUME TypeOK, RateInv PROVE AtMostTwoBudgetsPerSpan
      OBVIOUS
    <2>1. PICK p : /\ Counts(p)
                   /\ p[WindowAge] <= MAX_VERTICES_PER_PEER_WINDOW
                   /\ p[VERTEX_RATE_WINDOW] - p[WindowAge] <= MAX_VERTICES_PER_PEER_WINDOW
      BY DEF RateInv
    <2>2. WindowAge \in 0 .. VERTEX_RATE_WINDOW
      BY DEF TypeOK, WindowAge, Expired
    <2>3. p[WindowAge] \in Nat /\ p[VERTEX_RATE_WINDOW] \in Nat
      BY <2>1, <2>2 DEF Counts
    <2>4. p[VERTEX_RATE_WINDOW] <= 2 * MAX_VERTICES_PER_PEER_WINDOW
      BY <2>1, <2>3
    <2> QED BY <2>1, <2>4, YoungerThanCounts DEF AtMostTwoBudgetsPerSpan
  <1> QED BY <1>1, <1>2, <1>3, TypeTheorem, PTL DEF Spec

=============================================================================
