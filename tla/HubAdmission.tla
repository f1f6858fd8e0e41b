----------------------------- MODULE HubAdmission -----------------------------
(***************************************************************************)
(* How a hub limits what its peers may do at once.  Every authenticated    *)
(* connection is a thread; it takes a slot of an atomic counter, and gives *)
(* it back when its SessionGuard drops.  Every vertex a session brings is  *)
(* counted in a window of VERTEX_RATE_WINDOW time units, under a mutex.    *)
(***************************************************************************)
EXTENDS Naturals, FiniteSets

CONSTANTS
    Sessions,                      \* the threads of inbound connections
    MAX_MESH_CONNECTIONS,          \* slots
    MAX_VERTICES_PER_PEER_WINDOW,  \* vertices admitted per window
    VERTEX_RATE_WINDOW,            \* its length
    MaxOffers                      \* bound: vertices counted per window

ASSUME HubAdmissionAssumption ==
    /\ IsFiniteSet(Sessions)
    /\ MAX_MESH_CONNECTIONS \in Nat
    /\ MAX_VERTICES_PER_PEER_WINDOW \in Nat
    /\ VERTEX_RATE_WINDOW \in Nat \ {0}
    /\ MaxOffers \in Nat

VARIABLES
    pc,                  \* where each session thread is
    sessions,            \* the slot counter
    age,                 \* time since the window started, at most its length
    vertices_in_window,  \* vertices counted since then
    spent,               \* history: of them, admitted from each session
    verdict,             \* history: the last answer each session got in the window
    recent               \* history: vertices admitted, by their age

slot_vars == <<pc, sessions>>
rate_vars == <<age, vertices_in_window, spent, verdict, recent>>
vars == <<pc, sessions, age, vertices_in_window, spent, verdict, recent>>

Serving == {s \in Sessions : pc[s] = "serving"}

(* The threads whose increment of the counter is not yet undone.            *)
Holding == {s \in Sessions : pc[s] \in {"serving", "overshot"}}

Nobody(x) == [s \in Sessions |-> x]

Init ==
    /\ pc = Nobody("idle")
    /\ sessions = 0
    /\ age = 0
    /\ vertices_in_window = 0
    /\ spent = Nobody(0)
    /\ verdict = Nobody("none")
    /\ recent = [a \in 0 .. VERTEX_RATE_WINDOW - 1 |-> 0]

-----------------------------------------------------------------------------
(* Session slots.                                                          *)

(* A plausible fault of HasRoom: an off-by-one at the limit.                *)
HasRoomForOneMore(n) == n <= MAX_MESH_CONNECTIONS

HasRoom(n) == n < MAX_MESH_CONNECTIONS

(* try_acquire_session increments first and looks at the old value after.   *)
TryAcquire(s) ==
    /\ pc[s] = "idle"
    /\ sessions' = sessions + 1
    /\ pc' = [pc EXCEPT ![s] = IF HasRoom(sessions) THEN "serving" ELSE "overshot"]
    /\ UNCHANGED rate_vars

(* A plausible fault of UndoAcquire: a refused session keeps its increment. *)
RefuseOnly(s) ==
    /\ pc[s] = "overshot"
    /\ pc' = [pc EXCEPT ![s] = "idle"]
    /\ UNCHANGED <<sessions, rate_vars>>

(* A refused session takes its increment back.                              *)
UndoAcquire(s) ==
    /\ pc[s] = "overshot"
    /\ sessions' = sessions - 1
    /\ pc' = [pc EXCEPT ![s] = "idle"]
    /\ UNCHANGED rate_vars

(* The guard of a served session drops, however the session ended.          *)
ReleaseSession(s) ==
    /\ pc[s] = "serving"
    /\ sessions' = IF sessions = 0 THEN 0 ELSE sessions - 1
    /\ pc' = [pc EXCEPT ![s] = "idle"]
    /\ UNCHANGED rate_vars

-----------------------------------------------------------------------------
(* The rate window.                                                        *)

Expired == age >= VERTEX_RATE_WINDOW

(* A plausible fault of AgeAfterOffer: the new start is not remembered.     *)
AgeUnreset == age

AgeAfterOffer == IF Expired THEN 0 ELSE age

(* A plausible fault of Allowed: an off-by-one at the limit.                *)
AllowedOneMore(counted) == counted <= MAX_VERTICES_PER_PEER_WINDOW

Allowed(counted) == counted < MAX_VERTICES_PER_PEER_WINDOW

(* allow_new_vertex, under the mutex of the window: restart an expired      *)
(* window, count the vertex, admit it if the old count was below the limit. *)
OfferVertex(s) ==
    LET counted == IF Expired THEN 0 ELSE vertices_in_window
        before  == IF Expired THEN Nobody(0) ELSE spent
        answers == IF Expired THEN Nobody("none") ELSE verdict
        allowed == Allowed(counted)
    IN  /\ pc[s] = "serving"
        /\ counted < MaxOffers
        /\ age' = AgeAfterOffer
        /\ vertices_in_window' = counted + 1
        /\ verdict' = [answers EXCEPT ![s] = IF allowed THEN "allowed" ELSE "refused"]
        /\ spent' = [before EXCEPT ![s] = IF allowed THEN @ + 1 ELSE @]
        /\ recent' = [recent EXCEPT ![0] = IF allowed THEN @ + 1 ELSE @]
        /\ UNCHANGED slot_vars

(* Time passes, even while nobody looks at the window.                      *)
Tick ==
    /\ age' = IF Expired THEN age ELSE age + 1
    /\ recent' = [a \in DOMAIN recent |-> IF a = 0 THEN 0 ELSE recent[a - 1]]
    /\ UNCHANGED <<slot_vars, vertices_in_window, spent, verdict>>

Next ==
    \/ \E s \in Sessions :
          TryAcquire(s) \/ UndoAcquire(s) \/ ReleaseSession(s) \/ OfferVertex(s)
    \/ Tick

Spec == Init /\ [][Next]_vars

-----------------------------------------------------------------------------
(* Type correctness.                                                        *)
TypeOK ==
    /\ pc \in [Sessions -> {"idle", "serving", "overshot"}]
    /\ sessions \in Nat
    /\ age \in 0 .. VERTEX_RATE_WINDOW
    /\ vertices_in_window \in Nat
    /\ spent \in [Sessions -> 0 .. MAX_VERTICES_PER_PEER_WINDOW]
    /\ verdict \in [Sessions -> {"none", "allowed", "refused"}]
    /\ recent \in [0 .. VERTEX_RATE_WINDOW - 1 -> Nat]

(* MAX_MESH_CONNECTIONS: never more sessions are served at once, although   *)
(* threads increment before they look and several may overshoot together.   *)
AtMostMaxServing == Cardinality(Serving) <= MAX_MESH_CONNECTIONS

(* No slot leaks and none is given back twice: the counter is the number of *)
(* threads that have incremented it and not yet undone that.  (So it never  *)
(* reaches the clamp at 0 of release_session.)                              *)
SlotsAccounted == sessions = Cardinality(Holding)

(* How many vertices that were admitted are younger than n.                 *)
YoungerThan[n \in 0 .. VERTEX_RATE_WINDOW] ==
    IF n = 0 THEN 0 ELSE YoungerThan[n - 1] + recent[n - 1]

(* The window restarts only when it is over, so in no span of time as long  *)
(* as a window are more than two windows' worth of vertices admitted.       *)
AtMostTwoBudgetsPerSpan ==
    YoungerThan[VERTEX_RATE_WINDOW] <= 2 * MAX_VERTICES_PER_PEER_WINDOW

-----------------------------------------------------------------------------
(* What the documentation promises and the code does not keep.              *)

(* "New vertices accepted from one peer per rate window" (mesh.rs): a peer  *)
(* is refused only when it has used up its own budget of the window.        *)
BudgetIsPerPeer ==
    \A s \in Sessions :
        verdict[s] = "refused" => spent[s] = MAX_VERTICES_PER_PEER_WINDOW
=============================================================================
