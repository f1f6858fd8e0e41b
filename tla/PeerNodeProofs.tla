----------------------------- MODULE PeerNodeProofs -----------------------------
(***************************************************************************)
(* What holds in every network, whatever connects, fails and reconnects.   *)
(*                                                                         *)
(* Only peers that have proved themselves to each other talk.  The         *)
(* invariant follows the two ends of a connection through the handshake:   *)
(* which of them waits, which frame is on its way, and what the one that   *)
(* sent it had checked by then.                                            *)
(*                                                                         *)
(* A program is handed a vertex once per stay in its store.  The invariant *)
(* says of everything on its way that its maker has it and has kept it     *)
(* once more than it was handed it.                                        *)
(*                                                                         *)
(* The tables list proven peers, each once, and no prefix has more than    *)
(* its share of a bucket.                                                  *)
(***************************************************************************)
EXTENDS PeerNode, FiniteSetTheorems, SequenceTheorems, WellFoundedInduction, TLAPS

(* e finds its peer genuine and its address fit.                            *)
Passed(e) == PeerOf(e) \in Genuine /\ ~reject_socket(e)

Empty == <<>>
One(what) == <<Frame(what, <<>>)>>

(* The two ends of a connection, with their inboxes: the caller r is at a   *)
(* and the callee e is at b.                                                *)
Opening(r, e, a, b, i, j) ==
    \/ a = "challenge" /\ b = "hello" /\ i = Empty /\ j = One("HELLO")
    \/ a = "done" /\ b = "hello" /\ j = One("HELLO")
    \/ a = "challenge" /\ b = "auth" /\ i = One("CHALLENGE") /\ j = Empty /\ Passed(e)
    \/ a = "ack" /\ b = "auth" /\ i = Empty /\ j = One("AUTH") /\ Passed(e) /\ Passed(r)
    \/ a = "done" /\ b = "auth" /\ j = Empty /\ Passed(e)
    \/ a = "done" /\ b = "auth" /\ j = One("AUTH") /\ Passed(e) /\ Passed(r)
    \/ a = "ack" /\ b = "first" /\ i = One("ACK") /\ j = Empty /\ Passed(e) /\ Passed(r)
    \/ a = "challenge" /\ b = "done" /\ i \in {Empty, One("REJECT")}
    \/ a = "challenge" /\ b = "done" /\ i = One("CHALLENGE") /\ Passed(e)
    \/ a = "ack" /\ b = "done" /\ i \in {Empty, One("ACK")} /\ Passed(e) /\ Passed(r)

Proven(r, e, a, b) ==
    /\ a \in {"mesh", "open", "done"}
    /\ b \in {"first", "graph", "open", "done"}
    /\ Passed(e) /\ Passed(r)

Joint(r, e, a, b, i, j) ==
    \/ a = "off" /\ b = "off" /\ i = Empty /\ j = Empty
    \/ a = "done" /\ b = "done"
    \/ ~reject_socket(r) /\ (Opening(r, e, a, b, i, j) \/ Proven(r, e, a, b))

Callees == {e \in Ends : ~Calls(e)}

ConnInv ==
    \A e \in Callees :
        Joint(Other(e), e, pc[Other(e)], pc[e], inbox[Other(e)], inbox[e])

(* The connections a link has not dialled yet are off.                      *)
DialInv == \A e \in Ends : pc[e] = "off" <=> e[2] > dials[e[1]]

SenderInv ==
    \A n, p \in Nodes : sessions[n][p] # None =>
        /\ sessions[n][p] \in Ends
        /\ pc[sessions[n][p]] = "open"
        /\ NodeOf(sessions[n][p]) = n
        /\ PeerOf(sessions[n][p]) = p

TalkTypes ==
    /\ network \in Networks
    /\ dials \in [Links -> Nat]
    /\ pc = [e \in Ends |-> pc[e]]
    /\ inbox = [e \in Ends |-> inbox[e]]
    /\ kind = [c \in Conns |-> kind[c]]
    /\ sessions = [n \in Nodes |-> [p \in Nodes |-> sessions[n][p]]]

TalkInv == TalkTypes /\ ConnInv /\ DialInv /\ SenderInv

-----------------------------------------------------------------------------
(* The two ends of a connection.                                            *)
LEMMA EndFacts ==
    ASSUME NEW e \in Ends
    PROVE  /\ Other(e) \in Ends /\ Other(Other(e)) = e /\ Other(e) # e
           /\ Conn(e) \in Conns /\ Conn(Other(e)) = Conn(e)
           /\ Calls(Other(e)) <=> ~Calls(e)
           /\ Conn(e) = <<e[1], e[2]>>
           /\ e[1] \in Links /\ e[2] \in 1 .. MaxDials[e[1]]
           /\ Other(e)[1] = e[1] /\ Other(e)[2] = e[2]
  <1>1. PICK c \in Conns, s \in Sides : e = <<c[1], c[2], s>>
    BY DEF Ends
  <1>2. PICK l \in Links : c \in {l} \X (1 .. MaxDials[l])
    BY DEF Conns
  <1>3. c = <<c[1], c[2]>> /\ c[1] = l /\ c[2] \in 1 .. MaxDials[l]
    BY <1>2
  <1>4. e[1] = c[1] /\ e[2] = c[2] /\ e[3] = s /\ s \in {"caller", "callee"}
    BY <1>1 DEF Sides
  <1>5. Conn(e) = c
    BY <1>3, <1>4 DEF Conn
  <1>6. CASE s = "caller"
    <2>1. Other(e) = <<c[1], c[2], "callee">>
      BY <1>4, <1>6 DEF Other
    <2>2. Other(e) \in Ends
      BY <2>1 DEF Ends, Sides
    <2> QED
      BY <1>1, <1>3, <1>4, <1>5, <1>6, <2>1, <2>2 DEF Other, Conn, Calls
  <1>7. CASE s = "callee"
    <2>1. Other(e) = <<c[1], c[2], "caller">>
      BY <1>4, <1>7 DEF Other
    <2>2. Other(e) \in Ends
      BY <2>1 DEF Ends, Sides
    <2> QED
      BY <1>1, <1>3, <1>4, <1>5, <1>7, <2>1, <2>2 DEF Other, Conn, Calls
  <1> QED
    BY <1>4, <1>6, <1>7

(* Every connection has its two ends, and no end more.                      *)
LEMMA SameConn ==
    ASSUME NEW e \in Ends, NEW f \in Ends, Conn(e) = Conn(f)
    PROVE  f = e \/ f = Other(e)
  <1>1. PICK c \in Conns, s \in Sides : e = <<c[1], c[2], s>>
    BY DEF Ends
  <1>2. PICK d \in Conns, t \in Sides : f = <<d[1], d[2], t>>
    BY DEF Ends
  <1>3. c[1] = d[1] /\ c[2] = d[2]
    BY <1>1, <1>2 DEF Conn
  <1> QED
    BY <1>1, <1>2, <1>3 DEF Other, Sides

(* The queues that hold no frame, or one, which frame it is, and what       *)
(* remains when it is read.                                                 *)
LEMMA FrameFacts ==
    /\ \A f : Tail(<<f>>) = <<>> /\ Head(<<f>>) = f /\ <<f>> # <<>>
    /\ \A f : <<>> \o <<f>> = <<f>> /\ <<f>> \o <<>> = <<f>>
    /\ <<>> \o <<>> = <<>>
    /\ \A v, w : One(v) = One(w) => v = w
    /\ \A v : Head(One(v)).what = v
  BY DEF One, Frame

-----------------------------------------------------------------------------
(* Who stands at an end, and what it finds there, never changes.            *)
LEMMA PassedStays ==
    ASSUME NEW e \in Ends, network' = network, kind'[Conn(e)] = kind[Conn(e)]
    PROVE  /\ NodeOf(e)' = NodeOf(e)
           /\ PeerOf(e)' = PeerOf(e)
           /\ reject_socket(e)' = reject_socket(e)
           /\ Passed(e)' = Passed(e)
  <1>1. \A f \in Ends : NodeOf(f)' = NodeOf(f)
    BY DEF NodeOf, From, To
  <1>2. Conn(Other(e)) = Conn(e) /\ Other(e) \in Ends
    BY EndFacts
  <1>3. Identity(Other(e))' = Identity(Other(e))
    BY <1>1, <1>2 DEF Identity
  <1>4. PeerOf(e)' = PeerOf(e)
    BY <1>3 DEF PeerOf
  <1>5. reject_socket(e)' = reject_socket(e)
    BY <1>1, <1>2 DEF reject_socket
  <1> QED
    BY <1>1, <1>4, <1>5 DEF Passed

(* How far the connection of e is, when e is at a, its inbox is x and that  *)
(* of the other end is y.                                                   *)
JointAt(e, a, x, y) ==
    IF Calls(e) THEN Joint(e, Other(e), a, pc[Other(e)], x, y)
    ELSE Joint(Other(e), e, pc[Other(e)], a, y, x)

(* The joint state of a connection, seen from one end.                      *)
LEMMA JointHere ==
    ASSUME ConnInv, NEW e \in Ends
    PROVE  JointAt(e, pc[e], inbox[e], inbox[Other(e)])
  BY EndFacts DEF ConnInv, Callees, JointAt

(* A step of one end leaves the other connections alone.                    *)
LEMMA ConnStep ==
    ASSUME TalkTypes, ConnInv, NEW e \in Ends, NEW a, NEW x, NEW y,
           network' = network, kind' = kind,
           pc' = [pc EXCEPT ![e] = a],
           inbox' = [inbox EXCEPT ![e] = x, ![Other(e)] = y],
           JointAt(e, a, x, y)
    PROVE  ConnInv'
  <1> SUFFICES ASSUME NEW f \in Callees
               PROVE  Joint(Other(f), f, pc[Other(f)], pc[f], inbox[Other(f)], inbox[f])'
    BY DEF ConnInv
  <1>1. f \in Ends /\ ~Calls(f) /\ Other(f) \in Ends /\ Other(f) # f
    BY EndFacts DEF Callees
  <1>2. /\ Passed(f)' = Passed(f) /\ Passed(Other(f))' = Passed(Other(f))
        /\ reject_socket(Other(f))' = reject_socket(Other(f))
    BY <1>1, PassedStays
  <1>3. pc' = [g \in Ends |-> IF g = e THEN a ELSE pc[g]]
    BY DEF TalkTypes
  <1>4. inbox' = [g \in Ends |-> IF g = Other(e) THEN y ELSE IF g = e THEN x ELSE inbox[g]]
    BY EndFacts DEF TalkTypes
  <1>5. Joint(Other(f), f, pc'[Other(f)], pc'[f], inbox'[Other(f)], inbox'[f])
    <2>1. CASE f = e
      BY <1>1, <1>3, <1>4, <2>1 DEF JointAt
    <2>2. CASE f = Other(e)
      BY <1>1, <1>3, <1>4, <2>2, EndFacts DEF JointAt
    <2>3. CASE f # e /\ f # Other(e)
      <3>1. Other(f) # e /\ Other(f) # Other(e)
        BY <1>1, <2>3, EndFacts
      <3> QED
        BY <1>1, <1>3, <1>4, <2>3, <3>1 DEF ConnInv
    <2> QED
      BY <2>1, <2>2, <2>3
  <1> QED
    BY <1>2, <1>5 DEF Joint, Opening, Proven

(* What a step of one end may do to the senders.                            *)
Senders(e, a) ==
    \/ sessions' = sessions /\ (pc[e] # "open" \/ a = "open")
    \/ sessions' = register(e) /\ a = "open"
    \/ sessions' = unregister(e)

(* The table of senders lists open ends only, whatever a step of one end    *)
(* does to it.                                                              *)
LEMMA SenderStep ==
    ASSUME TalkTypes, SenderInv, NEW e \in Ends, NEW a,
           network' = network, kind' = kind,
           pc' = [pc EXCEPT ![e] = a],
           Senders(e, a)
    PROVE  SenderInv' /\ sessions' = [n \in Nodes |-> [p \in Nodes |-> sessions'[n][p]]]
  <1>1. pc' = [g \in Ends |-> IF g = e THEN a ELSE pc[g]]
    BY DEF TalkTypes
  <1>2. \A f \in Ends : NodeOf(f)' = NodeOf(f) /\ PeerOf(f)' = PeerOf(f)
    BY PassedStays
  <1>3. CASE sessions' = sessions /\ (pc[e] # "open" \/ a = "open")
    BY <1>1, <1>2, <1>3 DEF SenderInv, TalkTypes
  <1>4. CASE sessions' = register(e) /\ a = "open"
    <2>1. sessions' = [n \in Nodes |-> [p \in Nodes |->
                          IF n = NodeOf(e) /\ p = PeerOf(e) THEN e ELSE sessions[n][p]]]
      BY <1>4 DEF register, TalkTypes
    <2> QED
      BY <1>1, <1>2, <1>4, <2>1 DEF SenderInv
  <1>5. CASE sessions' = unregister(e) /\ pc[e] = "open"
    <2>1. sessions' = [n \in Nodes |-> [p \in Nodes |->
                          IF n = NodeOf(e) /\ p = PeerOf(e) THEN None ELSE sessions[n][p]]]
      BY <1>5 DEF unregister, TalkTypes
    <2> QED
      BY <1>1, <1>2, <2>1 DEF SenderInv
  <1>6. CASE sessions' = unregister(e) /\ pc[e] # "open"
    BY <1>1, <1>2, <1>6 DEF unregister, SenderInv, TalkTypes
  <1> QED
    BY <1>3, <1>4, <1>5, <1>6 DEF Senders

(* A step of one end that has begun and does not start anew.                *)
LEMMA EndStep ==
    ASSUME TalkInv, NEW e \in Ends, NEW a, NEW x, NEW y,
           network' = network, kind' = kind, dials' = dials,
           pc[e] # "off", a # "off",
           pc' = [pc EXCEPT ![e] = a],
           inbox' = [inbox EXCEPT ![e] = x, ![Other(e)] = y],
           JointAt(e, a, x, y),
           Senders(e, a)
    PROVE  TalkInv'
  <1>1. ConnInv'
    BY ConnStep DEF TalkInv
  <1>2. SenderInv' /\ sessions' = [n \in Nodes |-> [p \in Nodes |-> sessions'[n][p]]]
    BY SenderStep DEF TalkInv
  <1>3. DialInv'
    BY DEF TalkInv, TalkTypes, DialInv
  <1>4. TalkTypes'
    BY <1>2 DEF TalkInv, TalkTypes
  <1> QED
    BY <1>1, <1>2, <1>3, <1>4 DEF TalkInv

-----------------------------------------------------------------------------
(* The steps of the ends.  Each lemma is one handler, or several that leave *)
(* the program counters alone.                                              *)

(* An end that stops finds its connection in an order.                      *)
LEMMA CloseKeeps ==
    ASSUME TalkInv, NEW e \in Ends, Close(e, Empty), pc[e] \notin {"off", "done"},
           network' = network, kind' = kind, dials' = dials,
           sessions' = unregister(e) \/ (sessions' = sessions /\ pc[e] # "open")
    PROVE  TalkInv'
  <1> DEFINE y == IF pc[Other(e)] = "done" THEN Empty ELSE inbox[Other(e)] \o Empty
  <1>1. pc' = [pc EXCEPT ![e] = "done"] /\ inbox' = [inbox EXCEPT ![e] = Empty, ![Other(e)] = y]
    BY EndFacts DEF Close, Goto, Empty
  <1>2. JointAt(e, pc[e], inbox[e], inbox[Other(e)])
    BY JointHere DEF TalkInv
  <1>3. JointAt(e, "done", Empty, y)
    <2>1. CASE Calls(e)
      BY <1>2, <2>1, FrameFacts DEF JointAt, Joint, Opening, Proven, Empty, One
    <2>2. CASE ~Calls(e)
      BY <1>2, <2>2, FrameFacts DEF JointAt, Joint, Opening, Proven, Empty, One
    <2> QED
      BY <2>1, <2>2
  <1>4. Senders(e, "done")
    BY DEF Senders
  <1> HIDE DEF y
  <1> QED
    BY <1>1, <1>3, <1>4, EndStep

(* Reading the hello keeps the invariant.                                   *)
LEMMA GetHelloKeeps ==
    ASSUME TalkInv, NEW e \in Ends, GetHello(e), ~Calls(e)
    PROVE  TalkInv'
  <1> DEFINE o == Other(e)
  <1>1. pc[e] = "hello" /\ network' = network /\ kind' = kind /\ dials' = dials
        /\ sessions' = sessions
    BY DEF GetHello, Reads
  <1>2. JointAt(e, pc[e], inbox[e], inbox[o])
    BY JointHere DEF TalkInv
  <1>3. /\ inbox[e] = One("HELLO") /\ ~reject_socket(o)
        /\ (pc[o] = "challenge" /\ inbox[o] = Empty) \/ pc[o] = "done"
    BY <1>1, <1>2 DEF JointAt, Joint, Opening, Proven
  <1>4. CASE Close(e, Empty)
    BY <1>1, <1>4, CloseKeeps
  <1>5. CASE Close(e, One("REJECT"))
    <2> DEFINE y == IF pc[o] = "done" THEN Empty ELSE inbox[o] \o One("REJECT")
    <2>1. pc' = [pc EXCEPT ![e] = "done"] /\ inbox' = [inbox EXCEPT ![e] = Empty, ![o] = y]
      BY <1>5, EndFacts DEF Close, Goto, Empty
    <2>2. JointAt(e, "done", Empty, y)
      BY <1>3, FrameFacts DEF JointAt, Joint, Opening, Empty, One
    <2>3. Senders(e, "done")
      BY <1>1 DEF Senders
    <2> HIDE DEF y
    <2> QED
      BY <1>1, <2>1, <2>2, <2>3, EndStep
  <1>6. CASE Answer(e, One("CHALLENGE")) /\ Goto(e, "auth") /\ Passed(e)
    <2> DEFINE y == IF pc[o] = "done" THEN Empty ELSE inbox[o] \o One("CHALLENGE")
               x == Tail(inbox[e])
    <2>1. pc' = [pc EXCEPT ![e] = "auth"] /\ inbox' = [inbox EXCEPT ![e] = x, ![o] = y]
      BY <1>6 DEF Answer, Goto, Empty
    <2>2. JointAt(e, "auth", x, y)
      BY <1>3, <1>6, FrameFacts DEF JointAt, Joint, Opening, Empty, One
    <2>3. Senders(e, "auth")
      BY <1>1 DEF Senders
    <2> HIDE DEF x, y
    <2> QED
      BY <1>1, <2>1, <2>2, <2>3, EndStep
  <1> QED
    BY <1>4, <1>5, <1>6 DEF GetHello, Trusts, Passed, One, Empty

(* Reading the challenge keeps the invariant.                               *)
LEMMA GetChallengeKeeps ==
    ASSUME TalkInv, NEW e \in Ends, GetChallenge(e), Calls(e)
    PROVE  TalkInv'
  <1> DEFINE o == Other(e)
  <1>1. pc[e] = "challenge" /\ network' = network /\ kind' = kind /\ dials' = dials
        /\ sessions' = sessions
    BY DEF GetChallenge
  <1>2. JointAt(e, pc[e], inbox[e], inbox[o])
    BY JointHere DEF TalkInv
  <1>3. CASE Close(e, Empty)
    BY <1>1, <1>3, CloseKeeps
  <1>4. CASE /\ Answer(e, One("AUTH")) /\ Goto(e, "ack") /\ Trusts(e)
             /\ inbox[e] # Empty /\ Head(inbox[e]).what # "REJECT"
    <2> DEFINE y == IF pc[o] = "done" THEN Empty ELSE inbox[o] \o One("AUTH")
               x == Tail(inbox[e])
    <2>1. pc' = [pc EXCEPT ![e] = "ack"] /\ inbox' = [inbox EXCEPT ![e] = x, ![o] = y]
      BY <1>4 DEF Answer, Goto, Empty
    <2>2. /\ inbox[e] = One("CHALLENGE") /\ Passed(o) /\ ~reject_socket(e)
          /\ (pc[o] = "auth" /\ inbox[o] = Empty) \/ pc[o] = "done"
      BY <1>1, <1>2, <1>4, FrameFacts DEF JointAt, Joint, Opening, Proven
    <2>3. Passed(e)
      BY <1>4, <2>2 DEF Passed, Trusts
    <2>4. JointAt(e, "ack", x, y)
      BY <2>2, <2>3, FrameFacts DEF JointAt, Joint, Opening, Empty, One
    <2>5. Senders(e, "ack")
      BY <1>1 DEF Senders
    <2> HIDE DEF x, y
    <2> QED
      BY <1>1, <2>1, <2>4, <2>5, EndStep
  <1> QED
    BY <1>3, <1>4 DEF GetChallenge, One, Empty

(* Reading the answer to the challenge keeps the invariant.                 *)
LEMMA GetAuthKeeps ==
    ASSUME TalkInv, NEW e \in Ends, GetAuth(e), ~Calls(e)
    PROVE  TalkInv'
  <1> DEFINE o == Other(e)
             y == IF pc[o] = "done" THEN Empty ELSE inbox[o] \o One("ACK")
             x == Tail(inbox[e])
  <1>1. pc[e] = "auth" /\ network' = network /\ kind' = kind /\ dials' = dials
        /\ sessions' = sessions /\ inbox[e] # Empty
    BY DEF GetAuth, Reads, Empty, link_vars
  <1>2. JointAt(e, pc[e], inbox[e], inbox[o])
    BY JointHere DEF TalkInv
  <1>3. pc' = [pc EXCEPT ![e] = "first"] /\ inbox' = [inbox EXCEPT ![e] = x, ![o] = y]
    BY DEF GetAuth, Answer, Goto, One, Empty
  <1>4. /\ inbox[e] = One("AUTH") /\ Passed(o) /\ Passed(e)
        /\ (pc[o] = "ack" /\ inbox[o] = Empty) \/ pc[o] = "done"
    BY <1>1, <1>2 DEF JointAt, Joint, Opening, Proven
  <1>5. JointAt(e, "first", x, y)
    BY <1>4, FrameFacts DEF JointAt, Joint, Opening, Proven, Passed, Empty, One
  <1>6. Senders(e, "first")
    BY <1>1 DEF Senders
  <1> HIDE DEF x, y
  <1> QED
    BY <1>1, <1>3, <1>5, <1>6, EndStep

(* Reading the acknowledgement keeps the invariant.                         *)
LEMMA GetAckKeeps ==
    ASSUME TalkInv, NEW e \in Ends, GetAck(e), Calls(e)
    PROVE  TalkInv'
  <1> DEFINE o == Other(e)
             y == IF pc[o] = "done" THEN Empty ELSE inbox[o] \o Empty
             x == Tail(inbox[e])
  <1>1. pc[e] = "ack" /\ network' = network /\ kind' = kind /\ dials' = dials
        /\ Head(inbox[e]).what = "ACK" /\ inbox[e] # Empty
    BY DEF GetAck, Reads, Empty
  <1>2. JointAt(e, pc[e], inbox[e], inbox[o])
    BY JointHere DEF TalkInv
  <1>3. CASE Close(e, Empty) /\ sessions' = sessions
    BY <1>1, <1>3, CloseKeeps
  <1>4. CASE Answer(e, Empty) /\ Goto(e, "open") /\ sessions' = register(e)
    <2>1. pc' = [pc EXCEPT ![e] = "open"] /\ inbox' = [inbox EXCEPT ![e] = x, ![o] = y]
      BY <1>4 DEF Answer, Goto, Empty
    <2>2. /\ Passed(o) /\ Passed(e) /\ ~reject_socket(e)
          /\ pc[o] \in {"first", "done"}
      BY <1>1, <1>2, FrameFacts DEF JointAt, Joint, Opening, Proven
    <2>3. JointAt(e, "open", x, y)
      BY <2>2 DEF JointAt, Joint, Proven
    <2>4. Senders(e, "open")
      BY <1>4 DEF Senders
    <2> HIDE DEF x, y
    <2> QED
      BY <1>1, <2>1, <2>3, <2>4, EndStep
  <1> QED
    BY <1>3, <1>4 DEF GetAck, Empty

(* Reading the acknowledgement of a mesh request keeps the invariant.       *)
LEMMA GetAckForMeshKeeps ==
    ASSUME TalkInv, NEW e \in Ends, GetAckForMesh(e), Calls(e)
    PROVE  TalkInv'
  <1> DEFINE o == Other(e)
             y == IF pc[o] = "done" THEN Empty ELSE inbox[o] \o One("MESH")
             x == Tail(inbox[e])
  <1>1. pc[e] = "ack" /\ network' = network /\ kind' = kind /\ dials' = dials
        /\ Head(inbox[e]).what = "ACK" /\ inbox[e] # Empty /\ sessions' = sessions
    BY DEF GetAckForMesh, Reads, Empty, link_vars
  <1>2. JointAt(e, pc[e], inbox[e], inbox[o])
    BY JointHere DEF TalkInv
  <1>3. pc' = [pc EXCEPT ![e] = "mesh"] /\ inbox' = [inbox EXCEPT ![e] = x, ![o] = y]
    BY DEF GetAckForMesh, Answer, Goto, One, Empty
  <1>4. /\ Passed(o) /\ Passed(e) /\ ~reject_socket(e)
        /\ pc[o] \in {"first", "done"}
    BY <1>1, <1>2, FrameFacts DEF JointAt, Joint, Opening, Proven
  <1>5. JointAt(e, "mesh", x, y)
    BY <1>4 DEF JointAt, Joint, Proven
  <1>6. Senders(e, "mesh")
    BY <1>1 DEF Senders
  <1> HIDE DEF x, y
  <1> QED
    BY <1>1, <1>3, <1>5, <1>6, EndStep

(* Reading the first request keeps the invariant.                           *)
LEMMA GetFirstKeeps ==
    ASSUME TalkInv, NEW e \in Ends, GetFirst(e), ~Calls(e)
    PROVE  TalkInv'
  <1> DEFINE o == Other(e)
  <1>1. pc[e] = "first" /\ network' = network /\ kind' = kind /\ dials' = dials
        /\ inbox[e] # Empty
    BY DEF GetFirst, Empty, link_vars
  <1>2. JointAt(e, pc[e], inbox[e], inbox[o])
    BY JointHere DEF TalkInv
  <1>3. Proven(o, e, pc[o], "first") /\ ~reject_socket(o)
    BY <1>1, <1>2 DEF JointAt, Joint, Opening
  <1>4. \A x, y : JointAt(e, "graph", x, y) /\ JointAt(e, "open", x, y)
    BY <1>3 DEF JointAt, Joint, Proven
  <1>5. CASE Answer(e, Empty) /\ Goto(e, "graph") /\ sessions' = sessions
    <2> DEFINE y == IF pc[o] = "done" THEN Empty ELSE inbox[o] \o Empty
               x == Tail(inbox[e])
    <2>1. pc' = [pc EXCEPT ![e] = "graph"] /\ inbox' = [inbox EXCEPT ![e] = x, ![o] = y]
      BY <1>5 DEF Answer, Goto, Empty
    <2>2. Senders(e, "graph")
      BY <1>1, <1>5 DEF Senders
    <2> HIDE DEF x, y
    <2> QED
      BY <1>1, <1>4, <2>1, <2>2, EndStep
  <1>6. CASE Goto(e, "open") /\ sessions' = register(e) /\ inbox' = inbox
    <2>1. inbox' = [inbox EXCEPT ![e] = inbox[e], ![o] = inbox[o]]
      BY <1>6, EndFacts DEF TalkInv, TalkTypes
    <2>2. pc' = [pc EXCEPT ![e] = "open"] /\ Senders(e, "open")
      BY <1>6 DEF Goto, Senders
    <2> QED
      BY <1>1, <1>4, <2>1, <2>2, EndStep
  <1> QED
    BY <1>5, <1>6 DEF GetFirst, Empty

(* The synchronisation ends both ends at once.                              *)
LEMMA ServeMeshKeeps ==
    ASSUME TalkInv, NEW e \in Ends, ServeMesh(e), ~Calls(e)
    PROVE  TalkInv'
  <1> DEFINE o == Other(e)
  <1>1. /\ pc[e] = "graph" /\ pc[o] = "mesh"
        /\ pc' = [pc EXCEPT ![e] = "done", ![o] = "done"]
        /\ network' = network /\ kind' = kind /\ dials' = dials
        /\ inbox' = inbox /\ sessions' = sessions
    BY DEF ServeMesh
  <1>2. pc' = [g \in Ends |-> IF g \in {e, o} THEN "done" ELSE pc[g]]
    BY <1>1, EndFacts DEF TalkInv, TalkTypes
  <1>3. TalkTypes'
    BY <1>1, <1>2 DEF TalkInv, TalkTypes
  <1>4. ConnInv'
    <2> SUFFICES ASSUME NEW f \in Callees
                 PROVE  Joint(Other(f), f, pc[Other(f)], pc[f], inbox[Other(f)], inbox[f])'
      BY DEF ConnInv
    <2>1. f \in Ends /\ ~Calls(f) /\ Other(f) \in Ends
      BY EndFacts DEF Callees
    <2>2. /\ Passed(f)' = Passed(f) /\ Passed(Other(f))' = Passed(Other(f))
          /\ reject_socket(Other(f))' = reject_socket(Other(f))
      BY <1>1, <2>1, PassedStays
    <2>3. Joint(Other(f), f, pc'[Other(f)], pc'[f], inbox[Other(f)], inbox[f])
      <3>1. CASE f = e
        BY <1>2, <2>1, <3>1 DEF Joint
      <3>2. CASE f # e
        <4>1. f # o /\ Other(f) # e /\ Other(f) # o
          BY <2>1, <3>2, EndFacts
        <4> QED
          BY <1>2, <2>1, <3>2, <4>1 DEF ConnInv, TalkInv
      <3> QED
        BY <3>1, <3>2
    <2> QED
      BY <1>1, <2>2, <2>3 DEF Joint, Opening, Proven
  <1>5. DialInv'
    BY <1>1, <1>2, EndFacts DEF TalkInv, DialInv
  <1>6. SenderInv'
    <2>1. \A f \in Ends : NodeOf(f)' = NodeOf(f) /\ PeerOf(f)' = PeerOf(f)
      BY <1>1, PassedStays
    <2> QED
      BY <1>1, <1>2, <2>1 DEF TalkInv, SenderInv
  <1> QED
    BY <1>3, <1>4, <1>5, <1>6 DEF TalkInv

(* What an open session reads and writes makes no difference.               *)
LEMMA OpenStep ==
    ASSUME TalkInv, NEW e \in Ends, NEW x, NEW y, pc[e] = "open",
           network' = network, kind' = kind, dials' = dials,
           pc' = pc, sessions' = sessions,
           inbox' = [inbox EXCEPT ![e] = x, ![Other(e)] = y]
    PROVE  TalkInv'
  <1>1. pc' = [pc EXCEPT ![e] = "open"]
    BY DEF TalkInv, TalkTypes
  <1>2. JointAt(e, "open", inbox[e], inbox[Other(e)])
    BY JointHere DEF TalkInv
  <1>3. JointAt(e, "open", x, y)
    BY <1>2 DEF JointAt, Joint, Opening, Proven
  <1>4. Senders(e, "open")
    BY DEF Senders
  <1> QED
    BY <1>1, <1>3, <1>4, EndStep

(* Answering keeps the invariant.                                           *)
LEMMA AnswerKeeps ==
    ASSUME TalkInv, NEW e \in Ends, NEW w, Answer(e, w), pc[e] = "open",
           network' = network, kind' = kind, dials' = dials,
           pc' = pc, sessions' = sessions
    PROVE  TalkInv'
  <1> DEFINE y == IF pc[Other(e)] = "done" THEN <<>> ELSE inbox[Other(e)] \o w
             x == Tail(inbox[e])
  <1>1. inbox' = [inbox EXCEPT ![e] = x, ![Other(e)] = y]
    BY DEF Answer
  <1> HIDE DEF x, y
  <1> QED
    BY <1>1, OpenStep

(* A session in its main loop keeps the invariant.                          *)
LEMMA SessionKeeps ==
    ASSUME TalkInv, NEW e \in Ends,
           WriteInv(e) \/ GetInv(e) \/ GetWant(e) \/ GetPayload(e)
    PROVE  TalkInv'
  <1>1. CASE WriteInv(e)
    <2>1. /\ pc[e] = "open" /\ pc' = pc /\ sessions' = sessions
          /\ network' = network /\ kind' = kind /\ dials' = dials
      BY <1>1 DEF WriteInv, link_vars
    <2>2. CASE inbox' = inbox
      <3>1. inbox' = [inbox EXCEPT ![e] = inbox[e], ![Other(e)] = inbox[Other(e)]]
        BY <2>2, EndFacts DEF TalkInv, TalkTypes
      <3> QED
        BY <2>1, <3>1, OpenStep
    <2>3. CASE inbox' # inbox
      <3> DEFINE y == Append(inbox[Other(e)], Frame("INV", <<Head(cmds[e])>>))
      <3>1. inbox' = [inbox EXCEPT ![Other(e)] = y]
        BY <1>1, <2>3 DEF WriteInv
      <3> HIDE DEF y
      <3>2. inbox' = [inbox EXCEPT ![e] = inbox[e], ![Other(e)] = y]
        BY <3>1, EndFacts DEF TalkInv, TalkTypes
      <3> QED
        BY <2>1, <3>2, OpenStep
    <2> QED
      BY <2>2, <2>3
  <1>2. CASE GetInv(e)
    <2>1. /\ pc[e] = "open" /\ pc' = pc /\ sessions' = sessions
          /\ network' = network /\ kind' = kind /\ dials' = dials
          /\ \E w : Answer(e, w)
      BY <1>2 DEF GetInv, Reads, link_vars
    <2> QED
      BY <2>1, AnswerKeeps
  <1>3. CASE GetWant(e)
    <2>1. /\ pc[e] = "open" /\ pc' = pc /\ sessions' = sessions
          /\ network' = network /\ kind' = kind /\ dials' = dials
          /\ \E w : Answer(e, w)
      BY <1>3 DEF GetWant, Reads, link_vars
    <2> QED
      BY <2>1, AnswerKeeps
  <1>4. CASE GetPayload(e)
    <2>1. /\ pc[e] = "open" /\ pc' = pc /\ sessions' = sessions
          /\ network' = network /\ kind' = kind /\ dials' = dials
          /\ Answer(e, <<>>)
      BY <1>4 DEF GetPayload, Reads, link_vars
    <2> QED
      BY <2>1, AnswerKeeps
  <1> QED
    BY <1>1, <1>2, <1>3, <1>4

(* What concerns neither ends nor senders.                                  *)
LEMMA QuietKeeps ==
    ASSUME TalkInv, network' = network, kind' = kind, dials' = dials,
           pc' = pc, inbox' = inbox, sessions' = sessions
    PROVE  TalkInv'
  <1>1. \A f \in Ends : /\ NodeOf(f)' = NodeOf(f) /\ PeerOf(f)' = PeerOf(f)
                        /\ Passed(f)' = Passed(f)
                        /\ reject_socket(f)' = reject_socket(f)
    BY PassedStays
  <1>2. ConnInv'
    <2> SUFFICES ASSUME NEW f \in Callees
                 PROVE  Joint(Other(f), f, pc[Other(f)], pc[f], inbox[Other(f)], inbox[f])'
      BY DEF ConnInv
    <2>1. f \in Ends /\ Other(f) \in Ends
      BY EndFacts DEF Callees
    <2>2. Joint(Other(f), f, pc[Other(f)], pc[f], inbox[Other(f)], inbox[f])
      BY DEF TalkInv, ConnInv
    <2> QED
      BY <1>1, <2>1, <2>2 DEF Joint, Opening, Proven
  <1>3. DialInv' /\ TalkTypes'
    BY DEF TalkInv, DialInv, TalkTypes
  <1>4. SenderInv'
    BY <1>1 DEF TalkInv, SenderInv
  <1> QED
    BY <1>2, <1>3, <1>4 DEF TalkInv

(* A dial begins with a connection that was off.                            *)
LEMMA ConnectKeeps ==
    ASSUME TalkInv, NEW l \in links, connect(l)
    PROVE  TalkInv'
  <1>0. PICK k : k = dials[l] + 1
    OBVIOUS
  <1> DEFINE c == <<l, k>>
             e == <<l, k, "caller">>
             o == <<l, k, "callee">>
  <1>1. l \in Links /\ dials[l] \in Nat /\ k \in 1 .. MaxDials[l]
    <2>1. /\ network \in Networks /\ dials \in [Links -> Nat]
          /\ dials[l] < network.links[l].dials
      BY DEF connect, TalkInv, TalkTypes
    <2>2. l \in Links /\ network.links[l].dials \in 0 .. MaxDials[l]
          /\ MaxDials \in [Links -> Nat]
      BY <2>1, PeerNodeAssumption DEF links
    <2> QED
      BY <1>0, <2>1, <2>2
  <1>2. c \in Conns /\ e \in Ends /\ o \in Ends
    <2>1. c \in Conns
      BY <1>1 DEF Conns
    <2> QED
      BY <2>1 DEF Ends, Sides
  <1>3. Other(e) = o /\ Other(o) = e /\ Conn(e) = c /\ Conn(o) = c /\ e # o
        /\ e[1] = l /\ e[2] = k /\ o[1] = l /\ o[2] = k /\ ~Calls(o)
    BY DEF Other, Conn, Calls
  <1>4. pc[e] = "off" /\ pc[o] = "off"
    BY <1>0, <1>1, <1>2, <1>3 DEF TalkInv, DialInv
  <1>5. inbox[e] = Empty /\ inbox[o] = Empty
    BY <1>2, <1>3, <1>4 DEF TalkInv, ConnInv, Callees, Joint, Opening, Proven
  <1>6. /\ network' = network /\ sessions' = sessions
        /\ dials' = [dials EXCEPT ![l] = k]
        /\ kind' = [kind EXCEPT ![c] = next[l]]
        /\ \/ /\ reject_socket(e) /\ inbox' = inbox
              /\ pc' = [pc EXCEPT ![e] = "done", ![o] = "done"]
           \/ /\ ~reject_socket(e)
              /\ inbox' = [inbox EXCEPT ![o] = One("HELLO")]
              /\ pc' = [pc EXCEPT ![o] = "hello", ![e] = "challenge"]
    BY <1>0, <1>3 DEF connect, accept_loop, One
  <1> HIDE DEF c, e, o
  <1>7. \A f \in Ends : f \notin {e, o} => Conn(f) # c
    BY <1>2, <1>3, SameConn
  <1>8. \A f \in Ends : f \notin {e, o} => Other(f) \notin {e, o}
    BY <1>2, <1>3, EndFacts
  <1>9. \A f \in Ends : f \notin {e, o} =>
            /\ pc'[f] = pc[f] /\ inbox'[f] = inbox[f]
            /\ NodeOf(f)' = NodeOf(f) /\ PeerOf(f)' = PeerOf(f)
            /\ Passed(f)' = Passed(f) /\ reject_socket(f)' = reject_socket(f)
    <2> SUFFICES ASSUME NEW f \in Ends, f \notin {e, o}
                 PROVE  /\ pc'[f] = pc[f] /\ inbox'[f] = inbox[f]
                        /\ NodeOf(f)' = NodeOf(f) /\ PeerOf(f)' = PeerOf(f)
                        /\ Passed(f)' = Passed(f) /\ reject_socket(f)' = reject_socket(f)
      OBVIOUS
    <2>1. pc'[f] = pc[f] /\ inbox'[f] = inbox[f]
      BY <1>6 DEF TalkInv, TalkTypes
    <2>2. kind'[Conn(f)] = kind[Conn(f)]
      BY <1>6, <1>7, EndFacts DEF TalkInv, TalkTypes
    <2> QED
      BY <1>6, <2>1, <2>2, PassedStays
  <1>10. reject_socket(e)' = reject_socket(e)
    BY <1>6 DEF reject_socket, NodeOf, From, To
  <1>11. \/ pc'[e] = "done" /\ pc'[o] = "done"
         \/ /\ ~reject_socket(e) /\ pc'[e] = "challenge" /\ pc'[o] = "hello"
            /\ inbox'[e] = Empty /\ inbox'[o] = One("HELLO")
    BY <1>2, <1>3, <1>5, <1>6 DEF TalkInv, TalkTypes
  <1>12. ConnInv'
    <2> SUFFICES ASSUME NEW f \in Callees
                 PROVE  Joint(Other(f), f, pc[Other(f)], pc[f], inbox[Other(f)], inbox[f])'
      BY DEF ConnInv
    <2>1. f \in Ends /\ ~Calls(f) /\ Other(f) \in Ends
      BY EndFacts DEF Callees
    <2>2. CASE f = o
      BY <1>3, <1>10, <1>11, <2>2 DEF Joint, Opening
    <2>3. CASE f # o
      <3>1. f \notin {e, o} /\ Other(f) \notin {e, o}
        BY <1>2, <1>3, <1>8, <2>1, <2>3, EndFacts
      <3>2. Joint(Other(f), f, pc[Other(f)], pc[f], inbox[Other(f)], inbox[f])
        BY DEF TalkInv, ConnInv
      <3> QED
        BY <1>9, <2>1, <3>1, <3>2 DEF Joint, Opening, Proven
    <2> QED
      BY <2>2, <2>3
  <1>13. DialInv'
    <2> SUFFICES ASSUME NEW f \in Ends
                 PROVE  pc'[f] = "off" <=> f[2] > dials'[f[1]]
      BY DEF DialInv
    <2>1. pc[f] = "off" <=> f[2] > dials[f[1]]
      BY DEF TalkInv, DialInv
    <2>2. f[1] \in Links /\ f[2] \in Nat /\ dials \in [Links -> Nat]
      BY EndFacts, PeerNodeAssumption DEF TalkInv, TalkTypes
    <2>3. CASE f \in {e, o}
      BY <1>0, <1>1, <1>3, <1>6, <1>11, <2>2, <2>3
    <2>4. CASE f \notin {e, o} /\ f[1] = l
      <3>1. f[2] # k
        BY <1>7, <2>4, EndFacts DEF c
      <3> QED
        BY <1>0, <1>1, <1>6, <1>9, <2>1, <2>2, <2>4, <3>1
    <2>5. CASE f \notin {e, o} /\ f[1] # l
      BY <1>6, <1>9, <2>1, <2>2, <2>5
    <2> QED
      BY <2>3, <2>4, <2>5
  <1>14. SenderInv'
    BY <1>4, <1>6, <1>9 DEF TalkInv, SenderInv
  <1>15. TalkTypes'
    <2>1. network' \in Networks /\ dials' \in [Links -> Nat]
      BY <1>0, <1>1, <1>6 DEF TalkInv, TalkTypes
    <2>2. pc' = [f \in Ends |-> pc'[f]]
      BY <1>6 DEF TalkInv, TalkTypes
    <2>3. inbox' = [f \in Ends |-> inbox'[f]]
      BY <1>6 DEF TalkInv, TalkTypes
    <2>4. kind' = [d \in Conns |-> kind'[d]]
      BY <1>6 DEF TalkInv, TalkTypes
    <2>5. sessions' = [n \in Nodes |-> [p \in Nodes |-> sessions'[n][p]]]
      BY <1>6 DEF TalkInv, TalkTypes
    <2> QED
      BY <2>1, <2>2, <2>3, <2>4, <2>5 DEF TalkTypes
  <1> QED
    BY <1>12, <1>13, <1>14, <1>15 DEF TalkInv

-----------------------------------------------------------------------------
(* No connection is open at the start.                                      *)
LEMMA TalkInit == Init => TalkInv
  <1> SUFFICES ASSUME Init PROVE TalkInv
    OBVIOUS
  <1>1. TalkTypes
    BY DEF Init, TalkTypes
  <1>2. ConnInv
    BY EndFacts DEF Init, ConnInv, Callees, Joint, Empty
  <1>3. DialInv
    <2> SUFFICES ASSUME NEW e \in Ends
                 PROVE  pc[e] = "off" <=> e[2] > dials[e[1]]
      BY DEF DialInv
    <2>1. e[1] \in Links /\ e[2] \in Nat \ {0}
      BY EndFacts, PeerNodeAssumption
    <2>2. pc[e] = "off" /\ dials[e[1]] = 0
      BY <2>1 DEF Init
    <2> QED
      BY <2>1, <2>2
  <1>4. SenderInv
    BY DEF Init, SenderInv
  <1> QED
    BY <1>1, <1>2, <1>3, <1>4 DEF TalkInv

(* Which side an end is on shows from where it is.                          *)
LEMMA SideOf ==
    ASSUME TalkInv, NEW e \in Ends
    PROVE  /\ pc[e] \in {"hello", "auth", "first", "graph"} => ~Calls(e)
           /\ pc[e] \in {"challenge", "ack", "mesh"} => Calls(e)
  <1>1. JointAt(e, pc[e], inbox[e], inbox[Other(e)])
    BY JointHere DEF TalkInv
  <1> QED
    BY <1>1 DEF JointAt, Joint, Opening, Proven

(* Every step keeps the invariant.                                          *)
LEMMA TalkStep == TalkInv /\ [Next]_vars => TalkInv'
  <1> SUFFICES ASSUME TalkInv, [Next]_vars PROVE TalkInv'
    OBVIOUS
  <1>1. CASE UNCHANGED vars
    BY <1>1, QuietKeeps DEF vars, conn_vars, link_vars
  <1>2. ASSUME NEW n \in Nodes,
               attach_graph(n) \/ take_delivered(n) \/ \E m \in Message : Compose(n, m)
        PROVE  TalkInv'
    <2>1. network' = network /\ kind' = kind /\ dials' = dials
          /\ pc' = pc /\ inbox' = inbox /\ sessions' = sessions
      BY <1>2 DEF attach_graph, take_delivered, Compose, conn_vars, link_vars
    <2> QED
      BY <2>1, QuietKeeps
  <1>3. ASSUME NEW l \in links, HearBeacon(l) \/ StartLink(l) \/ connect(l)
        PROVE  TalkInv'
    <2>1. CASE connect(l)
      BY <2>1, ConnectKeeps
    <2>2. CASE HearBeacon(l) \/ StartLink(l)
      <3>1. network' = network /\ kind' = kind /\ dials' = dials
            /\ pc' = pc /\ inbox' = inbox /\ sessions' = sessions
        BY <2>2 DEF HearBeacon, StartLink, conn_vars
      <3> QED
        BY <3>1, QuietKeeps
    <2> QED
      BY <1>3, <2>1, <2>2
  <1>4. ASSUME NEW e \in Ends,
               \/ GetHello(e) \/ GetChallenge(e) \/ GetAuth(e)
               \/ GetAck(e) \/ GetAckForMesh(e) \/ ServeMesh(e)
               \/ Session(e) \/ PeerGone(e) \/ Interrupt(e)
        PROVE  TalkInv'
    <2>1. CASE GetHello(e)
      BY <2>1, GetHelloKeeps, SideOf DEF GetHello, Reads
    <2>2. CASE GetChallenge(e)
      BY <2>2, GetChallengeKeeps, SideOf DEF GetChallenge
    <2>3. CASE GetAuth(e)
      BY <2>3, GetAuthKeeps, SideOf DEF GetAuth, Reads
    <2>4. CASE GetAck(e)
      BY <2>4, GetAckKeeps, SideOf DEF GetAck, Reads
    <2>5. CASE GetAckForMesh(e)
      BY <2>5, GetAckForMeshKeeps, SideOf DEF GetAckForMesh, Reads
    <2>6. CASE ServeMesh(e)
      BY <2>6, ServeMeshKeeps, SideOf DEF ServeMesh
    <2>7. CASE GetFirst(e)
      BY <2>7, GetFirstKeeps, SideOf DEF GetFirst
    <2>8. CASE WriteInv(e) \/ GetInv(e) \/ GetWant(e) \/ GetPayload(e)
      BY <2>8, SessionKeeps
    <2>9. CASE PeerGone(e)
      BY <2>9, CloseKeeps DEF PeerGone, Empty
    <2>10. CASE Interrupt(e)
      BY <2>10, CloseKeeps DEF Interrupt, Empty
    <2> QED
      BY <1>4, <2>1, <2>2, <2>3, <2>4, <2>5, <2>6, <2>7, <2>8, <2>9, <2>10 DEF Session
  <1> QED
    BY <1>1, <1>2, <1>3, <1>4 DEF Next

(* The invariant is about the property of the runs.                         *)
LEMMA TalkShows == TalkInv => OnlyProvenPeersTalk
  <1> SUFFICES ASSUME TalkInv PROVE OnlyProvenPeersTalk
    OBVIOUS
  <1>1. ASSUME NEW e \in Ends, pc[e] \in {"first", "graph", "mesh", "open"}
        PROVE  /\ PeerOf(e) \in Genuine /\ PeerOf(Other(e)) \in Genuine
               /\ ~reject_socket(e) /\ ~reject_socket(Other(e))
               /\ pc[Other(e)] \notin {"off", "hello", "auth", "challenge"}
    <2>1. JointAt(e, pc[e], inbox[e], inbox[Other(e)])
      BY JointHere DEF TalkInv
    <2>2. /\ Passed(e) /\ Passed(Other(e))
          /\ pc[Other(e)] \in {"ack", "mesh", "first", "graph", "open", "done"}
      BY <1>1, <2>1 DEF JointAt, Joint, Opening, Proven
    <2> QED
      BY <2>2 DEF Passed
  <1>2. \A n, p \in Nodes : sessions[n][p] # None =>
            LET e == sessions[n][p]
            IN  pc[e] = "open" /\ NodeOf(e) = n /\ PeerOf(e) = p
    BY DEF TalkInv, SenderInv
  <1> QED
    BY <1>1, <1>2 DEF OnlyProvenPeersTalk

(* handshake.rs, node.rs: whoever dials, fails, times out and reconnects,   *)
(* an end that takes gossip or a graph has a peer that proved itself on     *)
(* this very connection and that it proved itself to, and every registered  *)
(* sender leads to such a session.                                          *)
THEOREM TalkTheorem == Spec => []OnlyProvenPeersTalk
  <1>1. Spec => []TalkInv
    BY TalkInit, TalkStep, PTL DEF Spec
  <1> QED
    BY <1>1, TalkShows, PTL

-----------------------------------------------------------------------------
(* Induction over the indices of a sequence.                                *)
LEMMA IndexSetInduction ==
    ASSUME NEW N \in Nat, NEW T, 0 \in T, \A n \in 1 .. N : n - 1 \in T => n \in T
    PROVE  \A n \in 0 .. N : n \in T
  <1> DEFINE R == {p \in Nat \X Nat : p[1] < p[2]}
             U == {n \in 0 .. N : n \notin T}
  <1> SUFFICES ASSUME U # {} PROVE FALSE
    OBVIOUS
  <1>1. IsWellFoundedOn(R, Nat)
    BY NatLessThanWellFounded DEF OpToRel
  <1>2. PICK x \in U : \A y \in U : <<y, x>> \notin R
    <2>1. U \subseteq Nat
      OBVIOUS
    <2> HIDE DEF R, U
    <2> QED
      BY <1>1, <2>1, WFMin
  <1>3. x \in 1 .. N /\ x - 1 \in 0 .. N /\ <<x - 1, x>> \in R
    BY <1>2
  <1>4. x - 1 \in T
    BY <1>2, <1>3
  <1> QED
    BY <1>2, <1>3, <1>4

(* u is what this recursion over the indices of a sequence defines.         *)
IsIndexRecursion(V, b, step, N, u) ==
    u \in [0 .. N -> V] /\ u[0] = b /\ \A n \in 1 .. N : u[n] = step[<<u[n - 1], n>>]

(* Such a function exists.                                                  *)
LEMMA IndexRecursion ==
    ASSUME NEW N \in Nat, NEW V, NEW b \in V, NEW step,
           \A p \in V \X (1 .. N) : step[p] \in V
    PROVE  \E u : IsIndexRecursion(V, b, step, N, u)
  <1> DEFINE Is(n, u) == /\ u \in [0 .. n -> V] /\ u[0] = b
                         /\ \A m \in 1 .. n : u[m] = step[<<u[m - 1], m>>]
             T == {n \in 0 .. N : \E u : Is(n, u)}
  <1>1. 0 \in T
    <2>1. Is(0, [m \in 0 .. 0 |-> b])
      OBVIOUS
    <2>2. \E u : Is(0, u)
      <3> HIDE DEF Is
      <3> QED BY <2>1
    <2> QED
      BY <2>2
  <1>2. ASSUME NEW n \in 1 .. N, n - 1 \in T PROVE n \in T
    <2>1. PICK u : Is(n - 1, u)
      BY <1>2
    <2> DEFINE v == [m \in 0 .. n |-> IF m = n THEN step[<<u[n - 1], n>>] ELSE u[m]]
    <2>2. u[n - 1] \in V /\ step[<<u[n - 1], n>>] \in V
      BY <2>1
    <2>3. v \in [0 .. n -> V] /\ v[0] = b
      BY <2>1, <2>2
    <2>4. ASSUME NEW m \in 1 .. n PROVE v[m] = step[<<v[m - 1], m>>]
      <3>1. v[m - 1] = u[m - 1]
        OBVIOUS
      <3>2. CASE m = n
        BY <3>1, <3>2
      <3>3. CASE m # n
        <4>1. m \in 1 .. n - 1 /\ v[m] = u[m]
          BY <3>3
        <4> QED BY <2>1, <3>1, <4>1
      <3> QED BY <3>2, <3>3
    <2>5. Is(n, v)
      <3> HIDE DEF v
      <3> QED BY <2>3, <2>4
    <2>6. \E w : Is(n, w)
      <3> HIDE DEF Is, v
      <3> QED BY <2>5
    <2> QED
      BY <2>6
  <1>3. N \in T
    <2> HIDE DEF T
    <2> QED BY <1>1, <1>2, IndexSetInduction
  <1> QED
    BY <1>3 DEF IsIndexRecursion

(* f are members of S among the first n of s, in their order.               *)
IsSelection(s, S, n, f) ==
    \E h \in [1 .. Len(f) -> 1 .. n] :
        /\ \A j, k \in 1 .. Len(f) : j < k => h[j] < h[k]
        /\ \A k \in 1 .. Len(f) : f[k] = s[h[k]] /\ f[k] \in S

(* What a pass over a list keeps is a part of the list, in its order.       *)
LEMMA SelectedIs ==
    ASSUME NEW V, NEW s \in Seq(V), NEW S
    PROVE  Selected(s, S) \in Seq(V) /\ IsSelection(s, S, Len(s), Selected(s, S))
  <1> DEFINE N == Len(s)
             Eq(u) == u = [m \in 0 .. N |->
                              IF m = 0 THEN <<>>
                              ELSE IF s[m] \in S THEN Append(u[m - 1], s[m])
                              ELSE u[m - 1]]
             upto == CHOOSE u : Eq(u)
             step == [p \in Seq(V) \X (1 .. N) |->
                         IF s[p[2]] \in S THEN Append(p[1], s[p[2]]) ELSE p[1]]
  <1>0. N \in Nat /\ \A n \in 1 .. N : s[n] \in V
    BY ElementOfSeq
  <1>1. \A p \in Seq(V) \X (1 .. N) : step[p] \in Seq(V)
    <2>1. ASSUME NEW p \in Seq(V) \X (1 .. N) PROVE step[p] \in Seq(V)
      <3>1. p[1] \in Seq(V) /\ s[p[2]] \in V
        BY <1>0
      <3>2. Append(p[1], s[p[2]]) \in Seq(V)
        BY <3>1, AppendProperties
      <3> QED BY <3>1, <3>2
    <2> QED BY <2>1
  <1>2. PICK u : IsIndexRecursion(Seq(V), <<>>, step, N, u)
    <2>1. N \in Nat /\ <<>> \in Seq(V)
      BY <1>0, EmptySeq
    <2> HIDE DEF step, N
    <2> QED BY <1>1, <2>1, IndexRecursion
  <1>3. Eq(u)
    <2> USE DEF IsIndexRecursion
    <2>1. ASSUME NEW m \in 0 .. N
          PROVE  u[m] = IF m = 0 THEN <<>>
                        ELSE IF s[m] \in S THEN Append(u[m - 1], s[m]) ELSE u[m - 1]
      <3>1. CASE m = 0
        BY <1>2, <3>1
      <3>2. CASE m # 0
        <4>1. m \in 1 .. N /\ m - 1 \in 0 .. N
          BY <1>0, <3>2
        <4>2. <<u[m - 1], m>> \in Seq(V) \X (1 .. N)
          BY <1>2, <4>1
        <4> QED BY <1>2, <3>2, <4>1, <4>2
      <3> QED BY <3>1, <3>2
    <2>2. u = [m \in 0 .. N |-> u[m]]
      BY <1>2
    <2> QED BY <2>1, <2>2, Zenon
  <1>4. Eq(upto)
    <2> HIDE DEF Eq
    <2> QED BY <1>3
  <1>5. Selected(s, S) = upto[N]
    BY DEF Selected
  <1> HIDE DEF upto
  <1>6. /\ upto[0] = <<>>
        /\ \A n \in 1 .. N : upto[n] = IF s[n] \in S THEN Append(upto[n - 1], s[n])
                                       ELSE upto[n - 1]
    <2>1. \A m \in 0 .. N : upto[m] = IF m = 0 THEN <<>>
                                      ELSE IF s[m] \in S THEN Append(upto[m - 1], s[m])
                                      ELSE upto[m - 1]
      BY <1>4, Zenon
    <2>2. 0 \in 0 .. N /\ \A n \in 1 .. N : n \in 0 .. N /\ n # 0
      BY <1>0
    <2> HIDE DEF N
    <2> QED
      BY <2>1, <2>2, Zenon
  <1> HIDE DEF Eq
  <1> DEFINE W == {n \in 0 .. N : upto[n] \in Seq(V) /\ IsSelection(s, S, n, upto[n])}
  <1>7. 0 \in W
    <2>1. Len(<<>>) = 0 /\ <<>> \in Seq(V) /\ 1 .. 0 = {}
      BY EmptySeq
    <2> DEFINE none == [k \in 1 .. 0 |-> 0]
    <2>2. none \in [1 .. 0 -> 1 .. 0]
      BY <2>1
    <2> HIDE DEF none
    <2>3. IsSelection(s, S, 0, <<>>)
      BY <2>1, <2>2 DEF IsSelection
    <2>4. upto[0] \in Seq(V) /\ IsSelection(s, S, 0, upto[0])
      BY <1>6, <2>1, <2>3, Zenon
    <2> QED
      BY <1>0, <2>4
  <1>8. ASSUME NEW n \in 1 .. N, n - 1 \in W PROVE n \in W
    <2> DEFINE f == upto[n - 1]
    <2>1. f \in Seq(V) /\ IsSelection(s, S, n - 1, f) /\ Len(f) \in Nat
      BY <1>8, LenProperties
    <2>2. PICK h \in [1 .. Len(f) -> 1 .. n - 1] :
              /\ \A j, k \in 1 .. Len(f) : j < k => h[j] < h[k]
              /\ \A k \in 1 .. Len(f) : f[k] = s[h[k]] /\ f[k] \in S
      BY <2>1 DEF IsSelection
    <2>3. CASE s[n] \in S
      <3> DEFINE g == [k \in 1 .. Len(f) + 1 |-> IF k = Len(f) + 1 THEN n ELSE h[k]]
                 r == Append(f, s[n])
      <3> HIDE DEF f
      <3>1. /\ r \in Seq(V) /\ Len(r) = Len(f) + 1
            /\ r[Len(f) + 1] = s[n] /\ \A k \in 1 .. Len(f) : r[k] = f[k]
        BY <1>0, <2>1, AppendProperties
      <3>2. g \in [1 .. Len(r) -> 1 .. n]
        BY <2>1, <2>2, <3>1
      <3>3. ASSUME NEW j \in 1 .. Len(r), NEW k \in 1 .. Len(r), j < k PROVE g[j] < g[k]
        <4>1. j \in 1 .. Len(f) /\ g[j] = h[j] /\ h[j] \in 1 .. n - 1
          BY <2>1, <2>2, <3>1, <3>3
        <4>2. CASE k = Len(f) + 1
          BY <2>1, <3>1, <4>1, <4>2
        <4>3. CASE k # Len(f) + 1
          <5>1. k \in 1 .. Len(f)
            <6> HIDE DEF g, r
            <6> QED BY <2>1, <3>1, <4>3
          <5>2. g[k] = h[k]
            BY <4>3, <5>1
          <5> QED BY <2>2, <3>3, <4>1, <5>1, <5>2
        <4> QED BY <4>2, <4>3
      <3>4. ASSUME NEW k \in 1 .. Len(r) PROVE r[k] = s[g[k]] /\ r[k] \in S
        <4>1. CASE k = Len(f) + 1
          BY <2>1, <2>3, <3>1, <4>1
        <4>2. CASE k # Len(f) + 1
          <5>1. k \in 1 .. Len(f) /\ g[k] = h[k]
            BY <2>1, <3>1, <4>2
          <5> QED BY <2>2, <3>1, <5>1
        <4> QED BY <4>1, <4>2
      <3> HIDE DEF g, r
      <3>5. IsSelection(s, S, n, r)
        BY <3>2, <3>3, <3>4 DEF IsSelection
      <3>6. upto[n] = r
        BY <1>6, <2>3 DEF f, r
      <3> QED
        BY <3>1, <3>5, <3>6
    <2>4. CASE s[n] \notin S
      <3>1. upto[n] = f
        BY <1>6, <2>4
      <3>2. h \in [1 .. Len(f) -> 1 .. n]
        BY <2>1, <2>2
      <3>3. IsSelection(s, S, n, f)
        BY <2>2, <3>2 DEF IsSelection
      <3> QED
        BY <2>1, <3>1, <3>3
    <2> QED
      BY <2>3, <2>4
  <1>9. N \in W
    <2> HIDE DEF W
    <2>1. N \in Nat /\ N \in 0 .. N
      BY <1>0
    <2> HIDE DEF N
    <2> QED
      BY <1>7, <1>8, <2>1, IndexSetInduction
  <1> QED
    BY <1>5, <1>9

(* The members of an extended sequence and of what follows its head.        *)
LEMMA MembersAppend ==
    ASSUME NEW V, NEW s \in Seq(V), NEW x \in V
    PROVE  ToSet(Append(s, x)) = ToSet(s) \cup {x}
  <1>1. /\ Len(s) \in Nat /\ Append(s, x) \in Seq(V) /\ Len(Append(s, x)) = Len(s) + 1
        /\ \A i \in 1 .. Len(s) : Append(s, x)[i] = s[i]
        /\ Append(s, x)[Len(s) + 1] = x
    BY AppendProperties, LenProperties
  <1>2. DOMAIN s = 1 .. Len(s) /\ DOMAIN Append(s, x) = 1 .. Len(s) + 1
    BY <1>1, LenProperties
  <1> DEFINE r == Append(s, x)
  <1> HIDE DEF r
  <1>3. ASSUME NEW y \in ToSet(r) PROVE y \in ToSet(s) \cup {x}
    <2>1. PICK i \in 1 .. Len(s) + 1 : y = r[i]
      BY <1>2 DEF ToSet, r
    <2>2. i = Len(s) + 1 \/ i \in 1 .. Len(s)
      BY <1>1
    <2> QED
      BY <1>1, <1>2, <2>1, <2>2 DEF ToSet, r
  <1>4. ASSUME NEW y \in ToSet(s) \cup {x} PROVE y \in ToSet(r)
    <2>1. CASE y = x
      <3>1. Len(s) + 1 \in 1 .. Len(s) + 1
        BY <1>1
      <3> QED
        BY <1>1, <1>2, <2>1, <3>1 DEF ToSet, r
    <2>2. CASE y \in ToSet(s)
      <3>1. PICK i \in 1 .. Len(s) : y = s[i]
        BY <1>2, <2>2 DEF ToSet
      <3>2. i \in 1 .. Len(s) + 1
        BY <1>1
      <3> QED
        BY <1>1, <1>2, <3>1, <3>2 DEF ToSet, r
    <2> QED
      BY <2>1, <2>2
  <1> QED
    BY <1>3, <1>4 DEF r

(* A queue is its head and what follows.                                    *)
LEMMA MembersTail ==
    ASSUME NEW V, NEW s \in Seq(V), s # <<>>
    PROVE  /\ Head(s) \in V /\ Tail(s) \in Seq(V) /\ Len(Tail(s)) = Len(s) - 1
           /\ Len(s) \in Nat \ {0}
           /\ ToSet(s) = ToSet(Tail(s)) \cup {Head(s)}
           /\ \A i \in 1 .. Len(s) - 1 : Tail(s)[i] = s[i + 1]
  <1>1. /\ Len(s) \in Nat \ {0} /\ Head(s) = s[1] /\ Head(s) \in V
        /\ Tail(s) \in Seq(V) /\ Len(Tail(s)) = Len(s) - 1
        /\ \A i \in 1 .. Len(s) - 1 : Tail(s)[i] = s[i + 1]
    BY HeadTailProperties, EmptySeq, LenProperties
  <1>2. DOMAIN s = 1 .. Len(s) /\ DOMAIN Tail(s) = 1 .. Len(s) - 1
    BY <1>1, LenProperties
  <1> DEFINE r == Tail(s)
  <1> HIDE DEF r
  <1>3. ASSUME NEW y \in ToSet(s) PROVE y \in ToSet(r) \cup {s[1]}
    <2>1. PICK i \in 1 .. Len(s) : y = s[i]
      BY <1>2, <1>3 DEF ToSet
    <2>2. CASE i # 1
      <3>1. i - 1 \in 1 .. Len(s) - 1 /\ (i - 1) + 1 = i
        BY <1>1, <2>2
      <3>2. r[i - 1] = s[i]
        BY <1>1, <3>1 DEF r
      <3> QED
        BY <1>2, <2>1, <3>1, <3>2 DEF ToSet, r
    <2> QED
      BY <2>1, <2>2
  <1>4. ASSUME NEW y \in ToSet(r) PROVE y \in ToSet(s)
    <2>1. PICK i \in 1 .. Len(s) - 1 : y = r[i]
      BY <1>2 DEF ToSet, r
    <2>2. i + 1 \in 1 .. Len(s)
      BY <1>1
    <2> QED
      BY <1>1, <1>2, <2>1, <2>2 DEF ToSet, r
  <1>5. s[1] \in ToSet(s)
    <2>1. 1 \in 1 .. Len(s)
      BY <1>1
    <2> QED
      BY <1>2, <2>1 DEF ToSet
  <1> QED
    BY <1>1, <1>3, <1>4, <1>5 DEF r

(* r lists what the store listed, except gone, and m; gone made room.       *)
IsInsertion(V, order, role, m, r, gone) ==
    /\ r \in Seq(V) /\ Len(r) <= max_store[role] /\ IsInjective(r)
    /\ ToSet(r) = (ToSet(order) \ gone) \cup {m}
    /\ gone \subseteq ToSet(order) /\ m \notin gone

(* What a store lists after an insertion.                                   *)
LEMMA StoreInsertIs ==
    ASSUME NEW V, NEW order \in Seq(V), NEW m \in V,
           NEW role \in {"EdgeMiner", "CoreValidator"},
           IsInjective(order), Len(order) <= max_store[role],
           NEW r, r = StoreInsert(order, role, m),
           NEW gone, gone = EvictedFor(order, role, m)
    PROVE  IsInsertion(V, order, role, m, r, gone)
  <1> USE DEF IsInsertion
  <1>1. max_store[role] \in Nat \ {0} /\ Len(order) \in Nat /\ DOMAIN order = 1 .. Len(order)
    BY GossipStoreAssumption, LenProperties
  <1>2. Holds(order, m) <=> m \in ToSet(order)
    BY <1>1 DEF Holds, Contains, ToSet
  <1>3. CASE m \in ToSet(order)
    BY <1>2, <1>3 DEF StoreInsert, EvictedFor
  <1>4. CASE m \notin ToSet(order)
    <2> DEFINE base == IF Len(order) >= max_store[role] THEN Tail(order) ELSE order
    <2>1. r = Append(base, m)
      BY <1>2, <1>4 DEF StoreInsert
    <2>2. /\ base \in Seq(V) /\ IsInjective(base) /\ Len(base) + 1 <= max_store[role]
          /\ ToSet(base) = ToSet(order) \ gone
          /\ gone \subseteq ToSet(order)
      <3>1. CASE Len(order) >= max_store[role]
        <4>1. order # <<>>
          BY <1>1, <3>1, EmptySeq
        <4>2. base = Tail(order) /\ gone = {Head(order)}
          BY <1>2, <1>4, <3>1 DEF EvictedFor
        <4>3. /\ Tail(order) \in Seq(V) /\ Len(Tail(order)) = Len(order) - 1
              /\ ToSet(order) = ToSet(Tail(order)) \cup {Head(order)}
              /\ \A i \in 1 .. Len(order) - 1 : Tail(order)[i] = order[i + 1]
          BY <4>1, MembersTail
        <4> DEFINE t == Tail(order)
        <4> HIDE DEF t
        <4>4. DOMAIN t = 1 .. Len(order) - 1
          BY <4>3, LenProperties DEF t
        <4>5. Head(order) = order[1]
          BY <4>1, HeadTailProperties
        <4>6. ASSUME NEW i \in DOMAIN t PROVE i + 1 \in DOMAIN order /\ t[i] = order[i + 1]
                                             /\ 1 \in DOMAIN order
          BY <1>1, <4>3, <4>4 DEF t
        <4>7. IsInjective(t)
          <5> SUFFICES ASSUME NEW i \in DOMAIN t, NEW j \in DOMAIN t, t[i] = t[j]
                       PROVE  i = j
            BY DEF IsInjective
          <5>1. i + 1 = j + 1
            BY <4>6 DEF IsInjective
          <5> QED
            BY <1>1, <4>4, <5>1
        <4>8. Head(order) \notin ToSet(t)
          <5> SUFFICES ASSUME NEW i \in DOMAIN t, t[i] = order[1] PROVE FALSE
            BY <4>5 DEF ToSet
          <5>1. i + 1 = 1
            BY <4>6 DEF IsInjective
          <5> QED
            BY <1>1, <4>4, <5>1
        <4>9. Len(t) + 1 <= max_store[role] /\ t \in Seq(V)
          BY <1>1, <4>3 DEF t
        <4> QED
          BY <4>2, <4>3, <4>7, <4>8, <4>9 DEF t
      <3>2. CASE ~(Len(order) >= max_store[role])
        BY <1>1, <3>2 DEF EvictedFor
      <3> QED
        BY <3>1, <3>2
    <2> HIDE DEF base
    <2>3. ToSet(r) = ToSet(base) \cup {m}
      BY <2>1, <2>2, MembersAppend
    <2>4. /\ r \in Seq(V) /\ Len(r) = Len(base) + 1
          /\ \A i \in 1 .. Len(base) : r[i] = base[i]
          /\ r[Len(base) + 1] = m
      BY <2>1, <2>2, AppendProperties
    <2>5. IsInjective(r)
      <3> SUFFICES ASSUME NEW i \in DOMAIN r, NEW j \in DOMAIN r, r[i] = r[j], i < j
                   PROVE  FALSE
        <4>1. DOMAIN r \subseteq Nat
          BY <2>4, LenProperties
        <4> QED
          BY <4>1 DEF IsInjective
      <3>1. DOMAIN r = 1 .. Len(base) + 1 /\ DOMAIN base = 1 .. Len(base) /\ Len(base) \in Nat
        BY <2>2, <2>4, LenProperties
      <3>2. i \in 1 .. Len(base) /\ r[i] = base[i]
        BY <2>4, <3>1
      <3>3. CASE j = Len(base) + 1
        <4>1. base[i] = m
          BY <2>4, <3>2, <3>3
        <4>2. m \in ToSet(base)
          BY <3>1, <3>2, <4>1 DEF ToSet
        <4> QED
          BY <1>4, <2>2, <4>2
      <3>4. CASE j # Len(base) + 1
        <4>1. j \in 1 .. Len(base) /\ r[j] = base[j]
          BY <2>4, <3>1, <3>4
        <4>2. i \in DOMAIN base /\ j \in DOMAIN base /\ base[i] = base[j]
          BY <3>1, <3>2, <4>1
        <4>3. i = j
          BY <2>2, <4>2, Zenon DEF IsInjective
        <4>4. i \in Int
          BY <3>1, <3>2
        <4> QED
          BY <4>3, <4>4
      <3> QED
        BY <3>3, <3>4
    <2> QED
      BY <1>4, <2>2, <2>3, <2>4, <2>5
  <1> QED
    BY <1>3, <1>4

-----------------------------------------------------------------------------
(* What a store of this role may list of the messages of a set.             *)
Listings(role, M) ==
    {q \in Seq(M) : Len(q) <= max_store[role] /\ IsInjective(q)}

(* Messages put in one after the other leave the store a listing of them.   *)
LEMMA StoreAllIs ==
    ASSUME NEW M, NEW messages \in Seq(M), NEW role \in {"EdgeMiner", "CoreValidator"}
    PROVE  /\ StoreAll(role, messages) \in Listings(role, M)
           /\ ToSet(StoreAll(role, messages)) \subseteq ToSet(messages)
  <1> DEFINE N == Len(messages)
             Kept == {q \in Listings(role, M) : ToSet(q) \subseteq ToSet(messages)}
             Eq(u) == u = [n \in 0 .. N |->
                              IF n = 0 THEN <<>>
                              ELSE StoreInsert(u[n - 1], role, messages[n])]
             upto == CHOOSE u : Eq(u)
             step == [p \in Kept \X (1 .. N) |-> StoreInsert(p[1], role, messages[p[2]])]
  <1>0. /\ N \in Nat /\ max_store[role] \in Nat \ {0}
        /\ DOMAIN messages = 1 .. N
        /\ \A n \in 1 .. N : messages[n] \in M /\ messages[n] \in ToSet(messages)
    BY ElementOfSeq, LenProperties, GossipStoreAssumption DEF ToSet
  <1>1. ASSUME NEW q \in Kept, NEW n \in 1 .. N PROVE StoreInsert(q, role, messages[n]) \in Kept
    <2>1. q \in Seq(M) /\ Len(q) <= max_store[role] /\ IsInjective(q)
          /\ ToSet(q) \subseteq ToSet(messages)
      BY DEF Listings
    <2> DEFINE x == messages[n]
               after == StoreInsert(q, role, x)
               out == EvictedFor(q, role, x)
    <2>2. x \in M /\ x \in ToSet(messages)
      BY <1>0
    <2> HIDE DEF x
    <2>3. after = StoreInsert(q, role, x) /\ out = EvictedFor(q, role, x)
      OBVIOUS
    <2> HIDE DEF after, out
    <2>4. IsInsertion(M, q, role, x, after, out)
      BY <2>1, <2>2, <2>3, StoreInsertIs
    <2>5. after \in Kept
      BY <2>1, <2>2, <2>4 DEF Listings, IsInsertion
    <2> QED
      BY <2>5 DEF after, x
  <1>2. <<>> \in Kept
    <2>1. <<>> \in Seq(M) /\ Len(<<>>) = 0 /\ DOMAIN <<>> = {}
      BY EmptySeq
    <2>2. Len(<<>>) <= max_store[role]
      BY <1>0, <2>1
    <2> QED
      BY <2>1, <2>2 DEF Listings, IsInjective, ToSet
  <1> HIDE DEF Kept
  <1>3. \A p \in Kept \X (1 .. N) : step[p] \in Kept
    BY <1>1
  <1>4. PICK u : IsIndexRecursion(Kept, <<>>, step, N, u)
    <2> HIDE DEF step, N
    <2> QED BY <1>0, <1>2, <1>3, IndexRecursion
  <1>5. Eq(u)
    <2> USE DEF IsIndexRecursion
    <2>1. ASSUME NEW n \in 0 .. N
          PROVE  u[n] = IF n = 0 THEN <<>> ELSE StoreInsert(u[n - 1], role, messages[n])
      <3>1. CASE n = 0
        BY <1>4, <3>1
      <3>2. CASE n # 0
        <4>1. n \in 1 .. N /\ n - 1 \in 0 .. N
          BY <1>0, <3>2
        <4>2. <<u[n - 1], n>> \in Kept \X (1 .. N)
          BY <1>4, <4>1
        <4> QED BY <1>4, <3>2, <4>1, <4>2
      <3> QED BY <3>1, <3>2
    <2>2. u = [n \in 0 .. N |-> u[n]]
      BY <1>4
    <2> QED BY <2>1, <2>2, Zenon
  <1>6. Eq(upto)
    <2> HIDE DEF Eq
    <2> QED BY <1>5
  <1>7. StoreAll(role, messages) = upto[N]
    BY DEF StoreAll
  <1> HIDE DEF upto
  <1>8. /\ upto[0] = <<>>
        /\ \A n \in 1 .. N : upto[n] = StoreInsert(upto[n - 1], role, messages[n])
    <2>1. \A n \in 0 .. N : upto[n] = IF n = 0 THEN <<>>
                                      ELSE StoreInsert(upto[n - 1], role, messages[n])
      BY <1>6, Zenon
    <2>2. 0 \in 0 .. N /\ \A n \in 1 .. N : n \in 0 .. N /\ n # 0
      BY <1>0
    <2> HIDE DEF N
    <2> QED
      BY <2>1, <2>2, Zenon
  <1> HIDE DEF Eq
  <1> DEFINE W == {n \in 0 .. N : upto[n] \in Kept}
  <1>9. N \in W
    <2>1. 0 \in W
      BY <1>0, <1>2, <1>8
    <2>2. ASSUME NEW n \in 1 .. N, n - 1 \in W PROVE n \in W
      <3>1. upto[n - 1] \in Kept /\ upto[n] = StoreInsert(upto[n - 1], role, messages[n])
        BY <1>8, <2>2
      <3>2. upto[n] \in Kept
        BY <1>1, <3>1, Zenon
      <3> QED BY <3>2
    <2> HIDE DEF W
    <2>3. N \in Nat /\ N \in 0 .. N
      BY <1>0
    <2> HIDE DEF N
    <2> QED
      BY <2>1, <2>2, <2>3, IndexSetInduction
  <1> QED
    BY <1>7, <1>9 DEF Kept

-----------------------------------------------------------------------------
(* How often m came to stay in the store of n.                              *)
Stays(n, m) == evictions[n][m] + (IF m \in ToSet(store[n]) THEN 1 ELSE 0)

(* What may be on its way: if its maker is a node, it has it, and kept it   *)
(* once more than it was handed it.                                         *)
Public ==
    {m \in Message : \A n \in Nodes : m \in Fresh[n] =>
                         m \in known[n] /\ receipts[n][m] < Stays(n, m)}

FrameNames == {"HELLO", "CHALLENGE", "AUTH", "ACK", "REJECT", "MESH", "INV", "WANT", "PAYLOAD"}

Frames(M) ==
    {f \in [what : FrameNames, ids : Seq(M)] : f.what = "PAYLOAD" => Len(f.ids) = 1}

NewsInv ==
    /\ cmds \in [Ends -> Seq(Public)]
    /\ inbox \in [Ends -> Seq(Frames(Public))]
    /\ delivered \in [Nodes -> Seq(Public)]

StoreTypes ==
    /\ network \in Networks
    /\ known \in [Nodes -> SUBSET Message]
    /\ receipts \in [Nodes -> [Message -> Nat]]
    /\ evictions \in [Nodes -> [Message -> Nat]]
    /\ store = [n \in Nodes |-> store[n]]
    /\ \A n \in Nodes : store[n] \in Listings(Role[n], Message)

HandedInv ==
    \A n \in Nodes : \A m \in Message :
        /\ receipts[n][m] <= Stays(n, m)
        /\ m \in Fresh[n] => receipts[n][m] <= evictions[n][m]
        /\ m \in ToSet(store[n]) => m \in known[n] \cup ToSet(delivered[n])

GossipInv == StoreTypes /\ NewsInv /\ HandedInv

(* What an insertion of m into the store of n may change.                   *)
MayKeep(n, m) ==
    /\ evictions' \in [Nodes -> [Message -> Nat]]
    /\ store' = [p \in Nodes |-> store'[p]]
    /\ \A p \in Nodes : store'[p] \in Listings(Role[p], Message)
    /\ \A p \in Nodes : \A x \in Message :
          /\ evictions[p][x] <= evictions'[p][x]
          /\ Stays(p, x) <= Stays(p, x)'
          /\ x \in ToSet(store'[p]) => x \in ToSet(store[p]) \/ (p = n /\ x = m)

IsKept(n, m) ==
    /\ MayKeep(n, m)
    /\ m \in ToSet(store'[n])
    /\ m \notin ToSet(store[n]) => Stays(n, m)' = Stays(n, m) + 1

-----------------------------------------------------------------------------
(* A queue of some things is a queue of more things.                        *)
LEMMA SeqOfMore ==
    ASSUME NEW A, NEW B, A \subseteq B
    PROVE  Seq(A) \subseteq Seq(B)
  <1> SUFFICES ASSUME NEW s \in Seq(A) PROVE s \in Seq(B)
    OBVIOUS
  <1>1. Len(s) \in Nat /\ s \in [1 .. Len(s) -> A]
    BY LenProperties
  <1>2. s \in [1 .. Len(s) -> B]
    BY <1>1
  <1> QED
    BY <1>1, <1>2

(* A frame may carry more than before.                                      *)
LEMMA FramesOfMore ==
    ASSUME NEW A, NEW B, A \subseteq B
    PROVE  Seq(Frames(A)) \subseteq Seq(Frames(B))
  <1>1. Seq(A) \subseteq Seq(B)
    BY SeqOfMore
  <1>2. Frames(A) \subseteq Frames(B)
    BY <1>1 DEF Frames
  <1> QED
    BY <1>2, SeqOfMore

(* A role is one of two.                                                    *)
LEMMA RoleIs == \A n \in Nodes : Role[n] \in {"EdgeMiner", "CoreValidator"}
  BY DEF Role, p2p_role

(* What an insertion into a store does to the counts.                       *)
LEMMA KeepStep ==
    ASSUME StoreTypes, NEW n \in Nodes, NEW m \in Message, Keep(n, m)
    PROVE  IsKept(n, m)
  <1> DEFINE out == EvictedFor(store[n], Role[n], m)
             after == StoreInsert(store[n], Role[n], m)
  <1>1. store[n] \in Seq(Message) /\ Len(store[n]) <= max_store[Role[n]]
        /\ IsInjective(store[n])
    BY DEF StoreTypes, Listings
  <1>2. IsInsertion(Message, store[n], Role[n], m, after, out)
    BY <1>1, RoleIs, StoreInsertIs
  <1>3. /\ store' = [store EXCEPT ![n] = after]
        /\ evictions' = [evictions EXCEPT ![n] =
                             [x \in Message |-> IF x \in out THEN evictions[n][x] + 1
                                                ELSE evictions[n][x]]]
    BY DEF Keep
  <1> HIDE DEF out, after
  <1>4. /\ store' = [p \in Nodes |-> IF p = n THEN after ELSE store[p]]
        /\ evictions' = [p \in Nodes |-> [x \in Message |->
                             IF p = n /\ x \in out THEN evictions[p][x] + 1
                             ELSE evictions[p][x]]]
    <2>1. store' = [p \in Nodes |-> IF p = n THEN after ELSE store[p]]
      BY <1>3 DEF StoreTypes
    <2>2. \A p \in Nodes : evictions[p] = [x \in Message |-> evictions[p][x]]
      BY DEF StoreTypes
    <2>3. evictions' = [p \in Nodes |-> IF p = n THEN [x \in Message |->
                             IF x \in out THEN evictions[n][x] + 1 ELSE evictions[n][x]]
                             ELSE evictions[p]]
      BY <1>3 DEF StoreTypes
    <2> QED
      BY <2>1, <2>2, <2>3
  <1>5. \A p \in Nodes : \A x \in Message : evictions[p][x] \in Nat
    BY DEF StoreTypes
  <1>6. evictions' \in [Nodes -> [Message -> Nat]]
    BY <1>4, <1>5
  <1>7. \A p \in Nodes : store'[p] \in Listings(Role[p], Message)
    BY <1>2, <1>4 DEF StoreTypes, Listings, IsInsertion
  <1>8. /\ ToSet(store'[n]) = (ToSet(store[n]) \ out) \cup {m}
        /\ out \subseteq ToSet(store[n]) /\ m \notin out
        /\ \A p \in Nodes : p # n => store'[p] = store[p]
    BY <1>2, <1>4 DEF IsInsertion
  <1>9. ASSUME NEW p \in Nodes, NEW x \in Message
        PROVE  /\ evictions[p][x] <= evictions'[p][x]
               /\ Stays(p, x) <= Stays(p, x)'
               /\ x \in ToSet(store'[p]) => x \in ToSet(store[p]) \/ (p = n /\ x = m)
    <2>1. evictions'[p][x] = IF p = n /\ x \in out THEN evictions[p][x] + 1
                             ELSE evictions[p][x]
      BY <1>4
    <2>2. CASE p = n
      BY <1>5, <1>8, <2>1, <2>2 DEF Stays
    <2>3. CASE p # n
      BY <1>5, <1>8, <2>1, <2>3 DEF Stays
    <2> QED
      BY <2>2, <2>3
  <1>10. m \notin ToSet(store[n]) => Stays(n, m)' = Stays(n, m) + 1
    <2>1. evictions'[n][m] = evictions[n][m]
      BY <1>4, <1>8
    <2> QED
      BY <1>5, <1>8, <2>1 DEF Stays
  <1> QED
    BY <1>4, <1>6, <1>7, <1>8, <1>9, <1>10 DEF IsKept, MayKeep

(* What is public stays so.                                                 *)
LEMMA PublicGrows ==
    ASSUME StoreTypes,
           \A n \in Nodes : known[n] \subseteq known'[n],
           \A n \in Nodes : \A m \in Message :
               receipts[n][m] < Stays(n, m) => receipts'[n][m] < Stays(n, m)'
    PROVE  Public \subseteq Public'
  BY DEF Public

(* What an end leaves to be read is well formed.                            *)
LEMMA AnswerNews ==
    ASSUME NewsInv, NEW e \in Ends, NEW frames \in Seq(Frames(Public)),
           inbox[e] # <<>>, Answer(e, frames)
    PROVE  inbox' \in [Ends -> Seq(Frames(Public))]
  <1> DEFINE F == Frames(Public)
             y == IF pc[Other(e)] = "done" THEN <<>> ELSE inbox[Other(e)] \o frames
             x == Tail(inbox[e])
  <1>1. inbox' = [inbox EXCEPT ![e] = x, ![Other(e)] = y]
    BY EndFacts DEF Answer
  <1>2. /\ Other(e) \in Ends /\ inbox[e] \in Seq(F) /\ inbox[Other(e)] \in Seq(F)
        /\ inbox \in [Ends -> Seq(F)]
    BY EndFacts DEF NewsInv
  <1> HIDE DEF F
  <1>3. x \in Seq(F)
    BY <1>2, MembersTail
  <1>4. y \in Seq(F)
    <2>1. inbox[Other(e)] \o frames \in Seq(F)
      BY <1>2, ConcatProperties DEF F
    <2> QED
      BY <2>1, EmptySeq
  <1> HIDE DEF x, y
  <1>5. inbox' \in [Ends -> Seq(F)]
    BY <1>1, <1>2, <1>3, <1>4
  <1> QED
    BY <1>5 DEF F

(* ... also when it stops.                                                  *)
LEMMA CloseNews ==
    ASSUME NewsInv, NEW e \in Ends, NEW frames \in Seq(Frames(Public)), Close(e, frames)
    PROVE  /\ inbox' \in [Ends -> Seq(Frames(Public))]
           /\ cmds' \in [Ends -> Seq(Public)]
  <1> DEFINE F == Frames(Public)
             y == IF pc[Other(e)] = "done" THEN <<>> ELSE inbox[Other(e)] \o frames
  <1>1. inbox' = [inbox EXCEPT ![e] = <<>>, ![Other(e)] = y]
        /\ cmds' = [cmds EXCEPT ![e] = <<>>]
    BY DEF Close
  <1>2. /\ Other(e) \in Ends /\ inbox[Other(e)] \in Seq(F)
        /\ inbox \in [Ends -> Seq(F)] /\ cmds \in [Ends -> Seq(Public)]
    BY EndFacts DEF NewsInv
  <1> HIDE DEF F
  <1>3. <<>> \in Seq(F) /\ <<>> \in Seq(Public)
    BY EmptySeq
  <1>4. y \in Seq(F)
    <2>1. inbox[Other(e)] \o frames \in Seq(F)
      BY <1>2, ConcatProperties DEF F
    <2> QED
      BY <1>3, <2>1
  <1> HIDE DEF y
  <1>5. inbox' \in [Ends -> Seq(F)]
    BY <1>1, <1>2, <1>3, <1>4
  <1> QED
    BY <1>1, <1>2, <1>3, <1>5 DEF F

(* A step that concerns neither stores nor programs.                        *)
LEMMA NoNews ==
    ASSUME GossipInv, network' = network, UNCHANGED gossip_vars,
           inbox' \in [Ends -> Seq(Frames(Public))], cmds' \in [Ends -> Seq(Public)]
    PROVE  GossipInv'
  <1>1. store' = store /\ delivered' = delivered /\ known' = known
        /\ receipts' = receipts /\ evictions' = evictions
    BY DEF gossip_vars
  <1>2. Role' = Role
    BY DEF Role, Start
  <1>3. StoreTypes'
    BY <1>1, <1>2 DEF GossipInv, StoreTypes
  <1>4. Public' = Public
    BY <1>1 DEF Public, Stays
  <1>5. NewsInv'
    BY <1>1, <1>4 DEF GossipInv, NewsInv
  <1>6. HandedInv'
    BY <1>1 DEF GossipInv, HandedInv, Stays
  <1> QED
    BY <1>3, <1>5, <1>6 DEF GossipInv

(* The frames of the handshake and of a session.                            *)
LEMMA FrameTypes ==
    ASSUME NEW M
    PROVE  /\ <<>> \in Seq(Frames(M))
           /\ \A what \in FrameNames \ {"PAYLOAD"} : <<Frame(what, <<>>)>> \in Seq(Frames(M))
           /\ \A what \in FrameNames \ {"PAYLOAD"}, ids \in Seq(M) :
                 Frame(what, ids) \in Frames(M) /\ <<Frame(what, ids)>> \in Seq(Frames(M))
           /\ \A m \in M : Frame("PAYLOAD", <<m>>) \in Frames(M)
  <1>1. \A what \in FrameNames \ {"PAYLOAD"}, ids \in Seq(M) : Frame(what, ids) \in Frames(M)
    BY DEF Frame, Frames
  <1>2. ASSUME NEW m \in M PROVE Frame("PAYLOAD", <<m>>) \in Frames(M)
    <2>1. <<m>> \in Seq(M) /\ Len(<<m>>) = 1
      OBVIOUS
    <2> QED
      BY <2>1 DEF Frame, Frames, FrameNames
  <1>3. <<>> \in Seq(M)
    BY EmptySeq
  <1>4. \A f \in Frames(M) : <<f>> \in Seq(Frames(M))
    OBVIOUS
  <1> QED
    BY <1>1, <1>2, <1>3, <1>4, EmptySeq

-----------------------------------------------------------------------------
(* The handshake, and the end of a connection, make no news.                *)
LEMMA HandshakeNews ==
    ASSUME GossipInv, NEW e \in Ends,
           \/ GetHello(e) \/ GetChallenge(e) \/ GetAuth(e) \/ GetAck(e) \/ GetAckForMesh(e)
           \/ GetFirst(e) \/ ServeMesh(e) \/ PeerGone(e) \/ Interrupt(e)
    PROVE  GossipInv'
  <1> DEFINE F == Seq(Frames(Public))
             C == Seq(Public)
  <1>1. network' = network /\ UNCHANGED gossip_vars
    BY DEF GetHello, GetChallenge, GetAuth, GetAck, GetAckForMesh, GetFirst, ServeMesh,
           PeerGone, Interrupt
  <1>2. NewsInv /\ inbox \in [Ends -> F] /\ cmds \in [Ends -> C]
    BY DEF GossipInv, NewsInv
  <1>3. /\ <<>> \in F
        /\ \A what \in FrameNames \ {"PAYLOAD"} : <<Frame(what, <<>>)>> \in F
    BY FrameTypes
  <1>4. <<Frame("REJECT", <<>>)>> \in F /\ <<Frame("CHALLENGE", <<>>)>> \in F
        /\ <<Frame("AUTH", <<>>)>> \in F /\ <<Frame("ACK", <<>>)>> \in F
        /\ <<Frame("MESH", <<>>)>> \in F
    BY <1>3 DEF FrameNames
  <1> HIDE DEF F, C
  <1>5. ASSUME NEW frames \in F, Close(e, frames)
        PROVE  inbox' \in [Ends -> F] /\ cmds' \in [Ends -> C]
    BY <1>2, <1>5, CloseNews DEF F, C
  <1>6. ASSUME NEW frames \in F, Answer(e, frames), inbox[e] # <<>>
        PROVE  inbox' \in [Ends -> F]
    BY <1>2, <1>6, AnswerNews DEF F
  <1>7. inbox' \in [Ends -> F] /\ cmds' \in [Ends -> C]
    <2>1. CASE GetHello(e)
      <3>1. \/ Close(e, <<>>) \/ Close(e, <<Frame("REJECT", <<>>)>>)
            \/ Answer(e, <<Frame("CHALLENGE", <<>>)>>) /\ cmds' = cmds /\ inbox[e] # <<>>
        BY <2>1 DEF GetHello, Reads
      <3> QED
        BY <1>2, <1>3, <1>4, <1>5, <1>6, <3>1
    <2>2. CASE GetChallenge(e)
      <3>1. \/ Close(e, <<>>)
            \/ Answer(e, <<Frame("AUTH", <<>>)>>) /\ cmds' = cmds /\ inbox[e] # <<>>
        BY <2>2 DEF GetChallenge
      <3> QED
        BY <1>2, <1>3, <1>4, <1>5, <1>6, <3>1
    <2>3. CASE GetAuth(e)
      <3>1. Answer(e, <<Frame("ACK", <<>>)>>) /\ cmds' = cmds /\ inbox[e] # <<>>
        BY <2>3 DEF GetAuth, Reads
      <3> QED
        BY <1>2, <1>4, <1>6, <3>1
    <2>4. CASE GetAck(e)
      <3>1. \/ Close(e, <<>>)
            \/ Answer(e, <<>>) /\ cmds' = cmds /\ inbox[e] # <<>>
        BY <2>4 DEF GetAck, Reads
      <3> QED
        BY <1>2, <1>3, <1>5, <1>6, <3>1
    <2>5. CASE GetAckForMesh(e)
      <3>1. Answer(e, <<Frame("MESH", <<>>)>>) /\ cmds' = cmds /\ inbox[e] # <<>>
        BY <2>5 DEF GetAckForMesh, Reads
      <3> QED
        BY <1>2, <1>4, <1>6, <3>1
    <2>6. CASE GetFirst(e)
      <3>1. /\ cmds' = cmds /\ inbox[e] # <<>>
            /\ Answer(e, <<>>) \/ inbox' = inbox
        BY <2>6 DEF GetFirst
      <3> QED
        BY <1>2, <1>3, <1>6, <3>1
    <2>7. CASE ServeMesh(e)
      BY <1>2, <2>7 DEF ServeMesh
    <2>8. CASE PeerGone(e) \/ Interrupt(e)
      <3>1. Close(e, <<>>)
        BY <2>8 DEF PeerGone, Interrupt
      <3> QED
        BY <1>3, <1>5, <3>1
    <2> QED
      BY <2>1, <2>2, <2>3, <2>4, <2>5, <2>6, <2>7, <2>8
  <1> QED
    BY <1>1, <1>7, NoNews DEF F, C

(* An end of a link there is belongs to a node.                             *)
LEMMA NodeOfEnd ==
    ASSUME network \in Networks, NEW e \in Ends, e[1] \in links
    PROVE  NodeOf(e) \in Nodes
  BY PeerNodeAssumption DEF NodeOf, From, To, links

(* What a session says of what it was told, asks for and hands over has     *)
(* been public before.                                                      *)
LEMMA TalkNews ==
    ASSUME GossipInv, NEW e \in Ends, e[1] \in links,
           WriteInv(e) \/ GetInv(e) \/ GetWant(e)
    PROVE  GossipInv'
  <1> DEFINE P == Public
             F == Seq(Frames(P))
  <1>1. network' = network /\ UNCHANGED gossip_vars
    BY DEF WriteInv, GetInv, GetWant
  <1>2. NewsInv /\ inbox \in [Ends -> F] /\ cmds \in [Ends -> Seq(P)] /\ Other(e) \in Ends
    BY EndFacts DEF GossipInv, NewsInv
  <1> HIDE DEF P
  <1>3. /\ <<>> \in F /\ <<>> \in Seq(P)
        /\ \A what \in FrameNames \ {"PAYLOAD"}, ids \in Seq(P) :
              Frame(what, ids) \in Frames(P) /\ <<Frame(what, ids)>> \in F
        /\ \A m \in P : Frame("PAYLOAD", <<m>>) \in Frames(P)
    BY FrameTypes, EmptySeq
  <1>4. "INV" \in FrameNames \ {"PAYLOAD"} /\ "WANT" \in FrameNames \ {"PAYLOAD"}
    BY DEF FrameNames
  <1>5. ASSUME inbox[e] # <<>> PROVE Head(inbox[e]).ids \in Seq(P)
    <2>1. inbox[e] \in F
      BY <1>2
    <2>2. Head(inbox[e]) \in Frames(P)
      BY <1>5, <2>1, HeadTailProperties, EmptySeq
    <2> QED
      BY <2>2 DEF Frames
  <1>6. ASSUME NEW frames \in F, Answer(e, frames), inbox[e] # <<>>
        PROVE  inbox' \in [Ends -> F]
    BY <1>2, <1>6, AnswerNews DEF P
  <1>7. inbox' \in [Ends -> F] /\ cmds' \in [Ends -> Seq(P)]
    <2>1. CASE WriteInv(e)
      <3> DEFINE f == Frame("INV", <<Head(cmds[e])>>)
      <3>1. cmds[e] \in Seq(P) /\ cmds[e] # <<>> /\ cmds' = [cmds EXCEPT ![e] = Tail(cmds[e])]
            /\ \/ inbox' = inbox
               \/ inbox' = [inbox EXCEPT ![Other(e)] = Append(inbox[Other(e)], f)]
        BY <1>2, <2>1 DEF WriteInv
      <3>2. Head(cmds[e]) \in P /\ Tail(cmds[e]) \in Seq(P)
        BY <3>1, MembersTail
      <3>3. <<Head(cmds[e])>> \in Seq(P)
        BY <3>2
      <3>4. f \in Frames(P)
        BY <1>3, <1>4, <3>3
      <3> HIDE DEF f
      <3>5. Append(inbox[Other(e)], f) \in F
        BY <1>2, <3>4, AppendProperties
      <3> HIDE DEF F
      <3> QED
        BY <1>2, <3>1, <3>2, <3>5
    <2>2. CASE GetInv(e)
      <3> DEFINE ids == Head(inbox[e]).ids
                 order == store[NodeOf(e)]
                 missing == Selected(ids, ToSet(ids) \ ToSet(order))
                 want == on_inventory(order, Role[NodeOf(e)], ids)
      <3>1. inbox[e] # <<>> /\ cmds' = cmds
            /\ Answer(e, IF want = <<>> THEN <<>> ELSE <<Frame("WANT", want)>>)
        BY <2>2 DEF GetInv, Reads
      <3>2. ids \in Seq(P)
        BY <1>5, <3>1
      <3> HIDE DEF ids, order
      <3>3. missing \in Seq(P)
        BY <3>2, SelectedIs
      <3>4. want \in Seq(P)
        <4> DEFINE top == IF Len(missing) < max_want[Role[NodeOf(e)]] THEN Len(missing)
                          ELSE max_want[Role[NodeOf(e)]]
        <4>1. want = SubSeq(missing, 1, top)
          BY DEF on_inventory
        <4>2. Len(missing) \in Nat /\ \A k \in 1 .. Len(missing) : missing[k] \in P
          BY <3>3, ElementOfSeq, LenProperties
        <4>3. max_want[Role[NodeOf(e)]] \in Nat
          BY RoleIs, NodeOfEnd, GossipStoreAssumption DEF GossipInv, StoreTypes
        <4> HIDE DEF missing
        <4>4. top \in Nat /\ top <= Len(missing)
          BY <4>2, <4>3
        <4> HIDE DEF top
        <4>5. SubSeq(missing, 1, top) \in Seq(P)
          BY <3>3, <4>2, <4>4, SubSeqProperties
        <4> QED
          BY <4>1, <4>5
      <3> HIDE DEF want
      <3>5. (IF want = <<>> THEN <<>> ELSE <<Frame("WANT", want)>>) \in F
        BY <1>3, <1>4, <3>4
      <3> QED
        BY <1>2, <1>6, <3>1, <3>5
    <2>3. CASE GetWant(e)
      <3> DEFINE ids == Head(inbox[e]).ids
                 held == on_want(store[NodeOf(e)], ids)
                 bodies == [k \in DOMAIN held |-> Frame("PAYLOAD", <<held[k]>>)]
      <3>1. inbox[e] # <<>> /\ cmds' = cmds /\ Answer(e, bodies)
        BY <2>3 DEF GetWant, Reads
      <3>2. ids \in Seq(P)
        BY <1>5, <3>1
      <3> HIDE DEF ids
      <3>3. held \in Seq(P)
        BY <3>2, SelectedIs DEF on_want
      <3> HIDE DEF held
      <3>4. DOMAIN held = 1 .. Len(held) /\ Len(held) \in Nat
            /\ \A k \in 1 .. Len(held) : held[k] \in P
        BY <3>3, ElementOfSeq, LenProperties
      <3>5. bodies \in [1 .. Len(held) -> Frames(P)]
        BY <1>3, <3>4
      <3>6. bodies \in F
        <4> HIDE DEF bodies
        <4> QED BY <3>4, <3>5
      <3> QED
        BY <1>2, <1>6, <3>1, <3>6
    <2> QED
      BY <2>1, <2>2, <2>3
  <1> QED
    BY <1>1, <1>7, NoNews DEF P

(* News is put into the store and handed to the program.                    *)
LEMMA PayloadNews ==
    ASSUME GossipInv, NEW e \in Ends, e[1] \in links, GetPayload(e)
    PROVE  GossipInv'
  <1> DEFINE others == {o \in Ends : \E p \in Nodes \ {PeerOf(e)} :
                            sessions[NodeOf(e)][p] = o}
  <1>0. NodeOf(e) \in Nodes /\ StoreTypes /\ NewsInv /\ HandedInv
    BY NodeOfEnd DEF GossipInv, StoreTypes
  <1>1. inbox[e] # <<>> /\ Head(inbox[e]).what = "PAYLOAD" /\ Answer(e, <<>>)
        /\ network' = network /\ known' = known
    BY DEF GetPayload, Reads
  <1>2. Head(inbox[e]).ids[1] \in Public
    <2>1. inbox[e] \in Seq(Frames(Public))
      BY <1>0 DEF NewsInv
    <2>2. Head(inbox[e]) \in Frames(Public)
      BY <1>1, <2>1, HeadTailProperties, EmptySeq
    <2>3. Head(inbox[e]).ids \in Seq(Public) /\ Len(Head(inbox[e]).ids) = 1
      BY <1>1, <2>2 DEF Frames
    <2> QED
      BY <2>3, ElementOfSeq
  <1> PICK n \in Nodes, m \in Public : n = NodeOf(e) /\ m = Head(inbox[e]).ids[1]
    BY <1>0, <1>2
  <1>3. inbox' \in [Ends -> Seq(Frames(Public))]
    BY <1>0, <1>1, FrameTypes, AnswerNews
  <1>4. CASE ~on_payload(store[n], m)
    <2>1. UNCHANGED gossip_vars /\ cmds' = cmds
      BY <1>1, <1>4 DEF GetPayload, gossip_vars
    <2> QED
      BY <1>0, <1>1, <1>3, <2>1, NoNews DEF NewsInv
  <1>5. CASE on_payload(store[n], m)
    <2> USE <1>0
    <2>1. /\ Keep(n, m)
          /\ delivered' = [delivered EXCEPT ![n] = Append(delivered[n], m)]
          /\ receipts' = [receipts EXCEPT ![n][m] = receipts[n][m] + 1]
          /\ cmds' = [o \in Ends |-> IF o \in others THEN Append(cmds[o], m) ELSE cmds[o]]
      BY <1>5 DEF GetPayload
    <2>2. m \in Message /\ (m \in Fresh[n] => receipts[n][m] < Stays(n, m))
      BY DEF Public
    <2>3. m \notin ToSet(store[n])
      <3>1. DOMAIN store[n] = 1 .. Len(store[n])
        BY LenProperties DEF StoreTypes, Listings
      <3> QED
        BY <1>5, <3>1 DEF on_payload, Holds, Contains, ToSet
    <2> HIDE DEF others
    <2>4. /\ evictions' \in [Nodes -> [Message -> Nat]]
          /\ store' = [p \in Nodes |-> store'[p]]
          /\ \A p \in Nodes : store'[p] \in Listings(Role[p], Message)
          /\ \A p \in Nodes : \A x \in Message :
                /\ evictions[p][x] <= evictions'[p][x]
                /\ Stays(p, x) <= Stays(p, x)'
                /\ x \in ToSet(store'[p]) => x \in ToSet(store[p]) \/ (p = n /\ x = m)
          /\ m \in ToSet(store'[n])
          /\ Stays(n, m)' = Stays(n, m) + 1
      <3>1. IsKept(n, m)
        BY <2>1, <2>2, KeepStep
      <3> QED
        BY <2>3, <3>1 DEF IsKept, MayKeep
    <2>5. /\ receipts' \in [Nodes -> [Message -> Nat]]
          /\ \A p \in Nodes : \A x \in Message :
                receipts'[p][x] = IF p = n /\ x = m THEN receipts[p][x] + 1
                                  ELSE receipts[p][x]
      BY <2>1, <2>2 DEF StoreTypes
    <2>6. \A p \in Nodes : \A x \in Message :
              /\ receipts[p][x] \in Nat /\ evictions[p][x] \in Nat
              /\ Stays(p, x) \in Nat /\ Stays(p, x)' \in Nat
              /\ evictions'[p][x] \in Nat
      BY <2>4 DEF StoreTypes, Stays
    <2>7. Stays(n, m) = evictions[n][m]
      BY <2>2, <2>3, <2>6 DEF Stays
    <2>8. StoreTypes'
      <3>1. Role' = Role
        BY <1>1 DEF Role, Start
      <3> QED
        BY <1>1, <2>4, <2>5, <3>1 DEF StoreTypes
    <2>9. ASSUME NEW p \in Nodes, NEW x \in Message, receipts[p][x] < Stays(p, x)
          PROVE  receipts'[p][x] < Stays(p, x)'
      <3>1. CASE p = n /\ x = m
        <4>1. receipts'[n][m] = receipts[n][m] + 1
          BY <2>2, <2>5
        <4>2. receipts[n][m] < Stays(n, m)
          BY <2>9, <3>1
        <4>3. receipts'[n][m] < Stays(n, m)'
          BY <2>2, <2>4, <2>6, <4>1, <4>2
        <4> QED
          BY <3>1, <4>3
      <3>2. CASE ~(p = n /\ x = m)
        <4>1. receipts'[p][x] = receipts[p][x] /\ Stays(p, x) <= Stays(p, x)'
          BY <2>4, <2>5, <3>2
        <4> QED
          BY <2>6, <2>9, <4>1
      <3> QED
        BY <3>1, <3>2
    <2>10. Public \subseteq Public'
      BY <1>1, <2>9, PublicGrows
    <2>11. NewsInv'
      <3>1. /\ cmds \in [Ends -> Seq(Public)] /\ delivered \in [Nodes -> Seq(Public)]
        BY DEF NewsInv
      <3>2. \A o \in Ends : Append(cmds[o], m) \in Seq(Public)
        BY <1>2, <3>1, AppendProperties
      <3>3. cmds' \in [Ends -> Seq(Public)]
        BY <2>1, <3>1, <3>2
      <3>4. Append(delivered[n], m) \in Seq(Public)
        BY <1>2, <3>1, AppendProperties
      <3>5. delivered' \in [Nodes -> Seq(Public)]
        BY <2>1, <3>1, <3>4
      <3>6. Seq(Public) \subseteq Seq(Public') /\ Seq(Frames(Public)) \subseteq Seq(Frames(Public'))
        BY <2>10, SeqOfMore, FramesOfMore
      <3>7. /\ cmds' \in [Ends -> Seq(Public')] /\ delivered' \in [Nodes -> Seq(Public')]
            /\ inbox' \in [Ends -> Seq(Frames(Public'))]
        BY <1>3, <3>3, <3>5, <3>6
      <3> QED
        BY <3>7 DEF NewsInv, Frames
    <2>12. HandedInv'
      <3> SUFFICES ASSUME NEW p \in Nodes, NEW x \in Message
                   PROVE  /\ receipts'[p][x] <= Stays(p, x)'
                          /\ x \in Fresh[p] => receipts'[p][x] <= evictions'[p][x]
                          /\ x \in ToSet(store'[p]) => x \in known'[p] \cup ToSet(delivered'[p])
        BY DEF HandedInv
      <3>1. /\ receipts[p][x] <= Stays(p, x)
            /\ x \in Fresh[p] => receipts[p][x] <= evictions[p][x]
            /\ x \in ToSet(store[p]) => x \in known[p] \cup ToSet(delivered[p])
        BY DEF HandedInv
      <3>2. ToSet(delivered'[p]) = IF p = n THEN ToSet(delivered[p]) \cup {m}
                                   ELSE ToSet(delivered[p])
        <4>1. delivered[n] \in Seq(Public) /\ m \in Public
          BY <1>2 DEF NewsInv
        <4>2. ToSet(Append(delivered[n], m)) = ToSet(delivered[n]) \cup {m}
          BY <4>1, MembersAppend
        <4>3. delivered'[p] = IF p = n THEN Append(delivered[n], m) ELSE delivered[p]
          BY <2>1 DEF NewsInv
        <4> QED
          BY <4>2, <4>3
      <3>3. x \in ToSet(store'[p]) => x \in known'[p] \cup ToSet(delivered'[p])
        BY <1>1, <2>4, <3>1, <3>2
      <3>4. CASE p = n /\ x = m
        <4>1. receipts'[n][m] = receipts[n][m] + 1
          BY <2>2, <2>5
        <4>2. receipts[n][m] <= Stays(n, m) /\ evictions[n][m] <= evictions'[n][m]
          BY <2>2, <2>4 DEF HandedInv
        <4>3. receipts'[n][m] <= Stays(n, m)'
          BY <2>2, <2>4, <2>6, <4>1, <4>2
        <4>4. m \in Fresh[n] => receipts'[n][m] <= evictions'[n][m]
          BY <2>2, <2>4, <2>6, <2>7, <4>1, <4>2
        <4> QED
          BY <3>3, <3>4, <4>3, <4>4
      <3>5. CASE ~(p = n /\ x = m)
        <4>1. /\ receipts'[p][x] = receipts[p][x] /\ Stays(p, x) <= Stays(p, x)'
              /\ evictions[p][x] <= evictions'[p][x]
          BY <2>4, <2>5, <3>5
        <4> QED
          BY <2>6, <3>1, <3>3, <4>1
      <3> QED
        BY <3>4, <3>5
    <2> QED
      BY <2>8, <2>11, <2>12 DEF GossipInv
  <1> QED
    BY <1>4, <1>5

(* A node that takes in what is public from now on, and tells of it.        *)
LEMMA BroadcastNews ==
    ASSUME GossipInv, NEW n \in Nodes, NEW m \in Message,
           network' = network, receipts' = receipts, inbox' = inbox,
           known' = [known EXCEPT ![n] = known[n] \cup {m}],
           MayKeep(n, m), m \in Public',
           cmds' \in [Ends -> Seq(Public \cup {m})],
           delivered' \in [Nodes -> Seq(Public)],
           \A p \in Nodes : ToSet(delivered[p]) \subseteq ToSet(delivered'[p]) \cup known'[p]
    PROVE  GossipInv'
  <1>1. StoreTypes /\ NewsInv /\ HandedInv
    BY DEF GossipInv
  <1>2. \A p \in Nodes : \A x \in Message :
           /\ receipts[p][x] \in Nat /\ evictions[p][x] \in Nat /\ evictions'[p][x] \in Nat
           /\ Stays(p, x) \in Nat /\ Stays(p, x)' \in Nat
           /\ evictions[p][x] <= evictions'[p][x]
           /\ Stays(p, x) <= Stays(p, x)'
           /\ x \in ToSet(store'[p]) => x \in ToSet(store[p]) \/ (p = n /\ x = m)
    BY <1>1 DEF StoreTypes, Stays, MayKeep
  <1>3. known' \in [Nodes -> SUBSET Message] /\ m \in known'[n]
        /\ \A p \in Nodes : known[p] \subseteq known'[p]
    BY <1>1 DEF StoreTypes
  <1>4. StoreTypes'
    <2>1. Role' = Role
      BY DEF Role, Start
    <2> QED
      BY <1>1, <1>3, <2>1 DEF StoreTypes, MayKeep
  <1>5. Public \subseteq Public'
    <2>1. \A p \in Nodes : \A x \in Message :
              receipts[p][x] < Stays(p, x) => receipts'[p][x] < Stays(p, x)'
      BY <1>2
    <2> QED
      BY <1>1, <1>3, <2>1, PublicGrows
  <1>6. NewsInv'
    <2>1. Public \cup {m} \subseteq Public'
      BY <1>5
    <2>2. /\ Seq(Public) \subseteq Seq(Public') /\ Seq(Public \cup {m}) \subseteq Seq(Public')
          /\ Seq(Frames(Public)) \subseteq Seq(Frames(Public'))
      BY <1>5, <2>1, SeqOfMore, FramesOfMore
    <2>3. /\ cmds' \in [Ends -> Seq(Public')] /\ delivered' \in [Nodes -> Seq(Public')]
          /\ inbox' \in [Ends -> Seq(Frames(Public'))]
      BY <1>1, <2>2 DEF NewsInv
    <2> QED
      BY <2>3 DEF NewsInv, Frames
  <1>7. HandedInv'
    <2> SUFFICES ASSUME NEW p \in Nodes, NEW x \in Message
                 PROVE  /\ receipts'[p][x] <= Stays(p, x)'
                        /\ x \in Fresh[p] => receipts'[p][x] <= evictions'[p][x]
                        /\ x \in ToSet(store'[p]) => x \in known'[p] \cup ToSet(delivered'[p])
      BY DEF HandedInv
    <2>1. /\ receipts[p][x] <= Stays(p, x)
          /\ x \in Fresh[p] => receipts[p][x] <= evictions[p][x]
          /\ x \in ToSet(store[p]) => x \in known[p] \cup ToSet(delivered[p])
      BY <1>1 DEF HandedInv
    <2>2. x \in ToSet(store'[p]) => x \in known'[p] \cup ToSet(delivered'[p])
      BY <1>2, <1>3, <2>1
    <2> QED
      BY <1>2, <2>1, <2>2
  <1> QED
    BY <1>4, <1>6, <1>7 DEF GossipInv

(* The announcements of one vertex.                                         *)
LEMMA AnnouncedNews ==
    ASSUME NewsInv, NEW n \in Nodes, NEW m \in Message
    PROVE  Announcing(n, cmds, <<m>>) \in [Ends -> Seq(Public \cup {m})]
  <1> DEFINE P == Public \cup {m}
  <1>1. \A o \in Ends : cmds[o] \in Seq(P)
    BY SeqOfMore DEF NewsInv
  <1>2. <<m>> \in Seq(P)
    OBVIOUS
  <1> HIDE DEF P
  <1>3. \A o \in Ends : cmds[o] \o <<m>> \in Seq(P)
    BY <1>1, <1>2, ConcatProperties
  <1>4. PICK targets : Announcing(n, cmds, <<m>>) =
            [o \in Ends |-> IF o \in targets THEN cmds[o] \o <<m>> ELSE cmds[o]]
    BY DEF Announcing
  <1>5. Announcing(n, cmds, <<m>>) \in [Ends -> Seq(P)]
    BY <1>1, <1>3, <1>4
  <1> QED
    BY <1>5 DEF P

(* The program takes what it was handed, and tells of it.                   *)
LEMMA TakeNews ==
    ASSUME GossipInv, NEW n \in Nodes, take_delivered(n)
    PROVE  GossipInv'
  <1>1. StoreTypes /\ NewsInv /\ delivered[n] \in Seq(Public) /\ delivered[n] # <<>>
    BY DEF GossipInv, NewsInv, take_delivered
  <1>2. Head(delivered[n]) \in Public /\ Tail(delivered[n]) \in Seq(Public)
        /\ ToSet(delivered[n]) = {Head(delivered[n])} \cup ToSet(Tail(delivered[n]))
    BY <1>1, MembersTail
  <1> PICK m \in Public : m = Head(delivered[n])
    BY <1>2
  <1>3. /\ delivered' = [delivered EXCEPT ![n] = Tail(delivered[n])]
        /\ known' = [known EXCEPT ![n] = known[n] \cup {m}]
        /\ network' = network /\ receipts' = receipts /\ inbox' = inbox
        /\ \/ Keep(n, m) /\ cmds' = Announcing(n, cmds, <<m>>)
           \/ store' = store /\ evictions' = evictions /\ cmds' = cmds
    BY DEF take_delivered, broadcast, conn_vars
  <1>4. m \in Message
    BY DEF Public
  <1>5. MayKeep(n, m)
    <2>1. CASE Keep(n, m)
      BY <1>1, <1>4, <2>1, KeepStep DEF IsKept
    <2>2. CASE store' = store /\ evictions' = evictions
      BY <1>1, <2>2 DEF MayKeep, StoreTypes, Stays
    <2> QED
      BY <1>3, <2>1, <2>2
  <1>6. cmds' \in [Ends -> Seq(Public \cup {m})]
    <2>1. Seq(Public) \subseteq Seq(Public \cup {m})
      BY SeqOfMore
    <2> QED
      BY <1>1, <1>3, <1>4, <2>1, AnnouncedNews DEF NewsInv
  <1>7. delivered' \in [Nodes -> Seq(Public)]
    BY <1>1, <1>2, <1>3 DEF NewsInv
  <1>8. \A p \in Nodes : ToSet(delivered[p]) \subseteq ToSet(delivered'[p]) \cup known'[p]
    <2>1. known'[n] = known[n] \cup {m} /\ delivered'[n] = Tail(delivered[n])
          /\ \A p \in Nodes : p # n => delivered'[p] = delivered[p]
      BY <1>1, <1>3 DEF StoreTypes, NewsInv
    <2> TAKE p \in Nodes
    <2>2. CASE p = n
      BY <1>2, <2>1, <2>2
    <2>3. CASE p # n
      BY <2>1, <2>3
    <2> QED
      BY <2>2, <2>3
  <1>9. m \in Public'
    <2>1. \A p \in Nodes : \A x \in Message :
              receipts[p][x] < Stays(p, x) => receipts'[p][x] < Stays(p, x)'
      <3> TAKE p \in Nodes
      <3> TAKE x \in Message
      <3>1. Stays(p, x) <= Stays(p, x)' /\ receipts[p][x] \in Nat /\ evictions[p][x] \in Nat
            /\ evictions'[p][x] \in Nat
        BY <1>1, <1>5 DEF MayKeep, StoreTypes
      <3>2. Stays(p, x) \in Nat /\ Stays(p, x)' \in Nat
        BY <3>1 DEF Stays
      <3> QED
        BY <1>3, <3>1, <3>2
    <2>2. \A p \in Nodes : known[p] \subseteq known'[p]
      BY <1>1, <1>3 DEF StoreTypes
    <2> QED
      BY <1>1, <2>1, <2>2, PublicGrows
  <1> QED
    BY <1>3, <1>4, <1>5, <1>6, <1>7, <1>8, <1>9, BroadcastNews

(* The program makes a vertex, and tells of it.                             *)
LEMMA ComposeNews ==
    ASSUME GossipInv, NEW n \in Nodes, NEW m \in Message, Compose(n, m)
    PROVE  GossipInv'
  <1>1. StoreTypes /\ NewsInv /\ HandedInv
    BY DEF GossipInv
  <1>2. /\ delivered' = delivered /\ network' = network /\ receipts' = receipts
        /\ inbox' = inbox /\ known' = [known EXCEPT ![n] = known[n] \cup {m}]
        /\ Keep(n, m) /\ cmds' = Announcing(n, cmds, <<m>>) /\ m \in Fresh[n]
    BY DEF Compose, broadcast, conn_vars
  <1>3. IsKept(n, m)
    BY <1>1, <1>2, KeepStep
  <1>4. cmds' \in [Ends -> Seq(Public \cup {m})]
    BY <1>1, <1>2, AnnouncedNews
  <1>5. m \in Public'
    <2>1. \A p \in Nodes : m \in Fresh[p] => p = n
      BY <1>2, PeerNodeVertices
    <2>2. m \in known'[n]
      BY <1>1, <1>2 DEF StoreTypes
    <2>3. receipts[n][m] <= evictions[n][m] /\ evictions[n][m] <= evictions'[n][m]
          /\ m \in ToSet(store'[n])
      BY <1>1, <1>2, <1>3 DEF HandedInv, IsKept, MayKeep
    <2>4. receipts[n][m] \in Nat /\ evictions[n][m] \in Nat /\ evictions'[n][m] \in Nat
      BY <1>1, <1>3 DEF StoreTypes, IsKept, MayKeep
    <2>5. receipts'[n][m] < Stays(n, m)'
      BY <1>2, <2>3, <2>4 DEF Stays
    <2>6. ASSUME NEW p \in Nodes, m \in Fresh[p]
          PROVE  m \in known'[p] /\ receipts'[p][m] < Stays(p, m)'
      BY <2>1, <2>2, <2>5, <2>6
    <2> QED
      BY <2>6 DEF Public
  <1>6. delivered' \in [Nodes -> Seq(Public)]
        /\ \A p \in Nodes : ToSet(delivered[p]) \subseteq ToSet(delivered'[p]) \cup known'[p]
    BY <1>1, <1>2 DEF NewsInv
  <1> QED
    BY <1>2, <1>3, <1>4, <1>5, <1>6, BroadcastNews DEF IsKept

(* Threads that start and links that dial make no news.                     *)
LEMMA LinkNews ==
    ASSUME GossipInv, NEW l \in Links,
           HearBeacon(l) \/ StartLink(l) \/ connect(l)
    PROVE  GossipInv'
  <1>1. network' = network /\ UNCHANGED gossip_vars /\ cmds' = cmds
    BY DEF HearBeacon, StartLink, connect
  <1>2. NewsInv
    BY DEF GossipInv
  <1>3. inbox' \in [Ends -> Seq(Frames(Public))]
    <2>1. \/ inbox' = inbox
          \/ \E o : inbox' = [inbox EXCEPT ![o] = <<Frame("HELLO", <<>>)>>]
      BY DEF HearBeacon, StartLink, connect, conn_vars
    <2>2. <<Frame("HELLO", <<>>)>> \in Seq(Frames(Public))
      BY FrameTypes DEF FrameNames
    <2> QED
      BY <1>2, <2>1, <2>2 DEF NewsInv
  <1> QED
    BY <1>1, <1>2, <1>3, NoNews DEF NewsInv

-----------------------------------------------------------------------------
(* Nothing is on its way, and a store lists what its program restored.      *)
LEMMA GossipInit == Init => GossipInv
  <1> SUFFICES ASSUME Init PROVE GossipInv
    OBVIOUS
  <1>1. /\ network \in Networks
        /\ inbox = [e \in Ends |-> <<>>] /\ cmds = [e \in Ends |-> <<>>]
        /\ store = [n \in Nodes |-> RestoredStore(n)]
        /\ delivered = [n \in Nodes |-> <<>>]
        /\ known = [n \in Nodes |-> ToSet(Start(n).restored)]
        /\ receipts = [n \in Nodes |-> [m \in Message |-> 0]]
        /\ evictions = [n \in Nodes |-> [m \in Message |-> 0]]
    BY DEF Init
  <1>2. \A n \in Nodes : /\ Start(n).restored \in Seq(Message)
                         /\ ToSet(Start(n).restored) \subseteq Message
    <2>1. \A n \in Nodes : Start(n).restored \in Seq(Message)
      BY <1>1, PeerNodeVertices DEF Start
    <2> QED
      BY <2>1, ElementOfSeq, LenProperties DEF ToSet
  <1>3. ASSUME NEW n \in Nodes
        PROVE  /\ store[n] \in Listings(Role[n], Message)
               /\ ToSet(store[n]) \subseteq ToSet(Start(n).restored)
    <2>1. CASE store[n] = StoreAll(Role[n], Start(n).restored)
      BY <1>2, <2>1, RoleIs, StoreAllIs
    <2>2. CASE store[n] = <<>>
      <3>1. /\ <<>> \in Seq(Message) /\ Len(<<>>) = 0 /\ DOMAIN <<>> = {}
            /\ max_store[Role[n]] \in Nat
        BY EmptySeq, RoleIs, GossipStoreAssumption
      <3> QED
        BY <2>2, <3>1 DEF Listings, IsInjective, ToSet
    <2> QED
      BY <1>1, <2>1, <2>2 DEF RestoredStore
  <1>4. StoreTypes
    <2>1. known \in [Nodes -> SUBSET Message]
      BY <1>1, <1>2
    <2>2. /\ receipts \in [Nodes -> [Message -> Nat]] /\ evictions \in [Nodes -> [Message -> Nat]]
          /\ store = [n \in Nodes |-> store[n]]
      BY <1>1
    <2> QED
      BY <1>1, <1>3, <2>1, <2>2 DEF StoreTypes
  <1>5. NewsInv
    BY <1>1, EmptySeq DEF NewsInv
  <1>6. HandedInv
    BY <1>1, <1>3 DEF HandedInv, Stays
  <1> QED
    BY <1>4, <1>5, <1>6 DEF GossipInv

(* Every step keeps the invariant.                                          *)
LEMMA GossipStep == GossipInv /\ [Next]_vars => GossipInv'
  <1> SUFFICES ASSUME GossipInv, [Next]_vars PROVE GossipInv'
    OBVIOUS
  <1> USE DEF vars
  <1>0. inbox \in [Ends -> Seq(Frames(Public))] /\ cmds \in [Ends -> Seq(Public)]
    BY DEF GossipInv, NewsInv
  <1>1. CASE UNCHANGED vars
    BY <1>0, <1>1, NoNews DEF conn_vars
  <1>2. ASSUME NEW n \in Nodes, attach_graph(n) PROVE GossipInv'
    BY <1>0, <1>2, NoNews DEF attach_graph, conn_vars
  <1>3. ASSUME NEW l \in links, HearBeacon(l) \/ StartLink(l) \/ connect(l)
        PROVE  GossipInv'
    <2>1. l \in Links
      BY PeerNodeAssumption DEF links, GossipInv, StoreTypes
    <2> QED
      BY <1>3, <2>1, LinkNews
  <1>4. ASSUME NEW e \in Ends, e[1] \in links,
               \/ GetHello(e) \/ GetChallenge(e) \/ GetAuth(e)
               \/ GetAck(e) \/ GetAckForMesh(e) \/ ServeMesh(e)
               \/ Session(e) \/ PeerGone(e) \/ Interrupt(e)
        PROVE  GossipInv'
    <2>1. CASE WriteInv(e) \/ GetInv(e) \/ GetWant(e)
      BY <1>4, <2>1, TalkNews
    <2>2. CASE GetPayload(e)
      BY <1>4, <2>2, PayloadNews
    <2>3. CASE \/ GetHello(e) \/ GetChallenge(e) \/ GetAuth(e) \/ GetAck(e) \/ GetAckForMesh(e)
               \/ GetFirst(e) \/ ServeMesh(e) \/ PeerGone(e) \/ Interrupt(e)
      BY <2>3, HandshakeNews
    <2> QED
      BY <1>4, <2>1, <2>2, <2>3 DEF Session
  <1> QED
    BY <1>1, <1>2, <1>3, <1>4, TakeNews, ComposeNews DEF Next

(* The invariant is about the property of the runs.                         *)
LEMMA GossipShows == GossipInv => HandedOverOncePerStay
  <1> SUFFICES ASSUME GossipInv, NEW n \in Nodes, NEW m \in Message
               PROVE  /\ receipts[n][m] <= evictions[n][m] + 1
                      /\ m \in Fresh[n] \cap known[n] => receipts[n][m] <= evictions[n][m]
                      /\ m \in ToSet(store[n]) => m \in known[n] \cup ToSet(delivered[n])
    BY DEF HandedOverOncePerStay
  <1> QED
    BY DEF GossipInv, StoreTypes, HandedInv, Stays

(* gossip.rs, node.rs: over any number of sessions, connections, restarts   *)
(* of a session and replies that cross, the program of a node is handed a   *)
(* vertex again only if its store had dropped it, never one it made and     *)
(* still keeps, and its store offers only what the program has or gets.     *)
THEOREM HandedTheorem == Spec => []HandedOverOncePerStay
  <1>1. Spec => []GossipInv
    BY GossipInit, GossipStep, PTL DEF Spec
  <1> QED
    BY <1>1, GossipShows, PTL

-----------------------------------------------------------------------------
LinkInv ==
    /\ network \in Networks /\ attached \subseteq Nodes
    /\ next \in [Links -> {"nothing", "gossip", "mesh"}]
    /\ announced \in [Links -> BOOLEAN]
    /\ dials \in [Links -> Nat] /\ \A l \in Links : dials[l] <= MaxDials[l]
    /\ seen \in [Nodes -> SUBSET Nodes]
    /\ kind \in [Conns -> {"none", "gossip", "mesh"}]

(* What a link knows and does next is of its type after every dial.         *)
LEMMA DialTypes ==
    ASSUME LinkInv, NEW l, NEW what, NEW ok \in BOOLEAN, DialEnds(l, what, ok)
    PROVE  /\ next' \in [Links -> {"nothing", "gossip", "mesh"}]
           /\ announced' \in [Links -> BOOLEAN]
  <1>1. AfterDial(l, what, ok) \in {"nothing", "gossip", "mesh"}
    BY DEF AfterDial
  <1>2. next' = [next EXCEPT ![l] = AfterDial(l, what, ok)]
        /\ announced' = [announced EXCEPT ![l] =
                             IF How(l) = "hub" /\ what = "mesh" THEN ok ELSE announced[l]]
    BY DEF DialEnds
  <1>3. next \in [Links -> {"nothing", "gossip", "mesh"}] /\ announced \in [Links -> BOOLEAN]
    BY DEF LinkInv
  <1>4. \A f : f \in [Links -> BOOLEAN] =>
            [f EXCEPT ![l] = IF How(l) = "hub" /\ what = "mesh" THEN ok ELSE f[l]]
                \in [Links -> BOOLEAN]
    <2> TAKE f
    <2> HAVE f \in [Links -> BOOLEAN]
    <2>1. CASE How(l) = "hub" /\ what = "mesh"
      <3>1. [f EXCEPT ![l] = ok] \in [Links -> BOOLEAN]
        OBVIOUS
      <3> QED
        BY <2>1, <3>1
    <2>2. CASE ~(How(l) = "hub" /\ what = "mesh")
      <3>1. [f EXCEPT ![l] = f[l]] \in [Links -> BOOLEAN]
        OBVIOUS
      <3> QED
        BY <2>2, <3>1
    <2> QED
      BY <2>1, <2>2
  <1> QED
    BY <1>1, <1>2, <1>3, <1>4

(* A step of an end changes no more of its link than this.                  *)
LEMMA EndLinks ==
    ASSUME NEW e \in Ends,
           \/ GetHello(e) \/ GetChallenge(e) \/ GetAuth(e)
           \/ GetAck(e) \/ GetAckForMesh(e) \/ ServeMesh(e)
           \/ Session(e) \/ PeerGone(e) \/ Interrupt(e)
    PROVE  /\ network' = network /\ attached' = attached /\ dials' = dials
           /\ seen' = seen /\ kind' = kind
           /\ \/ next' = next /\ announced' = announced
              \/ \E l, what : \E ok \in BOOLEAN : DialEnds(l, what, ok)
  <1>1. \A frames : Close(e, frames) =>
            \/ next' = next /\ announced' = announced
            \/ \E l, what : \E ok \in BOOLEAN : DialEnds(l, what, ok)
    BY DEF Close
  <1>2. /\ network' = network /\ attached' = attached /\ dials' = dials
        /\ seen' = seen /\ kind' = kind
    BY DEF GetHello, GetChallenge, GetAuth, GetAck, GetAckForMesh, ServeMesh, Session,
           GetFirst, WriteInv, GetInv, GetWant, GetPayload, PeerGone, Interrupt, link_vars
  <1>3. CASE \/ GetAuth(e) \/ GetAckForMesh(e) \/ Session(e)
    BY <1>2, <1>3 DEF GetAuth, GetAckForMesh, Session, GetFirst, WriteInv, GetInv, GetWant,
                      GetPayload, link_vars
  <1>4. CASE ServeMesh(e)
    BY <1>2, <1>4 DEF ServeMesh
  <1>5. CASE GetAck(e)
    BY <1>1, <1>2, <1>5 DEF GetAck
  <1>6. CASE \/ GetHello(e) \/ GetChallenge(e) \/ PeerGone(e) \/ Interrupt(e)
    BY <1>1, <1>2, <1>6 DEF GetHello, GetChallenge, PeerGone, Interrupt
  <1> QED
    BY <1>3, <1>4, <1>5, <1>6

(* The state of links keeps its type.                                       *)
LEMMA LinkStep == LinkInv /\ [Next]_vars => LinkInv'
  <1> SUFFICES ASSUME LinkInv, [Next]_vars PROVE LinkInv'
    OBVIOUS
  <1>1. CASE UNCHANGED vars
    BY <1>1 DEF vars, link_vars, conn_vars, LinkInv
  <1>2. ASSUME NEW n \in Nodes,
               attach_graph(n) \/ take_delivered(n) \/ \E m \in Message : Compose(n, m)
        PROVE  LinkInv'
    BY <1>2 DEF attach_graph, take_delivered, Compose, link_vars, conn_vars, LinkInv
  <1>3. ASSUME NEW l \in links, HearBeacon(l) PROVE LinkInv'
    <2>1. l \in Links /\ To(l) \in Nodes
      BY PeerNodeAssumption DEF links, LinkInv, To
    <2> QED
      BY <1>3, <2>1 DEF HearBeacon, conn_vars, LinkInv
  <1>4. ASSUME NEW l \in links, StartLink(l) PROVE LinkInv'
    BY <1>4 DEF StartLink, conn_vars, LinkInv
  <1>5. ASSUME NEW l \in links, connect(l) PROVE LinkInv'
    <2>1. l \in Links /\ network.links[l].dials <= MaxDials[l]
          /\ network.links[l].dials \in Nat /\ MaxDials[l] \in Nat /\ dials[l] \in Nat
      BY PeerNodeAssumption DEF links, LinkInv
    <2>2. /\ dials' = [dials EXCEPT ![l] = dials[l] + 1]
          /\ dials[l] < network.links[l].dials /\ next[l] # "nothing"
          /\ kind' = [kind EXCEPT ![<<l, dials[l] + 1>>] = next[l]]
          /\ network' = network /\ attached' = attached /\ seen' = seen
          /\ \/ next' = next /\ announced' = announced
             \/ DialEnds(l, next[l], FALSE)
      BY <1>5 DEF connect
    <2>3. dials' \in [Links -> Nat] /\ \A k \in Links : dials'[k] <= MaxDials[k]
      BY <2>1, <2>2 DEF LinkInv
    <2>4. kind' \in [Conns -> {"none", "gossip", "mesh"}]
      <3>1. next[l] \in {"gossip", "mesh"}
        BY <2>1, <2>2 DEF LinkInv
      <3> QED
        BY <2>2, <3>1 DEF LinkInv
    <2>5. /\ next' \in [Links -> {"nothing", "gossip", "mesh"}]
          /\ announced' \in [Links -> BOOLEAN]
      BY <2>2, DialTypes DEF LinkInv
    <2> QED
      BY <2>2, <2>3, <2>4, <2>5 DEF LinkInv
  <1>6. ASSUME NEW e \in Ends,
               \/ GetHello(e) \/ GetChallenge(e) \/ GetAuth(e)
               \/ GetAck(e) \/ GetAckForMesh(e) \/ ServeMesh(e)
               \/ Session(e) \/ PeerGone(e) \/ Interrupt(e)
        PROVE  LinkInv'
    <2>1. /\ network' = network /\ attached' = attached /\ dials' = dials
          /\ seen' = seen /\ kind' = kind
          /\ \/ next' = next /\ announced' = announced
             \/ \E l, what : \E ok \in BOOLEAN : DialEnds(l, what, ok)
      BY <1>6, EndLinks
    <2>2. /\ next' \in [Links -> {"nothing", "gossip", "mesh"}]
          /\ announced' \in [Links -> BOOLEAN]
      BY <2>1, DialTypes DEF LinkInv
    <2> QED
      BY <2>1, <2>2 DEF LinkInv
  <1> QED
    BY <1>1, <1>2, <1>3, <1>4, <1>5, <1>6 DEF Next

(* node.rs: the counters, tables and queues of every thread keep their      *)
(* bounds and types: no dial beyond a link's share, no thread in a phase of *)
(* the other side, no store above its limit.                                *)
THEOREM TypeTheorem == Spec => []TypeOK
  <1>1. Init => LinkInv
    BY PeerNodeAssumption DEF Init, LinkInv
  <1>2. TalkInv /\ GossipInv /\ LinkInv => TypeOK
    <2> SUFFICES ASSUME TalkInv, GossipInv, LinkInv PROVE TypeOK
      OBVIOUS
    <2>1. ASSUME NEW e \in Ends
          PROVE  pc[e] \in IF Calls(e)
                           THEN {"off", "challenge", "ack", "mesh", "open", "done"}
                           ELSE {"off", "hello", "auth", "first", "graph", "open", "done"}
      <3>1. JointAt(e, pc[e], inbox[e], inbox[Other(e)])
        BY JointHere DEF TalkInv
      <3> QED
        BY <3>1 DEF JointAt, Joint, Opening, Proven
    <2>2. ASSUME NEW e \in Ends PROVE ToSet(cmds[e]) \subseteq Message
      <3>1. cmds[e] \in Seq(Public)
        BY DEF GossipInv, NewsInv
      <3> QED
        BY <3>1, ElementOfSeq, LenProperties DEF ToSet, Public
    <2>3. sessions \in [Nodes -> [Nodes -> Ends \cup {None}]]
      <3>1. sessions = [n \in Nodes |-> [p \in Nodes |-> sessions[n][p]]]
        BY DEF TalkInv, TalkTypes
      <3>2. \A n, p \in Nodes : sessions[n][p] \in Ends \cup {None}
        BY DEF TalkInv, SenderInv
      <3> QED
        BY <3>1, <3>2
    <2>4. ASSUME NEW n \in Nodes
          PROVE  /\ Len(store[n]) <= max_store[Role[n]] /\ IsInjective(store[n])
                 /\ ToSet(delivered[n]) \subseteq Message /\ known[n] \subseteq Message
      <3>1. delivered[n] \in Seq(Public)
        BY DEF GossipInv, NewsInv
      <3>2. ToSet(delivered[n]) \subseteq Message
        BY <3>1, ElementOfSeq, LenProperties DEF ToSet, Public
      <3> QED
        BY <3>2 DEF GossipInv, StoreTypes, Listings
    <2>5. \A l \in Links : dials[l] \in 0 .. MaxDials[l]
      BY PeerNodeAssumption DEF LinkInv
    <2> QED
      BY <2>1, <2>2, <2>3, <2>4, <2>5 DEF TypeOK, LinkInv, GossipInv, StoreTypes
  <1>3. Spec => [](TalkInv /\ GossipInv /\ LinkInv)
    BY <1>1, TalkInit, TalkStep, GossipInit, GossipStep, LinkStep, PTL DEF Spec
  <1> QED
    BY <1>2, <1>3, PTL

-----------------------------------------------------------------------------
(* r are members of the first n lists of ss, each from a place of its own.  *)
IsJoin(ss, n, r) ==
    \E g \in [1 .. Len(r) -> (1 .. n) \X Nat] :
        /\ IsInjective(g)
        /\ \A k \in 1 .. Len(r) : /\ g[k][2] \in 1 .. Len(ss[g[k][1]])
                                  /\ r[k] = ss[g[k][1]][g[k][2]]

(* One more list is joined to the others.                                   *)
LEMMA JoinMore ==
    ASSUME NEW V, NEW ss \in Seq(Seq(V)), NEW n \in 1 .. Len(ss), NEW r \in Seq(V),
           IsJoin(ss, n - 1, r)
    PROVE  r \o ss[n] \in Seq(V) /\ IsJoin(ss, n, r \o ss[n])
  <1> DEFINE s == ss[n]
             f == r \o s
  <1>1. s \in Seq(V) /\ Len(s) \in Nat /\ Len(r) \in Nat /\ n \in Nat \ {0}
    BY ElementOfSeq, LenProperties
  <1>2. f \in Seq(V) /\ Len(f) = Len(r) + Len(s)
        /\ \A i \in 1 .. Len(f) : f[i] = IF i <= Len(r) THEN r[i] ELSE s[i - Len(r)]
    BY <1>1, ConcatProperties
  <1>3. PICK g \in [1 .. Len(r) -> (1 .. n - 1) \X Nat] :
            /\ IsInjective(g)
            /\ \A k \in 1 .. Len(r) : /\ g[k][2] \in 1 .. Len(ss[g[k][1]])
                                      /\ r[k] = ss[g[k][1]][g[k][2]]
    BY DEF IsJoin
  <1> DEFINE h == [k \in 1 .. Len(f) |-> IF k <= Len(r) THEN g[k] ELSE <<n, k - Len(r)>>]
  <1> HIDE DEF f
  <1>4. /\ DOMAIN h = 1 .. Len(f)
        /\ h = [k \in 1 .. Len(f) |-> h[k]]
        /\ \A k \in 1 .. Len(f) : k <= Len(r) => h[k] = g[k]
        /\ \A k \in 1 .. Len(f) : ~(k <= Len(r)) => h[k] = <<n, k - Len(r)>>
    OBVIOUS
  <1> HIDE DEF h
  <1>5. \A k \in 1 .. Len(f) : /\ k <= Len(r) => k \in 1 .. Len(r)
                              /\ ~(k <= Len(r)) => k - Len(r) \in 1 .. Len(s)
    <2> DEFINE N == Len(r)
               M == Len(s)
    <2>1. N \in Nat /\ M \in Nat /\ Len(f) = N + M
      BY <1>1, <1>2
    <2> HIDE DEF N, M
    <2>2. \A k \in 1 .. N + M : (k <= N => k \in 1 .. N) /\ (~(k <= N) => k - N \in 1 .. M)
      BY <2>1
    <2> QED
      BY <2>1, <2>2 DEF N, M
  <1>6. /\ \A k \in 1 .. Len(f) : k <= Len(r) => f[k] = r[k]
        /\ \A k \in 1 .. Len(f) : ~(k <= Len(r)) => f[k] = s[k - Len(r)]
    BY <1>2
  <1> HIDE DEF s
  <1>7. ASSUME NEW k \in 1 .. Len(f)
        PROVE  /\ h[k] \in (1 .. n) \X Nat
               /\ h[k][2] \in 1 .. Len(ss[h[k][1]])
               /\ f[k] = ss[h[k][1]][h[k][2]]
    <2>1. CASE k <= Len(r)
      <3>1. k \in 1 .. Len(r) /\ h[k] = g[k] /\ f[k] = r[k]
        <4>1. k \in 1 .. Len(r)
          BY <1>5, <2>1
        <4>2. h[k] = g[k]
          BY <1>4, <2>1
        <4>3. f[k] = r[k]
          BY <1>6, <2>1
        <4> QED
          BY <4>1, <4>2, <4>3
      <3>2. g[k] \in (1 .. n - 1) \X Nat
        BY <1>3, <3>1
      <3>3. g[k] \in (1 .. n) \X Nat
        BY <1>1, <3>2
      <3> QED
        BY <1>3, <3>1, <3>3
    <2>2. CASE ~(k <= Len(r))
      <3>1. h[k] = <<n, k - Len(r)>> /\ f[k] = s[k - Len(r)] /\ k - Len(r) \in 1 .. Len(s)
        BY <1>4, <1>5, <1>6, <2>2
      <3>2. h[k][1] = n /\ h[k][2] = k - Len(r)
        BY <3>1
      <3> QED
        BY <1>1, <3>1, <3>2 DEF s
    <2> QED
      BY <2>1, <2>2
  <1>8. ASSUME NEW j \in 1 .. Len(f), NEW k \in 1 .. Len(f), h[j] = h[k] PROVE j = k
    <2>1. CASE j <= Len(r) /\ k <= Len(r)
      <3>1. j \in DOMAIN g /\ k \in DOMAIN g /\ g[j] = g[k]
        BY <1>3, <1>8, <1>4, <1>5, <2>1
      <3> QED
        BY <1>3, <3>1 DEF IsInjective
    <2>2. CASE j <= Len(r) /\ ~(k <= Len(r))
      <3>1. j \in 1 .. Len(r) /\ h[j] = g[j] /\ h[k] = <<n, k - Len(r)>>
        BY <1>4, <1>5, <1>6, <2>2
      <3>2. g[j][1] \in 1 .. n - 1 /\ h[k][1] = n
        <4>1. g[j] \in (1 .. n - 1) \X Nat
          BY <1>3, <3>1
        <4>2. h[k][1] = n
          BY <3>1
        <4> QED
          BY <4>1, <4>2
      <3> QED
        BY <1>1, <1>8, <3>1, <3>2
    <2>3. CASE ~(j <= Len(r)) /\ k <= Len(r)
      <3>1. k \in 1 .. Len(r) /\ h[k] = g[k] /\ h[j] = <<n, j - Len(r)>>
        BY <1>4, <1>5, <1>6, <2>3
      <3>2. g[k][1] \in 1 .. n - 1 /\ h[j][1] = n
        <4>1. g[k] \in (1 .. n - 1) \X Nat
          BY <1>3, <3>1
        <4>2. h[j][1] = n
          BY <3>1
        <4> QED
          BY <4>1, <4>2
      <3> QED
        BY <1>1, <1>8, <3>1, <3>2
    <2>4. CASE ~(j <= Len(r)) /\ ~(k <= Len(r))
      <3>1. h[j][2] = j - Len(r) /\ h[k][2] = k - Len(r)
        BY <1>4, <2>4
      <3> QED
        BY <1>1, <1>2, <1>8, <3>1
    <2> QED
      BY <2>1, <2>2, <2>3, <2>4
  <1>9. h \in [1 .. Len(f) -> (1 .. n) \X Nat] /\ DOMAIN h = 1 .. Len(f)
    BY <1>7, <1>4
  <1>10. IsJoin(ss, n, f)
    <2>1. IsInjective(h)
      BY <1>8, <1>9 DEF IsInjective
    <2>2. \A k \in 1 .. Len(f) : /\ h[k][2] \in 1 .. Len(ss[h[k][1]])
                                 /\ f[k] = ss[h[k][1]][h[k][2]]
      BY <1>7
    <2> QED
      BY <1>9, <2>1, <2>2 DEF IsJoin
  <1> QED
    BY <1>2, <1>10 DEF f, s

(* Lists put one after the other make one list of their members.            *)
LEMMA FlattenIs ==
    ASSUME NEW V, NEW ss \in Seq(Seq(V))
    PROVE  FlattenSeq(ss) \in Seq(V) /\ IsJoin(ss, Len(ss), FlattenSeq(ss))
  <1> DEFINE N == Len(ss)
             Eq(u) == u = [i \in 1 .. N |-> IF i = 1 THEN ss[i] ELSE u[i - 1] \o ss[i]]
             flatten == CHOOSE u : Eq(u)
             step == [p \in Seq(V) \X (1 .. N) |-> p[1] \o ss[p[2]]]
  <1>0. N \in Nat /\ \A n \in 1 .. N : ss[n] \in Seq(V)
    BY ElementOfSeq
  <1>1. \A p \in Seq(V) \X (1 .. N) : step[p] \in Seq(V)
    <2>1. ASSUME NEW p \in Seq(V) \X (1 .. N) PROVE step[p] \in Seq(V)
      <3>1. p[1] \in Seq(V) /\ ss[p[2]] \in Seq(V)
        BY <1>0
      <3>2. p[1] \o ss[p[2]] \in Seq(V)
        BY <3>1, ConcatProperties
      <3> QED BY <3>1, <3>2
    <2> QED BY <2>1
  <1>2. PICK u : IsIndexRecursion(Seq(V), <<>>, step, N, u)
    <2>1. N \in Nat /\ <<>> \in Seq(V)
      BY <1>0, EmptySeq
    <2> HIDE DEF step, N
    <2> QED BY <1>1, <2>1, IndexRecursion
  <1>3. u \in [0 .. N -> Seq(V)] /\ u[0] = <<>>
        /\ \A n \in 1 .. N : u[n] = u[n - 1] \o ss[n]
    <2>1. u \in [0 .. N -> Seq(V)] /\ u[0] = <<>>
          /\ \A n \in 1 .. N : u[n] = step[<<u[n - 1], n>>]
      BY <1>2 DEF IsIndexRecursion
    <2>2. ASSUME NEW n \in 1 .. N PROVE u[n] = u[n - 1] \o ss[n]
      <3>1. <<u[n - 1], n>> \in Seq(V) \X (1 .. N)
        <4>1. n - 1 \in 0 .. N
          BY <1>0
        <4> QED BY <2>1, <4>1
      <3>2. step[<<u[n - 1], n>>] = u[n - 1] \o ss[n]
        BY <3>1
      <3> QED BY <2>1, <3>2
    <2> QED BY <2>1, <2>2
  <1> HIDE DEF step
  <1> DEFINE T == {n \in 0 .. N : IsJoin(ss, n, u[n])}
  <1>4. 0 \in T
    <2>1. Len(<<>>) = 0 /\ 1 .. 0 = {}
      BY EmptySeq
    <2> DEFINE none == [k \in 1 .. 0 |-> 0]
    <2>2. none \in [1 .. 0 -> (1 .. 0) \X Nat] /\ DOMAIN none = {}
      BY <2>1
    <2> HIDE DEF none
    <2>3. IsJoin(ss, 0, <<>>)
      BY <2>1, <2>2 DEF IsJoin, IsInjective
    <2> QED
      BY <1>0, <1>3, <2>3
  <1>5. ASSUME NEW n \in 1 .. N, n - 1 \in T PROVE n \in T
    <2>1. u[n - 1] \in Seq(V) /\ IsJoin(ss, n - 1, u[n - 1]) /\ n \in 1 .. Len(ss)
      <3>1. n - 1 \in 0 .. N
        BY <1>0
      <3> QED
        BY <1>3, <1>5, <3>1
    <2>2. IsJoin(ss, n, u[n - 1] \o ss[n])
      BY <2>1, JoinMore
    <2>3. u[n] = u[n - 1] \o ss[n]
      BY <1>3
    <2>4. IsJoin(ss, n, u[n])
      BY <2>2, <2>3, Zenon
    <2>5. n \in 0 .. N
      BY <1>0
    <2> QED
      BY <2>4, <2>5
  <1>6. N \in T
    <2> HIDE DEF T
    <2>1. N \in Nat /\ N \in 0 .. N
      BY <1>0
    <2> HIDE DEF N
    <2> QED
      BY <1>4, <1>5, <2>1, IndexSetInduction
  <1>7. IsJoin(ss, N, u[N]) /\ u[N] \in Seq(V)
    BY <1>0, <1>3, <1>6
  <1>8. CASE N = 0
    <2>1. ss = <<>> /\ FlattenSeq(ss) = ss /\ u[N] = <<>>
      BY <1>3, <1>8, EmptySeq DEF FlattenSeq
    <2> QED
      BY <1>7, <2>1
  <1>9. CASE N # 0
    <2> DEFINE f == [i \in 1 .. N |-> u[i]]
    <2>1. Eq(f)
      <3>1. ASSUME NEW i \in 1 .. N
            PROVE  f[i] = IF i = 1 THEN ss[i] ELSE f[i - 1] \o ss[i]
        <4>1. CASE i = 1
          <5>0. 1 \in 1 .. N /\ 1 - 1 = 0
            BY <4>1
          <5>1. u[1] = <<>> \o ss[1] /\ ss[1] \in Seq(V)
            <6>1. u[1] = u[1 - 1] \o ss[1]
              BY <1>3, <5>0
            <6> QED BY <1>0, <1>3, <5>0, <6>1
          <5>2. u[1] = ss[1]
            BY <5>1, ConcatEmptySeq
          <5> QED BY <4>1, <5>2
        <4>2. CASE i # 1
          <5>1. i - 1 \in 1 .. N
            BY <1>0, <4>2
          <5>2. f[i - 1] = u[i - 1] /\ f[i] = u[i]
            BY <5>1
          <5> HIDE DEF f
          <5> QED BY <1>3, <4>2, <5>2
        <4> QED BY <4>1, <4>2
      <3>2. f = [i \in 1 .. N |-> f[i]]
        OBVIOUS
      <3> HIDE DEF f
      <3> QED BY <3>1, <3>2, Zenon
    <2>2. Eq(flatten)
      <3> HIDE DEF Eq, f
      <3> QED BY <2>1
    <2>3. FlattenSeq(ss) = flatten[N]
      BY <1>9 DEF FlattenSeq
    <2> HIDE DEF flatten
    <2>4. \A i \in 1 .. N : flatten[i] = IF i = 1 THEN ss[i] ELSE flatten[i - 1] \o ss[i]
      BY <2>2, Zenon
    <2> HIDE DEF Eq
    <2> DEFINE W == {n \in 0 .. N : n = 0 \/ flatten[n] = u[n]}
    <2>5. 0 \in W
      BY <1>0
    <2>6. ASSUME NEW n \in 1 .. N, n - 1 \in W PROVE n \in W
      <3>1. CASE n = 1
        <4>0. 1 \in 1 .. N /\ 1 - 1 = 0
          BY <3>1
        <4>1. u[1] = <<>> \o ss[1] /\ ss[1] \in Seq(V)
          <5>1. u[1] = u[1 - 1] \o ss[1]
            BY <1>3, <4>0
          <5> QED BY <1>0, <1>3, <4>0, <5>1
        <4>2. u[1] = ss[1]
          BY <4>1, ConcatEmptySeq
        <4>3. flatten[1] = ss[1]
          BY <2>4, <3>1
        <4> QED
          BY <1>0, <3>1, <4>2, <4>3
      <3>2. CASE n # 1
        <4>1. flatten[n - 1] = u[n - 1] /\ n \in 0 .. N
          BY <1>0, <2>6, <3>2
        <4>2. flatten[n] = flatten[n - 1] \o ss[n]
          BY <2>4, <3>2
        <4> QED
          BY <1>3, <4>1, <4>2
      <3> QED BY <3>1, <3>2
    <2>7. N \in W
      <3> HIDE DEF W
      <3>1. N \in Nat
        BY <1>0
      <3>2. N \in 0 .. N
        BY <1>0
      <3> HIDE DEF N
      <3> QED
        BY <2>5, <2>6, <3>1, <3>2, IndexSetInduction
    <2>8. FlattenSeq(ss) = u[N]
      BY <1>9, <2>3, <2>7
    <2> QED
      BY <1>7, <2>8
  <1> QED
    BY <1>8, <1>9

-----------------------------------------------------------------------------
Two == {"core", "edge"}

(* The contacts the table of n may list.                                    *)
Peers(n) ==
    [id : Genuine \ {n}, role : {"EdgeMiner", "CoreValidator"},
     net : {Net[p].slash24 : p \in Nodes}]

FitsBucket(q) ==
    Len(q) <= K /\ \A k \in DOMAIN q : SameNet(q, q[k].net) <= MAX_PER_SLASH24

(* Two places of a table that list the same id are one.                     *)
IdsOnce(t) ==
    \A s1, s2 \in Two, b1, b2 \in Buckets :
        \A i \in 1 .. Len(t[s1][b1]), j \in 1 .. Len(t[s2][b2]) :
            t[s1][b1][i].id = t[s2][b2][j].id => s1 = s2 /\ b1 = b2 /\ i = j

TidyTable(t, n) ==
    /\ t \in [Two -> [Buckets -> Seq(Peers(n))]]
    /\ \A s \in Two, b \in Buckets : FitsBucket(t[s][b])
    /\ IdsOnce(t)

-----------------------------------------------------------------------------
(* How many of a bucket are in one /24 is a number.                         *)
LEMMA SameNetIs ==
    ASSUME NEW V, NEW s \in Seq(V), NEW net
    PROVE  /\ SameNet(s, net) \in Nat
           /\ IsFiniteSet({k \in 1 .. Len(s) : s[k].net = net})
           /\ SameNet(s, net) = Cardinality({k \in 1 .. Len(s) : s[k].net = net})
  <1> DEFINE A == {k \in 1 .. Len(s) : s[k].net = net}
  <1>1. Len(s) \in Nat /\ DOMAIN s = 1 .. Len(s)
    BY LenProperties
  <1>2. IsFiniteSet(1 .. Len(s))
    BY <1>1, FS_Interval
  <1>3. A \in SUBSET (1 .. Len(s))
    OBVIOUS
  <1>4. IsFiniteSet(A)
    BY <1>2, <1>3, FS_Subset
  <1>5. Cardinality(A) \in Nat
    BY <1>4, FS_CardinalityType
  <1> QED
    BY <1>1, <1>4, <1>5 DEF SameNet

(* A part of a bucket is no larger, and no more of it is in one /24.        *)
LEMMA SelectedFits ==
    ASSUME NEW V, NEW s \in Seq(V), NEW f \in Seq(V), NEW S, IsSelection(s, S, Len(s), f),
           FitsBucket(s)
    PROVE  FitsBucket(f)
  <1>1. /\ Len(s) \in Nat /\ DOMAIN s = 1 .. Len(s)
        /\ Len(f) \in Nat /\ DOMAIN f = 1 .. Len(f)
    BY LenProperties
  <1>2. PICK h \in [1 .. Len(f) -> 1 .. Len(s)] :
            /\ \A j, k \in 1 .. Len(f) : j < k => h[j] < h[k]
            /\ \A k \in 1 .. Len(f) : f[k] = s[h[k]] /\ f[k] \in S
    BY DEF IsSelection
  <1>3. \A j, k \in 1 .. Len(f) : h[j] = h[k] => j = k
    <2> TAKE j, k \in 1 .. Len(f)
    <2> HAVE h[j] = h[k]
    <2>1. h[j] \in Nat /\ h[k] \in Nat /\ j \in Nat /\ k \in Nat
      BY <1>1, <1>2
    <2>2. ~(j < k) /\ ~(k < j)
      BY <1>2, <2>1
    <2> QED
      BY <2>1, <2>2
  <1>4. Len(f) <= Len(s)
    <2>1. h \in Injection(1 .. Len(f), 1 .. Len(s))
      BY <1>2, <1>3 DEF Injection, IsInjective
    <2>2. /\ IsFiniteSet(1 .. Len(s)) /\ Cardinality(1 .. Len(s)) = Len(s)
          /\ Cardinality(1 .. Len(f)) = Len(f)
      <3>1. \A n \in Nat : /\ IsFiniteSet(1 .. n)
                           /\ Cardinality(1 .. n) = IF 1 > n THEN 0 ELSE n - 1 + 1
        BY FS_Interval
      <3>2. \A n \in Nat : Cardinality(1 .. n) = n
        <4> TAKE n \in Nat
        <4>1. Cardinality(1 .. n) = IF 1 > n THEN 0 ELSE n - 1 + 1
          BY <3>1
        <4> QED
          BY <4>1
      <3> QED
        BY <1>1, <3>1, <3>2
    <2> QED
      BY <2>1, <2>2, FS_Injection
  <1>5. ASSUME NEW net PROVE SameNet(f, net) <= SameNet(s, net)
    <2> DEFINE A == {k \in 1 .. Len(f) : f[k].net = net}
               B == {k \in 1 .. Len(s) : s[k].net = net}
               g == [k \in A |-> h[k]]
    <2>1. g \in Injection(A, B)
      <3>1. \A k \in A : h[k] \in B
        BY <1>2
      <3>2. g \in [A -> B]
        BY <3>1
      <3>3. IsInjective(g)
        BY <1>3 DEF IsInjective
      <3> HIDE DEF g, A, B
      <3> QED
        BY <3>2, <3>3 DEF Injection
    <2>2. IsFiniteSet(B) /\ SameNet(f, net) = Cardinality(A) /\ SameNet(s, net) = Cardinality(B)
      BY SameNetIs
    <2> HIDE DEF g, A, B
    <2> QED
      BY <2>1, <2>2, FS_Injection
  <1>6. ASSUME NEW k \in DOMAIN f PROVE SameNet(f, f[k].net) <= MAX_PER_SLASH24
    <2>1. SameNet(f, f[k].net) \in Nat /\ SameNet(s, f[k].net) \in Nat
      BY SameNetIs
    <2>2. SameNet(f, f[k].net) <= SameNet(s, f[k].net)
      BY <1>5
    <2>3. f[k] = s[h[k]] /\ h[k] \in DOMAIN s
      BY <1>1, <1>2
    <2>4. SameNet(s, s[h[k]].net) <= MAX_PER_SLASH24
      BY <2>3 DEF FitsBucket
    <2>5. SameNet(s, f[k].net) <= MAX_PER_SLASH24
      BY <2>3, <2>4
    <2> QED
      BY <2>1, <2>2, <2>5, RoutingTableAssumption
  <1>7. Len(f) <= K
    BY <1>1, <1>4, RoutingTableAssumption DEF FitsBucket
  <1> QED
    BY <1>6, <1>7 DEF FitsBucket

(* A contact is added to a bucket that has room for it.                     *)
LEMMA AppendFits ==
    ASSUME NEW V, NEW s \in Seq(V), NEW x \in V, FitsBucket(s),
           Len(s) < K, SameNet(s, x.net) < MAX_PER_SLASH24
    PROVE  FitsBucket(Append(s, x))
  <1> DEFINE f == Append(s, x)
  <1>1. /\ Len(s) \in Nat /\ DOMAIN s = 1 .. Len(s) /\ f \in Seq(V)
        /\ Len(f) = Len(s) + 1 /\ DOMAIN f = 1 .. Len(s) + 1
        /\ f[Len(s) + 1] = x /\ \A k \in 1 .. Len(s) : f[k] = s[k]
    <2>1. f \in Seq(V) /\ Len(f) = Len(s) + 1
      BY AppendProperties
    <2> QED
      BY <2>1, AppendProperties, LenProperties
  <1> HIDE DEF f
  <1>2. ASSUME NEW net
        PROVE  SameNet(f, net) = SameNet(s, net) + (IF x.net = net THEN 1 ELSE 0)
    <2> DEFINE A == {k \in 1 .. Len(f) : f[k].net = net}
               B == {k \in 1 .. Len(s) : s[k].net = net}
    <2>1. /\ IsFiniteSet(B) /\ SameNet(f, net) = Cardinality(A)
          /\ SameNet(s, net) = Cardinality(B) /\ Cardinality(B) \in Nat
      BY <1>1, SameNetIs
    <2>2. CASE x.net = net
      <3>1. A = B \cup {Len(s) + 1} /\ Len(s) + 1 \notin B
        BY <1>1, <2>2
      <3> HIDE DEF A, B
      <3>2. Cardinality(A) = Cardinality(B) + 1
        BY <2>1, <3>1, FS_AddElement
      <3> QED
        BY <2>1, <2>2, <3>2
    <2>3. CASE x.net # net
      <3>1. A = B
        BY <1>1, <2>3
      <3> HIDE DEF A, B
      <3> QED
        BY <2>1, <2>3, <3>1
    <2> QED
      BY <2>2, <2>3
  <1>3. ASSUME NEW k \in 1 .. Len(s) + 1 PROVE SameNet(f, f[k].net) <= MAX_PER_SLASH24
    <2>1. SameNet(s, f[k].net) \in Nat /\ SameNet(s, x.net) \in Nat
      BY SameNetIs
    <2>2. CASE f[k].net = x.net
      <3>1. SameNet(f, x.net) = SameNet(s, x.net) + 1
        BY <1>2
      <3>2. SameNet(f, x.net) <= MAX_PER_SLASH24
        BY <2>1, <3>1, RoutingTableAssumption
      <3> QED
        BY <2>2, <3>2
    <2>3. CASE f[k].net # x.net
      <3>1. k \in DOMAIN s /\ f[k] = s[k]
        BY <1>1, <2>3
      <3>2. SameNet(f, s[k].net) = SameNet(s, s[k].net) + 0
        BY <1>2, <2>3, <3>1
      <3>3. SameNet(s, s[k].net) <= MAX_PER_SLASH24 /\ SameNet(s, s[k].net) \in Nat
        BY <2>1, <3>1 DEF FitsBucket
      <3>4. SameNet(f, s[k].net) <= MAX_PER_SLASH24
        BY <3>2, <3>3
      <3> QED
        BY <3>1, <3>4
    <2> QED
      BY <2>2, <2>3
  <1>4. Len(f) <= K
    BY <1>1, RoutingTableAssumption
  <1>5. FitsBucket(f)
    BY <1>1, <1>3, <1>4 DEF FitsBucket
  <1> QED
    BY <1>5 DEF f

(* No place of the table lists this id.                                     *)
IsFree(t, id) ==
    \A s \in Two, b \in Buckets : \A i \in 1 .. Len(t[s][b]) : t[s][b][i].id # id

(* A contact is taken out of a table.                                       *)
LEMMA RemoveTidy ==
    ASSUME NEW n, NEW t, TidyTable(t, n), NEW id
    PROVE  TidyTable(remove_overlay(t, id), n) /\ IsFree(remove_overlay(t, id), id)
  <1> DEFINE r == remove_overlay(t, id)
             V == Peers(n)
             S(s, b) == {p \in ToSet(t[s][b]) : p.id # id}
  <1>1. t \in [Two -> [Buckets -> Seq(V)]] /\ DOMAIN t = Two
    BY DEF TidyTable
  <1>2. /\ r = [s \in Two |-> [b \in Buckets |-> r[s][b]]]
        /\ \A s \in Two, b \in Buckets : r[s][b] = Selected(t[s][b], S(s, b))
    BY <1>1 DEF remove_overlay
  <1> HIDE DEF r, V
  <1>3. ASSUME NEW s \in Two, NEW b \in Buckets
        PROVE  /\ r[s][b] \in Seq(V)
               /\ IsSelection(t[s][b], S(s, b), Len(t[s][b]), r[s][b])
    <2>1. t[s][b] \in Seq(V)
      BY <1>1
    <2> DEFINE q == S(s, b)
    <2> HIDE DEF q
    <2>2. Selected(t[s][b], q) \in Seq(V)
          /\ IsSelection(t[s][b], q, Len(t[s][b]), Selected(t[s][b], q))
      BY <2>1, SelectedIs
    <2>3. r[s][b] = Selected(t[s][b], q)
      BY <1>2 DEF q
    <2>4. r[s][b] \in Seq(V) /\ IsSelection(t[s][b], q, Len(t[s][b]), r[s][b])
      BY <2>2, <2>3
    <2> QED
      BY <2>4 DEF q
  <1>4. r \in [Two -> [Buckets -> Seq(V)]]
    BY <1>2, <1>3
  <1>5. ASSUME NEW s \in Two, NEW b \in Buckets PROVE FitsBucket(r[s][b])
    <2>1. t[s][b] \in Seq(V) /\ FitsBucket(t[s][b])
      BY <1>1 DEF TidyTable
    <2> HIDE DEF S
    <2> QED
      BY <1>3, <2>1, SelectedFits
  <1>6. IsFree(r, id)
    <2> SUFFICES ASSUME NEW s \in Two, NEW b \in Buckets, NEW i \in 1 .. Len(r[s][b])
                 PROVE  r[s][b][i].id # id
      BY DEF IsFree
    <2>1. r[s][b][i] \in S(s, b)
      <3> HIDE DEF S
      <3>1. IsSelection(t[s][b], S(s, b), Len(t[s][b]), r[s][b])
        BY <1>3
      <3> QED
        BY <3>1 DEF IsSelection
    <2> QED
      BY <2>1
  <1>7. IdsOnce(r)
    <2> SUFFICES ASSUME NEW s1 \in Two, NEW s2 \in Two, NEW b1 \in Buckets, NEW b2 \in Buckets,
                        NEW i \in 1 .. Len(r[s1][b1]), NEW j \in 1 .. Len(r[s2][b2]),
                        r[s1][b1][i].id = r[s2][b2][j].id
                 PROVE  s1 = s2 /\ b1 = b2 /\ i = j
      BY DEF IdsOnce
    <2> HIDE DEF S
    <2>1. PICK h1 \in [1 .. Len(r[s1][b1]) -> 1 .. Len(t[s1][b1])] :
              /\ \A k, l \in 1 .. Len(r[s1][b1]) : k < l => h1[k] < h1[l]
              /\ \A k \in 1 .. Len(r[s1][b1]) : r[s1][b1][k] = t[s1][b1][h1[k]]
      BY <1>3 DEF IsSelection
    <2>2. PICK h2 \in [1 .. Len(r[s2][b2]) -> 1 .. Len(t[s2][b2])] :
              \A k \in 1 .. Len(r[s2][b2]) : r[s2][b2][k] = t[s2][b2][h2[k]]
      BY <1>3 DEF IsSelection
    <2>3. s1 = s2 /\ b1 = b2
      <3>1. h1[i] \in 1 .. Len(t[s1][b1]) /\ h2[j] \in 1 .. Len(t[s2][b2])
            /\ t[s1][b1][h1[i]].id = t[s2][b2][h2[j]].id
        BY <2>1, <2>2
      <3> QED
        BY <3>1 DEF TidyTable, IdsOnce
    <2>4. j \in 1 .. Len(r[s1][b1]) /\ r[s1][b1][j] = t[s1][b1][h1[j]]
      BY <2>1, <2>3
    <2>5. h1[i] = h1[j]
      <3>1. h1[i] \in 1 .. Len(t[s1][b1]) /\ h1[j] \in 1 .. Len(t[s1][b1])
        BY <2>1, <2>4
      <3>2. t[s1][b1][h1[i]].id = t[s1][b1][h1[j]].id
        BY <2>1, <2>3, <2>4
      <3>3. \A k, l \in 1 .. Len(t[s1][b1]) : t[s1][b1][k].id = t[s1][b1][l].id => k = l
        BY DEF TidyTable, IdsOnce
      <3> QED
        BY <3>1, <3>2, <3>3
    <2>6. h1[i] \in Nat /\ i \in Nat /\ j \in Nat
      <3>1. r[s1][b1] \in Seq(V) /\ t[s1][b1] \in Seq(V)
        BY <1>1, <1>4
      <3> QED
        BY <2>1, <2>4, <3>1, LenProperties
    <2>7. ~(i < j) /\ ~(j < i)
      BY <2>1, <2>4, <2>5, <2>6
    <2> QED
      BY <2>3, <2>6, <2>7
  <1> QED
    BY <1>4, <1>5, <1>6, <1>7 DEF TidyTable, r, V

(* A contact with a new id is put into a table.                             *)
LEMMA PlaceTidy ==
    ASSUME NEW n \in Nodes, NEW t, TidyTable(t, n), NEW peer \in Peers(n), IsFree(t, peer.id)
    PROVE  TidyTable(Place(t, n, peer).table, n)
  <1> DEFINE side == Side(peer.role)
             at == BucketOf(n, peer.id)
             V == Peers(n)
             q == Append(t[side][at], peer)
             r == [t EXCEPT ![side][at] = q]
  <1>1. t \in [Two -> [Buckets -> Seq(V)]]
    BY DEF TidyTable
  <1>2. side \in Two /\ at \in Buckets
    BY PeerNodeBuckets DEF Side, Two, Peers, Genuine
  <1>3. t[side][at] \in Seq(V) /\ FitsBucket(t[side][at]) /\ Len(t[side][at]) \in Nat
    BY <1>1, <1>2, LenProperties DEF TidyTable
  <1>4. \/ Place(t, n, peer).table = t
        \/ /\ Place(t, n, peer).table = r
           /\ ~(SameNet(t[side][at], peer.net) >= MAX_PER_SLASH24)
           /\ ~(Len(t[side][at]) >= K)
    BY DEF Place
  <1>5. SameNet(t[side][at], peer.net) \in Nat
    BY <1>3, SameNetIs
  <1> HIDE DEF side, at
  <1>6. CASE /\ ~(SameNet(t[side][at], peer.net) >= MAX_PER_SLASH24)
             /\ ~(Len(t[side][at]) >= K)
    <2>1. /\ q \in Seq(V) /\ Len(q) = Len(t[side][at]) + 1
          /\ q[Len(t[side][at]) + 1] = peer
          /\ \A i \in 1 .. Len(t[side][at]) : q[i] = t[side][at][i]
      <3>1. peer \in V
        OBVIOUS
      <3> HIDE DEF V
      <3> QED
        BY <1>3, <3>1, AppendProperties
    <2>2. FitsBucket(q)
      <3>1. Len(t[side][at]) < K /\ SameNet(t[side][at], peer.net) < MAX_PER_SLASH24
        BY <1>3, <1>5, <1>6, RoutingTableAssumption
      <3> QED
        BY <1>3, <3>1, AppendFits
    <2> HIDE DEF q, V
    <2>3. /\ r \in [Two -> [Buckets -> Seq(V)]]
          /\ \A s \in Two, b \in Buckets :
                r[s][b] = IF s = side /\ b = at THEN q ELSE t[s][b]
      BY <1>1, <1>2, <2>1
    <2> HIDE DEF r
    <2>4. ASSUME NEW s \in Two, NEW b \in Buckets PROVE FitsBucket(r[s][b])
      BY <2>2, <2>3 DEF TidyTable
    <2>5. ASSUME NEW s \in Two, NEW b \in Buckets, NEW i \in 1 .. Len(r[s][b])
          PROVE  \/ i \in 1 .. Len(t[s][b]) /\ r[s][b][i] = t[s][b][i]
                    /\ r[s][b][i].id # peer.id
                 \/ /\ s = side /\ b = at /\ i = Len(t[side][at]) + 1
                    /\ r[s][b][i].id = peer.id
      <3>1. CASE s = side /\ b = at
        <4>1. i \in 1 .. Len(t[side][at]) + 1 /\ r[s][b] = q
          BY <2>1, <2>3, <2>5, <3>1
        <4>2. CASE i = Len(t[side][at]) + 1
          BY <2>1, <3>1, <4>1, <4>2
        <4>3. CASE i # Len(t[side][at]) + 1
          <5>1. i \in 1 .. Len(t[side][at])
            BY <1>3, <4>1, <4>3
          <5> QED
            BY <2>1, <3>1, <4>1, <5>1 DEF IsFree
        <4> QED
          BY <4>2, <4>3
      <3>2. CASE ~(s = side /\ b = at)
        BY <2>3, <2>5, <3>2 DEF IsFree
      <3> QED
        BY <3>1, <3>2
    <2>6. IdsOnce(r)
      <3> SUFFICES ASSUME NEW s1 \in Two, NEW s2 \in Two, NEW b1 \in Buckets, NEW b2 \in Buckets,
                          NEW i \in 1 .. Len(r[s1][b1]), NEW j \in 1 .. Len(r[s2][b2]),
                          r[s1][b1][i].id = r[s2][b2][j].id
                   PROVE  s1 = s2 /\ b1 = b2 /\ i = j
        BY DEF IdsOnce
      <3>1. CASE r[s1][b1][i].id = peer.id
        BY <2>5, <3>1
      <3>2. CASE r[s1][b1][i].id # peer.id
        <4>1. /\ i \in 1 .. Len(t[s1][b1]) /\ r[s1][b1][i] = t[s1][b1][i]
              /\ j \in 1 .. Len(t[s2][b2]) /\ r[s2][b2][j] = t[s2][b2][j]
          BY <2>5, <3>2
        <4> QED
          BY <4>1 DEF TidyTable, IdsOnce
      <3> QED
        BY <3>1, <3>2
    <2>7. TidyTable(r, n)
      BY <2>3, <2>4, <2>6 DEF TidyTable, V
    <2> HIDE DEF r
    <2> QED
      BY <1>4, <2>7
  <1> QED
    BY <1>4, <1>6

(* Whatever becomes of the contact, the table is tidy.                      *)
LEMMA InsertTidy ==
    ASSUME NEW n \in Nodes, NEW t, TidyTable(t, n), NEW peer,
           peer.id # n => peer \in Peers(n)
    PROVE  TidyTable(insert(t, n, peer).table, n)
  <1>1. CASE peer.id = n
    BY <1>1 DEF insert
  <1>2. CASE peer.id # n
    <2>1. TidyTable(remove_overlay(t, peer.id), n) /\ IsFree(remove_overlay(t, peer.id), peer.id)
      BY RemoveTidy
    <2>2. insert(t, n, peer) = Place(remove_overlay(t, peer.id), n, peer)
      BY <1>2 DEF insert
    <2>3. TidyTable(Place(remove_overlay(t, peer.id), n, peer).table, n)
      BY <1>2, <2>1, PlaceTidy
    <2> QED
      BY <2>2, <2>3
  <1> QED
    BY <1>1, <1>2

(* r lists one side of a table, each place of it once.                      *)
IsListing(t, side, V, r) ==
    /\ r \in Seq(V)
    /\ \E g \in [1 .. Len(r) -> Buckets \X Nat] :
          /\ IsInjective(g)
          /\ \A k \in 1 .. Len(r) : /\ g[k][2] \in 1 .. Len(t[side][g[k][1]])
                                    /\ r[k] = t[side][g[k][1]][g[k][2]]

(* The buckets of a side are listed one after the other.                    *)
LEMMA ListedIs ==
    ASSUME NEW n, NEW t, TidyTable(t, n), NEW side \in Two
    PROVE  IsListing(t, side, Peers(n), Listed(t, side))
  <1> DEFINE V == Peers(n)
             ss == [b \in Buckets |-> t[side][b]]
             N == Cardinality(Buckets)
  <1> HIDE DEF V
  <1>1. N \in Nat /\ Buckets = 1 .. N
    BY RoutingTableAssumption, FS_CardinalityType
  <1>2. \A b \in Buckets : t[side][b] \in Seq(V)
    BY DEF TidyTable, V
  <1>3. ss \in [1 .. N -> Seq(V)] /\ \A b \in Buckets : ss[b] = t[side][b]
    BY <1>1, <1>2
  <1> HIDE DEF ss, N
  <1>4. ss \in Seq(Seq(V)) /\ Len(ss) = N
    <2>1. ss \in Seq(Seq(V))
      BY <1>1, <1>3
    <2> QED
      BY <1>1, <1>3, <2>1, LenProperties
  <1> DEFINE r == FlattenSeq(ss)
  <1>5. r \in Seq(V) /\ IsJoin(ss, N, r)
    BY <1>4, FlattenIs
  <1>6. Listed(t, side) = r
    BY DEF Listed, ss
  <1> HIDE DEF r
  <1>7. PICK g \in [1 .. Len(r) -> (1 .. N) \X Nat] :
            /\ IsInjective(g)
            /\ \A k \in 1 .. Len(r) : /\ g[k][2] \in 1 .. Len(ss[g[k][1]])
                                      /\ r[k] = ss[g[k][1]][g[k][2]]
    BY <1>5 DEF IsJoin
  <1>8. g \in [1 .. Len(r) -> Buckets \X Nat]
    BY <1>1, <1>7
  <1>9. \A k \in 1 .. Len(r) : /\ g[k][2] \in 1 .. Len(t[side][g[k][1]])
                               /\ r[k] = t[side][g[k][1]][g[k][2]]
    <2> TAKE k \in 1 .. Len(r)
    <2>1. g[k][1] \in Buckets
      BY <1>8
    <2> QED
      BY <1>3, <1>7, <2>1
  <1>10. IsListing(t, side, V, r)
    BY <1>5, <1>7, <1>8, <1>9 DEF IsListing
  <1> QED
    BY <1>6, <1>10 DEF V

(* The contacts of a tidy table are proven peers, each under one id.        *)
LEMMA LivePeersOnce ==
    ASSUME NEW n, NEW t, TidyTable(t, n)
    PROVE  /\ live_peers(t) \in Seq(Peers(n))
           /\ \A i, j \in 1 .. Len(live_peers(t)) :
                 live_peers(t)[i].id = live_peers(t)[j].id => i = j
  <1> DEFINE V == Peers(n)
             c == Listed(t, "core")
             d == Listed(t, "edge")
             r == c \o d
  <1>1. IsListing(t, "core", V, c) /\ IsListing(t, "edge", V, d)
    BY ListedIs DEF Two
  <1>2. live_peers(t) = r
    BY DEF live_peers
  <1> HIDE DEF V, c, d
  <1>3. c \in Seq(V) /\ d \in Seq(V) /\ Len(c) \in Nat /\ Len(d) \in Nat
    BY <1>1, LenProperties DEF IsListing
  <1>4. /\ r \in Seq(V) /\ Len(r) = Len(c) + Len(d)
        /\ \A i \in 1 .. Len(r) : r[i] = IF i <= Len(c) THEN c[i] ELSE d[i - Len(c)]
    BY <1>3, ConcatProperties
  <1> HIDE DEF r
  <1>5. PICK g \in [1 .. Len(c) -> Buckets \X Nat] :
            /\ IsInjective(g)
            /\ \A k \in 1 .. Len(c) : /\ g[k][2] \in 1 .. Len(t["core"][g[k][1]])
                                      /\ c[k] = t["core"][g[k][1]][g[k][2]]
    BY <1>1 DEF IsListing
  <1>6. PICK h \in [1 .. Len(d) -> Buckets \X Nat] :
            /\ IsInjective(h)
            /\ \A k \in 1 .. Len(d) : /\ h[k][2] \in 1 .. Len(t["edge"][h[k][1]])
                                      /\ d[k] = t["edge"][h[k][1]][h[k][2]]
    BY <1>1 DEF IsListing
  <1>7. IdsOnce(t) /\ "core" \in Two /\ "edge" \in Two /\ "core" # "edge"
    BY DEF TidyTable, Two
  <1>8. ASSUME NEW s1 \in Two, NEW s2 \in Two, NEW p \in Buckets \X Nat, NEW q \in Buckets \X Nat,
               p[2] \in 1 .. Len(t[s1][p[1]]), q[2] \in 1 .. Len(t[s2][q[1]]),
               t[s1][p[1]][p[2]].id = t[s2][q[1]][q[2]].id
        PROVE  s1 = s2 /\ p = q
    <2>1. PICK b1 \in Buckets, i \in Nat : p = <<b1, i>>
      OBVIOUS
    <2>2. PICK b2 \in Buckets, j \in Nat : q = <<b2, j>>
      OBVIOUS
    <2>3. /\ i \in 1 .. Len(t[s1][b1]) /\ j \in 1 .. Len(t[s2][b2])
          /\ t[s1][b1][i].id = t[s2][b2][j].id
      BY <1>8, <2>1, <2>2
    <2>4. s1 = s2 /\ b1 = b2 /\ i = j
      BY <1>7, <2>3 DEF IdsOnce
    <2> QED
      BY <2>1, <2>2, <2>4
  <1>9. ASSUME NEW i \in 1 .. Len(r), NEW j \in 1 .. Len(r), r[i].id = r[j].id
        PROVE  i = j
    <2>1. CASE i <= Len(c) /\ j <= Len(c)
      <3>1. i \in 1 .. Len(c) /\ j \in 1 .. Len(c) /\ c[i].id = c[j].id
        BY <1>3, <1>4, <1>9, <2>1
      <3>2. g[i] \in Buckets \X Nat /\ g[j] \in Buckets \X Nat
        BY <1>5, <3>1
      <3>3. /\ t["core"][g[i][1]][g[i][2]].id = t["core"][g[j][1]][g[j][2]].id
            /\ g[i][2] \in 1 .. Len(t["core"][g[i][1]])
            /\ g[j][2] \in 1 .. Len(t["core"][g[j][1]])
        BY <1>5, <3>1
      <3>4. g[i] = g[j]
        BY <1>7, <1>8, <3>2, <3>3
      <3> QED
        BY <1>5, <3>1, <3>4 DEF IsInjective
    <2>2. CASE ~(i <= Len(c)) /\ ~(j <= Len(c))
      <3> DEFINE x == i - Len(c)
                 y == j - Len(c)
      <3>1. x \in 1 .. Len(d) /\ y \in 1 .. Len(d) /\ d[x].id = d[y].id
            /\ (x = y => i = j)
        BY <1>3, <1>4, <1>9, <2>2
      <3> HIDE DEF x, y
      <3>2. h[x] \in Buckets \X Nat /\ h[y] \in Buckets \X Nat
        BY <1>6, <3>1
      <3>3. /\ t["edge"][h[x][1]][h[x][2]].id = t["edge"][h[y][1]][h[y][2]].id
            /\ h[x][2] \in 1 .. Len(t["edge"][h[x][1]])
            /\ h[y][2] \in 1 .. Len(t["edge"][h[y][1]])
        BY <1>6, <3>1
      <3>4. h[x] = h[y]
        BY <1>7, <1>8, <3>2, <3>3
      <3> QED
        BY <1>6, <3>1, <3>4 DEF IsInjective
    <2>3. ASSUME NEW x \in 1 .. Len(c), NEW y \in 1 .. Len(d) PROVE c[x].id # d[y].id
      <3>1. g[x] \in Buckets \X Nat /\ h[y] \in Buckets \X Nat
        BY <1>5, <1>6
      <3>2. /\ c[x].id = t["core"][g[x][1]][g[x][2]].id
            /\ d[y].id = t["edge"][h[y][1]][h[y][2]].id
            /\ g[x][2] \in 1 .. Len(t["core"][g[x][1]])
            /\ h[y][2] \in 1 .. Len(t["edge"][h[y][1]])
        BY <1>5, <1>6
      <3> QED
        BY <1>7, <1>8, <3>1, <3>2
    <2>4. CASE i <= Len(c) /\ ~(j <= Len(c))
      <3>1. i \in 1 .. Len(c) /\ j - Len(c) \in 1 .. Len(d) /\ c[i].id = d[j - Len(c)].id
        BY <1>3, <1>4, <1>9, <2>4
      <3> QED
        BY <2>3, <3>1
    <2>5. CASE ~(i <= Len(c)) /\ j <= Len(c)
      <3>1. j \in 1 .. Len(c) /\ i - Len(c) \in 1 .. Len(d) /\ c[j].id = d[i - Len(c)].id
        BY <1>3, <1>4, <1>9, <2>5
      <3> QED
        BY <2>3, <3>1
    <2> QED
      BY <2>1, <2>2, <2>4, <2>5
  <1> QED
    BY <1>2, <1>4, <1>9 DEF V

-----------------------------------------------------------------------------
TableInv ==
    /\ table = [n \in Nodes |-> table[n]]
    /\ \A n \in Nodes : TidyTable(table[n], n)

(* The tables are empty at first.                                           *)
LEMMA TableInit == Init => TableInv
  <1> SUFFICES ASSUME Init PROVE TableInv
    OBVIOUS
  <1>1. table = [n \in Nodes |-> EmptyTable]
    BY DEF Init
  <1>2. /\ EmptyTable \in [Two -> [Buckets -> {<<>>}]]
        /\ \A s \in Two, b \in Buckets : EmptyTable[s][b] = <<>>
    BY DEF EmptyTable, Two
  <1>3. Len(<<>>) = 0 /\ DOMAIN <<>> = {} /\ \A V : <<>> \in Seq(V)
    BY EmptySeq
  <1>4. ASSUME NEW n \in Nodes PROVE TidyTable(EmptyTable, n)
    <2>1. EmptyTable \in [Two -> [Buckets -> Seq(Peers(n))]]
      BY <1>2, <1>3
    <2>2. \A s \in Two, b \in Buckets : FitsBucket(EmptyTable[s][b])
      BY <1>2, <1>3, RoutingTableAssumption DEF FitsBucket
    <2>3. IdsOnce(EmptyTable)
      BY <1>2, <1>3 DEF IdsOnce
    <2> QED
      BY <2>1, <2>2, <2>3 DEF TidyTable
  <1> QED
    BY <1>1, <1>4 DEF TableInv

(* The contact that an end puts into the table has proved itself.           *)
LEMMA ContactProved ==
    ASSUME TalkInv, NEW e \in Ends, e[1] \in links,
           \/ Reads(e, "auth", "AUTH")
           \/ Reads(e, "ack", "ACK")
    PROVE  NodeOf(e) \in Nodes /\ (Contact(e).id # NodeOf(e) => Contact(e) \in Peers(NodeOf(e)))
  <1>1. JointAt(e, pc[e], inbox[e], inbox[Other(e)])
    BY JointHere DEF TalkInv
  <1>2. /\ pc[e] \in {"auth", "ack"} /\ inbox[e] # Empty
        /\ pc[e] = "ack" => Head(inbox[e]).what = "ACK"
        /\ pc[e] = "auth" => Head(inbox[e]).what = "AUTH"
    BY DEF Reads, Empty
  <1>3. Passed(e)
    BY <1>1, <1>2, FrameFacts DEF JointAt, Joint, Opening, Proven
  <1>4. Identity(Other(e)) \in Genuine
    BY <1>3 DEF Passed, PeerOf
  <1>5. NodeOf(e) \in Nodes /\ NodeOf(Other(e)) \in Nodes
    BY NodeOfEnd, EndFacts DEF TalkInv, TalkTypes
  <1>6. RoleOf(Identity(Other(e))) \in {"EdgeMiner", "CoreValidator"}
    BY RoleIs DEF RoleOf
  <1> QED
    BY <1>4, <1>5, <1>6 DEF Contact, Peers

(* Every step keeps the tables tidy.                                        *)
LEMMA TableStep == TalkInv /\ TableInv /\ [Next]_vars => TableInv'
  <1> SUFFICES ASSUME TalkInv, TableInv, [Next]_vars PROVE TableInv'
    OBVIOUS
  <1>1. ASSUME table' = table PROVE TableInv'
    BY <1>1 DEF TableInv
  <1>2. ASSUME NEW e \in Ends, e[1] \in links, GetAuth(e) \/ GetAck(e) PROVE TableInv'
    <2>1. /\ NodeOf(e) \in Nodes
          /\ Contact(e).id # NodeOf(e) => Contact(e) \in Peers(NodeOf(e))
      BY <1>2, ContactProved DEF GetAuth, GetAck
    <2>2. PICK n, peer, t : n \in Nodes /\ n = NodeOf(e) /\ peer = Contact(e) /\ t = table[n]
      BY <2>1
    <2>3. table' = [table EXCEPT ![n] = insert(t, n, peer).table]
      BY <1>2, <2>2 DEF GetAuth, GetAck
    <2>4. TidyTable(insert(t, n, peer).table, n)
      BY <2>1, <2>2, InsertTidy DEF TableInv
    <2>5. PICK r : r = insert(t, n, peer).table
      OBVIOUS
    <2>6. table' = [p \in Nodes |-> IF p = n THEN r ELSE table[p]]
      BY <2>3, <2>5 DEF TableInv
    <2>7. ASSUME NEW p \in Nodes PROVE TidyTable(table'[p], p)
      <3>1. CASE p = n
        BY <2>4, <2>5, <2>6, <3>1
      <3>2. CASE p # n
        BY <2>6, <3>2 DEF TableInv
      <3> QED
        BY <3>1, <3>2
    <2> QED
      BY <2>6, <2>7 DEF TableInv
  <1>3. CASE UNCHANGED vars
    BY <1>1, <1>3 DEF vars
  <1>4. ASSUME NEW n \in Nodes,
               attach_graph(n) \/ take_delivered(n) \/ \E m \in Message : Compose(n, m)
        PROVE  TableInv'
    BY <1>1, <1>4 DEF attach_graph, take_delivered, Compose
  <1>5. ASSUME NEW l \in links, HearBeacon(l) \/ StartLink(l) \/ connect(l) PROVE TableInv'
    BY <1>1, <1>5 DEF HearBeacon, StartLink, connect
  <1>6. ASSUME NEW e \in Ends,
               \/ GetHello(e) \/ GetChallenge(e) \/ GetAckForMesh(e) \/ ServeMesh(e)
               \/ Session(e) \/ PeerGone(e) \/ Interrupt(e)
        PROVE  TableInv'
    BY <1>1, <1>6 DEF GetHello, GetChallenge, GetAckForMesh, ServeMesh, Session, GetFirst,
                      WriteInv, GetInv, GetWant, GetPayload, PeerGone, Interrupt
  <1> QED
    BY <1>2, <1>3, <1>4, <1>5, <1>6 DEF Next

(* The invariant is about the property of the runs.                         *)
LEMMA TableShows == TableInv => PrefixesKeepToTheirShare
  <1> SUFFICES ASSUME TableInv, NEW n \in Nodes
               PROVE  /\ \A s \in {"core", "edge"}, b \in Buckets :
                            /\ Len(table[n][s][b]) <= K
                            /\ \A p \in ToSet(table[n][s][b]) :
                                  SameNet(table[n][s][b], p.net) <= MAX_PER_SLASH24
                      /\ LET ids == [k \in DOMAIN live_peers(table[n]) |->
                                        live_peers(table[n])[k].id]
                         IN  IsInjective(ids) /\ ToSet(ids) \subseteq Genuine \ {n}
    BY DEF PrefixesKeepToTheirShare
  <1>1. TidyTable(table[n], n)
    BY DEF TableInv
  <1>2. ASSUME NEW s \in {"core", "edge"}, NEW b \in Buckets
        PROVE  /\ Len(table[n][s][b]) <= K
               /\ \A p \in ToSet(table[n][s][b]) :
                     SameNet(table[n][s][b], p.net) <= MAX_PER_SLASH24
    BY <1>1 DEF TidyTable, FitsBucket, Two, ToSet
  <1> DEFINE r == live_peers(table[n])
             ids == [k \in DOMAIN r |-> r[k].id]
  <1>3. r \in Seq(Peers(n)) /\ \A i, j \in 1 .. Len(r) : r[i].id = r[j].id => i = j
    BY <1>1, LivePeersOnce
  <1> HIDE DEF r
  <1>4. DOMAIN r = 1 .. Len(r) /\ \A k \in 1 .. Len(r) : r[k] \in Peers(n)
    BY <1>3, ElementOfSeq, LenProperties
  <1>5. IsInjective(ids)
    BY <1>3, <1>4 DEF IsInjective
  <1>6. ToSet(ids) \subseteq Genuine \ {n}
    BY <1>4 DEF ToSet, Peers
  <1> QED
    BY <1>2, <1>5, <1>6 DEF r

(* routing.rs, handshake.rs: however often peers connect, under which keys  *)
(* and from which addresses, a table lists proven peers only, each once and *)
(* not the node itself, and no /24 has more than its share of a bucket.     *)
THEOREM ShareTheorem == Spec => []PrefixesKeepToTheirShare
  <1>1. Spec => [](TalkInv /\ TableInv)
    BY TalkInit, TalkStep, TableInit, TableStep, PTL DEF Spec
  <1> QED
    BY <1>1, TableShows, PTL
=============================================================================
