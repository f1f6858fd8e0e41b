------------------------------- MODULE PeerNode -------------------------------
(***************************************************************************)
(* P2P nodes: the threads that dial, the handshake of a connection, the    *)
(* table of contacts, and the sessions in which vertices are gossiped.     *)
(*                                                                         *)
(* A link is a thread of one node that dials another.  Its k-th connection *)
(* is <<link, k>>, and a connection has two ends, each with a thread: an   *)
(* end is <<link, k, side>>.  A gossip connection is dialled under the     *)
(* key of the node; every mesh synchronisation under a new key that is     *)
(* never used again, which the connection stands for.  A peer signs with   *)
(* the key it shows, so a signature always verifies; the session that      *)
(* synchronises the graphs is the subject of MeshSync.                     *)
(***************************************************************************)
EXTENDS RoutingTable, GossipStore, DeviceGate, DialTargets

CONSTANTS
    Nodes,
    Quote, Net,         \* of each node; a Net is [slash24, datacenter]
    EphemeralQuote,     \* what goes with a key made for one synchronisation
    Links,
    Networks,           \* the networks looked at, each [start, links]: how
                        \* each node was started, and of some links
                        \* [from, to, how, dials]; how is "beacon", "hub",
                        \* "follow" or "attach", dials bounds how often it dials
    MaxDials,           \* per link: at most that often
    Message,            \* vertices
    Fresh,              \* what the program of each node makes
    MaxInterrupts,      \* time-outs, resets and frames cut by a time-out
    None

ASSUME PeerNodeAssumption ==
    /\ \E class \in DOMAIN Typical : simulate_honest(EphemeralQuote, class)
    /\ MaxDials \in [Links -> Nat]
    /\ \A w \in Networks :
          /\ \A n \in Nodes : Starts(w.start[n])
          /\ DOMAIN w.links \subseteq Links
          /\ \A l \in DOMAIN w.links : /\ w.links[l].dials \in 0 .. MaxDials[l]
                                      /\ {w.links[l].from, w.links[l].to} \subseteq Nodes

(* The id of a vertex is the hash of what its maker signed.                 *)
ASSUME PeerNodeVertices ==
    /\ Fresh \in [Nodes -> SUBSET Message]
    /\ \A n, p \in Nodes : n # p => Fresh[n] \cap Fresh[p] = {}
    /\ \A w \in Networks : \A n \in Nodes :
          w.start[n].restored \in Seq(Message)

VARIABLES
    network,      \* one of Networks
    attached,     \* the nodes that have attached their graph
    next, dials,  \* per link: what it dials next, how often it dialled
    announced,    \* per link to a hub: it is connected, as far as it knows
    seen,         \* per node: whose beacon it has heard
    kind,         \* per connection: "gossip" or "mesh"
    pc, inbox,    \* per end: where its thread is, the frames it has not read
    cmds,         \* per end: the announcements other threads left for it
    sessions,     \* per node: peer |-> the end its commands are sent to
    table,        \* per node
    store,        \* per node: the gossip store
    delivered,    \* per node: received and not taken by the program yet
    known,        \* per node: the vertices its program has
    receipts, evictions,   \* per node and message: how often (history)
    interrupts

link_vars == <<next, dials, announced>>
conn_vars == <<kind, pc, inbox>>
gossip_vars == <<store, delivered, known, receipts, evictions>>
vars == <<network, attached, link_vars, seen, conn_vars, cmds, sessions, table,
          gossip_vars, interrupts>>

links == DOMAIN network.links
From(l) == network.links[l].from
To(l) == network.links[l].to
How(l) == network.links[l].how

Start(n) == network.start[n]
Role == [n \in Nodes |-> p2p_role(Start(n))]

(* Is the target of l one that its node was told of?                        *)
Configured(l) ==
    CASE How(l) = "hub" -> Contains(hub_dials(Start(From(l))), Address(Start(To(l))))
      [] How(l) = "follow" -> Contains(followed(Start(From(l))), Address(Start(To(l))))
      [] OTHER -> Start(From(l)).program = "miner"

Conns == UNION {{l} \X (1 .. MaxDials[l]) : l \in Links}
Sides == {"caller", "callee"}
Ends == {<<c[1], c[2], s>> : c \in Conns, s \in Sides}

Conn(e) == <<e[1], e[2]>>
Other(e) == <<e[1], e[2], IF e[3] = "caller" THEN "callee" ELSE "caller">>
NodeOf(e) == IF e[3] = "caller" THEN From(e[1]) ELSE To(e[1])
Calls(e) == e[3] = "caller"

Ids == Nodes \cup Conns

ASSUME PeerNodeBuckets == \A n \in Nodes : \A id \in Ids : BucketOf(n, id) \in Buckets

(* The key an end shows, and what it says of itself with it.                *)
Identity(e) == IF Calls(e) /\ kind[Conn(e)] = "mesh" THEN Conn(e) ELSE NodeOf(e)
RoleOf(id) == IF id \in Nodes THEN Role[id] ELSE "EdgeMiner"
QuoteOf(id) == IF id \in Nodes THEN Quote[id] ELSE EphemeralQuote

Frame(what, ids) == [what |-> what, ids |-> ids]

-----------------------------------------------------------------------------
(* Helpers: a link dials one connection at a time, and its caller's end is  *)
(* the link's own thread until the connection is open or lost.              *)
Dialling(l) ==
    \E e \in Ends : e[1] = l /\ Calls(e) /\ pc[e] \in {"challenge", "ack", "mesh"}

(* What a link does after a dial.                                           *)
AfterDial(l, what, ok) ==
    CASE How(l) = "attach" -> IF ok THEN "nothing" ELSE "gossip"
      [] How(l) = "hub" /\ what = "mesh" /\ ok /\ ~announced[l] -> "gossip"
      [] OTHER -> "mesh"

DialEnds(l, what, ok) ==
    /\ next' = [next EXCEPT ![l] = AfterDial(l, what, ok)]
    /\ announced' = [announced EXCEPT ![l] =
                         IF How(l) = "hub" /\ what = "mesh" THEN ok ELSE @]

(* The thread of e took its first frame and wrote these, if somebody reads. *)
Answer(e, frames) ==
    inbox' = [inbox EXCEPT ![e] = Tail(@),
                           ![Other(e)] = IF pc[Other(e)] = "done" THEN <<>>
                                         ELSE @ \o frames]

Reads(e, at, what) == pc[e] = at /\ inbox[e] # <<>> /\ Head(inbox[e]).what = what

Goto(e, at) == pc' = [pc EXCEPT ![e] = at]

(* The thread of e ends and its socket is closed, after it wrote these.     *)
Close(e, frames) ==
    /\ Goto(e, "done")
    /\ inbox' = [inbox EXCEPT ![e] = <<>>,
                              ![Other(e)] = IF pc[Other(e)] = "done" THEN <<>>
                                            ELSE @ \o frames]
    /\ cmds' = [cmds EXCEPT ![e] = <<>>]
    /\ IF Calls(e) /\ pc[e] # "open"
       THEN DialEnds(e[1], kind[Conn(e)], FALSE)
       ELSE UNCHANGED <<next, announced>>

PeerOf(e) == Identity(Other(e))

(* A session that ends removes whatever is registered under its peer.       *)
unregister(e) ==
    IF pc[e] = "open" THEN [sessions EXCEPT ![NodeOf(e)][PeerOf(e)] = None]
    ELSE sessions

register(e) == [sessions EXCEPT ![NodeOf(e)][PeerOf(e)] = e]

Contact(e) ==
    LET o == Other(e)
    IN  [id |-> Identity(o), role |-> RoleOf(Identity(o)), net |-> Net[NodeOf(o)].slash24]

(* Is the socket refused for the prefix of its address?                     *)
reject_socket(e) == Net[NodeOf(Other(e))].datacenter

(* A plausible fault of Trusts: whoever signs is let in.                    *)
trust_the_signature(e) == TRUE

Genuine == {id \in Ids : verify_attestation(QuoteOf(id))}

Trusts(e) == PeerOf(e) \in Genuine

(* To the contacts in the table that have a session.                        *)
Announcing(n, c, ids) ==
    LET targets == {p.id : p \in ToSet(gossip_targets(table[n], Role[n]))}
        ends    == {e \in Ends : \E p \in targets \cap Nodes : sessions[n][p] = e}
    IN  [e \in Ends |-> IF e \in ends THEN c[e] \o ids ELSE c[e]]

(* A node that gossips puts what it restored into its store before anybody  *)
(* can hear of it.                                                          *)
RestoredStore(n) ==
    IF Start(n).program = "node" /\ gossip_out(Start(n))
    THEN StoreAll(Role[n], Start(n).restored)
    ELSE <<>>

-----------------------------------------------------------------------------
Init ==
    /\ network \in Networks
    /\ attached = {}
    /\ next = [l \in Links |-> "nothing"]
    /\ dials = [l \in Links |-> 0]
    /\ announced = [l \in Links |-> FALSE]
    /\ seen = [n \in Nodes |-> {n}]
    /\ kind = [c \in Conns |-> "none"]
    /\ pc = [e \in Ends |-> "off"]
    /\ inbox = [e \in Ends |-> <<>>]
    /\ cmds = [e \in Ends |-> <<>>]
    /\ sessions = [n \in Nodes |-> [p \in Nodes |-> None]]
    /\ table = [n \in Nodes |-> EmptyTable]
    /\ store = [n \in Nodes |-> RestoredStore(n)]
    /\ delivered = [n \in Nodes |-> <<>>]
    /\ known = [n \in Nodes |-> ToSet(Start(n).restored)]
    /\ receipts = [n \in Nodes |-> [m \in Message |-> 0]]
    /\ evictions = [n \in Nodes |-> [m \in Message |-> 0]]
    /\ interrupts = 0

attach_graph(n) ==
    /\ n \notin attached
    /\ Start(n).program # "miner"
    /\ \E l \in links : To(l) = n /\ How(l) # "attach"
    /\ attached' = attached \cup {n}
    /\ UNCHANGED <<network, link_vars, seen, conn_vars, cmds, sessions, table, gossip_vars,
                   interrupts>>

(* A beacon is followed once, unless its sender is a contact already: the   *)
(* sender is noted before the table is asked.                               *)
HearBeacon(l) ==
    /\ How(l) = "beacon"
    /\ hears_beacon(Start(From(l)), Start(To(l)))
    /\ To(l) \notin seen[From(l)]
    /\ seen' = [seen EXCEPT ![From(l)] = @ \cup {To(l)}]
    /\ next' = [next EXCEPT ![l] =
                    IF contains_overlay(table[From(l)], From(l), To(l)) THEN @
                    ELSE "gossip"]
    /\ UNCHANGED <<network, attached, dials, announced, conn_vars, cmds, sessions, table,
                   gossip_vars, interrupts>>

(* A thread that dials a hub synchronises first; one that follows a node or *)
(* attaches a miner wants the session first.                                *)
StartLink(l) ==
    /\ How(l) \in {"hub", "follow", "attach"}
    /\ Configured(l)
    /\ next[l] = "nothing"
    /\ dials[l] = 0
    /\ next' = [next EXCEPT ![l] = IF How(l) = "hub" THEN "mesh" ELSE "gossip"]
    /\ UNCHANGED <<network, attached, dials, announced, seen, conn_vars, cmds, sessions,
                   table, gossip_vars, interrupts>>

(* The accept loop starts a thread for the socket.                          *)
accept_loop(e) == [pc EXCEPT ![e] = "hello"]

(* TCP, Noise, and the HELLO.                                               *)
connect(l) ==
    LET c == <<l, dials[l] + 1>>
        e == <<l, dials[l] + 1, "caller">>
    IN  /\ next[l] # "nothing"
        /\ ~Dialling(l)
        /\ dials[l] < network.links[l].dials
        /\ dials' = [dials EXCEPT ![l] = @ + 1]
        /\ kind' = [kind EXCEPT ![c] = next[l]]
        /\ IF reject_socket(e)
           THEN /\ DialEnds(l, next[l], FALSE)
                /\ pc' = [pc EXCEPT ![e] = "done", ![Other(e)] = "done"]
                /\ UNCHANGED inbox
           ELSE /\ pc' = [accept_loop(Other(e)) EXCEPT ![e] = "challenge"]
                /\ inbox' = [inbox EXCEPT ![Other(e)] = <<Frame("HELLO", <<>>)>>]
                /\ UNCHANGED <<next, announced>>
        /\ UNCHANGED <<network, attached, seen, cmds, sessions, table, gossip_vars,
                       interrupts>>

-----------------------------------------------------------------------------
(* The handshake.  A failure closes the connection.                         *)
GetHello(e) ==
    /\ Reads(e, "hello", "HELLO")
    /\ IF reject_socket(e) THEN Close(e, <<>>)
       ELSE IF ~Trusts(e) THEN Close(e, <<Frame("REJECT", <<>>)>>)
       ELSE /\ Answer(e, <<Frame("CHALLENGE", <<>>)>>)
            /\ Goto(e, "auth")
            /\ UNCHANGED <<cmds, next, announced>>
    /\ UNCHANGED <<network, attached, dials, seen, kind, sessions, table, gossip_vars,
                   interrupts>>

GetChallenge(e) ==
    /\ pc[e] = "challenge"
    /\ inbox[e] # <<>>
    /\ IF Head(inbox[e]).what = "REJECT" \/ ~Trusts(e) THEN Close(e, <<>>)
       ELSE /\ Answer(e, <<Frame("AUTH", <<>>)>>)
            /\ Goto(e, "ack")
            /\ UNCHANGED <<cmds, next, announced>>
    /\ UNCHANGED <<network, attached, dials, seen, kind, sessions, table, gossip_vars,
                   interrupts>>

(* Whether the table takes the contact makes no difference to the session.  *)
GetAuth(e) ==
    /\ Reads(e, "auth", "AUTH")
    /\ Answer(e, <<Frame("ACK", <<>>)>>)
    /\ Goto(e, "first")
    /\ table' = [table EXCEPT ![NodeOf(e)] = insert(@, NodeOf(e), Contact(e)).table]
    /\ UNCHANGED <<network, attached, link_vars, seen, kind, cmds, sessions, gossip_vars,
                   interrupts>>

(* For the caller it does.                                                  *)
GetAck(e) ==
    LET verdict == insert(table[NodeOf(e)], NodeOf(e), Contact(e))
    IN  /\ Reads(e, "ack", "ACK")
        /\ kind[Conn(e)] = "gossip"
        /\ table' = [table EXCEPT ![NodeOf(e)] = verdict.table]
        /\ IF verdict.ok
           THEN /\ Answer(e, <<>>)
                /\ Goto(e, "open")
                /\ sessions' = register(e)
                /\ DialEnds(e[1], "gossip", TRUE)
                /\ UNCHANGED cmds
           ELSE Close(e, <<>>) /\ UNCHANGED sessions
        /\ UNCHANGED <<network, attached, dials, seen, kind, gossip_vars, interrupts>>

GetAckForMesh(e) ==
    /\ Reads(e, "ack", "ACK")
    /\ kind[Conn(e)] = "mesh"
    /\ Answer(e, <<Frame("MESH", <<>>)>>)
    /\ Goto(e, "mesh")
    /\ UNCHANGED <<network, attached, link_vars, seen, kind, cmds, sessions, table,
                   gossip_vars, interrupts>>

(* The first frame says what the connection is for; the session starts with *)
(* it.                                                                      *)
GetFirst(e) ==
    /\ pc[e] = "first"
    /\ inbox[e] # <<>>
    /\ IF Head(inbox[e]).what = "MESH"
       THEN Answer(e, <<>>) /\ Goto(e, "graph") /\ UNCHANGED sessions
       ELSE Goto(e, "open") /\ sessions' = register(e) /\ UNCHANGED inbox
    /\ UNCHANGED <<network, attached, link_vars, seen, kind, cmds, table, gossip_vars,
                   interrupts>>

(* A synchronisation needs the graph, and is served to its end.             *)
ServeMesh(e) ==
    /\ pc[e] = "graph"
    /\ pc[Other(e)] = "mesh"
    /\ NodeOf(e) \in attached
    /\ pc' = [pc EXCEPT ![e] = "done", ![Other(e)] = "done"]
    /\ DialEnds(e[1], "mesh", TRUE)
    /\ UNCHANGED <<network, attached, dials, seen, kind, inbox, cmds, sessions, table,
                   gossip_vars, interrupts>>

-----------------------------------------------------------------------------
(* The session threads.                                                     *)
WriteInv(e) ==
    /\ pc[e] = "open"
    /\ cmds[e] # <<>>
    /\ cmds' = [cmds EXCEPT ![e] = Tail(@)]
    /\ inbox' = IF pc[Other(e)] = "done" THEN inbox
                ELSE [inbox EXCEPT ![Other(e)] =
                          Append(@, Frame("INV", <<Head(cmds[e])>>))]
    /\ UNCHANGED <<network, attached, link_vars, seen, kind, pc, sessions, table,
                   gossip_vars, interrupts>>

GetInv(e) ==
    LET want == on_inventory(store[NodeOf(e)], Role[NodeOf(e)], Head(inbox[e]).ids)
    IN  /\ Reads(e, "open", "INV")
        /\ Answer(e, IF want = <<>> THEN <<>> ELSE <<Frame("WANT", want)>>)
        /\ UNCHANGED <<network, attached, link_vars, seen, kind, pc, cmds, sessions, table,
                       gossip_vars, interrupts>>

GetWant(e) ==
    LET held == on_want(store[NodeOf(e)], Head(inbox[e]).ids)
    IN  /\ Reads(e, "open", "WANT")
        /\ Answer(e, [k \in DOMAIN held |-> Frame("PAYLOAD", <<held[k]>>)])
        /\ UNCHANGED <<network, attached, link_vars, seen, kind, pc, cmds, sessions, table,
                       gossip_vars, interrupts>>

(* The store of n takes m in; the store's lock is held.                     *)
Keep(n, m) ==
    LET gone == EvictedFor(store[n], Role[n], m)
    IN  /\ store' = [store EXCEPT ![n] = StoreInsert(@, Role[n], m)]
        /\ evictions' = [evictions EXCEPT ![n] =
                             [x \in Message |-> IF x \in gone THEN @[x] + 1 ELSE @[x]]]

(* News is delivered and announced to the sessions of all the other peers,  *)
(* contacts or not.                                                         *)
GetPayload(e) ==
    LET n == NodeOf(e)
        m == Head(inbox[e]).ids[1]
        others == {o \in Ends : \E p \in Nodes \ {PeerOf(e)} : sessions[n][p] = o}
    IN  /\ Reads(e, "open", "PAYLOAD")
        /\ Answer(e, <<>>)
        /\ IF on_payload(store[n], m)
           THEN /\ Keep(n, m)
                /\ delivered' = [delivered EXCEPT ![n] = Append(@, m)]
                /\ receipts' = [receipts EXCEPT ![n][m] = @ + 1]
                /\ cmds' = [o \in Ends |-> IF o \in others THEN Append(cmds[o], m)
                                           ELSE cmds[o]]
           ELSE UNCHANGED <<store, evictions, delivered, receipts, cmds>>
        /\ UNCHANGED <<network, attached, link_vars, seen, kind, pc, sessions, table, known,
                       interrupts>>

(* The other end has closed and everything it wrote is read.                *)
PeerGone(e) ==
    /\ pc[e] \notin {"off", "done"}
    /\ pc[Other(e)] = "done"
    /\ inbox[e] = <<>>
    /\ Close(e, <<>>)
    /\ sessions' = unregister(e)
    /\ UNCHANGED <<network, attached, dials, seen, kind, table, gossip_vars, interrupts>>

(* A read that fails: nothing came within four seconds (no session is open  *)
(* yet), the connection is reset, or a frame is cut in two by the time-out  *)
(* of an open session's read and the rest of it is no frame.                *)
Interrupt(e) ==
    /\ interrupts < MaxInterrupts
    /\ pc[e] \notin {"off", "done"}
    /\ interrupts' = interrupts + 1
    /\ Close(e, <<>>)
    /\ sessions' = unregister(e)
    /\ UNCHANGED <<network, attached, dials, seen, kind, table, gossip_vars>>

-----------------------------------------------------------------------------
(* The program.                                                             *)
broadcast(n, m) ==
    /\ Keep(n, m)
    /\ cmds' = Announcing(n, cmds, <<m>>)

Compose(n, m) ==
    /\ m \in Fresh[n] \ known[n]
    /\ known' = [known EXCEPT ![n] = @ \cup {m}]
    /\ broadcast(n, m)
    /\ UNCHANGED <<network, attached, link_vars, seen, conn_vars, sessions, table,
                   delivered, receipts, interrupts>>

(* The program takes the queue and goes through it, one vertex a step.      *)
take_delivered(n) ==
    LET m == Head(delivered[n])
    IN  /\ delivered[n] # <<>>
        /\ delivered' = [delivered EXCEPT ![n] = Tail(@)]
        /\ known' = [known EXCEPT ![n] = @ \cup {m}]
        /\ IF m \notin known[n] /\ gossip_out(Start(n)) THEN broadcast(n, m)
           ELSE UNCHANGED <<store, evictions, cmds>>
        /\ UNCHANGED <<network, attached, link_vars, seen, conn_vars, sessions, table,
                       receipts, interrupts>>

Session(e) ==
    GetFirst(e) \/ WriteInv(e) \/ GetInv(e) \/ GetWant(e) \/ GetPayload(e)

Next ==
    \/ \E n \in Nodes : \/ attach_graph(n)
                        \/ take_delivered(n)
                        \/ \E m \in Message : Compose(n, m)
    \/ \E l \in links : HearBeacon(l) \/ StartLink(l) \/ connect(l)
    \/ \E e \in {x \in Ends : x[1] \in links} :
          \/ GetHello(e) \/ GetChallenge(e) \/ GetAuth(e)
          \/ GetAck(e) \/ GetAckForMesh(e) \/ ServeMesh(e)
          \/ Session(e) \/ PeerGone(e) \/ Interrupt(e)

Spec == Init /\ [][Next]_vars

(* The threads of open sessions run.                                        *)
FairSpec == Spec /\ \A e \in Ends : WF_vars(Session(e))

-----------------------------------------------------------------------------
Has(n, m) == m \in ToSet(store[n]) \cup ToSet(delivered[n]) \cup known[n]

TypeOK ==
    /\ network \in Networks /\ attached \subseteq Nodes
    /\ next \in [Links -> {"nothing", "gossip", "mesh"}]
    /\ \A l \in Links : dials[l] \in 0 .. MaxDials[l]
    /\ announced \in [Links -> BOOLEAN] /\ seen \in [Nodes -> SUBSET Nodes]
    /\ kind \in [Conns -> {"none", "gossip", "mesh"}]
    /\ \A e \in Ends :
          /\ pc[e] \in IF Calls(e) THEN {"off", "challenge", "ack", "mesh", "open", "done"}
                       ELSE {"off", "hello", "auth", "first", "graph", "open", "done"}
          /\ ToSet(cmds[e]) \subseteq Message
    /\ sessions \in [Nodes -> [Nodes -> Ends \cup {None}]]
    /\ \A n \in Nodes :
          /\ Len(store[n]) <= max_store[Role[n]] /\ IsInjective(store[n])
          /\ ToSet(delivered[n]) \subseteq Message /\ known[n] \subseteq Message
    /\ receipts \in [Nodes -> [Message -> Nat]] /\ evictions \in [Nodes -> [Message -> Nat]]

(* handshake.rs: an end takes gossip or a synchronisation only after both   *)
(* sides have proved themselves on this connection, each to the other, and  *)
(* only such peers have a sender registered; a sender leads to a session    *)
(* that still runs.                                                         *)
OnlyProvenPeersTalk ==
    /\ \A e \in Ends :
          pc[e] \in {"first", "graph", "mesh", "open"} =>
              /\ PeerOf(e) \in Genuine /\ PeerOf(Other(e)) \in Genuine
              /\ ~reject_socket(e) /\ ~reject_socket(Other(e))
              /\ pc[Other(e)] \notin {"off", "hello", "auth", "challenge"}
    /\ \A n, p \in Nodes : sessions[n][p] # None =>
          LET e == sessions[n][p]
          IN  pc[e] = "open" /\ NodeOf(e) = n /\ PeerOf(e) = p

(* routing.rs: whatever connects, reconnects and synchronises under new     *)
(* keys, only proven peers are listed, each key once and never that of the  *)
(* node itself, and a prefix gets no more than its share of a bucket.       *)
PrefixesKeepToTheirShare ==
    \A n \in Nodes :
        /\ \A s \in {"core", "edge"}, b \in Buckets :
              /\ Len(table[n][s][b]) <= K
              /\ \A p \in ToSet(table[n][s][b]) :
                    SameNet(table[n][s][b], p.net) <= MAX_PER_SLASH24
        /\ LET ids == [k \in DOMAIN live_peers(table[n]) |-> live_peers(table[n])[k].id]
           IN  IsInjective(ids) /\ ToSet(ids) \subseteq Genuine \ {n}

(* gossip.rs: the program is handed a vertex anew only if the store had to  *)
(* drop it, however many sessions and connections offer it; and a node      *)
(* offers no vertex its program has not got or will not get.                *)
HandedOverOncePerStay ==
    \A n \in Nodes, m \in Message :
        /\ receipts[n][m] <= evictions[n][m] + 1
        /\ m \in Fresh[n] \cap known[n] => receipts[n][m] <= evictions[n][m]
        /\ m \in ToSet(store[n]) => m \in known[n] \cup ToSet(delivered[n])

(* node.rs: what a session is told to announce reaches the peer, unless the *)
(* connection ends or the announcer has dropped the body in the meantime.   *)
AnnouncementsArrive ==
    \A e \in Ends, m \in Message :
        (pc[e] = "open" /\ m \in ToSet(cmds[e]))
            ~> \/ pc[e] # "open" \/ pc[Other(e)] = "done"
               \/ Has(NodeOf(Other(e)), m)
               \/ m \notin ToSet(store[NodeOf(e)])
=============================================================================
