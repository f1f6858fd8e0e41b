------------------------------- MODULE MeshSync -------------------------------
(***************************************************************************)
(* Two hubs and the kron-mesh/1 session between them.  The dialer runs     *)
(* sync rounds again and again over fresh connections; in a round the two  *)
(* sides exchange inventories, Need and Have lists and then bodies, in     *)
(* lockstep over a reliable FIFO stream, while other threads of each hub   *)
(* attach vertices of their own.  A reader gives up on a silent peer, and  *)
(* the rate window of a hub may refuse any body.                           *)
(***************************************************************************)
EXTENDS Reconciliation

CONSTANTS
    Dialer, Listener,  \* the two hubs
    History,           \* what each has accepted before, in that order
    Fresh,             \* the vertices that wallets and miners may still bring
    Faucet,            \* the credits both replicas start from
    MaxTimeouts,       \* bound: how often a reader gives up on a live peer
    MaxRefusals        \* bound: how often the rate window refuses a body

Hubs == {Dialer, Listener}

Peer(h) == IF h = Dialer THEN Listener ELSE Dialer

(* The signed vertices of the instance.                                     *)
Vertices == Fresh \cup UNION {ToSet(History[h]) : h \in Hubs}

ASSUME MeshSyncAssumption ==
    /\ Dialer # Listener
    /\ Faucet \in [Address -> 0 .. U64_MAX]
    /\ {MaxTimeouts, MaxRefusals} \subseteq Nat

ASSUME MeshSyncVertices ==
    /\ AreVertices(Vertices)
    /\ \A h \in Hubs : History[h] \in Seq(Vertices)

(* An id is the hash of what the sender signed.                             *)
ASSUME MeshSyncHashes ==
    \A t, u \in Vertices : t.id = u.id <=> Signed(t) = Signed(u)

(* 64 bits hold what these vertices and the credits add up to.              *)
ASSUME MeshSyncRoom ==
    /\ RoomForVertices(Vertices)
    /\ Total(Faucet) + HARD_CAP <= U64_MAX

VARIABLES
    dag,       \* the replica of each hub
    pc,        \* what each hub's session thread waits for; "idle": no session
    inbox,     \* the messages on their way to each hub
    remote,    \* the dialer's inventory, as the listener received it
    wanted,    \* the dialer's Need list, as the listener received it
    offered,   \* history: what each hub stored when it sent its inventory
    clean,     \* history: has nothing disturbed this round so far?
    timeouts,  \* how often a reader gave up on a live peer
    refusals   \* how often the rate window refused a body

round_vars == <<remote, wanted, offered>>
vars == <<dag, pc, inbox, remote, wanted, offered, clean, timeouts, refusals>>

-----------------------------------------------------------------------------
(* Messages and the stream.                                                *)

Msg(kind)         == [kind |-> kind]
IdsMsg(kind, ids) == [kind |-> kind, ids |-> ids]
InvMsg(inv)       == [kind |-> "SyncInventory", inv |-> inv]
BodyMsg(t)        == [kind |-> "DagTransaction", tx |-> t]

Bodies(h, ids) ==
    LET txs == transactions_for_in_order(dag[h].graph, ids)
    IN  [n \in DOMAIN txs |-> BodyMsg(txs[n])]

Decodes(msg) ==
    CASE msg.kind = "SyncInventory" -> InventoryDecodes(msg.inv)
      [] msg.kind \in {"Need", "Have"} -> IdsDecode(msg.ids)
      [] OTHER -> TRUE

(* h, waiting in state at, reads a message of this kind.                    *)
Reads(h, at, kind) ==
    /\ pc[h] = at
    /\ inbox[h] # <<>>
    /\ Head(inbox[h]).kind = kind
    /\ Decodes(Head(inbox[h]))

(* Does h, as far as its session has got, take a message of this kind?      *)
Expects(h, kind) ==
    CASE pc[h] = "bodies" -> kind \in {"DagTransaction", "Done"}
      [] pc[h] = "ping" -> kind = "Ping"
      [] pc[h] = "pong" -> kind = "Pong"
      [] pc[h] \in {"inventory", "their_inventory"} -> kind = "SyncInventory"
      [] pc[h] \in {"need", "their_need"} -> kind = "Need"
      [] pc[h] = "their_have" -> kind = "Have"
      [] OTHER -> FALSE

(* h has read its message and answers.                                      *)
Answer(h, msgs) ==
    inbox' = [inbox EXCEPT ![h] = Tail(@),
                           ![Peer(h)] = IF pc[Peer(h)] = "idle" THEN <<>> ELSE @ \o msgs]

Goto(h, at) == pc' = [pc EXCEPT ![h] = at]

-----------------------------------------------------------------------------
(* Each hub starts from what its log brings back.                           *)
Started(h) ==
    resolve_conflicts_and_rebuild_ledger(Recovered(History[h], Faucet).dag).dag

NoInventory == [tips |-> {}, recent |-> {}]

Init ==
    /\ dag = [h \in Hubs |-> Started(h)]
    /\ pc = [h \in Hubs |-> "idle"]
    /\ inbox = [h \in Hubs |-> <<>>]
    /\ remote = NoInventory
    /\ wanted = {}
    /\ offered = [h \in Hubs |-> {}]
    /\ clean = TRUE
    /\ timeouts = 0
    /\ refusals = 0

(* A new connection, its handshake and Hellos done; the dialer pings.       *)
Connect ==
    /\ \A h \in Hubs : pc[h] = "idle"
    /\ pc' = [h \in Hubs |-> IF h = Dialer THEN "pong" ELSE "ping"]
    /\ inbox' = [h \in Hubs |-> IF h = Dialer THEN <<>> ELSE <<Msg("Ping")>>]
    /\ remote' = NoInventory
    /\ wanted' = {}
    /\ offered' = [h \in Hubs |-> {}]
    /\ clean' = TRUE
    /\ UNCHANGED <<dag, timeouts, refusals>>

GetPing ==
    /\ Reads(Listener, "ping", "Ping")
    /\ Answer(Listener, <<Msg("Pong")>>)
    /\ Goto(Listener, "their_inventory")
    /\ UNCHANGED <<dag, round_vars, clean, timeouts, refusals>>

GetPong ==
    /\ Reads(Dialer, "pong", "Pong")
    /\ Answer(Dialer, <<InvMsg(from_dag(dag[Dialer].graph))>>)
    /\ offered' = [offered EXCEPT ![Dialer] = VertexSet(dag[Dialer].graph)]
    /\ Goto(Dialer, "inventory")
    /\ UNCHANGED <<dag, remote, wanted, clean, timeouts, refusals>>

(* The listener keeps the dialer's inventory and answers with its own.      *)
GetTheirInventory ==
    /\ Reads(Listener, "their_inventory", "SyncInventory")
    /\ remote' = Head(inbox[Listener]).inv
    /\ Answer(Listener, <<InvMsg(from_dag(dag[Listener].graph))>>)
    /\ offered' = [offered EXCEPT ![Listener] = VertexSet(dag[Listener].graph)]
    /\ Goto(Listener, "their_need")
    /\ UNCHANGED <<dag, wanted, clean, timeouts, refusals>>

GetInventory ==
    /\ Reads(Dialer, "inventory", "SyncInventory")
    /\ LET g   == dag[Dialer].graph
           inv == Head(inbox[Dialer]).inv
       IN  Answer(Dialer, <<IdsMsg("Need", collect_need(g, inv)),
                            IdsMsg("Have", collect_have(g, advertised(inv)))>>)
    /\ Goto(Dialer, "need")
    /\ UNCHANGED <<dag, round_vars, clean, timeouts, refusals>>

GetTheirNeed ==
    /\ Reads(Listener, "their_need", "Need")
    /\ wanted' = Head(inbox[Listener]).ids
    /\ Answer(Listener, <<>>)
    /\ Goto(Listener, "their_have")
    /\ UNCHANGED <<dag, remote, offered, clean, timeouts, refusals>>

(* The listener compares its graph, as it is by now, with the inventory it  *)
(* kept, adds what the dialer offers beyond that, asks for it, and sends    *)
(* the bodies the dialer asked for.                                         *)
GetTheirHave ==
    /\ Reads(Listener, "their_have", "Have")
    /\ LET g     == dag[Listener].graph
           extra == Head(inbox[Listener]).ids \ VertexSet(g)
           need  == collect_need(g, remote) \cup extra
       IN  Answer(Listener, <<IdsMsg("Need", need)>> \o Bodies(Listener, wanted))
    /\ Goto(Listener, "bodies")
    /\ UNCHANGED <<dag, round_vars, clean, timeouts, refusals>>

(* A plausible fault of GetNeed: Done only after bodies.                    *)
GetNeedDoneIfBodies ==
    /\ Reads(Dialer, "need", "Need")
    /\ LET bodies == Bodies(Dialer, Head(inbox[Dialer]).ids)
       IN  Answer(Dialer, IF bodies = <<>> THEN <<>> ELSE Append(bodies, Msg("Done")))
    /\ Goto(Dialer, "bodies")
    /\ UNCHANGED <<dag, round_vars, clean, timeouts, refusals>>

GetNeed ==
    /\ Reads(Dialer, "need", "Need")
    /\ Answer(Dialer, Bodies(Dialer, Head(inbox[Dialer]).ids) \o <<Msg("Done")>>)
    /\ Goto(Dialer, "bodies")
    /\ UNCHANGED <<dag, round_vars, clean, timeouts, refusals>>

(* A body is ingested, and its verdict ignored, ...                         *)
GetBody(h) ==
    /\ Reads(h, "bodies", "DagTransaction")
    /\ dag' = [dag EXCEPT ![h] = accept_wire_vertex(@, Head(inbox[h]).tx).dag]
    /\ Answer(h, <<>>)
    /\ UNCHANGED <<pc, round_vars, clean, timeouts, refusals>>

(* ... unless the rate window of the hub is spent.                          *)
RefuseBody(h) ==
    /\ Reads(h, "bodies", "DagTransaction")
    /\ refusals < MaxRefusals
    /\ refusals' = refusals + 1
    /\ clean' = FALSE
    /\ Answer(h, <<>>)
    /\ UNCHANGED <<dag, pc, round_vars, timeouts>>

(* The listener confirms; for the dialer the round is over.                 *)
GetDone(h) ==
    /\ Reads(h, "bodies", "Done")
    /\ Answer(h, IF h = Listener THEN <<Msg("Done")>> ELSE <<>>)
    /\ Goto(h, "idle")
    /\ UNCHANGED <<dag, round_vars, clean, timeouts, refusals>>

(* h stops reading: its peer is gone, or its message does not decode ...    *)
GiveUp(h) ==
    /\ pc[h] # "idle"
    /\ \/ inbox[h] = <<>> /\ pc[Peer(h)] = "idle"
       \/ inbox[h] # <<>> /\ ~Decodes(Head(inbox[h]))
    /\ inbox' = [inbox EXCEPT ![h] = <<>>]
    /\ Goto(h, "idle")
    /\ clean' = FALSE
    /\ UNCHANGED <<dag, round_vars, timeouts, refusals>>

(* ... or its peer has been silent for the read timeout.  A listener that   *)
(* times out among the bodies takes that for the end and says Done.         *)
TimeOut(h) ==
    /\ pc[h] # "idle" /\ inbox[h] = <<>> /\ pc[Peer(h)] # "idle"
    /\ timeouts < MaxTimeouts
    /\ timeouts' = timeouts + 1
    /\ inbox' = [inbox EXCEPT
                    ![Peer(h)] = IF h = Listener /\ pc[h] = "bodies"
                                 THEN Append(@, Msg("Done")) ELSE @]
    /\ Goto(h, "idle")
    /\ clean' = FALSE
    /\ UNCHANGED <<dag, round_vars, refusals>>

(* Another thread of h accepts a vertex of a wallet, a miner or a gossip.   *)
LocalArrival(h) ==
    /\ \E t \in Fresh :
          /\ Receivable(dag[h].graph, t)
          /\ dag' = [dag EXCEPT ![h] = accept_wire_vertex(@, t).dag]
    /\ UNCHANGED <<pc, inbox, round_vars, clean, timeouts, refusals>>

Handshake == GetPing \/ GetPong \/ GetTheirInventory \/ GetInventory
             \/ GetTheirNeed \/ GetTheirHave \/ GetNeed

Next ==
    \/ Connect
    \/ Handshake
    \/ \E h \in Hubs :
          GetBody(h) \/ RefuseBody(h) \/ GetDone(h) \/ GiveUp(h) \/ TimeOut(h)
          \/ LocalArrival(h)

Spec == Init /\ [][Next]_vars

(* The dialer calls again however a session ended; a thread with a message  *)
(* to read reads it, one whose peer is gone notices.  The third conjunct is *)
(* weak fairness of the reading actions of h, which are enabled whenever    *)
(* there is a message (NeverBothWaiting says so) and are the only ones that *)
(* consume one.                                                             *)
HasMessage(h) == inbox[h] # <<>> /\ Decodes(Head(inbox[h]))

FairSpec ==
    /\ Spec
    /\ WF_vars(Connect)
    /\ \A h \in Hubs : WF_vars(GiveUp(h))
    /\ \A h \in Hubs :
          \/ []<>~HasMessage(h)
          \/ []<><<HasMessage(h) /\ inbox'[h] = Tail(inbox[h])>>_vars

-----------------------------------------------------------------------------
Stored(h) == VertexSet(dag[h].graph)

SameGraph == Stored(Dialer) = Stored(Listener)

(* Type correctness.                                                        *)
TypeOK ==
    /\ \A h \in Hubs : IsReplica(dag[h])
    /\ pc[Dialer] \in {"idle", "pong", "inventory", "need", "bodies"}
    /\ pc[Listener] \in {"idle", "ping", "their_inventory", "their_need",
                         "their_have", "bodies"}
    /\ \A h \in Hubs : \A n \in DOMAIN inbox[h] :
          inbox[h][n].kind \in {"Ping", "Pong", "SyncInventory", "Need", "Have",
                               "DagTransaction", "Done"}
    /\ {remote.tips, remote.recent, wanted} \cup {offered[h] : h \in Hubs}
          \subseteq SUBSET TxHash
    /\ clean \in BOOLEAN
    /\ timeouts \in 0 .. MaxTimeouts
    /\ refusals \in 0 .. MaxRefusals

(* The two sides of run_sync_round read and write in matching order: they   *)
(* never both wait for a message that nobody has sent, whoever gave up in   *)
(* an earlier round, and none finds a message it did not expect.            *)
NeverBothWaiting ==
    /\ \E h \in Hubs : pc[h] = "idle" \/ inbox[h] # <<>>
    /\ \A h \in Hubs :
          HasMessage(h) => Expects(h, Head(inbox[h]).kind)

(* Bodies travel in attach order and are complete below, so that in a round *)
(* that nothing disturbs the receiver can store every single one, although  *)
(* both graphs may grow between the inventories and the bodies.             *)
EveryBodyIsStored ==
    [][\A h \in Hubs :
          (GetBody(h) /\ clean) => Head(inbox[h]).tx.id \in VertexSet(dag'[h].graph)]_vars

(* A round that nothing disturbs leaves each hub with everything the other  *)
(* had stored when it sent its inventory.                                   *)
RoundDelivers ==
    [][(GetDone(Dialer) /\ clean) =>
          /\ offered[Listener] \subseteq Stored(Dialer)
          /\ offered[Dialer] \subseteq Stored(Listener)]_vars

(* The conflict rule depends on the graph alone: hubs with the same         *)
(* vertices, met in whatever order, agree on the winner of every nonce as   *)
(* soon as both decide it anew.                                             *)
SameGraphSameWinners ==
    SameGraph => Losers(dag[Dialer].graph) = Losers(dag[Listener].graph)

(* The mesh stays in sync: once no wallet or miner brings new vertices, the *)
(* hubs end up with the same vertices, whatever timeouts and refusals broke *)
(* some of the rounds.                                                      *)
EventuallySameGraph == <>[]SameGraph
=============================================================================
