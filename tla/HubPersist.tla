------------------------------ MODULE HubPersist ------------------------------
(***************************************************************************)
(* A hub process around one DAG replica and its data directory.  Threads   *)
(* (mesh sessions, the gossip consumer, the miner) attach vertices under   *)
(* the replica's lock, release it, and take it again to persist: append    *)
(* the vertex to the write-ahead log, then replace the snapshot.  The      *)
(* process can die between any two of these steps, or in the middle of an  *)
(* append; a restart rebuilds the replica from snapshot and log.           *)
(*                                                                         *)
(* Of a snapshot only the faucet map is read back; the snapshot is written *)
(* to a temporary file and renamed, so it is never torn.                   *)
(***************************************************************************)
EXTENDS ReplicaFacts

CONSTANTS
    Threads,        \* the threads that attach vertices
    NoThread,       \* the holder of a free lock
    Miner,          \* the thread of them that mines, if any does
    MinerAccount,   \* the account the miner signs for
    Vertices,       \* the signed vertices that peers send or the miner signs
    InitialFaucet,  \* the credits an operator made before the hub started
    TornAppends,    \* may a crash cut an append short?
    MaxCrashes      \* bound: how often the process dies

ASSUME HubPersistAssumption ==
    /\ NoThread \notin Threads
    /\ MinerAccount \in Address
    /\ InitialFaucet \in [Address -> 0 .. U64_MAX]
    /\ TornAppends \in BOOLEAN
    /\ MaxCrashes \in Nat

ASSUME HubPersistVertices == AreVertices(Vertices)

(* 64 bits hold what these vertices, the credits and the dust add up to.    *)
ASSUME HubPersistRoom ==
    /\ RoomForVertices(Vertices)
    /\ Total(InitialFaucet) + FIXED_TRANSACTION_FEE + 1 + HARD_CAP <= U64_MAX

VARIABLES
    dag,      \* the replica in memory; of a dead process, what it last held
    pc,       \* what each thread does next
    job,      \* the vertex each thread has attached and must persist
    lock,     \* the thread inside persist_vertex, or NoThread
    wal,      \* the records of the log, whole or cut short
    snap,     \* the faucet map of the snapshot file
    up,       \* is the process running?
    crashes,  \* how often it died
    mined     \* the shares the miner has signed; peers may hold them

vars == <<dag, pc, job, lock, wal, snap, up, crashes, mined>>

(* Genesis is in no log, so it marks an idle thread.                        *)
NoJob == [th \in Threads |-> signed_genesis_tx]

Idle == [th \in Threads |-> "idle"]

Record(t, whole) == [vertex |-> t, whole |-> whole]

Available == {t \in Vertices : Receivable(dag.graph, t)}

(* Only the miner signs its shares, so peers return those it signed.        *)
Received == {t \in Available : t.sender = MinerAccount => t \in mined}

-----------------------------------------------------------------------------
(* Reading the directory back.                                             *)

(* read_wal stops at the first record that does not check.                  *)
ReadWal(log) ==
    LET torn == {n \in DOMAIN log : ~log[n].whole}
        read == IF torn = {} THEN log ELSE SubSeq(log, 1, Min(torn) - 1)
    IN  [n \in DOMAIN read |-> read[n].vertex]

(* Of a snapshot of the replica, what a restart takes from it.              *)
from_dag_with_faucet(d) == d.faucet

(* DagStore::load succeeds and returns d: genesis, the faucet, the log, and *)
(* a rebuild.                                                               *)
Loads(log, faucet, d) ==
    \E replayed \in {Recovered(ReadWal(log), faucet)} :
        /\ replayed.verdict = "Ok"
        /\ \E rebuilt \in {resolve_conflicts_and_rebuild_ledger(replayed.dag)} :
              rebuilt.verdict = "Ok" /\ d = rebuilt.dag

-----------------------------------------------------------------------------
Init ==
    /\ Loads(<<>>, InitialFaucet, dag)
    /\ pc = Idle
    /\ job = NoJob
    /\ lock = NoThread
    /\ wal = <<>>
    /\ snap = InitialFaucet
    /\ up = TRUE
    /\ crashes = 0
    /\ mined = {}

(* A plausible fault of IsNew: a spend stored as a loser is not persisted.  *)
IsNewWinner(accepted, t) ==
    accepted.verdict = "Ok" /\ t.id \notin DOMAIN accepted.dag.conflicts

(* accept_wire_vertex returned Ok(true).                                    *)
IsNew(accepted, t) == accepted.verdict = "Ok"

(* HubState::ingest, first half: accept the vertex under the lock and       *)
(* release it; only a new vertex goes on to be persisted.                   *)
Ingest(th) ==
    /\ up /\ lock = NoThread /\ pc[th] = "idle" /\ th # Miner
    /\ \E t \in Received :
          LET accepted == accept_wire_vertex(dag, t)
          IN  /\ dag' = accepted.dag
              /\ IF IsNew(accepted, t)
                 THEN /\ pc' = [pc EXCEPT ![th] = "attached"]
                      /\ job' = [job EXCEPT ![th] = t]
                 ELSE UNCHANGED <<pc, job>>
    /\ UNCHANGED <<lock, wal, snap, up, crashes, mined>>

(* The dust a tick credits so that the first share can pay its fee.         *)
Dust(d) ==
    LET need == FIXED_TRANSACTION_FEE + 1
    IN  IF Cardinality(VertexSet(d.graph)) <= 1
        THEN SaturatingSub(need, d.ledger.balances[MinerAccount]) ELSE 0

(* A plausible fault of AfterTick: the dust is not saved before the share.  *)
AfterTickUnsaved(dust) == "attached"

AfterTick(dust) == IF dust > 0 THEN "dusted" ELSE "attached"

(* miner_tick: on a genesis-only graph credit the dust of the first share,  *)
(* then compose a vertex of one unit and attach it, all under the lock.     *)
MinerTick(th) ==
    LET dust  == Dust(dag)
        ready == credit_account(dag, MinerAccount, dust)
    IN  /\ up /\ lock = NoThread /\ pc[th] = "idle" /\ th = Miner
        /\ ready.ledger.balances[MinerAccount] >= FIXED_TRANSACTION_FEE + 1
        /\ \E t \in Available :
              LET attached == attach_and_verify_tx(ready, t)
              IN  /\ t.sender = MinerAccount /\ t.amount = 1
                  /\ t.nonce = ready.ledger.next_nonce[MinerAccount]
                  /\ <<t.parent_1, t.parent_2>> \in ParentChoices(ready.graph)
                  /\ attached.verdict = "Ok"
                  /\ dag' = attached.dag
                  /\ pc' = [pc EXCEPT ![th] = AfterTick(dust)]
                  /\ job' = [job EXCEPT ![th] = t]
                  /\ mined' = mined \cup {t}
        /\ UNCHANGED <<lock, wal, snap, up, crashes>>

(* mine_loop writes a snapshot after a dust credit, before it records the   *)
(* share.                                                                   *)
SnapshotDust(th) ==
    /\ up /\ lock = NoThread /\ pc[th] = "dusted"
    /\ snap' = from_dag_with_faucet(dag)
    /\ pc' = [pc EXCEPT ![th] = "attached"]
    /\ UNCHANGED <<dag, job, lock, wal, up, crashes, mined>>

(* A plausible fault of AppendVertex: the replica is not locked meanwhile.  *)
AppendUnlocked(th) ==
    /\ up /\ lock = NoThread /\ pc[th] = "attached"
    /\ wal' = Append(wal, Record(job[th], TRUE))
    /\ pc' = [pc EXCEPT ![th] = "logged"]
    /\ UNCHANGED <<dag, job, lock, snap, up, crashes, mined>>

(* persist_vertex, under the locks: append the vertex to the log ...        *)
AppendVertex(th) ==
    /\ up /\ lock = NoThread /\ pc[th] = "attached"
    /\ lock' = th
    /\ wal' = Append(wal, Record(job[th], TRUE))
    /\ pc' = [pc EXCEPT ![th] = "logged"]
    /\ UNCHANGED <<dag, job, snap, up, crashes, mined>>

(* A plausible fault of WriteSnapshot: the lock is never let go.            *)
WriteSnapshotAndHold(th) ==
    /\ up /\ pc[th] = "logged"
    /\ snap' = from_dag_with_faucet(dag)
    /\ pc' = [pc EXCEPT ![th] = "idle"]
    /\ job' = [job EXCEPT ![th] = signed_genesis_tx]
    /\ UNCHANGED <<dag, lock, wal, up, crashes, mined>>

(* ... then replace the snapshot and let go.  (Every eighth vertex replaces *)
(* it twice, with the same contents, since the lock is held.)               *)
WriteSnapshot(th) ==
    /\ up /\ pc[th] = "logged"
    /\ snap' = from_dag_with_faucet(dag)
    /\ lock' = NoThread
    /\ pc' = [pc EXCEPT ![th] = "idle"]
    /\ job' = [job EXCEPT ![th] = signed_genesis_tx]
    /\ UNCHANGED <<dag, wal, up, crashes, mined>>

(* The process dies.  If it was appending, part of the record may be left.  *)
Crash ==
    /\ up /\ crashes < MaxCrashes
    /\ \/ UNCHANGED wal
       \/ /\ TornAppends /\ lock = NoThread
          /\ \E th \in Threads :
                pc[th] = "attached" /\ wal' = Append(wal, Record(job[th], FALSE))
    /\ up' = FALSE
    /\ crashes' = crashes + 1
    /\ pc' = Idle
    /\ job' = NoJob
    /\ lock' = NoThread
    /\ UNCHANGED <<dag, snap, mined>>

(* A hub whose log does not load does not start; one that does saves what   *)
(* it read back before it opens its port.                                   *)
Boot ==
    /\ ~up
    /\ Loads(wal, snap, dag')
    /\ snap' = from_dag_with_faucet(dag')
    /\ up' = TRUE
    /\ UNCHANGED <<pc, job, lock, wal, crashes, mined>>

Next ==
    \/ \E th \in Threads :
          Ingest(th) \/ MinerTick(th) \/ SnapshotDust(th)
          \/ AppendVertex(th) \/ WriteSnapshot(th)
    \/ Crash
    \/ Boot

Spec == Init /\ [][Next]_vars

(* A running thread that holds a vertex keeps going: the OS schedules it    *)
(* and hands it the lock once that stays free.  Nothing obliges anybody to  *)
(* send a vertex, or to restart a dead hub.                                 *)
Fairness ==
    \A th \in Threads :
        WF_vars(SnapshotDust(th)) /\ WF_vars(AppendVertex(th)) /\ WF_vars(WriteSnapshot(th))

FairSpec == Spec /\ Fairness

-----------------------------------------------------------------------------
(* What the log holds.                                                     *)

LoggedIds == {wal[n].vertex.id : n \in {m \in DOMAIN wal : wal[m].whole}}

StoredIds == VertexSet(dag.graph) \ {GenesisId}

(* The vertices of a log that come after both of their parents' records.    *)
InOrder(txs) ==
    LET kept[n \in 0 .. Len(txs)] ==
            IF n = 0 THEN {GenesisId}
            ELSE IF {txs[n].parent_1, txs[n].parent_2} \subseteq kept[n - 1]
                 THEN kept[n - 1] \cup {txs[n].id} ELSE kept[n - 1]
    IN  kept[Len(txs)]

-----------------------------------------------------------------------------
(* The shares of a miner that has no other income.                         *)

(* What miner_tick composes on genesis alone.                               *)
FirstShare(t) == t.sender = MinerAccount /\ {t.parent_1, t.parent_2} = {GenesisId}

(* An id is the hash of what is signed, and that is the same every time:    *)
(* one unit to the same account with the first nonce.                       *)
OneFirstShare ==
    \A t, u \in Vertices : FirstShare(t) /\ FirstShare(u) => t.id = u.id

(* The miner's shares cost something, and nobody else pays its account.     *)
MinesAlone ==
    \A t \in Vertices :
        IF t.sender = MinerAccount THEN t.amount >= 1
        ELSE t.recipient # MinerAccount /\ MinerAccount \notin ToSet(t.relays)

-----------------------------------------------------------------------------
(* Type correctness of the process and its directory.                       *)
TypeOK ==
    /\ IsReplica(dag)
    /\ pc \in [Threads -> {"idle", "dusted", "attached", "logged"}]
    /\ lock \in Threads \cup {NoThread}
    /\ \A th \in Threads : pc[th] = "logged" <=> lock = th
    /\ snap \in [Address -> 0 .. U64_MAX]

(* Between the attach and the append the vertex lives in memory only.  A    *)
(* running hub never forgets to log it: each stored vertex is in the log or *)
(* is still carried by a thread; conflict losers are no exception.          *)
NothingForgotten ==
    up => StoredIds \subseteq LoggedIds \cup
            {job[th].id : th \in {x \in Threads : pc[x] \in {"dusted", "attached"}}}

(* mine_loop saves the dust before the share it pays for: wherever the      *)
(* process dies, no share that affects balances can be read from the log    *)
(* while its funds are missing from the snapshot.                           *)
LoggedSharesAreFunded ==
    (/\ up
     /\ \E t \in ToSet(ReadWal(wal)) :
           t.sender = MinerAccount /\ t.id \in Applied(dag))
    => snap = dag.faucet

(* A restart restores the records before the first torn one, except those   *)
(* that were logged before a parent was (and what was built on them):       *)
(* whatever conflicts they had, in whatever order they lost and won.        *)
RestartRestoresOrderedPrefix ==
    [][Boot => VertexSet(dag'.graph) = InOrder(ReadWal(wal))]_vars

(* A hub that met no conflict, and whose threads happened to log in attach  *)
(* order, restarts into the very replica it lost: graph, weights, balances, *)
(* nonces, relay credits, supply.                                           *)
QuietRestartKeepsReplica ==
    [][/\ Boot
       /\ Quiet(dag)
       /\ snap = dag.faucet
       /\ ReadWal(wal) = transactions_for_in_order(dag.graph, StoredIds)
       => dag' = dag]_vars

(* Every vertex the hub stores reaches its log unless the process dies      *)
(* first.                                                                   *)
StoredGetsLogged ==
    \A t \in Vertices :
        (up /\ t.id \in StoredIds) ~> (t.id \in LoggedIds \/ ~up)

-----------------------------------------------------------------------------
(* What the documentation promises and the code does not keep.              *)

(* "Restart restores the graph" (persist.rs): when every vertex of the      *)
(* graph has its record in the log, written in full, a restart brings the   *)
(* whole graph back.                                                        *)
RestartRestoresGraph ==
    [][Boot /\ StoredIds \subseteq LoggedIds
       => VertexSet(dag'.graph) = VertexSet(dag.graph)]_vars
=============================================================================
