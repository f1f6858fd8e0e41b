# A TLA+ development of kron-mesh

kron-mesh is a phone-mined payment network. Every payment is a *vertex* of a DAG
that approves two earlier vertices, pays a fixed fee, and mints a subsidy of which
80 percent go to the sender's phone (the "miner") and 20 percent to the phones
that relayed it. Phones and hubs keep replicas of the DAG, persist them, and
synchronise them pairwise over TCP. There is no block, no leader and no vote: which
of two competing spends counts is decided by each replica alone, from the graph.

Phones also meet without a network, carry each other's vertices, discover each other,
prove to each other that they are phones, and gossip; a desktop wallet sends payments
through a hub.

The modules here model the replica, the hub's persistence, its admission limits, the
synchronisation of two hubs, the offline meetups with the relay phone, the peer-to-peer
nodes with their handshake, routing table and gossip, and the desktop wallet with the
explorer it reads; TLC checks them on small instances and TLAPS proves what can be proved
for every instance. Paths below are relative to the
repository; `engine.rs` is `src/dag/engine.rs`, `mesh.rs` is `src/p2p/mesh.rs`, and so on.

## 1. Inventory

### The parts and how they interact

| Part | State | Operations | Code |
|---|---|---|---|
| Monetary policy | none (constants) | subsidy by era, 80/20 split, relay payouts | `src/economics`, `src/dag/minting.rs` |
| Vertices | none | canonical bytes, ids, signatures, relay sidecar | `src/dag/tx.rs` |
| DAG replica | vertices, attach order, weights, children, tips, conflicts; balances, nonces, relay credits, faucet, supply, counter | `attach_and_verify_tx`, `accept_wire_vertex`, `resolve_conflicts_and_rebuild_ledger`, `credit_account`, `choose_parents`, `parent_closure`, `transactions_for_in_order` | `src/dag/engine.rs` |
| Reconciliation | none | `SyncInventory::from_dag`, `collect_need`, `collect_have`, codecs | `src/dag/reconciliation.rs` |
| Hub state | replica and store behind mutexes, session counter, rate window | `ingest`, `persist_vertex`, `try_acquire_session`, `release_session`, `allow_new_vertex` | `src/p2p/mesh.rs` 153-296 |
| Store | `wal.log`, `snapshot.bin` | `load`, `append_vertex`, `save`, `read_wal` | `src/persist.rs` |
| Miner loop | none of its own | `miner_tick`, `mine_loop` | `src/kron/miner.rs`, `src/bin/kron-phone.rs` |
| Mesh session | the round's Need and Have lists | `run_sync_round` of dialer and listener, `recv_bodies_until_done` | `src/p2p/mesh.rs` 553-777 |
| Dial loops | none | call the hub again every 8 seconds, announce every 3 | `src/p2p/discovery.rs` |
| Offline meetup | two replicas, who brought which vertex | `mesh_handshake`, `merge_offline_graphs`, `exchange_and_merge` | `src/dag/sync.rs` |
| Wallet relay | inbound queue, bounded mempool, staged vertices, link and stop flags | `push_inbound`, `wallet_relay_step`, `take_flush` | `src/dag/wallet_relay.rs` |
| Gossip and peer sessions | bounded body store, map of senders, queue for the program; per connection an end on each side | INV, WANT and PAYLOAD, `connect`, `handle_inbound`, `spawn_session`, `broadcast` | `src/p2p/gossip.rs`, `node.rs` |
| Routing | buckets of contacts | `insert`, `gossip_targets`, `contains_overlay` | `src/p2p/routing.rs`, `peer.rs` |
| Discovery | beacons heard, what each dialling thread does next | `discovery_loop`, `spawn_hub_dial`, `spawn_peer_link` | `src/p2p/discovery.rs` |
| Handshake | per connection | Noise, then HELLO, CHALLENGE, AUTH, ACK | `src/p2p/handshake.rs`, `noise.rs` |
| Anti-bot and host check | none | checks of a quote, of the machine | `src/anti_bot`, `src/crypto/mobile_only.rs` |
| Explorer | index of the replica | rebuild, queries | `src/explorer` |
| Desktop wallet | key and nonce in memory, `wallet.json`, archives | launch, migration, onboarding, `sign_send` | `kron-wallet` |
| Programs | configuration | whom to dial, where to listen, what role to take | `src/bin`, `src/kron/bootstrap.rs` |

A hub is one process. Its mesh sessions, its gossip consumer, its miner and its dial
loops are threads that share one `HubState`: they call the replica under one mutex,
release it, and take it again to persist. Two hubs interact only through
messages: `Ping`/`Pong`, `SyncInventory`, `Need`, `Have`, `DagTransaction`, `Done`. A
node's gossip runs beside that: every connection has a thread on each side, which share the
table, the store, the map of senders and the queue for the program, each behind its own
mutex. The desktop wallet is a process of its own; it reads the explorer over HTTP and submits
a vertex in a mesh session. The store is read once, at start. An operator's credit edits the store from another process.

### What is hard

* **Order.** Vertices arrive in any order; weights, tips, children and the ledger are
  maintained incrementally, and a conflict throws the ledger away and replays the graph.
* **Two sections, one lock.** Accepting a vertex and logging it are separate critical
  sections, so log order and attach order differ.
* **Crashes** between those sections, or inside an append.
* **Lockstep over TCP.** Both sides of a round read and write in a fixed order with
  timeouts, while other threads grow both graphs.
* **Limits.** Ancestor walks stop at 1024 vertices, hash lists at 4096, sessions at 64,
  vertices at 32 per ten seconds.
* **Sessions that replace each other.** A peer that connects twice has two sessions under one
  key; the one that ends first removes the sender of the other. A body may leave the bounded
  store between its announcement and the request for it.
* **Half-done work.** A merge that fails half way keeps what it stored; the archive of a wallet
  file is a copy, a removal and a new file; the hub attaches a payment, lets go of the lock
  and indexes it later; the acknowledgement of a payment gets lost.
* **u64 arithmetic**, checked in some places and saturating in others.

`PROJECT.json` lists each hazard at its line with the properties that cover it.

### What makes each part correct

* *Replica*: the graph's redundant fields agree; units are neither created nor lost;
  each nonce is spent at most once and none is skipped; supply follows the schedule; only
  a conflict reopens the past; conflicts are decided by rank.
* *Persistence*: nothing a running hub stores is forgotten; a restart restores what the
  log holds, in order; a share never outlives the credit that pays for it.
* *Admission*: never more sessions than slots, no slot leaks, a bounded number of
  vertices per span of time.
* *Synchronisation*: the two sides never both wait; bodies arrive in an order in which they
  can be stored; an undisturbed round delivers everything it promised; hubs converge
  once nothing new is created; equal graphs have equal winners.
* *Meetups*: balances count exactly the vertices a completed merge or an attach has settled;
  only proofs of relaying are paid; the relay phone passes on in order what it does not
  have to drop.
* *Peers*: only peers that proved themselves to each other exchange anything; no prefix fills
  a bucket of the table; the program is handed a vertex once per stay in the store; what is
  announced arrives.
* *Wallet*: no key that may hold funds is lost; no nonce that was reported as spent is signed
  again; the explorer ends up telling the truth about the replica.

## 2. Modules

```
Economics -> DagLedger -> DagGraph -> DagEngine -> ReplicaFacts     operators on one replica
                                                    |
       +----------------+--------------+------------+-------------+
       |                |              |                          |
    KronDag         HubPersist   Reconciliation             ExplorerIndex   WalletFile
                                   |         |                     |             |
                                 MeshSync  OfflineMerge              DesktopWallet
                                             |                           |
        CarrierStore <=refines= WalletRelay  |  DeviceGate      DesktopWalletProofs
                                    |        |    |    |
                                    |        |    |    |          Selection
                                    PhoneMeetup   |    |   RoutingTable GossipStore DialTargets
                                         |             |        |            |          |
                                PhoneMeetupProofs      +------- PeerNode --------------+
                                                                    |
HubAdmission -> HubAdmissionProofs                            PeerNodeProofs

ReplicaFacts -> ReplicaProofs -> KronDagProofs     (with KronDag)
                              -> HubPersistProofs  (with HubPersist)
                              -> MeshSyncProofs    (with MeshSync)
                              -> PhoneMeetupProofs (with PhoneMeetup)
                              -> DesktopWalletProofs (with DesktopWallet)
```

The replica is not a state machine of its own in the code: it is a struct whose methods
run under a lock. So its methods are *operators* on a record
`[graph, ledger, faucet, conflicts]` that return `[verdict, dag]`, and the modules with
variables (`KronDag`, `HubPersist`, `MeshSync`, `PhoneMeetup`, `DesktopWallet`) run those same
operators in five surroundings. Nothing about the replica is written twice.

### Economics, DagLedger, DagGraph, DagEngine, ReplicaFacts

* `Economics`: `get_current_tx_subsidy`, the split and the relay payouts. Amounts are
  constants, so that the runs reach a halving and the cap.
* `DagLedger`: the checks of a spend in the order of the code (nonce, overflow,
  balance), what a spend and a mint do, and the replay loop of a rebuild. The three
  partial failures of the code are kept: a mint that overflows keeps the credits it made;
  an apply that overflows in the mint keeps the spend; a replay that meets an overflow
  stops with half a ledger.
* `DagGraph`: insertion with its incremental weights, tips and children;
  the bounded ancestor walk (depth first, a stack, stopped at `ANCESTOR_WALK_BOUND`);
  conflict rank and winners.
* `DagEngine`: the public methods. `accept_wire_vertex` falls back to storing a spend
  that lost its nonce or its funds and then rebuilds; `attach_and_verify_tx` refuses it.
  `ReplayRecord`, `CreditAll` and `Recovered` are what a start makes of a log and a faucet
  map; `HubPersist` boots with them, and the hubs of `MeshSync` start from them.
* `ReplicaFacts`: the correctness predicates of one replica, shared by the modules above it.

A vertex is a record; its id is a natural number because the conflict rule compares id
bytes. Signature, address, fee and relay-proof checks are the one flag `wellformed`.
`Receivable` states what hashing means: no two vertices with one id and different signed
fields, nor two ids for the same fields. The relay sidecar is *not* signed, as in
the code, and the instances contain one vertex under two sidecars.

### KronDag

One variable, `dag`. Actions: `AcceptWireVertex`, `AttachAndVerify`, `ComposeAndAttach`
(own nonce, own parent choice), `CreditAccount`. The walk that picks two tips is replaced
by a nondeterministic choice of stored tips (`ParentChoices`), of which the code's
walk is one.

### HubPersist

| Variable | Code |
|---|---|
| `dag` | `HubState.dag` |
| `pc`, `job` | the position of a thread between `ingest`, `persist_vertex` and their returns, and the vertex it carries |
| `lock` | the `dag` mutex while `persist_vertex` holds it over the append and the save |
| `wal`, `snap` | `wal.log`, the faucet section of `snapshot.bin` |
| `up`, `crashes`, `mined` | process life; which shares exist |

`Ingest` is the first critical section of `HubState::ingest`; `AppendVertex` and
`WriteSnapshot` are the two I/O steps inside `persist_vertex`, between which the process can
die. `MinerTick` is `miner_tick`; `SnapshotDust` is the save that `mine_loop` makes
after a dust credit. `Crash` may cut the append in progress short; `Boot` is
`DagStore::load`, and a hub whose log does not load does not start. Of a snapshot only the
faucet map is read back (the rest is rebuilt from the log), and snapshots are written to a
temporary file and renamed, so they are never torn.

### HubAdmission

`TryAcquire` and `UndoAcquire` are the two atomic steps of `try_acquire_session`
(`fetch_add`, then `fetch_sub` if the old value was at the limit); other threads run
between them. `ReleaseSession` is the drop of `SessionGuard`. `OfferVertex` is
`allow_new_vertex` under its mutex; `Tick` is time. `spent`, `verdict` and `recent`
are history variables.

### Reconciliation and MeshSync

`Reconciliation` holds the inventory and list computations and the decoders' limits.
`MeshSync` runs `run_sync_round` of both sides, one action per message read (a thread writes
what it owes and then blocks in the next read, so reading is the only point at which
it can be overtaken). Per hub: `dag`, `pc` (the read its session waits in) and `inbox` (the
FIFO stream towards it). `remote` and `wanted` are locals of the listener.
`GetPing` ... `GetNeed` are the lockstep part, `GetBody`, `RefuseBody` and `GetDone` the receiving
loop, `GiveUp` and `TimeOut` its error exits, `Connect` the dial loop, `LocalArrival`
every other thread of the hub. In `RefuseBody` the rate window refuses: any body,
at any time, which covers every schedule of `HubAdmission`'s window.

Two facts of the code are easy to miss and are kept here: the listener ignores the Have list it
computed, and both sides ignore the verdict of `ingest`.

### OfflineMerge, WalletRelay, DeviceGate and PhoneMeetup

* `OfflineMerge`: `merge_offline_graphs` with its topological order (Kahn's algorithm over the
  batch, ties by id), and `exchange_and_merge`. A merge that meets a missing parent half
  way returns what it has stored so far *without* the rebuild, as in the code.
* `WalletRelay`: the service of `wallet_relay.rs` with variables of its own: `inbound`, `mempool`,
  `flush_ready`, `link_up`, `stopped`, and `serving`, which says that relay mode has borrowed
  the interface, so nobody else can push, take or stop. `wallet_relay_step` is one duty cycle,
  including the check of the stop flag after it. `taken` is history.
* `CarrierStore`: what a relay promises, without mempool, staging or link: a queue that passes
  on in order and loses only the oldest of more than `Cap`. `WalletRelay` implements it
  under the mapping `waiting <- mempool \o Intercepted(inbound)`,
  `delivered <- taken \o flush_ready`.
* `DeviceGate`: the checks on a quote in their order, the score, and the host check.
* `PhoneMeetup` composes them: `Attach` (the owner of a phone), `Meet` (handshake, then one
  direction of the merge), `Hand`, `StartRelayMode`, `Relay`, `Deposit`, and `DepositAsRelay`,
  which on a machine that is no phone takes the batch and loses it. `relay_of` is the map that
  notes carriers; `limbo` is history: stored by a failed merge and not replayed since.

### Selection, RoutingTable, GossipStore, DialTargets and PeerNode

| Variable of `PeerNode` | Code |
|---|---|
| `network` | how each program was started (`DialTargets`), and which links there are |
| `next`, `dials`, `announced`, `seen` | locals of `spawn_hub_dial`, `spawn_peer_link`, `discovery_loop` |
| `kind`, `pc`, `inbox` | per connection what it was dialled for; per end the place of its thread and the stream towards it |
| `cmds`, `sessions` | the channel of each session, and `P2pNode.sessions`: peer to sender |
| `table`, `store`, `delivered`, `attached` | the fields of `P2pNode` |
| `known` | what the program around the node has |
| `receipts`, `evictions`, `interrupts` | history and a bound |

A link is a thread that dials; its k-th connection is `<<link, k>>` and has a caller's and a
callee's end, each with its own thread. `connect` is TCP, Noise and HELLO; `GetHello`,
`GetChallenge`, `GetAuth`, `GetAck` are `responder_flow` and `initiator_flow`, one action per
frame read; the table is updated where the code does it: a denial ends the
caller's session but not the callee's. `GetFirst` is the fork of `handle_inbound` into gossip
or mesh; `ServeMesh` stands for a whole round, which is `MeshSync`'s. `WriteInv`, `GetInv`,
`GetWant`, `GetPayload` are the loop of `spawn_session`; `PeerGone` and `Interrupt` its ends, which
remove whatever sender is registered under the peer, as the code does. Each synchronisation comes
under a new key, so it leaves a contact of its own in the table; the connection stands for
the key. `Compose` and `take_delivered` are the program. `DialTargets` are pure operators:
which addresses a program gets from command line, environment, file and default, which port it
binds, its role, whether it gossips, whose beacons reach it. `Selection` has the two passes over
lists that several modules share: `Selected`, the filter of the store, of the table and of the
explorer's rows, and `Ascending`, the sort of a set of ids, in the order of a batch and of the rows.

### ExplorerIndex, WalletFile and DesktopWallet

* `ExplorerIndex`: `sync_from_dag` throws the index away and builds it from the replica;
  `dispatch` is the query API; `fetch_view` and `fetch_compose` the wallet's side.
* `WalletFile`: what the launch makes of the file it finds: open, archive, create, or fail.
* `DesktopWallet`: `phase` is the step of the launch, so that the process can die between the
  copy, the removal and the new file of an archive (`CopyLegacy`, `RemoveLegacy`,
  `CreateNew`). `SavePhrase`, `Back`, `confirm_quiz` are the screens. `sign_send` is split at its
  only wait: ask, sign and submit; then `Acknowledged` or `BroadcastFailed`, which may happen
  whatever the hub did (a lost `Done`). At the hub, `serve_wallet_submit` attaches under the
  lock, `persist_vertex` locks again and rebuilds the index; `MineShare` is the hub's
  miner in between. Every disk operation may fail; `Crash` closes the wallet at any step.
  `behind`, `replaced` and `found` are history.

## 3. What is checked

Run `tlc -config MCKronDag_forks.cfg MCKronDag` and so on. Runs marked *violated* state what
a document or comment of the repository promises and show a behaviour of the code that
breaks it.

| Run | Instance | Result |
|---|---|---|
| `MCKronDag_forks` | one replica, 10 vertices over 7 ids, credits | holds, 26 476 states |
| `MCKronDag_weight` | the same | `HigherWeightWins` violated |
| `MCKronDag_keep` | the same | `ConflictKeepsOneSpend` violated |
| `MCHubPersist_crash` | a session, the miner, 2 crashes, torn records | holds, 593 775 states |
| `MCHubPersist_order` | two sessions, 1 crash, no torn records | `RestartRestoresGraph` violated |
| `MCHubAdmission_limits` | 4 threads, 2 slots, budget 2, window 3 | holds, 5 998 states, no deadlock |
| `MCHubAdmission_budget` | the same | `BudgetIsPerPeer` violated |
| `MCMeshSync_rounds` | two hubs with rival histories, 2 fresh vertices, 2 timeouts, 2 refusals | holds, 130 383 states |
| `MCMeshSync_late` | a dialer that has only genesis, a walk bound below the chain | `EventuallySameGraph` violated |
| `MCPhoneMeetup_carry` | two phones with rival spends, a relay phone with a mempool of 2 that is handed good and stray vertices, 3 machines | holds, 85 102 states |
| `MCPeerNode_peers` | 2 phones, a hub, an emulator, a server in a datacenter; 7 networks; stores of 1, buckets of 2, 1 contact per /24, 1 interruption | holds, 73 802 states |
| `MCDesktopWallet_wallet` | 4 files the launch may find, 2 new keys (symmetric), 2 payments, 1 failing disk operation, 1 crash | holds, 1 386 544 states |

### One replica (`MCKronDag_forks`)

The family `MCForks` has two rivals for one nonce (under either order of their ids, and one
of them under two relay sidecars), a second spend of the same sender on top of one of them,
a vertex that approves both, a rival that the sender cannot pay, a vertex that raises the
weight of either side, and a malformed one. Every order of arrival over either entry point,
with credits in between, is explored; a halving, a subsidy clamped by the cap, and the cap itself are reached.

* `TipsAreConsistent`, `AttachOrderIsTopological`, `WeightsCountApprovers`: the
  incremental fields agree with their definitions. The reference definition of weights is a
  least fixpoint, independent of the walk.
* `Conservation`, `SupplyFollowsSchedule`, `OneSpendPerNonce`: the ledger, after any
  mix of incremental application and replay.
* `QuietReplicaSurvivesRebuild`: without conflicts, a rebuild gives the incremental ledger
  back; the one exception is the genesis account's nonce, which a rebuild resets to 0.
* `OnlyConflictsReopenThePast`, `ConflictDecidedByRank`: what may take back a
  spend that already counted, and on which grounds.
* `HigherWeightWins` fails: a loser is recorded when the conflict arrives; later attaches
  add weight to it without a new decision, while README.md:340 promises that the heavier
  spend wins. A restart of that replica flips the winner.
* `ConflictKeepsOneSpend` fails: the rival that wins by rank may be unpayable on the
  replay; the spend it beat stays a loser, so *neither* counts, against the contract
  in engine.rs:629-630 ("exactly one of the spends affects balances").

### A hub that crashes (`MCHubPersist_*`)

Phone A has credit and three spends of which two contest a nonce; the miner needs dust for
its first share; its second share approves a share and a spend. Two crashes are enough
for "crash, restart, log behind a torn record, crash again".

* `NothingForgotten`: every stored vertex is logged or still carried by a running thread.
* `LoggedSharesAreFunded`: wherever the process dies, no share can be read from
  the log whose dust is missing from the snapshot.
* `RestartRestoresOrderedPrefix`: what a restart restores, exactly: the records before the
  first torn one whose parents' records precede them.
* `QuietRestartKeepsReplica`: a hub without conflicts restarts into the very replica it was.
* `StoredGetsLogged` (liveness): a stored vertex reaches the log unless the process dies.
* `RestartRestoresGraph` fails with two sessions: the second logs a child before the first
  has logged its parent; both records are whole, and `load` skips the child. persist.rs:5 and
  :126 say "Restart restores the graph."

A record appended after a torn one is unreadable for good, since every reader stops at the
torn one: the model keeps this, and `RestartRestoresOrderedPrefix` states it.

### Limits (`MCHubAdmission_*`)

More threads than slots, so that several overshoot the counter together. `AtMostMaxServing`
and `SlotsAccounted` hold whatever the interleaving; `AtMostTwoBudgetsPerSpan` is the exact
guarantee of a restarting window. `BudgetIsPerPeer` fails: mesh.rs:38 and :91 speak of a
limit per peer, but the window is a field of the hub, so a silent peer is refused because
another one was busy.

### Two hubs (`MCMeshSync_*`)

The dialer has a chain on one spend, the listener a chain on its rival; one fresh vertex
approves both chains, one only the listener's and is more than its sender can pay. Some
vertices have smaller ids than their parents, so sorting by id instead of attach order would
show.

* `NeverBothWaiting`: the lockstep fits together, and a reader never meets a message it did
  not expect, whoever gave up before.
* `EveryBodyIsStored`, `RoundDelivers`: in a round without timeouts and refusals every body
  is stored and both sides get what the other held when it sent its inventory,
  although both graphs grow meanwhile.
* `SameGraphSameWinners`: hubs with equal vertices compute equal losers, so weights do not
  depend on arrival order. (Equal *ledgers* do not follow; see section 6.)
* `EventuallySameGraph` (liveness): once nothing new is created the hubs converge. It
  fails in `MCMeshSync_late`: an inventory names a tip and at most `ANCESTOR_WALK_BOUND` + 1
  vertices below it, the listener ignores what it knows about the rest, and a vertex
  without its parents is refused. A phone that lacks more than about a thousand vertices of
  a chain never catches up, however many rounds it runs; README.md:251 says that
  phones join the hub "so the global mesh stays in sync".

### Phones that meet (`MCPhoneMeetup_carry`)

Phone a may attach a spend and a child of it, phone b a rival of the spend. The relay phone is
handed the spend and a stray vertex, whose parent is the null hash: the order of the batch
lets it pass, the merge refuses it after it has stored what came before. Three can be
carried, one more than the mempool holds. A deposit may fail half way, before or after a meeting.

* `LedgerCountsTheSettled`: what a failed merge has stored stays out of every balance, nonce
  and count, whatever is attached on top of it, until a merge succeeds; the ledger then counts
  it once, and units are conserved throughout.
* `OnlyProofsArePaid`: the carrier has relay credits exactly if a settled vertex has its
  proof. Bringing a vertex (`relay_of`) earns nothing; the same vertex stored earlier
  without the proof earns nothing either.
* `MeetingsDeliver`: whatever either phone merged or failed to merge before, the batch of a phone
  that is met is complete: the merge succeeds and stores all that the other has.
* `CarriesInOrder`: the relay phone implements `CarrierStore`.

### Peers (`MCPeerNode_peers`)

The seven networks: two phones that hear each other's beacons; a hub dialled by a phone and by a
phone miner, the phone on the next port since its own was taken; a hub that follows two
phones of one prefix and restores a vertex; and an emulator, then a server in a datacenter,
as caller and as callee. Stores of one message make every second message an eviction;
buckets of two with one contact per prefix make insertions fail.

* `OnlyProvenPeersTalk`: an end that takes gossip or a graph has a peer that proved itself on this
  very connection and that it proved itself to, on both sides; a registered sender leads to
  a session that runs and belongs to that peer. This is what the removal of a
  newer session's sender could break, and an accept path that skips a check.
* `PrefixesKeepToTheirShare`: whatever connects, reconnects and synchronises under new keys, the
  table lists proven peers only, each once, never the node itself, and within its caps.
* `HandedOverOncePerStay`: however many sessions offer a vertex, the program gets it once, and once
  more only for every eviction; what a node has in its store its program has or will get.
* `AnnouncementsArrive` (liveness): what a session is told to announce reaches the peer,
  unless the connection ends or the body was evicted.

### The desktop wallet (`MCDesktopWallet_wallet`)

The launch finds a legacy file, one with a stale key pair, one whose phrase was never
confirmed, or one of a newer version. The account can pay one of the two amounts. The
hub's miner attaches a share between a submission and its indexing.

* `KeysAreKept`: the key of a legacy file, and a key whose address was shown, is in the file, in an
  archive, or the user has its phrase, whichever disk operation fails and wherever the process
  dies. The exception is a file that would not load: the wallet goes on with a key in
  memory, and its first save replaces that file without an archive (`replaced`).
* `ExplorerCatchesUp`: once no session is between attach and rebuild, weights, tips, conflicts
  and nonces of the index are those of the replica by their *definitions*, and every payment
  reported to the user is in its history.
* `SpentNoncesAreNotReused`: the wallet signs no payment with a nonce it was told is spent,
  whether the explorer answers or not and across restarts, and once the index is rebuilt the
  explorer names no nonce of a reported payment that the ledger counts. Two things except a wallet
  from the first part (`behind`): a nonce whose save failed, and an explorer that lagged behind the
  replica and named an older nonce, which the wallet takes for its own (app.rs:214); if that
  payment fails and the explorer is then out of reach, the wallet's own guess is a nonce it was
  told is spent. It takes four payments to get there; the hub refuses the payment.
  A payment whose `Done` was lost and that the user sends again takes the next nonce and is
  paid twice: so the code means it.

### Bounds and why they are enough

* **Ids and vertices.** 5 to 7 ids per run. Conflicts need two rivals, weight changes one
  approver, "both lose" an unpayable rival, partial overlap of graphs a fork of depth two. One
  more vertex per role adds states and no new role.
* **Amounts.** In `MCKronDag_*` the cap is 9, the subsidy 4, halved every 2 vertices, the fee 1:
  the third vertex is in the second era and its subsidy of 2 is clamped to the 1 left; the
  fourth gets none. The era of `MAX_HALVINGS` is not reached (the cap comes first, as in the
  program). `U64_MAX` is 100 000,
  so nothing overflows: the overflow branches are in the operators, and no run has a vertex
  large enough yet.
* **Walk bound.** 16 exceeds every graph, except in `late`, where 2 is less than its chain of
  4, as 1024 is less than a chain of two thousand. `MAX_INVENTORY_HASHES` = 12 exceeds every
  list, so the refusal of an inventory that does not decode is reached in no passing
  run: such an inventory only grows.
* **Deadlock** is not checked (`CHECK_DEADLOCK FALSE`) where the instance runs out of things to
  do: all vertices attached, all dials made, all payments sent.
* **Peers.** The end of a connection, a refusal, an eviction and a denial each involve two
  nodes; the interplay of a table or a store with several peers needs three. Vertices in
  `PeerNode` do not depend on each other, as in the code's gossip. The two vertices and stores of
  one let each be news, known, evicted and news again. Two phones
  that hear each other dial each other, so two sessions under one key coexist; a link to a
  hub dials twice, to synchronise and then to gossip.
* **Wallet.** Two payments are needed for a nonce to be reused; one fault and one crash may hit
  any two of the steps of a launch, which has four.
* **Crashes, timeouts, refusals.** In the hub runs two each, so that a disturbance may hit a round that repairs
  an earlier one. `MaxFaucet` bounds credits, `MaxOffers` counts past the limit of a window.

### Fairness

* `HubPersist`: weak fairness of the steps of a thread that holds a vertex: the OS schedules
  it, and mutexes are handed on. No fairness of arrivals, of mining or of restarting.
* `MeshSync`: weak fairness of `Connect` (the dial loop calls again however a session ended),
  of `GiveUp` (a read from a closed connection returns), and of reading: a hub with a
  decodable message in its stream reads it. The last one is written out
  (`[]<>~HasMessage \/ []<><<...>>`) rather than as `WF`, because TLC evaluates
  `ENABLED` of actions that replay whole ledgers very slowly; it is the definition of weak
  fairness for the reading actions, which are enabled exactly when there is a
  message to read. No fairness of `TimeOut` is assumed, and timeouts against a live peer are
  finite; a peer that is slow in *every* round forever may prevent convergence.
* `PeerNode`: weak fairness of the thread of every session, once it is open: the OS schedules it,
  and its reads return. None of dialling, of beacons, of the handshake or of the program.
* Safety properties assume none.

## 4. What is proved

TLAPS checks every proof; `tlapm KronDagProofs.tla`, and so on for the other `...Proofs` modules.
The theorems hold for every value of the constants that meets the named assumptions; a
hypothesis a theorem needs beyond them is written in its statement.

### The replica, once for all (`ReplicaProofs`)

The lemmas speak of operators on a replica record, not of the actions of one module, so
`KronDag`, `HubPersist`, `MeshSync`, `PhoneMeetup` and `DesktopWallet` use the same ones.

* **Invariant.** `ReplicaState(d, Known)` says that the graph is sound (`GraphOK`: parents are
  stored, children invert parent links, tips are the childless vertices, the order lists
  exactly the stored vertices and is topological), that it came from the vertices `Known`,
  that the ledger is typed, conserves units and holds the supply of the schedule at its
  own counter (`LedgerOK`), and that losers are stored spends. None of these is inductive alone: tips survive an insertion only if the parents
  are stored and the child map is exact, and the ledger keeps its type only because the sum
  of all balances bounds each of them below 2^64.
* **Every method preserves it**: attach, insert, wire accept, rebuild, credit, and the start
  from a log (`Recovered`), including all the partial failures of `DagLedger`. A rebuild that
  aborts half way leaves a ledger of a prefix, and that ledger conserves units too.
* **Folds and recursive functions.** The induction theorems of the library take an operator and
  cannot be instantiated here. The proofs use well-founded induction over a *set*
  of counterexamples instead (`WFMin` over `NatLessThanWellFounded`): the replay of a rebuild, the
  relay payouts and the recovery from a log are each described as a *run*, a function from
  positions to states related step by step, and the least position that breaks a claim
  has a predecessor that does not.
* **The bounded walk.** Its measure is the length of the stack plus twice the number of
  unvisited vertices. A walk that does not reach the bound returns exactly the
  ancestors (a set closed under parents that contains nothing else), so the weights that are
  raised one by one equal the number of approvers in the least-fixpoint definition.
* **Counting.** `Counted(d)` ties the ledger to the graph: the counter is the number of stored
  spends that are no losers, and of each sender these carry the nonces below `next_nonce`, each
  once. It holds if amount plus fee of every known vertex fits in 64 bits (`Payable`). Without
  that it is false: a stored spend that overflows aborts every later rebuild, and the record
  of losers stays the old one (a hazard at `engine.rs:497`). `RoomFor` is the arithmetic room:
  faucet and cap together, the relay income and the nonces of all vertices fit in 64 bits.

### `KronDagProofs`

Assumptions: `KronDagAssumption` and those of the modules below it (ids are positive,
`NULL_PARENT` is 0, the policy is one of numbers with a subsidy that its split does not
exceed), and `KronDagRoom`: the vertices, the credits and the cap have room in 64 bits.

* `ReplicaInvariant`: the state invariant above along `KronDag`'s behaviours, and with it
  `TypeTheorem`, `TipsTheorem`, `OrderTheorem` and `ConservationTheorem`.
* `CountInvariant`, from it `SupplyTheorem` (issued supply is the schedule's sum
  over the counter), `NonceTheorem` and `RankTheorem`, all three if amounts are payable.
* `WeightTheorem`: weights count approvers, if the walk bound is no smaller than the number of ids.
  `MCMeshSync_late` shows how a smaller bound matters.
* `PastTheorem`: without a conflict nothing that counts stops counting. It needs no
  hypothesis on amounts: only the conflict path rebuilds.
* `QuietTheorem`: without conflicts a rebuild gives the ledger back, if amounts are payable and
  nobody spends with the genesis key (`GenesisKeyRests`: the program signs the genesis vertex
  with it and nothing else; a spend of that key would be attached with nonce 1, which a rebuild
  that skips genesis never reaches). The inductive invariant `QuietInv` says that a replay of *all*
  stored spends rejects nothing and ends in the incremental ledger. An attach appends one
  step to that replay (`SpendsAppend`, `ReplayAppend`). A credit changes its very
  first state, after which every step admits what it admitted before and the difference is
  carried to the end (`RicherReplay`: a richer account fails no balance check, and the mint
  depends on counter and supply only). A rebuild that leaves no loser was such a replay itself.

### `HubPersistProofs`

* `HubInvariant`: `DagInv` is the replica invariant over the shares and spends that may exist;
  `ThreadInv` is the lock discipline: a thread is between append and save iff it holds
  the lock, so at most one is, and whoever is not idle carries a vertex. `TypeTheorem` follows.
* `NothingForgottenTheorem`, if amounts are payable: a vertex in the replica is in the log or
  carried by a thread. The step that matters is `Boot`: what recovery restores is in the log,
  because a record is replayed only if it was read. With an amount that overflows, an ingest
  may report an error after it has stored the vertex, and its thread then logs nothing.
* `RestartTheorem`: a restart restores exactly the records whose parents' records precede
  them. Recovery skips the others and continues, and replaying a record never removes
  an earlier one.
* `FundedTheorem`: no share of the miner can be read back without its funds, by the invariant
  `FundInv`. While its credits buy no share, the miner holds exactly these credits (`Penniless`: all
  spends of others spare its account, and its own are refused, in every attach and in every
  rebuild), so only dust lets it mine. `DustInv` describes the interval between the credit and the
  first snapshot after it: the one share there is lies with the miner's thread, no readable
  record holds a share, and no other thread carries one. A peer may return the share in that interval; it is
  stored already, and so not logged by the thread that received it. `MinedInv` and
  `StoredInv` carry this over a crash: the share of an unsaved dust is lost with the process,
  and a first share that was logged is always restored (`FirstShareKept`), so that no
  later start finds genesis alone and credits dust again.

  It assumes `MinesAlone` (a share costs something and nobody else pays the miner's account)
  and `OneFirstShare` (all shares on genesis alone have one id), which `MCHubPersist` asserts of its
  instance. The second holds because an id is the hash of what is signed (`dag/tx.rs`), and a
  first share is always one unit to the same account with the first nonce on the same parents. The
  first is a restriction: in the program anybody may pay a miner, and a miner that was paid can mine
  a share without dust. Lost in a crash and returned by a peer while a fresh start has not yet saved
  its dust, that share may be readable although the dust is not on disk; it was paid for by
  the payment. The property is about dust only, and the theorem about miners that live on it.

* `QuietRestartTheorem`: `Spec => QuietRestartKeepsReplica`, if amounts are payable and the genesis
  key signs nothing (the hypotheses of `QuietTheorem`, and for its reasons). A replica that died and
  the one that is read back agree on two things. Their graphs: by `Built` every graph is what
  its bodies build when they are inserted in attach order, weights, tips and children included, so a
  log with these bodies in that order builds the same graph again (`RecordsBuild`: each
  of its records passes the checks of the graph it passed before, and a load that succeeded
  refused none). Their ledgers: by `Restartable` the rebuild that ends the load finds the incremental
  ledger, even to the nonce of the genesis account, which the load before it has already reset.

Assumptions: `HubPersistAssumption`, `HubPersistVertices`, `HubPersistRoom`.

### `MeshSyncProofs`

* `SessionInvariant`: both replicas meet the replica invariant, and the two sides are in a row
  of `Lockstep`, the table of all pairs of places with what may be in the two streams.
  A frame in a stream is described by what its sender was doing when it wrote it, and
  the rows are closed under every action, in particular under `GiveUp` and `TimeOut` of one
  side while frames of the other are still under way.
* `LockstepTheorem`: `[]NeverBothWaiting`, from the table: in no row do two running sessions wait
  with empty streams, nor does a reader face a frame it does not expect. `TypeTheorem` follows too.
* `WinnersTheorem`: equal graphs have equal losers, if no walk is cut. Losers depend on weight
  and id only; under `WalksUncut` the weight is the number of approvers, which is a function of
  the set of vertices, whatever the order of arrival was.
* `BodiesTheorem`: `Spec => EveryBodyIsStored`, and `RoundTheorem`: `Spec => RoundDelivers`, if
  amounts are payable (`Payable`) and no closure is cut (`ClosuresUncut`: fewer ids than the bound of
  a walk; `MCMeshSync_late` shows what is lost otherwise). `Lockstep` says which messages may be under
  way, not what they mean; `DeliveryInv` adds that for the rows an undisturbed round goes through:
  an inventory lists the graph it was made of (`Lists`), a Need names all of it that the other side
  lacks and brings every parent along (`Needed`), a Have names nothing whose parents would be missing
  (`Sound`), and the bodies still in the stream can be stored in their order and complete what was
  offered (`Due`). It has to allow for both graphs growing at any point of the round: `Lists` speaks
  of what the sender had then (`offered`, which stays closed under parents), and `Due` survives any
  vertex that arrives from elsewhere. `HaveIsClosed`, `NeedIsMissing` and `BodiesDue` are what
  `collect_have`, the need computation and the sorting by attach order do for it.

Assumptions: `MeshSyncAssumption`, `MeshSyncVertices` (histories and fresh vertices come from
`Vertices`), `MeshSyncHashes` (an id stands for what was signed), `MeshSyncRoom`.

### `HubAdmissionProofs`

For any finite set of threads and any limits:

* `SlotTheorem`, `ServingTheorem`, `AccountTheorem`: `SlotInv` is the type of `pc`, the
  exactness of the counter and the limit. The limit alone is not inductive: a thread is
  admitted because the counter it read was below the limit, which bounds the served sessions
  only as long as the counter covers them.
* `TypeTheorem`: `TypeOK`, which includes that no session exceeds the budget of a window; it
  needs `SlotInv` (a refused thread's decrement stays in `Nat`) and `SpentIsCounted`.
* `SpanTheorem`: at most twice the budget in any span of a window's length. `RateInv` splits the
  recent past at the start of the current window: what is younger is counted by the
  window and within its limit, what is older fits in the window before, and a window that has
  expired has left nothing behind its last instant. The sum over the span is then at most two limits.

### `PhoneMeetupProofs`

For any phones, any vertices and any capacity (`WalletRelayAssumption`: the capacity is
positive; `PhoneMeetupAssumption`; `PhoneMeetupRoom`: what circulates and the credits have room
in 64 bits):

* `RelayRefinesCarrierStore`: `Spec => CarriesInOrder`, the refinement, inside the composed
  system. `RelayInv` types the four queues; it is needed because `SubSeq` and `\o` mean
  something only on sequences. `StepsOfThePhone` reduces a step of the composition to one of
  the relay or a stutter; each of these is then a step of `CarrierStore` or a stutter
  (`DutyCycleRefines` for the one step that signs, evicts and stages at once).
* `TypeTheorem`: `Spec => []TypeOK`. `PhoneInv` is the replica invariant of every phone over
  `PhoneKnown` (what phones make, what the relay is handed, and both with the carrier's proof),
  what limbo and the record of carriers speak of is stored, and what the relay's queues hold is
  known. A merge inserts vertices
  one by one without touching the ledger; the graph is sound after each, the ledger is typed and
  conserves units whatever the graph holds, so a merge that stops half way keeps the invariant too.
* `SettledTheorem`: `Spec => []LedgerCountsTheSettled`, if amounts are payable. The counting
  invariant of a replica (`Counted`) is false after a merge that failed: the graph holds
  spends the ledger knows nothing of. `Standing` is what is left of it: the spends that are neither
  losers nor in limbo are what the ledger counts, each sender's with the nonces below its
  next one, each once. An attach on top of a limbo vertex extends it by one, and the rebuild of a merge that
  succeeds empties limbo and counts anew.
* `ProofsTheorem`: `Spec => []OnlyProofsArePaid`, if amounts are payable and the relays' part of the
  fee has a unit for each relay of a vertex (`SharesFit`; the code's fee of 1000 units pays 200
  relays, and a share of nothing would leave a relay without income). `Paying` says it of
  every account, not only the carrier's: relay income is positive exactly if a vertex that is
  neither a loser nor in limbo names the account. `RelaysCredited` follows one mint through its
  payouts (all are made, or the mint has failed), `ReplayPays` a rebuild through its vertices, and
  a merge that fails changes neither side.
* `DeliveryTheorem`: `Spec => []MeetingsDeliver`, if amounts are payable and no walk is cut
  (`ClosuresUncut`, as in `MeshSyncProofs`). `PhonesStocked` is the invariant it needs: all that a
  phone stores is well formed and has both parents, whatever stray vertices were handed to
  it, so that what it hands on passes every check. `MeetingNeed` says that what is asked for is
  all that is lacking. `Kahn` is the invariant of the ordering loop: what is ordered or queued
  is exactly what awaits nothing that is not ordered; from it `OrdersAll` concludes that a batch with a
  rank is ordered completely, each vertex after its parents, and the place in the attach order of
  the phone that is met is such a rank (`StoredAcyclic`). `FittingStored` follows the merge of a batch
  ordered that way: no vertex of it is refused.

### `PeerNodeProofs`

For any nodes, links, numbers of dials, networks, bucket function, limits and interruptions. The
assumptions, which TLC evaluates on the run: links dial at most `MaxDials` times and join nodes
there are, and the configured programs start (`PeerNodeAssumption`); no vertex is made by two
nodes, since its id is the hash of what its maker signed (`PeerNodeVertices`); a store
has room for one message at least (`GossipStoreAssumption`); there are finitely many buckets, and
every id has one (`RoutingTableAssumption`, `PeerNodeBuckets`).

* `TalkTheorem`: `Spec => []OnlyProvenPeersTalk`. The property speaks of one end; whether the peer
  has proved itself is known to the *other* end's past. The inductive invariant `TalkInv`
  therefore follows both ends at once: `Joint` lists every combination of the two places, the
  frames on their way between them, and what had been checked by the sender of each
  (`Opening`), up to the point where both have passed (`Proven`), after which neither place nor
  frame matters. `DialInv` says that connections not yet dialled are off, `SenderInv` that
  senders lead to open ends. `ConnStep` and `SenderStep` are the frame lemmas: a step of one
  end disturbs no other connection and no other sender. One lemma per handler.
* `HandedTheorem`: `Spec => []HandedOverOncePerStay`. A body can come back to its maker over any
  number of hops and sessions, so the invariant `GossipInv` speaks of everything on its way at
  once. `Stays(n, m)` counts how often `m` came to stay in the store of `n`: its evictions, and one
  more while it is there. `HandedInv` bounds the receipts by the stays, and those of a maker by its
  evictions. For that to survive a payload, no body may reach its maker before the maker has kept
  it: `Public` is the set of the vertices of which this is true, `NewsInv` says that queues, frames
  and announcements carry nothing else, and `PublicGrows` that a vertex stays public. `Compose` is
  where one becomes public, and the disjointness of `Fresh` is needed there only.
  `StoreInsertIs` and `StoreAllIs` say what an insertion does to a store,
  `SelectedIs` what a filter keeps.
* `ShareTheorem`: `Spec => []PrefixesKeepToTheirShare`. `TidyTable` adds to the caps that no two
  places of a table, in any bucket of either side, list the same id (`IdsOnce`). This is also what
  justifies `remove_overlay`, which takes out every contact of the id where the code takes out
  the first it finds. `RemoveTidy` and `PlaceTidy` are the two halves of `insert`; a filter
  embeds what it keeps in the old bucket (`IsSelection`), so it adds to no prefix
  (`SelectedFits`). That listed ids are proven ones comes from `TalkInv` (`ContactProved`), and
  `FlattenIs` carries uniqueness over to the concatenated buckets of `live_peers`.
* `TypeTheorem`: `Spec => []TypeOK`, from `TalkInv`, `GossipInv` and `LinkInv`.

### `DesktopWalletProofs`

For any files, keys, payments, faults and crashes. `DesktopWalletAssumption`: the old key is none
of the new ones, nobody's key is the one that signed genesis, and a file holds a nonce of 64
bits. `DesktopWalletRoom`: the payments' subsidies and fees, the credits and the cap have room in 64
bits.

* `KeysTheorem`: `Spec => []KeysAreKept`. `KeysInv` adds what each step of the launch relies
  on: the file is archived before it is removed (`LaunchInv`), it is gone when a new one is
  created, an attached wallet is the one in the file, and whoever is past the first screen has
  written the phrase down (`WalletInv`, `FileInv`). `OldKeyStays` is the core: the old key
  survives a step in which archives and notes only grow and its file stays, is archived or is
  noted. It needs no assumption but that what stands for a missing file is no file
  (`save_at(v) # NoFile`).
* `DeskInvariant` and from it `TypeTheorem`. `DeskInv` has three parts. `SessInv`: what the sessions
  carry are payments and the share, and no two vertices have one id. `HubInv`: the replica
  invariant over these vertices, whatever is attached or answered is stored, and the index names
  nonces of 64 bits. `WalletSide`: memory and file have keys of the user, the session that is waited
  for carries the key and the nonce of the open wallet, only answered payments are reported, and
  (`NoncesOK`) unless the wallet was set back, the nonces of reported payments are below the one in
  memory and the one in the file, each for its key.
* `TruthInvariant`, if 64 bits hold each amount with its fee (`PaymentsFit`): the ledger counts what is
  stored and no loser (`Counted`), and with no session between attach and rebuild the index is what
  `sync_from_dag` makes of the replica: whoever rebuilt last saw every attach.
* `WeightInvariant`: weights count approvers, if no walk is cut, which the number of payments
  ensures (`MaxSends + 1 <= ANCESTOR_WALK_BOUND`).
* `ExplorerTheorem`: `Spec => []ExplorerCatchesUp`, under both hypotheses and one more: the history
  fits on the screen (`MaxSends + 1 <= RECENT_ROWS`; the wallet asks for 12 rows and an older
  payment does drop off). `RowsFacts` and `HistoryShows` say what the lists of rows hold.
* `NonceTheorem`: `Spec => SpentNoncesAreNotReused`, if 64 bits hold each amount with its fee. A
  reported payment's nonce is below the wallet's own by `NoncesOK`; an index in step names
  `next_nonce`, and the nonces that the ledger counts of a sender are below it. Proving it
  showed that an earlier wording of the property, which did
  not except an index that lags, is false with four payments.

### Only model-checked

What is out of the prover's reach: liveness (`StoredGetsLogged`, `EventuallySameGraph`,
`AnnouncementsArrive`), and everything about `ENABLED`. Every other property of a passing run
is stated by a theorem.

## 5. What is abstracted or left out

* **Cryptography and encodings.** Signatures, hashes, carrier proofs, the Noise stream, byte
  formats: `wellformed`, `Receivable`, and a reliable FIFO stream.
* **Parent choice** is any pair of tips the code may pick; its randomness is not modelled.
* **Host check.** Parts of the code refuse to run on a PC class host; it is modelled for the
  relay mode (`DeviceGate`), the other modules describe an admitted host.
* **HubPersist.** A failing write in a process that stays alive, an operator's credit from
  another process while the hub runs, and the corruption of a snapshot are left out.
  A record may only be cut short by the crash that interrupts it.
* **MeshSync.** One session at a time between two hubs, with fixed roles. Socket buffers are
  unbounded (in the code both sides write all bodies before either reads). A reset
  that discards bytes already received is not distinguished from an orderly close. The
  listener's need computation and its choice of bodies take the lock several times
  in the code and are one step here; since a graph only grows, and neither looks at weights or
  the ledger, a later acquisition only sees more. The branch for a first message that
  is not an inventory, and Need or Have among bodies, are left out: no program of the
  repository sends them there. Wallet sessions appear as `LocalArrival`.
* **PhoneMeetup.** The length of a duty cycle: a cycle may come at any time. The lattice proof of
  a handshake is one flag of the quote.
* **PeerNode.** Noise and ML-DSA: a signature verifies for the key that is shown. Shutdown, which
  happens only when the process exits. The XOR distance is a function of the two ids. The
  vertices a hub restores enter its store but are not announced, as in the code.
* **DesktopWallet.** Restarts of the hub (`HubPersist` has them), two windows on one file, drawing,
  parsing of amounts and recovery words.

**Not modelled**, and why:

* *The cadence tracker, reputation and profile of `src/anti_bot`, `enforce_device_attestation`,
  and `RoutingTable::closest`*: no program of the repository calls them, so there is no
  behaviour of the system to compare a model with.
* *Lattice cryptography, ML-DSA, Noise, bech32 addresses, byte formats, HTTP framing, the web
  page*: pure functions on byte strings; a model would repeat them.
* *Command-line tokens, menus, log texts, detection of the LAN address*: input and output.
  What the programs make of the parsed configuration is `DialTargets`.
* *The demo seed of the explorer*: test data.
* *An operator's credit by another process, a failing append in a live process (`HubPersist`),
  bounded socket buffers (`MeshSync`), vertices whose amount overflows (`KronDag`)*: real hazards,
  listed without a property in `PROJECT.json`. The actions would be small; the state spaces of
  those runs are near what can be explored in minutes, and each would need an instance
  of its own.

## 6. Plan

Done, in this order: replica, persistence, admission, reconciliation and sessions; meetups with
the relay phone; peers with handshake, table and gossip; the desktop wallet with the explorer.

Next:

1. An instance of `KronDag` with a vertex whose amount plus fee overflows, so that a rebuild
   aborts with half a ledger; two replicas that receive the same vertices in different
   orders and carriers, to compare ledgers.
2. `HubPersist` with a failing append and a second writer; `MeshSync` with bounded streams.
3. A replica as a grow-only set of vertices, which `KronDag`, each hub of `MeshSync` and a hub
   between restarts implement, as a second refinement.
