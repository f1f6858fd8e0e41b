----------------------------- MODULE DesktopWallet -----------------------------
(***************************************************************************)
(* The desktop wallet beside a hub.  The wallet program finds, migrates or *)
(* creates its file, makes the user back the recovery phrase up, and sends *)
(* payments: it asks the explorer for a nonce and parents, signs, submits  *)
(* the vertex in a mesh session and waits for Done.  The hub attaches a    *)
(* submitted vertex under the lock of its replica, lets go, and only then  *)
(* persists it and rebuilds the explorer's index; its own miner attaches a *)
(* share in between.                                                       *)
(*                                                                         *)
(* Disk operations of the wallet fail, its process dies at any step, the   *)
(* explorer does not answer, and the Done of a hub gets lost.  Restarts of *)
(* the hub are HubPersist's.                                               *)
(***************************************************************************)
EXTENDS ExplorerIndex, WalletFile

CONSTANTS
    NewKeys,        \* the keys the wallet may generate
    OldKey,         \* the key of the file the first launch finds
    InitialFiles,   \* the files it may find
    InitialFaucet,  \* what the hub has credited
    SendAmounts,    \* the amounts the user sends
    Payee,          \* whom the user pays
    MinerAccount,   \* the account of the hub's miner
    NoWallet,       \* no wallet program is open
    MaxSends,       \* bound: payments
    MaxFaults,      \* bound: disk operations that fail
    MaxCrashes      \* bound: how often the wallet closes or dies

ASSUME DesktopWalletAssumption ==
    /\ OldKey \notin NewKeys
    /\ GenesisSender \notin NewKeys \cup {OldKey}
    /\ \A f \in InitialFiles :
          f = NoFile \/ (IsFile(f) /\ f.key = OldKey /\ f.nonce \in 0 .. U64_MAX)
    /\ NewKeys \cup {OldKey, Payee, MinerAccount} \subseteq Address
    /\ InitialFaucet \in [Address -> 0 .. U64_MAX]
    /\ SendAmounts \subseteq Nat
    /\ {MaxSends, MaxFaults, MaxCrashes} \subseteq Nat

(* 64 bits hold the faucet next to the cap, and the relay income and nonces *)
(* of all payments and the share.                                           *)
ASSUME DesktopWalletRoom ==
    /\ MaxSends + 1 < U64_MAX
    /\ (MaxSends + 1) * (INITIAL_TX_SUBSIDY + FIXED_TRANSACTION_FEE) <= U64_MAX
    /\ Total(InitialFaucet) + HARD_CAP <= U64_MAX

VARIABLES
    phase,      \* the wallet process: off, a step of the launch, or open
    wallet,     \* the wallet in memory, or NoWallet
    file,       \* wallet.json, or NoFile
    baks,       \* the archived files
    phrases,    \* the keys whose recovery phrase the user wrote down
    generated,  \* the keys generated so far
    sess,       \* sess[n] is the n-th payment and how far the hub is with it;
                \* sess[0] is the share of the hub's miner
    waiting,    \* the payment whose Done the wallet waits for, or 0
    receipts,   \* the payments the wallet reported as broadcast
    dag,        \* the replica of the hub
    index,      \* the explorer's index
    faults,     \* how many disk operations failed
    crashes,    \* how often the wallet closed or died
    behind,     \* history: a nonce was not saved, or the explorer set the wallet back
    replaced,   \* history: keys whose file a detached wallet saved over
    found       \* history: the file the first launch found

disk    == <<file, baks>>
hub     == <<sess, dag, index>>
history == <<behind, replaced, found>>
vars    == <<phase, wallet, disk, phrases, generated, hub, waiting, receipts,
             faults, crashes, history>>

Sends == 1 .. MaxSends

(* Genesis is never submitted, so it marks a session not yet used.          *)
NoSession == [tx |-> signed_genesis_tx, at |-> "unused"]

Init ==
    /\ phase = "off" /\ wallet = NoWallet
    /\ file \in InitialFiles /\ found = file /\ baks = {}
    /\ phrases = IF file # NoFile /\ file.backed_up THEN {OldKey} ELSE {}
    /\ generated = {}
    /\ sess = [n \in 0 .. MaxSends |-> NoSession]
    /\ waiting = 0 /\ receipts = {}
    /\ dag = CreditAll(with_genesis, InitialFaucet)
    /\ index = sync_from_dag(EmptyIndex, dag)
    /\ faults = 0 /\ crashes = 0 /\ behind = FALSE /\ replaced = {}

-----------------------------------------------------------------------------
(* Disk operations: each works or, within the bound, fails.                 *)

Works == UNCHANGED faults

Fails == faults < MaxFaults /\ faults' = faults + 1

FreshKeys == NewKeys \ generated

Open(w) == phase' = "open" /\ wallet' = w

(* KronWalletApp::new on an error: go on with a fresh key in memory.        *)
OpenDetached ==
    \E key \in FreshKeys :
        /\ Open(detached_wallet(key))
        /\ generated' = generated \cup {key}
        /\ UNCHANGED <<disk, phrases, hub, waiting, receipts, crashes, history>>

(* save: the file is replaced, or nothing happens to it.                    *)
Save(w) ==
    /\ Works
    /\ file' = save_at(w)
    /\ replaced' = IF w.detached /\ file # NoFile /\ file.key # w.key
                   THEN replaced \cup {file.key} ELSE replaced

NotSaved == Fails /\ UNCHANGED <<file, replaced>>

-----------------------------------------------------------------------------
(* The launch.                                                             *)

(* A file that loads opens; one whose stored key pair is not the derived    *)
(* one is rewritten, and a rewrite that fails is ignored.                   *)
OpenLoaded ==
    /\ phase = "off" /\ load_or_create_at(file, TRUE) = "open"
    /\ Open(from_loaded(file, FALSE))
    /\ \/ Works /\ file' = save_at(file)
       \/ Fails /\ ~file.matches /\ UNCHANGED file
    /\ UNCHANGED <<baks, phrases, generated, hub, waiting, receipts, crashes, history>>

(* No file, or a legacy one: the launch goes on.                            *)
Launch ==
    /\ phase = "off" /\ load_or_create_at(file, TRUE) \in {"archiving", "creating"}
    /\ phase' = load_or_create_at(file, TRUE)
    /\ UNCHANGED <<wallet, disk, phrases, generated, hub, waiting, receipts,
                   faults, crashes, history>>

(* The file cannot be read, is of a newer version, or does not parse.       *)
LoadFails ==
    /\ phase = "off" /\ file # NoFile
    /\ \/ Fails /\ load_or_create_at(file, FALSE) = "failed"
       \/ Works /\ load_or_create_at(file, TRUE) = "failed"
    /\ OpenDetached

(* archive_legacy: copy the file to a name not in use ...                   *)
CopyLegacy ==
    /\ phase = "archiving"
    /\ \/ /\ Works
          /\ baks' = baks \cup {file}
          /\ phase' = "removing"
          /\ UNCHANGED <<wallet, file, phrases, generated, hub, waiting, receipts,
                         crashes, history>>
       \/ Fails /\ OpenDetached

(* ... then remove it.                                                      *)
RemoveLegacy ==
    /\ phase = "removing"
    /\ \/ /\ Works
          /\ file' = NoFile
          /\ phase' = "creating"
          /\ UNCHANGED <<wallet, baks, phrases, generated, hub, waiting, receipts,
                         crashes, history>>
       \/ Fails /\ OpenDetached

(* create_new_at: a fresh phrase, saved at once and not yet backed up.      *)
CreateNew ==
    /\ phase = "creating"
    /\ \/ \E key \in FreshKeys :
             /\ generated' = generated \cup {key}
             /\ LET w == [detached_wallet(key) EXCEPT !.detached = FALSE]
                IN  Save(w) /\ Open(from_loaded(save_at(w), TRUE))
             /\ UNCHANGED <<baks, phrases, hub, waiting, receipts, crashes,
                   behind, found>>
       \/ Fails /\ OpenDetached

(* The user closes the window, or the process dies.                         *)
Crash ==
    /\ phase # "off" /\ crashes < MaxCrashes
    /\ phase' = "off" /\ wallet' = NoWallet /\ waiting' = 0
    /\ crashes' = crashes + 1
    /\ UNCHANGED <<disk, phrases, generated, hub, receipts, faults, history>>

-----------------------------------------------------------------------------
(* The screens.                                                            *)

At(screen) == phase = "open" /\ wallet.screen = screen

(* "I have written down my recovery phrase": Continue.                      *)
SavePhrase ==
    /\ At("SavePhrase")
    /\ phrases' = phrases \cup {wallet.key}
    /\ wallet' = [wallet EXCEPT !.screen = "ConfirmPhrase"]
    /\ UNCHANGED <<phase, disk, generated, hub, waiting, receipts, faults, crashes, history>>

Back ==
    /\ At("ConfirmPhrase")
    /\ wallet' = [wallet EXCEPT !.screen = "SavePhrase"]
    /\ UNCHANGED <<phase, disk, phrases, generated, hub, waiting, receipts, faults,
                   crashes, history>>

(* The words match: the wallet is backed up, saved if the disk allows, and  *)
(* opens.                                                                   *)
confirm_quiz ==
    /\ At("ConfirmPhrase")
    /\ wallet' = [wallet EXCEPT !.backed_up = TRUE, !.screen = "Wallet"]
    /\ Save(wallet') \/ NotSaved
    /\ UNCHANGED <<phase, baks, phrases, generated, hub, waiting, receipts, crashes,
                   behind, found>>

-----------------------------------------------------------------------------
(* A payment.                                                              *)

Unused == {n \in Sends : sess[n].at = "unused"}

Known == {sess[n].tx : n \in {m \in DOMAIN sess : sess[m].at # "unused"}}

(* The id is the hash of what was signed: the same content has the same id, *)
(* and new content an id of its own.                                        *)
IsNamed(t) ==
    LET same == {k \in Known : Signed(k) = Signed(t)}
    IN  IF same = {} THEN t.id \in TxHash \ ({GenesisId} \cup {k.id : k \in Known})
        ELSE t.id \in {k.id : k \in same}

Transfer(id, p1, p2, from, to, amount, nonce) ==
    [id |-> id, parent_1 |-> p1, parent_2 |-> p2, sender |-> from, recipient |-> to,
     amount |-> amount, nonce |-> nonce, relays |-> <<>>, wellformed |-> TRUE]

(* Where and with which nonce to attach when the explorer does not answer.  *)
OwnGuess(w) ==
    [nonce |-> w.nonce, parent_1 |-> GenesisId, parent_2 |-> GenesisId, balance |-> 0]

(* sign_send, first half: take the explorer's hint or, without one, the own *)
(* nonce and genesis; sign and submit.  The balance is not looked at.       *)
sign_send ==
    /\ At("Wallet") /\ waiting = 0 /\ Unused # {}
    /\ \E hint \in {fetch_compose(index, wallet.key), OwnGuess(wallet)},
          amount \in SendAmounts, id \in TxHash :
          LET n == Min(Unused)
              t == Transfer(id, hint.parent_1, hint.parent_2, wallet.key, Payee,
                            amount, hint.nonce)
          IN  /\ IsNamed(t)
              /\ sess' = [sess EXCEPT ![n] = [tx |-> t, at |-> "sent"]]
              /\ waiting' = n
              /\ wallet' = [wallet EXCEPT !.nonce = hint.nonce]
              /\ behind' = (behind \/ hint.nonce < wallet.nonce)
    /\ UNCHANGED <<phase, disk, phrases, generated, dag, index, receipts, faults,
                   crashes, replaced, found>>

(* A plausible fault of AfterDone: the file is written before the nonce     *)
(* moves on.                                                                *)
save_first(w, nonce) ==
    [memory |-> [w EXCEPT !.nonce = SaturatingAdd(nonce, 1)], saved |-> w]

AfterDone(w, nonce) ==
    LET next == [w EXCEPT !.nonce = SaturatingAdd(nonce, 1)]
    IN  [memory |-> next, saved |-> next]

(* broadcast_wallet_tx succeeds only on Done.                               *)
broadcast_wallet_tx == waiting # 0 /\ sess[waiting].at = "answered"

(* sign_send, second half: Done came.                                       *)
Acknowledged ==
    /\ broadcast_wallet_tx
    /\ LET after == AfterDone(wallet, sess[waiting].tx.nonce)
       IN  /\ wallet' = after.memory
           /\ \/ Save(after.saved) /\ UNCHANGED behind
              \/ NotSaved /\ behind' = TRUE
    /\ receipts' = receipts \cup {waiting}
    /\ waiting' = 0
    /\ UNCHANGED <<phase, baks, phrases, generated, hub, crashes, found>>

(* ... or the connection failed, was closed or went silent: the nonce stays.*)
BroadcastFailed ==
    /\ waiting # 0
    /\ waiting' = 0
    /\ UNCHANGED <<phase, wallet, disk, phrases, generated, hub, receipts, faults,
                   crashes, history>>

-----------------------------------------------------------------------------
(* The hub.                                                                *)

HubStep == UNCHANGED <<phase, wallet, disk, phrases, generated, waiting, receipts,
                       faults, crashes, history>>

(* serve_wallet_submit: over the limit or invalid, the session ends; known, *)
(* Done is sent at once; new, it must be persisted first.                   *)
serve_wallet_submit(n) ==
    /\ sess[n].at = "sent"
    /\ LET accepted == accept_wire_vertex(dag, sess[n].tx)
       IN  \/ dag' = dag /\ sess' = [sess EXCEPT ![n].at = "refused"]
           \/ /\ dag' = accepted.dag
              /\ sess' = [sess EXCEPT ![n].at =
                             CASE accepted.verdict = "Ok"    -> "attached"
                               [] accepted.verdict = "Known" -> "answered"
                               [] OTHER                      -> "refused"]
    /\ UNCHANGED index /\ HubStep

(* The hub's miner attaches its share to the replica it shares with the     *)
(* sessions; its payout address is the one the wallet first had.            *)
MineShare ==
    /\ sess[0].at = "unused"
    /\ \E pair \in ParentChoices(dag.graph), id \in TxHash :
          LET t == Transfer(id, pair[1], pair[2], MinerAccount, OldKey, 1,
                            dag.ledger.next_nonce[MinerAccount])
              attached == attach_and_verify_tx(dag, t)
          IN  /\ IsNamed(t)
              /\ attached.verdict = "Ok"
              /\ dag' = attached.dag
              /\ sess' = [sess EXCEPT ![0] = [tx |-> t, at |-> "attached"]]
    /\ UNCHANGED index /\ HubStep

(* persist_vertex, its last step: lock the replica again and rebuild the    *)
(* index from it; the session then answers Done.                            *)
persist_vertex(n) ==
    /\ sess[n].at = "attached"
    /\ index' = sync_from_dag(index, dag)
    /\ sess' = [sess EXCEPT ![n].at = "answered"]
    /\ UNCHANGED dag /\ HubStep

Next ==
    \/ OpenLoaded \/ Launch \/ LoadFails
    \/ CopyLegacy \/ RemoveLegacy \/ CreateNew \/ Crash
    \/ SavePhrase \/ Back \/ confirm_quiz
    \/ sign_send \/ Acknowledged \/ BroadcastFailed
    \/ MineShare
    \/ \E n \in Sends : serve_wallet_submit(n)
    \/ \E n \in 0 .. MaxSends : persist_vertex(n)

Spec == Init /\ [][Next]_vars

-----------------------------------------------------------------------------
(* The sessions between the attach and the index.                           *)
Pending == {n \in DOMAIN sess : sess[n].at = "attached"}

Paid(n) == sess[n].tx

(* The keys a user may hold funds with: that of a legacy file, and the one  *)
(* whose address is on the screen.                                          *)
Relied ==
    (IF found # NoFile /\ looks_like_legacy(found, TRUE) THEN {OldKey} ELSE {})
    \cup (IF At("Wallet") THEN {wallet.key} ELSE {})

Filed == {f.key : f \in baks \cup ({file} \ {NoFile})}

(* Type correctness of the wallet, its file and the hub; a wallet shows its *)
(* address only once its phrase was confirmed.                              *)
TypeOK ==
    /\ IsReplica(dag)
    /\ phase \in {"off", "archiving", "removing", "creating", "open"}
    /\ phase # "open" => wallet = NoWallet
    /\ phase = "open" =>
          /\ wallet.key \in NewKeys \cup {OldKey}
          /\ wallet.nonce \in 0 .. U64_MAX
          /\ wallet.screen = "Wallet" <=> wallet.backed_up
    /\ waiting # 0 => At("Wallet") /\ sess[waiting].at # "unused"
    /\ receipts \subseteq {n \in Sends : sess[n].at = "answered"}
    /\ faults \in 0 .. MaxFaults /\ crashes \in 0 .. MaxCrashes

(* Migration, onboarding, failing disk operations and a process that dies   *)
(* between any two of them lose no key that may hold funds: it is in the    *)
(* file, in an archive, or the user has its phrase.  The exception is a     *)
(* file that would not load and that the wallet opened instead saved over.  *)
KeysAreKept == Relied \subseteq Filed \cup phrases \cup replaced

(* Once no session is between its attach and its rebuild, in whatever order *)
(* they took the lock, the explorer tells the truth about every vertex and  *)
(* account of the replica.                                                  *)
ExplorerCatchesUp ==
    Pending = {} =>
        /\ DOMAIN index.rows = VertexSet(dag.graph)
        /\ \A i \in VertexSet(dag.graph) :
              LET row == dispatch(index, "tx", i)
              IN  /\ row.weight = 1 + Cardinality({j \in VertexSet(dag.graph) :
                                                      i \in Ancestors(dag.graph, j)})
                  /\ row.is_tip <=> dag.graph.children[i] = {}
                  /\ row.conflicted <=> i \notin Applied(dag) \cup {GenesisId}
        /\ \A a \in Address :
              fetch_compose(index, a).nonce
                  = IF a \in Users THEN Cardinality(AppliedBy(dag, a))
                    ELSE dag.ledger.next_nonce[a]
        /\ \A n \in receipts :
              \E row \in ToSet(fetch_view(index, Paid(n).sender).txs) :
                  row.hash = Paid(n).id

(* The wallet does not spend a nonce twice, whether the explorer answers or *)
(* not and across restarts.  While every nonce was saved and none set back, *)
(* it signs nothing with that of a payment it reported as broadcast, unless *)
(* the explorer names it, or 64 bits count no further.  And once the index  *)
(* is rebuilt, what the explorer names is no nonce of a reported payment    *)
(* that the hub's ledger counts.                                            *)
SpentNoncesAreNotReused ==
    [][\A n \in Unused : sess'[n].at = "sent" =>
          LET t       == sess'[n].tx
              again   == {m \in receipts : /\ Paid(m).sender = t.sender
                                           /\ Paid(m).nonce = t.nonce}
              counted == {m \in again : Paid(m).id \in Applied(dag)}
          IN  /\ behind \/ t.nonce < wallet.nonce \/ t.nonce = U64_MAX \/ again = {}
              /\ \/ Pending # {}
                 \/ t.nonce # fetch_compose(index, t.sender).nonce
                 \/ counted = {}]_vars
=============================================================================
