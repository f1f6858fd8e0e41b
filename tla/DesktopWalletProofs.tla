-------------------------- MODULE DesktopWalletProofs --------------------------
(***************************************************************************)
(* The desktop wallet loses no key that may hold funds, for any files the  *)
(* first launch may find, any keys, and any number of payments, failing    *)
(* disk operations and crashes; it spends no nonce twice that it was told  *)
(* was spent; and the hub beside it keeps a correct replica, which its     *)
(* explorer tells truly once no session is between attach and rebuild.     *)
(***************************************************************************)
EXTENDS DesktopWallet, ReplicaProofs

IsWallet(w) ==
    w = [key |-> w.key, nonce |-> w.nonce, detached |-> w.detached,
         backed_up |-> w.backed_up, screen |-> w.screen]

(* Whoever got past the first screen, or whose file says so, has written    *)
(* the phrase down.                                                         *)
WalletInv ==
    phase = "open" =>
        /\ IsWallet(wallet)
        /\ wallet.screen # "SavePhrase" \/ wallet.backed_up => wallet.key \in phrases
        /\ ~wallet.detached => file # NoFile /\ file.key = wallet.key

FileInv ==
    file # NoFile =>
        /\ IsFile(file)
        /\ file.backed_up => file.key \in phrases

(* What each step of the launch may rely on.                                *)
LaunchInv ==
    /\ phase = "removing" => file \in baks
    /\ phase = "creating" => file = NoFile
    /\ waiting # 0 => phase = "open"

HadLegacyFile == found # NoFile /\ looks_like_legacy(found, TRUE)

LegacyInv == HadLegacyFile => OldKey \in Filed \cup phrases \cup replaced

KeysInv == WalletInv /\ FileInv /\ LaunchInv /\ LegacyInv

key_vars == <<phase, wallet, file, baks, phrases, waiting, replaced, found>>

-----------------------------------------------------------------------------
(* The old key is not lost while archives and notes stay, and its file does *)
(* so too, or is archived, or is noted as saved over.                       *)
LEMMA OldKeyStays ==
    ASSUME LegacyInv, found' = found,
           baks \subseteq baks', phrases \subseteq phrases', replaced \subseteq replaced',
           file # NoFile => \/ file' # NoFile /\ file'.key = file.key
                            \/ file.key \in replaced'
                            \/ file \in baks'
    PROVE  LegacyInv'
  <1> SUFFICES ASSUME HadLegacyFile PROVE (OldKey \in Filed \cup phrases \cup replaced)'
    BY DEF LegacyInv, HadLegacyFile
  <1>1. CASE OldKey \in phrases \cup replaced
    BY <1>1
  <1>2. CASE \E f \in baks : f.key = OldKey
    BY <1>2 DEF Filed
  <1>3. CASE file # NoFile /\ file.key = OldKey
    BY <1>3 DEF Filed
  <1> QED
    BY <1>1, <1>2, <1>3 DEF LegacyInv, Filed

(* Saving a wallet whose phrase is written down if it says so.              *)
LEMMA SavingKeepsKeys ==
    ASSUME NEW w, FileInv, LegacyInv, \A v : save_at(v) # NoFile,
           w.backed_up => w.key \in phrases,
           w.detached \/ file = NoFile \/ file.key = w.key,
           Save(w) \/ NotSaved,
           UNCHANGED <<baks, phrases, found>>
    PROVE  /\ FileInv' /\ LegacyInv'
           /\ \/ file' = file
              \/ file' # NoFile /\ file'.key = w.key
  <1>1. CASE NotSaved
    BY <1>1, OldKeyStays DEF NotSaved, FileInv
  <1>2. CASE Save(w)
    <2>1. /\ file' = save_at(w) /\ file' # NoFile /\ file'.key = w.key
          /\ file'.backed_up = w.backed_up /\ IsFile(file')
      BY <1>2 DEF Save, save_at, IsFile
    <2>2. FileInv'
      BY <2>1 DEF FileInv
    <2>3. /\ replaced \subseteq replaced'
          /\ file # NoFile => file'.key = file.key \/ file.key \in replaced'
      BY <1>2, <2>1 DEF Save
    <2> QED
      BY <2>1, <2>2, <2>3, OldKeyStays
  <1> QED
    BY <1>1, <1>2

(* Going on without the file.                                               *)
LEMMA DetachedKeepsKeys ==
    ASSUME KeysInv, phase # "open", OpenDetached
    PROVE  KeysInv'
  <1>1. /\ phase' = "open" /\ waiting = 0
        /\ UNCHANGED <<file, baks, phrases, waiting, replaced, found>>
    BY DEF OpenDetached, Open, KeysInv, LaunchInv, disk, history
  <1>2. PICK key \in FreshKeys : wallet' = detached_wallet(key)
    BY DEF OpenDetached, Open
  <1>3. WalletInv'
    BY <1>1, <1>2 DEF WalletInv, detached_wallet, IsWallet
  <1>4. LegacyInv'
    BY <1>1, OldKeyStays DEF KeysInv
  <1> QED
    BY <1>1, <1>3, <1>4 DEF KeysInv, FileInv, LaunchInv

(* The steps of the hub, and the answers it gives, touch no key.            *)
LEMMA OthersKeepKeys == KeysInv /\ UNCHANGED key_vars => KeysInv'
  BY DEF key_vars, KeysInv, WalletInv, FileInv, LaunchInv, LegacyInv, HadLegacyFile, Filed

-----------------------------------------------------------------------------
(* Starting the wallet keeps the invariant.                                 *)
LEMMA LaunchKeepsKeys ==
    ASSUME KeysInv, \A v : save_at(v) # NoFile,
           OpenLoaded \/ Launch \/ LoadFails \/ CopyLegacy \/ RemoveLegacy \/ CreateNew
    PROVE  KeysInv'
  <1> USE DEF disk, history, Works, Fails
  <1>1. ASSUME OpenLoaded PROVE KeysInv'
    <2>1. /\ phase = "off" /\ phase' = "open" /\ file # NoFile
          /\ wallet' = from_loaded(file, FALSE)
          /\ UNCHANGED <<baks, phrases, waiting, replaced, found>>
      BY <1>1 DEF OpenLoaded, Open, load_or_create_at
    <2>2. file' = file \/ file' = save_at(file)
      BY <1>1 DEF OpenLoaded
    <2>3. IsFile(file)
      BY <2>1 DEF KeysInv, FileInv
    <2>4. /\ file' # NoFile
          /\ IsFile(file') /\ file'.key = file.key /\ file'.backed_up = file.backed_up
      <3>1. CASE file' = file
        BY <3>1, <2>1, <2>3
      <3>2. CASE file' = save_at(file)
        BY <3>2 DEF save_at, IsFile
      <3> QED
        BY <2>2, <3>1, <3>2
    <2>5. WalletInv'
      BY <2>1, <2>4 DEF WalletInv, KeysInv, FileInv, from_loaded, IsWallet
    <2>6. FileInv'
      BY <2>1, <2>4 DEF KeysInv, FileInv
    <2>7. LegacyInv'
      BY <2>1, <2>4, OldKeyStays DEF KeysInv
    <2> QED
      BY <2>1, <2>5, <2>6, <2>7 DEF KeysInv, LaunchInv
  <1>2. ASSUME Launch PROVE KeysInv'
    <2>1. /\ phase = "off" /\ phase' \in {"archiving", "creating"}
          /\ phase' = "creating" => file = NoFile
          /\ UNCHANGED <<wallet, file, baks, phrases, waiting, replaced, found>>
      BY <1>2 DEF Launch, load_or_create_at
    <2>2. LegacyInv'
      BY <2>1, OldKeyStays DEF KeysInv
    <2> QED
      BY <2>1, <2>2 DEF KeysInv, WalletInv, FileInv, LaunchInv
  <1>3. ASSUME LoadFails PROVE KeysInv'
    BY <1>3, DetachedKeepsKeys DEF LoadFails
  <1>4. ASSUME CopyLegacy PROVE KeysInv'
    <2>1. phase = "archiving"
      BY <1>4 DEF CopyLegacy
    <2>2. CASE OpenDetached
      BY <2>1, <2>2, DetachedKeepsKeys
    <2>3. CASE /\ baks' = baks \cup {file} /\ phase' = "removing"
               /\ UNCHANGED <<wallet, file, phrases, waiting, replaced, found>>
      <3>1. LegacyInv'
        BY <2>3, OldKeyStays DEF KeysInv
      <3> QED
        BY <2>1, <2>3, <3>1 DEF KeysInv, WalletInv, FileInv, LaunchInv
    <2> QED
      BY <1>4, <2>2, <2>3 DEF CopyLegacy
  <1>5. ASSUME RemoveLegacy PROVE KeysInv'
    <2>1. phase = "removing" /\ file \in baks
      BY <1>5 DEF RemoveLegacy, KeysInv, LaunchInv
    <2>2. CASE OpenDetached
      BY <2>1, <2>2, DetachedKeepsKeys
    <2>3. CASE /\ file' = NoFile /\ phase' = "creating"
               /\ UNCHANGED <<wallet, baks, phrases, waiting, replaced, found>>
      <3>1. LegacyInv'
        BY <2>1, <2>3, OldKeyStays DEF KeysInv
      <3> QED
        BY <2>1, <2>3, <3>1 DEF KeysInv, WalletInv, FileInv, LaunchInv
    <2> QED
      BY <1>5, <2>2, <2>3 DEF RemoveLegacy
  <1>6. ASSUME CreateNew PROVE KeysInv'
    <2>1. phase = "creating" /\ file = NoFile /\ waiting = 0
      BY <1>6 DEF CreateNew, KeysInv, LaunchInv
    <2>2. CASE OpenDetached
      BY <2>1, <2>2, DetachedKeepsKeys
    <2>3. ASSUME NEW key \in FreshKeys, NEW w,
                 w = [detached_wallet(key) EXCEPT !.detached = FALSE],
                 Save(w), Open(from_loaded(save_at(w), TRUE)),
                 UNCHANGED <<baks, phrases, waiting, found>>
          PROVE  KeysInv'
      <3>1. ~w.backed_up /\ w.key = key
        BY <2>3 DEF detached_wallet
      <3>2. FileInv' /\ LegacyInv'
        BY <2>1, <2>3, <3>1, SavingKeepsKeys DEF KeysInv
      <3>3. /\ phase' = "open" /\ wallet' = from_loaded(file', TRUE)
            /\ file' = save_at(w) /\ file' # NoFile
        BY <2>3 DEF Open, Save
      <3>4. WalletInv'
        BY <3>1, <3>3 DEF WalletInv, from_loaded, save_at, IsWallet
      <3> QED
        BY <2>1, <2>3, <3>2, <3>3, <3>4 DEF KeysInv, LaunchInv
    <2> QED
      BY <1>6, <2>2, <2>3 DEF CreateNew
  <1> QED
    BY <1>1, <1>2, <1>3, <1>4, <1>5, <1>6

(* Moving between the screens keeps the invariant.                          *)
LEMMA ScreensKeepKeys ==
    ASSUME KeysInv, \A v : save_at(v) # NoFile,
           SavePhrase \/ Back \/ confirm_quiz
    PROVE  KeysInv'
  <1> USE DEF disk, history, At
  <1>1. phase = "open" /\ phase' = "open" /\ IsWallet(wallet)
    BY DEF SavePhrase, Back, confirm_quiz, KeysInv, WalletInv
  <1>2. ASSUME SavePhrase PROVE KeysInv'
    <2>1. /\ wallet'.key = wallet.key /\ wallet'.detached = wallet.detached /\ IsWallet(wallet')
          /\ phrases' = phrases \cup {wallet.key}
          /\ UNCHANGED <<file, baks, waiting, replaced, found>>
      BY <1>1, <1>2 DEF SavePhrase, IsWallet
    <2>2. LegacyInv'
      BY <2>1, OldKeyStays DEF KeysInv
    <2> QED
      BY <1>1, <2>1, <2>2 DEF KeysInv, WalletInv, FileInv, LaunchInv
  <1>3. ASSUME Back PROVE KeysInv'
    <2>1. /\ wallet'.key = wallet.key /\ wallet'.detached = wallet.detached /\ IsWallet(wallet')
          /\ wallet.screen = "ConfirmPhrase"
          /\ UNCHANGED <<file, baks, phrases, waiting, replaced, found>>
      BY <1>1, <1>3 DEF Back, IsWallet
    <2>2. LegacyInv'
      BY <2>1, OldKeyStays DEF KeysInv
    <2> QED
      BY <1>1, <2>1, <2>2 DEF KeysInv, WalletInv, FileInv, LaunchInv
  <1>4. ASSUME confirm_quiz PROVE KeysInv'
    <2>1. /\ wallet'.key = wallet.key /\ wallet'.detached = wallet.detached /\ IsWallet(wallet')
          /\ wallet.screen = "ConfirmPhrase"
          /\ UNCHANGED <<baks, phrases, waiting, found>>
      BY <1>1, <1>4 DEF confirm_quiz, IsWallet
    <2>2. /\ wallet.key \in phrases
          /\ wallet.detached \/ (file # NoFile /\ file.key = wallet.key)
      BY <1>1, <2>1 DEF KeysInv, WalletInv
    <2>3. /\ FileInv' /\ LegacyInv'
          /\ file' = file \/ (file' # NoFile /\ file'.key = wallet'.key)
      <3>1. PICK w : w = wallet'
        OBVIOUS
      <3>2. /\ w.backed_up => w.key \in phrases
            /\ w.detached \/ file = NoFile \/ file.key = w.key
        BY <2>1, <2>2, <3>1
      <3>3. Save(w) \/ NotSaved
        BY <1>4, <3>1 DEF confirm_quiz
      <3>4. CASE Save(w)
        BY <2>1, <3>1, <3>2, <3>4, SavingKeepsKeys DEF KeysInv
      <3>5. CASE NotSaved
        BY <2>1, <3>1, <3>2, <3>5, SavingKeepsKeys DEF KeysInv
      <3> QED
        BY <3>3, <3>4, <3>5
    <2> QED
      BY <1>1, <2>1, <2>2, <2>3 DEF KeysInv, WalletInv, LaunchInv
  <1> QED
    BY <1>2, <1>3, <1>4

(* Signing a payment, and hearing of its broadcast, keep the invariant.     *)
LEMMA PaymentsKeepKeys ==
    ASSUME KeysInv, \A v : save_at(v) # NoFile,
           sign_send \/ Acknowledged \/ BroadcastFailed
    PROVE  KeysInv'
  <1> USE DEF disk, history, At
  <1>1. ASSUME sign_send PROVE KeysInv'
    <2>1. /\ phase = "open" /\ UNCHANGED <<phase, file, baks, phrases, replaced, found>>
          /\ IsWallet(wallet)
      BY <1>1 DEF sign_send, KeysInv, WalletInv
    <2>2. \E nonce : wallet' = [wallet EXCEPT !.nonce = nonce]
      BY <1>1 DEF sign_send
    <2>3. /\ wallet'.key = wallet.key /\ wallet'.detached = wallet.detached
          /\ wallet'.backed_up = wallet.backed_up /\ wallet'.screen = wallet.screen
          /\ IsWallet(wallet')
      BY <2>1, <2>2 DEF IsWallet
    <2>4. LegacyInv'
      BY <2>1, OldKeyStays DEF KeysInv
    <2> QED
      BY <2>1, <2>3, <2>4 DEF KeysInv, WalletInv, FileInv, LaunchInv
  <1>2. ASSUME Acknowledged PROVE KeysInv'
    <2>1. phase = "open" /\ IsWallet(wallet)
      BY <1>2 DEF Acknowledged, broadcast_wallet_tx, KeysInv, WalletInv, LaunchInv
    <2>2. PICK w : /\ w = [wallet EXCEPT !.nonce = SaturatingAdd(sess[waiting].tx.nonce, 1)]
                   /\ wallet' = w
                   /\ Save(w) \/ NotSaved
      BY <1>2 DEF Acknowledged, AfterDone
    <2>3. /\ w.key = wallet.key /\ w.detached = wallet.detached
          /\ w.backed_up = wallet.backed_up /\ w.screen = wallet.screen /\ IsWallet(w)
      BY <2>1, <2>2 DEF IsWallet
    <2>4. waiting' = 0 /\ UNCHANGED <<phase, baks, phrases, found>>
      BY <1>2 DEF Acknowledged
    <2>5. /\ FileInv' /\ LegacyInv'
          /\ file' = file \/ (file' # NoFile /\ file'.key = w.key)
      <3>1. /\ w.backed_up => w.key \in phrases
            /\ w.detached \/ file = NoFile \/ file.key = w.key
        BY <2>1, <2>3 DEF KeysInv, WalletInv
      <3>2. CASE Save(w)
        BY <2>4, <3>1, <3>2, SavingKeepsKeys DEF KeysInv
      <3>3. CASE NotSaved
        BY <2>4, <3>1, <3>3, SavingKeepsKeys DEF KeysInv
      <3> QED
        BY <2>2, <3>2, <3>3
    <2> QED
      BY <2>1, <2>2, <2>3, <2>4, <2>5 DEF KeysInv, WalletInv, LaunchInv
  <1>3. ASSUME BroadcastFailed PROVE KeysInv'
    <2>1. waiting' = 0 /\ UNCHANGED <<phase, wallet, file, baks, phrases, replaced, found>>
      BY <1>3 DEF BroadcastFailed
    <2>2. LegacyInv'
      BY <2>1, OldKeyStays DEF KeysInv
    <2> QED
      BY <2>1, <2>2 DEF KeysInv, WalletInv, FileInv, LaunchInv
  <1> QED
    BY <1>1, <1>2, <1>3

-----------------------------------------------------------------------------
(* Migration, onboarding, failing disk operations and crashes lose no key   *)
(* that may hold funds (persist.rs).  What stands for a missing file is no  *)
(* file.                                                                    *)
THEOREM KeysTheorem ==
    ASSUME \A v : save_at(v) # NoFile
    PROVE  Spec => []KeysAreKept
  <1>1. Init => KeysInv
    <2> SUFFICES ASSUME Init PROVE KeysInv
      OBVIOUS
    <2>1. file = NoFile \/ (IsFile(file) /\ file.key = OldKey)
      BY DesktopWalletAssumption DEF Init
    <2>2. FileInv
      BY <2>1 DEF Init, FileInv
    <2>3. LegacyInv
      BY <2>1 DEF Init, LegacyInv, HadLegacyFile, Filed
    <2> QED
      BY <2>2, <2>3 DEF Init, KeysInv, WalletInv, LaunchInv
  <1>2. KeysInv /\ [Next]_vars => KeysInv'
    <2> SUFFICES ASSUME KeysInv, [Next]_vars PROVE KeysInv'
      OBVIOUS
    <2>1. CASE OpenLoaded \/ Launch \/ LoadFails \/ CopyLegacy \/ RemoveLegacy \/ CreateNew
      BY <2>1, LaunchKeepsKeys
    <2>2. CASE Crash
      <3>1. /\ phase' = "off" /\ waiting' = 0
            /\ UNCHANGED <<file, baks, phrases, replaced, found>>
        BY <2>2 DEF Crash, disk, history
      <3>2. LegacyInv'
        BY <3>1, OldKeyStays DEF KeysInv
      <3> QED
        BY <3>1, <3>2 DEF KeysInv, WalletInv, FileInv, LaunchInv
    <2>3. CASE SavePhrase \/ Back \/ confirm_quiz
      BY <2>3, ScreensKeepKeys
    <2>4. CASE sign_send \/ Acknowledged \/ BroadcastFailed
      BY <2>4, PaymentsKeepKeys
    <2>5. CASE MineShare
      BY <2>5, OthersKeepKeys DEF MineShare, HubStep, key_vars, disk, history
    <2>6. ASSUME NEW n \in Sends, serve_wallet_submit(n) PROVE KeysInv'
      BY <2>6, OthersKeepKeys DEF serve_wallet_submit, HubStep, key_vars, disk, history
    <2>7. ASSUME NEW n \in 0 .. MaxSends, persist_vertex(n) PROVE KeysInv'
      BY <2>7, OthersKeepKeys DEF persist_vertex, HubStep, key_vars, disk, history
    <2>8. CASE UNCHANGED vars
      BY <2>8, OthersKeepKeys DEF vars, key_vars, disk, history
    <2> QED
      BY <2>1, <2>2, <2>3, <2>4, <2>5, <2>6, <2>7, <2>8 DEF Next
  <1>3. KeysInv => KeysAreKept
    BY DEF KeysInv, WalletInv, LegacyInv, HadLegacyFile, KeysAreKept, Relied, At
  <1> QED
    BY <1>1, <1>2, <1>3, PTL DEF Spec

-----------------------------------------------------------------------------
(* More vertices may arrive.                                                *)
LEMMA MoreKnown ==
    ASSUME NEW K, NEW M, K \subseteq M, NEW d, ReplicaState(d, K)
    PROVE  ReplicaState(d, M)
  BY DEF ReplicaState, StoredFrom

(* A pass over a list keeps every member of the set that it meets.          *)
LEMMA SelectedSet ==
    ASSUME NEW V, NEW s \in Seq(V), NEW S
    PROVE  /\ Selected(s, S) \in Seq(V)
           /\ ToSet(Selected(s, S)) = ToSet(s) \cap S
  <1> DEFINE N == Len(s)
             Step(x, n) == IF s[n] \in S THEN Append(x, s[n]) ELSE x
             Eq(u, n) == u = [m \in 0 .. n |-> IF m = 0 THEN <<>> ELSE Step(u[m - 1], m)]
             T == {n \in 0 .. N : \E u : Eq(u, n)}
             upto == CHOOSE u : Eq(u, N)
  <1>1. N \in Nat /\ DOMAIN s = 1 .. N /\ \A n \in 1 .. N : s[n] \in V
    BY LenProperties, ElementOfSeq
  <1> HIDE DEF N
  <1>2. 0 \in T
    <2> DEFINE u == [m \in 0 .. 0 |-> <<>>]
    <2>1. Eq(u, 0)
      BY \A m \in 0 .. 0 : m = 0
    <2> HIDE DEF Eq, u
    <2>2. \E x : Eq(x, 0)
      BY <2>1
    <2> QED BY <1>1, <2>2
  <1>3. ASSUME NEW n \in 1 .. N, n - 1 \in T PROVE n \in T
    <2>1. PICK u : Eq(u, n - 1)
      BY <1>3
    <2> DEFINE v == [m \in 0 .. n |-> IF m = 0 THEN <<>> ELSE Step(u[m - 1], m)]
    <2> HIDE DEF Step
    <2>2. ASSUME NEW m \in 0 .. n - 1 PROVE v[m] = u[m]
      <3>1. m \in 0 .. n
        BY <1>1
      <3>2. u[m] = IF m = 0 THEN <<>> ELSE Step(u[m - 1], m)
        BY <2>1, Zenon
      <3> QED BY <3>1, <3>2
    <2>3. ASSUME NEW m \in 0 .. n
          PROVE  v[m] = IF m = 0 THEN <<>> ELSE Step(v[m - 1], m)
      <3>1. CASE m = 0
        BY <3>1
      <3>2. CASE m # 0
        <4>1. m - 1 \in 0 .. n - 1
          BY <3>2
        <4>2. v[m - 1] = u[m - 1]
          BY <2>2, <4>1
        <4> QED BY <3>2, <4>2
      <3> QED BY <3>1, <3>2
    <2>4. v = [m \in 0 .. n |-> v[m]]
      OBVIOUS
    <2> HIDE DEF v
    <2>5. Eq(v, n)
      BY <2>3, <2>4, Zenon
    <2> HIDE DEF Eq
    <2>6. \E x : Eq(x, n)
      BY <2>5
    <2> QED BY <1>1, <2>6
  <1>4. \A n \in 0 .. N : n \in T
    <2> HIDE DEF T
    <2> QED BY <1>1, <1>2, <1>3, IndexSetInduction
  <1>5. \E u : Eq(u, N)
    <2>1. N \in T
      <3> HIDE DEF T
      <3> QED BY <1>1, <1>4
    <2> HIDE DEF Eq
    <2> QED BY <2>1
  <1>6. Eq(upto, N)
    <2> HIDE DEF Eq
    <2> QED BY <1>5
  <1>7. Selected(s, S) = upto[N]
    BY DEF Selected, N
  <1> HIDE DEF upto
  <1>8. \A m \in 0 .. N : upto[m] = IF m = 0 THEN <<>> ELSE Step(upto[m - 1], m)
    <2> HIDE DEF Step
    <2> QED BY <1>6, Zenon
  <1> DEFINE U == {n \in 0 .. N : /\ upto[n] \in Seq(V)
                                  /\ ToSet(upto[n]) = {s[m] : m \in 1 .. n} \cap S}
  <1>9. 0 \in U
    <2>1. upto[0] = <<>>
      BY <1>1, <1>8
    <2>2. ToSet(<<>>) = {}
      <3>1. DOMAIN <<>> = {}
        BY \A m \in 1 .. 0 : FALSE
      <3> QED BY <3>1 DEF ToSet
    <2>3. <<>> \in Seq(V) /\ {s[m] : m \in 1 .. 0} = {} /\ 0 \in 0 .. N
      BY <1>1
    <2> QED BY <2>1, <2>2, <2>3
  <1>10. ASSUME NEW n \in 1 .. N, n - 1 \in U PROVE n \in U
    <2> DEFINE x == upto[n - 1]
               old == {s[m] : m \in 1 .. n - 1}
    <2>1. /\ upto[n] = Step(x, n) /\ n \in 0 .. N /\ s[n] \in V
          /\ x \in Seq(V) /\ ToSet(x) = old \cap S
      <3>1. n \in 0 .. N /\ n # 0
        BY <1>1
      <3> QED BY <1>1, <1>8, <1>10, <3>1
    <2>2. {s[m] : m \in 1 .. n} = old \cup {s[n]}
      <3>1. \A m \in 1 .. n : m = n \/ m \in 1 .. n - 1
        BY <1>1
      <3>2. \A m \in 1 .. n - 1 : m \in 1 .. n
        BY <1>1
      <3>3. n \in 1 .. n
        BY <1>1
      <3> QED BY <3>1, <3>2, <3>3
    <2> HIDE DEF x, old
    <2>3. CASE s[n] \in S
      <3>1. upto[n] = Append(x, s[n])
        BY <2>1, <2>3
      <3>2. Append(x, s[n]) \in Seq(V)
        BY <2>1
      <3>3. ToSet(Append(x, s[n])) = ToSet(x) \cup {s[n]}
        <4>1. /\ Len(x) \in Nat /\ DOMAIN x = 1 .. Len(x)
              /\ DOMAIN Append(x, s[n]) = 1 .. Len(x) + 1
              /\ Append(x, s[n])[Len(x) + 1] = s[n]
              /\ \A m \in 1 .. Len(x) : Append(x, s[n])[m] = x[m]
          BY <2>1
        <4>2. \A m \in 1 .. Len(x) + 1 : m = Len(x) + 1 \/ m \in 1 .. Len(x)
          BY <4>1
        <4>3. \A m \in 1 .. Len(x) : m \in 1 .. Len(x) + 1
          BY <4>1
        <4>4. Len(x) + 1 \in 1 .. Len(x) + 1
          BY <4>1
        <4> QED BY <4>1, <4>2, <4>3, <4>4 DEF ToSet
      <3> QED BY <2>1, <2>2, <2>3, <3>1, <3>2, <3>3
    <2>4. CASE s[n] \notin S
      BY <2>1, <2>2, <2>4
    <2> QED BY <2>3, <2>4
  <1>11. \A n \in 0 .. N : n \in U
    <2> HIDE DEF U
    <2> QED BY <1>1, <1>9, <1>10, IndexSetInduction
  <1>12. N \in U
    <2> HIDE DEF U
    <2> QED BY <1>1, <1>11
  <1>13. ToSet(s) = {s[m] : m \in 1 .. N}
    BY <1>1 DEF ToSet
  <1> QED BY <1>7, <1>12, <1>13

(* The list of a set, from the least up, leaves nothing out.                *)
LEMMA AscendingAll ==
    ASSUME NEW S, S \subseteq Nat, IsFiniteSet(S)
    PROVE  \A x \in S : \E n \in 1 .. Cardinality(S) : Ascending(S)[n] = x
  <1> DEFINE k == Cardinality(S)
             s == Ascending(S)
  <1>1. k \in Nat
    BY FS_CardinalityType
  <1>2. s \in [1 .. k -> S] /\ \A m, n \in 1 .. k : m < n => s[m] < s[n]
    BY AscendingFacts DEF IsAscending
  <1> HIDE DEF s
  <1>3. ASSUME NEW m \in 1 .. k, NEW n \in 1 .. k, s[m] = s[n] PROVE m = n
    <2>1. s[m] \in Nat /\ s[n] \in Nat
      BY <1>2
    <2>2. ~(m < n) /\ ~(n < m)
      BY <1>2, <1>3, <2>1
    <2> QED BY <1>1, <2>2
  <1>4. s \in Injection(1 .. k, S)
    BY <1>2, <1>3 DEF Injection, IsInjective
  <1>5. IsFiniteSet(1 .. k) /\ Cardinality(1 .. k) = k
    BY <1>1, FS_Interval
  <1>6. s \in Surjection(1 .. k, S)
    <2> HIDE DEF k
    <2> QED BY <1>4, <1>5, FS_Injection DEF k
  <1> QED BY <1>6 DEF Surjection, s

-----------------------------------------------------------------------------
(* The rows of an index.                                                   *)

(* What a row tells of vertex i of replica d.                               *)
IsRow(d, i, row) ==
    /\ row.hash = i
    /\ row.from = d.graph.vertices[i].sender
    /\ row.to = d.graph.vertices[i].recipient
    /\ row.weight = d.graph.weights[i]
    /\ row.is_tip = (i \in d.graph.tips)
    /\ row.conflicted = (i \in DOMAIN d.conflicts)
    /\ row.dag_tx_index \in Nat

AreRows(d, rows) ==
    /\ DOMAIN rows = VertexSet(d.graph)
    /\ \A i \in VertexSet(d.graph) : IsRow(d, i, rows[i])
    /\ \A i, j \in UserVertices(d.graph) :
          rows[i].dag_tx_index = rows[j].dag_tx_index => i = j

(* The position of a spend is above those of the vertices before it.        *)
LEMMA SpendIndexGrows ==
    ASSUME NEW txs, NEW n \in Nat, ~is_genesis(txs[n]), NEW m \in Nat, m < n
    PROVE  SpendIndex(txs, m) < SpendIndex(txs, n)
  <1> DEFINE P(k) == {x \in 1 .. k : ~is_genesis(txs[x])}
  <1>1. \A k \in Nat : IsFiniteSet(P(k))
    <2> SUFFICES ASSUME NEW k \in Nat PROVE IsFiniteSet(P(k))
      OBVIOUS
    <2>1. IsFiniteSet(1 .. k)
      BY FS_Interval
    <2> QED BY <2>1, FS_Subset
  <1>2. P(m) \cup {n} \subseteq P(n) /\ n \notin P(m)
    OBVIOUS
  <1>3. SpendIndex(txs, m) = Cardinality(P(m)) /\ SpendIndex(txs, n) = Cardinality(P(n))
    BY DEF SpendIndex
  <1>4. IsFiniteSet(P(m)) /\ IsFiniteSet(P(n))
    BY <1>1
  <1> HIDE DEF P
  <1>5. Cardinality(P(m) \cup {n}) = Cardinality(P(m)) + 1
    BY <1>2, <1>4, FS_AddElement
  <1>6. Cardinality(P(m) \cup {n}) <= Cardinality(P(n))
    BY <1>2, <1>4, FS_Subset
  <1>7. Cardinality(P(m)) \in Nat /\ Cardinality(P(n)) \in Nat
    BY <1>4, FS_CardinalityType
  <1> QED BY <1>3, <1>5, <1>6, <1>7

(* The rows of a whole replica.                                             *)
LEMMA RowsFacts ==
    ASSUME NEW K, NEW d, ReplicaState(d, K), NEW rows, rows = RowsOf(d)
    PROVE  AreRows(d, rows)
  <1> DEFINE g   == d.graph
             ids == VertexSet(g)
             txs == transactions_for_in_order(g, ids)
             N   == Len(txs)
             At2(i) == CHOOSE n \in DOMAIN txs : txs[n].id = i
  <1>1. GraphOK(g) /\ StoredFrom(g, K)
    BY DEF ReplicaState, ReplicaOK
  <1>2. \A i \in ids : g.vertices[i].id = i
    BY <1>1 DEF StoredFrom
  <1>3. IsBodyList(g, ids, txs)
    BY <1>1, <1>2, StoredBodies
  <1>4. /\ DOMAIN txs = 1 .. N /\ N \in Nat
        /\ {txs[n].id : n \in 1 .. N} = ids
        /\ \A n \in 1 .. N : txs[n] = g.vertices[txs[n].id]
        /\ \A m, n \in 1 .. N : txs[m].id = txs[n].id => m = n
    <2>1. ids \cap ids = ids
      OBVIOUS
    <2> QED BY <1>3, <2>1 DEF IsBodyList, ListsOnce
  <1>5. rows = [i \in ids |-> index_vertex(d, txs[At2(i)], SpendIndex(txs, At2(i)))]
    BY DEF RowsOf
  <1> HIDE DEF txs, N, ids, g
  <1>6. ASSUME NEW i \in ids PROVE At2(i) \in 1 .. N /\ txs[At2(i)].id = i
    <2>1. \E n \in 1 .. N : txs[n].id = i
      BY <1>4
    <2> QED BY <1>4, <2>1
  <1>7. \A i \in ids : txs[At2(i)] = g.vertices[i]
    BY <1>4, <1>6
  <1> HIDE DEF At2
  <1>8. \A k \in Nat : SpendIndex(txs, k) \in Nat
    <2> SUFFICES ASSUME NEW k \in Nat PROVE SpendIndex(txs, k) \in Nat
      OBVIOUS
    <2>1. IsFiniteSet(1 .. k)
      BY FS_Interval
    <2>2. IsFiniteSet({x \in 1 .. k : ~is_genesis(txs[x])})
      BY <2>1, FS_Subset
    <2> QED BY <2>2, FS_CardinalityType DEF SpendIndex
  <1>9. ASSUME NEW i \in ids
        PROVE  IsRow(d, i, rows[i]) /\ rows[i].dag_tx_index = SpendIndex(txs, At2(i))
    <2> DEFINE t == txs[At2(i)]
               n == SpendIndex(txs, At2(i))
    <2>1. t = g.vertices[i] /\ t.id = i
      BY <1>6, <1>7
    <2>2. n \in Nat
      BY <1>4, <1>6, <1>8
    <2>3. rows[i] = index_vertex(d, t, n)
      BY <1>5
    <2> HIDE DEF t, n
    <2>4. /\ rows[i].hash = t.id /\ rows[i].from = t.sender /\ rows[i].to = t.recipient
          /\ rows[i].weight = d.graph.weights[t.id]
          /\ rows[i].is_tip = (t.id \in d.graph.tips)
          /\ rows[i].conflicted = (t.id \in DOMAIN d.conflicts)
          /\ rows[i].dag_tx_index = n
      BY <2>3 DEF index_vertex
    <2> QED BY <2>1, <2>2, <2>4 DEF IsRow, g, n
  <1>10. ASSUME NEW i \in UserVertices(g), NEW j \in UserVertices(g),
                rows[i].dag_tx_index = rows[j].dag_tx_index
         PROVE  i = j
    <2>1. i \in ids /\ j \in ids /\ ~is_genesis(g.vertices[i]) /\ ~is_genesis(g.vertices[j])
      BY DEF UserVertices, ids
    <2>2. PICK a \in 1 .. N : a = At2(i)
      BY <1>6, <2>1
    <2>3. PICK b \in 1 .. N : b = At2(j)
      BY <1>6, <2>1
    <2>4. ~is_genesis(txs[a]) /\ ~is_genesis(txs[b]) /\ txs[a].id = i /\ txs[b].id = j
      BY <1>6, <1>7, <2>1, <2>2, <2>3
    <2>5. SpendIndex(txs, a) = SpendIndex(txs, b)
      BY <1>9, <1>10, <2>1, <2>2, <2>3
    <2>6. a \in Nat /\ b \in Nat /\ SpendIndex(txs, a) \in Nat /\ SpendIndex(txs, b) \in Nat
      BY <1>4, <1>8
    <2>7. ~(a < b)
      BY <2>4, <2>5, <2>6, SpendIndexGrows
    <2>8. ~(b < a)
      BY <2>4, <2>5, <2>6, SpendIndexGrows
    <2>9. a = b
      BY <2>6, <2>7, <2>8
    <2> QED BY <2>4, <2>9
  <1>11. DOMAIN rows = ids
    BY <1>5
  <1> QED BY <1>9, <1>10, <1>11 DEF AreRows, g, ids

(* The index of a replica does not depend on the one before.                *)
LEMMA SyncForgets ==
    ASSUME NEW x, NEW y, NEW d
    PROVE  sync_from_dag(x, d) = sync_from_dag(y, d)
  BY DEF sync_from_dag

(* A spend of a user is in the user's history, if that is short enough to   *)
(* be shown as a whole.                                                     *)
LEMMA HistoryShows ==
    ASSUME NEW K, NEW d, ReplicaState(d, K),
           UserVertices(d.graph) = VertexSet(d.graph) \ {GenesisId},
           Cardinality(UserVertices(d.graph)) <= RECENT_ROWS,
           NEW x, x = sync_from_dag(EmptyIndex, d),
           NEW i \in UserVertices(d.graph), NEW a \in Users,
           d.graph.vertices[i].sender = a
    PROVE  \E row \in ToSet(fetch_view(x, a).txs) : row.hash = i
  <1> DEFINE g    == d.graph
             rows == x.rows
             mine == {j \in DOMAIN rows : a \in {rows[j].from, rows[j].to}}
             here == {rows[j] : j \in ToSet(x.history[a])}
             nums == {row.dag_tx_index : row \in here}
             list == get_wallet_history(x, a)
             k    == Cardinality(nums)
  <1>1. GraphOK(g) /\ StoredFrom(g, K) /\ a \in Address
    BY DEF ReplicaState, ReplicaOK, Users
  <1>2. /\ x.rows = RowsOf(d)
        /\ \A b \in Address : x.history[b] =
              Selected(g.attach_order, {j \in DOMAIN rows : b \in {rows[j].from, rows[j].to}})
    BY DEF sync_from_dag
  <1>3. AreRows(d, rows)
    BY <1>2, RowsFacts
  <1>4. x.history[a] = Selected(g.attach_order, mine)
    BY <1>1, <1>2
  <1>5. g.attach_order \in Seq(TxHash) /\ ToSet(g.attach_order) = VertexSet(g)
    BY <1>1 DEF GraphOK, OrderTopological
  <1>6. DOMAIN rows = VertexSet(g) /\ \A j \in VertexSet(g) : IsRow(d, j, rows[j])
    BY <1>3 DEF AreRows
  <1>7. ToSet(x.history[a]) = VertexSet(g) \cap mine
    BY <1>4, <1>5, SelectedSet
  <1>8. mine \subseteq UserVertices(g) /\ i \in mine
    <2>1. ASSUME NEW j \in mine PROVE j \in UserVertices(g)
      <3>1. /\ j \in VertexSet(g) /\ rows[j].from = g.vertices[j].sender
            /\ rows[j].to = g.vertices[j].recipient
        BY <1>6 DEF IsRow
      <3>2. CASE j = GenesisId
        <4>1. g.vertices[j] = signed_genesis_tx
          BY <1>1, <3>1, <3>2 DEF StoredFrom
        <4> QED BY <3>1, <4>1 DEF signed_genesis_tx, Users
      <3> QED BY <3>1, <3>2
    <2>2. i \in VertexSet(g) /\ rows[i].from = a
      BY <1>6 DEF IsRow, UserVertices
    <2> QED BY <1>6, <2>1, <2>2
  <1>9. here = {rows[j] : j \in mine}
    <2>1. ToSet(x.history[a]) = mine
      BY <1>6, <1>7
    <2> QED BY <2>1
  <1>10. nums = {rows[j].dag_tx_index : j \in mine}
    BY <1>9
  <1> DEFINE num == [j \in mine |-> rows[j].dag_tx_index]
  <1>11. IsFiniteSet(nums) /\ k \in Nat /\ k <= RECENT_ROWS /\ nums \subseteq Nat
    <2>1. num \in Surjection(mine, nums)
      <3> HIDE DEF nums, mine
      <3> QED BY <1>10 DEF Surjection
    <2>2. IsFiniteSet(UserVertices(g)) /\ Cardinality(UserVertices(g)) \in Nat
      <3>1. IsFiniteSet(VertexSet(g)) /\ UserVertices(g) \subseteq VertexSet(g)
        BY <1>1 DEF GraphOK, UserVertices
      <3> QED BY <3>1, FS_Subset, FS_CardinalityType
    <2>3. IsFiniteSet(mine) /\ Cardinality(mine) <= Cardinality(UserVertices(g))
      <3> HIDE DEF mine
      <3> QED BY <1>8, <2>2, FS_Subset
    <2>4. \A j \in mine : rows[j].dag_tx_index \in Nat
      BY <1>6 DEF IsRow
    <2> HIDE DEF mine, nums, num
    <2>5. IsFiniteSet(nums) /\ Cardinality(nums) <= Cardinality(mine)
      BY <2>1, <2>3, FS_Surjection
    <2>6. k \in Nat /\ Cardinality(mine) \in Nat
      BY <2>3, <2>5, FS_CardinalityType
    <2>7. k <= RECENT_ROWS
      BY <2>2, <2>3, <2>5, <2>6 DEF RECENT_ROWS
    <2> QED BY <1>10, <2>4, <2>5, <2>6, <2>7
  <1> DEFINE order == Ascending(nums)
  <1>12. list = [n \in DOMAIN order |-> CHOOSE row \in here : row.dag_tx_index = order[n]]
    BY DEF get_wallet_history
  <1>13. DOMAIN order = 1 .. k
    <2> HIDE DEF nums
    <2> QED BY <1>11, AscendingFacts DEF IsAscending
  <1>14. rows[i].dag_tx_index \in nums
    BY <1>8, <1>10
  <1>15. PICK n \in 1 .. k : order[n] = rows[i].dag_tx_index
    <2> HIDE DEF nums
    <2> QED BY <1>11, <1>14, AscendingAll
  <1>16. list[n] = rows[i]
    <2>1. rows[i] \in here
      BY <1>8, <1>9
    <2>2. ASSUME NEW row \in here, row.dag_tx_index = order[n] PROVE row = rows[i]
      <3>1. PICK j \in mine : row = rows[j]
        BY <1>9, <2>2
      <3>2. j = i
        BY <1>3, <1>8, <1>15, <2>2, <3>1 DEF AreRows
      <3> QED BY <3>1, <3>2
    <2> HIDE DEF here, order, list
    <2>3. list[n] = CHOOSE row \in here : row.dag_tx_index = order[n]
      BY <1>12, <1>13
    <2> QED BY <1>15, <2>1, <2>2, <2>3
  <1>17. rows[i].hash = i
    BY <1>6 DEF IsRow, UserVertices
  <1> DEFINE newest == Reverse(list)
             shown == SubSeq(newest, 1, Min({RECENT_ROWS, Len(newest)}))
  <1>18. fetch_view(x, a).txs = shown
    BY DEF fetch_view, dispatch, get_wallet_snapshot
  <1>19. DOMAIN list = 1 .. k
    BY <1>12, <1>13
  <1> HIDE DEF list, nums, here, mine, order, num
  <1>20. Len(list) = k /\ newest = [m \in 1 .. k |-> list[(k - m) + 1]]
    <2>1. Len(list) = k
      BY <1>11, <1>19
    <2> QED BY <2>1 DEF Reverse
  <1> HIDE DEF newest
  <1>21. Len(newest) = k /\ newest[(k - n) + 1] = rows[i] /\ (k - n) + 1 \in 1 .. k
    <2>1. (k - n) + 1 \in 1 .. k /\ (k - ((k - n) + 1)) + 1 = n
      BY <1>11
    <2> QED BY <1>11, <1>16, <1>20, <2>1
  <1>22. Min({RECENT_ROWS, k}) = k
    <2>1. k \in {RECENT_ROWS, k} /\ \A y \in {RECENT_ROWS, k} : k <= y
      BY <1>11
    <2>2. \A z \in {RECENT_ROWS, k} : (\A y \in {RECENT_ROWS, k} : z <= y) => z = k
      BY <1>11 DEF RECENT_ROWS
    <2> HIDE DEF k
    <2> QED BY <2>1, <2>2 DEF Min
  <1>23. shown = SubSeq(newest, 1, k)
    BY <1>21, <1>22
  <1>24. DOMAIN shown = 1 .. k /\ shown[(k - n) + 1] = newest[(k - n) + 1]
    <2> DEFINE values == {newest[m] : m \in 1 .. k}
    <2>1. newest \in [1 .. k -> values]
      BY <1>20
    <2> HIDE DEF shown, k, values
    <2>2. newest \in Seq(values) /\ 1 \in Nat \ {0} /\ k \in 1 - 1 .. Len(newest)
      BY <1>11, <1>21, <2>1
    <2>3. /\ Len(SubSeq(newest, 1, k)) = k
          /\ \A m \in 1 .. k : SubSeq(newest, 1, k)[m] = newest[m]
          /\ SubSeq(newest, 1, k) \in Seq(values)
      BY <1>11, <1>21, <2>1, <2>2
    <2> QED BY <1>21, <1>23, <2>3
  <1> HIDE DEF shown
  <1>25. rows[i] \in ToSet(shown)
    BY <1>21, <1>24 DEF ToSet
  <1> QED BY <1>17, <1>18, <1>25

-----------------------------------------------------------------------------
(* The payments and the share, and what is known of them.                  *)

IsPayment(t) ==
    /\ t = Transfer(t.id, t.parent_1, t.parent_2, t.sender, t.recipient, t.amount, t.nonce)
    /\ t.id \in TxHash \ {GenesisId}
    /\ {t.sender, t.recipient} \subseteq Address
    /\ t.amount \in SendAmounts \cup {1}
    /\ t.nonce \in 0 .. U64_MAX

Stages == {"unused", "sent", "attached", "answered", "refused"}

IsSession(s) ==
    /\ s = [tx |-> s.tx, at |-> s.at] /\ s.at \in Stages
    /\ s.at # "unused" => IsPayment(s.tx)

(* The vertices of two sessions with one id are one vertex.                 *)
SessInv ==
    /\ DOMAIN sess = 0 .. MaxSends
    /\ \A n \in 0 .. MaxSends : IsSession(sess[n])
    /\ \A k \in Known, t \in Known : k.id = t.id => k = t

(* The known vertices are as many as there are sessions at most, and 64     *)
(* bits hold what they add up to.                                           *)
LEMMA SessionsKnown ==
    ASSUME SessInv, NEW K, K = Known
    PROVE  /\ KnownOK(K) /\ KnownRoom(K, InitialFaucet)
           /\ Cardinality({t.id : t \in K}) \in Nat
           /\ Cardinality({t.id : t \in K}) <= MaxSends + 1
           /\ \A t \in K : IsPayment(t)
  <1> DEFINE used == {n \in 0 .. MaxSends : sess[n].at # "unused"}
             ids  == {t.id : t \in K}
             name == [n \in used |-> sess[n].tx.id]
             c    == Cardinality(ids)
             B    == MaxSends + 1
  <1>1. MaxSends \in Nat /\ InitialFaucet \in [Address -> 0 .. U64_MAX]
    BY DesktopWalletAssumption
  <1>2. /\ DOMAIN sess = 0 .. MaxSends
        /\ \A n \in 0 .. MaxSends : sess[n].at # "unused" => IsPayment(sess[n].tx)
    BY DEF SessInv, IsSession
  <1>3. K = {sess[n].tx : n \in used}
    BY <1>2 DEF Known
  <1>4. \A t \in K : IsPayment(t)
    BY <1>2, <1>3
  <1>5. ids = {sess[n].tx.id : n \in used}
    BY <1>3
  <1> HIDE DEF ids
  <1>6. name \in Surjection(used, ids)
    BY <1>5 DEF Surjection
  <1>7. IsFiniteSet(0 .. MaxSends) /\ Cardinality(0 .. MaxSends) = B
    BY <1>1, FS_Interval
  <1> HIDE DEF name
  <1>8. IsFiniteSet(used) /\ Cardinality(used) <= B /\ Cardinality(used) \in Nat
    <2>1. used \subseteq 0 .. MaxSends
      OBVIOUS
    <2> HIDE DEF used, B
    <2>2. IsFiniteSet(used) /\ Cardinality(used) <= Cardinality(0 .. MaxSends)
      BY <1>7, <2>1, FS_Subset
    <2> QED BY <1>7, <2>2, FS_CardinalityType
  <1> HIDE DEF used
  <1>9. IsFiniteSet(ids) /\ Cardinality(ids) <= Cardinality(used)
    BY <1>6, <1>8, FS_Surjection
  <1>10. c \in Nat /\ c <= B
    <2>1. c \in Nat
      BY <1>9, FS_CardinalityType
    <2> HIDE DEF B
    <2>2. B \in Nat
      BY <1>1 DEF B
    <2> QED BY <1>8, <1>9, <2>1, <2>2
  <1>11. KnownOK(K)
    <2>1. \A t \in K : t.id \in TxHash \ {GenesisId} /\ IsTransaction(t)
      <3> SUFFICES ASSUME NEW t \in K
                   PROVE  t.id \in TxHash \ {GenesisId} /\ IsTransaction(t)
        OBVIOUS
      <3>1. IsPayment(t)
        BY <1>4
      <3>2. t.relays = <<>>
        BY <3>1 DEF IsPayment, Transfer
      <3>3. t.amount \in Nat /\ t.nonce \in Nat
        <4>1. t.amount \in SendAmounts \cup {1} /\ t.nonce \in 0 .. U64_MAX
          BY <3>1 DEF IsPayment
        <4>2. SendAmounts \subseteq Nat
          BY DesktopWalletAssumption
        <4>3. t.amount \in Nat
          <5>1. CASE t.amount \in SendAmounts
            BY <4>2, <5>1
          <5>2. CASE t.amount = 1
            BY <5>2
          <5> QED BY <4>1, <5>1, <5>2
        <4>4. t.nonce \in Nat
          BY <4>1, EconomicsAssumption
        <4> QED BY <4>3, <4>4
      <3>4. <<>> \in Seq(Address)
        OBVIOUS
      <3> QED BY <3>1, <3>2, <3>3, <3>4 DEF IsPayment, IsTransaction
    <2>2. IsFiniteSet({t.id : t \in K})
      BY <1>9 DEF ids
    <2> QED BY <2>1, <2>2 DEF KnownOK
  <1>12. RoomFor(InitialFaucet, c)
    <2>1. B \in Nat /\ B + 1 <= U64_MAX
      <3>1. MaxSends + 1 < U64_MAX /\ U64_MAX \in Nat
        BY DesktopWalletRoom, EconomicsAssumption
      <3> QED BY <1>1, <3>1
    <2>2. B * PoolBound <= U64_MAX
      BY DesktopWalletRoom DEF PoolBound
    <2>3. Total(InitialFaucet) + HARD_CAP <= U64_MAX
      BY DesktopWalletRoom
    <2> HIDE DEF B, c
    <2>4. RoomFor(InitialFaucet, B)
      BY <1>1, <2>1, <2>2, <2>3 DEF RoomFor
    <2>5. c \in 0 .. B
      BY <1>10, <2>1
    <2> QED BY <2>1, <2>4, <2>5, RoomBelow
  <1>13. KnownRoom(K, InitialFaucet)
    BY <1>12 DEF KnownRoom, c, ids
  <1> HIDE DEF c, B
  <1> QED BY <1>4, <1>10, <1>11, <1>13 DEF c, B, ids

(* A session with a new vertex.                                             *)
IsSigned(n, t, x) ==
    /\ SessInv'
    /\ Known' = Known \cup {t}
    /\ sess'[n] = [tx |-> t, at |-> x]
    /\ \A m \in 0 .. MaxSends : m # n => sess'[m] = sess[m]

(* Such a session is one more known vertex, of the id that it is named by.  *)
LEMMA SessionSigned ==
    ASSUME SessInv, NEW n \in 0 .. MaxSends, sess[n].at = "unused",
           NEW t, IsPayment(t), IsNamed(t), NEW x \in Stages \ {"unused"},
           sess' = [sess EXCEPT ![n] = [tx |-> t, at |-> x]]
    PROVE  IsSigned(n, t, x)
  <1>1. /\ DOMAIN sess = 0 .. MaxSends /\ DOMAIN sess' = 0 .. MaxSends
        /\ sess'[n] = [tx |-> t, at |-> x]
        /\ \A m \in 0 .. MaxSends : m # n => sess'[m] = sess[m]
    BY DEF SessInv
  <1>2. sess'[n].tx = t /\ sess'[n].at = x /\ x # "unused" /\ x \in Stages
    BY <1>1
  <1>3. Known' = Known \cup {t}
    <2>1. t \in Known'
      BY <1>1, <1>2 DEF Known
    <2>2. ASSUME NEW k \in Known PROVE k \in Known'
      <3>1. PICK m \in 0 .. MaxSends : sess[m].at # "unused" /\ k = sess[m].tx
        BY <1>1 DEF Known
      <3>2. sess'[m] = sess[m]
        BY <1>1, <3>1
      <3> QED BY <1>1, <3>1, <3>2 DEF Known
    <2>3. ASSUME NEW k \in Known' PROVE k = t \/ k \in Known
      <3>1. PICK m \in 0 .. MaxSends : sess'[m].at # "unused" /\ k = sess'[m].tx
        BY <1>1, <2>3 DEF Known
      <3>2. CASE m = n
        BY <1>2, <3>1, <3>2
      <3>3. CASE m # n
        BY <1>1, <3>1, <3>3 DEF Known
      <3> QED BY <3>2, <3>3
    <2> QED BY <2>1, <2>2, <2>3
  <1>4. ASSUME NEW k \in Known, k.id = t.id PROVE k = t
    <2> DEFINE same == {j \in Known : Signed(j) = Signed(t)}
    <2>1. same # {} /\ t.id \in {j.id : j \in same}
      BY <1>4 DEF IsNamed
    <2>2. PICK j \in Known : Signed(j) = Signed(t) /\ j.id = t.id
      BY <2>1
    <2>3. IsPayment(j)
      <3>1. \A K : K = Known => \A y \in K : IsPayment(y)
        BY SessionsKnown
      <3> QED BY <3>1
    <2>4. j = t
      BY <2>2, <2>3 DEF IsPayment, Transfer, Signed
    <2> QED BY <1>4, <2>2, <2>4 DEF SessInv
  <1>5. \A k \in Known', y \in Known' : k.id = y.id => k = y
    BY <1>3, <1>4 DEF SessInv
  <1>6. \A m \in 0 .. MaxSends : IsSession(sess'[m])
    <2>1. IsSession(sess'[n])
      BY <1>1, <1>2 DEF IsSession
    <2> QED BY <1>1, <2>1 DEF SessInv
  <1> QED BY <1>1, <1>3, <1>5, <1>6 DEF SessInv, IsSigned

(* A session that the hub moves on.                                         *)
IsMoved(n, x) ==
    /\ SessInv'
    /\ Known' = Known
    /\ sess'[n] = [tx |-> sess[n].tx, at |-> x]
    /\ \A m \in 0 .. MaxSends : m # n => sess'[m] = sess[m]
    /\ \A m \in 0 .. MaxSends : sess'[m].tx = sess[m].tx

(* Moving on, a session keeps its vertex.                                   *)
LEMMA SessionMoved ==
    ASSUME SessInv, NEW n \in 0 .. MaxSends, sess[n].at # "unused",
           NEW x \in Stages \ {"unused"}, sess' = [sess EXCEPT ![n].at = x]
    PROVE  IsMoved(n, x)
  <1>1. /\ DOMAIN sess = 0 .. MaxSends /\ DOMAIN sess' = 0 .. MaxSends
        /\ \A m \in 0 .. MaxSends : m # n => sess'[m] = sess[m]
    BY DEF SessInv
  <1>2. sess'[n] = [tx |-> sess[n].tx, at |-> x]
    <2>1. IsSession(sess[n])
      BY DEF SessInv
    <2>2. sess'[n] = [sess[n] EXCEPT !.at = x]
      BY <1>1
    <2> QED BY <2>1, <2>2 DEF IsSession
  <1>3. \A m \in 0 .. MaxSends :
           /\ sess'[m].tx = sess[m].tx
           /\ sess'[m].at # "unused" <=> sess[m].at # "unused"
    BY <1>1, <1>2
  <1>4. Known' = Known
    BY <1>1, <1>3 DEF Known
  <1>5. \A m \in 0 .. MaxSends : IsSession(sess'[m])
    <2>1. IsSession(sess'[n])
      BY <1>2 DEF SessInv, IsSession
    <2> QED BY <1>1, <2>1 DEF SessInv
  <1> QED BY <1>1, <1>2, <1>3, <1>4, <1>5 DEF SessInv, IsMoved

-----------------------------------------------------------------------------
(* What the hub does with a vertex of a session.                           *)

(* Every stored vertex but genesis is a spend.                              *)
AllSpends(g) == UserVertices(g) = VertexSet(g) \ {GenesisId}

IsStored(d, K, t, r) ==
    /\ ReplicaState(r.dag, K) /\ r.dag.faucet = d.faucet
    /\ AllSpends(r.dag.graph)
    /\ VertexSet(d.graph) \subseteq VertexSet(r.dag.graph)
    /\ r.verdict = "Ok" => t.id \in VertexSet(r.dag.graph)
    /\ Payable(K) => /\ Counted(d) => Counted(r.dag)
                     /\ r.verdict # "Ok" => r.dag = d
    /\ WalksUncut(K) /\ WeightsExact(d.graph) => WeightsExact(r.dag.graph)

(* A known vertex that passes the graph's checks, inserted.                 *)
IsGrown(g, K, t, h) ==
    /\ VertexSet(g) \subseteq VertexSet(h) /\ t.id \in VertexSet(h)
    /\ AllSpends(h)
    /\ WalksUncut(K) /\ WeightsExact(g) => WeightsExact(h)

(* Inserting such a vertex grows the graph by it, and keeps weights exact.   *)
LEMMA InsertGrows ==
    ASSUME NEW K, KnownOK(K), NEW d, ReplicaState(d, K), AllSpends(d.graph),
           KnownRoom(K, d.faucet), NEW t \in K,
           NEW g, g = d.graph, GraphVerdict(g, t) = "Ok",
           NEW h, h = InsertVertex(g, t)
    PROVE  IsGrown(g, K, t, h)
  <1>1. GraphOK(g) /\ StoredFrom(g, K)
    BY DEF ReplicaState, ReplicaOK
  <1>2. VertexSet(h) = VertexSet(g) \cup {t.id}
    BY InsertedFields
  <1>3. UserVertices(h) = UserVertices(g) \cup {t.id}
    BY <1>1, InsertedUsers
  <1>4. t.id # GenesisId
    BY DEF KnownOK
  <1>5. AllSpends(h)
    BY <1>2, <1>3, <1>4 DEF AllSpends
  <1>6. ASSUME WalksUncut(K), WeightsExact(g) PROVE WeightsExact(h)
    <2>1. Cardinality({x.id : x \in K}) + 1 <= U64_MAX
      BY DEF KnownRoom, RoomFor
    <2> QED BY <1>1, <1>6, <2>1, StoredWeights
  <1> QED BY <1>2, <1>5, <1>6 DEF IsGrown

(* The hub's miner attaches its share.                                      *)
LEMMA AttachStored ==
    ASSUME NEW K, KnownOK(K), NEW d, ReplicaState(d, K), AllSpends(d.graph),
           KnownRoom(K, d.faucet), NEW t \in K,
           NEW r, r = attach_and_verify_tx(d, t)
    PROVE  IsStored(d, K, t, r)
  <1>1. IsAttach(d, K, t, r)
    BY AttachState
  <1>2. CASE r.dag = d /\ r.verdict # "Ok"
    BY <1>1, <1>2 DEF IsAttach, IsStored
  <1>3. CASE GraphVerdict(d.graph, t) = "Ok" /\ r.dag.graph = InsertVertex(d.graph, t)
              /\ r.verdict = "Ok"
    <2>1. IsGrown(d.graph, K, t, r.dag.graph)
      BY <1>3, InsertGrows
    <2> QED BY <1>1, <1>3, <2>1 DEF IsAttach, IsStored, IsGrown
  <1> QED BY <1>1, <1>2, <1>3 DEF IsAttach

(* A session accepts a payment.                                             *)
LEMMA AcceptStored ==
    ASSUME NEW K, KnownOK(K), NEW d, ReplicaState(d, K), AllSpends(d.graph),
           KnownRoom(K, d.faucet), NEW t \in K,
           NEW r, r = accept_wire_vertex(d, t)
    PROVE  /\ IsStored(d, K, t, r)
           /\ r.verdict = "Known" => t.id \in VertexSet(r.dag.graph)
  <1>1. IsAccept(d, K, t, r)
    BY AcceptState
  <1>2. CASE r.dag = d /\ r.verdict # "Ok" /\ (r.verdict = "Known" <=> t.id \in VertexSet(d.graph))
    BY <1>1, <1>2 DEF IsAccept, IsStored
  <1>3. CASE /\ GraphVerdict(d.graph, t) = "Ok" /\ r.dag.graph = InsertVertex(d.graph, t)
             /\ r.verdict \in {"Ok", "Overflow"}
             /\ \/ /\ r.verdict = "Ok"
                   /\ Counted(d) => Counted(r.dag)
                \/ AmountsFit(r.dag.graph) => r.verdict = "Ok" /\ Counted(r.dag)
    <2>1. IsGrown(d.graph, K, t, r.dag.graph)
      BY <1>3, InsertGrows
    <2>2. Payable(K) => AmountsFit(r.dag.graph)
      BY <1>1, StoredAmounts DEF IsAccept, ReplicaState
    <2>3. Payable(K) => r.verdict = "Ok" /\ (Counted(d) => Counted(r.dag))
      BY <1>3, <2>2
    <2>4. r.verdict # "Known"
      BY <1>3
    <2> QED BY <1>1, <2>1, <2>3, <2>4 DEF IsAccept, IsStored, IsGrown
  <1> QED BY <1>1, <1>2, <1>3 DEF IsAccept

-----------------------------------------------------------------------------
(* The hub.                                                                *)

HubInv ==
    /\ ReplicaState(dag, Known) /\ AllSpends(dag.graph)
    /\ dag.faucet = InitialFaucet
    /\ \A n \in 0 .. MaxSends : sess[n].at \in {"attached", "answered"} =>
                                    sess[n].tx.id \in VertexSet(dag.graph)
    /\ index.nonces \in [Address -> 0 .. U64_MAX]

DeskHub == SessInv /\ HubInv

(* The replica holds what its ledger counts, and with no session pending    *)
(* the index is that of the replica.                                        *)
TruthInv ==
    /\ Counted(dag)
    /\ Pending = {} => index = sync_from_dag(EmptyIndex, dag)

(* What the nonces of an index are.                                         *)
LEMMA SyncNonces ==
    ASSUME NEW x, NEW d, NEW K, ReplicaState(d, K)
    PROVE  sync_from_dag(x, d).nonces \in [Address -> 0 .. U64_MAX]
  <1>1. sync_from_dag(x, d).nonces = d.ledger.next_nonce
    BY DEF sync_from_dag
  <1> QED BY <1>1, LedgerFields DEF ReplicaState, LedgerOK

(* The first states.                                                        *)
LEMMA HubInit ==
    ASSUME Init
    PROVE  DeskHub /\ TruthInv /\ WeightsExact(dag.graph)
  <1>1. /\ sess = [n \in 0 .. MaxSends |-> NoSession]
        /\ dag = CreditAll(with_genesis, InitialFaucet)
        /\ index = sync_from_dag(EmptyIndex, dag)
    BY DEF Init
  <1>2. \A n \in 0 .. MaxSends : sess[n] = [tx |-> signed_genesis_tx, at |-> "unused"]
    BY <1>1 DEF NoSession
  <1>3. Known = {}
    BY <1>1, <1>2 DEF Known
  <1>4. SessInv
    BY <1>1, <1>2, <1>3 DEF SessInv, IsSession, Stages
  <1>5. KnownOK({})
    <2>1. {t.id : t \in {}} = {}
      OBVIOUS
    <2> QED BY <2>1, FS_EmptySet DEF KnownOK
  <1>6. InitialFaucet \in [Address -> 0 .. U64_MAX]
    BY DesktopWalletAssumption
  <1>7. PICK d : d = dag
    OBVIOUS
  <1>8. d = CreditAll(with_genesis, InitialFaucet)
    BY <1>1, <1>7
  <1>9. /\ ReplicaState(d, {}) /\ d.faucet = InitialFaucet
        /\ d.graph = with_genesis.graph /\ VertexSet(d.graph) = {GenesisId}
        /\ UserVertices(d.graph) = {} /\ Counted(d)
    BY <1>5, <1>6, <1>8, BootstrapState
  <1>10. WeightsExact(d.graph)
    BY <1>5, <1>9, GenesisWeights
  <1>11. index.nonces \in [Address -> 0 .. U64_MAX]
    BY <1>1, <1>7, <1>9, SyncNonces
  <1>12. AllSpends(d.graph)
    BY <1>9 DEF AllSpends
  <1>13. HubInv
    BY <1>2, <1>3, <1>7, <1>9, <1>11, <1>12 DEF HubInv
  <1>14. TruthInv
    BY <1>1, <1>7, <1>9 DEF TruthInv
  <1> QED BY <1>4, <1>7, <1>10, <1>13, <1>14 DEF DeskHub

(* What may happen to the hub in a step.                                    *)
IsHubStep ==
    /\ DeskHub'
    /\ Payable(Known') /\ TruthInv => TruthInv'
    /\ WalksUncut(Known') /\ WeightsExact(dag.graph) => WeightsExact(dag'.graph)
    /\ Known \subseteq Known'

(* A step of the wallet alone.                                              *)
LEMMA HubIdle ==
    ASSUME DeskHub, UNCHANGED hub
    PROVE  IsHubStep
  <1>1. sess' = sess /\ dag' = dag /\ index' = index
    BY DEF hub
  <1>2. Known' = Known /\ Pending' = Pending
    BY <1>1 DEF Known, Pending
  <1>3. SessInv'
    BY <1>1, <1>2 DEF DeskHub, SessInv
  <1>4. HubInv'
    BY <1>1, <1>2 DEF DeskHub, HubInv
  <1>5. TruthInv => TruthInv'
    BY <1>1, <1>2 DEF TruthInv
  <1> QED BY <1>1, <1>2, <1>3, <1>4, <1>5 DEF DeskHub, IsHubStep

(* A payment is signed and sent.                                            *)
LEMMA HubSent ==
    ASSUME DeskHub, NEW n \in 0 .. MaxSends, sess[n].at = "unused",
           NEW t, IsPayment(t), IsNamed(t),
           sess' = [sess EXCEPT ![n] = [tx |-> t, at |-> "sent"]],
           dag' = dag, index' = index
    PROVE  IsHubStep /\ IsSigned(n, t, "sent")
  <1>1. IsSigned(n, t, "sent")
    BY SessionSigned DEF DeskHub, Stages
  <1>2. PICK K : K = Known
    OBVIOUS
  <1>3. PICK M : M = Known'
    OBVIOUS
  <1>4. K \subseteq M
    BY <1>1, <1>2, <1>3 DEF IsSigned
  <1>5. ReplicaState(dag, K)
    BY <1>2 DEF DeskHub, HubInv
  <1>6. ReplicaState(dag, M)
    BY <1>4, <1>5, MoreKnown
  <1>7. ReplicaState(dag', Known')
    BY <1>3, <1>6
  <1>8. \A m \in 0 .. MaxSends : sess'[m].at \in {"attached", "answered"} =>
                                     sess'[m].tx.id \in VertexSet(dag'.graph)
    BY <1>1 DEF DeskHub, HubInv, IsSigned
  <1>9. HubInv'
    BY <1>7, <1>8 DEF DeskHub, HubInv
  <1>10. Pending' = Pending
    <2>1. DOMAIN sess = 0 .. MaxSends /\ DOMAIN sess' = 0 .. MaxSends
      BY DEF DeskHub, SessInv
    <2>2. \A m \in 0 .. MaxSends : sess'[m].at = "attached" <=> sess[m].at = "attached"
      BY <1>1 DEF IsSigned
    <2> QED BY <2>1, <2>2 DEF Pending
  <1>11. TruthInv => TruthInv'
    BY <1>10 DEF TruthInv
  <1> QED BY <1>1, <1>2, <1>3, <1>4, <1>9, <1>11 DEF IsHubStep, DeskHub, IsSigned

(* The room that 64 bits have for the sessions, also after a step.          *)
RoomNow ==
    \A K : K = Known =>
        /\ KnownOK(K) /\ KnownRoom(K, InitialFaucet)
        /\ Cardinality({t.id : t \in K}) \in Nat
        /\ Cardinality({t.id : t \in K}) <= MaxSends + 1
        /\ \A t \in K : IsPayment(t)

(* The sessions of the next state have that room too.                       *)
LEMMA SessionsKnownNext == SessInv' => RoomNow'
  <1>1. SessInv => RoomNow
    BY SessionsKnown DEF RoomNow
  <1> QED BY <1>1, PTL

(* The replica, the vertices that may arrive and their room, as constants.  *)
LEMMA HubFacts ==
    ASSUME DeskHub, NEW K, K = Known, NEW d, d = dag
    PROVE  /\ KnownOK(K) /\ KnownRoom(K, d.faucet)
           /\ ReplicaState(d, K) /\ AllSpends(d.graph)
           /\ d.faucet = InitialFaucet
  <1>1. KnownOK(K) /\ KnownRoom(K, InitialFaucet)
    BY SessionsKnown DEF DeskHub
  <1> QED BY <1>1 DEF DeskHub, HubInv

(* What is pending when one session changed.                                *)
LEMMA PendingMoved ==
    ASSUME SessInv, SessInv', NEW n \in 0 .. MaxSends,
           \A m \in 0 .. MaxSends : m # n => sess'[m] = sess[m]
    PROVE  /\ sess'[n].at = "attached" => Pending' # {}
           /\ sess[n].at # "attached" /\ sess'[n].at # "attached" => Pending' = Pending
  BY DEF SessInv, Pending

(* The replica after a step that stored vertex t of session n or refused it. *)
LEMMA HubStores ==
    ASSUME DeskHub, SessInv', NEW n \in 0 .. MaxSends, NEW t, NEW K, K = Known',
           Known \subseteq K,
           NEW d, d = dag, ReplicaState(d, K), NEW r, IsStored(d, K, t, r), dag' = r.dag,
           index' = index, sess[n].at # "attached",
           \A m \in 0 .. MaxSends : m # n => sess'[m] = sess[m],
           sess'[n].tx = t,
           sess'[n].at \in {"attached", "answered"} => t.id \in VertexSet(r.dag.graph),
           r.verdict = "Ok" <=> sess'[n].at = "attached"
    PROVE  IsHubStep
  <1>1. /\ dag.faucet = InitialFaucet /\ index.nonces \in [Address -> 0 .. U64_MAX]
        /\ \A m \in 0 .. MaxSends : sess[m].at \in {"attached", "answered"} =>
                                        sess[m].tx.id \in VertexSet(dag.graph)
        /\ SessInv
    BY DEF DeskHub, HubInv
  <1>2. /\ ReplicaState(r.dag, K) /\ r.dag.faucet = d.faucet /\ AllSpends(r.dag.graph)
        /\ VertexSet(d.graph) \subseteq VertexSet(r.dag.graph)
    BY DEF IsStored
  <1>3. \A m \in 0 .. MaxSends : sess'[m].at \in {"attached", "answered"} =>
                                     sess'[m].tx.id \in VertexSet(r.dag.graph)
    BY <1>1, <1>2
  <1>4. HubInv'
    BY <1>1, <1>2, <1>3 DEF HubInv
  <1>5. ASSUME Payable(K), TruthInv PROVE TruthInv'
    <2>1. Counted(r.dag)
      BY <1>5 DEF TruthInv, IsStored
    <2>2. CASE r.verdict = "Ok"
      <3>1. Pending' # {}
        BY <1>1, <2>2, PendingMoved
      <3> QED BY <2>1, <3>1 DEF TruthInv
    <2>3. CASE r.verdict # "Ok"
      <3>1. Pending' = Pending
        BY <1>1, <2>3, PendingMoved
      <3>2. r.dag = d
        BY <1>5, <2>3 DEF IsStored
      <3> QED BY <1>5, <2>1, <3>1, <3>2 DEF TruthInv
    <2> QED BY <2>2, <2>3
  <1>6. WalksUncut(K) /\ WeightsExact(d.graph) => WeightsExact(r.dag.graph)
    BY DEF IsStored
  <1> QED BY <1>4, <1>5, <1>6 DEF IsHubStep, DeskHub

(* A session serves a payment.                                              *)
LEMMA HubServed ==
    ASSUME DeskHub, NEW n \in Sends, serve_wallet_submit(n)
    PROVE  /\ IsHubStep
           /\ \E x \in Stages \ {"unused"} : IsMoved(n, x)
           /\ sess[n].at = "sent"
  <1>0. /\ n \in 0 .. MaxSends /\ sess[n].at = "sent" /\ index' = index
        /\ MaxSends \in Nat
    BY DesktopWalletAssumption DEF Sends, serve_wallet_submit
  <1>1. PICK K : K = Known
    OBVIOUS
  <1>2. PICK d : d = dag
    OBVIOUS
  <1>3. PICK t : t = sess[n].tx
    OBVIOUS
  <1>4. PICK r : r = accept_wire_vertex(d, t)
    OBVIOUS
  <1>5. t \in K
    <2>1. n \in DOMAIN sess
      BY <1>0 DEF DeskHub, SessInv
    <2> QED BY <1>0, <1>1, <1>3, <2>1 DEF Known
  <1>6. /\ KnownOK(K) /\ KnownRoom(K, d.faucet)
        /\ ReplicaState(d, K) /\ AllSpends(d.graph)
    BY <1>1, <1>2, HubFacts
  <1>7. CASE dag' = dag /\ sess' = [sess EXCEPT ![n].at = "refused"]
    <2>1. IsMoved(n, "refused")
      BY <1>0, <1>7, SessionMoved DEF DeskHub, Stages
    <2>2. PICK s : s = [dag |-> d, verdict |-> "refused"]
      OBVIOUS
    <2>3. s.dag = d /\ s.verdict = "refused"
      BY <2>2
    <2>4. IsStored(d, K, t, s)
      BY <1>6, <2>3 DEF IsStored
    <2>5. /\ SessInv' /\ K = Known' /\ dag' = s.dag /\ sess[n].at # "attached"
          /\ \A m \in 0 .. MaxSends : m # n => sess'[m] = sess[m]
          /\ sess'[n].tx = t /\ sess'[n].at = "refused" /\ Known \subseteq K
      BY <1>0, <1>1, <1>2, <1>3, <1>7, <2>1, <2>3 DEF IsMoved
    <2>6. IsHubStep
      BY <1>0, <1>2, <1>6, <2>3, <2>4, <2>5, HubStores
    <2> QED BY <1>0, <2>1, <2>6 DEF Stages
  <1>8. CASE /\ dag' = r.dag
             /\ sess' = [sess EXCEPT ![n].at = CASE r.verdict = "Ok"    -> "attached"
                                                 [] r.verdict = "Known" -> "answered"
                                                 [] OTHER               -> "refused"]
    <2>1. PICK x : x = CASE r.verdict = "Ok"    -> "attached"
                         [] r.verdict = "Known" -> "answered"
                         [] OTHER               -> "refused"
      OBVIOUS
    <2>2. /\ x \in Stages \ {"unused"} /\ sess' = [sess EXCEPT ![n].at = x]
          /\ x \in {"attached", "answered"} => r.verdict \in {"Ok", "Known"}
          /\ r.verdict = "Ok" <=> x = "attached"
      BY <1>8, <2>1 DEF Stages
    <2>3. IsMoved(n, x)
      BY <1>0, <2>2, SessionMoved DEF DeskHub
    <2>4. /\ IsStored(d, K, t, r)
          /\ r.verdict = "Known" => t.id \in VertexSet(r.dag.graph)
      BY <1>4, <1>5, <1>6, AcceptStored
    <2>5. /\ SessInv' /\ K = Known' /\ sess[n].at # "attached" /\ Known \subseteq K
          /\ \A m \in 0 .. MaxSends : m # n => sess'[m] = sess[m]
          /\ sess'[n].tx = t /\ sess'[n].at = x
      BY <1>0, <1>1, <1>3, <2>3 DEF IsMoved
    <2>6. sess'[n].at \in {"attached", "answered"} => t.id \in VertexSet(r.dag.graph)
      BY <2>2, <2>4, <2>5 DEF IsStored
    <2>7. IsHubStep
      BY <1>0, <1>2, <1>6, <1>8, <2>2, <2>4, <2>5, <2>6, HubStores
    <2> QED BY <1>0, <2>2, <2>3, <2>7
  <1> QED BY <1>2, <1>3, <1>4, <1>7, <1>8 DEF serve_wallet_submit

(* The hub's miner shares.                                                  *)
LEMMA HubMined ==
    ASSUME DeskHub, MineShare
    PROVE  IsHubStep /\ sess[0].at = "unused" /\ \E t : IsSigned(0, t, "attached")
  <1>0. /\ 0 \in 0 .. MaxSends /\ sess[0].at = "unused" /\ index' = index
    BY DesktopWalletAssumption DEF MineShare
  <1>1. PICK d : d = dag
    OBVIOUS
  <1>2. PICK pair \in ParentChoices(dag.graph), id \in TxHash :
          LET t == Transfer(id, pair[1], pair[2], MinerAccount, OldKey, 1,
                            dag.ledger.next_nonce[MinerAccount])
              attached == attach_and_verify_tx(dag, t)
          IN  /\ IsNamed(t)
              /\ attached.verdict = "Ok"
              /\ dag' = attached.dag
              /\ sess' = [sess EXCEPT ![0] = [tx |-> t, at |-> "attached"]]
    BY DEF MineShare
  <1>3. PICK t : t = Transfer(id, pair[1], pair[2], MinerAccount, OldKey, 1,
                              d.ledger.next_nonce[MinerAccount])
    OBVIOUS
  <1>4. PICK r : r = attach_and_verify_tx(d, t)
    OBVIOUS
  <1>5. /\ IsNamed(t) /\ r.verdict = "Ok" /\ dag' = r.dag
        /\ sess' = [sess EXCEPT ![0] = [tx |-> t, at |-> "attached"]]
    BY <1>1, <1>2, <1>3, <1>4
  <1>6. /\ t.id = id /\ t.parent_1 = pair[1] /\ t.parent_2 = pair[2]
        /\ t.sender = MinerAccount /\ t.recipient = OldKey /\ t.amount = 1
        /\ t.nonce = d.ledger.next_nonce[MinerAccount]
        /\ t = Transfer(t.id, t.parent_1, t.parent_2, t.sender, t.recipient, t.amount,
                        t.nonce)
    BY <1>3 DEF Transfer
  <1>7. PICK K : K = Known
    OBVIOUS
  <1>8. /\ KnownOK(K) /\ KnownRoom(K, d.faucet) /\ d.faucet = InitialFaucet
        /\ ReplicaState(d, K) /\ AllSpends(d.graph)
    BY <1>1, <1>7, HubFacts
  <1>9. id # GenesisId
    <2>1. \A k \in Known : k.id # GenesisId
      BY <1>7, <1>8 DEF KnownOK
    <2> QED BY <1>5, <1>6, <2>1 DEF IsNamed
  <1>10. t.nonce \in 0 .. U64_MAX
    <2>1. d.ledger.next_nonce \in [Address -> 0 .. U64_MAX]
      BY <1>8, LedgerFields DEF ReplicaState, LedgerOK
    <2> QED BY <1>6, <2>1, DesktopWalletAssumption
  <1>11. IsPayment(t)
    BY <1>6, <1>9, <1>10, DesktopWalletAssumption DEF IsPayment
  <1>12. IsSigned(0, t, "attached")
    BY <1>0, <1>5, <1>11, SessionSigned DEF DeskHub, Stages
  <1>13. PICK M : M = Known'
    OBVIOUS
  <1>14. /\ SessInv' /\ K \subseteq M /\ t \in M
         /\ sess'[0] = [tx |-> t, at |-> "attached"]
         /\ \A m \in 0 .. MaxSends : m # 0 => sess'[m] = sess[m]
    BY <1>7, <1>12, <1>13 DEF IsSigned
  <1>15. KnownOK(M) /\ KnownRoom(M, InitialFaucet)
    BY <1>13, <1>14, SessionsKnownNext DEF RoomNow
  <1>16. ReplicaState(d, M)
    BY <1>8, <1>14, MoreKnown
  <1>17. IsStored(d, M, t, r)
    BY <1>4, <1>8, <1>14, <1>15, <1>16, AttachStored
  <1>18. t.id \in VertexSet(r.dag.graph)
    BY <1>5, <1>17 DEF IsStored
  <1>19. Known \subseteq M
    BY <1>7, <1>14
  <1>20. sess'[0].tx = t /\ sess'[0].at = "attached"
    BY <1>14
  <1>21. IsHubStep
    BY <1>0, <1>1, <1>5, <1>13, <1>14, <1>16, <1>17, <1>18, <1>19, <1>20, HubStores
  <1> QED BY <1>0, <1>12, <1>21

(* The index is rebuilt.                                                    *)
LEMMA HubPersisted ==
    ASSUME DeskHub, NEW n \in 0 .. MaxSends, persist_vertex(n)
    PROVE  IsHubStep /\ sess[n].at = "attached" /\ IsMoved(n, "answered")
  <1>1. /\ sess[n].at = "attached" /\ dag' = dag /\ index' = sync_from_dag(index, dag)
        /\ sess' = [sess EXCEPT ![n].at = "answered"]
    BY DEF persist_vertex
  <1>2. IsMoved(n, "answered")
    BY <1>1, SessionMoved DEF DeskHub, Stages
  <1>3. PICK K : K = Known
    OBVIOUS
  <1>4. PICK d : d = dag
    OBVIOUS
  <1>5. ReplicaState(d, K)
    BY <1>3, <1>4, HubFacts
  <1>6. index'.nonces \in [Address -> 0 .. U64_MAX]
    BY <1>1, <1>4, <1>5, SyncNonces
  <1>7. \A m \in 0 .. MaxSends : sess'[m].at \in {"attached", "answered"} =>
                                     sess'[m].tx.id \in VertexSet(dag'.graph)
    BY <1>1, <1>2 DEF DeskHub, HubInv, IsMoved
  <1>8. HubInv'
    BY <1>1, <1>2, <1>6, <1>7 DEF DeskHub, HubInv, IsMoved
  <1>9. index' = sync_from_dag(EmptyIndex, dag)
    BY <1>1, SyncForgets
  <1>10. TruthInv => TruthInv'
    BY <1>1, <1>9 DEF TruthInv
  <1> QED BY <1>1, <1>2, <1>8, <1>10 DEF IsHubStep, DeskHub, IsMoved

-----------------------------------------------------------------------------
(* The wallet, its file, and the nonces of what it reported as broadcast.   *)

UserKeys == generated \cup {OldKey}

Phases == {"off", "archiving", "removing", "creating", "open"}

OpenOK ==
    /\ phase \in Phases
    /\ phase # "open" => wallet = NoWallet
    /\ phase = "open" => /\ IsWallet(wallet)
                         /\ wallet.key \in UserKeys /\ wallet.nonce \in 0 .. U64_MAX
                         /\ wallet.screen = "Wallet" <=> wallet.backed_up

FileOK == file # NoFile => file.key \in UserKeys /\ file.nonce \in 0 .. U64_MAX

WaitOK ==
    /\ waiting \in 0 .. MaxSends
    /\ waiting # 0 => /\ phase = "open" /\ wallet.screen = "Wallet"
                      /\ sess[waiting].at # "unused"
                      /\ sess[waiting].tx.sender = wallet.key
                      /\ sess[waiting].tx.nonce = wallet.nonce

SendersOK ==
    /\ generated \subseteq NewKeys
    /\ \A n \in Sends : sess[n].at # "unused" => sess[n].tx.sender \in UserKeys
    /\ receipts \subseteq {n \in Sends : sess[n].at = "answered"}

BoundsOK == faults \in 0 .. MaxFaults /\ crashes \in 0 .. MaxCrashes

(* No payment of the key that was reported as broadcast has this nonce or a *)
(* later one, except where the count of nonces ends.                        *)
SpentBelow(key, nonce) ==
    \A n \in receipts : sess[n].tx.sender = key =>
                            sess[n].tx.nonce < nonce \/ sess[n].tx.nonce = U64_MAX

NoncesOK ==
    \/ behind
    \/ /\ phase = "open" => SpentBelow(wallet.key, wallet.nonce)
       /\ file # NoFile => SpentBelow(file.key, file.nonce)

WalletSide == OpenOK /\ FileOK /\ WaitOK /\ SendersOK /\ BoundsOK /\ NoncesOK

(* A step keeps the sessions: those in use go on with their vertex, and no  *)
(* other payment is signed.                                                 *)
SessKept ==
    /\ \A n \in 0 .. MaxSends :
          /\ sess[n].at # "unused" => sess'[n].at # "unused" /\ sess'[n].tx = sess[n].tx
          /\ sess[n].at = "answered" => sess'[n].at = "answered"
    /\ \A n \in Sends : sess'[n].at # "unused" => sess[n].at # "unused"

(* The payments are sessions, and the share is none of them.                *)
LEMMA SendsInRange == Sends \subseteq 0 .. MaxSends /\ 0 \notin Sends
  BY DesktopWalletAssumption DEF Sends

(* The hub moves, the wallet does not.                                      *)
LEMMA WalletIdle ==
    ASSUME WalletSide, SessKept,
           UNCHANGED <<phase, wallet, file, generated, waiting, receipts, faults, crashes,
                       behind>>
    PROVE  WalletSide'
  <1>1. \A n \in Sends : n \in 0 .. MaxSends
    BY SendsInRange
  <1>2. \A n \in receipts : sess'[n].tx = sess[n].tx /\ sess'[n].at = "answered" /\ n \in Sends
    BY <1>1 DEF WalletSide, SendersOK, SessKept
  <1>3. SendersOK'
    BY <1>1, <1>2 DEF WalletSide, SendersOK, SessKept, UserKeys
  <1>4. WaitOK'
    BY DEF WalletSide, WaitOK, SessKept
  <1>5. NoncesOK'
    BY <1>2 DEF WalletSide, NoncesOK, SpentBelow
  <1> QED BY <1>3, <1>4, <1>5 DEF WalletSide, OpenOK, FileOK, BoundsOK, UserKeys

(* A fresh key has spent nothing.                                           *)
LEMMA FreshUnspent ==
    ASSUME WalletSide, NEW key \in FreshKeys, NEW nonce
    PROVE  SpentBelow(key, nonce) /\ key \notin UserKeys /\ key \in NewKeys
  <1>1. key \in NewKeys /\ key \notin generated /\ key # OldKey
    BY DesktopWalletAssumption DEF FreshKeys
  <1>2. \A n \in receipts : sess[n].tx.sender \in UserKeys
    BY DEF WalletSide, SendersOK
  <1> QED BY <1>1, <1>2 DEF SpentBelow, UserKeys

(* A step of the wallet while nothing is waited for.                        *)
IsRest(w, f) ==
    /\ wallet' = w /\ file' = f /\ waiting' = 0
    /\ UNCHANGED <<sess, receipts, behind>>
    /\ generated \subseteq generated' /\ generated' \subseteq NewKeys
    /\ BoundsOK'

(* A wallet and a file with good contents, and nothing waited for.          *)
LEMMA WalletRest ==
    ASSUME WalletSide, NEW w, NEW f, IsRest(w, f),
           phase' \in Phases, phase' # "open" => w = NoWallet,
           phase' = "open" => /\ IsWallet(w)
                              /\ w.key \in UserKeys' /\ w.nonce \in 0 .. U64_MAX
                              /\ w.screen = "Wallet" <=> w.backed_up
                              /\ behind \/ SpentBelow(w.key, w.nonce),
           f # NoFile => /\ f.key \in UserKeys' /\ f.nonce \in 0 .. U64_MAX
                         /\ behind \/ SpentBelow(f.key, f.nonce)
    PROVE  WalletSide'
  <1>1. OpenOK'
    BY DEF IsRest, OpenOK, UserKeys
  <1>2. FileOK'
    BY DEF IsRest, FileOK, UserKeys
  <1>3. WaitOK'
    BY DesktopWalletAssumption DEF IsRest, WaitOK
  <1>4. SendersOK'
    BY DEF IsRest, WalletSide, SendersOK, UserKeys
  <1>5. NoncesOK'
    BY DEF IsRest, NoncesOK, SpentBelow
  <1> QED BY <1>1, <1>2, <1>3, <1>4, <1>5 DEF IsRest, WalletSide

(* The bounds.                                                              *)
LEMMA BoundsKept ==
    ASSUME BoundsOK, Works \/ Fails, crashes' = crashes
    PROVE  BoundsOK'
  BY DesktopWalletAssumption DEF BoundsOK, Works, Fails

(* A launch that could not load the file goes on with a fresh key.          *)
LEMMA DetachedOpens ==
    ASSUME WalletSide, phase # "open", OpenDetached, Works \/ Fails
    PROVE  WalletSide'
  <1>1. PICK key \in FreshKeys :
           /\ Open(detached_wallet(key)) /\ generated' = generated \cup {key}
           /\ UNCHANGED <<disk, phrases, hub, waiting, receipts, crashes, history>>
    BY DEF OpenDetached
  <1>2. PICK w : w = detached_wallet(key)
    OBVIOUS
  <1>3. PICK f : f = file
    OBVIOUS
  <1>4. waiting = 0
    BY DEF WalletSide, WaitOK
  <1>5. key \in NewKeys
    BY <1>1, FreshUnspent
  <1>6. BoundsOK'
    BY <1>1, BoundsKept DEF WalletSide
  <1>7. IsRest(w, f)
    BY <1>1, <1>2, <1>3, <1>4, <1>5, <1>6
       DEF IsRest, Open, disk, hub, history, WalletSide, SendersOK
  <1>8. /\ IsWallet(w) /\ w.key = key /\ w.nonce = 0
        /\ w.screen = "SavePhrase" /\ w.backed_up = FALSE
    BY <1>2 DEF detached_wallet, IsWallet
  <1>9. w.nonce \in 0 .. U64_MAX
    BY <1>8, EconomicsAssumption
  <1>10. SpentBelow(w.key, w.nonce)
    BY <1>1, <1>8, FreshUnspent
  <1>11. w.key \in UserKeys'
    BY <1>1, <1>8 DEF UserKeys
  <1>12. f # NoFile => /\ f.key \in UserKeys' /\ f.nonce \in 0 .. U64_MAX
                       /\ behind \/ SpentBelow(f.key, f.nonce)
    BY <1>1, <1>3 DEF WalletSide, FileOK, NoncesOK, UserKeys
  <1>13. phase' = "open" /\ phase' \in Phases
    BY <1>1 DEF Open, Phases
  <1> QED BY <1>7, <1>8, <1>9, <1>10, <1>11, <1>12, <1>13, WalletRest

(* What the file may hold stays as it is.                                   *)
LEMMA FileStays ==
    ASSUME WalletSide, generated \subseteq generated', NEW f, f = file, f # NoFile
    PROVE  /\ f.key \in UserKeys' /\ f.nonce \in 0 .. U64_MAX
           /\ behind \/ SpentBelow(f.key, f.nonce)
  BY DEF WalletSide, FileOK, NoncesOK, UserKeys

(* The launch.                                                              *)
LEMMA WalletLaunch ==
    ASSUME WalletSide,
           OpenLoaded \/ Launch \/ LoadFails \/ CopyLegacy \/ RemoveLegacy \/ CreateNew
    PROVE  WalletSide'
  <1>1. ASSUME OpenLoaded PROVE WalletSide'
    <2>1. /\ phase = "off" /\ phase' = "open" /\ file # NoFile
          /\ wallet' = from_loaded(file, FALSE)
          /\ file' = file \/ file' = save_at(file)
          /\ Works \/ Fails
          /\ UNCHANGED <<baks, phrases, generated, hub, waiting, receipts, crashes, history>>
      BY <1>1 DEF OpenLoaded, Open, load_or_create_at
    <2>2. PICK o : o = file
      OBVIOUS
    <2>3. PICK w : w = from_loaded(o, FALSE)
      OBVIOUS
    <2>4. PICK f : f = file'
      OBVIOUS
    <2>5. /\ o.key \in UserKeys' /\ o.nonce \in 0 .. U64_MAX
          /\ behind \/ SpentBelow(o.key, o.nonce)
      BY <2>1, <2>2, FileStays
    <2>6. f.key = o.key /\ f.nonce = o.nonce
      BY <2>1, <2>2, <2>4 DEF save_at
    <2>7. /\ IsWallet(w) /\ w.key = o.key /\ w.nonce = o.nonce
          /\ w.screen = "Wallet" <=> w.backed_up
      BY <2>3 DEF from_loaded, IsWallet
    <2>8. BoundsOK'
      BY <2>1, BoundsKept DEF WalletSide
    <2>9. waiting = 0 /\ generated \subseteq NewKeys
      BY <2>1 DEF WalletSide, WaitOK, SendersOK
    <2>10. IsRest(w, f)
      BY <2>1, <2>2, <2>3, <2>4, <2>8, <2>9 DEF IsRest, hub, history
    <2> QED BY <2>1, <2>5, <2>6, <2>7, <2>10, WalletRest DEF Phases
  <1>2. ASSUME phase # "open", phase' \in Phases \ {"open"}, wallet' = wallet,
               file' = file \/ file' = NoFile,
               UNCHANGED <<generated, hub, waiting, receipts, crashes, history>>,
               BoundsOK'
        PROVE  WalletSide'
    <2>1. PICK f : f = file'
      OBVIOUS
    <2>2. f # NoFile => /\ f.key \in UserKeys' /\ f.nonce \in 0 .. U64_MAX
                        /\ behind \/ SpentBelow(f.key, f.nonce)
      BY <1>2, <2>1, FileStays
    <2>3. waiting = 0 /\ generated \subseteq NewKeys /\ wallet = NoWallet
      BY <1>2 DEF WalletSide, WaitOK, SendersOK, OpenOK
    <2>4. IsRest(NoWallet, f)
      BY <1>2, <2>1, <2>3 DEF IsRest, hub, history
    <2> QED BY <1>2, <2>2, <2>4, WalletRest
  <1>3. ASSUME Launch PROVE WalletSide'
    <2>1. /\ phase # "open" /\ phase' \in Phases \ {"open"}
          /\ UNCHANGED <<wallet, file, generated, hub, waiting, receipts, faults, crashes,
                         history>>
      BY <1>3 DEF Launch, disk, Phases
    <2>2. BoundsOK'
      BY <2>1 DEF WalletSide, BoundsOK
    <2> QED BY <1>2, <2>1, <2>2
  <1>4. ASSUME LoadFails PROVE WalletSide'
    BY <1>4, DetachedOpens DEF LoadFails
  <1>5. ASSUME CopyLegacy PROVE WalletSide'
    <2>1. CASE Fails /\ OpenDetached
      BY <1>5, <2>1, DetachedOpens DEF CopyLegacy
    <2>2. CASE /\ Works /\ phase' = "removing"
               /\ UNCHANGED <<wallet, file, phrases, generated, hub, waiting, receipts,
                              crashes, history>>
      <3>1. phase # "open"
        BY <1>5 DEF CopyLegacy
      <3>2. BoundsOK'
        BY <2>2, BoundsKept DEF WalletSide
      <3> QED BY <1>2, <2>2, <3>1, <3>2 DEF Phases
    <2> QED BY <1>5, <2>1, <2>2 DEF CopyLegacy
  <1>6. ASSUME RemoveLegacy PROVE WalletSide'
    <2>1. CASE Fails /\ OpenDetached
      BY <1>6, <2>1, DetachedOpens DEF RemoveLegacy
    <2>2. CASE /\ Works /\ file' = NoFile /\ phase' = "creating"
               /\ UNCHANGED <<wallet, baks, phrases, generated, hub, waiting, receipts,
                              crashes, history>>
      <3>1. phase # "open"
        BY <1>6 DEF RemoveLegacy
      <3>2. BoundsOK'
        BY <2>2, BoundsKept DEF WalletSide
      <3> QED BY <1>2, <2>2, <3>1, <3>2 DEF Phases
    <2> QED BY <1>6, <2>1, <2>2 DEF RemoveLegacy
  <1>7. ASSUME CreateNew PROVE WalletSide'
    <2>1. CASE Fails /\ OpenDetached
      BY <1>7, <2>1, DetachedOpens DEF CreateNew
    <2>2. ASSUME NEW key \in FreshKeys, generated' = generated \cup {key},
                 NEW v, v = [detached_wallet(key) EXCEPT !.detached = FALSE],
                 Save(v), Open(from_loaded(save_at(v), TRUE)),
                 UNCHANGED <<baks, phrases, hub, waiting, receipts, crashes, behind, found>>
          PROVE  WalletSide'
      <3>1. v.key = key /\ v.nonce = 0 /\ v.backed_up = FALSE
        BY <2>2 DEF detached_wallet
      <3>2. PICK f : f = save_at(v)
        OBVIOUS
      <3>3. PICK w : w = from_loaded(f, TRUE)
        OBVIOUS
      <3>4. f.key = key /\ f.nonce = 0 /\ f.backed_up = FALSE
        BY <3>1, <3>2 DEF save_at
      <3>5. /\ IsWallet(w) /\ w.key = key /\ w.nonce = 0
            /\ w.screen = "Wallet" <=> w.backed_up
        BY <3>3, <3>4 DEF from_loaded, IsWallet
      <3>6. 0 \in 0 .. U64_MAX
        BY EconomicsAssumption
      <3>7. SpentBelow(key, 0) /\ key \in NewKeys
        BY FreshUnspent
      <3>8. key \in UserKeys'
        BY <2>2 DEF UserKeys
      <3>9. phase' = "open" /\ wallet' = w /\ file' = f /\ Works
        BY <2>2, <3>2, <3>3 DEF Open, Save
      <3>10. BoundsOK'
        BY <2>2, <3>9, BoundsKept DEF WalletSide
      <3>11. waiting = 0 /\ generated \subseteq NewKeys
        BY <1>7 DEF CreateNew, WalletSide, WaitOK, SendersOK
      <3>12. IsRest(w, f)
        BY <2>2, <3>7, <3>9, <3>10, <3>11 DEF IsRest, hub
      <3> QED BY <3>4, <3>5, <3>6, <3>7, <3>8, <3>9, <3>12, WalletRest DEF Phases
    <2> QED BY <1>7, <2>1, <2>2 DEF CreateNew
  <1> QED BY <1>1, <1>3, <1>4, <1>5, <1>6, <1>7

(* The wallet closes or dies.                                               *)
LEMMA WalletCrash ==
    ASSUME WalletSide, Crash
    PROVE  WalletSide'
  <1>1. /\ phase' = "off" /\ wallet' = NoWallet /\ waiting' = 0
        /\ crashes < MaxCrashes /\ crashes' = crashes + 1
        /\ UNCHANGED <<file, generated, hub, receipts, faults, history>>
    BY DEF Crash, disk
  <1>2. PICK f : f = file
    OBVIOUS
  <1>3. f # NoFile => /\ f.key \in UserKeys' /\ f.nonce \in 0 .. U64_MAX
                      /\ behind \/ SpentBelow(f.key, f.nonce)
    BY <1>1, <1>2, FileStays
  <1>4. BoundsOK'
    BY <1>1, DesktopWalletAssumption DEF WalletSide, BoundsOK
  <1>5. IsRest(NoWallet, f)
    BY <1>1, <1>2, <1>4 DEF IsRest, hub, history, WalletSide, SendersOK
  <1> QED BY <1>1, <1>3, <1>5, WalletRest DEF Phases

(* The backup screens.                                                      *)
LEMMA WalletScreens ==
    ASSUME WalletSide, SavePhrase \/ Back \/ confirm_quiz
    PROVE  WalletSide'
  <1>1. /\ phase = "open" /\ phase' = "open" /\ IsWallet(wallet)
        /\ wallet.screen # "Wallet" /\ waiting' = waiting
        /\ UNCHANGED <<generated, hub, receipts, crashes, behind>>
    BY DEF SavePhrase, Back, confirm_quiz, At, WalletSide, OpenOK, history
  <1>2. PICK w : w = wallet'
    OBVIOUS
  <1>3. PICK f : f = file'
    OBVIOUS
  <1>4. PICK o : o = file
    OBVIOUS
  <1>5. /\ IsWallet(w) /\ w.key = wallet.key /\ w.nonce = wallet.nonce
        /\ w.screen = "Wallet" <=> w.backed_up
    <2>2. ASSUME SavePhrase PROVE w = [wallet EXCEPT !.screen = "ConfirmPhrase"]
      BY <1>2, <2>2 DEF SavePhrase
    <2>3. ASSUME Back PROVE w = [wallet EXCEPT !.screen = "SavePhrase"]
      BY <1>2, <2>3 DEF Back
    <2>4. ASSUME confirm_quiz
          PROVE  w = [wallet EXCEPT !.backed_up = TRUE, !.screen = "Wallet"]
      BY <1>2, <2>4 DEF confirm_quiz
    <2>5. wallet.screen = "Wallet" <=> wallet.backed_up
      BY <1>1 DEF WalletSide, OpenOK
    <2>6. CASE SavePhrase
      BY <1>1, <2>2, <2>5, <2>6 DEF IsWallet
    <2>7. CASE Back
      BY <1>1, <2>3, <2>5, <2>7 DEF IsWallet
    <2>8. CASE confirm_quiz
      BY <1>1, <2>4, <2>8 DEF IsWallet
    <2> QED BY <2>6, <2>7, <2>8
  <1>6. f = o \/ (f.key = w.key /\ f.nonce = w.nonce)
    <2>1. CASE SavePhrase \/ Back
      BY <1>3, <1>4, <2>1 DEF SavePhrase, Back, disk
    <2>2. CASE confirm_quiz
      <3>1. file' = file \/ file' = save_at(wallet')
        BY <2>2 DEF confirm_quiz, Save, NotSaved
      <3> QED BY <1>2, <1>3, <1>4, <3>1 DEF save_at
    <2> QED BY <2>1, <2>2
  <1>7. /\ w.key \in UserKeys' /\ w.nonce \in 0 .. U64_MAX
        /\ behind \/ SpentBelow(w.key, w.nonce)
    BY <1>1, <1>5 DEF WalletSide, OpenOK, NoncesOK, UserKeys
  <1>8. o # NoFile => /\ o.key \in UserKeys' /\ o.nonce \in 0 .. U64_MAX
                      /\ behind \/ SpentBelow(o.key, o.nonce)
    BY <1>1, <1>4, FileStays
  <1>9. BoundsOK'
    <2>1. faults' = faults \/ Fails
      BY DEF SavePhrase, Back, confirm_quiz, Save, NotSaved, Works
    <2> QED BY <1>1, <2>1, BoundsKept DEF WalletSide, Works
  <1>10. waiting = 0
    BY <1>1 DEF WalletSide, WaitOK
  <1>11. IsRest(w, f)
    BY <1>1, <1>2, <1>3, <1>9, <1>10 DEF IsRest, hub, WalletSide, SendersOK
  <1> QED BY <1>1, <1>5, <1>6, <1>7, <1>8, <1>11, WalletRest DEF Phases

DeskInv == DeskHub /\ WalletSide

(* A payment is signed for the first session that is free.                  *)
IsSend(n, t) ==
    /\ n \in Unused /\ waiting = 0 /\ waiting' = n
    /\ At("Wallet")
    /\ IsPayment(t) /\ IsNamed(t) /\ t.sender = wallet.key
    /\ t.nonce \in {fetch_compose(index, wallet.key).nonce, wallet.nonce}
    /\ sess' = [sess EXCEPT ![n] = [tx |-> t, at |-> "sent"]]
    /\ wallet' = [wallet EXCEPT !.nonce = t.nonce]
    /\ behind' = (behind \/ t.nonce < wallet.nonce)
    /\ UNCHANGED <<phase, file, generated, dag, index, receipts, faults, crashes>>

(* sign_send is such a step.                                                *)
LEMMA SendStep ==
    ASSUME DeskInv, sign_send
    PROVE  \E n, t : IsSend(n, t)
  <1>1. /\ At("Wallet") /\ waiting = 0 /\ Unused # {}
        /\ UNCHANGED <<phase, file, generated, dag, index, receipts, faults, crashes>>
    BY DEF sign_send, disk
  <1>2. PICK hint \in {fetch_compose(index, wallet.key), OwnGuess(wallet)},
             amount \in SendAmounts, id \in TxHash :
          LET n == Min(Unused)
              t == Transfer(id, hint.parent_1, hint.parent_2, wallet.key, Payee,
                            amount, hint.nonce)
          IN  /\ IsNamed(t)
              /\ sess' = [sess EXCEPT ![n] = [tx |-> t, at |-> "sent"]]
              /\ waiting' = n
              /\ wallet' = [wallet EXCEPT !.nonce = hint.nonce]
              /\ behind' = (behind \/ hint.nonce < wallet.nonce)
    BY DEF sign_send
  <1>3. PICK n : n = Min(Unused)
    OBVIOUS
  <1>4. n \in Unused
    <2>1. Unused \subseteq Nat
      BY DesktopWalletAssumption DEF Unused, Sends
    <2>2. \E m \in Unused : \A k \in Unused : m <= k
      BY <1>1, <2>1, LeastNat
    <2> QED BY <1>3, <2>2 DEF Min
  <1>5. PICK t : t = Transfer(id, hint.parent_1, hint.parent_2, wallet.key, Payee,
                              amount, hint.nonce)
    OBVIOUS
  <1>6. /\ IsNamed(t) /\ sess' = [sess EXCEPT ![n] = [tx |-> t, at |-> "sent"]]
        /\ waiting' = n /\ wallet' = [wallet EXCEPT !.nonce = hint.nonce]
        /\ behind' = (behind \/ hint.nonce < wallet.nonce)
    BY <1>2, <1>3, <1>5
  <1>7. /\ t.id = id /\ t.sender = wallet.key /\ t.recipient = Payee
        /\ t.amount = amount /\ t.nonce = hint.nonce
        /\ t = Transfer(t.id, t.parent_1, t.parent_2, t.sender, t.recipient, t.amount,
                        t.nonce)
    BY <1>5 DEF Transfer
  <1>8. /\ wallet.key \in Address /\ wallet.nonce \in 0 .. U64_MAX /\ Payee \in Address
    BY <1>1, DesktopWalletAssumption
       DEF DeskInv, WalletSide, OpenOK, SendersOK, UserKeys, At
  <1>9. hint.nonce \in {fetch_compose(index, wallet.key).nonce, wallet.nonce}
    BY <1>2 DEF OwnGuess
  <1>10. fetch_compose(index, wallet.key).nonce \in 0 .. U64_MAX
    <2>1. fetch_compose(index, wallet.key).nonce = index.nonces[wallet.key]
      BY DEF fetch_compose, dispatch, compose_hint
    <2> QED BY <1>8, <2>1 DEF DeskInv, DeskHub, HubInv
  <1>11. id # GenesisId
    <2>1. \A k \in Known : k.id # GenesisId
      <3>1. SessInv => RoomNow
        BY SessionsKnown DEF RoomNow
      <3> QED BY <3>1 DEF DeskInv, DeskHub, RoomNow, KnownOK
    <2> QED BY <1>6, <1>7, <2>1 DEF IsNamed
  <1>12. IsPayment(t)
    <2>1. t.nonce \in 0 .. U64_MAX
      BY <1>7, <1>8, <1>9, <1>10
    <2> QED BY <1>7, <1>8, <1>11, <2>1 DEF IsPayment
  <1>13. /\ t.nonce \in {fetch_compose(index, wallet.key).nonce, wallet.nonce}
         /\ wallet' = [wallet EXCEPT !.nonce = t.nonce]
         /\ behind' = (behind \/ t.nonce < wallet.nonce)
    BY <1>6, <1>7, <1>9
  <1> QED BY <1>1, <1>4, <1>6, <1>7, <1>12, <1>13 DEF IsSend

(* Signing keeps the hub and the wallet in good states: the nonce goes up,  *)
(* or the wallet is behind.                                                 *)
LEMMA SendKeeps ==
    ASSUME DeskInv, NEW n, NEW t, IsSend(n, t)
    PROVE  IsHubStep /\ WalletSide'
  <1>1. /\ n \in Sends /\ n \in 0 .. MaxSends /\ sess[n].at = "unused" /\ n # 0
    BY SendsInRange DEF IsSend, Unused
  <1>2. IsHubStep /\ IsSigned(n, t, "sent")
    BY <1>1, HubSent DEF DeskInv, IsSend
  <1>3. /\ phase = "open" /\ wallet.screen = "Wallet" /\ IsWallet(wallet)
        /\ wallet.key \in UserKeys /\ wallet.nonce \in 0 .. U64_MAX
        /\ wallet.screen = "Wallet" <=> wallet.backed_up
    BY DEF DeskInv, WalletSide, OpenOK, IsSend, At
  <1>4. PICK w : w = wallet'
    OBVIOUS
  <1>5. /\ IsWallet(w) /\ w.key = wallet.key /\ w.nonce = t.nonce
        /\ w.screen = wallet.screen /\ w.backed_up = wallet.backed_up
    BY <1>3, <1>4 DEF IsSend, IsWallet
  <1>6. t.nonce \in 0 .. U64_MAX /\ t.sender = w.key
    BY <1>5 DEF IsSend, IsPayment
  <1>7. OpenOK'
    BY <1>3, <1>4, <1>5, <1>6 DEF OpenOK, IsSend, DeskInv, WalletSide, UserKeys
  <1>8. WaitOK'
    <2>1. sess'[n].at = "sent" /\ sess'[n].tx = t
      BY <1>2 DEF IsSigned
    <2> QED BY <1>1, <1>3, <1>4, <1>5, <1>6, <2>1 DEF WaitOK, IsSend
  <1>9. \A m \in Sends : m \in 0 .. MaxSends /\ (m # n => sess'[m] = sess[m])
    BY <1>2, SendsInRange DEF IsSigned
  <1>10. \A m \in receipts : m \in Sends /\ m # n /\ sess[m].at = "answered"
    BY <1>1 DEF DeskInv, WalletSide, SendersOK
  <1>11. SendersOK'
    <2>1. sess'[n].tx.sender \in UserKeys
      BY <1>2, <1>3, <1>5, <1>6 DEF IsSigned
    <2> QED BY <1>9, <1>10, <2>1 DEF SendersOK, IsSend, DeskInv, WalletSide, UserKeys
  <1>12. FileOK' /\ BoundsOK'
    BY DEF DeskInv, WalletSide, FileOK, BoundsOK, IsSend, UserKeys
  <1>13. \A m \in receipts : sess'[m] = sess[m]
    BY <1>9, <1>10
  <1>14. NoncesOK'
    <2>1. CASE behind'
      BY <2>1 DEF NoncesOK
    <2>2. CASE ~behind'
      <3>1. ~behind /\ ~(t.nonce < wallet.nonce)
        BY <2>2 DEF IsSend
      <3>2. /\ SpentBelow(wallet.key, wallet.nonce)
            /\ file # NoFile => SpentBelow(file.key, file.nonce)
        BY <1>3, <3>1 DEF DeskInv, WalletSide, NoncesOK
      <3>3. file # NoFile => SpentBelow(file.key, file.nonce)'
        BY <1>13, <3>2 DEF SpentBelow, IsSend
      <3>4. SpentBelow(wallet.key, wallet.nonce)'
        <4> SUFFICES ASSUME NEW m \in receipts, sess[m].tx.sender = wallet.key
                     PROVE  sess[m].tx.nonce < t.nonce \/ sess[m].tx.nonce = U64_MAX
          BY <1>4, <1>5, <1>13 DEF SpentBelow, IsSend
        <4>1. sess[m].tx.nonce < wallet.nonce \/ sess[m].tx.nonce = U64_MAX
          BY <3>2 DEF SpentBelow
        <4>2. sess[m].tx.nonce \in 0 .. U64_MAX
          <5>1. m \in 0 .. MaxSends /\ sess[m].at # "unused"
            BY <1>9, <1>10
          <5> QED BY <5>1 DEF DeskInv, DeskHub, SessInv, IsSession, IsPayment
        <4> QED BY <1>3, <1>6, <3>1, <4>1, <4>2
      <3> QED BY <3>3, <3>4 DEF NoncesOK, IsSend
    <2> QED BY <2>1, <2>2
  <1> QED BY <1>2, <1>7, <1>8, <1>11, <1>12, <1>14 DEF WalletSide

(* The wallet hears that its payment was broadcast.                         *)
LEMMA AcknowledgedKeeps ==
    ASSUME DeskInv, Acknowledged
    PROVE  WalletSide'
  <1>1. /\ waiting # 0 /\ sess[waiting].at = "answered"
        /\ receipts' = receipts \cup {waiting} /\ waiting' = 0
        /\ UNCHANGED <<phase, generated, hub, crashes>>
    BY DEF Acknowledged, broadcast_wallet_tx
  <1>2. PICK n : n = waiting
    OBVIOUS
  <1>3. PICK t : t = sess[n].tx
    OBVIOUS
  <1>4. /\ phase = "open" /\ t.sender = wallet.key /\ t.nonce = wallet.nonce
        /\ n \in 0 .. MaxSends /\ n # 0
    BY <1>1, <1>2, <1>3 DEF DeskInv, WalletSide, WaitOK
  <1>5. n \in Sends
    BY <1>4, DesktopWalletAssumption DEF Sends
  <1>6. /\ IsWallet(wallet) /\ wallet.key \in UserKeys /\ wallet.nonce \in 0 .. U64_MAX
        /\ wallet.screen = "Wallet" <=> wallet.backed_up
    BY <1>4 DEF DeskInv, WalletSide, OpenOK
  <1>7. PICK w : w = [wallet EXCEPT !.nonce = SaturatingAdd(t.nonce, 1)]
    OBVIOUS
  <1>8. /\ wallet' = w
        /\ \/ Save(w) /\ behind' = behind
           \/ NotSaved /\ behind' = TRUE
    BY <1>2, <1>3, <1>7 DEF Acknowledged, AfterDone
  <1>9. /\ IsWallet(w) /\ w.key = wallet.key /\ w.nonce = SaturatingAdd(wallet.nonce, 1)
        /\ w.screen = wallet.screen /\ w.backed_up = wallet.backed_up
    BY <1>4, <1>6, <1>7 DEF IsWallet
  <1>10. /\ w.nonce \in 0 .. U64_MAX /\ wallet.nonce <= w.nonce
         /\ wallet.nonce < w.nonce \/ wallet.nonce = U64_MAX
    BY <1>6, <1>9, EconomicsAssumption DEF SaturatingAdd
  <1>11. OpenOK'
    BY <1>1, <1>4, <1>6, <1>8, <1>9, <1>10 DEF OpenOK, UserKeys, Phases
  <1>12. /\ file' = file \/ (file'.key = w.key /\ file'.nonce = w.nonce)
         /\ ~behind' => behind' = behind /\ file'.key = w.key /\ file'.nonce = w.nonce
    BY <1>8 DEF Save, NotSaved, save_at
  <1>13. FileOK'
    BY <1>1, <1>6, <1>9, <1>10, <1>12 DEF FileOK, DeskInv, WalletSide, UserKeys
  <1>14. WaitOK'
    BY <1>1, DesktopWalletAssumption DEF WaitOK
  <1>15. SendersOK'
    BY <1>1, <1>2, <1>5 DEF SendersOK, DeskInv, WalletSide, hub, UserKeys
  <1>16. BoundsOK'
    <2>1. Works \/ Fails
      BY <1>8 DEF Save, NotSaved
    <2> QED BY <1>1, <2>1, BoundsKept DEF DeskInv, WalletSide
  <1>17. NoncesOK'
    <2>1. CASE behind'
      BY <2>1 DEF NoncesOK
    <2>2. CASE ~behind'
      <3>1. ~behind /\ file'.key = w.key /\ file'.nonce = w.nonce
        BY <1>12, <2>2
      <3>2. SpentBelow(wallet.key, wallet.nonce)
        BY <1>4, <3>1 DEF DeskInv, WalletSide, NoncesOK
      <3>3. \A m \in receipts' : sess'[m].tx.sender = w.key =>
                sess'[m].tx.nonce < w.nonce \/ sess'[m].tx.nonce = U64_MAX
        <4> SUFFICES ASSUME NEW m \in receipts', sess[m].tx.sender = w.key
                     PROVE  sess[m].tx.nonce < w.nonce \/ sess[m].tx.nonce = U64_MAX
          BY <1>1 DEF hub
        <4>1. CASE m = n
          BY <1>3, <1>4, <1>10, <4>1
        <4>2. CASE m \in receipts
          <5>1. sess[m].tx.nonce < wallet.nonce \/ sess[m].tx.nonce = U64_MAX
            BY <1>9, <3>2, <4>2 DEF SpentBelow
          <5>2. sess[m].tx.nonce \in 0 .. U64_MAX
            <6>1. m \in 0 .. MaxSends /\ sess[m].at # "unused"
              BY <4>2, SendsInRange DEF DeskInv, WalletSide, SendersOK
            <6> QED BY <6>1 DEF DeskInv, DeskHub, SessInv, IsSession, IsPayment
          <5> QED BY <1>6, <1>10, <5>1, <5>2
        <4> QED BY <1>1, <1>2, <4>1, <4>2
      <3>4. SpentBelow(wallet.key, wallet.nonce)' /\ SpentBelow(file.key, file.nonce)'
        BY <1>8, <3>1, <3>3 DEF SpentBelow
      <3> QED BY <3>4 DEF NoncesOK
    <2> QED BY <2>1, <2>2
  <1> QED BY <1>11, <1>13, <1>14, <1>15, <1>16, <1>17 DEF WalletSide

(* The wallet gives its payment up.                                         *)
LEMMA FailedKeeps ==
    ASSUME WalletSide, BroadcastFailed
    PROVE  WalletSide'
  <1>1. /\ waiting' = 0
        /\ UNCHANGED <<phase, wallet, file, generated, hub, receipts, faults, crashes, behind>>
    BY DEF BroadcastFailed, disk, history
  <1>2. WaitOK'
    BY <1>1, DesktopWalletAssumption DEF WaitOK
  <1>3. SendersOK' /\ NoncesOK'
    BY <1>1 DEF WalletSide, SendersOK, NoncesOK, SpentBelow, hub, UserKeys
  <1> QED BY <1>1, <1>2, <1>3 DEF WalletSide, OpenOK, FileOK, BoundsOK, UserKeys

(* What a step does: to the hub, to the wallet, and to the payments.        *)
IsDeskStep ==
    /\ IsHubStep /\ WalletSide'
    /\ SessKept \/ \E n, t : IsSend(n, t)

(* Every step is one of these.                                              *)
LEMMA DeskStep ==
    ASSUME DeskInv, [Next]_vars
    PROVE  IsDeskStep
  <1>1. ASSUME UNCHANGED hub PROVE IsHubStep /\ SessKept
    BY <1>1, HubIdle DEF DeskInv, SessKept, hub
  <1>2. ASSUME OpenLoaded \/ Launch \/ LoadFails \/ CopyLegacy \/ RemoveLegacy \/ CreateNew
        PROVE  IsDeskStep
    <2>1. UNCHANGED hub
      BY <1>2 DEF OpenLoaded, Launch, LoadFails, CopyLegacy, RemoveLegacy, CreateNew,
                  OpenDetached
    <2> QED BY <1>1, <1>2, <2>1, WalletLaunch DEF DeskInv, IsDeskStep
  <1>3. ASSUME Crash PROVE IsDeskStep
    <2>1. UNCHANGED hub
      BY <1>3 DEF Crash
    <2> QED BY <1>1, <1>3, <2>1, WalletCrash DEF DeskInv, IsDeskStep
  <1>4. ASSUME SavePhrase \/ Back \/ confirm_quiz PROVE IsDeskStep
    <2>1. UNCHANGED hub
      BY <1>4 DEF SavePhrase, Back, confirm_quiz
    <2> QED BY <1>1, <1>4, <2>1, WalletScreens DEF DeskInv, IsDeskStep
  <1>5. ASSUME sign_send PROVE IsDeskStep
    BY <1>5, SendStep, SendKeeps DEF IsDeskStep
  <1>6. ASSUME Acknowledged PROVE IsDeskStep
    <2>1. UNCHANGED hub
      BY <1>6 DEF Acknowledged
    <2> QED BY <1>1, <1>6, <2>1, AcknowledgedKeeps DEF IsDeskStep
  <1>7. ASSUME BroadcastFailed PROVE IsDeskStep
    <2>1. UNCHANGED hub
      BY <1>7 DEF BroadcastFailed
    <2> QED BY <1>1, <1>7, <2>1, FailedKeeps DEF DeskInv, IsDeskStep
  <1>8. ASSUME HubStep, IsHubStep, SessKept PROVE IsDeskStep
    BY <1>8, WalletIdle DEF HubStep, IsDeskStep, DeskInv, disk, history
  <1>9. ASSUME NEW n \in 0 .. MaxSends, NEW x \in Stages \ {"unused"}, IsMoved(n, x),
               sess[n].at \notin {"unused", "answered"}
        PROVE  SessKept
    BY <1>9, SendsInRange DEF SessKept, IsMoved
  <1>10. ASSUME MineShare PROVE IsDeskStep
    <2>1. PICK t : IsSigned(0, t, "attached")
      BY <1>10, HubMined DEF DeskInv
    <2>2. IsHubStep /\ sess[0].at = "unused"
      BY <1>10, HubMined DEF DeskInv
    <2>3. SessKept
      BY <2>1, <2>2, SendsInRange DEF SessKept, IsSigned
    <2> QED BY <1>8, <1>10, <2>2, <2>3 DEF MineShare
  <1>11. ASSUME NEW n \in Sends, serve_wallet_submit(n) PROVE IsDeskStep
    <2>1. /\ IsHubStep /\ sess[n].at = "sent"
          /\ \E x \in Stages \ {"unused"} : IsMoved(n, x)
      BY <1>11, HubServed DEF DeskInv
    <2>2. PICK x \in Stages \ {"unused"} : IsMoved(n, x)
      BY <2>1
    <2>3. SessKept
      BY <1>9, <2>1, <2>2, SendsInRange
    <2> QED BY <1>8, <1>11, <2>1, <2>3 DEF serve_wallet_submit
  <1>12. ASSUME NEW n \in 0 .. MaxSends, persist_vertex(n) PROVE IsDeskStep
    <2>1. IsHubStep /\ sess[n].at = "attached" /\ IsMoved(n, "answered")
      BY <1>12, HubPersisted DEF DeskInv
    <2>2. SessKept
      BY <1>9, <2>1 DEF Stages
    <2> QED BY <1>8, <1>12, <2>1, <2>2 DEF persist_vertex
  <1>13. ASSUME UNCHANGED vars PROVE IsDeskStep
    BY <1>1, <1>8, <1>13 DEF vars, HubStep
  <1> QED BY <1>2, <1>3, <1>4, <1>5, <1>6, <1>7, <1>10, <1>11, <1>12, <1>13 DEF Next

(* The first states.                                                        *)
LEMMA DeskInit == Init => DeskInv
  <1> SUFFICES ASSUME Init PROVE DeskInv
    OBVIOUS
  <1>1. /\ phase = "off" /\ wallet = NoWallet /\ file \in InitialFiles
        /\ generated = {} /\ waiting = 0 /\ receipts = {} /\ faults = 0 /\ crashes = 0
        /\ sess = [n \in 0 .. MaxSends |-> NoSession]
    BY DEF Init
  <1>2. file # NoFile => file.key = OldKey /\ file.nonce \in 0 .. U64_MAX
    BY <1>1, DesktopWalletAssumption
  <1>3. \A n \in Sends : sess[n].at = "unused"
    BY <1>1, SendsInRange DEF NoSession
  <1>4. OpenOK /\ FileOK
    BY <1>1, <1>2 DEF OpenOK, FileOK, Phases, UserKeys
  <1>5. WaitOK /\ BoundsOK
    BY <1>1, DesktopWalletAssumption DEF WaitOK, BoundsOK
  <1>6. SendersOK /\ NoncesOK
    BY <1>1, <1>3 DEF SendersOK, NoncesOK, SpentBelow
  <1> QED BY <1>4, <1>5, <1>6, HubInit DEF DeskInv, WalletSide

(* The invariant of hub and wallet together, whatever the amounts.          *)
THEOREM DeskInvariant == Spec => []DeskInv
  <1>1. DeskInv /\ [Next]_vars => DeskInv'
    BY DeskStep DEF DeskInv, IsDeskStep, IsHubStep
  <1> QED BY <1>1, DeskInit, PTL DEF Spec

(* Type correctness.                                                        *)
THEOREM TypeTheorem == Spec => []TypeOK
  <1>1. DeskInv => TypeOK
    <2> SUFFICES ASSUME DeskInv PROVE TypeOK
      OBVIOUS
    <2>1. PICK K : K = Known
      OBVIOUS
    <2>2. PICK d : d = dag
      OBVIOUS
    <2>3. KnownOK(K) /\ KnownRoom(K, d.faucet) /\ ReplicaState(d, K)
      BY <2>1, <2>2, HubFacts DEF DeskInv
    <2>4. IsReplica(d)
      BY <2>3, ReplicaTyped
    <2> QED BY <2>2, <2>4
            DEF TypeOK, DeskInv, WalletSide, OpenOK, WaitOK, SendersOK, BoundsOK,
                UserKeys, Phases, At
  <1> QED BY <1>1, DeskInvariant, PTL

-----------------------------------------------------------------------------
(* 64 bits hold every payment and the share with its fee.                   *)
PaymentsFit == \A amount \in SendAmounts \cup {1} : amount + FIXED_TRANSACTION_FEE <= U64_MAX

(* Then every known vertex can be paid for.                                 *)
LEMMA PaymentsPayable ==
    ASSUME PaymentsFit, SessInv
    PROVE  Payable(Known)
  <1>1. RoomNow
    BY SessionsKnown DEF RoomNow
  <1> QED BY <1>1 DEF RoomNow, Payable, PaymentsFit, IsPayment

(* ... and after a step as well.                                            *)
LEMMA PaymentsPayableNext == PaymentsFit /\ SessInv' => Payable(Known')
  <1>1. PaymentsFit /\ SessInv => Payable(Known)
    BY PaymentsPayable
  <1>2. (PaymentsFit /\ SessInv)' => Payable(Known)'
    BY <1>1, PTL
  <1> QED BY <1>2 DEF PaymentsFit

(* While the amounts fit, the ledger counts what the replica holds and the  *)
(* index tells it.                                                          *)
THEOREM TruthInvariant == ASSUME PaymentsFit PROVE Spec => []TruthInv
  <1>1. DeskInv /\ TruthInv /\ [Next]_vars => TruthInv'
    <2> SUFFICES ASSUME DeskInv, TruthInv, [Next]_vars PROVE TruthInv'
      OBVIOUS
    <2>1. IsHubStep
      BY DeskStep DEF IsDeskStep
    <2>2. Payable(Known')
      BY <2>1, PaymentsPayableNext DEF IsHubStep, DeskHub
    <2> QED BY <2>1, <2>2 DEF IsHubStep
  <1> QED BY <1>1, DeskInvariant, HubInit, PTL DEF Spec

(* While every walk sees the whole graph, the weights are exact.            *)
THEOREM WeightInvariant ==
    ASSUME MaxSends + 1 <= ANCESTOR_WALK_BOUND PROVE Spec => []WeightsExact(dag.graph)
  <1>1. DeskInv /\ WeightsExact(dag.graph) /\ [Next]_vars => WeightsExact(dag.graph)'
    <2> SUFFICES ASSUME DeskInv, WeightsExact(dag.graph), [Next]_vars
                 PROVE  WeightsExact(dag'.graph)
      OBVIOUS
    <2>1. IsHubStep
      BY DeskStep DEF IsDeskStep
    <2>2. RoomNow'
      BY <2>1, SessionsKnownNext DEF IsHubStep, DeskHub
    <2>3. WalksUncut(Known')
      <3>1. PICK c : c = Cardinality({t.id : t \in Known'})
        OBVIOUS
      <3>2. c \in Nat /\ c <= MaxSends + 1
        BY <2>2, <3>1 DEF RoomNow
      <3>3. c <= ANCESTOR_WALK_BOUND
        BY <3>2, DesktopWalletAssumption, DagGraphAssumption
      <3> QED BY <3>1, <3>3 DEF WalksUncut
    <2> QED BY <2>1, <2>3 DEF IsHubStep
  <1> QED BY <1>1, DeskInvariant, HubInit, PTL DEF Spec

(* A payment or share that the hub stored is the stored vertex.             *)
LEMMA StoredPayment ==
    ASSUME DeskHub, NEW n \in 0 .. MaxSends, sess[n].at # "unused",
           sess[n].tx.id \in VertexSet(dag.graph)
    PROVE  /\ dag.graph.vertices[sess[n].tx.id] = sess[n].tx
           /\ sess[n].tx.id \in UserVertices(dag.graph)
  <1>1. n \in DOMAIN sess /\ sess[n].tx \in Known
    BY DEF DeskHub, SessInv, Known
  <1>2. IsPayment(sess[n].tx)
    BY DEF DeskHub, SessInv, IsSession
  <1>3. sess[n].tx.id # GenesisId
    BY <1>2 DEF IsPayment
  <1>4. StoredFrom(dag.graph, Known) /\ AllSpends(dag.graph)
    BY DEF DeskHub, HubInv, ReplicaState
  <1>5. /\ dag.graph.vertices[sess[n].tx.id] \in Known
        /\ dag.graph.vertices[sess[n].tx.id].id = sess[n].tx.id
    BY <1>3, <1>4 DEF StoredFrom
  <1> QED BY <1>1, <1>3, <1>4, <1>5 DEF DeskHub, SessInv, AllSpends

(* What the ledger counts of a user.                                        *)
LEMMA CountedSpends ==
    ASSUME NEW d, Counted(d), NEW a \in Users
    PROVE  /\ Cardinality(AppliedBy(d, a)) = d.ledger.next_nonce[a]
           /\ {d.graph.vertices[i].nonce : i \in AppliedBy(d, a)}
                  = 0 .. d.ledger.next_nonce[a] - 1
  <1>1. SpentBy(d.graph.vertices, Applied(d), a) = AppliedBy(d, a)
    BY DEF SpentBy, AppliedBy
  <1> QED BY <1>1 DEF Counted, LedgerCounts

(* Those who pay are users.                                                 *)
LEMMA PayersAreUsers ==
    ASSUME WalletSide, NEW key \in UserKeys
    PROVE  key \in Users
  BY DesktopWalletAssumption DEF WalletSide, SendersOK, UserKeys, Users

(* What the explorer answers once it is rebuilt, account by account and row *)
(* by row.                                                                  *)
LEMMA RebuiltNonces ==
    ASSUME NEW x, NEW d, x = sync_from_dag(EmptyIndex, d), Counted(d), NEW a \in Address
    PROVE  fetch_compose(x, a).nonce
               = IF a \in Users THEN Cardinality(AppliedBy(d, a)) ELSE d.ledger.next_nonce[a]
  <1>1. fetch_compose(x, a).nonce = x.nonces[a]
    BY DEF fetch_compose, dispatch, compose_hint
  <1>2. x.nonces = d.ledger.next_nonce
    BY DEF sync_from_dag
  <1> QED BY <1>1, <1>2, CountedSpends

(* The row of a vertex: its weight, whether it is a tip, whether it lost.   *)
LEMMA RebuiltRows ==
    ASSUME NEW K, NEW d, ReplicaState(d, K), AllSpends(d.graph), WeightsExact(d.graph),
           NEW x, x = sync_from_dag(EmptyIndex, d), NEW i \in VertexSet(d.graph),
           NEW row, row = dispatch(x, "tx", i)
    PROVE  /\ row.weight = 1 + Cardinality({j \in VertexSet(d.graph) :
                                               i \in Ancestors(d.graph, j)})
           /\ row.is_tip <=> d.graph.children[i] = {}
           /\ row.conflicted <=> i \notin Applied(d) \cup {GenesisId}
  <1>1. PICK rows : rows = RowsOf(d)
    OBVIOUS
  <1>2. AreRows(d, rows)
    BY <1>1, RowsFacts
  <1>3. x.rows = rows
    BY <1>1 DEF sync_from_dag
  <1>4. row = rows[i]
    BY <1>2, <1>3 DEF dispatch, AreRows
  <1>5. /\ row.weight = d.graph.weights[i]
        /\ row.is_tip = (i \in d.graph.tips)
        /\ row.conflicted = (i \in DOMAIN d.conflicts)
    BY <1>2, <1>4 DEF AreRows, IsRow
  <1>6. i \in d.graph.tips <=> d.graph.children[i] = {}
    BY DEF ReplicaState, ReplicaOK, GraphOK, TipsConsistent
  <1>7. DOMAIN d.conflicts \subseteq UserVertices(d.graph)
    BY DEF ReplicaState, ConflictsOK
  <1>8. i \in DOMAIN d.conflicts <=> i \notin Applied(d) \cup {GenesisId}
    BY <1>7 DEF Applied, AllSpends
  <1> QED BY <1>5, <1>6, <1>8 DEF WeightsExact

(* Once no session is between its attach and its rebuild, the explorer      *)
(* tells the truth about every vertex and account (explorer.rs), and shows  *)
(* every reported payment, as long as a history fits the screen.            *)
THEOREM ExplorerTheorem ==
    ASSUME PaymentsFit, MaxSends + 1 <= ANCESTOR_WALK_BOUND, MaxSends + 1 <= RECENT_ROWS
    PROVE  Spec => []ExplorerCatchesUp
  <1>1. DeskInv /\ TruthInv /\ WeightsExact(dag.graph) => ExplorerCatchesUp
    <2> SUFFICES ASSUME DeskInv, TruthInv, WeightsExact(dag.graph), Pending = {}
                 PROVE  /\ DOMAIN index.rows = VertexSet(dag.graph)
                        /\ \A i \in VertexSet(dag.graph) :
                              LET row == dispatch(index, "tx", i)
                              IN  /\ row.weight =
                                        1 + Cardinality({j \in VertexSet(dag.graph) :
                                                            i \in Ancestors(dag.graph, j)})
                                  /\ row.is_tip <=> dag.graph.children[i] = {}
                                  /\ row.conflicted <=> i \notin Applied(dag) \cup {GenesisId}
                        /\ \A a \in Address :
                              fetch_compose(index, a).nonce
                                  = IF a \in Users THEN Cardinality(AppliedBy(dag, a))
                                    ELSE dag.ledger.next_nonce[a]
                        /\ \A n \in receipts :
                              \E row \in ToSet(fetch_view(index, Paid(n).sender).txs) :
                                  row.hash = Paid(n).id
      BY DEF ExplorerCatchesUp
    <2>1. PICK K : K = Known
      OBVIOUS
    <2>2. PICK d : d = dag
      OBVIOUS
    <2>3. PICK x : x = index
      OBVIOUS
    <2>4. /\ KnownOK(K) /\ ReplicaState(d, K) /\ AllSpends(d.graph)
          /\ Counted(d) /\ WeightsExact(d.graph)
          /\ x = sync_from_dag(EmptyIndex, d)
      BY <2>1, <2>2, <2>3, HubFacts DEF DeskInv, TruthInv
    <2>5. DOMAIN x.rows = VertexSet(d.graph)
      <3>1. PICK rows : rows = RowsOf(d)
        OBVIOUS
      <3>2. AreRows(d, rows)
        BY <2>4, <3>1, RowsFacts
      <3>3. x.rows = rows
        BY <2>4, <3>1 DEF sync_from_dag
      <3> QED BY <3>2, <3>3 DEF AreRows
    <2>6. ASSUME NEW i \in VertexSet(d.graph), NEW row, row = dispatch(x, "tx", i)
          PROVE  /\ row.weight = 1 + Cardinality({j \in VertexSet(d.graph) :
                                                     i \in Ancestors(d.graph, j)})
                 /\ row.is_tip <=> d.graph.children[i] = {}
                 /\ row.conflicted <=> i \notin Applied(d) \cup {GenesisId}
      BY <2>4, <2>6, RebuiltRows
    <2>7. ASSUME NEW a \in Address
          PROVE  fetch_compose(x, a).nonce
                     = IF a \in Users THEN Cardinality(AppliedBy(d, a))
                       ELSE d.ledger.next_nonce[a]
      BY <2>4, RebuiltNonces
    <2>8. Cardinality(UserVertices(d.graph)) <= RECENT_ROWS
      <3>1. SessInv => RoomNow
        BY SessionsKnown DEF RoomNow
      <3>2. PICK c : c = Cardinality({t.id : t \in K})
        OBVIOUS
      <3>3. c \in Nat /\ c <= MaxSends + 1
        BY <2>1, <3>1, <3>2 DEF RoomNow, DeskInv, DeskHub
      <3>4. PICK u : u = Cardinality(UserVertices(d.graph))
        OBVIOUS
      <3>5. u \in Nat /\ u <= c
        BY <2>4, <3>2, <3>4, UserVerticesFacts DEF ReplicaState, ReplicaOK
      <3>6. u <= RECENT_ROWS
        BY <3>3, <3>5, DesktopWalletAssumption DEF RECENT_ROWS
      <3> QED BY <3>4, <3>6
    <2>9. ASSUME NEW n \in receipts
          PROVE  \E row \in ToSet(fetch_view(x, Paid(n).sender).txs) : row.hash = Paid(n).id
      <3>1. n \in 0 .. MaxSends /\ n \in Sends /\ sess[n].at = "answered"
        BY SendsInRange DEF DeskInv, WalletSide, SendersOK
      <3>2. PICK t : t = sess[n].tx
        OBVIOUS
      <3>3. t.id \in VertexSet(dag.graph)
        BY <3>1, <3>2 DEF DeskInv, DeskHub, HubInv
      <3>4. d.graph.vertices[t.id] = t /\ t.id \in UserVertices(d.graph)
        BY <2>2, <3>1, <3>2, <3>3, StoredPayment DEF DeskInv
      <3>5. t.sender \in Users
        BY <3>1, <3>2, PayersAreUsers DEF DeskInv, WalletSide, SendersOK
      <3>6. \E row \in ToSet(fetch_view(x, t.sender).txs) : row.hash = t.id
        BY <2>4, <2>8, <3>4, <3>5, HistoryShows DEF AllSpends
      <3> QED BY <3>2, <3>6 DEF Paid
    <2> QED BY <2>2, <2>3, <2>5, <2>6, <2>7, <2>9
  <1> QED BY <1>1, DeskInvariant, TruthInvariant, WeightInvariant, PTL

(* The wallet signs no nonce of a payment that it reported as broadcast     *)
(* (app.rs), while every nonce was saved and none set back; and a rebuilt   *)
(* explorer names none of a payment that the ledger counts.                 *)
THEOREM NonceTheorem == ASSUME PaymentsFit PROVE Spec => SpentNoncesAreNotReused
  <1>1. DeskInv /\ TruthInv /\ [Next]_vars =>
          [\A n \in Unused : sess'[n].at = "sent" =>
             LET t       == sess'[n].tx
                 again   == {m \in receipts : /\ Paid(m).sender = t.sender
                                              /\ Paid(m).nonce = t.nonce}
                 counted == {m \in again : Paid(m).id \in Applied(dag)}
             IN  /\ behind \/ t.nonce < wallet.nonce \/ t.nonce = U64_MAX \/ again = {}
                 /\ \/ Pending # {}
                    \/ t.nonce # fetch_compose(index, t.sender).nonce
                    \/ counted = {}]_vars
    <2> SUFFICES ASSUME DeskInv, TruthInv, [Next]_vars, NEW n \in Unused,
                        sess'[n].at = "sent", NEW t, t = sess'[n].tx,
                        NEW again, again = {m \in receipts : /\ Paid(m).sender = t.sender
                                                             /\ Paid(m).nonce = t.nonce}
                 PROVE  /\ behind \/ t.nonce < wallet.nonce \/ t.nonce = U64_MAX \/ again = {}
                        /\ \/ Pending # {}
                           \/ t.nonce # fetch_compose(index, t.sender).nonce
                           \/ {m \in again : Paid(m).id \in Applied(dag)} = {}
      OBVIOUS
    <2>1. n \in Sends /\ n \in 0 .. MaxSends /\ sess[n].at = "unused"
      BY SendsInRange DEF Unused
    <2>2. \E k, y : IsSend(k, y)
      BY <2>1, DeskStep DEF IsDeskStep, SessKept
    <2>3. PICK k, y : IsSend(k, y)
      BY <2>2
    <2>4. k = n /\ y = t
      BY <2>1, <2>3 DEF IsSend, DeskInv, DeskHub, SessInv
    <2>5. /\ t.sender = wallet.key /\ phase = "open" /\ t.nonce \in 0 .. U64_MAX
          /\ wallet.key \in UserKeys /\ wallet.nonce \in 0 .. U64_MAX
      BY <2>3, <2>4 DEF IsSend, At, IsPayment, DeskInv, WalletSide, OpenOK
    <2>6. ASSUME NEW m \in receipts
          PROVE  /\ m \in 0 .. MaxSends /\ sess[m].at = "answered" /\ Paid(m) = sess[m].tx
                 /\ Paid(m).nonce \in 0 .. U64_MAX
      <3>1. m \in 0 .. MaxSends /\ sess[m].at = "answered"
        BY SendsInRange DEF DeskInv, WalletSide, SendersOK
      <3> QED BY <3>1 DEF DeskInv, DeskHub, SessInv, IsSession, IsPayment, Paid
    <2>7. behind \/ t.nonce < wallet.nonce \/ t.nonce = U64_MAX \/ again = {}
      <3> SUFFICES ASSUME ~behind, NEW m \in again, t.nonce # U64_MAX
                   PROVE  t.nonce < wallet.nonce
        OBVIOUS
      <3>1. m \in receipts /\ Paid(m).sender = wallet.key /\ Paid(m).nonce = t.nonce
        BY <2>5
      <3>2. SpentBelow(wallet.key, wallet.nonce)
        BY <2>5 DEF DeskInv, WalletSide, NoncesOK
      <3> QED BY <2>5, <2>6, <3>1, <3>2 DEF SpentBelow
    <2>8. ASSUME Pending = {}, t.nonce = fetch_compose(index, t.sender).nonce,
                 NEW m \in again, Paid(m).id \in Applied(dag)
          PROVE  FALSE
      <3>1. PICK d : d = dag
        OBVIOUS
      <3>2. PICK x : x = index
        OBVIOUS
      <3>3. PICK p : p = Paid(m)
        OBVIOUS
      <3>4. Counted(d) /\ x = sync_from_dag(EmptyIndex, d)
        BY <2>8, <3>1, <3>2 DEF TruthInv
      <3>5. m \in receipts /\ p.sender = t.sender /\ p.nonce = t.nonce
        BY <3>3
      <3>6. t.sender \in Users /\ t.sender \in Address
        BY <2>5, PayersAreUsers DEF DeskInv, Users
      <3>7. t.nonce = Cardinality(AppliedBy(d, t.sender))
        BY <2>8, <3>2, <3>4, <3>6, RebuiltNonces
      <3>8. /\ Cardinality(AppliedBy(d, t.sender)) = d.ledger.next_nonce[t.sender]
            /\ {d.graph.vertices[i].nonce : i \in AppliedBy(d, t.sender)}
                   = 0 .. d.ledger.next_nonce[t.sender] - 1
        BY <3>4, <3>6, CountedSpends
      <3>9. p.id \in Applied(d) /\ d.graph.vertices[p.id] = p
        <4>1. m \in 0 .. MaxSends /\ sess[m].at = "answered" /\ p = sess[m].tx
          BY <2>6, <3>3, <3>5
        <4>2. p.id \in Applied(d) /\ p.id \in VertexSet(dag.graph)
          BY <2>8, <3>1, <3>3 DEF Applied, UserVertices
        <4> QED BY <3>1, <4>1, <4>2, StoredPayment DEF DeskInv
      <3>10. p.id \in AppliedBy(d, t.sender)
        BY <3>5, <3>9 DEF AppliedBy
      <3>11. p.nonce \in {d.graph.vertices[i].nonce : i \in AppliedBy(d, t.sender)}
        BY <3>9, <3>10
      <3>12. t.nonce \in 0 .. t.nonce - 1
        BY <3>5, <3>7, <3>8, <3>11
      <3> QED BY <2>5, <3>12
    <2> QED BY <2>7, <2>8
  <1> QED BY <1>1, DeskInvariant, TruthInvariant, PTL DEF Spec, SpentNoncesAreNotReused
=============================================================================
