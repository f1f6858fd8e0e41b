------------------------------ MODULE WalletRelay ------------------------------
(***************************************************************************)
(* The relay service of a phone wallet.  Its owner pushes the vertices it   *)
(* picks up into the mesh interface, runs duty cycles, and takes what they  *)
(* stage once the link to the others is up.  A duty cycle signs a carrier   *)
(* proof on every vertex and keeps the newest RELAY_MEMPOOL_CAP of them.    *)
(* Relay mode runs duty cycles until the interface is stopped; it borrows   *)
(* the interface for itself meanwhile, so nobody else can push, stop or     *)
(* take anything.                                                           *)
(***************************************************************************)
EXTENDS Naturals, SequencesExt

CONSTANTS
    Carrier,             \* the address of the wallet
    RELAY_MEMPOOL_CAP,   \* what its mempool holds at most
    MaxCarried           \* bound: vertices pushed and not lost

ASSUME WalletRelayAssumption ==
    /\ RELAY_MEMPOOL_CAP \in Nat \ {0}
    /\ MaxCarried \in Nat

VARIABLES
    inbound,      \* pushed and not yet looked at
    mempool,      \* signed, waiting for the link
    flush_ready,  \* staged for the owner
    taken,        \* history: what the owner has taken
    link_up,      \* is the link to the others up?
    stopped,      \* was the interface asked to stop?
    serving       \* does relay mode hold the interface?

queues     == <<inbound, mempool, flush_ready, taken>>
relay_vars == <<inbound, mempool, flush_ready, taken, link_up, stopped, serving>>

(* The wallet names itself once and adds a proof; the proofs that count are  *)
(* one per relay.                                                           *)
relay_intercept_and_sign(t) ==
    [t EXCEPT !.relays = IF Carrier \in ToSet(@) THEN @ ELSE Append(@, Carrier)]

Intercepted(txs) == [n \in DOMAIN txs |-> relay_intercept_and_sign(txs[n])]

(* A plausible fault of Kept: nothing is evicted.                           *)
KeptAll(txs) == txs

(* RelayMempool: a push beyond the cap drops the oldest.                    *)
Kept(txs) ==
    IF Len(txs) <= RELAY_MEMPOOL_CAP THEN txs
    ELSE SubSeq(txs, Len(txs) - RELAY_MEMPOOL_CAP + 1, Len(txs))

RelayInit ==
    /\ inbound = <<>> /\ mempool = <<>> /\ flush_ready = <<>> /\ taken = <<>>
    /\ link_up = FALSE
    /\ stopped = FALSE
    /\ serving = FALSE

-----------------------------------------------------------------------------
push_inbound(t) ==
    /\ ~serving
    /\ Len(taken) + Len(flush_ready) + Len(mempool) + Len(inbound) < MaxCarried
    /\ inbound' = Append(inbound, t)
    /\ UNCHANGED <<mempool, flush_ready, taken, link_up, stopped, serving>>

set_global_link_up ==
    /\ ~serving
    /\ link_up' = ~link_up
    /\ UNCHANGED <<queues, stopped, serving>>

request_stop ==
    /\ ~serving /\ ~stopped
    /\ stopped' = TRUE
    /\ UNCHANGED <<queues, link_up, serving>>

(* Relay mode begins a session of its own, with an empty mempool.           *)
start_wallet_relay_mode ==
    /\ ~serving
    /\ mempool = <<>>
    /\ serving' = TRUE
    /\ UNCHANGED <<queues, link_up, stopped>>

(* A plausible fault of wallet_relay_step: the newest vertex is refused     *)
(* when the mempool is full.                                                *)
StepKeepsOldest ==
    LET pool == mempool \o Intercepted(inbound)
        kept == SubSeq(pool, 1, IF Len(pool) <= RELAY_MEMPOOL_CAP
                                THEN Len(pool) ELSE RELAY_MEMPOOL_CAP)
    IN  /\ inbound' = <<>>
        /\ mempool' = IF link_up THEN <<>> ELSE kept
        /\ flush_ready' = IF link_up THEN flush_ready \o kept ELSE flush_ready
        /\ serving' = (serving /\ ~stopped)
        /\ UNCHANGED <<taken, link_up, stopped>>

(* One duty cycle: sign all that came in, evicting the oldest when the      *)
(* mempool is full; stage the mempool if the link is up.  In relay mode the *)
(* stop flag is looked at afterwards.                                       *)
wallet_relay_step ==
    LET pool == Kept(mempool \o Intercepted(inbound))
    IN  /\ inbound' = <<>>
        /\ mempool' = IF link_up THEN <<>> ELSE pool
        /\ flush_ready' = IF link_up THEN flush_ready \o pool ELSE flush_ready
        /\ serving' = (serving /\ ~stopped)
        /\ UNCHANGED <<taken, link_up, stopped>>

take_flush ==
    /\ ~serving
    /\ flush_ready # <<>>
    /\ taken' = taken \o flush_ready
    /\ flush_ready' = <<>>
    /\ UNCHANGED <<inbound, mempool, link_up, stopped, serving>>

-----------------------------------------------------------------------------
(* Type correctness; the mempool never holds more than its cap.             *)
RelayTypeOK ==
    /\ Len(mempool) <= RELAY_MEMPOOL_CAP
    /\ {link_up, stopped, serving} \subseteq BOOLEAN

(* "Evicts the oldest vertex when full": seen from outside, the service is  *)
(* a store that passes vertices on in order, each once, and loses only the  *)
(* oldest of more than RELAY_MEMPOOL_CAP.                                   *)
Carried == INSTANCE CarrierStore WITH
    Cap       <- RELAY_MEMPOOL_CAP,
    waiting   <- mempool \o Intercepted(inbound),
    delivered <- taken \o flush_ready

CarriesInOrder == Carried!Spec
=============================================================================
