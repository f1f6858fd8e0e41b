------------------------------ MODULE PhoneMeetup ------------------------------
(***************************************************************************)
(* Phones without a network.  Two that meet shake hands and merge what the *)
(* other has; a relay phone carries vertices it was handed, by whomever,   *)
(* and deposits them all at once in the replica of Home when it has a      *)
(* link.  Each phone also attaches vertices of its own.                    *)
(***************************************************************************)
EXTENDS OfflineMerge, WalletRelay, DeviceGate

CONSTANTS
    Phones,     \* the phones that keep a replica
    Home,       \* the one the relay phone deposits in
    Quote,      \* the hardware quote of each phone
    Hosts,      \* the machines the relay service may run on
    Faucet,     \* the credits of every replica
    Fresh,      \* vertices the owner of each phone may attach
    Handed      \* vertices that may be handed to the relay phone

ASSUME PhoneMeetupAssumption ==
    /\ Home \in Phones
    /\ Carrier \in Address
    /\ Faucet \in [Address -> 0 .. U64_MAX]

(* What the phones pass around, before a relay phone signs it.              *)
Circulating == Handed \cup UNION {Fresh[p] : p \in Phones}

(* 64 bits hold what these vertices and credits can add up to.              *)
ASSUME PhoneMeetupRoom ==
    /\ AreVertices(Circulating) /\ RoomForVertices(Circulating)
    /\ Total(Faucet) + HARD_CAP <= U64_MAX

VARIABLES
    dag,       \* the replica of each phone
    relay_of,  \* who brought each merged vertex
    host,      \* the machine the relay service runs on
    limbo      \* history: stored by a failed merge and not yet replayed

vars == <<dag, relay_of, host, limbo, relay_vars>>

Init ==
    /\ dag = [p \in Phones |-> CreditAll(with_genesis, Faucet)]
    /\ relay_of = [p \in Phones |-> [i \in {} |-> Carrier]]
    /\ host \in Hosts
    /\ limbo = [p \in Phones |-> {}]
    /\ RelayInit

-----------------------------------------------------------------------------
(* The owner of p attaches a vertex.  A strict attach does not rebuild.     *)
Attach(p) ==
    /\ \E t \in Fresh[p] :
          /\ Receivable(dag[p].graph, t)
          /\ dag' = [dag EXCEPT ![p] = attach_and_verify_tx(@, t).dag]
    /\ UNCHANGED <<relay_of, host, limbo, relay_vars>>

(* A plausible fault of Merged: the one who brought a vertex is paid for it. *)
MergedAndPaid(p, m) ==
    /\ dag' = [dag EXCEPT
                  ![p] = [m.dag EXCEPT
                             !.ledger.relay_credits[Carrier] = @ + Cardinality(m.inserted)]]
    /\ UNCHANGED <<relay_of, limbo>>

(* The one who brought the vertices of ids is written down for each.        *)
Noted(brought, ids) ==
    [i \in DOMAIN brought \cup ids |-> IF i \in ids THEN Carrier ELSE brought[i]]

(* p takes over the result of a merge.  The carrier of every stored vertex  *)
(* is noted; it is paid only for proofs.                                    *)
Merged(p, m) ==
    /\ dag' = [dag EXCEPT ![p] = m.dag]
    /\ relay_of' = [relay_of EXCEPT ![p] = Noted(@, m.inserted)]
    /\ limbo' = [limbo EXCEPT
                    ![p] = IF m.inserted = {} THEN @
                           ELSE IF m.verdict = "Ok" THEN {} ELSE @ \cup m.inserted]

(* The handshake of two phones is decided by their quotes alone, so that a  *)
(* retry changes nothing.                                                   *)
mesh_handshake(p, q) == verify_attestation(Quote[p]) /\ verify_attestation(Quote[q])

(* p and q meet, and p merges what q has and p lacks.                       *)
Meet(p, q) ==
    /\ p # q
    /\ mesh_handshake(p, q)
    /\ Merged(p, exchange_and_merge(dag[p], dag[q]))
    /\ UNCHANGED <<host, relay_vars>>

(* Anybody hands the relay phone a vertex, of which it checks nothing.      *)
Hand ==
    /\ \E t \in Handed : push_inbound(t)
    /\ UNCHANGED <<dag, relay_of, host, limbo>>

(* Relay mode is for phones only.                                           *)
StartRelayMode ==
    /\ enforce_real_mobile(host) = "Ok"
    /\ start_wallet_relay_mode
    /\ UNCHANGED <<dag, relay_of, host, limbo>>

Relay ==
    /\ set_global_link_up \/ request_stop \/ wallet_relay_step
    /\ UNCHANGED <<dag, relay_of, host, limbo>>

(* All that is staged is merged in one batch into the replica of Home.      *)
Deposit ==
    /\ take_flush
    /\ Merged(Home, merge_offline_graphs(dag[Home], flush_ready))
    /\ UNCHANGED host

(* Deposited on the machine of the relay itself, which must be a phone;     *)
(* otherwise the batch is gone.                                             *)
DepositAsRelay ==
    /\ enforce_real_mobile(host) # "Ok"
    /\ take_flush
    /\ UNCHANGED <<dag, relay_of, host, limbo>>

Next ==
    \/ \E p \in Phones : Attach(p) \/ \E q \in Phones : Meet(p, q)
    \/ Hand \/ StartRelayMode \/ Relay \/ Deposit \/ DepositAsRelay

Spec == Init /\ [][Next]_vars

-----------------------------------------------------------------------------
(* The stored spends of p that its ledger has counted, as far as p knows.   *)
Settled(p) == Applied(dag[p]) \ limbo[p]

(* Type correctness.                                                        *)
TypeOK ==
    /\ \A p \in Phones :
          /\ IsReplica(dag[p])
          /\ relay_of[p] \in [DOMAIN relay_of[p] -> {Carrier}]
          /\ DOMAIN relay_of[p] \cup limbo[p] \subseteq VertexSet(dag[p].graph)
    /\ RelayTypeOK

(* A merge that fails half way has stored vertices the ledger knows nothing *)
(* of.  They stay out of every balance, nonce and count, whatever is        *)
(* attached on top of them, until a merge that succeeds; and then each      *)
(* nonce counts once.                                                       *)
LedgerCountsTheSettled ==
    \A p \in Phones :
        LET L == dag[p].ledger
        IN  /\ L.dag_tx_count = Cardinality(Settled(p))
            /\ \A a \in Users :
                  LET spends == {i \in Settled(p) : dag[p].graph.vertices[i].sender = a}
                  IN  /\ L.next_nonce[a] = Cardinality(spends)
                      /\ {dag[p].graph.vertices[i].nonce : i \in spends}
                            = {n \in 0 .. Cardinality(spends) - 1 : TRUE}
            /\ Conserved(dag[p])

(* Only proofs are paid: the relay phone has relay credits exactly where a  *)
(* settled vertex carries its proof, and those are spendable.  Being the    *)
(* one who brought a vertex earns nothing.                                  *)
OnlyProofsArePaid ==
    \A p \in Phones :
        dag[p].ledger.relay_credits[Carrier] > 0
            <=> \E i \in Settled(p) : Carrier \in ToSet(dag[p].graph.vertices[i].relays)

(* Whatever stray vertices either has merged or failed to merge before, the *)
(* batch of a phone that is met is complete and valid: the merge succeeds,  *)
(* and stores all that the other has.                                       *)
MeetingsDeliver ==
    \A p, q \in Phones :
        p # q /\ mesh_handshake(p, q) =>
            LET m == exchange_and_merge(dag[p], dag[q])
            IN  /\ m.verdict = "Ok"
                /\ VertexSet(dag[q].graph) \subseteq VertexSet(m.dag.graph)
=============================================================================
