------------------------------- MODULE DagEngine -------------------------------
(***************************************************************************)
(* The operations of a DAG replica on its whole state, the record          *)
(*   [graph, ledger, faucet, conflicts].                                   *)
(* conflicts maps each stored loser to the winner of its nonce, or to      *)
(* NULL_PARENT when it lost on the replay itself.  Every operation returns *)
(* [verdict, dag]; a verdict other than "Ok" is the error the program      *)
(* returns, and dag then holds what the failed call left behind.           *)
(***************************************************************************)
EXTENDS DagGraph

CONSTANT GenesisId   \* the id of the protocol genesis

ASSUME DagEngineAssumption == GenesisId \in TxHash

EmptyDag ==
    [graph     |-> EmptyGraph,
     ledger    |-> BaselineLedger(NoFaucet),
     faucet    |-> NoFaucet,
     conflicts |-> [i \in {} |-> NULL_PARENT]]

signed_genesis_tx ==
    [id |-> GenesisId, parent_1 |-> NULL_PARENT, parent_2 |-> NULL_PARENT,
     sender |-> GenesisSender, recipient |-> GenesisSender,
     amount |-> 0, nonce |-> 0, relays |-> <<>>, wellformed |-> TRUE]

-----------------------------------------------------------------------------
(* Strict attach: verify t against graph and ledger, store it, apply it.    *)
(* Only genesis is attached without minting.                                *)
attach_and_verify_tx(d, t) ==
    LET graph_verdict == GraphVerdict(d.graph, t)
        spend_verdict == SpendVerdict(d.ledger, t)
        effects       == IF is_genesis(t)
                         THEN [verdict |-> "Ok", ledger |-> Spend(d.ledger, t)]
                         ELSE apply_ledger_effects(d.ledger, t)
    IN  IF graph_verdict # "Ok" THEN [verdict |-> graph_verdict, dag |-> d]
        ELSE IF spend_verdict # "Ok" THEN [verdict |-> spend_verdict, dag |-> d]
        ELSE [verdict |-> effects.verdict,
              dag     |-> [d EXCEPT !.graph = InsertVertex(@, t),
                                    !.ledger = effects.ledger]]

with_genesis == attach_and_verify_tx(EmptyDag, signed_genesis_tx).dag

(* Store t in the graph without touching the ledger.                        *)
insert_graph_only(d, t) ==
    LET verdict == GraphVerdict(d.graph, t)
    IN  [verdict |-> verdict,
         dag     |-> IF verdict = "Ok"
                     THEN [d EXCEPT !.graph = InsertVertex(@, t)] ELSE d]

(* A plausible fault of SpendsInOrder: losers are replayed too.             *)
AllSpendsInOrder(g, losers) ==
    transactions_for_in_order(g, UserVertices(g))

(* The spends a rebuild replays, in attach order.                           *)
SpendsInOrder(g, losers) ==
    transactions_for_in_order(g, UserVertices(g) \ losers)

(* Pick the winner of every contested nonce by rank and replay the rest of  *)
(* the graph over the faucet baseline, in attach order.  A replay that      *)
(* overflows leaves its partial ledger and the old conflict map.            *)
resolve_conflicts_and_rebuild_ledger(d) ==
    LET g      == d.graph
        losers == Losers(g)
        replay == Replay(d.faucet, SpendsInOrder(g, losers))
    IN  [verdict |-> IF replay.aborted THEN "Overflow" ELSE "Ok",
         dag     |->
            [d EXCEPT
                !.ledger = replay.ledger,
                !.conflicts =
                    IF replay.aborted THEN @
                    ELSE [i \in losers \cup replay.rejected |->
                            IF i \in losers THEN Winner(g, i) ELSE NULL_PARENT]]]

(* A plausible fault of accept_wire_vertex: every arrival rebuilds.         *)
accept_and_rebuild(d, t) ==
    LET stored == insert_graph_only(d, t)
    IN  IF stored.verdict # "Ok" THEN stored
        ELSE resolve_conflicts_and_rebuild_ledger(stored.dag)

(* Live ingest and WAL replay: a strict attach, or for a spend that loses   *)
(* its nonce or its funds, storage and a rebuild.  "Known" is Ok(false).    *)
accept_wire_vertex(d, t) ==
    LET attached == attach_and_verify_tx(d, t)
        stored   == insert_graph_only(d, t)
    IN  IF t.id \in VertexSet(d.graph) THEN [verdict |-> "Known", dag |-> d]
        ELSE IF attached.verdict \notin {"DoubleSpend", "InsufficientBalance"}
        THEN attached
        ELSE IF stored.verdict # "Ok" THEN stored
        ELSE resolve_conflicts_and_rebuild_ledger(stored.dag)

(* A plausible fault of credit_account: the faucet map is not kept.         *)
credit_balance_only(d, a, amount) ==
    [d EXCEPT !.ledger.balances[a] = SaturatingAdd(@, amount)]

(* A bootstrap credit: spendable at once, and the baseline of any rebuild.  *)
credit_account(d, a, amount) ==
    [d EXCEPT !.ledger.balances[a] = SaturatingAdd(@, amount),
              !.faucet[a] = SaturatingAdd(@, amount)]

-----------------------------------------------------------------------------
(* Recovery: a stored log read back into a replica.                         *)

(* A plausible fault of ReplayRecord: a conflicting spend is not stored.    *)
ReplayStrictly(r, t) == [verdict |-> "Ok", dag |-> attach_and_verify_tx(r.dag, t).dag]

(* One record of the replay: conflicts are stored as on live ingest, a      *)
(* vertex whose parent is missing is skipped, any other error is final.     *)
ReplayRecord(r, t) ==
    IF r.verdict # "Ok" THEN r
    ELSE LET accepted == accept_wire_vertex(r.dag, t)
         IN  [accepted EXCEPT !.verdict =
                 IF @ \in {"Known", "UnknownParent"} THEN "Ok" ELSE @]

(* A plausible fault of CreditAll: the credits are not read back.           *)
CreditNone(d, faucet) == d

(* credit_account for each entry of the map: none touches the account of    *)
(* another, so their order does not matter.                                 *)
CreditAll(d, faucet) ==
    LET held == d.ledger.balances
        old  == d.faucet
    IN  [d EXCEPT !.ledger.balances = [a \in Address |-> SaturatingAdd(held[a], faucet[a])],
                  !.faucet = [a \in Address |-> SaturatingAdd(old[a], faucet[a])]]

(* The records of a log, accepted into a genesis graph with the credits.     *)
Recovered(txs, faucet) ==
    FoldLeft(ReplayRecord, [verdict |-> "Ok", dag |-> CreditAll(with_genesis, faucet)], txs)
=============================================================================
