------------------------------ MODULE OfflineMerge ------------------------------
(***************************************************************************)
(* Merging a batch of vertices that was carried by hand into a replica.    *)
(* The result is a record [verdict, dag, inserted]; a merge that fails     *)
(* half way has stored the vertices in inserted, and not rebuilt the       *)
(* ledger.                                                                 *)
(***************************************************************************)
EXTENDS Reconciliation, Selection

(* Of vertices with the same id in txs the first counts.                    *)
Batch(txs) ==
    [i \in {txs[n].id : n \in DOMAIN txs} |->
        txs[Min({n \in DOMAIN txs : txs[n].id = i})]]

(* The parents of i that must be merged before it.                          *)
Awaited(g, batch, i) == (ParentSet(batch[i]) \cap DOMAIN batch) \ VertexSet(g)

(* One step of Kahn's algorithm: the first vertex of the queue is ordered,  *)
(* and those of its children that await nothing else join the queue.        *)
Order(g, batch, s) ==
    LET i     == Head(s.queue)
        done  == ToSet(s.ordered) \cup {i}
        freed == {j \in DOMAIN batch :
                     i \in Awaited(g, batch, j) /\ Awaited(g, batch, j) \subseteq done}
    IN  IF s.queue = <<>> THEN s
        ELSE [queue |-> Tail(s.queue) \o Ascending(freed), ordered |-> Append(s.ordered, i)]

(* A plausible fault of topo_order_incoming: vertices sorted by id.         *)
order_by_id(g, batch) == [verdict |-> "Ok", ordered |-> Ascending(DOMAIN batch)]

(* Parents before children; [verdict, ordered].                             *)
topo_order_incoming(g, batch) ==
    LET ready == {i \in DOMAIN batch : Awaited(g, batch, i) = {}}
        s     == FoldLeft(LAMBDA r, n : Order(g, batch, r),
                          [queue |-> Ascending(ready), ordered |-> <<>>],
                          [n \in 1 .. Cardinality(DOMAIN batch) |-> n])
    IN  [verdict |->
            IF \E i \in DOMAIN batch :
                  ~(ParentSet(batch[i]) \subseteq VertexSet(g) \cup DOMAIN batch)
            THEN "MissingParent"
            ELSE IF Len(s.ordered) < Cardinality(DOMAIN batch) THEN "CyclicBatch"
            ELSE "Ok",
         ordered |-> s.ordered]

(* Store t without touching the ledger, unless something is wrong with it:  *)
(* a parent that is the null hash counts as missing here.                   *)
MergeOne(m, t) ==
    LET stored == insert_graph_only(m.dag, t)
    IN  IF m.verdict # "Ok" \/ t.id \in VertexSet(m.dag.graph) THEN m
        ELSE IF ~is_genesis(t) /\ ~ParentsAdmitted(m.dag.graph, t)
        THEN [m EXCEPT !.verdict = "MissingParent"]
        ELSE [verdict  |-> stored.verdict,
              dag      |-> stored.dag,
              inserted |-> IF stored.verdict = "Ok" THEN m.inserted \cup {t.id}
                           ELSE m.inserted]

(* A plausible fault of merge_offline_graphs: the ledger waits for the next *)
(* conflict.                                                                *)
merge_without_rebuild(d, txs) ==
    LET batch == Batch(txs)
        topo  == topo_order_incoming(d.graph, batch)
    IN  FoldLeft(LAMBDA m, i : MergeOne(m, batch[i]),
                 [verdict |-> topo.verdict, dag |-> d, inserted |-> {}], topo.ordered)

merge_offline_graphs(d, txs) ==
    LET batch   == Batch(txs)
        topo    == topo_order_incoming(d.graph, batch)
        merged  == FoldLeft(LAMBDA m, i : MergeOne(m, batch[i]),
                            [verdict |-> topo.verdict, dag |-> d, inserted |-> {}],
                            topo.ordered)
        rebuilt == resolve_conflicts_and_rebuild_ledger(merged.dag)
    IN  IF merged.verdict # "Ok" \/ merged.inserted = {} THEN merged
        ELSE [merged EXCEPT !.verdict = rebuilt.verdict, !.dag = rebuilt.dag]

(* The bodies that d asks for, given the inventory of remote.               *)
exchange_and_merge(d, remote) ==
    LET need == collect_need(d.graph, from_dag(remote.graph))
    IN  merge_offline_graphs(d, transactions_for_in_order(remote.graph, need))
=============================================================================
