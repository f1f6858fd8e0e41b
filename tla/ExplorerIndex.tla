----------------------------- MODULE ExplorerIndex -----------------------------
(***************************************************************************)
(* The explorer of a hub: an in-memory index of the replica that is thrown *)
(* away and built anew after every vertex, and the query API that wallets  *)
(* and the web page read.  Operators on an index record                    *)
(*   [rows, order, history, balances, nonces, tips, genesis,               *)
(*    circulating_supply, dag_tx_count, vertex_count].                     *)
(* An address stands for its kron1 string; JSON and HTTP framing are left  *)
(* out, a reply is the value it encodes.                                   *)
(***************************************************************************)
EXTENDS ReplicaFacts, Selection

(* The number of rows the wallet keeps of its history.                      *)
RECENT_ROWS == 12

(* What the index starts as, before the first synchronisation.              *)
EmptyIndex ==
    [rows |-> [i \in {} |-> {}], order |-> <<>>,
     history |-> [a \in Address |-> <<>>],
     balances |-> NoFaucet, nonces |-> NoFaucet,
     tips |-> <<>>, genesis |-> NULL_PARENT,
     circulating_supply |-> 0, dag_tx_count |-> 0, vertex_count |-> 0]

(* tip_list sorts the ids.                                                  *)
tip_list(g) == Ascending(g.tips)

(* The row of vertex t, the n-th spend in attach order.  The split is       *)
(* recomputed from the position alone: it is not what the ledger paid.      *)
index_vertex(d, t, n) ==
    LET pool == IF is_genesis(t) THEN 0
                ELSE SaturatingAdd(get_current_tx_subsidy(SaturatingSub(n, 1), 0), Fee(t))
    IN  [hash |-> t.id, from |-> t.sender, to |-> t.recipient,
         amount |-> t.amount, fee |-> Fee(t),
         parent_1 |-> t.parent_1, parent_2 |-> t.parent_2,
         weight |-> d.graph.weights[t.id],
         is_tip |-> t.id \in d.graph.tips,
         dag_tx_index |-> n,
         conflicted |-> t.id \in DOMAIN d.conflicts,
         miner_amount |-> dag_miner_share_of(pool),
         relay_amount |-> dag_relay_total_of(pool),
         relay_addresses |-> t.relays]

(* The position of each vertex among the spends: genesis has none.          *)
SpendIndex(txs, n) == Cardinality({m \in 1 .. n : ~is_genesis(txs[m])})

(* The rows of a whole replica.                                             *)
RowsOf(d) ==
    LET txs == transactions_for_in_order(d.graph, VertexSet(d.graph))
        At(i) == CHOOSE n \in DOMAIN txs : txs[n].id = i
    IN  [i \in VertexSet(d.graph) |-> index_vertex(d, txs[At(i)], SpendIndex(txs, At(i)))]

(* A plausible fault of sync_from_dag: rows that exist are kept, only the   *)
(* new vertices are indexed.                                                *)
index_rows_once(self, d) ==
    [self EXCEPT !.rows = [i \in VertexSet(d.graph) |->
                              IF i \in DOMAIN self.rows THEN self.rows[i] ELSE RowsOf(d)[i]],
                 !.order = d.graph.attach_order,
                 !.balances = d.ledger.balances, !.nonces = d.ledger.next_nonce,
                 !.tips = tip_list(d.graph), !.genesis = d.graph.genesis_id]

(* The whole index again, from the replica.                                 *)
sync_from_dag(self, d) ==
    LET rows  == RowsOf(d)
        order == d.graph.attach_order
    IN  [rows     |-> rows,
         order    |-> order,
         history  |-> [a \in Address |->
                          Selected(order, {i \in DOMAIN rows : a \in {rows[i].from, rows[i].to}})],
         balances |-> d.ledger.balances,
         nonces   |-> d.ledger.next_nonce,
         tips     |-> tip_list(d.graph),
         genesis  |-> d.graph.genesis_id,
         circulating_supply |-> d.ledger.current_supply,
         dag_tx_count |-> d.ledger.dag_tx_count,
         vertex_count |-> Cardinality(VertexSet(d.graph))]

-----------------------------------------------------------------------------
(* The queries.                                                            *)

(* Rows in the order of their spend index, which no two rows share; genesis *)
(* comes first.                                                             *)
get_wallet_history(x, a) ==
    LET rows  == {x.rows[i] : i \in ToSet(x.history[a])}
        order == Ascending({row.dag_tx_index : row \in rows})
    IN  [n \in DOMAIN order |-> CHOOSE row \in rows : row.dag_tx_index = order[n]]

get_wallet_snapshot(x, a) ==
    [balance |-> x.balances[a], nonce |-> x.nonces[a], txs |-> get_wallet_history(x, a)]

(* The nonce and the parents a wallet needs: the two smallest tips, with    *)
(* genesis for a missing one.                                               *)
compose_hint(x, a) ==
    [nonce    |-> x.nonces[a],
     parent_1 |-> IF x.tips = <<>> THEN x.genesis ELSE x.tips[1],
     parent_2 |-> IF Len(x.tips) < 2 THEN x.genesis ELSE x.tips[2],
     balance  |-> x.balances[a]]

recent_transactions(x, limit) ==
    LET newest == Reverse(x.order)
    IN  [n \in 1 .. Min({limit, Len(newest)}) |-> x.rows[newest[n]]]

get_network_stats(x) ==
    [vertex_count |-> x.vertex_count, tip_count |-> Len(x.tips),
     dag_tx_count |-> x.dag_tx_count, circulating_supply |-> x.circulating_supply]

(* One request under the lock of the index.                                 *)
dispatch(x, path, arg) ==
    CASE path = "stats"    -> get_network_stats(x)
      [] path = "vertices" -> recent_transactions(x, 32)
      [] path = "txs"      -> recent_transactions(x, 64)
      [] path = "tx"       -> IF arg \in DOMAIN x.rows THEN x.rows[arg] ELSE "not found"
      [] path = "wallet"   -> get_wallet_snapshot(x, arg)
      [] path = "compose"  -> compose_hint(x, arg)
      [] OTHER             -> "not found"

-----------------------------------------------------------------------------
(* The wallet's side of two requests.                                      *)

(* What the Home screen shows: balance and the newest rows, newest first.   *)
fetch_view(x, a) ==
    LET stats  == dispatch(x, "stats", a)
        wallet == dispatch(x, "wallet", a)
        newest == Reverse(wallet.txs)
    IN  [dag_tx_count |-> stats.dag_tx_count,
         balance      |-> wallet.balance,
         txs          |-> SubSeq(newest, 1, Min({RECENT_ROWS, Len(newest)}))]

fetch_compose(x, a) == dispatch(x, "compose", a)
=============================================================================
