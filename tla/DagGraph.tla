------------------------------- MODULE DagGraph -------------------------------
(***************************************************************************)
(* The graph a DAG replica stores: the vertices by id, the order in which  *)
(* they were attached, the child map, the tips and the cumulative weights. *)
(* Operators on a graph record; the ledger is DagLedger's.                 *)
(*                                                                         *)
(* Ids are naturals because the conflict rule compares id bytes; the       *)
(* all-zero NULL_PARENT is 0.                                              *)
(***************************************************************************)
EXTENDS DagLedger

CONSTANTS
    TxHash,               \* the vertex ids
    ANCESTOR_WALK_BOUND   \* how many vertices a parent walk visits at most

ASSUME DagGraphAssumption ==
    /\ TxHash \subseteq Nat \ {0}
    /\ NULL_PARENT = 0
    /\ ANCESTOR_WALK_BOUND \in Nat

EmptyGraph ==
    [vertices     |-> [i \in {} |-> {}],
     attach_order |-> <<>>,
     weights      |-> [i \in {} |-> 0],
     children     |-> [i \in {} |-> {}],
     tips         |-> {},
     genesis_id   |-> NULL_PARENT]

VertexSet(g) == DOMAIN g.vertices

(* A plausible fault of ParentSet: the second parent is forgotten.          *)
FirstParentOnly(t) == {t.parent_1} \ {NULL_PARENT}

ParentSet(t) == {t.parent_1, t.parent_2} \ {NULL_PARENT}

(* An id is the hash of what the sender signed, so no vertex can arrive      *)
(* that shares with a stored one the id but not the contents, or the         *)
(* contents but not the id.  The relay sidecar is not hashed.                *)
Signed(t) == <<t.parent_1, t.parent_2, t.sender, t.recipient, t.amount, t.nonce>>

Receivable(g, t) ==
    \A i \in VertexSet(g) : (i = t.id) <=> (Signed(g.vertices[i]) = Signed(t))

(* The vertices that count as spends.                                      *)
UserVertices(g) == {i \in VertexSet(g) : ~is_genesis(g.vertices[i])}

-----------------------------------------------------------------------------
(* What a parent link adds to a stack of ids.                               *)
Link(p) == IF p = NULL_PARENT THEN <<>> ELSE <<p>>

(* The bounded depth-first walk along parent links that weight updates and  *)
(* parent closures share.  The walk pops an id, skips it when it was seen,  *)
(* stops for good when the bound is reached, and otherwise visits it and    *)
(* pushes its parents, the second one on top.                               *)
WalkStep(g, w) ==
    LET h      == Last(w.stack)
        rest   == Front(w.stack)
        pushed == IF h \in VertexSet(g)
                  THEN Link(g.vertices[h].parent_1) \o Link(g.vertices[h].parent_2)
                  ELSE <<>>
    IN  IF w.stack = <<>> THEN w
        ELSE IF h \in w.visited THEN [w EXCEPT !.stack = rest]
        ELSE IF Cardinality(w.visited) >= ANCESTOR_WALK_BOUND
        THEN [w EXCEPT !.stack = <<>>, !.cut = {h}]
        ELSE [w EXCEPT !.stack = rest \o pushed, !.visited = @ \cup {h}]

(* A walk pushes two parents per visit at most, which bounds its length.    *)
Walk(g, start) ==
    FoldLeft(LAMBDA w, n : WalkStep(g, w),
             [stack |-> start, visited |-> {}, cut |-> {}],
             [n \in 1 .. 2 * Cardinality(VertexSet(g)) + 2 |-> n])

(* A plausible fault of WeightedAncestors: only the parents gain weight.    *)
WeightedParents(g, p1, p2) == {p1, p2} \ {NULL_PARENT}

(* The vertices whose weight the attachment of a child of p1 and p2 raises. *)
WeightedAncestors(g, p1, p2) == Walk(g, Link(p1) \o Link(p2)).visited

(* The ids reachable from id, and the one the walk was cut at.              *)
parent_closure(g, id) ==
    LET w == Walk(g, <<id>>) IN w.visited \cup w.cut

-----------------------------------------------------------------------------
(* A plausible fault of ParentsAdmitted: one known parent is enough.        *)
AnyParentAdmitted(g, t) == ParentSet(t) \cap VertexSet(g) # {}

(* Both parents are stored.                                                 *)
ParentsAdmitted(g, t) == {t.parent_1, t.parent_2} \subseteq VertexSet(g)

(* The checks of the graph, in the order they run.                          *)
GraphVerdict(g, t) ==
    IF t.id \in VertexSet(g) THEN "DuplicateTx"
    ELSE IF is_genesis(t) /\ VertexSet(g) # {} THEN "InvalidGenesis"
    ELSE IF ~is_genesis(t) /\ ~ParentsAdmitted(g, t) THEN "UnknownParent"
    ELSE IF ~t.wellformed THEN "Malformed"
    ELSE "Ok"

(* Store t as a tip, retire its parents, raise the weight of its ancestors. *)
InsertVertex(g, t) ==
    LET ids    == VertexSet(g) \cup {t.id}
        raised == WeightedAncestors(g, t.parent_1, t.parent_2)
    IN  [vertices     |-> [i \in ids |-> IF i = t.id THEN t ELSE g.vertices[i]],
         attach_order |-> Append(g.attach_order, t.id),
         weights      |-> [i \in ids |->
                             IF i = t.id THEN 1
                             ELSE IF i \in raised
                                  THEN SaturatingAdd(g.weights[i], 1)
                                  ELSE g.weights[i]],
         children     |-> [i \in ids |->
                             IF i = t.id THEN {}
                             ELSE IF i \in ParentSet(t)
                                  THEN g.children[i] \cup {t.id}
                                  ELSE g.children[i]],
         tips         |-> (g.tips \cup {t.id}) \ ParentSet(t),
         genesis_id   |-> IF is_genesis(t) THEN t.id ELSE g.genesis_id]

-----------------------------------------------------------------------------
(* The parent pairs a phone may pick for its own vertex: every walk from    *)
(* genesis ends in a tip, and two walks that collide are separated.         *)
ParentChoices(g) ==
    IF g.tips = {} THEN {<<NULL_PARENT, NULL_PARENT>>}
    ELSE IF Cardinality(g.tips) = 1 THEN {<<tip, g.genesis_id>> : tip \in g.tips}
    ELSE {pair \in g.tips \X g.tips : pair[1] # pair[2]}

(* A plausible fault of transactions_for_in_order: bodies sorted by id.     *)
transactions_by_id(g, ids) ==
    LET chosen == SetToSortSeq(VertexSet(g) \cap ids, LAMBDA i, j : i < j)
    IN  [n \in DOMAIN chosen |-> g.vertices[chosen[n]]]

(* The bodies of ids in attach order, as they are sent on the wire.         *)
transactions_for_in_order(g, ids) ==
    FoldLeft(LAMBDA txs, i : IF i \in ids THEN Append(txs, g.vertices[i]) ELSE txs,
             <<>>, g.attach_order)

-----------------------------------------------------------------------------
(* The conflict rule.                                                      *)

(* Spends by the same sender with the same nonce; i itself is one of them.  *)
Rivals(g, i) ==
    {j \in UserVertices(g) :
        /\ g.vertices[j].sender = g.vertices[i].sender
        /\ g.vertices[j].nonce  = g.vertices[i].nonce}

(* conflict_rank(i) > conflict_rank(j)                                      *)
Outranks(g, i, j) ==
    \/ g.weights[i] > g.weights[j]
    \/ g.weights[i] = g.weights[j] /\ i > j

(* A plausible fault of Winner: the spend attached first wins.              *)
FirstAttached(g, i) ==
    g.attach_order[Min({n \in DOMAIN g.attach_order : g.attach_order[n] \in Rivals(g, i)})]

Winner(g, i) ==
    CHOOSE w \in Rivals(g, i) : \A j \in Rivals(g, i) \ {w} : Outranks(g, w, j)

Losers(g) == {i \in UserVertices(g) : Winner(g, i) # i}
=============================================================================
