----------------------------- MODULE ReplicaFacts -----------------------------
(***************************************************************************)
(* What makes one replica correct, as predicates of its record: shared by  *)
(* the modules that run a replica in different surroundings.               *)
(***************************************************************************)
EXTENDS DagEngine

(* Signed vertices as they arrive: none has the id of the protocol genesis. *)
AreVertices(V) ==
    \A t \in V :
        /\ t.id \in TxHash \ {GenesisId}
        /\ {t.parent_1, t.parent_2} \subseteq TxHash \cup {NULL_PARENT}
        /\ {t.sender, t.recipient} \subseteq Address
        /\ {t.amount, t.nonce} \subseteq Nat
        /\ t.relays \in Seq(Address)
        /\ t.wellformed \in BOOLEAN

(* 64 bits hold the nonces and the relay income of so many vertices.        *)
RoomForVertices(V) ==
    LET ids == {t.id : t \in V}
    IN  /\ IsFiniteSet(ids)
        /\ Cardinality(ids) < U64_MAX
        /\ Cardinality(ids) * (INITIAL_TX_SUBSIDY + FIXED_TRANSACTION_FEE) <= U64_MAX

(* The stored spends that the ledger counts.                                *)
Applied(d) == UserVertices(d.graph) \ DOMAIN d.conflicts

AppliedBy(d, a) == {i \in Applied(d) : d.graph.vertices[i].sender = a}

(* The genesis key signs no spends.                                         *)
Users == Address \ {GenesisSender}

(* The sum of a function over the accounts.                                 *)
Total(f) == FoldSet(LAMBDA a, n : f[a] + n, 0, Address)

(* The proper ancestors of i, by definition: the least set that holds the   *)
(* parents of i and is closed under parents.                                *)
Ancestors(g, i) ==
    LET Parents(j) == {g.vertices[j].parent_1, g.vertices[j].parent_2} \ {NULL_PARENT}
        grow[n \in 0 .. Cardinality(VertexSet(g))] ==
            IF n = 0 THEN Parents(i)
            ELSE grow[n - 1] \cup UNION {Parents(j) : j \in grow[n - 1]}
    IN  grow[Cardinality(VertexSet(g))]

-----------------------------------------------------------------------------
IsReplica(d) ==
    LET g       == d.graph
        ids     == VertexSet(g)
        Amounts == 0 .. U64_MAX
    IN  /\ ids \subseteq TxHash
        /\ \A i \in ids : g.vertices[i].id = i
        /\ g.attach_order \in Seq(TxHash)
        /\ g.weights \in [ids -> Amounts]
        /\ g.children \in [ids -> SUBSET ids]
        /\ g.tips \subseteq ids
        /\ d.ledger \in [balances : [Address -> Amounts],
                         next_nonce : [Address -> Amounts],
                         relay_credits : [Address -> Amounts],
                         current_supply : Amounts,
                         dag_tx_count : Amounts]
        /\ d.faucet \in [Address -> Amounts]
        /\ d.conflicts \in [DOMAIN d.conflicts -> TxHash \cup {NULL_PARENT}]
        /\ DOMAIN d.conflicts \subseteq ids

(* The tips are the childless vertices, the child map inverts the parent    *)
(* links.                                                                   *)
TipsConsistent(g) ==
    /\ g.tips = {i \in VertexSet(g) : g.children[i] = {}}
    /\ \A i \in VertexSet(g) :
          g.children[i] =
              {j \in VertexSet(g) : i \in {g.vertices[j].parent_1, g.vertices[j].parent_2}}

(* The attach order lists every vertex once, and none before a parent.      *)
OrderTopological(g) ==
    LET order == g.attach_order
    IN  /\ ToSet(order) = VertexSet(g)
        /\ Len(order) = Cardinality(VertexSet(g))
        /\ \A n \in DOMAIN order :
              {g.vertices[order[n]].parent_1, g.vertices[order[n]].parent_2}
                  \subseteq {order[m] : m \in 1 .. n - 1} \cup {NULL_PARENT}

(* A weight is 1 plus the number of vertices that approve the vertex.       *)
WeightsExact(g) ==
    \A i \in VertexSet(g) :
        g.weights[i] = 1 + Cardinality({j \in VertexSet(g) : i \in Ancestors(g, j)})

(* The supply that the schedule mints for the first n applied vertices.     *)
emitted[n \in Nat] ==
    IF n = 0 THEN 0
    ELSE emitted[n - 1] + get_current_tx_subsidy(n - 1, emitted[n - 1])

(* Accounts hold what was credited plus what was minted.                    *)
Conserved(d) == Total(d.ledger.balances) = Total(d.faucet) + d.ledger.current_supply

(* The applied spends of a user carry the nonces below its next one, each   *)
(* once.                                                                    *)
NoncesSpentOnce(d) ==
    \A a \in Users :
        LET spent == AppliedBy(d, a)
        IN  /\ {d.graph.vertices[i].nonce : i \in spent} = 0 .. d.ledger.next_nonce[a] - 1
            /\ Cardinality(spent) = d.ledger.next_nonce[a]

(* The replica has never stored a spend that competes with another one.     *)
Quiet(d) ==
    /\ DOMAIN d.conflicts = {}
    /\ \A i \in UserVertices(d.graph) : Rivals(d.graph, i) = {i}
=============================================================================
