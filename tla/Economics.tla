------------------------------ MODULE Economics ------------------------------
(***************************************************************************)
(* The monetary policy of the DAG: the per-transaction subsidy, its        *)
(* halvings and hard cap, and the 80/20 split of (subsidy + fee) between   *)
(* the confirming miner phone and the relay phones.                        *)
(*                                                                         *)
(* The amounts of the program (a cap of 24e12 minor units, a halving every *)
(* 126144000 transactions) are constants here, so that a run can scale     *)
(* them down until every era and the cap itself are reached.               *)
(***************************************************************************)
EXTENDS Integers, Sequences

CONSTANTS
    HARD_CAP,               \* lifetime supply that subsidies may mint
    FIXED_TRANSACTION_FEE,  \* charged to the sender of every user vertex
    INITIAL_TX_SUBSIDY,     \* minted per confirmed vertex in the first era
    TX_HALVING_INTERVAL,    \* confirmed vertices per subsidy era
    MAX_HALVINGS,           \* emission is forced to zero from this era on
    U64_MAX                 \* the largest value of an unsigned 64-bit integer

DAG_MINER_SHARE_PERCENT == 80

ASSUME EconomicsAssumption ==
    /\ HARD_CAP \in Nat
    /\ FIXED_TRANSACTION_FEE \in Nat
    /\ INITIAL_TX_SUBSIDY \in Nat
    /\ TX_HALVING_INTERVAL \in Nat \ {0}
    /\ MAX_HALVINGS \in Nat
    /\ U64_MAX \in Nat \ {0}
    /\ HARD_CAP <= U64_MAX

-----------------------------------------------------------------------------
(* Saturating arithmetic on u64.                                           *)

SaturatingAdd(a, b) == IF a + b > U64_MAX THEN U64_MAX ELSE a + b

SaturatingMul(a, b) == IF a * b > U64_MAX THEN U64_MAX ELSE a * b

SaturatingSub(a, b) == IF b > a THEN 0 ELSE a - b

-----------------------------------------------------------------------------
(* INITIAL_TX_SUBSIDY >> halvings: halved, rounding down, that many times.  *)
EraSubsidy[halvings \in 0 .. MAX_HALVINGS] ==
    IF halvings = 0 THEN INITIAL_TX_SUBSIDY ELSE EraSubsidy[halvings - 1] \div 2

(* The subsidy of the next confirmed vertex, clamped to the room left under *)
(* the hard cap.                                                            *)
get_current_tx_subsidy(global_tx_count, current_supply) ==
    LET halvings == global_tx_count \div TX_HALVING_INTERVAL
        room     == HARD_CAP - current_supply
        subsidy  == EraSubsidy[halvings]
    IN  IF halvings >= MAX_HALVINGS \/ current_supply >= HARD_CAP
        THEN 0
        ELSE IF subsidy > room THEN room ELSE subsidy

dag_miner_share_of(pool) ==
    SaturatingMul(pool, DAG_MINER_SHARE_PERCENT) \div 100

dag_relay_total_of(pool) == SaturatingSub(pool, dag_miner_share_of(pool))

(* What each relay phone gets: equal shares, the dust to the first one.     *)
RelayPayouts(relays, relay_total) ==
    LET each == relay_total \div Len(relays)
        dust == relay_total % Len(relays)
    IN  [i \in DOMAIN relays |->
            [to     |-> relays[i],
             amount |-> IF i = 1 THEN each + dust ELSE each]]

(* A plausible fault of MinerPayout: the 20 percent of a vertex that no      *)
(* relay phone carried is lost.                                             *)
MinerPayoutBurning(relays, pool) == dag_miner_share_of(pool)

(* What the miner phone gets: its 80 percent, and the remainder as well     *)
(* when no relay phone carried the vertex.                                  *)
MinerPayout(relays, pool) ==
    IF relays = <<>>
    THEN SaturatingAdd(dag_miner_share_of(pool), dag_relay_total_of(pool))
    ELSE dag_miner_share_of(pool)
=============================================================================
