------------------------------ MODULE DagLedger ------------------------------
(***************************************************************************)
(* The account ledger of a DAG replica: balances, nonces, relay credits,   *)
(* minted supply and confirmed-transaction counter, and the effects a      *)
(* vertex has on them.  Operators on a ledger record; no graph here.       *)
(*                                                                         *)
(* A vertex is a record                                                    *)
(*   [id, parent_1, parent_2, sender, recipient, amount, nonce,            *)
(*    relays, wellformed]                                                  *)
(* where relays is the duplicate-free sequence of relay phones whose       *)
(* carrier proofs verify, and wellformed says that the fee, the address,   *)
(* the sender's signature and the relay proofs all check.                  *)
(***************************************************************************)
EXTENDS Economics, FiniteSets, SequencesExt

CONSTANTS
    Address,        \* the accounts
    GenesisSender,  \* the account that signs the protocol genesis
    NULL_PARENT     \* the all-zero hash

ASSUME DagLedgerAssumption == GenesisSender \in Address /\ IsFiniteSet(Address)

is_genesis(t) == t.parent_1 = NULL_PARENT /\ t.parent_2 = NULL_PARENT

Fee(t) == IF is_genesis(t) THEN 0 ELSE FIXED_TRANSACTION_FEE

NoFaucet == [a \in Address |-> 0]

(* The ledger of a replica that has applied nothing: faucet credits only.   *)
BaselineLedger(faucet) ==
    [balances       |-> faucet,
     next_nonce     |-> [a \in Address |-> 0],
     relay_credits  |-> [a \in Address |-> 0],
     current_supply |-> 0,
     dag_tx_count   |-> 0]

-----------------------------------------------------------------------------
(* A plausible fault of SpendVerdict: no balance check.                     *)
SpendVerdictUnfunded(L, t) ==
    IF t.nonce # L.next_nonce[t.sender] THEN "DoubleSpend" ELSE "Ok"

(* Can the sender make this spend now?  The checks in the order they run.  *)
SpendVerdict(L, t) ==
    LET cost == t.amount + Fee(t)
    IN  IF t.nonce # L.next_nonce[t.sender] THEN "DoubleSpend"
        ELSE IF cost > U64_MAX THEN "Overflow"
        ELSE IF L.balances[t.sender] < cost THEN "InsufficientBalance"
        ELSE IF /\ t.sender # t.recipient
                /\ L.balances[t.recipient] + t.amount > U64_MAX
             THEN "Overflow"
        ELSE "Ok"

(* Move the amount, burn the fee (minting hands it out again), take the     *)
(* nonce.                                                                   *)
Spend(L, t) ==
    LET held  == L.balances
        moved == IF t.sender = t.recipient
                 THEN [held EXCEPT ![t.sender] = @ - Fee(t)]
                 ELSE [held EXCEPT ![t.sender] = @ - (t.amount + Fee(t)),
                                   ![t.recipient] = @ + t.amount]
    IN  [L EXCEPT !.balances = moved,
                  !.next_nonce[t.sender] = SaturatingAdd(@, 1)]

-----------------------------------------------------------------------------
(* One checked credit of a mint.  The first one that overflows stops the    *)
(* mint; the credits made before it stay.                                   *)
CreditMiner(m, to, amount) ==
    IF m.ledger.balances[to] + amount > U64_MAX
    THEN [m EXCEPT !.ok = FALSE]
    ELSE [m EXCEPT !.ledger.balances[to] = @ + amount]

CreditRelay(m, payout) ==
    LET paid == CreditMiner(m, payout.to, payout.amount)
    IN  IF ~m.ok \/ ~paid.ok THEN [m EXCEPT !.ok = FALSE]
        ELSE IF paid.ledger.relay_credits[payout.to] + payout.amount > U64_MAX
        THEN [paid EXCEPT !.ok = FALSE]
        ELSE [paid EXCEPT !.ledger.relay_credits[payout.to] = @ + payout.amount]

(* Hand (subsidy + fee) to the miner and the relays; count the vertex and   *)
(* grow the supply by the subsidy alone.  Result: [ok, ledger].             *)
mint_confirmed_tx(L, fee, miner, relays) ==
    LET subsidy == get_current_tx_subsidy(L.dag_tx_count, L.current_supply)
        pool    == subsidy + fee
        payouts == RelayPayouts(relays, dag_relay_total_of(pool))
        start   == [ok |-> TRUE, ledger |-> L]
        paid    == FoldLeft(CreditRelay,
                            CreditMiner(start, miner, MinerPayout(relays, pool)),
                            payouts)
    IN  IF pool > U64_MAX THEN [start EXCEPT !.ok = FALSE]
        ELSE IF ~paid.ok THEN paid
        ELSE [paid EXCEPT !.ledger.current_supply = @ + subsidy,
                          !.ledger.dag_tx_count = @ + 1]

(* The whole effect of a user vertex.  Result: [verdict, ledger].  A mint   *)
(* that overflows is reported after the spend has already been made.        *)
apply_ledger_effects(L, t) ==
    LET verdict == SpendVerdict(L, t)
        minted  == mint_confirmed_tx(Spend(L, t), Fee(t), t.sender, t.relays)
    IN  IF verdict # "Ok" THEN [verdict |-> verdict, ledger |-> L]
        ELSE [verdict |-> IF minted.ok THEN "Ok" ELSE "Overflow",
              ledger  |-> minted.ledger]

(* A plausible fault of ReplayStep: only nonce losers are remembered.       *)
ReplayStepDropsUnfunded(r, t) ==
    LET applied == apply_ledger_effects(r.ledger, t)
    IN  [ledger   |-> applied.ledger,
         rejected |-> IF applied.verdict = "DoubleSpend"
                      THEN r.rejected \cup {t.id} ELSE r.rejected,
         aborted  |-> applied.verdict = "Overflow"]

(* One step of a rebuild: apply the next vertex, or note that it lost on    *)
(* its nonce or on the balance.  An overflow aborts the rebuild.            *)
ReplayStep(r, t) ==
    LET applied == apply_ledger_effects(r.ledger, t)
    IN  IF r.aborted THEN r
        ELSE [ledger   |-> applied.ledger,
              rejected |-> IF applied.verdict \in {"DoubleSpend", "InsufficientBalance"}
                           THEN r.rejected \cup {t.id} ELSE r.rejected,
              aborted  |-> applied.verdict = "Overflow"]

(* Rebuild the ledger from the faucet baseline by applying txs in order.    *)
Replay(faucet, txs) ==
    FoldLeft(ReplayStep,
             [ledger |-> BaselineLedger(faucet), rejected |-> {}, aborted |-> FALSE],
             txs)
=============================================================================
