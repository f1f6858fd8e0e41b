---------------------------- MODULE MCPhoneMeetup ----------------------------
(***************************************************************************)
(* An instance of PhoneMeetup for TLC: two phones with rival spends, and a *)
(* relay phone that is handed good vertices and stray ones.                *)
(***************************************************************************)
EXTENDS PhoneMeetup

CONSTANTS A, B, R, G    \* two spending wallets, the relay wallet, genesis
CONSTANTS a, b          \* the phones of A and B

MCTx(id, p1, p2, from, to, amount, nonce, wellformed) ==
    [id |-> id, parent_1 |-> p1, parent_2 |-> p2, sender |-> from,
     recipient |-> to, amount |-> amount, nonce |-> nonce,
     relays |-> <<>>, wellformed |-> wellformed]

MCFaucet == [x \in {A, B, R, G} |-> IF x \in {A, B} THEN 6 ELSE 0]

(* The child has a smaller id than its parents.                             *)
MCSpend == MCTx(4, 1, 1, A, B, 1, 0, TRUE)
MCChild == MCTx(2, 4, 1, A, R, 1, 1, TRUE)

MCFresh ==
    [p \in {a, b} |->
        IF p = a THEN {MCSpend, MCChild} ELSE {MCTx(3, 1, 1, A, R, 2, 0, TRUE)}]

(* The stray one has the null hash for a parent.                            *)
MCHanded == {MCSpend, MCTx(5, 4, 0, B, A, 2, 0, TRUE)}

MCQuote ==
    [p \in {a, b} |->
        [miner |-> p, key |-> p, class |-> "LegacyMobile", logical_cores |-> 4,
         lattice_probe_ns |-> <<70, 62, 75, 78, 66, 71>>,
         cache_probe_ns |-> <<42, 40, 47, 50, 36, 44>>,
         clock_skew_ppm |-> <<3, 5, 8, 12>>, net |-> "residential",
         adjacency_rtt_ms |-> <<45, 50, 39, 52>>, mining_duration_ns |-> 80, sealed |-> TRUE]]

MCHosts ==
    {[arch |-> "aarch64", cache_samples |-> <<100, 140, 90, 210>>, env |-> {}],
     [arch |-> "aarch64", cache_samples |-> <<100, 140, 90, 210>>,
      env |-> {[key |-> "AWS_REGION", value |-> "eu"]}],
     [arch |-> "x86_64", cache_samples |-> <<40, 40, 40, 40>>, env |-> {}]}

MCTypical == [IotSensor |-> [cores |-> 1, probe_ns |-> 180, cache_ns |-> 90, rtt_ms |-> 85],
              LegacyMobile |-> [cores |-> 4, probe_ns |-> 70, cache_ns |-> 42, rtt_ms |-> 45],
              PersonalComputer |-> [cores |-> 8, probe_ns |-> 8, cache_ns |-> 12,
                                    rtt_ms |-> 18]]
MCMaxCores == [IotSensor |-> 2, LegacyMobile |-> 8, PersonalComputer |-> 32]
MCMinProbe == [IotSensor |-> 20, LegacyMobile |-> 8, PersonalComputer |-> 1]
MCMinDuration == [IotSensor |-> 20, LegacyMobile |-> 15, PersonalComputer |-> 8]
=============================================================================
