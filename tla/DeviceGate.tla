------------------------------- MODULE DeviceGate -------------------------------
(***************************************************************************)
(* Which devices take part: the checks on the hardware quote of a peer and *)
(* on the machine this process runs on.  Pure operators.                   *)
(*                                                                         *)
(* A quote is a record                                                     *)
(*   [miner, key, class, logical_cores, lattice_probe_ns, cache_probe_ns,  *)
(*    clock_skew_ppm, net, adjacency_rtt_ms, mining_duration_ns, sealed]   *)
(* where key is the address of the key its sender signs with, net the kind *)
(* of prefix its address lies in, and sealed says that the digest over the *)
(* other fields is the one in the quote.                                   *)
(***************************************************************************)
EXTENDS Naturals, SequencesExt

CONSTANTS
    Typical,         \* per device class [cores, probe_ns, cache_ns, rtt_ms]
    MIN_SAMPLES,     \* probes a quote holds at least
    MaxCores,        \* per device class
    MinProbe,        \* per device class: no real device is faster
    MinDuration,     \* per device class
    LOW_JITTER,      \* a variance below this costs authenticity
    MinAuthenticity, \* what a node demands of its peer
    CLOUD_ENV_KEYS   \* what cloud providers set

SumOf(s) == FoldLeft(LAMBDA n, x : n + x, 0, s)

SumOfSquares(s) == FoldLeft(LAMBDA n, x : n + x * x, 0, s)

(* Is the variance of the samples below v?                                  *)
VarianceBelow(s, v) ==
    Len(s) * SumOfSquares(s) < SumOf(s) * SumOf(s) + v * Len(s) * Len(s)

AllIn(s, S) == ToSet(s) \subseteq S

(* The checks, in the order they run.                                       *)
verify_hardware_authenticity(q) ==
    IF \/ ~q.sealed
       \/ Len(q.lattice_probe_ns) < MIN_SAMPLES
       \/ Len(q.cache_probe_ns) < MIN_SAMPLES
       \/ Len(q.clock_skew_ppm) < 2
       \/ Len(q.adjacency_rtt_ms) < 2
    THEN "AttestationInvalid"
    ELSE IF \/ VarianceBelow(q.lattice_probe_ns, 1)
            \/ VarianceBelow(q.cache_probe_ns, 1)
            \/ AllIn(q.clock_skew_ppm, {0})
    THEN "VirtualMachineFingerprint"
    ELSE IF \/ q.logical_cores \notin 1 .. MaxCores[q.class]
            \/ SumOf(q.lattice_probe_ns) < MinProbe[q.class] * Len(q.lattice_probe_ns)
    THEN "EmulatorTiming"
    ELSE IF \/ q.net = "datacenter"
            \/ /\ AllIn(q.adjacency_rtt_ms, 0 .. 2)
               /\ Len(q.adjacency_rtt_ms) >= MIN_SAMPLES
    THEN "DatacenterCluster"
    ELSE IF q.mining_duration_ns < MinDuration[q.class]
    THEN "ImpossibleCadence"
    ELSE "Ok"

(* The score of a quote that passed.                                        *)
authenticity(q) ==
    IF VarianceBelow(q.lattice_probe_ns, LOW_JITTER) THEN 730 ELSE 850

(* May q be the quote of a real device of this class, as the programs make  *)
(* them?  The samples spread around what is typical for the class.          *)
simulate_honest(q, class) ==
    LET Around(base, spread) == (base - spread) .. (base + spread)
        typical == Typical[class]
    IN  /\ q.sealed /\ q.miner = q.key /\ q.net = "residential"
        /\ q.class = class /\ q.logical_cores = typical.cores
        /\ Len(q.lattice_probe_ns) = 6 /\ Len(q.cache_probe_ns) = 6
        /\ Len(q.clock_skew_ppm) = 4 /\ Len(q.adjacency_rtt_ms) = 4
        /\ AllIn(q.lattice_probe_ns, Around(typical.probe_ns, typical.probe_ns \div 8))
        /\ AllIn(q.cache_probe_ns, Around(typical.cache_ns, typical.cache_ns \div 5 + 1))
        /\ AllIn(q.adjacency_rtt_ms, Around(typical.rtt_ms, 12))

(* A farm of machines: perfect timings, many cores, neighbours in the rack. *)
datacenter_bot(q) ==
    [q EXCEPT !.net = "datacenter",
              !.logical_cores = 64,
              !.lattice_probe_ns = <<80, 80, 80, 80, 80, 80>>,
              !.cache_probe_ns = <<40, 40, 40, 40>>,
              !.clock_skew_ppm = <<0, 0, 0, 0>>,
              !.adjacency_rtt_ms = <<1, 1, 1, 1>>,
              !.mining_duration_ns = 500]

(* What both kinds of handshake ask of the other device.                    *)
verify_attestation(q) ==
    /\ q.miner = q.key
    /\ q.net # "datacenter"
    /\ verify_hardware_authenticity(q) = "Ok"
    /\ authenticity(q) >= MinAuthenticity

-----------------------------------------------------------------------------
(* The machine: [arch, cache_samples, env], env its environment variables,  *)
(* each [key, value].  Clean timings mean a virtual machine, and only       *)
(* phones are aarch64.                                                      *)
cache_looks_like_emulator(s) ==
    \/ Len(s) < 4
    \/ \A n \in 1 .. Len(s) - 1 : s[n] = s[n + 1]
    \/ LET mean == SumOf(s) \div Len(s)
           Distance(x) == IF x < mean THEN mean - x ELSE x - mean
       IN  FoldLeft(LAMBDA n, x : n + Distance(x) * Distance(x), 0, s) < Len(s) - 1

(* A cloud provider's variable counts if it is set to something.            *)
cloud_environment_detected(env) ==
    \E v \in env : v.value # "" /\ v.key \in CLOUD_ENV_KEYS

enforce_real_mobile(host) ==
    IF cloud_environment_detected(host.env) THEN "CloudEnvironment"
    ELSE IF host.arch # "aarch64" THEN "PcArchitecture"
    ELSE IF cache_looks_like_emulator(host.cache_samples) THEN "EmulatorTiming"
    ELSE "Ok"
=============================================================================
