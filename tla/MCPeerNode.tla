------------------------------ MODULE MCPeerNode ------------------------------
(***************************************************************************)
(* Instances of PeerNode for TLC: two phones that discover each other; a   *)
(* hub between two phones of one prefix, dialled by them or following      *)
(* them; and devices that one side or the other must turn away.            *)
(***************************************************************************)
EXTENDS PeerNode

CONSTANTS a, b, h, x, y              \* phones, a hub, an emulator, a server
CONSTANTS l1, l2                     \* links

MCLink(from, to, how, d) == [from |-> from, to |-> to, how |-> how, dials |-> d]

(* How the programs are started.                                            *)
MCAt(ip) == [ip |-> ip, port |-> 8000]

MCPublicHub == MCAt("hub")

MCStart(program, ip) ==
    [program |-> program, cli |-> <<>>, no_bootstrap |-> FALSE, env |-> <<>>, files |-> <<>>,
     port |-> 8000, port_auto |-> FALSE, taken |-> {}, ip |-> ip, lan |-> ip,
     public_ip |-> ip, hub |-> FALSE, read_only |-> FALSE, x86 |-> FALSE,
     no_discovery |-> FALSE, restored |-> <<>>]

MCEntry(what, addr) == [kind |-> what, addr |-> addr]

(* A phone without a hub; one whose port is taken and that knows the public *)
(* hub from the program only; a hub that its own file lists, too; and a     *)
(* node that follows it.                                                    *)
MCPhone(ip) == [MCStart("phone", ip) EXCEPT !.no_bootstrap = TRUE]

MCDefault == [MCStart("phone", "a") EXCEPT !.port = 9000, !.port_auto = TRUE, !.taken = {9000}]

MCHubNode(targets) ==
    [MCStart("node", "hub") EXCEPT
        !.hub = TRUE, !.x86 = TRUE,
        !.files = <<[present |-> FALSE, lines |-> <<>>],
                    [present |-> TRUE,
                     lines   |-> <<MCEntry("skipped", MCPublicHub),
                                   MCEntry("address", MCPublicHub)>>]>>,
        !.env = [n \in DOMAIN targets |-> MCEntry("address", MCAt(targets[n]))]]

MCFollower(ip) == [MCStart("node", ip) EXCEPT !.cli = <<MCPublicHub>>]

MCStarts(of_a, of_b, of_h) ==
    [n \in Nodes |-> CASE n = a -> of_a [] n = b -> of_b [] n = h -> of_h
                       [] n = x -> MCFollower("x") [] OTHER -> MCFollower("y")]

MCMutual == (l1 :> MCLink(a, b, "beacon", 1)) @@ (l2 :> MCLink(b, a, "beacon", 1))
MCHub    == (l1 :> MCLink(a, h, "hub", 2)) @@ (l2 :> MCLink(b, h, "attach", 1))
MCLan    == (l1 :> MCLink(h, a, "follow", 1)) @@ (l2 :> MCLink(h, b, "follow", 1))

MCNetworks ==
    {[start |-> MCStarts(MCPhone("a"), MCPhone("b"), MCHubNode(<<>>)), links |-> MCMutual],
     [start |-> MCStarts(MCDefault, MCStart("miner", "b"), MCHubNode(<<>>)), links |-> MCHub],
     [start |-> [MCStarts(MCPhone("a"), MCPhone("b"), MCHubNode(<<"a", "b">>)) EXCEPT
                    ![a].restored = <<"ma">>, ![h].restored = <<"ma">>],
      links |-> MCLan]} \cup
    {[start |-> MCStarts(MCPhone("a"), MCPhone("b"), MCHubNode(<<"x", "y">>)),
      links |-> l1 :> MCLink(n[1], n[2], "follow", 1)] :
        n \in {<<x, h>>, <<h, x>>, <<y, h>>, <<h, y>>}}

MCNet == [n \in Nodes |-> [slash24 |-> IF n \in {a, b} THEN "lan" ELSE "far",
                           datacenter |-> n = y]]

MCGood == [miner |-> a, key |-> a, class |-> "LegacyMobile", logical_cores |-> 4,
           lattice_probe_ns |-> <<70, 62, 75, 78, 66, 71>>,
           cache_probe_ns |-> <<42, 40, 47, 50, 36, 44>>,
           clock_skew_ppm |-> <<3, 5, 8, 12>>, net |-> "residential",
           adjacency_rtt_ms |-> <<45, 50, 39, 52>>, mining_duration_ns |-> 80, sealed |-> TRUE]

MCQuote == [n \in Nodes |->
               IF n = x THEN [datacenter_bot(MCGood) EXCEPT !.net = "residential"]
               ELSE MCGood]

MCTypical == [IotSensor |-> [cores |-> 1, probe_ns |-> 180, cache_ns |-> 90, rtt_ms |-> 85],
              LegacyMobile |-> [cores |-> 4, probe_ns |-> 70, cache_ns |-> 42, rtt_ms |-> 45],
              PersonalComputer |-> [cores |-> 8, probe_ns |-> 8, cache_ns |-> 12,
                                    rtt_ms |-> 18]]

MCMaxCores == [IotSensor |-> 2, LegacyMobile |-> 8, PersonalComputer |-> 32]
MCMinProbe == [IotSensor |-> 50, LegacyMobile |-> 30, PersonalComputer |-> 10]
MCMinDuration == [IotSensor |-> 60, LegacyMobile |-> 40, PersonalComputer |-> 20]

MCBucketOf(local, remote) == 1

MCFresh == [n \in Nodes |-> CASE n = a -> {"ma"} [] n = b -> {"mb"} [] OTHER -> {}]

MCMaxDials == (l1 :> 2) @@ (l2 :> 1)

MCMaxStore == [EdgeMiner |-> 1, CoreValidator |-> 1]
MCMaxWant == [EdgeMiner |-> 1, CoreValidator |-> 1]
=============================================================================
