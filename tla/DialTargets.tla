------------------------------ MODULE DialTargets ------------------------------
(***************************************************************************)
(* What a program makes of its configuration when it starts: where it      *)
(* listens, which addresses it dials, whose beacons it hears, and what     *)
(* part it takes in the mesh.  Pure operators.                             *)
(*                                                                         *)
(* An address is [ip, port].  A start is a record                          *)
(*   [program, cli, no_bootstrap, env, files, port, port_auto, taken, ip,  *)
(*    lan, public_ip, hub, read_only, x86, no_discovery, restored]         *)
(* program is "phone" (kron-phone), "node" (kron-node) or "miner"          *)
(* (kron-phone-miner); cli holds at most one address; env and the lines of *)
(* a file are sequences of [kind, addr], where kind is "address",          *)
(* "skipped" (blank, a comment, the template's placeholder) or "garbage";  *)
(* files are [present, lines], the one in the data directory first; taken  *)
(* are the ports another process listens on; restored are the vertices     *)
(* read back from the data directory, in order.                            *)
(***************************************************************************)
EXTENDS Naturals, SequencesExt

CONSTANTS
    DEFAULT_BOOTSTRAP,   \* the public hub that every phone knows
    LAST_PORT            \* u16::MAX

NoAddrs == [ok |-> TRUE, addrs |-> <<>>]

(* One entry that does not parse spoils the text.                           *)
parse_bootstrap_text(text) ==
    LET read == SelectSeq(text, LAMBDA entry : entry.kind # "skipped")
    IN  IF \E n \in DOMAIN read : read[n].kind = "garbage"
        THEN [ok |-> FALSE, addrs |-> <<>>]
        ELSE [ok |-> TRUE, addrs |-> [n \in DOMAIN read |-> read[n].addr]]

(* The first file there is counts, the others do not.                       *)
read_bootstrap_file(files) ==
    LET found == SelectSeq(files, LAMBDA file : file.present)
    IN  IF found = <<>> THEN <<>> ELSE found[1].lines

push_unique(out, addr) == IF Contains(out, addr) THEN out ELSE Append(out, addr)

(* The command line first, then the environment, then the file; the public  *)
(* hub only when all three say nothing.                                     *)
resolve_bootstrap_sources(cli, env, file, use_default) ==
    LET env_addrs  == parse_bootstrap_text(env)
        file_addrs == parse_bootstrap_text(file)
        listed     == FoldLeft(push_unique, <<>>, cli \o env_addrs.addrs \o file_addrs.addrs)
    IN  [ok    |-> env_addrs.ok /\ file_addrs.ok,
         addrs |-> IF listed = <<>> /\ use_default THEN <<DEFAULT_BOOTSTRAP>> ELSE listed]

resolve_bootstrap_from(s, use_default) ==
    resolve_bootstrap_sources(s.cli, s.env, read_bootstrap_file(s.files), use_default)

resolve_phone_bootstrap(s) ==
    IF s.cli = <<>> /\ s.no_bootstrap THEN NoAddrs ELSE resolve_bootstrap_from(s, TRUE)

-----------------------------------------------------------------------------
(* Where it listens.                                                        *)
port_auto_candidates(port, auto) ==
    SelectSeq([n \in 1 .. IF auto THEN 5 ELSE 1 |-> port + n - 1],
              LAMBDA p : p \in 1 .. LAST_PORT)

(* A phone takes the first candidate that is free, if there is one.         *)
bind_phone_p2p(s) ==
    SelectSeq(port_auto_candidates(s.port, s.port_auto), LAMBDA p : p \notin s.taken)

(* The others know only the port they were given.                           *)
Listening(s) ==
    IF s.program = "phone" THEN bind_phone_p2p(s)
    ELSE SelectSeq(<<s.port>>, LAMBDA p : p \notin s.taken)

Address(s) == [ip |-> s.ip, port |-> Listening(s)[1]]

is_self_hub_target(peer, listen_port, advertised, lan) ==
    /\ peer.port = listen_port
    /\ peer.ip \in {"unspecified", "loopback", advertised, lan}

-----------------------------------------------------------------------------
(* What a node is.                                                          *)
decide_node_run_mode(s) ==
    IF s.hub \/ (s.x86 /\ ~s.read_only /\ s.cli = <<>>) THEN "PublicHub"
    ELSE IF s.x86 \/ s.read_only THEN "Viewer"
    ELSE "PhoneHub"

p2p_role(s) ==
    IF s.program = "node" /\ decide_node_run_mode(s) # "PhoneHub"
    THEN "CoreValidator" ELSE "EdgeMiner"

(* Does it pass on what it hears?                                           *)
gossip_out(s) ==
    CASE s.program = "node" -> decide_node_run_mode(s) # "Viewer"
      [] s.program = "miner" -> TRUE
      [] OTHER -> FALSE

-----------------------------------------------------------------------------
(* Whom it dials.                                                           *)

(* Whom the thread of a phone that dials hubs dials, in turn.               *)
hub_dials(s) ==
    SelectSeq(resolve_phone_bootstrap(s).addrs,
              LAMBDA p : ~is_self_hub_target(p, Listening(s)[1], "none", s.lan))

(* Whom a node follows, with a thread for each.  A public hub does not fall *)
(* back on the address that is its own.                                     *)
followed(s) ==
    SelectSeq(resolve_bootstrap_from(s, decide_node_run_mode(s) # "PublicHub").addrs,
              LAMBDA p : ~is_self_hub_target(p, s.port, s.public_ip, s.lan))

(* A program that cannot listen, or cannot read its configuration, exits.   *)
Starts(s) ==
    /\ Listening(s) # <<>>
    /\ CASE s.program = "phone" -> resolve_phone_bootstrap(s).ok
         [] s.program = "node" -> resolve_bootstrap_from(s, TRUE).ok
         [] OTHER -> TRUE

beacon_port(p2p_port) == IF p2p_port < LAST_PORT THEN p2p_port + 1 ELSE LAST_PORT

(* Only phones send and hear beacons.  One is sent to the sender's own      *)
(* beacon port, so a phone that moved to another port is not heard by those *)
(* that did not.                                                            *)
hears_beacon(s, sender) ==
    /\ \A phone \in {s, sender} : phone.program = "phone" /\ ~phone.no_discovery
    /\ beacon_port(Listening(sender)[1]) = beacon_port(Listening(s)[1])
=============================================================================
