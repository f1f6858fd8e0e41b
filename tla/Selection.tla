------------------------------- MODULE Selection -------------------------------
(***************************************************************************)
(* What a pass over a list keeps: the members of a set, in the order of    *)
(* the list; and what a sort of numbers makes of a set.  Written so that   *)
(* proofs can speak of them.                                               *)
(***************************************************************************)
EXTENDS Naturals, Sequences, FiniteSets

Selected(s, S) ==
    LET upto[n \in 0 .. Len(s)] ==
            IF n = 0 THEN <<>>
            ELSE IF s[n] \in S THEN Append(upto[n - 1], s[n]) ELSE upto[n - 1]
    IN  upto[Len(s)]

(* The members of a finite set of numbers, each once, from the least up.    *)
Ascending(S) ==
    CHOOSE s \in [1 .. Cardinality(S) -> S] : \A m, n \in DOMAIN s : m < n => s[m] < s[n]
=============================================================================
