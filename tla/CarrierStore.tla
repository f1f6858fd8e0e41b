----------------------------- MODULE CarrierStore -----------------------------
(***************************************************************************)
(* What a relay phone promises about the vertices it is handed: it passes  *)
(* them on in the order it got them, each once; it loses some only when    *)
(* more than Cap of them wait, and then the oldest, down to Cap.           *)
(***************************************************************************)
EXTENDS Naturals, Sequences

CONSTANT Cap   \* a positive number

VARIABLES
    waiting,    \* handed over and not yet passed on, oldest first
    delivered   \* passed on, in that order

vars == <<waiting, delivered>>

Newest(s) == IF Len(s) <= Cap THEN s ELSE SubSeq(s, Len(s) - Cap + 1, Len(s))

Init == waiting = <<>> /\ delivered = <<>>

(* One more vertex, behind the others.                                      *)
Take ==
    /\ Len(waiting') = Len(waiting) + 1
    /\ waiting = SubSeq(waiting', 1, Len(waiting))
    /\ UNCHANGED delivered

Lose ==
    /\ waiting' = Newest(waiting)
    /\ UNCHANGED delivered

PassOn ==
    /\ delivered' = delivered \o Newest(waiting)
    /\ waiting' = <<>>

Next == Take \/ Lose \/ PassOn

Spec == Init /\ [][Next]_vars
=============================================================================
