---------------------------- MODULE MCHubAdmission ----------------------------
(***************************************************************************)
(* HubAdmission with more connections than slots.  The threads are         *)
(* interchangeable.                                                        *)
(***************************************************************************)
EXTENDS HubAdmission, TLC

CONSTANTS s1, s2, s3, s4

MCSymmetry == Permutations(Sessions)
=============================================================================
