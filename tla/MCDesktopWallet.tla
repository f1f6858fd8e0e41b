---------------------------- MODULE MCDesktopWallet ----------------------------
(***************************************************************************)
(* An instance of DesktopWallet for TLC: a first launch that finds a legacy*)
(* file, one with a stale key pair, one whose phrase was never confirmed or*)
(* one of a newer version; a user who pays what the account holds and more *)
(* than it holds.                                                          *)
(***************************************************************************)
EXTENDS DesktopWallet

CONSTANTS W, K1, K2, R, M, G   \* the old key, two new ones, the payee, the miner, genesis

MCFile(version, phrase, matches, backed_up) ==
    [version |-> version, key |-> W, phrase |-> phrase, matches |-> matches,
     nonce |-> 0, backed_up |-> backed_up]

MCInitialFiles ==
    {MCFile(1, FALSE, TRUE, FALSE),
     MCFile(2, TRUE, FALSE, TRUE),
     MCFile(2, TRUE, TRUE, FALSE),
     MCFile(3, TRUE, TRUE, FALSE)}

MCSymmetry == Permutations({K1, K2})

MCFaucet == [a \in {W, K1, K2, R, M, G} |->
                CASE a = W -> 6 [] a = M -> 2 [] OTHER -> 0]
=============================================================================
