------------------------------- MODULE WalletFile -------------------------------
(***************************************************************************)
(* The file the desktop wallet keeps its key in, and what the program makes *)
(* of the file it finds.  A file is a record                               *)
(*   [version, key, phrase, matches, nonce, backed_up]                     *)
(* where phrase says that the entropy of a recovery phrase is stored, and  *)
(* matches that the stored key pair is the one derived from it.  A file of *)
(* version 1 holds a raw key and no phrase.                                *)
(***************************************************************************)
EXTENDS Integers

CONSTANT NoFile   \* there is no wallet.json

WALLET_VERSION == 2

(* The fields of a file, whatever their values.                             *)
IsFile(f) ==
    f = [version |-> f.version, key |-> f.key, phrase |-> f.phrase,
         matches |-> f.matches, nonce |-> f.nonce, backed_up |-> f.backed_up]

(* What save_at writes: to a temporary file first, then renamed over the    *)
(* old one, so that a reader meets the old file or the new one.             *)
save_at(w) ==
    [version |-> WALLET_VERSION, key |-> w.key, phrase |-> TRUE, matches |-> TRUE,
     nonce |-> w.nonce, backed_up |-> w.backed_up]

load_v2_at(file, readable) ==
    IF ~readable THEN "Io"
    ELSE IF file.version # WALLET_VERSION THEN "UnsupportedVersion"
    ELSE IF ~file.phrase THEN "MissingEntropy"
    ELSE "Ok"

looks_like_legacy(file, readable) ==
    readable /\ (file.version = 1 \/ ~file.phrase)

(* A plausible fault of load_or_create_at: the archive is forgotten.        *)
create_over_legacy(file, readable) ==
    IF file = NoFile THEN "creating"
    ELSE IF load_v2_at(file, readable) = "Ok" THEN "open"
    ELSE IF looks_like_legacy(file, readable) THEN "creating"
    ELSE "failed"

(* What the launch does next with the file it finds.                        *)
load_or_create_at(file, readable) ==
    IF file = NoFile THEN "creating"
    ELSE IF load_v2_at(file, readable) = "Ok" THEN "open"
    ELSE IF looks_like_legacy(file, readable) THEN "archiving"
    ELSE "failed"

(* A plausible fault of from_loaded: only a wallet this very launch created *)
(* has to be backed up.                                                     *)
from_loaded_once(file, created) ==
    [key |-> file.key, nonce |-> file.nonce, detached |-> FALSE,
     backed_up |-> file.backed_up,
     screen |-> IF created THEN "SavePhrase" ELSE "Wallet"]

(* The wallet of a file that loaded or was just created: until its phrase   *)
(* is confirmed it opens on the backup screens.                             *)
from_loaded(file, created) ==
    [key |-> file.key, nonce |-> file.nonce, detached |-> FALSE,
     backed_up |-> file.backed_up,
     screen |-> IF file.backed_up THEN "Wallet" ELSE "SavePhrase"]

(* The wallet of a launch that failed: a fresh key, in memory only.         *)
detached_wallet(key) ==
    [key |-> key, nonce |-> 0, detached |-> TRUE, backed_up |-> FALSE,
     screen |-> "SavePhrase"]
=============================================================================
