----------------------------- MODULE ImageCheck -----------------------------
(***************************************************************************)
(* The decision at the end of an update: may the image that has arrived in *)
(* the backup slot be installed?  The three bootloaders carry the same two *)
(* headers, image_header.h and update_verify.h; this is what they compute. *)
(*                                                                         *)
(* A digest is the data it is made from, a signature is the record of the  *)
(* key and the data it was made over: a signature is valid exactly when it *)
(* is that record, so nothing but the holder of the key makes one.         *)
(***************************************************************************)
EXTENDS Integers, Sequences

CONSTANTS
    Chunks,       \* frames of a complete signature, header or token (8)
    NoKey         \* the key of no entry of the trust table

ChunksAssumption == Chunks \in Nat \ {0}

-----------------------------------------------------------------------------

\* A version is <<major, minor, patch>>: one number, the patch included.
VersionCompare(a, b) ==
    IF a = b THEN 0
    ELSE LET i == CHOOSE i \in 1..3 : /\ a[i] # b[i]
                                      /\ \A j \in 1..(i - 1) : a[j] = b[j]
         IN IF a[i] < b[i] THEN -1 ELSE 1

\* Reading the 64 bytes: refused when they are not ours, are of another
\* format, or have anything set where zeros belong.
Parse2(raw) == IF raw.magic /\ raw.format = 2 /\ raw.zeros THEN "ok" ELSE "unreadable"

\* The first step of a list <<holds, name>> that fails, "ok" when none does.
FirstFailure(steps) ==
    IF \A i \in DOMAIN steps : steps[i][1] THEN "ok"
    ELSE LET i == CHOOSE i \in DOMAIN steps : /\ ~steps[i][1]
                                              /\ \A j \in 1..(i - 1) : steps[j][1]
         IN steps[i][2]

\* What the header says that the board can check for itself, in order: e is
\* what the board knows (its hardware, its link address, its RAM) and what it
\* computed over the bytes received (size, CRC, the first two words).
HeaderCheck(h, e) ==
    LET reset == h.reset - (h.reset % 2)
    IN FirstFailure(<< <<h.size = e.size, "size">>,
                       <<h.crc = e.crc, "crc">>,
                       <<h.hw = e.hw, "wrong_hardware">>,
                       <<h.link = e.link, "link">>,
                       <<h.sp = e.sp /\ h.reset = e.reset, "vectors">>,
                       <<h.reset % 2 = 1, "not_thumb">>,
                       <<reset >= h.link /\ reset - h.link < h.size, "outside_image">>,
                       <<h.sp >= e.ram[1] /\ h.sp <= e.ram[2], "sp_outside_ram">> >>)

\* The anti-rollback rule.  installed is <<>> when nothing valid is installed;
\* an older image needs the token, the same version never passes.
CheckRollback(h, installed, authorized) ==
    \/ installed = <<>>
    \/ VersionCompare(h.version, installed) > 0
    \/ VersionCompare(h.version, installed) < 0 /\ authorized

\* Mutant: a token is good for any session.
DowngradeMessageOfAnySession(nonce, installed, target, digest) ==
    <<"downgrade", installed, target, digest>>

\* What the signature of an image and a downgrade token are made over.
ImageMessage2(digest) == <<"image-sig/2", digest>>
DowngradeMessage(nonce, installed, target, digest) ==
    <<"downgrade", nonce, installed, target, digest>>

\* Mutant: a signature of any key will do.
VerifyAnyKey(message, signature, key) == signature.over = message

\* Ed25519 under one key.
Verify(message, signature, key) == signature = [key |-> key, over |-> message]

\* Mutant: the key is taken from the header, in the table or not.
KeyOfTheHeader(keys, h) == h.key

\* The key of the trust table (without the revoked ones) the header names.
KeyNamed(keys, h) == IF h.key \in keys THEN h.key ELSE NoKey

\* The token of this session allows this downgrade of this image.
DowngradeAuthorized(in, h, key) ==
    /\ in.installed # <<>>
    /\ in.tokenChunks = Chunks
    /\ Verify(DowngradeMessage(in.nonce, in.installed, h.version, in.digest), in.token, key)

\* Everything arrived.
Complete(in) == /\ in.bytes = in.total
                /\ in.signatureChunks = Chunks
                /\ in.headerChunks = Chunks

\* The first step that fails is the answer.
Decide2(in) ==
    LET h      == in.header
        key    == KeyNamed(in.keys, h)
        status == HeaderCheck(h, [in.expect EXCEPT !.size = in.total, !.crc = in.actualCrc])
    IN FirstFailure(<< <<Complete(in), "incomplete">>,
                       <<in.actualCrc = in.declaredCrc, "crc32">>,
                       <<Parse2(h) = "ok", "header">>,
                       <<key # NoKey, "unknown_key">>,
                       <<Verify(ImageMessage2(in.digest), in.signature, key), "signature">>,
                       <<status # "wrong_hardware", "hardware_id">>,
                       <<status = "ok", "header">>,
                       <<in.declaredVersion = <<h.version[1], h.version[2]>>, "header">>,
                       <<h.counter >= in.floor, "counter">>,
                       <<CheckRollback(h, in.installed, DowngradeAuthorized(in, h, key)), "rollback">> >>)

\* What the host is told.
VerifyFailReasonOf(verdict) ==
    CASE verdict \in {"incomplete", "crc32", "signature", "hardware_id", "rollback"} -> verdict
      [] verdict = "unknown_key" -> "signature"
      [] verdict = "counter"     -> "rollback"
      [] OTHER                   -> "header"
=============================================================================
