--------------------------- MODULE ImageDecision ---------------------------
(***************************************************************************)
(* One decision of ImageCheck over every input that departs from a good    *)
(* update in at most MaxWrong points, against the host's own reference     *)
(* (tools/image_header2.py), and the rules the order of the steps is for.  *)
(***************************************************************************)
EXTENDS ImageCheck, FiniteSets, FiniteSetsExt

CONSTANT MaxWrong    \* points of an input that may be wrong at once

VARIABLES input, verdict
vars == <<input, verdict>>

\* The points of an update that can be wrong.
Points == {"bytes", "signatureChunks", "headerChunks", "crc", "magic", "format", "zeros",
           "key", "signature", "headerSize", "headerCrc", "hw", "link", "sp", "reset",
           "thumb", "outside", "ram", "declared", "counter"}

\* What is installed on the board, and the token that came.
InstalledVersions == {<<>>, <<1, 2, 2>>, <<1, 2, 3>>, <<1, 2, 4>>, <<0, 9, 9>>}
Tokens == {"none", "good", "session", "versions", "image", "short"}

\* A good update, changed at the points of wrong.
Input(wrong, installed, token) ==
    LET Or(point, bad, good) == IF point \in wrong THEN bad ELSE good
        reset  == IF "outside" \in wrong THEN 141 ELSE Or("thumb", 102, 103)
        sp     == Or("ram", 900, 500)
        header == [magic |-> "magic" \notin wrong, format |-> Or("format", 1, 2),
                   zeros |-> "zeros" \notin wrong, hw |-> Or("hw", 8, 7),
                   version |-> <<1, 2, 3>>, size |-> Or("headerSize", 11, 10),
                   link |-> Or("link", 96, 100), sp |-> Or("sp", 501, sp),
                   reset |-> Or("reset", 105, reset), crc |-> Or("headerCrc", 4, 5),
                   counter |-> Or("counter", 2, 3), key |-> Or("key", "k9", "k1")]
        digest == <<header, "image">>
        tokenFor(nonce, from, data) ==
            [key |-> header.key, over |-> DowngradeMessage(nonce, from, header.version, data)]
    IN [bytes |-> Or("bytes", 9, 10), total |-> 10,
        signatureChunks |-> Or("signatureChunks", Chunks - 1, Chunks),
        headerChunks |-> Or("headerChunks", Chunks - 1, Chunks),
        tokenChunks |-> CASE token = "none" -> 0 [] token = "short" -> Chunks - 1 [] OTHER -> Chunks,
        declaredCrc |-> Or("crc", 6, 5), actualCrc |-> 5,
        declaredVersion |-> Or("declared", <<1, 1>>, <<1, 2>>),
        header |-> header, digest |-> digest,
        signature |-> [key |-> header.key,
                       over |-> ImageMessage2(Or("signature", <<header, "other">>, digest))],
        token |-> CASE token = "session"  -> tokenFor("n0", installed, digest)
                    [] token = "versions" -> tokenFor("n1", <<9, 9, 9>>, digest)
                    [] token = "image"    -> tokenFor("n1", installed, <<header, "other">>)
                    [] OTHER              -> tokenFor("n1", installed, digest),
        nonce |-> "n1", installed |-> installed, floor |-> 3, keys |-> {"k1", "k2"},
        expect |-> [hw |-> 7, link |-> 100, size |-> 0, crc |-> 0,
                    sp |-> sp, reset |-> reset, ram |-> <<400, 800>>]]

Inputs == {Input(wrong, installed, token) :
             wrong \in UNION {kSubset(k, Points) : k \in 0..MaxWrong},
             installed \in InstalledVersions, token \in Tokens}

Init == input \in Inputs /\ verdict = "none"

Decide == /\ verdict = "none"
          /\ verdict' = Decide2(input)
          /\ UNCHANGED input

Next == Decide
Spec == Init /\ [][Next]_vars

-----------------------------------------------------------------------------
\* The host's reference decision (decide2): what it says of the same update.
HostDecide2(in) ==
    LET h == in.header IN
    FirstFailure(<< <<Parse2(h) = "ok", "bad_header">>,
                    <<in.bytes = h.size /\ in.signatureChunks = Chunks, "size_mismatch">>,
                    <<h.key \in in.keys, "unknown_key">>,
                    <<Verify(ImageMessage2(in.digest), in.signature, h.key), "bad_signature">>,
                    <<in.actualCrc = h.crc, "bad_crc">>,
                    <<h.hw = in.expect.hw, "hardware_mismatch">>,
                    <<h.link = in.expect.link, "link_mismatch">>,
                    <<h.sp = in.expect.sp /\ h.reset = in.expect.reset /\ h.reset % 2 = 1, "bad_vectors">>,
                    <<h.counter >= in.floor, "rollback_counter">>,
                    <<\/ in.installed = <<>>
                      \/ VersionCompare(h.version, in.installed) > 0
                      \/ /\ VersionCompare(h.version, in.installed) < 0
                         /\ in.tokenChunks = Chunks
                         /\ Verify(DowngradeMessage(in.nonce, in.installed, h.version, in.digest), in.token, h.key),
                      "rollback_version">> >>)

\* The image was signed for what arrived by a key the board trusts.
Signed(in) == /\ in.header.key \in in.keys
              /\ in.signature = [key |-> in.header.key, over |-> ImageMessage2(in.digest)]

\* INVARIANT: what a board installs, the host's reference decision accepts:
\* no point the host checks is missing from the C code, and none is weaker.
HostAcceptsWhatTheBoardInstalls == verdict = "ok" => HostDecide2(input) = "ok"

\* INVARIANT: nothing the header says is believed before the signature over it
\* holds: a verdict about the hardware, the counter or the version is only ever
\* given on a header signed by a trusted key (update_verify.h, the order).
OnlyASignedHeaderIsJudged ==
    verdict \in {"hardware_id", "counter", "rollback", "ok"} => Signed(input)

\* INVARIANT (violated): decide2 of the host says it is everything a bootloader
\* decides; the board also wants the reset vector inside the image and the
\* stack pointer inside its RAM, so it refuses images the host calls good.
BoardInstallsWhatTheHostAccepts ==
    verdict # "none" /\ HostDecide2(input) = "ok" /\ Complete(input)
      /\ input.declaredCrc = input.actualCrc
      /\ input.declaredVersion = SubSeq(input.header.version, 1, 2) => verdict = "ok"
=============================================================================
