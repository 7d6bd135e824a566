------------------------- MODULE UpdateCore_proofs -------------------------
(***************************************************************************)
(* An update of any length, cut and failing anywhere, for every table of   *)
(* releases, every geometry of the flash and whatever the host sends.      *)
(*                                                                         *)
(* The invariant has a part for each stage.  Verdict says what is known    *)
(* between the verdict and the record it is written into; Progress how far *)
(* the copy is; OfSession that the copy is of the release this session     *)
(* brought.  On top of it come the three arguments: SafeInv, where the log *)
(* survives a cut, that the record always describes a release of ours;     *)
(* QuietInv, where no flash operation fails, that one of the two slots     *)
(* always holds a whole one; HardwareInv, where no START is refused, that  *)
(* the session is for this hardware.                                       *)
(***************************************************************************)
EXTENDS UpdateProperties, TLAPS

Assumptions == CoreAssumption /\ ChunksAssumption /\ ReleaseAssumption

Copying == {"copyErase", "copy", "done"}
Outside == {"window", "erase"}

\* The types, and which job carries which flag.
Shape ==
    /\ TypeOK
    /\ job.valid => job.pc \in Outside
    /\ job.pc = "erase" => job.from \in {"window", "idle"} /\ (job.valid => job.from = "window")
    /\ job.pc = "pend" => job.from = "end"

\* What a verdict of "ok" leaves behind until the record is written.
Verdict ==
    job.pc = "pend" => \E r \in Names :
        /\ SignedHere(r)
        /\ s.total = Releases[r].size
        /\ Content(backup, s.total) = Image(r)
        /\ s.header = ChunksOf(r)
        /\ ReceivedHeader = HeaderOf(r)
        /\ Releases[r].counter >= meta.counter
        /\ \/ Installed = <<>>
           \/ VersionCompare(Releases[r].version, Installed) > 0
           \/ \E t \in Tokens : t[2] = s.nonce /\ Releases[t[1]].version = Releases[r].version

\* How far a copy is: its record is pending until the last page is there.
Progress ==
    /\ job.pc \in Copying => meta.state = "pending"
    /\ meta # NoMeta => meta.state \in {"pending", "valid"} /\ meta.size \in 1..Slot
    /\ job.pc = "copy" =>
         \A i \in 1..meta.size : i <= job.page * Page => main[i] = backup[i]
    /\ job.pc = "done" => \A i \in 1..meta.size : main[i] = backup[i]

\* A copy that END_UPDATE began is of the release this session brought.
OfSession ==
    job.pc \in Copying /\ job.from = "end" => \E r \in Names :
        /\ meta.image = Image(r) /\ meta.size = Releases[r].size /\ meta.version = Releases[r].version
        /\ meta.hw = s.hw /\ s.header = ChunksOf(r)
        /\ Content(backup, meta.size) = Image(r)

CoreInv == Shape /\ Verdict /\ Progress /\ OfSession

\* The steps of UpdateCore, and those of its callers, whose hosts may send any unit of any
\* image as the next one.
AnyData == \E r \in Names : \E i \in DOMAIN Image(r) : HandleData(<<r, i>>)
Step == Next \/ AnyData

-----------------------------------------------------------------------------
(* Operators.                                                               *)

LEMMA UnitsAre ==
  /\ \A r \in Names : \A i \in 1..Releases[r].size : <<r, i>> \in Units
  /\ Blank \in Units /\ Torn \in Units
BY DEF Units

\* A page that is set leaves a region of units what it was.
LEMMA SetPageIs ==
  ASSUME NEW S, NEW n \in Nat, NEW x \in [1..n -> S], NEW p, NEW f,
         \A i \in 1..n : i \in PageUnits(p) => f[i] \in S
  PROVE  SetPage(x, p, f) \in [1..n -> S]
BY DEF SetPage

LEMMA WholeIs ==
  ASSUME CoreAssumption, NEW unit, NEW i \in 1..(Slot + Page)
  PROVE  Whole(unit)[i] = unit
BY DEF Whole

\* What a cut or a failure leaves of a page is units too.
LEMMA AfterIs ==
  ASSUME CoreAssumption, NEW n \in Nat, n <= Slot + Page, NEW x \in [1..n -> Units], NEW p,
         NEW y \in After(x, p)
  PROVE  y \in [1..n -> Units]
<1>1. PICK unit \in {Torn, Blank} : y = x \/ y = SetPage(x, p, Whole(unit)) BY DEF After
<1>2. \A i \in 1..n : Whole(unit)[i] \in Units BY <1>1, WholeIs, UnitsAre DEF CoreAssumption
<1>3. CASE y = x BY <1>3
<1>4. CASE y = SetPage(x, p, Whole(unit))
  <2>1. SetPage(x, p, Whole(unit)) \in [1..n -> Units]
    BY <1>2, SetPageIs
  <2> QED BY <1>4, <2>1
<1> QED BY <1>1, <1>3, <1>4

LEMMA ContentIs ==
  ASSUME NEW S, NEW n \in Nat, NEW x \in [1..n -> S], NEW k \in 0..n
  PROVE  Content(x, k) \in Seq(S)
BY DEF Content

LEMMA JobsAre ==
  ASSUME CoreAssumption, NEW pc \in Pcs
  PROVE  /\ Doing(pc) \in Jobs /\ Doing(pc).pc = pc /\ ~Doing(pc).valid
         /\ Doing(pc).page = 0 /\ Doing(pc).from = "idle"
BY DEF Doing, Jobs, CoreAssumption, Names

LEMMA WindowIs ==
  ASSUME CoreAssumption, NEW v \in BOOLEAN
  PROVE  Window(v) \in Jobs /\ Window(v).pc = "window" /\ Window(v).valid = v
BY DEF Doing, Window, Jobs, CoreAssumption, Names, Pcs

LEMMA AtIs ==
  ASSUME job \in Jobs, NEW pc \in Pcs
  PROVE  /\ At(pc) \in Jobs /\ At(pc).pc = pc /\ At(pc).page = 0 /\ At(pc).from = job.from
         /\ At(pc).end = job.end /\ At(pc).valid = job.valid
BY DEF At, Jobs

LEMMA FirstIs == FirstOfCopy \in {"copyErase", "copy"}
BY DEF FirstOfCopy

LEMMA MayPassIs == \A unit : MayPass(unit) \subseteq BOOLEAN
BY DEF MayPass

LEMMA NoMetaIs == CoreAssumption => NoMeta \in Records
BY DEF CoreAssumption, NoMeta, Records, Hardware

LEMMA SessionIs == CoreAssumption => NoSession \in Sessions
BY DEF NoSession, Sessions, Sizes, Hardware

\* The pages counted by rounding up hold everything.
LEMMA LastPage ==
  ASSUME NEW P \in Nat \ {0}, NEW n \in Nat, NEW q \in Nat, q >= (n + P - 1) \div P
  PROVE  q * P >= n
OBVIOUS

\* No version is older than the one of a board without a record, nor than itself.
LEMMA CompareIs ==
  ASSUME NEW a \in [1..3 -> Nat]
  PROVE  ~(VersionCompare(a, <<0, 0, 0>>) < 0) /\ ~(VersionCompare(a, a) < 0)
<1>1. VersionCompare(a, a) = 0 BY DEF VersionCompare
<1> DEFINE z == <<0, 0, 0>>
           Differs(i) == a[i] # z[i] /\ \A j \in 1..(i - 1) : a[j] = z[j]
<1>2. CASE a # z
  <2>1. \E i \in 1..3 : a[i] # z[i]
    <3>1. z \in [1..3 -> Nat] OBVIOUS
    <3> QED BY <1>2, <3>1
  <2>2. Differs(1) \/ Differs(2) \/ Differs(3) BY <2>1
  <2>3. \E i \in 1..3 : Differs(i) BY <2>2
  <2> DEFINE k == CHOOSE i \in 1..3 : Differs(i)
  <2>4. k \in 1..3 /\ a[k] # z[k] BY <2>3
  <2>5. VersionCompare(a, z) = IF a[k] < z[k] THEN -1 ELSE 1 BY <1>2 DEF VersionCompare
  <2>6. a[k] \in Nat /\ z[k] = 0
    <3> HIDE DEF k
    <3>1. a[k] \in Nat BY <2>4
    <3>2. z[1] = 0 /\ z[2] = 0 /\ z[3] = 0 OBVIOUS
    <3>3. k = 1 \/ k = 2 \/ k = 3 BY <2>4
    <3> HIDE DEF z
    <3>4. z[k] = 0 BY <3>2, <3>3
    <3> QED BY <3>1, <3>4
  <2> HIDE DEF k
  <2> QED BY <1>1, <2>5, <2>6
<1>3. CASE a = z BY <1>1, <1>3
<1> QED BY <1>2, <1>3

-----------------------------------------------------------------------------
(* The verdict.                                                             *)

\* A list of steps that ends in "ok" has no step that fails.
LEMMA TenSteps ==
  ASSUME NEW a, NEW b,NEW c, NEW d, NEW e, NEW f, NEW g, NEW h, NEW k, NEW l,
 FirstFailure(<< <<a, "incomplete">>, <<b, "crc32">>, <<c, "header">>, <<d, "unknown_key">>,
     <<e, "signature">>,<<f, "hardware_id">>,<<g, "header">>, <<h, "header">>, <<k, "counter">>, <<l, "rollback">> >>) = "ok"
   PROVE a /\ b /\ c /\ d /\ e /\ f /\ g /\ h /\ k /\ l
BY SMTT(60) DEF FirstFailure

LEMMA EightSteps == ASSUME NEW a, NEW b,NEW c, NEW d, NEW e, NEW f, NEW g, NEW h,
 FirstFailure(<< <<a, "size">>, <<b, "crc">>, <<c, "wrong_hardware">>, <<d, "link">>,
   <<e, "vectors">>,<<f, "not_thumb">>,<<g, "outside_image">>, <<h, "sp_outside_ram">> >>) = "ok"
   PROVE a /\ b /\ c /\ d /\ e /\ f /\ g /\ h
BY SMTT(60) DEF FirstFailure

\* What an "ok" says of the input.
LEMMA DecisionOk ==
 ASSUME NEW in, Decide2(in) = "ok"
 PROVE /\ Complete(in) /\ in.actualCrc = in.declaredCrc
       /\ KeyNamed(in.keys, in.header) # NoKey
       /\ Verify(ImageMessage2(in.digest), in.signature, KeyNamed(in.keys, in.header))
       /\ HeaderCheck(in.header, [in.expect EXCEPT !.size = in.total, !.crc = in.actualCrc]) = "ok"
       /\ in.header.counter >= in.floor
       /\ CheckRollback(in.header, in.installed, DowngradeAuthorized(in, in.header, KeyNamed(in.keys, in.header)))
<1> DEFINE 
         h      == in.header
        key    == KeyNamed(in.keys, h)
        status == HeaderCheck(h, [in.expect EXCEPT !.size = in.total, !.crc = in.actualCrc])
    s1 == Complete(in)
    s2 == in.actualCrc = in.declaredCrc
    s3 == Parse2(h) = "ok"
    s4 == key # NoKey
    s5 == Verify(ImageMessage2(in.digest), in.signature, key)
    s6 == status # "wrong_hardware"
    s7 == status = "ok"
    s8 == in.declaredVersion = <<h.version[1], h.version[2]>>
    s9 == h.counter >= in.floor
    s10 == CheckRollback(h, in.installed, DowngradeAuthorized(in, h, key)) 
<1>1. FirstFailure(<< <<s1, "incomplete">>, <<s2, "crc32">>, <<s3, "header">>, <<s4, "unknown_key">>, <<s5, "signature">>, <<s6, "hardware_id">>,
                       <<s7, "header">>, <<s8, "header">>, <<s9, "counter">>, <<s10, "rollback">> >>) = "ok"
  BY Zenon DEF Decide2
<1>2. s1 /\ s2 /\ s4 /\ s5 /\ s7 /\ s9 /\ s10
  <2> HIDE DEF s1, s2, s3, s4, s5, s6, s7, s8, s9, s10
  <2> QED BY <1>1, TenSteps
<1> QED BY <1>2

LEMMA HeaderOk ==
  ASSUME NEW h, NEW e, HeaderCheck(h, e) = "ok"
  PROVE  h.size = e.size /\ h.crc = e.crc /\ h.hw = e.hw
<1> DEFINE reset == h.reset - (h.reset % 2)
           s1 == h.size = e.size
           s2 == h.crc = e.crc
           s3 == h.hw = e.hw
           s4 == h.link = e.link
           s5 == h.sp = e.sp /\ h.reset = e.reset
           s6 == h.reset % 2 = 1
           s7 == reset >= h.link /\ reset - h.link < h.size
           s8 == h.sp >= e.ram[1] /\ h.sp <= e.ram[2]
<1>1. FirstFailure(<< <<s1, "size">>, <<s2, "crc">>, <<s3, "wrong_hardware">>, <<s4, "link">>, <<s5, "vectors">>,
                      <<s6, "not_thumb">>, <<s7, "outside_image">>, <<s8, "sp_outside_ram">> >>) = "ok"
  BY Zenon DEF HeaderCheck
<1>2. s1 /\ s2 /\ s3
  <2> HIDE DEF s1, s2, s3, s4, s5, s6, s7, s8
  <2> QED BY <1>1, EightSteps
<1> QED BY <1>2

\* What the verdict is made from.
LEMMA InputIs ==
  LET in == VerifyInput IN
  /\ in.bytes = Len(s.received) /\ in.total = s.total
  /\ in.signatureChunks = Len(s.signature) /\ in.headerChunks = Len(s.header)
  /\ in.declaredCrc = Image(job.end) /\ in.actualCrc = s.received
  /\ in.header = ReceivedHeader /\ in.signature = ReceivedSignature /\ in.token = ReceivedToken
  /\ in.nonce = s.nonce /\ in.installed = Installed /\ in.keys = {"k1"}
  /\ in.floor = Larger(MinCounter, meta.counter)
  /\ in.expect.hw = ThisHw
  /\ Complete(in) => in.digest = Digest(ReceivedHeader, Content(backup, s.total))
BY DEF VerifyInput, Complete

\* What the header is compared with.
LEMMA ExpectIs ==
  LET e == [VerifyInput.expect EXCEPT !.size = VerifyInput.total, !.crc = VerifyInput.actualCrc] IN
  e.size = s.total /\ e.crc = s.received /\ e.hw = ThisHw
BY DEF VerifyInput

\* Only a signed release has a signature that verifies.
LEMMA SignatureIs ==
  ASSUME CoreAssumption, NEW message, Verify(message, ReceivedSignature, "k1")
  PROVE  \E r \in Names : Releases[r].signed /\ message = ImageMessage2(Digest(HeaderOf(r), Image(r)))
<1>1. ReceivedSignature.key = "k1" /\ ReceivedSignature.over = message
  BY DEF Verify
<1>2. \E r \in Names : s.signature = ChunksOf(r)
  BY <1>1 DEF ReceivedSignature
<1> DEFINE k == CHOOSE r \in Names : s.signature = ChunksOf(r)
<1>3. k \in Names BY <1>2
<1>4. ReceivedSignature = SignatureOf(k)
  BY <1>2 DEF ReceivedSignature
<1> HIDE DEF k
<1> QED BY <1>1, <1>3, <1>4 DEF SignatureOf

\* The image in the header tells two releases apart.
LEMMA HeadersDiffer ==
  ASSUME CoreAssumption, NEW r \in Names, NEW q \in Names, HeaderOf(r) = HeaderOf(q)
  PROVE  r = q
<1>1. Image(r) = Image(q)
  <2>1. HeaderOf(r).crc = Image(r) /\ HeaderOf(q).crc = Image(q) BY DEF HeaderOf
  <2> QED BY <2>1
<1>2. Image(r)[1] = <<r, 1>> /\ Image(q)[1] = <<q, 1>>
  BY DEF Image, CoreAssumption, Names
<1> QED BY <1>1, <1>2

\* A header that came in other chunks is no header of a release.
LEMMA HeaderChunksAre ==
  ASSUME CoreAssumption, ChunksAssumption, Shape, Len(s.header) = Chunks, NEW r \in Names,
         ReceivedHeader = HeaderOf(r)
  PROVE  s.header = ChunksOf(r)
<1>1. CASE \E q \in Names : s.header = ChunksOf(q)
  <2> DEFINE k == CHOOSE q \in Names : s.header = ChunksOf(q)
  <2>1. k \in Names /\ s.header = ChunksOf(k) BY <1>1
  <2>2. ReceivedHeader = HeaderOf(k) BY <1>1 DEF ReceivedHeader
  <2> HIDE DEF k
  <2> QED BY <2>1, <2>2, HeadersDiffer
<1>2. CASE ~\E q \in Names : s.header = ChunksOf(q)
  <2>1. ReceivedHeader = [HeaderOf(Factory) EXCEPT !.crc = s.header] BY <1>2 DEF ReceivedHeader
  <2>2. s.header = Image(r) BY <2>1 DEF HeaderOf
  <2>3. s.header \in Seq(Pieces) /\ Chunks \in Nat /\ Releases[r].size \in Nat
    BY DEF Shape, TypeOK, Sessions, ChunksAssumption, CoreAssumption, Names
  <2>4. DOMAIN s.header = 1..Chunks /\ DOMAIN s.header = 1..Releases[r].size
    BY <2>2, <2>3 DEF Image
  <2>5. s.header = [i \in 1..Chunks |-> <<r, i>>]
    BY <2>2, <2>4 DEF Image
  <2> QED BY <2>5 DEF ChunksOf
<1> QED BY <1>1, <1>2

\* A token that authorises was made in this session for this version.
LEMMA TokenIs ==
  ASSUME CoreAssumption, NEW version, NEW digest,
         Verify(DowngradeMessage(s.nonce, Installed, version, digest), ReceivedToken, "k1")
  PROVE  \E t \in Tokens : t[2] = s.nonce /\ Releases[t[1]].version = version
<1>1. ReceivedToken.key = "k1" /\ ReceivedToken.over = DowngradeMessage(s.nonce, Installed, version, digest)
  BY DEF Verify
<1>2. \E t \in Tokens : s.token = [i \in 1..Chunks |-> <<t, i>>]
  BY <1>1 DEF ReceivedToken
<1> DEFINE k == CHOOSE t \in Tokens : s.token = [i \in 1..Chunks |-> <<t, i>>]
<1>3. k \in Tokens BY <1>2
<1>4. ReceivedToken = TokenOf(k[1], k[2])
  BY <1>2 DEF ReceivedToken
<1> HIDE DEF k
<1>5. /\ ReceivedToken.over[2] = k[2] /\ ReceivedToken.over[4] = Releases[k[1]].version
      /\ ReceivedToken.over[2] = s.nonce /\ ReceivedToken.over[4] = version
  BY <1>1, <1>4 DEF TokenOf, DowngradeMessage
<1> QED BY <1>3, <1>5

-----------------------------------------------------------------------------
(* Types.                                                                   *)

\* An update that is given up is back in the loop.
LEMMA GiveUpIs ==
  ASSUME CoreAssumption, Shape, NEW told, GiveUp(told)
  PROVE  /\ s' \in Sessions /\ job' \in Jobs /\ job'.pc = "idle" /\ ~job'.valid
         /\ ~s'.inProgress /\ s'.hw = s.hw
<1>1. s' \in Sessions /\ ~s'.inProgress /\ s'.hw = s.hw
  BY DEF GiveUp, Shape, TypeOK, Sessions
<1> QED BY <1>1, JobsAre DEF GiveUp, Pcs

\* An operation of the copy that fails leaves the bootloader in one of its loops.
LEMMA CopyGivesUpIs ==
  ASSUME CoreAssumption, Shape, CopyGivesUp
  PROVE  /\ s' \in Sessions /\ job' \in Jobs /\ job'.pc \in {"idle", "window"} /\ ~job'.valid
         /\ s'.hw = s.hw /\ (s'.inProgress => s.inProgress)
<1>1. CASE GiveUp(<<<<"error">>>>) BY <1>1, GiveUpIs
<1>2. CASE job' = Window(FALSE) /\ s' = s
  BY <1>2, WindowIs DEF Shape, TypeOK
<1> QED BY <1>1, <1>2 DEF CopyGivesUp

LEMMA ShapeOfStart ==
  ASSUME CoreAssumption, Shape, NEW start \in Starts, HandleStartUpdate(start[1], start[2])
  PROVE  Shape'
<1>1. s' \in Sessions
  BY DEF HandleStartUpdate, Shape, TypeOK, Sessions, Sizes, Hardware
<1>2. CASE UNCHANGED <<job, sessions>>
  BY <1>1, <1>2 DEF HandleStartUpdate, Shape, TypeOK, flash
<1>3. CASE sessions' = sessions + 1 /\ job' = [job EXCEPT !.pc = "erase", !.from = job.pc]
  <2>1. /\ job' \in Jobs /\ job'.pc = "erase" /\ job'.from \in {"window", "idle"}
        /\ job'.valid => job'.from = "window"
    BY <1>3 DEF HandleStartUpdate, Listening, Shape, TypeOK, Jobs, Pcs, Outside
  <2> QED BY <1>1, <1>3, <2>1 DEF HandleStartUpdate, Shape, TypeOK, flash, Outside
<1> QED BY <1>2, <1>3 DEF HandleStartUpdate

LEMMA ShapeOfErase ==
  ASSUME CoreAssumption, Shape, ErasePage PROVE Shape'
<1>1. backup' \in [1..(Slot + Page) -> Units]
  <2>1. backup' = SetPage(backup, job.page, Whole(Blank)) BY DEF ErasePage
  <2>2. \A i \in 1..(Slot + Page) : Whole(Blank)[i] \in Units BY WholeIs, UnitsAre
  <2>3. Slot + Page \in Nat BY DEF CoreAssumption
  <2> HIDE DEF CoreAssumption
  <2> QED BY <2>1, <2>2, <2>3, SetPageIs DEF Shape, TypeOK
<1>2. s' \in Sessions
  <2>1. OpenSession \in Sessions
    <3>1. NoSession \in Sessions BY DEF NoSession, Sessions, Sizes, Hardware
    <3> QED BY <3>1 DEF OpenSession, Sessions, Shape, TypeOK
  <2> QED BY <2>1 DEF Shape, TypeOK, ErasePage
<1>3. CASE job' = [job EXCEPT !.page = @ + 1]
  BY <1>1, <1>2, <1>3 DEF Shape, TypeOK, ErasePage, FlashWorks, bounds, Jobs
<1>4. CASE job' = Doing("idle")
  BY <1>1, <1>2, <1>4, JobsAre DEF Shape, TypeOK, ErasePage, FlashWorks, bounds, Pcs
<1> QED BY <1>3, <1>4 DEF ErasePage

LEMMA ShapeOfEraseFails ==
  ASSUME CoreAssumption, Shape, ErasePageFails
  PROVE  Shape'
<1>1. backup' \in [1..(Slot + Page) -> Units]
  <2>1. backup' \in After(backup, job.page) BY DEF ErasePageFails, After
  <2>2. Slot + Page \in Nat BY DEF CoreAssumption
  <2> QED BY <2>1, <2>2, AfterIs DEF Shape, TypeOK
<1>2. s' \in Sessions
  BY DEF ErasePageFails, Shape, TypeOK, Sessions
<1>3. job' \in Jobs /\ job'.pc \in {"window", "idle"} /\ (job'.valid => job'.pc = "window")
  <2>1. job.from \in Pcs /\ job \in Jobs /\ job.from \in {"window", "idle"} /\ (job.valid => job.from = "window")
    BY DEF ErasePageFails, Shape, TypeOK, Pcs
  <2> QED BY <2>1, AtIs DEF ErasePageFails, Jobs
<1> QED BY <1>1, <1>2, <1>3 DEF ErasePageFails, FlashFails, Shape, TypeOK, Outside, CoreAssumption

LEMMA ShapeOfChunks ==
  ASSUME CoreAssumption, Shape,
         \/ \E r \in Names, i \in 1..Chunks : HandleHmacChunk(<<r, i>>) \/ HandleImageHeaderChunk(<<r, i>>)
         \/ \E t \in Tokens, i \in 1..Chunks : HandleDowngradeTokenChunk(<<t, i>>)
  PROVE  Shape'
<1>1. s' \in Sessions
  <2> USE DEF Shape, TypeOK, Sessions
  <2>1. CASE \E r \in Names, i \in 1..Chunks : HandleHmacChunk(<<r, i>>)
    <3>1. PICK piece \in Pieces : s' = [s EXCEPT !.signature = Append(@, piece)]
      BY <2>1 DEF HandleHmacChunk, Pieces
    <3>2. Append(s.signature, piece) \in Seq(Pieces) OBVIOUS
    <3> QED BY <3>1, <3>2
  <2>2. CASE \E r \in Names, i \in 1..Chunks : HandleImageHeaderChunk(<<r, i>>)
    <3>1. PICK piece \in Pieces : s' = [s EXCEPT !.header = Append(@, piece)]
      BY <2>2 DEF HandleImageHeaderChunk, Pieces
    <3>2. Append(s.header, piece) \in Seq(Pieces) OBVIOUS
    <3> QED BY <3>1, <3>2
  <2>3. CASE \E t \in Tokens, i \in 1..Chunks : HandleDowngradeTokenChunk(<<t, i>>)
    <3>1. PICK piece \in TokenPieces : s' = [s EXCEPT !.token = Append(@, piece)]
      BY <2>3 DEF HandleDowngradeTokenChunk, TokenPieces
    <3>2. Append(s.token, piece) \in Seq(TokenPieces) OBVIOUS
    <3> QED BY <3>1, <3>2
  <2> QED BY <2>1, <2>2, <2>3
<1> QED BY <1>1 DEF HandleHmacChunk, HandleImageHeaderChunk, HandleDowngradeTokenChunk, Shape, TypeOK, flash, bounds

LEMMA ShapeOfData ==
  ASSUME CoreAssumption, Shape, NEW r \in Names, NEW i \in DOMAIN Image(r), HandleData(<<r, i>>)
  PROVE  Shape'
<1>1. s' \in Sessions
  <2>1. <<r, i>> \in Units BY UnitsAre DEF Image
  <2>2. Append(s.received, <<r, i>>) \in Seq(Units) BY <2>1 DEF Shape, TypeOK, Sessions
  <2> QED BY <2>2 DEF HandleData, Shape, TypeOK, Sessions
<1>2. job' = job \/ (job' = At("flush") /\ ~job.valid)
  BY DEF HandleData, Receiving, Shape, TypeOK, Outside
<1> QED BY <1>1, <1>2, AtIs DEF HandleData, Shape, TypeOK, flash, bounds, Pcs

LEMMA ShapeOfFlush ==
  ASSUME CoreAssumption, Shape, FlushPageBuffer
  PROVE  Shape'
<1>1. backup' \in [1..(Slot + Page) -> Units]
  <2>1. backup' = SetPage(backup, s.page, PageBuffer) BY DEF FlushPageBuffer
  <2>2. \A i \in PageUnits(s.page) : PageBuffer[i] \in Units
    BY UnitsAre DEF PageBuffer, Shape, TypeOK, Sessions
  <2>3. Slot + Page \in Nat BY DEF CoreAssumption
  <2> HIDE DEF CoreAssumption
  <2> QED BY <2>1, <2>2, <2>3, SetPageIs DEF Shape, TypeOK
<1>2. s' \in Sessions
  <2>1. s' = [s EXCEPT !.page = s.page + 1] BY DEF FlushPageBuffer
  <2>2. s.page + 1 \in Nat BY DEF Shape, TypeOK, Sessions
  <2> QED BY ONLY <2>1, <2>2, Shape DEF Shape, TypeOK, Sessions
<1>3. job' = Doing("idle") \/ (job' = At("verify") /\ ~job.valid)
  BY DEF FlushPageBuffer, Shape, TypeOK, Outside
<1> QED BY <1>1, <1>2, <1>3, AtIs, JobsAre DEF FlushPageBuffer, FlashWorks, Shape, TypeOK, bounds, Pcs

LEMMA ShapeOfFlushFails ==
  ASSUME CoreAssumption, Shape, FlushFails
  PROVE  Shape'
<1>1. backup' \in [1..(Slot + Page) -> Units]
  <2>1. backup' \in After(backup, s.page) BY DEF FlushFails, After
  <2>2. Slot + Page \in Nat BY DEF CoreAssumption
  <2> QED BY <2>1, <2>2, AfterIs DEF Shape, TypeOK
<1>2. faults' \in 0..MaxFaults /\ sessions' = sessions /\ cuts' = cuts
  BY DEF FlushFails, FlashFails, Shape, TypeOK, CoreAssumption, bounds
<1> QED BY <1>1, <1>2, GiveUpIs DEF FlushFails, Shape, TypeOK

LEMMA ShapeOfEnd ==
  ASSUME CoreAssumption, Shape, NEW r \in Names, HandleEndUpdate(r)
  PROVE  Shape'
<1>1. job' \in Jobs /\ job'.pc \in {"flushLast", "verify"} /\ ~job'.valid
  <2>1. PICK pc \in {"flushLast", "verify"} : job' = [At(pc) EXCEPT !.end = r]
    BY DEF HandleEndUpdate
  <2>2. pc \in Pcs /\ job \in Jobs /\ ~job.valid BY DEF HandleEndUpdate, Receiving, Shape, TypeOK, Outside, Pcs
  <2> QED BY <2>1, <2>2, AtIs DEF Jobs
<1> QED BY <1>1 DEF HandleEndUpdate, Shape, TypeOK, flash, bounds

LEMMA ShapeOfVerify ==
  ASSUME CoreAssumption, Shape, VerifyUpdate PROVE Shape'
<1> DEFINE j == [At("pend") EXCEPT !.from = "end"]
<1>1. j \in Jobs /\ j.pc = "pend" /\ j.from = "end" /\ j.valid = job.valid
   BY AtIs DEF Jobs, Shape, TypeOK, Pcs
<1> HIDE DEF j
<1>2. CASE job' = j /\ s' = s
  BY <1>1, <1>2 DEF Shape, TypeOK, VerifyUpdate, flash, bounds, Outside
<1>3. CASE \E told : GiveUp(told)
  BY <1>3, GiveUpIs DEF Shape, TypeOK, VerifyUpdate, flash, bounds
<1> QED BY <1>2, <1>3 DEF VerifyUpdate, j

\* The record of a copy is one, because the verdict found the size to be that of a release.
LEMMA PendingIs ==
  ASSUME CoreAssumption, ReleaseAssumption, Shape, NEW r \in Names, s.total = Releases[r].size,
         ReceivedHeader = HeaderOf(r)
  PROVE  /\ PendingRecord \in Records /\ PendingRecord.state = "pending"
         /\ PendingRecord.size = Releases[r].size /\ PendingRecord.counter = Releases[r].counter
         /\ PendingRecord.version = Releases[r].version /\ PendingRecord.hw = s.hw
         /\ PendingRecord.image = Content(backup, s.total)
<1>1. s.total \in 0..(Slot + Page) /\ s.total \in 0..Slot /\ Slot + Page \in Nat
  BY DEF CoreAssumption, Names
<1>2. Content(backup, s.total) \in Seq(Units)
  BY <1>1, ContentIs DEF Shape, TypeOK
<1>3. /\ ReceivedHeader.version = Releases[r].version /\ Releases[r].version \in [1..3 -> Nat]
      /\ ReceivedHeader.counter = Releases[r].counter /\ Releases[r].counter \in Nat
  BY DEF HeaderOf, ReleaseAssumption
<1>4. s.hw \in Hardware BY DEF Shape, TypeOK, Sessions
<1> QED BY <1>1, <1>2, <1>3, <1>4 DEF PendingRecord, Records

LEMMA ShapeOfPending ==
  ASSUME CoreAssumption, ReleaseAssumption, Shape, Verdict, WritePending
  PROVE  Shape'
<1>1. meta' \in Records
  BY PendingIs DEF WritePending, Verdict
<1>2. job' = At(FirstOfCopy) /\ ~job.valid
  BY DEF WritePending, Shape, TypeOK, Outside
<1> QED BY <1>1, <1>2, AtIs, FirstIs DEF WritePending, FlashWorks, Shape, TypeOK, bounds, Pcs

LEMMA ShapeOfCopyErases ==
  ASSUME CoreAssumption, Shape, CopyErases
  PROVE  Shape'
<1>1. main' \in [1..Slot -> Units]
  <2>1. main' = SetPage(main, job.page, Whole(Blank)) BY DEF CopyErases
  <2>2. \A i \in 1..Slot : Whole(Blank)[i] \in Units BY WholeIs, UnitsAre DEF CoreAssumption
  <2>3. Slot \in Nat BY DEF CoreAssumption
  <2> HIDE DEF CoreAssumption
  <2> QED BY <2>1, <2>2, <2>3, SetPageIs DEF Shape, TypeOK
<1>2. CASE job' = [job EXCEPT !.page = @ + 1]
  BY <1>1, <1>2 DEF CopyErases, FlashWorks, Shape, TypeOK, bounds, Jobs
<1>3. CASE job' = At("copy")
  BY <1>1, <1>3, AtIs DEF CopyErases, FlashWorks, Shape, TypeOK, bounds, Outside, Pcs
<1> QED BY <1>2, <1>3 DEF CopyErases

LEMMA ShapeOfCopy ==
  ASSUME CoreAssumption, Shape, CopyRegion
  PROVE  Shape'
<1>1. main' \in [1..Slot -> Units]
  <2> DEFINE f == [i \in 1..Slot |-> IF i <= meta.size THEN backup[i] ELSE Blank]
  <2>1. main' = SetPage(main, job.page, f) BY DEF CopyRegion
  <2>2. \A i \in 1..Slot : f[i] \in Units BY UnitsAre DEF Shape, TypeOK, CoreAssumption
  <2>3. Slot \in Nat BY DEF CoreAssumption
  <2> HIDE DEF CoreAssumption, f
  <2> QED BY <2>1, <2>2, <2>3, SetPageIs DEF Shape, TypeOK
<1>2. CASE job' = [job EXCEPT !.page = @ + 1]
  BY <1>1, <1>2 DEF CopyRegion, FlashWorks, Shape, TypeOK, bounds, Jobs
<1>3. CASE job' = At("done")
  BY <1>1, <1>3, AtIs DEF CopyRegion, FlashWorks, Shape, TypeOK, bounds, Outside, Pcs
<1> QED BY <1>2, <1>3 DEF CopyRegion

LEMMA ShapeOfCopyFails ==
  ASSUME CoreAssumption, Shape, CopyFails
  PROVE  Shape'
<1>1. main' \in [1..Slot -> Units]
  <2>1. main' \in After(main, job.page) BY DEF CopyFails, After
  <2>2. Slot \in Nat /\ Slot <= Slot + Page BY DEF CoreAssumption
  <2> QED BY <2>1, <2>2, AfterIs DEF Shape, TypeOK
<1> QED BY <1>1, CopyGivesUpIs DEF CopyFails, FlashFails, Shape, TypeOK, CoreAssumption

LEMMA ShapeOfWriteFails ==
  ASSUME CoreAssumption, Shape, WriteFails
  PROVE  Shape'
<1>1. meta' \in Records BY NoMetaIs DEF WriteFails, LogAfterFailure, Shape, TypeOK
<1> QED BY <1>1, CopyGivesUpIs DEF WriteFails, FlashFails, Shape, TypeOK, CoreAssumption

LEMMA ShapeOfValid ==
  ASSUME CoreAssumption, Shape, WriteValid
  PROVE  Shape'
<1>1. meta' \in Records BY DEF WriteValid, Shape, TypeOK, Records
<1>2. job' = Doing("reset") \/ \E v \in BOOLEAN : job' = Window(v)
  BY DEF WriteValid, Checks
<1> QED BY <1>1, <1>2, JobsAre, WindowIs DEF WriteValid, FlashWorks, Shape, TypeOK, bounds, Pcs, Outside

LEMMA ShapeOfBoot ==
  ASSUME CoreAssumption, Shape, ApplicationIsValid
  PROVE  Shape'
<1>1. job' \in Jobs /\ job'.pc \in {"adopt", "window", "copyErase", "copy"} /\ (job'.valid => job'.pc = "window")
  <2>1. CASE job' = Doing("adopt") BY <2>1, JobsAre DEF Pcs
  <2>2. CASE \E v \in BOOLEAN : job' = Window(v) BY <2>2, WindowIs
  <2>3. CASE job' = [Doing(FirstOfCopy) EXCEPT !.from = "boot"]
    <3>1. /\ Doing(FirstOfCopy) \in Jobs /\ Doing(FirstOfCopy).pc = FirstOfCopy /\ ~Doing(FirstOfCopy).valid
      BY FirstIs, JobsAre DEF Pcs
    <3> QED BY <2>3, <3>1, FirstIs DEF Jobs
  <2> QED BY <2>1, <2>2, <2>3 DEF ApplicationIsValid, Checks
<1> QED BY <1>1 DEF ApplicationIsValid, Shape, TypeOK, flash, bounds, Outside

LEMMA ShapeOfAdopt ==
  ASSUME CoreAssumption, Shape, WriteAdopted
  PROVE  Shape'
<1>1. meta' \in Records
  <2>1. Content(main, Slot) \in Seq(Units) BY ContentIs DEF Shape, TypeOK, CoreAssumption
  <2> QED BY <2>1 DEF WriteAdopted, AdoptedRecord, Records, Hardware, MinCounter, CoreAssumption
<1> QED BY <1>1, WindowIs DEF WriteAdopted, FlashWorks, Shape, TypeOK, bounds, Outside

LEMMA ShapeOfWindow ==
  ASSUME CoreAssumption, Shape, WindowEnds
  PROVE  Shape'
<1>1. job' = Doing("app") \/ job' = Doing("idle") BY DEF WindowEnds
<1> QED BY <1>1, JobsAre DEF WindowEnds, Shape, TypeOK, flash, bounds, Pcs

LEMMA ShapeOfResets ==
  ASSUME CoreAssumption, Shape, Reset \/ ApplicationResets
  PROVE  Shape'
<1>1. s' = NoSession /\ job' = Doing("boot") BY DEF Reset, ApplicationResets, Restarted
<1> QED BY <1>1, JobsAre, SessionIs DEF Reset, ApplicationResets, Shape, TypeOK, flash, bounds, Pcs

LEMMA ShapeOfPowerCut ==
  ASSUME CoreAssumption, Shape, PowerCut
  PROVE  Shape'
<1>1. s' = NoSession /\ job' = Doing("boot") BY DEF PowerCut, Restarted
<1>2. meta' \in Records BY NoMetaIs DEF PowerCut, LogAfterFailure, Shape, TypeOK
<1>3. Slot + Page \in Nat /\ Slot \in Nat /\ Slot <= Slot + Page BY DEF CoreAssumption
<1>4. backup' \in [1..(Slot + Page) -> Units]
  <2>1. backup' = backup \/ \E p : backup' \in After(backup, p) BY DEF PowerCut
  <2> QED BY <1>3, <2>1, AfterIs DEF Shape, TypeOK
<1>5. main' \in [1..Slot -> Units]
  <2>1. main' = main \/ \E p : main' \in After(main, p) BY DEF PowerCut
  <2> QED BY <1>3, <2>1, AfterIs DEF Shape, TypeOK
<1> QED BY <1>1, <1>2, <1>4, <1>5, JobsAre, SessionIs DEF PowerCut, Shape, TypeOK, Pcs

LEMMA ShapeOfTheRest ==
  ASSUME CoreAssumption, Shape,
         \/ HandleDowngradeNonceRequest \/ HandleVersionQuery \/ (\E n \in 0..PagesOf(Slot) : HandleReadbackStart(n))
         \/ Silence \/ UNCHANGED vars
  PROVE  Shape'
<1>1. s' \in Sessions BY DEF HandleDowngradeNonceRequest, HandleVersionQuery, HandleReadbackStart, Silence, Shape, TypeOK, Sessions, vars
<1> QED BY <1>1 DEF HandleDowngradeNonceRequest, HandleVersionQuery, HandleReadbackStart, Silence, Shape, TypeOK, vars, flash, bounds

LEMMA ShapeStep ==
  ASSUME Assumptions, Shape, Verdict, [Step]_vars
  PROVE  Shape'
<1> USE DEF Assumptions
<1>1. CASE HostFrame
  BY <1>1, ShapeOfStart, ShapeOfChunks, ShapeOfData, ShapeOfEnd, ShapeOfTheRest DEF HostFrame
<1>2. CASE BoardStep
  BY <1>2, ShapeOfErase, ShapeOfFlush, ShapeOfVerify, ShapeOfPending, ShapeOfCopyErases, ShapeOfCopy, ShapeOfValid,
     ShapeOfBoot, ShapeOfAdopt, ShapeOfWindow, ShapeOfResets DEF BoardStep, CopyStep, StartStep
<1>3. CASE BoardFails
  BY <1>3, ShapeOfEraseFails, ShapeOfFlushFails, ShapeOfCopyFails, ShapeOfWriteFails DEF BoardFails
<1>4. CASE Silence \/ ApplicationResets \/ PowerCut \/ UNCHANGED vars
  BY <1>4, ShapeOfTheRest, ShapeOfResets, ShapeOfPowerCut
<1>5. CASE AnyData BY <1>5, ShapeOfData DEF AnyData
<1> QED BY <1>1, <1>2, <1>3, <1>4, <1>5 DEF Step, Next

-----------------------------------------------------------------------------
(* Where each step leads.                                                   *)

\* A step that leaves the main slot and the record alone, and what it does not begin.
Other ==
    /\ UNCHANGED <<main, meta>>
    /\ job.pc \notin Copying \cup {"boot", "pend", "adopt"}
    /\ job'.pc \notin Copying \cup {"adopt"}
    /\ job'.pc = "pend" => VerifyUpdate
    /\ job'.valid \/ job'.pc = "app" => job.valid
    /\ job'.pc = "window" => UNCHANGED job \/ ErasePageFails

LEMMA OtherHostFrame ==
  ASSUME CoreAssumption, Shape, HostFrame \/ AnyData
  PROVE  Other
<1> USE DEF Other, Copying, flash
<1>1. ASSUME NEW start \in Starts, HandleStartUpdate(start[1], start[2]) PROVE Other
  <2>1. CASE UNCHANGED job
    BY <1>1, <2>1 DEF HandleStartUpdate, Listening
  <2>2. CASE job' = [job EXCEPT !.pc = "erase", !.from = job.pc]
    BY <1>1, <2>2 DEF HandleStartUpdate, Listening, Shape, TypeOK, Jobs
  <2> QED BY <1>1, <2>1, <2>2 DEF HandleStartUpdate
<1>2. ASSUME NEW x, HandleHmacChunk(x) \/ HandleImageHeaderChunk(x) \/ HandleDowngradeTokenChunk(x) PROVE Other
  BY <1>2 DEF HandleHmacChunk, HandleImageHeaderChunk, HandleDowngradeTokenChunk, TakesChunk, Receiving
<1>3. ASSUME NEW n, HandleDowngradeNonceRequest \/ HandleVersionQuery \/ HandleReadbackStart(n) PROVE Other
  BY <1>3 DEF HandleDowngradeNonceRequest, HandleVersionQuery, HandleReadbackStart, Receiving, Listening
<1>4. ASSUME NEW x, HandleData(x) PROVE Other
  <2>1. job.pc = "idle" /\ ~job.valid /\ job \in Jobs /\ "flush" \in Pcs BY <1>4 DEF HandleData, Receiving, Shape, TypeOK, Outside, Pcs
  <2>2. job' = job \/ job' = At("flush") BY <1>4 DEF HandleData
  <2> QED BY <1>4, <2>1, <2>2, AtIs DEF HandleData
<1>5. ASSUME NEW r \in Names, HandleEndUpdate(r) PROVE Other
  <2>1. job.pc = "idle" /\ ~job.valid /\ job \in Jobs /\ {"flushLast", "verify"} \subseteq Pcs
    BY <1>5 DEF HandleEndUpdate, Receiving, Shape, TypeOK, Outside, Pcs
  <2>2. PICK pc \in {"flushLast", "verify"} : job' = [At(pc) EXCEPT !.end = r] BY <1>5 DEF HandleEndUpdate
  <2>3. job'.pc = pc /\ job'.valid = FALSE BY <2>1, <2>2, AtIs DEF Jobs
  <2> QED BY <1>5, <2>1, <2>3 DEF HandleEndUpdate
<1> QED BY <1>1, <1>2, <1>3, <1>4, <1>5 DEF HostFrame, AnyData

\* Every step but nine is of that kind.
LEMMA Steps ==
  ASSUME CoreAssumption, Shape, [Step]_vars
  PROVE  \/ Other \/ UNCHANGED vars
         \/ WritePending \/ CopyErases \/ CopyRegion \/ WriteValid \/ CopyFails \/ WriteFails
         \/ ApplicationIsValid \/ WriteAdopted \/ PowerCut
<1>1. ASSUME ErasePage PROVE Other
  <2>1. CASE job' = [job EXCEPT !.page = @ + 1]
    BY <1>1, <2>1 DEF ErasePage, Shape, TypeOK, Jobs, Other, Copying
  <2>2. CASE job' = Doing("idle")
    BY <1>1, <2>2, JobsAre DEF ErasePage, Shape, TypeOK, Jobs, Other, Copying, Pcs
  <2> QED BY <1>1, <2>1, <2>2 DEF ErasePage
<1>2. ASSUME ErasePageFails PROVE Other
  <2>1. job.from \in Pcs /\ job \in Jobs /\ job.from \in {"window", "idle"} BY <1>2 DEF ErasePageFails, Shape, TypeOK, Pcs
  <2>2. job'.pc = job.from /\ job'.valid = job.valid
    BY <1>2, <2>1, AtIs DEF ErasePageFails, Jobs
  <2> QED BY <1>2, <2>1, <2>2 DEF ErasePageFails, Other, Copying
<1>3. ASSUME FlushPageBuffer PROVE Other
  <2>1. job' = Doing("idle") \/ job' = At("verify") BY <1>3 DEF FlushPageBuffer
  <2>2. ~job.valid /\ job \in Jobs /\ {"idle", "verify"} \subseteq Pcs BY <1>3 DEF FlushPageBuffer, Shape, TypeOK, Outside, Pcs
  <2> QED BY <1>3, <2>1, <2>2, JobsAre, AtIs DEF FlushPageBuffer, Other, Copying
<1>4. ASSUME FlushFails PROVE Other
  BY <1>4, GiveUpIs DEF FlushFails, Other, Copying
<1>5. ASSUME VerifyUpdate PROVE Other
  <2>1. CASE \E told : GiveUp(told)
    BY <1>5, <2>1, GiveUpIs DEF VerifyUpdate, Other, Copying, flash
  <2>2. CASE job' = [At("pend") EXCEPT !.from = "end"]
    <3>1. job'.pc = "pend" /\ job'.valid = FALSE
      BY <1>5, <2>2, AtIs DEF VerifyUpdate, Shape, TypeOK, Jobs, Pcs, Outside
    <3> QED BY <1>5, <3>1 DEF VerifyUpdate, Other, Copying, flash
  <2> QED BY <1>5, <2>1, <2>2 DEF VerifyUpdate
<1>6. ASSUME WindowEnds PROVE Other
  <2>1. (job' = Doing("app") /\ job.valid) \/ job' = Doing("idle") BY <1>6 DEF WindowEnds
  <2> QED BY <1>6, <2>1, JobsAre DEF WindowEnds, Other, Copying, Pcs, flash
<1>7. ASSUME Reset \/ ApplicationResets PROVE Other
  BY <1>7, JobsAre DEF Reset, ApplicationResets, Restarted, Other, Copying, Pcs, flash
<1>8. ASSUME Silence PROVE Other
  BY <1>8 DEF Silence, Receiving, Other, Copying, flash
<1> QED BY <1>1, <1>2, <1>3, <1>4, <1>5, <1>6, <1>7, <1>8, OtherHostFrame
        DEF Step, Next, BoardStep, BoardFails, CopyStep, StartStep

LEMMA BootLeads ==
  ASSUME CoreAssumption, Shape, ApplicationIsValid
  PROVE  /\ UNCHANGED <<main, backup, meta, s>> /\ job.pc = "boot"
         /\ \/ meta = NoMeta /\ job'.pc = "adopt" /\ ~job'.valid
            \/ /\ job'.pc = "window"
               /\ \/ meta = NoMeta /\ ~job'.valid /\ FALSE \in MayPass(main[1])
                  \/ meta # NoMeta /\ (meta.hw # ThisHw \/ meta.size \notin 1..Slot) /\ ~job'.valid
                  \/ meta # NoMeta /\ meta.hw = ThisHw /\ meta.state # "pending" /\ job'.valid = Checks(meta)
            \/ /\ job'.pc \in {"copyErase", "copy"} /\ job'.page = 0 /\ job'.from = "boot" /\ ~job'.valid
               /\ meta # NoMeta /\ meta.hw = ThisHw /\ meta.size \in 1..Slot /\ meta.state = "pending"
<1>1. UNCHANGED <<main, backup, meta, s>> /\ job.pc = "boot" BY DEF ApplicationIsValid, flash
<1>2. CASE meta = NoMeta /\ \E plausible \in MayPass(main[1]) :
                              job' = IF plausible THEN Doing("adopt") ELSE Window(FALSE)
  BY <1>1, <1>2, JobsAre, WindowIs, MayPassIs DEF Pcs
<1>3. CASE meta # NoMeta /\ (meta.hw # ThisHw \/ meta.size \notin 1..Slot) /\ job' = Window(FALSE)
  BY <1>1, <1>3, WindowIs
<1>4. CASE /\ meta.hw = ThisHw /\ meta.size \in 1..Slot
           /\ job' = IF Resumes(meta) THEN [Doing(FirstOfCopy) EXCEPT !.from = "boot"] ELSE Window(Checks(meta))
  <2>1. meta # NoMeta BY <1>4 DEF NoMeta
  <2>2. CASE Resumes(meta)
    <3>1. /\ Doing(FirstOfCopy) \in Jobs /\ Doing(FirstOfCopy).pc = FirstOfCopy /\ Doing(FirstOfCopy).page = 0
          /\ ~Doing(FirstOfCopy).valid
      BY FirstIs, JobsAre DEF Pcs
    <3> QED BY <1>1, <1>4, <2>1, <2>2, <3>1, FirstIs DEF Jobs, Resumes
  <2>3. CASE ~Resumes(meta)
    <3>1. Checks(meta) \in BOOLEAN BY DEF Checks
    <3> QED BY <1>1, <1>4, <2>1, <2>3, <3>1, WindowIs DEF Resumes
  <2> QED BY <2>2, <2>3
<1> QED BY <1>2, <1>3, <1>4 DEF ApplicationIsValid

\* The record that is written is that of a release of ours which the rollback rule allows.
LEMMA PendingLeads ==
  ASSUME CoreAssumption, ReleaseAssumption, Shape, Verdict, WritePending
  PROVE  \E r \in Names :
           /\ SignedHere(r) /\ meta'.image = Image(r) /\ meta'.size = Releases[r].size
           /\ meta'.version = Releases[r].version /\ meta'.counter = Releases[r].counter
           /\ meta'.state = "pending" /\ meta'.hw = s.hw /\ meta' # NoMeta
           /\ s.header = ChunksOf(r) /\ Content(backup, meta'.size) = Image(r)
           /\ meta'.counter >= meta.counter
           /\ \/ Installed = <<>>
              \/ VersionCompare(meta'.version, Installed) > 0
              \/ \E t \in Tokens : t[2] = s.nonce /\ Releases[t[1]].version = meta'.version
           /\ UNCHANGED <<main, backup, s>> /\ job.pc = "pend"
           /\ job'.pc \in {"copyErase", "copy"} /\ job'.page = 0 /\ job'.from = "end" /\ ~job'.valid
<1>1. PICK r \in Names :
        /\ SignedHere(r)
        /\ s.total = Releases[r].size
        /\ Content(backup, s.total) = Image(r)
        /\ s.header = ChunksOf(r)
        /\ ReceivedHeader = HeaderOf(r)
        /\ Releases[r].counter >= meta.counter
        /\ \/ Installed = <<>>
           \/ VersionCompare(Releases[r].version, Installed) > 0
           \/ \E t \in Tokens : t[2] = s.nonce /\ Releases[t[1]].version = Releases[r].version
  BY DEF Verdict, WritePending
<1>2. /\ meta'.state = "pending" /\ meta'.size = Releases[r].size /\ meta'.counter = Releases[r].counter
      /\ meta'.version = Releases[r].version /\ meta'.hw = s.hw /\ meta'.image = Content(backup, s.total)
  BY <1>1, PendingIs DEF WritePending
<1>3. meta' # NoMeta BY <1>2 DEF NoMeta
<1>4. /\ job'.pc \in {"copyErase", "copy"} /\ job'.page = 0 /\ job'.from = "end" /\ ~job'.valid
  BY AtIs, FirstIs DEF WritePending, Shape, TypeOK, Outside, Pcs
<1> QED BY <1>1, <1>2, <1>3, <1>4 DEF WritePending

LEMMA EraseLeads ==
  ASSUME CoreAssumption, Shape, CopyErases
  PROVE  /\ job.pc = "copyErase" /\ job'.pc \in {"copyErase", "copy"} /\ job'.from = job.from /\ ~job'.valid
         /\ (job'.pc = "copy" => job'.page = 0)
         /\ UNCHANGED <<backup, meta, s>>
<1>1. job.pc = "copyErase" /\ ~job.valid /\ job \in Jobs /\ "copy" \in Pcs BY DEF CopyErases, Shape, TypeOK, Outside, Pcs
<1>2. CASE job' = [job EXCEPT !.page = @ + 1] BY <1>1, <1>2 DEF Jobs, CopyErases
<1>3. CASE job' = At("copy") BY <1>1, <1>3, AtIs DEF CopyErases
<1> QED BY <1>2, <1>3 DEF CopyErases

\* One page of the copy: the part of the main slot that is like the backup slot grows by it.
LEMMA CopyLeads ==
  ASSUME CoreAssumption, Shape, Progress, CopyRegion
  PROVE  /\ job'.pc \in {"copy", "done"} /\ job'.from = job.from /\ ~job'.valid
         /\ UNCHANGED <<backup, meta, s>>
         /\ job'.pc = "copy" =>
              \A i \in 1..meta.size : i <= job'.page * Page => main'[i] = backup[i]
         /\ job'.pc = "done" => \A i \in 1..meta.size : main'[i] = backup[i]
<1> DEFINE f == [i \in 1..Slot |-> IF i <= meta.size THEN backup[i] ELSE Blank]
<1>1. job.pc = "copy" /\ ~job.valid /\ job.page \in Nat /\ meta.size \in 0..Slot /\ Page \in Nat \ {0} /\ Slot \in Nat
  BY DEF CopyRegion, Shape, TypeOK, Jobs, Outside, Records, CoreAssumption
<1>2. \A i \in 1..meta.size : main'[i] = IF i \in PageUnits(job.page) THEN backup[i] ELSE main[i]
  <2>1. main' = SetPage(main, job.page, f) BY DEF CopyRegion
  <2>2. DOMAIN main = 1..Slot BY DEF Shape, TypeOK
  <2> QED BY <1>1, <2>1, <2>2 DEF SetPage
<1>3. \A i \in 1..meta.size : i <= (job.page + 1) * Page => main'[i] = backup[i]
  <2> SUFFICES ASSUME NEW i \in 1..meta.size, i <= (job.page + 1) * Page PROVE main'[i] = backup[i]
    OBVIOUS
  <2>1. CASE i <= job.page * Page
    <3>1. main[i] = backup[i] BY <1>1, <2>1 DEF Progress
    <3> QED BY <1>2, <3>1
  <2>2. CASE i > job.page * Page
    <3>1. (job.page + 1) * Page = job.page * Page + Page BY <1>1
    <3>2. job.page * Page \in Nat BY <1>1
    <3>3. i \in PageUnits(job.page) BY <1>1, <2>2, <3>1, <3>2 DEF PageUnits
    <3> QED BY <1>2, <3>3
  <2>3. job.page * Page \in Nat BY <1>1
  <2> QED BY <1>1, <2>1, <2>2, <2>3
<1>4. CASE job.page + 1 < PagesOf(meta.size) /\ job' = [job EXCEPT !.page = @ + 1]
  BY <1>1, <1>3, <1>4 DEF CopyRegion, Shape, TypeOK, Jobs
<1>5. CASE job.page + 1 >= PagesOf(meta.size) /\ job' = At("done")
  <2>1. (job.page + 1) * Page >= meta.size
    BY <1>1, <1>5, LastPage DEF PagesOf
  <2>2. \A i \in 1..meta.size : main'[i] = backup[i]
    <3>1. (job.page + 1) * Page \in Nat BY <1>1
    <3> QED BY <1>1, <1>3, <2>1, <3>1
  <2>3. job'.pc = "done" /\ job'.from = job.from /\ job'.valid = job.valid
    BY <1>5, AtIs DEF Shape, TypeOK, Pcs
  <2> QED BY <1>1, <2>2, <2>3 DEF CopyRegion
<1>6. PagesOf(meta.size) \in Int BY <1>1 DEF PagesOf
<1> QED BY <1>1, <1>4, <1>5, <1>6 DEF CopyRegion

LEMMA ValidLeads ==
  ASSUME CoreAssumption, Shape, WriteValid
  PROVE  /\ job.pc = "done" /\ UNCHANGED <<main, backup, s>>
         /\ meta'.state = "valid" /\ meta'.hw = meta.hw /\ meta'.version = meta.version
         /\ meta'.size = meta.size /\ meta'.image = meta.image /\ meta'.counter = meta.counter
         /\ meta' # NoMeta
         /\ \/ job.from = "end" /\ job'.pc = "reset" /\ ~job'.valid
            \/ job.from # "end" /\ job'.pc = "window" /\ job'.valid = Checks(meta')
<1>1. meta' = [meta EXCEPT !.state = "valid"] /\ meta \in Records BY DEF WriteValid, Shape, TypeOK
<1>2. /\ meta'.state = "valid" /\ meta'.hw = meta.hw /\ meta'.version = meta.version
      /\ meta'.size = meta.size /\ meta'.image = meta.image /\ meta'.counter = meta.counter
  BY <1>1 DEF Records
<1>3. meta' # NoMeta BY <1>2 DEF NoMeta
<1>4. Checks(meta') \in BOOLEAN BY DEF Checks
<1> HIDE DEF Checks
<1> QED BY <1>2, <1>3, <1>4, JobsAre, WindowIs DEF WriteValid, Pcs

LEMMA AdoptLeads ==
  ASSUME CoreAssumption, Shape, WriteAdopted
  PROVE  /\ job.pc = "adopt" /\ UNCHANGED <<main, backup, s>> /\ job'.pc = "window" /\ job'.valid
         /\ meta'.state = "valid" /\ meta'.hw = ThisHw /\ meta'.version = <<1, 0, 0>> /\ meta'.size = Slot
         /\ meta'.image = Content(main, Slot) /\ meta'.counter = MinCounter /\ meta' # NoMeta
<1>1. meta' = AdoptedRecord /\ job' = Window(TRUE) BY DEF WriteAdopted
<1>2. meta' # NoMeta BY <1>1 DEF AdoptedRecord, NoMeta
<1>3. job'.pc = "window" /\ job'.valid BY <1>1, WindowIs
<1>4. /\ meta'.state = "valid" /\ meta'.hw = ThisHw /\ meta'.version = <<1, 0, 0>> /\ meta'.size = Slot
      /\ meta'.image = Content(main, Slot) /\ meta'.counter = MinCounter
  BY <1>1 DEF AdoptedRecord
<1>5. job.pc = "adopt" /\ UNCHANGED <<main, backup, s>> BY DEF WriteAdopted
<1> QED BY <1>2, <1>3, <1>4, <1>5

LEMMA GivenUp ==
  ASSUME CoreAssumption, Shape, CopyFails \/ WriteFails
  PROVE  /\ job'.pc \in {"idle", "window"} /\ ~job'.valid /\ backup' = backup /\ s'.hw = s.hw
         /\ (s'.inProgress => s.inProgress)
BY CopyGivesUpIs DEF CopyFails, WriteFails

LEMMA CutLeads ==
  ASSUME CoreAssumption, PowerCut
  PROVE  /\ job'.pc = "boot" /\ ~job'.valid /\ s' = NoSession
         /\ job.pc \notin {"copyErase", "copy"} => main' = main
         /\ job.pc \notin {"erase", "flush", "flushLast"} => backup' = backup
         /\ job.pc \notin {"pend", "done", "adopt"} => meta' = meta
         /\ meta' = meta \/ (MayLose /\ meta' = NoMeta)
<1>1. job'.pc = "boot" /\ ~job'.valid /\ s' = NoSession
  BY JobsAre DEF PowerCut, Restarted, Pcs
<1>2. job.pc \notin {"copyErase", "copy"} => main' = main BY DEF PowerCut
<1>3. job.pc \notin {"erase", "flush", "flushLast"} => backup' = backup BY DEF PowerCut
<1>4. /\ job.pc \notin {"pend", "done", "adopt"} => meta' = meta
      /\ meta' = meta \/ (MayLose /\ meta' = NoMeta)
  BY DEF PowerCut, LogAfterFailure
<1> QED BY <1>1, <1>2, <1>3, <1>4

-----------------------------------------------------------------------------
(* The invariant.                                                           *)

LEMMA VerdictOfVerify ==
  ASSUME CoreAssumption, ChunksAssumption, ReleaseAssumption, Shape, VerifyUpdate
  PROVE  Verdict'
<1>1. SUFFICES ASSUME Decide2(VerifyInput) = "ok"
               PROVE  Verdict'
  <2>1. CASE Decide2(VerifyInput) # "ok"
    BY <2>1, GiveUpIs DEF VerifyUpdate, Verdict
  <2> QED BY <2>1
<1> DEFINE in == VerifyInput
           digest == Digest(ReceivedHeader, Content(backup, s.total))
<1>2. UNCHANGED <<s, main, backup, meta>> BY <1>1 DEF VerifyUpdate, flash
<1>3. Complete(in) /\ Len(s.header) = Chunks /\ in.digest = digest
  <2>1. Complete(in) BY <1>1, DecisionOk
  <2> QED BY <2>1, InputIs DEF Complete
<1>4. KeyNamed(in.keys, in.header) = "k1"
  <2>1. KeyNamed(in.keys, in.header) # NoKey BY <1>1, DecisionOk
  <2> QED BY <2>1, InputIs DEF KeyNamed
<1>5. Verify(ImageMessage2(digest), ReceivedSignature, "k1")
  <2>1. Verify(ImageMessage2(in.digest), in.signature, KeyNamed(in.keys, in.header)) BY <1>1, DecisionOk
  <2> HIDE DEF in, digest
  <2>2. in.signature = ReceivedSignature BY InputIs DEF in
  <2> QED BY <2>1, <2>2, <1>3, <1>4
<1>6. PICK r \in Names : Releases[r].signed /\ ImageMessage2(digest) = ImageMessage2(Digest(HeaderOf(r), Image(r)))
  BY <1>5, SignatureIs
<1>7. ReceivedHeader = HeaderOf(r) /\ Content(backup, s.total) = Image(r)
  BY <1>6 DEF ImageMessage2, Digest
<1>8. ReceivedHeader.size = s.total /\ ReceivedHeader.hw = ThisHw
  <2>1. HeaderCheck(in.header, [in.expect EXCEPT !.size = in.total, !.crc = in.actualCrc]) = "ok"
    BY <1>1, DecisionOk
  <2>2. in.header = ReceivedHeader BY InputIs
  <2> DEFINE e == [in.expect EXCEPT !.size = in.total, !.crc = in.actualCrc]
  <2>3. e.size = s.total /\ e.hw = ThisHw BY ExpectIs
  <2> HIDE DEF in, e
  <2> QED BY <2>1, <2>2, <2>3, HeaderOk DEF e
<1>9. SignedHere(r) /\ s.total = Releases[r].size
  BY <1>6, <1>7, <1>8 DEF HeaderOf, SignedHere
<1>10. Releases[r].counter >= meta.counter
  <2>1. in.header.counter >= in.floor BY <1>1, DecisionOk
  <2>2. Releases[r].counter >= Larger(MinCounter, meta.counter) BY <2>1, <1>7, InputIs DEF HeaderOf
  <2> QED BY <2>2 DEF Larger, MinCounter, ReleaseAssumption, Shape, TypeOK, Records
<1>11. \/ Installed = <<>>
       \/ VersionCompare(Releases[r].version, Installed) > 0
       \/ \E t \in Tokens : t[2] = s.nonce /\ Releases[t[1]].version = Releases[r].version
  <2>1. CheckRollback(in.header, in.installed, DowngradeAuthorized(in, in.header, KeyNamed(in.keys, in.header)))
    BY <1>1, DecisionOk
  <2>2. /\ in.header = ReceivedHeader /\ in.installed = Installed /\ in.token = ReceivedToken /\ in.nonce = s.nonce
        /\ ReceivedHeader.version = Releases[r].version
    BY <1>7, InputIs DEF HeaderOf
  <2> HIDE DEF in, digest
  <2>3. CASE DowngradeAuthorized(in, in.header, KeyNamed(in.keys, in.header))
    BY <2>2, <2>3, <1>4, TokenIs DEF DowngradeAuthorized
  <2> QED BY <2>1, <2>2, <2>3 DEF CheckRollback
<1>12. s.header = ChunksOf(r)
  BY <1>3, <1>7, HeaderChunksAre
<1>13. ReceivedHeader' = ReceivedHeader /\ Installed' = Installed /\ Content(backup, s.total)' = Content(backup, s.total)
  BY <1>2 DEF ReceivedHeader, Installed, Content
<1> QED BY <1>2, <1>7, <1>9, <1>10, <1>11, <1>12, <1>13 DEF Verdict

LEMMA VerdictStep ==
  ASSUME Assumptions, Shape, Verdict, [Step]_vars
  PROVE  Verdict'
<1> USE DEF Assumptions
<1>1. CASE Other BY <1>1, VerdictOfVerify DEF Other, Verdict
<1>2. CASE UNCHANGED vars
  BY <1>2 DEF vars, Verdict, Content, ReceivedHeader, Installed
<1>3. CASE job'.pc # "pend" BY <1>3 DEF Verdict
<1>4. WritePending \/ CopyErases \/ CopyRegion \/ WriteValid \/ CopyFails \/ WriteFails
         \/ ApplicationIsValid \/ WriteAdopted \/ PowerCut => job'.pc # "pend"
  <2>1. CASE CopyRegion
    <3>1. job.pc = "copy" BY <2>1 DEF CopyRegion
    <3>2. job' = [job EXCEPT !.page = @ + 1] \/ job' = At("done") BY <2>1 DEF CopyRegion
    <3> QED BY <3>1, <3>2, AtIs DEF Shape, TypeOK, Jobs, Pcs
  <2> QED BY <2>1, PendingLeads, EraseLeads, ValidLeads, GivenUp, BootLeads, AdoptLeads, CutLeads
<1> QED BY <1>1, <1>2, <1>3, <1>4, Steps

LEMMA ProgressStep ==
  ASSUME Assumptions, CoreInv, [Step]_vars
  PROVE  Progress'
<1> USE DEF Assumptions, CoreInv
<1>1. CASE Other BY <1>1 DEF Other, Progress, Copying
<1>2. CASE UNCHANGED vars BY <1>2 DEF vars, Progress
<1>3. CASE WritePending
  <2>1. \A n \in Nat : n >= 1 => ~(n <= 0 * Page) BY DEF CoreAssumption
  <2> QED BY <1>3, <2>1, PendingLeads DEF Progress, Copying, CoreAssumption, Names
<1>4. CASE CopyErases
  <2>1. Page \in Nat /\ 0 * Page = 0 BY DEF CoreAssumption
  <2> QED BY <1>4, <2>1, EraseLeads DEF Progress, Copying
<1>5. CASE CopyRegion BY <1>5, CopyLeads DEF Progress, Copying, CopyRegion
<1>6. CASE WriteValid
  <2>1. meta # NoMeta BY <1>6, ValidLeads DEF Progress, Copying, NoMeta
  <2> QED BY <1>6, <2>1, ValidLeads DEF Progress, Copying
<1>7. CASE CopyFails \/ WriteFails
  <2>1. meta' = meta \/ meta' = NoMeta BY <1>7 DEF CopyFails, WriteFails, LogAfterFailure
  <2> QED BY <1>7, <2>1, GivenUp DEF Progress, Copying
<1>8. CASE ApplicationIsValid
  <2>1. Page \in Nat /\ 0 * Page = 0 BY DEF CoreAssumption
  <2>2. /\ UNCHANGED <<main, backup, meta>> /\ job'.pc # "done"
        /\ job'.pc \in {"copyErase", "copy"} => job'.page = 0 /\ meta.state = "pending"
    BY <1>8, BootLeads
  <2> QED BY <2>1, <2>2 DEF Progress, Copying
<1>9. CASE WriteAdopted BY <1>9, AdoptLeads DEF Progress, Copying, CoreAssumption
<1>10. CASE PowerCut BY <1>10, CutLeads DEF Progress, Copying
<1> QED BY <1>1, <1>2, <1>3, <1>4, <1>5, <1>6, <1>7, <1>8, <1>9, <1>10, Steps

LEMMA OfSessionStep ==
  ASSUME Assumptions, CoreInv, [Step]_vars
  PROVE  OfSession'
<1> USE DEF Assumptions, CoreInv
<1>1. CASE Other BY <1>1 DEF Other, OfSession
<1>2. CASE UNCHANGED vars BY <1>2 DEF vars, OfSession, Content
<1>3. CASE WritePending
  <2>1. UNCHANGED <<s, backup>> BY <1>3 DEF WritePending
  <2> QED BY <1>3, <2>1, PendingLeads DEF OfSession, Content
<1>4. CASE CopyErases \/ CopyRegion
  <2>1. UNCHANGED <<meta, s, backup>> /\ job'.from = job.from /\ job.pc \in Copying
    BY <1>4, EraseLeads, CopyLeads DEF Copying, CopyRegion
  <2> QED BY <2>1 DEF OfSession, Content
<1>5. CASE job'.pc \notin Copying \/ job'.from # "end" BY <1>5 DEF OfSession
<1>6. WriteValid \/ CopyFails \/ WriteFails \/ ApplicationIsValid \/ WriteAdopted \/ PowerCut =>
        job'.pc \notin Copying \/ job'.from # "end"
  BY ValidLeads, GivenUp, BootLeads, AdoptLeads, CutLeads DEF Copying
<1> QED BY <1>1, <1>2, <1>3, <1>4, <1>5, <1>6, Steps

LEMMA InitIs ==
  ASSUME CoreAssumption, Init
  PROVE  /\ job.pc = "boot" /\ ~job.valid /\ job \in Jobs /\ s = NoSession /\ meta = NoMeta
         /\ main \in [1..Slot -> Units] /\ backup \in [1..(Slot + Page) -> Units]
         /\ \A i \in 1..Releases[Factory].size : main[i] = <<Factory, i>>
<1>1. job.pc = "boot" /\ ~job.valid /\ job \in Jobs BY JobsAre DEF Init, Pcs
<1>2. DOMAIN Image(Factory) = 1..Releases[Factory].size /\ Factory \in Names /\ Releases[Factory].size \in 1..Slot
  BY DEF Image, CoreAssumption, Names
<1>3. main = [i \in 1..Slot |-> IF i \in 1..Releases[Factory].size THEN <<Factory, i>> ELSE Blank]
  BY <1>2 DEF Init
<1>4. main \in [1..Slot -> Units]
  BY <1>2, <1>3, UnitsAre
<1>5. backup \in [1..(Slot + Page) -> Units] BY UnitsAre DEF Init, Whole
<1>6. \A i \in 1..Releases[Factory].size : main[i] = <<Factory, i>>
  BY <1>2, <1>3 DEF CoreAssumption
<1> QED BY <1>1, <1>4, <1>5, <1>6 DEF Init

LEMMA CoreInvInit == Assumptions /\ Init => CoreInv
<1> SUFFICES ASSUME Assumptions, Init PROVE CoreInv OBVIOUS
<1> USE DEF Assumptions
<1>1. Shape
  BY InitIs, SessionIs, NoMetaIs DEF Shape, TypeOK, Init, CoreAssumption
<1> QED BY <1>1, InitIs DEF CoreInv, Verdict, Progress, OfSession, Copying

LEMMA CoreInvStep == Assumptions /\ CoreInv /\ [Step]_vars => CoreInv'
BY ShapeStep, VerdictStep, ProgressStep, OfSessionStep DEF CoreInv

THEOREM CoreCorrect == ASSUME Assumptions PROVE Spec => []CoreInv
<1>1. Init => CoreInv BY CoreInvInit
<1>2. CoreInv /\ [Step]_vars => CoreInv' BY CoreInvStep
<1> QED BY <1>1, <1>2, PTL DEF Spec, Step

\* The types of the state hold, whatever is sent, cut or failing.
THEOREM UpdateTypes == ASSUME Assumptions PROVE Spec => []TypeOK
<1>1. CoreInv => TypeOK BY DEF CoreInv, Shape
<1> QED BY <1>1, CoreCorrect, PTL

-----------------------------------------------------------------------------
(* Where the log survives a cut (the board): any failure, any cut.          *)

WholeMain == \E r \in Names : SignedHere(r) /\ Holds(main, r)
GoodRecord(m) == \E r \in Names : /\ SignedHere(r) /\ Releases[r].size <= m.size
                                  /\ \A i \in 1..Releases[r].size : m.image[i] = <<r, i>>

\* The record describes a release of ours, although the main slot may hold the half of
\* it; before there is a record the main slot holds one.
SafeInv ==
    /\ IF meta = NoMeta THEN WholeMain ELSE GoodRecord(meta)
    /\ job.pc = "adopt" => meta = NoMeta
    /\ job.valid \/ job.pc = "app" => WholeMain

\* A region is whole as soon as it is the image of such a record.
LEMMA WholeWhenLike ==
  ASSUME CoreAssumption, Shape, GoodRecord(meta), NEW x,
         \A i \in 1..meta.size : x[i] = meta.image[i]
  PROVE  \E r \in Names : SignedHere(r) /\ Holds(x, r)
<1>1. PICK r \in Names : /\ SignedHere(r) /\ Releases[r].size <= meta.size
                         /\ \A i \in 1..Releases[r].size : meta.image[i] = <<r, i>>
  BY DEF GoodRecord
<1>2. Releases[r].size \in Nat /\ meta.size \in Nat BY DEF CoreAssumption, Names, Shape, TypeOK, Records
<1>3. \A i \in 1..Releases[r].size : x[i] = <<r, i>> BY <1>1, <1>2
<1> QED BY <1>1, <1>3 DEF Holds, Content, Image

LEMMA WholeWhenChecked ==
  ASSUME CoreAssumption, Shape, GoodRecord(meta), Checks(meta)
  PROVE  WholeMain
<1>1. \A i \in 1..meta.size : main[i] = meta.image[i] BY DEF Checks, Content
<1> QED BY <1>1, WholeWhenLike DEF WholeMain

LEMMA AdoptedIsGood ==
  ASSUME CoreAssumption, WholeMain
  PROVE  GoodRecord(AdoptedRecord)
<1>1. PICK r \in Names : SignedHere(r) /\ Holds(main, r) BY DEF WholeMain
<1>2. Releases[r].size \in 1..Slot /\ Slot \in Nat BY DEF CoreAssumption, Names
<1>3. \A i \in 1..Releases[r].size : main[i] = <<r, i>>
  BY <1>1 DEF Holds, Content, Image
<1>4. AdoptedRecord.size = Slot /\ AdoptedRecord.image = [i \in 1..Slot |-> main[i]]
  BY DEF AdoptedRecord, Content
<1>5. \A i \in 1..Releases[r].size : AdoptedRecord.image[i] = <<r, i>> BY <1>2, <1>3, <1>4
<1>6. Releases[r].size <= AdoptedRecord.size BY <1>2, <1>4
<1> HIDE DEF AdoptedRecord
<1> QED BY <1>1, <1>5, <1>6 DEF GoodRecord

LEMMA PendingIsGood ==
  ASSUME CoreAssumption, NEW r \in Names, NEW m, SignedHere(r), m.image = Image(r), m.size = Releases[r].size
  PROVE  GoodRecord(m)
<1>1. Releases[r].size \in Nat BY DEF CoreAssumption, Names
<1> QED BY <1>1 DEF GoodRecord, Image

LEMMA SafeInit ==
  ASSUME Assumptions, FactoryAssumption, Init
  PROVE  WholeMain /\ SafeInv
<1>1. Holds(main, Factory) BY InitIs DEF Assumptions, Holds, Content, Image
<1>2. WholeMain BY <1>1 DEF WholeMain, FactoryAssumption, Assumptions, CoreAssumption, Names
<1> QED BY <1>2, InitIs DEF SafeInv, Assumptions

LEMMA SafeStep ==
  ASSUME Assumptions, ~MayLose, CoreInv, SafeInv, [Step]_vars
  PROVE  SafeInv'
<1> USE DEF Assumptions, CoreInv
<1>1. CASE UNCHANGED <<main, meta>> /\ (job'.valid \/ job'.pc = "app" => job.valid \/ job.pc = "app")
           /\ (job'.pc = "adopt" => job.pc = "adopt" \/ meta = NoMeta)
  BY <1>1 DEF SafeInv, WholeMain, Holds, Content, GoodRecord
<1>2. CASE Other BY <1>1, <1>2 DEF Other
<1>3. CASE UNCHANGED vars BY <1>1, <1>3 DEF vars
<1>4. CASE WritePending
  <2>1. meta' # NoMeta /\ GoodRecord(meta') BY <1>4, PendingLeads, PendingIsGood
  <2> QED BY <1>4, <2>1, PendingLeads DEF SafeInv
<1>5. CASE CopyErases \/ CopyRegion \/ CopyFails
  <2>1. meta' = meta /\ meta # NoMeta
    BY <1>5 DEF CopyErases, CopyRegion, CopyFails, Progress, Copying, NoMeta
  <2>2. ~job'.valid /\ job'.pc \notin {"app", "adopt"}
    BY <1>5, EraseLeads, CopyLeads, GivenUp
  <2> QED BY <2>1, <2>2 DEF SafeInv, GoodRecord
<1>6. CASE WriteValid
  <2>1. meta # NoMeta /\ GoodRecord(meta) BY <1>6, ValidLeads DEF Progress, Copying, NoMeta, SafeInv
  <2>2. meta' # NoMeta /\ GoodRecord(meta') BY <1>6, <2>1, ValidLeads DEF GoodRecord
  <2>3. CASE Checks(meta')
    <3>1. Checks(meta) BY <1>6, <2>3, ValidLeads DEF Checks, Content
    <3>2. WholeMain BY <2>1, <3>1, WholeWhenChecked
    <3>3. WholeMain' BY <1>6, <3>2, ValidLeads DEF WholeMain, Holds, Content
    <3> QED BY <1>6, <2>2, <3>3, ValidLeads DEF SafeInv
  <2>4. CASE ~Checks(meta') BY <1>6, <2>2, <2>4, ValidLeads DEF SafeInv
  <2> QED BY <2>3, <2>4
<1>7. CASE WriteFails
  <2>1. UNCHANGED <<main, meta>> BY <1>7 DEF WriteFails, LogAfterFailure
  <2> QED BY <1>1, <1>7, <2>1, GivenUp
<1>8. CASE ApplicationIsValid
  <2>1. CASE job'.valid
    <3>1. meta # NoMeta /\ Checks(meta) /\ GoodRecord(meta) BY <1>8, <2>1, BootLeads DEF SafeInv
    <3>2. WholeMain' /\ GoodRecord(meta)'
      BY <1>8, <3>1, WholeWhenChecked, BootLeads DEF WholeMain, Holds, Content, GoodRecord
    <3> QED BY <1>8, <2>1, <3>1, <3>2, BootLeads DEF SafeInv
  <2>2. CASE ~job'.valid BY <1>1, <1>8, <2>2, BootLeads
  <2> QED BY <2>1, <2>2
<1>9. CASE WriteAdopted
  <2>1. WholeMain BY <1>9, AdoptLeads DEF SafeInv
  <2>2. GoodRecord(meta') /\ meta' # NoMeta BY <1>9, <2>1, AdoptedIsGood, AdoptLeads DEF WriteAdopted
  <2>3. WholeMain' BY <1>9, <2>1, AdoptLeads DEF WholeMain, Holds, Content
  <2> QED BY <1>9, <2>2, <2>3, AdoptLeads DEF SafeInv
<1>10. CASE PowerCut
  <2>1. meta' = meta /\ job'.pc = "boot" /\ ~job'.valid BY <1>10, CutLeads
  <2>2. meta = NoMeta => main' = main BY <1>10, CutLeads DEF Progress, Copying, NoMeta
  <2> QED BY <2>1, <2>2 DEF SafeInv, WholeMain, Holds, Content, GoodRecord
<1> QED BY <1>2, <1>3, <1>4, <1>5, <1>6, <1>7, <1>8, <1>9, <1>10, Steps

LEMMA SafeCorrect ==
  ASSUME Assumptions, FactoryAssumption, ~MayLose PROVE Spec => [](CoreInv /\ SafeInv)
<1>1. Init => CoreInv /\ SafeInv BY CoreInvInit, SafeInit
<1>2. CoreInv /\ SafeInv /\ [Step]_vars => (CoreInv /\ SafeInv)' BY CoreInvStep, SafeStep
<1> QED BY <1>1, <1>2, PTL DEF Spec, Step

\* Whatever the host sends, whichever flash operation fails and whenever the power is cut,
\* the board starts nothing but the whole image of a release signed for this hardware.
THEOREM BoardStartsOnlyWholeSigned ==
  ASSUME Assumptions, FactoryAssumption, ~MayLose PROVE Spec => []StartsOnlyWholeSigned
<1>1. CoreInv /\ SafeInv => StartsOnlyWholeSigned
  BY DEF SafeInv, StartsOnlyWholeSigned, WholeMain, SignedHere
<1> QED BY <1>1, SafeCorrect, PTL

\* Who changes the record.
LEMMA PendingStays ==
  ASSUME Assumptions, CoreInv, [Step]_vars, meta' # meta
  PROVE  WritePending \/ WriteValid \/ WriteAdopted \/ (MayLose /\ (WriteFails \/ PowerCut))
BY Steps, CutLeads, BootLeads DEF Assumptions, CoreInv, Other, vars, CopyErases, CopyRegion, CopyFails, WriteFails, LogAfterFailure

\* The floor of the rollback counter never comes down on the board (WriteValidMetadata,
\* Metadata_Write), whatever is cut or fails.
THEOREM BoardFloorNeverFalls ==
  ASSUME Assumptions, FactoryAssumption, ~MayLose PROVE Spec => FloorNeverFalls
<1>1. ASSUME CoreInv, SafeInv, [Step]_vars PROVE [FloorStays]_vars
  <2>1. meta.counter \in Nat BY <1>1 DEF CoreInv, Shape, TypeOK, Records
  <2>2. CASE meta' = meta BY <2>1, <2>2 DEF FloorStays
  <2>3. CASE WritePending BY <1>1, <2>3, PendingLeads DEF FloorStays, CoreInv, Assumptions
  <2>4. CASE WriteValid BY <1>1, <2>1, <2>4, ValidLeads DEF FloorStays, CoreInv, Assumptions
  <2>5. CASE WriteAdopted
    BY <1>1, <2>5, AdoptLeads DEF FloorStays, CoreInv, Assumptions, SafeInv, NoMeta, MinCounter
  <2> QED BY <1>1, <2>2, <2>3, <2>4, <2>5, PendingStays
<1>2. CoreInv /\ SafeInv /\ [Step]_vars => [FloorStays]_vars BY <1>1
<1> QED BY <1>2, SafeCorrect, PTL DEF Spec, Step, FloorNeverFalls

-----------------------------------------------------------------------------
(* Where no START is for another hardware.                                  *)

\* The session is busy: it is open, being opened, judged or copied.
Busy == \/ s.inProgress
        \/ job.pc \in {"erase", "flush", "flushLast", "verify", "pend"}
        \/ job.pc \in Copying /\ job.from = "end"
HardwareInv == Busy => s.hw = ThisHw

LEMMA HardwareStep ==
  ASSUME Assumptions, OneHardware, CoreInv, HardwareInv, [Step]_vars
  PROVE  HardwareInv'
<1> USE DEF Assumptions, CoreInv, Busy
<1>1. CASE s'.hw = ThisHw BY <1>1 DEF HardwareInv
<1>2. CASE ~Busy' BY <1>2 DEF HardwareInv
<1>3. CASE Busy /\ s'.hw = s.hw BY <1>1, <1>3 DEF HardwareInv
<1> DEFINE Fine == s'.hw = ThisHw \/ ~Busy' \/ (Busy /\ s'.hw = s.hw)
<1>4. ASSUME NEW start \in Starts, HandleStartUpdate(start[1], start[2]) PROVE Fine
  BY <1>4 DEF HandleStartUpdate, OneHardware, Shape, TypeOK, Sessions
<1>5. ASSUME NEW x, HandleHmacChunk(x) \/ HandleImageHeaderChunk(x) \/ HandleDowngradeTokenChunk(x) PROVE Fine
  BY <1>5 DEF HandleHmacChunk, HandleImageHeaderChunk, HandleDowngradeTokenChunk, TakesChunk, Receiving, Shape, TypeOK, Sessions
<1>6. ASSUME NEW n, HandleDowngradeNonceRequest \/ HandleVersionQuery \/ HandleReadbackStart(n) \/ UNCHANGED vars PROVE Fine
  BY <1>6 DEF HandleDowngradeNonceRequest, HandleVersionQuery, HandleReadbackStart, vars
<1>7. ASSUME NEW x, HandleData(x) PROVE Fine
  BY <1>7 DEF HandleData, Receiving, Shape, TypeOK, Sessions
<1>8. ASSUME NEW r, HandleEndUpdate(r) PROVE Fine
  BY <1>8 DEF HandleEndUpdate, Receiving
<1>9. HostFrame \/ AnyData => Fine BY <1>4, <1>5, <1>6, <1>7, <1>8 DEF HostFrame, AnyData
<1>10. ErasePage => Fine
  <2>1. OpenSession.hw = s.hw BY DEF OpenSession, NoSession
  <2> QED BY <2>1 DEF ErasePage
<1>11. FlushPageBuffer \/ VerifyUpdate => Fine
  <2>1. FlushPageBuffer => s'.hw = s.hw BY DEF FlushPageBuffer, Shape, TypeOK, Sessions
  <2>2. VerifyUpdate => s'.hw = s.hw BY GiveUpIs DEF VerifyUpdate
  <2> QED BY <2>1, <2>2 DEF FlushPageBuffer, VerifyUpdate
<1>12. ErasePageFails \/ FlushFails => Fine
  <2>1. ErasePageFails => s'.hw = s.hw BY DEF ErasePageFails, Shape, TypeOK, Sessions
  <2>2. FlushFails => s'.hw = s.hw BY GiveUpIs DEF FlushFails
  <2> QED BY <2>1, <2>2 DEF ErasePageFails, FlushFails
<1>13. CopyFails \/ WriteFails => Fine BY GivenUp DEF Copying
<1>14. WritePending => Fine BY PendingLeads
<1>15. CopyErases \/ CopyRegion => Fine BY EraseLeads, CopyLeads DEF CopyRegion, Copying
<1>16. WriteValid => Fine BY ValidLeads DEF Copying
<1>17. ApplicationIsValid => Fine BY BootLeads DEF Copying
<1>18. WriteAdopted => Fine BY AdoptLeads DEF Copying
<1>19. WindowEnds => Fine
  <2>1. WindowEnds => job'.pc \in {"app", "idle"} BY JobsAre DEF WindowEnds, Pcs
  <2> QED BY <2>1 DEF WindowEnds, Copying
<1>20. Reset \/ ApplicationResets \/ PowerCut => Fine
  <2>1. Reset \/ ApplicationResets \/ PowerCut => s' = NoSession /\ job'.pc = "boot"
    BY JobsAre DEF Reset, ApplicationResets, PowerCut, Restarted, Pcs
  <2> QED BY <2>1 DEF NoSession, Copying
<1>21. Silence => Fine BY DEF Silence, Receiving, Shape, TypeOK, Sessions
<1> HIDE DEF Busy
<1> QED BY <1>1, <1>2, <1>3, <1>6, <1>9, <1>10, <1>11, <1>12, <1>13, <1>14, <1>15, <1>16, <1>17, <1>18, <1>19, <1>20, <1>21
        DEF Step, Next, BoardStep, BoardFails, CopyStep, StartStep

LEMMA HardwareCorrect == ASSUME Assumptions, OneHardware PROVE Spec => [](CoreInv /\ HardwareInv)
<1>1. Init => CoreInv /\ HardwareInv
  BY CoreInvInit, InitIs DEF HardwareInv, Busy, NoSession, Copying, Assumptions
<1>2. CoreInv /\ HardwareInv /\ [Step]_vars => (CoreInv /\ HardwareInv)' BY CoreInvStep, HardwareStep
<1> QED BY <1>1, <1>2, PTL DEF Spec, Step

Told == {answer[i] : i \in DOMAIN answer}
VerifyOk == <<"verify_ok">>

\* VERIFY_OK is said by one step only, and there after an END_UPDATE.
LEMMA OnlyValidSaysOk ==
  ASSUME Step, VerifyOk \in Told'
  PROVE  WriteValid /\ job.from = "end"
<1> USE DEF Told, VerifyOk
<1>1. ASSUME answer' = <<>> PROVE FALSE BY <1>1
<1>2. ASSUME NEW a, a # VerifyOk, answer' = <<a>> PROVE FALSE BY <1>2
<1>3. ASSUME NEW a, NEW b, a # VerifyOk, b # VerifyOk, answer' = <<a, b>> PROVE FALSE BY <1>3
<1> HIDE DEF Told
<1>4. \A a : GiveUp(a) => answer' = a BY DEF GiveUp
<1>5. ~HostFrame /\ ~AnyData
  <2>1. \A size, hw : ~HandleStartUpdate(size, hw) BY <1>2 DEF HandleStartUpdate
  <2>2. \A x : ~HandleHmacChunk(x) /\ ~HandleImageHeaderChunk(x) /\ ~HandleDowngradeTokenChunk(x) /\ ~HandleData(x)
    BY <1>1 DEF HandleHmacChunk, HandleImageHeaderChunk, HandleDowngradeTokenChunk, HandleData
  <2>3. ~HandleDowngradeNonceRequest /\ \A r : ~HandleEndUpdate(r)
    BY <1>1, <1>2 DEF HandleDowngradeNonceRequest, HandleEndUpdate
  <2>4. ~HandleVersionQuery BY <1>3 DEF HandleVersionQuery
  <2>5. \A n : ~HandleReadbackStart(n) BY <1>3 DEF HandleReadbackStart
  <2> QED BY <2>1, <2>2, <2>3, <2>4, <2>5 DEF HostFrame, AnyData
<1>6. ~ErasePage /\ ~ErasePageFails BY <1>1, <1>2, <1>3 DEF ErasePage, ErasePageFails
<1>7. ~FlushPageBuffer /\ ~FlushFails BY <1>2, <1>4 DEF FlushPageBuffer, FlushFails
<1>8. ~VerifyUpdate
  <2>1. \A v : <<"verify_fail", v>> # VerifyOk OBVIOUS
  <2> QED BY <1>2, <1>3, <1>4, <2>1 DEF VerifyUpdate
<1>9. ~WritePending /\ ~CopyErases /\ ~CopyRegion BY <1>1, <1>2 DEF WritePending, CopyErases, CopyRegion
<1>10. ~CopyFails /\ ~WriteFails BY <1>1, <1>2, <1>4 DEF CopyFails, WriteFails, CopyGivesUp
<1>11. ~ApplicationIsValid BY <1>1, <1>2 DEF ApplicationIsValid
<1>12. ~WriteAdopted /\ ~WindowEnds BY <1>1, <1>2 DEF WriteAdopted, WindowEnds
<1>13. ~Reset /\ ~ApplicationResets /\ ~PowerCut BY <1>1 DEF Reset, ApplicationResets, PowerCut, Restarted
<1>14. ~Silence BY <1>2 DEF Silence
<1>15. WriteValid => job.from = "end" BY <1>1 DEF WriteValid
<1> QED BY <1>5, <1>6, <1>7, <1>8, <1>9, <1>10, <1>11, <1>12, <1>13, <1>14, <1>15
        DEF Step, Next, BoardStep, BoardFails, CopyStep, StartStep

\* An answer has at most two messages.
LEMMA AnswerIs ==
  ASSUME Step
  PROVE  answer' = <<>> \/ (\E a : answer' = <<a>>) \/ (\E a, b : answer' = <<a, b>>)
<1> DEFINE Short(x) == x = <<>> \/ (\E a : x = <<a>>) \/ (\E a, b : x = <<a, b>>)
<1> SUFFICES Short(answer') OBVIOUS
<1>1. ASSUME NEW x, x = <<>> PROVE Short(x) BY <1>1
<1>2. ASSUME NEW x, NEW a, x = <<a>> PROVE Short(x) BY <1>2
<1>3. ASSUME NEW x, NEW a, NEW b, x = <<a, b>> PROVE Short(x) BY <1>3
<1> HIDE DEF Short
<1>4. \A a : GiveUp(a) => answer' = a BY DEF GiveUp
<1>5. HostFrame \/ AnyData => Short(answer')
  <2>1. \A size, hw : HandleStartUpdate(size, hw) => Short(answer') BY <1>2 DEF HandleStartUpdate
  <2>2. \A x : HandleHmacChunk(x) \/ HandleImageHeaderChunk(x) \/ HandleDowngradeTokenChunk(x) \/ HandleData(x) => Short(answer')
    BY <1>1 DEF HandleHmacChunk, HandleImageHeaderChunk, HandleDowngradeTokenChunk, HandleData
  <2>3. HandleDowngradeNonceRequest \/ (\E r : HandleEndUpdate(r)) => Short(answer')
    BY <1>1, <1>2 DEF HandleDowngradeNonceRequest, HandleEndUpdate
  <2>4. HandleVersionQuery => Short(answer') BY <1>3 DEF HandleVersionQuery
  <2>5. \A n : HandleReadbackStart(n) => Short(answer') BY <1>3 DEF HandleReadbackStart
  <2> QED BY <2>1, <2>2, <2>3, <2>4, <2>5 DEF HostFrame, AnyData
<1>6. ErasePage \/ ErasePageFails => Short(answer') BY <1>1, <1>2, <1>3 DEF ErasePage, ErasePageFails
<1>7. FlushPageBuffer \/ FlushFails => Short(answer') BY <1>2, <1>4 DEF FlushPageBuffer, FlushFails
<1>8. VerifyUpdate => Short(answer') BY <1>2, <1>3, <1>4 DEF VerifyUpdate
<1>9. WritePending \/ CopyErases \/ CopyRegion \/ WriteValid => Short(answer')
  BY <1>1, <1>2 DEF WritePending, CopyErases, CopyRegion, WriteValid
<1>10. CopyFails \/ WriteFails => Short(answer') BY <1>1, <1>2, <1>4 DEF CopyFails, WriteFails, CopyGivesUp
<1>11. ApplicationIsValid \/ WriteAdopted \/ WindowEnds => Short(answer')
  BY <1>1, <1>2 DEF ApplicationIsValid, WriteAdopted, WindowEnds
<1>12. Reset \/ ApplicationResets \/ PowerCut \/ Silence => Short(answer')
  BY <1>1, <1>2 DEF Reset, ApplicationResets, PowerCut, Restarted, Silence
<1> QED BY <1>5, <1>6, <1>7, <1>8, <1>9, <1>10, <1>11, <1>12
        DEF Step, Next, BoardStep, BoardFails, CopyStep, StartStep

\* An update whose image is in place and whose record is valid, and a board that rests on it.
InForce == meta.state = "valid" /\ Content(main, meta.size) = meta.image
Resting == InForce /\ ~s.inProgress /\ job.pc \in {"boot", "window", "idle", "app"}

LEMMA OkIsInForce ==
  ASSUME Assumptions, CoreInv, Step, VerifyOk \in Told'
  PROVE  InForce' /\ job'.pc = "reset"
<1>1. WriteValid /\ job.from = "end" BY OnlyValidSaysOk
<1>2. /\ job.pc = "done" /\ UNCHANGED <<main, backup, s>> /\ job'.pc = "reset"
      /\ meta'.state = "valid" /\ meta'.size = meta.size /\ meta'.image = meta.image
  BY <1>1, ValidLeads DEF CoreInv, Assumptions
<1>3. meta.image = Content(backup, meta.size) BY <1>1, <1>2 DEF CoreInv, OfSession, Copying
<1>4. \A i \in 1..meta.size : main[i] = backup[i] BY <1>2 DEF CoreInv, Progress
<1> QED BY <1>2, <1>3, <1>4 DEF InForce, Content

\* What the bootloader does on its own, without a frame of the host.
OwnStep == BoardStep \/ BoardFails \/ Silence \/ ApplicationResets \/ PowerCut

\* Nothing but a frame of the host ends the rest.
LEMMA RestStays ==
  ASSUME Assumptions, CoreInv, OwnStep, InForce, job.pc = "reset" \/ Resting
  PROVE  Resting'
<1> USE DEF Assumptions, CoreInv
<1>1. meta # NoMeta BY DEF InForce, NoMeta
<1>2. job.pc \in {"reset", "boot", "window", "idle", "app"} BY DEF Resting
<1>3. /\ UNCHANGED <<main, meta>> /\ ~s'.inProgress
      /\ job'.pc \in {"boot", "window", "idle", "app"}
  <2>1. CASE ApplicationIsValid BY <1>1, <2>1, BootLeads DEF Resting, InForce
  <2>2. CASE WindowEnds
    BY <2>2, JobsAre DEF WindowEnds, Resting, flash, Pcs
  <2>3. CASE Reset \/ ApplicationResets
    BY <2>3, JobsAre DEF Reset, ApplicationResets, Restarted, NoSession, flash, Pcs
  <2>4. CASE PowerCut BY <1>2, <2>4, CutLeads DEF NoSession
  <2>5. CASE Silence BY <2>5 DEF Silence, Receiving, Resting
  <2> QED BY <1>2, <2>1, <2>2, <2>3, <2>4, <2>5
          DEF OwnStep, BoardStep, BoardFails, CopyStep, StartStep, ErasePage, FlushPageBuffer, VerifyUpdate, WritePending,
              CopyErases, CopyRegion, WriteValid, WriteAdopted, ErasePageFails, FlushFails, CopyFails, WriteFails
<1> QED BY <1>3 DEF Resting, InForce, Content

LEMMA OkStep ==
  ASSUME Assumptions, CoreInv, HardwareInv, OkMeansInstalled, [Step]_vars
  PROVE  OkMeansInstalled'
<1> USE DEF Assumptions, CoreInv
<1>1. CASE UNCHANGED vars BY <1>1 DEF vars, OkMeansInstalled, Holds, Content
<1>2. CASE Step
  <2>1. SUFFICES ASSUME VerifyOk \in Told'
                 PROVE  /\ meta'.state = "valid" /\ meta'.hw = ThisHw
                        /\ \E r \in Names : /\ Holds(main', r) /\ meta'.image = Image(r)
                                            /\ meta'.version = Releases[r].version /\ s'.header = ChunksOf(r)
    BY DEF OkMeansInstalled, Told, VerifyOk, Holds, Content
  <2>2. WriteValid /\ job.from = "end" BY <1>2, <2>1, OnlyValidSaysOk
  <2>3. /\ job.pc = "done" /\ UNCHANGED <<main, backup, s>>
        /\ meta'.state = "valid" /\ meta'.hw = meta.hw /\ meta'.version = meta.version
        /\ meta'.size = meta.size /\ meta'.image = meta.image
    BY <2>2, ValidLeads
  <2>4. PICK r \in Names :
          /\ meta.image = Image(r) /\ meta.size = Releases[r].size /\ meta.version = Releases[r].version
          /\ meta.hw = s.hw /\ s.header = ChunksOf(r)
          /\ Content(backup, meta.size) = Image(r)
    BY <2>2, <2>3 DEF OfSession, Copying
  <2>5. s.hw = ThisHw BY <2>2, <2>3 DEF HardwareInv, Busy, Copying
  <2>6. Holds(main', r)
    <3>1. \A i \in 1..meta.size : main[i] = backup[i] BY <2>3 DEF Progress
    <3> QED BY <2>3, <2>4, <3>1 DEF Holds, Content
  <2> QED BY <2>3, <2>4, <2>5, <2>6
<1> QED BY <1>1, <1>2

\* What VERIFY_OK says is so, also when flash operations fail: the image of the release the
\* session brought is in the main slot, and its record is in force (HandleEndUpdate).
THEOREM OkSaysInstalled ==
  ASSUME Assumptions, OneHardware PROVE Spec => []OkMeansInstalled
<1>1. Init => OkMeansInstalled BY DEF Init, OkMeansInstalled
<1>2. CoreInv /\ HardwareInv /\ OkMeansInstalled /\ [Step]_vars => OkMeansInstalled' BY OkStep
<1> QED BY <1>1, <1>2, HardwareCorrect, PTL DEF Spec, Step

-----------------------------------------------------------------------------
(* Where no flash operation fails: the log may be lost (the H745).          *)

\* One of the two slots holds what the board can start: the main slot, or the backup slot
\* while the record says that it is being copied.
QuietInv ==
    /\ meta.state = "pending" =>
         /\ job.pc \in Copying \cup {"boot"}
         /\ meta.hw = ThisHw /\ Content(backup, meta.size) = meta.image
    /\ meta.state = "valid" => meta.hw = ThisHw /\ Checks(meta)
    /\ meta # NoMeta => GoodRecord(meta)
    /\ WholeMain \/ (meta.state = "pending" /\ job.pc \in {"boot", "copyErase", "copy"})
    /\ job.pc = "adopt" => meta = NoMeta
    /\ job.pc = "window" => job.valid

LEMMA NothingFails ==
  ASSUME MaxFaults = 0, Shape
  PROVE  ~ErasePageFails /\ ~CopyFails /\ ~WriteFails
BY DEF Shape, TypeOK, ErasePageFails, CopyFails, WriteFails, FlashFails

LEMMA FirstWordOfWhole ==
  ASSUME CoreAssumption, WholeMain
  PROVE  FALSE \notin MayPass(main[1])
<1>1. PICK r \in Names : Holds(main, r) BY DEF WholeMain
<1>2. main[1] = <<r, 1>> BY <1>1 DEF Holds, Content, Image, CoreAssumption, Names
<1>3. main[1] # Blank /\ main[1] # Torn
  <2>1. main[1][2] = 1 BY <1>2
  <2> QED BY <2>1 DEF Blank, Torn
<1>4. MayPass(main[1]) = {TRUE} BY <1>3 DEF MayPass
<1> QED BY <1>4

LEMMA QuietStep ==
  ASSUME Assumptions, MaxFaults = 0, CoreInv, HardwareInv, QuietInv, [Step]_vars
  PROVE  QuietInv'
<1> USE DEF Assumptions, CoreInv
<1>1. CASE Other
  <2>1. UNCHANGED <<main, meta>> /\ job'.pc # "adopt" /\ (job'.pc = "window" => job'.valid) /\ meta.state # "pending"
    BY <1>1, NothingFails DEF Other, QuietInv
  <2>2. WholeMain BY <2>1 DEF QuietInv
  <2> QED BY <2>1, <2>2 DEF QuietInv, WholeMain, Holds, Content, GoodRecord, Checks
<1>2. CASE UNCHANGED vars BY <1>2 DEF vars, QuietInv, WholeMain, Holds, Content, GoodRecord, Checks
<1>3. CASE WritePending
  <2>1. PICK r \in Names :
           /\ SignedHere(r) /\ meta'.image = Image(r) /\ meta'.size = Releases[r].size
           /\ meta'.state = "pending" /\ meta'.hw = s.hw
           /\ Content(backup, meta'.size) = Image(r)
           /\ UNCHANGED <<main, backup, s>> /\ job.pc = "pend"
           /\ job'.pc \in {"copyErase", "copy"}
    BY <1>3, PendingLeads
  <2>2. GoodRecord(meta') BY <2>1, PendingIsGood
  <2>3. Content(backup, meta.size)' = meta'.image BY <2>1 DEF Content
  <2>4. meta'.hw = ThisHw BY <2>1 DEF HardwareInv, Busy
  <2>5. WholeMain' BY <2>1 DEF QuietInv, WholeMain, Holds, Content
  <2> QED BY <2>1, <2>2, <2>3, <2>4, <2>5 DEF QuietInv, Copying
<1>4. CASE CopyErases
  <2>1. meta.state = "pending" /\ UNCHANGED <<meta, backup>> /\ job'.pc \in {"copyErase", "copy"}
    BY <1>4, EraseLeads DEF Progress, Copying
  <2> QED BY <2>1 DEF QuietInv, Copying, Content, GoodRecord
<1>5. CASE CopyRegion
  <2>1. meta.state = "pending" /\ UNCHANGED <<meta, backup>> /\ job'.pc \in {"copy", "done"} /\ meta # NoMeta
    BY <1>5, CopyLeads DEF Progress, Copying, CopyRegion, NoMeta
  <2>2. CASE job'.pc = "copy" BY <2>1, <2>2 DEF QuietInv, Copying, Content, GoodRecord
  <2>3. CASE job'.pc = "done"
    <3>1. \A i \in 1..meta.size : main'[i] = backup[i] BY <1>5, <2>3, CopyLeads
    <3>2. \A i \in 1..meta.size : backup[i] = meta.image[i] BY <2>1 DEF QuietInv, Content
    <3>3. WholeMain' BY <2>1, <3>1, <3>2, WholeWhenLike DEF QuietInv, WholeMain, Holds, Content
    <3> QED BY <2>1, <2>3, <3>3 DEF QuietInv, Copying, Content, GoodRecord
  <2> QED BY <2>1, <2>2, <2>3
<1>6. CASE WriteValid
  <2>1. /\ meta.state = "pending" /\ meta # NoMeta /\ UNCHANGED <<main, backup>> /\ meta'.state = "valid"
        /\ meta'.hw = meta.hw /\ meta'.size = meta.size /\ meta'.image = meta.image /\ job.pc = "done"
        /\ job'.pc \in {"reset", "window"} /\ (job'.pc = "window" => job'.valid = Checks(meta'))
    BY <1>6, ValidLeads DEF Progress, Copying, NoMeta
  <2>2. GoodRecord(meta') BY <2>1 DEF QuietInv, GoodRecord
  <2>3. \A i \in 1..meta.size : main[i] = backup[i] BY <2>1 DEF Progress
  <2>4. Content(main, meta.size) = meta.image BY <2>1, <2>3 DEF QuietInv, Content
  <2>5. Checks(meta') /\ Checks(meta)' BY <2>1, <2>4 DEF Checks, Content
  <2>6. WholeMain' BY <2>1 DEF QuietInv, WholeMain, Holds, Content
  <2> QED BY <2>1, <2>2, <2>5, <2>6 DEF QuietInv
<1>7. CASE ApplicationIsValid
  <2>1. UNCHANGED <<main, backup, meta>> BY <1>7, BootLeads
  <2>2. /\ job'.pc = "window" => job'.valid
        /\ job'.pc = "adopt" => meta = NoMeta
        /\ meta.state = "pending" => job'.pc \in {"copyErase", "copy"}
    <3>1. CASE meta = NoMeta
      <4>1. WholeMain BY <3>1 DEF QuietInv, NoMeta
      <4> QED BY <1>7, <3>1, <4>1, BootLeads, FirstWordOfWhole DEF NoMeta
    <3>2. CASE meta # NoMeta
      <4>1. /\ meta.state \in {"pending", "valid"} /\ meta.size \in 1..Slot /\ meta.hw = ThisHw
            /\ meta.state # "pending" => Checks(meta)
        BY <3>2 DEF Progress, QuietInv
      <4>2. CASE meta.state = "pending"
        <5>1. meta.hw = ThisHw /\ meta.size \in 1..Slot BY <4>1
        <5> QED BY <1>7, <3>2, <4>2, <5>1, BootLeads
      <4>3. CASE meta.state # "pending" BY <1>7, <3>2, <4>1, <4>3, BootLeads
      <4> QED BY <4>2, <4>3
    <3> QED BY <3>1, <3>2
  <2> QED BY <1>7, <2>1, <2>2 DEF QuietInv, WholeMain, Holds, Content, GoodRecord, Checks, Copying
<1>8. CASE WriteAdopted
  <2>1. /\ job.pc = "adopt" /\ UNCHANGED <<main, backup>> /\ job'.pc = "window" /\ job'.valid /\ meta = NoMeta
        /\ meta'.state = "valid" /\ meta'.hw = ThisHw /\ meta'.size = Slot /\ meta'.image = Content(main, Slot)
    BY <1>8, AdoptLeads DEF QuietInv
  <2>2. WholeMain BY <2>1 DEF QuietInv, NoMeta
  <2>3. GoodRecord(meta') BY <1>8, <2>2, AdoptedIsGood DEF WriteAdopted
  <2>4. WholeMain' BY <2>1, <2>2 DEF WholeMain, Holds, Content
  <2>5. Checks(meta)' BY <2>1 DEF Checks, Content
  <2> QED BY <2>1, <2>3, <2>4, <2>5 DEF QuietInv
<1>9. CASE PowerCut
  <2>1. job'.pc = "boot" /\ (meta' = meta \/ meta' = NoMeta) BY <1>9, CutLeads
  <2>2. CASE meta' = meta
    <3>1. CASE meta.state = "pending"
      <4>1. backup' = backup BY <1>9, <3>1, CutLeads DEF QuietInv, Copying
      <4> QED BY <2>1, <2>2, <3>1, <4>1 DEF QuietInv, Content, GoodRecord
    <3>2. CASE meta.state # "pending"
      <4>1. main' = main /\ WholeMain BY <1>9, <3>2, CutLeads DEF QuietInv, Progress, Copying
      <4> QED BY <2>1, <2>2, <3>2, <4>1 DEF QuietInv, WholeMain, Holds, Content, GoodRecord, Checks
    <3> QED BY <3>1, <3>2
  <2>3. CASE meta' # meta
    <3>1. job.pc \in {"pend", "done", "adopt"} /\ main' = main /\ meta' = NoMeta BY <1>9, <2>3, CutLeads
    <3>2. WholeMain BY <3>1 DEF QuietInv
    <3>3. WholeMain' BY <3>1, <3>2 DEF WholeMain, Holds, Content
    <3> QED BY <2>1, <3>1, <3>3 DEF QuietInv, NoMeta
  <2> QED BY <2>1, <2>2, <2>3
<1> QED BY <1>1, <1>2, <1>3, <1>4, <1>5, <1>6, <1>7, <1>8, <1>9, Steps, NothingFails

LEMMA QuietCorrect ==
  ASSUME Assumptions, FactoryAssumption, Quiet PROVE Spec => [](CoreInv /\ HardwareInv /\ QuietInv)
<1>1. Init => QuietInv
  <2>1. Init => WholeMain /\ job.pc = "boot" /\ meta = NoMeta BY SafeInit, InitIs DEF Assumptions
  <2> QED BY <2>1 DEF QuietInv, NoMeta
<1>2. CoreInv /\ HardwareInv /\ QuietInv /\ [Step]_vars => QuietInv' BY QuietStep DEF Quiet
<1>3. Spec => [](CoreInv /\ HardwareInv) BY HardwareCorrect DEF Quiet
<1> QED BY <1>1, <1>2, <1>3, PTL DEF Spec, Step

\* The same as BoardStartsOnlyWholeSigned for a bootloader whose log a cut may lose, as long as
\* no flash operation fails.
THEOREM QuietStartsOnlyWholeSigned ==
  ASSUME Assumptions, FactoryAssumption, Quiet PROVE Spec => []StartsOnlyWholeSigned
<1>1. QuietInv => StartsOnlyWholeSigned
  BY DEF QuietInv, StartsOnlyWholeSigned, WholeMain, SignedHere
<1> QED BY <1>1, QuietCorrect, PTL

\* At whichever step of an update the power is cut, and how often, there is an application to
\* start after every reset.
THEOREM ACutStrandsNoBoard ==
  ASSUME Assumptions, FactoryAssumption, Quiet PROVE Spec => []ACutNeverStrandsTheBoard
<1>1. QuietInv => ACutNeverStrandsTheBoard BY DEF QuietInv, ACutNeverStrandsTheBoard
<1> QED BY <1>1, QuietCorrect, PTL

\* The main slot is only touched while the backup slot holds what the record was made for.
THEOREM OnlyTheVerifiedIsCopied ==
  ASSUME Assumptions, FactoryAssumption, Quiet PROVE Spec => CopiesOnlyTheVerified
<1>1. ASSUME CoreInv, QuietInv, [Step]_vars, main' # main PROVE Content(backup, meta.size) = meta.image
  <2>1. job.pc \in {"copyErase", "copy"}
    BY <1>1, Steps, PendingLeads, ValidLeads, BootLeads, AdoptLeads, CutLeads, NothingFails
    DEF Other, vars, CopyErases, CopyRegion, CoreInv, Assumptions, Quiet
  <2> QED BY <1>1, <2>1 DEF CoreInv, Progress, QuietInv, Copying
<1>2. CoreInv /\ QuietInv /\ [Step]_vars => [main' # main => Content(backup, meta.size) = meta.image]_vars BY <1>1
<1> QED BY <1>2, QuietCorrect, PTL DEF Spec, Step, CopiesOnlyTheVerified

\* The version goes down only in the session a token was made for (CheckRollback,
\* DowngradeAuthorized), over any number of updates and cuts.
THEOREM VersionGoesForward ==
  ASSUME Assumptions, FactoryAssumption, Quiet, ~MayLose PROVE Spec => VersionOnlyForward
<1>1. ASSUME CoreInv, HardwareInv, QuietInv, [Step]_vars PROVE GoesForward
  <2>1. meta.version \in [1..3 -> Nat] /\ meta'.version \in [1..3 -> Nat]
    BY <1>1, CoreInvStep DEF CoreInv, Shape, TypeOK, Records
  <2>2. CASE meta'.version = meta.version BY <2>1, <2>2, CompareIs DEF GoesForward
  <2>3. CASE WritePending
    <3>1. /\ \/ Installed = <<>>
             \/ VersionCompare(meta'.version, Installed) > 0
             \/ \E t \in Tokens : t[2] = s.nonce /\ Releases[t[1]].version = meta'.version
          /\ job.pc = "pend"
      BY <1>1, <2>3, PendingLeads DEF CoreInv, Assumptions
    <3>2. CASE meta = NoMeta BY <2>1, <3>2, CompareIs DEF GoesForward, NoMeta
    <3>3. CASE meta # NoMeta
      <4>1. meta.state = "valid" BY <1>1, <3>1, <3>3 DEF CoreInv, Progress, QuietInv, Copying
      <4>2. Installed = meta.version /\ Installed # <<>>
        <5>1. Installed = meta.version BY <4>1 DEF Installed
        <5>2. DOMAIN meta.version = 1..3 /\ 1 \in 1..3 BY <2>1
        <5>3. 1 \notin DOMAIN <<>> OBVIOUS
        <5> QED BY <5>1, <5>2, <5>3
      <4>3. VersionCompare(meta'.version, meta.version) \in {0, 1, -1} BY DEF VersionCompare
      <4> QED BY <3>1, <4>2, <4>3 DEF GoesForward
    <3> QED BY <3>2, <3>3
  <2>4. CASE WriteValid BY <1>1, <2>2, <2>4, ValidLeads DEF CoreInv, Assumptions
  <2>5. CASE WriteAdopted
    BY <1>1, <2>1, <2>5, AdoptLeads, CompareIs DEF GoesForward, QuietInv, NoMeta, CoreInv, Assumptions
  <2> QED BY <1>1, <2>2, <2>3, <2>4, <2>5, PendingStays
<1>2. CoreInv /\ HardwareInv /\ QuietInv /\ [Step]_vars => [GoesForward]_vars BY <1>1
<1> QED BY <1>2, QuietCorrect, PTL DEF Spec, Step, VersionOnlyForward
-----------------------------------------------------------------------------
(* What a PAGE_ACK says.                                                    *)

\* A page that is about to be written has something in it.
FlushIs == job.pc \in {"flush", "flushLast"} => Len(s.received) > s.page * Page

\* The page of the message is one that session u has received and written.
AckIsTrue(m, u) == m[1] = "page_ack" => u.page > m[2] /\ PagesOf(Len(u.received)) > m[2]

\* Session u has at least what session v has.
HoldsMore(u, v) == u.page >= v.page /\ Len(u.received) >= Len(v.received)

\* A step forgets what a session received only when it opens another, which it says, or
\* when the chip starts again.
Opens == /\ job.pc = "erase" /\ job'.pc = "idle"
         /\ answer' # <<>> /\ Told' \subseteq {<<"receiving">>, <<"listening">>}
StartsAgain == Reset \/ ApplicationResets \/ PowerCut

\* What the bootloader does on its own short of starting again.
Works == ErasePage \/ FlushPageBuffer \/ VerifyUpdate \/ CopyStep \/ ApplicationIsValid \/ WriteAdopted
         \/ WindowEnds \/ BoardFails \/ Silence

LEMMA MorePages ==
  ASSUME NEW P \in Nat \ {0}, NEW n \in Nat, NEW q \in Nat, n > q * P
  PROVE  (n + P - 1) \div P > q
OBVIOUS

LEMMA MoreIsMore ==
  ASSUME NEW P \in Nat \ {0}, NEW n \in Nat, NEW k \in Nat, k >= n
  PROVE  (k + P - 1) \div P >= (n + P - 1) \div P
OBVIOUS

\* An acknowledgement stays true while the session gets more.
LEMMA AckStays ==
  ASSUME CoreAssumption, NEW m, NEW u \in Sessions, NEW v \in Sessions, AckIsTrue(m, v), HoldsMore(u, v),
         m[1] = "page_ack" => m[2] \in Nat
  PROVE  AckIsTrue(m, u)
<1>1. Len(u.received) \in Nat /\ Len(v.received) \in Nat /\ u.page \in Nat /\ v.page \in Nat BY DEF Sessions
<1>2. PagesOf(Len(u.received)) >= PagesOf(Len(v.received))
  BY <1>1, MoreIsMore DEF PagesOf, CoreAssumption, HoldsMore
<1>3. PagesOf(Len(u.received)) \in Int /\ PagesOf(Len(v.received)) \in Int BY <1>1 DEF PagesOf, CoreAssumption
<1> QED BY <1>1, <1>2, <1>3 DEF AckIsTrue, HoldsMore

\* What a step says of a page is so, and the session gets more.
AckFine ==
    /\ FlushIs'
    /\ \A m \in Told' : AckIsTrue(m, s') /\ (m[1] = "page_ack" => m[2] \in Nat)
    /\ HoldsMore(s', s) \/ Opens \/ StartsAgain

LEMMA AckStep ==
  ASSUME CoreAssumption, Shape, FlushIs, Step
  PROVE  AckFine
<1> DEFINE SaysNoAck(x) == x = <<>> \/ (\E a : x = <<a>> /\ a[1] # "page_ack")
                           \/ (\E a, b : x = <<a, b>> /\ a[1] # "page_ack" /\ b[1] # "page_ack")
           Same == s'.page = s.page /\ s'.received = s.received
           NoFlush == job'.pc \notin {"flush", "flushLast"}
<1>0. /\ s \in Sessions /\ s.page \in Nat /\ Len(s.received) \in Nat /\ s.received \in Seq(Units)
      /\ job \in Jobs
  BY DEF Shape, TypeOK, Sessions
<1>a. ASSUME NEW x, x = <<>> PROVE SaysNoAck(x) BY <1>a
<1>b. ASSUME NEW x, NEW a, x = <<a>>, a[1] # "page_ack" PROVE SaysNoAck(x) BY <1>b
<1>c. ASSUME NEW x, NEW a, NEW b, x = <<a, b>>, a[1] # "page_ack", b[1] # "page_ack" PROVE SaysNoAck(x) BY <1>c
<1>d. SaysNoAck(answer') => \A m \in Told' : AckIsTrue(m, s') /\ (m[1] = "page_ack" => m[2] \in Nat)
  BY DEF Told, AckIsTrue
<1> HIDE DEF SaysNoAck
<1>e. Same => HoldsMore(s', s) BY <1>0 DEF HoldsMore
<1>f. NoFlush => FlushIs' BY DEF FlushIs
<1>g. Same /\ job' = job => FlushIs' BY DEF FlushIs
<1>h. SaysNoAck(answer') /\ (NoFlush \/ job' = job) /\ Same => AckFine BY <1>d, <1>e, <1>f, <1>g DEF AckFine
<1>i. \A told : GiveUp(told) => Same /\ NoFlush /\ answer' = told
  BY <1>0 DEF GiveUp, Doing, Sessions
<1>1. ASSUME NEW size, NEW hw, HandleStartUpdate(size, hw) PROVE AckFine
  <2>1. Same BY <1>0, <1>1 DEF HandleStartUpdate, Sessions
  <2>2. NoFlush \/ job' = job BY <1>0, <1>1 DEF HandleStartUpdate, Jobs
  <2>3. SaysNoAck(answer') BY <1>1, <1>b DEF HandleStartUpdate
  <2> QED BY <2>1, <2>2, <2>3, <1>h
<1>2. ASSUME NEW x, HandleHmacChunk(x) \/ HandleImageHeaderChunk(x) \/ HandleDowngradeTokenChunk(x) PROVE AckFine
  <2>1. Same BY <1>0, <1>2 DEF HandleHmacChunk, HandleImageHeaderChunk, HandleDowngradeTokenChunk, Sessions
  <2>2. job' = job /\ answer' = <<>> BY <1>2 DEF HandleHmacChunk, HandleImageHeaderChunk, HandleDowngradeTokenChunk
  <2> QED BY <2>1, <2>2, <1>a, <1>h
<1>3. ASSUME NEW r \in Names, NEW i \in DOMAIN Image(r), HandleData(<<r, i>>) PROVE AckFine
  <2>0. <<r, i>> \in Units BY <1>3, UnitsAre DEF Image
  <2>1. s'.page = s.page /\ s'.received = Append(s.received, <<r, i>>) BY <1>0, <1>3 DEF HandleData, Sessions
  <2>2. Len(s'.received) = Len(s.received) + 1 BY <1>0, <2>0, <2>1
  <2>3. HoldsMore(s', s) BY <1>0, <2>1, <2>2 DEF HoldsMore
  <2>4. SaysNoAck(answer') BY <1>3, <1>a DEF HandleData
  <2>5. FlushIs'
    <3>1. CASE Len(s'.received) = (s.page + 1) * Page
      <4>1. (s.page + 1) * Page > s.page * Page BY <1>0 DEF CoreAssumption
      <4> QED BY <2>1, <3>1, <4>1 DEF FlushIs
    <3>2. CASE Len(s'.received) # (s.page + 1) * Page
      <4>1. job' = job /\ job.pc = "idle" BY <1>3, <3>2 DEF HandleData, Receiving
      <4> QED BY <4>1 DEF FlushIs
    <3> QED BY <3>1, <3>2
  <2> QED BY <2>3, <2>4, <2>5, <1>d DEF AckFine
<1>4. ASSUME NEW r \in Names, HandleEndUpdate(r) PROVE AckFine
  <2>1. Same /\ answer' = <<>> BY <1>4 DEF HandleEndUpdate
  <2>2. FlushIs'
    <3>1. CASE Len(s.received) > s.page * Page BY <2>1, <3>1 DEF FlushIs
    <3>2. CASE ~(Len(s.received) > s.page * Page)
      <4>1. job'.pc = "verify" BY <1>0, <1>4, <3>2 DEF HandleEndUpdate, At, Jobs
      <4> QED BY <4>1 DEF FlushIs
    <3> QED BY <3>1, <3>2
  <2> QED BY <2>1, <2>2, <1>a, <1>d, <1>e DEF AckFine
<1>5. ASSUME NEW n, HandleDowngradeNonceRequest \/ HandleVersionQuery \/ HandleReadbackStart(n) PROVE AckFine
  <2>1. Same /\ job' = job BY <1>5 DEF HandleDowngradeNonceRequest, HandleVersionQuery, HandleReadbackStart
  <2>2. HandleDowngradeNonceRequest => SaysNoAck(answer') BY <1>b DEF HandleDowngradeNonceRequest
  <2>3. HandleVersionQuery => SaysNoAck(answer') BY <1>c DEF HandleVersionQuery
  <2>4. HandleReadbackStart(n) => SaysNoAck(answer') BY <1>c DEF HandleReadbackStart
  <2> QED BY <1>5, <2>1, <2>2, <2>3, <2>4, <1>h
<1>6. HostFrame \/ AnyData => AckFine BY <1>1, <1>2, <1>3, <1>4, <1>5 DEF HostFrame, AnyData
<1>7. CASE ErasePage
  <2>1. CASE job.page + 1 < PagesOf(s.total)
    <3>1. Same /\ answer' = <<>> /\ job'.pc = "erase" BY <1>0, <1>7, <2>1 DEF ErasePage, Jobs
    <3> QED BY <3>1, <1>a, <1>h
  <2>2. CASE ~(job.page + 1 < PagesOf(s.total))
    <3>1. job'.pc = "idle" BY <1>7, <2>2 DEF ErasePage, Doing
    <3>2. SaysNoAck(answer') /\ answer' # <<>> BY <1>7, <2>2, <1>b, <1>c DEF ErasePage
    <3>3. answer' = <<<<"receiving">>>> \/ answer' = <<<<"receiving">>, <<"listening">>>>
      BY <1>7, <2>2 DEF ErasePage
    <3>4. Told' \subseteq {<<"receiving">>, <<"listening">>}
      <4>1. CASE answer' = <<<<"receiving">>>> BY <4>1 DEF Told
      <4>2. CASE answer' = <<<<"receiving">>, <<"listening">>>> BY <4>2 DEF Told
      <4> QED BY <3>3, <4>1, <4>2
    <3>5. Opens BY <1>7, <3>1, <3>2, <3>4 DEF ErasePage, Opens
    <3> QED BY <3>1, <3>2, <3>5, <1>d, <1>f DEF AckFine
  <2> QED BY <2>1, <2>2
<1>8. CASE ErasePageFails
  <2>1. Same /\ SaysNoAck(answer') BY <1>0, <1>8, <1>b DEF ErasePageFails, Sessions
  <2>2. NoFlush BY <1>0, <1>8, AtIs DEF ErasePageFails, Shape, Jobs, At
  <2> QED BY <2>1, <2>2, <1>h
<1>9. CASE FlushPageBuffer
  <2>1. /\ s'.page = s.page + 1 /\ s'.received = s.received /\ Len(s.received) > s.page * Page
        /\ answer' = <<<<"page_ack", s.page>>>>
    BY <1>0, <1>9 DEF FlushPageBuffer, FlushIs, Sessions
  <2>2. NoFlush BY <1>0, <1>9 DEF FlushPageBuffer, Doing, At, Jobs
  <2>3. PagesOf(Len(s'.received)) > s.page BY <1>0, <2>1, MorePages DEF PagesOf, CoreAssumption
  <2>4. Told' = {<<"page_ack", s.page>>} BY <2>1 DEF Told
  <2>5. AckIsTrue(<<"page_ack", s.page>>, s') BY <1>0, <2>1, <2>3 DEF AckIsTrue
  <2>6. HoldsMore(s', s) BY <1>0, <2>1 DEF HoldsMore
  <2> QED BY <1>0, <1>f, <2>2, <2>4, <2>5, <2>6 DEF AckFine
<1>10. CASE FlushFails BY <1>10, <1>i, <1>b, <1>h DEF FlushFails
<1>11. CASE VerifyUpdate
  <2>1. \A v : GiveUp(<<<<"verifying">>, <<"verify_fail", v>>>>) => AckFine
    <3>1. \A v : SaysNoAck(<<<<"verifying">>, <<"verify_fail", v>>>>) BY <1>c
    <3> QED BY <3>1, <1>i, <1>h
  <2>2. CASE Decide2(VerifyInput) = "ok"
    <3>1. Same /\ SaysNoAck(answer') BY <1>11, <2>2, <1>b DEF VerifyUpdate
    <3>2. NoFlush BY <1>0, <1>11, <2>2 DEF VerifyUpdate, At, Jobs
    <3> QED BY <3>1, <3>2, <1>h
  <2> QED BY <1>11, <2>1, <2>2 DEF VerifyUpdate
<1>12. CASE WritePending \/ CopyErases \/ CopyRegion \/ WriteValid
  <2>1. Same BY <1>12 DEF WritePending, CopyErases, CopyRegion, WriteValid
  <2>2. NoFlush
    <3>1. WritePending => NoFlush BY <1>0, FirstIs DEF WritePending, At, Jobs
    <3>2. CopyErases => NoFlush BY <1>0 DEF CopyErases, At, Jobs
    <3>3. CopyRegion => NoFlush BY <1>0 DEF CopyRegion, At, Jobs
    <3>4. WriteValid => NoFlush BY DEF WriteValid, Doing, Window
    <3> QED BY <1>12, <3>1, <3>2, <3>3, <3>4
  <2>3. SaysNoAck(answer') BY <1>12, <1>a, <1>b DEF WritePending, CopyErases, CopyRegion, WriteValid
  <2> QED BY <2>1, <2>2, <2>3, <1>h
<1>13. CASE CopyFails \/ WriteFails
  <2>1. CopyGivesUp => AckFine
    <3>1. CASE job.from = "end" BY <3>1, <1>i, <1>b, <1>h DEF CopyGivesUp
    <3>2. CASE job.from # "end" BY <3>2, <1>a, <1>h DEF CopyGivesUp, Window, Doing
    <3> QED BY <3>1, <3>2
  <2> QED BY <1>13, <2>1 DEF CopyFails, WriteFails
<1>14. CASE ApplicationIsValid \/ WriteAdopted \/ WindowEnds
  <2>1. Same BY <1>14 DEF ApplicationIsValid, WriteAdopted, WindowEnds
  <2>2. NoFlush BY <1>14 DEF ApplicationIsValid, WriteAdopted, WindowEnds, Window, Doing, FirstOfCopy
  <2>3. SaysNoAck(answer') BY <1>14, <1>a, <1>b DEF ApplicationIsValid, WriteAdopted, WindowEnds
  <2> QED BY <2>1, <2>2, <2>3, <1>h
<1>15. CASE StartsAgain
  <2>1. NoFlush /\ answer' = <<>> BY <1>15 DEF StartsAgain, Reset, ApplicationResets, PowerCut, Restarted, Doing
  <2> QED BY <1>15, <2>1, <1>a, <1>d, <1>f DEF AckFine
<1>16. CASE Silence
  <2>1. Same BY <1>0, <1>16 DEF Silence, Sessions
  <2> QED BY <1>16, <2>1, <1>b, <1>h DEF Silence
<1> QED BY <1>6, <1>7, <1>8, <1>9, <1>10, <1>11, <1>12, <1>13, <1>14, <1>15, <1>16
        DEF Step, Next, BoardStep, BoardFails, CopyStep, StartStep, StartsAgain

\* A step that starts again is no other step.
LEMMA WorksOn ==
  ASSUME Shape, HostFrame \/ AnyData \/ Works
  PROVE  ~StartsAgain
<1> DEFINE On == cuts' = cuts /\ job.pc # "reset"
<1>1. HostFrame \/ AnyData => On
  BY DEF HostFrame, AnyData, HandleStartUpdate, HandleHmacChunk, HandleImageHeaderChunk, HandleDowngradeTokenChunk,
         TakesChunk, HandleDowngradeNonceRequest, HandleVersionQuery, HandleReadbackStart, HandleData, HandleEndUpdate,
         Receiving, Listening, bounds
<1>2. ErasePage \/ ErasePageFails \/ FlushPageBuffer \/ FlushFails \/ VerifyUpdate => On
  BY DEF ErasePage, ErasePageFails, FlushPageBuffer, FlushFails, VerifyUpdate, FlashWorks, FlashFails, bounds
<1>3. CopyStep \/ CopyFails \/ WriteFails => On
  BY DEF CopyStep, WritePending, CopyErases, CopyRegion, WriteValid, CopyFails, WriteFails, FlashWorks, FlashFails, bounds
<1>4. ApplicationIsValid \/ WriteAdopted \/ WindowEnds \/ Silence => On
  BY DEF ApplicationIsValid, WriteAdopted, WindowEnds, Silence, Receiving, FlashWorks, bounds
<1>5. On BY <1>1, <1>2, <1>3, <1>4 DEF Works, BoardFails
<1>6. cuts \in Nat BY DEF Shape, TypeOK
<1> QED BY <1>5, <1>6 DEF StartsAgain, Reset, ApplicationResets, PowerCut

\* Only a START makes the bootloader erase.
LEMMA OnlyStartErases ==
  ASSUME CoreAssumption, Shape, OwnStep, job'.pc = "erase"
  PROVE  job.pc = "erase"
<1>0. job \in Jobs /\ (job.pc = "erase" => job.from \in {"window", "idle"}) BY DEF Shape, TypeOK
<1>1. \A told : GiveUp(told) => job'.pc = "idle" BY DEF GiveUp, Doing
<1>2. ~FlushPageBuffer /\ ~FlushFails /\ ~VerifyUpdate
  <2>1. ~FlushPageBuffer
    <3>1. At("verify").pc = "verify" BY <1>0, AtIs DEF At, Jobs
    <3>2. Doing("idle").pc = "idle" BY DEF Doing
    <3> QED BY <3>1, <3>2 DEF FlushPageBuffer
  <2>2. ~FlushFails BY <1>1 DEF FlushFails
  <2>3. ~VerifyUpdate
    <3>1. [At("pend") EXCEPT !.from = "end"].pc = "pend" BY <1>0, AtIs DEF At, Jobs
    <3> QED BY <1>1, <3>1 DEF VerifyUpdate
  <2> QED BY <2>1, <2>2, <2>3
<1>3. ~WritePending
  BY <1>0, FirstIs DEF WritePending, At, Jobs
<1>4. ~CopyErases /\ ~CopyRegion
  BY <1>0 DEF CopyErases, CopyRegion, At, Jobs
<1>5. ~WriteValid BY DEF WriteValid, Doing, Window
<1>6. ~CopyFails /\ ~WriteFails BY <1>1 DEF CopyFails, WriteFails, CopyGivesUp, Window, Doing
<1>7. ~ApplicationIsValid BY DEF ApplicationIsValid, Doing, Window, FirstOfCopy
<1>8. ~WriteAdopted /\ ~WindowEnds BY DEF WriteAdopted, WindowEnds, Doing, Window
<1>9. ~Reset /\ ~ApplicationResets /\ ~PowerCut BY DEF Reset, ApplicationResets, PowerCut, Restarted, Doing
<1>10. ~Silence BY DEF Silence, Receiving
<1> QED BY <1>2, <1>3, <1>4, <1>5, <1>6, <1>7, <1>8, <1>9, <1>10
        DEF OwnStep, BoardStep, BoardFails, CopyStep, StartStep, ErasePage, ErasePageFails

\* Before the start-up is over no page of a session has been written: a copy that END_UPDATE
\* did not begin is one the start-up makes again, and a START of the window is not through yet.
Early ==
    \/ job.pc \in {"boot", "adopt", "window"}
    \/ job.pc = "erase" /\ job.from = "window"
    \/ job.pc \in Copying /\ job.from # "end"
EarlyIs == Early => s.page = 0

LEMMA EarlyStep ==
  ASSUME CoreAssumption, Shape, EarlyIs, Step
  PROVE  EarlyIs'
<1>0. job \in Jobs /\ s \in Sessions /\ (job.pc = "pend" => job.from = "end") BY DEF Shape, TypeOK
<1>1. \A told : GiveUp(told) => ~Early' BY DEF GiveUp, Doing, Early, Copying
<1>2. UNCHANGED job /\ s'.page = s.page => EarlyIs' BY DEF EarlyIs, Early
<1>3. s'.page = s.page /\ Early => EarlyIs' BY DEF EarlyIs
<1>4. HostFrame \/ AnyData => EarlyIs'
  <2>1. ASSUME NEW size, NEW hw, HandleStartUpdate(size, hw) PROVE EarlyIs'
    <3>1. s'.page = s.page BY <1>0, <2>1 DEF HandleStartUpdate, Sessions
    <3>2. UNCHANGED job \/ (job'.pc = "erase" /\ job'.from = job.pc)
      BY <1>0, <2>1 DEF HandleStartUpdate, Jobs
    <3> QED BY <1>2, <3>1, <3>2 DEF EarlyIs, Early, Copying
  <2>2. ASSUME NEW x, HandleHmacChunk(x) \/ HandleImageHeaderChunk(x) \/ HandleDowngradeTokenChunk(x) PROVE EarlyIs'
    BY <1>0, <1>2, <2>2 DEF HandleHmacChunk, HandleImageHeaderChunk, HandleDowngradeTokenChunk, Sessions
  <2>3. ASSUME NEW x, HandleData(x) PROVE EarlyIs'
    <3>1. s'.page = s.page BY <1>0, <2>3 DEF HandleData, Sessions
    <3>2. UNCHANGED job \/ job'.pc = "flush" BY <1>0, <2>3 DEF HandleData, At, Jobs
    <3> QED BY <1>2, <3>1, <3>2 DEF EarlyIs, Early, Copying
  <2>4. ASSUME NEW r, HandleEndUpdate(r) PROVE EarlyIs'
    <3>1. job'.pc \in {"flushLast", "verify"} BY <1>0, <2>4 DEF HandleEndUpdate, At, Jobs
    <3> QED BY <3>1 DEF EarlyIs, Early, Copying
  <2>5. ASSUME NEW n, HandleDowngradeNonceRequest \/ HandleVersionQuery \/ HandleReadbackStart(n) PROVE EarlyIs'
    BY <1>2, <2>5 DEF HandleDowngradeNonceRequest, HandleVersionQuery, HandleReadbackStart
  <2> QED BY <2>1, <2>2, <2>3, <2>4, <2>5 DEF HostFrame, AnyData
<1>5. CASE ErasePage
  <2>1. CASE s'.page = s.page /\ job' = [job EXCEPT !.page = @ + 1]
    BY <1>0, <2>1 DEF EarlyIs, Early, Jobs
  <2>2. CASE job' = Doing("idle") BY <2>2 DEF EarlyIs, Early, Doing, Copying
  <2> QED BY <1>5, <2>1, <2>2 DEF ErasePage
<1>6. CASE ErasePageFails
  <2>1. s'.page = s.page /\ job.pc = "erase" /\ job'.pc = job.from /\ job.from \in {"window", "idle"}
    BY <1>0, <1>6 DEF ErasePageFails, At, Jobs, Sessions, Shape
  <2> QED BY <2>1 DEF EarlyIs, Early, Copying
<1>7. CASE FlushPageBuffer \/ FlushFails \/ VerifyUpdate
  <2>1. FlushPageBuffer => ~Early' BY <1>0 DEF FlushPageBuffer, Early, Copying, Doing, At, Jobs
  <2>2. VerifyUpdate => ~Early' BY <1>0, <1>1 DEF VerifyUpdate, Early, Copying, At, Jobs
  <2> QED BY <1>1, <1>7, <2>1, <2>2 DEF EarlyIs, FlushFails
<1>8. CASE WritePending
  <2>1. job'.from = "end" /\ job'.pc \in Copying BY <1>0, <1>8, FirstIs DEF WritePending, At, Jobs, Copying
  <2> QED BY <2>1 DEF EarlyIs, Early, Copying
<1>9. CASE CopyErases \/ CopyRegion
  <2>1. s' = s /\ job'.from = job.from /\ job.pc \in Copying /\ job'.pc \in Copying
    BY <1>0, <1>9 DEF CopyErases, CopyRegion, At, Jobs, Copying
  <2> QED BY <2>1 DEF EarlyIs, Early, Copying
<1>10. CASE WriteValid
  <2>1. CASE job.from = "end" BY <1>10, <2>1 DEF WriteValid, Doing, EarlyIs, Early, Copying
  <2>2. CASE job.from # "end" BY <1>10, <2>2 DEF WriteValid, EarlyIs, Early, Copying
  <2> QED BY <2>1, <2>2
<1>11. CASE CopyFails \/ WriteFails
  <2>1. job.pc \in Copying \/ job.pc = "adopt" \/ (job.pc = "pend" /\ job.from = "end")
    BY <1>0, <1>11 DEF CopyFails, WriteFails, Copying
  <2>2. CopyGivesUp BY <1>11 DEF CopyFails, WriteFails
  <2>3. CASE job.from = "end" BY <1>1, <2>2, <2>3 DEF CopyGivesUp, EarlyIs
  <2>4. CASE job.from # "end" BY <2>1, <2>2, <2>4 DEF CopyGivesUp, EarlyIs, Early
  <2> QED BY <2>3, <2>4
<1>12. CASE ApplicationIsValid \/ WriteAdopted \/ WindowEnds
  BY <1>12 DEF ApplicationIsValid, WriteAdopted, WindowEnds, EarlyIs, Early
<1>13. CASE StartsAgain
  BY <1>13 DEF StartsAgain, Reset, ApplicationResets, PowerCut, Restarted, NoSession, EarlyIs
<1>14. CASE Silence BY <1>0, <1>2, <1>14 DEF Silence, Sessions
<1> QED BY <1>4, <1>5, <1>6, <1>7, <1>8, <1>9, <1>10, <1>11, <1>12, <1>13, <1>14
        DEF Step, Next, BoardStep, BoardFails, CopyStep, StartStep, StartsAgain

-----------------------------------------------------------------------------
(* The same for a module that composes a board with others: both invariants *)
(* at the start, over a step, and what they say.                            *)
FaultyInv == CoreInv /\ SafeInv
QuietBoardInv == CoreInv /\ HardwareInv /\ QuietInv /\ OkMeansInstalled

LEMMA FaultyInit == Assumptions /\ FactoryAssumption /\ Init => FaultyInv
BY CoreInvInit, SafeInit DEF FaultyInv

LEMMA FaultyStep == Assumptions /\ ~MayLose /\ FaultyInv /\ [Step]_vars => FaultyInv'
BY CoreInvStep, SafeStep DEF FaultyInv

LEMMA FaultySays == FaultyInv => StartsOnlyWholeSigned
BY DEF FaultyInv, SafeInv, StartsOnlyWholeSigned, WholeMain, SignedHere

LEMMA QuietBoardInit == Assumptions /\ FactoryAssumption /\ Init => QuietBoardInv
<1> SUFFICES ASSUME Assumptions, FactoryAssumption, Init PROVE QuietBoardInv OBVIOUS
<1>1. CoreInv BY CoreInvInit
<1>2. HardwareInv BY InitIs DEF HardwareInv, Busy, NoSession, Copying, Assumptions
<1>3. QuietInv
  <2>1. WholeMain /\ job.pc = "boot" /\ meta = NoMeta BY SafeInit, InitIs DEF Assumptions
  <2> QED BY <2>1 DEF QuietInv, NoMeta
<1>4. OkMeansInstalled BY DEF Init, OkMeansInstalled
<1> QED BY <1>1, <1>2, <1>3, <1>4 DEF QuietBoardInv

LEMMA QuietBoardStep == Assumptions /\ Quiet /\ QuietBoardInv /\ [Step]_vars => QuietBoardInv'
<1> SUFFICES ASSUME Assumptions, Quiet, QuietBoardInv, [Step]_vars PROVE QuietBoardInv' OBVIOUS
<1>1. CoreInv /\ HardwareInv /\ QuietInv /\ OkMeansInstalled BY DEF QuietBoardInv
<1>2. MaxFaults = 0 /\ OneHardware BY DEF Quiet
<1>3. CoreInv' BY <1>1, CoreInvStep
<1>4. HardwareInv' BY <1>1, <1>2, HardwareStep
<1>5. QuietInv' BY <1>1, <1>2, QuietStep
<1>6. OkMeansInstalled' BY <1>1, OkStep
<1> QED BY <1>3, <1>4, <1>5, <1>6 DEF QuietBoardInv

LEMMA QuietBoardSays ==
  QuietBoardInv => StartsOnlyWholeSigned /\ ACutNeverStrandsTheBoard /\ OkMeansInstalled
BY DEF QuietBoardInv, QuietInv, StartsOnlyWholeSigned, ACutNeverStrandsTheBoard, WholeMain, SignedHere
=============================================================================
