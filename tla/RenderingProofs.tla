--------------------------- MODULE RenderingProofs ---------------------------
(***************************************************************************)
(* The walk over a file's boxes, the orientation it answers with, and the  *)
(* renders that follow, for every size of the head and of its headers,     *)
(* every file and every failure.                                           *)
(***************************************************************************)
EXTENDS Rendering, SequenceTheorems, WellFoundedInduction, TLAPS

\* What is walked at each level.
LEMMA Levelled ==
  /\ DOMAIN Wanted = {"top", "meta", "iprp", "ipco"}
  /\ Wanted["top"] = {"meta"} /\ Wanted["meta"] = {"pitm", "iprp"}
  /\ Wanted["iprp"] = {"ipco", "ipma"} /\ Wanted["ipco"] = {"irot", "imir"}
BY DEF Wanted

\* A header that read_box takes leads past itself, and not past the range.
LEMMA WellFormedMoves ==
  ASSUME WalkTypeOK, NEW raw \in Raw, WellFormed(raw)
  PROVE  /\ SizeOf(raw) \in Nat /\ SizeOf(raw) >= Header
         /\ pos + SizeOf(raw) \in Nat /\ pos + SizeOf(raw) <= end
         /\ BoxRef(raw) \in BoxRefs
         /\ BoxRef(raw).start <= BoxRef(raw).end /\ BoxRef(raw).end = pos + SizeOf(raw)
<1>1. pos \in Nat /\ end \in Nat /\ HeaderOf(raw) \in Nat /\ HeaderOf(raw) >= Header
  BY SizesAssumption DEF WalkTypeOK, HeaderOf
<1>2. SizeOf(raw) \in Int
  BY <1>1, SizesAssumption DEF SizeOf, Raw
<1>3. SizeOf(raw) >= HeaderOf(raw) /\ pos + SizeOf(raw) <= end
  BY DEF WellFormed
<1> HIDE DEF SizeOf, HeaderOf
<1> QED BY <1>1, <1>2, <1>3, SizesAssumption DEF BoxRef, BoxRefs

\* One more box is one more header.
LEMMA OneMore ==
  ASSUME NEW n \in Nat, NEW p \in Nat, NEW h \in Nat, NEW s \in Nat, n * h <= p, s >= h
  PROVE  (n + 1) * h <= p + s
<1>1. (n + 1) * h = n * h + h
  OBVIOUS
<1>2. n * h \in Nat
  OBVIOUS
<1> QED BY <1>1, <1>2

\* The initial state: the head is read from its start.
LEMMA InitReader == Init => ReaderInv
<1> SUFFICES ASSUME Init PROVE ReaderInv
  OBVIOUS
<1>1. WalkTypeOK
  BY SizesAssumption DEF Init, WalkTypeOK, NoBox, Levels
<1>2. WalkInside
  BY SizesAssumption DEF Init, WalkInside, NoBox, Wanted
<1>3. WalkProgresses
  BY SizesAssumption DEF Init, WalkProgresses
<1>4. ListIsComplete
  BY DEF Init, ListIsComplete
<1> QED BY <1>1, <1>2, <1>3, <1>4 DEF ReaderInv

\* An answer ends the walk.
LEMMA AnswerSafe == ASSUME NEW o, NEW m, Answer(o, m) PROVE ReaderInv'
<1>1. WalkTypeOK'
  BY DEF Answer, WalkTypeOK, NoBox, Levels
<1>2. WalkInside' /\ WalkProgresses' /\ ListIsComplete'
  BY Levelled, SizesAssumption DEF Answer, WalkInside, WalkProgresses, ListIsComplete, NoBox
<1> QED BY <1>1, <1>2 DEF ReaderInv

\* So does the lack of one.
LEMMA NoAnswerSafe == NoAnswer => ReaderInv'
BY AnswerSafe DEF NoAnswer

\* A new range inside the head.
LEMMA RangeSafe ==
  ASSUME NEW l \in DOMAIN Wanted, NEW from \in Nat, NEW to \in Nat, NEW kept,
         WalkRange(l, from, to, kept), from <= to, to <= HeadSize,
         kept \in [Kinds -> BoxRefs \cup {None}],
         \A k \in Kinds : kept[k] # None =>
            kept[k].start <= kept[k].end /\ kept[k].end <= HeadSize /\ k \notin Wanted[l],
         l = "ipco" => kept["ipma"] # None
  PROVE  ReaderInv'
<1>1. WalkTypeOK'
  BY Levelled DEF WalkRange, WalkTypeOK, Levels
<1>2. WalkInside'
  BY DEF WalkRange, WalkInside
<1>3. WalkProgresses' /\ ListIsComplete'
  BY SizesAssumption DEF WalkRange, WalkProgresses, ListIsComplete
<1> QED BY <1>1, <1>2, <1>3 DEF ReaderInv

\* find_box passes a box.
LEMMA PassBoxSafe ==
  ASSUME ReaderInv, NEW kind, NEW raw \in Raw, PassBox(kind, raw) PROVE ReaderInv'
<1> USE DEF ReaderInv
<1> DEFINE s == SizeOf(raw)
           b == BoxRef(raw)
<1>1. /\ s \in Nat /\ s >= Header /\ pos + s \in Nat /\ pos + s <= end
      /\ b \in BoxRefs /\ b.start <= b.end /\ b.end = pos + s
  BY WellFormedMoves DEF PassBox
<1>2. /\ level \in DOMAIN Wanted /\ level # "ipco" /\ pos' = pos + s /\ reads' = reads + 1
      /\ found' = [k \in Kinds |-> IF k = kind /\ found[k] = None THEN b ELSE found[k]]
      /\ UNCHANGED <<level, end, properties>>
  BY DEF PassBox, Looking, Missing
<1> HIDE DEF s, b
<1>3. WalkTypeOK'
  BY <1>1, <1>2 DEF WalkTypeOK
<1>4. WalkInside'
  <2>1. end' <= HeadSize /\ pos' <= end'
    BY <1>1, <1>2 DEF WalkInside
  <2>2. ASSUME NEW k \in Kinds, found'[k] # None
        PROVE  found'[k].start <= found'[k].end /\ found'[k].end <= HeadSize
               /\ (k \in Wanted[level] => found'[k].end <= pos')
    <3>1. CASE k = kind /\ found[k] = None
      BY <1>1, <1>2, <3>1, SizesAssumption DEF WalkInside, WalkTypeOK
    <3>2. CASE ~(k = kind /\ found[k] = None)
      <4>1. found'[k] = found[k] /\ found[k] \in BoxRefs
        BY <1>2, <2>2, <3>2 DEF WalkTypeOK
      <4> QED BY <1>1, <1>2, <2>2, <4>1, SizesAssumption DEF WalkInside, WalkTypeOK, BoxRefs
    <3> QED BY <3>1, <3>2
  <2> QED BY <1>2, <2>1, <2>2 DEF WalkInside
<1>5. WalkProgresses'
  <2>1. reads \in Nat /\ pos \in Nat /\ Header \in Nat /\ reads * Header <= pos
    BY <1>2, SizesAssumption DEF WalkProgresses, WalkTypeOK
  <2>2. (reads + 1) * Header <= pos + s
    BY <1>1, <2>1, OneMore
  <2> QED BY <1>2, <2>2 DEF WalkProgresses
<1>6. ListIsComplete'
  BY <1>2 DEF ListIsComplete
<1> QED BY <1>3, <1>4, <1>5, <1>6

\* list_boxes takes a box.
LEMMA ListBoxSafe ==
  ASSUME ReaderInv, NEW kind \in {"irot", "imir", "other"}, NEW raw \in Raw,
         NEW payload \in 0 .. 3 \cup {NoPayload}, ListBox(kind, raw, payload)
  PROVE  ReaderInv'
<1> USE DEF ReaderInv
<1> DEFINE s == SizeOf(raw)
           q == [kind |-> kind, payload |-> payload]
<1>1. s \in Nat /\ s >= Header /\ pos + s \in Nat /\ pos + s <= end
  BY WellFormedMoves DEF ListBox
<1>2. /\ level = "ipco" /\ pos' = pos + s /\ reads' = reads + 1
      /\ properties' = Append(properties, q) /\ UNCHANGED <<level, end, found>>
  BY DEF ListBox
<1>3. q \in Property
  BY DEF Property
<1> HIDE DEF s, q
<1>4. properties' \in Seq(Property) /\ Len(properties') = Len(properties) + 1
  BY <1>2, <1>3 DEF WalkTypeOK
<1>5. WalkTypeOK'
  BY <1>1, <1>2, <1>4 DEF WalkTypeOK
<1>6. WalkInside'
  BY <1>1, <1>2, Levelled DEF WalkInside, Kinds
<1>7. WalkProgresses'
  <2>1. reads \in Nat /\ pos \in Nat /\ Header \in Nat /\ reads * Header <= pos
    BY <1>2, Levelled, SizesAssumption DEF WalkProgresses, WalkTypeOK
  <2>2. (reads + 1) * Header <= pos + s
    BY <1>1, <2>1, OneMore
  <2> QED BY <1>2, <2>2, Levelled DEF WalkProgresses
<1>8. ListIsComplete'
  BY <1>2, <1>4 DEF ListIsComplete
<1> QED BY <1>5, <1>6, <1>7, <1>8

\* What was looked for has been found, inside the head.
LEMMA FoundInside ==
  ASSUME ReaderInv, NEW k \in Kinds, found[k] # None
  PROVE  /\ found[k].start \in Nat /\ found[k].end \in Nat
         /\ found[k].start <= found[k].end /\ found[k].end <= HeadSize
BY DEF ReaderInv, WalkTypeOK, WalkInside, BoxRefs

\* The walk goes on inside a box that was found.
LEMMA EnterSafe ==
  ASSUME ReaderInv, EnterMeta \/ EnterIprp \/ EnterIpco
  PROVE  ReaderInv'
<1> USE DEF ReaderInv
<1>1. NoBox \in [Kinds -> BoxRefs \cup {None}] /\ \A k \in Kinds : NoBox[k] = None
  BY DEF NoBox
<1>2. CASE EnterMeta
  <2>1. level = "top" /\ found["meta"] # None /\ "meta" \in Kinds
    BY <1>2, Levelled DEF EnterMeta, Missing, Kinds
  <2>2. CASE found["meta"].start + Skip > found["meta"].end
    BY <1>2, <2>2, NoAnswerSafe DEF EnterMeta
  <2>3. CASE ~(found["meta"].start + Skip > found["meta"].end)
    <3>1. WalkRange("meta", found["meta"].start + Skip, found["meta"].end, NoBox)
      BY <1>2, <2>3 DEF EnterMeta
    <3>2. found["meta"].start + Skip \in Nat /\ found["meta"].end \in Nat
          /\ found["meta"].start + Skip <= found["meta"].end /\ found["meta"].end <= HeadSize
      BY <2>1, <2>3, FoundInside, SizesAssumption
    <3> QED BY <1>1, <3>1, <3>2, RangeSafe, Levelled
  <2> QED BY <2>2, <2>3
<1>3. CASE EnterIprp
  <2>1. found["iprp"] # None /\ "iprp" \in Kinds
    BY <1>3, Levelled DEF EnterIprp, Missing, Kinds
  <2>2. CASE NoAnswer
    BY <2>2, NoAnswerSafe
  <2>3. CASE WalkRange("iprp", found["iprp"].start, found["iprp"].end, NoBox)
    BY <1>1, <2>1, <2>3, FoundInside, RangeSafe, Levelled
  <2> QED BY <1>3, <2>2, <2>3 DEF EnterIprp
<1>4. CASE EnterIpco
  <2> DEFINE kept == [NoBox EXCEPT !["ipma"] = found["ipma"]]
  <2>1. found["ipco"] # None /\ "ipco" \in Kinds /\ found["ipma"] # None /\ "ipma" \in Kinds
    BY <1>4, Levelled DEF EnterIpco, Missing, Kinds
  <2>2. kept \in [Kinds -> BoxRefs \cup {None}]
    BY <1>1, <2>1 DEF WalkTypeOK
  <2>3. \A k \in Kinds : kept[k] = IF k = "ipma" THEN found[k] ELSE None
    BY <1>1, <2>1
  <2>4. WalkRange("ipco", found["ipco"].start, found["ipco"].end, kept)
    BY <1>4 DEF EnterIpco
  <2> HIDE DEF kept
  <2>5. \A k \in Kinds : kept[k] # None =>
           kept[k].start <= kept[k].end /\ kept[k].end <= HeadSize /\ k \notin Wanted["ipco"]
    BY <2>1, <2>3, FoundInside, Levelled
  <2>6. kept["ipma"] # None
    BY <2>1, <2>3
  <2> QED BY <2>1, <2>2, <2>4, <2>5, <2>6, FoundInside, RangeSafe, Levelled
<1> QED BY <1>2, <1>3, <1>4

\* The associations are read, bounded by the head.
LEMMA ListEndsSafe == ASSUME ReaderInv, ListEnds PROVE ReaderInv'
<1> USE DEF ReaderInv
<1> DEFINE first == found["ipma"].start + 2 * Skip
<1>1. CASE NoAnswer
  BY <1>1, NoAnswerSafe
<1>2. CASE /\ ~(first > HeadSize) /\ level' = "ipma" /\ pos' = first /\ end' = HeadSize
           /\ reads' = 0 /\ UNCHANGED <<found, properties>>
  <2>1. first \in Nat
    <3>1. found["ipma"] # None /\ "ipma" \in Kinds
      BY DEF ListEnds, ListIsComplete, Kinds
    <3> QED BY <3>1, FoundInside, SizesAssumption
  <2>2. WalkTypeOK'
    BY <1>2, <2>1, SizesAssumption DEF WalkTypeOK, Levels
  <2>3. WalkInside'
    BY <1>2, Levelled, SizesAssumption DEF WalkInside
  <2>4. WalkProgresses' /\ ListIsComplete'
    BY <1>2, <2>1, Levelled DEF WalkProgresses, ListIsComplete
  <2> QED BY <2>2, <2>3, <2>4
<1> QED BY <1>1, <1>2 DEF ListEnds

\* An entry, or a segment of a JPEG, is at least a unit.
LEMMA UnitsSafe ==
  ASSUME ReaderInv, level \in {"ipma", "jpeg"}, NEW n \in Nat, n > 0,
         pos' = pos + n, reads' = reads + 1, UNCHANGED <<level, end, found, properties>>
  PROVE  ReaderInv'
<1> USE DEF ReaderInv
<1>1. WalkTypeOK'
  BY DEF WalkTypeOK
<1>2. WalkInside'
  BY Levelled DEF WalkInside
<1>3. WalkProgresses' /\ ListIsComplete'
  BY Levelled DEF WalkProgresses, ListIsComplete, WalkTypeOK
<1> QED BY <1>1, <1>2, <1>3

\* Every step of orientation::read.
LEMMA StepSafe == ASSUME ReaderInv, Step PROVE ReaderInv'
<1>1. ASSUME NEW kind \in Kinds \cup {"other"}, NEW raw \in Raw, PassBox(kind, raw)
      PROVE  ReaderInv'
  BY <1>1, PassBoxSafe
<1>2. ASSUME NEW kind \in {"irot", "imir", "other"}, NEW raw \in Raw,
             NEW p \in 0 .. 3 \cup {NoPayload}, ListBox(kind, raw, p)
      PROVE  ReaderInv'
  BY <1>2, ListBoxSafe
<1>3. CASE GiveUp
  BY <1>3, NoAnswerSafe DEF GiveUp
<1>4. CASE EnterMeta \/ EnterIprp \/ EnterIpco
  BY <1>4, EnterSafe
<1>5. CASE ListEnds
  BY <1>5, ListEndsSafe
<1>6. ASSUME NEW n \in 0 .. MaxEntry, ReadEntry(n) PROVE ReaderInv'
  <2>1. ASSUME NEW o, NEW m, Answer(o, m) PROVE ReaderInv'
    BY <2>1, AnswerSafe
  <2>2. CASE pos' = pos + 1 + n /\ reads' = reads + 1 /\ UNCHANGED <<level, end, found, properties>>
    <3>1. n + 1 \in Nat /\ n + 1 > 0 /\ pos' = pos + (n + 1)
      BY <2>2, SizesAssumption DEF ReaderInv, WalkTypeOK
    <3> QED BY <1>6, <2>2, <3>1, UnitsSafe DEF ReadEntry
  <2> QED BY <1>6, <2>1, <2>2, NoAnswerSafe DEF ReadEntry
<1>7. CASE NoEntry
  BY <1>7, NoAnswerSafe DEF NoEntry
<1>8. ASSUME NEW n \in 1 .. HeadSize, PassSegment(n) PROVE ReaderInv'
  BY <1>8, UnitsSafe, SizesAssumption DEF PassSegment
<1>9. ASSUME NEW code \in 0 .. 9, ReadExif(code) PROVE ReaderInv'
  BY <1>9, AnswerSafe DEF ReadExif
<1>10. CASE NoExif
  BY <1>10, NoAnswerSafe DEF NoExif
<1> QED BY <1>1, <1>2, <1>3, <1>4, <1>5, <1>6, <1>7, <1>8, <1>9, <1>10 DEF Step

\* A step of a render leaves the reader's answer alone.
LEMMA RenderKeepsReader ==
  ASSUME RNext, ~Read PROVE UNCHANGED reader
<1>1. ASSUME NEW j, NEW f, Begin(j, f) PROVE UNCHANGED reader
  BY <1>1 DEF Begin
<1>2. CASE Probe \/ Stitch
  BY <1>2 DEF Probe, Stitch, Picture
<1>3. CASE Fallback \/ SeekFrame
  BY <1>3 DEF Fallback, SeekFrame, Picture, Fails
<1>4. CASE Derive \/ ProbeVideo
  BY <1>4 DEF Derive, ProbeVideo, Fails
<1>5. CASE TranscodeLarge \/ TranscodeSmall \/ RenderLoop
  BY <1>5 DEF TranscodeLarge, TranscodeSmall, RenderLoop, Transcode, Fails
<1> QED BY <1>1, <1>2, <1>3, <1>4, <1>5 DEF RNext

\* Whatever the headers of a file say, the reader stays inside the head it was
\* given, every box it reads moves it on, and the children of ipco are counted
\* one by one (heif.rs:13-14, "Everything is bounds-checked").
THEOREM ReaderStaysInside == RSpec => []ReaderInv
<1>1. RInit => ReaderInv
  BY InitReader DEF RInit
<1>2. ASSUME ReaderInv, [RNext]_vars PROVE ReaderInv'
  <2>1. CASE Read
    BY <1>2, <2>1, StepSafe DEF Read
  <2>2. CASE UNCHANGED reader
    BY <1>2, <2>2 DEF reader, walk, ReaderInv, WalkTypeOK, WalkInside, WalkProgresses, ListIsComplete
  <2> QED BY <1>2, <2>1, <2>2, RenderKeepsReader DEF vars
<1> QED BY <1>1, <1>2, PTL DEF RSpec

----------------------------------------------------------------------------
\* A nonempty set of natural numbers has a least member.
LEMMA LeastExists ==
  ASSUME NEW S, S \subseteq Nat, S # {}
  PROVE  \E x \in S : \A y \in S : x <= y
<1>1. PICK x \in S : \A y \in S : ~(<<y, x>> \in OpToRel(<, Nat))
  BY NatLessThanWellFounded, WFMin
<1>2. \A y \in S : ~(y < x)
  BY <1>1 DEF OpToRel
<1> QED BY <1>2

\* And a greatest one, below a bound.
LEMMA GreatestExists ==
  ASSUME NEW n \in Nat, NEW S, S \subseteq 0 .. n, S # {}
  PROVE  \E x \in S : \A y \in S : x >= y
<1> DEFINE T == {n - x : x \in S}
<1>1. \A x \in S : x \in 0 .. n /\ n - x \in Nat
  OBVIOUS
<1>2. T \subseteq Nat /\ T # {}
  BY <1>1
<1>3. PICK t \in T : \A u \in T : t <= u
  <2> HIDE DEF T
  <2> QED BY <1>2, LeastExists
<1>4. PICK x \in S : t = n - x
  OBVIOUS
<1>5. ASSUME NEW y \in S PROVE x >= y
  <2>1. n - y \in T
    OBVIOUS
  <2>2. n - x <= n - y
    BY <1>3, <1>4, <2>1
  <2> QED BY <1>1, <2>2
<1> QED BY <1>5

\* Indices up to n have a bound on what is found at them: else there would be a
\* least n for which they have none.
LEMMA BoundExists ==
  ASSUME NEW n \in Nat, NEW a, \A i \in 1 .. n : a[i] \in Nat
  PROVE  \E b \in Nat : \A i \in 1 .. n : a[i] <= b
<1> DEFINE Bounded(m) == \E b \in Nat : \A i \in 1 .. m : a[i] <= b
           Bad == {m \in 0 .. n : ~Bounded(m)}
<1>1. CASE Bad = {}
  <2>1. Bounded(n)
    <3> HIDE DEF Bounded
    <3> QED BY <1>1
  <2> QED BY <2>1
<1>2. CASE Bad # {}
  <2>1. PICK m \in Bad : \A k \in Bad : m <= k
    <3>1. Bad \subseteq Nat
      OBVIOUS
    <3> HIDE DEF Bad
    <3> QED BY <1>2, <3>1, LeastExists
  <2>2. m \in 0 .. n /\ ~Bounded(m)
    OBVIOUS
  <2>3. m # 0
    <3>1. Bounded(0)
      OBVIOUS
    <3> HIDE DEF Bounded
    <3> QED BY <2>2, <3>1
  <2>4. m - 1 \in 0 .. n /\ m \in 1 .. n
    BY <2>2, <2>3
  <2>5. Bounded(m - 1)
    <3>1. m - 1 \notin Bad
      <4> HIDE DEF Bad
      <4> QED BY <2>1, <2>4
    <3> HIDE DEF Bounded
    <3> QED BY <2>4, <3>1
  <2>6. PICK b \in Nat : \A i \in 1 .. (m - 1) : a[i] <= b
    BY <2>5
  <2>7. PICK c \in Nat : b <= c /\ a[m] <= c
    <3>1. a[m] \in Nat
      BY <2>4
    <3>2. CASE a[m] <= b
      BY <3>2
    <3>3. CASE b <= a[m]
      BY <3>1, <3>3
    <3> QED BY <3>1, <3>2, <3>3
  <2>8. ASSUME NEW i \in 1 .. m PROVE a[i] <= c
    <3>1. CASE i = m
      BY <2>7, <3>1
    <3>2. CASE i # m
      <4>1. i \in 1 .. (m - 1) /\ i \in 1 .. n
        BY <2>4, <3>2
      <4>2. a[i] \in Nat /\ a[i] <= b
        BY <2>6, <4>1
      <4> HIDE DEF Bounded, Bad
      <4> QED BY <2>7, <4>2
    <3> QED BY <3>1, <3>2
  <2>9. Bounded(m)
    BY <2>7, <2>8
  <2> HIDE DEF Bounded
  <2> QED BY <2>2, <2>9
<1> QED BY <1>1, <1>2

----------------------------------------------------------------------------
\* What the render's variables hold, the JPEGs' orientations aside.
RenderTypes ==
  /\ job \in {"none", "thumb", "publish"}
  /\ job # "none" => file \in Files
  /\ image \in Images /\ probed \in BOOLEAN
  /\ DOMAIN pictures = Images
  /\ info \in [audio : BOOLEAN, height : Nat]
  /\ renditions \in [{"v1080", "v540", "loop"} -> {"absent", "silent", "sound"}]

\* Before a render begins there is nothing, and the images come in order.
ImageOrder ==
  /\ job = "none" =>
       step = "idle" /\ mishap = {} /\ \A i \in Images : pictures[i].shows = "nothing"
  /\ job = "publish" <=> image # "thumb"
  /\ image = "grid" => pictures["full"].shows # "nothing"
  /\ step \in {"derive", "info", "v1080", "v540", "loop"} \/ (step = "done" /\ job = "publish") =>
       image = "grid" /\ pictures["grid"].shows # "nothing"

\* Photos and videos take their own steps, and a step of a photo's render that
\* something has failed before knows of it.
StepOrder ==
  /\ step \in {"probe", "stitch", "fallback"} => job # "none" /\ file.media = "photo"
  /\ step \in {"seek", "info", "v1080", "v540", "loop"} => job # "none" /\ file.media = "video"
  /\ step \in {"stitch", "fallback"} => probed \/ <<image, "ffprobe">> \in mishap
  /\ step = "fallback" /\ HasGrid => <<image, "ffmpeg">> \in mishap

Transcoding == {"v1080", "v540", "loop"}
Published == step = "done" /\ job = "publish" /\ file.media = "video"

TrueInfo == [audio |-> \E i \in DOMAIN file.streams : file.streams[i].codec = "audio",
             height |-> file.height]

\* What each rendition is, by the time it is made, and what it was made from.
RenditionsKnown ==
  /\ step \in Transcoding \/ Published =>
       info = IF Failed("info") THEN NoInfo ELSE TrueInfo
  /\ step \notin Transcoding \cup {"done", "failed"} =>
       ~Failed("info")
  /\ step \in {"idle", "probe", "stitch", "fallback", "seek", "derive", "info", "v1080"} =>
       renditions["v1080"] = "absent"
  /\ step \in {"v540", "loop"} \/ Published =>
       renditions["v1080"] = IF LargeIsWorth THEN Clip(info.audio) ELSE "absent"
  /\ step = "loop" \/ Published => renditions["v540"] = Clip(info.audio)

RenderInv == RenderTypes /\ ImageOrder /\ StepOrder /\ RenditionsKnown /\ RightPicture

LEMMA FileFacts ==
  ASSUME RenderInv, job # "none"
  PROVE  /\ file \in Files /\ file.media \in {"photo", "video"} /\ file.height \in Nat
         /\ file.groups \in Seq(Groups) /\ file.streams \in Seq(Streams)
BY FilesAssumption DEF RenderInv, RenderTypes

\* The group that is stitched is one of the file's, and the photo when the file
\* marks it.
LEMMA PrimaryIsPhoto ==
  ASSUME NEW f \in Files, f.groups # <<>>
  PROVE  /\ PrimaryGroup(f) \in DOMAIN f.groups
         /\ f.groups[PrimaryGroup(f)].shows \in Shows
         /\ f.media = "photo" /\ Marked(f) => f.groups[PrimaryGroup(f)].shows = "photo"
<1> DEFINE marked == {i \in DOMAIN f.groups : f.groups[i].primary}
           g == PrimaryGroup(f)
<1>1. f.groups \in Seq(Groups)
  BY FilesAssumption
<1>2. DOMAIN f.groups = 1 .. Len(f.groups) /\ Len(f.groups) \in Nat /\ Len(f.groups) # 0
  BY <1>1
<1>3. g \in DOMAIN f.groups /\ (marked # {} => g \in marked)
  <2>1. CASE marked = {}
    BY <1>2, <2>1 DEF PrimaryGroup
  <2>2. CASE marked # {}
    <3>1. marked \subseteq Nat
      BY <1>2
    <3>2. \E i \in marked : \A j \in marked : i <= j
      <4> HIDE DEF marked
      <4> QED BY <2>2, <3>1, LeastExists
    <3>3. g = CHOOSE i \in marked : \A j \in marked : i <= j
      BY <2>2 DEF PrimaryGroup
    <3>4. g \in marked
      <4> HIDE DEF g, marked
      <4> QED BY <3>2, <3>3
    <3> QED BY <3>4
  <2> QED BY <2>1, <2>2
<1>4. f.groups[g] \in Groups
  <2> HIDE DEF g
  <2> QED BY <1>1, <1>3
<1>5. f.groups[g].shows \in Shows
  <2> HIDE DEF g
  <2> QED BY <1>4 DEF Groups
<1>6. ASSUME f.media = "photo", Marked(f) PROVE f.groups[g].shows = "photo"
  <2>1. marked = {} => \A i \in DOMAIN f.groups : ~f.groups[i].primary
    OBVIOUS
  <2>2. marked # {} => f.groups[g].primary
    BY <1>3
  <2> HIDE DEF g, marked
  <2> QED BY <1>3, <1>6, <2>1, <2>2 DEF Marked
<1> QED BY <1>3, <1>5, <1>6

\* best_image_stream finds one of the largest streams that are not gray, whenever
\* there is one.
LEMMA BestIsCandidate ==
  ASSUME file \in Files
  PROVE  IF Candidates(file) = {} THEN BestImageStream = None
         ELSE BestImageStream \in Largest(file) /\ BestImageStream # None
<1> DEFINE n == Len(file.streams)
           C == Candidates(file)
           area == [i \in 1 .. n |-> file.streams[i].area]
           largest == Largest(file)
<1>1. /\ file.streams \in Seq(Streams) /\ n \in Nat /\ DOMAIN file.streams = 1 .. n
      /\ \A i \in 1 .. n : file.streams[i] \in Streams
  BY FilesAssumption
<1>2. C \subseteq 1 .. n /\ \A i \in 1 .. n : area[i] = file.streams[i].area /\ area[i] \in Nat
  BY <1>1 DEF Candidates, Videos, Streams
<1>3. largest = {i \in C : \A j \in C : area[i] >= area[j]}
  BY <1>2 DEF Largest
<1>4. CASE C = {}
  <2>1. largest = {}
    BY <1>4 DEF Largest
  <2> QED BY <1>4, <2>1 DEF BestImageStream
<1>5. CASE C # {}
  <2> HIDE DEF area, C, n
  <2>1. PICK b \in Nat : \A i \in 1 .. n : area[i] <= b
    BY <1>1, <1>2, BoundExists
  <2> DEFINE A == {area[i] : i \in C}
  <2>2. A \subseteq 0 .. b /\ A # {}
    <3>1. \A i \in C : area[i] \in 0 .. b
      BY <1>1, <1>2, <2>1
    <3> QED BY <1>5, <3>1
  <2>3. PICK x \in A : \A y \in A : x >= y
    <3> HIDE DEF A
    <3> QED BY <2>2, GreatestExists
  <2>4. largest # {} /\ largest \subseteq 0 .. n
    <3>1. PICK i \in C : x = area[i]
      OBVIOUS
    <3>2. \A j \in C : area[i] >= area[j]
      BY <2>3, <3>1
    <3>3. i \in largest
      BY <1>3, <3>1, <3>2
    <3>4. largest \subseteq C /\ 1 .. n \subseteq 0 .. n
      BY <1>1, <1>3
    <3> HIDE DEF largest
    <3> QED BY <1>2, <3>3, <3>4
  <2>5. BestImageStream = CHOOSE i \in largest : \A j \in largest : i >= j
    BY <2>4 DEF BestImageStream
  <2>6. \E i \in largest : \A j \in largest : i >= j
    <3> HIDE DEF largest
    <3> QED BY <1>1, <2>4, GreatestExists
  <2>7. BestImageStream \in largest
    <3> HIDE DEF largest
    <3> QED BY <2>5, <2>6
  <2>8. BestImageStream \in Nat
    <3> HIDE DEF largest
    <3> QED BY <1>1, <2>4, <2>7
  <2> QED BY <1>5, <2>7, <2>8, NoneAssumption DEF C
<1> QED BY <1>4, <1>5

\* What an image may be when it is done.
GoodPicture(shows, turned) ==
  /\ shows \in Shows
  /\ shows = "gain" => <<image, "ffprobe">> \in mishap \/ ~Marked(file) \/ Candidates(file) = {}
  /\ file.media = "photo" =>
       /\ turned = orientation
       /\ ~Failed(image) /\ Marked(file) => shows = "photo"

LEMMA PictureSafe ==
  ASSUME RenderInv, step \in {"stitch", "fallback", "seek"}, NEW shows, NEW turned,
         Picture(shows, turned), GoodPicture(shows, turned), UNCHANGED mishap
  PROVE  RenderInv'
<1> USE DEF RenderInv
<1>1. /\ job # "none" /\ file \in Files /\ file.media \in {"photo", "video"}
      /\ job' = job /\ file' = file /\ info' = info /\ renditions' = renditions
      /\ mishap' = mishap /\ orientation' = orientation /\ probed' = FALSE
      /\ pictures' = [pictures EXCEPT ![image] = [shows |-> shows, turned |-> turned]]
  BY FileFacts DEF Picture, StepOrder, reader
<1>2. /\ image = "full" => image' = "grid" /\ step' \in {"seek", "probe"}
                           /\ (step' = "seek" <=> file.media = "video")
      /\ image = "grid" => image' = "grid" /\ step' = "derive"
      /\ image = "thumb" => image' = "thumb" /\ step' = "done"
  BY <1>1 DEF Picture
<1>3. image \in Images /\ DOMAIN pictures = Images
  BY DEF RenderTypes
<1>4. \A i \in Images : pictures'[i] = IF i = image THEN [shows |-> shows, turned |-> turned] ELSE pictures[i]
  BY <1>1, <1>3
<1>5. shows # "nothing"
  BY DEF GoodPicture, Shows
<1>6. RenderTypes'
  BY <1>1, <1>2, <1>3 DEF RenderTypes, Images
<1>7. ImageOrder'
  BY <1>1, <1>2, <1>3, <1>4, <1>5 DEF ImageOrder, Images
<1>8. StepOrder'
  BY <1>1, <1>2, <1>3 DEF StepOrder, Images
<1>9. RenditionsKnown'
  <2>1. Failed("info")' <=> Failed("info")
    BY <1>1 DEF Failed
  <2>2. ~Published'
    BY <1>1, <1>2, <1>3 DEF Published, ImageOrder, Images
  <2>3. ~Failed("info") /\ renditions["v1080"] = "absent"
    BY DEF RenditionsKnown, Transcoding
  <2>4. step' \in {"seek", "probe", "derive", "done"}
    BY <1>2, <1>3 DEF Images
  <2> QED BY <1>1, <2>1, <2>2, <2>3, <2>4 DEF RenditionsKnown, Transcoding
<1>10. RightPicture'
  <2>1. \A i \in Images : Failed(i)' <=> Failed(i)
    BY <1>1 DEF Failed
  <2>2. Marked(file)' = Marked(file) /\ Candidates(file)' = Candidates(file)
    BY <1>1
  <2>3. NoGainMap'
    <3> SUFFICES ASSUME NEW i \in Images, pictures'[i].shows = "gain"
                 PROVE  <<i, "ffprobe">> \in mishap' \/ ~Marked(file)' \/ Candidates(file)' = {}
      BY DEF NoGainMap
    <3>1. CASE i = image
      BY <1>1, <1>4, <2>2, <3>1 DEF GoodPicture
    <3>2. CASE i # image
      BY <1>1, <1>4, <2>2, <3>2 DEF RightPicture, NoGainMap
    <3> QED BY <3>1, <3>2
  <2>4. WholePhoto'
    <3> SUFFICES ASSUME NEW i \in Images, pictures'[i].shows # "nothing", file'.media = "photo"
                 PROVE  /\ pictures'[i].turned = orientation'
                        /\ ~Failed(i)' /\ Marked(file)' => pictures'[i].shows = "photo"
      BY DEF WholePhoto
    <3>1. CASE i = image
      BY <1>1, <1>4, <2>1, <2>2, <3>1 DEF GoodPicture
    <3>2. CASE i # image
      BY <1>1, <1>4, <2>1, <2>2, <3>2 DEF RightPicture, WholePhoto
    <3> QED BY <3>1, <3>2
  <2> QED BY <2>3, <2>4 DEF RightPicture
<1> QED BY <1>6, <1>7, <1>8, <1>9, <1>10

\* A failure of a tool takes nothing back.
LEMMA MishapKeepsPictures ==
  ASSUME RightPicture, mishap \subseteq mishap', UNCHANGED <<pictures, file, orientation>>
  PROVE  RightPicture'
<1>1. \A i \in Images : Failed(i) => Failed(i)'
  BY DEF Failed
<1>2. NoGainMap'
  BY DEF RightPicture, NoGainMap
<1>3. WholePhoto'
  BY <1>1 DEF RightPicture, WholePhoto
<1> QED BY <1>2, <1>3 DEF RightPicture

\* A tool fails for the image at hand, or the render ends there.
LEMMA FailsSafe ==
  ASSUME RenderInv, job # "none", Fails, UNCHANGED mishap \/ Mishap("ffmpeg")
  PROVE  RenderInv'
<1> USE DEF RenderInv
<1>1. /\ step' = "failed" /\ mishap \subseteq mishap'
      /\ UNCHANGED <<orientation, job, file, image, probed, pictures, info, renditions>>
  BY DEF Fails, Mishap, reader
<1>2. RightPicture'
  BY <1>1, MishapKeepsPictures
<1>3. RenderTypes'
  BY <1>1 DEF RenderTypes
<1>4. ImageOrder'
  BY <1>1 DEF ImageOrder
<1>5. StepOrder' /\ RenditionsKnown'
  BY <1>1 DEF StepOrder, RenditionsKnown, Transcoding, Published
<1> QED BY <1>2, <1>3, <1>4, <1>5

LEMMA BeginSafe ==
  ASSUME RenderInv, NEW j \in {"thumb", "publish"}, NEW f \in Files, Begin(j, f)
  PROVE  RenderInv'
<1> USE DEF RenderInv
<1>1. /\ job = "none" /\ job' = j /\ file' = f /\ step' \in {"seek", "probe"}
      /\ (step' = "seek" <=> f.media = "video") /\ f.media \in {"photo", "video"}
      /\ image' = IF j = "thumb" THEN "thumb" ELSE "full"
      /\ UNCHANGED <<probed, pictures, info, renditions, mishap>>
  BY FilesAssumption DEF Begin
<1>2. step = "idle" /\ mishap = {} /\ \A i \in Images : pictures[i].shows = "nothing"
  BY <1>1 DEF ImageOrder
<1>3. RenderTypes'
  BY <1>1 DEF RenderTypes, Images
<1>4. ImageOrder' /\ StepOrder'
  BY <1>1, <1>2 DEF ImageOrder, StepOrder
<1>5. RenditionsKnown'
  BY <1>1, <1>2 DEF RenditionsKnown, Transcoding, Published, Failed
<1>6. RightPicture'
  BY <1>1, <1>2 DEF RightPicture, NoGainMap, WholePhoto
<1> QED BY <1>3, <1>4, <1>5, <1>6

LEMMA ProbeSafe == ASSUME RenderInv, Probe PROVE RenderInv'
<1> USE DEF RenderInv
<1>1. /\ step = "probe" /\ step' = "stitch" /\ mishap \subseteq mishap'
      /\ (probed' = TRUE /\ mishap' = mishap)
         \/ (probed' = FALSE /\ mishap' = mishap \cup {<<image, "ffprobe">>})
      /\ UNCHANGED <<orientation, job, file, image, pictures, info, renditions>>
  BY DEF Probe, Mishap, reader
<1>2. image \in Images /\ image # "info"
  BY DEF RenderTypes, Images
<1>3. RightPicture'
  BY <1>1, MishapKeepsPictures
<1>4. RenderTypes'
  BY <1>1 DEF RenderTypes
<1>5. ImageOrder' /\ StepOrder'
  BY <1>1 DEF ImageOrder, StepOrder
<1>6. Failed("info")' <=> Failed("info")
  BY <1>1, <1>2 DEF Failed
<1>7. RenditionsKnown'
  BY <1>1, <1>6 DEF RenditionsKnown, Transcoding, Published
<1> QED BY <1>3, <1>4, <1>5, <1>7

LEMMA StitchSafe == ASSUME RenderInv, Stitch PROVE RenderInv'
<1> USE DEF RenderInv
<1>1. step = "stitch" /\ job # "none" /\ file \in Files /\ file.media = "photo"
  BY FileFacts DEF Stitch, StepOrder
<1>2. CASE /\ HasGrid /\ Picture(file.groups[PrimaryGroup(file)].shows, orientation)
           /\ UNCHANGED mishap
  <2>1. GoodPicture(file.groups[PrimaryGroup(file)].shows, orientation)
    <3>1. file.groups # <<>>
      BY <1>2 DEF HasGrid, Stitchable
    <3> QED BY <1>1, <3>1, PrimaryIsPhoto DEF GoodPicture
  <2> QED BY <1>1, <1>2, <2>1, PictureSafe
<1>3. CASE /\ step' = "fallback"
           /\ IF HasGrid THEN Mishap("ffmpeg") ELSE UNCHANGED mishap
           /\ UNCHANGED <<reader, job, file, image, probed, pictures, info, renditions>>
  <2>1. /\ mishap \subseteq mishap' /\ (HasGrid => <<image, "ffmpeg">> \in mishap')
        /\ mishap' \subseteq mishap \cup {<<image, "ffmpeg">>}
        /\ UNCHANGED <<orientation, job, file, image, probed, pictures, info, renditions>>
        /\ step' = "fallback"
    BY <1>3 DEF Mishap, reader
  <2>2. image \in Images /\ image # "info"
    BY DEF RenderTypes, Images
  <2>3. RightPicture'
    BY <2>1, MishapKeepsPictures
  <2>4. RenderTypes' /\ ImageOrder'
    BY <1>1, <2>1 DEF RenderTypes, ImageOrder
  <2>5. StepOrder'
    BY <1>1, <2>1 DEF StepOrder, HasGrid
  <2>6. Failed("info")' <=> Failed("info")
    BY <2>1, <2>2 DEF Failed
  <2>7. RenditionsKnown'
    BY <1>1, <2>1, <2>6 DEF RenditionsKnown, Transcoding, Published
  <2> QED BY <2>3, <2>4, <2>5, <2>7
<1> QED BY <1>2, <1>3 DEF Stitch

LEMMA FallbackSafe == ASSUME RenderInv, Fallback PROVE RenderInv'
<1> USE DEF RenderInv
<1>1. step = "fallback" /\ job # "none" /\ file \in Files /\ file.media = "photo"
  BY FileFacts DEF Fallback, StepOrder
<1> DEFINE best == IF probed THEN BestImageStream ELSE None
<1>2. ASSUME NEW i \in Videos(file), best \in {i, None},
             Picture(file.streams[i].shows, orientation), UNCHANGED mishap
      PROVE  RenderInv'
  <2> DEFINE shows == file.streams[i].shows
  <2>1. file.streams \in Seq(Streams) /\ i \in DOMAIN file.streams
    BY <1>1, FilesAssumption DEF Videos
  <2>2. shows \in Shows
    <3>1. file.streams[i] \in Streams
      BY <2>1
    <3> QED BY <3>1 DEF Streams
  <2>3. probed => i \in IF Candidates(file) = {} THEN Videos(file) ELSE Largest(file)
    BY <1>1, <1>2, BestIsCandidate
  <2>4. ~probed => <<image, "ffprobe">> \in mishap
    BY <1>1 DEF StepOrder
  <2>5. shows = "gain" => <<image, "ffprobe">> \in mishap \/ Candidates(file) = {}
    BY <1>1, <2>3, <2>4, PhotosAssumption DEF Largest
  <2>6. ~Failed(image) => shows = "photo"
    <3> SUFFICES ASSUME ~Failed(image) PROVE shows = "photo"
      OBVIOUS
    <3>1. probed /\ ~Stitchable(file)
      BY <1>1, <2>4 DEF Failed, StepOrder, HasGrid
    <3> QED BY <1>1, <2>3, <3>1, PhotosAssumption
  <2>7. GoodPicture(shows, orientation)
    <3> HIDE DEF shows
    <3> QED BY <2>2, <2>5, <2>6 DEF GoodPicture
  <2> QED BY <1>1, <1>2, <2>7, PictureSafe
<1>3. CASE Mishap("ffmpeg") /\ Fails
  BY <1>1, <1>3, FailsSafe
<1> QED BY <1>2, <1>3 DEF Fallback

LEMMA SeekSafe == ASSUME RenderInv, SeekFrame PROVE RenderInv'
<1>1. step = "seek" /\ job # "none" /\ file.media = "video"
  BY DEF SeekFrame, RenderInv, StepOrder
<1>2. CASE Picture("frame", Upright) /\ UNCHANGED mishap
  BY <1>1, <1>2, PictureSafe DEF GoodPicture, Shows
<1>3. CASE Mishap("ffmpeg") /\ Fails
  BY <1>1, <1>3, FailsSafe
<1> QED BY <1>2, <1>3 DEF SeekFrame

LEMMA DeriveSafe == ASSUME RenderInv, Derive PROVE RenderInv'
<1> USE DEF RenderInv
<1>1. step = "derive" /\ image = "grid" /\ job = "publish"
  BY DEF Derive, ImageOrder
<1>2. CASE Fails /\ UNCHANGED mishap
  BY <1>1, <1>2, FailsSafe
<1>3. CASE /\ step' = IF file.media = "video" THEN "info" ELSE "done"
           /\ UNCHANGED <<reader, job, file, image, probed, pictures, info, renditions, mishap>>
  <2>1. UNCHANGED <<orientation, job, file, image, probed, pictures, info, renditions, mishap>>
    BY <1>3 DEF reader
  <2>2. RightPicture'
    BY <2>1, MishapKeepsPictures
  <2>3. RenderTypes' /\ ImageOrder' /\ StepOrder'
    BY <1>1, <1>3, <2>1 DEF RenderTypes, ImageOrder, StepOrder
  <2>4. RenditionsKnown'
    <3>1. Failed("info")' <=> Failed("info")
      BY <2>1 DEF Failed
    <3>2. ~Failed("info") /\ renditions["v1080"] = "absent"
      BY <1>1 DEF RenditionsKnown, Transcoding
    <3> QED BY <1>3, <2>1, <3>1, <3>2 DEF RenditionsKnown, Transcoding, Published
  <2> QED BY <2>2, <2>3, <2>4
<1> QED BY <1>2, <1>3 DEF Derive

\* The steps of a video's renditions, once its images are done.
LEMMA ProbeVideoSafe == ASSUME RenderInv, ProbeVideo PROVE RenderInv'
<1> USE DEF RenderInv
<1>1. /\ step = "info" /\ step' = "v1080" /\ mishap \subseteq mishap'
      /\ (info' = TrueInfo /\ mishap' = mishap)
         \/ (info' = NoInfo /\ mishap' = mishap \cup {<<"info", "ffprobe">>})
      /\ UNCHANGED <<orientation, job, file, image, probed, pictures, renditions>>
  BY DEF ProbeVideo, TrueInfo, reader
<1>2. job # "none" /\ file.height \in Nat
  BY <1>1, FileFacts DEF StepOrder
<1>3. RightPicture'
  BY <1>1, MishapKeepsPictures
<1>4. info' \in [audio : BOOLEAN, height : Nat]
  <2>1. TrueInfo.audio \in BOOLEAN /\ TrueInfo.height \in Nat
    BY <1>2 DEF TrueInfo
  <2>2. TrueInfo = [audio |-> TrueInfo.audio, height |-> TrueInfo.height]
    BY DEF TrueInfo
  <2>3. NoInfo \in [audio : BOOLEAN, height : Nat]
    BY DEF NoInfo
  <2>4. TrueInfo \in [audio : BOOLEAN, height : Nat]
    <3> HIDE DEF TrueInfo
    <3> QED BY <2>1, <2>2
  <2> QED BY <1>1, <2>3, <2>4
<1>5. RenderTypes'
  BY <1>1, <1>4 DEF RenderTypes
<1>6. ImageOrder' /\ StepOrder'
  BY <1>1 DEF ImageOrder, StepOrder
<1>7. info' = IF Failed("info")' THEN NoInfo ELSE TrueInfo'
  <2>1. ~Failed("info") /\ TrueInfo' = TrueInfo
    BY <1>1 DEF RenditionsKnown, Transcoding, TrueInfo
  <2>2. CASE mishap' = mishap /\ info' = TrueInfo
    <3>1. ~Failed("info")'
      BY <2>1, <2>2 DEF Failed
    <3> QED BY <2>1, <2>2, <3>1
  <2>3. CASE info' = NoInfo /\ mishap' = mishap \cup {<<"info", "ffprobe">>}
    <3>1. <<"info", "ffprobe">> \in mishap' /\ <<"info", "ffprobe">>[1] = "info"
      BY <2>3
    <3>2. Failed("info")'
      BY <3>1 DEF Failed
    <3> QED BY <2>3, <3>2
  <2> QED BY <1>1, <2>2, <2>3
<1>8. RenditionsKnown'
  BY <1>1, <1>7 DEF RenditionsKnown, Transcoding, Published
<1> QED BY <1>3, <1>5, <1>6, <1>8

\* A rendition is added or left out, and nothing else changes.
LEMMA RenditionSafe ==
  ASSUME RenderInv, step \in Transcoding, step' \in Transcoding \cup {"done", "failed"},
         renditions' \in [{"v1080", "v540", "loop"} -> {"absent", "silent", "sound"}],
         UNCHANGED <<reader, job, file, image, probed, pictures, info, mishap>>,
         step' = "v1080" => renditions'["v1080"] = "absent",
         step' # "v1080" /\ step' # "failed" =>
            renditions'["v1080"] = IF LargeIsWorth THEN Clip(info.audio) ELSE "absent",
         step' \in {"loop", "done"} => renditions'["v540"] = Clip(info.audio)
  PROVE  RenderInv'
<1> USE DEF RenderInv
<1>1. UNCHANGED orientation
  BY DEF reader
<1>2. RightPicture'
  BY <1>1, MishapKeepsPictures
<1>3. RenderTypes' /\ ImageOrder' /\ StepOrder'
  BY DEF RenderTypes, ImageOrder, StepOrder, Transcoding
<1>4. info' = IF Failed("info")' THEN NoInfo ELSE TrueInfo'
  BY DEF RenditionsKnown, Failed, TrueInfo
<1>5. LargeIsWorth' <=> LargeIsWorth
  BY DEF LargeIsWorth
<1>6. RenditionsKnown'
  BY <1>4, <1>5 DEF RenditionsKnown, Transcoding, Published
<1> QED BY <1>2, <1>3, <1>6

LEMMA TranscodingSafe ==
  ASSUME RenderInv, TranscodeLarge \/ TranscodeSmall \/ RenderLoop PROVE RenderInv'
<1> USE DEF RenderInv
<1>1. /\ step \in Transcoding /\ job # "none"
      /\ renditions \in [{"v1080", "v540", "loop"} -> {"absent", "silent", "sound"}]
      /\ Clip(info.audio) \in {"silent", "sound"}
  BY DEF TranscodeLarge, TranscodeSmall, RenderLoop, StepOrder, Transcoding, RenderTypes, Clip
<1>2. CASE Fails /\ UNCHANGED mishap
  BY <1>1, <1>2, FailsSafe
<1> DEFINE quiet == UNCHANGED <<reader, job, file, image, probed, pictures, info, mishap>>
           with(k) == [renditions EXCEPT ![k] = Clip(info.audio)]
<1>3. CASE TranscodeLarge
  <2>1. CASE LargeIsWorth /\ renditions' = with("v1080") /\ step' = "v540" /\ quiet
    BY <1>1, <2>1, RenditionSafe DEF Transcoding
  <2>2. CASE ~LargeIsWorth /\ renditions' = renditions /\ step' = "v540" /\ quiet
    <3>1. renditions["v1080"] = "absent"
      BY <1>3 DEF TranscodeLarge, RenditionsKnown
    <3> QED BY <1>1, <2>2, <3>1, RenditionSafe DEF Transcoding
  <2> QED BY <1>2, <1>3, <2>1, <2>2 DEF TranscodeLarge, Transcode
<1>4. CASE TranscodeSmall
  <2>1. CASE renditions' = with("v540") /\ step' = "loop" /\ quiet
    <3>1. renditions["v1080"] = IF LargeIsWorth THEN Clip(info.audio) ELSE "absent"
      BY <1>4 DEF TranscodeSmall, RenditionsKnown
    <3> QED BY <1>1, <2>1, <3>1, RenditionSafe DEF Transcoding
  <2> QED BY <1>2, <1>4, <2>1 DEF TranscodeSmall, Transcode
<1>5. CASE RenderLoop
  <2>1. /\ step = "loop" /\ step' \in {"done", "failed"} /\ quiet
        /\ renditions' \in {renditions, [renditions EXCEPT !["loop"] = "silent"]}
    BY <1>5 DEF RenderLoop
  <2>2. /\ renditions["v1080"] = IF LargeIsWorth THEN Clip(info.audio) ELSE "absent"
        /\ renditions["v540"] = Clip(info.audio)
    BY <2>1 DEF RenditionsKnown
  <2>3. /\ renditions' \in [{"v1080", "v540", "loop"} -> {"absent", "silent", "sound"}]
        /\ renditions'["v1080"] = renditions["v1080"] /\ renditions'["v540"] = renditions["v540"]
    BY <1>1, <2>1
  <2> QED BY <1>1, <2>1, <2>2, <2>3, RenditionSafe
<1> QED BY <1>3, <1>4, <1>5

\* The invariant holds before the reader begins, and at every step.
LEMMA RenderInit == RInit => RenderInv
<1> SUFFICES ASSUME RInit PROVE RenderInv
  OBVIOUS
<1>1. RenderTypes
  BY DEF RInit, RenderTypes, Images, NoInfo
<1>2. ImageOrder /\ StepOrder
  BY DEF RInit, ImageOrder, StepOrder, Images, NoPicture
<1>3. RenditionsKnown
  BY DEF RInit, RenditionsKnown, Transcoding, Published, Failed
<1>4. RightPicture
  BY DEF RInit, RightPicture, NoGainMap, WholePhoto, NoPicture
<1> QED BY <1>1, <1>2, <1>3, <1>4 DEF RenderInv

LEMMA RenderSafe == ASSUME RenderInv, [RNext]_vars PROVE RenderInv'
<1> USE DEF RenderInv
<1>1. CASE UNCHANGED render /\ (job = "none" \/ UNCHANGED orientation)
  <2>1. RenderTypes' /\ ImageOrder'
    BY <1>1 DEF render, RenderTypes, ImageOrder
  <2>2. StepOrder' /\ RenditionsKnown'
    BY <1>1 DEF render, StepOrder, HasGrid, RenditionsKnown, Published, Failed, TrueInfo, LargeIsWorth
  <2>3. UNCHANGED orientation => RightPicture'
    BY <1>1, MishapKeepsPictures DEF render
  <2>4. ASSUME job = "none" PROVE RightPicture'
    <3>1. \A i \in Images : pictures'[i].shows = "nothing"
      BY <1>1, <2>4 DEF ImageOrder, render
    <3> QED BY <3>1 DEF RightPicture, NoGainMap, WholePhoto
  <2>5. RightPicture'
    BY <1>1, <2>3, <2>4
  <2> QED BY <2>1, <2>2, <2>5
<1>2. CASE Read
  BY <1>1, <1>2 DEF Read
<1>3. CASE UNCHANGED vars
  BY <1>1, <1>3 DEF vars, reader
<1>4. ASSUME NEW j \in {"thumb", "publish"}, NEW f \in Files, Begin(j, f) PROVE RenderInv'
  BY <1>4, BeginSafe
<1>5. CASE Probe \/ Stitch \/ Fallback \/ SeekFrame
  BY <1>5, ProbeSafe, StitchSafe, FallbackSafe, SeekSafe
<1>6. CASE Derive \/ ProbeVideo \/ TranscodeLarge \/ TranscodeSmall \/ RenderLoop
  BY <1>6, DeriveSafe, ProbeVideoSafe, TranscodingSafe
<1> HIDE DEF RenderInv
<1> QED BY <1>2, <1>3, <1>4, <1>5, <1>6 DEF RNext

\* The inductive invariant: what each step of a render has established.
THEOREM RenderInvariant == RSpec => []RenderInv
<1>1. RInit => RenderInv
  BY RenderInit
<1>2. RenderInv /\ [RNext]_vars => RenderInv'
  BY RenderSafe
<1> QED BY <1>1, <1>2, PTL DEF RSpec

\* No photo is shown by its gain map while ffprobe works, and it is shown whole
\* and upright unless a tool failed for that very image (imaging.rs:8-12).
THEOREM PictureIsRight == RSpec => []RightPicture
<1>1. RenderInv => RightPicture
  BY DEF RenderInv
<1> QED BY <1>1, RenderInvariant, PTL

\* A published video has the renditions its size and its sound call for.
THEOREM PublishedPlays == RSpec => []Playable
<1>1. RenderInv => Playable
  <2> SUFFICES ASSUME RenderInv, step = "done", job = "publish"
               PROVE  /\ pictures["full"].shows # "nothing" /\ pictures["grid"].shows # "nothing"
                      /\ file.media = "video" =>
                           /\ renditions["v540"] # "absent"
                           /\ Failed("info") => renditions["v1080"] # "absent"
                           /\ ~Failed("info") =>
                                /\ renditions["v1080"] # "absent" <=> file.height = 0 \/ file.height > Small
                                /\ \A k \in {"v540", "v1080"} :
                                     renditions[k] \in {"absent", Clip(TrueInfo.audio)}
    BY DEF Playable, TrueInfo
  <2>1. pictures["full"].shows # "nothing" /\ pictures["grid"].shows # "nothing"
    BY DEF RenderInv, ImageOrder
  <2>2. ASSUME file.media = "video"
        PROVE  /\ info = IF Failed("info") THEN NoInfo ELSE TrueInfo
               /\ renditions["v540"] = Clip(info.audio)
               /\ renditions["v1080"] = IF LargeIsWorth THEN Clip(info.audio) ELSE "absent"
    BY <2>2 DEF RenderInv, RenditionsKnown, Published
  <2>3. \A a : Clip(a) # "absent"
    BY DEF Clip
  <2>4. Failed("info") /\ file.media = "video" => LargeIsWorth
    BY <2>2 DEF LargeIsWorth, NoInfo
  <2>5. ~Failed("info") /\ file.media = "video" =>
          info = TrueInfo /\ info.height = file.height
    BY <2>2 DEF TrueInfo
  <2> QED BY <2>1, <2>2, <2>3, <2>4, <2>5 DEF LargeIsWorth
<1> QED BY <1>1, RenderInvariant, PTL

----------------------------------------------------------------------------
\* The greatest index of a set of them.
LEMMA MaxIs ==
  ASSUME NEW m \in Nat, NEW s \in SUBSET (1 .. m), m \in s
  PROVE  Max(s) = m
<1>1. m \in s /\ \A y \in s : m >= y
  OBVIOUS
<1>2. \A x \in s : (\A y \in s : x >= y) => x = m
  <2>1. \A x \in s : x \in 1 .. m
    OBVIOUS
  <2> QED BY <2>1
<1> QED BY <1>1, <1>2 DEF Max

\* A set of indices has a greatest one.
LEMMA MaxInside ==
  ASSUME NEW m \in Nat, NEW s \in SUBSET (1 .. m), s # {}
  PROVE  Max(s) \in s
<1>1. PICK x \in s : \A y \in s : x >= y
  <2>1. s \subseteq 0 .. m
    OBVIOUS
  <2> QED BY <2>1, GreatestExists
<1> QED BY <1>1 DEF Max

\* A fold's function, from a set of indices to the set without its greatest.
FoldOf(f, n, base, move) ==
  \A s \in SUBSET (1 .. n) :
    f[s] = IF s = {} THEN base ELSE move[Max(s)][f[s \ {Max(s)}]]

\* There is such a function for a sequence of any length: else there would be a
\* least length that has none.
LEMMA FoldExists ==
  ASSUME NEW n \in Nat, NEW V, NEW base \in V, NEW move \in [1 .. n -> [V -> V]]
  PROVE  \E f \in [SUBSET (1 .. n) -> V] : FoldOf(f, n, base, move)
<1> DEFINE Folds(m, f) == FoldOf(f, m, base, move)
           Folded(m) == \E f \in [SUBSET (1 .. m) -> V] : Folds(m, f)
           Bad == {m \in 0 .. n : ~Folded(m)}
<1>1. CASE Bad = {}
  <2>1. Folded(n)
    <3> HIDE DEF Folded
    <3> QED BY <1>1
  <2> QED BY <2>1
<1>2. CASE Bad # {}
  <2>1. PICK m \in Bad : \A k \in Bad : m <= k
    <3>1. Bad \subseteq Nat
      OBVIOUS
    <3> HIDE DEF Bad
    <3> QED BY <1>2, <3>1, LeastExists
  <2>2. m \in 0 .. n /\ ~Folded(m)
    OBVIOUS
  <2>3. m # 0
    <3> DEFINE f == [s \in SUBSET (1 .. 0) |-> base]
    <3>1. f \in [SUBSET (1 .. 0) -> V]
      OBVIOUS
    <3>2. ASSUME NEW s \in SUBSET (1 .. 0) PROVE s = {} /\ f[s] = base
      OBVIOUS
    <3>3. Folds(0, f)
      <4> HIDE DEF f
      <4> QED BY <3>2 DEF FoldOf
    <3>4. Folded(0)
      <4> HIDE DEF f, Folds
      <4> QED BY <3>1, <3>3
    <3> HIDE DEF Folded
    <3> QED BY <2>2, <3>4
  <2>4. m \in 1 .. n /\ m - 1 \in 0 .. n
    BY <2>2, <2>3
  <2>5. Folded(m - 1)
    <3>1. m - 1 \notin Bad
      <4> HIDE DEF Bad
      <4> QED BY <2>1, <2>4
    <3> HIDE DEF Folded
    <3> QED BY <2>4, <3>1
  <2>6. PICK g \in [SUBSET (1 .. (m - 1)) -> V] : Folds(m - 1, g)
    <3> HIDE DEF Folds
    <3> QED BY <2>5
  <2> DEFINE h == [s \in SUBSET (1 .. m) |-> IF m \in s THEN move[m][g[s \ {m}]] ELSE g[s]]
  <2>7. \A s \in SUBSET (1 .. m) : s \ {m} \in SUBSET (1 .. (m - 1))
    BY <2>4
  <2>8. \A s \in SUBSET (1 .. m) : m \notin s => s \in SUBSET (1 .. (m - 1))
    BY <2>7
  <2>9. h \in [SUBSET (1 .. m) -> V]
    <3>1. move[m] \in [V -> V]
      BY <2>4
    <3> QED BY <2>6, <2>7, <2>8, <3>1
  <2>10. ASSUME NEW s \in SUBSET (1 .. m)
         PROVE h[s] = IF s = {} THEN base ELSE move[Max(s)][h[s \ {Max(s)}]]
    <3>1. CASE m \in s
      <4>1. Max(s) = m
        BY <2>4, <3>1, MaxIs
      <4>2. s \ {m} \in SUBSET (1 .. m) /\ m \notin s \ {m}
        OBVIOUS
      <4>3. h[s \ {m}] = g[s \ {m}]
        BY <4>2
      <4>4. h[s] = move[m][g[s \ {m}]]
        BY <3>1
      <4> HIDE DEF h
      <4> QED BY <3>1, <4>1, <4>3, <4>4
    <3>2. CASE m \notin s
      <4>1. s \in SUBSET (1 .. (m - 1)) /\ h[s] = g[s]
        BY <2>8, <3>2
      <4>2. CASE s = {}
        <5>1. g[s] = base
          BY <2>6, <4>1, <4>2 DEF FoldOf
        <5> HIDE DEF h
        <5> QED BY <4>1, <4>2, <5>1
      <4>3. CASE s # {}
        <5>1. s \ {Max(s)} \in SUBSET (1 .. m) /\ m \notin s \ {Max(s)}
          BY <3>2
        <5>2. h[s \ {Max(s)}] = g[s \ {Max(s)}]
          BY <5>1
        <5>3. g[s] = move[Max(s)][g[s \ {Max(s)}]]
          BY <2>6, <4>1, <4>3 DEF FoldOf
        <5> HIDE DEF h
        <5> QED BY <4>1, <4>3, <5>2, <5>3
      <4> QED BY <4>2, <4>3
    <3> QED BY <3>1, <3>2
  <2>11. Folds(m, h)
    <3> HIDE DEF h
    <3> QED BY <2>10 DEF FoldOf
  <2>12. Folded(m)
    <3> HIDE DEF h, Folds
    <3> QED BY <2>9, <2>11
  <2> HIDE DEF Folded
  <2> QED BY <2>2, <2>12
<1> QED BY <1>1, <1>2

\* The indices up to k, without the greatest.
LEMMA UpTo ==
  ASSUME NEW n \in Nat, NEW k \in 1 .. n
  PROVE  /\ 1 .. k \in SUBSET (1 .. n) /\ 1 .. k # {}
         /\ Max(1 .. k) = k /\ (1 .. k) \ {Max(1 .. k)} = 1 .. (k - 1)
<1>1. 1 .. k \in SUBSET (1 .. n) /\ k \in 1 .. k /\ k \in Nat
  OBVIOUS
<1>2. Max(1 .. k) = k
  BY <1>1, MaxIs
<1>3. (1 .. k) \ {k} = 1 .. (k - 1)
  OBVIOUS
<1> QED BY <1>1, <1>2, <1>3

\* The filters, one after the other.
Look(f, pic) == [c \in Corners |-> pic[Effect[f][c]]]
Pictured == [Corners -> Corners]

\* A filter of a picture is a picture.
LEMMA Looks ==
  ASSUME NEW f \in DOMAIN Effect, NEW pic \in Pictured
  PROVE  Look(f, pic) \in Pictured
<1>1. \A c \in Corners : Effect[f][c] \in Corners
  BY DEF Effect, Turn, Corners
<1> QED BY <1>1 DEF Look, Pictured

\* The chain applies its filters one by one.
LEMMA ShownSteps ==
  ASSUME NEW filters \in Seq(DOMAIN Effect), NEW picture \in Pictured
  PROVE  \E f : /\ f[{}] = picture
                /\ \A k \in 1 .. Len(filters) : f[1 .. k] = Look(filters[k], f[1 .. (k - 1)])
                /\ Shown(filters, picture) = f[1 .. Len(filters)]
<1> DEFINE n == Len(filters)
           S == 1 .. n
           Next1(it, s) == IF s = {} THEN picture
             ELSE [c \in Corners |-> it[s \ {Max(s)}][Effect[filters[Max(s)]][c]]]
           Eq(it) == it = [s \in SUBSET S |-> Next1(it, s)]
           move == [i \in S |-> [v \in Pictured |-> Look(filters[i], v)]]
<1>1. n \in Nat /\ DOMAIN filters = S /\ \A i \in S : filters[i] \in DOMAIN Effect
  OBVIOUS
<1>2. move \in [S -> [Pictured -> Pictured]]
  <2>1. ASSUME NEW i \in S, NEW v \in Pictured PROVE Look(filters[i], v) \in Pictured
    BY <1>1, Looks
  <2> QED BY <2>1
<1>3. PICK g \in [SUBSET S -> Pictured] : FoldOf(g, n, picture, move)
  <2> HIDE DEF move, n
  <2> QED BY <1>1, <1>2, FoldExists
<1>4. ASSUME NEW s \in SUBSET S PROVE g[s] = Next1(g, s)
  <2>1. CASE s = {}
    <3> HIDE DEF move, n
    <3> QED BY <1>3, <2>1 DEF FoldOf
  <2>2. CASE s # {}
    <3>1. Max(s) \in S /\ s \ {Max(s)} \in SUBSET S
      BY <1>1, <2>2, MaxInside
    <3>2. g[s \ {Max(s)}] \in Pictured
      <4> HIDE DEF move, n
      <4> QED BY <1>3, <3>1
    <3>3. move[Max(s)][g[s \ {Max(s)}]] = Look(filters[Max(s)], g[s \ {Max(s)}])
      <4> HIDE DEF n
      <4> QED BY <3>1, <3>2
    <3> HIDE DEF move, n
    <3> QED BY <1>3, <2>2, <3>3 DEF Look, FoldOf
  <2> QED BY <2>1, <2>2
<1>5. Eq(g)
  <2> HIDE DEF move, n, Next1
  <2> QED BY <1>3, <1>4
<1>6. PICK f : Eq(f) /\ Shown(filters, picture) = f[S]
  <2>1. Shown(filters, picture) = (CHOOSE it : Eq(it))[S]
    BY <1>1 DEF Shown, FoldLeft, MapThenFoldSet
  <2>2. Eq(CHOOSE it : Eq(it))
    <3> HIDE DEF Eq
    <3> QED BY <1>5
  <2> HIDE DEF Eq
  <2> QED BY <2>1, <2>2
<1>7. \A s \in SUBSET S : f[s] = Next1(f, s)
  <2> HIDE DEF Next1, n
  <2> QED BY <1>6
<1>8. f[{}] = picture
  <2> HIDE DEF n
  <2> QED BY <1>7
<1>9. ASSUME NEW k \in 1 .. n PROVE f[1 .. k] = Look(filters[k], f[1 .. (k - 1)])
  <2>1. /\ 1 .. k \in SUBSET S /\ 1 .. k # {}
        /\ Max(1 .. k) = k /\ (1 .. k) \ {Max(1 .. k)} = 1 .. (k - 1)
    BY <1>1, UpTo
  <2> HIDE DEF n
  <2> QED BY <1>7, <2>1 DEF Look
<1> QED BY <1>6, <1>8, <1>9

\* What holds of a fold's base, and of each step of it, holds of the fold.
LEMMA FoldReaches ==
  ASSUME NEW n \in Nat, NEW f, NEW V, f[{}] \in V,
         \A k \in 1 .. n : f[1 .. (k - 1)] \in V => f[1 .. k] \in V
  PROVE  f[1 .. n] \in V
<1> DEFINE Bad == {m \in 0 .. n : f[1 .. m] \notin V}
<1>1. CASE Bad = {}
  BY <1>1
<1>2. CASE Bad # {}
  <2>1. PICK m \in Bad : \A k \in Bad : m <= k
    <3>1. Bad \subseteq Nat
      OBVIOUS
    <3> HIDE DEF Bad
    <3> QED BY <1>2, <3>1, LeastExists
  <2>2. m \in 0 .. n /\ f[1 .. m] \notin V
    OBVIOUS
  <2>3. m # 0
    <3>1. 1 .. 0 = {}
      OBVIOUS
    <3> QED BY <2>2, <3>1
  <2>4. m \in 1 .. n /\ m - 1 \in 0 .. n /\ ~(m <= m - 1)
    BY <2>2, <2>3
  <2>5. m - 1 \notin Bad
    <3> HIDE DEF Bad
    <3> QED BY <2>1, <2>4
  <2>6. f[1 .. (m - 1)] \in V
    BY <2>4, <2>5
  <2> QED BY <2>2, <2>4, <2>6
<1> QED BY <1>1, <1>2

\* A chain of filters shows a picture.
LEMMA ShownIsPicture ==
  ASSUME NEW filters \in Seq(DOMAIN Effect), NEW picture \in Pictured
  PROVE  Shown(filters, picture) \in Pictured
<1>1. PICK f : /\ f[{}] = picture
               /\ \A k \in 1 .. Len(filters) : f[1 .. k] = Look(filters[k], f[1 .. (k - 1)])
               /\ Shown(filters, picture) = f[1 .. Len(filters)]
  BY ShownSteps
<1>2. ASSUME NEW k \in 1 .. Len(filters), f[1 .. (k - 1)] \in Pictured
      PROVE  f[1 .. k] \in Pictured
  <2>1. filters[k] \in DOMAIN Effect
    OBVIOUS
  <2> QED BY <1>1, <1>2, <2>1, Looks
<1>3. Len(filters) \in Nat
  OBVIOUS
<1> QED BY <1>1, <1>2, <1>3, FoldReaches

\* The properties of a HEIC, one after the other.
Turned(props, i, o) == IF i \in DOMAIN props THEN Applied(o, props[i]) ELSE o

\* A property of an orientation makes an orientation.
LEMMA AppliedIsOrientation ==
  ASSUME NEW o \in Orientations, NEW p \in Property
  PROVE  Applied(o, p) \in Orientations
<1>1. p.payload \in Nat /\ (p.payload # NoPayload => p.payload \in 0 .. 3)
  BY DEF Property, NoPayload
<1>2. p.payload % 4 \in 0 .. 3
  BY <1>1
<1> QED BY <1>2 DEF Applied, Orientations, Mirrors

\* The loop of parse_orientation takes the listed properties one by one.
LEMMA HeicSteps ==
  ASSUME NEW props \in Seq(Property), NEW indices \in Seq(Nat)
  PROVE  \E f : /\ f[{}] = Upright
                /\ \A k \in 1 .. Len(indices) :
                     f[1 .. k] = Turned(props, indices[k], f[1 .. (k - 1)])
                /\ HeicOrientation(props, indices) = f[1 .. Len(indices)]
<1> DEFINE n == Len(indices)
           S == 1 .. n
           After(it, s) == IF s = {} THEN Upright
             ELSE IF indices[Max(s)] \in DOMAIN props
                  THEN Applied(it[s \ {Max(s)}], props[indices[Max(s)]])
                  ELSE it[s \ {Max(s)}]
           Eq(it) == it = [s \in SUBSET S |-> After(it, s)]
           move == [i \in S |-> [o \in Orientations |-> Turned(props, indices[i], o)]]
<1>1. n \in Nat /\ DOMAIN indices = S /\ \A i \in S : indices[i] \in Nat
  OBVIOUS
<1>2. move \in [S -> [Orientations -> Orientations]]
  <2>1. ASSUME NEW i \in S, NEW o \in Orientations
        PROVE  Turned(props, indices[i], o) \in Orientations
    <3>1. \A j \in DOMAIN props : props[j] \in Property
      OBVIOUS
    <3> QED BY <3>1, AppliedIsOrientation DEF Turned
  <2> QED BY <2>1
<1>3. Upright \in Orientations
  BY DEF Upright, Orientations, Mirrors
<1>4. PICK g \in [SUBSET S -> Orientations] : FoldOf(g, n, Upright, move)
  <2> HIDE DEF move, n
  <2> QED BY <1>1, <1>2, <1>3, FoldExists
<1>5. ASSUME NEW s \in SUBSET S PROVE g[s] = After(g, s)
  <2>1. CASE s = {}
    <3> HIDE DEF move, n
    <3> QED BY <1>4, <2>1 DEF FoldOf
  <2>2. CASE s # {}
    <3>1. Max(s) \in S /\ s \ {Max(s)} \in SUBSET S
      BY <1>1, <2>2, MaxInside
    <3>2. g[s \ {Max(s)}] \in Orientations
      <4> HIDE DEF move, n
      <4> QED BY <1>4, <3>1
    <3>3. move[Max(s)][g[s \ {Max(s)}]] = Turned(props, indices[Max(s)], g[s \ {Max(s)}])
      <4> HIDE DEF n
      <4> QED BY <3>1, <3>2
    <3> HIDE DEF move, n
    <3> QED BY <1>4, <2>2, <3>3 DEF Turned, FoldOf
  <2> QED BY <2>1, <2>2
<1>6. Eq(g)
  <2> HIDE DEF move, n, After
  <2> QED BY <1>4, <1>5
<1>7. PICK f : Eq(f) /\ HeicOrientation(props, indices) = f[S]
  <2>1. HeicOrientation(props, indices) = (CHOOSE it : Eq(it))[S]
    BY <1>1 DEF HeicOrientation, FoldLeft, MapThenFoldSet
  <2>2. Eq(CHOOSE it : Eq(it))
    <3> HIDE DEF Eq
    <3> QED BY <1>6
  <2> HIDE DEF Eq
  <2> QED BY <2>1, <2>2
<1>8. \A s \in SUBSET S : f[s] = After(f, s)
  <2> HIDE DEF After, n
  <2> QED BY <1>7
<1>9. f[{}] = Upright
  <2> HIDE DEF n
  <2> QED BY <1>8
<1>10. ASSUME NEW k \in 1 .. n PROVE f[1 .. k] = Turned(props, indices[k], f[1 .. (k - 1)])
  <2>1. /\ 1 .. k \in SUBSET S /\ 1 .. k # {}
        /\ Max(1 .. k) = k /\ (1 .. k) \ {Max(1 .. k)} = 1 .. (k - 1)
    BY <1>1, UpTo
  <2> HIDE DEF n
  <2> QED BY <1>8, <2>1 DEF Turned
<1> QED BY <1>7, <1>9, <1>10

\* A list of any length, of any properties, is read as an orientation.
LEMMA HeicIsOrientation ==
  ASSUME NEW props \in Seq(Property), NEW indices \in Seq(Nat)
  PROVE  HeicOrientation(props, indices) \in Orientations
<1>1. PICK f : /\ f[{}] = Upright
               /\ \A k \in 1 .. Len(indices) :
                    f[1 .. k] = Turned(props, indices[k], f[1 .. (k - 1)])
               /\ HeicOrientation(props, indices) = f[1 .. Len(indices)]
  BY HeicSteps
<1>2. ASSUME NEW k \in 1 .. Len(indices), f[1 .. (k - 1)] \in Orientations
      PROVE  f[1 .. k] \in Orientations
  <2>1. \A j \in DOMAIN props : props[j] \in Property
    OBVIOUS
  <2> QED BY <1>1, <1>2, <2>1, AppliedIsOrientation DEF Turned
<1>3. Len(indices) \in Nat /\ Upright \in Orientations
  BY DEF Upright, Orientations, Mirrors
<1> QED BY <1>1, <1>2, <1>3, FoldReaches

\* A picture mirrored, and turned.
Mirrored(m, pic) ==
  IF m = "none" THEN pic ELSE IF m = "horizontal" THEN Look("hflip", pic) ELSE Look("vflip", pic)
Rotated(r, pic) ==
  IF r = 0 THEN pic ELSE IF r = 1 THEN Look("cclock", pic)
  ELSE IF r = 2 THEN Look("vflip", Look("hflip", pic)) ELSE Look("clock", pic)

\* No filter.
LEMMA NoFilter ==
  ASSUME NEW picture \in Pictured
  PROVE  Shown(<<>>, picture) = picture
<1> DEFINE s == <<>>
<1>1. s \in Seq(DOMAIN Effect) /\ Len(s) = 0 /\ 1 .. 0 = {}
  OBVIOUS
<1> HIDE DEF s
<1>2. PICK f : /\ f[{}] = picture
               /\ \A k \in 1 .. Len(s) : f[1 .. k] = Look(s[k], f[1 .. (k - 1)])
               /\ Shown(s, picture) = f[1 .. Len(s)]
  BY <1>1, ShownSteps
<1>3. Shown(s, picture) = picture
  BY <1>1, <1>2
<1> QED BY <1>3 DEF s

\* One filter.
LEMMA OneFilter ==
  ASSUME NEW picture \in Pictured, NEW a \in DOMAIN Effect
  PROVE  Shown(<<a>>, picture) = Look(a, picture)
<1> DEFINE s == <<a>>
<1>1. s \in Seq(DOMAIN Effect) /\ Len(s) = 1 /\ s[1] = a /\ 1 \in 1 .. 1
  OBVIOUS
<1> HIDE DEF s
<1>2. PICK f : /\ f[{}] = picture
               /\ \A k \in 1 .. Len(s) : f[1 .. k] = Look(s[k], f[1 .. (k - 1)])
               /\ Shown(s, picture) = f[1 .. Len(s)]
  BY <1>1, ShownSteps
<1>3. f[1 .. 1] = Look(s[1], f[1 .. 0]) /\ 1 .. 0 = {}
  BY <1>1, <1>2
<1>4. Shown(s, picture) = Look(a, picture)
  BY <1>1, <1>2, <1>3
<1> QED BY <1>4 DEF s

\* Two filters.
LEMMA TwoFilters ==
  ASSUME NEW picture \in Pictured, NEW a \in DOMAIN Effect, NEW b \in DOMAIN Effect
  PROVE  Shown(<<a, b>>, picture) = Look(b, Look(a, picture))
<1> DEFINE s == <<a, b>>
<1>1. /\ s \in Seq(DOMAIN Effect) /\ Len(s) = 2 /\ s[1] = a /\ s[2] = b
      /\ 1 \in 1 .. 2 /\ 2 \in 1 .. 2
  OBVIOUS
<1> HIDE DEF s
<1>2. PICK f : /\ f[{}] = picture
               /\ \A k \in 1 .. Len(s) : f[1 .. k] = Look(s[k], f[1 .. (k - 1)])
               /\ Shown(s, picture) = f[1 .. Len(s)]
  BY <1>1, ShownSteps
<1>3. /\ f[1 .. 1] = Look(s[1], f[1 .. 0]) /\ f[1 .. 2] = Look(s[2], f[1 .. 1])
      /\ 1 .. 0 = {}
  BY <1>1, <1>2
<1>4. Shown(s, picture) = Look(b, Look(a, picture))
  BY <1>1, <1>2, <1>3
<1> QED BY <1>4 DEF s

\* Three filters.
LEMMA ThreeFilters ==
  ASSUME NEW picture \in Pictured,
         NEW a \in DOMAIN Effect, NEW b \in DOMAIN Effect, NEW c \in DOMAIN Effect
  PROVE  Shown(<<a, b, c>>, picture) = Look(c, Look(b, Look(a, picture)))
<1> DEFINE s == <<a, b, c>>
<1>1. /\ s \in Seq(DOMAIN Effect) /\ Len(s) = 3 /\ s[1] = a /\ s[2] = b /\ s[3] = c
      /\ 1 \in 1 .. 3 /\ 2 \in 1 .. 3 /\ 3 \in 1 .. 3
  OBVIOUS
<1> HIDE DEF s
<1>2. PICK f : /\ f[{}] = picture
               /\ \A k \in 1 .. Len(s) : f[1 .. k] = Look(s[k], f[1 .. (k - 1)])
               /\ Shown(s, picture) = f[1 .. Len(s)]
  BY <1>1, ShownSteps
<1>3. /\ f[1 .. 1] = Look(s[1], f[1 .. 0]) /\ f[1 .. 2] = Look(s[2], f[1 .. 1])
      /\ f[1 .. 3] = Look(s[3], f[1 .. 2]) /\ 1 .. 0 = {}
  BY <1>1, <1>2
<1>4. Shown(s, picture) = Look(c, Look(b, Look(a, picture)))
  BY <1>1, <1>2, <1>3
<1> QED BY <1>4 DEF s

\* Two short lists of filters, joined.
LEMMA JoinTwo ==
  ASSUME NEW m, NEW x
  PROVE  <<m>> \o <<x>> = <<m, x>>
<1> DEFINE s == <<m>> \o <<x>>
<1>1. Len(s) = 2 /\ s[1] = m /\ s[2] = x /\ s \in Seq({m, x})
  OBVIOUS
<1> HIDE DEF s
<1>2. s = <<m, x>>
  BY <1>1
<1> QED BY <1>2 DEF s

\* A mirror and half a turn.
LEMMA JoinThree ==
  ASSUME NEW m, NEW x, NEW y
  PROVE  <<m>> \o <<x, y>> = <<m, x, y>>
<1> DEFINE s == <<m>> \o <<x, y>>
<1>1. Len(s) = 3 /\ s[1] = m /\ s[2] = x /\ s[3] = y /\ s \in Seq({m, x, y})
  OBVIOUS
<1> HIDE DEF s
<1>2. s = <<m, x, y>>
  BY <1>1
<1> QED BY <1>2 DEF s

\* The filters of each orientation.
LEMMA FiltersAre ==
  ASSUME NEW o \in Orientations
  PROVE  Filters(o) =
    IF o.mirror = "none"
    THEN CASE o.rotation = 0 -> <<>> [] o.rotation = 1 -> <<"cclock">>
           [] o.rotation = 2 -> <<"hflip", "vflip">> [] o.rotation = 3 -> <<"clock">>
    ELSE LET m == IF o.mirror = "horizontal" THEN "hflip" ELSE "vflip"
         IN CASE o.rotation = 0 -> <<m>> [] o.rotation = 1 -> <<m, "cclock">>
              [] o.rotation = 2 -> <<m, "hflip", "vflip">> [] o.rotation = 3 -> <<m, "clock">>
<1>1. o.rotation \in {0, 1, 2, 3} /\ o.mirror \in {"none", "horizontal", "vertical"}
  BY DEF Orientations, Mirrors
<1>2. /\ RotationFilters[0 + 1] = <<>> /\ RotationFilters[1 + 1] = <<"cclock">>
      /\ RotationFilters[2 + 1] = <<"hflip", "vflip">> /\ RotationFilters[3 + 1] = <<"clock">>
  BY DEF RotationFilters
<1>3. /\ MirrorFilters["none"] = <<>> /\ MirrorFilters["horizontal"] = <<"hflip">>
      /\ MirrorFilters["vertical"] = <<"vflip">>
  BY DEF MirrorFilters
<1>4. /\ <<>> \o <<>> = <<>> /\ <<>> \o <<"cclock">> = <<"cclock">>
      /\ <<>> \o <<"hflip", "vflip">> = <<"hflip", "vflip">>
      /\ <<>> \o <<"clock">> = <<"clock">>
  OBVIOUS
<1>8. ASSUME NEW m \in {"hflip", "vflip"}
      PROVE  /\ <<m>> \o <<>> = <<m>> /\ <<m>> \o <<"cclock">> = <<m, "cclock">>
             /\ <<m>> \o <<"hflip", "vflip">> = <<m, "hflip", "vflip">>
             /\ <<m>> \o <<"clock">> = <<m, "clock">>
  BY JoinTwo, JoinThree
<1>5. CASE o.mirror = "none"
  BY <1>1, <1>2, <1>3, <1>4, <1>5 DEF Filters
<1>6. CASE o.mirror = "horizontal"
  BY <1>1, <1>2, <1>3, <1>8, <1>6 DEF Filters
<1>7. CASE o.mirror = "vertical"
  BY <1>1, <1>2, <1>3, <1>8, <1>7 DEF Filters
<1> QED BY <1>1, <1>5, <1>6, <1>7

\* An orientation's filters mirror, and then turn.
LEMMA ShownIs ==
  ASSUME NEW o \in Orientations, NEW pic \in Pictured
  PROVE  /\ Shown(Filters(o), pic) = Rotated(o.rotation, Mirrored(o.mirror, pic))
         /\ Shown(Filters(o), pic) \in Pictured
<1>1. o.rotation \in {0, 1, 2, 3} /\ o.mirror \in {"none", "horizontal", "vertical"}
  BY DEF Orientations, Mirrors
<1>2. {"hflip", "vflip", "clock", "cclock"} \subseteq DOMAIN Effect
  BY DEF Effect
<1>3. CASE o.mirror = "none"
  <2>1. CASE o.rotation = 0
    <3>1. Filters(o) = <<>>
      BY <1>3, <2>1, FiltersAre
    <3> QED BY <1>2, <1>3, <2>1, <3>1, NoFilter DEF Mirrored, Rotated
  <2>2. CASE o.rotation = 1
    <3>1. Filters(o) = <<"cclock">>
      BY <1>3, <2>2, FiltersAre
    <3> QED BY <1>2, <1>3, <2>2, <3>1, OneFilter, Looks DEF Mirrored, Rotated
  <2>3. CASE o.rotation = 2
    <3>1. Filters(o) = <<"hflip", "vflip">>
      BY <1>3, <2>3, FiltersAre
    <3> QED BY <1>2, <1>3, <2>3, <3>1, TwoFilters, Looks DEF Mirrored, Rotated
  <2>4. CASE o.rotation = 3
    <3>1. Filters(o) = <<"clock">>
      BY <1>3, <2>4, FiltersAre
    <3> QED BY <1>2, <1>3, <2>4, <3>1, OneFilter, Looks DEF Mirrored, Rotated
  <2> QED BY <1>1, <2>1, <2>2, <2>3, <2>4
<1>4. CASE o.mirror # "none"
  <2> DEFINE m == IF o.mirror = "horizontal" THEN "hflip" ELSE "vflip"
  <2>0. m \in DOMAIN Effect /\ Mirrored(o.mirror, pic) = Look(m, pic)
    BY <1>1, <1>2, <1>4 DEF Mirrored
  <2>1. CASE o.rotation = 0
    <3>1. Filters(o) = <<m>>
      BY <1>4, <2>1, FiltersAre
    <3> HIDE DEF m
    <3> QED BY <2>0, <2>1, <3>1, OneFilter, Looks DEF Rotated
  <2>2. CASE o.rotation = 1
    <3>1. Filters(o) = <<m, "cclock">>
      BY <1>4, <2>2, FiltersAre
    <3> HIDE DEF m
    <3> QED BY <1>2, <2>0, <2>2, <3>1, TwoFilters, Looks DEF Rotated
  <2>3. CASE o.rotation = 2
    <3>1. Filters(o) = <<m, "hflip", "vflip">>
      BY <1>4, <2>3, FiltersAre
    <3> HIDE DEF m
    <3> QED BY <1>2, <2>0, <2>3, <3>1, ThreeFilters, Looks DEF Rotated
  <2>4. CASE o.rotation = 3
    <3>1. Filters(o) = <<m, "clock">>
      BY <1>4, <2>4, FiltersAre
    <3> HIDE DEF m
    <3> QED BY <1>2, <2>0, <2>4, <3>1, TwoFilters, Looks DEF Rotated
  <2> QED BY <1>1, <2>1, <2>2, <2>3, <2>4
<1> QED BY <1>3, <1>4

\* What the filters do, corner by corner.
LEMMA LooksAre ==
  ASSUME NEW a, NEW b, NEW c, NEW d
  PROVE  /\ Look("hflip", Turn(a, b, c, d)) = Turn(b, a, d, c)
         /\ Look("vflip", Turn(a, b, c, d)) = Turn(d, c, b, a)
         /\ Look("clock", Turn(a, b, c, d)) = Turn(d, a, b, c)
         /\ Look("cclock", Turn(a, b, c, d)) = Turn(b, c, d, a)
BY DEF Look, Effect, Turn, Corners

\* The corners of a picture.
LEMMA TurnAt ==
  ASSUME NEW a, NEW b, NEW c, NEW d
  PROVE  /\ Turn(a, b, c, d)["topLeft"] = a /\ Turn(a, b, c, d)["topRight"] = b
         /\ Turn(a, b, c, d)["bottomRight"] = c /\ Turn(a, b, c, d)["bottomLeft"] = d
BY DEF Turn, Corners

\* Half a turn and a mirror commute; a quarter turn and a mirror do not.
LEMMA MirrorsCommute ==
  ASSUME NEW m \in {"horizontal", "vertical"}
  PROVE  /\ \A r \in {0, 2} : Rotated(r, Mirrored(m, Stored)) = Mirrored(m, Rotated(r, Stored))
         /\ \A r \in {1, 3} : Rotated(r, Mirrored(m, Stored)) # Mirrored(m, Rotated(r, Stored))
<1>1. Stored = Turn("topLeft", "topRight", "bottomRight", "bottomLeft")
  BY DEF Stored, Turn, Corners
<1>2. ASSUME NEW r \in {0, 2}
      PROVE  Rotated(r, Mirrored(m, Stored)) = Mirrored(m, Rotated(r, Stored))
  BY <1>1, LooksAre, TurnAt DEF Rotated, Mirrored
<1>3. ASSUME NEW r \in {1, 3}
      PROVE  Rotated(r, Mirrored(m, Stored))["topLeft"] # Mirrored(m, Rotated(r, Stored))["topLeft"]
  BY <1>1, LooksAre, TurnAt DEF Rotated, Mirrored
<1> QED BY <1>2, <1>3

\* An EXIF code is read as an orientation.
LEMMA ExifIsOrientation == \A code : FromExif(code) \in Orientations
BY DEF FromExif, Orientations, Mirrors, Upright

\* What each code means.
LEMMA ExifMeans ==
  /\ ExifMeaning(0) = Turn("topLeft", "topRight", "bottomRight", "bottomLeft")
  /\ ExifMeaning(1) = Turn("topLeft", "topRight", "bottomRight", "bottomLeft")
  /\ ExifMeaning(2) = Turn("topRight", "topLeft", "bottomLeft", "bottomRight")
  /\ ExifMeaning(3) = Turn("bottomRight", "bottomLeft", "topLeft", "topRight")
  /\ ExifMeaning(4) = Turn("bottomLeft", "bottomRight", "topRight", "topLeft")
  /\ ExifMeaning(5) = Turn("topLeft", "bottomLeft", "bottomRight", "topRight")
  /\ ExifMeaning(6) = Turn("bottomLeft", "topLeft", "topRight", "bottomRight")
  /\ ExifMeaning(7) = Turn("bottomRight", "topRight", "topLeft", "bottomLeft")
  /\ ExifMeaning(8) = Turn("topRight", "bottomRight", "bottomLeft", "topLeft")
  /\ ExifMeaning(9) = Turn("topLeft", "topRight", "bottomRight", "bottomLeft")
<1>0. ExifMeaning(0) = Turn("topLeft", "topRight", "bottomRight", "bottomLeft")
  BY DEF ExifMeaning, RowSide, ColSide, Sides, StoredAt, Turn, Corners
<1>1. ExifMeaning(1) = Turn("topLeft", "topRight", "bottomRight", "bottomLeft")
  BY DEF ExifMeaning, RowSide, ColSide, Sides, StoredAt, Turn, Corners
<1>2. ExifMeaning(2) = Turn("topRight", "topLeft", "bottomLeft", "bottomRight")
  BY DEF ExifMeaning, RowSide, ColSide, Sides, StoredAt, Turn, Corners
<1>3. ExifMeaning(3) = Turn("bottomRight", "bottomLeft", "topLeft", "topRight")
  BY DEF ExifMeaning, RowSide, ColSide, Sides, StoredAt, Turn, Corners
<1>4. ExifMeaning(4) = Turn("bottomLeft", "bottomRight", "topRight", "topLeft")
  BY DEF ExifMeaning, RowSide, ColSide, Sides, StoredAt, Turn, Corners
<1>5. ExifMeaning(5) = Turn("topLeft", "bottomLeft", "bottomRight", "topRight")
  BY DEF ExifMeaning, RowSide, ColSide, Sides, StoredAt, Turn, Corners
<1>6. ExifMeaning(6) = Turn("bottomLeft", "topLeft", "topRight", "bottomRight")
  BY DEF ExifMeaning, RowSide, ColSide, Sides, StoredAt, Turn, Corners
<1>7. ExifMeaning(7) = Turn("bottomRight", "topRight", "topLeft", "bottomLeft")
  BY DEF ExifMeaning, RowSide, ColSide, Sides, StoredAt, Turn, Corners
<1>8. ExifMeaning(8) = Turn("topRight", "bottomRight", "bottomLeft", "topLeft")
  BY DEF ExifMeaning, RowSide, ColSide, Sides, StoredAt, Turn, Corners
<1>9. ExifMeaning(9) = Turn("topLeft", "topRight", "bottomRight", "bottomLeft")
  BY DEF ExifMeaning, RowSide, ColSide, Sides, StoredAt, Turn, Corners
<1> QED BY <1>0, <1>1, <1>2, <1>3, <1>4, <1>5, <1>6, <1>7, <1>8, <1>9

\* Every code but the swapped ones is shown as it means.
LEMMA ExifIsShown ==
  ASSUME NEW code \in 0 .. 9, code \notin SwappedCodes
  PROVE  ExifShown(code) = ExifMeaning(code)
<1>0. Stored = Turn("topLeft", "topRight", "bottomRight", "bottomLeft") /\ Stored \in Pictured
  BY DEF Stored, Pictured, Turn, Corners
<1>1. ExifShown(0) = ExifMeaning(0)
  <2>1. FromExif(0) = [rotation |-> 0, mirror |-> "none"]
    BY DEF FromExif, Upright
  <2>2. ExifShown(0) = Rotated(0, Mirrored("none", Stored))
    BY <1>0, <2>1, ExifIsOrientation, ShownIs DEF ExifShown
  <2> QED BY <1>0, <2>2, LooksAre, ExifMeans DEF Rotated, Mirrored
<1>2. ExifShown(1) = ExifMeaning(1)
  <2>1. FromExif(1) = [rotation |-> 0, mirror |-> "none"]
    BY DEF FromExif, Upright
  <2>2. ExifShown(1) = Rotated(0, Mirrored("none", Stored))
    BY <1>0, <2>1, ExifIsOrientation, ShownIs DEF ExifShown
  <2> QED BY <1>0, <2>2, LooksAre, ExifMeans DEF Rotated, Mirrored
<1>3. ExifShown(2) = ExifMeaning(2)
  <2>1. FromExif(2) = [rotation |-> 0, mirror |-> "horizontal"]
    BY DEF FromExif, Upright
  <2>2. ExifShown(2) = Rotated(0, Mirrored("horizontal", Stored))
    BY <1>0, <2>1, ExifIsOrientation, ShownIs DEF ExifShown
  <2> QED BY <1>0, <2>2, LooksAre, ExifMeans DEF Rotated, Mirrored
<1>4. ExifShown(3) = ExifMeaning(3)
  <2>1. FromExif(3) = [rotation |-> 2, mirror |-> "none"]
    BY DEF FromExif, Upright
  <2>2. ExifShown(3) = Rotated(2, Mirrored("none", Stored))
    BY <1>0, <2>1, ExifIsOrientation, ShownIs DEF ExifShown
  <2> QED BY <1>0, <2>2, LooksAre, ExifMeans DEF Rotated, Mirrored
<1>5. ExifShown(4) = ExifMeaning(4)
  <2>1. FromExif(4) = [rotation |-> 0, mirror |-> "vertical"]
    BY DEF FromExif, Upright
  <2>2. ExifShown(4) = Rotated(0, Mirrored("vertical", Stored))
    BY <1>0, <2>1, ExifIsOrientation, ShownIs DEF ExifShown
  <2> QED BY <1>0, <2>2, LooksAre, ExifMeans DEF Rotated, Mirrored
<1>7. ExifShown(6) = ExifMeaning(6)
  <2>1. FromExif(6) = [rotation |-> 3, mirror |-> "none"]
    BY DEF FromExif, Upright
  <2>2. ExifShown(6) = Rotated(3, Mirrored("none", Stored))
    BY <1>0, <2>1, ExifIsOrientation, ShownIs DEF ExifShown
  <2> QED BY <1>0, <2>2, LooksAre, ExifMeans DEF Rotated, Mirrored
<1>9. ExifShown(8) = ExifMeaning(8)
  <2>1. FromExif(8) = [rotation |-> 1, mirror |-> "none"]
    BY DEF FromExif, Upright
  <2>2. ExifShown(8) = Rotated(1, Mirrored("none", Stored))
    BY <1>0, <2>1, ExifIsOrientation, ShownIs DEF ExifShown
  <2> QED BY <1>0, <2>2, LooksAre, ExifMeans DEF Rotated, Mirrored
<1>10. ExifShown(9) = ExifMeaning(9)
  <2>1. FromExif(9) = [rotation |-> 0, mirror |-> "none"]
    BY DEF FromExif, Upright
  <2>2. ExifShown(9) = Rotated(0, Mirrored("none", Stored))
    BY <1>0, <2>1, ExifIsOrientation, ShownIs DEF ExifShown
  <2> QED BY <1>0, <2>2, LooksAre, ExifMeans DEF Rotated, Mirrored
<1> QED BY <1>1, <1>2, <1>3, <1>4, <1>5, <1>7, <1>9, <1>10 DEF SwappedCodes

\* The meaning of a HEIC's properties, one after the other.
Seen(props, i, pic) == IF i \in DOMAIN props THEN Means(props[i], pic) ELSE pic

\* A picture, told by its corners.
LEMMA Cornered ==
  ASSUME NEW pic \in Pictured
  PROVE  pic = Turn(pic["topLeft"], pic["topRight"], pic["bottomRight"], pic["bottomLeft"])
<1> DEFINE t == Turn(pic["topLeft"], pic["topRight"], pic["bottomRight"], pic["bottomLeft"])
<1>1. \A c \in Corners : t[c] = pic[c]
  BY TurnAt DEF Corners
<1>2. t \in [Corners -> {pic[c] : c \in Corners}]
  BY DEF Turn, Corners
<1> HIDE DEF t
<1>3. pic = t
  BY <1>1, <1>2 DEF Pictured
<1> QED BY <1>3 DEF t

\* Quarter turns, corner by corner, are the filters of a rotation.
LEMMA TurnsAgree ==
  ASSUME NEW n \in {0, 1, 2, 3}, NEW pic \in Pictured
  PROVE  QuarterTurns(n, pic) = Rotated(n, pic)
<1> DEFINE a == pic["topLeft"] b == pic["topRight"] c == pic["bottomRight"] d == pic["bottomLeft"]
<1>1. /\ Ring[1] = "topLeft" /\ Ring[2] = "topRight" /\ Ring[3] = "bottomRight"
      /\ Ring[4] = "bottomLeft"
  BY DEF Ring
<1>2. pic = Turn(a, b, c, d)
  BY Cornered
<1>3. CASE n = 0
  <2>1. QuarterTurns(0, pic) = Turn(a, b, c, d)
    BY <1>1 DEF QuarterTurns
  <2> QED BY <1>2, <1>3, <2>1 DEF Rotated
<1>4. CASE n = 1
  <2>1. QuarterTurns(1, pic) = Turn(b, c, d, a)
    BY <1>1 DEF QuarterTurns
  <2>2. Look("cclock", pic) = Turn(b, c, d, a)
    <3> HIDE DEF a, b, c, d
    <3> QED BY <1>2, LooksAre
  <2> QED BY <1>4, <2>1, <2>2 DEF Rotated
<1>5. CASE n = 2
  <2>1. QuarterTurns(2, pic) = Turn(c, d, a, b)
    BY <1>1 DEF QuarterTurns
  <2>2. Look("vflip", Look("hflip", pic)) = Turn(c, d, a, b)
    <3> HIDE DEF a, b, c, d
    <3> QED BY <1>2, LooksAre
  <2> QED BY <1>5, <2>1, <2>2 DEF Rotated
<1>6. CASE n = 3
  <2>1. QuarterTurns(3, pic) = Turn(d, a, b, c)
    BY <1>1 DEF QuarterTurns
  <2>2. Look("clock", pic) = Turn(d, a, b, c)
    <3> HIDE DEF a, b, c, d
    <3> QED BY <1>2, LooksAre
  <2> QED BY <1>6, <2>1, <2>2 DEF Rotated
<1> QED BY <1>3, <1>4, <1>5, <1>6

\* An exchange of sides is the filter of a mirror.
LEMMA ExchangesAgree ==
  ASSUME NEW pic \in Pictured
  PROVE  /\ Exchanged(0, pic) = Mirrored("horizontal", pic)
         /\ Exchanged(1, pic) = Mirrored("vertical", pic)
<1> DEFINE a == pic["topLeft"] b == pic["topRight"] c == pic["bottomRight"] d == pic["bottomLeft"]
<1>1. pic = Turn(a, b, c, d)
  BY Cornered
<1>2. Exchanged(0, pic) = Turn(b, a, d, c) /\ Exchanged(1, pic) = Turn(d, c, b, a)
  BY DEF Exchanged
<1>3. Look("hflip", pic) = Turn(b, a, d, c) /\ Look("vflip", pic) = Turn(d, c, b, a)
  <2> HIDE DEF a, b, c, d
  <2> QED BY <1>1, LooksAre
<1> QED BY <1>2, <1>3 DEF Mirrored

\* A rotation and a mirror make a picture of a picture.
LEMMA StillPictured ==
  ASSUME NEW pic \in Pictured
  PROVE  /\ \A r : Rotated(r, pic) \in Pictured
         /\ \A m : Mirrored(m, pic) \in Pictured
<1>1. {"hflip", "vflip", "clock", "cclock"} \subseteq DOMAIN Effect
  BY DEF Effect
<1>2. /\ Look("hflip", pic) \in Pictured /\ Look("vflip", pic) \in Pictured
      /\ Look("clock", pic) \in Pictured /\ Look("cclock", pic) \in Pictured
  BY <1>1, Looks
<1>3. Look("vflip", Look("hflip", pic)) \in Pictured
  BY <1>1, <1>2, Looks
<1> QED BY <1>2, <1>3 DEF Rotated, Mirrored

\* A property does nothing, or it turns, or it mirrors: what it means, and what
\* the code makes of it.
LEMMA MeansIs ==
  ASSUME NEW p \in Property
  PROVE  \/ /\ ~Counts(p, "irot") /\ ~Counts(p, "imir")
            /\ \A o \in Orientations : Applied(o, p) = o
            /\ \A pic \in Pictured : Means(p, pic) = pic
         \/ /\ Counts(p, "irot") /\ p.payload \in {0, 1, 2, 3}
            /\ \A o \in Orientations : Applied(o, p) = [rotation |-> p.payload, mirror |-> o.mirror]
            /\ \A pic \in Pictured : Means(p, pic) = Rotated(p.payload, pic)
         \/ /\ Counts(p, "imir")
            /\ \E m \in {"horizontal", "vertical"} :
                 /\ \A o \in Orientations : Applied(o, p) = [rotation |-> o.rotation, mirror |-> m]
                 /\ \A pic \in Pictured : Means(p, pic) = Mirrored(m, pic)
<1>1. /\ p.kind \in {"irot", "imir", "other"}
      /\ p.payload \in {0, 1, 2, 3} \/ p.payload = NoPayload
      /\ p.payload \in {0, 1, 2, 3} => p.payload # NoPayload
  BY DEF Property, NoPayload
<1>2. p.payload \in {0, 1, 2, 3} => p.payload % 4 = p.payload /\ p.payload % 2 \in {0, 1}
  OBVIOUS
<1>3. ASSUME NEW o \in Orientations
      PROVE  /\ \A r : [o EXCEPT !.rotation = r] = [rotation |-> r, mirror |-> o.mirror]
             /\ \A m : [o EXCEPT !.mirror = m] = [rotation |-> o.rotation, mirror |-> m]
  BY DEF Orientations
<1>4. CASE p.kind = "other" \/ p.payload = NoPayload
  BY <1>4 DEF Applied, Means, Counts
<1>5. CASE p.kind = "irot" /\ p.payload \in {0, 1, 2, 3}
  <2>1. ASSUME NEW o \in Orientations
        PROVE  Applied(o, p) = [rotation |-> p.payload, mirror |-> o.mirror]
    BY <1>1, <1>2, <1>3, <1>5 DEF Applied
  <2>2. ASSUME NEW pic \in Pictured PROVE Means(p, pic) = Rotated(p.payload, pic)
    BY <1>1, <1>2, <1>5, TurnsAgree DEF Means, Counts
  <2> QED BY <1>1, <1>5, <2>1, <2>2 DEF Counts
<1>6. CASE p.kind = "imir" /\ p.payload \in {0, 1, 2, 3}
  <2> DEFINE m == IF p.payload % 2 = 1 THEN "vertical" ELSE "horizontal"
  <2>1. m \in {"horizontal", "vertical"}
    OBVIOUS
  <2>2. ASSUME NEW o \in Orientations
        PROVE  Applied(o, p) = [rotation |-> o.rotation, mirror |-> m]
    BY <1>1, <1>3, <1>6 DEF Applied
  <2>3. ASSUME NEW pic \in Pictured PROVE Means(p, pic) = Mirrored(m, pic)
    <3>1. Means(p, pic) = Exchanged(p.payload % 2, pic)
      BY <1>1, <1>6 DEF Means, Counts
    <3>2. CASE p.payload % 2 = 0
      BY <3>1, <3>2, ExchangesAgree
    <3>3. CASE p.payload % 2 = 1
      BY <3>1, <3>3, ExchangesAgree
    <3> QED BY <1>2, <1>6, <3>2, <3>3
  <2>4. Counts(p, "imir")
    BY <1>1, <1>6 DEF Counts
  <2> HIDE DEF m
  <2> QED BY <2>1, <2>2, <2>3, <2>4
<1> QED BY <1>1, <1>4, <1>5, <1>6

\* It makes a picture of a picture.
LEMMA SeenIsPicture ==
  ASSUME NEW props \in Seq(Property), NEW i, NEW pic \in Pictured
  PROVE  Seen(props, i, pic) \in Pictured
<1>1. \A j \in DOMAIN props : props[j] \in Property
  OBVIOUS
<1>2. \A j \in DOMAIN props : Means(props[j], pic) \in Pictured
  BY <1>1, MeansIs, StillPictured
<1> QED BY <1>2 DEF Seen

\* The meaning of a list takes its properties one by one.
LEMMA MeaningSteps ==
  ASSUME NEW props \in Seq(Property), NEW indices \in Seq(Nat)
  PROVE  \E f : /\ f[{}] = Stored
                /\ \A k \in 1 .. Len(indices) :
                     f[1 .. k] = Seen(props, indices[k], f[1 .. (k - 1)])
                /\ HeicMeaning(props, indices) = f[1 .. Len(indices)]
<1> DEFINE n == Len(indices)
           S == 1 .. n
           After(it, s) == IF s = {} THEN Stored
             ELSE IF indices[Max(s)] \in DOMAIN props
                  THEN Means(props[indices[Max(s)]], it[s \ {Max(s)}])
                  ELSE it[s \ {Max(s)}]
           Eq(it) == it = [s \in SUBSET S |-> After(it, s)]
           move == [i \in S |-> [pic \in Pictured |-> Seen(props, indices[i], pic)]]
<1>1. n \in Nat /\ DOMAIN indices = S /\ \A i \in S : indices[i] \in Nat
  OBVIOUS
<1>2. move \in [S -> [Pictured -> Pictured]]
  BY SeenIsPicture
<1>3. Stored \in Pictured
  BY DEF Stored, Pictured
<1>4. PICK g \in [SUBSET S -> Pictured] : FoldOf(g, n, Stored, move)
  <2> HIDE DEF move, n
  <2> QED BY <1>1, <1>2, <1>3, FoldExists
<1>5. ASSUME NEW s \in SUBSET S PROVE g[s] = After(g, s)
  <2>1. CASE s = {}
    <3> HIDE DEF move, n
    <3> QED BY <1>4, <2>1 DEF FoldOf
  <2>2. CASE s # {}
    <3>1. Max(s) \in S /\ s \ {Max(s)} \in SUBSET S
      BY <1>1, <2>2, MaxInside
    <3>2. g[s \ {Max(s)}] \in Pictured
      <4> HIDE DEF move, n
      <4> QED BY <1>4, <3>1
    <3>3. move[Max(s)][g[s \ {Max(s)}]] = Seen(props, indices[Max(s)], g[s \ {Max(s)}])
      <4> HIDE DEF n
      <4> QED BY <3>1, <3>2
    <3> HIDE DEF move, n
    <3> QED BY <1>4, <2>2, <3>3 DEF Seen, FoldOf
  <2> QED BY <2>1, <2>2
<1>6. Eq(g)
  <2> HIDE DEF move, n, After
  <2> QED BY <1>4, <1>5
<1>7. PICK f : Eq(f) /\ HeicMeaning(props, indices) = f[S]
  <2>1. HeicMeaning(props, indices) = (CHOOSE it : Eq(it))[S]
    BY <1>1 DEF HeicMeaning, FoldLeft, MapThenFoldSet
  <2>2. Eq(CHOOSE it : Eq(it))
    <3> HIDE DEF Eq
    <3> QED BY <1>6
  <2> HIDE DEF Eq
  <2> QED BY <2>1, <2>2
<1>8. \A s \in SUBSET S : f[s] = After(f, s)
  <2> HIDE DEF After, n
  <2> QED BY <1>7
<1>9. f[{}] = Stored
  <2> HIDE DEF n
  <2> QED BY <1>8
<1>10. ASSUME NEW k \in 1 .. n PROVE f[1 .. k] = Seen(props, indices[k], f[1 .. (k - 1)])
  <2>1. /\ 1 .. k \in SUBSET S /\ 1 .. k # {}
        /\ Max(1 .. k) = k /\ (1 .. k) \ {Max(1 .. k)} = 1 .. (k - 1)
    BY <1>1, UpTo
  <2> HIDE DEF n
  <2> QED BY <1>8, <2>1 DEF Seen
<1> QED BY <1>7, <1>9, <1>10

\* What the first k of a list's indices have come to: the filters show what
\* they mean, and what turns or mirrors is one of them.
SoFar(props, indices, k, o, pic) ==
  /\ o \in Orientations /\ pic = Shown(Filters(o), Stored)
  /\ o.rotation # 0 => \E i \in Listed(props, indices, "irot") :
                          i <= k /\ props[indices[i]].payload = o.rotation
  /\ o.mirror # "none" => \E i \in Listed(props, indices, "imir") : i <= k

\* One more index of a list whose order the code can tell.
LEMMA OneMoreProperty ==
  ASSUME NEW props \in Seq(Property), NEW indices \in Seq(Nat), OrderIsKept(props, indices),
         NEW k \in 1 .. Len(indices), NEW o, NEW pic, SoFar(props, indices, k - 1, o, pic)
  PROVE  SoFar(props, indices, k, Turned(props, indices[k], o), Seen(props, indices[k], pic))
<1> DEFINE turns == Listed(props, indices, "irot")
           mirrors == Listed(props, indices, "imir")
           i == indices[k]
<1> SUFFICES SoFar(props, indices, k, Turned(props, i, o), Seen(props, i, pic))
  OBVIOUS
<1>1. /\ o \in Orientations /\ pic = Shown(Filters(o), Stored)
      /\ o.rotation # 0 => \E t \in turns : t <= k - 1 /\ props[indices[t]].payload = o.rotation
      /\ o.mirror # "none" => \E t \in mirrors : t <= k - 1
  BY DEF SoFar
<1>2. /\ \A t \in turns, u \in turns : t = u
      /\ \A t \in mirrors, u \in mirrors : t = u
      /\ \A t \in turns, u \in mirrors : t < u => props[indices[t]].payload % 2 = 0
  BY DEF OrderIsKept
<1>3. /\ turns \subseteq DOMAIN indices /\ mirrors \subseteq DOMAIN indices
      /\ DOMAIN indices = 1 .. Len(indices) /\ Len(indices) \in Nat /\ DOMAIN indices \subseteq Nat
      /\ k \in Nat /\ k \in DOMAIN indices
  BY DEF Listed
<1>4. /\ Stored \in Pictured /\ pic \in Pictured
      /\ pic = Rotated(o.rotation, Mirrored(o.mirror, Stored))
      /\ o.rotation \in {0, 1, 2, 3} /\ o.mirror \in {"none", "horizontal", "vertical"}
  BY <1>1, ShownIs DEF Stored, Pictured, Orientations, Mirrors
<1>5. ASSUME Turned(props, i, o) = o, Seen(props, i, pic) = pic
      PROVE  SoFar(props, indices, k, Turned(props, i, o), Seen(props, i, pic))
  <2>1. o.rotation # 0 => \E t \in turns : t <= k /\ props[indices[t]].payload = o.rotation
    <3> HIDE DEF turns
    <3> QED BY <1>1, <1>3
  <2>2. o.mirror # "none" => \E t \in mirrors : t <= k
    <3> HIDE DEF mirrors
    <3> QED BY <1>1, <1>3
  <2> QED BY <1>1, <1>5, <2>1, <2>2 DEF SoFar
<1>6. CASE i \notin DOMAIN props
  BY <1>5, <1>6 DEF Turned, Seen
<1>7. CASE i \in DOMAIN props
  <2> DEFINE p == props[i]
  <2>1. p \in Property
    BY <1>7
  <2>2. Turned(props, i, o) = Applied(o, p) /\ Seen(props, i, pic) = Means(p, pic)
    BY <1>7 DEF Turned, Seen
  <2>3. CASE /\ ~Counts(p, "irot") /\ ~Counts(p, "imir")
             /\ \A v \in Orientations : Applied(v, p) = v
             /\ \A v \in Pictured : Means(p, v) = v
    <3> HIDE DEF p, i
    <3> QED BY <1>1, <1>4, <1>5, <2>2, <2>3
  <2>4. CASE /\ Counts(p, "irot") /\ p.payload \in {0, 1, 2, 3}
             /\ \A v \in Orientations : Applied(v, p) = [rotation |-> p.payload, mirror |-> v.mirror]
             /\ \A v \in Pictured : Means(p, v) = Rotated(p.payload, v)
    <3>1. k \in turns /\ props[indices[k]].payload = p.payload
      BY <1>3, <1>7, <2>4 DEF Listed
    <3>2. o.rotation = 0
      <4> HIDE DEF turns
      <4> QED BY <1>1, <1>2, <1>3, <3>1
    <3> DEFINE q == [rotation |-> p.payload, mirror |-> o.mirror]
    <3>3. q \in Orientations /\ q.rotation = p.payload /\ q.mirror = o.mirror
      BY <1>4, <2>4 DEF Orientations, Mirrors
    <3>4. Turned(props, i, o) = q
      BY <1>1, <2>2, <2>4
    <3>5. Seen(props, i, pic) = Shown(Filters(q), Stored)
      <4>1. pic = Mirrored(o.mirror, Stored)
        BY <1>4, <3>2 DEF Rotated
      <4>2. Seen(props, i, pic) = Rotated(p.payload, pic)
        BY <1>4, <2>2, <2>4
      <4> HIDE DEF p, q, i
      <4>3. Shown(Filters(q), Stored) = Rotated(q.rotation, Mirrored(q.mirror, Stored))
        BY <1>4, <3>3, ShownIs
      <4> QED BY <3>3, <4>1, <4>2, <4>3
    <3>6. q.mirror # "none" => \E t \in mirrors : t <= k
      <4> HIDE DEF mirrors
      <4> QED BY <1>1, <1>3, <3>3
    <3>7. \E t \in turns : t <= k /\ props[indices[t]].payload = q.rotation
      <4> HIDE DEF turns, q
      <4> QED BY <1>3, <3>1, <3>3
    <3> HIDE DEF q, p, i
    <3> QED BY <3>3, <3>4, <3>5, <3>6, <3>7 DEF SoFar
  <2>5. CASE /\ Counts(p, "imir")
             /\ \E m \in {"horizontal", "vertical"} :
                  /\ \A v \in Orientations : Applied(v, p) = [rotation |-> v.rotation, mirror |-> m]
                  /\ \A v \in Pictured : Means(p, v) = Mirrored(m, v)
    <3>1. PICK m \in {"horizontal", "vertical"} :
                  /\ \A v \in Orientations : Applied(v, p) = [rotation |-> v.rotation, mirror |-> m]
                  /\ \A v \in Pictured : Means(p, v) = Mirrored(m, v)
      BY <2>5
    <3>2. k \in mirrors
      BY <1>3, <1>7, <2>5 DEF Listed
    <3>3. o.mirror = "none"
      <4> HIDE DEF mirrors
      <4> QED BY <1>1, <1>2, <1>3, <3>2
    <3>4. o.rotation \in {0, 2}
      <4>1. CASE o.rotation = 0
        BY <4>1
      <4>2. CASE o.rotation # 0
        <5>1. PICK t \in turns : t <= k - 1 /\ props[indices[t]].payload = o.rotation
          <6> HIDE DEF turns
          <6> QED BY <1>1, <4>2
        <5>2. t \in Nat /\ t < k
          <6> HIDE DEF turns
          <6> QED BY <1>3, <5>1
        <5>3. o.rotation % 2 = 0
          <6> HIDE DEF turns, mirrors
          <6> QED BY <1>2, <3>2, <5>1, <5>2
        <5> QED BY <1>4, <5>3
      <4> QED BY <4>1, <4>2
    <3> DEFINE q == [rotation |-> o.rotation, mirror |-> m]
    <3>5. q \in Orientations /\ q.rotation = o.rotation /\ q.mirror = m
      BY <1>4 DEF Orientations, Mirrors
    <3>6. Turned(props, i, o) = q
      BY <1>1, <2>2, <3>1
    <3>7. Seen(props, i, pic) = Shown(Filters(q), Stored)
      <4>1. pic = Rotated(o.rotation, Stored)
        BY <1>4, <3>3 DEF Mirrored
      <4>2. Seen(props, i, pic) = Mirrored(m, pic)
        BY <1>4, <2>2, <3>1
      <4> HIDE DEF p, q, i
      <4>3. Shown(Filters(q), Stored) = Rotated(q.rotation, Mirrored(q.mirror, Stored))
        BY <1>4, <3>5, ShownIs
      <4>4. Rotated(o.rotation, Mirrored(m, Stored)) = Mirrored(m, Rotated(o.rotation, Stored))
        BY <3>4, MirrorsCommute
      <4> QED BY <3>5, <4>1, <4>2, <4>3, <4>4
    <3>8. q.rotation # 0 => \E t \in turns : t <= k /\ props[indices[t]].payload = q.rotation
      <4> HIDE DEF turns, q
      <4> QED BY <1>1, <1>3, <3>5
    <3>9. \E t \in mirrors : t <= k
      <4> HIDE DEF mirrors
      <4> QED BY <1>3, <3>2
    <3> HIDE DEF q, p, i
    <3> QED BY <3>5, <3>6, <3>7, <3>8, <3>9 DEF SoFar
  <2> HIDE DEF p, i
  <2> QED BY <2>1, <2>3, <2>4, <2>5, MeansIs
<1> QED BY <1>6, <1>7

\* A list of any length and any properties whose order the code can tell is shown
\* as it means: else there would be a shortest part of it that is not.
LEMMA HeicIsShown ==
  ASSUME NEW props \in Seq(Property), NEW indices \in Seq(Nat), OrderIsKept(props, indices)
  PROVE  Shown(Filters(HeicOrientation(props, indices)), Stored) = HeicMeaning(props, indices)
<1>1. PICK f : /\ f[{}] = Upright
               /\ \A k \in 1 .. Len(indices) :
                    f[1 .. k] = Turned(props, indices[k], f[1 .. (k - 1)])
               /\ HeicOrientation(props, indices) = f[1 .. Len(indices)]
  BY HeicSteps
<1>2. PICK g : /\ g[{}] = Stored
               /\ \A k \in 1 .. Len(indices) :
                    g[1 .. k] = Seen(props, indices[k], g[1 .. (k - 1)])
               /\ HeicMeaning(props, indices) = g[1 .. Len(indices)]
  BY MeaningSteps
<1> DEFINE n == Len(indices)
           Holds(k) == SoFar(props, indices, k, f[1 .. k], g[1 .. k])
           Bad == {k \in 0 .. n : ~Holds(k)}
<1>3. n \in Nat /\ 1 .. 0 = {}
  OBVIOUS
<1>4. Holds(0)
  <2>1. /\ Upright \in Orientations /\ Upright.rotation = 0 /\ Upright.mirror = "none"
        /\ Stored \in Pictured
    BY DEF Upright, Orientations, Mirrors, Stored, Pictured
  <2>2. Shown(Filters(Upright), Stored) = Stored
    BY <2>1, ShownIs DEF Rotated, Mirrored
  <2> QED BY <1>1, <1>2, <1>3, <2>1, <2>2 DEF SoFar
<1>5. ASSUME NEW k \in 1 .. n, Holds(k - 1) PROVE Holds(k)
  <2>1. SoFar(props, indices, k, Turned(props, indices[k], f[1 .. (k - 1)]),
              Seen(props, indices[k], g[1 .. (k - 1)]))
    BY <1>5, OneMoreProperty
  <2> QED BY <1>1, <1>2, <2>1
<1>6. Bad = {}
  <2>1. SUFFICES ASSUME Bad # {} PROVE FALSE
    OBVIOUS
  <2>2. PICK m \in Bad : \A k \in Bad : m <= k
    <3>1. Bad \subseteq Nat
      OBVIOUS
    <3> HIDE DEF Bad
    <3> QED BY <2>1, <3>1, LeastExists
  <2>3. m \in 0 .. n /\ ~Holds(m)
    OBVIOUS
  <2> HIDE DEF Holds
  <2>4. m \in 1 .. n /\ m - 1 \in 0 .. n /\ ~(m <= m - 1)
    BY <1>3, <1>4, <2>3
  <2>5. m - 1 \notin Bad
    <3> HIDE DEF Bad
    <3> QED BY <2>2, <2>4
  <2> QED BY <1>5, <2>3, <2>4, <2>5
<1>7. Holds(n)
  <2> HIDE DEF Holds
  <2> QED BY <1>3, <1>6
<1> QED BY <1>1, <1>2, <1>7 DEF SoFar

\* No photo has been read.
LEMMA OrientationInit == Init => ShownUpright
<1>1. /\ Upright \in Orientations /\ Upright.rotation = 0 /\ Upright.mirror = "none"
      /\ Stored \in Pictured
  BY DEF Upright, Orientations, Mirrors, Stored, Pictured
<1>2. Shown(Filters(Upright), Stored) = Stored
  BY <1>1, ShownIs DEF Rotated, Mirrored
<1> QED BY <1>1, <1>2 DEF Init, ShownUpright

\* An answer that shows what is meant.
LEMMA AnswerShows ==
  ASSUME NEW o \in Orientations, NEW m, m # None => Shown(Filters(o), Stored) = m, Answer(o, m)
  PROVE  ShownUpright'
<1>1. orientation' = o /\ meant' = m
  BY DEF Answer
<1>2. Shown(Filters(orientation'), Stored) = Shown(Filters(o), Stored)
  BY <1>1
<1> QED BY <1>1, <1>2 DEF ShownUpright

\* A head that says nothing of an orientation is shown as it is stored.
LEMMA NoAnswerShows == NoAnswer => ShownUpright'
<1>1. /\ Upright \in Orientations /\ Upright.rotation = 0 /\ Upright.mirror = "none"
      /\ Stored \in Pictured
  BY DEF Upright, Orientations, Mirrors, Stored, Pictured
<1>2. Shown(Filters(Upright), Stored) = Stored
  BY <1>1, ShownIs DEF Rotated, Mirrored
<1> QED BY <1>1, <1>2, AnswerShows DEF NoAnswer

\* Every answer of the reader shows what the head means.
LEMMA StepShows ==
  ASSUME ReaderInv, ShownUpright, Step
  PROVE  ShownUpright'
<1>3. ASSUME orientation' = orientation, meant' = meant PROVE ShownUpright'
  BY <1>3 DEF ShownUpright
<1>4. CASE \E kind \in Kinds \cup {"other"}, raw \in Raw : PassBox(kind, raw)
  BY <1>3, <1>4 DEF PassBox
<1>5. CASE \E kind \in {"irot", "imir", "other"}, raw \in Raw, p \in 0 .. 3 \cup {NoPayload} :
             ListBox(kind, raw, p)
  BY <1>3, <1>5 DEF ListBox
<1>6. CASE GiveUp \/ NoEntry \/ NoExif
  BY <1>6, NoAnswerShows DEF GiveUp, NoEntry, NoExif
<1>7. CASE EnterMeta \/ EnterIprp \/ EnterIpco
  BY <1>3, <1>7, NoAnswerShows DEF EnterMeta, EnterIprp, EnterIpco, WalkRange
<1>8. CASE ListEnds
  BY <1>3, <1>8, NoAnswerShows DEF ListEnds
<1>9. ASSUME NEW n \in 0 .. MaxEntry, ReadEntry(n) PROVE ShownUpright'
  <2>1. CASE pos + 1 + n > HeadSize
    BY <1>9, <2>1, NoAnswerShows DEF ReadEntry
  <2>2. ASSUME NEW indices \in [1 .. n -> 0 .. Len(properties) + 1],
               Answer(HeicOrientation(properties, indices),
                      IF OrderIsKept(properties, indices)
                      THEN HeicMeaning(properties, indices) ELSE None)
        PROVE  ShownUpright'
    <3>1. properties \in Seq(Property)
      BY DEF ReaderInv, WalkTypeOK
    <3>2. indices \in Seq(Nat)
      <4>1. indices \in [1 .. n -> Nat]
        BY <3>1
      <4>2. n \in Nat
        BY SizesAssumption
      <4> QED BY <4>1, <4>2, SeqDef
    <3>3. HeicOrientation(properties, indices) \in Orientations
      BY <3>1, <3>2, HeicIsOrientation
    <3>4. CASE OrderIsKept(properties, indices)
      <4>1. Shown(Filters(HeicOrientation(properties, indices)), Stored)
              = HeicMeaning(properties, indices)
        BY <3>1, <3>2, <3>4, HeicIsShown
      <4> QED BY <2>2, <3>3, <3>4, <4>1, AnswerShows
    <3>5. CASE ~OrderIsKept(properties, indices)
      BY <2>2, <3>3, <3>5, AnswerShows
    <3> QED BY <3>4, <3>5
  <2> QED BY <1>3, <1>9, <2>1, <2>2 DEF ReadEntry
<1>10. CASE \E n \in 1 .. HeadSize : PassSegment(n)
  BY <1>3, <1>10 DEF PassSegment
<1>11. ASSUME NEW code \in 0 .. 9, ReadExif(code) PROVE ShownUpright'
  <2>1. FromExif(code) \in Orientations
    BY ExifIsOrientation
  <2>2. CASE code \in SwappedCodes
    BY <1>11, <2>1, <2>2, AnswerShows DEF ReadExif
  <2>3. CASE code \notin SwappedCodes
    <3>1. Shown(Filters(FromExif(code)), Stored) = ExifMeaning(code)
      BY <2>3, ExifIsShown DEF ExifShown
    <3> QED BY <1>11, <2>1, <2>3, <3>1, AnswerShows DEF ReadExif
  <2> QED BY <2>2, <2>3
<1> QED BY <1>4, <1>5, <1>6, <1>7, <1>8, <1>9, <1>10, <1>11 DEF Step

\* Whatever walk over whatever head led to the answer, with a list of properties
\* of any length, the filters show the photo as the head asks, but for the codes
\* and the lists that ShownUpright leaves out (orientation.rs:12-14, 45-66,
\* 163-179, heif.rs:119-135).
THEOREM OrientationIsShown == RSpec => []ShownUpright
<1>1. RInit => ReaderInv /\ ShownUpright
  BY InitReader, OrientationInit DEF RInit
<1>2. ASSUME ReaderInv /\ ShownUpright, [RNext]_vars PROVE ReaderInv' /\ ShownUpright'
  <2>1. CASE Read
    BY <1>2, <2>1, StepSafe, StepShows DEF Read
  <2>2. CASE UNCHANGED reader
    BY <1>2, <2>2 DEF reader, walk, ReaderInv, WalkTypeOK, WalkInside, WalkProgresses,
                      ListIsComplete, ShownUpright
  <2> QED BY <1>2, <2>1, <2>2, RenderKeepsReader DEF vars
<1> QED BY <1>1, <1>2, PTL DEF RSpec
============================================================================
