------------------------------ MODULE BoxWalk ------------------------------
(***************************************************************************)
(* How the server finds a photo's orientation in the head of its file      *)
(* (phone-sync-server/src/orientation.rs, read; heif.rs,                   *)
(* parse_orientation): the boxes of a HEIC, the segments of a JPEG.        *)
(*                                                                         *)
(* A file may hold anything: what a header says is chosen when it is read. *)
(* Offsets are in units of four bytes.  Two find_box calls over one range  *)
(* read the same headers, and are one walk here that keeps the first box   *)
(* of each kind it looks for; what is no longer looked at is forgotten.    *)
(*                                                                         *)
(* A definition named Mut... is no part of the model: it is the plausible  *)
(* bug that the mutation runs put in the place of the definition below it. *)
(***************************************************************************)
EXTENDS Orientation

CONSTANTS
  HeadSize,     \* the units of the file that are read
  Header,       \* a box header, and one with a 64-bit size
  LargeHeader,
  Skip,         \* the version and flags of a FullBox
  MaxEntry,     \* properties an ipma entry lists
  None

ASSUME SizesAssumption ==
  /\ HeadSize \in Nat /\ Header \in Nat \ {0} /\ LargeHeader \in Nat
  /\ LargeHeader >= Header /\ Skip \in Nat /\ MaxEntry \in Nat

VARIABLES
  level,        \* which boxes are walked, or what is read
  pos, end,     \* the walk's `pos', and the end of the range
  found,        \* the boxes found so far, by kind
  properties,   \* the children of ipco
  reads,        \* history: boxes read in this range
  orientation,  \* what read answers
  meant         \* history: the picture the head's own words ask for, or None

walk == <<pos, end, found, properties, reads>>
reader == <<level, walk, orientation, meant>>

Wanted == [top |-> {"meta"}, meta |-> {"pitm", "iprp"}, iprp |-> {"ipco", "ipma"},
           ipco |-> {"irot", "imir"}]
Kinds == {"meta", "pitm", "iprp", "ipco", "ipma"}
NoBox == [k \in Kinds |-> None]

WalkRange(l, from, to, kept) ==
  /\ level' = l /\ pos' = from /\ end' = to /\ found' = kept
  /\ properties' = <<>> /\ reads' = 0
  /\ UNCHANGED <<orientation, meant>>

\* read has its answer.
Answer(o, picture) ==
  /\ level' = "done" /\ orientation' = o /\ meant' = picture
  /\ pos' = 0 /\ end' = 0 /\ found' = NoBox /\ properties' = <<>> /\ reads' = 0

\* The head says nothing of an orientation, or not where it can be read.
NoAnswer == Answer(Upright, Stored)

\* read goes by what the head starts with; a file that cannot be opened or is
\* neither a JPEG nor an ISO base media file is taken as upright.
Init ==
  /\ level \in {"top", "jpeg", "done"}
  /\ pos = 0 /\ end = IF level = "done" THEN 0 ELSE HeadSize
  /\ found = NoBox /\ properties = <<>> /\ reads = 0
  /\ orientation = Upright /\ meant = Stored

\* The header at `pos': a 32-bit size, the escape to a 64-bit one, or the rest
\* of the range.
Raw == [form : {"plain", "large", "rest"}, size : 0 .. HeadSize + 1]
HeaderOf(raw) == IF raw.form = "large" THEN LargeHeader ELSE Header
SizeOf(raw) == IF raw.form = "rest" THEN end - pos ELSE raw.size

MutNoFloor(raw) == pos + HeaderOf(raw) <= end /\ pos + SizeOf(raw) <= end

\* read_box: the header and the payload are inside the range.
WellFormed(raw) ==
  /\ pos + HeaderOf(raw) <= end
  /\ SizeOf(raw) >= HeaderOf(raw)
  /\ pos + SizeOf(raw) <= end

BoxRef(raw) == [start |-> pos + HeaderOf(raw), end |-> pos + SizeOf(raw)]

Looking == level \in DOMAIN Wanted /\ pos < end
Missing == level \in DOMAIN Wanted \ {"ipco"} /\ \E k \in Wanted[level] : found[k] = None

\* find_box passes a box, and keeps the first of a kind it looks for.
PassBox(kind, raw) ==
  /\ Looking /\ Missing /\ WellFormed(raw)
  /\ kind \in Wanted[level] \cup {"other"}
  /\ pos' = pos + SizeOf(raw) /\ reads' = reads + 1
  /\ found' = [k \in Kinds |-> IF k = kind /\ found[k] = None THEN BoxRef(raw) ELSE found[k]]
  /\ UNCHANGED <<level, end, properties, orientation, meant>>

\* list_boxes takes every box; the payload byte is read later, from wherever in
\* the head the payload begins.
ListBox(kind, raw, payload) ==
  /\ level = "ipco" /\ Looking /\ WellFormed(raw)
  /\ kind \in Wanted[level] \cup {"other"}
  /\ payload \in IF pos + HeaderOf(raw) < HeadSize THEN 0 .. 3 ELSE {NoPayload}
  /\ properties' = Append(properties, [kind |-> kind, payload |-> payload])
  /\ pos' = pos + SizeOf(raw) /\ reads' = reads + 1
  /\ UNCHANGED <<level, end, found, orientation, meant>>

\* A header that is cut off or makes no sense, or the end of the range, with a
\* box still to be found: there is no orientation to be had.
GiveUp ==
  /\ Missing
  /\ pos < end => \E raw \in Raw : ~WellFormed(raw)
  /\ NoAnswer

\* What was looked for has been found.
EnterMeta ==
  /\ level = "top" /\ ~Missing
  /\ IF found["meta"].start + Skip > found["meta"].end THEN NoAnswer
     ELSE WalkRange("meta", found["meta"].start + Skip, found["meta"].end, NoBox)

\* read_primary_item_id, bounded by the head alone.
EnterIprp ==
  /\ level = "meta" /\ ~Missing
  /\ IF found["pitm"].start + Skip + 1 > HeadSize THEN NoAnswer
     ELSE WalkRange("iprp", found["iprp"].start, found["iprp"].end, NoBox)

EnterIpco ==
  /\ level = "iprp" /\ ~Missing
  /\ WalkRange("ipco", found["ipco"].start, found["ipco"].end,
           [NoBox EXCEPT !["ipma"] = found["ipma"]])

\* list_boxes stops at the first header it cannot take; property_indices_for
\* begins, again bounded by the head alone.
ListEnds ==
  /\ level = "ipco"
  /\ pos < end => \E raw \in Raw : ~WellFormed(raw)
  /\ LET first == found["ipma"].start + 2 * Skip
     IN IF first > HeadSize THEN NoAnswer
        ELSE /\ level' = "ipma" /\ pos' = first /\ end' = HeadSize /\ reads' = 0
             /\ UNCHANGED <<found, properties, orientation, meant>>

\* An entry: an item's id, a count, and its indices, in at least a unit.
ReadEntry(n) ==
  /\ level = "ipma"
  /\ IF pos + 1 + n > HeadSize THEN NoAnswer
     ELSE \/ /\ pos' = pos + 1 + n /\ reads' = reads + 1
             /\ UNCHANGED <<level, end, found, properties, orientation, meant>>
          \/ \E indices \in [1 .. n -> 0 .. Len(properties) + 1] :
               Answer(HeicOrientation(properties, indices),
                      IF OrderIsKept(properties, indices)
                      THEN HeicMeaning(properties, indices) ELSE None)

\* No entry is left: no property is associated with the primary item.
NoEntry == level = "ipma" /\ NoAnswer

\* find_exif_tiff_header passes a segment of at least a unit; the sum may lead
\* past the head, where the next read fails.
PassSegment(n) ==
  /\ level = "jpeg" /\ pos < HeadSize
  /\ pos' = pos + n /\ reads' = reads + 1
  /\ UNCHANGED <<level, end, found, properties, orientation, meant>>

\* The APP1 segment with an EXIF block, and the tag in its first directory.
ReadExif(code) ==
  /\ level = "jpeg" /\ pos < HeadSize
  /\ Answer(FromExif(code), IF code \in SwappedCodes THEN None ELSE ExifMeaning(code))

\* Image data, something that is no segment, the end of the head, or an EXIF
\* block without the tag.
NoExif == level = "jpeg" /\ NoAnswer

Step ==
  \/ \E kind \in Kinds \cup {"other"}, raw \in Raw : PassBox(kind, raw)
  \/ \E kind \in {"irot", "imir", "other"}, raw \in Raw, p \in 0 .. 3 \cup {NoPayload} :
       ListBox(kind, raw, p)
  \/ GiveUp \/ EnterMeta \/ EnterIprp \/ EnterIpco \/ ListEnds
  \/ \E n \in 0 .. MaxEntry : ReadEntry(n)
  \/ NoEntry
  \/ \E n \in 1 .. HeadSize : PassSegment(n)
  \/ \E code \in 0 .. 9 : ReadExif(code)
  \/ NoExif

----------------------------------------------------------------------------
Levels == {"top", "meta", "iprp", "ipco", "ipma", "jpeg", "done"}
BoxRefs == [start : Nat, end : Nat]
Property == [kind : {"irot", "imir", "other"}, payload : 0 .. 3 \cup {NoPayload}]

WalkTypeOK ==
  /\ level \in Levels
  /\ pos \in Nat /\ end \in Nat /\ reads \in Nat
  /\ found \in [Kinds -> BoxRefs \cup {None}]
  /\ properties \in Seq(Property)

\* A walk, and every box it has found, stays inside the range it was given, and
\* the range inside the head, whatever the headers of the file say: "Everything
\* is bounds-checked" (heif.rs:13-14).
WalkInside ==
  /\ end <= HeadSize
  /\ level \in DOMAIN Wanted => pos <= end
  /\ \A k \in Kinds : found[k] # None =>
        /\ found[k].start <= found[k].end /\ found[k].end <= HeadSize
        /\ level \in DOMAIN Wanted /\ k \in Wanted[level] => found[k].end <= pos

\* Every box read moves the walk on by at least a header, and every entry and
\* segment by at least a unit, so no file can hold the reader for longer than
\* its head: boxes of size zero, a 64-bit size, a count of 2^32 entries.
WalkProgresses ==
  reads * (IF level \in DOMAIN Wanted THEN Header ELSE 1) <= pos

\* ipma, which has been found by then, counts the children of ipco whatever
\* their kind.
ListIsComplete == level = "ipco" => Len(properties) = reads /\ found["ipma"] # None

\* The reader's answer leads to filters that show the photo as the head itself
\* asks, whatever walk led to it: "puts the picture right way up", "so both
\* formats produce the same filter chain" (orientation.rs:12-14, 163-164).  Not
\* claimed of EXIF codes 5 and 7, and of a HEIC that lists a quarter turn ahead
\* of a mirror, where the code does not do it.
ShownUpright ==
  /\ orientation \in Orientations
  /\ meant # None => Shown(Filters(orientation), Stored) = meant

\* The reader's inductive invariant.
ReaderInv == WalkTypeOK /\ WalkInside /\ WalkProgresses /\ ListIsComplete
============================================================================
