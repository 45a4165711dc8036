---------------------------- MODULE Orientation ----------------------------
(***************************************************************************)
(* Which way up a photo is shown: the rotation and mirror the server reads *)
(* from a file (phone-sync-server/src/orientation.rs, heif.rs) and the     *)
(* chain of ffmpeg filters it turns them into.                             *)
(*                                                                         *)
(* A picture is its four corners: which corner of the stored pixels is     *)
(* shown where.  That tells all eight ways of showing it apart.            *)
(***************************************************************************)
EXTENDS Naturals, Sequences, SequencesExt

Corners == {"topLeft", "topRight", "bottomRight", "bottomLeft"}
Stored == [c \in Corners |-> c]

\* What a filter shows at each corner, in the corners of its input; ffmpeg's
\* transpose=1 turns clockwise, transpose=2 anti-clockwise.
Turn(tl, tr, br, bl) ==
  [c \in Corners |-> CASE c = "topLeft" -> tl [] c = "topRight" -> tr
                       [] c = "bottomRight" -> br [] c = "bottomLeft" -> bl]
Effect ==
  [hflip |-> Turn("topRight", "topLeft", "bottomLeft", "bottomRight"),
   vflip |-> Turn("bottomLeft", "bottomRight", "topRight", "topLeft"),
   clock |-> Turn("bottomLeft", "topLeft", "topRight", "bottomRight"),
   cclock |-> Turn("topRight", "bottomRight", "bottomLeft", "topLeft")]

Shown(filters, picture) ==
  FoldLeft(LAMBDA pic, f : [c \in Corners |-> pic[Effect[f][c]]], picture, filters)

\* struct Orientation: anti-clockwise quarter turns, and a mirror.
Mirrors == {"none", "vertical", "horizontal"}
Orientations == [rotation : 0 .. 3, mirror : Mirrors]
Upright == [rotation |-> 0, mirror |-> "none"]

MirrorFilters == [none |-> <<>>, horizontal |-> <<"hflip">>, vertical |-> <<"vflip">>]
RotationFilters == <<<<>>, <<"cclock">>, <<"hflip", "vflip">>, <<"clock">>>>

\* ffmpeg_filters: the mirror comes first.
Filters(o) == MirrorFilters[o.mirror] \o RotationFilters[o.rotation + 1]

\* from_exif_value; any other value is taken as upright.
FromExif(code) ==
  LET o(r, m) == [rotation |-> r, mirror |-> m]
  IN CASE code = 2 -> o(0, "horizontal") [] code = 3 -> o(2, "none")
       [] code = 4 -> o(0, "vertical") [] code = 5 -> o(3, "horizontal")
       [] code = 6 -> o(3, "none") [] code = 7 -> o(1, "horizontal")
       [] code = 8 -> o(1, "none") [] OTHER -> Upright

\* One property of the primary item: an irot turns, an imir mirrors about the
\* axis its low bit names, a property with no payload in the head is skipped.
\* Of two of a kind the later one counts.
NoPayload == 256
Applied(o, p) ==
  IF p.payload = NoPayload THEN o
  ELSE IF p.kind = "irot" THEN [o EXCEPT !.rotation = p.payload % 4]
  ELSE IF p.kind = "imir"
       THEN [o EXCEPT !.mirror = IF p.payload % 2 = 1 THEN "vertical" ELSE "horizontal"]
  ELSE o

MutFromZero(props, indices) ==
  FoldLeft(LAMBDA o, i : IF i + 1 \in DOMAIN props THEN Applied(o, props[i + 1]) ELSE o,
           Upright, indices)

\* The loop at the end of parse_orientation: indices count from 1, and one that
\* names no property is skipped.
HeicOrientation(props, indices) ==
  FoldLeft(LAMBDA o, i : IF i \in DOMAIN props THEN Applied(o, props[i]) ELSE o,
           Upright, indices)

----------------------------------------------------------------------------
\* What the codes mean (EXIF 2.3, tag 0x0112): the side of the shown picture
\* that the stored row 0 is on, and the side that column 0 is on.
RowSide == <<"top", "top", "bottom", "bottom", "left", "right", "right", "left">>
ColSide == <<"left", "right", "right", "left", "top", "top", "bottom", "bottom">>

Sides(c) == CASE c = "topLeft" -> {"top", "left"} [] c = "topRight" -> {"top", "right"}
              [] c = "bottomRight" -> {"bottom", "right"} [] c = "bottomLeft" -> {"bottom", "left"}

StoredAt(row0, col0) ==
  CASE row0 /\ col0 -> "topLeft" [] row0 /\ ~col0 -> "topRight"
    [] ~row0 /\ ~col0 -> "bottomRight" [] ~row0 /\ col0 -> "bottomLeft"

ExifMeaning(code) ==
  [c \in Corners |-> IF code \in 1 .. 8
                     THEN StoredAt(RowSide[code] \in Sides(c), ColSide[code] \in Sides(c)) ELSE c]

ExifShown(code) == Shown(Filters(FromExif(code)), Stored)

\* A JPEG with an EXIF orientation is shown the right way up: "this converts to
\* the anti-clockwise convention used throughout" (orientation.rs:160-164).
\* REFUTED by codes 5 and 7, which the table swaps; no run checks it.
ExifUpright == \A code \in 0 .. 9 : ExifShown(code) = ExifMeaning(code)

\* The codes the table takes for each other, against "the anti-clockwise
\* convention used throughout" (orientation.rs:160-164).
SwappedCodes == {5, 7}

\* What a property of a HEIC means (ISO/IEC 23008-12, irot and imir), told of a
\* picture's corners and not with the code's operators: after n anti-clockwise
\* quarter turns each corner shows what was n corners on, clockwise; a mirror
\* about a vertical axis (0) exchanges left and right, about a horizontal one (1)
\* top and bottom.
Ring == <<"topLeft", "topRight", "bottomRight", "bottomLeft">>

QuarterTurns(n, pic) ==
  LET at(k) == pic[Ring[((k + n) % 4) + 1]] IN Turn(at(0), at(1), at(2), at(3))

Exchanged(axis, pic) ==
  IF axis = 0 THEN Turn(pic["topRight"], pic["topLeft"], pic["bottomLeft"], pic["bottomRight"])
  ELSE Turn(pic["bottomLeft"], pic["bottomRight"], pic["topRight"], pic["topLeft"])

Counts(p, kind) == p.kind = kind /\ p.payload # NoPayload

Means(p, pic) ==
  IF Counts(p, "irot") THEN QuarterTurns(p.payload % 4, pic)
  ELSE IF Counts(p, "imir") THEN Exchanged(p.payload % 2, pic)
  ELSE pic

\* What a list of properties means: each is applied to what those before it left.
HeicMeaning(props, indices) ==
  FoldLeft(LAMBDA pic, i : IF i \in DOMAIN props THEN Means(props[i], pic) ELSE pic,
           Stored, indices)

Listed(props, indices, kind) ==
  {k \in DOMAIN indices : indices[k] \in DOMAIN props /\ Counts(props[indices[k]], kind)}

\* The lists whose order the code can tell: it keeps one turn and one mirror, of
\* which the standard allows no more, and mirrors first, so that of the lists the
\* standard allows those with a quarter turn ahead of a mirror are left out.
OrderIsKept(props, indices) ==
  LET turns == Listed(props, indices, "irot") mirrors == Listed(props, indices, "imir")
  IN /\ \A i \in turns, j \in turns : i = j
     /\ \A i \in mirrors, j \in mirrors : i = j
     /\ \A i \in turns, j \in mirrors : i < j => props[indices[i]].payload % 2 = 0
============================================================================
