----------------------------- MODULE ByteRange -----------------------------
(***************************************************************************)
(* How the server answers a request for a file's bytes                     *)
(* (phone-sync-server/src/handlers.rs, serve_file_range and parse_range):  *)
(* originals, and the renditions of the media site.                        *)
(*                                                                         *)
(* A Range header is `bytes=first-last'; of the text only what the parser  *)
(* tells apart is kept: another form, and on each side of the dash a       *)
(* number, nothing, or something that is no number.                        *)
(*                                                                         *)
(* A definition named Mut... is no part of the model: it is the plausible  *)
(* bug that the mutation runs put in the place of the definition below it. *)
(***************************************************************************)
EXTENDS Integers

CONSTANTS
  Totals,   \* file sizes
  Numbers,  \* numbers a header may carry
  MaxU64,   \* the largest number that parses
  Blank,    \* nothing on that side of the dash
  Garbage,  \* no number
  NoHeader

ASSUME SizesAssumption == Totals \subseteq Nat /\ Numbers \subseteq Nat /\ MaxU64 \in Nat
ASSUME BlankAssumption ==
  Blank \notin Nat /\ Garbage \notin Nat /\ Blank # Garbage

Field == Numbers \cup {Blank, Garbage}
\* `single': the unit is bytes, there is a dash and no second range.
Header == [single : BOOLEAN, first : Field, last : Field]

\* `known': If-None-Match names this rendition's tag.
Get == [range : Header \cup {NoHeader}, known : BOOLEAN]

ASSUME NoHeaderAssumption == NoHeader \notin Header

IsU64(f) == f \in Nat /\ f <= MaxU64

\* RangeRequest.
Absent == [kind |-> "absent", start |-> 0, end |-> 0]
Unsatisfiable == [kind |-> "unsatisfiable", start |-> 0, end |-> 0]
Satisfiable(start, end) == [kind |-> "satisfiable", start |-> start, end |-> end]

MutSuffixWraps(n, size) ==
  IF ~IsU64(n) THEN Absent
  ELSE IF n = 0 THEN Unsatisfiable
  ELSE Satisfiable(IF n < size THEN size - n ELSE n - size, size - 1)

\* `bytes=-N': the last N bytes, saturating at the start of the file.
Suffix(n, size) ==
  IF ~IsU64(n) THEN Absent
  ELSE IF n = 0 THEN Unsatisfiable
  ELSE Satisfiable(IF n < size THEN size - n ELSE 0, size - 1)

\* `bytes=A-' and `bytes=A-B': an end past the file is clamped.
Span(first, last, size) ==
  IF ~IsU64(first) \/ ~(last = Blank \/ IsU64(last)) THEN Absent
  ELSE LET end == IF last = Blank THEN size - 1
                  ELSE IF last < size THEN last ELSE size - 1
       IN IF first > end \/ first >= size THEN Unsatisfiable ELSE Satisfiable(first, end)

ParseRange(h, size) ==
  IF ~h.single THEN Absent
  ELSE IF size = 0 THEN Unsatisfiable
  ELSE IF h.first = Blank THEN Suffix(h.last, size)
  ELSE Span(h.first, h.last, size)

Answer(status, start, length) == [status |-> status, start |-> start, length |-> length]

\* A conditional request is answered 304 only without a Range header; the file
\* is read from `start' and `length' bytes of it are streamed.
Respond(get, size) ==
  LET r == IF get.range = NoHeader THEN Absent ELSE ParseRange(get.range, size)
  IN IF get.range = NoHeader /\ get.known THEN Answer(304, 0, 0)
     ELSE IF r.kind = "unsatisfiable" THEN Answer(416, 0, 0)
     ELSE IF r.kind = "satisfiable" THEN Answer(206, r.start, r.end - r.start + 1)
     ELSE Answer(200, 0, size)

\* The file cannot be opened or measured, which a 304 does not need, or the seek
\* to a part that is not at its start fails.
Troubles == {"none", "file", "seek"}

ServeFileRange(get, size, trouble) ==
  LET a == Respond(get, size)
  IN IF (trouble = "file" /\ a.status # 304) \/ (trouble = "seek" /\ a.start > 0)
     THEN Answer(500, 0, 0) ELSE a

----------------------------------------------------------------------------
\* What such a header asks for (RFC 9110, 14.1.2), for reference.
WellFormed(h) ==
  /\ h.single
  /\ IF h.first = Blank THEN IsU64(h.last) ELSE IsU64(h.first) /\ (h.last = Blank \/ IsU64(h.last))

Wanted(h, size) ==
  {b \in 0 .. size - 1 :
     IF h.first = Blank THEN b + h.last >= size
     ELSE h.first <= b /\ (h.last = Blank \/ b <= h.last)}

Exact(a, get, size, trouble) ==
  LET h == get.range
      asks == h # NoHeader /\ WellFormed(h)
      sent == {b \in 0 .. size - 1 : a.start <= b /\ b < a.start + a.length}
  IN /\ a.start + a.length <= size
     /\ a.status = 206 => asks /\ a.length > 0 /\ sent = Wanted(h, size)
     /\ asks /\ Wanted(h, size) # {} /\ trouble = "none" => a.status = 206
     /\ a.status = 416 => h # NoHeader /\ (size = 0 \/ Wanted(h, size) = {})
     /\ a.status = 200 => sent = 0 .. size - 1 /\ ~asks
     /\ a.status = 304 => h = NoHeader
     /\ a.status = 500 => trouble # "none"

\* A partial answer carries exactly the bytes the header asks for, a refusal is
\* for a header that asks for none, and what cannot be understood is answered
\* with the whole file, unless the file itself fails ("a range past the end is
\* refused, not silently answered with everything",
\* phone-sync-server/tests/integration.rs:330).
RangeExact ==
  \A get \in Get, size \in Totals, trouble \in Troubles :
     Exact(ServeFileRange(get, size, trouble), get, size, trouble)
============================================================================
