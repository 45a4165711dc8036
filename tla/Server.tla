------------------------------- MODULE Server -------------------------------
(***************************************************************************)
(* The server process from start to end, with its thumbnails and what it   *)
(* answers to requests for bytes.                                          *)
(***************************************************************************)
EXTENDS Thumbnails, ByteRange

\* Whatever else it is at, a serving process answers a request for a part of a
\* file with exactly that part, or a refusal (RangeExact).
RangesServed == phase = "serving" => RangeExact
=============================================================================
