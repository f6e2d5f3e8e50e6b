--------------------------- MODULE MCExactlyOnce ---------------------------
(* Three pieces: two lines, which one read may fetch together, and the     *)
(* start of a third, which only a flush timeout reads.                     *)
EXTENDS ExactlyOnce

MCLineEnds == {1, 2}
=============================================================================
