---------------------------- MODULE MCSenderRing ----------------------------
(* SenderRing with four slots and six items: the window wraps around the    *)
(* array, with holes in every place.                                        *)
EXTENDS SenderRing
=============================================================================
