--------------------------- MODULE MCStreamRelay ---------------------------
(* One stream, with every upstream within the bounds. *)
EXTENDS StreamRelay
=============================================================================
