----------------------------- MODULE MCLineScan -----------------------------
(* LineScan on every file of up to MaxPieces pieces.                       *)
EXTENDS LineScan

CONSTANTS god, says
=============================================================================
