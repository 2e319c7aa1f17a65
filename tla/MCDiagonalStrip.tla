--------------------------- MODULE MCDiagonalStrip ---------------------------
(***************************************************************************)
(* A plane of six strips in each direction, with offsets that put the      *)
(* origin inside a strip, and a field that does not hold the outermost     *)
(* strips.                                                                 *)
(***************************************************************************)
EXTENDS DiagonalStrip

MCOffsetX == -5
MCStripMin == -1
=============================================================================
