------------------------------- MODULE MCGapSet -------------------------------
(***************************************************************************)
(* Every order of arrival for sizes 0 to MaxSize: with 8 numbers there are *)
(* up to four separate intervals, and merges on the left, the right, both  *)
(* sides and neither.                                                      *)
(***************************************************************************)
EXTENDS GapSet

CONSTANT MaxSize   \* bound on the size of a session

MCSizes == 0..MaxSize
==============================================================================
