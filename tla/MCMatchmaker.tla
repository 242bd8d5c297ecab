--------------------------- MODULE MCMatchmaker ---------------------------
(* Small instances of Matchmaker for TLC.                                  *)
EXTENDS Matchmaker

\* Positions on a line.
LineDist == [x \in Positions \X Positions |-> IF x[1] < x[2] THEN x[2] - x[1] ELSE x[1] - x[2]]
=============================================================================
