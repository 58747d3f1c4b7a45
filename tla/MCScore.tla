------------------------------ MODULE MCScore ------------------------------
(* Model for Score: the code's INFINITY, and scores chosen so that two     *)
(* large preferences saturate when added, a small one does not, and both   *)
(* sentinels occur.                                                        *)
EXTENDS Score

MCScores == {-INFINITY, -600000, -1, 0, 1, 600000, INFINITY}
=============================================================================
