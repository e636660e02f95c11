------------------------------ MODULE MCHitLog ------------------------------
(* Ids of 8 bits and numbers of 16: glued digits overflow both. The lines have *)
(* two to four characters, and a block ends before, in and behind them.        *)
EXTENDS HitLog

MCLogs == {<<>>, <<7>>, <<200, 56>>, <<7, 134, 12>>, <<134, 200, 56>>, <<56, 7>>}
=============================================================================
