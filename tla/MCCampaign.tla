----------------------------- MODULE MCCampaign -----------------------------
(* A small instance of Campaign for TLC: three mutants and up to two         *)
(* workers; the minimum scores are one that half the mutants reach and one   *)
(* that only a perfect score reaches.                                        *)
EXTENDS Campaign

MCMinScores == {50, 100}
=============================================================================
