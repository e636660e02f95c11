---------------------------- MODULE MCRunCommand ----------------------------
(* Two interchangeable kids and a pipe smaller than the output.              *)
EXTENDS RunCommand

CONSTANTS k1, k2
=============================================================================
