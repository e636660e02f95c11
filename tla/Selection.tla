----------------------------- MODULE Selection ------------------------------
(***************************************************************************)
(* The loop that the program has in several places: go through a list and  *)
(* keep what belongs to a set, in the order of the list.                   *)
(***************************************************************************)
EXTENDS Integers, Sequences

Select(s, S) ==
  LET kept[n \in 0..Len(s)] ==
        IF n = 0 THEN <<>>
        ELSE IF s[n] \in S THEN Append(kept[n - 1], s[n]) ELSE kept[n - 1]
  IN  kept[Len(s)]

\* The places of a list that belong to a set, in their order.
Places(s, S) == Select([i \in DOMAIN s |-> i], S)
=============================================================================
