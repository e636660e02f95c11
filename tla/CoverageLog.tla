---------------------------- MODULE CoverageLog ----------------------------
(***************************************************************************)
(* What a coverage run promises the campaign: a set of mutant sites that   *)
(* only grows while the program under test runs, and a log that, once the  *)
(* program has exited normally, holds at least every site recorded before  *)
(* the exit began and nothing that was never recorded.  How the set is     *)
(* stored and how the log is written is the business of Runtime.           *)
(***************************************************************************)
CONSTANT Ids

VARIABLES
  stage,    \* "collecting", "writing", "closed" or "cut"
  recorded, \* the sites recorded so far
  due,      \* the sites recorded when writing began
  log       \* the sites in the log

vars == <<stage, recorded, due, log>>

TypeOK ==
  /\ stage \in {"collecting", "writing", "closed", "cut"}
  /\ recorded \subseteq Ids
  /\ due \subseteq recorded
  /\ log \subseteq recorded

Init ==
  /\ stage = "collecting"
  /\ recorded = {} /\ due = {} /\ log = {}

Record(id) ==
  /\ stage # "cut"
  /\ recorded' = recorded \union {id}
  /\ UNCHANGED <<stage, due, log>>

StartWriting ==
  /\ stage = "collecting"
  /\ stage' = "writing"
  /\ due' = recorded
  /\ UNCHANGED <<recorded, log>>

\* Part of the log reaches the file, in any order.
Append ==
  /\ stage = "writing"
  /\ log' \in {L \in SUBSET recorded : log \subseteq L}
  /\ UNCHANGED <<stage, recorded, due>>

Close ==
  /\ stage = "writing"
  /\ stage' = "closed"
  /\ log' \in {L \in SUBSET recorded : log \union due \subseteq L}
  /\ UNCHANGED <<recorded, due>>

\* The process ends with the log unwritten, cut short, or complete.
End ==
  /\ stage' = "cut"
  /\ UNCHANGED <<recorded, due, log>>

Next ==
  \/ \E id \in Ids : Record(id)
  \/ StartWriting
  \/ Append
  \/ Close
  \/ End

Spec == Init /\ [][Next]_vars
=============================================================================
