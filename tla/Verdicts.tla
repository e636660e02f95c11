------------------------------ MODULE Verdicts ------------------------------
(***************************************************************************)
(* What a mutation campaign promises, with no mention of the order of the  *)
(* runs, of workers or of positions in a vector: each selected mutant gets *)
(* one verdict that never changes, the report counts the verdicts once all *)
(* are in, and the exit code follows from the report.                      *)
(***************************************************************************)
EXTENDS Integers, FiniteSets

CONSTANT Mutants  \* the catalogue

VARIABLES
  minimum,  \* the option --min-score: whether it is set, and its value
  selected, \* mutants of this campaign
  verdict,  \* "pending", "killed", "survived" or "timeout"
  report,   \* <<>> or the counts
  exit      \* the exit code, Running before

vars == <<minimum, selected, verdict, report, exit>>

Running == -1
Having(v) == {m \in selected : verdict[m] = v}

\* The score is 100 killed / (killed + survived), or 100 when that is 0 / 0.
Below(killed, survived, min) ==
  IF killed + survived = 0 THEN 100 < min
  ELSE 100 * killed < min * (killed + survived)

Init ==
  /\ minimum \in [set : BOOLEAN, value : Int]
  /\ selected = {}
  /\ verdict = [m \in Mutants |-> "pending"]
  /\ report = <<>>
  /\ exit = Running

Select(S) ==
  /\ selected = {}
  /\ selected' = S
  /\ UNCHANGED <<minimum, verdict, report, exit>>

\* One or more verdicts come in.
Decide ==
  /\ report = <<>> /\ exit = Running
  /\ verdict' \in [Mutants -> {"pending", "killed", "survived", "timeout"}]
  /\ \A m \in Mutants :
       verdict'[m] # verdict[m] => m \in selected /\ verdict[m] = "pending"
  /\ UNCHANGED <<minimum, selected, report, exit>>

Publish ==
  /\ report = <<>> /\ exit = Running
  /\ Having("pending") = {}
  /\ report' = [killed |-> Cardinality(Having("killed")),
                survived |-> Cardinality(Having("survived")),
                timeout |-> Cardinality(Having("timeout")),
                survivors |-> Having("survived")]
  /\ UNCHANGED <<minimum, selected, verdict, exit>>

Gate ==
  /\ report # <<>> /\ exit = Running
  /\ exit' = IF minimum.set /\ Below(report.killed, report.survived, minimum.value) THEN 1 ELSE 0
  /\ UNCHANGED <<minimum, selected, verdict, report>>

\* No mutant on the diff: success, with an empty report.
NothingToProve ==
  /\ selected = {} /\ exit = Running
  /\ exit' = 0
  /\ report' = [killed |-> 0, survived |-> 0, timeout |-> 0, survivors |-> {}]
  /\ UNCHANGED <<minimum, selected, verdict>>

\* The campaign gives up: no report is made.
Refuse ==
  /\ report = <<>> /\ exit = Running
  /\ exit' > 0
  /\ UNCHANGED <<minimum, selected, verdict, report>>

Next ==
  \/ \E S \in SUBSET Mutants : Select(S)
  \/ Decide \/ Publish \/ Gate \/ NothingToProve \/ Refuse

Spec == Init /\ [][Next]_vars
=============================================================================
