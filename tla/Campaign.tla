------------------------------ MODULE Campaign ------------------------------
(***************************************************************************)
(* The mutation campaign of mulation-run (runner/main.cpp): selection,     *)
(* baseline, coverage run, the pool of workers that runs the suite once    *)
(* per mutant, the tally, the report and the gate.                         *)
(*                                                                         *)
(* A mutant is its place in the merged catalogue.  A run of the suite is   *)
(* one step here (RunCommand has the steps of run_command); how it ends is *)
(* a free choice, remembered in `ran' with its cause, so that verdicts can *)
(* be compared with what really happened.                                  *)
(***************************************************************************)
EXTENDS Integers, FiniteSets

CONSTANTS
  N,         \* mutants in the merged catalogue
  MaxJobs,   \* bound on --jobs
  MinScores  \* values of --min-score

ASSUME NIsNat == N \in Nat
ASSUME MaxJobsPositive == MaxJobs \in Nat \ {0}
ASSUME MinScoresAreInts == MinScores \subseteq Int

Mutants == 1..N
Workers == 1..MaxJobs
Unlisted == 0  \* stands for all ids that are not in the catalogue
Running == -1
Aborted == 134  \* std::terminate
NoReport == <<>>

VARIABLES
  opt,      \* options: minSet, min, noCoverage, jobs, gitDiff
  phase,    \* where main is
  selected, \* mutants, after the diff filter
  covered,  \* covered: ids of the hit log
  tmp,      \* the temporary hit log exists
  uncovered, \* uncovered: selected mutants outside the hit log
  todo,     \* todo: the mutants to run, by position
  next,     \* next: the first position not handed out
  outcomes, \* outcomes: the class of each position, "none" before
  started,  \* workers started
  wpc,      \* where each worker is
  wi,       \* i: the position it works on
  wr,       \* rr.status: how its run ended
  report,   \* what is printed and written as JSON
  exit,     \* exit code, or Running
  green,    \* history: the baseline, and the coverage run if made, passed
  ran,      \* history: how the suite ended under each mutant
  runs      \* history: number of runs under each mutant

plan == <<opt, selected, covered, tmp, uncovered, todo, green>>
pool == <<next, outcomes, started, wpc, wi, wr, ran, runs>>
vars == <<phase, plan, pool, report, exit>>

Size == Cardinality(DOMAIN todo)
Used == IF opt.jobs = 1 \/ Size <= 1 THEN 1
        ELSE IF opt.jobs < Size THEN opt.jobs ELSE Size

Phases == {"select", "baseline", "mkstemp", "coverage", "load", "partition",
           "pool", "tally", "gate", "end"}
Statuses == {"none", "Pass", "Fail", "Timeout"}
Classes == {"none", "killed", "survived", "timeout"}
Ends == {"not_run", "failed", "green", "deadline", "unspawned"}

ListsOK == \E k \in 0..N : todo \in [1..k -> Mutants] /\ outcomes \in [1..k -> Classes]

TypeOK ==
  /\ opt \in [minSet : BOOLEAN, min : MinScores, noCoverage : BOOLEAN,
              jobs : Workers, gitDiff : BOOLEAN]
  /\ phase \in Phases
  /\ selected \subseteq Mutants /\ uncovered \subseteq Mutants
  /\ covered \subseteq Mutants \union {Unlisted}
  /\ tmp \in BOOLEAN /\ green \in BOOLEAN
  /\ ListsOK
  /\ next \in Nat \ {0}
  /\ started \in 0..MaxJobs
  /\ wpc \in [Workers -> {"off", "fetch", "run", "store", "done"}]
  /\ wi \in [Workers -> Nat] /\ wr \in [Workers -> Statuses]
  /\ report = NoReport \/ report \in [killed : Int, survived : Nat, timeout : Nat,
                                      survivors : SUBSET Mutants]
  /\ exit \in {Running, 0, 1, 2, Aborted}
  /\ ran \in [Mutants -> Ends] /\ runs \in [Mutants -> Nat]

Init ==
  /\ opt \in [minSet : BOOLEAN, min : MinScores, noCoverage : BOOLEAN,
              jobs : Workers, gitDiff : BOOLEAN]
  /\ phase = "select"
  /\ selected = {} /\ covered = {} /\ uncovered = {} /\ tmp = FALSE /\ green = FALSE
  /\ todo = <<>> /\ outcomes = <<>>
  /\ next = 1 /\ started = 0
  /\ wpc = [w \in Workers |-> "off"]
  /\ wi = [w \in Workers |-> 0] /\ wr = [w \in Workers |-> "none"]
  /\ report = NoReport /\ exit = Running
  /\ ran = [m \in Mutants |-> "not_run"] /\ runs = [m \in Mutants |-> 0]

Exit(code) == phase' = "end" /\ exit' = code
-----------------------------------------------------------------------------
(* Before the pool *)

\* No mutant in the binaries, or git diff fails: the campaign refuses.
NothingFound ==
  /\ phase = "select"
  /\ N = 0 \/ opt.gitDiff
  /\ Exit(2)
  /\ UNCHANGED <<plan, pool, report>>

SelectMutants ==
  /\ phase = "select"
  /\ selected' \in IF opt.gitDiff THEN SUBSET Mutants \ {{}} ELSE {Mutants} \ {{}}
  /\ phase' = "baseline"
  /\ UNCHANGED <<opt, covered, tmp, uncovered, todo, green, pool, report, exit>>

EmptyDiff ==
  /\ phase = "select" /\ opt.gitDiff /\ N > 0
  /\ report' = [killed |-> 0, survived |-> 0, timeout |-> 0, survivors |-> {}]
  /\ Exit(0)
  /\ UNCHANGED <<plan, pool>>

RedBaseline ==
  /\ phase = "baseline"
  /\ Exit(1)
  /\ UNCHANGED <<plan, pool, report>>

GreenBaseline ==
  /\ phase = "baseline"
  /\ green' = TRUE
  /\ phase' = IF opt.noCoverage THEN "partition" ELSE "mkstemp"
  /\ UNCHANGED <<opt, selected, covered, tmp, uncovered, todo, pool, report, exit>>

\* mkstemp may fail: the campaign then runs every mutant.
MkTemp ==
  /\ phase = "mkstemp"
  /\ \/ phase' = "coverage" /\ tmp' = TRUE
     \/ phase' = "partition" /\ UNCHANGED tmp
  /\ UNCHANGED <<opt, selected, covered, uncovered, todo, green, pool, report, exit>>

GreenCoverage ==
  /\ phase = "coverage"
  /\ phase' = "load"
  /\ UNCHANGED <<plan, pool, report, exit>>

\* Mutant: the file is left behind.
RedCoverage_LeavesFile ==
  /\ phase = "coverage"
  /\ green' = FALSE
  /\ Exit(1)
  /\ UNCHANGED <<opt, selected, covered, tmp, uncovered, todo, pool, report>>

RedCoverage ==
  /\ phase = "coverage"
  /\ green' = FALSE
  /\ tmp' = FALSE
  /\ Exit(1)
  /\ UNCHANGED <<opt, selected, covered, uncovered, todo, pool, report>>

\* The log has any ids: those a diff left out among them, and those of mutants
\* that the catalogue does not list.
LoadHitlog ==
  /\ phase = "load"
  /\ covered' \in SUBSET (Mutants \union {Unlisted})
  /\ tmp' = FALSE
  /\ phase' = "partition"
  /\ UNCHANGED <<opt, selected, uncovered, todo, green, pool, report, exit>>

\* The mutants to run: with an empty hit log, all of them.
ToRun ==
  IF opt.noCoverage \/ covered = {} THEN selected ELSE selected \intersect covered

\* Mutant: the vector of outcomes is sized before the uncovered leave.
Partition_SizedEarly ==
  /\ phase = "partition"
  /\ \E order \in [1..Cardinality(ToRun) -> ToRun] :
       /\ \A i, j \in DOMAIN order : i < j => order[i] < order[j]
       /\ todo' = order
  /\ outcomes' = [i \in 1..Cardinality(selected) |-> "none"]
  /\ uncovered' = selected \ ToRun
  /\ phase' = "pool"
  /\ UNCHANGED <<opt, selected, covered, tmp, green, next, started, wpc, wi, wr,
                 ran, runs, report, exit>>

\* The catalogue order is kept.
Partition ==
  /\ phase = "partition"
  /\ \E order \in [1..Cardinality(ToRun) -> ToRun] :
       /\ \A i, j \in DOMAIN order : i < j => order[i] < order[j]
       /\ \A m \in ToRun : \E i \in DOMAIN order : order[i] = m
       /\ todo' = order
       /\ outcomes' = [i \in DOMAIN order |-> "none"]
  /\ uncovered' = selected \ ToRun
  /\ phase' = "pool"
  /\ UNCHANGED <<opt, selected, covered, tmp, green, next, started, wpc, wi, wr,
                 ran, runs, report, exit>>
-----------------------------------------------------------------------------
(* The pool *)

\* main starts the workers, or is the only one itself.
StartWorker ==
  /\ phase = "pool" /\ started < Used
  /\ started' = started + 1
  /\ wpc' = [wpc EXCEPT ![started + 1] = "fetch"]
  /\ UNCHANGED <<phase, plan, next, outcomes, wi, wr, ran, runs, report, exit>>

\* std::thread cannot be made while others are joinable: std::terminate.
ThreadFails ==
  /\ phase = "pool" /\ started < Used
  /\ ~(opt.jobs = 1 \/ Size <= 1)
  /\ Exit(Aborted)
  /\ UNCHANGED <<plan, pool, report>>

\* Mutant: the counter is read, but not moved on in the same step.
Fetch_NotAtomic(w) ==
  /\ wpc[w] = "fetch"
  /\ wi' = [wi EXCEPT ![w] = next]
  /\ wpc' = [wpc EXCEPT ![w] = IF next > Size THEN "done" ELSE "run"]
  /\ UNCHANGED <<next, outcomes, started, wr, ran, runs>>

\* next.fetch_add(1), and the worker's end when all positions are handed out.
Fetch(w) ==
  /\ wpc[w] = "fetch"
  /\ wi' = [wi EXCEPT ![w] = next]
  /\ next' = next + 1
  /\ wpc' = [wpc EXCEPT ![w] = IF next > Size THEN "done" ELSE "run"]
  /\ UNCHANGED <<outcomes, started, wr, ran, runs>>

\* What run_command returns: its default status when it could not fork.  A crash
\* is not told from a failure here, as ClassOf treats both alike.
StatusOf(end) ==
  CASE end \in {"failed", "unspawned"} -> "Fail"
    [] end = "green" -> "Pass"
    [] end = "deadline" -> "Timeout"

RunSuite(w) ==
  /\ wpc[w] = "run"
  /\ \E end \in Ends \ {"not_run"} :
       /\ ran' = [ran EXCEPT ![todo[wi[w]]] = end]
       /\ wr' = [wr EXCEPT ![w] = StatusOf(end)]
  /\ runs' = [runs EXCEPT ![todo[wi[w]]] = @ + 1]
  /\ wpc' = [wpc EXCEPT ![w] = "store"]
  /\ UNCHANGED <<next, outcomes, started, wi>>

ClassOf(status) ==
  CASE status = "Timeout" -> "timeout"
    [] status = "Pass" -> "survived"
    [] status = "Fail" -> "killed"

\* Mutant: the position is read from the shared counter again.
Store_AtCounter(w) ==
  /\ wpc[w] = "store"
  /\ outcomes' = [i \in DOMAIN outcomes |->
                    IF i = next - 1 THEN ClassOf(wr[w]) ELSE outcomes[i]]
  /\ wpc' = [wpc EXCEPT ![w] = "fetch"]
  /\ UNCHANGED <<next, started, wi, wr, ran, runs>>

Store(w) ==
  /\ wpc[w] = "store"
  /\ outcomes' = [outcomes EXCEPT ![wi[w]] = ClassOf(wr[w])]
  /\ wpc' = [wpc EXCEPT ![w] = "fetch"]
  /\ UNCHANGED <<next, started, wi, wr, ran, runs>>

Work(w) ==
  /\ phase = "pool"
  /\ Fetch(w) \/ RunSuite(w) \/ Store(w)
  /\ UNCHANGED <<phase, plan, report, exit>>

\* Mutants: main goes on as soon as all positions are handed out; main waits
\* for as many workers as --jobs says.
Join_TooEarly ==
  /\ phase = "pool" /\ started = Used
  /\ next > Size
  /\ phase' = "tally"
  /\ UNCHANGED <<plan, pool, report, exit>>
Join_AllJobs ==
  /\ phase = "pool" /\ started = Used
  /\ \A w \in 1..opt.jobs : wpc[w] = "done"
  /\ phase' = "tally"
  /\ UNCHANGED <<plan, pool, report, exit>>

Join ==
  /\ phase = "pool" /\ started = Used
  /\ \A w \in 1..started : wpc[w] = "done"
  /\ phase' = "tally"
  /\ UNCHANGED <<plan, pool, report, exit>>
-----------------------------------------------------------------------------
(* The report and the gate *)

At(class) == {i \in DOMAIN outcomes : outcomes[i] = class}

\* killed counts the timeouts, killed_scored leaves them out again.
Killed == Cardinality(At("killed") \union At("timeout"))
KilledScored == Killed - Cardinality(At("timeout"))

\* Mutants: timeouts stay in killed; uncovered mutants are forgotten.
Tally_TimeoutsKilled ==
  /\ phase = "tally"
  /\ phase' = "gate"
  /\ report' = [killed |-> Killed,
                survived |-> Cardinality(At("survived")) + Cardinality(uncovered),
                timeout |-> Cardinality(At("timeout")),
                survivors |-> {todo[i] : i \in At("survived")} \union uncovered]
  /\ UNCHANGED <<plan, pool, exit>>
Tally_NoUncovered ==
  /\ phase = "tally"
  /\ phase' = "gate"
  /\ report' = [killed |-> KilledScored,
                survived |-> Cardinality(At("survived")),
                timeout |-> Cardinality(At("timeout")),
                survivors |-> {todo[i] : i \in At("survived")} \union uncovered]
  /\ UNCHANGED <<plan, pool, exit>>

Tally ==
  /\ phase = "tally"
  /\ phase' = "gate"
  /\ report' = [killed |-> KilledScored,
                survived |-> Cardinality(At("survived")) + Cardinality(uncovered),
                timeout |-> Cardinality(At("timeout")),
                survivors |-> {todo[i] : i \in At("survived")} \union uncovered]
  /\ UNCHANGED <<plan, pool, exit>>

\* score + 1e-9 < min_score, in integers.
Below(killed, survived, min) ==
  IF killed + survived = 0 THEN 100 < min
  ELSE 100 * killed < min * (killed + survived)

Gate ==
  /\ phase = "gate"
  /\ Exit(IF opt.minSet /\ Below(report.killed, report.survived, opt.min) THEN 1 ELSE 0)
  /\ UNCHANGED <<plan, pool, report>>

Ended == phase = "end" /\ UNCHANGED vars

Main ==
  \/ NothingFound \/ SelectMutants \/ EmptyDiff \/ RedBaseline \/ GreenBaseline
  \/ MkTemp \/ GreenCoverage \/ RedCoverage \/ LoadHitlog \/ Partition
  \/ StartWorker \/ ThreadFails \/ Join \/ Tally \/ Gate

Next == Main \/ (\E w \in Workers : Work(w)) \/ Ended

\* main and the workers are scheduled, and run_command returns (RunCommand's
\* ReturnsAfterDeadline: these runs have no pipe).
Spec == Init /\ [][Next]_vars
FairSpec == Spec /\ WF_vars(Main) /\ \A w \in Workers : WF_vars(Work(w))
-----------------------------------------------------------------------------
(* Properties *)

\* However the workers interleave, the suite is run at most once under each
\* mutant, and when the tally starts it has been run exactly once under each
\* covered one (lines 328-375): fetch_add hands out no position twice and
\* leaves none out, and join waits for every run.
ExactlyOnce ==
  /\ \A m \in Mutants : runs[m] <= 1
  /\ phase \in {"tally", "gate"} =>
       \A m \in Mutants : runs[m] = 1 <=> m \in selected \ uncovered

\* The mutants that are selected and whose suite ended in one of these ways.
EndedAs(ends) == {m \in selected : ran[m] \in ends}

\* The report tells what happened (lines 344-355 and 377-398): each count is
\* that of the runs that ended so, no run is lost or counted for another
\* mutant, and the survivors listed are those the suite stayed green under
\* and those the tests never reached.
ReportTrue ==
  report # NoReport =>
    /\ report.killed = Cardinality(EndedAs({"failed", "unspawned"}))
    /\ report.timeout = Cardinality(EndedAs({"deadline"}))
    /\ report.survivors = EndedAs({"green"}) \union uncovered
    /\ report.survived = Cardinality(report.survivors)
    /\ report.killed + report.survived + report.timeout = Cardinality(selected)

\* A campaign that refuses (exit 1 or 2 without a report) has run no mutant
\* and leaves no temporary file; mutants are run only after every run of the
\* unmutated suite was green (lines 229-294).
CleanRefusal ==
  /\ exit \in {1, 2} /\ report = NoReport => ~tmp /\ \A m \in Mutants : runs[m] = 0
  /\ (\E m \in Mutants : runs[m] > 0) => green /\ ~tmp

\* A gate that opens is earned (lines 393-398 and 452-457): where mutants
\* have a verdict other than timeout, at least min_score percent of those
\* were run, and the suite failed under them or could not be started.
GateEarned ==
  exit = 0 /\ opt.minSet /\ selected \ EndedAs({"deadline"}) # {} =>
    100 * Cardinality(EndedAs({"failed", "unspawned"})) >=
      opt.min * Cardinality(selected \ EndedAs({"deadline"}))

\* The campaign implements Verdicts: whatever the number of workers and the
\* order in which they finish, verdicts, report and exit code are those of a
\* list gone through once.
VerdictOf(m) ==
  IF m \in uncovered THEN "survived"
  ELSE IF \E i \in DOMAIN todo : todo[i] = m /\ outcomes[i] # "none"
  THEN outcomes[CHOOSE i \in DOMAIN todo : todo[i] = m]
  ELSE "pending"

Promise == INSTANCE Verdicts WITH
  minimum <- [set |-> opt.minSet, value |-> opt.min],
  verdict <- [m \in Mutants |-> VerdictOf(m)]
ImplementsVerdicts == Promise!Spec

\* The campaign comes to an end, every worker having seen the counter pass
\* the last position (lines 333-338 and 372-374).
Terminates == <>(phase = "end")

\* README.md:136 and the comment at lines 394-395: timeouts do not count as
\* kills, "so hangs do not inflate the gate".  With a positive minimum, a
\* report and exit code 0, some mutant was killed.
HangsDoNotInflate ==
  exit = 0 /\ opt.minSet /\ opt.min > 0 /\ selected # {} => report.killed > 0

\* README.md:134: "killed - test failed or crashed under that mutant".
KilledMeansTestFailed ==
  report # NoReport => report.killed = Cardinality(EndedAs({"failed"}))
-----------------------------------------------------------------------------
(* The inductive invariant behind ExactlyOnce and ReportTrue *)

\* The plan is a list of the mutants to run, each once.
PlanMade ==
  /\ \A i, j \in DOMAIN todo : todo[i] = todo[j] => i = j
  /\ DOMAIN outcomes = DOMAIN todo
  /\ uncovered \subseteq selected
  /\ phase \in {"pool", "tally", "gate"} =>
       {todo[i] : i \in DOMAIN todo} = selected \ uncovered

\* A worker between fetch and store holds a position that was handed out.
Busy(w) == wpc[w] \in {"run", "store"}
Held == \A w \in Workers : Busy(w) => wi[w] \in DOMAIN todo /\ wi[w] < next

\* No two workers hold the same position.
OneHolder == \A v, w \in Workers : Busy(v) /\ Busy(w) /\ wi[v] = wi[w] => v = w

\* A position has been run if its outcome is stored or about to be stored;
\* the class stored, or the status to store, is that of the run.
RanIffStored ==
  \A i \in DOMAIN todo :
    /\ outcomes[i] # "none" =>
         /\ i < next
         /\ ran[todo[i]] # "not_run" /\ outcomes[i] = ClassOf(StatusOf(ran[todo[i]]))
         /\ \A w \in Workers : Busy(w) => wi[w] # i
    /\ outcomes[i] = "none" /\ i < next => \E w \in Workers : Busy(w) /\ wi[w] = i
    /\ runs[todo[i]] = IF ran[todo[i]] = "not_run" THEN 0 ELSE 1
    /\ ran[todo[i]] # "not_run" /\ outcomes[i] = "none" =>
         \E w \in Workers : wpc[w] = "store" /\ wi[w] = i
    /\ \A w \in Workers : wpc[w] = "run" /\ wi[w] = i => ran[todo[i]] = "not_run"
    /\ \A w \in Workers : wpc[w] = "store" /\ wi[w] = i =>
         ran[todo[i]] # "not_run" /\ wr[w] = StatusOf(ran[todo[i]])

\* Mutants that are not in the list are never run.
OthersNotRun ==
  \A m \in Mutants \ {todo[i] : i \in DOMAIN todo} : ran[m] = "not_run" /\ runs[m] = 0

\* Workers exist in the pool phase; a worker is done once all is handed out.
PoolShape ==
  /\ \A w \in Workers : w > started => wpc[w] = "off"
  /\ \A w \in Workers : wpc[w] = "done" => next > Size
  /\ phase \notin {"pool", "tally", "gate", "end"} =>
       started = 0 /\ next = 1 /\ todo = <<>> /\ outcomes = <<>> /\ uncovered = {}
  /\ phase = "select" => selected = {}
  /\ phase \in {"tally", "gate"} =>
       started > 0 /\ \A w \in 1..started : wpc[w] = "done"

IndInv ==
  TypeOK /\ PlanMade /\ Held /\ OneHolder /\ RanIffStored /\ OthersNotRun /\ PoolShape
=============================================================================
