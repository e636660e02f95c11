----------------------------- MODULE RunCommand -----------------------------
(***************************************************************************)
(* One call of run_command (runner/process.cpp): fork a test command in a  *)
(* process group of its own, collect its output if asked to, poll for its  *)
(* end, kill the group at the deadline, classify the outcome.              *)
(*                                                                         *)
(* The processes are the parent (the caller's thread), the child, and the  *)
(* processes the child starts, which inherit its group and its end of the  *)
(* pipe, and may leave the group (setsid) or outlive the child.  One step  *)
(* of the parent is one system call.  Output is counted in chunks.         *)
(***************************************************************************)
EXTENDS Naturals

CONSTANTS
  Kids,     \* processes the test command may start
  PipeCap,  \* capacity of the pipe, in chunks
  MaxOut    \* bound: chunks written in one run

ASSUME PipeCapPositive == PipeCap \in Nat \ {0}
ASSUME MaxOutIsNat == MaxOut \in Nat

VARIABLES
  capture,  \* stdout_out is not null
  pc,       \* the parent's next system call
  late,     \* the deadline has passed
  timedOut, \* timed_out
  result,   \* RunStatus returned, or "none"
  child,    \* "none", "forked", "running", "zombie" or "reaped"
  grouped,  \* the child leads its own process group
  status,   \* how the child ended
  kid,      \* where each kid is
  holding,  \* kids that hold the write end of the pipe
  parentHolds, \* the parent holds it
  pipe,     \* chunks in the pipe
  sent,     \* chunks written so far
  got,      \* chunks in *stdout_out
  stranger  \* an unrelated process that got the child's pid once it was free

parent == <<capture, pc, late, timedOut, result>>
procs == <<child, grouped, status, kid, stranger>>
output == <<holding, parentHolds, pipe, sent, got>>
vars == <<parent, procs, output>>

Steps == {"start", "setpgid", "close", "drain", "poll", "clock", "killgroup",
          "killchild", "wait", "final", "done"}

TypeOK ==
  /\ capture \in BOOLEAN /\ late \in BOOLEAN /\ timedOut \in BOOLEAN
  /\ pc \in Steps
  /\ result \in {"none", "Pass", "Fail", "Crash", "Timeout"}
  /\ child \in {"none", "forked", "running", "zombie", "reaped"}
  /\ grouped \in BOOLEAN /\ parentHolds \in BOOLEAN
  /\ status \in {"none", "zero", "nonzero", "signal", "sigkill"}
  /\ kid \in [Kids -> {"unborn", "in_group", "in_campaign", "escaped", "dead"}]
  /\ holding \subseteq Kids
  /\ pipe \in 0..PipeCap /\ sent \in 0..MaxOut /\ got \in 0..MaxOut
  /\ stranger \in {"none", "alive", "killed"}

Alive(k) == kid[k] \in {"in_group", "in_campaign", "escaped"}
ChildAlive == child \in {"forked", "running"}

Init ==
  /\ capture \in BOOLEAN
  /\ pc = "start" /\ late = FALSE /\ timedOut = FALSE /\ result = "none"
  /\ child = "none" /\ grouped = FALSE /\ status = "none"
  /\ kid = [k \in Kids |-> "unborn"]
  /\ holding = {} /\ parentHolds = FALSE
  /\ pipe = 0 /\ sent = 0 /\ got = 0
  /\ stranger = "none"
-----------------------------------------------------------------------------
(* The parent *)

\* pipe() or fork() fails: the default RunResult is returned (lines 44-57).
NoProcess ==
  /\ pc = "start"
  /\ pc' = "done" /\ result' = "Fail"
  /\ UNCHANGED <<capture, late, timedOut, procs, output>>

Fork ==
  /\ pc = "start"
  /\ pc' = "setpgid"
  /\ child' = "forked"
  /\ parentHolds' = capture
  /\ UNCHANGED <<capture, late, timedOut, result, grouped, status, kid, stranger,
                 holding, pipe, sent, got>>

\* setpgid(pid, pid) by the parent; it fails once the child has called exec.
ParentSetpgid ==
  /\ pc = "setpgid"
  /\ pc' = "close"
  /\ grouped' = (grouped \/ child = "forked")
  /\ UNCHANGED <<capture, late, timedOut, result, child, status, kid, stranger, output>>

\* Mutant: the parent keeps its copy of the write end.
CloseWriteEnd_Forgotten ==
  /\ pc = "close"
  /\ pc' = "drain"
  /\ UNCHANGED <<capture, late, timedOut, result, procs, output>>

CloseWriteEnd ==
  /\ pc = "close"
  /\ pc' = "drain"
  /\ parentHolds' = FALSE
  /\ UNCHANGED <<capture, late, timedOut, result, procs, holding, pipe, sent, got>>

\* One read of drain_fd.
Read == pipe > 0 /\ pipe' = pipe - 1 /\ got' = got + 1

\* Mutants: a chunk is appended twice; the output is read once the child has
\* ended only.
Drain_Twice ==
  /\ pc = "drain"
  /\ \/ pipe > 0 /\ pipe' = pipe - 1 /\ got' = got + 2 /\ UNCHANGED pc
     \/ pipe = 0 /\ pc' = "poll" /\ UNCHANGED <<pipe, got>>
  /\ UNCHANGED <<capture, late, timedOut, result, procs, holding, parentHolds, sent>>
Drain_AtEndOnly ==
  /\ pc = "drain"
  /\ pc' = "poll"
  /\ UNCHANGED <<capture, late, timedOut, result, procs, output>>

\* drain_fd on the non-blocking pipe: reads until there is nothing to read.
Drain ==
  /\ pc = "drain"
  /\ \/ Read /\ UNCHANGED pc
     \/ pipe = 0 /\ pc' = "poll" /\ UNCHANGED <<pipe, got>>
  /\ UNCHANGED <<capture, late, timedOut, result, procs, holding, parentHolds, sent>>

\* Mutant: the loop goes on after the child has been reaped.
Poll_NoBreak ==
  /\ pc = "poll"
  /\ pc' = "clock"
  /\ child' = IF child = "zombie" THEN "reaped" ELSE child
  /\ UNCHANGED <<capture, late, timedOut, result, grouped, status, kid, stranger, output>>

Poll ==
  /\ pc = "poll"
  /\ IF child = "zombie"
     THEN pc' = "final" /\ child' = "reaped"
     ELSE pc' = "clock" /\ UNCHANGED child
  /\ UNCHANGED <<capture, late, timedOut, result, grouped, status, kid, stranger, output>>

Clock ==
  /\ pc = "clock"
  /\ timedOut' = late
  /\ pc' = IF late THEN "killgroup" ELSE "drain"
  /\ UNCHANGED <<capture, late, result, procs, output>>

\* kill(-pid): every member of the child's group, the child included.
KillGroup ==
  /\ pc = "killgroup"
  /\ pc' = "killchild"
  /\ kid' = [k \in Kids |-> IF kid[k] = "in_group" THEN "dead" ELSE kid[k]]
  /\ holding' = {k \in holding : kid[k] # "in_group"}
  /\ IF grouped /\ ChildAlive
     THEN child' = "zombie" /\ status' = "sigkill"
     ELSE UNCHANGED <<child, status>>
  /\ UNCHANGED <<capture, late, timedOut, result, grouped, stranger,
                 parentHolds, pipe, sent, got>>

\* kill(pid): whoever has the pid now.
KillChild ==
  /\ pc = "killchild"
  /\ pc' = "wait"
  /\ IF ChildAlive
     THEN child' = "zombie" /\ status' = "sigkill"
     ELSE UNCHANGED <<child, status>>
  /\ stranger' = IF stranger = "alive" THEN "killed" ELSE stranger
  /\ UNCHANGED <<capture, late, timedOut, result, grouped, kid, output>>

\* The blocking waitpid.
Wait ==
  /\ pc = "wait" /\ child = "zombie"
  /\ pc' = "final"
  /\ child' = "reaped"
  /\ UNCHANGED <<capture, late, timedOut, result, grouped, status, kid, stranger, output>>

\* drain_fd on the pipe made blocking again: it ends at end of file, when no
\* process holds the write end any more.
FinalRead ==
  /\ pc = "final"
  /\ Read
  /\ UNCHANGED <<parent, procs, holding, parentHolds, sent>>

\* Mutant: the status is looked at before timed_out.
Verdict_OfStatus ==
  CASE status = "zero" -> "Pass"
    [] status = "nonzero" -> "Fail"
    [] status \in {"signal", "sigkill"} -> "Crash"

Verdict ==
  CASE timedOut -> "Timeout"
    [] ~timedOut /\ status = "zero" -> "Pass"
    [] ~timedOut /\ status = "nonzero" -> "Fail"
    [] ~timedOut /\ status \in {"signal", "sigkill"} -> "Crash"

\* Mutant: the read after the loop is missing.
Finish_WithoutReading ==
  /\ pc = "final"
  /\ pc' = "done" /\ result' = Verdict
  /\ UNCHANGED <<capture, late, timedOut, procs, output>>

Finish ==
  /\ pc = "final" /\ pipe = 0
  /\ capture => ~parentHolds /\ holding = {}
  /\ pc' = "done" /\ result' = Verdict
  /\ UNCHANGED <<capture, late, timedOut, procs, output>>
-----------------------------------------------------------------------------
(* The child and its kids *)

\* Mutant: the child leaves the group to its parent.
Exec_Ungrouped ==
  /\ child = "forked"
  /\ child' = "running"
  /\ UNCHANGED <<parent, grouped, status, kid, stranger, output>>

\* setpgid(0, 0), the descriptors and the environment, then execvp.
Exec ==
  /\ child = "forked"
  /\ grouped' = TRUE
  /\ child' = "running"
  /\ UNCHANGED <<parent, status, kid, stranger, output>>

\* dup2 or execvp fails: _exit(127).
ExecFails ==
  /\ child = "forked"
  /\ grouped' = TRUE
  /\ child' = "zombie" /\ status' = "nonzero"
  /\ UNCHANGED <<parent, kid, stranger, output>>

\* The command ends, by itself or by a signal of its own.
ChildEnds ==
  /\ child = "running"
  /\ child' = "zombie"
  /\ status' \in {"zero", "nonzero", "signal"}
  /\ UNCHANGED <<parent, grouped, kid, stranger, output>>

\* The command starts a process, which may close the inherited stdout.
StartKid(k) ==
  /\ child = "running" /\ kid[k] = "unborn"
  /\ kid' = [kid EXCEPT ![k] = IF grouped THEN "in_group" ELSE "in_campaign"]
  /\ holding' \in {holding} \union (IF capture THEN {holding \union {k}} ELSE {})
  /\ UNCHANGED <<parent, child, grouped, status, stranger, parentHolds, pipe, sent, got>>

KidEscapes(k) ==
  /\ kid[k] = "in_group"
  /\ kid' = [kid EXCEPT ![k] = "escaped"]
  /\ UNCHANGED <<parent, child, grouped, status, stranger, output>>

KidEnds(k) ==
  /\ Alive(k)
  /\ kid' = [kid EXCEPT ![k] = "dead"]
  /\ holding' = holding \ {k}
  /\ UNCHANGED <<parent, child, grouped, status, stranger, parentHolds, pipe, sent, got>>

\* A writer fills the pipe; it blocks while the pipe is full.
Write ==
  /\ capture /\ (child = "running" \/ holding # {})
  /\ pipe < PipeCap /\ sent < MaxOut
  /\ pipe' = pipe + 1 /\ sent' = sent + 1
  /\ UNCHANGED <<parent, procs, holding, parentHolds, got>>

\* The system gives the pid of a reaped child to another process.
PidReused ==
  /\ child = "reaped" /\ stranger = "none" /\ pc # "done"
  /\ stranger' = "alive"
  /\ UNCHANGED <<parent, child, grouped, status, kid, output>>

\* The deadline, which runs from the end of the set-up, passes.
Tick ==
  /\ pc \notin {"start", "setpgid", "close", "done"} /\ ~late
  /\ late' = TRUE
  /\ UNCHANGED <<capture, pc, timedOut, result, procs, output>>

Returned == pc = "done" /\ UNCHANGED vars

Parent ==
  \/ NoProcess \/ Fork \/ ParentSetpgid \/ CloseWriteEnd \/ Drain \/ Poll \/ Clock
  \/ KillGroup \/ KillChild \/ Wait \/ FinalRead \/ Finish

Others ==
  \/ Exec \/ ExecFails \/ ChildEnds \/ Write \/ PidReused \/ Tick
  \/ \E k \in Kids : StartKid(k) \/ KidEscapes(k) \/ KidEnds(k)

Next == Parent \/ Others \/ Returned

\* The scheduler runs the parent; the command owes nothing, and nothing is
\* assumed of the time a run takes.
Spec == Init /\ [][Next]_vars
FairSpec == Spec /\ WF_vars(Parent)
-----------------------------------------------------------------------------
(* Properties *)

\* A run reported as a timeout leaves no process behind, except those that
\* left the group by themselves (lines 59, 92 and 114-118): both parent and
\* child call setpgid, so the group exists before the command starts anything.
TimeoutClearsGroup ==
  result = "Timeout" =>
    child = "reaped" /\ \A k \in Kids : kid[k] \in {"unborn", "escaped", "dead"}

\* The verdict is the command's own (lines 133-146): the SIGKILL of the
\* deadline is never reported as a crash of the test, a timeout is reported
\* after the deadline only.
VerdictFaithful ==
  /\ result = "Pass" => status = "zero"
  /\ result = "Fail" => status = "nonzero" \/ child = "none"
  /\ result = "Crash" => status = "signal"
  /\ result = "Timeout" => late

\* The caller gets all that was written, the output of kids that outlive the
\* child included (lines 109 and 124-130).
OutputComplete == pc = "done" => got = sent /\ pipe = 0

\* kill is never sent to a pid that has been reaped and may belong to another
\* process (lines 110-119), such as the child of another worker.
StrangerSpared == stranger # "killed"

\* After the deadline run_command returns, unless a process that is still
\* alive holds the pipe (lines 114-130): the final read has no deadline.
ReturnsAfterDeadline ==
  late ~> (pc = "done" \/ (pc = "final" /\ \E k \in holding : Alive(k)))

\* A full pipe is emptied while the child is still running (lines 108-122):
\* the command never waits for the parent until the deadline.
PipeEmptied == (pipe = PipeCap) ~> (pipe < PipeCap \/ late)
=============================================================================
