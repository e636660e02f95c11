-------------------------- MODULE RunCommandProofs --------------------------
(***************************************************************************)
(* Theorems about RunCommand, for any number of processes, any pipe and    *)
(* any amount of output.                                                   *)
(***************************************************************************)
EXTENDS RunCommand, TLAPS

(* The inductive invariant *)

\* Where the child can be at each step of the parent.
ChildAtStep ==
  /\ pc = "start" => child = "none"
  /\ pc \in {"setpgid", "close", "drain", "poll", "clock", "killgroup"} =>
       child \in {"forked", "running", "zombie"}
  /\ pc \in {"killchild", "wait"} => child = "zombie"
  /\ pc = "final" => child = "reaped"
  /\ pc = "done" => child \in {"none", "reaped"}

\* Parent or child has made the group before the command runs, and before the
\* parent goes on: so every kid was born into the group.
GroupFirst ==
  /\ child \in {"running", "zombie", "reaped"} => grouped
  /\ child = "forked" => grouped \/ pc = "setpgid"
  /\ \A k \in Kids : kid[k] # "in_campaign"

\* Behind the kill the group is empty, and the child starts no more processes.
GroupKilled ==
  timedOut /\ pc \in {"killchild", "wait", "final", "done"} =>
    \A k \in Kids : kid[k] \in {"unborn", "escaped", "dead"}

\* Every chunk is in the pipe or has been read; nobody can write after the end.
Accounted ==
  /\ got + pipe = sent
  /\ child = "none" \/ ~capture => sent = 0 /\ holding = {}
  /\ pc = "done" => pipe = 0 /\ holding = {}

\* The parent sends SIGKILL at the deadline only, and a child that has ended
\* keeps its status.
Ended ==
  /\ child \in {"zombie", "reaped"} <=> status # "none"
  /\ status = "sigkill" => timedOut
  /\ timedOut => late
  /\ pc \in {"killgroup", "killchild", "wait"} => timedOut
  /\ timedOut => pc \in {"killgroup", "killchild", "wait", "final", "done"}

\* A pid is free for others only after the child has been reaped.
PidHeld == stranger # "none" => child = "reaped"

Judged ==
  /\ result # "none" => pc = "done"
  /\ result = "Timeout" => timedOut /\ child = "reaped"

IndInv ==
  /\ TypeOK /\ ChildAtStep /\ GroupFirst /\ GroupKilled /\ Accounted /\ Ended /\ PidHeld
  /\ Judged /\ VerdictFaithful /\ StrangerSpared
-----------------------------------------------------------------------------
(* The steps *)

\* Before the fork there is nothing to account for.
LEMMA InitIndInv == Init => IndInv
<1> SUFFICES ASSUME Init PROVE IndInv
  OBVIOUS
<1>1. TypeOK
  <2>1. pipe \in 0..PipeCap /\ sent \in 0..MaxOut /\ got \in 0..MaxOut
    BY PipeCapPositive, MaxOutIsNat DEF Init
  <2>2. kid \in [Kids -> {"unborn", "in_group", "in_campaign", "escaped", "dead"}]
    BY DEF Init
  <2> QED
    BY <2>1, <2>2, Zenon DEF Init, TypeOK, Steps
<1>2. ChildAtStep /\ GroupFirst /\ GroupKilled /\ Ended /\ PidHeld
  BY DEF Init, ChildAtStep, GroupFirst, GroupKilled, Ended, PidHeld
<1>3. Accounted /\ Judged /\ VerdictFaithful /\ StrangerSpared
  BY DEF Init, Accounted, Judged, VerdictFaithful, StrangerSpared
<1> QED
  BY <1>1, <1>2, <1>3 DEF IndInv

\* A system call of the parent keeps the invariant.
LEMMA ParentStep == IndInv /\ Parent => IndInv'
<1> SUFFICES ASSUME IndInv, Parent PROVE IndInv'
  OBVIOUS
<1> USE PipeCapPositive, MaxOutIsNat
    DEF IndInv, TypeOK, ChildAtStep, GroupFirst, GroupKilled, Accounted, Ended, PidHeld,
            Judged, VerdictFaithful, StrangerSpared, Steps, parent, procs, output
<1>1. CASE NoProcess
  BY <1>1 DEF NoProcess
<1>2. CASE Fork
  BY <1>2 DEF Fork
<1>3. CASE ParentSetpgid
  BY <1>3 DEF ParentSetpgid
<1>4. CASE CloseWriteEnd
  BY <1>4 DEF CloseWriteEnd
<1>5. CASE Drain
  BY <1>5 DEF Drain, Read
<1>6. CASE Poll
  BY <1>6 DEF Poll
<1>7. CASE Clock
  BY <1>7 DEF Clock
<1>8. CASE KillGroup
  BY <1>8 DEF KillGroup, ChildAlive
<1>9. CASE KillChild
  BY <1>9 DEF KillChild, ChildAlive
<1>10. CASE Wait
  BY <1>10 DEF Wait
<1>11. CASE FinalRead
  BY <1>11 DEF FinalRead, Read
<1>12. CASE Finish
  BY <1>12 DEF Finish, Verdict
<1> QED
  BY <1>1, <1>2, <1>3, <1>4, <1>5, <1>6, <1>7, <1>8, <1>9, <1>10, <1>11, <1>12 DEF Parent

\* So does a step of the child, of its processes, of the clock or of the system.
LEMMA OthersStep == IndInv /\ Others => IndInv'
<1> SUFFICES ASSUME IndInv, Others PROVE IndInv'
  OBVIOUS
<1> USE PipeCapPositive, MaxOutIsNat
    DEF IndInv, TypeOK, ChildAtStep, GroupFirst, GroupKilled, Accounted, Ended, PidHeld,
            Judged, VerdictFaithful, StrangerSpared, Steps, parent, procs, output
<1>1. CASE Exec
  BY <1>1 DEF Exec
<1>2. CASE ExecFails
  BY <1>2 DEF ExecFails
<1>3. CASE ChildEnds
  BY <1>3 DEF ChildEnds
<1>4. CASE Write
  BY <1>4 DEF Write
<1>5. CASE PidReused
  BY <1>5 DEF PidReused
<1>6. CASE Tick
  BY <1>6 DEF Tick
<1>7. ASSUME NEW k \in Kids, StartKid(k) PROVE IndInv'
  BY <1>7 DEF StartKid
<1>8. ASSUME NEW k \in Kids, KidEscapes(k) PROVE IndInv'
  BY <1>8 DEF KidEscapes
<1>9. ASSUME NEW k \in Kids, KidEnds(k) PROVE IndInv'
  BY <1>9 DEF KidEnds, Alive
<1> QED
  BY <1>1, <1>2, <1>3, <1>4, <1>5, <1>6, <1>7, <1>8, <1>9 DEF Others

\* A step that changes nothing keeps it as well.
LEMMA NextIndInv == IndInv /\ [Next]_vars => IndInv'
<1>1. ASSUME IndInv, UNCHANGED vars PROVE IndInv'
  BY <1>1 DEF vars, parent, procs, output, IndInv, TypeOK, ChildAtStep, GroupFirst,
              GroupKilled, Accounted, Ended, PidHeld, Judged, VerdictFaithful, StrangerSpared
<1> QED
  BY <1>1, ParentStep, OthersStep DEF Next, Returned

-----------------------------------------------------------------------------
(* Theorems *)

\* IndInv is an invariant of run_command for any number of processes, any
\* capacity of the pipe and any amount of output.
THEOREM Invariance == Spec => []IndInv
<1> QED
  BY InitIndInv, NextIndInv, PTL DEF Spec

\* The variables keep their types: the pipe never holds more than its
\* capacity, the parent never more than was written (drain_fd).
THEOREM TypeCorrect == Spec => []TypeOK
<1>1. IndInv => TypeOK
  BY DEF IndInv
<1> QED
  BY Invariance, <1>1, PTL

\* A run reported as a timeout leaves no process behind but those that left
\* the group by themselves (lines 59, 92 and 114-118).
THEOREM GroupCleared == Spec => []TimeoutClearsGroup
<1>1. IndInv => TimeoutClearsGroup
  <2> SUFFICES ASSUME IndInv, result = "Timeout"
               PROVE  child = "reaped" /\ \A k \in Kids : kid[k] \in {"unborn", "escaped", "dead"}
    BY DEF TimeoutClearsGroup
  <2>1. pc = "done" /\ timedOut /\ child = "reaped"
    BY DEF IndInv, Judged
  <2> QED
    BY <2>1 DEF IndInv, GroupKilled
<1> QED
  BY Invariance, <1>1, PTL

\* The verdict is the command's own: the SIGKILL of the deadline is not taken
\* for a crash, and a timeout is reported after the deadline only (lines 133-146).
THEOREM VerdictIsTheCommands == Spec => []VerdictFaithful
<1>1. IndInv => VerdictFaithful
  BY DEF IndInv
<1> QED
  BY Invariance, <1>1, PTL

\* The caller of run_command gets all that was written, and no writer is left
\* that could write more (lines 109 and 124-130).
THEOREM NothingUnread == Spec => []OutputComplete
<1>1. IndInv => OutputComplete
  BY DEF IndInv, TypeOK, Accounted, OutputComplete
<1> QED
  BY Invariance, <1>1, PTL

\* run_command kills no process that got the pid of the reaped child
\* (lines 110-119): it kills before it reaps, and then no more.
THEOREM NoStrangerKilled == Spec => []StrangerSpared
<1>1. IndInv => StrangerSpared
  BY DEF IndInv
<1> QED
  BY Invariance, <1>1, PTL
=============================================================================
