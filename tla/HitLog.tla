------------------------------- MODULE HitLog -------------------------------
(***************************************************************************)
(* The hit log of a coverage run, from the processes that write it to the  *)
(* partition of the mutants: under `ctest -j', or when a test starts other *)
(* instrumented programs, several processes append to one file without a   *)
(* lock (runtime, mulation_flush_hits).  stdio hands a full buffer to the  *)
(* file wherever it ends, in the middle of a line too.  main reads the     *)
(* file line by line (load_hitlog) and counts what is not in it as         *)
(* uncovered.                                                              *)
(*                                                                         *)
(* What each process has recorded is an input here (Runtime has the        *)
(* table); the digits of the numbers are here because lines can be glued.  *)
(***************************************************************************)
EXTENDS Integers, Sequences, SequencesExt, FiniteSetsExt

CONSTANTS
  Procs,   \* processes of the coverage run
  Logs,    \* what a process may have to write: sequences of ids
  Listed,  \* the ids of the campaign's mutants
  Block,   \* characters of stdio's buffer
  UIntMax, ULongMax \* the largest unsigned, 2^32 - 1, and the largest unsigned long

ASSUME Widths == UIntMax \in Nat /\ ULongMax \in Nat /\ UIntMax <= ULongMax

\* An id is an unsigned that is not 0.
Ids == 1..UIntMax
ASSUME IdsAreUnsigned == Listed \subseteq Ids /\ \A log \in Logs : log \in Seq(Ids)

VARIABLES
  due,     \* the ids in each process's table, in the order of its slots
  stage,   \* of each process: "running", "flushing", "closed" or "cut"
  printed, \* ids each process has given to fprintf
  buf,     \* stdio's buffer of each process
  file,    \* the characters of the hit log
  splits,  \* history: blocks that ended within a line
  covered, \* covered of main
  uncovered, todo, \* the partition
  phase    \* of main: "coverage", "loaded" or "partitioned"

writing == <<due, stage, printed, buf, file, splits>>
vars == <<writing, covered, uncovered, todo, phase>>

Newline == -1

\* The decimal digits of an unsigned.
Decimal ==
  LET digits[n \in 0..UIntMax] ==
        IF n < 10 THEN <<n>> ELSE Append(digits[n \div 10], n % 10)
  IN  digits

\* fprintf of "%u\n".
Line(id) == Append(Decimal[id], Newline)
Text(log) == FlattenSeq([k \in DOMAIN log |-> Line(log[k])])

ASSUME BlockHoldsALine == Block \in Nat /\ \A id \in Ids : Len(Line(id)) <= Block

Init ==
  /\ due \in [Procs -> Logs]
  /\ stage = [p \in Procs |-> "running"]
  /\ printed = [p \in Procs |-> 0] /\ buf = [p \in Procs |-> <<>>]
  /\ file = <<>> /\ splits = 0
  /\ covered = {} /\ uncovered = {} /\ todo = {} /\ phase = "coverage"
-----------------------------------------------------------------------------
(* mulation_flush_hits in each process *)

Open(p) ==
  /\ stage[p] = "running"
  /\ stage' = [stage EXCEPT ![p] = "flushing"]
  /\ UNCHANGED <<due, printed, buf, file, splits, covered, uncovered, todo, phase>>

\* The file is opened for appending: one write is one piece of it.
WriteOut(block) ==
  /\ file' = file \o block
  /\ splits' = IF block # <<>> /\ Last(block) # Newline THEN splits + 1 ELSE splits

\* Mutant: the buffer grows until the file is closed.
PutLine_Unbounded(p) ==
  /\ stage[p] = "flushing" /\ printed[p] < Len(due[p])
  /\ buf' = [buf EXCEPT ![p] = @ \o Line(due[p][printed[p] + 1])]
  /\ printed' = [printed EXCEPT ![p] = @ + 1]
  /\ UNCHANGED <<due, stage, file, splits, covered, uncovered, todo, phase>>
PutLine(p) ==
  /\ stage[p] = "flushing" /\ printed[p] < Len(due[p])
  /\ LET out == buf[p] \o Line(due[p][printed[p] + 1])
     IN  IF Len(out) <= Block
         THEN buf' = [buf EXCEPT ![p] = out] /\ UNCHANGED <<file, splits>>
         ELSE /\ WriteOut(SubSeq(out, 1, Block))
              /\ buf' = [buf EXCEPT ![p] = SubSeq(out, Block + 1, Len(out))]
  /\ printed' = [printed EXCEPT ![p] = @ + 1]
  /\ UNCHANGED <<due, stage, covered, uncovered, todo, phase>>

\* Mutant: the file is opened for writing anew, not for appending.
Close_Truncates(p) ==
  /\ stage[p] = "flushing" /\ printed[p] = Len(due[p])
  /\ file' = buf[p] /\ UNCHANGED splits
  /\ buf' = [buf EXCEPT ![p] = <<>>]
  /\ stage' = [stage EXCEPT ![p] = "closed"]
  /\ UNCHANGED <<due, printed, covered, uncovered, todo, phase>>
\* fclose writes what is left.
Close(p) ==
  /\ stage[p] = "flushing" /\ printed[p] = Len(due[p])
  /\ WriteOut(buf[p])
  /\ buf' = [buf EXCEPT ![p] = <<>>]
  /\ stage' = [stage EXCEPT ![p] = "closed"]
  /\ UNCHANGED <<due, printed, covered, uncovered, todo, phase>>

\* A process ends by _exit, a signal or a crash, and the command that started
\* it passes nevertheless: what is in its buffer is lost.
Cut(p) ==
  /\ stage[p] \in {"running", "flushing"}
  /\ stage' = [stage EXCEPT ![p] = "cut"]
  /\ UNCHANGED <<due, printed, buf, file, splits, covered, uncovered, todo, phase>>
-----------------------------------------------------------------------------
(* main *)

Value(digits) ==
  LET value[n \in 0..Len(digits)] == IF n = 0 THEN 0 ELSE 10 * value[n - 1] + digits[n]
  IN  value[Len(digits)]

\* strtoul stops at the largest unsigned long; the cast to an id cuts what is above.
strtoul(digits) == IF Value(digits) <= ULongMax THEN Value(digits) ELSE ULongMax
Number(digits) == strtoul(digits) % (UIntMax + 1)

\* The numbers on the lines; an empty line is none, and the last may lack its end.
Numbers(text) ==
  {Number(SubSeq(text, r[1], r[2])) : r \in
     {r \in (1..Len(text)) \X (1..Len(text)) :
        /\ r[1] <= r[2] /\ \A k \in r[1]..r[2] : text[k] # Newline
        /\ r[1] = 1 \/ text[r[1] - 1] = Newline
        /\ r[2] = Len(text) \/ text[r[2] + 1] = Newline}}

\* Mutant: reading stops where a line is longer than an id.
load_hitlog_StopsAtGlued(text) ==
  LET longest == Len(Decimal[UIntMax])
      glued == {k \in 1..Len(text) - longest : \A j \in k..k + longest : text[j] # Newline}
  IN  Numbers(IF glued = {} THEN text ELSE SubSeq(text, 1, Min(glued) - 1))
load_hitlog(text) == Numbers(text)

Load ==
  /\ phase = "coverage" /\ \A p \in Procs : stage[p] \in {"closed", "cut"}
  /\ covered' = load_hitlog(file)
  /\ phase' = "loaded"
  /\ UNCHANGED <<writing, uncovered, todo>>

\* An empty log says nothing.
Uncovered(id) == covered # {} /\ id \notin covered

Partition ==
  /\ phase = "loaded"
  /\ uncovered' = {id \in Listed : Uncovered(id)}
  /\ todo' = {id \in Listed : ~Uncovered(id)}
  /\ phase' = "partitioned"
  /\ UNCHANGED <<writing, covered>>

Next == (\E p \in Procs : Open(p) \/ PutLine(p) \/ Close(p) \/ Cut(p)) \/ Load \/ Partition
Spec == Init /\ [][Next]_vars
-----------------------------------------------------------------------------
(* Properties *)

\* Buffers stay within their size, and only a process that writes has one.
TypeOK ==
  /\ \A p \in Procs : Len(buf[p]) <= Block /\ printed[p] \in 0..Len(due[p])
  /\ \A p \in Procs : stage[p] \in {"running", "closed"} => buf[p] = <<>>
  /\ ToSet(file) \subseteq 0..9 \union {Newline}
  /\ uncovered \union todo \in {{}, Listed} /\ uncovered \intersect todo = {}
  /\ phase \in {"coverage", "loaded", "partitioned"}

\* The ids whose process has closed its log.
Owed == UNION {ToSet(due[p]) : p \in {q \in Procs : stage[q] = "closed"}}
WholeLog(p) == Len(Text(due[p])) <= Block

\* If no process has more to write than fits the buffer of stdio, the order of the
\* processes and the end of any of them does not matter: a mutant is counted
\* as uncovered only if no process that closed its log has reached it, and all
\* covered mutants were reached (mulation_flush_hits, load_hitlog, main).
SmallLogsWhole ==
  (\A p \in Procs : WholeLog(p)) =>
    /\ phase # "coverage" => covered = Owed
    /\ uncovered \intersect Owed = {}

\* With longer logs each block that ends within a line costs two ids at most:
\* the one it cuts, and the one another process puts behind the cut.
LossBounded ==
  phase # "coverage" => Cardinality(Owed \ covered) <= 2 * splits
=============================================================================
