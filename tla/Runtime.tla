------------------------------ MODULE Runtime ------------------------------
(***************************************************************************)
(* The runtime library linked into every instrumented program              *)
(* (runtime/mulation_runtime.c): the constructor that reads the            *)
(* environment, mulation_active with its lock-free hit table, and the      *)
(* atexit handler that appends the table to the hit log.                   *)
(*                                                                         *)
(* Threads of the program call mulation_active at any time of the life of  *)
(* the process, before the constructor (static initialisers) and during    *)
(* and after the handler (detached threads, late destructors) included.    *)
(* One step is one atomic access of the code: a compare-and-swap on a      *)
(* slot, the increment of the counter, the load of one slot.               *)
(***************************************************************************)
EXTENDS Naturals

CONSTANTS
  Threads,  \* threads of the program under test
  Ids,      \* ids of the mutants compiled into it
  UMax,     \* (unsigned)-1, the value of g_active when no mutant is chosen
  HitCap,   \* HIT_CAP, the number of slots
  Probes,   \* how many slots record_hit tries (16 in the code)
  Hash      \* hit_hash, masked to a slot: any function

ASSUME IdsAreUnsigned == UMax \in Nat /\ Ids \subseteq 1..UMax
ASSUME HitCapPositive == HitCap \in Nat \ {0}
ASSUME ProbesPositive == Probes \in Nat \ {0}
ASSUME HashIntoTable == Hash \in [Ids -> 0..HitCap-1]

Slots == 0..HitCap-1
Unset == 0  \* MULATION_MUTANT unset or empty

VARIABLES
  phase,     \* life of the process, see Phases
  asked,     \* MULATION_MUTANT, or Unset
  askedLog,  \* MULATION_HITLOG names a file
  active,    \* g_active
  hitlogOn,  \* g_hitlog_on
  slots,     \* g_hit_slots
  hitCount,  \* g_hit_count
  pc,        \* where each thread is in the library
  arg,       \* the id each thread passed
  n,         \* the loop counter of record_hit
  flushAt,   \* the loop counter of mulation_flush_hits
  buf,       \* lines still in the stdio buffer
  file,      \* lines in the hit log
  returned,  \* history: ids of the logged calls that have returned
  owed,      \* history: ids returned or in the table when the log was opened
  on         \* history: ids for which mulation_active answered true

table == <<slots, hitCount, arg, n>>
log == <<flushAt, buf, file, owed>>
config == <<asked, askedLog, active, hitlogOn>>
vars == <<phase, config, table, pc, log, returned, on>>

Phases == {"loading", "running", "flushing", "flushed", "unlogged", "gone"}

TypeOK ==
  /\ phase \in Phases
  /\ asked \in Ids \union {Unset} /\ askedLog \in BOOLEAN
  /\ active \in Ids \union {UMax} /\ hitlogOn \in BOOLEAN
  /\ slots \in [Slots -> Ids \union {0}]
  /\ hitCount \in Nat
  /\ pc \in [Threads -> {"idle", "probe", "count", "flush"}]
  /\ arg \in [Threads -> Ids \union {0}]
  /\ n \in [Threads -> 0..Probes-1]
  /\ flushAt \in 0..HitCap
  /\ buf \subseteq Ids /\ file \subseteq Ids
  /\ returned \subseteq Ids /\ owed \subseteq Ids /\ on \subseteq Ids

\* The slot of the k-th try for an id, and the ids now in the table.
Slot(id, k) == (Hash[id] + k) % HitCap
Recorded == {slots[i] : i \in Slots} \ {0}
WindowFull(id) == \A k \in 0..Probes-1 : slots[Slot(id, k)] \notin {0, id}

Init ==
  /\ phase = "loading"
  /\ asked \in Ids \union {Unset} /\ askedLog \in BOOLEAN
  /\ active = UMax /\ hitlogOn = FALSE
  /\ slots = [i \in Slots |-> 0] /\ hitCount = 0
  /\ pc = [t \in Threads |-> "idle"]
  /\ arg = [t \in Threads |-> 0] /\ n = [t \in Threads |-> 0]
  /\ flushAt = 0 /\ buf = {} /\ file = {}
  /\ returned = {} /\ owed = {} /\ on = {}

MulationInit ==
  /\ phase = "loading"
  /\ phase' = "running"
  /\ active' = IF asked = Unset THEN active ELSE asked
  /\ hitlogOn' = askedLog
  /\ UNCHANGED <<asked, askedLog, table, pc, log, returned, on>>

\* mulation_active's answer, given as the call returns.
Answer(id) == on' = IF active = id THEN on \union {id} ELSE on

Return(t) ==
  /\ pc' = [pc EXCEPT ![t] = "idle"]
  /\ returned' = returned \union {arg[t]}
  /\ Answer(arg[t])

UnloggedCall(t) ==
  /\ phase # "gone" /\ pc[t] = "idle" /\ ~hitlogOn
  /\ \E id \in Ids : Answer(id)
  /\ UNCHANGED <<phase, config, table, pc, log, returned>>

BeginCall(t) ==
  /\ phase # "gone" /\ pc[t] = "idle" /\ hitlogOn
  /\ \E id \in Ids : arg' = [arg EXCEPT ![t] = id]
  /\ n' = [n EXCEPT ![t] = 0]
  /\ pc' = [pc EXCEPT ![t] = "probe"]
  /\ UNCHANGED <<phase, config, slots, hitCount, log, returned, on>>

\* The slot that thread t's compare-and-swap addresses.
Target(t) == Slot(arg[t], n[t])

\* Mutant: a plain store in place of the compare-and-swap.
Claim_Overwrites(t) ==
  /\ slots[Target(t)] # arg[t]
  /\ slots' = [slots EXCEPT ![Target(t)] = arg[t]]
  /\ pc' = [pc EXCEPT ![t] = "count"]
  /\ UNCHANGED <<n, returned, on>>

\* The compare-and-swap succeeds: the slot was empty.
Claim(t) ==
  /\ slots[Target(t)] = 0
  /\ slots' = [slots EXCEPT ![Target(t)] = arg[t]]
  /\ pc' = [pc EXCEPT ![t] = "count"]
  /\ UNCHANGED <<n, returned, on>>

\* Mutant: the test expected == id is missing.
AlreadyThere_NotNoticed(t) ==
  /\ slots[Target(t)] = arg[t]
  /\ IF n[t] + 1 < Probes
     THEN n' = [n EXCEPT ![t] = @ + 1] /\ UNCHANGED <<pc, returned, on>>
     ELSE Return(t) /\ UNCHANGED n
  /\ UNCHANGED slots

\* It fails and shows the id itself: recorded before, by any thread.
AlreadyThere(t) ==
  /\ slots[Target(t)] = arg[t]
  /\ Return(t)
  /\ UNCHANGED <<slots, n>>

\* Mutants: one try too many; the same slot for ever; a thread that gives up
\* at the first slot taken by another id.
Occupied_OneTooMany(t) ==
  /\ slots[Target(t)] \notin {0, arg[t]}
  /\ IF n[t] < Probes
     THEN n' = [n EXCEPT ![t] = @ + 1] /\ UNCHANGED <<pc, returned, on>>
     ELSE Return(t) /\ UNCHANGED n
  /\ UNCHANGED slots
Occupied_NoProgress(t) ==
  /\ slots[Target(t)] \notin {0, arg[t]}
  /\ UNCHANGED <<n, pc, returned, on, slots>>
Occupied_GivesUp(t) ==
  /\ slots[Target(t)] \notin {0, arg[t]}
  /\ Return(t)
  /\ UNCHANGED <<n, slots>>

\* It fails and shows another id: try the next slot, or give up silently.
Occupied(t) ==
  /\ slots[Target(t)] \notin {0, arg[t]}
  /\ IF n[t] + 1 < Probes
     THEN n' = [n EXCEPT ![t] = @ + 1] /\ UNCHANGED <<pc, returned, on>>
     ELSE Return(t) /\ UNCHANGED n
  /\ UNCHANGED slots

Probe(t) ==
  /\ phase # "gone" /\ pc[t] = "probe"
  /\ Claim(t) \/ AlreadyThere(t) \/ Occupied(t)
  /\ UNCHANGED <<phase, config, hitCount, arg, log>>

Count(t) ==
  /\ phase # "gone" /\ pc[t] = "count"
  /\ hitCount' = hitCount + 1
  /\ Return(t)
  /\ UNCHANGED <<phase, config, slots, arg, n, log>>

\* Mutant: the loop of the handler starts at slot 1.
OpenLog_SkipsFirst(t) ==
  /\ phase = "running" /\ pc[t] = "idle" /\ hitlogOn
  /\ phase' = "flushing"
  /\ pc' = [pc EXCEPT ![t] = "flush"]
  /\ flushAt' = 1
  /\ owed' = returned \union Recorded
  /\ UNCHANGED <<config, table, buf, file, returned, on>>

\* exit() runs the handler, which opens the log; fopen may fail.
OpenLog(t) ==
  /\ phase = "running" /\ pc[t] = "idle" /\ hitlogOn
  /\ phase' = "flushing"
  /\ pc' = [pc EXCEPT ![t] = "flush"]
  /\ flushAt' = 0
  /\ owed' = returned \union Recorded
  /\ UNCHANGED <<config, table, buf, file, returned, on>>

ExitUnlogged(t) ==
  /\ phase = "running" /\ pc[t] = "idle"
  /\ phase' = "unlogged"
  /\ UNCHANGED <<config, table, pc, log, returned, on>>

FlushSlot(t) ==
  /\ phase = "flushing" /\ pc[t] = "flush" /\ flushAt < HitCap
  /\ buf' = buf \union ({slots[flushAt]} \ {0})
  /\ flushAt' = flushAt + 1
  /\ UNCHANGED <<phase, config, table, pc, file, owed, returned, on>>

\* stdio's buffer is full and goes to the file.
Spill(t) ==
  /\ phase = "flushing" /\ pc[t] = "flush" /\ buf # {}
  /\ file' = file \union buf
  /\ buf' = {}
  /\ UNCHANGED <<phase, config, table, pc, flushAt, owed, returned, on>>

\* Mutant: the handler returns without fclose.
CloseLog_Unflushed(t) ==
  /\ phase = "flushing" /\ pc[t] = "flush" /\ flushAt = HitCap
  /\ phase' = "flushed"
  /\ pc' = [pc EXCEPT ![t] = "idle"]
  /\ UNCHANGED <<config, table, flushAt, buf, file, owed, returned, on>>

CloseLog(t) ==
  /\ phase = "flushing" /\ pc[t] = "flush" /\ flushAt = HitCap
  /\ file' = file \union buf
  /\ buf' = {}
  /\ phase' = "flushed"
  /\ pc' = [pc EXCEPT ![t] = "idle"]
  /\ UNCHANGED <<config, table, flushAt, owed, returned, on>>

\* The end of the process: exit() is through, or a crash, _exit or a signal
\* (the campaign's SIGKILL among them) ends it at any other point.
End ==
  /\ phase # "gone"
  /\ phase' = "gone"
  /\ UNCHANGED <<config, table, pc, log, returned, on>>

Gone == phase = "gone" /\ UNCHANGED vars

Step(t) ==
  \/ UnloggedCall(t) \/ BeginCall(t) \/ Probe(t) \/ Count(t)
  \/ OpenLog(t) \/ ExitUnlogged(t)
  \/ FlushSlot(t) \/ Spill(t) \/ CloseLog(t)

Next == MulationInit \/ (\E t \in Threads : Step(t)) \/ End \/ Gone

\* A thread inside the library is not suspended for ever.
Fairness == \A t \in Threads : WF_vars(Probe(t)) /\ WF_vars(Count(t))
                               /\ WF_vars(FlushSlot(t)) /\ WF_vars(CloseLog(t))

Spec == Init /\ [][Next]_vars
FairSpec == Spec /\ Fairness
-----------------------------------------------------------------------------
(* Properties *)

\* A slot is claimed at most once: no step of any thread changes or clears a
\* slot that holds an id (lines 30-40), so the handler, which reads the
\* slots one by one while other threads still record, misses nothing.
SlotsWriteOnce == [][\A i \in Slots : slots[i] # 0 => slots'[i] = slots[i]]_vars

\* However many threads record the same id at the same time, it takes one
\* slot only (lines 30-40): the log has one line per site and process.
NoDuplicate == \A i, j \in Slots : slots[i] = slots[j] /\ slots[i] # 0 => i = j

\* What the runtime owes the campaign: once the handler has closed the log
\* (lines 43-58), every id whose call had returned before the handler opened
\* it, or whose claim had succeeded, is in the file, unless all the slots
\* record_hit may use for it were taken by other ids.
HitsReported ==
  phase = "flushed" => \A id \in owed : id \in file \/ WindowFull(id)

\* A call of mulation_active answers true only for the mutant the
\* environment asks for (lines 61-65 and 74-77), so with MULATION_MUTANT
\* unset the program behaves as if it had not been instrumented.
OnlyTheAskedMutant == on \subseteq {asked}

\* A call always returns and a started flush always ends, whatever the other
\* threads record meanwhile, unless the process is killed.
CallReturns ==
  \A t \in Threads : pc[t] # "idle" ~> (pc[t] = "idle" \/ phase = "gone")

\* The table and the file implement the grow-only set of CoverageLog.
Stage ==
  CASE phase \in {"loading", "running", "unlogged"} -> "collecting"
    [] phase = "flushing" -> "writing"
    [] phase = "flushed" -> "closed"
    [] phase = "gone" -> "cut"

Promise == INSTANCE CoverageLog WITH
  stage <- Stage,
  recorded <- Recorded,
  due <- owed \intersect Recorded,
  log <- file
ImplementsCoverageLog == Promise!Spec
-----------------------------------------------------------------------------
(* The inductive invariant behind NoDuplicate and HitsReported *)

\* A thread inside record_hit carries an id.
ArgInUse == \A t \in Threads : pc[t] \in {"probe", "count"} => arg[t] \in Ids

\* The slots a thread has already tried were, and remain, taken by others.
TriedSlotsTaken ==
  \A t \in Threads : pc[t] = "probe" =>
    \A k \in 0..Probes-1 : k < n[t] => slots[Slot(arg[t], k)] \notin {0, arg[t]}

\* An id sits in its own window, and every slot before it is taken by others.
FirstFreeSlot ==
  \A i \in Slots : slots[i] # 0 =>
    \E k \in 0..Probes-1 :
      /\ Slot(slots[i], k) = i
      /\ \A j \in 0..Probes-1 : j < k => slots[Slot(slots[i], j)] \notin {0, slots[i]}

\* A logged call that returned left its id in the table or found no room;
\* what the handler owes and what it wrote come from there.
ReturnedRecorded ==
  /\ \A id \in returned \union owed : id \in Recorded \/ WindowFull(id)
  /\ \A t \in Threads : pc[t] = "count" => arg[t] \in Recorded

\* What the handler still owes lies ahead of it, in the buffer or the file.
OwedAhead ==
  phase \in {"flushing", "flushed"} => \A id \in owed :
    \/ WindowFull(id)
    \/ id \in buf \union file
    \/ \E i \in Slots : flushAt <= i /\ slots[i] = id

WrittenRecorded == buf \union file \subseteq Recorded

FlushedAll == phase = "flushed" => flushAt = HitCap /\ buf = {}

IndInv ==
  TypeOK /\ ArgInUse /\ TriedSlotsTaken /\ FirstFreeSlot /\ ReturnedRecorded
    /\ OwedAhead /\ WrittenRecorded /\ FlushedAll
=============================================================================
