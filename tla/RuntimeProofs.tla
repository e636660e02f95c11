---------------------------- MODULE RuntimeProofs ---------------------------
(***************************************************************************)
(* Proofs about the runtime library, for any number of threads and ids,    *)
(* any table size and any hash function.                                   *)
(***************************************************************************)
EXTENDS Runtime, TLAPS

\* Every try of record_hit addresses a slot of the table (lines 29-31).
LEMMA SlotInTable == \A id \in Ids, k \in Nat : Slot(id, k) \in Slots
<1>1. ASSUME NEW a \in Nat, NEW b \in Nat \ {0} PROVE a % b \in 0..b-1
  OBVIOUS
<1>2. TAKE id \in Ids, k \in Nat
<1>3. Hash[id] + k \in Nat
  BY HashIntoTable, HitCapPositive
<1>4. QED
  BY <1>1, <1>3, HitCapPositive DEF Slot, Slots

LEMMA IdsPositive == Ids \subseteq Nat \ {0}
  BY IdsAreUnsigned

\* The invariant holds before the constructor has run.
LEMMA InitIndInv == Init => IndInv
<1> SUFFICES ASSUME Init PROVE IndInv
  OBVIOUS
<1>1. TypeOK
  <2>1. 0 \in 0..Probes-1 /\ 0 \in 0..HitCap
    BY HitCapPositive, ProbesPositive
  <2>2. slots \in [Slots -> Ids \union {0}] /\ n \in [Threads -> 0..Probes-1]
    BY <2>1 DEF Init
  <2>3. QED
    BY <2>1, <2>2 DEF Init, TypeOK, Phases
<1>2. ArgInUse /\ TriedSlotsTaken /\ FirstFreeSlot /\ ReturnedRecorded /\ OwedAhead
      /\ WrittenRecorded /\ FlushedAll
  BY DEF Init, ArgInUse, TriedSlotsTaken, FirstFreeSlot, ReturnedRecorded, OwedAhead,
         WrittenRecorded, FlushedAll, Slots
<1>3. QED
  BY <1>1, <1>2 DEF IndInv

\* What a return from mulation_active leaves well typed.
LEMMA ReturnTypes ==
  ASSUME TypeOK, NEW t \in Threads, arg[t] \in Ids, Return(t)
  PROVE  /\ pc' \in [Threads -> {"idle", "probe", "count", "flush"}]
         /\ returned' \subseteq Ids
         /\ on' \subseteq Ids
  BY DEF TypeOK, Return, Answer

LEMMA TypeStep == TypeOK /\ ArgInUse /\ [Next]_vars => TypeOK'
<1> SUFFICES ASSUME TypeOK, ArgInUse, [Next]_vars PROVE TypeOK'
  OBVIOUS
<1> USE DEF TypeOK, table, log, config
<1>1. CASE MulationInit
  BY <1>1 DEF MulationInit, Phases, Unset
<1>2. ASSUME NEW t \in Threads, UnloggedCall(t) PROVE TypeOK'
  BY <1>2 DEF UnloggedCall, Answer
<1>3. ASSUME NEW t \in Threads, BeginCall(t) PROVE TypeOK'
  BY <1>3, ProbesPositive DEF BeginCall
<1>4. ASSUME NEW t \in Threads, Probe(t) PROVE TypeOK'
  <2>1. CASE Claim(t)
    <3>1. slots' \in [Slots -> Ids \union {0}]
      BY <2>1 DEF Claim
    <3>2. pc' \in [Threads -> {"idle", "probe", "count", "flush"}]
      BY <2>1 DEF Claim
    <3>3. QED
      BY <1>4, <2>1, <3>1, <3>2 DEF Probe, Claim
  <2>2. CASE AlreadyThere(t)
    <3>1. arg[t] \in Ids
      BY <1>4 DEF Probe, ArgInUse
    <3>2. QED
      BY <1>4, <2>2, <3>1, ReturnTypes DEF Probe, AlreadyThere
  <2>3. CASE Occupied(t)
    <3>1. arg[t] \in Ids
      BY <1>4 DEF Probe, ArgInUse
    <3>2. CASE n[t] + 1 < Probes
      <4>1. n' \in [Threads -> 0..Probes-1]
        BY <2>3, <3>2, ProbesPositive DEF Occupied
      <4>2. QED
        BY <1>4, <2>3, <3>2, <4>1 DEF Probe, Occupied
    <3>3. CASE ~(n[t] + 1 < Probes)
      BY <1>4, <2>3, <3>1, <3>3, ReturnTypes DEF Probe, Occupied
    <3>4. QED
      BY <3>2, <3>3
  <2>4. QED
    BY <1>4, <2>1, <2>2, <2>3 DEF Probe
<1>5. ASSUME NEW t \in Threads, Count(t) PROVE TypeOK'
  <2>1. arg[t] \in Ids
    BY <1>5 DEF Count, ArgInUse
  <2>2. QED
    BY <1>5, <2>1, ReturnTypes DEF Count
<1>6. ASSUME NEW t \in Threads, OpenLog(t) PROVE TypeOK'
  BY <1>6, HitCapPositive DEF OpenLog, Phases, Recorded
<1>7. ASSUME NEW t \in Threads, ExitUnlogged(t) PROVE TypeOK'
  BY <1>7 DEF ExitUnlogged, Phases
<1>8. ASSUME NEW t \in Threads, FlushSlot(t) PROVE TypeOK'
  BY <1>8, HitCapPositive DEF FlushSlot, Slots
<1>9. ASSUME NEW t \in Threads, Spill(t) \/ CloseLog(t) PROVE TypeOK'
  BY <1>9 DEF Spill, CloseLog, Phases
<1>10. CASE End \/ Gone \/ UNCHANGED vars
  BY <1>10 DEF End, Gone, vars, Phases
<1>11. QED
  BY <1>1, <1>2, <1>3, <1>4, <1>5, <1>6, <1>7, <1>8, <1>9, <1>10 DEF Next, Step

LEMMA ArgStep == TypeOK /\ ArgInUse /\ [Next]_vars => ArgInUse'
<1> SUFFICES ASSUME TypeOK, ArgInUse, [Next]_vars,
                    NEW u \in Threads, pc'[u] \in {"probe", "count"}
             PROVE  arg'[u] \in Ids
  BY DEF ArgInUse
<1> USE DEF TypeOK, ArgInUse, table, log, config
<1>1. ASSUME NEW t \in Threads, BeginCall(t) PROVE arg'[u] \in Ids
  BY <1>1 DEF BeginCall
<1>2. ASSUME NEW t \in Threads, Probe(t) PROVE arg'[u] \in Ids
  <2>1. arg' = arg /\ pc[t] = "probe"
    BY <1>2 DEF Probe
  <2>2. u = t \/ pc'[u] = pc[u]
    BY <1>2 DEF Probe, Claim, AlreadyThere, Occupied, Return
  <2>3. QED
    BY <2>1, <2>2
<1>3. ASSUME NEW t \in Threads, Count(t) PROVE arg'[u] \in Ids
  BY <1>3 DEF Count, Return
<1>4. ASSUME NEW t \in Threads, OpenLog(t) \/ CloseLog(t) PROVE arg'[u] \in Ids
  BY <1>4 DEF OpenLog, CloseLog
<1>5. QED
  BY <1>1, <1>2, <1>3, <1>4
  DEF Next, Step, MulationInit, UnloggedCall, ExitUnlogged, FlushSlot, Spill, End, Gone, vars

\* The steps that write the table: the only one is a successful claim.
LEMMA SlotsStep ==
  ASSUME [Next]_vars, slots' # slots
  PROVE  \E t \in Threads : pc[t] = "probe" /\ Claim(t) /\ UNCHANGED <<phase, arg, log>>
BY DEF Next, Step, MulationInit, UnloggedCall, BeginCall, Probe, Claim, AlreadyThere, Occupied,
       Count, OpenLog, ExitUnlogged, FlushSlot, Spill, CloseLog, End, Gone,
       vars, config, table, log

\* A slot that holds an id keeps it.
SlotsKept == \A i \in Slots : slots[i] # 0 => slots'[i] = slots[i]

LEMMA SlotsOnlyFilled == TypeOK /\ [Next]_vars => SlotsKept
<1> SUFFICES ASSUME TypeOK, [Next]_vars, NEW i \in Slots, slots[i] # 0
             PROVE  slots'[i] = slots[i]
  BY DEF SlotsKept
<1>1. CASE slots' = slots
  BY <1>1
<1>2. CASE slots' # slots
  <2>1. PICK t \in Threads : Claim(t)
    BY <1>2, SlotsStep
  <2>2. QED
    BY <2>1 DEF Claim, TypeOK
<1>3. QED
  BY <1>1, <1>2

\* A try that met another id would meet it again, and a full window stays
\* full.
LEMMA TakenStaysTaken ==
  ASSUME TypeOK, SlotsKept, NEW id \in Ids
  PROVE  /\ \A k \in 0..Probes-1 :
              slots[Slot(id, k)] \notin {0, id} => slots'[Slot(id, k)] \notin {0, id}
         /\ WindowFull(id) => WindowFull(id)'
<1>1. \A k \in 0..Probes-1 :
        slots[Slot(id, k)] \notin {0, id} => slots'[Slot(id, k)] \notin {0, id}
  <2>1. \A k \in 0..Probes-1 : Slot(id, k) \in Slots
    BY SlotInTable, ProbesPositive
  <2>2. QED
    BY <2>1 DEF SlotsKept
<1>2. WindowFull(id) => WindowFull(id)'
  BY <1>1 DEF WindowFull, Slot
<1>3. QED
  BY <1>1, <1>2

LEMMA RecordedGrows == ASSUME SlotsKept PROVE Recorded \subseteq Recorded'
BY DEF SlotsKept, Recorded

\* The four parts of the invariant that speak of the table, one by one.
LEMMA TriedStep == IndInv /\ [Next]_vars => TriedSlotsTaken'
<1> SUFFICES ASSUME IndInv, [Next]_vars,
                    NEW u \in Threads, pc'[u] = "probe",
                    NEW k \in 0..Probes-1, k < n'[u]
             PROVE  slots'[Slot(arg'[u], k)] \notin {0, arg'[u]}
  BY DEF TriedSlotsTaken, Slot
<1> USE DEF IndInv
<1>1. SlotsKept
  BY SlotsOnlyFilled
<1>2. ASSUME pc[u] = "probe", arg'[u] = arg[u],
             slots[Slot(arg[u], k)] \notin {0, arg[u]}
      PROVE  slots'[Slot(arg'[u], k)] \notin {0, arg'[u]}
  BY <1>1, <1>2, TakenStaysTaken DEF ArgInUse
<1>3. ASSUME pc[u] = "probe", arg'[u] = arg[u], n'[u] = n[u]
      PROVE  slots'[Slot(arg'[u], k)] \notin {0, arg'[u]}
  BY <1>2, <1>3 DEF TriedSlotsTaken
<1>4. ASSUME NEW t \in Threads, BeginCall(t)
      PROVE  slots'[Slot(arg'[u], k)] \notin {0, arg'[u]}
  <2>1. CASE u = t
    BY <1>4, <2>1, ProbesPositive DEF BeginCall, TypeOK
  <2>2. CASE u # t
    BY <1>3, <1>4, <2>2 DEF BeginCall, TypeOK
  <2>3. QED
    BY <2>1, <2>2
<1>5. ASSUME NEW t \in Threads, Probe(t)
      PROVE  slots'[Slot(arg'[u], k)] \notin {0, arg'[u]}
  <2>1. pc[u] = "probe" /\ arg' = arg
    BY <1>5 DEF Probe, Claim, AlreadyThere, Occupied, Return, TypeOK
  <2>2. CASE n'[u] = n[u]
    BY <1>3, <2>1, <2>2
  <2>3. CASE n'[u] # n[u]
    <3>1. u = t /\ Occupied(t) /\ n'[u] = n[u] + 1
      BY <1>5, <2>3 DEF Probe, Claim, AlreadyThere, Occupied, TypeOK
    <3>2. slots[Slot(arg[u], n[u])] \notin {0, arg[u]}
      BY <3>1 DEF Occupied, Target
    <3>3. k < n[u] \/ k = n[u]
      BY <3>1, ProbesPositive DEF TypeOK
    <3>4. slots[Slot(arg[u], k)] \notin {0, arg[u]}
      BY <2>1, <3>2, <3>3 DEF TriedSlotsTaken
    <3>5. QED
      BY <1>2, <2>1, <3>4
  <2>4. QED
    BY <2>2, <2>3
<1>6. ASSUME NEW t \in Threads, Count(t) \/ OpenLog(t) \/ CloseLog(t)
      PROVE  slots'[Slot(arg'[u], k)] \notin {0, arg'[u]}
  BY <1>3, <1>6 DEF Count, OpenLog, CloseLog, Return, TypeOK, table
<1>7. CASE \/ MulationInit \/ End \/ Gone \/ UNCHANGED vars
           \/ \E t \in Threads : \/ UnloggedCall(t) \/ ExitUnlogged(t)
                               \/ FlushSlot(t) \/ Spill(t)
  BY <1>3, <1>7
  DEF MulationInit, UnloggedCall, ExitUnlogged, FlushSlot, Spill, End, Gone, vars, table
<1>8. QED
  BY <1>4, <1>5, <1>6, <1>7 DEF Next, Step

LEMMA FirstFreeStep == IndInv /\ [Next]_vars => FirstFreeSlot'
<1> SUFFICES ASSUME IndInv, [Next]_vars, NEW i \in Slots, slots'[i] # 0
             PROVE  \E k \in 0..Probes-1 :
                      /\ Slot(slots'[i], k) = i
                      /\ \A j \in 0..Probes-1 :
                           j < k => slots'[Slot(slots'[i], j)] \notin {0, slots'[i]}
  BY DEF FirstFreeSlot, Slot
<1> USE DEF IndInv
<1>1. SlotsKept
  BY SlotsOnlyFilled
<1>2. CASE slots[i] # 0
  <2>1. slots'[i] = slots[i] /\ slots[i] \in Ids
    BY <1>1, <1>2 DEF SlotsKept, TypeOK
  <2>2. PICK k \in 0..Probes-1 :
          /\ Slot(slots[i], k) = i
          /\ \A j \in 0..Probes-1 : j < k => slots[Slot(slots[i], j)] \notin {0, slots[i]}
    BY <1>2 DEF FirstFreeSlot
  <2>3. QED
    BY <1>1, <2>1, <2>2, TakenStaysTaken
<1>3. CASE slots[i] = 0
  <2>1. PICK t \in Threads : pc[t] = "probe" /\ Claim(t) /\ arg' = arg
    BY <1>3, SlotsStep DEF log
  <2>2. i = Slot(arg[t], n[t]) /\ slots'[i] = arg[t]
    BY <1>3, <2>1 DEF Claim, Target, TypeOK
  <2>3. arg[t] \in Ids /\ n[t] \in 0..Probes-1
    BY <2>1 DEF ArgInUse, TypeOK
  <2>4. \A j \in 0..Probes-1 : j < n[t] => slots[Slot(arg[t], j)] \notin {0, arg[t]}
    BY <2>1 DEF TriedSlotsTaken
  <2>5. QED
    BY <1>1, <2>2, <2>3, <2>4, TakenStaysTaken
<1>4. QED
  BY <1>2, <1>3

\* A thread that returns from record_hit has its id in the table or has seen
\* its whole window taken.
LEMMA ProbeOutcome ==
  ASSUME IndInv, NEW t \in Threads, pc[t] = "probe", AlreadyThere(t) \/ Occupied(t)
  PROVE  \/ returned' = returned
         \/ returned' = returned \union {arg[t]} /\ (arg[t] \in Recorded \/ WindowFull(arg[t]))
<1> USE DEF IndInv
<1>1. CASE AlreadyThere(t)
  <2>1. Slot(arg[t], n[t]) \in Slots /\ arg[t] \in Ids
    BY SlotInTable, ProbesPositive DEF ArgInUse, TypeOK
  <2>2. arg[t] \in Recorded
    BY <1>1, <2>1, IdsPositive DEF AlreadyThere, Target, Recorded
  <2>3. QED
    BY <1>1, <2>2 DEF AlreadyThere, Return
<1>2. CASE Occupied(t) /\ n[t] + 1 < Probes
  BY <1>2 DEF Occupied
<1>3. CASE Occupied(t) /\ ~(n[t] + 1 < Probes)
  <2>1. n[t] \in 0..Probes-1 /\ n[t] = Probes - 1
    BY <1>3, ProbesPositive DEF TypeOK
  <2>2. \A k \in 0..Probes-1 : k < n[t] \/ k = n[t]
    BY <2>1, ProbesPositive
  <2>3. WindowFull(arg[t])
    BY <1>3, <2>2 DEF Occupied, Target, WindowFull, TriedSlotsTaken
  <2>4. QED
    BY <1>3, <2>3 DEF Occupied, Return
<1>4. QED
  BY <1>1, <1>2, <1>3

LEMMA ReturnedStep == IndInv /\ [Next]_vars => ReturnedRecorded'
<1> SUFFICES ASSUME IndInv, [Next]_vars PROVE ReturnedRecorded'
  OBVIOUS
<1> USE DEF IndInv
<1>1. SlotsKept /\ Recorded \subseteq Recorded'
  BY SlotsOnlyFilled, RecordedGrows
<1>2. \A id \in Ids : WindowFull(id) => WindowFull(id)'
  BY <1>1, TakenStaysTaken
<1>3. ASSUME NEW id \in returned \union owed PROVE id \in Recorded' \/ WindowFull(id)'
  BY <1>1, <1>2, <1>3 DEF ReturnedRecorded, TypeOK
<1>4. ASSUME NEW id \in returned' \union owed', id \notin returned \union owed
      PROVE  id \in Recorded' \/ WindowFull(id)'
  <2>1. PICK t \in Threads : Probe(t) \/ Count(t) \/ OpenLog(t)
    BY <1>4
    DEF Next, Step, MulationInit, UnloggedCall, BeginCall, ExitUnlogged,
        FlushSlot, Spill, CloseLog, End, Gone, vars, log
  <2>2. CASE Probe(t)
    <3>1. pc[t] = "probe" /\ (AlreadyThere(t) \/ Occupied(t))
      BY <1>4, <2>2 DEF Probe, Claim, log
    <3>2. owed' = owed
      BY <2>2 DEF Probe, log
    <3>3. id = arg[t] /\ (id \in Recorded \/ WindowFull(id))
      BY <1>4, <3>1, <3>2, ProbeOutcome
    <3>4. id \in Ids
      BY <3>1, <3>3 DEF ArgInUse
    <3>5. QED
      BY <1>1, <1>2, <3>3, <3>4
  <2>3. CASE Count(t)
    BY <1>1, <1>4, <2>3 DEF Count, Return, ReturnedRecorded, log
  <2>4. CASE OpenLog(t)
    BY <1>1, <1>4, <2>4 DEF OpenLog
  <2>5. QED
    BY <2>1, <2>2, <2>3, <2>4
<1>5. ASSUME NEW u \in Threads, pc'[u] = "count" PROVE arg'[u] \in Recorded'
  <2>1. CASE pc[u] = "count" /\ arg'[u] = arg[u]
    BY <1>1, <2>1 DEF ReturnedRecorded
  <2>2. ASSUME NEW t \in Threads, Probe(t), ~(pc[u] = "count" /\ arg'[u] = arg[u])
        PROVE  arg'[u] \in Recorded'
    <3>1. u = t /\ Claim(t) /\ arg' = arg /\ pc[t] = "probe"
      BY <1>5, <2>2 DEF Probe, Claim, AlreadyThere, Occupied, Return, TypeOK
    <3>2. Target(t) \in Slots /\ arg[t] \in Ids
      BY <3>1, SlotInTable, ProbesPositive DEF ArgInUse, TypeOK, Target
    <3>3. slots'[Target(t)] = arg[t]
      BY <3>1, <3>2 DEF Claim, TypeOK
    <3>4. QED
      BY <3>1, <3>2, <3>3, IdsPositive DEF Recorded
  <2>3. ASSUME NEW t \in Threads,
               BeginCall(t) \/ Count(t) \/ OpenLog(t) \/ CloseLog(t)
        PROVE  pc[u] = "count" /\ arg'[u] = arg[u]
    BY <1>5, <2>3 DEF BeginCall, Count, Return, OpenLog, CloseLog, TypeOK, table
  <2>4. QED
    BY <1>5, <2>1, <2>2, <2>3
    DEF Next, Step, MulationInit, UnloggedCall, ExitUnlogged, FlushSlot, Spill, End, Gone,
        vars, table
<1>6. QED
  BY <1>3, <1>4, <1>5 DEF ReturnedRecorded, WindowFull, Slot

\* The handler writes ids of the table only.
LEMMA WrittenStep == IndInv /\ [Next]_vars => WrittenRecorded'
<1> SUFFICES ASSUME IndInv, [Next]_vars PROVE WrittenRecorded'
  OBVIOUS
<1>1. Recorded \subseteq Recorded'
  BY SlotsOnlyFilled, RecordedGrows DEF IndInv
<1>2. buf' \union file' \subseteq Recorded
  <2>1. ASSUME NEW t \in Threads, FlushSlot(t) PROVE buf' \union file' \subseteq Recorded
    <3>1. flushAt \in Slots
      BY <2>1, HitCapPositive DEF FlushSlot, IndInv, TypeOK, Slots
    <3>2. QED
      BY <2>1, <3>1 DEF FlushSlot, IndInv, WrittenRecorded, Recorded
  <2>2. ASSUME NEW t \in Threads, OpenLog(t) \/ Spill(t) \/ CloseLog(t)
        PROVE  buf' \union file' \subseteq Recorded
    BY <2>2 DEF OpenLog, Spill, CloseLog, IndInv, WrittenRecorded
  <2>3. QED
    BY <2>1, <2>2
    DEF Next, Step, MulationInit, UnloggedCall, BeginCall, Probe, Count, ExitUnlogged,
        End, Gone, vars, log, IndInv, WrittenRecorded
<1>3. QED
  BY <1>1, <1>2 DEF WrittenRecorded

LEMMA OwedStep == IndInv /\ [Next]_vars => OwedAhead' /\ FlushedAll'
<1> SUFFICES ASSUME IndInv, [Next]_vars PROVE OwedAhead' /\ FlushedAll'
  OBVIOUS
<1> USE DEF IndInv
<1> DEFINE Ahead(id) == \/ WindowFull(id)
                        \/ id \in buf \union file
                        \/ \E i \in Slots : flushAt <= i /\ slots[i] = id
<1>1. SlotsKept /\ \A id \in Ids : WindowFull(id) => WindowFull(id)'
  BY SlotsOnlyFilled, TakenStaysTaken
<1>2. ASSUME UNCHANGED log, phase' \in {"flushing", "flushed"} => phase' = phase
      PROVE  OwedAhead' /\ FlushedAll'
  <2>1. ASSUME phase \in {"flushing", "flushed"}, NEW id \in owed, Ahead(id)
        PROVE  Ahead(id)'
    <3>1. id \in Ids /\ id # 0
      BY IdsPositive DEF TypeOK
    <3>2. QED
      BY <1>1, <1>2, <2>1, <3>1 DEF SlotsKept, log
  <2>2. QED
    BY <1>2, <2>1 DEF OwedAhead, FlushedAll, log, WindowFull, Slot
<1>3. ASSUME NEW t \in Threads, OpenLog(t) PROVE OwedAhead' /\ FlushedAll'
  <2>1. ASSUME NEW id \in owed' PROVE Ahead(id)'
    <3>1. id \in Recorded \/ WindowFull(id)
      BY <1>3, <2>1 DEF OpenLog, ReturnedRecorded
    <3>2. CASE id \in Recorded
      BY <1>3, <3>2, HitCapPositive DEF OpenLog, Recorded, Slots, table
    <3>3. CASE WindowFull(id)
      <4>1. id \in Ids
        BY <1>3, <2>1 DEF OpenLog, Recorded, TypeOK
      <4>2. QED
        BY <1>1, <3>3, <4>1
    <3>4. QED
      BY <3>1, <3>2, <3>3
  <2>2. QED
    BY <1>3, <2>1 DEF OpenLog, OwedAhead, FlushedAll
<1>4. ASSUME NEW t \in Threads, FlushSlot(t) PROVE OwedAhead' /\ FlushedAll'
  <2>1. slots' = slots /\ flushAt' = flushAt + 1 /\ owed' = owed /\ phase = "flushing"
    BY <1>4 DEF FlushSlot, table
  <2>2. ASSUME NEW id \in owed, NEW i \in Slots, flushAt <= i, slots[i] = id
        PROVE  id \in buf' \union file' \/ flushAt' <= i
    <3>1. id # 0
      BY IdsPositive DEF TypeOK
    <3>2. CASE i = flushAt
      BY <1>4, <2>2, <3>1, <3>2 DEF FlushSlot
    <3>3. CASE i # flushAt
      BY <2>1, <2>2, <3>3, HitCapPositive DEF Slots, TypeOK
    <3>4. QED
      BY <3>2, <3>3
  <2>3. \A id \in owed : Ahead(id) => Ahead(id)'
    BY <1>1, <1>4, <2>1, <2>2 DEF FlushSlot, TypeOK
  <2>4. QED
    BY <1>4, <2>1, <2>3 DEF FlushSlot, OwedAhead, FlushedAll
<1>5. ASSUME NEW t \in Threads, Spill(t) \/ CloseLog(t) PROVE OwedAhead' /\ FlushedAll'
  <2>1. /\ slots' = slots /\ flushAt' = flushAt /\ owed' = owed /\ phase = "flushing"
        /\ buf' \union file' = buf \union file
    BY <1>5 DEF Spill, CloseLog, table
  <2>2. \A id \in owed : Ahead(id) => Ahead(id)'
    BY <1>1, <2>1 DEF TypeOK
  <2>3. QED
    BY <1>5, <2>1, <2>2 DEF Spill, CloseLog, OwedAhead, FlushedAll
<1>6. QED
  BY <1>2, <1>3, <1>4, <1>5
  DEF Next, Step, MulationInit, UnloggedCall, BeginCall, Probe, Count, ExitUnlogged,
      End, Gone, vars

(***************************************************************************)
(* The theorems                                                            *)
(***************************************************************************)

\* Every reachable state satisfies the inductive invariant.
THEOREM Invariance == Spec => []IndInv
<1>1. IndInv /\ [Next]_vars => IndInv'
  <2>1. IndInv /\ [Next]_vars => TypeOK' /\ ArgInUse'
    BY TypeStep, ArgStep DEF IndInv
  <2>2. QED
    BY <2>1, TriedStep, FirstFreeStep, ReturnedStep, WrittenStep, OwedStep
    DEF IndInv
<1>2. QED
  BY InitIndInv, <1>1, PTL DEF Spec

\* The variables keep their types: every index record_hit and the handler
\* compute is inside the table (lines 29-31 and 51-52).
THEOREM TypeCorrect == Spec => []TypeOK
<1>1. IndInv => TypeOK
  BY DEF IndInv
<1>2. QED
  BY Invariance, <1>1, PTL

\* No thread ever changes a slot that holds an id (lines 30-40).
THEOREM WriteOnce == Spec => SlotsWriteOnce
<1>1. IndInv /\ [Next]_vars => [\A i \in Slots : slots[i] # 0 => slots'[i] = slots[i]]_vars
  BY SlotsOnlyFilled DEF IndInv, SlotsKept
<1>2. QED
  BY Invariance, <1>1, PTL DEF Spec, SlotsWriteOnce

\* An id takes one slot at most, however many threads race to record it
\* (lines 30-40): of two slots that hold it, the later in the window was
\* claimed after the earlier had been seen to hold another id.
THEOREM OneSlotPerId == Spec => []NoDuplicate
<1>1. IndInv => NoDuplicate
  <2> SUFFICES ASSUME IndInv, NEW i \in Slots, NEW j \in Slots,
                      slots[i] = slots[j], slots[i] # 0
               PROVE  i = j
    BY DEF NoDuplicate
  <2> DEFINE At(s, k) ==
        /\ Slot(slots[i], k) = s
        /\ \A l \in 0..Probes-1 : l < k => slots[Slot(slots[i], l)] \notin {0, slots[i]}
  <2>1. PICK k \in 0..Probes-1 : At(i, k)
    BY DEF IndInv, FirstFreeSlot
  <2>2. PICK l \in 0..Probes-1 : At(j, l)
    BY DEF IndInv, FirstFreeSlot
  <2>3. ~(k < l) /\ ~(l < k)
    BY <2>1, <2>2
  <2>4. k = l
    BY <2>3, ProbesPositive
  <2>5. QED
    BY <2>1, <2>2, <2>4
<1>2. QED
  BY Invariance, <1>1, PTL

\* Once the handler has closed the log, every id recorded before it opened
\* the log is in the file, unless the window of that id was full of other
\* ids (lines 25-58).
THEOREM LogComplete == Spec => []HitsReported
<1>1. IndInv => HitsReported
  <2> SUFFICES ASSUME IndInv, phase = "flushed", NEW id \in owed
               PROVE  id \in file \/ WindowFull(id)
    BY DEF HitsReported
  <2>1. flushAt = HitCap /\ buf = {}
    BY DEF IndInv, FlushedAll
  <2>2. \A i \in Slots : ~(flushAt <= i)
    BY <2>1, HitCapPositive DEF Slots
  <2>3. QED
    BY <2>1, <2>2 DEF IndInv, OwedAhead
<1>2. QED
  BY Invariance, <1>1, PTL

\* The table and the log file implement the grow-only set of sites of
\* CoverageLog: a claim records, the handler writes what was due and nothing
\* that was not recorded, and a process killed on the way leaves a part.
THEOREM Refinement == Spec => ImplementsCoverageLog
<1>1. Init => Promise!Init
  BY DEF Init, Promise!Init, Stage, Recorded
<1>2. IndInv /\ [Next]_vars => [Promise!Next]_Promise!vars
  <2> SUFFICES ASSUME IndInv, [Next]_vars PROVE [Promise!Next]_Promise!vars
    OBVIOUS
  <2> USE DEF Promise!Next, Promise!vars
  <2>1. \A id \in Ids : WindowFull(id) => id \notin Recorded
    <3>1. \A id \in Recorded : id \in Ids /\ ~WindowFull(id)
      BY DEF IndInv, TypeOK, Recorded, FirstFreeSlot, WindowFull
    <3>2. QED
      BY <3>1
  <2>2. ASSUME slots' # slots PROVE \E id \in Ids : Promise!Record(id)
    <3>1. PICK t \in Threads : pc[t] = "probe" /\ Claim(t) /\ UNCHANGED <<phase, arg, log>>
      BY <2>2, SlotsStep
    <3>2. arg[t] \in Ids /\ n[t] \in 0..Probes-1 /\ Target(t) \in Slots
      BY <3>1, SlotInTable, ProbesPositive DEF IndInv, ArgInUse, TypeOK, Target
    <3>3. Recorded' = Recorded \union {arg[t]}
      BY <3>1, <3>2, IdsPositive DEF Claim, Recorded, IndInv, TypeOK
    <3>4. ~WindowFull(arg[t])
      BY <3>1, <3>2 DEF Claim, Target, WindowFull
    <3>5. owed' \intersect Recorded' = owed \intersect Recorded
      BY <3>1, <3>3, <3>4 DEF IndInv, ReturnedRecorded, log
    <3>6. phase # "gone"
      BY <2>2 DEF Next, Step, MulationInit, UnloggedCall, BeginCall, Probe, Count, OpenLog,
             ExitUnlogged, FlushSlot, Spill, CloseLog, End, Gone, vars, table
    <3>7. Stage' = Stage /\ Stage # "cut"
      BY <3>1, <3>6 DEF Stage, IndInv, TypeOK, Phases
    <3>8. QED
      BY <3>1, <3>2, <3>3, <3>5, <3>7 DEF Promise!Record, log
  <2>3. ASSUME slots' = slots PROVE [Promise!Next]_Promise!vars
    <3> Recorded' = Recorded
      BY <2>3 DEF Recorded
    <3>1. ASSUME NEW t \in Threads, OpenLog(t) PROVE Promise!StartWriting
      BY <3>1 DEF OpenLog, Promise!StartWriting, Stage
    <3>2. ASSUME NEW t \in Threads, Spill(t) PROVE Promise!Append
      BY <3>2 DEF Spill, Promise!Append, Stage, IndInv, WrittenRecorded
    <3>3. ASSUME NEW t \in Threads, CloseLog(t) PROVE Promise!Close
      <4>1. \A i \in Slots : ~(flushAt <= i)
        BY <3>3, HitCapPositive DEF CloseLog, Slots
      <4>2. owed \intersect Recorded \subseteq buf \union file
        BY <2>1, <3>3, <4>1 DEF CloseLog, IndInv, OwedAhead, TypeOK
      <4>3. QED
        BY <3>3, <4>2 DEF CloseLog, Promise!Close, Stage, IndInv, WrittenRecorded
    <3>4. ASSUME End PROVE Promise!End
      BY <3>4 DEF End, log, Promise!End, Stage
    <3>5. ASSUME \/ MulationInit \/ Gone \/ UNCHANGED vars
                 \/ \E t \in Threads : \/ UnloggedCall(t) \/ BeginCall(t) \/ Probe(t)
                                     \/ Count(t) \/ ExitUnlogged(t) \/ FlushSlot(t)
          PROVE  UNCHANGED Promise!vars
      BY <3>5 DEF MulationInit, Gone, UnloggedCall, BeginCall, Probe, Count, ExitUnlogged,
             FlushSlot, vars, log, Stage
    <3>6. QED
      BY <3>1, <3>2, <3>3, <3>4, <3>5 DEF Next, Step
  <2>4. QED
    BY <2>2, <2>3
<1>3. QED
  BY <1>1, <1>2, Invariance, PTL DEF Spec, ImplementsCoverageLog, Promise!Spec

\* As long as no mutant has the id (unsigned)-1, which g_active holds when no
\* mutant is chosen, the only mutant that ever answers is the one the
\* environment asks for (lines 9, 61-65 and 74-77).
THEOREM OneMutantAtATime ==
  ASSUME UMax \notin Ids PROVE Spec => []OnlyTheAskedMutant
<1> DEFINE Inv == active \in {UMax, asked} /\ OnlyTheAskedMutant
<1>1. Init => Inv
  BY DEF Init, OnlyTheAskedMutant
<1>2. IndInv /\ Inv /\ [Next]_vars => Inv'
  <2> SUFFICES ASSUME IndInv, Inv, [Next]_vars PROVE Inv'
    OBVIOUS
  <2>1. ASSUME NEW id \in Ids, Answer(id), UNCHANGED <<asked, active>> PROVE Inv'
    BY <2>1 DEF Answer, OnlyTheAskedMutant
  <2>2. CASE MulationInit
    BY <2>2 DEF MulationInit, OnlyTheAskedMutant
  <2>3. ASSUME NEW t \in Threads, UnloggedCall(t) PROVE Inv'
    BY <2>1, <2>3 DEF UnloggedCall, config
  <2>4. ASSUME NEW t \in Threads, Probe(t) \/ Count(t) PROVE Inv'
    <3>1. arg[t] \in Ids /\ UNCHANGED <<asked, active>>
      BY <2>4 DEF Probe, Count, IndInv, ArgInUse, config
    <3>2. Answer(arg[t]) \/ on' = on
      BY <2>4 DEF Probe, Count, Claim, AlreadyThere, Occupied, Return
    <3>3. QED
      BY <2>1, <3>1, <3>2 DEF OnlyTheAskedMutant
  <2>5. CASE UNCHANGED <<asked, active, on>>
    BY <2>5 DEF OnlyTheAskedMutant
  <2>6. QED
    BY <2>2, <2>3, <2>4, <2>5
    DEF Next, Step, BeginCall, OpenLog, ExitUnlogged, FlushSlot, Spill, CloseLog, End, Gone,
        vars, config
<1>3. QED
  BY <1>1, <1>2, Invariance, PTL DEF Spec
=============================================================================
