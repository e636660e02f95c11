--------------------------- MODULE CampaignProofs ---------------------------
(***************************************************************************)
(* Proofs about the campaign, for any number of mutants and workers.       *)
(***************************************************************************)
EXTENDS Campaign, FiniteSetTheorems, TLAPS

\* The list is indexed from 1 to its size.
LEMMA SizeOfList ==
  ASSUME TypeOK
  PROVE  Size \in 0..N /\ DOMAIN todo = 1..Size /\ DOMAIN outcomes = 1..Size
<1>1. PICK k \in 0..N : todo \in [1..k -> Mutants] /\ outcomes \in [1..k -> Classes]
  BY DEF TypeOK, ListsOK
<1>2. DOMAIN todo = 1..k /\ DOMAIN outcomes = 1..k /\ k \in Nat
  BY <1>1, NIsNat
<1>3. Cardinality(1..k) = k
  BY <1>2, FS_Interval
<1>4. QED
  BY <1>1, <1>2, <1>3 DEF Size

LEMMA ListTypes ==
  ASSUME TypeOK, NEW i \in DOMAIN todo
  PROVE  i \in Nat /\ todo[i] \in Mutants /\ outcomes[i] \in Classes
<1>1. PICK k \in 0..N : todo \in [1..k -> Mutants] /\ outcomes \in [1..k -> Classes]
  BY DEF TypeOK, ListsOK
<1>2. QED
  BY <1>1, NIsNat

\* A list with a place for each member of a set of mutants has at most N.
LEMMA ListFits ==
  ASSUME NEW S \in SUBSET Mutants PROVE Cardinality(S) \in 0..N
<1>1. IsFiniteSet(Mutants) /\ Cardinality(Mutants) = N
  BY NIsNat, FS_Interval DEF Mutants
<1>2. IsFiniteSet(S) /\ Cardinality(S) <= N
  BY <1>1, FS_Subset
<1>3. QED
  BY <1>2, NIsNat, FS_CardinalityType

LEMMA InitIndInv == Init => IndInv
<1> SUFFICES ASSUME Init PROVE IndInv
  OBVIOUS
<1>1. DOMAIN todo = {} /\ DOMAIN outcomes = {}
  BY DEF Init
<1>2. TypeOK
  <2>1. 0 \in 0..N /\ 0 \in 0..MaxJobs
    BY NIsNat, MaxJobsPositive
  <2>2. ListsOK
    <3>1. todo \in [1..0 -> Mutants] /\ outcomes \in [1..0 -> Classes]
      BY DEF Init
    <3>2. QED
      BY <2>1, <3>1 DEF ListsOK
  <2>3. /\ wpc \in [Workers -> {"off", "fetch", "run", "store", "done"}]
        /\ wi \in [Workers -> Nat] /\ wr \in [Workers -> Statuses]
        /\ ran \in [Mutants -> Ends] /\ runs \in [Mutants -> Nat]
    BY DEF Init, Statuses, Ends
  <2>4. opt \in [minSet : BOOLEAN, min : MinScores, noCoverage : BOOLEAN,
                jobs : Workers, gitDiff : BOOLEAN]
    BY DEF Init
  <2>5. /\ phase \in Phases
        /\ selected \subseteq Mutants /\ covered \subseteq Mutants /\ uncovered \subseteq Mutants
        /\ next \in Nat \ {0} /\ started \in 0..MaxJobs
    BY <2>1 DEF Init, Phases
  <2>6. tmp \in BOOLEAN /\ green \in BOOLEAN /\ report = NoReport /\ exit = Running
    BY DEF Init
  <2>7. QED
    BY <2>2, <2>3, <2>4, <2>5, <2>6 DEF TypeOK
<1>3. PlanMade /\ Held /\ OneHolder /\ RanIffStored /\ OthersNotRun /\ PoolShape
  BY <1>1 DEF Init, PlanMade, Held, OneHolder, RanIffStored, OthersNotRun, PoolShape, Busy,
              Workers
<1>4. QED
  BY <1>2, <1>3 DEF IndInv

\* A worker in the pool: what it fetches, runs and stores is well typed.
LEMMA WorkTypes ==
  ASSUME IndInv, NEW w \in Workers, Work(w)
  PROVE  TypeOK'
<1> USE DEF IndInv, TypeOK
<1>1. CASE Fetch(w)
  <2>1. next + 1 \in Nat \ {0}
    OBVIOUS
  <2>2. wi' \in [Workers -> Nat] /\ wpc' \in [Workers -> {"off", "fetch", "run", "store", "done"}]
    BY <1>1 DEF Fetch
  <2>3. QED
    BY <1>1, <2>1, <2>2 DEF Work, Fetch, plan, ListsOK
<1>2. CASE RunSuite(w)
  <2>1. todo[wi[w]] \in Mutants
    BY <1>2, ListTypes DEF RunSuite, Held, Busy
  <2>2. ran' \in [Mutants -> Ends] /\ wr' \in [Workers -> Statuses]
    BY <1>2, <2>1 DEF RunSuite, StatusOf, Ends, Statuses
  <2>3. runs' \in [Mutants -> Nat]
    BY <1>2, <2>1 DEF RunSuite
  <2>4. QED
    BY <1>2, <2>2, <2>3 DEF Work, RunSuite, plan, ListsOK
<1>3. CASE Store(w)
  <2>1. wr[w] \in Statuses \ {"none"}
    <3>1. wi[w] \in DOMAIN todo /\ wpc[w] = "store"
      BY <1>3 DEF Store, Held, Busy
    <3>2. ran[todo[wi[w]]] \in Ends \ {"not_run"} /\ wr[w] = StatusOf(ran[todo[wi[w]]])
      BY <3>1, ListTypes DEF RanIffStored
    <3>3. QED
      BY <3>2 DEF StatusOf, Ends, Statuses
  <2>2. ClassOf(wr[w]) \in Classes
    BY <2>1 DEF ClassOf, Statuses, Classes
  <2>3. PICK k \in 0..N : todo \in [1..k -> Mutants] /\ outcomes \in [1..k -> Classes]
    BY DEF ListsOK
  <2>4. outcomes' \in [1..k -> Classes]
    BY <1>3, <2>2, <2>3 DEF Store
  <2>5. ListsOK'
    BY <1>3, <2>3, <2>4 DEF Work, Store, plan, ListsOK
  <2>6. QED
    BY <1>3, <2>5 DEF Work, Store, plan
<1>4. QED
  BY <1>1, <1>2, <1>3 DEF Work

\* A worker takes the next position, or ends.
LEMMA FetchStep ==
  ASSUME IndInv, NEW w \in Workers, phase = "pool", Fetch(w), UNCHANGED <<phase, plan>>
  PROVE  Held' /\ OneHolder' /\ RanIffStored' /\ PoolShape'
<1> USE DEF IndInv, plan
<1>1. /\ wpc[w] = "fetch" /\ wi' = [wi EXCEPT ![w] = next] /\ next' = next + 1
      /\ wpc' = [wpc EXCEPT ![w] = IF next > Size THEN "done" ELSE "run"]
      /\ UNCHANGED <<todo, outcomes, started, wr, ran, runs>>
  BY DEF Fetch
<1>2. next \in Nat \ {0} /\ Size \in Nat /\ DOMAIN todo = 1..Size
  BY SizeOfList, NIsNat DEF TypeOK
<1>3. wpc'[w] = IF next > Size THEN "done" ELSE "run"
  BY <1>1 DEF TypeOK
<1>4. wi'[w] = next
  BY <1>1 DEF TypeOK
<1>5. \A v \in Workers : v # w => wpc'[v] = wpc[v] /\ wi'[v] = wi[v]
  BY <1>1 DEF TypeOK
<1>6. Busy(w)' <=> next \in DOMAIN todo
  BY <1>2, <1>3 DEF Busy
<1>7. \A v \in Workers : v # w => (Busy(v)' <=> Busy(v))
  BY <1>5 DEF Busy
<1>8. \A v \in Workers : Busy(v) => v # w /\ wi[v] \in DOMAIN todo /\ wi[v] < next
  BY <1>1 DEF Busy, Held
<1>9. Held'
  BY <1>1, <1>2, <1>4, <1>5, <1>6, <1>7, <1>8 DEF Held
<1>10. OneHolder'
  BY <1>2, <1>4, <1>5, <1>7, <1>8 DEF OneHolder
<1>11. RanIffStored'
  <2> SUFFICES ASSUME NEW i \in DOMAIN todo
        PROVE
          /\ outcomes[i] # "none" =>
               /\ i < next'
               /\ ran[todo[i]] # "not_run" /\ outcomes[i] = ClassOf(StatusOf(ran[todo[i]]))
               /\ \A v \in Workers : Busy(v)' => wi'[v] # i
          /\ outcomes[i] = "none" /\ i < next' => \E v \in Workers : Busy(v)' /\ wi'[v] = i
          /\ runs[todo[i]] = IF ran[todo[i]] = "not_run" THEN 0 ELSE 1
          /\ ran[todo[i]] # "not_run" /\ outcomes[i] = "none" =>
               \E v \in Workers : wpc'[v] = "store" /\ wi'[v] = i
          /\ \A v \in Workers : wpc'[v] = "run" /\ wi'[v] = i => ran[todo[i]] = "not_run"
          /\ \A v \in Workers : wpc'[v] = "store" /\ wi'[v] = i =>
               ran[todo[i]] # "not_run" /\ wr[v] = StatusOf(ran[todo[i]])
    BY <1>1 DEF RanIffStored, Busy
  <2>1. i \in Nat
    BY <1>2
  <2>2. outcomes[i] # "none" => i < next' /\ \A v \in Workers : Busy(v)' => wi'[v] # i
    BY <1>1, <1>2, <1>4, <1>5, <1>7, <2>1 DEF RanIffStored
  <2>3. outcomes[i] = "none" /\ i < next' => \E v \in Workers : Busy(v)' /\ wi'[v] = i
    <3>1. CASE i = next
      BY <1>4, <1>6, <3>1
    <3>2. CASE i # next
      BY <1>1, <1>2, <1>5, <1>7, <1>8, <2>1, <3>2 DEF RanIffStored
    <3>3. QED
      BY <3>1, <3>2
  <2>4. ran[todo[i]] # "not_run" /\ outcomes[i] = "none" =>
          \E v \in Workers : wpc'[v] = "store" /\ wi'[v] = i
    <3>1. \A v \in Workers : wpc[v] = "store" => v # w
      BY <1>1
    <3>2. QED
      BY <1>5, <3>1 DEF RanIffStored
  <2>5. ASSUME NEW v \in Workers, wpc'[v] = "run", wi'[v] = i
        PROVE  ran[todo[i]] = "not_run"
    <3>1. CASE v # w
      BY <1>5, <2>5, <3>1 DEF RanIffStored
    <3>2. CASE v = w
      <4>1. i = next
        BY <1>4, <2>5, <3>2
      <4>2. \A u \in Workers : Busy(u) => wi[u] # i
        BY <1>8, <2>1, <4>1
      <4>3. QED
        BY <2>1, <4>1, <4>2 DEF RanIffStored, Busy
    <3>3. QED
      BY <3>1, <3>2
  <2>6. ASSUME NEW v \in Workers, wpc'[v] = "store", wi'[v] = i
        PROVE  ran[todo[i]] # "not_run" /\ wr[v] = StatusOf(ran[todo[i]])
    BY <1>3, <1>5, <2>6 DEF RanIffStored
  <2>7. QED
    BY <2>2, <2>3, <2>4, <2>5, <2>6 DEF RanIffStored
<1>12. PoolShape'
  BY <1>1, <1>2, <1>3, <1>5 DEF PoolShape, Size
<1>13. QED
  BY <1>9, <1>10, <1>11, <1>12

\* A worker runs the suite under the mutant at its position.
LEMMA RunStep ==
  ASSUME IndInv, NEW w \in Workers, phase = "pool", RunSuite(w), UNCHANGED <<phase, plan>>
  PROVE  Held' /\ OneHolder' /\ RanIffStored' /\ OthersNotRun' /\ PoolShape'
<1> USE DEF IndInv, plan
<1>1. PICK end \in Ends \ {"not_run"} :
        /\ ran' = [ran EXCEPT ![todo[wi[w]]] = end]
        /\ wr' = [wr EXCEPT ![w] = StatusOf(end)]
  BY DEF RunSuite
<1>2. /\ wpc[w] = "run" /\ wpc' = [wpc EXCEPT ![w] = "store"]
      /\ runs' = [runs EXCEPT ![todo[wi[w]]] = @ + 1]
      /\ UNCHANGED <<todo, next, outcomes, started, wi>>
  BY DEF RunSuite
<1>3. \A v \in Workers : Busy(v)' <=> Busy(v)
  BY <1>2 DEF Busy, TypeOK
<1>4. wi[w] \in DOMAIN todo /\ todo[wi[w]] \in Mutants /\ Busy(w)
  BY <1>2, ListTypes DEF Held, Busy
<1>5. Held' /\ OneHolder'
  BY <1>2, <1>3 DEF Held, OneHolder
<1>6. PoolShape'
  BY <1>2 DEF PoolShape, Size, TypeOK
<1>7. OthersNotRun'
  BY <1>1, <1>2, <1>4 DEF OthersNotRun, TypeOK
<1>8. RanIffStored'
  <2> SUFFICES ASSUME NEW i \in DOMAIN todo
        PROVE
          /\ outcomes[i] # "none" =>
               /\ i < next
               /\ ran'[todo[i]] # "not_run" /\ outcomes[i] = ClassOf(StatusOf(ran'[todo[i]]))
               /\ \A v \in Workers : Busy(v)' => wi[v] # i
          /\ outcomes[i] = "none" /\ i < next => \E v \in Workers : Busy(v)' /\ wi[v] = i
          /\ runs'[todo[i]] = IF ran'[todo[i]] = "not_run" THEN 0 ELSE 1
          /\ ran'[todo[i]] # "not_run" /\ outcomes[i] = "none" =>
               \E v \in Workers : wpc'[v] = "store" /\ wi[v] = i
          /\ \A v \in Workers : wpc'[v] = "run" /\ wi[v] = i => ran'[todo[i]] = "not_run"
          /\ \A v \in Workers : wpc'[v] = "store" /\ wi[v] = i =>
               ran'[todo[i]] # "not_run" /\ wr'[v] = StatusOf(ran'[todo[i]])
    BY <1>2 DEF RanIffStored, Busy
  <2>1. CASE i # wi[w]
    <3>1. todo[i] # todo[wi[w]] /\ todo[i] \in Mutants
      BY <1>4, <2>1, ListTypes DEF PlanMade
    <3>2. ran'[todo[i]] = ran[todo[i]] /\ runs'[todo[i]] = runs[todo[i]]
      BY <1>1, <1>2, <3>1 DEF TypeOK
    <3>3. \A v \in Workers : wi[v] = i => wpc'[v] = wpc[v] /\ wr'[v] = wr[v]
      BY <1>1, <1>2, <2>1 DEF TypeOK
    <3>4. QED
      BY <1>3, <3>2, <3>3 DEF RanIffStored
  <2>2. CASE i = wi[w]
    <3>1. outcomes[i] = "none" /\ ran[todo[i]] = "not_run" /\ runs[todo[i]] = 0
      BY <1>2, <1>4, <2>2 DEF RanIffStored
    <3>2. ran'[todo[i]] = end /\ runs'[todo[i]] = 1 /\ end # "not_run"
      BY <1>1, <1>2, <1>4, <2>2, <3>1 DEF TypeOK
    <3>3. wpc'[w] = "store" /\ wr'[w] = StatusOf(end)
      BY <1>1, <1>2 DEF TypeOK
    <3>4. \A v \in Workers : Busy(v)' /\ wi[v] = i => v = w
      BY <1>3, <1>4, <2>2 DEF OneHolder
    <3>5. \A v \in Workers : wpc'[v] \in {"run", "store"} => Busy(v)'
      BY DEF Busy
    <3>6. QED
      BY <1>3, <1>4, <2>2, <3>1, <3>2, <3>3, <3>4, <3>5
  <2>3. QED
    BY <2>1, <2>2
<1>9. QED
  BY <1>5, <1>6, <1>7, <1>8

\* A worker stores the class of its run at its position.
LEMMA StoreStep ==
  ASSUME IndInv, NEW w \in Workers, phase = "pool", Store(w), UNCHANGED <<phase, plan>>
  PROVE  /\ Held' /\ OneHolder' /\ RanIffStored' /\ PoolShape'
         /\ DOMAIN outcomes' = DOMAIN outcomes
         /\ outcomes[wi[w]] = "none" /\ outcomes'[wi[w]] \in Classes \ {"none"}
         /\ \A i \in DOMAIN todo : i # wi[w] => outcomes'[i] = outcomes[i]
<1> USE DEF IndInv, plan
<1>1. /\ wpc[w] = "store" /\ wpc' = [wpc EXCEPT ![w] = "fetch"]
      /\ outcomes' = [outcomes EXCEPT ![wi[w]] = ClassOf(wr[w])]
      /\ UNCHANGED <<todo, next, started, wi, wr, ran, runs>>
  BY DEF Store
<1>2. wi[w] \in DOMAIN todo /\ wi[w] < next /\ Busy(w) /\ DOMAIN outcomes = DOMAIN todo
  BY <1>1 DEF Held, Busy, PlanMade
<1>3. \A v \in Workers : wpc'[v] = IF v = w THEN "fetch" ELSE wpc[v]
  BY <1>1 DEF TypeOK
<1>4. \A v \in Workers : Busy(v)' <=> Busy(v) /\ v # w
  BY <1>3 DEF Busy
<1>5. Held' /\ OneHolder'
  BY <1>1, <1>4 DEF Held, OneHolder
<1>6. PoolShape'
  BY <1>1, <1>3 DEF PoolShape, Size
<1>7. /\ DOMAIN outcomes' = DOMAIN outcomes
      /\ outcomes'[wi[w]] = ClassOf(wr[w])
      /\ \A i \in DOMAIN todo : i # wi[w] => outcomes'[i] = outcomes[i]
  BY <1>1, <1>2
<1>8. outcomes[wi[w]] = "none"
  BY <1>1, <1>2 DEF RanIffStored
<1>9. ran[todo[wi[w]]] \in Ends \ {"not_run"} /\ wr[w] = StatusOf(ran[todo[wi[w]]])
  <2>1. todo[wi[w]] \in Mutants
    BY <1>2, ListTypes
  <2>2. QED
    BY <1>1, <1>2, <2>1 DEF RanIffStored, TypeOK
<1>10. ClassOf(wr[w]) \in Classes \ {"none"}
  BY <1>9 DEF StatusOf, Ends, ClassOf, Classes
<1>11. RanIffStored'
  <2> SUFFICES ASSUME NEW i \in DOMAIN todo
        PROVE
          /\ outcomes'[i] # "none" =>
               /\ i < next
               /\ ran[todo[i]] # "not_run" /\ outcomes'[i] = ClassOf(StatusOf(ran[todo[i]]))
               /\ \A v \in Workers : Busy(v)' => wi[v] # i
          /\ outcomes'[i] = "none" /\ i < next => \E v \in Workers : Busy(v)' /\ wi[v] = i
          /\ runs[todo[i]] = IF ran[todo[i]] = "not_run" THEN 0 ELSE 1
          /\ ran[todo[i]] # "not_run" /\ outcomes'[i] = "none" =>
               \E v \in Workers : wpc'[v] = "store" /\ wi[v] = i
          /\ \A v \in Workers : wpc'[v] = "run" /\ wi[v] = i => ran[todo[i]] = "not_run"
          /\ \A v \in Workers : wpc'[v] = "store" /\ wi[v] = i =>
               ran[todo[i]] # "not_run" /\ wr[v] = StatusOf(ran[todo[i]])
    BY <1>1 DEF RanIffStored, Busy
  <2>1. CASE i # wi[w]
    <3>1. \A v \in Workers : wi[v] = i => wpc'[v] = wpc[v] /\ (Busy(v)' <=> Busy(v))
      BY <1>3, <1>4, <2>1
    <3>2. QED
      BY <1>7, <2>1, <3>1 DEF RanIffStored
  <2>2. CASE i = wi[w]
    <3>1. \A v \in Workers : Busy(v)' => wi[v] # i
      BY <1>2, <1>4, <2>2 DEF OneHolder
    <3>2. \A v \in Workers : wpc'[v] \in {"run", "store"} => Busy(v)'
      BY DEF Busy
    <3>3. QED
      BY <1>2, <1>7, <1>9, <1>10, <2>2, <3>1, <3>2 DEF RanIffStored
  <2>3. QED
    BY <2>1, <2>2
<1>12. QED
  BY <1>5, <1>6, <1>7, <1>8, <1>10, <1>11

\* Main draws up the list, in catalogue order, before any worker exists.
LEMMA PartitionStep == ASSUME IndInv, Partition PROVE IndInv'
<1> USE DEF IndInv
<1>1. PICK order \in [1..Cardinality(ToRun) -> ToRun] :
        /\ \A i, j \in DOMAIN order : i < j => order[i] < order[j]
        /\ \A m \in ToRun : \E i \in DOMAIN order : order[i] = m
        /\ todo' = order
        /\ outcomes' = [i \in DOMAIN order |-> "none"]
  BY DEF Partition
<1>2. /\ phase = "partition" /\ phase' = "pool" /\ uncovered' = selected \ ToRun
      /\ UNCHANGED <<opt, selected, covered, tmp, green, next, started, wpc, wi, wr,
                     ran, runs, report, exit>>
  BY DEF Partition
<1>3. started = 0 /\ next = 1 /\ todo = <<>> /\ DOMAIN todo = {}
  BY <1>2 DEF PoolShape
<1>4. ToRun \subseteq selected /\ ToRun \subseteq Mutants /\ Cardinality(ToRun) \in 0..N
  BY ListFits DEF ToRun, TypeOK
<1>5. DOMAIN order = 1..Cardinality(ToRun) /\ \A i \in DOMAIN order : order[i] \in ToRun
  BY <1>4
<1>6. ListsOK'
  <2>1. todo' \in [1..Cardinality(ToRun) -> Mutants]
    BY <1>1, <1>4, <1>5
  <2>2. outcomes' \in [1..Cardinality(ToRun) -> Classes]
    BY <1>1, <1>5 DEF Classes
  <2>3. QED
    BY <1>4, <2>1, <2>2 DEF ListsOK
<1>7. TypeOK'
  BY <1>2, <1>6 DEF TypeOK, Phases
<1>8. PlanMade'
  <2>1. \A i, j \in DOMAIN order : order[i] = order[j] => i = j
    <3> SUFFICES ASSUME NEW i \in DOMAIN order, NEW j \in DOMAIN order, order[i] = order[j]
                 PROVE  i = j
      OBVIOUS
    <3>1. i \in Nat /\ j \in Nat /\ order[i] \in Nat /\ order[j] \in Nat
      <4>1. \A m \in ToRun : m \in Nat
        BY <1>4, NIsNat DEF Mutants
      <4>2. \A l \in 1..Cardinality(ToRun) : l \in Nat
        BY <1>4, NIsNat
      <4>3. QED
        BY <1>5, <4>1, <4>2
    <3>2. ~(i < j) /\ ~(j < i)
      BY <1>1, <3>1
    <3>3. QED
      BY <3>1, <3>2
  <2>2. {order[i] : i \in DOMAIN order} = selected \ (selected \ ToRun)
    BY <1>1, <1>4, <1>5
  <2>3. DOMAIN outcomes' = DOMAIN order
    BY <1>1
  <2>4. QED
    BY <1>1, <1>2, <2>1, <2>2, <2>3 DEF PlanMade
<1>9. \A w \in Workers : wpc[w] = "off" /\ wpc'[w] = "off"
  BY <1>2, <1>3 DEF PoolShape, Workers
<1>10. \A m \in Mutants : ran[m] = "not_run" /\ runs[m] = 0
  BY <1>3 DEF OthersNotRun
<1>11. Held' /\ OneHolder' /\ OthersNotRun'
  BY <1>2, <1>9, <1>10 DEF Held, OneHolder, OthersNotRun, Busy
<1>12. \A i \in DOMAIN todo' : outcomes'[i] = "none" /\ todo'[i] \in Mutants /\ ~(i < next')
  BY <1>1, <1>2, <1>3, <1>4, <1>5
<1>13. RanIffStored'
  BY <1>2, <1>9, <1>10, <1>12 DEF RanIffStored, Busy
<1>14. PoolShape'
  BY <1>2, <1>9 DEF PoolShape
<1>15. QED
  BY <1>7, <1>8, <1>11, <1>13, <1>14

LEMMA UsedWorkers == ASSUME TypeOK PROVE Used \in 1..MaxJobs
<1>1. Size \in Nat
  BY SizeOfList, NIsNat
<1>2. opt.jobs \in 1..MaxJobs
  BY DEF TypeOK, Workers
<1>3. QED
  BY <1>1, <1>2, MaxJobsPositive DEF Used

LEMMA StartWorkerStep == ASSUME IndInv, StartWorker PROVE IndInv'
<1> USE DEF IndInv
<1>1. started \in Nat /\ started + 1 \in Workers
  BY UsedWorkers, MaxJobsPositive DEF StartWorker, TypeOK, Workers
<1>2. wpc[started + 1] = "off"
  BY <1>1 DEF PoolShape
<1>3. /\ phase = "pool" /\ started' = started + 1
      /\ wpc' = [wpc EXCEPT ![started + 1] = "fetch"]
      /\ UNCHANGED <<phase, plan, next, outcomes, wi, wr, ran, runs, report, exit>>
  BY DEF StartWorker
<1>4. \A w \in Workers : wpc'[w] = IF w = started + 1 THEN "fetch" ELSE wpc[w]
  BY <1>1, <1>3 DEF TypeOK
<1>5. \A w \in Workers : Busy(w)' <=> Busy(w)
  BY <1>2, <1>4 DEF Busy
<1>6. TypeOK'
  <2>1. started' \in 0..MaxJobs
    BY <1>1, <1>3 DEF Workers
  <2>2. wpc' \in [Workers -> {"off", "fetch", "run", "store", "done"}]
    BY <1>3 DEF TypeOK
  <2>3. QED
    BY <1>3, <2>1, <2>2 DEF TypeOK, ListsOK, plan
<1>7. PlanMade' /\ OthersNotRun'
  BY <1>3 DEF PlanMade, OthersNotRun, plan
<1>8. Held' /\ OneHolder'
  BY <1>3, <1>5 DEF Held, OneHolder, plan
<1>9. RanIffStored'
  <2>1. ASSUME NEW w \in Workers
        PROVE  (wpc'[w] = "run" <=> wpc[w] = "run") /\ (wpc'[w] = "store" <=> wpc[w] = "store")
    BY <1>2, <1>4
  <2>2. /\ UNCHANGED <<todo, next, outcomes, wi, wr, ran, runs>>
        /\ RanIffStored
    BY <1>3 DEF plan
  <2>3. QED
    BY <1>5, <2>1, <2>2 DEF RanIffStored
<1>10. PoolShape'
  <2>1. \A w \in Workers : w > started' => w > started /\ w # started + 1
    BY <1>1, <1>3 DEF Workers
  <2>2. QED
    BY <1>3, <1>4, <2>1 DEF PoolShape, Size, plan
<1>11. QED
  BY <1>6, <1>7, <1>8, <1>9, <1>10

\* The steps that leave the list and the pool alone.
LEMMA MainStep ==
  ASSUME IndInv, UNCHANGED <<pool, todo, uncovered>>, TypeOK', PlanMade', PoolShape'
  PROVE  IndInv'
BY DEF IndInv, pool, Held, OneHolder, RanIffStored, OthersNotRun, Busy

LEMMA EarlyStep ==
  ASSUME IndInv, \/ NothingFound \/ SelectMutants \/ EmptyDiff \/ RedBaseline \/ GreenBaseline
                 \/ MkTemp \/ GreenCoverage \/ RedCoverage \/ LoadHitlog
  PROVE  IndInv' /\ UNCHANGED <<pool, todo, uncovered>>
<1> USE DEF NothingFound, SelectMutants, EmptyDiff, RedBaseline, GreenBaseline,
            MkTemp, GreenCoverage, RedCoverage, LoadHitlog, Exit
<1>1. UNCHANGED <<pool, todo, uncovered>>
  BY DEF plan
<1>2. /\ phase \in {"select", "baseline", "mkstemp", "coverage", "load"}
      /\ phase' \in Phases \ {"select", "pool", "tally", "gate"}
  BY DEF Phases
<1>3. ListsOK'
  BY <1>1 DEF IndInv, TypeOK, ListsOK, pool
<1>4. /\ opt' = opt /\ selected' \subseteq Mutants
      /\ covered' \subseteq Mutants \union {Unlisted}
  BY DEF plan, IndInv, TypeOK
<1>5. tmp' \in BOOLEAN /\ green' \in BOOLEAN
  BY DEF plan, IndInv, TypeOK
<1>6. exit' \in {Running, 0, 1, 2, Aborted}
  BY DEF IndInv, TypeOK
<1>7. \/ report' = NoReport
      \/ report' \in [killed : Int, survived : Nat, timeout : Nat, survivors : SUBSET Mutants]
  BY DEF IndInv, TypeOK
<1>8. TypeOK'
  BY <1>1, <1>2, <1>3, <1>4, <1>5, <1>6, <1>7 DEF IndInv, TypeOK, pool
<1>9. uncovered = {} /\ todo = <<>> /\ outcomes = <<>> /\ started = 0 /\ next = 1
  BY <1>2 DEF IndInv, PoolShape
<1>10. PlanMade'
  BY <1>1, <1>2, <1>9 DEF IndInv, PlanMade, pool
<1>11. PoolShape'
  BY <1>1, <1>2, <1>9 DEF IndInv, PoolShape, Size, pool
<1>12. QED
  BY <1>1, <1>8, <1>10, <1>11, MainStep

LEMMA FiniteParts ==
  ASSUME TypeOK
  PROVE  /\ \A S \in SUBSET Mutants : IsFiniteSet(S) /\ Cardinality(S) \in Nat
         /\ \A I \in SUBSET (DOMAIN todo) : IsFiniteSet(I) /\ Cardinality(I) \in Nat
<1>1. IsFiniteSet(Mutants) /\ IsFiniteSet(DOMAIN todo)
  BY SizeOfList, NIsNat, FS_Interval DEF Mutants
<1>2. QED
  BY <1>1, FS_Subset, FS_CardinalityType

LEMMA TallyType ==
  ASSUME IndInv, Tally
  PROVE  report' \in [killed : Int, survived : Nat, timeout : Nat, survivors : SUBSET Mutants]
<1> USE DEF IndInv
<1>1. \A c \in Classes : At(c) \subseteq DOMAIN todo
  BY DEF At, PlanMade
<1>2. /\ Cardinality(At("killed") \union At("timeout")) \in Nat
      /\ Cardinality(At("timeout")) \in Nat
      /\ Cardinality(At("survived")) \in Nat
      /\ Cardinality(uncovered) \in Nat
  BY <1>1, FiniteParts DEF Classes, TypeOK
<1>3. {todo[i] : i \in At("survived")} \union uncovered \in SUBSET Mutants
  BY <1>1, ListTypes DEF Classes, TypeOK
<1>4. KilledScored \in Int /\ Cardinality(At("survived")) + Cardinality(uncovered) \in Nat
  BY <1>2 DEF KilledScored, Killed
<1>5. QED
  BY <1>2, <1>3, <1>4 DEF Tally

LEMMA LateStep ==
  ASSUME IndInv, ThreadFails \/ Join \/ Tally \/ Gate \/ UNCHANGED vars
  PROVE  IndInv' /\ UNCHANGED <<pool, plan>>
<1> USE DEF ThreadFails, Join, Tally, Gate, Exit, vars
<1>1. UNCHANGED <<pool, plan>>
  OBVIOUS
<1>2. phase' \in {"tally", "gate", "end", phase}
  OBVIOUS
<1>3. exit' \in {Running, 0, 1, 2, Aborted}
  BY DEF IndInv, TypeOK
<1>4. \/ report' = NoReport
      \/ report' \in [killed : Int, survived : Nat, timeout : Nat, survivors : SUBSET Mutants]
  <2>1. CASE Tally
    BY <2>1, TallyType
  <2>2. CASE ~Tally
    <3>1. report' = report
      BY <2>2
    <3>2. QED
      BY <3>1 DEF IndInv, TypeOK
  <2>3. QED
    BY <2>1, <2>2
<1>5. ListsOK' /\ phase' \in Phases
  BY <1>1, <1>2 DEF pool, plan, IndInv, TypeOK, ListsOK, Phases
<1>6. TypeOK'
  BY <1>1, <1>3, <1>4, <1>5 DEF pool, plan, IndInv, TypeOK
<1>7. phase' \in {"tally", "gate", "pool"} => phase \in {"tally", "gate", "pool"}
  OBVIOUS
<1>8. PlanMade'
  BY <1>1, <1>7 DEF IndInv, PlanMade, pool, plan
<1>9. PoolShape'
  <2>1. CASE Join
    <3>1. started > 0
      BY <2>1, UsedWorkers, MaxJobsPositive DEF IndInv
    <3>2. QED
      BY <1>1, <2>1, <3>1 DEF IndInv, PoolShape, Size, pool, plan
  <2>2. CASE ~Join
    <3>1. phase' \in {"tally", "gate"} => phase \in {"tally", "gate"}
      BY <2>2
    <3>2. phase' \notin {"pool", "tally", "gate", "end"} => phase' = phase
      BY <1>2
    <3>3. phase' = "select" => phase = "select"
      BY <1>2
    <3>4. QED
      BY <1>1, <3>1, <3>2, <3>3 DEF IndInv, PoolShape, Size, pool, plan
  <2>3. QED
    BY <2>1, <2>2
<1>10. QED
  BY <1>1, <1>6, <1>8, <1>9, MainStep DEF plan

LEMMA WorkStep == ASSUME IndInv, NEW w \in Workers, Work(w) PROVE IndInv'
<1>1. phase = "pool" /\ UNCHANGED <<phase, plan, report, exit>>
  BY DEF Work
<1>2. TypeOK'
  BY WorkTypes
<1>3. CASE Fetch(w)
  <2>1. PlanMade' /\ OthersNotRun'
    BY <1>1, <1>3 DEF IndInv, Fetch, PlanMade, OthersNotRun, plan
  <2>2. QED
    BY <1>1, <1>2, <1>3, <2>1, FetchStep DEF IndInv
<1>4. CASE RunSuite(w)
  <2>1. PlanMade'
    BY <1>1, <1>4 DEF IndInv, RunSuite, PlanMade, plan
  <2>2. QED
    BY <1>1, <1>2, <1>4, <2>1, RunStep DEF IndInv
<1>5. CASE Store(w)
  <2>1. PlanMade' /\ OthersNotRun'
    BY <1>1, <1>5 DEF IndInv, Store, PlanMade, OthersNotRun, plan
  <2>2. QED
    BY <1>1, <1>2, <1>5, <2>1, StoreStep DEF IndInv
<1>6. QED
  BY <1>3, <1>4, <1>5 DEF Work

(***************************************************************************)
(* The theorems                                                            *)
(***************************************************************************)

\* Every reachable state satisfies the inductive invariant.
THEOREM Invariance == Spec => []IndInv
<1>1. IndInv /\ [Next]_vars => IndInv'
  <2> SUFFICES ASSUME IndInv, [Next]_vars PROVE IndInv'
    OBVIOUS
  <2>1. CASE Partition
    BY <2>1, PartitionStep
  <2>2. CASE StartWorker
    BY <2>2, StartWorkerStep
  <2>3. CASE \E w \in Workers : Work(w)
    BY <2>3, WorkStep
  <2>4. CASE ThreadFails \/ Join \/ Tally \/ Gate \/ UNCHANGED vars
    BY <2>4, LateStep
  <2>5. CASE \/ NothingFound \/ SelectMutants \/ EmptyDiff \/ RedBaseline \/ GreenBaseline
             \/ MkTemp \/ GreenCoverage \/ RedCoverage \/ LoadHitlog
    BY <2>5, EarlyStep
  <2>6. QED
    BY <2>1, <2>2, <2>3, <2>4, <2>5 DEF Next, Main, Ended
<1>2. QED
  BY InitIndInv, <1>1, PTL DEF Spec

\* The variables keep their types: no worker ever runs or stores at a
\* position outside the vectors (lines 328-361).
THEOREM TypeCorrect == Spec => []TypeOK
<1>1. IndInv => TypeOK
  BY DEF IndInv
<1>2. QED
  BY Invariance, <1>1, PTL

\* When the pool is through, every position of the list has the class of the
\* one run made under its mutant.
LEMMA AllStored ==
  ASSUME IndInv, phase \in {"tally", "gate"}, NEW i \in DOMAIN todo
  PROVE  /\ ran[todo[i]] # "not_run" /\ runs[todo[i]] = 1
         /\ outcomes[i] = ClassOf(StatusOf(ran[todo[i]]))
<1> USE DEF IndInv
<1>1. \A w \in Workers : ~Busy(w)
  <2>1. \A w \in Workers : w \in 1..started \/ w > started
    BY DEF Workers, TypeOK
  <2>2. QED
    BY <2>1 DEF PoolShape, Busy
<1>2. i < next
  <2>1. 1 \in Workers /\ 1 \in 1..started
    BY MaxJobsPositive DEF PoolShape, Workers, TypeOK
  <2>2. next > Size
    BY <2>1 DEF PoolShape
  <2>3. QED
    BY <2>2, SizeOfList, NIsNat DEF TypeOK
<1>3. outcomes[i] # "none"
  BY <1>1, <1>2 DEF RanIffStored
<1>4. QED
  BY <1>3 DEF RanIffStored

\* The suite is run exactly once under every covered mutant, however the
\* workers interleave (lines 328-375).
THEOREM RunExactlyOnce == Spec => []ExactlyOnce
<1>1. IndInv => ExactlyOnce
  <2> SUFFICES ASSUME IndInv PROVE ExactlyOnce
    OBVIOUS
  <2>1. ASSUME NEW m \in Mutants PROVE runs[m] <= 1
    BY DEF IndInv, RanIffStored, OthersNotRun
  <2>2. ASSUME phase \in {"tally", "gate"}, NEW m \in Mutants
        PROVE  runs[m] = 1 <=> m \in selected \ uncovered
    <3>1. m \in selected \ uncovered <=> \E i \in DOMAIN todo : todo[i] = m
      BY <2>2 DEF IndInv, PlanMade
    <3>2. (\E i \in DOMAIN todo : todo[i] = m) => runs[m] = 1
      BY <2>2, AllStored
    <3>3. ~(\E i \in DOMAIN todo : todo[i] = m) => runs[m] = 0
      BY DEF IndInv, OthersNotRun
    <3>4. QED
      BY <3>1, <3>2, <3>3
  <2>3. QED
    BY <2>1, <2>2 DEF ExactlyOnce
<1>2. QED
  BY Invariance, <1>1, PTL

\* As many mutants as positions: the list holds no mutant twice.
LEMMA CountPositions ==
  ASSUME IndInv, NEW I \in SUBSET (DOMAIN todo)
  PROVE  Cardinality({todo[i] : i \in I}) = Cardinality(I)
<1> DEFINE f == [i \in I |-> todo[i]]
           T == {todo[i] : i \in I}
<1>1. f \in [I -> T] /\ \A i, j \in I : f[i] = f[j] => i = j
  BY DEF IndInv, PlanMade
<1>2. f \in Injection(I, T)
  BY <1>1 DEF Injection, IsInjective
<1>3. f \in Surjection(I, T)
  BY <1>1 DEF Surjection
<1>4. ExistsBijection(I, T)
  BY <1>2, <1>3 DEF ExistsBijection, Bijection
<1>5. IsFiniteSet(I)
  BY FiniteParts DEF IndInv
<1>6. QED
  BY <1>4, <1>5, FS_Bijection

\* When the pool is through, the positions of a class are the mutants whose
\* suite ended that way.
LEMMA ClassesAreEnds ==
  ASSUME IndInv, phase \in {"tally", "gate"}
  PROVE  /\ {todo[i] : i \in At("killed")} = EndedAs({"failed", "unspawned"})
         /\ {todo[i] : i \in At("timeout")} = EndedAs({"deadline"})
         /\ {todo[i] : i \in At("survived")} = EndedAs({"green"})
<1> USE DEF IndInv
<1>1. \A i \in DOMAIN todo :
        /\ ran[todo[i]] \in Ends \ {"not_run"}
        /\ outcomes[i] = ClassOf(StatusOf(ran[todo[i]]))
        /\ todo[i] \in selected
  BY AllStored, ListTypes DEF TypeOK, PlanMade
<1>2. \A i \in DOMAIN todo :
        /\ outcomes[i] = "killed" <=> ran[todo[i]] \in {"failed", "unspawned"}
        /\ outcomes[i] = "timeout" <=> ran[todo[i]] = "deadline"
        /\ outcomes[i] = "survived" <=> ran[todo[i]] = "green"
  BY <1>1 DEF StatusOf, ClassOf, Ends
<1>3. \A m \in selected : ran[m] # "not_run" => \E i \in DOMAIN todo : todo[i] = m
  BY DEF OthersNotRun, TypeOK
<1>4. DOMAIN outcomes = DOMAIN todo
  BY DEF PlanMade
<1>5. ASSUME NEW c, NEW E \in SUBSET (Ends \ {"not_run"}),
             \A i \in DOMAIN todo : outcomes[i] = c <=> ran[todo[i]] \in E
      PROVE  {todo[i] : i \in At(c)} = EndedAs(E)
  BY <1>1, <1>3, <1>4, <1>5 DEF At, EndedAs
<1>6. QED
  BY <1>2, <1>5 DEF Ends

LEMMA DisjointUnion ==
  ASSUME NEW S, IsFiniteSet(S), NEW T, IsFiniteSet(T), S \intersect T = {}
  PROVE  /\ IsFiniteSet(S \union T)
         /\ Cardinality(S \union T) = Cardinality(S) + Cardinality(T)
         /\ Cardinality(S) \in Nat /\ Cardinality(T) \in Nat
<1>1. Cardinality(S) \in Nat /\ Cardinality(T) \in Nat
  BY FS_CardinalityType
<1>2. Cardinality(S \intersect T) = 0
  BY FS_EmptySet
<1>3. /\ IsFiniteSet(S \union T)
      /\ Cardinality(S \union T) = Cardinality(S) + Cardinality(T) - Cardinality(S \intersect T)
  BY FS_Union
<1>4. QED
  BY <1>1, <1>2, <1>3

LEMMA TallyTrue == ASSUME IndInv, Tally PROVE ReportTrue'
<1> DEFINE K == EndedAs({"failed", "unspawned"})
           D == EndedAs({"deadline"})
           G == EndedAs({"green"})
<1> USE DEF IndInv
<1>1. phase = "tally" /\ UNCHANGED <<plan, pool>>
  BY DEF Tally
<1>2. \A c \in Classes : At(c) \in SUBSET (DOMAIN todo)
  BY DEF At, PlanMade
<1>3. /\ Cardinality(At("killed")) = Cardinality(K)
      /\ Cardinality(At("timeout")) = Cardinality(D)
      /\ Cardinality(At("survived")) = Cardinality(G)
  BY <1>1, <1>2, CountPositions, ClassesAreEnds DEF Classes
<1>4. KilledScored = Cardinality(K)
  <2>1. IsFiniteSet(At("killed")) /\ IsFiniteSet(At("timeout"))
    BY <1>2, FiniteParts DEF Classes
  <2>2. At("killed") \intersect At("timeout") = {}
    BY DEF At
  <2>3. Cardinality(At("killed") \union At("timeout")) =
          Cardinality(At("killed")) + Cardinality(At("timeout"))
    BY <2>1, <2>2, DisjointUnion
  <2>4. Cardinality(At("killed")) \in Nat /\ Cardinality(At("timeout")) \in Nat
    BY <2>1, FS_CardinalityType
  <2>5. QED
    BY <1>3, <2>3, <2>4 DEF KilledScored, Killed
<1>5. /\ IsFiniteSet(K) /\ IsFiniteSet(D) /\ IsFiniteSet(G) /\ IsFiniteSet(uncovered)
      /\ IsFiniteSet(G \union uncovered) /\ IsFiniteSet(K \union D)
  BY FiniteParts, FS_Union DEF EndedAs, TypeOK
<1>6. /\ Cardinality(K) \in Nat /\ Cardinality(D) \in Nat /\ Cardinality(G) \in Nat
      /\ Cardinality(uncovered) \in Nat
  BY <1>5, FS_CardinalityType
<1>7. \A m \in uncovered : m \in selected /\ ran[m] = "not_run"
  <2>1. \A m \in uncovered : m \notin {todo[i] : i \in DOMAIN todo} /\ m \in selected
    BY <1>1 DEF PlanMade
  <2>2. QED
    BY <2>1 DEF OthersNotRun, TypeOK
<1>8. G \intersect uncovered = {} /\ K \intersect D = {}
      /\ (K \union D) \intersect (G \union uncovered) = {}
  BY <1>7 DEF EndedAs
<1>9. Cardinality(G \union uncovered) = Cardinality(G) + Cardinality(uncovered)
  <2> HIDE DEF G
  <2>1. QED
    BY <1>5, <1>8, DisjointUnion
<1>10. Cardinality(K \union D) = Cardinality(K) + Cardinality(D)
  <2> HIDE DEF K, D
  <2>1. QED
    BY <1>5, <1>8, DisjointUnion
<1>11. selected = (K \union D) \union (G \union uncovered)
  <2>1. \A m \in selected \ uncovered : ran[m] \in Ends \ {"not_run"}
    BY <1>1, AllStored, ListTypes DEF PlanMade, TypeOK
  <2>2. QED
    BY <1>7, <2>1 DEF EndedAs, Ends
<1>12. Cardinality(selected) =
         Cardinality(K) + Cardinality(D) + (Cardinality(G) + Cardinality(uncovered))
  <2> HIDE DEF K, D, G
  <2>1. Cardinality((K \union D) \union (G \union uncovered)) =
          Cardinality(K \union D) + Cardinality(G \union uncovered)
    BY <1>5, <1>8, DisjointUnion
  <2>2. QED
    BY <1>9, <1>10, <1>11, <2>1
<1>13. report' = [killed |-> Cardinality(K), survived |-> Cardinality(G) + Cardinality(uncovered),
                 timeout |-> Cardinality(D), survivors |-> G \union uncovered]
  BY <1>1, <1>3, <1>4, ClassesAreEnds DEF Tally
<1>14. selected' = selected /\ uncovered' = uncovered /\ ran' = ran
  BY <1>1 DEF plan, pool
<1>15. QED
  BY <1>6, <1>9, <1>12, <1>13, <1>14 DEF ReportTrue, EndedAs

\* A report exists from the tally on only, and an exit code at the end only.
ReportShape ==
  /\ phase \notin {"gate", "end"} => report = NoReport
  /\ phase # "end" => exit = Running

LEMMA ReportShapeStep == ASSUME ReportShape, [Next]_vars PROVE ReportShape'
BY DEF ReportShape, Next, Main, Ended, Work, NothingFound, SelectMutants, EmptyDiff,
   RedBaseline, GreenBaseline, MkTemp, GreenCoverage, RedCoverage, LoadHitlog, Partition,
   StartWorker, ThreadFails, Join, Tally, Gate, Exit, vars

\* The report tells what happened: however the pool interleaved, each count
\* is that of the runs that ended so, and the survivors are those the suite
\* stayed green under and the uncovered ones (lines 344-355 and 377-398).
THEOREM ReportIsTrue == Spec => []ReportTrue
<1>1. Init => ReportShape /\ ReportTrue
  BY DEF Init, ReportShape, ReportTrue
<1>2. IndInv /\ ReportShape /\ ReportTrue /\ [Next]_vars => ReportShape' /\ ReportTrue'
  <2> SUFFICES ASSUME IndInv, ReportShape, ReportTrue, [Next]_vars PROVE ReportTrue'
    BY ReportShapeStep
  <2>1. CASE Tally
    BY <2>1, TallyTrue
  <2>2. CASE EmptyDiff
    <3>1. /\ report' = [killed |-> 0, survived |-> 0, timeout |-> 0, survivors |-> {}]
          /\ selected' = {} /\ uncovered' = {}
      BY <2>2 DEF EmptyDiff, plan, IndInv, PoolShape
    <3>2. QED
      BY <3>1, FS_EmptySet DEF ReportTrue, EndedAs
  <2>3. CASE Gate \/ UNCHANGED vars
    BY <2>3 DEF Gate, vars, plan, pool, ReportTrue, EndedAs
  <2>4. CASE report' = NoReport
    BY <2>4 DEF ReportTrue
  <2>5. QED
    BY <2>1, <2>2, <2>3, <2>4
    DEF ReportShape, Next, Main, Ended, Work, NothingFound, SelectMutants, RedBaseline,
        GreenBaseline, MkTemp, GreenCoverage, RedCoverage, LoadHitlog, Partition,
        StartWorker, ThreadFails, Join
<1>3. QED
  BY <1>1, <1>2, Invariance, PTL DEF Spec

\* The gate opens for a score that reaches the minimum, or for no mutant.
GateInv ==
  exit = 0 /\ opt.minSet =>
    selected = {} \/ (report # NoReport /\ ~Below(report.killed, report.survived, opt.min))

LEMMA GateStep ==
  ASSUME IndInv, ReportShape, GateInv, phase = "gate" => report # NoReport, [Next]_vars
  PROVE  GateInv' /\ (phase' = "gate" => report' # NoReport)
<1>1. CASE Gate
  BY <1>1 DEF Gate, Exit, GateInv, plan
<1>2. CASE Tally
  <2>1. exit' = Running /\ phase' = "gate"
    BY <1>2 DEF Tally, ReportShape
  <2>2. report' # NoReport
    BY <1>2 DEF Tally, NoReport
  <2>3. QED
    BY <2>1, <2>2 DEF GateInv, Running
<1>3. CASE EmptyDiff
  BY <1>3 DEF EmptyDiff, Exit, GateInv, plan, IndInv, PoolShape
<1>4. CASE UNCHANGED vars
  BY <1>4 DEF vars, plan, GateInv
<1>5. CASE /\ exit' # 0
           /\ phase' # "gate"
  BY <1>5 DEF GateInv
<1>6. QED
  BY <1>1, <1>2, <1>3, <1>4, <1>5
  DEF ReportShape, Next, Main, Ended, Work, NothingFound, SelectMutants, RedBaseline,
      GreenBaseline, MkTemp, GreenCoverage, RedCoverage, LoadHitlog, Partition,
      StartWorker, ThreadFails, Join, Exit, Running, Aborted

\* If the gate opens and some mutant has a verdict other than timeout, at
\* least min_score percent of those were killed (lines 393-398 and 452-457).
THEOREM GateIsEarned == Spec => []GateEarned
<1> DEFINE Inv == ReportShape /\ GateInv /\ (phase = "gate" => report # NoReport)
<1>1. Init => Inv
  BY DEF Init, GateInv, ReportShape, Running
<1>2. IndInv /\ Inv /\ [Next]_vars => Inv'
  BY ReportShapeStep, GateStep
<1>3. IndInv /\ Inv /\ ReportTrue => GateEarned
  <2> SUFFICES ASSUME IndInv, Inv, ReportTrue,
                      exit = 0, opt.minSet, selected \ EndedAs({"deadline"}) # {}
               PROVE  100 * Cardinality(EndedAs({"failed", "unspawned"})) >=
                        opt.min * Cardinality(selected \ EndedAs({"deadline"}))
    BY DEF GateEarned
  <2> DEFINE D == EndedAs({"deadline"})
             C == Cardinality(selected \ D)
  <2>1. report # NoReport /\ ~Below(report.killed, report.survived, opt.min)
    BY DEF GateInv
  <2>2. IsFiniteSet(selected) /\ IsFiniteSet(D) /\ IsFiniteSet(selected \ D)
    BY FiniteParts DEF IndInv, TypeOK, EndedAs
  <2>3. C \in Nat /\ C # 0 /\ Cardinality(selected) = C + Cardinality(D)
        /\ Cardinality(D) \in Nat
    <3>1. selected = (selected \ D) \union D /\ (selected \ D) \intersect D = {}
      BY DEF EndedAs
    <3> HIDE DEF D
    <3>2. QED
      BY <2>2, <3>1, DisjointUnion, FS_EmptySet DEF D
  <2>4. report.killed \in Int /\ report.survived \in Nat /\ opt.min \in Int
    BY <2>1, MinScoresAreInts DEF IndInv, TypeOK
  <2>5. report.killed + report.survived = C
    BY <2>1, <2>3, <2>4 DEF ReportTrue
  <2>6. 100 * report.killed >= opt.min * C
    BY <2>1, <2>3, <2>4, <2>5 DEF Below
  <2>7. QED
    BY <2>1, <2>6 DEF ReportTrue
<1>4. QED
  BY <1>1, <1>2, <1>3, Invariance, ReportIsTrue, PTL DEF Spec

\* What a refusal leaves behind: nothing.  The temporary file exists around the
\* coverage run only, and a campaign that has come to the pool saw green.
RefusalInv ==
  /\ tmp => phase \in {"coverage", "load"}
  /\ phase \in {"mkstemp", "coverage", "load", "partition", "pool", "tally", "gate"} => green
  /\ phase \in {"select", "baseline", "mkstemp", "coverage", "load", "partition"} =>
       \A m \in Mutants : runs[m] = 0
  /\ ~green => \A m \in Mutants : runs[m] = 0
  /\ exit \in {1, 2} /\ report = NoReport => \A m \in Mutants : runs[m] = 0

LEMMA RefusalStep ==
  ASSUME ReportShape, RefusalInv, phase = "gate" => report # NoReport, [Next]_vars
  PROVE  RefusalInv'
<1>1. ASSUME NEW w \in Workers, Work(w) PROVE RefusalInv'
  BY <1>1 DEF Work, RefusalInv, ReportShape, plan, Running
<1>2. CASE NothingFound \/ RedBaseline \/ EmptyDiff
  BY <1>2 DEF NothingFound, RedBaseline, EmptyDiff, Exit, RefusalInv, plan, pool
<1>3. CASE SelectMutants \/ GreenBaseline \/ MkTemp \/ GreenCoverage
  BY <1>3 DEF SelectMutants, GreenBaseline, MkTemp, GreenCoverage, RefusalInv, ReportShape,
              plan, pool, Running
<1>4. CASE RedCoverage \/ LoadHitlog
  BY <1>4 DEF RedCoverage, LoadHitlog, Exit, RefusalInv, ReportShape, plan, pool, Running
<1>5. CASE Partition \/ StartWorker \/ Join \/ Tally
  BY <1>5 DEF Partition, StartWorker, Join, Tally, RefusalInv, ReportShape, plan, pool, Running
<1>6. CASE ThreadFails \/ Gate
  BY <1>6 DEF ThreadFails, Gate, Exit, RefusalInv, plan, pool, Aborted
<1>7. CASE UNCHANGED vars
  BY <1>7 DEF vars, plan, pool, RefusalInv
<1>8. QED
  BY <1>1, <1>2, <1>3, <1>4, <1>5, <1>6, <1>7 DEF Next, Main, Ended

\* A campaign that refuses has run no mutant and left no temporary file, and no
\* mutant is run before every run of the unmutated suite was green
\* (lines 229-294).
THEOREM RefusesCleanly == Spec => []CleanRefusal
<1> DEFINE Inv == /\ ReportShape /\ GateInv /\ RefusalInv
                  /\ phase = "gate" => report # NoReport
<1>1. Init => Inv
  BY DEF Init, GateInv, ReportShape, RefusalInv, Running
<1>2. IndInv /\ Inv /\ [Next]_vars => Inv'
  BY ReportShapeStep, GateStep, RefusalStep
<1>3. IndInv /\ Inv => CleanRefusal
  <2> SUFFICES ASSUME IndInv, Inv PROVE CleanRefusal
    OBVIOUS
  <2>1. exit \in {1, 2} => phase = "end"
    BY DEF ReportShape, Running
  <2>2. \A m \in Mutants : runs[m] > 0 => runs[m] # 0
    BY DEF IndInv, TypeOK
  <2>3. (\E m \in Mutants : runs[m] > 0) => green /\ ~tmp
    BY <2>2 DEF RefusalInv
  <2>4. QED
    BY <2>1, <2>3 DEF RefusalInv, CleanRefusal
<1>4. QED
  BY <1>1, <1>2, <1>3, Invariance, PTL DEF Spec

(***************************************************************************)
(* The campaign implements Verdicts                                        *)
(***************************************************************************)

\* The verdict of a listed mutant is the class stored at its position.
LEMMA VerdictOfListed ==
  ASSUME PlanMade, NEW i \in DOMAIN todo, todo[i] \notin uncovered
  PROVE  VerdictOf(todo[i]) = IF outcomes[i] = "none" THEN "pending" ELSE outcomes[i]
<1>1. \A j \in DOMAIN todo : todo[j] = todo[i] => j = i
  BY DEF PlanMade
<1>2. (CHOOSE j \in DOMAIN todo : todo[j] = todo[i]) = i
  BY <1>1
<1>3. QED
  BY <1>1, <1>2 DEF VerdictOf

LEMMA VerdictOfOthers ==
  ASSUME NEW m, m \notin uncovered, m \notin {todo[i] : i \in DOMAIN todo}
  PROVE  VerdictOf(m) = "pending"
BY DEF VerdictOf

LEMMA StoreDecides ==
  ASSUME IndInv, ReportShape, NEW w \in Workers, Work(w), Store(w)
  PROVE  Promise!Decide
<1> USE DEF IndInv
<1>1. phase = "pool" /\ UNCHANGED <<phase, plan, report, exit>>
  BY DEF Work
<1> PICK i \in DOMAIN todo : i = wi[w]
  BY DEF Store, Held, Busy
<1> PICK x \in Mutants : x = todo[i]
  BY ListTypes
<1>2. x \in selected \ uncovered
  BY <1>1 DEF PlanMade
<1>3. /\ outcomes[i] = "none" /\ outcomes'[i] \in Classes \ {"none"}
      /\ \A j \in DOMAIN todo : j # i => outcomes'[j] = outcomes[j]
      /\ DOMAIN outcomes' = DOMAIN outcomes
  BY <1>1, StoreStep
<1>4. PlanMade'
  BY <1>1, <1>3 DEF PlanMade, plan
<1>5. UNCHANGED <<todo, uncovered, selected, opt>>
  BY <1>1 DEF plan
<1>6. VerdictOf(x) = "pending" /\ VerdictOf(x)' = outcomes'[i]
  <2>1. VerdictOf(x) = "pending"
    BY <1>2, <1>3, VerdictOfListed
  <2>2. \A j \in DOMAIN todo : todo[j] = x => j = i
    BY <1>2 DEF PlanMade
  <2>3. (CHOOSE j \in DOMAIN todo : todo[j] = x) = i
    BY <1>2, <2>2
  <2>4. QED
    BY <1>2, <1>3, <1>5, <2>1, <2>2, <2>3 DEF VerdictOf
<1>7. ASSUME NEW m \in Mutants, m # x PROVE VerdictOf(m)' = VerdictOf(m)
  <2>1. CASE m \in uncovered \/ m \notin {todo[j] : j \in DOMAIN todo}
    BY <1>5, <2>1 DEF VerdictOf
  <2>2. ASSUME NEW j \in DOMAIN todo, m = todo[j], m \notin uncovered
        PROVE  VerdictOf(m)' = VerdictOf(m)
    <3>1. \A k \in DOMAIN todo : todo[k] = m => k = j
      BY <2>2 DEF PlanMade
    <3>2. (CHOOSE k \in DOMAIN todo : todo[k] = m) = j
      BY <2>2, <3>1
    <3>3. outcomes'[j] = outcomes[j]
      BY <1>3, <1>7, <2>2
    <3>4. QED
      BY <1>5, <2>2, <3>1, <3>2, <3>3 DEF VerdictOf
  <2>3. QED
    BY <2>1, <2>2
<1>8. \A m \in Mutants :
        /\ VerdictOf(m)' # VerdictOf(m) => m \in selected /\ VerdictOf(m) = "pending"
        /\ VerdictOf(m)' \in {"pending", "killed", "survived", "timeout"}
  <2>1. \A m \in Mutants : VerdictOf(m) \in {"pending", "killed", "survived", "timeout"}
    <3> SUFFICES ASSUME NEW m \in Mutants, m \notin uncovered
                 PROVE  VerdictOf(m) \in {"pending", "killed", "survived", "timeout"}
      BY DEF VerdictOf
    <3>1. CASE m \notin {todo[j] : j \in DOMAIN todo}
      BY <3>1, VerdictOfOthers
    <3>2. ASSUME NEW j \in DOMAIN todo, m = todo[j]
          PROVE  VerdictOf(m) \in {"pending", "killed", "survived", "timeout"}
      BY <3>2, VerdictOfListed, ListTypes DEF Classes
    <3>3. QED
      BY <3>1, <3>2
  <2>2. QED
    BY <1>2, <1>3, <1>6, <1>7, <2>1 DEF Classes
<1>9. report = <<>> /\ exit = Promise!Running
  BY <1>1 DEF ReportShape, NoReport, Running, Promise!Running
<1>10. QED
  BY <1>1, <1>5, <1>8, <1>9 DEF Promise!Decide

\* The list drawn up, the uncovered mutants are survivors and the others wait.
LEMMA PartitionDecides ==
  ASSUME IndInv, ReportShape, Partition
  PROVE  Promise!Decide
<1>1. /\ phase = "partition" /\ phase' = "pool" /\ uncovered' = selected \ ToRun
      /\ UNCHANGED <<opt, selected, report, exit>>
  BY DEF Partition
<1>2. \A i \in DOMAIN todo' : outcomes'[i] = "none"
  BY DEF Partition
<1>3. \A m \in Mutants : VerdictOf(m) = "pending"
  <2>1. uncovered = {} /\ todo = <<>>
    BY <1>1 DEF IndInv, PoolShape
  <2>2. QED
    BY <2>1 DEF VerdictOf
<1>4. \A m \in Mutants : VerdictOf(m)' = IF m \in uncovered' THEN "survived" ELSE "pending"
  BY <1>2 DEF VerdictOf
<1>5. report = <<>> /\ exit = Promise!Running
  BY <1>1 DEF ReportShape, NoReport, Running, Promise!Running
<1>6. QED
  BY <1>1, <1>3, <1>4, <1>5 DEF Promise!Decide

\* The promise counts as the campaign does.
LEMMA SameCardinality == \A S : Promise!Cardinality(S) = Cardinality(S)
BY DEF Promise!Cardinality, Cardinality, Promise!IsFiniteSet, IsFiniteSet

\* The tally counts verdicts by position in the vector, the promise by mutant.
LEMMA TallyPublishes ==
  ASSUME IndInv, ReportShape, Tally
  PROVE  Promise!Publish
<1> USE DEF IndInv
<1>1. phase = "tally" /\ UNCHANGED <<plan, pool, exit>>
  BY DEF Tally
<1>2. \A m \in Mutants : VerdictOf(m)' = VerdictOf(m)
  BY <1>1 DEF VerdictOf, plan, pool
<1>3. /\ \A i \in DOMAIN todo : todo[i] \in selected \ uncovered
      /\ \A m \in selected : m \in uncovered \/ \E i \in DOMAIN todo : todo[i] = m
      /\ uncovered \subseteq selected /\ selected \subseteq Mutants
  BY <1>1 DEF PlanMade, TypeOK
<1>4. \A i \in DOMAIN todo : VerdictOf(todo[i]) = outcomes[i] /\ outcomes[i] \in Classes \ {"none"}
  <2>1. \A i \in DOMAIN todo : outcomes[i] \in Classes \ {"none"}
    <3> SUFFICES ASSUME NEW i \in DOMAIN todo PROVE outcomes[i] \in Classes \ {"none"}
      OBVIOUS
    <3>1. ran[todo[i]] \in Ends \ {"not_run"} /\ outcomes[i] = ClassOf(StatusOf(ran[todo[i]]))
      BY <1>1, AllStored, ListTypes DEF TypeOK
    <3>2. QED
      BY <3>1 DEF StatusOf, ClassOf, Ends, Classes
  <2>2. QED
    BY <1>3, <2>1, VerdictOfListed
<1>5. \A m \in uncovered : VerdictOf(m) = "survived"
  BY DEF VerdictOf
<1>6. /\ Promise!Having("pending") = {}
      /\ Promise!Having("killed") = {todo[i] : i \in At("killed")}
      /\ Promise!Having("timeout") = {todo[i] : i \in At("timeout")}
      /\ Promise!Having("survived") = {todo[i] : i \in At("survived")} \union uncovered
  <2>1. DOMAIN outcomes = DOMAIN todo
    BY DEF PlanMade
  <2>2. \A v : Promise!Having(v) = {m \in selected : VerdictOf(m) = v}
    BY <1>3 DEF Promise!Having
  <2>3. Promise!Having("pending") = {}
    BY <1>3, <1>4, <1>5, <2>2 DEF Classes
  <2>4. Promise!Having("killed") = {todo[i] : i \in At("killed")}
    BY <1>3, <1>4, <1>5, <2>1, <2>2 DEF At
  <2>5. Promise!Having("timeout") = {todo[i] : i \in At("timeout")}
    BY <1>3, <1>4, <1>5, <2>1, <2>2 DEF At
  <2>6. Promise!Having("survived") = {todo[i] : i \in At("survived")} \union uncovered
    BY <1>3, <1>4, <1>5, <2>1, <2>2 DEF At
  <2>7. QED
    BY <2>3, <2>4, <2>5, <2>6
<1>7. /\ report'.killed = Cardinality(EndedAs({"failed", "unspawned"}))
      /\ report'.timeout = Cardinality(EndedAs({"deadline"}))
      /\ report'.survived = Cardinality(EndedAs({"green"}) \union uncovered)
      /\ report'.survivors = EndedAs({"green"}) \union uncovered
  <2>1. ReportTrue' /\ report' # NoReport
    BY TallyTrue DEF Tally, NoReport
  <2>2. UNCHANGED <<selected, uncovered, ran>>
    BY <1>1 DEF plan, pool
  <2>3. QED
    BY <2>1, <2>2 DEF ReportTrue, EndedAs
<1>8. report' = [killed |-> Cardinality(Promise!Having("killed")),
                survived |-> Cardinality(Promise!Having("survived")),
                timeout |-> Cardinality(Promise!Having("timeout")),
                survivors |-> Promise!Having("survived")]
  <2>1. report' = [killed |-> report'.killed, survived |-> report'.survived,
                  timeout |-> report'.timeout, survivors |-> report'.survivors]
    BY DEF Tally
  <2>2. QED
    BY <1>1, <1>6, <1>7, <2>1, ClassesAreEnds
<1>9. report = <<>> /\ exit = Promise!Running
  BY <1>1 DEF ReportShape, NoReport, Running, Promise!Running
<1>10. UNCHANGED [m \in Mutants |-> VerdictOf(m)]
  BY <1>2
<1>11. UNCHANGED <<[set |-> opt.minSet, value |-> opt.min], selected, exit>>
  BY <1>1 DEF plan
<1>12. Promise!Having("pending") = {}
  BY <1>6
<1>13. QED
  BY <1>8, <1>9, <1>10, <1>11, <1>12, SameCardinality DEF Promise!Publish

\* Whatever the number of workers and the order in which they finish, the
\* verdicts, the report and the exit code are those of the abstract campaign.
THEOREM Refinement == Spec => ImplementsVerdicts
<1>1. Init => Promise!Init
  <2> SUFFICES ASSUME Init PROVE Promise!Init
    OBVIOUS
  <2>1. \A m \in Mutants : VerdictOf(m) = "pending"
    BY DEF Init, VerdictOf
  <2>2. [set |-> opt.minSet, value |-> opt.min] \in [set : BOOLEAN, value : Int]
    BY MinScoresAreInts DEF Init
  <2>3. QED
    BY <2>1, <2>2 DEF Init, Promise!Init, NoReport, Running, Promise!Running
<1>2. IndInv /\ ReportShape /\ (phase = "gate" => report # NoReport) /\ [Next]_vars
        => [Promise!Next]_Promise!vars
  <2> SUFFICES ASSUME IndInv, ReportShape, phase = "gate" => report # NoReport, [Next]_vars
               PROVE  [Promise!Next]_Promise!vars
    OBVIOUS
  <2>1. ASSUME UNCHANGED <<opt, selected, uncovered, todo, outcomes, report, exit>>
        PROVE  UNCHANGED Promise!vars
    BY <2>1 DEF Promise!vars, VerdictOf
  <2>2. ASSUME UNCHANGED <<uncovered, todo, outcomes>>
        PROVE  \A m \in Mutants : VerdictOf(m)' = VerdictOf(m)
    BY <2>2 DEF VerdictOf
  <2>3. ASSUME SelectMutants PROVE Promise!Select(selected') /\ selected' \in SUBSET Mutants
    <3>1. selected = {} /\ selected' \in SUBSET Mutants
      BY <2>3 DEF SelectMutants, IndInv, PoolShape
    <3>2. QED
      BY <2>2, <2>3, <3>1 DEF SelectMutants, Promise!Select, pool
  <2>4. ASSUME EmptyDiff PROVE Promise!NothingToProve
    <3>1. selected = {} /\ exit = Running
      BY <2>4 DEF EmptyDiff, IndInv, PoolShape, ReportShape
    <3>2. QED
      BY <2>2, <2>4, <3>1
      DEF EmptyDiff, Exit, Promise!NothingToProve, Promise!Running, Running, plan, pool
  <2>5. ASSUME NothingFound \/ RedBaseline \/ RedCoverage \/ ThreadFails PROVE Promise!Refuse
    <3>1. report = <<>> /\ exit = Promise!Running /\ exit' > 0
      BY <2>5 DEF NothingFound, RedBaseline, RedCoverage, ThreadFails, Exit, ReportShape,
                  NoReport, Running, Promise!Running, Aborted
    <3>2. UNCHANGED <<opt, selected, uncovered, todo, outcomes, report>>
      BY <2>5 DEF NothingFound, RedBaseline, RedCoverage, ThreadFails, plan, pool
    <3>3. QED
      BY <2>2, <3>1, <3>2 DEF Promise!Refuse
  <2>6. ASSUME Gate PROVE Promise!Gate
    <3>1. report # <<>> /\ exit = Promise!Running
      BY <2>6 DEF Gate, ReportShape, NoReport, Running, Promise!Running
    <3>2. QED
      BY <2>2, <2>6, <3>1 DEF Gate, Exit, Promise!Gate, Below, Promise!Below, plan, pool
  <2>7. CASE Partition
    BY <2>7, PartitionDecides DEF Promise!Next
  <2>8. CASE Tally
    BY <2>8, TallyPublishes DEF Promise!Next
  <2>9. ASSUME NEW w \in Workers, Work(w) PROVE [Promise!Next]_Promise!vars
    <3>1. CASE Store(w)
      BY <2>9, <3>1, StoreDecides DEF Promise!Next
    <3>2. CASE Fetch(w) \/ RunSuite(w)
      BY <2>1, <2>9, <3>2 DEF Work, Fetch, RunSuite, plan
    <3>3. QED
      BY <2>9, <3>1, <3>2 DEF Work
  <2>10. CASE \/ GreenBaseline \/ MkTemp \/ GreenCoverage \/ LoadHitlog
              \/ StartWorker \/ Join \/ UNCHANGED vars
    BY <2>1, <2>10 DEF GreenBaseline, MkTemp, GreenCoverage, LoadHitlog, StartWorker, Join,
                       vars, plan, pool
  <2>11. QED
    BY <2>3, <2>4, <2>5, <2>6, <2>7, <2>8, <2>9, <2>10
    DEF Next, Main, Ended, Promise!Next
<1> DEFINE Inv == ReportShape /\ GateInv /\ (phase = "gate" => report # NoReport)
<1>3. Init => Inv
  BY DEF Init, GateInv, ReportShape, Running
<1>4. IndInv /\ Inv /\ [Next]_vars => Inv'
  BY ReportShapeStep, GateStep
<1>5. QED
  BY <1>1, <1>2, <1>3, <1>4, Invariance, PTL DEF Spec, ImplementsVerdicts, Promise!Spec
=============================================================================
