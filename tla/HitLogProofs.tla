---------------------------- MODULE HitLogProofs ----------------------------
(***************************************************************************)
(* Theorems about HitLog, for any number of processes, any logs of ids of  *)
(* any width, and any buffer of stdio that holds a line.                   *)
(***************************************************************************)
EXTENDS HitLog, SequenceLemmas, FiniteSetTheorems, SequenceTheorems, TLAPS

Chars == 0..9 \union {Newline}

(* The inductive invariant *)

\* What TypeOK does not say of the variables.
Shape ==
  /\ due \in [Procs -> Logs] /\ stage \in [Procs -> {"running", "flushing", "closed", "cut"}]
  /\ printed \in [Procs -> Nat] /\ buf \in [Procs -> Seq(Chars)]
  /\ file \in Seq(Chars) /\ splits \in Nat
  /\ \A p \in Procs : printed[p] <= Len(due[p]) /\ Len(buf[p]) <= Block

\* Where each line of a log ends in its text.
EndsOf(log, e) ==
  /\ e \in [0..Len(log) -> Nat] /\ e[0] = 0 /\ e[Len(log)] = Len(Text(log))
  /\ \A k \in 1..Len(log) : e[k] = e[k - 1] + Len(Line(log[k]))
Ends(log) == CHOOSE e : EndsOf(log, e)

\* The characters of a process's lines that have left its buffer.
Written(p) == Ends(due[p])[printed[p]] - Len(buf[p])

\* Part of the lines of a log, from the character behind the n-th to the end of
\* the m-th line.
PartOf(text, log, n, m) ==
  \A k \in 1..m : \A c \in 1..Len(Line(log[k])) :
    n < Ends(log)[k - 1] + c /\ Ends(log)[k - 1] + c <= n + Len(text) =>
      text[Ends(log)[k - 1] + c - n] = Line(log[k])[c]

\* The buffer holds the end of what has been printed.
BufferIsTheEnd == \A p \in Procs : Written(p) >= 0 /\ PartOf(buf[p], due[p], Written(p), printed[p])

ClosedIsWritten ==
  \A p \in Procs :
    /\ stage[p] \in {"running", "closed"} => buf[p] = <<>>
    /\ stage[p] = "running" => printed[p] = 0
    /\ stage[p] = "closed" => printed[p] = Len(due[p])

\* The line of the id stands at this place, behind a newline or at the beginning.
StandsAt(text, x, id) ==
  /\ x + Len(Line(id)) - 1 <= Len(text)
  /\ \A c \in 1..Len(Line(id)) : text[x + c - 1] = Line(id)[c]
  /\ x = 1 \/ text[x - 1] = Newline

\* The ids whose line stands in the text.
FoundIn(text) == {id \in Ids : \E x \in 1..Len(text) : StandsAt(text, x, id)}

\* The ids a process has begun to write to the file.
Begun(p) == {due[p][k] : k \in {j \in 1..printed[p] : Ends(due[p])[j - 1] < Written(p)}}
Lost == (UNION {Begun(p) : p \in Procs}) \ FoundIn(file)

\* The text ends within a line: what comes next is glued to it.
Torn(text) == text # <<>> /\ Last(text) # Newline

TornEnd(text) == IF Torn(text) THEN 1 ELSE 0

LossSoFar == Cardinality(Lost) <= 2 * splits - TornEnd(file)

\* The ids of the lines that begin in a block and are not found when it is written.
Missed(text, block, log, n, m) ==
  {log[k] : k \in {l \in 1..m : n <= Ends(log)[l - 1] /\ Ends(log)[l - 1] < n + Len(block)}}
    \ FoundIn(text \o block)

\* Nothing but lines of these ids, one behind another: each newline ends one.
LinesOf(text, ids) ==
  /\ ~Torn(text)
  /\ \A j \in 1..Len(text) : text[j] = Newline =>
       \E id \in ids : \E x \in 1..Len(text) : StandsAt(text, x, id) /\ j = x + Len(Line(id)) - 1

\* Logs that fit the buffer leave it whole.
WholeSoFar ==
  (\A p \in Procs : WholeLog(p)) =>
    /\ \A p \in Procs : stage[p] # "closed" => Written(p) = 0
    /\ LinesOf(file, Owed)
    /\ Owed \subseteq FoundIn(file)

\* main reads once all processes have ended.
ReadAtTheEnd ==
  /\ phase \in {"coverage", "loaded", "partitioned"}
  /\ phase # "coverage" =>
       covered = Numbers(file) /\ \A p \in Procs : stage[p] \in {"closed", "cut"}
  /\ phase # "partitioned" => uncovered = {} /\ todo = {}
  /\ phase = "partitioned" =>
       uncovered = {id \in Listed : Uncovered(id)} /\ todo = Listed \ uncovered

IndInv ==
  Shape /\ BufferIsTheEnd /\ ClosedIsWritten /\ LossSoFar /\ WholeSoFar /\ ReadAtTheEnd
-----------------------------------------------------------------------------
(* Digits and numbers *)

\* Reading digit after digit.
ReadDigits(d, f) ==
  /\ f \in [0..Len(d) -> Nat] /\ f[0] = 0 /\ f[Len(d)] = Value(d)
  /\ \A k \in 1..Len(d) : f[k] = 10 * f[k - 1] + d[k]

LEMMA ValueIs ==
  ASSUME NEW d \in Seq(0..9)
  PROVE  \E f : ReadDigits(d, f)
<1> DEFINE N == Len(d)
           G == [k \in 1..N |-> [x \in Nat |-> 10 * x + d[k]]]
           F(f) == f = [n \in 0..N |-> IF n = 0 THEN 0 ELSE 10 * f[n - 1] + d[n]]
<1>1. N \in Nat /\ \A k \in 1..N : d[k] \in 0..9
  OBVIOUS
<1>2. \A k \in 1..N : \A x \in Nat : G[k][x] = 10 * x + d[k] /\ G[k][x] \in Nat
  BY <1>1
<1>3. \E f : Stepwise(Nat, 0, N, G, f)
  <2> HIDE DEF G, N
  <2>1. 0 \in Nat /\ \A k \in 1..N : \A x \in Nat : G[k][x] \in Nat
    BY <1>2
  <2> QED
    BY ONLY <1>1, <2>1, RecursionSolved
<1>4. PICK g \in [0..N -> Nat] : g[0] = 0 /\ \A k \in 1..N : g[k] = G[k][g[k - 1]]
  <2> HIDE DEF G, N
  <2> QED
    BY <1>3 DEF Stepwise
<1>5. g \in [0..N -> Nat] /\ g[0] = 0 /\ \A k \in 1..N : g[k] = 10 * g[k - 1] + d[k]
  <2>2. \A k \in 1..N : g[k - 1] \in Nat
    BY <1>1
  <2> HIDE DEF G, N
  <2> QED
    BY <1>2, <1>4, <2>2
<1>6. F(g)
  <2> DEFINE h == [n \in 0..N |-> IF n = 0 THEN 0 ELSE 10 * g[n - 1] + d[n]]
  <2>1. \A n \in 0..N : g[n] = h[n]
    BY <1>1, <1>5
  <2>2. DOMAIN g = 0..N /\ DOMAIN h = 0..N /\ g = [n \in 0..N |-> g[n]] /\ h = [n \in 0..N |-> h[n]]
    BY <1>5
  <2> HIDE DEF h
  <2>3. g = h
    BY <2>1, <2>2
  <2> QED
    BY <2>3 DEF h
<1> DEFINE v == CHOOSE f : F(f)
<1>7. F(v)
  <2> HIDE DEF F
  <2> QED
    BY <1>6
<1>8. Value(d) = v[N]
  BY DEF Value
<1> HIDE DEF v
<1>9. DOMAIN v = 0..N /\ \A n \in 0..N : v[n] = IF n = 0 THEN 0 ELSE 10 * v[n - 1] + d[n]
  <2> HIDE DEF N
  <2>1. v = [n \in 0..N |-> IF n = 0 THEN 0 ELSE 10 * v[n - 1] + d[n]]
    BY <1>7
  <2> DEFINE h == [n \in 0..N |-> IF n = 0 THEN 0 ELSE 10 * v[n - 1] + d[n]]
  <2>2. DOMAIN h = 0..N /\ \A n \in 0..N : h[n] = IF n = 0 THEN 0 ELSE 10 * v[n - 1] + d[n]
    OBVIOUS
  <2>3. v = h
    BY <2>1
  <2> HIDE DEF h, F
  <2> QED
    BY ONLY <2>2, <2>3
<1>10. v \in [0..N -> Nat]
  <2>0. v[0] = 0 /\ \A k \in 1..N : v[k] = 10 * v[k - 1] + d[k] /\ d[k] \in Nat
    <3> HIDE DEF N
    <3>1. 0 \in 0..N /\ \A k \in 1..N : k \in 0..N /\ k # 0
      BY ONLY <1>1
    <3>2. ASSUME NEW k \in 1..N PROVE d[k] \in Nat
      <4>1. d[k] \in 0..9
        BY ONLY <1>1
      <4> QED
        BY ONLY <4>1
    <3> QED
      BY ONLY <3>1, <3>2, <1>9
  <2>1. v[0] \in Nat /\ \A k \in 1..N : v[k - 1] \in Nat => v[k] \in Nat
    <3> HIDE DEF N
    <3>1. ASSUME NEW k \in 1..N, v[k - 1] \in Nat PROVE v[k] \in Nat
      <4>1. v[k] = 10 * v[k - 1] + d[k] /\ d[k] \in Nat
        BY <2>0
      <4> QED
        BY ONLY <4>1, <3>1
    <3>2. v[0] \in Nat
      BY ONLY <2>0
    <3> QED
      BY ONLY <3>1, <3>2
  <2>2. \A k \in 0..N : v[k] \in Nat
    <3> HIDE DEF N, F
    <3> QED
      BY ONLY <1>1, <2>1, RecursionStays
  <2> DEFINE h == [n \in 0..N |-> IF n = 0 THEN 0 ELSE 10 * v[n - 1] + d[n]]
  <2>3. v = h
    BY <1>7
  <2>4. h = [n \in 0..N |-> h[n]]
    OBVIOUS
  <2> HIDE DEF h, N
  <2>5. v = [n \in 0..N |-> v[n]]
    BY ONLY <2>3, <2>4
  <2> QED
    BY ONLY <2>2, <2>5
<1>11. \A k \in 1..N : v[k] = 10 * v[k - 1] + d[k]
  <2> HIDE DEF N
  <2>1. \A k \in 1..N : k \in 0..N /\ k # 0
    BY <1>1
  <2> QED
    BY ONLY <2>1, <1>9
<1>12. v[0] = 0
  <2> HIDE DEF N
  <2>1. 0 \in 0..N
    BY <1>1
  <2> QED
    BY ONLY <2>1, <1>9
<1> QED
  BY <1>1, <1>8, <1>10, <1>11, <1>12 DEF ReadDigits

\* One digit more.
LEMMA ValueAppends ==
  ASSUME NEW d \in Seq(0..9), NEW x \in 0..9
  PROVE  Append(d, x) \in Seq(0..9) /\ Value(Append(d, x)) = 10 * Value(d) + x /\ Value(d) \in Nat
<1> DEFINE e == Append(d, x)
           N == Len(d)
<1>1. e \in Seq(0..9) /\ Len(e) = N + 1 /\ N \in Nat /\ e[N + 1] = x /\ \A k \in 1..N : e[k] = d[k]
  OBVIOUS
<1> HIDE DEF e
<1>2. PICK f : ReadDigits(d, f)
  BY ValueIs
<1>3. PICK g : ReadDigits(e, g)
  BY <1>1, ValueIs
<1>4. f \in [0..N -> Nat] /\ f[0] = 0 /\ f[N] = Value(d) /\ \A k \in 1..N : f[k] = 10 * f[k - 1] + d[k]
  BY <1>2 DEF ReadDigits
<1>5. /\ g \in [0..N + 1 -> Nat] /\ g[0] = 0 /\ g[N + 1] = Value(e)
      /\ \A k \in 1..N + 1 : g[k] = 10 * g[k - 1] + e[k]
  BY <1>1, <1>3 DEF ReadDigits
<1> HIDE DEF N
<1> DEFINE T == {k \in 0..N : f[k] = g[k]}
<1>6. 0 \in T
  <2>1. 0 \in 0..N /\ f[0] = g[0]
    BY <1>1, <1>4, <1>5
  <2> QED
    BY <2>1
<1>7. ASSUME NEW k \in 0..N - 1, k \in T PROVE k + 1 \in T
  <2>1. k + 1 \in 1..N /\ k + 1 \in 1..N + 1 /\ k + 1 \in 0..N /\ k + 1 - 1 = k /\ f[k] = g[k]
    BY <1>1, <1>7
  <2> DEFINE k1 == k + 1
  <2>a. k1 \in 1..N /\ k1 \in 1..N + 1 /\ k1 - 1 = k
    BY <2>1
  <2> HIDE DEF k1
  <2>b. f[k1] = 10 * f[k] + d[k1]
    BY ONLY <1>4, <2>a
  <2>c. g[k1] = 10 * g[k] + e[k1]
    BY ONLY <1>5, <2>a
  <2>d. e[k1] = d[k1]
    BY ONLY <1>1, <2>a
  <2>2. f[k + 1] = 10 * f[k] + d[k + 1] /\ g[k + 1] = 10 * g[k] + e[k + 1] /\ e[k + 1] = d[k + 1]
    BY ONLY <2>b, <2>c, <2>d DEF k1
  <2> QED
    BY <2>1, <2>2
<1>8. f[N] = g[N]
  <2>1. 0..N \subseteq T
    <3> HIDE DEF T
    <3> QED
      BY ONLY <1>1, <1>6, <1>7, InductionUpTo
  <2> QED
    BY <1>1, <2>1
<1>9. N + 1 \in 1..N + 1 /\ N + 1 - 1 = N /\ N \in 0..N
  BY <1>1
<1>10. Value(e) = 10 * Value(d) + x /\ Value(d) \in Nat
  BY <1>1, <1>4, <1>5, <1>8, <1>9
<1> QED
  BY <1>1, <1>10 DEF e

\* The definition of the digits has the solution it describes.
LEMMA DecimalSolves ==
  /\ DOMAIN Decimal = 0..UIntMax
  /\ \A n \in 0..UIntMax :
       Decimal[n] = IF n < 10 THEN <<n>> ELSE Append(Decimal[n \div 10], n % 10)
<1> DEFINE D == Seq(0..9)
           Next10(f, n) == IF n < 10 THEN <<n>> ELSE Append(f[n \div 10], n % 10)
           Solves(f, n) == \A k \in 0..n : f[k] = Next10(f, k)
           T == {n \in 0..UIntMax : \E f \in [0..n -> D] : Solves(f, n)}
           F(f) == f = [n \in 0..UIntMax |-> Next10(f, n)]
<1>0. UIntMax \in Nat
  BY Widths
<1>1. 0 \in T
  <2> DEFINE f == [k \in 0..0 |-> <<0>>]
  <2>1. f \in [0..0 -> D] /\ f[0] = <<0>> /\ 0 \in 0..UIntMax
    BY <1>0
  <2>2. \A k \in 0..0 : k = 0 /\ k < 10
    OBVIOUS
  <2>3. Solves(f, 0)
    BY <2>1, <2>2
  <2> HIDE DEF f, Solves
  <2> QED
    BY <2>1, <2>3
<1>2. ASSUME NEW n \in 0..UIntMax - 1, n \in T PROVE n + 1 \in T
  <2>1. PICK f \in [0..n -> D] : Solves(f, n)
    BY <1>2
  <2> DEFINE new == Next10(f, n + 1)
             g == [k \in 0..n + 1 |-> IF k \in 0..n THEN f[k] ELSE new]
  <2>2. n \in Nat /\ n + 1 \in 0..UIntMax
    BY <1>0
  <2>3. new \in D
    <3>1. CASE n + 1 < 10
      BY <2>2, <3>1
    <3>2. CASE ~(n + 1 < 10)
      <4>1. (n + 1) \div 10 \in 0..n /\ (n + 1) % 10 \in 0..9
        BY <2>2, <3>2
      <4>2. f[(n + 1) \div 10] \in D
        BY <4>1
      <4> QED
        BY <3>2, <4>1, <4>2
    <3> QED
      BY <3>1, <3>2
  <2> HIDE DEF new
  <2>4. /\ g \in [0..n + 1 -> D] /\ g[n + 1] = new
        /\ \A k \in 0..n : g[k] = f[k]
    BY <2>2, <2>3
  <2> HIDE DEF g
  <2>5. ASSUME NEW k \in 0..n + 1 PROVE g[k] = Next10(g, k)
    <3>1. k \in Nat /\ (k >= 10 => k \div 10 \in 0..n)
      BY <2>2
    <3>2. g[k] = Next10(f, k)
      <4>1. CASE k \in 0..n
        BY <2>1, <2>4, <4>1
      <4>2. CASE k \notin 0..n
        <5>1. k = n + 1
          BY <2>2, <4>2
        <5> QED
          BY <2>4, <5>1 DEF new
      <4> QED
        BY <4>1, <4>2
    <3>3. CASE k < 10
      BY <3>2, <3>3
    <3>4. CASE ~(k < 10)
      <4>1. g[k \div 10] = f[k \div 10]
        BY <2>4, <3>1, <3>4
      <4> QED
        BY <3>2, <3>4, <4>1
    <3> QED
      BY <3>3, <3>4
  <2>6. Solves(g, n + 1)
    BY <2>5
  <2> HIDE DEF Solves
  <2> QED
    BY <2>2, <2>4, <2>6
<1>3. UIntMax \in T
  <2> HIDE DEF T
  <2>1. 0..UIntMax \subseteq T
    BY ONLY <1>0, <1>1, <1>2, InductionUpTo
  <2> QED
    BY <1>0, <2>1
<1>4. PICK f \in [0..UIntMax -> D] : Solves(f, UIntMax)
  BY <1>3
<1>5. F(f)
  <2> DEFINE h == [n \in 0..UIntMax |-> Next10(f, n)]
  <2>1. \A n \in 0..UIntMax : f[n] = h[n]
    BY <1>4
  <2>2. f = [n \in 0..UIntMax |-> f[n]] /\ h = [n \in 0..UIntMax |-> h[n]]
    BY <1>4
  <2> HIDE DEF h
  <2>3. f = h
    BY <2>1, <2>2
  <2> QED
    BY <2>3 DEF h
<1> DEFINE v == CHOOSE g : F(g)
<1>6. F(v)
  <2> HIDE DEF F
  <2> QED
    BY <1>5
<1>7. Decimal = v
  BY DEF Decimal
<1> HIDE DEF v
<1> QED
  BY <1>6, <1>7

\* Digits are digits, and they mean the number.
LEMMA DecimalIs ==
  ASSUME NEW n \in 0..UIntMax
  PROVE  Decimal[n] \in Seq(0..9) /\ Len(Decimal[n]) >= 1 /\ Value(Decimal[n]) = n
<1> DEFINE Good(k) == Decimal[k] \in Seq(0..9) /\ Len(Decimal[k]) >= 1 /\ Value(Decimal[k]) = k
           T == {m \in 0..UIntMax : \A k \in 0..m : Good(k)}
<1>0. UIntMax \in Nat
  BY Widths
<1>1. ASSUME NEW k \in 0..UIntMax, k < 10 PROVE Good(k)
  <2>1. Decimal[k] = <<k>> /\ k \in 0..9
    BY <1>0, <1>1, DecimalSolves
  <2> DEFINE none == <<>>
  <2>2. none \in Seq(0..9) /\ Append(none, k) = <<k>> /\ Len(none) = 0
    OBVIOUS
  <2> HIDE DEF none
  <2>3. Value(none) = 0
    <3>1. PICK f : ReadDigits(none, f)
      BY <2>2, ValueIs
    <3> QED
      BY <2>2, <3>1 DEF ReadDigits
  <2>4. Value(Append(none, k)) = 10 * Value(none) + k
    BY <2>1, <2>2, ValueAppends
  <2>5. <<k>> \in Seq(0..9) /\ Len(<<k>>) = 1
    BY <2>1
  <2> QED
    BY <2>1, <2>2, <2>3, <2>4, <2>5
<1>2. 0 \in T
  <2>1. 0 \in 0..UIntMax /\ \A k \in 0..0 : k \in 0..UIntMax /\ k < 10
    BY <1>0
  <2> HIDE DEF Good
  <2> QED
    BY <1>1, <2>1
<1>3. ASSUME NEW m \in 0..UIntMax - 1, m \in T PROVE m + 1 \in T
  <2>1. m \in Nat /\ m + 1 \in 0..UIntMax /\ \A k \in 0..m : Good(k)
    BY <1>0, <1>3
  <2>2. Good(m + 1)
    <3>1. CASE m + 1 < 10
      BY <1>1, <2>1, <3>1
    <3>2. CASE ~(m + 1 < 10)
      <4> DEFINE q == (m + 1) \div 10
                 x == (m + 1) % 10
      <4>1. q \in 0..m /\ x \in 0..9 /\ 10 * q + x = m + 1
        BY <2>1, <3>2
      <4>2. Decimal[m + 1] = Append(Decimal[q], x)
        BY <2>1, <3>2, DecimalSolves
      <4> HIDE DEF q, x
      <4>3. Good(q)
        BY <2>1, <4>1
      <4>a. Decimal[q] \in Seq(0..9) /\ Len(Decimal[q]) >= 1 /\ Value(Decimal[q]) = q
        BY ONLY <4>3
      <4>b. PICK d : d = Decimal[q]
        OBVIOUS
      <4>4. d \in Seq(0..9) /\ Len(d) >= 1 /\ Value(d) = q
        BY ONLY <4>a, <4>b
      <4>5. Append(d, x) \in Seq(0..9) /\ Value(Append(d, x)) = 10 * Value(d) + x
        <5>1. d \in Seq(0..9) /\ x \in 0..9
          BY ONLY <4>1, <4>4
        <5> QED
          BY ONLY <5>1, ValueAppends
      <4>6. Len(Append(d, x)) = Len(d) + 1 /\ Len(d) \in Nat
        BY ONLY <4>4
      <4> QED
        BY <4>1, <4>2, <4>4, <4>5, <4>6, <4>b
    <3> QED
      BY <3>1, <3>2
  <2>3. \A k \in 0..m + 1 : k \in 0..m \/ k = m + 1
    BY <2>1
  <2> HIDE DEF Good
  <2> QED
    BY <2>1, <2>2, <2>3
<1>4. UIntMax \in T
  <2> HIDE DEF T
  <2>1. 0..UIntMax \subseteq T
    BY ONLY <1>0, <1>2, <1>3, InductionUpTo
  <2> QED
    BY <1>0, <2>1
<1> QED
  BY <1>4

\* A line is digits and a newline; its digits are read as the id.
LEMMA LineIs ==
  ASSUME NEW id \in Ids
  PROVE  /\ Line(id) \in Seq(Chars) /\ Len(Line(id)) \in Nat
         /\ Len(Line(id)) >= 2 /\ Len(Line(id)) <= Block
         /\ \A c \in 1..Len(Line(id)) : c < Len(Line(id)) => Line(id)[c] \in 0..9 /\ Line(id)[c] # Newline
         /\ Line(id)[Len(Line(id))] = Newline
<1> DEFINE d == Decimal[id]
<1>1. id \in 0..UIntMax
  BY Widths DEF Ids
<1>2. d \in Seq(0..9) /\ Len(d) >= 1
  BY <1>1, DecimalIs
<1>3. Line(id) = Append(d, Newline)
  BY DEF Line
<1>4. Len(Line(id)) <= Block
  BY BlockHoldsALine
<1> HIDE DEF d
<1>5. Newline \notin 0..9 /\ Newline \in Chars
  BY DEF Newline, Chars
<1>6. /\ Append(d, Newline) \in Seq(Chars) /\ Len(Append(d, Newline)) = Len(d) + 1 /\ Len(d) \in Nat
      /\ \A c \in 1..Len(d) : Append(d, Newline)[c] = d[c] /\ d[c] \in 0..9
      /\ Append(d, Newline)[Len(d) + 1] = Newline
  BY <1>2, <1>5 DEF Chars
<1> QED
  BY <1>2, <1>3, <1>4, <1>5, <1>6

LEMMA NumberIs ==
  ASSUME NEW id \in Ids
  PROVE  /\ Number(Decimal[id]) = id /\ Len(Decimal[id]) = Len(Line(id)) - 1
         /\ Decimal[id] \in Seq(0..9)
         /\ \A c \in 1..Len(Decimal[id]) : Decimal[id][c] = Line(id)[c]
<1> DEFINE d == Decimal[id]
<1>1. id \in 0..UIntMax /\ UIntMax \in Nat
  BY Widths DEF Ids
<1>2. d \in Seq(0..9) /\ Value(d) = id
  BY <1>1, DecimalIs
<1>3. Line(id) = Append(d, Newline)
  BY DEF Line
<1> HIDE DEF d
<1>4. strtoul(d) = id
  BY <1>1, <1>2, Widths DEF strtoul
<1>5. id % (UIntMax + 1) = id
  BY <1>1
<1>6. Number(d) = id
  BY <1>4, <1>5 DEF Number
<1>7. Len(Append(d, Newline)) = Len(d) + 1 /\ Len(d) \in Nat /\ \A c \in 1..Len(d) : Append(d, Newline)[c] = d[c]
  BY <1>2
<1> QED
  BY <1>2, <1>3, <1>6, <1>7 DEF d

-----------------------------------------------------------------------------
(* The text of a log *)

\* What the ends of the lines are.
Spaced(log, e) ==
  /\ Len(log) \in Nat /\ e[0] = 0 /\ e[Len(log)] = Len(Text(log))
  /\ \A k \in 0..Len(log) : e[k] \in Nat
  /\ \A k \in 1..Len(log) : e[k] = e[k - 1] + Len(Line(log[k]))
  /\ \A k \in 1..Len(log) :
       log[k] \in Ids /\ Len(Line(log[k])) \in Nat /\ Len(Line(log[k])) >= 2 /\ Len(Line(log[k])) <= Block

LEMMA EndsAre ==
  ASSUME NEW log \in Seq(Ids)
  PROVE  Spaced(log, Ends(log))
<1> DEFINE N == Len(log)
           ss == [k \in DOMAIN log |-> Line(log[k])]
<1>1. N \in Nat /\ DOMAIN log = 1..N /\ \A k \in 1..N : log[k] \in Ids
  OBVIOUS
<1>2. \A k \in 1..N : /\ Line(log[k]) \in Seq(Chars) /\ Len(Line(log[k])) \in Nat
                      /\ Len(Line(log[k])) >= 2 /\ Len(Line(log[k])) <= Block
  BY <1>1, LineIs
<1>3. ss \in Seq(Seq(Chars)) /\ Len(ss) = N /\ \A k \in 1..N : ss[k] = Line(log[k])
  BY <1>1, <1>2
<1>4. Text(log) = FlattenSeq(ss)
  BY DEF Text
<1> HIDE DEF ss, N
<1>5. PICK p : Joined(Chars, ss, p)
  BY <1>3, FlattenJoins
<1> DEFINE e == [k \in 0..N |-> Len(p[k])]
<1>6. \A k \in 0..N : e[k] = Len(p[k]) /\ Len(p[k]) \in Nat
  BY <1>3, <1>5, JoinedEnds
<1>7. e[0] = 0 /\ e[N] = Len(Text(log))
  <2>1. p[N] = FlattenSeq(ss) /\ Len(p[0]) = 0
    BY <1>3, <1>5, JoinedEnds
  <2>2. 0 \in 0..N /\ N \in 0..N
    BY <1>1
  <2> HIDE DEF e
  <2> QED
    BY ONLY <2>1, <2>2, <1>4, <1>6
<1>8. ASSUME NEW k \in 1..N PROVE e[k] = e[k - 1] + Len(Line(log[k]))
  <2>1. Follows(p[k], p[k - 1], ss[k])
    BY <1>3, <1>5, JoinedStep
  <2>2. k \in 0..N /\ k - 1 \in 0..N
    BY <1>1
  <2> HIDE DEF e
  <2> QED
    BY <2>1, <2>2, <1>3, <1>6 DEF Follows
<1>9. e \in [0..N -> Nat]
  BY <1>6
<1> HIDE DEF e
<1>10. EndsOf(log, e)
  BY <1>7, <1>8, <1>9 DEF EndsOf, N
<1> DEFINE c == Ends(log)
<1>11. EndsOf(log, c)
  BY <1>10 DEF Ends
<1> HIDE DEF c
<1>12. \A k \in 0..N : c[k] \in Nat
  BY <1>11 DEF EndsOf, N
<1>13. Spaced(log, c)
  BY <1>1, <1>2, <1>11, <1>12 DEF EndsOf, Spaced, N
<1> QED
  BY <1>13 DEF c

\* A later line ends later.
LEMMA EndsGrow ==
  ASSUME NEW log, NEW e, Spaced(log, e), NEW k \in 0..Len(log), NEW j \in 0..k
  PROVE  e[j] \in Nat /\ e[k] \in Nat /\ e[j] <= e[k]
<1> DEFINE T == {x \in 0..Len(log) : x < j \/ e[j] <= e[x]}
           N == Len(log)
<1>1. N \in Nat /\ j \in 0..N /\ j \in Nat /\ k \in Nat /\ \A x \in 0..N : e[x] \in Nat
  BY DEF Spaced
<1>2. 0 \in T
  <2>1. CASE j = 0
    BY <2>1, <1>1
  <2>2. CASE j # 0
    BY <2>2, <1>1
  <2> QED
    BY <2>1, <2>2
<1>3. ASSUME NEW x \in 0..N - 1, x \in T PROVE x + 1 \in T
  <2>1. x + 1 \in 1..N /\ x + 1 \in 0..N /\ x + 1 - 1 = x /\ x \in Nat /\ x \in 0..N
    BY <1>1
  <2> DEFINE y == x + 1
  <2>2. y \in 1..N /\ y - 1 = x
    BY <2>1
  <2> HIDE DEF y
  <2>3. e[y] = e[x] + Len(Line(log[y])) /\ Len(Line(log[y])) \in Nat
    BY <2>2 DEF Spaced
  <2>4. e[x + 1] >= e[x]
    BY <2>1, <2>3, <1>1 DEF y
  <2>5. x < j \/ e[j] <= e[x]
    BY <1>3
  <2>6. e[j] \in Nat /\ e[x] \in Nat /\ e[x + 1] \in Nat
    BY <1>1, <2>1
  <2>7. x + 1 < j \/ e[j] <= e[x + 1]
    <3>1. CASE x + 1 = j
      BY <3>1, <2>6
    <3>2. CASE x + 1 # j
      BY <3>2, <2>1, <2>4, <2>5, <2>6, <1>1
    <3> QED
      BY <3>1, <3>2
  <2> QED
    BY <2>1, <2>7
<1>4. 0..N \subseteq T
  <2> HIDE DEF T, N
  <2> QED
    BY ONLY <1>1, <1>2, <1>3, InductionUpTo
<1>5. k \in T
  BY <1>4
<1> QED
  BY <1>1, <1>5

\* Lines do not overlap.
LEMMA EndsApart ==
  ASSUME NEW log, NEW e, Spaced(log, e), NEW k \in 1..Len(log), NEW j \in 1..k - 1
  PROVE  j \in 1..Len(log) /\ e[j] <= e[k - 1]
<1>1. Len(log) \in Nat /\ k - 1 \in 0..Len(log) /\ j \in 0..k - 1 /\ j \in 1..Len(log)
  BY DEF Spaced
<1> QED
  BY <1>1, EndsGrow

\* Every place before the end of a line is one of it or of a line before it.
LEMMA PlaceIs ==
  ASSUME NEW log, NEW e, Spaced(log, e), NEW m \in 0..Len(log), NEW q, q \in 1..e[m]
  PROVE  \E k \in 1..m : \E c \in 1..Len(Line(log[k])) : q = e[k - 1] + c
<1> DEFINE T == {x \in 0..m : q <= e[x]}
<1>1. Len(log) \in Nat /\ e[0] = 0 /\ m \in Nat /\ e[m] \in Nat /\ q \in Nat /\ q >= 1
  BY DEF Spaced
<1>2. PICK k \in T : \A y \in T : k <= y
  <2>1. T \subseteq Nat /\ m \in T
    BY <1>1
  <2> HIDE DEF T
  <2> QED
    BY <2>1, LeastNatural
<1>3. k \in 1..m /\ q <= e[k] /\ k - 1 \in 0..m /\ k - 1 \notin T
  <2>1. k \in 0..m /\ q <= e[k]
    BY <1>2
  <2>2. k # 0
    BY <2>1, <1>1
  <2>3. k - 1 \notin T
    <3>1. k - 1 \in T => k <= k - 1
      BY <1>2
    <3> QED
      BY <3>1, <2>1, <1>1
  <2> QED
    BY <2>1, <2>2, <2>3, <1>1
<1>4. e[k - 1] \in Nat /\ e[k] = e[k - 1] + Len(Line(log[k])) /\ Len(Line(log[k])) \in Nat
  <2>1. k \in 1..Len(log) /\ k - 1 \in 0..Len(log)
    BY <1>1, <1>3
  <2> QED
    BY <2>1 DEF Spaced
<1>5. ~(q <= e[k - 1])
  BY <1>3
<1>6. q - e[k - 1] \in 1..Len(Line(log[k])) /\ q = e[k - 1] + (q - e[k - 1])
  BY <1>1, <1>3, <1>4, <1>5
<1> QED
  BY <1>3, <1>6

-----------------------------------------------------------------------------
(* What is in a text *)

\* What stands where in a concatenation.
LEMMA ConcatIs ==
  ASSUME NEW S, NEW s \in Seq(S), NEW t \in Seq(S)
  PROVE  /\ s \o t \in Seq(S) /\ Len(s \o t) = Len(s) + Len(t)
         /\ \A i \in 1..Len(s) : (s \o t)[i] = s[i]
         /\ \A i \in 1..Len(t) : (s \o t)[Len(s) + i] = t[i]
OBVIOUS

\* What stands in a text stays where it is when the text grows.
LEMMA StandsStays ==
  ASSUME NEW text \in Seq(Chars), NEW block \in Seq(Chars), NEW id \in Ids,
         NEW x \in 1..Len(text), StandsAt(text, x, id)
  PROVE  x \in 1..Len(text \o block) /\ StandsAt(text \o block, x, id)
<1> DEFINE W == Len(Line(id))
           u == text \o block
<1>1. Len(u) = Len(text) + Len(block) /\ Len(text) \in Nat /\ Len(block) \in Nat
      /\ \A i \in 1..Len(text) : u[i] = text[i]
  BY ConcatIs
<1>2. W \in Nat
  BY LineIs
<1>3. /\ x + W - 1 <= Len(text) /\ \A c \in 1..W : text[x + c - 1] = Line(id)[c]
      /\ x = 1 \/ text[x - 1] = Newline
  BY DEF StandsAt
<1>4. \A c \in 1..W : x + c - 1 \in 1..Len(text)
  BY <1>1, <1>2, <1>3
<1> HIDE DEF u, W
<1>5. \A c \in 1..W : u[x + c - 1] = Line(id)[c]
  BY <1>1, <1>3, <1>4
<1>6. x = 1 \/ u[x - 1] = Newline
  BY <1>1, <1>3
<1>7. x \in 1..Len(u) /\ x + W - 1 <= Len(u)
  BY <1>1, <1>2, <1>3
<1> QED
  BY <1>5, <1>6, <1>7 DEF StandsAt, u, W

\* What has been found stays found when the text grows.
LEMMA FoundStays ==
  ASSUME NEW text \in Seq(Chars), NEW block \in Seq(Chars)
  PROVE  FoundIn(text) \subseteq FoundIn(text \o block)
<1> SUFFICES ASSUME NEW id \in FoundIn(text)
             PROVE  id \in FoundIn(text \o block)
  OBVIOUS
<1>1. id \in Ids
  BY DEF FoundIn
<1>2. PICK x \in 1..Len(text) : StandsAt(text, x, id)
  BY DEF FoundIn
<1>3. x \in 1..Len(text \o block) /\ StandsAt(text \o block, x, id)
  BY <1>1, <1>2, StandsStays
<1> QED
  BY <1>1, <1>3 DEF FoundIn

\* Where the line of an id stands, its digits do, up to the newline.
LEMMA StandingDigits ==
  ASSUME NEW text \in Seq(Chars), NEW id \in Ids,
         NEW x \in 1..Len(text), StandsAt(text, x, id),
         NEW y, y = x + Len(Line(id)) - 2
  PROVE  /\ y \in x..Len(text) /\ y + 1 \in 1..Len(text) /\ text[y + 1] = Newline
         /\ \A k \in x..y : text[k] # Newline
         /\ Number(SubSeq(text, x, y)) = id
<1> DEFINE W == Len(Line(id))
           d == Decimal[id]
<1>1. /\ W \in Nat /\ W >= 2 /\ Line(id)[W] = Newline
      /\ \A c \in 1..W : c < W => Line(id)[c] # Newline
  BY LineIs
<1>2. Number(d) = id /\ Len(d) = W - 1 /\ d \in Seq(0..9) /\ \A c \in 1..Len(d) : d[c] = Line(id)[c]
  BY NumberIs
<1>3. x + W - 1 <= Len(text) /\ \A c \in 1..W : text[x + c - 1] = Line(id)[c]
  BY DEF StandsAt
<1>4. y = x + W - 2 /\ Len(text) \in Nat /\ x \in Nat /\ x >= 1
  OBVIOUS
<1> HIDE DEF W, d
<1>5. y \in x..Len(text) /\ y + 1 \in 1..Len(text)
  BY <1>1, <1>3, <1>4
<1>6. text[y + 1] = Newline
  <2>1. W \in 1..W /\ y + 1 = x + W - 1
    BY <1>1, <1>4
  <2>2. text[x + W - 1] = Line(id)[W]
    BY ONLY <1>3, <2>1
  <2> QED
    BY <1>1, <2>1, <2>2
<1>7. ASSUME NEW k \in x..y PROVE text[k] # Newline
  <2> DEFINE c == k - x + 1
  <2>1. c \in 1..W /\ c < W /\ x + c - 1 = k
    BY <1>1, <1>4
  <2> HIDE DEF c
  <2>2. text[k] = Line(id)[c]
    BY <2>1, <1>3
  <2> QED
    BY <2>1, <2>2, <1>1
<1> DEFINE s == SubSeq(text, x, y)
<1>8. s \in Seq(Chars) /\ Len(s) = W - 1 /\ \A c \in 1..W - 1 : s[c] = text[x + c - 1]
  <2>1. x \in 1..Len(text) + 1 /\ y \in x - 1..Len(text) /\ y - x + 1 = W - 1
    BY <1>1, <1>4, <1>5
  <2>2. /\ SubSeq(text, x, y) \in Seq(Chars) /\ Len(SubSeq(text, x, y)) = y - x + 1
        /\ \A j \in 1..(y - x + 1) : SubSeq(text, x, y)[j] = text[x + j - 1]
    BY <2>1, SubSeqProperties
  <2> QED
    BY <2>1, <2>2
<1> HIDE DEF s
<1>9. \A c \in 1..W - 1 : s[c] = d[c]
  BY <1>1, <1>2, <1>3, <1>8
<1>10. d \in Seq(Chars)
  BY <1>2 DEF Chars
<1>11. s = d
  BY <1>2, <1>8, <1>9, <1>10, SeqEqual
<1> QED
  BY <1>2, <1>5, <1>6, <1>7, <1>11 DEF s

\* A line that stands in the text is read as its id.
LEMMA FoundIsRead ==
  ASSUME NEW text \in Seq(Chars)
  PROVE  FoundIn(text) \subseteq Numbers(text)
<1> SUFFICES ASSUME NEW id \in FoundIn(text)
             PROVE  id \in Numbers(text)
  OBVIOUS
<1>1. id \in Ids
  BY DEF FoundIn
<1>2. PICK x \in 1..Len(text) : StandsAt(text, x, id)
  BY DEF FoundIn
<1>3. PICK y : y = x + Len(Line(id)) - 2
  OBVIOUS
<1>4. /\ y \in x..Len(text) /\ y + 1 \in 1..Len(text) /\ text[y + 1] = Newline
      /\ \A k \in x..y : text[k] # Newline
      /\ Number(SubSeq(text, x, y)) = id
  BY <1>1, <1>2, <1>3, StandingDigits
<1>5. x = 1 \/ text[x - 1] = Newline
  BY <1>2 DEF StandsAt
<1> DEFINE r == <<x, y>>
<1>6. r[1] = x /\ r[2] = y /\ r \in (1..Len(text)) \X (1..Len(text)) /\ x <= y
  BY <1>4
<1> HIDE DEF r
<1> QED
  BY <1>4, <1>5, <1>6 DEF Numbers

\* From a text of whole lines of some ids nothing else is read.
LEMMA OnlyLinesRead ==
  ASSUME NEW text \in Seq(Chars), NEW ids, ids \subseteq Ids, LinesOf(text, ids)
  PROVE  Numbers(text) \subseteq ids
<1> SUFFICES ASSUME NEW r \in (1..Len(text)) \X (1..Len(text)),
                    r[1] <= r[2] /\ \A k \in r[1]..r[2] : text[k] # Newline,
                    r[1] = 1 \/ text[r[1] - 1] = Newline,
                    r[2] = Len(text) \/ text[r[2] + 1] = Newline
             PROVE  Number(SubSeq(text, r[1], r[2])) \in ids
  BY DEF Numbers
<1> DEFINE i == r[1]
           j == r[2]
<1>1. i \in 1..Len(text) /\ j \in 1..Len(text) /\ Len(text) \in Nat /\ i <= j
  OBVIOUS
<1>2. \A k \in i..j : text[k] # Newline
  OBVIOUS
<1>3. (i = 1 \/ text[i - 1] = Newline) /\ (j = Len(text) \/ text[j + 1] = Newline)
  OBVIOUS
<1> HIDE DEF i, j
<1>4. j + 1 \in 1..Len(text) /\ text[j + 1] = Newline
  <2>1. j # Len(text)
    <3> SUFFICES ASSUME j = Len(text) PROVE FALSE
      OBVIOUS
    <3>1. text # <<>> /\ Last(text) # Newline
      BY <1>1, <1>2 DEF Last
    <3> QED
      BY <3>1 DEF LinesOf, Torn
  <2> QED
    BY <2>1, <1>1, <1>3
<1>5. PICK id \in ids : \E x \in 1..Len(text) :
        StandsAt(text, x, id) /\ j + 1 = x + Len(Line(id)) - 1
  BY <1>4 DEF LinesOf
<1>6. PICK x \in 1..Len(text) : StandsAt(text, x, id) /\ j + 1 = x + Len(Line(id)) - 1
  BY <1>5
<1>7. id \in Ids /\ Len(Line(id)) \in Nat
  BY LineIs
<1>8. j = x + Len(Line(id)) - 2
  BY <1>1, <1>6, <1>7
<1>9. /\ j \in x..Len(text) /\ \A k \in x..j : text[k] # Newline
      /\ Number(SubSeq(text, x, j)) = id
  BY <1>6, <1>7, <1>8, StandingDigits
<1>10. x = 1 \/ text[x - 1] = Newline
  BY <1>6 DEF StandsAt
<1>11. x = i
  <2>1. CASE x < i
    <3>1. i - 1 \in x..j /\ i # 1
      BY <2>1, <1>1
    <3> QED
      BY <3>1, <1>3, <1>9
  <2>2. CASE x > i
    <3>1. x - 1 \in i..j /\ x # 1
      BY <2>2, <1>1, <1>9
    <3> QED
      BY <3>1, <1>2, <1>10
  <2> QED
    BY <2>1, <2>2, <1>1
<1> QED
  BY <1>9, <1>11 DEF i, j

-----------------------------------------------------------------------------
(* Parts of the lines of a log *)

\* A line put behind the lines that are printed is part of the log.
LEMMA LinePut ==
  ASSUME NEW text \in Seq(Chars), NEW log \in Seq(Ids), NEW n \in Nat, NEW m \in Nat,
         m + 1 <= Len(log), n + Len(text) = Ends(log)[m], PartOf(text, log, n, m)
  PROVE  PartOf(text \o Line(log[m + 1]), log, n, m + 1)
<1> SUFFICES ASSUME NEW line, line = Line(log[m + 1]),
                    NEW out, out = text \o line
             PROVE  PartOf(out, log, n, m + 1)
  OBVIOUS
<1>1. PICK E : E = Ends(log) /\ Spaced(log, E)
  BY EndsAre
<1>2. log[m + 1] \in Ids /\ m \in 0..Len(log)
  OBVIOUS
<1>3. line \in Seq(Chars) /\ Len(line) \in Nat
  BY <1>2, LineIs
<1>4. /\ Len(out) = Len(text) + Len(line)
      /\ \A i \in 1..Len(text) : out[i] = text[i]
      /\ \A i \in 1..Len(line) : out[Len(text) + i] = line[i]
  BY <1>3, ConcatIs
<1>5. ASSUME NEW k \in 1..m + 1, NEW c \in 1..Len(Line(log[k])),
             n < E[k - 1] + c, E[k - 1] + c <= n + Len(out)
      PROVE  out[E[k - 1] + c - n] = Line(log[k])[c]
  <2>1. CASE k = m + 1
    <3>1. E[k - 1] + c - n = Len(text) + c /\ c \in 1..Len(line)
      BY <2>1, <1>1
    <3>2. out[Len(text) + c] = line[c]
      BY <3>1, <1>4
    <3> QED
      BY <2>1, <3>1, <3>2
  <2>2. CASE k # m + 1
    <3>1. k \in 1..m /\ k \in 1..Len(log) /\ k \in 0..m
      BY <2>2
    <3>2. E[k] = E[k - 1] + Len(Line(log[k])) /\ E[k] <= E[m] /\ Len(Line(log[k])) \in Nat
          /\ E[k - 1] \in Nat /\ E[k] \in Nat /\ E[m] \in Nat
      <4>1. k - 1 \in 0..Len(log)
        BY <3>1
      <4> QED
        BY <3>1, <4>1, <1>1, <1>2, EndsGrow DEF Spaced
    <3>a. c \in 1..Len(Line(log[k])) /\ n < E[k - 1] + c /\ n \in Nat /\ Len(text) \in Nat
          /\ n + Len(text) = E[m]
      BY <1>1, <1>5
    <3>3. E[k - 1] + c <= n + Len(text) /\ E[k - 1] + c - n \in 1..Len(text)
      <4> DEFINE from == E[k - 1]
                 to == E[k]
                 end == E[m]
                 w == Len(Line(log[k]))
                 t == Len(text)
      <4>1. /\ to = from + w /\ to <= end /\ w \in Nat /\ from \in Nat /\ to \in Nat /\ end \in Nat
            /\ c \in 1..w /\ n < from + c /\ n \in Nat /\ t \in Nat /\ n + t = end
        BY ONLY <3>a, <3>2
      <4> HIDE DEF from, to, end, w, t
      <4>2. from + c <= n + t /\ from + c - n \in 1..t
        BY ONLY <4>1
      <4> QED
        BY ONLY <4>2 DEF from, t
    <3>4. text[E[k - 1] + c - n] = Line(log[k])[c]
      <4>1. \A l \in 1..m : \A x \in 1..Len(Line(log[l])) :
              n < E[l - 1] + x /\ E[l - 1] + x <= n + Len(text) =>
                text[E[l - 1] + x - n] = Line(log[l])[x]
        BY <1>1 DEF PartOf
      <4> QED
        BY ONLY <4>1, <3>1, <3>3, <3>a
    <3> QED
      BY <3>3, <3>4, <1>4
  <2> QED
    BY <2>1, <2>2
<1> QED
  BY <1>1, <1>5 DEF PartOf

\* A place of the lines is one of the part of l characters behind the n-th, and of
\* what of it is behind its b-th.
LEMMA PlaceInPart ==
  ASSUME NEW a \in Nat, NEW c \in Nat, NEW n \in Nat, NEW l \in Nat, NEW b \in Nat, b <= l
  PROVE  /\ n < a + c /\ a + c <= n + b => a + c - n \in 1..b /\ a + c <= n + l
         /\ n + b < a + c /\ a + c <= n + b + (l - b) =>
              /\ a + c - (n + b) \in 1..l - b /\ n < a + c /\ a + c <= n + l
              /\ b + (a + c - (n + b)) = a + c - n
OBVIOUS

\* A part that is cut in two is two parts.
LEMMA PartCut ==
  ASSUME NEW text \in Seq(Chars), NEW log \in Seq(Ids), NEW n \in Nat, NEW m \in 0..Len(log),
         NEW b \in Nat, b <= Len(text), PartOf(text, log, n, m)
  PROVE  /\ PartOf(SubSeq(text, 1, b), log, n, m)
         /\ PartOf(SubSeq(text, b + 1, Len(text)), log, n + b, m)
<1> DEFINE first == SubSeq(text, 1, b)
           rest == SubSeq(text, b + 1, Len(text))
<1>1. Len(first) = b /\ \A i \in 1..b : first[i] = text[i]
  OBVIOUS
<1>2. Len(rest) = Len(text) - b /\ \A i \in 1..Len(text) - b : rest[i] = text[b + i]
  OBVIOUS
<1> HIDE DEF first, rest
<1>3. PICK E : E = Ends(log) /\ Spaced(log, E)
  BY EndsAre
<1>4. n \in Nat /\ b \in Nat /\ b <= Len(text) /\ Len(text) \in Nat
  OBVIOUS
<1>5. ASSUME NEW k \in 1..m, NEW c \in 1..Len(Line(log[k])) PROVE E[k - 1] \in Nat /\ c \in Nat
  <2>1. k - 1 \in 0..Len(log) /\ k \in 1..Len(log)
    OBVIOUS
  <2>2. E[k - 1] \in Nat /\ Len(Line(log[k])) \in Nat
    BY <2>1, <1>3 DEF Spaced
  <2> QED
    BY <2>2
<1>6. ASSUME NEW k \in 1..m, NEW c \in 1..Len(Line(log[k])),
             n < E[k - 1] + c, E[k - 1] + c <= n + Len(first)
      PROVE  first[E[k - 1] + c - n] = Line(log[k])[c]
  <2> DEFINE a == E[k - 1]
  <2>1. a \in Nat /\ c \in Nat
    BY <1>5
  <2>2. n < a + c /\ a + c <= n + b
    BY <1>1, <1>6
  <2> HIDE DEF a
  <2>3. a + c - n \in 1..b /\ a + c <= n + Len(text)
    BY ONLY <2>1, <2>2, <1>4, PlaceInPart
  <2>4. text[a + c - n] = Line(log[k])[c]
    BY <2>2, <2>3, <1>3 DEF PartOf, a
  <2>5. first[a + c - n] = text[a + c - n]
    BY ONLY <2>3, <1>1
  <2> QED
    BY <2>4, <2>5 DEF a
<1>7. ASSUME NEW k \in 1..m, NEW c \in 1..Len(Line(log[k])),
             n + b < E[k - 1] + c, E[k - 1] + c <= n + b + Len(rest)
      PROVE  rest[E[k - 1] + c - (n + b)] = Line(log[k])[c]
  <2> DEFINE a == E[k - 1]
  <2>1. a \in Nat /\ c \in Nat
    BY <1>5
  <2>2. n + b < a + c /\ a + c <= n + b + (Len(text) - b)
    BY <1>2, <1>7
  <2> HIDE DEF a
  <2>3. /\ a + c - (n + b) \in 1..Len(text) - b /\ n < a + c /\ a + c <= n + Len(text)
        /\ b + (a + c - (n + b)) = a + c - n
    BY ONLY <2>1, <2>2, <1>4, PlaceInPart
  <2>4. text[a + c - n] = Line(log[k])[c]
    BY <2>3, <1>3 DEF PartOf, a
  <2>5. rest[a + c - (n + b)] = text[b + (a + c - (n + b))]
    BY ONLY <2>3, <1>2
  <2> QED
    BY <2>3, <2>4, <2>5 DEF a
<1> QED
  BY <1>3, <1>6, <1>7 DEF PartOf, first, rest

\* Where a line that begins at a of the log's text is, behind a text of t characters
\* and a part of l characters that begins at n.
LEMMA PlaceBehindText ==
  ASSUME NEW t \in Nat, NEW l \in Nat, NEW a \in Nat, NEW w \in Nat, NEW n \in Nat,
         w >= 2, n <= a, a + w <= n + l, NEW x, x = t + a - n + 1
  PROVE  /\ x \in 1..t + l /\ x + w - 1 <= t + l
         /\ \A c \in 1..w : /\ a + c - n \in 1..l /\ t + (a + c - n) = x + c - 1
                            /\ n < a + c /\ a + c <= n + l
         /\ n < a => a - n \in 1..l /\ t + (a - n) = x - 1
         /\ n = a => x = t + 1
OBVIOUS

\* A line that lies within a block stands in the text behind which the block is put,
\* unless it is the first of the block and the text was torn.
LEMMA LineStands ==
  ASSUME NEW text \in Seq(Chars), NEW block \in Seq(Chars),
         NEW log \in Seq(Ids), NEW n \in Nat, NEW m \in 0..Len(log), PartOf(block, log, n, m),
         NEW k \in 1..m, n <= Ends(log)[k - 1], Ends(log)[k] <= n + Len(block),
         n < Ends(log)[k - 1] \/ ~Torn(text),
         NEW x, x = Len(text) + Ends(log)[k - 1] - n + 1
  PROVE  x \in 1..Len(text \o block) /\ StandsAt(text \o block, x, log[k])
<1> DEFINE W == Len(Line(log[k]))
<1>1. PICK E : E = Ends(log) /\ Spaced(log, E)
  BY EndsAre
<1>2. PICK whole : whole = text \o block
  OBVIOUS
<1>3. /\ Len(whole) = Len(text) + Len(block) /\ Len(text) \in Nat /\ Len(block) \in Nat
      /\ \A i \in 1..Len(text) : whole[i] = text[i]
      /\ \A i \in 1..Len(block) : whole[Len(text) + i] = block[i]
  BY <1>2, ConcatIs
<1>4. k \in 1..Len(log) /\ k - 1 \in 0..Len(log) /\ k \in Nat
  OBVIOUS
<1>5. E[k] = E[k - 1] + W /\ E[k - 1] \in Nat /\ E[k] \in Nat /\ W \in Nat /\ W >= 2
  BY <1>1, <1>4 DEF Spaced
<1>6. \A j \in 1..m : \A c \in 1..Len(Line(log[j])) :
        n < E[j - 1] + c /\ E[j - 1] + c <= n + Len(block) =>
          block[E[j - 1] + c - n] = Line(log[j])[c]
  BY <1>1 DEF PartOf
<1>7. /\ n <= E[k - 1] /\ E[k] <= n + Len(block) /\ x = Len(text) + E[k - 1] - n + 1
      /\ n < E[k - 1] \/ ~Torn(text)
  BY <1>1
<1>p. PICK a, w, t, l : a = E[k - 1] /\ w = W /\ t = Len(text) /\ l = Len(block)
  OBVIOUS
<1>q. /\ t \in Nat /\ l \in Nat /\ a \in Nat /\ w \in Nat /\ n \in Nat
      /\ w >= 2 /\ n <= a /\ a + w <= n + l /\ x = t + a - n + 1
  BY <1>3, <1>5, <1>7, <1>p
<1>r. /\ x \in 1..t + l /\ x + w - 1 <= t + l
      /\ \A c \in 1..w : /\ a + c - n \in 1..l /\ t + (a + c - n) = x + c - 1
                         /\ n < a + c /\ a + c <= n + l
      /\ n < a => a - n \in 1..l /\ t + (a - n) = x - 1
      /\ n = a => x = t + 1
  BY ONLY <1>q, PlaceBehindText
<1> HIDE DEF W
<1>8. x \in 1..Len(whole) /\ x + W - 1 <= Len(whole)
  BY ONLY <1>3, <1>p, <1>r
<1>9. ASSUME NEW c \in 1..W PROVE whole[x + c - 1] = Line(log[k])[c]
  <2>1. /\ E[k - 1] + c - n \in 1..Len(block) /\ Len(text) + (E[k - 1] + c - n) = x + c - 1
        /\ n < E[k - 1] + c /\ E[k - 1] + c <= n + Len(block)
    BY ONLY <1>p, <1>r
  <2>2. block[E[k - 1] + c - n] = Line(log[k])[c]
    BY <2>1, <1>6 DEF W
  <2>3. whole[Len(text) + (E[k - 1] + c - n)] = block[E[k - 1] + c - n]
    BY ONLY <2>1, <1>3
  <2> QED
    BY <2>1, <2>2, <2>3
<1>10. x = 1 \/ whole[x - 1] = Newline
  <2>1. CASE E[k - 1] = n
    <3>1. x = Len(text) + 1 /\ ~Torn(text)
      BY <2>1, <1>3, <1>5, <1>7, <1>p, <1>r
    <3>2. CASE text = <<>>
      BY <3>1, <3>2
    <3>3. CASE text # <<>>
      <4>1. Last(text) = Newline
        BY <3>1, <3>3 DEF Torn
      <4>2. text[Len(text)] = Newline /\ Len(text) \in 1..Len(text)
        BY <4>1, <3>3 DEF Last
      <4>3. whole[Len(text)] = Newline /\ x - 1 = Len(text)
        BY <4>2, <3>1, <1>3
      <4> QED
        BY ONLY <4>3
    <3> QED
      BY <3>2, <3>3
  <2>2. CASE E[k - 1] # n
    <3>1. k # 1
      BY <2>2, <1>1, <1>5, <1>7 DEF Spaced
    <3>2. PICK j : j = k - 1
      OBVIOUS
    <3>3. j \in 1..m /\ j \in 1..Len(log) /\ j - 1 \in 0..Len(log)
      BY <3>1, <3>2, <1>4
    <3> DEFINE V == Len(Line(log[j]))
    <3>4. E[j] = E[j - 1] + V /\ E[j - 1] \in Nat /\ V \in Nat /\ V >= 2 /\ E[j] = E[k - 1]
          /\ log[j] \in Ids
      BY <3>2, <3>3, <1>1 DEF Spaced
    <3>a. n < a
      BY <2>2, <1>5, <1>7, <1>p
    <3>b. E[j - 1] + V = a
      BY <3>4, <1>p
    <3>5. V \in 1..V /\ n < a /\ a <= n + Len(block) /\ a - n \in 1..Len(block)
          /\ Len(text) + (a - n) = x - 1
      <4>1. V \in 1..V
        BY <3>4
      <4>2. a <= n + l
        BY ONLY <1>q
      <4>3. n < a /\ a <= n + Len(block) /\ a - n \in 1..Len(block) /\ Len(text) + (a - n) = x - 1
        BY ONLY <4>2, <3>a, <1>p, <1>r
      <4> QED
        BY ONLY <4>1, <4>3
    <3>6. block[a - n] = Line(log[j])[V]
      <4>1. n < E[j - 1] + V /\ E[j - 1] + V <= n + Len(block) =>
              block[E[j - 1] + V - n] = Line(log[j])[V]
        BY <3>3, <3>5, <1>6
      <4>2. E[j - 1] + V - n = a - n
        <5> DEFINE b == E[j - 1]
                   v == Len(Line(log[j]))
        <5>1. b \in Nat /\ v \in Nat /\ n \in Nat /\ b + v = a
          BY <3>4, <3>b
        <5> HIDE DEF b, v
        <5>2. b + v - n = a - n
          BY ONLY <5>1
        <5> QED
          BY <5>2 DEF b, v
      <4> QED
        BY ONLY <4>1, <4>2, <3>5, <3>b
    <3>7. Line(log[j])[V] = Newline
      BY <3>4, LineIs
    <3>8. whole[Len(text) + (a - n)] = block[a - n]
      BY ONLY <3>5, <1>3
    <3> QED
      BY ONLY <3>5, <3>6, <3>7, <3>8
  <2> QED
    BY <2>1, <2>2
<1>11. StandsAt(whole, x, log[k])
  BY <1>8, <1>9, <1>10 DEF StandsAt, W
<1> QED
  BY <1>2, <1>8, <1>11

\* A set within a union is no larger than its parts together.
LEMMA UnionBound ==
  ASSUME NEW S, IsFiniteSet(S), NEW T, IsFiniteSet(T), NEW U, U \subseteq S \union T
  PROVE  /\ IsFiniteSet(U) /\ Cardinality(U) \in Nat
         /\ Cardinality(S) \in Nat /\ Cardinality(T) \in Nat
         /\ Cardinality(U) <= Cardinality(S) + Cardinality(T)
<1>1. /\ IsFiniteSet(S \union T)
      /\ Cardinality(S \union T) = Cardinality(S) + Cardinality(T) - Cardinality(S \intersect T)
  BY FS_Union
<1>2. IsFiniteSet(S \intersect T)
  BY FS_Intersection
<1>3. /\ Cardinality(S) \in Nat /\ Cardinality(T) \in Nat
      /\ Cardinality(S \intersect T) \in Nat /\ Cardinality(S \union T) \in Nat
  BY <1>1, <1>2, FS_CardinalityType
<1>4. IsFiniteSet(U) /\ Cardinality(U) <= Cardinality(S \union T)
  BY <1>1, FS_Subset
<1>5. Cardinality(U) \in Nat
  BY <1>4, FS_CardinalityType
<1> QED
  BY <1>1, <1>3, <1>4, <1>5

\* Of the lines that begin in a block behind a text, two at most are not found there
\* afterwards: the first, if the text was torn, and the last, if it is now.
LEMMA BlockLoss ==
  ASSUME NEW text \in Seq(Chars), NEW block \in Seq(Chars), block # <<>>,
         NEW log \in Seq(Ids), NEW n \in Nat, NEW m \in 0..Len(log),
         n + Len(block) <= Ends(log)[m], PartOf(block, log, n, m)
  PROVE  /\ IsFiniteSet(Missed(text, block, log, n, m))
         /\ Cardinality(Missed(text, block, log, n, m)) <= TornEnd(text) + TornEnd(text \o block)
<1> DEFINE e == n + Len(block)
           whole == text \o block
           lt == Len(text)
           lb == Len(block)
<1>1. e \in Nat /\ n \in Nat /\ lt \in Nat /\ lb \in Nat /\ lb >= 1 /\ m \in Nat /\ e = n + lb
  OBVIOUS
<1>2. /\ Len(whole) = lt + lb /\ whole # <<>>
      /\ \A i \in 1..lb : whole[lt + i] = block[i]
      /\ Last(whole) = block[lb]
  BY DEF Last
<1>3. PICK E : E = Ends(log) /\ Spaced(log, E)
  BY EndsAre
<1>4. ASSUME NEW k \in 1..m
      PROVE  /\ log[k] \in Ids /\ E[k - 1] \in Nat /\ E[k] \in Nat
             /\ E[k] = E[k - 1] + Len(Line(log[k]))
             /\ Len(Line(log[k])) \in Nat /\ Len(Line(log[k])) >= 2
             /\ E[k - 1] < E[k]
  <2>1. k \in 1..Len(log) /\ k - 1 \in 0..Len(log) /\ k \in 0..Len(log)
    OBVIOUS
  <2>2. /\ log[k] \in Ids /\ E[k - 1] \in Nat /\ E[k] \in Nat
        /\ E[k] = E[k - 1] + Len(Line(log[k]))
        /\ Len(Line(log[k])) \in Nat /\ Len(Line(log[k])) >= 2
    BY <2>1, <1>3 DEF Spaced
  <2> QED
    BY ONLY <2>2
<1>5. ASSUME NEW k \in 1..m, NEW j \in 1..m, j < k
      PROVE  E[j - 1] < E[j] /\ E[j] <= E[k - 1] /\ E[k - 1] < E[k]
  <2>1. k \in 1..Len(log) /\ j \in 1..k - 1
    BY <1>5
  <2>2. E[j] <= E[k - 1]
    BY <2>1, <1>3, EndsApart
  <2>3. E[j - 1] < E[j] /\ E[k - 1] < E[k]
    BY <1>4
  <2> QED
    BY ONLY <2>2, <2>3
<1>6. ASSUME NEW k \in 1..m, NEW j \in 1..m, j # k
      PROVE  \/ E[j - 1] < E[j] /\ E[j] <= E[k - 1] /\ E[k - 1] < E[k]
             \/ E[k - 1] < E[k] /\ E[k] <= E[j - 1] /\ E[j - 1] < E[j]
  <2>1. j < k \/ k < j
    BY <1>6
  <2> QED
    BY <2>1, <1>5
<1>7. \E a : \A k \in 1..m : E[k - 1] = n => log[k] = a
  <2>1. CASE \E j \in 1..m : E[j - 1] = n
    <3>1. PICK j \in 1..m : E[j - 1] = n
      BY <2>1
    <3>2. ASSUME NEW k \in 1..m, E[k - 1] = n, k # j PROVE FALSE
      <4>1. E[j - 1] \in Nat /\ E[j] \in Nat /\ E[k - 1] \in Nat /\ E[k] \in Nat
        BY <1>4
      <4>2. \/ E[j - 1] < E[j] /\ E[j] <= E[k - 1] /\ E[k - 1] < E[k]
            \/ E[k - 1] < E[k] /\ E[k] <= E[j - 1] /\ E[j - 1] < E[j]
        BY <3>2, <1>6
      <4> QED
        BY ONLY <4>1, <4>2, <3>1, <3>2
    <3> QED
      BY <3>2
  <2> QED
    BY <2>1
<1>8. \E b : \A k \in 1..m : E[k - 1] < e /\ e < E[k] => log[k] = b
  <2>1. CASE \E j \in 1..m : E[j - 1] < e /\ e < E[j]
    <3>1. PICK j \in 1..m : E[j - 1] < e /\ e < E[j]
      BY <2>1
    <3> HIDE DEF e
    <3>2. ASSUME NEW k \in 1..m, E[k - 1] < e, e < E[k], k # j PROVE FALSE
      <4>1. E[j - 1] \in Nat /\ E[j] \in Nat /\ E[k - 1] \in Nat /\ E[k] \in Nat
        BY <1>4
      <4>2. \/ E[j - 1] < E[j] /\ E[j] <= E[k - 1] /\ E[k - 1] < E[k]
            \/ E[k - 1] < E[k] /\ E[k] <= E[j - 1] /\ E[j - 1] < E[j]
        BY <3>2, <1>6
      <4>3. e \in Nat
        BY <1>1
      <4> QED
        BY ONLY <4>1, <4>2, <4>3, <3>1, <3>2
    <3> QED
      BY <3>2
  <2> QED
    BY <2>1
<1>9. PICK a : \A k \in 1..m : E[k - 1] = n => log[k] = a
  BY <1>7
<1>10. PICK b : \A k \in 1..m : E[k - 1] < e /\ e < E[k] => log[k] = b
  BY <1>8
<1> HIDE DEF e, whole, lt, lb
<1>11. ASSUME NEW k \in 1..m, n <= E[k - 1], E[k - 1] < e
       PROVE  \/ log[k] \in FoundIn(whole)
              \/ Torn(text) /\ log[k] = a
              \/ Torn(whole) /\ log[k] = b
  <2>1. CASE e < E[k]
    <3>1. PICK f, w : f = E[k - 1] /\ w = Len(Line(log[k]))
      OBVIOUS
    <3>2. f \in Nat /\ w \in Nat /\ n <= f /\ f < e /\ e < f + w
      BY <2>1, <1>4, <1>11, <3>1
    <3>3. PICK c : c = e - f
      OBVIOUS
    <3>4. c \in 1..w /\ c < w /\ f + c = e /\ f + c - n = lb /\ n < f + c /\ f + c <= n + lb
      BY ONLY <3>2, <3>3, <1>1
    <3>a. block[f + c - n] = Line(log[k])[c]
      BY <3>1, <3>4, <1>3 DEF PartOf, lb
    <3>b. Line(log[k])[c] # Newline
      BY <3>1, <3>4, <1>4, LineIs
    <3>5. Torn(whole)
      BY <1>2, <3>4, <3>a, <3>b DEF Torn
    <3> QED
      BY <3>5, <2>1, <1>10, <1>11
  <2>2. CASE E[k] <= e /\ ~(Torn(text) /\ E[k - 1] = n)
    <3>1. PICK x : x = Len(text) + E[k - 1] - n + 1
      OBVIOUS
    <3>2. n < E[k - 1] \/ ~Torn(text)
      BY <2>2, <1>1, <1>4, <1>11
    <3>3. E[k] <= n + Len(block)
      BY <2>2 DEF e
    <3>4. x \in 1..Len(whole) /\ StandsAt(whole, x, log[k])
      BY <3>1, <3>2, <3>3, <1>3, <1>11, LineStands DEF whole
    <3> QED
      BY <3>4, <1>4 DEF FoundIn
  <2>3. CASE E[k] <= e /\ Torn(text) /\ E[k - 1] = n
    BY <2>3, <1>9, <1>11
  <2> QED
    BY <2>1, <2>2, <2>3, <1>1, <1>4
<1> DEFINE A == IF Torn(text) THEN {a} ELSE {}
           B == IF Torn(whole) THEN {b} ELSE {}
<1>12. Missed(text, block, log, n, m) \subseteq A \union B
  BY <1>3, <1>11 DEF Missed, e, whole
<1>13. IsFiniteSet(A) /\ Cardinality(A) = TornEnd(text)
  BY FS_EmptySet, FS_Singleton DEF TornEnd
<1>14. IsFiniteSet(B) /\ Cardinality(B) = TornEnd(whole)
  BY FS_EmptySet, FS_Singleton DEF TornEnd
<1> HIDE DEF A, B
<1>15. /\ IsFiniteSet(Missed(text, block, log, n, m))
       /\ Cardinality(Missed(text, block, log, n, m)) <= Cardinality(A) + Cardinality(B)
  BY <1>12, <1>13, <1>14, UnionBound
<1> QED
  BY <1>13, <1>14, <1>15 DEF whole

-----------------------------------------------------------------------------
(* The loss *)

\* Only ids are lost, so they are finitely many.
LEMMA LostIsFinite ==
  ASSUME Shape
  PROVE  /\ \A p \in Procs : due[p] \in Seq(Ids)
         /\ IsFiniteSet(Lost) /\ Cardinality(Lost) \in Nat
<1>1. \A p \in Procs : due[p] \in Seq(Ids)
  BY IdsAreUnsigned DEF Shape
<1>2. Lost \subseteq Ids
  <2>1. ASSUME NEW p \in Procs PROVE Begun(p) \subseteq Ids
    <3>1. \A k \in 1..printed[p] : k \in 1..Len(due[p])
      BY DEF Shape
    <3> QED
      BY <1>1, <3>1 DEF Begun
  <2> QED
    BY <2>1 DEF Lost
<1>3. IsFiniteSet(Ids)
  <2>1. 1 \in Int /\ UIntMax \in Int
    BY Widths
  <2> QED
    BY <2>1, FS_Interval DEF Ids
<1> QED
  BY <1>1, <1>2, <1>3, FS_Subset, FS_CardinalityType

\* A process that hands a block to the file keeps the loss within its bound.
LEMMA WriteKeepsTheBound ==
  ASSUME Shape, Shape', LossSoFar,
         NEW p \in Procs, NEW block \in Seq(Chars), WriteOut(block),
         due' = due, printed[p] <= printed'[p],
         Written(p) \in Nat, Written(p) <= Ends(due[p])[printed[p]],
         Written(p) + Len(block) <= Ends(due[p])[printed'[p]],
         PartOf(block, due[p], Written(p), printed'[p]),
         Written(p)' = Written(p) + Len(block),
         \A q \in Procs : q # p => Begun(q)' = Begun(q)
  PROVE  LossSoFar'
<1>1. /\ file \in Seq(Chars) /\ splits \in Nat /\ due[p] \in Seq(Ids)
      /\ printed[p] \in Nat /\ printed'[p] \in Nat /\ printed'[p] <= Len(due[p])
  BY LostIsFinite DEF Shape
<1>2. file' = file \o block /\ FoundIn(file) \subseteq FoundIn(file')
  BY <1>1, FoundStays DEF WriteOut
<1>n. \A k \in 1..printed'[p] : Ends(due[p])[k - 1] \in Nat
  <2>1. \A k \in 1..printed'[p] : k - 1 \in 0..Len(due[p])
    BY <1>1
  <2>2. Spaced(due[p], Ends(due[p]))
    BY <1>1, EndsAre
  <2> QED
    BY <2>1, <2>2 DEF Spaced
<1>3. ASSUME NEW x \in Lost', x \notin Lost
      PROVE  \E k \in 1..printed'[p] :
               /\ Written(p) <= Ends(due[p])[k - 1] /\ Ends(due[p])[k - 1] < Written(p) + Len(block)
               /\ x = due[p][k]
  <2>1. x \notin FoundIn(file') /\ x \notin FoundIn(file)
    BY <1>2 DEF Lost
  <2>2. x \in Begun(p)' /\ x \notin Begun(p)
    <3>1. PICK q \in Procs : x \in Begun(q)'
      BY DEF Lost
    <3>2. x \notin Begun(q)
      BY <1>3, <2>1 DEF Lost
    <3> QED
      BY <3>1, <3>2
  <2>3. PICK k \in 1..printed'[p] : Ends(due[p])[k - 1] < Written(p)' /\ x = due[p][k]
    BY <2>2 DEF Begun
  <2>4. Written(p) <= Ends(due[p])[k - 1]
    <3>1. CASE k <= printed[p]
      <4>1. k \in 1..printed[p] /\ ~(Ends(due[p])[k - 1] < Written(p))
        BY <2>2, <2>3, <3>1, <1>1 DEF Begun
      <4> QED
        BY <4>1, <1>1, <1>n
    <3>2. CASE k > printed[p]
      <4>1. printed[p] \in 0..k - 1 /\ k - 1 \in 0..Len(due[p])
        BY <3>2, <1>1
      <4>2. PICK E : E = Ends(due[p]) /\ Spaced(due[p], E)
        BY <1>1, EndsAre
      <4>3. E[printed[p]] \in Nat /\ E[k - 1] \in Nat /\ E[printed[p]] <= E[k - 1]
        BY <4>1, <4>2, EndsGrow
      <4> QED
        BY <4>2, <4>3
    <3> QED
      BY <3>1, <3>2, <1>1
  <2> QED
    BY <2>3, <2>4
<1>4. CASE block = <<>>
  <2>1. Len(block) = 0
    BY <1>4
  <2>2. Lost' \subseteq Lost
    <3> SUFFICES ASSUME NEW x \in Lost', x \notin Lost PROVE FALSE
      OBVIOUS
    <3>1. PICK k \in 1..printed'[p] :
            Written(p) <= Ends(due[p])[k - 1] /\ Ends(due[p])[k - 1] < Written(p) + Len(block)
      BY <1>3
    <3>2. Ends(due[p])[k - 1] \in Nat /\ Written(p) \in Nat
      BY <1>n
    <3> QED
      BY ONLY <3>1, <3>2, <2>1
  <2>3. Cardinality(Lost') <= Cardinality(Lost) /\ Cardinality(Lost') \in Nat
    BY <2>2, LostIsFinite, FS_Subset, FS_CardinalityType
  <2>4. file' = file /\ splits' = splits
    BY <1>1, <1>4 DEF WriteOut
  <2> QED
    BY <2>3, <2>4, LostIsFinite, <1>1 DEF LossSoFar, TornEnd
<1>5. CASE block # <<>>
  <2> DEFINE missed == Missed(file, block, due[p], Written(p), printed'[p])
  <2>1. IsFiniteSet(missed) /\ Cardinality(missed) <= TornEnd(file) + TornEnd(file')
    <3>1. printed'[p] \in 0..Len(due[p])
      BY <1>1
    <3> QED
      BY <1>1, <1>2, <1>5, <3>1, BlockLoss
  <2>2. Lost' \subseteq Lost \union missed
    <3> SUFFICES ASSUME NEW x \in Lost', x \notin Lost
                 PROVE  x \in missed
      OBVIOUS
    <3>1. x \notin FoundIn(file')
      BY DEF Lost
    <3> QED
      BY <3>1, <1>2, <1>3 DEF Missed
  <2>4. splits' = splits + TornEnd(file')
    <3>1. file' # <<>> /\ Last(file') = Last(block)
      BY <1>1, <1>2, <1>5 DEF Last
    <3> QED
      BY <3>1, <1>1, <1>5 DEF WriteOut, Torn, TornEnd
  <2>5. TornEnd(file) \in 0..1 /\ TornEnd(file') \in 0..1
    BY DEF TornEnd
  <2> HIDE DEF missed
  <2>6. /\ Cardinality(Lost') \in Nat /\ Cardinality(Lost) \in Nat /\ Cardinality(missed) \in Nat
        /\ Cardinality(Lost') <= Cardinality(Lost) + Cardinality(missed)
    BY <2>1, <2>2, LostIsFinite, UnionBound
  <2>7. Cardinality(Lost) <= 2 * splits - TornEnd(file)
    BY DEF LossSoFar
  <2>8. Cardinality(Lost') <= 2 * splits + TornEnd(file')
    BY <2>1, <2>5, <2>6, <2>7, <1>1
  <2>9. 2 * splits + TornEnd(file') = 2 * splits' - TornEnd(file')
    BY <2>4, <2>5, <1>1
  <2> QED
    BY <2>8, <2>9 DEF LossSoFar
<1> QED
  BY <1>4, <1>5

-----------------------------------------------------------------------------
(* Whole lines *)

\* Whole lines behind whole lines.
LEMMA LinesMore ==
  ASSUME NEW text \in Seq(Chars), NEW block \in Seq(Chars), NEW ids, ids \subseteq Ids, LinesOf(text, ids),
         NEW log \in Seq(Ids), NEW m \in 0..Len(log), Len(block) = Ends(log)[m], PartOf(block, log, 0, m),
         NEW more, ids \subseteq more, \A k \in 1..m : log[k] \in more
  PROVE  LinesOf(text \o block, more)
<1> SUFFICES ASSUME NEW whole, whole = text \o block
             PROVE  LinesOf(whole, more)
  OBVIOUS
<1>1. /\ Len(whole) = Len(text) + Len(block) /\ Len(text) \in Nat /\ Len(block) \in Nat
      /\ \A i \in 1..Len(text) : whole[i] = text[i]
      /\ \A i \in 1..Len(block) : whole[Len(text) + i] = block[i]
  <2>1. text \in Seq(Chars) /\ block \in Seq(Chars) /\ whole = text \o block
    OBVIOUS
  <2> QED
    BY ONLY <2>1, ConcatIs
<1>2. PICK E : E = Ends(log) /\ Spaced(log, E)
  BY EndsAre
<1>3. ASSUME NEW k \in 1..m
      PROVE  /\ log[k] \in Ids /\ E[k - 1] \in Nat /\ E[k] \in Nat /\ E[k] <= Len(block)
             /\ E[k] = E[k - 1] + Len(Line(log[k]))
             /\ Len(Line(log[k])) \in Nat /\ Len(Line(log[k])) >= 2
  <2>1. k \in 1..Len(log) /\ k - 1 \in 0..Len(log) /\ k \in 0..Len(log) /\ k \in 0..m
    OBVIOUS
  <2>2. E[k] <= E[m]
    BY <2>1, <1>2, EndsGrow
  <2>3. E[m] = Len(block)
    BY <1>2
  <2>4. /\ log[k] \in Ids /\ E[k - 1] \in Nat /\ E[k] \in Nat
        /\ E[k] = E[k - 1] + Len(Line(log[k]))
        /\ Len(Line(log[k])) \in Nat /\ Len(Line(log[k])) >= 2
    <3>1. \A j \in 0..Len(log) : E[j] \in Nat
      BY ONLY <1>2 DEF Spaced
    <3>2. \A j \in 1..Len(log) : log[j] \in Ids /\ E[j] = E[j - 1] + Len(Line(log[j]))
            /\ Len(Line(log[j])) \in Nat /\ Len(Line(log[j])) >= 2
      BY ONLY <1>2 DEF Spaced
    <3> QED
      BY ONLY <2>1, <3>1, <3>2
  <2>5. E[k] <= Len(block)
    BY ONLY <2>2, <2>3
  <2> QED
    BY ONLY <2>4, <2>5, Zenon
<1>4. ASSUME NEW k \in 1..m, NEW x, x = Len(text) + E[k - 1] + 1
      PROVE  x \in 1..Len(whole) /\ StandsAt(whole, x, log[k])
  <2>1. 0 <= E[k - 1] /\ E[k] <= 0 + Len(block) /\ x = Len(text) + E[k - 1] - 0 + 1
    <3> DEFINE t == Len(text)
               b == Len(block)
               from == E[k - 1]
               to == E[k]
    <3>1. t \in Nat /\ b \in Nat
      BY ONLY <1>1
    <3>2. from \in Nat /\ to \in Nat /\ to <= b
      BY ONLY <1>3
    <3>3. x = t + from + 1
      BY <1>4
    <3> HIDE DEF t, b, from, to
    <3>4. 0 <= from /\ to <= 0 + b /\ x = t + from - 0 + 1
      BY ONLY <3>1, <3>2, <3>3
    <3> QED
      BY ONLY <3>4, Zenon DEF t, b, from, to
  <2>2. ~Torn(text)
    BY DEF LinesOf
  <2> QED
    BY <2>1, <2>2, <1>2, LineStands
<1>5. ASSUME NEW j \in 1..Len(whole), whole[j] = Newline
      PROVE  \E id \in more : \E x \in 1..Len(whole) :
               StandsAt(whole, x, id) /\ j = x + Len(Line(id)) - 1
  <2>1. CASE j <= Len(text)
    <3>1. j \in 1..Len(text) /\ text[j] = Newline
      BY <2>1, <1>1, <1>5
    <3>2. PICK id \in ids : \E x \in 1..Len(text) :
            StandsAt(text, x, id) /\ j = x + Len(Line(id)) - 1
      BY <3>1 DEF LinesOf
    <3>3. PICK x \in 1..Len(text) : StandsAt(text, x, id) /\ j = x + Len(Line(id)) - 1
      BY <3>2
    <3>4. x \in 1..Len(whole) /\ StandsAt(whole, x, id)
      BY <3>3, StandsStays
    <3> QED
      BY <3>3, <3>4
  <2>2. CASE j > Len(text)
    <3>1. PICK q : q = j - Len(text)
      OBVIOUS
    <3>2. q \in 1..Len(block) /\ j = Len(text) + q /\ block[q] = Newline
      <4>1. q \in 1..Len(block) /\ j = Len(text) + q
        BY <2>2, <3>1, <1>1
      <4> QED
        BY <4>1, <1>1, <1>5
    <3>3. PICK k \in 1..m : \E c \in 1..Len(Line(log[k])) : q = E[k - 1] + c
      <4>1. q \in 1..E[m]
        BY <3>2, <1>2
      <4>2. m \in 0..Len(log) /\ Spaced(log, E)
        BY <1>2
      <4> QED
        BY ONLY <4>1, <4>2, PlaceIs
    <3>4. PICK c \in 1..Len(Line(log[k])) : q = E[k - 1] + c
      BY <3>3
    <3>a. PICK f, w : f = E[k - 1] /\ w = Len(Line(log[k]))
      OBVIOUS
    <3>b. /\ log[k] \in Ids /\ f \in Nat /\ w \in Nat /\ w >= 2 /\ E[k] = f + w
      BY <1>3, <3>a
    <3>c. c \in 1..w /\ q = f + c
      BY <3>4, <3>a
    <3>5. block[q] = Line(log[k])[c]
      <4>1. 0 < f + c /\ f + c <= 0 + Len(block) /\ f + c - 0 = q
        BY ONLY <3>2, <3>b, <3>c
      <4>2. block[f + c - 0] = Line(log[k])[c]
        BY <3>a, <4>1, <1>2 DEF PartOf
      <4> QED
        BY ONLY <4>1, <4>2
    <3>6. c = w
      <4>1. ~(c < w)
        BY <3>2, <3>5, <3>a, <3>b, <3>c, LineIs
      <4> QED
        BY ONLY <4>1, <3>b, <3>c
    <3>7. PICK x : x = Len(text) + E[k - 1] + 1
      OBVIOUS
    <3>8. x \in 1..Len(whole) /\ StandsAt(whole, x, log[k])
      BY <3>7, <1>4
    <3>9. j = x + Len(Line(log[k])) - 1
      <4>1. x = Len(text) + f + 1 /\ Len(text) \in Nat
        BY <1>1, <3>7, <3>a
      <4>2. j = x + w - 1
        BY ONLY <4>1, <3>2, <3>6, <3>b, <3>c
      <4> QED
        BY <4>2, <3>a
    <3> QED
      BY <3>8, <3>9
  <2>3. j <= Len(text) \/ j > Len(text)
    BY <1>1
  <2> QED
    BY ONLY <2>1, <2>2, <2>3
<1>6. ~Torn(whole)
  <2> SUFFICES ASSUME whole # <<>> PROVE Last(whole) = Newline
    BY DEF Torn
  <2>0. Last(whole) = whole[Len(whole)]
    BY DEF Last
  <2>1. CASE m = 0
    <3>1. Len(block) = 0 /\ Len(whole) = Len(text)
      BY <2>1, <1>1, <1>2 DEF Spaced
    <3>2. Len(text) \in 1..Len(text) /\ text # <<>>
      BY <3>1, <1>1
    <3>3. text[Len(text)] = Newline
      BY <3>2 DEF LinesOf, Torn, Last
    <3> QED
      BY <2>0, <3>1, <3>2, <3>3, <1>1
  <2>2. CASE m # 0
    <3>1. m \in 1..m
      BY <2>2
    <3>2. PICK x : x = Len(text) + E[m - 1] + 1
      OBVIOUS
    <3>3. StandsAt(whole, x, log[m])
      BY <3>1, <3>2, <1>4
    <3>4. PICK w : w = Len(Line(log[m]))
      OBVIOUS
    <3>5. /\ w \in 1..w /\ w \in Nat /\ E[m - 1] \in Nat /\ Len(block) = E[m - 1] + w
          /\ Line(log[m])[w] = Newline
      <4>1. log[m] \in Ids /\ E[m - 1] \in Nat /\ E[m] = E[m - 1] + Len(Line(log[m]))
            /\ Len(Line(log[m])) \in Nat /\ Len(Line(log[m])) >= 2
        BY ONLY <3>1, <1>3
      <4>2. E[m] = Len(block)
        BY <1>2
      <4>3. Line(log[m])[Len(Line(log[m]))] = Newline
        BY <4>1, LineIs
      <4>4. w \in Nat /\ w >= 2
        BY ONLY <4>1, <3>4
      <4>5. w \in 1..w
        BY ONLY <4>4
      <4>6. Len(block) = E[m - 1] + w
        BY ONLY <4>1, <4>2, <3>4
      <4>7. Line(log[m])[w] = Newline
        BY ONLY <4>3, <3>4
      <4> QED
        BY ONLY <4>1, <4>4, <4>5, <4>6, <4>7, Zenon
    <3>6. whole[x + w - 1] = Newline
      BY <3>3, <3>4, <3>5 DEF StandsAt
    <3>7. x + w - 1 = Len(whole)
      <4> DEFINE t == Len(text)
                 from == E[m - 1]
      <4>1. Len(whole) = t + Len(block) /\ t \in Nat
        BY ONLY <1>1
      <4>2. w \in Nat /\ from \in Nat /\ Len(block) = from + w
        BY ONLY <3>5
      <4>3. x = t + from + 1
        BY ONLY <3>2
      <4> HIDE DEF t, from
      <4> QED
        BY ONLY <4>1, <4>2, <4>3
    <3> QED
      BY <2>0, <3>6, <3>7
  <2> QED
    BY <2>1, <2>2
<1> QED
  BY <1>5, <1>6 DEF LinesOf

-----------------------------------------------------------------------------
(* The invariant *)

\* Nothing is written before the first process ends.
LEMMA InitInv == Init => IndInv
<1> SUFFICES ASSUME Init PROVE IndInv
  OBVIOUS
<1>1. Shape
  <2>1. \A p \in Procs : Len(due[p]) \in Nat
    BY IdsAreUnsigned DEF Init
  <2> QED
    BY <2>1, BlockHoldsALine DEF Init, Shape
<1>2. \A p \in Procs : Written(p) = 0 /\ Begun(p) = {}
  <2>1. ASSUME NEW p \in Procs PROVE Written(p) = 0
    <3>1. due[p] \in Seq(Ids) /\ printed[p] = 0 /\ Len(buf[p]) = 0
      BY IdsAreUnsigned DEF Init
    <3>2. Ends(due[p])[0] = 0
      BY <3>1, EndsAre DEF Spaced
    <3> QED
      BY <3>1, <3>2 DEF Written
  <2> QED
    BY <2>1 DEF Init, Begun
<1>3. BufferIsTheEnd
  BY <1>2 DEF Init, BufferIsTheEnd, PartOf
<1>4. ClosedIsWritten
  BY DEF Init, ClosedIsWritten
<1>5. LossSoFar
  <2>1. Cardinality(Lost) = 0
    BY <1>2, FS_EmptySet DEF Lost
  <2> QED
    BY <2>1 DEF Init, LossSoFar, TornEnd, Torn
<1>6. WholeSoFar
  <2>1. Owed = {}
    BY DEF Init, Owed
  <2>2. LinesOf(file, Owed)
    BY DEF Init, LinesOf, Torn
  <2> QED
    BY <2>1, <2>2, <1>2 DEF WholeSoFar
<1>7. ReadAtTheEnd
  BY DEF Init, ReadAtTheEnd
<1> QED
  BY <1>1, <1>3, <1>4, <1>5, <1>6, <1>7 DEF IndInv

\* Steps that write nothing and print nothing leave the loss and the buffers alone.
LEMMA NothingWritten ==
  ASSUME IndInv, UNCHANGED <<due, printed, buf, file, splits>>
  PROVE  BufferIsTheEnd' /\ LossSoFar'
<1>1. \A p \in Procs : Written(p)' = Written(p) /\ Begun(p)' = Begun(p)
  BY DEF Written, Begun
<1>2. BufferIsTheEnd'
  BY <1>1 DEF IndInv, BufferIsTheEnd
<1>3. Lost' = Lost
  BY <1>1 DEF Lost
<1> QED
  BY <1>2, <1>3 DEF IndInv, LossSoFar

\* Opening the log writes nothing.
LEMMA OpenKeepsInv == ASSUME IndInv, NEW p \in Procs, Open(p) PROVE IndInv'
<1>1. Shape'
  BY DEF IndInv, Shape, Open
<1>2. BufferIsTheEnd' /\ LossSoFar'
  BY NothingWritten DEF Open
<1>3. ClosedIsWritten'
  BY DEF IndInv, Shape, ClosedIsWritten, Open
<1>4. WholeSoFar'
  <2>1. \A q \in Procs : stage'[q] = "closed" <=> stage[q] = "closed"
    BY DEF IndInv, Shape, Open
  <2>2. Owed' = Owed
    BY <2>1 DEF Owed, Open
  <2>3. \A q \in Procs : Written(q)' = Written(q) /\ WholeLog(q)' = WholeLog(q)
    BY DEF Written, WholeLog, Open
  <2>4. file' = file
    BY DEF Open
  <2> QED
    BY <2>1, <2>2, <2>3, <2>4 DEF IndInv, WholeSoFar
<1>5. ReadAtTheEnd'
  BY DEF IndInv, ReadAtTheEnd, Uncovered, Open
<1> QED
  BY <1>1, <1>2, <1>3, <1>4, <1>5 DEF IndInv

\* A process that is cut keeps what it had printed, and writes nothing.
LEMMA CutKeepsInv == ASSUME IndInv, NEW p \in Procs, Cut(p) PROVE IndInv'
<1>1. Shape'
  BY DEF IndInv, Shape, Cut
<1>2. BufferIsTheEnd' /\ LossSoFar'
  BY NothingWritten DEF Cut
<1>3. ClosedIsWritten'
  BY DEF IndInv, Shape, ClosedIsWritten, Cut
<1>4. WholeSoFar'
  <2>1. \A q \in Procs : stage'[q] = "closed" <=> stage[q] = "closed"
    BY DEF IndInv, Shape, Cut
  <2>2. Owed' = Owed
    BY <2>1 DEF Owed, Cut
  <2>3. \A q \in Procs : Written(q)' = Written(q) /\ WholeLog(q)' = WholeLog(q)
    BY DEF Written, WholeLog, Cut
  <2>4. file' = file
    BY DEF Cut
  <2> QED
    BY <2>1, <2>2, <2>3, <2>4 DEF IndInv, WholeSoFar
<1>5. ReadAtTheEnd'
  BY DEF IndInv, ReadAtTheEnd, Uncovered, Cut
<1> QED
  BY <1>1, <1>2, <1>3, <1>4, <1>5 DEF IndInv

\* main reads and partitions; the processes have ended.
LEMMA MainKeepsInv == ASSUME IndInv, Load \/ Partition \/ UNCHANGED vars PROVE IndInv'
<1>1. UNCHANGED writing
  BY DEF Load, Partition, vars
<1>2. Shape' /\ ClosedIsWritten' /\ BufferIsTheEnd' /\ LossSoFar'
  BY <1>1, NothingWritten DEF IndInv, Shape, ClosedIsWritten, writing
<1>3. WholeSoFar'
  <2>1. Owed' = Owed /\ file' = file /\ stage' = stage
    BY <1>1 DEF Owed, writing
  <2>2. \A q \in Procs : Written(q)' = Written(q) /\ WholeLog(q)' = WholeLog(q)
    BY <1>1 DEF Written, WholeLog, writing
  <2> QED
    BY <2>1, <2>2 DEF IndInv, WholeSoFar
<1>4. ReadAtTheEnd'
  <2>1. CASE Load
    BY <2>1, <1>1 DEF IndInv, ReadAtTheEnd, Load, load_hitlog, writing
  <2>2. CASE Partition
    <3>1. uncovered' = {id \in Listed : Uncovered(id)'}
      BY <2>2 DEF Partition, Uncovered
    <3>2. todo' = Listed \ uncovered'
      BY <2>2 DEF Partition
    <3> QED
      BY <3>1, <3>2, <2>2, <1>1 DEF IndInv, ReadAtTheEnd, Partition, writing
  <2>3. CASE UNCHANGED vars
    BY <2>3 DEF IndInv, ReadAtTheEnd, Uncovered, vars, writing
  <2> QED
    BY <2>1, <2>2, <2>3
<1> QED
  BY <1>2, <1>3, <1>4 DEF IndInv

\* A line goes into the buffer, or the full buffer goes to the file.
LEMMA PutLineKeepsInv == ASSUME IndInv, NEW p \in Procs, PutLine(p) PROVE IndInv'
<1> DEFINE n == Written(p)
           m == printed[p]
           out == buf[p] \o Line(due[p][m + 1])
<1>1. /\ due[p] \in Seq(Ids) /\ m \in Nat /\ m + 1 <= Len(due[p]) /\ due[p][m + 1] \in Ids
      /\ buf[p] \in Seq(Chars) /\ Len(buf[p]) <= Block /\ file \in Seq(Chars) /\ splits \in Nat
  <2>1. due[p] \in Seq(Ids)
    BY LostIsFinite DEF IndInv
  <2>2. m \in Nat /\ m < Len(due[p])
    BY DEF IndInv, Shape, PutLine
  <2>3. m + 1 <= Len(due[p]) /\ due[p][m + 1] \in Ids
    BY <2>1, <2>2
  <2> QED
    BY <2>1, <2>2, <2>3 DEF IndInv, Shape
<1>e. PICK E, w : E = Ends(due[p]) /\ Spaced(due[p], E) /\ w = Len(Line(due[p][m + 1]))
  BY <1>1, EndsAre
<1>f. /\ E[m] \in Nat /\ E[m + 1] = E[m] + w /\ w \in Nat /\ w >= 2 /\ w <= Block
      /\ E[Len(due[p])] = Len(Text(due[p])) /\ E[Len(due[p])] \in Nat /\ E[m + 1] <= E[Len(due[p])]
  <2>1. /\ m \in 0..Len(due[p]) /\ m + 1 \in 1..Len(due[p]) /\ m + 1 - 1 = m
        /\ Len(due[p]) \in 0..Len(due[p]) /\ m + 1 \in 0..Len(due[p])
    BY <1>1
  <2>2. E[m + 1] <= E[Len(due[p])]
    BY <2>1, <1>e, EndsGrow
  <2>3. E[m + 1] = E[m + 1 - 1] + w
    <3> DEFINE k == m + 1
    <3>1. k \in 1..Len(due[p]) /\ w = Len(Line(due[p][k]))
      BY <2>1, <1>e
    <3> HIDE DEF k
    <3>2. E[k] = E[k - 1] + w
      BY <3>1, <1>e DEF Spaced
    <3>3. k - 1 = m + 1 - 1
      BY <1>1 DEF k
    <3> QED
      BY <3>2, <3>3 DEF k
  <2> QED
    BY <2>1, <2>2, <2>3, <1>e DEF Spaced
<1>2. n \in Nat /\ n + Len(buf[p]) = E[m] /\ n <= E[m] /\ PartOf(buf[p], due[p], n, m)
  <2>1. n = E[m] - Len(buf[p]) /\ n >= 0 /\ Len(buf[p]) \in Nat /\ PartOf(buf[p], due[p], n, m)
    BY <1>1, <1>e DEF IndInv, BufferIsTheEnd, Written
  <2> HIDE DEF n
  <2> QED
    BY ONLY <2>1, <1>f
<1>3. Line(due[p][m + 1]) \in Seq(Chars) /\ Len(Line(due[p][m + 1])) = w
  BY <1>1, <1>e, LineIs
<1>4. out \in Seq(Chars) /\ Len(out) = Len(buf[p]) + w
  <2>1. /\ out \in Seq(Chars)
        /\ Len(out) = Len(buf[p]) + Len(Line(due[p][m + 1]))
    <3>1. buf[p] \in Seq(Chars) /\ Line(due[p][m + 1]) \in Seq(Chars)
      BY <1>1, <1>3
    <3> QED
      BY ONLY <3>1, ConcatIs
  <2> QED
    BY <2>1, <1>3
<1>5. PartOf(out, due[p], n, m + 1)
  BY <1>1, <1>2, <1>e, LinePut
<1> HIDE DEF n, out
<1>6. /\ printed' = [printed EXCEPT ![p] = m + 1]
      /\ due' = due /\ stage' = stage /\ stage[p] = "flushing"
      /\ UNCHANGED <<covered, uncovered, todo, phase>>
  BY DEF PutLine
<1>7. /\ printed'[p] = m + 1 /\ \A q \in Procs : q # p => printed'[q] = printed[q]
      /\ printed' \in [Procs -> Nat]
  BY <1>1, <1>6 DEF IndInv, Shape
<1>8. /\ \/ Len(out) <= Block /\ buf' = [buf EXCEPT ![p] = out] /\ file' = file /\ splits' = splits
         \/ /\ ~(Len(out) <= Block) /\ WriteOut(SubSeq(out, 1, Block))
            /\ buf' = [buf EXCEPT ![p] = SubSeq(out, Block + 1, Len(out))]
  BY DEF PutLine, out, m
<1>9. \A q \in Procs : q # p => buf'[q] = buf[q]
  BY <1>8 DEF IndInv, Shape
<1>10. \A q \in Procs : q # p => Written(q)' = Written(q) /\ Begun(q)' = Begun(q)
  BY <1>6, <1>7, <1>9 DEF Written, Begun
<1>11. ClosedIsWritten'
  <2>1. ASSUME NEW q \in Procs
        PROVE  /\ stage[q] \in {"running", "closed"} => buf'[q] = <<>>
               /\ stage[q] = "running" => printed'[q] = 0
               /\ stage[q] = "closed" => printed'[q] = Len(due[q])
    <3>1. CASE q = p
      BY <3>1, <1>6
    <3>2. CASE q # p
      BY <3>2, <1>7, <1>9 DEF IndInv, ClosedIsWritten
    <3> QED
      BY <3>1, <3>2
  <2> QED
    BY <2>1, <1>6 DEF ClosedIsWritten
<1>12. ReadAtTheEnd'
  <2>1. phase = "coverage"
    BY <1>6 DEF IndInv, ReadAtTheEnd
  <2> QED
    BY <2>1, <1>6 DEF IndInv, ReadAtTheEnd
<1>13. Owed' = Owed /\ \A q \in Procs : WholeLog(q)' = WholeLog(q)
  BY <1>6 DEF Owed, WholeLog
<1>14. CASE /\ Len(out) <= Block /\ buf' = [buf EXCEPT ![p] = out]
            /\ file' = file /\ splits' = splits
  <2>1. buf'[p] = out /\ buf' \in [Procs -> Seq(Chars)]
    BY <1>14, <1>4 DEF IndInv, Shape
  <2>2. Shape'
    <3>1. ASSUME NEW q \in Procs PROVE printed'[q] <= Len(due[q]) /\ Len(buf'[q]) <= Block
      <4>1. CASE q = p
        BY <4>1, <2>1, <1>1, <1>7, <1>14
      <4>2. CASE q # p
        BY <4>2, <1>7, <1>9 DEF IndInv, Shape
      <4> QED
        BY <4>1, <4>2
    <3> QED
      BY <3>1, <2>1, <1>6, <1>7, <1>14 DEF IndInv, Shape
  <2>3. Written(p)' = n
    <3>1. Written(p)' = E[m + 1] - Len(out)
      BY <2>1, <1>6, <1>7, <1>e DEF Written
    <3>2. Len(buf[p]) \in Nat
      BY <1>1
    <3> QED
      BY ONLY <3>1, <3>2, <1>2, <1>4, <1>f
  <2>4. BufferIsTheEnd'
    <3>1. ASSUME NEW q \in Procs
          PROVE  Written(q)' >= 0 /\ PartOf(buf'[q], due[q], Written(q)', printed'[q])
      <4>1. CASE q = p
        BY <4>1, <2>1, <2>3, <1>2, <1>5, <1>7
      <4>2. CASE q # p
        BY <4>2, <1>7, <1>9, <1>10 DEF IndInv, BufferIsTheEnd
      <4> QED
        BY <4>1, <4>2
    <3> QED
      BY <3>1, <1>6 DEF BufferIsTheEnd
  <2>5. Begun(p)' = Begun(p)
    <3>1. \A k \in 1..m + 1 : E[k - 1] < n => k \in 1..m
      <4>1. ASSUME NEW k \in 1..m + 1, E[k - 1] < n, k \notin 1..m PROVE FALSE
        <5>1. k - 1 = m
          BY <4>1, <1>1
        <5>2. E[m] < n
          BY ONLY <4>1, <5>1
        <5> QED
          BY ONLY <5>2, <1>2, <1>f
      <4> QED
        BY <4>1
    <3>2. \A k \in 1..m : k \in 1..m + 1
      BY <1>1
    <3> QED
      BY <3>1, <3>2, <2>3, <1>6, <1>7, <1>e DEF Begun, n
  <2>6. LossSoFar'
    <3>1. Lost' = Lost
      BY <2>5, <1>10, <1>14 DEF Lost
    <3> QED
      BY <3>1, <1>14 DEF IndInv, LossSoFar
  <2>7. WholeSoFar'
    <3>1. \A q \in Procs : Written(q)' = Written(q)
      BY <2>3, <1>10 DEF n
    <3> QED
      BY <3>1, <1>6, <1>13, <1>14 DEF IndInv, WholeSoFar
  <2> QED
    BY <2>2, <2>4, <2>6, <2>7, <1>11, <1>12 DEF IndInv
<1>15. CASE /\ ~(Len(out) <= Block) /\ WriteOut(SubSeq(out, 1, Block))
            /\ buf' = [buf EXCEPT ![p] = SubSeq(out, Block + 1, Len(out))]
  <2> DEFINE block == SubSeq(out, 1, Block)
             rest == SubSeq(out, Block + 1, Len(out))
  <2>1. /\ block \in Seq(Chars) /\ Len(block) = Block
        /\ rest \in Seq(Chars) /\ Len(rest) = Len(out) - Block
    BY <1>4, <1>15, BlockHoldsALine
  <2>2. /\ PartOf(block, due[p], n, m + 1) /\ PartOf(rest, due[p], n + Block, m + 1)
    <3>1. Block \in Nat /\ Block <= Len(out) /\ m + 1 \in 0..Len(due[p])
      BY <1>1, <1>4, <1>15, BlockHoldsALine
    <3>2. out \in Seq(Chars) /\ due[p] \in Seq(Ids) /\ n \in Nat
      BY <1>1, <1>2, <1>4
    <3>3. /\ PartOf(SubSeq(out, 1, Block), due[p], n, m + 1)
          /\ PartOf(SubSeq(out, Block + 1, Len(out)), due[p], n + Block, m + 1)
      <4> DEFINE log == due[p]
                 k == m + 1
      <4>1. out \in Seq(Chars) /\ log \in Seq(Ids) /\ n \in Nat /\ k \in 0..Len(log)
            /\ Block \in Nat /\ Block <= Len(out) /\ PartOf(out, log, n, k)
        BY <3>1, <3>2, <1>5
      <4> HIDE DEF log, k
      <4>2. /\ PartOf(SubSeq(out, 1, Block), log, n, k)
            /\ PartOf(SubSeq(out, Block + 1, Len(out)), log, n + Block, k)
        BY ONLY <4>1, PartCut
      <4> QED
        BY <4>2 DEF log, k
    <3> QED
      BY <3>3
  <2> HIDE DEF block, rest
  <2>3. buf'[p] = rest /\ buf' \in [Procs -> Seq(Chars)] /\ Len(rest) <= Block
    <3>1. Len(rest) = Len(buf[p]) + w - Block /\ Len(buf[p]) <= Block /\ Len(buf[p]) \in Nat /\ Block \in Nat
      BY <2>1, <1>1, <1>4, <1>f, BlockHoldsALine
    <3>2. Len(rest) <= Block
      BY ONLY <3>1, <1>f
    <3>3. buf'[p] = rest /\ buf' \in [Procs -> Seq(Chars)]
      BY <2>1, <1>15 DEF IndInv, Shape, rest
    <3> QED
      BY <3>2, <3>3
  <2>4. WriteOut(block)
    BY <1>15 DEF block
  <2>5. Shape'
    <3>1. ASSUME NEW q \in Procs PROVE printed'[q] <= Len(due[q]) /\ Len(buf'[q]) <= Block
      <4>1. CASE q = p
        BY <4>1, <2>3, <1>1, <1>7
      <4>2. CASE q # p
        BY <4>2, <1>7, <1>9 DEF IndInv, Shape
      <4> QED
        BY <4>1, <4>2
    <3>2. file' \in Seq(Chars) /\ splits' \in Nat
      BY <2>1, <2>4, <1>1 DEF WriteOut
    <3> QED
      BY <3>1, <3>2, <2>3, <1>6, <1>7 DEF IndInv, Shape
  <2>6. Written(p)' = n + Block /\ n + Block <= E[m + 1] /\ n + Block \in Nat
    <3>1. Written(p)' = E[m + 1] - Len(rest)
      BY <2>3, <1>6, <1>7, <1>e DEF Written
    <3>2. Len(buf[p]) \in Nat /\ Block \in Nat /\ ~(Len(out) <= Block)
      BY <1>1, <1>15, BlockHoldsALine
    <3>3. Len(rest) = Len(out) - Block
      BY <2>1
    <3>4. n \in Nat /\ n + Len(buf[p]) = E[m] /\ Len(out) = Len(buf[p]) + w
      BY <1>2, <1>4
    <3>5. Len(rest) = Len(buf[p]) + w - Block /\ Len(rest) >= 0
      BY ONLY <3>2, <3>3, <3>4, <1>f
    <3>6. E[m + 1] - Len(rest) = n + Block /\ n + Block <= E[m + 1] /\ n + Block \in Nat
      BY ONLY <3>2, <3>4, <3>5, <1>f
    <3> QED
      BY ONLY <3>1, <3>6
  <2>7. BufferIsTheEnd'
    <3>1. ASSUME NEW q \in Procs
          PROVE  Written(q)' >= 0 /\ PartOf(buf'[q], due[q], Written(q)', printed'[q])
      <4>1. CASE q = p
        BY <4>1, <2>2, <2>3, <2>6, <1>7
      <4>2. CASE q # p
        BY <4>2, <1>7, <1>9, <1>10 DEF IndInv, BufferIsTheEnd
      <4> QED
        BY <4>1, <4>2
    <3> QED
      BY <3>1, <1>6 DEF BufferIsTheEnd
  <2>8. LossSoFar'
    <3>1. /\ printed[p] <= printed'[p] /\ Written(p) \in Nat /\ Written(p) <= Ends(due[p])[printed[p]]
          /\ Written(p) + Len(block) <= Ends(due[p])[printed'[p]]
          /\ Written(p)' = Written(p) + Len(block)
          /\ PartOf(block, due[p], Written(p), printed'[p])
      BY <2>1, <2>2, <2>6, <1>1, <1>2, <1>7, <1>e DEF n
    <3>2. Shape /\ LossSoFar
      BY DEF IndInv
    <3>3. due' = due /\ \A q \in Procs : q # p => Begun(q)' = Begun(q)
      BY <1>6, <1>10
    <3> QED
      BY <2>1, <2>4, <2>5, <3>1, <3>2, <3>3, WriteKeepsTheBound
  <2>9. WholeSoFar'
    <3> SUFFICES ASSUME \A q \in Procs : WholeLog(q)' PROVE FALSE
      BY DEF WholeSoFar
    <3>1. \A q \in Procs : WholeLog(q)
      BY <1>13
    <3>2. n = 0
      BY <3>1, <1>6 DEF IndInv, WholeSoFar, n
    <3>3. Len(Text(due[p])) <= Block
      BY <3>1 DEF WholeLog
    <3>4. Len(buf[p]) \in Nat /\ Block \in Nat /\ ~(Len(out) <= Block) /\ Len(out) = Len(buf[p]) + w
      BY <1>1, <1>4, <1>15, BlockHoldsALine
    <3> QED
      BY ONLY <3>2, <3>3, <3>4, <1>2, <1>f
  <2> QED
    BY <2>5, <2>7, <2>8, <2>9, <1>11, <1>12 DEF IndInv
<1> QED
  BY <1>8, <1>14, <1>15

\* The rest goes to the file when the log is closed.
LEMMA CloseKeepsInv == ASSUME IndInv, NEW p \in Procs, Close(p) PROVE IndInv'
<1> DEFINE n == Written(p)
           m == printed[p]
           block == buf[p]
<1>1. /\ due[p] \in Seq(Ids) /\ m \in Nat
      /\ block \in Seq(Chars) /\ file \in Seq(Chars) /\ splits \in Nat
  <2>1. due[p] \in Seq(Ids)
    BY LostIsFinite DEF IndInv
  <2> QED
    BY <2>1 DEF IndInv, Shape, Close
<1>0. m = Len(due[p])
  BY DEF Close
<1>e. PICK E : E = Ends(due[p]) /\ Spaced(due[p], E)
  BY <1>1, EndsAre
<1>f. E[m] \in Nat
  <2>1. m \in 0..Len(due[p])
    BY <1>0, <1>1
  <2> QED
    BY <2>1, <1>e DEF Spaced
<1>2. n \in Nat /\ n + Len(block) = E[m] /\ n <= E[m] /\ PartOf(block, due[p], n, m)
  <2>1. n = E[m] - Len(block) /\ n >= 0 /\ Len(block) \in Nat /\ PartOf(block, due[p], n, m)
    BY <1>1, <1>e DEF IndInv, BufferIsTheEnd, Written
  <2> HIDE DEF n, block
  <2> QED
    BY ONLY <2>1, <1>f
<1>3. /\ WriteOut(block) /\ buf' = [buf EXCEPT ![p] = <<>>]
      /\ stage' = [stage EXCEPT ![p] = "closed"] /\ stage[p] = "flushing"
      /\ due' = due /\ printed' = printed /\ UNCHANGED <<covered, uncovered, todo, phase>>
  BY DEF Close
<1>4. /\ buf'[p] = <<>> /\ buf' \in [Procs -> Seq(Chars)]
      /\ \A q \in Procs : q # p => buf'[q] = buf[q]
      /\ stage'[p] = "closed" /\ \A q \in Procs : q # p => stage'[q] = stage[q]
  BY <1>3 DEF IndInv, Shape
<1>5. Shape'
  <2>1. ASSUME NEW q \in Procs PROVE Len(buf'[q]) <= Block
    <3>1. CASE q = p
      <4>1. Len(buf'[q]) = 0
        BY <3>1, <1>4
      <4> QED
        BY <4>1, BlockHoldsALine
    <3>2. CASE q # p
      BY <3>2, <1>4 DEF IndInv, Shape
    <3> QED
      BY <3>1, <3>2
  <2>2. file' \in Seq(Chars) /\ splits' \in Nat
    BY <1>1, <1>3 DEF WriteOut
  <2> QED
    BY <2>1, <2>2, <1>3, <1>4 DEF IndInv, Shape
<1>6. \A q \in Procs : q # p => Written(q)' = Written(q) /\ Begun(q)' = Begun(q)
  BY <1>3, <1>4 DEF Written, Begun
<1>7. Written(p)' = E[m]
  <2>1. Len(buf'[p]) = 0
    BY <1>4
  <2>2. Written(p)' = E[m] - Len(buf'[p])
    BY <1>3, <1>e DEF Written
  <2> QED
    BY ONLY <2>1, <2>2, <1>f
<1> HIDE DEF n, block
<1>8. BufferIsTheEnd'
  <2>1. ASSUME NEW q \in Procs
        PROVE  Written(q)' >= 0 /\ PartOf(buf'[q], due[q], Written(q)', printed[q])
    <3>1. CASE q = p
      <4>1. Len(buf'[p]) = 0
        BY <1>4
      <4>2. PartOf(buf'[p], due[p], E[m], m)
        <5>1. \A x \in Int : ~(E[m] < x /\ x <= E[m] + Len(buf'[p]))
          BY ONLY <4>1, <1>f
        <5>2. ASSUME NEW k \in 1..m, NEW c \in 1..Len(Line(due[p][k])) PROVE E[k - 1] + c \in Int
          <6>1. k - 1 \in 0..Len(due[p]) /\ k \in 1..Len(due[p])
            BY <1>0, <1>1
          <6>2. E[k - 1] \in Nat /\ Len(Line(due[p][k])) \in Nat
            BY <6>1, <1>e DEF Spaced
          <6> QED
            BY <6>2
        <5> QED
          BY <5>1, <5>2, <1>e DEF PartOf
      <4> QED
        BY <3>1, <4>2, <1>7, <1>f
    <3>2. CASE q # p
      BY <3>2, <1>4, <1>6 DEF IndInv, BufferIsTheEnd
    <3> QED
      BY <3>1, <3>2
  <2> QED
    BY <2>1, <1>3 DEF BufferIsTheEnd
<1>9. ClosedIsWritten'
  <2>1. ASSUME NEW q \in Procs
        PROVE  /\ stage'[q] \in {"running", "closed"} => buf'[q] = <<>>
               /\ stage'[q] = "running" => printed[q] = 0
               /\ stage'[q] = "closed" => printed[q] = Len(due[q])
    <3>1. CASE q = p
      BY <3>1, <1>0, <1>4
    <3>2. CASE q # p
      BY <3>2, <1>4 DEF IndInv, ClosedIsWritten
    <3> QED
      BY <3>1, <3>2
  <2> QED
    BY <2>1, <1>3 DEF ClosedIsWritten
<1>10. LossSoFar'
  <2>1. /\ printed[p] <= printed'[p] /\ Written(p) \in Nat /\ Written(p) <= Ends(due[p])[printed[p]]
        /\ Written(p) + Len(block) <= Ends(due[p])[printed'[p]]
        /\ Written(p)' = Written(p) + Len(block)
        /\ PartOf(block, due[p], Written(p), printed'[p])
    BY <1>1, <1>2, <1>3, <1>7, <1>e DEF n
  <2>2. Shape /\ LossSoFar
    BY DEF IndInv
  <2>3. due' = due /\ \A q \in Procs : q # p => Begun(q)' = Begun(q)
    BY <1>3, <1>6
  <2> QED
    BY <2>1, <2>2, <2>3, <1>1, <1>3, <1>5, WriteKeepsTheBound
<1>11. ReadAtTheEnd'
  <2>1. phase = "coverage"
    BY <1>3 DEF IndInv, ReadAtTheEnd
  <2> QED
    BY <2>1, <1>3 DEF IndInv, ReadAtTheEnd
<1>12. WholeSoFar'
  <2> SUFFICES ASSUME \A q \in Procs : WholeLog(q)'
               PROVE  /\ \A q \in Procs : stage'[q] # "closed" => Written(q)' = 0
                      /\ LinesOf(file', Owed') /\ Owed' \subseteq FoundIn(file')
    BY DEF WholeSoFar
  <2>1. \A q \in Procs : WholeLog(q)
    BY <1>3 DEF WholeLog
  <2>2. /\ \A q \in Procs : stage[q] # "closed" => Written(q) = 0
        /\ LinesOf(file, Owed) /\ Owed \subseteq FoundIn(file)
    BY <2>1 DEF IndInv, WholeSoFar
  <2>3. \A q \in Procs : stage'[q] # "closed" => Written(q)' = 0
    BY <2>2, <1>4, <1>6
  <2>4. n = 0 /\ Len(block) = E[m] /\ PartOf(block, due[p], 0, m)
    <3>1. n = 0 /\ Len(block) \in Nat
      BY <2>2, <1>1, <1>3 DEF n
    <3> QED
      BY ONLY <3>1, <1>2
  <2>5. /\ Owed' = Owed \union ToSet(due[p])
        /\ Owed \subseteq Ids /\ Owed' \subseteq Ids /\ \A k \in 1..m : due[p][k] \in Owed'
        /\ \A x \in ToSet(due[p]) : \E k \in 1..m : x = due[p][k]
    <3>1. Owed' = UNION {ToSet(due[q]) : q \in {q \in Procs : stage'[q] = "closed"}}
      BY <1>3 DEF Owed
    <3>2. {q \in Procs : stage'[q] = "closed"} = {q \in Procs : stage[q] = "closed"} \union {p}
      BY <1>4
    <3>3. Owed' = Owed \union ToSet(due[p])
      BY <3>1, <3>2 DEF Owed
    <3>4. ASSUME NEW q \in Procs PROVE ToSet(due[q]) \subseteq Ids
      <4>1. due[q] \in Seq(Ids)
        BY LostIsFinite DEF IndInv
      <4> QED
        BY <4>1 DEF ToSet
    <3>5. Owed \subseteq Ids
      BY <3>4 DEF Owed
    <3>6. /\ \A k \in 1..m : due[p][k] \in ToSet(due[p])
          /\ \A x \in ToSet(due[p]) : \E k \in 1..m : x = due[p][k]
      <4>1. DOMAIN due[p] = 1..m
        BY <1>0, <1>1
      <4> QED
        BY <4>1 DEF ToSet
    <3> QED
      BY <3>3, <3>4, <3>5, <3>6
  <2>6. file' = file \o block
    BY <1>3 DEF WriteOut
  <2>7. LinesOf(file', Owed')
    <3>1. /\ file \in Seq(Chars) /\ block \in Seq(Chars) /\ m \in 0..Len(due[p]) /\ LinesOf(file, Owed)
          /\ Owed \subseteq Owed' /\ Owed \subseteq Ids /\ due[p] \in Seq(Ids)
          /\ Len(block) = Ends(due[p])[m]
      BY <2>2, <2>4, <2>5, <1>0, <1>1, <1>e
    <3>2. \A k \in 1..m : due[p][k] \in Owed'
      BY <2>5
    <3> QED
      BY ONLY <3>1, <3>2, <2>4, <2>6, LinesMore
  <2>8. Owed' \subseteq FoundIn(file')
    <3>1. FoundIn(file) \subseteq FoundIn(file')
      BY <2>6, <1>1, FoundStays
    <3>2. \A k \in 1..m : due[p][k] \in FoundIn(file')
      <4>1. CASE block = <<>>
        <5>1. m = 0
          <6> SUFFICES ASSUME m # 0 PROVE FALSE
            OBVIOUS
          <6>1. m - 1 \in 0..Len(due[p]) /\ m \in 1..Len(due[p])
            BY <1>0, <1>1
          <6>2. E[m] = E[m - 1] + Len(Line(due[p][m])) /\ E[m - 1] \in Nat
                /\ Len(Line(due[p][m])) \in Nat /\ Len(Line(due[p][m])) >= 2
            BY <6>1, <1>e DEF Spaced
          <6>3. E[m] = 0
            BY <4>1, <2>4
          <6> QED
            BY ONLY <6>2, <6>3
        <5> QED
          BY <5>1
      <4>2. CASE block # <<>>
        <5>1. /\ IsFiniteSet(Missed(file, block, due[p], 0, m))
              /\ Cardinality(Missed(file, block, due[p], 0, m)) <= TornEnd(file) + TornEnd(file')
          <6>1. 0 \in Nat /\ m \in 0..Len(due[p]) /\ 0 + Len(block) <= Ends(due[p])[m]
            BY <1>0, <1>1, <1>e, <1>f, <2>4
          <6> QED
            BY <6>1, <4>2, <2>4, <2>6, <1>1, BlockLoss
        <5>2. TornEnd(file) = 0 /\ TornEnd(file') = 0
          <6>1. ~Torn(file) /\ ~Torn(file')
            BY <2>2, <2>7 DEF LinesOf
          <6> QED
            BY <6>1 DEF TornEnd
        <5>3. Missed(file, block, due[p], 0, m) = {}
          BY <5>1, <5>2, FS_EmptySet, FS_CardinalityType
        <5>4. \A k \in 1..m : 0 <= E[k - 1] /\ E[k - 1] < 0 + Len(block)
          <6> SUFFICES ASSUME NEW k \in 1..m PROVE 0 <= E[k - 1] /\ E[k - 1] < 0 + Len(block)
            OBVIOUS
          <6>1. k - 1 \in 0..Len(due[p]) /\ k \in 1..Len(due[p]) /\ k \in 0..m /\ m \in 0..Len(due[p])
            BY <1>0, <1>1
          <6>2. E[k] <= E[m] /\ E[k] \in Nat
            BY <6>1, <1>e, EndsGrow
          <6>3. E[k] = E[k - 1] + Len(Line(due[p][k])) /\ E[k - 1] \in Nat
                /\ Len(Line(due[p][k])) \in Nat /\ Len(Line(due[p][k])) >= 2
            BY <6>1, <1>e DEF Spaced
          <6>4. Len(block) = E[m]
            BY <2>4
          <6> QED
            BY ONLY <6>2, <6>3, <6>4, <1>f
        <5> QED
          BY <5>3, <5>4, <2>6, <1>e DEF Missed
      <4> QED
        BY <4>1, <4>2
    <3> QED
      BY <3>1, <3>2, <2>2, <2>5
  <2> QED
    BY <2>3, <2>7, <2>8
<1> QED
  BY <1>5, <1>8, <1>9, <1>10, <1>11, <1>12 DEF IndInv
-----------------------------------------------------------------------------
(* Theorems *)

\* The invariant holds in every behaviour: what the buffers, the file and main's
\* sets are, the ids lost so far against the torn blocks so far.
THEOREM Invariance == Spec => []IndInv
<1>1. Init => IndInv
  BY InitInv
<1>2. IndInv /\ [Next]_vars => IndInv'
  BY OpenKeepsInv, PutLineKeepsInv, CloseKeepsInv, CutKeepsInv, MainKeepsInv DEF Next
<1> QED
  BY <1>1, <1>2, PTL DEF Spec

\* TypeOK: no buffer outgrows its size, only a process that writes has one, and
\* the mutants are partitioned all or not at all.
THEOREM TypeCorrect == Spec => []TypeOK
<1>1. IndInv => TypeOK
  <2> SUFFICES ASSUME IndInv PROVE TypeOK
    OBVIOUS
  <2>1. \A p \in Procs : Len(buf[p]) <= Block /\ printed[p] \in 0..Len(due[p])
    BY DEF IndInv, Shape
  <2>2. \A p \in Procs : stage[p] \in {"running", "closed"} => buf[p] = <<>>
    BY DEF IndInv, ClosedIsWritten
  <2>3. ToSet(file) \subseteq 0..9 \union {Newline}
    BY DEF IndInv, Shape, ToSet, Chars
  <2>4. uncovered \union todo \in {{}, Listed} /\ uncovered \intersect todo = {}
    BY DEF IndInv, ReadAtTheEnd
  <2>5. phase \in {"coverage", "loaded", "partitioned"}
    BY DEF IndInv, ReadAtTheEnd
  <2> QED
    BY <2>1, <2>2, <2>3, <2>4, <2>5 DEF TypeOK
<1> QED
  BY <1>1, Invariance, PTL

\* LossBounded: a block of mulation_flush_hits that ends within a line costs two
\* ids at most, whatever the logs, the number of processes and the interleaving.
THEOREM LossIsBounded == Spec => []LossBounded
<1>1. IndInv => LossBounded
  <2> SUFFICES ASSUME IndInv, phase # "coverage"
               PROVE  Cardinality(Owed \ covered) <= 2 * splits
    BY DEF LossBounded
  <2>1. ASSUME NEW p \in Procs, stage[p] = "closed" PROVE ToSet(due[p]) \subseteq Begun(p)
    <3>1. printed[p] = Len(due[p]) /\ Len(buf[p]) = 0 /\ printed[p] \in Nat
      BY <2>1 DEF IndInv, Shape, ClosedIsWritten
    <3>2. PICK E : E = Ends(due[p]) /\ Spaced(due[p], E)
      BY LostIsFinite, EndsAre DEF IndInv
    <3>3. \A k \in 1..printed[p] : E[k - 1] < Written(p)
      <4> SUFFICES ASSUME NEW k \in 1..printed[p] PROVE E[k - 1] < Written(p)
        OBVIOUS
      <4>1. /\ k - 1 \in 0..Len(due[p]) /\ k \in 1..Len(due[p])
            /\ k \in 0..printed[p] /\ printed[p] \in 0..Len(due[p])
        BY <3>1
      <4>2. E[k] <= E[printed[p]] /\ E[k] \in Nat /\ E[printed[p]] \in Nat
        BY <4>1, <3>2, EndsGrow
      <4>3. E[k] = E[k - 1] + Len(Line(due[p][k])) /\ E[k - 1] \in Nat
            /\ Len(Line(due[p][k])) \in Nat /\ Len(Line(due[p][k])) >= 2
        BY <4>1, <3>2 DEF Spaced
      <4>4. Written(p) = E[printed[p]] - Len(buf[p])
        BY <3>2 DEF Written
      <4> QED
        BY ONLY <4>2, <4>3, <4>4, <3>1
    <3>4. DOMAIN due[p] = 1..printed[p]
      <4>1. due[p] \in Seq(Ids)
        BY LostIsFinite DEF IndInv
      <4> QED
        BY <4>1, <3>1
    <3> QED
      BY <3>2, <3>3, <3>4 DEF Begun, ToSet
  <2>2. FoundIn(file) \subseteq covered
    BY FoundIsRead DEF IndInv, Shape, ReadAtTheEnd
  <2>3. Owed \ covered \subseteq Lost
    BY <2>1, <2>2 DEF Owed, Lost
  <2>4. Cardinality(Owed \ covered) <= Cardinality(Lost) /\ Cardinality(Lost) \in Nat
    BY <2>3, LostIsFinite, FS_Subset DEF IndInv
  <2>5. Cardinality(Owed \ covered) \in Nat
    BY <2>3, LostIsFinite, FS_Subset, FS_CardinalityType DEF IndInv
  <2>6. Cardinality(Lost) <= 2 * splits - TornEnd(file) /\ TornEnd(file) \in 0..1 /\ splits \in Nat
    BY DEF IndInv, LossSoFar, TornEnd, Shape
  <2> QED
    BY <2>4, <2>5, <2>6
<1> QED
  BY <1>1, Invariance, PTL

\* SmallLogsWhole: while each log fits the buffer of stdio, main reads the ids of the
\* processes that closed theirs, all of them and no others.
THEOREM SmallLogsAreWhole == Spec => []SmallLogsWhole
<1>1. IndInv => SmallLogsWhole
  <2> SUFFICES ASSUME IndInv, \A p \in Procs : WholeLog(p)
               PROVE  /\ phase # "coverage" => covered = Owed
                      /\ uncovered \intersect Owed = {}
    BY DEF SmallLogsWhole
  <2>1. LinesOf(file, Owed) /\ Owed \subseteq FoundIn(file) /\ file \in Seq(Chars)
    BY DEF IndInv, WholeSoFar, Shape
  <2>2. Owed \subseteq Ids
    <3>1. ASSUME NEW p \in Procs PROVE ToSet(due[p]) \subseteq Ids
      <4>1. due[p] \in Seq(Ids)
        BY LostIsFinite DEF IndInv
      <4> QED
        BY <4>1 DEF ToSet
    <3> QED
      BY <3>1 DEF Owed
  <2>3. Numbers(file) = Owed
    BY <2>1, <2>2, FoundIsRead, OnlyLinesRead
  <2>4. phase # "coverage" => covered = Owed
    BY <2>3 DEF IndInv, ReadAtTheEnd
  <2>5. uncovered \intersect Owed = {}
    BY <2>4 DEF IndInv, ReadAtTheEnd, Uncovered
  <2> QED
    BY <2>4, <2>5
<1> QED
  BY <1>1, Invariance, PTL
=============================================================================
