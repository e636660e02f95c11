--------------------------- MODULE CatalogProofs ----------------------------
(***************************************************************************)
(* Theorems about Catalog, for any units, binaries, versions and names.    *)
(***************************************************************************)
EXTENDS Catalog, SequenceLemmas, FiniteSetTheorems

(* The sort *)

\* Each element stands before those behind it.
Ordered(s) == \A i, j \in 1..Len(s) : i < j => Before(s[i], s[j])

\* The numbers of files, lines and ids are ordered one after the other.
LEMMA BeforeIs ==
  ASSUME NEW a \in Mutant, NEW b \in Mutant, NEW c \in Mutant
  PROVE  /\ ~Before(a, a)
         /\ Before(a, b) /\ Before(b, c) => Before(a, c)
         /\ a.id # b.id => Before(a, b) \/ Before(b, a)
<1>1. /\ a.id \in Nat /\ a.file \in Nat /\ a.line \in Nat
      /\ b.id \in Nat /\ b.file \in Nat /\ b.line \in Nat
      /\ c.id \in Nat /\ c.file \in Nat /\ c.line \in Nat
  BY FilesAreNumbers DEF Mutant
<1> QED
  BY <1>1 DEF Before

\* The elements of a sequence are the values at its places.
LEMMA ToSetIs ==
  ASSUME NEW A, NEW s \in Seq(A)
  PROVE  /\ DOMAIN s = 1..Len(s) /\ Len(s) \in Nat /\ ToSet(s) \subseteq A
         /\ \A k \in 1..Len(s) : s[k] \in ToSet(s) /\ s[k] \in A
         /\ \A e \in ToSet(s) : \E k \in 1..Len(s) : s[k] = e
BY DEF ToSet

\* What is selected of an ordered sequence is ordered.
LEMMA SelectOrdered ==
  ASSUME NEW s \in Seq(Mutant), Ordered(s), NEW S
  PROVE  /\ Select(s, S) \in Seq(Mutant) /\ Ordered(Select(s, S))
         /\ ToSet(Select(s, S)) = ToSet(s) \cap S
<1> DEFINE t == Select(s, S)
<1>1. t \in Seq(Mutant) /\ ToSet(t) = ToSet(s) \cap S
  BY SelectIs
<1>2. PICK g : Picked(s, S, Len(s), t, g)
  BY SelectPicks
<1> HIDE DEF t
<1>3. ASSUME NEW i \in 1..Len(t), NEW j \in 1..Len(t), i < j PROVE Before(t[i], t[j])
  <2>1. g[i] \in 1..Len(s) /\ g[j] \in 1..Len(s) /\ g[i] < g[j] /\ t[i] = s[g[i]] /\ t[j] = s[g[j]]
    BY <1>2, <1>3 DEF Picked
  <2> QED
    BY <2>1 DEF Ordered
<1>4. Ordered(t)
  BY <1>3 DEF Ordered
<1> QED
  BY <1>1, <1>4 DEF t

\* A concatenation has the elements of both sequences.
LEMMA ConcatHas ==
  ASSUME NEW A, NEW s \in Seq(A), NEW t \in Seq(A)
  PROVE  s \o t \in Seq(A) /\ ToSet(s \o t) = ToSet(s) \union ToSet(t)
<1> DEFINE u == s \o t
           m == Len(s)
           n == Len(t)
<1>1. u \in Seq(A) /\ Follows(u, s, t)
  BY ConcatFollows
<1>2. /\ m \in Nat /\ n \in Nat /\ Len(u) = m + n
      /\ \A x \in 1..m : u[x] = s[x]
      /\ \A x \in 1..n : u[m + x] = t[x]
  BY <1>1 DEF Follows
<1>3. ToSet(s) = {s[x] : x \in 1..m} /\ ToSet(t) = {t[x] : x \in 1..n}
  BY DEF ToSet
<1>4. ToSet(u) = {u[x] : x \in 1..m + n}
  <2> HIDE DEF u, m, n
  <2>1. DOMAIN u = 1..m + n
    BY <1>1, <1>2
  <2> QED
    BY <2>1 DEF ToSet
<1> HIDE DEF u, m, n
<1>5. ASSUME NEW x \in 1..m + n PROVE u[x] \in ToSet(s) \union ToSet(t)
  <2>1. CASE x \in 1..m
    BY <1>2, <1>3, <2>1
  <2>2. CASE x \notin 1..m
    <3>1. x - m \in 1..n /\ x = m + (x - m)
      BY <1>2, <2>2
    <3> DEFINE y == x - m
    <3>2. y \in 1..n /\ u[m + y] = u[x]
      BY <3>1
    <3> HIDE DEF y
    <3> QED
      BY <1>2, <1>3, <3>2
  <2> QED
    BY <2>1, <2>2
<1>6. ASSUME NEW x \in 1..m PROVE s[x] \in ToSet(u)
  <2>1. x \in 1..m + n
    BY <1>2
  <2> QED
    BY <1>2, <1>4, <2>1
<1>7. ASSUME NEW x \in 1..n PROVE t[x] \in ToSet(u)
  <2>1. m + x \in 1..m + n
    BY <1>2
  <2> QED
    BY <1>2, <1>4, <2>1
<1>8. ToSet(u) = ToSet(s) \union ToSet(t)
  BY <1>3, <1>4, <1>5, <1>6, <1>7
<1> QED
  BY <1>1, <1>8 DEF u

\* Two ordered sequences one behind the other.
LEMMA OrderedJoin ==
  ASSUME NEW s \in Seq(Mutant), NEW t \in Seq(Mutant), Ordered(s), Ordered(t),
         \A a \in ToSet(s), b \in ToSet(t) : Before(a, b)
  PROVE  /\ s \o t \in Seq(Mutant) /\ Ordered(s \o t)
         /\ ToSet(s \o t) = ToSet(s) \union ToSet(t)
<1> DEFINE u == s \o t
           m == Len(s)
           n == Len(t)
<1>1. u \in Seq(Mutant) /\ Follows(u, s, t)
  BY ConcatFollows
<1>2. /\ m \in Nat /\ n \in Nat /\ Len(u) = m + n
      /\ \A x \in 1..m : u[x] = s[x]
      /\ \A x \in 1..n : u[m + x] = t[x]
  BY <1>1 DEF Follows
<1>3. /\ \A k \in 1..m : s[k] \in ToSet(s)
      /\ \A e \in ToSet(s) : \E k \in 1..m : s[k] = e
      /\ \A k \in 1..n : t[k] \in ToSet(t)
      /\ \A e \in ToSet(t) : \E k \in 1..n : t[k] = e
  BY ToSetIs
<1>5. /\ \A i, j \in 1..m : i < j => Before(s[i], s[j])
      /\ \A i, j \in 1..n : i < j => Before(t[i], t[j])
  BY DEF Ordered
<1> HIDE DEF u, m, n
<1>6. \A k \in 1..m + n : k \in 1..m \/ (k - m \in 1..n /\ k = m + (k - m))
  BY <1>2
<1>7. \A k \in 1..m + n : k \notin 1..m => u[k] = t[k - m]
  BY <1>2, <1>6
<1>8. ASSUME NEW i \in 1..m + n, NEW j \in 1..m + n, i < j PROVE Before(u[i], u[j])
  <2>1. CASE j \in 1..m
    <3>1. i \in 1..m
      BY <2>1, <1>8, <1>2
    <3> QED
      BY <3>1, <2>1, <1>2, <1>5, <1>8
  <2>2. CASE i \in 1..m /\ j \notin 1..m
    <3>1. u[i] = s[i] /\ u[j] = t[j - m] /\ j - m \in 1..n
      BY <2>2, <1>2, <1>6, <1>7
    <3> QED
      BY <3>1, <2>2, <1>3
  <2>3. CASE i \notin 1..m
    <3>1. j \notin 1..m /\ i - m < j - m
      BY <2>3, <1>8, <1>2
    <3>2. u[i] = t[i - m] /\ u[j] = t[j - m] /\ i - m \in 1..n /\ j - m \in 1..n
      BY <2>3, <3>1, <1>6, <1>7
    <3> QED
      BY <3>1, <3>2, <1>5
  <2> QED
    BY <2>1, <2>2, <2>3
<1>9. Ordered(u)
  BY <1>8, <1>2 DEF Ordered
<1> QED
  BY <1>1, <1>9, ConcatHas DEF u

\* An insertion makes a sequence of mutants.
LEMMA InsertStays ==
  ASSUME NEW s \in Seq(Mutant), NEW m \in Mutant
  PROVE  Insert(s, m) \in Seq(Mutant)
<1>1. \A S : Select(s, S) \in Seq(Mutant)
  BY SelectIs
<1>2. <<m>> \in Seq(Mutant)
  OBVIOUS
<1> QED
  BY <1>1, <1>2 DEF Insert

\* An insertion keeps the order, if no other mutant has the id.
LEMMA InsertIs ==
  ASSUME NEW s \in Seq(Mutant), Ordered(s), NEW m \in Mutant, \A n \in ToSet(s) : n.id # m.id
  PROVE  /\ Insert(s, m) \in Seq(Mutant) /\ Ordered(Insert(s, m))
         /\ ToSet(Insert(s, m)) = ToSet(s) \union {m}
<1> DEFINE later == {n \in ToSet(s) : Before(m, n)}
           a == Select(s, ToSet(s) \ later)
           b == Select(s, later)
           o == <<m>>
<1>1. ToSet(s) \subseteq Mutant
  BY ToSetIs
<1>2. \A n \in ToSet(s) \ later : Before(n, m)
  BY <1>1, BeforeIs
<1>3. \A n \in later : Before(m, n)
  OBVIOUS
<1>4. later \subseteq ToSet(s)
  OBVIOUS
<1>5. Insert(s, m) = (a \o o) \o b
  BY DEF Insert
<1>6. o \in Seq(Mutant) /\ ToSet(o) = {m} /\ Ordered(o)
  BY DEF ToSet, Ordered
<1> HIDE DEF later, a, b, o
<1>7. a \in Seq(Mutant) /\ Ordered(a) /\ ToSet(a) = ToSet(s) \ later
  BY SelectOrdered DEF a
<1>8. b \in Seq(Mutant) /\ Ordered(b) /\ ToSet(b) = later
  <2>1. b \in Seq(Mutant) /\ Ordered(b) /\ ToSet(b) = ToSet(s) \cap later
    BY SelectOrdered DEF b
  <2> QED
    BY <1>4, <2>1
<1>9. /\ a \o o \in Seq(Mutant) /\ Ordered(a \o o)
      /\ ToSet(a \o o) = (ToSet(s) \ later) \union {m}
  BY <1>2, <1>6, <1>7, OrderedJoin
<1> DEFINE ao == a \o o
<1>10. ao \in Seq(Mutant) /\ Ordered(ao) /\ ToSet(ao) = (ToSet(s) \ later) \union {m}
  BY <1>9
<1> HIDE DEF ao
<1>11. \A x \in ToSet(ao), y \in ToSet(b) : Before(x, y)
  <2> SUFFICES ASSUME NEW x \in ToSet(ao), NEW y \in ToSet(b) PROVE Before(x, y)
    OBVIOUS
  <2>1. Before(m, y) /\ y \in Mutant /\ x \in Mutant
    BY <1>1, <1>3, <1>4, <1>8, <1>10
  <2>2. x = m \/ Before(x, m)
    BY <1>2, <1>10
  <2> QED
    BY <2>1, <2>2, BeforeIs
<1>12. ao \o b \in Seq(Mutant) /\ Ordered(ao \o b) /\ ToSet(ao \o b) = ToSet(ao) \union ToSet(b)
  BY <1>8, <1>10, <1>11, OrderedJoin
<1> QED
  BY <1>4, <1>5, <1>8, <1>10, <1>12 DEF ao

\* An ordered sequence that has the elements of another begins with that one.
LEMMA OrderedBegins ==
  ASSUME NEW s \in Seq(Mutant), NEW t \in Seq(Mutant), Ordered(s), Ordered(t),
         ToSet(s) = ToSet(t)
  PROVE  Len(s) <= Len(t) /\ \A k \in 1..Len(s) : s[k] = t[k]
<1> DEFINE m == Len(s)
           n == Len(t)
           Same(k) == k <= n /\ s[k] = t[k]
           T == {i \in 0..m : \A k \in 1..i : Same(k)}
<1>1. /\ m \in Nat /\ \A k \in 1..m : s[k] \in ToSet(s) /\ s[k] \in Mutant
      /\ \A e \in ToSet(s) : \E k \in 1..m : s[k] = e
  BY ToSetIs
<1>2. /\ n \in Nat /\ \A k \in 1..n : t[k] \in ToSet(s) /\ t[k] \in Mutant
      /\ \A e \in ToSet(s) : \E k \in 1..n : t[k] = e
  BY ToSetIs
<1>3. /\ \A i, j \in 1..m : i < j => Before(s[i], s[j])
      /\ \A i, j \in 1..n : i < j => Before(t[i], t[j])
  BY DEF Ordered
<1> HIDE DEF m, n
<1>4. 0 \in T
  BY <1>1
<1>5. ASSUME NEW i \in 0..m - 1, i \in T PROVE i + 1 \in T
  <2>1. i \in Nat /\ i + 1 \in 1..m /\ \A k \in 1..i : k \in 1..m /\ k \in 1..n /\ s[k] = t[k]
    BY <1>1, <1>2, <1>5
  <2>2. PICK j \in 1..n : t[j] = s[i + 1]
    BY <1>1, <1>2, <2>1
  <2>3. j \notin 1..i
    <3> SUFFICES ASSUME j \in 1..i PROVE FALSE
      OBVIOUS
    <3>1. s[j] = s[i + 1] /\ j \in 1..m /\ j < i + 1
      BY <2>1, <2>2
    <3>2. Before(s[j], s[i + 1])
      BY <3>1, <2>1, <1>3
    <3>3. Before(s[j], s[j]) /\ s[j] \in Mutant
      BY <3>1, <3>2, <1>1
    <3> QED
      BY <3>3, BeforeIs
  <2>4. i + 1 \in 1..n /\ i + 1 <= j
    BY <2>1, <2>3, <1>2
  <2>5. PICK h \in 1..m : s[h] = t[i + 1]
    BY <1>1, <1>2, <2>4
  <2>6. h \notin 1..i
    <3> SUFFICES ASSUME h \in 1..i PROVE FALSE
      OBVIOUS
    <3>1. t[h] = t[i + 1] /\ h \in 1..n /\ h < i + 1
      BY <2>1, <2>5
    <3>2. Before(t[h], t[i + 1])
      BY <3>1, <2>4, <1>3
    <3>3. Before(t[h], t[h]) /\ t[h] \in Mutant
      BY <3>1, <3>2, <1>2
    <3> QED
      BY <3>3, BeforeIs
  <2>7. i + 1 <= h
    BY <2>1, <2>6, <1>1
  <2>8. s[i + 1] = t[i + 1]
    <3> SUFFICES ASSUME s[i + 1] # t[i + 1] PROVE FALSE
      OBVIOUS
    <3>1. i + 1 < j /\ i + 1 < h
      BY <2>1, <2>2, <2>4, <2>5, <2>7
    <3>2. Before(t[i + 1], t[j]) /\ Before(s[i + 1], s[h])
      BY <3>1, <2>1, <2>4, <1>3
    <3> DEFINE x == s[i + 1]
               y == t[i + 1]
    <3>3. Before(y, x) /\ Before(x, y) /\ x \in Mutant /\ y \in Mutant
      BY <3>2, <2>1, <2>2, <2>4, <2>5, <1>1, <1>2
    <3> HIDE DEF x, y
    <3> QED
      BY <3>3, BeforeIs
  <2>9. Same(i + 1)
    BY <2>4, <2>8
  <2>10. ASSUME NEW k \in 1..i + 1 PROVE Same(k)
    <3>1. k = i + 1 \/ k \in 1..i
      BY <2>1
    <3> QED
      BY <3>1, <2>9, <1>5
  <2>11. i + 1 \in 0..m
    BY <2>1
  <2> QED
    BY <2>10, <2>11
<1>6. 0..m \subseteq T
  <2> HIDE DEF T
  <2> QED
    BY <1>1, <1>4, <1>5, InductionUpTo
<1>7. \A k \in 1..m : Same(k)
  BY <1>1, <1>6
<1>8. m <= n
  BY <1>1, <1>2, <1>7
<1> QED
  BY <1>7, <1>8 DEF m, n

\* There is one ordered sequence of a set of mutants.
LEMMA OrderedIsUnique ==
  ASSUME NEW s \in Seq(Mutant), NEW t \in Seq(Mutant), Ordered(s), Ordered(t),
         ToSet(s) = ToSet(t)
  PROVE  s = t
<1>1. Len(s) <= Len(t) /\ \A k \in 1..Len(s) : s[k] = t[k]
  BY OrderedBegins
<1>2. Len(t) <= Len(s)
  BY OrderedBegins
<1>3. Len(s) \in Nat /\ Len(t) \in Nat
  OBVIOUS
<1>4. Len(s) = Len(t)
  BY <1>1, <1>2, <1>3
<1> QED
  BY <1>1, <1>4, SeqEqual

\* p has what Sort has made of the first k mutants.
SortedSoFar(s, p) ==
  /\ p[0] = <<>> /\ \A k \in 1..Len(s) : p[k] = Insert(p[k - 1], s[k])
  /\ p[Len(s)] = Sort(s)

\* Sort inserts one mutant after the other.
LEMMA SortSteps ==
  ASSUME NEW s \in Seq(Mutant)
  PROVE  \E p : SortedSoFar(s, p)
<1> DEFINE N == Len(s)
           A == Seq(Mutant)
           Step(q, k) == Insert(q, s[k])
           Solves(f) == f = [n \in 0..N |-> IF n = 0 THEN <<>> ELSE Step(f[n - 1], n)]
           G == [k \in 1..N |-> [q \in A |-> Step(q, k)]]
<1>1. N \in Nat /\ <<>> \in A
  OBVIOUS
<1>2. ASSUME NEW k \in 1..N, NEW q \in A PROVE Step(q, k) \in A
  <2>1. s[k] \in Mutant
    OBVIOUS
  <2> QED
    BY <2>1, InsertStays
<1>3. Sort(s) = (CHOOSE f : Solves(f))[N]
  BY DEF Sort
<1> HIDE DEF N, A, Step
<1>4. \A k \in 1..N : \A q \in A : G[k][q] \in A /\ G[k][q] = Step(q, k)
  BY <1>2
<1> HIDE DEF G
<1>5. PICK f \in [0..N -> A] : f[0] = <<>> /\ \A k \in 1..N : f[k] = G[k][f[k - 1]]
  <2>1. \A k \in 1..N : \A q \in A : G[k][q] \in A
    BY <1>4
  <2> DEFINE e == <<>>
  <2>2. e \in A
    BY <1>1
  <2> HIDE DEF e
  <2>3. \E f : Stepwise(A, e, N, G, f)
    BY ONLY <1>1, <2>1, <2>2, RecursionSolved
  <2> QED
    BY <2>3 DEF e, Stepwise
<1>6. Solves(f)
  <2>1. ASSUME NEW n \in 0..N PROVE f[n] = IF n = 0 THEN <<>> ELSE Step(f[n - 1], n)
    <3>1. CASE n = 0
      BY <3>1, <1>5
    <3>2. CASE n # 0
      <4>1. n \in 1..N /\ n - 1 \in 0..N
        BY <3>2, <1>1
      <4>2. f[n] = G[n][f[n - 1]] /\ f[n - 1] \in A
        BY <4>1, <1>5
      <4>3. f[n] = Step(f[n - 1], n)
        BY <4>1, <4>2, <1>4
      <4> QED
        BY <4>3, <3>2
    <3> QED
      BY <3>1, <3>2
  <2> QED
    BY <2>1, <1>5
<1> DEFINE c == CHOOSE g : Solves(g)
<1>7. Solves(c)
  <2> HIDE DEF Solves
  <2> QED
    BY <1>6
<1>8. c[N] = Sort(s)
  BY <1>3
<1> HIDE DEF c
<1>9. c = [n \in 0..N |-> IF n = 0 THEN <<>> ELSE Step(c[n - 1], n)]
  BY <1>7
<1> HIDE DEF Solves
<1>10. c[0] = <<>>
  BY <1>1, <1>9
<1>11. ASSUME NEW k \in 1..N PROVE c[k] = Step(c[k - 1], k)
  <2>1. k \in 0..N /\ k # 0
    BY <1>1
  <2> QED
    BY <1>9, <2>1
<1> QED
  BY <1>8, <1>10, <1>11 DEF SortedSoFar, Step, N

IdsDiffer(s) == \A i, j \in 1..Len(s) : i # j => s[i].id # s[j].id

\* Sort puts mutants with different ids in order, and loses none.
LEMMA SortIs ==
  ASSUME NEW s \in Seq(Mutant), IdsDiffer(s)
  PROVE  Sort(s) \in Seq(Mutant) /\ Ordered(Sort(s)) /\ ToSet(Sort(s)) = ToSet(s)
<1> DEFINE N == Len(s)
           Upto(n) == {s[k] : k \in 1..n}
           Good(q, n) == q \in Seq(Mutant) /\ Ordered(q) /\ ToSet(q) = Upto(n)
<1>1. PICK p : SortedSoFar(s, p)
  BY SortSteps
<1> DEFINE T == {n \in 0..N : Good(p[n], n)}
<1>2. /\ p[0] = <<>> /\ \A k \in 1..N : p[k] = Insert(p[k - 1], s[k])
      /\ p[N] = Sort(s)
  BY <1>1 DEF SortedSoFar
<1>3. N \in Nat /\ \A k \in 1..N : s[k] \in Mutant
  OBVIOUS
<1>4. Upto(N) = ToSet(s)
  BY DEF ToSet
<1>5. \A i, j \in 1..N : i # j => s[i].id # s[j].id
  BY DEF IdsDiffer
<1> HIDE DEF N
<1>6. 0 \in T
  <2>1. Ordered(<<>>) /\ ToSet(<<>>) = {} /\ <<>> \in Seq(Mutant)
    BY DEF Ordered, ToSet
  <2>2. Upto(0) = {}
    OBVIOUS
  <2>3. 0 \in 0..N
    BY <1>3
  <2> HIDE DEF Upto
  <2> QED
    BY <1>2, <2>1, <2>2, <2>3
<1>7. ASSUME NEW n \in 0..N - 1, n \in T PROVE n + 1 \in T
  <2>1. n + 1 \in 1..N /\ n + 1 \in 0..N /\ n + 1 - 1 = n /\ n \in Nat
    BY <1>3
  <2> DEFINE q == p[n]
             m == s[n + 1]
  <2>2. q \in Seq(Mutant) /\ Ordered(q) /\ ToSet(q) = Upto(n) /\ m \in Mutant
    BY <1>7, <1>3, <2>1
  <2>3. \A x \in Upto(n) : x.id # m.id
    <3> SUFFICES ASSUME NEW k \in 1..n PROVE s[k].id # m.id
      OBVIOUS
    <3>1. k \in 1..N /\ k # n + 1
      BY <1>3, <2>1
    <3> QED
      BY <1>5, <2>1, <3>1
  <2>4. p[n + 1] = Insert(q, m)
    BY <1>2, <2>1
  <2>5. Upto(n + 1) = Upto(n) \union {m}
    <3>1. 1..n + 1 = (1..n) \union {n + 1}
      BY <2>1
    <3> QED
      BY <3>1
  <2> HIDE DEF q, m, Upto
  <2>6. /\ Insert(q, m) \in Seq(Mutant) /\ Ordered(Insert(q, m))
        /\ ToSet(Insert(q, m)) = ToSet(q) \union {m}
    BY <2>2, <2>3, InsertIs
  <2>7. Good(p[n + 1], n + 1)
    BY <2>2, <2>4, <2>5, <2>6
  <2> HIDE DEF Good
  <2> QED
    BY <2>1, <2>7
<1>8. 0..N \subseteq T
  <2> HIDE DEF T
  <2> QED
    BY <1>3, <1>6, <1>7, InductionUpTo
<1>9. Good(p[N], N)
  <2>1. N \in 0..N
    BY <1>3
  <2> HIDE DEF Good
  <2> QED
    BY <1>8, <2>1
<1> QED
  BY <1>2, <1>4, <1>9

\* Merging keeps one mutant of each id, in order.
Merged(all, s) ==
  /\ s \in Seq(Mutant) /\ Ordered(s) /\ ToSet(s) \subseteq ToSet(all)
  /\ \A m \in ToSet(all) : \E n \in ToSet(s) : n.id = m.id
LEMMA MergedIs ==
  ASSUME NEW all \in Seq(Mutant)
  PROVE  Merged(all, merge_mutants(all))
<1> DEFINE first == {i \in DOMAIN all : \A j \in 1..i - 1 : all[j].id # all[i].id}
           at == Places(all, first)
           firsts == [k \in DOMAIN at |-> all[at[k]]]
<1>1. /\ DOMAIN all = 1..Len(all) /\ Len(all) \in Nat
      /\ \A k \in 1..Len(all) : all[k] \in ToSet(all) /\ all[k] \in Mutant
      /\ \A e \in ToSet(all) : \E k \in 1..Len(all) : all[k] = e
  BY ToSetIs
<1>2. /\ at \in Seq(Nat) /\ Len(at) \in Nat /\ DOMAIN at = 1..Len(at)
      /\ \A k \in 1..Len(at) : at[k] \in 1..Len(all) /\ at[k] \in first
      /\ \A k \in 1..Len(at), j \in 1..Len(at) : j < k => at[j] < at[k]
      /\ \A x \in 1..Len(all) : x \in first => \E k \in 1..Len(at) : at[k] = x
  <2> HIDE DEF first
  <2> QED
    BY PlacesAre
<1>3. merge_mutants(all) = Sort(firsts)
  BY DEF merge_mutants
<1>4. \A i \in first, j \in 1..Len(all) : j < i => all[j].id # all[i].id
  <2> SUFFICES ASSUME NEW i \in first, NEW j \in 1..Len(all), j < i PROVE all[j].id # all[i].id
    OBVIOUS
  <2>1. j \in 1..i - 1
    BY <1>1
  <2> QED
    BY <2>1
<1>5. \A x \in 1..Len(all) : \E i \in first : all[i].id = all[x].id
  <2> SUFFICES ASSUME NEW x \in 1..Len(all) PROVE \E i \in first : all[i].id = all[x].id
    OBVIOUS
  <2> DEFINE U == {i \in 1..Len(all) : all[i].id = all[x].id}
  <2>1. PICK i \in U : \A y \in U : i <= y
    <3>1. U \subseteq Nat /\ U # {}
      OBVIOUS
    <3> HIDE DEF U
    <3> QED
      BY <3>1, LeastNatural
  <2>2. \A j \in 1..i - 1 : all[j].id # all[i].id
    <3> SUFFICES ASSUME NEW j \in 1..i - 1, all[j].id = all[i].id PROVE FALSE
      OBVIOUS
    <3>1. j \in U
      BY <1>1
    <3> QED
      BY <3>1, <2>1
  <2>3. i \in first
    BY <1>1, <2>2
  <2> QED
    BY <2>3
<1> HIDE DEF first, at
<1>6. firsts \in Seq(Mutant) /\ Len(firsts) = Len(at) /\ \A k \in 1..Len(at) : firsts[k] = all[at[k]]
  BY <1>1, <1>2
<1> HIDE DEF firsts
<1>7. IdsDiffer(firsts)
  <2>1. ASSUME NEW i \in 1..Len(at), NEW j \in 1..Len(at), i < j PROVE firsts[i].id # firsts[j].id
    <3>1. at[i] < at[j] /\ at[j] \in first /\ at[i] \in 1..Len(all)
      BY <1>2, <2>1
    <3>2. all[at[i]].id # all[at[j]].id
      BY <3>1, <1>4
    <3> QED
      BY <3>2, <1>6
  <2>2. ASSUME NEW i \in 1..Len(at), NEW j \in 1..Len(at), i # j PROVE firsts[i].id # firsts[j].id
    <3>1. i < j \/ j < i
      BY <2>2, <1>2
    <3> QED
      BY <3>1, <2>1
  <2> QED
    BY <2>2, <1>6 DEF IdsDiffer
<1>8. Sort(firsts) \in Seq(Mutant) /\ Ordered(Sort(firsts)) /\ ToSet(Sort(firsts)) = ToSet(firsts)
  BY <1>6, <1>7, SortIs
<1>9. /\ \A k \in 1..Len(at) : firsts[k] \in ToSet(firsts)
      /\ \A e \in ToSet(firsts) : \E k \in 1..Len(at) : firsts[k] = e
  BY <1>6, ToSetIs
<1>10. ToSet(firsts) \subseteq ToSet(all)
  <2> SUFFICES ASSUME NEW e \in ToSet(firsts) PROVE e \in ToSet(all)
    OBVIOUS
  <2>1. PICK k \in 1..Len(at) : firsts[k] = e
    BY <1>9
  <2>2. at[k] \in 1..Len(all) /\ e = all[at[k]]
    BY <1>2, <1>6, <2>1
  <2> QED
    BY <1>1, <2>2
<1>11. ASSUME NEW m \in ToSet(all) PROVE \E n \in ToSet(firsts) : n.id = m.id
  <2>1. PICK x \in 1..Len(all) : all[x] = m
    BY <1>1
  <2>2. PICK i \in first : all[i].id = m.id
    BY <1>5, <2>1
  <2>3. PICK k \in 1..Len(at) : at[k] = i
    <3>1. i \in 1..Len(all)
      BY <1>1 DEF first
    <3> QED
      BY <1>2, <3>1
  <2> QED
    BY <2>2, <2>3, <1>6, <1>9
<1> QED
  BY <1>3, <1>8, <1>10, <1>11 DEF Merged

-----------------------------------------------------------------------------
(* Names of files *)

NameChars == STRING \ {"cr", "control"}
Alphabet == STRING \union {"quote", "backslash", "newline", "tab", "n", "t", ","}

\* What a character of a name is written as.
LEMMA EscapedIs ==
  ASSUME NEW c \in NameChars
  PROVE  \/ c \in {"quote", "backslash"} /\ Escaped(c) = <<"backslash", c>> /\ Unescaped(c) = c
         \/ c = "newline" /\ Escaped(c) = <<"backslash", "n">>
         \/ c = "tab" /\ Escaped(c) = <<"backslash", "t">>
         \/ c \notin {"quote", "backslash", "newline", "tab"} /\ Escaped(c) = <<c>>
<1>1. DOMAIN Escapes = {"quote", "backslash", "newline", "cr", "tab", "control"}
  BY DEF Escapes
<1>2. /\ Escapes["quote"] = <<"backslash", "quote">> /\ Escapes["backslash"] = <<"backslash", "backslash">>
      /\ Escapes["newline"] = <<"backslash", "n">> /\ Escapes["tab"] = <<"backslash", "t">>
  BY DEF Escapes
<1>3. CASE c \in {"quote", "backslash", "newline", "tab"}
  BY <1>1, <1>2, <1>3 DEF Escaped, Unescaped
<1>4. CASE c \notin {"quote", "backslash", "newline", "tab"}
  BY <1>1, <1>4 DEF Escaped, NameChars
<1> QED
  BY <1>3, <1>4

\* The states of the reader.
Open(out) == [out |-> out, escaped |-> FALSE, closed |-> FALSE]
InEscape(out) == [out |-> out, escaped |-> TRUE, closed |-> FALSE]
Closed(out) == [out |-> out, escaped |-> FALSE, closed |-> TRUE]
States == [out : Seq(Alphabet), escaped : BOOLEAN, closed : BOOLEAN]

\* What one character does to the reader.
LEMMA ReadCharIs ==
  ASSUME NEW out, NEW c
  PROVE  /\ c \notin {"quote", "backslash"} => ReadChar(Open(out), c) = Open(Append(out, c))
         /\ ReadChar(Open(out), "backslash") = InEscape(out)
         /\ ReadChar(Open(out), "quote") = Closed(out)
         /\ ReadChar(InEscape(out), c) = Open(Append(out, Unescaped(c)))
         /\ ReadChar(Closed(out), c) = Closed(out)
<1>1. ReadChar(Closed(out), c) = Closed(out)
  BY DEF ReadChar, Closed
<1>2. ReadChar(InEscape(out), c) = Open(Append(out, Unescaped(c)))
  BY DEF ReadChar, InEscape, Open
<1>3. ReadChar(Open(out), "quote") = Closed(out)
  BY DEF ReadChar, Closed, Open
<1>4. ReadChar(Open(out), "backslash") = InEscape(out)
  BY DEF ReadChar, InEscape, Open
<1>5. c \notin {"quote", "backslash"} => ReadChar(Open(out), c) = Open(Append(out, c))
  BY DEF ReadChar, Open
<1> QED
  BY <1>1, <1>2, <1>3, <1>4, <1>5

\* Each character makes a state of the reader.
LEMMA ReadCharStays ==
  ASSUME NEW s \in States, NEW c \in Alphabet
  PROVE  ReadChar(s, c) \in States
<1> DEFINE o == s.out
<1>1. o \in Seq(Alphabet) /\ s.escaped \in BOOLEAN /\ s.closed \in BOOLEAN
  BY DEF States
<1>2. Unescaped(c) \in Alphabet
  <2>1. Unescaped(c) = "newline" \/ Unescaped(c) = "tab" \/ Unescaped(c) = c
    BY DEF Unescaped
  <2>2. "newline" \in Alphabet /\ "tab" \in Alphabet
    BY DEF Alphabet
  <2> QED
    BY <2>1, <2>2
<1>3. Append(o, c) \in Seq(Alphabet) /\ Append(o, Unescaped(c)) \in Seq(Alphabet)
  BY <1>1, <1>2
<1>4. s = [out |-> o, escaped |-> s.escaped, closed |-> s.closed]
  BY DEF States
<1> HIDE DEF o
<1>5. Open(Append(o, c)) \in States /\ Open(Append(o, Unescaped(c))) \in States
  BY <1>3 DEF Open, States
<1>6. InEscape(o) \in States /\ Closed(o) \in States
  BY <1>1 DEF InEscape, Closed, States
<1>7. CASE s.closed
  BY <1>7 DEF ReadChar
<1>8. CASE ~s.closed /\ s.escaped
  <2>1. s = InEscape(o)
    BY <1>1, <1>4, <1>8 DEF InEscape
  <2> QED
    BY <2>1, <1>5, ReadCharIs
<1>9. CASE ~s.closed /\ ~s.escaped
  <2>1. s = Open(o)
    BY <1>1, <1>4, <1>9 DEF Open
  <2>2. CASE c = "quote"
    BY <2>1, <2>2, <1>6, ReadCharIs
  <2>3. CASE c = "backslash"
    BY <2>1, <2>3, <1>6, ReadCharIs
  <2>4. CASE c \notin {"quote", "backslash"}
    BY <2>1, <2>4, <1>5, ReadCharIs
  <2> QED
    BY <2>2, <2>3, <2>4
<1> QED
  BY <1>7, <1>8, <1>9

\* p has the states of the reader of a text.
ReadSoFar(text, p) ==
  /\ p[0] = Open(<<>>) /\ \A k \in 1..Len(text) : p[k] = ReadChar(p[k - 1], text[k])
  /\ p[Len(text)].out = json_string_field(text)

\* The text is read one character after the other.
LEMMA ReadSteps ==
  ASSUME NEW text \in Seq(Alphabet)
  PROVE  \E p : ReadSoFar(text, p)
<1> DEFINE N == Len(text)
           A == States
           a == Open(<<>>)
           Step(q, k) == ReadChar(q, text[k])
           Solves(f) == f = [n \in 0..N |-> IF n = 0 THEN a ELSE Step(f[n - 1], n)]
           G == [k \in 1..N |-> [q \in A |-> Step(q, k)]]
<1>1. N \in Nat /\ a \in A
  BY DEF Open, States
<1>2. ASSUME NEW k \in 1..N, NEW q \in A PROVE Step(q, k) \in A
  <2>1. text[k] \in Alphabet
    OBVIOUS
  <2> QED
    BY <2>1, ReadCharStays
<1>3. json_string_field(text) = (CHOOSE f : Solves(f))[N].out
  BY DEF json_string_field, Open
<1> HIDE DEF N, A, Step, a
<1>4. \A k \in 1..N : \A q \in A : G[k][q] \in A /\ G[k][q] = Step(q, k)
  BY <1>2
<1> HIDE DEF G
<1>5. PICK f \in [0..N -> A] : f[0] = a /\ \A k \in 1..N : f[k] = G[k][f[k - 1]]
  <2>1. \A k \in 1..N : \A q \in A : G[k][q] \in A
    BY <1>4
  <2>2. \E f : Stepwise(A, a, N, G, f)
    BY ONLY <1>1, <2>1, RecursionSolved
  <2> QED
    BY <2>2 DEF Stepwise
<1>6. Solves(f)
  <2>1. ASSUME NEW n \in 0..N PROVE f[n] = IF n = 0 THEN a ELSE Step(f[n - 1], n)
    <3>1. CASE n = 0
      BY <3>1, <1>5
    <3>2. CASE n # 0
      <4>1. n \in 1..N /\ n - 1 \in 0..N
        BY <3>2, <1>1
      <4>2. f[n] = G[n][f[n - 1]] /\ f[n - 1] \in A
        BY <4>1, <1>5
      <4>3. f[n] = Step(f[n - 1], n)
        BY <4>1, <4>2, <1>4
      <4> QED
        BY <4>3, <3>2
    <3> QED
      BY <3>1, <3>2
  <2> QED
    BY <2>1, <1>5
<1> DEFINE c == CHOOSE g : Solves(g)
<1>7. Solves(c)
  <2> HIDE DEF Solves
  <2> QED
    BY <1>6
<1>8. c[N].out = json_string_field(text)
  BY <1>3
<1> HIDE DEF c
<1>9. c = [n \in 0..N |-> IF n = 0 THEN a ELSE Step(c[n - 1], n)]
  BY <1>7
<1> HIDE DEF Solves
<1>10. c[0] = a
  BY <1>1, <1>9
<1>11. ASSUME NEW k \in 1..N PROVE c[k] = Step(c[k - 1], k)
  <2>1. k \in 0..N /\ k # 0
    BY <1>1
  <2> QED
    BY <1>9, <2>1
<1> QED
  BY <1>8, <1>10, <1>11 DEF ReadSoFar, Step, N, a

Prefix(s, k) == [x \in 1..k |-> s[x]]

LEMMA PrefixGrows ==
  ASSUME NEW A, NEW s \in Seq(A), NEW k \in 1..Len(s)
  PROVE  Prefix(s, k - 1) \in Seq(A) /\ Append(Prefix(s, k - 1), s[k]) = Prefix(s, k)
<1> DEFINE a == Prefix(s, k - 1)
           b == Prefix(s, k)
           c == Append(a, s[k])
<1>1. /\ Len(s) \in Nat /\ k \in Nat /\ k - 1 \in Nat
      /\ \A x \in 1..Len(s) : s[x] \in A
  OBVIOUS
<1>2. a \in Seq(A) /\ Len(a) = k - 1 /\ \A x \in 1..k - 1 : a[x] = s[x]
  BY <1>1 DEF Prefix
<1>3. b \in Seq(A) /\ Len(b) = k /\ \A x \in 1..k : b[x] = s[x]
  BY <1>1 DEF Prefix
<1>4. s[k] \in A
  OBVIOUS
<1> HIDE DEF a, b
<1>5. c \in Seq(A) /\ Len(c) = k /\ c[k] = s[k] /\ \A x \in 1..k - 1 : c[x] = a[x]
  BY <1>1, <1>2, <1>4
<1>6. \A x \in 1..k : c[x] = b[x]
  <2> SUFFICES ASSUME NEW x \in 1..k PROVE c[x] = b[x]
    OBVIOUS
  <2>1. x = k \/ x \in 1..k - 1
    BY <1>1
  <2> HIDE DEF c
  <2> QED
    BY <2>1, <1>2, <1>3, <1>5
<1> HIDE DEF c
<1>7. c = b
  BY <1>3, <1>5, <1>6, SeqEqual
<1> QED
  BY <1>2, <1>7 DEF a, b, c

\* What a name is written as is read back as the name, whatever follows its quote.
LEMMA NameReadBack ==
  ASSUME NEW name \in Seq(NameChars)
  PROVE  json_string_field(jsonEscape(name) \o <<"quote", ",">>) = name
<1> DEFINE n == Len(name)
           ss == [i \in DOMAIN name |-> Escaped(name[i])]
           J == jsonEscape(name)
           e == <<"quote", ",">>
           text == J \o e
           A == Alphabet
<1>1. n \in Nat /\ DOMAIN name = 1..n /\ \A k \in 1..n : name[k] \in NameChars
  OBVIOUS
<1>2. /\ <<"quote">> \in Seq(A) /\ e \in Seq(A) /\ Len(e) = 2 /\ e[1] = "quote"
      /\ <<"backslash", "n">> \in Seq(A) /\ <<"backslash", "t">> \in Seq(A)
  BY DEF Alphabet
<1>3. \A c \in NameChars : c \in A
  BY DEF Alphabet, NameChars
<1>4. \A c \in NameChars : Escaped(c) \in Seq(A)
  <2> SUFFICES ASSUME NEW c \in NameChars PROVE Escaped(c) \in Seq(A)
    OBVIOUS
  <2>1. c \in A /\ "backslash" \in A
    BY <1>3 DEF Alphabet
  <2> HIDE DEF A
  <2>2. <<"backslash", c>> \in Seq(A) /\ <<c>> \in Seq(A)
    BY <2>1
  <2> QED
    BY <1>2, <2>2, EscapedIs
<1>5. ss \in Seq(Seq(A)) /\ Len(ss) = n /\ \A k \in 1..n : ss[k] = Escaped(name[k])
  BY <1>1, <1>4
<1>6. J = FlattenSeq(ss)
  BY DEF jsonEscape
<1> HIDE DEF ss, J, e, A
<1>7. PICK q : Joined(A, ss, q)
  BY <1>5, FlattenJoins
<1>8. /\ \A k \in 0..n : q[k] \in Seq(A) /\ Len(q[k]) \in Nat
      /\ Len(q[0]) = 0 /\ q[n] = J /\ J \in Seq(A)
  BY <1>5, <1>6, <1>7, JoinedEnds
<1>9. text \in Seq(A) /\ Follows(text, J, e)
  BY <1>2, <1>8, ConcatFollows
<1> HIDE DEF text
<1>10. /\ Len(J) \in Nat /\ Len(text) = Len(J) + 2 /\ text[Len(J) + 1] = "quote"
       /\ \A x \in 1..Len(J) : text[x] = J[x]
  BY <1>2, <1>9 DEF Follows
<1>11. PICK p : ReadSoFar(text, p)
  BY <1>9, ReadSteps DEF A
<1>12. /\ p[0] = Open(<<>>) /\ \A k \in 1..Len(J) + 2 : p[k] = ReadChar(p[k - 1], text[k])
       /\ p[Len(J) + 2].out = json_string_field(text)
  BY <1>10, <1>11 DEF ReadSoFar
<1> DEFINE T == {k \in 0..n : p[Len(q[k])] = Open(Prefix(name, k))}
<1>13. 0 \in T
  <2>1. Prefix(name, 0) = <<>>
    BY DEF Prefix
  <2> QED
    BY <2>1, <1>1, <1>8, <1>12
<1>14. ASSUME NEW k \in 0..n - 1, k \in T PROVE k + 1 \in T
  <2> DEFINE j == k + 1
             c == name[j]
             w == ss[j]
             a == Len(q[k])
             o == Prefix(name, k)
  <2>1. j \in 1..n /\ j \in 0..n /\ k \in 0..n /\ j - 1 = k
    BY <1>1
  <2>2. w = Escaped(c) /\ c \in NameChars
    BY <1>1, <1>5, <2>1
  <2>3. Follows(q[j], q[k], w)
    BY <1>5, <1>7, <2>1, JoinedStep
  <2>4. Len(q[j]) = a + Len(w) /\ a \in Nat
    BY <1>8, <2>1, <2>3 DEF Follows
  <2>5. ASSUME NEW y \in 1..Len(w) PROVE a + y \in 1..Len(J) /\ text[a + y] = w[y]
    <3>1. a + y \in 1..Len(J) /\ J[a + y] = w[y]
      BY <1>5, <1>6, <1>7, <2>1, JoinedPlace
    <3> QED
      BY <1>10, <3>1
  <2>6. p[a] = Open(o)
    BY <1>14
  <2>7. Append(o, c) = Prefix(name, j)
    BY <2>1, PrefixGrows
  <2> HIDE DEF j, c, w, a, o
  <2>8. ASSUME NEW y \in 1..Len(w) PROVE p[a + y] = ReadChar(p[(a + y) - 1], w[y])
    <3>1. a + y \in 1..Len(J) + 2 /\ text[a + y] = w[y]
      BY <1>10, <2>4, <2>5
    <3> DEFINE z == a + y
    <3>2. z \in 1..Len(J) + 2 /\ text[z] = w[y]
      BY <3>1
    <3> HIDE DEF z
    <3>3. p[z] = ReadChar(p[z - 1], text[z])
      BY <1>12, <3>2
    <3>4. p[z] = ReadChar(p[z - 1], w[y])
      BY <3>2, <3>3
    <3> QED
      BY <3>4 DEF z
  <2>9. ASSUME NEW d, w = <<"backslash", d>> PROVE p[a + 2] = Open(Append(o, Unescaped(d)))
    <3>1. Len(w) = 2 /\ w[1] = "backslash" /\ w[2] = d
      BY <2>9
    <3>2. (a + 1) - 1 = a /\ (a + 2) - 1 = a + 1
      BY <2>4
    <3>3. p[a + 1] = ReadChar(p[a], "backslash") /\ p[a + 2] = ReadChar(p[a + 1], d)
      BY <2>8, <3>1, <3>2
    <3>4. p[a + 1] = InEscape(o)
      BY <2>6, <3>3, ReadCharIs
    <3> QED
      BY <3>3, <3>4, ReadCharIs
  <2>10. p[a + Len(w)] = Open(Append(o, c))
    <3>1. CASE c \in {"quote", "backslash"} /\ Escaped(c) = <<"backslash", c>> /\ Unescaped(c) = c
      <4>1. p[a + 2] = Open(Append(o, c)) /\ Len(w) = 2
        BY <2>2, <2>9, <3>1
      <4> QED
        BY <4>1
    <3>2. CASE c = "newline" /\ Escaped(c) = <<"backslash", "n">>
      <4>1. Unescaped("n") = "newline"
        BY DEF Unescaped
      <4>2. p[a + 2] = Open(Append(o, c)) /\ Len(w) = 2
        BY <2>2, <2>9, <3>2, <4>1
      <4> QED
        BY <4>2
    <3>3. CASE c = "tab" /\ Escaped(c) = <<"backslash", "t">>
      <4>1. Unescaped("t") = "tab"
        BY DEF Unescaped
      <4>2. p[a + 2] = Open(Append(o, c)) /\ Len(w) = 2
        BY <2>2, <2>9, <3>3, <4>1
      <4> QED
        BY <4>2
    <3>4. CASE c \notin {"quote", "backslash", "newline", "tab"} /\ Escaped(c) = <<c>>
      <4>1. Len(w) = 1 /\ w[1] = c /\ (a + 1) - 1 = a
        BY <2>2, <2>4, <3>4
      <4>2. p[a + 1] = ReadChar(p[a], c)
        BY <2>8, <4>1
      <4>3. p[a + 1] = Open(Append(o, c))
        BY <2>6, <3>4, <4>2, ReadCharIs
      <4> QED
        BY <4>1, <4>3
    <3> QED
      BY <2>2, <3>1, <3>2, <3>3, <3>4, EscapedIs
  <2>11. p[Len(q[j])] = Open(Prefix(name, j))
    BY <2>4, <2>7, <2>10
  <2> QED
    BY <2>1, <2>11 DEF j
<1>15. 0..n \subseteq T
  <2> HIDE DEF T
  <2> QED
    BY <1>1, <1>13, <1>14, InductionUpTo
<1>16. p[Len(J)] = Open(Prefix(name, n))
  <2>1. n \in 0..n
    BY <1>1
  <2> QED
    BY <1>8, <1>15, <2>1
<1>17. Prefix(name, n) = name
  BY <1>1 DEF Prefix
<1>18. p[Len(J) + 1] = Closed(name)
  <2>1. Len(J) + 1 \in 1..Len(J) + 2 /\ Len(J) + 1 - 1 = Len(J)
    BY <1>10
  <2> QED
    BY <1>10, <1>12, <1>16, <1>17, <2>1, ReadCharIs
<1>19. p[Len(J) + 2] = Closed(name)
  <2>1. Len(J) + 2 \in 1..Len(J) + 2 /\ Len(J) + 2 - 1 = Len(J) + 1
    BY <1>10
  <2> QED
    BY <1>12, <1>18, <2>1, ReadCharIs
<1>20. json_string_field(text) = name
  BY <1>12, <1>19 DEF Closed
<1> QED
  BY <1>20 DEF text, J, e

\* Each file of a catalogue is known again.
LEMMA FileReadBack == \A f \in DOMAIN Spelling : ReadBack[f] = f
<1> SUFFICES ASSUME NEW f \in DOMAIN Spelling PROVE ReadBack[f] = f
  OBVIOUS
<1> DEFINE name == json_string_field(jsonEscape(Spelling[f]) \o <<"quote", ",">>)
<1>1. name = Spelling[f]
  BY NameReadBack, FilesHaveOneSpelling DEF NameChars
<1>2. ReadBack[f] = IF \E g \in DOMAIN Spelling : Spelling[g] = name
                    THEN CHOOSE g \in DOMAIN Spelling : Spelling[g] = name ELSE 0
  BY DEF ReadBack
<1> HIDE DEF name
<1>3. \A g \in DOMAIN Spelling : Spelling[g] = name => g = f
  BY <1>1, FilesHaveOneSpelling DEF IsInjective
<1> QED
  BY <1>1, <1>2, <1>3

-----------------------------------------------------------------------------
(* Catalogues *)

TextChars == {Rec(m) : m \in Mutant} \union {Newline, Nul}

\* The characters are told apart.
LEMMA CharIs ==
  /\ Newline \in TextChars /\ Nul \in TextChars /\ Newline.tag # "record" /\ Nul.tag # "record"
  /\ \A m \in Mutant : Rec(m) \in TextChars /\ Rec(m).tag = "record" /\ Rec(m).mutant = m
  /\ \A c \in TextChars : c.tag = "record" => c.mutant \in Mutant /\ c = Rec(c.mutant)
<1>1. Newline.tag = "newline" /\ Nul.tag = "nul"
  BY DEF Newline, Nul
<1>2. \A m \in Mutant : Rec(m).tag = "record" /\ Rec(m).mutant = m
  BY DEF Rec
<1>3. "newline" # "record" /\ "nul" # "record"
  OBVIOUS
<1>4. \A c \in TextChars : c = Newline \/ c = Nul \/ \E m \in Mutant : c = Rec(m)
  BY DEF TextChars
<1>5. ASSUME NEW c \in TextChars, c.tag = "record"
      PROVE  c.mutant \in Mutant /\ c = Rec(c.mutant)
  <2>1. c # Newline /\ c # Nul
    BY <1>1, <1>3, <1>5
  <2>2. PICK m \in Mutant : c = Rec(m)
    BY <1>4, <2>1
  <2> QED
    BY <1>2, <2>2
<1> QED
  BY <1>1, <1>2, <1>3, <1>5 DEF TextChars

\* A record is read as it was written.
LEMMA RecordReadBack == \A m \in Mutant : [m EXCEPT !.file = ReadBack[@]] = m
<1> SUFFICES ASSUME NEW m \in Mutant PROVE [m EXCEPT !.file = ReadBack[@]] = m
  OBVIOUS
<1>1. ReadBack[m.file] = m.file
  BY FileReadBack DEF Mutant
<1> QED
  BY <1>1 DEF Mutant

\* Reading a text gives the records that begin a line.
Parsed(text, s) ==
  /\ s \in Seq(Mutant)
  /\ \A i \in RecordLines(text) : text[i].mutant \in ToSet(s)
  /\ \A m \in ToSet(s) : \E i \in RecordLines(text) : text[i].mutant = m
LEMMA ParseIs ==
  ASSUME NEW text \in Seq(TextChars)
  PROVE  Parsed(text, parse_ndjson(text))
<1> DEFINE S == RecordLines(text)
           at == Places(text, S)
           Entry(k) == [text[at[k]].mutant EXCEPT !.file = ReadBack[@]]
           s == [k \in DOMAIN at |-> Entry(k)]
           t == [k \in 1..Len(at) |-> text[at[k]].mutant]
<1>1. parse_ndjson(text) = s
  BY DEF parse_ndjson
<1>2. /\ DOMAIN text = 1..Len(text) /\ \A k \in 1..Len(text) : text[k] \in TextChars
      /\ \A i \in S : i \in 1..Len(text) /\ text[i].tag = "record"
  BY DEF RecordLines
<1>3. \A i \in S : text[i].mutant \in Mutant
  BY <1>2, CharIs
<1> HIDE DEF S
<1>4. /\ Len(at) \in Nat /\ DOMAIN at = 1..Len(at)
      /\ \A k \in 1..Len(at) : at[k] \in 1..Len(text) /\ at[k] \in S
      /\ \A x \in 1..Len(text) : x \in S => \E k \in 1..Len(at) : at[k] = x
  BY PlacesAre
<1> HIDE DEF at
<1>5. \A k \in 1..Len(at) : Entry(k) = text[at[k]].mutant
  BY <1>3, <1>4, RecordReadBack
<1>6. s = t
  BY <1>4, <1>5
<1> HIDE DEF Entry, s
<1>7. t \in Seq(Mutant) /\ Len(t) = Len(at) /\ \A k \in 1..Len(at) : t[k] = text[at[k]].mutant
  BY <1>3, <1>4
<1> HIDE DEF t
<1>8. /\ \A k \in 1..Len(at) : t[k] \in ToSet(t)
      /\ \A m \in ToSet(t) : \E k \in 1..Len(at) : t[k] = m
  BY <1>7, ToSetIs
<1>9. ASSUME NEW i \in S PROVE text[i].mutant \in ToSet(t)
  <2>1. PICK k \in 1..Len(at) : at[k] = i
    BY <1>2, <1>4
  <2> QED
    BY <1>7, <1>8, <2>1
<1>10. ASSUME NEW m \in ToSet(t) PROVE \E i \in S : text[i].mutant = m
  <2>1. PICK k \in 1..Len(at) : t[k] = m
    BY <1>8
  <2> QED
    BY <1>4, <1>7, <2>1
<1> QED
  BY <1>1, <1>6, <1>7, <1>9, <1>10 DEF Parsed, S

\* What stands where in the lines of a list of mutants.
LEMMA NdjsonIs ==
  ASSUME NEW recs \in Seq(Mutant)
  PROVE  /\ toNdjson(recs) \in Seq(TextChars) /\ Len(toNdjson(recs)) = 2 * Len(recs)
         /\ \A x \in 1..Len(recs) :
              /\ 2 * x - 1 \in 1..2 * Len(recs) /\ 2 * x \in 1..2 * Len(recs)
              /\ toNdjson(recs)[2 * x - 1] = Rec(recs[x]) /\ toNdjson(recs)[2 * x] = Newline
         /\ \A y \in 1..2 * Len(recs) :
              toNdjson(recs)[y].tag = "record" => \E x \in 1..Len(recs) : y = 2 * x - 1
<1> DEFINE n == Len(recs)
           t == toNdjson(recs)
<1>1. n \in Nat /\ \A x \in 1..n : recs[x] \in Mutant
  OBVIOUS
<1>2. t = [i \in 1..2 * n |-> IF i % 2 = 1 THEN Rec(recs[(i + 1) \div 2]) ELSE Newline]
  BY DEF toNdjson
<1> HIDE DEF n, t
<1>3. ASSUME NEW x \in 1..n
      PROVE  /\ 2 * x - 1 \in 1..2 * n /\ 2 * x \in 1..2 * n
             /\ t[2 * x - 1] = Rec(recs[x]) /\ t[2 * x] = Newline
  <2>1. 2 * x - 1 \in 1..2 * n /\ 2 * x \in 1..2 * n
    BY <1>1
  <2>2. (2 * x - 1) % 2 = 1 /\ (2 * x) % 2 = 0 /\ ((2 * x - 1) + 1) \div 2 = x
    BY <1>1
  <2> QED
    BY <1>2, <2>1, <2>2
<1>4. ASSUME NEW y \in 1..2 * n
      PROVE  \E x \in 1..n : y = 2 * x - 1 \/ y = 2 * x
  <2>1. (y + 1) \div 2 \in 1..n /\ (y = 2 * ((y + 1) \div 2) - 1 \/ y = 2 * ((y + 1) \div 2))
    BY <1>1
  <2> QED
    BY <2>1
<1>5. ASSUME NEW y \in 1..2 * n, t[y].tag = "record" PROVE \E x \in 1..n : y = 2 * x - 1
  <2>1. PICK x \in 1..n : y = 2 * x - 1 \/ y = 2 * x
    BY <1>4
  <2>2. y # 2 * x
    BY <1>3, <1>5, CharIs
  <2> QED
    BY <2>1, <2>2
<1>6. ASSUME NEW y \in 1..2 * n PROVE t[y] \in TextChars
  <2>1. PICK x \in 1..n : y = 2 * x - 1 \/ y = 2 * x
    BY <1>4
  <2>2. t[y] = Rec(recs[x]) \/ t[y] = Newline
    BY <1>3, <2>1
  <2> QED
    BY <1>1, <2>2, CharIs
<1>7. t \in Seq(TextChars) /\ Len(t) = 2 * n
  <2>1. DOMAIN t = 1..2 * n /\ t = [i \in 1..2 * n |-> t[i]] /\ 2 * n \in Nat
    BY <1>1, <1>2
  <2> HIDE DEF t
  <2> QED
    BY <1>6, <2>1
<1> QED
  BY <1>3, <1>5, <1>7 DEF n, t

\* A sidecar is read as it was written.
LEMMA SidecarReadBack ==
  ASSUME NEW recs \in Seq(Mutant)
  PROVE  /\ parse_ndjson(toNdjson(recs)) \in Seq(Mutant)
         /\ ToSet(parse_ndjson(toNdjson(recs))) = ToSet(recs)
<1> DEFINE t == toNdjson(recs)
           r == parse_ndjson(t)
           n == Len(recs)
<1>1. /\ t \in Seq(TextChars) /\ Len(t) = 2 * n
      /\ \A x \in 1..n :
              /\ 2 * x - 1 \in 1..2 * n /\ 2 * x \in 1..2 * n
              /\ t[2 * x - 1] = Rec(recs[x]) /\ t[2 * x] = Newline
      /\ \A y \in 1..2 * n : t[y].tag = "record" => \E x \in 1..n : y = 2 * x - 1
  BY NdjsonIs
<1>2. /\ n \in Nat /\ \A x \in 1..n : recs[x] \in ToSet(recs) /\ recs[x] \in Mutant
      /\ \A m \in ToSet(recs) : \E x \in 1..n : recs[x] = m
  BY ToSetIs
<1> HIDE DEF t, n
<1>3. Parsed(t, r)
  BY <1>1, ParseIs
<1>4. DOMAIN t = 1..2 * n
  BY <1>1
<1> HIDE DEF r
<1>5. ASSUME NEW m \in ToSet(r) PROVE m \in ToSet(recs)
  <2>1. PICK i \in RecordLines(t) : t[i].mutant = m
    BY <1>3 DEF Parsed
  <2>2. i \in 1..2 * n /\ t[i].tag = "record"
    BY <1>4 DEF RecordLines
  <2>3. PICK x \in 1..n : i = 2 * x - 1
    BY <1>1, <2>2
  <2>4. t[i] = Rec(recs[x]) /\ recs[x] \in Mutant /\ recs[x] \in ToSet(recs)
    BY <1>1, <1>2, <2>3
  <2> QED
    BY <2>1, <2>4, CharIs
<1>6. ASSUME NEW m \in ToSet(recs) PROVE m \in ToSet(r)
  <2>1. PICK x \in 1..n : recs[x] = m
    BY <1>2
  <2> DEFINE i == 2 * x - 1
  <2>2. i \in 1..2 * n /\ t[i] = Rec(m) /\ m \in Mutant
    BY <1>1, <1>2, <2>1
  <2>3. i = 1 \/ t[i - 1] = Newline
    <3>1. CASE x = 1
      BY <3>1
    <3>2. CASE x # 1
      <4>1. x - 1 \in 1..n /\ i - 1 = 2 * (x - 1)
        BY <1>2, <3>2
      <4> HIDE DEF i
      <4> QED
        BY <1>1, <4>1
    <3> QED
      BY <3>1, <3>2
  <2> HIDE DEF i
  <2>4. i \in RecordLines(t) /\ t[i].mutant = m
    BY <1>4, <2>2, <2>3, CharIs DEF RecordLines
  <2> QED
    BY <1>3, <2>4 DEF Parsed
<1>7. r \in Seq(Mutant)
  BY <1>3 DEF Parsed
<1> QED
  BY <1>5, <1>6, <1>7 DEF r, t

\* What stands where in what the pass emits for a unit.
LEMMA EmitIs ==
  ASSUME NEW recs \in Seq(Mutant)
  PROVE  /\ emitCatalog(recs) \in Seq(TextChars) /\ Len(emitCatalog(recs)) = 2 * Len(recs) + 1
         /\ \A x \in 1..Len(recs) :
              /\ 2 * x - 1 \in 1..2 * Len(recs) + 1 /\ 2 * x \in 1..2 * Len(recs) + 1
              /\ emitCatalog(recs)[2 * x - 1] = Rec(recs[x]) /\ emitCatalog(recs)[2 * x] = Newline
         /\ \A y \in 1..2 * Len(recs) + 1 :
              emitCatalog(recs)[y].tag = "record" => \E x \in 1..Len(recs) : y = 2 * x - 1
<1> DEFINE n == Len(recs)
           t == toNdjson(recs)
           u == emitCatalog(recs)
<1>1. /\ t \in Seq(TextChars) /\ Len(t) = 2 * n
      /\ \A x \in 1..n :
              /\ 2 * x - 1 \in 1..2 * n /\ 2 * x \in 1..2 * n
              /\ t[2 * x - 1] = Rec(recs[x]) /\ t[2 * x] = Newline
      /\ \A y \in 1..2 * n : t[y].tag = "record" => \E x \in 1..n : y = 2 * x - 1
  BY NdjsonIs
<1>2. u = Append(t, Nul) /\ n \in Nat
  BY DEF emitCatalog
<1> HIDE DEF n, t, u
<1>3. /\ u \in Seq(TextChars) /\ Len(u) = 2 * n + 1 /\ u[2 * n + 1] = Nul
      /\ \A y \in 1..2 * n : u[y] = t[y]
  BY <1>1, <1>2, CharIs
<1>4. \A y \in 1..2 * n : y \in 1..2 * n + 1
  BY <1>2
<1>5. \A y \in 1..2 * n + 1 : y \in 1..2 * n \/ y = 2 * n + 1
  BY <1>2
<1>6. ASSUME NEW y \in 1..2 * n + 1, u[y].tag = "record" PROVE \E x \in 1..n : y = 2 * x - 1
  BY <1>1, <1>3, <1>5, <1>6, CharIs
<1>7. ASSUME NEW x \in 1..n
      PROVE  /\ 2 * x - 1 \in 1..2 * n + 1 /\ 2 * x \in 1..2 * n + 1
             /\ u[2 * x - 1] = Rec(recs[x]) /\ u[2 * x] = Newline
  <2> DEFINE y == 2 * x - 1
             z == 2 * x
  <2>1. y \in 1..2 * n /\ z \in 1..2 * n /\ t[y] = Rec(recs[x]) /\ t[z] = Newline
    BY <1>1
  <2> HIDE DEF y, z
  <2>2. y \in 1..2 * n + 1 /\ z \in 1..2 * n + 1 /\ u[y] = t[y] /\ u[z] = t[z]
    BY <1>3, <1>4, <2>1
  <2> QED
    BY <2>1, <2>2 DEF y, z
<1> QED
  BY <1>3, <1>6, <1>7 DEF n, u

Section(parts) == FlattenSeq([i \in DOMAIN parts |-> emitCatalog(parts[i])])

\* A section is a sequence of characters.
LEMMA SectionType ==
  ASSUME NEW parts \in Seq(Seq(Mutant))
  PROVE  Section(parts) \in Seq(TextChars) /\ DOMAIN Section(parts) = 1..Len(Section(parts))
<1> DEFINE ss == [k \in DOMAIN parts |-> emitCatalog(parts[k])]
<1>1. DOMAIN parts = 1..Len(parts) /\ \A k \in 1..Len(parts) : parts[k] \in Seq(Mutant)
  OBVIOUS
<1>2. ss \in Seq(Seq(TextChars))
  <2>1. \A k \in 1..Len(parts) : emitCatalog(parts[k]) \in Seq(TextChars)
    BY <1>1, EmitIs
  <2> QED
    BY <1>1, <2>1
<1>3. Section(parts) = FlattenSeq(ss)
  BY DEF Section
<1> HIDE DEF ss
<1>4. PICK q : Joined(TextChars, ss, q)
  BY <1>2, FlattenJoins
<1>5. FlattenSeq(ss) \in Seq(TextChars)
  BY <1>2, <1>4, JoinedEnds
<1> QED
  BY <1>3, <1>5

\* The records of a section are those of the parts.
LEMMA SectionRecords ==
  ASSUME NEW parts \in Seq(Seq(Mutant)), NEW i \in 1..Len(Section(parts)),
         Section(parts)[i].tag = "record"
  PROVE  \E k \in 1..Len(parts) : Section(parts)[i].mutant \in ToSet(parts[k])
<1> DEFINE n == Len(parts)
           ss == [k \in DOMAIN parts |-> emitCatalog(parts[k])]
           s == Section(parts)
           C == TextChars
<1>1. /\ n \in Nat /\ DOMAIN parts = 1..n /\ \A k \in 1..n : parts[k] \in Seq(Mutant)
  OBVIOUS
<1>2. \A k \in 1..n : emitCatalog(parts[k]) \in Seq(C)
  BY <1>1, EmitIs
<1>3. ss \in Seq(Seq(C)) /\ Len(ss) = n /\ \A k \in 1..n : ss[k] = emitCatalog(parts[k])
  BY <1>1, <1>2
<1>4. s = FlattenSeq(ss) /\ i \in 1..Len(s) /\ s[i].tag = "record"
  BY DEF Section
<1> HIDE DEF ss, s, C, n
<1>5. PICK q : Joined(C, ss, q)
  BY <1>3, FlattenJoins
<1>6. PICK k \in 1..Len(ss) : Element(ss, q, k, i)
  BY <1>3, <1>4, <1>5, JoinedElement
<1>7. PICK y \in 1..Len(ss[k]) : s[i] = ss[k][y]
  BY <1>4, <1>6 DEF Element
<1> DEFINE w == parts[k]
           u == emitCatalog(w)
<1>8. k \in 1..n /\ ss[k] = u /\ w \in Seq(Mutant)
  BY <1>1, <1>3, <1>6
<1> HIDE DEF w
<1>9. /\ Len(u) = 2 * Len(w) + 1
      /\ \A x \in 1..Len(w) : u[2 * x - 1] = Rec(w[x])
      /\ \A z \in 1..2 * Len(w) + 1 : u[z].tag = "record" => \E x \in 1..Len(w) : z = 2 * x - 1
  BY <1>8, EmitIs
<1> HIDE DEF u
<1>10. PICK x \in 1..Len(w) : y = 2 * x - 1
  BY <1>4, <1>7, <1>8, <1>9
<1>11. s[i] = Rec(w[x]) /\ w[x] \in Mutant /\ w[x] \in ToSet(w)
  BY <1>7, <1>8, <1>9, <1>10, ToSetIs
<1>12. s[i].mutant = w[x]
  BY <1>11, CharIs
<1> QED
  BY <1>8, <1>11, <1>12 DEF w, s, n

\* r has the mutants of the parts, but perhaps the first of a part that is not
\* the first.
ReadOf(parts, r) ==
  /\ r \in Seq(Mutant)
  /\ \A m \in ToSet(r) : \E k \in 1..Len(parts) : m \in ToSet(parts[k])
  /\ \A k \in 1..Len(parts) : \A x \in 1..Len(parts[k]) :
       k = 1 \/ x > 1 => parts[k][x] \in ToSet(r)

\* What is read of a section, whose parts end in a NUL each.
LEMMA SectionIs ==
  ASSUME NEW parts \in Seq(Seq(Mutant))
  PROVE  /\ ReadOf(parts, parse_ndjson(Append(Section(parts), Newline)))
         /\ Section(parts) = <<>> => ReadOf(parts, <<>>)
<1> DEFINE n == Len(parts)
           ss == [i \in DOMAIN parts |-> emitCatalog(parts[i])]
           s == Section(parts)
           text == Append(s, Newline)
           r == parse_ndjson(text)
           C == TextChars
<1>1. /\ n \in Nat /\ DOMAIN parts = 1..n /\ \A k \in 1..n : parts[k] \in Seq(Mutant)
  OBVIOUS
<1>2. \A k \in 1..n : emitCatalog(parts[k]) \in Seq(C)
  BY <1>1, EmitIs
<1>3. ss \in Seq(Seq(C)) /\ Len(ss) = n /\ \A k \in 1..n : ss[k] = emitCatalog(parts[k])
  BY <1>1, <1>2
<1>4. s = FlattenSeq(ss)
  BY DEF Section
<1> HIDE DEF ss, s, C, n
<1>5. PICK q : Joined(C, ss, q)
  BY <1>3, FlattenJoins
<1>5a. ASSUME NEW k \in 1..Len(ss), NEW h \in 1..Len(ss[k])
       PROVE  /\ Len(q[k - 1]) + h \in 1..Len(FlattenSeq(ss))
              /\ FlattenSeq(ss)[Len(q[k - 1]) + h] = ss[k][h]
  <2>1. ss \in Seq(Seq(C)) /\ Joined(C, ss, q)
    BY <1>3, <1>5
  <2> QED
    BY ONLY <2>1, JoinedPlace
<1>6. /\ \A k \in 0..n : Len(q[k]) \in Nat
      /\ Len(q[0]) = 0 /\ s \in Seq(C)
  BY <1>3, <1>4, <1>5, JoinedEnds
<1>7. /\ text \in Seq(C) /\ Len(text) = Len(s) + 1 /\ Len(s) \in Nat /\ text[Len(s) + 1] = Newline
      /\ \A i \in 1..Len(s) : text[i] = s[i]
  BY <1>6, CharIs DEF C
<1> HIDE DEF text
<1>8. DOMAIN text = 1..Len(s) + 1
  BY <1>7
<1>9. Parsed(text, r)
  BY <1>7, ParseIs DEF C
<1> HIDE DEF r
<1>10. ASSUME NEW m \in ToSet(r) PROVE \E k \in 1..n : m \in ToSet(parts[k])
  <2>1. PICK i \in RecordLines(text) : text[i].mutant = m
    BY <1>9 DEF Parsed
  <2>2. i \in 1..Len(s) + 1 /\ text[i].tag = "record"
    BY <1>8 DEF RecordLines
  <2>3. i # Len(s) + 1
    BY <1>7, <2>2, CharIs
  <2>4. i \in 1..Len(s) /\ s[i].tag = "record" /\ s[i].mutant = m
    BY <1>7, <2>1, <2>2, <2>3
  <2> QED
    BY <2>4, SectionRecords DEF s, n
<1>11. ASSUME NEW k \in 1..n, NEW x \in 1..Len(parts[k])
       PROVE  \E i \in 1..Len(s) :
                /\ s[i] = Rec(parts[k][x])
                /\ k = 1 \/ x > 1 => i = 1 \/ s[i - 1] = Newline
  <2> DEFINE w == parts[k]
             u == emitCatalog(w)
             a == Len(q[k - 1])
             y == 2 * x - 1
             z == 2 * (x - 1)
  <2>1. ss[k] = u /\ w \in Seq(Mutant) /\ k \in 1..Len(ss)
    BY <1>1, <1>3
  <2>2. a \in Nat /\ (k = 1 => a = 0)
    BY <1>1, <1>6
  <2>3. x \in Nat /\ x \in 1..Len(w) /\ (x > 1 => x - 1 \in 1..Len(w)) /\ Len(w) \in Nat
    BY <1>1
  <2> HIDE DEF w, a
  <2>4. /\ Len(u) = 2 * Len(w) + 1
        /\ \A h \in 1..Len(w) :
              /\ 2 * h - 1 \in 1..2 * Len(w) + 1 /\ 2 * h \in 1..2 * Len(w) + 1
              /\ u[2 * h - 1] = Rec(w[h]) /\ u[2 * h] = Newline
    BY <2>1, EmitIs
  <2> HIDE DEF u
  <2>5. y \in 1..Len(u) /\ u[y] = Rec(w[x])
    BY <2>3, <2>4
  <2>6. x > 1 => z \in 1..Len(u) /\ u[z] = Newline
    BY <2>3, <2>4
  <2>7. \A h \in 1..Len(u) : a + h \in 1..Len(s) /\ s[a + h] = u[h]
    <3>1. ASSUME NEW h \in 1..Len(ss[k]) PROVE a + h \in 1..Len(s) /\ s[a + h] = ss[k][h]
      <4>1. k \in 1..Len(ss)
        BY <2>1
      <4> QED
        BY <1>4, <1>5a, <4>1 DEF a
    <3> QED
      BY <2>1, <3>1
  <2> DEFINE i == a + y
  <2>8. i \in 1..Len(s) /\ s[i] = Rec(w[x])
    BY <2>5, <2>7
  <2>9. x > 1 => i - 1 = a + z
    BY <2>2, <2>3
  <2>10. k = 1 /\ x = 1 => i = 1
    BY <2>2
  <2>11. x > 1 => s[i - 1] = Newline
    <3> HIDE DEF i, z
    <3> QED
      BY <2>6, <2>7, <2>9
  <2> HIDE DEF i
  <2>12. k = 1 \/ x > 1 => i = 1 \/ s[i - 1] = Newline
    BY <2>3, <2>10, <2>11
  <2> QED
    BY <2>8, <2>12 DEF w
<1>12. ASSUME NEW k \in 1..n, NEW x \in 1..Len(parts[k]), k = 1 \/ x > 1
       PROVE  parts[k][x] \in ToSet(r)
  <2>1. PICK i \in 1..Len(s) : s[i] = Rec(parts[k][x]) /\ (i = 1 \/ s[i - 1] = Newline)
    BY <1>11, <1>12
  <2>2. parts[k][x] \in Mutant
    BY <1>1
  <2>3. i \in 1..Len(s) + 1 /\ (i # 1 => i - 1 \in 1..Len(s))
    BY <1>7
  <2>4. text[i] = Rec(parts[k][x]) /\ (i = 1 \/ text[i - 1] = Newline)
    BY <1>7, <2>1, <2>3
  <2>5. i \in RecordLines(text) /\ text[i].mutant = parts[k][x]
    BY <1>8, <2>2, <2>3, <2>4, CharIs DEF RecordLines
  <2> QED
    BY <1>9, <2>5 DEF Parsed
<1>13. r \in Seq(Mutant)
  BY <1>9 DEF Parsed
<1>14. ReadOf(parts, r)
  BY <1>10, <1>12, <1>13 DEF ReadOf, n
<1>15. ASSUME s = <<>> PROVE ReadOf(parts, <<>>)
  <2>1. 1..Len(s) = {} /\ ToSet(<<>>) = {} /\ <<>> \in Seq(Mutant)
    BY <1>15 DEF ToSet
  <2>2. \A k \in 1..n : \A x \in 1..Len(parts[k]) : FALSE
    BY <1>11, <2>1
  <2> QED
    BY <2>1, <2>2 DEF ReadOf, n
<1> QED
  BY <1>14, <1>15 DEF s, r, text

-----------------------------------------------------------------------------

(* The specification *)

Recs == Seq(AllMutants)

\* What the build has made: binaries hold sections of lists of mutants.
BuildInv ==
  /\ source \in [Units -> Recs] /\ \A u \in Units : source[u] \in Versions[u]
  /\ object \in [Units -> Recs] /\ \A u \in Units : object[u] \in Versions[u] \union {<<>>}
  /\ kept \subseteq built /\ built \subseteq Units

BinaryInv ==
  /\ binary = [b \in Binaries |-> binary[b]]
  /\ \A b \in Binaries :
       /\ binary[b].units \in NoRepeats(Units)
       /\ binary[b].parts \in Seq(Recs)
       /\ Len(binary[b].parts) <= Len(binary[b].units)
       /\ <<>> \notin ToSet(binary[b].parts)
       /\ binary[b].section = Section(binary[b].parts)

\* Sidecars are lists of mutants, and the kept ones are what the object files have.
SidecarInv ==
  /\ DOMAIN sidecars \subseteq {ModuleName[u] : u \in Units}
  /\ \A h \in DOMAIN sidecars : sidecars[h] \in Recs
  /\ \A u \in kept :
       ModuleName[u] \in DOMAIN sidecars /\ sidecars[ModuleName[u]] = object[u]
  /\ \A u, v \in kept : ModuleName[u] = ModuleName[v] => u = v

\* The list is one that the campaign can find in the build as it is.
ListInv ==
  /\ opened \subseteq DOMAIN sidecars
  /\ \/ phase = "build" /\ named = <<>> /\ mutants = <<>>
     \/ phase = "listed" /\ named \in NoRepeats(Binaries) /\ mutants \in Found(named, opened)

IndInv == BuildInv /\ BinaryInv /\ SidecarInv /\ ListInv
-----------------------------------------------------------------------------
(* Lists *)

\* What the pass finds are lists of mutants.
LEMMA RecsAre ==
  /\ AllMutants \subseteq Mutant
  /\ <<>> \in Recs /\ \A u \in Units : \A recs \in Versions[u] : recs \in Recs
  /\ \A recs \in Recs : recs \in Seq(Mutant) /\ ToSet(recs) \subseteq AllMutants
  /\ \A parts \in Seq(Recs) : parts \in Seq(Seq(Mutant))
<1>1. AllMutants \subseteq Mutant
  <2> SUFFICES ASSUME NEW m \in AllMutants PROVE m \in Mutant
    OBVIOUS
  <2>1. PICK u \in Units : \E recs \in Versions[u] : m \in ToSet(recs)
    BY DEF AllMutants
  <2>2. PICK recs \in Versions[u] : m \in ToSet(recs)
    BY <2>1
  <2>3. recs \in Seq(Mutant)
    BY VersionsAreLists
  <2> QED
    BY <2>2, <2>3, ToSetIs
<1>2. ASSUME NEW u \in Units, NEW recs \in Versions[u] PROVE recs \in Recs
  <2>1. recs \in Seq(Mutant)
    BY VersionsAreLists
  <2>2. \A k \in 1..Len(recs) : recs[k] \in ToSet(recs)
    BY <2>1, ToSetIs
  <2>3. ToSet(recs) \subseteq AllMutants
    BY DEF AllMutants
  <2>4. \A k \in 1..Len(recs) : recs[k] \in AllMutants
    BY <2>2, <2>3
  <2> QED
    BY <2>1, <2>4 DEF Recs
<1>3. ASSUME NEW recs \in Recs PROVE recs \in Seq(Mutant) /\ ToSet(recs) \subseteq AllMutants
  BY <1>1, ToSetIs DEF Recs
<1>4. \A parts \in Seq(Recs) : parts \in Seq(Seq(Mutant))
  BY <1>3
<1>5. <<>> \in Recs
  BY DEF Recs
<1> QED
  BY <1>1, <1>2, <1>3, <1>4, <1>5

\* A sequence without repetitions.
LEMMA NoRepeatsAre ==
  ASSUME NEW S, IsFiniteSet(S), NEW s \in NoRepeats(S)
  PROVE  s \in Seq(S) /\ IsInjective(s) /\ Len(s) <= Cardinality(S) /\ ToSet(s) \subseteq S
<1>1. Cardinality(S) \in Nat
  BY FS_CardinalityType
<1>2. PICK k \in 0..Cardinality(S) : s \in [1..k -> S] /\ IsInjective(s)
  BY DEF NoRepeats
<1>3. s \in Seq(S) /\ Len(s) = k
  BY <1>1, <1>2
<1> QED
  BY <1>1, <1>2, <1>3, ToSetIs

\* A larger set has these sequences too, and any set has the empty one.
LEMMA NoRepeatsGrow ==
  ASSUME NEW T, IsFiniteSet(T), NEW S, S \subseteq T
  PROVE  NoRepeats(S) \subseteq NoRepeats(T) /\ <<>> \in NoRepeats(T)
<1>1. IsFiniteSet(S) /\ Cardinality(S) <= Cardinality(T)
  BY FS_Subset
<1>2. Cardinality(S) \in Nat /\ Cardinality(T) \in Nat
  BY <1>1, FS_CardinalityType
<1>3. \A k \in 0..Cardinality(S) : k \in 0..Cardinality(T)
  BY <1>1, <1>2
<1>4. \A k \in Nat : [1..k -> S] \subseteq [1..k -> T]
  OBVIOUS
<1>5. ASSUME NEW s \in NoRepeats(S) PROVE s \in NoRepeats(T)
  <2>1. PICK k \in 0..Cardinality(S) : s \in [1..k -> S] /\ IsInjective(s)
    BY DEF NoRepeats
  <2>2. s \in [1..k -> T]
    BY <1>2, <1>4, <2>1
  <2>3. k \in 0..Cardinality(T)
    BY <1>3
  <2> QED
    BY <2>1, <2>2, <2>3 DEF NoRepeats
<1>6. <<>> \in NoRepeats(T)
  <2>1. <<>> \in [1..0 -> T] /\ IsInjective(<<>>)
    BY DEF IsInjective
  <2>2. 0 \in 0..Cardinality(T)
    BY <1>2
  <2> QED
    BY <2>1, <2>2 DEF NoRepeats
<1> QED
  BY <1>5, <1>6

-----------------------------------------------------------------------------
(* Invariance *)

\* A binary without parts has no section.
LEMMA SectionOfNone == Section(<<>>) = <<>>
<1> DEFINE none == <<>>
           ss == [i \in DOMAIN none |-> emitCatalog(none[i])]
<1>1. ss \in Seq(Seq(Nat)) /\ Len(ss) = 0
  <2>1. DOMAIN none = {}
    OBVIOUS
  <2>2. ss = <<>>
    BY <2>1
  <2> HIDE DEF ss
  <2> QED
    BY <2>2
<1>2. Section(none) = FlattenSeq(ss)
  BY DEF Section
<1> HIDE DEF ss, none
<1>3. PICK p : Joined(Nat, ss, p)
  BY <1>1, FlattenJoins
<1>4. p[0] = <<>> /\ p[Len(ss)] = FlattenSeq(ss)
  BY <1>1, <1>3, JoinedEnds
<1> QED
  BY <1>1, <1>2, <1>4 DEF none

\* The invariant holds at the start.
LEMMA InitInv == Init => IndInv
<1> SUFFICES ASSUME Init PROVE IndInv
  OBVIOUS
<1> USE DEF Init
<1>1. BuildInv
  <2>1. \A u \in Units : source[u] \in Versions[u]
    OBVIOUS
  <2>2. source \in [Units -> Recs]
    BY <2>1, RecsAre
  <2>3. object \in [Units -> Recs] /\ \A u \in Units : object[u] = <<>>
    BY RecsAre
  <2> QED
    BY <2>1, <2>2, <2>3 DEF BuildInv
<1>2. BinaryInv
  <2>1. <<>> \in NoRepeats(Units)
    BY NoRepeatsGrow, BuildIsFinite
  <2>2. ASSUME NEW b \in Binaries
        PROVE  binary[b].units = <<>> /\ binary[b].parts = <<>> /\ binary[b].section = <<>>
    OBVIOUS
  <2>3. binary = [b \in Binaries |-> binary[b]]
    OBVIOUS
  <2>4. <<>> \in Seq(Recs) /\ Len(<<>>) = 0 /\ ToSet(<<>>) = {}
    BY DEF ToSet
  <2> HIDE DEF Init
  <2>5. ASSUME NEW b \in Binaries
        PROVE  /\ binary[b].units \in NoRepeats(Units) /\ binary[b].parts \in Seq(Recs)
               /\ Len(binary[b].parts) <= Len(binary[b].units) /\ <<>> \notin ToSet(binary[b].parts)
               /\ binary[b].section = Section(binary[b].parts)
    <3> DEFINE q == binary[b]
    <3>1. q.units = <<>> /\ q.parts = <<>> /\ q.section = <<>>
      BY <2>2
    <3> HIDE DEF q
    <3>2. q.units \in NoRepeats(Units)
      BY <2>1, <3>1
    <3>3. q.parts \in Seq(Recs) /\ Len(q.parts) <= Len(q.units) /\ <<>> \notin ToSet(q.parts)
      BY <2>4, <3>1
    <3>4. q.section = Section(q.parts)
      BY <3>1, SectionOfNone
    <3> QED
      BY <3>2, <3>3, <3>4 DEF q
  <2> QED
    BY <2>3, <2>5 DEF BinaryInv
<1>3. SidecarInv
  <2>1. DOMAIN sidecars = {} /\ kept = {}
    OBVIOUS
  <2> HIDE DEF Init
  <2> QED
    BY <2>1 DEF SidecarInv
<1>4. ListInv
  BY DEF ListInv
<1> QED
  BY <1>1, <1>2, <1>3, <1>4 DEF IndInv

\* What the campaign can find changes only with binaries and sidecars.
LEMMA FoundStays ==
  ASSUME binary' = binary, sidecars' = sidecars, named' = named, opened' = opened
  PROVE  Found(named, opened)' = Found(named, opened)
BY DEF Found, read_elf_catalog, read_catalog_dir

\* Each step keeps it.
LEMMA StepInv == IndInv /\ [Next]_vars => IndInv'
<1> SUFFICES ASSUME IndInv, [Next]_vars PROVE IndInv'
  OBVIOUS
<1> USE DEF IndInv
<1>1. /\ source \in [Units -> Recs] /\ \A u \in Units : source[u] \in Versions[u]
      /\ object \in [Units -> Recs] /\ \A u \in Units : object[u] \in Versions[u] \union {<<>>}
  BY DEF BuildInv
<1>2. ASSUME NEW u \in Units, Edit(u) PROVE IndInv'
  <2>1. UNCHANGED <<object, built, binary, sidecars, kept, phase, named, opened, mutants>>
    BY <1>2 DEF Edit
  <2>2. PICK recs \in Versions[u] : source' = [source EXCEPT ![u] = recs]
    BY <1>2 DEF Edit
  <2>3. recs \in Recs
    BY RecsAre
  <2>4. BuildInv'
    <3>1. source' \in [Units -> Recs] /\ \A v \in Units : source'[v] \in Versions[v]
      BY <1>1, <2>2, <2>3
    <3> QED
      BY <2>1, <3>1 DEF BuildInv
  <2>5. BinaryInv'
    BY <2>1 DEF BinaryInv
  <2>6. SidecarInv'
    BY <2>1 DEF SidecarInv
  <2>7. ListInv'
    BY <1>2, <2>1 DEF ListInv, Edit
  <2> QED
    BY <2>4, <2>5, <2>6, <2>7
<1>3. ASSUME NEW u \in Units, Compile(u) PROVE IndInv'
  <2>1. UNCHANGED <<source, binary, phase, named, opened, mutants>> /\ phase = "build"
    BY <1>3 DEF Compile
  <2>2. object' = [object EXCEPT ![u] = source[u]] /\ built' = built \union {u}
    BY <1>3 DEF Compile
  <2>3. PICK opens \in BOOLEAN :
          /\ sidecars' = IF source[u] = <<>> THEN sidecars ELSE writeSidecar(u, opens)
          /\ kept' = KeptNow(u, opens /\ source[u] # <<>>)
    BY <1>3 DEF Compile
  <2>4. BuildInv'
    <3>1. object' \in [Units -> Recs] /\ \A v \in Units : object'[v] \in Versions[v] \union {<<>>}
      BY <1>1, <2>2
    <3>2. kept' \subseteq kept \union {u}
      BY <2>3 DEF KeptNow
    <3> QED
      BY <1>1, <2>1, <2>2, <3>1, <3>2 DEF BuildInv
  <2>5. BinaryInv'
    BY <2>1 DEF BinaryInv
  <2>6. SidecarInv' /\ DOMAIN sidecars \subseteq DOMAIN sidecars'
    <3>1. \A v \in Units : v # u => object'[v] = object[v]
      BY <1>1, <2>2
    <3>2. object'[u] = source[u] /\ source[u] \in Recs
      BY <1>1, <2>2
    <3>0. kept \subseteq Units
      BY DEF BuildInv
    <3>3. CASE source[u] = <<>> \/ ~opens
      <4>1. sidecars' = sidecars
        BY <2>3, <3>3 DEF writeSidecar
      <4>2. kept' = kept \ {u}
        BY <2>3, <3>3 DEF KeptNow
      <4> QED
        BY <3>0, <3>1, <4>1, <4>2 DEF SidecarInv
    <3>4. CASE source[u] # <<>> /\ opens
      <4> DEFINE n == ModuleName[u]
                 D == DOMAIN sidecars \union {n}
      <4>1. sidecars' = [h \in D |-> IF h = n THEN source[u] ELSE sidecars[h]]
        BY <2>3, <3>4 DEF writeSidecar
      <4>2. DOMAIN sidecars' = D /\ DOMAIN sidecars \subseteq D
        BY <4>1
      <4>3. \A h \in D : sidecars'[h] = IF h = n THEN source[u] ELSE sidecars[h]
        BY <4>1
      <4>4. D \subseteq {ModuleName[v] : v \in Units}
        BY DEF SidecarInv
      <4>5. \A h \in D : sidecars'[h] \in Recs
        BY <3>2, <4>3 DEF SidecarInv
      <4>6. kept' = {v \in kept : ModuleName[v] # n} \union {u}
        BY <2>3, <3>4 DEF KeptNow
      <4>7. ASSUME NEW v \in kept'
            PROVE  ModuleName[v] \in D /\ sidecars'[ModuleName[v]] = object'[v]
        <5>1. CASE v = u
          BY <3>2, <4>3, <5>1
        <5>2. CASE v # u
          <6>1. v \in kept /\ ModuleName[v] # n
            BY <4>6, <4>7, <5>2
          <6>2. ModuleName[v] \in DOMAIN sidecars /\ sidecars[ModuleName[v]] = object[v]
            BY <6>1 DEF SidecarInv
          <6> QED
            BY <3>0, <3>1, <4>3, <5>2, <6>1, <6>2
        <5> QED
          BY <5>1, <5>2
      <4>8. \A v, w \in kept' : ModuleName[v] = ModuleName[w] => v = w
        BY <4>6 DEF SidecarInv
      <4> HIDE DEF D
      <4> QED
        BY <4>2, <4>4, <4>5, <4>7, <4>8 DEF SidecarInv
    <3> QED
      BY <3>3, <3>4
  <2>7. ListInv'
    BY <2>1, <2>6 DEF ListInv
  <2> QED
    BY <2>4, <2>5, <2>6, <2>7
<1>4. ASSUME NEW b \in Binaries, Link(b) PROVE IndInv'
  <2>1. UNCHANGED <<source, object, built, sidecars, kept, phase, named, opened, mutants>> /\ phase = "build"
    BY <1>4 DEF Link
  <2> DEFINE L(units) == [i \in DOMAIN units |-> object[units[i]]]
             K == {object[u] : u \in Units} \ {<<>>}
             P(units) == Select(L(units), K)
  <2>2. PICK units \in NoRepeats(built) :
          binary' = [binary EXCEPT ![b] =
            [units |-> units, parts |-> P(units), section |-> Section(P(units))]]
    BY <1>4 DEF Link, Section
  <2>3. units \in NoRepeats(Units)
    BY NoRepeatsGrow, BuildIsFinite DEF BuildInv
  <2>4. units \in Seq(Units)
    BY <2>3, NoRepeatsAre, BuildIsFinite
  <2>5. L(units) \in Seq(Recs) /\ Len(L(units)) = Len(units)
    BY <1>1, <2>4
  <2> DEFINE l == L(units)
             p == P(units)
  <2>6. l \in Seq(Recs) /\ p = Select(l, K)
    BY <2>5
  <2>7. p \in Seq(Recs) /\ Len(p) <= Len(units) /\ <<>> \notin ToSet(p)
    <3>0. <<>> \notin K
      OBVIOUS
    <3> HIDE DEF l, K, p
    <3>1. p \in Seq(Recs) /\ Len(p) <= Len(l) /\ ToSet(p) = ToSet(l) \cap K
      BY <2>6, SelectIs
    <3> QED
      BY <2>5, <3>0, <3>1 DEF l
  <2> DEFINE new == [units |-> units, parts |-> p, section |-> Section(p)]
  <2>8. binary' = [binary EXCEPT ![b] = new]
    BY <2>2
  <2>9. new.units = units /\ new.parts = p /\ new.section = Section(p)
    OBVIOUS
  <2> HIDE DEF new, p, P, L, K
  <2>10. \A c \in Binaries : binary'[c] = IF c = b THEN new ELSE binary[c]
    BY <2>8 DEF BinaryInv
  <2>11. binary' = [c \in Binaries |-> binary'[c]]
    BY <2>8 DEF BinaryInv
  <2>12. BinaryInv'
    BY <2>3, <2>7, <2>9, <2>10, <2>11 DEF BinaryInv
  <2>13. BuildInv' /\ SidecarInv' /\ ListInv'
    BY <2>1 DEF BuildInv, SidecarInv, ListInv
  <2> QED
    BY <2>12, <2>13
<1>5. CASE Discover
  <2>1. UNCHANGED build
    BY <1>5 DEF Discover
  <2>2. BuildInv' /\ BinaryInv' /\ SidecarInv'
    BY <2>1 DEF build, BuildInv, BinaryInv, SidecarInv
  <2>3. phase' = "listed" /\ opened' \subseteq DOMAIN sidecars' /\ mutants' \in Found(named', opened')
    BY <1>5, <2>1 DEF Discover, build
  <2>4. named' \in NoRepeats(Binaries)
    <3>1. {b \in Binaries : binary[b].units # <<>>} \subseteq Binaries
      OBVIOUS
    <3>2. NoRepeats({b \in Binaries : binary[b].units # <<>>}) \subseteq NoRepeats(Binaries)
      BY <3>1, NoRepeatsGrow, BuildIsFinite
    <3> QED
      BY <1>5, <3>2 DEF Discover
  <2>5. Found(named', opened') = Found(named, opened)'
    BY <2>1 DEF build, Found, read_elf_catalog, read_catalog_dir
  <2>6. ListInv'
    BY <2>3, <2>4, <2>5 DEF ListInv
  <2> QED
    BY <2>2, <2>6
<1>6. CASE GoOn
  <2>1. UNCHANGED build
    BY <1>6 DEF GoOn
  <2>2. BuildInv' /\ BinaryInv' /\ SidecarInv'
    BY <2>1 DEF build, BuildInv, BinaryInv, SidecarInv
  <2>3. ListInv'
    BY <1>6, <2>1 DEF GoOn, ListInv, build
  <2> QED
    BY <2>2, <2>3
<1>7. CASE UNCHANGED vars
  <2>1. UNCHANGED <<source, object, built, binary, sidecars, kept, phase, named, opened, mutants>>
    BY <1>7 DEF vars, build
  <2>2. BuildInv' /\ BinaryInv' /\ SidecarInv'
    BY <2>1 DEF BuildInv, BinaryInv, SidecarInv
  <2>3. ListInv'
    BY <2>1, FoundStays DEF ListInv
  <2> QED
    BY <2>2, <2>3
<1> QED
  BY <1>2, <1>3, <1>4, <1>5, <1>6, <1>7 DEF Next

THEOREM Invariance == Spec => []IndInv
<1> QED
  BY InitInv, StepInv, PTL DEF Spec

-----------------------------------------------------------------------------
(* What the campaign finds *)

\* What stands in the sections of these binaries and in these sidecars.
Readable(B, files) ==
  {m \in AllMutants :
     \/ \E b \in B : m \in ToSet(read_elf_catalog(b))
     \/ \E h \in files : m \in ToSet(sidecars[h])}

\* The elements of joined sequences are those of the sequences.
LEMMA FlattenHas ==
  ASSUME NEW A, NEW ss \in Seq(Seq(A))
  PROVE  /\ FlattenSeq(ss) \in Seq(A)
         /\ \A k \in 1..Len(ss) : ToSet(ss[k]) \subseteq ToSet(FlattenSeq(ss))
         /\ \A e \in ToSet(FlattenSeq(ss)) : \E k \in 1..Len(ss) : e \in ToSet(ss[k])
<1> DEFINE f == FlattenSeq(ss)
<1>0. ss \in Seq(Seq(A))
  OBVIOUS
<1>1. PICK p : Joined(A, ss, p)
  BY FlattenJoins
<1>2. f \in Seq(A)
  BY <1>1, JoinedEnds
<1>3. \A k \in 1..Len(ss) : ss[k] \in Seq(A)
  OBVIOUS
<1>4. ASSUME NEW k \in 1..Len(ss), NEW e \in ToSet(ss[k]) PROVE e \in ToSet(f)
  <2>1. PICK y \in 1..Len(ss[k]) : ss[k][y] = e
    BY <1>3, ToSetIs
  <2>2. /\ Len(p[k - 1]) + y \in 1..Len(FlattenSeq(ss))
        /\ FlattenSeq(ss)[Len(p[k - 1]) + y] = ss[k][y]
    BY ONLY <1>0, <1>1, JoinedPlace
  <2>3. Len(p[k - 1]) + y \in 1..Len(f) /\ f[Len(p[k - 1]) + y] = e
    BY <2>1, <2>2
  <2> HIDE DEF f
  <2> QED
    BY <1>2, <2>3, ToSetIs
<1>5. ASSUME NEW e \in ToSet(f) PROVE \E k \in 1..Len(ss) : e \in ToSet(ss[k])
  <2>1. PICK x \in 1..Len(f) : f[x] = e
    BY <1>2, ToSetIs
  <2>2. PICK k \in 1..Len(ss) : Element(ss, p, k, x)
    BY <1>1, JoinedElement
  <2>3. PICK y \in 1..Len(ss[k]) : f[x] = ss[k][y]
    BY <2>2 DEF Element
  <2> QED
    BY <1>3, <2>1, <2>2, <2>3, ToSetIs
<1> QED
  BY <1>2, <1>4, <1>5

\* What is read of a binary.
LEMMA ElfIs ==
  ASSUME BinaryInv, NEW b \in Binaries
  PROVE  /\ ReadOf(binary[b].parts, read_elf_catalog(b))
         /\ read_elf_catalog(b) \in Seq(Mutant) /\ ToSet(read_elf_catalog(b)) \subseteq AllMutants
<1> DEFINE parts == binary[b].parts
           r == read_elf_catalog(b)
<1>1. parts \in Seq(Recs) /\ binary[b].section = Section(parts)
  BY DEF BinaryInv
<1>2. r = IF Section(parts) = <<>> THEN <<>> ELSE parse_ndjson(Append(Section(parts), Newline))
  BY <1>1 DEF read_elf_catalog
<1> HIDE DEF parts, r
<1>3. parts \in Seq(Seq(Mutant)) /\ \A k \in 1..Len(parts) : parts[k] \in Recs
  BY <1>1, RecsAre
<1>4. ReadOf(parts, r)
  BY <1>2, <1>3, SectionIs
<1>5. \A k \in 1..Len(parts) : ToSet(parts[k]) \subseteq AllMutants
  BY <1>3, RecsAre
<1> QED
  BY <1>4, <1>5 DEF ReadOf, parts, r

\* All that is read, in an order of the binaries and of the directory.
LEMMA AllReadIs ==
  ASSUME BinaryInv, SidecarInv, NEW bs \in Seq(Binaries), NEW files \in SUBSET DOMAIN sidecars,
         NEW order \in Seq(files), ToSet(order) = files,
         NEW all,
         all = FlattenSeq([i \in DOMAIN bs |-> read_elf_catalog(bs[i])]) \o read_catalog_dir(order)
  PROVE  all \in Seq(Mutant) /\ ToSet(all) = Readable(ToSet(bs), files)
<1> DEFINE es == [i \in DOMAIN bs |-> read_elf_catalog(bs[i])]
           ds == [i \in DOMAIN order |-> parse_ndjson(toNdjson(sidecars[order[i]]))]
           e == FlattenSeq(es)
           d == FlattenSeq(ds)
           M == Mutant
<1>1. /\ DOMAIN bs = 1..Len(bs) /\ Len(bs) \in Nat
      /\ \A k \in 1..Len(bs) : bs[k] \in ToSet(bs) /\ bs[k] \in Binaries
      /\ \A b \in ToSet(bs) : \E k \in 1..Len(bs) : bs[k] = b
  BY ToSetIs
<1>2. /\ DOMAIN order = 1..Len(order) /\ Len(order) \in Nat
      /\ \A k \in 1..Len(order) : order[k] \in ToSet(order) /\ order[k] \in DOMAIN sidecars
      /\ \A h \in ToSet(order) : \E k \in 1..Len(order) : order[k] = h
  BY ToSetIs
<1>3. \A k \in 1..Len(bs) : es[k] = read_elf_catalog(bs[k]) /\ es[k] \in Seq(M)
                              /\ ToSet(es[k]) \subseteq AllMutants
  BY <1>1, ElfIs
<1>4. es \in Seq(Seq(M)) /\ Len(es) = Len(bs)
  BY <1>1, <1>3
<1>5. ASSUME NEW k \in 1..Len(order)
      PROVE  /\ ds[k] \in Seq(M) /\ ToSet(ds[k]) = ToSet(sidecars[order[k]])
             /\ ToSet(ds[k]) \subseteq AllMutants
  <2>1. sidecars[order[k]] \in Recs
    BY <1>2 DEF SidecarInv
  <2> DEFINE recs == sidecars[order[k]]
  <2>2. ds[k] = parse_ndjson(toNdjson(recs))
    BY <1>2
  <2>3. recs \in Seq(M) /\ ToSet(recs) \subseteq AllMutants
    BY <2>1, RecsAre
  <2> HIDE DEF recs, ds
  <2>4. ds[k] \in Seq(M) /\ ToSet(ds[k]) = ToSet(recs)
    BY <2>2, <2>3, SidecarReadBack
  <2> QED
    BY <2>3, <2>4 DEF recs
<1>6. ds \in Seq(Seq(M)) /\ Len(ds) = Len(order)
  <2>1. DOMAIN ds = 1..Len(order) /\ ds = [k \in 1..Len(order) |-> ds[k]]
    BY <1>2
  <2> HIDE DEF ds
  <2> QED
    BY <1>2, <1>5, <2>1
<1>7. all = e \o d
  BY DEF read_catalog_dir
<1> HIDE DEF es, ds, M
<1>8. /\ e \in Seq(M)
      /\ \A k \in 1..Len(bs) : ToSet(es[k]) \subseteq ToSet(e)
      /\ \A x \in ToSet(e) : \E k \in 1..Len(bs) : x \in ToSet(es[k])
  BY <1>4, FlattenHas
<1>9. /\ d \in Seq(M)
      /\ \A k \in 1..Len(order) : ToSet(ds[k]) \subseteq ToSet(d)
      /\ \A x \in ToSet(d) : \E k \in 1..Len(order) : x \in ToSet(ds[k])
  BY <1>6, FlattenHas
<1> HIDE DEF e, d
<1>10. all \in Seq(M) /\ ToSet(all) = ToSet(e) \union ToSet(d)
  <2>1. e \in Seq(M) /\ d \in Seq(M)
    BY <1>8, <1>9
  <2>2. e \o d \in Seq(M) /\ ToSet(e \o d) = ToSet(e) \union ToSet(d)
    BY ONLY <2>1, ConcatHas
  <2> QED
    BY <1>7, <2>2
<1> DEFINE R == Readable(ToSet(bs), files)
<1>11. ASSUME NEW m \in ToSet(e) PROVE m \in R
  <2>1. PICK k \in 1..Len(bs) : m \in ToSet(es[k])
    BY <1>8
  <2> QED
    BY <1>1, <1>3, <2>1 DEF Readable
<1>12. ASSUME NEW m \in ToSet(d) PROVE m \in R
  <2>1. PICK k \in 1..Len(order) : m \in ToSet(ds[k])
    BY <1>9
  <2> QED
    BY <1>2, <1>5, <2>1 DEF Readable
<1>13. ASSUME NEW m \in R PROVE m \in ToSet(e) \union ToSet(d)
  <2>1. CASE \E b \in ToSet(bs) : m \in ToSet(read_elf_catalog(b))
    <3>1. PICK k \in 1..Len(bs) : m \in ToSet(read_elf_catalog(bs[k]))
      BY <1>1, <2>1
    <3> QED
      BY <1>3, <1>8, <3>1
  <2>2. CASE \E h \in files : m \in ToSet(sidecars[h])
    <3>1. PICK k \in 1..Len(order) : m \in ToSet(sidecars[order[k]])
      BY <1>2, <2>2
    <3> QED
      BY <1>5, <1>9, <3>1
  <2> QED
    BY <2>1, <2>2 DEF Readable
<1> QED
  BY <1>10, <1>11, <1>12, <1>13 DEF M

\* What the campaign finds: one mutant of each id that can be read, in order.
LEMMA FoundIs ==
  ASSUME BinaryInv, SidecarInv, NEW bs \in Seq(Binaries), NEW files \in SUBSET DOMAIN sidecars,
         NEW found \in Found(bs, files)
  PROVE  /\ found \in Seq(Mutant) /\ Ordered(found)
         /\ ToSet(found) \subseteq Readable(ToSet(bs), files)
         /\ \A m \in Readable(ToSet(bs), files) : \E n \in ToSet(found) : n.id = m.id
<1> DEFINE orders == {o \in NoRepeats(files) : ToSet(o) = files}
           All(o) == FlattenSeq([i \in DOMAIN bs |-> read_elf_catalog(bs[i])]) \o read_catalog_dir(o)
<1>1. PICK order \in orders : found = merge_mutants(All(order))
  <2>1. Found(bs, files) = {merge_mutants(All(o)) : o \in orders}
    BY DEF Found
  <2> HIDE DEF All, orders
  <2> QED
    BY <2>1
<1>2. IsFiniteSet(DOMAIN sidecars)
  <2>1. IsFiniteSet({ModuleName[u] : u \in Units})
    <3> DEFINE T == {ModuleName[u] : u \in Units}
    <3>1. ModuleName \in Surjection(Units, T)
      BY ModuleNamesAreNumbers DEF Surjection
    <3> HIDE DEF T
    <3>2. IsFiniteSet(T)
      BY <3>1, FS_Surjection, BuildIsFinite
    <3> QED
      BY <3>2 DEF T
  <2> QED
    BY <2>1, FS_Subset DEF SidecarInv
<1>3. order \in Seq(files) /\ ToSet(order) = files
  <2>1. IsFiniteSet(files)
    BY <1>2, FS_Subset
  <2> QED
    BY <1>1, <2>1, NoRepeatsAre
<1> DEFINE all == All(order)
<1>4. all = All(order)
  OBVIOUS
<1> HIDE DEF all, orders
<1>5. all \in Seq(Mutant) /\ ToSet(all) = Readable(ToSet(bs), files)
  BY <1>3, <1>4, AllReadIs
<1>6. found = merge_mutants(all)
  BY <1>1, <1>4
<1>7. Merged(all, found)
  BY <1>5, <1>6, MergedIs
<1> QED
  BY <1>5, <1>7 DEF Merged

\* Then all that can be read is found.
LEMMA AllFound ==
  ASSUME IdsTellMutants, BinaryInv, SidecarInv, NEW bs \in Seq(Binaries), NEW files \in SUBSET DOMAIN sidecars,
         NEW found \in Found(bs, files)
  PROVE  found \in Seq(Mutant) /\ Ordered(found) /\ ToSet(found) = Readable(ToSet(bs), files)
<1> DEFINE R == Readable(ToSet(bs), files)
<1>1. /\ found \in Seq(Mutant) /\ Ordered(found) /\ ToSet(found) \subseteq R
      /\ \A m \in R : \E n \in ToSet(found) : n.id = m.id
  BY FoundIs
<1>2. R \subseteq AllMutants
  BY DEF Readable
<1> HIDE DEF R
<1>3. ASSUME NEW m \in R PROVE m \in ToSet(found)
  <2>1. PICK n \in ToSet(found) : n.id = m.id
    BY <1>1
  <2>2. n \in AllMutants /\ m \in AllMutants
    BY <1>1, <1>2
  <2> QED
    BY <2>1, <2>2 DEF IdsTellMutants
<1> QED
  BY <1>1, <1>3 DEF R

\* An ordered list of mutants has each of them once.
LEMMA OrderedIsInjective ==
  ASSUME NEW s \in Seq(Mutant), Ordered(s)
  PROVE  IsInjective(s)
<1>1. Len(s) \in Nat /\ DOMAIN s = 1..Len(s) /\ \A i \in 1..Len(s) : s[i] \in Mutant
  OBVIOUS
<1>2. ASSUME NEW i \in 1..Len(s), NEW j \in 1..Len(s), s[i] = s[j] PROVE i = j
  <2>1. i \in Int /\ j \in Int
    BY <1>1
  <2>2. ~Before(s[i], s[i])
    BY <1>1, BeforeIs
  <2>3. ~(i < j) /\ ~(j < i)
    BY <1>2, <2>2 DEF Ordered
  <2> QED
    BY <2>1, <2>3
<1> QED
  BY <1>1, <1>2 DEF IsInjective
-----------------------------------------------------------------------------
(* The theorems *)

\* What is left of a sequence without its first element.
LEMMA TailStays ==
  ASSUME NEW A, NEW s \in Seq(A), s # <<>>
  PROVE  /\ Tail(s) \in Seq(A)
         /\ \A y \in 1..Len(Tail(s)) : y + 1 \in 1..Len(s) /\ s[y + 1] = Tail(s)[y]
<1>1. Tail(s) \in Seq(A) /\ Len(Tail(s)) = Len(s) - 1 /\ Len(s) \in Nat
  OBVIOUS
<1>2. \A y \in 1..Len(s) - 1 : Tail(s)[y] = s[y + 1] /\ y + 1 \in 1..Len(s)
  OBVIOUS
<1> QED
  BY <1>1, <1>2

\* The list is made of the binaries that are named.
LEMMA ListIs ==
  ASSUME IndInv, phase = "listed"
  PROVE  /\ named \in Seq(Binaries) /\ named \in NoRepeats(Binaries)
         /\ opened \in SUBSET DOMAIN sidecars /\ mutants \in Found(named, opened)
<1>1. named \in NoRepeats(Binaries) /\ opened \in SUBSET DOMAIN sidecars /\ mutants \in Found(named, opened)
  BY DEF IndInv, ListInv
<1> QED
  BY <1>1, NoRepeatsAre, BuildIsFinite

\* The state of the build and of the campaign is what it is meant to be: a
\* section has records of mutants only, and no mutant is listed twice.
THEOREM TypeCorrect == Spec => []TypeOK
<1>1. ASSUME IndInv PROVE TypeOK
  <2>1. BuildInv /\ BinaryInv /\ SidecarInv /\ ListInv
    BY <1>1 DEF IndInv
  <2>2. ASSUME NEW b \in Binaries, NEW i \in DOMAIN binary[b].section,
               binary[b].section[i].tag = "record"
        PROVE  binary[b].section[i].mutant \in AllMutants
    <3> DEFINE parts == binary[b].parts
               s == Section(parts)
    <3>1. binary[b].section = s /\ parts \in Seq(Recs)
      BY <2>1 DEF BinaryInv
    <3>2. i \in DOMAIN s /\ s[i].tag = "record"
      BY <2>2, <3>1
    <3> HIDE DEF parts
    <3>3. parts \in Seq(Seq(Mutant)) /\ \A k \in 1..Len(parts) : parts[k] \in Recs
      BY <3>1, RecsAre
    <3>4. i \in 1..Len(s)
      BY <3>2, <3>3, SectionType
    <3>5. PICK k \in 1..Len(parts) : s[i].mutant \in ToSet(parts[k])
      BY <3>2, <3>3, <3>4, SectionRecords
    <3> QED
      BY <3>1, <3>3, <3>5, RecsAre
  <2>3. named \in NoRepeats(Binaries)
    BY <2>1, NoRepeatsGrow, BuildIsFinite DEF ListInv
  <2>4. ToSet(mutants) \subseteq AllMutants /\ IsInjective(mutants)
    <3>1. CASE mutants = <<>>
      BY <3>1 DEF ToSet, IsInjective
    <3>2. CASE phase = "listed"
      <4>1. named \in Seq(Binaries) /\ opened \in SUBSET DOMAIN sidecars /\ mutants \in Found(named, opened)
        BY <1>1, <3>2, ListIs
      <4>2. /\ mutants \in Seq(Mutant) /\ Ordered(mutants)
            /\ ToSet(mutants) \subseteq Readable(ToSet(named), opened)
        BY <2>1, <4>1, FoundIs
      <4>3. Readable(ToSet(named), opened) \subseteq AllMutants
        BY DEF Readable
      <4> QED
        BY <4>2, <4>3, OrderedIsInjective
    <3> QED
      BY <2>1, <3>1, <3>2 DEF ListInv
  <2> QED
    BY <2>1, <2>2, <2>3, <2>4 DEF TypeOK, BuildInv, BinaryInv, SidecarInv, ListInv
<1> QED
  BY <1>1, Invariance, PTL

\* In each state of the invariant only firsts are missing.
LEMMA FirstsOnly == ASSUME IdsTellMutants, IndInv PROVE FirstOnlyLost
<1> SUFFICES ASSUME phase = "listed", NEW b \in ToSet(named), NEW k \in DOMAIN binary[b].parts,
                    NEW m \in ToSet(IF k = 1 THEN binary[b].parts[k] ELSE Tail(binary[b].parts[k]))
             PROVE  m \in ToSet(mutants)
  BY DEF FirstOnlyLost
<1>1. BuildInv /\ BinaryInv /\ SidecarInv
  BY DEF IndInv
<1>2. named \in Seq(Binaries) /\ opened \in SUBSET DOMAIN sidecars /\ mutants \in Found(named, opened)
  BY ListIs
<1>3. ToSet(mutants) = Readable(ToSet(named), opened)
  BY <1>1, <1>2, AllFound
<1>4. b \in Binaries
  BY <1>2, ToSetIs
<1>5. ReadOf(binary[b].parts, read_elf_catalog(b)) /\ ToSet(read_elf_catalog(b)) \subseteq AllMutants
  BY <1>1, <1>4, ElfIs
<1> DEFINE parts == binary[b].parts
           part == parts[k]
<1>6. parts \in Seq(Recs) /\ <<>> \notin ToSet(parts)
  BY <1>1, <1>4 DEF BinaryInv
<1>7. k \in 1..Len(parts) /\ part \in Seq(AllMutants) /\ part # <<>>
  BY <1>6, ToSetIs DEF Recs
<1>8. m \in ToSet(IF k = 1 THEN part ELSE Tail(part))
  OBVIOUS
<1> HIDE DEF part
<1>9. PICK x \in 1..Len(part) : part[x] = m /\ (k = 1 \/ x > 1)
  <2>1. CASE k = 1
    BY <1>7, <1>8, <2>1, ToSetIs
  <2>2. CASE k # 1
    <3>1. Tail(part) \in Seq(AllMutants) /\ m \in ToSet(Tail(part))
      BY <1>7, <1>8, <2>2, TailStays
    <3>2. PICK y \in 1..Len(Tail(part)) : Tail(part)[y] = m
      BY <3>1, ToSetIs
    <3>3. y + 1 \in 1..Len(part) /\ part[y + 1] = m /\ y + 1 > 1
      BY <1>7, <3>1, <3>2, TailStays
    <3> QED
      BY <3>3
  <2> QED
    BY <2>1, <2>2
<1>10. m \in ToSet(read_elf_catalog(b))
  BY <1>5, <1>7, <1>9 DEF ReadOf, part
<1> QED
  BY <1>3, <1>5, <1>10 DEF Readable

\* Reading the sections loses at most the first mutant of each unit but the
\* first of a binary.
THEOREM OnlyFirstLost ==
  ASSUME IdsTellMutants
  PROVE  Spec => []FirstOnlyLost
<1>1. ASSUME IndInv PROVE FirstOnlyLost
  BY <1>1, FirstsOnly
<1> QED
  BY <1>1, Invariance, PTL

\* What the sidecars add: of a binary that is up to date only the first mutant of
\* a unit can be missing, and only if its sidecar was not written, was
\* overwritten by another unit's, or was not read.
THEOREM DirIsComplete ==
  ASSUME IdsTellMutants
  PROVE  Spec => []DirComplete
<1>1. ASSUME IndInv PROVE DirComplete
  <2> SUFFICES ASSUME phase = "listed", NEW b \in ToSet(named), UpToDate(b),
                      NEW part \in ToSet(binary[b].parts),
                      NEW m \in ToSet(part) \ ToSet(mutants)
               PROVE  \E u \in Unaided(b) : m = object[u][1]
    BY DEF DirComplete
  <2>1. BuildInv /\ BinaryInv /\ SidecarInv /\ FirstOnlyLost
    BY <1>1, FirstsOnly DEF IndInv
  <2>2. named \in Seq(Binaries) /\ opened \in SUBSET DOMAIN sidecars /\ mutants \in Found(named, opened)
    BY <1>1, ListIs
  <2>3. ToSet(mutants) = Readable(ToSet(named), opened)
    BY <2>1, <2>2, AllFound
  <2>4. PICK u \in ToSet(binary[b].units) : part = object[u] /\ object[u] # <<>>
    BY DEF UpToDate
  <2>5. b \in Binaries
    BY <2>2, ToSetIs
  <2>6. u \in Units
    <3>1. binary[b].units \in NoRepeats(Units)
      BY <2>1, <2>5 DEF BinaryInv
    <3> QED
      BY <3>1, NoRepeatsAre, BuildIsFinite
  <2>7. part \in Seq(AllMutants) /\ m \in AllMutants
    <3>1. part \in Recs
      BY <2>1, <2>4, <2>6 DEF BuildInv
    <3> QED
      BY <3>1, RecsAre DEF Recs
  <2>8. u \in Unaided(b)
    <3> SUFFICES ASSUME u \in kept, ModuleName[u] \in opened PROVE FALSE
      BY <2>4 DEF Unaided
    <3>1. sidecars[ModuleName[u]] = part
      BY <2>1, <2>4 DEF SidecarInv
    <3>2. m \in Readable(ToSet(named), opened)
      BY <2>7, <3>1 DEF Readable
    <3> QED
      BY <2>3, <3>2
  <2>9. m = part[1]
    <3> DEFINE parts == binary[b].parts
    <3>1. parts \in Seq(Recs)
      BY <2>1, <2>5 DEF BinaryInv
    <3>2. PICK k \in 1..Len(parts) : parts[k] = part
      BY <3>1, ToSetIs
    <3>3. k \in DOMAIN parts
      BY <3>1
    <3>4. ToSet(IF k = 1 THEN part ELSE Tail(part)) \subseteq ToSet(mutants)
      BY <2>1, <3>2, <3>3 DEF FirstOnlyLost
    <3>5. m \notin ToSet(Tail(part))
      BY <3>4
    <3>6. PICK x \in 1..Len(part) : part[x] = m
      BY <2>7, ToSetIs
    <3>7. CASE x > 1
      <4>1. Tail(part) \in Seq(AllMutants) /\ Len(Tail(part)) = Len(part) - 1
        BY <2>4, <2>7
      <4>2. x - 1 \in 1..Len(Tail(part)) /\ Tail(part)[x - 1] = m
        BY <2>4, <2>7, <3>6, <3>7
      <4>3. m \in ToSet(Tail(part))
        BY <4>1, <4>2, ToSetIs
      <4> QED
        BY <3>5, <4>3
    <3> QED
      BY <3>6, <3>7
  <2> QED
    BY <2>4, <2>8, <2>9
<1> QED
  BY <1>1, Invariance, PTL

\* Two campaigns that read the same files of one build have the same list, each
\* mutant once.
THEOREM SameList ==
  ASSUME IdsTellMutants
  PROVE  Spec => []Reproducible
<1>1. ASSUME IndInv PROVE Reproducible
  <2> SUFFICES ASSUME phase = "listed" PROVE Reproducible
    BY DEF Reproducible
  <2>1. BuildInv /\ BinaryInv /\ SidecarInv
    BY <1>1 DEF IndInv
  <2>2. named \in Seq(Binaries) /\ opened \in SUBSET DOMAIN sidecars /\ mutants \in Found(named, opened)
    BY <1>1, ListIs
  <2>3. /\ mutants \in Seq(Mutant) /\ Ordered(mutants)
        /\ ToSet(mutants) = Readable(ToSet(named), opened)
    BY <2>1, <2>2, AllFound
  <2>4. ASSUME NEW i \in DOMAIN mutants, NEW j \in DOMAIN mutants, mutants[i].id = mutants[j].id
        PROVE  i = j
    <3>1. mutants[i] \in ToSet(mutants) /\ mutants[j] \in ToSet(mutants)
      BY DEF ToSet
    <3>2. Readable(ToSet(named), opened) \subseteq AllMutants
      BY DEF Readable
    <3>3. mutants[i] = mutants[j]
      BY <2>3, <2>4, <3>1, <3>2 DEF IdsTellMutants
    <3> QED
      BY <2>3, <3>3, OrderedIsInjective DEF IsInjective
  <2>5. ASSUME NEW order \in NoRepeats(Binaries), ToSet(order) = ToSet(named),
               NEW found \in Found(order, opened)
        PROVE  found = mutants
    <3>1. order \in Seq(Binaries)
      BY NoRepeatsAre, BuildIsFinite
    <3>2. found \in Seq(Mutant) /\ Ordered(found) /\ ToSet(found) = Readable(ToSet(order), opened)
      BY <2>1, <2>2, <3>1, AllFound
    <3>3. ToSet(found) = ToSet(mutants)
      BY <2>3, <2>5, <3>2
    <3> QED
      BY <2>3, <3>2, <3>3, OrderedIsUnique
  <2> QED
    BY <2>4, <2>5 DEF Reproducible
<1> QED
  BY <1>1, Invariance, PTL
=============================================================================
