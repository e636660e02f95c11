--------------------------- MODULE SequenceLemmas ---------------------------
(***************************************************************************)
(* Lemmas about the operators on sequences that the models are built from. *)
(* Induction is over a set of numbers: from 0, each with the next, it has  *)
(* all of them, for otherwise the complement has a least element.          *)
(***************************************************************************)
EXTENDS Selection, SequencesExt, FiniteSetsExt, SequenceTheorems, WellFoundedInduction, TLAPS

\* A set of natural numbers that is not empty has a least element.
LEMMA LeastNatural ==
  ASSUME NEW T, T \subseteq Nat, T # {}
  PROVE  \E x \in T : \A y \in T : x <= y
<1> DEFINE R == OpToRel(<, Nat)
<1>1. IsWellFoundedOn(R, Nat)
  BY NatLessThanWellFounded
<1>2. PICK x \in T : \A y \in T : <<y, x>> \notin R
  <2> HIDE DEF R
  <2> QED
    BY <1>1, WFMin, Zenon
<1>3. ASSUME NEW y \in T PROVE x <= y
  <2>1. <<y, x>> \notin {ss \in Nat \X Nat : ss[1] < ss[2]}
    BY <1>2 DEF OpToRel
  <2>2. x \in Nat /\ y \in Nat
    OBVIOUS
  <2> QED
    BY <2>1, <2>2
<1> QED
  BY <1>3

\* Induction up to n, over a set in place of a predicate.
LEMMA InductionUpTo ==
  ASSUME NEW n \in Nat, NEW T, 0 \in T, \A k \in 0..n - 1 : k \in T => k + 1 \in T
  PROVE  0..n \subseteq T
<1> SUFFICES ASSUME NEW m \in 0..n, m \notin T PROVE FALSE
  OBVIOUS
<1> DEFINE U == (0..n) \ T
<1>1. PICK x \in U : \A y \in U : x <= y
  <2>1. U \subseteq Nat /\ U # {}
    OBVIOUS
  <2> HIDE DEF U
  <2> QED
    BY <2>1, LeastNatural
<1>2. x # 0 /\ x - 1 \in 0..n - 1 /\ x - 1 \notin U
  BY <1>1
<1>3. x - 1 \in T /\ x \notin T
  BY <1>2
<1>4. x - 1 + 1 \in T
  BY <1>2, <1>3
<1> QED
  BY <1>2, <1>3, <1>4

\* f begins with a, and each step G[k] makes the next of it.
Stepwise(A, a, N, G, f) ==
  f \in [0..N -> A] /\ f[0] = a /\ \A k \in 1..N : f[k] = G[k][f[k - 1]]

\* A step for each number up to n makes a function of the numbers from 0.
LEMMA RecursionSolved ==
  ASSUME NEW A, NEW a \in A, NEW N \in Nat, NEW G, \A k \in 1..N : \A x \in A : G[k][x] \in A
  PROVE  \E f : Stepwise(A, a, N, G, f)
<1> DEFINE Solves(f, n) == f[0] = a /\ \A k \in 1..n : f[k] = G[k][f[k - 1]]
           T == {n \in 0..N : \E f \in [0..n -> A] : Solves(f, n)}
<1>1. 0 \in T
  <2> DEFINE f == [k \in 0..0 |-> a]
  <2>1. f \in [0..0 -> A] /\ Solves(f, 0) /\ 0 \in 0..N
    OBVIOUS
  <2> HIDE DEF f, Solves
  <2> QED
    BY <2>1
<1>2. ASSUME NEW n \in 0..N - 1, n \in T PROVE n + 1 \in T
  <2>1. PICK f \in [0..n -> A] : Solves(f, n)
    BY <1>2
  <2> DEFINE e == G[n + 1][f[n]]
             g == [k \in 0..n + 1 |-> IF k \in 0..n THEN f[k] ELSE e]
  <2>2. f[n] \in A /\ n + 1 \in 1..N /\ n + 1 \in 0..N
    OBVIOUS
  <2>3. e \in A
    BY <2>2
  <2> HIDE DEF e
  <2>4. g \in [0..n + 1 -> A] /\ g[0] = a
    BY <2>1, <2>3
  <2>5. ASSUME NEW k \in 1..n + 1 PROVE g[k] = G[k][g[k - 1]]
    <3>1. CASE k \in 1..n
      <4>1. k \in 0..n /\ k - 1 \in 0..n /\ k \in 0..n + 1 /\ k - 1 \in 0..n + 1
        BY <3>1
      <4>2. g[k] = f[k] /\ g[k - 1] = f[k - 1] /\ f[k] = G[k][f[k - 1]]
        BY <4>1, <3>1, <2>1
      <4> QED
        BY ONLY <4>2
    <3>2. CASE k \notin 1..n
      <4>1. k = n + 1 /\ k \notin 0..n /\ k - 1 = n /\ n \in 0..n /\ n \in 0..n + 1
        BY <3>2
      <4>2. g[k] = e /\ g[k - 1] = f[n]
        BY <4>1
      <4> QED
        BY ONLY <4>1, <4>2 DEF e
    <3> QED
      BY <3>1, <3>2
  <2>6. Solves(g, n + 1)
    BY <2>4, <2>5
  <2> HIDE DEF g, Solves
  <2> QED
    BY <2>2, <2>4, <2>6
<1>3. 0..N \subseteq T
  <2> HIDE DEF T
  <2> QED
    BY <1>1, <1>2, InductionUpTo
<1>4. N \in T
  <2> HIDE DEF T
  <2> QED
    BY <1>3
<1> QED
  BY <1>4 DEF Stepwise

\* What each step keeps holds at all numbers.
LEMMA RecursionStays ==
  ASSUME NEW A, NEW N \in Nat, NEW f, f[0] \in A, \A k \in 1..N : f[k - 1] \in A => f[k] \in A
  PROVE  \A k \in 0..N : f[k] \in A
<1> DEFINE T == {k \in 0..N : f[k] \in A}
<1>1. 0 \in T
  OBVIOUS
<1>2. ASSUME NEW k \in 0..N - 1, k \in T PROVE k + 1 \in T
  <2>1. k + 1 \in 1..N /\ k + 1 \in 0..N /\ k + 1 - 1 = k
    OBVIOUS
  <2> QED
    BY <2>1, <1>2
<1>3. 0..N \subseteq T
  <2> HIDE DEF T
  <2> QED
    BY <1>1, <1>2, InductionUpTo
<1> QED
  BY <1>3

\* The maximum of a set is the member that no other exceeds.
LEMMA MaxIs ==
  ASSUME NEW S, NEW m \in S, S \subseteq Nat, \A y \in S : m >= y
  PROVE  Max(S) = m
<1> DEFINE P(x) == x \in S /\ \A y \in S : x >= y
<1>1. P(m)
  OBVIOUS
<1>2. Max(S) = CHOOSE x \in S : \A y \in S : x >= y
  BY DEF Max
<1>3. P(Max(S))
  BY <1>1, <1>2
<1>4. Max(S) \in Nat /\ m \in Nat /\ Max(S) >= m /\ m >= Max(S)
  BY <1>3
<1> QED
  BY <1>4

\* u is s and, behind it, t.
Follows(u, s, t) ==
  /\ Len(s) \in Nat /\ Len(t) \in Nat /\ Len(u) = Len(s) + Len(t)
  /\ \A x \in 1..Len(s) : u[x] = s[x]
  /\ \A x \in 1..Len(t) : u[Len(s) + x] = t[x]

\* t begins with s.
Begins(t, s) ==
  Len(s) <= Len(t) /\ \A x \in 1..Len(s) : t[x] = s[x]

\* What stands where in a concatenation.
LEMMA ConcatFollows ==
  ASSUME NEW S, NEW s \in Seq(S), NEW t \in Seq(S)
  PROVE  s \o t \in Seq(S) /\ Follows(s \o t, s, t)
BY DEF Follows

\* What begins the first part begins the whole.
LEMMA StillBegins ==
  ASSUME NEW u, NEW s, NEW t, NEW r, Follows(u, s, t), Begins(s, r), Len(r) \in Nat
  PROVE  Begins(u, r)
BY DEF Follows, Begins

\* The places of the second part, in the whole and in what begins with it.
LEMMA PlaceBehind ==
  ASSUME NEW u, NEW s, NEW t, NEW v, Follows(u, s, t), Begins(v, u), Len(v) \in Nat,
         NEW y \in 1..Len(t)
  PROVE  /\ Len(s) + y \in 1..Len(u) /\ Len(s) + y \in 1..Len(v)
         /\ u[Len(s) + y] = t[y] /\ v[Len(s) + y] = t[y]
<1>1. Len(s) + y \in 1..Len(u) /\ u[Len(s) + y] = t[y]
  BY DEF Follows
<1>2. Len(s) + y \in 1..Len(v)
  BY <1>1 DEF Follows, Begins
<1> QED
  BY <1>1, <1>2 DEF Begins

\* Behind the first part there is the second.
LEMMA BehindIs ==
  ASSUME NEW u, NEW s, NEW t, Follows(u, s, t), NEW x \in Nat, x <= Len(u), ~(x <= Len(s))
  PROVE  \E y \in 1..Len(t) : x = Len(s) + y
<1>1. x - Len(s) \in 1..Len(t) /\ x = Len(s) + (x - Len(s))
  BY DEF Follows
<1> QED
  BY <1>1

\* Append adds one element.
LEMMA AppendAdds ==
  ASSUME NEW A, NEW s \in Seq(A), NEW r
  PROVE  ToSet(Append(s, r)) = ToSet(s) \union {r}
<1>1. /\ Len(s) \in Nat /\ DOMAIN s = 1..Len(s) /\ DOMAIN Append(s, r) = 1..Len(s) + 1
      /\ Append(s, r)[Len(s) + 1] = r /\ \A k \in 1..Len(s) : Append(s, r)[k] = s[k]
  OBVIOUS
<1> DEFINE u == Append(s, r)
           n == Len(s)
<1> HIDE DEF u, n
<1>2. \A k \in 1..n + 1 : k \in 1..n \/ k = n + 1
  BY <1>1 DEF n
<1>3. ToSet(u) \subseteq ToSet(s) \union {r}
  BY <1>1, <1>2 DEF ToSet, u, n
<1>4. n + 1 \in 1..n + 1 /\ \A k \in 1..n : k \in 1..n + 1
  BY <1>1 DEF n
<1>5. ToSet(s) \union {r} \subseteq ToSet(u)
  BY <1>1, <1>4 DEF ToSet, u, n
<1> QED
  BY <1>3, <1>5 DEF u

\* The second part of a concatenation is a suffix of the whole.
LEMMA ConcatHasSuffix ==
  ASSUME NEW A, NEW s \in Seq(A), NEW t \in Seq(A)
  PROVE  IsSuffix(t, s \o t)
<1> DEFINE u == s \o t
           p == Reverse(t)
           q == Reverse(u)
<1>1. u \in Seq(A) /\ Follows(u, s, t) /\ Len(u) \in Nat
  BY ConcatFollows
<1>2. Len(s) \in Nat /\ Len(t) \in Nat
  OBVIOUS
<1> HIDE DEF u
<1>3. /\ p \in Seq(A) /\ Len(p) = Len(t)
      /\ \A k \in 1..Len(t) : p[k] = t[(Len(t) - k) + 1]
  BY <1>2 DEF Reverse
<1>4. /\ q \in Seq(A) /\ Len(q) = Len(u)
      /\ \A k \in 1..Len(u) : q[k] = u[(Len(u) - k) + 1]
  BY <1>1 DEF Reverse
<1> HIDE DEF p, q
<1>5. Len(u) = Len(s) + Len(t) /\ \A x \in 1..Len(t) : u[Len(s) + x] = t[x]
  BY <1>1 DEF Follows
<1>6. ASSUME NEW k \in 1..Len(t) PROVE p[k] = q[k]
  <2> DEFINE x == (Len(t) - k) + 1
  <2>1. x \in 1..Len(t) /\ k \in 1..Len(u) /\ (Len(u) - k) + 1 = Len(s) + x
    BY ONLY <1>2, <1>5, k \in 1..Len(t)
  <2>2. p[k] = t[x] /\ q[k] = u[(Len(u) - k) + 1]
    BY <2>1, <1>3, <1>4
  <2> HIDE DEF x
  <2> QED
    BY ONLY <2>1, <2>2, <1>5
<1>7. Len(p) <= Len(q)
  BY ONLY <1>2, <1>3, <1>4, <1>5
<1>8. SubSeq(p, 1, Len(p)) = SubSeq(q, 1, Len(p))
  <2> DEFINE n == Len(p)
  <2>1. n \in Nat /\ n <= Len(q) /\ \A k \in 1..n : p[k] = q[k]
    BY <1>2, <1>3, <1>6, <1>7
  <2>2. p \in Seq(A) /\ q \in Seq(A) /\ n <= Len(p)
    BY <1>3, <1>4, <2>1
  <2> HIDE DEF n
  <2>3. SubSeq(p, 1, n) = [k \in 1..n |-> p[k]] /\ SubSeq(q, 1, n) = [k \in 1..n |-> q[k]]
    BY <2>1, <2>2
  <2> QED
    BY <2>1, <2>3 DEF n
<1> QED
  BY <1>7, <1>8 DEF IsSuffix, IsPrefix, p, q, u
-----------------------------------------------------------------------------
(* FlattenSeq *)

\* p has, of a sequence of sequences, what the first k of them make.
Joined(A, ss, p) ==
  /\ p \in [0..Len(ss) -> Seq(A)]
  /\ p[0] = <<>>
  /\ \A k \in 1..Len(ss) : p[k] = p[k - 1] \o ss[k]
  /\ p[Len(ss)] = FlattenSeq(ss)

\* FlattenSeq joins one sequence after another.
LEMMA FlattenJoins ==
  ASSUME NEW A, NEW ss \in Seq(Seq(A))
  PROVE  \E p : Joined(A, ss, p)
<1> DEFINE N == Len(ss)
           Solves(f, n) == f = [k \in 1..n |-> IF k = 1 THEN ss[k] ELSE f[k - 1] \o ss[k]]
           T == {n \in 0..N : n = 0 \/ \E f : f \in [1..n -> Seq(A)] /\ Solves(f, n)}
<1>1. N \in Nat /\ \A k \in 1..N : ss[k] \in Seq(A)
  OBVIOUS
<1>2. CASE N = 0
  <2>1. ss = <<>> /\ FlattenSeq(ss) = <<>>
    BY <1>2 DEF FlattenSeq
  <2> DEFINE p == [k \in 0..0 |-> <<>>]
  <2>2. Joined(A, ss, p)
    BY <2>1 DEF Joined
  <2> QED
    BY <2>2
<1>3. CASE N # 0
  <2>1. ASSUME NEW n \in 0..N - 1, n \in T PROVE n + 1 \in T
    <3>1. n + 1 \in 0..N
      OBVIOUS
    <3>2. CASE n = 0
      <4> DEFINE f == [k \in 1..1 |-> ss[k]]
      <4>1. f \in [1..1 -> Seq(A)] /\ Solves(f, 1)
        BY <1>1, <1>3
      <4>2. n + 1 = 1
        BY <3>2
      <4> HIDE DEF f, Solves
      <4>3. f \in [1..n + 1 -> Seq(A)] /\ Solves(f, n + 1)
        BY <4>1, <4>2
      <4> QED
        BY <4>3, <3>1
    <3>3. CASE n # 0
      <4>1. PICK f : f \in [1..n -> Seq(A)] /\ Solves(f, n)
        BY <2>1, <3>3
      <4> DEFINE g == [k \in 1..n + 1 |-> IF k \in 1..n THEN f[k] ELSE f[n] \o ss[n + 1]]
      <4>2. f[n] \o ss[n + 1] \in Seq(A)
        <5>1. f[n] \in Seq(A) /\ ss[n + 1] \in Seq(A)
          BY <4>1, <1>1, <3>3
        <5> QED
          BY ONLY <5>1
      <4>3. g \in [1..n + 1 -> Seq(A)]
        BY <4>1, <4>2
      <4>4. ASSUME NEW k \in 1..n + 1
            PROVE  g[k] = IF k = 1 THEN ss[k] ELSE g[k - 1] \o ss[k]
        <5>1. CASE k \in 1..n
          <6>1. f[k] = IF k = 1 THEN ss[k] ELSE f[k - 1] \o ss[k]
            BY <4>1, <5>1
          <6>2. k # 1 => k - 1 \in 1..n /\ k - 1 \in 1..n + 1
            BY <5>1
          <6> QED
            BY <6>1, <6>2, <5>1
        <5>2. CASE k = n + 1
          <6>1. k \notin 1..n /\ k # 1 /\ k - 1 = n /\ n \in 1..n /\ n \in 1..n + 1
            BY <5>2, <3>3
          <6>2. g[k] = f[n] \o ss[k] /\ g[k - 1] = f[n]
            BY <6>1, <5>2
          <6> QED
            BY <6>1, <6>2
        <5> QED
          BY <5>1, <5>2
      <4>5. Solves(g, n + 1)
        BY <4>4
      <4> HIDE DEF g
      <4> QED
        BY <4>3, <4>5, <3>1
    <3> QED
      BY <3>2, <3>3
  <2>2. 0..N \subseteq T
    <3>1. 0 \in T
      BY <1>1
    <3> HIDE DEF T
    <3> QED
      BY <3>1, <2>1, <1>1, InductionUpTo
  <2>3. PICK f : f \in [1..N -> Seq(A)] /\ Solves(f, N)
    <3>1. N \in T
      <4> HIDE DEF T
      <4> QED
        BY <2>2, <1>1
    <3> QED
      BY <3>1, <1>3
  <2> DEFINE c == CHOOSE f_1 : Solves(f_1, N)
  <2>4. Solves(c, N)
    <3> HIDE DEF Solves
    <3> QED
      BY <2>3
  <2>5. FlattenSeq(ss) = c[N]
    BY <1>3 DEF FlattenSeq
  <2> HIDE DEF c
  <2>6. ASSUME NEW k \in 1..N
         PROVE  c[k] = IF k = 1 THEN ss[k] ELSE c[k - 1] \o ss[k]
    BY <2>4
  <2> DEFINE V == {n \in 0..N : n = 0 \/ c[n] \in Seq(A)}
  <2>7. ASSUME NEW n \in 0..N - 1, n \in V PROVE n + 1 \in V
    <3>1. n + 1 \in 1..N /\ ss[n + 1] \in Seq(A)
      BY <1>1
    <3>2. c[n + 1] = IF n + 1 = 1 THEN ss[n + 1] ELSE c[n + 1 - 1] \o ss[n + 1]
      BY ONLY <2>6, <3>1
    <3>5. n + 1 \in 0..N
      OBVIOUS
    <3>3. CASE n = 0
      <4>1. c[n + 1] = ss[n + 1]
        BY <3>2, <3>3
      <4> QED
        BY <3>1, <3>5, <4>1
    <3>4. CASE n # 0
      <4>1. c[n] \in Seq(A) /\ n + 1 - 1 = n /\ n + 1 # 1
        BY <2>7, <3>4
      <4>2. c[n] \o ss[n + 1] \in Seq(A)
        BY ONLY <4>1, <3>1
      <4>3. c[n + 1] = c[n] \o ss[n + 1]
        BY <3>2, <4>1
      <4> QED
        BY <3>5, <4>3, <4>2
    <3> QED
      BY <3>3, <3>4
  <2>8. 0..N \subseteq V
    <3>1. 0 \in V
      BY <1>1
    <3> HIDE DEF V
    <3> QED
      BY <3>1, <2>7, <1>1, InductionUpTo
  <2> DEFINE p == [k \in 0..N |-> IF k = 0 THEN <<>> ELSE c[k]]
  <2>9. p \in [0..N -> Seq(A)] /\ p[0] = <<>> /\ p[N] = FlattenSeq(ss)
    BY <2>5, <2>8, <1>1, <1>3
  <2>10. ASSUME NEW k \in 1..N PROVE p[k] = p[k - 1] \o ss[k]
    <3>1. c[k] = IF k = 1 THEN ss[k] ELSE c[k - 1] \o ss[k]
      BY <2>4
    <3>2. p[k] = c[k] /\ (k # 1 => p[k - 1] = c[k - 1]) /\ (k = 1 => p[k - 1] = <<>>)
      OBVIOUS
    <3>3. <<>> \o ss[k] = ss[k]
      <4>1. ss[k] \in Seq(A)
        OBVIOUS
      <4> QED
        BY ONLY <4>1, ConcatEmptySeq
    <3> QED
      BY <3>1, <3>2, <3>3
  <2> HIDE DEF p
  <2> QED
    BY <2>9, <2>10 DEF Joined
<1> QED
  BY <1>2, <1>3

\* What one more sequence adds.
LEMMA JoinedStep ==
  ASSUME NEW A, NEW ss \in Seq(Seq(A)), NEW p, Joined(A, ss, p), NEW k \in 1..Len(ss)
  PROVE  Follows(p[k], p[k - 1], ss[k]) /\ ss[k] \in Seq(A)
<1>1. Len(ss) \in Nat /\ ss[k] \in Seq(A)
  OBVIOUS
<1>2. k - 1 \in 0..Len(ss) /\ k \in 0..Len(ss)
  BY <1>1
<1>3. p \in [0..Len(ss) -> Seq(A)] /\ p[k] = p[k - 1] \o ss[k]
  BY Zenon DEF Joined
<1>4. p[k - 1] \in Seq(A)
  BY <1>2, <1>3, Zenon
<1>5. Follows(p[k - 1] \o ss[k], p[k - 1], ss[k])
  BY ONLY <1>1, <1>4, ConcatFollows
<1> QED
  BY ONLY <1>1, <1>3, <1>5

\* Where the joining begins and where it ends.
LEMMA JoinedEnds ==
  ASSUME NEW A, NEW ss \in Seq(Seq(A)), NEW p, Joined(A, ss, p)
  PROVE  /\ Len(ss) \in Nat /\ \A k \in 0..Len(ss) : p[k] \in Seq(A) /\ Len(p[k]) \in Nat
         /\ p[0] = <<>> /\ Len(p[0]) = 0
         /\ p[Len(ss)] = FlattenSeq(ss) /\ FlattenSeq(ss) \in Seq(A)
<1>1. Len(ss) \in Nat
  OBVIOUS
<1>2. p \in [0..Len(ss) -> Seq(A)] /\ p[0] = <<>> /\ p[Len(ss)] = FlattenSeq(ss)
  BY Zenon DEF Joined
<1>3. \A k \in 0..Len(ss) : p[k] \in Seq(A)
  BY <1>2, Zenon
<1>4. \A k \in 0..Len(ss) : Len(p[k]) \in Nat
  <2>1. ASSUME NEW k \in 0..Len(ss) PROVE Len(p[k]) \in Nat
    <3>1. p[k] \in Seq(A)
      BY <1>3
    <3> QED
      BY ONLY <3>1
  <2> QED
    BY <2>1
<1>5. Len(p[0]) = 0
  BY ONLY <1>2
<1>6. Len(ss) \in 0..Len(ss)
  BY <1>1
<1>7. FlattenSeq(ss) \in Seq(A)
  BY ONLY <1>2, <1>3, <1>6
<1> QED
  BY ONLY <1>1, <1>2, <1>3, <1>4, <1>5, <1>7

\* What the first sequences make is the beginning of what more of them make.
LEMMA JoinedGrows ==
  ASSUME NEW A, NEW ss \in Seq(Seq(A)), NEW p, Joined(A, ss, p),
         NEW k \in 0..Len(ss), NEW j \in 0..k
  PROVE  Begins(p[k], p[j])
<1> DEFINE T == {n \in 0..k : n < j \/ Begins(p[n], p[j])}
<1>1. Len(ss) \in Nat /\ k \in Nat /\ j \in Nat /\ j \in 0..Len(ss)
  OBVIOUS
<1>2. \A n \in 0..Len(ss) : Len(p[n]) \in Nat
  BY JoinedEnds
<1>3. Begins(p[j], p[j])
  BY ONLY <1>1, <1>2 DEF Begins
<1>4. ASSUME NEW n \in 0..k - 1, Begins(p[n], p[j]) PROVE Begins(p[n + 1], p[j])
  <2>1. n + 1 \in 1..Len(ss) /\ n + 1 - 1 = n /\ n \in 0..Len(ss) /\ n + 1 \in 0..Len(ss)
    BY <1>1
  <2>2. Follows(p[n + 1], p[n + 1 - 1], ss[n + 1])
    BY <2>1, JoinedStep
  <2>3. Follows(p[n + 1], p[n], ss[n + 1])
    BY ONLY <2>1, <2>2
  <2>4. Len(p[j]) \in Nat
    BY <1>1, <1>2
  <2> QED
    BY <2>3, <2>4, <1>4, StillBegins
<1>5. 0 \in T
  <2>1. 0 < j \/ 0 = j
    BY <1>1
  <2> QED
    BY <1>1, <1>3, <2>1
<1>6. ASSUME NEW n \in 0..k - 1, n \in T PROVE n + 1 \in T
  <2>1. n + 1 \in 0..k /\ (n < j => n + 1 < j \/ n + 1 = j)
    BY <1>1
  <2> QED
    BY <1>6, <1>3, <1>4, <2>1
<1>7. 0..k \subseteq T
  <2> HIDE DEF T
  <2> QED
    BY <1>1, <1>5, <1>6, InductionUpTo
<1> QED
  BY <1>7, <1>1

\* Each element of each sequence stands in the whole, behind what was before.
LEMMA JoinedPlace ==
  ASSUME NEW A, NEW ss \in Seq(Seq(A)), NEW p, Joined(A, ss, p),
         NEW k \in 1..Len(ss), NEW y \in 1..Len(ss[k])
  PROVE  /\ Len(p[k - 1]) + y \in 1..Len(p[k])
         /\ Len(p[k - 1]) + y \in 1..Len(FlattenSeq(ss))
         /\ p[k][Len(p[k - 1]) + y] = ss[k][y]
         /\ FlattenSeq(ss)[Len(p[k - 1]) + y] = ss[k][y]
<1>1. Follows(p[k], p[k - 1], ss[k])
  BY JoinedStep
<1>2. p[Len(ss)] = FlattenSeq(ss) /\ Len(ss) \in Nat
  BY JoinedEnds
<1>3. Len(ss) \in 0..Len(ss) /\ k \in 0..Len(ss)
  BY <1>2
<1>4. Begins(p[Len(ss)], p[k])
  <2>1. k \in 0..Len(ss)
    BY <1>3
  <2> QED
    BY <1>3, <2>1, JoinedGrows
<1>5. Len(p[Len(ss)]) \in Nat
  BY <1>3, JoinedEnds
<1> DEFINE u == p[k]
           s == p[k - 1]
           t == ss[k]
           v == p[Len(ss)]
<1>6. Follows(u, s, t) /\ Begins(v, u) /\ Len(v) \in Nat /\ y \in 1..Len(t)
  BY <1>1, <1>4, <1>5
<1> HIDE DEF u, s, t, v
<1>7. /\ Len(s) + y \in 1..Len(u) /\ Len(s) + y \in 1..Len(v)
      /\ u[Len(s) + y] = t[y] /\ v[Len(s) + y] = t[y]
  BY ONLY <1>6, PlaceBehind
<1> QED
  BY <1>2, <1>7 DEF u, s, t, v

\* Whatever stands in the whole is an element of one of the sequences.
LEMMA JoinedFrom ==
  ASSUME NEW A, NEW ss \in Seq(Seq(A)), NEW p, Joined(A, ss, p),
         NEW x \in 1..Len(FlattenSeq(ss))
  PROVE  \E k \in 1..Len(ss) : \E y \in 1..Len(ss[k]) : x = Len(p[k - 1]) + y
<1> DEFINE T == {k \in 0..Len(ss) : x <= Len(p[k])}
<1>1. /\ Len(ss) \in Nat /\ Len(p[0]) = 0 /\ p[Len(ss)] = FlattenSeq(ss)
      /\ \A k \in 0..Len(ss) : Len(p[k]) \in Nat
  BY JoinedEnds
<1>2. x \in 1..Len(p[Len(ss)]) /\ Len(p[Len(ss)]) \in Nat
  BY <1>1
<1>3. x \in Nat /\ x >= 1 /\ x <= Len(p[Len(ss)])
  BY ONLY <1>2
<1>4. Len(ss) \in T
  BY <1>1, <1>3
<1>5. PICK k \in T : \A j \in T : k <= j
  <2>1. T \subseteq Nat /\ T # {}
    BY <1>4
  <2> HIDE DEF T
  <2> QED
    BY <2>1, LeastNatural
<1>6. k \in 0..Len(ss) /\ x <= Len(p[k])
  BY <1>5
<1>7. k # 0
  BY ONLY <1>1, <1>3, <1>6
<1>8. k \in 1..Len(ss) /\ k - 1 \in 0..Len(ss)
  BY ONLY <1>1, <1>6, <1>7
<1>9. ~(x <= Len(p[k - 1]))
  <2>1. SUFFICES ASSUME x <= Len(p[k - 1]) PROVE FALSE
    OBVIOUS
  <2>2. k - 1 \in T
    BY <2>1, <1>8
  <2> HIDE DEF T
  <2>3. k <= k - 1
    BY <2>2, <1>5
  <2> QED
    BY ONLY <2>3, <1>8, <1>1
<1>10. Follows(p[k], p[k - 1], ss[k])
  BY <1>8, JoinedStep
<1>11. \E y \in 1..Len(ss[k]) : x = Len(p[k - 1]) + y
  <2> DEFINE u == p[k]
             s == p[k - 1]
             t == ss[k]
  <2>1. Follows(u, s, t) /\ x \in Nat /\ x <= Len(u) /\ ~(x <= Len(s))
    BY <1>3, <1>6, <1>9, <1>10
  <2> HIDE DEF u, s, t
  <2>2. \E y \in 1..Len(t) : x = Len(s) + y
    BY ONLY <2>1, BehindIs
  <2> QED
    BY <2>2 DEF u, s, t
<1> QED
  BY ONLY <1>8, <1>11

\* The x-th element of the whole is one of the k-th sequence.
Within(p, k, x) == Len(p[k - 1]) < x /\ x <= Len(p[k])
Element(ss, p, k, x) ==
  Within(p, k, x) /\ \E y \in 1..Len(ss[k]) : FlattenSeq(ss)[x] = ss[k][y]

\* Whatever stands in the whole is an element of one of the sequences, within it.
LEMMA JoinedElement ==
  ASSUME NEW A, NEW ss \in Seq(Seq(A)), NEW p, Joined(A, ss, p),
         NEW x \in 1..Len(FlattenSeq(ss))
  PROVE  \E k \in 1..Len(ss) : Element(ss, p, k, x)
<1>1. PICK k \in 1..Len(ss) : \E y \in 1..Len(ss[k]) : x = Len(p[k - 1]) + y
  BY JoinedFrom
<1>2. PICK y \in 1..Len(ss[k]) : x = Len(p[k - 1]) + y
  BY <1>1
<1>3. Follows(p[k], p[k - 1], ss[k])
  BY JoinedStep
<1> DEFINE s == p[k - 1]
           t == ss[k]
           u == p[k]
<1>4. Follows(u, s, t) /\ x = Len(s) + y /\ y \in 1..Len(t)
  BY <1>2, <1>3
<1>5. FlattenSeq(ss)[Len(p[k - 1]) + y] = ss[k][y]
  BY JoinedPlace
<1> HIDE DEF s, t, u
<1>6. Len(s) < x /\ x <= Len(u)
  BY ONLY <1>4 DEF Follows
<1>7. Within(p, k, x)
  BY <1>6 DEF Within, s, u
<1> QED
  BY <1>2, <1>5, <1>7 DEF Element

\* Whatever stands in the whole is within one of the sequences.
LEMMA JoinedWithin ==
  ASSUME NEW A, NEW ss \in Seq(Seq(A)), NEW p, Joined(A, ss, p),
         NEW x \in 1..Len(FlattenSeq(ss))
  PROVE  \E k \in 1..Len(ss) : Within(p, k, x)
<1>1. \E k \in 1..Len(ss) : Element(ss, p, k, x)
  BY JoinedElement
<1> QED
  BY <1>1 DEF Element
-----------------------------------------------------------------------------
(* Select *)

\* p has what is kept of the first k elements.
Kept(A, s, S, p) ==
  /\ p \in [0..Len(s) -> Seq(A)]
  /\ p[0] = <<>>
  /\ \A k \in 1..Len(s) : p[k] = IF s[k] \in S THEN Append(p[k - 1], s[k]) ELSE p[k - 1]
  /\ p[Len(s)] = Select(s, S)

\* Select goes through the sequence once.
LEMMA SelectKeeps ==
  ASSUME NEW A, NEW s \in Seq(A), NEW S
  PROVE  \E p : Kept(A, s, S, p)
<1> DEFINE N == Len(s)
           Next(q, k) == IF s[k] \in S THEN Append(q, s[k]) ELSE q
           Solves(f, n) == f = [k \in 0..n |-> IF k = 0 THEN <<>> ELSE Next(f[k - 1], k)]
           T == {n \in 0..N : \E f : f \in [0..n -> Seq(A)] /\ Solves(f, n)}
<1>1. N \in Nat /\ \A k \in 1..N : s[k] \in A
  OBVIOUS
<1>2. ASSUME NEW q \in Seq(A), NEW k \in 1..N PROVE Next(q, k) \in Seq(A)
  <2>1. s[k] \in A
    BY <1>1
  <2> QED
    BY <2>1
<1> HIDE DEF Next
<1>3. 0 \in T
  <2> DEFINE f == [k \in 0..0 |-> <<>>]
  <2>1. f \in [0..0 -> Seq(A)] /\ Solves(f, 0)
    OBVIOUS
  <2>2. 0 \in 0..N
    BY <1>1
  <2> HIDE DEF f, Solves
  <2> QED
    BY <2>1, <2>2
<1>4. ASSUME NEW n \in 0..N - 1, n \in T PROVE n + 1 \in T
  <2>1. PICK f : f \in [0..n -> Seq(A)] /\ Solves(f, n)
    BY <1>4
  <2> DEFINE g == [k \in 0..n + 1 |-> IF k \in 0..n THEN f[k] ELSE Next(f[n], n + 1)]
  <2>2. Next(f[n], n + 1) \in Seq(A)
    <3>1. f[n] \in Seq(A) /\ n + 1 \in 1..N
      BY <1>1, <2>1
    <3> QED
      BY ONLY <3>1, <1>2
  <2>3. g \in [0..n + 1 -> Seq(A)]
    BY <2>1, <2>2
  <2>4. ASSUME NEW k \in 0..n + 1
        PROVE  g[k] = IF k = 0 THEN <<>> ELSE Next(g[k - 1], k)
    <3>1. CASE k \in 0..n
      <4>1. f[k] = IF k = 0 THEN <<>> ELSE Next(f[k - 1], k)
        BY <2>1, <3>1
      <4>2. k # 0 => k - 1 \in 0..n /\ k - 1 \in 0..n + 1
        BY <3>1
      <4> QED
        BY <4>1, <4>2, <3>1
    <3>2. CASE k = n + 1
      <4>1. k \notin 0..n /\ k # 0 /\ k - 1 = n /\ n \in 0..n /\ n \in 0..n + 1
        BY <3>2
      <4>2. g[k] = Next(f[n], k) /\ g[k - 1] = f[n]
        BY <4>1, <3>2
      <4> QED
        BY <4>1, <4>2
    <3> QED
      BY <3>1, <3>2
  <2>5. Solves(g, n + 1)
    BY <2>4
  <2>6. n + 1 \in 0..N
    OBVIOUS
  <2> HIDE DEF g, Solves
  <2> QED
    BY <2>3, <2>5, <2>6
<1>5. 0..N \subseteq T
  <2> HIDE DEF T
  <2> QED
    BY <1>1, <1>3, <1>4, InductionUpTo
<1>6. PICK f : f \in [0..N -> Seq(A)] /\ Solves(f, N)
  <2>1. N \in T
    <3> HIDE DEF T
    <3> QED
      BY <1>5, <1>1
  <2> QED
    BY <2>1
<1> DEFINE c == CHOOSE g : Solves(g, N)
<1>7. Solves(c, N)
  <2> HIDE DEF Solves
  <2> QED
    BY <1>6
<1>8. Select(s, S) = c[N]
  BY DEF Select, Next
<1> HIDE DEF c
<1>9. /\ c[0] = <<>>
      /\ \A k \in 1..N : c[k] = Next(c[k - 1], k)
  BY <1>7, <1>1
<1> DEFINE V == {n \in 0..N : c[n] \in Seq(A)}
<1>10. 0..N \subseteq V
  <2>1. 0 \in V
    <3>1. <<>> \in Seq(A) /\ 0 \in 0..N
      BY <1>1
    <3> QED
      BY ONLY <3>1, <1>9
  <2>2. ASSUME NEW n \in 0..N - 1, n \in V PROVE n + 1 \in V
    <3>1. n + 1 \in 1..N /\ n + 1 - 1 = n /\ c[n] \in Seq(A) /\ n + 1 \in 0..N
      BY <2>2
    <3>2. c[n + 1] = Next(c[n], n + 1)
      BY ONLY <1>9, <3>1
    <3>3. c[n + 1] \in Seq(A)
      BY ONLY <3>1, <3>2, <1>2
    <3> QED
      BY <3>1, <3>3
  <2> HIDE DEF V
  <2> QED
    BY <2>1, <2>2, <1>1, InductionUpTo
<1> DEFINE p == [k \in 0..N |-> c[k]]
<1>11. p \in [0..N -> Seq(A)] /\ p[0] = <<>> /\ p[N] = Select(s, S)
  BY <1>8, <1>9, <1>10, <1>1
<1>12. ASSUME NEW k \in 1..N PROVE p[k] = Next(p[k - 1], k)
  BY <1>9
<1> HIDE DEF p
<1> QED
  BY <1>11, <1>12 DEF Kept, Next

\* t has the elements of the first n of s that are in S, in their order: its
\* k-th is the g[k]-th of s.
Picked(s, S, n, t, g) ==
  /\ Len(t) \in 0..n
  /\ \A k \in 1..Len(t) : g[k] \in 1..n /\ t[k] = s[g[k]] /\ t[k] \in S
  /\ \A k \in 1..Len(t), j \in 1..Len(t) : j < k => g[j] < g[k]
  /\ \A x \in 1..n : s[x] \in S => \E k \in 1..Len(t) : x = g[k]

\* One more element of s is the last of t or nothing.
LEMMA PickedNext ==
  ASSUME NEW A, NEW s \in Seq(A), NEW S, NEW n \in 0..Len(s) - 1, NEW t \in Seq(A),
         NEW g, Picked(s, S, n, t, g)
  PROVE  /\ s[n + 1] \notin S => Picked(s, S, n + 1, t, g)
         /\ s[n + 1] \in S => \E h : Picked(s, S, n + 1, Append(t, s[n + 1]), h)
<1> DEFINE m == Len(t)
           e == s[n + 1]
           u == Append(t, e)
           h == [k \in 1..m + 1 |-> IF k = m + 1 THEN n + 1 ELSE g[k]]
<1>1. n \in Nat /\ m \in Nat /\ e \in A
  OBVIOUS
<1>2. Len(u) = m + 1 /\ u[m + 1] = e /\ \A k \in 1..m : u[k] = t[k]
  <2>1. t \in Seq(A) /\ e \in A
    BY <1>1
  <2> QED
    BY ONLY <2>1, AppendProperties
<1> HIDE DEF m, e, u
<1>3. /\ m <= n
      /\ \A k \in 1..m : g[k] \in 1..n /\ t[k] = s[g[k]] /\ t[k] \in S
      /\ \A k \in 1..m, j \in 1..m : j < k => g[j] < g[k]
      /\ \A x \in 1..n : s[x] \in S => \E k \in 1..m : x = g[k]
  BY DEF Picked, m
<1>4. e \notin S => Picked(s, S, n + 1, t, g)
  <2> SUFFICES ASSUME e \notin S PROVE Picked(s, S, n + 1, t, g)
    OBVIOUS
  <2>1. m \in 0..n + 1
    BY ONLY <1>1, <1>3
  <2>2. \A k \in 1..m : g[k] \in 1..n + 1 /\ t[k] = s[g[k]] /\ t[k] \in S
    BY ONLY <1>1, <1>3
  <2>3. ASSUME NEW x \in 1..n + 1, s[x] \in S PROVE \E k \in 1..m : x = g[k]
    <3>1. x # n + 1
      BY <2>3 DEF e
    <3>2. x \in 1..n
      BY ONLY <3>1, <1>1, x \in 1..n + 1
    <3> QED
      BY <3>2, <1>3, <2>3
  <2> QED
    BY <1>3, <2>1, <2>2, <2>3 DEF Picked, m
<1>5. e \in S => Picked(s, S, n + 1, u, h)
  <2> SUFFICES ASSUME e \in S PROVE Picked(s, S, n + 1, u, h)
    OBVIOUS
  <2>1. h[m + 1] = n + 1 /\ \A k \in 1..m : h[k] = g[k]
    BY ONLY <1>1
  <2> HIDE DEF h
  <2>2. Len(u) \in 0..n + 1
    BY ONLY <1>1, <1>2, <1>3
  <2>3. ASSUME NEW k \in 1..m + 1
        PROVE  h[k] \in 1..n + 1 /\ u[k] = s[h[k]] /\ u[k] \in S
    <3>1. CASE k = m + 1
      BY ONLY <3>1, <2>1, <1>1, <1>2, e \in S DEF e
    <3>2. CASE k \in 1..m
      BY ONLY <3>2, <2>1, <1>1, <1>2, <1>3
    <3> QED
      BY <3>1, <3>2, <1>1
  <2>4. ASSUME NEW k \in 1..m + 1, NEW j \in 1..m + 1, j < k PROVE h[j] < h[k]
    <3>1. j \in 1..m /\ (k \in 1..m \/ k = m + 1)
      BY <1>1, <2>4
    <3>2. h[j] = g[j] /\ g[j] \in 1..n
      BY <3>1, <2>1, <1>3
    <3>3. CASE k = m + 1
      <4>1. h[k] = n + 1
        BY <3>3, <2>1
      <4> QED
        BY ONLY <3>2, <4>1, <1>1
    <3>4. CASE k \in 1..m
      <4>1. h[k] = g[k] /\ g[j] < g[k]
        BY <3>4, <3>1, <2>1, <2>4, <1>3
      <4> QED
        BY ONLY <3>2, <4>1
    <3> QED
      BY <3>1, <3>3, <3>4
  <2>5. ASSUME NEW x \in 1..n + 1, s[x] \in S PROVE \E k \in 1..m + 1 : x = h[k]
    <3>1. CASE x = n + 1
      <4>1. m + 1 \in 1..m + 1
        BY <1>1
      <4> QED
        BY <4>1, <3>1, <2>1
    <3>2. CASE x \in 1..n
      <4>1. PICK k \in 1..m : x = g[k]
        BY <3>2, <1>3, <2>5
      <4>2. k \in 1..m + 1 /\ h[k] = x
        BY <4>1, <2>1, <1>1
      <4> QED
        BY <4>2
    <3> QED
      BY <3>1, <3>2, <1>1
  <2> QED
    BY <1>2, <2>2, <2>3, <2>4, <2>5 DEF Picked
<1> HIDE DEF h
<1> QED
  BY <1>4, <1>5 DEF u, e

\* Select keeps what belongs to the set, all of it, in its order.
LEMMA SelectPicks ==
  ASSUME NEW A, NEW s \in Seq(A), NEW S
  PROVE  Select(s, S) \in Seq(A) /\ \E g : Picked(s, S, Len(s), Select(s, S), g)
<1>1. PICK p : Kept(A, s, S, p)
  BY SelectKeeps
<1> DEFINE N == Len(s)
           T == {n \in 0..N : \E g : Picked(s, S, n, p[n], g)}
<1>2. /\ N \in Nat /\ p \in [0..N -> Seq(A)] /\ p[0] = <<>> /\ p[N] = Select(s, S)
      /\ \A k \in 1..N : p[k] = IF s[k] \in S THEN Append(p[k - 1], s[k]) ELSE p[k - 1]
  BY <1>1 DEF Kept
<1>3. 0 \in T
  <2>1. Picked(s, S, 0, <<>>, <<>>)
    BY DEF Picked
  <2> QED
    BY <2>1, <1>2
<1>4. ASSUME NEW n \in 0..N - 1, n \in T PROVE n + 1 \in T
  <2>1. PICK g : Picked(s, S, n, p[n], g)
    BY <1>4
  <2>2. n + 1 \in 1..N /\ n + 1 \in 0..N /\ n + 1 - 1 = n /\ p[n] \in Seq(A)
    BY <1>2
  <2>3. p[n + 1] = IF s[n + 1] \in S THEN Append(p[n], s[n + 1]) ELSE p[n]
    BY ONLY <1>2, <2>2
  <2> DEFINE t == p[n]
  <2>4. t \in Seq(A) /\ Picked(s, S, n, t, g)
    BY <2>1, <2>2
  <2> HIDE DEF t
  <2>5. /\ s[n + 1] \notin S => Picked(s, S, n + 1, t, g)
        /\ s[n + 1] \in S => \E h : Picked(s, S, n + 1, Append(t, s[n + 1]), h)
    BY <2>4, PickedNext
  <2>6. \E h : Picked(s, S, n + 1, p[n + 1], h)
    BY <2>3, <2>5 DEF t
  <2> QED
    BY <2>2, <2>6
<1>5. 0..N \subseteq T
  <2> HIDE DEF T
  <2> QED
    BY <1>2, <1>3, <1>4, InductionUpTo
<1>6. N \in T
  <2> HIDE DEF T
  <2> QED
    BY <1>5, <1>2
<1> QED
  BY <1>6, <1>2

\* What Select returns has the elements of the sequence that are in the set.
LEMMA SelectIs ==
  ASSUME NEW A, NEW s \in Seq(A), NEW S
  PROVE  /\ Select(s, S) \in Seq(A)
         /\ Len(Select(s, S)) <= Len(s)
         /\ ToSet(Select(s, S)) = ToSet(s) \cap S
<1> DEFINE t == Select(s, S)
<1>1. t \in Seq(A) /\ \E g : Picked(s, S, Len(s), t, g)
  BY SelectPicks
<1>2. PICK g : Picked(s, S, Len(s), t, g)
  BY <1>1
<1> HIDE DEF t
<1>3. DOMAIN t = 1..Len(t) /\ DOMAIN s = 1..Len(s) /\ Len(s) \in Nat
  BY <1>1
<1>4. Len(t) <= Len(s)
  BY <1>2, <1>3 DEF Picked
<1>5. ToSet(t) \subseteq ToSet(s) \cap S
  BY ONLY <1>2, <1>3 DEF Picked, ToSet
<1>6. ASSUME NEW x \in 1..Len(s), s[x] \in S PROVE s[x] \in ToSet(t)
  <2>1. PICK k \in 1..Len(t) : x = g[k]
    BY <1>2, <1>6 DEF Picked
  <2>2. t[k] = s[x]
    BY <1>2, <2>1 DEF Picked
  <2> QED
    BY <2>2, <1>3 DEF ToSet
<1>7. ToSet(s) \cap S \subseteq ToSet(t)
  BY <1>3, <1>6 DEF ToSet
<1> QED
  BY <1>1, <1>4, <1>5, <1>7 DEF t

\* Select goes through one element more.
LEMMA SelectMore ==
  ASSUME NEW A, NEW s \in Seq(A), NEW x \in A, NEW S, NEW T,
         \A n \in 1..Len(s) : s[n] \in S <=> s[n] \in T
  PROVE  Select(Append(s, x), T) = IF x \in T THEN Append(Select(s, S), x) ELSE Select(s, S)
<1> DEFINE u == Append(s, x)
           N == Len(s)
<1>1. u \in Seq(A) /\ N \in Nat /\ Len(u) = N + 1 /\ u[N + 1] = x /\ \A n \in 1..N : u[n] = s[n]
  BY AppendProperties
<1> HIDE DEF u, N
<1>2. PICK p : Kept(A, s, S, p)
  BY SelectKeeps
<1>3. PICK q : Kept(A, u, T, q)
  BY <1>1, SelectKeeps
<1>4. /\ p[0] = <<>> /\ p[N] = Select(s, S)
      /\ \A k \in 1..N : p[k] = IF s[k] \in S THEN Append(p[k - 1], s[k]) ELSE p[k - 1]
  BY <1>2 DEF Kept, N
<1>5. /\ q[0] = <<>> /\ q[N + 1] = Select(u, T)
      /\ \A k \in 1..N + 1 : q[k] = IF u[k] \in T THEN Append(q[k - 1], u[k]) ELSE q[k - 1]
  BY <1>1, <1>3 DEF Kept
<1> DEFINE V == {n \in 0..N : p[n] = q[n]}
<1>6. 0 \in V
  BY <1>1, <1>4, <1>5
<1>7. ASSUME NEW n \in 0..N - 1, n \in V PROVE n + 1 \in V
  <2>1. n + 1 \in 1..N /\ n + 1 \in 1..N + 1 /\ n + 1 - 1 = n /\ n + 1 \in 0..N
    BY <1>1
  <2>2. p[n + 1] = IF s[n + 1] \in S THEN Append(p[n], s[n + 1]) ELSE p[n]
    BY ONLY <1>4, <2>1
  <2>3. q[n + 1] = IF u[n + 1] \in T THEN Append(q[n], u[n + 1]) ELSE q[n]
    BY ONLY <1>5, <2>1
  <2>4. u[n + 1] = s[n + 1] /\ (s[n + 1] \in S <=> s[n + 1] \in T)
    BY <1>1, <2>1 DEF N
  <2>5. p[n] = q[n]
    BY <1>7
  <2> QED
    BY <2>1, <2>2, <2>3, <2>4, <2>5
<1>8. 0..N \subseteq V
  <2> HIDE DEF V
  <2> QED
    BY <1>1, <1>6, <1>7, InductionUpTo
<1>9. p[N] = q[N]
  BY <1>8, <1>1
<1>10. q[N + 1] = IF u[N + 1] \in T THEN Append(q[N], u[N + 1]) ELSE q[N]
  <2>1. PICK m \in 1..N + 1 : m = N + 1 /\ m - 1 = N
    BY <1>1
  <2>2. q[m] = IF u[m] \in T THEN Append(q[m - 1], u[m]) ELSE q[m - 1]
    BY <1>5
  <2> QED
    BY ONLY <2>1, <2>2
<1>11. q[N + 1] = IF x \in T THEN Append(q[N], x) ELSE q[N]
  BY ONLY <1>1, <1>10
<1>12. Select(u, T) = IF x \in T THEN Append(Select(s, S), x) ELSE Select(s, S)
  BY ONLY <1>4, <1>5, <1>9, <1>11
<1> QED
  BY <1>12 DEF u

\* Places goes through the places of the sequence that are in the set.
LEMMA PlacesAre ==
  ASSUME NEW A, NEW s \in Seq(A), NEW S, NEW P, P = Places(s, S)
  PROVE  /\ P \in Seq(Nat) /\ Len(P) \in Nat /\ DOMAIN P = 1..Len(P)
         /\ \A k \in 1..Len(P) : P[k] \in 1..Len(s) /\ P[k] \in S
         /\ \A k \in 1..Len(P), j \in 1..Len(P) : j < k => P[j] < P[k]
         /\ \A x \in 1..Len(s) : x \in S => \E k \in 1..Len(P) : P[k] = x
<1> DEFINE n == Len(s)
           t == [x \in DOMAIN s |-> x]
<1>1. n \in Nat /\ DOMAIN s = 1..n
  OBVIOUS
<1>2. t \in Seq(Nat) /\ Len(t) = n /\ \A x \in 1..n : t[x] = x
  BY <1>1
<1>3. P = Select(t, S)
  BY DEF Places
<1> HIDE DEF t, n
<1>4. P \in Seq(Nat) /\ \E g : Picked(t, S, n, P, g)
  BY <1>2, <1>3, SelectPicks
<1>5. PICK g : Picked(t, S, n, P, g)
  BY <1>4
<1>6. Len(P) \in Nat /\ DOMAIN P = 1..Len(P)
  BY <1>4
<1>7. \A k \in 1..Len(P) : g[k] \in 1..n /\ P[k] = g[k] /\ P[k] \in S
  BY <1>2, <1>5 DEF Picked
<1>8. \A k \in 1..Len(P), j \in 1..Len(P) : j < k => P[j] < P[k]
  BY <1>5, <1>7 DEF Picked
<1>9. \A x \in 1..n : x \in S => \E k \in 1..Len(P) : P[k] = x
  BY <1>2, <1>5, <1>7 DEF Picked
<1> QED
  BY <1>4, <1>6, <1>7, <1>8, <1>9 DEF n
=============================================================================
