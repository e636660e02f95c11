-------------------------- MODULE InstrumentProofs --------------------------
(***************************************************************************)
(* Theorems about Instrument, for any functions, width and hash.           *)
(*                                                                         *)
(* The first half is about the form of the function: IndInv, and what the  *)
(* keys, the ids and the catalogue are (Invariance).                       *)
(*                                                                         *)
(* The second half, from `What one instruction does', is about what the    *)
(* function computes. A step of the pass makes a function c from b in      *)
(* which one instruction has become several (Grown). A run of c goes       *)
(* through the states of one of b (Agree), instruction by instruction, if  *)
(* the new ones together do what the one of b does (GroupWorks): then both *)
(* end alike (Simulated). Chains and choices of a constant do              *)
(* (ChainWorks, SelectWorks), whatever else is changed in both, if none of *)
(* their mutants is active, and with one of them active like the one of b  *)
(* with the change of the record. So by induction on the steps the         *)
(* function keeps computing what its source does, with any one instruction *)
(* changed and any mutant active but its own (Alike), and with one of its  *)
(* own what the source with that mutant's change does (OneEach): Behaves.  *)
(***************************************************************************)
EXTENDS Instrument, SequenceLemmas

(* The inductive invariant *)

Fields == {"name", "op", "args", "ty", "blk", "line", "fnLine", "file"}
IsInstruction(I) == I = [f \in Fields |-> I[f]]
IsList(s) == Len(s) \in Nat /\ s = [k \in 1..Len(s) |-> s[k]]

\* The j-th instruction of b has the name n.
Named(b, n, j) == j \in 1..Len(b) /\ b[j].name = n

\* The values that an instruction uses are made before the place i.
MadeBefore(b, I, i) ==
  \A a \in DOMAIN I.args :
    I.args[a][1] = "val" => \E j \in 1..i - 1 : Named(b, I.args[a][2], j)

\* A function whose names are the numbers up to its length, each once.
Layout(b) ==
  /\ IsList(b)
  /\ \A i \in 1..Len(b) :
       /\ IsInstruction(b[i]) /\ b[i].name \in 1..Len(b)
       /\ \A j \in 1..Len(b) : b[i].name = b[j].name => i = j
       /\ MadeBefore(b, b[i], i)
  /\ \A n \in 1..Len(b) : \E i \in 1..Len(b) : Named(b, n, i)

\* The sites wait in layout order, and are what they were.
Sites(b, names) ==
  /\ IsList(names)
  /\ \A k \in 1..Len(names) :
       /\ names[k] \in 1..Len(b)
       /\ \A j \in 1..k - 1 : At(b, names[j]) < At(b, names[k])
Comparisons(b, names) == \A k \in 1..Len(names) : Ins(b, names[k]).op \in CmpOps
LiteralSites(b, sites) ==
  /\ IsList(sites)
  /\ \A k \in 1..Len(sites) :
       /\ sites[k][1] \in 1..Len(b) /\ Ins(b, sites[k][1]).op \in CmpOps \union {"ret"}
       /\ sites[k][2] \in DOMAIN Ins(b, sites[k][1]).args
       /\ \A j \in 1..k - 1 : At(b, sites[j][1]) <= At(b, sites[k][1])

\* The ordinals of the mutants of a loop are below those of the sites that wait.
BinKinds == {"AOR", "LCR", "BOR"}
Passed(rs, b, kinds, name) ==
  \A r \in 1..Len(rs) : rs[r].key[3] \in kinds => rs[r].key[2] \in 0..instOrdinal(b, name) - 1
Awaited(rs, b, kinds, names) == \A k \in 1..Len(names) : Passed(rs, b, kinds, names[k])
LiteralsAwaited(rs, b, sites) == \A k \in 1..Len(sites) : Passed(rs, b, {"LVR"}, sites[k][1])

\* The calls of the runtime have an id as their argument.
Call == "mulation_active"
CallsHaveIds(b) ==
  \A i \in 1..Len(b) : b[i].op = Call => \E x : b[i].args = <<<<"int", x>>>>
CalledIds(b) == {b[i].args[1][2] : i \in {j \in 1..Len(b) : b[j].op = Call}}
Ids(rs) == {rs[r].id : r \in 1..Len(rs)}
Distinct(rs) == \A i, j \in 1..Len(rs) : i # j => rs[i].key # rs[j].key

\* How the function b, the records rs and the sites that wait fit together.
Consistent(b, rs, bs, cs, ls) ==
  /\ Layout(b) /\ CallsHaveIds(b) /\ CalledIds(b) = Ids(rs)
  /\ IsList(rs) /\ Distinct(rs)
  /\ Sites(b, bs) /\ Awaited(rs, b, BinKinds, bs)
  /\ Sites(b, cs) /\ Awaited(rs, b, {"ROR"}, cs) /\ Comparisons(b, cs)
  /\ LiteralSites(b, ls) /\ LiteralsAwaited(rs, b, ls)

Steps ==
  /\ source \in Sources /\ phase \in {"collect", "insert", "done"}
  /\ phase = "collect" => body = source /\ recs = <<>>
  /\ phase # "insert" => bins = <<>> /\ cmps = <<>> /\ lits = <<>>
  /\ phase # "done" => catalog = <<>>
  /\ phase = "done" => catalog = recs

IndInv == Steps /\ Consistent(body, recs, bins, cmps, lits)
-----------------------------------------------------------------------------
(* Lists *)

\* A list is a sequence over any set that has its elements.
LEMMA ListIsSeq ==
  ASSUME NEW s, IsList(s)
  PROVE  /\ DOMAIN s = 1..Len(s) /\ Len(s) \in Nat
         /\ \A S : (\A k \in 1..Len(s) : s[k] \in S) => s \in Seq(S)
<1> DEFINE n == Len(s)
<1>1. n \in Nat /\ s = [k \in 1..n |-> s[k]]
  BY DEF IsList
<1> HIDE DEF n
<1>2. DOMAIN s = 1..n
  BY <1>1
<1>3. ASSUME NEW S, \A k \in 1..n : s[k] \in S PROVE s \in Seq(S)
  <2>1. [k \in 1..n |-> s[k]] \in Seq(S)
    BY <1>1, <1>3
  <2> QED
    BY <2>1, <1>1
<1> QED
  BY <1>1, <1>2, <1>3 DEF n

\* A sequence of any elements is a list.
LEMMA SeqIsList == ASSUME NEW A, NEW s \in Seq(A) PROVE IsList(s)
BY DEF IsList

\* Two lists one behind the other.
LEMMA ListsJoin ==
  ASSUME NEW s, NEW t, IsList(s), IsList(t)
  PROVE  IsList(s \o t) /\ Follows(s \o t, s, t)
<1> DEFINE A == {s[k] : k \in 1..Len(s)} \union {t[k] : k \in 1..Len(t)}
<1>1. (\A k \in 1..Len(s) : s[k] \in A) /\ (\A k \in 1..Len(t) : t[k] \in A)
  OBVIOUS
<1> HIDE DEF A
<1>2. s \in Seq(A) /\ t \in Seq(A)
  BY <1>1, ListIsSeq
<1>3. s \o t \in Seq(A) /\ Follows(s \o t, s, t)
  BY <1>2, ConcatFollows
<1> QED
  BY <1>3, SeqIsList

\* A part of a list.
LEMMA PartIs ==
  ASSUME NEW s, IsList(s), NEW m \in Nat, NEW n \in Nat, 1 <= m, m <= n + 1, n <= Len(s)
  PROVE  /\ IsList(SubSeq(s, m, n)) /\ Len(SubSeq(s, m, n)) = n - m + 1
         /\ \A k \in 1..n - m + 1 : SubSeq(s, m, n)[k] = s[m + k - 1]
<1> DEFINE A == {s[k] : k \in 1..Len(s)}
           u == SubSeq(s, m, n)
<1>1. \A k \in 1..Len(s) : s[k] \in A
  OBVIOUS
<1>2. Len(s) \in Nat
  BY DEF IsList
<1> HIDE DEF A
<1>3. s \in Seq(A)
  BY <1>1, ListIsSeq
<1>4. u \in Seq(A) /\ Len(u) = n - m + 1 /\ \A k \in 1..n - m + 1 : u[k] = s[m + k - 1]
  BY <1>2, <1>3, SubSeqProperties
<1> QED
  BY <1>4, SeqIsList

\* c is b with a list put in before the i-th place.
Spliced(b, i, new, c) ==
  /\ IsList(c) /\ Len(c) = Len(b) + Len(new)
  /\ \A j \in 1..i - 1 : c[j] = b[j]
  /\ \A x \in 1..Len(new) : c[i - 1 + x] = new[x]
  /\ \A j \in i..Len(b) : c[j + Len(new)] = b[j]

\* What Splice does.
LEMMA SpliceIs ==
  ASSUME NEW b, NEW new, IsList(b), IsList(new), NEW i \in 1..Len(b) + 1
  PROVE  Spliced(b, i, new, Splice(b, i, new))
<1> DEFINE s == SubSeq(b, 1, i - 1)
           t == SubSeq(b, i, Len(b))
           sn == s \o new
           c == sn \o t
           n == Len(b)
           d == Len(new)
<1>1. n \in Nat /\ d \in Nat /\ i \in Nat /\ i >= 1 /\ i <= n + 1
  BY DEF IsList
<1>2. i - 1 \in Nat /\ 1 <= i - 1 + 1 /\ i - 1 <= n
  BY <1>1
<1>3. IsList(s) /\ Len(s) = i - 1 /\ \A k \in 1..i - 1 : s[k] = b[k]
  <2>1. /\ IsList(s) /\ Len(s) = (i - 1) - 1 + 1
        /\ \A k \in 1..(i - 1) - 1 + 1 : s[k] = b[1 + k - 1]
    BY <1>1, <1>2, PartIs
  <2> HIDE DEF s
  <2> QED
    BY <2>1, <1>1
<1>4. IsList(t) /\ Len(t) = n - i + 1 /\ \A k \in 1..n - i + 1 : t[k] = b[i + k - 1]
  BY <1>1, PartIs
<1> HIDE DEF s, t
<1>5. IsList(sn) /\ Follows(sn, s, new)
  BY <1>3, ListsJoin
<1> HIDE DEF sn
<1>6. IsList(c) /\ Follows(c, sn, t)
  BY <1>4, <1>5, ListsJoin
<1>7. Splice(b, i, new) = c
  BY DEF Splice, s, t, sn
<1> HIDE DEF c, n, d
<1>8. Len(sn) = i - 1 + d /\ Len(c) = n + d
  <2>1. Len(sn) = Len(s) + Len(new) /\ Len(c) = Len(sn) + Len(t)
    BY ONLY <1>5, <1>6 DEF Follows
  <2> QED
    BY ONLY <2>1, <1>1, <1>3, <1>4 DEF d
<1>9. ASSUME NEW j \in 1..i - 1 PROVE c[j] = b[j]
  <2>1. j \in 1..Len(s) /\ j \in 1..Len(sn)
    BY ONLY <1>1, <1>3, <1>8, j \in 1..i - 1
  <2>2. c[j] = sn[j] /\ sn[j] = s[j]
    BY ONLY <2>1, <1>5, <1>6 DEF Follows
  <2> QED
    BY <2>2, <1>3
<1>10. ASSUME NEW x \in 1..d PROVE c[i - 1 + x] = new[x]
  <2>1. x \in 1..Len(new) /\ i - 1 + x \in 1..Len(sn) /\ i - 1 + x = Len(s) + x
    BY <1>1, <1>3, <1>8 DEF d
  <2>2. sn[Len(s) + x] = new[x]
    BY ONLY <2>1, <1>5 DEF Follows
  <2>3. c[i - 1 + x] = sn[i - 1 + x]
    BY ONLY <2>1, <1>6 DEF Follows
  <2> QED
    BY <2>1, <2>2, <2>3
<1>11. ASSUME NEW j \in i..n PROVE c[j + d] = b[j]
  <2> DEFINE k == j - i + 1
  <2>1. k \in 1..n - i + 1 /\ k \in 1..Len(t) /\ Len(sn) + k = j + d /\ i + k - 1 = j
    BY ONLY <1>1, <1>4, <1>8, j \in i..n
  <2> HIDE DEF k
  <2>2. c[Len(sn) + k] = t[k]
    BY ONLY <2>1, <1>6 DEF Follows
  <2>3. t[k] = b[i + k - 1]
    BY ONLY <2>1, <1>4
  <2> QED
    BY <2>1, <2>2, <2>3
<1> QED
  BY <1>6, <1>7, <1>8, <1>9, <1>10, <1>11 DEF Spliced, n, d
-----------------------------------------------------------------------------
(* Layouts *)

\* At finds the one instruction that has the name.
LEMMA AtIs ==
  ASSUME NEW b, Layout(b), NEW n \in 1..Len(b)
  PROVE  Named(b, n, At(b, n))
<1>1. \E j \in DOMAIN b : b[j].name = n
  <2>1. DOMAIN b = 1..Len(b)
    BY ListIsSeq DEF Layout
  <2> QED
    BY <2>1 DEF Layout, Named
<1>2. At(b, n) \in DOMAIN b /\ b[At(b, n)].name = n
  BY <1>1 DEF At
<1>3. DOMAIN b = 1..Len(b)
  BY ListIsSeq DEF Layout
<1> QED
  BY <1>2, <1>3 DEF Named

\* At finds what has the name, and nothing without a name is there.
LEMMA AtIsOnly ==
  ASSUME NEW b, Layout(b), NEW n, NEW j, Named(b, n, j)
  PROVE  n \in 1..Len(b) /\ At(b, n) = j
<1>1. n \in 1..Len(b)
  BY DEF Layout, Named
<1>2. Named(b, n, At(b, n))
  BY <1>1, AtIs
<1> QED
  BY <1>1, <1>2 DEF Layout, Named

\* The place that the j-th instruction gets when d are put in before the i-th.
Place(i, d, j) == IF j < i THEN j ELSE j + d

\* c has the instructions of b, with the same names and operators, and d more.
Moved(b, c, i, d) ==
  /\ Layout(c) /\ d \in Nat /\ i \in Nat /\ Len(c) = Len(b) + d
  /\ \A j \in 1..Len(b) :
       /\ Place(i, d, j) \in 1..Len(c)
       /\ c[Place(i, d, j)].name = b[j].name /\ c[Place(i, d, j)].op = b[j].op
       /\ DOMAIN c[Place(i, d, j)].args = DOMAIN b[j].args

\* J can be the x-th of new instructions before the i-th place.
NewFits(b, i, J, x) ==
  /\ IsInstruction(J) /\ J.name = Len(b) + x
  /\ \A a \in DOMAIN J.args :
       J.args[a][1] = "val" =>
         \/ \E k \in 1..i - 1 : Named(b, J.args[a][2], k)
         \/ \E y \in 1..x - 1 : J.args[a][2] = Len(b) + y

\* rb is b but for operands, and new instructions go before its i-th: everything
\* still uses what stands before it.
Fits(b, rb, i, new) ==
  /\ IsList(rb) /\ Len(rb) = Len(b) /\ IsList(new) /\ i \in 1..Len(b) + 1
  /\ \A j \in 1..Len(b) :
       /\ IsInstruction(rb[j]) /\ rb[j].name = b[j].name /\ rb[j].op = b[j].op
       /\ DOMAIN rb[j].args = DOMAIN b[j].args
       /\ \A a \in DOMAIN rb[j].args :
            rb[j].args[a][1] = "val" =>
              \/ \E k \in 1..j - 1 : Named(b, rb[j].args[a][2], k)
              \/ j >= i /\ \E x \in 1..Len(new) : rb[j].args[a][2] = Len(b) + x
  /\ \A x \in 1..Len(new) : NewFits(b, i, new[x], x)

\* The t-th place is one of what was there, or of what is new.
Placed(n, d, i, t) ==
  (\E j \in 1..n : t = Place(i, d, j)) \/ (\E x \in 1..d : t = i - 1 + x)

\* The places of what was there and of what is new, in the spliced function.
LEMMA SplicedPlaces ==
  ASSUME NEW b, Layout(b), NEW rb, NEW new, NEW i, Fits(b, rb, i, new),
         NEW c, Spliced(rb, i, new, c)
  PROVE  /\ Len(new) \in Nat /\ Len(b) \in Nat /\ i \in Nat /\ i >= 1 /\ i <= Len(b) + 1
         /\ IsList(c) /\ Len(c) = Len(b) + Len(new)
         /\ \A j \in 1..Len(b) :
              Place(i, Len(new), j) \in 1..Len(c) /\ c[Place(i, Len(new), j)] = rb[j]
         /\ \A x \in 1..Len(new) : i - 1 + x \in 1..Len(c) /\ c[i - 1 + x] = new[x]
         /\ \A t \in 1..Len(c) : Placed(Len(b), Len(new), i, t)
<1> DEFINE n == Len(b)
           d == Len(new)
<1>1. n \in Nat /\ d \in Nat /\ i \in Nat /\ i >= 1 /\ i <= n + 1 /\ Len(rb) = n
  BY DEF Fits, Layout, IsList
<1>2. /\ IsList(c) /\ Len(c) = n + d
      /\ \A j \in 1..i - 1 : c[j] = rb[j]
      /\ \A x \in 1..d : c[i - 1 + x] = new[x]
      /\ \A j \in i..n : c[j + d] = rb[j]
  BY <1>1 DEF Spliced
<1> HIDE DEF n, d
<1>3. ASSUME NEW j \in 1..n PROVE Place(i, d, j) \in 1..Len(c) /\ c[Place(i, d, j)] = rb[j]
  <2>1. CASE j < i
    <3>1. Place(i, d, j) = j /\ j \in 1..i - 1 /\ j \in 1..n + d
      BY <2>1, <1>1 DEF Place
    <3> QED
      BY <3>1, <1>2
  <2>2. CASE ~(j < i)
    <3>1. Place(i, d, j) = j + d /\ j \in i..n /\ j + d \in 1..n + d
      BY <2>2, <1>1 DEF Place
    <3> QED
      BY <3>1, <1>2
  <2> QED
    BY <2>1, <2>2
<1>4. ASSUME NEW x \in 1..d PROVE i - 1 + x \in 1..Len(c) /\ c[i - 1 + x] = new[x]
  <2>1. i - 1 + x \in 1..n + d
    BY <1>1
  <2> QED
    BY <2>1, <1>2
<1>5. ASSUME NEW t \in 1..Len(c) PROVE Placed(n, d, i, t)
  <2> USE DEF Placed
  <2>1. t \in 1..n + d
    BY <1>2
  <2>2. CASE t < i
    <3>1. t \in 1..n /\ t = Place(i, d, t)
      BY <2>1, <2>2, <1>1 DEF Place
    <3> QED
      BY <3>1
  <2>3. CASE t >= i + d
    <3>1. t - d \in 1..n /\ t = Place(i, d, t - d)
      BY <2>1, <2>3, <1>1 DEF Place
    <3> QED
      BY <3>1
  <2>4. CASE t >= i /\ t < i + d
    <3>1. t - i + 1 \in 1..d /\ t = i - 1 + (t - i + 1)
      BY <2>1, <2>4, <1>1
    <3> QED
      BY <3>1
  <2> QED
    BY <2>1, <2>2, <2>3, <2>4, <1>1
<1> QED
  BY <1>1, <1>2, <1>3, <1>4, <1>5 DEF n, d

\* Places keep their order.
LEMMA PlaceGrows ==
  ASSUME NEW i \in Nat, NEW d \in Nat, NEW j \in Nat, NEW k \in Nat
  PROVE  /\ j < k => Place(i, d, j) < Place(i, d, k)
         /\ j <= k => Place(i, d, j) <= Place(i, d, k)
         /\ j <= Place(i, d, j) /\ Place(i, d, j) \in Nat
         /\ Place(i, d, j) = Place(i, d, k) => j = k
BY DEF Place

\* What fits keeps the layout.
LEMMA SplicedLayout ==
  ASSUME NEW b, Layout(b), NEW rb, NEW new, NEW i, Fits(b, rb, i, new),
         NEW c, Spliced(rb, i, new, c)
  PROVE  Moved(b, c, i, Len(new))
<1> DEFINE n == Len(b)
           d == Len(new)
           P(j) == Place(i, d, j)
<1>1. d \in Nat /\ n \in Nat /\ i \in Nat /\ i >= 1 /\ i <= n + 1 /\ IsList(c) /\ Len(c) = n + d
  BY SplicedPlaces
<1>2. \A j \in 1..n : P(j) \in 1..Len(c) /\ c[P(j)] = rb[j]
  BY SplicedPlaces
<1>3. \A x \in 1..d : i - 1 + x \in 1..Len(c) /\ c[i - 1 + x] = new[x]
  BY SplicedPlaces
<1>4. \A t \in 1..Len(c) :
        (\E j \in 1..n : t = P(j)) \/ (\E x \in 1..d : t = i - 1 + x)
  <2>1. \A t \in 1..Len(c) : Placed(Len(b), Len(new), i, t)
    BY SplicedPlaces
  <2> QED
    BY <2>1 DEF Placed
<1>5. \A j \in 1..n : IsInstruction(rb[j]) /\ rb[j].name = b[j].name /\ rb[j].op = b[j].op
  BY DEF Fits
<1>6. \A x \in 1..d : IsInstruction(new[x]) /\ new[x].name = n + x
  BY DEF Fits, NewFits
<1>7. /\ \A j \in 1..n : b[j].name \in 1..n
      /\ \A j, k \in 1..n : b[j].name = b[k].name => j = k
      /\ \A m \in 1..n : \E j \in 1..n : b[j].name = m
  BY DEF Layout, Named
<1>8. \A j, k \in 1..n : j < k => P(j) < P(k)
  BY <1>1, PlaceGrows
<1>9. \A m : \A j \in 1..n : Named(b, m, j) => Named(c, m, P(j))
  BY <1>2, <1>5 DEF Named
<1>10. \A x \in 1..d : Named(c, n + x, i - 1 + x)
  BY <1>3, <1>6 DEF Named
<1>11. \A j \in 1..n : j < i => P(j) = j
  BY DEF Place
<1>12. \A j \in 1..n : j >= i => P(j) = j + d
  BY <1>1 DEF Place
<1> HIDE DEF n, d, P
<1>13. ASSUME NEW t \in 1..Len(c) PROVE IsInstruction(c[t]) /\ c[t].name \in 1..Len(c)
  <2>1. CASE \E j \in 1..n : t = P(j)
    <3>1. PICK j \in 1..n : t = P(j)
      BY <2>1
    <3>2. c[t] = rb[j] /\ b[j].name \in 1..n
      BY <3>1, <1>2, <1>7
    <3> QED
      BY <3>2, <1>1, <1>5
  <2>2. CASE \E x \in 1..d : t = i - 1 + x
    <3>1. PICK x \in 1..d : t = i - 1 + x
      BY <2>2
    <3>2. c[t] = new[x]
      BY <3>1, <1>3
    <3> QED
      BY <3>2, <1>1, <1>6
  <2> QED
    BY <2>1, <2>2, <1>4
<1>14. ASSUME NEW t \in 1..Len(c), NEW u \in 1..Len(c), c[t].name = c[u].name PROVE t = u
  <2>1. CASE (\E j \in 1..n : t = P(j)) /\ (\E k \in 1..n : u = P(k))
    <3>1. PICK j \in 1..n : t = P(j)
      BY <2>1
    <3>2. PICK k \in 1..n : u = P(k)
      BY <2>1
    <3>3. c[t].name = b[j].name /\ c[u].name = b[k].name
      BY <3>1, <3>2, <1>2, <1>5
    <3> QED
      BY <3>1, <3>2, <3>3, <1>7, <1>14
  <2>2. CASE (\E x \in 1..d : t = i - 1 + x) /\ (\E y \in 1..d : u = i - 1 + y)
    <3>1. PICK x \in 1..d : t = i - 1 + x
      BY <2>2
    <3>2. PICK y \in 1..d : u = i - 1 + y
      BY <2>2
    <3>3. c[t].name = n + x /\ c[u].name = n + y
      BY <3>1, <3>2, <1>3, <1>6
    <3> QED
      BY <3>1, <3>2, <3>3, <1>1, <1>14
  <2>3. ASSUME NEW v \in 1..Len(c), NEW w \in 1..Len(c),
               \E j \in 1..n : v = P(j), \E x \in 1..d : w = i - 1 + x
        PROVE  c[v].name # c[w].name
    <3>1. PICK j \in 1..n : v = P(j)
      BY <2>3
    <3>2. PICK x \in 1..d : w = i - 1 + x
      BY <2>3
    <3>3. c[v].name = b[j].name /\ c[w].name = n + x
      BY <3>1, <3>2, <1>2, <1>3, <1>5, <1>6
    <3>4. b[j].name \in 1..n
      BY <1>7
    <3> QED
      BY <3>3, <3>4, <1>1
  <2> QED
    BY <2>1, <2>2, <2>3, <1>4, <1>14
<1>15. ASSUME NEW m \in 1..Len(c) PROVE \E t \in 1..Len(c) : Named(c, m, t)
  <2>1. CASE m <= n
    <3>1. m \in 1..n
      BY <2>1, <1>1
    <3>2. PICK j \in 1..n : b[j].name = m
      BY <3>1, <1>7
    <3>3. Named(c, m, P(j)) /\ P(j) \in 1..Len(c)
      BY <3>2, <1>2, <1>9 DEF Named, n
    <3> QED
      BY <3>3
  <2>2. CASE ~(m <= n)
    <3> DEFINE x == m - n
    <3>1. x \in 1..d /\ m = n + x
      BY <2>2, <1>1
    <3> HIDE DEF x
    <3>2. Named(c, n + x, i - 1 + x) /\ i - 1 + x \in 1..Len(c)
      BY <3>1, <1>3, <1>10
    <3> QED
      BY <3>1, <3>2
  <2> QED
    BY <2>1, <2>2
<1>16. ASSUME NEW t \in 1..Len(c) PROVE MadeBefore(c, c[t], t)
  <2> SUFFICES ASSUME NEW a \in DOMAIN c[t].args, c[t].args[a][1] = "val"
               PROVE  \E u \in 1..t - 1 : Named(c, c[t].args[a][2], u)
    BY DEF MadeBefore
  <2> DEFINE m == c[t].args[a][2]
  <2>1. CASE \E j \in 1..n : t = P(j)
    <3>1. PICK j \in 1..n : t = P(j)
      BY <2>1
    <3>2. c[t] = rb[j]
      BY <3>1, <1>2
    <3>3. (\E k \in 1..j - 1 : Named(b, m, k)) \/ (j >= i /\ \E x \in 1..d : m = n + x)
      BY <3>2 DEF Fits, n, d
    <3> HIDE DEF m
    <3>4. CASE \E k \in 1..j - 1 : Named(b, m, k)
      <4>1. PICK k \in 1..j - 1 : Named(b, m, k)
        BY <3>4
      <4>2. k \in 1..n /\ k < j
        BY <1>1
      <4>3. Named(c, m, P(k)) /\ P(k) < t /\ P(k) \in 1..Len(c)
        BY <4>1, <4>2, <3>1, <1>2, <1>8, <1>9
      <4>4. P(k) \in 1..t - 1
        BY <4>3, <1>1
      <4> QED
        BY <4>3, <4>4 DEF m
    <3>5. CASE j >= i /\ \E x \in 1..d : m = n + x
      <4>1. PICK x \in 1..d : m = n + x
        BY <3>5
      <4>2. Named(c, m, i - 1 + x)
        BY <4>1, <1>10
      <4>3. t = j + d
        BY <3>1, <3>5, <1>12
      <4>4. i - 1 + x \in 1..t - 1
        BY <3>5, <4>3, <1>1
      <4> QED
        BY <4>2, <4>4 DEF m
    <3> QED
      BY <3>3, <3>4, <3>5
  <2>2. CASE \E x \in 1..d : t = i - 1 + x
    <3>1. PICK x \in 1..d : t = i - 1 + x
      BY <2>2
    <3>2. c[t] = new[x]
      BY <3>1, <1>3
    <3>3. (\E k \in 1..i - 1 : Named(b, m, k)) \/ (\E y \in 1..x - 1 : m = n + y)
      <4>1. a \in DOMAIN new[x].args /\ new[x].args[a][1] = "val" /\ m = new[x].args[a][2]
        BY <3>2
      <4>2. \/ \E k \in 1..i - 1 : Named(b, new[x].args[a][2], k)
            \/ \E y \in 1..x - 1 : new[x].args[a][2] = n + y
        BY <4>1 DEF Fits, NewFits, n, d
      <4> QED
        BY <4>1, <4>2
    <3> HIDE DEF m
    <3>4. CASE \E k \in 1..i - 1 : Named(b, m, k)
      <4>1. PICK k \in 1..i - 1 : Named(b, m, k)
        BY <3>4
      <4>2. k \in 1..n /\ k < i /\ k \in 1..t - 1
        BY <3>1, <1>1
      <4>3. Named(c, m, k)
        BY <4>1, <4>2, <1>9, <1>11
      <4> QED
        BY <4>2, <4>3 DEF m
    <3>5. CASE \E y \in 1..x - 1 : m = n + y
      <4>1. PICK y \in 1..x - 1 : m = n + y
        BY <3>5
      <4>2. y \in 1..d /\ i - 1 + y \in 1..t - 1
        BY <3>1, <1>1
      <4>3. Named(c, m, i - 1 + y)
        BY <4>1, <4>2, <1>10
      <4> QED
        BY <4>2, <4>3 DEF m
    <3> QED
      BY <3>3, <3>4, <3>5
  <2> QED
    BY <2>1, <2>2, <1>4
<1>17. Layout(c)
  BY <1>1, <1>13, <1>14, <1>15, <1>16 DEF Layout
<1>18. \A j \in 1..n :
         /\ P(j) \in 1..Len(c) /\ c[P(j)].name = b[j].name /\ c[P(j)].op = b[j].op
         /\ DOMAIN c[P(j)].args = DOMAIN b[j].args
  <2>1. \A j \in 1..n : DOMAIN rb[j].args = DOMAIN b[j].args
    BY DEF Fits, n
  <2> QED
    BY <2>1, <1>2, <1>5
<1> QED
  BY <1>1, <1>17, <1>18 DEF Moved, n, d, P

\* Every instruction is still found, at its moved place.
LEMMA MovedAt ==
  ASSUME NEW b, Layout(b), NEW c, NEW i, NEW d, Moved(b, c, i, d), NEW n \in 1..Len(b)
  PROVE  /\ n \in 1..Len(c) /\ Ins(c, n).op = Ins(b, n).op
         /\ DOMAIN Ins(c, n).args = DOMAIN Ins(b, n).args
         /\ At(b, n) \in 1..Len(b) /\ At(c, n) = Place(i, d, At(b, n))
<1> DEFINE j == At(b, n)
           t == Place(i, d, j)
<1>1. j \in 1..Len(b) /\ b[j].name = n
  BY AtIs DEF Named
<1> HIDE DEF j
<1>2. t \in 1..Len(c) /\ c[t].name = n /\ c[t].op = b[j].op /\ DOMAIN c[t].args = DOMAIN b[j].args
  BY <1>1 DEF Moved
<1> HIDE DEF t
<1>3. Layout(c) /\ Named(c, n, t)
  BY <1>2 DEF Moved, Named
<1>4. n \in 1..Len(c) /\ At(c, n) = t
  BY <1>3, AtIsOnly
<1>5. Ins(c, n) = c[t] /\ Ins(b, n) = b[j]
  BY <1>4 DEF Ins, j
<1> QED
  BY <1>1, <1>2, <1>4, <1>5 DEF j, t

\* Places in the order of b are in this order in c, and not before.
LEMMA MovedOrder ==
  ASSUME NEW b, Layout(b), NEW c, NEW i, NEW d, Moved(b, c, i, d),
         NEW m \in 1..Len(b), NEW n \in 1..Len(b)
  PROVE  /\ At(b, m) < At(b, n) => At(c, m) < At(c, n)
         /\ At(b, m) <= At(b, n) => At(c, m) <= At(c, n)
         /\ At(b, n) <= At(c, n) /\ At(b, n) \in Nat /\ At(c, n) \in Nat
<1>1. /\ At(b, m) \in 1..Len(b) /\ At(c, m) = Place(i, d, At(b, m))
      /\ At(b, n) \in 1..Len(b) /\ At(c, n) = Place(i, d, At(b, n))
  BY MovedAt
<1>2. i \in Nat /\ d \in Nat /\ At(b, m) \in Nat /\ At(b, n) \in Nat
  BY <1>1 DEF Moved
<1> DEFINE j == At(b, m)
           k == At(b, n)
<1>3. j \in Nat /\ k \in Nat /\ At(c, m) = Place(i, d, j) /\ At(c, n) = Place(i, d, k)
  BY <1>1, <1>2
<1> HIDE DEF j, k
<1>4. /\ j < k => Place(i, d, j) < Place(i, d, k)
      /\ j <= k => Place(i, d, j) <= Place(i, d, k)
      /\ k <= Place(i, d, k) /\ Place(i, d, k) \in Nat
  BY <1>2, <1>3, PlaceGrows
<1> QED
  BY <1>3, <1>4 DEF j, k

\* Sites that wait stay what they are.
LEMMA SitesMove ==
  ASSUME NEW b, Layout(b), NEW c, NEW i, NEW d, Moved(b, c, i, d), NEW names, Sites(b, names)
  PROVE  /\ Sites(c, names)
         /\ Comparisons(b, names) => Comparisons(c, names)
<1>1. /\ IsList(names) /\ Len(names) \in Nat
      /\ \A k \in 1..Len(names) : names[k] \in 1..Len(b)
      /\ \A k \in 1..Len(names), j \in 1..Len(names) : j < k => At(b, names[j]) < At(b, names[k])
  BY DEF Sites, IsList
<1>2. \A k \in 1..Len(names) : names[k] \in 1..Len(c) /\ Ins(c, names[k]).op = Ins(b, names[k]).op
  BY <1>1, MovedAt
<1>3. ASSUME NEW k \in 1..Len(names), NEW j \in 1..k - 1
      PROVE  At(c, names[j]) < At(c, names[k])
  <2>1. j \in 1..Len(names) /\ j < k
    BY <1>1
  <2>2. names[j] \in 1..Len(b) /\ names[k] \in 1..Len(b) /\ At(b, names[j]) < At(b, names[k])
    BY <1>1, <2>1
  <2> QED
    BY <2>2, MovedOrder
<1> QED
  BY <1>1, <1>2, <1>3 DEF Sites, Comparisons

\* So do constants that wait.
LEMMA LiteralSitesMove ==
  ASSUME NEW b, Layout(b), NEW c, NEW i, NEW d, Moved(b, c, i, d),
         NEW sites, LiteralSites(b, sites)
  PROVE  LiteralSites(c, sites)
<1>1. /\ IsList(sites) /\ Len(sites) \in Nat
      /\ \A k \in 1..Len(sites) :
           /\ sites[k][1] \in 1..Len(b) /\ Ins(b, sites[k][1]).op \in CmpOps \union {"ret"}
           /\ sites[k][2] \in DOMAIN Ins(b, sites[k][1]).args
      /\ \A k \in 1..Len(sites), j \in 1..Len(sites) :
           j < k => At(b, sites[j][1]) <= At(b, sites[k][1])
  BY DEF LiteralSites, IsList
<1>2. \A k \in 1..Len(sites) :
        /\ sites[k][1] \in 1..Len(c) /\ Ins(c, sites[k][1]).op = Ins(b, sites[k][1]).op
        /\ DOMAIN Ins(c, sites[k][1]).args = DOMAIN Ins(b, sites[k][1]).args
  BY <1>1, MovedAt
<1>3. ASSUME NEW k \in 1..Len(sites), NEW j \in 1..k - 1
      PROVE  At(c, sites[j][1]) <= At(c, sites[k][1])
  <2>1. j \in 1..Len(sites) /\ j < k
    BY <1>1
  <2>2. /\ sites[j][1] \in 1..Len(b) /\ sites[k][1] \in 1..Len(b)
        /\ At(b, sites[j][1]) <= At(b, sites[k][1])
    BY <1>1, <2>1
  <2> QED
    BY <2>2, MovedOrder
<1> QED
  BY <1>1, <1>2, <1>3 DEF LiteralSites

\* Ordinals that were below a site stay below it.
LEMMA PassedMove ==
  ASSUME NEW b, Layout(b), NEW c, NEW i, NEW d, Moved(b, c, i, d),
         NEW rs, NEW kinds, NEW n \in 1..Len(b), Passed(rs, b, kinds, n)
  PROVE  Passed(rs, c, kinds, n)
<1>1. At(b, n) <= At(c, n) /\ At(b, n) \in Nat /\ At(c, n) \in Nat
  BY MovedOrder
<1>2. \A x \in 0..instOrdinal(b, n) - 1 : x \in 0..instOrdinal(c, n) - 1
  BY <1>1 DEF instOrdinal
<1> QED
  BY <1>2 DEF Passed

\* rb calls what b calls.
KeepsCalls(b, rb) == \A j \in 1..Len(b) : b[j].op = Call => rb[j].args = b[j].args

\* What is called afterwards: what was called, and what the new instructions call.
LEMMA SplicedCalls ==
  ASSUME NEW b, Layout(b), NEW rb, NEW new, NEW i, Fits(b, rb, i, new),
         NEW c, Spliced(rb, i, new, c), KeepsCalls(b, rb), CallsHaveIds(b), CallsHaveIds(new)
  PROVE  CallsHaveIds(c) /\ CalledIds(c) = CalledIds(b) \union CalledIds(new)
<1> DEFINE n == Len(b)
           d == Len(new)
           P(j) == Place(i, d, j)
           CalledAt(s, j, v) == j \in 1..Len(s) /\ s[j].op = Call /\ v = s[j].args[1][2]
<1>1. \A j \in 1..n : P(j) \in 1..Len(c) /\ c[P(j)] = rb[j]
  BY SplicedPlaces
<1>2. \A x \in 1..d : i - 1 + x \in 1..Len(c) /\ c[i - 1 + x] = new[x]
  BY SplicedPlaces
<1>3. \A t \in 1..Len(c) :
        (\E j \in 1..n : t = P(j)) \/ (\E x \in 1..d : t = i - 1 + x)
  <2>1. \A t \in 1..Len(c) : Placed(Len(b), Len(new), i, t)
    BY SplicedPlaces
  <2> QED
    BY <2>1 DEF Placed
<1>4. \A j \in 1..n : rb[j].op = b[j].op /\ (b[j].op = Call => rb[j].args = b[j].args)
  BY DEF Fits, KeepsCalls
<1>5. CallsHaveIds(c)
  <2> SUFFICES ASSUME NEW t \in 1..Len(c), c[t].op = Call
               PROVE  \E x : c[t].args = <<<<"int", x>>>>
    BY DEF CallsHaveIds
  <2> HIDE DEF n, d, P
  <2>1. CASE \E j \in 1..n : t = P(j)
    BY <2>1, <1>1, <1>4 DEF CallsHaveIds, n
  <2>2. CASE \E x \in 1..d : t = i - 1 + x
    BY <2>2, <1>2 DEF CallsHaveIds, d
  <2> QED
    BY <2>1, <2>2, <1>3
<1>6. \A s, v : v \in CalledIds(s) <=> \E j : CalledAt(s, j, v)
  BY DEF CalledIds
<1> HIDE DEF P
<1>7. ASSUME NEW v \in CalledIds(c) PROVE v \in CalledIds(b) \union CalledIds(new)
  <2>1. PICK t : CalledAt(c, t, v)
    BY <1>6
  <2>2. CASE \E j \in 1..n : t = P(j)
    <3>1. PICK j \in 1..n : t = P(j)
      BY <2>2
    <3>2. CalledAt(b, j, v)
      BY <3>1, <2>1, <1>1, <1>4
    <3> QED
      BY <3>2, <1>6
  <2>3. CASE \E x \in 1..d : t = i - 1 + x
    <3>1. PICK x \in 1..d : t = i - 1 + x
      BY <2>3
    <3>2. CalledAt(new, x, v)
      BY <3>1, <2>1, <1>2
    <3> QED
      BY <3>2, <1>6
  <2> QED
    BY <2>1, <2>2, <2>3, <1>3
<1>8. ASSUME NEW v \in CalledIds(b) PROVE v \in CalledIds(c)
  <2>1. PICK j : CalledAt(b, j, v)
    BY <1>6
  <2>2. CalledAt(c, P(j), v)
    BY <2>1, <1>1, <1>4
  <2> QED
    BY <2>2, <1>6
<1>9. ASSUME NEW v \in CalledIds(new) PROVE v \in CalledIds(c)
  <2>1. PICK x : CalledAt(new, x, v)
    BY <1>6
  <2>2. CalledAt(c, i - 1 + x, v)
    BY <2>1, <1>2
  <2> QED
    BY <2>2, <1>6
<1> QED
  BY <1>5, <1>7, <1>8, <1>9
-----------------------------------------------------------------------------
(* Records *)

\* Records of one site: their kinds, their ordinal, and the changes, each once.
Made(made, kinds, o) ==
  /\ IsList(made) /\ o \in Nat
  /\ \A k \in 1..Len(made) : made[k].key[3] \in kinds /\ made[k].key[2] = o
  /\ \A j, k \in 1..Len(made) : j # k => made[j].key[5] # made[k].key[5]

\* The records of one more site have keys that no other has.
LEMMA RecordsGrow ==
  ASSUME NEW b, NEW n, NEW kinds, NEW rs, NEW made, IsList(rs), Distinct(rs),
         Passed(rs, b, kinds, n), Made(made, kinds, instOrdinal(b, n))
  PROVE  /\ IsList(rs \o made) /\ Follows(rs \o made, rs, made) /\ Distinct(rs \o made)
<1> DEFINE u == rs \o made
           o == instOrdinal(b, n)
<1>1. IsList(u) /\ Follows(u, rs, made)
  BY ListsJoin DEF Made
<1> HIDE DEF u
<1>2. /\ Len(rs) \in Nat /\ Len(made) \in Nat /\ Len(u) = Len(rs) + Len(made)
      /\ \A x \in 1..Len(rs) : u[x] = rs[x]
      /\ \A x \in 1..Len(made) : u[Len(rs) + x] = made[x]
  BY <1>1 DEF Follows
<1>3. o \in Nat
  BY DEF Made
<1>4. ASSUME NEW x \in 1..Len(rs), NEW y \in 1..Len(made) PROVE rs[x].key # made[y].key
  <2>1. made[y].key[3] \in kinds /\ made[y].key[2] = o
    BY DEF Made
  <2>2. rs[x].key[3] \in kinds => rs[x].key[2] \in 0..o - 1
    BY DEF Passed
  <2> HIDE DEF o
  <2> QED
    BY <2>1, <2>2, <1>3
<1>5. \A x, y \in 1..Len(made) : x # y => made[x].key # made[y].key
  BY DEF Made
<1>6. ASSUME NEW x \in 1..Len(u)
      PROVE  x \in 1..Len(rs) \/ \E y \in 1..Len(made) : x = Len(rs) + y
  <2>1. CASE x <= Len(rs)
    BY <2>1, <1>2
  <2>2. CASE ~(x <= Len(rs))
    <3>1. x - Len(rs) \in 1..Len(made) /\ x = Len(rs) + (x - Len(rs))
      BY <2>2, <1>2
    <3> QED
      BY <3>1
  <2> QED
    BY <2>1, <2>2
<1>7. ASSUME NEW x \in 1..Len(u), NEW y \in 1..Len(u), x # y PROVE u[x].key # u[y].key
  <2>1. CASE x \in 1..Len(rs) /\ y \in 1..Len(rs)
    BY <2>1, <1>2, <1>7 DEF Distinct
  <2>2. CASE x \in 1..Len(rs) /\ \E v \in 1..Len(made) : y = Len(rs) + v
    BY <2>2, <1>2, <1>4
  <2>3. CASE y \in 1..Len(rs) /\ \E v \in 1..Len(made) : x = Len(rs) + v
    BY <2>3, <1>2, <1>4
  <2>4. CASE /\ \E v \in 1..Len(made) : x = Len(rs) + v
             /\ \E v \in 1..Len(made) : y = Len(rs) + v
    BY <2>4, <1>2, <1>5, <1>7
  <2> QED
    BY <2>1, <2>2, <2>3, <2>4, <1>6
<1> QED
  BY <1>1, <1>7 DEF Distinct, u

\* What was below a site and what is made for one before it.
LEMMA PassedGrows ==
  ASSUME NEW rs, NEW made, NEW u, Follows(u, rs, made), NEW kinds, NEW o, Made(made, kinds, o),
         NEW c, NEW K, NEW m, Passed(rs, c, K, m),
         K \cap kinds = {} \/ o \in 0..instOrdinal(c, m) - 1
  PROVE  Passed(u, c, K, m)
<1> SUFFICES ASSUME NEW x \in 1..Len(u), u[x].key[3] \in K
             PROVE  u[x].key[2] \in 0..instOrdinal(c, m) - 1
  BY DEF Passed
<1>1. CASE x \in 1..Len(rs)
  BY <1>1 DEF Follows, Passed
<1>2. CASE x \notin 1..Len(rs)
  <2>1. x \in Nat /\ x <= Len(u) /\ ~(x <= Len(rs))
    BY <1>2 DEF Follows
  <2>2. PICK y \in 1..Len(made) : x = Len(rs) + y
    BY <2>1, BehindIs
  <2>3. u[x] = made[y]
    BY <2>2 DEF Follows
  <2> QED
    BY <2>3 DEF Made
<1> QED
  BY <1>1, <1>2

\* The ids of both.
LEMMA IdsGrow ==
  ASSUME NEW rs, NEW made, NEW u, Follows(u, rs, made)
  PROVE  Ids(u) = Ids(rs) \union Ids(made)
<1>1. /\ Len(rs) \in Nat /\ Len(made) \in Nat /\ Len(u) = Len(rs) + Len(made)
      /\ \A x \in 1..Len(rs) : u[x] = rs[x]
      /\ \A x \in 1..Len(made) : u[Len(rs) + x] = made[x]
  BY DEF Follows
<1>2. \A x \in 1..Len(rs) : x \in 1..Len(u)
  BY <1>1
<1>3. \A x \in 1..Len(made) : Len(rs) + x \in 1..Len(u)
  BY <1>1
<1>4. ASSUME NEW x \in 1..Len(u) PROVE u[x].id \in Ids(rs) \union Ids(made)
  <2>1. CASE x \in 1..Len(rs)
    BY <2>1, <1>1 DEF Ids
  <2>2. CASE x \notin 1..Len(rs)
    <3>1. x \in Nat /\ x <= Len(u) /\ ~(x <= Len(rs))
      BY <2>2, <1>1
    <3>2. PICK y \in 1..Len(made) : x = Len(rs) + y
      BY <3>1, BehindIs
    <3> QED
      BY <3>2, <1>1 DEF Ids
  <2> QED
    BY <2>1, <2>2
<1>5. Ids(u) \subseteq Ids(rs) \union Ids(made)
  BY <1>4 DEF Ids
<1>6. Ids(rs) \subseteq Ids(u)
  BY <1>1, <1>2 DEF Ids
<1>7. Ids(made) \subseteq Ids(u)
  <2> SUFFICES ASSUME NEW x \in 1..Len(made) PROVE made[x].id \in Ids(u)
    BY DEF Ids
  <2>1. u[Len(rs) + x] = made[x] /\ Len(rs) + x \in 1..Len(u)
    BY <1>1, <1>3
  <2> QED
    BY <2>1 DEF Ids
<1> QED
  BY <1>5, <1>6, <1>7
-----------------------------------------------------------------------------
(* Chains *)

\* The x-th, y-th and z-th of s, three for each k.
Triples(s, n, X, Y, Z) ==
  /\ IsList(s) /\ Len(s) = 3 * n
  /\ \A k \in 1..n :
       s[3 * (k - 1) + 1] = X[k] /\ s[3 * (k - 1) + 2] = Y[k] /\ s[3 * (k - 1) + 3] = Z[k]

\* Lists of three, joined.
LEMMA TriplesJoin ==
  ASSUME NEW n \in Nat, NEW A, NEW X \in [1..n -> A], NEW Y \in [1..n -> A],
         NEW Z \in [1..n -> A]
  PROVE  Triples(FlattenSeq([k \in 1..n |-> <<X[k], Y[k], Z[k]>>]), n, X, Y, Z)
<1> DEFINE ss == [k \in 1..n |-> <<X[k], Y[k], Z[k]>>]
           s == FlattenSeq(ss)
<1>1. ss \in Seq(Seq(A)) /\ Len(ss) = n
  <2>1. \A k \in 1..n : <<X[k], Y[k], Z[k]>> \in Seq(A)
    OBVIOUS
  <2> DEFINE T(k) == <<X[k], Y[k], Z[k]>>
  <2>2. \A k \in 1..n : T(k) \in Seq(A)
    BY <2>1
  <2>3. ss = [k \in 1..n |-> T(k)]
    OBVIOUS
  <2> HIDE DEF T, ss
  <2> QED
    BY <2>2, <2>3
<1>2. \A k \in 1..n : /\ Len(ss[k]) = 3 /\ ss[k][1] = X[k] /\ ss[k][2] = Y[k] /\ ss[k][3] = Z[k]
                      /\ 1 \in 1..Len(ss[k]) /\ 2 \in 1..Len(ss[k]) /\ 3 \in 1..Len(ss[k])
  OBVIOUS
<1> HIDE DEF ss
<1>3. PICK p : Joined(A, ss, p)
  BY <1>1, FlattenJoins
<1>4. /\ \A k \in 0..n : p[k] \in Seq(A) /\ Len(p[k]) \in Nat
      /\ Len(p[0]) = 0 /\ p[n] = s /\ s \in Seq(A)
  BY <1>1, <1>3, JoinedEnds
<1>5. ASSUME NEW k \in 1..n PROVE Len(p[k]) = Len(p[k - 1]) + 3
  <2>1. k \in 1..Len(ss)
    BY <1>1
  <2>2. Follows(p[k], p[k - 1], ss[k])
    BY <1>1, <1>3, <2>1, JoinedStep
  <2>3. Len(p[k]) = Len(p[k - 1]) + Len(ss[k])
    BY ONLY <2>2 DEF Follows
  <2> QED
    BY <2>3, <1>2
<1> DEFINE T == {k \in 0..n : Len(p[k]) = 3 * k}
<1>6. 0..n \subseteq T
  <2>1. 0 \in T
    BY <1>4
  <2>2. ASSUME NEW k \in 0..n - 1, k \in T PROVE k + 1 \in T
    <3> DEFINE j == k + 1
    <3>1. j \in 1..n /\ j - 1 = k
      OBVIOUS
    <3> HIDE DEF j
    <3>2. Len(p[j]) = Len(p[j - 1]) + 3
      BY <3>1, <1>5
    <3>3. Len(p[j]) = 3 * k + 3
      BY <3>1, <3>2, <2>2
    <3>4. j \in 0..n /\ 3 * j = 3 * k + 3
      BY <3>1
    <3>5. j \in T
      BY <3>3, <3>4
    <3> QED
      BY <3>5 DEF j
  <2> HIDE DEF T
  <2> QED
    BY <2>1, <2>2, InductionUpTo
<1>7. \A k \in 0..n : Len(p[k]) = 3 * k
  BY <1>6
<1>8. IsList(s)
  BY <1>4, SeqIsList
<1>9. Len(s) = 3 * n
  BY <1>4, <1>7
<1> HIDE DEF s
<1>10. ASSUME NEW k \in 1..n, NEW y \in 1..Len(ss[k])
       PROVE  s[3 * (k - 1) + y] = ss[k][y]
  <2>1. k \in 1..Len(ss) /\ k - 1 \in 0..n
    BY <1>1
  <2>2. ss \in Seq(Seq(A)) /\ Joined(A, ss, p) /\ y \in 1..Len(ss[k])
    BY <1>1, <1>3
  <2>3. FlattenSeq(ss)[Len(p[k - 1]) + y] = ss[k][y]
    BY ONLY <2>1, <2>2, JoinedPlace
  <2>4. s[Len(p[k - 1]) + y] = ss[k][y]
    BY <2>3 DEF s
  <2> QED
    BY <2>1, <2>4, <1>7
<1>11. ASSUME NEW k \in 1..n
       PROVE  s[3 * (k - 1) + 1] = X[k] /\ s[3 * (k - 1) + 2] = Y[k] /\ s[3 * (k - 1) + 3] = Z[k]
  BY <1>2, <1>10
<1> QED
  BY <1>8, <1>9, <1>11 DEF Triples, s, ss

\* A place in lists of three is the first, second or third of one.
LEMMA PlaceInTriples ==
  ASSUME NEW n \in Nat, NEW x \in 1..3 * n
  PROVE  \E k \in 1..n :
           x = 3 * (k - 1) + 1 \/ x = 3 * (k - 1) + 2 \/ x = 3 * (k - 1) + 3
<1> DEFINE k == (x - 1) \div 3 + 1
<1>1. k \in 1..n /\ x - 3 * (k - 1) \in 1..3
  OBVIOUS
<1> HIDE DEF k
<1>2. x = 3 * (k - 1) + 1 \/ x = 3 * (k - 1) + 2 \/ x = 3 * (k - 1) + 3
  BY <1>1
<1> QED
  BY <1>1, <1>2

\* The k-th link of a chain: what it computes, asks and selects.
Link(b, I, alts, made, k) ==
  LET base == Len(b) + 3 * (k - 1)
  IN  [alt  |-> New(I, base + 1, alts[k], I.args),
       on   |-> New(I, base + 2, Call, <<<<"int", made[k].id>>>>),
       sel  |-> New(I, base + 3, "select",
                    <<Val(base + 2), Val(base + 1), Val(IF k = 1 THEN I.name ELSE base)>>)]

\* A chain is its links, one behind the other.
LEMMA ChainIs ==
  ASSUME NEW b, NEW I, NEW alts, IsList(alts), NEW made
  PROVE  Triples(Chain(b, I, alts, made), Len(alts),
                 [k \in 1..Len(alts) |-> Link(b, I, alts, made, k).alt],
                 [k \in 1..Len(alts) |-> Link(b, I, alts, made, k).on],
                 [k \in 1..Len(alts) |-> Link(b, I, alts, made, k).sel])
<1> DEFINE n == Len(alts)
           X == [k \in 1..n |-> Link(b, I, alts, made, k).alt]
           Y == [k \in 1..n |-> Link(b, I, alts, made, k).on]
           Z == [k \in 1..n |-> Link(b, I, alts, made, k).sel]
           A == {X[k] : k \in 1..n} \union {Y[k] : k \in 1..n} \union {Z[k] : k \in 1..n}
           ss == [k \in 1..n |-> <<X[k], Y[k], Z[k]>>]
<1>1. n \in Nat /\ DOMAIN alts = 1..n
  BY ListIsSeq
<1>2. Chain(b, I, alts, made) = FlattenSeq(ss)
  <2>1. Chain(b, I, alts, made) =
          FlattenSeq([k \in 1..n |->
            <<Link(b, I, alts, made, k).alt, Link(b, I, alts, made, k).on,
              Link(b, I, alts, made, k).sel>>])
    BY <1>1 DEF Chain, Link, Call
  <2> DEFINE U(k) == <<Link(b, I, alts, made, k).alt, Link(b, I, alts, made, k).on,
                       Link(b, I, alts, made, k).sel>>
             V(k) == <<X[k], Y[k], Z[k]>>
  <2>2. \A k \in 1..n : U(k) = V(k)
    OBVIOUS
  <2>3. Chain(b, I, alts, made) = FlattenSeq([k \in 1..n |-> U(k)])
    BY <2>1
  <2>4. ss = [k \in 1..n |-> V(k)]
    OBVIOUS
  <2> HIDE DEF U, V, ss
  <2>5. [k \in 1..n |-> U(k)] = [k \in 1..n |-> V(k)]
    BY <2>2
  <2> QED
    BY <2>3, <2>4, <2>5
<1>3. X \in [1..n -> A] /\ Y \in [1..n -> A] /\ Z \in [1..n -> A]
  <2> DEFINE XX(k) == Link(b, I, alts, made, k).alt
             YY(k) == Link(b, I, alts, made, k).on
             ZZ(k) == Link(b, I, alts, made, k).sel
  <2>1. X = [k \in 1..n |-> XX(k)] /\ Y = [k \in 1..n |-> YY(k)] /\ Z = [k \in 1..n |-> ZZ(k)]
    OBVIOUS
  <2> HIDE DEF X, Y, Z, XX, YY, ZZ
  <2> QED
    BY <2>1
<1> HIDE DEF X, Y, Z, A
<1>4. Triples(FlattenSeq(ss), n, X, Y, Z)
  BY <1>1, <1>3, TriplesJoin
<1> QED
  BY <1>2, <1>4 DEF X, Y, Z

\* What the x-th instruction of a chain is.
Linked(b, I, alts, made, ch) ==
  /\ IsList(ch) /\ Len(ch) = 3 * Len(alts)
  /\ \A k \in 1..Len(alts) :
       LET L == Link(b, I, alts, made, k)
       IN  /\ ch[3 * (k - 1) + 1] = L.alt /\ ch[3 * (k - 1) + 2] = L.on
           /\ ch[3 * (k - 1) + 3] = L.sel

\* A chain has its links.
LEMMA ChainLinks ==
  ASSUME NEW b, NEW I, NEW alts, IsList(alts), NEW made
  PROVE  Linked(b, I, alts, made, Chain(b, I, alts, made))
<1> DEFINE n == Len(alts)
           ch == Chain(b, I, alts, made)
           L(k) == Link(b, I, alts, made, k)
           X == [k \in 1..n |-> L(k).alt]
           Y == [k \in 1..n |-> L(k).on]
           Z == [k \in 1..n |-> L(k).sel]
<1>1. Triples(ch, n, X, Y, Z)
  BY ChainIs
<1> HIDE DEF L, ch
<1>2. \A k \in 1..n : X[k] = L(k).alt /\ Y[k] = L(k).on /\ Z[k] = L(k).sel
  OBVIOUS
<1> HIDE DEF X, Y, Z
<1> QED
  BY <1>1, <1>2 DEF Triples, Linked, L, ch

\* What New makes.
LEMMA NewIs ==
  ASSUME NEW I, IsInstruction(I), NEW name, NEW op, NEW args
  PROVE  /\ IsInstruction(New(I, name, op, args)) /\ New(I, name, op, args).name = name
         /\ New(I, name, op, args).op = op /\ New(I, name, op, args).args = args
BY DEF IsInstruction, Fields, New

\* The e-th part of a link.
Part(L, e) == IF e = 1 THEN L.alt ELSE IF e = 2 THEN L.on ELSE L.sel

\* The operands of an instruction of a chain: those of I, its value, and what
\* the chain has made before.
LEMMA LinkUses ==
  ASSUME NEW b, Layout(b), NEW i \in 1..Len(b), NEW alts, NEW made, NEW k \in Nat, k >= 1,
         NEW e \in 1..3, NEW x, x = 3 * (k - 1) + e
  PROVE  NewFits(b, i + 1, Part(Link(b, b[i], alts, made, k), e), x)
<1> DEFINE I == b[i]
           n == Len(b)
           base == n + 3 * (k - 1)
           L == Link(b, I, alts, made, k)
           J == Part(L, e)
           Good ==
             /\ IsInstruction(J) /\ J.name = n + (3 * (k - 1) + e)
             /\ \A a \in DOMAIN J.args :
                  J.args[a][1] = "val" =>
                    \/ \E j \in 1..i : Named(b, J.args[a][2], j)
                    \/ \E y \in 1..(3 * (k - 1) + e) - 1 : J.args[a][2] = n + y
<1>1. IsInstruction(I) /\ MadeBefore(b, I, i) /\ n \in Nat /\ Named(b, I.name, i)
  BY DEF Layout, IsList, Named
<1>2. base \in Nat /\ base >= n
  BY <1>1
<1>3. /\ L.alt = New(I, base + 1, alts[k], I.args)
      /\ L.on = New(I, base + 2, Call, <<<<"int", made[k].id>>>>)
      /\ L.sel = New(I, base + 3, "select",
                     <<Val(base + 2), Val(base + 1), Val(IF k = 1 THEN I.name ELSE base)>>)
  BY DEF Link
<1>4. J = IF e = 1 THEN L.alt ELSE IF e = 2 THEN L.on ELSE L.sel
  BY DEF Part
<1> HIDE DEF I, J, L, base, n
<1>5. ASSUME e = 1 PROVE Good
  <2>1. IsInstruction(J) /\ J.name = base + 1 /\ J.args = I.args
    BY <1>1, <1>3, <1>4, <1>5, NewIs
  <2>2. ASSUME NEW a \in DOMAIN J.args, J.args[a][1] = "val"
        PROVE  \E j \in 1..i : Named(b, J.args[a][2], j)
    <3>1. PICK j \in 1..i - 1 : Named(b, I.args[a][2], j)
      BY <1>1, <2>1, <2>2 DEF MadeBefore
    <3>2. j \in 1..i
      BY <1>1 DEF n
    <3> QED
      BY <2>1, <3>1, <3>2
  <2>3. J.name = n + (3 * (k - 1) + e)
    BY <1>1, <2>1, <1>5 DEF base
  <2> QED
    BY <2>1, <2>2, <2>3
<1>6. ASSUME e = 2 PROVE Good
  <2>1. IsInstruction(J) /\ J.name = base + 2 /\ J.args = <<<<"int", made[k].id>>>>
    BY <1>1, <1>3, <1>4, <1>6, NewIs
  <2>2. \A a \in DOMAIN J.args : J.args[a][1] # "val"
    BY <2>1
  <2>3. J.name = n + (3 * (k - 1) + e)
    BY <1>1, <2>1, <1>6 DEF base
  <2> QED
    BY <2>1, <2>2, <2>3
<1>7. ASSUME e = 3 PROVE Good
  <2> DEFINE from == IF k = 1 THEN I.name ELSE base
  <2>1. IsInstruction(J) /\ J.name = base + 3 /\ J.args = <<Val(base + 2), Val(base + 1), Val(from)>>
    BY <1>1, <1>3, <1>4, <1>7, NewIs
  <2>2. J.name = n + (3 * (k - 1) + e)
    BY <1>1, <2>1, <1>7 DEF base
  <2>3. /\ 3 * (k - 1) + 2 \in 1..(3 * (k - 1) + e) - 1 /\ base + 2 = n + (3 * (k - 1) + 2)
        /\ 3 * (k - 1) + 1 \in 1..(3 * (k - 1) + e) - 1 /\ base + 1 = n + (3 * (k - 1) + 1)
    BY <1>1, <1>7 DEF base
  <2>4. \/ \E j \in 1..i : Named(b, from, j)
        \/ \E y \in 1..(3 * (k - 1) + e) - 1 : from = n + y
    <3>1. CASE k = 1
      <4>1. i \in 1..i
        BY <1>1 DEF n
      <4> QED
        BY <3>1, <4>1, <1>1
    <3>2. CASE k # 1
      <4>1. 3 * (k - 1) \in 1..(3 * (k - 1) + e) - 1 /\ from = n + 3 * (k - 1)
        BY <3>2, <1>7, <1>1 DEF base
      <4> QED
        BY <4>1
    <3> QED
      BY <3>1, <3>2
  <2> HIDE DEF from
  <2>5. ASSUME NEW a \in DOMAIN J.args PROVE J.args[a][2] \in {base + 2, base + 1, from}
    <3>1. a \in 1..3
      BY <2>1, <2>5
    <3> QED
      BY <2>1, <3>1 DEF Val
  <2> QED
    BY <2>1, <2>2, <2>3, <2>4, <2>5
<1>8. Good
  <2>1. e = 1 \/ e = 2 \/ e = 3
    OBVIOUS
  <2> HIDE DEF Good
  <2> QED
    BY <2>1, <1>5, <1>6, <1>7
<1>9. i + 1 - 1 = i
  BY <1>1 DEF n
<1>10. NewFits(b, i + 1, J, x)
  <2>1. 1..i + 1 - 1 = 1..i /\ 1..x - 1 = 1..(3 * (k - 1) + e) - 1
    BY <1>9
  <2>2. IsInstruction(J) /\ J.name = Len(b) + x
    BY <1>8 DEF n
  <2>3. \A a \in DOMAIN J.args :
          J.args[a][1] = "val" =>
            \/ \E j \in 1..i + 1 - 1 : Named(b, J.args[a][2], j)
            \/ \E y \in 1..x - 1 : J.args[a][2] = Len(b) + y
    BY <1>8, <2>1, Zenon DEF n
  <2> QED
    BY <2>2, <2>3 DEF NewFits
<1> QED
  BY <1>10 DEF J, L, I

\* Where an instruction of a chain comes from.
LEMMA LinkedFrom ==
  ASSUME NEW b, NEW I, NEW alts, IsList(alts), NEW made, NEW ch, Linked(b, I, alts, made, ch),
         NEW x \in 1..Len(ch)
  PROVE  \E k \in 1..Len(alts), e \in 1..3 :
           x = 3 * (k - 1) + e /\ ch[x] = Part(Link(b, I, alts, made, k), e)
<1>1. Len(alts) \in Nat /\ x \in 1..3 * Len(alts)
  BY DEF Linked, IsList
<1>2. PICK k \in 1..Len(alts) :
        x = 3 * (k - 1) + 1 \/ x = 3 * (k - 1) + 2 \/ x = 3 * (k - 1) + 3
  BY <1>1, PlaceInTriples
<1> DEFINE L == Link(b, I, alts, made, k)
<1>3. ch[3 * (k - 1) + 1] = L.alt /\ ch[3 * (k - 1) + 2] = L.on /\ ch[3 * (k - 1) + 3] = L.sel
  BY DEF Linked
<1> HIDE DEF L
<1>4. Part(L, 1) = L.alt /\ Part(L, 2) = L.on /\ Part(L, 3) = L.sel
  BY DEF Part
<1>5. CASE x = 3 * (k - 1) + 1
  <2>1. ch[x] = Part(L, 1) /\ 1 \in 1..3
    BY <1>3, <1>4, <1>5
  <2> QED
    BY <2>1, <1>5 DEF L
<1>6. CASE x = 3 * (k - 1) + 2
  <2>1. ch[x] = Part(L, 2) /\ 2 \in 1..3
    BY <1>3, <1>4, <1>6
  <2> QED
    BY <2>1, <1>6 DEF L
<1>7. CASE x = 3 * (k - 1) + 3
  <2>1. ch[x] = Part(L, 3) /\ 3 \in 1..3
    BY <1>3, <1>4, <1>7
  <2> QED
    BY <2>1, <1>7 DEF L
<1> QED
  BY <1>2, <1>5, <1>6, <1>7

\* The end of a chain is its last name.
LEMMA ChainEnd ==
  ASSUME NEW b, NEW i \in 1..Len(b), Layout(b), NEW alts, IsList(alts), Len(alts) # 0, NEW made,
         NEW ch, Linked(b, b[i], alts, made, ch)
  PROVE  /\ Last(ch).name = Len(b) + Len(ch)
         /\ Len(ch) \in Nat /\ Len(ch) >= 1
<1> DEFINE k == Len(alts)
           L == Link(b, b[i], alts, made, k)
<1>1. k \in Nat /\ k >= 1 /\ k \in 1..k
  BY DEF IsList
<1>2. ch[3 * (k - 1) + 3] = L.sel /\ Len(ch) = 3 * k
  BY <1>1 DEF Linked
<1>3. 3 * k = 3 * (k - 1) + 3
  BY <1>1
<1>4. Last(ch) = L.sel
  BY <1>2, <1>3 DEF Last
<1>5. L.sel.name = Len(b) + 3 * (k - 1) + 3
  <2>1. IsInstruction(b[i])
    BY DEF Layout
  <2> QED
    BY <2>1, NewIs DEF Link
<1>6. Len(b) \in Nat
  BY DEF Layout, IsList
<1> HIDE DEF L, k
<1> QED
  BY <1>1, <1>2, <1>3, <1>4, <1>5, <1>6

\* A chain fits behind its instruction, with the uses of the value replaced.
LEMMA ChainFits ==
  ASSUME NEW b, Layout(b), NEW i \in 1..Len(b), NEW alts, IsList(alts), Len(alts) # 0, NEW made,
         NEW ch, Linked(b, b[i], alts, made, ch)
  PROVE  Fits(b, replaceUses(b, b[i].name, Last(ch).name), i + 1, ch)
<1> DEFINE n == Len(b)
           from == b[i].name
           to == Last(ch).name
           rb == replaceUses(b, from, to)
           d == Len(ch)
<1>1. /\ n \in Nat /\ DOMAIN b = 1..n /\ IsList(ch) /\ d \in Nat /\ d >= 1
      /\ to = n + d /\ i + 1 \in 1..n + 1
  <2>1. n \in Nat /\ DOMAIN b = 1..n
    BY ListIsSeq DEF Layout
  <2>2. to = n + d /\ d \in Nat /\ d >= 1
    BY ChainEnd
  <2> QED
    BY <2>1, <2>2 DEF Linked
<1> HIDE DEF to, d
<1>2. rb = [j \in 1..n |-> [b[j] EXCEPT !.args =
              [a \in DOMAIN b[j].args |-> IF b[j].args[a] = Val(from) THEN Val(to) ELSE b[j].args[a]]]]
  BY <1>1 DEF replaceUses
<1> HIDE DEF rb, from
<1>3. IsList(rb) /\ Len(rb) = n
  <2> HIDE DEF n
  <2> QED
    BY <1>1, <1>2 DEF IsList
<1>4. ASSUME NEW j \in 1..n
      PROVE  /\ IsInstruction(rb[j]) /\ rb[j].name = b[j].name /\ rb[j].op = b[j].op
             /\ DOMAIN rb[j].args = DOMAIN b[j].args
             /\ \A a \in DOMAIN b[j].args :
                  rb[j].args[a] = IF b[j].args[a] = Val(from) THEN Val(to) ELSE b[j].args[a]
  <2>1. IsInstruction(b[j])
    BY DEF Layout
  <2> DEFINE w == [a \in DOMAIN b[j].args |->
                     IF b[j].args[a] = Val(from) THEN Val(to) ELSE b[j].args[a]]
  <2>2. rb[j] = [b[j] EXCEPT !.args = w]
    BY <1>2
  <2>3. DOMAIN w = DOMAIN b[j].args /\ \A a \in DOMAIN b[j].args :
          w[a] = IF b[j].args[a] = Val(from) THEN Val(to) ELSE b[j].args[a]
    OBVIOUS
  <2> HIDE DEF w
  <2>4. /\ IsInstruction(rb[j]) /\ rb[j].name = b[j].name /\ rb[j].op = b[j].op
        /\ rb[j].args = w
    BY <2>1, <2>2 DEF IsInstruction, Fields
  <2> QED
    BY <2>3, <2>4
<1>5. ASSUME NEW j \in 1..n, NEW a \in DOMAIN rb[j].args, rb[j].args[a][1] = "val"
      PROVE  \/ \E k \in 1..j - 1 : Named(b, rb[j].args[a][2], k)
             \/ j >= i + 1 /\ \E x \in 1..d : rb[j].args[a][2] = n + x
  <2>1. a \in DOMAIN b[j].args /\ MadeBefore(b, b[j], j)
    BY <1>4, <1>5 DEF Layout
  <2>2. CASE b[j].args[a] = Val(from)
    <3>1. rb[j].args[a] = Val(to)
      BY <2>1, <2>2, <1>4
    <3>2. rb[j].args[a][2] = n + d /\ d \in 1..d
      BY <3>1, <1>1 DEF Val
    <3>3. PICK k \in 1..j - 1 : Named(b, from, k)
      BY <2>1, <2>2 DEF MadeBefore, Val
    <3>4. k = i
      <4>1. k \in 1..n /\ b[k].name = from
        BY <3>3 DEF Named, n
      <4> QED
        BY <4>1 DEF Layout, from, n
    <3> QED
      BY <3>2, <3>3, <3>4
  <2>3. CASE b[j].args[a] # Val(from)
    <3>1. rb[j].args[a] = b[j].args[a]
      BY <2>1, <2>3, <1>4
    <3> QED
      BY <3>1, <2>1, <1>5 DEF MadeBefore
  <2> QED
    BY <2>2, <2>3
<1>6. ASSUME NEW x \in 1..d PROVE NewFits(b, i + 1, ch[x], x)
  <2>1. x \in 1..Len(ch)
    BY DEF d
  <2>2. PICK k \in 1..Len(alts), e \in 1..3 :
          x = 3 * (k - 1) + e /\ ch[x] = Part(Link(b, b[i], alts, made, k), e)
    BY <2>1, LinkedFrom
  <2>3. k \in Nat /\ k >= 1
    BY <1>1 DEF IsList
  <2>4. NewFits(b, i + 1, Part(Link(b, b[i], alts, made, k), e), x)
    BY <2>2, <2>3, LinkUses
  <2> QED
    BY <2>2, <2>4
<1>7. IsList(rb) /\ Len(rb) = Len(b) /\ IsList(ch) /\ i + 1 \in 1..Len(b) + 1
  BY <1>1, <1>3
<1> HIDE DEF n
<1>8. Fits(b, rb, i + 1, ch)
  BY <1>4, <1>5, <1>6, <1>7 DEF Fits, n, d
<1> QED
  BY <1>8 DEF rb, from, to

\* The calls of a chain: one for each record.
LEMMA ChainCalls ==
  ASSUME NEW b, Layout(b), NEW i \in 1..Len(b), NEW alts, IsList(alts), NEW made,
         \A k \in 1..Len(alts) : alts[k] # Call,
         NEW ch, Linked(b, b[i], alts, made, ch)
  PROVE  CallsHaveIds(ch) /\ CalledIds(ch) = {made[k].id : k \in 1..Len(alts)}
<1> DEFINE I == b[i]
           L(k) == Link(b, I, alts, made, k)
           n == Len(alts)
<1>1. IsInstruction(I) /\ n \in Nat /\ Len(ch) = 3 * n
  BY DEF Layout, Linked, IsList
<1>2. ASSUME NEW k \in 1..n
      PROVE  /\ L(k).alt.op = alts[k] /\ L(k).sel.op = "select" /\ L(k).on.op = Call
             /\ L(k).on.args = <<<<"int", made[k].id>>>>
  <2> HIDE DEF I
  <2> QED
    BY <1>1, NewIs DEF Link
<1>3. ASSUME NEW x \in 1..Len(ch), ch[x].op = Call
      PROVE  \E k \in 1..n : x = 3 * (k - 1) + 2 /\ ch[x] = L(k).on
  <2>1. PICK k \in 1..n, e \in 1..3 : x = 3 * (k - 1) + e /\ ch[x] = Part(L(k), e)
    BY LinkedFrom
  <2>2. L(k).alt.op # Call /\ L(k).sel.op # Call
    BY <1>2 DEF Call
  <2> HIDE DEF L
  <2>3. e = 2
    BY <2>1, <2>2, <1>3 DEF Part
  <2> QED
    BY <2>1, <2>3 DEF Part
<1>4. ASSUME NEW k \in 1..n
      PROVE  3 * (k - 1) + 2 \in 1..Len(ch) /\ ch[3 * (k - 1) + 2] = L(k).on
  BY <1>1 DEF Linked
<1> HIDE DEF L
<1>5. CallsHaveIds(ch)
  <2> SUFFICES ASSUME NEW x \in 1..Len(ch), ch[x].op = Call
               PROVE  \E v : ch[x].args = <<<<"int", v>>>>
    BY DEF CallsHaveIds
  <2>1. PICK k \in 1..n : ch[x] = L(k).on
    BY <1>3
  <2> QED
    BY <2>1, <1>2
<1>6. ASSUME NEW x \in 1..Len(ch), ch[x].op = Call
      PROVE  ch[x].args[1][2] \in {made[k].id : k \in 1..n}
  <2>1. PICK k \in 1..n : ch[x] = L(k).on
    BY <1>3, <1>6
  <2>2. ch[x].args[1][2] = made[k].id
    BY <2>1, <1>2
  <2> QED
    BY <2>2
<1>7. ASSUME NEW k \in 1..n PROVE made[k].id \in CalledIds(ch)
  <2> DEFINE x == 3 * (k - 1) + 2
  <2>1. x \in 1..Len(ch) /\ ch[x] = L(k).on
    BY <1>4
  <2> HIDE DEF x
  <2>2. ch[x].op = Call /\ ch[x].args[1][2] = made[k].id
    BY <2>1, <1>2
  <2> QED
    BY <2>1, <2>2 DEF CalledIds
<1> HIDE DEF n
<1>8. CalledIds(ch) = {made[k].id : k \in 1..n}
  BY <1>6, <1>7 DEF CalledIds
<1> QED
  BY <1>5, <1>8 DEF n

\* The ids of the first m records.
FirstIds(made, m) == {made[k].id : k \in 1..m}

\* What a site's code does to the function: things move, and the ids are called.
Instrumented(b, c, i, d, ids) ==
  Moved(b, c, i, d) /\ CallsHaveIds(c) /\ CalledIds(c) = CalledIds(b) \union ids

\* Chained puts the chain behind the instruction.
LEMMA ChainedDoes ==
  ASSUME NEW b, Layout(b), CallsHaveIds(b), NEW n \in 1..Len(b),
         NEW alts, IsList(alts), Len(alts) # 0, NEW made, \A k \in 1..Len(alts) : alts[k] # Call
  PROVE  \E d : Instrumented(b, Chained(b, Ins(b, n), alts, made), At(b, n) + 1, d,
                            FirstIds(made, Len(alts)))
<1> DEFINE i == At(b, n)
           I == b[i]
           ch == Chain(b, I, alts, made)
           rb == replaceUses(b, I.name, Last(ch).name)
           c == Splice(rb, i + 1, ch)
           ids == {made[k].id : k \in 1..Len(alts)}
<1>1. i \in 1..Len(b) /\ I.name = n
  BY AtIs DEF Named
<1>2. Ins(b, n) = I /\ Chained(b, I, alts, made) = c
  BY <1>1 DEF Ins, Chained
<1> HIDE DEF i, ch
<1>3. Linked(b, I, alts, made, ch)
  BY ChainLinks DEF ch
<1>4. Fits(b, rb, i + 1, ch)
  BY <1>1, <1>3, ChainFits
<1>5. KeepsCalls(b, rb)
  <2> SUFFICES ASSUME NEW j \in 1..Len(b), b[j].op = Call PROVE rb[j].args = b[j].args
    BY DEF KeepsCalls
  <2>1. j \in DOMAIN b
    BY ListIsSeq DEF Layout
  <2>2. PICK x : b[j].args = <<<<"int", x>>>>
    BY DEF CallsHaveIds
  <2> DEFINE to == Last(ch).name
             w == [a \in DOMAIN b[j].args |->
                     IF b[j].args[a] = Val(I.name) THEN Val(to) ELSE b[j].args[a]]
  <2>3. rb[j] = [b[j] EXCEPT !.args = w]
    BY <2>1 DEF replaceUses
  <2>4. IsInstruction(b[j])
    BY DEF Layout
  <2>5. w = b[j].args
    <3> HIDE DEF I, to
    <3>1. w = [a \in 1..1 |-> <<"int", x>>]
      BY <2>2 DEF Val
    <3>2. b[j].args = [a \in 1..1 |-> <<"int", x>>]
      BY <2>2
    <3> QED
      BY <3>1, <3>2
  <2> HIDE DEF rb, w
  <2> QED
    BY <2>3, <2>4, <2>5 DEF IsInstruction, Fields
<1> HIDE DEF rb
<1>6. Spliced(rb, i + 1, ch, c)
  <2>1. IsList(rb) /\ IsList(ch) /\ i + 1 \in 1..Len(rb) + 1
    BY <1>4 DEF Fits
  <2> DEFINE j == i + 1
  <2>2. j \in 1..Len(rb) + 1
    BY <2>1
  <2> HIDE DEF j
  <2>3. Spliced(rb, j, ch, Splice(rb, j, ch))
    BY <2>1, <2>2, SpliceIs
  <2> QED
    BY <2>3 DEF j
<1>7. CallsHaveIds(ch) /\ CalledIds(ch) = ids
  <2>1. i \in 1..Len(b) /\ Linked(b, b[i], alts, made, ch) /\ \A k \in 1..Len(alts) : alts[k] # Call
    BY <1>1, <1>3
  <2>2. CallsHaveIds(ch)
    BY ONLY <2>1, Layout(b), IsList(alts), ChainCalls
  <2>3. CalledIds(ch) = {made[k].id : k \in 1..Len(alts)}
    BY ONLY <2>1, Layout(b), IsList(alts), ChainCalls
  <2> QED
    BY <2>2, <2>3
<1> DEFINE j == i + 1
<1>8. Fits(b, rb, j, ch) /\ Spliced(rb, j, ch, c)
  BY <1>4, <1>6
<1> HIDE DEF c, j, ids
<1>9. Moved(b, c, j, Len(ch))
  BY <1>8, SplicedLayout
<1>10. CallsHaveIds(c) /\ CalledIds(c) = CalledIds(b) \union CalledIds(ch)
  BY <1>5, <1>7, <1>8, SplicedCalls
<1>11. Instrumented(b, c, j, Len(ch), ids)
  BY <1>7, <1>9, <1>10 DEF Instrumented
<1>12. Instrumented(b, Chained(b, Ins(b, n), alts, made), At(b, n) + 1, Len(ch), ids)
  BY <1>2, <1>11 DEF i, j
<1> QED
  BY <1>12 DEF ids, FirstIds

\* How c comes from b with a call and a select before the instruction named n.
SelectPut(b, c, n, oi, id, MutC, rb, new) ==
  LET i == At(b, n)
      I == b[i]
      w == Val(Len(b) + 2)
  IN  /\ Fits(b, rb, i, new) /\ Spliced(rb, i, new, c) /\ IsList(new) /\ Len(new) = 2
      /\ new[1] = New(I, Len(b) + 1, Call, <<<<"int", id>>>>)
      /\ new[2] = New(I, Len(b) + 2, "select", <<Val(Len(b) + 1), MutC, I.args[oi]>>)
      /\ \A j \in 1..Len(b) : j # i => rb[j] = b[j]
      /\ rb[i] = [I EXCEPT !.args = [I.args EXCEPT ![oi] = w]]

\* What Selected puts in, and where.
LEMMA SelectedIs ==
  ASSUME NEW b, Layout(b), NEW n \in 1..Len(b), Ins(b, n).op # Call,
         NEW oi \in DOMAIN Ins(b, n).args, NEW id, NEW MutC, MutC[1] # "val",
         NEW c, c = Selected(b, Ins(b, n), oi, id, Ins(b, n).args[oi], MutC)
  PROVE  \E rb, new : SelectPut(b, c, n, oi, id, MutC, rb, new)
<1> DEFINE i == At(b, n)
           I == b[i]
           N == Len(b)
           C == I.args[oi]
           on == New(I, N + 1, Call, <<<<"int", id>>>>)
           sel == New(I, N + 2, "select", <<Val(N + 1), MutC, C>>)
           new == <<on, sel>>
           rb == [b EXCEPT ![i].args[oi] = Val(N + 2)]
           u == Splice(rb, i, new)
<1>1. i \in 1..N /\ I.name = n /\ N \in Nat /\ DOMAIN b = 1..N
  BY AtIs, ListIsSeq DEF Named, Layout
<1>2. Ins(b, n) = I /\ c = u
  BY <1>1 DEF Ins, Selected, Call
<1>3. /\ IsInstruction(I) /\ I.op # Call /\ oi \in DOMAIN I.args /\ MadeBefore(b, I, i)
  BY <1>1, <1>2 DEF Layout
<1> HIDE DEF i
<1>4. rb = [b EXCEPT ![i] = [I EXCEPT !.args = [I.args EXCEPT ![oi] = Val(N + 2)]]]
  OBVIOUS
<1> DEFINE w == [I.args EXCEPT ![oi] = Val(N + 2)]
           J == [I EXCEPT !.args = w]
<1>5. DOMAIN w = DOMAIN I.args /\ \A a \in DOMAIN I.args : w[a] = IF a = oi THEN Val(N + 2) ELSE I.args[a]
  OBVIOUS
<1> HIDE DEF rb, w
<1>6. rb = [b EXCEPT ![i] = J]
  BY <1>4 DEF w
<1>7. IsInstruction(J) /\ J.name = I.name /\ J.op = I.op /\ J.args = w
  BY <1>3 DEF IsInstruction, Fields
<1> HIDE DEF J, u
<1>8. IsList(rb) /\ Len(rb) = N /\ \A j \in 1..N : rb[j] = IF j = i THEN J ELSE b[j]
  <2>1. rb = [j \in 1..N |-> IF j = i THEN J ELSE b[j]]
    BY <1>1, <1>6
  <2> HIDE DEF N
  <2> QED
    BY <2>1, <1>1 DEF IsList
<1> HIDE DEF I, on, sel
<1>9. Len(new) = 2 /\ IsList(new) /\ new[1] = on /\ new[2] = sel
  BY DEF IsList
<1> HIDE DEF new
<1>10. /\ IsInstruction(on) /\ on.name = N + 1 /\ on.op = Call /\ on.args = <<<<"int", id>>>>
  BY <1>3, NewIs DEF on
<1>11. /\ IsInstruction(sel) /\ sel.name = N + 2 /\ sel.op = "select"
       /\ sel.args = <<Val(N + 1), MutC, C>>
  BY <1>3, NewIs DEF sel
<1>12. C[1] = "val" => \E k \in 1..i - 1 : Named(b, C[2], k)
  BY <1>3 DEF MadeBefore
<1> HIDE DEF C
<1>13. ASSUME NEW j \in 1..N
       PROVE  /\ IsInstruction(rb[j]) /\ rb[j].name = b[j].name /\ rb[j].op = b[j].op
              /\ DOMAIN rb[j].args = DOMAIN b[j].args
              /\ \A a \in DOMAIN rb[j].args :
                   rb[j].args[a][1] = "val" =>
                     \/ \E k \in 1..j - 1 : Named(b, rb[j].args[a][2], k)
                     \/ j >= i /\ \E x \in 1..2 : rb[j].args[a][2] = N + x
  <2>1. CASE j = i
    <3>1. rb[j] = J /\ b[j] = I
      BY <2>1, <1>8 DEF I
    <3>2. ASSUME NEW a \in DOMAIN w, w[a][1] = "val"
          PROVE  \/ \E k \in 1..j - 1 : Named(b, w[a][2], k)
                 \/ j >= i /\ \E x \in 1..2 : w[a][2] = N + x
      <4>1. CASE a = oi
        <5>1. w[a][2] = N + 2 /\ 2 \in 1..2 /\ j >= i
          BY <4>1, <1>1, <1>3, <1>5, <2>1 DEF Val
        <5> QED
          BY <5>1
      <4>2. CASE a # oi
        <5>1. w[a] = I.args[a] /\ a \in DOMAIN I.args
          BY <4>2, <1>5
        <5> QED
          BY <5>1, <3>2, <2>1, <1>3 DEF MadeBefore
      <4> QED
        BY <4>1, <4>2
    <3> QED
      BY <3>1, <3>2, <1>5, <1>7
  <2>2. CASE j # i
    <3>1. rb[j] = b[j]
      BY <2>2, <1>8
    <3>2. IsInstruction(b[j]) /\ MadeBefore(b, b[j], j)
      BY DEF Layout
    <3> QED
      BY <3>1, <3>2 DEF MadeBefore
  <2> QED
    BY <2>1, <2>2
<1>14. NewFits(b, i, on, 1)
  BY <1>10 DEF NewFits
<1>15. NewFits(b, i, sel, 2)
  <2> SUFFICES ASSUME NEW a \in DOMAIN sel.args, sel.args[a][1] = "val"
               PROVE  \/ \E k \in 1..i - 1 : Named(b, sel.args[a][2], k)
                      \/ \E y \in 1..2 - 1 : sel.args[a][2] = Len(b) + y
    BY <1>11 DEF NewFits
  <2>1. a = 1 \/ a = 2 \/ a = 3
    BY <1>11
  <2>2. CASE a = 1
    <3>1. sel.args[a][2] = N + 1 /\ 1 \in 1..2 - 1
      BY <2>2, <1>11 DEF Val
    <3> QED
      BY <3>1
  <2>3. CASE a = 2
    BY <2>3, <1>11
  <2>4. CASE a = 3
    <3>1. sel.args[a] = C
      BY <2>4, <1>11
    <3> QED
      BY <3>1, <1>12
  <2> QED
    BY <2>1, <2>2, <2>3, <2>4
<1>16. \A x \in 1..Len(new) : NewFits(b, i, new[x], x)
  BY <1>9, <1>14, <1>15
<1>17. Fits(b, rb, i, new)
  BY <1>1, <1>8, <1>9, <1>13, <1>16 DEF Fits
<1>18. Spliced(rb, i, new, c)
  <2>1. i \in 1..Len(rb) + 1
    BY <1>1, <1>8
  <2> QED
    BY <2>1, <1>8, <1>9, <1>2, SpliceIs DEF u
<1>19. SelectPut(b, c, n, oi, id, MutC, rb, new)
  <2>1. on = New(I, N + 1, Call, <<<<"int", id>>>>) /\ sel = New(I, N + 2, "select", <<Val(N + 1), MutC, C>>)
    BY DEF on, sel
  <2>2. rb[i] = [I EXCEPT !.args = [I.args EXCEPT ![oi] = Val(N + 2)]]
    BY <1>1, <1>8 DEF J, w
  <2>3. \A j \in 1..N : j # i => rb[j] = b[j]
    BY <1>8
  <2> QED
    BY <1>9, <1>17, <1>18, <2>1, <2>2, <2>3 DEF SelectPut, i, I, C
<1> QED
  BY <1>19

\* Selected puts a call and a select before the instruction that uses a constant.
LEMMA SelectedDoes ==
  ASSUME NEW b, Layout(b), CallsHaveIds(b), NEW n \in 1..Len(b), Ins(b, n).op # Call,
         NEW oi \in DOMAIN Ins(b, n).args, NEW id, NEW MutC, MutC[1] # "val"
  PROVE  \E d : d >= 1 /\
           Instrumented(b, Selected(b, Ins(b, n), oi, id, Ins(b, n).args[oi], MutC), At(b, n), d, {id})
<1> DEFINE i == At(b, n)
           I == b[i]
           c == Selected(b, Ins(b, n), oi, id, Ins(b, n).args[oi], MutC)
<1>1. PICK rb, new : SelectPut(b, c, n, oi, id, MutC, rb, new)
  BY SelectedIs
<1> DEFINE on == new[1]
           sel == new[2]
           o1 == <<<<"int", id>>>>
           o2 == <<Val(Len(b) + 1), MutC, I.args[oi]>>
<1>2. /\ Fits(b, rb, i, new) /\ Spliced(rb, i, new, c) /\ Len(new) = 2
      /\ on = New(I, Len(b) + 1, Call, o1) /\ sel = New(I, Len(b) + 2, "select", o2)
      /\ \A j \in 1..Len(b) : j # i => rb[j] = b[j]
  BY <1>1 DEF SelectPut
<1>3. I.op # Call /\ IsInstruction(I)
  BY AtIs DEF Ins, Named, Layout
<1> HIDE DEF c, i, I, on, sel, o1, o2
<1>4. on.op = Call /\ on.args = o1 /\ sel.op = "select"
  BY <1>2, <1>3, NewIs
<1>5. KeepsCalls(b, rb)
  BY <1>2, <1>3 DEF KeepsCalls, I
<1>6. CallsHaveIds(new) /\ CalledIds(new) = {id}
  <2>1. \A x \in 1..Len(new) : x = 1 \/ x = 2
    BY <1>2
  <2>2. new[1].op = Call /\ new[1].args = <<<<"int", id>>>> /\ new[2].op # Call /\ 1 \in 1..Len(new)
    BY <1>2, <1>4 DEF on, sel, o1, Call
  <2>3. CallsHaveIds(new)
    BY <2>1, <2>2 DEF CallsHaveIds
  <2>4. \A x \in 1..Len(new) : new[x].op = Call <=> x = 1
    BY <2>1, <2>2
  <2>5. new[1].args[1][2] = id
    BY <2>2
  <2> QED
    BY <2>2, <2>3, <2>4, <2>5 DEF CalledIds
<1>7. Moved(b, c, i, Len(new))
  BY <1>2, SplicedLayout
<1>8. CallsHaveIds(c) /\ CalledIds(c) = CalledIds(b) \union CalledIds(new)
  BY <1>2, <1>5, <1>6, SplicedCalls
<1>9. Instrumented(b, c, i, 2, {id})
  BY <1>2, <1>6, <1>7, <1>8 DEF Instrumented
<1>10. 2 >= 1
  OBVIOUS
<1> QED
  BY <1>9, <1>10 DEF c, i
-----------------------------------------------------------------------------
(* The alternatives *)

\* Operators for the same place whose signs are all different.
DifferentSigns(alts, signs) ==
  /\ IsList(alts) /\ \A k \in 1..Len(alts) : alts[k] # Call
  /\ \A j, k \in 1..Len(alts) : j # k => signs[j] # signs[k]

\* The alternatives of an operator.
LEMMA BinChoices ==
  ASSUME NEW op, NEW ty
  PROVE  /\ DifferentSigns(appendBins(op), [k \in 1..Len(appendBins(op)) |-> binName(appendBins(op)[k], ty)])
         /\ appendBins(op) # <<>> => Len(appendBins(op)) # 0
<1> DEFINE alts == appendBins(op)
           signs == [k \in 1..Len(alts) |-> binName(alts[k], ty)]
<1>1. ASSUME op \in DOMAIN Alternatives
      PROVE  \/ alts = <<"Sub", "Mul">> \/ alts = <<"Add", "Mul">> \/ alts = <<"SDiv", "Add">>
             \/ alts = <<"Mul", "Sub">> \/ alts = <<"SDiv", "Mul">> \/ alts = <<"UDiv", "Mul">>
             \/ alts = <<"Or">> \/ alts = <<"And">>
  <2>1. op \in {"Add", "Sub", "Mul", "SDiv", "UDiv", "SRem", "URem", "And", "Or"}
    BY <1>1 DEF Alternatives
  <2> QED
    BY <2>1, <1>1 DEF Alternatives, appendBins
<1>2. op \notin DOMAIN Alternatives => alts = <<>>
  BY DEF appendBins
<1>3. /\ binName("Add", ty) = "+" /\ binName("Sub", ty) = "-" /\ binName("Mul", ty) = "*"
      /\ binName("SDiv", ty) = "/" /\ binName("UDiv", ty) = "/"
  BY DEF binName
<1> HIDE DEF alts
<1>4. CASE alts = <<>>
  BY <1>4 DEF DifferentSigns, IsList, alts
<1>5. CASE alts = <<"Or">> \/ alts = <<"And">>
  BY <1>5 DEF DifferentSigns, IsList, Call, alts
<1>6. CASE \/ alts = <<"Sub", "Mul">> \/ alts = <<"Add", "Mul">> \/ alts = <<"SDiv", "Add">>
           \/ alts = <<"Mul", "Sub">> \/ alts = <<"SDiv", "Mul">> \/ alts = <<"UDiv", "Mul">>
  <2>1. Len(alts) = 2 /\ IsList(alts) /\ alts[1] # Call /\ alts[2] # Call
    BY <1>6 DEF IsList, Call
  <2>2. binName(alts[1], ty) # binName(alts[2], ty)
    BY <1>6, <1>3
  <2>3. signs[1] # signs[2]
    BY <2>1, <2>2
  <2>4. \A k \in 1..Len(alts) : k = 1 \/ k = 2
    BY <2>1
  <2> HIDE DEF signs
  <2>5. DifferentSigns(alts, signs)
    BY <2>1, <2>3, <2>4 DEF DifferentSigns
  <2> QED
    BY <2>1, <2>5 DEF alts, signs
<1> QED
  BY <1>1, <1>2, <1>4, <1>5, <1>6

\* The kinds of the loop over operators.
LEMMA BinKindIs == ASSUME NEW op, NEW ty PROVE binKind(op, ty) \in BinKinds
BY DEF binKind, BinKinds

\* The alternatives of a comparison: three.
LEMMA CmpChoices ==
  ASSUME NEW op \in CmpOps
  PROVE  /\ DifferentSigns(appendPreds[op], [k \in 1..Len(appendPreds[op]) |-> predName[appendPreds[op][k]]])
         /\ Len(appendPreds[op]) # 0 /\ op # Call
<1> DEFINE alts == appendPreds[op]
           signs == [k \in 1..Len(alts) |-> predName[alts[k]]]
<1>1. op \in {"EQ", "NE", "SGT", "SGE", "SLT", "SLE", "UGT", "UGE", "ULT", "ULE"}
  BY DEF CmpOps, appendPreds
<1>2. \/ alts = <<"NE", "SLT", "SGT">> \/ alts = <<"EQ", "SLE", "SGE">>
      \/ alts = <<"SGE", "SLT", "EQ">> \/ alts = <<"SGT", "SLE", "EQ">>
      \/ alts = <<"SLE", "SGT", "EQ">> \/ alts = <<"SLT", "SGE", "EQ">>
      \/ alts = <<"UGE", "ULT", "EQ">> \/ alts = <<"UGT", "ULE", "EQ">>
      \/ alts = <<"ULE", "UGT", "EQ">> \/ alts = <<"ULT", "UGE", "EQ">>
  BY <1>1 DEF appendPreds
<1>3. /\ predName["EQ"] = "==" /\ predName["NE"] = "!="
      /\ predName["SGT"] = ">" /\ predName["SGE"] = ">=" /\ predName["SLT"] = "<" /\ predName["SLE"] = "<="
      /\ predName["UGT"] = ">" /\ predName["UGE"] = ">=" /\ predName["ULT"] = "<" /\ predName["ULE"] = "<="
  BY DEF predName
<1> HIDE DEF alts
<1>4. Len(alts) = 3 /\ IsList(alts)
  BY <1>2 DEF IsList
<1>5. alts[1] # Call /\ alts[2] # Call /\ alts[3] # Call
  BY <1>2 DEF Call
<1>6. /\ predName[alts[1]] # predName[alts[2]] /\ predName[alts[1]] # predName[alts[3]]
      /\ predName[alts[2]] # predName[alts[3]]
  BY <1>2, <1>3
<1>7. signs[1] # signs[2] /\ signs[1] # signs[3] /\ signs[2] # signs[3]
  BY <1>4, <1>6
<1>8. \A k \in 1..Len(alts) : k = 1 \/ k = 2 \/ k = 3
  BY <1>4
<1> HIDE DEF signs
<1>9. DifferentSigns(alts, signs)
  BY <1>4, <1>5, <1>7, <1>8 DEF DifferentSigns
<1> QED
  BY <1>1, <1>4, <1>9 DEF alts, signs, Call

\* The records of a site: for each alternative one, with its sign.
Records(b, n, alts, signs, kind, op) ==
  [k \in 1..Len(alts) |-> makeRec(b, Ins(b, n), kind, op, signs[k], 0)]

\* They are records of the site, and each has its id.
LEMMA MadeIs ==
  ASSUME NEW b, Layout(b), NEW n \in 1..Len(b), NEW alts, NEW signs, DifferentSigns(alts, signs),
         NEW kinds, NEW kind \in kinds, NEW op,
         NEW made, made = Records(b, n, alts, signs, kind, op)
  PROVE  /\ Made(made, kinds, instOrdinal(b, n)) /\ Len(made) = Len(alts)
         /\ Ids(made) = FirstIds(made, Len(alts))
<1> DEFINE I == Ins(b, n)
           N == Len(alts)
           o == instOrdinal(b, n)
<1>1. N \in Nat /\ \A j, k \in 1..N : j # k => signs[j] # signs[k]
  BY DEF DifferentSigns, IsList
<1>2. o \in Nat /\ I.name = n
  BY AtIs DEF Named, instOrdinal, Ins
<1>3. \A k \in 1..N : made[k] = makeRec(b, I, kind, op, signs[k], 0)
  BY DEF Records
<1>4. IsList(made) /\ Len(made) = N
  <2> DEFINE R(k) == makeRec(b, I, kind, op, signs[k], 0)
  <2>1. made = [k \in 1..N |-> R(k)]
    BY DEF Records
  <2> HIDE DEF R, N
  <2> QED
    BY <2>1, <1>1 DEF IsList
<1> HIDE DEF I
<1>5. ASSUME NEW k \in 1..N
      PROVE  made[k].key[3] = kind /\ made[k].key[2] = o /\ made[k].key[5] = signs[k]
  <2>1. made[k].key = <<locOf(I), o, kind, op, signs[k]>>
    <3>1. made[k] = makeRec(b, I, kind, op, signs[k], 0)
      BY <1>3
    <3>2. makeRec(b, I, kind, op, signs[k], 0).key = keyFor(b, I, kind, op, signs[k])
      BY DEF makeRec
    <3>3. keyFor(b, I, kind, op, signs[k]) = <<locOf(I), o, kind, op, signs[k]>>
      BY ONLY <1>2 DEF keyFor
    <3> QED
      BY ONLY <3>1, <3>2, <3>3
  <2> HIDE DEF o
  <2> QED
    BY <2>1
<1> HIDE DEF N, o
<1>6. Made(made, kinds, o)
  <2>1. \A k \in 1..N : made[k].key[3] \in kinds /\ made[k].key[2] = o
    BY ONLY <1>5, kind \in kinds
  <2>2. \A j, k \in 1..N : j # k => made[j].key[5] # made[k].key[5]
    BY ONLY <1>1, <1>5
  <2> QED
    BY ONLY <1>2, <1>4, <2>1, <2>2 DEF Made
<1> QED
  BY <1>4, <1>6 DEF Ids, FirstIds, N, o
-----------------------------------------------------------------------------
(* The sites that wait *)

\* The rest of a list.
LEMMA TailIs ==
  ASSUME NEW s, IsList(s), s # <<>>
  PROVE  /\ IsList(Tail(s)) /\ Head(s) = s[1] /\ 1 \in 1..Len(s) /\ Len(s) \in Nat
         /\ Len(Tail(s)) = Len(s) - 1
         /\ \A k \in 1..Len(Tail(s)) : Tail(s)[k] = s[k + 1] /\ k + 1 \in 1..Len(s)
<1> DEFINE A == {s[k] : k \in 1..Len(s)}
<1>1. \A k \in 1..Len(s) : s[k] \in A
  OBVIOUS
<1> HIDE DEF A
<1>2. s \in Seq(A) /\ Len(s) \in Nat
  BY <1>1, ListIsSeq
<1>3. Len(s) # 0
  BY <1>2
<1>4. /\ Tail(s) \in Seq(A) /\ Head(s) = s[1] /\ Len(Tail(s)) = Len(s) - 1
      /\ \A k \in 1..Len(s) - 1 : Tail(s)[k] = s[k + 1]
  BY <1>2, <1>3
<1>5. IsList(Tail(s))
  BY <1>4, SeqIsList
<1> QED
  BY <1>2, <1>3, <1>4, <1>5

\* After the first of the sites, those behind it wait.
LEMMA SitesTail ==
  ASSUME NEW b, NEW names, Sites(b, names), names # <<>>
  PROVE  /\ Head(names) = names[1] /\ Head(names) \in 1..Len(b) /\ 1 \in 1..Len(names)
         /\ Sites(b, Tail(names)) /\ (Comparisons(b, names) => Comparisons(b, Tail(names)))
         /\ \A k \in 1..Len(Tail(names)) :
              /\ Tail(names)[k] = names[k + 1] /\ k + 1 \in 1..Len(names)
              /\ At(b, Head(names)) < At(b, Tail(names)[k])
<1> DEFINE t == Tail(names)
<1>1. /\ IsList(t) /\ Head(names) = names[1] /\ 1 \in 1..Len(names) /\ Len(names) \in Nat
      /\ Len(t) = Len(names) - 1
      /\ \A k \in 1..Len(t) : t[k] = names[k + 1] /\ k + 1 \in 1..Len(names)
  BY TailIs DEF Sites
<1> HIDE DEF t
<1>2. /\ \A k \in 1..Len(names) : names[k] \in 1..Len(b)
      /\ \A k \in 1..Len(names), j \in 1..Len(names) : j < k => At(b, names[j]) < At(b, names[k])
  BY <1>1 DEF Sites
<1>3. ASSUME NEW k \in 1..Len(t)
      PROVE  t[k] \in 1..Len(b) /\ \A j \in 1..k - 1 : At(b, t[j]) < At(b, t[k])
  <2>1. t[k] = names[k + 1] /\ k + 1 \in 1..Len(names)
    BY <1>1
  <2>2. ASSUME NEW j \in 1..k - 1 PROVE At(b, t[j]) < At(b, t[k])
    <3>1. j \in 1..Len(t) /\ j + 1 < k + 1
      BY <1>1
    <3>2. t[j] = names[j + 1] /\ j + 1 \in 1..Len(names)
      BY <1>1, <3>1
    <3> QED
      BY <1>2, <2>1, <3>1, <3>2
  <2> QED
    BY <1>2, <2>1, <2>2
<1>4. ASSUME NEW k \in 1..Len(t) PROVE At(b, names[1]) < At(b, t[k])
  <2>1. t[k] = names[k + 1] /\ k + 1 \in 1..Len(names) /\ 1 < k + 1
    BY <1>1
  <2> QED
    BY <1>1, <1>2, <2>1
<1>5. Sites(b, t) /\ (Comparisons(b, names) => Comparisons(b, t))
  BY <1>1, <1>3 DEF Sites, Comparisons
<1> QED
  BY <1>1, <1>2, <1>4, <1>5 DEF t

\* After the first of the constants, those behind it wait.
LEMMA LiteralSitesTail ==
  ASSUME NEW b, NEW sites, LiteralSites(b, sites), sites # <<>>
  PROVE  /\ Head(sites) = sites[1] /\ Head(sites)[1] \in 1..Len(b) /\ 1 \in 1..Len(sites)
         /\ Head(sites)[2] \in DOMAIN Ins(b, Head(sites)[1]).args
         /\ Ins(b, Head(sites)[1]).op \in CmpOps \union {"ret"}
         /\ LiteralSites(b, Tail(sites))
         /\ \A k \in 1..Len(Tail(sites)) :
              /\ Tail(sites)[k] = sites[k + 1] /\ k + 1 \in 1..Len(sites)
              /\ At(b, Head(sites)[1]) <= At(b, Tail(sites)[k][1])
<1> DEFINE t == Tail(sites)
<1>1. /\ IsList(t) /\ Head(sites) = sites[1] /\ 1 \in 1..Len(sites) /\ Len(sites) \in Nat
      /\ Len(t) = Len(sites) - 1
      /\ \A k \in 1..Len(t) : t[k] = sites[k + 1] /\ k + 1 \in 1..Len(sites)
  BY TailIs DEF LiteralSites
<1> HIDE DEF t
<1>2. /\ \A k \in 1..Len(sites) :
           /\ sites[k][1] \in 1..Len(b) /\ Ins(b, sites[k][1]).op \in CmpOps \union {"ret"}
           /\ sites[k][2] \in DOMAIN Ins(b, sites[k][1]).args
      /\ \A k \in 1..Len(sites), j \in 1..Len(sites) :
           j < k => At(b, sites[j][1]) <= At(b, sites[k][1])
  BY <1>1 DEF LiteralSites
<1>3. ASSUME NEW k \in 1..Len(t)
      PROVE  /\ t[k][1] \in 1..Len(b) /\ Ins(b, t[k][1]).op \in CmpOps \union {"ret"}
             /\ t[k][2] \in DOMAIN Ins(b, t[k][1]).args
             /\ \A j \in 1..k - 1 : At(b, t[j][1]) <= At(b, t[k][1])
  <2>1. t[k] = sites[k + 1] /\ k + 1 \in 1..Len(sites)
    BY <1>1
  <2>2. ASSUME NEW j \in 1..k - 1 PROVE At(b, t[j][1]) <= At(b, t[k][1])
    <3>1. j \in 1..Len(t) /\ j + 1 < k + 1
      BY <1>1
    <3>2. t[j] = sites[j + 1] /\ j + 1 \in 1..Len(sites)
      BY <1>1, <3>1
    <3> QED
      BY <1>2, <2>1, <3>1, <3>2
  <2> QED
    BY <1>2, <2>1, <2>2
<1>4. ASSUME NEW k \in 1..Len(t) PROVE At(b, sites[1][1]) <= At(b, t[k][1])
  <2>1. t[k] = sites[k + 1] /\ k + 1 \in 1..Len(sites) /\ 1 < k + 1
    BY <1>1
  <2> QED
    BY <1>1, <1>2, <2>1
<1>5. LiteralSites(b, t)
  BY <1>1, <1>3 DEF LiteralSites
<1> QED
  BY <1>1, <1>2, <1>4, <1>5 DEF t

\* Another loop's sites: its kinds are not those of the new records.
LEMMA OthersWait ==
  ASSUME NEW b, Layout(b), NEW c, NEW i, NEW d, Moved(b, c, i, d),
         NEW rs, NEW made, NEW u, Follows(u, rs, made), NEW kinds, NEW o, Made(made, kinds, o),
         NEW K, K \cap kinds = {}, NEW m \in 1..Len(b), Passed(rs, b, K, m)
  PROVE  Passed(u, c, K, m)
<1>1. Passed(rs, c, K, m)
  BY PassedMove
<1> QED
  BY <1>1, PassedGrows

\* The same loop's sites: they are behind the one that is done.
LEMMA RestWaits ==
  ASSUME NEW b, Layout(b), NEW c, NEW i, NEW d, Moved(b, c, i, d), NEW n \in 1..Len(b),
         NEW rs, NEW made, NEW u, Follows(u, rs, made), NEW kinds,
         Made(made, kinds, instOrdinal(b, n)),
         NEW m \in 1..Len(b), Passed(rs, b, kinds, m),
         \/ At(b, n) < At(b, m)
         \/ At(b, n) <= At(b, m) /\ i = At(b, n) /\ d >= 1
  PROVE  Passed(u, c, kinds, m)
<1> DEFINE o == instOrdinal(b, n)
<1>1. Passed(rs, c, kinds, m)
  BY PassedMove
<1>2. At(b, m) \in 1..Len(b) /\ At(c, m) = Place(i, d, At(b, m)) /\ At(b, n) \in 1..Len(b)
  BY MovedAt
<1>3. d \in Nat /\ i \in Nat /\ Len(b) \in Nat
  BY DEF Moved, Layout, IsList
<1>4. At(b, n) < At(c, m) /\ At(b, n) \in Nat /\ At(b, n) >= 1 /\ At(c, m) \in Nat
  <2> DEFINE x == At(b, n)
             y == At(b, m)
             z == At(c, m)
  <2>1. /\ y \in 1..Len(b) /\ z = Place(i, d, y) /\ x \in 1..Len(b)
        /\ (x < y \/ (x <= y /\ i = x /\ d >= 1))
    BY <1>2
  <2> HIDE DEF x, y, z
  <2>2. x < z /\ x \in Nat /\ x >= 1 /\ z \in Nat
    BY <2>1, <1>3 DEF Place
  <2> QED
    BY <2>2 DEF x, y, z
<1>5. o \in 0..instOrdinal(c, m) - 1
  BY <1>4 DEF instOrdinal
<1> HIDE DEF o
<1>6. Made(made, kinds, o)
  BY DEF o
<1> QED
  BY <1>1, <1>5, <1>6, PassedGrows

\* Other loops' sites, all of them.
LEMMA OthersStay ==
  ASSUME NEW b, Layout(b), NEW c, NEW i, NEW d, Moved(b, c, i, d),
         NEW rs, NEW made, NEW u, Follows(u, rs, made), NEW kinds, NEW o, Made(made, kinds, o),
         NEW K, K \cap kinds = {}
  PROVE  /\ \A names : Sites(b, names) /\ Awaited(rs, b, K, names) => Awaited(u, c, K, names)
         /\ \A sites : K = {"LVR"} /\ LiteralSites(b, sites) /\ LiteralsAwaited(rs, b, sites)
                      => LiteralsAwaited(u, c, sites)
<1>1. ASSUME NEW names, Sites(b, names), Awaited(rs, b, K, names) PROVE Awaited(u, c, K, names)
  <2>1. \A k \in 1..Len(names) : names[k] \in 1..Len(b) /\ Passed(rs, b, K, names[k])
    BY <1>1 DEF Sites, Awaited
  <2>2. ASSUME NEW k \in 1..Len(names) PROVE Passed(u, c, K, names[k])
    <3> DEFINE m == names[k]
    <3>1. m \in 1..Len(b) /\ Passed(rs, b, K, m)
      BY <2>1
    <3> HIDE DEF m
    <3> QED
      BY <3>1, OthersWait DEF m
  <2> QED
    BY <2>2 DEF Awaited
<1>2. ASSUME K = {"LVR"}, NEW sites, LiteralSites(b, sites), LiteralsAwaited(rs, b, sites)
      PROVE  LiteralsAwaited(u, c, sites)
  <2>1. \A k \in 1..Len(sites) : sites[k][1] \in 1..Len(b) /\ Passed(rs, b, K, sites[k][1])
    BY <1>2 DEF LiteralSites, LiteralsAwaited
  <2>2. ASSUME NEW k \in 1..Len(sites) PROVE Passed(u, c, K, sites[k][1])
    <3> DEFINE m == sites[k][1]
    <3>1. m \in 1..Len(b) /\ Passed(rs, b, K, m)
      BY <2>1
    <3> HIDE DEF m
    <3> QED
      BY <3>1, OthersWait DEF m
  <2> QED
    BY <1>2, <2>2 DEF LiteralsAwaited
<1> QED
  BY <1>1, <1>2

\* What is the same for each loop: the function, the records and their ids.
LEMMA SiteDone ==
  ASSUME NEW b, NEW c, NEW i, NEW d, NEW rs, NEW bs, NEW cs, NEW ls, Consistent(b, rs, bs, cs, ls),
         NEW n, NEW kinds, Passed(rs, b, kinds, n), NEW made, Made(made, kinds, instOrdinal(b, n)),
         Instrumented(b, c, i, d, Ids(made))
  PROVE  /\ Follows(rs \o made, rs, made) /\ IsList(rs \o made) /\ Distinct(rs \o made)
         /\ Layout(c) /\ CallsHaveIds(c) /\ CalledIds(c) = Ids(rs \o made)
         /\ Sites(c, bs) /\ Sites(c, cs) /\ Comparisons(c, cs) /\ LiteralSites(c, ls)
<1> DEFINE u == rs \o made
<1>1. /\ Layout(b) /\ IsList(rs) /\ Distinct(rs) /\ CalledIds(b) = Ids(rs)
      /\ Sites(b, bs) /\ Sites(b, cs) /\ Comparisons(b, cs) /\ LiteralSites(b, ls)
  BY DEF Consistent
<1>2. Moved(b, c, i, d) /\ CallsHaveIds(c) /\ CalledIds(c) = CalledIds(b) \union Ids(made)
  BY DEF Instrumented
<1>3. IsList(u) /\ Follows(u, rs, made) /\ Distinct(u)
  BY <1>1, RecordsGrow
<1> HIDE DEF u
<1>4. Ids(u) = Ids(rs) \union Ids(made)
  BY <1>3, IdsGrow
<1>5. Layout(c)
  BY <1>2 DEF Moved
<1>6. Sites(c, bs) /\ Sites(c, cs) /\ Comparisons(c, cs)
  BY <1>1, <1>2, SitesMove
<1>7. LiteralSites(c, ls)
  BY <1>1, <1>2, LiteralSitesMove
<1> QED
  BY <1>1, <1>2, <1>3, <1>4, <1>5, <1>6, <1>7 DEF u

\* After an operator.
LEMMA BinDone ==
  ASSUME NEW b, NEW rs, NEW bs, NEW cs, NEW ls, Consistent(b, rs, bs, cs, ls), bs # <<>>,
         NEW n, n = Head(bs), NEW made, Made(made, BinKinds, instOrdinal(b, n)),
         NEW c, NEW d, Instrumented(b, c, At(b, n) + 1, d, Ids(made))
  PROVE  Consistent(c, rs \o made, Tail(bs), cs, ls)
<1> DEFINE u == rs \o made
           i == At(b, n) + 1
           t == Tail(bs)
           K == BinKinds
<1>1. /\ Layout(b) /\ Sites(b, bs) /\ Awaited(rs, b, BinKinds, bs)
      /\ Sites(b, cs) /\ Awaited(rs, b, {"ROR"}, cs) /\ Comparisons(b, cs)
      /\ LiteralSites(b, ls) /\ LiteralsAwaited(rs, b, ls)
  BY DEF Consistent
<1>2. /\ n = bs[1] /\ n \in 1..Len(b) /\ 1 \in 1..Len(bs) /\ Sites(b, t)
      /\ \A k \in 1..Len(t) :
           t[k] = bs[k + 1] /\ k + 1 \in 1..Len(bs) /\ At(b, n) < At(b, t[k])
  BY <1>1, SitesTail
<1>3. Passed(rs, b, K, n)
  BY <1>1, <1>2 DEF Awaited
<1>4. Made(made, K, instOrdinal(b, n)) /\ Instrumented(b, c, i, d, Ids(made)) /\ Moved(b, c, i, d)
  BY DEF Instrumented
<1> HIDE DEF i, K, t, u
<1>5. /\ Follows(rs \o made, rs, made) /\ IsList(rs \o made) /\ Distinct(rs \o made)
      /\ Layout(c) /\ CallsHaveIds(c) /\ CalledIds(c) = Ids(rs \o made)
      /\ Sites(c, bs) /\ Sites(c, cs) /\ Comparisons(c, cs) /\ LiteralSites(c, ls)
  BY <1>3, <1>4, SiteDone
<1>6. Follows(u, rs, made)
  BY <1>5 DEF u
<1>7. Sites(b, t)
  BY <1>1, <1>2
<1>8. Sites(c, t)
  BY <1>1, <1>4, <1>7, SitesMove
<1>9. ASSUME NEW k \in 1..Len(t) PROVE Passed(u, c, K, t[k])
  <2> DEFINE m == t[k]
  <2>1. m \in 1..Len(b) /\ Passed(rs, b, K, m) /\ At(b, n) < At(b, m)
    <3>1. k + 1 \in 1..Len(bs) /\ t[k] = bs[k + 1] /\ At(b, n) < At(b, t[k])
      BY <1>2
    <3>2. bs[k + 1] \in 1..Len(b)
      BY <1>1, <3>1 DEF Sites
    <3>3. Passed(rs, b, K, bs[k + 1])
      BY <1>1, <3>1 DEF Awaited, K
    <3> QED
      BY <3>1, <3>2, <3>3
  <2> HIDE DEF m
  <2>2. Passed(u, c, K, m)
    BY <1>1, <1>2, <1>4, <1>6, <2>1, RestWaits
  <2> QED
    BY <2>2 DEF m
<1>10. Awaited(u, c, BinKinds, t)
  BY <1>9 DEF Awaited, K
<1>11. Awaited(u, c, {"ROR"}, cs)
  <2> DEFINE L == {"ROR"}
  <2>1. L \cap K = {} /\ Awaited(rs, b, L, cs)
    BY <1>1 DEF K, BinKinds
  <2> HIDE DEF L
  <2>2. Awaited(u, c, L, cs)
    BY <1>1, <1>4, <1>6, <2>1, OthersStay
  <2> QED
    BY <2>2 DEF L
<1>12. LiteralsAwaited(u, c, ls)
  <2> DEFINE L == {"LVR"}
  <2>1. L \cap K = {} /\ L = {"LVR"}
    BY DEF K, BinKinds
  <2> HIDE DEF L
  <2> QED
    BY <1>1, <1>4, <1>6, <2>1, OthersStay
<1> QED
  BY <1>5, <1>8, <1>10, <1>11, <1>12 DEF Consistent, u, t

\* After a comparison.
LEMMA CmpDone ==
  ASSUME NEW b, NEW rs, NEW bs, NEW cs, NEW ls, Consistent(b, rs, bs, cs, ls), cs # <<>>,
         NEW n, n = Head(cs), NEW made, Made(made, {"ROR"}, instOrdinal(b, n)),
         NEW c, NEW d, Instrumented(b, c, At(b, n) + 1, d, Ids(made))
  PROVE  Consistent(c, rs \o made, bs, Tail(cs), ls)
<1> DEFINE u == rs \o made
           i == At(b, n) + 1
           t == Tail(cs)
           K == {"ROR"}
<1>1. /\ Layout(b) /\ Sites(b, bs) /\ Awaited(rs, b, BinKinds, bs)
      /\ Sites(b, cs) /\ Awaited(rs, b, {"ROR"}, cs) /\ Comparisons(b, cs)
      /\ LiteralSites(b, ls) /\ LiteralsAwaited(rs, b, ls)
  BY DEF Consistent
<1>2. /\ n = cs[1] /\ n \in 1..Len(b) /\ 1 \in 1..Len(cs) /\ Sites(b, t)
      /\ \A k \in 1..Len(t) :
           t[k] = cs[k + 1] /\ k + 1 \in 1..Len(cs) /\ At(b, n) < At(b, t[k])
  BY <1>1, SitesTail
<1>3. Passed(rs, b, K, n)
  BY <1>1, <1>2 DEF Awaited
<1>4. Made(made, K, instOrdinal(b, n)) /\ Instrumented(b, c, i, d, Ids(made)) /\ Moved(b, c, i, d)
  BY DEF Instrumented
<1> HIDE DEF i, K, t, u
<1>5. /\ Follows(rs \o made, rs, made) /\ IsList(rs \o made) /\ Distinct(rs \o made)
      /\ Layout(c) /\ CallsHaveIds(c) /\ CalledIds(c) = Ids(rs \o made)
      /\ Sites(c, bs) /\ Sites(c, cs) /\ Comparisons(c, cs) /\ LiteralSites(c, ls)
  BY <1>3, <1>4, SiteDone
<1>6. Follows(u, rs, made)
  BY <1>5 DEF u
<1>7. Sites(b, t) /\ (Comparisons(b, cs) => Comparisons(b, t))
  BY <1>1, <1>2, SitesTail DEF t
<1>8. Sites(c, t) /\ Comparisons(c, t)
  BY <1>1, <1>4, <1>7, SitesMove
<1>9. ASSUME NEW k \in 1..Len(t) PROVE Passed(u, c, K, t[k])
  <2> DEFINE m == t[k]
  <2>1. m \in 1..Len(b) /\ Passed(rs, b, K, m) /\ At(b, n) < At(b, m)
    <3>1. k + 1 \in 1..Len(cs) /\ t[k] = cs[k + 1] /\ At(b, n) < At(b, t[k])
      BY <1>2
    <3>2. cs[k + 1] \in 1..Len(b)
      BY <1>1, <3>1 DEF Sites
    <3>3. Passed(rs, b, K, cs[k + 1])
      BY <1>1, <3>1 DEF Awaited, K
    <3> QED
      BY <3>1, <3>2, <3>3
  <2> HIDE DEF m
  <2>2. Passed(u, c, K, m)
    BY <1>1, <1>2, <1>4, <1>6, <2>1, RestWaits
  <2> QED
    BY <2>2 DEF m
<1>10. Awaited(u, c, {"ROR"}, t)
  BY <1>9 DEF Awaited, K
<1>11. Awaited(u, c, BinKinds, bs)
  <2> DEFINE L == BinKinds
  <2>1. L \cap K = {} /\ Awaited(rs, b, L, bs)
    BY <1>1 DEF K, BinKinds
  <2> HIDE DEF L
  <2>2. Awaited(u, c, L, bs)
    BY <1>1, <1>4, <1>6, <2>1, OthersStay
  <2> QED
    BY <2>2 DEF L
<1>12. LiteralsAwaited(u, c, ls)
  <2> DEFINE L == {"LVR"}
  <2>1. L \cap K = {} /\ L = {"LVR"}
    BY DEF K
  <2> HIDE DEF L
  <2> QED
    BY <1>1, <1>4, <1>6, <2>1, OthersStay
<1> QED
  BY <1>5, <1>8, <1>10, <1>11, <1>12 DEF Consistent, u, t

\* After a constant.
LEMMA LitDone ==
  ASSUME NEW b, NEW rs, NEW bs, NEW cs, NEW ls, Consistent(b, rs, bs, cs, ls), ls # <<>>,
         NEW n, n = Head(ls)[1], NEW made, Made(made, {"LVR"}, instOrdinal(b, n)),
         NEW c, NEW d, Instrumented(b, c, At(b, n), d, Ids(made)), d >= 1
  PROVE  Consistent(c, rs \o made, bs, cs, Tail(ls))
<1> DEFINE u == rs \o made
           i == At(b, n)
           t == Tail(ls)
           K == {"LVR"}
<1>1. /\ Layout(b) /\ Sites(b, bs) /\ Awaited(rs, b, BinKinds, bs)
      /\ Sites(b, cs) /\ Awaited(rs, b, {"ROR"}, cs) /\ Comparisons(b, cs)
      /\ LiteralSites(b, ls) /\ LiteralsAwaited(rs, b, ls)
  BY DEF Consistent
<1>2. /\ Head(ls) = ls[1] /\ n \in 1..Len(b) /\ 1 \in 1..Len(ls) /\ LiteralSites(b, t)
      /\ \A k \in 1..Len(t) :
           t[k] = ls[k + 1] /\ k + 1 \in 1..Len(ls) /\ At(b, n) <= At(b, t[k][1])
  BY <1>1, LiteralSitesTail
<1>3. Passed(rs, b, K, n)
  BY <1>1, <1>2 DEF LiteralsAwaited
<1>4. Made(made, K, instOrdinal(b, n)) /\ Instrumented(b, c, i, d, Ids(made)) /\ Moved(b, c, i, d)
  BY DEF Instrumented
<1> HIDE DEF i, K, t, u
<1>5. /\ Follows(rs \o made, rs, made) /\ IsList(rs \o made) /\ Distinct(rs \o made)
      /\ Layout(c) /\ CallsHaveIds(c) /\ CalledIds(c) = Ids(rs \o made)
      /\ Sites(c, bs) /\ Sites(c, cs) /\ Comparisons(c, cs) /\ LiteralSites(c, ls)
  BY <1>3, <1>4, SiteDone
<1>6. Follows(u, rs, made)
  BY <1>5 DEF u
<1>7. LiteralSites(c, t)
  BY <1>1, <1>2, <1>4, LiteralSitesMove
<1>8. ASSUME NEW k \in 1..Len(t) PROVE Passed(u, c, {"LVR"}, t[k][1])
  <2> DEFINE m == t[k][1]
  <2>1. /\ m \in 1..Len(b) /\ Passed(rs, b, K, m)
        /\ At(b, n) <= At(b, m) /\ i = At(b, n) /\ d >= 1
    <3>1. k + 1 \in 1..Len(ls) /\ t[k] = ls[k + 1] /\ At(b, n) <= At(b, t[k][1])
      BY <1>2
    <3>2. ls[k + 1][1] \in 1..Len(b)
      BY <1>1, <3>1 DEF LiteralSites
    <3>3. Passed(rs, b, K, ls[k + 1][1])
      BY <1>1, <3>1 DEF LiteralsAwaited, K
    <3> QED
      BY <3>1, <3>2, <3>3 DEF i
  <2> HIDE DEF m
  <2>2. Passed(u, c, K, m)
    BY <1>1, <1>2, <1>4, <1>6, <2>1, RestWaits
  <2> QED
    BY <2>2 DEF m, K
<1>9. LiteralsAwaited(u, c, t)
  BY <1>8 DEF LiteralsAwaited
<1>11. Awaited(u, c, BinKinds, bs)
  <2> DEFINE L == BinKinds
  <2>1. L \cap K = {} /\ Awaited(rs, b, L, bs)
    BY <1>1 DEF K, BinKinds
  <2> HIDE DEF L
  <2>2. Awaited(u, c, L, bs)
    BY <1>1, <1>4, <1>6, <2>1, OthersStay
  <2> QED
    BY <2>2 DEF L
<1>12. Awaited(u, c, {"ROR"}, cs)
  <2> DEFINE L == {"ROR"}
  <2>1. L \cap K = {} /\ Awaited(rs, b, L, cs)
    BY <1>1 DEF K
  <2> HIDE DEF L
  <2>2. Awaited(u, c, L, cs)
    BY <1>1, <1>4, <1>6, <2>1, OthersStay
  <2> QED
    BY <2>2 DEF L
<1> QED
  BY <1>5, <1>7, <1>9, <1>11, <1>12 DEF Consistent, u, t

\* After a site without an alternative or a line: the others wait on.
LEMMA SiteSkipped ==
  ASSUME NEW b, NEW rs, NEW bs, NEW cs, NEW ls, Consistent(b, rs, bs, cs, ls)
  PROVE  /\ bs # <<>> => Consistent(b, rs, Tail(bs), cs, ls)
         /\ cs # <<>> => Consistent(b, rs, bs, Tail(cs), ls)
         /\ ls # <<>> => Consistent(b, rs, bs, cs, Tail(ls))
<1>1. /\ Sites(b, bs) /\ Awaited(rs, b, BinKinds, bs)
      /\ Sites(b, cs) /\ Awaited(rs, b, {"ROR"}, cs) /\ Comparisons(b, cs)
      /\ LiteralSites(b, ls) /\ LiteralsAwaited(rs, b, ls)
  BY DEF Consistent
<1>2. bs # <<>> => Sites(b, Tail(bs)) /\ Awaited(rs, b, BinKinds, Tail(bs))
  BY <1>1, SitesTail DEF Awaited
<1>3. cs # <<>> => /\ Sites(b, Tail(cs)) /\ Awaited(rs, b, {"ROR"}, Tail(cs))
                  /\ Comparisons(b, Tail(cs))
  BY <1>1, SitesTail DEF Awaited
<1>4. ls # <<>> => LiteralSites(b, Tail(ls)) /\ LiteralsAwaited(rs, b, Tail(ls))
  BY <1>1, LiteralSitesTail DEF LiteralsAwaited
<1> QED
  BY <1>2, <1>3, <1>4 DEF Consistent
-----------------------------------------------------------------------------
(* Collecting *)

\* Names gives the instructions at the places, in layout order.
LEMMA NamesAre ==
  ASSUME NEW b, Layout(b), NEW at \in SUBSET (1..Len(b))
  PROVE  /\ Sites(b, Names(b, at))
         /\ \A k \in 1..Len(Names(b, at)) : \E i \in at : Ins(b, Names(b, at)[k]) = b[i]
<1> DEFINE N == Len(b)
           s == [i \in DOMAIN b |-> b[i].name]
           S == {b[i].name : i \in at}
           t == Names(b, at)
<1>1. N \in Nat /\ DOMAIN b = 1..N /\ \A i \in 1..N : b[i].name \in 1..N
  BY ListIsSeq DEF Layout
<1>2. s \in Seq(1..N) /\ Len(s) = N /\ \A i \in 1..N : s[i] = b[i].name
  <2>1. s = [i \in 1..N |-> b[i].name]
    BY <1>1
  <2>2. s \in [1..N -> 1..N]
    BY <1>1, <2>1
  <2> HIDE DEF N
  <2> QED
    BY <1>1, <2>1, <2>2
<1>3. t = Select(s, S)
  BY DEF Names
<1> HIDE DEF s, S, t
<1>4. t \in Seq(1..N) /\ \E g : Picked(s, S, N, t, g)
  BY <1>2, <1>3, SelectPicks
<1>5. PICK g : Picked(s, S, N, t, g)
  BY <1>4
<1>6. Len(t) \in Nat /\ IsList(t)
  BY <1>4, SeqIsList
<1>7. /\ \A k \in 1..Len(t) : g[k] \in 1..N /\ t[k] = s[g[k]] /\ t[k] \in S
      /\ \A k \in 1..Len(t), j \in 1..Len(t) : j < k => g[j] < g[k]
  BY <1>5 DEF Picked
<1>8. ASSUME NEW k \in 1..Len(t)
      PROVE  t[k] \in 1..N /\ At(b, t[k]) = g[k] /\ g[k] \in at
  <2>1. Named(b, t[k], g[k])
    BY <1>2, <1>7 DEF Named
  <2>2. t[k] \in 1..N /\ At(b, t[k]) = g[k]
    BY <2>1, AtIsOnly
  <2>3. PICK i \in at : t[k] = b[i].name
    BY <1>7 DEF S
  <2>4. i = g[k]
    BY <2>1, <2>3 DEF Layout, Named
  <2> QED
    BY <2>2, <2>3, <2>4
<1>9. Sites(b, t)
  <2> SUFFICES ASSUME NEW k \in 1..Len(t), NEW j \in 1..k - 1 PROVE At(b, t[j]) < At(b, t[k])
    BY <1>6, <1>8 DEF Sites
  <2>1. j \in 1..Len(t) /\ j < k
    BY <1>6
  <2> QED
    BY <2>1, <1>7, <1>8
<1>10. \A k \in 1..Len(t) : \E i \in at : Ins(b, t[k]) = b[i]
  BY <1>8 DEF Ins
<1> QED
  BY <1>9, <1>10 DEF t

\* What Found gives: operands, and only of a comparison or a return.
LEMMA FoundIs ==
  ASSUME NEW I, IsList(I.args)
  PROVE  /\ IsList(Found(I))
         /\ \A k \in 1..Len(Found(I)) :
              Found(I)[k] \in DOMAIN I.args /\ I.op \in CmpOps \union {"ret"}
<1> DEFINE D == DOMAIN I.args
           N == Len(I.args)
           s == [a \in D |-> a]
           S == {a \in D : I.args[a] \in {<<"int", 0>>, <<"int", 1>>}}
<1>1. D = 1..N /\ N \in Nat
  BY ListIsSeq
<1>2. s \in Seq(D)
  <2>1. s = [a \in 1..N |-> a] /\ s \in [1..N -> 1..N]
    BY <1>1
  <2> HIDE DEF N, D
  <2> QED
    BY <1>1, <2>1
<1>3. Select(s, S) \in Seq(D)
  BY <1>2, SelectPicks
<1>4. Found(I) = IF I.op \notin CmpOps \union {"ret"} THEN <<>> ELSE Select(s, S)
  BY DEF Found
<1> HIDE DEF D, N, s, S
<1>5. CASE I.op \notin CmpOps \union {"ret"}
  BY <1>4, <1>5 DEF IsList
<1>6. CASE I.op \in CmpOps \union {"ret"}
  <2>1. Found(I) \in Seq(D)
    BY <1>3, <1>4, <1>6
  <2>2. IsList(Found(I))
    BY <2>1, SeqIsList
  <2>3. \A k \in 1..Len(Found(I)) : Found(I)[k] \in D
    BY <2>1
  <2> QED
    BY <2>2, <2>3, <1>6 DEF D
<1> QED
  BY <1>5, <1>6

\* Literals gives the constants in layout order.
LEMMA LiteralsAre ==
  ASSUME NEW b, Layout(b), \A i \in 1..Len(b) : IsList(b[i].args)
  PROVE  LiteralSites(b, Literals(b))
<1> DEFINE N == Len(b)
           L(i) == LiteralsOf(b[i])
           ss == [i \in DOMAIN b |-> L(i)]
           A == UNION {{L(i)[k] : k \in 1..Len(L(i))} : i \in 1..N}
           t == Literals(b)
<1>1. N \in Nat /\ DOMAIN b = 1..N /\ \A i \in 1..N : Named(b, b[i].name, i)
  BY ListIsSeq DEF Layout, Named
<1>2. ASSUME NEW i \in 1..N
      PROVE  /\ IsList(L(i))
             /\ \A k \in 1..Len(L(i)) :
                  /\ L(i)[k][1] = b[i].name /\ L(i)[k][2] \in DOMAIN b[i].args
                  /\ b[i].op \in CmpOps \union {"ret"}
  <2> DEFINE I == b[i]
             F == Found(I)
             G(k) == <<I.name, F[k]>>
  <2>1. IsList(F) /\ \A k \in 1..Len(F) : F[k] \in DOMAIN I.args /\ I.op \in CmpOps \union {"ret"}
    BY FoundIs
  <2>2. L(i) = [k \in DOMAIN F |-> G(k)]
    BY DEF LiteralsOf
  <2> HIDE DEF F, I, G, L
  <2>3. DOMAIN F = 1..Len(F) /\ Len(F) \in Nat
    BY <2>1, ListIsSeq
  <2> DEFINE n == Len(F)
             v == L(i)
  <2>4. n \in Nat /\ v = [k \in 1..n |-> G(k)]
    BY <2>2, <2>3
  <2> HIDE DEF n, v
  <2>5. IsList(v) /\ Len(v) = n /\ \A k \in 1..n : v[k] = G(k)
    BY <2>4 DEF IsList
  <2>6. \A k \in 1..n : G(k)[1] = I.name /\ G(k)[2] = F[k]
    BY DEF G
  <2> QED
    BY <2>1, <2>5, <2>6 DEF n, v, I
<1> HIDE DEF L, A
<1>3. ss \in Seq(Seq(A)) /\ Len(ss) = N /\ \A i \in 1..N : ss[i] = L(i)
  <2>1. ASSUME NEW i \in 1..N PROVE L(i) \in Seq(A)
    <3>1. IsList(L(i))
      BY <1>2
    <3>2. \A k \in 1..Len(L(i)) : L(i)[k] \in A
      BY DEF A
    <3> QED
      BY <3>1, <3>2, ListIsSeq
  <2>2. ss = [i \in 1..N |-> L(i)]
    BY <1>1
  <2>3. ss \in [1..N -> Seq(A)]
    BY <2>1, <2>2
  <2> HIDE DEF N, ss
  <2> QED
    BY <1>1, <2>2, <2>3
<1>4. t = FlattenSeq(ss)
  BY DEF Literals, L
<1> HIDE DEF ss, t
<1>5. PICK p : Joined(A, ss, p)
  BY <1>3, FlattenJoins
<1>6. t \in Seq(A) /\ \A k \in 0..N : Len(p[k]) \in Nat
  BY <1>3, <1>4, <1>5, JoinedEnds
<1>7. IsList(t)
  BY <1>6, SeqIsList
<1> DEFINE Of(x, i) == i \in 1..N /\ Within(p, i, x) /\ t[x][1] = b[i].name
                      /\ t[x][2] \in DOMAIN b[i].args /\ b[i].op \in CmpOps \union {"ret"}
<1>8. ASSUME NEW x \in 1..Len(t) PROVE \E i : Of(x, i)
  <2>1. x \in 1..Len(FlattenSeq(ss))
    BY <1>4
  <2>2. ss \in Seq(Seq(A)) /\ Joined(A, ss, p)
    BY <1>3, <1>5
  <2>3. PICK i \in 1..Len(ss) : Element(ss, p, i, x)
    BY ONLY <2>1, <2>2, JoinedElement
  <2>4. Within(p, i, x) /\ \E y \in 1..Len(ss[i]) : FlattenSeq(ss)[x] = ss[i][y]
    BY <2>3 DEF Element
  <2>5. PICK y \in 1..Len(ss[i]) : FlattenSeq(ss)[x] = ss[i][y]
    BY <2>4
  <2>6. i \in 1..N /\ y \in 1..Len(L(i)) /\ t[x] = L(i)[y]
    BY <2>5, <1>3, <1>4
  <2>7. t[x][1] = b[i].name /\ t[x][2] \in DOMAIN b[i].args /\ b[i].op \in CmpOps \union {"ret"}
    BY <2>6, <1>2
  <2> QED
    BY <2>4, <2>6, <2>7
<1>9. ASSUME NEW x \in 1..Len(t), NEW i, Of(x, i)
      PROVE  t[x][1] \in 1..N /\ At(b, t[x][1]) = i /\ Ins(b, t[x][1]) = b[i]
  <2>1. Named(b, t[x][1], i)
    BY <1>1, <1>9
  <2>2. t[x][1] \in 1..Len(b) /\ At(b, t[x][1]) = i
    BY <2>1, AtIsOnly
  <2> QED
    BY <2>2 DEF Ins
<1>10. ASSUME NEW x \in 1..Len(t), NEW y \in 1..x - 1
       PROVE  At(b, t[y][1]) <= At(b, t[x][1])
  <2>1. y \in 1..Len(t) /\ y < x /\ x \in Nat /\ y \in Nat
    BY <1>6
  <2>2. PICK i : Of(x, i)
    BY <1>8
  <2>3. PICK j : Of(y, j)
    BY <1>8, <2>1
  <2>4. j <= i
    <3> SUFFICES ASSUME ~(j <= i) PROVE FALSE
      OBVIOUS
    <3>1. i \in 1..N /\ j \in 1..N
      BY <2>2, <2>3
    <3>2. i \in 0..j - 1 /\ j - 1 \in 0..N /\ i \in 0..N
      BY <1>1, <3>1
    <3> DEFINE h == j - 1
    <3>3. h \in 0..Len(ss) /\ i \in 0..h
      BY <3>2, <1>3
    <3> HIDE DEF h
    <3>4. Begins(p[h], p[i])
      BY <3>3, <1>3, <1>5, JoinedGrows
    <3>5. Len(p[i]) <= Len(p[h])
      BY <3>4 DEF Begins
    <3>6. x <= Len(p[i]) /\ Len(p[j - 1]) < y
      BY <2>2, <2>3 DEF Within
    <3>7. Len(p[i]) \in Nat /\ Len(p[h]) \in Nat
      BY <3>2, <1>6 DEF h
    <3> QED
      BY ONLY <3>5, <3>6, <3>7, <2>1 DEF h
  <2>5. At(b, t[y][1]) = j /\ At(b, t[x][1]) = i
    BY <1>9, <2>1, <2>2, <2>3
  <2> QED
    BY <2>4, <2>5
<1>11. ASSUME NEW x \in 1..Len(t)
       PROVE  /\ t[x][1] \in 1..N /\ Ins(b, t[x][1]).op \in CmpOps \union {"ret"}
              /\ t[x][2] \in DOMAIN Ins(b, t[x][1]).args
  <2>1. PICK i : Of(x, i)
    BY <1>8
  <2> QED
    BY <2>1, <1>9
<1>12. LiteralSites(b, t)
  BY <1>7, <1>10, <1>11 DEF LiteralSites
<1> QED
  BY <1>12 DEF t
-----------------------------------------------------------------------------
(* Theorems *)

\* The function as the compiler made it.
LEMMA SourceLayout ==
  ASSUME NEW f \in Sources
  PROVE  /\ Layout(f) /\ CallsHaveIds(f) /\ CalledIds(f) = {}
         /\ \A i \in 1..Len(f) : IsList(f[i].args)
<1>1. IsFunction(f)
  BY SourcesAreFunctions
<1>2. /\ f \in Seq(Instruction) /\ Len(f) \in Nat /\ DOMAIN f = 1..Len(f)
      /\ \A i \in 1..Len(f) : f[i] \in Instruction /\ f[i].name = i /\ f[i].op # Call
  BY <1>1 DEF IsFunction, Call
<1>3. IsList(f)
  BY <1>2, SeqIsList
<1>4. ASSUME NEW i \in 1..Len(f) PROVE IsInstruction(f[i]) /\ IsList(f[i].args)
  <2>1. f[i] \in Instruction
    BY <1>2
  <2> DEFINE I == f[i]
  <2> HIDE DEF I
  <2>2. I \in Instruction
    BY <2>1 DEF I
  <2>3. IsInstruction(I) /\ I.args \in Seq(Tags \X Int)
    BY <2>2 DEF Instruction, IsInstruction, Fields
  <2>4. IsList(I.args)
    BY <2>3, SeqIsList
  <2> QED
    BY <2>3, <2>4 DEF I
<1>5. ASSUME NEW i \in 1..Len(f) PROVE MadeBefore(f, f[i], i)
  <2> SUFFICES ASSUME NEW a \in DOMAIN f[i].args, f[i].args[a][1] = "val"
               PROVE  \E j \in 1..i - 1 : Named(f, f[i].args[a][2], j)
    BY DEF MadeBefore
  <2> DEFINE m == f[i].args[a][2]
  <2>1. m \in 1..i - 1
    BY <1>1 DEF IsFunction
  <2> HIDE DEF m
  <2>2. m \in 1..Len(f)
    BY <1>2, <2>1
  <2>3. Named(f, m, m)
    BY <1>2, <2>2 DEF Named
  <2> QED
    BY <2>1, <2>3 DEF m
<1>6. \A n \in 1..Len(f) : Named(f, n, n)
  BY <1>2 DEF Named
<1>7. Layout(f)
  BY <1>2, <1>3, <1>4, <1>5, <1>6 DEF Layout
<1>8. CallsHaveIds(f) /\ CalledIds(f) = {}
  BY <1>2 DEF CallsHaveIds, CalledIds
<1> QED
  BY <1>4, <1>7, <1>8

\* Nothing waits and nothing is recorded.
LEMMA NothingWaits ==
  ASSUME NEW b, Layout(b), CallsHaveIds(b), NEW rs, CalledIds(b) = Ids(rs), IsList(rs), Distinct(rs)
  PROVE  Consistent(b, rs, <<>>, <<>>, <<>>)
<1>1. IsList(<<>>) /\ Len(<<>>) = 0
  BY DEF IsList
<1>2. Sites(b, <<>>) /\ Comparisons(b, <<>>) /\ LiteralSites(b, <<>>)
  BY <1>1 DEF Sites, Comparisons, LiteralSites
<1>3. /\ \A kinds : Awaited(rs, b, kinds, <<>>)
      /\ LiteralsAwaited(rs, b, <<>>)
  BY <1>1 DEF Awaited, LiteralsAwaited
<1> QED
  BY <1>2, <1>3 DEF Consistent

\* The invariant holds of the function before the pass.
LEMMA InitIndInv == Init => IndInv
<1> SUFFICES ASSUME Init PROVE IndInv
  OBVIOUS
<1>1. Steps
  BY DEF Init, Steps
<1>2. Layout(body) /\ CallsHaveIds(body) /\ CalledIds(body) = {}
  BY SourceLayout DEF Init
<1>3. IsList(<<>>) /\ Distinct(<<>>) /\ Ids(<<>>) = {}
  BY DEF IsList, Distinct, Ids
<1>4. Consistent(body, <<>>, <<>>, <<>>, <<>>)
  BY <1>2, <1>3, NothingWaits
<1> QED
  BY <1>1, <1>4 DEF Init, IndInv

\* The sites are collected in layout order.
LEMMA CollectKeeps == IndInv /\ Collect => IndInv'
<1> SUFFICES ASSUME IndInv, Collect PROVE IndInv'
  OBVIOUS
<1> DEFINE b == body
           f == source
           at1 == {i \in DOMAIN b : b[i].op \in BinOps}
           at2 == {i \in DOMAIN b : b[i].op \in CmpOps /\ b[i].ty # "ptr"}
<1>1. /\ source \in Sources /\ body = source /\ recs = <<>> /\ catalog = <<>>
      /\ body' = body /\ recs' = recs /\ source' = source /\ catalog' = catalog /\ phase' = "insert"
      /\ bins' = Names(b, at1) /\ cmps' = Names(b, at2) /\ lits' = Literals(b)
  BY DEF IndInv, Steps, Collect
<1>2. /\ Layout(b) /\ CallsHaveIds(b) /\ CalledIds(b) = {}
      /\ \A i \in 1..Len(b) : IsList(b[i].args)
  BY <1>1, SourceLayout
<1>3. DOMAIN b = 1..Len(b)
  BY <1>2, ListIsSeq DEF Layout
<1>4. at1 \in SUBSET (1..Len(b)) /\ at2 \in SUBSET (1..Len(b))
  BY <1>3
<1>5. \A i \in at2 : b[i].op \in CmpOps
  OBVIOUS
<1> HIDE DEF b, at1, at2
<1>6. Sites(b, Names(b, at1))
  BY <1>2, <1>4, NamesAre
<1>7. /\ Sites(b, Names(b, at2))
      /\ \A k \in 1..Len(Names(b, at2)) : \E i \in at2 : Ins(b, Names(b, at2)[k]) = b[i]
  BY <1>2, <1>4, NamesAre
<1>8. Comparisons(b, Names(b, at2))
  BY <1>5, <1>7 DEF Comparisons
<1>9. LiteralSites(b, Literals(b))
  BY <1>2, LiteralsAre
<1>10. Len(<<>>) = 0 /\ IsList(<<>>) /\ Distinct(<<>>) /\ Ids(<<>>) = {}
  BY DEF IsList, Distinct, Ids
<1>11. /\ \A kinds, names : Awaited(<<>>, b, kinds, names)
       /\ \A sites : LiteralsAwaited(<<>>, b, sites)
  BY <1>10 DEF Awaited, LiteralsAwaited, Passed
<1>12. Consistent(b, <<>>, Names(b, at1), Names(b, at2), Literals(b))
  BY <1>2, <1>6, <1>7, <1>8, <1>9, <1>10, <1>11 DEF Consistent
<1>13. Steps'
  BY <1>1 DEF Steps
<1>14. Consistent(body', recs', bins', cmps', lits')
  BY <1>1, <1>12 DEF b
<1> QED
  BY <1>13, <1>14 DEF IndInv

\* A chain for the alternatives of a site, and a record for each.
LEMMA ChainedSite ==
  ASSUME NEW b, Layout(b), CallsHaveIds(b), NEW n \in 1..Len(b), NEW alts, NEW signs,
         DifferentSigns(alts, signs), Len(alts) # 0, NEW kinds, NEW kind \in kinds, NEW op,
         NEW made, made = Records(b, n, alts, signs, kind, op)
  PROVE  /\ Made(made, kinds, instOrdinal(b, n))
         /\ \E d : Instrumented(b, Chained(b, Ins(b, n), alts, made), At(b, n) + 1, d, Ids(made))
<1>1. /\ Made(made, kinds, instOrdinal(b, n))
      /\ Ids(made) = FirstIds(made, Len(alts))
  BY MadeIs
<1>2. IsList(alts) /\ \A k \in 1..Len(alts) : alts[k] # Call
  BY DEF DifferentSigns
<1>3. \E d : Instrumented(b, Chained(b, Ins(b, n), alts, made), At(b, n) + 1, d,
                         FirstIds(made, Len(alts)))
  BY SMTT(30), <1>2, ChainedDoes
<1> QED
  BY <1>1, <1>3

\* The loop over operators.
LEMMA BinKeeps == IndInv /\ InstrumentBin => IndInv'
<1> SUFFICES ASSUME IndInv, InstrumentBin PROVE IndInv'
  OBVIOUS
<1> DEFINE n == Head(bins)
           I == Ins(body, n)
           alts == appendBins(I.op)
           kind == binKind(I.op, I.ty)
           signs == [k \in 1..Len(alts) |-> binName(alts[k], I.ty)]
           made == [k \in DOMAIN alts |->
                      makeRec(body, I, kind, binName(I.op, I.ty), binName(alts[k], I.ty), 0)]
<1>1. /\ Steps /\ Consistent(body, recs, bins, cmps, lits) /\ phase = "insert" /\ bins # <<>>
      /\ bins' = Tail(bins) /\ cmps' = cmps /\ lits' = lits /\ source' = source
      /\ catalog' = catalog /\ phase' = phase
      /\ \/ body' = body /\ recs' = recs
         \/ alts # <<>> /\ body' = Chained(body, I, alts, made) /\ recs' = recs \o made
  BY DEF IndInv, InstrumentBin
<1>2. Steps'
  BY <1>1 DEF Steps
<1>3. CASE body' = body /\ recs' = recs
  <2>1. Consistent(body, recs, Tail(bins), cmps, lits)
    BY <1>1, SiteSkipped
  <2> QED
    BY <2>1, <1>1, <1>2, <1>3 DEF IndInv
<1>4. CASE alts # <<>> /\ body' = Chained(body, I, alts, made) /\ recs' = recs \o made
  <2>1. Layout(body) /\ CallsHaveIds(body) /\ n \in 1..Len(body)
    BY <1>1, SitesTail DEF Consistent
  <2>2. DifferentSigns(alts, signs) /\ Len(alts) # 0
    BY <1>4, BinChoices
  <2>3. kind \in BinKinds
    BY BinKindIs
  <2>4. DOMAIN alts = 1..Len(alts)
    BY <2>2, ListIsSeq DEF DifferentSigns
  <2> DEFINE op == binName(I.op, I.ty)
  <2>5. made = Records(body, n, alts, signs, kind, op)
    <3> DEFINE N == Len(alts)
               F(k) == makeRec(body, I, kind, op, binName(alts[k], I.ty), 0)
               G(k) == makeRec(body, Ins(body, n), kind, op, signs[k], 0)
    <3>1. \A k \in 1..N : F(k) = G(k)
      OBVIOUS
    <3>2. made = [k \in 1..N |-> F(k)]
      BY <2>4
    <3>3. Records(body, n, alts, signs, kind, op) = [k \in 1..N |-> G(k)]
      BY DEF Records
    <3> HIDE DEF F, G, N, made, signs
    <3> QED
      BY <3>1, <3>2, <3>3
  <2> HIDE DEF made, signs, alts, kind, op
  <2>6. /\ Made(made, BinKinds, instOrdinal(body, n))
        /\ \E d : Instrumented(body, Chained(body, I, alts, made), At(body, n) + 1, d, Ids(made))
    BY <2>1, <2>2, <2>3, <2>5, ChainedSite
  <2> DEFINE c == Chained(body, I, alts, made)
  <2>7. PICK d : Instrumented(body, c, At(body, n) + 1, d, Ids(made))
    BY <2>6
  <2> HIDE DEF c
  <2>8. Consistent(c, recs \o made, Tail(bins), cmps, lits)
    BY <1>1, <2>6, <2>7, BinDone
  <2> QED
    BY <2>8, <1>1, <1>2, <1>4 DEF IndInv, c
<1> QED
  BY <1>1, <1>3, <1>4

\* The loop over comparisons.
LEMMA CmpKeeps == IndInv /\ InstrumentCmp => IndInv'
<1> SUFFICES ASSUME IndInv, InstrumentCmp PROVE IndInv'
  OBVIOUS
<1> DEFINE n == Head(cmps)
           I == Ins(body, n)
           alts == appendPreds[I.op]
           signs == [k \in 1..Len(alts) |-> predName[alts[k]]]
           made == [k \in DOMAIN alts |->
                      makeRec(body, I, "ROR", predName[I.op], predName[alts[k]], 0)]
<1>1. /\ Steps /\ Consistent(body, recs, bins, cmps, lits) /\ phase = "insert" /\ cmps # <<>>
      /\ bins' = bins /\ cmps' = Tail(cmps) /\ lits' = lits /\ source' = source
      /\ catalog' = catalog /\ phase' = phase
      /\ \/ body' = body /\ recs' = recs
         \/ body' = Chained(body, I, alts, made) /\ recs' = recs \o made
  BY DEF IndInv, InstrumentCmp
<1>2. Steps'
  BY Zenon, <1>1 DEF Steps
<1>3. CASE body' = body /\ recs' = recs
  <2>1. Consistent(body, recs, bins, Tail(cmps), lits)
    BY Zenon, <1>1, SiteSkipped
  <2> QED
    BY <2>1, <1>1, <1>2, <1>3 DEF IndInv
<1>4. CASE body' = Chained(body, I, alts, made) /\ recs' = recs \o made
  <2>1. /\ Layout(body) /\ CallsHaveIds(body) /\ n \in 1..Len(body) /\ n = cmps[1]
        /\ 1 \in 1..Len(cmps) /\ Comparisons(body, cmps)
    BY Zenon, <1>1, SitesTail DEF Consistent
  <2>2. I.op \in CmpOps
    BY <2>1 DEF Comparisons
  <2>3. DifferentSigns(alts, signs) /\ Len(alts) # 0
    BY <2>2, CmpChoices
  <2>4. DOMAIN alts = 1..Len(alts)
    BY <2>3, ListIsSeq DEF DifferentSigns
  <2> DEFINE op == predName[I.op]
             K == {"ROR"}
             kind == "ROR"
  <2>5. made = Records(body, n, alts, signs, kind, op)
    <3> DEFINE N == Len(alts)
               F(k) == makeRec(body, I, kind, op, predName[alts[k]], 0)
               G(k) == makeRec(body, Ins(body, n), kind, op, signs[k], 0)
    <3>1. \A k \in 1..N : F(k) = G(k)
      OBVIOUS
    <3>2. made = [k \in 1..N |-> F(k)]
      BY <2>4
    <3>3. Records(body, n, alts, signs, kind, op) = [k \in 1..N |-> G(k)]
      BY DEF Records
    <3> HIDE DEF F, G, N, made, signs
    <3> QED
      BY <3>1, <3>2, <3>3
  <2>6. kind \in K
    OBVIOUS
  <2> HIDE DEF made, signs, alts, op, kind, K
  <2>7. /\ Made(made, K, instOrdinal(body, n))
        /\ \E d : Instrumented(body, Chained(body, I, alts, made), At(body, n) + 1, d, Ids(made))
    BY <2>1, <2>3, <2>5, <2>6, ChainedSite
  <2> DEFINE c == Chained(body, I, alts, made)
  <2>8. PICK d : Instrumented(body, c, At(body, n) + 1, d, Ids(made))
    BY <2>7
  <2> HIDE DEF c
  <2>9. Consistent(c, recs \o made, bins, Tail(cmps), lits)
    BY <1>1, <2>7, <2>8, CmpDone DEF K
  <2> QED
    BY <2>9, <1>1, <1>2, <1>4 DEF IndInv, c
<1> QED
  BY Zenon, <1>1, <1>3, <1>4

\* Append is a list of one more.
LEMMA AppendIs ==
  ASSUME NEW s, IsList(s), NEW r
  PROVE  /\ Append(s, r) = s \o <<r>> /\ IsList(<<r>>) /\ Len(<<r>>) = 1 /\ <<r>>[1] = r
<1> DEFINE A == {s[k] : k \in 1..Len(s)} \union {r}
<1>1. \A k \in 1..Len(s) : s[k] \in A
  OBVIOUS
<1>2. r \in A
  OBVIOUS
<1> HIDE DEF A
<1>3. s \in Seq(A) /\ <<r>> \in Seq(A)
  BY <1>1, <1>2, ListIsSeq
<1>4. Append(s, r) = s \o <<r>>
  BY <1>2, <1>3
<1> QED
  BY <1>3, <1>4, SeqIsList

\* The loop over constants.
LEMMA LitKeeps == IndInv /\ InstrumentLit => IndInv'
<1> SUFFICES ASSUME IndInv, InstrumentLit PROVE IndInv'
  OBVIOUS
<1> DEFINE n == Head(lits)[1]
           oi == Head(lits)[2]
           I == Ins(body, n)
           C == I.args[oi]
           isZero == C = <<"int", 0>>
           op == IF isZero THEN "0" ELSE "1"
           mut == IF isZero THEN "1" ELSE "0"
           MutC == <<"int", IF isZero THEN 1 ELSE 0>>
           r == makeRec(body, I, "LVR", op, mut, oi)
<1>1. /\ Steps /\ Consistent(body, recs, bins, cmps, lits) /\ phase = "insert" /\ lits # <<>>
      /\ bins' = bins /\ cmps' = cmps /\ lits' = Tail(lits) /\ source' = source
      /\ catalog' = catalog /\ phase' = phase
      /\ \/ body' = body /\ recs' = recs
         \/ body' = Selected(body, I, oi, r.id, C, MutC) /\ recs' = Append(recs, r)
  BY Zenon DEF IndInv, InstrumentLit
<1>2. Steps'
  BY Zenon, <1>1 DEF Steps
<1>3. CASE body' = body /\ recs' = recs
  <2>1. Consistent(body, recs, bins, cmps, Tail(lits))
    BY Zenon, <1>1, SiteSkipped
  <2> QED
    BY <2>1, <1>1, <1>2, <1>3 DEF IndInv
<1>4. CASE body' = Selected(body, I, oi, r.id, C, MutC) /\ recs' = Append(recs, r)
  <2>1. /\ Layout(body) /\ CallsHaveIds(body) /\ n \in 1..Len(body) /\ IsList(recs)
        /\ oi \in DOMAIN I.args /\ I.op \in CmpOps \union {"ret"}
    BY Zenon, <1>1, LiteralSitesTail DEF Consistent
  <2>2. I.op # Call
    <3>1. CASE I.op \in CmpOps
      BY <3>1, CmpChoices
    <3>2. CASE I.op = "ret"
      BY <3>2 DEF Call
    <3> QED
      BY <2>1, <3>1, <3>2
  <2>3. MutC[1] # "val"
    OBVIOUS
  <2>4. I.name = n /\ instOrdinal(body, n) \in Nat
    BY <2>1, AtIs DEF Named, Ins, instOrdinal
  <2>5. r.key[3] = "LVR" /\ r.key[2] = instOrdinal(body, n)
    <3> HIDE DEF op, mut, oi, n, I
    <3> QED
      BY <2>4 DEF makeRec, keyFor
  <2> DEFINE id == r.id
  <2> HIDE DEF MutC, op, mut, r, id
  <2>6. \E d : d >= 1 /\
          Instrumented(body, Selected(body, I, oi, id, I.args[oi], MutC), At(body, n), d, {id})
    BY <2>1, <2>2, <2>3, SelectedDoes
  <2> DEFINE c == Selected(body, I, oi, id, I.args[oi], MutC)
             made == <<r>>
  <2>7. PICK d : d >= 1 /\ Instrumented(body, c, At(body, n), d, {id})
    BY <2>6
  <2>8. body' = c
    BY <1>4 DEF id
  <2>9. recs' = recs \o made /\ IsList(made) /\ Len(made) = 1 /\ made[1] = r
    BY <1>4, <2>1, AppendIs
  <2> HIDE DEF c, made
  <2>10. Made(made, {"LVR"}, instOrdinal(body, n))
    BY <2>4, <2>5, <2>9 DEF Made
  <2>11. Ids(made) = {id}
    BY <2>9 DEF Ids, id
  <2>12. d >= 1 /\ Instrumented(body, c, At(body, n), d, Ids(made))
    BY <2>7, <2>11
  <2> HIDE DEF oi, I, n
  <2>13. n = Head(lits)[1]
    BY DEF n
  <2>14. Consistent(c, recs \o made, bins, cmps, Tail(lits))
    BY <1>1, <2>10, <2>12, <2>13, LitDone
  <2> QED
    BY <2>14, <1>1, <1>2, <2>8, <2>9 DEF IndInv
<1> QED
  BY Zenon, <1>1, <1>3, <1>4

\* The end, and a step of nothing.
LEMMA FinishKeeps == IndInv /\ (Finish \/ UNCHANGED vars) => IndInv'
<1>1. ASSUME IndInv, Finish PROVE IndInv'
  <2>1. Steps'
    BY <1>1 DEF IndInv, Steps, Finish, Emitted
  <2>2. Consistent(body', recs', bins', cmps', lits')
    BY <1>1 DEF IndInv, Finish
  <2> QED
    BY <2>1, <2>2 DEF IndInv
<1>2. ASSUME IndInv, UNCHANGED vars PROVE IndInv'
  <2>1. Steps'
    BY <1>2 DEF IndInv, Steps, vars
  <2>2. Consistent(body', recs', bins', cmps', lits')
    BY <1>2 DEF IndInv, vars
  <2> QED
    BY <2>1, <2>2 DEF IndInv
<1> QED
  BY <1>1, <1>2

\* At every point of the pass the function is well formed, its records have
\* keys of their own, and it asks for exactly the ids of its records.
THEOREM Invariance == Spec => []IndInv
<1>1. IndInv /\ [Next]_vars => IndInv'
  BY CollectKeeps, BinKeeps, CmpKeeps, LitKeeps, FinishKeeps DEF Next
<1> QED
  BY InitIndInv, <1>1, PTL DEF Spec

\* Names stay unique, operands refer to what comes before, and sites wait only
\* while the pass inserts.
THEOREM TypeCorrect == Spec => []TypeOK
<1>1. IndInv => TypeOK
  <2> SUFFICES ASSUME IndInv PROVE TypeOK
    OBVIOUS
  <2>1. Steps /\ Layout(body)
    BY DEF IndInv, Consistent
  <2> DEFINE b == body
             N == Len(b)
  <2>2. DOMAIN b = 1..N
    BY <2>1, ListIsSeq DEF Layout
  <2>3. {b[i].name : i \in DOMAIN b} = 1..N
    <3>1. \A i \in 1..N : b[i].name \in 1..N
      BY <2>1 DEF Layout
    <3>2. \A m \in 1..N : \E i \in 1..N : b[i].name = m
      BY <2>1 DEF Layout, Named
    <3> HIDE DEF b, N
    <3> QED
      BY <2>2, <3>1, <3>2
  <2>4. ASSUME NEW i \in DOMAIN b, NEW a \in DOMAIN b[i].args, b[i].args[a][1] = "val"
        PROVE  At(b, b[i].args[a][2]) < i
    <3> DEFINE m == b[i].args[a][2]
    <3>1. PICK j \in 1..i - 1 : Named(b, m, j)
      BY <2>1, <2>2, <2>4 DEF Layout, MadeBefore
    <3> HIDE DEF m
    <3>2. At(b, m) = j
      BY <2>1, <3>1, AtIsOnly
    <3> QED
      BY <3>2, <2>2 DEF m
  <2> QED
    BY <2>1, <2>3, <2>4 DEF TypeOK, Steps
<1> QED
  BY <1>1, Invariance, PTL

\* No two records of a function have the same key.
THEOREM KeysOfTheirOwn == Spec => []KeysDistinct
<1>1. IndInv => KeysDistinct
  <2> SUFFICES ASSUME IndInv PROVE KeysDistinct
    OBVIOUS
  <2>1. IsList(recs) /\ Distinct(recs)
    BY DEF IndInv, Consistent
  <2>2. DOMAIN recs = 1..Len(recs)
    BY <2>1, ListIsSeq
  <2> QED
    BY <2>1, <2>2 DEF KeysDistinct, Distinct
<1> QED
  BY <1>1, Invariance, PTL

\* When the pass is done, its catalogue lists the ids the function asks for.
THEOREM CatalogTrue == Spec => []CatalogIsTheCode
<1>1. IndInv => CatalogIsTheCode
  <2> SUFFICES ASSUME IndInv, phase = "done" 
               PROVE  {catalog[i].id : i \in DOMAIN catalog} =
                      {body[i].args[1][2] : i \in {j \in DOMAIN body : body[j].op = "mulation_active"}}
    BY DEF CatalogIsTheCode
  <2>1. /\ catalog = recs /\ IsList(recs) /\ Layout(body) /\ CalledIds(body) = Ids(recs)
    BY DEF IndInv, Consistent, Steps
  <2>2. DOMAIN recs = 1..Len(recs) /\ DOMAIN body = 1..Len(body)
    BY <2>1, ListIsSeq DEF Layout
  <2> QED
    BY <2>1, <2>2 DEF CalledIds, Ids, Call
<1> QED
  BY <1>1, Invariance, PTL
-----------------------------------------------------------------------------
(* What one instruction does *)

\* The least of a set of numbers.
LEMMA MinIs ==
  ASSUME NEW S, NEW t \in S, S \subseteq Nat, \A y \in S : t <= y
  PROVE  Min(S) = t
<1> DEFINE P(x) == x \in S /\ \A y \in S : x <= y
<1>1. P(t)
  OBVIOUS
<1>2. \A x : P(x) => x = t
  OBVIOUS
<1>3. Min(S) = CHOOSE x \in S : \A y \in S : x <= y
  BY DEF Min
<1>4. Min(S) \in S /\ \A y \in S : Min(S) <= y
  BY <1>1, <1>3
<1> QED
  BY <1>2, <1>4

\* A state of a run, by its parts.
State(pc, regs, trap, ret, hits, seen) ==
  [pc |-> pc, regs |-> regs, trap |-> trap, ret |-> ret, hits |-> hits, seen |-> seen]

\* A state of a run of a function with n instructions.
IsState(m, n) ==
  /\ m = State(m.pc, m.regs, m.trap, m.ret, m.hits, m.seen)
  /\ m.pc \in Nat /\ m.regs = [x \in 1..n |-> m.regs[x]]

\* The operators that compute a value from two.
Plain(op) == op \notin {"ret", "br", "select", Call}

\* A state has its parts.
LEMMA StateIs ==
  ASSUME NEW pc, NEW regs, NEW trap, NEW ret, NEW hits, NEW seen
  PROVE  LET m == State(pc, regs, trap, ret, hits, seen)
         IN  /\ m.pc = pc /\ m.regs = regs /\ m.trap = trap /\ m.ret = ret
             /\ m.hits = hits /\ m.seen = seen
             /\ \A n : pc \in Nat /\ regs = [x \in 1..n |-> regs[x]] => IsState(m, n)
BY DEF State, IsState

\* A step that gives a value to a name.
LEMMA SetsIs ==
  ASSUME NEW m, NEW n, IsState(m, n), NEW name, NEW value
  PROVE  Sets(m, name, value) =
           State(m.pc + 1, [m.regs EXCEPT ![name] = value], m.trap, m.ret, m.hits,
                 m.seen \union {name})
<1> DEFINE pc == m.pc
           regs == m.regs
           trap == m.trap
           ret == m.ret
           hits == m.hits
           seen == m.seen
<1>1. m = State(pc, regs, trap, ret, hits, seen)
  BY DEF IsState
<1> HIDE DEF pc, regs, trap, ret, hits, seen
<1> DEFINE q == pc + 1
           r == [regs EXCEPT ![name] = value]
<1>2. Sets(State(pc, regs, trap, ret, hits, seen), name, value) =
        State(q, r, trap, ret, hits, seen \union {name})
  <2>1. /\ State(pc, regs, trap, ret, hits, seen).pc = pc
        /\ State(pc, regs, trap, ret, hits, seen).regs = regs
        /\ State(pc, regs, trap, ret, hits, seen).seen = seen
    BY DEF State
  <2>2. Sets(State(pc, regs, trap, ret, hits, seen), name, value) =
          [State(pc, regs, trap, ret, hits, seen)
             EXCEPT !.pc = q, !.regs = r, !.seen = seen \union {name}]
    BY <2>1 DEF Sets
  <2> HIDE DEF q, r
  <2>3. /\ [State(pc, regs, trap, ret, hits, seen) EXCEPT !.pc = q] =
             State(q, regs, trap, ret, hits, seen)
        /\ [State(q, regs, trap, ret, hits, seen) EXCEPT !.regs = r] =
             State(q, r, trap, ret, hits, seen)
        /\ [State(q, r, trap, ret, hits, seen) EXCEPT !.seen = seen \union {name}] =
             State(q, r, trap, ret, hits, seen \union {name})
    BY DEF State
  <2> QED
    BY <2>2, <2>3
<1>3. Sets(m, name, value) =
        State(pc + 1, [regs EXCEPT ![name] = value], trap, ret, hits, seen \union {name})
  BY <1>1, <1>2
<1> QED
  BY <1>3 DEF pc, regs, trap, ret, hits, seen

\* A step that stops the process.
LEMMA StopIs ==
  ASSUME NEW m, NEW n, IsState(m, n)
  PROVE  [m EXCEPT !.pc = 0, !.trap = TRUE] = State(0, m.regs, TRUE, m.ret, m.hits, m.seen)
<1> DEFINE pc == m.pc
           regs == m.regs
           trap == m.trap
           ret == m.ret
           hits == m.hits
           seen == m.seen
           yes == TRUE
<1>1. m = State(pc, regs, trap, ret, hits, seen)
  BY DEF IsState
<1> HIDE DEF pc, regs, trap, ret, hits, seen, yes
<1>2. [State(pc, regs, trap, ret, hits, seen) EXCEPT !.pc = 0, !.trap = yes] =
        State(0, regs, yes, ret, hits, seen)
  <2>1. /\ [State(pc, regs, trap, ret, hits, seen) EXCEPT !.pc = 0] =
             State(0, regs, trap, ret, hits, seen)
        /\ [State(0, regs, trap, ret, hits, seen) EXCEPT !.trap = yes] =
             State(0, regs, yes, ret, hits, seen)
    BY DEF State
  <2> QED
    BY <2>1
<1>3. [m EXCEPT !.pc = 0, !.trap = yes] = State(0, regs, yes, ret, hits, seen)
  BY <1>1, <1>2
<1> QED
  BY <1>3 DEF pc, regs, trap, ret, hits, seen, yes

\* A function that has ended does nothing.
LEMMA DoEnded ==
  ASSUME NEW b, NEW args, NEW on, NEW m, m.pc = 0
  PROVE  Do(b, args, on, m) = m
BY DEF Do

\* A return.
LEMMA DoRet ==
  ASSUME NEW b, NEW args, NEW on, NEW n, NEW m, IsState(m, n), m.pc # 0, b[m.pc].op = "ret"
  PROVE  Do(b, args, on, m) =
           State(0, m.regs, m.trap, Value(b[m.pc].args[1], args, m), m.hits,
                 m.seen \union {b[m.pc].name})
<1> DEFINE v == Value(b[m.pc].args[1], args, m)
           I == b[m.pc]
<1>1. Do(b, args, on, m) = [m EXCEPT !.pc = 0, !.ret = v, !.seen = @ \union {I.name}]
  BY DEF Do
<1> HIDE DEF v, I
<1> QED
  BY <1>1 DEF IsState, State, v, I

\* A branch goes to where the block begins.
LEMMA DoBr ==
  ASSUME NEW b, IsList(b), NEW args, NEW on, NEW n, NEW m, IsState(m, n), m.pc # 0,
         b[m.pc].op = "br", NEW t,
         StartsBlock(b, Value(b[m.pc].args[IF Value(b[m.pc].args[1], args, m) = 1 THEN 2 ELSE 3], args, m), t)
  PROVE  Do(b, args, on, m) = State(t, m.regs, m.trap, m.ret, m.hits, m.seen)
<1> DEFINE I == b[m.pc]
           v(k) == Value(I.args[k], args, m)
           to == IF v(1) = 1 THEN v(2) ELSE v(3)
           S == {i \in DOMAIN b : b[i].blk = to}
<1>1. Do(b, args, on, m) = [m EXCEPT !.pc = Min(S)]
  BY DEF Do
<1>2. StartsBlock(b, to, t)
  OBVIOUS
<1>3. DOMAIN b = 1..Len(b) /\ Len(b) \in Nat
  BY ListIsSeq
<1> HIDE DEF to, v, I
<1>4. t \in S /\ \A y \in S : t <= y
  BY <1>2, <1>3 DEF StartsBlock
<1>5. S \subseteq Nat
  BY <1>3
<1> HIDE DEF S
<1>6. Min(S) = t
  BY <1>4, <1>5, MinIs
<1> QED
  BY <1>1, <1>6 DEF IsState, State

\* A selection.
LEMMA DoSelect ==
  ASSUME NEW b, NEW args, NEW on, NEW n, NEW m, IsState(m, n), m.pc # 0,
         b[m.pc].op = "select"
  PROVE  Do(b, args, on, m) =
           Sets(m, b[m.pc].name, IF Value(b[m.pc].args[1], args, m) = 1
                                 THEN Value(b[m.pc].args[2], args, m)
                                 ELSE Value(b[m.pc].args[3], args, m))
BY DEF Do

\* I asks for id.
AsksFor(I, id) == I.op = Call /\ I.args = <<<<"int", id>>>>

\* The state m after asking for id.
Asked(m, id) == State(m.pc, m.regs, m.trap, m.ret, m.hits \union {id}, m.seen)

\* A call of the runtime.
LEMMA DoCall ==
  ASSUME NEW b, NEW args, NEW on, NEW n, NEW m, IsState(m, n), m.pc # 0,
         NEW id, AsksFor(b[m.pc], id), NEW yes, yes = Truth(id = on)
  PROVE  Do(b, args, on, m) = Asked(Sets(m, b[m.pc].name, yes), id)
<1> DEFINE I == b[m.pc]
           v == Value(I.args[1], args, m)
           w == Sets(m, I.name, Truth(v = on))
<1>1. Do(b, args, on, m) = [w EXCEPT !.hits = @ \union {v}]
  BY DEF Do, Call, AsksFor
<1>2. v = id
  BY DEF Value, AsksFor
<1> HIDE DEF v
<1> DEFINE a == I.name
<1>3. w = Sets(m, a, yes)
  BY <1>2
<1> HIDE DEF a, w
<1>4. w = State(m.pc + 1, [m.regs EXCEPT ![a] = yes], m.trap, m.ret, m.hits, m.seen \union {a})
  <2>1. IsState(m, n)
    OBVIOUS
  <2> QED
    BY ONLY <2>1, <1>3, SetsIs
<1> DEFINE p == m.pc + 1
           r == [m.regs EXCEPT ![a] = yes]
           t == m.trap
           e == m.ret
           h == m.hits
           s == m.seen \union {a}
<1>5. w = State(p, r, t, e, h, s)
  BY <1>4
<1> HIDE DEF p, r, t, e, h, s
<1>6. [w EXCEPT !.hits = @ \union {v}] = State(p, r, t, e, h \union {v}, s)
  <2>1. [State(p, r, t, e, h, s) EXCEPT !.hits = @ \union {v}] = State(p, r, t, e, h \union {v}, s)
    BY DEF State
  <2> QED
    BY <1>5, <2>1
<1>7. Asked(w, id) = State(p, r, t, e, h \union {id}, s)
  <2>1. w.pc = p /\ w.regs = r /\ w.trap = t /\ w.ret = e /\ w.hits = h /\ w.seen = s
    BY <1>5, StateIs
  <2> QED
    BY <2>1 DEF Asked
<1> QED
  BY <1>1, <1>2, <1>3, <1>6, <1>7 DEF a

\* An operator of two values.
LEMMA DoPlain ==
  ASSUME NEW b, NEW args, NEW on, NEW n, NEW m, IsState(m, n), m.pc # 0, Plain(b[m.pc].op)
  PROVE  LET x == Value(b[m.pc].args[1], args, m)
             y == Value(b[m.pc].args[2], args, m)
         IN  Do(b, args, on, m) =
               IF Traps(b[m.pc].op, x, y) THEN State(0, m.regs, TRUE, m.ret, m.hits, m.seen)
               ELSE Sets(m, b[m.pc].name, Apply(b[m.pc].op, x, y))
<1> DEFINE I == b[m.pc]
           x == Value(I.args[1], args, m)
           y == Value(I.args[2], args, m)
           op == I.op
<1>1. op # "ret" /\ op # "br" /\ op # "select" /\ op # "mulation_active"
  BY DEF Plain, Call
<1>2. Do(b, args, on, m) =
        IF Traps(op, x, y) THEN [m EXCEPT !.pc = 0, !.trap = TRUE]
        ELSE Sets(m, I.name, Apply(op, x, y))
  BY <1>1 DEF Do
<1>3. [m EXCEPT !.pc = 0, !.trap = TRUE] = State(0, m.regs, TRUE, m.ret, m.hits, m.seen)
  BY StopIs
<1> HIDE DEF x, y, op
<1>4. Do(b, args, on, m) =
        IF Traps(op, x, y) THEN State(0, m.regs, TRUE, m.ret, m.hits, m.seen)
        ELSE Sets(m, I.name, Apply(op, x, y))
  BY <1>2, <1>3
<1> QED
  BY <1>4 DEF x, y, op
-----------------------------------------------------------------------------
(* Runs *)

\* R has the states of a run of b.
Ran(b, args, on, R) ==
  /\ R[0] = Start(b) /\ R[Len(b)] = Exec(b, args, on)
  /\ \A k \in 0..Len(b) - 1 : R[k + 1] = Do(b, args, on, R[k])

\* Every function has its run.
LEMMA RunIs ==
  ASSUME NEW b, Len(b) \in Nat, NEW args, NEW on
  PROVE  \E R : Ran(b, args, on, R)
<1> DEFINE N == Len(b)
           Solves(f, n) ==
             f = [k \in 0..n |-> IF k = 0 THEN Start(b) ELSE Do(b, args, on, f[k - 1])]
           T == {n \in 0..N : \E f : Solves(f, n)}
<1>1. 0 \in T
  <2> DEFINE f == [k \in 0..0 |-> Start(b)]
  <2>1. Solves(f, 0)
    OBVIOUS
  <2> HIDE DEF f, Solves
  <2> QED
    BY <2>1
<1>2. ASSUME NEW n \in 0..N - 1, n \in T PROVE n + 1 \in T
  <2>1. PICK f : Solves(f, n)
    BY <1>2
  <2> DEFINE e == Do(b, args, on, f[n])
             g == [k \in 0..n + 1 |-> IF k \in 0..n THEN f[k] ELSE e]
  <2>2. n + 1 \in 0..N
    OBVIOUS
  <2>3. ASSUME NEW k \in 0..n + 1
        PROVE  g[k] = IF k = 0 THEN Start(b) ELSE Do(b, args, on, g[k - 1])
    <3>1. CASE k \in 0..n
      <4>1. k # 0 => k - 1 \in 0..n /\ k - 1 \in 0..n + 1
        BY <3>1
      <4>2. f[k] = IF k = 0 THEN Start(b) ELSE Do(b, args, on, f[k - 1])
        BY <2>1, <3>1
      <4>3. g[k] = f[k] /\ (k # 0 => g[k - 1] = f[k - 1])
        BY <3>1, <4>1
      <4> QED
        BY <4>2, <4>3
    <3>2. CASE k \notin 0..n
      <4>1. k # 0 /\ k - 1 = n /\ n \in 0..n /\ n \in 0..n + 1
        BY <3>2
      <4>2. g[k] = e /\ g[k - 1] = f[n]
        BY <4>1, <3>2
      <4> QED
        BY <4>1, <4>2
    <3> QED
      BY <3>1, <3>2
  <2>4. Solves(g, n + 1)
    BY <2>3
  <2> HIDE DEF g, Solves
  <2> QED
    BY <2>2, <2>4
<1>3. 0..N \subseteq T
  <2> HIDE DEF T
  <2> QED
    BY <1>1, <1>2, InductionUpTo
<1>4. PICK f : Solves(f, N)
  <2>1. N \in T
    <3> HIDE DEF T
    <3> QED
      BY <1>3
  <2> QED
    BY <2>1
<1> DEFINE R == CHOOSE f_1 : Solves(f_1, N)
<1>5. Solves(R, N)
  <2> HIDE DEF Solves
  <2> QED
    BY <1>4
<1>6. Exec(b, args, on) = R[N]
  BY DEF Exec
<1> HIDE DEF R
<1>7. \A k \in 0..N : R[k] = IF k = 0 THEN Start(b) ELSE Do(b, args, on, R[k - 1])
  BY <1>5
<1>8. ASSUME NEW k \in 0..N - 1 PROVE R[k + 1] = Do(b, args, on, R[k])
  <2>1. k + 1 \in 0..N /\ k + 1 # 0 /\ k + 1 - 1 = k
    OBVIOUS
  <2> QED
    BY <2>1, <1>7
<1> QED
  BY <1>6, <1>7, <1>8 DEF Ran

\* A run that has ended stays as it is.
LEMMA RunEnded ==
  ASSUME NEW b, Len(b) \in Nat, NEW args, NEW on, NEW R, Ran(b, args, on, R),
         NEW t \in 0..Len(b), R[t].pc = 0
  PROVE  Exec(b, args, on) = R[t]
<1> DEFINE N == Len(b)
           T == {k \in 0..N - t : R[t + k] = R[t]}
<1>1. 0 \in T
  OBVIOUS
<1>2. ASSUME NEW k \in 0..(N - t) - 1, k \in T PROVE k + 1 \in T
  <2>1. t + k \in 0..N - 1 /\ t + k + 1 = t + (k + 1) /\ k + 1 \in 0..N - t
    OBVIOUS
  <2>2. R[t + k + 1] = Do(b, args, on, R[t + k]) /\ R[t + k] = R[t]
    BY <2>1, <1>2 DEF Ran
  <2>3. R[t + k + 1] = R[t]
    BY <2>2, DoEnded
  <2> QED
    BY <2>1, <2>3
<1>3. 0..N - t \subseteq T
  <2>1. N - t \in Nat
    OBVIOUS
  <2> HIDE DEF T
  <2> QED
    BY <2>1, <1>1, <1>2, InductionUpTo
<1>4. N - t \in 0..N - t /\ t + (N - t) = N
  OBVIOUS
<1>5. R[t + (N - t)] = R[t]
  BY <1>3, <1>4
<1> QED
  BY <1>4, <1>5 DEF Ran
-----------------------------------------------------------------------------
(* A function in which one instruction has become several *)

\* Every instruction has its operands, branches go forward to where a block
\* begins, and only they and returns have no next instruction.
Flow(b) ==
  \A j \in 1..Len(b) :
    /\ \A a \in DOMAIN b[j].args : b[j].args[a] = <<b[j].args[a][1], b[j].args[a][2]>>
    /\ b[j].op # Call => 1..Arity(b[j].op) \subseteq DOMAIN b[j].args
    /\ b[j].op = "br" =>
         \A a \in 2..3 : /\ b[j].args[a][1] = "block"
                        /\ \E t \in j + 1..Len(b) : StartsBlock(b, b[j].args[a][2], t)
    /\ b[j].op \notin {"ret", "br"} => j < Len(b)

\* A growth g: the instruction at the place g.at, named g.name, gets g.more others
\* around it; g.to has its value then, and g.ids are asked for.
Put(g, j) == Place(g.at + 1, g.more, j)
Renamed(g, o) == IF o = Val(g.name) THEN Val(g.to) ELSE o

\* c has the blocks of b.
Widened(b, c, g) ==
  /\ Len(b) \in Nat /\ g.more \in Nat /\ g.at \in 1..Len(b) /\ Len(c) = Len(b) + g.more
  /\ \A j \in 1..Len(b) : j # g.at => c[Put(g, j)].blk = b[j].blk
  /\ \A t \in g.at..g.at + g.more : c[t].blk = b[g.at].blk

\* All but the instruction at g.at is in c what it was in b, and uses what has
\* the value of that instruction.
Grown(b, c, g) ==
  /\ Layout(b) /\ Layout(c) /\ CallsHaveIds(b) /\ CallsHaveIds(c) /\ Flow(b) /\ Widened(b, c, g)
  /\ b[g.at].name = g.name
  /\ g.to \in 1..Len(c) /\ (g.to = g.name \/ g.to > Len(b))
  /\ \A j \in 1..Len(b) :
       j # g.at =>
         /\ c[Put(g, j)].name = b[j].name /\ c[Put(g, j)].op = b[j].op
         /\ DOMAIN c[Put(g, j)].args = DOMAIN b[j].args
         /\ \A a \in DOMAIN b[j].args : c[Put(g, j)].args[a] = Renamed(g, b[j].args[a])

\* The state m of a run of b, and the state w that answers it in a run of c.
Agree(n, g, m, w) ==
  /\ IsState(m, n) /\ IsState(w, n + g.more)
  /\ m.pc \in 0..n /\ w.pc = Put(g, m.pc)
  /\ \A x \in 1..n : x # g.name => w.regs[x] = m.regs[x]
  /\ w.regs[g.to] = m.regs[g.name]
  /\ w.trap = m.trap /\ w.ret = m.ret
  /\ w.seen \intersect (1..n) = m.seen
  /\ w.hits = m.hits \union (IF g.name \in m.seen THEN g.ids ELSE {})

\* Where places go.
LEMMA PutIs ==
  ASSUME NEW b, NEW c, NEW g, Widened(b, c, g)
  PROVE  /\ \A j \in 0..Len(b) : Put(g, j) = IF j <= g.at THEN j ELSE j + g.more
         /\ Len(b) \in Nat /\ g.more \in Nat /\ g.at \in 1..Len(b) /\ Len(c) = Len(b) + g.more
         /\ \A j \in 1..Len(b) : Put(g, j) \in 1..Len(c)
BY DEF Widened, Put, Place

\* A place that is in front of where t goes is one of the grown instruction, or
\* where something in front of t goes.
LEMMA PutFrom ==
  ASSUME NEW b, NEW c, NEW g, Widened(b, c, g), NEW i \in 1..Len(c)
  PROVE  \/ i \in g.at..g.at + g.more
         \/ \E k \in 1..Len(b) : k # g.at /\ i = Put(g, k)
<1>1. /\ Len(b) \in Nat /\ g.more \in Nat /\ g.at \in 1..Len(b) /\ Len(c) = Len(b) + g.more
      /\ \A j \in 0..Len(b) : Put(g, j) = IF j <= g.at THEN j ELSE j + g.more
  BY PutIs
<1>2. CASE i < g.at
  <2>1. i \in 1..Len(b) /\ i \in 0..Len(b) /\ i # g.at /\ i <= g.at
    BY <1>1, <1>2
  <2> QED
    BY <2>1, <1>1
<1>3. CASE i > g.at + g.more
  <2> DEFINE k == i - g.more
  <2>1. k \in 1..Len(b) /\ k \in 0..Len(b) /\ k # g.at /\ ~(k <= g.at) /\ i = k + g.more
    BY <1>1, <1>3
  <2> HIDE DEF k
  <2> QED
    BY <2>1, <1>1
<1> QED
  BY <1>1, <1>2, <1>3

\* A block begins where it did.
LEMMA BlockMoves ==
  ASSUME NEW b, NEW c, NEW g, Widened(b, c, g), NEW x, NEW t, StartsBlock(b, x, t)
  PROVE  StartsBlock(c, x, Put(g, t))
<1>1. /\ Len(b) \in Nat /\ g.more \in Nat /\ g.at \in 1..Len(b) /\ Len(c) = Len(b) + g.more
      /\ \A j \in 0..Len(b) : Put(g, j) = IF j <= g.at THEN j ELSE j + g.more
      /\ \A j \in 1..Len(b) : Put(g, j) \in 1..Len(c)
  BY PutIs
<1>2. t \in 1..Len(b) /\ b[t].blk = x /\ \A i \in 1..t - 1 : b[i].blk # x
  BY DEF StartsBlock
<1>3. Put(g, t) \in 1..Len(c) /\ c[Put(g, t)].blk = x
  <2>1. CASE t = g.at
    <3>1. Put(g, t) = t /\ t \in g.at..g.at + g.more
      BY <2>1, <1>1, <1>2
    <3> QED
      BY <3>1, <2>1, <1>1, <1>2 DEF Widened
  <2>2. CASE t # g.at
    BY <2>2, <1>1, <1>2 DEF Widened
  <2> QED
    BY <2>1, <2>2
<1>4. ASSUME NEW i \in 1..Put(g, t) - 1 PROVE c[i].blk # x
  <2>1. i \in 1..Len(c)
    BY <1>1, <1>3
  <2>2. CASE i \in g.at..g.at + g.more
    <3>1. g.at \in 1..t - 1
      BY <2>2, <1>1, <1>2, <1>3
    <3>2. c[i].blk = b[g.at].blk
      BY <2>2 DEF Widened
    <3> QED
      BY <3>1, <3>2, <1>2
  <2>3. ASSUME NEW k \in 1..Len(b), k # g.at, i = Put(g, k) PROVE c[i].blk # x
    <3>1. k \in 1..t - 1
      <4>1. /\ Put(g, k) = IF k <= g.at THEN k ELSE k + g.more
            /\ Put(g, t) = IF t <= g.at THEN t ELSE t + g.more
        BY <1>1, <1>2
      <4>2. Put(g, k) < Put(g, t)
        BY <2>1, <2>3, <1>1, <1>3
      <4> QED
        BY <4>1, <4>2, <1>1, <1>2
    <3>2. c[i].blk = b[k].blk
      BY <2>3 DEF Widened
    <3> QED
      BY <3>1, <3>2, <1>2
  <2> QED
    BY <2>1, <2>2, <2>3, PutFrom
<1> QED
  BY <1>3, <1>4 DEF StartsBlock
-----------------------------------------------------------------------------
(* One instruction of both *)

\* The operands of I and what they are renamed to have the same values.
ValuesAgree(I, g, args, m, w) ==
  \A a \in DOMAIN I.args : Value(Renamed(g, I.args[a]), args, w) = Value(I.args[a], args, m)

\* The operands of b and those of c have the same values.
LEMMA ValueAgrees ==
  ASSUME NEW b, NEW c, NEW g, Grown(b, c, g), NEW m, NEW w, Agree(Len(b), g, m, w), NEW args,
         NEW j \in 1..Len(b)
  PROVE  ValuesAgree(b[j], g, args, m, w)
<1> SUFFICES ASSUME NEW a \in DOMAIN b[j].args
             PROVE  Value(Renamed(g, b[j].args[a]), args, w) = Value(b[j].args[a], args, m)
  BY DEF ValuesAgree
<1> DEFINE o == b[j].args[a]
<1>1. o = <<o[1], o[2]>>
  BY DEF Grown, Flow
<1>2. o[1] = "val" => o[2] \in 1..Len(b)
  <2>1. MadeBefore(b, b[j], j)
    BY DEF Grown, Layout
  <2>2. ASSUME o[1] = "val" PROVE \E i \in 1..Len(b) : b[i].name = o[2]
    BY <2>1, <2>2 DEF MadeBefore, Named
  <2>3. \A i \in 1..Len(b) : b[i].name \in 1..Len(b)
    BY DEF Grown, Layout
  <2> QED
    BY <2>2, <2>3
<1> HIDE DEF o
<1>3. CASE o = Val(g.name)
  <2>1. Renamed(g, o) = Val(g.to)
    BY <1>3 DEF Renamed
  <2>2. Value(Val(g.to), args, w) = w.regs[g.to] /\ Value(Val(g.name), args, m) = m.regs[g.name]
    BY DEF Value, Val
  <2> QED
    BY <2>1, <2>2, <1>3 DEF Agree, o
<1>4. CASE o # Val(g.name)
  <2>1. Renamed(g, o) = o
    BY <1>4 DEF Renamed
  <2>2. CASE o[1] = "val"
    <3>1. o[2] \in 1..Len(b) /\ o[2] # g.name
      BY <1>1, <1>2, <1>4, <2>2 DEF Val
    <3>2. w.regs[o[2]] = m.regs[o[2]]
      BY <3>1 DEF Agree
    <3> QED
      BY <2>1, <2>2, <3>2 DEF Value, o
  <2>3. CASE o[1] # "val"
    BY <2>1, <2>3 DEF Value, o
  <2> QED
    BY <2>2, <2>3
<1> QED
  BY <1>3, <1>4

\* Both give the same value to another name.
LEMMA SetsAgree ==
  ASSUME NEW n \in Nat, NEW g, g.more \in Nat, g.at \in 1..n, g.to = g.name \/ g.to > n,
         g.to \in 1..n + g.more,
         NEW m, NEW w, Agree(n, g, m, w), m.pc \in 1..n - 1, m.pc # g.at,
         NEW name \in 1..n, name # g.name, NEW value
  PROVE  /\ Agree(n, g, Sets(m, name, value), Sets(w, name, value))
         /\ Sets(m, name, value).pc = m.pc + 1
<1> DEFINE mr == [m.regs EXCEPT ![name] = value]
           wr == [w.regs EXCEPT ![name] = value]
           mm == Sets(m, name, value)
           ww == Sets(w, name, value)
<1>1. mm = State(m.pc + 1, mr, m.trap, m.ret, m.hits, m.seen \union {name})
  BY Zenon, SetsIs DEF Agree
<1>2. ww = State(w.pc + 1, wr, w.trap, w.ret, w.hits, w.seen \union {name})
  <2>1. IsState(w, n + g.more)
    BY DEF Agree
  <2> QED
    BY <2>1, SetsIs
<1>3. /\ m.regs = [x \in 1..n |-> m.regs[x]] /\ w.regs = [x \in 1..n + g.more |-> w.regs[x]]
      /\ m.pc \in Nat /\ w.pc \in Nat
  BY DEF Agree, IsState
<1>4. /\ mr = [x \in 1..n |-> mr[x]] /\ wr = [x \in 1..n + g.more |-> wr[x]]
      /\ \A x \in 1..n : mr[x] = IF x = name THEN value ELSE m.regs[x]
      /\ \A x \in 1..n + g.more : wr[x] = IF x = name THEN value ELSE w.regs[x]
  BY <1>3
<1> HIDE DEF mr, wr, mm, ww
<1>5. /\ IsState(mm, n) /\ mm.pc = m.pc + 1 /\ mm.regs = mr /\ mm.trap = m.trap /\ mm.ret = m.ret
      /\ mm.hits = m.hits /\ mm.seen = m.seen \union {name}
  <2>1. m.pc + 1 \in Nat
    BY <1>3
  <2> QED
    BY <1>1, <1>4, <2>1, StateIs
<1>6. /\ IsState(ww, n + g.more) /\ ww.pc = w.pc + 1 /\ ww.regs = wr /\ ww.trap = w.trap
      /\ ww.ret = w.ret /\ ww.hits = w.hits /\ ww.seen = w.seen \union {name}
  <2>1. w.pc + 1 \in Nat
    BY <1>3
  <2> QED
    BY <1>2, <1>4, <2>1, StateIs
<1>7. mm.pc \in 0..n /\ ww.pc = Put(g, mm.pc)
  BY <1>5, <1>6 DEF Agree, Put, Place
<1>8. ASSUME NEW x \in 1..n, x # g.name PROVE ww.regs[x] = mm.regs[x]
  <2>1. w.regs[x] = m.regs[x] /\ x \in 1..n + g.more
    BY <1>8 DEF Agree
  <2> QED
    BY <2>1, <1>4, <1>5, <1>6
<1>9. ww.regs[g.to] = mm.regs[g.name]
  <2>1. g.to # name /\ g.to \in 1..n + g.more
    OBVIOUS
  <2>2. wr[g.to] = w.regs[g.to] /\ w.regs[g.to] = m.regs[g.name]
    BY <2>1, <1>4 DEF Agree
  <2>3. mr[g.name] = m.regs[g.name]
    BY DEF mr
  <2> QED
    BY <2>2, <2>3, <1>5, <1>6
<1>10. ww.seen \intersect (1..n) = mm.seen
  BY <1>5, <1>6 DEF Agree
<1>11. ww.hits = mm.hits \union (IF g.name \in mm.seen THEN g.ids ELSE {})
  <2>1. g.name \in mm.seen <=> g.name \in m.seen
    BY <1>5
  <2> QED
    BY <2>1, <1>5, <1>6 DEF Agree
<1>12. ww.trap = mm.trap /\ ww.ret = mm.ret
  BY <1>5, <1>6 DEF Agree
<1> QED
  BY <1>5, <1>6, <1>7, <1>8, <1>9, <1>10, <1>11, <1>12 DEF Agree, mm, ww

\* A state that has asked for an id.
LEMMA AskedIs ==
  ASSUME NEW m, NEW n, IsState(m, n), NEW id, NEW w, w = Asked(m, id)
  PROVE  /\ IsState(w, n) /\ w.pc = m.pc /\ w.regs = m.regs /\ w.trap = m.trap /\ w.ret = m.ret
         /\ w.hits = m.hits \union {id} /\ w.seen = m.seen
<1> DEFINE h == m.hits \union {id}
<1>1. w = State(m.pc, m.regs, m.trap, m.ret, h, m.seen)
  BY DEF Asked
<1>2. m.pc \in Nat /\ m.regs = [x \in 1..n |-> m.regs[x]]
  BY DEF IsState
<1> HIDE DEF h
<1>3. /\ w.pc = m.pc /\ w.regs = m.regs /\ w.trap = m.trap /\ w.ret = m.ret
      /\ w.hits = h /\ w.seen = m.seen /\ IsState(w, n)
  BY <1>1, <1>2, StateIs
<1> QED
  BY <1>3 DEF h

\* Both ask for the same id.
LEMMA AskedAgrees ==
  ASSUME NEW n, NEW g, NEW m, NEW w, Agree(n, g, m, w), NEW id, NEW mm, mm = Asked(m, id),
         NEW ww, ww = Asked(w, id)
  PROVE  Agree(n, g, mm, ww) /\ mm.pc = m.pc
<1>1. IsState(m, n) /\ IsState(w, n + g.more)
  BY DEF Agree
<1>2. /\ IsState(mm, n) /\ mm.pc = m.pc /\ mm.regs = m.regs /\ mm.trap = m.trap
      /\ mm.ret = m.ret /\ mm.hits = m.hits \union {id} /\ mm.seen = m.seen
  BY <1>1, AskedIs
<1>3. /\ IsState(ww, n + g.more) /\ ww.pc = w.pc /\ ww.regs = w.regs /\ ww.trap = w.trap
      /\ ww.ret = w.ret /\ ww.hits = w.hits \union {id} /\ ww.seen = w.seen
  <2> DEFINE l == n + g.more
  <2>1. IsState(w, l)
    BY <1>1
  <2> HIDE DEF l
  <2>2. /\ IsState(ww, l) /\ ww.pc = w.pc /\ ww.regs = w.regs /\ ww.trap = w.trap
        /\ ww.ret = w.ret /\ ww.hits = w.hits \union {id} /\ ww.seen = w.seen
    BY <2>1, AskedIs
  <2> QED
    BY <2>2 DEF l
<1> QED
  BY <1>2, <1>3 DEF Agree

\* Both do the same, if it is not the instruction that has grown, and go on.
LEMMA StepAgrees ==
  ASSUME NEW b, NEW c, NEW g, Grown(b, c, g), NEW args, NEW on,
         NEW m, NEW w, Agree(Len(b), g, m, w), m.pc # 0, m.pc # g.at
  PROVE  /\ Agree(Len(b), g, Do(b, args, on, m), Do(c, args, on, w))
         /\ Do(b, args, on, m).pc = 0 \/ Do(b, args, on, m).pc > m.pc
<1> DEFINE n == Len(b)
           j == m.pc
           I == b[j]
           J == c[w.pc]
           v(k) == Value(I.args[k], args, m)
           mm == Do(b, args, on, m)
           ww == Do(c, args, on, w)
           Goal == Agree(n, g, mm, ww) /\ (mm.pc = 0 \/ mm.pc > m.pc)
<1> SUFFICES Goal
  OBVIOUS
<1>1. /\ n \in Nat /\ g.more \in Nat /\ g.at \in 1..n /\ Len(c) = n + g.more
      /\ g.to = g.name \/ g.to > n
      /\ g.to \in 1..n + g.more
  BY PutIs DEF Grown
<1>2. /\ IsState(m, n) /\ IsState(w, n + g.more) /\ j \in 1..n /\ w.pc = Put(g, j) /\ w.pc # 0
  <2>1. j \in 1..n /\ w.pc = Put(g, j)
    BY DEF Agree
  <2>2. Put(g, j) \in 1..Len(c)
    BY <2>1, PutIs DEF Grown
  <2> QED
    BY <2>1, <2>2, <1>1 DEF Agree
<1>3. /\ J.name = I.name /\ J.op = I.op /\ DOMAIN J.args = DOMAIN I.args
      /\ \A a \in DOMAIN I.args : J.args[a] = Renamed(g, I.args[a])
  <2> DEFINE q == Put(g, j)
  <2>1. \A k \in 1..n :
          k # g.at =>
            /\ c[Put(g, k)].name = b[k].name /\ c[Put(g, k)].op = b[k].op
            /\ DOMAIN c[Put(g, k)].args = DOMAIN b[k].args
            /\ \A a \in DOMAIN b[k].args : c[Put(g, k)].args[a] = Renamed(g, b[k].args[a])
    BY DEF Grown
  <2>2. /\ c[q].name = b[j].name /\ c[q].op = b[j].op
        /\ DOMAIN c[q].args = DOMAIN b[j].args
        /\ \A a \in DOMAIN b[j].args : c[q].args[a] = Renamed(g, b[j].args[a])
    BY <2>1, <1>2
  <2> HIDE DEF q
  <2>3. w.pc = q
    BY <1>2 DEF q
  <2> QED
    BY <2>2, <2>3
<1>4. I.name \in 1..n /\ I.name # g.name
  <2>1. b[g.at].name = g.name /\ \A k \in 1..n : b[k].name \in 1..n /\ (b[k].name = b[g.at].name => k = g.at)
    BY <1>1 DEF Grown, Layout
  <2> QED
    BY <2>1, <1>2
<1>5. \A a \in DOMAIN I.args : Value(J.args[a], args, w) = v(a)
  <2> SUFFICES ASSUME NEW a \in DOMAIN I.args PROVE Value(J.args[a], args, w) = v(a)
    OBVIOUS
  <2>1. ValuesAgree(I, g, args, m, w)
    BY <1>2, ValueAgrees
  <2>2. Value(Renamed(g, I.args[a]), args, w) = v(a)
    BY <2>1 DEF ValuesAgree
  <2>3. J.args[a] = Renamed(g, I.args[a])
    BY <1>3
  <2> HIDE DEF v, I, J
  <2> QED
    BY <2>2, <2>3
<1>6. /\ I.op # Call => 1..Arity(I.op) \subseteq DOMAIN I.args
      /\ I.op = "br" =>
           \A a \in 2..3 : /\ I.args[a][1] = "block"
                          /\ \E t \in j + 1..n : StartsBlock(b, I.args[a][2], t)
      /\ I.op \notin {"ret", "br"} => j < n
  BY <1>2 DEF Grown, Flow
<1>7. IsList(b) /\ IsList(c)
  BY DEF Grown, Layout
<1>8. m.pc # 0 /\ I = b[m.pc] /\ J = c[w.pc]
  OBVIOUS
<1>9. ASSUME NEW value, j < n, mm = Sets(m, I.name, value), ww = Sets(w, I.name, value)
      PROVE  Goal
  <2>1. m.pc \in 1..n - 1 /\ m.pc # g.at /\ Agree(n, g, m, w)
    BY <1>1, <1>2, <1>9
  <2> DEFINE name == I.name
  <2>2. name \in 1..n /\ name # g.name
    BY <1>4
  <2> HIDE DEF name, n, mm, ww
  <2>3. Agree(n, g, Sets(m, name, value), Sets(w, name, value)) /\ Sets(m, name, value).pc = m.pc + 1
    BY <1>1, <2>1, <2>2, SetsAgree
  <2>4. mm = Sets(m, name, value) /\ ww = Sets(w, name, value)
    BY <1>9 DEF name
  <2>5. m.pc + 1 > m.pc
    BY <2>1, <1>1
  <2> QED
    BY <2>3, <2>4, <2>5
<1> DEFINE Parts(mp, wp, trap, ret, hm, hw, sm, sw) ==
             mm = State(mp, m.regs, trap, ret, hm, sm) /\ ww = State(wp, w.regs, trap, ret, hw, sw)
<1>10. ASSUME NEW mp \in 0..n, NEW trap, NEW ret, NEW sm, NEW sw,
              Parts(mp, Put(g, mp), trap, ret, m.hits, w.hits, sm, sw),
              mp = 0 \/ mp > m.pc, sw \intersect (1..n) = sm, g.name \in sm <=> g.name \in m.seen
       PROVE Goal
  <2> DEFINE wp == Put(g, mp)
  <2>1. mp \in Nat /\ wp \in Nat /\ m.regs = [x \in 1..n |-> m.regs[x]]
        /\ w.regs = [x \in 1..n + g.more |-> w.regs[x]]
    BY <1>1, <1>2 DEF IsState, Put, Place
  <2> HIDE DEF wp, mm, ww, n
  <2>2. mm = State(mp, m.regs, trap, ret, m.hits, sm) /\ ww = State(wp, w.regs, trap, ret, w.hits, sw)
    BY <1>10 DEF wp
  <2>3. /\ IsState(mm, n) /\ mm.pc = mp /\ mm.regs = m.regs /\ mm.trap = trap
        /\ mm.ret = ret /\ mm.hits = m.hits /\ mm.seen = sm
    BY <2>1, <2>2, StateIs
  <2>4. /\ IsState(ww, n + g.more) /\ ww.pc = wp /\ ww.regs = w.regs /\ ww.trap = trap
        /\ ww.ret = ret /\ ww.hits = w.hits /\ ww.seen = sw
    BY <2>1, <2>2, StateIs
  <2>5. /\ \A x \in 1..n : x # g.name => w.regs[x] = m.regs[x]
        /\ w.regs[g.to] = m.regs[g.name]
        /\ w.hits = m.hits \union (IF g.name \in m.seen THEN g.ids ELSE {})
    BY DEF Agree, n
  <2>6. Agree(n, g, mm, ww)
    BY <2>3, <2>4, <2>5, <1>10 DEF Agree, wp
  <2> QED
    BY <2>3, <2>6, <1>10
<1>11. w.trap = m.trap /\ w.ret = m.ret /\ w.seen \intersect (1..n) = m.seen
  BY DEF Agree
<1>12. CASE I.op = "ret"
  <2> DEFINE x == v(1)
             sm == m.seen \union {I.name}
             sw == w.seen \union {I.name}
  <2>1. Value(J.args[1], args, w) = x
    <3>1. 1 \in DOMAIN I.args
      <4>1. "ret" # Call /\ Arity("ret") = 1
        BY DEF Arity, Call
      <4>2. 1..1 \subseteq DOMAIN I.args
        BY <4>1, <1>6, <1>12
      <4> QED
        BY <4>2
    <3> QED
      BY <3>1, <1>5
  <2>2. mm = State(0, m.regs, m.trap, x, m.hits, sm)
    <3>1. IsState(m, n) /\ m.pc # 0 /\ b[m.pc].op = "ret"
      BY <1>2, <1>12
    <3> HIDE DEF n
    <3>2. Do(b, args, on, m) = State(0, m.regs, m.trap, Value(b[m.pc].args[1], args, m), m.hits,
                                     m.seen \union {b[m.pc].name})
      BY ONLY <3>1, DoRet
    <3> QED
      BY <3>2
  <2>3. ww = State(0, w.regs, m.trap, x, w.hits, sw)
    BY <1>2, <1>3, <1>11, <1>12, <2>1, DoRet
  <2>4. Put(g, 0) = 0 /\ 0 \in 0..n
    BY <1>1 DEF Put, Place
  <2>5. sw \intersect (1..n) = sm /\ (g.name \in sm <=> g.name \in m.seen)
    BY <1>4, <1>11
  <2>6. Parts(0, Put(g, 0), m.trap, x, m.hits, w.hits, sm, sw)
    BY <2>2, <2>3, <2>4
  <2> HIDE DEF x, sm, sw, mm, ww, Goal, Parts
  <2> QED
    BY <1>10, <2>4, <2>5, <2>6
<1>13. CASE I.op = "br"
  <2> DEFINE a == IF v(1) = 1 THEN 2 ELSE 3
  <2>1. 1 \in DOMAIN I.args /\ a \in DOMAIN I.args /\ a \in 2..3
    <3>1. 1..3 \subseteq DOMAIN I.args
      BY <1>6, <1>13 DEF Arity, Call
    <3> QED
      BY <3>1
  <2>2. a = IF Value(J.args[1], args, w) = 1 THEN 2 ELSE 3
    BY <1>5, <2>1
  <2>3. I.args[a][1] = "block"
    BY <1>6, <1>13, <2>1
  <2>4. PICK t \in j + 1..n : StartsBlock(b, I.args[a][2], t)
    BY <1>6, <1>13, <2>1
  <2>5. Value(I.args[a], args, m) = I.args[a][2] /\ Value(J.args[a], args, w) = I.args[a][2]
    <3>1. Value(I.args[a], args, m) = I.args[a][2]
      BY ZenonT(30), <2>3 DEF Value
    <3> QED
      BY <3>1, <1>5, <2>1
  <2>6. StartsBlock(c, I.args[a][2], Put(g, t))
    BY <2>4, BlockMoves DEF Grown
  <2>7. mm = State(t, m.regs, m.trap, m.ret, m.hits, m.seen)
    <3>1. StartsBlock(b, Value(I.args[a], args, m), t)
      BY <2>4, <2>5
    <3> HIDE DEF mm
    <3> QED
      BY SMTT(30), <3>1, <1>2, <1>7, <1>13, DoBr DEF mm
  <2>8. ww = State(Put(g, t), w.regs, m.trap, m.ret, w.hits, w.seen)
    <3>1. StartsBlock(c, Value(J.args[IF Value(J.args[1], args, w) = 1 THEN 2 ELSE 3], args, w), Put(g, t))
      BY <2>2, <2>5, <2>6
    <3>2. J.op = "br" /\ IsState(w, n + g.more) /\ w.pc # 0
      BY <1>2, <1>3, <1>13
    <3>3. ww = State(Put(g, t), w.regs, w.trap, w.ret, w.hits, w.seen)
      BY <3>1, <3>2, <1>7, DoBr
    <3> QED
      BY SMTT(30), <3>3, <1>11
  <2>9. t \in 0..n /\ t > m.pc
    BY <1>1, <1>2, <2>4
  <2>10. Parts(t, Put(g, t), m.trap, m.ret, m.hits, w.hits, m.seen, w.seen)
    BY <2>7, <2>8
  <2> HIDE DEF mm, ww, Goal, Parts
  <2> QED
    BY <1>10, <1>11, <2>9, <2>10
<1>14. CASE I.op = "select"
  <2> DEFINE x == IF v(1) = 1 THEN v(2) ELSE v(3)
  <2>1. 1..3 \subseteq DOMAIN I.args /\ j < n
    BY <1>6, <1>14 DEF Arity, Call
  <2>2. mm = Sets(m, I.name, x)
    BY <1>2, <1>14, DoSelect
  <2>3. ww = Sets(w, J.name, IF Value(J.args[1], args, w) = 1 THEN Value(J.args[2], args, w)
                             ELSE Value(J.args[3], args, w))
    BY <1>2, <1>3, <1>14, DoSelect
  <2>4. ww = Sets(w, I.name, x)
    <3>1. 1 \in DOMAIN I.args /\ 2 \in DOMAIN I.args /\ 3 \in DOMAIN I.args
      BY <2>1
    <3>2. Value(J.args[1], args, w) = v(1) /\ Value(J.args[2], args, w) = v(2)
          /\ Value(J.args[3], args, w) = v(3)
      BY <3>1, <1>5
    <3>3. J.name = I.name
      BY <1>3
    <3> HIDE DEF v, ww, I, J
    <3> QED
      BY <3>2, <3>3, <2>3
  <2> HIDE DEF x, mm, ww, Goal
  <2> QED
    BY <1>9, <2>1, <2>2, <2>4
<1>15. CASE I.op = Call
  <2>1. j < n
    BY <1>6, <1>15 DEF Call
  <2>2. PICK id : I.args = <<<<"int", id>>>>
    BY <1>2, <1>15 DEF Grown, CallsHaveIds
  <2>3. J.args = <<<<"int", id>>>>
    <3>1. 1 \in DOMAIN I.args /\ I.args[1] = <<"int", id>>
      BY <2>2
    <3>2. J.args[1] = <<"int", id>>
      <4>1. J.args[1] = Renamed(g, <<"int", id>>)
        BY <3>1, <1>3
      <4>2. <<"int", id>> # Val(g.name)
        BY DEF Val
      <4> HIDE DEF J, I
      <4> QED
        BY <4>1, <4>2 DEF Renamed
    <3>3. PICK z : J.args = <<<<"int", z>>>>
      <4>1. w.pc \in 1..Len(c)
        BY <1>2, PutIs DEF Grown
      <4> QED
        BY <4>1, <1>3, <1>15 DEF Grown, CallsHaveIds
    <3> HIDE DEF J
    <3>4. J.args[1][2] = z /\ J.args[1][2] = id
      BY <3>2, <3>3
    <3> QED
      BY <3>3, <3>4
  <2> DEFINE name == I.name
             value == Truth(id = on)
             ms == Sets(m, name, value)
             ws == Sets(w, name, value)
  <2>4. name \in 1..n /\ name # g.name /\ name = b[m.pc].name /\ name = c[w.pc].name
    BY <1>3, <1>4
  <2>5. /\ IsState(m, n) /\ m.pc # 0 /\ AsksFor(b[m.pc], id) /\ value = Truth(id = on)
        /\ IsState(w, n + g.more) /\ w.pc # 0 /\ AsksFor(c[w.pc], id)
    BY <1>2, <1>3, <1>15, <2>2, <2>3 DEF AsksFor, value
  <2> HIDE DEF n, value
  <2>6. Do(b, args, on, m) = Asked(Sets(m, b[m.pc].name, value), id)
    BY ONLY <2>5, DoCall
  <2>7. Do(c, args, on, w) = Asked(Sets(w, c[w.pc].name, value), id)
    <3> DEFINE l == n + g.more
    <3>1. IsState(w, l) /\ w.pc # 0 /\ AsksFor(c[w.pc], id) /\ value = Truth(id = on)
      BY <2>5
    <3> HIDE DEF l
    <3> QED
      BY ONLY <3>1, DoCall
  <2> HIDE DEF name
  <2>8. mm = Asked(ms, id) /\ ww = Asked(ws, id)
    BY <2>4, <2>6, <2>7
  <2>9. Agree(n, g, ms, ws) /\ ms.pc = m.pc + 1
    <3>1. m.pc \in 1..n - 1 /\ m.pc # g.at /\ Agree(n, g, m, w)
      BY <1>1, <1>2, <2>1 DEF n
    <3>2. /\ Agree(n, g, Sets(m, name, value), Sets(w, name, value))
          /\ Sets(m, name, value).pc = m.pc + 1
      <4>1. name \in 1..n /\ name # g.name
        BY <2>4
      <4> QED
        BY ONLY <1>1, <4>1, <3>1, SetsAgree
    <3> QED
      BY <3>2
  <2> HIDE DEF mm, ww, ms, ws
  <2>10. Agree(n, g, mm, ww) /\ mm.pc = ms.pc
    BY <2>8, <2>9, AskedAgrees
  <2> QED
    BY <2>9, <2>10, <1>1, <1>2
<1>16. CASE Plain(I.op)
  <2> DEFINE x == v(1)
             y == v(2)
             op == I.op
  <2>1. 1..2 \subseteq DOMAIN I.args /\ j < n
    BY <1>6, <1>16 DEF Arity, Plain
  <2>2. Value(J.args[1], args, w) = x /\ Value(J.args[2], args, w) = y
    <3>1. 1 \in DOMAIN I.args /\ 2 \in DOMAIN I.args
      BY <2>1
    <3> QED
      BY <3>1, <1>5
  <2>3. mm = IF Traps(op, x, y) THEN State(0, m.regs, TRUE, m.ret, m.hits, m.seen)
             ELSE Sets(m, I.name, Apply(op, x, y))
    BY <1>2, <1>16, DoPlain
  <2>4. ww = IF Traps(op, x, y) THEN State(0, w.regs, TRUE, w.ret, w.hits, w.seen)
             ELSE Sets(w, I.name, Apply(op, x, y))
    <3> DEFINE X == Value(J.args[1], args, w)
               Y == Value(J.args[2], args, w)
    <3>1. IsState(w, n + g.more) /\ w.pc # 0 /\ Plain(J.op) /\ J.op = op /\ J.name = I.name
      BY <1>2, <1>3, <1>16
    <3>2. ww = IF Traps(J.op, X, Y) THEN State(0, w.regs, TRUE, w.ret, w.hits, w.seen)
               ELSE Sets(w, J.name, Apply(J.op, X, Y))
      BY <3>1, DoPlain
    <3>3. X = x /\ Y = y
      BY <2>2
    <3> HIDE DEF X, Y, x, y, op, ww, J, I
    <3> QED
      BY <3>1, <3>2, <3>3
  <2>5. CASE Traps(op, x, y)
    <3>1. Put(g, 0) = 0 /\ 0 \in 0..n
      BY <1>1 DEF Put, Place
    <3> HIDE DEF x, y, op, mm, ww, Goal
    <3>2. Parts(0, Put(g, 0), TRUE, m.ret, m.hits, w.hits, m.seen, w.seen)
      BY <2>3, <2>4, <2>5, <3>1, <1>11
    <3> HIDE DEF Parts
    <3> QED
      BY <1>10, <1>11, <3>1, <3>2
  <2>6. CASE ~Traps(op, x, y)
    <3> DEFINE z == Apply(op, x, y)
    <3>1. mm = Sets(m, I.name, z) /\ ww = Sets(w, I.name, z)
      BY <2>3, <2>4, <2>6
    <3> HIDE DEF z, mm, ww, Goal
    <3> QED
      BY <1>9, <2>1, <3>1
  <2> QED
    BY <2>5, <2>6
<1> QED
  BY <1>12, <1>13, <1>14, <1>15, <1>16 DEF Plain
-----------------------------------------------------------------------------
(* Two functions that run alike *)

\* A run that was stopped.
Dead(s) == s.trap = TRUE /\ s.pc = 0

\* Where m can go from the place p.
Onward(p, m) == m.pc = 0 \/ m.pc > p

\* What the instructions of c do that stand for the one of b at g.at.
GroupWorks(b, c, g, args, on) ==
  \A m, R : \A t \in Nat :
    /\ Agree(Len(b), g, m, R[t]) /\ m.pc = g.at
    /\ \A k \in 0..g.more : R[t + k + 1] = Do(c, args, on, R[t + k])
    => \/ Dead(R[t + g.more + 1])
       \/ /\ Agree(Len(b), g, Do(b, args, on, m), R[t + g.more + 1])
          /\ Onward(g.at, Do(b, args, on, m))

\* w, the end of a run of c, is alike m, the end of one of b.
AlikeBut(n, g, m, w) ==
  w.trap # TRUE =>
    /\ m.trap # TRUE /\ w.ret = m.ret /\ w.seen \intersect (1..n) = m.seen
    /\ w.hits = m.hits \union (IF g.name \in m.seen THEN g.ids ELSE {})

\* Runs begin alike.
LEMMA StartsAgree ==
  ASSUME NEW b, NEW c, NEW g, Grown(b, c, g)
  PROVE  Agree(Len(b), g, Start(b), Start(c))
<1> DEFINE n == Len(b)
           m == Start(b)
           w == Start(c)
<1>1. /\ n \in Nat /\ g.more \in Nat /\ g.at \in 1..n /\ Len(c) = n + g.more
      /\ DOMAIN b = 1..n /\ DOMAIN c = 1..n + g.more /\ g.to \in 1..n + g.more
      /\ g.name \in 1..n
  <2>1. /\ n \in Nat /\ g.more \in Nat /\ g.at \in 1..n /\ Len(c) = n + g.more
    BY PutIs DEF Grown
  <2>2. DOMAIN b = 1..Len(b) /\ DOMAIN c = 1..Len(c)
    BY ListIsSeq DEF Grown, Layout
  <2>3. g.to \in 1..Len(c) /\ b[g.at].name = g.name /\ b[g.at].name \in 1..n
    BY <2>1 DEF Grown, Layout
  <2> QED
    BY <2>1, <2>2, <2>3
<1> HIDE DEF n
<1>2. /\ m.pc = 1 /\ m.regs = [x \in 1..n |-> 0] /\ m.trap = FALSE /\ m.ret = 0 /\ m.hits = {}
      /\ m.seen = {} /\ IsState(m, n)
  BY <1>1 DEF Start, IsState, State
<1> DEFINE l == n + g.more
<1>3. DOMAIN c = 1..l
  BY <1>1
<1> HIDE DEF l
<1>4. /\ w.pc = 1 /\ w.regs = [x \in 1..l |-> 0] /\ w.trap = FALSE /\ w.ret = 0 /\ w.hits = {}
      /\ w.seen = {} /\ IsState(w, l)
  BY <1>3 DEF Start, IsState, State
<1> HIDE DEF m, w
<1>5. 1 \in 0..n /\ Put(g, 1) = 1
  BY <1>1 DEF Put, Place
<1>6. Agree(n, g, m, w)
  <2>1. \A x \in 1..n : x \in 1..l
    BY <1>1 DEF l
  <2>2. w.regs[g.to] = 0 /\ m.regs[g.name] = 0
    BY <1>1, <1>2, <1>4 DEF l
  <2>3. \A x \in 1..n : w.regs[x] = m.regs[x]
    BY <2>1, <1>2, <1>4
  <2>4. w.hits = m.hits \union (IF g.name \in m.seen THEN g.ids ELSE {})
    BY <1>2, <1>4
  <2>5. w.seen \intersect (1..n) = m.seen
    BY <1>2, <1>4
  <2>6. IsState(w, n + g.more) /\ m.pc \in 0..n /\ w.pc = Put(g, m.pc)
    BY <1>2, <1>4, <1>5 DEF l
  <2>7. w.trap = m.trap /\ w.ret = m.ret /\ IsState(m, n)
    BY <1>2, <1>4
  <2> QED
    BY ONLY <2>2, <2>3, <2>4, <2>5, <2>6, <2>7 DEF Agree
<1> QED
  BY <1>6 DEF n, m, w

\* If the instruction that has grown does what it did, or stops, so does the function.
THEOREM Simulated ==
  ASSUME NEW b, NEW c, NEW g, Grown(b, c, g), NEW args, NEW on,
         GroupWorks(b, c, g, args, on)
  PROVE  AlikeBut(Len(b), g, Exec(b, args, on), Exec(c, args, on))
<1> DEFINE n == Len(b)
           more == g.more
<1>1. /\ n \in Nat /\ more \in Nat /\ g.at \in 1..n /\ Len(c) = n + more
  BY PutIs DEF Grown
<1>2. PICK Rb : Ran(b, args, on, Rb)
  BY <1>1, RunIs
<1>3. PICK Rc : Ran(c, args, on, Rc)
  <2>1. Len(c) \in Nat
    BY <1>1
  <2> QED
    BY <2>1, RunIs
<1> DEFINE Together(k, t) ==
             /\ Agree(n, g, Rb[k], Rc[t])
             /\ Onward(k, Rb[k])
             /\ Rb[k].pc # 0 /\ Rb[k].pc <= g.at => t = k
           Reached(k) == \E t \in 0..k + more : Dead(Rc[t]) \/ Together(k, t)
           T == {k \in 0..n : Reached(k)}
<1>4. \A k \in 0..n - 1 : Rb[k + 1] = Do(b, args, on, Rb[k])
  BY <1>2 DEF Ran
<1>5. \A t \in 0..n + more - 1 : Rc[t + 1] = Do(c, args, on, Rc[t])
  BY <1>3, <1>1 DEF Ran
<1>6. 0 \in T
  <2>1. Agree(n, g, Rb[0], Rc[0])
    BY <1>2, <1>3, StartsAgree DEF Ran
  <2>2. Rb[0].pc = 1
    BY <1>2 DEF Ran, Start
  <2>3. Together(0, 0)
    BY <2>1, <2>2 DEF Onward
  <2>4. 0 \in 0..0 + more /\ 0 \in 0..n
    BY <1>1
  <2> HIDE DEF Together
  <2> QED
    BY <2>3, <2>4
<1>7. ASSUME NEW k \in 0..n - 1, k \in T PROVE k + 1 \in T
  <2>1. k \in Nat /\ k + 1 \in 0..n /\ k \in 0..n
    BY <1>1
  <2>2. PICK t \in 0..k + more : Dead(Rc[t]) \/ Together(k, t)
    BY <1>7
  <2>3. t \in Nat /\ t <= k + more /\ t \in 0..n + more - 1 /\ t \in 0..k + 1 + more
        /\ t + 1 \in 0..k + 1 + more
    BY <1>1, <2>1
  <2> SUFFICES Reached(k + 1)
    BY <2>1
  <2>4. CASE Dead(Rc[t])
    BY <2>3, <2>4
  <2>5. CASE Together(k, t) /\ Rb[k].pc = 0
    <3>1. Rb[k + 1] = Rb[k]
      BY <1>4, <2>5, DoEnded
    <3>2. Together(k + 1, t)
      BY <3>1, <2>5 DEF Onward
    <3> HIDE DEF Together
    <3> QED
      BY <2>3, <3>2
  <2>6. CASE Together(k, t) /\ Rb[k].pc # 0 /\ Rb[k].pc # g.at
    <3>1. /\ Agree(n, g, Do(b, args, on, Rb[k]), Do(c, args, on, Rc[t]))
          /\ Do(b, args, on, Rb[k]).pc = 0 \/ Do(b, args, on, Rb[k]).pc > Rb[k].pc
      <4>1. Agree(Len(b), g, Rb[k], Rc[t])
        BY <2>6
      <4> QED
        BY <4>1, <2>6, StepAgrees
    <3>2. Rb[k + 1] = Do(b, args, on, Rb[k]) /\ Rc[t + 1] = Do(c, args, on, Rc[t])
      BY <1>4, <1>5, <2>3
    <3>3. Agree(n, g, Rb[k + 1], Rc[t + 1])
      BY <3>1, <3>2
    <3>4. Rb[k + 1].pc = 0 \/ Rb[k + 1].pc > Rb[k].pc
      BY <3>1, <3>2
    <3>5. Rb[k].pc \in Nat /\ Rb[k + 1].pc \in Nat /\ Rb[k].pc > k
      <4>1. Rb[k].pc \in 0..n /\ Rb[k + 1].pc \in 0..n
        BY <2>6, <3>3 DEF Agree
      <4>2. Rb[k].pc > k
        BY <2>6 DEF Onward
      <4> QED
        BY <4>1, <4>2
    <3>6. Onward(k + 1, Rb[k + 1])
      BY <3>4, <3>5, <2>1 DEF Onward
    <3>7. Rb[k + 1].pc # 0 /\ Rb[k + 1].pc <= g.at => t + 1 = k + 1
      BY <3>4, <3>5, <2>6, <1>1
    <3>8. Together(k + 1, t + 1)
      BY <3>3, <3>6, <3>7
    <3> HIDE DEF Together
    <3> QED
      BY <2>3, <3>8
  <2>7. CASE Together(k, t) /\ Rb[k].pc = g.at
    <3>1. t = k
      BY <2>7, <1>1
    <3>2. \A i \in 0..more : Rc[k + i + 1] = Do(c, args, on, Rc[k + i])
      <4> TAKE i \in 0..more
      <4>1. k + i \in 0..n + more - 1
        BY <1>1
      <4> QED
        BY <4>1, <1>5
    <3> DEFINE s == k + more + 1
    <3>3. Dead(Rc[s]) \/ (Agree(n, g, Do(b, args, on, Rb[k]), Rc[s])
                            /\ Onward(g.at, Do(b, args, on, Rb[k])))
      <4>1. Agree(Len(b), g, Rb[k], Rc[k]) /\ Rb[k].pc = g.at
        BY <2>7, <3>1
      <4> QED
        BY <4>1, <3>2, <2>1 DEF GroupWorks
    <3>4. s \in 0..k + 1 + more
      BY <2>1, <1>1
    <3>5. Rb[k + 1] = Do(b, args, on, Rb[k])
      BY <1>4
    <3> HIDE DEF s
    <3>6. CASE Dead(Rc[s])
      BY <3>4, <3>6
    <3>7. CASE Agree(n, g, Rb[k + 1], Rc[s]) /\ Onward(g.at, Rb[k + 1])
      <4>1. g.at > k /\ Rb[k + 1].pc \in 0..n
        BY <2>7, <3>7, <1>1 DEF Onward, Agree
      <4>2. Onward(k + 1, Rb[k + 1])
        BY <4>1, <3>7, <1>1, <2>1 DEF Onward
      <4>3. ~(Rb[k + 1].pc # 0 /\ Rb[k + 1].pc <= g.at)
        BY <4>1, <3>7, <1>1 DEF Onward
      <4>4. Together(k + 1, s)
        BY <4>2, <4>3, <3>7
      <4> HIDE DEF Together
      <4> QED
        BY <4>4, <3>4
    <3> HIDE DEF Reached
    <3> QED
      BY <3>3, <3>5, <3>6, <3>7
  <2> HIDE DEF Reached, Together
  <2> QED
    BY <2>2, <2>4, <2>5, <2>6, <2>7
<1>8. n \in T
  <2> HIDE DEF T
  <2>1. 0..n \subseteq T
    BY <1>1, <1>6, <1>7, InductionUpTo
  <2> QED
    BY <2>1, <1>1
<1>9. PICK t \in 0..n + more : Dead(Rc[t]) \/ Together(n, t)
  BY <1>8
<1>10. t \in 0..Len(c) /\ Len(c) \in Nat
  BY <1>1
<1>11. CASE Dead(Rc[t])
  <2>1. Exec(c, args, on) = Rc[t]
    BY <1>3, <1>10, <1>11, RunEnded DEF Dead
  <2> QED
    BY <2>1, <1>11 DEF Dead, AlikeBut
<1>12. CASE Together(n, t)
  <2>1. Rb[n].pc = 0
    <3>1. Rb[n].pc \in 0..n
      BY <1>12 DEF Agree
    <3>2. Rb[n].pc = 0 \/ Rb[n].pc > n
      BY <1>12 DEF Onward
    <3> QED
      BY <3>1, <3>2, <1>1
  <2>2. Rc[t].pc = 0
    <3>1. Put(g, 0) = 0
      BY <1>1 DEF Put, Place
    <3> QED
      BY <3>1, <2>1, <1>12 DEF Agree
  <2>3. Exec(c, args, on) = Rc[t]
    BY <1>3, <1>10, <2>2, RunEnded
  <2>4. Exec(b, args, on) = Rb[n]
    BY <1>2 DEF Ran
  <2> QED
    BY <2>3, <2>4, <1>12 DEF Agree, AlikeBut
<1> QED
  BY <1>9, <1>11, <1>12
-----------------------------------------------------------------------------
(* What the instructions of a chain do *)

\* s is m but for the place, a value for name, and what was seen.
After(n, m, s, name, value) ==
  /\ IsState(s, n) /\ s.pc = m.pc + 1 /\ s.trap = m.trap /\ s.ret = m.ret
  /\ s.seen = m.seen \union {name}
  /\ \A x \in 1..n : s.regs[x] = IF x = name THEN value ELSE m.regs[x]

\* A value for each name.
Regs(r, n) == r = [x \in 1..n |-> r[x]]

\* A state that is given by its parts.
LEMMA StateHas ==
  ASSUME NEW pc \in Nat, NEW regs, NEW trap, NEW ret, NEW hits, NEW seen, NEW n,
         Regs(regs, n), NEW m, m = State(pc, regs, trap, ret, hits, seen)
  PROVE  /\ IsState(m, n) /\ m.pc = pc /\ m.regs = regs /\ m.trap = trap /\ m.ret = ret
         /\ m.hits = hits /\ m.seen = seen
BY DEF State, IsState, Regs

\* What Sets does.
LEMMA SetsHas ==
  ASSUME NEW n, NEW m, IsState(m, n), NEW name \in 1..n, NEW value, NEW s, s = Sets(m, name, value)
  PROVE  After(n, m, s, name, value) /\ s.hits = m.hits
<1> DEFINE r == [m.regs EXCEPT ![name] = value]
<1>1. m.pc \in Nat /\ m.regs = [x \in 1..n |-> m.regs[x]]
  BY DEF IsState
<1>2. s = State(m.pc + 1, r, m.trap, m.ret, m.hits, m.seen \union {name})
  BY SetsIs
<1>3. r = [x \in 1..n |-> r[x]] /\ \A x \in 1..n : r[x] = IF x = name THEN value ELSE m.regs[x]
  BY <1>1
<1>3a. Regs(r, n)
  BY <1>3 DEF Regs
<1> DEFINE p == m.pc + 1
           z == m.seen \union {name}
<1>4. p \in Nat
  BY <1>1
<1> HIDE DEF r, p, z
<1>5. s = State(p, r, m.trap, m.ret, m.hits, z)
  BY <1>2 DEF p, z
<1>6. /\ IsState(s, n) /\ s.pc = p /\ s.regs = r /\ s.trap = m.trap /\ s.ret = m.ret
      /\ s.hits = m.hits /\ s.seen = z
  BY ONLY <1>3a, <1>4, <1>5, StateHas
<1> QED
  BY <1>3, <1>6 DEF After, p, z

\* What a plain operator does: it stops, or gives its value.
LEMMA PlainDoes ==
  ASSUME NEW b, NEW args, NEW on, NEW n, NEW m, IsState(m, n), m.pc # 0,
         NEW I, I = b[m.pc], Plain(I.op), I.name \in 1..n,
         NEW x, x = Value(I.args[1], args, m), NEW y, y = Value(I.args[2], args, m),
         NEW s, s = Do(b, args, on, m)
  PROVE  \/ Traps(I.op, x, y) /\ Dead(s)
         \/ /\ ~Traps(I.op, x, y) /\ s.hits = m.hits
            /\ After(n, m, s, I.name, Apply(I.op, x, y))
<1> DEFINE op == I.op
           name == I.name
           v == Apply(op, x, y)
<1>1. s = IF Traps(op, x, y) THEN State(0, m.regs, TRUE, m.ret, m.hits, m.seen) ELSE Sets(m, name, v)
  BY DoPlain
<1> HIDE DEF op, name, v
<1>2. CASE Traps(op, x, y)
  <2>1. s = State(0, m.regs, TRUE, m.ret, m.hits, m.seen)
    BY <1>1, <1>2
  <2>2. Dead(s)
    BY <2>1 DEF State, Dead
  <2> QED
    BY <1>2, <2>1, <2>2 DEF op
<1>3. CASE ~Traps(op, x, y)
  <2>1. s = Sets(m, name, v) /\ name \in 1..n
    BY <1>1, <1>3 DEF name
  <2>2. After(n, m, s, name, v) /\ s.hits = m.hits
    BY <2>1, SetsHas
  <2> QED
    BY <2>2, <1>3 DEF op, name, v
<1> QED
  BY <1>2, <1>3

\* After a call for id.
AfterCall(n, m, s, name, value, id) == After(n, m, s, name, value) /\ s.hits = m.hits \union {id}

\* What a call of the runtime does.
LEMMA CallDoes ==
  ASSUME NEW b, NEW args, NEW on, NEW n, NEW m, IsState(m, n), m.pc # 0,
         NEW I, I = b[m.pc], NEW id, AsksFor(I, id), I.name \in 1..n,
         NEW yes, yes = Truth(id = on), NEW s, s = Do(b, args, on, m)
  PROVE  AfterCall(n, m, s, I.name, yes, id)
<1> DEFINE name == I.name
           w == Sets(m, name, yes)
<1>1. IsState(m, n) /\ m.pc # 0 /\ AsksFor(b[m.pc], id) /\ yes = Truth(id = on)
  OBVIOUS
<1>2. name \in 1..n
  OBVIOUS
<1>3. s = Asked(w, id)
  <2>1. Do(b, args, on, m) = Asked(Sets(m, b[m.pc].name, yes), id)
    BY ONLY <1>1, DoCall
  <2> QED
    BY <2>1
<1> HIDE DEF name
<1>4. After(n, m, w, name, yes) /\ w.hits = m.hits
  <2> HIDE DEF w
  <2>1. w = Sets(m, name, yes)
    BY DEF w
  <2> QED
    BY <1>2, <2>1, SetsHas
<1> HIDE DEF w
<1>5. /\ IsState(s, n) /\ s.pc = w.pc /\ s.regs = w.regs /\ s.trap = w.trap /\ s.ret = w.ret
      /\ s.hits = w.hits \union {id} /\ s.seen = w.seen
  BY <1>3, <1>4, AskedIs DEF After
<1>6. After(n, m, s, name, yes) /\ s.hits = m.hits \union {id}
  BY <1>4, <1>5 DEF After
<1> QED
  BY <1>6 DEF name, AfterCall

\* What a select between x and y does.
LEMMA SelectDoes ==
  ASSUME NEW b, NEW args, NEW on, NEW n, NEW m, IsState(m, n), m.pc # 0,
         NEW I, I = b[m.pc], I.op = "select", I.name \in 1..n,
         NEW c, NEW x, NEW y, I.args = <<Val(c), x, y>>,
         NEW v, v = IF m.regs[c] = 1 THEN Value(x, args, m) ELSE Value(y, args, m),
         NEW s, s = Do(b, args, on, m)
  PROVE  After(n, m, s, I.name, v) /\ s.hits = m.hits
<1> DEFINE name == I.name
<1>1. I.args[1] = Val(c) /\ I.args[2] = x /\ I.args[3] = y
  OBVIOUS
<1>2. Value(Val(c), args, m) = m.regs[c]
  BY DEF Value, Val
<1>3. s = Sets(m, name, IF Value(I.args[1], args, m) = 1 THEN Value(I.args[2], args, m)
                        ELSE Value(I.args[3], args, m))
  BY DoSelect
<1>4. s = Sets(m, name, v)
  <2> HIDE DEF name
  <2> QED
    BY <1>1, <1>2, <1>3
<1>5. name \in 1..n
  OBVIOUS
<1> HIDE DEF name
<1>6. After(n, m, s, name, v) /\ s.hits = m.hits
  BY <1>4, <1>5, SetsHas
<1> QED
  BY <1>6 DEF name

\* A run that was stopped goes nowhere.
LEMMA DeadStays ==
  ASSUME NEW c, NEW args, NEW on, NEW s, Dead(s)
  PROVE  Dead(Do(c, args, on, s))
BY DoEnded DEF Dead
-----------------------------------------------------------------------------
(* Chains at work *)

\* The link of c behind the place p: an alternative, the call for id, and the choice
\* between the alternative and what prev has. They are named from base on.
LinkAt(c, p, base, id, prev) ==
  /\ Plain(c[p + 1].op) /\ c[p + 1].name = base + 1
  /\ AsksFor(c[p + 2], id) /\ c[p + 2].name = base + 2
  /\ c[p + 3].op = "select" /\ c[p + 3].name = base + 3
  /\ c[p + 3].args = <<Val(base + 2), Val(base + 1), Val(prev)>>

\* u is s after a link that asked for id: its end has v, the others have what they had.
LinkDone(n, s, u, base, id, v) ==
  /\ IsState(u, n) /\ u.pc = s.pc + 3 /\ u.trap = s.trap /\ u.ret = s.ret
  /\ u.hits = s.hits \union {id}
  /\ u.seen = s.seen \union {base + 1, base + 2, base + 3}
  /\ u.regs[base + 3] = v
  /\ \A x \in 1..n : x \notin {base + 1, base + 2, base + 3} => u.regs[x] = s.regs[x]

\* A link stops, or gives the value of the alternative if its mutant is active, else that of prev.
LEMMA LinkDoes ==
  ASSUME NEW c, NEW args, NEW on, NEW n \in Nat, NEW base \in Nat, base + 3 <= n,
         NEW p \in Nat, NEW id, NEW prev \in 1..n, prev \notin {base + 1, base + 2, base + 3},
         LinkAt(c, p, base, id, prev),
         NEW s, IsState(s, n), s.pc = p + 1,
         NEW x, x = Value(c[p + 1].args[1], args, s), NEW y, y = Value(c[p + 1].args[2], args, s),
         NEW s1, s1 = Do(c, args, on, s), NEW s2, s2 = Do(c, args, on, s1),
         NEW s3, s3 = Do(c, args, on, s2)
  PROVE  \/ Dead(s3)
         \/ /\ ~Traps(c[p + 1].op, x, y)
            /\ LinkDone(n, s, s3, base, id,
                        IF id = on THEN Apply(c[p + 1].op, x, y) ELSE s.regs[prev])
<1> DEFINE op == c[p + 1].op
           v == Apply(op, x, y)
           b1 == base + 1
           b2 == base + 2
           b3 == base + 3
<1>0. /\ b1 \in 1..n /\ b2 \in 1..n /\ b3 \in 1..n /\ b1 # b2 /\ b2 # b3 /\ b1 # b3
      /\ p + 1 # 0 /\ p + 2 # 0 /\ p + 3 # 0 /\ p + 1 + 1 = p + 2 /\ p + 2 + 1 = p + 3
      /\ p + 3 + 1 = p + 4 /\ p + 1 + 3 = p + 4
  OBVIOUS
<1>00. /\ Plain(c[p + 1].op) /\ c[p + 1].name = b1
       /\ AsksFor(c[p + 2], id) /\ c[p + 2].name = b2
       /\ c[p + 3].op = "select" /\ c[p + 3].name = b3
       /\ c[p + 3].args = <<Val(b2), Val(b1), Val(prev)>>
  BY DEF LinkAt
<1>01. prev # b1 /\ prev # b2 /\ prev # b3
  OBVIOUS
<1> HIDE DEF b1, b2, b3
<1>1. CASE Dead(s1)
  <2>1. Dead(s2)
    BY <1>1, DeadStays
  <2> QED
    BY <2>1, DeadStays
<1>2. CASE ~Traps(op, x, y) /\ s1.hits = s.hits /\ After(n, s, s1, b1, v)
  <2>1. IsState(s1, n) /\ s1.pc = p + 2
    BY <1>2, <1>0 DEF After
  <2>2. After(n, s1, s2, b2, Truth(id = on)) /\ s2.hits = s1.hits \union {id}
    <3> DEFINE I == c[p + 2]
               yes == Truth(id = on)
    <3>1. /\ IsState(s1, n) /\ s1.pc # 0 /\ I = c[s1.pc] /\ AsksFor(I, id) /\ I.name \in 1..n
          /\ s2 = Do(c, args, on, s1) /\ yes = Truth(id = on)
      BY <2>1, <1>0, <1>00
    <3>2. I.name = b2
      BY <1>00
    <3> HIDE DEF I, yes
    <3>3. AfterCall(n, s1, s2, I.name, yes, id)
      BY ONLY <3>1, CallDoes
    <3> QED
      BY <3>2, <3>3 DEF yes, AfterCall
  <2>3. IsState(s2, n) /\ s2.pc = p + 3
    BY <2>1, <2>2, <1>0 DEF After
  <2> DEFINE z == IF s2.regs[b2] = 1 THEN Value(Val(b1), args, s2) ELSE Value(Val(prev), args, s2)
  <2>4. After(n, s2, s3, b3, z) /\ s3.hits = s2.hits
    <3> DEFINE I == c[p + 3]
               V1 == Val(b1)
               V0 == Val(prev)
    <3>1. /\ IsState(s2, n) /\ s2.pc # 0 /\ I = c[s2.pc] /\ I.op = "select" /\ I.name \in 1..n
          /\ I.args = <<Val(b2), V1, V0>> /\ s3 = Do(c, args, on, s2)
          /\ z = IF s2.regs[b2] = 1 THEN Value(V1, args, s2) ELSE Value(V0, args, s2)
      BY <2>3, <1>0, <1>00
    <3>2. I.name = b3
      BY <1>00
    <3> HIDE DEF I, V1, V0, z
    <3>3. After(n, s2, s3, I.name, z) /\ s3.hits = s2.hits
      BY ONLY <3>1, SelectDoes
    <3> QED
      BY <3>2, <3>3
  <2>5. s2.regs[b2] = Truth(id = on)
    BY <2>2, <1>0 DEF After
  <2>6. s2.regs[b1] = v /\ s2.regs[prev] = s.regs[prev]
    <3>1. s2.regs[b1] = s1.regs[b1] /\ s2.regs[prev] = s1.regs[prev]
      BY <2>2, <1>0, <1>01 DEF After
    <3>2. s1.regs[b1] = v /\ s1.regs[prev] = s.regs[prev]
      BY <1>2, <1>0, <1>01 DEF After
    <3> QED
      BY <3>1, <3>2
  <2>7. z = IF id = on THEN v ELSE s.regs[prev]
    <3>1. Value(Val(b1), args, s2) = s2.regs[b1] /\ Value(Val(prev), args, s2) = s2.regs[prev]
      BY DEF Value, Val
    <3>2. Truth(id = on) = 1 <=> id = on
      BY DEF Truth
    <3> HIDE DEF v
    <3> QED
      BY <3>1, <3>2, <2>5, <2>6
  <2> HIDE DEF z, v
  <2>8. s3.regs[b3] = z
    BY <2>4, <1>0 DEF After
  <2>9. \A q \in 1..n : q \notin {b1, b2, b3} => s3.regs[q] = s.regs[q]
    BY <2>4, <2>2, <1>2 DEF After
  <2>10. s3.seen = s.seen \union {b1, b2, b3}
    <3>1. s1.seen = s.seen \union {b1} /\ s2.seen = s1.seen \union {b2} /\ s3.seen = s2.seen \union {b3}
      BY <2>4, <2>2, <1>2 DEF After
    <3> QED
      BY <3>1
  <2>11. /\ IsState(s3, n) /\ s3.pc = s.pc + 3 /\ s3.trap = s.trap /\ s3.ret = s.ret
         /\ s3.hits = s.hits \union {id}
    BY <2>3, <2>4, <2>2, <1>2, <1>0 DEF After
  <2> QED
    BY <1>2, <2>7, <2>8, <2>9, <2>10, <2>11 DEF LinkDone, b1, b2, b3, v
<1>3. Dead(s1) \/ (~Traps(op, x, y) /\ s1.hits = s.hits /\ After(n, s, s1, b1, v))
  <2> DEFINE I == c[p + 1]
  <2>1. /\ IsState(s, n) /\ s.pc # 0 /\ I = c[s.pc] /\ Plain(I.op) /\ I.name \in 1..n /\ I.name = b1
        /\ x = Value(I.args[1], args, s) /\ y = Value(I.args[2], args, s)
    BY <1>0, <1>00
  <2> HIDE DEF I
  <2>2. s1 = Do(c, args, on, s)
    OBVIOUS
  <2>3. \/ Traps(I.op, x, y) /\ Dead(s1)
        \/ /\ ~Traps(I.op, x, y) /\ s1.hits = s.hits
           /\ After(n, s, s1, I.name, Apply(I.op, x, y))
    BY ONLY <2>1, <2>2, PlainDoes
  <2>4. I.op = op
    BY DEF I
  <2> HIDE DEF op
  <2> QED
    BY <2>1, <2>3, <2>4
<1> QED
  BY <1>1, <1>2, <1>3

\* The operands of I have in s the values they have in m.
OperandsKeep(I, args, m, s) ==
  \A a \in DOMAIN I.args : Value(I.args[a], args, s) = Value(I.args[a], args, m)

\* s has for the names 1..n what m has, but for one name.
KeepsBut(n, name, m, s) == \A x \in 1..n : x # name => s.regs[x] = m.regs[x]

\* An instruction does not use its own value.
LEMMA OwnValue ==
  ASSUME NEW b, Layout(b), NEW j \in 1..Len(b), NEW args, NEW m, NEW s,
         KeepsBut(Len(b), b[j].name, m, s), Flow(b)
  PROVE  OperandsKeep(b[j], args, m, s)
<1> SUFFICES ASSUME NEW a \in DOMAIN b[j].args
             PROVE  Value(b[j].args[a], args, s) = Value(b[j].args[a], args, m)
  BY DEF OperandsKeep
<1> DEFINE o == b[j].args[a]
<1>1. CASE o[1] = "val"
  <2>1. PICK i \in 1..j - 1 : Named(b, o[2], i)
    BY <1>1 DEF Layout, MadeBefore
  <2>2. i \in 1..Len(b) /\ i # j /\ b[i].name = o[2]
    BY <2>1 DEF Named
  <2>3. o[2] \in 1..Len(b) /\ o[2] # b[j].name
    BY <2>2 DEF Layout
  <2>4. s.regs[o[2]] = m.regs[o[2]]
    BY <2>3 DEF KeepsBut
  <2> QED
    BY <2>4, <1>1 DEF Value
<1>2. CASE o[1] # "val"
  BY <1>2 DEF Value
<1> QED
  BY <1>1, <1>2

\* Where the instruction stands that gives the value when the q-th of the mutants is
\* active (0: none of them).
ChosenAt(g, q) == IF q = 0 THEN g.at ELSE g.at + 3 * (q - 1) + 1

\* The name of what has the value after k links.
Cur(n, g, k) == IF k = 0 THEN g.name ELSE n + 3 * k

\* c has a chain behind the site; with the q-th of its mutants active it gives
\* what the instruction of b gives.
ChainGroup(b, c, g, made, q, on) ==
  /\ Len(made) \in Nat \ {0} /\ q \in 0..Len(made)
  /\ g.more = 3 * Len(made) /\ g.to = Len(b) + 3 * Len(made) /\ g.ids = FirstIds(made, Len(made))
  /\ \A k \in 1..Len(made) : made[k].id = on <=> k = q
  /\ Plain(b[g.at].op) /\ Plain(c[g.at].op) /\ c[g.at].name = g.name
  /\ \A k \in 1..Len(made) :
       LinkAt(c, g.at + 3 * (k - 1), Len(b) + 3 * (k - 1), made[k].id, Cur(Len(b), g, k - 1))
  /\ c[ChosenAt(g, q)].op = b[g.at].op
  /\ \A a \in DOMAIN b[g.at].args : c[ChosenAt(g, q)].args[a] = b[g.at].args[a]

\* s is the state behind the site, from m and w, and k links.
ChainAfter(n, g, made, q, m, w, traps, v, k, s) ==
  /\ IsState(s, n + g.more) /\ s.pc = g.at + 3 * k + 1 /\ s.trap = w.trap /\ s.ret = w.ret
  /\ s.hits = w.hits \union FirstIds(made, k)
  /\ s.seen \intersect (1..n) = m.seen \union {g.name}
  /\ KeepsBut(n, g.name, m, s)
  /\ q <= k => traps = FALSE /\ s.regs[Cur(n, g, k)] = v

\* One link more.
LEMMA ChainGoesOn ==
  ASSUME NEW b, NEW c, NEW g, Grown(b, c, g), NEW made, NEW q, NEW on,
         ChainGroup(b, c, g, made, q, on), NEW args, NEW m, NEW w,
         NEW x, x = Value(b[g.at].args[1], args, m), NEW y, y = Value(b[g.at].args[2], args, m),
         NEW v, v = Apply(b[g.at].op, x, y), NEW traps, traps = Traps(b[g.at].op, x, y),
         NEW k \in 1..Len(made), NEW s, ChainAfter(Len(b), g, made, q, m, w, traps, v, k - 1, s),
         NEW s1, s1 = Do(c, args, on, s), NEW s2, s2 = Do(c, args, on, s1),
         NEW s3, s3 = Do(c, args, on, s2)
  PROVE  Dead(s3) \/ ChainAfter(Len(b), g, made, q, m, w, traps, v, k, s3)
<1> DEFINE n == Len(b)
           K == Len(made)
           N == n + g.more
           p == g.at + 3 * (k - 1)
           base == n + 3 * (k - 1)
           prev == Cur(n, g, k - 1)
           id == made[k].id
           J == c[p + 1]
           X == Value(J.args[1], args, s)
           Y == Value(J.args[2], args, s)
           u == IF id = on THEN Apply(J.op, X, Y) ELSE s.regs[prev]
<1>1. /\ n \in Nat /\ g.at \in 1..n /\ g.more \in Nat /\ K \in Nat /\ g.more = 3 * K /\ q \in 0..K
      /\ N = n + 3 * K /\ g.name \in 1..n /\ b[g.at].name = g.name
  <2>1. n \in Nat /\ g.at \in 1..n /\ g.more \in Nat
    BY PutIs DEF Grown
  <2>2. K \in Nat /\ g.more = 3 * K /\ q \in 0..K
    BY DEF ChainGroup
  <2>3. b[g.at].name = g.name /\ b[g.at].name \in 1..n
    BY <2>1 DEF Grown, Layout
  <2> QED
    BY <2>1, <2>2, <2>3
<1>2. /\ p \in Nat /\ base \in Nat /\ N \in Nat /\ base + 3 <= N /\ prev \in 1..N
      /\ prev \notin {base + 1, base + 2, base + 3} /\ base + 3 = Cur(n, g, k)
      /\ p + 1 = g.at + 3 * (k - 1) + 1 /\ p + 1 + 3 = g.at + 3 * k + 1 /\ base >= n
  <2>1. k \in Nat /\ k >= 1 /\ k <= K /\ k # 0 /\ 3 * (k - 1) + 3 = 3 * k /\ 3 * k <= 3 * K
        /\ 3 * (k - 1) \in Nat
    BY <1>1
  <2>2. /\ p \in Nat /\ base \in Nat /\ N \in Nat /\ base + 3 <= N
        /\ base + 3 = n + 3 * k /\ p + 1 + 3 = g.at + 3 * k + 1 /\ base >= n
    BY <1>1, <2>1
  <2>3. base + 3 = Cur(n, g, k)
    BY <2>1, <2>2 DEF Cur
  <2>4. prev \in 1..N /\ prev \notin {base + 1, base + 2, base + 3}
    <3>1. prev = IF k - 1 = 0 THEN g.name ELSE base
      BY DEF Cur
    <3>2. k - 1 # 0 => base >= 1
      BY <2>1, <1>1
    <3>3. g.name \in 1..n /\ n <= base /\ base \in Nat /\ N \in Nat /\ base <= N
      BY <1>1, <2>2
    <3> HIDE DEF prev, base, N
    <3> QED
      BY <3>1, <3>2, <3>3
  <2> QED
    BY <2>2, <2>3, <2>4
<1>3. LinkAt(c, p, base, id, prev) /\ (id = on <=> k = q)
  BY DEF ChainGroup
<1>4. /\ IsState(s, N) /\ s.pc = p + 1 /\ s.trap = w.trap /\ s.ret = w.ret
      /\ s.hits = w.hits \union FirstIds(made, k - 1)
      /\ s.seen \intersect (1..n) = m.seen \union {g.name}
      /\ KeepsBut(n, g.name, m, s)
      /\ q <= k - 1 => traps = FALSE /\ s.regs[prev] = v
  BY <1>2 DEF ChainAfter
<1>5. Dead(s3) \/ (~Traps(J.op, X, Y) /\ LinkDone(N, s, s3, base, id, u))
  <2>1. /\ N \in Nat /\ base \in Nat /\ base + 3 <= N /\ p \in Nat /\ prev \in 1..N
        /\ prev \notin {base + 1, base + 2, base + 3} /\ LinkAt(c, p, base, id, prev)
        /\ IsState(s, N) /\ s.pc = p + 1 /\ X = Value(c[p + 1].args[1], args, s)
        /\ Y = Value(c[p + 1].args[2], args, s)
        /\ s1 = Do(c, args, on, s) /\ s2 = Do(c, args, on, s1) /\ s3 = Do(c, args, on, s2)
    BY <1>2, <1>3, <1>4
  <2> DEFINE U == IF id = on THEN Apply(c[p + 1].op, X, Y) ELSE s.regs[prev]
  <2> HIDE DEF N, base, p, prev, id, X, Y
  <2>2. Dead(s3) \/ (~Traps(c[p + 1].op, X, Y) /\ LinkDone(N, s, s3, base, id, U))
    BY ONLY <2>1, LinkDoes DEF U
  <2> QED
    BY <2>2
<1>6. CASE ~Traps(J.op, X, Y) /\ LinkDone(N, s, s3, base, id, u)
  <2>1. k = q => Traps(J.op, X, Y) = traps /\ u = v
    <3> SUFFICES ASSUME k = q PROVE Traps(J.op, X, Y) = traps /\ u = v
      OBVIOUS
    <3>1. J.op = b[g.at].op /\ \A a \in DOMAIN b[g.at].args : J.args[a] = b[g.at].args[a]
      <4>1. ChosenAt(g, q) = p + 1
        BY <1>1 DEF ChosenAt
      <4> QED
        BY <4>1 DEF ChainGroup
    <3>2. OperandsKeep(b[g.at], args, m, s)
      BY <1>1, <1>4, OwnValue DEF Grown
    <3>3. 1 \in DOMAIN b[g.at].args /\ 2 \in DOMAIN b[g.at].args
      <4>1. 1..Arity(b[g.at].op) \subseteq DOMAIN b[g.at].args /\ Arity(b[g.at].op) = 2
        BY <1>1 DEF Grown, Flow, ChainGroup, Plain, Arity
      <4> QED
        BY <4>1
    <3>4. X = x /\ Y = y
      BY <3>1, <3>2, <3>3 DEF OperandsKeep
    <3>5. id = on
      BY <1>3
    <3> HIDE DEF X, Y, J, id
    <3> QED
      BY SMTT(30), <3>1, <3>4, <3>5
  <2>2. q <= k => traps = FALSE /\ u = v
    <3> SUFFICES ASSUME q <= k PROVE traps = FALSE /\ u = v
      OBVIOUS
    <3>1. CASE k = q
      BY <3>1, <2>1, <1>6
    <3>2. CASE q <= k - 1
      <4>1. k # q
        BY <3>2, <1>1
      <4>2. id # on
        BY <4>1, <1>3
      <4>3. u = s.regs[prev]
        BY <4>2
      <4> HIDE DEF u, prev
      <4> QED
        BY <4>3, <3>2, <1>4
    <3>3. k = q \/ q <= k - 1
      BY <1>1
    <3> QED
      BY <3>1, <3>2, <3>3
  <2>3. s3.hits = w.hits \union FirstIds(made, k)
    <3>1. FirstIds(made, k) = FirstIds(made, k - 1) \union {id}
      <4>1. 1..k = 1..k - 1 \union {k}
        BY <1>1
      <4> QED
        BY <4>1 DEF FirstIds
    <3>2. s3.hits = s.hits \union {id}
      BY <1>6 DEF LinkDone
    <3> QED
      BY <3>1, <3>2, <1>4
  <2>4. s3.seen \intersect (1..n) = m.seen \union {g.name}
    <3>1. s3.seen = s.seen \union {base + 1, base + 2, base + 3}
      BY <1>6 DEF LinkDone
    <3>2. base \in Nat /\ base >= n /\ n \in Nat
      BY <1>1, <1>2
    <3> HIDE DEF base, n
    <3>3. s3.seen \intersect (1..n) = s.seen \intersect (1..n)
      BY <3>1, <3>2
    <3> QED
      BY <3>3, <1>4
  <2>5. KeepsBut(n, g.name, m, s3)
    <3> SUFFICES ASSUME NEW z \in 1..n, z # g.name PROVE s3.regs[z] = m.regs[z]
      BY DEF KeepsBut
    <3>1. z \in 1..N /\ z \notin {base + 1, base + 2, base + 3}
      <4>1. base \in Nat /\ base >= n /\ N \in Nat /\ N >= n /\ n \in Nat
        BY <1>1, <1>2
      <4> HIDE DEF base, n, N
      <4> QED
        BY <4>1
    <3>2. s3.regs[z] = s.regs[z]
      BY <3>1, <1>6 DEF LinkDone
    <3> QED
      BY <3>2, <1>4 DEF KeepsBut
  <2>6. IsState(s3, N) /\ s3.pc = g.at + 3 * k + 1 /\ s3.trap = w.trap /\ s3.ret = w.ret
    BY <1>6, <1>4, <1>2 DEF LinkDone
  <2>7. q <= k => traps = FALSE /\ s3.regs[Cur(n, g, k)] = v
    <3>1. s3.regs[base + 3] = u
      BY <1>6 DEF LinkDone
    <3> QED
      BY <3>1, <2>2, <1>2
  <2> QED
    BY <2>3, <2>4, <2>5, <2>6, <2>7 DEF ChainAfter
<1> QED
  BY <1>5, <1>6

\* What is known where a chain begins.
LEMMA ChainParts ==
  ASSUME NEW b, NEW c, NEW g, Grown(b, c, g), NEW made, NEW q, NEW on,
         ChainGroup(b, c, g, made, q, on)
  PROVE  /\ Len(b) \in Nat /\ g.at \in 1..Len(b) /\ g.more \in Nat /\ Len(made) \in Nat
         /\ g.more = 3 * Len(made) /\ q \in 0..Len(made) /\ g.at < Len(b)
         /\ g.name \in 1..Len(b) /\ b[g.at].name = g.name /\ b[g.at].op # Call
         /\ 1 \in DOMAIN b[g.at].args /\ 2 \in DOMAIN b[g.at].args
<1>1. Len(b) \in Nat /\ g.at \in 1..Len(b) /\ g.more \in Nat
  BY PutIs DEF Grown
<1>2. Len(made) \in Nat /\ g.more = 3 * Len(made) /\ q \in 0..Len(made) /\ Plain(b[g.at].op)
  BY DEF ChainGroup
<1>3. b[g.at].name = g.name /\ b[g.at].name \in 1..Len(b)
  BY <1>1 DEF Grown, Layout
<1>4. 1..Arity(b[g.at].op) \subseteq DOMAIN b[g.at].args /\ Arity(b[g.at].op) = 2 /\ g.at < Len(b)
      /\ b[g.at].op # Call
  BY <1>1, <1>2 DEF Grown, Flow, Plain, Arity
<1> QED
  BY <1>1, <1>2, <1>3, <1>4

\* The site stops, or has its value.
LEMMA ChainBegins ==
  ASSUME NEW b, NEW c, NEW g, Grown(b, c, g), NEW made, NEW q, NEW on,
         ChainGroup(b, c, g, made, q, on), NEW args, NEW m, NEW w, Agree(Len(b), g, m, w),
         m.pc = g.at,
         NEW x, x = Value(b[g.at].args[1], args, m), NEW y, y = Value(b[g.at].args[2], args, m),
         NEW v, v = Apply(b[g.at].op, x, y), NEW traps, traps = Traps(b[g.at].op, x, y),
         NEW s, s = Do(c, args, on, w)
  PROVE  Dead(s) \/ ChainAfter(Len(b), g, made, q, m, w, traps, v, 0, s)
<1> DEFINE n == Len(b)
           N == n + g.more
           J == c[g.at]
           X == Value(J.args[1], args, w)
           Y == Value(J.args[2], args, w)
           u == Apply(J.op, X, Y)
<1>1. /\ n \in Nat /\ g.at \in 1..n /\ g.more \in Nat /\ q \in 0..Len(made)
      /\ g.name \in 1..n /\ b[g.at].name = g.name
      /\ 1 \in DOMAIN b[g.at].args /\ 2 \in DOMAIN b[g.at].args
  BY ChainParts
<1>2. w.pc = g.at /\ w.pc # 0 /\ IsState(w, N)
  BY <1>1 DEF Agree, Put, Place
<1>3. Plain(J.op) /\ J.name = g.name /\ J.name \in 1..N
  BY <1>1 DEF ChainGroup
<1>4. Dead(s) \/ (~Traps(J.op, X, Y) /\ s.hits = w.hits /\ After(N, w, s, g.name, u))
  <2>1. /\ IsState(w, N) /\ w.pc # 0 /\ J = c[w.pc] /\ Plain(J.op) /\ J.name \in 1..N
        /\ X = Value(J.args[1], args, w) /\ Y = Value(J.args[2], args, w) /\ s = Do(c, args, on, w)
    BY <1>2, <1>3
  <2> HIDE DEF N, J, X, Y
  <2>2. \/ Traps(J.op, X, Y) /\ Dead(s)
        \/ /\ ~Traps(J.op, X, Y) /\ s.hits = w.hits
           /\ After(N, w, s, J.name, Apply(J.op, X, Y))
    BY ONLY <2>1, PlainDoes
  <2> QED
    BY <2>2, <1>3
<1>5. q = 0 => Traps(J.op, X, Y) = traps /\ u = v
  <2> SUFFICES ASSUME q = 0 PROVE Traps(J.op, X, Y) = traps /\ u = v
    OBVIOUS
  <2>1. J.op = b[g.at].op /\ \A a \in DOMAIN b[g.at].args : J.args[a] = b[g.at].args[a]
    BY DEF ChainGroup, ChosenAt
  <2>2. OperandsKeep(b[g.at], args, m, w)
    <3>1. KeepsBut(n, b[g.at].name, m, w)
      BY <1>1 DEF Agree, KeepsBut
    <3> QED
      BY <3>1, <1>1, OwnValue DEF Grown
  <2>3. X = x /\ Y = y
    BY <1>1, <2>1, <2>2 DEF OperandsKeep
  <2> HIDE DEF X, Y, J
  <2> QED
    BY <2>1, <2>3
<1>6. CASE ~Traps(J.op, X, Y) /\ s.hits = w.hits /\ After(N, w, s, g.name, u)
  <2> HIDE DEF X, Y, J, u
  <2>1. s.regs[g.name] = u
    BY SMTT(30), <1>1, <1>6 DEF After, N
  <2>2. q <= 0 => traps = FALSE /\ s.regs[Cur(n, g, 0)] = v
    <3> SUFFICES ASSUME q <= 0 PROVE traps = FALSE /\ s.regs[Cur(n, g, 0)] = v
      OBVIOUS
    <3>1. q = 0
      BY <1>1
    <3> QED
      BY <3>1, <2>1, <1>5, <1>6 DEF Cur
  <2>3. KeepsBut(n, g.name, m, s)
    <3> SUFFICES ASSUME NEW z \in 1..n, z # g.name PROVE s.regs[z] = m.regs[z]
      BY DEF KeepsBut
    <3>1. z \in 1..N /\ w.regs[z] = m.regs[z]
      BY <1>1 DEF Agree
    <3> QED
      BY <3>1, <1>6 DEF After
  <2>4. s.hits = w.hits \union FirstIds(made, 0)
    <3>1. FirstIds(made, 0) = {}
      BY DEF FirstIds
    <3> QED
      BY <3>1, <1>6
  <2>5. s.seen \intersect (1..n) = m.seen \union {g.name}
    <3>1. w.seen \intersect (1..n) = m.seen /\ s.seen = w.seen \union {g.name} /\ g.name \in 1..n
      BY <1>1, <1>6 DEF Agree, After
    <3> QED
      BY <3>1
  <2>6. IsState(s, N) /\ s.pc = g.at + 3 * 0 + 1 /\ s.trap = w.trap /\ s.ret = w.ret
    BY <1>1, <1>2, <1>6 DEF After
  <2> QED
    BY <2>2, <2>3, <2>4, <2>5, <2>6 DEF ChainAfter
<1> QED
  BY <1>4, <1>6

\* Behind the chain both are where they were alike.
LEMMA ChainEnds ==
  ASSUME NEW b, NEW c, NEW g, Grown(b, c, g), NEW made, NEW q, NEW on,
         ChainGroup(b, c, g, made, q, on), NEW args, NEW m, NEW w, Agree(Len(b), g, m, w),
         m.pc = g.at,
         NEW x, x = Value(b[g.at].args[1], args, m), NEW y, y = Value(b[g.at].args[2], args, m),
         NEW v, v = Apply(b[g.at].op, x, y), NEW traps, traps = Traps(b[g.at].op, x, y),
         NEW s, ChainAfter(Len(b), g, made, q, m, w, traps, v, Len(made), s)
  PROVE  Agree(Len(b), g, Do(b, args, on, m), s) /\ Onward(g.at, Do(b, args, on, m))
<1> DEFINE n == Len(b)
           N == n + g.more
           I == b[g.at]
           mm == Do(b, args, on, m)
           K == Len(made)
<1>1. /\ n \in Nat /\ g.at \in 1..n /\ g.more \in Nat /\ K \in Nat /\ g.more = 3 * K
      /\ q \in 0..K /\ g.at < n /\ g.name \in 1..n /\ I.name = g.name
  BY ChainParts
<1>2. Plain(I.op) /\ K # 0 /\ g.to = n + 3 * K /\ g.ids = FirstIds(made, K)
  BY DEF ChainGroup
<1>3. /\ IsState(s, N) /\ s.pc = g.at + 3 * K + 1 /\ s.trap = w.trap /\ s.ret = w.ret
      /\ s.hits = w.hits \union FirstIds(made, K)
      /\ s.seen \intersect (1..n) = m.seen \union {g.name}
      /\ KeepsBut(n, g.name, m, s) /\ traps = FALSE /\ s.regs[Cur(n, g, K)] = v
  BY <1>1 DEF ChainAfter
<1>4. mm.hits = m.hits /\ After(n, m, mm, g.name, v)
  <2>1. /\ IsState(m, n) /\ m.pc # 0 /\ I = b[m.pc] /\ Plain(I.op) /\ I.name \in 1..n
        /\ x = Value(I.args[1], args, m) /\ y = Value(I.args[2], args, m) /\ mm = Do(b, args, on, m)
    BY <1>1, <1>2 DEF Agree
  <2>2. v = Apply(I.op, x, y) /\ ~Traps(I.op, x, y)
    BY <1>3
  <2> HIDE DEF n, I, mm
  <2>3. \/ Traps(I.op, x, y) /\ Dead(mm)
        \/ /\ ~Traps(I.op, x, y) /\ mm.hits = m.hits
           /\ After(n, m, mm, I.name, Apply(I.op, x, y))
    BY ONLY <2>1, PlainDoes
  <2> QED
    BY <2>2, <2>3, <1>1
<1> HIDE DEF mm, I
<1>5. /\ IsState(mm, n) /\ mm.pc = g.at + 1 /\ mm.trap = m.trap /\ mm.ret = m.ret
      /\ mm.seen = m.seen \union {g.name} /\ mm.regs[g.name] = v
      /\ \A z \in 1..n : z # g.name => mm.regs[z] = m.regs[z]
  BY <1>1, <1>4 DEF After
<1>6. mm.pc \in 0..n /\ s.pc = Put(g, mm.pc) /\ Onward(g.at, mm)
  <2>1. mm.pc \in 0..n /\ Onward(g.at, mm)
    BY <1>1, <1>5 DEF Onward
  <2>2. Put(g, g.at + 1) = g.at + 1 + g.more
    BY <1>1 DEF Put, Place
  <2>3. g.at + 1 + g.more = g.at + 3 * K + 1
    BY <1>1
  <2> QED
    BY <2>1, <2>2, <2>3, <1>3, <1>5
<1>7. s.regs[g.to] = mm.regs[g.name]
  <2>1. Cur(n, g, K) = g.to
    BY <1>2 DEF Cur
  <2> QED
    BY <2>1, <1>3, <1>5
<1>8. s.hits = mm.hits \union (IF g.name \in mm.seen THEN g.ids ELSE {})
  <2>1. g.name \in mm.seen
    BY <1>5
  <2>2. w.hits = m.hits \union (IF g.name \in m.seen THEN g.ids ELSE {})
    BY DEF Agree
  <2> QED
    BY <2>1, <2>2, <1>2, <1>3, <1>4
<1>9. \A z \in 1..n : z # g.name => s.regs[z] = mm.regs[z]
  BY <1>3, <1>5 DEF KeepsBut
<1>10. s.trap = mm.trap /\ s.ret = mm.ret /\ s.seen \intersect (1..n) = mm.seen
  BY <1>3, <1>5 DEF Agree
<1>11. Agree(n, g, mm, s)
  BY ONLY <1>3, <1>5, <1>6, <1>7, <1>8, <1>9, <1>10 DEF Agree, N
<1> QED
  BY <1>6, <1>11 DEF mm

\* A chain does what its instruction does, or stops.
LEMMA ChainWorks ==
  ASSUME NEW b, NEW c, NEW g, Grown(b, c, g), NEW made, NEW q, NEW on,
         ChainGroup(b, c, g, made, q, on), NEW args
  PROVE  GroupWorks(b, c, g, args, on)
<1> SUFFICES ASSUME NEW m, NEW R, NEW t \in Nat, Agree(Len(b), g, m, R[t]), m.pc = g.at,
                    \A k \in 0..g.more : R[t + k + 1] = Do(c, args, on, R[t + k])
             PROVE  \/ Dead(R[t + g.more + 1])
                    \/ /\ Agree(Len(b), g, Do(b, args, on, m), R[t + g.more + 1])
                       /\ Onward(g.at, Do(b, args, on, m))
  BY DEF GroupWorks
<1> DEFINE n == Len(b)
           K == Len(made)
           x == Value(b[g.at].args[1], args, m)
           y == Value(b[g.at].args[2], args, m)
           v == Apply(b[g.at].op, x, y)
           traps == Traps(b[g.at].op, x, y)
           w == R[t]
           S(k) == R[t + 3 * k + 1]
           Done(k) == Dead(S(k)) \/ ChainAfter(n, g, made, q, m, w, traps, v, k, S(k))
           T == {k \in 0..K : Done(k)}
<1>1. K \in Nat /\ g.more = 3 * K
  BY ChainParts
<1>2. \A k \in 0..3 * K : R[t + k + 1] = Do(c, args, on, R[t + k])
  BY <1>1
<1>3. 0 \in T
  <2>1. S(0) = Do(c, args, on, w)
    <3>1. t + 0 = t /\ t + 3 * 0 + 1 = t + 0 + 1 /\ 0 \in 0..3 * K
      BY <1>1
    <3>2. R[t + 0 + 1] = Do(c, args, on, R[t + 0])
      BY <3>1, <1>2
    <3> QED
      BY <3>1, <3>2
  <2>2. 0 \in 0..K
    BY <1>1
  <2> DEFINE s == S(0)
  <2>3. Agree(Len(b), g, m, w) /\ s = Do(c, args, on, w)
    BY <2>1
  <2> HIDE DEF s, w, x, y, v, traps
  <2>4. x = Value(b[g.at].args[1], args, m) /\ y = Value(b[g.at].args[2], args, m)
        /\ v = Apply(b[g.at].op, x, y) /\ traps = Traps(b[g.at].op, x, y)
    BY DEF x, y, v, traps
  <2>5. Dead(s) \/ ChainAfter(Len(b), g, made, q, m, w, traps, v, 0, s)
    BY <2>3, <2>4, ChainBegins
  <2> QED
    BY <2>2, <2>5 DEF s
<1>4. ASSUME NEW k \in 0..K - 1, k \in T PROVE k + 1 \in T
  <2> DEFINE i == 3 * k + 1
             s == S(k)
             s1 == R[t + i + 1]
             s2 == R[t + i + 2]
             s3 == S(k + 1)
  <2>1. s1 = Do(c, args, on, s) /\ s2 = Do(c, args, on, s1) /\ s3 = Do(c, args, on, s2)
    <3>1. /\ i \in 0..3 * K /\ i + 1 \in 0..3 * K /\ i + 2 \in 0..3 * K
          /\ t + i = t + 3 * k + 1 /\ t + (i + 1) = t + i + 1 /\ t + (i + 1) + 1 = t + i + 2
          /\ t + (i + 2) = t + i + 2 /\ t + (i + 2) + 1 = t + 3 * (k + 1) + 1
      BY <1>1
    <3>2. s = R[t + i] /\ s3 = R[t + (i + 2) + 1]
      BY <3>1
    <3>3. R[t + i + 1] = Do(c, args, on, R[t + i])
      BY <3>1, <1>2
    <3>4. R[t + (i + 1) + 1] = Do(c, args, on, R[t + (i + 1)])
      <4> HIDE DEF i
      <4> QED
        BY <3>1, <1>2
    <3>5. R[t + (i + 2) + 1] = Do(c, args, on, R[t + (i + 2)])
      <4> HIDE DEF i
      <4> QED
        BY <3>1, <1>2
    <3> HIDE DEF i
    <3> QED
      BY <3>1, <3>2, <3>3, <3>4, <3>5
  <2>2. k + 1 \in 0..K /\ k + 1 \in 1..K /\ k + 1 - 1 = k
    BY <1>1
  <2>3. CASE Dead(s)
    <3> HIDE DEF s, s1, s2, s3
    <3>1. Dead(s1)
      BY <2>1, <2>3, DeadStays
    <3>2. Dead(s2)
      BY <2>1, <3>1, DeadStays
    <3>3. Dead(s3)
      BY <2>1, <3>2, DeadStays
    <3> QED
      BY <2>2, <3>3 DEF s3
  <2>4. CASE ChainAfter(n, g, made, q, m, w, traps, v, k, s)
    <3> HIDE DEF s, s1, s2, s3, w, x, y, v, traps
    <3>1. x = Value(b[g.at].args[1], args, m) /\ y = Value(b[g.at].args[2], args, m)
          /\ v = Apply(b[g.at].op, x, y) /\ traps = Traps(b[g.at].op, x, y)
      BY DEF x, y, v, traps
    <3> DEFINE l == k + 1
    <3>2. l \in 1..Len(made) /\ ChainAfter(Len(b), g, made, q, m, w, traps, v, l - 1, s)
      BY <2>2, <2>4
    <3> HIDE DEF l
    <3>3. Dead(s3) \/ ChainAfter(Len(b), g, made, q, m, w, traps, v, l, s3)
      BY <3>1, <3>2, <2>1, ChainGoesOn
    <3> QED
      BY <3>3, <2>2 DEF l, s3
  <2> QED
    BY <1>4, <2>3, <2>4
<1>5. K \in T
  <2> HIDE DEF T
  <2>1. 0..K \subseteq T
    BY <1>1, <1>3, <1>4, InductionUpTo
  <2> QED
    BY <2>1, <1>1
<1> DEFINE s == S(K)
<1>6. Dead(s) \/ ChainAfter(n, g, made, q, m, w, traps, v, K, s)
  BY <1>5
<1>7. s = R[t + g.more + 1]
  BY <1>1
<1>8. CASE ChainAfter(n, g, made, q, m, w, traps, v, K, s)
  <2> HIDE DEF s, x, y, v, traps
  <2>1. x = Value(b[g.at].args[1], args, m) /\ y = Value(b[g.at].args[2], args, m)
        /\ v = Apply(b[g.at].op, x, y) /\ traps = Traps(b[g.at].op, x, y)
    BY DEF x, y, v, traps
  <2>2. Agree(Len(b), g, Do(b, args, on, m), s) /\ Onward(g.at, Do(b, args, on, m))
    BY <1>8, <2>1, ChainEnds
  <2> QED
    BY <2>2, <1>7
<1> QED
  BY <1>6, <1>7, <1>8
-----------------------------------------------------------------------------
(* The choice of a constant at work *)

\* c has a call for id and a select between the operands x and y before the site,
\* and the site of c uses the select where that of b uses what is selected.
SelectGroup(b, c, g, id, x, y, on) ==
  /\ g.more = 2 /\ g.to = g.name /\ g.ids = {id}
  /\ AsksFor(c[g.at], id) /\ c[g.at].name = Len(b) + 1
  /\ c[g.at + 1].op = "select" /\ c[g.at + 1].name = Len(b) + 2
  /\ c[g.at + 1].args = <<Val(Len(b) + 1), x, y>>
  /\ Plain(b[g.at].op) \/ b[g.at].op = "ret"
  /\ c[g.at + 2].op = b[g.at].op /\ c[g.at + 2].name = g.name
  /\ \A a \in DOMAIN b[g.at].args :
       \/ c[g.at + 2].args[a] = b[g.at].args[a]
       \/ /\ c[g.at + 2].args[a] = Val(Len(b) + 2)
          /\ b[g.at].args[a] = IF id = on THEN x ELSE y

\* s is the state before the site, from m and w.
SelectAfter(n, g, id, m, w, s) ==
  /\ IsState(s, n + g.more) /\ s.pc = g.at + 2 /\ s.trap = w.trap /\ s.ret = w.ret
  /\ s.hits = w.hits \union {id} /\ s.seen \intersect (1..n) = m.seen
  /\ \A z \in 1..n : s.regs[z] = m.regs[z]

\* The operands of the site have the same values.
SiteAgrees(I, J, args, m, s) ==
  \A a \in DOMAIN I.args : Value(J.args[a], args, s) = Value(I.args[a], args, m)

\* The call and the select.
LEMMA SelectBegins ==
  ASSUME NEW b, NEW c, NEW g, Grown(b, c, g), NEW id, NEW x, NEW y, NEW on,
         SelectGroup(b, c, g, id, x, y, on), NEW args, NEW m, NEW w, Agree(Len(b), g, m, w),
         m.pc = g.at, NEW s1, s1 = Do(c, args, on, w), NEW s, s = Do(c, args, on, s1)
  PROVE  /\ SelectAfter(Len(b), g, id, m, w, s)
         /\ SiteAgrees(b[g.at], c[g.at + 2], args, m, s)
<1> DEFINE n == Len(b)
           N == n + g.more
           p == g.at
           n1 == n + 1
           n2 == n + 2
<1>1. /\ n \in Nat /\ p \in 1..n /\ g.more = 2 /\ N = n + 2 /\ n1 \in 1..N /\ n2 \in 1..N /\ n1 # n2
      /\ n1 \notin 1..n /\ n2 \notin 1..n /\ p + 1 + 1 = p + 2
  BY PutIs DEF Grown, SelectGroup
<1>2. w.pc = p /\ w.pc # 0 /\ IsState(w, N)
  BY <1>1 DEF Agree, Put, Place
<1>3. /\ AsksFor(c[p], id) /\ c[p].name = n1 /\ c[p + 1].op = "select" /\ c[p + 1].name = n2
      /\ c[p + 1].args = <<Val(n1), x, y>>
  BY DEF SelectGroup
<1>4. \A z \in 1..n : w.regs[z] = m.regs[z]
  BY DEF Agree, SelectGroup
<1> HIDE DEF n1, n2, N, p
<1>5. After(N, w, s1, n1, Truth(id = on)) /\ s1.hits = w.hits \union {id}
  <2> DEFINE I == c[p]
             yes == Truth(id = on)
  <2>1. /\ IsState(w, N) /\ w.pc # 0 /\ I = c[w.pc] /\ AsksFor(I, id) /\ I.name \in 1..N
        /\ s1 = Do(c, args, on, w) /\ yes = Truth(id = on)
    BY <1>1, <1>2, <1>3
  <2>2. I.name = n1
    BY <1>3
  <2> HIDE DEF I, yes
  <2>3. AfterCall(N, w, s1, I.name, yes, id)
    BY ONLY <2>1, CallDoes
  <2> QED
    BY <2>2, <2>3 DEF yes, AfterCall
<1>6. IsState(s1, N) /\ s1.pc = p + 1 /\ s1.pc # 0
  BY <1>1, <1>2, <1>5 DEF After
<1> DEFINE z == IF s1.regs[n1] = 1 THEN Value(x, args, s1) ELSE Value(y, args, s1)
<1>7. After(N, s1, s, n2, z) /\ s.hits = s1.hits
  <2> DEFINE I == c[p + 1]
  <2>1. /\ IsState(s1, N) /\ s1.pc # 0 /\ I = c[s1.pc] /\ I.op = "select" /\ I.name \in 1..N
        /\ I.args = <<Val(n1), x, y>> /\ s = Do(c, args, on, s1)
        /\ z = IF s1.regs[n1] = 1 THEN Value(x, args, s1) ELSE Value(y, args, s1)
    BY <1>1, <1>3, <1>6
  <2>2. I.name = n2
    BY <1>3
  <2> HIDE DEF I, z
  <2>3. After(N, s1, s, I.name, z) /\ s.hits = s1.hits
    BY ONLY <2>1, SelectDoes
  <2> QED
    BY <2>2, <2>3
<1>8. z = Value(IF id = on THEN x ELSE y, args, s1)
  <2>1. s1.regs[n1] = Truth(id = on)
    BY <1>1, <1>5 DEF After
  <2>2. Truth(id = on) = 1 <=> id = on
    BY DEF Truth
  <2> QED
    BY <2>1, <2>2
<1> HIDE DEF z
<1>9. \A v \in 1..n : s1.regs[v] = m.regs[v] /\ s.regs[v] = m.regs[v]
  <2> SUFFICES ASSUME NEW v \in 1..n PROVE s1.regs[v] = m.regs[v] /\ s.regs[v] = m.regs[v]
    OBVIOUS
  <2>1. v \in 1..N /\ v # n1 /\ v # n2
    BY <1>1
  <2>2. s1.regs[v] = w.regs[v] /\ s.regs[v] = s1.regs[v]
    BY <2>1, <1>5, <1>7 DEF After
  <2> QED
    BY <2>2, <1>4
<1>10. SelectAfter(n, g, id, m, w, s)
  <2>1. s.seen \intersect (1..n) = m.seen
    <3>1. s1.seen = w.seen \union {n1} /\ s.seen = s1.seen \union {n2} /\ w.seen \intersect (1..n) = m.seen
      BY <1>5, <1>7 DEF After, Agree
    <3> QED
      BY <3>1, <1>1
  <2>2. s.pc = p + 2 /\ IsState(s, N) /\ s.trap = w.trap /\ s.ret = w.ret
    BY <1>1, <1>5, <1>6, <1>7 DEF After
  <2> QED
    BY <2>1, <2>2, <1>5, <1>7, <1>9 DEF SelectAfter, p, N
<1>11. s.regs[n2] = z
  BY <1>1, <1>7 DEF After
<1>12. OperandsKeep(b[g.at], args, m, s1) /\ OperandsKeep(b[g.at], args, m, s)
  <2>1. KeepsBut(n, b[g.at].name, m, s1) /\ KeepsBut(n, b[g.at].name, m, s)
    BY <1>9 DEF KeepsBut
  <2>2. Layout(b) /\ Flow(b) /\ g.at \in 1..Len(b)
    BY <1>1 DEF Grown, p
  <2> QED
    BY <2>1, <2>2, OwnValue
<1>13. SiteAgrees(b[g.at], c[g.at + 2], args, m, s)
  <2> DEFINE I == b[g.at]
             J == c[g.at + 2]
  <2> SUFFICES ASSUME NEW a \in DOMAIN I.args
               PROVE  Value(J.args[a], args, s) = Value(I.args[a], args, m)
    BY DEF SiteAgrees
  <2>1. Value(I.args[a], args, s) = Value(I.args[a], args, m)
        /\ Value(I.args[a], args, s1) = Value(I.args[a], args, m)
    BY <1>12 DEF OperandsKeep
  <2>2. J.args[a] = I.args[a] \/ (J.args[a] = Val(n2) /\ I.args[a] = IF id = on THEN x ELSE y)
    BY DEF SelectGroup, n2
  <2>3. Value(Val(n2), args, s) = z
    BY <1>11 DEF Value, Val
  <2> HIDE DEF I, J
  <2> QED
    BY <2>1, <2>2, <2>3, <1>8
<1> QED
  BY <1>10, <1>13

\* The site: an operator or a return, in both with the same values.
LEMMA SelectEnds ==
  ASSUME NEW b, NEW c, NEW g, Grown(b, c, g), NEW id, NEW x, NEW y, NEW on,
         SelectGroup(b, c, g, id, x, y, on), NEW args, NEW m, NEW w, Agree(Len(b), g, m, w),
         m.pc = g.at, NEW s, SelectAfter(Len(b), g, id, m, w, s),
         SiteAgrees(b[g.at], c[g.at + 2], args, m, s),
         NEW mm, mm = Do(b, args, on, m), NEW ss, ss = Do(c, args, on, s)
  PROVE  \/ Dead(ss)
         \/ Agree(Len(b), g, mm, ss) /\ Onward(g.at, mm)
<1> DEFINE n == Len(b)
           N == n + g.more
           p == g.at
           I == b[p]
           J == c[p + 2]
<1>1. /\ n \in Nat /\ p \in 1..n /\ g.more = 2 /\ N = n + 2 /\ g.to = g.name /\ g.ids = {id}
      /\ I.name = g.name /\ g.name \in 1..n /\ g.name \in 1..N
  <2>1. n \in Nat /\ p \in 1..n
    BY PutIs DEF Grown
  <2>2. I.name \in 1..n
    BY <2>1 DEF Grown, Layout
  <2> QED
    BY <2>1, <2>2 DEF Grown, SelectGroup
<1>2. /\ IsState(m, n) /\ m.pc # 0 /\ I = b[m.pc] /\ w.trap = m.trap /\ w.ret = m.ret
      /\ w.hits = m.hits \union (IF g.name \in m.seen THEN g.ids ELSE {})
  BY <1>1 DEF Agree
<1>3. /\ IsState(s, N) /\ s.pc = p + 2 /\ s.pc # 0 /\ J = c[s.pc] /\ s.trap = m.trap /\ s.ret = m.ret
      /\ s.hits = w.hits \union {id} /\ s.seen \intersect (1..n) = m.seen
      /\ \A z \in 1..n : s.regs[z] = m.regs[z]
  BY <1>1, <1>2 DEF SelectAfter
<1>4. J.op = I.op /\ J.name = g.name /\ (Plain(I.op) \/ I.op = "ret")
  BY DEF SelectGroup
<1>5. \A a \in DOMAIN I.args : Value(J.args[a], args, s) = Value(I.args[a], args, m)
  BY DEF SiteAgrees
<1>6. /\ I.op # Call => 1..Arity(I.op) \subseteq DOMAIN I.args
      /\ I.op \notin {"ret", "br"} => p < n
  BY <1>1 DEF Grown, Flow
<1>7. w.hits \union {id} = m.hits \union {id}
  BY <1>1, <1>2
<1> HIDE DEF N, I, J, p, n
<1>8. CASE Plain(I.op)
  <2> DEFINE u == Value(I.args[1], args, m)
             v == Value(I.args[2], args, m)
             k == Apply(I.op, u, v)
  <2>1. p < n /\ 1 \in DOMAIN I.args /\ 2 \in DOMAIN I.args
    BY <1>6, <1>8 DEF Plain, Arity
  <2>2. u = Value(J.args[1], args, s) /\ v = Value(J.args[2], args, s)
    BY <2>1, <1>5
  <2>3. u = Value(I.args[1], args, m) /\ v = Value(I.args[2], args, m) /\ k = Apply(I.op, u, v)
    OBVIOUS
  <2> HIDE DEF u, v, k
  <2>4. (Traps(I.op, u, v) /\ Dead(mm)) \/ (~Traps(I.op, u, v) /\ mm.hits = m.hits /\ After(n, m, mm, g.name, k))
    <3>1. /\ IsState(m, n) /\ m.pc # 0 /\ I = b[m.pc] /\ Plain(I.op) /\ I.name \in 1..n
          /\ mm = Do(b, args, on, m)
      BY <1>1, <1>2, <1>8
    <3>2. \/ Traps(I.op, u, v) /\ Dead(mm)
          \/ /\ ~Traps(I.op, u, v) /\ mm.hits = m.hits
             /\ After(n, m, mm, I.name, Apply(I.op, u, v))
      BY ONLY <2>3, <3>1, PlainDoes
    <3> QED
      BY <3>2, <2>3, <1>1
  <2>5. (Traps(I.op, u, v) /\ Dead(ss)) \/ (~Traps(I.op, u, v) /\ ss.hits = s.hits /\ After(N, s, ss, g.name, k))
    <3>1. /\ IsState(s, N) /\ s.pc # 0 /\ J = c[s.pc] /\ Plain(J.op) /\ J.name \in 1..N
          /\ ss = Do(c, args, on, s)
      BY <1>1, <1>3, <1>4, <1>8
    <3>2. \/ Traps(J.op, u, v) /\ Dead(ss)
          \/ /\ ~Traps(J.op, u, v) /\ ss.hits = s.hits
             /\ After(N, s, ss, J.name, Apply(J.op, u, v))
      BY ONLY <2>2, <3>1, PlainDoes
    <3> QED
      BY <3>2, <2>3, <1>4
  <2>6. CASE /\ mm.hits = m.hits /\ After(n, m, mm, g.name, k)
             /\ ss.hits = s.hits /\ After(N, s, ss, g.name, k)
    <3>1. /\ IsState(mm, n) /\ mm.pc = p + 1 /\ mm.trap = m.trap /\ mm.ret = m.ret
          /\ mm.seen = m.seen \union {g.name}
          /\ \A z \in 1..n : mm.regs[z] = IF z = g.name THEN k ELSE m.regs[z]
      BY <2>6 DEF After, p
    <3>2. /\ IsState(ss, N) /\ ss.pc = p + 2 + 1 /\ ss.trap = m.trap /\ ss.ret = m.ret
          /\ ss.seen = s.seen \union {g.name}
          /\ \A z \in 1..N : ss.regs[z] = IF z = g.name THEN k ELSE s.regs[z]
      BY <2>6, <1>3 DEF After
    <3>3. mm.pc \in 0..n /\ ss.pc = Put(g, mm.pc) /\ Onward(g.at, mm)
      BY <1>1, <2>1, <3>1, <3>2 DEF Onward, Put, Place, p
    <3>4. ss.regs[g.to] = mm.regs[g.name]
      BY <1>1, <3>1, <3>2
    <3>5. ss.hits = mm.hits \union (IF g.name \in mm.seen THEN g.ids ELSE {})
      BY <2>6, <1>1, <1>3, <1>7, <3>1
    <3>6. \A z \in 1..n : z # g.name => ss.regs[z] = mm.regs[z]
      <4>1. \A z \in 1..n : z \in 1..N
        BY <1>1
      <4> QED
        BY <4>1, <3>1, <3>2, <1>3
    <3>7. ss.trap = mm.trap /\ ss.ret = mm.ret /\ ss.seen \intersect (1..n) = mm.seen
      BY <1>1, <1>3, <3>1, <3>2
    <3>8. Agree(n, g, mm, ss)
      BY ONLY <3>1, <3>2, <3>3, <3>4, <3>5, <3>6, <3>7 DEF Agree, N
    <3> QED
      BY <3>3, <3>8 DEF n
  <2> QED
    BY <2>4, <2>5, <2>6
<1>9. CASE I.op = "ret"
  <2> DEFINE u == Value(I.args[1], args, m)
  <2>1. 1 \in DOMAIN I.args
    BY <1>6, <1>9 DEF Arity, Call
  <2>2. u = Value(J.args[1], args, s)
    BY <2>1, <1>5
  <2>3. mm = State(0, m.regs, m.trap, u, m.hits, m.seen \union {g.name})
    <3>1. IsState(m, n) /\ m.pc # 0 /\ b[m.pc].op = "ret" /\ mm = Do(b, args, on, m)
      BY <1>2, <1>9
    <3>2. mm = State(0, m.regs, m.trap, Value(b[m.pc].args[1], args, m), m.hits,
                     m.seen \union {b[m.pc].name})
      BY ONLY <3>1, DoRet
    <3> QED
      BY <3>2, <1>1, <1>2
  <2>4. ss = State(0, s.regs, s.trap, u, s.hits, s.seen \union {g.name})
    <3>1. IsState(s, N) /\ s.pc # 0 /\ c[s.pc].op = "ret" /\ ss = Do(c, args, on, s)
      BY <1>3, <1>4, <1>9
    <3>2. ss = State(0, s.regs, s.trap, Value(c[s.pc].args[1], args, s), s.hits,
                     s.seen \union {c[s.pc].name})
      BY ONLY <3>1, DoRet
    <3> QED
      BY <3>2, <2>2, <1>3, <1>4
  <2> HIDE DEF u
  <2>5. Regs(m.regs, n) /\ Regs(s.regs, N)
    BY <1>2, <1>3 DEF IsState, Regs
  <2>6. /\ IsState(mm, n) /\ mm.pc = 0 /\ mm.regs = m.regs /\ mm.trap = m.trap /\ mm.ret = u
        /\ mm.hits = m.hits /\ mm.seen = m.seen \union {g.name}
    <3> DEFINE seen == m.seen \union {g.name}
               regs == m.regs
               trap == m.trap
               hits == m.hits
    <3>1. Regs(regs, n) /\ mm = State(0, regs, trap, u, hits, seen) /\ 0 \in Nat
      BY <2>3, <2>5
    <3> HIDE DEF seen, regs, trap, hits
    <3>2. /\ IsState(mm, n) /\ mm.pc = 0 /\ mm.regs = regs /\ mm.trap = trap /\ mm.ret = u
          /\ mm.hits = hits /\ mm.seen = seen
      BY ONLY <3>1, StateHas
    <3> QED
      BY <3>2 DEF seen, regs, trap, hits
  <2>7. /\ IsState(ss, N) /\ ss.pc = 0 /\ ss.regs = s.regs /\ ss.trap = s.trap /\ ss.ret = u
        /\ ss.hits = s.hits /\ ss.seen = s.seen \union {g.name}
    <3> DEFINE seen == s.seen \union {g.name}
               regs == s.regs
               trap == s.trap
               hits == s.hits
    <3>1. Regs(regs, N) /\ ss = State(0, regs, trap, u, hits, seen) /\ 0 \in Nat
      BY <2>4, <2>5
    <3> HIDE DEF seen, regs, trap, hits
    <3>2. /\ IsState(ss, N) /\ ss.pc = 0 /\ ss.regs = regs /\ ss.trap = trap /\ ss.ret = u
          /\ ss.hits = hits /\ ss.seen = seen
      BY ONLY <3>1, StateHas
    <3> QED
      BY <3>2 DEF seen, regs, trap, hits
  <2>8. mm.pc \in 0..n /\ ss.pc = Put(g, mm.pc) /\ Onward(g.at, mm)
    BY <1>1, <2>6, <2>7 DEF Onward, Put, Place, p
  <2>9. ss.hits = mm.hits \union (IF g.name \in mm.seen THEN g.ids ELSE {})
    BY <1>1, <1>3, <1>7, <2>6, <2>7
  <2>10. /\ ss.regs[g.to] = mm.regs[g.name]
         /\ \A z \in 1..n : z # g.name => ss.regs[z] = mm.regs[z]
    BY <1>1, <1>3, <2>6, <2>7
  <2>11. ss.trap = mm.trap /\ ss.ret = mm.ret /\ ss.seen \intersect (1..n) = mm.seen
    BY <1>1, <1>3, <2>6, <2>7
  <2>12. Agree(n, g, mm, ss)
    BY ONLY <2>6, <2>7, <2>8, <2>9, <2>10, <2>11 DEF Agree, N
  <2> QED
    BY <2>8, <2>12 DEF n
<1> QED
  BY <1>4, <1>8, <1>9

\* The choice of a constant and its instruction do what the instruction did, or stop.
LEMMA SelectWorks ==
  ASSUME NEW b, NEW c, NEW g, Grown(b, c, g), NEW id, NEW x, NEW y, NEW on,
         SelectGroup(b, c, g, id, x, y, on), NEW args
  PROVE  GroupWorks(b, c, g, args, on)
<1> SUFFICES ASSUME NEW m, NEW R, NEW t \in Nat, Agree(Len(b), g, m, R[t]), m.pc = g.at,
                    \A k \in 0..g.more : R[t + k + 1] = Do(c, args, on, R[t + k])
             PROVE  \/ Dead(R[t + g.more + 1])
                    \/ /\ Agree(Len(b), g, Do(b, args, on, m), R[t + g.more + 1])
                       /\ Onward(g.at, Do(b, args, on, m))
  BY DEF GroupWorks
<1> DEFINE w == R[t]
           s1 == R[t + 1]
           s2 == R[t + 2]
           s3 == R[t + 3]
           mm == Do(b, args, on, m)
<1>1. g.more = 2 /\ R[t + g.more + 1] = s3
  <2>1. g.more = 2
    BY DEF SelectGroup
  <2>2. t + 2 + 1 = t + 3
    OBVIOUS
  <2> QED
    BY <2>1, <2>2
<1>2. \A k \in 0..2 : R[t + k + 1] = Do(c, args, on, R[t + k])
  BY <1>1
<1>3. s1 = Do(c, args, on, w) /\ s2 = Do(c, args, on, s1) /\ s3 = Do(c, args, on, s2)
  <2>1. 0 \in 0..2 /\ 1 \in 0..2 /\ 2 \in 0..2 /\ t + 0 = t /\ t + 0 + 1 = t + 1
        /\ t + 1 + 1 = t + 2 /\ t + 2 + 1 = t + 3
    OBVIOUS
  <2>2. R[t + 0 + 1] = Do(c, args, on, R[t + 0])
    BY <1>2, <2>1
  <2>3. R[t + 1 + 1] = Do(c, args, on, R[t + 1])
    BY <1>2, <2>1
  <2>4. R[t + 2 + 1] = Do(c, args, on, R[t + 2])
    BY <1>2, <2>1
  <2> QED
    BY <2>1, <2>2, <2>3, <2>4
<1> HIDE DEF w, s1, s2, s3
<1>4. SelectAfter(Len(b), g, id, m, w, s2) /\ SiteAgrees(b[g.at], c[g.at + 2], args, m, s2)
  <2>1. Agree(Len(b), g, m, w) /\ m.pc = g.at
    BY DEF w
  <2> QED
    BY <2>1, <1>3, SelectBegins
<1>5. mm = Do(b, args, on, m)
  OBVIOUS
<1> HIDE DEF mm
<1>6. Dead(s3) \/ (Agree(Len(b), g, mm, s3) /\ Onward(g.at, mm))
  <2>1. Agree(Len(b), g, m, w) /\ m.pc = g.at
    BY DEF w
  <2> QED
    BY <2>1, <1>3, <1>4, <1>5, SelectEnds
<1> QED
  BY <1>1, <1>6 DEF mm
-----------------------------------------------------------------------------
(* A change of one instruction, as a mutant makes it *)

\* The instruction named e.name gets another operator, or another operand.
Edited(I, e) == IF e.oi = 0 THEN [I EXCEPT !.op = e.op] ELSE [I EXCEPT !.args[e.oi] = e.lit]
Edit(b, e) == [j \in DOMAIN b |-> IF b[j].name = e.name THEN Edited(b[j], e) ELSE b[j]]

\* An operator of two values for another, or a constant for an operand.
ValidEdit(b, e) ==
  \A j \in 1..Len(b) : b[j].name = e.name =>
    /\ Plain(b[j].op) \/ b[j].op = "ret"
    /\ e.oi = 0 => Plain(b[j].op) /\ Plain(e.op)
    /\ e.oi # 0 => e.oi \in DOMAIN b[j].args /\ e.lit = <<"int", e.lit[2]>>

\* J is I with the change.
Alters(I, J, e) ==
  /\ IsInstruction(J) /\ J.name = I.name /\ J.blk = I.blk /\ DOMAIN J.args = DOMAIN I.args
  /\ J.op = IF e.oi = 0 THEN e.op ELSE I.op
  /\ \A a \in DOMAIN I.args : J.args[a] = IF e.oi # 0 /\ a = e.oi THEN e.lit ELSE I.args[a]
Alter(b, c, e) ==
  /\ IsList(c) /\ Len(c) = Len(b)
  /\ \A j \in 1..Len(b) : IF b[j].name = e.name THEN Alters(b[j], c[j], e) ELSE c[j] = b[j]

\* What Edited does.
LEMMA EditedIs ==
  ASSUME NEW I, IsInstruction(I), NEW e, NEW J, J = Edited(I, e)
  PROVE  Alters(I, J, e)
<1>1. CASE e.oi = 0
  <2>1. J = [I EXCEPT !.op = e.op]
    BY <1>1 DEF Edited
  <2>2. /\ IsInstruction(J) /\ J.name = I.name /\ J.blk = I.blk /\ J.args = I.args /\ J.op = e.op
    BY <2>1 DEF IsInstruction, Fields
  <2> QED
    BY <2>2, <1>1 DEF Alters
<1>2. CASE e.oi # 0
  <2> DEFINE w == [I.args EXCEPT ![e.oi] = e.lit]
  <2>1. J = [I EXCEPT !.args = w]
    BY <1>2 DEF Edited
  <2>2. DOMAIN w = DOMAIN I.args /\ \A a \in DOMAIN I.args : w[a] = IF a = e.oi THEN e.lit ELSE I.args[a]
    OBVIOUS
  <2> HIDE DEF w
  <2>3. /\ IsInstruction(J) /\ J.name = I.name /\ J.blk = I.blk /\ J.args = w /\ J.op = I.op
    BY <2>1 DEF IsInstruction, Fields
  <2> QED
    BY <2>2, <2>3, <1>2 DEF Alters
<1> QED
  BY <1>1, <1>2

\* What Edit does.
LEMMA EditIs ==
  ASSUME NEW b, Layout(b), NEW e, NEW c, c = Edit(b, e)
  PROVE  Alter(b, c, e)
<1> DEFINE F(j) == IF b[j].name = e.name THEN Edited(b[j], e) ELSE b[j]
           n == Len(b)
<1>1. DOMAIN b = 1..n /\ n \in Nat
  BY ListIsSeq DEF Layout
<1>2. c = [j \in 1..n |-> F(j)]
  BY <1>1 DEF Edit
<1> HIDE DEF F, n
<1>3. IsList(c) /\ Len(c) = n /\ \A j \in 1..n : c[j] = F(j)
  BY <1>1, <1>2 DEF IsList
<1>4. ASSUME NEW j \in 1..n PROVE IF b[j].name = e.name THEN Alters(b[j], c[j], e) ELSE c[j] = b[j]
  <2>1. IsInstruction(b[j]) /\ c[j] = F(j)
    BY <1>3 DEF Layout, n
  <2>2. CASE b[j].name = e.name
    <3>1. c[j] = Edited(b[j], e)
      BY <2>1, <2>2 DEF F
    <3> QED
      BY <2>1, <2>2, <3>1, EditedIs
  <2>3. CASE b[j].name # e.name
    BY <2>1, <2>3 DEF F
  <2> QED
    BY <2>2, <2>3
<1> QED
  BY <1>3, <1>4 DEF Alter, n

\* What does not change: the names, the blocks, where operands are, and which they
\* are but for the one.
LEMMA AlterKeeps ==
  ASSUME NEW b, Layout(b), NEW e, ValidEdit(b, e), NEW c, Alter(b, c, e)
  PROVE  \A j \in 1..Len(b) :
           /\ IsInstruction(c[j]) /\ c[j].name = b[j].name /\ c[j].blk = b[j].blk
           /\ DOMAIN c[j].args = DOMAIN b[j].args
           /\ \A a \in DOMAIN b[j].args :
                \/ c[j].args[a] = b[j].args[a]
                \/ b[j].name = e.name /\ c[j].args[a] = e.lit /\ e.lit = <<"int", e.lit[2]>>
           /\ Plain(b[j].op) => Plain(c[j].op)
           /\ ~Plain(b[j].op) => c[j].op = b[j].op
           /\ b[j].op = Call => c[j] = b[j]
<1> SUFFICES ASSUME NEW j \in 1..Len(b)
             PROVE
           /\ IsInstruction(c[j]) /\ c[j].name = b[j].name /\ c[j].blk = b[j].blk
           /\ DOMAIN c[j].args = DOMAIN b[j].args
           /\ \A a \in DOMAIN b[j].args :
                \/ c[j].args[a] = b[j].args[a]
                \/ b[j].name = e.name /\ c[j].args[a] = e.lit /\ e.lit = <<"int", e.lit[2]>>
           /\ Plain(b[j].op) => Plain(c[j].op)
           /\ ~Plain(b[j].op) => c[j].op = b[j].op
           /\ b[j].op = Call => c[j] = b[j]
  OBVIOUS
<1>1. IsInstruction(b[j])
  BY DEF Layout
<1>2. CASE b[j].name # e.name
  <2>1. c[j] = b[j]
    BY <1>2 DEF Alter
  <2> QED
    BY <1>1, <2>1
<1>3. CASE b[j].name = e.name
  <2>1. Alters(b[j], c[j], e)
    BY <1>3 DEF Alter
  <2>2. /\ Plain(b[j].op) \/ b[j].op = "ret"
        /\ e.oi = 0 => Plain(b[j].op) /\ Plain(e.op)
        /\ e.oi # 0 => e.lit = <<"int", e.lit[2]>>
    BY <1>3 DEF ValidEdit
  <2>3. b[j].op # Call
    BY <2>2 DEF Plain, Call
  <2> HIDE DEF Plain
  <2> QED
    BY <1>3, <2>1, <2>2, <2>3 DEF Alters
<1> QED
  BY <1>2, <1>3

\* A block begins where it began.
LEMMA AlterStarts ==
  ASSUME NEW b, NEW c, Len(b) \in Nat, Len(c) = Len(b), \A j \in 1..Len(b) : c[j].blk = b[j].blk,
         NEW x, NEW t, StartsBlock(b, x, t)
  PROVE  StartsBlock(c, x, t)
<1>1. t \in 1..Len(b) /\ b[t].blk = x /\ \A i \in 1..t - 1 : b[i].blk # x
  BY DEF StartsBlock
<1>2. \A i \in 1..t - 1 : i \in 1..Len(b)
  BY <1>1
<1> QED
  BY <1>1, <1>2 DEF StartsBlock

\* A change leaves the names and the calls what they are.
LEMMA EditLayout ==
  ASSUME NEW b, Layout(b), CallsHaveIds(b), NEW e, ValidEdit(b, e),
         NEW c, Alter(b, c, e)
  PROVE  Layout(c) /\ CallsHaveIds(c)
<1> DEFINE n == Len(b)
<1>1. n \in Nat /\ IsList(c) /\ Len(c) = n
  BY DEF Alter, Layout, IsList
<1>2. \A j \in 1..n :
           /\ IsInstruction(c[j]) /\ c[j].name = b[j].name /\ c[j].blk = b[j].blk
           /\ DOMAIN c[j].args = DOMAIN b[j].args
           /\ \A a \in DOMAIN b[j].args :
                \/ c[j].args[a] = b[j].args[a]
                \/ b[j].name = e.name /\ c[j].args[a] = e.lit /\ e.lit = <<"int", e.lit[2]>>
           /\ Plain(b[j].op) => Plain(c[j].op)
           /\ ~Plain(b[j].op) => c[j].op = b[j].op
           /\ b[j].op = Call => c[j] = b[j]
  BY AlterKeeps
<1>3. Layout(c)
  <2>1. \A j \in 1..n : b[j].name \in 1..n /\ \A k \in 1..n : b[j].name = b[k].name => j = k
    BY DEF Layout
  <2>2. ASSUME NEW m \in 1..n PROVE \E i \in 1..n : Named(c, m, i)
    <3>1. PICK i \in 1..n : Named(b, m, i)
      BY DEF Layout
    <3>2. Named(c, m, i)
      BY <3>1, <1>1, <1>2 DEF Named
    <3> QED
      BY <3>2
  <2>3. ASSUME NEW j \in 1..n PROVE MadeBefore(c, c[j], j)
    <3> SUFFICES ASSUME NEW a \in DOMAIN c[j].args, c[j].args[a][1] = "val"
                 PROVE  \E k \in 1..j - 1 : Named(c, c[j].args[a][2], k)
      BY DEF MadeBefore
    <3>1. a \in DOMAIN b[j].args
      BY <1>2
    <3>2. c[j].args[a] = b[j].args[a]
      <4>1. c[j].args[a] = <<"int", e.lit[2]>> => c[j].args[a][1] = "int"
        OBVIOUS
      <4> QED
        BY <1>2, <3>1, <4>1
    <3>3. MadeBefore(b, b[j], j)
      BY DEF Layout
    <3>4. PICK k \in 1..j - 1 : Named(b, b[j].args[a][2], k)
      BY <3>1, <3>2, <3>3 DEF MadeBefore
    <3>5. Named(c, b[j].args[a][2], k)
      BY <3>4, <1>1, <1>2 DEF Named
    <3> QED
      BY <3>2, <3>4, <3>5
  <2> QED
    BY <1>1, <1>2, <2>1, <2>2, <2>3 DEF Layout
<1>4. CallsHaveIds(c)
  <2> SUFFICES ASSUME NEW j \in 1..n, c[j].op = Call PROVE \E x : c[j].args = <<<<"int", x>>>>
    BY <1>1 DEF CallsHaveIds
  <2>1. b[j].op = Call
    <3>1. ~Plain(c[j].op)
      BY DEF Plain
    <3> QED
      BY <3>1, <1>2
  <2> QED
    BY <2>1, <1>2 DEF CallsHaveIds
<1> QED
  BY <1>3, <1>4

\* And where the function goes.
LEMMA EditFlow ==
  ASSUME NEW b, Layout(b), CallsHaveIds(b), Flow(b), NEW e, ValidEdit(b, e),
         NEW c, Alter(b, c, e)
  PROVE  Flow(c)
<1> DEFINE n == Len(b)
<1>1. n \in Nat /\ IsList(c) /\ Len(c) = n
  BY DEF Alter, Layout, IsList
<1>2. \A j \in 1..n :
           /\ IsInstruction(c[j]) /\ c[j].name = b[j].name /\ c[j].blk = b[j].blk
           /\ DOMAIN c[j].args = DOMAIN b[j].args
           /\ \A a \in DOMAIN b[j].args :
                \/ c[j].args[a] = b[j].args[a]
                \/ b[j].name = e.name /\ c[j].args[a] = e.lit /\ e.lit = <<"int", e.lit[2]>>
           /\ Plain(b[j].op) => Plain(c[j].op)
           /\ ~Plain(b[j].op) => c[j].op = b[j].op
           /\ b[j].op = Call => c[j] = b[j]
  BY AlterKeeps
<1>3. Flow(c)
  <2> SUFFICES ASSUME NEW j \in 1..n
               PROVE
      /\ \A a \in DOMAIN c[j].args : c[j].args[a] = <<c[j].args[a][1], c[j].args[a][2]>>
      /\ c[j].op # Call => 1..Arity(c[j].op) \subseteq DOMAIN c[j].args
      /\ c[j].op = "br" =>
           \A a \in 2..3 : /\ c[j].args[a][1] = "block"
                          /\ \E t \in j + 1..Len(c) : StartsBlock(c, c[j].args[a][2], t)
      /\ c[j].op \notin {"ret", "br"} => j < Len(c)
    BY <1>1 DEF Flow
  <2>1. /\ \A a \in DOMAIN b[j].args : b[j].args[a] = <<b[j].args[a][1], b[j].args[a][2]>>
        /\ b[j].op # Call => 1..Arity(b[j].op) \subseteq DOMAIN b[j].args
        /\ b[j].op = "br" =>
             \A a \in 2..3 : /\ b[j].args[a][1] = "block"
                            /\ \E t \in j + 1..Len(b) : StartsBlock(b, b[j].args[a][2], t)
        /\ b[j].op \notin {"ret", "br"} => j < Len(b)
    BY DEF Flow
  <2>2. \A a \in DOMAIN c[j].args : c[j].args[a] = <<c[j].args[a][1], c[j].args[a][2]>>
    <3> SUFFICES ASSUME NEW a \in DOMAIN b[j].args
                 PROVE  c[j].args[a] = <<c[j].args[a][1], c[j].args[a][2]>>
      BY <1>2
    <3>1. CASE c[j].args[a] = b[j].args[a]
      BY <3>1, <2>1
    <3>2. CASE c[j].args[a] = <<"int", e.lit[2]>>
      BY <3>2
    <3> QED
      BY <3>1, <3>2, <1>2
  <2>3. Arity(c[j].op) = Arity(b[j].op) /\ (b[j].op = Call <=> c[j].op = Call)
    <3>1. CASE Plain(b[j].op)
      <4>1. Plain(c[j].op)
        BY <3>1, <1>2
      <4> QED
        BY <3>1, <4>1 DEF Plain, Arity
    <3>2. CASE ~Plain(b[j].op)
      BY <3>2, <1>2
    <3> QED
      BY <3>1, <3>2
  <2>4. c[j].op # Call => 1..Arity(c[j].op) \subseteq DOMAIN c[j].args
    BY <1>2, <2>1, <2>3
  <2>5. ASSUME c[j].op = "br", NEW a \in 2..3
        PROVE  /\ c[j].args[a][1] = "block"
               /\ \E t \in j + 1..Len(c) : StartsBlock(c, c[j].args[a][2], t)
    <3>1. b[j].op = "br"
      <4>1. ~Plain(c[j].op)
        BY <2>5 DEF Plain
      <4> QED
        BY <4>1, <2>5, <1>2
    <3>2. PICK t \in j + 1..Len(b) : StartsBlock(b, b[j].args[a][2], t)
      BY <2>1, <3>1
    <3>3. b[j].args[a][1] = "block" /\ a \in DOMAIN b[j].args
      BY <2>1, <3>1 DEF Arity, Call
    <3>4. b[j].name # e.name
      BY <3>1 DEF ValidEdit, Plain
    <3>5. c[j].args[a] = b[j].args[a]
      BY <1>2, <3>3, <3>4
    <3>6. StartsBlock(c, b[j].args[a][2], t)
      BY <1>1, <1>2, <3>2, AlterStarts
    <3> QED
      BY <1>1, <3>2, <3>3, <3>5, <3>6
  <2>6. c[j].op \notin {"ret", "br"} => j < Len(c)
    <3>1. CASE Plain(b[j].op)
      BY <3>1, <1>1, <2>1 DEF Plain
    <3>2. CASE ~Plain(b[j].op)
      BY <3>2, <1>1, <1>2, <2>1
    <3> QED
      BY <3>1, <3>2
  <2> QED
    BY <2>2, <2>4, <2>5, <2>6
<1> QED
  BY <1>3

\* The same change in both leaves a growth a growth.
LEMMA GrownAltered ==
  ASSUME NEW b, NEW c, NEW g, Grown(b, c, g), NEW e, ValidEdit(b, e), ValidEdit(c, e),
         NEW bb, Alter(b, bb, e), NEW cc, Alter(c, cc, e)
  PROVE  Grown(bb, cc, g)
<1> DEFINE n == Len(b)
<1>1. /\ n \in Nat /\ g.more \in Nat /\ g.at \in 1..n /\ Len(c) = n + g.more
      /\ \A j \in 1..n : Put(g, j) \in 1..Len(c)
      /\ Len(bb) = n /\ Len(cc) = Len(c)
  BY PutIs DEF Grown, Alter
<1>2. /\ Layout(b) /\ CallsHaveIds(b) /\ Flow(b) /\ Layout(c) /\ CallsHaveIds(c) /\ Widened(b, c, g)
      /\ b[g.at].name = g.name /\ g.to \in 1..Len(c) /\ (g.to = g.name \/ g.to > n)
  BY DEF Grown
<1>3. Layout(bb) /\ CallsHaveIds(bb) /\ Flow(bb)
  BY <1>2, EditLayout, EditFlow
<1>4. \A j \in 1..n :
        /\ bb[j].name = b[j].name /\ bb[j].blk = b[j].blk /\ DOMAIN bb[j].args = DOMAIN b[j].args
  BY <1>2, AlterKeeps
<1>5. \A t \in 1..Len(c) :
        /\ IsInstruction(cc[t]) /\ cc[t].name = c[t].name /\ cc[t].blk = c[t].blk
        /\ DOMAIN cc[t].args = DOMAIN c[t].args
        /\ \A a \in DOMAIN c[t].args :
             \/ cc[t].args[a] = c[t].args[a]
             \/ c[t].name = e.name /\ cc[t].args[a] = e.lit /\ e.lit = <<"int", e.lit[2]>>
        /\ Plain(c[t].op) => Plain(cc[t].op)
        /\ ~Plain(c[t].op) => cc[t].op = c[t].op
        /\ c[t].op = Call => cc[t] = c[t]
  BY <1>2, AlterKeeps
<1>6. Layout(cc) /\ CallsHaveIds(cc)
  BY <1>2, EditLayout
<1>7. Widened(bb, cc, g)
  <2>1. \A j \in 1..n : j # g.at => cc[Put(g, j)].blk = bb[j].blk
    BY <1>1, <1>2, <1>4, <1>5 DEF Widened
  <2>2. \A t \in g.at..g.at + g.more : t \in 1..Len(c)
    BY <1>1
  <2>3. \A t \in g.at..g.at + g.more : cc[t].blk = bb[g.at].blk
    BY Zenon, <2>2, <1>1, <1>2, <1>4, <1>5 DEF Widened
  <2> QED
    BY <1>1, <2>1, <2>3 DEF Widened
<1>8. ASSUME NEW j \in 1..n, j # g.at
      PROVE  /\ cc[Put(g, j)].name = bb[j].name /\ cc[Put(g, j)].op = bb[j].op
             /\ DOMAIN cc[Put(g, j)].args = DOMAIN bb[j].args
             /\ \A a \in DOMAIN bb[j].args : cc[Put(g, j)].args[a] = Renamed(g, bb[j].args[a])
  <2> DEFINE t == Put(g, j)
  <2>1. /\ t \in 1..Len(c) /\ c[t].name = b[j].name /\ c[t].op = b[j].op
        /\ DOMAIN c[t].args = DOMAIN b[j].args
        /\ \A a \in DOMAIN b[j].args : c[t].args[a] = Renamed(g, b[j].args[a])
    BY <1>1, <1>8 DEF Grown
  <2> HIDE DEF t
  <2>2. CASE b[j].name # e.name
    <3>1. bb[j] = b[j] /\ cc[t] = c[t]
      BY <2>1, <2>2 DEF Alter
    <3> QED
      BY <2>1, <3>1 DEF t
  <2>3. CASE b[j].name = e.name
    <3>1. Alters(b[j], bb[j], e) /\ Alters(c[t], cc[t], e)
      BY <2>1, <2>3 DEF Alter
    <3>2. cc[t].name = bb[j].name /\ cc[t].op = bb[j].op /\ DOMAIN cc[t].args = DOMAIN bb[j].args
      BY <2>1, <3>1 DEF Alters
    <3>3. ASSUME NEW a \in DOMAIN bb[j].args PROVE cc[t].args[a] = Renamed(g, bb[j].args[a])
      <4>1. a \in DOMAIN b[j].args /\ a \in DOMAIN c[t].args
        BY <2>1, <3>1 DEF Alters
      <4>2. CASE e.oi # 0 /\ a = e.oi
        <5>1. bb[j].args[a] = e.lit /\ cc[t].args[a] = e.lit
          BY <3>1, <4>1, <4>2 DEF Alters
        <5>2. e.lit = <<"int", e.lit[2]>>
          BY <2>3, <4>2 DEF ValidEdit
        <5>3. e.lit # Val(g.name)
          BY <5>2 DEF Val
        <5> QED
          BY <5>1, <5>3 DEF Renamed
      <4>3. CASE ~(e.oi # 0 /\ a = e.oi)
        <5>1. bb[j].args[a] = b[j].args[a] /\ cc[t].args[a] = c[t].args[a]
          BY <3>1, <4>1, <4>3 DEF Alters
        <5> QED
          BY <5>1, <2>1, <4>1
      <4> QED
        BY <4>2, <4>3
    <3> QED
      BY <3>2, <3>3 DEF t
  <2> QED
    BY <2>2, <2>3
<1>9. bb[g.at].name = g.name
  BY <1>1, <1>2, <1>4
<1> QED
  BY <1>1, <1>2, <1>3, <1>6, <1>7, <1>8, <1>9 DEF Grown

\* So does a change of the instruction that grows, before it grows.
LEMMA SiteAltered ==
  ASSUME NEW b, NEW c, NEW g, Grown(b, c, g), NEW e, ValidEdit(b, e), e.name = g.name,
         NEW bb, Alter(b, bb, e)
  PROVE  Grown(bb, c, g)
<1> DEFINE n == Len(b)
<1>1. /\ n \in Nat /\ g.more \in Nat /\ g.at \in 1..n /\ Len(c) = n + g.more
      /\ \A j \in 1..n : Put(g, j) \in 1..Len(c)
      /\ Len(bb) = n
  BY PutIs DEF Grown, Alter
<1>2. /\ Layout(b) /\ CallsHaveIds(b) /\ Flow(b) /\ Layout(c) /\ CallsHaveIds(c) /\ Widened(b, c, g)
      /\ b[g.at].name = g.name /\ g.to \in 1..Len(c) /\ (g.to = g.name \/ g.to > n)
  BY DEF Grown
<1>3. Layout(bb) /\ CallsHaveIds(bb) /\ Flow(bb)
  BY <1>2, EditLayout, EditFlow
<1>4. \A j \in 1..n :
        /\ bb[j].name = b[j].name /\ bb[j].blk = b[j].blk /\ DOMAIN bb[j].args = DOMAIN b[j].args
  BY <1>2, AlterKeeps
<1>5. Widened(bb, c, g)
  <2>1. \A j \in 1..n : j # g.at => c[Put(g, j)].blk = bb[j].blk
    BY <1>1, <1>2, <1>4 DEF Widened
  <2>2. \A t \in g.at..g.at + g.more : c[t].blk = bb[g.at].blk
    BY <1>1, <1>2, <1>4 DEF Widened
  <2> QED
    BY <1>1, <2>1, <2>2 DEF Widened
<1>6. ASSUME NEW j \in 1..n, j # g.at
      PROVE  bb[j] = b[j]
  <2>1. b[j].name # e.name
    BY <1>1, <1>2, <1>6 DEF Layout
  <2> QED
    BY <2>1 DEF Alter
<1>7. bb[g.at].name = g.name
  BY <1>1, <1>2, <1>4
<1>8. \A j \in 1..n :
       j # g.at =>
         /\ c[Put(g, j)].name = bb[j].name /\ c[Put(g, j)].op = bb[j].op
         /\ DOMAIN c[Put(g, j)].args = DOMAIN bb[j].args
         /\ \A a \in DOMAIN bb[j].args : c[Put(g, j)].args[a] = Renamed(g, bb[j].args[a])
  BY <1>6 DEF Grown
<1> QED
  BY <1>1, <1>2, <1>3, <1>5, <1>7, <1>8 DEF Grown
-----------------------------------------------------------------------------
(* What stays of the source *)

\* Instructions with the same operator and type, and as many operands.
SameKind(I, J) == J.op = I.op /\ J.ty = I.ty /\ DOMAIN J.args = DOMAIN I.args

\* b still has the instructions of the function f.
Holds(f, b) == \A n \in 1..Len(f) : n \in 1..Len(b) /\ SameKind(Ins(f, n), Ins(b, n))

\* A change that f admits is one that b admits.
LEMMA HoldsValid ==
  ASSUME NEW f, Layout(f), NEW b, Layout(b), Holds(f, b), NEW e, ValidEdit(f, e),
         e.name \in 0..Len(f)
  PROVE  ValidEdit(b, e)
<1> SUFFICES ASSUME NEW j \in 1..Len(b), b[j].name = e.name
             PROVE  /\ Plain(b[j].op) \/ b[j].op = "ret"
                    /\ e.oi = 0 => Plain(b[j].op) /\ Plain(e.op)
                    /\ e.oi # 0 => e.oi \in DOMAIN b[j].args /\ e.lit = <<"int", e.lit[2]>>
  BY DEF ValidEdit
<1>1. e.name \in 1..Len(f)
  <2>1. b[j].name \in 1..Len(b)
    BY DEF Layout
  <2>2. Len(b) \in Nat /\ Len(f) \in Nat
    BY DEF Layout, IsList
  <2> DEFINE k == e.name
  <2>3. k \in 1..Len(b) /\ k \in 0..Len(f)
    BY <2>1
  <2> HIDE DEF k
  <2>4. k \in 1..Len(f)
    BY <2>2, <2>3
  <2> QED
    BY <2>4 DEF k
<1>2. SameKind(Ins(f, e.name), Ins(b, e.name))
  BY <1>1 DEF Holds
<1>3. Ins(b, e.name) = b[j]
  <2>1. Named(b, e.name, j)
    BY DEF Named
  <2> QED
    BY <2>1, AtIsOnly DEF Ins
<1>4. Named(f, e.name, At(f, e.name))
  BY <1>1, AtIs
<1> DEFINE i == At(f, e.name)
<1>5. i \in 1..Len(f) /\ f[i].name = e.name /\ Ins(f, e.name) = f[i]
  BY <1>4 DEF Named, Ins
<1> HIDE DEF i
<1>6. /\ Plain(f[i].op) \/ f[i].op = "ret"
      /\ e.oi = 0 => Plain(f[i].op) /\ Plain(e.op)
      /\ e.oi # 0 => e.oi \in DOMAIN f[i].args /\ e.lit = <<"int", e.lit[2]>>
  BY <1>5 DEF ValidEdit
<1> QED
  BY <1>2, <1>3, <1>5, <1>6 DEF SameKind

\* What b has of f and c of b, c has of f.
LEMMA HoldsOn ==
  ASSUME NEW f, NEW b, NEW c, Holds(f, b), Holds(b, c)
  PROVE  Holds(f, c)
BY DEF Holds, SameKind
-----------------------------------------------------------------------------
(* What is put in makes a function grow *)

\* rb is b with the uses of a value replaced.
Renames(b, rb, from, to) ==
  /\ IsList(rb) /\ Len(rb) = Len(b)
  /\ \A j \in 1..Len(b) :
       /\ IsInstruction(rb[j]) /\ rb[j].name = b[j].name /\ rb[j].blk = b[j].blk
       /\ SameKind(b[j], rb[j]) /\ DOMAIN rb[j].args = DOMAIN b[j].args
       /\ rb[j].args = [a \in DOMAIN b[j].args |->
                          IF b[j].args[a] = Val(from) THEN Val(to) ELSE b[j].args[a]]

\* What replaceUses does.
LEMMA UsesAre ==
  ASSUME NEW b, Layout(b), NEW from, NEW to, NEW rb, rb = replaceUses(b, from, to)
  PROVE  Renames(b, rb, from, to)
<1> DEFINE n == Len(b)
<1>1. n \in Nat /\ DOMAIN b = 1..n
  BY ListIsSeq DEF Layout
<1>2. rb = [j \in 1..n |-> [b[j] EXCEPT !.args =
              [a \in DOMAIN b[j].args |-> IF b[j].args[a] = Val(from) THEN Val(to) ELSE b[j].args[a]]]]
  BY <1>1 DEF replaceUses
<1>3. IsList(rb) /\ Len(rb) = n
  <2> HIDE DEF n
  <2> QED
    BY <1>1, <1>2 DEF IsList
<1>4. ASSUME NEW j \in 1..n
      PROVE  /\ IsInstruction(rb[j]) /\ rb[j].name = b[j].name /\ rb[j].blk = b[j].blk
             /\ SameKind(b[j], rb[j]) /\ DOMAIN rb[j].args = DOMAIN b[j].args
             /\ rb[j].args = [a \in DOMAIN b[j].args |->
                                IF b[j].args[a] = Val(from) THEN Val(to) ELSE b[j].args[a]]
  <2>1. IsInstruction(b[j])
    BY DEF Layout
  <2> DEFINE w == [a \in DOMAIN b[j].args |->
                     IF b[j].args[a] = Val(from) THEN Val(to) ELSE b[j].args[a]]
  <2>2. rb[j] = [b[j] EXCEPT !.args = w]
    BY <1>2
  <2>3. DOMAIN w = DOMAIN b[j].args
    OBVIOUS
  <2>4. w = [a \in DOMAIN b[j].args |->
               IF b[j].args[a] = Val(from) THEN Val(to) ELSE b[j].args[a]]
    OBVIOUS
  <2> HIDE DEF w
  <2>5. /\ IsInstruction(rb[j]) /\ rb[j].name = b[j].name /\ rb[j].op = b[j].op
        /\ rb[j].args = w /\ rb[j].ty = b[j].ty /\ rb[j].blk = b[j].blk
    BY <2>1, <2>2 DEF IsInstruction, Fields
  <2> QED
    BY <2>3, <2>4, <2>5 DEF SameKind
<1> QED
  BY <1>3, <1>4 DEF Renames

\* What New makes stands in the block of what it is made from.
LEMMA NewHas ==
  ASSUME NEW I, IsInstruction(I), NEW name, NEW op, NEW args, NEW J, J = New(I, name, op, args)
  PROVE  J.name = name /\ J.op = op /\ J.args = args /\ J.blk = I.blk /\ J.ty = I.ty
BY DEF IsInstruction, Fields, New

\* What the instructions that stand for one need, so that the function can go on.
GroupFlows(c, g) ==
  \A t \in g.at..g.at + g.more :
    /\ \A a \in DOMAIN c[t].args : c[t].args[a] = <<c[t].args[a][1], c[t].args[a][2]>>
    /\ c[t].op # Call => 1..Arity(c[t].op) \subseteq DOMAIN c[t].args
    /\ c[t].op # "br" /\ (c[t].op # "ret" => t < Len(c))

\* Then the function that has grown goes on everywhere.
LEMMA GrownFlows ==
  ASSUME NEW b, NEW c, NEW g, Grown(b, c, g), GroupFlows(c, g)
  PROVE  Flow(c)
<1> DEFINE n == Len(b)
<1>1. /\ n \in Nat /\ g.more \in Nat /\ g.at \in 1..n /\ Len(c) = n + g.more
      /\ \A j \in 0..n : Put(g, j) = IF j <= g.at THEN j ELSE j + g.more
  BY PutIs DEF Grown
<1>2. Widened(b, c, g) /\ Flow(b)
  BY DEF Grown
<1> SUFFICES ASSUME NEW t \in 1..Len(c)
             PROVE
    /\ \A a \in DOMAIN c[t].args : c[t].args[a] = <<c[t].args[a][1], c[t].args[a][2]>>
    /\ c[t].op # Call => 1..Arity(c[t].op) \subseteq DOMAIN c[t].args
    /\ c[t].op = "br" =>
         \A a \in 2..3 : /\ c[t].args[a][1] = "block"
                        /\ \E u \in t + 1..Len(c) : StartsBlock(c, c[t].args[a][2], u)
    /\ c[t].op \notin {"ret", "br"} => t < Len(c)
  BY DEF Flow
<1>3. CASE t \in g.at..g.at + g.more
  BY <1>3 DEF GroupFlows
<1>4. CASE \E j \in 1..n : j # g.at /\ t = Put(g, j)
  <2>1. PICK j \in 1..n : j # g.at /\ t = Put(g, j)
    BY <1>4
  <2>2. /\ c[t].op = b[j].op /\ DOMAIN c[t].args = DOMAIN b[j].args
        /\ \A a \in DOMAIN b[j].args : c[t].args[a] = Renamed(g, b[j].args[a])
    BY <2>1 DEF Grown
  <2>3. /\ \A a \in DOMAIN b[j].args : b[j].args[a] = <<b[j].args[a][1], b[j].args[a][2]>>
        /\ b[j].op # Call => 1..Arity(b[j].op) \subseteq DOMAIN b[j].args
        /\ b[j].op = "br" =>
             \A a \in 2..3 : /\ b[j].args[a][1] = "block"
                            /\ \E u \in j + 1..Len(b) : StartsBlock(b, b[j].args[a][2], u)
        /\ b[j].op \notin {"ret", "br"} => j < Len(b)
    BY <1>2 DEF Flow
  <2>4. ASSUME NEW a \in DOMAIN c[t].args
        PROVE  c[t].args[a] = <<c[t].args[a][1], c[t].args[a][2]>>
    <3>1. c[t].args[a] = b[j].args[a] \/ c[t].args[a] = Val(g.to)
      BY <2>2 DEF Renamed
    <3>2. Val(g.to) = <<Val(g.to)[1], Val(g.to)[2]>>
      BY DEF Val
    <3> QED
      BY <2>2, <2>3, <3>1, <3>2
  <2>5. ASSUME c[t].op = "br", NEW a \in 2..3
        PROVE  /\ c[t].args[a][1] = "block"
               /\ \E u \in t + 1..Len(c) : StartsBlock(c, c[t].args[a][2], u)
    <3>1. PICK u \in j + 1..Len(b) : StartsBlock(b, b[j].args[a][2], u)
      BY <2>2, <2>3, <2>5
    <3>2. b[j].args[a][1] = "block" /\ a \in DOMAIN b[j].args
      BY <2>2, <2>3, <2>5 DEF Arity, Call
    <3>3. c[t].args[a] = b[j].args[a]
      <4>1. b[j].args[a] # Val(g.name)
        BY <3>2 DEF Val
      <4> QED
        BY <4>1, <2>2, <3>2 DEF Renamed
    <3>4. StartsBlock(c, b[j].args[a][2], Put(g, u))
      BY <1>2, <3>1, BlockMoves
    <3>5. Put(g, u) \in t + 1..Len(c)
      <4>1. u \in 0..n /\ j \in 0..n
        BY <1>1, <3>1
      <4>2. Put(g, u) = (IF u <= g.at THEN u ELSE u + g.more) /\ t = (IF j <= g.at THEN j ELSE j + g.more)
        BY <1>1, <2>1, <4>1
      <4> QED
        BY <1>1, <3>1, <4>2
    <3> QED
      BY <3>2, <3>3, <3>4, <3>5
  <2>6. c[t].op \notin {"ret", "br"} => t < Len(c)
    <3>1. c[t].op \notin {"ret", "br"} => j < n
      BY <2>2, <2>3
    <3>2. t = IF j <= g.at THEN j ELSE j + g.more
      BY <1>1, <2>1
    <3> QED
      BY <3>1, <3>2, <1>1
  <2> QED
    BY <2>2, <2>3, <2>4, <2>5, <2>6
<1> QED
  BY <1>2, <1>3, <1>4, PutFrom

\* What was there is still there, with its kind.
LEMMA SplicedHolds ==
  ASSUME NEW b, Layout(b), NEW rb, NEW new, NEW i, Fits(b, rb, i, new),
         NEW c, Spliced(rb, i, new, c), \A j \in 1..Len(b) : SameKind(b[j], rb[j])
  PROVE  Holds(b, c)
<1> SUFFICES ASSUME NEW n \in 1..Len(b)
             PROVE  n \in 1..Len(c) /\ SameKind(Ins(b, n), Ins(c, n))
  BY DEF Holds
<1> DEFINE d == Len(new)
           j == At(b, n)
<1>1. Moved(b, c, i, d)
  BY SplicedLayout
<1>2. n \in 1..Len(c) /\ j \in 1..Len(b) /\ At(c, n) = Place(i, d, j)
  BY <1>1, MovedAt
<1>3. c[Place(i, d, j)] = rb[j]
  BY <1>2, SplicedPlaces
<1> QED
  BY <1>2, <1>3 DEF Ins

\* How c comes from b with a chain for the mutants made of the instruction named n.
ChainPut(b, c, n, alts, made, ch, rb) ==
  /\ Linked(b, b[At(b, n)], alts, made, ch)
  /\ Renames(b, rb, n, Len(b) + 3 * Len(alts))
  /\ Fits(b, rb, At(b, n) + 1, ch) /\ Spliced(rb, At(b, n) + 1, ch, c)

\* What Chained puts in, and where.
LEMMA ChainedIs ==
  ASSUME NEW b, Layout(b), NEW n \in 1..Len(b), NEW alts, IsList(alts), Len(alts) # 0, NEW made,
         NEW c, c = Chained(b, Ins(b, n), alts, made)
  PROVE  \E ch, rb : ChainPut(b, c, n, alts, made, ch, rb)
<1> DEFINE i == At(b, n)
           I == b[i]
           ch == Chain(b, I, alts, made)
           to == Last(ch).name
           rb == replaceUses(b, I.name, to)
           k == i + 1
<1>1. i \in 1..Len(b) /\ I.name = n /\ Len(b) \in Nat
  BY AtIs DEF Named, Layout, IsList
<1>2. c = Splice(rb, k, ch)
  BY <1>1 DEF Ins, Chained
<1> HIDE DEF i, ch
<1>3. Linked(b, b[i], alts, made, ch)
  BY ChainLinks DEF ch
<1>4. Fits(b, rb, k, ch)
  BY <1>1, <1>3, ChainFits
<1>5. to = Len(b) + 3 * Len(alts)
  <2>1. to = Len(b) + Len(ch)
    BY <1>1, <1>3, ChainEnd
  <2> QED
    BY <2>1, <1>3 DEF Linked
<1>6. Renames(b, rb, n, to)
  <2> HIDE DEF to
  <2> QED
    BY <1>1, UsesAre
<1> HIDE DEF rb, k
<1>7. Spliced(rb, k, ch, c)
  <2>1. IsList(rb) /\ IsList(ch) /\ k \in 1..Len(rb) + 1
    BY <1>4 DEF Fits
  <2> QED
    BY <2>1, <1>2, SpliceIs
<1>8. ChainPut(b, c, n, alts, made, ch, rb)
  BY <1>3, <1>4, <1>5, <1>6, <1>7 DEF ChainPut, k, i
<1> QED
  BY <1>8

\* The growth that a chain is.
ChainGrowth(b, n, made) ==
  [at |-> At(b, n), name |-> n, to |-> Len(b) + 3 * Len(made), more |-> 3 * Len(made),
   ids |-> FirstIds(made, Len(made))]

\* The chain in c: the site is what it was, and each link is made from it.
ChainIn(b, c, g, alts, made) ==
  /\ c[g.at].name = g.name /\ c[g.at].op = b[g.at].op
  /\ DOMAIN c[g.at].args = DOMAIN b[g.at].args
  /\ \A a \in DOMAIN b[g.at].args : c[g.at].args[a] = b[g.at].args[a]
  /\ \A k \in 1..Len(made) :
       /\ LinkAt(c, g.at + 3 * (k - 1), Len(b) + 3 * (k - 1), made[k].id, Cur(Len(b), g, k - 1))
       /\ c[g.at + 3 * (k - 1) + 1].op = alts[k]
       /\ c[g.at + 3 * (k - 1) + 1].args = b[g.at].args

\* Where things are in c, and what they are.
ChainPlaces(b, c, g, alts, made, ch, rb) ==
  /\ Len(b) \in Nat /\ g.at \in 1..Len(b) /\ g.more = 3 * Len(made) /\ Len(made) \in Nat \ {0}
  /\ Len(c) = Len(b) + g.more /\ b[g.at].name = g.name
  /\ \A j \in 1..Len(b) : Put(g, j) \in 1..Len(c) /\ c[Put(g, j)] = rb[j]
  /\ Put(g, g.at) = g.at
  /\ \A x \in 1..g.more : g.at + x \in 1..Len(c) /\ c[g.at + x] = ch[x]

LEMMA ChainIsPut ==
  ASSUME NEW b, Layout(b), NEW n \in 1..Len(b), NEW alts, IsList(alts), Len(alts) # 0, NEW made,
         Len(made) = Len(alts), NEW c, NEW ch, NEW rb, ChainPut(b, c, n, alts, made, ch, rb),
         NEW g, g = ChainGrowth(b, n, made)
  PROVE  ChainPlaces(b, c, g, alts, made, ch, rb)
<1> DEFINE p == At(b, n)
           k == p + 1
           d == Len(ch)
           K == Len(made)
<1>1. /\ g.at = p /\ g.name = n /\ g.more = 3 * K /\ K \in Nat \ {0} /\ d = 3 * K
  BY DEF ChainGrowth, ChainPut, Linked, IsList
<1>2. p \in 1..Len(b) /\ b[p].name = n /\ Len(b) \in Nat
  BY AtIs DEF Named, Layout, IsList
<1>3. Fits(b, rb, k, ch) /\ Spliced(rb, k, ch, c)
  BY DEF ChainPut
<1> HIDE DEF p, k, d
<1>4. /\ Len(c) = Len(b) + d
      /\ \A j \in 1..Len(b) : Place(k, d, j) \in 1..Len(c) /\ c[Place(k, d, j)] = rb[j]
      /\ \A x \in 1..d : k - 1 + x \in 1..Len(c) /\ c[k - 1 + x] = ch[x]
  BY <1>3, SplicedPlaces DEF d
<1>5. \A j : Put(g, j) = Place(k, d, j)
  BY <1>1 DEF Put, k
<1>6. Put(g, g.at) = g.at
  BY <1>1, <1>2 DEF Put, Place
<1>7. \A x \in 1..d : k - 1 + x = g.at + x
  BY <1>1, <1>2 DEF k
<1> QED
  BY <1>1, <1>2, <1>4, <1>5, <1>6, <1>7 DEF ChainPlaces

\* The link of ch behind its x-th instruction, made from I.
LinkOf(I, ch, alt, id, x, base, prev) ==
  /\ ch[x + 1].name = base + 1 /\ ch[x + 1].op = alt /\ ch[x + 1].args = I.args
  /\ ch[x + 2].name = base + 2 /\ AsksFor(ch[x + 2], id)
  /\ ch[x + 3].name = base + 3 /\ ch[x + 3].op = "select"
  /\ ch[x + 3].args = <<Val(base + 2), Val(base + 1), Val(prev)>>
  /\ ch[x + 1].blk = I.blk /\ ch[x + 2].blk = I.blk /\ ch[x + 3].blk = I.blk

\* The k-th link of a chain.
LEMMA LinkHas ==
  ASSUME NEW b, NEW I, IsInstruction(I), NEW alts, NEW made, NEW ch, Linked(b, I, alts, made, ch),
         NEW k \in 1..Len(alts), NEW base, base = Len(b) + 3 * (k - 1),
         NEW prev, prev = (IF k = 1 THEN I.name ELSE base),
         NEW x, x = 3 * (k - 1)
  PROVE  LinkOf(I, ch, alts[k], made[k].id, x, base, prev)
<1> DEFINE L == Link(b, I, alts, made, k)
           J1 == L.alt
           J2 == L.on
           J3 == L.sel
           o2 == <<<<"int", made[k].id>>>>
           o3 == <<Val(base + 2), Val(base + 1), Val(prev)>>
<1>1. ch[x + 1] = J1 /\ ch[x + 2] = J2 /\ ch[x + 3] = J3
  BY DEF Linked
<1>2. /\ J1 = New(I, base + 1, alts[k], I.args) /\ J2 = New(I, base + 2, Call, o2)
      /\ J3 = New(I, base + 3, "select", o3)
  BY DEF Link
<1> HIDE DEF L, J1, J2, J3, o2, o3
<1>3. J1.name = base + 1 /\ J1.op = alts[k] /\ J1.args = I.args /\ J1.blk = I.blk
  <2> DEFINE op == alts[k]
             o1 == I.args
             name == base + 1
  <2>1. J1 = New(I, name, op, o1)
    BY <1>2
  <2> HIDE DEF op, o1, name
  <2>2. J1.name = name /\ J1.op = op /\ J1.args = o1 /\ J1.blk = I.blk
    BY <2>1, NewHas
  <2> QED
    BY <2>2 DEF op, o1, name
<1>4. J2.name = base + 2 /\ J2.op = Call /\ J2.args = o2 /\ J2.blk = I.blk
  BY <1>2, NewHas
<1>5. J3.name = base + 3 /\ J3.op = "select" /\ J3.args = o3 /\ J3.blk = I.blk
  BY <1>2, NewHas
<1> QED
  BY <1>1, <1>3, <1>4, <1>5 DEF LinkOf, AsksFor, o2, o3

\* The chain that Chained puts in is what it should be.
LEMMA ChainInIs ==
  ASSUME NEW b, Layout(b), NEW n \in 1..Len(b), NEW alts, IsList(alts), Len(alts) # 0,
         \A k \in 1..Len(alts) : Plain(alts[k]), NEW made, Len(made) = Len(alts),
         NEW c, NEW ch, NEW rb, ChainPut(b, c, n, alts, made, ch, rb),
         NEW g, g = ChainGrowth(b, n, made)
  PROVE  /\ ChainIn(b, c, g, alts, made)
         /\ \A t \in g.at..g.at + g.more : c[t].blk = b[g.at].blk
<1> DEFINE N == Len(b)
           K == Len(made)
           p == g.at
           I == b[p]
<1>1. /\ N \in Nat /\ p \in 1..N /\ g.more = 3 * K /\ K \in Nat \ {0} /\ I.name = n /\ g.name = n
      /\ c[p] = rb[p] /\ IsInstruction(I)
      /\ \A x \in 1..3 * K : c[p + x] = ch[x]
  <2>1. ChainPlaces(b, c, g, alts, made, ch, rb)
    BY ChainIsPut
  <2>2. g.name = n
    BY DEF ChainGrowth
  <2> QED
    BY <2>1, <2>2 DEF ChainPlaces, Layout
<1>2. Linked(b, I, alts, made, ch)
  <2>1. p = At(b, n)
    BY DEF ChainGrowth
  <2> QED
    BY <2>1 DEF ChainPut
<1>3. /\ rb[p].name = I.name /\ rb[p].op = I.op /\ rb[p].blk = I.blk
      /\ DOMAIN rb[p].args = DOMAIN I.args
      /\ \A a \in DOMAIN I.args : rb[p].args[a] = I.args[a]
  <2>1. /\ rb[p].name = I.name /\ rb[p].op = I.op /\ rb[p].blk = I.blk
        /\ DOMAIN rb[p].args = DOMAIN I.args
        /\ rb[p].args = [a \in DOMAIN I.args |->
                           IF I.args[a] = Val(n) THEN Val(N + 3 * Len(alts)) ELSE I.args[a]]
    BY <1>1 DEF ChainPut, Renames, SameKind
  <2>2. ASSUME NEW a \in DOMAIN I.args PROVE I.args[a] # Val(n)
    <3> SUFFICES ASSUME I.args[a] = Val(n) PROVE FALSE
      OBVIOUS
    <3>1. I.args[a][1] = "val" /\ I.args[a][2] = n
      BY DEF Val
    <3>2. MadeBefore(b, I, p)
      BY <1>1 DEF Layout
    <3>3. PICK j \in 1..p - 1 : Named(b, n, j)
      BY <3>1, <3>2 DEF MadeBefore
    <3>4. j \in 1..N /\ b[j].name = b[p].name
      BY <3>3, <1>1 DEF Named
    <3>5. j = p
      BY <3>4, <1>1 DEF Layout
    <3> QED
      BY <3>3, <3>5, <1>1
  <2> HIDE DEF I
  <2> QED
    BY <2>1, <2>2
<1> HIDE DEF I, p, N
<1>4. ASSUME NEW k \in 1..K
      PROVE  /\ LinkAt(c, p + 3 * (k - 1), N + 3 * (k - 1), made[k].id, Cur(N, g, k - 1))
             /\ c[p + 3 * (k - 1) + 1].op = alts[k]
             /\ c[p + 3 * (k - 1) + 1].args = I.args
             /\ \A e \in 1..3 : c[p + (3 * (k - 1) + e)].blk = I.blk
  <2> DEFINE x == 3 * (k - 1)
             base == N + x
             prev == IF k = 1 THEN I.name ELSE base
  <2>1. k \in 1..Len(alts) /\ base = Len(b) + 3 * (k - 1) /\ x = 3 * (k - 1)
    BY DEF N
  <2>2. prev = IF k = 1 THEN I.name ELSE base
    OBVIOUS
  <2>3. /\ x \in Nat /\ x + 1 \in 1..3 * K /\ x + 2 \in 1..3 * K /\ x + 3 \in 1..3 * K
        /\ p + x + 1 = p + (x + 1) /\ p + x + 2 = p + (x + 2) /\ p + x + 3 = p + (x + 3)
    BY <1>1
  <2>4. Cur(N, g, k - 1) = prev
    BY <1>1 DEF Cur
  <2> HIDE DEF x, base, prev
  <2>5. LinkOf(I, ch, alts[k], made[k].id, x, base, prev)
    <3>1. /\ IsInstruction(I) /\ Linked(b, I, alts, made, ch) /\ k \in 1..Len(alts)
          /\ base = Len(b) + 3 * (k - 1) /\ prev = (IF k = 1 THEN I.name ELSE base)
          /\ x = 3 * (k - 1)
      BY <1>1, <1>2, <2>1, <2>2
    <3> QED
      BY ONLY <3>1, LinkHas
  <2>6. /\ c[p + (x + 1)] = ch[x + 1] /\ c[p + (x + 2)] = ch[x + 2] /\ c[p + (x + 3)] = ch[x + 3]
    BY <1>1, <2>3
  <2>7. LinkAt(c, p + x, base, made[k].id, prev)
    <3>1. c[p + x + 1] = ch[x + 1] /\ c[p + x + 2] = ch[x + 2] /\ c[p + x + 3] = ch[x + 3]
      BY <2>3, <2>6
    <3>2. Plain(alts[k])
      BY <2>1
    <3> QED
      BY <2>5, <3>1, <3>2 DEF LinkOf, LinkAt
  <2>8. \A e \in 1..3 : c[p + (x + e)].blk = I.blk
    <3>1. \A e \in 1..3 : e = 1 \/ e = 2 \/ e = 3
      OBVIOUS
    <3> QED
      BY <3>1, <2>5, <2>6 DEF LinkOf
  <2>9. c[p + x + 1].op = alts[k] /\ c[p + x + 1].args = I.args
    BY <2>3, <2>5, <2>6 DEF LinkOf
  <2> QED
    BY <2>4, <2>7, <2>8, <2>9 DEF x, base
<1>5. ChainIn(b, c, g, alts, made)
  BY <1>1, <1>3, <1>4 DEF ChainIn, I, p, N
<1>6. ASSUME NEW t \in p..p + g.more PROVE c[t].blk = I.blk
  <2>1. CASE t = p
    BY <2>1, <1>1, <1>3
  <2>2. CASE t # p
    <3> DEFINE x == t - p
    <3>1. x \in 1..3 * K /\ t = p + x
      BY <2>2, <1>1
    <3> HIDE DEF x
    <3>2. PICK k \in 1..K : x = 3 * (k - 1) + 1 \/ x = 3 * (k - 1) + 2 \/ x = 3 * (k - 1) + 3
      BY <3>1, <1>1, PlaceInTriples
    <3>3. \A e \in 1..3 : c[p + (3 * (k - 1) + e)].blk = I.blk
      BY <1>4
    <3>4. 1 \in 1..3 /\ 2 \in 1..3 /\ 3 \in 1..3
      OBVIOUS
    <3> QED
      BY <3>1, <3>2, <3>3, <3>4
  <2> QED
    BY <2>1, <2>2
<1> QED
  BY <1>5, <1>6 DEF I, p

\* A chain is a growth.
LEMMA ChainGrows ==
  ASSUME NEW b, Layout(b), CallsHaveIds(b), Flow(b), NEW n \in 1..Len(b), Plain(Ins(b, n).op),
         NEW alts, IsList(alts), Len(alts) # 0, \A k \in 1..Len(alts) : Plain(alts[k]),
         NEW made, Len(made) = Len(alts), NEW c, c = Chained(b, Ins(b, n), alts, made),
         NEW g, g = ChainGrowth(b, n, made)
  PROVE  Grown(b, c, g) /\ Flow(c) /\ Holds(b, c) /\ ChainIn(b, c, g, alts, made)
<1> DEFINE N == Len(b)
           K == Len(made)
           p == g.at
           I == b[p]
<1>1. PICK ch, rb : ChainPut(b, c, n, alts, made, ch, rb)
  BY ChainedIs
<1>2. ChainPlaces(b, c, g, alts, made, ch, rb)
  BY <1>1, ChainIsPut
<1>3. /\ ChainIn(b, c, g, alts, made)
      /\ \A t \in p..p + g.more : c[t].blk = I.blk
  BY <1>1, ChainInIs
<1>4. /\ g.name = n /\ g.to = N + 3 * K /\ p = At(b, n) /\ Plain(I.op)
  BY DEF ChainGrowth, Ins
<1>5. /\ N \in Nat /\ p \in 1..N /\ g.more = 3 * K /\ K \in Nat \ {0} /\ Len(c) = N + 3 * K
      /\ b[p].name = g.name /\ Put(g, p) = p
      /\ \A j \in 1..N : Put(g, j) \in 1..Len(c) /\ c[Put(g, j)] = rb[j]
  BY <1>2 DEF ChainPlaces
<1>6. Layout(c) /\ CallsHaveIds(c)
  <2>1. \A k \in 1..Len(alts) : alts[k] # Call
    BY DEF Plain
  <2>2. \E d : Instrumented(b, c, At(b, n) + 1, d, FirstIds(made, Len(alts)))
    BY <2>1, ChainedDoes
  <2> QED
    BY <2>2 DEF Instrumented, Moved
<1>7. /\ IsList(rb) /\ Len(rb) = N
      /\ \A j \in 1..N :
           /\ IsInstruction(rb[j]) /\ rb[j].name = b[j].name /\ rb[j].blk = b[j].blk
           /\ SameKind(b[j], rb[j]) /\ DOMAIN rb[j].args = DOMAIN b[j].args
           /\ rb[j].args = [a \in DOMAIN b[j].args |->
                              IF b[j].args[a] = Val(n) THEN Val(g.to) ELSE b[j].args[a]]
  BY <1>1, <1>4 DEF ChainPut, Renames
<1> HIDE DEF I, p, N
<1>8. Widened(b, c, g)
  <2>1. \A j \in 1..N : c[Put(g, j)].blk = b[j].blk
    BY <1>5, <1>7
  <2>2. g.more \in Nat
    BY <1>5
  <2> QED
    BY <1>3, <1>5, <2>1, <2>2 DEF Widened, p, N, I
<1>9. ASSUME NEW j \in 1..N
      PROVE  /\ c[Put(g, j)].name = b[j].name /\ c[Put(g, j)].op = b[j].op
             /\ DOMAIN c[Put(g, j)].args = DOMAIN b[j].args
             /\ \A a \in DOMAIN b[j].args : c[Put(g, j)].args[a] = Renamed(g, b[j].args[a])
  <2>1. c[Put(g, j)] = rb[j] /\ rb[j].name = b[j].name /\ rb[j].op = b[j].op
    BY <1>5, <1>7 DEF SameKind
  <2>2. rb[j].args = [a \in DOMAIN b[j].args |->
                        IF b[j].args[a] = Val(n) THEN Val(g.to) ELSE b[j].args[a]]
    BY <1>7
  <2>3. \A a \in DOMAIN b[j].args : rb[j].args[a] = Renamed(g, b[j].args[a])
    BY <2>2, <1>4 DEF Renamed
  <2>4. DOMAIN rb[j].args = DOMAIN b[j].args
    BY <1>7
  <2> QED
    BY <2>1, <2>3, <2>4
<1>10. Grown(b, c, g)
  <2>1. g.to \in 1..Len(c) /\ g.to > N
    BY <1>4, <1>5
  <2> QED
    BY <1>5, <1>6, <1>8, <1>9, <2>1 DEF Grown, N, p
<1>11. GroupFlows(c, g)
  <2> SUFFICES ASSUME NEW t \in p..p + g.more
               PROVE
    /\ \A a \in DOMAIN c[t].args : c[t].args[a] = <<c[t].args[a][1], c[t].args[a][2]>>
    /\ c[t].op # Call => 1..Arity(c[t].op) \subseteq DOMAIN c[t].args
    /\ c[t].op # "br" /\ (c[t].op # "ret" => t < Len(c))
    BY DEF GroupFlows, p
  <2>1. /\ \A a \in DOMAIN I.args : I.args[a] = <<I.args[a][1], I.args[a][2]>>
        /\ 1..2 \subseteq DOMAIN I.args /\ p < N
    <3>1. /\ \A a \in DOMAIN I.args : I.args[a] = <<I.args[a][1], I.args[a][2]>>
          /\ I.op # Call => 1..Arity(I.op) \subseteq DOMAIN I.args
          /\ I.op \notin {"ret", "br"} => p < N
      BY <1>5 DEF Flow, I, N
    <3> QED
      BY <3>1, <1>4 DEF Plain, Arity
  <2>2. t < Len(c)
    BY <2>1, <1>5
  <2>3. CASE t = p
    <3>1. /\ c[p].op = I.op /\ DOMAIN c[p].args = DOMAIN I.args
          /\ \A a \in DOMAIN I.args : c[p].args[a] = I.args[a]
      BY <1>3 DEF ChainIn, p, I
    <3> QED
      BY <2>1, <2>2, <2>3, <3>1, <1>4 DEF Plain, Arity
  <2>4. CASE t # p
    <3> DEFINE x == t - p
    <3>1. x \in 1..3 * K /\ t = p + x
      BY <2>4, <1>5
    <3> HIDE DEF x
    <3>2. PICK k \in 1..K : x = 3 * (k - 1) + 1 \/ x = 3 * (k - 1) + 2 \/ x = 3 * (k - 1) + 3
      BY <3>1, <1>5, PlaceInTriples
    <3> DEFINE z == p + 3 * (k - 1)
               base == N + 3 * (k - 1)
               prev == Cur(N, g, k - 1)
    <3>3. LinkAt(c, z, base, made[k].id, prev) /\ c[z + 1].args = I.args
      BY <1>3 DEF ChainIn, p, I, N
    <3>4. t = z + 1 \/ t = z + 2 \/ t = z + 3
      <4>1. p \in Nat /\ k \in Nat
        BY <1>5
      <4> QED
        BY ONLY <4>1, <3>1, <3>2
    <3> HIDE DEF z, base, prev
    <3>5. CASE t = z + 1
      BY <3>3, <3>5, <2>1, <2>2 DEF LinkAt, Plain, Arity
    <3>6. CASE t = z + 2
      <4>1. c[t].op = Call /\ c[t].args = <<<<"int", made[k].id>>>>
        BY <3>3, <3>6 DEF LinkAt, AsksFor
      <4>2. \A a \in DOMAIN c[t].args : c[t].args[a] = <<c[t].args[a][1], c[t].args[a][2]>>
        <5> HIDE DEF K
        <5>1. \A a \in DOMAIN c[t].args : a = 1
          BY <4>1
        <5>2. c[t].args[1] = <<"int", made[k].id>>
          BY <4>1
        <5> QED
          BY <5>1, <5>2
      <4> QED
        BY <4>1, <4>2, <2>2 DEF Call
    <3>7. CASE t = z + 3
      <4>1. c[t].op = "select" /\ c[t].args = <<Val(base + 2), Val(base + 1), Val(prev)>>
        BY <3>3, <3>7 DEF LinkAt
      <4>2. \A a \in DOMAIN c[t].args : a \in 1..3 /\ c[t].args[a] = <<c[t].args[a][1], c[t].args[a][2]>>
        BY <4>1 DEF Val
      <4>3. 1..3 \subseteq DOMAIN c[t].args
        BY <4>1
      <4> QED
        BY <4>1, <4>2, <4>3, <2>2 DEF Arity
    <3> QED
      BY <3>4, <3>5, <3>6, <3>7
  <2> QED
    BY <2>3, <2>4
<1>12. Flow(c)
  BY <1>10, <1>11, GrownFlows
<1>13. Holds(b, c)
  <2> DEFINE i == At(b, n) + 1
  <2>1. Fits(b, rb, i, ch) /\ Spliced(rb, i, ch, c) /\ \A j \in 1..Len(b) : SameKind(b[j], rb[j])
    BY <1>1, <1>7 DEF ChainPut, N
  <2> HIDE DEF i
  <2> QED
    BY <2>1, SplicedHolds
<1> QED
  BY <1>3, <1>10, <1>12, <1>13

\* The growth that the choice of a constant is.
SelectGrowth(b, n, id) == [at |-> At(b, n), name |-> n, to |-> n, more |-> 2, ids |-> {id}]

\* The call and the select in c, and the site, which uses the select.
SelectIn(b, c, g, oi, id, MutC) ==
  /\ AsksFor(c[g.at], id) /\ c[g.at].name = Len(b) + 1
  /\ c[g.at + 1].op = "select" /\ c[g.at + 1].name = Len(b) + 2
  /\ c[g.at + 1].args = <<Val(Len(b) + 1), MutC, b[g.at].args[oi]>>
  /\ c[g.at + 2].name = g.name /\ c[g.at + 2].op = b[g.at].op
  /\ oi \in DOMAIN b[g.at].args /\ DOMAIN c[g.at + 2].args = DOMAIN b[g.at].args
  /\ \A a \in DOMAIN b[g.at].args :
       c[g.at + 2].args[a] = IF a = oi THEN Val(Len(b) + 2) ELSE b[g.at].args[a]

\* Where things are in c.
SelectPlaces(b, c, g, rb, new) ==
  /\ Len(b) \in Nat /\ g.at \in 1..Len(b) /\ g.more = 2 /\ Len(c) = Len(b) + 2
  /\ b[g.at].name = g.name /\ IsInstruction(b[g.at])
  /\ \A j \in 1..Len(b) : j # g.at => Put(g, j) \in 1..Len(c) /\ c[Put(g, j)] = rb[j]
  /\ c[g.at] = new[1] /\ c[g.at + 1] = new[2] /\ c[g.at + 2] = rb[g.at]

\* Where d new instructions, and the others, are.
SplicedAt(b, rb, i, new, c, d) ==
  /\ Len(c) = Len(b) + d
  /\ \A j \in 1..Len(b) : Place(i, d, j) \in 1..Len(c) /\ c[Place(i, d, j)] = rb[j]
  /\ \A x \in 1..d : c[i - 1 + x] = new[x]

LEMMA SplicedHas ==
  ASSUME NEW b, Layout(b), NEW rb, NEW new, NEW i, Fits(b, rb, i, new),
         NEW c, Spliced(rb, i, new, c)
  PROVE  SplicedAt(b, rb, i, new, c, Len(new))
  BY SplicedPlaces DEF SplicedAt

LEMMA SelectIsPut ==
  ASSUME NEW b, Layout(b), NEW n \in 1..Len(b), NEW c, NEW oi, NEW id, NEW MutC, NEW rb, NEW new,
         SelectPut(b, c, n, oi, id, MutC, rb, new), NEW g, g = SelectGrowth(b, n, id)
  PROVE  SelectPlaces(b, c, g, rb, new)
<1> DEFINE p == At(b, n)
<1>1. g.at = p /\ g.name = n /\ g.more = 2
  BY DEF SelectGrowth
<1>2. p \in 1..Len(b) /\ b[p].name = n /\ Len(b) \in Nat /\ IsInstruction(b[p])
  BY AtIs DEF Named, Layout, IsList
<1>3. Fits(b, rb, p, new) /\ Spliced(rb, p, new, c) /\ Len(new) = 2
  BY DEF SelectPut
<1> HIDE DEF p
<1>4. /\ Len(c) = Len(b) + 2
      /\ \A j \in 1..Len(b) : Place(p, 2, j) \in 1..Len(c) /\ c[Place(p, 2, j)] = rb[j]
      /\ \A x \in 1..2 : c[p - 1 + x] = new[x]
  <2>1. SplicedAt(b, rb, p, new, c, Len(new))
    BY <1>3, SplicedHas
  <2> QED
    BY <2>1, <1>3 DEF SplicedAt
<1>5. \A j \in 1..Len(b) : j # p => Put(g, j) = Place(p, 2, j)
  BY <1>1, <1>2 DEF Put, Place
<1>6. Place(p, 2, p) = p + 2 /\ p - 1 + 1 = p /\ p - 1 + 2 = p + 1 /\ 1 \in 1..2 /\ 2 \in 1..2
  BY <1>2 DEF Place
<1>7. c[p] = new[1] /\ c[p + 1] = new[2] /\ c[p + 2] = rb[p]
  BY <1>2, <1>4, <1>6
<1> QED
  BY <1>1, <1>2, <1>4, <1>5, <1>7 DEF SelectPlaces

\* What stands for the site, in its block.
SelectStands(b, c, g, oi, id, MutC, rb) ==
  /\ SelectIn(b, c, g, oi, id, MutC)
  /\ \A t \in g.at..g.at + g.more : c[t].blk = b[g.at].blk
  /\ SameKind(b[g.at], rb[g.at])

\* What Selected puts in is what it should be.
LEMMA SelectInIs ==
  ASSUME NEW b, Layout(b), NEW n \in 1..Len(b), NEW c,
         NEW oi, oi \in DOMAIN Ins(b, n).args, NEW id, NEW MutC, NEW rb, NEW new,
         SelectPut(b, c, n, oi, id, MutC, rb, new), NEW g, g = SelectGrowth(b, n, id)
  PROVE  SelectStands(b, c, g, oi, id, MutC, rb)
<1> DEFINE p == g.at
           I == b[p]
           N == Len(b)
           o1 == <<<<"int", id>>>>
           o2 == <<Val(N + 1), MutC, I.args[oi]>>
           w == [I.args EXCEPT ![oi] = Val(N + 2)]
<1>1. p = At(b, n) /\ g.name = n /\ Ins(b, n) = I
  BY DEF SelectGrowth, Ins
<1>2. SelectPlaces(b, c, g, rb, new)
  BY SelectIsPut
<1>3. /\ new[1] = New(I, N + 1, Call, o1) /\ new[2] = New(I, N + 2, "select", o2)
      /\ rb[p] = [I EXCEPT !.args = w]
  BY <1>1 DEF SelectPut
<1>4. /\ p \in 1..N /\ g.more = 2 /\ I.name = n /\ IsInstruction(I)
      /\ c[p] = new[1] /\ c[p + 1] = new[2] /\ c[p + 2] = rb[p] /\ N \in Nat
  BY <1>1, <1>2 DEF SelectPlaces
<1>5. DOMAIN w = DOMAIN I.args /\ \A a \in DOMAIN I.args : w[a] = IF a = oi THEN Val(N + 2) ELSE I.args[a]
  OBVIOUS
<1> HIDE DEF o1, o2, w, I, p
<1>6. c[p].name = N + 1 /\ c[p].op = Call /\ c[p].args = o1 /\ c[p].blk = I.blk
  BY <1>3, <1>4, NewHas
<1>7. c[p + 1].name = N + 2 /\ c[p + 1].op = "select" /\ c[p + 1].args = o2 /\ c[p + 1].blk = I.blk
  BY <1>3, <1>4, NewHas
<1>8. /\ c[p + 2].name = n /\ c[p + 2].op = I.op /\ c[p + 2].args = w /\ c[p + 2].blk = I.blk
      /\ rb[p] = c[p + 2] /\ c[p + 2].ty = I.ty
  BY <1>3, <1>4 DEF IsInstruction, Fields
<1>9. AsksFor(c[p], id)
  BY <1>6 DEF AsksFor, o1
<1>10. oi \in DOMAIN I.args
  BY <1>1
<1>11. SelectIn(b, c, g, oi, id, MutC)
  <2>1. c[p + 1].args = <<Val(N + 1), MutC, I.args[oi]>>
    BY <1>7 DEF o2
  <2> QED
    BY <1>1, <1>5, <1>6, <1>7, <1>8, <1>9, <1>10, <2>1 DEF SelectIn, p, I
<1>12. SameKind(I, rb[p])
  BY <1>5, <1>8 DEF SameKind
<1>13. \A t \in p..p + g.more : c[t].blk = I.blk
  <2>1. \A t \in p..p + g.more : t = p \/ t = p + 1 \/ t = p + 2
    BY <1>4
  <2> QED
    BY <2>1, <1>6, <1>7, <1>8
<1> QED
  BY <1>11, <1>12, <1>13 DEF p, I, SelectStands

\* The choice of a constant is a growth.
LEMMA SelectGrows ==
  ASSUME NEW b, Layout(b), CallsHaveIds(b), Flow(b), NEW n \in 1..Len(b),
         Plain(Ins(b, n).op) \/ Ins(b, n).op = "ret", NEW oi, oi \in DOMAIN Ins(b, n).args, NEW id,
         NEW MutC, MutC = <<"int", MutC[2]>>,
         NEW c, c = Selected(b, Ins(b, n), oi, id, Ins(b, n).args[oi], MutC),
         NEW g, g = SelectGrowth(b, n, id)
  PROVE  Grown(b, c, g) /\ Flow(c) /\ Holds(b, c) /\ SelectIn(b, c, g, oi, id, MutC)
<1> DEFINE N == Len(b)
           p == g.at
           I == b[p]
<1>1. MutC[1] # "val" /\ Ins(b, n).op # Call
  BY DEF Plain, Call
<1>2. PICK rb, new : SelectPut(b, c, n, oi, id, MutC, rb, new)
  BY <1>1, SelectedIs
<1>3. SelectPlaces(b, c, g, rb, new)
  BY <1>2, SelectIsPut
<1>4. /\ SelectIn(b, c, g, oi, id, MutC)
      /\ \A t \in p..p + g.more : c[t].blk = I.blk
      /\ SameKind(I, rb[p])
  <2> HIDE DEF p, I, N
  <2>1. /\ Layout(b) /\ n \in 1..Len(b) /\ oi \in DOMAIN Ins(b, n).args
        /\ SelectPut(b, c, n, oi, id, MutC, rb, new) /\ g = SelectGrowth(b, n, id)
    BY <1>2
  <2>2. SelectStands(b, c, g, oi, id, MutC, rb)
    BY ONLY <2>1, SelectInIs
  <2> QED
    BY <2>2 DEF p, I, SelectStands
<1>5. /\ g.name = n /\ g.to = n /\ p = At(b, n) /\ (Plain(I.op) \/ I.op = "ret")
  BY DEF SelectGrowth, Ins
<1>6. /\ N \in Nat /\ p \in 1..N /\ g.more = 2 /\ Len(c) = N + 2 /\ I.name = g.name
      /\ \A j \in 1..N : j # p => Put(g, j) \in 1..Len(c) /\ c[Put(g, j)] = rb[j]
  BY <1>3 DEF SelectPlaces
<1>7. Layout(c) /\ CallsHaveIds(c)
  <2>1. \E d : d >= 1 /\
           Instrumented(b, Selected(b, Ins(b, n), oi, id, Ins(b, n).args[oi], MutC), At(b, n), d, {id})
    BY <1>1, SelectedDoes
  <2> QED
    BY <2>1 DEF Instrumented, Moved
<1>8. \A j \in 1..N : j # p => rb[j] = b[j]
  BY <1>2, <1>5 DEF SelectPut
<1> HIDE DEF I, p, N
<1>9. Widened(b, c, g)
  <2>1. g.more \in Nat
    BY <1>6
  <2> QED
    BY <1>4, <1>6, <1>8, <2>1 DEF Widened, p, N, I
<1>10. ASSUME NEW j \in 1..N, j # p
       PROVE  /\ c[Put(g, j)].name = b[j].name /\ c[Put(g, j)].op = b[j].op
              /\ DOMAIN c[Put(g, j)].args = DOMAIN b[j].args
              /\ \A a \in DOMAIN b[j].args : c[Put(g, j)].args[a] = Renamed(g, b[j].args[a])
  <2>1. c[Put(g, j)] = b[j]
    BY <1>6, <1>8, <1>10
  <2>2. \A o : Renamed(g, o) = o
    BY <1>5 DEF Renamed
  <2> QED
    BY <2>1, <2>2
<1>11. Grown(b, c, g)
  <2>1. g.to \in 1..Len(c) /\ g.to = g.name
    BY <1>5, <1>6 DEF N
  <2> QED
    BY <1>6, <1>7, <1>9, <1>10, <2>1 DEF Grown, N, p, I
<1>12. GroupFlows(c, g)
  <2> SUFFICES ASSUME NEW t \in p..p + g.more
               PROVE
    /\ \A a \in DOMAIN c[t].args : c[t].args[a] = <<c[t].args[a][1], c[t].args[a][2]>>
    /\ c[t].op # Call => 1..Arity(c[t].op) \subseteq DOMAIN c[t].args
    /\ c[t].op # "br" /\ (c[t].op # "ret" => t < Len(c))
    BY DEF GroupFlows, p
  <2>1. /\ \A a \in DOMAIN I.args : I.args[a] = <<I.args[a][1], I.args[a][2]>>
        /\ I.op # Call => 1..Arity(I.op) \subseteq DOMAIN I.args
        /\ I.op \notin {"ret", "br"} => p < N
    BY <1>6 DEF Flow, I, N
  <2>2. /\ AsksFor(c[p], id) /\ c[p + 1].op = "select"
        /\ c[p + 1].args = <<Val(N + 1), MutC, I.args[oi]>>
        /\ c[p + 2].op = I.op /\ oi \in DOMAIN I.args /\ DOMAIN c[p + 2].args = DOMAIN I.args
        /\ \A a \in DOMAIN I.args :
             c[p + 2].args[a] = IF a = oi THEN Val(N + 2) ELSE I.args[a]
    BY Zenon, <1>4 DEF SelectIn, p, I, N
  <2>3. t = p \/ t = p + 1 \/ t = p + 2
    BY <1>6
  <2>4. CASE t = p
    <3>1. c[t].op = Call /\ c[t].args = <<<<"int", id>>>>
      BY <2>2, <2>4 DEF AsksFor
    <3>2. \A a \in DOMAIN c[t].args : a = 1
      BY <3>1
    <3>3. c[t].args[1] = <<"int", id>>
      BY <3>1
    <3>4. t < Len(c)
      BY <2>4, <1>6
    <3> QED
      BY SMTT(30), <3>1, <3>2, <3>3, <3>4 DEF Call
  <2>5. CASE t = p + 1
    <3> DEFINE o == I.args[oi]
    <3>1. c[t].op = "select" /\ c[t].args = <<Val(N + 1), MutC, o>> /\ o = <<o[1], o[2]>>
      BY <2>1, <2>2, <2>5
    <3>2. Val(N + 1) = <<Val(N + 1)[1], Val(N + 1)[2]>> /\ MutC = <<MutC[1], MutC[2]>>
      BY DEF Val
    <3> DEFINE u == Val(N + 1)
    <3> HIDE DEF o, u
    <3>3. \A a \in DOMAIN c[t].args : a = 1 \/ a = 2 \/ a = 3
      BY <3>1
    <3>4. c[t].args[1] = u /\ c[t].args[2] = MutC /\ c[t].args[3] = o /\ 1..3 \subseteq DOMAIN c[t].args
      BY <3>1 DEF u
    <3>5. u = <<u[1], u[2]>>
      BY <3>2 DEF u
    <3>6. \A a \in DOMAIN c[t].args : c[t].args[a] = <<c[t].args[a][1], c[t].args[a][2]>>
      BY ONLY <3>1, <3>2, <3>3, <3>4, <3>5
    <3>7. t < Len(c)
      BY SMTT(30), <2>5, <1>6
    <3> QED
      BY SMTT(30), <3>1, <3>4, <3>6, <3>7 DEF Arity
  <2>6. CASE t = p + 2
    <3>1. /\ c[t].op = I.op /\ DOMAIN c[t].args = DOMAIN I.args
          /\ \A a \in DOMAIN I.args : c[t].args[a] = IF a = oi THEN Val(N + 2) ELSE I.args[a]
      BY <2>2, <2>6
    <3>2. Val(N + 2) = <<Val(N + 2)[1], Val(N + 2)[2]>>
      BY DEF Val
    <3>3. \A a \in DOMAIN c[t].args : c[t].args[a] = <<c[t].args[a][1], c[t].args[a][2]>>
      <4> DEFINE u == Val(N + 2)
      <4>1. u = <<u[1], u[2]>>
        BY <3>2
      <4>2. \A a \in DOMAIN I.args : c[t].args[a] = u \/ c[t].args[a] = I.args[a]
        BY <3>1
      <4> HIDE DEF u
      <4> QED
        BY <4>1, <4>2, <3>1, <2>1
    <3>4. c[t].op # Call => 1..Arity(c[t].op) \subseteq DOMAIN c[t].args
      BY <3>1, <2>1
    <3>5. c[t].op # "br" /\ (c[t].op # "ret" => t < Len(c))
      <4>1. I.op # "br"
        BY <1>5 DEF Plain
      <4>2. I.op # "ret" => p < N
        BY <2>1, <4>1
      <4> QED
        BY <4>1, <4>2, <3>1, <2>6, <1>6
    <3> QED
      BY <3>3, <3>4, <3>5
  <2> QED
    BY ZenonT(30), <2>3, <2>4, <2>5, <2>6
<1>13. Flow(c)
  BY <1>11, <1>12, GrownFlows
<1>14. Holds(b, c)
  <2>1. Fits(b, rb, At(b, n), new) /\ Spliced(rb, At(b, n), new, c)
    BY <1>2 DEF SelectPut
  <2>2. \A j \in 1..Len(b) : SameKind(b[j], rb[j])
    BY <1>4, <1>8 DEF SameKind, I, N
  <2> QED
    BY <2>1, <2>2, SplicedHolds
<1> QED
  BY <1>4, <1>11, <1>13, <1>14
-----------------------------------------------------------------------------
(* What is put in, when an instruction of the source is another *)

\* g is the growth of a chain for made.
ChainSize(n, g, made) ==
  /\ Len(made) \in Nat \ {0} /\ g.more = 3 * Len(made) /\ g.to = n + 3 * Len(made)
  /\ g.ids = FirstIds(made, Len(made))

\* A link is what it was, if no instruction made for a mutant is changed.
LEMMA LinkStays ==
  ASSUME NEW c, NEW cc, NEW e, Alter(c, cc, e), NEW n \in Nat, e.name \in 0..n,
         NEW p \in Nat, NEW base \in Nat, n <= base, p + 3 <= Len(c), Len(c) \in Nat,
         NEW id, NEW prev, LinkAt(c, p, base, id, prev)
  PROVE  LinkAt(cc, p, base, id, prev)
<1> DEFINE p1 == p + 1
           p2 == p + 2
           p3 == p + 3
<1>1. p1 \in 1..Len(c) /\ p2 \in 1..Len(c) /\ p3 \in 1..Len(c)
  OBVIOUS
<1>2. c[p1].name = base + 1 /\ c[p2].name = base + 2 /\ c[p3].name = base + 3
  BY DEF LinkAt
<1>3. base + 1 # e.name /\ base + 2 # e.name /\ base + 3 # e.name
  OBVIOUS
<1> HIDE DEF p1, p2, p3
<1>4. cc[p1] = c[p1] /\ cc[p2] = c[p2] /\ cc[p3] = c[p3]
  BY <1>1, <1>2, <1>3 DEF Alter
<1> QED
  BY <1>4 DEF LinkAt, p1, p2, p3

\* All the links of a chain are what they were.
LEMMA ChainStays ==
  ASSUME NEW b, NEW c, NEW g, Grown(b, c, g), NEW alts, NEW made, ChainIn(b, c, g, alts, made),
         ChainSize(Len(b), g, made), NEW e, NEW cc, Alter(c, cc, e), e.name \in 0..Len(b)
  PROVE  \A k \in 1..Len(made) :
           LinkAt(cc, g.at + 3 * (k - 1), Len(b) + 3 * (k - 1), made[k].id, Cur(Len(b), g, k - 1))
<1> SUFFICES ASSUME NEW k \in 1..Len(made)
             PROVE  LinkAt(cc, g.at + 3 * (k - 1), Len(b) + 3 * (k - 1), made[k].id,
                           Cur(Len(b), g, k - 1))
  OBVIOUS
<1> DEFINE n == Len(b)
           p == g.at + 3 * (k - 1)
           base == n + 3 * (k - 1)
           id == made[k].id
           prev == Cur(n, g, k - 1)
<1>1. n \in Nat /\ g.at \in 1..n /\ Len(c) = n + g.more
  BY PutIs DEF Grown
<1>2. /\ p \in Nat /\ base \in Nat /\ n <= base /\ p + 3 <= Len(c) /\ Len(c) \in Nat
  <2>1. g.more = 3 * Len(made) /\ Len(made) \in Nat
    BY DEF ChainSize
  <2> HIDE DEF n
  <2> QED
    BY <1>1, <2>1
<1>3. LinkAt(c, p, base, id, prev)
  BY DEF ChainIn
<1> HIDE DEF p, base, id, prev
<1>4. LinkAt(cc, p, base, id, prev)
  <2> HIDE DEF n
  <2> QED
    BY <1>1, <1>2, <1>3, LinkStays DEF n
<1> QED
  BY <1>4 DEF p, base, id, prev

\* With no mutant of the chain active, the site gives what it gives, changed or not.
LEMMA ChainAltered ==
  ASSUME NEW b, NEW c, NEW g, Grown(b, c, g), NEW alts, NEW made, ChainIn(b, c, g, alts, made),
         ChainSize(Len(b), g, made), Plain(b[g.at].op),
         NEW e, ValidEdit(b, e), ValidEdit(c, e), e.name \in 0..Len(b),
         NEW bb, Alter(b, bb, e), NEW cc, Alter(c, cc, e),
         NEW on, \A k \in 1..Len(made) : made[k].id # on
  PROVE  ChainGroup(bb, cc, g, made, 0, on)
<1> DEFINE n == Len(b)
           p == g.at
<1>1. n \in Nat /\ p \in 1..n /\ Len(c) = n + g.more /\ p \in 1..Len(c) /\ Len(bb) = n
      /\ b[p].name = g.name
  <2>1. n \in Nat /\ p \in 1..n /\ Len(c) = n + g.more /\ g.more \in Nat
    BY PutIs DEF Grown
  <2> QED
    BY <2>1 DEF Grown, Alter
<1>2. /\ c[p].name = g.name /\ c[p].op = b[p].op
      /\ DOMAIN c[p].args = DOMAIN b[p].args
      /\ \A a \in DOMAIN b[p].args : c[p].args[a] = b[p].args[a]
  BY DEF ChainIn
<1>3. \A k \in 1..Len(made) :
        LinkAt(cc, p + 3 * (k - 1), n + 3 * (k - 1), made[k].id, Cur(n, g, k - 1))
  BY ChainStays
<1>4. /\ bb[p].name = b[p].name /\ DOMAIN bb[p].args = DOMAIN b[p].args
      /\ Plain(bb[p].op)
  BY <1>1, AlterKeeps DEF Grown
<1> HIDE DEF n, p
<1>5. cc[p].name = g.name /\ cc[p].op = bb[p].op
      /\ \A a \in DOMAIN bb[p].args : cc[p].args[a] = bb[p].args[a]
  <2>1. CASE g.name = e.name
    <3>1. Alters(b[p], bb[p], e) /\ Alters(c[p], cc[p], e)
      BY <1>1, <1>2, <2>1 DEF Alter, n
    <3> QED
      BY <3>1, <1>2, <1>4 DEF Alters
  <2>2. CASE g.name # e.name
    <3>1. bb[p] = b[p] /\ cc[p] = c[p]
      BY <1>1, <1>2, <2>2 DEF Alter, n
    <3> QED
      BY <3>1, <1>2
  <2> QED
    BY <2>1, <2>2
<1>6. ChosenAt(g, 0) = p
  BY DEF ChosenAt, p
<1>7. Len(made) \in Nat \ {0} /\ 0 \in 0..Len(made) /\ \A k \in 1..Len(made) : made[k].id = on <=> k = 0
  BY DEF ChainSize
<1>8. Len(bb) = n
  BY <1>1
<1>9. g.more = 3 * Len(made) /\ g.to = n + 3 * Len(made) /\ g.ids = FirstIds(made, Len(made))
  BY DEF ChainSize, n
<1> QED
  BY <1>3, <1>4, <1>5, <1>6, <1>7, <1>8, <1>9 DEF ChainGroup, p

\* With one mutant of the chain active, the site gives what its alternative gives.
LEMMA ChainChosen ==
  ASSUME NEW b, NEW c, NEW g, Grown(b, c, g), NEW alts, NEW made, ChainIn(b, c, g, alts, made),
         ChainSize(Len(b), g, made), Plain(b[g.at].op),
         NEW e, ValidEdit(b, e), e.name = g.name, e.oi = 0, NEW q \in 1..Len(made), e.op = alts[q],
         NEW bb, Alter(b, bb, e),
         NEW on, \A k \in 1..Len(made) : made[k].id = on <=> k = q
  PROVE  ChainGroup(bb, c, g, made, q, on)
<1> DEFINE n == Len(b)
           p == g.at
<1>1. n \in Nat /\ p \in 1..n /\ Len(bb) = n /\ b[p].name = g.name
  <2>1. n \in Nat /\ p \in 1..n
    BY PutIs DEF Grown
  <2> QED
    BY <2>1 DEF Grown, Alter
<1>2. Plain(bb[p].op)
  BY <1>1, AlterKeeps DEF Grown
<1>3. Alters(b[p], bb[p], e)
  BY <1>1 DEF Alter
<1>4. bb[p].op = alts[q] /\ DOMAIN bb[p].args = DOMAIN b[p].args
      /\ \A a \in DOMAIN b[p].args : bb[p].args[a] = b[p].args[a]
  BY <1>3 DEF Alters
<1>5. c[p].name = g.name /\ c[p].op = b[p].op
  BY DEF ChainIn
<1>6. \A k \in 1..Len(made) :
        LinkAt(c, p + 3 * (k - 1), n + 3 * (k - 1), made[k].id, Cur(n, g, k - 1))
  BY DEF ChainIn
<1>7. c[p + 3 * (q - 1) + 1].op = alts[q] /\ c[p + 3 * (q - 1) + 1].args = b[p].args
  BY DEF ChainIn
<1>8. Len(made) \in Nat \ {0} /\ q \in 0..Len(made) /\ q # 0
  BY DEF ChainSize
<1>9. ChosenAt(g, q) = p + 3 * (q - 1) + 1
  BY <1>8 DEF ChosenAt
<1>10. g.more = 3 * Len(made) /\ g.to = n + 3 * Len(made) /\ g.ids = FirstIds(made, Len(made))
  BY DEF ChainSize
<1> DEFINE z == p + 3 * (q - 1) + 1
<1> HIDE DEF n, p, z
<1>11. c[ChosenAt(g, q)].op = bb[p].op
       /\ \A a \in DOMAIN bb[p].args : c[ChosenAt(g, q)].args[a] = bb[p].args[a]
  BY SMTT(30), <1>4, <1>7, <1>9
<1> QED
  BY <1>1, <1>2, <1>5, <1>6, <1>8, <1>10, <1>11 DEF ChainGroup, p

\* g is the growth of a choice for id.
SelectSize(g, id) == g.more = 2 /\ g.to = g.name /\ g.ids = {id}

\* Without the mutant the site of c uses what that of b uses, changed or not.
LEMMA SelectAltered ==
  ASSUME NEW b, NEW c, NEW g, Grown(b, c, g), NEW oi, NEW id, NEW x, SelectIn(b, c, g, oi, id, x),
         SelectSize(g, id), Plain(b[g.at].op) \/ b[g.at].op = "ret",
         NEW e, ValidEdit(b, e), ValidEdit(c, e), e.name \in 0..Len(b),
         NEW bb, Alter(b, bb, e), NEW cc, Alter(c, cc, e), NEW on, id # on
  PROVE  SelectGroup(bb, cc, g, id, x, b[g.at].args[oi], on)
<1> DEFINE n == Len(b)
           p == g.at
           p1 == p + 1
           p2 == p + 2
           y == b[p].args[oi]
<1>1. /\ n \in Nat /\ p \in 1..n /\ Len(c) = n + 2 /\ Len(bb) = n /\ b[p].name = g.name
      /\ g.name \in 1..n
  <2>1. n \in Nat /\ p \in 1..n /\ Len(c) = n + g.more
    BY PutIs DEF Grown
  <2> QED
    BY <2>1 DEF Grown, Alter, SelectSize, Layout
<1>2. p \in 1..Len(c) /\ p1 \in 1..Len(c) /\ p2 \in 1..Len(c)
  BY <1>1
<1>3. /\ AsksFor(c[p], id) /\ c[p].name = n + 1 /\ c[p1].op = "select" /\ c[p1].name = n + 2
      /\ c[p1].args = <<Val(n + 1), x, y>>
      /\ c[p2].name = g.name /\ c[p2].op = b[p].op
      /\ oi \in DOMAIN b[p].args /\ DOMAIN c[p2].args = DOMAIN b[p].args
      /\ \A a \in DOMAIN b[p].args : c[p2].args[a] = IF a = oi THEN Val(n + 2) ELSE b[p].args[a]
  BY DEF SelectIn
<1>4. n + 1 # e.name /\ n + 2 # e.name
  BY <1>1
<1>5. /\ bb[p].name = b[p].name /\ DOMAIN bb[p].args = DOMAIN b[p].args
      /\ Plain(bb[p].op) \/ bb[p].op = "ret"
  <2>1. Layout(b) /\ p \in 1..Len(b) /\ (Plain(b[p].op) \/ b[p].op = "ret")
    BY <1>1 DEF Grown
  <2>2. /\ bb[p].name = b[p].name /\ DOMAIN bb[p].args = DOMAIN b[p].args
        /\ Plain(b[p].op) => Plain(bb[p].op)
        /\ ~Plain(b[p].op) => bb[p].op = b[p].op
    <3> HIDE DEF p
    <3> QED
      BY <2>1, AlterKeeps
  <2> QED
    BY <2>1, <2>2
<1> HIDE DEF n, p, p1, p2, y
<1>6. cc[p] = c[p] /\ cc[p1] = c[p1]
  BY <1>2, <1>3, <1>4 DEF Alter
<1>7. /\ cc[p2].name = g.name /\ cc[p2].op = bb[p].op
      /\ \A a \in DOMAIN bb[p].args :
           cc[p2].args[a] = bb[p].args[a] \/ (cc[p2].args[a] = Val(n + 2) /\ bb[p].args[a] = y)
  <2>1. CASE g.name = e.name
    <3>1. Alters(b[p], bb[p], e) /\ Alters(c[p2], cc[p2], e)
      BY <1>1, <1>2, <1>3, <2>1 DEF Alter, n
    <3>2. cc[p2].name = g.name /\ cc[p2].op = bb[p].op
      BY <3>1, <1>3 DEF Alters
    <3>3. ASSUME NEW a \in DOMAIN bb[p].args
          PROVE  cc[p2].args[a] = bb[p].args[a] \/ (cc[p2].args[a] = Val(n + 2) /\ bb[p].args[a] = y)
      <4>1. /\ bb[p].args[a] = IF e.oi # 0 /\ a = e.oi THEN e.lit ELSE b[p].args[a]
            /\ cc[p2].args[a] = IF e.oi # 0 /\ a = e.oi THEN e.lit ELSE c[p2].args[a]
            /\ c[p2].args[a] = IF a = oi THEN Val(n + 2) ELSE b[p].args[a]
        BY <3>1, <1>3, <1>5 DEF Alters
      <4> QED
        BY <4>1 DEF y
    <3> QED
      BY <3>2, <3>3
  <2>2. CASE g.name # e.name
    <3>1. bb[p] = b[p] /\ cc[p2] = c[p2]
      BY <1>1, <1>2, <1>3, <2>2 DEF Alter, n
    <3>2. \A a \in DOMAIN b[p].args : a = oi => b[p].args[a] = y
      BY DEF y
    <3> QED
      BY <3>1, <3>2, <1>3
  <2> QED
    BY <2>1, <2>2
<1>8. Len(bb) = n
  BY <1>1
<1> QED
  BY <1>3, <1>5, <1>6, <1>7, <1>8 DEF SelectGroup, SelectSize, p, p1, p2, y

\* With the mutant the site of c uses the other constant.
LEMMA SelectChosen ==
  ASSUME NEW b, NEW c, NEW g, Grown(b, c, g), NEW oi, NEW id, NEW x, SelectIn(b, c, g, oi, id, x),
         SelectSize(g, id), Plain(b[g.at].op) \/ b[g.at].op = "ret",
         NEW e, ValidEdit(b, e), e.name = g.name, e.oi = oi, oi # 0, e.lit = x,
         NEW bb, Alter(b, bb, e)
  PROVE  SelectGroup(bb, c, g, id, x, b[g.at].args[oi], id)
<1> DEFINE n == Len(b)
           p == g.at
           p2 == p + 2
           y == b[p].args[oi]
<1>1. n \in Nat /\ p \in 1..n /\ Len(bb) = n /\ b[p].name = g.name
  <2>1. n \in Nat /\ p \in 1..n
    BY PutIs DEF Grown
  <2> QED
    BY <2>1 DEF Grown, Alter
<1>2. /\ AsksFor(c[p], id) /\ c[p].name = n + 1 /\ c[p + 1].op = "select" /\ c[p + 1].name = n + 2
      /\ c[p + 1].args = <<Val(n + 1), x, y>>
      /\ c[p2].name = g.name /\ c[p2].op = b[p].op
      /\ \A a \in DOMAIN b[p].args : c[p2].args[a] = IF a = oi THEN Val(n + 2) ELSE b[p].args[a]
  BY DEF SelectIn
<1>3. Alters(b[p], bb[p], e)
  BY <1>1 DEF Alter
<1>4. /\ bb[p].op = b[p].op /\ DOMAIN bb[p].args = DOMAIN b[p].args
      /\ \A a \in DOMAIN b[p].args : bb[p].args[a] = IF a = oi THEN x ELSE b[p].args[a]
  BY <1>3 DEF Alters
<1> HIDE DEF n, p, p2, y
<1>5. \A a \in DOMAIN bb[p].args :
        c[p2].args[a] = bb[p].args[a] \/ (c[p2].args[a] = Val(n + 2) /\ bb[p].args[a] = x)
  BY <1>2, <1>4
<1>6. Len(bb) = n /\ (Plain(bb[p].op) \/ bb[p].op = "ret") /\ c[p2].op = bb[p].op
  BY <1>1, <1>2, <1>4 DEF p
<1> QED
  BY <1>2, <1>5, <1>6 DEF SelectGroup, SelectSize, p, p2, y
-----------------------------------------------------------------------------
(* What the function computes, and what its source computes *)

\* The ids of the records whose places were executed.
Reached(rs, seen) == {rs[r].id : r \in {j \in 1..Len(rs) : rs[j].at \in seen}}

\* m, the end of a run of the function with the records rs, is like s, that of a run
\* of its source, which has n instructions.
Like(n, rs, m, s) ==
  m.trap # TRUE =>
    /\ s.trap # TRUE /\ m.ret = s.ret /\ m.seen \intersect (1..n) = s.seen
    /\ m.hits = Reached(rs, s.seen)
Ends(m, s) == m.trap # TRUE => s.trap # TRUE /\ m.ret = s.ret

\* The change of the source that a record names.
EditOf(f, r) ==
  LET I == f[r.at]
      alts == ToSet(appendBins(I.op)) \union (IF I.op \in CmpOps THEN ToSet(appendPreds[I.op]) ELSE {})
  IN  [name |-> r.at, oi |-> IF r.kind = "LVR" THEN r.oi ELSE 0,
       lit |-> <<"int", IF r.mut = "0" THEN 0 ELSE 1>>,
       op |-> CHOOSE q \in alts :
                r.mut = IF I.op \in CmpOps THEN predName[q] ELSE binName(q, I.ty)]

\* An edit of f, or none (0 names nothing).
EditFor(f, e) == ValidEdit(f, e) /\ e.name \in 0..Len(f)

\* Whatever one instruction of the source f is changed to: if no mutant of b is
\* active, b with the same change runs like it.
Alike(f, b, rs) ==
  \A e, in, on : EditFor(f, e) /\ on \notin Ids(rs) =>
    Like(Len(f), rs, Exec(Edit(b, e), in, on), Exec(Edit(f, e), in, 0))

\* With one mutant active b ends as the source with its change.
Alone(rs, r) == \A j \in 1..Len(rs) : j # r => rs[j].id # rs[r].id
OneEach(f, b, rs) ==
  \A r \in 1..Len(rs) : Alone(rs, r) =>
    \A in : Ends(Exec(b, in, rs[r].id), Exec(Edit(f, EditOf(f, rs[r])), in, 0))

\* rs2 is rs and then made, all for the place named at.
Gained(rs, rs2, made, at) ==
  /\ Len(rs) \in Nat /\ Len(made) \in Nat /\ Len(rs2) = Len(rs) + Len(made)
  /\ \A r \in 1..Len(rs) : rs2[r] = rs[r]
  /\ \A k \in 1..Len(made) : rs2[Len(rs) + k] = made[k] /\ made[k].at = at

\* c runs like b, for every change and any mutant but the new ones, and with one of
\* these like b with its change.
Turned(f, b, c, g, made) ==
  /\ \A e, in, on : EditFor(f, e) /\ on \notin Ids(made) =>
       AlikeBut(Len(b), g, Exec(Edit(b, e), in, on), Exec(Edit(c, e), in, on))
  /\ \A q \in 1..Len(made) : Alone(made, q) =>
       /\ EditFor(f, EditOf(f, made[q]))
       /\ \A in : AlikeBut(Len(b), g, Exec(Edit(b, EditOf(f, made[q])), in, made[q].id),
                           Exec(c, in, made[q].id))

\* The records that ask, after some have been gained.
LEMMA HitsGrow ==
  ASSUME NEW rs, NEW rs2, NEW made, NEW at, Gained(rs, rs2, made, at), NEW seen
  PROVE  Reached(rs2, seen) = Reached(rs, seen) \union (IF at \in seen THEN Ids(made) ELSE {})
<1> DEFINE n == Len(rs)
           d == Len(made)
           L == {rs2[r].id : r \in {j \in 1..Len(rs2) : rs2[j].at \in seen}}
           A == {rs[r].id : r \in {j \in 1..n : rs[j].at \in seen}}
           B == IF at \in seen THEN Ids(made) ELSE {}
<1>1. /\ n \in Nat /\ d \in Nat /\ Len(rs2) = n + d
      /\ \A r \in 1..n : rs2[r] = rs[r]
      /\ \A k \in 1..d : rs2[n + k] = made[k] /\ made[k].at = at
  BY DEF Gained
<1>2. ASSUME NEW x \in L PROVE x \in A \union B
  <2>1. PICK r \in 1..n + d : rs2[r].at \in seen /\ x = rs2[r].id
    BY <1>1, <1>2
  <2>2. CASE r \in 1..n
    BY <2>1, <2>2, <1>1
  <2>3. CASE r \notin 1..n
    <3>1. PICK k \in 1..d : r = n + k
      <4> DEFINE k == r - n
      <4>1. k \in 1..d /\ r = n + k
        BY <2>3, <1>1
      <4> QED
        BY <4>1
    <3>2. rs2[r] = made[k] /\ made[k].at = at
      BY <3>1, <1>1
    <3>3. at \in seen /\ x \in Ids(made)
      BY <2>1, <3>2 DEF Ids
    <3> QED
      BY <3>3
  <2> QED
    BY <2>2, <2>3
<1>3. ASSUME NEW x \in A PROVE x \in L
  <2>1. PICK r \in 1..n : rs[r].at \in seen /\ x = rs[r].id
    BY <1>3
  <2>2. r \in 1..Len(rs2) /\ rs2[r] = rs[r]
    BY <1>1
  <2> QED
    BY <2>1, <2>2
<1>4. ASSUME NEW x \in B PROVE x \in L
  <2>1. at \in seen /\ x \in Ids(made)
    BY <1>4
  <2>2. PICK k \in 1..d : x = made[k].id
    BY <2>1 DEF Ids
  <2> DEFINE r == n + k
  <2>3. r \in 1..Len(rs2) /\ rs2[r] = made[k] /\ made[k].at = at
    BY <1>1
  <2> HIDE DEF r
  <2> QED
    BY <2>1, <2>2, <2>3
<1> HIDE DEF L, A, B
<1>5. L = A \union B
  BY <1>2, <1>3, <1>4
<1> QED
  BY <1>5 DEF L, A, B, Reached

\* What is like what is like.
LEMMA LikeGrows ==
  ASSUME NEW n \in Nat, NEW k, n <= k, k \in Nat, NEW g, g.name \in 1..n,
         NEW rs, NEW rs2, NEW made, Gained(rs, rs2, made, g.name), g.ids = Ids(made),
         NEW m, NEW w, NEW s, Like(n, rs, m, s), AlikeBut(k, g, m, w)
  PROVE  Like(n, rs2, w, s)
<1> SUFFICES ASSUME w.trap # TRUE
             PROVE  /\ s.trap # TRUE /\ w.ret = s.ret /\ w.seen \intersect (1..n) = s.seen
                    /\ w.hits = Reached(rs2, s.seen)
  BY DEF Like
<1>1. /\ m.trap # TRUE /\ w.ret = m.ret /\ w.seen \intersect (1..k) = m.seen
      /\ w.hits = m.hits \union (IF g.name \in m.seen THEN g.ids ELSE {})
  BY DEF AlikeBut
<1>2. /\ s.trap # TRUE /\ m.ret = s.ret /\ m.seen \intersect (1..n) = s.seen
      /\ m.hits = Reached(rs, s.seen)
  BY <1>1 DEF Like
<1>3. g.name \in m.seen <=> g.name \in s.seen
  BY <1>2
<1>4. w.seen \intersect (1..n) = s.seen
  BY <1>1, <1>2
<1>5. w.hits = Reached(rs2, s.seen)
  <2> DEFINE at == g.name
             seen == s.seen
  <2>1. Gained(rs, rs2, made, at)
    OBVIOUS
  <2> HIDE DEF at, seen
  <2>2. Reached(rs2, seen) = Reached(rs, seen) \union (IF at \in seen THEN Ids(made) ELSE {})
    BY ONLY <2>1, HitsGrow
  <2> QED
    BY <1>1, <1>2, <1>3, <2>2 DEF at, seen
<1> QED
  BY <1>1, <1>2, <1>4, <1>5

\* No edit.
LEMMA NoEdit ==
  ASSUME NEW b, Layout(b), NEW e, e.name = 0
  PROVE  Edit(b, e) = b /\ ValidEdit(b, e)
<1>1. DOMAIN b = 1..Len(b) /\ Len(b) \in Nat
  BY ListIsSeq DEF Layout
<1>2. \A j \in 1..Len(b) : b[j].name # e.name
  BY DEF Layout
<1>3. b = [j \in 1..Len(b) |-> b[j]]
  BY DEF Layout, IsList
<1>4. Edit(b, e) = [j \in 1..Len(b) |-> b[j]]
  BY <1>1, <1>2 DEF Edit
<1> QED
  BY <1>2, <1>3, <1>4 DEF ValidEdit

\* An edit of nothing.
NoChange == [name |-> 0, oi |-> 0, lit |-> <<"int", 0>>, op |-> "Add"]

\* How the function b with the records rs becomes c with the records rs2.
Advanced(f, b, c, g, rs, rs2, made) ==
  /\ Layout(f) /\ Layout(b) /\ Layout(c) /\ Len(f) <= Len(b) /\ g.name \in 1..Len(f)
  /\ g.ids = Ids(made) /\ Gained(rs, rs2, made, g.name) /\ Turned(f, b, c, g, made)

\* The ids of rs2 are those of rs and of made.
LEMMA GainedIds ==
  ASSUME NEW rs, NEW rs2, NEW made, NEW at, Gained(rs, rs2, made, at)
  PROVE  Ids(rs) \subseteq Ids(rs2) /\ Ids(made) \subseteq Ids(rs2)
<1>1. ASSUME NEW x \in Ids(rs) PROVE x \in Ids(rs2)
  <2>1. PICK r \in 1..Len(rs) : x = rs[r].id
    BY DEF Ids
  <2>2. r \in 1..Len(rs2) /\ rs2[r] = rs[r]
    BY DEF Gained
  <2> QED
    BY <2>1, <2>2 DEF Ids
<1>2. ASSUME NEW x \in Ids(made) PROVE x \in Ids(rs2)
  <2>1. PICK k \in 1..Len(made) : x = made[k].id
    BY DEF Ids
  <2> DEFINE r == Len(rs) + k
  <2>2. r \in 1..Len(rs2) /\ rs2[r] = made[k]
    BY DEF Gained
  <2> HIDE DEF r
  <2> QED
    BY <2>1, <2>2 DEF Ids
<1> QED
  BY <1>1, <1>2

\* The function stays like its source.
LEMMA StaysAlike ==
  ASSUME NEW f, NEW b, NEW c, NEW g, NEW rs, NEW rs2, NEW made,
         Advanced(f, b, c, g, rs, rs2, made), Alike(f, b, rs)
  PROVE  Alike(f, c, rs2)
<1> SUFFICES ASSUME NEW e, NEW in, NEW on, EditFor(f, e), on \notin Ids(rs2)
             PROVE  Like(Len(f), rs2, Exec(Edit(c, e), in, on), Exec(Edit(f, e), in, 0))
  BY DEF Alike
<1> DEFINE m == Exec(Edit(b, e), in, on)
           w == Exec(Edit(c, e), in, on)
           s == Exec(Edit(f, e), in, 0)
           n == Len(f)
           k == Len(b)
<1>1. on \notin Ids(rs) /\ on \notin Ids(made)
  BY GainedIds DEF Advanced
<1>2. Like(n, rs, m, s)
  BY <1>1 DEF Alike
<1>3. AlikeBut(k, g, m, w)
  BY <1>1 DEF Advanced, Turned
<1>4. n \in Nat /\ k \in Nat /\ n <= k /\ g.name \in 1..n
  BY DEF Advanced, Layout, IsList
<1>5. Gained(rs, rs2, made, g.name) /\ g.ids = Ids(made)
  BY DEF Advanced
<1> HIDE DEF m, w, s, n, k
<1>6. Like(n, rs2, w, s)
  BY ONLY <1>2, <1>3, <1>4, <1>5, LikeGrows
<1> QED
  BY <1>6 DEF w, s, n

\* Each mutant alone is still its change.
LEMMA StaysOneEach ==
  ASSUME NEW f, NEW b, NEW c, NEW g, NEW rs, NEW rs2, NEW made,
         Advanced(f, b, c, g, rs, rs2, made), Alike(f, b, rs), OneEach(f, b, rs)
  PROVE  OneEach(f, c, rs2)
<1> SUFFICES ASSUME NEW r \in 1..Len(rs2), Alone(rs2, r), NEW in
             PROVE  Ends(Exec(c, in, rs2[r].id), Exec(Edit(f, EditOf(f, rs2[r])), in, 0))
  BY DEF OneEach
<1> DEFINE id == rs2[r].id
<1>1. /\ Len(rs) \in Nat /\ Len(made) \in Nat /\ Len(rs2) = Len(rs) + Len(made)
      /\ \A j \in 1..Len(rs) : rs2[j] = rs[j]
      /\ \A k \in 1..Len(made) : rs2[Len(rs) + k] = made[k]
  BY DEF Advanced, Gained
<1>2. Layout(f) /\ Layout(b) /\ Layout(c)
  BY DEF Advanced
<1>3. CASE r \in 1..Len(rs)
  <2>1. rs2[r] = rs[r]
    BY <1>1, <1>3
  <2>2. Alone(rs, r)
    <3>1. ASSUME NEW j \in 1..Len(rs), j # r PROVE rs[j].id # rs[r].id
      <4>1. j \in 1..Len(rs2) /\ rs2[j] = rs[j]
        BY <1>1
      <4> QED
        BY <4>1, <2>1, <3>1 DEF Alone
    <3> QED
      BY <3>1 DEF Alone
  <2>3. id \notin Ids(made)
    <3> SUFFICES ASSUME NEW k \in 1..Len(made) PROVE made[k].id # id
      BY DEF Ids
    <3>1. Len(rs) + k \in 1..Len(rs2) /\ Len(rs) + k # r /\ rs2[Len(rs) + k] = made[k]
      BY <1>1, <1>3
    <3> QED
      BY <3>1 DEF Alone
  <2> DEFINE m == Exec(b, in, id)
             w == Exec(c, in, id)
             s == Exec(Edit(f, EditOf(f, rs[r])), in, 0)
  <2>4. Ends(m, s)
    BY <2>1, <2>2, <1>3 DEF OneEach
  <2>5. AlikeBut(Len(b), g, m, w)
    <3>1. NoChange.name = 0
      BY DEF NoChange
    <3>2. Edit(b, NoChange) = b /\ Edit(c, NoChange) = c /\ ValidEdit(f, NoChange)
      BY <3>1, <1>2, NoEdit
    <3>3. EditFor(f, NoChange)
      <4>1. 0 \in 0..Len(f)
        BY <1>2 DEF Layout, IsList
      <4> QED
        BY <3>1, <3>2, <4>1 DEF EditFor
    <3>4. AlikeBut(Len(b), g, Exec(Edit(b, NoChange), in, id), Exec(Edit(c, NoChange), in, id))
      BY <2>3, <3>3 DEF Advanced, Turned
    <3> QED
      BY <3>2, <3>4
  <2> HIDE DEF m, w, s
  <2>6. Ends(w, s)
    BY <2>4, <2>5 DEF Ends, AlikeBut
  <2> QED
    BY <2>1, <2>6 DEF w, s
<1>4. CASE r \notin 1..Len(rs)
  <2>1. PICK q \in 1..Len(made) : r = Len(rs) + q
    <3> DEFINE q == r - Len(rs)
    <3>1. q \in 1..Len(made) /\ r = Len(rs) + q
      BY <1>1, <1>4
    <3> QED
      BY <3>1
  <2>2. rs2[r] = made[q]
    BY <1>1, <2>1
  <2>3. Alone(made, q)
    <3> SUFFICES ASSUME NEW j \in 1..Len(made), j # q PROVE made[j].id # made[q].id
      BY DEF Alone
    <3>1. Len(rs) + j \in 1..Len(rs2) /\ Len(rs) + j # r /\ rs2[Len(rs) + j] = made[j]
      BY <1>1, <2>1
    <3> QED
      BY <3>1, <2>2 DEF Alone
  <2>4. id \notin Ids(rs)
    <3> SUFFICES ASSUME NEW j \in 1..Len(rs) PROVE rs[j].id # id
      BY DEF Ids
    <3>1. j \in 1..Len(rs2) /\ j # r /\ rs2[j] = rs[j]
      BY <1>1, <1>4
    <3> QED
      BY <3>1 DEF Alone
  <2> DEFINE e == EditOf(f, made[q])
             m == Exec(Edit(b, e), in, id)
             w == Exec(c, in, id)
             s == Exec(Edit(f, e), in, 0)
  <2>5. EditFor(f, e) /\ AlikeBut(Len(b), g, m, w)
    BY <2>2, <2>3 DEF Advanced, Turned
  <2>6. Like(Len(f), rs, m, s)
    <3> HIDE DEF e
    <3> QED
      BY <2>4, <2>5 DEF Alike
  <2> HIDE DEF e, m, w, s
  <2>7. Ends(w, s)
    BY <2>5, <2>6 DEF Like, Ends, AlikeBut
  <2> QED
    BY <2>2, <2>7 DEF e, w, s
<1> QED
  BY <1>3, <1>4
-----------------------------------------------------------------------------
(* Runs of one function *)

\* A state that a run of a function with n instructions can be in.
Fine(n, m) ==
  /\ IsState(m, n) /\ m.pc \in 0..n /\ m.trap \in BOOLEAN /\ m.seen \subseteq 1..n

\* A step leads to such a state; without a call of the runtime it asks for nothing,
\* and it does not matter which mutant is active.
StepOf(b, args, on, m, s) ==
  /\ Fine(Len(b), s)
  /\ b[m.pc].op # Call => s = Do(b, args, 0, m) /\ s.hits = m.hits

\* A state behind another is fine.
LEMMA AfterFine ==
  ASSUME NEW n \in Nat, NEW m, Fine(n, m), m.pc < n, NEW s, NEW name \in 1..n, NEW value,
         After(n, m, s, name, value)
  PROVE  Fine(n, s)
BY DEF After, Fine

LEMMA StepFine ==
  ASSUME NEW b, Layout(b), CallsHaveIds(b), Flow(b), NEW args, NEW on, NEW m, Fine(Len(b), m),
         m.pc # 0, NEW s, s = Do(b, args, on, m)
  PROVE  StepOf(b, args, on, m, s)
<1> DEFINE n == Len(b)
           j == m.pc
           I == b[j]
           z == Do(b, args, 0, m)
           x == Value(I.args[1], args, m)
           y == Value(I.args[2], args, m)
<1>1. n \in Nat /\ j \in 1..n /\ IsState(m, n) /\ m.trap \in BOOLEAN /\ m.seen \subseteq 1..n
  BY DEF Fine, Layout, IsList
<1>2. I.name \in 1..n /\ I = b[m.pc]
  BY <1>1 DEF Layout
<1>3. /\ I.op = "br" =>
           \A a \in 2..3 : \E t \in j + 1..n : StartsBlock(b, I.args[a][2], t)
      /\ I.op = "br" => \A a \in 2..3 : I.args[a][1] = "block"
      /\ I.op \notin {"ret", "br"} => j < n
      /\ I.op = Call => \E id : AsksFor(I, id)
  BY <1>1 DEF Flow, CallsHaveIds, AsksFor
<1> HIDE DEF n, z, I, j
<1>4. CASE I.op = "ret"
  <2> DEFINE k == m.seen \union {I.name}
  <2>1. s = State(0, m.regs, m.trap, x, m.hits, k) /\ z = s
    <3>1. IsState(m, n) /\ m.pc # 0 /\ b[m.pc].op = "ret" /\ I = b[m.pc]
      BY <1>1, <1>2, <1>4 DEF j
    <3>2. \A o : Do(b, args, o, m) =
                   State(0, m.regs, m.trap, Value(b[m.pc].args[1], args, m), m.hits,
                         m.seen \union {b[m.pc].name})
      BY ONLY <3>1, DoRet
    <3> QED
      BY <3>1, <3>2 DEF z
  <2>2. Regs(m.regs, n) /\ 0 \in Nat
    BY <1>1 DEF IsState, Regs
  <2> HIDE DEF x, k
  <2>3. /\ IsState(s, n) /\ s.pc = 0 /\ s.trap = m.trap /\ s.hits = m.hits /\ s.seen = k
    BY <2>1, <2>2, StateHas
  <2>4. Fine(n, s)
    BY <1>1, <1>2, <2>3 DEF Fine, k
  <2> QED
    BY <2>1, <2>3, <2>4 DEF StepOf, z, n
<1>5. CASE I.op = "br"
  <2> DEFINE a == IF x = 1 THEN 2 ELSE 3
             to == Value(I.args[a], args, m)
  <2>1. a \in 2..3
    OBVIOUS
  <2>2. PICK t \in j + 1..n : StartsBlock(b, I.args[a][2], t)
    BY <1>3, <1>5, <2>1
  <2>3. to = I.args[a][2]
    BY Zenon, <1>3, <1>5, <2>1 DEF Value
  <2>4. s = State(t, m.regs, m.trap, m.ret, m.hits, m.seen) /\ z = s
    <3>1. StartsBlock(b, Value(b[m.pc].args[IF Value(b[m.pc].args[1], args, m) = 1 THEN 2 ELSE 3], args, m), t)
      BY <2>2, <2>3, <1>2
    <3>2. IsList(b) /\ IsState(m, n) /\ m.pc # 0 /\ b[m.pc].op = "br"
      BY <1>1, <1>2, <1>5 DEF Layout
    <3>3. \A o : Do(b, args, o, m) = State(t, m.regs, m.trap, m.ret, m.hits, m.seen)
      BY ONLY <3>1, <3>2, DoBr
    <3> QED
      BY <3>3 DEF z
  <2>5. Regs(m.regs, n) /\ t \in Nat /\ t \in 0..n
    BY <1>1 DEF IsState, Regs
  <2>6. /\ IsState(s, n) /\ s.pc = t /\ s.trap = m.trap /\ s.hits = m.hits /\ s.seen = m.seen
    BY <2>4, <2>5, StateHas
  <2>7. Fine(n, s)
    BY <1>1, <2>5, <2>6 DEF Fine
  <2> QED
    BY <2>4, <2>6, <2>7 DEF StepOf, z, n
<1>6. ASSUME NEW value, j < n, s = Sets(m, I.name, value)
      PROVE  Fine(n, s) /\ s.hits = m.hits
  <2> DEFINE name == I.name
  <2>1. name \in 1..n /\ s = Sets(m, name, value) /\ m.pc < n
    BY <1>2, <1>6 DEF j
  <2> HIDE DEF name
  <2>2. After(n, m, s, name, value) /\ s.hits = m.hits
    BY <1>1, <2>1, SetsHas
  <2>3. Fine(n, m) /\ n \in Nat
    BY <1>1 DEF n
  <2> QED
    BY <2>1, <2>2, <2>3, AfterFine
<1>7. CASE I.op = "select"
  <2> DEFINE v == IF x = 1 THEN y ELSE Value(I.args[3], args, m)
  <2>1. s = Sets(m, I.name, v) /\ z = Sets(m, I.name, v)
    <3>1. IsState(m, n) /\ m.pc # 0 /\ b[m.pc].op = "select" /\ I = b[m.pc]
      BY <1>1, <1>2, <1>7 DEF j
    <3>2. \A o : Do(b, args, o, m) =
             Sets(m, b[m.pc].name, IF Value(b[m.pc].args[1], args, m) = 1
                                 THEN Value(b[m.pc].args[2], args, m)
                                 ELSE Value(b[m.pc].args[3], args, m))
      BY ONLY <3>1, DoSelect
    <3> QED
      BY <3>1, <3>2 DEF z
  <2>2. j < n
    BY <1>3, <1>7
  <2> HIDE DEF v
  <2>3. Fine(n, s) /\ s.hits = m.hits
    BY <2>1, <2>2, <1>6
  <2> QED
    BY <2>1, <2>3 DEF StepOf, z, n
<1>8. CASE I.op = Call
  <2>1. PICK id : AsksFor(I, id)
    BY <1>3, <1>8
  <2> DEFINE yes == Truth(id = on)
             name == I.name
  <2>2. AfterCall(n, m, s, I.name, yes, id)
    <3>1. /\ IsState(m, n) /\ m.pc # 0 /\ I = b[m.pc] /\ AsksFor(I, id) /\ I.name \in 1..n
          /\ yes = Truth(id = on) /\ s = Do(b, args, on, m)
      BY <1>1, <1>2, <2>1 DEF j
    <3> HIDE DEF yes
    <3> QED
      BY ONLY <3>1, CallDoes
  <2>3. After(n, m, s, name, yes) /\ name \in 1..n /\ m.pc < n
    BY <1>2, <1>3, <1>8, <2>2 DEF AfterCall, Call, j
  <2>4. Fine(n, m) /\ n \in Nat
    BY <1>1 DEF n
  <2> HIDE DEF yes, name
  <2>5. Fine(n, s)
    BY <2>3, <2>4, AfterFine
  <2> QED
    BY <1>8, <2>5 DEF StepOf, n, I, j
<1>9. CASE Plain(I.op)
  <2>1. j < n /\ I.op # Call
    BY <1>3, <1>9 DEF Plain
  <2> DEFINE v == Apply(I.op, x, y)
             d == State(0, m.regs, TRUE, m.ret, m.hits, m.seen)
  <2>2. /\ s = IF Traps(I.op, x, y) THEN d ELSE Sets(m, I.name, v)
        /\ z = s
    <3>1. IsState(m, n) /\ m.pc # 0 /\ Plain(b[m.pc].op) /\ I = b[m.pc]
      BY <1>1, <1>2, <1>9 DEF j
    <3>2. \A o : Do(b, args, o, m) =
                   IF Traps(I.op, x, y) THEN d ELSE Sets(m, I.name, v)
      <4> TAKE o
      <4>1. Do(b, args, o, m) =
               IF Traps(b[m.pc].op, Value(b[m.pc].args[1], args, m), Value(b[m.pc].args[2], args, m))
               THEN State(0, m.regs, TRUE, m.ret, m.hits, m.seen)
               ELSE Sets(m, b[m.pc].name,
                         Apply(b[m.pc].op, Value(b[m.pc].args[1], args, m), Value(b[m.pc].args[2], args, m)))
        BY ONLY <3>1, DoPlain
      <4> QED
        BY <3>1, <4>1
    <3> QED
      BY <3>2 DEF z
  <2>3. CASE Traps(I.op, x, y)
    <3> DEFINE yes == TRUE
    <3>1. s = State(0, m.regs, yes, m.ret, m.hits, m.seen)
      BY <2>2, <2>3
    <3>2. Regs(m.regs, n) /\ 0 \in Nat /\ yes \in BOOLEAN
      BY <1>1 DEF IsState, Regs
    <3> HIDE DEF yes
    <3>3. /\ IsState(s, n) /\ s.pc = 0 /\ s.trap = yes /\ s.hits = m.hits /\ s.seen = m.seen
      BY <3>1, <3>2, StateHas
    <3>4. Fine(n, s)
      BY <1>1, <3>2, <3>3 DEF Fine
    <3> QED
      BY <2>2, <3>3, <3>4 DEF StepOf, z, n
  <2>4. CASE ~Traps(I.op, x, y)
    <3> HIDE DEF v, d
    <3>1. s = Sets(m, I.name, v)
      BY <2>2, <2>4
    <3>2. Fine(n, s) /\ s.hits = m.hits
      BY <2>1, <3>1, <1>6
    <3> QED
      BY <2>2, <3>2 DEF StepOf, z, n
  <2> QED
    BY <2>3, <2>4
<1> QED
  BY <1>4, <1>5, <1>7, <1>8, <1>9 DEF Plain

\* A run stays fine.
LEMMA RunFine ==
  ASSUME NEW b, Layout(b), CallsHaveIds(b), Flow(b), Len(b) # 0, NEW args, NEW on
  PROVE  Fine(Len(b), Exec(b, args, on))
<1> DEFINE n == Len(b)
<1>1. n \in Nat /\ DOMAIN b = 1..n
  BY ListIsSeq DEF Layout
<1>2. PICK R : Ran(b, args, on, R)
  BY <1>1, RunIs
<1> DEFINE T == {k \in 0..n : Fine(n, R[k])}
<1>3. 0 \in T
  <2>1. R[0] = [pc |-> 1, regs |-> [i \in 1..n |-> 0], trap |-> FALSE, ret |-> 0, hits |-> {},
                seen |-> {}]
    BY <1>1, <1>2 DEF Ran, Start
  <2>2. IsState(R[0], n) /\ R[0].pc = 1 /\ R[0].trap = FALSE /\ R[0].seen = {}
    BY <2>1 DEF IsState, State
  <2>3. 1 \in 0..n /\ 0 \in 0..n
    BY <1>1
  <2>4. Fine(n, R[0])
    <3> HIDE DEF n
    <3>1. R[0].trap \in BOOLEAN /\ R[0].seen \subseteq 1..n
      BY <2>2
    <3> QED
      BY <2>2, <2>3, <3>1 DEF Fine
  <2> QED
    BY <2>3, <2>4
<1>4. ASSUME NEW k \in 0..n - 1, k \in T PROVE k + 1 \in T
  <2>1. R[k + 1] = Do(b, args, on, R[k]) /\ k + 1 \in 0..n /\ Fine(n, R[k])
    BY <1>1, <1>2, <1>4 DEF Ran
  <2>2. CASE R[k].pc = 0
    BY <2>1, <2>2, DoEnded
  <2>3. CASE R[k].pc # 0
    <3> DEFINE m == R[k]
               s == R[k + 1]
    <3>1. s = Do(b, args, on, m) /\ Fine(Len(b), m) /\ m.pc # 0
      BY <2>1, <2>3
    <3> HIDE DEF m, s
    <3>2. StepOf(b, args, on, m, s)
      BY <3>1, StepFine
    <3>3. Fine(n, s)
      BY <3>2 DEF StepOf
    <3> QED
      BY <2>1, <3>3 DEF s
  <2> QED
    BY <2>2, <2>3
<1>5. 0..n \subseteq T
  <2> HIDE DEF T, n
  <2> QED
    BY <1>1, <1>3, <1>4, InductionUpTo
<1>6. n \in T /\ R[n] = Exec(b, args, on)
  <2>1. n \in 0..n
    BY <1>1
  <2> HIDE DEF T
  <2> QED
    BY <2>1, <1>2, <1>5 DEF Ran
<1> QED
  BY <1>6

\* A function without calls of the runtime asks for nothing and does what it does.
LEMMA QuietRun ==
  ASSUME NEW b, Layout(b), CallsHaveIds(b), Flow(b), Len(b) # 0, \A j \in 1..Len(b) : b[j].op # Call,
         NEW args, NEW on
  PROVE  Exec(b, args, on) = Exec(b, args, 0) /\ Exec(b, args, on).hits = {}
<1> DEFINE n == Len(b)
<1>1. n \in Nat /\ DOMAIN b = 1..n
  BY ListIsSeq DEF Layout
<1>2. PICK R : Ran(b, args, on, R)
  BY <1>1, RunIs
<1>3. PICK Z : Ran(b, args, 0, Z)
  BY <1>1, RunIs
<1> DEFINE Same(k) == R[k] = Z[k] /\ Fine(n, R[k]) /\ R[k].hits = {}
           T == {k \in 0..n : Same(k)}
<1>4. 0 \in T
  <2>1. R[0] = [pc |-> 1, regs |-> [i \in 1..n |-> 0], trap |-> FALSE, ret |-> 0, hits |-> {},
                seen |-> {}]
    BY <1>1, <1>2 DEF Ran, Start
  <2>2. /\ IsState(R[0], n) /\ R[0].pc = 1 /\ R[0].trap = FALSE /\ R[0].seen = {}
        /\ R[0].hits = {}
    BY <2>1 DEF IsState, State
  <2>3. 1 \in 0..n /\ 0 \in 0..n /\ R[0] = Z[0]
    BY <1>1, <1>2, <1>3 DEF Ran
  <2>4. Fine(n, R[0])
    <3> HIDE DEF n
    <3>1. R[0].trap \in BOOLEAN /\ R[0].seen \subseteq 1..n
      BY <2>2
    <3> QED
      BY <2>2, <2>3, <3>1 DEF Fine
  <2> QED
    BY <2>2, <2>3, <2>4
<1>5. ASSUME NEW k \in 0..n - 1, k \in T PROVE k + 1 \in T
  <2>1. /\ R[k + 1] = Do(b, args, on, R[k]) /\ k + 1 \in 0..n
        /\ R[k] = Z[k] /\ Fine(n, R[k]) /\ R[k].hits = {}
        /\ Z[k + 1] = Do(b, args, 0, R[k])
    BY <1>1, <1>2, <1>3, <1>5 DEF Ran
  <2>2. CASE R[k].pc = 0
    <3>1. R[k + 1] = R[k] /\ Z[k + 1] = R[k]
      BY <2>1, <2>2, DoEnded
    <3> QED
      BY <2>1, <3>1
  <2>3. CASE R[k].pc # 0
    <3> DEFINE m == R[k]
               s == R[k + 1]
    <3>1. s = Do(b, args, on, m) /\ Fine(Len(b), m) /\ m.pc # 0 /\ m.hits = {}
      BY <2>1, <2>3
    <3>2. b[m.pc].op # Call
      BY <1>1, <3>1 DEF Fine
    <3> HIDE DEF m, s
    <3>3. StepOf(b, args, on, m, s)
      BY <3>1, StepFine
    <3>4. Fine(n, s) /\ s = Do(b, args, 0, m) /\ s.hits = {}
      BY <3>1, <3>2, <3>3 DEF StepOf
    <3>5. R[k + 1] = Z[k + 1]
      BY <2>1, <3>4 DEF s, m
    <3> QED
      BY <2>1, <3>4, <3>5 DEF s
  <2> QED
    BY <2>2, <2>3
<1>6. 0..n \subseteq T
  <2> HIDE DEF T, n
  <2> QED
    BY <1>1, <1>4, <1>5, InductionUpTo
<1>7. n \in T /\ R[n] = Exec(b, args, on) /\ Z[n] = Exec(b, args, 0)
  <2>1. n \in 0..n
    BY <1>1
  <2> HIDE DEF T
  <2> QED
    BY <2>1, <1>2, <1>3, <1>6 DEF Ran
<1> QED
  BY <1>7

\* A function without calls of the runtime is like itself.
LEMMA SourceAlike ==
  ASSUME NEW f, Layout(f), CallsHaveIds(f), Flow(f), Len(f) # 0,
         \A j \in 1..Len(f) : f[j].op # Call
  PROVE  Alike(f, f, <<>>) /\ OneEach(f, f, <<>>)
<1>1. ASSUME NEW e, NEW in, NEW on, EditFor(f, e)
      PROVE  Like(Len(f), <<>>, Exec(Edit(f, e), in, on), Exec(Edit(f, e), in, 0))
  <2> DEFINE F == Edit(f, e)
             n == Len(f)
             m == Exec(F, in, on)
             s == Exec(F, in, 0)
  <2>1. Alter(f, F, e) /\ ValidEdit(f, e)
    BY <1>1, EditIs DEF EditFor
  <2> HIDE DEF F
  <2>2. Layout(F) /\ CallsHaveIds(F) /\ Flow(F) /\ Len(F) = n
    BY <2>1, EditLayout, EditFlow DEF Alter
  <2>3. \A j \in 1..Len(F) : F[j].op # Call
    <3> SUFFICES ASSUME NEW j \in 1..n PROVE F[j].op # Call
      BY <2>2
    <3>1. (Plain(f[j].op) => Plain(F[j].op)) /\ (~Plain(f[j].op) => F[j].op = f[j].op)
      BY <2>1, AlterKeeps
    <3> QED
      BY <3>1 DEF Plain
  <2>4. m = s /\ m.hits = {}
    BY <2>2, <2>3, QuietRun
  <2>5. m.seen \subseteq 1..n
    <3>1. Fine(Len(F), m)
      BY <2>2, RunFine
    <3> QED
      BY <2>2, <3>1 DEF Fine
  <2> HIDE DEF m, s, n
  <2>6. Reached(<<>>, s.seen) = {}
    BY DEF Reached
  <2>7. m.seen \intersect (1..n) = s.seen
    BY <2>4, <2>5
  <2>8. Like(n, <<>>, m, s)
    BY <2>4, <2>6, <2>7 DEF Like
  <2> QED
    BY <2>8 DEF m, s, n, F
<1>2. Alike(f, f, <<>>)
  BY <1>1 DEF Alike
<1>3. OneEach(f, f, <<>>)
  BY DEF OneEach
<1> QED
  BY <1>2, <1>3

\* What the function holds of its source, an edit of the source is one of it too.
LEMMA EditsHold ==
  ASSUME NEW f, Layout(f), NEW b, Layout(b), Holds(f, b), NEW e, EditFor(f, e)
  PROVE  ValidEdit(b, e) /\ e.name \in 0..Len(b) /\ Len(f) <= Len(b)
<1>1. Len(f) \in Nat /\ Len(b) \in Nat
  BY DEF Layout, IsList
<1>2. Len(f) <= Len(b)
  <2>1. CASE Len(f) = 0
    BY <1>1, <2>1
  <2>2. CASE Len(f) # 0
    <3>1. Len(f) \in 1..Len(f)
      BY <1>1, <2>2
    <3>2. Len(f) \in 1..Len(b)
      BY <3>1 DEF Holds
    <3> QED
      BY <1>1, <3>2
  <2> QED
    BY <2>1, <2>2
<1>3. ValidEdit(f, e) /\ e.name \in 0..Len(f)
  BY DEF EditFor
<1>4. ValidEdit(b, e)
  BY <1>3, HoldsValid
<1> QED
  BY <1>1, <1>2, <1>3, <1>4

\* e is what the q-th mutant of a chain changes.
Swaps(f, n, alts, q, e) == EditFor(f, e) /\ e.name = n /\ e.oi = 0 /\ e.op = alts[q]

\* A chain runs like the instruction it is made for.
LEMMA ChainTurns ==
  ASSUME NEW f, Layout(f), NEW b, NEW c, NEW g, Grown(b, c, g), Holds(f, b), Holds(f, c),
         NEW alts, NEW made, ChainIn(b, c, g, alts, made), ChainSize(Len(b), g, made),
         Plain(b[g.at].op),
         \A q \in 1..Len(made) : Swaps(f, g.name, alts, q, EditOf(f, made[q]))
  PROVE  Turned(f, b, c, g, made)
<1>1. Layout(b) /\ Layout(c)
  BY DEF Grown
<1>2. ASSUME NEW e, NEW in, NEW on, EditFor(f, e), on \notin Ids(made)
      PROVE  AlikeBut(Len(b), g, Exec(Edit(b, e), in, on), Exec(Edit(c, e), in, on))
  <2> DEFINE bb == Edit(b, e)
             cc == Edit(c, e)
  <2>1. Alter(b, bb, e) /\ Alter(c, cc, e)
    BY <1>1, EditIs
  <2>2. ValidEdit(b, e) /\ ValidEdit(c, e) /\ e.name \in 0..Len(b)
    BY <1>1, <1>2, EditsHold
  <2> HIDE DEF bb, cc
  <2>3. Grown(bb, cc, g)
    BY <2>1, <2>2, GrownAltered
  <2>4. \A k \in 1..Len(made) : made[k].id # on
    BY <1>2 DEF Ids
  <2>5. ChainGroup(bb, cc, g, made, 0, on)
    BY <2>1, <2>2, <2>4, ChainAltered
  <2>6. GroupWorks(bb, cc, g, in, on)
    BY <2>3, <2>5, ChainWorks
  <2>7. AlikeBut(Len(bb), g, Exec(bb, in, on), Exec(cc, in, on))
    BY <2>3, <2>6, Simulated
  <2>8. Len(bb) = Len(b)
    BY <2>1 DEF Alter
  <2> QED
    BY <2>7, <2>8 DEF bb, cc
<1>3. ASSUME NEW q \in 1..Len(made), Alone(made, q)
      PROVE  /\ EditFor(f, EditOf(f, made[q]))
             /\ \A in : AlikeBut(Len(b), g, Exec(Edit(b, EditOf(f, made[q])), in, made[q].id),
                                 Exec(c, in, made[q].id))
  <2> DEFINE e == EditOf(f, made[q])
             bb == Edit(b, e)
             on == made[q].id
  <2>1. EditFor(f, e) /\ e.name = g.name /\ e.oi = 0 /\ e.op = alts[q]
    BY DEF Swaps
  <2> HIDE DEF e
  <2>2. Alter(b, bb, e)
    BY <1>1, EditIs
  <2>3. ValidEdit(b, e)
    BY <1>1, <2>1, EditsHold
  <2>4. \A k \in 1..Len(made) : made[k].id = on <=> k = q
    BY <1>3 DEF Alone
  <2> HIDE DEF bb, on
  <2>5. Grown(bb, c, g)
    BY <2>1, <2>2, <2>3, SiteAltered
  <2>6. ChainGroup(bb, c, g, made, q, on)
    BY <2>1, <2>2, <2>3, <2>4, ChainChosen
  <2>7. ASSUME NEW in PROVE AlikeBut(Len(b), g, Exec(bb, in, on), Exec(c, in, on))
    <3>1. GroupWorks(bb, c, g, in, on)
      BY <2>5, <2>6, ChainWorks
    <3>2. AlikeBut(Len(bb), g, Exec(bb, in, on), Exec(c, in, on))
      BY <2>5, <3>1, Simulated
    <3>3. Len(bb) = Len(b)
      BY <2>2 DEF Alter
    <3> QED
      BY <3>2, <3>3
  <2> QED
    BY <2>1, <2>7 DEF e, bb, on
<1> QED
  BY <1>2, <1>3 DEF Turned

\* e is what the mutant of a constant changes.
Replaces(f, n, oi, x, e) == EditFor(f, e) /\ e.name = n /\ e.oi = oi /\ oi # 0 /\ e.lit = x

\* A choice of a constant runs like the instruction it is made for.
LEMMA SelectTurns ==
  ASSUME NEW f, Layout(f), NEW b, NEW c, NEW g, Grown(b, c, g), Holds(f, b), Holds(f, c),
         NEW oi, NEW id, NEW x, SelectIn(b, c, g, oi, id, x), SelectSize(g, id),
         Plain(b[g.at].op) \/ b[g.at].op = "ret",
         NEW made, Len(made) = 1, made[1].id = id, Replaces(f, g.name, oi, x, EditOf(f, made[1]))
  PROVE  Turned(f, b, c, g, made)
<1>1. Layout(b) /\ Layout(c)
  BY DEF Grown
<1> DEFINE y == b[g.at].args[oi]
<1>2. ASSUME NEW e, NEW in, NEW on, EditFor(f, e), on \notin Ids(made)
      PROVE  AlikeBut(Len(b), g, Exec(Edit(b, e), in, on), Exec(Edit(c, e), in, on))
  <2> DEFINE bb == Edit(b, e)
             cc == Edit(c, e)
  <2>1. Alter(b, bb, e) /\ Alter(c, cc, e)
    BY <1>1, EditIs
  <2>2. ValidEdit(b, e) /\ ValidEdit(c, e) /\ e.name \in 0..Len(b)
    BY <1>1, <1>2, EditsHold
  <2> HIDE DEF bb, cc
  <2>3. Grown(bb, cc, g)
    BY <2>1, <2>2, GrownAltered
  <2>4. id # on
    BY <1>2 DEF Ids
  <2>5. SelectGroup(bb, cc, g, id, x, y, on)
    BY <2>1, <2>2, <2>4, SelectAltered
  <2> HIDE DEF y
  <2>6. GroupWorks(bb, cc, g, in, on)
    BY <2>3, <2>5, SelectWorks
  <2>7. AlikeBut(Len(bb), g, Exec(bb, in, on), Exec(cc, in, on))
    BY <2>3, <2>6, Simulated
  <2>8. Len(bb) = Len(b)
    BY <2>1 DEF Alter
  <2> QED
    BY <2>7, <2>8 DEF bb, cc
<1>3. ASSUME NEW q \in 1..Len(made), Alone(made, q)
      PROVE  /\ EditFor(f, EditOf(f, made[q]))
             /\ \A in : AlikeBut(Len(b), g, Exec(Edit(b, EditOf(f, made[q])), in, made[q].id),
                                 Exec(c, in, made[q].id))
  <2> DEFINE e == EditOf(f, made[1])
             bb == Edit(b, e)
  <2>1. q = 1
    OBVIOUS
  <2>2. EditFor(f, e) /\ e.name = g.name /\ e.oi = oi /\ oi # 0 /\ e.lit = x
    BY DEF Replaces
  <2> HIDE DEF e
  <2>3. Alter(b, bb, e)
    BY <1>1, EditIs
  <2>4. ValidEdit(b, e)
    BY <1>1, <2>2, EditsHold
  <2> HIDE DEF bb
  <2>5. Grown(bb, c, g)
    BY <2>2, <2>3, <2>4, SiteAltered
  <2>6. SelectGroup(bb, c, g, id, x, y, id)
    BY <2>2, <2>3, <2>4, SelectChosen
  <2> HIDE DEF y
  <2>7. ASSUME NEW in PROVE AlikeBut(Len(b), g, Exec(bb, in, id), Exec(c, in, id))
    <3>1. GroupWorks(bb, c, g, in, id)
      BY <2>5, <2>6, SelectWorks
    <3>2. AlikeBut(Len(bb), g, Exec(bb, in, id), Exec(c, in, id))
      BY <2>5, <3>1, Simulated
    <3>3. Len(bb) = Len(b)
      BY <2>3 DEF Alter
    <3> QED
      BY <3>2, <3>3
  <2> QED
    BY <2>1, <2>2, <2>7 DEF e, bb
<1> QED
  BY <1>2, <1>3 DEF Turned
-----------------------------------------------------------------------------
(* Which change a record names *)

\* The alternatives are operators of two values, and comparisons have their own.
LEMMA BinPlain ==
  ASSUME NEW op, NEW alts, alts = appendBins(op), alts # <<>>
  PROVE  /\ Plain(op) /\ op \notin CmpOps /\ \A k \in 1..Len(alts) : Plain(alts[k])
<1>1. op \in {"Add", "Sub", "Mul", "SDiv", "UDiv", "SRem", "URem", "And", "Or"}
  BY DEF appendBins, Alternatives
<1>2. \/ alts = <<"Sub", "Mul">> \/ alts = <<"Add", "Mul">> \/ alts = <<"SDiv", "Add">>
      \/ alts = <<"Mul", "Sub">> \/ alts = <<"SDiv", "Mul">> \/ alts = <<"UDiv", "Mul">>
      \/ alts = <<"Or">> \/ alts = <<"And">>
  BY <1>1 DEF appendBins, Alternatives
<1>3. \A k \in 1..Len(alts) :
        alts[k] \in {"Add", "Sub", "Mul", "SDiv", "UDiv", "And", "Or"}
  BY <1>2
<1>4. op \notin CmpOps
  BY <1>1 DEF CmpOps, appendPreds
<1> QED
  BY <1>1, <1>3, <1>4 DEF Plain, Call

LEMMA CmpPlain ==
  ASSUME NEW op \in CmpOps, NEW alts, alts = appendPreds[op]
  PROVE  /\ Plain(op) /\ appendBins(op) = <<>> /\ \A k \in 1..Len(alts) : Plain(alts[k])
<1>1. op \in {"EQ", "NE", "SGT", "SGE", "SLT", "SLE", "UGT", "UGE", "ULT", "ULE"}
  BY DEF CmpOps, appendPreds
<1>2. \/ alts = <<"NE", "SLT", "SGT">> \/ alts = <<"EQ", "SLE", "SGE">>
      \/ alts = <<"SGE", "SLT", "EQ">> \/ alts = <<"SGT", "SLE", "EQ">>
      \/ alts = <<"SLE", "SGT", "EQ">> \/ alts = <<"SLT", "SGE", "EQ">>
      \/ alts = <<"UGE", "ULT", "EQ">> \/ alts = <<"UGT", "ULE", "EQ">>
      \/ alts = <<"ULE", "UGT", "EQ">> \/ alts = <<"ULT", "UGE", "EQ">>
  BY <1>1 DEF appendPreds
<1>3. \A k \in 1..Len(alts) :
        alts[k] \in {"EQ", "NE", "SGT", "SGE", "SLT", "SLE", "UGT", "UGE", "ULT", "ULE"}
  BY <1>2
<1>4. appendBins(op) = <<>>
  BY <1>1 DEF appendBins, Alternatives
<1> QED
  BY <1>1, <1>3, <1>4 DEF Plain, Call

\* f names its instructions by their places.
Numbered(f) == Layout(f) /\ \A j \in 1..Len(f) : f[j].name = j

LEMMA NumberedAt ==
  ASSUME NEW f, Numbered(f), NEW n \in 1..Len(f)
  PROVE  Ins(f, n) = f[n]
<1>1. Named(f, n, n)
  BY DEF Numbered, Named
<1>2. At(f, n) = n
  BY <1>1, AtIsOnly DEF Numbered
<1> QED
  BY <1>2 DEF Ins

\* A change of an operator by one of two values.
LEMMA SwapsIs ==
  ASSUME NEW f, Numbered(f), NEW n \in 1..Len(f), Plain(f[n].op), NEW alts, NEW q, Plain(alts[q]),
         NEW e, e.name = n, e.oi = 0, e.op = alts[q]
  PROVE  Swaps(f, n, alts, q, e)
<1>1. n \in 0..Len(f)
  BY DEF Numbered, Layout, IsList
<1>2. ValidEdit(f, e)
  BY DEF ValidEdit, Numbered
<1> QED
  BY <1>1, <1>2 DEF Swaps, EditFor

\* The record of an operator's mutant names the operator it is made with.
LEMMA BinSwaps ==
  ASSUME NEW f, Numbered(f), NEW n \in 1..Len(f), NEW I, I = f[n],
         NEW alts, alts = appendBins(I.op), alts # <<>>, NEW q \in 1..Len(alts),
         NEW r, r.at = n, r.kind # "LVR", r.mut = binName(alts[q], I.ty)
  PROVE  Swaps(f, n, alts, q, EditOf(f, r))
<1> DEFINE e == EditOf(f, r)
           signs == [k \in 1..Len(alts) |-> binName(alts[k], I.ty)]
           S == ToSet(alts)
           T == ToSet(appendBins(I.op)) \union (IF I.op \in CmpOps THEN ToSet(appendPreds[I.op]) ELSE {})
           p == CHOOSE z \in T : r.mut = IF I.op \in CmpOps THEN predName[z] ELSE binName(z, I.ty)
<1>1. DifferentSigns(alts, signs)
  BY BinChoices
<1>2. Plain(I.op) /\ I.op \notin CmpOps /\ Plain(alts[q])
  BY BinPlain
<1>3. S = {alts[k] : k \in 1..Len(alts)}
  BY <1>1, ListIsSeq DEF DifferentSigns, ToSet
<1>4. \A j, k \in 1..Len(alts) : j # k => binName(alts[j], I.ty) # binName(alts[k], I.ty)
  <2> SUFFICES ASSUME NEW j \in 1..Len(alts), NEW k \in 1..Len(alts), j # k
               PROVE  binName(alts[j], I.ty) # binName(alts[k], I.ty)
    OBVIOUS
  <2>1. signs[j] # signs[k]
    BY <1>1 DEF DifferentSigns
  <2> QED
    BY <2>1
<1>5. e.name = n /\ e.oi = 0 /\ e.op = p
  BY DEF EditOf
<1>6. p = CHOOSE z \in S : r.mut = binName(z, I.ty)
  BY <1>2
<1> HIDE DEF p, S, e
<1>7. alts[q] \in S /\ \A z \in S : r.mut = binName(z, I.ty) => z = alts[q]
  BY <1>3, <1>4
<1>8. p = alts[q]
  BY <1>6, <1>7
<1>9. Swaps(f, n, alts, q, e)
  BY <1>2, <1>5, <1>8, SwapsIs
<1> QED
  BY <1>9 DEF e

\* The record of a comparison's mutant names the comparison it is made with.
LEMMA CmpSwaps ==
  ASSUME NEW f, Numbered(f), NEW n \in 1..Len(f), NEW I, I = f[n], I.op \in CmpOps,
         NEW alts, alts = appendPreds[I.op], NEW q \in 1..Len(alts),
         NEW r, r.at = n, r.kind # "LVR", r.mut = predName[alts[q]]
  PROVE  Swaps(f, n, alts, q, EditOf(f, r))
<1> DEFINE e == EditOf(f, r)
           signs == [k \in 1..Len(alts) |-> predName[alts[k]]]
           S == ToSet(alts)
           T == ToSet(appendBins(I.op)) \union (IF I.op \in CmpOps THEN ToSet(appendPreds[I.op]) ELSE {})
           p == CHOOSE z \in T : r.mut = IF I.op \in CmpOps THEN predName[z] ELSE binName(z, I.ty)
<1>1. DifferentSigns(alts, signs)
  BY CmpChoices
<1>2. Plain(I.op) /\ appendBins(I.op) = <<>> /\ Plain(alts[q])
  BY CmpPlain
<1>3. S = {alts[k] : k \in 1..Len(alts)}
  BY <1>1, ListIsSeq DEF DifferentSigns, ToSet
<1>4. \A j, k \in 1..Len(alts) : j # k => predName[alts[j]] # predName[alts[k]]
  <2> SUFFICES ASSUME NEW j \in 1..Len(alts), NEW k \in 1..Len(alts), j # k
               PROVE  predName[alts[j]] # predName[alts[k]]
    OBVIOUS
  <2>1. signs[j] # signs[k]
    <3> HIDE DEF signs
    <3> QED
      BY <1>1 DEF DifferentSigns
  <2> QED
    BY <2>1
<1>5. e.name = n /\ e.oi = 0 /\ e.op = p
  BY DEF EditOf
<1>6. T = S
  <2>1. ToSet(<<>>) = {}
    BY DEF ToSet
  <2> QED
    BY <1>2, <2>1
<1>7. p = CHOOSE z \in S : r.mut = predName[z]
  BY <1>6
<1> HIDE DEF p, S, e, T
<1>8. alts[q] \in S /\ \A z \in S : r.mut = predName[z] => z = alts[q]
  BY <1>3, <1>4
<1>9. p = alts[q]
  BY <1>7, <1>8
<1>10. Swaps(f, n, alts, q, e)
  BY <1>2, <1>5, <1>9, SwapsIs
<1> QED
  BY <1>10 DEF e
-----------------------------------------------------------------------------
(* The pass: what it makes runs like the source, mutant by mutant *)

\* The records name instructions of the source f and changes it admits, and each has an id.
Recorded(f, rs) ==
  \A r \in 1..Len(rs) : /\ rs[r].at \in 1..Len(f) /\ rs[r].id # 0
                        /\ rs[r].kind = "LVR" => rs[r].oi # 0
                        /\ EditFor(f, EditOf(f, rs[r]))

\* The function b with the records rs still computes what its source f does.
Computes(f, b, rs) ==
  /\ Holds(f, b) /\ Flow(b) /\ IsList(rs) /\ Recorded(f, rs)
  /\ Alike(f, b, rs) /\ OneEach(f, b, rs)

\* A record more, or several.
LEMMA RecordedGrows ==
  ASSUME NEW f, NEW rs, IsList(rs), Recorded(f, rs), NEW made, IsList(made), Recorded(f, made),
         NEW at, \A k \in 1..Len(made) : made[k].at = at
  PROVE  IsList(rs \o made) /\ Recorded(f, rs \o made) /\ Gained(rs, rs \o made, made, at)
<1> DEFINE u == rs \o made
<1>1. IsList(u) /\ Follows(u, rs, made)
  BY ListsJoin
<1> HIDE DEF u
<1>2. Gained(rs, u, made, at)
  BY <1>1 DEF Follows, Gained
<1>3. ASSUME NEW r \in 1..Len(u)
      PROVE  /\ u[r].at \in 1..Len(f) /\ u[r].id # 0 /\ (u[r].kind = "LVR" => u[r].oi # 0)
             /\ EditFor(f, EditOf(f, u[r]))
  <2>1. CASE r \in 1..Len(rs)
    <3>1. u[r] = rs[r]
      BY <1>1, <2>1 DEF Follows
    <3> QED
      BY <2>1, <3>1 DEF Recorded
  <2>2. CASE r \notin 1..Len(rs)
    <3> DEFINE k == r - Len(rs)
    <3>1. k \in 1..Len(made) /\ r = Len(rs) + k
      BY <1>1, <2>2 DEF Follows
    <3>2. u[r] = made[k]
      BY <1>1, <3>1 DEF Follows
    <3> HIDE DEF k
    <3> QED
      BY <3>1, <3>2 DEF Recorded
  <2> QED
    BY <2>1, <2>2
<1>4. Recorded(f, u)
  BY <1>3 DEF Recorded
<1> QED
  BY <1>1, <1>2, <1>4 DEF u

\* A function that has turned into another computes what it did.
LEMMA TurnedComputes ==
  ASSUME NEW f, Layout(f), NEW b, NEW c, NEW g, NEW rs, NEW made, Computes(f, b, rs),
         Grown(b, c, g), Holds(b, c), Flow(c), IsList(made), Recorded(f, made),
         g.name \in 1..Len(f), g.ids = Ids(made), \A k \in 1..Len(made) : made[k].at = g.name,
         Turned(f, b, c, g, made)
  PROVE  Computes(f, c, rs \o made)
<1> DEFINE u == rs \o made
<1>1. IsList(u) /\ Recorded(f, u) /\ Gained(rs, u, made, g.name)
  BY RecordedGrows DEF Computes
<1> HIDE DEF u
<1>2. Layout(b) /\ Layout(c) /\ Holds(f, b)
  BY DEF Grown, Computes
<1>3. Len(f) <= Len(b)
  <2>1. Len(f) \in Nat /\ Len(b) \in Nat
    BY <1>2 DEF Layout, IsList
  <2>2. Len(f) \in 1..Len(f) => Len(f) \in 1..Len(b)
    BY <1>2 DEF Holds
  <2> QED
    BY <2>1, <2>2
<1>4. Advanced(f, b, c, g, rs, u, made)
  BY <1>1, <1>2, <1>3 DEF Advanced
<1>5. Alike(f, c, u) /\ OneEach(f, c, u)
  BY <1>4, StaysAlike, StaysOneEach DEF Computes
<1>6. Holds(f, c)
  BY <1>2, HoldsOn
<1>7. Computes(f, c, u)
  BY <1>1, <1>5, <1>6 DEF Computes
<1> QED
  BY <1>7 DEF u

\* The instruction of a name is still of the kind it was.
LEMMA SiteHeld ==
  ASSUME NEW f, Numbered(f), NEW b, Layout(b), Holds(f, b), NEW n \in 1..Len(f)
  PROVE  /\ n \in 1..Len(b) /\ SameKind(f[n], Ins(b, n))
         /\ At(b, n) \in 1..Len(b) /\ Ins(b, n) = b[At(b, n)] /\ Ins(b, n).name = n
<1>1. Ins(f, n) = f[n]
  BY NumberedAt
<1>2. n \in 1..Len(b) /\ SameKind(f[n], Ins(b, n))
  BY <1>1 DEF Holds
<1>3. Named(b, n, At(b, n))
  BY <1>2, AtIs
<1> QED
  BY <1>2, <1>3 DEF Named, Ins

\* A chain is made for a site of the source.
LEMMA ChainComputes ==
  ASSUME NEW f, Numbered(f), NEW b, Layout(b), CallsHaveIds(b), NEW rs, Computes(f, b, rs),
         NEW n \in 1..Len(f), NEW I, I = Ins(b, n), Plain(I.op),
         NEW alts, IsList(alts), Len(alts) # 0, \A k \in 1..Len(alts) : Plain(alts[k]),
         NEW made, IsList(made), Len(made) = Len(alts), Recorded(f, made),
         \A k \in 1..Len(made) : made[k].at = n /\ Swaps(f, n, alts, k, EditOf(f, made[k])),
         NEW c, c = Chained(b, I, alts, made)
  PROVE  Computes(f, c, rs \o made)
<1> DEFINE g == ChainGrowth(b, n, made)
<1>1. n \in 1..Len(b) /\ At(b, n) \in 1..Len(b) /\ I = b[At(b, n)]
  BY SiteHeld DEF Computes
<1>2. Grown(b, c, g) /\ Flow(c) /\ Holds(b, c) /\ ChainIn(b, c, g, alts, made)
  BY <1>1, ChainGrows DEF Computes
<1>3. /\ g.name = n /\ g.at = At(b, n) /\ g.more = 3 * Len(made) /\ g.to = Len(b) + 3 * Len(made)
      /\ g.ids = FirstIds(made, Len(made))
  BY DEF ChainGrowth
<1> HIDE DEF g
<1>4. Len(made) \in Nat \ {0}
  BY DEF IsList
<1>5. ChainSize(Len(b), g, made)
  BY <1>3, <1>4 DEF ChainSize
<1>6. g.ids = Ids(made)
  BY <1>3 DEF FirstIds, Ids
<1>7. Layout(f) /\ Holds(f, b) /\ Holds(f, c)
  BY <1>2, HoldsOn DEF Numbered, Computes
<1>8. Plain(b[g.at].op)
  BY <1>1, <1>3
<1>9. Turned(f, b, c, g, made)
  BY <1>2, <1>3, <1>5, <1>7, <1>8, ChainTurns
<1> QED
  BY <1>2, <1>3, <1>6, <1>7, <1>9, TurnedComputes

\* A constant is chosen for a site of the source.
LEMMA SelectComputes ==
  ASSUME NEW f, Numbered(f), NEW b, Layout(b), CallsHaveIds(b), NEW rs, Computes(f, b, rs),
         NEW n \in 1..Len(f), NEW I, I = Ins(b, n), Plain(I.op) \/ I.op = "ret",
         NEW oi, oi \in DOMAIN I.args, NEW x, x = <<"int", x[2]>>,
         NEW made, IsList(made), Len(made) = 1, Recorded(f, made),
         made[1].at = n, Replaces(f, n, oi, x, EditOf(f, made[1])),
         NEW c, c = Selected(b, I, oi, made[1].id, I.args[oi], x)
  PROVE  Computes(f, c, rs \o made)
<1> DEFINE id == made[1].id
           g == SelectGrowth(b, n, id)
<1>1. n \in 1..Len(b) /\ At(b, n) \in 1..Len(b) /\ I = b[At(b, n)]
  BY SiteHeld DEF Computes
<1> HIDE DEF id
<1>2. Grown(b, c, g) /\ Flow(c) /\ Holds(b, c) /\ SelectIn(b, c, g, oi, id, x)
  BY <1>1, SelectGrows DEF Computes, id
<1>3. /\ g.name = n /\ g.at = At(b, n) /\ g.more = 2 /\ g.to = n /\ g.ids = {id}
  BY DEF SelectGrowth
<1> HIDE DEF g
<1>4. SelectSize(g, id)
  BY <1>3 DEF SelectSize
<1>5. g.ids = Ids(made)
  BY <1>3 DEF Ids, id
<1>6. Layout(f) /\ Holds(f, b) /\ Holds(f, c)
  BY <1>2, HoldsOn DEF Numbered, Computes
<1>7. Plain(b[g.at].op) \/ b[g.at].op = "ret"
  BY <1>1, <1>3
<1>8. Turned(f, b, c, g, made)
  <2>1. Replaces(f, g.name, oi, x, EditOf(f, made[1])) /\ made[1].id = id
    BY <1>3 DEF id
  <2> QED
    BY <2>1, <1>2, <1>4, <1>6, <1>7, SelectTurns
<1>9. \A k \in 1..Len(made) : made[k].at = g.name
  BY <1>3
<1> QED
  BY <1>2, <1>3, <1>5, <1>6, <1>8, <1>9, TurnedComputes

\* A source goes on everywhere, and asks for nothing.
LEMMA SourceFlow ==
  ASSUME NEW f \in Sources
  PROVE  /\ Numbered(f) /\ CallsHaveIds(f) /\ Flow(f) /\ Len(f) # 0
         /\ \A j \in 1..Len(f) : f[j].op # Call
<1>1. IsFunction(f)
  BY SourcesAreFunctions
<1>2. /\ f \in Seq(Instruction) /\ f # <<>> /\ Len(f) \in Nat
      /\ \A i \in 1..Len(f) : f[i] \in Instruction /\ f[i].name = i /\ f[i].op # Call
  BY <1>1 DEF IsFunction, Call
<1>3. Layout(f) /\ CallsHaveIds(f)
  BY SourceLayout
<1>4. Numbered(f)
  BY <1>2, <1>3 DEF Numbered
<1>5. Len(f) # 0
  BY <1>2
<1>6. ASSUME NEW j \in 1..Len(f)
      PROVE  /\ \A a \in DOMAIN f[j].args : f[j].args[a] = <<f[j].args[a][1], f[j].args[a][2]>>
             /\ 1..Arity(f[j].op) \subseteq DOMAIN f[j].args
  <2>1. f[j] \in Instruction /\ Arity(f[j].op) <= Len(f[j].args)
    BY <1>1, <1>2 DEF IsFunction
  <2> DEFINE A == f[j].args
             k == Arity(f[j].op)
  <2>2. A \in Seq(Tags \X Int)
    BY <2>1 DEF Instruction
  <2>3. k \in Nat
    BY DEF Arity
  <2>4. k <= Len(A)
    BY <2>1
  <2> HIDE DEF A, k
  <2>5. 1..k \subseteq DOMAIN A
    BY <2>2, <2>3, <2>4
  <2>6. \A a \in DOMAIN A : A[a] \in Tags \X Int
    BY <2>2
  <2>7. \A a \in DOMAIN A : A[a] = <<A[a][1], A[a][2]>>
    BY <2>6
  <2> QED
    BY <2>5, <2>7 DEF A, k
<1>7. ASSUME NEW j \in 1..Len(f), f[j].op = "br", NEW a \in 2..3
      PROVE  /\ f[j].args[a][1] = "block"
             /\ \E t \in j + 1..Len(f) : StartsBlock(f, f[j].args[a][2], t)
  BY <1>1, <1>7 DEF IsFunction
<1>8. ASSUME NEW j \in 1..Len(f), f[j].op \notin {"ret", "br"} PROVE j < Len(f)
  BY <1>1, <1>8 DEF IsFunction
<1>9. Flow(f)
  BY <1>6, <1>7, <1>8 DEF Flow
<1> QED
  BY <1>2, <1>3, <1>4, <1>5, <1>9

\* A source computes what it does.
LEMMA SourceComputes ==
  ASSUME NEW f \in Sources
  PROVE  Computes(f, f, <<>>)
<1>1. /\ Numbered(f) /\ Layout(f) /\ CallsHaveIds(f) /\ Flow(f) /\ Len(f) # 0
      /\ \A j \in 1..Len(f) : f[j].op # Call
  BY SourceFlow DEF Numbered
<1>2. Alike(f, f, <<>>) /\ OneEach(f, f, <<>>)
  BY <1>1, SourceAlike
<1>3. Holds(f, f)
  BY DEF Holds, SameKind
<1>4. Len(<<>>) = 0 /\ IsList(<<>>)
  BY DEF IsList
<1>5. Recorded(f, <<>>)
  BY <1>4 DEF Recorded
<1> QED
  BY <1>1, <1>2, <1>3, <1>4, <1>5 DEF Computes

\* The sites that wait are instructions of the source.
Originals(n, bs, cs, ls) ==
  /\ IsList(bs) /\ \A k \in 1..Len(bs) : bs[k] \in 1..n
  /\ IsList(cs) /\ \A k \in 1..Len(cs) : cs[k] \in 1..n
  /\ IsList(ls) /\ \A k \in 1..Len(ls) : ls[k][1] \in 1..n

\* The function computes what its source does, and nothing but the source waits.
Behaves ==
  Originals(Len(source), bins, cmps, lits) /\ Computes(source, body, recs)

\* The first site is an instruction of the source, and so are the others.
LEMMA OriginalsTail ==
  ASSUME NEW n, NEW bs, NEW cs, NEW ls, Originals(n, bs, cs, ls)
  PROVE  /\ bs # <<>> => Head(bs) \in 1..n /\ Originals(n, Tail(bs), cs, ls)
         /\ cs # <<>> => Head(cs) \in 1..n /\ Originals(n, bs, Tail(cs), ls)
         /\ ls # <<>> => Head(ls)[1] \in 1..n /\ Originals(n, bs, cs, Tail(ls))
<1>1. ASSUME bs # <<>> PROVE Head(bs) \in 1..n /\ Originals(n, Tail(bs), cs, ls)
  <2> DEFINE t == Tail(bs)
  <2>1. /\ IsList(t) /\ Head(bs) = bs[1] /\ 1 \in 1..Len(bs)
        /\ \A k \in 1..Len(t) : t[k] = bs[k + 1] /\ k + 1 \in 1..Len(bs)
    BY <1>1, TailIs DEF Originals
  <2> HIDE DEF t
  <2>2. Originals(n, t, cs, ls)
    BY <2>1 DEF Originals
  <2> QED
    BY <2>1, <2>2 DEF Originals, t
<1>2. ASSUME cs # <<>> PROVE Head(cs) \in 1..n /\ Originals(n, bs, Tail(cs), ls)
  <2> DEFINE t == Tail(cs)
  <2>1. /\ IsList(t) /\ Head(cs) = cs[1] /\ 1 \in 1..Len(cs)
        /\ \A k \in 1..Len(t) : t[k] = cs[k + 1] /\ k + 1 \in 1..Len(cs)
    BY <1>2, TailIs DEF Originals
  <2> HIDE DEF t
  <2>2. Originals(n, bs, t, ls)
    BY <2>1 DEF Originals
  <2> QED
    BY <2>1, <2>2 DEF Originals, t
<1>3. ASSUME ls # <<>> PROVE Head(ls)[1] \in 1..n /\ Originals(n, bs, cs, Tail(ls))
  <2> DEFINE t == Tail(ls)
  <2>1. /\ IsList(t) /\ Head(ls) = ls[1] /\ 1 \in 1..Len(ls)
        /\ \A k \in 1..Len(t) : t[k] = ls[k + 1] /\ k + 1 \in 1..Len(ls)
    BY <1>3, TailIs DEF Originals
  <2> HIDE DEF t
  <2>2. Originals(n, bs, cs, t)
    BY <2>1 DEF Originals
  <2> QED
    BY <2>1, <2>2 DEF Originals, t
<1> QED
  BY <1>1, <1>2, <1>3

\* What the fields of a record say.
LEMMA RecordIs ==
  ASSUME NEW b, NEW I, NEW kind, NEW op, NEW mut, NEW oi, NEW r, r = makeRec(b, I, kind, op, mut, oi)
  PROVE  /\ r.at = I.name /\ r.kind = kind /\ r.op = op /\ r.mut = mut /\ r.oi = oi /\ r.id # 0
<1> DEFINE key == keyFor(b, I, kind, op, mut)
<1> HIDE DEF key
<1>1. fnv1a(key) # 0
  BY DEF fnv1a
<1> QED
  BY <1>1 DEF makeRec, key

\* The loop over operators.
LEMMA BinBehaves == IndInv /\ Behaves /\ InstrumentBin => Behaves'
<1> SUFFICES ASSUME IndInv, Behaves, InstrumentBin PROVE Behaves'
  OBVIOUS
<1> DEFINE f == source
           b == body
           n == Head(bins)
           I == Ins(b, n)
           alts == appendBins(I.op)
           kind == binKind(I.op, I.ty)
           op == binName(I.op, I.ty)
           R(k) == makeRec(b, I, kind, op, binName(alts[k], I.ty), 0)
           made == [k \in DOMAIN alts |-> R(k)]
<1>1. /\ bins # <<>> /\ bins' = Tail(bins) /\ cmps' = cmps /\ lits' = lits /\ source' = source
      /\ \/ body' = body /\ recs' = recs
         \/ alts # <<>> /\ body' = Chained(b, I, alts, made) /\ recs' = recs \o made
  BY DEF InstrumentBin
<1>2. n \in 1..Len(f) /\ Originals(Len(f), Tail(bins), cmps, lits)
  BY <1>1, OriginalsTail DEF Behaves
<1>3. Computes(f, b, recs) /\ f \in Sources /\ Layout(b) /\ CallsHaveIds(b)
  BY DEF Behaves, IndInv, Steps, Consistent
<1>4. CASE body' = body /\ recs' = recs
  BY <1>1, <1>2, <1>3, <1>4 DEF Behaves
<1>5. CASE alts # <<>> /\ body' = Chained(b, I, alts, made) /\ recs' = recs \o made
  <2>1. Numbered(f)
    BY <1>3, SourceFlow
  <2>2. SameKind(f[n], I) /\ I.name = n
    BY <1>2, <1>3, <2>1, SiteHeld DEF Computes
  <2>3. I.op = f[n].op /\ I.ty = f[n].ty
    BY <2>2 DEF SameKind
  <2>4. Plain(I.op) /\ \A k \in 1..Len(alts) : Plain(alts[k])
    BY <1>5, BinPlain
  <2>5. IsList(alts) /\ Len(alts) # 0 /\ DOMAIN alts = 1..Len(alts)
    BY <1>5, BinChoices, ListIsSeq DEF DifferentSigns
  <2>6. kind # "LVR"
    BY BinKindIs DEF BinKinds
  <2>7. alts = appendBins(I.op) /\ \A k : R(k) = makeRec(b, I, kind, op, binName(alts[k], I.ty), 0)
    OBVIOUS
  <2> HIDE DEF R, alts, kind, op, I
  <2>8. IsList(made) /\ Len(made) = Len(alts) /\ \A k \in 1..Len(alts) : made[k] = R(k)
    BY <2>5 DEF IsList
  <2> HIDE DEF made
  <2>9. ASSUME NEW k \in 1..Len(made)
        PROVE  /\ made[k].at = n /\ made[k].id # 0 /\ made[k].kind # "LVR"
               /\ made[k].mut = binName(alts[k], I.ty)
    <3> DEFINE mut == binName(alts[k], I.ty)
               r == made[k]
    <3>1. r = makeRec(b, I, kind, op, mut, 0)
      BY <2>7, <2>8
    <3> HIDE DEF mut, r
    <3>2. r.at = I.name /\ r.kind = kind /\ r.mut = mut /\ r.id # 0
      BY <3>1, RecordIs
    <3> QED
      BY <3>2, <2>2, <2>6 DEF mut, r
  <2>10. ASSUME NEW k \in 1..Len(made)
         PROVE  Swaps(f, n, alts, k, EditOf(f, made[k]))
    <3> DEFINE J == f[n]
               r == made[k]
    <3>1. /\ J = f[n] /\ alts = appendBins(J.op) /\ alts # <<>> /\ k \in 1..Len(alts)
          /\ r.at = n /\ r.kind # "LVR" /\ r.mut = binName(alts[k], J.ty)
      BY <1>5, <2>3, <2>7, <2>8, <2>9
    <3> HIDE DEF J, r, n, f
    <3>2. Swaps(f, n, alts, k, EditOf(f, r))
      BY <1>2, <2>1, <3>1, BinSwaps
    <3> QED
      BY <3>2 DEF r
  <2>11. Recorded(f, made)
    BY <1>2, <2>9, <2>10 DEF Recorded, Swaps
  <2> DEFINE c == Chained(b, I, alts, made)
  <2> HIDE DEF c, n, f, b
  <2>12. I = Ins(b, n)
    BY DEF I
  <2>13. Computes(f, c, recs \o made)
    BY <1>2, <1>3, <2>1, <2>4, <2>5, <2>8, <2>9, <2>10, <2>11, <2>12, ChainComputes DEF c
  <2>14. body' = c
    BY <1>5 DEF c
  <2> QED
    BY <1>1, <1>2, <1>5, <2>13, <2>14 DEF Behaves, f
<1> QED
  BY <1>1, <1>4, <1>5

\* The loop over comparisons.
LEMMA CmpBehaves == IndInv /\ Behaves /\ InstrumentCmp => Behaves'
<1> SUFFICES ASSUME IndInv, Behaves, InstrumentCmp PROVE Behaves'
  OBVIOUS
<1> DEFINE f == source
           b == body
           n == Head(cmps)
           I == Ins(b, n)
           alts == appendPreds[I.op]
           op == predName[I.op]
           R(k) == makeRec(b, I, "ROR", op, predName[alts[k]], 0)
           made == [k \in DOMAIN alts |-> R(k)]
<1>1. /\ cmps # <<>> /\ bins' = bins /\ cmps' = Tail(cmps) /\ lits' = lits /\ source' = source
      /\ \/ body' = body /\ recs' = recs
         \/ body' = Chained(b, I, alts, made) /\ recs' = recs \o made
  BY DEF InstrumentCmp
<1>2. n \in 1..Len(f) /\ Originals(Len(f), bins, Tail(cmps), lits)
  BY Zenon, <1>1, OriginalsTail DEF Behaves
<1>3. /\ Computes(f, b, recs) /\ f \in Sources /\ Layout(b) /\ CallsHaveIds(b)
      /\ Sites(b, cmps) /\ Comparisons(b, cmps)
  BY DEF Behaves, IndInv, Steps, Consistent
<1>4. CASE body' = body /\ recs' = recs
  BY <1>1, <1>2, <1>3, <1>4 DEF Behaves
<1>5. CASE body' = Chained(b, I, alts, made) /\ recs' = recs \o made
  <2>1. Numbered(f)
    BY <1>3, SourceFlow
  <2>2. SameKind(f[n], I) /\ I.name = n
    BY <1>2, <1>3, <2>1, SiteHeld DEF Computes
  <2>3. I.op = f[n].op
    BY <2>2 DEF SameKind
  <2>4. I.op \in CmpOps
    BY Zenon, <1>1, <1>3, SitesTail DEF Comparisons
  <2>5. Plain(I.op) /\ \A k \in 1..Len(alts) : Plain(alts[k])
    BY <2>4, CmpPlain
  <2>6. IsList(alts) /\ Len(alts) # 0 /\ DOMAIN alts = 1..Len(alts)
    BY <2>4, CmpChoices, ListIsSeq DEF DifferentSigns
  <2>7. alts = appendPreds[I.op] /\ \A k : R(k) = makeRec(b, I, "ROR", op, predName[alts[k]], 0)
    OBVIOUS
  <2> HIDE DEF R, alts, op, I
  <2>8. IsList(made) /\ Len(made) = Len(alts) /\ \A k \in 1..Len(alts) : made[k] = R(k)
    BY <2>6 DEF IsList
  <2> HIDE DEF made
  <2>9. ASSUME NEW k \in 1..Len(made)
        PROVE  /\ made[k].at = n /\ made[k].id # 0 /\ made[k].kind # "LVR"
               /\ made[k].mut = predName[alts[k]]
    <3> DEFINE mut == predName[alts[k]]
               kind == "ROR"
               r == made[k]
    <3>1. r = makeRec(b, I, kind, op, mut, 0) /\ kind # "LVR"
      BY <2>7, <2>8
    <3> HIDE DEF mut, r, kind
    <3>2. r.at = I.name /\ r.kind = kind /\ r.mut = mut /\ r.id # 0
      BY <3>1, RecordIs
    <3> QED
      BY <3>1, <3>2, <2>2 DEF mut, r
  <2>10. ASSUME NEW k \in 1..Len(made)
         PROVE  Swaps(f, n, alts, k, EditOf(f, made[k]))
    <3> DEFINE J == f[n]
               r == made[k]
    <3>1. /\ J = f[n] /\ J.op \in CmpOps /\ alts = appendPreds[J.op] /\ k \in 1..Len(alts)
          /\ r.at = n /\ r.kind # "LVR" /\ r.mut = predName[alts[k]]
      BY <2>3, <2>4, <2>7, <2>8, <2>9
    <3> HIDE DEF J, r, n, f
    <3>2. Swaps(f, n, alts, k, EditOf(f, r))
      BY <1>2, <2>1, <3>1, CmpSwaps
    <3> QED
      BY <3>2 DEF r
  <2>11. Recorded(f, made)
    BY <1>2, <2>9, <2>10 DEF Recorded, Swaps
  <2> DEFINE c == Chained(b, I, alts, made)
  <2> HIDE DEF c, n, f, b
  <2>12. I = Ins(b, n)
    BY DEF I
  <2>13. Computes(f, c, recs \o made)
    BY <1>2, <1>3, <2>1, <2>5, <2>6, <2>8, <2>9, <2>10, <2>11, <2>12, ChainComputes DEF c
  <2>14. body' = c
    BY <1>5 DEF c
  <2> QED
    BY <1>1, <1>2, <1>5, <2>13, <2>14 DEF Behaves, f
<1> QED
  BY ZenonT(30), <1>1, <1>4, <1>5

\* The record of a constant's mutant names the constant and its other value.
LEMMA LitReplaces ==
  ASSUME NEW f \in Sources, NEW n \in 1..Len(f), Plain(f[n].op) \/ f[n].op = "ret",
         NEW oi, oi \in DOMAIN f[n].args,
         NEW r, r.at = n, r.kind = "LVR", r.oi = oi,
         NEW x, x = <<"int", IF r.mut = "0" THEN 0 ELSE 1>>
  PROVE  oi # 0 /\ Replaces(f, n, oi, x, EditOf(f, r))
<1> DEFINE e == EditOf(f, r)
<1>1. Numbered(f) /\ IsList(f[n].args)
  BY SourceFlow, SourceLayout
<1>2. oi # 0
  BY <1>1, ListIsSeq
<1>3. e.name = n /\ e.oi = oi /\ e.lit = x
  BY DEF EditOf
<1> HIDE DEF e
<1>4. e.lit = <<"int", e.lit[2]>>
  BY <1>3
<1>5. ValidEdit(f, e)
  BY <1>1, <1>2, <1>3, <1>4 DEF ValidEdit, Numbered
<1>6. n \in 0..Len(f)
  BY <1>1 DEF Numbered, Layout, IsList
<1>7. Replaces(f, n, oi, x, e)
  BY <1>2, <1>3, <1>5, <1>6 DEF Replaces, EditFor
<1> QED
  BY <1>2, <1>7 DEF e

\* The loop over constants.
LEMMA LitBehaves == IndInv /\ Behaves /\ InstrumentLit => Behaves'
<1> SUFFICES ASSUME IndInv, Behaves, InstrumentLit PROVE Behaves'
  OBVIOUS
<1> DEFINE f == source
           b == body
           n == Head(lits)[1]
           oi == Head(lits)[2]
           I == Ins(b, n)
           C == I.args[oi]
           isZero == C = <<"int", 0>>
           op == IF isZero THEN "0" ELSE "1"
           mut == IF isZero THEN "1" ELSE "0"
           x == <<"int", IF isZero THEN 1 ELSE 0>>
           kind == "LVR"
           r == makeRec(b, I, kind, op, mut, oi)
<1>1. /\ lits # <<>> /\ bins' = bins /\ cmps' = cmps /\ lits' = Tail(lits) /\ source' = source
      /\ \/ body' = body /\ recs' = recs
         \/ body' = Selected(b, I, oi, r.id, C, x) /\ recs' = Append(recs, r)
  BY Zenon DEF InstrumentLit
<1>2. n \in 1..Len(f) /\ Originals(Len(f), bins, cmps, Tail(lits))
  BY Zenon, <1>1, OriginalsTail DEF Behaves
<1>3. /\ Computes(f, b, recs) /\ f \in Sources /\ Layout(b) /\ CallsHaveIds(b)
      /\ LiteralSites(b, lits) /\ IsList(recs)
  BY DEF Behaves, IndInv, Steps, Consistent
<1>4. CASE body' = body /\ recs' = recs
  BY <1>1, <1>2, <1>3, <1>4 DEF Behaves
<1>5. CASE body' = Selected(b, I, oi, r.id, C, x) /\ recs' = Append(recs, r)
  <2>1. Numbered(f)
    BY <1>3, SourceFlow
  <2>2. SameKind(f[n], I) /\ I.name = n
    BY <1>2, <1>3, <2>1, SiteHeld DEF Computes
  <2>3. I.op = f[n].op /\ DOMAIN I.args = DOMAIN f[n].args
    BY <2>2 DEF SameKind
  <2>4. oi \in DOMAIN I.args /\ I.op \in CmpOps \union {"ret"}
    BY Zenon, <1>1, <1>3, LiteralSitesTail
  <2>5. Plain(I.op) \/ I.op = "ret"
    BY <2>4, CmpPlain
  <2>6. x = <<"int", IF mut = "0" THEN 0 ELSE 1>> /\ x = <<"int", x[2]>>
    OBVIOUS
  <2>7. C = I.args[oi] /\ I = Ins(b, n)
    OBVIOUS
  <2> DEFINE made == <<r>>
  <2> HIDE DEF r
  <2>8. recs' = recs \o made /\ IsList(made) /\ Len(made) = 1 /\ made[1] = r
    BY <1>3, <1>5, AppendIs
  <2> HIDE DEF made, mut, op, x, C, isZero, I, oi, n, f, b
  <2>9. r.at = I.name /\ r.kind = kind /\ r.mut = mut /\ r.oi = oi /\ r.id # 0
    BY RecordIs DEF r
  <2>10. r.at = n /\ r.kind = "LVR" /\ r.mut = mut /\ r.oi = oi
    BY <2>2, <2>9
  <2>11. oi \in DOMAIN f[n].args /\ (Plain(f[n].op) \/ f[n].op = "ret")
         /\ x = <<"int", IF r.mut = "0" THEN 0 ELSE 1>>
    BY <2>3, <2>4, <2>5, <2>6, <2>9
  <2>12. oi # 0 /\ Replaces(f, n, oi, x, EditOf(f, r))
    BY <1>2, <1>3, <2>10, <2>11, LitReplaces
  <2>13. Recorded(f, made)
    BY <1>2, <2>8, <2>9, <2>10, <2>12 DEF Recorded, Replaces
  <2> DEFINE c == Selected(b, I, oi, r.id, C, x)
  <2> HIDE DEF c
  <2>14. made[1].at = n /\ Replaces(f, n, oi, x, EditOf(f, made[1]))
    BY <2>8, <2>10, <2>12
  <2>15. c = Selected(b, I, oi, made[1].id, I.args[oi], x)
    BY <2>7, <2>8 DEF c
  <2>16. Computes(f, c, recs \o made)
    BY <1>2, <1>3, <2>1, <2>4, <2>5, <2>6, <2>7, <2>8, <2>13, <2>14, <2>15, SelectComputes
  <2>17. body' = c
    BY <1>5 DEF c
  <2> QED
    BY <1>1, <1>2, <2>8, <2>16, <2>17 DEF Behaves, f
<1> QED
  BY Zenon, <1>1, <1>4, <1>5

\* Before the pass nothing has changed.
LEMMA InitBehaves == Init => Behaves
<1> SUFFICES ASSUME Init PROVE Behaves
  OBVIOUS
<1>1. /\ source \in Sources /\ body = source /\ recs = <<>> /\ bins = <<>> /\ cmps = <<>>
      /\ lits = <<>>
  BY DEF Init
<1>2. Len(<<>>) = 0 /\ IsList(<<>>)
  BY DEF IsList
<1>3. Originals(Len(source), <<>>, <<>>, <<>>)
  BY <1>2 DEF Originals
<1> QED
  BY <1>1, <1>3, SourceComputes DEF Behaves

\* What is collected are sites of the source.
LEMMA CollectBehaves == IndInv /\ Behaves /\ Collect => Behaves'
<1> SUFFICES ASSUME IndInv, Behaves, Collect PROVE Behaves'
  OBVIOUS
<1>1. body' = source /\ source' = source /\ body' = body /\ recs' = recs
  BY DEF IndInv, Steps, Collect
<1>2. Sites(body', bins') /\ Sites(body', cmps') /\ LiteralSites(body', lits')
  BY CollectKeeps DEF IndInv, Consistent
<1>3. Originals(Len(source), bins', cmps', lits')
  BY <1>1, <1>2 DEF Sites, LiteralSites, Originals
<1> QED
  BY <1>1, <1>3 DEF Behaves

\* The end, and a step of nothing.
LEMMA FinishBehaves == Behaves /\ (Finish \/ UNCHANGED vars) => Behaves'
  BY DEF Behaves, Finish, vars

\* At every point of the pass the function computes what its source does.
THEOREM Simulation == Spec => [](IndInv /\ Behaves)
<1>1. IndInv /\ Behaves /\ [Next]_vars => IndInv' /\ Behaves'
  <2>1. IndInv /\ [Next]_vars => IndInv'
    BY CollectKeeps, BinKeeps, CmpKeeps, LitKeeps, FinishKeeps DEF Next
  <2>2. IndInv /\ Behaves /\ [Next]_vars => Behaves'
    BY CollectBehaves, BinBehaves, CmpBehaves, LitBehaves, FinishBehaves DEF Next
  <2> QED
    BY <2>1, <2>2
<1> QED
  BY InitIndInv, InitBehaves, <1>1, PTL DEF Spec

\* A run ends in a state that says whether it trapped.
LEMMA RunsSay ==
  ASSUME IndInv, Behaves, NEW in, NEW on
  PROVE  /\ Exec(body, in, on).trap \in BOOLEAN
         /\ \A e : EditFor(source, e) => Exec(Edit(source, e), in, on).trap \in BOOLEAN
<1>1. Layout(body) /\ CallsHaveIds(body) /\ Flow(body) /\ Holds(source, body) /\ source \in Sources
  BY DEF IndInv, Steps, Consistent, Behaves, Computes
<1>2. Layout(source) /\ CallsHaveIds(source) /\ Flow(source) /\ Len(source) # 0
  BY <1>1, SourceFlow DEF Numbered
<1>3. Len(source) \in Nat /\ Len(body) \in Nat
  BY <1>1, <1>2 DEF Layout, IsList
<1>4. 1 \in 1..Len(source)
  BY <1>2, <1>3
<1>5. Len(body) # 0
  BY <1>1, <1>3, <1>4 DEF Holds
<1>6. Exec(body, in, on).trap \in BOOLEAN
  BY <1>1, <1>5, RunFine DEF Fine
<1>7. ASSUME NEW e, EditFor(source, e) PROVE Exec(Edit(source, e), in, on).trap \in BOOLEAN
  <2> DEFINE c == Edit(source, e)
  <2>1. Alter(source, c, e)
    BY <1>2, EditIs
  <2> HIDE DEF c
  <2>2. ValidEdit(source, e)
    BY <1>7 DEF EditFor
  <2>3. Layout(c) /\ CallsHaveIds(c) /\ Flow(c)
    BY <1>2, <2>1, <2>2, EditLayout, EditFlow
  <2>4. Len(c) # 0
    BY <1>2, <2>1 DEF Alter
  <2>5. Exec(c, in, on).trap \in BOOLEAN
    BY <2>3, <2>4, RunFine DEF Fine
  <2> QED
    BY <2>5 DEF c
<1> QED
  BY <1>6, <1>7

\* Without a change and without a mutant the function runs like its source.
LEMMA RunsAlike ==
  ASSUME IndInv, Behaves, NEW in
  PROVE  /\ Like(Len(source), recs, Exec(body, in, 0), Exec(source, in, 0))
         /\ Exec(body, in, 0).trap \in BOOLEAN /\ Exec(source, in, 0).trap \in BOOLEAN
<1> DEFINE e == NoChange
<1>1. Layout(body) /\ Layout(source)
  BY SourceLayout DEF IndInv, Steps, Consistent
<1>2. e.name = 0
  BY DEF NoChange
<1> HIDE DEF e
<1>3. Edit(body, e) = body /\ Edit(source, e) = source /\ ValidEdit(source, e)
  BY <1>1, <1>2, NoEdit
<1>4. e.name \in 0..Len(source)
  BY <1>1, <1>2 DEF Layout, IsList
<1>5. EditFor(source, e)
  BY <1>3, <1>4 DEF EditFor
<1>6. 0 \notin Ids(recs)
  BY DEF Behaves, Computes, Recorded, Ids
<1>7. Alike(source, body, recs)
  BY DEF Behaves, Computes
<1>8. Like(Len(source), recs, Exec(Edit(body, e), in, 0), Exec(Edit(source, e), in, 0))
  BY <1>5, <1>6, <1>7 DEF Alike
<1>9. Exec(body, in, 0).trap \in BOOLEAN /\ Exec(Edit(source, e), in, 0).trap \in BOOLEAN
  BY <1>5, RunsSay
<1> QED
  BY <1>3, <1>8, <1>9

\* Two runs of which the second ends as the first, if that does not trap.
LEMMA EndsSame ==
  ASSUME NEW m, NEW s, m.trap \in BOOLEAN, s.trap \in BOOLEAN, Ends(m, s)
  PROVE  SameUnlessTrap(m, s)
  BY DEF Ends, SameUnlessTrap

\* With no mutant active the function returns what it returned before the pass.
THEOREM OffIsSame == Spec => []SameWhenOff
<1>1. IndInv /\ Behaves => SameWhenOff
  <2> SUFFICES ASSUME IndInv, Behaves, NEW in \in Inputs
               PROVE  SameUnlessTrap(Exec(body, in, 0), Exec(source, in, 0))
    BY DEF SameWhenOff
  <2> DEFINE m == Exec(body, in, 0)
             s == Exec(source, in, 0)
  <2>1. Like(Len(source), recs, m, s) /\ m.trap \in BOOLEAN /\ s.trap \in BOOLEAN
    BY RunsAlike
  <2> HIDE DEF m, s
  <2>2. Ends(m, s)
    BY <2>1 DEF Like, Ends
  <2>3. SameUnlessTrap(m, s)
    BY <2>1, <2>2, EndsSame
  <2> QED
    BY <2>3 DEF m, s
<1> QED
  BY <1>1, Simulation, PTL

\* A run asks for exactly the mutants whose place the function executes.
THEOREM CoverageIsTrue == Spec => []AsksWhereItRuns
<1>1. IndInv /\ Behaves => AsksWhereItRuns
  <2> SUFFICES ASSUME IndInv, Behaves, NEW in \in Inputs, ~Exec(body, in, 0).trap
               PROVE  Exec(body, in, 0).hits =
                        {recs[i].id : i \in {j \in DOMAIN recs : recs[j].at \in Exec(source, in, 0).seen}}
    BY DEF AsksWhereItRuns
  <2> DEFINE m == Exec(body, in, 0)
             s == Exec(source, in, 0)
  <2>1. Like(Len(source), recs, m, s) /\ m.trap \in BOOLEAN /\ ~m.trap
    BY RunsAlike
  <2> HIDE DEF m, s
  <2>2. m.hits = Reached(recs, s.seen)
    BY <2>1 DEF Like
  <2>3. DOMAIN recs = 1..Len(recs)
    BY ListIsSeq DEF IndInv, Consistent
  <2> QED
    BY <2>2, <2>3 DEF Reached, m, s
<1> QED
  BY <1>1, Simulation, PTL

\* The source with a record's change is the change made to the source.
LEMMA MutatedIs ==
  ASSUME source \in Sources, NEW r, r.at \in 1..Len(source), r.kind = "LVR" => r.oi # 0
  PROVE  Mutated(r) = Edit(source, EditOf(source, r))
<1> DEFINE f == source
           e == EditOf(f, r)
           Alts(I) == ToSet(appendBins(I.op)) \union (IF I.op \in CmpOps THEN ToSet(appendPreds[I.op]) ELSE {})
           Op(I) == CHOOSE q \in Alts(I) : r.mut = IF I.op \in CmpOps THEN predName[q] ELSE binName(q, I.ty)
           lit == <<"int", IF r.mut = "0" THEN 0 ELSE 1>>
           F(I) == IF I.name # r.at THEN I
                   ELSE IF r.kind = "LVR" THEN [I EXCEPT !.args[r.oi] = lit]
                   ELSE [I EXCEPT !.op = Op(I)]
           G(I) == IF I.name = e.name THEN Edited(I, e) ELSE I
<1>1. Mutated(r) = [i \in DOMAIN f |-> F(f[i])]
  BY DEF Mutated
<1>2. Edit(f, e) = [i \in DOMAIN f |-> G(f[i])]
  BY DEF Edit
<1>3. e.name = r.at /\ e.lit = lit /\ e.oi = (IF r.kind = "LVR" THEN r.oi ELSE 0) /\ e.op = Op(f[r.at])
  BY DEF EditOf
<1>4. Numbered(f) /\ DOMAIN f = 1..Len(f)
  BY SourceFlow, ListIsSeq DEF Numbered, Layout
<1> HIDE DEF e, Op, lit
<1>5. ASSUME NEW i \in DOMAIN f PROVE F(f[i]) = G(f[i])
  <2>1. f[i].name = i
    BY <1>4 DEF Numbered
  <2>2. CASE i # r.at
    BY <1>3, <2>1, <2>2
  <2>3. CASE i = r.at /\ r.kind = "LVR"
    BY <1>3, <2>1, <2>3 DEF Edited
  <2>4. CASE i = r.at /\ r.kind # "LVR"
    BY <1>3, <2>1, <2>4 DEF Edited
  <2> QED
    BY <2>2, <2>3, <2>4
<1> HIDE DEF F, G
<1>6. Mutated(r) = Edit(f, e)
  BY <1>1, <1>2, <1>5
<1> QED
  BY <1>6 DEF e

\* A mutant whose id no other has changes the function as its record says.
THEOREM MutantIsOneChange == Spec => []OneChange
<1>1. IndInv /\ Behaves => OneChange
  <2> SUFFICES ASSUME IndInv, Behaves, NEW i \in DOMAIN recs,
                      \A j \in DOMAIN recs \ {i} : recs[j].id # recs[i].id, NEW in \in Inputs
               PROVE  SameUnlessTrap(Exec(body, in, recs[i].id), Exec(Mutated(recs[i]), in, 0))
    BY DEF OneChange
  <2> DEFINE f == source
             r == recs[i]
             e == EditOf(f, r)
             m == Exec(body, in, r.id)
             s == Exec(Edit(f, e), in, 0)
  <2>1. DOMAIN recs = 1..Len(recs)
    BY ListIsSeq DEF IndInv, Consistent
  <2>2. Alone(recs, i)
    BY <2>1 DEF Alone
  <2>3. Ends(m, s)
    BY <2>1, <2>2 DEF Behaves, Computes, OneEach
  <2>4. r.at \in 1..Len(f) /\ (r.kind = "LVR" => r.oi # 0) /\ EditFor(f, e) /\ f \in Sources
    BY <2>1 DEF Behaves, Computes, Recorded, IndInv, Steps
  <2>5. Mutated(r) = Edit(f, e)
    BY <2>4, MutatedIs
  <2> HIDE DEF e
  <2>6. m.trap \in BOOLEAN /\ s.trap \in BOOLEAN
    BY <2>4, RunsSay
  <2> HIDE DEF m, s
  <2>7. SameUnlessTrap(m, s)
    BY <2>3, <2>6, EndsSame
  <2> QED
    BY <2>5, <2>7 DEF m, s
<1> QED
  BY <1>1, Simulation, PTL
=============================================================================
