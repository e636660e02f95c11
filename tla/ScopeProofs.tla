---------------------------- MODULE ScopeProofs -----------------------------
(***************************************************************************)
(* Theorems about Scope, for any command lines, any changes, any catalogue *)
(* and any working tree.                                                   *)
(***************************************************************************)
EXTENDS Scope, SequenceLemmas

(* The command line *)

\* The words of the options, and how many of them stand before an option.
WordLists(c) == [k \in 1..Len(c.options) |-> c.options[k].words]
Upto(c) == CHOOSE p : Joined(Word, WordLists(c), p)
Before(c, k) == Len(Upto(c)[k])
Behind(c) == IF c.dashes THEN 1 ELSE 0

\* The words of the options are joined one option after another.
LEMMA OptionsAreJoined ==
  ASSUME NEW c, IsCase(c)
  PROVE  /\ WordLists(c) \in Seq(Seq(Word)) /\ Len(WordLists(c)) = Len(c.options)
         /\ Len(c.options) \in Nat
         /\ \A k \in 1..Len(c.options) : WordLists(c)[k] = c.options[k].words
         /\ Joined(Word, WordLists(c), Upto(c))
<1>1. c.options \in Seq([means : STRING, words : Seq(Word), bad : BOOLEAN])
  BY DEF IsCase
<1>2. Len(c.options) \in Nat /\ \A k \in 1..Len(c.options) : c.options[k].words \in Seq(Word)
  <2> DEFINE R == [means : STRING, words : Seq(Word), bad : BOOLEAN]
  <2>1. \A r \in R : r.words \in Seq(Word)
    OBVIOUS
  <2>2. c.options \in Seq(R)
    BY <1>1
  <2> HIDE DEF R
  <2>3. Len(c.options) \in Nat /\ \A k \in 1..Len(c.options) : c.options[k] \in R
    BY <2>2
  <2> QED
    BY <2>1, <2>3
<1>3. /\ WordLists(c) \in Seq(Seq(Word)) /\ Len(WordLists(c)) = Len(c.options)
      /\ \A k \in 1..Len(c.options) : WordLists(c)[k] = c.options[k].words
  BY <1>2 DEF WordLists
<1>4. \E p : Joined(Word, WordLists(c), p)
  BY <1>3, FlattenJoins
<1>5. Joined(Word, WordLists(c), Upto(c))
  BY <1>4 DEF Upto
<1> QED
  BY <1>2, <1>3, <1>5

\* The words of an option stand behind those of the options before it.
LEMMA OptionWords ==
  ASSUME NEW c, IsCase(c), NEW k \in 1..Len(c.options)
  PROVE  /\ Before(c, k - 1) \in Nat
         /\ Before(c, k) = Before(c, k - 1) + Len(c.options[k].words)
         /\ c.options[k].words \in Seq(Word) /\ Len(c.options[k].words) \in Nat
<1> DEFINE ss == WordLists(c)
           p == Upto(c)
<1>1. ss \in Seq(Seq(Word)) /\ k \in 1..Len(ss) /\ Joined(Word, ss, p) /\ ss[k] = c.options[k].words
  BY OptionsAreJoined
<1> HIDE DEF ss, p
<1>2. Follows(p[k], p[k - 1], ss[k]) /\ ss[k] \in Seq(Word)
  BY <1>1, JoinedStep
<1> QED
  BY <1>1, <1>2 DEF p, Before, Follows

\* All words: those of the options, two dashes if there are any, the command.
LEMMA AllWords ==
  ASSUME NEW c, IsCase(c)
  PROVE  /\ Words(c) \in Seq(Word) /\ Before(c, 0) = 0
         /\ Before(c, Len(c.options)) \in Nat
         /\ Len(Words(c)) = Before(c, Len(c.options)) + Behind(c) + Len(c.cmd)
         /\ \A x \in 1..Before(c, Len(c.options)) : Words(c)[x] = FlattenSeq(WordLists(c))[x]
         /\ c.dashes => Words(c)[Before(c, Len(c.options)) + 1] = Dashes
         /\ \A y \in 1..Len(c.cmd) :
              Words(c)[Before(c, Len(c.options)) + Behind(c) + y] = c.cmd[y]
<1> DEFINE ss == WordLists(c)
           p == Upto(c)
           n == Len(c.options)
           f == FlattenSeq(ss)
           d == IF c.dashes THEN <<Dashes>> ELSE <<>>
           e == c.cmd
<1>1. ss \in Seq(Seq(Word)) /\ Len(ss) = n /\ Joined(Word, ss, p)
  BY OptionsAreJoined
<1>2. Words(c) = (f \o d) \o e
  BY DEF Words, WordLists
<1>3. /\ Dashes \in Word
      /\ c.dashes => Len(d) = 1 /\ d[1] = Dashes
      /\ ~c.dashes => Len(d) = 0
  BY DEF Word
<1>4. d \in Seq(Word) /\ Len(d) = Behind(c)
  BY <1>3 DEF Behind
<1>5. e \in Seq(Word)
  BY DEF IsCase
<1> HIDE DEF ss, p, n, f, d, e
<1>6. p[0] = <<>> /\ Len(p[0]) = 0 /\ p[n] = f /\ f \in Seq(Word)
  BY <1>1, JoinedEnds DEF f
<1>7. Len(f) = Before(c, n)
  BY <1>6 DEF Before, p
<1>8. f \o d \in Seq(Word) /\ Follows(f \o d, f, d)
  BY <1>6, <1>4, ConcatFollows
<1> DEFINE fd == f \o d
           w == fd \o e
<1>9. fd \in Seq(Word) /\ Follows(fd, f, d)
  BY <1>8
<1> HIDE DEF fd
<1>10. w \in Seq(Word) /\ Follows(w, fd, e)
  BY <1>9, <1>5, ConcatFollows
<1> HIDE DEF w
<1>11. Len(f) \in Nat /\ Len(w) = Len(f) + Len(d) + Len(e)
  BY ONLY <1>9, <1>10 DEF Follows
<1>12. ASSUME NEW x \in 1..Len(f) PROVE w[x] = f[x]
  <2>1. x \in 1..Len(fd) /\ fd[x] = f[x]
    BY ONLY <1>9, x \in 1..Len(f) DEF Follows
  <2> QED
    BY ONLY <2>1, <1>10 DEF Follows
<1>13. ASSUME NEW y \in 1..Len(d) PROVE w[Len(f) + y] = d[y]
  <2>1. Len(f) + y \in 1..Len(fd) /\ fd[Len(f) + y] = d[y]
    BY ONLY <1>9, y \in 1..Len(d) DEF Follows
  <2> QED
    BY ONLY <2>1, <1>10 DEF Follows
<1>14. ASSUME NEW y \in 1..Len(e) PROVE w[Len(f) + Len(d) + y] = e[y]
  BY ONLY <1>9, <1>10, y \in 1..Len(e) DEF Follows
<1>15. Words(c) = w
  BY <1>2 DEF w, fd
<1>16. c.dashes => w[Len(f) + 1] = Dashes
  <2> SUFFICES ASSUME c.dashes PROVE w[Len(f) + 1] = Dashes
    OBVIOUS
  <2>1. 1 \in 1..Len(d) /\ d[1] = Dashes
    BY <1>3
  <2> QED
    BY ONLY <2>1, <1>13
<1>17. Before(c, 0) = 0
  BY <1>6 DEF Before, p
<1> QED
  BY <1>4, <1>7, <1>10, <1>11, <1>12, <1>14, <1>15, <1>16, <1>17 DEF n, f, ss, e

\* The words of the options in the command line.
LEMMA OptionWordIs ==
  ASSUME NEW c, IsCase(c), NEW k \in 1..Len(c.options), NEW y \in 1..Len(c.options[k].words)
  PROVE  /\ Before(c, k - 1) + y \in 1..Len(Words(c))
         /\ Words(c)[Before(c, k - 1) + y] = c.options[k].words[y]
<1> DEFINE ss == WordLists(c)
           p == Upto(c)
           n == Len(c.options)
           x == Len(p[k - 1]) + y
<1>1. /\ ss \in Seq(Seq(Word)) /\ k \in 1..Len(ss) /\ Joined(Word, ss, p) /\ Len(ss) = n
      /\ y \in 1..Len(ss[k]) /\ ss[k] = c.options[k].words
  BY OptionsAreJoined
<1>2. /\ \A z \in 1..Before(c, n) : Words(c)[z] = FlattenSeq(ss)[z]
      /\ Len(Words(c)) = Before(c, n) + Behind(c) + Len(c.cmd) /\ Before(c, n) \in Nat
  BY AllWords
<1>3. Behind(c) \in Nat /\ Len(c.cmd) \in Nat
  <2>1. c.cmd \in Seq(Word)
    BY DEF IsCase
  <2> QED
    BY <2>1 DEF Behind
<1> HIDE DEF ss, n, p
<1>4. x \in 1..Len(FlattenSeq(ss)) /\ FlattenSeq(ss)[x] = ss[k][y]
  BY ONLY <1>1, JoinedPlace
<1>5. p[Len(ss)] = FlattenSeq(ss)
  BY <1>1, JoinedEnds
<1>6. Len(FlattenSeq(ss)) = Before(c, n)
  BY <1>1, <1>5 DEF Before, p
<1>7. x \in 1..Before(c, n)
  BY <1>4, <1>6
<1>8. Words(c)[x] = c.options[k].words[y]
  BY <1>1, <1>2, <1>4, <1>7
<1>9. x \in 1..Len(Words(c))
  BY ONLY <1>2, <1>3, <1>7
<1> QED
  BY <1>8, <1>9 DEF Before, p
-----------------------------------------------------------------------------
(* Options *)

Fields ==
  {"min_score", "min_score_set", "git_diff", "git_base", "timeout_ms", "jobs", "no_coverage",
   "catalog_dir", "json_out", "binaries", "cmd"}
IsOptions(r) == r = [f \in Fields |-> r[f]] /\ (r.git_diff = TRUE \/ r.git_diff = FALSE)
Takes == ValueOptions \union AssignOptions \union {"no_coverage"}

\* The defaults, with which parse_args begins, are options for one job and no command.
LEMMA DefaultsAreOptions == IsOptions(Defaults) /\ Defaults.jobs = 1 /\ Defaults.cmd = <<>>
BY DEF IsOptions, Defaults, Fields

\* An option changes its own field: the jobs only if it is about them, and never
\* the command.
LEMMA AssignIs ==
  ASSUME NEW opts, IsOptions(opts), NEW option \in Takes, NEW word
  PROVE  /\ IsOptions(Assign(opts, option, word))
         /\ Assign(opts, option, word).jobs = IF option = "jobs" THEN word.num ELSE opts.jobs
         /\ Assign(opts, option, word).cmd = opts.cmd
<1> DEFINE a == Assign(opts, option, word)
<1>1. CASE option = "binary"
  <2>1. a = [opts EXCEPT !.binaries = Append(@, word.text)]
    BY <1>1 DEF Assign
  <2> HIDE DEF a
  <2>2. IsOptions(a) /\ a.jobs = opts.jobs /\ a.cmd = opts.cmd
    BY <2>1 DEF IsOptions, Fields
  <2> QED
    BY <2>2, <1>1 DEF a
<1>2. CASE option = "min_score"
  <2>1. a = [opts EXCEPT !.min_score = word.num, !.min_score_set = TRUE]
    BY <1>2 DEF Assign
  <2> HIDE DEF a
  <2>2. IsOptions(a) /\ a.jobs = opts.jobs /\ a.cmd = opts.cmd
    BY <2>1 DEF IsOptions, Fields
  <2> QED
    BY <2>2, <1>2 DEF a
<1>3. CASE option = "timeout_ms"
  <2>1. a = [opts EXCEPT !.timeout_ms = word.num]
    BY <1>3 DEF Assign
  <2> HIDE DEF a
  <2>2. IsOptions(a) /\ a.jobs = opts.jobs /\ a.cmd = opts.cmd
    BY <2>1 DEF IsOptions, Fields
  <2> QED
    BY <2>2, <1>3 DEF a
<1>4. CASE option = "jobs"
  <2>1. a = [opts EXCEPT !.jobs = word.num]
    BY <1>4 DEF Assign
  <2> HIDE DEF a
  <2>2. IsOptions(a) /\ a.jobs = word.num /\ a.cmd = opts.cmd
    BY <2>1 DEF IsOptions, Fields
  <2> QED
    BY <2>2, <1>4 DEF a
<1>5. CASE option = "no_coverage"
  <2>1. a = [opts EXCEPT !.no_coverage = TRUE]
    BY <1>5 DEF Assign
  <2> HIDE DEF a
  <2>2. IsOptions(a) /\ a.jobs = opts.jobs /\ a.cmd = opts.cmd
    BY <2>1 DEF IsOptions, Fields
  <2> QED
    BY <2>2, <1>5 DEF a
<1>6. CASE option = "git_diff"
  <2>1. a = [opts EXCEPT !.git_diff = TRUE, !.git_base = word.text]
    BY <1>6 DEF Assign
  <2> HIDE DEF a
  <2>2. IsOptions(a) /\ a.jobs = opts.jobs /\ a.cmd = opts.cmd
    BY <2>1 DEF IsOptions, Fields
  <2> QED
    BY <2>2, <1>6 DEF a
<1>7. CASE option = "catalog_dir"
  <2>1. a = [opts EXCEPT !.catalog_dir = word.text]
    BY <1>7 DEF Assign
  <2> HIDE DEF a
  <2>2. IsOptions(a) /\ a.jobs = opts.jobs /\ a.cmd = opts.cmd
    BY <2>1 DEF IsOptions, Fields
  <2> QED
    BY <2>2, <1>7 DEF a
<1>8. CASE option = "json_out"
  <2>1. a = [opts EXCEPT !.json_out = word.text]
    BY <1>8 DEF Assign
  <2> HIDE DEF a
  <2>2. IsOptions(a) /\ a.jobs = opts.jobs /\ a.cmd = opts.cmd
    BY <2>1 DEF IsOptions, Fields
  <2> QED
    BY <2>2, <1>8 DEF a
<1> QED
  BY <1>1, <1>2, <1>3, <1>4, <1>5, <1>6, <1>7, <1>8 DEF Takes, ValueOptions, AssignOptions

\* The options as far as they have been read, and what they mean together.
First(k) == SubSeq(given.options, 1, k)
MeantFirst(k) == MeantBy(First(k), <<>>)
\* One option more.
Followed(opts, option) ==
  IF option.means = "base_default" THEN [opts EXCEPT !.git_diff = TRUE]
  ELSE Assign(opts, option.means, Last(option.words))

\* The last of a sequence that has been appended to.
LEMMA LastAppended ==
  ASSUME NEW A, NEW s \in Seq(A), NEW x \in A
  PROVE  Append(s, x) # <<>> /\ Last(Append(s, x)) = x
<1>1. Len(Append(s, x)) = Len(s) + 1 /\ Append(s, x)[Len(s) + 1] = x /\ Len(s) \in Nat
  BY AppendProperties
<1>2. Append(s, x) # <<>>
  <2>1. Len(<<>>) = 0 /\ Len(s) + 1 # 0
    BY <1>1
  <2> QED
    BY <2>1, <1>1
<1> QED
  BY <1>1, <1>2 DEF Last

Lasts(A) == {Last(y.words) : y \in A}

\* What one option more gives: its value if it has that meaning, else nothing.
LEMMA ValuesMore ==
  ASSUME NEW A, NEW s \in Seq(A), NEW x \in A, NEW what
  PROVE  /\ Values(s, what) \in Seq(Lasts(A)) /\ Last(x.words) \in Lasts(A)
         /\ Values(Append(s, x), what) =
              IF x.means = what THEN Append(Values(s, what), Last(x.words)) ELSE Values(s, what)
<1> DEFINE u == Append(s, x)
           S == {y \in ToSet(s) : y.means = what}
           T == {y \in ToSet(u) : y.means = what}
           v == Select(s, S)
           w == Select(u, T)
           e == Last(x.words)
           R == Lasts(A)
<1>1. /\ Len(s) \in Nat /\ DOMAIN s = 1..Len(s)
      /\ u \in Seq(A) /\ DOMAIN u = 1..Len(u) /\ Len(u) = Len(s) + 1 /\ u[Len(s) + 1] = x
      /\ \A n \in 1..Len(s) : u[n] = s[n]
  BY AppendProperties
<1> HIDE DEF u
<1>2. ASSUME NEW n \in 1..Len(s) PROVE s[n] \in S <=> s[n] \in T
  <2>1. n \in 1..Len(u)
    BY <1>1
  <2>2. s[n] \in ToSet(s)
    BY <1>1 DEF ToSet
  <2>3. s[n] \in ToSet(u)
    BY <1>1, <2>1 DEF ToSet
  <2> QED
    BY <2>2, <2>3
<1>3. x \in T <=> x.means = what
  <2>1. Len(s) + 1 \in 1..Len(u)
    BY <1>1
  <2>2. x \in ToSet(u)
    BY <1>1, <2>1 DEF ToSet
  <2> QED
    BY <2>2
<1>4. v \in Seq(A)
  <2> HIDE DEF S
  <2> QED
    BY SelectIs
<1>5. w = IF x \in T THEN Append(v, x) ELSE v
  <2> HIDE DEF S, T
  <2> QED
    BY <1>2, SelectMore DEF u
<1>6. e \in R /\ \A y \in A : Last(y.words) \in R
  BY DEF Lasts
<1>7. Values(s, what) = [n \in 1..Len(v) |-> Last(v[n].words)]
  BY DEF Values
<1>8. Values(u, what) = [n \in 1..Len(w) |-> Last(w[n].words)]
  BY DEF Values
<1> HIDE DEF S, T, v, w, e, R
<1> DEFINE f == Values(s, what)
           l == Len(v)
<1>9. l \in Nat /\ \A n \in 1..l : v[n] \in A
  BY <1>4
<1>10. f \in Seq(R) /\ Len(f) = l /\ \A n \in 1..l : f[n] = Last(v[n].words)
  BY <1>6, <1>7, <1>9
<1> HIDE DEF f, l
<1>11. CASE x.means = what
  <2>1. w = Append(v, x)
    BY <1>3, <1>5, <1>11
  <2>2. Len(w) = l + 1 /\ w[l + 1] = x /\ \A n \in 1..l : w[n] = v[n]
    BY <1>4, <2>1, AppendProperties DEF l
  <2> DEFINE g == Append(f, e)
  <2>3. g \in Seq(R) /\ Len(g) = l + 1 /\ g[l + 1] = e /\ \A n \in 1..l : g[n] = f[n]
    BY <1>6, <1>10, AppendProperties
  <2> HIDE DEF g
  <2>4. DOMAIN g = 1..l + 1
    BY <2>3
  <2>5. ASSUME NEW n \in 1..l + 1 PROVE Last(w[n].words) = g[n]
    <3>1. CASE n = l + 1
      BY <3>1, <2>2, <2>3 DEF e
    <3>2. CASE n \in 1..l
      BY <3>2, <2>2, <2>3, <1>10
    <3> QED
      BY <3>1, <3>2, <1>9
  <2>6. g = [n \in 1..l + 1 |-> g[n]]
    BY <2>3, <2>4
  <2>7. Values(u, what) = g
    BY <1>8, <2>2, <2>5, <2>6
  <2> QED
    BY <1>6, <1>10, <1>11, <2>7 DEF f, g, u, e, R
<1>12. CASE x.means # what
  <2>1. w = v
    BY <1>3, <1>5, <1>12
  <2> QED
    BY <1>6, <1>7, <1>8, <1>10, <1>12, <2>1 DEF f, u, e, R
<1> QED
  BY <1>11, <1>12

\* An option gives the number and the text of its own meaning.
LEMMA GivesOwn ==
  ASSUME NEW A, NEW s \in Seq(A), NEW x \in A, NEW what, NEW d, x.means = what
  PROVE  /\ Given(Append(s, x), what) = TRUE
         /\ NumberOf(Append(s, x), what, d) = Last(x.words).num
         /\ TextOf(Append(s, x), what, d) = Last(x.words).text
<1> DEFINE R == Lasts(A)
           u == Append(s, x)
           f == Values(s, what)
           g == Values(u, what)
           e == Last(x.words)
<1>1. f \in Seq(R) /\ e \in R /\ g = Append(f, e)
  BY ValuesMore
<1> HIDE DEF R, f, g, u, e
<1>2. g # <<>> /\ Last(g) = e
  BY <1>1, LastAppended
<1>3. Given(u, what) = TRUE
  BY <1>2 DEF Given, g
<1>4. NumberOf(u, what, d) = e.num /\ TextOf(u, what, d) = e.text
  BY <1>2, <1>3 DEF NumberOf, TextOf, g
<1> QED
  BY <1>3, <1>4 DEF u, e

\* It gives nothing to another meaning.
LEMMA GivesNoOther ==
  ASSUME NEW A, NEW s \in Seq(A), NEW x \in A, NEW what, NEW d, x.means # what
  PROVE  /\ Given(Append(s, x), what) = Given(s, what)
         /\ NumberOf(Append(s, x), what, d) = NumberOf(s, what, d)
         /\ TextOf(Append(s, x), what, d) = TextOf(s, what, d)
<1>1. Values(Append(s, x), what) = Values(s, what)
  BY ValuesMore
<1>2. Given(Append(s, x), what) = Given(s, what)
  BY <1>1 DEF Given
<1> QED
  BY <1>1, <1>2 DEF NumberOf, TextOf

\* The texts of one word more.
LEMMA TextsMore ==
  ASSUME NEW A, NEW s \in Seq(A), NEW x \in A
  PROVE  Texts(Append(s, x)) = Append(Texts(s), x.text)
<1> DEFINE u == Append(s, x)
           l == Len(s)
           R == {y.text : y \in A}
           t == Texts(s)
           g == Append(t, x.text)
<1>1. /\ l \in Nat /\ Len(u) = l + 1 /\ u[l + 1] = x /\ \A n \in 1..l : u[n] = s[n] /\ s[n] \in A
  BY AppendProperties
<1>2. Texts(u) = [n \in 1..Len(u) |-> u[n].text] /\ t = [n \in 1..l |-> s[n].text]
  BY DEF Texts
<1>3. x.text \in R
  OBVIOUS
<1> HIDE DEF u, l, t
<1>4. t \in Seq(R) /\ Len(t) = l /\ \A n \in 1..l : t[n] = s[n].text
  BY <1>1, <1>2
<1> HIDE DEF R
<1>5. g \in Seq(R) /\ Len(g) = l + 1 /\ g[l + 1] = x.text /\ \A n \in 1..l : g[n] = t[n]
  BY <1>3, <1>4, AppendProperties
<1> HIDE DEF g
<1>6. DOMAIN g = 1..l + 1
  BY <1>5
<1>7. ASSUME NEW n \in 1..l + 1 PROVE u[n].text = g[n]
  <2>1. CASE n = l + 1
    BY <2>1, <1>1, <1>5
  <2>2. CASE n \in 1..l
    BY <2>2, <1>1, <1>4, <1>5
  <2> QED
    BY <2>1, <2>2, <1>1
<1>8. g = [n \in 1..l + 1 |-> g[n]]
  BY <1>5, <1>6
<1>9. Texts(u) = g
  BY <1>1, <1>2, <1>7, <1>8
<1> QED
  BY <1>9 DEF u, g, t

\* No option leaves the defaults.
LEMMA MeantAtFirst == MeantBy(<<>>, <<>>) = Defaults
<1>1. ASSUME NEW what PROVE Values(<<>>, what) = <<>>
  <2> DEFINE S == {y \in ToSet(<<>>) : y.means = what}
             v == Select(<<>>, S)
  <2>1. <<>> \in Seq({}) /\ Len(<<>>) = 0
    OBVIOUS
  <2> HIDE DEF S
  <2>2. v \in Seq({}) /\ Len(v) <= 0
    BY <2>1, SelectIs
  <2> HIDE DEF v
  <2>3. Len(v) = 0
    BY <2>2
  <2>4. Values(<<>>, what) = [n \in 1..Len(v) |-> Last(v[n].words)]
    BY DEF Values, v, S
  <2> QED
    BY <2>3, <2>4
<1>2. ASSUME NEW what, NEW d
      PROVE  /\ Given(<<>>, what) = FALSE
             /\ NumberOf(<<>>, what, d) = d /\ TextOf(<<>>, what, d) = d
  BY <1>1 DEF Given, NumberOf, TextOf
<1>3. Texts(<<>>) = <<>>
  BY DEF Texts
<1> QED
  BY <1>1, <1>2, <1>3 DEF MeantBy, Defaults

\* What the options mean together is what follows from them one after another.
LEMMA MeantMore ==
  ASSUME NEW A, NEW s \in Seq(A), NEW x \in A, x.means \in Takes \union {"base_default"}
  PROVE  MeantBy(Append(s, x), <<>>) = Followed(MeantBy(s, <<>>), x)
<1> DEFINE u == Append(s, x)
           e == Last(x.words)
           o1 == MeantBy(s, <<>>)
           o2 == MeantBy(u, <<>>)
           b1 == Texts(Values(s, "binary"))
           b2 == Texts(Values(u, "binary"))
<1>1. ASSUME NEW what, NEW d, x.means = what
      PROVE  /\ Given(u, what) = TRUE
             /\ NumberOf(u, what, d) = e.num /\ TextOf(u, what, d) = e.text
  BY <1>1, GivesOwn
<1>2. ASSUME NEW what, NEW d, x.means # what
      PROVE  /\ Given(u, what) = Given(s, what)
             /\ NumberOf(u, what, d) = NumberOf(s, what, d)
             /\ TextOf(u, what, d) = TextOf(s, what, d)
  BY <1>2, GivesNoOther
<1>3. b2 = IF x.means = "binary" THEN Append(b1, e.text) ELSE b1
  <2> DEFINE R == Lasts(A)
             f == Values(s, "binary")
             g == Values(u, "binary")
  <2>1. /\ f \in Seq(R) /\ e \in R
        /\ g = IF x.means = "binary" THEN Append(f, e) ELSE f
    BY ValuesMore
  <2> HIDE DEF R, f, g, u, e
  <2>2. Texts(Append(f, e)) = Append(Texts(f), e.text)
    BY <2>1, TextsMore
  <2> QED
    BY <2>1, <2>2 DEF f, g
<1> DEFINE
     score(t) == NumberOf(t, "min_score", 0)
     score_set(t) == Given(t, "min_score")
     diff(t) == Given(t, "git_diff") \/ Given(t, "base_default")
     base(t) == TextOf(t, "git_diff", "HEAD")
     timeout(t) == NumberOf(t, "timeout_ms", 0)
     jobs(t) == NumberOf(t, "jobs", 1)
     uncovered(t) == Given(t, "no_coverage")
     dir(t) == TextOf(t, "catalog_dir", "")
     json(t) == TextOf(t, "json_out", "")
     none == Texts(<<>>)
<1>4. o1 = [min_score |-> score(s), min_score_set |-> score_set(s), git_diff |-> diff(s),
            git_base |-> base(s), timeout_ms |-> timeout(s), jobs |-> jobs(s),
            no_coverage |-> uncovered(s), catalog_dir |-> dir(s), json_out |-> json(s),
            binaries |-> b1, cmd |-> none]
  BY DEF MeantBy
<1>5. o2 = [min_score |-> score(u), min_score_set |-> score_set(u), git_diff |-> diff(u),
            git_base |-> base(u), timeout_ms |-> timeout(u), jobs |-> jobs(u),
            no_coverage |-> uncovered(u), catalog_dir |-> dir(u), json_out |-> json(u),
            binaries |-> b2, cmd |-> none]
  BY DEF MeantBy
<1> HIDE DEF u, e, o1, o2, b1, b2
<1>6. x.means = "min_score" => score_set(u) = TRUE
  BY <1>1
<1>7. x.means = "no_coverage" => uncovered(u) = TRUE
  BY <1>1
<1>8. x.means = "min_score" => score(u) = e.num
  BY <1>1
<1>9. x.means # "min_score" => score(u) = score(s) /\ score_set(u) = score_set(s)
  BY <1>2
<1>10. x.means \in {"git_diff", "base_default"} => diff(u) = TRUE
  BY <1>1
<1>11. x.means \notin {"git_diff", "base_default"} => diff(u) = diff(s)
  BY <1>2
<1>12. base(u) = IF x.means = "git_diff" THEN e.text ELSE base(s)
  BY <1>1, <1>2
<1>13. timeout(u) = IF x.means = "timeout_ms" THEN e.num ELSE timeout(s)
  BY <1>1, <1>2
<1>14. jobs(u) = IF x.means = "jobs" THEN e.num ELSE jobs(s)
  BY <1>1, <1>2
<1>15. x.means # "no_coverage" => uncovered(u) = uncovered(s)
  BY <1>2
<1>16. dir(u) = IF x.means = "catalog_dir" THEN e.text ELSE dir(s)
  BY <1>1, <1>2
<1>17. json(u) = IF x.means = "json_out" THEN e.text ELSE json(s)
  BY <1>1, <1>2
<1> HIDE DEF score, score_set, diff, base, timeout, jobs, uncovered, dir, json, none
<1> DEFINE yes == TRUE
           more == Append(b1, e.text)
           a == Assign(o1, x.means, e)
<1>18. yes = TRUE
  OBVIOUS
<1>19. x.means # "base_default" => Followed(o1, x) = a
  BY DEF Followed, e
<1>27. b2 = IF x.means = "binary" THEN more ELSE b1
  BY <1>3
<1> HIDE DEF yes, more
<1>28. CASE x.means = "base_default"
  <2>1. Followed(o1, x) = [o1 EXCEPT !.git_diff = TRUE]
    BY <1>28 DEF Followed
  <2>2. diff(u) = yes
    BY <1>6, <1>7, <1>10, <1>18, <1>28
  <2>3. o2 = [o1 EXCEPT !.git_diff = yes]
    BY ONLY <2>2, <1>8, <1>27, <1>4, <1>5, <1>9, <1>11, <1>12, <1>13, <1>14, <1>15, <1>16, <1>17, <1>28
  <2> QED
    BY <2>1, <2>3, <1>18, Zenon DEF o1, o2, u
<1>29. CASE x.means = "binary"
  <2>1. Followed(o1, x) = [o1 EXCEPT !.binaries = more]
    BY <1>19, <1>29, <1>4 DEF Assign, more
  <2>2. o2 = [o1 EXCEPT !.binaries = more]
    BY ONLY <1>27, <1>4, <1>5, <1>9, <1>11, <1>12, <1>13, <1>14, <1>15, <1>16, <1>17, <1>29
  <2> QED
    BY <2>1, <2>2, Zenon DEF o1, o2, u
<1>30. CASE x.means = "min_score"
  <2>1. Followed(o1, x) = [o1 EXCEPT !.min_score = e.num, !.min_score_set = TRUE]
    BY <1>19, <1>30 DEF Assign
  <2>2. score_set(u) = yes
    BY <1>6, <1>7, <1>10, <1>18, <1>30
  <2> DEFINE m == [o1 EXCEPT !.min_score = e.num]
  <2>3. m = [min_score |-> e.num, min_score_set |-> score_set(s), git_diff |-> diff(s),
           git_base |-> base(s), timeout_ms |-> timeout(s), jobs |-> jobs(s),
           no_coverage |-> uncovered(s), catalog_dir |-> dir(s), json_out |-> json(s),
           binaries |-> b1, cmd |-> none]
    BY ONLY <1>4
  <2> HIDE DEF m
  <2>4. o2 = [m EXCEPT !.min_score_set = yes]
    BY ONLY <2>2, <2>3, <1>8, <1>27, <1>5, <1>9, <1>11, <1>12, <1>13, <1>14, <1>15, <1>16, <1>17, <1>30
  <2>5. [m EXCEPT !.min_score_set = TRUE] = [o1 EXCEPT !.min_score = e.num, !.min_score_set = TRUE]
    BY ONLY <1>4 DEF m
  <2> QED
    BY <2>1, <2>4, <2>5, <1>18, Zenon DEF o1, o2, u
<1>31. CASE x.means = "timeout_ms"
  <2>1. Followed(o1, x) = [o1 EXCEPT !.timeout_ms = e.num]
    BY <1>19, <1>31 DEF Assign
  <2>2. o2 = [o1 EXCEPT !.timeout_ms = e.num]
    BY ONLY <1>27, <1>4, <1>5, <1>9, <1>11, <1>12, <1>13, <1>14, <1>15, <1>16, <1>17, <1>31
  <2> QED
    BY <2>1, <2>2, Zenon DEF o1, o2, u
<1>32. CASE x.means = "jobs"
  <2>1. Followed(o1, x) = [o1 EXCEPT !.jobs = e.num]
    BY <1>19, <1>32 DEF Assign
  <2>2. o2 = [o1 EXCEPT !.jobs = e.num]
    BY ONLY <1>27, <1>4, <1>5, <1>9, <1>11, <1>12, <1>13, <1>14, <1>15, <1>16, <1>17, <1>32
  <2> QED
    BY <2>1, <2>2, Zenon DEF o1, o2, u
<1>33. CASE x.means = "no_coverage"
  <2>1. Followed(o1, x) = [o1 EXCEPT !.no_coverage = TRUE]
    BY <1>19, <1>33 DEF Assign
  <2>2. uncovered(u) = yes
    BY <1>6, <1>7, <1>10, <1>18, <1>33
  <2>3. o2 = [o1 EXCEPT !.no_coverage = yes]
    BY ONLY <2>2, <1>8, <1>27, <1>4, <1>5, <1>9, <1>11, <1>12, <1>13, <1>14, <1>15, <1>16, <1>17, <1>33
  <2> QED
    BY <2>1, <2>3, <1>18, Zenon DEF o1, o2, u
<1>34. CASE x.means = "git_diff"
  <2>1. Followed(o1, x) = [o1 EXCEPT !.git_diff = TRUE, !.git_base = e.text]
    BY <1>19, <1>34 DEF Assign
  <2>2. diff(u) = yes
    BY <1>6, <1>7, <1>10, <1>18, <1>34
  <2> DEFINE m == [o1 EXCEPT !.git_base = e.text]
  <2>3. m = [min_score |-> score(s), min_score_set |-> score_set(s), git_diff |-> diff(s),
           git_base |-> e.text, timeout_ms |-> timeout(s), jobs |-> jobs(s),
           no_coverage |-> uncovered(s), catalog_dir |-> dir(s), json_out |-> json(s),
           binaries |-> b1, cmd |-> none]
    BY ONLY <1>4
  <2> HIDE DEF m
  <2>4. o2 = [m EXCEPT !.git_diff = yes]
    BY ONLY <2>2, <2>3, <1>8, <1>27, <1>5, <1>9, <1>11, <1>12, <1>13, <1>14, <1>15, <1>16, <1>17, <1>34
  <2>5. [m EXCEPT !.git_diff = TRUE] = [o1 EXCEPT !.git_diff = TRUE, !.git_base = e.text]
    BY ONLY <1>4 DEF m
  <2> QED
    BY <2>1, <2>4, <2>5, <1>18, Zenon DEF o1, o2, u
<1>35. CASE x.means = "catalog_dir"
  <2>1. Followed(o1, x) = [o1 EXCEPT !.catalog_dir = e.text]
    BY <1>19, <1>35 DEF Assign
  <2>2. o2 = [o1 EXCEPT !.catalog_dir = e.text]
    BY ONLY <1>27, <1>4, <1>5, <1>9, <1>11, <1>12, <1>13, <1>14, <1>15, <1>16, <1>17, <1>35
  <2> QED
    BY <2>1, <2>2, Zenon DEF o1, o2, u
<1>36. CASE x.means = "json_out"
  <2>1. Followed(o1, x) = [o1 EXCEPT !.json_out = e.text]
    BY <1>19, <1>36 DEF Assign
  <2>2. o2 = [o1 EXCEPT !.json_out = e.text]
    BY ONLY <1>27, <1>4, <1>5, <1>9, <1>11, <1>12, <1>13, <1>14, <1>15, <1>16, <1>17, <1>36
  <2> QED
    BY <2>1, <2>2, Zenon DEF o1, o2, u
<1> QED
  BY <1>28, <1>29, <1>30, <1>31, <1>32, <1>33, <1>34, <1>35, <1>36
     DEF Takes, ValueOptions, AssignOptions

\* The command is the field of its own.
LEMMA MeantCommand ==
  ASSUME NEW s, NEW c
  PROVE  MeantBy(s, c) = [MeantBy(s, <<>>) EXCEPT !.cmd = Texts(c)]
<1> DEFINE
     score == NumberOf(s, "min_score", 0)
     score_set == Given(s, "min_score")
     diff == Given(s, "git_diff") \/ Given(s, "base_default")
     base == TextOf(s, "git_diff", "HEAD")
     timeout == NumberOf(s, "timeout_ms", 0)
     jobs == NumberOf(s, "jobs", 1)
     uncovered == Given(s, "no_coverage")
     dir == TextOf(s, "catalog_dir", "")
     json == TextOf(s, "json_out", "")
     bins == Texts(Values(s, "binary"))
     none == Texts(<<>>)
     some == Texts(c)
     o1 == MeantBy(s, <<>>)
     o2 == MeantBy(s, c)
<1>1. o1 = [min_score |-> score, min_score_set |-> score_set, git_diff |-> diff,
            git_base |-> base, timeout_ms |-> timeout, jobs |-> jobs,
            no_coverage |-> uncovered, catalog_dir |-> dir, json_out |-> json,
            binaries |-> bins, cmd |-> none]
  BY DEF MeantBy
<1>2. o2 = [min_score |-> score, min_score_set |-> score_set, git_diff |-> diff,
            git_base |-> base, timeout_ms |-> timeout, jobs |-> jobs,
            no_coverage |-> uncovered, catalog_dir |-> dir, json_out |-> json,
            binaries |-> bins, cmd |-> some]
  BY DEF MeantBy
<1> HIDE DEF score, score_set, diff, base, timeout, jobs, uncovered, dir, json, bins, none,
             some, o1, o2
<1>3. o2 = [o1 EXCEPT !.cmd = some]
  BY ONLY <1>1, <1>2
<1> QED
  BY <1>3 DEF o1, o2, some

\* An option that parse_args is not to refuse has a meaning.
LEMMA OptionMeans ==
  ASSUME NEW c, IsCase(c), NEW k \in 1..Len(c.options), ~c.options[k].bad
  PROVE  c.options[k].means \in Takes \union {"base_default"}
<1> DEFINE option == c.options[k]
           w == option.words
<1>1. w \in Seq(Word)
  BY OptionWords
<1>2. WithValue(option) \/ ByItself(option) \/ OfDiff(option)
  BY DEF IsCase, Refused, WithoutValue
<1> HIDE DEF option, w
<1>3. CASE OfDiff(option)
  BY <1>3 DEF OfDiff, Takes, AssignOptions, option
<1>4. CASE WithValue(option) \/ ByItself(option)
  <2>1. Len(w) >= 1 /\ w[1].form \in {"value", "flag", "assign"}
    BY <1>4 DEF WithValue, ByItself, w
  <2>2. 1 \in 1..Len(w)
    BY <1>1, <2>1
  <2>3. w[1] \in Word
    BY ONLY <1>1, <2>2, ElementOfSeq
  <2>4. w[1] # Dashes
    <3>1. Dashes.form = "--"
      BY DEF Dashes
    <3> QED
      BY <2>1, <3>1
  <2>5. /\ w[1].form = "value" => w[1].text \in ValueOptions
        /\ w[1].form = "flag" => w[1].option = "no_coverage"
        /\ w[1].form = "assign" => w[1].option \in AssignOptions
    BY <2>3, <2>4 DEF Word
  <2> QED
    BY <1>4, <2>5 DEF WithValue, ByItself, Takes, w, option
<1> QED
  BY <1>2, <1>3, <1>4 DEF option

\* The first k options mean what the first k - 1 do and the k-th more.
LEMMA MeantSteps ==
  ASSUME IsCase(given)
  PROVE  /\ MeantFirst(0) = Defaults
         /\ MeantFirst(Len(given.options)) = MeantBy(given.options, <<>>)
         /\ \A k \in 1..Len(given.options) :
              ~given.options[k].bad =>
                MeantFirst(k) = Followed(MeantFirst(k - 1), given.options[k])
<1> DEFINE s == given.options
           A == [means : STRING, words : Seq(Word), bad : BOOLEAN]
<1>1. s \in Seq(A)
  BY DEF IsCase
<1> HIDE DEF A
<1>2. Len(s) \in Nat /\ \A k \in 1..Len(s) : s[k] \in A
  BY <1>1
<1>3. MeantFirst(0) = Defaults
  <2>1. First(0) = <<>>
    BY SubSeqEmpty DEF First
  <2> QED
    BY <2>1, MeantAtFirst DEF MeantFirst
<1>4. MeantFirst(Len(s)) = MeantBy(s, <<>>)
  <2>1. First(Len(s)) = s
    BY <1>1, SubSeqFull DEF First
  <2> QED
    BY <2>1 DEF MeantFirst
<1>5. ASSUME NEW k \in 1..Len(s), ~s[k].bad
      PROVE  MeantFirst(k) = Followed(MeantFirst(k - 1), s[k])
  <2> DEFINE t == First(k - 1)
             x == s[k]
  <2>1. x \in A
    BY <1>2
  <2>2. t \in Seq(A)
    <3>1. k - 1 \in Int /\ \A n \in 1..k - 1 : s[n] \in A
      BY <1>2
    <3> QED
      BY <3>1, SubSeqProperties DEF First
  <2>3. First(k) = Append(t, x)
    <3>1. 1 \in 1..Len(s) /\ k \in 1..Len(s)
      BY <1>2
    <3>2. SubSeq(s, 1, k) = SubSeq(s, 1, k - 1) \o <<s[k]>>
      BY <1>1, <1>2, <3>1, SubSeqRecursiveSecond
    <3>3. Append(t, x) = t \o <<x>>
      BY <2>1, <2>2, AppendIsConcat
    <3> QED
      BY <3>2, <3>3 DEF First
  <2>4. x.means \in Takes \union {"base_default"}
    BY <1>5, OptionMeans
  <2> HIDE DEF t, x
  <2>5. MeantBy(Append(t, x), <<>>) = Followed(MeantBy(t, <<>>), x)
    BY <2>1, <2>2, <2>4, MeantMore
  <2> QED
    BY <2>3, <2>5 DEF MeantFirst, t, x
<1> QED
  BY <1>3, <1>4, <1>5
-----------------------------------------------------------------------------
(* The inductive invariant *)

Lines ==
  [tag : {"+++", "@@", "+"}, prefix : {""} \union STRING, name : Seq(STRING), start : Nat,
   comma : BOOLEAN, count : Nat]
Ranges == {r \in [file : Seq(STRING), start : Nat, end : Nat] : r.start <= r.end}

Shape ==
  /\ given \in Cases /\ i \in 1..Len(argv) + 1
  /\ IsOptions(o) /\ o.jobs \in Int /\ o.jobs >= 1
  /\ phase \in {"args", "checks", "diff", "lines", "end"} /\ exit \in {Running, 0, 2}
  /\ text \in Seq(Lines) /\ file \in Seq(STRING) /\ ranges \in Seq(Ranges)
  /\ mutants \in Seq(ToSet(Listed)) /\ Len(mutants) <= Len(Listed)

\* All words of the first k options have been read, and followed.
Read(k) ==
  /\ i = Before(given, k) + 1
  /\ o = MeantFirst(k) /\ o.cmd = <<>>
  /\ \A j \in 1..k : ~given.options[j].bad

ReadInParts ==
  Clear /\ phase = "args" =>
    \/ \E k \in 0..Len(given.options) : Read(k)
    \/ i = Len(argv) + 1 /\ o = Meant /\ Sound

\* The options stand fast before the mutants are looked for, and these before the diff.
InOrder ==
  /\ phase \in {"args", "checks", "diff"} => text = <<>> /\ file = <<>> /\ ranges = <<>>
  /\ phase \in {"args", "checks"} => mutants = <<>>
  /\ phase \in {"diff", "lines"} => mutants = Listed /\ o.git_diff = TRUE

\* What git prints of the changes against the base that the options name.
Shown == given.changes[Revision(o.git_base)]
Diff == Printed(Shown)
LinesRead == Len(Diff) - Len(text)

FileLists(change) == [k \in 1..Len(change) |-> PrintedFile(change[k])]
UptoFile(change) == CHOOSE p : Joined(Lines, FileLists(change), p)
\* The x-th line is one of the k-th file.
OfFile(change, k, x) == Within(UptoFile(change), k, x)

RangeOf(c, h) == [file |-> c.file, start |-> h.start, end |-> h.start + h.count - 1]

\* The diff is read, or has been read.
Reading ==
  phase = "lines" \/ (phase = "end" /\ exit # 2 /\ o.git_diff = TRUE /\ Clear /\ Sound)

RestOfDiff ==
  /\ Len(text) <= Len(Diff)
  /\ \A x \in 1..Len(text) : text[x] = Diff[LinesRead + x]
FileOfLine ==
  \A k \in 1..Len(Shown) :
    OfFile(Shown, k, LinesRead) /\ PlainHeader(Shown[k]) => file = Shown[k].file
\* Each range is one of the change.
RangesTrue ==
  \A r \in ToSet(ranges) :
    \E c \in ToSet(Shown) : \E h \in ToSet(c.hunks) : h.count > 0 /\ r = RangeOf(c, h)
\* Each hunk that has been read has its range.
RangesWhole ==
  \A x \in 1..LinesRead, k \in 1..Len(Shown) :
    OfFile(Shown, k, x) =>
      \A h \in ToSet(Shown[k].hunks) :
        h.count > 0 /\ Diff[x] = Hunk(h) => RangeOf(Shown[k], h) \in ToSet(ranges)
DiffInParts ==
  Reading =>
    /\ Revision(o.git_base) \in DOMAIN given.changes
    /\ RestOfDiff /\ FileOfLine
    /\ Plain(Shown) => RangesTrue /\ RangesWhole

FilteredAtEnd ==
  Reading /\ phase = "end" =>
    /\ text = <<>>
    /\ mutants = Select(Listed, {m \in ToSet(Listed) : InRange(m)})
    /\ (exit = 0) = (mutants = <<>>)

IndInv ==
  Shape /\ ReadInParts /\ ParsedAsMeant /\ InOrder /\ DiffInParts /\ FilteredAtEnd
-----------------------------------------------------------------------------
(* What a turn of parse_args does *)

\* The case does not change, nor does what is said of it.
LEMMA CaseStays ==
  ASSUME given' = given
  PROVE  /\ Clear' <=> Clear
         /\ Sound' <=> Sound
         /\ Meant' = Meant /\ argv' = argv
BY DEF Clear, Bare, Sound, Meant, argv

\* What stands at the place of an option, and behind it.
LEMMA AtOption ==
  ASSUME Shape, NEW k \in 1..Len(given.options), i = Before(given, k - 1) + 1
  PROVE  /\ IsCase(given) /\ Before(given, k - 1) \in Nat /\ Len(argv) \in Nat
         /\ given.options[k].words \in Seq(Word) /\ Len(given.options[k].words) \in Nat
         /\ Before(given, k) = Before(given, k - 1) + Len(given.options[k].words)
         /\ Len(given.options[k].words) >= 1 =>
              i \in 1..Len(argv) /\ argv[i] = given.options[k].words[1]
         /\ Len(given.options[k].words) = 2 =>
              i + 1 \in 1..Len(argv) /\ argv[i + 1] = given.options[k].words[2]
<1> DEFINE w == given.options[k].words
           b == Before(given, k - 1)
<1>1. IsCase(given)
  BY CasesAreCommandLines DEF Shape
<1>2. b \in Nat /\ Before(given, k) = b + Len(w) /\ w \in Seq(Word) /\ Len(w) \in Nat
  BY <1>1, OptionWords
<1>3. \A y \in 1..Len(w) : b + y \in 1..Len(Words(given)) /\ Words(given)[b + y] = w[y]
  BY <1>1, OptionWordIs
<1>4. argv = Words(given)
  BY DEF argv
<1>5. Len(argv) \in Nat
  <2>1. argv \in Seq(Word)
    BY <1>1, <1>4, AllWords
  <2> QED
    BY ONLY <2>1
<1> HIDE DEF w, b
<1>6. i = b + 1
  BY DEF b
<1>7. Len(w) >= 1 => i \in 1..Len(argv) /\ argv[i] = w[1]
  <2> SUFFICES ASSUME Len(w) >= 1 PROVE i \in 1..Len(argv) /\ argv[i] = w[1]
    OBVIOUS
  <2>1. 1 \in 1..Len(w)
    BY <1>2
  <2> QED
    BY ONLY <2>1, <1>3, <1>4, <1>6
<1>8. Len(w) = 2 => i + 1 \in 1..Len(argv) /\ argv[i + 1] = w[2]
  <2> SUFFICES ASSUME Len(w) = 2 PROVE i + 1 \in 1..Len(argv) /\ argv[i + 1] = w[2]
    OBVIOUS
  <2>1. 2 \in 1..Len(w) /\ i + 1 = b + 2
    BY <1>2, <1>6
  <2> QED
    BY ONLY <2>1, <1>3, <1>4
<1> QED
  BY <1>1, <1>2, <1>5, <1>7, <1>8 DEF w, b

\* An option begins with a word that looks like one.
LEMMA FirstWord ==
  ASSUME NEW option,
         \/ WithValue(option) \/ ByItself(option) \/ OfDiff(option) \/ Refused(option)
         \/ WithoutValue(option)
  PROVE  Len(option.words) >= 1 /\ option.words[1].form \notin NoOption
<1> DEFINE l == Len(option.words)
           f == option.words[1].form
<1>1. (l = 1 \/ l = 2) /\ f \in {"value", "flag", "assign", "git-diff", "help", "unknown"}
  <2> HIDE DEF l, f
  <2> QED
    BY DEF WithValue, ByItself, OfDiff, Refused, WithoutValue, l, f
<1> HIDE DEF l, f
<1>2. l >= 1 /\ f \notin NoOption
  BY <1>1 DEF NoOption
<1> QED
  BY <1>2 DEF l, f

\* The word behind an option without a base is not taken for one, if the command
\* line is clear.
LEMMA BareTakesNothing ==
  ASSUME Shape, Clear, NEW k \in 1..Len(given.options), i = Before(given, k - 1) + 1,
         OfDiff(given.options[k]), Len(given.options[k].words) = 1
  PROVE  ~TakesBase(i + 1)
<1> DEFINE n == Len(given.options)
           b == Before(given, n)
<1>1. IsCase(given) /\ Before(given, k) = i /\ i \in Nat
  <2>1. /\ IsCase(given) /\ Before(given, k - 1) \in Nat
        /\ Before(given, k) = Before(given, k - 1) + Len(given.options[k].words)
    BY AtOption
  <2> QED
    BY <2>1
<1>2. /\ Len(argv) = b + Behind(given) + Len(given.cmd) /\ b \in Nat
      /\ given.dashes => argv[b + 1] = Dashes
      /\ \A y \in 1..Len(given.cmd) : argv[b + Behind(given) + y] = given.cmd[y]
  BY <1>1, AllWords DEF argv
<1>3. n \in Nat
  BY <1>1, OptionsAreJoined
<1>4. given.cmd \in Seq(Word)
  BY <1>1 DEF IsCase
<1>5. k < n \/ given.dashes \/ given.cmd = <<>> \/ given.cmd[1].form = "path"
  BY DEF Clear, Bare, OfDiff
<1> HIDE DEF n, b
<1>6. CASE k < n
  <2> DEFINE w == given.options[k + 1].words
  <2>1. k + 1 \in 1..n
    BY <1>3, <1>6 DEF n
  <2>2. w \in Seq(Word) /\ Len(w) \in Nat
    BY <2>1, <1>1, OptionWords DEF n
  <2>3. Len(w) >= 1 /\ w[1].form \notin {"word", "revision"}
    <3>1. \/ WithValue(given.options[k + 1]) \/ ByItself(given.options[k + 1])
          \/ OfDiff(given.options[k + 1]) \/ Refused(given.options[k + 1])
          \/ WithoutValue(given.options[k + 1])
      BY <1>1, <2>1 DEF IsCase, n
    <3> QED
      BY <3>1, FirstWord DEF NoOption
  <2>4. argv[i + 1] = w[1]
    <3>1. 1 \in 1..Len(w)
      BY <2>2, <2>3
    <3>2. Words(given)[Before(given, k + 1 - 1) + 1] = w[1]
      <4> DEFINE j == k + 1
      <4>1. j \in 1..Len(given.options) /\ 1 \in 1..Len(given.options[j].words) /\ IsCase(given)
        BY <3>1, <2>1, <1>1 DEF n
      <4> HIDE DEF j
      <4>2. Words(given)[Before(given, j - 1) + 1] = given.options[j].words[1]
        BY ONLY <4>1, OptionWordIs
      <4> QED
        BY <4>2 DEF j
    <3>3. Before(given, k + 1 - 1) = Before(given, k)
      <4>1. k + 1 - 1 = k
        BY <2>1
      <4> QED
        BY <4>1
    <3> QED
      BY <3>2, <3>3, <1>1 DEF argv
  <2> HIDE DEF w
  <2> QED
    BY <2>3, <2>4 DEF TakesBase
<1>7. CASE k = n /\ given.dashes
  <2>1. argv[i + 1] = Dashes
    BY <1>1, <1>2, <1>7 DEF b
  <2>2. Dashes.form \notin {"word", "revision"}
    BY DEF Dashes
  <2> QED
    BY <2>1, <2>2 DEF TakesBase
<1>8. CASE k = n /\ ~given.dashes
  <2>1. b = i /\ Behind(given) = 0
    BY <1>1, <1>8 DEF b, Behind
  <2>2. CASE given.cmd = <<>>
    <3>1. Len(argv) = i
      BY <2>1, <2>2, <1>1, <1>2
    <3> QED
      BY <3>1, <1>1 DEF TakesBase
  <2>3. CASE given.cmd # <<>>
    <3>1. given.cmd[1].form = "path"
      BY <1>5, <1>8, <2>3
    <3>2. 1 \in 1..Len(given.cmd)
      BY <1>4, <2>3
    <3>3. argv[b + Behind(given) + 1] = given.cmd[1]
      BY <1>2, <3>2
    <3>4. argv[i + 1] = given.cmd[1]
      BY <3>3, <2>1, <1>1
    <3> QED
      BY <3>1, <3>4 DEF TakesBase
  <2> QED
    BY <2>2, <2>3
<1>9. k < n \/ k = n
  BY <1>3 DEF n
<1> QED
  BY <1>6, <1>7, <1>8, <1>9

\* Every word has a number, and two dashes have no other form.
LEMMA WordIs == (\A v \in Word : v.num \in Int) /\ Dashes.form = "--"
<1>1. Dashes.form = "--" /\ Dashes.num = 0
  BY DEF Dashes
<1>2. ASSUME NEW v \in Word PROVE v.num \in Int
  <2>1. v = Dashes \/ v \in [form : Forms, text : STRING, num : Int, option : STRING]
    BY DEF Word
  <2> QED
    BY <2>1, <1>1
<1> QED
  BY <1>1, <1>2

\* An option whose words have been read as they were meant.
OptionRead(k, len) ==
  /\ i' = i + len /\ phase' = "args"
  /\ o' = Followed(o, given.options[k]) /\ o'.cmd = o.cmd

\* A turn of parse_args reads the next option as it was meant, or refuses it.
LEMMA NextOption ==
  ASSUME Shape, Clear, ParseArg, NEW k \in 1..Len(given.options),
         i = Before(given, k - 1) + 1
  PROVE  \/ ~given.options[k].bad /\ OptionRead(k, Len(given.options[k].words))
         \/ given.options[k].bad /\ phase' = "end"
<1> DEFINE option == given.options[k]
           w == option.words
           a == argv[i]
<1>1. IsCase(given) /\ w \in Seq(Word) /\ Len(w) \in Nat /\ Len(argv) \in Nat
  BY AtOption
<1>2. Len(w) >= 1 => i \in 1..Len(argv) /\ a = w[1]
  BY AtOption
<1>3. Len(w) = 2 => i + 1 \in 1..Len(argv) /\ argv[i + 1] = w[2]
  BY AtOption
<1>4. \/ WithValue(option) \/ ByItself(option) \/ OfDiff(option) \/ Refused(option)
      \/ WithoutValue(option) /\ k = Len(given.options) /\ ~given.dashes /\ given.cmd = <<>>
  BY <1>1 DEF IsCase
<1>5. Len(w) >= 1 /\ a = w[1] /\ i \in 1..Len(argv)
  <2>1. Len(w) >= 1
    BY <1>4, FirstWord
  <2> QED
    BY <2>1, <1>2
<1>6. IsOptions(o) /\ o.jobs \in Int /\ o.jobs >= 1 /\ phase = "args"
  BY DEF Shape, ParseArg
<1>7. w[1] \in Word
  <2>1. 1 \in 1..Len(w)
    BY <1>5, <1>1
  <2> QED
    BY ONLY <2>1, <1>1, ElementOfSeq
<1> HIDE DEF option, w, a
<1>8. CASE WithValue(option)
  <2> DEFINE v == w[2]
             opts == Assign(o, option.means, v)
  <2>1. Len(w) = 2 /\ w[1].form = "value" /\ option.means = w[1].text
        /\ option.bad = TooFew(option)
    BY <1>8 DEF WithValue, w
  <2>2. i + 1 \in 1..Len(argv) /\ argv[i + 1] = v /\ i # Len(argv)
    BY <2>1, <1>3, <1>1
  <2>3. a.form = "value" /\ a.text = option.means /\ option.means \in ValueOptions
    <3>1. w[1] # Dashes
      BY <2>1, WordIs
    <3> QED
      BY <2>1, <3>1, <1>5, <1>7 DEF Word
  <2>4. option.means \in Takes /\ option.means # "base_default"
    BY <2>3 DEF Takes, ValueOptions
  <2>5. /\ opts.jobs = IF option.means = "jobs" THEN v.num ELSE o.jobs
        /\ opts.cmd = o.cmd
    BY <2>4, <1>6, AssignIs
  <2>6. Followed(o, option) = opts /\ Last(w) = v
    <3>1. Last(w) = v
      BY <2>1 DEF Last
    <3> QED
      BY <3>1, <2>4 DEF Followed, w
  <2>7. option.bad <=> (option.means = "jobs" /\ v.num < 1)
    BY <2>1, <2>6 DEF TooFew, w
  <2>8. v.num \in Int
    <3>1. 2 \in 1..Len(w)
      BY <2>1
    <3>2. v \in Word
      BY ONLY <3>1, <1>1, ElementOfSeq
    <3> QED
      BY <3>2, WordIs
  <2> HIDE DEF opts, v
  <2>9. IF opts.jobs < 1 THEN phase' = "end" ELSE i' = i + 2 /\ o' = opts /\ phase' = phase
    <3>1. Assign(o, a.text, argv[i + 1]) = opts
      BY <2>2, <2>3 DEF opts
    <3> QED
      BY <3>1, <2>2, <2>3 DEF ParseArg, End, NoOption, a
  <2>10. CASE option.bad
    <3>1. opts.jobs < 1
      BY <2>10, <2>5, <2>7
    <3> QED
      BY <3>1, <2>9, <2>10 DEF option
  <2>11. CASE ~option.bad
    <3>1. ~(opts.jobs < 1)
      BY <2>11, <2>5, <2>7, <2>8, <1>6
    <3> QED
      BY <3>1, <2>1, <2>5, <2>6, <2>9, <2>11, <1>6 DEF OptionRead, option, w
  <2> QED
    BY <2>1, <2>7, <2>10, <2>11
<1>9. CASE ByItself(option)
  <2> DEFINE opts == Assign(o, option.means, a)
  <2>1. /\ Len(w) = 1 /\ w[1].form \in {"flag", "assign"} /\ option.means = w[1].option
        /\ option.bad = TooFew(option)
    BY <1>9 DEF ByItself, w
  <2>2. a.form \in {"flag", "assign"} /\ a.option = option.means
    BY <2>1, <1>5
  <2>3. option.means \in Takes /\ option.means # "base_default" /\ a.num \in Int
    <3>1. a # Dashes
      BY <2>2, WordIs
    <3>2. /\ a.num \in Int
          /\ a.form = "flag" => a.option = "no_coverage"
          /\ a.form = "assign" => a.option \in AssignOptions
      BY <3>1, <1>5, <1>7 DEF Word
    <3> QED
      BY <3>2, <2>2 DEF Takes, AssignOptions
  <2>4. /\ opts.jobs = IF option.means = "jobs" THEN a.num ELSE o.jobs
        /\ opts.cmd = o.cmd
    BY <2>3, <1>6, AssignIs
  <2>5. Followed(o, option) = opts /\ Last(w) = a
    <3>1. Last(w) = a
      BY <2>1, <1>5 DEF Last
    <3> QED
      BY <3>1, <2>3 DEF Followed, w
  <2>6. option.bad <=> (option.means = "jobs" /\ a.num < 1)
    BY <2>1, <2>5 DEF TooFew, w
  <2> HIDE DEF opts
  <2>7. IF opts.jobs < 1 THEN phase' = "end" ELSE i' = i + 1 /\ o' = opts /\ phase' = phase
    <3>1. Assign(o, a.option, a) = opts
      BY <2>2 DEF opts
    <3> QED
      BY <3>1, <2>2 DEF ParseArg, End, NoOption, a
  <2>8. CASE option.bad
    <3>1. opts.jobs < 1
      BY <2>8, <2>4, <2>6
    <3> QED
      BY <3>1, <2>7, <2>8 DEF option
  <2>9. CASE ~option.bad
    <3>1. ~(opts.jobs < 1)
      BY <2>9, <2>4, <2>6, <2>3, <1>6
    <3> QED
      BY <3>1, <2>1, <2>4, <2>5, <2>7, <2>9, <1>6 DEF OptionRead, option, w
  <2> QED
    BY <2>8, <2>9, <2>6
<1>10. CASE OfDiff(option)
  <2>1. w[1].form = "git-diff" /\ ~option.bad
        /\ \/ Len(w) = 1 /\ option.means = "base_default"
           \/ Len(w) = 2 /\ option.means = "git_diff" /\ w[2].form \in NoOption
    BY <1>10 DEF OfDiff, w
  <2>2. a.form = "git-diff"
    BY <2>1, <1>5
  <2>3. CASE Len(w) = 1
    <3> DEFINE opts == [o EXCEPT !.git_diff = TRUE]
    <3>1. option.means = "base_default"
      BY <2>1, <2>3
    <3>2. ~TakesBase(i + 1)
      BY <2>3, <1>10, BareTakesNothing DEF option, w
    <3>3. opts.jobs = o.jobs /\ opts.cmd = o.cmd
      BY <1>6 DEF IsOptions, Fields
    <3>4. Followed(o, option) = opts
      BY <3>1 DEF Followed
    <3>5. ~(opts.jobs < 1)
      BY <3>3, <1>6
    <3> HIDE DEF opts
    <3>6. i' = i + 1 /\ o' = opts /\ phase' = phase
      <4>1. [o EXCEPT !.git_diff = TRUE] = opts
        BY DEF opts
      <4> QED
        BY <4>1, <3>2, <3>5, <2>2 DEF ParseArg, End, NoOption, a
    <3> QED
      BY <3>3, <3>4, <3>6, <2>1, <2>3, <1>6 DEF OptionRead, option, w
  <2>4. CASE Len(w) = 2
    <3> DEFINE v == w[2]
               opts == Assign(o, "git_diff", v)
    <3>1. option.means = "git_diff" /\ v.form \in NoOption
      BY <2>1, <2>4
    <3>2. v.form # "path"
      <4>1. ~Bare(k)
        BY <2>4 DEF Bare, option, w
      <4> QED
        BY <4>1, <2>1 DEF Clear, option, w
    <3>3. i + 1 \in 1..Len(argv) /\ argv[i + 1] = v
      BY <2>4, <1>3
    <3>4. TakesBase(i + 1)
      BY <3>1, <3>2, <3>3, <1>1 DEF TakesBase, NoOption
    <3>5. opts.jobs = o.jobs /\ opts.cmd = o.cmd
      <4>1. "git_diff" \in Takes /\ "git_diff" # "jobs"
        BY DEF Takes, AssignOptions
      <4> QED
        BY <4>1, <1>6, AssignIs
    <3>6. Followed(o, option) = opts
      <4>1. Last(w) = v
        BY <2>4 DEF Last
      <4> QED
        BY <3>1, <4>1 DEF Followed, w
    <3>7. ~(opts.jobs < 1)
      BY <3>5, <1>6
    <3> HIDE DEF opts, v
    <3>8. i' = i + 2 /\ o' = opts /\ phase' = phase
      <4>1. Assign(o, "git_diff", argv[i + 1]) = opts
        BY <3>3 DEF opts
      <4> QED
        BY <4>1, <3>4, <3>7, <2>2 DEF ParseArg, End, NoOption, a
    <3> QED
      BY <3>5, <3>6, <3>8, <2>1, <2>4, <1>6 DEF OptionRead, option, w
  <2> QED
    BY <2>1, <2>3, <2>4
<1>11. CASE Refused(option)
  <2>1. a.form \in {"help", "unknown"} /\ option.bad
    BY <1>11, <1>5 DEF Refused, w
  <2>2. phase' = "end"
    BY <2>1 DEF ParseArg, End, NoOption, a
  <2> QED
    BY <2>1, <2>2 DEF option
<1>12. CASE WithoutValue(option) /\ k = Len(given.options) /\ ~given.dashes /\ given.cmd = <<>>
  <2>1. Len(w) = 1 /\ a.form = "value" /\ option.bad
    BY <1>12, <1>5 DEF WithoutValue, w
  <2>2. i = Len(argv)
    <3>1. /\ Len(argv) = Before(given, k) + Behind(given) + Len(given.cmd)
          /\ Before(given, k) \in Nat
      BY <1>1, <1>12, AllWords DEF argv
    <3>2. Before(given, k) = Before(given, k - 1) + Len(w) /\ Before(given, k - 1) \in Nat
      BY AtOption DEF w, option
    <3>3. Behind(given) = 0 /\ Len(given.cmd) = 0
      BY <1>12 DEF Behind
    <3> QED
      BY <3>1, <3>2, <3>3, <2>1
  <2>3. phase' = "end"
    BY <2>1, <2>2 DEF ParseArg, End, NoOption, a
  <2> QED
    BY <2>1, <2>3 DEF option
<1> QED
  BY <1>4, <1>8, <1>9, <1>10, <1>11, <1>12

\* Behind the options the command is read, with all its words.
LEMMA CommandRead ==
  ASSUME Shape, ParseArg, i = Before(given, Len(given.options)) + 1,
         o = MeantFirst(Len(given.options))
  PROVE  phase' = "args" /\ i' = Len(argv) + 1 /\ o' = Meant
<1> DEFINE b == Before(given, Len(given.options))
           e == given.cmd
           l == Len(e)
<1>1. IsCase(given)
  BY CasesAreCommandLines DEF Shape
<1>2. /\ Len(argv) = b + Behind(given) + l /\ b \in Nat
      /\ given.dashes => argv[b + 1] = Dashes
      /\ \A y \in 1..l : argv[b + Behind(given) + y] = e[y]
  BY <1>1, AllWords DEF argv
<1>3. e \in Seq(Word) /\ (e # <<>> /\ ~given.dashes => e[1].form \in NoOption)
  BY <1>1 DEF IsCase
<1>4. l \in Nat /\ (l = 0 => e = <<>>)
  BY <1>3
<1>5. phase = "args" /\ i <= Len(argv) /\ i = b + 1
  BY DEF ParseArg
<1>6. Meant = [o EXCEPT !.cmd = [k \in 1..l |-> e[k].text]]
  <2>1. o = MeantBy(given.options, <<>>)
    BY <1>1, MeantSteps
  <2>2. Meant = [MeantBy(given.options, <<>>) EXCEPT !.cmd = Texts(given.cmd)]
    BY MeantCommand DEF Meant
  <2>3. Texts(given.cmd) = [k \in 1..l |-> e[k].text]
    BY DEF Texts
  <2> QED
    BY <2>1, <2>2, <2>3
<1> HIDE DEF b, e, l
<1>7. CASE given.dashes
  <2>1. Behind(given) = 1
    BY <1>7 DEF Behind
  <2>2. argv[i].form = "--"
    BY <1>7, <1>2, <1>5, WordIs
  <2>3. Command(i + 1) /\ phase' = phase
    BY <2>2 DEF ParseArg, NoOption, Command
  <2>4. Len(argv) - (i + 1) + 1 = l
    BY <1>2, <1>4, <1>5, <2>1
  <2>5. \A k \in 1..l : argv[(i + 1) + k - 1] = e[k]
    BY <1>2, <1>4, <1>5, <2>1
  <2>6. [n \in 1..Len(argv) - (i + 1) + 1 |-> argv[(i + 1) + n - 1].text] = [k \in 1..l |-> e[k].text]
    BY <2>4, <2>5
  <2> QED
    BY <2>3, <2>6, <1>5, <1>6 DEF Command
<1>8. CASE ~given.dashes
  <2>1. Behind(given) = 0
    BY <1>8 DEF Behind
  <2>2. l >= 1
    BY <1>2, <1>4, <1>5, <2>1
  <2>3. argv[i].form \in NoOption
    <3>1. argv[b + Behind(given) + 1] = e[1]
      BY <1>2, <1>4, <2>2
    <3>2. b + Behind(given) + 1 = i
      BY <2>1, <1>2, <1>5
    <3>3. e # <<>>
      BY <2>2 DEF l
    <3> QED
      BY <3>1, <3>2, <3>3, <1>3, <1>8
  <2>4. Command(i) /\ phase' = phase
    BY <2>3 DEF ParseArg, NoOption, Command
  <2>5. Len(argv) - i + 1 = l
    BY <1>2, <1>4, <1>5, <2>1
  <2>6. \A k \in 1..l : argv[i + k - 1] = e[k]
    BY <1>2, <1>4, <1>5, <2>1
  <2>7. [n \in 1..Len(argv) - i + 1 |-> argv[i + n - 1].text] = [k \in 1..l |-> e[k].text]
    BY <2>5, <2>6
  <2> QED
    BY <2>4, <2>7, <1>5, <1>6 DEF Command
<1>9. given.dashes \/ ~given.dashes
  OBVIOUS
<1> QED
  BY <1>7, <1>8, <1>9

\* A turn keeps the types, whatever the words are.
LEMMA ParseKeepsShape ==
  ASSUME Shape, ParseArg
  PROVE  /\ i' \in 1..Len(argv) + 1 /\ IsOptions(o') /\ o'.jobs \in Int /\ o'.jobs >= 1
         /\ phase' \in {"args", "end"} /\ exit' \in {Running, 0, 2}
         /\ UNCHANGED <<given, text, file, ranges, mutants>>
<1> DEFINE a == argv[i]
           Used(n, opts) ==
             IF opts.jobs < 1 THEN End(2) /\ UNCHANGED <<i, o>>
             ELSE i' = i + n /\ o' = opts /\ UNCHANGED <<phase, exit>>
           Formed(opts) == IsOptions(opts) /\ opts.jobs \in Int
           Good == /\ i' \in 1..Len(argv) + 1 /\ Formed(o') /\ o'.jobs >= 1
                   /\ phase' \in {"args", "end"} /\ exit' \in {Running, 0, 2}
<1>1. /\ IsOptions(o) /\ o.jobs \in Int /\ o.jobs >= 1 /\ phase = "args"
      /\ exit \in {Running, 0, 2} /\ i <= Len(argv)
  BY DEF Shape, ParseArg
<1>2. i \in 1..Len(argv) /\ Len(argv) \in Nat /\ \A k \in 1..Len(argv) : argv[k] \in Word
  <2>1. IsCase(given)
    BY CasesAreCommandLines DEF Shape
  <2>2. argv \in Seq(Word)
    BY <2>1, AllWords DEF argv
  <2>3. Len(argv) \in Nat /\ \A k \in 1..Len(argv) : argv[k] \in Word
    BY ONLY <2>2
  <2>4. i \in 1..Len(argv) + 1
    BY DEF Shape
  <2> QED
    BY <2>3, <2>4, <1>1
<1>3. ASSUME NEW option \in Takes, NEW word \in Word PROVE Formed(Assign(o, option, word))
  <2>1. word.num \in Int
    BY WordIs
  <2> QED
    BY <2>1, <1>1, AssignIs
<1>4. ASSUME NEW opts, Formed(opts), NEW n \in {1, 2}, i + n <= Len(argv) + 1, Used(n, opts) PROVE Good
  <2>1. CASE opts.jobs < 1
    BY <2>1, <1>4, <1>1, <1>2 DEF End
  <2>2. CASE ~(opts.jobs < 1)
    BY <2>2, <1>4, <1>1, <1>2
  <2> QED
    BY <2>1, <2>2
<1>5. ASSUME NEW k, Command(k) PROVE Good
  <2>1. i' = Len(argv) + 1 /\ phase' = phase /\ exit' = exit
    BY <1>5 DEF Command
  <2>2. PICK x : o' = [o EXCEPT !.cmd = x]
    BY <1>5 DEF Command
  <2>3. IsOptions(o') /\ o'.jobs = o.jobs
    BY <2>2, <1>1 DEF IsOptions, Fields
  <2> QED
    BY <2>1, <2>3, <1>1, <1>2
<1>6. ASSUME NEW x \in {0, 2}, End(x), UNCHANGED <<i, o>> PROVE Good
  BY <1>6, <1>1, <1>2 DEF End
<1>7. a \in Word
  BY <1>2
<1>8. \/ a.form = "--" /\ Command(i + 1)
      \/ a.form \in NoOption /\ Command(i)
      \/ a.form = "help" /\ End(0) /\ UNCHANGED <<i, o>>
      \/ a.form = "unknown" /\ End(2) /\ UNCHANGED <<i, o>>
      \/ /\ a.form = "value"
         /\ IF i = Len(argv) THEN End(2) /\ UNCHANGED <<i, o>>
            ELSE Used(2, Assign(o, a.text, argv[i + 1]))
      \/ a.form \in {"flag", "assign"} /\ Used(1, Assign(o, a.option, a))
      \/ /\ a.form = "git-diff"
         /\ IF TakesBase(i + 1) THEN Used(2, Assign(o, "git_diff", argv[i + 1]))
            ELSE Used(1, [o EXCEPT !.git_diff = TRUE])
  BY DEF ParseArg
<1> HIDE DEF a, Used, Good, Formed
<1>9. ASSUME a.form = "value" /\ i # Len(argv) /\ Used(2, Assign(o, a.text, argv[i + 1])) PROVE Good
  <2> DEFINE opts == Assign(o, a.text, argv[i + 1])
  <2>1. a.text \in Takes
    <3>1. a # Dashes
      BY <1>9, WordIs
    <3> QED
      BY <3>1, <1>7, <1>9 DEF Word, Takes
  <2>2. i + 2 <= Len(argv) + 1 /\ argv[i + 1] \in Word
    BY <1>2, <1>9
  <2>3. Formed(opts)
    BY <2>1, <2>2, <1>3
  <2>4. Used(2, opts)
    BY <1>9
  <2> HIDE DEF opts
  <2> QED
    BY <2>2, <2>3, <2>4, <1>4
<1>10. ASSUME a.form \in {"flag", "assign"} /\ Used(1, Assign(o, a.option, a)) PROVE Good
  <2> DEFINE opts == Assign(o, a.option, a)
  <2>1. a.option \in Takes
    <3>1. a # Dashes
      BY <1>10, WordIs
    <3> QED
      BY <3>1, <1>7, <1>10 DEF Word, Takes
  <2>2. i + 1 <= Len(argv) + 1
    BY <1>2
  <2>3. Formed(opts)
    BY <2>1, <1>3, <1>7
  <2>4. Used(1, opts)
    BY <1>10
  <2> HIDE DEF opts
  <2> QED
    BY <2>2, <2>3, <2>4, <1>4
<1>11. ASSUME TakesBase(i + 1) /\ Used(2, Assign(o, "git_diff", argv[i + 1])) PROVE Good
  <2> DEFINE opts == Assign(o, "git_diff", argv[i + 1])
  <2>1. i + 1 <= Len(argv)
    BY <1>11 DEF TakesBase
  <2>2. i + 2 <= Len(argv) + 1 /\ argv[i + 1] \in Word
    BY <2>1, <1>2
  <2>3. Formed(opts)
    <3>1. "git_diff" \in Takes
      BY DEF Takes, AssignOptions
    <3> QED
      BY <3>1, <2>2, <1>3
  <2>4. Used(2, opts)
    BY <1>11
  <2> HIDE DEF opts
  <2> QED
    BY <2>2, <2>3, <2>4, <1>4
<1>12. ASSUME Used(1, [o EXCEPT !.git_diff = TRUE]) PROVE Good
  <2> DEFINE opts == [o EXCEPT !.git_diff = TRUE]
  <2>1. Formed(opts)
    BY <1>1 DEF Formed, IsOptions, Fields
  <2>2. i + 1 <= Len(argv) + 1
    BY <1>2
  <2>3. Used(1, opts)
    BY <1>12
  <2> HIDE DEF opts
  <2> QED
    BY <2>1, <2>2, <2>3, <1>4
<1>13. Good
  <2>1. ASSUME a.form = "value" PROVE Good
    BY <2>1, <1>6, <1>8, <1>9 DEF NoOption
  <2>2. ASSUME a.form = "git-diff" PROVE Good
    BY <2>2, <1>8, <1>11, <1>12 DEF NoOption
  <2>3. ASSUME a.form \in {"help", "unknown"} PROVE Good
    BY <2>3, <1>6, <1>8 DEF NoOption
  <2>4. ASSUME a.form \in {"flag", "assign"} PROVE Good
    BY <2>4, <1>8, <1>10 DEF NoOption
  <2>5. ASSUME a.form \notin {"value", "git-diff", "help", "unknown", "flag", "assign"} PROVE Good
    BY <2>5, <1>5, <1>8
  <2> QED
    BY <2>1, <2>2, <2>3, <2>4, <2>5
<1>14. UNCHANGED <<given, text, file, ranges, mutants>>
  BY DEF ParseArg, diffing
<1> QED
  BY <1>13, <1>14 DEF Good, Formed

\* Before the last option has been read there is a word left, and another option.
LEMMA OptionLeft ==
  ASSUME NEW c, IsCase(c), NEW k \in 0..Len(c.options), k # Len(c.options)
  PROVE  /\ k + 1 \in 1..Len(c.options)
         /\ Before(c, k) + 1 \in 1..Len(Words(c))
<1> DEFINE j == k + 1
<1>1. Len(c.options) \in Nat
  BY OptionsAreJoined
<1>2. j \in 1..Len(c.options) /\ j - 1 = k
  BY <1>1
<1> HIDE DEF j
<1>3. \/ WithValue(c.options[j]) \/ ByItself(c.options[j]) \/ OfDiff(c.options[j])
      \/ Refused(c.options[j]) \/ WithoutValue(c.options[j])
  BY <1>2 DEF IsCase
<1>4. Len(c.options[j].words) >= 1 /\ Len(c.options[j].words) \in Nat
  BY <1>2, <1>3, FirstWord, OptionWords
<1>5. 1 \in 1..Len(c.options[j].words)
  BY ONLY <1>4
<1>6. Before(c, j - 1) + 1 \in 1..Len(Words(c))
  BY <1>2, <1>5, OptionWordIs
<1> QED
  BY <1>2, <1>6 DEF j

\* When no word is left all options have been read, and there is no command.
LEMMA NothingLeft ==
  ASSUME Shape, NEW k \in 0..Len(given.options), Read(k), i > Len(argv)
  PROVE  o = Meant /\ Sound
<1>1. IsCase(given)
  BY CasesAreCommandLines DEF Shape
<1>2. Len(given.options) \in Nat /\ argv = Words(given) /\ Len(argv) \in Nat
  <2>1. Words(given) \in Seq(Word)
    BY <1>1, AllWords
  <2> QED
    BY <1>1, <2>1, OptionsAreJoined DEF argv
<1>3. k = Len(given.options)
  <2> SUFFICES ASSUME k # Len(given.options) PROVE FALSE
    OBVIOUS
  <2>1. Before(given, k) + 1 \in 1..Len(argv)
    BY <1>1, <1>2, OptionLeft
  <2> QED
    BY <2>1, <1>2 DEF Read
<1>4. Len(given.cmd) = 0
  <2>1. /\ Len(argv) = Before(given, k) + Behind(given) + Len(given.cmd)
        /\ Before(given, k) \in Nat
    BY <1>1, <1>2, <1>3, AllWords
  <2>2. Behind(given) \in Nat /\ Len(given.cmd) \in Nat
    <3>1. given.cmd \in Seq(Word)
      BY <1>1 DEF IsCase
    <3> QED
      BY <3>1 DEF Behind
  <2>3. Before(given, k) + 1 > Len(argv)
    BY DEF Read
  <2> QED
    BY ONLY <2>1, <2>2, <2>3
<1>5. o = Meant
  <2>1. given.cmd = <<>>
    BY <1>1, <1>4 DEF IsCase
  <2>2. o = MeantBy(given.options, <<>>)
    BY <1>1, <1>3, MeantSteps DEF Read
  <2> QED
    BY <2>1, <2>2 DEF Meant
<1>6. Sound
  <2>1. DOMAIN given.options = 1..Len(given.options)
    BY <1>1 DEF IsCase
  <2> QED
    BY <2>1, <1>3 DEF Sound, Read
<1> QED
  BY <1>5, <1>6

\* A turn of parse_args keeps the invariant.
LEMMA ParseArgKeeps == ASSUME IndInv, ParseArg PROVE IndInv'
<1>1. Shape /\ ReadInParts /\ InOrder /\ phase = "args" /\ i <= Len(argv)
  BY DEF IndInv, ParseArg
<1>2. /\ i' \in 1..Len(argv) + 1 /\ IsOptions(o') /\ o'.jobs \in Int /\ o'.jobs >= 1
      /\ phase' \in {"args", "end"} /\ exit' \in {Running, 0, 2}
      /\ UNCHANGED <<given, text, file, ranges, mutants>>
  BY <1>1, ParseKeepsShape
<1>3. /\ Clear' <=> Clear
      /\ Sound' <=> Sound
      /\ Meant' = Meant /\ argv' = argv
  BY <1>2, CaseStays
<1>4. Shape'
  BY <1>1, <1>2, <1>3 DEF Shape
<1>5. ASSUME Clear
      PROVE  \/ /\ phase' = "args"
                /\ \/ \E k \in 0..Len(given.options) : Read(k)'
                   \/ i' = Len(argv) + 1 /\ o' = Meant /\ Sound
             \/ phase' = "end" /\ ~Sound
  <2>1. \E k \in 0..Len(given.options) : Read(k)
    <3>1. Len(argv) \in Nat
      <4>1. IsCase(given)
        BY <1>1, CasesAreCommandLines DEF Shape
      <4>2. argv \in Seq(Word)
        BY <4>1, AllWords DEF argv
      <4> QED
        BY ONLY <4>2
    <3> QED
      BY <3>1, <1>1, <1>5 DEF ReadInParts
  <2>2. PICK k \in 0..Len(given.options) : Read(k)
    BY <2>1
  <2>3. IsCase(given) /\ Len(given.options) \in Nat
    <3>1. IsCase(given)
      BY <1>1, CasesAreCommandLines DEF Shape
    <3> QED
      BY <3>1, OptionsAreJoined
  <2>4. CASE k = Len(given.options)
    <3>1. phase' = "args" /\ i' = Len(argv) + 1 /\ o' = Meant
      BY <2>2, <2>4, <1>1, CommandRead DEF Read
    <3>2. Sound
      <4>1. DOMAIN given.options = 1..Len(given.options)
        BY <2>3 DEF IsCase
      <4> QED
        BY <4>1, <2>2, <2>4 DEF Sound, Read
    <3> QED
      BY <3>1, <3>2
  <2>5. CASE k # Len(given.options)
    <3> DEFINE j == k + 1
               option == given.options[j]
    <3>1. j \in 1..Len(given.options) /\ j \in 0..Len(given.options) /\ j - 1 = k
      BY <2>3, <2>5
    <3> HIDE DEF j
    <3>2. i = Before(given, j - 1) + 1
      BY <2>2, <3>1 DEF Read
    <3>3. \/ ~option.bad /\ OptionRead(j, Len(option.words))
          \/ option.bad /\ phase' = "end"
      BY <3>1, <3>2, <1>1, <1>5, NextOption
    <3>4. CASE option.bad
      <4>1. DOMAIN given.options = 1..Len(given.options)
        BY <2>3 DEF IsCase
      <4>2. ~Sound
        BY <4>1, <3>1, <3>4 DEF Sound
      <4> QED
        BY <3>3, <3>4, <4>2
    <3>5. CASE ~option.bad
      <4>1. OptionRead(j, Len(option.words))
        BY <3>3, <3>5
      <4>2. i' = Before(given, j) + 1
        <5> DEFINE l == Len(option.words)
                   b == Before(given, j - 1)
        <5>1. Before(given, j) = b + l /\ b \in Nat /\ l \in Nat
          BY <2>3, <3>1, OptionWords
        <5>2. i' = i + l /\ i = b + 1
          BY <4>1, <3>2 DEF OptionRead
        <5> HIDE DEF l, b
        <5> QED
          BY ONLY <5>1, <5>2
      <4>3. o' = MeantFirst(j)
        <5>1. MeantFirst(j) = Followed(MeantFirst(j - 1), option)
          BY <2>3, <3>1, <3>5, MeantSteps
        <5> QED
          BY <5>1, <4>1, <2>2, <3>1 DEF OptionRead, Read
      <4>4. o'.cmd = <<>> /\ phase' = "args"
        BY <4>1, <2>2 DEF OptionRead, Read
      <4>5. \A x \in 1..j : ~given.options[x].bad
        <5>1. ASSUME NEW x \in 1..j PROVE x = j \/ x \in 1..k
          BY <3>1, <2>3
        <5> QED
          BY <5>1, <3>5, <2>2 DEF Read
      <4>6. Read(j)'
        BY <4>2, <4>3, <4>4, <4>5, <1>2 DEF Read, Before, MeantFirst, First
      <4> QED
        BY <4>4, <4>6, <3>1
    <3> QED
      BY <3>4, <3>5
  <2> QED
    BY <2>4, <2>5
<1>6. ReadInParts'
  BY <1>2, <1>3, <1>5 DEF ReadInParts
<1>7. ParsedAsMeant'
  BY <1>2, <1>3, <1>5 DEF ParsedAsMeant
<1>8. InOrder'
  BY <1>1, <1>2 DEF InOrder
<1>9. ~Reading'
  BY <1>2, <1>3, <1>5 DEF Reading
<1> QED
  BY <1>4, <1>6, <1>7, <1>8, <1>9 DEF IndInv, DiffInParts, FilteredAtEnd

\* When all arguments are read the options are those that were meant.
LEMMA ParsedKeeps == ASSUME IndInv, Parsed PROVE IndInv'
<1>1. Shape /\ ReadInParts /\ InOrder /\ phase = "args" /\ i > Len(argv) /\ phase' = "checks"
      /\ UNCHANGED <<given, i, o, text, file, ranges, mutants, exit>>
  BY DEF IndInv, Parsed, diffing
<1>2. /\ Clear' <=> Clear
      /\ Sound' <=> Sound
      /\ Meant' = Meant /\ argv' = argv
  BY <1>1, CaseStays
<1>3. Shape'
  BY <1>1, <1>2 DEF Shape
<1>4. ASSUME Clear PROVE o = Meant /\ Sound
  <2>1. CASE \E k \in 0..Len(given.options) : Read(k)
    BY <2>1, <1>1, NothingLeft
  <2>2. CASE o = Meant /\ Sound
    BY <2>2
  <2> QED
    BY <2>1, <2>2, <1>1, <1>4 DEF ReadInParts
<1>5. ReadInParts' /\ ParsedAsMeant' /\ InOrder' /\ ~Reading'
  BY <1>1, <1>2, <1>4 DEF ReadInParts, ParsedAsMeant, InOrder, Reading
<1> QED
  BY <1>3, <1>5 DEF IndInv, DiffInParts, FilteredAtEnd

\* The first checks keep the invariant: no diff is read before them.
LEMMA ChecksKeep == ASSUME IndInv, Checks PROVE IndInv'
<1>1. Shape /\ ParsedAsMeant /\ InOrder /\ phase = "checks"
      /\ UNCHANGED <<given, i, o, text, file, ranges>>
  BY DEF IndInv, Checks, diffing
<1>2. /\ Clear' <=> Clear
      /\ Sound' <=> Sound
      /\ Meant' = Meant /\ argv' = argv
  BY <1>1, CaseStays
<1>3. /\ mutants' = <<>> \/ mutants' = Listed
      /\ \/ phase' = "end" /\ exit' = 2
         \/ /\ mutants' = Listed /\ exit' = exit
            /\ phase' \in {"diff", "end"} /\ (phase' = "diff" <=> o.git_diff = TRUE)
  <2>1. o.git_diff = TRUE \/ o.git_diff = FALSE
    BY <1>1 DEF Shape, IsOptions
  <2>2. CASE o.git_diff = TRUE
    BY <2>2 DEF Checks, End
  <2>3. CASE o.git_diff = FALSE
    BY <2>3 DEF Checks, End
  <2> QED
    BY <2>1, <2>2, <2>3
<1>4. /\ <<>> \in Seq(ToSet(Listed)) /\ Listed \in Seq(ToSet(Listed))
      /\ Len(<<>>) <= Len(Listed) /\ Len(Listed) <= Len(Listed)
  BY ListedIsACatalogue DEF ToSet
<1>5. Shape'
  BY <1>1, <1>2, <1>3, <1>4 DEF Shape
<1>6. ReadInParts' /\ ParsedAsMeant' /\ InOrder' /\ ~Reading'
  BY <1>1, <1>2, <1>3 DEF ReadInParts, ParsedAsMeant, InOrder, Reading
<1> QED
  BY <1>5, <1>6 DEF IndInv, DiffInParts, FilteredAtEnd

\* A failing git ends the campaign and keeps the invariant.
LEMMA GitFailsKeeps == ASSUME IndInv, GitFails PROVE IndInv'
<1>1. Shape /\ ParsedAsMeant /\ InOrder /\ phase = "diff" /\ phase' = "end" /\ exit' = 2
      /\ UNCHANGED <<given, i, o, text, file, ranges, mutants>>
  BY DEF IndInv, GitFails, End, diffing
<1>2. /\ Clear' <=> Clear
      /\ Sound' <=> Sound
      /\ Meant' = Meant /\ argv' = argv
  BY <1>1, CaseStays
<1>3. Shape'
  BY <1>1, <1>2 DEF Shape
<1>4. ReadInParts' /\ ParsedAsMeant' /\ InOrder' /\ ~Reading'
  BY <1>1, <1>2 DEF ReadInParts, ParsedAsMeant, InOrder, Reading
<1> QED
  BY <1>3, <1>4 DEF IndInv, DiffInParts, FilteredAtEnd
-----------------------------------------------------------------------------
(* What git prints *)

\* What is printed of a hunk: its place, then the lines it adds.
LEMMA PrintedHunkIs ==
  ASSUME NEW h \in [start : Nat, count : Nat]
  PROVE  /\ PrintedHunk(h) \in Seq(Lines) /\ Len(PrintedHunk(h)) = h.count + 1
         /\ PrintedHunk(h)[1] = Hunk(h)
         /\ \A y \in 2..Len(PrintedHunk(h)) : PrintedHunk(h)[y] = Added
<1> DEFINE s == <<Hunk(h)>>
           t == [x \in 1..h.count |-> Added]
           u == s \o t
<1>1. h.start \in Nat /\ h.count \in Nat
  OBVIOUS
<1>2. Hunk(h) \in Lines /\ Added \in Lines
  BY <1>1 DEF Hunk, Added, Lines
<1>3. s \in Seq(Lines) /\ Len(s) = 1 /\ s[1] = Hunk(h)
  BY <1>2
<1>4. t \in Seq(Lines) /\ Len(t) = h.count /\ \A x \in 1..h.count : t[x] = Added
  BY <1>1, <1>2
<1> HIDE DEF s, t
<1>5. u \in Seq(Lines) /\ Follows(u, s, t)
  BY <1>3, <1>4, ConcatFollows
<1> HIDE DEF u
<1>6. Len(u) = h.count + 1
  BY ONLY <1>1, <1>3, <1>4, <1>5 DEF Follows
<1>7. u[1] = Hunk(h)
  <2>1. 1 \in 1..Len(s)
    BY <1>3
  <2> QED
    BY ONLY <2>1, <1>3, <1>5 DEF Follows
<1>8. ASSUME NEW y \in 2..Len(u) PROVE u[y] = Added
  <2> DEFINE x == y - 1
  <2>1. x \in 1..h.count /\ x \in 1..Len(t) /\ y = Len(s) + x
    BY ONLY <1>1, <1>3, <1>4, <1>6, y \in 2..Len(u)
  <2> HIDE DEF x
  <2>2. u[Len(s) + x] = t[x]
    BY ONLY <2>1, <1>5 DEF Follows
  <2> QED
    BY <2>1, <2>2, <1>4
<1>9. PrintedHunk(h) = u
  BY DEF PrintedHunk, u, s, t
<1> QED
  BY <1>5, <1>6, <1>7, <1>8, <1>9

\* A file's part of the diff: its header, then of each hunk its place, and lines added.
FileIs(c, l) ==
  /\ Len(l) >= 1 /\ l[1] = Header(c)
  /\ \A y \in 2..Len(l) : l[y] = Added \/ \E h \in ToSet(c.hunks) : l[y] = Hunk(h)
  /\ \A h \in ToSet(c.hunks) : \E y \in 2..Len(l) : l[y] = Hunk(h)

\* What git prints of a file has the lines it is made of.
LEMMA PrintedFileIs ==
  ASSUME NEW c \in ChangeOfFile
  PROVE  PrintedFile(c) \in Seq(Lines) /\ FileIs(c, PrintedFile(c))
<1> DEFINE hs == c.hunks
           ss == [n \in 1..Len(hs) |-> PrintedHunk(hs[n])]
           f == FlattenSeq(ss)
           s == <<Header(c)>>
           u == s \o f
<1>1. /\ c.prefix \in STRING /\ c.name \in Seq(STRING)
      /\ hs \in Seq([start : Nat, count : Nat])
  BY DEF ChangeOfFile
<1>2. Header(c) \in Lines
  BY <1>1 DEF Header, Lines
<1>3. s \in Seq(Lines) /\ Len(s) = 1 /\ s[1] = Header(c)
  BY <1>2
<1> HIDE DEF hs
<1>4. Len(hs) \in Nat /\ \A n \in 1..Len(hs) : hs[n] \in [start : Nat, count : Nat]
  <2> DEFINE R == [start : Nat, count : Nat]
  <2>1. hs \in Seq(R)
    BY <1>1
  <2> HIDE DEF R
  <2>2. Len(hs) \in Nat /\ \A n \in 1..Len(hs) : hs[n] \in R
    BY ONLY <2>1
  <2> QED
    BY <2>2 DEF R
<1>5. \A n \in 1..Len(hs) : PrintedHunk(hs[n]) \in Seq(Lines)
  BY <1>4, PrintedHunkIs
<1>6. ss \in Seq(Seq(Lines)) /\ Len(ss) = Len(hs)
      /\ \A n \in 1..Len(hs) : ss[n] = PrintedHunk(hs[n])
  BY <1>4, <1>5
<1>7. PrintedFile(c) = u
  BY DEF PrintedFile, hs
<1> HIDE DEF ss
<1>8. PICK p : Joined(Lines, ss, p)
  BY <1>6, FlattenJoins
<1>9. f \in Seq(Lines)
  BY <1>6, <1>8, JoinedEnds
<1> HIDE DEF s, f
<1>10. u \in Seq(Lines) /\ Follows(u, s, f)
  BY <1>3, <1>9, ConcatFollows
<1> HIDE DEF u
<1>11. Len(u) = 1 + Len(f) /\ Len(f) \in Nat /\ \A x \in 1..Len(f) : u[1 + x] = f[x]
  BY ONLY <1>3, <1>10 DEF Follows
<1>12. Len(u) >= 1 /\ u[1] = Header(c)
  <2>1. 1 \in 1..Len(s)
    BY <1>3
  <2>2. u[1] = s[1]
    BY ONLY <2>1, <1>10 DEF Follows
  <2> QED
    BY <2>2, <1>3, <1>11
<1>13. ToSet(hs) = {hs[n] : n \in 1..Len(hs)}
  <2> DEFINE R == [start : Nat, count : Nat]
  <2>1. hs \in Seq(R)
    BY <1>1
  <2> HIDE DEF R
  <2>2. DOMAIN hs = 1..Len(hs)
    BY ONLY <2>1
  <2> QED
    BY ONLY <2>2 DEF ToSet
<1>14. ASSUME NEW y \in 2..Len(u)
       PROVE  u[y] = Added \/ \E h \in ToSet(hs) : u[y] = Hunk(h)
  <2> DEFINE x == y - 1
  <2>1. x \in 1..Len(f) /\ y = 1 + x
    BY <1>11
  <2> HIDE DEF x
  <2>2. u[y] = f[x]
    BY <2>1, <1>11
  <2>3. PICK n \in 1..Len(ss) : Element(ss, p, n, x)
    <3>1. x \in 1..Len(FlattenSeq(ss))
      BY <2>1 DEF f
    <3> QED
      BY <1>6, <1>8, <3>1, JoinedElement
  <2>4. PICK z \in 1..Len(ss[n]) : FlattenSeq(ss)[x] = ss[n][z]
    BY ONLY <2>3 DEF Element
  <2>5. f[x] = ss[n][z]
    BY <2>4 DEF f
  <2>6. hs[n] \in ToSet(hs) /\ ss[n] = PrintedHunk(hs[n]) /\ n \in 1..Len(hs)
    BY <1>6, <1>13
  <2>7. CASE z = 1
    <3>1. ss[n][z] = Hunk(hs[n])
      BY <2>6, <2>7, <1>4, PrintedHunkIs
    <3> QED
      BY <3>1, <2>2, <2>5, <2>6
  <2>8. CASE z # 1
    <3>1. Len(PrintedHunk(hs[n])) \in Nat /\ z \in 1..Len(PrintedHunk(hs[n]))
      <4>1. PrintedHunk(hs[n]) \in Seq(Lines)
        BY <1>5, <2>6
      <4> QED
        BY <4>1, <2>6, LenProperties
    <3>2. z \in 2..Len(PrintedHunk(hs[n]))
      BY ONLY <3>1, <2>8
    <3>3. PrintedHunk(hs[n])[z] = Added
      BY <3>2, <2>6, <1>4, PrintedHunkIs
    <3> QED
      BY <3>3, <2>2, <2>5, <2>6
  <2> QED
    BY <2>7, <2>8
<1>15. ASSUME NEW h \in ToSet(hs) PROVE \E y \in 2..Len(u) : u[y] = Hunk(h)
  <2>1. PICK n \in 1..Len(hs) : h = hs[n]
    BY <1>13
  <2>2. /\ PrintedHunk(hs[n])[1] = Hunk(h) /\ Len(PrintedHunk(hs[n])) = h.count + 1
        /\ h.count \in Nat
    BY <2>1, <1>4, PrintedHunkIs
  <2>3. n \in 1..Len(ss) /\ 1 \in 1..Len(ss[n]) /\ ss[n][1] = Hunk(h)
    <3>1. 1 \in 1..Len(PrintedHunk(hs[n]))
      BY ONLY <2>2
    <3> QED
      BY <3>1, <2>2, <1>6
  <2>4. Len(p[n - 1]) + 1 \in 1..Len(f) /\ f[Len(p[n - 1]) + 1] = ss[n][1]
    BY <2>3, <1>6, <1>8, JoinedPlace DEF f
  <2> DEFINE x == Len(p[n - 1]) + 1
  <2>5. x \in 1..Len(f) /\ f[x] = Hunk(h)
    BY <2>3, <2>4
  <2> HIDE DEF x
  <2>6. 1 + x \in 2..Len(u) /\ u[1 + x] = f[x]
    BY <2>5, <1>11
  <2> QED
    BY <2>5, <2>6
<1>16. FileIs(c, u)
  BY <1>12, <1>14, <1>15 DEF FileIs, hs
<1> QED
  BY <1>7, <1>10, <1>16

\* The diff of a change is joined of its files' parts.
LEMMA FilesAreJoined ==
  ASSUME NEW change \in Seq(ChangeOfFile)
  PROVE  /\ FileLists(change) \in Seq(Seq(Lines)) /\ Len(FileLists(change)) = Len(change)
         /\ Len(change) \in Nat /\ ToSet(change) = {change[k] : k \in 1..Len(change)}
         /\ \A k \in 1..Len(change) :
              change[k] \in ChangeOfFile /\ FileLists(change)[k] = PrintedFile(change[k])
         /\ Joined(Lines, FileLists(change), UptoFile(change))
         /\ Printed(change) = FlattenSeq(FileLists(change)) /\ Printed(change) \in Seq(Lines)
<1>1. /\ Len(change) \in Nat /\ ToSet(change) = {change[k] : k \in 1..Len(change)}
      /\ \A k \in 1..Len(change) : change[k] \in ChangeOfFile
  BY DEF ToSet
<1>2. \A k \in 1..Len(change) : PrintedFile(change[k]) \in Seq(Lines)
  BY <1>1, PrintedFileIs
<1>3. /\ FileLists(change) \in Seq(Seq(Lines)) /\ Len(FileLists(change)) = Len(change)
      /\ \A k \in 1..Len(change) : FileLists(change)[k] = PrintedFile(change[k])
  BY <1>1, <1>2 DEF FileLists
<1>4. Printed(change) = FlattenSeq(FileLists(change))
  BY DEF Printed, FileLists
<1>5. \E p : Joined(Lines, FileLists(change), p)
  BY <1>3, FlattenJoins
<1>6. Joined(Lines, FileLists(change), UptoFile(change))
  BY <1>5 DEF UptoFile
<1>7. FlattenSeq(FileLists(change)) \in Seq(Lines)
  BY <1>3, <1>6, JoinedEnds
<1> QED
  BY <1>1, <1>3, <1>4, <1>6, <1>7

\* The x-th line of the diff, if it is one of the k-th file: its header, or what
\* stands behind a line of the same file.
LineIs(change, k, x) ==
  \/ Printed(change)[x] = Header(change[k])
  \/ /\ OfFile(change, k, x - 1)
     /\ \/ Printed(change)[x] = Added
        \/ \E h \in ToSet(change[k].hunks) : Printed(change)[x] = Hunk(h)

\* The lines of a file's part of the diff.
LEMMA LinesOfFile ==
  ASSUME NEW change \in Seq(ChangeOfFile), NEW k \in 1..Len(change), NEW x \in Nat,
         OfFile(change, k, x)
  PROVE  LineIs(change, k, x)
<1> DEFINE ss == FileLists(change)
           p == UptoFile(change)
           s == p[k - 1]
           t == ss[k]
           u == p[k]
<1>1. /\ ss \in Seq(Seq(Lines)) /\ k \in 1..Len(ss) /\ Joined(Lines, ss, p)
      /\ change[k] \in ChangeOfFile /\ t = PrintedFile(change[k])
      /\ Printed(change) = FlattenSeq(ss)
  BY FilesAreJoined
<1>2. Len(s) < x /\ x <= Len(u)
  BY DEF OfFile, Within
<1> HIDE DEF ss, p
<1>3. Follows(u, s, t)
  BY <1>1, JoinedStep
<1>4. FileIs(change[k], t)
  BY <1>1, PrintedFileIs
<1>5. \A y \in 1..Len(t) : Printed(change)[Len(s) + y] = t[y]
  BY <1>1, JoinedPlace
<1> HIDE DEF s, t, u
<1>6. /\ Len(s) \in Nat /\ Len(t) \in Nat /\ Len(u) = Len(s) + Len(t)
  BY <1>3 DEF Follows
<1> DEFINE y == x - Len(s)
<1>7. y \in 1..Len(t) /\ x = Len(s) + y
  BY ONLY <1>2, <1>6, x \in Nat
<1> HIDE DEF y
<1>8. Printed(change)[x] = t[y]
  BY <1>5, <1>7
<1>9. CASE y = 1
  BY <1>4, <1>8, <1>9 DEF LineIs, FileIs
<1>10. CASE y # 1
  <2>1. y \in 2..Len(t)
    BY ONLY <1>7, <1>10, <1>6
  <2>2. Len(s) < x - 1 /\ x - 1 <= Len(u)
    BY ONLY <1>2, <1>6, <1>7, <2>1
  <2>3. OfFile(change, k, x - 1)
    BY <2>2 DEF OfFile, Within, s, u, p
  <2>4. t[y] = Added \/ \E h \in ToSet(change[k].hunks) : t[y] = Hunk(h)
    BY <2>1, <1>4 DEF FileIs
  <2> QED
    BY <1>8, <2>3, <2>4 DEF LineIs
<1> QED
  BY <1>9, <1>10

\* Every line of the diff is one of a file.
LEMMA LineHasFile ==
  ASSUME NEW change \in Seq(ChangeOfFile), NEW x \in 1..Len(Printed(change))
  PROVE  \E k \in 1..Len(change) : OfFile(change, k, x)
<1> DEFINE ss == FileLists(change)
           p == UptoFile(change)
<1>1. /\ ss \in Seq(Seq(Lines)) /\ Len(ss) = Len(change) /\ Joined(Lines, ss, p)
      /\ Printed(change) = FlattenSeq(ss)
  BY FilesAreJoined
<1> HIDE DEF ss, p
<1>2. \E k \in 1..Len(ss) : Within(p, k, x)
  BY <1>1, JoinedWithin
<1> QED
  BY <1>1, <1>2 DEF OfFile, p

\* Every hunk of a file has a line of its own in the file's part of the diff.
LEMMA HunkHasLine ==
  ASSUME NEW change \in Seq(ChangeOfFile), NEW k \in 1..Len(change),
         NEW h \in ToSet(change[k].hunks)
  PROVE  \E x \in 1..Len(Printed(change)) : OfFile(change, k, x) /\ Printed(change)[x] = Hunk(h)
<1> DEFINE ss == FileLists(change)
           p == UptoFile(change)
           s == p[k - 1]
           t == ss[k]
           u == p[k]
<1>1. /\ ss \in Seq(Seq(Lines)) /\ k \in 1..Len(ss) /\ Joined(Lines, ss, p)
      /\ change[k] \in ChangeOfFile /\ t = PrintedFile(change[k])
      /\ Printed(change) = FlattenSeq(ss)
  BY FilesAreJoined
<1>2. FileIs(change[k], t)
  BY <1>1, PrintedFileIs
<1>3. PICK y \in 2..Len(t) : t[y] = Hunk(h)
  BY <1>2 DEF FileIs
<1> HIDE DEF ss, p
<1>4. Follows(u, s, t)
  BY <1>1, JoinedStep
<1>5. Len(t) \in Nat
  BY <1>4 DEF Follows
<1>6. y \in 1..Len(t)
  <2> HIDE DEF t
  <2> QED
    BY ONLY <1>5, y \in 2..Len(t)
<1> DEFINE x == Len(s) + y
<1>7. x \in 1..Len(Printed(change)) /\ Printed(change)[x] = t[y]
  BY <1>1, <1>6, JoinedPlace
<1>8. Len(s) < x /\ x <= Len(u)
  <2> HIDE DEF s, t, u
  <2> QED
    BY ONLY <1>4, <1>6 DEF Follows
<1>9. OfFile(change, k, x)
  <2> HIDE DEF x
  <2> QED
    BY <1>8 DEF OfFile, Within, s, u, p
<1> HIDE DEF x
<1> QED
  BY <1>3, <1>7, <1>9
-----------------------------------------------------------------------------
(* The diff *)

\* What is shown is a change of files.
LEMMA ShownIsAChange ==
  ASSUME Shape, Revision(o.git_base) \in DOMAIN given.changes
  PROVE  /\ Shown \in Seq(ChangeOfFile) /\ Diff \in Seq(Lines) /\ Len(Diff) \in Nat
         /\ Diff = Printed(Shown)
<1>1. IsCase(given)
  BY CasesAreCommandLines DEF Shape
<1>2. Shown \in Seq(ChangeOfFile)
  BY <1>1 DEF IsCase, Shown
<1>3. Diff \in Seq(Lines)
  BY <1>2, FilesAreJoined DEF Diff
<1> QED
  BY <1>2, <1>3, LenProperties DEF Diff

\* What git prints is a diff of which nothing has been read.
LEMMA GitPrintsKeeps == ASSUME IndInv, GitPrints PROVE IndInv'
<1>1. /\ Shape /\ ParsedAsMeant /\ InOrder /\ phase = "diff" /\ phase' = "lines"
      /\ Revision(o.git_base) \in DOMAIN given.changes /\ text' = Diff
      /\ UNCHANGED <<given, i, o, file, ranges, mutants, exit>>
  BY DEF IndInv, GitPrints, Diff, Shown
<1>2. /\ Clear' <=> Clear
      /\ Sound' <=> Sound
      /\ Meant' = Meant /\ argv' = argv
  BY <1>1, CaseStays
<1>3. /\ Shown \in Seq(ChangeOfFile) /\ Diff \in Seq(Lines) /\ Len(Diff) \in Nat
      /\ Diff = Printed(Shown)
  BY <1>1, ShownIsAChange
<1>4. Shape'
  BY <1>1, <1>2, <1>3 DEF Shape
<1>5. ReadInParts' /\ ParsedAsMeant' /\ InOrder' /\ FilteredAtEnd'
  BY <1>1, <1>2 DEF ReadInParts, ParsedAsMeant, InOrder, FilteredAtEnd
<1>6. Shown' = Shown /\ Diff' = Diff
  BY <1>1 DEF Shown, Diff
<1>7. LinesRead' = 0
  BY <1>1, <1>3, <1>6 DEF LinesRead
<1>8. RestOfDiff'
  BY <1>1, <1>3, <1>6, <1>7 DEF RestOfDiff
<1>9. FileOfLine'
  <2>1. ASSUME NEW k \in 1..Len(Shown) PROVE ~OfFile(Shown, k, 0)
    <3> DEFINE ss == FileLists(Shown)
               p == UptoFile(Shown)
    <3>1. ss \in Seq(Seq(Lines)) /\ Len(ss) = Len(Shown) /\ Joined(Lines, ss, p) /\ k - 1 \in 0..Len(ss)
      BY <1>3, FilesAreJoined
    <3> HIDE DEF ss, p
    <3>2. Len(p[k - 1]) \in Nat
      BY <3>1, JoinedEnds
    <3>3. ~(Len(p[k - 1]) < 0)
      BY ONLY <3>2
    <3> QED
      BY <3>3 DEF OfFile, Within, p
  <2> QED
    BY <2>1, <1>6, <1>7 DEF FileOfLine
<1>10. RangesTrue' /\ RangesWhole'
  BY <1>1, <1>7 DEF RangesTrue, RangesWhole, InOrder, ToSet
<1> QED
  BY <1>1, <1>4, <1>5, <1>8, <1>9, <1>10 DEF IndInv, DiffInParts

\* The next line: what parse_git_diff_text reads, and where it stands in the diff.
LEMMA NextLine ==
  ASSUME Shape, ParseLine, Revision(o.git_base) \in DOMAIN given.changes, RestOfDiff
  PROVE  /\ LinesRead \in Nat /\ LinesRead + 1 \in 1..Len(Diff)
         /\ Head(text) = Diff[LinesRead + 1] /\ LinesRead' = LinesRead + 1
         /\ text' \in Seq(Lines) /\ RestOfDiff' /\ Shown' = Shown /\ Diff' = Diff
<1> DEFINE l == Len(text)
           d == Diff
<1>1. text \in Seq(Lines) /\ text # <<>> /\ text' = Tail(text) /\ given' = given /\ o' = o
  BY DEF Shape, ParseLine
<1>2. l \in Nat /\ l >= 1 /\ Head(text) = text[1] /\ text' \in Seq(Lines)
  BY <1>1
<1>3. Len(text') = l - 1 /\ \A x \in 1..l - 1 : text'[x] = text[x + 1]
  BY <1>1
<1>4. Shown' = Shown /\ Diff' = Diff
  BY <1>1 DEF Shown, Diff
<1>5. Len(d) \in Nat /\ l <= Len(d) /\ \A x \in 1..l : text[x] = d[Len(d) - l + x]
  BY ShownIsAChange DEF RestOfDiff, LinesRead
<1>6. LinesRead = Len(d) - l
  BY DEF LinesRead
<1>7. LinesRead' = Len(d) - (l - 1)
  BY <1>3, <1>4 DEF LinesRead
<1> HIDE DEF l, d
<1> DEFINE n == LinesRead
           m == LinesRead'
<1>8. n = Len(d) - l /\ m = Len(d) - (l - 1)
  BY <1>6, <1>7
<1> HIDE DEF n, m
<1>9. n \in Nat /\ n + 1 \in 1..Len(d) /\ m = n + 1
  BY ONLY <1>2, <1>5, <1>8
<1>10. text[1] = d[n + 1]
  <2>1. 1 \in 1..l
    BY <1>2
  <2> QED
    BY ONLY <2>1, <1>5, <1>8
<1>11. ASSUME NEW x \in 1..l - 1 PROVE text'[x] = d[m + x]
  <2>1. x + 1 \in 1..l /\ n + (x + 1) = m + x
    BY ONLY <1>2, <1>9, x \in 1..l - 1
  <2>2. text[x + 1] = d[n + (x + 1)]
    BY ONLY <2>1, <1>5, <1>8
  <2>3. text'[x] = text[x + 1]
    BY <1>3
  <2> QED
    BY <2>1, <2>2, <2>3
<1>12. Len(text') <= Len(d)
  BY ONLY <1>2, <1>3, <1>5
<1>13. RestOfDiff'
  <2>1. \A x \in 1..Len(text') : text'[x] = d[m + x]
    BY <1>3, <1>11
  <2> QED
    BY <2>1, <1>4, <1>12 DEF RestOfDiff, d, m
<1> QED
  BY <1>2, <1>4, <1>9, <1>10, <1>13 DEF n, m, d

\* A hunk of the file that the parser is in has the range of the lines it adds,
\* and none if it adds none.
LEMMA RangesOfHunk ==
  ASSUME NEW h \in [start : Nat, count : Nat]
  PROVE  /\ h.count = 0 => RangesOf(Hunk(h)) = <<>>
         /\ h.count > 0 =>
              RangesOf(Hunk(h)) =
                <<[file |-> file, start |-> h.start, end |-> h.start + h.count - 1]>>
<1>1. Hunk(h).comma = (h.count # 1) /\ Hunk(h).count = h.count /\ Hunk(h).start = h.start
  BY DEF Hunk
<1>2. (IF Hunk(h).comma THEN Hunk(h).count ELSE 1) = h.count
  BY <1>1
<1>3. h.count \in Nat
  OBVIOUS
<1> QED
  BY <1>1, <1>2, <1>3 DEF RangesOf

\* A turn keeps the types, whatever the line is.
LEMMA RangesKeepShape ==
  ASSUME Shape, ParseLine
  PROVE  /\ file' \in Seq(STRING) /\ ranges' \in Seq(Ranges)
         /\ UNCHANGED <<given, i, o, phase, mutants, exit>>
<1> DEFINE line == Head(text)
<1>1. /\ text \in Seq(Lines) /\ text # <<>> /\ file \in Seq(STRING) /\ ranges \in Seq(Ranges)
      /\ file' = IF line.tag = "+++" /\ line.prefix = "b/" THEN line.name ELSE file
      /\ ranges' = IF line.tag = "@@" THEN ranges \o RangesOf(line) ELSE ranges
      /\ UNCHANGED <<given, i, o, phase, mutants, exit>>
  BY DEF Shape, ParseLine
<1>2. line \in Lines
  BY <1>1
<1> HIDE DEF line
<1>3. /\ line.name \in Seq(STRING) /\ line.start \in Nat /\ line.count \in Nat
      /\ line.comma \in BOOLEAN
  BY <1>2 DEF Lines
<1>4. RangesOf(line) \in Seq(Ranges)
  <2> DEFINE count == IF line.comma THEN line.count ELSE 1
             r == [file |-> file, start |-> line.start, end |-> line.start + count - 1]
  <2>1. RangesOf(line) = IF count = 0 THEN <<>> ELSE <<r>>
    BY DEF RangesOf
  <2>2. count \in Nat
    BY <1>3
  <2> HIDE DEF count
  <2>3. count # 0 => r \in Ranges
    BY <2>2, <1>1, <1>3 DEF Ranges
  <2> HIDE DEF r
  <2> QED
    BY <2>1, <2>3
<1> QED
  BY <1>1, <1>3, <1>4

\* Each line of the diff does what it stands for.
LEMMA ParseLineKeeps == ASSUME IndInv, ParseLine PROVE IndInv'
<1> DEFINE x == LinesRead + 1
           line == Head(text)
<1>1. /\ Shape /\ ParsedAsMeant /\ InOrder /\ DiffInParts /\ phase = "lines" /\ Reading
      /\ file' = IF line.tag = "+++" /\ line.prefix = "b/" THEN line.name ELSE file
      /\ ranges' = IF line.tag = "@@" THEN ranges \o RangesOf(line) ELSE ranges
  BY DEF IndInv, ParseLine, Reading
<1>2. /\ file' \in Seq(STRING) /\ ranges' \in Seq(Ranges) /\ ranges \in Seq(Ranges)
      /\ UNCHANGED <<given, i, o, phase, mutants, exit>>
  BY <1>1, RangesKeepShape DEF Shape
<1>3. /\ Clear' <=> Clear
      /\ Sound' <=> Sound
      /\ Meant' = Meant /\ argv' = argv
  BY <1>2, CaseStays
<1>4. Revision(o.git_base) \in DOMAIN given.changes /\ RestOfDiff /\ FileOfLine
  BY <1>1 DEF DiffInParts
<1>5. /\ LinesRead \in Nat /\ x \in 1..Len(Diff) /\ line = Diff[x] /\ LinesRead' = x
      /\ text' \in Seq(Lines) /\ RestOfDiff' /\ Shown' = Shown /\ Diff' = Diff
  BY <1>1, <1>4, NextLine
<1>6. Shown \in Seq(ChangeOfFile) /\ Diff = Printed(Shown)
  BY <1>1, <1>4, ShownIsAChange
<1> HIDE DEF x, line
<1>7. Shape'
  BY <1>1, <1>2, <1>3, <1>5 DEF Shape
<1>8. ReadInParts' /\ ParsedAsMeant' /\ InOrder' /\ FilteredAtEnd'
  BY <1>1, <1>2, <1>3 DEF ReadInParts, ParsedAsMeant, InOrder, FilteredAtEnd
<1>9. ASSUME NEW k \in 1..Len(Shown), OfFile(Shown, k, x)
      PROVE  \/ line = Header(Shown[k])
             \/ /\ PlainHeader(Shown[k]) => file = Shown[k].file
                /\ line = Added \/ \E h \in ToSet(Shown[k].hunks) : line = Hunk(h)
  <2>1. x \in Nat /\ x - 1 = LinesRead
    BY <1>5 DEF x
  <2>2. LineIs(Shown, k, x)
    BY <2>1, <1>6, <1>9, LinesOfFile
  <2>3. \/ line = Header(Shown[k])
        \/ /\ OfFile(Shown, k, LinesRead)
           /\ line = Added \/ \E h \in ToSet(Shown[k].hunks) : line = Hunk(h)
    BY <2>1, <2>2, <1>5, <1>6 DEF LineIs
  <2> QED
    BY <2>3, <1>4 DEF FileOfLine
<1>10. /\ \A c : Header(c).tag = "+++" /\ Header(c).prefix = c.prefix /\ Header(c).name = c.name
       /\ \A h : Hunk(h).tag = "@@" /\ Hunk(h).start = h.start /\ Hunk(h).count = h.count
       /\ Added.tag = "+"
  BY DEF Header, Hunk, Added
<1>11. FileOfLine'
  <2> SUFFICES ASSUME NEW k \in 1..Len(Shown), OfFile(Shown, k, x), PlainHeader(Shown[k])
               PROVE  file' = Shown[k].file
    BY <1>5 DEF FileOfLine
  <2>1. CASE line = Header(Shown[k])
    BY <2>1, <1>1, <1>10 DEF PlainHeader
  <2>2. CASE line # Header(Shown[k])
    <3>1. file = Shown[k].file /\ line.tag # "+++"
      BY <2>2, <1>9, <1>10
    <3> QED
      BY <3>1, <1>1
  <2> QED
    BY <2>1, <2>2
<1>12. \A k \in 1..Len(Shown) :
         Shown[k] \in ToSet(Shown) /\ \A h \in ToSet(Shown[k].hunks) : h \in [start : Nat, count : Nat]
  <2>1. Shown \in Seq(ChangeOfFile) /\ ToSet(Shown) = {Shown[k] : k \in 1..Len(Shown)}
    BY <1>6, FilesAreJoined
  <2>2. \A c \in ChangeOfFile : \A h \in ToSet(c.hunks) : h \in [start : Nat, count : Nat]
    <3> DEFINE R == [start : Nat, count : Nat]
    <3>1. \A c \in ChangeOfFile : c.hunks \in Seq(R)
      BY DEF ChangeOfFile
    <3> HIDE DEF R
    <3>2. \A s \in Seq(R) : \A h \in ToSet(s) : h \in R
      BY DEF ToSet
    <3> QED
      BY <3>1, <3>2 DEF R
  <2>3. \A k \in 1..Len(Shown) : Shown[k] \in ChangeOfFile
    BY <1>6, FilesAreJoined
  <2> QED
    BY <2>1, <2>2, <2>3
\* What the line adds to the ranges.
<1>13. ASSUME Plain(Shown), NEW k \in 1..Len(Shown), OfFile(Shown, k, x),
              NEW h \in ToSet(Shown[k].hunks), line = Hunk(h)
       PROVE  /\ h.count = 0 => ranges' = ranges
              /\ h.count > 0 => ranges' = Append(ranges, RangeOf(Shown[k], h))
  <2>1. h \in [start : Nat, count : Nat] /\ h.count \in Nat
    BY <1>12
  <2>2. ranges' = ranges \o RangesOf(Hunk(h))
    BY <1>1, <1>10, <1>13
  <2>3. CASE h.count = 0
    BY <2>1, <2>2, <2>3, <1>2, RangesOfHunk
  <2>4. CASE h.count > 0
    <3>1. PlainHeader(Shown[k])
      BY <2>4, <1>12, <1>13 DEF Plain
    <3>2. file = Shown[k].file
      BY <3>1, <1>9, <1>10, <1>13
    <3>3. RangesOf(Hunk(h)) = <<RangeOf(Shown[k], h)>>
      BY <3>2, <2>1, <2>4, RangesOfHunk DEF RangeOf
    <3> QED
      BY <3>3, <2>2, <2>4, <1>2
  <2> QED
    BY <2>1, <2>3, <2>4
<1>14. \A s \in Seq(Ranges) : \A r : ToSet(Append(s, r)) = ToSet(s) \union {r}
  BY AppendAdds
<1>15. PICK k \in 1..Len(Shown) : OfFile(Shown, k, x)
  BY <1>5, <1>6, LineHasFile
<1>16. ASSUME Plain(Shown) PROVE RangesTrue' /\ ToSet(ranges) \subseteq ToSet(ranges')
  <2>1. RangesTrue
    BY <1>1, <1>16 DEF DiffInParts
  <2>2. CASE ranges' = ranges
    BY <2>1, <2>2, <1>5 DEF RangesTrue
  <2>3. CASE ranges' # ranges
    <3>1. line.tag = "@@"
      BY <2>3, <1>1
    <3>2. PICK h \in ToSet(Shown[k].hunks) : line = Hunk(h)
      BY <3>1, <1>9, <1>10, <1>15
    <3>3. h.count \in Nat /\ h.count > 0 /\ ranges' = Append(ranges, RangeOf(Shown[k], h))
      <4>1. h.count \in Nat
        BY <1>12
      <4> QED
        BY <4>1, <3>2, <2>3, <1>13, <1>15, <1>16
    <3>4. ToSet(ranges') = ToSet(ranges) \union {RangeOf(Shown[k], h)}
      BY <3>3, <1>2, <1>14
    <3> QED
      BY <3>3, <3>4, <2>1, <1>5, <1>12 DEF RangesTrue
  <2> QED
    BY <2>2, <2>3
<1>17. ASSUME Plain(Shown) PROVE RangesWhole'
  <2> SUFFICES ASSUME NEW y \in 1..x, NEW j \in 1..Len(Shown), OfFile(Shown, j, y),
                      NEW h \in ToSet(Shown[j].hunks), h.count > 0, Diff[y] = Hunk(h)
               PROVE  RangeOf(Shown[j], h) \in ToSet(ranges')
    BY <1>5 DEF RangesWhole
  <2>1. CASE y = x
    <3>1. line = Hunk(h)
      BY <2>1, <1>5
    <3>2. ranges' = Append(ranges, RangeOf(Shown[j], h))
      BY <3>1, <2>1, <1>13, <1>17
    <3> QED
      BY <3>2, <1>2, <1>14
  <2>2. CASE y # x
    <3>1. y \in 1..LinesRead
      BY <2>2, <1>5 DEF x
    <3>2. RangeOf(Shown[j], h) \in ToSet(ranges)
      BY <3>1, <1>1, <1>17 DEF DiffInParts, RangesWhole
    <3> QED
      BY <3>2, <1>16, <1>17
  <2> QED
    BY <2>1, <2>2
<1>18. DiffInParts'
  BY <1>2, <1>4, <1>5, <1>11, <1>16, <1>17 DEF DiffInParts
<1> QED
  BY <1>7, <1>8, <1>18 DEF IndInv

\* The filter keeps the invariant: it selects from the whole catalogue.
LEMMA FilterKeeps == ASSUME IndInv, Filter PROVE IndInv'
<1> DEFINE S == {m \in ToSet(mutants) : InRange(m)}
<1>1. /\ Shape /\ ParsedAsMeant /\ InOrder /\ DiffInParts /\ phase = "lines" /\ Reading
      /\ text = <<>> /\ phase' = "end" /\ mutants' = Select(mutants, S)
      /\ exit' = (IF mutants' = <<>> THEN 0 ELSE Running)
      /\ UNCHANGED <<given, i, o, text, file, ranges>>
  BY DEF IndInv, Filter, filter_by_diff, Reading, diffing
<1>2. /\ Clear' <=> Clear
      /\ Sound' <=> Sound
      /\ Meant' = Meant /\ argv' = argv
  BY <1>1, CaseStays
<1>3. mutants = Listed /\ mutants \in Seq(ToSet(Listed))
  BY <1>1 DEF InOrder, Shape
<1>4. mutants' \in Seq(ToSet(Listed)) /\ Len(mutants') <= Len(Listed)
  <2> HIDE DEF S
  <2>1. Select(mutants, S) \in Seq(ToSet(Listed)) /\ Len(Select(mutants, S)) <= Len(mutants)
    BY <1>3, SelectIs
  <2> QED
    BY <2>1, <1>1, <1>3
<1>5. exit' \in {Running, 0, 2} /\ ((exit' = 0) = (mutants' = <<>>))
  BY <1>1 DEF Running
<1>6. Shape'
  BY <1>1, <1>2, <1>4, <1>5 DEF Shape
<1>7. ReadInParts' /\ ParsedAsMeant' /\ InOrder'
  BY <1>1, <1>2 DEF ReadInParts, ParsedAsMeant, InOrder
<1>8. DiffInParts'
  <2>1. /\ Shown' = Shown /\ Diff' = Diff /\ LinesRead' = LinesRead
        /\ Revision(o.git_base)' = Revision(o.git_base)
    BY <1>1 DEF Shown, Diff, LinesRead
  <2>2. /\ Revision(o.git_base) \in DOMAIN given.changes /\ RestOfDiff /\ FileOfLine
        /\ Plain(Shown) => RangesTrue /\ RangesWhole
    BY <1>1 DEF DiffInParts
  <2>3. RestOfDiff' /\ FileOfLine' /\ (Plain(Shown) => RangesTrue' /\ RangesWhole')
    BY <1>1, <2>1, <2>2 DEF RestOfDiff, FileOfLine, RangesTrue, RangesWhole
  <2> QED
    BY <1>1, <2>1, <2>2, <2>3 DEF DiffInParts
<1>9. FilteredAtEnd'
  <2>1. {m \in ToSet(Listed) : InRange(m)}' = {m \in ToSet(Listed) : InRange(m)}
    BY <1>1 DEF InRange
  <2>2. mutants' = Select(Listed, {m \in ToSet(Listed) : InRange(m)})
    BY <1>1, <1>3
  <2> QED
    BY <1>1, <1>5, <2>1, <2>2 DEF FilteredAtEnd
<1> QED
  BY <1>6, <1>7, <1>8, <1>9 DEF IndInv

\* Nothing changes when no variable does.
LEMMA StutterKeeps == ASSUME IndInv, UNCHANGED vars PROVE IndInv'
<1>1. /\ given' = given /\ i' = i /\ o' = o /\ phase' = phase /\ text' = text /\ file' = file
      /\ ranges' = ranges /\ mutants' = mutants /\ exit' = exit
  BY DEF vars, diffing
<1>2. /\ Clear' <=> Clear
      /\ Sound' <=> Sound
      /\ Meant' = Meant /\ argv' = argv
  BY <1>1, CaseStays
<1>3. Shape' /\ ReadInParts' /\ ParsedAsMeant' /\ InOrder'
  BY <1>1, <1>2 DEF IndInv, Shape, ReadInParts, Read, ParsedAsMeant, InOrder, MeantFirst, First
<1>4. Shown' = Shown /\ Diff' = Diff /\ LinesRead' = LinesRead
  BY <1>1 DEF Shown, Diff, LinesRead
<1>5. (Reading' <=> Reading) /\ Revision(o.git_base)' = Revision(o.git_base)
  BY <1>1, <1>2 DEF Reading
<1>6. /\ RestOfDiff' <=> RestOfDiff
      /\ FileOfLine' <=> FileOfLine
      /\ RangesTrue' <=> RangesTrue
      /\ RangesWhole' <=> RangesWhole
  BY <1>1, <1>4 DEF RestOfDiff, FileOfLine, RangesTrue, RangesWhole
<1>7. DiffInParts'
  BY <1>1, <1>4, <1>5, <1>6 DEF IndInv, DiffInParts
<1>8. {m \in ToSet(Listed) : InRange(m)}' = {m \in ToSet(Listed) : InRange(m)}
  BY <1>1 DEF InRange
<1>9. FilteredAtEnd'
  BY <1>1, <1>5, <1>8 DEF IndInv, FilteredAtEnd
<1> QED
  BY <1>3, <1>7, <1>9 DEF IndInv

\* Nothing has been read at first.
LEMMA InitHolds == ASSUME Init PROVE IndInv
<1>1. /\ given \in Cases /\ i = 1 /\ o = Defaults /\ phase = "args" /\ text = <<>>
      /\ file = <<>> /\ ranges = <<>> /\ mutants = <<>> /\ exit = Running
  BY DEF Init
<1>2. IsCase(given)
  BY <1>1, CasesAreCommandLines
<1>3. argv \in Seq(Word) /\ Before(given, 0) = 0
  BY <1>2, AllWords DEF argv
<1>4. Len(argv) \in Nat
  BY ONLY <1>3
<1>5. Shape
  <2>1. i \in 1..Len(argv) + 1
    BY <1>1, <1>4
  <2>2. IsOptions(o) /\ o.jobs = 1
    BY <1>1, DefaultsAreOptions
  <2>3. mutants \in Seq(ToSet(Listed)) /\ Len(mutants) <= Len(Listed)
    BY <1>1, ListedIsACatalogue
  <2> QED
    BY <1>1, <2>1, <2>2, <2>3 DEF Shape
<1>6. Len(given.options) \in Nat
  BY <1>2, OptionsAreJoined
<1>7. Read(0)
  <2>1. MeantFirst(0) = Defaults
    BY <1>2, MeantSteps
  <2> QED
    BY <2>1, <1>1, <1>3, DefaultsAreOptions DEF Read
<1>8. 0 \in 0..Len(given.options)
  BY <1>6
<1>9. ReadInParts /\ ParsedAsMeant /\ InOrder /\ ~Reading
  BY <1>1, <1>7, <1>8 DEF ReadInParts, ParsedAsMeant, InOrder, Reading
<1> QED
  BY <1>5, <1>9 DEF IndInv, DiffInParts, FilteredAtEnd

\* What holds at first and after every step: the options read so far were followed
\* as they were meant, and the diff read so far has given its ranges.
THEOREM Invariance == Spec => []IndInv
<1>1. ASSUME IndInv, [Next]_vars PROVE IndInv'
  <2>1. CASE ParseArg
    BY <2>1, <1>1, ParseArgKeeps
  <2>2. CASE Parsed
    BY <2>2, <1>1, ParsedKeeps
  <2>3. CASE Checks
    BY <2>3, <1>1, ChecksKeep
  <2>4. CASE GitFails
    BY <2>4, <1>1, GitFailsKeeps
  <2>5. CASE GitPrints
    BY <2>5, <1>1, GitPrintsKeeps
  <2>6. CASE ParseLine
    BY <2>6, <1>1, ParseLineKeeps
  <2>7. CASE Filter
    BY <2>7, <1>1, FilterKeeps
  <2>8. CASE UNCHANGED vars
    BY <2>8, <1>1, StutterKeeps
  <2> QED
    BY <2>1, <2>2, <2>3, <2>4, <2>5, <2>6, <2>7, <2>8, <1>1 DEF Next
<1> QED
  BY <1>1, InitHolds, PTL DEF Spec
-----------------------------------------------------------------------------
(* The properties *)

\* The options have their fields, the ranges are not empty, and the mutants are
\* those of the catalogue (Scope!TypeOK).
THEOREM TypeCorrect == Spec => []TypeOK
<1>1. ASSUME IndInv PROVE TypeOK
  <2>1. Shape
    BY <1>1 DEF IndInv
  <2>2. DOMAIN o = DOMAIN Defaults
    BY <2>1 DEF Shape, IsOptions, Defaults, Fields
  <2>3. \A k \in DOMAIN ranges : ranges[k].start <= ranges[k].end
    <3>1. ranges \in Seq(Ranges)
      BY <2>1 DEF Shape
    <3>2. \A k \in DOMAIN ranges : ranges[k] \in Ranges
      BY <3>1
    <3> QED
      BY <3>2 DEF Ranges
  <2>4. ToSet(mutants) \subseteq ToSet(Listed) /\ Len(mutants) <= Len(Listed)
    <3> DEFINE S == ToSet(Listed)
    <3>1. mutants \in Seq(S)
      BY <2>1 DEF Shape
    <3> HIDE DEF S
    <3>2. ToSet(mutants) \subseteq S
      BY <3>1 DEF ToSet
    <3> QED
      BY <3>2, <2>1 DEF Shape, S
  <2> QED
    BY <2>1, <2>2, <2>3, <2>4 DEF TypeOK, Shape
<1> QED
  BY <1>1, Invariance, PTL

\* Every clear command line is read as it was meant, and accepted only if all its
\* options are sound (Scope!ParsedAsMeant; parse_args in cli.cpp).
THEOREM ReadAsMeant == Spec => []ParsedAsMeant
<1>1. IndInv => ParsedAsMeant
  BY DEF IndInv
<1> QED
  BY <1>1, Invariance, PTL

\* A base that is no revision never ends with success or with a campaign
\* (Scope!FailsClosed; run_git_diff and main).
THEOREM NeverOpen == Spec => []FailsClosed
<1>1. ASSUME IndInv PROVE FailsClosed
  <2> SUFFICES ASSUME phase = "end", Sound, Clear, Meant.cmd # <<>>, Meant.git_diff,
                      Base \notin DOMAIN given.changes
               PROVE  exit = 2
    BY DEF FailsClosed
  <2>1. o = Meant /\ Shape /\ DiffInParts
    BY <1>1 DEF IndInv, ParsedAsMeant
  <2>2. o.git_diff = TRUE
    BY <2>1 DEF Shape, IsOptions
  <2>3. Revision(o.git_base) = Base
    BY <2>1 DEF Base
  <2>4. ~Reading
    BY <2>1, <2>3 DEF DiffInParts
  <2> QED
    BY <2>2, <2>4 DEF Reading
<1> QED
  BY <1>1, Invariance, PTL

\* A file of the working tree matches the path that the diff gives it.
LEMMA OwnPathMatches ==
  ASSUME NEW c \in ChangeOfFile
  PROVE  path_match(Root \o c.file, c.file)
<1>1. c.file \in Seq(STRING) /\ c.file # <<>> /\ Root \in Seq(STRING)
  BY RootIsAPath DEF ChangeOfFile
<1> DEFINE f == c.file
<1> HIDE DEF f
<1>2. IsSuffix(f, Root \o f)
  BY <1>1, ConcatHasSuffix DEF f
<1> QED
  BY <1>1, <1>2 DEF path_match, f

\* At the end all of the diff against the base that was meant has been read.
LEMMA AllRead ==
  ASSUME IndInv, Filtered, Plain(Change)
  PROVE  /\ Change \in Seq(ChangeOfFile) /\ RangesTrue /\ RangesWhole /\ Shown = Change
         /\ LinesRead = Len(Printed(Change)) /\ Diff = Printed(Change)
         /\ mutants = Select(Listed, {m \in ToSet(Listed) : InRange(m)})
         /\ (exit = 0) = (mutants = <<>>)
<1>1. /\ phase = "end" /\ exit # 2 /\ Sound /\ Clear /\ Meant.git_diff
      /\ Base \in DOMAIN given.changes
  BY DEF Filtered
<1>2. o = Meant /\ Shape /\ DiffInParts /\ FilteredAtEnd
  BY <1>1 DEF IndInv, ParsedAsMeant
<1>3. o.git_diff = TRUE
  BY <1>1, <1>2 DEF Shape, IsOptions
<1>4. Reading
  BY <1>1, <1>3 DEF Reading
<1>5. Revision(o.git_base) = Base /\ Shown = Change
  BY <1>2 DEF Base, Shown, Change
<1>6. text = <<>> /\ mutants = Select(Listed, {m \in ToSet(Listed) : InRange(m)})
      /\ (exit = 0) = (mutants = <<>>)
  BY <1>1, <1>2, <1>4 DEF FilteredAtEnd
<1>7. /\ Shown \in Seq(ChangeOfFile) /\ Diff \in Seq(Lines) /\ Len(Diff) \in Nat
      /\ Diff = Printed(Shown)
  BY <1>1, <1>2, <1>5, ShownIsAChange
<1>8. LinesRead = Len(Diff)
  BY <1>6, <1>7 DEF LinesRead
<1>9. RangesTrue /\ RangesWhole
  BY <1>2, <1>4, <1>5 DEF DiffInParts
<1> QED
  BY <1>5, <1>6, <1>7, <1>8, <1>9

\* A line that the change made new is in a range.
LEMMA ChangedIsInRange ==
  ASSUME IndInv, Filtered, Plain(Change), NEW m \in ToSet(Listed), OnChangedLine(m, Change)
  PROVE  InRange(m)
<1>1. /\ Change \in Seq(ChangeOfFile) /\ RangesWhole /\ Shown = Change
      /\ LinesRead = Len(Printed(Change)) /\ Diff = Printed(Change)
  BY AllRead
<1>2. PICK c \in ToSet(Change) :
        m.file = Root \o c.file /\ \E h \in ToSet(c.hunks) : m.line \in h.start..(h.start + h.count - 1)
  BY DEF OnChangedLine
<1>3. PICK h \in ToSet(c.hunks) : m.line \in h.start..(h.start + h.count - 1)
  BY <1>2
<1> DEFINE change == Change
<1>4. change \in Seq(ChangeOfFile) /\ c \in ToSet(change)
  BY <1>1
<1> HIDE DEF change
<1>5. PICK k \in 1..Len(change) : c = change[k] /\ c \in ChangeOfFile
  <2>1. /\ ToSet(change) = {change[k] : k \in 1..Len(change)}
        /\ \A k \in 1..Len(change) : change[k] \in ChangeOfFile
    BY ONLY <1>4, FilesAreJoined
  <2> QED
    BY ONLY <1>4, <2>1
<1>6. h \in [start : Nat, count : Nat]
  <2> DEFINE R == [start : Nat, count : Nat]
  <2>1. c.hunks \in Seq(R)
    BY <1>5 DEF ChangeOfFile
  <2> HIDE DEF R
  <2>2. h \in R
    BY <2>1 DEF ToSet
  <2> QED
    BY <2>2 DEF R
<1>7. h.count > 0
  BY <1>3, <1>6
<1>8. PICK x \in 1..Len(Printed(change)) : OfFile(change, k, x) /\ Printed(change)[x] = Hunk(h)
  BY <1>4, <1>5, HunkHasLine
<1>9. RangeOf(c, h) \in ToSet(ranges)
  <2>1. x \in 1..LinesRead /\ k \in 1..Len(Shown) /\ OfFile(Shown, k, x) /\ Diff[x] = Hunk(h)
        /\ Shown[k] = c
    BY <1>1, <1>5, <1>8 DEF change
  <2> QED
    BY <2>1, <1>1, <1>7 DEF RangesWhole
<1>10. PICK j \in DOMAIN ranges : ranges[j] = RangeOf(c, h)
  BY <1>9 DEF ToSet
<1>11. path_match(m.file, c.file)
  BY <1>2, <1>5, OwnPathMatches
<1>12. m.line >= h.start /\ m.line <= h.start + h.count - 1
  BY <1>3, <1>6
<1> QED
  BY <1>10, <1>11, <1>12 DEF InRange, RangeOf

\* A line in a range is one that the change made new, if no other file's path ends
\* like that of the changed one.
LEMMA InRangeIsChanged ==
  ASSUME IndInv, Filtered, Plain(Change), NoTwins(Change), NEW m \in ToSet(Listed), InRange(m)
  PROVE  OnChangedLine(m, Change)
<1>1. Change \in Seq(ChangeOfFile) /\ RangesTrue /\ Shown = Change /\ Shape
  BY AllRead DEF IndInv
<1>2. PICK j \in DOMAIN ranges :
        /\ path_match(m.file, ranges[j].file)
        /\ m.line >= ranges[j].start /\ m.line <= ranges[j].end
  BY DEF InRange
<1>3. ranges[j] \in ToSet(ranges)
  BY DEF ToSet
<1>4. PICK c \in ToSet(Change) : \E h \in ToSet(c.hunks) : h.count > 0 /\ ranges[j] = RangeOf(c, h)
  BY <1>1, <1>3 DEF RangesTrue
<1>5. PICK h \in ToSet(c.hunks) : h.count > 0 /\ ranges[j] = RangeOf(c, h)
  BY <1>4
<1>6. m.file = Root \o c.file
  BY <1>2, <1>5 DEF NoTwins, RangeOf
<1>7. h.start \in Nat /\ h.count \in Nat
  <2> DEFINE R == [start : Nat, count : Nat]
             change == Change
  <2>1. change \in Seq(ChangeOfFile) /\ c \in ToSet(change)
    BY <1>1
  <2> HIDE DEF change
  <2>2. c \in ChangeOfFile
    BY <2>1, FilesAreJoined
  <2>3. c.hunks \in Seq(R)
    BY <2>2 DEF ChangeOfFile
  <2> HIDE DEF R
  <2>4. h \in R
    BY <2>3 DEF ToSet
  <2> QED
    BY <2>4 DEF R
<1>8. m.line \in Nat
  <2> DEFINE R == [file : Seq(STRING), line : Nat]
  <2>1. Listed \in Seq(R)
    BY ListedIsACatalogue
  <2> HIDE DEF R
  <2>2. m \in R
    BY <2>1 DEF ToSet
  <2> QED
    BY <2>2 DEF R
<1>9. m.line \in h.start..(h.start + h.count - 1)
  BY <1>2, <1>5, <1>7, <1>8 DEF RangeOf
<1> QED
  BY <1>6, <1>9 DEF OnChangedLine

\* The campaign is about exactly the mutants on lines changed against the base that
\* was meant (Scope!ScopeExact; git_diff_ranges and filter_by_diff in diff.cpp).
THEOREM ExactScope == Spec => []ScopeExact
<1>1. ASSUME IndInv PROVE ScopeExact
  <2> SUFFICES ASSUME Filtered, Plain(Change), NoTwins(Change)
               PROVE  /\ mutants = Select(Listed, {m \in ToSet(Listed) : OnChangedLine(m, Change)})
                      /\ (exit = 0) = (mutants = <<>>)
    BY DEF ScopeExact
  <2>1. /\ mutants = Select(Listed, {m \in ToSet(Listed) : InRange(m)})
        /\ (exit = 0) = (mutants = <<>>)
    BY <1>1, AllRead
  <2>2. \A m \in ToSet(Listed) : InRange(m) <=> OnChangedLine(m, Change)
    BY <1>1, ChangedIsInRange, InRangeIsChanged
  <2>3. {m \in ToSet(Listed) : InRange(m)} = {m \in ToSet(Listed) : OnChangedLine(m, Change)}
    BY <2>2
  <2> QED
    BY <2>1, <2>3
<1> QED
  BY <1>1, Invariance, PTL

\* No mutant on a changed line is lost, even where paths end alike
\* (Scope!ChangedNotLost; path_match in diff.cpp).
THEOREM NoneLost == Spec => []ChangedNotLost
<1>1. ASSUME IndInv PROVE ChangedNotLost
  <2> SUFFICES ASSUME Filtered, Plain(Change), NEW m \in ToSet(Listed), OnChangedLine(m, Change)
               PROVE  m \in ToSet(mutants)
    BY DEF ChangedNotLost
  <2> DEFINE A == [file : Seq(STRING), line : Nat]
             S == {n \in ToSet(Listed) : InRange(n)}
  <2>1. mutants = Select(Listed, S) /\ m \in S
    BY <1>1, AllRead, ChangedIsInRange
  <2>2. Listed \in Seq(A)
    BY ListedIsACatalogue
  <2> HIDE DEF A, S
  <2>3. ToSet(Select(Listed, S)) = ToSet(Listed) \cap S
    BY <2>2, SelectIs
  <2> QED
    BY <2>1, <2>3
<1> QED
  BY <1>1, Invariance, PTL
=============================================================================
