------------------------------- MODULE Scope --------------------------------
(***************************************************************************)
(* What a campaign is about: parse_args (runner/cli.cpp), the first checks *)
(* of main, and the diff filter (runner/diff.cpp).  One step reads one     *)
(* argument, or one line of what git prints.                               *)
(*                                                                         *)
(* A word of the command line has a text, the number atoi makes of it, and *)
(* a form: what the comparisons of parse_args can tell of it.  A path is   *)
(* the sequence of its parts.                                              *)
(***************************************************************************)
EXTENDS Integers, Sequences, SequencesExt, Selection

CONSTANTS
  Cases,     \* what the user writes and means, and what was changed
  Listed,    \* the merged catalogue: a sequence of [file, line]
  Root       \* the path of the working tree

ASSUME RootIsAPath == Root \in Seq(STRING) \ {<<>>}
ASSUME ListedIsACatalogue == Listed \in Seq([file : Seq(STRING), line : Nat])

VARIABLES
  given,     \* the case (never changes)
  i,         \* the next argument
  o,         \* Options
  phase,     \* "args", "checks", "diff", "lines", "filter" or "end"
  text, file, ranges, \* of parse_git_diff_text: lines left, its file, its ranges
  mutants,   \* mutants of main
  exit       \* exit code, or Running: on to the baseline

diffing == <<text, file, ranges>>
vars == <<given, i, o, phase, diffing, mutants, exit>>

Running == -1
Defaults ==
  [min_score |-> 0, min_score_set |-> FALSE, git_diff |-> FALSE, git_base |-> "HEAD",
   timeout_ms |-> 0, jobs |-> 1, no_coverage |-> FALSE, catalog_dir |-> "", json_out |-> "",
   binaries |-> <<>>, cmd |-> <<>>]

\* The options that take the next word as their value, and those that have theirs
\* behind an equals sign.
ValueOptions == {"min_score", "timeout_ms", "jobs", "catalog_dir", "binary", "json_out"}
AssignOptions == {"min_score", "git_diff", "jobs"}

\* What no comparison takes for an option.
NoOption == {"word", "path", "revision"}
Forms == NoOption \union {"help", "unknown", "value", "flag", "assign", "git-diff"}
Dashes == [form |-> "--", text |-> "--", num |-> 0, option |-> ""]
Word ==
  {Dashes} \union
  {w \in [form : Forms, text : STRING, num : Int, option : STRING] :
     /\ w.form = "value" => w.text \in ValueOptions
     /\ w.form = "flag" => w.option = "no_coverage"
     /\ w.form = "assign" => w.option \in AssignOptions}

\* An option of a case: its words, what it means, and whether parse_args is to
\* refuse it.
TooFew(option) == option.means = "jobs" /\ Last(option.words).num < 1
WithValue(option) ==
  /\ Len(option.words) = 2 /\ option.words[1].form = "value"
  /\ option.means = option.words[1].text /\ option.bad = TooFew(option)
ByItself(option) ==
  /\ Len(option.words) = 1 /\ option.words[1].form \in {"flag", "assign"}
  /\ option.means = option.words[1].option /\ option.bad = TooFew(option)
OfDiff(option) ==
  /\ option.words[1].form = "git-diff" /\ ~option.bad
  /\ \/ Len(option.words) = 1 /\ option.means = "base_default"
     \/ Len(option.words) = 2 /\ option.means = "git_diff" /\ option.words[2].form \in NoOption
Refused(option) ==
  Len(option.words) = 1 /\ option.words[1].form \in {"help", "unknown"} /\ option.bad
WithoutValue(option) ==
  Len(option.words) = 1 /\ option.words[1].form = "value" /\ option.bad

\* A case: options, each with its words; whether `--' follows; the command;
\* what git prints a diff of, for each revision it knows.
Words(c) ==
  FlattenSeq([k \in 1..Len(c.options) |-> c.options[k].words])
    \o (IF c.dashes THEN <<Dashes>> ELSE <<>>) \o c.cmd
argv == Words(given)

\* A file, how the header spells it (git puts a tab behind a name with spaces, and
\* quotes some), and its hunks.
ChangeOfFile ==
  [file : Seq(STRING) \ {<<>>}, prefix : STRING, name : Seq(STRING),
   hunks : Seq([start : Nat, count : Nat])]

\* Only the last word may be an option that lacks its value, and a command that
\* stands behind no `--' begins with a word that is no option.
IsCase(c) ==
  /\ c.options \in Seq([means : STRING, words : Seq(Word), bad : BOOLEAN])
  /\ \A k \in 1..Len(c.options) :
       LET option == c.options[k]
       IN  \/ WithValue(option) \/ ByItself(option) \/ OfDiff(option) \/ Refused(option)
           \/ WithoutValue(option) /\ k = Len(c.options) /\ ~c.dashes /\ c.cmd = <<>>
  /\ c.dashes \in BOOLEAN
  /\ c.cmd \in Seq(Word) /\ (c.cmd # <<>> /\ ~c.dashes => c.cmd[1].form \in NoOption)
  /\ \A r \in DOMAIN c.changes : c.changes[r] \in Seq(ChangeOfFile)

ASSUME CasesAreCommandLines == \A c \in Cases : IsCase(c)

Init ==
  /\ given \in Cases
  /\ i = 1 /\ o = Defaults /\ phase = "args"
  /\ text = <<>> /\ file = <<>> /\ ranges = <<>>
  /\ mutants = <<>> /\ exit = Running

End(code) == phase' = "end" /\ exit' = code
-----------------------------------------------------------------------------
(* parse_args *)

\* The assignments of one option.
Assign(opts, option, word) ==
  CASE option = "binary" -> [opts EXCEPT !.binaries = Append(@, word.text)]
    [] option = "min_score" -> [opts EXCEPT !.min_score = word.num, !.min_score_set = TRUE]
    [] option \in {"timeout_ms", "jobs"} -> [opts EXCEPT ![option] = word.num]
    [] option = "no_coverage" -> [opts EXCEPT !.no_coverage = TRUE]
    [] option = "git_diff" -> [opts EXCEPT !.git_diff = TRUE, !.git_base = word.text]
    [] option \in {"catalog_dir", "json_out"} -> [opts EXCEPT ![option] = word.text]

\* Mutant: any word that is no option is the base.
TakesBase_Always(k) == k <= Len(argv) /\ argv[k].form \in NoOption
\* What --git-diff takes as its base: no option, and a word without `/' and `.'
\* or one that begins with HEAD or origin/.
TakesBase(k) == k <= Len(argv) /\ argv[k].form \in {"word", "revision"}

Command(k) ==
  /\ o' = [o EXCEPT !.cmd = [n \in 1..Len(argv) - k + 1 |-> argv[k + n - 1].text]]
  /\ i' = Len(argv) + 1
  /\ UNCHANGED <<phase, exit>>

ParseArg ==
  /\ phase = "args" /\ i <= Len(argv)
  /\ LET a == argv[i]
         Used(n, opts) ==
           IF opts.jobs < 1 THEN End(2) /\ UNCHANGED <<i, o>>
           ELSE i' = i + n /\ o' = opts /\ UNCHANGED <<phase, exit>>
     IN  \/ a.form = "--" /\ Command(i + 1)
         \/ a.form \in NoOption /\ Command(i)
         \/ a.form = "help" /\ End(0) /\ UNCHANGED <<i, o>>
         \/ a.form = "unknown" /\ End(2) /\ UNCHANGED <<i, o>>
         \/ /\ a.form = "value"
            /\ IF i = Len(argv) THEN End(2) /\ UNCHANGED <<i, o>>
               ELSE Used(2, Assign(o, a.text, argv[i + 1]))
         \/ a.form \in {"flag", "assign"} /\ Used(1, Assign(o, a.option, a))
         \/ /\ a.form = "git-diff"
            /\ IF TakesBase(i + 1) THEN Used(2, Assign(o, "git_diff", argv[i + 1]))
               ELSE Used(1, [o EXCEPT !.git_diff = TRUE])
  /\ UNCHANGED <<given, diffing, mutants>>

Parsed ==
  /\ phase = "args" /\ i > Len(argv)
  /\ phase' = "checks"
  /\ UNCHANGED <<given, i, o, diffing, mutants, exit>>

\* No command, or no mutant in the catalogue: exit code 2.
Checks ==
  /\ phase = "checks"
  /\ mutants' = IF o.cmd = <<>> THEN <<>> ELSE Listed
  /\ IF mutants' = <<>> THEN End(2)
     ELSE phase' = (IF o.git_diff THEN "diff" ELSE "end") /\ UNCHANGED exit
  /\ UNCHANGED <<given, i, o, diffing>>
-----------------------------------------------------------------------------
(* git, and git_diff_ranges *)

\* What `git diff -U0' prints of a change to one file: a header, and of each hunk a
\* line with its place in the new file (a count of 1 is left out) and the lines added.
Header(c) == [tag |-> "+++", prefix |-> c.prefix, name |-> c.name, start |-> 0, comma |-> FALSE, count |-> 0]
Hunk(h) == [tag |-> "@@", prefix |-> "", name |-> <<>>, start |-> h.start,
            comma |-> h.count # 1, count |-> h.count]
Added == [tag |-> "+", prefix |-> "", name |-> <<>>, start |-> 0, comma |-> FALSE, count |-> 0]
PrintedHunk(h) == <<Hunk(h)>> \o [x \in 1..h.count |-> Added]
PrintedFile(c) ==
  <<Header(c)>> \o FlattenSeq([n \in 1..Len(c.hunks) |-> PrintedHunk(c.hunks[n])])
Printed(change) == FlattenSeq([k \in 1..Len(change) |-> PrintedFile(change[k])])

\* Without a revision git compares with the index.
Revision(base) == IF base = "WORKING" THEN "" ELSE base

\* A base that looks like an option never reaches git; a revision that git does
\* not know, and a git that cannot be run, end the campaign.
GitFails ==
  /\ phase = "diff"
  /\ End(2)
  /\ UNCHANGED <<given, i, o, diffing, mutants>>

\* Mutant: a failing git has changed nothing.
GitPrints_FailureIsEmpty ==
  /\ phase = "diff"
  /\ text' = IF Revision(o.git_base) \in DOMAIN given.changes
             THEN Printed(given.changes[Revision(o.git_base)]) ELSE <<>>
  /\ phase' = "lines"
  /\ UNCHANGED <<given, i, o, file, ranges, mutants, exit>>
GitPrints ==
  /\ phase = "diff" /\ Revision(o.git_base) \in DOMAIN given.changes
  /\ text' = Printed(given.changes[Revision(o.git_base)])
  /\ phase' = "lines"
  /\ UNCHANGED <<given, i, o, file, ranges, mutants, exit>>

\* Mutant: the end of a range is its start plus its count.
RangesOf_OneTooMany(line) ==
  LET count == IF line.comma THEN line.count ELSE 1
  IN  IF count = 0 THEN <<>> ELSE <<[file |-> file, start |-> line.start, end |-> line.start + count]>>
\* Mutant: a hunk without a count adds nothing.
RangesOf_CountNeeded(line) ==
  IF line.count = 0 \/ ~line.comma THEN <<>>
  ELSE <<[file |-> file, start |-> line.start, end |-> line.start + line.count - 1]>>
\* Mutant: a hunk that only removes lines has a range.
RangesOf_ZeroToo(line) ==
  LET count == IF line.comma THEN line.count ELSE 1
  IN  <<[file |-> file, start |-> line.start, end |-> line.start + count - 1]>>
RangesOf(line) ==
  LET count == IF line.comma THEN line.count ELSE 1
  IN  IF count = 0 THEN <<>> ELSE <<[file |-> file, start |-> line.start, end |-> line.start + count - 1]>>

\* One turn of the loop of parse_git_diff_text: only `+++ b/' names a file.
ParseLine ==
  /\ phase = "lines" /\ text # <<>>
  /\ LET line == Head(text)
     IN  /\ file' = IF line.tag = "+++" /\ line.prefix = "b/" THEN line.name ELSE file
         /\ ranges' = IF line.tag = "@@" THEN ranges \o RangesOf(line) ELSE ranges
  /\ text' = Tail(text)
  /\ UNCHANGED <<given, i, o, phase, mutants, exit>>

\* Equal, or the diff's path is the end of the mutant's behind a separator.
path_match(mut_file, diff_file) == diff_file # <<>> /\ IsSuffix(diff_file, mut_file)

InRange(m) ==
  \E k \in DOMAIN ranges :
    path_match(m.file, ranges[k].file) /\ m.line >= ranges[k].start /\ m.line <= ranges[k].end
filter_by_diff == Select(mutants, {m \in ToSet(mutants) : InRange(m)})

\* Nothing on a changed line: nothing to prove, exit code 0.
Filter ==
  /\ phase = "lines" /\ text = <<>>
  /\ mutants' = filter_by_diff
  /\ phase' = "end"
  /\ exit' = IF mutants' = <<>> THEN 0 ELSE Running
  /\ UNCHANGED <<given, i, o, diffing>>

Next == ParseArg \/ Parsed \/ Checks \/ GitFails \/ GitPrints \/ ParseLine \/ Filter
Spec == Init /\ [][Next]_vars
-----------------------------------------------------------------------------
(* What was meant *)

\* Each base has a form that parse_args takes, and no --git-diff without a base
\* stands before a word that it would take.
Bare(k) == given.options[k].words[1].form = "git-diff" /\ Len(given.options[k].words) = 1
Clear ==
  \A k \in DOMAIN given.options :
    /\ Bare(k) => k < Len(given.options) \/ given.dashes \/ given.cmd = <<>> \/ given.cmd[1].form = "path"
    /\ given.options[k].words[1].form = "git-diff" /\ ~Bare(k) => given.options[k].words[2].form # "path"

\* What the options of one meaning give, one after another: the last word of each.
Values(options, what) ==
  LET told == Select(options, {x \in ToSet(options) : x.means = what})
  IN  [n \in 1..Len(told) |-> Last(told[n].words)]
Given(options, what) == Values(options, what) # <<>>
\* A later option overrides an earlier one.
NumberOf(options, what, default) ==
  IF Given(options, what) THEN Last(Values(options, what)).num ELSE default
TextOf(options, what, default) ==
  IF Given(options, what) THEN Last(Values(options, what)).text ELSE default
Texts(words) == [n \in 1..Len(words) |-> words[n].text]

\* Each field, by the options that are about it.
MeantBy(options, command) ==
  [min_score |-> NumberOf(options, "min_score", 0),
   min_score_set |-> Given(options, "min_score"),
   git_diff |-> Given(options, "git_diff") \/ Given(options, "base_default"),
   git_base |-> TextOf(options, "git_diff", "HEAD"),
   timeout_ms |-> NumberOf(options, "timeout_ms", 0),
   jobs |-> NumberOf(options, "jobs", 1),
   no_coverage |-> Given(options, "no_coverage"),
   catalog_dir |-> TextOf(options, "catalog_dir", ""),
   json_out |-> TextOf(options, "json_out", ""),
   binaries |-> Texts(Values(options, "binary")),
   cmd |-> Texts(command)]
Meant == MeantBy(given.options, given.cmd)
Sound == \A k \in DOMAIN given.options : ~given.options[k].bad

\* The mutant is on a line that the change made new.
OnChangedLine(m, change) ==
  \E c \in ToSet(change) : m.file = Root \o c.file
    /\ \E h \in ToSet(c.hunks) : m.line \in h.start..(h.start + h.count - 1)

\* Every header has the form the parser knows and names the file as it is called,
\* and no mutant's path ends like that of a changed file without being it.
PlainHeader(c) == c.prefix = "b/" /\ c.name = c.file
Plain(change) == \A c \in ToSet(change) : PlainHeader(c) \/ \A h \in ToSet(c.hunks) : h.count = 0
NoTwins(change) ==
  \A c \in ToSet(change), m \in ToSet(Listed) : path_match(m.file, c.file) => m.file = Root \o c.file

Base == Revision(Meant.git_base)
Change == given.changes[Base]
Filtered == phase = "end" /\ exit # 2 /\ Sound /\ Clear /\ Meant.git_diff
                          /\ Base \in DOMAIN given.changes
-----------------------------------------------------------------------------
(* Properties *)

TypeOK ==
  /\ i \in 1..Len(argv) + 1
  /\ DOMAIN o = DOMAIN Defaults /\ o.jobs >= 1
  /\ phase \in {"args", "checks", "diff", "lines", "end"}
  /\ \A k \in DOMAIN ranges : ranges[k].start <= ranges[k].end
  /\ ToSet(mutants) \subseteq ToSet(Listed) /\ Len(mutants) <= Len(Listed)
  /\ exit \in {Running, 0, 2}

\* A command line without a doubtful --git-diff is accepted if all its options are
\* sound, and only then, and it is understood as it is meant, whatever stands
\* before and behind each option; the command keeps all its words (parse_args).
ParsedAsMeant ==
  Clear /\ phase # "args" =>
    /\ Sound => o = Meant
    /\ phase # "end" => Sound

\* With headers of the usual form the campaign is about exactly the mutants on
\* lines changed against the base that was meant, in the catalogue's order, and
\* it ends without a campaign only if there are none.
ScopeExact ==
  Filtered /\ Plain(Change) /\ NoTwins(Change) =>
    /\ mutants = Select(Listed, {m \in ToSet(Listed) : OnChangedLine(m, Change)})
    /\ (exit = 0) = (mutants = <<>>)

\* Paths that end alike may add mutants but never lose one on a changed line.
ChangedNotLost ==
  Filtered /\ Plain(Change) =>
    \A m \in ToSet(Listed) : OnChangedLine(m, Change) => m \in ToSet(mutants)

\* A base that is no revision ends with exit code 2, never with success and never
\* with a campaign (README.md:138, "fails closed on a bad revision").
FailsClosed ==
  phase = "end" /\ Sound /\ Clear /\ Meant.cmd # <<>>
    /\ Meant.git_diff /\ Base \notin DOMAIN given.changes => exit = 2
=============================================================================
