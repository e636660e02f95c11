# mulation-bot in TLA+

Specifications of mulation-bot (mutation testing for C and C++): TLA+ modules
translated from the source, TLC configurations that check them on small
instances, and TLAPS proofs. Paths below are relative to the repository root.

## 1. The system

A compiler plugin puts, next to each operator, its mutated forms and a call
`mulation_active(id)` that chooses one at run time. `mulation-run` runs the test
command once per mutant with `MULATION_MUTANT=<id>` and reports which mutants no
test noticed.

    plugin/MulationPass.cpp --(section, sidecar files)--> runner/catalog.cpp
            |                                                   | list of mutants
            v                                                   v
      instrumented program                                 runner/main.cpp
            |   ^                                               |
            |   | MULATION_MUTANT, MULATION_HITLOG              v
    runtime/mulation_runtime.c <---- fork, exec, kill ---- runner/process.cpp
            |                                                   ^
            +------------------- hit log ----------------------+

| Component | State | Operations | What makes it hard | Correct when |
|---|---|---|---|---|
| runtime library, `runtime/mulation_runtime.c` | chosen mutant, hit table, log path | constructor, `mulation_active` by any thread, exit handler | threads race on the table and with the handler; the process may die anywhere; the table has a bound | one slot per id, nothing lost but for lack of room, only the chosen mutant active |
| `run_command`, `runner/process.cpp` | child, its group, a pipe, a deadline | fork, poll, kill, read, classify | races with the child, its children, the clock, the reuse of pids | no false verdict, no orphan after a timeout, all output, no hang, no stranger killed |
| campaign, `main` in `runner/main.cpp` | list, hit set, position counter, outcomes, report | select, baseline, coverage, pool, tally, gate | workers in any order, runs that fail, early exits | each mutant once, true report, a gate that is earned |
| catalogue, `runner/catalog.cpp` and the emission in the plugin | sections, sidecars, merged list | emit, link, read, merge | stale files, two formats, duplicates, order of reading | complete, no duplicates, reproducible |
| hit log, runtime and `load_hitlog` in `runner/main.cpp` | a file, one stdio buffer per process | append, read, partition | several processes append without a lock, in blocks that end within lines; some die | nothing a test reached counts as uncovered, or a bounded loss |
| instrumentation, `plugin/MulationPass.cpp` | the function being compiled, sites, records | collect, select chains, literals | mutated operators run even when off; chains use each other's ends; ids from positions that move | mutant off = original, mutant on = exactly that change |
| diff filter, `runner/diff.cpp` | ranges of changed lines | parse, match, filter | text of another program, paths that end alike, a git that fails | exactly the mutants of changed lines, or refusal |
| command line, `runner/cli.cpp` | `Options` | one argument after another | an option with an optional value before a command | understood as meant, or refused |
| compiler wrapper (`run_wrapper`) | - | one exec | - | - |
| `scripts/pr-comment-survivors.sh` | comments on a pull request | group, cap, post | repeated runs, failing calls | one comment per line |
| build, install, release, workflows, examples, tests, docs | - | - | - | not program logic |

Hazards, with their lines and the properties that cover them, are listed in
`PROJECT.json`.

## 2. Modules

| Module | Models | Role |
|---|---|---|
| `CoverageLog` | what coverage promises | abstract: a set that only grows, a log that is written at the end |
| `Runtime` | `runtime/mulation_runtime.c` | implements `CoverageLog` |
| `RuntimeProofs` | | theorems about `Runtime` |
| `RunCommand` | `runner/process.cpp` | one call of `run_command` |
| `Verdicts` | what a campaign promises | abstract: one verdict per mutant, report, exit code; no workers, no positions |
| `Campaign` | `main` in `runner/main.cpp` | implements `Verdicts` |
| `CampaignProofs` | | theorems about `Campaign` |
| `Catalog` | emission in the plugin, `runner/catalog.cpp`, discovery in `main` | builds and discovery |
| `Instrument` | `instrument` in `plugin/MulationPass.cpp` | the pass over one function, and what the function computes |
| `Scope` | `runner/cli.cpp`, `runner/diff.cpp`, the front of `main` | which mutants a campaign is about |
| `HitLog` | `mulation_flush_hits` of several processes, `load_hitlog`, the partition | from what was executed to what counts as uncovered |
| `Selection` | the loop that keeps of a list what belongs to a set | used by `Scope`, `Instrument` and `Catalog` |
| `SequenceLemmas` | | facts about lists joined and selected, used by the proofs |
| `RunCommandProofs`, `HitLogProofs`, `ScopeProofs`, `InstrumentProofs`, `CatalogProofs` | | theorems about the module named |
| `MC...` | | small instances for TLC, one per module above |

`Runtime` says what one process owes to its log, `HitLog` what becomes of the logs of
several processes in one file, `Campaign` what follows from any hit log that is
read; `RunCommand` gives `Campaign` its single step of a run. `Instrument` makes
the records of one function that `Catalog` carries to the campaign, and
`Scope` decides which of them the campaign is about. They meet in these
interfaces and are not composed into one module: the product would be out of
TLC's reach, and each side already takes any value the other may produce.

Operators whose names have an underscore after the name of an action or
operator (`Fetch_NotAtomic`) are faulty variants of it: no specification uses
them; replacing the definition by its variant must break the property that
`PROJECT.json` ("mutants") names, which shows that the property depends on the code.

### Runtime

One step is one atomic access. `BeginCall`, `Probe` (`Claim`, `AlreadyThere` or
`Occupied`: the three results of the compare-and-swap) and `Count` are
`record_hit`; `Return` gives the answer of `mulation_active`; `OpenLog`,
`FlushSlot`, `Spill`, `CloseLog` are the exit handler, with the stdio buffer that
may reach the file at any time. `MulationInit` is the constructor: calls before
it (static initialisers) and during and after the handler are possible. `End` may
come at any time. `UnloggedCall` is a call when no log was asked for. Abstracted:
`hit_hash` is any function (constant `Hash`); the log is the set of its lines;
the atomics are sequentially consistent per slot, which is what the code relies
on: each slot is one atomic object, written by compare-and-swap only. A failing
`fopen` and an exit without a log are `ExitUnlogged`. The log path is cut at 1023
bytes, and this is not modelled.

`returned`, `owed` and `on` are history variables: what calls have returned, what
the handler owes from the moment it opens the log, which ids were answered true.

### RunCommand

The parent's steps are its system calls in their order. The child runs on its own;
`Exec` takes its set-up as one step, since nothing outside sees the parts.
Processes it starts (`Kids`) inherit the group and the pipe and may leave either.
The clock is the flag `late`, which any step may find set after the set-up. A pid
may be reused once the child has been reaped. Output is counted in chunks.
Assumed: SIGCHLD has its default disposition, and a process that was killed is gone
in the same step (SIGKILL is not held up by the kernel).

### Campaign

`phase` is the place of `main`. A mutant is its place in the merged catalogue; a
run of the suite is one step with a free outcome: `failed`, `green`, `deadline`, or
`unspawned`, where `run_command` could not fork. `ran` and `runs` remember
the cause and the number of runs, so that verdicts and report can be compared
with what happened; no guard reads them. The hit log is any set of mutants and of
ids that the catalogue does not list (`Unlisted` stands for those). The worker's loop
is `Fetch`, `RunSuite`, `Store`; `main` is itself the worker when there is one job
or at most one mutant. The report is printed and
written in `Tally`; its numbers decide the gate. `score + 1e-9 < min_score` is
compared in integers (`Below`), which is the same for fewer than 10^9 mutants,
as `min_score` is an integer.

### Catalog

A catalogue is a sequence of characters, a record being one of them. `Compile` is
the end of the pass (`emitCatalog` and `writeSidecar`), `Link` the linker, `Edit`
a change of the sources; they come in any order, so that binaries and sidecars
are stale in some states. `writeSidecar` may find no directory or a file that does not
open, and then says nothing: the object file has its mutants, and the sidecar is missing or
the one of an earlier compilation. The history variable `kept` remembers the units whose file
is the one of their last compilation (`KeptNow`: a unit of the same name takes the file over).
`Discover` is the start of a campaign: it reads any list
of the binaries (the command, those ctest names, `--binary`) and, if told, the
directory in any order; what cannot be opened, binary, directory or file, is passed over, so
`named` and `opened` are any of them. `DirComplete` therefore says whose mutants can be
missing: the first of a unit that is `Unaided`, no other. A file name is a sequence of characters (`Spelling`) that
is escaped by `jsonEscape` and read back by `json_string_field`; two files stay
two only if the way back gives different names. The reader knows `\n` and `\t`
but not `\r` and `\u`: a name with a carriage return or another control character
would come back wrong. `FilesHaveOneSpelling` assumes that there is none: paths with
them do not occur in practice. The sort, which compares file, line and id, is
an insertion of one mutant after another (`Insert`): any sort gives the same list if
ids differ.

### Instrument

A function is the sequence of its instructions in layout order (`IsFunction`: they
are named by their places, have the operands their operators need, use what stands before
them, and none calls the runtime; branches go to where a block further on begins, and only
they and returns have no next instruction). `Collect`
gathers operators, comparisons and constants; `InstrumentBin`, `InstrumentCmp` and
`InstrumentLit` are one turn of each of the three loops; `Finish` hands the records
to the emission. `Chain` is the chain of alternative, call and select; `Chained`
gives the former uses its end (`replaceUsesWithIf`); `keyFor` builds the key of an id
from the place of the instruction *at that moment*, in a function that has grown.
`Exec` is what a function computes: it belongs to LLVM, not to the repository, and
is the reference that the properties compare with. Abstracted: branches go
forward only; arithmetic wraps (no `nsw`, no poison); division by zero and the
overflowing quotient stop the process, as on x86; the loop of the hash (`fnv`) is any function,
with collisions in the instance, and `fnv1a` gives 1 for its 0, as the code does; file names
are skipped or kept.

### Scope

`ParseArg` is one turn of the loop of `parse_args`; `Checks` is the front of `main`;
`GitPrints` and `GitFails` are git; `ParseLine` is one turn of the loop of
`parse_git_diff_text`, `Filter` is `filter_by_diff`. A word of the command line has a
form: what the comparisons of `parse_args` tell of it. A path is the sequence of its
parts, a line of git's output a record of the fields the parser looks at. What was
meant (`Meant`) and what was changed (`OnChangedLine`) are defined apart from the
parser, on the user's options and on the change itself, and the properties compare the
two: `MeantBy` gives each field from the options that are about it, and uses nothing of the
assignments of `parse_args` (`Assign`). A header spells the file as git does (`name`): behind
a name with spaces stands a tab, which the parser does not take off. `Plain`, `NoTwins` and `Clear` name the inputs on which they are
promised to agree; `ChangedNotLost` drops `NoTwins`.

### HitLog

`Open`, `PutLine`, `Close` are `mulation_flush_hits`, with stdio's buffer: a full one goes
to the file wherever it ends. `Cut` is a process that ends by `_exit` or a signal while its
caller passes nevertheless. `Load` reads lines, whatever stands on them. A line
is the decimal digits of an id, as many as it has, and its end (`Line`); main reads a number
back as `strtoul` does, which stops at `ULongMax`, and casts it to an id, which cuts it (`Number`).
A block has few characters in the instance, so that it ends within lines as 4096 characters
do with ids of up to ten digits. One `write` to a file opened for appending
is one piece. `splits` counts, as a history variable, the blocks that ended within a
line, which is the measure `LossBounded` bounds the loss by.

## 3. Runs

| Run | Instance | Shows |
|---|---|---|
| `runtime` | 2 threads, 3 ids, 3 slots, 2 tries | `NoDuplicate`, `HitsReported`, `SlotsWriteOnce`, `CallReturns`, refinement of `CoverageLog` |
| `run_command` | 2 kids, pipe of 2 chunks, output of at most 4 | `TimeoutClearsGroup`, `VerdictFaithful`, `OutputComplete`, `StrangerSpared`, `ReturnsAfterDeadline`, `PipeEmptied` |
| `campaign` | 3 mutants, at most 2 workers, minimum 50 or 100 | `ExactlyOnce`, `ReportTrue`, `CleanRefusal`, `GateEarned`, `Terminates`, refinement of `Verdicts` |
| `catalogue` | 2 units with 2 versions each, 2 binaries | `FirstOnlyLost`, `DirComplete`, `Reproducible` |
| `instrument` | 68 functions, integers of 3 bits, all inputs | `SameWhenOff`, `OneChange`, `AsksWhereItRuns`, `KeysDistinct`, `CatalogIsTheCode` |
| `scope` | up to 2 options, changes of up to 2 files, 7 mutants | `ParsedAsMeant`, `ScopeExact`, `ChangedNotLost`, `FailsClosed` |
| `hit_log` | 3 processes, logs of up to 3 ids of 1 to 3 digits, blocks of 7 characters | `SmallLogsWhole`, `LossBounded` |
| `hangs` | as `campaign` | violated: a campaign of hangs passes the gate |
| `unspawned` | as `campaign` | violated: a run that did not start counts as killed |
| `sentinel` | as `runtime`, with `UMax` an id | violated: a mutant active in the baseline |
| `lost_first` | as `catalogue` | violated: a mutant that no campaign runs |
| `eager_division` | as `instrument` | violated: an instrumented program stops at a division its source does not have |

The five violated properties state what the documentation or a comment says; the
quotes are in `PROJECT.json` ("findings").

### Bounds, and why they are enough

- `Threads`, `Ids`, `HitCap`, `Probes`, `Hash`: ids 1 and 2 start at the last slot and
  wrap around, id 3 starts where they go on. Races for one slot, for one id,
  displaced ids and a full window all occur. Two threads suffice for these races
  (each is between a pair); the proofs cover any number.
- `Kids`, `PipeCap`, `MaxOut`: two kids allow one in the group and one escaped with
  the pipe; four chunks fill the pipe twice. `MaxOut` also means that output is
  finite: with endless output `drain_fd` would not come back to the deadline.
- `N`, `MaxJobs`, `MinScores`: three mutants and two workers give a worker a second
  turn and a last position both go for; three workers were run once without an
  error, too slow to keep. The minimum 50 lies between the possible
  scores and 100 is the boundary. The proofs cover all values.
- `Units`, `Binaries`, `Versions`: one unit can lose all its mutants, the other
  can change their order; one mutant is shared as that of an inline function is; two
  have the same line. A sidecar may be written or not, and read or not. Ids are distinct per site
  and sidecar names per unit (`HashesDiffer` of `MCCatalog`): 32-bit hashes do not guarantee
  it. That ids differ is a hypothesis of the theorems, since a mutant that shares its id is
  lost; that sidecar names differ is not.
- `Sources`, `Width`: each operator, each comparison, chains over chains, comparisons joined
  by a logical operator, two sites of one line, sites without a line or in a test file,
  constants as operands of comparisons and returns, functions with a branch. Three bits
  have negative numbers and the quotient that does not fit, and differ in every
  comparison, signed or not.
- `Cases`, `Listed`: every option, alone and in pairs, with and without `--`; each form of a
  base; rewritten, added and removed lines in one or two files; two files whose paths
  end alike (`a`, `lib/a`), a deleted file, and a name with a space. Options act on their own fields, so pairs
  reach every interaction: overriding, and an option taken for another's value.
- `Procs`, `Logs`, `Block`, `UIntMax`, `ULongMax`: with blocks of 7 characters and lines of 2
  to 4 a block ends before, within and behind a line; three processes can put a block of another
  between the parts of a line, and one more behind it. Ids have 8 bits and `strtoul` 16, so
  that glued digits make numbers that are cut and numbers that are clamped.

Deadlock is not checked in `instrument`, `scope` and `hit_log`: these processes end.

### Fairness

- `Runtime`: a thread inside `record_hit` or the handler is not suspended for ever.
  No thread has to call, to exit, or to be reached by `End`.
- `RunCommand`: weak fairness of the parent only. The command owes nothing, and the
  deadline need not come; `ReturnsAfterDeadline` starts when it has come.
- `Campaign`: `main` and each worker are scheduled, and a run comes to an end, which
  is `ReturnsAfterDeadline`: runs of mutants capture no output, so no process can
  hold the parent there.
- `Catalog`, `Instrument`, `Scope`, `HitLog`: none; nothing has to happen, and what happens ends.

## 4. Proofs

The modules `...Proofs` prove, for all values of the constants allowed by the assumptions
in the modules:

| Theorem | Says |
|---|---|
| `RuntimeProofs!Invariance`, `TypeCorrect` | `IndInv`, `TypeOK` are invariants of `Runtime` |
| `WriteOnce`, `OneSlotPerId`, `LogComplete` | `SlotsWriteOnce`, `NoDuplicate`, `HitsReported` |
| `RuntimeProofs!Refinement` | `Runtime` implements `CoverageLog` |
| `OneMutantAtATime` | `OnlyTheAskedMutant`, if no id is `UMax` (the run `sentinel` shows that the condition is needed) |
| `CampaignProofs!Invariance`, `TypeCorrect` | `IndInv`, `TypeOK` are invariants of `Campaign` |
| `RunExactlyOnce`, `ReportIsTrue`, `GateIsEarned` | `ExactlyOnce`, `ReportTrue`, `GateEarned` |
| `RefusesCleanly` | `CleanRefusal` |
| `CampaignProofs!Refinement` | `Campaign` implements `Verdicts` |
| `RunCommandProofs!Invariance`, `TypeCorrect` | `IndInv`, `TypeOK` are invariants of `RunCommand` |
| `GroupCleared`, `VerdictIsTheCommands`, `NothingUnread`, `NoStrangerKilled` | `TimeoutClearsGroup`, `VerdictFaithful`, `OutputComplete`, `StrangerSpared` |
| `HitLogProofs!Invariance`, `TypeCorrect` | `IndInv`, `TypeOK` are invariants of `HitLog` |
| `LossIsBounded`, `SmallLogsAreWhole` | `LossBounded`, `SmallLogsWhole` |
| `ScopeProofs!Invariance`, `TypeCorrect` | `IndInv`, `TypeOK` are invariants of `Scope` |
| `ReadAsMeant`, `ExactScope`, `NoneLost`, `NeverOpen` | `ParsedAsMeant`, `ScopeExact`, `ChangedNotLost`, `FailsClosed` |
| `InstrumentProofs!Invariance`, `TypeCorrect` | `IndInv`, `TypeOK` are invariants of `Instrument` |
| `KeysOfTheirOwn`, `CatalogTrue` | `KeysDistinct`, `CatalogIsTheCode` |
| `Simulated` | a function in which one instruction has become several runs like it, if they together do what the one did |
| `Simulation` | `IndInv` and `Behaves` are invariants of `Instrument`: what the function computes is what its source does, mutant by mutant |
| `OffIsSame`, `CoverageIsTrue`, `MutantIsOneChange` | `SameWhenOff`, `AsksWhereItRuns`, `OneChange` |
| `CatalogProofs!Invariance`, `TypeCorrect` | `IndInv`, `TypeOK` are invariants of `Catalog` |
| `OnlyFirstLost`, `DirIsComplete`, `SameList` | `FirstOnlyLost`, `DirComplete`, `Reproducible`, if ids do not collide (`IdsTellMutants`) |

*Runtime.* `NoDuplicate` is not inductive: a thread that is about to claim a free slot
could hold an id stored further on. The invariant adds where ids may be:
each stored id lies in its window and every earlier slot of the window holds another
id (`FirstFreeSlot`); the slots a probing thread has passed hold other ids
(`TriedSlotsTaken`). As slots are never emptied (`SlotsOnlyFilled`), these facts
stay true, and a thread that finds a free slot knows that its id is nowhere else.
`HitsReported` adds what the handler still has before it (`OwedAhead`): an owed id is
written, or lies ahead of `flushAt`, or had no room.

*Campaign.* The invariant says that a busy worker holds a position that was handed out
(`Held`), no two the same one (`OneHolder`), that a position handed out has
either an outcome or a holder (`RanIffStored`), that its outcome is the class of the
run that took place, and that mutants outside the list are not run
(`OthersNotRun`). When all workers are done the counter has passed
the end (`PoolShape`), so every position has an outcome (`AllStored`). The report then
follows by counting: the list is injective, hence counts of positions are counts
of mutants (`CountPositions`). The refinement maps a position's outcome to the
verdict of its mutant; `Store` is `Decide`, `Partition` decides the uncovered
mutants at once. `CleanRefusal` needs that the temporary file exists around the
coverage run only, and that the pool is behind green runs (`RefusalInv`).

*RunCommand.* The invariant ties the child to the parent's step (`ChildAtStep`): it is a
zombie between the kill and the wait, so its pid belongs to nobody else
(`PidHeld`), and reaped in the final read. The group exists before the command runs and
before the parent goes on (`GroupFirst`), so that no process it starts was ever
outside, and behind the kill none is left inside (`GroupKilled`), nor can one be
started, the child being dead. `Ended` says that SIGKILL comes from the deadline
only, hence a crash is never the parent's own doing. `Accounted` is the balance
of the output, written = read + in the pipe; the final read ends with an
empty pipe and no writer. The theorems need `PipeCap > 0`, and nothing of the number of
processes, which may be infinite.

*HitLog.* The bound on the loss is not inductive as it stands: a file that ends within a
line will spoil the line that comes next. The invariant `LossSoFar` therefore bounds the loss
by `2 * splits` less one while the end of the file is torn (`TornEnd`): each block that ends
within a line costs the id it cuts when it is written, and the id that is glued to it only
later. It needs to know which line each character of a process stands in: what has left
the buffer and what is in it are one part of the process's lines after another (`BufferIsTheEnd`).
`WholeSoFar` is the other regime: if no log fills a buffer, the file is a list of whole
lines (`LinesOf`) with each id that is owed. That a whole line is read as its id needs that
decimal digits give back the number they were made from (`DecimalIs`) and that it is below
both limits (`NumberIs`). Assumed: ids are unsigned
numbers but 0 (`IdsAreUnsigned`), an unsigned long is no shorter than an unsigned (`Widths`),
and a block holds a line (`BlockHoldsALine`), as 4096 characters hold ten digits and a newline.

*Scope.* Each half reads a list whose parts are joined, words of options or lines of hunks of
files. The invariant says where in the parts the reader is: `ReadInParts` (all words of the first `k`
options are read, and the options stand as these `k` mean, `MeantFirst(k)`: one more option
gives its own field a value and no other field one, `GivesOwn`, `GivesNoOther`) and `RestOfDiff`, `FileOfLine`
(what is still to be read; whose lines the parser is at). Then each range is one of the
change (`RangesTrue`) and each hunk that was read has its range (`RangesWhole`); the two
together give `ScopeExact`, the second alone `ChangedNotLost`, which holds even where paths
end alike. Nothing is assumed of the command lines and changes but their form
(`CasesAreCommandLines`, `IsCase`), of the catalogue that it is a list of places
(`ListedIsACatalogue`), and of the tree that it has a root (`RootIsAPath`).

*Instrument.* `KeysDistinct` is not inductive: a key is made from the place of a site
in a function that has grown since the other keys were made. The invariant says that the
ordinals of the records of each loop are below the place, now, of every site of that loop
that waits (`Awaited`, `LiteralsAwaited`), and that sites wait in the order of the layout. It stays
true because a chain is put behind its site and a select before it, so that sites that wait
only move on, and all by as much as anything before them (`MovedOrder`). Under it lies `Layout`:
names are unique and values are made before they are used, however often the uses of a chain have been
handed to the next one (`LinkUses`, `LinkedFrom`). `CalledIds(b) = Ids(rs)` gives `CatalogIsTheCode`.
Assumed: the functions are functions (`SourcesAreFunctions`); they may be of any number and length.

What the function computes is a second argument, a simulation. Each turn of the pass turns a function
`b` into a `c` in which one instruction has become several (`Grown`, from `ChainGrows` and `SelectGrows`:
everything else stands in the same order and uses the end of the chain where it used the site). A
state of a run of `c` answers one of a run of `b` (`Agree`) if it is at the same instruction, has the
same value for each name of `b` (for the site's, what the end of the chain has), and has asked for the
same ids, and for the new ones if the site has been executed. Every other instruction keeps
this (`StepAgrees`); so do the new ones together, link by link (`ChainGoesOn`, `ChainWorks`), or the
call, the select and the site (`SelectWorks`), or they stop the process, which is why the properties speak
of runs that do not trap. No instruction is executed twice, so the run of `c` has ended when its
steps are used up (`Simulated`).

`SameWhenOff` and `OneChange` are not inductive: a mutant made earlier must survive the
turns that come later, and a mutant made now is a change of a function that has been instrumented
already, not of the source. The invariant (`Behaves`) therefore says two things. `Alike`: with *any* one
instruction of the source changed, in the function and in the source, and any mutant active that is
not the function's own, the function runs like the source. `OneEach`: with one of its own active
whose id no other has, it runs like the source with the change of the record (`EditOf`). A turn keeps the first because
a chain whose mutants are off gives what its site gives, changed or not (`ChainAltered`,
`SelectAltered`), and hands it to the second for the new mutants, because a chain with the q-th mutant
on gives what the site would give with the q-th alternative (`ChainChosen`, `SelectChosen`); `BinSwaps`, `CmpSwaps` and
`LitReplaces` show that the signs of the record name that alternative and no other. Nothing
is used of the arithmetic: `Apply` and `Traps` are not expanded, so the theorems hold whatever the operators compute,
and at any width. That no id is 0 (`fnv1a`) is needed: an id 0 would be on when no mutant is.

*Catalog.* Most of the argument is about data. A name that is escaped and read back
is the name (`NameReadBack`: behind each escape the reader is where it would be had it read the name
itself), so a record is read as it was written. In a section a record begins a line
unless it stands behind the NUL of the unit before, which only the first of a unit does
(`SectionIs`, over the places in joined lists). Merging keeps one mutant of each id, in an
order that is total on them, and a set has one ordered list (`OrderedIsUnique`); two campaigns
read the same set (`AllReadIs`), hence have the same list. The invariant says of the build that
each section is the one of its parts (`BinaryInv`), that the sidecar of a `kept` unit is the one written with its object file, and that no two
kept units have the same name (`SidecarInv`), and of the campaign that its list is one that
can be found in the build *as it is now* (`ListInv`). The collision that is excluded as a hypothesis
would falsify the properties: a mutant that shares its id is dropped by the merge. Units
may share a name, and files may fail to open: the property names the units that
suffer. Assumed: finitely many units and
binaries, and spelling as above.

*Lists.* The modules above fold over sequences. `SequenceLemmas` proves what the operators return: `FlattenSeq`
joins lists one behind another (`FlattenJoins`, `JoinedElement`), `Select` keeps what belongs to a set in
its order (`SelectKeeps`, `SelectPicks`, `PlacesAre`), a recursion over the numbers up to n has a
solution (`RecursionSolved`). Where a definition is recursive, the proofs take the least
counterexample, a natural number, instead of an induction theorem (`LeastNatural`).

Checked by TLC only:

- liveness (`CallReturns`, `ReturnsAfterDeadline`, `PipeEmptied`, `Terminates`): TLAPS does not
  prove it;
- the disagreements with the documentation (the runs that expect a violation).

Every invariant that a passing run checks is a theorem.

The invariants of `Runtime` and `Campaign` are also checked by TLC (`IndInv` in the runs).

## 5. Not modelled, and the plan

- The compiler wrapper (`run_wrapper`, `find_plugin`): one argument vector and one `exec`.
- `scripts/pr-comment-survivors.sh`: a script around a service outside the repository. It
  posts its comments anew in each run (hazard in `PROJECT.json`).
- The parser of ctest's JSON and the layout of ELF files: `Catalog` takes any list of
  binaries and reads the section as it was linked.
- Build and release files, workflows, wording of reports, examples, tests.
- A sidecar that opens and is then written in part (a full disk), and a compiler that ends
  between the pass and the object file.
- File names with a carriage return or another control character (`FilesHaveOneSpelling`).
- Weak memory beyond the atomicity of each slot; signals to `mulation-run` itself; time as
  a quantity; LLVM's poison and undefined values.

Known divergences that no run shows:

- `parse_git_diff_text` takes `+++ b/` only for a header. With `diff.noprefix`,
  `diff.mnemonicPrefix` or a quoted name the hunks are put to the file before or to no file
  (`diff.cpp:28`), where README.md:138 speaks of all changed lines. Behind a name with spaces git puts a
  tab, which stays part of the name (`diff.cpp:29`), so no mutant of the file is kept. `Plain`
  excludes them. An added line that begins with
  `++ b/` is taken for a header too; the lines of `Scope` do not have it.
- `--git-diff feature/x` without `=` takes `feature/x` for the command (`cli.cpp:78`).
  `Clear` excludes it.

What a continuation would take up: loops in `Instrument` (a run without a bound on its steps,
in which the simulation would hold step by step as it does now), several functions of one
module, with the name of the function in the key; and the comments on pull requests.
