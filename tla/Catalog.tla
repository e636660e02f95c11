------------------------------ MODULE Catalog ------------------------------
(***************************************************************************)
(* The way of a mutant from the compiler plugin to the campaign: the pass  *)
(* writes the mutants of a translation unit into a section of the object   *)
(* file and, if MULATION_CATALOG_DIR is set, into a sidecar file           *)
(* (plugin/MulationPass.cpp); the linker puts the sections end to end;     *)
(* mulation-run reads the sections and the sidecars back and merges them   *)
(* (runner/catalog.cpp and the start of main).                             *)
(*                                                                         *)
(* Between builds the sources change, units are compiled and binaries are  *)
(* linked in any order, or are not: sidecars and binaries get stale.       *)
(***************************************************************************)
EXTENDS Integers, Sequences, SequencesExt, Selection

CONSTANTS
  Units,     \* translation units
  Binaries,  \* test binaries
  Versions,  \* what the pass may find in each unit: a set of lists of mutants
  ModuleName, \* the hash of each unit's module identifier
  Spelling   \* the characters of each file's name

ASSUME BuildIsFinite == IsFiniteSet(Units) /\ IsFiniteSet(Binaries)

Mutant == [id : Nat \ {0}, file : DOMAIN Spelling, line : Nat \ {0}]
ASSUME VersionsAreLists == \A u \in Units : \A recs \in Versions[u] : recs \in Seq(Mutant)
ASSUME ModuleNamesAreNumbers == ModuleName \in [Units -> Nat]
ASSUME FilesAreNumbers == DOMAIN Spelling \subseteq Nat \ {0}

\* No name has one of the characters that are not read back as they were.
ASSUME FilesHaveOneSpelling ==
  /\ IsInjective(Spelling)
  /\ \A f \in DOMAIN Spelling : Spelling[f] \in Seq(STRING \ {"cr", "control"})

VARIABLES
  source,   \* the mutants the pass would find in each unit now
  object,   \* the mutants compiled into each object file
  built,    \* units that have an object file
  binary,   \* of each binary, its units, their mutants and its section
  sidecars, \* the files of the catalogue directory
  kept,     \* history: units whose file there is the one of their last compilation
  phase,    \* "build" or "listed"
  named,    \* binaries the campaign looks at and can read, in order
  opened,   \* files of the directory it looks at and can read
  mutants   \* mutants of main, after merge_mutants

build == <<source, object, built, binary, sidecars, kept>>
vars == <<build, phase, named, opened, mutants>>

\* Characters of a catalogue, a record being one of them.
Rec(m) == [tag |-> "record", mutant |-> m]
Newline == [tag |-> "newline"]
Nul == [tag |-> "nul"]

AllMutants == UNION {UNION {ToSet(recs) : recs \in Versions[u]} : u \in Units}
NoRepeats(S) == UNION {{s \in [1..k -> S] : IsInjective(s)} : k \in 0..Cardinality(S)}

TypeOK ==
  /\ \A u \in Units : source[u] \in Versions[u] /\ object[u] \in Versions[u] \union {<<>>}
  /\ kept \subseteq built /\ built \subseteq Units
  /\ \A b \in Binaries :
       /\ binary[b].units \in NoRepeats(Units)
       /\ Len(binary[b].parts) <= Len(binary[b].units)
       /\ \A i \in DOMAIN binary[b].section : binary[b].section[i].tag = "record" =>
            binary[b].section[i].mutant \in AllMutants
  /\ DOMAIN sidecars \subseteq {ModuleName[u] : u \in Units}
  /\ opened \subseteq DOMAIN sidecars
  /\ phase \in {"build", "listed"}
  /\ named \in NoRepeats(Binaries)
  /\ ToSet(mutants) \subseteq AllMutants /\ IsInjective(mutants)

Init ==
  /\ source \in {s \in [Units -> UNION {Versions[u] : u \in Units}] :
                   \A u \in Units : s[u] \in Versions[u]}
  /\ object = [u \in Units |-> <<>>] /\ built = {}
  /\ binary = [b \in Binaries |-> [units |-> <<>>, parts |-> <<>>, section |-> <<>>]]
  /\ sidecars = <<>> /\ kept = {}
  /\ phase = "build" /\ named = <<>> /\ opened = {} /\ mutants = <<>>
-----------------------------------------------------------------------------
(* The build *)

Edit(u) ==
  /\ phase = "build"
  /\ \E recs \in Versions[u] \ {source[u]} : source' = [source EXCEPT ![u] = recs]
  /\ UNCHANGED <<object, built, binary, sidecars, kept, phase, named, opened, mutants>>

\* Quotes, backslashes and control characters are written as escapes.
Escapes ==
  [quote |-> <<"backslash", "quote">>, backslash |-> <<"backslash", "backslash">>,
   newline |-> <<"backslash", "n">>, cr |-> <<"backslash", "r">>, tab |-> <<"backslash", "t">>,
   control |-> <<"backslash", "u", "0", "0", "1", "f">>]
Escaped(c) == IF c \in DOMAIN Escapes THEN Escapes[c] ELSE <<c>>
jsonEscape(name) == FlattenSeq([i \in DOMAIN name |-> Escaped(name[i])])

toNdjson(recs) ==
  [i \in 1..2 * Len(recs) |-> IF i % 2 = 1 THEN Rec(recs[(i + 1) \div 2]) ELSE Newline]

\* The string constant of the section keeps its terminating NUL.
emitCatalog(recs) == Append(toNdjson(recs), Nul)

\* Mutant: one sidecar for all units.
writeSidecar_OneFile(u, opens) ==
  IF opens THEN [h \in {ModuleName[v] : v \in Units} |-> source[u]] ELSE sidecars

\* A file named by the module's hash, written anew. Without a directory, or if the
\* file does not open, whatever lies there stays, and the compiler says nothing.
writeSidecar(u, opens) ==
  IF opens
  THEN [h \in DOMAIN sidecars \union {ModuleName[u]} |->
          IF h = ModuleName[u] THEN source[u] ELSE sidecars[h]]
  ELSE sidecars

\* A unit whose file another unit writes has none of its own any more.
KeptNow(u, writes) ==
  IF writes THEN {v \in kept : ModuleName[v] # ModuleName[u]} \union {u} ELSE kept \ {u}

\* A unit without mutants gets no section, and its sidecar is not touched.
Compile(u) ==
  /\ phase = "build"
  /\ object' = [object EXCEPT ![u] = source[u]]
  /\ built' = built \union {u}
  /\ \E opens \in BOOLEAN :
       /\ sidecars' = IF source[u] = <<>> THEN sidecars ELSE writeSidecar(u, opens)
       /\ kept' = KeptNow(u, opens /\ source[u] # <<>>)
  /\ UNCHANGED <<source, binary, phase, named, opened, mutants>>

\* The linker: sections of one name are put end to end.
Link(b) ==
  /\ phase = "build"
  /\ \E units \in NoRepeats(built) \ {<<>>} :
       LET parts == Select([i \in DOMAIN units |-> object[units[i]]], {object[u] : u \in Units} \ {<<>>})
       IN  binary' = [binary EXCEPT ![b] =
             [units |-> units, parts |-> parts,
              section |-> FlattenSeq([i \in DOMAIN parts |-> emitCatalog(parts[i])])]]
  /\ UNCHANGED <<source, object, built, sidecars, kept, phase, named, opened, mutants>>
-----------------------------------------------------------------------------
(* The campaign reads *)

\* What stands behind a backslash: n and t are a newline and a tab, any other
\* character stands for itself.
Unescaped(c) == CASE c = "n" -> "newline" [] c = "t" -> "tab" [] OTHER -> c

\* One turn of the loop over the text, which ends at the first quote.
ReadChar(s, c) ==
  CASE s.closed -> s
    [] ~s.closed /\ s.escaped -> [s EXCEPT !.escaped = FALSE, !.out = Append(@, Unescaped(c))]
    [] ~s.closed /\ ~s.escaped /\ c = "quote" -> [s EXCEPT !.closed = TRUE]
    [] ~s.closed /\ ~s.escaped /\ c = "backslash" -> [s EXCEPT !.escaped = TRUE]
    [] ~s.closed /\ ~s.escaped /\ c \notin {"quote", "backslash"} -> [s EXCEPT !.out = Append(@, c)]

json_string_field(text) ==
  LET read[n \in 0..Len(text)] ==
        IF n = 0 THEN [out |-> <<>>, escaped |-> FALSE, closed |-> FALSE]
        ELSE ReadChar(read[n - 1], text[n])
  IN  read[Len(text)].out

\* The file that a name written to a catalogue and read back means; 0 is none.
ReadBack ==
  [f \in DOMAIN Spelling |->
    LET name == json_string_field(jsonEscape(Spelling[f]) \o <<"quote", ",">>)
    IN  IF \E g \in DOMAIN Spelling : Spelling[g] = name
        THEN CHOOSE g \in DOMAIN Spelling : Spelling[g] = name ELSE 0]

\* Mutant: reading stops at the first line that is not a record.
parse_ndjson_Stops(text) ==
  LET Starts(i) == i = 1 \/ text[i - 1] = Newline
      at == Places(text,
              {i \in DOMAIN text : Starts(i) /\ \A j \in 1..i : Starts(j) => text[j].tag = "record"})
  IN  [k \in DOMAIN at |-> [text[at[k]].mutant EXCEPT !.file = ReadBack[@]]]

\* A line counts if its first character begins a record; the fields found
\* then are the record's, whose id is not 0 and whose file is not empty.
RecordLines(text) ==
  {i \in DOMAIN text : text[i].tag = "record" /\ (i = 1 \/ text[i - 1] = Newline)}
parse_ndjson(text) ==
  LET at == Places(text, RecordLines(text))
  IN  [k \in DOMAIN at |-> [text[at[k]].mutant EXCEPT !.file = ReadBack[@]]]

read_elf_catalog(b) ==
  IF binary[b].section = <<>> THEN <<>>
  ELSE parse_ndjson(Append(binary[b].section, Newline))

\* The files that can be read come in the order of readdir.
read_catalog_dir(order) ==
  FlattenSeq([i \in DOMAIN order |-> parse_ndjson(toNdjson(sidecars[order[i]]))])

\* Mutant: mutants of one line are not ordered.
Before_ByPlaceOnly(a, b) ==
  \/ a.file < b.file
  \/ a.file = b.file /\ a.line < b.line

Before(a, b) ==
  \/ a.file < b.file
  \/ a.file = b.file /\ a.line < b.line
  \/ a.file = b.file /\ a.line = b.line /\ a.id < b.id

\* The sort, as an insertion of one mutant after the other.
Insert(s, m) ==
  LET later == {n \in ToSet(s) : Before(m, n)}
  IN  Select(s, ToSet(s) \ later) \o <<m>> \o Select(s, later)
Sort(s) ==
  LET sorted[n \in 0..Len(s)] == IF n = 0 THEN <<>> ELSE Insert(sorted[n - 1], s[n])
  IN  sorted[Len(s)]

\* Mutant: duplicates are kept.
merge_mutants_KeepsAll(all) == Sort(all)

\* Of mutants with the same id the first is kept.
merge_mutants(all) ==
  LET first == {i \in DOMAIN all : \A j \in 1..i - 1 : all[j].id # all[i].id}
      at == Places(all, first)
  IN  Sort([k \in DOMAIN at |-> all[at[k]]])

\* What main can find in these binaries and files, for some order of the directory.
Found(binaries, files) ==
  {merge_mutants(FlattenSeq([i \in DOMAIN binaries |-> read_elf_catalog(binaries[i])])
                   \o read_catalog_dir(order)) :
     order \in {o \in NoRepeats(files) : ToSet(o) = files}}

\* The command, the binaries ctest names and --binary: any list of binaries. A
\* binary or a file that does not open is passed over; without a directory, and
\* if it does not open, no file is read.
Discover ==
  /\ phase = "build"
  /\ phase' = "listed"
  /\ named' \in NoRepeats({b \in Binaries : binary[b].units # <<>>})
  /\ opened' \in SUBSET DOMAIN sidecars
  /\ mutants' \in Found(named', opened')
  /\ UNCHANGED build

\* The campaign is over, and development goes on.
GoOn ==
  /\ phase = "listed"
  /\ phase' = "build" /\ named' = <<>> /\ opened' = {} /\ mutants' = <<>>
  /\ UNCHANGED build

Next ==
  \/ \E u \in Units : Edit(u) \/ Compile(u)
  \/ \E b \in Binaries : Link(b)
  \/ Discover \/ GoOn

Spec == Init /\ [][Next]_vars
-----------------------------------------------------------------------------
(* Properties *)

\* No two different mutants have the same id: the 32-bit hash of a mutant's key
\* (MulationPass.cpp:348-357) does not collide.
IdsTellMutants == \A m, n \in AllMutants : m.id = n.id => m = n

\* The mutants compiled into the binaries the campaign looks at.
Sites == UNION {UNION {ToSet(p) : p \in ToSet(binary[b].parts)} : b \in ToSet(named)}

\* Reading the sections loses at most the first mutant of each unit but the
\* first (MulationPass.cpp:561 keeps a NUL after each unit's catalogue and
\* catalog.cpp:138 skips a line that starts with it): all others are listed.
FirstOnlyLost ==
  phase = "listed" =>
    \A b \in ToSet(named) : \A k \in DOMAIN binary[b].parts :
      LET part == binary[b].parts[k]
      IN  ToSet(IF k = 1 THEN part ELSE Tail(part)) \subseteq ToSet(mutants)

\* The binary has been linked since its units were compiled.
UpToDate(b) == ToSet(binary[b].parts) = {object[u] : u \in ToSet(binary[b].units)} \ {<<>>}

\* Units of a binary whose sidecar cannot make up for what the section loses: it
\* was not written, another unit's has its name, or the campaign did not read it.
Unaided(b) ==
  {u \in ToSet(binary[b].units) :
     object[u] # <<>> /\ (u \notin kept \/ ModuleName[u] \notin opened)}

\* Sidecars make up for what the sections lose (MulationPass.cpp:571-586 and
\* catalog.cpp:154-162, 208-246): of a binary linked since its units were compiled
\* only the first mutant of a unit can be missing, and only if the unit's sidecar
\* could not be written, was overwritten, or could not be read, whatever stale
\* sidecars lie there.
DirComplete ==
  phase = "listed" =>
    \A b \in ToSet(named) :
      UpToDate(b) => \A part \in ToSet(binary[b].parts) :
        ToSet(part) \ ToSet(mutants) \subseteq {object[u][1] : u \in Unaided(b)}

\* The list depends on the build and on what can be read of it only
\* (catalog.cpp:226-246): neither the order of the binaries nor that of readdir
\* changes it, so two campaigns that read the same files run the same mutants in
\* the same order, each once.
Reproducible ==
  phase = "listed" =>
    /\ \A i, j \in DOMAIN mutants : mutants[i].id = mutants[j].id => i = j
    /\ \A order \in {o \in NoRepeats(Binaries) : ToSet(o) = ToSet(named)} :
         \A found \in Found(order, opened) : found = mutants

\* cli.cpp:20, of --no-coverage: "Run every mutant, not only sites hit by
\* tests".  Every mutant of the binaries is in the list the campaign runs.
EveryMutantListed == phase = "listed" => Sites \subseteq ToSet(mutants)
=============================================================================
