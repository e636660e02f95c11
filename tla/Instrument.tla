----------------------------- MODULE Instrument -----------------------------
(***************************************************************************)
(* The compiler pass of plugin/MulationPass.cpp, MulationInstrumentPass::  *)
(* instrument: in one function it finds the integer operators, the integer *)
(* comparisons and the constants 0 and 1, puts behind each a chain of      *)
(*   mut = alternative;  on = mulation_active(id);  sel = on ? mut : before*)
(* and gives every former use of the value the end of the chain.           *)
(*                                                                         *)
(* A function is the sequence of its instructions in layout order. Each    *)
(* has the number of its basic block; branches go forward. What a function *)
(* computes (Exec) is LLVM's, on integers of Width bits.                   *)
(***************************************************************************)
EXTENDS Integers, Sequences, SequencesExt, FiniteSetsExt, Selection

CONSTANTS
  Sources,   \* functions the pass may meet
  Width,     \* bits of an integer
  fnv(_)     \* the hash loop, over an id's key

ASSUME WidthIsPositive == Width \in Nat \ {0}

VARIABLES
  source,    \* the function as the compiler made it (never changes)
  body,      \* the function now
  bins, cmps, lits, \* sites collected and not yet instrumented
  recs,      \* mutants made so far
  catalog,   \* what is handed to emitCatalog and writeSidecar
  phase      \* "collect", "insert" or "done"

vars == <<source, body, bins, cmps, lits, recs, catalog, phase>>

\* Operands: <<"arg", i>>, <<"int", constant>>, <<"bool", constant>>, <<"null", 0>>,
\* <<"val", name of an instruction>>, <<"block", number>>.
Tags == {"arg", "int", "bool", "null", "val", "block"}
Val(name) == <<"val", name>>

\* A function: its instructions are named by their places, they have the operands
\* their operators need and use what stands before them, and none calls the
\* runtime. Branches go to blocks further on; only they and returns end a block
\* without the next instruction.
Instruction ==
  [name : Nat, op : STRING, args : Seq(Tags \X Int), ty : STRING, blk : Nat, line : Int,
   fnLine : Int, file : STRING]
Arity(op) == IF op = "ret" THEN 1 ELSE IF op \in {"br", "select"} THEN 3 ELSE 2
StartsBlock(f, block, t) ==
  t \in 1..Len(f) /\ f[t].blk = block /\ \A i \in 1..t - 1 : f[i].blk # block
IsFunction(f) ==
  /\ f \in Seq(Instruction) /\ f # <<>>
  /\ \A i \in 1..Len(f) :
       /\ f[i].name = i /\ f[i].op # "mulation_active" /\ Arity(f[i].op) <= Len(f[i].args)
       /\ \A a \in DOMAIN f[i].args :
            f[i].args[a][1] = "val" => f[i].args[a][2] \in 1..i - 1
       /\ f[i].op = "br" =>
            \A a \in 2..3 : /\ f[i].args[a][1] = "block"
                           /\ \E t \in i + 1..Len(f) : StartsBlock(f, f[i].args[a][2], t)
       /\ f[i].op \notin {"ret", "br"} => i < Len(f)

ASSUME SourcesAreFunctions == \A f \in Sources : IsFunction(f)

Init ==
  /\ source \in Sources /\ body = source
  /\ bins = <<>> /\ cmps = <<>> /\ lits = <<>>
  /\ recs = <<>> /\ catalog = <<>> /\ phase = "collect"
-----------------------------------------------------------------------------
(* The alternatives of an operator, and the signs the catalogue shows *)

Alternatives ==
  [Add |-> <<"Sub", "Mul">>, Sub |-> <<"Add", "Mul">>, Mul |-> <<"SDiv", "Add">>,
   SDiv |-> <<"Mul", "Sub">>, UDiv |-> <<"Mul", "Sub">>,
   SRem |-> <<"SDiv", "Mul">>, URem |-> <<"UDiv", "Mul">>,
   And |-> <<"Or">>, Or |-> <<"And">>]
appendBins(op) == IF op \in DOMAIN Alternatives THEN Alternatives[op] ELSE <<>>

appendPreds ==
  [EQ  |-> <<"NE", "SLT", "SGT">>,   NE  |-> <<"EQ", "SLE", "SGE">>,
   SGT |-> <<"SGE", "SLT", "EQ">>,   SGE |-> <<"SGT", "SLE", "EQ">>,
   SLT |-> <<"SLE", "SGT", "EQ">>,   SLE |-> <<"SLT", "SGE", "EQ">>,
   UGT |-> <<"UGE", "ULT", "EQ">>,   UGE |-> <<"UGT", "ULE", "EQ">>,
   ULT |-> <<"ULE", "UGT", "EQ">>,   ULE |-> <<"ULT", "UGE", "EQ">>]

binName(op, ty) ==
  LET sign == [Add |-> "+", Sub |-> "-", Mul |-> "*", SDiv |-> "/", UDiv |-> "/",
               SRem |-> "%", URem |-> "%", And |-> "&", Or |-> "|"]
  IN  IF ty = "bool" /\ op \in {"And", "Or"} THEN sign[op] \o sign[op] ELSE sign[op]
predName ==
  [EQ |-> "==", NE |-> "!=", SGT |-> ">", SGE |-> ">=", SLT |-> "<", SLE |-> "<=",
   UGT |-> ">", UGE |-> ">=", ULT |-> "<", ULE |-> "<="]
binKind(op, ty) == IF op \notin {"And", "Or"} THEN "AOR" ELSE IF ty = "bool" THEN "LCR" ELSE "BOR"

BinOps == DOMAIN Alternatives \union {"Xor", "Shl"}
CmpOps == DOMAIN appendPreds
-----------------------------------------------------------------------------
(* Places and ids *)

\* Test sources and system headers are left alone.
skipPath(file) == file = "test"

\* The line of an instruction, or of its function if it has none; 0 if not usable.
locOf(I) ==
  LET line == IF I.line = -1 THEN I.fnLine ELSE I.line
  IN  IF skipPath(I.file) THEN 0 ELSE line

At(b, name) == CHOOSE i \in DOMAIN b : b[i].name = name
Ins(b, name) == b[At(b, name)]

\* The place of an instruction in its function as it is at this moment.
instOrdinal(b, name) == At(b, name) - 1

\* 0 stands for no mutant.
fnv1a(key) == IF fnv(key) = 0 THEN 1 ELSE fnv(key)

\* Mutant: the ordinal is left out of the key.
keyFor_NoOrdinal(b, I, kind, op, mut) == <<locOf(I), 0, kind, op, mut>>
keyFor(b, I, kind, op, mut) == <<locOf(I), instOrdinal(b, I.name), kind, op, mut>>

makeRec(b, I, kind, op, mut, oi) ==
  [id |-> fnv1a(keyFor(b, I, kind, op, mut)), line |-> locOf(I), kind |-> kind, op |-> op,
   mut |-> mut,
   \* not in the catalogue: the place, and the key behind the id
   at |-> I.name, oi |-> oi, key |-> keyFor(b, I, kind, op, mut)]
-----------------------------------------------------------------------------
(* The chains *)

Splice(b, i, new) == SubSeq(b, 1, i - 1) \o new \o SubSeq(b, i, Len(b))

New(I, name, op, args) == [I EXCEPT !.name = name, !.op = op, !.args = args]

\* Mutant: each select falls back to the original value, not to the link before.
Chain_NotLinked(b, I, alts, made) ==
  LET base(k) == Len(b) + 3 * (k - 1)
      before(k) == I.name
  IN  FlattenSeq([k \in DOMAIN alts |->
        <<New(I, base(k) + 1, alts[k], I.args),
          New(I, base(k) + 2, "mulation_active", <<<<"int", made[k].id>>>>),
          New(I, base(k) + 3, "select",
              <<Val(base(k) + 2), Val(base(k) + 1), Val(before(k))>>)>>])

\* Mutant: all links ask for the first mutant.
Chain_OneGuard(b, I, alts, made) ==
  LET base(k) == Len(b) + 3 * (k - 1)
      before(k) == IF k = 1 THEN I.name ELSE base(k)
  IN  FlattenSeq([k \in DOMAIN alts |->
        <<New(I, base(k) + 1, alts[k], I.args),
          New(I, base(k) + 2, "mulation_active", <<<<"int", made[1].id>>>>),
          New(I, base(k) + 3, "select",
              <<Val(base(k) + 2), Val(base(k) + 1), Val(before(k))>>)>>])

\* The chain behind I: alternative, call and select for each mutant of I.
Chain(b, I, alts, made) ==
  LET base(k) == Len(b) + 3 * (k - 1)
      before(k) == IF k = 1 THEN I.name ELSE base(k)
  IN  FlattenSeq([k \in DOMAIN alts |->
        <<New(I, base(k) + 1, alts[k], I.args),
          New(I, base(k) + 2, "mulation_active", <<<<"int", made[k].id>>>>),
          New(I, base(k) + 3, "select",
              <<Val(base(k) + 2), Val(base(k) + 1), Val(before(k))>>)>>])

\* Every use of a value outside its chain.
replaceUses(b, from, to) ==
  [i \in DOMAIN b |-> [b[i] EXCEPT !.args =
     [a \in DOMAIN b[i].args |-> IF b[i].args[a] = Val(from) THEN Val(to) ELSE b[i].args[a]]]]

\* Mutant: also the uses inside the chain, which then depends on itself.
Chained_OwnUsesToo(b, I, alts, made) ==
  LET chain == Chain(b, I, alts, made)
  IN  replaceUses(Splice(b, At(b, I.name) + 1, chain), I.name, Last(chain).name)
Chained(b, I, alts, made) ==
  LET chain == Chain(b, I, alts, made)
  IN  Splice(replaceUses(b, I.name, Last(chain).name), At(b, I.name) + 1, chain)
-----------------------------------------------------------------------------
(* MulationInstrumentPass::instrument *)

\* The names of the instructions at some places, in layout order.
Names(b, at) == Select([i \in DOMAIN b |-> b[i].name], {b[i].name : i \in at})

\* Constants 0 and 1 that a comparison or a return uses, but for booleans.
Found(I) ==
  IF I.op \notin CmpOps \union {"ret"} THEN <<>>
  ELSE Select([a \in DOMAIN I.args |-> a],
              {a \in DOMAIN I.args : I.args[a] \in {<<"int", 0>>, <<"int", 1>>}})
LiteralsOf(I) == [k \in DOMAIN Found(I) |-> <<I.name, Found(I)[k]>>]
Literals(b) == FlattenSeq([i \in DOMAIN b |-> LiteralsOf(b[i])])

Collect ==
  /\ phase = "collect"
  /\ bins' = Names(body, {i \in DOMAIN body : body[i].op \in BinOps})
  /\ cmps' = Names(body, {i \in DOMAIN body : body[i].op \in CmpOps /\ body[i].ty # "ptr"})
  /\ lits' = Literals(body)
  /\ phase' = "insert"
  /\ UNCHANGED <<source, body, recs, catalog>>

InstrumentBin ==
  /\ phase = "insert" /\ bins # <<>>
  /\ bins' = Tail(bins)
  /\ LET I == Ins(body, Head(bins))
         alts == appendBins(I.op)
         made == [k \in DOMAIN alts |->
                    makeRec(body, I, binKind(I.op, I.ty), binName(I.op, I.ty), binName(alts[k], I.ty), 0)]
     IN  IF alts = <<>> \/ locOf(I) = 0 THEN UNCHANGED <<body, recs>>
         ELSE body' = Chained(body, I, alts, made) /\ recs' = recs \o made
  /\ UNCHANGED <<source, cmps, lits, catalog, phase>>

InstrumentCmp ==
  /\ phase = "insert" /\ bins = <<>> /\ cmps # <<>>
  /\ cmps' = Tail(cmps)
  /\ LET I == Ins(body, Head(cmps))
         alts == appendPreds[I.op]
         made == [k \in DOMAIN alts |->
                    makeRec(body, I, "ROR", predName[I.op], predName[alts[k]], 0)]
     IN  IF locOf(I) = 0 THEN UNCHANGED <<body, recs>>
         ELSE body' = Chained(body, I, alts, made) /\ recs' = recs \o made
  /\ UNCHANGED <<source, bins, lits, catalog, phase>>

\* Mutant: the new constant is used whether the mutant is active or not.
Selected_Always(b, I, oi, id, C, MutC) ==
  LET i == At(b, I.name)
  IN  Splice([b EXCEPT ![i].args[oi] = Val(Len(b) + 2)], i,
        <<New(I, Len(b) + 1, "mulation_active", <<<<"int", id>>>>),
          New(I, Len(b) + 2, "select", <<Val(Len(b) + 1), MutC, MutC>>)>>)
\* The call and the select stand before the instruction that uses the constant.
Selected(b, I, oi, id, C, MutC) ==
  LET i == At(b, I.name)
  IN  Splice([b EXCEPT ![i].args[oi] = Val(Len(b) + 2)], i,
        <<New(I, Len(b) + 1, "mulation_active", <<<<"int", id>>>>),
          New(I, Len(b) + 2, "select", <<Val(Len(b) + 1), MutC, C>>)>>)

InstrumentLit ==
  /\ phase = "insert" /\ bins = <<>> /\ cmps = <<>> /\ lits # <<>>
  /\ lits' = Tail(lits)
  /\ LET I == Ins(body, Head(lits)[1])
         oi == Head(lits)[2]
         C == I.args[oi]
         isZero == C = <<"int", 0>>
         made == makeRec(body, I, "LVR", IF isZero THEN "0" ELSE "1", IF isZero THEN "1" ELSE "0", oi)
     IN  IF locOf(I) = 0 THEN UNCHANGED <<body, recs>>
         ELSE /\ body' = Selected(body, I, oi, made.id, C, <<"int", IF isZero THEN 1 ELSE 0>>)
              /\ recs' = Append(recs, made)
  /\ UNCHANGED <<source, bins, cmps, catalog, phase>>

\* Mutant: the last record is not handed on.
Emitted_AllButLast == SubSeq(recs, 1, Len(recs) - 1)
Emitted == recs

Finish ==
  /\ phase = "insert" /\ bins = <<>> /\ cmps = <<>> /\ lits = <<>>
  /\ catalog' = Emitted
  /\ phase' = "done"
  /\ UNCHANGED <<source, body, bins, cmps, lits, recs>>

Next == Collect \/ InstrumentBin \/ InstrumentCmp \/ InstrumentLit \/ Finish
Spec == Init /\ [][Next]_vars
-----------------------------------------------------------------------------
(* What a function computes *)

Mod == 2 ^ Width
Signed(v) == IF 2 * v >= Mod THEN v - Mod ELSE v
Abs(n) == IF n < 0 THEN -n ELSE n
\* Division truncates towards zero.
Quotient(a, b) ==
  LET q == Abs(Signed(a)) \div Abs(Signed(b))
  IN  IF (Signed(a) < 0) = (Signed(b) < 0) THEN q ELSE -q
OnBits(a, b, f) ==
  MapThenSumSet(LAMBDA i : 2 ^ i * f[(a \div 2 ^ i) % 2, (b \div 2 ^ i) % 2], 0..Width - 1)

\* Division by zero, and the one signed quotient that does not fit, stop the process.
Traps(op, a, b) ==
  \/ op \in {"SDiv", "UDiv", "SRem", "URem"} /\ b = 0
  \/ op \in {"SDiv", "SRem"} /\ 2 * a = Mod /\ Signed(b) = -1

Truth(p) == IF p THEN 1 ELSE 0
Apply(op, a, b) ==
  CASE op = "Add" -> (a + b) % Mod    [] op = "Sub" -> (a - b) % Mod
    [] op = "Mul" -> (a * b) % Mod
    [] op = "UDiv" -> a \div b        [] op = "URem" -> a % b
    [] op = "SDiv" -> Quotient(a, b) % Mod
    [] op = "SRem" -> (Signed(a) - Signed(b) * Quotient(a, b)) % Mod
    [] op = "And" -> OnBits(a, b, [x, y \in 0..1 |-> x * y])
    [] op = "Or"  -> OnBits(a, b, [x, y \in 0..1 |-> x + y - x * y])
    [] op = "Xor" -> OnBits(a, b, [x, y \in 0..1 |-> (x + y) % 2])
    [] op = "EQ"  -> Truth(a = b)     [] op = "NE"  -> Truth(a # b)
    [] op = "UGT" -> Truth(a > b)     [] op = "UGE" -> Truth(a >= b)
    [] op = "ULT" -> Truth(a < b)     [] op = "ULE" -> Truth(a <= b)
    [] op = "SGT" -> Truth(Signed(a) > Signed(b))  [] op = "SGE" -> Truth(Signed(a) >= Signed(b))
    [] op = "SLT" -> Truth(Signed(a) < Signed(b))  [] op = "SLE" -> Truth(Signed(a) <= Signed(b))

\* A run: pc = 0 when the function has ended; `seen' are the instructions executed,
\* but for branches, `hits' the ids asked for.
Start(b) ==
  [pc |-> 1, regs |-> [i \in DOMAIN b |-> 0], trap |-> FALSE, ret |-> 0, hits |-> {}, seen |-> {}]
Value(o, args, m) ==
  CASE o[1] = "val" -> m.regs[o[2]] [] o[1] = "arg" -> args[o[2]] [] OTHER -> o[2]
Sets(m, name, value) ==
  [m EXCEPT !.pc = @ + 1, !.regs[name] = value, !.seen = @ \union {name}]

\* One instruction, with mutant `on' active (0: none).
Do(b, args, on, m) ==
  IF m.pc = 0 THEN m ELSE
  LET I == b[m.pc]
      v(k) == Value(I.args[k], args, m)
  IN CASE I.op = "ret" -> [m EXCEPT !.pc = 0, !.ret = v(1), !.seen = @ \union {I.name}]
       [] I.op = "br"  -> [m EXCEPT !.pc = LET to == IF v(1) = 1 THEN v(2) ELSE v(3)
                                           IN  Min({i \in DOMAIN b : b[i].blk = to})]
       [] I.op = "select" -> Sets(m, I.name, IF v(1) = 1 THEN v(2) ELSE v(3))
       [] I.op = "mulation_active" ->
            [Sets(m, I.name, Truth(v(1) = on)) EXCEPT !.hits = @ \union {v(1)}]
       [] OTHER -> IF Traps(I.op, v(1), v(2))
                   THEN [m EXCEPT !.pc = 0, !.trap = TRUE]
                   ELSE Sets(m, I.name, Apply(I.op, v(1), v(2)))

\* No instruction is executed twice.
Exec(b, args, on) ==
  LET run[k \in 0..Len(b)] == IF k = 0 THEN Start(b) ELSE Do(b, args, on, run[k - 1])
  IN  run[Len(b)]

Inputs == {<<x, y>> : x, y \in 0..Mod - 1}

\* Both end alike, if the first does not trap.
SameUnlessTrap(m, n) == ~m.trap => ~n.trap /\ m.ret = n.ret

\* The source with the change that a catalogue record names.
Mutated(r) ==
  [i \in DOMAIN source |->
    LET I == source[i]
        alts == ToSet(appendBins(I.op)) \union (IF I.op \in CmpOps THEN ToSet(appendPreds[I.op]) ELSE {})
    IN  IF I.name # r.at THEN I
        ELSE IF r.kind = "LVR" THEN [I EXCEPT !.args[r.oi] = <<"int", IF r.mut = "0" THEN 0 ELSE 1>>]
        ELSE [I EXCEPT !.op = CHOOSE q \in alts :
                r.mut = IF I.op \in CmpOps THEN predName[q] ELSE binName(q, I.ty)]]
-----------------------------------------------------------------------------
(* Properties *)

\* Names stay unique, operands refer to what comes before or to inputs,
\* and sites wait only while the pass inserts.
TypeOK ==
  /\ source \in Sources
  /\ phase \in {"collect", "insert", "done"}
  /\ {body[i].name : i \in DOMAIN body} = 1..Len(body)
  /\ \A i \in DOMAIN body : \A a \in DOMAIN body[i].args :
       body[i].args[a][1] = "val" => At(body, body[i].args[a][2]) < i
  /\ phase # "insert" => bins = <<>> /\ cmps = <<>> /\ lits = <<>>
  /\ catalog # <<>> => phase = "done"

\* With no mutant active the instrumented function returns what the function
\* returned before the pass, at every point of the pass and whatever the
\* inputs, if it does not trap (instrument, the chains and replaceUsesWithIf).
SameWhenOff ==
  \A in \in Inputs : SameUnlessTrap(Exec(body, in, 0), Exec(source, in, 0))

\* A mutant whose id no other has changes the function in the one way its
\* catalogue record says, at its one place, and in no other, although chains of
\* several operators use each other's ends (instrument; idFor; makeRec).
OneChange ==
  \A i \in DOMAIN recs :
    (\A j \in DOMAIN recs \ {i} : recs[j].id # recs[i].id) =>
       \A in \in Inputs :
         SameUnlessTrap(Exec(body, in, recs[i].id), Exec(Mutated(recs[i]), in, 0))

\* A run that does not trap asks for exactly the mutants whose place the
\* function executes: coverage neither misses nor invents a mutant.
AsksWhereItRuns ==
  \A in \in Inputs :
    LET m == Exec(body, in, 0)
    IN  ~m.trap => m.hits = {recs[i].id : i \in {j \in DOMAIN recs :
                                             recs[j].at \in Exec(source, in, 0).seen}}

\* No two mutants of a function have the same key, although the ordinals are
\* those of a function that grows while they are taken (idFor, instOrdinal).
KeysDistinct == \A i, j \in DOMAIN recs : i # j => recs[i].key # recs[j].key

\* The catalogue lists the ids the function asks for, no more and no fewer.
CatalogIsTheCode ==
  phase = "done" =>
    {catalog[i].id : i \in DOMAIN catalog} =
    {body[i].args[1][2] : i \in {j \in DOMAIN body : body[j].op = "mulation_active"}}

\* What include/mulation/mulation.h:10-11 says: without a mutant the program is
\* equivalent to the uninstrumented one. Alternatives are computed even if they
\* are not chosen, so a division among them may stop a program that had none.
BaselineEquivalent ==
  \A in \in Inputs : Exec(body, in, 0).trap => Exec(source, in, 0).trap
=============================================================================
