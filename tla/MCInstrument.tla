---------------------------- MODULE MCInstrument ----------------------------
EXTENDS Instrument

Op(name, op, args) ==
  [name |-> name, op |-> op, args |-> args, ty |-> "int", blk |-> 1, line |-> 10 + name,
   fnLine |-> 10, file |-> "lib"]
X == <<"arg", 1>>
Y == <<"arg", 2>>
One == <<"int", 1>>
Zero == <<"int", 0>>

\* v1 = x op1 a;  v2 = v1 op2 y;  c = v2 pred b;  if (c) return v1; else return lit;
Branching(op1, a, op2, pred, b, lit) ==
  <<Op(1, op1, <<X, a>>), Op(2, op2, <<Val(1), Y>>), Op(3, pred, <<Val(2), b>>),
    Op(4, "br", <<Val(3), <<"block", 2>>, <<"block", 3>>>>),
    [Op(5, "ret", <<Val(1)>>) EXCEPT !.blk = 2],
    [Op(6, "ret", <<lit>>) EXCEPT !.blk = 3]>>
\* return (x p a) & (x q a) as a bool, both comparisons on one line.
Logical(p, op, q, a) ==
  <<[Op(1, p, <<X, a>>) EXCEPT !.line = 10], [Op(2, q, <<X, a>>) EXCEPT !.line = 10],
    [Op(3, op, <<Val(1), Val(2)>>) EXCEPT !.ty = "bool"], [Op(4, "ret", <<Val(3)>>) EXCEPT !.ty = "bool"]>>
\* The same sum twice on one line, without a location of its own or in another file.
Twice(op, line, file) ==
  <<[Op(1, op, <<X, Y>>) EXCEPT !.line = line, !.file = file],
    [Op(2, op, <<Val(1), Val(1)>>) EXCEPT !.line = line, !.file = file],
    [Op(3, "EQ", <<Val(2), <<"null", 0>>>>) EXCEPT !.ty = "ptr"],
    Op(4, "ret", <<Val(2)>>)>>
NoMutants == <<Op(1, "Xor", <<X, Y>>), Op(2, "ret", <<Val(1)>>)>>
ReturnsBool == <<[Op(1, "ret", <<<<"bool", 1>>>>) EXCEPT !.ty = "bool"]>>

MCSources ==
  {Branching(op, Y, "Add", p, Zero, One) : op \in {"Add", "SRem"}, p \in CmpOps}
    \union {Branching("Sub", One, op, "SLT", Y, Zero) : op \in DOMAIN Alternatives}
    \union {Branching(op, Y, "Xor", "UGE", One, Zero) : op \in DOMAIN Alternatives}
    \union {Logical(p, op, q, a) : p \in {"SGT", "ULE"}, op \in {"And", "Or"},
                                   q \in {"NE", "SGT"}, a \in {Y, One}}
    \union {Twice(op, line, file) : op \in {"Add", "Mul"}, line \in {-1, 0, 7},
                                    file \in {"lib", "test"}}
    \union {NoMutants, ReturnsBool}

\* A hash that lets some keys collide, and is 0 for some.
SignCode ==
  [k \in {"AOR", "BOR", "LCR", "ROR", "LVR"} |-> CHOOSE n \in 1..5 : <<"AOR", "BOR", "LCR", "ROR", "LVR">>[n] = k]
Shown == <<"+", "-", "*", "/", "%", "&", "|", "&&", "||", "==", "!=", ">", ">=", "<", "<=", "0", "1">>
MCfnv(key) ==
  (5 + key[1] * 31 + key[2] * 37 + SignCode[key[3]] * 101
         + 7 * (CHOOSE n \in DOMAIN Shown : Shown[n] = key[4])
         + 17 * (CHOOSE n \in DOMAIN Shown : Shown[n] = key[5])) % 211
=============================================================================
