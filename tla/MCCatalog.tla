------------------------------ MODULE MCCatalog -----------------------------
(* Two units that share a mutant (of an inline function), two mutants of one *)
(* line, and a unit that may lose all its mutants; two binaries.             *)
EXTENDS Catalog

CONSTANTS u1, u2, b1, b2

Main1   == [id |-> 7, file |-> 2, line |-> 5]
Shared  == [id |-> 4, file |-> 1, line |-> 1]
Same1   == [id |-> 9, file |-> 3, line |-> 2]
Same2   == [id |-> 3, file |-> 3, line |-> 2]

MCVersions == [u \in Units |->
  IF u = u1 THEN {<<Main1, Shared>>, <<>>} ELSE {<<Same1, Same2, Shared>>, <<Same2, Same1>>}]
\* Names with each character that is read back as it was, the last two alike but for
\* an escape.
MCSpelling == <<<<"a", "quote", "n">>, <<"backslash", "n", "tab">>, <<"newline", "tab">>>>
MCModuleName == [u \in Units |-> IF u = u1 THEN 1 ELSE 2]

\* The hashes of mutants and of module names do not collide.
ASSUME HashesDiffer == IdsTellMutants /\ IsInjective(ModuleName)
=============================================================================
