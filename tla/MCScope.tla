------------------------------ MODULE MCScope -------------------------------
EXTENDS Scope

W(form, t) == [form |-> form, text |-> t, num |-> 0, option |-> ""]
N(form, t, num) == [W(form, t) EXCEPT !.num = num]
E(option, t, num) == [form |-> "assign", text |-> t, num |-> num, option |-> option]
O(means, words) == [means |-> means, words |-> words, bad |-> FALSE]
Bad(means, words) == [O(means, words) EXCEPT !.bad = TRUE]

Options ==
  {O("min_score", <<W("value", "min_score"), N("word", "80", 80)>>),
   O("min_score", <<E("min_score", "60", 60)>>),
   O("timeout_ms", <<W("value", "timeout_ms"), N("word", "9000", 9000)>>),
   O("jobs", <<W("value", "jobs"), N("word", "4", 4)>>),
   Bad("jobs", <<E("jobs", "0", 0)>>),
   Bad("jobs", <<W("value", "jobs"), W("word", "many")>>),
   O("no_coverage", <<[W("flag", "--no-coverage") EXCEPT !.option = "no_coverage"]>>),
   O("binary", <<W("value", "binary"), W("path", "./lib")>>),
   O("binary", <<W("value", "binary"), W("word", "more")>>),
   O("catalog_dir", <<W("value", "catalog_dir"), W("path", "build/mulation")>>),
   O("json_out", <<W("value", "json_out"), W("unknown", "-out")>>),
   O("base_default", <<W("git-diff", "--git-diff")>>),
   O("git_diff", <<W("git-diff", "--git-diff"), W("word", "main")>>),
   O("git_diff", <<W("git-diff", "--git-diff"), W("revision", "origin/main")>>),
   O("git_diff", <<W("git-diff", "--git-diff"), W("path", "feature/x")>>),
   O("git_diff", <<E("git_diff", "feature/x", 0)>>),
   O("git_diff", <<E("git_diff", "gone", 0)>>),
   O("git_diff", <<E("git_diff", "WORKING", 0)>>),
   Bad("help", <<W("help", "-h")>>),
   Bad("unknown", <<W("unknown", "--fast")>>)}

Commands == {<<W("path", "./tests"), W("unknown", "--gtest_filter=x")>>, <<W("word", "ctest")>>}

C(path, prefix, hunks) == [file |-> path, prefix |-> prefix, name |-> path, hunks |-> hunks]
H(start, count) == [start |-> start, count |-> count]
A == <<"a">>
LibA == <<"lib", "a">>
B == <<"b">>
\* A name with a space, and what git writes of it.
Spaced == <<"a b">>
Tabbed(hunks) == [C(Spaced, "b/", hunks) EXCEPT !.name = <<"a b\t">>]

Edited == <<C(A, "b/", <<H(2, 1)>>)>>
Known == [r \in {"HEAD", "main", "origin/main", "feature/x", ""} |->
            IF r = "HEAD" THEN Edited ELSE IF r = "main" THEN <<C(B, "b/", <<H(1, 2)>>)>>
            ELSE IF r = "" THEN <<>> ELSE <<C(LibA, "b/", <<H(1, 1)>>)>>]

Parses ==
  {[options |-> opts, dashes |-> d, cmd |-> c, changes |-> Known] :
     opts \in {<<>>} \union {<<x>> : x \in Options} \union {<<x, y>> : x, y \in Options},
     d \in BOOLEAN, c \in Commands}
  \union {[options |-> <<x>>, dashes |-> d, cmd |-> <<>>, changes |-> Known] :
            x \in Options \union {Bad("jobs", <<W("value", "jobs")>>)}, d \in {FALSE}}

\* Changes of two files: lines rewritten, added, removed; a file may be deleted.
Hunks == {<<H(1, 1)>>, <<H(2, 2)>>, <<H(1, 0)>>, <<H(1, 0), H(3, 1)>>, <<H(1, 1), H(3, 1)>>}
Changes(prefixes) ==
  {<<C(f, p, h)>> : f \in {A, LibA, B}, p \in prefixes, h \in Hunks}
    \union {<<C(f, p, h), C(g, q, k)>> :
              <<f, g>> \in {<<A, B>>, <<A, LibA>>, <<B, LibA>>}, p, q \in prefixes, h, k \in Hunks}
    \union {<<Tabbed(h), C(f, p, k)>> : f \in {A, B}, p \in prefixes, h, k \in Hunks}

Diffs(prefixes) ==
  {[options |-> <<O("base_default", <<W("git-diff", "--git-diff")>>)>>, dashes |-> TRUE,
    cmd |-> <<W("path", "./tests")>>, changes |-> [r \in {"HEAD"} |-> change]] :
     change \in Changes(prefixes)}

MCCases == Parses \union Diffs({"b/"}) \union
           {c \in Diffs({"b/", "/dev/null"}) : \A f \in ToSet(c.changes["HEAD"]) :
              (f.prefix = "/dev/null") = (f.hunks = <<H(1, 0)>> /\ f.file # Spaced)}

MCRoot == <<"home", "repo">>
M(path, line) == [file |-> MCRoot \o path, line |-> line]
MCListed == <<M(A, 1), M(A, 3), M(LibA, 1), M(LibA, 2), M(LibA, 3), M(Spaced, 1), M(B, 2)>>
=============================================================================
