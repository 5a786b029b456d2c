----------------------------- MODULE MCFatDir -----------------------------
EXTENDS FatDir, TLC

P(comps)  == [comps |-> comps, slash |-> FALSE]
D(comps)  == [comps |-> comps, slash |-> TRUE]
a  == <<"a">>
ab == <<"a", "b">>
b  == <<"b">>
at == <<"a", ".", "t">>
aa == <<"a", "a", "a">>
abt == <<"a", "b", ".", "t">>

\* Two names, up to three levels.
TreePaths ==
  {P(<<a>>), P(<<b>>), P(<<a, a>>), P(<<a, b>>), P(<<b, a>>), P(<<a, b, a>>)}

\* Three levels, names that start alike, and a path that ends in a slash.
ListPaths ==
  {P(<<a>>), P(<<ab>>), D(<<a>>), P(<<a, a>>), P(<<a, b>>), P(<<a, b, a>>)}

\* Names that start alike, with an extension, and longer than the base.
NamePaths ==
  {P(<<a>>), P(<<ab>>), P(<<at>>), P(<<b>>), P(<<aa>>), P(<<abt>>), D(<<a>>), P(<<a, b>>)}

\* When paths lead through directories only, a cluster is read as a directory
\* only while it is one (f_mkdir clears it), and of a deleted entry only the
\* extension; no call reads cwd, and ret serves properties of single calls.
Tree ==
  <<used, it,
    [d \in Dirs |-> [s \in SlotNrs |->
       IF content[d][s].state = "live" THEN content[d][s]
       ELSE [state |-> content[d][s].state, ext |-> content[d][s].ext]]]>>

EndsInB   == {<<"*", "b">>}
AnyName   == {<<"*">>}
OneLabel  == {<<"x">>}
TreeCalls == {"f_open", "f_mkdir", "f_unlink", "f_rename"}
ListCalls == TreeCalls \cup {"f_opendir", "f_setlabel", "f_chdir"}

\* match_pattern against what a pattern says, for every pattern of up to four
\* symbols and every name that is shorter than the longest.
ASSUME PatternsMatched ==
  \A i \in 1 .. 4, j \in 0 .. BaseLen + ExtLen :
    \A pat \in [1 .. i -> {"a", "b", "*", "?"}], name \in [1 .. j -> {"a", "b"}] :
      match_pattern(name, pat) = Like(name, pat)
=============================================================================
