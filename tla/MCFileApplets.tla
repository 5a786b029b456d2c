--------------------------- MODULE MCFileApplets ---------------------------
EXTENDS FileApplets, TLC

a == <<"a">>
b == <<"b">>
f == <<"f">>
P(comps) == [comps |-> comps, slash |-> FALSE]
D(comps) == [comps |-> comps, slash |-> TRUE]
C(applet, src, dst, opts) == [applet |-> applet, src |-> src, dst |-> dst, opts |-> opts]

ByteOrder == "." :> 0 @@ "a" :> 1 @@ "b" :> 2 @@ "f" :> 3
TwoNames  == {a, b}

\* a and b are directories, f is a file.
SafeCommands ==
  {C("mk", p, p, {}) : p \in {D(<<a>>), P(<<f>>), P(<<a, f>>), D(<<a, a>>), D(<<a, b>>)}}
  \cup {C("rm", p, p, o) : p \in {P(<<a>>), P(<<f>>), D(<<a>>)}, o \in {{}, {"r"}}}
  \cup {C("cp", P(<<f>>), P(<<a, f>>), {}), C("cp", P(<<a>>), P(<<b>>), {"r"}),
        C("cp", P(<<a, f>>), P(<<f>>), {}), C("cp", P(<<a>>), P(<<a, b>>), {"r"})}
  \cup {C("ls", D(<<a>>), D(<<a>>), o) : o \in {{}, {"a"}, {"S"}, {"a", "r"}, {"S", "r"}}}
WithParents == SafeCommands \cup {C("mk", P(<<b, f>>), P(<<b, f>>), {"p"})}

\* What the commands can still read: of a deleted entry only the extension, and
\* nothing of a free cluster (f_mkdir clears it, mk and cp fill it).
Tree ==
  <<used, cmd, stack, listing, before,
    [c \in used |-> [s \in SlotNrs |->
       IF content[c][s].state = "live" THEN content[c][s]
       ELSE [state |-> content[c][s].state, ext |-> content[c][s].ext]]],
    [c \in used |-> data[c]]>>
=============================================================================
