---------------------------- MODULE FileApplets ----------------------------
(***************************************************************************)
(* The file applets of the shell, src/applets: rm, cp, mk and ls, one file *)
(* system call per step.  The recursion of remove_path, copy_path and      *)
(* create_path is a stack of frames.  A command has one path: run() calls  *)
(* the same function once for each path it was given.                      *)
(***************************************************************************)
EXTENDS FatDir

CONSTANTS
  Commands,        \* [applet, src, dst, opts] the user may type
  DirNames,        \* names of directories
  FirstFile,       \* the name of the file the volume comes with
  MaxDepth,        \* components that fit in MAX_PATH bytes
  MAX_ENTRIES,     \* entries ls can hold
  Rank             \* the order of the bytes

ASSUME FileAppletsAssumption ==
  /\ MaxDepth \in Nat \ {0} /\ MAX_ENTRIES \in Nat
  /\ ~WellFormed /\ {"f_open", "f_mkdir", "f_unlink"} \subseteq Calls

VARIABLES
  cmd,             \* the command running, or the last one
  stack,           \* its frames; the shell is waiting when there are none
  data,            \* per cluster: what a file there contains
  listing,         \* entries of list_dir
  before           \* the tree as it was when the command began (auxiliary)

disk  == <<vars, data>>
avars == <<vars, cmd, stack, data, listing, before>>

Path(comps)   == [comps |-> comps, slash |-> FALSE]
Plain(p)      == Path(p.comps)

\* Mutant: the child path is built as ls builds it, from the root.
JoinRoot(p, name) == Path(<<name>>)

\* path + "/" + name; empty components do not count.
Join(p, name) == Path(Append(p.comps, name))

Frame(step, src, dst) ==
  [step |-> step, src |-> src, dst |-> dst, dir |-> 0, next |-> 1]
Top        == stack[Len(stack)]
Doing(applet, step) == stack # <<>> /\ cmd.applet = applet /\ Top.step = step
Goto(f)    == stack' = [stack EXCEPT ![Len(stack)] = f]
Call(f, g) == stack' = Append([stack EXCEPT ![Len(stack)] = f], g)
Return     == stack' = SubSeq(stack, 1, Len(stack) - 1)
Option(o)  == o \in cmd.opts

\* f_stat: it finds something, and says that it is a directory.
Stats(p)   == Resolves(p) /\ (LastName(p) = <<>> \/ SlotOf(p) # 0)
StatDir(p) == Stats(p) /\ (LastName(p) = <<>> \/ EntryOf(p).attr = "dir")

\* Calls whose errors the applet reports or ignores, and then goes on.
TryMkdir(p) ==
  f_mkdir(p) \/ create_full("f_mkdir", p)
    \/ (~(Creatable(p) /\ MkdirName(p)) /\ UNCHANGED vars)
TryOpenNew(p) ==
  f_open_new(p) \/ create_full("f_open", p) \/ (~Creatable(p) /\ UNCHANGED vars)
TryUnlink(p) ==
  f_unlink(p) \/ (~(Exists(p) /\ LastName(p) # <<>>) /\ UNCHANGED vars)

\* The file TryOpenNew makes, if it makes one, contains d.
Fill(p, d) ==
  data' = IF Creatable(p) /\ Usable(Parent(p)) # {}
          THEN [data EXCEPT ![FirstFree] = d] ELSE data

-----------------------------------------------------------------------------
\* What is to be seen of the tree: for every path nothing, a directory, or
\* the contents of a file.
AllPaths ==
  {Path(Append(s, n)) : s \in UNION {[1 .. i -> DirNames] : i \in 0 .. MaxDepth - 1},
                        n \in DirNames \cup {FirstFile}}
Kind(q) ==
  LET n == Len(q.comps)
      at[i \in 0 .. n] ==       \* what the first i components lead to
        IF i = 0 THEN [attr |-> "dir", start |-> ROOT]
        ELSE LET d == at[i - 1]
                 s == IF d.attr = "dir" THEN Find(d.start, q.comps[i]) ELSE 0
             IN  IF s = 0 THEN [attr |-> "none"] ELSE content[d.start][s]
      e == at[n]
  IN  IF e.attr = "file" THEN data[e.start] ELSE e.attr
View == [q \in AllPaths |-> Kind(q)]

\* The volume holds one file with text.
AppInit ==
  /\ used = {ROOT, ROOT + 1} /\ cwd = <<>> /\ it = NoDir /\ ret = [f |-> "f_mount"]
  /\ content = [[c \in Clusters |-> Empty] EXCEPT ![ROOT][1] =
       [Blank EXCEPT !.state = "live", !.base = FirstFile, !.start = ROOT + 1]]
  /\ data = [[c \in Clusters |-> "empty"] EXCEPT ![ROOT + 1] = "text"]
  /\ cmd = [applet |-> "none"] /\ stack = <<>> /\ listing = <<>> /\ before = View

\* run of an applet, parse_args included.
Run(c, now) ==
  /\ stack = <<>> /\ cmd' = c
  /\ stack' = <<Frame("start", c.src, c.dst)>>
  /\ listing' = <<>> /\ before' = now
  /\ UNCHANGED disk

-----------------------------------------------------------------------------
\* remove_path
rm_refuse ==
  /\ Doing("rm", "start")
  /\ ~Stats(Top.src) \/ (StatDir(Top.src) /\ ~Option("r"))
  /\ Return /\ UNCHANGED disk

rm_opendir ==
  /\ Doing("rm", "start") /\ StatDir(Top.src) /\ Option("r")
  /\ Goto([Top EXCEPT !.step = "read", !.dir = Parent(Top.src)])
  /\ UNCHANGED disk

rm_unlink ==
  /\ \/ Doing("rm", "unlink")
     \/ Doing("rm", "start") /\ Stats(Top.src) /\ ~StatDir(Top.src)
  /\ TryUnlink(Top.src)
  /\ Return /\ UNCHANGED data

-----------------------------------------------------------------------------
\* copy_path
cp_refuse ==
  /\ Doing("cp", "start")
  /\ ~Stats(Top.src) \/ (StatDir(Top.src) /\ ~Option("r"))
  /\ Return /\ UNCHANGED disk

\* An error of f_mkdir: "May already exist -- that's fine".
cp_mkdir ==
  /\ Doing("cp", "start") /\ StatDir(Top.src) /\ Option("r")
  /\ TryMkdir(Top.dst)
  /\ Goto([Top EXCEPT !.step = "opendir"]) /\ UNCHANGED data

cp_opendir ==
  /\ Doing("cp", "opendir")
  /\ IF Resolves(Top.src)
     THEN Goto([Top EXCEPT !.step = "read", !.dir = Parent(Top.src)])
     ELSE Return
  /\ UNCHANGED disk

\* The source is opened, the destination created, and the contents copied; a
\* destination that is there already is left alone.
cp_file ==
  /\ Doing("cp", "start") /\ Stats(Top.src) /\ ~StatDir(Top.src)
  /\ TryOpenNew(Top.dst) /\ Fill(Top.dst, data[EntryOf(Top.src).start])
  /\ Return

-----------------------------------------------------------------------------
\* The readdir loop of remove_path and copy_path: "." and ".." and paths that
\* do not fit are skipped, everything else is a recursive call.
TooLong(f) == Len(f.src.comps) + 1 > MaxDepth \/ (cmd.applet = "cp" /\ Len(f.dst.comps) + 1 > MaxDepth)

\* Mutant: the loop looks at the entry it has just handled again.
read_again ==
  /\ Doing("rm", "read") \/ Doing("cp", "read")
  /\ LET s    == NextSlot(Top.dir, Top.next)
         name == Text(content[Top.dir][s])
     IN  /\ ~Ends(Top.dir, s)
         /\ IF name \in {Dot, DotDot} \/ TooLong(Top) THEN Goto([Top EXCEPT !.next = s + 1])
            ELSE Call(Top, Frame("start", Join(Top.src, name), Join(Top.dst, name)))
  /\ UNCHANGED disk

read_child ==
  /\ Doing("rm", "read") \/ Doing("cp", "read")
  /\ LET s    == NextSlot(Top.dir, Top.next)
         name == Text(content[Top.dir][s])
         f    == [Top EXCEPT !.next = s + 1]
     IN  /\ ~Ends(Top.dir, s)
         /\ IF name \in {Dot, DotDot} \/ TooLong(Top) THEN Goto(f)
            ELSE Call(f, Frame("start", Join(Top.src, name), Join(Top.dst, name)))
  /\ UNCHANGED disk

read_end ==
  /\ Doing("rm", "read") \/ Doing("cp", "read")
  /\ Ends(Top.dir, NextSlot(Top.dir, Top.next))
  /\ IF cmd.applet = "rm" THEN Goto([Top EXCEPT !.step = "unlink"]) ELSE Return
  /\ UNCHANGED disk

-----------------------------------------------------------------------------
\* create_path: a path that ends in "/" is a directory.
NeedsParents(p) == Option("p") /\ ~Resolves(Plain(p)) /\ Len(p.comps) > 1

Make(p) ==
  IF p.slash THEN (IF Stats(Plain(p)) THEN UNCHANGED vars ELSE TryMkdir(Plain(p))) /\ UNCHANGED data
  ELSE TryOpenNew(p) /\ Fill(p, "empty")

mk_make ==
  /\ Doing("mk", "start") /\ ~NeedsParents(Top.src)
  /\ Make(Top.src) /\ Return

\* With -p, a missing parent is made first: parent_path has no "/" at its end.
mk_parents ==
  /\ Doing("mk", "start") /\ NeedsParents(Top.src)
  /\ Call([Top EXCEPT !.step = "again"],
          Frame("start", Path(SubSeq(Top.src.comps, 1, Len(Top.src.comps) - 1)), Top.dst))
  /\ UNCHANGED disk

mk_again ==
  /\ Doing("mk", "again")
  /\ IF Top.src.slash THEN TryMkdir(Plain(Top.src)) /\ UNCHANGED data
     ELSE TryOpenNew(Top.src) /\ Fill(Top.src, "empty")
  /\ Return

-----------------------------------------------------------------------------
\* ls: f_opendir, and list_dir.
ls_opendir ==
  /\ Doing("ls", "start")
  /\ IF Resolves(Top.src)
     THEN Goto([Top EXCEPT !.step = "list", !.dir = Parent(Top.src)])
     ELSE Return
  /\ UNCHANGED <<disk, listing>>

\* What list_dir notes of a name: it asks f_stat for "/" and the name.
LsEntry(name) ==
  LET q == Path(<<name>>) IN
    [name   |-> name,
     is_dir |-> StatDir(q),
     size   |-> IF Stats(q) /\ ~StatDir(q) /\ data[EntryOf(q).start] = "text" THEN 1 ELSE 0]

ls_read ==
  /\ Doing("ls", "list")
  /\ LET s    == NextSlot(Top.dir, Top.next)
         name == Text(content[Top.dir][s])
         on   == [Top EXCEPT !.next = s + 1]
     IN  IF Ends(Top.dir, s) \/ (Len(listing) >= MAX_ENTRIES
                                   /\ (Option("a") \/ name \notin {Dot, DotDot}))
         THEN Goto([Top EXCEPT !.step = "sort"]) /\ UNCHANGED listing
         ELSE /\ Goto(on)
              /\ listing' = IF ~Option("a") /\ name \in {Dot, DotDot} THEN listing
                            ELSE Append(listing, LsEntry(name))
  /\ UNCHANGED disk

\* The order of two names: their first difference, or their lengths.
Differ(m, n) == {i \in 1 .. Len(m) : i <= Len(n) /\ m[i] # n[i]}
Less(m, n) ==
  IF Differ(m, n) = {} THEN Len(m) < Len(n)
  ELSE LET i == CHOOSE i \in Differ(m, n) : \A j \in Differ(m, n) : i <= j
       IN  Rank[m[i]] < Rank[n[i]]

\* Whether the entries x, and y behind it, change places.
Swap(x, y) ==
  IF Option("S") THEN (IF Option("r") THEN x.size < y.size ELSE x.size > y.size)
  ELSE IF Option("r") THEN Less(y.name, x.name) ELSE Less(x.name, y.name)

\* Mutant: the inner loop starts at the front.
SortedFront(s) ==
  LET n == Len(s)
      pass[k \in 0 .. n * n] ==
        IF k = 0 THEN s
        ELSE LET t == pass[k - 1]
                 i == (k - 1) \div n + 1
                 j == ((k - 1) % n) + 1
             IN  IF Swap(t[i], t[j]) THEN [t EXCEPT ![i] = t[j], ![j] = t[i]] ELSE t
  IN  pass[n * n]

\* The two loops of the sort: pass k compares places i and j.
Sorted(s) ==
  LET n == Len(s)
      pass[k \in 0 .. n * n] ==
        IF k = 0 THEN s
        ELSE LET t == pass[k - 1]
                 i == (k - 1) \div n + 1
                 j == ((k - 1) % n) + 1
             IN  IF j > i /\ Swap(t[i], t[j]) THEN [t EXCEPT ![i] = t[j], ![j] = t[i]] ELSE t
  IN  pass[n * n]

ls_show ==
  /\ Doing("ls", "sort")
  /\ listing' = Sorted(listing)
  /\ Return /\ UNCHANGED disk

-----------------------------------------------------------------------------
Step ==
  \/ /\ \/ rm_refuse \/ rm_opendir \/ rm_unlink
        \/ cp_refuse \/ cp_mkdir \/ cp_opendir \/ cp_file
        \/ read_child \/ read_end \/ mk_make
     /\ UNCHANGED <<cmd, listing, before>>
  \/ (ls_opendir \/ ls_read \/ ls_show) /\ UNCHANGED <<cmd, before>>

AppNext == Step \/ LET now == View IN \E c \in Commands : Run(c, now)

\* A command that has not come to its end takes its next step: every step
\* changes the stack.
Progress == []<>(stack = <<>>) \/ []<><<stack # <<>>>>_stack

AppSpec == AppInit /\ [][AppNext]_avars /\ Progress

\* The same with mk -p.
ParentsNext ==
  AppNext \/ ((mk_parents \/ mk_again) /\ UNCHANGED <<cmd, listing, before>>)
ParentsSpec == AppInit /\ [][ParentsNext]_avars

-----------------------------------------------------------------------------
Below(p, q) == IsPrefixOf(p.comps, q.comps)

\* At every step of an applet the tree differs from the one it found only as it
\* was asked to.  What was there and is not below what rm was given is there with
\* the same contents: rm stays inside its path while it deletes what it is
\* listing, and cp and mk replace nothing.  What was not there and is now is the
\* path of mk or, for cp, the counterpart, of the same kind and contents, of
\* something below the source (also when the destination lies inside the source
\* and grows with it).
OnlyAsAsked ==
  cmd.applet # "none" =>
    \A q \in AllPaths :
      /\ before[q] # "none" /\ ~(cmd.applet = "rm" /\ Below(cmd.src, q)) => Kind(q) = before[q]
      /\ before[q] = "none" /\ Kind(q) # "none" =>
           \/ cmd.applet = "mk" /\ q = Plain(cmd.src)
           \/ /\ cmd.applet = "cp" /\ Below(cmd.dst, q)
              /\ Kind(q) = Kind(Path(cmd.src.comps \o SubSeq(q.comps, Len(cmd.dst.comps) + 1, Len(q.comps))))

\* ls shows every name of the directory it opened once, in the order of its
\* options, or as many as MAX_ENTRIES.
LsShown ==
  cmd.applet = "ls" /\ stack = <<>> /\ Resolves(cmd.src) =>
    LET d     == Parent(cmd.src)
        names == {Text(content[d][s]) : s \in {s \in SlotNrs :
                    Named(content[d][s]) /\ \A t \in 1 .. s : content[d][t].state # "free"}}
                 \ (IF Option("a") THEN {} ELSE {Dot, DotDot})
        shown == {listing[i].name : i \in 1 .. Len(listing)}
    IN  /\ shown \subseteq names /\ Cardinality(shown) = Len(listing)
        /\ shown = names \/ Len(listing) = MAX_ENTRIES
        /\ \A i, j \in 1 .. Len(listing) : i < j => ~Swap(listing[i], listing[j])

\* Every command comes to its end, also a copy of a directory into itself.
AppletReturns == stack # <<>> ~> stack = <<>>

\* The directory rm -r deletes is empty by then ("Delete the file or (now-empty)
\* directory", rm/mod.rs:112).
RmEmptiesFirst ==
  Doing("rm", "unlink") /\ Kind(Top.src) = "dir" => IsEmptyDir(EntryOf(Top.src).start)

\* cp -r copies what is in the directory ("Iterate source directory",
\* cp/mod.rs:72), when no cluster was missing.
CpCopiesAll ==
  cmd.applet = "cp" /\ Option("r") /\ stack = <<>> /\ FreeClusters # {} =>
    \A q \in AllPaths : before[q] # "none" /\ Below(cmd.src, q) =>
      Kind(Path(cmd.dst.comps \o SubSeq(q.comps, Len(cmd.src.comps) + 1, Len(q.comps)))) # "none"

\* ls says of a name in the directory what f_stat says of it ("f_stat on the
\* full path", ls/mod.rs:117).
LsTruth ==
  cmd.applet = "ls" /\ stack = <<>> /\ cmd.src.slash =>
    \A i \in 1 .. Len(listing) :
      listing[i].name \in {Dot, DotDot} \/ listing[i].is_dir = StatDir(Join(cmd.src, listing[i].name))

\* The parents mk -p makes for a path are directories.
ParentsAreDirs ==
  cmd.applet = "mk" /\ Option("p") /\ stack = <<>> => Traverses(cmd.src)

=============================================================================
