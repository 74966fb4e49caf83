------------------------------ MODULE MCBuilder ------------------------------
(***************************************************************************)
(* The files for which TLC runs Builder.                                   *)
(***************************************************************************)
EXTENDS Builder

-----------------------------------------------------------------------------
(* Writing a file.                                                         *)

Commas(ms) == FlattenSeq([i \in DOMAIN ms |-> IF i = 1 THEN ms[1] ELSE <<",">> \o ms[i]])
Member(name, value) == <<name, ":">> \o value
Object(ms)  == <<"{">> \o Commas(ms) \o <<" ", "}">>
List(vs)    == <<"[">> \o Commas(vs) \o <<" ", "]">>
Text(str)   == <<str>>
Words(strs) == List([i \in DOMAIN strs |-> <<strs[i]>>])
TasksFile(ts) == Object(<<Member("version", <<"v2">>), Member("tasks", List(ts))>>)

-----------------------------------------------------------------------------
(* Every dependency graph over three tasks, self-dependencies included.    *)

Three == {"a", "b", "c"}
GraphTask(l, deps) ==
  [label |-> l, command |-> l, args |-> <<>>, cwd |-> "", dependsOn |-> SetToSeq(deps)]
GraphText(t) ==
  Object(<<Member("label", Text(t.label)), Member("dependsOn", Words(t.dependsOn)),
           Member("command", Text(t.command))>>)
GraphDoc(g, target) ==
  LET ts == <<GraphTask("a", g["a"]), GraphTask("b", g["b"]), GraphTask("c", g["c"])>>
  IN  [text |-> TasksFile([i \in 1..3 |-> GraphText(ts[i])]), tasks |-> ts, target |-> target]
GraphDocs ==
  {GraphDoc(g, "c") : g \in [Three -> SUBSET Three]}
    \cup {GraphDoc([l \in Three |-> {}], "absent")}

-----------------------------------------------------------------------------
(* One task with its members in every order, after a task it depends on    *)
(* that runs in another directory.                                         *)

First == Object(<<Member("label", Text("z")), Member("command", Text("first")),
                  Member("options", Object(<<Member("cwd", Text("away"))>>))>>)
FirstTask == [label |-> "z", command |-> "first", args |-> <<>>, cwd |-> "away",
              dependsOn |-> <<>>]

LinuxCommand == Member("command", Text("lcmd"))
LinuxArgs    == Member("args", Words(<<"l1", "l2">>))
LinuxForms   == {<<LinuxCommand>>, <<LinuxArgs>>, <<LinuxCommand, LinuxArgs>>,
                 <<LinuxArgs, LinuxCommand>>}

Members(linux, generic) ==
  <<Member("label", Text("t")), Member("command", Text("cmd")), Member("args", Words(generic)),
    Member("linux", Object(linux)), Member("options", Object(<<Member("cwd", Text("sub"))>>)),
    Member("dependsOn", Words(<<"z">>))>>

OrderDoc(linux, order, generic) ==
  LET ms  == Members(linux, generic)
      has == ToSet(linux)
  IN  [text   |-> TasksFile(<<First, Object([i \in 1..6 |-> ms[order[i]]])>>),
       tasks  |-> <<FirstTask,
                    [label |-> "t", cwd |-> "sub", dependsOn |-> <<"z">>,
                     command |-> IF LinuxCommand \in has THEN "lcmd" ELSE "cmd",
                     args |-> IF LinuxArgs \in has THEN <<"l1", "l2">> ELSE generic]>>,
       target |-> "t"]

\* The label and dependsOn are at the ends; the others take every place.
Orders == {o \in [1..6 -> 1..6] : IsInjective(o) /\ {o[1], o[6]} = {1, 6}}
OrderDocs == {OrderDoc(linux, o, <<"g1", "g2", "g3">>) : linux \in LinuxForms, o \in Orders}
\* One argument more than a task has slots for.
FullDocs == {OrderDoc(<<LinuxCommand>>, [i \in 1..6 |-> i], <<"g1", "g2", "g3", "g4", "g5", "g6">>)}

-----------------------------------------------------------------------------
(* Files of every small shape, for the reader.                             *)

Read(text) == [text |-> text, tasks |-> <<>>, target |-> "absent"]
Scalars  == {<<"x">>, <<"7">>, <<"null">>}
Small    == Scalars \cup {Object(<<Member("p", v)>>) : v \in Scalars}
              \cup {List(<<>>), Object(<<>>), Words(<<"x">>), Words(<<"x", "y">>)}
Middle   == Small \cup {Object(<<Member("p", v), Member("q", w)>>) : v, w \in Small}
              \cup {List(<<v, w>>) : v, w \in Small \ {<<"7">>, <<"null">>}}
ShapeDocs == {Read(Object(<<Member("a", v), Member("b", w)>>)) : v \in Middle, w \in Scalars}

\* The same without spaces; some of them lose a value.
Compact(text) == SelectSeq(text, LAMBDA tok : tok # " ")
CompactDocs == {Read(Compact(Object(<<Member("a", v)>>))) : v \in Middle}

\* Cut short, or with a character that does not belong there.
Sample == Object(<<Member("a", List(<<Words(<<"x">>), Object(<<Member("p", <<"42">>)>>)>>)),
                   Member("b", <<"true">>)>>)
BrokenDocs == {Read(SubSeq(Sample, 1, i)) : i \in 1..Len(Sample) - 1}
                \cup {Read([Sample EXCEPT ![i] = "?"]) : i \in DOMAIN Sample}
                \cup {Read(<<"[", " ", "]">>), Read(<<"7">>), Read(<<" ">>)}

\* Nested up to and beyond the room the reader has.
Nest[n \in Nat] == IF n = 0 THEN <<"x">> ELSE Object(<<Member("n", Nest[n - 1])>>)
NestDocs == {Read(Nest[n]) : n \in 1..MaxDepth + 1}

MCDocs == GraphDocs \cup OrderDocs \cup FullDocs \cup ShapeDocs \cup CompactDocs
            \cup BrokenDocs \cup NestDocs
=============================================================================
