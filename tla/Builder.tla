------------------------------- MODULE Builder -------------------------------
(***************************************************************************)
(* TERES-GMA1/tools/build.c as a process: main loads tasks.json, visits    *)
(* every value of it, gathers the tasks, and runs the named one after the  *)
(* tasks it depends on.                                                    *)
(*                                                                         *)
(* The recursions of the program are stacks here: frames for              *)
(* json__visitor, calls for bld__depends.                                  *)
(***************************************************************************)
EXTENDS TaskList, SequencesExt

CONSTANTS
  Docs,        \* command lines: the text of the file, the tasks its author
               \* means by it on Linux, and the label asked for
  Faults,      \* system calls that may fail: subset of {"load", "fork", "exec", "chdir"}
  MaxCalls     \* activations of bld__depends that fit the C stack

ASSUME BuilderAssumption ==
  /\ Faults \subseteq {"load", "fork", "exec", "chdir"}
  /\ MaxCalls \in Nat \ {0}

\* What an author writes down: typed fields, and a label for one task only.
TaskMeant == [label : STRING, command : STRING, cwd : STRING,
              args : Seq(STRING), dependsOn : Seq(STRING)]

ASSUME DocsAssumption ==
  \A d \in Docs :
    /\ d.tasks \in Seq(TaskMeant) /\ d.target \in STRING
    /\ \A j, k \in DOMAIN d.tasks : d.tasks[j].label = d.tasks[k].label => j = k

VARIABLES
  doc,         \* the file and argv[2], one of Docs
  at,          \* where main is: load, visit, make, depends, run, exit, crash
  code,        \* exit status of the process
  stack,       \* struct json__tree
  frames,      \* activations of json__visitor: [obj, child], innermost last
  heard,       \* values the callback was called for, in order (history)
  tasks,       \* the list of struct bld__task
  calls,       \* activations of bld__depends: [task, todo], innermost last
  dir,         \* working directory: the relative chdirs since the start
  job,         \* the command that is running, and getcwd before its chdir:
               \* [task, command, args, dir, old]
  ran,         \* <<task, result>> of the tasks executed, in order (history)
  astray       \* a chdir has failed (history)

vars == <<doc, at, code, stack, frames, heard, tasks, calls, dir, job, ran, astray>>
readVars == <<stack, frames, heard, tasks>>
runVars  == <<calls, dir, job, ran, astray>>

NoJob == [task |-> 0, command |-> "", args |-> <<>>, dir |-> <<>>, old |-> <<>>]
StartDir == <<>>

Labels(d) == {d.tasks[k].label : k \in DOMAIN d.tasks}

BuilderInit ==
  /\ doc \in Docs
  /\ at = "load" /\ code = 0
  /\ stack = NewStack(doc.text)
  /\ frames = <<>> /\ heard = <<>>
  /\ tasks = <<NewTask(0)>>
  /\ calls = <<>> /\ dir = StartDir /\ job = NoJob /\ ran = <<>> /\ astray = FALSE

Exit(status) == at' = "exit" /\ code' = status

-----------------------------------------------------------------------------
(* json__visitor with the callback bld__gather_tasks.                      *)

\* The value as the callback sees it.
Seen(o, d) == [pos |-> IF o.type \in Containers THEN o.to + 1 ELSE o.from,
               depth |-> d, name |-> o.name]

\* The callback for stack[d], where next is the tree it finds.
Callback(next, d) ==
  /\ heard' = IF d = 0 THEN heard ELSE Append(heard, Seen(next[d], d))
  /\ tasks' = Gather(tasks, doc.text, next, d)

\* main: json__load_file and json__parse, up to the call of json__visitor.
LoadFails ==
  /\ at = "load" /\ "load" \in Faults
  /\ Exit(255)
  /\ UNCHANGED <<doc, readVars, runVars>>

Load ==
  /\ at = "load"
  /\ \E parsed \in {Parse(doc.text)} :
         /\ stack' = parsed.stack
         /\ CASE parsed.out = NoObject -> Exit(254) /\ UNCHANGED <<frames, heard, tasks>>
              [] parsed.out = 0 \/ (parsed.out # NoObject
                                    /\ parsed.stack[parsed.out].type \notin Containers) ->
                   /\ Callback(parsed.stack, parsed.out)
                   /\ at' = "make"
                   /\ UNCHANGED <<code, frames>>
              [] OTHER -> /\ at' = "visit"
                          /\ frames' = <<[obj |-> parsed.out, child |-> NoObject]>>
                          /\ UNCHANGED <<code, heard, tasks>>
  /\ UNCHANGED <<doc, runVars>>

\* The loop of the innermost visitor: its next member is visited, or, when
\* there is none, the callback is called for the container itself.
Visit ==
  /\ at = "visit"
  /\ \E f \in {Last(frames)} : \E got \in {GetNext(doc.text, stack, f.obj, f.child)} :
     LET n   == got.out
         d   == IF n = NoObject THEN f.obj ELSE n
         stepped == [frames EXCEPT ![Len(frames)].child = n]
     IN  /\ stack' = got.stack
         /\ IF n # NoObject /\ got.stack[d].type \in Containers
            THEN /\ frames' = Append(stepped, [obj |-> n, child |-> NoObject])
                 /\ UNCHANGED <<at, code, heard, tasks>>
            ELSE IF GatherExits(tasks, got.stack, d)
            THEN Exit(246) /\ UNCHANGED <<frames, heard, tasks>>
            ELSE /\ Callback(got.stack, d)
                 /\ frames' = IF n # NoObject THEN stepped ELSE Front(frames)
                 /\ at' = IF frames' = <<>> THEN "make" ELSE at
                 /\ UNCHANGED code
  /\ UNCHANGED <<doc, runVars>>

-----------------------------------------------------------------------------
(* bld__make and bld__depends.                                             *)

Frame(t) == [task |-> t, todo |-> Callees(tasks, t)]

\* The first task with the label of argv[2].
Make ==
  /\ at = "make"
  /\ \/ Labelled(tasks, doc.target) = {} /\ Exit(0) /\ calls' = calls   \* "Task not found"
     \/ \E t \in Labelled(tasks, doc.target) :
          /\ \A k \in Labelled(tasks, doc.target) : t <= k
          /\ at' = "depends" /\ calls' = <<Frame(t)>> /\ UNCHANGED code
  /\ UNCHANGED <<doc, readVars, dir, job, ran, astray>>

Called(p) == Append([calls EXCEPT ![Len(calls)].todo = @ \ {p}], Frame(p[2]))

DependsOnItself ==  \* mutant: no test for recursion
  /\ at = "depends"
  /\ \E p \in Last(calls).todo :
       /\ \A q \in Last(calls).todo : NotAfter(p, q)
       /\ IF Len(calls) = MaxCalls THEN at' = "crash" /\ UNCHANGED <<code, calls>>
          ELSE calls' = Called(p) /\ UNCHANGED <<at, code>>
  /\ UNCHANGED <<doc, readVars, dir, job, ran, astray>>
\* The next dependency is called.  The test for recursion compares the task
\* with its caller only; it returns 1, which main drops.
Depend ==
  /\ at = "depends"
  /\ \E p \in Last(calls).todo :
       /\ \A q \in Last(calls).todo : NotAfter(p, q)
       /\ IF p[2] = Last(calls).task THEN Exit(0) /\ calls' = calls
          ELSE IF Len(calls) = MaxCalls THEN at' = "crash" /\ UNCHANGED <<code, calls>>
          ELSE calls' = Called(p) /\ UNCHANGED <<at, code>>
  /\ UNCHANGED <<doc, readVars, dir, job, ran, astray>>

ReturnsToMain ==  \* mutant: ret is returned without a test
  /\ calls' = Front(calls)
  /\ Exit(0)
\* The activation of bld__depends that ends with 0; main returns 0 too.
Returns ==
  /\ calls' = Front(calls)
  /\ IF Len(calls) = 1 THEN Exit(0) ELSE at' = "depends" /\ UNCHANGED code

-----------------------------------------------------------------------------
(* bld__exec and _spawnvp.                                                 *)

Ready == at = "depends" /\ Last(calls).todo = {}

ExecDone ==
  /\ Ready /\ tasks[Last(calls).task].done
  /\ Returns
  /\ UNCHANGED <<doc, readVars, dir, job, ran, astray>>

NeverDone(t) == tasks  \* mutant: done is not set
Done(t) == [tasks EXCEPT ![t].done = TRUE]

\* chdir(to), whose result is not looked at: after a failure the process is
\* where it was.
Chdir(to) ==
  \/ dir' = to /\ UNCHANGED astray
  \/ "chdir" \in Faults /\ dir' = dir /\ astray' = TRUE

\* getcwd(old), chdir, then fork and execve.
Exec ==
  /\ Ready /\ ~tasks[Last(calls).task].done
  /\ LET t == Last(calls).task
     IN  /\ IF tasks[t].cwd = "" THEN UNCHANGED <<dir, astray>>
            ELSE Chdir(Append(dir, tasks[t].cwd))
         /\ job' = [task |-> t, command |-> tasks[t].command, args |-> tasks[t].args,
                    dir |-> dir', old |-> dir]
         /\ tasks' = Done(t)
  /\ at' = "run"
  /\ UNCHANGED <<doc, code, stack, frames, heard, calls, ran>>

DirKept(result) ==  \* mutant: no chdir(old)
  /\ at = "run"
  /\ ran' = Append(ran, <<job.task, result>>)
  /\ job' = NoJob
  /\ IF result = "ok" THEN Returns ELSE Exit(0) /\ calls' = calls
  /\ UNCHANGED <<doc, readVars, dir, astray>>
\* waitpid has the status of the command; chdir(old) in both branches.  A
\* result that is not 0 goes up through every activation to main, which
\* returns 0.
CommandEnds(result) ==
  /\ at = "run"
  /\ ran' = Append(ran, <<job.task, result>>)
  /\ Chdir(job.old) /\ job' = NoJob
  /\ IF result = "ok" THEN Returns ELSE Exit(0) /\ calls' = calls
  /\ UNCHANGED <<doc, readVars>>

\* The command never runs and _spawnvp still returns 0: after a failed fork
\* there is no child to wait for and status keeps its 0; after a failed
\* execve the child is a copy of this program that returns through main.
SpawnFails ==
  /\ at = "run" /\ Faults \cap {"fork", "exec"} # {}
  /\ ran' = Append(ran, <<job.task, "lost">>)
  /\ Chdir(job.old) /\ job' = NoJob
  /\ Returns
  /\ UNCHANGED <<doc, readVars>>

-----------------------------------------------------------------------------
Stopped == at \in {"exit", "crash"} /\ UNCHANGED vars

BuilderStep ==
  \/ LoadFails \/ Load \/ Visit
  \/ Make \/ Depend \/ ExecDone \/ Exec
  \/ CommandEnds("ok") \/ CommandEnds("bad") \/ SpawnFails

BuilderNext == BuilderStep \/ Stopped

BuilderSafety == BuilderInit /\ [][BuilderNext]_vars

\* The program is one thread that only waits for the commands it runs; the
\* fairness says that it is scheduled and that those commands end.
BuilderSpec == BuilderSafety /\ WF_vars(BuilderStep)

-----------------------------------------------------------------------------
(* What the file says, read by the brackets and not by the reader.         *)

Openers(text, i) == {j \in 1..i : text[j] \in {"{", "["}}
Closers(text, i) == {j \in 1..i : text[j] \in {"}", "]"}}
Depth(text, i) == Cardinality(Openers(text, i)) - Cardinality(Closers(text, i))

\* Where the value that ends at i begins, and the name in front of it.
Begin(text, i) ==
  IF text[i] \notin {"}", "]"} THEN i
  ELSE Max({j \in Openers(text, i) : Depth(text, j) = Depth(text, i) + 1})
NameOf(text, i) ==
  LET b == Begin(text, i)
  IN  IF b > 2 /\ text[b - 1] = ":" THEN text[b - 2] ELSE ""

IsValueEnd(text, i) ==
  /\ text[i] \notin Spaces \cup {"{", "[", ",", ":"}
  /\ ~(i < Len(text) /\ text[i + 1] = ":")

Values(text) ==
  LET ends == SelectSeq([i \in DOMAIN text |-> i], LAMBDA i : IsValueEnd(text, i))
  IN  [k \in DOMAIN ends |-> [pos |-> ends[k], depth |-> Depth(text, ends[k]) + 1,
                              name |-> NameOf(text, ends[k])]]

\* Texts the reader takes in full: objects it has room for, whose arrays hold
\* strings and containers, and nothing of one byte touches a closer.
Spaced(text) == \A i \in DOMAIN text :
  i > 1 /\ text[i] \in {"}", "]"} => text[i - 1] \notin OneByte \ Spaces
ElementsReadable(text) == \A i \in DOMAIN text :
  text[i] \in Numbers \cup Keywords => i > 1 /\ text[i - 1] = ":"
Nesting(text) == Max({Depth(text, i) : i \in DOMAIN text})
Readable(text) ==
  /\ Nesting(text) < MaxDepth /\ Spaced(text) /\ ElementsReadable(text)
  /\ \A i \in DOMAIN text : text[i] \notin Garbage
  /\ text[1] = "{" /\ Depth(text, Len(text)) = 0

\* Every value of the file reaches the callback, each once, at its depth
\* and under its name, members before the object that holds them, although
\* the reader keeps one object per level and scans the text again for each
\* (json__get, json__visitor).
VisitsMembers ==
  at = "make" /\ Readable(doc.text) => heard = Values(doc.text)

\* The list holds the tasks the author means, each field of them, whatever
\* has run already.
Task == [id : Nat, label : STRING, command : STRING, cwd : STRING, args : Seq(STRING),
         dependsOn : Seq(STRING), platform : BOOLEAN, done : BOOLEAN]
AsMeant ==
  /\ tasks \in Seq(Task) /\ Len(tasks) = Len(doc.tasks)
  /\ \A k \in DOMAIN tasks :
       /\ tasks[k].label = doc.tasks[k].label /\ tasks[k].command = doc.tasks[k].command
       /\ tasks[k].cwd = doc.tasks[k].cwd /\ tasks[k].args = doc.tasks[k].args
       /\ tasks[k].dependsOn = doc.tasks[k].dependsOn

\* When the label asked for is in the list, or in a file the reader takes in
\* full, the list is the one of the file, with nothing done.
GathersTasks ==
  /\ at = "make"
  /\ Labelled(tasks, doc.target) # {} \/ (Readable(doc.text) /\ doc.target \in Labels(doc))
  => AsMeant /\ \A k \in DOMAIN tasks : ~tasks[k].done

\* Between them: the reader loses nothing of the file and bld__gather_tasks
\* puts it all in the right task, which is what the runner works on.
ReadsFile == VisitsMembers /\ GathersTasks

\* The command that runs has the command line that the file gives its task on
\* Linux, in whatever order the members come and whatever ran before it; and,
\* as long as no chdir has failed, exactly the directory.  After a failed
\* chdir, to the task's directory or back from it, nothing is said of the
\* directories: no result is looked at, so that this task may run in the start
\* directory and a later one in an earlier one's (bld__args, bld__gather_tasks,
\* bld__exec).
RunsAsWritten ==
  at = "run" =>
    \E k \in DOMAIN doc.tasks :
      /\ tasks[job.task].label = doc.tasks[k].label
      /\ job.command = doc.tasks[k].command
      /\ job.args = doc.tasks[k].args
      /\ astray \/ job.dir = (IF doc.tasks[k].cwd = "" THEN StartDir ELSE <<doc.tasks[k].cwd>>)

\* The graph of the file, for BuildContract.
Graph == [l \in Labels(doc) |->
            {m \in Labels(doc) : \E k \in DOMAIN doc.tasks :
               doc.tasks[k].label = l /\ m \in Range(doc.tasks[k].dependsOn)}]
Results(R) == {tasks[ran[i][1]].label : i \in {n \in DOMAIN ran : ran[n][2] \in R}}

Contract == INSTANCE BuildContract WITH
  graph <- Graph, succeeded <- Results({"ok", "lost"}), failed <- Results({"bad"}),
  running <- IF at = "run" THEN {tasks[job.task].label} ELSE {}

\* The tool implements BuildContract: a command starts once, after all it
\* depends on, and never after a failure, as far as _spawnvp reports one
\* (bld__depends, bld__exec).
RunsGraph == Contract!ContractSpec

\* No cycle among different tasks: some numbering goes down along every
\* dependency (of a task on itself the tool says nothing and stops).
Descends(rank) == \A l \in Labels(doc) : \A m \in Graph[l] \ {l} : rank[m] < rank[l]
Acyclic == \E rank \in [Labels(doc) -> 1..Cardinality(Labels(doc))] : Descends(rank)

\* The tool ends on every file, broken ones too, whose nesting is below
\* MaxDepth and whose tasks have no cycle (json__visitor, bld__depends).
BuildEnds == (Nesting(doc.text) < MaxDepth /\ Acyclic) ~> at = "exit"

\* When the tool ends with status 0, the reader took the file in full, no
\* command has failed, and no needed task depends on itself, then _spawnvp was
\* called for the target and all it depends on and for nothing else; and if it
\* lost none of those commands, all of them were executed.  Both conditions
\* are needed: at a task that depends on itself the tool stops with status 0
\* and leaves the work undone, and a command that a failed fork or execve has
\* lost counts as done (bld__make, bld__depends, _spawnvp).
Needed(l) == \A S \in SUBSET Labels(doc) :
  (doc.target \in S /\ \A m \in S : Graph[m] \subseteq S) => l \in S
SelfDependent == \E l \in Labels(doc) : Needed(l) /\ l \in Graph[l]
TargetMade ==
  /\ at = "exit" /\ code = 0 /\ Readable(doc.text) /\ doc.target \in Labels(doc)
  /\ Results({"bad"}) = {} /\ ~SelfDependent
  => LET needed == {l \in Labels(doc) : Needed(l)}
     IN  /\ Results({"ok", "lost"}) = needed
         /\ Results({"lost"}) = {} => Results({"ok"}) = needed

\* "tree to check that we are not in infinite recursion": bld__depends
\* never recurses without end.
NoEndlessRecursion == at # "crash"
=============================================================================
