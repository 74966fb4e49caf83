------------------------------ MODULE TaskList ------------------------------
(***************************************************************************)
(* The tasks that TERES-GMA1/tools/build.c gathers from tasks.json: one    *)
(* call of bld__gather_tasks per JSON value, on Linux.  Slots of a task    *)
(* that hold the empty string are free slots, so an argument or dependency *)
(* "" disappears.                                                          *)
(***************************************************************************)
EXTENDS JsonReader, FiniteSetsExt

CONSTANT MaxChildren         \* bld__MAX_CHILDREN: slots for args and dependsOn

ASSUME MaxChildrenAssumption == MaxChildren \in Nat \ {0}

\* bld__task_new
NewTask(id) == [id |-> id, label |-> "", command |-> "", cwd |-> "",
                dependsOn |-> <<>>, args |-> <<>>, platform |-> FALSE, done |-> FALSE]

\* A string copied into the first free slot.
Slotted(slots, value) == IF value = "" THEN slots ELSE Append(slots, value)

GenericArgsAdded(t, value, platform) ==  \* mutant: no early return
  [t EXCEPT !.args = Slotted(IF platform /\ ~t.platform THEN <<>> ELSE @, value),
            !.platform = platform]
\* bld__args: the first argument for this platform drops the generic ones,
\* and a generic one that comes after it is refused.
Args(t, value, platform) ==
  IF t.platform /\ ~platform THEN t
  ELSE [t EXCEPT !.args = Slotted(IF platform /\ ~t.platform THEN <<>> ELSE @, value),
                 !.platform = platform]

ArgsFull(t, platform) ==
  /\ t.platform = platform
  /\ Len(t.args) = MaxChildren

\* The record a value at stack[d] belongs to: the one with the task's id,
\* the very first one while it has none, or a new one at the end.
TaskIndex(tasks, id) ==
  IF tasks[1].id = 0 THEN 1
  ELSE IF \E k \in DOMAIN tasks : tasks[k].id = id
       THEN Min({k \in DOMAIN tasks : tasks[k].id = id})
       ELSE Len(tasks) + 1

WithTask(tasks, id) ==
  IF TaskIndex(tasks, id) > Len(tasks) THEN Append(tasks, NewTask(id))
  ELSE [tasks EXCEPT ![TaskIndex(tasks, id)].id = id]

\* Values below "tasks": [ {...}, ... ].
InTask(stack, d) == d > 3 /\ Match(stack[2], "tasks") /\ Match(stack[3], "")

\* What the value v at depth d sets in its task t.
Filled(t, stack, d, v) ==
  LET key(name)  == Match(stack[4], name)
      deep(name) == d > 4 /\ key(name)
      sub(name)  == Match(stack[5], name)
  IN  CASE key("command") /\ t.command = "" -> [t EXCEPT !.command = v]
        [] deep("linux") /\ sub("command") -> [t EXCEPT !.command = v]
        [] deep("linux") /\ sub("args") /\ d > 5 -> Args(t, v, TRUE)
        [] key("label") -> [t EXCEPT !.label = v]
        [] deep("args") -> Args(t, v, FALSE)
        [] deep("dependsOn") -> [t EXCEPT !.dependsOn = Slotted(@, v)]
        [] deep("options") /\ sub("cwd") -> [t EXCEPT !.cwd = v]
        [] OTHER -> t

\* bld__gather_tasks
Gather(tasks, text, stack, d) ==
  IF ~InTask(stack, d) THEN tasks
  ELSE [WithTask(tasks, stack[3].from) EXCEPT
          ![TaskIndex(tasks, stack[3].from)] = Filled(@, stack, d, CopyString(text, stack[d]))]

\* "too many args", "too many dependsOn": exit(-10).
GatherExits(tasks, stack, d) ==
  /\ InTask(stack, d)
  /\ LET t == WithTask(tasks, stack[3].from)[TaskIndex(tasks, stack[3].from)]
     IN  \/ d > 4 /\ Match(stack[4], "args") /\ ArgsFull(t, FALSE)
         \/ d > 5 /\ Match(stack[4], "linux") /\ Match(stack[5], "args") /\ ArgsFull(t, TRUE)
         \/ d > 4 /\ Match(stack[4], "dependsOn") /\ Len(t.dependsOn) = MaxChildren

Labelled(tasks, label) == {k \in DOMAIN tasks : tasks[k].label = label}

\* The calls that the two loops of bld__depends make for t: <<i, k>> is the
\* call for the task k, which has the label in slot i of dependsOn.
Callees(tasks, t) ==
  {p \in (DOMAIN tasks[t].dependsOn) \X (DOMAIN tasks) :
     p[2] \in Labelled(tasks, tasks[t].dependsOn[p[1]])}

\* The outer loop goes through the slots, the inner one through the list.
NotAfter(p, q) == p[1] < q[1] \/ (p[1] = q[1] /\ p[2] <= q[2])
=============================================================================
