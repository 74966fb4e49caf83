---------------------------- MODULE BuilderProofs ----------------------------
(***************************************************************************)
(* Proofs about the runner of Builder: bld__make, bld__depends and         *)
(* bld__exec on the list that was gathered.                                *)
(*                                                                         *)
(* That the list is the one of the file is GathersTasks, which is about    *)
(* the reader and its texts and stays a property TLC checks; it is the     *)
(* hypothesis of the theorems.  Everything after it holds for every file,  *)
(* every dependency graph and every bound of the stack.                    *)
(***************************************************************************)
EXTENDS Builder, SequenceTheorems, FiniteSetTheorems, TLAPS

Outcome == {"ok", "lost", "bad"}
Index == DOMAIN doc.tasks
LabelOf(t) == doc.tasks[t].label

\* What has run, by task.
Succeeded(t) == \E n \in DOMAIN ran : ran[n][1] = t /\ ran[n][2] \in {"ok", "lost"}
Broken == \E n \in DOMAIN ran : ran[n][2] = "bad"
Begun == calls # <<>> \/ ran # <<>>

-----------------------------------------------------------------------------
(* The inductive invariant, by the part of the run it is about.            *)

FrameType == [task : Index, todo : SUBSET (Nat \X Nat)]

RunType ==
  /\ doc \in Docs
  /\ at \in {"load", "visit", "make", "depends", "run", "exit", "crash"}
  /\ calls \in Seq(FrameType)
  /\ ran \in Seq(Index \X Outcome)
  /\ at \in {"depends", "run"} => calls # <<>>
  /\ at \in {"load", "visit", "make"} => calls = <<>> /\ ran = <<>>
  /\ at # "run" /\ ~astray => dir = StartDir
  /\ Begun => AsMeant

\* done is set exactly for the tasks that were executed, and a failure is
\* the end.
DoneOnce ==
  /\ Broken => at = "exit"
  /\ Begun => \A t \in Index :
       /\ Succeeded(t) => tasks[t].done
       /\ tasks[t].done => Succeeded(t) \/ Broken \/ (at = "run" /\ t = job.task)

\* A call that an activation has made is either the one it waits for or has
\* ended well; none was for the task itself.
CallsMade ==
  \A i \in DOMAIN calls :
    /\ calls[i].todo \subseteq Callees(doc.tasks, calls[i].task)
    /\ \A p \in Callees(doc.tasks, calls[i].task) \ calls[i].todo :
         /\ p[2] # calls[i].task
         /\ Succeeded(p[2]) \/ (i < Len(calls) /\ p[2] = calls[i + 1].task)

\* The command is the one of the innermost activation, which has no call
\* left to make, and it is the first time.
JobRuns ==
  at = "run" =>
    /\ job.task = Last(calls).task /\ Last(calls).todo = {}
    /\ ~Succeeded(job.task) /\ tasks[job.task].done
    /\ job.command = doc.tasks[job.task].command
    /\ job.args = doc.tasks[job.task].args
    /\ ~astray =>
         /\ job.old = StartDir
         /\ job.dir = (IF doc.tasks[job.task].cwd = "" THEN StartDir
                       ELSE <<doc.tasks[job.task].cwd>>)

\* Only what the target needs is called; the target is the outermost.
CallsNeeded ==
  /\ \A i \in DOMAIN calls : Needed(LabelOf(calls[i].task))
  /\ \A n \in DOMAIN ran : Needed(LabelOf(ran[n][1]))
  /\ calls # <<>> => LabelOf(calls[1].task) = doc.target

\* What succeeded had all it depends on.
DepsFirst ==
  \A t \in Index : Succeeded(t) =>
    \A p \in Callees(doc.tasks, t) : Succeeded(p[2])

\* Why main returned 0.
ExitWhy ==
  at = "exit" /\ code = 0 =>
    \/ Broken
    \/ \E t \in Index : Succeeded(t) /\ LabelOf(t) = doc.target
    \/ \E l \in Labels(doc) : Needed(l) /\ l \in Graph[l]
    \/ ~(Readable(doc.text) /\ doc.target \in Labels(doc))

RunInv == RunType /\ DoneOnce /\ CallsMade /\ JobRuns /\ CallsNeeded /\ DepsFirst /\ ExitWhy

\* Along the calls a numbering that goes down leaves less and less room, so
\* a stack with room for every label is not used up.
Ranked ==
  \A rank \in [Labels(doc) -> 1..Cardinality(Labels(doc))] :
    Descends(rank) =>
      /\ \A i \in DOMAIN calls : rank[LabelOf(calls[i].task)] + i <= Cardinality(Labels(doc)) + 1
      /\ Cardinality(Labels(doc)) <= MaxCalls => at # "crash"

-----------------------------------------------------------------------------
(* Callees and the graph of the file.                                      *)

LEMMA CalleesIn ==
  ASSUME NEW ts, NEW t, NEW p
  PROVE  p \in Callees(ts, t) <=>
           /\ p \in (DOMAIN ts[t].dependsOn) \X (DOMAIN ts)
           /\ ts[p[2]].label = ts[t].dependsOn[p[1]]
PROOF
  <1>1. ASSUME p \in (DOMAIN ts[t].dependsOn) \X (DOMAIN ts)
        PROVE  p[2] \in DOMAIN ts
    BY <1>1
  <1> QED  BY <1>1 DEF Callees, Labelled

\* What the assumption on the files says of one of them.
LEMMA DocTyped ==
  ASSUME doc \in Docs
  PROVE  /\ doc.tasks \in Seq(TaskMeant)
         /\ Index = 1..Len(doc.tasks)
         /\ \A t \in Index : doc.tasks[t] \in TaskMeant
         /\ \A j, k \in Index : LabelOf(j) = LabelOf(k) => j = k
PROOF
  <1>1. doc.tasks \in Seq(TaskMeant)
    BY DocsAssumption
  <1>2. \A j, k \in Index : LabelOf(j) = LabelOf(k) => j = k
    BY DocsAssumption DEF Index, LabelOf
  <1>3. Index = 1..Len(doc.tasks)
    BY <1>1, LenProperties DEF Index
  <1>4. \A t \in Index : doc.tasks[t] \in TaskMeant
    BY <1>1, <1>3, ElementOfSeq
  <1> QED  BY <1>1, <1>2, <1>3, <1>4

\* The calls of a task are the same in the list and in the file.
LEMMA CalleesMeant ==
  ASSUME doc \in Docs, AsMeant
  PROVE  /\ DOMAIN tasks = Index
         /\ \A t \in Index : Callees(tasks, t) = Callees(doc.tasks, t)
PROOF
  <1>1. DOMAIN tasks = 1..Len(tasks) /\ Len(tasks) = Len(doc.tasks)
    BY LenProperties DEF AsMeant
  <1>2. DOMAIN tasks = Index
    BY <1>1, DocTyped
  <1>3. ASSUME NEW t \in Index
        PROVE  Callees(tasks, t) = Callees(doc.tasks, t)
    <2>1. tasks[t].dependsOn = doc.tasks[t].dependsOn
      BY <1>2 DEF AsMeant
    <2>2. \A k \in Index : tasks[k].label = doc.tasks[k].label
      BY <1>2 DEF AsMeant
    <2>3. ASSUME NEW p \in (DOMAIN doc.tasks[t].dependsOn) \X Index
          PROVE  tasks[p[2]].label = doc.tasks[p[2]].label
      BY <2>2
    <2>4. ASSUME NEW p
          PROVE  p \in Callees(tasks, t) <=> p \in Callees(doc.tasks, t)
      BY <1>2, <2>1, <2>3, CalleesIn DEF Index
    <2> QED  BY <2>4
  <1> QED  BY <1>2, <1>3

LEMMA CalleeType ==
  ASSUME doc \in Docs, NEW t \in Index
  PROVE  /\ \A p \in Callees(doc.tasks, t) : p[2] \in Index /\ LabelOf(p[2]) \in Graph[LabelOf(t)]
         /\ Callees(doc.tasks, t) \in SUBSET (Nat \X Nat)
PROOF
  <1>1. doc.tasks[t].dependsOn \in Seq(STRING)
    BY DocTyped DEF TaskMeant
  <1>2. DOMAIN doc.tasks[t].dependsOn \subseteq Nat /\ Index \subseteq Nat
    BY <1>1, DocTyped, LenProperties
  <1>3. ASSUME NEW p \in Callees(doc.tasks, t)
        PROVE  p[2] \in Index /\ LabelOf(p[2]) \in Graph[LabelOf(t)] /\ p \in Nat \X Nat
    <2>1. /\ p \in (DOMAIN doc.tasks[t].dependsOn) \X Index
          /\ LabelOf(p[2]) = doc.tasks[t].dependsOn[p[1]]
      BY CalleesIn DEF Index, LabelOf
    <2>2. p[1] \in DOMAIN doc.tasks[t].dependsOn /\ p[2] \in Index /\ p = <<p[1], p[2]>>
      BY <2>1
    <2>3. LabelOf(p[2]) \in Labels(doc) /\ LabelOf(t) \in Labels(doc)
      BY <2>2 DEF Labels, LabelOf, Index
    <2>4. LabelOf(p[2]) \in Range(doc.tasks[t].dependsOn)
      BY <2>1, <2>2 DEF Range
    <2>5. LabelOf(p[2]) \in Graph[LabelOf(t)]
      BY <2>3, <2>4 DEF Graph, LabelOf, Index
    <2> QED  BY <2>2, <2>5, <1>2
  <1> QED  BY <1>3

LEMMA GraphCallee ==
  ASSUME doc \in Docs, NEW t \in Index, NEW m \in Graph[LabelOf(t)]
  PROVE  \E p \in Callees(doc.tasks, t) : LabelOf(p[2]) = m
PROOF
  <1>1. LabelOf(t) \in Labels(doc)
    BY DEF Labels, LabelOf, Index
  <1>2. PICK k \in Index : LabelOf(k) = LabelOf(t) /\ m \in Range(doc.tasks[k].dependsOn)
    BY <1>1 DEF Graph, LabelOf, Index
  <1>3. k = t
    BY <1>2, DocTyped
  <1>4. PICK i \in DOMAIN doc.tasks[t].dependsOn : doc.tasks[t].dependsOn[i] = m
    BY <1>2, <1>3 DEF Range
  <1>5. m \in Labels(doc)
    BY <1>1 DEF Graph
  <1>6. PICK j \in Index : LabelOf(j) = m
    BY <1>5 DEF Labels, LabelOf, Index
  <1>7. <<i, j>> \in Callees(doc.tasks, t)
    BY <1>4, <1>6, CalleesIn DEF Index, LabelOf
  <1> QED  BY <1>6, <1>7

\* Need goes along dependencies, from the target.
LEMMA NeededTarget ==
  ASSUME NEW t \in Index, LabelOf(t) = doc.target
  PROVE  Needed(LabelOf(t))
  BY DEF Needed

LEMMA NeededCallee ==
  ASSUME doc \in Docs, NEW t \in Index, Needed(LabelOf(t)), NEW p \in Callees(doc.tasks, t)
  PROVE  Needed(LabelOf(p[2]))
PROOF
  <1>1. LabelOf(p[2]) \in Graph[LabelOf(t)]
    BY CalleeType
  <1> QED  BY <1>1 DEF Needed

-----------------------------------------------------------------------------
(* What the parts of a step do to the parts of the invariant.              *)

LEMMA DocFixed ==
  ASSUME doc' = doc
  PROVE  /\ Index' = Index /\ Labels(doc)' = Labels(doc) /\ Graph' = Graph
         /\ \A l : Needed(l)' <=> Needed(l)
         /\ \A t : LabelOf(t)' = LabelOf(t)
PROOF
  <1>1. Index' = Index
    BY DEF Index
  <1>2. Labels(doc)' = Labels(doc)
    BY DEF Labels
  <1>3. Graph' = Graph
    BY DEF Graph, Labels
  <1>4. ASSUME NEW l PROVE Needed(l)' <=> Needed(l)
    BY DEF Needed, Graph, Labels
  <1>5. ASSUME NEW t PROVE LabelOf(t)' = LabelOf(t)
    BY DEF LabelOf
  <1> QED  BY <1>1, <1>2, <1>3, <1>4, <1>5

LEMMA RanSame ==
  ASSUME ran' = ran
  PROVE  /\ Broken' <=> Broken
         /\ \A t : Succeeded(t)' <=> Succeeded(t)
PROOF
  <1>1. ASSUME NEW t PROVE Succeeded(t)' <=> Succeeded(t)
    BY DEF Succeeded
  <1>2. Broken' <=> Broken
    BY DEF Broken
  <1> QED  BY <1>1, <1>2

LEMMA RanMore ==
  ASSUME RunType, doc' = doc, NEW t \in Index, NEW r \in Outcome, ran' = Append(ran, <<t, r>>)
  PROVE  /\ ran' \in Seq(Index \X Outcome)
         /\ ran' # <<>>
         /\ Broken' <=> Broken \/ r = "bad"
         /\ \A u : Succeeded(u)' <=> Succeeded(u) \/ (u = t /\ r # "bad")
         /\ DOMAIN ran' = DOMAIN ran \cup {Len(ran) + 1}
         /\ \A n \in DOMAIN ran : ran'[n] = ran[n]
         /\ ran'[Len(ran) + 1] = <<t, r>>
PROOF
  <1>1. ran \in Seq(Index \X Outcome) /\ <<t, r>> \in Index \X Outcome
    BY DEF RunType
  <1> DEFINE S == Index \X Outcome
             e == <<t, r>>
  <1>2. ran \in Seq(S) /\ e \in S
    BY <1>1
  <1>3. ran' = Append(ran, e)
    OBVIOUS
  <1>5. e[1] = t /\ e[2] = r /\ (r = "bad" <=> r \notin {"ok", "lost"})
    BY DEF Outcome
  <1> HIDE DEF S, e
  <1>4. /\ ran' \in Seq(S) /\ Len(ran') = Len(ran) + 1 /\ Len(ran) \in Nat
        /\ DOMAIN ran = 1..Len(ran) /\ DOMAIN ran' = 1..Len(ran) + 1
        /\ \A n \in 1..Len(ran) : ran'[n] = ran[n]
        /\ ran'[Len(ran) + 1] = e
    BY <1>2, <1>3, AppendProperties, LenProperties
  <1>6. DOMAIN ran' = DOMAIN ran \cup {Len(ran) + 1}
    BY <1>4
  <1>7. Broken' <=> Broken \/ r = "bad"
    BY <1>4, <1>5, <1>6 DEF Broken
  <1>8. ASSUME NEW u PROVE Succeeded(u)' <=> Succeeded(u) \/ (u = t /\ r # "bad")
    BY <1>4, <1>5, <1>6 DEF Succeeded
  <1>9. ran' # <<>>
    BY <1>4
  <1> QED  BY <1>4, <1>6, <1>7, <1>8, <1>9 DEF S, e

LEMMA LastFrame ==
  ASSUME RunType, calls # <<>>
  PROVE  /\ Len(calls) \in Nat \ {0} /\ DOMAIN calls = 1..Len(calls)
         /\ Last(calls) = calls[Len(calls)]
         /\ Last(calls).task \in Index
         /\ \A i \in DOMAIN calls : calls[i] \in FrameType
PROOF
  <1> DEFINE S == FrameType
  <1>1. calls \in Seq(S)
    BY DEF RunType
  <1> HIDE DEF S
  <1>2. Len(calls) \in Nat \ {0} /\ DOMAIN calls = 1..Len(calls)
    BY <1>1, LenProperties, EmptySeq
  <1>3. \A i \in DOMAIN calls : calls[i] \in S
    BY <1>1, <1>2, ElementOfSeq
  <1>4. calls[Len(calls)] \in S
    BY <1>2, <1>3
  <1> QED  BY <1>2, <1>3, <1>4 DEF Last, S, FrameType

LEMMA FrontIs ==
  ASSUME RunType, calls # <<>>, calls' = Front(calls)
  PROVE  /\ calls' \in Seq(FrameType)
         /\ Len(calls') = Len(calls) - 1 /\ DOMAIN calls' = 1..Len(calls) - 1
         /\ \A i \in 1..Len(calls) - 1 : calls'[i] = calls[i]
PROOF
  <1> DEFINE S == FrameType
  <1>1. calls \in Seq(S)
    BY DEF RunType
  <1>2. Len(calls) \in Nat \ {0} /\ DOMAIN calls = 1..Len(calls)
    BY LastFrame
  <1> HIDE DEF S
  <1>3. calls' = [i \in 1..Len(calls) - 1 |-> calls[i]]
    BY <1>1, <1>2 DEF Front
  <1>4. \A i \in 1..Len(calls) - 1 : calls[i] \in S
    BY <1>1, <1>2, ElementOfSeq
  <1>5. calls' \in Seq(S) /\ Len(calls') = Len(calls) - 1 /\ DOMAIN calls' = 1..Len(calls) - 1
    BY <1>2, <1>3, <1>4
  <1> QED  BY <1>3, <1>5 DEF S

LEMMA CalledIs ==
  ASSUME RunType, calls # <<>>, NEW p, p[2] \in Index,
         Callees(tasks, p[2]) \in SUBSET (Nat \X Nat), calls' = Called(p)
  PROVE  /\ calls' \in Seq(FrameType)
         /\ Len(calls') = Len(calls) + 1 /\ DOMAIN calls' = 1..Len(calls) + 1
         /\ \A i \in 1..Len(calls) : calls'[i].task = calls[i].task
         /\ \A i \in 1..Len(calls) - 1 : calls'[i] = calls[i]
         /\ calls'[Len(calls)].todo = Last(calls).todo \ {p}
         /\ calls'[Len(calls) + 1].task = p[2]
         /\ calls'[Len(calls) + 1].todo = Callees(tasks, p[2])
PROOF
  <1> DEFINE S == FrameType
             n == Len(calls)
             g == [calls[n] EXCEPT !.todo = @ \ {p}]
             s == [calls EXCEPT ![n] = g]
  <1>1. calls \in Seq(S)
    BY DEF RunType
  <1>2. n \in Nat \ {0} /\ DOMAIN calls = 1..n /\ Last(calls) = calls[n] /\ calls[n] \in FrameType
    BY LastFrame
  <1>3. g \in S /\ g.task = calls[n].task /\ g.todo = calls[n].todo \ {p}
    BY <1>2 DEF FrameType
  <1>4. Frame(p[2]) \in S /\ Frame(p[2]).task = p[2] /\ Frame(p[2]).todo = Callees(tasks, p[2])
    BY DEF Frame, FrameType
  <1>5. calls' = Append(s, Frame(p[2]))
    BY DEF Called
  <1>6. \A i \in 1..n : calls[i] \in S
    BY <1>1, ElementOfSeq
  <1> HIDE DEF S, g
  <1>7. /\ s \in Seq(S) /\ Len(s) = n /\ s[n] = g
        /\ \A i \in 1..n : i # n => s[i] = calls[i]
    <2>1. calls \in [1..n -> S]
      BY <1>1, <1>2, <1>6
    <2> HIDE DEF n
    <2>2. /\ s \in [1..n -> S] /\ s[n] = g
          /\ \A i \in 1..n : i # n => s[i] = calls[i]
      BY <2>1, <1>2, <1>3
    <2>3. \A q : q \in [1..n -> S] => q \in Seq(S) /\ Len(q) = n
      BY <1>2
    <2> QED  BY <2>2, <2>3
  <1> HIDE DEF s, n
  <1>8. PICK f \in S : f = Frame(p[2])
    BY <1>4
  <1>9. /\ calls' \in Seq(S) /\ Len(calls') = n + 1 /\ DOMAIN calls' = 1..n + 1
        /\ \A i \in 1..n : calls'[i] = s[i]
        /\ calls'[n + 1] = f
    BY <1>5, <1>7, <1>8, <1>2, AppendProperties, LenProperties
  <1>10. n \in 1..n /\ \A i \in 1..n - 1 : i \in 1..n /\ i # n
    BY <1>2
  <1>11. \A i \in 1..n - 1 : calls'[i] = calls[i]
    BY <1>7, <1>9, <1>10
  <1>12. calls'[n] = g
    BY <1>7, <1>9, <1>10
  <1>13. \A i \in 1..n : calls'[i].task = calls[i].task
    BY <1>2, <1>3, <1>11, <1>12
  <1> QED  BY <1>2, <1>3, <1>4, <1>8, <1>9, <1>11, <1>12, <1>13 DEF n, S

\* The activations below one that ends well.
LEMMA ReturnsKeeps ==
  ASSUME RunInv, calls # <<>>, doc' = doc, Returns,
         NEW t, t = Last(calls).task, Succeeded(t)',
         \A u : Succeeded(u) => Succeeded(u)'
  PROVE  /\ calls' \in Seq(FrameType')
         /\ at' = "depends" => calls' # <<>>
         /\ at' \in {"depends", "exit"}
         /\ CallsMade' /\ ExitWhy'
         /\ \A i \in DOMAIN calls' : Needed(LabelOf(calls'[i].task))
         /\ calls' # <<>> => LabelOf(calls'[1].task) = doc.target
PROOF
  <1> DEFINE n == Len(calls)
  <1>1. RunType
    BY DEF RunInv
  <1>2. /\ n \in Nat \ {0} /\ DOMAIN calls = 1..n /\ Last(calls) = calls[n]
        /\ t \in Index
    BY <1>1, LastFrame
  <1>3. /\ calls' \in Seq(FrameType)
        /\ Len(calls') = n - 1 /\ DOMAIN calls' = 1..n - 1
        /\ \A i \in 1..n - 1 : calls'[i] = calls[i]
    BY <1>1, FrontIs DEF Returns
  <1>4. FrameType' = FrameType
    BY DocFixed DEF FrameType
  <1>5. /\ at' \in {"depends", "exit"}
        /\ at' = "depends" <=> n # 1
    BY DEF Returns, Exit
  <1>6. at' = "depends" => calls' # <<>>
    <2>1. calls' # <<>> <=> Len(calls') # 0
      BY <1>3, EmptySeq
    <2> QED  BY <2>1, <1>2, <1>3, <1>5
  <1>7. CallsMade'
    <2> SUFFICES ASSUME NEW i \in 1..n - 1
                 PROVE  /\ calls'[i].todo \subseteq Callees(doc.tasks, calls'[i].task)
                        /\ \A p \in Callees(doc.tasks, calls'[i].task) \ calls'[i].todo :
                             /\ p[2] # calls'[i].task
                             /\ Succeeded(p[2])' \/ (i < Len(calls') /\ p[2] = calls'[i + 1].task)
      BY <1>3 DEF CallsMade
    <2>1. i \in DOMAIN calls /\ calls'[i] = calls[i]
      BY <1>2, <1>3
    <2>2. /\ calls[i].todo \subseteq Callees(doc.tasks, calls[i].task)
          /\ \A p \in Callees(doc.tasks, calls[i].task) \ calls[i].todo :
               /\ p[2] # calls[i].task
               /\ Succeeded(p[2]) \/ (i < n /\ p[2] = calls[i + 1].task)
      BY <2>1 DEF RunInv, CallsMade
    <2>3. ASSUME NEW u, u = calls[i + 1].task
          PROVE  Succeeded(u)' \/ (i < Len(calls') /\ u = calls'[i + 1].task)
      <3>1. CASE i = n - 1
        BY <3>1, <2>3, <1>2
      <3>2. CASE i # n - 1
        <4>1. n \in Nat
          BY <1>2
        <4>2. i < n - 1 /\ i + 1 \in 1..n - 1
          BY <3>2, <4>1
        <4>3. calls'[i + 1] = calls[i + 1]
          BY <4>2, <1>3
        <4> QED  BY <4>2, <4>3, <2>3, <1>3
      <3> QED  BY <3>1, <3>2
    <2>4. ASSUME NEW p \in Callees(doc.tasks, calls[i].task) \ calls[i].todo
          PROVE  Succeeded(p[2])' \/ (i < Len(calls') /\ p[2] = calls'[i + 1].task)
      <3>1. CASE Succeeded(p[2])
        BY <3>1
      <3>2. CASE p[2] = calls[i + 1].task
        BY <3>2, <2>3
      <3> QED  BY <3>1, <3>2, <2>2
    <2> QED  BY <2>1, <2>2, <2>4
  <1>8. /\ \A i \in DOMAIN calls' : Needed(LabelOf(calls'[i].task))
        /\ calls' # <<>> => LabelOf(calls'[1].task) = doc.target
    <2>1. \A i \in 1..n - 1 : i \in DOMAIN calls /\ calls'[i] = calls[i]
      BY <1>2, <1>3
    <2>2. calls' # <<>> => 1 \in 1..n - 1
      <3>1. calls' # <<>> <=> Len(calls') # 0
        BY <1>3, EmptySeq
      <3> QED  BY <3>1, <1>2, <1>3
    <2> QED  BY <2>1, <2>2, <1>3 DEF RunInv, CallsNeeded
  <1>9. ExitWhy'
    <2> SUFFICES ASSUME at' = "exit"
                 PROVE  \E u \in Index' : Succeeded(u)' /\ LabelOf(u)' = doc.target'
      BY DEF ExitWhy
    <2>1. n = 1
      BY <1>5
    <2>2. LabelOf(t) = doc.target
      BY <2>1, <1>2 DEF RunInv, CallsNeeded
    <2> QED  BY <2>2, <1>2, DocFixed
  <1> QED  BY <1>3, <1>4, <1>5, <1>6, <1>7, <1>8, <1>9

-----------------------------------------------------------------------------
(* The invariant, action by action.                                        *)

\* The reader leaves the runner alone.
LEMMA ReaderStep ==
  ASSUME LoadFails \/ Load \/ Visit
  PROVE  /\ at \in {"load", "visit"}
         /\ UNCHANGED <<doc, calls, dir, job, ran, astray>>
         /\ at' \in {"visit", "make"} \/ (at' = "exit" /\ code' # 0)
PROOF
  <1>1. CASE LoadFails
    BY <1>1 DEF LoadFails, Exit, runVars
  <1>2. CASE Load
    <2>1. at = "load" /\ UNCHANGED <<doc, calls, dir, job, ran, astray>>
      BY <1>2, Zenon DEF Load, runVars
    <2>2. at' \in {"visit", "make"} \/ (at' = "exit" /\ code' = 254)
      BY <1>2, Zenon DEF Load, Exit
    <2> QED  BY <2>1, <2>2
  <1>3. CASE Visit
    <2>1. at = "visit" /\ UNCHANGED <<doc, calls, dir, job, ran, astray>>
      BY <1>3, Zenon DEF Visit, runVars
    <2>2. at' \in {"visit", "make"} \/ (at' = "exit" /\ code' = 246)
      BY <1>3, <2>1, Zenon DEF Visit, Exit
    <2> QED  BY <2>1, <2>2
  <1> QED  BY <1>1, <1>2, <1>3

\* Nothing has been called yet: most of the invariant says nothing.
LEMMA NotBegun ==
  ASSUME calls = <<>>, ran = <<>>
  PROVE  /\ ~Begun /\ ~Broken /\ \A t : ~Succeeded(t)
         /\ CallsMade /\ CallsNeeded /\ DepsFirst
PROOF
  <1>1. DOMAIN calls = {} /\ DOMAIN ran = {}
    OBVIOUS
  <1>2. \A t : ~Succeeded(t)
    BY <1>1 DEF Succeeded
  <1> QED  BY <1>1, <1>2 DEF Begun, Broken, CallsMade, CallsNeeded, DepsFirst

LEMMA NotBegunNext ==
  ASSUME calls' = <<>>, ran' = <<>>
  PROVE  /\ ~Begun' /\ ~Broken' /\ \A t : ~Succeeded(t)'
         /\ CallsMade' /\ CallsNeeded' /\ DepsFirst'
PROOF
  <1>1. DOMAIN calls' = {} /\ DOMAIN ran' = {}
    OBVIOUS
  <1>2. ASSUME NEW t PROVE ~Succeeded(t)'
    BY <1>1 DEF Succeeded
  <1> QED  BY <1>1, <1>2 DEF Begun, Broken, CallsMade, CallsNeeded, DepsFirst

LEMMA EmptySeqs ==
  ASSUME NEW S
  PROVE  <<>> \in Seq(S)
  OBVIOUS

LEMMA InitRunInv ==
  ASSUME BuilderInit
  PROVE  RunInv
PROOF
  <1>1. doc \in Docs /\ at = "load" /\ calls = <<>> /\ ran = <<>> /\ dir = StartDir
    BY DEF BuilderInit
  <1>2. RunType
    BY <1>1, NotBegun, EmptySeqs DEF RunType
  <1> QED  BY <1>1, <1>2, NotBegun DEF RunInv, DoneOnce, JobRuns, ExitWhy

LEMMA ReaderKeeps ==
  ASSUME RunInv, LoadFails \/ Load \/ Visit
  PROVE  RunInv'
PROOF
  <1>1. /\ at \in {"load", "visit"} /\ UNCHANGED <<doc, calls, dir, job, ran, astray>>
        /\ at' \in {"visit", "make"} \/ (at' = "exit" /\ code' # 0)
    BY ReaderStep
  <1>2. doc \in Docs /\ calls = <<>> /\ ran = <<>> /\ (~astray => dir = StartDir)
    BY <1>1 DEF RunInv, RunType
  <1>3. calls' = <<>> /\ ran' = <<>> /\ (~astray' => dir' = StartDir) /\ doc' \in Docs
    BY <1>1, <1>2
  <1>4. RunType'
    BY <1>1, <1>3, NotBegunNext, EmptySeqs DEF RunType
  <1> QED  BY <1>1, <1>3, <1>4, NotBegunNext DEF RunInv, DoneOnce, JobRuns, ExitWhy

LEMMA MakeKeeps ==
  ASSUME RunInv, GathersTasks, Make
  PROVE  RunInv'
PROOF
  <1>1. /\ at = "make" /\ doc' = doc /\ ran' = ran /\ tasks' = tasks /\ dir' = dir
        /\ doc \in Docs /\ calls = <<>> /\ ran = <<>> /\ astray' = astray /\ (~astray => dir = StartDir)
    BY DEF Make, RunInv, RunType, readVars
  <1>2. CASE Labelled(tasks, doc.target) = {} /\ Exit(0) /\ calls' = calls
    <2>1. at' = "exit" /\ calls' = <<>> /\ ran' = <<>> /\ (~astray' => dir' = StartDir) /\ doc' \in Docs
      BY <1>1, <1>2 DEF Exit
    <2>2. RunType'
      BY <2>1, NotBegunNext, EmptySeqs DEF RunType
    <2>3. ~(Readable(doc.text) /\ doc.target \in Labels(doc))
      <3> SUFFICES ASSUME Readable(doc.text), doc.target \in Labels(doc)
                   PROVE  FALSE
        OBVIOUS
      <3>1. AsMeant
        BY <1>1 DEF GathersTasks
      <3>2. PICK k \in Index : LabelOf(k) = doc.target
        BY DEF Labels, Index, LabelOf
      <3>3. k \in DOMAIN tasks /\ tasks[k].label = LabelOf(k)
        BY <1>1, <3>1, CalleesMeant DEF AsMeant, LabelOf
      <3> QED  BY <1>2, <3>2, <3>3 DEF Labelled
    <2>4. ExitWhy'
      BY <1>1, <2>3 DEF ExitWhy, Labels
    <2> QED  BY <2>1, <2>2, <2>4, NotBegunNext DEF RunInv, DoneOnce, JobRuns
  <1>3. CASE \E t \in Labelled(tasks, doc.target) :
               at' = "depends" /\ calls' = <<Frame(t)>> /\ UNCHANGED code
    <2>1. PICK t \in Labelled(tasks, doc.target) : at' = "depends" /\ calls' = <<Frame(t)>>
      BY <1>3
    <2>2. AsMeant /\ \A k \in DOMAIN tasks : ~tasks[k].done
      BY <1>1, <2>1 DEF GathersTasks
    <2>3. t \in Index /\ LabelOf(t) = doc.target /\ Callees(tasks, t) = Callees(doc.tasks, t)
          /\ DOMAIN tasks = Index
      BY <1>1, <2>1, <2>2, CalleesMeant DEF Labelled, AsMeant, LabelOf
    <2>4. PICK f : f = Frame(t)
      OBVIOUS
    <2>5. f \in FrameType /\ f.task = t /\ f.todo = Callees(doc.tasks, t)
      BY <1>1, <2>3, <2>4, CalleeType DEF Frame, FrameType
    <2>6. calls' = <<f>> /\ Len(calls') = 1 /\ DOMAIN calls' = {1} /\ calls'[1] = f
          /\ calls' # <<>>
      BY <2>1, <2>4
    <2>7. calls' \in Seq(FrameType)
      BY <2>5, <2>6
    <2>8. FrameType' = FrameType /\ Index' = Index
      BY <1>1, DocFixed DEF FrameType
    <2>9. AsMeant'
      BY <1>1, <2>2 DEF AsMeant
    <2>10. ran' = <<>> /\ ran' \in Seq(Index' \X Outcome)
      BY <1>1, EmptySeqs
    <2>11. RunType'
      BY <1>1, <2>1, <2>6, <2>7, <2>8, <2>9, <2>10 DEF RunType
    <2>12. ~Broken' /\ \A u : ~Succeeded(u)'
      <3>1. ~Broken /\ \A u : ~Succeeded(u)
        BY <1>1, NotBegun
      <3> QED  BY <1>1, <3>1, RanSame
    <2>13. DoneOnce'
      BY <1>1, <2>2, <2>3, <2>8, <2>12 DEF DoneOnce
    <2>14. CallsMade'
      BY <1>1, <2>5, <2>6 DEF CallsMade
    <2>15. JobRuns' /\ ExitWhy'
      BY <2>1 DEF JobRuns, ExitWhy
    <2>16. CallsNeeded'
      <3>1. DOMAIN ran' = {}
        BY <2>10
      <3>2. Needed(LabelOf(t))
        BY <2>3, NeededTarget
      <3> QED  BY <1>1, <2>3, <2>5, <2>6, <3>1, <3>2, DocFixed DEF CallsNeeded, LabelOf
    <2>17. DepsFirst'
      BY <2>12 DEF DepsFirst
    <2> QED  BY <2>11, <2>13, <2>14, <2>15, <2>16, <2>17 DEF RunInv
  <1> QED  BY <1>2, <1>3 DEF Make

\* Parts that only the variables of the runner decide.
LEMMA SameNeeded ==
  ASSUME CallsNeeded, doc' = doc, calls' = calls, ran' = ran
  PROVE  CallsNeeded'
  BY DocFixed DEF CallsNeeded, LabelOf

LEMMA SameDeps ==
  ASSUME DepsFirst, doc' = doc, ran' = ran
  PROVE  DepsFirst'
  BY DocFixed, RanSame DEF DepsFirst

LEMMA SameCalls ==
  ASSUME CallsMade, doc' = doc, calls' = calls, \A u : Succeeded(u) => Succeeded(u)'
  PROVE  CallsMade'
PROOF
  <1> SUFFICES ASSUME NEW i \in DOMAIN calls
               PROVE  /\ calls[i].todo \subseteq Callees(doc.tasks, calls[i].task)
                      /\ \A p \in Callees(doc.tasks, calls[i].task) \ calls[i].todo :
                           /\ p[2] # calls[i].task
                           /\ Succeeded(p[2])' \/ (i < Len(calls) /\ p[2] = calls[i + 1].task)
    BY DEF CallsMade
  <1>1. /\ calls[i].todo \subseteq Callees(doc.tasks, calls[i].task)
        /\ \A p \in Callees(doc.tasks, calls[i].task) \ calls[i].todo :
             /\ p[2] # calls[i].task
             /\ Succeeded(p[2]) \/ (i < Len(calls) /\ p[2] = calls[i + 1].task)
    BY DEF CallsMade
  <1> QED  BY <1>1

LEMMA SameMeant ==
  ASSUME AsMeant, doc' = doc, tasks' = tasks
  PROVE  AsMeant'
  BY DEF AsMeant

\* The process ends where it is.
LEMMA HaltKeeps ==
  ASSUME RunInv, at = "depends", at' \in {"exit", "crash"},
         UNCHANGED <<doc, tasks, calls, dir, ran, astray>>
  PROVE  RunType' /\ DoneOnce' /\ CallsMade' /\ JobRuns' /\ CallsNeeded' /\ DepsFirst'
PROOF
  <1>1. RunType /\ DoneOnce /\ CallsMade /\ CallsNeeded /\ DepsFirst /\ AsMeant
    BY DEF RunInv, RunType, Begun
  <1>2. FrameType' = FrameType /\ Index' = Index
    BY DocFixed DEF FrameType
  <1>3. RunType'
    BY <1>1, <1>2, SameMeant DEF RunType
  <1>4. ~Broken
    BY <1>1 DEF DoneOnce
  <1>5. Begun
    BY <1>1 DEF RunType, Begun
  <1>6. DoneOnce'
    BY <1>1, <1>2, <1>4, <1>5, RanSame DEF DoneOnce
  <1>7. CallsMade'
    BY <1>1, SameCalls, RanSame
  <1> QED  BY <1>1, <1>3, <1>6, <1>7, SameNeeded, SameDeps DEF JobRuns

LEMMA DependKeeps ==
  ASSUME RunInv, Depend
  PROVE  RunInv'
PROOF
  <1> DEFINE n == Len(calls)
             t == Last(calls).task
  <1>1. /\ at = "depends" /\ UNCHANGED <<doc, tasks, dir, job, ran, astray>>
        /\ RunType /\ calls # <<>> /\ AsMeant /\ doc \in Docs /\ (~astray => dir = StartDir)
    BY DEF Depend, RunInv, RunType, Begun, readVars
  <1>2. PICK p \in Last(calls).todo :
          IF p[2] = t THEN Exit(0) /\ calls' = calls
          ELSE IF Len(calls) = MaxCalls THEN at' = "crash" /\ UNCHANGED <<code, calls>>
          ELSE calls' = Called(p) /\ UNCHANGED <<at, code>>
    BY DEF Depend
  <1>3. /\ n \in Nat \ {0} /\ DOMAIN calls = 1..n /\ n \in DOMAIN calls
        /\ Last(calls) = calls[n] /\ t \in Index
    BY <1>1, LastFrame
  <1>4. p \in Callees(doc.tasks, t)
    BY <1>2, <1>3 DEF RunInv, CallsMade
  <1>5. p[2] \in Index /\ LabelOf(p[2]) \in Graph[LabelOf(t)]
    BY <1>1, <1>3, <1>4, CalleeType
  <1>6. Needed(LabelOf(t))
    BY <1>3 DEF RunInv, CallsNeeded
  <1>7. CASE p[2] = t
    <2>1. at' = "exit" /\ calls' = calls
      BY <1>2, <1>7 DEF Exit
    <2>2. RunType' /\ DoneOnce' /\ CallsMade' /\ JobRuns' /\ CallsNeeded' /\ DepsFirst'
      BY <1>1, <2>1, HaltKeeps
    <2>3. LabelOf(t) \in Labels(doc)
      BY <1>3 DEF LabelOf, Labels, Index
    <2>4. \E l \in Labels(doc) : Needed(l) /\ l \in Graph[l]
      BY <1>5, <1>6, <1>7, <2>3
    <2>5. \E l \in Labels(doc)' : Needed(l)' /\ l \in Graph[l]'
      BY <1>1, <2>4, DocFixed
    <2>6. ExitWhy'
      BY <2>5 DEF ExitWhy
    <2> QED  BY <2>2, <2>6 DEF RunInv
  <1>8. CASE p[2] # t /\ Len(calls) = MaxCalls
    <2>1. at' = "crash" /\ calls' = calls
      BY <1>2, <1>8
    <2>2. RunType' /\ DoneOnce' /\ CallsMade' /\ JobRuns' /\ CallsNeeded' /\ DepsFirst'
      BY <1>1, <2>1, HaltKeeps
    <2> QED  BY <2>1, <2>2 DEF RunInv, ExitWhy
  <1>9. CASE p[2] # t /\ Len(calls) # MaxCalls
    <2>1. at' = "depends" /\ calls' = Called(p)
      BY <1>1, <1>2, <1>9
    <2>2. Callees(tasks, p[2]) = Callees(doc.tasks, p[2])
          /\ Callees(doc.tasks, p[2]) \in SUBSET (Nat \X Nat)
      BY <1>1, <1>5, CalleesMeant, CalleeType
    <2>3. /\ calls' \in Seq(FrameType)
          /\ Len(calls') = n + 1 /\ DOMAIN calls' = 1..n + 1
          /\ \A i \in 1..n : calls'[i].task = calls[i].task
          /\ \A i \in 1..n - 1 : calls'[i] = calls[i]
          /\ calls'[n].todo = calls[n].todo \ {p}
          /\ calls'[n + 1].task = p[2]
          /\ calls'[n + 1].todo = Callees(doc.tasks, p[2])
      BY <1>1, <1>3, <1>5, <2>1, <2>2, CalledIs
    <2>4. calls' # <<>>
      BY <2>3, <1>3
    <2>5. FrameType' = FrameType /\ Index' = Index
      BY <1>1, DocFixed DEF FrameType
    <2>6. RunType'
      BY <1>1, <2>1, <2>3, <2>4, <2>5, SameMeant DEF RunType
    <2>7. DoneOnce'
      BY <1>1, <2>1, <2>5, RanSame DEF RunInv, DoneOnce, Begun
    <2>8. CallsMade'
      <3> SUFFICES ASSUME NEW i \in 1..n + 1
                   PROVE  /\ calls'[i].todo \subseteq Callees(doc.tasks, calls'[i].task)
                          /\ \A q \in Callees(doc.tasks, calls'[i].task) \ calls'[i].todo :
                               /\ q[2] # calls'[i].task
                               /\ Succeeded(q[2])' \/ (i < Len(calls') /\ q[2] = calls'[i + 1].task)
        BY <1>1, <2>3 DEF CallsMade
      <3>1. CASE i = n + 1
        BY <3>1, <2>3
      <3>2. CASE i # n + 1
        <4>1. i \in 1..n /\ i < n + 1 /\ calls'[i].task = calls[i].task
          BY <3>2, <2>3, <1>3
        <4>2. /\ calls[i].todo \subseteq Callees(doc.tasks, calls[i].task)
              /\ \A q \in Callees(doc.tasks, calls[i].task) \ calls[i].todo :
                   /\ q[2] # calls[i].task
                   /\ Succeeded(q[2]) \/ (i < n /\ q[2] = calls[i + 1].task)
          BY <4>1, <1>3 DEF RunInv, CallsMade
        <4>3. \A u : Succeeded(u) => Succeeded(u)'
          BY <1>1, RanSame
        <4>4. CASE i = n
          <5>1. /\ calls'[i].todo = calls[i].todo \ {p} /\ calls'[i + 1].task = p[2]
                /\ p[2] # calls[i].task /\ i < Len(calls')
            BY <4>1, <4>4, <2>3, <1>3, <1>9
          <5>2. \A q \in Callees(doc.tasks, calls[i].task) \ calls[i].todo : Succeeded(q[2])
            BY <4>2, <4>4, <1>3
          <5> QED  BY <4>1, <4>2, <4>3, <5>1, <5>2
        <4>5. CASE i # n
          <5>1. n \in Nat /\ i \in 1..n
            BY <4>1, <1>3
          <5>2. i \in 1..n - 1 /\ i + 1 \in 1..n
            BY <4>5, <5>1
          <5>3. calls'[i] = calls[i] /\ calls'[i + 1].task = calls[i + 1].task
            BY <5>2, <2>3
          <5> QED  BY <4>1, <4>2, <4>3, <5>3, <2>3
        <4> QED  BY <4>4, <4>5
      <3> QED  BY <3>1, <3>2
    <2>9. CallsNeeded'
      <3>1. Needed(LabelOf(p[2]))
        BY <1>1, <1>3, <1>4, <1>6, NeededCallee
      <3>2. ASSUME NEW i \in 1..n + 1 PROVE Needed(LabelOf(calls'[i].task))
        <4>1. CASE i = n + 1
          BY <4>1, <3>1, <2>3
        <4>2. CASE i # n + 1
          <5>1. i \in DOMAIN calls /\ calls'[i].task = calls[i].task
            BY <4>2, <2>3, <1>3
          <5> QED  BY <5>1 DEF RunInv, CallsNeeded
        <4> QED  BY <4>1, <4>2
      <3>3. LabelOf(calls'[1].task) = doc.target
        <4>1. calls'[1].task = calls[1].task
          BY <2>3, <1>3
        <4> QED  BY <4>1, <1>1 DEF RunInv, CallsNeeded
      <3>4. \A k \in DOMAIN ran : Needed(LabelOf(ran[k][1]))
        BY DEF RunInv, CallsNeeded
      <3> QED  BY <3>2, <3>3, <3>4, <2>3, <1>1, DocFixed DEF CallsNeeded, LabelOf
    <2>10. DepsFirst'
      BY <1>1, SameDeps DEF RunInv
    <2>11. JobRuns' /\ ExitWhy'
      BY <2>1 DEF JobRuns, ExitWhy
    <2> QED  BY <2>6, <2>7, <2>8, <2>9, <2>10, <2>11 DEF RunInv
  <1> QED  BY <1>7, <1>8, <1>9

LEMMA ExecDoneKeeps ==
  ASSUME RunInv, ExecDone
  PROVE  RunInv'
PROOF
  <1>1. /\ at = "depends" /\ UNCHANGED <<doc, tasks, dir, job, ran, astray>> /\ Returns
        /\ RunType /\ calls # <<>> /\ Begun /\ AsMeant /\ doc \in Docs /\ (~astray => dir = StartDir)
    BY DEF ExecDone, Ready, RunInv, RunType, Begun, readVars
  <1>2. PICK t \in Index : t = Last(calls).task
    BY <1>1, LastFrame
  <1>3. ~Broken /\ Succeeded(t)
    BY <1>1, <1>2 DEF RunInv, DoneOnce, ExecDone
  <1>4. Succeeded(t)' /\ ~Broken' /\ \A u : Succeeded(u) <=> Succeeded(u)'
    BY <1>1, <1>3, RanSame
  <1>5. /\ calls' \in Seq(FrameType')
        /\ at' = "depends" => calls' # <<>>
        /\ at' \in {"depends", "exit"}
        /\ CallsMade' /\ ExitWhy'
        /\ \A i \in DOMAIN calls' : Needed(LabelOf(calls'[i].task))
        /\ calls' # <<>> => LabelOf(calls'[1].task) = doc.target
    BY <1>1, <1>2, <1>4, ReturnsKeeps
  <1>6. Index' = Index
    BY <1>1, DocFixed
  <1>7. RunType'
    BY <1>1, <1>5, <1>6, SameMeant DEF RunType
  <1>8. DoneOnce'
    BY <1>1, <1>3, <1>4, <1>6 DEF RunInv, DoneOnce
  <1>9. CallsNeeded'
    <2>1. \A k \in DOMAIN ran : Needed(LabelOf(ran[k][1]))
      BY DEF RunInv, CallsNeeded
    <2> QED  BY <1>1, <1>5, <2>1, DocFixed DEF CallsNeeded, LabelOf
  <1>10. DepsFirst'
    BY <1>1, SameDeps DEF RunInv
  <1>11. JobRuns'
    BY <1>5 DEF JobRuns
  <1> QED  BY <1>5, <1>7, <1>8, <1>9, <1>10, <1>11 DEF RunInv

\* Setting done leaves the rest of the list as it is.
LEMMA DoneIs ==
  ASSUME AsMeant, doc \in Docs, doc' = doc, NEW t \in Index, tasks' = Done(t)
  PROVE  /\ AsMeant'
         /\ tasks'[t].done
         /\ \A u \in Index : u # t => tasks'[u] = tasks[u]
PROOF
  <1>1. tasks \in Seq(Task) /\ DOMAIN tasks = Index
    BY CalleesMeant DEF AsMeant
  <1>2. DOMAIN tasks = 1..Len(tasks) /\ Len(tasks) \in Nat
    BY <1>1, LenProperties
  <1>3. \A u \in Index : tasks[u] \in Task
    BY <1>1, <1>2, ElementOfSeq
  <1> DEFINE g == [tasks[t] EXCEPT !.done = TRUE]
  <1>4. /\ g \in Task /\ g.done = TRUE /\ g.label = tasks[t].label
        /\ g.command = tasks[t].command /\ g.cwd = tasks[t].cwd /\ g.args = tasks[t].args
        /\ g.dependsOn = tasks[t].dependsOn
    BY <1>3 DEF Task
  <1>5. tasks' = [tasks EXCEPT ![t] = g]
    BY DEF Done
  <1> HIDE DEF g
  <1>6. /\ DOMAIN tasks' = Index /\ tasks'[t] = g
        /\ \A u \in Index : u # t => tasks'[u] = tasks[u]
    BY <1>1, <1>5
  <1>7. tasks' \in [1..Len(tasks) -> Task]
    <2>1. tasks \in [1..Len(tasks) -> Task]
      BY <1>1, <1>2, <1>3
    <2> QED  BY <2>1, <1>4, <1>5
  <1>8. tasks' \in Seq(Task) /\ Len(tasks') = Len(tasks)
    <2>1. PICK m \in Nat : m = Len(tasks)
      BY <1>2
    <2>2. \A q : q \in [1..m -> Task] => q \in Seq(Task) /\ Len(q) = m
      OBVIOUS
    <2> QED  BY <1>7, <2>1, <2>2
  <1>9. AsMeant'
    <2> SUFFICES ASSUME NEW k \in Index
                 PROVE  /\ tasks'[k].label = doc.tasks[k].label
                        /\ tasks'[k].command = doc.tasks[k].command
                        /\ tasks'[k].cwd = doc.tasks[k].cwd /\ tasks'[k].args = doc.tasks[k].args
                        /\ tasks'[k].dependsOn = doc.tasks[k].dependsOn
      BY <1>6, <1>8 DEF AsMeant
    <2> QED  BY <1>1, <1>4, <1>6 DEF AsMeant
  <1> QED  BY <1>4, <1>6, <1>9

LEMMA ExecKeeps ==
  ASSUME RunInv, Exec
  PROVE  RunInv'
PROOF
  <1>1. /\ at = "depends" /\ Last(calls).todo = {} /\ UNCHANGED <<doc, calls, ran>> /\ at' = "run"
        /\ RunType /\ calls # <<>> /\ Begun /\ AsMeant /\ doc \in Docs /\ (~astray => dir = StartDir)
    BY DEF Exec, Ready, RunInv, RunType, Begun
  <1>2. PICK t \in Index : t = Last(calls).task
    BY <1>1, LastFrame
  <1>3. /\ ~tasks[t].done
        /\ IF tasks[t].cwd = "" THEN UNCHANGED <<dir, astray>> ELSE Chdir(Append(dir, tasks[t].cwd))
        /\ job' = [task |-> t, command |-> tasks[t].command, args |-> tasks[t].args,
                   dir |-> dir', old |-> dir]
        /\ tasks' = Done(t)
    BY <1>2 DEF Exec
  <1>4. AsMeant' /\ tasks'[t].done /\ \A u \in Index : u # t => tasks'[u] = tasks[u]
    BY <1>1, <1>3, DoneIs
  <1>5. FrameType' = FrameType /\ Index' = Index
    BY <1>1, DocFixed DEF FrameType
  <1>6. RunType'
    BY <1>1, <1>4, <1>5 DEF RunType
  <1>7. ~Broken /\ ~Broken' /\ \A u : Succeeded(u) <=> Succeeded(u)'
    BY <1>1, RanSame DEF RunInv, DoneOnce
  <1>8. DoneOnce'
    <2> SUFFICES ASSUME NEW u \in Index
                 PROVE  /\ Succeeded(u) => tasks'[u].done
                        /\ tasks'[u].done => Succeeded(u) \/ u = job'.task
      BY <1>1, <1>5, <1>7 DEF DoneOnce
    <2>1. CASE u = t
      BY <2>1, <1>3, <1>4
    <2>2. CASE u # t
      <3>1. /\ Succeeded(u) => tasks[u].done
            /\ tasks[u].done => Succeeded(u)
        BY <1>1, <1>7 DEF RunInv, DoneOnce
      <3> QED  BY <2>2, <1>4, <3>1
    <2> QED  BY <2>1, <2>2
  <1>9. CallsMade'
    BY <1>1, <1>7, SameCalls DEF RunInv
  <1>10. JobRuns'
    <2>1. /\ job'.task = t /\ job'.command = tasks[t].command /\ job'.args = tasks[t].args
          /\ job'.dir = dir' /\ job'.old = dir
      BY <1>3
    <2>2. /\ tasks[t].command = doc.tasks[t].command /\ tasks[t].args = doc.tasks[t].args
          /\ tasks[t].cwd = doc.tasks[t].cwd
      BY <1>1, CalleesMeant DEF AsMeant
    <2>3. ~Succeeded(t)'
      BY <1>1, <1>3, <1>7 DEF RunInv, DoneOnce
    <2>4. Append(StartDir, tasks[t].cwd) = <<tasks[t].cwd>>
      BY DEF StartDir
    <2>5. ~astray' => /\ dir = StartDir
                      /\ dir' = (IF tasks[t].cwd = "" THEN StartDir ELSE <<tasks[t].cwd>>)
      <3> SUFFICES ASSUME ~astray'
                   PROVE  /\ dir = StartDir
                          /\ dir' = (IF tasks[t].cwd = "" THEN StartDir ELSE <<tasks[t].cwd>>)
        OBVIOUS
      <3>1. astray' = astray /\ dir' = (IF tasks[t].cwd = "" THEN dir ELSE Append(dir, tasks[t].cwd))
        BY <1>3 DEF Chdir
      <3> QED  BY <1>1, <2>4, <3>1
    <2> QED  BY <1>1, <1>2, <1>4, <2>1, <2>2, <2>3, <2>5 DEF JobRuns, StartDir
  <1>11. CallsNeeded' /\ DepsFirst'
    BY <1>1, SameNeeded, SameDeps DEF RunInv
  <1>12. ExitWhy'
    BY <1>1 DEF ExitWhy
  <1> QED  BY <1>6, <1>8, <1>9, <1>10, <1>11, <1>12 DEF RunInv

\* The end of a command, with the result that _spawnvp reports.
LEMMA EndKeeps ==
  ASSUME RunInv, at = "run", NEW r \in Outcome,
         ran' = Append(ran, <<job.task, r>>), Chdir(job.old), UNCHANGED <<doc, tasks>>,
         IF r # "bad" THEN Returns ELSE Exit(0) /\ calls' = calls
  PROVE  RunInv'
PROOF
  <1>1. RunType /\ calls # <<>> /\ Begun /\ AsMeant /\ doc \in Docs /\ ~Broken
    BY DEF RunInv, RunType, Begun, DoneOnce
  <1>2. PICK t \in Index : t = Last(calls).task
    BY <1>1, LastFrame
  <1>3. job.task = t /\ Last(calls).todo = {} /\ tasks[t].done
    BY <1>2 DEF RunInv, JobRuns
  <1>4. /\ ran' \in Seq(Index \X Outcome) /\ ran' # <<>>
        /\ Broken' <=> r = "bad"
        /\ \A u : Succeeded(u)' <=> Succeeded(u) \/ (u = t /\ r # "bad")
        /\ DOMAIN ran' = DOMAIN ran \cup {Len(ran) + 1}
        /\ \A k \in DOMAIN ran : ran'[k] = ran[k]
        /\ ran'[Len(ran) + 1] = <<t, r>>
    BY <1>1, <1>3, RanMore
  <1>5. Index' = Index /\ FrameType' = FrameType
    BY DocFixed DEF FrameType
  <1>6. /\ calls' \in Seq(FrameType')
        /\ at' = "depends" => calls' # <<>>
        /\ at' \in {"depends", "exit"}
        /\ Broken' => at' = "exit"
        /\ CallsMade' /\ ExitWhy'
        /\ \A i \in DOMAIN calls' : Needed(LabelOf(calls'[i].task))
        /\ calls' # <<>> => LabelOf(calls'[1].task) = doc.target
    <2>1. CASE r # "bad"
      <3>1. Succeeded(t)' /\ Returns /\ ~Broken' /\ \A u : Succeeded(u) => Succeeded(u)'
        BY <1>4, <2>1
      <3> QED  BY <1>1, <1>2, <3>1, ReturnsKeeps
    <2>2. CASE r = "bad"
      <3>1. at' = "exit" /\ calls' = calls /\ Broken'
        BY <1>4, <2>2 DEF Exit
      <3>2. CallsMade'
        BY <1>4, <3>1, SameCalls DEF RunInv
      <3>3. ExitWhy'
        BY <3>1 DEF ExitWhy
      <3> QED  BY <1>1, <1>5, <3>1, <3>2, <3>3 DEF RunInv, RunType, CallsNeeded
    <2> QED  BY <2>1, <2>2
  <1>7. RunType'
    <2>1. ~astray' => dir' = StartDir
      BY DEF Chdir, RunInv, JobRuns
    <2> QED  BY <1>1, <1>4, <1>5, <1>6, <2>1, SameMeant DEF RunType
  <1>8. DoneOnce'
    <2> SUFFICES ASSUME NEW u \in Index
                 PROVE  /\ Succeeded(u)' => tasks[u].done
                        /\ tasks[u].done => Succeeded(u)' \/ Broken'
      BY <1>5, <1>6 DEF DoneOnce
    <2>1. /\ Succeeded(u) => tasks[u].done
          /\ tasks[u].done => Succeeded(u) \/ u = t
      BY <1>1, <1>3 DEF RunInv, DoneOnce
    <2> QED  BY <1>3, <1>4, <2>1
  <1>9. JobRuns'
    BY <1>6 DEF JobRuns
  <1>10. CallsNeeded'
    <2>1. Needed(LabelOf(t))
      <3>1. Len(calls) \in DOMAIN calls /\ Last(calls) = calls[Len(calls)]
        BY <1>1, LastFrame
      <3> QED  BY <1>2, <3>1 DEF RunInv, CallsNeeded
    <2>2. ASSUME NEW k \in DOMAIN ran' PROVE Needed(LabelOf(ran'[k][1]))
      <3>1. CASE k \in DOMAIN ran
        BY <3>1, <1>4 DEF RunInv, CallsNeeded
      <3>2. CASE k = Len(ran) + 1
        BY <3>2, <1>4, <2>1
      <3> QED  BY <3>1, <3>2, <1>4
    <2> QED  BY <1>6, <2>2, DocFixed DEF CallsNeeded, LabelOf
  <1>11. DepsFirst'
    <2> SUFFICES ASSUME NEW u \in Index, Succeeded(u)', NEW p \in Callees(doc.tasks, u)
                 PROVE  Succeeded(p[2])'
      BY <1>5 DEF DepsFirst
    <2>1. CASE Succeeded(u)
      BY <2>1, <1>4 DEF RunInv, DepsFirst
    <2>2. CASE u = t
      <3>1. /\ Len(calls) \in DOMAIN calls /\ Last(calls) = calls[Len(calls)]
            /\ ~(Len(calls) < Len(calls))
        BY <1>1, LastFrame
      <3>2. Succeeded(p[2])
        BY <1>2, <1>3, <2>2, <3>1 DEF RunInv, CallsMade
      <3> QED  BY <1>4, <3>2
    <2> QED  BY <2>1, <2>2, <1>4
  <1> QED  BY <1>6, <1>7, <1>8, <1>9, <1>10, <1>11 DEF RunInv

LEMMA StutterKeeps ==
  ASSUME RunInv, UNCHANGED vars
  PROVE  RunInv'
PROOF
  <1>1. UNCHANGED <<doc, at, code, tasks, calls, dir, job, ran, astray>>
    BY DEF vars
  <1>2. RunType /\ DoneOnce /\ CallsMade /\ JobRuns /\ CallsNeeded /\ DepsFirst /\ ExitWhy
    BY DEF RunInv
  <1>3. /\ Index' = Index /\ FrameType' = FrameType /\ Labels(doc)' = Labels(doc) /\ Graph' = Graph
        /\ \A l : Needed(l)' <=> Needed(l)
        /\ \A t : LabelOf(t)' = LabelOf(t)
    BY <1>1, DocFixed DEF FrameType
  <1>4. Broken' <=> Broken
    BY <1>1, RanSame
  <1>5. \A t : Succeeded(t)' <=> Succeeded(t)
    BY <1>1, RanSame
  <1>6. Begun' <=> Begun
    BY <1>1 DEF Begun
  <1>7. AsMeant' <=> AsMeant
    BY <1>1 DEF AsMeant
  <1>8. RunType'
    BY <1>1, <1>2, <1>3, <1>6, <1>7 DEF RunType
  <1>9. DoneOnce'
    BY <1>1, <1>2, <1>3, <1>4, <1>5, <1>6 DEF DoneOnce
  <1>10. JobRuns'
    BY <1>1, <1>2 DEF JobRuns, Succeeded
  <1>11. CallsMade' /\ CallsNeeded' /\ DepsFirst'
    BY <1>1, <1>2, <1>5, SameCalls, SameNeeded, SameDeps
  <1>12. ExitWhy'
    BY <1>1, <1>2, <1>3, <1>4, <1>5 DEF ExitWhy
  <1> QED  BY <1>8, <1>9, <1>10, <1>11, <1>12 DEF RunInv

LEMMA StepKeeps ==
  RunInv /\ GathersTasks /\ [BuilderNext]_vars => RunInv'
PROOF
  <1> SUFFICES ASSUME RunInv, GathersTasks, [BuilderNext]_vars
               PROVE  RunInv'
    OBVIOUS
  <1>1. CASE LoadFails \/ Load \/ Visit
    BY <1>1, ReaderKeeps
  <1>2. CASE Make
    BY <1>2, MakeKeeps
  <1>3. CASE Depend
    BY <1>3, DependKeeps
  <1>4. CASE ExecDone
    BY <1>4, ExecDoneKeeps
  <1>5. CASE Exec
    BY <1>5, ExecKeeps
  <1>6. CASE CommandEnds("ok")
    BY <1>6, EndKeeps DEF CommandEnds, readVars, Outcome
  <1>7. CASE CommandEnds("bad")
    BY <1>7, EndKeeps DEF CommandEnds, readVars, Outcome
  <1>8. CASE SpawnFails
    BY <1>8, EndKeeps DEF SpawnFails, readVars, Outcome
  <1>9. CASE UNCHANGED vars
    BY <1>9, StutterKeeps
  <1> QED  BY <1>1, <1>2, <1>3, <1>4, <1>5, <1>6, <1>7, <1>8, <1>9 DEF BuilderNext, BuilderStep, Stopped

LEMMA RunInvAlways ==
  BuilderSafety /\ []GathersTasks => []RunInv
  BY InitRunInv, StepKeeps, PTL DEF BuilderSafety

-----------------------------------------------------------------------------
(* The theorems.                                                           *)

\* The command that runs has the command line that the file gives its task,
\* whatever ran before it and whichever system calls fail; and it has the
\* directory as long as no chdir has failed (bld__exec restores the directory
\* on both of its paths).
THEOREM RunsAsWrittenThm ==
  BuilderSafety /\ []GathersTasks => []RunsAsWritten
PROOF
  <1>1. RunInv => RunsAsWritten
    <2> SUFFICES ASSUME RunInv, at = "run"
                 PROVE  RunsAsWritten
      BY DEF RunsAsWritten
    <2>1. RunType /\ calls # <<>> /\ AsMeant /\ doc \in Docs
      BY DEF RunInv, RunType, Begun
    <2>2. job.task \in Index
      BY <2>1, LastFrame DEF RunInv, JobRuns
    <2>3. tasks[job.task].label = doc.tasks[job.task].label
      BY <2>1, <2>2, CalleesMeant DEF AsMeant
    <2> QED  BY <2>2, <2>3 DEF RunInv, JobRuns, RunsAsWritten, Index
  <1> QED  BY <1>1, RunInvAlways, PTL

LEMMA RanIndex ==
  ASSUME RunType
  PROVE  \A n \in DOMAIN ran : ran[n][1] \in Index
PROOF
  <1> DEFINE S == Index \X Outcome
  <1>1. ran \in Seq(S)
    BY DEF RunType
  <1>2. ASSUME NEW e \in S PROVE e[1] \in Index
    OBVIOUS
  <1> HIDE DEF S
  <1>3. \A n \in DOMAIN ran : ran[n] \in S
    BY <1>1, ElementOfSeq, LenProperties
  <1> QED  BY <1>2, <1>3

\* What BuildContract sees of ran, by task.
LEMMA ResultsAre ==
  ASSUME RunType
  PROVE  /\ \A l : l \in Results({"ok", "lost"}) <=>
                     \E t \in Index : Succeeded(t) /\ LabelOf(t) = l
         /\ Results({"bad"}) = {} <=> ~Broken
PROOF
  <1>1. \A n \in DOMAIN ran : ran[n][1] \in Index
    BY RanIndex
  <1>2. ASSUME NEW n \in DOMAIN ran
        PROVE  tasks[ran[n][1]].label = LabelOf(ran[n][1])
    <2>1. AsMeant /\ doc \in Docs
      BY DEF RunType, Begun
    <2> QED  BY <1>1, <2>1, CalleesMeant DEF AsMeant, LabelOf
  <1>3. ASSUME NEW l
        PROVE  l \in Results({"ok", "lost"}) <=> \E t \in Index : Succeeded(t) /\ LabelOf(t) = l
    BY <1>1, <1>2 DEF Results, Succeeded
  <1>4. Results({"bad"}) = {} <=> ~Broken
    BY DEF Results, Broken
  <1> QED  BY <1>3, <1>4

\* When main returns 0 after a file the reader took in full, no command failed
\* and no needed task depends on itself, _spawnvp was called for exactly the
\* target and what it depends on; and if it lost none of the commands, exactly
\* those were executed (bld__make, bld__depends, _spawnvp).
THEOREM TargetMadeThm ==
  BuilderSafety /\ []GathersTasks => []TargetMade
PROOF
  <1>1. RunInv => TargetMade
    <2> DEFINE W == Results({"ok", "lost"})
    <2>0. Results({"lost"}) = {} => Results({"ok"}) = W
      BY DEF Results
    <2> SUFFICES ASSUME RunInv, at = "exit", code = 0, Results({"bad"}) = {}, Readable(doc.text),
                        doc.target \in Labels(doc), ~SelfDependent
                 PROVE  W = {l \in Labels(doc) : Needed(l)}
      BY <2>0 DEF TargetMade
    <2>1. /\ RunType /\ doc \in Docs /\ ~Broken
          /\ \A l : l \in W <=> \E t \in Index : Succeeded(t) /\ LabelOf(t) = l
      BY ResultsAre DEF RunInv, RunType
    <2>2. doc.target \in W
      BY <2>1 DEF RunInv, ExitWhy, SelfDependent
    <2>3. \A t \in Index : LabelOf(t) \in Labels(doc)
      BY DEF LabelOf, Labels, Index
    <2>4. W \in SUBSET Labels(doc)
      BY <2>1, <2>3
    <2>5. ASSUME NEW m \in W PROVE Graph[m] \subseteq W
      <3> SUFFICES ASSUME NEW d \in Graph[m] PROVE d \in W
        OBVIOUS
      <3>1. PICK t \in Index : Succeeded(t) /\ LabelOf(t) = m
        BY <2>1
      <3>2. PICK p \in Callees(doc.tasks, t) : LabelOf(p[2]) = d
        BY <2>1, <3>1, GraphCallee
      <3>3. p[2] \in Index /\ Succeeded(p[2])
        BY <2>1, <3>1, CalleeType DEF RunInv, DepsFirst
      <3> QED  BY <2>1, <3>2, <3>3
    <2>6. ASSUME NEW l \in Labels(doc), Needed(l) PROVE l \in W
      <3> HIDE DEF W
      <3> QED  BY <2>2, <2>4, <2>5, <2>6 DEF Needed
    <2>7. ASSUME NEW l \in W PROVE Needed(l)
      <3>1. PICK t \in Index : Succeeded(t) /\ LabelOf(t) = l
        BY <2>1
      <3> QED  BY <3>1 DEF Succeeded, RunInv, CallsNeeded
    <2> HIDE DEF W
    <2> QED  BY <2>4, <2>6, <2>7
  <1> QED  BY <1>1, RunInvAlways, PTL

-----------------------------------------------------------------------------
(* The refinement of BuildContract.                                        *)

\* No command starts or ends: BuildContract sees nothing.
LEMMA QuietMaps ==
  ASSUME RunType, doc' = doc, ran' = ran, tasks' = tasks \/ ran = <<>>,
         at # "run", at' # "run"
  PROVE  UNCHANGED Contract!contractVars
PROOF
  <1>1. ASSUME NEW R PROVE Results(R)' = Results(R)
    <2>1. CASE tasks' = tasks
      BY <2>1 DEF Results
    <2>2. CASE ran = <<>>
      <3>1. DOMAIN ran = {} /\ DOMAIN ran' = {}
        BY <2>2
      <3> QED  BY <3>1 DEF Results
    <2> QED  BY <2>1, <2>2
  <1>2. Graph' = Graph
    BY DocFixed
  <1> QED  BY <1>1, <1>2 DEF Contract!contractVars

LEMMA ExecMaps ==
  ASSUME RunInv, Exec
  PROVE  \E l \in DOMAIN Graph : Contract!Start(l)
PROOF
  <1>1. /\ at = "depends" /\ Last(calls).todo = {} /\ UNCHANGED <<doc, calls, ran>> /\ at' = "run"
        /\ RunType /\ calls # <<>> /\ AsMeant /\ doc \in Docs /\ ~Broken
    BY DEF Exec, Ready, RunInv, RunType, Begun, DoneOnce
  <1>2. PICK t \in Index : t = Last(calls).task
    BY <1>1, LastFrame
  <1>3. ~tasks[t].done /\ job'.task = t /\ tasks' = Done(t)
    BY <1>2 DEF Exec
  <1>5. \A u \in Index : tasks[u].label = LabelOf(u) /\ tasks'[u].label = LabelOf(u)
    <2>1. DOMAIN tasks = Index
      BY <1>1, CalleesMeant
    <2>2. \A u \in Index : tasks'[u].label = tasks[u].label
      <3>1. \A u \in Index : u # t => tasks'[u] = tasks[u]
        BY <1>1, <1>3, DoneIs
      <3>2. tasks'[t].label = tasks[t].label
        BY <1>3, <2>1 DEF Done
      <3> QED  BY <3>1, <3>2
    <2> QED  BY <1>1, <2>1, <2>2 DEF AsMeant, LabelOf
  <1>6. ASSUME NEW R PROVE Results(R)' = Results(R)
    BY <1>1, <1>5, RanIndex DEF Results
  <1>7. Results({"bad"}) = {}
    BY <1>1, ResultsAre
  <1>8. LabelOf(t) \notin Results({"ok", "lost"})
    <2>1. ~Succeeded(t)
      BY <1>1, <1>3 DEF RunInv, DoneOnce, Begun
    <2>2. \A u \in Index : LabelOf(u) = LabelOf(t) => u = t
      BY <1>1, DocTyped
    <2> QED  BY <1>1, <2>1, <2>2, ResultsAre
  <1>9. Graph[LabelOf(t)] \subseteq Results({"ok", "lost"})
    <2> SUFFICES ASSUME NEW m \in Graph[LabelOf(t)]
                 PROVE  m \in Results({"ok", "lost"})
      OBVIOUS
    <2>1. PICK p \in Callees(doc.tasks, t) : LabelOf(p[2]) = m
      BY <1>1, GraphCallee
    <2>2. /\ Len(calls) \in DOMAIN calls /\ Last(calls) = calls[Len(calls)]
          /\ ~(Len(calls) < Len(calls))
      BY <1>1, LastFrame
    <2>3. Succeeded(p[2])
      BY <1>1, <1>2, <2>1, <2>2 DEF RunInv, CallsMade
    <2>4. p[2] \in Index
      BY <1>1, CalleeType
    <2> QED  BY <1>1, <2>1, <2>3, <2>4, ResultsAre
  <1>10. LabelOf(t) \in DOMAIN Graph
    BY DEF Graph, Labels, LabelOf, Index
  <1>11. Graph' = Graph /\ tasks'[job'.task].label = LabelOf(t)
    BY <1>1, <1>3, <1>5, DocFixed
  <1>12. Contract!Start(LabelOf(t))
    BY <1>1, <1>6, <1>7, <1>8, <1>9, <1>11 DEF Contract!Start
  <1> QED  BY <1>10, <1>12

LEMMA EndMaps ==
  ASSUME RunInv, at = "run", at' # "run", NEW r \in Outcome,
         ran' = Append(ran, <<job.task, r>>), UNCHANGED <<doc, tasks>>
  PROVE  \E l \in DOMAIN Graph : Contract!Finish(l)
PROOF
  <1>1. RunType /\ calls # <<>> /\ AsMeant /\ doc \in Docs /\ ~Broken
    BY DEF RunInv, RunType, Begun, DoneOnce
  <1>2. PICK t \in Index : t = job.task
    BY <1>1, LastFrame DEF RunInv, JobRuns
  <1>3. tasks[t].label = LabelOf(t)
    BY <1>1, CalleesMeant DEF AsMeant, LabelOf
  <1>4. /\ DOMAIN ran' = DOMAIN ran \cup {Len(ran) + 1}
        /\ \A k \in DOMAIN ran : ran'[k] = ran[k]
        /\ ran'[Len(ran) + 1] = <<t, r>>
    BY <1>1, <1>2, RanMore
  <1>5. ASSUME NEW R
        PROVE  Results(R)' = Results(R) \cup (IF r \in R THEN {LabelOf(t)} ELSE {})
    <2>1. PICK e : e = ran'[Len(ran) + 1]
      OBVIOUS
    <2>2. e[1] = t /\ e[2] = r
      BY <1>4, <2>1
    <2>3. ASSUME NEW x
          PROVE  x \in Results(R)' <=> x \in Results(R) \/ (r \in R /\ x = LabelOf(t))
      BY <1>3, <1>4, <2>1, <2>2 DEF Results
    <2> QED  BY <2>3
  <1>6. Results({"bad"}) = {}
    BY <1>1, ResultsAre
  <1>7. LabelOf(t) \in DOMAIN Graph
    BY DEF Graph, Labels, LabelOf, Index
  <1>8. Graph' = Graph
    BY DocFixed
  <1>9. \/ /\ Results({"ok", "lost"})' = Results({"ok", "lost"}) \cup {LabelOf(t)}
           /\ Results({"bad"})' = Results({"bad"})
        \/ /\ Results({"bad"})' = {LabelOf(t)}
           /\ Results({"ok", "lost"})' = Results({"ok", "lost"})
    <2>1. CASE r = "bad"
      BY <2>1, <1>5, <1>6
    <2>2. CASE r \in {"ok", "lost"}
      BY <2>2, <1>5, <1>6
    <2> QED  BY <2>1, <2>2 DEF Outcome
  <1>10. Contract!Finish(LabelOf(t))
    BY <1>2, <1>3, <1>8, <1>9 DEF Contract!Finish
  <1> QED  BY <1>7, <1>10

\* A command starts once, after all it depends on has succeeded, and none
\* starts after a failure: the tool implements BuildContract for every
\* dependency graph, cycles included, and every failure of a system call, as
\* far as _spawnvp reports it.
THEOREM RunsGraphThm ==
  BuilderSafety /\ []GathersTasks => RunsGraph
PROOF
  <1>1. BuilderInit => Contract!ContractInit
    <2> SUFFICES ASSUME BuilderInit PROVE Contract!ContractInit
      OBVIOUS
    <2>1. DOMAIN ran = {} /\ at = "load"
      BY DEF BuilderInit
    <2> QED  BY <2>1 DEF Contract!ContractInit, Results
  <1>2. RunInv /\ RunInv' /\ [BuilderNext]_vars => [Contract!ContractNext]_(Contract!contractVars)
    <2> SUFFICES ASSUME RunInv, RunInv', [BuilderNext]_vars
                 PROVE  Contract!ContractNext \/ UNCHANGED Contract!contractVars
      OBVIOUS
    <2>1. RunType
      BY DEF RunInv
    <2>2. CASE LoadFails \/ Load \/ Visit
      <3>1. doc' = doc /\ ran' = ran /\ at # "run" /\ at' # "run" /\ ran = <<>>
        BY <2>1, <2>2, ReaderStep DEF RunType
      <3> QED  BY <2>1, <3>1, QuietMaps
    <2>3. CASE Make
      BY <2>1, <2>3, QuietMaps DEF Make, Exit, readVars
    <2>4. CASE Depend
      BY <2>1, <2>4, QuietMaps DEF Depend, Exit, readVars
    <2>5. CASE ExecDone
      BY <2>1, <2>5, QuietMaps DEF ExecDone, Ready, Returns, Exit, readVars
    <2>6. CASE Exec
      BY <2>6, ExecMaps DEF Contract!ContractNext
    <2>7. CASE CommandEnds("ok")
      <3>1. at' # "run"
        BY <2>7 DEF CommandEnds, Returns, Exit
      <3> QED  BY <2>7, <3>1, EndMaps DEF CommandEnds, Outcome, readVars, Contract!ContractNext
    <2>8. CASE CommandEnds("bad")
      <3>1. at' # "run"
        BY <2>8 DEF CommandEnds, Returns, Exit
      <3> QED  BY <2>8, <3>1, EndMaps DEF CommandEnds, Outcome, readVars, Contract!ContractNext
    <2>9. CASE SpawnFails
      <3>1. at' # "run"
        BY <2>9 DEF SpawnFails, Returns, Exit
      <3> QED  BY <2>9, <3>1, EndMaps DEF SpawnFails, Outcome, readVars, Contract!ContractNext
    <2>10. CASE UNCHANGED vars
      BY <2>10, DocFixed DEF vars, Contract!contractVars, Results
    <2> QED  BY <2>2, <2>3, <2>4, <2>5, <2>6, <2>7, <2>8, <2>9, <2>10
             DEF BuilderNext, BuilderStep, Stopped
  <1> QED  BY <1>1, <1>2, RunInvAlways, PTL DEF BuilderSafety, RunsGraph, Contract!ContractSpec

-----------------------------------------------------------------------------
(* The recursion of bld__depends.                                          *)

LEMMA LabelsFinite ==
  ASSUME doc \in Docs
  PROVE  Cardinality(Labels(doc)) \in Nat
PROOF
  <1> DEFINE T == Labels(doc)
             f == [k \in Index |-> LabelOf(k)]
  <1>1. PICK m \in Nat : Index = 1..m
    BY DocTyped, LenProperties
  <1>2. IsFiniteSet(Index)
    BY <1>1, FS_Interval
  <1>3. f \in Surjection(Index, T)
    BY DEF Surjection, Labels, LabelOf, Index
  <1> HIDE DEF T, f
  <1>4. IsFiniteSet(T)
    BY <1>2, <1>3, FS_Surjection
  <1> QED  BY <1>4, FS_CardinalityType DEF T

LEMMA RankedStep ==
  ASSUME RunInv, GathersTasks, Ranked, [BuilderNext]_vars
  PROVE  Ranked'
PROOF
  <1> DEFINE N == Cardinality(Labels(doc))
  <1>1. RunType /\ doc \in Docs
    BY DEF RunInv, RunType
  <1>2. doc' = doc
    <2>1. CASE LoadFails \/ Load \/ Visit
      BY <2>1, ReaderStep
    <2>2. CASE ~(LoadFails \/ Load \/ Visit)
      BY <2>2 DEF BuilderNext, BuilderStep, Stopped, vars, Make, Depend, ExecDone, Exec,
                  CommandEnds, SpawnFails
    <2> QED  BY <2>1, <2>2
  <1>3. N \in Nat /\ MaxCalls \in Nat
    BY <1>1, LabelsFinite, BuilderAssumption
  <1> SUFFICES ASSUME NEW rank \in [Labels(doc) -> 1..N], Descends(rank)
               PROVE  /\ \A i \in DOMAIN calls' : rank[LabelOf(calls'[i].task)] + i <= N + 1
                      /\ N <= MaxCalls => at' # "crash"
    <2>1. ASSUME NEW r PROVE Descends(r)' <=> Descends(r)
      BY <1>2, DocFixed DEF Descends
    <2>2. Labels(doc)' = Labels(doc) /\ N' = N /\ \A t : LabelOf(t)' = LabelOf(t)
      BY <1>2, DocFixed
    <2> QED  BY <1>2, <2>1, <2>2 DEF Ranked, LabelOf
  <1>4. /\ \A i \in DOMAIN calls : rank[LabelOf(calls[i].task)] + i <= N + 1
        /\ N <= MaxCalls => at # "crash"
    BY DEF Ranked
  <1>5. \A t \in Index : LabelOf(t) \in Labels(doc) /\ rank[LabelOf(t)] \in 1..N
    BY DEF LabelOf, Labels, Index
  <1> HIDE DEF N
  <1>6. CASE calls' = calls /\ at' # "crash"
    BY <1>6, <1>4
  <1>7. CASE UNCHANGED vars
    BY <1>7, <1>4 DEF vars
  <1>8. CASE LoadFails \/ Load \/ Visit
    BY <1>6, <1>8, ReaderStep
  <1>9. CASE Make
    <2>1. CASE calls' = calls
      BY <2>1, <1>6, <1>9 DEF Make, Exit
    <2>2. CASE \E t \in Labelled(tasks, doc.target) : at' = "depends" /\ calls' = <<Frame(t)>>
      <3>1. PICK t \in Labelled(tasks, doc.target) : at' = "depends" /\ calls' = <<Frame(t)>>
        BY <2>2
      <3>2. t \in Index
        <4>1. AsMeant
          BY <1>9, <3>1 DEF GathersTasks, Make
        <4> QED  BY <1>1, <3>1, <4>1, CalleesMeant DEF Labelled
      <3>3. DOMAIN calls' = {1} /\ calls'[1].task = t
        BY <3>1 DEF Frame
      <3>4. rank[LabelOf(t)] + 1 <= N + 1
        BY <3>2, <1>3, <1>5
      <3> QED  BY <3>1, <3>3, <3>4
    <2> QED  BY <1>9, <2>1, <2>2 DEF Make
  <1>10. CASE Depend
    <2> DEFINE n == Len(calls)
               t == Last(calls).task
    <2>1. at = "depends" /\ calls # <<>> /\ AsMeant
      BY <1>1, <1>10 DEF Depend, RunType, Begun
    <2>2. PICK p \in Last(calls).todo :
            IF p[2] = t THEN Exit(0) /\ calls' = calls
            ELSE IF Len(calls) = MaxCalls THEN at' = "crash" /\ UNCHANGED <<code, calls>>
            ELSE calls' = Called(p) /\ UNCHANGED <<at, code>>
      BY <1>10 DEF Depend
    <2>3. /\ n \in Nat \ {0} /\ DOMAIN calls = 1..n /\ n \in DOMAIN calls
          /\ Last(calls) = calls[n] /\ t \in Index
      BY <1>1, <2>1, LastFrame
    <2>4. p \in Callees(doc.tasks, t)
      BY <2>2, <2>3 DEF RunInv, CallsMade
    <2>5. p[2] \in Index /\ LabelOf(p[2]) \in Graph[LabelOf(t)]
      BY <1>1, <2>3, <2>4, CalleeType
    <2>6. rank[LabelOf(t)] + n <= N + 1
      BY <1>4, <2>3
    <2>7. CASE p[2] = t
      BY <2>2, <2>7, <1>6 DEF Exit
    <2>8. CASE p[2] # t
      <3>1. LabelOf(p[2]) # LabelOf(t)
        BY <1>1, <2>3, <2>5, <2>8, DocTyped
      <3>2. rank[LabelOf(p[2])] < rank[LabelOf(t)]
        BY <1>5, <2>3, <2>5, <3>1 DEF Descends
      <3>3. rank[LabelOf(p[2])] \in 1..N /\ rank[LabelOf(t)] \in 1..N /\ n \in Nat
        BY <1>5, <2>3, <2>5
      <3>4. rank[LabelOf(p[2])] + (n + 1) <= N + 1 /\ n < N
        BY <1>3, <2>6, <3>2, <3>3
      <3>5. CASE n = MaxCalls
        BY <1>3, <1>4, <2>2, <2>8, <3>3, <3>4, <3>5
      <3>6. CASE n # MaxCalls
        <4>1. at' = "depends" /\ calls' = Called(p)
          BY <2>1, <2>2, <2>8, <3>6
        <4>2. Callees(tasks, p[2]) \in SUBSET (Nat \X Nat)
          BY <1>1, <2>1, <2>5, CalleesMeant, CalleeType
        <4>3. /\ DOMAIN calls' = 1..n + 1
              /\ \A i \in 1..n : calls'[i].task = calls[i].task
              /\ calls'[n + 1].task = p[2]
          BY <1>1, <2>1, <2>5, <4>1, <4>2, CalledIs
        <4>4. ASSUME NEW i \in 1..n + 1
              PROVE  rank[LabelOf(calls'[i].task)] + i <= N + 1
          <5>1. CASE i = n + 1
            BY <5>1, <3>4, <4>3
          <5>2. CASE i # n + 1
            <6>1. i \in 1..n
              BY <5>2, <3>3
            <6>2. calls'[i].task = calls[i].task /\ i \in DOMAIN calls
              BY <6>1, <4>3, <2>3
            <6> QED  BY <6>2, <1>4
          <5> QED  BY <5>1, <5>2
        <4> QED  BY <4>1, <4>3, <4>4
      <3> QED  BY <3>5, <3>6
    <2> QED  BY <2>7, <2>8
  <1>11. CASE Returns /\ calls # <<>>
    <2>1. /\ DOMAIN calls' = 1..Len(calls) - 1
          /\ \A i \in 1..Len(calls) - 1 : calls'[i] = calls[i]
      BY <1>1, <1>11, FrontIs DEF Returns
    <2>2. \A i \in 1..Len(calls) - 1 : i \in DOMAIN calls
      BY <1>1, <1>11, LastFrame
    <2>3. at' # "crash"
      BY <1>11 DEF Returns, Exit
    <2> QED  BY <1>4, <2>1, <2>2, <2>3
  <1>12. CASE ExecDone
    BY <1>1, <1>11, <1>12 DEF ExecDone, Ready, RunType
  <1>13. CASE Exec
    BY <1>6, <1>13 DEF Exec
  <1>14. CASE CommandEnds("ok") \/ CommandEnds("bad") \/ SpawnFails
    <2>1. calls # <<>>
      BY <1>1, <1>14 DEF CommandEnds, SpawnFails, RunType
    <2>2. Returns \/ (calls' = calls /\ at' = "exit")
      BY <1>14 DEF CommandEnds, SpawnFails, Exit
    <2> QED  BY <1>6, <1>11, <2>1, <2>2
  <1> QED  BY <1>7, <1>8, <1>9, <1>10, <1>12, <1>13, <1>14 DEF BuilderNext, BuilderStep, Stopped

\* The recursion of bld__depends, whose own test only sees a task that calls
\* itself, stays within the number of labels when the tasks have no cycle.
RecursionEnds ==
  Acyclic /\ Cardinality(Labels(doc)) <= MaxCalls => NoEndlessRecursion

\* A stack with room for one activation per label is enough for every file
\* without a cycle: bld__depends never overflows it.
THEOREM RecursionEndsThm ==
  BuilderSafety /\ []GathersTasks => []RecursionEnds
PROOF
  <1>1. BuilderInit => Ranked
    <2> SUFFICES ASSUME BuilderInit PROVE Ranked
      OBVIOUS
    <2>1. DOMAIN calls = {} /\ at = "load"
      BY DEF BuilderInit
    <2> QED  BY <2>1 DEF Ranked
  <1>2. RunInv /\ GathersTasks /\ Ranked /\ [BuilderNext]_vars => Ranked'
    BY RankedStep
  <1>3. Ranked => RecursionEnds
    BY DEF Ranked, RecursionEnds, Acyclic, NoEndlessRecursion
  <1> QED  BY <1>1, <1>2, <1>3, RunInvAlways, PTL DEF BuilderSafety
=============================================================================
