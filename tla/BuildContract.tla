---------------------------- MODULE BuildContract ----------------------------
(***************************************************************************)
(* What running a task promises: the commands that run are those of the    *)
(* dependency graph, each at most once, each after all the tasks it        *)
(* depends on have succeeded, and none after a failure.                    *)
(***************************************************************************)
VARIABLES graph,             \* task -> the tasks it depends on; fixed
          succeeded,         \* tasks whose command ran and succeeded
          running,           \* the tasks (none or one) whose command is running
          failed             \* tasks whose command failed

contractVars == <<graph, succeeded, running, failed>>

ContractInit == succeeded = {} /\ running = {} /\ failed = {}

Start(t) ==
  /\ running = {} /\ failed = {}
  /\ t \notin succeeded
  /\ graph[t] \subseteq succeeded
  /\ running' = {t}
  /\ UNCHANGED <<graph, succeeded, failed>>

Finish(t) ==
  /\ t \in running
  /\ running' = {}
  /\ \/ succeeded' = succeeded \cup {t} /\ failed' = failed
     \/ failed' = {t} /\ succeeded' = succeeded
  /\ UNCHANGED graph

ContractNext == \E t \in DOMAIN graph : Start(t) \/ Finish(t)

ContractSpec == ContractInit /\ [][ContractNext]_contractVars
=============================================================================
