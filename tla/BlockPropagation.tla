-------------------------- MODULE BlockPropagation --------------------------
(***************************************************************************)
(* Step 1 of processRun as the code runs it: passes over the task list in  *)
(* file order, each marking upstream_failed the scheduled tasks it finds   *)
(* blocked, until a pass changes nothing.  The marks of a pass are seen by *)
(* the rest of the same pass, and the list order need not follow the       *)
(* dependencies.  The loop is checked against the least closed set that    *)
(* RunLifecycle uses in its place.                                         *)
(***************************************************************************)
EXTENDS TriggerRule, Integers

CONSTANTS
  N,          \* number of tasks; task i is the i-th of d.Tasks
  StartState  \* the task states a tick may find

ASSUME SizeAssumption == N \in Nat \ {0}
ASSUME StartAssumption == StartState \subseteq TaskState

Task == 1..N

VARIABLES
  deps, rule,  \* the DAG, chosen in Init
  found,       \* the task states the tick read
  st,          \* the task states now
  next,        \* the task the pass visits next
  changed      \* the pass has marked a task

vars == <<deps, rule, found, st, next, changed>>

(***************************************************************************)
(* No task is upstream of itself: the parser refuses a cycle.              *)
(***************************************************************************)
Acyclic(d) == \A t \in Task : d[t] \cap downstreamClosure(d, t) = {}

Init ==
  /\ deps \in {d \in [Task -> SUBSET Task] : Acyclic(d)}
  /\ rule \in {r \in [Task -> Rules] : \A t \in Task : deps[t] = {} => r[t] = "all_success"}
  /\ found \in [Task -> StartState]
  /\ st = found
  /\ next = 1
  /\ changed = FALSE

(* wrong: tasks that are marked already are marked again *)
VisitAgain ==
  /\ next <= N
  /\ LET hit == st[next] \in {"scheduled", "upstream_failed"}
                  /\ Blocked(rule[next], deps[next], st)
     IN  /\ st' = IF hit THEN [st EXCEPT ![next] = "upstream_failed"] ELSE st
         /\ changed' = (changed \/ hit)
  /\ next' = next + 1
  /\ UNCHANGED <<deps, rule, found>>

Visit ==
  /\ next <= N
  /\ LET hit == st[next] = "scheduled" /\ Blocked(rule[next], deps[next], st)
     IN  /\ st' = IF hit THEN [st EXCEPT ![next] = "upstream_failed"] ELSE st
         /\ changed' = (changed \/ hit)
  /\ next' = next + 1
  /\ UNCHANGED <<deps, rule, found>>

NextPass ==
  /\ next = N + 1
  /\ changed
  /\ next' = 1
  /\ changed' = FALSE
  /\ UNCHANGED <<deps, rule, found, st>>

(* wrong: one pass is enough *)
DoneAfterOnePass == next = N + 1

Done == next = N + 1 /\ ~changed

Terminated == Done /\ UNCHANGED vars

Next == Visit \/ NextPass \/ Terminated

(***************************************************************************)
(* The loop is straight-line code of one goroutine: it does not stop.      *)
(***************************************************************************)
Spec == Init /\ [][Next]_vars /\ WF_vars(Visit \/ NextPass)

-----------------------------------------------------------------------------
(***************************************************************************)
(* Whatever the list order, the passes mark exactly the least set that is  *)
(* closed under "a scheduled task blocked by its upstream tasks is marked".*)
(***************************************************************************)
LoopFindsLeast ==
  Done => st = WithFailed(found, BlockedTasks(rule, deps, found))

(***************************************************************************)
(* The comment at EvalTriggerRule fears a task "neither ready nor blocked" *)
(* once its upstream tasks are finished, which would wedge the run: after  *)
(* the loop every scheduled task whose upstream tasks are all terminal may *)
(* be dispatched.                                                          *)
(***************************************************************************)
NoTaskWedged ==
  Done => \A t \in Task :
            st[t] = "scheduled" /\ AllDone(deps[t], st) => Ready(rule[t], deps[t], st)

(***************************************************************************)
(* A mark is never regretted: what blocked a task still blocks it when the *)
(* loop ends, although the loop changes the states the rules read.         *)
(***************************************************************************)
MarksStayJustified ==
  \A t \in Task :
    found[t] = "scheduled" /\ st[t] = "upstream_failed" => Blocked(rule[t], deps[t], st)

(***************************************************************************)
(* The loop `for changed := true; changed;` ends.                          *)
(***************************************************************************)
LoopEnds == <>Done
=============================================================================
