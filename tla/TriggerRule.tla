----------------------------- MODULE TriggerRule -----------------------------
(***************************************************************************)
(* The pure part of the scheduler: the states of a task and of a run, the  *)
(* trigger rules, and the two graph computations made over a DAG's task    *)
(* list (the tasks a failure blocks, the tasks downstream of one).         *)
(*                                                                         *)
(* A task list is a function  deps  from task to the set of its upstream   *)
(* tasks and a function  rule  from task to its trigger rule; the state of *)
(* a run's task instances is a function  st  from task to state.           *)
(*                                                                         *)
(* Definitions marked "wrong:" are plausible mistakes in the definition    *)
(* that follows them.  Nothing uses them: they are put in its place to see *)
(* that a property notices.                                                *)
(***************************************************************************)
EXTENDS Naturals

(***************************************************************************)
(* The state "absent" is a task of the DAG whose task_instances row has    *)
(* not been inserted yet; taskGate passes it to the rule as "".            *)
(***************************************************************************)
TaskFailure == {"failed", "upstream_failed", "timed_out", "cancelled"}
TaskTerminal == {"success", "skipped"} \cup TaskFailure
TaskState == {"absent", "scheduled", "queued", "running", "up_for_retry"}
               \cup TaskTerminal

RunActive == {"queued", "running"}
RunTerminal == {"success", "failed", "cancelled", "timed_out"}
RunState == RunActive \cup RunTerminal

Rules == {"all_success", "all_done", "one_success", "one_failed",
          "all_failed", "none_failed"}

(***************************************************************************)
(* The states from which a guarded write may move a run to target.         *)
(***************************************************************************)
LegalPriorRunStates(target) ==
  IF target = "running" THEN {"queued"} \cup RunTerminal
  ELSE IF target \in {"success", "failed"} THEN {"queued", "running", "success", "failed"}
  ELSE IF target = "cancelled" THEN {"queued", "running"}
  ELSE IF target = "timed_out" THEN {"running"}
  ELSE {}

-----------------------------------------------------------------------------
(***************************************************************************)
(* EvalTriggerRule, whose counters succ, fail, skip and done are compared  *)
(* only with 0 and with the number of dependencies: each comparison is a   *)
(* quantifier over the dependencies.                                       *)
(***************************************************************************)
(* wrong: one finished dependency is enough *)
AllDoneAny(ds, st) == \E d \in ds : st[d] \in TaskTerminal
AllDone(ds, st) == \A d \in ds : st[d] \in TaskTerminal
AnySuccess(ds, st) == \E d \in ds : st[d] = "success"
AnyFailed(ds, st) == \E d \in ds : st[d] \in TaskFailure
AnySkipped(ds, st) == \E d \in ds : st[d] = "skipped"

Ready(rule, ds, st) ==
  \/ ds = {}
  \/ rule = "all_success" /\ \A d \in ds : st[d] = "success"
  \/ rule = "all_done" /\ AllDone(ds, st)
  \/ rule = "one_success" /\ AnySuccess(ds, st)
  \/ rule = "one_failed" /\ AnyFailed(ds, st)
  \/ rule = "all_failed" /\ \A d \in ds : st[d] \in TaskFailure
  \/ rule = "none_failed" /\ AllDone(ds, st) /\ ~AnyFailed(ds, st)

(* wrong: a skipped dependency does not block all_success *)
BlockedByFailure(rule, ds, st) ==
  /\ ds # {}
  /\ \/ rule = "all_success" /\ AnyFailed(ds, st)
     \/ rule = "one_success" /\ AllDone(ds, st) /\ ~AnySuccess(ds, st)
     \/ rule = "one_failed" /\ AllDone(ds, st) /\ ~AnyFailed(ds, st)
     \/ rule = "all_failed" /\ (AnySuccess(ds, st) \/ AnySkipped(ds, st))
     \/ rule = "none_failed" /\ AnyFailed(ds, st)

Blocked(rule, ds, st) ==
  /\ ds # {}
  /\ \/ rule = "all_success" /\ (AnyFailed(ds, st) \/ AnySkipped(ds, st))
     \/ rule = "one_success" /\ AllDone(ds, st) /\ ~AnySuccess(ds, st)
     \/ rule = "one_failed" /\ AllDone(ds, st) /\ ~AnyFailed(ds, st)
     \/ rule = "all_failed" /\ (AnySuccess(ds, st) \/ AnySkipped(ds, st))
     \/ rule = "none_failed" /\ AnyFailed(ds, st)

-----------------------------------------------------------------------------
(***************************************************************************)
(* Block propagation.  WithFailed(st, U) is st once the tasks of U are     *)
(* upstream_failed.  A set U is closed when it holds every scheduled task  *)
(* that is blocked under it; processRun's loop stops at the least one.     *)
(***************************************************************************)
Scheduled(st) == {t \in DOMAIN st : st[t] = "scheduled"}

WithFailed(st, U) ==
  [t \in DOMAIN st |-> IF t \in U THEN "upstream_failed" ELSE st[t]]

BlockClosed(rule, deps, st, U) ==
  \A t \in Scheduled(st) :
    Blocked(rule[t], deps[t], WithFailed(st, U)) => t \in U

BlockedTasks(rule, deps, st) ==
  {t \in Scheduled(st) :
     \A U \in SUBSET Scheduled(st) : BlockClosed(rule, deps, st, U) => t \in U}

(***************************************************************************)
(* The task named and every task transitively downstream of it.            *)
(***************************************************************************)
downstreamClosure(deps, task) ==
  {t \in DOMAIN deps :
     \A C \in SUBSET DOMAIN deps :
       (/\ task \in C
        /\ \A u \in DOMAIN deps : deps[u] \cap C # {} => u \in C)
       => t \in C}
=============================================================================
