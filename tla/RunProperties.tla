---------------------------- MODULE RunProperties ----------------------------
(***************************************************************************)
(* What the scheduler promises about one run, stated over RunLifecycle.    *)
(***************************************************************************)
EXTENDS RunLifecycle

TickPC == {"idle", "listed", "expand", "scan", "finish", "timeout", "harvest", "admit"}
OpPC == {"start", "kill", "release", "clear", "reactivate"}
LaunchPC == {"none", "check", "launch", "cas", "kill", "collect"}
ProcState == {"absent", "running", "exit0", "exit1", "exit99"}

TickRecord == [pc : TickPC, run : RunRow, rows : Rows, ready : SUBSET Task,
               taken : SUBSET Task, todo : SUBSET Task, cur : SUBSET Task]
OpRecord == [kind : {"none", "cancel", "mark", "retry"}, pc : OpPC, target : TaskState,
             task : SUBSET Task, settled : BOOLEAN, rows : Rows, todo : SUBSET Task,
             cur : SUBSET Task]
RecRecord == [phase : {"up", "boot", "queued", "running"}, rows : Rows,
              todo : SUBSET Task, cur : SUBSET Task, seen : ProcState]

(***************************************************************************)
(* Every row and every local copy keeps its type, and an attempt number    *)
(* never leaves its range.                                                 *)
(***************************************************************************)
TypeOK ==
  /\ run \in RunRow
  /\ ti \in Rows
  /\ mu \in {"free", "tick", "op"}
  /\ tick \in TickRecord
  /\ op \in OpRecord
  /\ launch \in [Task -> [Attempt -> LaunchPC]]
  /\ polls \in [Task -> [Attempt -> Nat]]
  /\ proc \in [Task -> [Attempt -> ProcState]]
  /\ outputs \subseteq Task \X Attempt
  /\ rec \in RecRecord
  /\ ops \in Nat
  /\ crashes \in Nat

-----------------------------------------------------------------------------
(***************************************************************************)
(* The executor ref of a row is that of its current try, and a row that    *)
(* waits for no process has none or an old one: queued and running rows    *)
(* carry a ref (dispatch writes it before Launch), scheduled ones do not.  *)
(***************************************************************************)
NamesTheTry(row) ==
  /\ row.ref \in {0, row.try}
  /\ row.state \in {"queued", "running", "up_for_retry"} => row.ref # 0
  /\ row.state \in {"absent", "scheduled"} => row.ref = 0

RefNamesTheTry == \A t \in Task : NamesTheTry(ti[t])

(***************************************************************************)
(* "Scheduler restart must not lose running tasks": when recovery is over, *)
(* every queued or running row has a goroutine that will move it on.       *)
(***************************************************************************)
Watched(t, a) == launch[t][a] \in {"check", "launch", "cas"} \/ polls[t][a] > 0

InFlightIsWatched ==
  rec.phase = "up" =>
    \A t \in Task : ti[t].state \in {"queued", "running"} => Watched(t, ti[t].ref)

(***************************************************************************)
(* "No double execution": whatever is lost, retried after a failure or     *)
(* recovered, two attempts of one task are never running at once (as long  *)
(* as no operator rewrites a row whose launch is under way).               *)
(***************************************************************************)
OneProcessPerTask ==
  \A t \in Task : \A a, b \in Attempt :
    proc[t][a] = "running" /\ proc[t][b] = "running" => a = b

(***************************************************************************)
(* A running process belongs to the row's current attempt and the row is   *)
(* not settled, or its goroutine has yet to look at the row and will kill  *)
(* it.                                                                     *)
(***************************************************************************)
NoOrphanProcess ==
  \A t \in Task, a \in Attempt :
    proc[t][a] = "running" =>
      \/ ti[t].ref = a /\ ti[t].state \notin TaskTerminal
      \/ launch[t][a] \in {"cas", "kill"}

(***************************************************************************)
(* A settled run has settled tasks, whenever nobody holds finalizeMu: no   *)
(* released or requeued task is left behind under a finished run, where no *)
(* tick would look at it ("wedging the run terminal while a just-released  *)
(* task sits scheduled").                                                  *)
(***************************************************************************)
SettledRunHasSettledTasks ==
  run.state \in RunTerminal /\ mu = "free" =>
    \A t \in Task : ti[t].state \in TaskTerminal \cup {"absent"}

(***************************************************************************)
(* A run recorded as a success has only tasks that succeeded or were       *)
(* skipped, for as long as it stays a success.                             *)
(***************************************************************************)
SuccessIsEarned ==
  run.state = "success" /\ mu = "free" =>
    \A t \in Task : ti[t].state \in {"success", "skipped"}

(***************************************************************************)
(* Without operators and executor faults, the recorded outcome of a task   *)
(* is what its processes did: a success or a self-skip is the exit code of *)
(* the current attempt, and a failed task has used all its attempts and    *)
(* every one of them exited with a failure.  Crashes and recovery neither  *)
(* lose an attempt nor charge one.                                         *)
(***************************************************************************)
OutcomeIsReal ==
  \A t \in Task :
    /\ ti[t].state = "success" => proc[t][ti[t].try] = "exit0"
    /\ ti[t].state = "skipped" /\ ti[t].ref # 0 => proc[t][ti[t].ref] = "exit99"
    /\ ti[t].state = "failed" /\ ti[t].ref # 0 =>
         /\ ti[t].try = MaxRetries[t] + 1
         /\ \A a \in 1..ti[t].try : proc[t][a] = "exit1"

(***************************************************************************)
(* The rows admitReady counts never exceed the budget.                     *)
(***************************************************************************)
BudgetRespected == Cardinality(Busy) <= Slots

(***************************************************************************)
(* "Trigger rules guarantee the upstream finished before a downstream      *)
(* referencing it is dispatched": no process of a task runs while a        *)
(* process of one of its upstream tasks does (every rule but one_success   *)
(* and one_failed waits for, or is decided by, finished upstream tasks).   *)
(***************************************************************************)
UpstreamFinishedFirst ==
  \A t \in Task : \A d \in Deps[t] : \A a, b \in Attempt :
    ~(proc[t][a] = "running" /\ proc[d][b] = "running")

-----------------------------------------------------------------------------
(***************************************************************************)
(* A terminal task row is rewritten only by an operator call: a late       *)
(* finalize, a second poller, a timeout or recovery never is (the guarded  *)
(* write and the re-checks of the tick).                                   *)
(***************************************************************************)
OnlyOperatorReopens ==
  [][\A t \in Task : ti[t].state \in TaskTerminal /\ ti'[t] # ti[t]
       => op.kind # "none"]_vars

(***************************************************************************)
(* A task is dispatched only under a run that is running, although the     *)
(* harvest outlives the lock under which it was collected.                 *)
(***************************************************************************)
Dispatched(t) == ti[t].state # "queued" /\ ti'[t].state = "queued"

DispatchUnderActiveRun ==
  [][\A t \in Task : Dispatched(t) => run.state = "running"]_vars

(***************************************************************************)
(* "Reusing an old ref would return the stale killed/failed result instead *)
(* of running a fresh attempt": the ref a dispatch assigns is unknown to   *)
(* the executor and no goroutine uses it.                                  *)
(***************************************************************************)
FreshAttempt ==
  [][\A t \in Task : Dispatched(t) =>
       /\ proc[t][ti'[t].ref] = "absent"
       /\ ~Watched(t, ti'[t].ref)]_vars

(***************************************************************************)
(* Outside operator calls, a row leaves queued or running for an outcome   *)
(* only when the process of the attempt it carries is not running: the     *)
(* poller of an older attempt never decides a newer one.                   *)
(***************************************************************************)
OutcomeAfterExit ==
  [][\A t \in Task :
       /\ op.kind = "none"
       /\ ti[t].state \in {"queued", "running"}
       /\ ti'[t].state \in {"success", "skipped", "failed", "up_for_retry"}
       => proc[t][ti[t].ref] # "running"]_vars

(***************************************************************************)
(* "A stale-snapshot finalize can never clobber it": a cancelled run       *)
(* leaves that state only by an operator call.                             *)
(***************************************************************************)
CancelSticks ==
  [][run.state = "cancelled" /\ run'.state # "cancelled" => op.kind # "none"]_vars

-----------------------------------------------------------------------------
(***************************************************************************)
(* Every run settles and stays settled once the operator is done with it.  *)
(***************************************************************************)
RunSettles == <>[](run.state \in RunTerminal)

(***************************************************************************)
(* "Propagation, retries, deadline enforcement, and finalize above/below   *)
(* still apply" to a held run: when its tasks are all terminal it is       *)
(* finalized, held or not.                                                 *)
(***************************************************************************)
HeldRunFinalizes ==
  (run.state = "running" /\ Existing(ti) = Task /\ Unsettled(ti) = {})
    ~> (run.state \in RunTerminal)
=============================================================================
