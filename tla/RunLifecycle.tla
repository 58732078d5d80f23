---------------------------- MODULE RunLifecycle ----------------------------
(***************************************************************************)
(* One DAG run from its dag_runs row to its settled task instances: the    *)
(* tick that advances it, the goroutine of each attempt, the operator      *)
(* calls of the API goroutines, the executor that owns the processes, and  *)
(* the crash and recovery of the scheduler.                                *)
(*                                                                         *)
(* The grain is the store statement and the executor call: two of them     *)
(* with nothing of another actor in between are one step only when no      *)
(* other actor can tell.  Everything the code reads once and uses later    *)
(* (the run listed by the tick, the rows listed by an operator call or by  *)
(* recovery, the ready list) is kept in a copy that may be stale.          *)
(*                                                                         *)
(* Definitions marked "wrong:" are plausible mistakes in the definition    *)
(* that follows them (see TriggerRule).                                    *)
(***************************************************************************)
EXTENDS TriggerRule, Integers, FiniteSets

CONSTANTS
  Task,         \* the tasks of the run's definition snapshot
  Deps,         \* their upstream tasks
  Rule,         \* their trigger rules
  Position,     \* their places in the definition's task list
  Gate,         \* what their when: and depends_on_dag gates may answer
  MaxRetries,   \* their retries
  Emits,        \* the tasks that write $CRONOVA_OUTPUT
  Slots,        \* the budget admitReady enforces (pool and concurrency caps)
  Ops,          \* the operator calls that are made
  Faults,       \* the faults that happen
  MaxOps,       \* bound: operator calls in a behaviour
  MaxCrashes,   \* bound: scheduler crashes in a behaviour
  MaxAttempts   \* bound: attempts of one task

GateOutcome == {"run", "wait", "skip", "fail"}
OpKind == {"cancel", "mark", "retry_task", "retry_run", "mark_run", "hold"}
FaultKind == {"launch_error", "no_worker", "cas_error", "exec_lost",
              "probe_error", "deadline"}

ASSUME DagAssumption ==
  /\ Task # {} /\ IsFiniteSet(Task)
  /\ Deps \in [Task -> SUBSET Task]
  /\ Position \in [Task -> Nat]
  /\ Rule \in [Task -> Rules]
  /\ Gate \in [Task -> (SUBSET GateOutcome) \ {{}}]
  /\ MaxRetries \in [Task -> Nat]
  /\ Emits \subseteq Task
ASSUME EnvironmentAssumption == Ops \subseteq OpKind /\ Faults \subseteq FaultKind
ASSUME BoundAssumption ==
  Slots \in Nat /\ MaxOps \in Nat /\ MaxCrashes \in Nat /\ MaxAttempts \in Nat

Attempt == 1..MaxAttempts

VARIABLES
  run,      \* the dag_runs row
  ti,       \* the task_instances rows
  mu,       \* who holds finalizeMu
  tick,     \* the tick goroutine: where it is and what it has read
  op,       \* the operator call in progress
  launch,   \* per attempt: where its runTask goroutine is
  polls,    \* per attempt: goroutines in awaitCompletion
  proc,     \* per attempt: what the executor knows of it
  outputs,  \* the attempts whose output file exists
  rec,      \* recovery: its phase and what it has read
  ops,      \* operator calls made
  crashes   \* scheduler crashes

rowVars == <<run, ti>>
execVars == <<proc, outputs>>
goVars == <<launch, polls>>
counters == <<ops, crashes>>
vars == <<run, ti, mu, tick, op, launch, polls, proc, outputs, rec, ops, crashes>>

(***************************************************************************)
(* Rows.  The executor ref of an attempt is run/task/try: within one task  *)
(* it is the try number, and 0 is the empty ref.  The clock is what the    *)
(* started_at of a run says of its dagrun_timeout.                         *)
(***************************************************************************)
Clock == {"unset", "fresh", "expired"}
RunRow == [state : RunState, held : BOOLEAN, clock : Clock]
Row == [state : TaskState, try : 0..MaxAttempts, ref : 0..MaxAttempts]
Rows == [Task -> Row]

States(rows) == [t \in Task |-> rows[t].state]
Absent == [state |-> "absent", try |-> 0, ref |-> 0]
NoRows == [t \in Task |-> Absent]
Existing(rows) == {t \in Task : rows[t].state # "absent"}
Unsettled(rows) == {t \in Existing(rows) : rows[t].state \notin TaskTerminal}
Attempts(x) == [t \in Task |-> [a \in Attempt |-> x]]

TickIdle == [pc |-> "idle", run |-> [state |-> "queued", held |-> FALSE, clock |-> "unset"],
             rows |-> NoRows, ready |-> {}, taken |-> {}, todo |-> {}, cur |-> {}]
OpNone == [kind |-> "none", pc |-> "start", target |-> "absent", task |-> {},
           settled |-> FALSE, rows |-> NoRows, todo |-> {}, cur |-> {}]
RecUp == [phase |-> "up", rows |-> NoRows, todo |-> {}, cur |-> {}, seen |-> "absent"]

Init ==
  /\ run = [state |-> "queued", held |-> FALSE, clock |-> "unset"]
  /\ ti = NoRows
  /\ mu = "free"
  /\ tick = TickIdle
  /\ op = OpNone
  /\ launch = Attempts("none")
  /\ polls = Attempts(0)
  /\ proc = Attempts("absent")
  /\ outputs = {}
  /\ rec = RecUp
  /\ ops = 0
  /\ crashes = 0

-----------------------------------------------------------------------------
(***************************************************************************)
(* The store.  UpdateDagRunState writes only from a legal prior state;     *)
(* CanMove is its success.  Guarded is UpdateTaskInstanceGuarded: the      *)
(* write applies while the row carries the expected ref and is not         *)
(* terminal.                                                               *)
(***************************************************************************)
CanMove(target) == run.state \in LegalPriorRunStates(target)

(* wrong: the write also applies to a terminal row; or to a later attempt *)
AppliesToTerminal(t, expectRef) == ti[t].ref = expectRef
AppliesToAnyRef(t, expectRef) == ti[t].state \notin TaskTerminal
Applies(t, expectRef) == ti[t].ref = expectRef /\ ti[t].state \notin TaskTerminal

Guarded(t, row, expectRef) ==
  IF Applies(t, expectRef) THEN [ti EXCEPT ![t] = row] ELSE ti

(***************************************************************************)
(* The executor's Cancel: kill the process of an attempt, if it has one.   *)
(***************************************************************************)
Kill(t, ref) ==
  IF ref \in Attempt /\ proc[t][ref] = "running"
    THEN [proc EXCEPT ![t][ref] = "exit1"]
    ELSE proc

(***************************************************************************)
(* The row a goroutine that owns attempt a of t writes: finalizeTask for   *)
(* an exit code, recordFailure for a failed or lost attempt.               *)
(***************************************************************************)
OwnRow(t, a, state) == [state |-> state, try |-> a, ref |-> a]

FailureState(t, a) == IF a <= MaxRetries[t] THEN "up_for_retry" ELSE "failed"

(* wrong: what the probe saw is recorded as it is *)
OutcomeRaw(t, a, phase) ==
  IF phase = "exit0" THEN "success" ELSE IF phase = "exit99" THEN "exit99" ELSE FailureState(t, a)

Outcome(t, a, phase) ==
  IF phase = "exit0" THEN "success"
  ELSE IF phase = "exit99" THEN "skipped" ELSE FailureState(t, a)

-----------------------------------------------------------------------------
(***************************************************************************)
(* The tick.  processActiveRuns lists the run without the lock; the listed *)
(* copy is what processRun is given.  A held queued run is passed over.    *)
(***************************************************************************)
TickList ==
  /\ rec.phase = "up"
  /\ tick.pc = "idle"
  /\ \/ run.state = "running"
     \/ run.state = "queued" /\ ~run.held
  /\ tick' = [tick EXCEPT !.pc = "listed", !.run = run]
  /\ UNCHANGED <<rowVars, mu, op, goVars, execVars, rec, counters>>

(***************************************************************************)
(* processRun takes finalizeMu and keeps it to its end.                    *)
(***************************************************************************)
TickLock ==
  /\ tick.pc = "listed"
  /\ mu = "free"
  /\ mu' = "tick"
  /\ tick' = [tick EXCEPT !.pc = "expand"]
  /\ UNCHANGED <<rowVars, op, goVars, execVars, rec, counters>>

(***************************************************************************)
(* expandRun inserts one missing row; a crash between two inserts leaves   *)
(* the run half expanded.                                                  *)
(***************************************************************************)
TickExpand(t) ==
  /\ tick.pc = "expand"
  /\ ti[t].state = "absent"
  /\ ti' = [ti EXCEPT ![t] = [Absent EXCEPT !.state = "scheduled"]]
  /\ UNCHANGED <<run, mu, tick, op, goVars, execVars, rec, counters>>

(***************************************************************************)
(* processRun leaves: the lock is free, the harvest may be admitted.       *)
(***************************************************************************)
ReturnProcessRun(ready) ==
  /\ mu' = "free"
  /\ tick' = [TickIdle EXCEPT !.pc = "harvest", !.ready = ready]

(***************************************************************************)
(* The run listed as queued is moved to running, by the state in the copy; *)
(* the store refuses only if the row is running already.                   *)
(***************************************************************************)
TickStart ==
  /\ tick.pc = "expand"
  /\ Existing(ti) = Task
  /\ \/ /\ tick.run.state = "queued" /\ CanMove("running")
        /\ run' = [run EXCEPT !.state = "running", !.clock = "fresh"]
        /\ tick' = [tick EXCEPT !.pc = "scan", !.run.state = "running", !.run.clock = "fresh"]
        /\ UNCHANGED mu
     \/ /\ tick.run.state = "queued" /\ ~CanMove("running")
        /\ ReturnProcessRun({})
        /\ UNCHANGED run
     \/ /\ tick.run.state # "queued"
        /\ tick' = [tick EXCEPT !.pc = "scan"]
        /\ UNCHANGED <<run, mu>>
  /\ UNCHANGED <<ti, op, goVars, execVars, rec, counters>>

(***************************************************************************)
(* Steps 1 and 2 of processRun, over the rows read at its start: the tasks *)
(* their upstream tasks block are failed, then the waiting tasks whose     *)
(* retry delay has elapsed (due) are scheduled again.                      *)
(***************************************************************************)
UpForRetry == {t \in Task : ti[t].state = "up_for_retry"}

Propagated ==
  [t \in Task |-> IF t \in BlockedTasks(Rule, Deps, States(ti))
                    THEN [ti[t] EXCEPT !.state = "upstream_failed"] ELSE ti[t]]

(* wrong: a task is never scheduled again *)
RequeuedNever(due) == Propagated

Requeued(due) ==
  [t \in Task |-> IF t \in due
                    THEN [state |-> "scheduled", try |-> ti[t].try, ref |-> 0]
                    ELSE Propagated[t]]

(***************************************************************************)
(* Step 3 goes through the task list: a scheduled task whose rule is       *)
(* satisfied asks its depends_on_dag and when: gates.  A task settled by   *)
(* its gate is seen settled by the tasks after it in the list.  answer is  *)
(* what the gates said, "none" where they were not asked.                  *)
(***************************************************************************)
Gated(rows, answer) ==
  [t \in Task |->
     IF answer[t] \in {"skip", "fail"}
       THEN [rows[t] EXCEPT !.state = IF answer[t] = "skip" THEN "skipped" ELSE "failed"]
       ELSE rows[t]]

Seen(rows, answer, t) ==
  [d \in Task |-> IF Position[d] < Position[t]
                    THEN Gated(rows, answer)[d].state ELSE rows[d].state]

Asked(rows, answer, t) ==
  rows[t].state = "scheduled" /\ Ready(Rule[t], Deps[t], Seen(rows, answer, t))

Collects(rows, answer) ==
  \A t \in Task : IF Asked(rows, answer, t) THEN answer[t] \in Gate[t]
                                            ELSE answer[t] = "none"

(***************************************************************************)
(* The three steps write only rows found scheduled or up_for_retry, which  *)
(* no other actor writes meanwhile, so they are one step.  A held run      *)
(* leaves after the second.                                                *)
(***************************************************************************)
TickScan(due) ==
  /\ tick.pc = "scan"
  /\ due \subseteq UpForRetry
  /\ \/ /\ tick.run.held
        /\ ti' = Requeued(due)
        /\ ReturnProcessRun({})
     \/ /\ ~tick.run.held
        /\ \E answer \in [Task -> GateOutcome \cup {"none"}] :
             /\ Collects(Requeued(due), answer)
             /\ ti' = Gated(Requeued(due), answer)
             /\ tick' = [tick EXCEPT !.pc = "finish",
                          !.ready = {t \in Task : answer[t] = "run"}]
        /\ UNCHANGED mu
  /\ UNCHANGED <<run, op, goVars, execVars, rec, counters>>

(***************************************************************************)
(* Step 4, over rows read again: finalize a run whose tasks are all        *)
(* terminal.  Success is written unguarded by UpdateDagRunSuccess; the     *)
(* other outcomes only from a legal prior state.  started_at is written    *)
(* back from the copy.                                                     *)
(***************************************************************************)
(* wrong: only blocked and timed-out tasks fail the run *)
FinalStateLenient(st) ==
  IF \E t \in Task : st[t] \in {"upstream_failed", "timed_out"} THEN "failed"
  ELSE IF \E t \in Task : st[t] = "cancelled" THEN "cancelled"
  ELSE "success"

FinalState(st) ==
  IF \E t \in Task : st[t] \in {"failed", "upstream_failed", "timed_out"} THEN "failed"
  ELSE IF \E t \in Task : st[t] = "cancelled" THEN "cancelled"
  ELSE "success"

TickFinalize ==
  /\ tick.pc = "finish"
  /\ Unsettled(ti) = {}
  /\ LET final == FinalState(States(ti))
     IN  run' = IF final = "success" \/ CanMove(final)
                  THEN [run EXCEPT !.state = final, !.clock = tick.run.clock] ELSE run
  /\ ReturnProcessRun(tick.ready)
  /\ UNCHANGED <<ti, op, goVars, execVars, rec, counters>>

(***************************************************************************)
(* enforceDeadlines on a run that is not finished.  timeoutRun writes the  *)
(* run first and leaves if the store refuses, then kills and writes task   *)
(* by task from the rows read by step 4.                                   *)
(***************************************************************************)
TickWithinDeadline ==
  /\ tick.pc = "finish"
  /\ Unsettled(ti) # {}
  /\ tick.run.clock # "expired" \/ ~CanMove("timed_out")
  /\ ReturnProcessRun(tick.ready)
  /\ UNCHANGED <<rowVars, op, goVars, execVars, rec, counters>>

TickTimeout ==
  /\ tick.pc = "finish"
  /\ Unsettled(ti) # {}
  /\ tick.run.clock = "expired" /\ CanMove("timed_out")
  /\ run' = [run EXCEPT !.state = "timed_out", !.clock = tick.run.clock]
  /\ tick' = [tick EXCEPT !.pc = "timeout", !.rows = ti, !.todo = Unsettled(ti)]
  /\ UNCHANGED <<ti, mu, op, goVars, execVars, rec, counters>>

TickTimeoutKill(t) ==
  /\ tick.pc = "timeout"
  /\ tick.cur = {} /\ t \in tick.todo
  /\ proc' = Kill(t, tick.rows[t].ref)
  /\ tick' = [tick EXCEPT !.cur = {t}]
  /\ UNCHANGED <<rowVars, mu, op, goVars, outputs, rec, counters>>

TickTimeoutWrite(t) ==
  /\ tick.pc = "timeout"
  /\ t \in tick.cur
  /\ ti' = Guarded(t, [tick.rows[t] EXCEPT !.state = "timed_out"], tick.rows[t].ref)
  /\ tick' = [tick EXCEPT !.cur = {}, !.todo = @ \ {t}]
  /\ UNCHANGED <<run, mu, op, goVars, execVars, rec, counters>>

TickTimeoutDone ==
  /\ tick.pc = "timeout"
  /\ tick.todo = {}
  /\ ReturnProcessRun(tick.ready)
  /\ UNCHANGED <<rowVars, op, goVars, execVars, rec, counters>>

(***************************************************************************)
(* admitReady takes the lock again for the harvest and counts once the     *)
(* tasks that take a slot; it adds those it dispatches itself (taken).     *)
(* The rows of the harvest were read before the lock was released, so each *)
(* row is read again and dispatched only if it is still scheduled.  The    *)
(* order by priority is left open.  dispatch writes the queued row with    *)
(* the ref of the new attempt before it starts the attempt's goroutine.    *)
(***************************************************************************)
(* wrong: queued tasks take no slot *)
BusyRunning == {t \in Task : ti[t].state = "running"}

Busy == {t \in Task : ti[t].state \in {"queued", "running"}}

TickAdmit ==
  /\ tick.pc = "harvest"
  /\ IF tick.ready = {}
       THEN tick' = TickIdle /\ UNCHANGED mu
       ELSE /\ mu = "free"
            /\ mu' = "tick"
            /\ tick' = [tick EXCEPT !.pc = "admit", !.taken = Busy]
  /\ UNCHANGED <<rowVars, op, goVars, execVars, rec, counters>>

(* wrong: the row is not read again *)
CanDispatchStale(t) == Cardinality(tick.taken) < Slots /\ ti[t].try < MaxAttempts

CanDispatch(t) ==
  /\ Cardinality(tick.taken) < Slots
  /\ ti[t].state = "scheduled"
  /\ ti[t].try < MaxAttempts

Dispatch(t) ==
  /\ tick.pc = "admit"
  /\ t \in tick.ready
  /\ CanDispatch(t)
  /\ LET a == ti[t].try + 1
     IN  /\ ti' = [ti EXCEPT ![t] = OwnRow(t, a, "queued")]
         /\ launch' = [launch EXCEPT ![t][a] = "check"]
  /\ tick' = [tick EXCEPT !.ready = @ \ {t}, !.taken = @ \cup {t}]
  /\ UNCHANGED <<run, mu, op, polls, execVars, rec, counters>>

PassOver(t) ==
  /\ tick.pc = "admit"
  /\ t \in tick.ready
  /\ ~CanDispatch(t)
  /\ tick' = [tick EXCEPT !.ready = @ \ {t}]
  /\ UNCHANGED <<rowVars, mu, op, goVars, execVars, rec, counters>>

TickDone ==
  /\ tick.pc = "admit"
  /\ tick.ready = {}
  /\ mu' = "free"
  /\ tick' = TickIdle
  /\ UNCHANGED <<rowVars, op, goVars, execVars, rec, counters>>

-----------------------------------------------------------------------------
(***************************************************************************)
(* The goroutine of attempt a of t.  runTask gives up before Launch only   *)
(* if it finds the row cancelled.                                          *)
(***************************************************************************)
CheckCancelled(t, a) ==
  /\ launch[t][a] = "check"
  /\ launch' = [launch EXCEPT ![t][a] =
                  IF ti[t].state = "cancelled" THEN "none" ELSE "launch"]
  /\ UNCHANGED <<rowVars, mu, tick, op, polls, execVars, rec, counters>>

(***************************************************************************)
(* Launch is idempotent on the ref: an attempt the executor knows is not   *)
(* started twice.                                                          *)
(***************************************************************************)
Launch(t, a) ==
  /\ launch[t][a] = "launch"
  /\ proc' = [proc EXCEPT ![t][a] = IF @ = "absent" THEN "running" ELSE @]
  /\ launch' = [launch EXCEPT ![t][a] = "cas"]
  /\ UNCHANGED <<rowVars, mu, tick, op, polls, outputs, rec, counters>>

(***************************************************************************)
(* A launch that fails is a failed attempt, and so is a task whose project *)
(* cannot be staged or whose type is unknown, found before the launch; a   *)
(* worker group found empty gives the attempt back.                        *)
(***************************************************************************)
LaunchFails(t, a) ==
  /\ "launch_error" \in Faults
  /\ launch[t][a] = "launch"
  /\ ti' = Guarded(t, OwnRow(t, a, FailureState(t, a)), a)
  /\ launch' = [launch EXCEPT ![t][a] = "none"]
  /\ UNCHANGED <<run, mu, tick, op, polls, execVars, rec, counters>>

NoWorker(t, a) ==
  /\ "no_worker" \in Faults
  /\ launch[t][a] = "launch"
  /\ ti' = Guarded(t, [state |-> "scheduled", try |-> a - 1, ref |-> 0], a)
  /\ launch' = [launch EXCEPT ![t][a] = "none"]
  /\ UNCHANGED <<run, mu, tick, op, polls, execVars, rec, counters>>

(***************************************************************************)
(* The guarded queued -> running write.  If it does not apply the process  *)
(* just launched is killed; if it fails with a store error the goroutine   *)
(* ends and leaves the process to a later recovery.                        *)
(***************************************************************************)
MarkRunning(t, a) ==
  /\ launch[t][a] = "cas"
  /\ ti' = Guarded(t, OwnRow(t, a, "running"), a)
  /\ launch' = [launch EXCEPT ![t][a] = IF Applies(t, a) THEN "none" ELSE "kill"]
  /\ polls' = [polls EXCEPT ![t][a] = IF Applies(t, a) THEN @ + 1 ELSE @]
  /\ UNCHANGED <<run, mu, tick, op, execVars, rec, counters>>

(* wrong: the attempt is given back although its process was started *)
MarkRunningErrorReset(t, a) ==
  /\ "cas_error" \in Faults
  /\ launch[t][a] = "cas"
  /\ ti' = Guarded(t, [state |-> "scheduled", try |-> a, ref |-> 0], a)
  /\ launch' = [launch EXCEPT ![t][a] = "none"]
  /\ UNCHANGED <<run, mu, tick, op, polls, execVars, rec, counters>>

MarkRunningError(t, a) ==
  /\ "cas_error" \in Faults
  /\ launch[t][a] = "cas"
  /\ launch' = [launch EXCEPT ![t][a] = "none"]
  /\ UNCHANGED <<rowVars, mu, tick, op, polls, execVars, rec, counters>>

KillLaunched(t, a) ==
  /\ launch[t][a] = "kill"
  /\ proc' = Kill(t, a)
  /\ launch' = [launch EXCEPT ![t][a] = "none"]
  /\ UNCHANGED <<rowVars, mu, tick, op, polls, outputs, rec, counters>>

(***************************************************************************)
(* awaitCompletion: the probe finds the attempt exited, unknown, or still  *)
(* running.  A running attempt whose output file exists is taken for       *)
(* finished with exit code 0 (recoverFinishedExitCode); otherwise polling  *)
(* goes on, and so it does after a probe error.  finalizeTask writes the   *)
(* outcome first and collects the output of a success, whose file it       *)
(* removes, afterwards.                                                    *)
(***************************************************************************)
(* wrong: any answer of the executor ends the attempt *)
FinishedAtOnce(t, a) == TRUE

Finished(t, a) ==
  \/ proc[t][a] # "running"
  \/ <<t, a>> \in outputs

Observed(t, a) ==
  IF proc[t][a] = "running" THEN "exit0" ELSE proc[t][a]

Poll(t, a) ==
  /\ polls[t][a] > 0
  /\ Finished(t, a)
  /\ ti' = Guarded(t, OwnRow(t, a, Outcome(t, a, Observed(t, a))), a)
  /\ polls' = [polls EXCEPT ![t][a] = @ - 1]
  /\ launch' = [launch EXCEPT ![t][a] =
                  IF Observed(t, a) = "exit0" /\ <<t, a>> \in outputs THEN "collect" ELSE @]
  /\ UNCHANGED <<run, mu, tick, op, execVars, rec, counters>>

CollectOutput(t, a) ==
  /\ launch[t][a] = "collect"
  /\ outputs' = outputs \ {<<t, a>>}
  /\ launch' = [launch EXCEPT ![t][a] = "none"]
  /\ UNCHANGED <<rowVars, mu, tick, op, polls, proc, rec, counters>>

-----------------------------------------------------------------------------
(***************************************************************************)
(* The executor's processes, and the passing of the run's deadline.  A     *)
(* lost attempt is one whose record is gone: the executor restarted        *)
(* without saved state and its processes died with it.                     *)
(***************************************************************************)
ProcExit(t, a) ==
  /\ proc[t][a] = "running"
  /\ \E code \in {"exit0", "exit1", "exit99"} :
       proc' = [proc EXCEPT ![t][a] = code]
  /\ UNCHANGED <<rowVars, mu, tick, op, goVars, outputs, rec, counters>>

WriteOutput(t, a) ==
  /\ t \in Emits
  /\ proc[t][a] = "running"
  /\ outputs' = outputs \cup {<<t, a>>}
  /\ UNCHANGED <<rowVars, mu, tick, op, goVars, proc, rec, counters>>

ExecutorLoses(t, a) ==
  /\ "exec_lost" \in Faults
  /\ proc[t][a] # "absent"
  /\ proc' = [proc EXCEPT ![t][a] = "absent"]
  /\ UNCHANGED <<rowVars, mu, tick, op, goVars, outputs, rec, counters>>

Expire(clock) == IF clock = "fresh" THEN "expired" ELSE clock

DeadlinePasses ==
  /\ "deadline" \in Faults
  /\ run.clock = "fresh"
  /\ run' = [run EXCEPT !.clock = "expired"]
  /\ tick' = [tick EXCEPT !.run.clock = Expire(@)]
  /\ UNCHANGED <<ti, mu, op, goVars, execVars, rec, counters>>

-----------------------------------------------------------------------------
(***************************************************************************)
(* Operator calls, made on API goroutines, also while recovery runs.       *)
(* BeginOp takes finalizeMu and reads the rows; EndOp releases it.         *)
(***************************************************************************)
CanCall(kind) == kind \in Ops /\ ops < MaxOps /\ op.kind = "none"

BeginOp(o) ==
  /\ mu = "free"
  /\ mu' = "op"
  /\ op' = [o EXCEPT !.rows = ti]
  /\ ops' = ops + 1

EndOp ==
  /\ mu' = "free"
  /\ op' = OpNone

(***************************************************************************)
(* CancelRun: the run is cancelled first, then each unsettled task of the  *)
(* rows read is killed and overwritten, one after the other.               *)
(***************************************************************************)
CancelRun ==
  /\ CanCall("cancel")
  /\ run.state \in RunActive
  /\ BeginOp([OpNone EXCEPT !.kind = "cancel", !.todo = Unsettled(ti)])
  /\ run' = [run EXCEPT !.state = "cancelled"]
  /\ UNCHANGED <<ti, tick, goVars, execVars, rec, crashes>>

CancelKill(t) ==
  /\ op.kind = "cancel"
  /\ op.cur = {} /\ t \in op.todo
  /\ proc' = Kill(t, op.rows[t].ref)
  /\ op' = [op EXCEPT !.cur = {t}]
  /\ UNCHANGED <<rowVars, mu, tick, goVars, outputs, rec, counters>>

CancelWrite(t) ==
  /\ op.kind = "cancel"
  /\ t \in op.cur
  /\ ti' = [ti EXCEPT ![t] = [op.rows[t] EXCEPT !.state = "cancelled"]]
  /\ op' = [op EXCEPT !.cur = {}, !.todo = @ \ {t}]
  /\ UNCHANGED <<run, mu, tick, goVars, execVars, rec, counters>>

CancelDone ==
  /\ op.kind = "cancel"
  /\ op.todo = {}
  /\ EndOp
  /\ UNCHANGED <<rowVars, tick, goVars, execVars, rec, counters>>

(***************************************************************************)
(* MarkTask: kill the attempt of a task that is not terminal, release the  *)
(* downstream tasks that were upstream_failed when the target does not     *)
(* block, overwrite the task, and reactivate a run that was terminal.      *)
(***************************************************************************)
MarkTask(t, target) ==
  /\ CanCall("mark")
  /\ t \in Existing(ti)
  /\ BeginOp([OpNone EXCEPT !.kind = "mark", !.pc = "kill", !.task = {t},
              !.target = target, !.settled = (run.state \in RunTerminal)])
  /\ UNCHANGED <<rowVars, tick, goVars, execVars, rec, crashes>>

Released(t) ==
  {d \in downstreamClosure(Deps, t) \ {t} : op.rows[d].state = "upstream_failed"}

MarkKill(t) ==
  /\ op.pc = "kill" /\ t \in op.task
  /\ proc' = IF op.rows[t].state \in TaskTerminal THEN proc ELSE Kill(t, op.rows[t].ref)
  /\ op' = [op EXCEPT !.pc = "release",
                      !.todo = IF op.target \in {"success", "skipped"} THEN Released(t) ELSE {}]
  /\ UNCHANGED <<rowVars, mu, tick, goVars, outputs, rec, counters>>

MarkSet(t) ==
  /\ op.pc = "release" /\ op.todo = {} /\ t \in op.task
  /\ ti' = [ti EXCEPT ![t] = [op.rows[t] EXCEPT !.state = op.target]]
  /\ op' = [op EXCEPT !.pc = "reactivate"]
  /\ UNCHANGED <<run, mu, tick, goVars, execVars, rec, counters>>

(***************************************************************************)
(* The retry calls, on a terminal run only: rows the DAG is missing are    *)
(* inserted, the chosen tasks are cleared to scheduled with their try      *)
(* number kept, and the run is reactivated.                                *)
(***************************************************************************)
Retry(kind, ids) ==
  /\ CanCall(kind)
  /\ run.state \in RunTerminal
  /\ BeginOp([OpNone EXCEPT !.kind = "retry", !.pc = "clear", !.settled = TRUE,
              !.todo = ids \cup (Task \ Existing(ti))])
  /\ UNCHANGED <<rowVars, tick, goVars, execVars, rec, crashes>>

RetryTask(t) == t \in Existing(ti) /\ Retry("retry_task", downstreamClosure(Deps, t))

RetryRun ==
  LET ids == UNION {downstreamClosure(Deps, t) : t \in {u \in Task : ti[u].state \in TaskFailure}}
  IN  ids # {} /\ Retry("retry_run", ids)

(***************************************************************************)
(* Both calls schedule tasks again one row at a time, in the random order  *)
(* of a Go map, from the rows they read.                                   *)
(***************************************************************************)
(* wrong: the ref is kept; or the attempts are counted from the start *)
ClearedKeepsRef(row) == [row EXCEPT !.state = "scheduled"]
ClearedFromZero(row) == [state |-> "scheduled", try |-> 0, ref |-> 0]

Cleared(row) == [state |-> "scheduled", try |-> row.try, ref |-> 0]

ClearTask(t) ==
  /\ op.pc \in {"release", "clear"}
  /\ t \in op.todo
  /\ ti' = [ti EXCEPT ![t] = Cleared(op.rows[t])]
  /\ op' = [op EXCEPT !.todo = @ \ {t}]
  /\ UNCHANGED <<run, mu, tick, goVars, execVars, rec, counters>>

(***************************************************************************)
(* The last step of MarkTask and of the retries: a run that was terminal   *)
(* runs again with a fresh deadline.                                       *)
(***************************************************************************)
(* wrong: marking a task leaves a finished run finished *)
ReactivateRetryOnly ==
  /\ op.pc = "reactivate" \/ (op.pc = "clear" /\ op.todo = {})
  /\ run' = IF op.kind = "retry" /\ CanMove("running")
              THEN [run EXCEPT !.state = "running", !.clock = "fresh"] ELSE run
  /\ EndOp
  /\ UNCHANGED <<ti, tick, goVars, execVars, rec, counters>>

Reactivate ==
  /\ op.pc = "reactivate" \/ (op.pc = "clear" /\ op.todo = {})
  /\ run' = IF op.settled /\ CanMove("running")
              THEN [run EXCEPT !.state = "running", !.clock = "fresh"] ELSE run
  /\ EndOp
  /\ UNCHANGED <<ti, tick, goVars, execVars, rec, counters>>

(***************************************************************************)
(* MarkRun overrides the outcome of a terminal run: success through the    *)
(* unguarded UpdateDagRunSuccess, failed through the guarded write.        *)
(***************************************************************************)
MarkRun(target) ==
  /\ CanCall("mark_run")
  /\ mu = "free"
  /\ run.state \in RunTerminal \ {target}
  /\ target = "success" \/ CanMove(target)
  /\ run' = [run EXCEPT !.state = target]
  /\ ops' = ops + 1
  /\ UNCHANGED <<ti, mu, tick, op, goVars, execVars, rec, crashes>>

(***************************************************************************)
(* Hold and release are one statement, without the lock, on active runs.   *)
(***************************************************************************)
SetHeld(held) ==
  /\ CanCall("hold")
  /\ run.state \in RunActive
  /\ run.held # held
  /\ run' = [run EXCEPT !.held = held]
  /\ ops' = ops + 1
  /\ UNCHANGED <<ti, mu, tick, op, goVars, execVars, rec, crashes>>

-----------------------------------------------------------------------------
(***************************************************************************)
(* A crash of the scheduler loses everything but the store and the         *)
(* executor: the tick, the operator call, every goroutine and the lock.    *)
(***************************************************************************)
Crash ==
  /\ crashes < MaxCrashes
  /\ crashes' = crashes + 1
  /\ mu' = "free"
  /\ tick' = TickIdle
  /\ op' = OpNone
  /\ launch' = Attempts("none")
  /\ polls' = Attempts(0)
  /\ rec' = [RecUp EXCEPT !.phase = "boot"]
  /\ UNCHANGED <<rowVars, execVars, ops>>

(***************************************************************************)
(* Recover lists the queued rows, goes through them, then lists the        *)
(* running rows, those it has just made running among them, and goes       *)
(* through those.  The tick starts after it; the API is up all along.      *)
(***************************************************************************)
(* wrong: running rows are passed over *)
RecoverListQueued(state) == {t \in Task : state = "queued" /\ ti[t].state = state}
RecoverList(state) == {t \in Task : ti[t].state = state}

RecoverQueued ==
  /\ rec.phase = "boot"
  /\ rec' = [RecUp EXCEPT !.phase = "queued", !.rows = ti, !.todo = RecoverList("queued")]
  /\ UNCHANGED <<rowVars, mu, tick, op, goVars, execVars, counters>>

RecoverRunning ==
  /\ rec.phase = "queued" /\ rec.todo = {}
  /\ rec' = [RecUp EXCEPT !.phase = "running", !.rows = ti, !.todo = RecoverList("running")]
  /\ UNCHANGED <<rowVars, mu, tick, op, goVars, execVars, counters>>

RecoverDone ==
  /\ rec.phase = "running" /\ rec.todo = {}
  /\ rec' = RecUp
  /\ UNCHANGED <<rowVars, mu, tick, op, goVars, execVars, counters>>

(***************************************************************************)
(* One probe, and then what it leads to.  A probe error skips the row.     *)
(***************************************************************************)
RecoverProbe(t) ==
  /\ rec.cur = {} /\ t \in rec.todo
  /\ \E a \in Attempt :
       /\ rec.rows[t].ref = a
       /\ rec' = [rec EXCEPT !.cur = {t}, !.seen = proc[t][a]]
  /\ UNCHANGED <<rowVars, mu, tick, op, goVars, execVars, counters>>

RecoverProbeError(t) ==
  /\ "probe_error" \in Faults
  /\ rec.cur = {} /\ t \in rec.todo
  /\ rec' = [rec EXCEPT !.todo = @ \ {t}]
  /\ UNCHANGED <<rowVars, mu, tick, op, goVars, execVars, counters>>

RecoverNext(t) == rec' = [rec EXCEPT !.cur = {}, !.todo = @ \ {t}, !.seen = "absent"]

(***************************************************************************)
(* The attempt has exited, or a running row is unknown to the executor:    *)
(* record its outcome.                                                     *)
(***************************************************************************)
RecoverFinalize(t) ==
  /\ t \in rec.cur
  /\ rec.seen # "running"
  /\ rec.seen # "absent" \/ rec.phase = "running"
  /\ LET a == rec.rows[t].ref
     IN  /\ ti' = Guarded(t, OwnRow(t, a, Outcome(t, a, rec.seen)), a)
         /\ outputs' = IF rec.seen = "exit0" THEN outputs \ {<<t, a>>} ELSE outputs
  /\ RecoverNext(t)
  /\ UNCHANGED <<run, mu, tick, op, goVars, proc, counters>>

(***************************************************************************)
(* The attempt is running: a queued row is made running by a guarded       *)
(* write, and its process killed if that does not apply; a running row is  *)
(* reattached as it is.                                                    *)
(***************************************************************************)
RecoverReattach(t) ==
  /\ t \in rec.cur
  /\ rec.seen = "running"
  /\ LET a == rec.rows[t].ref
         mine == rec.phase = "running" \/ Applies(t, a)
     IN  /\ ti' = IF rec.phase = "queued" THEN Guarded(t, OwnRow(t, a, "running"), a) ELSE ti
         /\ polls' = IF mine THEN [polls EXCEPT ![t][a] = @ + 1] ELSE polls
         /\ proc' = IF mine THEN proc ELSE Kill(t, a)
  /\ RecoverNext(t)
  /\ UNCHANGED <<run, mu, tick, op, launch, outputs, counters>>

(***************************************************************************)
(* A queued row unknown to the executor was never launched: the attempt is *)
(* given back.                                                             *)
(***************************************************************************)
(* wrong: an attempt that was never launched is counted *)
RecoverResetCounted(t) ==
  /\ t \in rec.cur
  /\ rec.seen = "absent" /\ rec.phase = "queued"
  /\ LET a == rec.rows[t].ref
     IN  ti' = Guarded(t, [state |-> "scheduled", try |-> a, ref |-> 0], a)
  /\ RecoverNext(t)
  /\ UNCHANGED <<run, mu, tick, op, goVars, execVars, counters>>

RecoverReset(t) ==
  /\ t \in rec.cur
  /\ rec.seen = "absent" /\ rec.phase = "queued"
  /\ LET a == rec.rows[t].ref
     IN  ti' = Guarded(t, [state |-> "scheduled", try |-> a - 1, ref |-> 0], a)
  /\ RecoverNext(t)
  /\ UNCHANGED <<run, mu, tick, op, goVars, execVars, counters>>

-----------------------------------------------------------------------------
TickNext ==
  \/ TickList \/ TickLock \/ TickStart \/ TickFinalize
  \/ TickWithinDeadline \/ TickTimeout \/ TickTimeoutDone \/ TickAdmit \/ TickDone
  \/ \E due \in SUBSET Task : TickScan(due)
  \/ \E t \in Task : \/ TickExpand(t) \/ TickTimeoutKill(t) \/ TickTimeoutWrite(t)
                     \/ Dispatch(t) \/ PassOver(t)

AttemptNext(t, a) ==
  \/ CheckCancelled(t, a) \/ Launch(t, a) \/ LaunchFails(t, a) \/ NoWorker(t, a)
  \/ MarkRunning(t, a) \/ MarkRunningError(t, a) \/ KillLaunched(t, a)
  \/ Poll(t, a) \/ CollectOutput(t, a)

ExecutorNext(t, a) == ProcExit(t, a) \/ WriteOutput(t, a) \/ ExecutorLoses(t, a)

CallNext ==
  \/ CancelRun \/ RetryRun
  \/ \E target \in {"success", "failed"} : MarkRun(target)
  \/ \E held \in BOOLEAN : SetHeld(held)
  \/ \E t \in Task : RetryTask(t)
  \/ \E t \in Task, target \in {"success", "failed", "skipped"} : MarkTask(t, target)

OpNext ==
  \/ CancelDone \/ Reactivate
  \/ \E t \in Task : \/ CancelKill(t) \/ CancelWrite(t)
                     \/ MarkKill(t) \/ MarkSet(t) \/ ClearTask(t)

RecoverNextStep ==
  \/ RecoverQueued \/ RecoverRunning \/ RecoverDone
  \/ \E t \in Task : \/ RecoverProbe(t) \/ RecoverProbeError(t) \/ RecoverFinalize(t)
                     \/ RecoverReattach(t) \/ RecoverReset(t)

(***************************************************************************)
(* The run is settled, or parked by a hold, and nothing is in flight.      *)
(***************************************************************************)
Quiet ==
  /\ run.state \in RunTerminal \/ (run.held /\ run.state = "queued")
  /\ tick.pc = "idle" /\ op.kind = "none" /\ rec.phase = "up"
  /\ launch = Attempts("none") /\ polls = Attempts(0)
  /\ \A t \in Task, a \in Attempt : proc[t][a] # "running"
  /\ UNCHANGED vars

Next ==
  \/ TickNext \/ CallNext \/ OpNext \/ RecoverNextStep
  \/ \E t \in Task, a \in Attempt : AttemptNext(t, a) \/ ExecutorNext(t, a)
  \/ DeadlinePasses \/ Crash \/ Quiet

Spec == Init /\ [][Next]_vars

(***************************************************************************)
(* Goroutines run and the ticker ticks; a lock holder does not block on    *)
(* anything but the store; processes end; a retry delay, which retryDelay  *)
(* bounds, is over for some tick.  Nothing is assumed of the operator, of  *)
(* faults, of deadlines or of crashes.                                     *)
(***************************************************************************)
TickSteps ==
  \/ TickList \/ TickStart \/ TickFinalize \/ TickWithinDeadline
  \/ TickTimeout \/ TickTimeoutDone \/ TickDone
  \/ \E t \in Task : \/ TickExpand(t) \/ TickTimeoutKill(t) \/ TickTimeoutWrite(t)
                     \/ Dispatch(t) \/ PassOver(t)

Fairness ==
  /\ WF_vars(TickSteps)
  /\ SF_vars(TickLock)
  /\ SF_vars(TickAdmit)
  /\ SF_vars(TickScan(UpForRetry))
  /\ WF_vars(OpNext)
  /\ WF_vars(RecoverNextStep)
  /\ \A t \in Task, a \in Attempt :
       /\ WF_vars(CheckCancelled(t, a) \/ Launch(t, a) \/ MarkRunning(t, a))
       /\ WF_vars(KillLaunched(t, a))
       /\ WF_vars(Poll(t, a) \/ CollectOutput(t, a))
       /\ WF_vars(ProcExit(t, a))

FairSpec == Spec /\ Fairness
=============================================================================
