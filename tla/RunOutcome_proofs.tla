-------------------------- MODULE RunOutcome_proofs --------------------------
(***************************************************************************)
(* What the attempts of a run amount to: processes are neither doubled nor *)
(* orphaned, upstream tasks finish first, recorded outcomes are real, and  *)
(* a settled run has settled tasks.  Each theorem names the faults and     *)
(* operator calls under which the code does not promise its property.      *)
(***************************************************************************)
EXTENDS RunLifecycle_proofs

(***************************************************************************)
(* An attempt is in use from its dispatch on, until its process is over or *)
(* it turns out that it will have none.                                    *)
(***************************************************************************)
InUse(t, a) == proc[t][a] = "running" \/ launch[t][a] \in {"check", "launch"}

LEMMA StartsUse ==
  ASSUME RunInv, LockInv, [Next]_vars, NEW u \in Task, NEW b \in Attempt, InUse(u, b)'
  PROVE  InUse(u, b) \/ (Dispatch(u) /\ b = ti[u].try + 1)
<1> USE DEF InUse
<1>1. CASE Same(u, b)
  BY <1>1 DEF Same
<1>2. CASE ByLaunch(u, b)
  BY <1>2 DEF ByLaunch, SameProc, Killed
<1>3. CASE ByPoll(u, b)
  BY <1>3 DEF ByPoll, SameProc
<1>4. CASE ByProcess(u, b)
  BY <1>4 DEF ByProcess, SameGo, Killed
<1>5. CASE ByReattach(u, b)
  BY <1>5 DEF ByReattach, SameProc, Killed
<1>6. CASE Crash /\ launch'[u][b] = "none" /\ SameProc(u, b)
  BY <1>6 DEF SameProc
<1> QED
  BY <1>1, <1>2, <1>3, <1>4, <1>5, <1>6, GoSteps DEF GoStep

(***************************************************************************)
(* An attempt still in use after a step of its owner was not settled by    *)
(* that step, unless by its output file.                                   *)
(***************************************************************************)
LEMMA UseKept ==
  ASSUME RunInv, LockInv, AttemptInv, [Next]_vars, NEW u \in Task, NEW b \in Attempt, NEW a \in Attempt,
         InUse(u, b)', b = ti[u].try, ByOwner(u, a) \/ ByGiveBack(u, a)
  PROVE  /\ ti'[u].try = b
         /\ \/ ti'[u].state = "running"
            \/ ti'[u].state = "success" /\ <<u, b>> \in outputs
<1>0. /\ a = b /\ Applies(u, b)
      /\ launch \in [Task -> [Attempt -> LaunchPC]] /\ proc \in [Task -> [Attempt -> ProcState]]
  BY AppliesNames DEF ByOwner, ByGiveBack, RunInv, TypeOK
<1> USE DEF execVars, goVars
<1>1. ~LaunchFails(u, b) /\ ~NoWorker(u, b)
  <2>1. ASSUME LaunchFails(u, b) \/ NoWorker(u, b) PROVE FALSE
    <3>1. launch[u][b] = "launch" /\ launch'[u][b] = "none" /\ proc' = proc
      BY <1>0, <2>1 DEF LaunchFails, NoWorker
    <3> QED
      BY <3>1 DEF AttemptInv, OneGoroutine, InUse
  <2> QED
    BY <2>1
<1>2. ~(RecoverFinalize(u) /\ rec.rows[u].ref = b)
  <2> SUFFICES ASSUME RecoverFinalize(u), rec.rows[u].ref = b PROVE FALSE
    OBVIOUS
  <2>1. launch' = launch /\ proc' = proc /\ rec.phase # "up" /\ u \in rec.cur /\ rec.seen # "running"
    BY DEF RecoverFinalize, LockInv
  <2>2. launch[u][b] \in {"none", "collect"} /\ proc[u][b] # "running"
    BY <2>1 DEF AttemptInv, RecoveryAlone, ProbeHolds
  <2> QED
    BY <2>1, <2>2 DEF InUse
<1>3. ~(RecoverReset(u) /\ rec.rows[u].ref = b)
  <2> SUFFICES ASSUME RecoverReset(u), rec.rows[u].ref = b PROVE FALSE
    OBVIOUS
  <2>1. launch' = launch /\ proc' = proc /\ rec.phase # "up" /\ u \in rec.cur /\ rec.seen = "absent"
    BY DEF RecoverReset, LockInv
  <2>2. launch[u][b] \in {"none", "collect"} /\ proc[u][b] # "running"
    BY <2>1 DEF AttemptInv, RecoveryAlone, ProbeHolds
  <2> QED
    BY <2>1, <2>2 DEF InUse
<1>4. CASE Poll(u, b) /\ ti'[u].state = Outcome(u, b, Observed(u, b))
  <2>1. polls[u][b] > 0 /\ proc' = proc /\ launch'[u][b] \in {launch[u][b], "collect"}
    BY <1>0, <1>4 DEF Poll
  <2>2. launch[u][b] \notin {"check", "launch"}
    BY <2>1 DEF AttemptInv, OneGoroutine, Launching
  <2>3. proc[u][b] = "running"
    BY <2>1, <2>2 DEF InUse
  <2>4. <<u, b>> \in outputs /\ Observed(u, b) = "exit0"
    BY <1>4, <2>3 DEF Poll, Finished, Observed
  <2> QED
    BY <1>0, <1>4, <2>4 DEF ByOwner, ByGiveBack, Poll, Outcome
<1> QED
  BY <1>0, <1>1, <1>2, <1>3, <1>4 DEF ByOwner, ByGiveBack

-----------------------------------------------------------------------------
(***************************************************************************)
(* Without operator calls, only the current attempt of a task is in use,   *)
(* and the task is not waiting for another one.                            *)
(***************************************************************************)
UseIsCurrent ==
  \A t \in Task, a \in Attempt :
    InUse(t, a) => a = ti[t].try /\ ti[t].state \notin {"absent", "scheduled", "up_for_retry"}

LEMMA CurrentStep ==
  ASSUME RunInv, LockInv, AttemptInv, op.kind = "none", UseIsCurrent, [Next]_vars
  PROVE  UseIsCurrent'
<1> SUFFICES ASSUME NEW u \in Task, NEW b \in Attempt, InUse(u, b)'
             PROVE  b = ti'[u].try /\ ti'[u].state \notin {"absent", "scheduled", "up_for_retry"}
  BY DEF UseIsCurrent
<1>1. CASE Dispatch(u) /\ b = ti[u].try + 1
  BY <1>1 DEF Dispatch, OwnRow, RunInv, TypeOK, Rows
<1>2. CASE InUse(u, b)
  <2>0. b = ti[u].try /\ ti[u].state \notin {"absent", "scheduled", "up_for_retry"}
    BY <1>2 DEF UseIsCurrent
  <2>1. CASE ti'[u] = ti[u]
    BY <2>0, <2>1
  <2>2. CASE ByTimeout(u)
    <3>1. ti[u].state \in {"queued", "running"} /\ ti[u].ref # 0
      BY <2>0, <2>2 DEF ByTimeout, RunInv, TypeOK, Rows, Row, TaskState, CopiesNamed, Named, NamesTheTry
    <3>2. ti[u].ref = ti[u].try /\ tick.rows[u].ref = tick.rows[u].try
      BY <2>2, <3>1 DEF ByTimeout, RunInv, CopiesNamed, Named, NamesTheTry
    <3> QED
      BY <2>0, <2>2, <3>2 DEF ByTimeout
  <2>3. ASSUME NEW a \in Attempt, ByOwner(u, a) \/ ByGiveBack(u, a)
        PROVE  ti'[u].try = b /\ ti'[u].state \in {"running", "success"}
    BY <2>0, <2>3, UseKept
  <2>4. ~ByScan(u) /\ ~ByCall(u) /\ ~Dispatch(u)
    BY <2>0 DEF ByScan, ByCall, Dispatch, CanDispatch
  <2> QED
    BY <2>0, <2>1, <2>2, <2>3, <2>4, RowSteps DEF RowStep
<1> QED
  BY <1>1, <1>2, StartsUse

LEMMA CurrentInvariant ==
  ASSUME Ops = {}
  PROVE  Spec => [](RunInv /\ LockInv /\ AttemptInv /\ op.kind = "none" /\ UseIsCurrent)
<1>1. Init => UseIsCurrent
  BY DEF Init, Attempts, UseIsCurrent, InUse
<1>2. RunInv /\ LockInv /\ AttemptInv /\ op.kind = "none" /\ UseIsCurrent /\ [Next]_vars => UseIsCurrent'
  BY CurrentStep
<1> QED
  BY <1>1, <1>2, AttemptInvariant, NoCalls, PTL DEF Spec

(***************************************************************************)
(* No double execution: two attempts of one task never run at once, under  *)
(* every fault, deadline, crash and recovery, as long as no operator       *)
(* rewrites a row.  (An operator may: a task marked or cancelled between   *)
(* its launch and the write of its row is retried beside the old process.) *)
(***************************************************************************)
THEOREM NoDoubleExecution == ASSUME Ops = {} PROVE Spec => []OneProcessPerTask
<1>1. UseIsCurrent => OneProcessPerTask
  BY DEF UseIsCurrent, InUse, OneProcessPerTask
<1> QED
  BY <1>1, CurrentInvariant, PTL

-----------------------------------------------------------------------------
(***************************************************************************)
(* Without deadlines no clock expires and no run is timed out.             *)
(***************************************************************************)
NoTimeout == run.clock # "expired" /\ tick.run.clock # "expired" /\ tick.pc # "timeout"

LEMMA NoTimeoutStep == ASSUME "deadline" \notin Faults, RunInv, NoTimeout, [Next]_vars PROVE NoTimeout'
<1>0. tick \in TickRecord /\ run \in RunRow /\ tick.run \in RunRow
  BY DEF RunInv, TypeOK, TickRecord
<1> USE DEF NoTimeout
<1>1. CASE UNCHANGED <<run, tick>>
  BY <1>1
<1>2. CASE TickNext
  <2>1. CASE TickList
    BY <1>0, <2>1 DEF TickList, TickRecord, rowVars
  <2>2. CASE TickLock
    BY <1>0, <2>2 DEF TickLock, TickRecord, rowVars
  <2>3. CASE TickStart
    <3>1. CASE /\ run' = [run EXCEPT !.state = "running", !.clock = "fresh"]
               /\ tick' = [tick EXCEPT !.pc = "scan", !.run.state = "running", !.run.clock = "fresh"]
      <4>1. run'.clock = "fresh"
        BY <1>0, <3>1 DEF RunRow
      <4>2. tick'.pc = "scan" /\ tick'.run = [[tick.run EXCEPT !.state = "running"] EXCEPT !.clock = "fresh"]
        BY <1>0, <3>1 DEF TickRecord
      <4>3. tick'.run.clock = "fresh"
        BY <1>0, <4>2 DEF RunRow
      <4> QED
        BY <4>1, <4>2, <4>3
    <3>2. CASE ReturnProcessRun({}) /\ UNCHANGED run
      BY <3>2 DEF ReturnProcessRun, TickIdle
    <3>3. CASE tick' = [tick EXCEPT !.pc = "scan"] /\ UNCHANGED run
      BY <1>0, <3>3 DEF TickRecord
    <3> QED
      BY <2>3, <3>1, <3>2, <3>3 DEF TickStart
  <2>4. CASE TickFinalize
    <3>1. run'.clock # "expired"
      BY <1>0, <2>4 DEF TickFinalize, RunRow
    <3> QED
      BY <2>4, <3>1 DEF TickFinalize, ReturnProcessRun, TickIdle
  <2>5. CASE TickWithinDeadline
    BY <2>5 DEF TickWithinDeadline, ReturnProcessRun, TickIdle, rowVars
  <2>6. CASE TickTimeout \/ TickTimeoutDone
    BY <2>6 DEF TickTimeout, TickTimeoutDone
  <2>7. CASE TickAdmit
    <3>1. CASE tick.ready = {}
      BY <2>7, <3>1 DEF TickAdmit, TickIdle, rowVars
    <3>2. CASE tick.ready # {}
      BY <1>0, <2>7, <3>2 DEF TickAdmit, TickRecord, rowVars
    <3> QED
      BY <3>1, <3>2
  <2>8. CASE TickDone
    BY <2>8 DEF TickDone, TickIdle, rowVars
  <2>9. ASSUME NEW due, TickScan(due) PROVE NoTimeout'
    <3>1. CASE ReturnProcessRun({})
      BY <2>9, <3>1 DEF ReturnProcessRun, TickIdle, TickScan
    <3>2. CASE \E ready : tick' = [tick EXCEPT !.pc = "finish", !.ready = ready]
      BY <1>0, <2>9, <3>2 DEF TickRecord, TickScan
    <3> QED
      BY <2>9, <3>1, <3>2 DEF TickScan
  <2>10. ASSUME NEW t, TickExpand(t) PROVE NoTimeout'
    BY <2>10 DEF TickExpand
  <2>11. ASSUME NEW t, TickTimeoutKill(t) \/ TickTimeoutWrite(t) PROVE NoTimeout'
    BY <2>11 DEF TickTimeoutKill, TickTimeoutWrite
  <2>12. ASSUME NEW t, Dispatch(t) PROVE NoTimeout'
    BY <1>0, <2>12 DEF Dispatch, TickRecord
  <2>13. ASSUME NEW t, PassOver(t) PROVE NoTimeout'
    BY <1>0, <2>13 DEF PassOver, TickRecord, rowVars
  <2> QED
    BY <1>2, <2>1, <2>2, <2>3, <2>4, <2>5, <2>6, <2>7, <2>8, <2>9, <2>10, <2>11, <2>12, <2>13
    DEF TickNext
<1>3. CASE CallNext
  <2>1. UNCHANGED tick
    BY <1>3, CallLeaves
  <2>2. run' = run \/ (\E s : run' = [run EXCEPT !.state = s]) \/ (\E h : run' = [run EXCEPT !.held = h])
    BY <1>3 DEF CallNext, CancelRun, RetryRun, RetryTask, Retry, MarkRun, SetHeld, MarkTask, rowVars
  <2>3. run'.clock = run.clock
    BY <1>0, <2>2 DEF RunRow
  <2> QED
    BY <2>1, <2>3
<1>4. CASE OpNext
  <2>1. UNCHANGED tick
    BY <1>4, OpLeaves
  <2>2. run' = run \/ run' = [run EXCEPT !.state = "running", !.clock = "fresh"]
    BY <1>4 DEF OpNext, CancelDone, Reactivate, CancelKill, CancelWrite, MarkKill, MarkSet,
         ClearTask, rowVars
  <2>3. run'.clock # "expired"
    BY <1>0, <2>2 DEF RunRow
  <2> QED
    BY <2>1, <2>3
<1>5. CASE Crash
  BY <1>5 DEF Crash, TickIdle, rowVars
<1>6. CASE DeadlinePasses
  BY <1>6 DEF DeadlinePasses
<1> QED
  BY <1>1, <1>2, <1>3, <1>4, <1>5, <1>6, AttemptLeaves, RecoverLeaves DEF Next, Quiet, vars

LEMMA NoTimeoutInvariant == ASSUME "deadline" \notin Faults PROVE Spec => []NoTimeout
<1>1. Init => NoTimeout
  BY DEF Init, NoTimeout, TickIdle
<1>2. RunInv /\ NoTimeout /\ [Next]_vars => NoTimeout'
  BY NoTimeoutStep
<1> QED
  BY <1>1, <1>2, RunInvariant, PTL DEF Spec

-----------------------------------------------------------------------------
(***************************************************************************)
(* Without operator calls, deadlines and output files, an attempt in use   *)
(* belongs to a row that is queued or running.                             *)
(***************************************************************************)
UseIsBusy == \A t \in Task, a \in Attempt : InUse(t, a) => t \in Busy /\ ti[t].ref = a

LEMMA BusyStep ==
  ASSUME RunInv, LockInv, AttemptInv, op.kind = "none", NoTimeout, outputs = {},
         UseIsBusy, [Next]_vars
  PROVE  UseIsBusy'
<1> SUFFICES ASSUME NEW u \in Task, NEW b \in Attempt, InUse(u, b)'
             PROVE  ti'[u].state \in {"queued", "running"} /\ ti'[u].ref = b
  BY DEF UseIsBusy, Busy
<1>1. CASE Dispatch(u) /\ b = ti[u].try + 1
  BY <1>1 DEF Dispatch, OwnRow, RunInv, TypeOK, Rows
<1>2. CASE InUse(u, b)
  <2>0. /\ ti[u].state \in {"queued", "running"} /\ ti[u].ref = b
        /\ b = ti[u].try
    BY <1>2, RowFacts DEF UseIsBusy, Busy, RunInv, CopiesNamed, Named, NamesTheTry
  <2>1. CASE ti'[u] = ti[u]
    BY <2>0, <2>1
  <2>2. ASSUME NEW a \in Attempt, ByOwner(u, a) \/ ByGiveBack(u, a)
        PROVE  ti'[u].try = b /\ ti'[u].state = "running"
    BY <2>0, <2>2, UseKept
  <2>3. ti'[u].state = "running" => ti'[u].ref = ti'[u].try
    BY NextPreserves DEF Preserved, RunInv, CopiesNamed, Named, NamesTheTry
  <2>4. ~ByScan(u) /\ ~ByCall(u) /\ ~Dispatch(u) /\ ~ByTimeout(u)
    BY <2>0 DEF ByScan, ByCall, Dispatch, CanDispatch, ByTimeout, NoTimeout
  <2> QED
    BY <2>0, <2>1, <2>2, <2>3, <2>4, RowSteps DEF RowStep
<1> QED
  BY <1>1, <1>2, StartsUse

LEMMA BusyInvariant ==
  ASSUME Ops = {}, "deadline" \notin Faults, Emits = {}
  PROVE  Spec => []UseIsBusy
<1>1. Init => UseIsBusy
  BY DEF Init, Attempts, UseIsBusy, InUse
<1>2. RunInv /\ LockInv /\ AttemptInv /\ op.kind = "none" /\ NoTimeout /\ outputs = {} /\ UseIsBusy
        /\ [Next]_vars => UseIsBusy'
  BY BusyStep
<1> QED
  BY <1>1, <1>2, AttemptInvariant, NoCalls, NoTimeoutInvariant, OutputsInvariant, PTL DEF Spec

(***************************************************************************)
(* No process runs on under a settled row, whatever launches fail, writes  *)
(* are refused, probes fail or attempts are lost, across crashes and       *)
(* recovery.  An operator or a deadline kills and then writes, and a       *)
(* launch in between escapes the kill; a task with an output file may be   *)
(* settled before its process ends.                                        *)
(***************************************************************************)
THEOREM NoProcessIsOrphaned ==
  ASSUME Ops = {}, "deadline" \notin Faults, Emits = {}
  PROVE  Spec => []NoOrphanProcess
<1>1. UseIsBusy => NoOrphanProcess
  BY DEF UseIsBusy, InUse, Busy, NoOrphanProcess, TaskTerminal, TaskFailure
<1> QED
  BY <1>1, BusyInvariant, PTL

-----------------------------------------------------------------------------
(***************************************************************************)
(* A rule other than one_success and one_failed is satisfied only when     *)
(* every upstream task is terminal.                                        *)
(***************************************************************************)
LEMMA ReadyWaits ==
  ASSUME NEW rule \in Rules \ {"one_success", "one_failed"}, NEW ds, NEW st, Ready(rule, ds, st)
  PROVE  \A d \in ds : st[d] \in TaskTerminal
BY DEF Ready, Rules, AllDone, TaskTerminal, TaskFailure

WaitsForAll == \A t \in Task : Rule[t] \notin {"one_success", "one_failed"}

(***************************************************************************)
(* A harvested task, and one that takes a slot, has only terminal upstream *)
(* tasks.                                                                  *)
(***************************************************************************)
UpstreamDone ==
  \A t \in Task : t \in tick.ready \/ t \in Busy => \A d \in Deps[t] : ti[d].state \in TaskTerminal

LEMMA HarvestWaits ==
  ASSUME WaitsForAll, RunInv, NEW due \in SUBSET Task, TickScan(due), NEW t \in Task, t \in tick'.ready
  PROVE  \A d \in Deps[t] : ti'[d].state \in TaskTerminal
<1>0. tick \in TickRecord /\ due \in SUBSET UpForRetry /\ ti \in Rows /\ Named(ti)
  BY DEF RunInv, TypeOK, TickScan, CopiesNamed
<1>1. ~ReturnProcessRun({})
  BY DEF ReturnProcessRun, TickIdle
<1>2. PICK answer : /\ Collects(Requeued(due), answer)
                    /\ ti' = Gated(Requeued(due), answer)
                    /\ tick' = [tick EXCEPT !.pc = "finish", !.ready = {u \in Task : answer[u] = "run"}]
  BY <1>1 DEF TickScan
<1> DEFINE rows == Requeued(due)
<1>3. answer[t] = "run"
  BY <1>0, <1>2 DEF TickRecord
<1>4. Ready(Rule[t], Deps[t], Seen(rows, answer, t))
  BY <1>2, <1>3 DEF Collects, Asked
<1>5. rows \in Rows /\ Named(rows)
  BY <1>0, RequeuedType
<1>6. \A u \in Task : rows[u].state \in TaskTerminal => ti'[u] = rows[u]
  BY <1>2, <1>5, GatedType
<1> HIDE DEF rows
<1>7. Rule[t] \in Rules \ {"one_success", "one_failed"} /\ Deps[t] \subseteq Task
  BY DagAssumption DEF WaitsForAll
<1>8. \A d \in Deps[t] : Seen(rows, answer, t)[d] \in TaskTerminal
  BY <1>4, <1>7, ReadyWaits
<1>9. ASSUME NEW d \in Deps[t] PROVE ti'[d].state \in TaskTerminal
  <2>1. d \in Task
    BY <1>7
  <2>2. Seen(rows, answer, t)[d] = ti'[d].state \/ Seen(rows, answer, t)[d] = rows[d].state
    BY <1>2, <2>1 DEF Seen, rows
  <2> QED
    BY <1>6, <1>8, <2>1, <2>2
<1> QED
  BY <1>9

LEMMA Harvested ==
  ASSUME RunInv, [Next]_vars, NEW t \in tick'.ready
  PROVE  t \in tick.ready \/ \E due \in SUBSET Task : TickScan(due)
<1>0. tick \in TickRecord
  BY DEF RunInv, TypeOK
<1>1. CASE UNCHANGED tick
  BY <1>1
<1>2. CASE TickNext
  <2>1. CASE TickList
    BY <1>0, <2>1 DEF TickList, TickRecord
  <2>2. CASE TickLock
    BY <1>0, <2>2 DEF TickLock, TickRecord
  <2>3. CASE TickStart
    <3>1. CASE tick' = [tick EXCEPT !.pc = "scan", !.run.state = "running", !.run.clock = "fresh"]
      BY <1>0, <3>1 DEF TickRecord
    <3>2. CASE ReturnProcessRun({})
      BY <3>2 DEF ReturnProcessRun, TickIdle
    <3>3. CASE tick' = [tick EXCEPT !.pc = "scan"]
      BY <1>0, <3>3 DEF TickRecord
    <3> QED
      BY <2>3, <3>1, <3>2, <3>3 DEF TickStart
  <2>4. CASE ReturnProcessRun(tick.ready)
    BY <2>4 DEF ReturnProcessRun, TickIdle
  <2>5. CASE TickTimeout
    BY <1>0, <2>5 DEF TickTimeout, TickRecord
  <2>6. CASE TickAdmit
    <3>1. CASE tick.ready = {}
      BY <2>6, <3>1 DEF TickAdmit, TickIdle
    <3>2. CASE tick.ready # {}
      BY <1>0, <2>6, <3>2 DEF TickAdmit, TickRecord
    <3> QED
      BY <3>1, <3>2
  <2>7. CASE TickDone
    BY <2>7 DEF TickDone, TickIdle
  <2>8. ASSUME NEW u, TickTimeoutKill(u) PROVE t \in tick.ready
    BY <1>0, <2>8 DEF TickTimeoutKill, TickRecord
  <2>9. ASSUME NEW u, TickTimeoutWrite(u) PROVE t \in tick.ready
    BY <1>0, <2>9 DEF TickTimeoutWrite, TickRecord
  <2>10. ASSUME NEW u, Dispatch(u) PROVE t \in tick.ready
    BY <1>0, <2>10 DEF Dispatch, TickRecord
  <2>11. ASSUME NEW u, PassOver(u) PROVE t \in tick.ready
    BY <1>0, <2>11 DEF PassOver, TickRecord
  <2> QED
    BY <1>1, <1>2, <2>1, <2>2, <2>3, <2>4, <2>5, <2>6, <2>7, <2>8, <2>9, <2>10, <2>11
    DEF TickNext, TickFinalize, TickWithinDeadline, TickTimeoutDone, TickExpand
<1>3. CASE DeadlinePasses
  BY <1>0, <1>3 DEF DeadlinePasses, TickRecord
<1>4. CASE Crash
  BY <1>4 DEF Crash, TickIdle
<1> QED
  BY <1>1, <1>2, <1>3, <1>4, CallLeaves, OpLeaves, AttemptLeaves, RecoverLeaves DEF Next, Quiet, vars

LEMMA UpstreamStep ==
  ASSUME WaitsForAll, RunInv, LockInv, AttemptInv, BudgetInv, op.kind = "none", UpstreamDone, [Next]_vars
  PROVE  UpstreamDone'
<1> SUFFICES ASSUME NEW t \in Task, t \in tick'.ready \/ t \in Busy', NEW d \in Deps[t]
             PROVE  ti'[d].state \in TaskTerminal
  BY DEF UpstreamDone
<1>1. d \in Task /\ (ti[d].state \in TaskTerminal => ti'[d] = ti[d])
  BY NextPreserves, DagAssumption DEF Preserved, TerminalKept
<1>2. CASE t \in tick.ready \/ t \in Busy
  BY <1>1, <1>2 DEF UpstreamDone
<1>3. CASE t \in Busy' /\ t \notin Busy
  <2>1. Dispatch(t)
    BY <1>3, SlotsTaken DEF BudgetInv
  <2> QED
    BY <1>2, <2>1 DEF Dispatch
<1>4. CASE \E due \in SUBSET Task : TickScan(due)
  <2>1. CASE t \in tick'.ready
    BY <1>4, <2>1, HarvestWaits
  <2> QED
    BY <1>2, <1>3, <2>1
<1> QED
  BY <1>2, <1>3, <1>4, Harvested

(***************************************************************************)
(* No process of a task runs beside one of its upstream tasks: the harvest *)
(* is taken under one lock and dispatched under another, and rows are      *)
(* retried, reset and recovered in between, but no settled upstream task   *)
(* is opened again.  The rules one_success and one_failed do not wait for  *)
(* every upstream task.                                                    *)
(***************************************************************************)
THEOREM UpstreamFinishes ==
  ASSUME Ops = {}, "deadline" \notin Faults, Emits = {}, WaitsForAll
  PROVE  Spec => []UpstreamFinishedFirst
<1>1. Init => UpstreamDone
  <2> SUFFICES ASSUME Init PROVE UpstreamDone
    OBVIOUS
  <2>1. Busy = {} /\ tick.ready = {}
    BY DEF Init, NoRows, Absent, Busy, TickIdle
  <2> QED
    BY <2>1 DEF UpstreamDone
<1>2. RunInv /\ LockInv /\ AttemptInv /\ BudgetInv /\ op.kind = "none" /\ UpstreamDone /\ [Next]_vars
        => UpstreamDone'
  BY UpstreamStep
<1>3. UseIsBusy /\ UpstreamDone => UpstreamFinishedFirst
  <2> SUFFICES ASSUME UseIsBusy, UpstreamDone, NEW t \in Task, NEW d \in Deps[t],
                      NEW a \in Attempt, NEW b \in Attempt,
                      proc[t][a] = "running", proc[d][b] = "running"
               PROVE  FALSE
    BY DEF UpstreamFinishedFirst
  <2>1. d \in Task
    BY DagAssumption
  <2>2. t \in Busy /\ d \in Busy
    BY <2>1 DEF UseIsBusy, InUse
  <2> QED
    BY <2>2 DEF UpstreamDone, Busy, TaskTerminal, TaskFailure
<1> QED
  BY <1>1, <1>2, <1>3, BudgetInvariant, NoCalls, BusyInvariant, PTL DEF Spec

-----------------------------------------------------------------------------
(***************************************************************************)
(* A row without a ref is not written by anybody while the tick times the  *)
(* run out, so the copy the timeout writes back carries the row's try.     *)
(***************************************************************************)
TimeoutExact ==
  tick.pc = "timeout" =>
    \A t \in Task : tick.rows[t].ref = 0 => ti[t].ref = 0 /\ ti[t].try = tick.rows[t].try

LEMMA TimeoutExactStep == ASSUME RunInv, LockInv, TimeoutExact, [Next]_vars PROVE TimeoutExact'
<1> SUFFICES ASSUME tick'.pc = "timeout", NEW u \in Task, tick'.rows[u].ref = 0
             PROVE  ti'[u].ref = 0 /\ ti'[u].try = tick'.rows[u].try
  BY DEF TimeoutExact
<1>1. CASE tick'.rows = ti /\ UNCHANGED ti
  BY <1>1
<1>2. CASE tick.pc = "timeout" /\ tick'.rows = tick.rows
  <2>1. ti[u].ref = 0 /\ ti[u].try = tick.rows[u].try /\ op.kind = "none"
    BY <1>2 DEF TimeoutExact, LockInv, Locked
  <2>2. \A a \in Attempt : ~Applies(u, a)
    BY <2>1, RowFacts DEF Applies
  <2>3. ~ByScan(u) /\ ~ByCall(u) /\ ~Dispatch(u) /\ tick.pc # "expand"
    BY <1>2, <2>1 DEF ByScan, ByCall, Dispatch
  <2>4. CASE ByTimeout(u)
    BY <1>2, <2>4 DEF ByTimeout
  <2> QED
    BY <1>2, <2>1, <2>2, <2>3, <2>4, RowSteps DEF RowStep, ByOwner, ByGiveBack
<1> QED
  BY <1>1, <1>2, CopiesTaken

LEMMA TimeoutKeepsTry ==
  ASSUME RunInv, TimeoutExact, NEW u \in Task, ByTimeout(u)
  PROVE  ti'[u].try = ti[u].try /\ ti'[u].ref = ti[u].ref
BY RowFacts DEF ByTimeout, TimeoutExact, RunInv, CopiesNamed, Named, NamesTheTry

(***************************************************************************)
(* Without operator calls, output files, failing launches and lost         *)
(* attempts, what the executor has learned of an attempt it keeps.         *)
(***************************************************************************)
Exited == {"exit0", "exit1", "exit99"}

LEMMA ProcessKept ==
  ASSUME RunInv, LockInv, "exec_lost" \notin Faults, [Next]_vars, NEW u \in Task, NEW b \in Attempt
  PROVE  /\ proc[u][b] # "absent" => proc'[u][b] # "absent"
         /\ proc[u][b] \in Exited => proc'[u][b] = proc[u][b]
<1> USE DEF Exited
<1>1. CASE Same(u, b)
  BY <1>1 DEF Same
<1>2. CASE ByLaunch(u, b)
  BY <1>2 DEF ByLaunch, SameProc, Killed
<1>3. CASE ByPoll(u, b)
  BY <1>3 DEF ByPoll, SameProc
<1>4. CASE ByProcess(u, b)
  BY <1>4 DEF ByProcess, Killed, ExecutorLoses
<1>5. CASE ByReattach(u, b)
  BY <1>5 DEF ByReattach, SameProc, Killed
<1>6. CASE SameProc(u, b)
  BY <1>6 DEF SameProc
<1> QED
  BY <1>1, <1>2, <1>3, <1>4, <1>5, <1>6, GoSteps DEF GoStep

(***************************************************************************)
(* The accounts of the attempts.  Every attempt before the current one has *)
(* failed; a task waits for another one only while it has retries left;    *)
(* and whoever may record an outcome owns an attempt that was started.     *)
(***************************************************************************)
Spent(t, n) == \A b \in Attempt : b <= n => proc[t][b] = "exit1"

Account(t) ==
  /\ Spent(t, ti[t].try - 1)
  /\ ti[t].state \in {"scheduled", "up_for_retry"} =>
       ti[t].try <= MaxRetries[t] /\ Spent(t, ti[t].try)
  /\ ti[t].state \in {"queued", "running"} => ti[t].try <= MaxRetries[t] + 1

Started ==
  /\ \A t \in Task :
       /\ ti[t].state = "running" => proc[t][ti[t].ref] # "absent"
       /\ t \in rec.todo /\ rec.phase = "running" =>
            rec.rows[t].ref \in Attempt /\ proc[t][rec.rows[t].ref] # "absent"
       /\ t \in rec.cur /\ rec.seen # "absent" => proc[t][rec.rows[t].ref] # "absent"
  /\ \A t \in Task, a \in Attempt :
       polls[t][a] > 0 \/ launch[t][a] = "cas" => proc[t][a] # "absent"

Settled(t) ==
  /\ ti[t].state = "success" => ti[t].try \in Attempt /\ proc[t][ti[t].try] = "exit0"
  /\ ti[t].state = "skipped" /\ ti[t].ref # 0 => proc[t][ti[t].ref] = "exit99"
  /\ ti[t].state = "failed" /\ ti[t].ref # 0 =>
       ti[t].try = MaxRetries[t] + 1 /\ Spent(t, ti[t].try)

RealInv == TimeoutExact /\ Started /\ \A t \in Task : Account(t) /\ Settled(t)

(***************************************************************************)
(* The owner of an attempt records the exit of its process.                *)
(***************************************************************************)
LEMMA OwnerRecords ==
  ASSUME RunInv, LockInv, AttemptInv, outputs = {}, Started, "launch_error" \notin Faults,
         NEW u \in Task, NEW a \in Attempt, ByOwner(u, a)
  PROVE  \/ ti'[u].state = "running" /\ proc[u][a] # "absent"
         \/ proc[u][a] \in Exited /\ ti'[u].state = Outcome(u, a, proc[u][a])
<1>0. proc[u][a] \in ProcState
  BY DEF RunInv, TypeOK
<1>1. ~LaunchFails(u, a)
  BY DEF LaunchFails
<1>2. CASE MarkRunning(u, a) /\ ti'[u].state = "running"
  BY <1>2 DEF MarkRunning, Started
<1>3. CASE Poll(u, a) /\ ti'[u].state = Outcome(u, a, Observed(u, a))
  <2>1. proc[u][a] # "running" /\ proc[u][a] # "absent"
    BY <1>3 DEF Poll, Finished, Started
  <2> QED
    BY <1>0, <1>3, <2>1 DEF Observed, Exited, ProcState
<1>4. CASE RecoverFinalize(u) /\ rec.rows[u].ref = a /\ ti'[u].state = Outcome(u, a, rec.seen)
  <2>1. u \in rec.cur /\ u \in rec.todo /\ rec.seen # "running" /\ (rec.seen # "absent" \/ rec.phase = "running")
    BY <1>4 DEF RecoverFinalize, LockInv
  <2>2. proc[u][a] \in {rec.seen, "absent"}
    BY <1>4, <2>1 DEF AttemptInv, ProbeHolds
  <2>3. proc[u][a] # "absent"
    BY <1>4, <2>1 DEF Started
  <2> QED
    BY <1>0, <1>4, <2>1, <2>2, <2>3 DEF Exited, ProcState
<1>5. CASE RecoverReattach(u) /\ rec.rows[u].ref = a /\ ti'[u].state = "running"
  <2>1. u \in rec.cur /\ rec.seen = "running"
    BY <1>5 DEF RecoverReattach
  <2> QED
    BY <1>5, <2>1 DEF Started
<1> QED
  BY <1>1, <1>2, <1>3, <1>4, <1>5 DEF ByOwner

LEMMA AccountStep ==
  ASSUME RunInv, LockInv, AttemptInv, op.kind = "none", outputs = {}, RealInv,
         "launch_error" \notin Faults, "exec_lost" \notin Faults, [Next]_vars, NEW u \in Task
  PROVE  Account(u)' /\ Settled(u)'
<1> DEFINE n == ti[u].try
           m == MaxRetries[u]
           StillSpent(k) == \A b \in Attempt : b <= k => proc'[u][b] = "exit1"
           Good(state, try, ref) ==
             /\ StillSpent(try - 1)
             /\ state \in {"scheduled", "up_for_retry"} => try <= m /\ StillSpent(try)
             /\ state \in {"queued", "running"} => try <= m + 1
             /\ state = "success" => try \in Attempt /\ proc'[u][try] = "exit0"
             /\ state = "skipped" /\ ref # 0 => proc'[u][ref] = "exit99"
             /\ state = "failed" /\ ref # 0 => try = m + 1 /\ StillSpent(try)
<1> SUFFICES Good(ti'[u].state, ti'[u].try, ti'[u].ref)
  BY DEF Account, Settled, Spent
<1>0. /\ n \in Int /\ m \in Nat /\ Attempt \subseteq Int /\ \A b \in Attempt : b >= 1
      /\ Account(u) /\ Settled(u) /\ Started /\ TimeoutExact
  BY RowFacts, DagAssumption, BoundAssumption DEF RealInv, Attempt
<1>1. \A k : Spent(u, k) => StillSpent(k)
  BY ProcessKept DEF Spent, Exited
<1>2. \A k \in Int : k < 1 => StillSpent(k)
  BY <1>0
<1>a. /\ Spent(u, n - 1)
      /\ ti[u].state \in {"scheduled", "up_for_retry"} => n <= m /\ Spent(u, n)
      /\ ti[u].state \in {"queued", "running"} => n <= m + 1
  BY <1>0 DEF Account
<1>b. /\ StillSpent(n - 1)
      /\ ti[u].state \in {"scheduled", "up_for_retry"} => StillSpent(n)
  BY <1>1, <1>a
<1>3. CASE ti'[u] = ti[u]
  <2>1. ti[u].state = "failed" /\ ti[u].ref # 0 => n = m + 1 /\ StillSpent(n)
    BY <1>0, <1>1 DEF Settled
  <2>2. ti[u].ref # 0 => ti[u].ref \in Attempt
    BY RowFacts DEF RunInv, CopiesNamed, Named, NamesTheTry, Attempt
  <2>3. ti[u].state = "success" => n \in Attempt /\ proc'[u][n] = "exit0"
    BY <1>0, ProcessKept DEF Settled, Exited
  <2>4. ti[u].state = "skipped" /\ ti[u].ref # 0 => proc'[u][ti[u].ref] = "exit99"
    BY <1>0, <2>2, ProcessKept DEF Settled, Exited
  <2> HIDE DEF StillSpent
  <2> QED
    BY <1>3, <1>a, <1>b, <2>1, <2>3, <2>4
<1>4. CASE ti'[u].state = "scheduled" /\ ti'[u].try = 0
  <2>1. StillSpent(-1) /\ StillSpent(0) /\ 0 - 1 = -1
    BY <1>2
  <2> HIDE DEF StillSpent
  <2> QED
    BY <1>0, <1>4, <2>1
<1>5. CASE ByScan(u)
  <2> HIDE DEF StillSpent
  <2> QED
    BY <1>5, <1>a, <1>b DEF ByScan
<1>6. CASE Dispatch(u) /\ ti'[u].state = "queued" /\ ti'[u].try = n + 1
  <2>1. ti[u].state = "scheduled" /\ (n + 1) - 1 = n /\ (n <= m => n + 1 <= m + 1)
    BY <1>0, <1>6 DEF Dispatch, CanDispatch
  <2> HIDE DEF StillSpent
  <2> QED
    BY <1>6, <1>a, <1>b, <2>1
<1>7. CASE ByTimeout(u)
  <2>1. ti'[u].try = n /\ ti'[u].state = "timed_out"
    BY <1>0, <1>7, TimeoutKeepsTry DEF ByTimeout
  <2> HIDE DEF StillSpent
  <2> QED
    BY <1>b, <2>1
<1>8. ASSUME NEW a \in Attempt, ByOwner(u, a) PROVE Good(ti'[u].state, ti'[u].try, ti'[u].ref)
  <2>0. /\ ti'[u].try = a /\ ti'[u].ref = a /\ n = a /\ a \in Int
        /\ ti[u].state \in {"queued", "running", "up_for_retry"}
    BY <1>0, <1>8, AppliesNames DEF ByOwner
  <2>1. StillSpent(a - 1) /\ a <= m + 1
    BY <1>0, <1>a, <1>b, <2>0
  <2>2. proc[u][a] \in Exited => proc'[u][a] = proc[u][a]
    BY ProcessKept
  <2>3. CASE ti'[u].state = "running"
    <3> HIDE DEF StillSpent
    <3> QED
      BY <2>0, <2>1, <2>3
  <2>4. CASE proc[u][a] = "exit0" /\ ti'[u].state = Outcome(u, a, proc[u][a])
    <3>1. ti'[u].state = "success" /\ proc'[u][a] = "exit0"
      BY <2>2, <2>4 DEF Outcome, Exited
    <3> HIDE DEF StillSpent
    <3> QED
      BY <2>0, <2>1, <3>1
  <2>5. CASE proc[u][a] = "exit99" /\ ti'[u].state = Outcome(u, a, proc[u][a])
    <3>1. ti'[u].state = "skipped" /\ proc'[u][a] = "exit99"
      BY <2>2, <2>5 DEF Outcome, Exited
    <3> HIDE DEF StillSpent
    <3> QED
      BY <2>0, <2>1, <3>1
  <2>6. CASE proc[u][a] = "exit1" /\ ti'[u].state = Outcome(u, a, proc[u][a])
    <3>1. ti'[u].state = FailureState(u, a) /\ proc'[u][a] = "exit1"
      BY <2>2, <2>6 DEF Outcome, Exited
    <3>2. StillSpent(a)
      <4> SUFFICES ASSUME NEW b \in Attempt, b <= a PROVE proc'[u][b] = "exit1"
        OBVIOUS
      <4>1. b = a \/ b <= a - 1
        BY <1>0, <2>0
      <4> QED
        BY <2>1, <3>1, <4>1
    <3>3. CASE a <= m
      <4>1. ti'[u].state = "up_for_retry"
        BY <3>1, <3>3 DEF FailureState
      <4> HIDE DEF StillSpent
      <4> QED
        BY <2>0, <2>1, <3>2, <3>3, <4>1
    <3>4. CASE ~(a <= m)
      <4>1. ti'[u].state = "failed" /\ a = m + 1
        BY <1>0, <2>0, <2>1, <3>1, <3>4 DEF FailureState
      <4> HIDE DEF StillSpent
      <4> QED
        BY <2>0, <2>1, <3>2, <4>1
    <3> QED
      BY <3>3, <3>4
  <2> QED
    BY <1>0, <1>8, <2>3, <2>4, <2>5, <2>6, OwnerRecords DEF Exited
<1>9. ASSUME NEW a \in Attempt, ByGiveBack(u, a) PROVE Good(ti'[u].state, ti'[u].try, ti'[u].ref)
  <2>0. /\ ti'[u].try = a - 1 /\ ti'[u].state = "scheduled" /\ n = a /\ a \in Int
        /\ ti[u].state \in {"queued", "running", "up_for_retry"}
    BY <1>0, <1>9, AppliesNames DEF ByGiveBack
  <2>1. StillSpent(a - 1) /\ a - 1 <= m
    BY <1>0, <1>a, <1>b, <2>0
  <2>2. StillSpent((a - 1) - 1)
    <3> SUFFICES ASSUME NEW b \in Attempt, b <= (a - 1) - 1 PROVE proc'[u][b] = "exit1"
      OBVIOUS
    <3>1. b <= a - 1
      BY <1>0, <2>0
    <3> QED
      BY <2>1, <3>1
  <2> HIDE DEF StillSpent
  <2> QED
    BY <2>0, <2>1, <2>2
<1>10. ~ByCall(u)
  BY DEF ByCall
<1> HIDE DEF Good
<1> QED
  BY <1>3, <1>4, <1>5, <1>6, <1>7, <1>8, <1>9, <1>10, RowSteps DEF RowStep

LEMMA ProbeTaken ==
  ASSUME RunInv, [Next]_vars
  PROVE  \/ rec'.cur = {}
         \/ rec'.cur = rec.cur /\ rec'.seen = rec.seen /\ rec'.rows = rec.rows
         \/ \E t \in Task : RecoverProbe(t)
<1>0. rec \in RecRecord
  BY DEF RunInv, TypeOK
<1>1. CASE UNCHANGED rec
  BY <1>1
<1>2. CASE RecoverQueued
  BY <1>2 DEF RecoverQueued, RecUp
<1>3. CASE RecoverRunning
  BY <1>3 DEF RecoverRunning, RecUp
<1>4. CASE RecoverDone
  BY <1>4 DEF RecoverDone, RecUp
<1>5. ASSUME NEW t, RecoverProbeError(t) PROVE rec'.cur = rec.cur /\ rec'.seen = rec.seen /\ rec'.rows = rec.rows
  BY <1>0, <1>5 DEF RecoverProbeError, RecRecord
<1>6. ASSUME NEW t, RecoverFinalize(t) \/ RecoverReattach(t) \/ RecoverReset(t) PROVE rec'.cur = {}
  BY <1>0, <1>6 DEF RecoverFinalize, RecoverReattach, RecoverReset, RecoverNext, RecRecord
<1>7. CASE Crash
  BY <1>7 DEF Crash, RecUp
<1> QED
  BY <1>1, <1>2, <1>3, <1>4, <1>5, <1>6, <1>7, TickLeaves, CallLeaves, OpLeaves, AttemptLeaves
  DEF Next, Quiet, vars, DeadlinePasses, RecoverNextStep

LEMMA StartedStep ==
  ASSUME RunInv, LockInv, AttemptInv, op.kind = "none", outputs = {}, RealInv,
         "launch_error" \notin Faults, "exec_lost" \notin Faults, [Next]_vars
  PROVE  Started'
<1>0. /\ Started /\ RunInv' /\ rec \in RecRecord /\ rec.todo \subseteq Task /\ rec.cur \subseteq Task
      /\ proc \in [Task -> [Attempt -> ProcState]] /\ polls \in [Task -> [Attempt -> Nat]]
  BY NextPreserves DEF Preserved, RealInv, RunInv, TypeOK, RecRecord
<1>a. \A t \in Task : ti[t].state = "running" => ti[t].ref \in Attempt
  BY RowFacts DEF RunInv, CopiesNamed, Named, NamesTheTry, Attempt
<1>1. ASSUME NEW u \in Task, ti'[u].state = "running" PROVE proc'[u][ti'[u].ref] # "absent"
  <2>1. CASE ti'[u] = ti[u]
    BY <1>0, <1>1, <1>a, <2>1, ProcessKept DEF Started
  <2>2. ASSUME NEW a \in Attempt, ByOwner(u, a) PROVE proc'[u][ti'[u].ref] # "absent"
    <3>1. ti'[u].ref = a
      BY <2>2 DEF ByOwner
    <3>2. proc[u][a] # "absent"
      BY <1>0, <2>2, OwnerRecords DEF Exited
    <3> QED
      BY <3>1, <3>2, ProcessKept
  <2>3. ~ByScan(u) /\ ~ByCall(u) /\ ~ByTimeout(u) /\ \A a \in Attempt : ~ByGiveBack(u, a)
    BY <1>1 DEF ByScan, ByCall, ByTimeout, ByGiveBack
  <2> QED
    BY <1>1, <2>1, <2>2, <2>3, RowSteps DEF RowStep
<1>2. ASSUME NEW u \in Task, u \in rec'.todo, rec'.phase = "running"
      PROVE  rec'.rows[u].ref \in Attempt /\ proc'[u][rec'.rows[u].ref] # "absent"
  <2>1. CASE rec'.rows = ti /\ UNCHANGED proc /\ rec'.todo = RecoverList("running")
    BY <1>0, <1>2, <1>a, <2>1 DEF RecoverList, Started
  <2>2. CASE rec'.rows = rec.rows /\ rec'.phase = rec.phase /\ rec'.todo \subseteq rec.todo
    BY <1>0, <1>2, <2>2, ProcessKept DEF Started
  <2> QED
    BY <1>2, <2>1, <2>2, ListTaken
<1>3. ASSUME NEW u \in Task, u \in rec'.cur, rec'.seen # "absent"
      PROVE  proc'[u][rec'.rows[u].ref] # "absent"
  <2>1. CASE rec'.cur = rec.cur /\ rec'.seen = rec.seen /\ rec'.rows = rec.rows
    BY <1>0, <1>3, <2>1, ProcessKept DEF Started, RunInv, RecPhase
  <2>2. ASSUME NEW t \in Task, RecoverProbe(t) PROVE proc'[u][rec'.rows[u].ref] # "absent"
    <3>1. PICK a \in Attempt : /\ rec.rows[t].ref = a
                               /\ rec' = [rec EXCEPT !.cur = {t}, !.seen = proc[t][a]]
      BY <2>2 DEF RecoverProbe
    <3>2. rec'.cur = {t} /\ rec'.seen = proc[t][a] /\ rec'.rows = rec.rows /\ UNCHANGED proc
      BY <1>0, <2>2, <3>1 DEF RecRecord, RecoverProbe, execVars
    <3> QED
      BY <1>3, <3>1, <3>2
  <2> QED
    BY <1>3, <2>1, <2>2, ProbeTaken
<1>4. ASSUME NEW u \in Task, NEW b \in Attempt, polls'[u][b] > 0 \/ launch'[u][b] = "cas"
      PROVE  proc'[u][b] # "absent"
  <2>0. /\ polls[u][b] > 0 \/ launch[u][b] = "cas" => proc[u][b] # "absent"
        /\ proc[u][b] # "absent" => proc'[u][b] # "absent"
        /\ polls[u][b] \in Nat
    BY <1>0, ProcessKept DEF Started
  <2>1. CASE Same(u, b)
    BY <1>4, <2>0, <2>1 DEF Same
  <2>2. CASE Dispatch(u) /\ launch'[u][b] = "check" /\ polls'[u][b] = polls[u][b]
    BY <1>4, <2>0, <2>2
  <2>3. CASE ByLaunch(u, b)
    BY <1>4, <2>0, <2>3 DEF ByLaunch
  <2>4. CASE ByPoll(u, b)
    BY <1>4, <2>0, <2>4 DEF ByPoll
  <2>5. CASE ByProcess(u, b)
    BY <1>4, <2>0, <2>5 DEF ByProcess, SameGo
  <2>6. CASE ByReattach(u, b)
    <3>1. proc[u][b] # "absent"
      BY <1>0, <2>6 DEF ByReattach, RecoverReattach, Started
    <3> QED
      BY <2>0, <3>1
  <2>7. CASE launch'[u][b] = "none" /\ polls'[u][b] = 0
    BY <1>4, <2>7
  <2> QED
    BY <2>1, <2>2, <2>3, <2>4, <2>5, <2>6, <2>7, GoSteps DEF GoStep
<1> QED
  BY <1>1, <1>2, <1>3, <1>4 DEF Started

(***************************************************************************)
(* Recorded outcomes are what the processes did: a success and a self-skip *)
(* are exit codes of the current attempt, and a task has failed only when  *)
(* it has used its attempts, no more and no fewer, and each one failed.    *)
(* Deadlines, store errors, empty worker groups, crashes and recovery      *)
(* neither lose an attempt nor charge one.                                 *)
(***************************************************************************)
THEOREM OutcomesAreReal ==
  ASSUME Ops = {}, Emits = {}, "launch_error" \notin Faults, "exec_lost" \notin Faults
  PROVE  Spec => []OutcomeIsReal
<1>1. Init => RealInv
  <2> SUFFICES ASSUME Init PROVE RealInv
    OBVIOUS
  <2>1. \A t \in Task : ti[t].state = "absent" /\ ti[t].try = 0
    BY DEF Init, NoRows, Absent
  <2>2. \A t \in Task, a \in Attempt : polls[t][a] = 0 /\ launch[t][a] = "none"
    BY DEF Init, Attempts
  <2>3. tick.pc = "idle" /\ rec.todo = {} /\ rec.cur = {}
    BY DEF Init, TickIdle, RecUp
  <2>4. \A b \in Attempt : ~(b <= 0 - 1)
    BY DEF Attempt
  <2> QED
    BY <2>1, <2>2, <2>3, <2>4 DEF RealInv, TimeoutExact, Started, Account, Settled, Spent
<1>2. RunInv /\ LockInv /\ AttemptInv /\ op.kind = "none" /\ outputs = {} /\ RealInv /\ [Next]_vars
        => RealInv'
  BY TimeoutExactStep, AccountStep, StartedStep DEF RealInv
<1>3. RunInv /\ RealInv => OutcomeIsReal
  <2> SUFFICES ASSUME RunInv, RealInv, NEW t \in Task
               PROVE  /\ ti[t].state = "success" => proc[t][ti[t].try] = "exit0"
                      /\ ti[t].state = "skipped" /\ ti[t].ref # 0 => proc[t][ti[t].ref] = "exit99"
                      /\ ti[t].state = "failed" /\ ti[t].ref # 0 =>
                           /\ ti[t].try = MaxRetries[t] + 1
                           /\ \A a \in 1..ti[t].try : proc[t][a] = "exit1"
    BY DEF OutcomeIsReal
  <2>1. Settled(t)
    BY DEF RealInv
  <2>2. \A a \in 1..ti[t].try : a \in Attempt /\ a <= ti[t].try
    BY RowFacts DEF Attempt
  <2> QED
    BY <2>1, <2>2 DEF Settled, Spent
<1> QED
  BY <1>1, <1>2, <1>3, AttemptInvariant, NoCalls, OutputsInvariant, PTL DEF Spec

-----------------------------------------------------------------------------
(***************************************************************************)
(* No row is ever deleted, so a tick past expandRun has all its rows.      *)
(***************************************************************************)
LEMMA RowsStay == ASSUME RunInv, [Next]_vars PROVE Existing(ti) \subseteq Existing(ti)'
<1> SUFFICES ASSUME NEW u \in Task, ti[u].state # "absent" PROVE ti'[u].state # "absent"
  BY DEF Existing
<1> USE DEF TaskTerminal, TaskFailure
<1>1. ASSUME NEW a \in Attempt, ByOwner(u, a) \/ ByGiveBack(u, a) PROVE ti'[u].state # "absent"
  BY <1>1 DEF ByOwner, ByGiveBack, Outcome, FailureState
<1>2. ByScan(u) \/ ByTimeout(u) \/ ByCall(u) => ti'[u].state # "absent"
  BY DEF ByScan, ByTimeout, ByCall
<1> QED
  BY <1>1, <1>2, RowSteps DEF RowStep

PastExpand == {"scan", "finish", "timeout", "harvest", "admit"}

Expanded == tick.pc \in PastExpand => Existing(ti) = Task

(***************************************************************************)
(* The places of the tick, and the steps between them.                     *)
(***************************************************************************)
LEMMA TickMoves ==
  ASSUME RunInv, [Next]_vars
  PROVE  \/ tick'.pc = tick.pc
         \/ tick'.pc = "idle" /\ (TickAdmit \/ TickDone \/ Crash)
         \/ tick.pc = "idle" /\ TickList /\ tick'.pc = "listed"
         \/ tick.pc = "listed" /\ TickLock /\ tick'.pc = "expand"
         \/ tick.pc = "expand" /\ TickStart /\ tick'.pc \in {"scan", "harvest"}
         \/ /\ tick.pc = "scan" /\ (\E due \in SUBSET Task : TickScan(due))
            /\ tick'.pc \in {"finish", "harvest"}
         \/ tick.pc = "finish" /\ tick'.pc = "timeout" /\ TickTimeout
         \/ /\ tick.pc = "finish" /\ tick'.pc = "harvest"
            /\ TickFinalize \/ TickWithinDeadline
         \/ tick.pc = "timeout" /\ tick'.pc = "harvest" /\ TickTimeoutDone
         \/ tick.pc = "harvest" /\ TickAdmit /\ tick'.pc = "admit"
<1>0. tick \in TickRecord
  BY DEF RunInv, TypeOK
<1>1. CASE UNCHANGED tick
  BY <1>1
<1>2. CASE TickNext
  <2>1. CASE TickList
    BY <1>0, <2>1 DEF TickList, TickRecord
  <2>2. CASE TickLock
    BY <1>0, <2>2 DEF TickLock, TickRecord
  <2>3. CASE TickStart
    <3>1. CASE tick' = [tick EXCEPT !.pc = "scan", !.run.state = "running", !.run.clock = "fresh"]
      BY <1>0, <2>3, <3>1 DEF TickRecord, TickStart
    <3>2. CASE ReturnProcessRun({})
      BY <2>3, <3>2 DEF ReturnProcessRun, TickIdle, TickStart
    <3>3. CASE tick' = [tick EXCEPT !.pc = "scan"]
      BY <1>0, <2>3, <3>3 DEF TickRecord, TickStart
    <3> QED
      BY <2>3, <3>1, <3>2, <3>3 DEF TickStart
  <2>4. CASE TickFinalize
    BY <2>4 DEF TickFinalize, ReturnProcessRun, TickIdle
  <2>5. CASE TickWithinDeadline
    BY <2>5 DEF TickWithinDeadline, ReturnProcessRun, TickIdle
  <2>6. CASE TickTimeoutDone
    BY <2>6 DEF TickTimeoutDone, ReturnProcessRun, TickIdle
  <2>7. CASE TickTimeout
    BY <1>0, <2>7 DEF TickTimeout, TickRecord
  <2>8. CASE TickAdmit /\ tick.ready = {}
    BY <2>8 DEF TickAdmit, TickIdle
  <2>9. CASE TickAdmit /\ tick.ready # {}
    BY <1>0, <2>9 DEF TickAdmit, TickRecord
  <2>10. CASE TickDone
    BY <2>10 DEF TickDone, TickIdle
  <2>11. ASSUME NEW due \in SUBSET Task, TickScan(due) PROVE tick.pc = "scan" /\ tick'.pc \in {"finish", "harvest"}
    <3>1. CASE ReturnProcessRun({})
      BY <2>11, <3>1 DEF ReturnProcessRun, TickIdle, TickScan
    <3>2. CASE \E ready : tick' = [tick EXCEPT !.pc = "finish", !.ready = ready]
      BY <1>0, <2>11, <3>2 DEF TickRecord, TickScan
    <3> QED
      BY <2>11, <3>1, <3>2 DEF TickScan
  <2>12. ASSUME NEW u, TickTimeoutKill(u) PROVE tick'.pc = tick.pc
    BY <1>0, <2>12 DEF TickTimeoutKill, TickRecord
  <2>13. ASSUME NEW u, TickTimeoutWrite(u) PROVE tick'.pc = tick.pc
    BY <1>0, <2>13 DEF TickTimeoutWrite, TickRecord
  <2>14. ASSUME NEW u, Dispatch(u) PROVE tick'.pc = tick.pc
    BY <1>0, <2>14 DEF Dispatch, TickRecord
  <2>15. ASSUME NEW u, PassOver(u) PROVE tick'.pc = tick.pc
    BY <1>0, <2>15 DEF PassOver, TickRecord
  <2>16. ASSUME NEW u, TickExpand(u) PROVE tick'.pc = tick.pc
    BY <2>16 DEF TickExpand
  <2> QED
    BY <1>2, <2>1, <2>2, <2>3, <2>4, <2>5, <2>6, <2>7, <2>8, <2>9, <2>10, <2>11, <2>12, <2>13,
       <2>14, <2>15, <2>16 DEF TickNext
<1>3. CASE DeadlinePasses
  BY <1>0, <1>3 DEF DeadlinePasses, TickRecord
<1>4. CASE Crash
  BY <1>4 DEF Crash, TickIdle
<1> QED
  BY <1>1, <1>2, <1>3, <1>4, CallLeaves, OpLeaves, AttemptLeaves, RecoverLeaves DEF Next, Quiet, vars

LEMMA ExpandedInvariant == Spec => []Expanded
<1>1. Init => Expanded
  BY DEF Init, TickIdle, Expanded, PastExpand
<1>2. RunInv /\ Expanded /\ [Next]_vars => Expanded'
  <2> SUFFICES ASSUME RunInv, Expanded, [Next]_vars, tick'.pc \in PastExpand PROVE Existing(ti)' = Task
    BY DEF Expanded
  <2>1. Existing(ti) \subseteq Existing(ti)' /\ Existing(ti)' \subseteq Task
    BY RowsStay DEF Existing
  <2>2. tick.pc \in PastExpand \/ TickStart
    BY TickMoves DEF PastExpand
  <2> QED
    BY <2>1, <2>2 DEF Expanded, TickStart
<1> QED
  BY <1>1, <1>2, RunInvariant, PTL DEF Spec

-----------------------------------------------------------------------------
(***************************************************************************)
(* Every way a step may change the state of the run.                       *)
(***************************************************************************)
LEMMA RunMoves ==
  ASSUME RunInv, [Next]_vars
  PROVE  \/ run'.state = run.state
         \/ TickStart /\ run'.state = "running"
         \/ TickFinalize /\ run'.state = FinalState(States(ti))
         \/ TickTimeout /\ run'.state = "timed_out"
         \/ CancelRun /\ run'.state = "cancelled"
         \/ Reactivate /\ op.settled /\ run'.state = "running"
         \/ \E target \in {"success", "failed"} : MarkRun(target) /\ run'.state = target
<1>0. run \in RunRow
  BY DEF RunInv, TypeOK
<1>1. CASE UNCHANGED run
  BY <1>1
<1>2. CASE TickNext
  <2>1. CASE TickStart
    BY <1>0, <2>1 DEF TickStart, RunRow
  <2>2. CASE TickFinalize
    BY <1>0, <2>2 DEF TickFinalize, RunRow
  <2>3. CASE TickTimeout
    BY <1>0, <2>3 DEF TickTimeout, RunRow
  <2> QED
    BY <1>1, <1>2, <2>1, <2>2, <2>3 DEF TickNext, TickList, TickLock, TickWithinDeadline,
       TickTimeoutDone, TickAdmit, TickDone, TickScan, TickExpand, TickTimeoutKill,
       TickTimeoutWrite, Dispatch, PassOver, rowVars
<1>3. CASE CallNext
  <2>1. CASE CancelRun
    BY <1>0, <2>1 DEF CancelRun, RunRow
  <2>2. ASSUME NEW target \in {"success", "failed"}, MarkRun(target) PROVE run'.state = target
    BY <1>0, <2>2 DEF MarkRun, RunRow
  <2>3. ASSUME NEW held, SetHeld(held) PROVE run'.state = run.state
    BY <1>0, <2>3 DEF SetHeld, RunRow
  <2> QED
    BY <1>1, <1>3, <2>1, <2>2, <2>3 DEF CallNext, RetryRun, RetryTask, Retry, MarkTask, rowVars
<1>4. CASE OpNext
  <2>1. CASE Reactivate
    BY <1>0, <2>1 DEF Reactivate, RunRow
  <2> QED
    BY <1>1, <1>4, <2>1 DEF OpNext, CancelDone, CancelKill, CancelWrite, MarkKill, MarkSet,
       ClearTask, rowVars
<1>5. CASE DeadlinePasses
  BY <1>0, <1>5 DEF DeadlinePasses, RunRow
<1>6. CASE Crash
  BY <1>6 DEF Crash, rowVars
<1> QED
  BY <1>1, <1>2, <1>3, <1>4, <1>5, <1>6, AttemptLeaves, RecoverLeaves DEF Next, Quiet, vars

(***************************************************************************)
(* Every way a step may change the operator call in progress.              *)
(***************************************************************************)
LEMMA OpMoves ==
  ASSUME RunInv, LockInv, [Next]_vars
  PROVE  \/ op' = op
         \/ op'.kind = "none" /\ (CancelDone \/ Reactivate \/ Crash)
         \/ CancelRun /\ op'.kind = "cancel" /\ op'.todo = Unsettled(ti)
         \/ /\ \E t \in Task : \E target : MarkTask(t, target)
            /\ op'.kind = "mark" /\ op'.pc # "start" /\ op'.settled = (run.state \in RunTerminal)
         \/ /\ \E kind, ids : Retry(kind, ids)
            /\ op'.kind = "retry" /\ op'.pc # "start" /\ op'.settled
            /\ Task \ Existing(ti) \subseteq op'.todo
         \/ /\ op'.kind = op.kind /\ op'.settled = op.settled /\ op'.pc # "start"
            /\ op.pc # "start" /\ (\E t \in Task : MarkKill(t) \/ MarkSet(t) \/ ClearTask(t))
         \/ /\ op'.kind = op.kind /\ op'.settled = op.settled /\ op'.pc = op.pc
            /\ op.kind = "cancel" /\ (\E t \in Task : CancelKill(t) \/ CancelWrite(t))
<1>0. op \in OpRecord
  BY DEF RunInv, TypeOK
<1>1. CASE CancelRun
  BY <1>1 DEF CancelRun, BeginOp, OpNone
<1>2. ASSUME NEW t \in Task, NEW target, MarkTask(t, target)
      PROVE  op'.kind = "mark" /\ op'.pc # "start" /\ op'.settled = (run.state \in RunTerminal)
  <2> DEFINE settled == run.state \in RunTerminal
             o == [OpNone EXCEPT !.kind = "mark", !.pc = "kill", !.task = {t},
                                 !.target = target, !.settled = settled]
  <2>1. op' = [o EXCEPT !.rows = ti]
    BY <1>2 DEF MarkTask, BeginOp
  <2> HIDE DEF settled
  <2>2. op'.kind = "mark" /\ op'.pc = "kill" /\ op'.settled = settled
    BY <2>1 DEF OpNone
  <2> QED
    BY <2>2 DEF settled
<1>3. ASSUME NEW kind, NEW ids, Retry(kind, ids)
      PROVE  op'.kind = "retry" /\ op'.pc # "start" /\ op'.settled /\ Task \ Existing(ti) \subseteq op'.todo
  BY <1>3 DEF Retry, BeginOp, OpNone
<1>4. CASE CallNext
  BY <1>1, <1>2, <1>3, <1>4 DEF CallNext, RetryRun, RetryTask, MarkRun, SetHeld
<1>5. CASE CancelDone \/ Reactivate \/ Crash
  BY <1>5 DEF CancelDone, Reactivate, Crash, EndOp, OpNone
<1>6. ASSUME NEW t \in Task, MarkKill(t) \/ MarkSet(t) \/ ClearTask(t)
      PROVE  op'.kind = op.kind /\ op'.settled = op.settled /\ op'.pc # "start" /\ op.pc # "start"
  BY <1>0, <1>6 DEF MarkKill, MarkSet, ClearTask, OpRecord
<1>7. ASSUME NEW t \in Task, CancelKill(t) \/ CancelWrite(t)
      PROVE  op'.kind = op.kind /\ op'.settled = op.settled /\ op'.pc = op.pc /\ op.kind = "cancel"
  BY <1>0, <1>7 DEF CancelKill, CancelWrite, OpRecord
<1>8. CASE OpNext
  BY <1>5, <1>6, <1>7, <1>8 DEF OpNext
<1> QED
  BY <1>4, <1>5, <1>8, TickLeaves, AttemptLeaves, RecoverLeaves DEF Next, Quiet, vars, DeadlinePasses

-----------------------------------------------------------------------------
(***************************************************************************)
(* A successful run has earned it, or a call that will reactivate it is    *)
(* under way.  A crash in the middle of such a call would leave a success  *)
(* with tasks cleared: the theorem is about runs without operator calls,   *)
(* or without crashes.                                                     *)
(***************************************************************************)
AllEarned == \A t \in Task : ti[t].state \in {"success", "skipped"}

Earned ==
  run.state = "success" =>
    \/ mu = "op" /\ op.settled /\ op.pc # "start"
    \/ mu # "op" /\ AllEarned

NoCrashInCall == MaxCrashes = 0 \/ op.kind = "none"

LEMMA FinalizedEarned ==
  ASSUME RunInv, Expanded, TickFinalize, FinalState(States(ti)) = "success"
  PROVE  AllEarned /\ UNCHANGED ti /\ mu' = "free"
<1>1. Existing(ti) = Task /\ Unsettled(ti) = {} /\ UNCHANGED ti /\ mu' = "free"
  BY DEF TickFinalize, Expanded, PastExpand, ReturnProcessRun
<1>2. \A t \in Task : ti[t].state \in TaskTerminal
  BY <1>1 DEF Unsettled
<1>3. \A t \in Task : ti[t].state \notin {"failed", "upstream_failed", "timed_out", "cancelled"}
  BY DEF FinalState, States
<1> QED
  BY <1>1, <1>2, <1>3 DEF AllEarned, TaskTerminal, TaskFailure

LEMMA EarnedStep ==
  ASSUME "mark_run" \notin Ops, RunInv, LockInv, Expanded, NoCrashInCall, Earned, [Next]_vars
  PROVE  Earned'
<1> SUFFICES ASSUME run'.state = "success"
             PROVE  \/ mu' = "op" /\ op'.settled /\ op'.pc # "start"
                    \/ mu' # "op" /\ AllEarned'
  BY DEF Earned
<1>0. LockInv'
  BY LockStep
<1>1. run.state = "success" \/ (TickFinalize /\ FinalState(States(ti)) = "success")
  BY RunMoves DEF MarkRun, CanCall
<1>2. CASE TickFinalize /\ FinalState(States(ti)) = "success"
  BY <1>2, FinalizedEarned DEF AllEarned
<1>3. CASE run.state = "success" /\ mu = "op" /\ op.settled /\ op.pc # "start"
  <2>1. op.kind # "none" /\ op.kind # "cancel"
    BY <1>3 DEF LockInv
  <2>2. ~CancelDone /\ ~CancelRun
    BY <2>1 DEF CancelDone, CancelRun, CanCall
  <2>3. ~Reactivate
    <3> SUFFICES ASSUME Reactivate PROVE FALSE
      OBVIOUS
    <3>1. run' = [run EXCEPT !.state = "running", !.clock = "fresh"]
      BY <1>3 DEF Reactivate, CanMove, LegalPriorRunStates, RunTerminal
    <3> QED
      BY <3>1 DEF RunInv, TypeOK, RunRow
  <2>4. ~Crash
    BY <2>1, BoundAssumption DEF Crash, NoCrashInCall, RunInv, TypeOK
  <2>5. \A t, target, kind, ids : ~MarkTask(t, target) /\ ~Retry(kind, ids)
    BY <2>1 DEF MarkTask, Retry, CanCall
  <2>6. op'.kind = op.kind /\ op'.settled /\ op'.pc # "start"
    BY <1>3, <2>1, <2>2, <2>3, <2>4, <2>5, OpMoves
  <2> QED
    BY <1>0, <2>1, <2>6 DEF LockInv
<1>4. CASE run.state = "success" /\ mu # "op" /\ AllEarned
  <2>1. op.kind = "none" /\ TerminalKept
    BY <1>4, NextPreserves DEF LockInv, Preserved
  <2>2. AllEarned'
    BY <1>4, <2>1 DEF AllEarned, TerminalKept, TaskTerminal
  <2>3. ~CancelRun
    BY <1>4 DEF CancelRun, RunActive
  <2>4. op'.kind = "none" \/ (op'.settled /\ op'.pc # "start")
    BY <1>4, <2>1, <2>3, OpMoves DEF RunTerminal, RunInv, OpPhase
  <2> QED
    BY <1>0, <2>2, <2>4 DEF LockInv
<1> QED
  BY <1>1, <1>2, <1>3, <1>4 DEF Earned

(***************************************************************************)
(* A run recorded as a success by TickFinalize (step 4 of processRun) has  *)
(* only successful and skipped tasks, until an operator call that will     *)
(* reactivate it takes the lock.  MarkRun may call any run a success, so   *)
(* it is left out; so are crashes in the middle of an operator call, which *)
(* leave the run as it was with its tasks cleared.                         *)
(***************************************************************************)
THEOREM SuccessesAreEarned ==
  ASSUME "mark_run" \notin Ops, Ops = {} \/ MaxCrashes = 0
  PROVE  Spec => []SuccessIsEarned
<1>1. Init => Earned
  BY DEF Init, Earned
<1>2. RunInv /\ LockInv /\ Expanded /\ NoCrashInCall /\ Earned /\ [Next]_vars => Earned'
  BY EarnedStep
<1>3. Earned => SuccessIsEarned
  BY DEF Earned, SuccessIsEarned, AllEarned
<1>4. Spec => []NoCrashInCall
  <2>1. CASE Ops = {}
    <3>1. op.kind = "none" => NoCrashInCall
      BY DEF NoCrashInCall
    <3> QED
      BY <2>1, <3>1, NoCalls, PTL
  <2>2. CASE MaxCrashes = 0
    <3>1. NoCrashInCall
      BY <2>2 DEF NoCrashInCall
    <3> QED
      BY <3>1, PTL
  <2> QED
    BY <2>1, <2>2
<1> QED
  BY <1>1, <1>2, <1>3, <1>4, RunInvariant, LockInvariant, ExpandedInvariant, PTL DEF Spec

-----------------------------------------------------------------------------
(***************************************************************************)
(* The copy of the run that the tick was given, and the rows a step adds.  *)
(***************************************************************************)
LEMMA CopyKept ==
  ASSUME RunInv, [Next]_vars, tick'.pc \in {"listed", "expand"}
  PROVE  \/ TickList /\ tick'.run = run /\ UNCHANGED <<run, ti>>
         \/ tick.pc \in {"listed", "expand"} /\ tick'.run.state = tick.run.state
<1>0. tick \in TickRecord /\ tick.run \in RunRow
  BY DEF RunInv, TypeOK, TickRecord
<1>1. CASE UNCHANGED tick
  BY <1>1
<1>2. CASE TickNext
  <2>1. CASE TickList
    BY <1>0, <2>1 DEF TickList, TickRecord, rowVars
  <2>2. CASE TickLock
    BY <1>0, <2>2 DEF TickLock, TickRecord
  <2>3. ASSUME NEW u, TickExpand(u) PROVE UNCHANGED tick
    BY <2>3 DEF TickExpand
  <2>4. CASE tick.pc \in PastExpand
    BY <2>4, TickMoves DEF PastExpand, TickList, TickLock
  <2>5. CASE TickStart
    BY <2>5, TickMoves DEF TickStart, TickList, TickLock, TickFinalize, TickWithinDeadline,
       TickTimeout, TickAdmit, TickDone, TickScan, TickTimeoutDone, TickRecord, ReturnProcessRun,
       TickIdle, RunInv, TypeOK
  <2> QED
    BY <1>1, <1>2, <2>1, <2>2, <2>3, <2>4, <2>5 DEF TickNext, PastExpand, TickFinalize,
       TickWithinDeadline, TickTimeout, TickTimeoutDone, TickAdmit, TickDone, TickScan,
       TickTimeoutKill, TickTimeoutWrite, Dispatch, PassOver
<1>3. CASE DeadlinePasses
  BY <1>0, <1>3 DEF DeadlinePasses, TickRecord, RunRow
<1>4. CASE Crash
  BY <1>4 DEF Crash, TickIdle
<1> QED
  BY <1>1, <1>2, <1>3, <1>4, CallLeaves, OpLeaves, AttemptLeaves, RecoverLeaves DEF Next, Quiet, vars

LEMMA NewRow ==
  ASSUME RunInv, Expanded, [Next]_vars, NEW u \in Task,
         ti[u].state = "absent", ti'[u].state # "absent"
  PROVE  tick.pc = "expand" \/ CancelWrite(u) \/ MarkSet(u) \/ ClearTask(u)
<1>1. \A a \in Attempt : ~ByOwner(u, a) /\ ~ByGiveBack(u, a)
  BY AppliesNames DEF ByOwner, ByGiveBack
<1>2. ~ByScan(u) /\ ~Dispatch(u)
  BY DEF ByScan, Dispatch, CanDispatch
<1>3. ~ByTimeout(u)
  BY DEF ByTimeout, Expanded, PastExpand, Existing
<1> QED
  BY <1>1, <1>2, <1>3, RowSteps DEF RowStep, ByCall

(***************************************************************************)
(* Settled rows stay settled while no operator call is at work.            *)
(***************************************************************************)
LEMMA SettledKept ==
  ASSUME RunInv, Expanded, op.kind = "none", [Next]_vars, Unsettled(ti) = {},
         tick.pc = "expand" => Existing(ti) = Task
  PROVE  Unsettled(ti)' = {}
<1> SUFFICES ASSUME NEW u \in Task, ti'[u].state # "absent" PROVE ti'[u].state \in TaskTerminal
  BY DEF Unsettled, Existing
<1>1. CASE ti[u].state # "absent"
  <2>1. ti[u].state \in TaskTerminal
    BY <1>1 DEF Unsettled, Existing
  <2> QED
    BY <2>1, NextPreserves DEF Preserved, TerminalKept
<1>2. CASE ti[u].state = "absent"
  <2>1. tick.pc # "expand"
    BY <1>2 DEF Existing
  <2>2. ~CancelWrite(u) /\ ~MarkSet(u) /\ ~ClearTask(u)
    BY DEF CancelWrite, MarkSet, ClearTask, RunInv, OpPhase
  <2> QED
    BY <1>2, <2>1, <2>2, NewRow
<1> QED
  BY <1>1, <1>2

(***************************************************************************)
(* A tick past expandRun works on a run that has left the queue.           *)
(***************************************************************************)
Begun ==
  /\ tick.pc \in PastExpand => run.state # "queued"
  /\ tick.pc \in {"listed", "expand"} /\ tick.run.state # "queued" => run.state # "queued"

LEMMA BegunStep == ASSUME RunInv, Begun, [Next]_vars PROVE Begun'
<1>0. run.state # "queued" => run'.state # "queued"
  BY RunMoves DEF FinalState
<1>1. ASSUME tick'.pc \in PastExpand PROVE run'.state # "queued"
  <2>1. CASE tick.pc \in PastExpand
    BY <1>0, <2>1 DEF Begun
  <2>2. CASE TickStart
    <3>1. run.state # "queued" \/ CanMove("running")
      BY DEF CanMove, LegalPriorRunStates
    <3>2. run \in RunRow
      BY DEF RunInv, TypeOK
    <3> QED
      BY <1>0, <2>2, <3>1, <3>2 DEF TickStart, Begun, RunRow
  <2> QED
    BY <1>1, <2>1, <2>2, TickMoves DEF PastExpand
<1>2. ASSUME tick'.pc \in {"listed", "expand"}, tick'.run.state # "queued" PROVE run'.state # "queued"
  BY <1>0, <1>2, CopyKept DEF Begun
<1> QED
  BY <1>1, <1>2 DEF Begun

LEMMA BegunInvariant == Spec => []Begun
<1>1. Init => Begun
  BY DEF Init, TickIdle, Begun, PastExpand
<1>2. RunInv /\ Begun /\ [Next]_vars => Begun'
  BY BegunStep
<1> QED
  BY <1>1, <1>2, RunInvariant, PTL DEF Spec

-----------------------------------------------------------------------------
(***************************************************************************)
(* Without a crash a run is expanded all at once: outside expandRun, which *)
(* holds the lock, it has all its rows or none, save under a retry that is *)
(* adding them.                                                            *)
(***************************************************************************)
Whole ==
  /\ tick.pc # "expand" /\ op.kind # "retry" => Existing(ti) \in {{}, Task}
  /\ run.state = "running" => Existing(ti) = Task
  /\ tick.pc \in {"listed", "expand"} /\ tick.run.state # "queued" => Existing(ti) = Task
  /\ op.kind = "cancel" => op.todo \subseteq Existing(ti)
  /\ op.kind = "mark" => Existing(ti) = Task
  /\ op.kind = "retry" => op.pc = "clear" /\ Task \ op.todo \subseteq Existing(ti)

LEMMA WholeStep ==
  ASSUME MaxCrashes = 0, RunInv, LockInv, Expanded, Whole, [Next]_vars
  PROVE  Whole'
<1>0. /\ Existing(ti) \subseteq Existing(ti)' /\ Existing(ti)' \subseteq Task
      /\ Task # {} /\ op \in OpRecord
  BY RowsStay, DagAssumption DEF Existing, RunInv, TypeOK
<1>1. ~Crash
  BY BoundAssumption DEF Crash, RunInv, TypeOK
<1>2. ASSUME Existing(ti) = Task PROVE Existing(ti)' = Task
  BY <1>0, <1>2
<1>3. ASSUME op.kind = "retry", Reactivate PROVE Existing(ti) = Task
  BY <1>3 DEF Reactivate, Whole, Existing
<1>4. ASSUME tick.pc = "expand", tick'.pc # "expand" PROVE Existing(ti) = Task
  <2>1. TickStart
    BY <1>1, <1>4, TickMoves DEF TickAdmit, TickDone
  <2> QED
    BY <2>1 DEF TickStart
<1>5. ASSUME op.kind = "retry", op'.kind # "retry" PROVE Existing(ti) = Task
  <2>1. Reactivate
    BY <1>1, <1>5, OpMoves DEF CancelDone, CancelRun, MarkTask, Retry, CanCall
  <2> QED
    BY <1>3, <1>5, <2>1
<1>6. ASSUME tick'.pc # "expand", op'.kind # "retry" PROVE Existing(ti)' \in {{}, Task}
  <2>1. CASE Existing(ti) = Task
    BY <1>2, <2>1
  <2>2. CASE Existing(ti) # Task
    <3>1. tick.pc # "expand" /\ op.kind # "retry"
      BY <1>4, <1>5, <1>6, <2>2
    <3>2. Existing(ti) = {} /\ op.kind # "mark"
      BY <2>2, <3>1 DEF Whole
    <3>3. \A u \in Task : ~CancelWrite(u)
      BY <3>2 DEF CancelWrite, LockInv, Whole
    <3>4. \A u \in Task : ~MarkSet(u) /\ ~ClearTask(u)
      BY <1>0, <3>1, <3>2 DEF MarkSet, ClearTask, RunInv, OpPhase, LockInv, OpRecord
    <3>5. \A u \in Task : ti[u].state = "absent"
      BY <3>2 DEF Existing
    <3>6. \A u \in Task : ti'[u].state = "absent"
      BY <3>1, <3>3, <3>4, <3>5, NewRow
    <3> QED
      BY <3>6 DEF Existing
  <2> QED
    BY <2>1, <2>2
<1>7. ASSUME run'.state = "running" PROVE Existing(ti)' = Task
  <2>1. CASE run.state = "running"
    BY <1>2, <2>1 DEF Whole
  <2>2. CASE TickStart
    BY <1>2, <2>2 DEF TickStart
  <2>3. CASE Reactivate
    <3>1. op.kind # "none" /\ op.kind # "cancel"
      BY <2>3 DEF Reactivate, RunInv, OpPhase, LockInv
    <3>2. op.kind \in {"mark", "retry"}
      BY <1>0, <3>1 DEF OpRecord
    <3> QED
      BY <1>2, <1>3, <2>3, <3>2 DEF Whole
  <2> QED
    BY <1>7, <2>1, <2>2, <2>3, RunMoves DEF FinalState
<1>8. ASSUME tick'.pc \in {"listed", "expand"}, tick'.run.state # "queued" PROVE Existing(ti)' = Task
  <2>1. CASE TickList /\ tick'.run = run
    BY <1>2, <1>8, <2>1 DEF TickList, Whole
  <2>2. CASE tick.pc \in {"listed", "expand"} /\ tick'.run.state = tick.run.state
    BY <1>2, <1>8, <2>2 DEF Whole
  <2> QED
    BY <1>8, <2>1, <2>2, CopyKept
<1>9. ASSUME op'.kind = "cancel" PROVE op'.todo \subseteq Existing(ti)'
  <2>1. CASE op' = op
    BY <1>0, <1>9, <2>1 DEF Whole
  <2>2. CASE op'.todo = Unsettled(ti)
    BY <1>0, <2>2 DEF Unsettled
  <2>3. ASSUME NEW t \in Task, CancelKill(t) \/ CancelWrite(t) PROVE op'.todo \subseteq op.todo /\ op.kind = "cancel"
    BY <1>0, <2>3 DEF CancelKill, CancelWrite, OpRecord
  <2>4. CASE \E t \in Task : CancelKill(t) \/ CancelWrite(t)
    BY <1>0, <2>3, <2>4 DEF Whole
  <2> QED
    BY <1>9, <2>1, <2>2, <2>4, OpMoves DEF LockInv
<1>10. ASSUME op'.kind = "mark" PROVE Existing(ti)' = Task
  <2>1. CASE op.kind = "mark"
    BY <1>2, <2>1 DEF Whole
  <2>2. ASSUME NEW t \in Task, NEW target, MarkTask(t, target) PROVE Existing(ti) = Task
    <3>1. t \in Existing(ti) /\ mu = "free" /\ op.kind = "none"
      BY <2>2 DEF MarkTask, BeginOp, CanCall
    <3>2. tick.pc # "expand"
      BY <3>1 DEF LockInv, Locked
    <3> QED
      BY <3>1, <3>2 DEF Whole
  <2> QED
    BY <1>2, <1>10, <2>1, <2>2, OpMoves
<1>11. ASSUME op'.kind = "retry" PROVE op'.pc = "clear" /\ Task \ op'.todo \subseteq Existing(ti)'
  <2>1. ASSUME NEW kind, NEW ids, Retry(kind, ids) PROVE op'.pc = "clear"
    BY <2>1 DEF Retry, BeginOp, OpNone
  <2>2. CASE (\E kind, ids : Retry(kind, ids)) /\ Task \ Existing(ti) \subseteq op'.todo
    BY <1>0, <2>1, <2>2
  <2>3. CASE op' = op
    BY <1>0, <1>11, <2>3 DEF Whole
  <2>4. ASSUME NEW t \in Task, op.kind = "retry", MarkKill(t) \/ MarkSet(t) \/ ClearTask(t)
        PROVE  op'.pc = "clear" /\ Task \ op'.todo \subseteq Existing(ti)'
    <3>1. op.pc = "clear" /\ Task \ op.todo \subseteq Existing(ti)
      BY <2>4 DEF Whole
    <3>2. ClearTask(t)
      BY <2>4, <3>1 DEF MarkKill, MarkSet
    <3>3. op'.pc = "clear" /\ op'.todo = op.todo \ {t}
      BY <1>0, <3>1, <3>2 DEF ClearTask, OpRecord
    <3>4. ti'[t].state = "scheduled"
      BY <3>2 DEF ClearTask, Cleared, RunInv, TypeOK, Rows
    <3> QED
      BY <1>0, <3>1, <3>3, <3>4 DEF Existing
  <2> QED
    BY <1>11, <2>2, <2>3, <2>4, OpMoves
<1> QED
  BY <1>6, <1>7, <1>8, <1>9, <1>10, <1>11 DEF Whole

(***************************************************************************)
(* A terminal run has only settled tasks when the lock is free, and also   *)
(* under a tick, unless that tick is timing the run out and still has them *)
(* to do, or is about to start it again; under CancelRun what is unsettled *)
(* is still to do; MarkTask and the retries will reactivate it.            *)
(***************************************************************************)
AtRest ==
  \/ mu = "free"
  \/ tick.pc = "expand" /\ tick.run.state # "queued"
  \/ tick.pc \in {"scan", "finish", "admit"}

Settling ==
  run.state \in RunTerminal =>
    /\ AtRest => Unsettled(ti) = {}
    /\ tick.pc = "timeout" =>
         \A t \in Unsettled(ti) : t \in tick.todo /\ ti[t].ref = tick.rows[t].ref
    /\ op.kind = "cancel" => Unsettled(ti) \subseteq op.todo
    /\ op.kind \in {"mark", "retry"} => op.settled

(***************************************************************************)
(* A worker group found empty while the run is being timed out would put a *)
(* task back under the timed-out run: its row no longer carries the ref    *)
(* timeoutRun expects.                                                     *)
(***************************************************************************)
NothingGivenBack == tick.pc = "timeout" => "no_worker" \notin Faults

LEMMA TimeoutWorks ==
  ASSUME RunInv, LockInv, [Next]_vars, ~Crash, tick.pc = "timeout", tick'.pc = "timeout"
  PROVE  /\ tick'.rows = tick.rows
         /\ \A u \in tick.todo : u \in tick'.todo \/ TickTimeoutWrite(u)
<1>0. tick \in TickRecord
  BY DEF RunInv, TypeOK
<1>1. ASSUME NEW u, TickTimeoutKill(u) PROVE tick'.rows = tick.rows /\ tick'.todo = tick.todo
  BY <1>0, <1>1 DEF TickTimeoutKill, TickRecord
<1>2. ASSUME NEW u, TickTimeoutWrite(u) PROVE tick'.rows = tick.rows /\ tick'.todo = tick.todo \ {u}
  BY <1>0, <1>2 DEF TickTimeoutWrite, TickRecord
<1>3. CASE DeadlinePasses
  BY <1>0, <1>3 DEF DeadlinePasses, TickRecord
<1>4. CASE TickNext
  <2>1. ~TickTimeoutDone
    BY DEF TickTimeoutDone, ReturnProcessRun, TickIdle
  <2>2. (\E u \in Task : TickTimeoutKill(u)) \/ (\E u \in Task : TickTimeoutWrite(u))
    BY <1>4, <2>1 DEF TickNext, TickList, TickLock, TickStart, TickFinalize, TickWithinDeadline,
       TickTimeout, TickAdmit, TickDone, TickScan, TickExpand, Dispatch, PassOver
  <2> QED
    BY <1>1, <1>2, <2>2
<1> QED
  BY <1>3, <1>4, CallLeaves, OpLeaves, AttemptLeaves, RecoverLeaves DEF Next, Quiet, vars

LEMMA TimeoutSettles ==
  ASSUME RunInv, LockInv, Expanded, NothingGivenBack, Settling, [Next]_vars, ~Crash,
         run.state \in RunTerminal, tick.pc = "timeout"
  PROVE  /\ tick'.pc = "timeout" =>
              \A t \in Unsettled(ti)' : t \in tick'.todo /\ ti'[t].ref = tick'.rows[t].ref
         /\ tick'.pc # "timeout" => Unsettled(ti)' = {}
<1>0. op.kind = "none" /\ rec.cur = {}
  BY DEF LockInv, Locked
<1>1. ASSUME NEW u \in Unsettled(ti)' PROVE u \in Unsettled(ti) /\ ti'[u].ref = ti[u].ref
  <2>0. u \in Task /\ ti'[u].state # "absent" /\ ti'[u].state \notin TaskTerminal
    BY <1>1 DEF Unsettled, Existing
  <2>1. ti[u].state # "absent"
    BY <2>0 DEF Expanded, PastExpand, Existing
  <2>2. ~ByScan(u) /\ ~Dispatch(u) /\ ~ByTimeout(u) /\ ~ByCall(u)
    BY <1>0, <2>0 DEF ByScan, Dispatch, ByTimeout, ByCall, TaskTerminal, TaskFailure
  <2>3. \A a \in Attempt : ~ByGiveBack(u, a)
    BY <1>0 DEF ByGiveBack, NoWorker, NothingGivenBack, RecoverReset
  <2>4. ti'[u] = ti[u] \/ \E a \in Attempt : ByOwner(u, a)
    BY <2>0, <2>1, <2>2, <2>3, RowSteps DEF RowStep
  <2>5. ti[u].state \notin TaskTerminal /\ ti'[u].ref = ti[u].ref
    BY <2>0, <2>4 DEF ByOwner, Applies
  <2> QED
    BY <2>0, <2>1, <2>5 DEF Unsettled, Existing
<1>2. \A u \in Unsettled(ti) : u \in tick.todo /\ ti[u].ref = tick.rows[u].ref
  BY DEF Settling
<1>3. CASE tick'.pc = "timeout"
  <2> SUFFICES ASSUME NEW u \in Unsettled(ti)'
               PROVE  u \in tick'.todo /\ ti'[u].ref = tick'.rows[u].ref
    BY <1>3
  <2>1. u \in tick.todo /\ ti'[u].ref = tick.rows[u].ref /\ u \in Unsettled(ti) /\ u \in Task
    BY <1>1, <1>2 DEF Unsettled, Existing
  <2>2. ~TickTimeoutWrite(u)
    <3> SUFFICES ASSUME TickTimeoutWrite(u) PROVE FALSE
      OBVIOUS
    <3> DEFINE row == [tick.rows[u] EXCEPT !.state = "timed_out"]
    <3>1. Applies(u, tick.rows[u].ref)
      BY <1>2, <2>1 DEF Applies, Unsettled
    <3>2. ti'[u] = row
      BY <2>1, <3>1, GuardedAt DEF TickTimeoutWrite
    <3>3. row.state = "timed_out"
      BY <2>1 DEF RunInv, TypeOK, TickRecord, Rows, Row
    <3> QED
      BY <3>2, <3>3 DEF Unsettled, Existing, TaskTerminal, TaskFailure
  <2> QED
    BY <1>3, <2>1, <2>2, TimeoutWorks
<1>4. CASE tick'.pc # "timeout"
  <2>1. TickTimeoutDone
    BY <1>4, TickMoves DEF TickAdmit, TickDone
  <2> QED
    BY <1>1, <1>2, <2>1 DEF TickTimeoutDone
<1> QED
  BY <1>3, <1>4

LEMMA CancelSettles ==
  ASSUME RunInv, LockInv, Expanded, Settling, [Next]_vars, ~Crash,
         run.state \in RunTerminal, op.kind = "cancel"
  PROVE  IF op'.kind = "cancel" THEN Unsettled(ti)' \subseteq op'.todo
                                ELSE op'.kind = "none" /\ Unsettled(ti)' = {}
<1>0. op.pc = "start" /\ tick.pc \notin Locked /\ op \in OpRecord
  BY DEF LockInv, RunInv, TypeOK
<1>1. ASSUME NEW u \in Unsettled(ti)' PROVE u \in Unsettled(ti) /\ ~CancelWrite(u)
  <2>0. u \in Task /\ ti'[u].state # "absent" /\ ti'[u].state \notin TaskTerminal
    BY <1>1 DEF Unsettled, Existing
  <2>1. ~MarkSet(u) /\ ~ClearTask(u)
    BY <1>0 DEF MarkSet, ClearTask
  <2>2. ~CancelWrite(u)
    <3> SUFFICES ASSUME CancelWrite(u) PROVE ti'[u].state = "cancelled"
      BY <2>0 DEF TaskTerminal, TaskFailure
    <3> QED
      BY <2>0 DEF CancelWrite, RunInv, TypeOK, OpRecord, Rows, Row
  <2>3. ti[u].state # "absent"
    BY <1>0, <2>0, <2>1, <2>2, NewRow DEF Locked
  <2>4. ~ByScan(u) /\ ~Dispatch(u) /\ ~ByTimeout(u) /\ ~ByCall(u)
    BY <1>0, <2>1, <2>2 DEF ByScan, Dispatch, ByTimeout, ByCall, Locked
  <2>5. ti[u].state \notin TaskTerminal
    BY <2>0, <2>3, <2>4, RowSteps DEF RowStep, ByOwner, ByGiveBack, Applies
  <2> QED
    BY <2>0, <2>2, <2>3, <2>5 DEF Unsettled, Existing
<1>2. Unsettled(ti) \subseteq op.todo
  BY DEF Settling
<1>3. CASE op' = op
  BY <1>1, <1>2, <1>3
<1>4. CASE CancelDone
  BY <1>1, <1>2, <1>4 DEF CancelDone, EndOp, OpNone
<1>5. ASSUME NEW t \in Task, CancelKill(t)
      PROVE  op'.kind = "cancel" /\ op'.todo = op.todo
  BY <1>0, <1>5 DEF CancelKill, OpRecord
<1>6. ASSUME NEW t \in Task, CancelWrite(t)
      PROVE  op'.kind = "cancel" /\ op'.todo = op.todo \ {t}
  BY <1>0, <1>6 DEF CancelWrite, OpRecord
<1>7. CASE \E t \in Task : CancelKill(t)
  BY <1>1, <1>2, <1>5, <1>7
<1>8. CASE \E t \in Task : CancelWrite(t)
  BY <1>1, <1>2, <1>6, <1>8
<1>9. ~Reactivate /\ ~CancelRun
  BY <1>0 DEF Reactivate, CancelRun, CanCall
<1>10. \A t, target, kind, ids : ~MarkTask(t, target) /\ ~Retry(kind, ids)
  BY DEF MarkTask, Retry, CanCall
<1> QED
  BY <1>0, <1>3, <1>4, <1>7, <1>8, <1>9, <1>10, OpMoves

LEMMA SettlingStep ==
  ASSUME MaxCrashes = 0, RunInv, LockInv, Expanded, Whole, NothingGivenBack, Settling, [Next]_vars
  PROVE  Settling'
<1> SUFFICES ASSUME run'.state \in RunTerminal
             PROVE  /\ AtRest' => Unsettled(ti)' = {}
                    /\ tick'.pc = "timeout" =>
                         \A t \in Unsettled(ti)' : t \in tick'.todo /\ ti'[t].ref = tick'.rows[t].ref
                    /\ op'.kind = "cancel" => Unsettled(ti)' \subseteq op'.todo
                    /\ op'.kind \in {"mark", "retry"} => op'.settled
  BY DEF Settling
<1>0. ~Crash /\ LockInv' /\ op \in OpRecord /\ tick \in TickRecord
  BY BoundAssumption, LockStep DEF Crash, RunInv, TypeOK
<1>1. CASE TickFinalize
  <2>1. Unsettled(ti)' = {} /\ op'.kind = "none"
    BY <1>1 DEF TickFinalize, Unsettled, LockInv, Locked
  <2> QED
    BY <2>1
<1>2. CASE TickTimeout
  <2>1. tick'.pc = "timeout" /\ tick'.rows = ti /\ tick'.todo = Unsettled(ti) /\ UNCHANGED <<ti, mu>>
    BY <1>0, <1>2 DEF TickTimeout, TickRecord
  <2>2. mu = "tick" /\ op'.kind = "none"
    BY <1>2 DEF TickTimeout, LockInv, Locked
  <2> QED
    BY <2>1, <2>2 DEF AtRest, Unsettled
<1>3. CASE CancelRun
  <2>1. op'.kind = "cancel" /\ op'.todo = Unsettled(ti) /\ UNCHANGED ti
    BY <1>3 DEF CancelRun, BeginOp, OpNone
  <2>2. mu' = "op" /\ tick'.pc \notin Locked
    BY <1>0, <2>1 DEF LockInv
  <2> QED
    BY <2>1, <2>2 DEF AtRest, Locked, Unsettled
<1>4. run.state \in RunTerminal \/ TickFinalize \/ TickTimeout \/ CancelRun
  BY RunMoves DEF MarkRun, RunTerminal
<1>5. CASE run.state \in RunTerminal /\ AtRest
  <2>1. Unsettled(ti) = {} /\ op.kind = "none" /\ (tick.pc = "expand" => Existing(ti) = Task)
    BY <1>5 DEF Settling, AtRest, LockInv, Locked, Whole
  <2>2. Unsettled(ti)' = {}
    BY <2>1, SettledKept
  <2>3. ~CancelRun
    BY <1>5 DEF CancelRun, RunActive, RunTerminal
  <2>4. op'.kind \in {"mark", "retry"} => op'.settled
    BY <1>5, <2>1, <2>3, OpMoves
  <2> QED
    BY <2>2, <2>4
<1>6. CASE run.state \in RunTerminal /\ tick.pc = "expand" /\ tick.run.state = "queued"
  <2>1. mu = "tick" /\ op.kind = "none"
    BY <1>6 DEF LockInv, Locked
  <2>2. ~TickStart
    <3> SUFFICES ASSUME TickStart PROVE FALSE
      OBVIOUS
    <3>1. run' = [run EXCEPT !.state = "running", !.clock = "fresh"]
      BY <1>6 DEF TickStart, CanMove, LegalPriorRunStates
    <3> QED
      BY <3>1 DEF RunInv, TypeOK, RunRow, RunTerminal
  <2>3. tick'.pc = "expand"
    BY <1>0, <1>6, <2>2, TickMoves DEF TickAdmit, TickDone
  <2>4. tick'.run.state = "queued"
    BY <1>6, <2>3, CopyKept DEF TickList
  <2>5. mu' = "tick" /\ op'.kind = "none"
    BY <1>0, <2>3 DEF LockInv, Locked
  <2> QED
    BY <2>3, <2>4, <2>5 DEF AtRest
<1>7. CASE run.state \in RunTerminal /\ tick.pc = "timeout"
  <2>1. /\ tick'.pc = "timeout" =>
             \A t \in Unsettled(ti)' : t \in tick'.todo /\ ti'[t].ref = tick'.rows[t].ref
        /\ tick'.pc # "timeout" => Unsettled(ti)' = {}
    BY <1>0, <1>7, TimeoutSettles
  <2>2. op.kind = "none" /\ mu = "tick"
    BY <1>7 DEF LockInv, Locked
  <2>3. op'.kind = "none"
    BY <2>2, OpMoves DEF CancelRun, MarkTask, Retry, BeginOp, RunInv, OpPhase
  <2>4. tick'.pc = "timeout" => mu' = "tick"
    BY <1>0 DEF LockInv, Locked
  <2> QED
    BY <2>1, <2>3, <2>4 DEF AtRest
<1>8. CASE run.state \in RunTerminal /\ op.kind = "cancel"
  <2>1. IF op'.kind = "cancel" THEN Unsettled(ti)' \subseteq op'.todo
                               ELSE op'.kind = "none" /\ Unsettled(ti)' = {}
    BY <1>0, <1>8, CancelSettles
  <2>2. op'.kind = "cancel" => mu' = "op" /\ tick'.pc \notin Locked
    BY <1>0 DEF LockInv
  <2> QED
    BY <2>1, <2>2 DEF AtRest, Locked
<1>9. CASE run.state \in RunTerminal /\ op.kind \in {"mark", "retry"}
  <2>1. op.settled
    BY <1>9 DEF Settling
  <2>2. ~Reactivate
    <3> SUFFICES ASSUME Reactivate PROVE FALSE
      OBVIOUS
    <3>1. run' = [run EXCEPT !.state = "running", !.clock = "fresh"]
      BY <1>9, <2>1 DEF Reactivate, CanMove, LegalPriorRunStates
    <3> QED
      BY <3>1 DEF RunInv, TypeOK, RunRow, RunTerminal
  <2>3. ~CancelDone /\ ~CancelRun /\ \A t, target, kind, ids : ~MarkTask(t, target) /\ ~Retry(kind, ids)
    BY <1>9 DEF CancelDone, CancelRun, MarkTask, Retry, CanCall
  <2>4. op'.kind \in {"mark", "retry"} /\ op'.settled
    BY <1>0, <1>9, <2>1, <2>2, <2>3, OpMoves
  <2>5. mu' = "op" /\ tick'.pc \notin Locked
    BY <1>0, <2>4 DEF LockInv
  <2> QED
    BY <2>4, <2>5 DEF AtRest, Locked
<1>10. AtRest \/ (tick.pc = "expand" /\ tick.run.state = "queued") \/ tick.pc = "timeout"
       \/ op.kind = "cancel" \/ op.kind \in {"mark", "retry"}
  <2>1. mu \in {"free", "tick", "op"}
    BY DEF RunInv, TypeOK
  <2> QED
    BY <1>0, <2>1 DEF AtRest, LockInv, Locked, OpRecord
<1> QED
  BY <1>1, <1>2, <1>3, <1>4, <1>5, <1>6, <1>7, <1>8, <1>9, <1>10

(***************************************************************************)
(* Where no call is made and no deadline passes a run is terminal only by  *)
(* TickFinalize, and crashes do no harm.                                   *)
(***************************************************************************)
AllSettled == run.state \in RunTerminal => \A t \in Task : ti[t].state \in TaskTerminal

LEMMA AllSettledStep ==
  ASSUME RunInv, Expanded, NoTimeout, op.kind = "none", AllSettled, [Next]_vars, Ops = {}
  PROVE  AllSettled'
<1> SUFFICES ASSUME run'.state \in RunTerminal PROVE \A t \in Task : ti'[t].state \in TaskTerminal
  BY DEF AllSettled
<1>1. CASE run.state \in RunTerminal
  BY <1>1, NextPreserves DEF AllSettled, Preserved, TerminalKept
<1>2. CASE TickFinalize
  BY <1>2 DEF TickFinalize, Expanded, PastExpand, Unsettled
<1>3. ~TickTimeout /\ ~CancelRun
  BY DEF TickTimeout, NoTimeout, CancelRun, CanCall
<1> QED
  BY <1>1, <1>2, <1>3, RunMoves DEF MarkRun, RunTerminal

(***************************************************************************)
(* A terminal run has nothing unsettled while the lock is free or the tick *)
(* dispatches.                                                             *)
(***************************************************************************)
Quiescent ==
  run.state \in RunTerminal /\ (mu = "free" \/ tick.pc = "admit") => Unsettled(ti) = {}

(***************************************************************************)
(* The hypothesis of the two theorems below.  A crash in the middle of an  *)
(* operator call or of timeoutRun leaves a terminal run with tasks nobody  *)
(* will settle, and so does a worker group found empty in the middle of    *)
(* timeoutRun (see NothingGivenBack).                                      *)
(***************************************************************************)
SettlesWhole ==
  \/ MaxCrashes = 0 /\ ("deadline" \notin Faults \/ "no_worker" \notin Faults)
  \/ Ops = {} /\ "deadline" \notin Faults

LEMMA QuiescentInvariant == ASSUME SettlesWhole PROVE Spec => []Quiescent
<1>1. CASE MaxCrashes = 0 /\ ("deadline" \notin Faults \/ "no_worker" \notin Faults)
  <2>1. Init => Whole /\ Settling
    BY DEF Init, Whole, Settling, TickIdle, OpNone, Existing, NoRows, Absent, RunTerminal
  <2>2. RunInv /\ LockInv /\ Expanded /\ NothingGivenBack /\ Whole /\ Settling /\ [Next]_vars
          => Whole' /\ Settling'
    BY <1>1, WholeStep, SettlingStep
  <2>3. Spec => []NothingGivenBack
    <3>1. CASE "deadline" \notin Faults
      <4>1. NoTimeout => NothingGivenBack
        BY DEF NoTimeout, NothingGivenBack
      <4> QED
        BY <3>1, <4>1, NoTimeoutInvariant, PTL
    <3>2. CASE "no_worker" \notin Faults
      <4>1. NothingGivenBack
        BY <3>2 DEF NothingGivenBack
      <4> QED
        BY <4>1, PTL
    <3> QED
      BY <1>1, <3>1, <3>2
  <2>4. Settling => Quiescent
    BY DEF Settling, Quiescent, AtRest
  <2> QED
    BY <2>1, <2>2, <2>3, <2>4, RunInvariant, LockInvariant, ExpandedInvariant, PTL DEF Spec
<1>2. CASE Ops = {} /\ "deadline" \notin Faults
  <2>1. Init => AllSettled
    BY DEF Init, AllSettled, RunTerminal
  <2>2. RunInv /\ Expanded /\ NoTimeout /\ op.kind = "none" /\ AllSettled /\ [Next]_vars => AllSettled'
    BY <1>2, AllSettledStep
  <2>3. AllSettled => Quiescent
    BY DEF AllSettled, Quiescent, Unsettled, Existing
  <2> QED
    BY <1>2, <2>1, <2>2, <2>3, RunInvariant, ExpandedInvariant, NoTimeoutInvariant, NoCalls, PTL DEF Spec
<1> QED
  BY <1>1, <1>2 DEF SettlesWhole

(***************************************************************************)
(* A terminal run has only settled tasks whenever finalizeMu is free: no   *)
(* tick, cancel, mark or retry leaves a task behind under it.              *)
(***************************************************************************)
THEOREM SettledRunsHaveSettledTasks ==
  ASSUME SettlesWhole PROVE Spec => []SettledRunHasSettledTasks
<1>1. Quiescent => SettledRunHasSettledTasks
  BY DEF Quiescent, SettledRunHasSettledTasks, Unsettled, Existing
<1> QED
  BY <1>1, QuiescentInvariant, PTL

(***************************************************************************)
(* admitReady dispatches a task only under a running run, although the     *)
(* lock was free between the harvest and the dispatch and any operator     *)
(* call may have taken it meanwhile.                                       *)
(***************************************************************************)
THEOREM DispatchesUnderActiveRun ==
  ASSUME SettlesWhole PROVE Spec => DispatchUnderActiveRun
<1>1. RunInv /\ Begun /\ Quiescent /\ [Next]_vars
        => [\A t \in Task : Dispatched(t) => run.state = "running"]_vars
  <2> SUFFICES ASSUME RunInv, Begun, Quiescent, [Next]_vars, NEW t \in Task, Dispatched(t)
               PROVE  run.state = "running"
    OBVIOUS
  <2>1. Dispatch(t)
    BY OnlyDispatchQueues
  <2>2. tick.pc = "admit" /\ t \in Unsettled(ti)
    BY <2>1 DEF Dispatch, CanDispatch, Unsettled, Existing, TaskTerminal, TaskFailure
  <2>3. run.state # "queued" /\ run.state \notin RunTerminal
    BY <2>2 DEF Begun, PastExpand, Quiescent
  <2> QED
    BY <2>3 DEF RunInv, TypeOK, RunRow, RunState, RunActive
<1> QED
  BY <1>1, RunInvariant, BegunInvariant, QuiescentInvariant, PTL DEF Spec, DispatchUnderActiveRun
=============================================================================
