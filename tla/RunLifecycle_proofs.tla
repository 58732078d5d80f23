------------------------- MODULE RunLifecycle_proofs -------------------------
(***************************************************************************)
(* Type correctness, the naming of attempts and the stability of terminal  *)
(* rows, for every DAG, every set of operator calls and faults and every   *)
(* bound; then the attempts: every dispatch uses a fresh ref, the budget   *)
(* is respected, a row in flight is watched, and an outcome is recorded    *)
(* after the process has exited.  The hypotheses of a theorem on Ops,      *)
(* Faults and Emits are those of the runs that check the same property;    *)
(* where there are none it holds under every operator call, fault and      *)
(* crash.                                                                  *)
(***************************************************************************)
EXTENDS RunProperties, TLAPS, FiniteSetTheorems

(***************************************************************************)
(* The inductive invariant.  The copies of rows that the tick, an operator *)
(* call or recovery keeps are written back later, so they must name their  *)
(* try as the rows do; a call in one of its middle steps is a mark or a    *)
(* retry; recovery acts only on rows with a ref.                           *)
(***************************************************************************)
Named(rows) == \A t \in Task : NamesTheTry(rows[t])

CopiesNamed == Named(ti) /\ Named(tick.rows) /\ Named(op.rows) /\ Named(rec.rows)

OpPhase ==
  /\ op.pc # "start" => op.kind # "none"
  /\ op.pc \in {"kill", "release"} => op.target \in {"success", "failed", "skipped"}

RecPhase == \A t \in rec.cur : rec.rows[t].ref \in Attempt

RunInv == TypeOK /\ CopiesNamed /\ OpPhase /\ RecPhase

(***************************************************************************)
(* What every step preserves: the invariant, and terminal rows unless an   *)
(* operator call is at work.                                               *)
(***************************************************************************)
TerminalKept == \A t \in Task : ti[t].state \in TaskTerminal => ti'[t] = ti[t]

Preserved == RunInv' /\ (op.kind = "none" => TerminalKept)

-----------------------------------------------------------------------------
(***************************************************************************)
(* The types of the initial values.                                        *)
(***************************************************************************)
LEMMA NoRowsType == NoRows \in Rows /\ Named(NoRows)
BY BoundAssumption DEF NoRows, Absent, Rows, Row, TaskState, Named, NamesTheTry

LEMMA IdleTypes ==
  /\ TickIdle \in TickRecord /\ Named(TickIdle.rows)
  /\ OpNone \in OpRecord /\ Named(OpNone.rows) /\ OpNone.pc = "start"
  /\ RecUp \in RecRecord /\ Named(RecUp.rows) /\ RecUp.cur = {}
BY NoRowsType DEF TickIdle, OpNone, RecUp, TickRecord, OpRecord, RecRecord, TickPC, OpPC,
     RunRow, RunState, RunActive, Clock, TaskState, ProcState

LEMMA AttemptsType ==
  /\ Attempts("none") \in [Task -> [Attempt -> LaunchPC]]
  /\ Attempts(0) \in [Task -> [Attempt -> Nat]]
  /\ Attempts("absent") \in [Task -> [Attempt -> ProcState]]
BY DEF Attempts, LaunchPC, ProcState

LEMMA ClosureInTask == \A t : downstreamClosure(Deps, t) \subseteq Task
BY DagAssumption DEF downstreamClosure

(***************************************************************************)
(* A guarded write of a well-named row keeps the rows well named and       *)
(* leaves terminal rows alone.                                             *)
(***************************************************************************)
LEMMA GuardedWrite ==
  ASSUME ti \in Rows, Named(ti), NEW t \in Task, NEW row \in Row, NamesTheTry(row), NEW ref
  PROVE  /\ Guarded(t, row, ref) \in Rows
         /\ Named(Guarded(t, row, ref))
         /\ \A u \in Task : ti[u].state \in TaskTerminal => Guarded(t, row, ref)[u] = ti[u]
BY DEF Guarded, Applies, Rows, Named

(***************************************************************************)
(* The rows written by the owner of an attempt.                            *)
(***************************************************************************)
LEMMA OwnRowType ==
  ASSUME NEW t \in Task, NEW a \in Attempt, NEW s \in TaskState \ {"absent", "scheduled"}
  PROVE  OwnRow(t, a, s) \in Row /\ NamesTheTry(OwnRow(t, a, s))
BY BoundAssumption DEF OwnRow, Row, NamesTheTry, Attempt

LEMMA GivenBackType ==
  ASSUME NEW a \in Attempt
  PROVE  /\ [state |-> "scheduled", try |-> a - 1, ref |-> 0] \in Row
         /\ NamesTheTry([state |-> "scheduled", try |-> a - 1, ref |-> 0])
BY BoundAssumption DEF Row, NamesTheTry, Attempt, TaskState

LEMMA ClearedType ==
  ASSUME NEW row \in Row
  PROVE  Cleared(row) \in Row /\ NamesTheTry(Cleared(row))
BY BoundAssumption DEF Cleared, Row, NamesTheTry, TaskState

LEMMA OutcomeType ==
  ASSUME NEW t \in Task, NEW a \in Attempt, NEW phase
  PROVE  /\ FailureState(t, a) \in TaskState \ {"absent", "scheduled"}
         /\ Outcome(t, a, phase) \in TaskState \ {"absent", "scheduled"}
BY DEF Outcome, FailureState, TaskState, TaskTerminal, TaskFailure

LEMMA KillType ==
  ASSUME proc \in [Task -> [Attempt -> ProcState]], NEW t \in Task, NEW ref
  PROVE  Kill(t, ref) \in [Task -> [Attempt -> ProcState]]
BY DEF Kill, ProcState

(***************************************************************************)
(* Steps 1 to 3 of processRun touch no terminal row.                       *)
(***************************************************************************)
LEMMA RequeuedType ==
  ASSUME ti \in Rows, Named(ti), NEW due \in SUBSET UpForRetry
  PROVE  /\ Requeued(due) \in Rows
         /\ Named(Requeued(due))
         /\ \A u \in Task : ti[u].state \in TaskTerminal => Requeued(due)[u] = ti[u]
<1>1. BlockedTasks(Rule, Deps, States(ti)) \subseteq {t \in Task : ti[t].state = "scheduled"}
  BY DEF BlockedTasks, Scheduled, States
<1>2. /\ Propagated \in Rows
      /\ Named(Propagated)
      /\ \A u \in Task : ti[u].state \in TaskTerminal => Propagated[u] = ti[u]
  BY <1>1 DEF Propagated, Rows, Row, Named, NamesTheTry, TaskState, TaskTerminal, TaskFailure
<1>3. \A u \in due : /\ u \in Task /\ ti[u].state \notin TaskTerminal
                     /\ Cleared(ti[u]) \in Row /\ NamesTheTry(Cleared(ti[u]))
  BY ClearedType DEF UpForRetry, Rows, TaskTerminal, TaskFailure
<1>4. ASSUME NEW u \in Task
      PROVE  /\ Requeued(due)[u] \in Row
             /\ NamesTheTry(Requeued(due)[u])
             /\ ti[u].state \in TaskTerminal => Requeued(due)[u] = ti[u]
  BY <1>2, <1>3 DEF Requeued, Rows, Named, Cleared
<1>5. Requeued(due) \in Rows
  BY <1>4 DEF Requeued, Rows
<1> QED
  BY <1>4, <1>5 DEF Named

LEMMA GatedType ==
  ASSUME NEW rows \in Rows, Named(rows), NEW answer, Collects(rows, answer)
  PROVE  /\ Gated(rows, answer) \in Rows
         /\ Named(Gated(rows, answer))
         /\ \A u \in Task : rows[u].state \in TaskTerminal => Gated(rows, answer)[u] = rows[u]
<1>1. \A t \in Task : answer[t] \in {"skip", "fail"} => rows[t].state = "scheduled"
  BY DEF Collects, Asked
<1> QED
  BY <1>1 DEF Gated, Rows, Row, Named, NamesTheTry, TaskState, TaskTerminal, TaskFailure

-----------------------------------------------------------------------------
(***************************************************************************)
(* Frames.  A step that leaves the rows and the callers' copies alone      *)
(* preserves what is said of them.                                         *)
(***************************************************************************)
LEMMA RowsFrame ==
  ASSUME RunInv, UNCHANGED <<ti, op, rec>>, TypeOK', Named(tick'.rows)
  PROVE  Preserved
BY DEF RunInv, CopiesNamed, Named, OpPhase, RecPhase, Preserved, TerminalKept

LEMMA CallersFrame ==
  ASSUME RunInv, UNCHANGED <<op, rec>>, TypeOK', Named(tick'.rows), Named(ti'),
         \A u \in Task : ti[u].state \in TaskTerminal => ti'[u] = ti[u]
  PROVE  Preserved
BY DEF RunInv, CopiesNamed, Named, OpPhase, RecPhase, Preserved, TerminalKept

LEMMA ReturnType ==
  ASSUME NEW ready \in SUBSET Task, ReturnProcessRun(ready)
  PROVE  tick' \in TickRecord /\ Named(tick'.rows) /\ mu' = "free"
BY NoRowsType DEF ReturnProcessRun, TickIdle, TickRecord, TickPC, RunRow, RunState, RunActive, Clock

(***************************************************************************)
(* Every step of the tick.                                                 *)
(***************************************************************************)
LEMMA TickPreserves == ASSUME RunInv, TickNext PROVE Preserved
<1> USE DEF rowVars, goVars, execVars, counters
<1>0. TypeOK /\ Named(ti) /\ Named(tick.rows)
  BY DEF RunInv, CopiesNamed
<1>a. tick \in TickRecord /\ tick.ready \in SUBSET Task /\ ti \in Rows
  BY <1>0 DEF TypeOK, TickRecord
<1>1. CASE TickList
  <2>1. TypeOK' /\ tick'.rows = tick.rows
    BY <1>0, <1>1 DEF TickList, TypeOK, TickRecord, TickPC
  <2> QED
    BY <1>0, <1>1, <2>1, RowsFrame DEF TickList
<1>2. CASE TickLock
  <2>1. TypeOK' /\ tick'.rows = tick.rows
    BY <1>0, <1>2 DEF TickLock, TypeOK, TickRecord, TickPC
  <2> QED
    BY <1>0, <1>2, <2>1, RowsFrame DEF TickLock
<1>3. CASE TickStart
  <2>1. CASE ReturnProcessRun({}) /\ UNCHANGED run
    BY <1>0, <1>3, <2>1, ReturnType, RowsFrame DEF TickStart, TypeOK
  <2>2. CASE run' = [run EXCEPT !.state = "running", !.clock = "fresh"] /\ UNCHANGED mu
             /\ tick' = [tick EXCEPT !.pc = "scan", !.run.state = "running", !.run.clock = "fresh"]
    <3>1. run' \in RunRow /\ tick' \in TickRecord /\ tick'.rows = tick.rows
      BY <1>0, <2>2 DEF TypeOK, TickRecord, TickPC, RunRow, RunState, RunActive, Clock
    <3> QED
      BY <1>0, <1>3, <2>2, <3>1, RowsFrame DEF TickStart, TypeOK
  <2>3. CASE tick' = [tick EXCEPT !.pc = "scan"] /\ UNCHANGED <<run, mu>>
    <3>1. tick' \in TickRecord /\ tick'.rows = tick.rows
      BY <1>a, <2>3 DEF TickRecord, TickPC
    <3> QED
      BY <1>0, <1>3, <2>3, <3>1, RowsFrame DEF TickStart, TypeOK
  <2> QED
    BY <1>3, <2>1, <2>2, <2>3 DEF TickStart
<1>4. CASE TickFinalize
  <2>1. tick' \in TickRecord /\ Named(tick'.rows) /\ mu' = "free"
    BY <1>a, <1>4, ReturnType DEF TickFinalize
  <2>2. run' \in RunRow
    BY <1>0, <1>4 DEF TickFinalize, TypeOK, FinalState, RunRow, RunState, RunTerminal, TickRecord
  <2> QED
    BY <1>0, <1>4, <2>1, <2>2, RowsFrame DEF TickFinalize, TypeOK
<1>5. CASE TickWithinDeadline
  <2>1. tick' \in TickRecord /\ Named(tick'.rows) /\ mu' = "free"
    BY <1>a, <1>5, ReturnType DEF TickWithinDeadline
  <2> QED
    BY <1>0, <1>5, <2>1, RowsFrame DEF TickWithinDeadline, TypeOK
<1>6. CASE TickTimeout
  <2>1. run' \in RunRow
    BY <1>0, <1>6 DEF TickTimeout, TypeOK, RunRow, RunState, RunTerminal, TickRecord
  <2>2. tick' \in TickRecord /\ tick'.rows = ti
    BY <1>a, <1>6 DEF TickTimeout, TickRecord, TickPC, Unsettled, Existing
  <2> QED
    BY <1>0, <1>6, <2>1, <2>2, RowsFrame DEF TickTimeout, TypeOK
<1>7. CASE TickTimeoutDone
  <2>1. tick' \in TickRecord /\ Named(tick'.rows) /\ mu' = "free"
    BY <1>a, <1>7, ReturnType DEF TickTimeoutDone
  <2> QED
    BY <1>0, <1>7, <2>1, RowsFrame DEF TickTimeoutDone, TypeOK
<1>8. CASE TickAdmit
  <2>1. tick' \in TickRecord /\ Named(tick'.rows) /\ mu' \in {"free", "tick", "op"}
    <3>1. CASE tick' = TickIdle /\ UNCHANGED mu
      BY <1>0, <3>1, IdleTypes DEF TypeOK
    <3>2. CASE tick' = [tick EXCEPT !.pc = "admit", !.taken = Busy] /\ mu' = "tick"
      BY <1>0, <1>a, <3>2 DEF TickRecord, TickPC, Busy
    <3> QED
      BY <1>8, <3>1, <3>2 DEF TickAdmit
  <2> QED
    BY <1>0, <1>8, <2>1, RowsFrame DEF TickAdmit, TypeOK
<1>9. CASE TickDone
  BY <1>0, <1>9, IdleTypes, RowsFrame DEF TickDone, TypeOK
<1>10. ASSUME NEW due \in SUBSET Task, TickScan(due) PROVE Preserved
  <2>1. due \in SUBSET UpForRetry
    BY <1>10 DEF TickScan
  <2>2. /\ Requeued(due) \in Rows /\ Named(Requeued(due))
        /\ \A u \in Task : ti[u].state \in TaskTerminal => Requeued(due)[u] = ti[u]
    BY <1>0, <1>a, <2>1, RequeuedType
  <2>3. CASE tick.run.held
    <3>1. tick' \in TickRecord /\ Named(tick'.rows) /\ mu' = "free"
      BY <1>10, <2>3, ReturnType DEF TickScan
    <3>2. ti' = Requeued(due)
      BY <1>10, <2>3 DEF TickScan
    <3> QED
      BY <1>0, <1>10, <2>2, <3>1, <3>2, CallersFrame DEF TickScan, TypeOK
  <2>4. CASE ~tick.run.held
    <3>1. PICK answer \in [Task -> GateOutcome \cup {"none"}] :
            /\ Collects(Requeued(due), answer)
            /\ ti' = Gated(Requeued(due), answer)
            /\ tick' = [tick EXCEPT !.pc = "finish", !.ready = {t \in Task : answer[t] = "run"}]
      BY <1>10, <2>4 DEF TickScan
    <3>2. /\ ti' \in Rows /\ Named(ti')
          /\ \A u \in Task : ti[u].state \in TaskTerminal => ti'[u] = ti[u]
      BY <2>2, <3>1, GatedType
    <3>3. tick' \in TickRecord /\ tick'.rows = tick.rows
      BY <1>a, <3>1 DEF TickRecord, TickPC
    <3>4. UNCHANGED <<run, mu, op, launch, polls, proc, outputs, rec, ops, crashes>>
      BY <1>10, <2>4 DEF TickScan
    <3> QED
      BY <1>0, <3>2, <3>3, <3>4, CallersFrame DEF TypeOK
  <2> QED
    BY <2>3, <2>4
<1>11. ASSUME NEW t \in Task, TickExpand(t) PROVE Preserved
  <2>1. [Absent EXCEPT !.state = "scheduled"] = [state |-> "scheduled", try |-> 0, ref |-> 0]
    BY DEF Absent
  <2>2. /\ ti' \in Rows /\ Named(ti')
        /\ \A u \in Task : ti[u].state \in TaskTerminal => ti'[u] = ti[u]
    BY <1>0, <1>a, <1>11, <2>1, BoundAssumption
    DEF TickExpand, Rows, Row, Named, NamesTheTry, TaskState, TaskTerminal, TaskFailure
  <2> QED
    BY <1>0, <1>11, <2>2, CallersFrame DEF TickExpand, TypeOK
<1>12. ASSUME NEW t \in Task, TickTimeoutKill(t) PROVE Preserved
  <2>1. tick' \in TickRecord /\ tick'.rows = tick.rows
    BY <1>a, <1>12 DEF TickTimeoutKill, TickRecord, TickPC
  <2>2. proc' \in [Task -> [Attempt -> ProcState]]
    BY <1>0, <1>12, KillType DEF TickTimeoutKill, TypeOK
  <2> QED
    BY <1>0, <1>12, <2>1, <2>2, RowsFrame DEF TickTimeoutKill, TypeOK
<1>13. ASSUME NEW t \in Task, TickTimeoutWrite(t) PROVE Preserved
  <2>1. tick' \in TickRecord /\ tick'.rows = tick.rows
    BY <1>a, <1>13 DEF TickTimeoutWrite, TickRecord, TickPC
  <2>2. LET row == [tick.rows[t] EXCEPT !.state = "timed_out"]
        IN  row \in Row /\ NamesTheTry(row)
    BY <1>0, <1>a
    DEF TickRecord, Rows, Row, Named, NamesTheTry, TaskState, TaskTerminal, TaskFailure
  <2>3. /\ ti' \in Rows /\ Named(ti')
        /\ \A u \in Task : ti[u].state \in TaskTerminal => ti'[u] = ti[u]
    BY <1>0, <1>a, <1>13, <2>2, GuardedWrite DEF TickTimeoutWrite
  <2> QED
    BY <1>0, <1>13, <2>1, <2>3, CallersFrame DEF TickTimeoutWrite, TypeOK
<1>14. ASSUME NEW t \in Task, Dispatch(t) PROVE Preserved
  <2> DEFINE a == ti[t].try + 1
  <2>1. a \in Attempt /\ ti[t].state = "scheduled"
    BY <1>a, <1>14, BoundAssumption DEF Dispatch, CanDispatch, Rows, Row, Attempt
  <2>2. OwnRow(t, a, "queued") \in Row /\ NamesTheTry(OwnRow(t, a, "queued"))
    BY <2>1, OwnRowType DEF TaskState
  <2>3. ti' = [ti EXCEPT ![t] = OwnRow(t, a, "queued")]
        /\ launch' = [launch EXCEPT ![t][a] = "check"]
    BY <1>14 DEF Dispatch
  <2>4. /\ ti' \in Rows /\ Named(ti')
        /\ \A u \in Task : ti[u].state \in TaskTerminal => ti'[u] = ti[u]
    BY <1>0, <1>a, <2>1, <2>2, <2>3 DEF Rows, Named, TaskTerminal, TaskFailure
  <2>5. launch' \in [Task -> [Attempt -> LaunchPC]]
    BY <1>0, <2>1, <2>3 DEF TypeOK, LaunchPC
  <2>6. tick' \in TickRecord /\ tick'.rows = tick.rows
    BY <1>a, <1>14 DEF Dispatch, TickRecord, TickPC
  <2> QED
    BY <1>0, <1>14, <2>4, <2>5, <2>6, CallersFrame DEF Dispatch, TypeOK
<1>15. ASSUME NEW t \in Task, PassOver(t) PROVE Preserved
  <2>1. tick' \in TickRecord /\ tick'.rows = tick.rows
    BY <1>a, <1>15 DEF PassOver, TickRecord, TickPC
  <2> QED
    BY <1>0, <1>15, <2>1, RowsFrame DEF PassOver, TypeOK
<1> QED
  BY <1>1, <1>2, <1>3, <1>4, <1>5, <1>6, <1>7, <1>8, <1>9, <1>10, <1>11, <1>12, <1>13,
     <1>14, <1>15 DEF TickNext

-----------------------------------------------------------------------------
(***************************************************************************)
(* Every step of an attempt's goroutine and of its process.                *)
(***************************************************************************)
LEMMA AttemptPreserves ==
  ASSUME RunInv, NEW t \in Task, NEW a \in Attempt, AttemptNext(t, a) PROVE Preserved
<1> USE DEF rowVars, goVars, execVars, counters
<1>0. TypeOK /\ Named(ti) /\ Named(tick.rows)
  BY DEF RunInv, CopiesNamed
<1>a. ti \in Rows /\ launch \in [Task -> [Attempt -> LaunchPC]]
      /\ polls \in [Task -> [Attempt -> Nat]] /\ proc \in [Task -> [Attempt -> ProcState]]
  BY <1>0 DEF TypeOK
<1>1. CASE CheckCancelled(t, a)
  <2>1. launch' \in [Task -> [Attempt -> LaunchPC]]
    BY <1>a, <1>1 DEF CheckCancelled, LaunchPC
  <2> QED
    BY <1>0, <1>1, <2>1, RowsFrame DEF CheckCancelled, TypeOK
<1>2. CASE Launch(t, a)
  <2>1. launch' \in [Task -> [Attempt -> LaunchPC]]
    BY <1>a, <1>2 DEF Launch, LaunchPC
  <2>2. proc' \in [Task -> [Attempt -> ProcState]]
    BY <1>a, <1>2 DEF Launch, ProcState
  <2> QED
    BY <1>0, <1>2, <2>1, <2>2, RowsFrame DEF Launch, TypeOK
<1>3. CASE LaunchFails(t, a)
  <2>1. launch' \in [Task -> [Attempt -> LaunchPC]]
    BY <1>a, <1>3 DEF LaunchFails, LaunchPC
  <2>2. /\ ti' \in Rows /\ Named(ti')
        /\ \A u \in Task : ti[u].state \in TaskTerminal => ti'[u] = ti[u]
    <3>1. OwnRow(t, a, FailureState(t, a)) \in Row /\ NamesTheTry(OwnRow(t, a, FailureState(t, a)))
      BY OutcomeType, OwnRowType
    <3> QED
      BY <1>0, <1>a, <1>3, <3>1, GuardedWrite DEF LaunchFails
  <2> QED
    BY <1>0, <1>3, <2>1, <2>2, CallersFrame DEF LaunchFails, TypeOK
<1>4. CASE NoWorker(t, a)
  <2>1. launch' \in [Task -> [Attempt -> LaunchPC]]
    BY <1>a, <1>4 DEF NoWorker, LaunchPC
  <2>2. /\ ti' \in Rows /\ Named(ti')
        /\ \A u \in Task : ti[u].state \in TaskTerminal => ti'[u] = ti[u]
    BY <1>0, <1>a, <1>4, GivenBackType, GuardedWrite DEF NoWorker
  <2> QED
    BY <1>0, <1>4, <2>1, <2>2, CallersFrame DEF NoWorker, TypeOK
<1>5. CASE MarkRunning(t, a)
  <2>1. launch' \in [Task -> [Attempt -> LaunchPC]]
    BY <1>a, <1>5 DEF MarkRunning, LaunchPC
  <2>2. polls' \in [Task -> [Attempt -> Nat]]
    BY <1>a, <1>5 DEF MarkRunning
  <2>3. /\ ti' \in Rows /\ Named(ti')
        /\ \A u \in Task : ti[u].state \in TaskTerminal => ti'[u] = ti[u]
    <3>1. OwnRow(t, a, "running") \in Row /\ NamesTheTry(OwnRow(t, a, "running"))
      BY OwnRowType DEF TaskState
    <3> QED
      BY <1>0, <1>a, <1>5, <3>1, GuardedWrite DEF MarkRunning
  <2> QED
    BY <1>0, <1>5, <2>1, <2>2, <2>3, CallersFrame DEF MarkRunning, TypeOK
<1>6. CASE MarkRunningError(t, a)
  <2>1. launch' \in [Task -> [Attempt -> LaunchPC]]
    BY <1>a, <1>6 DEF MarkRunningError, LaunchPC
  <2> QED
    BY <1>0, <1>6, <2>1, RowsFrame DEF MarkRunningError, TypeOK
<1>7. CASE KillLaunched(t, a)
  <2>1. launch' \in [Task -> [Attempt -> LaunchPC]]
    BY <1>a, <1>7 DEF KillLaunched, LaunchPC
  <2>2. proc' \in [Task -> [Attempt -> ProcState]]
    BY <1>a, <1>7, KillType DEF KillLaunched
  <2> QED
    BY <1>0, <1>7, <2>1, <2>2, RowsFrame DEF KillLaunched, TypeOK
<1>8. CASE Poll(t, a)
  <2>1. launch' \in [Task -> [Attempt -> LaunchPC]]
    BY <1>a, <1>8 DEF Poll, LaunchPC
  <2>2. polls' \in [Task -> [Attempt -> Nat]]
    BY <1>a, <1>8 DEF Poll
  <2>3. /\ ti' \in Rows /\ Named(ti')
        /\ \A u \in Task : ti[u].state \in TaskTerminal => ti'[u] = ti[u]
    <3> DEFINE s == Outcome(t, a, Observed(t, a))
    <3>1. OwnRow(t, a, s) \in Row /\ NamesTheTry(OwnRow(t, a, s))
      BY OutcomeType, OwnRowType
    <3> QED
      BY <1>0, <1>a, <1>8, <3>1, GuardedWrite DEF Poll
  <2> QED
    BY <1>0, <1>8, <2>1, <2>2, <2>3, CallersFrame DEF Poll, TypeOK
<1>9. CASE CollectOutput(t, a)
  <2>1. launch' \in [Task -> [Attempt -> LaunchPC]]
    BY <1>a, <1>9 DEF CollectOutput, LaunchPC
  <2>2. outputs' \subseteq Task \X Attempt
    BY <1>0, <1>9 DEF CollectOutput, TypeOK
  <2> QED
    BY <1>0, <1>9, <2>1, <2>2, RowsFrame DEF CollectOutput, TypeOK
<1> QED
  BY <1>1, <1>2, <1>3, <1>4, <1>5, <1>6, <1>7, <1>8, <1>9 DEF AttemptNext

LEMMA ExecutorPreserves ==
  ASSUME RunInv, NEW t \in Task, NEW a \in Attempt, ExecutorNext(t, a) PROVE Preserved
<1> USE DEF rowVars, goVars, execVars, counters
<1>0. TypeOK /\ Named(tick.rows) /\ proc \in [Task -> [Attempt -> ProcState]]
  BY DEF RunInv, CopiesNamed, TypeOK
<1>1. CASE ProcExit(t, a)
  <2>1. proc' \in [Task -> [Attempt -> ProcState]]
    BY <1>0, <1>1 DEF ProcExit, ProcState
  <2> QED
    BY <1>0, <1>1, <2>1, RowsFrame DEF ProcExit, TypeOK
<1>2. CASE WriteOutput(t, a)
  <2>1. outputs' \subseteq Task \X Attempt
    BY <1>0, <1>2 DEF WriteOutput, TypeOK
  <2> QED
    BY <1>0, <1>2, <2>1, RowsFrame DEF WriteOutput, TypeOK
<1>3. CASE ExecutorLoses(t, a)
  <2>1. proc' \in [Task -> [Attempt -> ProcState]]
    BY <1>0, <1>3 DEF ExecutorLoses, ProcState
  <2> QED
    BY <1>0, <1>3, <2>1, RowsFrame DEF ExecutorLoses, TypeOK
<1> QED
  BY <1>1, <1>2, <1>3 DEF ExecutorNext

LEMMA DeadlinePreserves == ASSUME RunInv, DeadlinePasses PROVE Preserved
<1> USE DEF rowVars, goVars, execVars, counters
<1>0. TypeOK /\ Named(tick.rows)
  BY DEF RunInv, CopiesNamed
<1>1. run' \in RunRow
  BY <1>0 DEF DeadlinePasses, TypeOK, RunRow, Clock
<1>2. tick' \in TickRecord /\ tick'.rows = tick.rows
  BY <1>0 DEF DeadlinePasses, TypeOK, TickRecord, RunRow, Clock, Expire
<1> QED
  BY <1>0, <1>1, <1>2, RowsFrame DEF DeadlinePasses, TypeOK

-----------------------------------------------------------------------------
(***************************************************************************)
(* Operator calls: a step that only moves the call on, and a step that     *)
(* also writes rows, which a call may do to terminal ones.                 *)
(***************************************************************************)
LEMMA OpFrame ==
  ASSUME RunInv, UNCHANGED <<ti, tick, rec>>, TypeOK', Named(op'.rows), OpPhase'
  PROVE  Preserved
BY DEF RunInv, CopiesNamed, Named, RecPhase, Preserved, TerminalKept

LEMMA OpWrites ==
  ASSUME RunInv, UNCHANGED <<tick, rec>>, TypeOK', Named(ti'), Named(op'.rows), OpPhase',
         op.kind # "none"
  PROVE  Preserved
BY DEF RunInv, CopiesNamed, Named, RecPhase, Preserved

(***************************************************************************)
(* The first step of a call.                                               *)
(***************************************************************************)
LEMMA CallPreserves == ASSUME RunInv, CallNext PROVE Preserved
<1> USE DEF rowVars, goVars, execVars, counters
<1>0. TypeOK /\ Named(ti) /\ Named(op.rows) /\ OpPhase
  BY DEF RunInv, CopiesNamed
<1>a. ti \in Rows /\ ops \in Nat /\ op \in OpRecord /\ run \in RunRow
  BY <1>0 DEF TypeOK
<1>1. CASE CancelRun
  <2>1. run' \in RunRow
    BY <1>a, <1>1 DEF CancelRun, RunRow, RunState, RunTerminal
  <2>2. op' \in OpRecord /\ op'.rows = ti /\ op'.pc = "start"
    BY <1>a, <1>1, IdleTypes
    DEF CancelRun, BeginOp, OpNone, OpRecord, OpPC, Unsettled, Existing, TaskState
  <2>3. mu' = "op" /\ ops' \in Nat
    BY <1>a, <1>1 DEF CancelRun, BeginOp
  <2> QED
    BY <1>0, <1>1, <2>1, <2>2, <2>3, OpFrame DEF CancelRun, TypeOK, OpPhase
<1>2. ASSUME NEW kind, NEW ids \in SUBSET Task, Retry(kind, ids) PROVE Preserved
  <2>1. /\ op' \in OpRecord /\ op'.rows = ti
        /\ op'.pc = "clear" /\ op'.kind = "retry"
    BY <1>a, <1>2, IdleTypes DEF Retry, BeginOp, OpNone, OpRecord, OpPC, TaskState
  <2>2. mu' = "op" /\ ops' \in Nat
    BY <1>a, <1>2 DEF Retry, BeginOp
  <2> QED
    BY <1>0, <1>2, <2>1, <2>2, OpFrame DEF Retry, TypeOK, OpPhase
<1>3. CASE RetryRun
  <2> DEFINE ids == UNION {downstreamClosure(Deps, t) : t \in {u \in Task : ti[u].state \in TaskFailure}}
  <2>1. ids \in SUBSET Task
    BY ClosureInTask
  <2>2. Retry("retry_run", ids)
    BY <1>3 DEF RetryRun
  <2> QED
    BY <1>2, <2>1, <2>2
<1>4. ASSUME NEW t \in Task, RetryTask(t) PROVE Preserved
  BY <1>2, <1>4, ClosureInTask DEF RetryTask
<1>5. ASSUME NEW target \in {"success", "failed"}, MarkRun(target) PROVE Preserved
  <2>1. run' \in RunRow /\ ops' \in Nat
    BY <1>a, <1>5 DEF MarkRun, RunRow, RunState, RunTerminal
  <2> QED
    BY <1>0, <1>5, <2>1, OpFrame DEF MarkRun, TypeOK, OpPhase
<1>6. ASSUME NEW held \in BOOLEAN, SetHeld(held) PROVE Preserved
  <2>1. run' \in RunRow /\ ops' \in Nat
    BY <1>a, <1>6 DEF SetHeld, RunRow
  <2> QED
    BY <1>0, <1>6, <2>1, OpFrame DEF SetHeld, TypeOK, OpPhase
<1>7. ASSUME NEW t \in Task, NEW target \in {"success", "failed", "skipped"}, MarkTask(t, target)
      PROVE  Preserved
  <2>0. PICK settled \in BOOLEAN :
          op' = [[OpNone EXCEPT !.kind = "mark", !.pc = "kill", !.task = {t},
                                !.target = target, !.settled = settled] EXCEPT !.rows = ti]
    <3>1. (run.state \in RunTerminal) \in BOOLEAN
      OBVIOUS
    <3> QED
      BY <1>7, <3>1, Zenon DEF MarkTask, BeginOp
  <2>1. /\ op' \in OpRecord /\ op'.rows = ti
        /\ op'.kind = "mark" /\ op'.target = target
    BY <1>a, <2>0, IdleTypes
    DEF OpNone, OpRecord, OpPC, TaskState, TaskTerminal, TaskFailure
  <2>2. mu' = "op" /\ ops' \in Nat
    BY <1>a, <1>7 DEF MarkTask, BeginOp
  <2> QED
    BY <1>0, <1>7, <2>1, <2>2, OpFrame DEF MarkTask, TypeOK, OpPhase
<1> QED
  BY <1>1, <1>3, <1>4, <1>5, <1>6, <1>7 DEF CallNext

(***************************************************************************)
(* The later steps of a call.                                              *)
(***************************************************************************)
LEMMA EndOpType == ASSUME EndOp PROVE op' \in OpRecord /\ Named(op'.rows) /\ OpPhase' /\ mu' = "free"
BY IdleTypes DEF EndOp, OpPhase

LEMMA OpPreserves == ASSUME RunInv, OpNext PROVE Preserved
<1> USE DEF rowVars, goVars, execVars, counters
<1>0. TypeOK /\ Named(ti) /\ Named(op.rows) /\ OpPhase
  BY DEF RunInv, CopiesNamed
<1>a. ti \in Rows /\ op \in OpRecord /\ run \in RunRow /\ op.rows \in Rows
  BY <1>0 DEF TypeOK, OpRecord
<1>1. CASE CancelDone
  BY <1>0, <1>1, EndOpType, OpFrame DEF CancelDone, TypeOK
<1>2. CASE Reactivate
  <2>1. run' \in RunRow
    BY <1>a, <1>2 DEF Reactivate, RunRow, RunState, RunActive, Clock
  <2> QED
    BY <1>0, <1>2, <2>1, EndOpType, OpFrame DEF Reactivate, TypeOK
<1>3. ASSUME NEW t \in Task, CancelKill(t) PROVE Preserved
  <2>1. proc' \in [Task -> [Attempt -> ProcState]]
    BY <1>0, <1>3, KillType DEF CancelKill, TypeOK
  <2>2. op' \in OpRecord /\ op'.rows = op.rows /\ op'.pc = op.pc /\ op'.kind = op.kind
        /\ op'.target = op.target
    BY <1>a, <1>3 DEF CancelKill, OpRecord
  <2> QED
    BY <1>0, <1>3, <2>1, <2>2, OpFrame DEF CancelKill, TypeOK, OpPhase
<1>4. ASSUME NEW t \in Task, CancelWrite(t) PROVE Preserved
  <2>1. [op.rows[t] EXCEPT !.state = "cancelled"] \in Row
        /\ NamesTheTry([op.rows[t] EXCEPT !.state = "cancelled"])
    BY <1>0, <1>a DEF Rows, Row, Named, NamesTheTry, TaskState, TaskTerminal, TaskFailure
  <2>2. ti' \in Rows /\ Named(ti')
    BY <1>0, <1>a, <1>4, <2>1 DEF CancelWrite, Rows, Named
  <2>3. op' \in OpRecord /\ op'.rows = op.rows /\ op'.pc = op.pc /\ op'.kind = op.kind
        /\ op'.target = op.target
    BY <1>a, <1>4 DEF CancelWrite, OpRecord
  <2> QED
    BY <1>0, <1>4, <2>2, <2>3, OpWrites DEF CancelWrite, TypeOK, OpPhase
<1>5. ASSUME NEW t \in Task, MarkKill(t) PROVE Preserved
  <2>1. proc' \in [Task -> [Attempt -> ProcState]]
    BY <1>0, <1>5, KillType DEF MarkKill, TypeOK
  <2>2. Released(t) \in SUBSET Task
    BY ClosureInTask DEF Released
  <2>3. op' \in OpRecord /\ op'.rows = op.rows /\ op'.kind = op.kind /\ op'.target = op.target
    BY <1>a, <1>5, <2>2 DEF MarkKill, OpRecord, OpPC
  <2> QED
    BY <1>0, <1>5, <2>1, <2>3, OpFrame DEF MarkKill, TypeOK, OpPhase
<1>6. ASSUME NEW t \in Task, MarkSet(t) PROVE Preserved
  <2>1. op.target \in {"success", "failed", "skipped"} /\ op.kind # "none"
    BY <1>0, <1>6 DEF MarkSet, OpPhase
  <2>2. [op.rows[t] EXCEPT !.state = op.target] \in Row
        /\ NamesTheTry([op.rows[t] EXCEPT !.state = op.target])
    BY <1>0, <1>a, <2>1 DEF Rows, Row, Named, NamesTheTry, TaskState, TaskTerminal, TaskFailure
  <2>3. ti' \in Rows /\ Named(ti')
    BY <1>0, <1>a, <1>6, <2>2 DEF MarkSet, Rows, Named
  <2>4. op' \in OpRecord /\ op'.rows = op.rows /\ op'.pc = "reactivate" /\ op'.kind = op.kind
    BY <1>a, <1>6 DEF MarkSet, OpRecord, OpPC
  <2> QED
    BY <1>0, <1>6, <2>1, <2>3, <2>4, OpWrites DEF MarkSet, TypeOK, OpPhase
<1>7. ASSUME NEW t \in Task, ClearTask(t) PROVE Preserved
  <2>1. Cleared(op.rows[t]) \in Row /\ NamesTheTry(Cleared(op.rows[t]))
    BY <1>a, ClearedType DEF Rows
  <2>2. ti' \in Rows /\ Named(ti')
    BY <1>0, <1>a, <1>7, <2>1 DEF ClearTask, Rows, Named
  <2>3. op' \in OpRecord /\ op'.rows = op.rows /\ op'.pc = op.pc /\ op'.kind = op.kind
        /\ op'.target = op.target
    BY <1>a, <1>7 DEF ClearTask, OpRecord
  <2>4. op.kind # "none"
    BY <1>0, <1>7 DEF ClearTask, OpPhase
  <2> QED
    BY <1>0, <1>7, <2>2, <2>3, <2>4, OpWrites DEF ClearTask, TypeOK, OpPhase
<1> QED
  BY <1>1, <1>2, <1>3, <1>4, <1>5, <1>6, <1>7 DEF OpNext

-----------------------------------------------------------------------------
(***************************************************************************)
(* Recovery writes rows only by guarded writes.                            *)
(***************************************************************************)
LEMMA RecoverFrame ==
  ASSUME RunInv, UNCHANGED <<tick, op>>, TypeOK', Named(ti'), Named(rec'.rows), RecPhase',
         \A u \in Task : ti[u].state \in TaskTerminal => ti'[u] = ti[u]
  PROVE  Preserved
BY DEF RunInv, CopiesNamed, OpPhase, Preserved, TerminalKept

LEMMA RecoverNextType ==
  ASSUME rec \in RecRecord, Named(rec.rows), NEW t, RecoverNext(t)
  PROVE  rec' \in RecRecord /\ Named(rec'.rows) /\ RecPhase'
<1>1. rec' \in RecRecord /\ rec'.rows = rec.rows /\ rec'.cur = {}
  BY DEF RecoverNext, RecRecord, ProcState
<1> QED
  BY <1>1 DEF RecPhase

LEMMA RecoverPreserves == ASSUME RunInv, RecoverNextStep PROVE Preserved
<1> USE DEF rowVars, goVars, execVars, counters
<1>0. TypeOK /\ Named(ti) /\ Named(rec.rows) /\ RecPhase
  BY DEF RunInv, CopiesNamed
<1>a. /\ ti \in Rows /\ rec \in RecRecord
      /\ polls \in [Task -> [Attempt -> Nat]] /\ proc \in [Task -> [Attempt -> ProcState]]
  BY <1>0 DEF TypeOK
<1>1. CASE RecoverQueued
  <2>1. rec' \in RecRecord /\ rec'.rows = ti /\ rec'.cur = {}
    BY <1>a, <1>1 DEF RecoverQueued, RecUp, RecRecord, RecoverList, ProcState
  <2> QED
    BY <1>0, <1>1, <2>1, RecoverFrame DEF RecoverQueued, TypeOK, RecPhase
<1>2. CASE RecoverRunning
  <2>1. rec' \in RecRecord /\ rec'.rows = ti /\ rec'.cur = {}
    BY <1>a, <1>2 DEF RecoverRunning, RecUp, RecRecord, RecoverList, ProcState
  <2> QED
    BY <1>0, <1>2, <2>1, RecoverFrame DEF RecoverRunning, TypeOK, RecPhase
<1>3. CASE RecoverDone
  BY <1>0, <1>3, IdleTypes, RecoverFrame DEF RecoverDone, TypeOK, RecPhase
<1>4. ASSUME NEW t \in Task, RecoverProbe(t) PROVE Preserved
  <2>1. PICK a \in Attempt : /\ rec.rows[t].ref = a
                             /\ rec' = [rec EXCEPT !.cur = {t}, !.seen = proc[t][a]]
    BY <1>4 DEF RecoverProbe
  <2>2. proc[t][a] \in ProcState
    BY <1>a
  <2>3. rec' \in RecRecord /\ rec'.rows = rec.rows /\ rec'.cur = {t}
    BY <1>a, <2>1, <2>2 DEF RecRecord
  <2>4. RecPhase'
    BY <2>1, <2>3 DEF RecPhase
  <2> QED
    BY <1>0, <1>4, <2>3, <2>4, RecoverFrame DEF RecoverProbe, TypeOK
<1>5. ASSUME NEW t \in Task, RecoverProbeError(t) PROVE Preserved
  <2>1. rec' \in RecRecord /\ rec'.rows = rec.rows /\ rec'.cur = rec.cur
    BY <1>a, <1>5 DEF RecoverProbeError, RecRecord
  <2> QED
    BY <1>0, <1>5, <2>1, RecoverFrame DEF RecoverProbeError, TypeOK, RecPhase
<1>6. ASSUME NEW t \in Task, RecoverFinalize(t) PROVE Preserved
  <2> DEFINE a == rec.rows[t].ref
  <2>1. a \in Attempt
    BY <1>0, <1>6 DEF RecoverFinalize, RecPhase
  <2>2. /\ ti' \in Rows /\ Named(ti')
        /\ \A u \in Task : ti[u].state \in TaskTerminal => ti'[u] = ti[u]
    <3> DEFINE s == Outcome(t, a, rec.seen)
    <3>1. OwnRow(t, a, s) \in Row /\ NamesTheTry(OwnRow(t, a, s))
      BY <2>1, OutcomeType, OwnRowType
    <3> QED
      BY <1>0, <1>a, <1>6, <3>1, GuardedWrite DEF RecoverFinalize
  <2>3. outputs' \subseteq Task \X Attempt
    BY <1>0, <1>6 DEF RecoverFinalize, TypeOK
  <2>4. rec' \in RecRecord /\ Named(rec'.rows) /\ RecPhase'
    BY <1>0, <1>a, <1>6, RecoverNextType DEF RecoverFinalize
  <2> QED
    BY <1>0, <1>6, <2>2, <2>3, <2>4, RecoverFrame DEF RecoverFinalize, TypeOK
<1>7. ASSUME NEW t \in Task, RecoverReattach(t) PROVE Preserved
  <2> DEFINE a == rec.rows[t].ref
  <2>1. a \in Attempt
    BY <1>0, <1>7 DEF RecoverReattach, RecPhase
  <2>2. /\ ti' \in Rows /\ Named(ti')
        /\ \A u \in Task : ti[u].state \in TaskTerminal => ti'[u] = ti[u]
    <3>1. OwnRow(t, a, "running") \in Row /\ NamesTheTry(OwnRow(t, a, "running"))
      BY <2>1, OwnRowType DEF TaskState
    <3> QED
      BY <1>0, <1>a, <1>7, <3>1, GuardedWrite DEF RecoverReattach
  <2>3. polls' \in [Task -> [Attempt -> Nat]]
    <3>1. polls' = polls \/ polls' = [polls EXCEPT ![t] = [@ EXCEPT ![a] = polls[t][a] + 1]]
      BY <1>7 DEF RecoverReattach
    <3>2. polls[t] \in [Attempt -> Nat] /\ polls[t][a] + 1 \in Nat
      BY <1>a, <2>1
    <3>3. [polls[t] EXCEPT ![a] = polls[t][a] + 1] \in [Attempt -> Nat]
      BY <2>1, <3>2
    <3> QED
      BY <1>a, <3>1, <3>3
  <2>4. proc' \in [Task -> [Attempt -> ProcState]]
    BY <1>a, <1>7, KillType DEF RecoverReattach
  <2>5. rec' \in RecRecord /\ Named(rec'.rows) /\ RecPhase'
    BY <1>0, <1>a, <1>7, RecoverNextType DEF RecoverReattach
  <2> QED
    BY <1>0, <1>7, <2>2, <2>3, <2>4, <2>5, RecoverFrame DEF RecoverReattach, TypeOK
<1>8. ASSUME NEW t \in Task, RecoverReset(t) PROVE Preserved
  <2> DEFINE a == rec.rows[t].ref
  <2>1. a \in Attempt
    BY <1>0, <1>8 DEF RecoverReset, RecPhase
  <2>2. /\ ti' \in Rows /\ Named(ti')
        /\ \A u \in Task : ti[u].state \in TaskTerminal => ti'[u] = ti[u]
    BY <1>0, <1>a, <1>8, <2>1, GivenBackType, GuardedWrite DEF RecoverReset
  <2>3. rec' \in RecRecord /\ Named(rec'.rows) /\ RecPhase'
    BY <1>0, <1>a, <1>8, RecoverNextType DEF RecoverReset
  <2> QED
    BY <1>0, <1>8, <2>2, <2>3, RecoverFrame DEF RecoverReset, TypeOK
<1> QED
  BY <1>1, <1>2, <1>3, <1>4, <1>5, <1>6, <1>7, <1>8 DEF RecoverNextStep

LEMMA CrashPreserves == ASSUME RunInv, Crash PROVE Preserved
<1> USE DEF rowVars, goVars, execVars, counters
<1>0. TypeOK /\ Named(ti)
  BY DEF RunInv, CopiesNamed
<1>1. rec' \in RecRecord /\ Named(rec'.rows) /\ rec'.cur = {}
  BY NoRowsType DEF Crash, RecUp, RecRecord, ProcState
<1>2. TypeOK'
  BY <1>0, <1>1, IdleTypes, AttemptsType DEF Crash, TypeOK
<1>3. CopiesNamed'
  BY <1>0, <1>1, IdleTypes DEF Crash, CopiesNamed, Named
<1>4. OpPhase' /\ RecPhase'
  BY <1>1, IdleTypes DEF Crash, OpPhase, RecPhase
<1> QED
  BY <1>2, <1>3, <1>4 DEF Crash, Preserved, RunInv, TerminalKept

-----------------------------------------------------------------------------
LEMMA InitEstablishesRunInv == Init => RunInv
<1> SUFFICES ASSUME Init PROVE RunInv
  OBVIOUS
<1>1. run \in RunRow
  BY DEF Init, RunRow, RunState, RunActive, Clock
<1>2. TypeOK
  BY <1>1, NoRowsType, IdleTypes, AttemptsType DEF Init, TypeOK
<1>3. CopiesNamed
  BY NoRowsType, IdleTypes DEF Init, CopiesNamed
<1>4. OpPhase /\ RecPhase
  BY IdleTypes DEF Init, OpPhase, RecPhase
<1> QED
  BY <1>2, <1>3, <1>4 DEF RunInv

LEMMA NextPreserves == ASSUME RunInv, [Next]_vars PROVE Preserved
<1>1. CASE UNCHANGED vars
  BY <1>1 DEF vars, RunInv, TypeOK, CopiesNamed, Named, OpPhase, RecPhase, Preserved, TerminalKept
<1>2. CASE Quiet
  BY <1>1, <1>2 DEF Quiet
<1> QED
  BY <1>1, <1>2, TickPreserves, CallPreserves, OpPreserves, RecoverPreserves, AttemptPreserves,
     ExecutorPreserves, DeadlinePreserves, CrashPreserves DEF Next

LEMMA RunInvariant == Spec => []RunInv
<1>1. RunInv /\ [Next]_vars => RunInv'
  BY NextPreserves DEF Preserved
<1> QED
  BY <1>1, InitEstablishesRunInv, PTL DEF Spec

(***************************************************************************)
(* Rows, copies, goroutines and attempt numbers keep their types whatever  *)
(* the tick, the attempts, the operators, crashes and recovery do.         *)
(***************************************************************************)
THEOREM TypeCorrect == Spec => []TypeOK
<1>1. RunInv => TypeOK
  BY DEF RunInv
<1> QED
  BY <1>1, RunInvariant, PTL

(***************************************************************************)
(* An executor_ref always names the current try of its row, also when it   *)
(* is written back from a copy an operator call, a timeout or recovery has *)
(* kept.                                                                   *)
(***************************************************************************)
THEOREM RefsNameTheTry == Spec => []RefNamesTheTry
<1>1. RunInv => RefNamesTheTry
  BY DEF RunInv, CopiesNamed, Named, RefNamesTheTry
<1> QED
  BY <1>1, RunInvariant, PTL

(***************************************************************************)
(* No tick, attempt goroutine, timeout, crash or recovery rewrites a       *)
(* terminal task row: only an operator call does.                          *)
(***************************************************************************)
THEOREM TerminalRowsStay == Spec => OnlyOperatorReopens
<1> DEFINE Kept == \A t \in Task : ti[t].state \in TaskTerminal /\ ti'[t] # ti[t] => op.kind # "none"
<1>1. RunInv /\ [Next]_vars => [Kept]_vars
  BY NextPreserves DEF Preserved, TerminalKept
<1> QED
  BY <1>1, RunInvariant, PTL DEF Spec, OnlyOperatorReopens

-----------------------------------------------------------------------------
(***************************************************************************)
(* What each group of steps leaves alone.                                  *)
(***************************************************************************)
LEMMA TickLeaves == TickNext => UNCHANGED <<op, polls, outputs, rec, counters>>
BY DEF TickNext, TickList, TickLock, TickStart, TickFinalize, TickWithinDeadline, TickTimeout,
       TickTimeoutDone, TickAdmit, TickDone, TickScan, TickExpand, TickTimeoutKill,
       TickTimeoutWrite, Dispatch, PassOver, goVars, execVars, counters

LEMMA AttemptLeaves ==
  ASSUME NEW t, NEW a, AttemptNext(t, a) \/ ExecutorNext(t, a)
  PROVE  UNCHANGED <<run, mu, tick, op, rec, counters>>
BY DEF AttemptNext, ExecutorNext, CheckCancelled, Launch, LaunchFails, NoWorker, MarkRunning,
       MarkRunningError, KillLaunched, Poll, CollectOutput, ProcExit, WriteOutput,
       ExecutorLoses, rowVars, counters

LEMMA CallLeaves == CallNext => UNCHANGED <<ti, tick, launch, polls, proc, outputs, rec>>
BY DEF CallNext, CancelRun, RetryRun, RetryTask, Retry, MarkRun, SetHeld, MarkTask,
       rowVars, goVars, execVars

LEMMA OpLeaves == OpNext => UNCHANGED <<tick, launch, polls, outputs, rec>>
BY DEF OpNext, CancelDone, Reactivate, CancelKill, CancelWrite, MarkKill, MarkSet, ClearTask,
       rowVars, goVars, execVars

LEMMA RecoverLeaves == RecoverNextStep => UNCHANGED <<run, mu, tick, op, launch, counters>>
BY DEF RecoverNextStep, RecoverQueued, RecoverRunning, RecoverDone, RecoverProbe,
       RecoverProbeError, RecoverFinalize, RecoverReattach, RecoverReset, rowVars, goVars

-----------------------------------------------------------------------------
(***************************************************************************)
(* finalizeMu is held by the tick exactly between its lock and unlock, and *)
(* by an operator call for its whole length; the tick is at rest until     *)
(* recovery is over; the task being handled is one of those to do.         *)
(***************************************************************************)
Locked == {"expand", "scan", "finish", "timeout", "admit"}

LockInv ==
  /\ mu = "tick" <=> tick.pc \in Locked
  /\ mu = "op" <=> op.kind # "none"
  /\ rec.phase # "up" => tick.pc = "idle"
  /\ rec.phase \in {"up", "boot"} => rec.todo = {}
  /\ rec.cur \subseteq rec.todo
  /\ tick.cur \subseteq tick.todo /\ (tick.pc # "timeout" => tick.cur = {})
  /\ op.cur \subseteq op.todo
  /\ op.kind = "cancel" => op.pc = "start"
  /\ op.kind # "cancel" => op.cur = {}

LEMMA TickLocks == ASSUME RunInv, LockInv, TickNext PROVE LockInv'
<1> USE DEF LockInv, Locked
<1>0. tick \in TickRecord /\ UNCHANGED <<op, rec>>
  BY TickLeaves DEF RunInv, TypeOK
<1>1. CASE TickList
  BY <1>0, <1>1 DEF TickList, TickRecord
<1>2. CASE TickLock
  BY <1>0, <1>2 DEF TickLock, TickRecord
<1>3. CASE TickStart
  BY <1>0, <1>3 DEF TickStart, TickRecord, ReturnProcessRun, TickIdle
<1>4. CASE TickFinalize
  BY <1>0, <1>4 DEF TickFinalize, ReturnProcessRun, TickIdle
<1>5. CASE TickWithinDeadline
  BY <1>0, <1>5 DEF TickWithinDeadline, ReturnProcessRun, TickIdle
<1>6. CASE TickTimeout
  BY <1>0, <1>6 DEF TickTimeout, TickRecord
<1>7. CASE TickTimeoutDone
  BY <1>0, <1>7 DEF TickTimeoutDone, ReturnProcessRun, TickIdle
<1>8. CASE TickAdmit /\ tick.ready = {}
  BY <1>0, <1>8 DEF TickAdmit, TickIdle
<1>9. CASE TickAdmit /\ tick.ready # {}
  BY <1>0, <1>9 DEF TickAdmit, TickRecord
<1>10. CASE TickDone
  BY <1>0, <1>10 DEF TickDone, TickIdle
<1>11. ASSUME NEW due, TickScan(due) PROVE LockInv'
  BY <1>0, <1>11 DEF TickScan, TickRecord, ReturnProcessRun, TickIdle
<1>12. ASSUME NEW t, TickExpand(t) PROVE LockInv'
  BY <1>0, <1>12 DEF TickExpand
<1>13. ASSUME NEW t, TickTimeoutKill(t) PROVE LockInv'
  BY <1>0, <1>13 DEF TickTimeoutKill, TickRecord
<1>14. ASSUME NEW t, TickTimeoutWrite(t) PROVE LockInv'
  BY <1>0, <1>14 DEF TickTimeoutWrite, TickRecord
<1>15. ASSUME NEW t, Dispatch(t) PROVE LockInv'
  BY <1>0, <1>15 DEF Dispatch, TickRecord
<1>16. ASSUME NEW t, PassOver(t) PROVE LockInv'
  BY <1>0, <1>16 DEF PassOver, TickRecord
<1> QED
  BY <1>1, <1>2, <1>3, <1>4, <1>5, <1>6, <1>7, <1>8, <1>9, <1>10, <1>11, <1>12, <1>13, <1>14, <1>15, <1>16 DEF TickNext

LEMMA CallLocks == ASSUME RunInv, LockInv, CallNext \/ OpNext PROVE LockInv'
<1> USE DEF LockInv, Locked
<1>0. op \in OpRecord /\ OpPhase /\ UNCHANGED <<tick, rec>>
  BY CallLeaves, OpLeaves DEF RunInv, TypeOK
<1>1. CASE CancelRun
  BY <1>0, <1>1 DEF CancelRun, BeginOp, CanCall, OpNone
<1>2. ASSUME NEW kind, NEW ids, Retry(kind, ids) PROVE LockInv'
  BY <1>0, <1>2 DEF Retry, BeginOp, CanCall, OpNone
<1>3. ASSUME NEW t, NEW target, MarkTask(t, target) PROVE LockInv'
  BY <1>0, <1>3 DEF MarkTask, BeginOp, CanCall, OpNone
<1>4. ASSUME NEW target, MarkRun(target) PROVE LockInv'
  BY <1>0, <1>4 DEF MarkRun
<1>5. ASSUME NEW held, SetHeld(held) PROVE LockInv'
  BY <1>0, <1>5 DEF SetHeld
<1>6. CASE CancelDone
  BY <1>0, <1>6 DEF CancelDone, EndOp, OpNone
<1>7. CASE Reactivate
  BY <1>0, <1>7 DEF OpPhase, Reactivate, EndOp, OpNone
<1>8. ASSUME NEW t, CancelKill(t) PROVE LockInv'
  BY <1>0, <1>8 DEF CancelKill, OpRecord
<1>9. ASSUME NEW t, CancelWrite(t) PROVE LockInv'
  BY <1>0, <1>9 DEF CancelWrite, OpRecord
<1>10. ASSUME NEW t, MarkKill(t) PROVE LockInv'
  BY <1>0, <1>10 DEF MarkKill, OpRecord
<1>11. ASSUME NEW t, MarkSet(t) PROVE LockInv'
  BY <1>0, <1>11 DEF MarkSet, OpRecord
<1>12. ASSUME NEW t, ClearTask(t) PROVE LockInv'
  BY <1>0, <1>12 DEF ClearTask, OpRecord
<1> QED
  BY <1>1, <1>2, <1>3, <1>4, <1>5, <1>6, <1>7, <1>8, <1>9, <1>10, <1>11, <1>12 DEF CallNext, OpNext, RetryRun, RetryTask

LEMMA RecoverLocks == ASSUME RunInv, LockInv, RecoverNextStep PROVE LockInv'
<1> USE DEF LockInv, Locked
<1>0. rec \in RecRecord /\ UNCHANGED <<mu, tick, op>>
  BY RecoverLeaves DEF RunInv, TypeOK
<1>1. CASE RecoverQueued
  BY <1>0, <1>1 DEF RecoverQueued, RecUp
<1>2. CASE RecoverRunning
  BY <1>0, <1>2 DEF RecoverRunning, RecUp
<1>3. CASE RecoverDone
  BY <1>0, <1>3 DEF RecoverDone, RecUp
<1>4. ASSUME NEW t, RecoverProbe(t) PROVE LockInv'
  BY <1>0, <1>4 DEF RecoverProbe, RecRecord
<1>5. ASSUME NEW t, RecoverProbeError(t) PROVE LockInv'
  BY <1>0, <1>5 DEF RecoverProbeError, RecRecord
<1>6. ASSUME NEW t, RecoverFinalize(t) PROVE LockInv'
  BY <1>0, <1>6 DEF RecoverFinalize, RecoverNext, RecRecord
<1>7. ASSUME NEW t, RecoverReattach(t) PROVE LockInv'
  BY <1>0, <1>7 DEF RecoverReattach, RecoverNext, RecRecord
<1>8. ASSUME NEW t, RecoverReset(t) PROVE LockInv'
  BY <1>0, <1>8 DEF RecoverReset, RecoverNext, RecRecord
<1> QED
  BY <1>1, <1>2, <1>3, <1>4, <1>5, <1>6, <1>7, <1>8 DEF RecoverNextStep

LEMMA LockStep == ASSUME RunInv, LockInv, [Next]_vars PROVE LockInv'
<1>1. CASE UNCHANGED vars
  BY <1>1 DEF vars, LockInv, Locked
<1>2. ASSUME NEW t, NEW a, AttemptNext(t, a) \/ ExecutorNext(t, a) PROVE LockInv'
  BY <1>2, AttemptLeaves DEF LockInv, Locked
<1>3. CASE DeadlinePasses
  BY <1>3 DEF DeadlinePasses, LockInv, Locked, RunInv, TypeOK, TickRecord
<1>4. CASE Crash
  BY <1>4 DEF Crash, LockInv, Locked, TickIdle, OpNone, RecUp
<1> QED
  BY <1>1, <1>2, <1>3, <1>4, TickLocks, CallLocks, RecoverLocks DEF Next, Quiet

LEMMA LockInvariant == Spec => []LockInv
<1>1. Init => LockInv
  BY DEF Init, LockInv, Locked, TickIdle, OpNone, RecUp
<1> QED
  BY <1>1, LockStep, RunInvariant, PTL DEF Spec

-----------------------------------------------------------------------------
(***************************************************************************)
(* The steps that write rows, goroutines or processes.                     *)
(***************************************************************************)
LEMMA Writes ==
  ASSUME [Next]_vars
  PROVE  \/ UNCHANGED <<ti, launch, polls, proc>>
         \/ \E due \in SUBSET Task : TickScan(due)
         \/ \E t \in Task : \/ TickExpand(t) \/ TickTimeoutKill(t) \/ TickTimeoutWrite(t)
                            \/ Dispatch(t)
                            \/ CancelKill(t) \/ CancelWrite(t)
                            \/ MarkKill(t) \/ MarkSet(t) \/ ClearTask(t)
                            \/ RecoverFinalize(t) \/ RecoverReattach(t) \/ RecoverReset(t)
         \/ \E t \in Task, a \in Attempt : AttemptNext(t, a) \/ ProcExit(t, a) \/ ExecutorLoses(t, a)
         \/ Crash
<1>1. CASE UNCHANGED vars \/ Quiet \/ DeadlinePasses
  BY <1>1 DEF vars, Quiet, DeadlinePasses, goVars, execVars
<1>2. CASE TickNext
  BY <1>2 DEF TickNext, TickList, TickLock, TickStart, TickFinalize, TickWithinDeadline,
       TickTimeout, TickTimeoutDone, TickAdmit, TickDone, PassOver, rowVars, goVars, execVars
<1>3. CASE CallNext
  BY <1>3, CallLeaves
<1>4. CASE OpNext
  BY <1>4 DEF OpNext, CancelDone, Reactivate, rowVars, goVars, execVars
<1>5. CASE RecoverNextStep
  BY <1>5 DEF RecoverNextStep, RecoverQueued, RecoverRunning, RecoverDone, RecoverProbe,
       RecoverProbeError, rowVars, goVars, execVars
<1>6. ASSUME NEW t \in Task, NEW a \in Attempt, ExecutorNext(t, a)
      PROVE  UNCHANGED <<ti, launch, polls, proc>> \/ ProcExit(t, a) \/ ExecutorLoses(t, a)
  BY <1>6 DEF ExecutorNext, WriteOutput, rowVars, goVars
<1> QED
  BY <1>1, <1>2, <1>3, <1>4, <1>5, <1>6 DEF Next

(***************************************************************************)
(* What a kill, a guarded write of the owner of an attempt, an attempt     *)
(* given back and the scan of the tick do to each entry.                   *)
(***************************************************************************)
LEMMA KillAt ==
  ASSUME RunInv, NEW t \in Task, NEW ref
  PROVE  \A u \in Task, b \in Attempt :
           Kill(t, ref)[u][b] = IF u = t /\ b = ref /\ proc[u][b] = "running"
                                  THEN "exit1" ELSE proc[u][b]
BY DEF Kill, RunInv, TypeOK

LEMMA GuardedAt ==
  ASSUME RunInv, NEW t \in Task, NEW row, NEW ref, ti' = Guarded(t, row, ref)
  PROVE  \A u \in Task : ti'[u] = IF u = t /\ Applies(t, ref) THEN row ELSE ti[u]
BY DEF Guarded, RunInv, TypeOK, Rows

LEMMA AppliesNames ==
  ASSUME RunInv, NEW t \in Task, NEW a \in Attempt, Applies(t, a)
  PROVE  ti[t].try = a /\ ti[t].state \in {"queued", "running", "up_for_retry"}
<1>1. ti[t] \in Row /\ NamesTheTry(ti[t]) /\ ti[t].ref = a /\ ti[t].state \notin TaskTerminal
  BY DEF Applies, RunInv, TypeOK, Rows, CopiesNamed, Named
<1>2. a # 0
  BY BoundAssumption DEF Attempt
<1> QED
  BY <1>1, <1>2 DEF Row, TaskState, NamesTheTry

LEMMA OwnWrite ==
  ASSUME RunInv, NEW t \in Task, NEW a \in Attempt, NEW s, ti' = Guarded(t, OwnRow(t, a, s), a)
  PROVE  \A u \in Task : /\ ti'[u].try = ti[u].try
                         /\ ti'[u].ref = ti[u].ref
                         /\ ti'[u].state = IF u = t /\ Applies(t, a) THEN s ELSE ti[u].state
<1>1. \A u \in Task : ti'[u] = IF u = t /\ Applies(t, a) THEN OwnRow(t, a, s) ELSE ti[u]
  BY GuardedAt
<1>2. Applies(t, a) => ti[t].try = a /\ ti[t].ref = a
  BY AppliesNames DEF Applies
<1> QED
  BY <1>1, <1>2 DEF OwnRow

LEMMA GiveBack ==
  ASSUME RunInv, NEW t \in Task, NEW a \in Attempt,
         ti' = Guarded(t, [state |-> "scheduled", try |-> a - 1, ref |-> 0], a)
  PROVE  \A u \in Task :
           IF u = t /\ Applies(t, a)
             THEN /\ ti[u].try = a /\ ti'[u].try = a - 1
                  /\ ti'[u].ref = 0 /\ ti'[u].state = "scheduled"
             ELSE ti'[u] = ti[u]
<1> DEFINE row == [state |-> "scheduled", try |-> a - 1, ref |-> 0]
<1>1. \A u \in Task : ti'[u] = IF u = t /\ Applies(t, a) THEN row ELSE ti[u]
  BY GuardedAt
<1>2. row.try = a - 1 /\ row.ref = 0 /\ row.state = "scheduled"
  OBVIOUS
<1>3. Applies(t, a) => ti[t].try = a
  BY AppliesNames
<1> HIDE DEF row
<1> QED
  BY <1>1, <1>2, <1>3

LEMMA ScanRows ==
  ASSUME RunInv, NEW due \in SUBSET Task, TickScan(due)
  PROVE  \A u \in Task :
           /\ ti'[u].try = ti[u].try
           /\ \/ ti'[u] = ti[u]
              \/ /\ ti[u].state \in {"scheduled", "up_for_retry"}
                 /\ ti'[u].state \in {"scheduled", "upstream_failed", "skipped", "failed"}
                 /\ ti'[u].ref = 0
<1>0. ti \in Rows /\ Named(ti) /\ due \in SUBSET UpForRetry
  BY DEF RunInv, TypeOK, CopiesNamed, TickScan
<1>1. BlockedTasks(Rule, Deps, States(ti)) \subseteq {t \in Task : ti[t].state = "scheduled"}
  BY DEF BlockedTasks, Scheduled, States
<1>2. \A u \in Task : /\ Propagated[u].try = ti[u].try
                      /\ \/ Propagated[u] = ti[u]
                         \/ /\ ti[u].state = "scheduled" /\ Propagated[u].state = "upstream_failed"
                            /\ Propagated[u].ref = ti[u].ref
  BY <1>0, <1>1 DEF Propagated, Rows, Row
<1>3. \A u \in Task : ti[u].state = "scheduled" => ti[u].ref = 0
  BY <1>0 DEF Named, NamesTheTry
<1>4. \A u \in Task :
        /\ Requeued(due)[u].try = ti[u].try
        /\ \/ Requeued(due)[u] = ti[u]
           \/ /\ ti[u].state \in {"scheduled", "up_for_retry"}
              /\ Requeued(due)[u].state \in {"scheduled", "upstream_failed"}
              /\ Requeued(due)[u].ref = 0
  BY <1>0, <1>2, <1>3 DEF Requeued, UpForRetry
<1>5. CASE ti' = Requeued(due)
  BY <1>4, <1>5
<1>6. CASE \E answer : Collects(Requeued(due), answer) /\ ti' = Gated(Requeued(due), answer)
  <2>1. PICK answer : Collects(Requeued(due), answer) /\ ti' = Gated(Requeued(due), answer)
    BY <1>6
  <2>2. Requeued(due) \in Rows
    BY <1>0, RequeuedType
  <2>3. \A u \in Task : answer[u] \in {"skip", "fail"} => Requeued(due)[u].state = "scheduled"
    BY <2>1 DEF Collects, Asked
  <2>4. \A u \in Task :
          /\ ti'[u].try = Requeued(due)[u].try /\ ti'[u].ref = Requeued(due)[u].ref
          /\ \/ ti'[u] = Requeued(due)[u]
             \/ Requeued(due)[u].state = "scheduled" /\ ti'[u].state \in {"skipped", "failed"}
    BY <2>1, <2>2, <2>3 DEF Gated, Rows, Row
  <2> QED
    BY <1>3, <1>4, <2>4
<1> QED
  BY <1>5, <1>6 DEF TickScan

(***************************************************************************)
(* A step of an attempt or of its process touches that attempt alone, and  *)
(* only one that is in use.                                                *)
(***************************************************************************)
Unused(t, b) == proc[t][b] = "absent" /\ launch[t][b] = "none" /\ polls[t][b] = 0

Same(t, b) == proc'[t][b] = proc[t][b] /\ launch'[t][b] = launch[t][b] /\ polls'[t][b] = polls[t][b]

LEMMA Touches ==
  ASSUME RunInv, NEW t \in Task, NEW a \in Attempt,
         AttemptNext(t, a) \/ ProcExit(t, a) \/ ExecutorLoses(t, a)
  PROVE  /\ \A u \in Task, b \in Attempt : u # t \/ b # a => Same(u, b)
         /\ ~Unused(t, a)
<1> USE DEF Same, Unused, goVars, execVars
<1>0. /\ launch \in [Task -> [Attempt -> LaunchPC]]
      /\ polls \in [Task -> [Attempt -> Nat]] /\ proc \in [Task -> [Attempt -> ProcState]]
  BY DEF RunInv, TypeOK
<1>1. CASE CheckCancelled(t, a)
  BY <1>0, <1>1 DEF CheckCancelled
<1>2. CASE Launch(t, a)
  BY <1>0, <1>2 DEF Launch
<1>3. CASE LaunchFails(t, a)
  BY <1>0, <1>3 DEF LaunchFails
<1>4. CASE NoWorker(t, a)
  BY <1>0, <1>4 DEF NoWorker
<1>5. CASE MarkRunning(t, a)
  BY <1>0, <1>5 DEF MarkRunning
<1>6. CASE MarkRunningError(t, a)
  BY <1>0, <1>6 DEF MarkRunningError
<1>7. CASE KillLaunched(t, a)
  BY <1>0, <1>7, KillAt DEF KillLaunched
<1>8. CASE Poll(t, a)
  BY <1>0, <1>8 DEF Poll
<1>9. CASE CollectOutput(t, a)
  BY <1>0, <1>9 DEF CollectOutput
<1>10. CASE ProcExit(t, a)
  BY <1>0, <1>10 DEF ProcExit
<1>11. CASE ExecutorLoses(t, a)
  BY <1>0, <1>11 DEF ExecutorLoses
<1> QED
  BY <1>1, <1>2, <1>3, <1>4, <1>5, <1>6, <1>7, <1>8, <1>9, <1>10, <1>11 DEF AttemptNext

-----------------------------------------------------------------------------
(***************************************************************************)
(* The inductive invariant of the attempts.                                *)
(*                                                                         *)
(* An attempt number above the row's try has never been used, so the next  *)
(* dispatch gets a fresh one.  Copies of rows are written back with their  *)
(* try, so they must not be behind; an attempt is given back only while    *)
(* nothing is known of it; and recovery is alone with the rows it has      *)
(* listed, so that what a probe saw still holds when it is acted on.       *)
(***************************************************************************)
Frontier ==
  \A t \in Task :
    /\ ti[t].state = "absent" => ti[t].try = 0
    /\ \A b \in Attempt : b > ti[t].try => Unused(t, b)

CopiesAhead ==
  /\ op.kind # "none" => \A t \in Task : ti[t].try <= op.rows[t].try
  /\ tick.pc = "timeout" => \A t \in Task : ti[t].try <= tick.rows[t].try

Launching == {"check", "launch", "cas"}

OneGoroutine ==
  \A t \in Task, b \in Attempt :
    /\ launch[t][b] \in {"check", "launch"} => proc[t][b] = "absent"
    /\ launch[t][b] \in Launching => polls[t][b] = 0

RecoveryAlone ==
  /\ rec.phase # "up" => \A t \in Task, b \in Attempt : launch[t][b] \in {"none", "collect"}
  /\ rec.phase = "boot" =>
       \A t \in Task, b \in Attempt : launch[t][b] = "none" /\ polls[t][b] = 0
  /\ rec.phase = "queued" =>
       \A t \in rec.todo, b \in Attempt : launch[t][b] = "none" /\ polls[t][b] = 0

ProbeHolds ==
  rec.seen # "running" =>
    \A t \in rec.cur : proc[t][rec.rows[t].ref] \in {rec.seen, "absent"}

ListedBelow == \A t \in rec.todo : rec.rows[t].ref <= ti[t].try

AttemptInv ==
  Frontier /\ CopiesAhead /\ ListedBelow /\ OneGoroutine /\ RecoveryAlone /\ ProbeHolds

(***************************************************************************)
(* The copies of an operator call and of a timeout are the rows at the     *)
(* moment they are taken, and are not changed afterwards.                  *)
(***************************************************************************)
LEMMA CopiesTaken ==
  ASSUME RunInv, LockInv, [Next]_vars
  PROVE  /\ op'.kind # "none" => \/ op.kind # "none" /\ op'.rows = op.rows
                                 \/ op'.rows = ti /\ UNCHANGED ti
         /\ tick'.pc = "timeout" => \/ tick.pc = "timeout" /\ tick'.rows = tick.rows
                                    \/ tick'.rows = ti /\ UNCHANGED ti
<1>0. tick \in TickRecord /\ op \in OpRecord
  BY DEF RunInv, TypeOK
<1> DEFINE OpGoal == op'.kind # "none" => \/ op.kind # "none" /\ op'.rows = op.rows
                                          \/ op'.rows = ti /\ UNCHANGED ti
           TickGoal == tick'.pc = "timeout" => \/ tick.pc = "timeout" /\ tick'.rows = tick.rows
                                               \/ tick'.rows = ti /\ UNCHANGED ti
<1>1. CASE UNCHANGED <<tick, op>>
  BY <1>1
<1>2. CASE TickNext
  <2>1. OpGoal
    BY <1>2, TickLeaves
  <2>2. CASE TickList
    BY <1>0, <2>1, <2>2 DEF TickList, TickRecord
  <2>3. CASE TickLock
    BY <1>0, <2>1, <2>3 DEF TickLock, TickRecord
  <2>4. CASE TickStart
    BY <1>0, <2>1, <2>4 DEF TickStart, TickRecord, ReturnProcessRun, TickIdle
  <2>5. CASE TickFinalize \/ TickWithinDeadline \/ TickTimeoutDone
    BY <2>1, <2>5 DEF TickFinalize, TickWithinDeadline, TickTimeoutDone, ReturnProcessRun, TickIdle
  <2>6. CASE TickTimeout
    BY <1>0, <2>1, <2>6 DEF TickTimeout, TickRecord
  <2>7. CASE TickAdmit
    <3>1. CASE tick.ready = {}
      BY <2>1, <2>7, <3>1 DEF TickAdmit, TickIdle
    <3>2. CASE tick.ready # {}
      BY <1>0, <2>1, <2>7, <3>2 DEF TickAdmit, TickRecord
    <3> QED
      BY <3>1, <3>2
  <2>8. CASE TickDone
    BY <2>1, <2>8 DEF TickDone, TickIdle
  <2>9. ASSUME NEW due, TickScan(due) PROVE TickGoal
    <3>1. CASE ReturnProcessRun({})
      BY <3>1 DEF ReturnProcessRun, TickIdle
    <3>2. CASE \E ready : tick' = [tick EXCEPT !.pc = "finish", !.ready = ready]
      BY <1>0, <3>2 DEF TickRecord
    <3> QED
      BY <2>9, <3>1, <3>2 DEF TickScan
  <2>10. ASSUME NEW t, TickExpand(t) PROVE TickGoal
    BY <2>10 DEF TickExpand
  <2>11. ASSUME NEW t, TickTimeoutKill(t) PROVE TickGoal
    BY <1>0, <2>11 DEF TickTimeoutKill, TickRecord
  <2>12. ASSUME NEW t, TickTimeoutWrite(t) PROVE TickGoal
    BY <1>0, <2>12 DEF TickTimeoutWrite, TickRecord
  <2>13. ASSUME NEW t, Dispatch(t) \/ PassOver(t) PROVE TickGoal
    BY <1>0, <2>13 DEF Dispatch, PassOver, TickRecord
  <2> QED
    BY <1>2, <2>1, <2>2, <2>3, <2>4, <2>5, <2>6, <2>7, <2>8, <2>9, <2>10, <2>11, <2>12, <2>13
    DEF TickNext
<1>3. CASE CallNext
  <2>1. UNCHANGED <<ti, tick>>
    BY <1>3, CallLeaves
  <2>2. CASE CancelRun
    BY <2>1, <2>2 DEF CancelRun, BeginOp, OpNone
  <2>3. ASSUME NEW kind, NEW ids, Retry(kind, ids) PROVE OpGoal
    BY <2>1, <2>3 DEF Retry, BeginOp, OpNone
  <2>4. ASSUME NEW t, NEW target, MarkTask(t, target) PROVE OpGoal
    BY <2>1, <2>4 DEF MarkTask, BeginOp, OpNone
  <2>5. ASSUME NEW x, MarkRun(x) \/ SetHeld(x) PROVE OpGoal
    BY <2>5 DEF MarkRun, SetHeld
  <2> QED
    BY <1>3, <2>1, <2>2, <2>3, <2>4, <2>5 DEF CallNext, RetryRun, RetryTask
<1>4. CASE OpNext
  <2>1. UNCHANGED tick
    BY <1>4, OpLeaves
  <2>2. CASE CancelDone \/ Reactivate
    BY <2>1, <2>2 DEF CancelDone, Reactivate, EndOp, OpNone
  <2>3. ASSUME NEW t, CancelKill(t) PROVE OpGoal
    BY <1>0, <2>3 DEF CancelKill, OpRecord
  <2>4. ASSUME NEW t, CancelWrite(t) PROVE OpGoal
    BY <1>0, <2>4 DEF CancelWrite, OpRecord
  <2>5. ASSUME NEW t, MarkKill(t) PROVE OpGoal
    BY <1>0, <2>5 DEF MarkKill, OpRecord
  <2>6. ASSUME NEW t, MarkSet(t) PROVE OpGoal
    BY <1>0, <2>6 DEF MarkSet, OpRecord
  <2>7. ASSUME NEW t, ClearTask(t) PROVE OpGoal
    BY <1>0, <2>7 DEF ClearTask, OpRecord
  <2> QED
    BY <1>4, <2>1, <2>2, <2>3, <2>4, <2>5, <2>6, <2>7 DEF OpNext
<1>5. CASE DeadlinePasses
  BY <1>0, <1>5 DEF DeadlinePasses, TickRecord
<1>6. CASE Crash
  BY <1>6 DEF Crash, TickIdle, OpNone
<1> QED
  BY <1>1, <1>2, <1>3, <1>4, <1>5, <1>6, AttemptLeaves, RecoverLeaves DEF Next, Quiet, vars

(***************************************************************************)
(* The frontier: tries do not go down, and no attempt above them is        *)
(* touched, except where an attempt nothing is known of is given back.     *)
(***************************************************************************)
LEMMA FrontierKept ==
  ASSUME RunInv, RunInv', Frontier,
         \A u \in Task : /\ ti[u].try <= ti'[u].try
                         /\ ti'[u].state = "absent" => ti'[u] = ti[u]
                         /\ \A b \in Attempt : b > ti'[u].try => Same(u, b)
  PROVE  Frontier'
<1>1. \A u \in Task : ti[u].try \in Int /\ ti'[u].try \in Int
  BY BoundAssumption DEF RunInv, TypeOK, Rows, Row
<1>2. Attempt \subseteq Int
  BY DEF Attempt
<1> QED
  BY <1>1, <1>2 DEF Frontier, Same, Unused

LEMMA FrontierStep == ASSUME RunInv, LockInv, AttemptInv, [Next]_vars PROVE Frontier'
<1> USE DEF rowVars, goVars, execVars
<1>0. RunInv' /\ Frontier
  BY NextPreserves DEF Preserved, AttemptInv
<1>a. /\ \A u \in Task : ti[u] \in Row /\ op.rows[u] \in Row /\ tick.rows[u] \in Row
      /\ \A u \in Task : /\ ti[u].try \in Int /\ op.rows[u].try \in Int /\ tick.rows[u].try \in Int
      /\ Attempt \subseteq Int
  <2>1. \A u \in Task : ti[u] \in Row /\ op.rows[u] \in Row /\ tick.rows[u] \in Row
    BY DEF RunInv, TypeOK, Rows, OpRecord, TickRecord
  <2> QED
    BY <2>1, BoundAssumption DEF Row, Attempt
<1>b. \A u \in Task, b \in Attempt : ~Unused(u, b) => ~(b > ti[u].try)
  BY <1>0 DEF Frontier
<1>c. /\ ti \in Rows /\ launch \in [Task -> [Attempt -> LaunchPC]]
      /\ polls \in [Task -> [Attempt -> Nat]] /\ proc \in [Task -> [Attempt -> ProcState]]
  BY DEF RunInv, TypeOK
<1>1. CASE UNCHANGED <<ti, launch, polls, proc>>
  BY <1>0, <1>1 DEF Frontier, Unused
<1>2. ASSUME NEW due \in SUBSET Task, TickScan(due) PROVE Frontier'
  <2>1. \A u \in Task : ti'[u].try = ti[u].try /\ (ti'[u].state = "absent" => ti'[u] = ti[u])
    BY <1>2, ScanRows
  <2>2. UNCHANGED <<launch, polls, proc>>
    BY <1>2 DEF TickScan
  <2> QED
    BY <1>0, <1>a, <2>1, <2>2, FrontierKept DEF Same
<1>3. ASSUME NEW t \in Task, TickExpand(t) PROVE Frontier'
  <2>1. \A u \in Task : ti'[u] = IF u = t THEN [state |-> "scheduled", try |-> 0, ref |-> 0] ELSE ti[u]
    BY <1>3, <1>c DEF TickExpand, Absent, Rows
  <2>2. ti[t].try = 0
    BY <1>0, <1>3 DEF TickExpand, Frontier
  <2> QED
    BY <1>0, <1>3, <1>a, <2>1, <2>2, FrontierKept DEF TickExpand, Same
<1>4. ASSUME NEW t \in Task, NEW ref, UNCHANGED <<ti, launch, polls>>, proc' = Kill(t, ref)
      PROVE  Frontier'
  <2>1. \A u \in Task, b \in Attempt : proc[u][b] = "absent" => proc'[u][b] = "absent"
    BY <1>4, KillAt
  <2> QED
    BY <1>0, <1>4, <2>1 DEF Frontier, Unused
<1>5. ASSUME NEW t \in Task, TickTimeoutKill(t) \/ CancelKill(t) \/ MarkKill(t) PROVE Frontier'
  <2>1. CASE TickTimeoutKill(t)
    BY <1>4, <2>1 DEF TickTimeoutKill
  <2>2. CASE CancelKill(t)
    BY <1>4, <2>2 DEF CancelKill
  <2>3. CASE MarkKill(t)
    BY <1>1, <1>4, <2>3 DEF MarkKill
  <2> QED
    BY <1>5, <2>1, <2>2, <2>3
<1>6. ASSUME NEW t \in Task, TickTimeoutWrite(t) PROVE Frontier'
  <2> DEFINE row == [tick.rows[t] EXCEPT !.state = "timed_out"]
  <2>1. row.try = tick.rows[t].try /\ row.state = "timed_out"
    BY <1>a DEF Row
  <2>2. \A u \in Task : ti'[u] = IF u = t /\ Applies(t, tick.rows[t].ref) THEN row ELSE ti[u]
    BY <1>6, GuardedAt DEF TickTimeoutWrite
  <2>3. ti[t].try <= tick.rows[t].try
    BY <1>6 DEF TickTimeoutWrite, AttemptInv, CopiesAhead
  <2>4. UNCHANGED <<launch, polls, proc>>
    BY <1>6 DEF TickTimeoutWrite
  <2> HIDE DEF row
  <2> QED
    BY <1>0, <1>a, <2>1, <2>2, <2>3, <2>4, FrontierKept DEF Same
<1>7. ASSUME NEW t \in Task, Dispatch(t) PROVE Frontier'
  <2> DEFINE a == ti[t].try + 1
  <2>1. a \in Attempt
    BY <1>7, <1>a, BoundAssumption DEF Dispatch, CanDispatch, Row, Attempt
  <2>2. \A u \in Task : ti'[u] = IF u = t THEN OwnRow(t, a, "queued") ELSE ti[u]
    BY <1>7, <1>c DEF Dispatch, Rows
  <2>3. \A u \in Task, b \in Attempt : u # t \/ b # a => Same(u, b)
    BY <1>7, <1>c, <2>1 DEF Dispatch, Same
  <2> QED
    BY <1>0, <1>a, <2>2, <2>3, FrontierKept DEF OwnRow
<1>8. ASSUME NEW t \in Task, NEW row, op.kind # "none", row.try = op.rows[t].try, row.state # "absent",
             ti' = [ti EXCEPT ![t] = row], UNCHANGED <<launch, polls, proc>>
      PROVE  Frontier'
  <2>1. \A u \in Task : ti'[u] = IF u = t THEN row ELSE ti[u]
    BY <1>8, <1>c DEF Rows
  <2>2. ti[t].try <= op.rows[t].try
    BY <1>8 DEF AttemptInv, CopiesAhead
  <2> QED
    BY <1>0, <1>8, <1>a, <2>1, <2>2, FrontierKept DEF Same
<1>9. ASSUME NEW t \in Task, CancelWrite(t) PROVE Frontier'
  <2> DEFINE row == [op.rows[t] EXCEPT !.state = "cancelled"]
  <2>1. row.try = op.rows[t].try /\ row.state # "absent"
    BY <1>a DEF Row
  <2>2. /\ op.kind # "none" /\ ti' = [ti EXCEPT ![t] = row]
        /\ UNCHANGED <<launch, polls, proc>>
    BY <1>9 DEF CancelWrite
  <2> QED
    BY <1>8, <2>1, <2>2
<1>10. ASSUME NEW t \in Task, MarkSet(t) PROVE Frontier'
  <2> DEFINE row == [op.rows[t] EXCEPT !.state = op.target]
  <2>1. op.kind # "none" /\ op.target \in {"success", "failed", "skipped"}
    BY <1>10 DEF MarkSet, RunInv, OpPhase
  <2>2. row.try = op.rows[t].try /\ row.state # "absent"
    BY <1>a, <2>1 DEF Row
  <2>3. ti' = [ti EXCEPT ![t] = row] /\ UNCHANGED <<launch, polls, proc>>
    BY <1>10 DEF MarkSet
  <2> QED
    BY <1>8, <2>1, <2>2, <2>3
<1>11. ASSUME NEW t \in Task, ClearTask(t) PROVE Frontier'
  <2>1. op.kind # "none"
    BY <1>11 DEF ClearTask, RunInv, OpPhase
  <2>2. ti' = [ti EXCEPT ![t] = Cleared(op.rows[t])] /\ UNCHANGED <<launch, polls, proc>>
    BY <1>11 DEF ClearTask
  <2>3. Cleared(op.rows[t]).try = op.rows[t].try /\ Cleared(op.rows[t]).state # "absent"
    BY DEF Cleared
  <2> QED
    BY <1>8, <2>1, <2>2, <2>3
<1>12. ASSUME NEW t \in Task, NEW a \in Attempt, NEW s \in TaskState \ {"absent"},
              ti' = Guarded(t, OwnRow(t, a, s), a),
              \A u \in Task, b \in Attempt : u # t \/ b # a => Same(u, b),
              ~(a > ti[t].try) \/ Same(t, a)
       PROVE  Frontier'
  <2>1. \A u \in Task : ti'[u].try = ti[u].try /\ (ti'[u].state = "absent" => ti'[u] = ti[u])
    <3>1. \A u \in Task : ti'[u] = IF u = t /\ Applies(t, a) THEN OwnRow(t, a, s) ELSE ti[u]
      BY <1>12, GuardedAt
    <3>2. \A u \in Task : ti'[u].try = ti[u].try
      BY <1>12, OwnWrite
    <3> QED
      BY <1>12, <3>1, <3>2 DEF OwnRow
  <2> QED
    BY <1>0, <1>12, <1>a, <1>b, <2>1, FrontierKept
<1>13. ASSUME NEW t \in Task, NEW a \in Attempt, launch'[t][a] = "none" /\ polls'[t][a] = 0 /\ proc'[t][a] = "absent",
              ti' = Guarded(t, [state |-> "scheduled", try |-> a - 1, ref |-> 0], a),
              \A u \in Task, b \in Attempt : u # t \/ b # a => Same(u, b)
       PROVE  Frontier'
  <2>1. \A u \in Task : IF u = t /\ Applies(t, a)
                          THEN ti[u].try = a /\ ti'[u].try = a - 1 /\ ti'[u].state = "scheduled"
                          ELSE ti'[u] = ti[u]
    BY <1>13, GiveBack
  <2>2. ASSUME NEW u \in Task, NEW b \in Attempt, b > ti'[u].try
        PROVE  b > ti[u].try \/ (u = t /\ b = a)
    <3>1. b \in Int /\ a \in Int /\ ti[u].try \in Int
      BY <1>a
    <3>2. CASE u = t /\ ti[u].try = a /\ ti'[u].try = a - 1
      BY <2>2, <3>1, <3>2
    <3> QED
      BY <2>1, <2>2, <3>2
  <2>3. \A u \in Task : ti'[u].state = "absent" => ti'[u] = ti[u]
    BY <2>1
  <2> QED
    BY <1>0, <1>13, <2>2, <2>3 DEF Frontier, Same, Unused
<1>14. ASSUME NEW t \in Task, NEW a \in Attempt,
              AttemptNext(t, a) \/ ProcExit(t, a) \/ ExecutorLoses(t, a)
       PROVE  Frontier'
  <2>1. (\A u \in Task, b \in Attempt : u # t \/ b # a => Same(u, b)) /\ ~Unused(t, a)
    BY <1>14, Touches
  <2>2. CASE UNCHANGED ti
    BY <1>0, <1>a, <1>b, <2>1, <2>2, FrontierKept
  <2>3. ASSUME NEW s \in TaskState \ {"absent"}, ti' = Guarded(t, OwnRow(t, a, s), a) PROVE Frontier'
    BY <1>12, <1>b, <2>1, <2>3
  <2>4. CASE NoWorker(t, a)
    <3>1. launch'[t][a] = "none" /\ UNCHANGED <<polls, proc>> /\ launch[t][a] = "launch"
      BY <1>c, <2>4 DEF NoWorker
    <3>2. polls[t][a] = 0 /\ proc[t][a] = "absent"
      BY <3>1 DEF AttemptInv, OneGoroutine, Launching
    <3> QED
      BY <1>13, <2>1, <2>4, <3>1, <3>2 DEF NoWorker
  <2>5. CASE LaunchFails(t, a)
    BY <2>3, <2>5, OutcomeType DEF LaunchFails
  <2>6. CASE MarkRunning(t, a)
    BY <2>3, <2>6 DEF MarkRunning, TaskState
  <2>7. CASE Poll(t, a)
    BY <2>3, <2>7, OutcomeType DEF Poll
  <2> QED
    BY <1>14, <2>2, <2>4, <2>5, <2>6, <2>7
    DEF AttemptNext, CheckCancelled, Launch, MarkRunningError, KillLaunched, CollectOutput,
        ProcExit, ExecutorLoses
<1>15. ASSUME NEW t \in Task, RecoverFinalize(t) PROVE Frontier'
  <2> DEFINE a == rec.rows[t].ref
             s == Outcome(t, a, rec.seen)
  <2>1. a \in Attempt /\ s \in TaskState \ {"absent"}
    BY <1>15, OutcomeType DEF RecoverFinalize, RunInv, RecPhase
  <2>2. ti' = Guarded(t, OwnRow(t, a, s), a) /\ UNCHANGED <<launch, polls, proc>>
    BY <1>15 DEF RecoverFinalize
  <2> QED
    BY <1>12, <2>1, <2>2 DEF Same
<1>16. ASSUME NEW t \in Task, RecoverReattach(t) PROVE Frontier'
  <2> DEFINE a == rec.rows[t].ref
  <2>1. a \in Attempt
    BY <1>16 DEF RecoverReattach, RunInv, RecPhase
  <2>2. \A u \in Task, b \in Attempt : u # t \/ b # a => Same(u, b)
    <3>1. polls' = polls \/ polls' = [polls EXCEPT ![t] = [@ EXCEPT ![a] = polls[t][a] + 1]]
      BY <1>16 DEF RecoverReattach
    <3>2. \A u \in Task, b \in Attempt : u # t \/ b # a => polls'[u][b] = polls[u][b]
      BY <1>c, <2>1, <3>1
    <3>3. \A u \in Task, b \in Attempt : u # t \/ b # a => proc'[u][b] = proc[u][b]
      BY <1>16, KillAt DEF RecoverReattach
    <3> QED
      BY <1>16, <3>2, <3>3 DEF RecoverReattach, Same
  <2>3. ~(a > ti[t].try)
    BY <1>16, <1>a, <2>1 DEF RecoverReattach, LockInv, AttemptInv, ListedBelow
  <2>4. CASE ti' = Guarded(t, OwnRow(t, a, "running"), a)
    BY <1>12, <2>1, <2>2, <2>3, <2>4 DEF TaskState
  <2>5. CASE ti' = ti
    BY <1>0, <1>a, <1>b, <2>2, <2>3, <2>5, FrontierKept
  <2> QED
    BY <1>16, <2>4, <2>5 DEF RecoverReattach
<1>17. ASSUME NEW t \in Task, RecoverReset(t) PROVE Frontier'
  <2> DEFINE a == rec.rows[t].ref
  <2>1. a \in Attempt /\ t \in rec.todo /\ rec.phase = "queued"
    BY <1>17 DEF RecoverReset, RunInv, RecPhase, LockInv
  <2>2. launch[t][a] = "none" /\ polls[t][a] = 0 /\ proc[t][a] = "absent"
    BY <1>17, <2>1 DEF RecoverReset, AttemptInv, RecoveryAlone, ProbeHolds
  <2>3. UNCHANGED <<launch, polls, proc>>
        /\ ti' = Guarded(t, [state |-> "scheduled", try |-> a - 1, ref |-> 0], a)
    BY <1>17 DEF RecoverReset
  <2> QED
    BY <1>13, <2>1, <2>2, <2>3 DEF Same
<1>18. CASE Crash
  <2>1. \A u \in Task, b \in Attempt : launch'[u][b] = "none" /\ polls'[u][b] = 0
    BY <1>18 DEF Crash, Attempts
  <2> QED
    BY <1>0, <1>18, <2>1 DEF Crash, Frontier, Unused
<1> QED
  BY <1>1, <1>2, <1>3, <1>5, <1>6, <1>7, <1>9, <1>10, <1>11, <1>14, <1>15, <1>16, <1>17, <1>18,
     Writes

-----------------------------------------------------------------------------
(***************************************************************************)
(* Every way a step may change the row of task u.                          *)
(***************************************************************************)
ByScan(u) ==
  /\ tick.pc = "scan"
  /\ ti[u].state \in {"scheduled", "up_for_retry"}
  /\ ti'[u].state \in {"scheduled", "upstream_failed", "skipped", "failed"}
  /\ ti'[u].try = ti[u].try /\ ti'[u].ref = 0

ByTimeout(u) ==
  /\ tick.pc = "timeout" /\ u \in tick.cur
  /\ ti[u].state \notin TaskTerminal /\ ti[u].ref = tick.rows[u].ref
  /\ ti'[u].state = "timed_out"
  /\ ti'[u].try = tick.rows[u].try /\ ti'[u].ref = tick.rows[u].ref

ByCall(u) ==
  /\ op.kind # "none"
  /\ ti'[u].try = op.rows[u].try
  /\ \/ /\ CancelWrite(u) \/ MarkSet(u)
        /\ ti'[u].state \in TaskTerminal /\ ti'[u].ref = op.rows[u].ref
     \/ ClearTask(u) /\ ti'[u].state = "scheduled" /\ ti'[u].ref = 0

ByOwner(u, a) ==
  /\ Applies(u, a)
  /\ ti'[u].try = a /\ ti'[u].ref = a
  /\ \/ LaunchFails(u, a) /\ ti'[u].state = FailureState(u, a)
     \/ MarkRunning(u, a) /\ ti'[u].state = "running"
     \/ Poll(u, a) /\ ti'[u].state = Outcome(u, a, Observed(u, a))
     \/ /\ RecoverFinalize(u) /\ rec.rows[u].ref = a
        /\ ti'[u].state = Outcome(u, a, rec.seen)
     \/ /\ RecoverReattach(u) /\ rec.rows[u].ref = a /\ rec.phase = "queued"
        /\ ti'[u].state = "running"

ByGiveBack(u, a) ==
  /\ Applies(u, a)
  /\ ti'[u].state = "scheduled" /\ ti'[u].try = a - 1 /\ ti'[u].ref = 0
  /\ NoWorker(u, a) \/ (RecoverReset(u) /\ rec.rows[u].ref = a)

RowStep(u) ==
  \/ ti'[u] = ti[u]
  \/ tick.pc = "expand" /\ ti[u].state = "absent"
       /\ ti'[u].state = "scheduled" /\ ti'[u].try = 0 /\ ti'[u].ref = 0
  \/ ByScan(u)
  \/ /\ Dispatch(u)
     /\ ti'[u].state = "queued" /\ ti'[u].try = ti[u].try + 1 /\ ti'[u].ref = ti[u].try + 1
  \/ ByTimeout(u)
  \/ ByCall(u)
  \/ \E a \in Attempt : ByOwner(u, a) \/ ByGiveBack(u, a)

LEMMA RowSteps == ASSUME RunInv, [Next]_vars, NEW u \in Task PROVE RowStep(u)
<1> USE DEF rowVars, goVars, execVars
<1>0. /\ ti \in Rows /\ op.rows[u] \in Row /\ tick.rows[u] \in Row
  BY DEF RunInv, TypeOK, Rows, OpRecord, TickRecord
<1>1. CASE ti'[u] = ti[u]
  BY <1>1 DEF RowStep
<1>2. ASSUME NEW due \in SUBSET Task, TickScan(due) PROVE RowStep(u)
  BY <1>2, ScanRows DEF TickScan, RowStep, ByScan
<1>3. ASSUME NEW t \in Task, TickExpand(t) PROVE RowStep(u)
  <2>1. ti'[u] = IF u = t THEN [state |-> "scheduled", try |-> 0, ref |-> 0] ELSE ti[u]
    BY <1>0, <1>3 DEF TickExpand, Absent, Rows
  <2> QED
    BY <1>3, <2>1 DEF TickExpand, RowStep
<1>4. ASSUME NEW t \in Task, TickTimeoutWrite(t) PROVE RowStep(u)
  <2> DEFINE row == [tick.rows[t] EXCEPT !.state = "timed_out"]
  <2>1. ti'[u] = IF u = t /\ Applies(t, tick.rows[t].ref) THEN row ELSE ti[u]
    BY <1>4, GuardedAt DEF TickTimeoutWrite
  <2>2. tick.rows[t] \in Row
    BY DEF RunInv, TypeOK, Rows, TickRecord
  <2>3. row.try = tick.rows[t].try /\ row.ref = tick.rows[t].ref /\ row.state = "timed_out"
    BY <2>2 DEF Row
  <2> HIDE DEF row
  <2> QED
    BY <1>4, <2>1, <2>3 DEF TickTimeoutWrite, Applies, RowStep, ByTimeout
<1>5. ASSUME NEW t \in Task, Dispatch(t) PROVE RowStep(u)
  <2>1. ti'[u] = IF u = t THEN OwnRow(t, ti[t].try + 1, "queued") ELSE ti[u]
    BY <1>0, <1>5 DEF Dispatch, Rows
  <2> QED
    BY <1>5, <2>1 DEF OwnRow, RowStep
<1>6. ASSUME NEW t \in Task, CancelWrite(t) PROVE RowStep(u)
  <2>1. ti'[u] = IF u = t THEN [op.rows[t] EXCEPT !.state = "cancelled"] ELSE ti[u]
    BY <1>0, <1>6 DEF CancelWrite, Rows
  <2>2. op.kind # "none"
    BY <1>6 DEF CancelWrite
  <2> QED
    BY <1>0, <1>6, <2>1, <2>2 DEF Row, RowStep, ByCall, TaskTerminal, TaskFailure
<1>7. ASSUME NEW t \in Task, MarkSet(t) PROVE RowStep(u)
  <2>1. ti'[u] = IF u = t THEN [op.rows[t] EXCEPT !.state = op.target] ELSE ti[u]
    BY <1>0, <1>7 DEF MarkSet, Rows
  <2>2. op.kind # "none" /\ op.target \in {"success", "failed", "skipped"}
    BY <1>7 DEF MarkSet, RunInv, OpPhase
  <2> QED
    BY <1>0, <1>7, <2>1, <2>2 DEF Row, RowStep, ByCall, TaskTerminal, TaskFailure
<1>8. ASSUME NEW t \in Task, ClearTask(t) PROVE RowStep(u)
  <2>1. ti'[u] = IF u = t THEN Cleared(op.rows[t]) ELSE ti[u]
    BY <1>0, <1>8 DEF ClearTask, Rows
  <2>2. op.kind # "none"
    BY <1>8 DEF ClearTask, RunInv, OpPhase
  <2> QED
    BY <1>8, <2>1, <2>2 DEF Cleared, RowStep, ByCall
<1>9. ASSUME NEW t \in Task, NEW a \in Attempt, NEW s, ti' = Guarded(t, OwnRow(t, a, s), a)
      PROVE  \/ ti'[u] = ti[u]
             \/ u = t /\ Applies(t, a) /\ ti'[u].try = a /\ ti'[u].ref = a /\ ti'[u].state = s
  <2>1. ti'[u] = IF u = t /\ Applies(t, a) THEN OwnRow(t, a, s) ELSE ti[u]
    BY <1>9, GuardedAt
  <2> QED
    BY <2>1 DEF OwnRow
<1>10. ASSUME NEW t \in Task, NEW a \in Attempt,
              ti' = Guarded(t, [state |-> "scheduled", try |-> a - 1, ref |-> 0], a)
       PROVE  \/ ti'[u] = ti[u]
              \/ u = t /\ Applies(t, a) /\ ti'[u].try = a - 1 /\ ti'[u].ref = 0
                       /\ ti'[u].state = "scheduled"
  BY <1>10, GiveBack
<1>11. ASSUME NEW t \in Task, NEW a \in Attempt, AttemptNext(t, a) PROVE RowStep(u)
  <2>1. CASE LaunchFails(t, a)
    BY <1>9, <2>1 DEF LaunchFails, RowStep, ByOwner
  <2>2. CASE NoWorker(t, a)
    <3>1. ti' = Guarded(t, [state |-> "scheduled", try |-> a - 1, ref |-> 0], a)
      BY <2>2 DEF NoWorker
    <3> QED
      BY <1>10, <2>2, <3>1 DEF RowStep, ByGiveBack
  <2>3. CASE MarkRunning(t, a)
    <3>1. ti' = Guarded(t, OwnRow(t, a, "running"), a)
      BY <2>3 DEF MarkRunning
    <3> QED
      BY <1>9, <2>3, <3>1 DEF RowStep, ByOwner
  <2>4. CASE Poll(t, a)
    <3>1. ti' = Guarded(t, OwnRow(t, a, Outcome(t, a, Observed(t, a))), a)
      BY <2>4 DEF Poll
    <3> QED
      BY <1>9, <2>4, <3>1 DEF RowStep, ByOwner
  <2> QED
    BY <1>1, <1>11, <2>1, <2>2, <2>3, <2>4
    DEF AttemptNext, CheckCancelled, Launch, MarkRunningError, KillLaunched, CollectOutput
<1>12. ASSUME NEW t \in Task, RecoverFinalize(t) PROVE RowStep(u)
  <2> DEFINE a == rec.rows[t].ref
  <2>1. a \in Attempt /\ ti' = Guarded(t, OwnRow(t, a, Outcome(t, a, rec.seen)), a)
    BY <1>12 DEF RecoverFinalize, RunInv, RecPhase
  <2> QED
    BY <1>9, <1>12, <2>1 DEF RowStep, ByOwner
<1>13. ASSUME NEW t \in Task, RecoverReattach(t) PROVE RowStep(u)
  <2> DEFINE a == rec.rows[t].ref
  <2>1. a \in Attempt
    BY <1>13 DEF RecoverReattach, RunInv, RecPhase
  <2>2. ti' = ti \/ (rec.phase = "queued" /\ ti' = Guarded(t, OwnRow(t, a, "running"), a))
    BY <1>13 DEF RecoverReattach
  <2> QED
    BY <1>9, <1>13, <2>1, <2>2 DEF RowStep, ByOwner
<1>14. ASSUME NEW t \in Task, RecoverReset(t) PROVE RowStep(u)
  <2> DEFINE a == rec.rows[t].ref
  <2>1. a \in Attempt
        /\ ti' = Guarded(t, [state |-> "scheduled", try |-> a - 1, ref |-> 0], a)
    BY <1>14 DEF RecoverReset, RunInv, RecPhase
  <2> QED
    BY <1>10, <1>14, <2>1 DEF RowStep, ByGiveBack
<1>15. CASE UNCHANGED ti
  BY <1>15 DEF RowStep
<1>16. ASSUME NEW t \in Task, NEW a \in Attempt, ProcExit(t, a) \/ ExecutorLoses(t, a)
       PROVE RowStep(u)
  BY <1>15, <1>16 DEF ProcExit, ExecutorLoses
<1>17. ASSUME NEW t \in Task, TickTimeoutKill(t) \/ CancelKill(t) \/ MarkKill(t) PROVE RowStep(u)
  BY <1>15, <1>17 DEF TickTimeoutKill, CancelKill, MarkKill
<1> QED
  BY <1>2, <1>3, <1>4, <1>5, <1>6, <1>7, <1>8, <1>11, <1>12, <1>13, <1>14, <1>15, <1>16, <1>17,
     Writes DEF Crash

-----------------------------------------------------------------------------
LEMMA RowFacts ==
  ASSUME RunInv
  PROVE  /\ \A u \in Task : /\ ti[u] \in Row /\ ti[u].try \in 0..MaxAttempts
                            /\ op.rows[u].try \in Int /\ tick.rows[u].try \in Int
                            /\ rec.rows[u].ref \in Int
         /\ Attempt \subseteq 1..MaxAttempts /\ 0 \notin Attempt
         /\ MaxAttempts \in Nat
<1>1. \A u \in Task : ti[u] \in Row /\ op.rows[u] \in Row /\ tick.rows[u] \in Row /\ rec.rows[u] \in Row
  BY DEF RunInv, TypeOK, Rows, OpRecord, TickRecord, RecRecord
<1> QED
  BY <1>1, BoundAssumption DEF Row, Attempt

LEMMA CopiesStep == ASSUME RunInv, LockInv, AttemptInv, [Next]_vars PROVE CopiesAhead'
<1>0. CopiesAhead
  BY DEF AttemptInv
<1>1. ASSUME NEW u \in Task
      PROVE  /\ op.kind # "none" => ti'[u].try <= op.rows[u].try
             /\ tick.pc = "timeout" => ti'[u].try <= tick.rows[u].try
  <2> DEFINE Goal == /\ op.kind # "none" => ti'[u].try <= op.rows[u].try
                     /\ tick.pc = "timeout" => ti'[u].try <= tick.rows[u].try
  <2>0. /\ op.kind # "none" => ti[u].try <= op.rows[u].try
        /\ tick.pc = "timeout" => ti[u].try <= tick.rows[u].try
        /\ ~(op.kind # "none" /\ tick.pc \in Locked)
        /\ ti[u].try \in Int /\ op.rows[u].try \in Int /\ tick.rows[u].try \in Int
    BY <1>0, RowFacts, BoundAssumption DEF CopiesAhead, LockInv
  <2>1. CASE ti'[u].try = ti[u].try
    BY <2>0, <2>1
  <2>2. CASE Dispatch(u)
    BY <2>0, <2>2 DEF Dispatch, Locked
  <2>3. CASE tick.pc = "expand"
    BY <2>0, <2>3 DEF Locked
  <2>4. CASE ByTimeout(u)
    BY <2>0, <2>4 DEF ByTimeout, Locked
  <2>5. CASE ByCall(u)
    BY <2>0, <2>5 DEF ByCall, Locked
  <2>6. ASSUME NEW a \in Attempt, ByOwner(u, a) \/ ByGiveBack(u, a) PROVE Goal
    <3>1. ti[u].try = a /\ a \in Int
      BY <2>6, AppliesNames, RowFacts DEF ByOwner, ByGiveBack
    <3>2. ti'[u].try <= ti[u].try
      BY <2>6, <3>1 DEF ByOwner, ByGiveBack
    <3>3. ti'[u].try \in Int
      BY <2>6, <3>1 DEF ByOwner, ByGiveBack
    <3> QED
      BY <2>0, <3>2, <3>3
  <2> QED
    BY <2>1, <2>2, <2>3, <2>4, <2>5, <2>6, RowSteps DEF RowStep, ByScan
<1>2. \A u \in Task : ti[u].try <= ti[u].try
  BY RowFacts, BoundAssumption
<1>3. op'.kind # "none" => \A u \in Task : ti'[u].try <= op'.rows[u].try
  <2>1. CASE op.kind # "none" /\ op'.rows = op.rows
    <3>1. \A u \in Task : ti'[u].try <= op.rows[u].try
      BY <1>1, <2>1
    <3> QED
      BY <2>1, <3>1, Zenon
  <2>2. CASE op'.rows = ti /\ UNCHANGED ti
    BY <1>2, <2>2
  <2> QED
    BY <2>1, <2>2, CopiesTaken
<1>4. tick'.pc = "timeout" => \A u \in Task : ti'[u].try <= tick'.rows[u].try
  <2>1. CASE tick.pc = "timeout" /\ tick'.rows = tick.rows
    <3>1. \A u \in Task : ti'[u].try <= tick.rows[u].try
      BY <1>1, <2>1
    <3> QED
      BY <2>1, <3>1, Zenon
  <2>2. CASE tick'.rows = ti /\ UNCHANGED ti
    BY <1>2, <2>2
  <2> QED
    BY <2>1, <2>2, CopiesTaken
<1> QED
  BY <1>3, <1>4 DEF CopiesAhead

(***************************************************************************)
(* Recovery takes new copies only when it lists rows.                      *)
(***************************************************************************)
LEMMA ListTaken ==
  ASSUME RunInv, LockInv, [Next]_vars
  PROVE  \/ rec'.todo = {}
         \/ /\ rec'.rows = ti /\ UNCHANGED <<ti, launch, polls, proc>>
            /\ rec.todo = {} /\ rec.cur = {} /\ rec'.cur = {}
            /\ \/ rec.phase = "boot" /\ rec'.phase = "queued" /\ rec'.todo = RecoverList("queued")
               \/ rec.phase = "queued" /\ rec'.phase = "running" /\ rec'.todo = RecoverList("running")
         \/ /\ rec'.rows = rec.rows /\ rec'.phase = rec.phase
            /\ rec'.todo \subseteq rec.todo
            /\ UNCHANGED rec \/ RecoverNextStep
<1>0. rec \in RecRecord
  BY DEF RunInv, TypeOK
<1> USE DEF rowVars, goVars, execVars, LockInv
<1>1. CASE RecoverQueued
  BY <1>1 DEF RecoverQueued, RecUp
<1>2. CASE RecoverRunning
  BY <1>2 DEF RecoverRunning, RecUp
<1>3. CASE RecoverDone
  BY <1>3 DEF RecoverDone, RecUp
<1>4. ASSUME NEW t, RecoverProbe(t) \/ RecoverProbeError(t)
      PROVE  rec'.rows = rec.rows /\ rec'.phase = rec.phase /\ rec'.todo \subseteq rec.todo
  BY <1>0, <1>4 DEF RecoverProbe, RecoverProbeError, RecRecord
<1>5. ASSUME NEW t, RecoverFinalize(t) \/ RecoverReattach(t) \/ RecoverReset(t)
      PROVE  rec'.rows = rec.rows /\ rec'.phase = rec.phase /\ rec'.todo \subseteq rec.todo
  BY <1>0, <1>5 DEF RecoverFinalize, RecoverReattach, RecoverReset, RecoverNext, RecRecord
<1>6. CASE RecoverNextStep
  BY <1>1, <1>2, <1>3, <1>4, <1>5, <1>6 DEF RecoverNextStep
<1>7. CASE Crash
  BY <1>7 DEF Crash, RecUp
<1>8. CASE UNCHANGED rec
  BY <1>8
<1> QED
  BY <1>6, <1>7, <1>8, TickLeaves, CallLeaves, OpLeaves, AttemptLeaves
  DEF Next, Quiet, vars, DeadlinePasses

LEMMA ListedStep == ASSUME RunInv, LockInv, AttemptInv, [Next]_vars PROVE ListedBelow'
<1>0. /\ ListedBelow /\ RunInv'
      /\ rec.todo \subseteq Task /\ rec'.todo \subseteq Task
  BY NextPreserves DEF AttemptInv, Preserved, RunInv, TypeOK, RecRecord
<1>1. CASE rec'.todo = {}
  BY <1>1 DEF ListedBelow
<1>2. CASE rec'.rows = ti /\ UNCHANGED ti
  <2>1. ASSUME NEW u \in Task PROVE ti[u].ref <= ti[u].try
    BY RowFacts, BoundAssumption DEF RunInv, CopiesNamed, Named, NamesTheTry
  <2> QED
    BY <1>0, <1>2, <2>1 DEF ListedBelow
<1>3. CASE rec'.rows = rec.rows /\ rec'.phase = rec.phase /\ rec'.todo \subseteq rec.todo
  <2> SUFFICES ASSUME NEW u \in rec'.todo PROVE rec.rows[u].ref <= ti'[u].try
    BY <1>3 DEF ListedBelow
  <2>0. /\ u \in Task /\ rec.rows[u].ref <= ti[u].try /\ rec.phase # "up"
        /\ ti[u].try \in Int /\ rec.rows[u].ref \in Int /\ op.rows[u].try \in Int
        /\ op.kind # "none" => ti[u].try <= op.rows[u].try
    BY <1>0, <1>3, RowFacts, BoundAssumption DEF ListedBelow, LockInv, AttemptInv, CopiesAhead
  <2>1. CASE ti'[u].try = ti[u].try
    BY <2>0, <2>1
  <2>2. CASE tick.pc \in Locked
    BY <2>0, <2>2 DEF LockInv, Locked
  <2>3. CASE ByCall(u)
    BY <2>0, <2>3 DEF ByCall
  <2>4. ASSUME NEW a \in Attempt, ByOwner(u, a) PROVE ti'[u].try = ti[u].try
    BY <2>0, <2>4, AppliesNames DEF ByOwner
  <2>5. ASSUME NEW a \in Attempt, ByGiveBack(u, a) PROVE FALSE
    <3>1. CASE NoWorker(u, a)
      BY <2>0, <3>1 DEF NoWorker, AttemptInv, RecoveryAlone
    <3>2. CASE RecoverReset(u)
      BY <1>0, <3>2 DEF RecoverReset, RecoverNext, RunInv, TypeOK, RecRecord
    <3> QED
      BY <2>5, <3>1, <3>2 DEF ByGiveBack
  <2> QED
    BY <2>0, <2>1, <2>2, <2>3, <2>4, <2>5, RowSteps DEF RowStep, ByScan, ByTimeout, Dispatch, Locked
<1> QED
  BY <1>1, <1>2, <1>3, ListTaken

-----------------------------------------------------------------------------
(***************************************************************************)
(* Every way a step may change the goroutines and the process of attempt b *)
(* of task u.                                                              *)
(***************************************************************************)
SameProc(u, b) == proc'[u][b] = proc[u][b]
SameGo(u, b) == launch'[u][b] = launch[u][b] /\ polls'[u][b] = polls[u][b]
Killed(u, b) == proc'[u][b] = IF proc[u][b] = "running" THEN "exit1" ELSE proc[u][b]

ByLaunch(u, b) ==
  \/ /\ CheckCancelled(u, b) /\ launch[u][b] = "check"
     /\ launch'[u][b] = IF ti[u].state = "cancelled" THEN "none" ELSE "launch"
     /\ polls'[u][b] = polls[u][b] /\ SameProc(u, b)
  \/ /\ Launch(u, b) /\ launch[u][b] = "launch" /\ launch'[u][b] = "cas"
     /\ polls'[u][b] = polls[u][b]
     /\ proc'[u][b] = IF proc[u][b] = "absent" THEN "running" ELSE proc[u][b]
  \/ /\ LaunchFails(u, b) \/ NoWorker(u, b)
     /\ launch[u][b] = "launch" /\ launch'[u][b] = "none"
     /\ polls'[u][b] = polls[u][b] /\ SameProc(u, b)
  \/ /\ MarkRunning(u, b) /\ launch[u][b] = "cas" /\ SameProc(u, b)
     /\ IF Applies(u, b) THEN launch'[u][b] = "none" /\ polls'[u][b] = polls[u][b] + 1
                         ELSE launch'[u][b] = "kill" /\ polls'[u][b] = polls[u][b]
  \/ /\ MarkRunningError(u, b) /\ launch[u][b] = "cas" /\ launch'[u][b] = "none"
     /\ polls'[u][b] = polls[u][b] /\ SameProc(u, b)
  \/ /\ KillLaunched(u, b) /\ launch[u][b] = "kill" /\ launch'[u][b] = "none"
     /\ polls'[u][b] = polls[u][b] /\ Killed(u, b)

ByPoll(u, b) ==
  \/ /\ Poll(u, b) /\ polls[u][b] > 0 /\ polls'[u][b] = polls[u][b] - 1
     /\ launch'[u][b] \in {launch[u][b], "collect"} /\ SameProc(u, b)
  \/ /\ CollectOutput(u, b) /\ launch[u][b] = "collect" /\ launch'[u][b] = "none"
     /\ polls'[u][b] = polls[u][b] /\ SameProc(u, b)

ByProcess(u, b) ==
  /\ SameGo(u, b)
  /\ \/ ProcExit(u, b) /\ proc[u][b] = "running" /\ proc'[u][b] \in {"exit0", "exit1", "exit99"}
     \/ ExecutorLoses(u, b) /\ proc[u][b] # "absent" /\ proc'[u][b] = "absent"
     \/ (TickTimeoutKill(u) \/ CancelKill(u) \/ MarkKill(u)) /\ Killed(u, b)

ByReattach(u, b) ==
  /\ RecoverReattach(u) /\ b = rec.rows[u].ref
  /\ launch'[u][b] = launch[u][b]
  /\ \/ polls'[u][b] = polls[u][b] + 1 /\ SameProc(u, b)
     \/ /\ rec.phase = "queued" /\ ~Applies(u, b)
        /\ polls'[u][b] = polls[u][b] /\ Killed(u, b)

GoStep(u, b) ==
  \/ Same(u, b)
  \/ /\ Dispatch(u) /\ b = ti[u].try + 1 /\ launch'[u][b] = "check"
     /\ polls'[u][b] = polls[u][b] /\ SameProc(u, b)
  \/ ByLaunch(u, b) \/ ByPoll(u, b) \/ ByProcess(u, b) \/ ByReattach(u, b)
  \/ Crash /\ launch'[u][b] = "none" /\ polls'[u][b] = 0 /\ SameProc(u, b)

LEMMA GoSteps ==
  ASSUME RunInv, LockInv, [Next]_vars, NEW u \in Task, NEW b \in Attempt PROVE GoStep(u, b)
<1> USE DEF rowVars, goVars, execVars
<1>0. /\ launch \in [Task -> [Attempt -> LaunchPC]]
      /\ polls \in [Task -> [Attempt -> Nat]] /\ proc \in [Task -> [Attempt -> ProcState]]
  BY DEF RunInv, TypeOK
<1>1. CASE Same(u, b)
  BY <1>1 DEF GoStep
<1>2. CASE UNCHANGED <<launch, polls, proc>>
  BY <1>1, <1>2 DEF Same
<1>3. ASSUME NEW t \in Task, NEW ref, proc' = Kill(t, ref), UNCHANGED <<launch, polls>>
      PROVE  Same(u, b) \/ (u = t /\ SameGo(u, b) /\ Killed(u, b))
  BY <1>3, KillAt DEF Same, SameGo, Killed
<1>4. ASSUME NEW t \in Task, TickTimeoutKill(t) PROVE GoStep(u, b)
  BY <1>3, <1>4 DEF TickTimeoutKill, GoStep, ByProcess
<1>5. ASSUME NEW t \in Task, CancelKill(t) PROVE GoStep(u, b)
  BY <1>3, <1>5 DEF CancelKill, GoStep, ByProcess
<1>6. ASSUME NEW t \in Task, MarkKill(t) PROVE GoStep(u, b)
  BY <1>2, <1>3, <1>6 DEF MarkKill, GoStep, ByProcess
<1>7. ASSUME NEW t \in Task, Dispatch(t) PROVE GoStep(u, b)
  <2>1. launch' = [launch EXCEPT ![t][ti[t].try + 1] = "check"] /\ UNCHANGED <<polls, proc>>
    BY <1>7 DEF Dispatch
  <2>2. launch'[u][b] = IF u = t /\ b = ti[t].try + 1 THEN "check" ELSE launch[u][b]
    BY <1>0, <2>1
  <2> QED
    BY <1>7, <2>1, <2>2 DEF GoStep, Same, SameProc
<1>8. ASSUME NEW t \in Task, NEW a \in Attempt,
             AttemptNext(t, a) \/ ProcExit(t, a) \/ ExecutorLoses(t, a)
      PROVE  GoStep(u, b)
  <2>1. CASE u # t \/ b # a
    BY <1>1, <1>8, <2>1, Touches
  <2>2. CASE u = t /\ b = a
    <3> USE DEF SameProc, SameGo
    <3>1. CASE CheckCancelled(u, b)
      BY <1>0, <3>1 DEF CheckCancelled, GoStep, ByLaunch
    <3>2. CASE Launch(u, b)
      BY <1>0, <3>2 DEF Launch, GoStep, ByLaunch
    <3>3. CASE LaunchFails(u, b)
      BY <1>0, <3>3 DEF LaunchFails, GoStep, ByLaunch
    <3>4. CASE NoWorker(u, b)
      BY <1>0, <3>4 DEF NoWorker, GoStep, ByLaunch
    <3>5. CASE MarkRunning(u, b)
      BY <1>0, <3>5 DEF MarkRunning, GoStep, ByLaunch
    <3>6. CASE MarkRunningError(u, b)
      BY <1>0, <3>6 DEF MarkRunningError, GoStep, ByLaunch
    <3>7. CASE KillLaunched(u, b)
      <4>1. Killed(u, b)
        BY <3>7, KillAt DEF KillLaunched, Killed
      <4> QED
        BY <1>0, <3>7, <4>1 DEF KillLaunched, GoStep, ByLaunch
    <3>8. CASE Poll(u, b)
      BY <1>0, <3>8 DEF Poll, GoStep, ByPoll
    <3>9. CASE CollectOutput(u, b)
      BY <1>0, <3>9 DEF CollectOutput, GoStep, ByPoll
    <3>10. CASE ProcExit(u, b)
      BY <1>0, <3>10 DEF ProcExit, GoStep, ByProcess
    <3>11. CASE ExecutorLoses(u, b)
      BY <1>0, <3>11 DEF ExecutorLoses, GoStep, ByProcess
    <3> QED
      BY <1>8, <2>2, <3>1, <3>2, <3>3, <3>4, <3>5, <3>6, <3>7, <3>8, <3>9, <3>10, <3>11
      DEF AttemptNext
  <2> QED
    BY <2>1, <2>2
<1>9. ASSUME NEW t \in Task, RecoverReattach(t) PROVE GoStep(u, b)
  <2> DEFINE a == rec.rows[t].ref
             mine == rec.phase = "running" \/ Applies(t, a)
  <2>1. /\ UNCHANGED launch
        /\ polls' = IF mine THEN [polls EXCEPT ![t][a] = @ + 1] ELSE polls
        /\ proc' = IF mine THEN proc ELSE Kill(t, a)
    BY <1>9 DEF RecoverReattach
  <2>2. a \in Attempt /\ t \in rec.todo
    BY <1>9 DEF RecoverReattach, RunInv, RecPhase, LockInv
  <2>3. CASE mine
    <3>1. polls'[u][b] = IF u = t /\ b = a THEN polls[u][b] + 1 ELSE polls[u][b]
      BY <1>0, <2>1, <2>2, <2>3
    <3> QED
      BY <1>9, <2>1, <2>3, <3>1 DEF GoStep, ByReattach, Same, SameProc
  <2>4. CASE ~mine
    <3>1. proc'[u][b] = IF u = t /\ b = a /\ proc[u][b] = "running" THEN "exit1" ELSE proc[u][b]
      BY <2>1, <2>4, KillAt
    <3>2. rec.phase = "queued"
      BY <2>2, <2>4 DEF LockInv, RunInv, TypeOK, RecRecord
    <3> QED
      BY <1>9, <2>1, <2>4, <3>1, <3>2 DEF GoStep, ByReattach, Same, Killed
  <2> QED
    BY <2>3, <2>4
<1>10. CASE Crash
  BY <1>10 DEF Crash, Attempts, GoStep, SameProc
<1>11. ASSUME NEW t, \/ TickExpand(t) \/ TickTimeoutWrite(t) \/ CancelWrite(t)
                     \/ MarkSet(t) \/ ClearTask(t) \/ RecoverFinalize(t) \/ RecoverReset(t)
       PROVE  GoStep(u, b)
  BY <1>2, <1>11 DEF TickExpand, TickTimeoutWrite, CancelWrite, MarkSet, ClearTask,
       RecoverFinalize, RecoverReset
<1>12. ASSUME NEW due, TickScan(due) PROVE GoStep(u, b)
  BY <1>2, <1>12 DEF TickScan
<1> QED
  BY <1>2, <1>4, <1>5, <1>6, <1>7, <1>8, <1>9, <1>10, <1>11, <1>12, Writes

LEMMA OneGoroutineStep == ASSUME RunInv, LockInv, AttemptInv, [Next]_vars PROVE OneGoroutine'
<1> SUFFICES ASSUME NEW u \in Task, NEW b \in Attempt
             PROVE  /\ launch'[u][b] \in {"check", "launch"} => proc'[u][b] = "absent"
                    /\ launch'[u][b] \in {"check", "launch", "cas"} => polls'[u][b] = 0
  BY DEF OneGoroutine, Launching
<1> DEFINE Goal == /\ launch'[u][b] \in {"check", "launch"} => proc'[u][b] = "absent"
                   /\ launch'[u][b] \in {"check", "launch", "cas"} => polls'[u][b] = 0
<1>0. /\ launch[u][b] \in {"check", "launch"} => proc[u][b] = "absent"
      /\ launch[u][b] \in {"check", "launch", "cas"} => polls[u][b] = 0
      /\ polls[u][b] \in Nat
  BY DEF AttemptInv, OneGoroutine, Launching, RunInv, TypeOK
<1>1. CASE Same(u, b)
  BY <1>0, <1>1 DEF Same
<1>2. CASE Dispatch(u) /\ b = ti[u].try + 1 /\ polls'[u][b] = polls[u][b] /\ SameProc(u, b)
  <2>1. b > ti[u].try
    BY <1>2, RowFacts
  <2> QED
    BY <1>2, <2>1 DEF AttemptInv, Frontier, Unused, SameProc
<1>3. CASE ByLaunch(u, b)
  BY <1>0, <1>3 DEF ByLaunch, SameProc, Killed
<1>4. CASE ByPoll(u, b)
  BY <1>0, <1>4 DEF ByPoll, SameProc
<1>5. CASE ByProcess(u, b)
  BY <1>0, <1>5 DEF ByProcess, SameGo, Killed
<1>6. CASE ByReattach(u, b)
  <2>1. rec.phase # "up"
    BY <1>6 DEF ByReattach, RecoverReattach, LockInv
  <2>2. launch'[u][b] \in {"none", "collect"}
    BY <1>6, <2>1 DEF ByReattach, AttemptInv, RecoveryAlone
  <2> QED
    BY <2>2
<1>7. CASE Crash /\ launch'[u][b] = "none"
  BY <1>7
<1> QED
  BY <1>1, <1>2, <1>3, <1>4, <1>5, <1>6, <1>7, GoSteps DEF GoStep

(***************************************************************************)
(* During recovery only pollers run, and none for a row still to be        *)
(* handled in the first pass.                                              *)
(***************************************************************************)
LEMMA RecoveryStep == ASSUME RunInv, LockInv, AttemptInv, [Next]_vars PROVE RecoveryAlone'
<1>0. /\ polls \in [Task -> [Attempt -> Nat]] /\ rec.todo \subseteq Task
      /\ rec.phase \in {"up", "boot", "queued", "running"}
  BY DEF RunInv, TypeOK, RecRecord
<1>1. CASE Crash
  BY <1>1 DEF Crash, Attempts, RecUp, RecoveryAlone
<1>2. CASE RecoverQueued \/ RecoverRunning \/ RecoverDone
  <2>1. UNCHANGED <<launch, polls>>
    BY <1>2 DEF RecoverQueued, RecoverRunning, RecoverDone, goVars
  <2>2. \/ rec'.phase = "queued" /\ rec.phase = "boot" /\ rec'.todo \subseteq Task
        \/ rec'.phase = "running" /\ rec.phase = "queued"
        \/ rec'.phase = "up"
    <3>1. CASE RecoverQueued
      BY <3>1 DEF RecoverQueued, RecUp, RecoverList
    <3>2. CASE RecoverRunning
      BY <3>2 DEF RecoverRunning, RecUp
    <3>3. CASE RecoverDone
      BY <3>3 DEF RecoverDone, RecUp
    <3> QED
      BY <1>2, <3>1, <3>2, <3>3
  <2> QED
    BY <2>1, <2>2 DEF AttemptInv, RecoveryAlone
<1>3. CASE rec'.phase = rec.phase /\ rec'.todo \subseteq rec.todo /\ ~Crash
  <2>1. ASSUME NEW u \in Task, NEW b \in Attempt, rec.phase # "up"
        PROVE  /\ launch'[u][b] \in {"none", "collect"}
               /\ launch[u][b] = "none" /\ polls[u][b] = 0 =>
                    \/ launch'[u][b] = "none" /\ polls'[u][b] = 0
                    \/ ByReattach(u, b)
    <3>0. launch[u][b] \in {"none", "collect"} /\ tick.pc = "idle" /\ polls[u][b] \in Nat
      BY <1>0, <2>1 DEF AttemptInv, RecoveryAlone, LockInv
    <3>1. CASE Same(u, b)
      BY <3>0, <3>1 DEF Same
    <3>2. CASE Dispatch(u)
      BY <3>0, <3>2 DEF Dispatch
    <3>3. CASE ByLaunch(u, b)
      BY <3>0, <3>3 DEF ByLaunch
    <3>4. CASE ByPoll(u, b)
      BY <3>0, <3>4 DEF ByPoll
    <3>5. CASE ByProcess(u, b)
      BY <3>0, <3>5 DEF ByProcess, SameGo
    <3>6. CASE ByReattach(u, b)
      BY <3>0, <3>6 DEF ByReattach
    <3> QED
      BY <1>3, <3>1, <3>2, <3>3, <3>4, <3>5, <3>6, GoSteps DEF GoStep
  <2>2. rec.phase = "boot" => \A u \in Task, b \in Attempt : ~ByReattach(u, b)
    BY DEF ByReattach, RecoverReattach, LockInv
  <2>3. \A u \in Task, b \in Attempt : ByReattach(u, b) => u \notin rec'.todo
    BY DEF ByReattach, RecoverReattach, RecoverNext, RunInv, TypeOK, RecRecord
  <2> QED
    BY <1>0, <1>3, <2>1, <2>2, <2>3 DEF AttemptInv, RecoveryAlone
<1>4. CASE RecoverNextStep
  <2>1. ASSUME NEW t, RecoverProbe(t) \/ RecoverProbeError(t)
        PROVE  rec'.phase = rec.phase /\ rec'.todo \subseteq rec.todo
    BY <2>1 DEF RecoverProbe, RecoverProbeError, RunInv, TypeOK, RecRecord
  <2>2. ASSUME NEW t, RecoverFinalize(t) \/ RecoverReattach(t) \/ RecoverReset(t)
        PROVE  rec'.phase = rec.phase /\ rec'.todo \subseteq rec.todo
    BY <2>2 DEF RecoverFinalize, RecoverReattach, RecoverReset, RecoverNext, RunInv, TypeOK, RecRecord
  <2> QED
    BY <1>1, <1>2, <1>3, <1>4, <2>1, <2>2 DEF RecoverNextStep
<1>5. CASE UNCHANGED rec
  BY <1>1, <1>3, <1>5
<1> QED
  BY <1>1, <1>4, <1>5, TickLeaves, CallLeaves, OpLeaves, AttemptLeaves
  DEF Next, Quiet, vars, DeadlinePasses

(***************************************************************************)
(* Nothing starts a process during recovery, so a probe's answer other     *)
(* than "running" stays true, but for what the executor loses.             *)
(***************************************************************************)
LEMMA ProbeStep == ASSUME RunInv, LockInv, AttemptInv, [Next]_vars PROVE ProbeHolds'
<1>0. /\ rec \in RecRecord /\ rec.cur \subseteq Task /\ RecPhase
      /\ proc \in [Task -> [Attempt -> ProcState]]
  BY DEF RunInv, TypeOK, RecRecord
<1>1. CASE rec'.cur = {}
  BY <1>1 DEF ProbeHolds
<1>2. CASE rec'.cur = rec.cur /\ rec'.seen = rec.seen /\ rec'.rows = rec.rows
  <2> SUFFICES ASSUME rec.seen # "running", NEW u \in rec.cur
               PROVE  proc'[u][rec.rows[u].ref] \in {rec.seen, "absent"}
    BY <1>2 DEF ProbeHolds
  <2> DEFINE a == rec.rows[u].ref
  <2>1. /\ u \in Task /\ a \in Attempt /\ proc[u][a] \in {rec.seen, "absent"} /\ rec.phase # "up"
        /\ launch[u][a] \in {"none", "collect"}
    BY <1>0 DEF AttemptInv, ProbeHolds, RecPhase, LockInv, RecoveryAlone
  <2> HIDE DEF a
  <2> DEFINE Goal == proc'[u][a] \in {rec.seen, "absent"}
  <2>2. Same(u, a) \/ SameProc(u, a) => Goal
    BY <2>1 DEF Same, SameProc
  <2>3. Killed(u, a) => Goal
    BY <2>1 DEF Killed
  <2>4. ByLaunch(u, a) => Goal
    BY <2>1, <2>3 DEF ByLaunch
  <2>5. ByProcess(u, a) => Goal
    BY <2>1, <2>3 DEF ByProcess
  <2>6. Goal
    BY <2>1, <2>2, <2>3, <2>4, <2>5, GoSteps DEF GoStep, ByPoll, ByReattach
  <2> QED
    BY <2>6 DEF a
<1>3. ASSUME NEW t \in Task, RecoverProbe(t) PROVE ProbeHolds'
  <2>1. PICK a \in Attempt : rec.rows[t].ref = a /\ rec' = [rec EXCEPT !.cur = {t}, !.seen = proc[t][a]]
    BY <1>3 DEF RecoverProbe
  <2>2. /\ rec'.cur = {t} /\ rec'.seen = proc[t][a] /\ rec'.rows = rec.rows
        /\ UNCHANGED proc
    BY <1>0, <1>3, <2>1 DEF RecRecord, RecoverProbe, execVars
  <2> QED
    BY <2>1, <2>2 DEF ProbeHolds
<1>4. CASE RecoverNextStep
  <2>1. CASE RecoverQueued \/ RecoverRunning \/ RecoverDone
    <3>1. RecoverQueued => rec'.cur = {}
      BY DEF RecoverQueued, RecUp
    <3>2. RecoverRunning => rec'.cur = {}
      BY DEF RecoverRunning, RecUp
    <3>3. RecoverDone => rec'.cur = {}
      BY DEF RecoverDone, RecUp
    <3> QED
      BY <1>1, <2>1, <3>1, <3>2, <3>3
  <2>2. ASSUME NEW t, RecoverProbeError(t) PROVE ProbeHolds'
    BY <1>0, <1>2, <2>2 DEF RecoverProbeError, RecRecord
  <2>3. ASSUME NEW t, RecoverFinalize(t) \/ RecoverReattach(t) \/ RecoverReset(t) PROVE rec'.cur = {}
    BY <1>0, <2>3 DEF RecoverFinalize, RecoverReattach, RecoverReset, RecoverNext, RecRecord
  <2> QED
    BY <1>1, <1>3, <1>4, <2>1, <2>2, <2>3 DEF RecoverNextStep
<1>5. CASE Crash
  BY <1>1, <1>5 DEF Crash, RecUp
<1>6. CASE UNCHANGED rec
  BY <1>2, <1>6
<1> QED
  BY <1>4, <1>5, <1>6, TickLeaves, CallLeaves, OpLeaves, AttemptLeaves
  DEF Next, Quiet, vars, DeadlinePasses

LEMMA AttemptInvariant == Spec => [](RunInv /\ LockInv /\ AttemptInv)
<1>1. Init => AttemptInv
  <2> SUFFICES ASSUME Init PROVE AttemptInv
    OBVIOUS
  <2>1. \A t \in Task, b \in Attempt : launch[t][b] = "none" /\ polls[t][b] = 0 /\ proc[t][b] = "absent"
    BY DEF Init, Attempts
  <2>2. \A t \in Task : ti[t].try = 0
    BY DEF Init, NoRows, Absent
  <2> QED
    BY <2>1, <2>2 DEF Init, AttemptInv, Frontier, Unused, CopiesAhead, ListedBelow, OneGoroutine,
       Launching, RecoveryAlone, ProbeHolds, TickIdle, OpNone, RecUp
<1>2. RunInv /\ LockInv /\ AttemptInv /\ [Next]_vars => AttemptInv'
  BY FrontierStep, CopiesStep, ListedStep, OneGoroutineStep, RecoveryStep, ProbeStep
  DEF AttemptInv
<1> QED
  BY <1>1, <1>2, RunInvariant, LockInvariant, PTL DEF Spec

(***************************************************************************)
(* A row becomes queued only by its dispatch, with the next ref.           *)
(***************************************************************************)
LEMMA OnlyDispatchQueues ==
  ASSUME RunInv, [Next]_vars, NEW t \in Task, Dispatched(t)
  PROVE  Dispatch(t) /\ ti'[t].ref = ti[t].try + 1
<1> USE DEF Dispatched
<1>1. ~ByScan(t) /\ ~ByTimeout(t) /\ ~ByCall(t)
  BY DEF ByScan, ByTimeout, ByCall, TaskTerminal, TaskFailure
<1>2. \A a \in Attempt : ~ByOwner(t, a) /\ ~ByGiveBack(t, a)
  BY DEF ByOwner, ByGiveBack, Outcome, FailureState
<1> QED
  BY <1>1, <1>2, RowSteps DEF RowStep

(***************************************************************************)
(* The ref a dispatch assigns is unknown to the executor and no goroutine  *)
(* uses it: retries, marks, cancellations, attempts given back, timeouts,  *)
(* crashes and recovery never make a number be used twice.                 *)
(***************************************************************************)
THEOREM AttemptsAreFresh == Spec => FreshAttempt
<1> DEFINE Fresh == \A t \in Task : Dispatched(t) =>
                      /\ proc[t][ti'[t].ref] = "absent"
                      /\ ~Watched(t, ti'[t].ref)
<1>1. RunInv /\ LockInv /\ AttemptInv /\ [Next]_vars => [Fresh]_vars
  <2> SUFFICES ASSUME RunInv, LockInv, AttemptInv, [Next]_vars, NEW t \in Task, Dispatched(t)
               PROVE  proc[t][ti'[t].ref] = "absent" /\ ~Watched(t, ti'[t].ref)
    OBVIOUS
  <2>1. Dispatch(t) /\ ti'[t].ref = ti[t].try + 1
    BY OnlyDispatchQueues
  <2>2. ti[t].try + 1 \in Attempt /\ ti[t].try + 1 > ti[t].try
    BY <2>1, RowFacts DEF Dispatch, CanDispatch, Attempt
  <2>3. Unused(t, ti[t].try + 1)
    BY <2>2 DEF AttemptInv, Frontier
  <2> QED
    BY <2>1, <2>3 DEF Unused, Watched
<1> QED
  BY <1>1, AttemptInvariant, PTL DEF Spec, FreshAttempt

-----------------------------------------------------------------------------
(***************************************************************************)
(* A goroutine is launching only since its dispatch; a row waits for its   *)
(* retry only when the owner of its attempt has recorded a failure.        *)
(***************************************************************************)
LEMMA StartsLaunching ==
  ASSUME RunInv, LockInv, [Next]_vars, NEW u \in Task, NEW b \in Attempt,
         launch'[u][b] \in Launching
  PROVE  launch[u][b] \in Launching \/ (Dispatch(u) /\ b = ti[u].try + 1)
<1> USE DEF Launching
<1>1. CASE Same(u, b)
  BY <1>1 DEF Same
<1>2. CASE ByLaunch(u, b)
  BY <1>2 DEF ByLaunch
<1>3. CASE ByPoll(u, b)
  BY <1>3 DEF ByPoll
<1>4. CASE ByProcess(u, b) \/ ByReattach(u, b)
  BY <1>4 DEF ByProcess, ByReattach, SameGo
<1> QED
  BY <1>1, <1>2, <1>3, <1>4, GoSteps DEF GoStep

LEMMA BecomesRetry ==
  ASSUME RunInv, [Next]_vars, NEW u \in Task, ti'[u] # ti[u], ti'[u].state = "up_for_retry"
  PROVE  \E a \in Attempt : /\ Applies(u, a) /\ ti'[u].ref = a
                            /\ \/ LaunchFails(u, a) \/ Poll(u, a)
                               \/ RecoverFinalize(u) /\ rec.rows[u].ref = a
<1>1. ~ByScan(u) /\ ~ByTimeout(u) /\ ~ByCall(u)
  BY DEF ByScan, ByTimeout, ByCall, TaskTerminal, TaskFailure
<1>2. \A a \in Attempt : ~ByGiveBack(u, a)
  BY DEF ByGiveBack
<1>3. PICK a \in Attempt : ByOwner(u, a)
  BY <1>1, <1>2, RowSteps DEF RowStep
<1> QED
  BY <1>3 DEF ByOwner

(***************************************************************************)
(* The slots.  A goroutine that may still write running, and recovery over *)
(* a row it found queued, own a row that holds its slot already: it never  *)
(* went back to up_for_retry behind their back.  So rows take slots only   *)
(* by a dispatch, and during the admission those that hold one are among   *)
(* those admitReady has counted.                                           *)
(***************************************************************************)
OwnersBusy ==
  \A t \in Task : ti[t].state = "up_for_retry" =>
    /\ \A b \in Attempt : ti[t].ref = b => launch[t][b] \notin Launching
    /\ rec.phase = "queued" /\ t \in rec.todo => ti[t].ref # rec.rows[t].ref

TakenCounted == tick.pc = "admit" => Busy \subseteq tick.taken

BudgetInv == OwnersBusy /\ TakenCounted /\ BudgetRespected

LEMMA OwnersStep == ASSUME RunInv, LockInv, AttemptInv, OwnersBusy, [Next]_vars PROVE OwnersBusy'
<1> SUFFICES ASSUME NEW u \in Task, ti'[u].state = "up_for_retry"
             PROVE  /\ \A b \in Attempt : ti'[u].ref = b => launch'[u][b] \notin Launching
                    /\ rec'.phase = "queued" /\ u \in rec'.todo => ti'[u].ref # rec'.rows[u].ref
  BY DEF OwnersBusy
<1>1. CASE ti'[u] = ti[u]
  <2>1. /\ \A b \in Attempt : ti[u].ref = b => launch[u][b] \notin Launching
        /\ rec.phase = "queued" /\ u \in rec.todo => ti[u].ref # rec.rows[u].ref
    BY <1>1 DEF OwnersBusy
  <2>2. ~Dispatch(u)
    BY <1>1 DEF Dispatch, CanDispatch
  <2>3. \A b \in Attempt : ti'[u].ref = b => launch'[u][b] \notin Launching
    BY <1>1, <2>1, <2>2, StartsLaunching
  <2>4. u \notin RecoverList("queued")
    BY <1>1 DEF RecoverList
  <2>5. rec'.phase = "queued" /\ u \in rec'.todo => rec.phase = "queued" /\ u \in rec.todo /\ rec'.rows = rec.rows
    BY <2>4, ListTaken
  <2> QED
    BY <1>1, <2>1, <2>3, <2>5
<1>2. CASE ti'[u] # ti[u]
  <2>1. PICK a \in Attempt : /\ Applies(u, a) /\ ti'[u].ref = a
                             /\ \/ LaunchFails(u, a) \/ Poll(u, a)
                                \/ RecoverFinalize(u) /\ rec.rows[u].ref = a
    BY <1>2, BecomesRetry
  <2>2. launch \in [Task -> [Attempt -> LaunchPC]] /\ rec \in RecRecord
    BY DEF RunInv, TypeOK
  <2>3. CASE LaunchFails(u, a)
    <3>1. launch'[u][a] = "none" /\ rec' = rec /\ launch[u][a] = "launch"
      BY <2>2, <2>3 DEF LaunchFails
    <3>2. rec.phase = "up"
      BY <3>1 DEF AttemptInv, RecoveryAlone
    <3> QED
      BY <2>1, <3>1, <3>2 DEF Launching
  <2>4. CASE Poll(u, a)
    <3>1. launch'[u][a] \in {launch[u][a], "collect"} /\ rec' = rec /\ polls[u][a] > 0
      BY <2>2, <2>4 DEF Poll
    <3>2. launch[u][a] \notin Launching
      BY <3>1 DEF AttemptInv, OneGoroutine
    <3>3. ~(rec.phase = "queued" /\ u \in rec.todo)
      BY <3>1 DEF AttemptInv, RecoveryAlone
    <3> QED
      BY <2>1, <3>1, <3>2, <3>3 DEF Launching
  <2>5. CASE RecoverFinalize(u)
    <3>1. launch' = launch /\ u \notin rec'.todo /\ rec.phase # "up"
      BY <2>2, <2>5 DEF RecoverFinalize, RecoverNext, RecRecord, goVars, LockInv
    <3>2. launch[u][a] \notin Launching
      BY <3>1 DEF AttemptInv, RecoveryAlone, Launching
    <3> QED
      BY <2>1, <3>1, <3>2
  <2> QED
    BY <2>1, <2>3, <2>4, <2>5
<1> QED
  BY <1>1, <1>2

LEMMA SlotsTaken ==
  ASSUME RunInv, LockInv, OwnersBusy, [Next]_vars, NEW u \in Busy', u \notin Busy
  PROVE  Dispatch(u)
<1>0. u \in Task /\ ti'[u].state \in {"queued", "running"} /\ ti[u].state \notin {"queued", "running"}
  BY DEF Busy
<1>1. ~ByScan(u) /\ ~ByTimeout(u) /\ ~ByCall(u) /\ ti'[u] # ti[u]
  BY <1>0 DEF ByScan, ByTimeout, ByCall, TaskTerminal, TaskFailure
<1>2. ASSUME NEW a \in Attempt, ByOwner(u, a) \/ ByGiveBack(u, a) PROVE FALSE
  <2>1. Applies(u, a) /\ ti[u].ref = a
    BY <1>2 DEF ByOwner, ByGiveBack, Applies
  <2>2. ti[u].state = "up_for_retry"
    BY <1>0, <2>1, AppliesNames
  <2>3. CASE MarkRunning(u, a)
    BY <1>0, <2>1, <2>2, <2>3 DEF MarkRunning, OwnersBusy, Launching
  <2>4. CASE RecoverReattach(u) /\ rec.rows[u].ref = a /\ rec.phase = "queued"
    BY <1>0, <2>1, <2>2, <2>4 DEF RecoverReattach, OwnersBusy, LockInv
  <2> QED
    BY <1>0, <1>2, <2>3, <2>4 DEF ByOwner, ByGiveBack, Outcome, FailureState
<1> QED
  BY <1>0, <1>1, <1>2, RowSteps DEF RowStep

LEMMA Counting ==
  ASSUME RunInv, [Next]_vars, tick'.pc = "admit"
  PROVE  \/ tick'.taken = Busy /\ UNCHANGED ti
         \/ /\ tick.pc = "admit" /\ tick.taken \subseteq tick'.taken
            /\ \A u \in Task : Dispatch(u) => u \in tick'.taken
<1>0. tick \in TickRecord
  BY DEF RunInv, TypeOK
<1> DEFINE Goal == \/ tick'.taken = Busy /\ UNCHANGED ti
                   \/ /\ tick.pc = "admit" /\ tick.taken \subseteq tick'.taken
                      /\ \A u \in Task : Dispatch(u) => u \in tick'.taken
<1>1. ASSUME NEW u, Dispatch(u) PROVE u \in tick'.taken /\ tick.pc = "admit" /\ tick.taken \subseteq tick'.taken
  BY <1>0, <1>1 DEF Dispatch, TickRecord
<1>2. CASE UNCHANGED tick
  BY <1>1, <1>2
<1>3. CASE TickNext
  <2>1. CASE TickList
    BY <1>0, <2>1 DEF TickList, TickRecord
  <2>2. CASE TickLock
    BY <1>0, <2>2 DEF TickLock, TickRecord
  <2>3. CASE TickStart
    BY <1>0, <2>3 DEF TickStart, TickRecord, ReturnProcessRun, TickIdle
  <2>4. CASE TickFinalize \/ TickWithinDeadline \/ TickTimeoutDone
    BY <2>4 DEF TickFinalize, TickWithinDeadline, TickTimeoutDone, ReturnProcessRun, TickIdle
  <2>5. CASE TickTimeout
    BY <1>0, <2>5 DEF TickTimeout, TickRecord
  <2>6. CASE TickAdmit
    <3>1. CASE tick.ready = {}
      BY <2>6, <3>1 DEF TickAdmit, TickIdle
    <3>2. CASE tick.ready # {}
      BY <1>0, <2>6, <3>2 DEF TickAdmit, TickRecord, rowVars
    <3> QED
      BY <3>1, <3>2
  <2>7. CASE TickDone
    BY <2>7 DEF TickDone, TickIdle
  <2>8. ASSUME NEW due, TickScan(due) PROVE Goal
    <3>1. CASE ReturnProcessRun({})
      BY <3>1 DEF ReturnProcessRun, TickIdle
    <3>2. CASE \E ready : tick' = [tick EXCEPT !.pc = "finish", !.ready = ready]
      BY <1>0, <3>2 DEF TickRecord
    <3> QED
      BY <2>8, <3>1, <3>2 DEF TickScan
  <2>9. ASSUME NEW t, TickExpand(t) PROVE Goal
    BY <1>2, <2>9 DEF TickExpand
  <2>10. ASSUME NEW t, TickTimeoutKill(t) PROVE Goal
    BY <1>0, <2>10 DEF TickTimeoutKill, TickRecord
  <2>11. ASSUME NEW t, TickTimeoutWrite(t) PROVE Goal
    BY <1>0, <2>11 DEF TickTimeoutWrite, TickRecord
  <2>12. ASSUME NEW t, Dispatch(t) PROVE Goal
    BY <1>1, <2>12
  <2>13. ASSUME NEW t, PassOver(t) PROVE Goal
    BY <1>0, <1>1, <2>13 DEF PassOver, TickRecord
  <2> QED
    BY <1>3, <2>1, <2>2, <2>3, <2>4, <2>5, <2>6, <2>7, <2>8, <2>9, <2>10, <2>11, <2>12, <2>13
    DEF TickNext
<1>4. CASE DeadlinePasses
  BY <1>0, <1>1, <1>4 DEF DeadlinePasses, TickRecord
<1>5. CASE Crash
  BY <1>5 DEF Crash, TickIdle
<1> QED
  BY <1>2, <1>3, <1>4, <1>5, CallLeaves, OpLeaves, AttemptLeaves, RecoverLeaves DEF Next, Quiet, vars

LEMMA BudgetStep == ASSUME RunInv, LockInv, AttemptInv, BudgetInv, [Next]_vars PROVE BudgetInv'
<1>0. OwnersBusy /\ TakenCounted /\ BudgetRespected
  BY DEF BudgetInv
<1>1. OwnersBusy'
  BY <1>0, OwnersStep
<1>2. TakenCounted'
  <2> SUFFICES ASSUME tick'.pc = "admit", NEW u \in Busy' PROVE u \in tick'.taken
    BY DEF TakenCounted
  <2>1. CASE tick'.taken = Busy /\ UNCHANGED ti
    BY <2>1 DEF Busy
  <2>2. CASE /\ tick.pc = "admit" /\ tick.taken \subseteq tick'.taken
             /\ \A v \in Task : Dispatch(v) => v \in tick'.taken
    <3>1. u \in Task /\ (u \in Busy => u \in tick.taken)
      BY <1>0, <2>2 DEF Busy, TakenCounted
    <3> QED
      BY <1>0, <2>2, <3>1, SlotsTaken
  <2> QED
    BY <2>1, <2>2, Counting
<1>3. BudgetRespected'
  <2>1. IsFiniteSet(Task) /\ Busy \in SUBSET Task /\ Busy' \in SUBSET Task
    BY DagAssumption DEF Busy
  <2>2. IsFiniteSet(Busy) /\ Cardinality(Busy) \in Nat /\ Cardinality(Busy') \in Nat
    BY <2>1, FS_Subset, FS_CardinalityType
  <2>3. CASE Busy' \subseteq Busy
    <3>1. Cardinality(Busy') <= Cardinality(Busy)
      BY <2>2, <2>3, FS_Subset
    <3> QED
      BY <1>0, <2>2, <3>1, BoundAssumption DEF BudgetRespected
  <2>4. ASSUME NEW t \in Task, Dispatch(t) PROVE BudgetRespected'
    <3>1. tick.pc = "admit" /\ Cardinality(tick.taken) < Slots
      BY <2>4 DEF Dispatch, CanDispatch
    <3>2. Busy \subseteq tick.taken /\ tick.taken \in SUBSET Task
      BY <1>0, <3>1 DEF TakenCounted, RunInv, TypeOK, TickRecord
    <3>3. IsFiniteSet(tick.taken) /\ Cardinality(tick.taken) \in Nat
      BY <2>1, <3>2, FS_Subset, FS_CardinalityType
    <3>4. Cardinality(Busy) <= Cardinality(tick.taken)
      BY <3>2, <3>3, FS_Subset
    <3>5. Busy' \subseteq Busy \cup {t}
      BY <1>0, <2>4, SlotsTaken DEF Dispatch, RunInv, TypeOK, Rows, Busy
    <3>6. IsFiniteSet(Busy \cup {t}) /\ Cardinality(Busy \cup {t}) <= Cardinality(Busy) + 1
      <4>1. /\ IsFiniteSet(Busy \cup {t})
            /\ Cardinality(Busy \cup {t}) = IF t \in Busy THEN Cardinality(Busy) ELSE Cardinality(Busy) + 1
        BY <2>2, FS_AddElement, Zenon
      <4> QED
        BY <2>2, <4>1
    <3>7. Cardinality(Busy') <= Cardinality(Busy \cup {t}) /\ Cardinality(Busy \cup {t}) \in Nat
      BY <3>5, <3>6, FS_Subset, FS_CardinalityType
    <3> QED
      BY <2>2, <3>1, <3>3, <3>4, <3>6, <3>7, BoundAssumption DEF BudgetRespected
  <2>5. Busy' \subseteq Busy \/ \E t \in Task : Dispatch(t)
    BY <1>0, <2>1, SlotsTaken
  <2> QED
    BY <2>3, <2>4, <2>5
<1> QED
  BY <1>1, <1>2, <1>3 DEF BudgetInv

LEMMA BudgetInvariant == Spec => [](RunInv /\ LockInv /\ AttemptInv /\ BudgetInv)
<1>1. Init => BudgetInv
  <2> SUFFICES ASSUME Init PROVE BudgetInv
    OBVIOUS
  <2>1. \A t \in Task : ti[t].state = "absent"
    BY DEF Init, NoRows, Absent
  <2>2. Busy = {} /\ tick.pc = "idle"
    BY <2>1 DEF Busy, Init, TickIdle
  <2> QED
    BY <2>1, <2>2, FS_EmptySet, BoundAssumption DEF BudgetInv, OwnersBusy, TakenCounted, BudgetRespected
<1>2. RunInv /\ LockInv /\ AttemptInv /\ BudgetInv /\ [Next]_vars => BudgetInv'
  BY BudgetStep
<1> QED
  BY <1>1, <1>2, AttemptInvariant, PTL DEF Spec

(***************************************************************************)
(* admitReady counts the queued and running rows once per tick, yet they   *)
(* never exceed the budget, whatever goroutines, operator calls and        *)
(* recovery write meanwhile.                                               *)
(***************************************************************************)
THEOREM SlotsAreRespected == Spec => []BudgetRespected
<1>1. BudgetInv => BudgetRespected
  BY DEF BudgetInv
<1> QED
  BY <1>1, BudgetInvariant, PTL

-----------------------------------------------------------------------------
(***************************************************************************)
(* The steps of recovery, and the rows it is done with.                    *)
(***************************************************************************)
LEMMA RecoverSteps ==
  ASSUME RunInv, [Next]_vars
  PROVE  \/ Crash \/ RecoverQueued \/ RecoverRunning \/ RecoverDone
         \/ /\ rec'.phase = rec.phase /\ rec'.rows = rec.rows /\ rec'.todo \subseteq rec.todo
            /\ \A u \in rec.todo \ rec'.todo :
                 \/ RecoverProbeError(u) \/ RecoverFinalize(u)
                 \/ RecoverReattach(u) \/ RecoverReset(u)
<1>0. rec \in RecRecord
  BY DEF RunInv, TypeOK
<1>1. CASE UNCHANGED rec
  BY <1>1
<1>2. ASSUME NEW t \in Task, RecoverProbe(t) PROVE rec'.phase = rec.phase /\ rec'.rows = rec.rows /\ rec'.todo = rec.todo
  BY <1>0, <1>2 DEF RecoverProbe, RecRecord
<1>3. ASSUME NEW t \in Task, RecoverProbeError(t)
      PROVE  rec'.phase = rec.phase /\ rec'.rows = rec.rows /\ rec'.todo = rec.todo \ {t}
  BY <1>0, <1>3 DEF RecoverProbeError, RecRecord
<1>4. ASSUME NEW t \in Task, RecoverFinalize(t) \/ RecoverReattach(t) \/ RecoverReset(t)
      PROVE  rec'.phase = rec.phase /\ rec'.rows = rec.rows /\ rec'.todo = rec.todo \ {t}
  BY <1>0, <1>4 DEF RecoverFinalize, RecoverReattach, RecoverReset, RecoverNext, RecRecord
<1>5. CASE RecoverNextStep
  BY <1>2, <1>3, <1>4, <1>5 DEF RecoverNextStep
<1> QED
  BY <1>1, <1>5, TickLeaves, CallLeaves, OpLeaves, AttemptLeaves
  DEF Next, Quiet, vars, DeadlinePasses

(***************************************************************************)
(* A row that stays in flight is untouched, or its owner has just become   *)
(* its poller; a row is queued only by its dispatch.                       *)
(***************************************************************************)
LEMMA StaysInFlight ==
  ASSUME RunInv, LockInv, [Next]_vars, NEW u \in Busy, u \in Busy'
  PROVE  \/ ti'[u] = ti[u]
         \/ /\ ti'[u].ref \in Attempt /\ polls'[u][ti'[u].ref] > 0
            /\ ti'[u].state = "running"
            /\ \/ MarkRunning(u, ti'[u].ref)
               \/ RecoverReattach(u) /\ rec.phase = "queued"
<1>0. u \in Task /\ ti'[u].state \in {"queued", "running"} /\ ti[u].state \in {"queued", "running"}
  BY DEF Busy
<1>1. ~ByScan(u) /\ ~ByTimeout(u) /\ ~ByCall(u) /\ ~Dispatch(u)
  BY <1>0 DEF ByScan, ByTimeout, ByCall, Dispatch, CanDispatch, TaskTerminal, TaskFailure
<1>2. \A a \in Attempt : ~ByGiveBack(u, a)
  BY <1>0 DEF ByGiveBack
<1>3. ASSUME NEW a \in Attempt, ByOwner(u, a)
      PROVE  /\ ti'[u].ref = a /\ polls'[u][a] > 0 /\ ti'[u].state = "running"
             /\ MarkRunning(u, a) \/ (RecoverReattach(u) /\ rec.phase = "queued")
  <2>0. Applies(u, a) /\ ti'[u].ref = a /\ polls \in [Task -> [Attempt -> Nat]]
    BY <1>3 DEF ByOwner, RunInv, TypeOK
  <2>1. polls[u][a] \in Nat
    BY <1>0, <2>0
  <2>2. CASE MarkRunning(u, a) /\ ti'[u].state = "running"
    <3>1. polls'[u][a] = polls[u][a] + 1
      BY <1>0, <2>0, <2>2 DEF MarkRunning
    <3> QED
      BY <2>0, <2>1, <2>2, <3>1
  <2>3. CASE RecoverReattach(u) /\ rec.rows[u].ref = a /\ rec.phase = "queued" /\ ti'[u].state = "running"
    <3>1. polls' = [polls EXCEPT ![u][a] = @ + 1]
      BY <2>0, <2>3 DEF RecoverReattach
    <3>2. polls'[u][a] = polls[u][a] + 1
      BY <1>0, <2>0, <3>1
    <3> QED
      BY <2>0, <2>1, <2>3, <3>2
  <2> QED
    BY <1>0, <1>3, <2>2, <2>3 DEF ByOwner, Outcome, FailureState
<1>4. ti[u].state # "absent"
  BY <1>0
<1> QED
  BY <1>0, <1>1, <1>2, <1>3, <1>4, RowSteps DEF RowStep

(***************************************************************************)
(* The goroutine of a row in flight ends only by moving the row on.        *)
(***************************************************************************)
LEMMA WatchKept ==
  ASSUME "cas_error" \notin Faults, RunInv, LockInv, [Next]_vars, ~Crash,
         NEW u \in Busy, u \in Busy', Watched(u, ti[u].ref)
  PROVE  Watched(u, ti[u].ref)'
<1> DEFINE b == ti[u].ref
<1>0. /\ u \in Task /\ ti[u].state \in {"queued", "running"} /\ ti'[u].state \in {"queued", "running"}
      /\ b \in Attempt
  BY RowFacts DEF Busy, RunInv, CopiesNamed, Named, NamesTheTry, Attempt
<1>1. CASE ti'[u] # ti[u]
  BY <1>1, StaysInFlight DEF Watched
<1>2. CASE ti'[u] = ti[u]
  <2>0. /\ launch[u][b] \in {"check", "launch", "cas"} \/ polls[u][b] > 0
        /\ Applies(u, b) /\ polls[u][b] \in Nat
    BY <1>0 DEF Watched, Applies, TaskTerminal, TaskFailure, RunInv, TypeOK
  <2> SUFFICES launch'[u][b] \in {"check", "launch", "cas"} \/ polls'[u][b] > 0
    BY <1>2 DEF Watched
  <2>1. CASE Same(u, b)
    BY <2>0, <2>1 DEF Same
  <2>2. CASE Dispatch(u)
    BY <1>0, <2>2 DEF Dispatch, CanDispatch
  <2>3. ~LaunchFails(u, b) /\ ~NoWorker(u, b) /\ ~Poll(u, b)
    <3>1. \A s : ti' = Guarded(u, OwnRow(u, b, s), b) => s = ti'[u].state
      BY <1>0, <2>0, OwnWrite
    <3>2. ti' = Guarded(u, [state |-> "scheduled", try |-> b - 1, ref |-> 0], b) => ti'[u].state = "scheduled"
      BY <1>0, <2>0, GiveBack
    <3>3. ~LaunchFails(u, b)
      BY <1>0, <3>1 DEF LaunchFails, FailureState
    <3>4. ~NoWorker(u, b)
      BY <1>0, <3>2 DEF NoWorker
    <3>5. ~Poll(u, b)
      BY <1>0, <3>1 DEF Poll, Outcome, FailureState
    <3> QED
      BY <3>3, <3>4, <3>5
  <2>4. CASE ByLaunch(u, b)
    <3>1. ~MarkRunningError(u, b) /\ ti[u].state # "cancelled"
      BY <1>0 DEF MarkRunningError
    <3> QED
      BY <2>0, <2>3, <2>4, <3>1 DEF ByLaunch
  <2>5. CASE ByPoll(u, b)
    BY <2>0, <2>3, <2>5 DEF ByPoll
  <2>6. CASE ByProcess(u, b)
    BY <2>0, <2>6 DEF ByProcess, SameGo
  <2>7. CASE ByReattach(u, b)
    BY <2>0, <2>7 DEF ByReattach
  <2> QED
    BY <1>0, <2>1, <2>2, <2>4, <2>5, <2>6, <2>7, GoSteps DEF GoStep
<1> QED
  BY <1>1, <1>2

(***************************************************************************)
(* Who answers for a row in flight.  Once recovery is over, a goroutine;   *)
(* while recovery goes through the queued rows, recovery itself, which     *)
(* still has the row on its list; while it goes through the running rows,  *)
(* either.                                                                 *)
(***************************************************************************)
RecoveryWatches ==
  /\ rec.phase = "queued" =>
       \A t \in Task : ti[t].state = "queued" => t \in rec.todo /\ rec.rows[t].ref = ti[t].ref
  /\ rec.phase = "running" =>
       \A t \in Task :
         /\ ti[t].state # "queued"
         /\ ti[t].state = "running" =>
              (t \in rec.todo /\ rec.rows[t].ref = ti[t].ref) \/ Watched(t, ti[t].ref)

WatchInv == InFlightIsWatched /\ RecoveryWatches

LEMMA WatchStep ==
  ASSUME "probe_error" \notin Faults, "cas_error" \notin Faults,
         RunInv, LockInv, AttemptInv, BudgetInv, WatchInv, [Next]_vars
  PROVE  WatchInv'
<1>0. /\ rec \in RecRecord /\ ti \in Rows /\ OwnersBusy /\ InFlightIsWatched /\ RecoveryWatches
  BY DEF RunInv, TypeOK, BudgetInv, WatchInv
<1> USE DEF rowVars, goVars, execVars
<1>1. CASE Crash
  BY <1>1 DEF Crash, RecUp, WatchInv, InFlightIsWatched, RecoveryWatches
<1>2. CASE RecoverQueued
  <2>1. rec'.phase = "queued" /\ rec'.rows = ti /\ rec'.todo = RecoverList("queued") /\ ti' = ti
    BY <1>2 DEF RecoverQueued, RecUp
  <2> QED
    BY <2>1 DEF WatchInv, InFlightIsWatched, RecoveryWatches, RecoverList
<1>3. CASE RecoverRunning
  <2>1. /\ rec'.phase = "running" /\ rec'.rows = ti /\ rec'.todo = RecoverList("running") /\ ti' = ti
        /\ rec.phase = "queued" /\ rec.todo = {}
    BY <1>3 DEF RecoverRunning, RecUp
  <2> QED
    BY <1>0, <2>1 DEF WatchInv, InFlightIsWatched, RecoveryWatches, RecoverList
<1>4. CASE RecoverDone
  <2>1. /\ rec'.phase = "up" /\ UNCHANGED <<ti, launch, polls>>
        /\ rec.phase = "running" /\ rec.todo = {}
    BY <1>4 DEF RecoverDone, RecUp
  <2>2. \A t \in Task : Watched(t, ti[t].ref)' <=> Watched(t, ti[t].ref)
    BY <2>1 DEF Watched
  <2> QED
    BY <1>0, <2>1, <2>2 DEF WatchInv, InFlightIsWatched, RecoveryWatches
<1>5. CASE /\ rec'.phase = rec.phase /\ rec'.rows = rec.rows /\ rec'.todo \subseteq rec.todo
           /\ ~Crash
           /\ \A u \in rec.todo \ rec'.todo :
                \/ RecoverProbeError(u) \/ RecoverFinalize(u)
                \/ RecoverReattach(u) \/ RecoverReset(u)
  <2>1. ASSUME rec.phase = "up", NEW u \in Busy' PROVE Watched(u, ti[u].ref)'
    <3>0. u \in Task
      BY DEF Busy
    <3>1. CASE u \in Busy
      <4>1. Watched(u, ti[u].ref)
        BY <1>0, <2>1, <3>1 DEF InFlightIsWatched, Busy
      <4> QED
        BY <1>5, <3>1, <4>1, WatchKept
    <3>2. CASE u \notin Busy
      <4>1. Dispatch(u)
        BY <1>0, <3>2, SlotsTaken
      <4>2. ti[u].try + 1 \in Attempt /\ ti'[u].ref = ti[u].try + 1
        BY <1>0, <3>0, <4>1, RowFacts DEF Dispatch, CanDispatch, Attempt, OwnRow, Rows
      <4>3. launch'[u][ti[u].try + 1] = "check"
        BY <3>0, <4>1, <4>2 DEF Dispatch, RunInv, TypeOK
      <4> QED
        BY <4>2, <4>3 DEF Watched
    <3> QED
      BY <3>1, <3>2
  <2>2. rec.phase # "up" => \A u \in Task : ~Dispatch(u)
    BY DEF LockInv, Dispatch
  <2>3. rec.phase # "up" => Busy' \subseteq Busy
    <3> SUFFICES ASSUME rec.phase # "up", NEW u \in Busy', u \notin Busy PROVE FALSE
      OBVIOUS
    <3>1. u \in Task /\ Dispatch(u)
      BY <1>0, SlotsTaken DEF Busy
    <3> QED
      BY <2>2, <3>1
  <2>4. ASSUME NEW u \in rec.todo \ rec'.todo, u \in Busy, u \in Busy', ti[u].ref = rec.rows[u].ref
        PROVE  RecoverReattach(u) /\ (rec.phase = "queued" => ti'[u].state = "running")
    <3>0. u \in Task /\ ti'[u].state \in {"queued", "running"} /\ Applies(u, ti[u].ref) /\ rec.phase # "up"
      BY <2>4 DEF Busy, Applies, TaskTerminal, TaskFailure, LockInv
    <3>1. ~RecoverProbeError(u)
      BY DEF RecoverProbeError
    <3>2. u \in rec.cur => ti[u].ref \in Attempt
      BY <2>4 DEF RunInv, RecPhase
    <3>3. ~RecoverFinalize(u)
      <4> SUFFICES ASSUME RecoverFinalize(u) PROVE FALSE
        OBVIOUS
      <4> DEFINE a == ti[u].ref
                 s == Outcome(u, a, rec.seen)
      <4>1. ti' = Guarded(u, OwnRow(u, a, s), a) /\ a \in Attempt
        BY <2>4, <3>2 DEF RecoverFinalize
      <4>2. ti'[u].state = s
        BY <3>0, <4>1, OwnWrite
      <4> QED
        BY <3>0, <4>2 DEF Outcome, FailureState
    <3>4. ~RecoverReset(u)
      <4> SUFFICES ASSUME RecoverReset(u) PROVE FALSE
        OBVIOUS
      <4> DEFINE a == ti[u].ref
      <4>1. /\ ti' = Guarded(u, [state |-> "scheduled", try |-> a - 1, ref |-> 0], a)
            /\ a \in Attempt
        BY <2>4, <3>2 DEF RecoverReset
      <4>2. ti'[u].state = "scheduled"
        BY <3>0, <4>1, GiveBack
      <4> QED
        BY <3>0, <4>2
    <3>5. RecoverReattach(u)
      BY <1>5, <3>1, <3>3, <3>4
    <3>6. ASSUME rec.phase = "queued" PROVE ti'[u].state = "running"
      <4>1. ti' = Guarded(u, OwnRow(u, ti[u].ref, "running"), ti[u].ref) /\ ti[u].ref \in Attempt
        BY <2>4, <3>2, <3>5, <3>6 DEF RecoverReattach
      <4> QED
        BY <3>0, <4>1, OwnWrite
    <3> QED
      BY <3>5, <3>6
  <2>5. ASSUME rec.phase = "queued", NEW u \in Task, ti'[u].state = "queued"
        PROVE  u \in rec'.todo /\ rec'.rows[u].ref = ti'[u].ref
    <3>1. u \in Busy /\ u \in Busy' /\ ti'[u] = ti[u]
      BY <2>3, <2>5, StaysInFlight DEF Busy
    <3>2. u \in rec.todo /\ rec.rows[u].ref = ti[u].ref
      BY <1>0, <2>5, <3>1 DEF RecoveryWatches
    <3> QED
      BY <1>5, <2>4, <2>5, <3>1, <3>2
  <2>6. ASSUME rec.phase = "running", NEW u \in Task
        PROVE  /\ ti'[u].state # "queued"
               /\ ti'[u].state = "running" =>
                    (u \in rec'.todo /\ rec'.rows[u].ref = ti'[u].ref) \/ Watched(u, ti[u].ref)'
    <3>1. CASE u \notin Busy'
      BY <3>1 DEF Busy
    <3>2. CASE u \in Busy'
      <4>1. u \in Busy
        BY <2>3, <2>6, <3>2
      <4>2. ti[u].state = "running" /\ ((u \in rec.todo /\ rec.rows[u].ref = ti[u].ref) \/ Watched(u, ti[u].ref))
        BY <1>0, <2>6, <4>1 DEF Busy, RecoveryWatches
      <4>3. ti'[u] = ti[u]
        <5>1. \A a \in Attempt : ~MarkRunning(u, a)
          BY <2>6 DEF MarkRunning, AttemptInv, RecoveryAlone
        <5> QED
          BY <2>6, <3>2, <4>1, <5>1, StaysInFlight
      <4>4. CASE Watched(u, ti[u].ref)
        BY <1>5, <3>2, <4>1, <4>2, <4>3, <4>4, WatchKept
      <4>5. CASE u \in rec'.todo /\ rec.rows[u].ref = ti[u].ref
        BY <1>5, <4>2, <4>3, <4>5
      <4>6. CASE u \in rec.todo \ rec'.todo /\ rec.rows[u].ref = ti[u].ref
        <5>1. RecoverReattach(u)
          BY <2>4, <3>2, <4>1, <4>6
        <5>2. ti[u].ref \in Attempt
          BY <4>6, <5>1 DEF RecoverReattach, RunInv, RecPhase
        <5>3. polls' = [polls EXCEPT ![u][ti[u].ref] = @ + 1]
          BY <2>6, <4>6, <5>1 DEF RecoverReattach
        <5>4. polls'[u][ti[u].ref] = polls[u][ti[u].ref] + 1 /\ polls[u][ti[u].ref] \in Nat
          BY <5>2, <5>3 DEF RunInv, TypeOK
        <5> QED
          BY <4>2, <4>3, <5>4 DEF Watched
      <4> QED
        BY <4>2, <4>4, <4>5, <4>6
    <3> QED
      BY <3>1, <3>2
  <2> QED
    BY <1>5, <2>1, <2>5, <2>6 DEF WatchInv, InFlightIsWatched, RecoveryWatches, Busy
<1> QED
  BY <1>1, <1>2, <1>3, <1>4, <1>5, RecoverSteps

(***************************************************************************)
(* After any crash and recovery, and under every operator call, every      *)
(* queued or running row has a goroutine that will move it on.  The two    *)
(* faults excluded are the ones after which the code itself gives a row up *)
(* until the next restart: a failed queued -> running write, and a failed  *)
(* probe during recovery.                                                  *)
(***************************************************************************)
THEOREM NoRowLeftBehind ==
  ASSUME "probe_error" \notin Faults, "cas_error" \notin Faults
  PROVE  Spec => []InFlightIsWatched
<1>1. Init => WatchInv
  <2> SUFFICES ASSUME Init PROVE WatchInv
    OBVIOUS
  <2>1. \A t \in Task : ti[t].state = "absent"
    BY DEF Init, NoRows, Absent
  <2>2. rec.phase = "up"
    BY DEF Init, RecUp
  <2> QED
    BY <2>1, <2>2 DEF WatchInv, InFlightIsWatched, RecoveryWatches
<1>2. RunInv /\ LockInv /\ AttemptInv /\ BudgetInv /\ WatchInv /\ [Next]_vars => WatchInv'
  BY WatchStep
<1>3. WatchInv => InFlightIsWatched
  BY DEF WatchInv
<1> QED
  BY <1>1, <1>2, <1>3, BudgetInvariant, PTL DEF Spec

-----------------------------------------------------------------------------
(***************************************************************************)
(* Only tasks that write $CRONOVA_OUTPUT have output files.                *)
(***************************************************************************)
LEMMA OutputsStep == ASSUME Emits = {}, outputs = {}, [Next]_vars PROVE outputs' = {}
<1> USE DEF execVars
<1>1. ASSUME NEW t, NEW a, AttemptNext(t, a) PROVE outputs' \subseteq outputs
  BY <1>1 DEF AttemptNext, CheckCancelled, Launch, LaunchFails, NoWorker, MarkRunning,
       MarkRunningError, KillLaunched, Poll, CollectOutput
<1>2. ASSUME NEW t, NEW a, ExecutorNext(t, a) PROVE outputs' \subseteq outputs
  BY <1>2 DEF ExecutorNext, ProcExit, WriteOutput, ExecutorLoses
<1>3. CASE RecoverNextStep
  BY <1>3 DEF RecoverNextStep, RecoverQueued, RecoverRunning, RecoverDone, RecoverProbe,
       RecoverProbeError, RecoverFinalize, RecoverReattach, RecoverReset
<1>4. CASE Crash \/ DeadlinePasses \/ Quiet \/ UNCHANGED vars
  BY <1>4 DEF Crash, DeadlinePasses, Quiet, vars
<1> QED
  BY <1>1, <1>2, <1>3, <1>4, TickLeaves, CallLeaves, OpLeaves DEF Next

LEMMA OutputsInvariant == ASSUME Emits = {} PROVE Spec => [](outputs = {})
<1>1. Init => outputs = {}
  BY DEF Init
<1>2. outputs = {} /\ [Next]_vars => (outputs = {})'
  BY OutputsStep
<1> QED
  BY <1>1, <1>2, PTL DEF Spec

(***************************************************************************)
(* The owner of an attempt settles its row when the process of that        *)
(* attempt is over, or its output file exists.                             *)
(***************************************************************************)
LEMMA OwnerSettles ==
  ASSUME RunInv, LockInv, AttemptInv, [Next]_vars, op.kind = "none", NEW u \in Busy,
         ti'[u].state \in {"success", "skipped", "failed", "up_for_retry"}
  PROVE  proc[u][ti[u].ref] # "running" \/ <<u, ti[u].ref>> \in outputs
<1>0. u \in Task /\ ti[u].state \in {"queued", "running"}
  BY DEF Busy
<1>1. ~ByScan(u) /\ ~ByTimeout(u) /\ ~ByCall(u) /\ ~Dispatch(u) /\ ti'[u] # ti[u]
  BY <1>0 DEF ByScan, ByTimeout, ByCall, Dispatch, CanDispatch
<1>2. PICK a \in Attempt : ByOwner(u, a)
  BY <1>0, <1>1, RowSteps DEF RowStep, ByGiveBack
<1>3. ti[u].ref = a
  BY <1>2 DEF ByOwner, Applies
<1>4. CASE LaunchFails(u, a)
  BY <1>0, <1>3, <1>4 DEF LaunchFails, AttemptInv, OneGoroutine
<1>5. CASE Poll(u, a)
  BY <1>3, <1>5 DEF Poll, Finished
<1>6. CASE RecoverFinalize(u) /\ rec.rows[u].ref = a
  BY <1>3, <1>6 DEF RecoverFinalize, AttemptInv, ProbeHolds
<1> QED
  BY <1>2, <1>4, <1>5, <1>6 DEF ByOwner

(***************************************************************************)
(* No success, skip or failure is recorded for an attempt whose process    *)
(* is still running: not by the poller of an older attempt, not by a       *)
(* launch that fails late and not by recovery, whose probe may be old.     *)
(* For tasks with an output file the code records a success on the file    *)
(* alone (recoverFinishedExitCode), which Emits = {} excludes.             *)
(***************************************************************************)
THEOREM OutcomesFollowExits == ASSUME Emits = {} PROVE Spec => OutcomeAfterExit
<1> DEFINE After == \A t \in Task :
                      /\ op.kind = "none"
                      /\ ti[t].state \in {"queued", "running"}
                      /\ ti'[t].state \in {"success", "skipped", "failed", "up_for_retry"}
                      => proc[t][ti[t].ref] # "running"
<1>1. RunInv /\ LockInv /\ AttemptInv /\ outputs = {} /\ [Next]_vars => [After]_vars
  BY OwnerSettles DEF Busy
<1> QED
  BY <1>1, AttemptInvariant, OutputsInvariant, PTL DEF Spec, OutcomeAfterExit

-----------------------------------------------------------------------------
(***************************************************************************)
(* Without operator calls nobody but the tick holds the lock.              *)
(***************************************************************************)
LEMMA NoCalls == ASSUME Ops = {} PROVE Spec => [](op.kind = "none")
<1>1. Init => op.kind = "none"
  BY DEF Init, OpNone
<1>2. RunInv /\ op.kind = "none" /\ [Next]_vars => (op.kind = "none")'
  <2> SUFFICES ASSUME RunInv, op.kind = "none", [Next]_vars PROVE op'.kind = "none"
    OBVIOUS
  <2>1. ~CallNext
    BY DEF CallNext, CancelRun, RetryRun, RetryTask, Retry, MarkRun, SetHeld, MarkTask, CanCall
  <2>2. ~OpNext
    BY DEF RunInv, OpPhase, OpNext, CancelDone, Reactivate, CancelKill, CancelWrite, MarkKill,
           MarkSet, ClearTask
  <2>3. CASE Crash
    BY <2>3 DEF Crash, OpNone
  <2>4. CASE UNCHANGED op
    BY <2>4
  <2> QED
    BY <2>1, <2>2, <2>3, <2>4, TickLeaves, AttemptLeaves, RecoverLeaves
    DEF Next, Quiet, vars, DeadlinePasses
<1> QED
  BY <1>1, <1>2, RunInvariant, PTL DEF Spec
=============================================================================
