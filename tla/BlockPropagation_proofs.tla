---------------------- MODULE BlockPropagation_proofs ----------------------
(***************************************************************************)
(* The propagation loop is right for every number of tasks, every list     *)
(* order, every DAG and every assignment of states: it marks exactly the   *)
(* least closed set, regrets no mark and leaves no task wedged.  These are *)
(* the facts that let RunLifecycle take the loop as one step.              *)
(***************************************************************************)
EXTENDS BlockPropagation, TLAPS

(***************************************************************************)
(* EvalTriggerRule never says both ready and blocked: processRun asks for  *)
(* blocked first, so a task that is both would be failed instead of run.   *)
(***************************************************************************)
THEOREM NeverReadyAndBlocked ==
  ASSUME NEW r \in Rules, NEW ds, NEW s
  PROVE  ~(Ready(r, ds, s) /\ Blocked(r, ds, s))
BY DEF Ready, Blocked, Rules, AllDone, AnySuccess, AnyFailed, AnySkipped,
       TaskTerminal, TaskFailure

(***************************************************************************)
(* EvalTriggerRule is decided once the dependencies are terminal: no rule  *)
(* leaves a task neither ready nor blocked, which would wedge its run.     *)
(***************************************************************************)
THEOREM DecidedWhenDone ==
  ASSUME NEW r \in Rules, NEW ds, NEW s, AllDone(ds, s)
  PROVE  Ready(r, ds, s) \/ Blocked(r, ds, s)
BY DEF Ready, Blocked, Rules, AllDone, AnySuccess, AnyFailed, AnySkipped,
       TaskTerminal, TaskFailure

(***************************************************************************)
(* The marks the loop has made.                                            *)
(***************************************************************************)
Marked == {t \in Task : found[t] = "scheduled" /\ st[t] = "upstream_failed"}

LoopType ==
  /\ deps \in [Task -> SUBSET Task]
  /\ rule \in [Task -> Rules]
  /\ found \in [Task -> TaskState]
  /\ st \in [Task -> TaskState]
  /\ next \in 1..(N + 1)
  /\ changed \in BOOLEAN

(***************************************************************************)
(* The inductive invariant: the states differ from those found only by the *)
(* marks, every mark is still justified and is in every closed set, and    *)
(* the tasks a pass that has marked nothing has visited are not blocked.   *)
(***************************************************************************)
OnlyMarks == st = WithFailed(found, Marked)

MarksAreLeast ==
  \A U \in SUBSET Scheduled(found) : BlockClosed(rule, deps, found, U) => Marked \subseteq U

VisitedNotBlocked ==
  ~changed => \A t \in 1..(next - 1) :
                st[t] = "scheduled" => ~Blocked(rule[t], deps[t], st)

LoopInv ==
  LoopType /\ OnlyMarks /\ MarksStayJustified /\ MarksAreLeast /\ VisitedNotBlocked

(***************************************************************************)
(* Failing more scheduled tasks never unblocks a task: each rule's blocked *)
(* condition is monotone in the marks EvalTriggerRule is shown.            *)
(***************************************************************************)
LEMMA BlockedIsMonotone ==
  ASSUME NEW T, NEW s \in [T -> TaskState], NEW ds \in SUBSET T, NEW r \in Rules,
         NEW U \in SUBSET Scheduled(s), NEW V \in SUBSET Scheduled(s), U \subseteq V,
         Blocked(r, ds, WithFailed(s, U))
  PROVE  Blocked(r, ds, WithFailed(s, V))
<1> DEFINE u == WithFailed(s, U)
           v == WithFailed(s, V)
<1>1. /\ \A d \in ds : u[d] \in TaskFailure => v[d] \in TaskFailure
      /\ \A d \in ds : u[d] \in TaskTerminal => v[d] = u[d]
      /\ \A d \in ds : v[d] \in TaskFailure \/ v[d] = u[d]
  BY DEF WithFailed, Scheduled, TaskFailure, TaskTerminal
<1>2. AllDone(ds, u) => AllDone(ds, v) /\ \A d \in ds : v[d] = u[d]
  BY <1>1 DEF AllDone
<1>3. AnyFailed(ds, u) => AnyFailed(ds, v)
  BY <1>1 DEF AnyFailed
<1>4. (AnySuccess(ds, u) => AnySuccess(ds, v)) /\ (AnySkipped(ds, u) => AnySkipped(ds, v))
  BY <1>1 DEF AnySuccess, AnySkipped, TaskTerminal
<1>5. AllDone(ds, u) /\ ~AnySuccess(ds, u) => ~AnySuccess(ds, v)
  BY <1>2 DEF AnySuccess
<1>6. AllDone(ds, u) /\ ~AnyFailed(ds, u) => ~AnyFailed(ds, v)
  BY <1>2 DEF AnyFailed
<1> QED
  BY <1>2, <1>3, <1>4, <1>5, <1>6 DEF Blocked, Rules


(***************************************************************************)
(* In terms of the loop: the states are those found with the marks, so     *)
(* what is blocked under them stays blocked in every larger set of marks.  *)
(***************************************************************************)
LEMMA MarksAreScheduled == LoopType => Marked \in SUBSET Scheduled(found)
BY DEF LoopType, Marked, Scheduled

LEMMA InitEstablishesLoopInv == Init => LoopInv
<1> SUFFICES ASSUME Init PROVE LoopInv
  OBVIOUS
<1>1. LoopType
  <2>1. next \in 1..(N + 1)
    BY SizeAssumption DEF Init
  <2>2. found \in [Task -> TaskState] /\ st \in [Task -> TaskState]
    BY StartAssumption DEF Init
  <2> QED
    BY <2>1, <2>2 DEF Init, LoopType
<1>2. Marked = {}
  BY DEF Init, Marked
<1>3. OnlyMarks
  BY <1>1, <1>2 DEF Init, OnlyMarks, WithFailed, LoopType
<1>4. MarksStayJustified
  BY <1>1 DEF Init, MarksStayJustified
<1> QED
  BY <1>1, <1>2, <1>3, <1>4 DEF LoopInv, MarksAreLeast, VisitedNotBlocked, Init

(***************************************************************************)
(* A visit that marks: the new mark is justified, is in every closed set,  *)
(* and leaves the earlier marks justified.                                 *)
(***************************************************************************)
LEMMA VisitKeepsLoopInv == LoopInv /\ Visit => LoopInv'
<1> SUFFICES ASSUME LoopInv, Visit PROVE LoopInv'
  OBVIOUS
<1> USE DEF LoopInv
<1> DEFINE hit == st[next] = "scheduled" /\ Blocked(rule[next], deps[next], st)
<1>1. /\ next \in Task
      /\ st' = IF hit THEN [st EXCEPT ![next] = "upstream_failed"] ELSE st
      /\ changed' = (changed \/ hit)
      /\ next' = next + 1
      /\ UNCHANGED <<deps, rule, found>>
  BY SizeAssumption DEF Visit, LoopType, Task
<1>2. LoopType'
  BY <1>1, SizeAssumption DEF LoopType, TaskState, TaskTerminal, TaskFailure, Task
<1>3. CASE hit
  <2>1. found[next] = "scheduled" /\ next \notin Marked
    BY <1>1, <1>3 DEF OnlyMarks, WithFailed, Marked, LoopType
  <2>2. Marked' = Marked \cup {next}
    BY <1>1, <1>3, <2>1 DEF Marked, LoopType
  <2>3. OnlyMarks'
    BY <1>1, <1>3, <2>1, <2>2 DEF OnlyMarks, WithFailed, LoopType
  <2>4. /\ Marked \in SUBSET Scheduled(found)
        /\ Marked' \in SUBSET Scheduled(found)
        /\ Marked \subseteq Marked'
    BY <1>1, <2>1, <2>2, MarksAreScheduled DEF Scheduled, LoopType
  <2>5. \A t \in Task : Blocked(rule[t], deps[t], st) => Blocked(rule[t], deps[t], st')
    <3> TAKE t \in Task
    <3> HAVE Blocked(rule[t], deps[t], st)
    <3>1. st = WithFailed(found, Marked) /\ st' = WithFailed(found, Marked')
      BY <1>1, <2>3 DEF OnlyMarks
    <3> HIDE DEF LoopInv
    <3>2. deps[t] \in SUBSET Task /\ rule[t] \in Rules /\ found \in [Task -> TaskState]
      BY DEF LoopInv, LoopType
    <3>3. Blocked(rule[t], deps[t], WithFailed(found, Marked'))
      BY <2>4, <3>1, <3>2, BlockedIsMonotone
    <3> QED
      BY <3>1, <3>3
  <2>6. MarksStayJustified'
    BY <1>1, <1>3, <2>2, <2>5 DEF MarksStayJustified, Marked, LoopType
  <2>7. MarksAreLeast'
    <3> SUFFICES ASSUME NEW U \in SUBSET Scheduled(found), BlockClosed(rule, deps, found, U)
                 PROVE  next \in U
      BY <1>1, <2>2 DEF MarksAreLeast
    <3>1. Marked \subseteq U
      BY DEF MarksAreLeast
    <3>2. Blocked(rule[next], deps[next], WithFailed(found, Marked))
      BY <1>3 DEF OnlyMarks
    <3>3. deps[next] \in SUBSET Task /\ rule[next] \in Rules /\ found \in [Task -> TaskState]
      BY <1>1 DEF LoopType
    <3>4. Blocked(rule[next], deps[next], WithFailed(found, U))
      BY <2>4, <3>1, <3>2, <3>3, BlockedIsMonotone
    <3>5. next \in Scheduled(found)
      BY <1>1, <2>1 DEF Scheduled, LoopType
    <3> QED
      BY <3>4, <3>5 DEF BlockClosed
  <2>8. VisitedNotBlocked'
    BY <1>1, <1>3 DEF VisitedNotBlocked
  <2> QED
    BY <1>2, <2>3, <2>6, <2>7, <2>8
<1>4. CASE ~hit
  <2>1. st' = st /\ Marked' = Marked
    BY <1>1, <1>4 DEF Marked
  <2>2. OnlyMarks' /\ MarksStayJustified' /\ MarksAreLeast'
    BY <1>1, <2>1 DEF OnlyMarks, MarksStayJustified, MarksAreLeast
  <2>3. VisitedNotBlocked'
    BY <1>1, <1>4, <2>1 DEF VisitedNotBlocked, LoopType, Task
  <2> QED
    BY <1>2, <2>2, <2>3
<1> QED
  BY <1>3, <1>4

LEMMA NextPassKeepsLoopInv == LoopInv /\ NextPass => LoopInv'
<1> SUFFICES ASSUME LoopInv, NextPass PROVE LoopInv'
  OBVIOUS
<1>1. LoopType'
  <2>1. next' \in 1..(N + 1)
    BY SizeAssumption DEF NextPass
  <2> QED
    BY <2>1 DEF LoopInv, LoopType, NextPass
<1>2. Marked' = Marked /\ UNCHANGED <<deps, rule, found, st>>
  BY DEF NextPass, Marked
<1>3. OnlyMarks' /\ MarksStayJustified' /\ MarksAreLeast'
  BY <1>2 DEF LoopInv, OnlyMarks, MarksStayJustified, MarksAreLeast
<1>4. VisitedNotBlocked'
  BY DEF NextPass, VisitedNotBlocked
<1> QED
  BY <1>1, <1>3, <1>4 DEF LoopInv

LEMMA LoopInvariant == Spec => []LoopInv
<1>1. LoopInv /\ [Next]_vars => LoopInv'
  <2> SUFFICES ASSUME LoopInv, [Next]_vars PROVE LoopInv'
    OBVIOUS
  <2>1. CASE UNCHANGED vars
    BY <2>1 DEF vars, LoopInv, LoopType, OnlyMarks, MarksStayJustified, MarksAreLeast,
                VisitedNotBlocked, Marked
  <2> QED
    BY <2>1, VisitKeepsLoopInv, NextPassKeepsLoopInv DEF Next, Terminated
<1> QED
  BY <1>1, InitEstablishesLoopInv, PTL DEF Spec

(***************************************************************************)
(* A mark of the propagation loop is never regretted, for every DAG.       *)
(***************************************************************************)
THEOREM MarksAreJustified == Spec => []MarksStayJustified
<1>1. LoopInv => MarksStayJustified
  BY DEF LoopInv
<1> QED
  BY <1>1, LoopInvariant, PTL

(***************************************************************************)
(* When the loop ends, a scheduled task whose upstream tasks are terminal  *)
(* may be dispatched, for every DAG: no run is wedged by its rules.        *)
(***************************************************************************)
THEOREM LoopLeavesNoTaskWedged == Spec => []NoTaskWedged
<1>1. LoopInv => NoTaskWedged
  <2> SUFFICES ASSUME LoopInv, Done, NEW t \in Task, st[t] = "scheduled",
                      AllDone(deps[t], st)
               PROVE  Ready(rule[t], deps[t], st)
    BY DEF NoTaskWedged
  <2>1. ~Blocked(rule[t], deps[t], st)
    BY SizeAssumption DEF LoopInv, VisitedNotBlocked, Done, Task
  <2>2. rule[t] \in Rules
    BY DEF LoopInv, LoopType
  <2> QED
    BY <2>1, <2>2, DecidedWhenDone
<1> QED
  BY <1>1, LoopInvariant, PTL

(***************************************************************************)
(* The passes of processRun's propagation loop mark exactly the least      *)
(* closed set of blocked tasks, for every DAG and every list order.        *)
(***************************************************************************)
THEOREM LoopComputesLeast == Spec => []LoopFindsLeast
<1>1. LoopInv => LoopFindsLeast
  <2> SUFFICES ASSUME LoopInv, Done PROVE st = WithFailed(found, BlockedTasks(rule, deps, found))
    BY DEF LoopFindsLeast
  <2>1. st = WithFailed(found, Marked)
    BY DEF LoopInv, OnlyMarks
  <2>2. Marked \in SUBSET Scheduled(found)
    BY MarksAreScheduled DEF LoopInv
  <2>3. BlockClosed(rule, deps, found, Marked)
    <3> SUFFICES ASSUME NEW t \in Scheduled(found),
                        Blocked(rule[t], deps[t], WithFailed(found, Marked))
                 PROVE  t \in Marked
      BY DEF BlockClosed
    <3>1. t \in Task /\ found[t] = "scheduled"
      BY DEF Scheduled, LoopInv, LoopType
    <3>2. st[t] # "scheduled"
      BY <2>1, <3>1, SizeAssumption DEF LoopInv, VisitedNotBlocked, Done, Task
    <3> QED
      BY <2>1, <3>1, <3>2 DEF WithFailed, LoopInv, LoopType
  <2>4. Marked = BlockedTasks(rule, deps, found)
    BY <2>2, <2>3 DEF BlockedTasks, LoopInv, MarksAreLeast
  <2> QED
    BY <2>1, <2>4
<1> QED
  BY <1>1, LoopInvariant, PTL
=============================================================================
