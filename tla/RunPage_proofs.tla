--------------------------- MODULE RunPage_proofs ---------------------------
(***************************************************************************)
(* The run page, for every number of runs, tasks, pages opened and         *)
(* requests outstanding: no log stream is left open, and while answers     *)
(* come in the order of the questions the page shows one run.              *)
(***************************************************************************)
EXTENDS RunPageProperties, TLAPS

LeakInv == opened \in [Stream -> Nat] /\ NoStreamLeaks

(* the four things a handler does to the streams; closeLog comes first in each *)
Opens == \E s : ShowLog(s)
OpensAll ==
  \E all : /\ logESAll' = all
           /\ opened' = [s \in Stream |-> IF s \in all THEN Closed[s] + 1 ELSE Closed[s]]
Ends == \E s \in Stream :
  /\ opened[s] > 0 /\ opened' = [opened EXCEPT ![s] = @ - 1]
  /\ UNCHANGED <<logES, logESAll>>
LogStep == UNCHANGED logs \/ CloseLog \/ Opens \/ OpensAll \/ Ends

(* nothing the console does not hold is open, so closeLog closes everything *)
LEMMA ClosedIsEmpty ==
  ASSUME LeakInv
  PROVE  Closed = [s \in Stream |-> 0]
<1>1. \A s \in Stream : (IF opened[s] > 0 /\ (s = logES \/ s \in logESAll)
                         THEN opened[s] - 1 ELSE opened[s]) = 0
  BY DEF LeakInv, NoStreamLeaks
<1> QED BY <1>1 DEF Closed

LEMMA LogStepKeeps ==
  ASSUME LeakInv, LogStep
  PROVE  LeakInv'
<1>1. Closed = [s \in Stream |-> 0] BY ClosedIsEmpty
<1>2. CASE UNCHANGED logs BY <1>2 DEF LeakInv, NoStreamLeaks, logs, Stream
<1>3. CASE CloseLog
  <2>1. opened' = [s \in Stream |-> 0] BY <1>1, <1>3 DEF CloseLog
  <2> QED BY <2>1 DEF LeakInv, NoStreamLeaks, Stream
<1>4. CASE Opens
  <2>1. PICK s : logES' = s /\ opened' = [Closed EXCEPT ![s] = @ + 1]
    BY <1>4 DEF Opens, ShowLog
  <2>2. /\ opened' \in [Stream -> Nat]
        /\ \A q \in Stream : opened'[q] > 0 => opened'[q] = 1 /\ q = s
    <3> DEFINE none == [q \in Stream |-> 0]
    <3>1. none \in [Stream -> Nat] /\ \A q \in Stream : none[q] = 0 OBVIOUS
    <3>2. opened' = [none EXCEPT ![s] = @ + 1] BY <1>1, <2>1
    <3> HIDE DEF none
    <3>3. \A q \in Stream : opened'[q] = IF q = s THEN 1 ELSE 0 BY <3>1, <3>2
    <3>4. opened' \in [Stream -> Nat]
      <4>1. CASE s \in Stream
        <5>1. none[s] + 1 \in Nat BY <3>1, <4>1
        <5> QED BY <3>1, <3>2, <4>1, <5>1
      <4>2. CASE s \notin Stream BY <3>1, <3>2, <4>2
      <4> QED BY <4>1, <4>2
    <3> QED BY <3>3, <3>4
  <2> QED BY <2>1, <2>2 DEF LeakInv, NoStreamLeaks, Stream
<1>5. CASE OpensAll
  <2>1. PICK all : /\ logESAll' = all
                   /\ opened' = [s \in Stream |-> IF s \in all THEN Closed[s] + 1 ELSE Closed[s]]
    BY <1>5 DEF OpensAll
  <2>2. opened' = [s \in Stream |-> IF s \in all THEN 1 ELSE 0] BY <1>1, <2>1
  <2> QED BY <2>1, <2>2 DEF LeakInv, NoStreamLeaks, Stream
<1>6. CASE Ends
  <2>1. PICK s \in Stream : /\ opened[s] > 0 /\ opened' = [opened EXCEPT ![s] = @ - 1]
                            /\ UNCHANGED <<logES, logESAll>>
    BY <1>6 DEF Ends
  <2>2. opened' \in [Stream -> Nat] BY <2>1 DEF LeakInv
  <2>3. \A q \in Stream : opened'[q] > 0 => opened'[q] = 1 /\ (q = logES' \/ q \in logESAll')
    BY <2>1 DEF LeakInv, NoStreamLeaks
  <2> QED BY <2>2, <2>3 DEF LeakInv, NoStreamLeaks, Stream
<1> QED BY <1>2, <1>3, <1>4, <1>5, <1>6 DEF LogStep

LEMMA FollowLogStep == ASSUME NEW scr, NEW t, FollowLog(scr, t) PROVE LogStep
BY Zenon DEF FollowLog, LogStep, Opens

(* every action is one of the four, or leaves the streams alone *)
LEMMA EveryStep == ASSUME [Next]_vars PROVE LogStep
<1>1. ASSUME NEW r, NEW m, ShowRun(r, m) PROVE LogStep BY <1>1 DEF ShowRun, LogStep
<1>2. ASSUME NEW t \in Task, LogButton(t) PROVE LogStep
  BY <1>2, Zenon DEF LogButton, LogStep, Opens
<1>3. ASSUME NEW t \in Task, PinStep(t) PROVE LogStep
  BY <1>3, FollowLogStep, Zenon DEF PinStep
<1>4. CASE ShowAllLogs BY <1>4, Zenon DEF ShowAllLogs, LogStep, OpensAll
<1>5. CASE Leave BY <1>5, Zenon DEF Leave, LogStep
<1>6. CASE DropOp \/ ConfirmOp \/ PaintOther \/ ServeOp
  BY <1>6, Zenon DEF DropOp, ConfirmOp, PaintOther, ServeOp, LogStep
<1>7. ASSUME NEW k, AskOp(k) PROVE LogStep BY <1>7, Zenon DEF AskOp, LogStep
<1>8. CASE SetMode BY <1>1, <1>8, Zenon DEF SetMode
<1>9. ASSUME NEW r \in Run, OpenRun(r) PROVE LogStep BY <1>1, <1>9, Zenon DEF OpenRun
<1>10. CASE OpReturns
  <2>1. UNCHANGED logs \/ ShowRun(op.run, mode) BY <1>10, Zenon DEF OpReturns
  <2> QED BY <1>1, <2>1, Zenon DEF LogStep
<1>11. ASSUME NEW l, RunFetched(l) \/ RunNotFetched(l) PROVE LogStep
  BY <1>11, Zenon DEF RunFetched, RunNotFetched, LogStep
<1>12. ASSUME NEW l, PaintExpert(l) PROVE LogStep
  BY <1>12, Zenon DEF PaintExpert, LogStep, Opens
<1>13. ASSUME NEW l, PaintNovice(l) PROVE LogStep
  BY <1>13, FollowLogStep, Zenon DEF PaintNovice
<1>14. ASSUME NEW p, PollSteps(p) PROVE LogStep
  <2>1. CASE PollTick(p) \/ \E a \in Asks : PollAnswered(p, a) \/ PollFails(p, a)
    BY <2>1, Zenon DEF PollTick, PollAnswered, PollFails, LogStep
  <2>2. ASSUME NEW a \in Asks, PollRender(p, a) PROVE LogStep
    BY <2>2, FollowLogStep, Zenon DEF PollRender, LogStep
  <2> QED BY <1>14, <2>1, <2>2, Zenon DEF PollSteps, PollData
<1>15. ASSUME NEW s \in Stream, StreamEnds(s) PROVE LogStep
  BY <1>15, Zenon DEF StreamEnds, LogStep, Ends
<1>16. ASSUME NEW r \in Run, Progress(r) PROVE LogStep BY <1>16, Zenon DEF Progress, LogStep
<1>17. CASE UNCHANGED vars BY <1>17, Zenon DEF vars, LogStep
<1>18. CASE User BY <1>2, <1>3, <1>4, <1>5, <1>6, <1>7, <1>8, <1>9, <1>18, Zenon DEF User
<1>19. CASE Console BY <1>6, <1>10, <1>11, <1>12, <1>13, <1>14, <1>19, Zenon DEF Console
<1>20. CASE Server BY <1>6, <1>15, <1>16, <1>20, Zenon DEF Server
<1> QED BY <1>17, <1>18, <1>19, <1>20 DEF Next

(* Every open stream is one closeLog still closes, and none is open twice (showLog,
   showAllLogs, nvOpenLog and closeLog), however pages, logs, polls and calls
   follow one another. *)
THEOREM StreamsAreHeld == Spec => []NoStreamLeaks
<1>1. Init => LeakInv BY DEF Init, LeakInv, NoStreamLeaks
<1>2. LeakInv /\ [Next]_vars => LeakInv' BY EveryStep, LogStepKeeps
<1>3. LeakInv => NoStreamLeaks BY DEF LeakInv
<1> QED BY <1>1, <1>2, <1>3, PTL DEF Spec

-----------------------------------------------------------------------------
(* The page and its run.  The generation counter tells the interval of the page
   that is open from the intervals of earlier ones: while a page loads no interval
   has its generation, and the interval it starts has the run it paints. *)

IsPoll(p) == p = [run |-> p.run, gen |-> p.gen, mode |-> p.mode, on |-> p.on, asks |-> p.asks]

GenInv ==
  /\ runPollGen \in Nat
  /\ \A p \in polls : IsPoll(p) /\ p.gen \in Nat /\ p.gen <= runPollGen
  /\ \A l, m \in loads : l.gen = runPollGen /\ m = l
  /\ loads # {} => op = NoOp /\ \A p \in polls : p.gen # runPollGen

(* the intervals are those of before, or moved on *)
SamePolls ==
  \A q \in polls' : IsPoll(q) /\ \E p \in polls : q.run = p.run /\ q.gen = p.gen

LEMMA ClearedPolls ==
  ASSUME GenInv, NEW g, polls' = Cleared(polls, g)
  PROVE  SamePolls
<1> SUFFICES ASSUME NEW q \in polls' PROVE IsPoll(q) /\ \E p \in polls : q.run = p.run /\ q.gen = p.gen
  BY DEF SamePolls
<1>1. PICK p \in polls : q = IF p.gen = g THEN [p EXCEPT !.on = FALSE] ELSE p
  BY DEF Cleared, Kept
<1>2. IsPoll(p)
  BY DEF GenInv
<1> QED
  BY <1>1, <1>2 DEF IsPoll

LEMMA WithPolls ==
  ASSUME GenInv, NEW p \in polls, NEW q, IsPoll(q), q.run = p.run, q.gen = p.gen, polls' = With(p, q)
  PROVE  SamePolls
BY DEF SamePolls, With, Kept, GenInv

LEMMA AskIsPoll ==
  \A p, a, st : IsPoll(p) =>
    /\ IsPoll(Ask(p, a, st))
    /\ Ask(p, a, st).run = p.run /\ Ask(p, a, st).gen = p.gen
BY DEF IsPoll, Ask

LEMMA SwitchIsPoll ==
  \A p, on : IsPoll(p) =>
    /\ IsPoll([p EXCEPT !.on = on])
    /\ [p EXCEPT !.on = on].run = p.run /\ [p EXCEPT !.on = on].gen = p.gen
BY DEF IsPoll

(* what the steps of an interval do to it *)
LEMMA PollStepsKeep ==
  ASSUME GenInv, NEW p \in polls, PollSteps(p)
  PROVE  SamePolls /\ UNCHANGED <<srv, nav, runPollGen, runPoll, loads, op, clicks>>
<1>0. IsPoll(p)
  BY DEF GenInv
<1>1. CASE PollTick(p)
  <2>1. ASSUME polls' = With(p, [p EXCEPT !.on = FALSE]) PROVE SamePolls
    <3> DEFINE q == [p EXCEPT !.on = FALSE]
    <3>1. IsPoll(q) /\ q.run = p.run /\ q.gen = p.gen
      BY <1>0, SwitchIsPoll, Zenon
    <3>2. polls' = With(p, q)
      BY <2>1
    <3> HIDE DEF q
    <3> QED
      BY <3>1, <3>2, WithPolls
  <2>2. ASSUME NEW a \in Asks, polls' = With(p, Ask(p, a, [st |-> "sent"])) PROVE SamePolls
    BY <1>0, <2>2, AskIsPoll, WithPolls
  <2> QED
    BY <1>1, <2>1, <2>2 DEF PollTick
<1>2. ASSUME NEW a \in Asks, PollAnswered(p, a) PROVE SamePolls
  BY <1>0, <1>2, AskIsPoll, WithPolls DEF PollAnswered
<1>3. ASSUME NEW a \in Asks, PollFails(p, a) PROVE SamePolls
  BY <1>0, <1>3, AskIsPoll, WithPolls DEF PollFails
<1>4. ASSUME NEW a \in Asks, PollRender(p, a) PROVE SamePolls
  <2> DEFINE q == Ask(p, a, NoAsk)
  <2>1. \/ polls' = With(p, q) \/ polls' = With(p, [q EXCEPT !.on = FALSE])
        \/ polls' = With(p, [q EXCEPT !.on = q.on /\ p.asks[a].data.live])
    BY <1>4, Zenon DEF PollRender
  <2>2. IsPoll(q) /\ q.run = p.run /\ q.gen = p.gen
    BY <1>0, AskIsPoll, Zenon
  <2> HIDE DEF q
  <2>3. \A on : /\ IsPoll([q EXCEPT !.on = on])
                /\ [q EXCEPT !.on = on].run = p.run /\ [q EXCEPT !.on = on].gen = p.gen
    BY <2>2, SwitchIsPoll, Zenon
  <2> QED
    BY <2>1, <2>2, <2>3, WithPolls
<1> QED
  BY <1>1, <1>2, <1>3, <1>4
  DEF PollSteps, PollData, PollTick, PollAnswered, PollFails, PollRender

(* showRun supersedes every interval, and its load is the only one *)
LEMMA ShowRunKeeps ==
  ASSUME GenInv, loads = {}, NEW r, NEW m, ShowRun(r, m), op' = NoOp
  PROVE  GenInv'
<1>1. SamePolls
  BY ClearedPolls DEF ShowRun
<1>2. runPollGen' = runPollGen + 1 /\ \A q \in polls' : IsPoll(q) /\ q.gen \in Nat /\ q.gen <= runPollGen
  BY <1>1 DEF SamePolls, GenInv, ShowRun
<1>3. loads' = {[run |-> r, gen |-> runPollGen + 1, mode |-> m, pc |-> "run"]}
  BY DEF ShowRun
<1> QED
  BY <1>2, <1>3 DEF GenInv

(* the interval a painted page starts has the page's generation and run *)
NewPoll(l) ==
  \A q \in polls' : \/ q \in polls
                    \/ IsPoll(q) /\ q.gen = l.gen /\ q.run = l.run

LEMMA StartPollKeeps == ASSUME NEW l, StartPoll(l) PROVE NewPoll(l)
<1>1. CASE UNCHANGED polls
  BY <1>1 DEF NewPoll
<1>2. CASE polls' = polls \cup {[run |-> l.run, gen |-> l.gen, mode |-> l.mode,
                                on |-> TRUE, asks |-> [a \in Asks |-> NoAsk]]}
  BY <1>2 DEF NewPoll, IsPoll
<1> QED
  BY <1>1, <1>2 DEF StartPoll

LEMMA PaintKeeps ==
  ASSUME GenInv, NEW l \in loads, NewPoll(l), loads' = loads \ {l}, UNCHANGED <<runPollGen, op>>
  PROVE  GenInv' /\ loads' = {}
<1>1. l.gen = runPollGen /\ loads' = {} /\ runPollGen \in Nat
  BY DEF GenInv
<1> QED
  BY <1>1 DEF GenInv, NewPoll

LEMMA GenStep == ASSUME Overlap = FALSE, GenInv, [Next]_vars PROVE GenInv'
<1>1. ASSUME UNCHANGED <<polls, runPollGen, loads>>, loads = {} \/ op' = op PROVE GenInv'
  BY <1>1 DEF GenInv, IsPoll
<1>2. ASSUME NEW p \in polls, PollSteps(p) PROVE GenInv'
  <2>1. SamePolls /\ UNCHANGED <<runPollGen, loads, op>>
    BY <1>2, PollStepsKeep
  <2> QED
    BY <2>1 DEF GenInv, SamePolls
<1>3. ASSUME NEW l \in loads, RunFetched(l) PROVE GenInv'
  <2> DEFINE m == [run |-> l.run, gen |-> l.gen, mode |-> l.mode, pc |-> "dag", data |-> srv[l.run]]
  <2>1. loads' = {m} /\ m.gen = runPollGen
    BY <1>3 DEF RunFetched, GenInv
  <2>2. op = NoOp /\ UNCHANGED <<polls, runPollGen, op>>
    BY <1>3 DEF RunFetched, GenInv, timers
  <2> HIDE DEF m
  <2> QED
    BY <2>1, <2>2 DEF GenInv, IsPoll
<1>4. ASSUME NEW l \in loads, RunNotFetched(l) PROVE GenInv'
  BY <1>4 DEF RunNotFetched, GenInv, timers, IsPoll
<1>5. ASSUME NEW l \in loads, PaintExpert(l) \/ PaintNovice(l) PROVE GenInv'
  <2>1. NewPoll(l) /\ loads' = loads \ {l} /\ UNCHANGED <<runPollGen, op>>
    BY <1>5, StartPollKeeps DEF PaintExpert, PaintNovice
  <2> QED
    BY <2>1, PaintKeeps
<1>6. ASSUME NEW r, OpenRun(r) PROVE GenInv'
  BY <1>6, ShowRunKeeps DEF OpenRun, MayShow
<1>7. CASE SetMode
  BY <1>7, ShowRunKeeps DEF SetMode, MayShow
<1>8. CASE OpReturns
  <2>1. loads = {} /\ op' = NoOp
    BY <1>8 DEF OpReturns, NoOp, GenInv
  <2>2. ShowRun(op.run, mode) \/ UNCHANGED <<polls, runPollGen, loads>>
    BY <1>8 DEF OpReturns, timers
  <2> QED
    BY <1>1, <2>1, <2>2, ShowRunKeeps
<1>9. ASSUME NEW k, AskOp(k) PROVE GenInv'
  BY <1>1, <1>9 DEF AskOp, timers
<1>10. CASE DropOp \/ ConfirmOp \/ ServeOp
  <2>1. loads = {}
    BY <1>10 DEF DropOp, ConfirmOp, ServeOp, NoOp, GenInv
  <2> QED
    BY <1>1, <1>10, <2>1 DEF DropOp, ConfirmOp, ServeOp, timers
<1>11. ASSUME NEW t, LogButton(t) \/ PinStep(t) PROVE GenInv'
  BY <1>1, <1>11 DEF LogButton, PinStep, timers
<1>12. CASE ShowAllLogs \/ Leave \/ PaintOther
  BY <1>1, <1>12 DEF ShowAllLogs, Leave, PaintOther, timers
<1>13. ASSUME NEW s, StreamEnds(s) \/ Progress(s) PROVE GenInv'
  BY <1>1, <1>13 DEF StreamEnds, Progress, timers
<1>14. CASE UNCHANGED vars
  BY <1>1, <1>14 DEF vars, timers
<1> QED
  BY <1>2, <1>3, <1>4, <1>5, <1>6, <1>7, <1>8, <1>9, <1>10, <1>11, <1>12, <1>13, <1>14, Zenon
  DEF Next, User, Console, Server

(* the records the two renderings keep on the screen *)
IsExpert(scr) == {"shell", "run", "of"} \subseteq DOMAIN scr
IsNovice(scr) == {"shell", "run", "of", "cur"} \subseteq DOMAIN scr

StreamsOf(r) == \A s \in Stream : opened[s] > 0 => s[1] = r
PollsOf(r) == \A p \in polls : p.gen = runPollGen => p.run = r

PageInv ==
  /\ screen.shell = "expert" => IsExpert(screen) /\ runDataCache = screen.run
  /\ screen.shell = "novice" => IsNovice(screen)
  /\ OnRunPage => screen.of = screen.run /\ PollsOf(screen.run) /\ StreamsOf(screen.run)

LEMMA ClosedStreams == ASSUME LeakInv, CloseLog, NEW r PROVE StreamsOf(r)'
BY ClosedIsEmpty DEF CloseLog, StreamsOf, Stream

LEMMA ShownStreams ==
  ASSUME LeakInv, NEW r, NEW t, ShowLog(<<r, t>>)
  PROVE  StreamsOf(r)'
<1> DEFINE none == [q \in Stream |-> 0]
<1>1. opened' = [none EXCEPT ![<<r, t>>] = @ + 1]
  BY ClosedIsEmpty DEF ShowLog
<1>2. none \in [Stream -> Nat] /\ \A q \in Stream : none[q] = 0
  OBVIOUS
<1> HIDE DEF none
<1>3. \A q \in Stream : opened'[q] = IF q = <<r, t>> THEN 1 ELSE 0
  BY <1>1, <1>2
<1>4. \A q \in Stream : opened'[q] > 0 => q = <<r, t>>
  BY <1>3
<1> QED
  BY <1>4 DEF StreamsOf, Stream

(* what a rendering of the novice page keeps of the screen it is given *)
Moved(new, scr) ==
  /\ IsNovice(new)
  /\ new.shell = scr.shell /\ new.run = scr.run /\ new.of = scr.of /\ new.cur = scr.cur

LEMMA RenderKeeps ==
  \A scr, data, force, defer :
    IsNovice(scr) => Moved(RenderNovRun(scr, data, force, defer), scr)
<1>0. SUFFICES ASSUME NEW scr, NEW data, NEW force, NEW defer, IsNovice(scr)
               PROVE  Moved(RenderNovRun(scr, data, force, defer), scr)
  OBVIOUS
<1> DEFINE rebuild == /\ scr.steps.rows # data.rows \/ scr.steps.pin # scr.pin
                      /\ force \/ ~data.live \/ ~defer
           steps == IF rebuild THEN [rows |-> data.rows, pin |-> scr.pin, from |-> data]
                    ELSE scr.steps
           new == RenderNovRun(scr, data, force, defer)
<1>1. new = [scr EXCEPT !.shown = data, !.steps = steps]
  BY Zenon DEF RenderNovRun
<1> HIDE DEF new, rebuild, steps
<1>2. Moved(new, scr)
  BY <1>0, <1>1 DEF Moved, IsNovice
<1> QED
  BY <1>2 DEF new

LEMMA FollowKeeps ==
  ASSUME LeakInv, NEW scr, IsNovice(scr), NEW t, FollowLog(scr, t),
         StreamsOf(scr.run) \/ scr.cur # t
  PROVE  /\ IsNovice(screen') /\ screen'.shell = scr.shell
         /\ screen'.run = scr.run /\ screen'.of = scr.of
         /\ StreamsOf(scr.run)'
<1>1. screen' = [scr EXCEPT !.cur = t]
  BY DEF FollowLog
<1>2. /\ IsNovice(screen') /\ screen'.shell = scr.shell
      /\ screen'.run = scr.run /\ screen'.of = scr.of
  BY <1>1 DEF IsNovice
<1>3. CASE scr.cur # t
  BY <1>2, <1>3, ShownStreams DEF FollowLog
<1>4. CASE scr.cur = t
  BY <1>2, <1>4 DEF FollowLog, logs, StreamsOf
<1> QED
  BY <1>2, <1>3, <1>4

LEMMA PageStep ==
  ASSUME Overlap = FALSE, GenInv, LeakInv, PageInv, [Next]_vars
  PROVE  PageInv'
<1>0. runPollGen \in Nat
  BY DEF GenInv
<1> PICK here : here = screen.run
  OBVIOUS
<1>1. ASSUME SamePolls, UNCHANGED runPollGen, NEW r, PollsOf(r) PROVE PollsOf(r)'
  BY <1>1 DEF SamePolls, PollsOf
<1>2. ASSUME UNCHANGED polls, UNCHANGED runPollGen, NEW r, PollsOf(r) PROVE PollsOf(r)'
  BY <1>2 DEF PollsOf
<1>3. ASSUME UNCHANGED shell, PollsOf(here) => PollsOf(here)', StreamsOf(here) => StreamsOf(here)'
      PROVE  PageInv'
  BY <1>3 DEF PageInv, shell, IsExpert, IsNovice, OnRunPage
<1>4. ASSUME UNCHANGED <<screen, runDataCache, logs, polls, runPollGen>> PROVE PageInv'
  BY <1>4 DEF PageInv, logs, IsExpert, IsNovice, OnRunPage, PollsOf, StreamsOf
<1>5. ASSUME screen'.shell \notin {"expert", "novice"} PROVE PageInv'
  BY <1>5 DEF PageInv, OnRunPage
<1>6. ASSUME NEW r, NEW m, ShowRun(r, m), UNCHANGED shell PROVE PageInv'
  <2>1. \A x : StreamsOf(x)'
    BY <1>6, ClosedStreams DEF ShowRun
  <2>2. SamePolls /\ runPollGen' = runPollGen + 1
    BY <1>6, ClearedPolls DEF ShowRun
  <2>3. \A x : PollsOf(x)'
    BY <1>0, <2>2 DEF SamePolls, PollsOf, GenInv
  <2> QED
    BY <1>3, <1>6, <2>1, <2>3
<1>7. ASSUME NEW r \in Run, OpenRun(r) PROVE PageInv'
  BY <1>6, <1>7 DEF OpenRun
<1>8. CASE SetMode
  BY <1>6, <1>8 DEF SetMode
<1>9. CASE OpReturns
  <2>1. UNCHANGED shell /\ (ShowRun(op.run, mode) \/ UNCHANGED <<timers, logs>>)
    BY <1>9 DEF OpReturns
  <2> QED
    BY <1>4, <1>6, <2>1 DEF shell, timers
<1>10. CASE Leave
  <2>1. \A x : StreamsOf(x)'
    BY <1>10, ClosedStreams DEF Leave
  <2> QED
    BY <1>2, <1>3, <1>10, <2>1 DEF Leave, timers
<1>11. CASE PaintOther
  <2>1. screen' = Blank \/ UNCHANGED screen
    BY <1>11 DEF PaintOther
  <2> QED
    BY <1>4, <1>5, <1>11, <2>1 DEF PaintOther, Blank, timers
<1>12. ASSUME NEW t \in Task, LogButton(t) PROVE PageInv'
  <2>1. ShowLog(<<here, t>>) /\ UNCHANGED <<shell, timers>>
    BY <1>12 DEF LogButton
  <2>2. StreamsOf(here)'
    BY <2>1, ShownStreams
  <2> QED
    BY <1>2, <1>3, <2>1, <2>2 DEF timers
<1>13. CASE ShowAllLogs
  <2>1. opened' = [s \in Stream |-> IF s \in {runDataCache} \X Task THEN 1 ELSE 0]
    BY <1>13, ClosedIsEmpty DEF ShowAllLogs
  <2>2. runDataCache = here /\ UNCHANGED <<shell, timers>>
    BY <1>13 DEF ShowAllLogs, PageInv
  <2>3. StreamsOf(here)'
    BY <2>1, <2>2 DEF StreamsOf, Stream
  <2> QED
    BY <1>2, <1>3, <2>2, <2>3 DEF timers
<1>14. ASSUME NEW s \in Stream, StreamEnds(s) PROVE PageInv'
  <2>1. UNCHANGED <<shell, timers>> /\ (CloseLog \/ opened' = [opened EXCEPT ![s] = @ - 1])
    BY <1>14 DEF StreamEnds
  <2>2. CASE CloseLog
    BY <1>2, <1>3, <2>1, <2>2, ClosedStreams DEF timers
  <2>3. CASE opened' = [opened EXCEPT ![s] = @ - 1]
    <3>1. \A q \in Stream : opened[q] \in Nat /\ (opened'[q] > 0 => opened[q] > 0)
      BY <2>3 DEF LeakInv
    <3>2. StreamsOf(here) => StreamsOf(here)'
      BY <2>1, <3>1 DEF StreamsOf, shell, Stream
    <3> QED
      BY <1>2, <1>3, <2>1, <3>2 DEF timers
  <2> QED
    BY <2>1, <2>2, <2>3
<1>15. ASSUME NEW l \in loads, RunFetched(l) PROVE PageInv'
  BY <1>4, <1>15 DEF RunFetched, shell, timers
<1>16. ASSUME NEW l \in loads, RunNotFetched(l) PROVE PageInv'
  BY <1>5, <1>16 DEF RunNotFetched
<1>17. ASSUME NEW l \in loads, NewPoll(l), UNCHANGED runPollGen PROVE PollsOf(l.run)'
  BY <1>17 DEF NewPoll, PollsOf, GenInv
<1>18. ASSUME NEW l \in loads, PaintExpert(l) PROVE PageInv'
  <2>1. screen' = [shell |-> "expert", run |-> l.run, of |-> l.run, shown |-> l.data]
        /\ runDataCache' = l.run
    BY <1>18 DEF PaintExpert
  <2>2. StreamsOf(l.run)'
    BY <1>18, ShownStreams DEF PaintExpert
  <2>3. PollsOf(l.run)'
    BY <1>17, <1>18, StartPollKeeps DEF PaintExpert
  <2> QED
    BY <2>1, <2>2, <2>3 DEF PageInv, IsExpert, OnRunPage
<1>19. ASSUME NEW l \in loads, PaintNovice(l) PROVE PageInv'
  <2> DEFINE fresh == [shell |-> "novice", run |-> l.run, of |-> l.run, shown |-> l.data,
                       steps |-> [rows |-> l.data.rows, pin |-> NoTask, from |-> l.data],
                       pin |-> NoTask, cur |-> NoTask, clicked |-> FALSE]
  <2>1. PICK t \in Task : FollowLog(fresh, t)
    BY <1>19, Zenon DEF PaintNovice
  <2>2. /\ IsNovice(fresh) /\ fresh.shell = "novice" /\ fresh.run = l.run /\ fresh.of = l.run
        /\ fresh.cur = NoTask
    BY DEF IsNovice
  <2> HIDE DEF fresh
  <2>3. fresh.cur # t
    BY <2>2, TaskAssumption
  <2>4. /\ IsNovice(screen') /\ screen'.shell = "novice"
        /\ screen'.run = l.run /\ screen'.of = l.run /\ StreamsOf(l.run)'
    BY <2>1, <2>2, <2>3, FollowKeeps
  <2>5. PollsOf(l.run)'
    BY <1>17, <1>19, StartPollKeeps DEF PaintNovice
  <2> QED
    BY <2>4, <2>5 DEF PageInv, OnRunPage
<1>20. ASSUME NEW scr, Moved(scr, screen) \/ (IsNovice(scr) /\ scr.run = here /\ scr.of = here
                                               /\ scr.shell = "novice"),
              NEW t, FollowLog(scr, t), screen.shell = "novice", PollsOf(here)', UNCHANGED runDataCache
       PROVE  PageInv'
  <2>1. IsNovice(scr) /\ scr.run = here /\ scr.of = here /\ scr.shell = "novice" /\ StreamsOf(here)
    BY <1>20 DEF Moved, PageInv, OnRunPage
  <2>2. /\ IsNovice(screen') /\ screen'.shell = "novice"
        /\ screen'.run = here /\ screen'.of = here /\ StreamsOf(here)'
    BY <1>20, <2>1, FollowKeeps
  <2> QED
    BY <1>20, <2>2 DEF PageInv, OnRunPage
<1>21. ASSUME NEW t \in Task, PinStep(t) PROVE PageInv'
  <2>1. PICK pinned : pinned = [screen EXCEPT !.pin = IF @ = t THEN NoTask ELSE t, !.clicked = TRUE]
    OBVIOUS
  <2>2. Moved(pinned, screen)
    BY <1>21, <2>1 DEF PinStep, PageInv, IsNovice, Moved
  <2>3. PICK scr : scr = RenderNovRun(pinned, screen.steps.from, TRUE, FALSE)
    OBVIOUS
  <2>4. Moved(scr, screen)
    <3>1. IsNovice(pinned)
      BY <2>2 DEF Moved
    <3>2. Moved(scr, pinned)
      BY <2>3, <3>1, RenderKeeps, Zenon
    <3> QED
      BY <2>2, <3>2 DEF Moved
  <2>5. \E u \in Task : FollowLog(scr, u)
    BY <1>21, <2>1, <2>3, Zenon DEF PinStep
  <2>6. screen.shell = "novice" /\ UNCHANGED <<runDataCache, polls, runPollGen>> /\ PollsOf(here)
    BY <1>21 DEF PinStep, timers, PageInv, OnRunPage
  <2> QED
    BY <1>2, <1>20, <2>4, <2>5, <2>6
<1>22. ASSUME NEW p \in polls, NEW a \in Asks, PollRender(p, a) PROVE PageInv'
  <2>0. SamePolls /\ UNCHANGED runPollGen
    BY <1>22, PollStepsKeep DEF PollSteps
  <2>1. CASE UNCHANGED <<shell, logs>>
    BY <1>1, <1>3, <2>0, <2>1 DEF logs, StreamsOf
  <2>2. ~Superseded(p) /\ OnRunPage => p.run = here
    BY DEF Superseded, PageInv, PollsOf
  <2>3. CASE ~Superseded(p) /\ screen.shell = "expert" /\ p.mode = "expert"
    <3>1. runDataCache' = p.run /\ UNCHANGED logs /\ p.run = here
      BY <1>22, <2>2, <2>3 DEF PollRender, OnRunPage
    <3>2. screen' = [screen EXCEPT !.shown = p.asks[a].data, !.of = p.run]
      BY <1>22, <2>3, Zenon DEF PollRender
    <3>3. IsExpert(screen') /\ screen'.shell = "expert" /\ screen'.run = here /\ screen'.of = here
      BY <2>3, <3>1, <3>2 DEF PageInv, IsExpert
    <3>4. PollsOf(here)' /\ StreamsOf(here)'
      BY <1>1, <2>0, <2>3, <3>1 DEF PageInv, OnRunPage, logs, StreamsOf
    <3> QED
      BY <3>1, <3>3, <3>4 DEF PageInv, OnRunPage
  <2>4. CASE ~Superseded(p) /\ screen.shell # "expert" /\ p.mode = "expert"
    <3>1. UNCHANGED <<screen, logs>>
      BY <1>22, <2>4 DEF PollRender
    <3>2. PollsOf(here) => PollsOf(here)'
      BY <1>1, <2>0
    <3> QED
      BY <2>4, <3>1, <3>2 DEF PageInv, OnRunPage, logs, StreamsOf, IsNovice
  <2>5. CASE ~Superseded(p) /\ screen.shell = "novice" /\ p.mode = "novice"
    <3>1. PICK defer \in BOOLEAN, t \in Task :
            FollowLog([RenderNovRun(screen, p.asks[a].data, FALSE, defer) EXCEPT !.of = p.run], t)
      BY <1>22, <2>5, Zenon DEF PollRender
    <3>2. PICK new : new = RenderNovRun(screen, p.asks[a].data, FALSE, defer)
      OBVIOUS
    <3>3. Moved(new, screen)
      BY <2>5, <3>2, RenderKeeps DEF PageInv
    <3>4. PICK scr : scr = [new EXCEPT !.of = p.run]
      OBVIOUS
    <3>5. IsNovice(scr) /\ scr.run = here /\ scr.of = here /\ scr.shell = "novice"
      BY <2>2, <2>5, <3>3, <3>4 DEF Moved, IsNovice, OnRunPage
    <3>6. FollowLog(scr, t) /\ UNCHANGED runDataCache
      BY <1>22, <2>5, <3>1, <3>2, <3>4, Zenon DEF PollRender
    <3>7. PollsOf(here)'
      BY <1>1, <2>0, <2>5 DEF PageInv, OnRunPage
    <3> QED
      BY <1>20, <2>5, <3>5, <3>6, <3>7
  <2> QED
    BY <1>22, <2>1, <2>3, <2>4, <2>5, Zenon DEF PollRender, shell
<1>23. ASSUME NEW p \in polls, PollSteps(p) PROVE PageInv'
  <2>0. SamePolls /\ UNCHANGED runPollGen
    BY <1>23, PollStepsKeep
  <2>1. CASE UNCHANGED <<shell, logs>>
    BY <1>1, <1>3, <2>0, <2>1 DEF logs, StreamsOf
  <2> QED
    BY <1>22, <1>23, <2>1, Zenon DEF PollSteps, PollData, PollTick, PollAnswered, PollFails
<1>24. CASE DropOp \/ ConfirmOp \/ ServeOp \/ UNCHANGED vars
  BY <1>4, <1>24 DEF DropOp, ConfirmOp, ServeOp, vars, shell, timers
<1>25. ASSUME NEW k, AskOp(k) \/ Progress(k) PROVE PageInv'
  BY <1>4, <1>25, Zenon DEF AskOp, Progress, shell, timers
<1> QED
  BY <1>7, <1>8, <1>9, <1>10, <1>11, <1>12, <1>13, <1>14, <1>15, <1>16, <1>18, <1>19, <1>21,
     <1>23, <1>24, <1>25, Zenon
  DEF Next, User, Console, Server

(* What the page shows under a run's title, and the logs it streams, are that run's:
   startRunPoll's generation check keeps every parked callback of an earlier page off
   it.  Two pages loading at once are set apart (Overlap): showRun paints whatever is
   on the screen by then. *)
THEOREM PageIsOfOneRun == ASSUME Overlap = FALSE PROVE Spec => []PageShowsOneRun
<1>1. Init => GenInv /\ LeakInv /\ PageInv
  BY DEF Init, GenInv, LeakInv, NoStreamLeaks, PageInv, OnRunPage, Blank
<1>2. GenInv /\ LeakInv /\ PageInv /\ [Next]_vars => GenInv' /\ LeakInv' /\ PageInv'
  BY GenStep, PageStep, EveryStep, LogStepKeeps
<1>3. PageInv => PageShowsOneRun
  BY DEF PageInv, PageShowsOneRun, StreamsOf
<1> QED
  BY <1>1, <1>2, <1>3, PTL DEF Spec
=============================================================================
