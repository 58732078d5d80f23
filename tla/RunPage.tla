------------------------------- MODULE RunPage -------------------------------
(***************************************************************************)
(* The run page of the web console (views.js), in its expert and its       *)
(* novice rendering: the two fetches that build it, the interval that      *)
(* keeps it current, the log streams it holds and the calls it makes on    *)
(* the run.  A handler is cut at its awaits; an interval's callback may be *)
(* parked at its await when the interval is cleared or superseded.         *)
(***************************************************************************)
EXTENDS Integers, FiniteSets

CONSTANTS
  Run,          \* the runs
  Task,         \* the tasks of a run
  Asks,         \* the requests one interval may have outstanding
  Overlap,      \* TRUE: a page is opened before the last one has loaded
  Novice,       \* TRUE: the novice rendering is used too
  MaxShows,     \* pages opened, by whatever way
  MaxClicks     \* other user actions

ASSUME RunPageAssumption ==
  /\ MaxShows \in Nat /\ MaxClicks \in Nat
  /\ Overlap \in BOOLEAN /\ Novice \in BOOLEAN

VARIABLES
  srv,          \* the runs as the server knows them
  mode,         \* uiMode
  view, currentRun,
  screen,       \* what main shows
  runPollGen, runPoll, \* the generation counter; the last interval started
  runDataCache, \* the run whose data was rendered last by the expert page
  loads,        \* showRun calls waiting for the server
  polls,        \* intervals, cleared ones too while a callback is parked
  logES, logESAll, opened, \* the streams held, and how often each is open
  other,        \* another page is loading
  op,           \* a call on the run: asked, then sent
  clicks

shell == <<screen, runDataCache>>
nav == <<mode, view, currentRun, other>>
timers == <<runPollGen, runPoll, polls>>
logs == <<logES, logESAll, opened>>
vars == <<srv, nav, shell, timers, loads, logs, op, clicks>>

(* a run as it is fetched: live or not, and the states of its tasks *)
Snap == [live : BOOLEAN, rows : {"some", "ok", "bad"}] \ {[live |-> FALSE, rows |-> "some"]}
Running == [live |-> TRUE, rows |-> "some"]
Failed == [live |-> FALSE, rows |-> "bad"]

Stream == Run \X Task
NoStream == <<"none", "none">>
NoTask == "none"
ASSUME TaskAssumption == NoTask \notin Task
Blank == [shell |-> "other"]
NoOp == [pc |-> "idle"]
NoAsk == [st |-> "none"]

Init ==
  /\ srv \in [Run -> {Running, Failed}]
  /\ mode \in {"expert", "novice"} /\ (mode = "novice" => Novice)
  /\ view = "other" /\ currentRun = NoTask /\ other = FALSE
  /\ screen = Blank /\ runDataCache = NoTask
  /\ runPollGen = 0 /\ runPoll = 0 /\ polls = {} /\ loads = {}
  /\ logES = NoStream /\ logESAll = {} /\ opened = [s \in Stream |-> 0]
  /\ op = NoOp /\ clicks = 0

-----------------------------------------------------------------------------
(* The log streams. *)

(* wrong: the streams of the combined view stay *)
ClosedFirst ==
  [s \in Stream |-> IF opened[s] > 0 /\ s = logES THEN opened[s] - 1 ELSE opened[s]]

(* closeLog closes the stream and the streams of the combined view *)
Closed ==
  [s \in Stream |-> IF opened[s] > 0 /\ (s = logES \/ s \in logESAll)
                    THEN opened[s] - 1 ELSE opened[s]]

CloseLog == logES' = NoStream /\ logESAll' = {} /\ opened' = Closed

(* showLog and nvOpenLog: close what is open, then stream one task *)
ShowLog(s) ==
  /\ logES' = s /\ logESAll' = {}
  /\ opened' = [Closed EXCEPT ![s] = @ + 1]

(* a task's log button, a row of the timeline *)
LogButton(t) ==
  /\ clicks < MaxClicks /\ clicks' = clicks + 1
  /\ screen.shell = "expert"
  /\ ShowLog(<<screen.run, t>>)
  /\ UNCHANGED <<srv, nav, shell, timers, loads, op>>

(* showAllLogs, from the link above a task's log (there when the run has several
   tasks, which one member of Task may stand for): one stream for each task of
   the run rendered last *)
ShowAllLogs ==
  /\ clicks < MaxClicks /\ clicks' = clicks + 1
  /\ screen.shell = "expert" /\ logESAll = {}
  /\ LET all == {runDataCache} \X Task
     IN /\ logES' = NoStream /\ logESAll' = all
        /\ opened' = [s \in Stream |-> IF s \in all THEN Closed[s] + 1 ELSE Closed[s]]
  /\ UNCHANGED <<srv, nav, shell, timers, loads, op>>

(* done or error: the single stream closes the log, a stream of the combined
   view only itself *)
StreamEnds(s) ==
  /\ opened[s] > 0
  /\ \/ s = logES /\ CloseLog
     \/ /\ s \in logESAll
        /\ opened' = [opened EXCEPT ![s] = @ - 1]
        /\ UNCHANGED <<logES, logESAll>>
  /\ UNCHANGED <<srv, nav, shell, timers, loads, op, clicks>>

-----------------------------------------------------------------------------
(* Opening the page: showRun, showRunNovice. *)

(* an interval is forgotten once it is cleared and no callback is parked *)
Kept(ps) == {p \in ps : p.on \/ \E a \in Asks : p.asks[a] # NoAsk}

(* clearInterval(p) *)
Cleared(ps, g) == Kept({IF p.gen = g THEN [p EXCEPT !.on = FALSE] ELSE p : p \in ps})

(* up to the first await; m is the mode it is called in *)
ShowRun(r, m) ==
  /\ view' = "run" /\ currentRun' = r
  /\ CloseLog
  /\ polls' = Cleared(polls, runPoll)
  /\ runPollGen' = runPollGen + 1
  /\ loads' = loads \cup {[run |-> r, gen |-> runPollGen + 1, mode |-> m, pc |-> "run"]}
  /\ UNCHANGED runPoll

(* the bound keeps room for the page that the end of a call opens *)
Room == runPollGen + Cardinality({op} \ {NoOp}) < MaxShows
MayShow == Room /\ (Overlap \/ (loads = {} /\ op = NoOp))

(* a link, a row, a child run, a language switch *)
OpenRun(r) ==
  /\ MayShow
  /\ ShowRun(r, mode)
  /\ UNCHANGED <<srv, mode, other, shell, op, clicks>>

(* setMode routes again *)
SetMode ==
  /\ Novice /\ clicks < MaxClicks /\ clicks' = clicks + 1
  /\ MayShow
  /\ view = "run"
  /\ mode' = IF mode = "expert" THEN "novice" ELSE "expert"
  /\ ShowRun(currentRun, mode')
  /\ UNCHANGED <<srv, other, shell, op>>

(* GET the run; then its workflow, which may fail without harm *)
RunFetched(l) ==
  /\ l \in loads /\ l.pc = "run"
  /\ loads' = (loads \ {l}) \cup
                {[run |-> l.run, gen |-> l.gen, mode |-> l.mode, pc |-> "dag",
                  data |-> srv[l.run]]}
  /\ UNCHANGED <<srv, nav, shell, timers, logs, op, clicks>>

(* the error replaces whatever page is there *)
RunNotFetched(l) ==
  /\ l \in loads /\ l.pc = "run"
  /\ loads' = loads \ {l}
  /\ screen' = [shell |-> "error"]
  /\ UNCHANGED <<srv, nav, runDataCache, timers, logs, op, clicks>>

(* renderNovRun of data on the novice screen scr: the banner and the footer
   follow data; the steps are rebuilt when they changed and the frame is forced,
   final, or the user is not in the list (defer); their click handlers keep the
   data they were built from *)
RenderNovRun(scr, data, force, defer) ==
  LET rebuild == /\ scr.steps.rows # data.rows \/ scr.steps.pin # scr.pin
                 /\ force \/ ~data.live \/ ~defer
  IN [scr EXCEPT !.shown = data,
                 !.steps = IF rebuild THEN [rows |-> data.rows, pin |-> scr.pin, from |-> data]
                           ELSE @]

(* which log it follows: the pinned step's, else one picked by the states *)
FollowLog(scr, t) ==
  /\ scr.pin # NoTask => t = scr.pin
  /\ screen' = [scr EXCEPT !.cur = t]
  /\ IF scr.cur # t THEN ShowLog(<<scr.run, t>>) ELSE UNCHANGED logs

(* wrong: the novice page is not polled *)
StartPollExpert(l) ==
  IF l.data.live /\ l.mode = "expert"
  THEN /\ polls' = polls \cup {[run |-> l.run, gen |-> l.gen, mode |-> l.mode,
                                on |-> TRUE, asks |-> [a \in Asks |-> NoAsk]]}
       /\ runPoll' = l.gen
  ELSE UNCHANGED <<polls, runPoll>>

(* setInterval *)
StartPoll(l) ==
  IF l.data.live
  THEN /\ polls' = polls \cup {[run |-> l.run, gen |-> l.gen, mode |-> l.mode,
                                on |-> TRUE, asks |-> [a \in Asks |-> NoAsk]]}
       /\ runPoll' = l.gen
  ELSE UNCHANGED <<polls, runPoll>>

(* the shell is painted, whatever is on the screen by now; the log of a task
   is opened; a live run is polled *)
PaintExpert(l) ==
  /\ l \in loads /\ l.pc = "dag" /\ l.mode = "expert"
  /\ loads' = loads \ {l}
  /\ screen' = [shell |-> "expert", run |-> l.run, of |-> l.run, shown |-> l.data]
  /\ runDataCache' = l.run
  /\ \E t \in Task : ShowLog(<<l.run, t>>)
  /\ StartPoll(l)
  /\ UNCHANGED <<srv, nav, runPollGen, op, clicks>>

PaintNovice(l) ==
  /\ l \in loads /\ l.pc = "dag" /\ l.mode = "novice"
  /\ loads' = loads \ {l}
  /\ LET fresh == [shell |-> "novice", run |-> l.run, of |-> l.run, shown |-> l.data,
                   steps |-> [rows |-> l.data.rows, pin |-> NoTask, from |-> l.data],
                   pin |-> NoTask, cur |-> NoTask, clicked |-> FALSE]
     IN \E t \in Task : FollowLog(fresh, t)
  /\ StartPoll(l)
  /\ UNCHANGED <<srv, nav, runDataCache, runPollGen, op, clicks>>

(* a step is clicked: pinned or released, rendered from the handler's data *)
PinStep(t) ==
  /\ clicks < MaxClicks /\ clicks' = clicks + 1
  /\ screen.shell = "novice"
  /\ LET pinned == [screen EXCEPT !.pin = IF @ = t THEN NoTask ELSE t, !.clicked = TRUE]
     IN \E u \in Task : FollowLog(RenderNovRun(pinned, screen.steps.from, TRUE, FALSE), u)
  /\ UNCHANGED <<srv, nav, runDataCache, timers, loads, op>>

-----------------------------------------------------------------------------
(* The interval: startRunPoll, startNovRunPoll. *)

(* wrong: only the page is looked at, not which run it is *)
SupersededByPage(p) == view # "run"
(* wrong: nothing is looked at *)
SupersededNever(p) == FALSE

Superseded(p) == p.gen # runPollGen \/ view # "run" \/ currentRun # p.run

Ask(p, a, st) == [p EXCEPT !.asks[a] = st]
With(p, q) == Kept((polls \ {p}) \cup {q})

(* every two seconds: stop when superseded, else fetch *)
PollTick(p) ==
  /\ p \in polls /\ p.on
  /\ IF Superseded(p)
     THEN polls' = With(p, [p EXCEPT !.on = FALSE])
     ELSE \E a \in Asks : p.asks[a] = NoAsk /\ polls' = With(p, Ask(p, a, [st |-> "sent"]))
  /\ UNCHANGED <<srv, nav, shell, runPollGen, runPoll, loads, logs, op, clicks>>

PollAnswered(p, a) ==
  /\ p \in polls /\ p.asks[a].st = "sent"
  /\ polls' = With(p, Ask(p, a, [st |-> "got", data |-> srv[p.run]]))
  /\ UNCHANGED <<srv, nav, shell, runPollGen, runPoll, loads, logs, op, clicks>>

PollFails(p, a) ==
  /\ p \in polls /\ p.asks[a].st = "sent"
  /\ polls' = With(p, Ask(p, a, NoAsk))
  /\ UNCHANGED <<srv, nav, shell, runPollGen, runPoll, loads, logs, op, clicks>>

(* after the await: checked again, rendered, and the last frame stops it.  On
   another page's screen the expert rendering throws before that. *)
PollRender(p, a) ==
  /\ p \in polls /\ p.asks[a].st = "got"
  /\ LET data == p.asks[a].data
         q == Ask(p, a, NoAsk)
         done == [q EXCEPT !.on = @ /\ data.live]
     IN \/ /\ Superseded(p)
           /\ polls' = With(p, [q EXCEPT !.on = FALSE])
           /\ UNCHANGED <<shell, logs>>
        \/ /\ ~Superseded(p) /\ p.mode = "expert"
           /\ runDataCache' = p.run
           /\ IF screen.shell = "expert"
              THEN /\ screen' = [screen EXCEPT !.shown = data, !.of = p.run]
                   /\ polls' = With(p, done)
              ELSE polls' = With(p, q) /\ UNCHANGED screen
           /\ UNCHANGED logs
        \/ /\ ~Superseded(p) /\ p.mode = "novice"
           /\ polls' = With(p, done)
           /\ IF screen.shell = "novice"
              THEN \E defer \in BOOLEAN, t \in Task :
                     FollowLog([RenderNovRun(screen, data, FALSE, defer)
                                EXCEPT !.of = p.run], t)
              ELSE UNCHANGED <<screen, logs>>
           /\ UNCHANGED runDataCache
  /\ UNCHANGED <<srv, nav, runPollGen, runPoll, loads, op, clicks>>

PollData(p) == \E a \in Asks : PollAnswered(p, a)
PollSteps(p) ==
  PollTick(p) \/ PollData(p) \/ \E a \in Asks : PollFails(p, a) \/ PollRender(p, a)

-----------------------------------------------------------------------------
(* Leaving for another page: its loader closes the log at once and paints when
   its data is there, some pages without looking which page is open by then. *)

Leave ==
  /\ clicks < MaxClicks /\ clicks' = clicks + 1
  /\ view = "run"
  /\ view' = "other" /\ other' = TRUE
  /\ CloseLog
  /\ UNCHANGED <<srv, mode, currentRun, shell, timers, loads, op>>

PaintOther ==
  /\ other /\ other' = FALSE
  /\ \/ screen' = Blank
     \/ view = "run" /\ UNCHANGED screen
  /\ UNCHANGED <<srv, mode, view, currentRun, runDataCache, timers, loads, logs, op, clicks>>

-----------------------------------------------------------------------------
(* Calls on the run: cancel, retry, mark.  The buttons follow what is shown. *)

(* cancel, retry of a task and the marks ask first *)
AskOp(k) ==
  /\ clicks < MaxClicks /\ clicks' = clicks + 1
  /\ screen.shell \in {"expert", "novice"} /\ op = NoOp
  /\ Room /\ (Overlap \/ loads = {})
  /\ CASE k = "cancel" -> screen.shown.live
       [] k = "retry" -> ~screen.shown.live /\ screen.shown.rows = "bad"
       [] k = "mark" -> ~screen.shown.live /\ screen.shell = "expert"
  /\ op' = [pc |-> IF k = "retry" THEN "sent" ELSE "asked", kind |-> k,
            run |-> screen.run, from |-> screen.shell]
  /\ UNCHANGED <<srv, nav, shell, timers, loads, logs>>

DropOp ==
  /\ op.pc = "asked" /\ op' = NoOp
  /\ UNCHANGED <<srv, nav, shell, timers, loads, logs, clicks>>

ConfirmOp ==
  /\ op.pc = "asked" /\ op' = [op EXCEPT !.pc = "sent"]
  /\ UNCHANGED <<srv, nav, shell, timers, loads, logs, clicks>>

(* the scheduler's answer: a call that no longer applies is refused *)
ServeOp ==
  /\ op.pc = "sent"
  /\ LET s == srv[op.run]
         to == CASE op.kind = "cancel" -> IF s.live THEN {Failed} ELSE {}
                 [] op.kind = "retry" -> IF ~s.live /\ s.rows = "bad" THEN {Running} ELSE {}
                 [] op.kind = "mark" -> IF ~s.live THEN {s, Running} ELSE {}
     IN \/ /\ \E n \in to : srv' = [srv EXCEPT ![op.run] = n]
           /\ op' = [op EXCEPT !.pc = "ok"]
        \/ to = {} /\ op' = [op EXCEPT !.pc = "refused"] /\ UNCHANGED srv
  /\ UNCHANGED <<nav, shell, timers, loads, logs, clicks>>

(* done: the page is opened again, wherever the user is by now; a cancel of the
   novice page leaves it to the interval.  Refused: a toast. *)
OpReturns ==
  /\ op.pc \in {"ok", "refused"}
  /\ op' = NoOp
  /\ IF op.pc = "refused" \/ (op.from = "novice" /\ op.kind = "cancel")
     THEN UNCHANGED <<view, currentRun, timers, loads, logs>>
     ELSE ShowRun(op.run, mode)
  /\ UNCHANGED <<srv, mode, other, shell, clicks>>

(* the scheduler: the tasks finish, then the run *)
Progress(r) ==
  /\ srv[r].live
  /\ srv' = [srv EXCEPT ![r] = IF @.rows = "some" THEN [@ EXCEPT !.rows = "ok"]
                               ELSE [@ EXCEPT !.live = FALSE]]
  /\ UNCHANGED <<nav, shell, timers, loads, logs, op, clicks>>

-----------------------------------------------------------------------------
User ==
  \/ \E r \in Run : OpenRun(r)
  \/ \E t \in Task : LogButton(t) \/ PinStep(t)
  \/ ShowAllLogs \/ SetMode \/ Leave \/ DropOp \/ ConfirmOp
  \/ \E k \in {"cancel", "retry", "mark"} : AskOp(k)

Console ==
  \/ \E l \in loads : RunFetched(l) \/ RunNotFetched(l) \/ PaintExpert(l) \/ PaintNovice(l)
  \/ \E p \in polls : PollSteps(p)
  \/ PaintOther \/ OpReturns

Server ==
  \/ ServeOp
  \/ \E s \in Stream : StreamEnds(s)
  \/ \E r \in Run : Progress(r)

Next == User \/ Console \/ Server

(* the browser runs what is due; the server answers, in the end with data *)
Fairness ==
  /\ WF_vars(ServeOp \/ OpReturns)
  /\ \A g \in 1..MaxShows :
       /\ WF_vars(\E l \in loads : l.gen = g /\ (RunFetched(l) \/ RunNotFetched(l)
                                                \/ PaintExpert(l) \/ PaintNovice(l)))
       /\ WF_vars(\E p \in polls : p.gen = g /\ PollSteps(p))
       /\ SF_vars(\E p \in polls : p.gen = g /\ PollData(p))

Spec == Init /\ [][Next]_vars /\ Fairness
=============================================================================
