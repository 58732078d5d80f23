-------------------------- MODULE RunPageProperties --------------------------
(***************************************************************************)
(* What the run page promises, over RunPage.                               *)
(***************************************************************************)
EXTENDS RunPage

OnRunPage == screen.shell \in {"expert", "novice"}

(* closeLog is the only way a stream is let go: showLog, showAllLogs and
   nvOpenLog replace one another and the page is left at any time, yet every
   open stream is one the console can still close, and none is open twice. *)
NoStreamLeaks ==
  \A s \in Stream : opened[s] > 0 => opened[s] = 1 /\ (s = logES \/ s \in logESAll)

(* startRunPoll's guard: what the page shows under a run's title, and the logs
   it streams, are that run's, whatever callbacks are parked. *)
PageShowsOneRun ==
  OnRunPage =>
    /\ screen.of = screen.run
    /\ \A s \in Stream : opened[s] > 0 => s[1] = screen.run

Outdated(p) == p.gen # runPollGen \/ view # "run"

(* startRunPoll: an interval whose page was left, replaced or opened again stops
   fetching. *)
StalePollsStop ==
  \A g \in 1..MaxShows :
    (\E p \in polls : p.gen = g /\ p.on /\ Outdated(p)) ~>
      (\A p \in polls : p.gen = g => ~p.on)

(* the page on the screen stands for the end of its run *)
Current(r) == screen.shown = srv[r]
Stands(r) == OnRunPage /\ screen.run = r /\ view = "run" /\ currentRun = r /\ ~srv[r].live

(* renderNovRun: the interval stops at the last frame, so that frame must land;
   a page left open on a finished run comes to show its end.  Clicking a step of
   the novice list is set apart (see EndStaysShown). *)
RunPageSettles ==
  \A r \in Run :
    (Stands(r) /\ loads = {}) ~> (~Stands(r) \/ Current(r) \/ loads # {}
                    \/ (screen.shell = "novice" /\ screen.clicked))

(* Not so (README): renderNovRun's comment says that the last frame lands or the list would freeze mid-run
   forever; once it has, the page does not go back to a live run. *)
EndStaysShown ==
  [][\A r \in Run : Stands(r) /\ Stands(r)' /\ screen.run = screen'.run /\ ~screen.shown.live
                    => ~screen'.shown.live]_vars
=============================================================================
