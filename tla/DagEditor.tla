------------------------------ MODULE DagEditor ------------------------------
(***************************************************************************)
(* The autosaving workflow editor of the web console (views.js) and the    *)
(* server's handling of its saves (POST /api/dags/build, a compare-and-set *)
(* on the definition's hash).                                              *)
(*                                                                         *)
(* The console runs one handler at a time; a handler is cut at its awaits, *)
(* so an action is what runs between two of them.  A definition is the set *)
(* of edits that made it: the console's edits are numbered 1, 2, ..., the  *)
(* other clients' -1, -2, ...  Its hash names the DAG and the definition.  *)
(***************************************************************************)
EXTENDS Integers, FiniteSets

CONSTANTS
  Dag,          \* the workflows
  Slot,         \* the handlers that may be waiting in the console at once
  Faults,       \* a subset of {"connection", "fetch", "refused", "invalid"}
  Session,      \* TRUE: the graph editor's sessions are used too
  MaxEdits,     \* edits made in this console
  MaxOthers,    \* saves made by other clients
  MaxClicks,    \* pages opened, runs triggered, deletions, returns to the list
  Overlap       \* TRUE: another client's save may fall between the check and
                \* the write of a build

ASSUME DagEditorAssumption ==
  /\ MaxEdits \in Nat /\ MaxOthers \in Nat /\ MaxClicks \in Nat
  /\ Overlap \in BOOLEAN /\ Session \in BOOLEAN
  /\ "none" \notin Dag

VARIABLES
  D,            \* the editor's model, None when no workflow is open
  shown,        \* its page is on the screen
  view,         \* "dag" or "dags"
  timer,        \* saveTimer: "none", "armed", or "fired" (its id is kept)
  saveInflight, savePending, deleting,
  badge,        \* the save-state badge
  reqs,         \* the builds the server or the network holds
  calls,        \* handlers waiting for a save, then for the server
  del,          \* deleteActiveDag
  srv,          \* the stored definitions
  edits, others, clicks, \* counters
  failed,       \* a save of this console failed, or was dropped for a delete
  missed,       \* the edits the run last triggered should have had and lacks
  crossed       \* a page was opened with a definition that lacks what others
                \* stored and a save under way carries

editor == <<D, shown, view, timer, badge>>
pipe == <<saveInflight, savePending, reqs>>
counters == <<edits, others, clicks>>
vars == <<editor, pipe, deleting, calls, del, srv, counters, failed, missed,
          crossed>>

None == [id |-> "none"]
Edit == (-MaxOthers)..MaxEdits
Doc == SUBSET Edit
Hash(d, doc) == <<d, doc>>

(* the edits of other clients in a definition *)
Foreign(doc) == {e \in doc : e < 0}

Idle == [op |-> "idle"]
NoDel == [pc |-> "idle", id |-> "none"]

Init ==
  /\ srv = [d \in Dag |-> [doc |-> {}, live |-> TRUE]]
  /\ D = None /\ shown = FALSE /\ view = "dags"
  /\ timer = "none" /\ badge = "saved"
  /\ saveInflight = FALSE /\ savePending = FALSE /\ deleting = FALSE
  /\ reqs = {}
  /\ calls = [s \in Slot |-> Idle]
  /\ del = NoDel
  /\ edits = 0 /\ others = 0 /\ clicks = 0
  /\ failed = FALSE /\ missed = {} /\ crossed = FALSE

-----------------------------------------------------------------------------
(* The save pipeline: saveDag, flushSave, flushPendingSaves. *)

(* dagSpecFrom: the request carries the whole model and the hash last seen *)
DagSpecFrom(m) ==
  [id |-> m.id, doc |-> m.doc, hash |-> m.hash, valid |-> m.valid, st |-> "sent"]

(* reflectSaveState: a re-render shows the badge from the validity and the
   timer, whatever the last save answered *)
ReflectSaveState(m) ==
  IF ~m.valid THEN "invalid"
  ELSE IF timer # "none" \/ saveInflight THEN "saving" ELSE "saved"

(* wrong: sent whatever is in flight *)
FlushSaveAtOnce(m, inflight, pending, sent) ==
  /\ saveInflight' = TRUE /\ savePending' = pending
  /\ reqs' = sent \cup (IF m = None THEN {} ELSE {DagSpecFrom(m)})

(* flushSave sends the model m as it is now; without a model computeSchedule
   throws after saveInflight was set.  The caller says what is in flight. *)
FlushSave(m, inflight, pending, sent) ==
  IF deleting
  THEN saveInflight' = inflight /\ savePending' = pending /\ reqs' = sent
  ELSE IF inflight
  THEN saveInflight' = TRUE /\ savePending' = TRUE /\ reqs' = sent
  ELSE /\ saveInflight' = TRUE
       /\ savePending' = pending
       /\ reqs' = sent \cup (IF m = None THEN {} ELSE {DagSpecFrom(m)})

(* saveDag on the edited model m: nothing while a delete commits, a model with
   errors is held (an armed timer stays armed), else the timer restarts and the
   graph session is over *)
SaveDag(m) ==
  IF deleting
  THEN D' = m /\ UNCHANGED <<timer, badge>>
  ELSE IF ~m.valid
  THEN D' = m /\ badge' = "invalid" /\ UNCHANGED timer
  ELSE D' = [m EXCEPT !.base = None] /\ badge' = "saving" /\ timer' = "armed"

(* setTimeout(flushSave, 400) elapses; saveTimer keeps its id *)
TimerFires ==
  /\ timer = "armed"
  /\ timer' = "fired"
  /\ FlushSave(D, saveInflight, savePending, reqs)
  /\ UNCHANGED <<D, shown, view, badge, deleting, calls, del, srv, counters,
                 failed, missed, crossed>>

(* wrong: the timer is cleared and its save forgotten *)
FlushPendingNothing == timer' = "none" /\ UNCHANGED pipe

(* flushPendingSaves up to its first await: a set timer, elapsed or not, is
   turned into a save at once *)
FlushPending ==
  /\ timer' = "none"
  /\ IF timer = "none" THEN UNCHANGED pipe
     ELSE FlushSave(D, saveInflight, savePending, reqs)

(* its loop, 30 ms at a time, until no save is in flight *)
Flushed == ~saveInflight

(* wrong: the save asked for meanwhile is forgotten *)
AfterSaveForgets(m, r) ==
  saveInflight' = FALSE /\ savePending' = FALSE /\ reqs' = reqs \ {r}
(* wrong: the flag is cleared after a good save only *)
AfterSaveUnlessFailed(m, r) ==
  saveInflight' = (r.st # "ok") /\ savePending' = FALSE /\ reqs' = reqs \ {r}

(* flushSave's finally: a save asked for meanwhile is sent *)
AfterSave(m, r) ==
  IF savePending THEN FlushSave(m, FALSE, FALSE, reqs \ {r})
  ELSE saveInflight' = FALSE /\ reqs' = reqs \ {r} /\ UNCHANGED savePending

(* api() rejects or resolves: the hash of what was stored goes to whatever
   model is open now *)
SaveReturns(r) ==
  /\ r \in reqs /\ r.st \in {"ok", "conflict", "failed", "unheard"}
  /\ LET m == IF r.st = "ok" /\ D # None
              THEN [D EXCEPT !.hash = Hash(r.id, r.doc)] ELSE D
     IN D' = m /\ AfterSave(m, r)
  /\ badge' = IF r.st = "ok" THEN "saved" ELSE "error"
  /\ failed' = (failed \/ r.st # "ok")
  /\ UNCHANGED <<shown, view, timer, deleting, calls, del, srv, counters,
                 missed, crossed>>

-----------------------------------------------------------------------------
(* Edits: the settings tab, the task page, the novice page, the task list. *)

(* any control of the editor: the model changes, with or without an error of
   validateDag, and saveDag is called *)
EditModel(valid) ==
  /\ shown /\ edits < MaxEdits
  /\ valid \/ "invalid" \in Faults
  /\ edits' = edits + 1
  /\ SaveDag([D EXCEPT !.doc = @ \cup {edits + 1}, !.valid = valid])
  /\ UNCHANGED <<shown, view, pipe, deleting, calls, del, srv, others, clicks,
                 failed, missed, crossed>>

(* graphMutate: the first change of a session keeps the model it started from;
   nothing is saved, the page is rendered again *)
GraphMutate ==
  /\ Session /\ shown /\ edits < MaxEdits
  /\ edits' = edits + 1
  /\ D' = [D EXCEPT !.doc = @ \cup {edits + 1},
                    !.base = IF @ = None
                             THEN [id |-> D.id, doc |-> D.doc, valid |-> D.valid]
                             ELSE @]
  /\ badge' = ReflectSaveState(D)
  /\ UNCHANGED <<shown, view, timer, pipe, deleting, calls, del, srv, others,
                 clicks, failed, missed, crossed>>

GraphSaveSession ==
  /\ shown /\ D.base # None
  /\ IF D.valid THEN SaveDag([D EXCEPT !.base = None])
     ELSE D' = D /\ badge' = "invalid" /\ UNCHANGED timer
  /\ UNCHANGED <<shown, view, pipe, deleting, calls, del, srv, counters, failed,
                 missed, crossed>>

GraphDiscardSession ==
  /\ shown /\ D.base # None
  /\ D' = [D EXCEPT !.doc = D.base.doc, !.valid = D.base.valid, !.base = None]
  /\ badge' = ReflectSaveState(D')
  /\ UNCHANGED <<shown, view, timer, pipe, deleting, calls, del, srv, counters,
                 failed, missed, crossed>>

(* renderDagPage on a tab switch, a closed settings row, a refreshed run list *)
RenderDagPage ==
  /\ shown
  /\ badge' = ReflectSaveState(D)
  /\ UNCHANGED <<D, shown, view, timer, pipe, deleting, calls, del, srv,
                 counters, failed, missed, crossed>>

-----------------------------------------------------------------------------
(* Opening a workflow (showDag) and triggering one (triggerActiveDag). *)

Click ==
  /\ clicks < MaxClicks
  /\ clicks' = clicks + 1

(* both start by flushing the pending save; without a model that throws, and
   the handler ends there *)
Waits(s, call) ==
  /\ calls[s] = Idle
  /\ calls' = IF timer # "none" /\ D = None /\ ~deleting /\ ~saveInflight
              THEN calls ELSE [calls EXCEPT ![s] = call]
  /\ FlushPending

ShowDag(s, d) ==
  /\ Click
  /\ Waits(s, [op |-> "open", id |-> d, pc |-> "flush"])
  /\ UNCHANGED <<D, shown, view, badge, deleting, del, srv, edits, others,
                 failed, missed, crossed>>

TriggerActiveDag(s) ==
  /\ Click /\ shown
  /\ Waits(s, [op |-> "trigger", id |-> D.id, want |-> D.doc,
               ok |-> D.valid /\ D.base = None])
  /\ UNCHANGED <<D, shown, view, badge, deleting, del, srv, edits, others,
                 failed, missed, crossed>>

(* the saves are done: GET the workflow *)
ShowDagFetch(s) ==
  /\ calls[s].op = "open" /\ calls[s].pc = "flush" /\ Flushed
  /\ calls' = [calls EXCEPT ![s].pc = "sent"]
  /\ UNCHANGED <<editor, pipe, deleting, del, srv, counters, failed,
                 missed, crossed>>

(* the server answers it *)
GetDag(s) ==
  /\ calls[s].op = "open" /\ calls[s].pc = "sent"
  /\ \E got \in {srv[calls[s].id]} \cup (IF "fetch" \in Faults THEN {None} ELSE {}) :
       calls' = [calls EXCEPT ![s] = [op |-> "open", id |-> calls[s].id,
                                      pc |-> "got", got |-> got]]
  /\ UNCHANGED <<editor, pipe, deleting, del, srv, counters, failed,
                 missed, crossed>>

(* the call's own view of the model is gone once another one is open *)
Replaced(f) ==
  [s \in Slot |-> IF f[s].op = "trigger" THEN [f[s] EXCEPT !.ok = FALSE] ELSE f[s]]

(* and the console replaces its model, whatever page is on the screen by now;
   an error or an archived workflow leaves none *)
ShowDagRender(s) ==
  /\ calls[s].op = "open" /\ calls[s].pc = "got"
  /\ LET c == calls[s]
         open == c.got # None /\ c.got.live
         m == [id |-> c.id, doc |-> c.got.doc, hash |-> Hash(c.id, c.got.doc),
               valid |-> TRUE, base |-> None]
     IN /\ D' = IF open THEN m ELSE None
        /\ shown' = open
        /\ badge' = IF open THEN ReflectSaveState(m) ELSE badge
        /\ crossed' = \/ crossed
                      \/ open /\ \E r \in reqs : /\ r.id = c.id
                                                /\ ~(Foreign(r.doc) \subseteq c.got.doc)
  /\ view' = "dag"
  /\ calls' = Replaced([calls EXCEPT ![s] = Idle])
  /\ UNCHANGED <<timer, pipe, deleting, del, srv, counters, failed, missed>>

(* POST trigger for the workflow that is open NOW; none open: an exception *)
TriggerSend(s) ==
  /\ calls[s].op = "trigger" /\ Flushed
  /\ calls' = [calls EXCEPT ![s] = Idle]
  /\ missed' = IF D = None \/ ~calls[s].ok \/ failed THEN {}
               ELSE calls[s].want \ srv[D.id].doc
  /\ UNCHANGED <<editor, pipe, deleting, del, srv, counters, failed, crossed>>

(* loadDags: the list is asked for, the page stays until it is there *)
LoadDags ==
  /\ Click /\ view = "dag"
  /\ view' = "dags"
  /\ UNCHANGED <<D, shown, timer, badge, pipe, deleting, calls, del, srv, edits,
                 others, failed, missed, crossed>>

RenderDags ==
  /\ view = "dags" /\ shown
  /\ shown' = FALSE
  /\ UNCHANGED <<D, view, timer, badge, pipe, deleting, calls, del, srv,
                 counters, failed, missed, crossed>>

-----------------------------------------------------------------------------
(* deleteActiveDag: ask, stop every save, wait for the one in flight, DELETE. *)

AskDelete ==
  /\ Click /\ shown /\ del.pc = "idle"
  /\ del' = [pc |-> "asked", id |-> D.id]
  /\ UNCHANGED <<editor, pipe, deleting, calls, srv, edits, others, failed,
                 missed, crossed>>

CancelDelete ==
  /\ del.pc = "asked"
  /\ del' = NoDel
  /\ UNCHANGED <<editor, pipe, deleting, calls, srv, counters, failed,
                 missed, crossed>>

ConfirmDelete ==
  /\ del.pc = "asked"
  /\ del' = [del EXCEPT !.pc = "waiting"]
  /\ deleting' = TRUE /\ timer' = "none" /\ savePending' = FALSE
  /\ failed' = TRUE
  /\ UNCHANGED <<D, shown, view, badge, saveInflight, reqs, calls, srv, counters,
                 missed, crossed>>

(* wrong: the save in flight is not waited for *)
DeleteSendAtOnce ==
  /\ del.pc = "waiting"
  /\ del' = [del EXCEPT !.pc = "sent"]
  /\ UNCHANGED <<editor, pipe, deleting, calls, srv, counters, failed,
                 missed, crossed>>

DeleteSend ==
  /\ del.pc = "waiting" /\ Flushed
  /\ del' = [del EXCEPT !.pc = "sent"]
  /\ UNCHANGED <<editor, pipe, deleting, calls, srv, counters, failed,
                 missed, crossed>>

(* DeleteDAG archives, or refuses while runs are active *)
DeleteDag ==
  /\ del.pc = "sent"
  /\ \/ /\ srv[del.id].live
        /\ srv' = [srv EXCEPT ![del.id].live = FALSE]
        /\ del' = [del EXCEPT !.pc = "deleted"]
     \/ /\ "refused" \in Faults \/ ~srv[del.id].live
        /\ del' = [del EXCEPT !.pc = "refused"]
        /\ UNCHANGED srv
  /\ UNCHANGED <<editor, pipe, deleting, calls, counters, failed,
                 missed, crossed>>

(* loadDags is called, not awaited, and the saves are allowed again *)
DeleteReturns ==
  /\ del.pc \in {"deleted", "refused"}
  /\ view' = IF del.pc = "deleted" THEN "dags" ELSE view
  /\ deleting' = FALSE
  /\ del' = NoDel
  /\ UNCHANGED <<D, shown, timer, badge, pipe, calls, srv, counters, failed,
                 missed, crossed>>

-----------------------------------------------------------------------------
(* The server: buildDAG checks the hash, then CreateDAG writes. *)

(* wrong: the hash is not compared *)
BuildUnchecked(r) ==
  /\ r \in reqs /\ r.st = "sent"
  /\ reqs' = (reqs \ {r}) \cup {[r EXCEPT !.st = "checked"]}
  /\ UNCHANGED <<editor, saveInflight, savePending, deleting, calls, del, srv,
                 counters, failed, missed, crossed>>

(* an archived workflow counts as new, its hash is not compared; what
   validateDag rejects the parser may reject too *)
BuildCheck(r) ==
  /\ r \in reqs /\ r.st = "sent"
  /\ LET cur == srv[r.id]
     IN \E st \in (IF cur.live /\ r.hash # Hash(r.id, cur.doc)
                   THEN {"conflict"} ELSE {"checked"})
                  \cup (IF r.valid THEN {} ELSE {"failed"}) :
          reqs' = (reqs \ {r}) \cup {[r EXCEPT !.st = st]}
  /\ UNCHANGED <<editor, saveInflight, savePending, deleting, calls, del, srv,
                 counters, failed, missed, crossed>>

BuildWrite(r) ==
  /\ r \in reqs /\ r.st = "checked"
  /\ srv' = [srv EXCEPT ![r.id] = [doc |-> r.doc, live |-> TRUE]]
  /\ reqs' = (reqs \ {r}) \cup {[r EXCEPT !.st = "ok"]}
  /\ UNCHANGED <<editor, saveInflight, savePending, deleting, calls, del,
                 counters, failed, missed, crossed>>

(* the request or its answer is lost *)
LoseSave(r) ==
  /\ "connection" \in Faults
  /\ r \in reqs /\ r.st \in {"sent", "ok"}
  /\ reqs' = (reqs \ {r}) \cup
               {[r EXCEPT !.st = IF @ = "ok" THEN "unheard" ELSE "failed"]}
  /\ UNCHANGED <<editor, saveInflight, savePending, deleting, calls, del, srv,
                 counters, failed, missed, crossed>>

(* another editor, or a client without a hash, saves on top of what is stored *)
OtherSaves(d) ==
  /\ others < MaxOthers /\ srv[d].live
  /\ Overlap \/ \A r \in reqs : r.st # "checked"
  /\ others' = others + 1
  /\ srv' = [srv EXCEPT ![d].doc = @ \cup {-(others + 1)}]
  /\ UNCHANGED <<editor, pipe, deleting, calls, del, edits, clicks, failed,
                 missed, crossed>>

-----------------------------------------------------------------------------
User ==
  \/ \E valid \in BOOLEAN : EditModel(valid)
  \/ GraphMutate \/ GraphSaveSession \/ GraphDiscardSession \/ RenderDagPage
  \/ \E s \in Slot : TriggerActiveDag(s) \/ \E d \in Dag : ShowDag(s, d)
  \/ LoadDags \/ AskDelete \/ CancelDelete \/ ConfirmDelete

Console ==
  \/ TimerFires \/ RenderDags \/ DeleteSend \/ DeleteReturns
  \/ \E r \in reqs : SaveReturns(r)
  \/ \E s \in Slot : ShowDagFetch(s) \/ ShowDagRender(s) \/ TriggerSend(s)

Server ==
  \/ DeleteDag
  \/ \E r \in reqs : BuildCheck(r) \/ BuildWrite(r)
  \/ \E s \in Slot : GetDag(s)

Environment ==
  \/ \E r \in reqs : LoseSave(r)
  \/ \E d \in Dag : OtherSaves(d)

Next == User \/ Console \/ Server \/ Environment

(* timers fire, promises settle and the server answers; users need not act *)
Fairness ==
  /\ WF_vars(TimerFires) /\ WF_vars(RenderDags)
  /\ WF_vars(DeleteSend) /\ WF_vars(DeleteDag) /\ WF_vars(DeleteReturns)
  /\ WF_vars(\E r \in reqs : BuildCheck(r) \/ BuildWrite(r) \/ SaveReturns(r))
  /\ \A s \in Slot : WF_vars(ShowDagFetch(s) \/ GetDag(s) \/ ShowDagRender(s)
                             \/ TriggerSend(s))

Spec == Init /\ [][Next]_vars /\ Fairness
=============================================================================
