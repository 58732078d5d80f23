-------------------------- MODULE EditorProperties --------------------------
(***************************************************************************)
(* What the console's editor promises, over DagEditor.                     *)
(***************************************************************************)
EXTENDS DagEditor

Model == [id : Dag, doc : Doc, hash : Dag \X Doc, valid : BOOLEAN,
          base : [id : Dag, doc : Doc, valid : BOOLEAN] \cup {None}]
Request == [id : Dag, doc : Doc, hash : Dag \X Doc, valid : BOOLEAN,
            st : {"sent", "checked", "ok", "conflict", "failed", "unheard"}]
Stored == [doc : Doc, live : BOOLEAN]
Call == {Idle}
        \cup [op : {"open"}, id : Dag, pc : {"flush", "sent"}]
        \cup [op : {"open"}, id : Dag, pc : {"got"}, got : Stored \cup {None}]
        \cup [op : {"trigger"}, id : Dag, want : Doc, ok : BOOLEAN]

(* Every variable keeps its type; the page of a workflow is on the screen only
   while the editor holds a model. *)
TypeOK ==
  /\ D \in Model \cup {None} /\ shown \in BOOLEAN /\ view \in {"dag", "dags"}
  /\ shown => D # None
  /\ timer \in {"none", "armed", "fired"}
  /\ badge \in {"saved", "saving", "invalid", "error"}
  /\ saveInflight \in BOOLEAN /\ savePending \in BOOLEAN /\ deleting \in BOOLEAN
  /\ reqs \subseteq Request
  /\ calls \in [Slot -> Call]
  /\ del \in [pc : {"asked", "waiting", "sent", "deleted", "refused"}, id : Dag]
             \cup {NoDel}
  /\ srv \in [Dag -> Stored]
  /\ edits \in 0..MaxEdits /\ others \in 0..MaxOthers /\ clicks \in 0..MaxClicks
  /\ failed \in BOOLEAN
  /\ missed \in Doc /\ crossed \in BOOLEAN

(* views.js flushSave is entered from the timer, from every handler that
   flushes and from the end of the save before: still never two builds of
   this console at once, and none that the flag does not know of. *)
OneSaveAtATime ==
  /\ \A q, r \in reqs : q = r
  /\ reqs # {} => saveInflight

(* deleteActiveDag: while the DELETE is out no build is under way, so a save
   that was debounced, queued or in flight cannot bring the workflow back. *)
DeleteStandsAlone ==
  del.pc \in {"sent", "deleted", "refused"} => deleting /\ reqs = {}

(* buildDAG's hash check against the hash the editor carries: while a workflow
   is live no save of this console drops what another client stored, however
   saves, answers and reloads interleave, unless a page was opened with an
   older definition than the save under way had: flushSave gives the hash of
   that save to the model opened meanwhile. *)
NoSilentOverwrite ==
  [][\A d \in Dag : srv[d].live /\ ~crossed => Foreign(srv[d].doc) \subseteq srv'[d].doc]_vars

(* Not so (README): the comment on definition_hash (views.js) says that a concurrent
   editor's save conflicts instead of being silently overwritten, without exception. *)
NeverOverwritten ==
  [][\A d \in Dag : srv[d].live => Foreign(srv[d].doc) \subseteq srv'[d].doc]_vars

(* triggerActiveDag flushes first: while the console's handlers wait one at a
   time, and unless a save failed or was dropped for a delete or the model had
   errors, the run starts from a definition with every edit the user had made
   when asking for it. *)
TriggerRunsEdits == missed = {}

(* Not so (README): docs/console/dag.md says that the badge reads Saved only when the server has the
   latest version (outside a graph session, which has its own bar). *)
SavedMeansStored ==
  shown /\ badge = "saved" /\ D.base = None /\ ~deleting
    => D.doc \subseteq srv[D.id].doc

(* Not so (README): deleteActiveDag's comment says that no save re-creates a workflow this console has
   deleted. *)
DeletedStaysDeleted ==
  [][\A d \in Dag : ~srv[d].live => ~srv'[d].live]_vars

(* flushPendingSaves' loop and deleteActiveDag's end: a handler that waits for the
   saves goes on, and a delete that was confirmed lets saves through again. *)
HandlersEnd ==
  /\ \A s \in Slot : (calls[s].op # "idle") ~> (calls[s].op = "idle")
  /\ deleting ~> ~deleting

(* saveDag debounces, saves are queued behind one another and a graph session
   is saved with the next edit: what the user typed is stored in the end, or
   a save failed, a delete dropped it, the model has errors, is in a session or
   was left. *)
EditsAreStored ==
  \A n \in 1..MaxEdits :
    (D # None /\ n \in D.doc) ~>
      (D = None \/ n \notin D.doc \/ n \in srv[D.id].doc \/ ~D.valid
       \/ D.base # None \/ failed)

(* The editor and the server together implement GuardedSave. *)
Abstract == INSTANCE GuardedSave WITH
  stored <- srv,
  wire <- {[id |-> r.id, doc |-> r.doc, base |-> r.hash, landed |-> r.st \in {"ok", "unheard"}] : r \in reqs}
ImplementsGuardedSave == Abstract!Spec
=============================================================================
