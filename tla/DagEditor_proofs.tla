-------------------------- MODULE DagEditor_proofs --------------------------
(***************************************************************************)
(* The editor's invariants and its refinement of GuardedSave, for every    *)
(* set of workflows and handlers and every number of edits: types, single  *)
(* saves, the compare-and-swap, what others stored, and the edits a        *)
(* triggered run has.                                                      *)
(***************************************************************************)
EXTENDS EditorProperties, TLAPS

-----------------------------------------------------------------------------
(* Types, by the parts of the state that change together. *)

EditorOK ==
  /\ D \in Model \cup {None} /\ shown \in BOOLEAN /\ view \in {"dag", "dags"}
  /\ shown => D # None
  /\ timer \in {"none", "armed", "fired"}
  /\ badge \in {"saved", "saving", "invalid", "error"}
PipeOK ==
  /\ saveInflight \in BOOLEAN /\ savePending \in BOOLEAN
  /\ reqs \subseteq Request
CallsOK == calls \in [Slot -> Call]
DelOK ==
  /\ deleting \in BOOLEAN
  /\ del \in [pc : {"asked", "waiting", "sent", "deleted", "refused"}, id : Dag] \cup {NoDel}
SrvOK == srv \in [Dag -> Stored]
CountOK ==
  /\ edits \in 0..MaxEdits /\ others \in 0..MaxOthers /\ clicks \in 0..MaxClicks
  /\ failed \in BOOLEAN /\ missed \in Doc /\ crossed \in BOOLEAN

LEMMA TypeParts ==
  TypeOK <=> EditorOK /\ PipeOK /\ CallsOK /\ DelOK /\ SrvOK /\ CountOK
BY DEF TypeOK, EditorOK, PipeOK, CallsOK, DelOK, SrvOK, CountOK

LEMMA TypePartsNext ==
  ASSUME EditorOK', PipeOK', CallsOK', DelOK', SrvOK', CountOK'
  PROVE  TypeOK'
BY DEF TypeOK, EditorOK, PipeOK, CallsOK, DelOK, SrvOK, CountOK

(* what a part's variables keep, the part keeps *)
LEMMA PartsUnchanged ==
  ASSUME TypeOK
  PROVE  /\ UNCHANGED <<D, shown, view, timer, badge>> => EditorOK'
         /\ UNCHANGED <<saveInflight, savePending, reqs>> => PipeOK'
         /\ UNCHANGED calls => CallsOK'
         /\ UNCHANGED <<deleting, del>> => DelOK'
         /\ UNCHANGED srv => SrvOK'
         /\ UNCHANGED <<edits, others, clicks, failed, missed, crossed>> => CountOK'
BY TypeParts DEF EditorOK, PipeOK, CallsOK, DelOK, SrvOK, CountOK

LEMMA ModelNotNone == \A m \in Model : m # None /\ m.id \in Dag
BY DagEditorAssumption DEF Model, None

LEMMA EditInRange ==
  ASSUME CountOK, edits < MaxEdits
  PROVE  edits + 1 \in Edit /\ edits + 1 \in 0..MaxEdits
BY DagEditorAssumption DEF CountOK, Edit

LEMMA EmptyDoc == {} \in Doc /\ \A a, b \in Doc : a \ b \in Doc
BY DEF Doc

LEMMA SpecIsRequest == \A m \in Model : DagSpecFrom(m) \in Request
BY DEF Model, DagSpecFrom, Request

(* flushSave adds at most the model's request *)
LEMMA FlushSaveTypes ==
  ASSUME NEW m \in Model \cup {None}, NEW i \in BOOLEAN, NEW w \in BOOLEAN,
         NEW sent \in SUBSET Request, FlushSave(m, i, w, sent)
  PROVE  PipeOK'
<1>1. m # None => DagSpecFrom(m) \in Request BY SpecIsRequest
<1>2. reqs' \subseteq Request BY <1>1, Zenon DEF FlushSave
<1>3. saveInflight' \in BOOLEAN /\ savePending' \in BOOLEAN BY Zenon DEF FlushSave
<1> QED BY <1>2, <1>3 DEF PipeOK

LEMMA SaveDagTypes ==
  ASSUME EditorOK, shown, NEW m \in Model, SaveDag(m), UNCHANGED <<shown, view>>
  PROVE  EditorOK'
<1>1. [m EXCEPT !.base = None] \in Model BY DEF Model
<1>2. D' \in Model BY <1>1 DEF SaveDag
<1>3. timer' \in {"none", "armed", "fired"} /\ badge' \in {"saved", "saving", "invalid", "error"}
  BY DEF SaveDag, EditorOK
<1>4. D' # None BY <1>2, ModelNotNone
<1> QED BY <1>2, <1>3, <1>4 DEF EditorOK

LEMMA ReflectTypes == \A m : ReflectSaveState(m) \in {"saved", "saving", "invalid", "error"}
BY DEF ReflectSaveState

LEMMA ShownModel == ASSUME EditorOK, shown PROVE D \in Model
BY DEF EditorOK

-----------------------------------------------------------------------------
(* One step per action. *)

LEMMA EditModelTypes ==
  ASSUME TypeOK, NEW valid \in BOOLEAN, EditModel(valid)
  PROVE  TypeOK'
<1> DEFINE m == [D EXCEPT !.doc = @ \cup {edits + 1}, !.valid = valid]
<1>1. D \in Model /\ EditorOK BY TypeParts, ShownModel DEF EditModel
<1>2. edits + 1 \in Edit /\ edits + 1 \in 0..MaxEdits BY TypeParts, EditInRange DEF EditModel
<1>3. m \in Model BY <1>1, <1>2 DEF Model, Doc
<1>4. EditorOK' BY <1>1, <1>3, SaveDagTypes DEF EditModel
<1>5. PipeOK' /\ CallsOK' /\ DelOK' /\ SrvOK'
  BY PartsUnchanged DEF EditModel, pipe
<1>6. CountOK' BY <1>2, TypeParts DEF EditModel, CountOK
<1> QED BY <1>4, <1>5, <1>6, TypePartsNext

LEMMA GraphMutateTypes ==
  ASSUME TypeOK, GraphMutate
  PROVE  TypeOK'
<1> DEFINE b == IF D.base = None THEN [id |-> D.id, doc |-> D.doc, valid |-> D.valid] ELSE D.base
<1> DEFINE m == [D EXCEPT !.doc = @ \cup {edits + 1}, !.base = b]
<1>1. D \in Model /\ EditorOK BY TypeParts, ShownModel DEF GraphMutate
<1>2. edits + 1 \in Edit /\ edits + 1 \in 0..MaxEdits BY TypeParts, EditInRange DEF GraphMutate
<1>3. b \in [id : Dag, doc : Doc, valid : BOOLEAN] \cup {None} BY <1>1 DEF Model
<1>4. m \in Model BY <1>1, <1>2, <1>3 DEF Model, Doc
<1>5. D' = m BY <1>1 DEF GraphMutate, Model
<1>6. D' # None BY <1>4, <1>5, ModelNotNone
<1>7. EditorOK' BY <1>1, <1>4, <1>5, <1>6, ReflectTypes DEF GraphMutate, EditorOK
<1>8. PipeOK' /\ CallsOK' /\ DelOK' /\ SrvOK'
  BY PartsUnchanged DEF GraphMutate, pipe
<1>9. CountOK' BY <1>2, TypeParts DEF GraphMutate, CountOK
<1> QED BY <1>7, <1>8, <1>9, TypePartsNext

LEMMA GraphSessionTypes ==
  ASSUME TypeOK, GraphSaveSession \/ GraphDiscardSession \/ RenderDagPage
  PROVE  TypeOK'
<1>1. D \in Model /\ EditorOK
  BY TypeParts, ShownModel DEF GraphSaveSession, GraphDiscardSession, RenderDagPage
<1>2. EditorOK'
  <2>1. CASE GraphSaveSession
    <3>1. CASE D.valid
      <4>1. [D EXCEPT !.base = None] \in Model BY <1>1 DEF Model
      <4> QED BY <1>1, <2>1, <3>1, <4>1, SaveDagTypes DEF GraphSaveSession
    <3>2. CASE ~D.valid BY <1>1, <2>1, <3>2 DEF GraphSaveSession, EditorOK
    <3> QED BY <3>1, <3>2
  <2>2. CASE GraphDiscardSession
    <3>1. D.base \in [id : Dag, doc : Doc, valid : BOOLEAN]
      BY <1>1, <2>2 DEF GraphDiscardSession, Model
    <3>2. D' \in Model BY <1>1, <2>2, <3>1 DEF GraphDiscardSession, Model
    <3>3. D' # None BY <3>2, ModelNotNone
    <3>4. badge' \in {"saved", "saving", "invalid", "error"}
      BY <2>2 DEF GraphDiscardSession, ReflectSaveState
    <3> QED BY <1>1, <2>2, <3>2, <3>3, <3>4 DEF GraphDiscardSession, EditorOK
  <2>3. CASE RenderDagPage BY <1>1, <2>3, ReflectTypes DEF RenderDagPage, EditorOK
  <2> QED BY <2>1, <2>2, <2>3
<1>3. PipeOK' /\ CallsOK' /\ DelOK' /\ SrvOK' /\ CountOK'
  BY PartsUnchanged DEF GraphSaveSession, GraphDiscardSession, RenderDagPage, pipe, counters
<1> QED BY <1>2, <1>3, TypePartsNext

LEMMA FlushPendingTypes ==
  ASSUME TypeOK, FlushPending, UNCHANGED <<D, shown, view, badge>>
  PROVE  EditorOK' /\ PipeOK'
<1>1. EditorOK' BY TypeParts DEF FlushPending, EditorOK
<1>2. PipeOK'
  <2>1. CASE timer = "none" BY <2>1, PartsUnchanged DEF FlushPending, pipe
  <2>2. CASE timer # "none"
    BY <2>2, TypeParts, FlushSaveTypes DEF FlushPending, EditorOK, PipeOK
  <2> QED BY <2>1, <2>2
<1> QED BY <1>1, <1>2

LEMMA ShowDagTypes ==
  ASSUME TypeOK, NEW s \in Slot, NEW d \in Dag, ShowDag(s, d)
  PROVE  TypeOK'
<1>1. [op |-> "open", id |-> d, pc |-> "flush"] \in Call BY DEF Call
<1>2. CallsOK' BY <1>1, TypeParts DEF ShowDag, Waits, CallsOK
<1>3. EditorOK' /\ PipeOK' BY FlushPendingTypes DEF ShowDag, Waits
<1>4. DelOK' /\ SrvOK' BY PartsUnchanged DEF ShowDag
<1>5. CountOK' BY TypeParts, DagEditorAssumption DEF ShowDag, Click, CountOK
<1> QED BY <1>2, <1>3, <1>4, <1>5, TypePartsNext

LEMMA TriggerTypes ==
  ASSUME TypeOK, NEW s \in Slot, TriggerActiveDag(s)
  PROVE  TypeOK'
<1>1. D \in Model BY TypeParts, ShownModel DEF TriggerActiveDag
<1> DEFINE c == [op |-> "trigger", id |-> D.id, want |-> D.doc, ok |-> D.valid /\ D.base = None]
<1>2. c \in Call
  <2>1. D.id \in Dag /\ D.doc \in Doc BY <1>1 DEF Model
  <2>2. (D.valid /\ D.base = None) \in BOOLEAN OBVIOUS
  <2> QED BY <2>1, <2>2 DEF Call
<1>3. CallsOK' BY <1>2, TypeParts DEF TriggerActiveDag, Waits, CallsOK
<1>4. EditorOK' /\ PipeOK' BY FlushPendingTypes DEF TriggerActiveDag, Waits
<1>5. DelOK' /\ SrvOK' BY PartsUnchanged DEF TriggerActiveDag
<1>6. CountOK' BY TypeParts, DagEditorAssumption DEF TriggerActiveDag, Click, CountOK
<1> QED BY <1>3, <1>4, <1>5, <1>6, TypePartsNext

LEMMA ListTypes ==
  ASSUME TypeOK, LoadDags \/ RenderDags
  PROVE  TypeOK'
<1>1. EditorOK'
  <2>1. CASE LoadDags BY <2>1, TypeParts DEF LoadDags, EditorOK
  <2>2. CASE RenderDags
    <3>1. shown' \in BOOLEAN /\ ~shown' BY <2>2 DEF RenderDags
    <3> QED BY <2>2, <3>1, TypeParts DEF RenderDags, EditorOK
  <2> QED BY <2>1, <2>2
<1>2. PipeOK' /\ CallsOK' /\ DelOK' /\ SrvOK'
  BY PartsUnchanged DEF LoadDags, RenderDags, pipe
<1>3. CountOK' BY TypeParts, DagEditorAssumption DEF LoadDags, RenderDags, Click, CountOK, counters
<1> QED BY <1>1, <1>2, <1>3, TypePartsNext

LEMMA DeleteTypes ==
  ASSUME TypeOK, AskDelete \/ CancelDelete \/ ConfirmDelete \/ DeleteSend \/ DeleteReturns
  PROVE  TypeOK'
<1>1. EditorOK'
  BY TypeParts DEF EditorOK, AskDelete, CancelDelete, ConfirmDelete, DeleteSend, DeleteReturns, editor
<1>2. PipeOK'
  <2>1. CASE ConfirmDelete
    <3>1. savePending' \in BOOLEAN BY <2>1 DEF ConfirmDelete
    <3> QED BY <2>1, <3>1, TypeParts DEF ConfirmDelete, PipeOK
  <2>2. CASE ~ConfirmDelete
    BY <2>2, PartsUnchanged DEF AskDelete, CancelDelete, DeleteSend, DeleteReturns, pipe
  <2> QED BY <2>1, <2>2
<1>3. CallsOK' /\ SrvOK'
  BY PartsUnchanged DEF AskDelete, CancelDelete, ConfirmDelete, DeleteSend, DeleteReturns
<1>4. DelOK'
  <2>1. deleting' \in BOOLEAN
    BY TypeParts, Zenon DEF DelOK, AskDelete, CancelDelete, ConfirmDelete, DeleteSend, DeleteReturns
  <2>2. del' \in [pc : {"asked", "waiting", "sent", "deleted", "refused"}, id : Dag] \cup {NoDel}
    <3>1. CASE AskDelete
      <4>1. D.id \in Dag BY <3>1, TypeParts, ShownModel, ModelNotNone DEF AskDelete
      <4> QED BY <3>1, <4>1 DEF AskDelete
    <3>2. CASE CancelDelete \/ DeleteReturns BY <3>2 DEF CancelDelete, DeleteReturns
    <3>3. CASE ConfirmDelete \/ DeleteSend
      BY <3>3, TypeParts DEF DelOK, ConfirmDelete, DeleteSend, NoDel
    <3> QED BY <3>1, <3>2, <3>3
  <2> QED BY <2>1, <2>2 DEF DelOK
<1>5. CountOK'
  <2>1. failed' \in BOOLEAN
    BY TypeParts, Zenon DEF CountOK, AskDelete, CancelDelete, ConfirmDelete, DeleteSend, DeleteReturns
  <2> QED BY <2>1, TypeParts, DagEditorAssumption DEF CountOK, AskDelete, CancelDelete,
        ConfirmDelete, DeleteSend, DeleteReturns, Click, counters
<1> QED BY <1>1, <1>2, <1>3, <1>4, <1>5, TypePartsNext

LEMMA TimerFiresTypes ==
  ASSUME TypeOK, TimerFires
  PROVE  TypeOK'
<1>1. EditorOK' BY TypeParts DEF TimerFires, EditorOK
<1>2. PipeOK' BY TypeParts, FlushSaveTypes DEF TimerFires, EditorOK, PipeOK
<1>3. CallsOK' /\ DelOK' /\ SrvOK' /\ CountOK' BY PartsUnchanged DEF TimerFires, counters
<1> QED BY <1>1, <1>2, <1>3, TypePartsNext

LEMMA SaveReturnsTypes ==
  ASSUME TypeOK, NEW r \in reqs, SaveReturns(r)
  PROVE  TypeOK'
<1> DEFINE m == IF r.st = "ok" /\ D # None THEN [D EXCEPT !.hash = Hash(r.id, r.doc)] ELSE D
<1>1. r.id \in Dag /\ r.doc \in Doc BY TypeParts DEF PipeOK, Request
<1>2. m \in Model \cup {None} /\ (D # None => m # None)
  <2>1. CASE D = None BY <2>1
  <2>2. CASE D \in Model
    <3>1. m \in Model BY <1>1, <2>2 DEF Model, Hash
    <3> QED BY <3>1, ModelNotNone
  <2> QED BY <2>1, <2>2, TypeParts DEF EditorOK
<1>3. D' = m /\ AfterSave(m, r) BY DEF SaveReturns
<1>4. EditorOK' BY <1>2, <1>3, TypeParts DEF SaveReturns, EditorOK
<1>5. PipeOK'
  <2>1. CASE savePending
    <3>1. FlushSave(m, FALSE, FALSE, reqs \ {r}) BY <1>3, <2>1 DEF AfterSave
    <3>2. reqs \ {r} \in SUBSET Request BY TypeParts DEF PipeOK
    <3> QED BY <1>2, <3>1, <3>2, FlushSaveTypes
  <2>2. CASE ~savePending
    <3>1. saveInflight' \in BOOLEAN BY <1>3, <2>2 DEF AfterSave
    <3> QED BY <1>3, <2>2, <3>1, TypeParts DEF AfterSave, PipeOK
  <2> QED BY <2>1, <2>2
<1>6. CallsOK' /\ DelOK' /\ SrvOK' BY PartsUnchanged DEF SaveReturns
<1>7. CountOK'
  <2>1. failed' \in BOOLEAN BY Zenon DEF SaveReturns
  <2> QED BY <2>1, TypeParts DEF SaveReturns, CountOK, counters
<1> QED BY <1>4, <1>5, <1>6, <1>7, TypePartsNext

LEMMA CallFields ==
  \A c \in Call :
    /\ c.op = "open" => c.id \in Dag
    /\ c.op = "open" /\ c.pc = "flush" => [c EXCEPT !.pc = "sent"] \in Call
    /\ c.op = "open" /\ c.pc = "got" => c.got \in Stored \cup {None}
    /\ c.op = "trigger" => c.want \in Doc /\ [c EXCEPT !.ok = FALSE] \in Call
<1> SUFFICES ASSUME NEW c \in Call
             PROVE  /\ c.op = "open" => c.id \in Dag
                    /\ c.op = "open" /\ c.pc = "flush" => [c EXCEPT !.pc = "sent"] \in Call
                    /\ c.op = "open" /\ c.pc = "got" => c.got \in Stored \cup {None}
                    /\ c.op = "trigger" => c.want \in Doc /\ [c EXCEPT !.ok = FALSE] \in Call
  OBVIOUS
<1>1. CASE c = Idle BY <1>1 DEF Idle
<1>2. CASE c \in [op : {"open"}, id : Dag, pc : {"flush", "sent"}]
  <2>1. [c EXCEPT !.pc = "sent"] \in [op : {"open"}, id : Dag, pc : {"flush", "sent"}] BY <1>2
  <2>2. c.op = "open" /\ c.id \in Dag /\ c.pc \in {"flush", "sent"} BY <1>2
  <2>3. [c EXCEPT !.pc = "sent"] \in Call BY <2>1 DEF Call
  <2> QED BY <2>2, <2>3
<1>3. CASE c \in [op : {"open"}, id : Dag, pc : {"got"}, got : Stored \cup {None}]
  <2>1. c.op = "open" /\ c.id \in Dag /\ c.pc = "got" /\ c.got \in Stored \cup {None} BY <1>3
  <2> QED BY <2>1
<1>4. CASE c \in [op : {"trigger"}, id : Dag, want : Doc, ok : BOOLEAN]
  <2>1. [c EXCEPT !.ok = FALSE] \in [op : {"trigger"}, id : Dag, want : Doc, ok : BOOLEAN]
    BY <1>4
  <2>2. c.op = "trigger" /\ c.want \in Doc BY <1>4
  <2>3. [c EXCEPT !.ok = FALSE] \in Call BY <2>1 DEF Call
  <2> QED BY <2>2, <2>3
<1> QED BY <1>1, <1>2, <1>3, <1>4 DEF Call

LEMMA FetchTypes ==
  ASSUME TypeOK, NEW s \in Slot, ShowDagFetch(s) \/ GetDag(s)
  PROVE  TypeOK'
<1>1. calls \in [Slot -> Call] /\ calls[s] \in Call BY TypeParts DEF CallsOK
<1>2. CallsOK'
  <2>1. CASE ShowDagFetch(s)
    <3>1. [calls[s] EXCEPT !.pc = "sent"] \in Call BY <1>1, <2>1, CallFields DEF ShowDagFetch
    <3> QED BY <1>1, <2>1, <3>1 DEF ShowDagFetch, CallsOK
  <2>2. CASE GetDag(s)
    <3>1. PICK got \in {srv[calls[s].id]} \cup (IF "fetch" \in Faults THEN {None} ELSE {}) :
            calls' = [calls EXCEPT ![s] = [op |-> "open", id |-> calls[s].id,
                                           pc |-> "got", got |-> got]]
      BY <2>2 DEF GetDag
    <3>2. calls[s].id \in Dag BY <1>1, <2>2, CallFields DEF GetDag
    <3>3. got \in Stored \cup {None} BY <3>2, TypeParts DEF SrvOK
    <3>4. [op |-> "open", id |-> calls[s].id, pc |-> "got", got |-> got] \in Call
      BY <3>2, <3>3 DEF Call
    <3> QED BY <1>1, <3>1, <3>4 DEF CallsOK
  <2> QED BY <2>1, <2>2
<1>3. EditorOK' /\ PipeOK' /\ DelOK' /\ SrvOK' /\ CountOK'
  BY PartsUnchanged DEF ShowDagFetch, GetDag, editor, pipe, counters
<1> QED BY <1>2, <1>3, TypePartsNext

LEMMA ShowDagRenderTypes ==
  ASSUME TypeOK, NEW s \in Slot, ShowDagRender(s)
  PROVE  TypeOK'
<1> DEFINE c == calls[s]
           open == c.got # None /\ c.got.live
           m == [id |-> c.id, doc |-> c.got.doc, hash |-> Hash(c.id, c.got.doc),
                 valid |-> TRUE, base |-> None]
<1>1. calls \in [Slot -> Call] /\ c \in Call BY TypeParts DEF CallsOK
<1>2. c.id \in Dag /\ c.got \in Stored \cup {None} BY <1>1, CallFields DEF ShowDagRender
<1>3. open => m \in Model
  <2> SUFFICES ASSUME open PROVE m \in Model OBVIOUS
  <2>1. c.got.doc \in Doc BY <1>2 DEF Stored
  <2> QED BY <1>2, <2>1 DEF Model, Hash
<1>4. /\ D' = IF open THEN m ELSE None
      /\ shown' = open
      /\ badge' = IF open THEN ReflectSaveState(m) ELSE badge
      /\ view' = "dag" /\ timer' = timer
  BY DEF ShowDagRender
<1>5. EditorOK'
  <2>1. CASE open
    <3>1. D' \in Model /\ D' # None BY <1>3, <1>4, <2>1, ModelNotNone
    <3>2. shown' \in BOOLEAN BY <1>4
    <3>3. badge' \in {"saved", "saving", "invalid", "error"} BY <1>4, <2>1, ReflectTypes
    <3> QED BY <1>4, <3>1, <3>2, <3>3, TypeParts DEF EditorOK
  <2>2. CASE ~open
    <3>1. D' = None /\ badge' = badge BY <1>4, <2>2
    <3>2. shown' \in BOOLEAN /\ ~shown' BY <1>4, <2>2
    <3> QED BY <1>4, <3>1, <3>2, TypeParts DEF EditorOK
  <2> QED BY <2>1, <2>2
<1>6. CallsOK'
  <2> DEFINE f == [calls EXCEPT ![s] = Idle]
  <2>1. f \in [Slot -> Call] BY <1>1 DEF Call
  <2>2. \A q \in Slot : (IF f[q].op = "trigger" THEN [f[q] EXCEPT !.ok = FALSE] ELSE f[q]) \in Call
    BY <2>1, CallFields
  <2>3. calls' = Replaced(f) BY DEF ShowDagRender
  <2> QED BY <2>2, <2>3 DEF CallsOK, Replaced
<1>7. PipeOK' /\ DelOK' /\ SrvOK'
  BY PartsUnchanged DEF ShowDagRender, pipe
<1>8. CountOK'
  <2>1. crossed' \in BOOLEAN
    BY TypeParts DEF ShowDagRender, CountOK
  <2> QED
    BY <2>1, TypeParts DEF ShowDagRender, CountOK, counters
<1> QED BY <1>5, <1>6, <1>7, <1>8, TypePartsNext

LEMMA TriggerSendTypes ==
  ASSUME TypeOK, NEW s \in Slot, TriggerSend(s)
  PROVE  TypeOK'
<1>1. calls \in [Slot -> Call] /\ calls[s] \in Call BY TypeParts DEF CallsOK
<1>2. CallsOK' BY <1>1 DEF TriggerSend, CallsOK, Call
<1>3. missed' \in Doc
  <2>1. calls[s].want \in Doc BY <1>1, CallFields DEF TriggerSend
  <2>2. D # None => srv[D.id].doc \in Doc
    BY TypeParts, ModelNotNone DEF EditorOK, SrvOK, Stored
  <2> QED BY <2>1, <2>2, EmptyDoc DEF TriggerSend
<1>4. CountOK' BY <1>3, TypeParts DEF TriggerSend, CountOK, counters
<1>5. EditorOK' /\ PipeOK' /\ DelOK' /\ SrvOK'
  BY PartsUnchanged DEF TriggerSend, editor, pipe
<1> QED BY <1>2, <1>4, <1>5, TypePartsNext

LEMMA DeleteDagTypes ==
  ASSUME TypeOK, DeleteDag
  PROVE  TypeOK'
<1>1. del \in [pc : {"asked", "waiting", "sent", "deleted", "refused"}, id : Dag]
  BY TypeParts DEF DeleteDag, DelOK, NoDel
<1>2. DelOK' BY <1>1, TypeParts DEF DeleteDag, DelOK
<1>3. SrvOK'
  <2>1. srv[del.id] \in Stored BY <1>1, TypeParts DEF SrvOK
  <2>2. [srv[del.id] EXCEPT !.live = FALSE] \in Stored BY <2>1 DEF Stored
  <2> QED BY <1>1, <2>2, TypeParts DEF DeleteDag, SrvOK
<1>4. EditorOK' /\ PipeOK' /\ CallsOK' /\ CountOK'
  BY PartsUnchanged DEF DeleteDag, editor, pipe, counters
<1> QED BY <1>2, <1>3, <1>4, TypePartsNext

(* a build moves on: the request changes nothing but its status *)
LEMMA StatusTypes ==
  ASSUME TypeOK, NEW r \in reqs,
         NEW st \in {"sent", "checked", "ok", "conflict", "failed", "unheard"},
         reqs' = (reqs \ {r}) \cup {[r EXCEPT !.st = st]},
         UNCHANGED <<saveInflight, savePending>>
  PROVE  PipeOK'
<1>1. [r EXCEPT !.st = st] \in Request BY TypeParts DEF PipeOK, Request
<1> QED BY <1>1, TypeParts DEF PipeOK

LEMMA BuildTypes ==
  ASSUME TypeOK, NEW r \in reqs, BuildCheck(r) \/ BuildWrite(r) \/ LoseSave(r)
  PROVE  TypeOK'
<1>1. UNCHANGED <<saveInflight, savePending>> BY DEF BuildCheck, BuildWrite, LoseSave
<1>2. PICK st \in {"sent", "checked", "ok", "conflict", "failed", "unheard"} :
        reqs' = (reqs \ {r}) \cup {[r EXCEPT !.st = st]}
  <2>1. CASE BuildCheck(r) BY <2>1 DEF BuildCheck
  <2>2. CASE BuildWrite(r) BY <2>2 DEF BuildWrite
  <2>3. CASE LoseSave(r)
    <3>1. r \in Request BY TypeParts DEF PipeOK
    <3>2. CASE r.st = "ok"
      <4>1. reqs' = (reqs \ {r}) \cup {[r EXCEPT !.st = "unheard"]}
        BY <2>3, <3>1, <3>2 DEF LoseSave, Request
      <4> QED BY <4>1
    <3>3. CASE r.st # "ok"
      <4>1. reqs' = (reqs \ {r}) \cup {[r EXCEPT !.st = "failed"]}
        BY <2>3, <3>1, <3>3 DEF LoseSave, Request
      <4> QED BY <4>1
    <3> QED BY <3>2, <3>3
  <2> QED BY <2>1, <2>2, <2>3
<1>3. PipeOK' BY <1>1, <1>2, StatusTypes
<1>4. SrvOK'
  <2>1. CASE BuildWrite(r)
    <3>1. r.id \in Dag /\ r.doc \in Doc BY TypeParts DEF PipeOK, Request
    <3>2. [doc |-> r.doc, live |-> TRUE] \in Stored BY <3>1 DEF Stored
    <3> QED BY <2>1, <3>1, <3>2, TypeParts DEF BuildWrite, SrvOK
  <2>2. CASE ~BuildWrite(r) BY <2>2, PartsUnchanged DEF BuildCheck, LoseSave
  <2> QED BY <2>1, <2>2
<1>5. EditorOK' /\ CallsOK' /\ DelOK' /\ CountOK'
  BY PartsUnchanged DEF BuildCheck, BuildWrite, LoseSave, editor, counters
<1> QED BY <1>3, <1>4, <1>5, TypePartsNext

LEMMA OtherSavesTypes ==
  ASSUME TypeOK, NEW d \in Dag, OtherSaves(d)
  PROVE  TypeOK'
<1>1. -(others + 1) \in Edit /\ others' \in 0..MaxOthers
  BY TypeParts, DagEditorAssumption DEF OtherSaves, CountOK, Edit
<1>2. SrvOK'
  <2>1. srv[d] \in Stored BY TypeParts DEF SrvOK
  <2>2. [srv[d] EXCEPT !.doc = @ \cup {-(others + 1)}] \in Stored BY <1>1, <2>1 DEF Stored, Doc
  <2> QED BY <2>2, TypeParts DEF OtherSaves, SrvOK
<1>3. CountOK' BY <1>1, TypeParts DEF OtherSaves, CountOK
<1>4. EditorOK' /\ PipeOK' /\ CallsOK' /\ DelOK'
  BY PartsUnchanged DEF OtherSaves, editor, pipe
<1> QED BY <1>2, <1>3, <1>4, TypePartsNext

LEMMA TypeInit == Init => TypeOK
<1> SUFFICES ASSUME Init PROVE TypeOK OBVIOUS
<1>1. EditorOK
  <2>1. shown \in BOOLEAN /\ ~shown BY DEF Init
  <2> QED BY <2>1 DEF Init, EditorOK
<1>2. PipeOK BY DEF Init, PipeOK
<1>3. CallsOK BY DEF Init, CallsOK, Call
<1>4. DelOK BY DEF Init, DelOK
<1>5. SrvOK BY EmptyDoc DEF Init, SrvOK, Stored
<1>6. CountOK
  <2>1. failed \in BOOLEAN /\ crossed \in BOOLEAN BY DEF Init
  <2> QED BY <2>1, EmptyDoc, DagEditorAssumption DEF Init, CountOK
<1> QED BY <1>1, <1>2, <1>3, <1>4, <1>5, <1>6, TypeParts

LEMMA TypeStep == TypeOK /\ [Next]_vars => TypeOK'
<1> SUFFICES ASSUME TypeOK, [Next]_vars PROVE TypeOK' OBVIOUS
<1>1. CASE User
  BY <1>1, EditModelTypes, GraphMutateTypes, GraphSessionTypes, TriggerTypes, ShowDagTypes,
     ListTypes, DeleteTypes DEF User
<1>2. CASE Console
  BY <1>2, TimerFiresTypes, ListTypes, DeleteTypes, SaveReturnsTypes, FetchTypes,
     ShowDagRenderTypes, TriggerSendTypes DEF Console
<1>3. CASE Server BY <1>3, DeleteDagTypes, BuildTypes, FetchTypes DEF Server
<1>4. CASE Environment BY <1>4, BuildTypes, OtherSavesTypes DEF Environment
<1>5. CASE UNCHANGED vars
  BY <1>5, PartsUnchanged, TypePartsNext DEF vars, editor, pipe, counters
<1> QED BY <1>1, <1>2, <1>3, <1>4, <1>5 DEF Next

(* Every variable of the editor keeps its type, and the page of a workflow is on
   the screen only while the editor holds a model (showDag and renderDags). *)
THEOREM EditorTypeCorrect == Spec => []TypeOK
BY TypeInit, TypeStep, PTL DEF Spec

-----------------------------------------------------------------------------
(***************************************************************************)
(* One save at a time.  The flag covers every request, a confirmed delete  *)
(* keeps flushSave from setting it, and the DELETE waits until it is down. *)
(***************************************************************************)
Committed == del.pc \in {"waiting", "sent", "deleted", "refused"} => deleting
Alone == del.pc \in {"sent", "deleted", "refused"} => ~saveInflight

SafeInv == TypeOK /\ OneSaveAtATime /\ Committed /\ Alone

LEMMA Bools == TypeOK => saveInflight \in BOOLEAN /\ savePending \in BOOLEAN /\ deleting \in BOOLEAN
BY DEF TypeOK

LEMMA OnlyRequest == ASSUME OneSaveAtATime, NEW r \in reqs PROVE reqs = {r} /\ saveInflight
BY DEF OneSaveAtATime

(* what flushSave may send *)
LEMMA FlushSaveSends ==
  ASSUME NEW m \in Model \cup {None}, NEW i \in BOOLEAN, NEW w, NEW sent, FlushSave(m, i, w, sent)
  PROVE  /\ deleting => saveInflight' = i /\ reqs' = sent
         /\ i => saveInflight' /\ reqs' = sent
         /\ ~i /\ ~deleting => saveInflight'
         /\ \/ reqs' = sent
            \/ ~i /\ ~deleting /\ m \in Model /\ reqs' = sent \cup {DagSpecFrom(m)}
<1>1. m = None \/ m \in Model OBVIOUS
<1>2. CASE deleting BY <1>2, Zenon DEF FlushSave
<1>3. CASE ~deleting /\ i BY <1>3, Zenon DEF FlushSave
<1>4. CASE ~deleting /\ ~i
  <2>1. saveInflight' /\ reqs' = sent \cup (IF m = None THEN {} ELSE {DagSpecFrom(m)})
    BY <1>4, Zenon DEF FlushSave
  <2>2. CASE m = None BY <1>4, <2>1, <2>2
  <2>3. CASE m \in Model BY <1>4, <2>1, <2>3, ModelNotNone
  <2> QED BY <1>1, <2>2, <2>3
<1> QED BY <1>2, <1>3, <1>4

(* a flush of the editor's own pipeline *)
LEMMA FlushKeeps ==
  ASSUME SafeInv, NEW w, FlushSave(D, saveInflight, w, reqs), UNCHANGED <<del, deleting>>
  PROVE  OneSaveAtATime' /\ Committed' /\ Alone'
<1>1. D \in Model \cup {None} /\ saveInflight \in BOOLEAN /\ deleting \in BOOLEAN
  BY Bools, TypeParts DEF SafeInv, EditorOK
<1>2. /\ deleting => saveInflight' = saveInflight /\ reqs' = reqs
      /\ saveInflight => saveInflight' /\ reqs' = reqs
      /\ ~saveInflight /\ ~deleting => saveInflight'
      /\ \/ reqs' = reqs
         \/ ~saveInflight /\ ~deleting /\ reqs' = reqs \cup {DagSpecFrom(D)}
  BY <1>1, FlushSaveSends
<1>3. OneSaveAtATime' BY <1>1, <1>2 DEF SafeInv, OneSaveAtATime
<1>4. Committed' BY DEF SafeInv, Committed
<1>5. Alone' BY <1>1, <1>2 DEF SafeInv, Committed, Alone
<1> QED BY <1>3, <1>4, <1>5

LEMMA SaveReturnsKeeps ==
  ASSUME SafeInv, NEW r \in reqs, SaveReturns(r)
  PROVE  OneSaveAtATime' /\ Committed' /\ Alone'
<1>1. reqs = {r} /\ saveInflight BY OnlyRequest DEF SafeInv
<1>2. PICK m \in Model \cup {None} : AfterSave(m, r)
  <2>1. D' \in Model \cup {None} BY SaveReturnsTypes DEF SafeInv, TypeOK
  <2>2. AfterSave(D', r) BY DEF SaveReturns
  <2> QED BY <2>1, <2>2
<1>3. UNCHANGED <<del, deleting>> BY DEF SaveReturns
<1>4. saveInflight \in BOOLEAN /\ savePending \in BOOLEAN /\ deleting \in BOOLEAN
  BY Bools DEF SafeInv
<1>5. /\ reqs' = {} \/ (saveInflight' /\ \E q : reqs' = {q})
  <2>1. CASE savePending
    <3>1. FlushSave(m, FALSE, FALSE, {}) BY <1>1, <1>2, <2>1 DEF AfterSave
    <3>2. \/ reqs' = {}
          \/ ~deleting /\ m \in Model /\ reqs' = {} \cup {DagSpecFrom(m)}
      BY <3>1, FlushSaveSends
    <3>3. ~deleting => saveInflight' BY <3>1, FlushSaveSends
    <3> QED BY <3>2, <3>3
  <2>2. CASE ~savePending BY <1>1, <1>2, <2>2 DEF AfterSave
  <2> QED BY <1>4, <2>1, <2>2
<1>6. OneSaveAtATime' BY <1>5 DEF OneSaveAtATime
<1>7. Committed' BY <1>3 DEF SafeInv, Committed
<1>8. Alone' BY <1>1, <1>3 DEF SafeInv, Alone
<1> QED BY <1>6, <1>7, <1>8

LEMMA SafeUnchanged ==
  ASSUME SafeInv, UNCHANGED <<saveInflight, reqs, deleting>>,
         del' = del \/ del'.pc \in {"idle", "asked"}
  PROVE  OneSaveAtATime' /\ Committed' /\ Alone'
BY DEF SafeInv, OneSaveAtATime, Committed, Alone

LEMMA SafeStep == SafeInv /\ [Next]_vars => SafeInv'
<1> SUFFICES ASSUME SafeInv, [Next]_vars PROVE OneSaveAtATime' /\ Committed' /\ Alone'
  BY TypeStep DEF SafeInv
<1>1. ASSUME NEW valid \in BOOLEAN, EditModel(valid)
      PROVE  OneSaveAtATime' /\ Committed' /\ Alone'
  BY <1>1, SafeUnchanged DEF EditModel, pipe
<1>2. CASE GraphMutate \/ GraphSaveSession \/ GraphDiscardSession \/ RenderDagPage
  BY <1>2, SafeUnchanged DEF GraphMutate, GraphSaveSession, GraphDiscardSession, RenderDagPage, pipe
<1>3. CASE LoadDags \/ RenderDags BY <1>3, SafeUnchanged DEF LoadDags, RenderDags, pipe
<1>4. CASE FlushPending /\ UNCHANGED <<del, deleting>>
  <2>1. CASE timer = "none" BY <1>4, <2>1, SafeUnchanged DEF FlushPending, pipe
  <2>2. CASE timer # "none" BY <1>4, <2>2, FlushKeeps DEF FlushPending
  <2> QED BY <2>1, <2>2
<1>5. CASE \E s \in Slot : TriggerActiveDag(s) \/ \E d \in Dag : ShowDag(s, d)
  <2>1. FlushPending /\ UNCHANGED <<del, deleting>> BY <1>5 DEF TriggerActiveDag, ShowDag, Waits
  <2> QED BY <1>4, <2>1
<1>6. CASE TimerFires BY <1>6, FlushKeeps DEF TimerFires
<1>7. CASE AskDelete \/ CancelDelete
  BY <1>7, SafeUnchanged DEF AskDelete, CancelDelete, NoDel, pipe
<1>8. CASE ConfirmDelete
  <2>1. del'.pc = "waiting" BY <1>8, TypeParts DEF SafeInv, ConfirmDelete, DelOK, NoDel
  <2>2. deleting' BY <1>8 DEF ConfirmDelete
  <2>3. OneSaveAtATime' BY <1>8 DEF ConfirmDelete, SafeInv, OneSaveAtATime
  <2> QED BY <2>1, <2>2, <2>3 DEF Committed, Alone
<1>9. CASE DeleteSend
  <2>1. deleting /\ ~saveInflight BY <1>9 DEF DeleteSend, Flushed, SafeInv, Committed
  <2>2. UNCHANGED <<saveInflight, reqs, deleting>> BY <1>9 DEF DeleteSend, pipe
  <2> QED BY <2>1, <2>2 DEF SafeInv, OneSaveAtATime, Committed, Alone
<1>10. CASE DeleteDag
  <2>1. deleting /\ ~saveInflight BY <1>10 DEF DeleteDag, SafeInv, Committed, Alone
  <2>2. UNCHANGED <<saveInflight, reqs, deleting>> BY <1>10 DEF DeleteDag, pipe
  <2> QED BY <2>1, <2>2 DEF SafeInv, OneSaveAtATime, Committed, Alone
<1>11. CASE DeleteReturns
  <2>1. UNCHANGED <<saveInflight, reqs>> /\ del'.pc = "idle"
    BY <1>11 DEF DeleteReturns, NoDel, pipe
  <2> QED BY <2>1 DEF SafeInv, OneSaveAtATime, Committed, Alone
<1>12. ASSUME NEW r \in reqs, BuildCheck(r) \/ BuildWrite(r) \/ LoseSave(r)
       PROVE  OneSaveAtATime' /\ Committed' /\ Alone'
  <2>1. reqs = {r} /\ saveInflight BY OnlyRequest DEF SafeInv
  <2>2. UNCHANGED <<saveInflight, del, deleting>> BY <1>12 DEF BuildCheck, BuildWrite, LoseSave
  <2>3. \E q : reqs' = {q}
    <3>1. \E q : reqs' = (reqs \ {r}) \cup {q} BY <1>12 DEF BuildCheck, BuildWrite, LoseSave
    <3> QED BY <2>1, <3>1
  <2> QED BY <2>1, <2>2, <2>3 DEF SafeInv, OneSaveAtATime, Committed, Alone
<1>13. ASSUME NEW s \in Slot,
              ShowDagFetch(s) \/ ShowDagRender(s) \/ TriggerSend(s) \/ GetDag(s)
       PROVE  OneSaveAtATime' /\ Committed' /\ Alone'
  BY <1>13, SafeUnchanged DEF ShowDagFetch, ShowDagRender, TriggerSend, GetDag, pipe
<1>14. CASE \E d \in Dag : OtherSaves(d) BY <1>14, SafeUnchanged DEF OtherSaves, pipe
<1>15. CASE UNCHANGED vars BY <1>15, SafeUnchanged DEF vars, pipe
<1>16. CASE User BY <1>16, <1>1, <1>2, <1>3, <1>5, <1>7, <1>8 DEF User
<1>17. CASE Console
  BY <1>17, <1>3, <1>6, <1>9, <1>11, <1>13, SaveReturnsKeeps DEF Console
<1>18. CASE Server BY <1>18, <1>10, <1>12, <1>13 DEF Server
<1>19. CASE Environment BY <1>19, <1>12, <1>14 DEF Environment
<1> QED BY <1>15, <1>16, <1>17, <1>18, <1>19 DEF Next

LEMMA SafeInit == Init => SafeInv
<1> SUFFICES ASSUME Init PROVE OneSaveAtATime /\ Committed /\ Alone BY TypeInit DEF SafeInv
<1> QED BY DEF Init, NoDel, OneSaveAtATime, Committed, Alone

LEMMA SafeHolds == Spec => []SafeInv
BY SafeInit, SafeStep, PTL DEF Spec

(* The console never has two builds under way, and none its flag does not know of
   (flushSave, flushPendingSaves and the finally of the save before). *)
THEOREM SavesAreSingle == Spec => []OneSaveAtATime
<1>1. SafeInv => OneSaveAtATime BY DEF SafeInv
<1> QED BY <1>1, SafeHolds, PTL

(* While the DELETE of deleteActiveDag is out no build is under way. *)
THEOREM DeleteIsAlone == Spec => []DeleteStandsAlone
<1>1. SafeInv => DeleteStandsAlone
  BY DEF SafeInv, OneSaveAtATime, Committed, Alone, DeleteStandsAlone
<1> QED BY <1>1, SafeHolds, PTL

-----------------------------------------------------------------------------
(***************************************************************************)
(* The refinement of GuardedSave, when no other client's save falls        *)
(* between the check and the write of a build.                             *)
(***************************************************************************)
CheckHolds ==
  \A r \in reqs : r.st = "checked" /\ srv[r.id].live => r.hash = Hash(r.id, srv[r.id].doc)

CheckInv == SafeInv /\ CheckHolds

(* a request as GuardedSave sees it *)
Wired(r) == [id |-> r.id, doc |-> r.doc, base |-> r.hash, landed |-> r.st \in {"ok", "unheard"}]
Wire == {Wired(r) : r \in reqs}

LEMMA SentIsFresh ==
  ASSUME NEW m \in Model
  PROVE  /\ DagSpecFrom(m).st = "sent"
         /\ Wired(DagSpecFrom(m)) \in Abstract!Save /\ ~Wired(DagSpecFrom(m)).landed
<1> DEFINE r == DagSpecFrom(m)
<1>1. /\ r.id \in Dag /\ r.doc \in Doc /\ r.hash \in Dag \X Doc /\ r.st = "sent"
  BY DEF Model, DagSpecFrom
<1> HIDE DEF r
<1>2. (r.st \in {"ok", "unheard"}) = FALSE BY <1>1
<1>3. Wired(r) = [id |-> r.id, doc |-> r.doc, base |-> r.hash, landed |-> FALSE]
  BY <1>2, Zenon DEF Wired
<1>4. Wired(r) \in Abstract!Save /\ ~Wired(r).landed BY <1>1, <1>3 DEF Abstract!Save
<1> QED BY <1>1, <1>4 DEF r

(* a step that sends or not, with nothing or the answered save under way *)
LEMMA FlushSteps ==
  ASSUME CheckInv, NEW w, FlushSave(D, saveInflight, w, reqs), UNCHANGED srv
  PROVE  CheckHolds' /\ [Abstract!Next]_<<srv, Wire>>
<1>1. D \in Model \cup {None} /\ saveInflight \in BOOLEAN /\ deleting \in BOOLEAN
  BY Bools, TypeParts DEF CheckInv, SafeInv, EditorOK
<1>2. \/ reqs' = reqs
      \/ ~saveInflight /\ D \in Model /\ reqs' = reqs \cup {DagSpecFrom(D)}
  BY <1>1, FlushSaveSends
<1>3. CASE reqs' = reqs
  <2>1. Wire' = Wire BY <1>3 DEF Wire, Wired
  <2>2. CheckHolds' BY <1>3 DEF CheckInv, CheckHolds, Hash
  <2> QED BY <2>1, <2>2
<1>4. CASE ~saveInflight /\ D \in Model /\ reqs' = reqs \cup {DagSpecFrom(D)}
  <2>1. reqs = {} /\ reqs' = {DagSpecFrom(D)} BY <1>4 DEF CheckInv, SafeInv, OneSaveAtATime
  <2>2. Wire = {} /\ Wire' = {Wired(DagSpecFrom(D))} BY <2>1 DEF Wire, Wired
  <2>3. Abstract!Fresh({Wired(DagSpecFrom(D))}) BY <1>4, SentIsFresh DEF Abstract!Fresh
  <2>4. Abstract!Dispatch BY <2>2, <2>3 DEF Abstract!Dispatch, Wire, Wired
  <2>5. CheckHolds' BY <1>4, <2>1, SentIsFresh DEF CheckHolds
  <2> QED BY <2>4, <2>5 DEF Abstract!Next
<1> QED BY <1>2, <1>3, <1>4

LEMMA ReturnSteps ==
  ASSUME CheckInv, NEW r \in reqs, SaveReturns(r)
  PROVE  CheckHolds' /\ [Abstract!Next]_<<srv, Wire>>
<1>1. reqs = {r} /\ srv' = srv BY OnlyRequest DEF CheckInv, SafeInv, SaveReturns
<1>2. PICK m \in Model \cup {None} : AfterSave(m, r)
  <2>1. D' \in Model \cup {None} BY SaveReturnsTypes DEF CheckInv, SafeInv, TypeOK
  <2>2. AfterSave(D', r) BY DEF SaveReturns
  <2> QED BY <2>1, <2>2
<1>3. reqs' = {} \/ (m \in Model /\ reqs' = {DagSpecFrom(m)})
  <2>1. CASE savePending
    <3>1. FlushSave(m, FALSE, FALSE, {}) BY <1>1, <1>2, <2>1 DEF AfterSave
    <3>2. reqs' = {} \/ (m \in Model /\ reqs' = {} \cup {DagSpecFrom(m)})
      BY <3>1, FlushSaveSends
    <3> QED BY <3>2
  <2>2. CASE ~savePending BY <1>1, <1>2, <2>2 DEF AfterSave
  <2> QED BY <2>1, <2>2
<1>4. Wire # {} BY DEF Wire
<1>5. CASE reqs' = {}
  <2>1. Wire' = {} BY <1>5 DEF Wire
  <2>2. CheckHolds' BY <1>5 DEF CheckHolds
  <2>3. Abstract!Close BY <1>1, <1>4, <2>1 DEF Abstract!Close, Wire, Wired
  <2> QED BY <2>2, <2>3 DEF Abstract!Next
<1>6. CASE m \in Model /\ reqs' = {DagSpecFrom(m)}
  <2>1. Wire' = {Wired(DagSpecFrom(m))} BY <1>6 DEF Wire, Wired
  <2>2. Abstract!Fresh({Wired(DagSpecFrom(m))}) BY <1>6, SentIsFresh DEF Abstract!Fresh
  <2>3. Abstract!Close BY <1>1, <1>4, <2>1, <2>2 DEF Abstract!Close, Wire, Wired
  <2>4. CheckHolds' BY <1>6, SentIsFresh DEF CheckHolds
  <2> QED BY <2>3, <2>4 DEF Abstract!Next
<1> QED BY <1>3, <1>5, <1>6

(* the check and a loss change no more than the status *)
LEMMA CheckSteps ==
  ASSUME CheckInv, NEW r \in reqs, BuildCheck(r) \/ LoseSave(r)
  PROVE  CheckHolds' /\ [Abstract!Next]_<<srv, Wire>>
<1>1. reqs = {r} /\ r \in Request BY OnlyRequest, TypeParts DEF CheckInv, SafeInv, PipeOK
<1>2. srv' = srv BY DEF BuildCheck, LoseSave
<1>3. PICK q : /\ reqs' = {q} /\ q.id = r.id /\ q.doc = r.doc /\ q.hash = r.hash
               /\ (q.st \in {"ok", "unheard"}) = (r.st \in {"ok", "unheard"})
               /\ q.st = "checked" /\ srv[r.id].live => r.hash = Hash(r.id, srv[r.id].doc)
  <2>1. CASE BuildCheck(r)
    <3>1. PICK st \in (IF srv[r.id].live /\ r.hash # Hash(r.id, srv[r.id].doc)
                       THEN {"conflict"} ELSE {"checked"})
                      \cup (IF r.valid THEN {} ELSE {"failed"}) :
            reqs' = (reqs \ {r}) \cup {[r EXCEPT !.st = st]}
      BY <2>1 DEF BuildCheck
    <3>2. st \in {"conflict", "checked", "failed"} BY <3>1
    <3>3. r.st = "sent" BY <2>1 DEF BuildCheck
    <3>4. reqs' = {[r EXCEPT !.st = st]} BY <1>1, <3>1
    <3>5. /\ [r EXCEPT !.st = st].st = st /\ [r EXCEPT !.st = st].id = r.id
          /\ [r EXCEPT !.st = st].doc = r.doc /\ [r EXCEPT !.st = st].hash = r.hash
      BY <1>1 DEF Request
    <3>6. st = "checked" /\ srv[r.id].live => r.hash = Hash(r.id, srv[r.id].doc) BY <3>1
    <3>7. (st \in {"ok", "unheard"}) = (r.st \in {"ok", "unheard"}) BY <3>2, <3>3
    <3> HIDE DEF Hash
    <3> QED BY <3>4, <3>5, <3>6, <3>7
  <2>2. CASE LoseSave(r)
    <3>1. CASE r.st = "ok"
      <4>1. reqs' = {[r EXCEPT !.st = "unheard"]} BY <1>1, <2>2, <3>1 DEF LoseSave, Request
      <4>2. /\ [r EXCEPT !.st = "unheard"].st = "unheard" /\ [r EXCEPT !.st = "unheard"].id = r.id
            /\ [r EXCEPT !.st = "unheard"].doc = r.doc /\ [r EXCEPT !.st = "unheard"].hash = r.hash
        BY <1>1 DEF Request
      <4>3. ("unheard" \in {"ok", "unheard"}) = (r.st \in {"ok", "unheard"}) BY <3>1
      <4> HIDE DEF Hash
      <4> QED BY <4>1, <4>2, <4>3
    <3>2. CASE r.st = "sent"
      <4>1. reqs' = {[r EXCEPT !.st = "failed"]} BY <1>1, <2>2, <3>2 DEF LoseSave, Request
      <4>2. /\ [r EXCEPT !.st = "failed"].st = "failed" /\ [r EXCEPT !.st = "failed"].id = r.id
            /\ [r EXCEPT !.st = "failed"].doc = r.doc /\ [r EXCEPT !.st = "failed"].hash = r.hash
        BY <1>1 DEF Request
      <4>3. ("failed" \in {"ok", "unheard"}) = (r.st \in {"ok", "unheard"}) BY <3>2
      <4> HIDE DEF Hash
      <4> QED BY <4>1, <4>2, <4>3
    <3> QED BY <2>2, <3>1, <3>2 DEF LoseSave
  <2> QED BY <2>1, <2>2
<1>4. Wire = {Wired(r)} BY <1>1 DEF Wire, Wired
<1>5. Wire' = {Wired(r)} BY <1>3 DEF Wire, Wired
<1>6. CheckHolds' BY <1>2, <1>3 DEF CheckHolds, Hash
<1> QED BY <1>2, <1>4, <1>5, <1>6

LEMMA WriteSteps ==
  ASSUME CheckInv, NEW r \in reqs, BuildWrite(r)
  PROVE  CheckHolds' /\ [Abstract!Next]_<<srv, Wire>>
<1>1. reqs = {r} /\ r \in Request BY OnlyRequest, TypeParts DEF CheckInv, SafeInv, PipeOK
<1> DEFINE q == [r EXCEPT !.st = "ok"]
<1>2. reqs' = {q} /\ r.st = "checked" BY <1>1 DEF BuildWrite
<1>3. q.st = "ok" /\ q.id = r.id /\ q.doc = r.doc /\ q.hash = r.hash BY <1>1 DEF Request
<1> HIDE DEF q
<1>4. CheckHolds' BY <1>2, <1>3 DEF CheckHolds
<1>5. Wire = {Wired(r)} BY <1>1 DEF Wire, Wired
<1>6. Wire' = {Wired(q)} BY <1>2 DEF Wire, Wired
<1>7. (r.st \in {"ok", "unheard"}) = FALSE
  BY <1>2
<1>10. (q.st \in {"ok", "unheard"}) = TRUE
  BY <1>3
<1>8. Wired(r) = [id |-> r.id, doc |-> r.doc, base |-> r.hash, landed |-> FALSE]
  BY <1>7, Zenon DEF Wired
<1>9. Wired(q) = [id |-> r.id, doc |-> r.doc, base |-> r.hash, landed |-> TRUE]
  BY <1>3, <1>10, Zenon DEF Wired
<1>11. /\ Wired(r).id = r.id /\ Wired(r).doc = r.doc /\ Wired(r).base = r.hash
       /\ ~Wired(r).landed
  BY <1>8
<1>12. srv[r.id].live => r.hash = <<r.id, srv[r.id].doc>> BY <1>2 DEF CheckInv, CheckHolds, Hash
<1>13. srv' = [srv EXCEPT ![r.id] = [doc |-> r.doc, live |-> TRUE]] BY DEF BuildWrite
<1>14. \E s \in Wire :
         /\ ~s.landed
         /\ srv[s.id].live => s.base = <<s.id, srv[s.id].doc>>
         /\ srv' = [srv EXCEPT ![s.id] = [doc |-> s.doc, live |-> TRUE]]
         /\ Wire' = {[id |-> s.id, doc |-> s.doc, base |-> s.base, landed |-> TRUE]}
  <2>1. Wired(r) \in Wire BY <1>5
  <2>2. Wire' = {[id |-> Wired(r).id, doc |-> Wired(r).doc, base |-> Wired(r).base,
                  landed |-> TRUE]}
    BY <1>6, <1>9, <1>11, Zenon
  <2> QED BY <1>11, <1>12, <1>13, <2>1, <2>2
<1>15. Abstract!Land BY <1>14 DEF Abstract!Land, Wire, Wired
<1> QED BY <1>4, <1>15 DEF Abstract!Next

LEMMA ArchiveSteps ==
  ASSUME CheckInv, DeleteDag
  PROVE  CheckHolds' /\ [Abstract!Next]_<<srv, Wire>>
<1>1. reqs = {} /\ reqs' = {}
  BY DEF CheckInv, SafeInv, OneSaveAtATime, Alone, DeleteDag, pipe
<1>2. Wire = {} /\ Wire' = {} BY <1>1 DEF Wire
<1>3. CheckHolds' BY <1>1 DEF CheckHolds
<1>4. del.id \in Dag BY TypeParts DEF CheckInv, SafeInv, DeleteDag, DelOK, NoDel
<1>5. CASE srv' = [srv EXCEPT ![del.id].live = FALSE]
  <2>1. Abstract!Archive(del.id) BY <1>2, <1>5 DEF Abstract!Archive, Wire, Wired
  <2> QED BY <1>3, <1>4, <2>1 DEF Abstract!Next
<1>6. CASE srv' = srv BY <1>2, <1>3, <1>6
<1> QED BY <1>5, <1>6 DEF DeleteDag

LEMMA OtherSteps ==
  ASSUME CheckInv, ~Overlap, NEW d \in Dag, OtherSaves(d)
  PROVE  CheckHolds' /\ [Abstract!Next]_<<srv, Wire>>
<1>1. reqs' = reqs /\ \A r \in reqs : r.st # "checked" BY DEF OtherSaves, pipe
<1>2. CheckHolds' BY <1>1 DEF CheckHolds
<1>3. Wire' = Wire BY <1>1 DEF Wire, Wired
<1> DEFINE doc == srv[d].doc \cup {-(others + 1)}
<1>4. srv \in [Dag -> Stored] /\ srv' \in [Dag -> Stored]
  BY TypeParts, OtherSavesTypes DEF CheckInv, SafeInv, SrvOK, TypeOK
<1>5. srv' = [srv EXCEPT ![d].doc = doc] BY DEF OtherSaves
<1>6. srv'[d].doc = doc BY <1>4, <1>5 DEF Stored
<1>7. srv'[d].doc \in Doc BY <1>4 DEF Stored
<1>8. \E x \in {srv'[d].doc} :
        x \in Doc /\ srv[d].doc \subseteq x /\ srv' = [srv EXCEPT ![d].doc = x]
  BY <1>5, <1>6, <1>7
<1>9. Abstract!Others(d) BY <1>3, <1>8 DEF Abstract!Others, Wire, Wired
<1> QED BY <1>2, <1>9 DEF Abstract!Next

LEMMA QuietSteps ==
  ASSUME CheckInv, UNCHANGED <<reqs, srv>>
  PROVE  CheckHolds' /\ [Abstract!Next]_<<srv, Wire>>
<1>1. Wire' = Wire BY DEF Wire, Wired
<1>2. CheckHolds' BY DEF CheckInv, CheckHolds, Hash
<1> QED BY <1>1, <1>2

LEMMA RefinementStep ==
  ASSUME ~Overlap, CheckInv, [Next]_vars
  PROVE  CheckInv' /\ [Abstract!Next]_<<srv, Wire>>
<1> SUFFICES CheckHolds' /\ [Abstract!Next]_<<srv, Wire>> BY SafeStep DEF CheckInv
<1>1. ASSUME NEW valid \in BOOLEAN, EditModel(valid)
      PROVE  CheckHolds' /\ [Abstract!Next]_<<srv, Wire>>
  BY <1>1, QuietSteps DEF EditModel, pipe
<1>2. CASE GraphMutate \/ GraphSaveSession \/ GraphDiscardSession \/ RenderDagPage
  BY <1>2, QuietSteps DEF GraphMutate, GraphSaveSession, GraphDiscardSession, RenderDagPage, pipe
<1>3. CASE LoadDags \/ RenderDags BY <1>3, QuietSteps DEF LoadDags, RenderDags, pipe
<1>4. CASE \E s \in Slot : TriggerActiveDag(s) \/ \E d \in Dag : ShowDag(s, d)
  <2>1. FlushPending /\ srv' = srv BY <1>4 DEF TriggerActiveDag, ShowDag, Waits
  <2>2. CASE timer = "none" BY <2>1, <2>2, QuietSteps DEF FlushPending, pipe
  <2>3. CASE timer # "none" BY <2>1, <2>3, FlushSteps DEF FlushPending
  <2> QED BY <2>2, <2>3
<1>5. CASE TimerFires BY <1>5, FlushSteps DEF TimerFires
<1>6. CASE AskDelete \/ CancelDelete \/ ConfirmDelete \/ DeleteSend \/ DeleteReturns
  BY <1>6, QuietSteps DEF AskDelete, CancelDelete, ConfirmDelete, DeleteSend, DeleteReturns, pipe
<1>7. ASSUME NEW s \in Slot,
             ShowDagFetch(s) \/ ShowDagRender(s) \/ TriggerSend(s) \/ GetDag(s)
      PROVE  CheckHolds' /\ [Abstract!Next]_<<srv, Wire>>
  BY <1>7, QuietSteps DEF ShowDagFetch, ShowDagRender, TriggerSend, GetDag, pipe
<1>8. CASE UNCHANGED vars BY <1>8, QuietSteps DEF vars, pipe
<1>9. CASE User BY <1>9, <1>1, <1>2, <1>3, <1>4, <1>6 DEF User
<1>10. CASE Console BY <1>10, <1>3, <1>5, <1>6, <1>7, ReturnSteps DEF Console
<1>11. CASE Server BY <1>11, <1>7, ArchiveSteps, CheckSteps, WriteSteps DEF Server
<1>12. CASE Environment BY <1>12, CheckSteps, OtherSteps DEF Environment
<1> QED BY <1>8, <1>9, <1>10, <1>11, <1>12 DEF Next

(* The editor and the server together do to the stored workflows what GuardedSave
   allows (flushSave, buildDAG, CreateDAG, DeleteDAG): a save lands whole, once and
   only over the definition it was based on, and nothing is archived under it. *)
THEOREM EditorImplements == ASSUME ~Overlap PROVE Spec => ImplementsGuardedSave
<1>1. Init => CheckInv /\ Abstract!Init
  <2> SUFFICES ASSUME Init PROVE CheckInv /\ Abstract!Init OBVIOUS
  <2>1. CheckInv BY SafeInit DEF Init, CheckInv, CheckHolds
  <2>2. Abstract!Init BY DEF Init, Abstract!Init
  <2> QED BY <2>1, <2>2
<1>2. CheckInv /\ [Next]_vars => CheckInv' /\ [Abstract!Next]_<<srv, Wire>>
  BY RefinementStep
<1>3. [Abstract!Next]_<<srv, Wire>> => [Abstract!Next]_<<srv, {[id |-> r.id, doc |-> r.doc, base |-> r.hash, landed |-> r.st \in {"ok", "unheard"}] : r \in reqs}>>
  BY DEF Wire, Wired
<1> QED BY <1>1, <1>2, <1>3, PTL DEF Spec, ImplementsGuardedSave, Abstract!Spec

-----------------------------------------------------------------------------
(***************************************************************************)
(* What other clients stored.  A hash names a definition; whoever carries  *)
(* it has the foreign edits of that definition.                            *)
(***************************************************************************)
Carries(hash, id, doc) == \A x \in Doc : hash = Hash(id, x) => Foreign(x) \subseteq doc
SameBase(m) == m.base # None => Foreign(m.base.doc) = Foreign(m.doc)

ModelCarries == D # None => Carries(D.hash, D.id, D.doc) /\ SameBase(D)
SavesCarry ==
  \A r \in reqs : /\ Carries(r.hash, r.id, r.doc)
                  /\ D # None /\ D.id = r.id => Foreign(r.doc) \subseteq D.doc

CarryInv == ~crossed => ModelCarries /\ SavesCarry

LEMMA OwnEditIsNotForeign == \A doc, n : n \in Nat => Foreign(doc \cup {n}) = Foreign(doc)
BY DEF Foreign

(* a change of the model by this console's user *)
Edited(new, old) ==
  /\ new \in Model /\ new.id = old.id /\ new.hash = old.hash
  /\ Foreign(new.doc) = Foreign(old.doc)
  /\ SameBase(old) => SameBase(new)

LEMMA SaveDagEdits ==
  ASSUME NEW old \in Model, NEW m \in Model, Edited(m, old), SaveDag(m)
  PROVE  Edited(D', old)
<1>1. D' = m \/ D' = [m EXCEPT !.base = None]
  BY DEF SaveDag
<1>2. [m EXCEPT !.base = None] \in Model /\ SameBase([m EXCEPT !.base = None])
  BY DEF Model, SameBase
<1>3. /\ [m EXCEPT !.base = None].id = m.id /\ [m EXCEPT !.base = None].hash = m.hash
      /\ [m EXCEPT !.base = None].doc = m.doc
  BY DEF Model
<1> QED
  BY <1>1, <1>2, <1>3 DEF Edited

Edits == (\E valid \in BOOLEAN : EditModel(valid)) \/ GraphMutate \/ GraphSaveSession \/ GraphDiscardSession

LEMMA EditsEdit ==
  ASSUME TypeOK, Edits, SameBase(D)
  PROVE  D \in Model /\ Edited(D', D) /\ UNCHANGED <<pipe, calls, srv, crossed>>
<1>1. D \in Model /\ D # None
  BY ShownModel, ModelNotNone, TypeParts
     DEF Edits, EditModel, GraphMutate, GraphSaveSession, GraphDiscardSession
<1>2. UNCHANGED <<pipe, calls, srv, crossed>>
  BY DEF Edits, EditModel, GraphMutate, GraphSaveSession, GraphDiscardSession
<1>3. edits + 1 \in Nat
  BY TypeParts DEF CountOK
<1>4. ASSUME edits < MaxEdits PROVE D.doc \cup {edits + 1} \in Doc
  BY <1>1, <1>4, EditInRange, TypeParts DEF Model, Doc
<1>5. ASSUME NEW valid \in BOOLEAN, EditModel(valid) PROVE Edited(D', D)
  <2>1. PICK m : m = [D EXCEPT !.doc = @ \cup {edits + 1}, !.valid = valid]
    OBVIOUS
  <2>2. SaveDag(m) /\ D.doc \cup {edits + 1} \in Doc
    BY <1>4, <1>5, <2>1 DEF EditModel
  <2>3. m \in Model /\ m.id = D.id /\ m.hash = D.hash /\ m.doc = D.doc \cup {edits + 1} /\ m.base = D.base
    BY <1>1, <2>1, <2>2 DEF Model
  <2>4. Edited(m, D)
    BY <1>3, <2>3, OwnEditIsNotForeign DEF Edited, SameBase
  <2> QED
    BY <1>1, <2>2, <2>3, <2>4, SaveDagEdits
<1>6. ASSUME GraphMutate PROVE Edited(D', D)
  <2>1. D.doc \cup {edits + 1} \in Doc
    BY <1>4, <1>6 DEF GraphMutate
  <2>2. PICK base : base = IF D.base = None THEN [id |-> D.id, doc |-> D.doc, valid |-> D.valid]
                           ELSE D.base
    OBVIOUS
  <2>3. D' = [D EXCEPT !.doc = D.doc \cup {edits + 1}, !.base = base]
    BY <1>1, <1>6, <2>2 DEF GraphMutate, Model
  <2>4. base \in [id : Dag, doc : Doc, valid : BOOLEAN] \cup {None}
    BY <1>1, <2>2 DEF Model
  <2>5. /\ D' \in Model /\ D'.id = D.id /\ D'.hash = D.hash /\ D'.doc = D.doc \cup {edits + 1}
        /\ D'.base = base
    BY <1>1, <2>1, <2>3, <2>4 DEF Model
  <2>6. Foreign(D'.doc) = Foreign(D.doc)
    BY <1>3, <2>5, OwnEditIsNotForeign
  <2>7. SameBase(D) => SameBase(D')
    BY <2>2, <2>5, <2>6 DEF SameBase
  <2> QED
    BY <2>5, <2>6, <2>7 DEF Edited
<1>7. ASSUME GraphSaveSession PROVE Edited(D', D)
  <2>1. PICK m : m = [D EXCEPT !.base = None]
    OBVIOUS
  <2>2. m \in Model /\ m.id = D.id /\ m.hash = D.hash /\ m.doc = D.doc /\ m.base = None
    BY <1>1, <2>1 DEF Model
  <2>3. Edited(m, D) /\ Edited(D, D)
    BY <1>1, <2>2 DEF Edited, SameBase
  <2>4. SaveDag(m) \/ D' = D
    BY <1>7, <2>1 DEF GraphSaveSession
  <2> QED
    BY <1>1, <2>2, <2>3, <2>4, SaveDagEdits
<1>8. ASSUME GraphDiscardSession PROVE Edited(D', D)
  <2>1. D.base # None /\ D' = [D EXCEPT !.doc = D.base.doc, !.valid = D.base.valid, !.base = None]
    BY <1>8 DEF GraphDiscardSession
  <2>2. D.base.doc \in Doc /\ D.base.valid \in BOOLEAN
    BY <1>1, <2>1 DEF Model
  <2>3. D' \in Model /\ D'.id = D.id /\ D'.hash = D.hash /\ D'.doc = D.base.doc /\ D'.base = None
    BY <1>1, <2>1, <2>2 DEF Model
  <2> QED
    BY <1>8, <2>1, <2>3 DEF Edited, SameBase
<1> QED
  BY <1>1, <1>2, <1>5, <1>6, <1>7, <1>8 DEF Edits

LEMMA ForeignWithin == \A a, b : Foreign(a) \subseteq b <=> Foreign(a) \subseteq Foreign(b)
BY DEF Foreign

LEMMA CarryQuiet ==
  ASSUME CarryInv, UNCHANGED <<D, reqs, crossed>>
  PROVE  CarryInv'
BY DEF CarryInv, ModelCarries, SavesCarry, Carries, SameBase, Hash

LEMMA CarryEdit ==
  ASSUME TypeOK, CarryInv, Edits
  PROVE  CarryInv'
<1>0. crossed' = crossed
  BY DEF Edits, EditModel, GraphMutate, GraphSaveSession, GraphDiscardSession
<1>1. SUFFICES ASSUME ~crossed PROVE ModelCarries' /\ SavesCarry'
  BY <1>0 DEF CarryInv
<1>2. D \in Model /\ D # None
  BY ShownModel, ModelNotNone, TypeParts
     DEF Edits, EditModel, GraphMutate, GraphSaveSession, GraphDiscardSession
<1>3. Carries(D.hash, D.id, D.doc) /\ SameBase(D) /\ SavesCarry
  BY <1>1, <1>2 DEF CarryInv, ModelCarries
<1>4. Edited(D', D) /\ UNCHANGED <<reqs, crossed>>
  BY <1>3, EditsEdit DEF pipe
<1>5. /\ D'.id = D.id /\ D'.hash = D.hash /\ Foreign(D'.doc) = Foreign(D.doc)
      /\ SameBase(D')
  BY <1>3, <1>4 DEF Edited
<1>6. \A a : Foreign(a) \subseteq D.doc => Foreign(a) \subseteq D'.doc
  BY <1>5, ForeignWithin
<1>7. Carries(D'.hash, D'.id, D'.doc)
  BY <1>3, <1>5, <1>6 DEF Carries
<1>8. ModelCarries'
  BY <1>5, <1>7 DEF ModelCarries, Carries, SameBase, Hash
<1>9. SavesCarry'
  BY <1>2, <1>3, <1>4, <1>5, <1>6 DEF SavesCarry, Carries, Hash
<1> QED
  BY <1>8, <1>9

(* a save sent from the model m carries what m carries *)
LEMMA SentCarries ==
  ASSUME NEW m \in Model, Carries(m.hash, m.id, m.doc), NEW r, r = DagSpecFrom(m)
  PROVE  Carries(r.hash, r.id, r.doc) /\ r.id = m.id /\ r.doc = m.doc
BY DEF DagSpecFrom

LEMMA CarryFlush ==
  ASSUME SafeInv, CarryInv, NEW w, FlushSave(D, saveInflight, w, reqs), UNCHANGED <<D, crossed>>
  PROVE  CarryInv'
<1>1. D \in Model \cup {None} /\ saveInflight \in BOOLEAN
  BY Bools, TypeParts DEF SafeInv, EditorOK
<1>2. \/ reqs' = reqs
      \/ D \in Model /\ reqs' = reqs \cup {DagSpecFrom(D)}
  BY <1>1, FlushSaveSends
<1>3. ASSUME D \in Model, reqs' = reqs \cup {DagSpecFrom(D)}, ~crossed
      PROVE  ModelCarries' /\ SavesCarry'
  <2>1. Carries(D.hash, D.id, D.doc) /\ SavesCarry /\ ModelCarries
    BY <1>3, ModelNotNone DEF CarryInv, ModelCarries
  <2>2. PICK r : r = DagSpecFrom(D)
    OBVIOUS
  <2>3. Carries(r.hash, r.id, r.doc) /\ r.id = D.id /\ r.doc = D.doc
    BY <1>3, <2>1, <2>2, SentCarries
  <2>4. ModelCarries'
    BY <2>1 DEF ModelCarries, Carries, SameBase, Hash
  <2>5. SavesCarry'
    BY <1>3, <2>1, <2>2, <2>3 DEF SavesCarry, Carries, Hash, Foreign
  <2> QED
    BY <2>4, <2>5
<1> QED
  BY <1>2, <1>3, CarryQuiet DEF CarryInv

(* the request the server or the network has touched is the same save *)
LEMMA SameSave ==
  ASSUME SafeInv, NEW r \in reqs, BuildCheck(r) \/ BuildWrite(r) \/ LoseSave(r)
  PROVE  /\ reqs = {r} /\ UNCHANGED <<D, crossed, calls>>
         /\ \E q : reqs' = {q} /\ q.id = r.id /\ q.doc = r.doc /\ q.hash = r.hash /\ q.valid = r.valid
<1>1. reqs = {r} /\ r \in Request
  BY OnlyRequest, TypeParts DEF SafeInv, PipeOK
<1>2. PICK st : reqs' = {[r EXCEPT !.st = st]}
  BY <1>1 DEF BuildCheck, BuildWrite, LoseSave
<1>3. UNCHANGED <<D, crossed, calls>>
  BY DEF BuildCheck, BuildWrite, LoseSave, editor
<1>4. PICK q : q = [r EXCEPT !.st = st]
  OBVIOUS
<1>5. q.id = r.id /\ q.doc = r.doc /\ q.hash = r.hash /\ q.valid = r.valid
  BY <1>1, <1>4 DEF Request
<1> QED
  BY <1>1, <1>2, <1>3, <1>4, <1>5

LEMMA CarryBuild ==
  ASSUME SafeInv, CarryInv, NEW r \in reqs, BuildCheck(r) \/ BuildWrite(r) \/ LoseSave(r)
  PROVE  CarryInv'
<1>1. reqs = {r} /\ UNCHANGED <<D, crossed>>
  BY SameSave
<1>2. PICK q : reqs' = {q} /\ q.id = r.id /\ q.doc = r.doc /\ q.hash = r.hash
  BY SameSave
<1>3. ASSUME ~crossed PROVE ModelCarries' /\ SavesCarry'
  <2>1. ModelCarries /\ SavesCarry
    BY <1>3 DEF CarryInv
  <2>2. ModelCarries'
    BY <1>1, <2>1 DEF ModelCarries, Carries, SameBase, Hash
  <2>3. SavesCarry'
    BY <1>1, <1>2, <2>1 DEF SavesCarry, Carries, Hash, Foreign
  <2> QED
    BY <2>2, <2>3
<1> QED
  BY <1>1, <1>3 DEF CarryInv

(* the answer of a save: what is under way afterwards, and the model *)
LEMMA SaveReturned ==
  ASSUME SafeInv, NEW r \in reqs, SaveReturns(r)
  PROVE  /\ reqs = {r} /\ D' \in Model \cup {None} /\ (D' = None <=> D = None)
         /\ UNCHANGED <<crossed, calls, srv>>
         /\ reqs' = {} \/ (D' \in Model /\ reqs' = {DagSpecFrom(D')})
         /\ \/ D' = D
            \/ /\ D # None /\ D'.hash = Hash(r.id, r.doc) /\ D'.id = D.id /\ D'.doc = D.doc
               /\ D'.base = D.base /\ D'.valid = D.valid
<1>1. reqs = {r} /\ UNCHANGED <<crossed, calls, srv>>
  BY OnlyRequest DEF SafeInv, SaveReturns
<1>2. D' \in Model \cup {None} /\ D \in Model \cup {None}
  BY SaveReturnsTypes DEF SafeInv, TypeOK
<1>3. AfterSave(D', r)
  BY DEF SaveReturns
<1>4. PICK m : m = D'
  OBVIOUS
<1>5. reqs' = {} \/ (m \in Model /\ reqs' = {DagSpecFrom(m)})
  <2>1. CASE savePending
    <3>1. FlushSave(m, FALSE, FALSE, {})
      BY <1>1, <1>3, <1>4, <2>1 DEF AfterSave
    <3>2. reqs' = {} \/ (m \in Model /\ reqs' = {} \cup {DagSpecFrom(m)})
      BY <1>2, <1>4, <3>1, FlushSaveSends
    <3> QED
      BY <3>2
  <2>2. CASE ~savePending
    BY <1>1, <1>3, <2>2 DEF AfterSave
  <2> QED
    BY <2>1, <2>2
<1>6. D' = D \/ (D # None /\ D' = [D EXCEPT !.hash = Hash(r.id, r.doc)])
  BY DEF SaveReturns
<1>7. ASSUME D # None, D' = [D EXCEPT !.hash = Hash(r.id, r.doc)]
      PROVE  /\ D'.hash = Hash(r.id, r.doc) /\ D'.id = D.id /\ D'.doc = D.doc /\ D'.base = D.base
             /\ D'.valid = D.valid /\ D' # None
  <2>1. PICK h : h = Hash(r.id, r.doc)
    OBVIOUS
  <2>2. D \in Model /\ D' = [D EXCEPT !.hash = h]
    BY <1>2, <1>7, <2>1
  <2>3. /\ D'.hash = h /\ D'.id = D.id /\ D'.doc = D.doc /\ D'.base = D.base
        /\ D'.valid = D.valid
    BY <2>2 DEF Model
  <2>4. D' # None
    BY <2>2, <2>3, ModelNotNone, DagEditorAssumption DEF None
  <2> QED
    BY <2>1, <2>3, <2>4
<1> QED
  BY <1>1, <1>2, <1>4, <1>5, <1>6, <1>7

LEMMA CarryReturn ==
  ASSUME SafeInv, CarryInv, NEW r \in reqs, SaveReturns(r)
  PROVE  CarryInv'
<1>1. /\ reqs = {r} /\ UNCHANGED crossed
      /\ D' \in Model \cup {None} /\ (D' = None <=> D = None)
      /\ reqs' = {} \/ (D' \in Model /\ reqs' = {DagSpecFrom(D')})
  BY SaveReturned
<1>2. SUFFICES ASSUME ~crossed PROVE ModelCarries' /\ SavesCarry'
  BY <1>1 DEF CarryInv
<1>3. ModelCarries /\ SavesCarry
  BY <1>2 DEF CarryInv
<1>4. PICK m : m = D'
  OBVIOUS
<1>5. m # None => Carries(m.hash, m.id, m.doc) /\ SameBase(m)
  <2>1. CASE m = D
    BY <1>3, <2>1 DEF ModelCarries
  <2>2. CASE /\ D # None /\ m.hash = Hash(r.id, r.doc) /\ m.id = D.id /\ m.doc = D.doc
             /\ m.base = D.base
    <3>1. SameBase(m)
      BY <1>3, <2>2 DEF ModelCarries, SameBase
    <3>2. D.id = r.id => Foreign(r.doc) \subseteq D.doc
      BY <1>3, <2>2 DEF SavesCarry
    <3>3. ASSUME NEW x \in Doc, m.hash = Hash(m.id, x) PROVE Foreign(x) \subseteq m.doc
      <4>1. r.id = m.id /\ r.doc = x
        BY <2>2, <3>3 DEF Hash
      <4> QED
        BY <2>2, <3>2, <4>1
    <3>4. Carries(m.hash, m.id, m.doc)
      BY <3>3 DEF Carries
    <3> QED
      BY <3>1, <3>4
  <2> QED
    BY <1>4, <2>1, <2>2, SaveReturned
<1>6. ModelCarries'
  BY <1>4, <1>5 DEF ModelCarries, Carries, SameBase, Hash
<1>7. CASE reqs' = {}
  BY <1>6, <1>7 DEF SavesCarry
<1>8. CASE m \in Model /\ reqs' = {DagSpecFrom(m)}
  <2>1. PICK q : q = DagSpecFrom(m)
    OBVIOUS
  <2>2. Carries(q.hash, q.id, q.doc) /\ q.id = m.id /\ q.doc = m.doc
    BY <1>5, <1>8, <2>1, SentCarries, ModelNotNone
  <2>3. SavesCarry'
    BY <1>4, <1>8, <2>1, <2>2 DEF SavesCarry, Carries, Hash, Foreign
  <2> QED
    BY <1>6, <2>3
<1> QED
  BY <1>1, <1>4, <1>7, <1>8

LEMMA CarryRender ==
  ASSUME TypeOK, CarryInv, NEW s \in Slot, ShowDagRender(s)
  PROVE  CarryInv'
<1>1. PICK c : c = calls[s]
  OBVIOUS
<1>2. PICK m : m = [id |-> c.id, doc |-> c.got.doc, hash |-> Hash(c.id, c.got.doc),
                    valid |-> TRUE, base |-> None]
  OBVIOUS
<1>3. m.id = c.id /\ m.doc = c.got.doc /\ m.hash = Hash(c.id, c.got.doc) /\ m.base = None
  BY <1>2
<1>4. SUFFICES ASSUME ~crossed' PROVE ModelCarries' /\ SavesCarry'
  BY DEF CarryInv
<1>5. ~crossed /\ reqs' = reqs
  BY <1>4 DEF ShowDagRender, pipe
<1>6. SavesCarry
  BY <1>5 DEF CarryInv
<1>7. CASE c.got # None /\ c.got.live
  <2>1. D' = m
    BY <1>1, <1>2, <1>7, Zenon DEF ShowDagRender
  <2>2. \A r \in reqs : r.id = c.id => Foreign(r.doc) \subseteq c.got.doc
    BY <1>1, <1>4, <1>7 DEF ShowDagRender
  <2>3. Carries(m.hash, m.id, m.doc) /\ SameBase(m)
    BY <1>3 DEF Carries, SameBase, Hash, Foreign
  <2>4. ModelCarries'
    BY <2>1, <2>3 DEF ModelCarries, Carries, SameBase, Hash
  <2>5. SavesCarry'
    BY <1>3, <1>5, <1>6, <2>1, <2>2 DEF SavesCarry, Carries, Hash, Foreign
  <2> QED
    BY <2>4, <2>5
<1>8. CASE ~(c.got # None /\ c.got.live)
  <2>1. D' = None
    BY <1>1, <1>8, Zenon DEF ShowDagRender
  <2>2. ModelCarries'
    BY <2>1 DEF ModelCarries, None
  <2>3. SavesCarry'
    BY <1>5, <1>6, <2>1 DEF SavesCarry, Carries, Hash
  <2> QED
    BY <2>2, <2>3
<1> QED
  BY <1>7, <1>8

LEMMA CarryStep ==
  ASSUME SafeInv, CarryInv, [Next]_vars
  PROVE  CarryInv'
<1>1. CASE Edits
  BY <1>1, CarryEdit DEF SafeInv
<1>2. CASE LoadDags \/ RenderDags \/ RenderDagPage
  BY <1>2, CarryQuiet DEF LoadDags, RenderDags, RenderDagPage, pipe
<1>3. CASE \E s \in Slot : TriggerActiveDag(s) \/ \E d \in Dag : ShowDag(s, d)
  <2>1. FlushPending /\ UNCHANGED <<D, crossed>>
    BY <1>3 DEF TriggerActiveDag, ShowDag, Waits
  <2>2. CASE timer = "none"
    BY <2>1, <2>2, CarryQuiet DEF FlushPending, pipe
  <2>3. CASE timer # "none"
    BY <2>1, <2>3, CarryFlush DEF FlushPending
  <2> QED
    BY <2>2, <2>3
<1>4. CASE TimerFires
  BY <1>4, CarryFlush DEF TimerFires
<1>5. CASE AskDelete \/ CancelDelete \/ ConfirmDelete \/ DeleteSend \/ DeleteReturns \/ DeleteDag
  BY <1>5, CarryQuiet
     DEF AskDelete, CancelDelete, ConfirmDelete, DeleteSend, DeleteReturns, DeleteDag, pipe, editor
<1>6. ASSUME NEW s \in Slot, ShowDagFetch(s) \/ TriggerSend(s) \/ GetDag(s)
      PROVE  CarryInv'
  BY <1>6, CarryQuiet DEF ShowDagFetch, TriggerSend, GetDag, pipe, editor
<1>7. CASE \E d \in Dag : OtherSaves(d)
  BY <1>7, CarryQuiet DEF OtherSaves, pipe, editor
<1>8. CASE UNCHANGED vars
  BY <1>8, CarryQuiet DEF vars, pipe, editor
<1>9. CASE User
  BY <1>9, <1>1, <1>2, <1>3, <1>5 DEF User, Edits
<1>10. CASE Console
  BY <1>10, <1>2, <1>4, <1>5, <1>6, CarryReturn, CarryRender DEF Console, SafeInv
<1>11. CASE Server
  BY <1>11, <1>5, <1>6, CarryBuild DEF Server
<1>12. CASE Environment
  BY <1>12, <1>7, CarryBuild DEF Environment
<1> QED
  BY <1>8, <1>9, <1>10, <1>11, <1>12 DEF Next

LEMMA CarryInit == Init => CarryInv
BY DEF Init, CarryInv, ModelCarries, SavesCarry, None

(* the stored definitions change in three ways *)
LEMMA StoredSteps ==
  ASSUME [Next]_vars
  PROVE  \/ srv' = srv \/ DeleteDag
         \/ \E r \in reqs : BuildWrite(r)
         \/ \E d \in Dag : OtherSaves(d)
<1>1. CASE User
  BY <1>1 DEF User, EditModel, GraphMutate, GraphSaveSession, GraphDiscardSession, RenderDagPage,
     TriggerActiveDag, ShowDag, LoadDags, AskDelete, CancelDelete, ConfirmDelete
<1>2. CASE Console
  BY <1>2 DEF Console, TimerFires, RenderDags, DeleteSend, DeleteReturns, SaveReturns, ShowDagFetch,
     ShowDagRender, TriggerSend
<1>3. CASE Server
  BY <1>3 DEF Server, BuildCheck, GetDag
<1>4. CASE Environment
  BY <1>4 DEF Environment, LoseSave
<1>5. CASE UNCHANGED vars
  BY <1>5 DEF vars
<1> QED
  BY <1>1, <1>2, <1>3, <1>4, <1>5 DEF Next

KeepsForeign == \A d \in Dag : srv[d].live /\ ~crossed => Foreign(srv[d].doc) \subseteq srv'[d].doc

LEMMA ForeignKept ==
  ASSUME CheckInv, CarryInv, [Next]_vars
  PROVE  KeepsForeign
<1>1. srv \in [Dag -> Stored]
  BY TypeParts DEF CheckInv, SafeInv, SrvOK
<1>2. CASE srv' = srv
  BY <1>2 DEF KeepsForeign, Foreign
<1>3. CASE DeleteDag
  <2>1. \A d \in Dag : srv'[d].doc = srv[d].doc
    BY <1>1, <1>3 DEF DeleteDag, Stored
  <2> QED
    BY <2>1 DEF KeepsForeign, Foreign
<1>4. ASSUME NEW e \in Dag, OtherSaves(e) PROVE KeepsForeign
  <2>1. \A d \in Dag : srv[d].doc \subseteq srv'[d].doc
    BY <1>1, <1>4 DEF OtherSaves, Stored
  <2> QED
    BY <2>1 DEF KeepsForeign, Foreign
<1>5. ASSUME NEW r \in reqs, BuildWrite(r) PROVE KeepsForeign
  <2>1. r.id \in Dag /\ srv' = [srv EXCEPT ![r.id] = [doc |-> r.doc, live |-> TRUE]] /\ r.st = "checked"
    BY <1>5, TypeParts DEF BuildWrite, CheckInv, SafeInv, PipeOK, Request
  <2>2. ASSUME srv[r.id].live, ~crossed PROVE Foreign(srv[r.id].doc) \subseteq r.doc
    <3>1. r.hash = Hash(r.id, srv[r.id].doc)
      BY <2>1, <2>2 DEF CheckInv, CheckHolds
    <3>2. srv[r.id].doc \in Doc
      BY <1>1, <2>1 DEF Stored
    <3>3. Carries(r.hash, r.id, r.doc)
      BY <2>2 DEF CarryInv, SavesCarry
    <3> QED
      BY <3>1, <3>2, <3>3 DEF Carries
  <2> QED
    BY <1>1, <2>1, <2>2 DEF KeepsForeign, Foreign
<1> QED
  BY <1>2, <1>3, <1>4, <1>5, StoredSteps

(* What another client has stored in a live workflow stays stored (dagSpecFrom's
   expected_hash, buildDAG's comparison, flushSave's new hash), however saves,
   answers and reloads interleave, when no other client's save falls between the
   check and the write of a build and no page was opened with an older definition
   than a save under way carried. *)
THEOREM NothingIsOverwritten == ASSUME ~Overlap PROVE Spec => NoSilentOverwrite
<1>1. Init => CheckInv /\ CarryInv
  BY SafeInit, CarryInit DEF Init, CheckInv, CheckHolds
<1>2. CheckInv /\ CarryInv /\ [Next]_vars => (CheckInv /\ CarryInv)'
  BY RefinementStep, CarryStep DEF CheckInv
<1>3. CheckInv /\ CarryInv /\ [Next]_vars => KeepsForeign
  BY ForeignKept
<1> QED
  BY <1>1, <1>2, <1>3, PTL DEF Spec, NoSilentOverwrite, KeepsForeign

-----------------------------------------------------------------------------
(***************************************************************************)
(* Pages opened one at a time and nothing archived: a page never shows an  *)
(* older definition than a save under way carries.                         *)
(***************************************************************************)
AllLive == \A d \in Dag : srv[d].live
OneHandler == \A s, t \in Slot : s = t

IsGot(c) == c.op = "open" /\ c.pc = "got" /\ c.got # None
(* the answer c has for a page is no older than the model and the saves *)
Newest(c) ==
  /\ Foreign(c.got.doc) \subseteq srv[c.id].doc
  /\ D # None /\ D.id = c.id => Foreign(D.doc) \subseteq c.got.doc
  /\ \A r \in reqs : r.id = c.id => Foreign(r.doc) \subseteq c.got.doc

ModelKept == D # None => Foreign(D.doc) \subseteq srv[D.id].doc
SavesKept == \A r \in reqs : Foreign(r.doc) \subseteq srv[r.id].doc
AnswersKept == \A s \in Slot : IsGot(calls[s]) => Newest(calls[s])
NewestInv == ~crossed /\ ModelKept /\ SavesKept /\ AnswersKept

(* what most steps do: the model, the saves and the answers come from before *)
SameModel == D' = None \/ (D # None /\ D'.id = D.id /\ Foreign(D'.doc) = Foreign(D.doc))
SameSaves ==
  \A q \in reqs' : \/ \E r \in reqs : q.id = r.id /\ q.doc = r.doc
                   \/ D' # None /\ q.id = D'.id /\ q.doc = D'.doc
SameAnswers == \A s \in Slot : IsGot(calls'[s]) => calls'[s] = calls[s]
SameStep == SameModel /\ SameSaves /\ SameAnswers /\ UNCHANGED crossed
StoredKept == \A d \in Dag : Foreign(srv[d].doc) \subseteq srv'[d].doc

LEMMA NewestKept ==
  ASSUME TypeOK, TypeOK', NewestInv, StoredKept, SameModel, SameSaves, SameAnswers, ~crossed'
  PROVE  NewestInv'
<1>1. /\ D # None => D.id \in Dag
      /\ D' # None => D'.id \in Dag
      /\ \A r \in reqs : r.id \in Dag
      /\ \A s \in Slot : IsGot(calls[s]) => calls[s].id \in Dag
  BY ModelNotNone, CallFields DEF TypeOK, Request, IsGot
<1>2. \A doc, d : d \in Dag /\ Foreign(doc) \subseteq srv[d].doc => Foreign(doc) \subseteq srv'[d].doc
  BY ForeignWithin DEF StoredKept
<1>3. ModelKept'
  BY <1>1, <1>2, ForeignWithin DEF NewestInv, ModelKept, SameModel
<1>4. SavesKept'
  <2>1. ASSUME NEW q \in reqs' PROVE Foreign(q.doc) \subseteq srv'[q.id].doc
    <3>1. CASE \E r \in reqs : q.id = r.id /\ q.doc = r.doc
      BY <1>1, <1>2, <3>1 DEF NewestInv, SavesKept
    <3>2. CASE D' # None /\ q.id = D'.id /\ q.doc = D'.doc
      BY <1>3, <3>2 DEF ModelKept
    <3> QED
      BY <2>1, <3>1, <3>2 DEF SameSaves
  <2> QED
    BY <2>1 DEF SavesKept
<1>5. AnswersKept'
  <2>1. ASSUME NEW s \in Slot, IsGot(calls'[s])
        PROVE  /\ Foreign(calls'[s].got.doc) \subseteq srv'[calls'[s].id].doc
               /\ D' # None /\ D'.id = calls'[s].id => Foreign(D'.doc) \subseteq calls'[s].got.doc
               /\ \A q \in reqs' : q.id = calls'[s].id => Foreign(q.doc) \subseteq calls'[s].got.doc
    <3>1. PICK c : c = calls'[s]
      OBVIOUS
    <3>2. c = calls[s] /\ c.id \in Dag
      BY <1>1, <2>1, <3>1 DEF SameAnswers
    <3>3. Newest(c)
      BY <2>1, <3>1, <3>2 DEF NewestInv, AnswersKept
    <3>4. Foreign(c.got.doc) \subseteq srv'[c.id].doc
      BY <1>2, <3>2, <3>3 DEF Newest
    <3>5. D' # None /\ D'.id = c.id => Foreign(D'.doc) \subseteq c.got.doc
      BY <3>3 DEF Newest, SameModel
    <3>6. \A q \in reqs' : q.id = c.id => Foreign(q.doc) \subseteq c.got.doc
      BY <3>3, <3>5 DEF Newest, SameSaves
    <3> QED
      BY <3>1, <3>4, <3>5, <3>6
  <2>2. ASSUME NEW s \in Slot, IsGot(calls[s])' PROVE Newest(calls[s])'
    BY <2>1, <2>2 DEF IsGot, Newest
  <2> QED
    BY <2>2 DEF AnswersKept
<1> QED
  BY <1>3, <1>4, <1>5 DEF NewestInv

LEMMA NewestFlush ==
  ASSUME SafeInv, NEW w, FlushSave(D, saveInflight, w, reqs), UNCHANGED D
  PROVE  SameModel /\ SameSaves
<1>1. D \in Model \cup {None} /\ saveInflight \in BOOLEAN
  BY Bools, TypeParts DEF SafeInv, EditorOK
<1>2. reqs' = reqs \/ (D \in Model /\ reqs' = reqs \cup {DagSpecFrom(D)})
  BY <1>1, FlushSaveSends
<1>3. D \in Model => D # None /\ DagSpecFrom(D).id = D.id /\ DagSpecFrom(D).doc = D.doc
  BY ModelNotNone DEF DagSpecFrom
<1> QED
  BY <1>2, <1>3 DEF SameModel, SameSaves

(* every step but the server's answer for a page and the page itself *)
LEMMA SameSteps ==
  ASSUME SafeInv, CarryInv, ~crossed, [Next]_vars
  PROVE  SameStep \/ \E s \in Slot : GetDag(s) \/ ShowDagRender(s)
<1>1. calls \in [Slot -> Call]
  BY DEF SafeInv, TypeOK
<1>2. ASSUME UNCHANGED <<D, reqs, calls, crossed>> PROVE SameStep
  BY <1>2 DEF SameStep, SameModel, SameSaves, SameAnswers
<1>3. CASE Edits
  <2>1. D \in Model /\ D # None
    BY <1>3, ShownModel, ModelNotNone, TypeParts
       DEF Edits, EditModel, GraphMutate, GraphSaveSession, GraphDiscardSession, SafeInv
  <2>2. SameBase(D)
    BY <2>1 DEF CarryInv, ModelCarries
  <2>3. Edited(D', D) /\ UNCHANGED <<reqs, calls, crossed>>
    BY <1>3, <2>2, EditsEdit DEF SafeInv, pipe
  <2> QED
    BY <2>1, <2>3 DEF SameStep, Edited, SameModel, SameSaves, SameAnswers
<1>4. CASE LoadDags \/ RenderDags \/ RenderDagPage
  BY <1>2, <1>4 DEF LoadDags, RenderDags, RenderDagPage, pipe
<1>5. ASSUME NEW s \in Slot, TriggerActiveDag(s) \/ \E d \in Dag : ShowDag(s, d) PROVE SameStep
  <2>1. FlushPending /\ UNCHANGED <<D, crossed>>
    BY <1>5 DEF TriggerActiveDag, ShowDag, Waits
  <2>2. SameModel /\ SameSaves
    <3>1. CASE timer = "none"
      BY <2>1, <3>1 DEF FlushPending, pipe, SameModel, SameSaves
    <3>2. CASE timer # "none"
      BY <2>1, <3>2, NewestFlush DEF FlushPending
    <3> QED
      BY <3>1, <3>2
  <2>3. ASSUME NEW call, Waits(s, call), ~IsGot(call) PROVE SameAnswers
    BY <1>1, <2>3 DEF Waits, SameAnswers
  <2>4. SameAnswers
    <3>1. ASSUME NEW d \in Dag, ShowDag(s, d) PROVE SameAnswers
      <4>1. ~IsGot([op |-> "open", id |-> d, pc |-> "flush"])
        BY DEF IsGot
      <4> QED
        BY <2>3, <3>1, <4>1 DEF ShowDag
    <3>2. ASSUME TriggerActiveDag(s) PROVE SameAnswers
      <4>1. PICK call : Waits(s, call) /\ call.op = "trigger"
        BY <3>2 DEF TriggerActiveDag
      <4> QED
        BY <2>3, <4>1 DEF IsGot
    <3> QED
      BY <1>5, <3>1, <3>2
  <2> QED
    BY <2>1, <2>2, <2>4 DEF SameStep
<1>6. CASE TimerFires
  BY <1>6, NewestFlush DEF TimerFires, SameAnswers, SameStep
<1>7. CASE AskDelete \/ CancelDelete \/ ConfirmDelete \/ DeleteSend \/ DeleteReturns \/ DeleteDag
  BY <1>2, <1>7
     DEF AskDelete, CancelDelete, ConfirmDelete, DeleteSend, DeleteReturns, DeleteDag, pipe, editor
<1>8. ASSUME NEW s \in Slot, ShowDagFetch(s) PROVE SameStep
  <2>1. calls' = [calls EXCEPT ![s] = [calls[s] EXCEPT !.pc = "sent"]] /\ calls[s].pc = "flush"
    BY <1>8 DEF ShowDagFetch
  <2>2. ~IsGot([calls[s] EXCEPT !.pc = "sent"])
    BY <1>1, <1>8, CallFields DEF IsGot, ShowDagFetch
  <2>3. SameAnswers
    BY <1>1, <2>1, <2>2 DEF SameAnswers
  <2> QED
    BY <1>8, <2>3 DEF ShowDagFetch, pipe, editor, SameStep, SameModel, SameSaves
<1>9. ASSUME NEW s \in Slot, TriggerSend(s) PROVE SameStep
  <2>1. SameAnswers
    BY <1>1, <1>9 DEF TriggerSend, SameAnswers, IsGot, Idle
  <2> QED
    BY <1>9, <2>1 DEF TriggerSend, pipe, editor, SameStep, SameModel, SameSaves
<1>10. CASE \E d \in Dag : OtherSaves(d)
  BY <1>2, <1>10 DEF OtherSaves, pipe, editor
<1>11. ASSUME NEW r \in reqs, SaveReturns(r) PROVE SameStep
  <2>1. UNCHANGED <<crossed, calls>> /\ reqs = {r}
    BY <1>11, SaveReturned DEF SafeInv
  <2>2. SameModel
    BY <1>11, SaveReturned DEF SameModel
  <2>3. reqs' = {} \/ (D' \in Model /\ reqs' = {DagSpecFrom(D')})
    BY <1>11, SaveReturned
  <2>4. D' \in Model => D' # None /\ DagSpecFrom(D').id = D'.id /\ DagSpecFrom(D').doc = D'.doc
    BY ModelNotNone DEF DagSpecFrom
  <2>5. SameSaves
    BY <2>3, <2>4 DEF SameSaves
  <2> QED
    BY <2>1, <2>2, <2>5 DEF SameStep, SameAnswers
<1>12. ASSUME NEW r \in reqs, BuildCheck(r) \/ BuildWrite(r) \/ LoseSave(r) PROVE SameStep
  <2>1. UNCHANGED <<D, crossed, calls>>
    BY <1>12, SameSave
  <2>2. \E q : reqs' = {q} /\ q.id = r.id /\ q.doc = r.doc
    BY <1>12, SameSave
  <2> QED
    BY <2>1, <2>2 DEF SameStep, SameModel, SameSaves, SameAnswers
<1>13. CASE UNCHANGED vars
  BY <1>2, <1>13 DEF vars, pipe, editor
<1>14. CASE User
  BY <1>14, <1>3, <1>4, <1>5, <1>7 DEF User, Edits
<1>15. CASE Console
  BY <1>15, <1>4, <1>6, <1>7, <1>8, <1>9, <1>11 DEF Console
<1>16. CASE Server
  BY <1>16, <1>7, <1>12 DEF Server
<1>17. CASE Environment
  BY <1>17, <1>10, <1>12 DEF Environment
<1> QED
  BY <1>13, <1>14, <1>15, <1>16, <1>17 DEF Next

LEMMA NewestGet ==
  ASSUME TypeOK, NewestInv, NEW s \in Slot, GetDag(s)
  PROVE  NewestInv'
<1>1. calls \in [Slot -> Call] /\ UNCHANGED <<D, reqs, srv, crossed>>
  BY DEF TypeOK, GetDag, editor, pipe
<1>2. PICK got, c : /\ got = srv[calls[s].id] \/ got = None
                    /\ c = [op |-> "open", id |-> calls[s].id, pc |-> "got", got |-> got]
                    /\ calls' = [calls EXCEPT ![s] = c]
  BY DEF GetDag
<1>3. c.id = calls[s].id /\ c.got = got
  BY <1>2
<1>4. IsGot(c) => Newest(c)
  BY <1>2, <1>3 DEF IsGot, Newest, NewestInv, ModelKept, SavesKept, Foreign
<1>5. ASSUME NEW t \in Slot, IsGot(calls'[t]) PROVE Newest(calls'[t])
  BY <1>1, <1>2, <1>4, <1>5 DEF NewestInv, AnswersKept
<1>6. ASSUME NEW t \in Slot, IsGot(calls[t])' PROVE Newest(calls[t])'
  BY <1>1, <1>5, <1>6 DEF IsGot, Newest
<1> QED
  BY <1>1, <1>6 DEF NewestInv, ModelKept, SavesKept, AnswersKept

LEMMA NewestRender ==
  ASSUME OneHandler, TypeOK, NewestInv, NEW s \in Slot, ShowDagRender(s)
  PROVE  NewestInv'
<1>1. calls \in [Slot -> Call] /\ UNCHANGED <<reqs, srv>>
  BY DEF TypeOK, ShowDagRender, pipe
<1>2. PICK c : c = calls[s]
  OBVIOUS
<1>3. c.got # None => Newest(c)
  BY <1>2 DEF NewestInv, AnswersKept, IsGot, ShowDagRender
<1>4. PICK m : m = [id |-> c.id, doc |-> c.got.doc, hash |-> Hash(c.id, c.got.doc),
                    valid |-> TRUE, base |-> None]
  OBVIOUS
<1>5. m.id = c.id /\ m.doc = c.got.doc
  BY <1>4
<1>6. D' = None \/ (D' = m /\ c.got # None)
  <2>1. CASE c.got # None /\ c.got.live
    BY <1>2, <1>4, <2>1, Zenon DEF ShowDagRender
  <2>2. CASE ~(c.got # None /\ c.got.live)
    BY <1>2, <2>2, Zenon DEF ShowDagRender
  <2> QED
    BY <2>1, <2>2
<1>7. ModelKept'
  BY <1>1, <1>3, <1>5, <1>6 DEF ModelKept, Newest
<1>8. SavesKept'
  BY <1>1 DEF NewestInv, SavesKept
<1>9. \A t \in Slot : ~IsGot(calls'[t])
  <2>1. [calls EXCEPT ![s] = Idle] = [t \in Slot |-> Idle]
    BY <1>1 DEF OneHandler
  <2>2. calls' = Replaced([t \in Slot |-> Idle])
    BY <2>1 DEF ShowDagRender
  <2>3. calls' = [t \in Slot |-> Idle]
    BY <2>2 DEF Replaced, Idle
  <2> QED
    BY <2>3 DEF IsGot, Idle
<1>10. AnswersKept'
  <2>1. ASSUME NEW t \in Slot PROVE ~IsGot(calls[t])'
    BY <1>9 DEF IsGot
  <2> QED
    BY <2>1 DEF AnswersKept
<1>11. ~crossed'
  <2>1. ~crossed
    BY DEF NewestInv
  <2>2. c.got # None => \A r \in reqs : r.id = c.id => Foreign(r.doc) \subseteq c.got.doc
    BY <1>3 DEF Newest
  <2> QED
    BY <1>2, <2>1, <2>2 DEF ShowDagRender
<1> QED
  BY <1>7, <1>8, <1>10, <1>11 DEF NewestInv

LEMMA NewestStep ==
  ASSUME OneHandler, CheckInv, CarryInv, NewestInv, AllLive, [Next]_vars
  PROVE  NewestInv' /\ StoredKept
<1>1. TypeOK /\ TypeOK' /\ SafeInv
  BY TypeStep DEF CheckInv, SafeInv
<1>2. StoredKept
  BY ForeignKept DEF KeepsForeign, StoredKept, AllLive, NewestInv
<1>3. CASE SameStep
  BY <1>1, <1>2, <1>3, NewestKept DEF SameStep, NewestInv
<1>4. CASE \E s \in Slot : GetDag(s) \/ ShowDagRender(s)
  BY <1>1, <1>2, <1>4, NewestGet, NewestRender
<1> QED
  BY <1>1, <1>2, <1>3, <1>4, SameSteps DEF NewestInv

(* When one handler of the console waits at a time (showDag, triggerActiveDag), no
   workflow is archived and no other client's save falls into a build, the page
   never falls behind a save under way, so every edit another client stored stays
   stored without exception. *)
THEOREM OtherEditsSurvive ==
  ASSUME ~Overlap, OneHandler
  PROVE  Spec /\ []AllLive => []~crossed /\ [][StoredKept]_vars
<1>1. Init => CheckInv /\ CarryInv /\ NewestInv
  <2> SUFFICES ASSUME Init PROVE CheckInv /\ CarryInv /\ NewestInv
    OBVIOUS
  <2>1. CheckInv /\ CarryInv
    BY SafeInit, CarryInit DEF Init, CheckInv, CheckHolds
  <2>2. NewestInv
    BY DEF Init, NewestInv, ModelKept, SavesKept, AnswersKept, IsGot, Idle, None
  <2> QED
    BY <2>1, <2>2
<1>2. CheckInv /\ CarryInv /\ NewestInv /\ AllLive /\ [Next]_vars
        => (CheckInv /\ CarryInv /\ NewestInv)' /\ StoredKept
  BY RefinementStep, CarryStep, NewestStep DEF CheckInv
<1>3. NewestInv => ~crossed
  BY DEF NewestInv
<1> QED
  BY <1>1, <1>2, <1>3, PTL DEF Spec

-----------------------------------------------------------------------------
(***************************************************************************)
(* The run a user asks for has the edits made by then.  What the user may  *)
(* count on is the model outside a graph session; it is secured when a     *)
(* save is due, carries it, or has stored it and no save under way takes   *)
(* it away.                                                                *)
(***************************************************************************)
Core(m) == IF m.base = None THEN m.doc ELSE m.base.doc
CoreValid(m) == IF m.base = None THEN m.valid ELSE m.base.valid

OnWire(doc) ==
  \E r \in reqs : /\ r.id = D.id /\ doc \subseteq r.doc
                  /\ r.st \in {"ok", "unheard"} => doc \subseteq srv[D.id].doc
AtRest(doc) ==
  /\ doc \subseteq srv[D.id].doc
  /\ \A r \in reqs : r.id = D.id /\ r.st \in {"sent", "checked"} => doc \subseteq r.doc
Secured(doc) == savePending \/ OnWire(doc) \/ AtRest(doc)

PendingIsInflight == savePending => saveInflight
DeleteFails == deleting => failed
CoreKept == D # None => Core(D) \subseteq D.doc
(* flushPendingSaves looks at the timer's id, so a set timer secures the model *)
ModelSecured == D # None /\ CoreValid(D) => timer # "none" \/ Secured(Core(D))
IsWant(c) == c.op = "trigger" /\ c.ok
WantsSecured ==
  \A s \in Slot : IsWant(calls[s]) =>
    D # None /\ calls[s].want \subseteq Core(D) /\ Secured(calls[s].want)
(* a page that was asked for: no save since, or the timer tells of one *)
Asked(c) == c.op = "open" /\ c.pc \in {"sent", "got"}
PagesQuiet ==
  \A s \in Slot : Asked(calls[s]) =>
    \/ timer # "none"
    \/ ~saveInflight /\ (IsGot(calls[s]) => calls[s].got.doc \subseteq srv[calls[s].id].doc)

EditsInv ==
  /\ PendingIsInflight /\ DeleteFails /\ missed = {}
  /\ ~failed => CoreKept /\ ModelSecured /\ WantsSecured /\ PagesQuiet

LEMMA FlushFlags ==
  ASSUME NEW m, NEW i, NEW w, NEW sent, FlushSave(m, i, w, sent), ~deleting
  PROVE  /\ saveInflight'
         /\ i => savePending' /\ reqs' = sent
         /\ ~i => savePending' = w /\ reqs' = sent \cup (IF m = None THEN {} ELSE {DagSpecFrom(m)})
<1>1. CASE i
  BY <1>1, Zenon DEF FlushSave
<1>2. CASE ~i
  BY <1>2, Zenon DEF FlushSave
<1> QED
  BY <1>1, <1>2

LEMMA SentFields ==
  ASSUME NEW m \in Model
  PROVE  DagSpecFrom(m).id = m.id /\ DagSpecFrom(m).doc = m.doc /\ DagSpecFrom(m).st = "sent"
BY DEF DagSpecFrom

(* whatever was secured before, the model is when its timer is flushed *)
LEMMA FlushSecures ==
  ASSUME D \in Model, ~deleting, UNCHANGED D, NEW doc, doc \subseteq D.doc, saveInflight \in BOOLEAN,
         FlushSave(D, saveInflight, savePending, reqs)
  PROVE  Secured(doc)'
<1>1. CASE saveInflight
  BY <1>1, FlushFlags DEF Secured
<1>2. CASE ~saveInflight
  <2>1. D # None
    BY ModelNotNone
  <2>2. DagSpecFrom(D) \in reqs'
    BY <1>2, <2>1, FlushFlags
  <2>3. OnWire(doc)'
    BY <2>2, SentFields DEF OnWire
  <2> QED
    BY <2>3 DEF Secured
<1> QED
  BY <1>1, <1>2

LEMMA SecuredFlush ==
  ASSUME SafeInv, PendingIsInflight, ~deleting, UNCHANGED <<D, srv>>, D # None,
         NEW doc, doc \subseteq D.doc, Secured(doc),
         FlushSave(D, saveInflight, savePending, reqs)
  PROVE  Secured(doc)'
BY FlushSecures DEF SafeInv, TypeOK

LEMMA SecuredQuiet ==
  ASSUME NEW doc, Secured(doc), UNCHANGED <<reqs, savePending>>, D'.id = D.id,
         srv[D.id].doc \subseteq srv'[D.id].doc
  PROVE  Secured(doc)'
<1>1. OnWire(doc) => OnWire(doc)'
  BY DEF OnWire
<1>2. AtRest(doc) => AtRest(doc)'
  BY DEF AtRest
<1> QED
  BY <1>1, <1>2 DEF Secured

LEMMA SecuredBuild ==
  ASSUME SafeInv, NEW r \in reqs, BuildCheck(r) \/ BuildWrite(r) \/ LoseSave(r), D # None,
         NEW doc, Secured(doc)
  PROVE  Secured(doc)'
<1>1. reqs = {r} /\ r \in Request /\ srv \in [Dag -> Stored] /\ D.id \in Dag
  BY OnlyRequest, ModelNotNone DEF SafeInv, TypeOK
<1>2. UNCHANGED <<D, savePending>>
  BY DEF BuildCheck, BuildWrite, LoseSave, editor
<1>3. CASE BuildWrite(r)
  <2>1. PICK q : q = [r EXCEPT !.st = "ok"]
    OBVIOUS
  <2>2. q.id = r.id /\ q.doc = r.doc /\ q.st = "ok" /\ r.id \in Dag
    BY <1>1, <2>1 DEF Request
  <2>3. reqs' = {q} /\ r.st = "checked" /\ srv' = [srv EXCEPT ![r.id] = [doc |-> r.doc, live |-> TRUE]]
    BY <1>1, <1>3, <2>1 DEF BuildWrite
  <2>4. srv'[D.id].doc = IF D.id = r.id THEN r.doc ELSE srv[D.id].doc
    BY <1>1, <2>2, <2>3
  <2>5. OnWire(doc) => OnWire(doc)'
    BY <1>1, <1>2, <2>2, <2>3, <2>4 DEF OnWire
  <2>6. AtRest(doc) => AtRest(doc)'
    BY <1>1, <1>2, <2>2, <2>3, <2>4 DEF AtRest
  <2> QED
    BY <1>2, <2>5, <2>6 DEF Secured
<1>4. CASE BuildCheck(r) \/ LoseSave(r)
  <2>1. srv' = srv
    BY <1>4 DEF BuildCheck, LoseSave
  <2>2. PICK st : /\ reqs' = {[r EXCEPT !.st = st]}
                  /\ st \in {"ok", "unheard"} => r.st \in {"ok", "unheard"}
                  /\ st \in {"sent", "checked"} => r.st \in {"sent", "checked"}
    BY <1>1, <1>4 DEF BuildCheck, LoseSave
  <2>3. PICK q : q = [r EXCEPT !.st = st]
    OBVIOUS
  <2>4. q.id = r.id /\ q.doc = r.doc /\ q.st = st
    BY <1>1, <2>3 DEF Request
  <2>5. OnWire(doc) => OnWire(doc)'
    BY <1>1, <1>2, <2>1, <2>2, <2>3, <2>4 DEF OnWire
  <2>6. AtRest(doc) => AtRest(doc)'
    BY <1>1, <1>2, <2>1, <2>2, <2>3, <2>4 DEF AtRest
  <2> QED
    BY <1>2, <2>5, <2>6 DEF Secured
<1> QED
  BY <1>3, <1>4

LEMMA SecuredReturn ==
  ASSUME SafeInv, NEW r \in reqs, SaveReturns(r), D # None, ~deleting, ~failed',
         NEW doc, doc \subseteq D.doc, Secured(doc)
  PROVE  Secured(doc)'
<1>1. reqs = {r} /\ srv' = srv /\ D' \in Model \cup {None} /\ D' # None
  BY SaveReturned
<1>2. r.st = "ok"
  BY DEF SaveReturns
<1>3. D'.id = D.id /\ D'.doc = D.doc
  BY SaveReturned
<1>4. PICK m : m = D'
  OBVIOUS
<1>5. AfterSave(m, r)
  BY <1>4 DEF SaveReturns
<1>6. CASE savePending
  <2>1. FlushSave(m, FALSE, FALSE, reqs \ {r})
    BY <1>5, <1>6 DEF AfterSave
  <2>2. reqs' = (reqs \ {r}) \cup (IF m = None THEN {} ELSE {DagSpecFrom(m)})
    BY <2>1, Zenon DEF FlushSave
  <2>3. reqs' = {DagSpecFrom(m)}
    BY <1>1, <1>4, <2>2
  <2>4. OnWire(doc)'
    BY <1>1, <1>3, <1>4, <2>3, SentFields DEF OnWire
  <2> QED
    BY <2>4 DEF Secured
<1>7. CASE ~savePending
  <2>1. reqs' = {}
    BY <1>1, <1>5, <1>7 DEF AfterSave
  <2>2. doc \subseteq srv[D.id].doc
    BY <1>1, <1>2, <1>7 DEF Secured, OnWire, AtRest
  <2>3. AtRest(doc)'
    BY <1>1, <1>3, <2>1, <2>2 DEF AtRest
  <2> QED
    BY <2>3 DEF Secured
<1> QED
  BY <1>6, <1>7

(* the user's changes: the core grows, and a valid change arms the timer *)
LEMMA EditSecures ==
  ASSUME TypeOK, CoreKept, ~deleting, Edits
  PROVE  /\ D # None /\ D' # None /\ D'.id = D.id
         /\ Core(D) \subseteq Core(D') /\ Core(D') \subseteq D'.doc
         /\ timer' = timer \/ timer' = "armed"
         /\ CoreValid(D') => timer' = "armed" \/ (Core(D') = Core(D) /\ CoreValid(D))
<1> DEFINE Grown == /\ D' # None /\ D'.id = D.id
                    /\ Core(D) \subseteq Core(D') /\ Core(D') \subseteq D'.doc
                    /\ timer' = timer \/ timer' = "armed"
                    /\ CoreValid(D') => timer' = "armed" \/ (Core(D') = Core(D) /\ CoreValid(D))
<1>1. D \in Model /\ D # None /\ Core(D) \subseteq D.doc
  BY ShownModel, ModelNotNone, TypeParts
     DEF Edits, EditModel, GraphMutate, GraphSaveSession, GraphDiscardSession, CoreKept
<1>2. ASSUME NEW m \in Model, SaveDag(m), m.id = D.id, Core(D) \subseteq Core(m), Core(m) \subseteq m.doc,
             m.valid \/ (m.base = D.base /\ D.base # None) \/ m.base = None
      PROVE  Grown
  <2>1. CASE m.valid
    <3>1. D' = [m EXCEPT !.base = None] /\ timer' = "armed"
      BY <2>1, <1>2 DEF SaveDag
    <3>2. D' \in Model /\ D'.id = m.id /\ D'.doc = m.doc /\ D'.base = None
      BY <1>2, <3>1 DEF Model
    <3> QED
      BY <1>2, <3>1, <3>2, ModelNotNone DEF Core
  <2>2. CASE ~m.valid
    <3>1. D' = m /\ timer' = timer
      BY <2>2, <1>2 DEF SaveDag
    <3>2. CoreValid(m) => m.base = D.base /\ D.base # None
      BY <1>2, <2>2 DEF CoreValid
    <3> QED
      BY <1>2, <3>1, <3>2, ModelNotNone DEF Core, CoreValid
  <2> QED
    BY <2>1, <2>2
<1>3. ASSUME NEW valid \in BOOLEAN, EditModel(valid) PROVE Grown
  <2>1. PICK m : m = [D EXCEPT !.doc = @ \cup {edits + 1}, !.valid = valid]
    OBVIOUS
  <2>2. SaveDag(m) /\ D.doc \cup {edits + 1} \in Doc
    BY <1>1, <1>3, <2>1, EditInRange, TypeParts DEF EditModel, Model, Doc
  <2>3. m \in Model /\ m.id = D.id /\ m.doc = D.doc \cup {edits + 1} /\ m.base = D.base
    BY <1>1, <2>1, <2>2 DEF Model
  <2>4. Core(D) \subseteq Core(m) /\ Core(m) \subseteq m.doc
    BY <1>1, <2>3 DEF Core
  <2> QED
    BY <1>2, <2>2, <2>3, <2>4
<1>4. ASSUME GraphMutate PROVE Grown
  <2>1. D.doc \cup {edits + 1} \in Doc /\ timer' = timer
    BY <1>1, <1>4, EditInRange, TypeParts DEF GraphMutate, Model, Doc
  <2>2. PICK base : base = IF D.base = None THEN [id |-> D.id, doc |-> D.doc, valid |-> D.valid]
                           ELSE D.base
    OBVIOUS
  <2>3. D' = [D EXCEPT !.doc = D.doc \cup {edits + 1}, !.base = base]
    BY <1>1, <1>4, <2>2 DEF GraphMutate, Model
  <2>4. base \in [id : Dag, doc : Doc, valid : BOOLEAN] \cup {None}
    BY <1>1, <2>2 DEF Model
  <2>5. D' \in Model /\ D'.id = D.id /\ D'.doc = D.doc \cup {edits + 1} /\ D'.base = base
    BY <1>1, <2>1, <2>3, <2>4 DEF Model
  <2>6. base # None /\ base.doc = Core(D) /\ (base.valid => CoreValid(D))
    <3>1. CASE D.base = None
      <4>1. base.id = D.id /\ base.doc = D.doc /\ base.valid = D.valid
        BY <2>2, <3>1
      <4> QED
        BY <1>1, <3>1, <4>1, ModelNotNone, DagEditorAssumption DEF None, Core, CoreValid
    <3>2. CASE D.base # None
      BY <2>2, <3>2 DEF Core, CoreValid
    <3> QED
      BY <3>1, <3>2
  <2>7. Core(D') = Core(D) /\ (CoreValid(D') => CoreValid(D))
    BY <2>5, <2>6 DEF Core, CoreValid
  <2> QED
    BY <1>1, <2>1, <2>5, <2>7, ModelNotNone
<1>5. ASSUME GraphSaveSession PROVE Grown
  <2>1. CASE D.valid
    <3>1. PICK m : m = [D EXCEPT !.base = None]
      OBVIOUS
    <3>2. m \in Model /\ m.id = D.id /\ m.doc = D.doc /\ m.base = None /\ m.valid = D.valid
      BY <1>1, <3>1 DEF Model
    <3>3. SaveDag(m)
      BY <1>5, <2>1, <3>1 DEF GraphSaveSession
    <3>4. Core(D) \subseteq Core(m) /\ Core(m) \subseteq m.doc
      BY <1>1, <3>2 DEF Core
    <3> QED
      BY <1>2, <3>2, <3>3, <3>4
  <2>2. CASE ~D.valid
    BY <1>1, <1>5, <2>2 DEF GraphSaveSession
  <2> QED
    BY <2>1, <2>2
<1>6. ASSUME GraphDiscardSession PROVE Grown
  <2>1. /\ D.base # None /\ timer' = timer
        /\ D' = [D EXCEPT !.doc = D.base.doc, !.valid = D.base.valid, !.base = None]
    BY <1>6 DEF GraphDiscardSession
  <2>2. D.base.doc \in Doc /\ D.base.valid \in BOOLEAN
    BY <1>1, <2>1 DEF Model
  <2>3. /\ D' \in Model /\ D'.id = D.id /\ D'.doc = D.base.doc /\ D'.base = None
        /\ D'.valid = D.base.valid
    BY <1>1, <2>1, <2>2 DEF Model
  <2>4. Core(D') = Core(D) /\ (CoreValid(D') => CoreValid(D)) /\ Core(D') = D'.doc
    BY <2>1, <2>3 DEF Core, CoreValid
  <2> QED
    BY <1>1, <2>1, <2>3, <2>4, ModelNotNone
<1> QED
  BY <1>1, <1>3, <1>4, <1>5, <1>6 DEF Edits

SecuredStep ==
  D # None => /\ D' # None /\ Core(D) \subseteq Core(D')
              /\ \A doc : doc \subseteq Core(D) /\ Secured(doc) => Secured(doc)'
SameWants == \A s \in Slot : IsWant(calls'[s]) => calls'[s] = calls[s]
SameAsked == \A s \in Slot : Asked(calls'[s]) => calls'[s] = calls[s]
QuietPage ==
  \/ timer' # "none"
  \/ /\ timer = "none"
     /\ saveInflight \/ (~saveInflight' /\ \A d \in Dag : srv[d].doc \subseteq srv'[d].doc)
SameCore ==
  D' # None /\ CoreValid(D') =>
    timer' # "none" \/ (D # None /\ timer' = timer /\ Core(D') = Core(D) /\ CoreValid(D))

LEMMA WantsKept ==
  ASSUME WantsSecured, SameWants, SecuredStep
  PROVE  WantsSecured'
<1>1. ASSUME NEW s \in Slot, IsWant(calls[s])'
      PROVE  (D # None /\ calls[s].want \subseteq Core(D) /\ Secured(calls[s].want))'
  <2>1. IsWant(calls'[s])
    BY <1>1 DEF IsWant
  <2>2. PICK want : want = calls[s].want
    OBVIOUS
  <2>3. calls'[s] = calls[s] /\ calls'[s].want = want
    BY <2>1, <2>2 DEF SameWants
  <2>4. D # None /\ want \subseteq Core(D) /\ Secured(want)
    BY <2>1, <2>2, <2>3 DEF WantsSecured
  <2>5. D' # None /\ want \subseteq Core(D') /\ Secured(want)'
    BY <2>4 DEF SecuredStep
  <2>6. (calls[s].want \subseteq Core(D))'
    BY <2>3, <2>5 DEF Core, None
  <2>7. Secured(calls[s].want)'
    BY <2>3, <2>5 DEF Secured, OnWire, AtRest
  <2>8. (D # None)'
    BY <2>5 DEF None
  <2> QED
    BY <2>6, <2>7, <2>8
<1> QED
  BY <1>1 DEF WantsSecured

LEMMA PagesKept ==
  ASSUME TypeOK, PagesQuiet, SameAsked, QuietPage
  PROVE  PagesQuiet'
<1>1. ASSUME NEW s \in Slot, Asked(calls[s])'
      PROVE  (\/ timer # "none"
              \/ ~saveInflight /\ (IsGot(calls[s]) => calls[s].got.doc \subseteq srv[calls[s].id].doc))'
  <2>1. Asked(calls'[s])
    BY <1>1 DEF Asked
  <2>2. calls'[s] = calls[s] /\ Asked(calls[s])
    BY <2>1 DEF SameAsked
  <2>3. calls[s].id \in Dag
    BY <2>2, CallFields DEF TypeOK, Asked
  <2>4. CASE timer' # "none"
    BY <2>4
  <2>5. CASE timer = "none" /\ (saveInflight \/ (~saveInflight' /\ \A d \in Dag : srv[d].doc \subseteq srv'[d].doc))
    <3>1. ~saveInflight /\ (IsGot(calls[s]) => calls[s].got.doc \subseteq srv[calls[s].id].doc)
      BY <2>2, <2>5 DEF PagesQuiet
    <3>2. ~saveInflight' /\ (IsGot(calls[s]) => calls[s].got.doc \subseteq srv'[calls[s].id].doc)
      BY <2>3, <2>5, <3>1
    <3> QED
      BY <2>2, <3>2 DEF IsGot, None
  <2> QED
    BY <2>4, <2>5 DEF QuietPage
<1> QED
  BY <1>1 DEF PagesQuiet

LEMMA ModelStaysSecured ==
  ASSUME ModelSecured, SecuredStep, SameCore
  PROVE  ModelSecured'
<1>1. ASSUME (D # None)', CoreValid(D)', timer' = "none" PROVE Secured(Core(D))'
  <2>1. D' # None /\ CoreValid(D')
    BY <1>1 DEF CoreValid, None
  <2>2. PICK doc : doc = Core(D)
    OBVIOUS
  <2>3. D # None /\ timer' = timer /\ Core(D') = doc /\ CoreValid(D)
    BY <1>1, <2>1, <2>2 DEF SameCore
  <2>4. Secured(doc)
    BY <1>1, <2>2, <2>3 DEF ModelSecured
  <2>5. Secured(doc)'
    BY <2>2, <2>3, <2>4 DEF SecuredStep
  <2>6. (Core(D))' = doc
    BY <2>3 DEF Core, None
  <2> QED
    BY <2>5, <2>6 DEF Secured, OnWire, AtRest
<1> QED
  BY <1>1 DEF ModelSecured

Flags == PendingIsInflight /\ DeleteFails

LEMMA FlushPends ==
  ASSUME NEW m, NEW sent, saveInflight \in BOOLEAN, PendingIsInflight,
         FlushSave(m, saveInflight, savePending, sent)
  PROVE  PendingIsInflight'
<1>1. CASE deleting
  BY <1>1, Zenon DEF FlushSave, PendingIsInflight
<1>2. CASE ~deleting
  BY <1>2, FlushFlags DEF PendingIsInflight
<1> QED
  BY <1>1, <1>2

LEMMA FlagsStep ==
  ASSUME SafeInv, Flags, [Next]_vars
  PROVE  Flags' /\ (failed => failed')
<1>0. saveInflight \in BOOLEAN /\ savePending \in BOOLEAN /\ deleting \in BOOLEAN
  BY Bools DEF SafeInv
<1>1. ASSUME UNCHANGED <<saveInflight, savePending, deleting, failed>>
      PROVE  Flags' /\ (failed => failed')
  BY <1>1 DEF Flags, PendingIsInflight, DeleteFails
<1>2. CASE Edits \/ RenderDagPage \/ LoadDags \/ RenderDags
  BY <1>1, <1>2 DEF Edits, EditModel, GraphMutate, GraphSaveSession, GraphDiscardSession,
     RenderDagPage, LoadDags, RenderDags, pipe
<1>3. CASE \E s \in Slot : TriggerActiveDag(s) \/ \E d \in Dag : ShowDag(s, d)
  <2>1. FlushPending /\ UNCHANGED <<deleting, failed>>
    BY <1>3 DEF TriggerActiveDag, ShowDag, Waits
  <2>2. PendingIsInflight'
    <3>1. CASE timer = "none"
      BY <2>1, <3>1 DEF FlushPending, pipe, Flags, PendingIsInflight
    <3>2. CASE timer # "none"
      BY <1>0, <2>1, <3>2, FlushPends DEF FlushPending, Flags
    <3> QED
      BY <3>1, <3>2
  <2> QED
    BY <2>1, <2>2 DEF Flags, DeleteFails
<1>4. CASE TimerFires
  <2>1. UNCHANGED <<deleting, failed>> /\ PendingIsInflight'
    BY <1>0, <1>4, FlushPends DEF TimerFires, Flags
  <2> QED
    BY <2>1 DEF Flags, DeleteFails
<1>5. CASE ConfirmDelete
  BY <1>5 DEF ConfirmDelete, Flags, PendingIsInflight, DeleteFails
<1>6. CASE DeleteReturns
  BY <1>6 DEF DeleteReturns, Flags, PendingIsInflight, DeleteFails, pipe
<1>7. CASE AskDelete \/ CancelDelete \/ DeleteSend \/ DeleteDag
  BY <1>1, <1>7 DEF AskDelete, CancelDelete, DeleteSend, DeleteDag, pipe
<1>8. ASSUME NEW r \in reqs, SaveReturns(r) PROVE Flags' /\ (failed => failed')
  <2>1. deleting' = deleting /\ (failed => failed')
    BY <1>8 DEF SaveReturns
  <2>2. PICK m : AfterSave(m, r)
    BY <1>8 DEF SaveReturns
  <2>3. PendingIsInflight'
    <3>1. CASE savePending
      <4>1. FlushSave(m, FALSE, FALSE, reqs \ {r})
        BY <2>2, <3>1 DEF AfterSave
      <4>2. ~savePending'
        BY <4>1, Zenon DEF FlushSave
      <4> QED
        BY <4>2 DEF PendingIsInflight
    <3>2. CASE ~savePending
      BY <2>2, <3>2 DEF AfterSave, PendingIsInflight
    <3> QED
      BY <3>1, <3>2
  <2> QED
    BY <2>1, <2>3 DEF Flags, DeleteFails
<1>9. ASSUME NEW r \in reqs, BuildCheck(r) \/ BuildWrite(r) \/ LoseSave(r)
      PROVE  Flags' /\ (failed => failed')
  BY <1>1, <1>9 DEF BuildCheck, BuildWrite, LoseSave
<1>10. ASSUME NEW s \in Slot, ShowDagFetch(s) \/ ShowDagRender(s) \/ TriggerSend(s) \/ GetDag(s)
       PROVE  Flags' /\ (failed => failed')
  BY <1>1, <1>10 DEF ShowDagFetch, ShowDagRender, TriggerSend, GetDag, pipe
<1>11. CASE \E d \in Dag : OtherSaves(d)
  BY <1>1, <1>11 DEF OtherSaves, pipe
<1>12. CASE UNCHANGED vars
  BY <1>1, <1>12 DEF vars, pipe
<1>13. CASE User
  BY <1>13, <1>2, <1>3, <1>5, <1>7 DEF User, Edits
<1>14. CASE Console
  BY <1>14, <1>2, <1>4, <1>6, <1>7, <1>8, <1>10 DEF Console
<1>15. CASE Server
  BY <1>15, <1>7, <1>9, <1>10 DEF Server
<1>16. CASE Environment
  BY <1>16, <1>9, <1>11 DEF Environment
<1> QED
  BY <1>12, <1>13, <1>14, <1>15, <1>16 DEF Next

EditsKept == CoreKept /\ ModelSecured /\ WantsSecured /\ PagesQuiet

LEMMA KeepsEdits ==
  ASSUME TypeOK, EditsKept, CoreKept', SecuredStep, SameCore, SameWants, SameAsked, QuietPage
  PROVE  EditsKept'
BY WantsKept, PagesKept, ModelStaysSecured DEF EditsKept

(* nothing of the pipeline moves, and what is stored only grows *)
LEMMA QuietKeepsEdits ==
  ASSUME TypeOK, EditsKept, UNCHANGED <<D, timer, saveInflight, savePending, reqs, calls>>,
         \A d \in Dag : srv[d].doc \subseteq srv'[d].doc
  PROVE  EditsKept'
<1>1. CoreKept'
  BY DEF EditsKept, CoreKept, Core, None
<1>2. SecuredStep
  BY SecuredQuiet, ModelNotNone DEF SecuredStep, TypeOK
<1>3. SameCore /\ SameWants /\ SameAsked
  BY DEF SameCore, SameWants, SameAsked
<1>4. QuietPage
  BY DEF QuietPage, TypeOK
<1> QED
  BY <1>1, <1>2, <1>3, <1>4, KeepsEdits

LEMMA UserKeepsEdits ==
  ASSUME TypeOK, EditsKept, ~deleting, Edits
  PROVE  EditsKept'
<1>1. UNCHANGED <<saveInflight, savePending, reqs, calls, srv>>
  BY DEF Edits, EditModel, GraphMutate, GraphSaveSession, GraphDiscardSession, pipe
<1>2. /\ D # None /\ D' # None /\ D'.id = D.id
      /\ Core(D) \subseteq Core(D') /\ Core(D') \subseteq D'.doc
      /\ timer' = timer \/ timer' = "armed"
      /\ CoreValid(D') => timer' = "armed" \/ (Core(D') = Core(D) /\ CoreValid(D))
  BY EditSecures DEF EditsKept
<1>3. CoreKept'
  BY <1>2 DEF CoreKept, Core, None
<1>4. SecuredStep
  BY <1>1, <1>2, SecuredQuiet DEF SecuredStep
<1>5. SameCore /\ SameWants /\ SameAsked
  BY <1>1, <1>2 DEF SameCore, SameWants, SameAsked
<1>6. QuietPage
  BY <1>1, <1>2 DEF QuietPage, TypeOK
<1> QED
  BY <1>3, <1>4, <1>5, <1>6, KeepsEdits

LEMMA TimerKeepsEdits ==
  ASSUME SafeInv, PendingIsInflight, EditsKept, ~deleting, TimerFires
  PROVE  EditsKept'
<1>1. UNCHANGED <<D, srv, calls>> /\ timer' = "fired" /\ TypeOK
  BY DEF TimerFires, SafeInv
<1>2. CoreKept'
  BY <1>1 DEF EditsKept, CoreKept, Core, None
<1>3. SecuredStep
  <2>1. ASSUME D # None, NEW doc, doc \subseteq Core(D), Secured(doc) PROVE Secured(doc)'
    <3>1. doc \subseteq D.doc
      BY <2>1 DEF EditsKept, CoreKept
    <3> QED
      BY <1>1, <2>1, <3>1, SecuredFlush DEF TimerFires
  <2> QED
    BY <1>1, <2>1 DEF SecuredStep
<1>4. SameCore /\ SameWants /\ SameAsked /\ QuietPage
  BY <1>1 DEF SameCore, SameWants, SameAsked, QuietPage
<1> QED
  BY <1>1, <1>2, <1>3, <1>4, KeepsEdits

LEMMA BuildKeepsEdits ==
  ASSUME SafeInv, EditsKept, NEW r \in reqs, BuildCheck(r) \/ BuildWrite(r) \/ LoseSave(r)
  PROVE  EditsKept'
<1>1. UNCHANGED <<D, timer, calls>> /\ saveInflight /\ TypeOK
  BY OnlyRequest DEF BuildCheck, BuildWrite, LoseSave, editor, SafeInv
<1>2. CoreKept'
  BY <1>1 DEF EditsKept, CoreKept, Core, None
<1>3. SecuredStep
  BY <1>1, SecuredBuild DEF SecuredStep
<1>4. SameCore /\ SameWants /\ SameAsked /\ QuietPage
  BY <1>1 DEF SameCore, SameWants, SameAsked, QuietPage
<1> QED
  BY <1>1, <1>2, <1>3, <1>4, KeepsEdits

LEMMA ReturnKeepsEdits ==
  ASSUME SafeInv, EditsKept, ~deleting, ~failed', NEW r \in reqs, SaveReturns(r)
  PROVE  EditsKept'
<1>1. UNCHANGED <<timer, calls>> /\ saveInflight /\ TypeOK
  BY OnlyRequest DEF SaveReturns, SafeInv
<1>2. (D' = None <=> D = None)
  BY SaveReturned
<1>3. D # None => D'.doc = D.doc /\ D'.base = D.base /\ D'.valid = D.valid
  BY SaveReturned
<1>4. D # None => Core(D') = Core(D) /\ (CoreValid(D') => CoreValid(D))
  BY <1>3 DEF Core, CoreValid
<1>5. CoreKept'
  BY <1>2, <1>3 DEF EditsKept, CoreKept, Core, None
<1>6. SecuredStep
  <2>1. ASSUME D # None, NEW doc, doc \subseteq Core(D), Secured(doc) PROVE Secured(doc)'
    <3>1. doc \subseteq D.doc
      BY <2>1 DEF EditsKept, CoreKept
    <3> QED
      BY <2>1, <3>1, SecuredReturn
  <2> QED
    BY <1>2, <1>4, <2>1 DEF SecuredStep
<1>7. SameCore /\ SameWants /\ SameAsked /\ QuietPage
  BY <1>1, <1>2, <1>4 DEF SameCore, SameWants, SameAsked, QuietPage
<1> QED
  BY <1>1, <1>5, <1>6, <1>7, KeepsEdits

(* showDag and triggerActiveDag: no other handler waits *)
LEMMA WaitsKeepsEdits ==
  ASSUME OneHandler, SafeInv, PendingIsInflight, EditsKept, ~deleting, NEW s \in Slot, NEW call,
         Waits(s, call), UNCHANGED <<D, srv>>, ~Asked(call),
         IsWant(call) => /\ D # None /\ call.want \subseteq Core(D)
                         /\ call.want = Core(D) /\ CoreValid(D)
  PROVE  EditsKept'
<1>1. calls \in [Slot -> Call] /\ calls[s] = Idle /\ saveInflight \in BOOLEAN /\ TypeOK
  BY DEF SafeInv, TypeOK, Waits
<1>2. \A t \in Slot : t = s /\ calls[t] = Idle
  BY <1>1 DEF OneHandler
<1>3. FlushPending /\ (calls' = calls \/ calls' = [calls EXCEPT ![s] = call])
  BY DEF Waits
<1>4. ~IsWant(Idle) /\ ~Asked(Idle)
  BY DEF IsWant, Asked, Idle
<1>5. CoreKept'
  BY DEF EditsKept, CoreKept, Core, None
<1>6. ASSUME D # None, CoreValid(D) PROVE Secured(Core(D))'
  <2>1. PICK doc : doc = Core(D)
    OBVIOUS
  <2>2. doc \subseteq D.doc /\ D \in Model
    BY <1>6, <2>1 DEF EditsKept, CoreKept, SafeInv, TypeOK
  <2>3. Secured(doc)'
    <3>1. CASE timer = "none"
      <4>1. UNCHANGED <<reqs, savePending>>
        BY <1>3, <3>1 DEF FlushPending, pipe
      <4>2. Secured(doc)
        BY <1>6, <2>1, <3>1 DEF EditsKept, ModelSecured
      <4> QED
        BY <4>1, <4>2, SecuredQuiet
    <3>2. CASE timer # "none"
      <4>1. FlushSave(D, saveInflight, savePending, reqs)
        BY <1>3, <3>2 DEF FlushPending
      <4> QED
        BY <1>1, <2>2, <4>1, FlushSecures
    <3> QED
      BY <3>1, <3>2
  <2>4. (Core(D))' = doc
    BY <2>1 DEF Core, None
  <2> QED
    BY <2>3, <2>4 DEF Secured, OnWire, AtRest
<1>7. ModelSecured'
  <2>1. (D # None /\ CoreValid(D))' => D # None /\ CoreValid(D)
    BY DEF CoreValid, None
  <2> QED
    BY <1>6, <2>1 DEF ModelSecured
<1>8. ASSUME NEW t \in Slot PROVE calls'[t] = Idle \/ calls'[t] = call
  BY <1>1, <1>2, <1>3
<1>9. WantsSecured'
  <2>1. ASSUME NEW t \in Slot, IsWant(calls[t])'
        PROVE  (D # None /\ calls[t].want \subseteq Core(D) /\ Secured(calls[t].want))'
    <3>1. IsWant(calls'[t])
      BY <2>1 DEF IsWant
    <3>2. calls'[t] = call /\ IsWant(call)
      BY <1>4, <1>8, <3>1
    <3>3. PICK doc : doc = Core(D)
      OBVIOUS
    <3>4. D # None /\ calls'[t].want = doc /\ CoreValid(D)
      BY <3>2, <3>3
    <3>5. (Core(D))' = doc
      BY <3>3 DEF Core, None
    <3>6. Secured(calls[t].want)'
      BY <1>6, <3>4, <3>5 DEF Secured, OnWire, AtRest
    <3>7. (D # None /\ calls[t].want \subseteq Core(D))'
      BY <3>4, <3>5 DEF None
    <3> QED
      BY <3>6, <3>7
  <2> QED
    BY <2>1 DEF WantsSecured
<1>10. PagesQuiet'
  <2>1. ASSUME NEW t \in Slot PROVE ~Asked(calls[t])'
    BY <1>4, <1>8 DEF Asked
  <2> QED
    BY <2>1 DEF PagesQuiet
<1> QED
  BY <1>5, <1>7, <1>9, <1>10 DEF EditsKept

LEMMA FetchKeepsEdits ==
  ASSUME SafeInv, EditsKept, NEW s \in Slot, ShowDagFetch(s) \/ GetDag(s)
  PROVE  EditsKept'
<1>1. calls \in [Slot -> Call] /\ UNCHANGED <<D, timer, saveInflight, savePending, reqs, srv>> /\ TypeOK
  BY DEF SafeInv, TypeOK, ShowDagFetch, GetDag, editor, pipe
<1>2. CoreKept'
  BY <1>1 DEF EditsKept, CoreKept, Core, None
<1>3. SecuredStep
  BY <1>1, SecuredQuiet DEF SecuredStep
<1>4. PICK c : /\ calls' = [calls EXCEPT ![s] = c] /\ c.op = "open"
               /\ \/ Flushed /\ c.pc = "sent"
                  \/ Asked(calls[s]) /\ c.pc = "got" /\ (c.got = None \/ c.got = srv[c.id])
  <2>1. CASE ShowDagFetch(s)
    <3>1. PICK c : c = [calls[s] EXCEPT !.pc = "sent"]
      OBVIOUS
    <3>2. calls[s].op = "open" /\ calls[s].pc = "flush" /\ Flushed /\ calls' = [calls EXCEPT ![s] = c]
      BY <2>1, <3>1 DEF ShowDagFetch
    <3>3. calls[s] \in [op : {"open"}, id : Dag, pc : {"flush", "sent"}]
      BY <1>1, <3>2 DEF Call, Idle
    <3>4. c.op = "open" /\ c.pc = "sent"
      BY <3>1, <3>3
    <3> QED
      BY <3>2, <3>4
  <2>2. CASE GetDag(s)
    <3>1. PICK got : /\ got = srv[calls[s].id] \/ got = None
                     /\ calls' = [calls EXCEPT ![s] = [op |-> "open", id |-> calls[s].id,
                                                       pc |-> "got", got |-> got]]
      BY <2>2 DEF GetDag
    <3>2. Asked(calls[s])
      BY <2>2 DEF GetDag, Asked
    <3>3. PICK c : c = [op |-> "open", id |-> calls[s].id, pc |-> "got", got |-> got]
      OBVIOUS
    <3>4. /\ calls' = [calls EXCEPT ![s] = c] /\ c.op = "open" /\ c.pc = "got"
          /\ c.got = None \/ c.got = srv[c.id]
      BY <3>1, <3>3
    <3> QED
      BY <3>2, <3>4
  <2> QED
    BY <2>1, <2>2
<1>5. SameWants
  BY <1>1, <1>4 DEF SameWants, IsWant
<1>6. SameCore
  BY <1>1 DEF SameCore
<1>7. WantsSecured' /\ ModelSecured'
  BY <1>3, <1>5, <1>6, WantsKept, ModelStaysSecured DEF EditsKept
<1>8. PagesQuiet'
  <2>1. ASSUME NEW t \in Slot, Asked(calls'[t])
        PROVE  \/ timer # "none"
               \/ ~saveInflight /\ (IsGot(calls'[t]) => calls'[t].got.doc \subseteq srv[calls'[t].id].doc)
    <3>1. CASE t # s
      BY <1>1, <1>4, <2>1, <3>1 DEF EditsKept, PagesQuiet
    <3>2. CASE t = s
      <4>1. calls'[t] = c
        BY <1>1, <1>4, <3>2
      <4>2. CASE Flushed /\ c.pc = "sent"
        BY <4>1, <4>2 DEF Flushed, IsGot
      <4>3. CASE Asked(calls[s]) /\ c.pc = "got" /\ (c.got = None \/ c.got = srv[c.id])
        <5>1. timer # "none" \/ ~saveInflight
          BY <4>3 DEF EditsKept, PagesQuiet
        <5>2. IsGot(c) => c.got.doc \subseteq srv[c.id].doc
          BY <4>3 DEF IsGot
        <5> QED
          BY <4>1, <5>1, <5>2
      <4> QED
        BY <1>4, <4>2, <4>3
    <3> QED
      BY <3>1, <3>2
  <2>2. ASSUME NEW t \in Slot, Asked(calls[t])'
        PROVE  (\/ timer # "none"
                \/ ~saveInflight /\ (IsGot(calls[t]) => calls[t].got.doc \subseteq srv[calls[t].id].doc))'
    <3>1. Asked(calls'[t])
      BY <2>2 DEF Asked
    <3> QED
      BY <1>1, <2>1, <3>1 DEF IsGot, None
  <2> QED
    BY <2>2 DEF PagesQuiet
<1> QED
  BY <1>2, <1>7, <1>8 DEF EditsKept

LEMMA RenderKeepsEdits ==
  ASSUME OneHandler, SafeInv, EditsKept, NEW s \in Slot, ShowDagRender(s)
  PROVE  EditsKept'
<1>1. calls \in [Slot -> Call] /\ UNCHANGED <<timer, saveInflight, savePending, reqs, srv>> /\ TypeOK
  BY DEF SafeInv, TypeOK, ShowDagRender, pipe
<1>2. PICK c : c = calls[s]
  OBVIOUS
<1>3. c.op = "open" /\ c.pc = "got" /\ c.id \in Dag
  BY <1>1, <1>2, CallFields DEF ShowDagRender
<1>4. PICK m : m = [id |-> c.id, doc |-> c.got.doc, hash |-> Hash(c.id, c.got.doc),
                    valid |-> TRUE, base |-> None]
  OBVIOUS
<1>5. m.id = c.id /\ m.doc = c.got.doc /\ m.base = None
  BY <1>4
<1>6. D' = None \/ (D' = m /\ c.got # None)
  <2>1. CASE c.got # None /\ c.got.live
    BY <1>2, <1>4, <2>1, Zenon DEF ShowDagRender
  <2>2. CASE ~(c.got # None /\ c.got.live)
    BY <1>2, <2>2, Zenon DEF ShowDagRender
  <2> QED
    BY <2>1, <2>2
<1>7. CoreKept'
  BY <1>5, <1>6 DEF CoreKept, Core, None
<1>8. ModelSecured'
  <2>1. ASSUME D' # None, timer' = "none" PROVE Secured(Core(D))'
    <3>1. PICK doc : doc = c.got.doc
      OBVIOUS
    <3>2. ~saveInflight /\ doc \subseteq srv[c.id].doc
      BY <1>1, <1>2, <1>3, <1>6, <2>1, <3>1 DEF EditsKept, PagesQuiet, Asked, IsGot
    <3>3. reqs' = {}
      BY <1>1, <3>2 DEF SafeInv, OneSaveAtATime
    <3>4. (Core(D))' = doc /\ D'.id = c.id
      BY <1>5, <1>6, <2>1, <3>1 DEF Core, None
    <3>5. AtRest(Core(D))'
      BY <1>1, <3>2, <3>3, <3>4 DEF AtRest
    <3> QED
      BY <3>5 DEF Secured
  <2> QED
    BY <2>1 DEF ModelSecured, None
<1>9. calls' = [t \in Slot |-> Idle]
  <2>1. [calls EXCEPT ![s] = Idle] = [t \in Slot |-> Idle]
    BY <1>1 DEF OneHandler
  <2>2. calls' = Replaced([t \in Slot |-> Idle])
    BY <2>1 DEF ShowDagRender
  <2> QED
    BY <2>2 DEF Replaced, Idle
<1>10. WantsSecured' /\ PagesQuiet'
  <2>1. ASSUME NEW t \in Slot PROVE ~IsWant(calls[t])' /\ ~Asked(calls[t])'
    BY <1>9 DEF IsWant, Asked, Idle
  <2> QED
    BY <2>1 DEF WantsSecured, PagesQuiet
<1> QED
  BY <1>7, <1>8, <1>10 DEF EditsKept

LEMMA SendKeepsEdits ==
  ASSUME SafeInv, PendingIsInflight, ~failed => EditsKept, NEW s \in Slot, TriggerSend(s)
  PROVE  (~failed => EditsKept') /\ missed' = {}
<1>1. calls \in [Slot -> Call] /\ UNCHANGED <<D, timer, saveInflight, savePending, reqs, srv>> /\ TypeOK
  BY DEF SafeInv, TypeOK, TriggerSend, editor, pipe
<1>2. ASSUME ~failed PROVE EditsKept'
  <2>1. CoreKept'
    BY <1>1, <1>2 DEF EditsKept, CoreKept, Core, None
  <2>2. SecuredStep
    BY <1>1, SecuredQuiet DEF SecuredStep
  <2>3. SameCore /\ SameWants /\ SameAsked
    BY <1>1 DEF SameCore, SameWants, SameAsked, TriggerSend, IsWant, Asked, Idle
  <2>4. QuietPage
    BY <1>1 DEF QuietPage, TypeOK
  <2> QED
    BY <1>1, <1>2, <2>1, <2>2, <2>3, <2>4, KeepsEdits
<1>3. missed' = {}
  <2>1. CASE D = None \/ ~calls[s].ok \/ failed
    BY <2>1, Zenon DEF TriggerSend
  <2>2. CASE ~(D = None \/ ~calls[s].ok \/ failed)
    <3>1. missed' = calls[s].want \ srv[D.id].doc
      BY <2>2, Zenon DEF TriggerSend
    <3>2. IsWant(calls[s]) /\ ~saveInflight
      BY <2>2 DEF TriggerSend, IsWant, Flushed
    <3>3. Secured(calls[s].want)
      BY <2>2, <3>2 DEF EditsKept, WantsSecured
    <3>4. ~savePending /\ reqs = {}
      BY <3>2 DEF PendingIsInflight, SafeInv, OneSaveAtATime
    <3>5. calls[s].want \subseteq srv[D.id].doc
      BY <3>3, <3>4 DEF Secured, OnWire, AtRest
    <3> QED
      BY <3>1, <3>5
  <2> QED
    BY <2>1, <2>2
<1> QED
  BY <1>2, <1>3

LEMMA EditsStep ==
  ASSUME OneHandler, SafeInv, EditsInv, [Next]_vars
  PROVE  EditsInv'
<1>1. TypeOK /\ Flags /\ PendingIsInflight /\ (deleting => failed) /\ missed = {}
      /\ (~failed => EditsKept)
  BY DEF SafeInv, EditsInv, Flags, DeleteFails, EditsKept
<1>2. Flags' /\ (failed => failed')
  BY <1>1, FlagsStep
<1>3. SUFFICES (~failed' => EditsKept') /\ missed' = {}
  BY <1>2 DEF EditsInv, Flags, EditsKept
<1> DEFINE Kept == (~failed' => EditsKept') /\ missed' = {}
<1>4. ASSUME missed' = missed, ~failed' /\ ~failed /\ ~deleting /\ EditsKept => EditsKept' PROVE Kept
  BY <1>1, <1>2, <1>4
<1> HIDE DEF Kept
<1>5. ASSUME UNCHANGED <<D, timer, saveInflight, savePending, reqs, calls, missed>>,
             \A d \in Dag : srv[d].doc \subseteq srv'[d].doc
      PROVE  Kept
  BY <1>1, <1>4, <1>5, QuietKeepsEdits
<1>6. CASE Edits
  <2>1. missed' = missed
    BY <1>6 DEF Edits, EditModel, GraphMutate, GraphSaveSession, GraphDiscardSession
  <2> QED
    BY <1>1, <1>4, <1>6, <2>1, UserKeepsEdits DEF Kept
<1>7. CASE RenderDagPage \/ LoadDags \/ RenderDags
  BY <1>5, <1>7 DEF RenderDagPage, LoadDags, RenderDags, pipe, Kept
<1>8. ASSUME NEW s \in Slot, TriggerActiveDag(s) PROVE Kept
  <2>1. PICK call : call = [op |-> "trigger", id |-> D.id, want |-> D.doc, ok |-> D.valid /\ D.base = None]
    OBVIOUS
  <2>2. Waits(s, call) /\ UNCHANGED <<D, srv, missed>> /\ D # None
    BY <1>1, <1>8, <2>1, Zenon DEF TriggerActiveDag, TypeOK
  <2>3. call.op = "trigger" /\ call.want = D.doc
    BY <2>1
  <2>4. call.ok => D.valid /\ D.base = None
    BY <2>1
  <2>5. ~Asked(call) /\ (IsWant(call) => /\ D # None /\ call.want \subseteq Core(D)
                                         /\ call.want = Core(D) /\ CoreValid(D))
    BY <2>2, <2>3, <2>4 DEF Asked, IsWant, Core, CoreValid
  <2> QED
    BY <1>1, <1>4, <2>2, <2>5, WaitsKeepsEdits
<1>9. ASSUME NEW s \in Slot, NEW d \in Dag, ShowDag(s, d) PROVE Kept
  <2>1. PICK call : call = [op |-> "open", id |-> d, pc |-> "flush"]
    OBVIOUS
  <2>2. Waits(s, call) /\ UNCHANGED <<D, srv, missed>>
    BY <1>9, <2>1, Zenon DEF ShowDag
  <2>3. ~Asked(call) /\ ~IsWant(call)
    BY <2>1 DEF Asked, IsWant
  <2> QED
    BY <1>1, <1>4, <2>2, <2>3, WaitsKeepsEdits
<1>10. CASE TimerFires
  BY <1>1, <1>4, <1>10, TimerKeepsEdits DEF TimerFires, Kept
<1>11. CASE ConfirmDelete
  BY <1>1, <1>11 DEF ConfirmDelete
<1>12. CASE AskDelete \/ CancelDelete \/ DeleteSend \/ DeleteReturns
  BY <1>5, <1>12 DEF AskDelete, CancelDelete, DeleteSend, DeleteReturns, pipe, editor, Kept
<1>13. CASE DeleteDag
  <2>1. \A d \in Dag : srv[d].doc \subseteq srv'[d].doc
    BY <1>1, <1>13 DEF DeleteDag, TypeOK, Stored
  <2> QED
    BY <1>5, <1>13, <2>1 DEF DeleteDag, pipe, editor, Kept
<1>14. ASSUME NEW d \in Dag, OtherSaves(d) PROVE Kept
  <2>1. \A e \in Dag : srv[e].doc \subseteq srv'[e].doc
    BY <1>1, <1>14 DEF OtherSaves, TypeOK, Stored
  <2> QED
    BY <1>5, <1>14, <2>1 DEF OtherSaves, pipe, editor
<1>15. ASSUME NEW r \in reqs, SaveReturns(r) PROVE Kept
  BY <1>4, <1>15, ReturnKeepsEdits DEF SaveReturns
<1>16. ASSUME NEW r \in reqs, BuildCheck(r) \/ BuildWrite(r) \/ LoseSave(r) PROVE Kept
  <2>1. missed' = missed
    BY <1>16 DEF BuildCheck, BuildWrite, LoseSave
  <2> QED
    BY <1>4, <1>16, <2>1, BuildKeepsEdits
<1>17. ASSUME NEW s \in Slot, ShowDagFetch(s) \/ GetDag(s) PROVE Kept
  <2>1. missed' = missed
    BY <1>17 DEF ShowDagFetch, GetDag
  <2> QED
    BY <1>4, <1>17, <2>1, FetchKeepsEdits
<1>18. ASSUME NEW s \in Slot, ShowDagRender(s) PROVE Kept
  <2>1. missed' = missed
    BY <1>18 DEF ShowDagRender
  <2> QED
    BY <1>4, <1>18, <2>1, RenderKeepsEdits
<1>19. ASSUME NEW s \in Slot, TriggerSend(s) PROVE Kept
  <2>1. failed' = failed
    BY <1>19 DEF TriggerSend
  <2> QED
    BY <1>1, <1>19, <2>1, SendKeepsEdits DEF Kept
<1>20. CASE UNCHANGED vars
  BY <1>5, <1>20 DEF vars, pipe, editor, Kept
<1>21. User => Kept
  BY <1>6, <1>7, <1>8, <1>9, <1>11, <1>12 DEF User, Edits, Kept
<1>22. Console => Kept
  BY <1>7, <1>10, <1>12, <1>15, <1>17, <1>18, <1>19 DEF Console, Kept
<1>23. Server => Kept
  BY <1>13, <1>16, <1>17 DEF Server, Kept
<1>24. Environment => Kept
  BY <1>14, <1>16 DEF Environment
<1> QED
  BY <1>20, <1>21, <1>22, <1>23, <1>24 DEF Next, Kept

(* A run starts from a definition with every edit the user had made when asking for
   it (flushPendingSaves before the POST of triggerActiveDag), unless a save failed
   or was dropped for a delete, the model had errors or a graph session was open,
   when one handler of the console waits at a time. *)
THEOREM RunsHaveTheEdits == ASSUME OneHandler PROVE Spec => []TriggerRunsEdits
<1>1. Init => EditsInv
  <2> SUFFICES ASSUME Init PROVE EditsInv
    OBVIOUS
  <2>1. PendingIsInflight /\ DeleteFails /\ missed = {} /\ CoreKept /\ ModelSecured
    BY DEF Init, PendingIsInflight, DeleteFails, CoreKept, ModelSecured, None
  <2>2. WantsSecured /\ PagesQuiet
    BY DEF Init, WantsSecured, PagesQuiet, IsWant, Asked, Idle
  <2> QED
    BY <2>1, <2>2 DEF EditsInv
<1>2. SafeInv /\ EditsInv /\ [Next]_vars => (SafeInv /\ EditsInv)'
  BY SafeStep, EditsStep
<1>3. EditsInv => TriggerRunsEdits
  BY DEF EditsInv, TriggerRunsEdits
<1> QED
  BY <1>1, <1>2, <1>3, SafeInit, PTL DEF Spec
=============================================================================
