----------------------------- MODULE GuardedSave -----------------------------
(***************************************************************************)
(* What an editor may do to the stored workflows: one save on the wire at  *)
(* a time, stored whole, once, and only over the definition it was based   *)
(* on (or over an archived workflow, which counts as new); a workflow is   *)
(* archived only while no save is on the wire.  Other clients build on     *)
(* what is stored.                                                         *)
(***************************************************************************)
CONSTANT Dag, Doc

VARIABLES
  stored,       \* stored[d]: the definition of d and whether d is live
  wire          \* the saves under way

Save == [id : Dag, doc : Doc, base : Dag \X Doc, landed : BOOLEAN]

Init ==
  /\ stored = [d \in Dag |-> [doc |-> {}, live |-> TRUE]]
  /\ wire = {}

(* a save that has not been stored yet *)
Fresh(w) == \E s \in w : s \in Save /\ ~s.landed /\ w = {s}

Dispatch ==
  /\ wire = {}
  /\ Fresh(wire')
  /\ UNCHANGED stored

Land ==
  \E s \in wire :
    /\ ~s.landed
    /\ stored[s.id].live => s.base = <<s.id, stored[s.id].doc>>
    /\ stored' = [stored EXCEPT ![s.id] = [doc |-> s.doc, live |-> TRUE]]
    /\ wire' = {[id |-> s.id, doc |-> s.doc, base |-> s.base, landed |-> TRUE]}

(* answered or given up; the next save may go out in the same step *)
Close ==
  /\ wire # {}
  /\ wire' = {} \/ Fresh(wire')
  /\ UNCHANGED stored

Archive(d) ==
  /\ wire = {}
  /\ stored' = [stored EXCEPT ![d].live = FALSE]
  /\ UNCHANGED wire

Others(d) ==
  /\ \E doc \in {stored'[d].doc} :
       /\ doc \in Doc /\ stored[d].doc \subseteq doc
       /\ stored' = [stored EXCEPT ![d].doc = doc]
  /\ UNCHANGED wire

Next ==
  \/ Dispatch \/ Land \/ Close
  \/ \E d \in Dag : Archive(d) \/ Others(d)

Spec == Init /\ [][Next]_<<stored, wire>>
=============================================================================
