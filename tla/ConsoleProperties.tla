-------------------------- MODULE ConsoleProperties --------------------------
(***************************************************************************)
(* What the console's frame promises about its page, its address bar and   *)
(* its sign-in.                                                            *)
(***************************************************************************)
EXTENDS Console

Places == Page \ {"aiwiki"}   \* the pages with an address

(* The state's types: a page, a place in the history, requests under way and a
   sign-in (base.js). *)
TypeOK ==
  /\ view \in Page /\ screen \in Page \cup {"blank", "error"}
  /\ uiMode \in {"expert", "novice"}
  /\ hash \in Places /\ hist \in Seq(Places) /\ suppressHash \in BOOLEAN /\ events \in Nat
  /\ IsABag(loads)
  /\ BagToSet(loads) \subseteq [page : Page, st : {"sent", "ok", "401"}]
  /\ authUser \in {"none", "user", "unknown"} /\ starting \in Nat
  /\ session \in BOOLEAN /\ login \in BOOLEAN /\ asking \in BOOLEAN /\ leaving \in BOOLEAN
  /\ moves \in 0..MaxMoves /\ faults \in 0..MaxFaults /\ broken \in BOOLEAN

(* setHash announces only changes that fire a hashchange: a suppression that is
   still set has its event on the way, so a later Back is never swallowed. *)
NoStuckSuppression == suppressHash => events > 0

Loading(p) == \E l \in BagToSet(loads) : l.page = p
AtRest == events = 0 /\ starting = 0 /\ authUser # "none" /\ ~broken

ViewMatchesHash == AtRest /\ ~Loading("dag") /\ view # "aiwiki" => view = hash
ScreenIsView ==
  AtRest /\ (\A p \in Page : ~Loading(p)) => screen = view \/ screen \in Unguarded

(* Once the events are delivered the page is the one in the address bar, and once
   the answers are in main shows it, however clicks, Back, mode switches and late
   answers were interleaved.  The AI wiki has no address; the pages that paint
   without looking at view (pools, graph, run) may be left over another. *)
PageMatchesAddress == ViewMatchesHash /\ ScreenIsView

(* Neither the heartbeat nor a late answer or sign-out leaves the console signed
   out without the form: api() and doLogout show it, or initAuth is asking. *)
SignedOutMeansLogin == authUser = "none" => login \/ asking

(* What the address bar says is always shown in the end (the novice mode sends
   the workers' page to the dashboard, and the address with it), unless a request
   fails, a page without a guard lands over it or the AI wiki is open. *)
AddressShown ==
  []<>(screen = hash \/ broken \/ authUser = "none" \/ view = "aiwiki" \/ screen \in Unguarded)
=============================================================================
