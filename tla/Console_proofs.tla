--------------------------- MODULE Console_proofs ---------------------------
(***************************************************************************)
(* The frame's invariants for every set of pages and every number of moves *)
(* and faults.                                                             *)
(***************************************************************************)
EXTENDS ConsoleProperties, TLAPS

(* requests are added to and taken from a bag *)
LEMMA BagAddFact ==
  ASSUME NEW B, IsABag(B), NEW x
  PROVE  IsABag(BagAdd(B, x)) /\ BagToSet(BagAdd(B, x)) = BagToSet(B) \cup {x}
BY DEF IsABag, BagAdd, BagToSet

LEMMA BagRemoveFact ==
  ASSUME NEW B, IsABag(B), NEW x
  PROVE  /\ IsABag(BagRemove(B, x))
         /\ BagToSet(BagRemove(B, x)) \subseteq BagToSet(B)
         /\ BagToSet(B) \ {x} \subseteq BagToSet(BagRemove(B, x))
BY DEF IsABag, BagRemove, BagToSet

-----------------------------------------------------------------------------
(***************************************************************************)
(* The inductive invariant.  A page that is being loaded excuses the       *)
(* screen, a workflow that is being loaded the view as well.  While events *)
(* of the browser are on their way the view may lag behind the address,    *)
(* unless the one event is the one that setHash suppresses.                *)
(***************************************************************************)
Requests == [page : Page, st : {"sent", "ok", "401"}]
Settled == starting = 0 /\ authUser # "none" /\ ~broken
Quiet == events = IF suppressHash THEN 1 ELSE 0
InSync == view = hash \/ view = "aiwiki" \/ Loading("dag")
Painted == screen = view \/ screen \in Unguarded \/ Loading(view) \/ Loading("dag")

PlaceOK ==
  /\ view \in Page /\ screen \in Page \cup {"blank", "error"}
  /\ hash \in Places /\ hist \in Seq(Places) /\ suppressHash \in BOOLEAN /\ events \in Nat
  /\ NoStuckSuppression
LoadsOK == IsABag(loads) /\ BagToSet(loads) \subseteq Requests
AuthOK ==
  /\ authUser \in {"none", "user", "unknown"} /\ starting \in Nat
  /\ session \in BOOLEAN /\ login \in BOOLEAN /\ asking \in BOOLEAN /\ leaving \in BOOLEAN
  /\ SignedOutMeansLogin
CountOK ==
  /\ uiMode \in {"expert", "novice"}
  /\ moves \in 0..MaxMoves /\ faults \in 0..MaxFaults /\ broken \in BOOLEAN

FrameInv ==
  /\ PlaceOK /\ LoadsOK /\ AuthOK /\ CountOK
  /\ Settled => Painted
  /\ Settled /\ Quiet => InSync

LEMMA FrameTypes == FrameInv => TypeOK
BY DEF FrameInv, PlaceOK, LoadsOK, AuthOK, CountOK, TypeOK, Requests

(* what the router leaves behind, whatever it was called for *)
Routed == PlaceOK' /\ LoadsOK' /\ InSync' /\ Painted'

LEMMA RequestFact ==
  ASSUME TypeOK, NEW p \in Page, Request(p)
  PROVE  /\ IsABag(loads') /\ BagToSet(loads') \subseteq Requests
         /\ Loading(p)' /\ \A q : Loading(q) => Loading(q)'
<1> DEFINE r == [page |-> p, st |-> "sent"]
<1>1. r \in Requests BY DEF Requests
<1>2. IsABag(loads') /\ BagToSet(loads') = BagToSet(loads) \cup {r}
  BY BagAddFact DEF TypeOK, Request
<1>3. r.page = p /\ r \in BagToSet(loads') BY <1>2
<1>4. Loading(p)' BY <1>3 DEF Loading, BagToSet
<1>5. \A q : Loading(q) => Loading(q)' BY <1>2 DEF Loading, BagToSet
<1>6. BagToSet(loads') \subseteq Requests BY <1>1, <1>2 DEF TypeOK, Requests
<1> QED BY <1>2, <1>4, <1>5, <1>6

LEMMA SetHashFact ==
  ASSUME TypeOK, NEW p \in Places, NEW ev \in Nat, suppressHash => ev > 0, SetHash(p, ev)
  PROVE  /\ hash' = p /\ hist' \in Seq(Places)
         /\ suppressHash' \in BOOLEAN /\ events' \in Nat
         /\ suppressHash' => events' > 0
<1>1. hash \in Places /\ hist \in Seq(Places) /\ suppressHash \in BOOLEAN BY DEF TypeOK
<1>2. CASE hash = p
  <2>1. events' = ev /\ hash' = hash /\ hist' = hist /\ suppressHash' = suppressHash
    BY <1>2 DEF SetHash
  <2> QED BY <1>1, <1>2, <2>1
<1>3. CASE hash # p
  <2>1. hash' = p /\ hist' = Append(hist, hash) /\ suppressHash' = TRUE /\ events' = ev + 1
    BY <1>3 DEF SetHash
  <2>2. hist' \in Seq(Places) BY <1>1, <2>1
  <2> QED BY <2>1, <2>2
<1> QED BY <1>2, <1>3

LEMMA LoadPageRouted ==
  ASSUME TypeOK, NEW p \in Places, NEW ev \in Nat, suppressHash => ev > 0, LoadPage(p, ev)
  PROVE  Routed
<1>1. p \in Page BY DEF Places
<1>2. /\ IsABag(loads') /\ BagToSet(loads') \subseteq Requests /\ Loading(p)'
  BY <1>1, RequestFact DEF LoadPage
<1>3. /\ hash' = p /\ hist' \in Seq(Places)
      /\ suppressHash' \in BOOLEAN /\ events' \in Nat
      /\ suppressHash' => events' > 0
  BY SetHashFact DEF LoadPage
<1>4. view' \in Page /\ screen' = screen /\ (p # "dag" => view' = p)
  BY <1>1 DEF LoadPage, TypeOK
<1>5. InSync' /\ Painted'
  <2>1. CASE p = "dag" BY <2>1, <1>2 DEF InSync, Painted
  <2>2. CASE p # "dag"
    <3>1. Loading(view)' BY <2>2, <1>2, <1>4 DEF Loading
    <3> QED BY <2>2, <3>1, <1>3, <1>4 DEF InSync, Painted
  <2> QED BY <2>1, <2>2
<1> QED BY <1>2, <1>3, <1>4, <1>5 DEF Routed, TypeOK, PlaceOK, LoadsOK, NoStuckSuppression, IsABag, BagToSet

LEMMA ShowWizardRouted ==
  ASSUME TypeOK, "new" \in Places, NEW ev \in Nat, suppressHash => ev > 0, ShowWizard(ev)
  PROVE  Routed
<1>1. /\ hash' = "new" /\ hist' \in Seq(Places)
      /\ suppressHash' \in BOOLEAN /\ events' \in Nat
      /\ suppressHash' => events' > 0
  BY SetHashFact DEF ShowWizard
<1>2. view' = "new" /\ screen' = "new" /\ loads' = loads BY DEF ShowWizard
<1> QED BY <1>1, <1>2 DEF Routed, TypeOK, PlaceOK, LoadsOK, NoStuckSuppression, IsABag, BagToSet,
      Requests, InSync, Painted, Places

LEMMA ApplyRouteRouted ==
  ASSUME TypeOK, NEW p \in Places, NEW m, NEW ev \in Nat, suppressHash => ev > 0,
         ApplyRoute(p, m, ev)
  PROVE  Routed
<1>1. "dags" \in Places /\ p \in AllPages BY ConsoleAssumption DEF Places
<1>2. (p = "new" /\ ShowWizard(ev)) \/ LoadPage(p, ev) \/ LoadPage("dags", ev)
  BY <1>1 DEF ApplyRoute, AllPages, Places, LoadDags, ShowDag, ShowRun, ShowPools, ShowGraph,
       ShowResources, ShowAudit, ShowApi, ShowAIProviders, ShowWorkers
<1> QED BY <1>1, <1>2, LoadPageRouted, ShowWizardRouted

-----------------------------------------------------------------------------
(* The steps that route. *)

LEMMA RoutedKeeps ==
  ASSUME FrameInv, Routed, CountOK', UNCHANGED <<authUser, session, login, asking, leaving>>,
         starting' \in Nat
  PROVE  FrameInv'
<1>1. AuthOK' BY DEF FrameInv, AuthOK, SignedOutMeansLogin
<1> QED BY <1>1 DEF Routed, FrameInv

LEMMA NavigateKeeps ==
  ASSUME FrameInv, NEW p \in Page, Navigate(p)
  PROVE  FrameInv'
<1>1. TypeOK /\ CountOK' BY FrameTypes, ConsoleAssumption DEF FrameInv, CountOK, Navigate, Move
<1>2. Routed
  <2>1. CASE p = "aiwiki"
    <3>1. /\ view' = "aiwiki" /\ screen' = "aiwiki"
          /\ UNCHANGED <<hash, hist, suppressHash, events, loads>>
      BY <2>1 DEF Navigate, ShowAIWiki, route
    <3> QED BY <2>1, <3>1 DEF FrameInv, Routed, PlaceOK, LoadsOK, NoStuckSuppression,
          IsABag, BagToSet, Requests, InSync, Painted
  <2>2. CASE p # "aiwiki"
    <3>1. p \in Places /\ events \in Nat /\ (suppressHash => events > 0)
      BY <2>2 DEF Places, FrameInv, PlaceOK, NoStuckSuppression
    <3> QED BY <1>1, <2>2, <3>1, ApplyRouteRouted DEF Navigate
  <2> QED BY <2>1, <2>2
<1>3. UNCHANGED <<authUser, session, login, asking, leaving, starting>> BY DEF Navigate, auth
<1>4. starting' \in Nat BY <1>3 DEF FrameInv, AuthOK
<1> QED BY <1>1, <1>2, <1>3, <1>4, RoutedKeeps

LEMMA JumpToKeeps ==
  ASSUME FrameInv, JumpTo
  PROVE  FrameInv'
<1>1. TypeOK /\ CountOK' BY FrameTypes, ConsoleAssumption DEF FrameInv, CountOK, JumpTo, Move
<1>2. "dag" \in Page /\ "dag" \in Places BY DEF JumpTo, Places
<1>3. events \in Nat /\ (suppressHash => events > 0) BY DEF FrameInv, PlaceOK, NoStuckSuppression
<1>4. /\ hash' = "dag" /\ hist' \in Seq(Places) /\ suppressHash' \in BOOLEAN
      /\ events' \in Nat /\ (suppressHash' => events' > 0)
  BY <1>1, <1>2, <1>3, SetHashFact DEF JumpTo
<1>5. IsABag(loads') /\ BagToSet(loads') \subseteq Requests /\ Loading("dag")'
  BY <1>1, <1>2, RequestFact DEF JumpTo
<1>6. view' = view /\ screen' \in Page \cup {"blank", "error"}
  BY ConsoleAssumption DEF JumpTo, FrameInv, PlaceOK
<1>7. PlaceOK' BY <1>2, <1>4, <1>6 DEF FrameInv, PlaceOK, NoStuckSuppression
<1>8. LoadsOK' BY <1>5 DEF LoadsOK, IsABag, BagToSet
<1>9. InSync' /\ Painted' BY <1>5 DEF InSync, Painted
<1>10. UNCHANGED <<authUser, session, login, asking, leaving, starting>> BY DEF JumpTo, auth
<1>11. starting' \in Nat BY <1>10 DEF FrameInv, AuthOK
<1> QED BY <1>1, <1>7, <1>8, <1>9, <1>10, <1>11, RoutedKeeps DEF Routed

LEMMA SetModeKeeps ==
  ASSUME FrameInv, SetMode
  PROVE  FrameInv'
<1>1. TypeOK /\ CountOK' BY FrameTypes, ConsoleAssumption DEF FrameInv, CountOK, SetMode, Move
<1>2. hash \in Places /\ events \in Nat /\ (suppressHash => events > 0)
  BY DEF FrameInv, PlaceOK, NoStuckSuppression
<1>3. Routed BY <1>1, <1>2, ApplyRouteRouted DEF SetMode
<1>4. UNCHANGED <<authUser, session, login, asking, leaving, starting>> BY DEF SetMode, auth
<1>5. starting' \in Nat BY <1>4 DEF FrameInv, AuthOK
<1> QED BY <1>1, <1>3, <1>4, <1>5, RoutedKeeps

LEMMA StartAppKeeps ==
  ASSUME FrameInv, StartApp
  PROVE  FrameInv'
<1>1. TypeOK /\ CountOK' BY FrameTypes DEF FrameInv, CountOK, StartApp
<1>2. hash \in Places /\ events \in Nat /\ (suppressHash => events > 0)
  BY DEF FrameInv, PlaceOK, NoStuckSuppression
<1>3. Routed BY <1>1, <1>2, ApplyRouteRouted DEF StartApp
<1>4. UNCHANGED <<authUser, session, login, asking, leaving>> BY DEF StartApp
<1>5. starting' \in Nat BY DEF FrameInv, AuthOK, StartApp
<1> QED BY <1>1, <1>3, <1>4, <1>5, RoutedKeeps

(* a suppressed event only counts down; any other routes *)
LEMMA HashChangeKeeps ==
  ASSUME FrameInv, HashChange
  PROVE  FrameInv'
<1>1. TypeOK /\ CountOK' BY FrameTypes DEF FrameInv, CountOK, HashChange
<1>2. UNCHANGED <<authUser, session, login, asking, leaving, starting, broken>>
  BY DEF HashChange, auth
<1>3. starting' \in Nat BY <1>2 DEF FrameInv, AuthOK
<1>4. CASE suppressHash
  <2>1. /\ suppressHash' = FALSE /\ events' = events - 1 /\ events > 0
        /\ UNCHANGED <<view, screen, hash, hist, loads>>
    BY <1>4 DEF HashChange, page
  <2>2. PlaceOK' /\ LoadsOK'
    <3>1. suppressHash' \in BOOLEAN /\ ~suppressHash' BY <2>1
    <3>2. events' \in Nat BY <2>1 DEF FrameInv, PlaceOK
    <3>3. PlaceOK' BY <2>1, <3>1, <3>2 DEF FrameInv, PlaceOK, NoStuckSuppression
    <3>4. LoadsOK' BY <2>1 DEF FrameInv, LoadsOK, IsABag, BagToSet
    <3> QED BY <3>3, <3>4
  <2>3. AuthOK' BY <1>2 DEF FrameInv, AuthOK, SignedOutMeansLogin
  <2>4. Settled' => Painted'
    BY <1>2, <2>1 DEF FrameInv, Settled, Painted, Loading, BagToSet
  <2>5. Settled' /\ Quiet' => InSync'
    <3>1. Quiet' => Quiet BY <1>4, <2>1 DEF Quiet, FrameInv, PlaceOK
    <3> QED BY <1>2, <2>1, <3>1 DEF FrameInv, Settled, InSync, Loading, BagToSet
  <2> QED BY <1>1, <2>2, <2>3, <2>4, <2>5 DEF FrameInv
<1>5. CASE ~suppressHash
  <2>1. hash \in Places /\ events - 1 \in Nat
    BY DEF FrameInv, PlaceOK, HashChange
  <2>2. ApplyRoute(hash, uiMode, events - 1) BY <1>5 DEF HashChange
  <2>3. Routed BY <1>1, <1>5, <2>1, <2>2, ApplyRouteRouted
  <2> QED BY <1>1, <1>2, <1>3, <2>3, RoutedKeeps
<1> QED BY <1>4, <1>5

-----------------------------------------------------------------------------
(* The steps that leave the requests alone. *)

LEMMA SetLangKeeps ==
  ASSUME FrameInv, SetLang
  PROVE  FrameInv'
<1>1. TypeOK /\ CountOK' BY FrameTypes, ConsoleAssumption DEF FrameInv, CountOK, SetLang, Move
<1>2. UNCHANGED <<authUser, session, login, asking, leaving, starting, broken>> BY DEF SetLang, auth
<1>3. starting' \in Nat BY <1>2 DEF FrameInv, AuthOK
<1>4. CASE view \in Unguarded
  <2>1. view \in Places /\ events \in Nat /\ (suppressHash => events > 0)
    BY <1>4 DEF FrameInv, PlaceOK, NoStuckSuppression, Places, Unguarded
  <2>2. LoadPage(view, events) BY <1>4 DEF SetLang
  <2>3. Routed BY <1>1, <2>1, <2>2, LoadPageRouted
  <2> QED BY <1>1, <1>2, <1>3, <2>3, RoutedKeeps
<1>5. CASE view \notin Unguarded
  <2>1. screen' \in {screen, view} /\ UNCHANGED <<view, hash, hist, suppressHash, events, loads>>
    BY <1>5 DEF SetLang, route
  <2>2. PlaceOK' BY <2>1 DEF FrameInv, PlaceOK, NoStuckSuppression
  <2>3. LoadsOK' BY <2>1 DEF FrameInv, LoadsOK, IsABag, BagToSet
  <2>4. AuthOK' BY <1>2 DEF FrameInv, AuthOK, SignedOutMeansLogin
  <2>5. Settled' => Painted'
    BY <1>2, <2>1 DEF FrameInv, Settled, Painted, Loading, BagToSet
  <2>6. Settled' /\ Quiet' => InSync'
    BY <1>2, <2>1 DEF FrameInv, Settled, Quiet, InSync, Loading, BagToSet
  <2> QED BY <1>1, <2>2, <2>3, <2>4, <2>5, <2>6 DEF FrameInv
<1> QED BY <1>4, <1>5

(* the event of a Back is one that is not suppressed, or comes second *)
LEMMA BackKeeps ==
  ASSUME FrameInv, Back
  PROVE  FrameInv'
<1>1. CountOK' BY ConsoleAssumption DEF FrameInv, CountOK, Back, Move
<1>2. /\ UNCHANGED <<authUser, session, login, asking, leaving, starting, broken>>
      /\ UNCHANGED <<view, screen, suppressHash, loads>> /\ events' = events + 1
      /\ hist # <<>> /\ hash' = hist[Len(hist)] /\ hist' = SubSeq(hist, 1, Len(hist) - 1)
  BY DEF Back, auth, page
<1>3. hash' \in Places /\ hist' \in Seq(Places)
  <2>1. hist \in Seq(Places) BY DEF FrameInv, PlaceOK
  <2>2. Len(hist) \in 1..Len(hist) BY <1>2, <2>1
  <2> QED BY <1>2, <2>1, <2>2
<1>4. PlaceOK' BY <1>2, <1>3 DEF FrameInv, PlaceOK, NoStuckSuppression
<1>5. LoadsOK' BY <1>2 DEF FrameInv, LoadsOK, IsABag, BagToSet
<1>6. AuthOK' BY <1>2 DEF FrameInv, AuthOK, SignedOutMeansLogin
<1>7. Settled' => Painted' BY <1>2 DEF FrameInv, Settled, Painted, Loading, BagToSet
<1>8. ~Quiet' BY <1>2 DEF FrameInv, PlaceOK, NoStuckSuppression, Quiet
<1> QED BY <1>1, <1>4, <1>5, <1>6, <1>7, <1>8 DEF FrameInv

LEMMA HeartbeatKeeps ==
  ASSUME FrameInv, Heartbeat
  PROVE  FrameInv'
<1>1. CountOK' BY DEF FrameInv, CountOK, Heartbeat
<1>2. /\ UNCHANGED <<view, hash, hist, suppressHash, events, loads, broken>>
      /\ view = "dags" /\ screen' \in {screen, "dags"}
  BY DEF Heartbeat, route
<1>3. AuthOK' /\ (authUser' = "none" \/ UNCHANGED <<authUser, starting>>)
  BY DEF FrameInv, AuthOK, SignedOutMeansLogin, Heartbeat, Bounce, auth
<1>4. PlaceOK' BY <1>2 DEF FrameInv, PlaceOK, NoStuckSuppression
<1>5. LoadsOK' BY <1>2 DEF FrameInv, LoadsOK, IsABag, BagToSet
<1>6. Settled' => Settled BY <1>2, <1>3 DEF Settled
<1>7. Settled' => Painted' BY <1>2, <1>6 DEF FrameInv, Painted, Loading, BagToSet
<1>8. Settled' /\ Quiet' => InSync' BY <1>2, <1>6 DEF FrameInv, Quiet, InSync, Loading, BagToSet
<1> QED BY <1>1, <1>3, <1>4, <1>5, <1>7, <1>8 DEF FrameInv

(* signing in and out leaves the page alone; initAuth asks startApp to route *)
LEMMA AuthKeeps ==
  ASSUME FrameInv, InitAuth \/ NeedsLogin \/ Login \/ Logout \/ LoggedOut \/ SessionEnds
  PROVE  FrameInv'
<1>1. CountOK'
  BY ConsoleAssumption DEF FrameInv, CountOK, InitAuth, NeedsLogin, Login, Logout, LoggedOut,
     SessionEnds, Move
<1>2. UNCHANGED <<view, screen, hash, hist, suppressHash, events, loads, broken>>
  BY DEF InitAuth, NeedsLogin, Login, Logout, LoggedOut, SessionEnds, route, page
<1>3. AuthOK'
  <2>1. starting' \in Nat
    BY DEF FrameInv, AuthOK, InitAuth, NeedsLogin, Login, Logout, LoggedOut, SessionEnds
  <2>2. authUser' \in {"none", "user", "unknown"}
    BY DEF FrameInv, AuthOK, InitAuth, NeedsLogin, Login, Logout, LoggedOut, SessionEnds
  <2>3. CASE InitAuth
    <3>1. authUser' # "none" BY <2>3 DEF InitAuth
    <3>2. /\ session' \in BOOLEAN /\ login' \in BOOLEAN /\ asking' \in BOOLEAN
          /\ leaving' \in BOOLEAN
      BY <2>3 DEF FrameInv, AuthOK, InitAuth
    <3> QED BY <2>1, <2>2, <3>1, <3>2 DEF AuthOK, SignedOutMeansLogin
  <2>4. CASE NeedsLogin \/ Login \/ LoggedOut
    <3>1. /\ session' \in BOOLEAN /\ login' \in BOOLEAN /\ asking' \in BOOLEAN
          /\ leaving' \in BOOLEAN /\ (login' \/ asking')
      BY <2>4, Zenon DEF FrameInv, AuthOK, NeedsLogin, Login, LoggedOut
    <3> QED BY <2>1, <2>2, <3>1 DEF AuthOK, SignedOutMeansLogin
  <2>5. CASE Logout \/ SessionEnds
    <3>1. /\ session' \in BOOLEAN /\ leaving' \in BOOLEAN
          /\ UNCHANGED <<authUser, login, asking>>
      BY <2>5, Zenon DEF FrameInv, AuthOK, Logout, SessionEnds
    <3> QED BY <2>1, <2>2, <3>1 DEF FrameInv, AuthOK, SignedOutMeansLogin
  <2> QED BY <2>3, <2>4, <2>5
<1>4. Settled' => Settled
  BY <1>2 DEF FrameInv, AuthOK, Settled, InitAuth, NeedsLogin, Login, Logout, LoggedOut, SessionEnds
<1>5. PlaceOK' BY <1>2 DEF FrameInv, PlaceOK, NoStuckSuppression
<1>6. LoadsOK' BY <1>2 DEF FrameInv, LoadsOK, IsABag, BagToSet
<1>7. Settled' => Painted' BY <1>2, <1>4 DEF FrameInv, Painted, Loading, BagToSet
<1>8. Settled' /\ Quiet' => InSync' BY <1>2, <1>4 DEF FrameInv, Quiet, InSync, Loading, BagToSet
<1> QED BY <1>1, <1>3, <1>5, <1>6, <1>7, <1>8 DEF FrameInv

-----------------------------------------------------------------------------
(* The answers. *)

LEMMA ServeKeeps ==
  ASSUME FrameInv, NEW l \in BagToSet(loads), Serve(l)
  PROVE  FrameInv'
<1> DEFINE k == [l EXCEPT !.st = IF session THEN "ok" ELSE "401"]
<1>1. l \in Requests /\ IsABag(loads) BY DEF FrameInv, LoadsOK
<1>2. k \in Requests /\ k.page = l.page BY <1>1 DEF Requests
<1>3. /\ IsABag(loads') /\ BagToSet(loads') \subseteq BagToSet(loads) \cup {k}
      /\ (BagToSet(loads) \ {l}) \cup {k} \subseteq BagToSet(loads')
  BY <1>1, BagRemoveFact, BagAddFact DEF Serve
<1>4. /\ UNCHANGED <<view, screen, hash, hist, suppressHash, events, broken>>
      /\ UNCHANGED <<authUser, session, login, asking, leaving, starting>>
  BY DEF Serve, page, route, auth
<1>5. \A q : Loading(q) => Loading(q)' BY <1>2, <1>3 DEF Loading, BagToSet
<1>6. CountOK' BY DEF FrameInv, CountOK, Serve
<1>7. PlaceOK' BY <1>4 DEF FrameInv, PlaceOK, NoStuckSuppression
<1>8. LoadsOK'
  <2>1. BagToSet(loads') \subseteq Requests BY <1>2, <1>3 DEF FrameInv, LoadsOK
  <2> QED BY <1>3, <2>1 DEF LoadsOK, IsABag, BagToSet
<1>9. AuthOK' BY <1>4 DEF FrameInv, AuthOK, SignedOutMeansLogin
<1>10. Settled' => Painted'
  <2>1. Loading(view) => Loading(view)' BY <1>2, <1>3, <1>4 DEF Loading, BagToSet
  <2> QED BY <1>4, <1>5, <2>1 DEF FrameInv, Settled, Painted
<1>11. Settled' /\ Quiet' => InSync' BY <1>4, <1>5 DEF FrameInv, Settled, Quiet, InSync
<1> QED BY <1>6, <1>7, <1>8, <1>9, <1>10, <1>11 DEF FrameInv

LEMMA LandedLoads ==
  ASSUME FrameInv, NEW l \in BagToSet(loads), loads' = BagRemove(loads, l)
  PROVE  /\ LoadsOK' /\ l \in Requests
         /\ \A q : Loading(q) /\ q # l.page => Loading(q)'
<1>1. l \in Requests /\ IsABag(loads) BY DEF FrameInv, LoadsOK
<1>2. /\ IsABag(loads') /\ BagToSet(loads') \subseteq BagToSet(loads)
      /\ BagToSet(loads) \ {l} \subseteq BagToSet(loads')
  BY <1>1, BagRemoveFact
<1>3. BagToSet(loads') \subseteq Requests BY <1>2 DEF FrameInv, LoadsOK
<1>4. LoadsOK' BY <1>2, <1>3 DEF LoadsOK, IsABag, BagToSet
<1>5. \A q : Loading(q) /\ q # l.page => Loading(q)' BY <1>2 DEF Loading, BagToSet
<1> QED BY <1>1, <1>4, <1>5

LEMMA LandOkKeeps ==
  ASSUME FrameInv, NEW l \in BagToSet(loads), LandOk(l)
  PROVE  FrameInv'
<1>1. /\ LoadsOK' /\ l.page \in Page
      /\ \A q : Loading(q) /\ q # l.page => Loading(q)'
  BY LandedLoads DEF LandOk, Requests
<1>2. CountOK' BY DEF FrameInv, CountOK, LandOk
<1>3. UNCHANGED <<authUser, session, login, asking, leaving, starting, broken>> BY DEF LandOk, auth
<1>4. AuthOK' BY <1>3 DEF FrameInv, AuthOK, SignedOutMeansLogin
<1>5. CASE l.page = "dag"
  <2>1. /\ view' = "dag" /\ screen' = "dag" /\ hash' = "dag"
        /\ UNCHANGED <<hist, suppressHash, events>>
    BY <1>5 DEF LandOk, ReplaceHash
  <2>2. PlaceOK' BY <1>1, <1>5, <2>1 DEF FrameInv, PlaceOK, NoStuckSuppression, Places
  <2>3. InSync' /\ Painted' BY <2>1 DEF InSync, Painted
  <2> QED BY <1>1, <1>2, <1>4, <2>2, <2>3 DEF FrameInv
<1>6. CASE l.page # "dag"
  <2>1. /\ screen' = IF l.page \in Unguarded \/ view = l.page THEN l.page ELSE screen
        /\ UNCHANGED <<view, hash, hist, suppressHash, events>>
    BY <1>6 DEF LandOk, route
  <2>2. PlaceOK' BY <1>1, <2>1 DEF FrameInv, PlaceOK, NoStuckSuppression
  <2>3. Loading("dag") => Loading("dag")' BY <1>1, <1>6
  <2>4. Settled' => Painted'
    <3>1. CASE l.page \in Unguarded \/ view = l.page BY <2>1, <3>1 DEF Painted
    <3>2. CASE l.page \notin Unguarded /\ view # l.page
      <4>1. Loading(view) => Loading(view)'
        <5>1. Loading(view) => \E q : q = view /\ Loading(q)' BY <1>1, <3>2
        <5> QED BY <2>1, <5>1 DEF Loading, BagToSet
      <4> QED BY <1>3, <2>1, <2>3, <3>2, <4>1 DEF FrameInv, Settled, Painted
    <3> QED BY <3>1, <3>2
  <2>5. Settled' /\ Quiet' => InSync'
    BY <1>3, <2>1, <2>3 DEF FrameInv, Settled, Quiet, InSync
  <2> QED BY <1>1, <1>2, <1>4, <2>2, <2>4, <2>5 DEF FrameInv
<1> QED BY <1>5, <1>6

LEMMA LandErrorKeeps ==
  ASSUME FrameInv, NEW l \in BagToSet(loads), LandError(l)
  PROVE  FrameInv'
<1>1. LoadsOK' /\ l.page \in Page BY LandedLoads DEF LandError, Requests
<1>2. CountOK' BY ConsoleAssumption DEF FrameInv, CountOK, LandError
<1>3. AuthOK' BY DEF FrameInv, AuthOK, SignedOutMeansLogin, LandError, Bounce, auth
<1>4. /\ UNCHANGED <<hash, hist, suppressHash, events>>
      /\ view' \in {view, l.page} /\ screen' \in {screen, "error"}
  BY DEF LandError, route
<1>5. PlaceOK' BY <1>1, <1>4 DEF FrameInv, PlaceOK, NoStuckSuppression
<1>6. ~Settled' BY DEF LandError, Settled
<1> QED BY <1>1, <1>2, <1>3, <1>5, <1>6 DEF FrameInv

-----------------------------------------------------------------------------
LEMMA FrameInit == Init => FrameInv
<1> SUFFICES ASSUME Init PROVE FrameInv OBVIOUS
<1>1. PlaceOK
  <2>1. suppressHash \in BOOLEAN /\ ~suppressHash BY DEF Init
  <2>2. "dags" \in Places BY ConsoleAssumption DEF Places
  <2>3. hist \in Seq(Places) BY <2>2 DEF Init
  <2> QED BY <2>1, <2>2, <2>3, ConsoleAssumption DEF Init, PlaceOK, Places, NoStuckSuppression
<1>2. LoadsOK BY DEF Init, LoadsOK, EmptyBag, SetToBag, IsABag, BagToSet
<1>3. AuthOK BY DEF Init, AuthOK, SignedOutMeansLogin
<1>4. CountOK
  <2>1. broken \in BOOLEAN BY DEF Init
  <2> QED BY <2>1, ConsoleAssumption DEF Init, CountOK
<1>5. ~Settled BY DEF Init, Settled
<1> QED BY <1>1, <1>2, <1>3, <1>4, <1>5 DEF FrameInv

LEMMA FrameStep == FrameInv /\ [Next]_vars => FrameInv'
<1> SUFFICES ASSUME FrameInv, [Next]_vars PROVE FrameInv' OBVIOUS
<1>1. CASE \E p \in Page : Navigate(p) BY <1>1, NavigateKeeps
<1>2. CASE JumpTo BY <1>2, JumpToKeeps
<1>3. CASE Back BY <1>3, BackKeeps
<1>4. CASE SetMode BY <1>4, SetModeKeeps
<1>5. CASE SetLang BY <1>5, SetLangKeeps
<1>6. CASE HashChange BY <1>6, HashChangeKeeps
<1>7. CASE Heartbeat BY <1>7, HeartbeatKeeps
<1>8. CASE InitAuth \/ NeedsLogin \/ Login \/ Logout \/ LoggedOut \/ SessionEnds
  BY <1>8, AuthKeeps
<1>9. CASE StartApp BY <1>9, StartAppKeeps
<1>10. CASE \E l \in BagToSet(loads) : Answers(l)
  <2> PICK l \in BagToSet(loads) : Answers(l) BY <1>10
  <2> QED BY ServeKeeps, LandOkKeeps, LandErrorKeeps DEF Answers
<1>11. CASE UNCHANGED vars
  <2>1. /\ UNCHANGED <<view, screen, hash, hist, suppressHash, events, loads>>
        /\ UNCHANGED <<authUser, session, login, asking, leaving, starting>>
        /\ UNCHANGED <<uiMode, moves, faults, broken>>
    BY <1>11 DEF vars, page, route, auth
  <2>2. PlaceOK' BY <2>1 DEF FrameInv, PlaceOK, NoStuckSuppression
  <2>3. LoadsOK' BY <2>1 DEF FrameInv, LoadsOK, IsABag, BagToSet
  <2>4. AuthOK' BY <2>1 DEF FrameInv, AuthOK, SignedOutMeansLogin
  <2>5. CountOK' BY <2>1 DEF FrameInv, CountOK
  <2>6. Settled' => Painted' BY <2>1 DEF FrameInv, Settled, Painted, Loading, BagToSet
  <2>7. Settled' /\ Quiet' => InSync'
    BY <2>1 DEF FrameInv, Settled, Quiet, InSync, Loading, BagToSet
  <2> QED BY <2>2, <2>3, <2>4, <2>5, <2>6, <2>7 DEF FrameInv
<1> QED BY <1>1, <1>2, <1>3, <1>4, <1>5, <1>6, <1>7, <1>8, <1>9, <1>10, <1>11 DEF Next, UserMoves

LEMMA FrameHolds == Spec => []FrameInv
BY FrameInit, FrameStep, PTL DEF Spec

(* The types hold for every set of pages: a place in the history is always a page
   with an address, and every request under way is one of a page's. *)
THEOREM FrameTypeCorrect == Spec => []TypeOK
BY FrameHolds, FrameTypes, PTL

(* A suppression that is set has its event on the way (setHash and the hashchange
   listener, base.js). *)
THEOREM SuppressionEnds == Spec => []NoStuckSuppression
<1>1. FrameInv => NoStuckSuppression BY DEF FrameInv, PlaceOK
<1> QED BY <1>1, FrameHolds, PTL

(* Signed out, the console shows the form or is asking who the user is (api,
   doLogout and initAuth, base.js). *)
THEOREM SignedOutShowsLogin == Spec => []SignedOutMeansLogin
<1>1. FrameInv => SignedOutMeansLogin BY DEF FrameInv, AuthOK
<1> QED BY <1>1, FrameHolds, PTL

(* At rest the page is the one in the address bar and main shows it (applyRoute,
   setHash and the loaders), for every set of pages and any number of moves. *)
THEOREM AddressDecidesPage == Spec => []PageMatchesAddress
<1>1. FrameInv => PageMatchesAddress
  <2> SUFFICES ASSUME FrameInv PROVE PageMatchesAddress OBVIOUS
  <2>1. AtRest => Settled /\ Quiet
    BY DEF AtRest, Settled, Quiet, FrameInv, PlaceOK, NoStuckSuppression
  <2>2. ViewMatchesHash BY <2>1 DEF FrameInv, ViewMatchesHash, InSync
  <2>3. \A q : Loading(q) => q \in Page BY DEF Loading, FrameInv, LoadsOK, Requests
  <2>4. ScreenIsView BY <2>1, <2>3 DEF FrameInv, ScreenIsView, Painted
  <2> QED BY <2>2, <2>4 DEF PageMatchesAddress
<1> QED BY <1>1, FrameHolds, PTL
=============================================================================
