------------------------------- MODULE Console -------------------------------
(***************************************************************************)
(* The web console's frame (base.js, boot.js): the hash router, the page   *)
(* loaders, the mode switch, the heartbeat and the sign-in.  A loader sets *)
(* its page and hash, asks the server and paints when the answer is there; *)
(* what it checks then differs from page to page.                          *)
(***************************************************************************)
EXTENDS Integers, Sequences, Bags, BagsExt

CONSTANTS
  Page,         \* the pages used, "dags" among them
  MaxMoves,     \* what users do: clicks, Back, mode, sign-in and sign-out
  MaxFaults     \* failed requests and ended sessions

AllPages == {"dags", "dag", "run", "new", "pools", "graph", "resources", "audit",
             "workers", "api", "ai-providers", "aiwiki"}

ASSUME ConsoleAssumption ==
  /\ Page \subseteq AllPages /\ "dags" \in Page
  /\ MaxMoves \in Nat /\ MaxFaults \in Nat

VARIABLES
  view,         \* the page the console is on
  screen,       \* the page main shows
  uiMode,
  hash, hist,   \* location.hash, and the entries Back returns to
  suppressHash, \* the next hashchange is ours
  events,       \* hashchange events that have not been delivered
  loads,        \* the requests of the loaders, sent or answered: a bag
  authUser, session, \* the user, and the server's session
  login,        \* the sign-in form is up
  asking,       \* initAuth waits for /api/me
  leaving,      \* doLogout waits for its answer
  starting,     \* startApp calls waiting for resolveMode
  moves, faults,
  broken        \* a request has failed

route == <<hash, hist, suppressHash, events>>
page == <<view, screen>>
auth == <<authUser, session, login, asking, leaving, starting>>
vars == <<page, uiMode, route, loads, auth, moves, faults, broken>>

(* pages whose render returns when view has changed, and pages that paint
   whatever is open *)
Guarded == {"dags", "resources", "audit", "workers", "api", "ai-providers"}
Unguarded == {"pools", "graph", "run"}
(* an error is painted by these loaders, again whatever is open, and by startApp
   for the others *)
PaintsError == ((Guarded \cup Unguarded) \ {"dags", "pools"}) \cup {"dag"}

(* boot, after a reload: the address bar and its history are kept, and initAuth
   asks who we are *)
Init ==
  /\ view = "dags" /\ screen = "blank" /\ uiMode \in {"expert", "novice"}
  /\ hash \in Page \ {"aiwiki"} /\ hist = <<"dags">> /\ suppressHash = FALSE /\ events = 0
  /\ loads = EmptyBag
  /\ authUser = "none" /\ login = FALSE /\ asking = TRUE /\ session \in BOOLEAN
  /\ leaving = FALSE /\ starting = 0
  /\ moves = 0 /\ faults = 0 /\ broken = FALSE

SignedIn == authUser # "none" /\ ~login   \* the form covers the page
Move == moves < MaxMoves /\ moves' = moves + 1

-----------------------------------------------------------------------------
(* The router. *)

(* wrong: the next event is announced though none follows *)
SetHashAlways(p, ev) ==
  /\ hash' = p /\ suppressHash' = TRUE
  /\ hist' = IF hash = p THEN hist ELSE Append(hist, hash)
  /\ events' = IF hash = p THEN ev ELSE ev + 1

(* setHash: nothing when the hash is there already; a push announces itself.
   ev is the number of events still to come before it. *)
SetHash(p, ev) ==
  IF hash = p THEN events' = ev /\ UNCHANGED <<hash, hist, suppressHash>>
  ELSE /\ hash' = p /\ hist' = Append(hist, hash)
       /\ suppressHash' = TRUE /\ events' = ev + 1

(* wrong: the address stays where the user has gone meanwhile *)
KeepHash(p) == UNCHANGED route

(* with replace: the entry is rewritten and no event follows *)
ReplaceHash(p) ==
  /\ hash' = p
  /\ UNCHANGED <<hist, suppressHash, events>>

Request(p) == loads' = BagAdd(loads, [page |-> p, st |-> "sent"])

(* a loader up to its first await; showDag leaves view for later *)
LoadPage(p, ev) ==
  /\ view' = IF p = "dag" THEN view ELSE p
  /\ SetHash(p, ev)
  /\ Request(p)
  /\ UNCHANGED screen

LoadDags(ev) == LoadPage("dags", ev)
ShowDag(ev) == LoadPage("dag", ev)
ShowRun(ev) == LoadPage("run", ev)
ShowPools(ev) == LoadPage("pools", ev)
ShowGraph(ev) == LoadPage("graph", ev)
ShowResources(ev) == LoadPage("resources", ev)
ShowAudit(ev) == LoadPage("audit", ev)
ShowApi(ev) == LoadPage("api", ev)
ShowAIProviders(ev) == LoadPage("ai-providers", ev)

(* the novice mode has no workers page *)
ShowWorkers(m, ev) == IF m = "novice" THEN LoadDags(ev) ELSE LoadPage("workers", ev)

(* showWizard and showAIWiki paint at once, the wiki without a hash *)
ShowWizard(ev) ==
  view' = "new" /\ screen' = "new" /\ SetHash("new", ev) /\ UNCHANGED loads
ShowAIWiki ==
  view' = "aiwiki" /\ screen' = "aiwiki" /\ UNCHANGED <<route, loads>>

ApplyRoute(p, m, ev) ==
  \/ p = "dags" /\ LoadDags(ev)
  \/ p = "new" /\ ShowWizard(ev)
  \/ p = "pools" /\ ShowPools(ev)
  \/ p = "resources" /\ ShowResources(ev)
  \/ p = "graph" /\ ShowGraph(ev)
  \/ p = "audit" /\ ShowAudit(ev)
  \/ p = "workers" /\ ShowWorkers(m, ev)
  \/ p = "api" /\ ShowApi(ev)
  \/ p = "ai-providers" /\ ShowAIProviders(ev)
  \/ p = "run" /\ ShowRun(ev)
  \/ p = "dag" /\ ShowDag(ev)

(* the sidebar, a row, a link *)
Navigate(p) ==
  /\ SignedIn /\ Move
  /\ IF p = "aiwiki" THEN ShowAIWiki ELSE ApplyRoute(p, uiMode, events)
  /\ UNCHANGED <<uiMode, auth, faults, broken>>

(* the jump box: the dashboard is painted without its filter, then showDag *)
JumpTo ==
  /\ SignedIn /\ "dag" \in Page /\ Move
  /\ screen' \in IF view = "dags" THEN {screen, "dags"} ELSE {screen}
  /\ SetHash("dag", events) /\ Request("dag")
  /\ UNCHANGED <<view, uiMode, auth, faults, broken>>

(* the browser's Back *)
Back ==
  /\ Move /\ hist # <<>>
  /\ hash' = hist[Len(hist)] /\ hist' = SubSeq(hist, 1, Len(hist) - 1)
  /\ events' = events + 1
  /\ UNCHANGED <<page, uiMode, suppressHash, loads, auth, faults, broken>>

(* the hashchange listener: one of ours is swallowed, else applyRoute *)
HashChange ==
  /\ events > 0
  /\ \/ /\ suppressHash
        /\ suppressHash' = FALSE /\ events' = events - 1
        /\ UNCHANGED <<page, hash, hist, loads>>
     \/ ~suppressHash /\ ApplyRoute(hash, uiMode, events - 1)
  /\ UNCHANGED <<uiMode, auth, moves, faults, broken>>

(* setMode switches and routes again *)
SetMode ==
  /\ SignedIn /\ Move
  /\ uiMode' = IF uiMode = "expert" THEN "novice" ELSE "expert"
  /\ ApplyRoute(hash, uiMode', events)
  /\ UNCHANGED <<auth, faults, broken>>

(* setLang renders again what is in memory, if it is; a run, the pools and the
   graph are loaded again *)
SetLang ==
  /\ SignedIn /\ Move
  /\ \/ view \in Unguarded /\ LoadPage(view, events)
     \/ /\ view \notin Unguarded
        /\ screen' \in {screen, view}
        /\ UNCHANGED <<view, route, loads>>
  /\ UNCHANGED <<uiMode, auth, faults, broken>>

-----------------------------------------------------------------------------
(* Answers. *)

(* the server answers under the session it finds *)
Serve(l) ==
  /\ l.st = "sent"
  /\ loads' = BagAdd(BagRemove(loads, l), [l EXCEPT !.st = IF session THEN "ok" ELSE "401"])
  /\ UNCHANGED <<page, uiMode, route, auth, moves, faults, broken>>

(* the answer is there and is painted if the page says so *)
LandOk(l) ==
  /\ l.st = "ok" /\ loads' = BagRemove(loads, l)
  /\ IF l.page = "dag"
     THEN view' = "dag" /\ screen' = "dag" /\ ReplaceHash("dag")
     ELSE /\ screen' = IF l.page \in Unguarded \/ view = l.page THEN l.page ELSE screen
          /\ UNCHANGED <<view, route>>
  /\ UNCHANGED <<uiMode, auth, moves, faults, broken>>

(* wrong: the user is dropped and no form is shown *)
BounceQuietly(st) ==
  IF st = "401" /\ authUser # "none"
  THEN authUser' = "none" /\ UNCHANGED <<login, session, asking, leaving, starting>>
  ELSE UNCHANGED auth

(* api() throws; a 401 while signed in shows the sign-in form once *)
Bounce(st) ==
  IF st = "401" /\ authUser # "none"
  THEN authUser' = "none" /\ login' = TRUE /\ UNCHANGED <<session, asking, leaving, starting>>
  ELSE UNCHANGED auth

(* every six seconds, signed in and on the dashboard; the answer is in before
   the next step, as renderDags looks at view again *)
Heartbeat ==
  /\ authUser # "none" /\ view = "dags"
  /\ screen' \in IF session THEN {screen, "dags"} ELSE {screen}
  /\ Bounce(IF session THEN "ok" ELSE "401")
  /\ UNCHANGED <<view, uiMode, route, loads, moves, faults, broken>>

(* a 401, or no answer at all *)
LandError(l) ==
  /\ \/ l.st = "401" /\ UNCHANGED faults
     \/ l.st = "sent" /\ faults < MaxFaults /\ faults' = faults + 1
  /\ loads' = BagRemove(loads, l)
  /\ view' = IF l.page = "dag" THEN "dag" ELSE view
  /\ screen' \in IF l.page \in PaintsError THEN {"error"} ELSE {"error", screen}
  /\ Bounce(l.st)
  /\ broken' = TRUE
  /\ UNCHANGED <<uiMode, route, moves>>

-----------------------------------------------------------------------------
(* Signing in and out. *)

SessionEnds ==
  /\ session /\ faults < MaxFaults
  /\ session' = FALSE /\ faults' = faults + 1
  /\ UNCHANGED <<page, uiMode, route, loads, authUser, login, asking, leaving, starting,
                 moves, broken>>

(* initAuth: /api/me names the user, a 401 shows the form, and an error lets the
   user in, for the server to refuse *)
InitAuth ==
  /\ asking /\ asking' = FALSE
  /\ \/ session /\ authUser' = "user" /\ UNCHANGED faults
     \/ faults < MaxFaults /\ faults' = faults + 1 /\ authUser' = "unknown"
  /\ starting' = starting + 1
  /\ UNCHANGED <<page, uiMode, route, loads, session, login, leaving, moves, broken>>

NeedsLogin ==
  /\ asking /\ asking' = FALSE /\ ~session
  /\ login' = TRUE
  /\ UNCHANGED <<page, uiMode, route, loads, authUser, session, leaving, starting, moves,
                 faults, broken>>

(* startApp: the mode is resolved (uiMode holds it from the start), then the route
   is shown *)
StartApp ==
  /\ starting > 0 /\ starting' = starting - 1
  /\ ApplyRoute(hash, uiMode, events)
  /\ UNCHANGED <<uiMode, authUser, session, login, asking, leaving, moves, faults, broken>>

(* showLogin's form: a good password clears it, and initAuth asks again *)
Login ==
  /\ login /\ ~asking /\ Move
  /\ login' = FALSE /\ session' = TRUE /\ asking' = TRUE
  /\ UNCHANGED <<page, uiMode, route, loads, authUser, leaving, starting, faults, broken>>

(* doLogout: the session ends at once, the form follows the answer *)
Logout ==
  /\ authUser = "user" /\ ~login /\ ~leaving /\ Move
  /\ session' = FALSE /\ leaving' = TRUE
  /\ UNCHANGED <<page, uiMode, route, loads, authUser, login, asking, starting, faults, broken>>

LoggedOut ==
  /\ leaving /\ leaving' = FALSE
  /\ authUser' = "none" /\ login' = TRUE
  /\ UNCHANGED <<page, uiMode, route, loads, session, asking, starting, moves, faults, broken>>

-----------------------------------------------------------------------------
UserMoves ==
  \/ \E p \in Page : Navigate(p)
  \/ JumpTo \/ Back \/ SetMode \/ SetLang \/ Login \/ Logout

Answers(l) == Serve(l) \/ LandOk(l) \/ LandError(l)

Next ==
  \/ UserMoves
  \/ HashChange \/ Heartbeat \/ InitAuth \/ NeedsLogin \/ StartApp \/ LoggedOut \/ SessionEnds
  \/ \E l \in BagToSet(loads) : Answers(l)

(* the browser delivers its events and the server answers *)
Fairness ==
  /\ WF_vars(HashChange)
  /\ WF_vars(InitAuth \/ NeedsLogin) /\ WF_vars(StartApp)
  /\ WF_vars(\E l \in BagToSet(loads) : Answers(l))

Spec == Init /\ [][Next]_vars /\ Fairness
=============================================================================
