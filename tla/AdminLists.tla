----------------------------- MODULE AdminLists -----------------------------
(***************************************************************************)
(* The console's pages of tokens, AI providers, variables, connections,    *)
(* alert groups, workers, pools and audit entries (views.js).  They keep   *)
(* what they fetched in memory and patch it after each call instead of     *)
(* fetching it again; workers and pools are fetched again.                 *)
(***************************************************************************)
EXTENDS Integers, SequencesExt

CONSTANTS
  List,         \* the lists used
  Key,          \* ids, in the server's order
  PageSize,     \* audit entries per request
  MaxShows,     \* pages opened
  MaxOps,       \* calls, rows typed in, entries logged elsewhere
  MaxFaults     \* requests without an answer

Patched == {"tokens", "providers", "vars", "conns", "groups"}
Fetched == {"workers", "pools"}

ASSUME ListAssumption ==
  /\ List \subseteq Patched \cup Fetched \cup {"audit"}
  /\ Key \subseteq Nat \ {0} /\ PageSize \in Nat \ {0}
  /\ MaxShows \in Nat /\ MaxOps \in Nat /\ MaxFaults \in Nat

VARIABLES
  view, screen, \* the page that is open, and the one main shows
  loads,        \* requests of the pages, the poll and refreshWorkers
  store,        \* store[l]: the rows of l on the server, by key
  log,          \* the number of audit entries
  cache,        \* TOKENS, AIP, RES, WK: the rows in memory, as listed
  loaded,       \* the pages whose memory is not null
  AUD,          \* the audit page: entries, newest first, and whether more exist
  typed,        \* variables edited in their row and not saved
  op,           \* op[l]: the call on list l that is under way
  missed,       \* lists whose memory may lack a change: see Note
  shows, ops, faults

page == <<view, screen>>
server == <<store, log>>
memory == <<cache, loaded, AUD, typed>>
counts == <<shows, ops, faults>>
vars == <<page, loads, server, memory, op, missed, counts>>

(* a row's content; 2 is a default provider, a connection with a password, a
   draining worker *)
Val == {1, 2}
NoOp == [pc |-> "idle"]
Rows(s) == {s[i] : i \in 1..Len(s)}
Keys(s) == {r[1] : r \in Rows(s)}

PageOf(l) ==
  CASE l = "tokens" -> "api"
    [] l = "providers" -> "ai-providers"
    [] l \in {"vars", "conns", "groups"} -> "resources"
    [] OTHER -> l
Pages == {PageOf(l) : l \in List}
On(p) == {l \in List : PageOf(l) = p}

(* the rows S by key *)
Sorted(S, newestFirst) ==
  CHOOSE s \in [1..Cardinality(S) -> S] :
    /\ Rows(s) = S
    /\ \A i, j \in DOMAIN s : i < j => IF newestFirst THEN s[i][1] > s[j][1] ELSE s[i][1] < s[j][1]

(* the server's order: newest token first, else by key *)
Listing(l, f) == Sorted({<<k, f[k]>> : k \in DOMAIN f}, l = "tokens")
Entries(offset) ==
  [i \in 1..Min({PageSize, Max({0, log - offset})}) |-> log - offset - i + 1]

Init ==
  /\ view = "other" /\ screen = "other" /\ loads = {}
  /\ store = [l \in List |-> [k \in {1} |-> 1]] /\ log = PageSize + 1
  /\ cache = [l \in List |-> <<>>] /\ loaded = {}
  /\ AUD = [entries |-> <<>>, more |-> FALSE] /\ typed = {}
  /\ op = [l \in List |-> NoOp] /\ missed = {}
  /\ shows = 0 /\ ops = 0 /\ faults = 0

-----------------------------------------------------------------------------
(* Pages. *)

Request(p, kind) ==
  loads' = loads \cup {[page |-> p, kind |-> kind, n |-> shows, pc |-> "sent", data |-> <<>>]}

(* a page that loads while a call on one of its lists is under way may have been
   read before it, and the answer to a call served may be lost *)
Note ==
  missed' = missed \cup
    {l \in List : \/ op'[l] # NoOp /\ \E x \in loads' : x.page = PageOf(l)
                  \/ op[l] # NoOp /\ op'[l] = NoOp /\ faults' # faults}

Show(p) ==
  /\ shows < MaxShows /\ shows' = shows + 1
  /\ view' = p /\ Request(p, "page")
  /\ UNCHANGED <<screen, server, memory, op, ops, faults>>

ShowApi == "tokens" \in List /\ Show("api")
ShowAIProviders == "providers" \in List /\ Show("ai-providers")
ShowResources == "resources" \in Pages /\ Show("resources")
ShowAudit == "audit" \in List /\ Show("audit")
ShowWorkers == "workers" \in List /\ Show("workers")
ShowPools == "pools" \in List /\ Show("pools")

ShowOther ==
  /\ view # "other" /\ view' = "other" /\ screen' = "other"
  /\ UNCHANGED <<loads, server, memory, op, counts>>

(* the lists are read when the request is served *)
ServePage(x) ==
  /\ x.pc = "sent"
  /\ loads' = (loads \ {x}) \cup
       {[x EXCEPT !.pc = "ok",
                  !.data = IF x.page = "audit" THEN Entries(0)
                           ELSE [l \in On(x.page) |-> Listing(l, store[l])]]}
  /\ UNCHANGED <<page, server, memory, op, counts>>

(* the memory is replaced, and rows typed in are gone with it; the answers to an
   earlier poll or refresh then go to a list nobody shows.  Only showPools paints
   without looking at view. *)
LandPage(x) ==
  /\ x.kind = "page" /\ x.pc = "ok"
  /\ cache' = [l \in List |-> IF l \in On(x.page) \ {"audit"} THEN x.data[l] ELSE cache[l]]
  /\ loaded' = loaded \cup {x.page}
  /\ AUD' = IF x.page = "audit"
            THEN [entries |-> x.data, more |-> Len(x.data) >= PageSize] ELSE AUD
  /\ typed' = IF x.page = "resources" THEN {} ELSE typed
  /\ screen' = IF view = x.page \/ x.page = "pools" THEN x.page ELSE screen
  /\ loads' = {[y EXCEPT !.kind = IF y.page = x.page /\ @ # "page" THEN "dead" ELSE @] :
                 y \in loads \ {x}}
  /\ UNCHANGED <<view, server, op, counts>>

(* no answer: painted over whatever is open, but for showPools; the workers'
   memory is null then.  A poll or a refresh lets it pass. *)
LandFailure(x) ==
  /\ faults < MaxFaults /\ faults' = faults + 1
  /\ loads' = loads \ {x}
  /\ screen' = IF x.kind = "page" /\ x.page # "pools" THEN "error" ELSE screen
  /\ loaded' = IF x.kind = "page" /\ x.page = "workers" THEN loaded \ {"workers"} ELSE loaded
  /\ UNCHANGED <<view, server, cache, AUD, typed, op, shows, ops>>

(* wrong: the interval is not started *)
WorkersPollNever == FALSE /\ UNCHANGED <<page, loads, server, memory, op, counts>>

(* startWorkersPoll's interval, every five seconds while the page shows *)
WorkersPoll ==
  /\ view = "workers" /\ screen = "workers"
  /\ \A x \in loads : x.kind # "poll"
  /\ Request("workers", "poll")
  /\ UNCHANGED <<page, server, memory, op, counts>>

(* its answer, or refreshWorkers', which is kept on another page too *)
LandWorkers(x) ==
  /\ x.kind # "page" /\ x.pc = "ok"
  /\ LET kept == x.kind # "dead" /\ "workers" \in loaded /\ (x.kind = "poll" => view = "workers")
     IN /\ cache' = IF kept THEN [cache EXCEPT !["workers"] = x.data["workers"]] ELSE cache
        /\ screen' = IF kept /\ view = "workers" THEN "workers" ELSE screen
  /\ loads' = loads \ {x}
  /\ UNCHANGED <<view, server, loaded, AUD, typed, op, counts>>

-----------------------------------------------------------------------------
(* Calls on the lists, from a page that is painted. *)

Op == ops < MaxOps /\ ops' = ops + 1

Call(l, kind, k, v) ==
  /\ Op /\ view = PageOf(l) /\ screen = view /\ op[l] = NoOp
  /\ op' = [op EXCEPT ![l] = [pc |-> "sent", kind |-> kind, k |-> k, v |-> v]]
  /\ UNCHANGED <<page, loads, server, memory, shows, faults>>

(* the server chooses a token's id *)
CreateToken(k, v) ==
  "tokens" \in List /\ (\A j \in DOMAIN store["tokens"] : j < k) /\ Call("tokens", "save", k, v)
RevokeToken(k) ==
  "tokens" \in List /\ k \in Keys(cache["tokens"]) /\ Call("tokens", "remove", k, 0)

AIProviderDialog(k, v) == "providers" \in List /\ Call("providers", "save", k, v)
DelAIProvider(k) ==
  "providers" \in List /\ k \in Keys(cache["providers"]) /\ Call("providers", "remove", k, 0)

(* a row is saved as it is typed, a new one from the form below *)
SaveVar(k, v) ==
  /\ "vars" \in List
  /\ k \in typed => <<k, v>> \in Rows(cache["vars"])
  /\ Call("vars", "save", k, v)
DelVar(k) == "vars" \in List /\ k \in Keys(cache["vars"]) /\ Call("vars", "remove", k, 0)

ConnDialog(k, v) == "conns" \in List /\ Call("conns", "save", k, v)
DelConn(k) == "conns" \in List /\ k \in Keys(cache["conns"]) /\ Call("conns", "remove", k, 0)

GroupDialog(k, v) == "groups" \in List /\ Call("groups", "save", k, v)
DelGroup(k) ==
  /\ "groups" \in List /\ k \in Keys(cache["groups"])
  /\ Call("groups", "remove", k, 0)

ToggleDrainWorker(k) ==
  /\ "workers" \in List
  /\ \E r \in Rows(cache["workers"]) : r[1] = k /\ Call("workers", "save", k, 3 - r[2])
RemoveWorkerUI(k) ==
  "workers" \in List /\ k \in Keys(cache["workers"]) /\ Call("workers", "remove", k, 0)

(* showPools' save: the button of a row, or the form *)
SavePool(k, v) == "pools" \in List /\ Call("pools", "save", k, v)

(* wrong: off by one *)
LoadMoreNext ==
  "audit" \in List /\ AUD.more /\ Call("audit", "more", Len(AUD.entries) + 1, 0)

(* the audit page's button: the offset is what is in memory *)
LoadMore == "audit" \in List /\ AUD.more /\ Call("audit", "more", Len(AUD.entries), 0)

(* a variable's row *)
TypeVar(k, v) ==
  /\ Op /\ "vars" \in List /\ view = "resources" /\ screen = view
  /\ op["vars"] # NoOp => op["vars"].k # k
  /\ \E i \in 1..Len(cache["vars"]) :
       cache["vars"][i][1] = k /\ cache' = [cache EXCEPT !["vars"][i] = <<k, v>>]
  /\ typed' = typed \cup {k}
  /\ UNCHANGED <<page, loads, server, loaded, AUD, op, shows, faults>>

(* the store: an upsert, with one default among the providers; a blank password
   keeps the one stored *)
Upserted(l, f, k, v) ==
  [j \in DOMAIN f \cup {k} |->
     CASE j = k -> IF l = "conns" /\ j \in DOMAIN f /\ f[j] = 2 THEN 2 ELSE v
       [] j # k /\ l = "providers" /\ v = 2 -> 1
       [] OTHER -> f[j]]

(* a call is served and logged, and the answer carries the stored row; it may
   find its row gone *)
Served(l, kind) == op[l].pc = "sent" /\ op[l].kind = kind

ServeSave(l) ==
  /\ Served(l, "save")
  /\ store' = [store EXCEPT ![l] = Upserted(l, @, op[l].k, op[l].v)]
  /\ log' = log + 1
  /\ op' = [op EXCEPT ![l].pc = "ok", ![l].v = store'[l][op[l].k]]
  /\ UNCHANGED <<page, loads, memory, counts>>

ServeRemove(l) ==
  /\ Served(l, "remove")
  /\ IF op[l].k \in DOMAIN store[l]
     THEN /\ store' = [store EXCEPT ![l] = [j \in DOMAIN @ \ {op[l].k} |-> @[j]]]
          /\ log' = log + 1 /\ op' = [op EXCEPT ![l].pc = "ok"]
     ELSE op' = [op EXCEPT ![l].pc = "gone"] /\ UNCHANGED server
  /\ UNCHANGED <<page, loads, memory, counts>>

ServeMore ==
  /\ "audit" \in List /\ Served("audit", "more")
  /\ op' = [op EXCEPT !["audit"].pc = "ok", !["audit"].v = Entries(op["audit"].k)]
  /\ UNCHANGED <<page, loads, server, memory, counts>>

(* TOKENS.unshift *)
Unshifted(s, k, v) == <<<<k, v>>>> \o s

(* findIndex, then the row is replaced, or pushed and the list sorted *)
Replaced(s, k, v) ==
  IF \E r \in Rows(s) : r[1] = k
  THEN [i \in 1..Len(s) |-> IF s[i][1] = k THEN <<k, v>> ELSE s[i]]
  ELSE Sorted(Rows(s) \cup {<<k, v>>}, FALSE)

(* wrong: the other rows keep the mark *)
ManyDefaults(s, k, v) == s

(* a new default takes the mark from the others *)
OneDefault(s, k, v) ==
  [i \in 1..Len(s) |-> IF v = 2 /\ s[i][1] # k THEN <<s[i][1], 1>> ELSE s[i]]

InPlace(l, s, k, v) ==
  CASE l = "tokens" -> Unshifted(s, k, v)
    [] l = "providers" -> OneDefault(Replaced(s, k, v), k, v)
    [] OTHER -> Replaced(s, k, v)

Filtered(s, k) ==
  LET kept[i \in 0..Len(s)] ==
        IF i = 0 THEN <<>>
        ELSE IF s[i][1] # k THEN Append(kept[i - 1], s[i]) ELSE kept[i - 1]
  IN kept[Len(s)]

Returned(l) == op[l].pc = "ok" /\ op' = [op EXCEPT ![l] = NoOp]

(* the list in memory is patched, and painted if its page is open; a saved or
   removed variable is not an unsaved one *)
PatchList(l) ==
  /\ l \in Patched /\ Returned(l)
  /\ cache' = [cache EXCEPT ![l] = IF op[l].kind = "save" THEN InPlace(l, @, op[l].k, op[l].v)
                                   ELSE Filtered(@, op[l].k)]
  /\ typed' = IF l = "vars" THEN typed \ {op[l].k} ELSE typed
  /\ screen' \in IF view = PageOf(l) THEN {screen, view} ELSE {screen}
  /\ UNCHANGED <<view, loads, server, loaded, AUD, counts>>

(* refreshWorkers, if its page is open and its list there *)
RefreshWorkers ==
  /\ "workers" \in List /\ Returned("workers")
  /\ IF view = "workers" /\ "workers" \in loaded THEN Request("workers", "refresh")
     ELSE UNCHANGED loads
  /\ UNCHANGED <<page, server, memory, counts>>

(* showPools again, from wherever the user is by now *)
PoolSaved ==
  /\ "pools" \in List /\ Returned("pools")
  /\ view' = "pools" /\ Request("pools", "page")
  /\ UNCHANGED <<screen, server, memory, counts>>

(* the entries are appended to what is in memory by now *)
AppendEntries ==
  /\ "audit" \in List /\ Returned("audit")
  /\ AUD' = [entries |-> AUD.entries \o op["audit"].v, more |-> Len(op["audit"].v) >= PageSize]
  /\ UNCHANGED <<page, loads, server, cache, loaded, typed, counts>>

(* refused or unanswered, before or after it was served: a toast, and the audit
   page takes it for an empty page *)
OpFails(l) ==
  /\ op[l] # NoOp
  /\ \/ op[l].pc = "gone" /\ UNCHANGED faults
     \/ faults < MaxFaults /\ faults' = faults + 1
  /\ op' = [op EXCEPT ![l] = NoOp]
  /\ AUD' = IF l = "audit" THEN [AUD EXCEPT !.more = FALSE] ELSE AUD
  /\ UNCHANGED <<page, loads, server, cache, loaded, typed, shows, ops>>

(* what others do is logged too *)
OthersAct ==
  /\ Op /\ "audit" \in List
  /\ log' = log + 1
  /\ UNCHANGED <<page, loads, store, memory, op, shows, faults>>

-----------------------------------------------------------------------------
User ==
  \/ ShowApi \/ ShowAIProviders \/ ShowResources \/ ShowAudit \/ ShowWorkers \/ ShowPools
  \/ ShowOther \/ LoadMore \/ OthersAct
  \/ \E k \in Key :
       \/ RevokeToken(k) \/ DelAIProvider(k) \/ DelVar(k) \/ DelConn(k) \/ DelGroup(k)
       \/ RemoveWorkerUI(k) \/ ToggleDrainWorker(k)
       \/ \E v \in Val :
            \/ CreateToken(k, v) \/ AIProviderDialog(k, v) \/ SaveVar(k, v)
            \/ ConnDialog(k, v) \/ GroupDialog(k, v) \/ SavePool(k, v) \/ TypeVar(k, v)

Arrives(x) == ServePage(x) \/ LandPage(x) \/ LandWorkers(x) \/ LandFailure(x)
Calls(l) == ServeSave(l) \/ ServeRemove(l) \/ PatchList(l) \/ OpFails(l)

Next ==
  /\ \/ User \/ WorkersPoll
     \/ \E x \in loads : Arrives(x)
     \/ \E l \in List : Calls(l)
     \/ ServeMore \/ AppendEntries \/ RefreshWorkers \/ PoolSaved
  /\ Note

(* the server answers and the interval ticks *)
Fairness ==
  /\ WF_vars((\E x \in loads : Arrives(x)) /\ Note)
  /\ WF_vars((RefreshWorkers \/ \E l \in List : Calls(l)) /\ Note)
  /\ WF_vars(WorkersPoll /\ Note)

Spec == Init /\ [][Next]_vars /\ Fairness
=============================================================================
