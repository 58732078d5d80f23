------------------------------ MODULE TaskGraph ------------------------------
(***************************************************************************)
(* The structure of a workflow in the editor (views.js, base.js): tasks    *)
(* and dependencies edited from the graph as a session, from the task      *)
(* table, the task page and the step list as immediate saves, and the      *)
(* algorithms that read it: cycle check, step order, graph levels, diff.   *)
(***************************************************************************)
EXTENDS Integers, SequencesExt

CONSTANTS
  Id,           \* 1..n: the task ids in use
  Start,        \* how many tasks the workflow opened has: 1..Start
  Races,        \* which of AllRaces can happen
  MaxEdits      \* bounds the edits, and the diffs under way

AllRaces ==
  {"stale_pick",   \* the task picked for a connection is renamed or deleted
   "late_diff",    \* the panel's answer comes after the next edit
   "early_timer"}  \* a session starts while a save waits

ASSUME GraphAssumption ==
  /\ Id \subseteq Nat \ {0} /\ Start \in Nat /\ 1..Start \subseteq Id /\ MaxEdits \in Nat
  /\ Races \subseteq AllRaces

VARIABLES
  tasks,        \* D.tasks: ids in order, their deps, and the ones without a command
  saved,        \* the definition the server has
  saveTimer,    \* a save waits for its 400 ms
  graphBase,    \* the snapshot of the session, or None
  graphPending, \* the first task of a two-click connection, or 0
  page,         \* 0: the workflow's page, else activeTaskId: that task's page
  diffOpen, diffCache, \* the panel, and what it shows
  diffs,        \* requests of the panel: the tasks they were sent with
  edits

model == <<tasks, saved, saveTimer, graphBase>>
panel == <<diffOpen, diffCache, diffs>>
vars == <<model, graphPending, page, panel, edits>>

None == [ids |-> <<>>, deps |-> <<>>, blank |-> {0}]
Ids(m) == {m.ids[i] : i \in 1..Len(m.ids)}
InTime == diffs = <<>> \/ ("late_diff" \in Races /\ Len(diffs) < MaxEdits)
Edit == edits < MaxEdits /\ edits' = edits + 1 /\ InTime

-----------------------------------------------------------------------------
(* Algorithms. *)

Keep(seq, S) ==   \* the elements of seq that are in S, in their order
  LET kept[i \in 0..Len(seq)] ==
        IF i = 0 THEN <<>>
        ELSE IF seq[i] \in S THEN Append(kept[i - 1], seq[i]) ELSE kept[i - 1]
  IN kept[Len(seq)]

(* visit of hasCycle: colours 1 (open) and 2 (done).  st.work is what its calls have
   yet to do, in order: id for visit(id), -id for the color[id] = 2 that ends it *)
Visit(m, st) ==
  LET id == Head(st.work)
      rest == Tail(st.work)
  IN IF st.work = <<>> THEN st
     ELSE IF id < 0
     THEN [color |-> [st.color EXCEPT ![-id] = 2], cyc |-> st.cyc, work |-> rest]
     ELSE IF st.color[id] = 0
     THEN [color |-> [st.color EXCEPT ![id] = 1], cyc |-> st.cyc,
           work |-> Keep(m.ids, m.deps[id]) \o (<<-id>> \o rest)]
     ELSE [color |-> st.color, cyc |-> st.cyc \/ st.color[id] = 1, work |-> rest]

(* every task is opened once, and then leaves at most n + 1 more to do *)
HasCycle(m) ==
  LET n == Len(m.ids)
      run[k \in 0..(n * (n + 2))] ==
        IF k = 0 THEN [color |-> [id \in Ids(m) |-> 0], cyc |-> FALSE, work |-> m.ids]
        ELSE Visit(m, run[k - 1])
  IN run[n * (n + 2)].cyc

(* wrong: dependencies are not waited for *)
PassAnyway(m, out) == out \o Keep(m.ids, Ids(m) \ Range(out))

(* a pass of topoOrder over the tasks *)
Pass(m, out) ==
  LET pass[i \in 0..Len(m.ids)] ==
        IF i = 0 THEN out
        ELSE IF /\ m.ids[i] \notin Range(pass[i - 1])
                /\ m.deps[m.ids[i]] \cap Ids(m) \subseteq Range(pass[i - 1])
        THEN Append(pass[i - 1], m.ids[i]) ELSE pass[i - 1]
  IN pass[Len(m.ids)]
(* topoOrder: a pass that adds nothing is the last, and any after it would add
   nothing; what is left follows in its order *)
TopoOrder(m) ==
  LET passes[p \in 0..Len(m.ids)] == IF p = 0 THEN <<>> ELSE Pass(m, passes[p - 1])
      out == passes[Len(m.ids)]
  IN out \o Keep(m.ids, Ids(m) \ Range(out))

(* lvl of renderGraph: a task met again while its level is being found counts 0 *)
Level(m) ==
  LET lvl[seen \in SUBSET Ids(m)] ==
        [id \in Ids(m) |->
           LET deps == m.deps[id] \cap Ids(m)
           IN IF id \in seen \/ deps = {} THEN 0
              ELSE 1 + Max({lvl[seen \cup {id}][d] : d \in deps})]
  IN lvl[{}]

Cells(a, b) == (1..(Len(a) + 1)) \X (1..(Len(b) + 1))
(* wrong: the table is left at zero *)
DpZero(a, b) == [p \in Cells(a, b) |-> 0]

(* diffLines: dp[i, j] is the length of the longest common part of what is left,
   then both texts are walked *)
Dp(a, b) ==
  LET dp[p \in Cells(a, b)] ==
        LET i == p[1]
            j == p[2]
        IN IF i > Len(a) \/ j > Len(b) THEN 0
           ELSE IF a[i] = b[j] THEN dp[<<i + 1, j + 1>>] + 1
           ELSE Max({dp[<<i + 1, j>>], dp[<<i, j + 1>>]})
  IN dp
DiffLines(a, b) ==
  LET dp == Dp(a, b)
      row(k, s) == <<[k |-> k, s |-> s]>>
      walk[p \in Cells(a, b)] ==
        LET i == p[1]
            j == p[2]
        IN IF i > Len(a) /\ j > Len(b) THEN <<>>
           ELSE IF i <= Len(a) /\ j <= Len(b) /\ a[i] = b[j]
           THEN row(" ", a[i]) \o walk[<<i + 1, j + 1>>]
           ELSE IF j > Len(b) \/ (i <= Len(a) /\ dp[<<i + 1, j>>] >= dp[<<i, j + 1>>])
           THEN row("-", a[i]) \o walk[<<i + 1, j>>]
           ELSE row("+", b[j]) \o walk[<<i, j + 1>>]
  IN walk[<<1, 1>>]

(* the canonical YAML: a line per task *)
Yaml(m) == [i \in 1..Len(m.ids) |-> <<m.ids[i], m.deps[m.ids[i]]>>]

-----------------------------------------------------------------------------
(* Validation and saving. *)

(* validateDag does not look for dependencies on tasks that are not there *)
ValidateDag(m) == m.blank = {} /\ ~HasCycle(m)
(* the server does *)
Accepts(m) == ValidateDag(m) /\ \A id \in Ids(m) : m.deps[id] \subseteq Ids(m)

NotShown == [old |-> <<>>, rows |-> <<[k |-> "none", s |-> <<>>]>>]

(* the workflow's page rendered with the panel open and the session under way
   loads the diff, unless it is cached *)
Render(m, base, shown, open) ==
  diffs' = IF page' = 0 /\ open /\ base # None /\ shown = NotShown THEN Append(diffs, m)
           ELSE diffs

(* saveDag: held while the tasks are invalid, else the session is over *)
SaveDag(m) ==
  /\ tasks' = m
  /\ IF ValidateDag(m)
     THEN saveTimer' = TRUE /\ graphBase' = None /\ diffCache' = NotShown
     ELSE UNCHANGED <<saveTimer, graphBase, diffCache>>
  /\ Render(m, graphBase', diffCache', diffOpen)
  /\ UNCHANGED <<saved, diffOpen>>

(* flushSave sends whatever the tasks are by then *)
FlushSave ==
  /\ saveTimer /\ saveTimer' = FALSE
  /\ saved' = IF Accepts(tasks) THEN tasks ELSE saved
  /\ UNCHANGED <<tasks, graphBase, graphPending, page, panel, edits>>

(* graphMutate: the first change of a session takes the snapshot *)
GraphMutate(m) ==
  /\ graphBase # None \/ ~saveTimer \/ "early_timer" \in Races
  /\ graphBase' = IF graphBase = None THEN tasks ELSE graphBase
  /\ tasks' = m /\ diffCache' = NotShown
  /\ Render(m, graphBase', NotShown, diffOpen)
  /\ UNCHANGED <<saved, saveTimer, diffOpen>>

(* wrong: the session is closed and not saved *)
GraphSaveSessionUnsaved ==
  /\ Edit /\ page = 0 /\ graphBase # None /\ ValidateDag(tasks)
  /\ graphPending' = 0 /\ graphBase' = None /\ diffCache' = NotShown /\ diffOpen' = FALSE
  /\ UNCHANGED <<tasks, saved, saveTimer, page, diffs>>

GraphSaveSession ==
  /\ Edit /\ page = 0 /\ graphBase # None /\ ValidateDag(tasks)
  /\ graphPending' = 0 /\ graphBase' = None /\ diffCache' = NotShown /\ diffOpen' = FALSE
  /\ saveTimer' = TRUE
  /\ UNCHANGED <<tasks, saved, page, diffs>>

GraphDiscardSession ==
  /\ Edit /\ page = 0 /\ graphBase # None
  /\ tasks' = graphBase
  /\ graphPending' = 0 /\ graphBase' = None /\ diffCache' = NotShown /\ diffOpen' = FALSE
  /\ UNCHANGED <<saved, saveTimer, page, diffs>>

-----------------------------------------------------------------------------
(* Edits. *)

WithDep(m, up, down) == [m EXCEPT !.deps[down] = @ \cup {up}]
WithoutDep(m, up, down) == [m EXCEPT !.deps[down] = @ \ {up}]
WithTask(m, id, deps, blank) ==
  [ids |-> Append(m.ids, id),
   deps |-> [x \in Ids(m) \cup {id} |-> IF x = id THEN deps ELSE m.deps[x]],
   blank |-> m.blank \cup blank]

Untouched == UNCHANGED <<tasks, saved, saveTimer, graphBase, diffOpen, diffCache>>
             /\ Render(tasks, graphBase, diffCache, diffOpen)

(* graphToggleDep: the task `up` is taken as given *)
GraphToggleDep(up, down, allowRemove) ==
  IF down \notin Ids(tasks) \/ up = down THEN Untouched
  ELSE IF up \in tasks.deps[down]
  THEN IF allowRemove THEN GraphMutate(WithoutDep(tasks, up, down)) ELSE Untouched
  ELSE IF HasCycle(WithDep(tasks, up, down)) THEN Untouched
  ELSE GraphMutate(WithDep(tasks, up, down))

(* startEdgeDrag: dropping never removes *)
DragEdge(up, down) ==
  /\ Edit /\ page = 0 /\ {up, down} \subseteq Ids(tasks) /\ up # down
  /\ UNCHANGED <<graphPending, page>>
  /\ GraphToggleDep(up, down, FALSE)

(* showEdgeMenu's button on an edge that is drawn *)
RemoveEdge(up, down) ==
  /\ Edit /\ page = 0 /\ {up, down} \subseteq Ids(tasks) /\ up \in tasks.deps[down]
  /\ UNCHANGED <<graphPending, page>>
  /\ GraphToggleDep(up, down, TRUE)

(* onGraphNodeActivate, in connect mode or with shift *)
OnGraphNodeActivate(id) ==
  /\ Edit /\ page = 0 /\ id \in Ids(tasks)
  /\ UNCHANGED page
  /\ IF graphPending = 0 THEN graphPending' = id /\ Untouched
     ELSE IF graphPending = id THEN graphPending' = 0 /\ Untouched
     ELSE graphPending' = 0 /\ GraphToggleDep(graphPending, id, TRUE)

(* the connect button drops the pick; the mode itself only spares the shift key *)
ToggleConnectMode ==
  /\ Edit /\ page = 0 /\ graphPending # 0 /\ graphPending' = 0
  /\ UNCHANGED page /\ Untouched

(* the id typed is refused if it is taken *)
AddTaskFromGraph(id) ==
  /\ Edit /\ page = 0 /\ id \notin Ids(tasks)
  /\ UNCHANGED <<graphPending, page>>
  /\ GraphMutate(WithTask(tasks, id, {}, {}))

(* the first free number from the count on *)
FreshId(m) == CHOOSE n \in Id \ Ids(m) :
  n > Len(m.ids) /\ \A k \in (Id \ Ids(m)) : k > Len(m.ids) => n <= k

(* addTask: without a command, so that the save is held until its page has one *)
AddTask ==
  /\ Edit /\ page = 0 /\ \E n \in Id \ Ids(tasks) : n > Len(tasks.ids)
  /\ LET id == FreshId(tasks) IN page' = id /\ SaveDag(WithTask(tasks, id, {}, {id}))
  /\ UNCHANGED graphPending

(* nvAddStep: chained after the last step *)
NvAddStep ==
  /\ Edit /\ page = 0 /\ \E n \in Id \ Ids(tasks) : n > Len(tasks.ids)
  /\ UNCHANGED <<graphPending, page>>
  /\ LET order == TopoOrder(tasks)
         last == IF order = <<>> THEN {} ELSE {Last(order)}
     IN SaveDag(WithTask(tasks, FreshId(tasks), last, {}))

(* the command of the task page, or of the step editor of the workflow's page *)
EditCommand(id) ==
  /\ Edit /\ id \in Ids(tasks) /\ page \in {0, id}
  /\ UNCHANGED <<graphPending, page>>
  /\ SaveDag([tasks EXCEPT !.blank = IF id \in @ THEN @ \ {id} ELSE @ \cup {id}])

MayChange(id) == id \in Ids(tasks) /\ (graphPending = id => "stale_pick" \in Races)

DuplicateTask(id, nid) ==
  /\ Edit /\ page = 0 /\ id \in Ids(tasks) /\ nid \notin Ids(tasks)
  /\ UNCHANGED <<graphPending, page>>
  /\ SaveDag(WithTask(tasks, nid, tasks.deps[id], IF id \in tasks.blank THEN {nid} ELSE {}))

(* wrong: the deps on it stay *)
WithoutTaskUnscrubbed(m, id) ==
  [ids |-> Keep(m.ids, Ids(m) \ {id}),
   deps |-> [x \in Ids(m) \ {id} |-> m.deps[x]], blank |-> m.blank \ {id}]
WithoutTask(m, id) ==   \* the deps on it are scrubbed
  [ids |-> Keep(m.ids, Ids(m) \ {id}),
   deps |-> [x \in Ids(m) \ {id} |-> m.deps[x] \ {id}], blank |-> m.blank \ {id}]

DeleteTask(id) ==
  /\ Edit /\ page = 0 /\ MayChange(id)
  /\ UNCHANGED <<graphPending, page>>
  /\ SaveDag(WithoutTask(tasks, id))

(* renameActiveTask: inbound deps are rewritten; a taken id is refused *)
RenameActiveTask(id, newId) ==
  /\ Edit /\ page = id /\ MayChange(id) /\ newId \notin Ids(tasks)
  /\ page' = newId
  /\ LET new(x) == IF x = id THEN newId ELSE x
         old(x) == IF x = newId THEN id ELSE x
     IN SaveDag([ids |-> [i \in 1..Len(tasks.ids) |-> new(tasks.ids[i])],
                 deps |-> [x \in (Ids(tasks) \ {id}) \cup {newId} |->
                             {new(d) : d \in tasks.deps[old(x)]}],
                 blank |-> {new(x) : x \in tasks.blank}])
  /\ UNCHANGED graphPending

(* a chip of the task page: reverted when it closes a cycle *)
ToggleChip(id, dep) ==
  /\ Edit /\ page = id /\ {id, dep} \subseteq Ids(tasks) /\ id # dep
  /\ UNCHANGED <<graphPending, page>>
  /\ LET m == IF dep \in tasks.deps[id] THEN WithoutDep(tasks, dep, id) ELSE WithDep(tasks, dep, id)
     IN IF HasCycle(m) THEN UNCHANGED <<model, panel>> ELSE SaveDag(m)

(* showTask and gotoDagPage: the model stays; only the latter renders the panel *)
ShowTask(id) ==
  /\ InTime /\ page = 0 /\ id \in Ids(tasks) /\ page' = id
  /\ UNCHANGED <<model, graphPending, panel, edits>>
GotoDagPage ==
  /\ InTime /\ page # 0 /\ page' = 0 /\ Untouched /\ UNCHANGED <<graphPending, edits>>

-----------------------------------------------------------------------------
(* The diff panel. *)

ToggleDiff ==
  /\ Edit /\ page = 0 /\ graphBase # None
  /\ diffOpen' = ~diffOpen
  /\ UNCHANGED <<model, graphPending, page, diffCache>>
  /\ Render(tasks, graphBase, diffCache, diffOpen')

(* loadGraphDiff's answers: the server's definition against what was sent *)
DiffAnswered(i) ==
  /\ i \in 1..Len(diffs)
  /\ diffs' = RemoveAt(diffs, i)
  /\ diffCache' = [old |-> Yaml(saved), rows |-> DiffLines(Yaml(saved), Yaml(diffs[i]))]
  /\ UNCHANGED <<model, graphPending, page, diffOpen, edits>>

-----------------------------------------------------------------------------
(* any workflow of Start tasks, listed after what they depend on: the edits reach
   the other orders *)
Init ==
  /\ \E d \in [1..Start -> SUBSET (1..Start)] :
       /\ \A i \in 1..Start : d[i] \subseteq 1..(i - 1)
       /\ tasks = [ids |-> [i \in 1..Start |-> i], deps |-> d, blank |-> {}]
  /\ saved = tasks /\ saveTimer = FALSE /\ graphBase = None
  /\ graphPending = 0 /\ page = 0
  /\ diffOpen = FALSE /\ diffCache = NotShown /\ diffs = <<>> /\ edits = 0

Next ==
  \/ FlushSave \/ GraphSaveSession \/ GraphDiscardSession \/ ToggleConnectMode
  \/ AddTask \/ NvAddStep \/ ToggleDiff \/ GotoDagPage
  \/ \E id \in Id :
       \/ ShowTask(id) \/ OnGraphNodeActivate(id) \/ AddTaskFromGraph(id) \/ EditCommand(id) \/ DeleteTask(id)
       \/ \E to \in Id : \/ DragEdge(id, to) \/ RemoveEdge(id, to) \/ DuplicateTask(id, to)
                         \/ RenameActiveTask(id, to) \/ ToggleChip(id, to)
  \/ \E i \in 1..Len(diffs) : DiffAnswered(i)

Spec == Init /\ [][Next]_vars
=============================================================================
