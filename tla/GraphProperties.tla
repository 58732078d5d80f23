--------------------------- MODULE GraphProperties ---------------------------
(***************************************************************************)
(* What the editor promises about the structure of a workflow.             *)
(***************************************************************************)
EXTENDS TaskGraph

WellFormed(m) == /\ m.ids \in Seq(Id) /\ IsInjective(m.ids)
                 /\ m.deps \in [Ids(m) -> SUBSET Ids(m)] /\ m.blank \subseteq Ids(m)
Acyclic(m) ==   \* no set of tasks each waits for another of the set
  \A S \in (SUBSET Ids(m)) \ {{}} : \E id \in S : m.deps[id] \cap S = {}

(* Whatever is edited from the graph, the table, the task page or the step list
   and whatever is discarded or saved: no id is used twice, every dependency is on
   a task that is there and no task waits for itself.  graphToggleDep and the chips
   check for cycles, deleteTask scrubs, renameActiveTask rewrites. *)
StructureSound ==
  \A m \in {tasks, saved, graphBase} \ {None} : WellFormed(m) /\ Acyclic(m)

CycleCheckExact ==
  \A up, down \in Ids(tasks) :
    up # down => HasCycle(WithDep(tasks, up, down)) = ~Acyclic(WithDep(tasks, up, down))
StepsInOrder ==
  LET o == TopoOrder(tasks)
  IN /\ Len(o) = Len(tasks.ids) /\ Range(o) = Ids(tasks)
     /\ \A i, j \in 1..Len(o) : o[i] \in tasks.deps[o[j]] => i < j
LevelsAreDepths ==
  LET level == Level(tasks)
  IN \A id \in Ids(tasks) :
       /\ \A d \in tasks.deps[id] : level[d] < level[id]
       /\ level[id] > 0 => \E d \in tasks.deps[id] : level[d] = level[id] - 1

(* The algorithms over the structure: hasCycle's search finds a cycle exactly when
   the dependency to be added closes one; topoOrder numbers every step once and
   after what it depends on, so that nvAddStep appends after one nothing depends
   on; renderGraph puts a task right of everything it depends on, and no further
   than the longest chain asks for. *)
AlgorithmsExact == CycleCheckExact /\ StepsInOrder /\ LevelsAreDepths

Lines(rows, ks) ==   \* the lines of the rows of these kinds
  LET n == Len(rows)
      lines[i \in 1..(n + 1)] ==
        IF i > n THEN <<>>
        ELSE IF rows[i].k \in ks THEN <<rows[i].s>> \o lines[i + 1] ELSE lines[i + 1]
  IN lines[1]
Matchings(a, b) ==   \* the ways to pair lines of a with the same lines of b, in order
  {P \in SUBSET {p \in (1..Len(a)) \X (1..Len(b)) : a[p[1]] = b[p[2]]} :
     \A p, q \in P : p[1] < q[1] <=> p[2] < q[2]}

DiffExplains ==
  LET new == Lines(diffCache.rows, {" ", "+"})
  IN /\ Lines(diffCache.rows, {" ", "-"}) = diffCache.old
     /\ \A P \in Matchings(diffCache.old, new) : Cardinality(P) <= Len(Lines(diffCache.rows, {" "}))
DiffIsCurrent ==
  diffOpen /\ page = 0 /\ graphBase # None /\ diffs = <<>> /\ ValidateDag(tasks) =>
    diffCache # NotShown /\ Lines(diffCache.rows, {" ", "+"}) = Yaml(tasks)

(* The diff panel tells the truth: its kept and removed lines are the saved
   definition and no diff keeps more lines; with the answer in, its kept and added
   lines are the pending structure and not an earlier one, unless a save is held
   (saveDag then returns before it drops the cached diff). *)
DiffTellsTruth == (diffCache # NotShown => DiffExplains) /\ DiffIsCurrent

(* What the editor shows without a session, a waiting save or an error is what the
   server has: every edit reaches a save, and discarding a session leaves nothing
   of it behind. *)
SettledIsSaved ==
  graphBase = None /\ ~saveTimer /\ ValidateDag(tasks) => saved = tasks
=============================================================================
