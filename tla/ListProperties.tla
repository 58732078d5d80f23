--------------------------- MODULE ListProperties ---------------------------
(***************************************************************************)
(* What the admin pages promise about the lists they keep in memory.       *)
(***************************************************************************)
EXTENDS AdminLists

(* The lists patched in place (a token put first, one default provider, sorted
   variables, a connection's masked answer, a synthesized group) are what a
   refetch would show, apart from rows typed in and not saved. *)
RefetchShowsTheSame ==
  \A l \in (List \cap Patched) \ missed :
    op[l] = NoOp /\ PageOf(l) \in loaded =>
      LET now == Listing(l, store[l])
      IN /\ Len(cache[l]) = Len(now)
         /\ \A i \in 1..Len(now) :
              \/ cache[l][i] = now[i]
              \/ l = "vars" /\ cache[l][i][1] = now[i][1] /\ now[i][1] \in typed

(* The audit page's entries, fetched by offset while new ones are added at the
   top, leave none out between the newest and the oldest shown; without the
   button the oldest of all is shown. *)
AuditComplete ==
  "audit" \in List \ missed /\ AUD.entries # <<>> =>
    /\ \A e \in Rows(AUD.entries) : e..AUD.entries[1] \subseteq Rows(AUD.entries)
    /\ ~AUD.more => 1 \in Rows(AUD.entries)

(* The workers' page catches up with the server: after a drain or a removal,
   refreshWorkers and the poll correct the list while the page is open, also
   when an answer is lost. *)
WorkersCatchUp ==
  []<>("workers" \in List => \/ cache["workers"] = Listing("workers", store["workers"])
                             \/ view # "workers" \/ screen # "workers")
=============================================================================
