------------------------- MODULE AdminLists_proofs -------------------------
(***************************************************************************)
(* The audit page leaves no entry out, for every page size, every number   *)
(* of pages opened, calls made and requests lost, and whatever is logged   *)
(* between two requests; and the lists a page patches after its own calls  *)
(* are what fetching them again would show, for every set of ids and every *)
(* order of calls.                                                         *)
(***************************************************************************)
EXTENDS ListProperties, FiniteSetTheorems, SequenceTheorems, TLAPS

(***************************************************************************)
(* The answer to a request for the entries after offset o, served when g   *)
(* entries were logged.                                                    *)
(***************************************************************************)
Count(g, o) == Min({PageSize, Max({0, g - o})})

EntriesOf(g, o) == [i \in 1..Count(g, o) |-> g - o - i + 1]

(***************************************************************************)
(* The rows s show a stretch of the log without a gap, and its oldest is   *)
(* no newer than the offset Len(s) supposes once g entries are logged.     *)
(***************************************************************************)
Unbroken(s, g) ==
  /\ \A e \in Rows(s) : e..s[1] \subseteq Rows(s)
  /\ 1 <= s[Len(s)] /\ s[Len(s)] <= g - Len(s) + 1

-----------------------------------------------------------------------------
(* Entries counted. *)

(* Min and Max of FiniteSetsExt, on two integers *)
LEMMA MinOfTwo ==
  ASSUME NEW a \in Int, NEW b \in Int
  PROVE  Min({a, b}) = IF a <= b THEN a ELSE b
<1>1. \E m \in {a, b} : \A y \in {a, b} : m <= y  OBVIOUS
<1>2. PICK m : m = Min({a, b})  OBVIOUS
<1>3. m \in {a, b} /\ \A y \in {a, b} : m <= y  BY <1>1, <1>2 DEF Min
<1> QED  BY <1>2, <1>3

LEMMA MaxOfTwo ==
  ASSUME NEW a \in Int, NEW b \in Int
  PROVE  Max({a, b}) = IF a >= b THEN a ELSE b
<1>1. \E m \in {a, b} : \A y \in {a, b} : m >= y  OBVIOUS
<1>2. PICK m : m = Max({a, b})  OBVIOUS
<1>3. m \in {a, b} /\ \A y \in {a, b} : m >= y  BY <1>1, <1>2 DEF Max
<1> QED  BY <1>2, <1>3

(* an answer holds a page of entries, or all that are left *)
LEMMA CountIs ==
  ASSUME NEW g \in Nat, NEW o \in Nat
  PROVE  /\ Count(g, o) \in Nat /\ Count(g, o) <= PageSize
         /\ g <= o => Count(g, o) = 0
         /\ g > o /\ g - o < PageSize => Count(g, o) = g - o
         /\ g > o /\ g - o >= PageSize => Count(g, o) = PageSize
<1>1. PageSize \in Nat \ {0}  BY ListAssumption
<1>2. PICK r : r = Max({0, g - o})  OBVIOUS
<1>3. r = IF 0 >= g - o THEN 0 ELSE g - o  BY <1>2, MaxOfTwo
<1>4. Min({PageSize, r}) = IF PageSize <= r THEN PageSize ELSE r  BY <1>1, <1>3, MinOfTwo
<1> QED  BY <1>1, <1>2, <1>3, <1>4 DEF Count

LEMMA EntriesAre ==
  ASSUME NEW g \in Nat, NEW o \in Nat
  PROVE  /\ EntriesOf(g, o) \in Seq(Int) /\ Len(EntriesOf(g, o)) = Count(g, o)
         /\ \A i \in 1..Count(g, o) : EntriesOf(g, o)[i] = g - o - i + 1
<1>1. PICK c : c = Count(g, o)  OBVIOUS
<1>2. c \in Nat  BY <1>1, CountIs
<1>3. PICK s : s = [i \in 1..c |-> g - o - i + 1]  OBVIOUS
<1>4. s \in Seq(Int) /\ Len(s) = c /\ \A i \in 1..c : s[i] = g - o - i + 1  BY <1>2, <1>3
<1> QED  BY <1>1, <1>3, <1>4 DEF EntriesOf

LEMMA RowsOf ==
  ASSUME NEW s, NEW i \in 1..Len(s)
  PROVE  s[i] \in Rows(s)
BY DEF Rows

LEMMA FirstPage ==
  ASSUME NEW g \in Nat, NEW s, s = EntriesOf(g, 0), s # <<>>
  PROVE  Unbroken(s, g) /\ (~(Len(s) >= PageSize) => 1 \in Rows(s))
<1>1. PageSize \in Nat \ {0}  BY ListAssumption
<1>2. PICK c : c = Count(g, 0)  OBVIOUS
<1>3. /\ c \in Nat /\ c <= PageSize /\ (g <= 0 => c = 0)
      /\ g > 0 /\ g < PageSize => c = g
      /\ g > 0 /\ g >= PageSize => c = PageSize
  <2>1. PICK o \in Nat : o = 0  OBVIOUS
  <2>2. c = Count(g, o)  BY <1>2, <2>1
  <2>3. g - o = g  BY <2>1
  <2> QED  BY <1>1, <2>1, <2>2, <2>3, CountIs
<1>4. s \in Seq(Int) /\ Len(s) = c /\ \A i \in 1..c : s[i] = g - i + 1
  <2>1. \A i \in 1..c : g - 0 - i + 1 = g - i + 1  BY <1>3
  <2> QED  BY <1>2, <2>1, EntriesAre
<1>5. c >= 1 /\ g >= c  BY <1>1, <1>3, <1>4
<1>6. s[1] = g /\ s[c] = g - c + 1  BY <1>3, <1>4, <1>5
<1>7. ASSUME NEW e \in Rows(s), NEW m \in e..s[1]  PROVE  m \in Rows(s)
  <2>1. PICK i \in 1..c : e = g - i + 1  BY <1>4 DEF Rows
  <2>2. g - m + 1 \in 1..c /\ m \in Int  BY <1>3, <1>6, <1>7, <2>1
  <2>3. s[g - m + 1] = m  BY <1>4, <2>2
  <2> QED  BY <1>4, <2>2, <2>3, RowsOf
<1>8. 1 <= s[Len(s)] /\ s[Len(s)] <= g - Len(s) + 1  BY <1>3, <1>4, <1>5, <1>6
<1>9. ~(Len(s) >= PageSize) => s[c] = 1 /\ c \in 1..Len(s)  BY <1>1, <1>3, <1>4, <1>5, <1>6
<1> QED  BY <1>7, <1>8, <1>9, RowsOf DEF Unbroken

LEMMA NextPage ==
  ASSUME NEW g \in Nat, NEW s \in Seq(Int), s # <<>>, Unbroken(s, g),
         NEW v, v = EntriesOf(g, Len(s))
  PROVE  Unbroken(s \o v, g) /\ (~(Len(v) >= PageSize) => 1 \in Rows(s \o v))
<1>1. PageSize \in Nat \ {0}  BY ListAssumption
<1>2. PICK n : n = Len(s)  OBVIOUS
<1>3. n \in Nat /\ n >= 1  BY <1>2
<1>4. PICK c : c = Count(g, n)  OBVIOUS
<1>5. /\ c \in Nat /\ c <= PageSize /\ (g <= n => c = 0)
      /\ g > n /\ g - n < PageSize => c = g - n
      /\ g > n /\ g - n >= PageSize => c = PageSize
  BY <1>3, <1>4, CountIs
<1>6. v \in Seq(Int) /\ Len(v) = c /\ \A i \in 1..c : v[i] = g - n - i + 1
  BY <1>2, <1>3, <1>4, EntriesAre
<1>7. PICK w : w = s \o v  OBVIOUS
<1>8. /\ w \in Seq(Int) /\ Len(w) = n + c
      /\ \A i \in 1..n : w[i] = s[i]
      /\ \A i \in 1..c : w[n + i] = v[i]
  <2>1. w \in Seq(Int)  BY <1>6, <1>7, ConcatProperties
  <2>2. Len(w) = n + c  BY <1>2, <1>6, <1>7, ConcatProperties
  <2>3. ASSUME NEW i \in 1..(n + c)
        PROVE  w[i] = IF i <= n THEN s[i] ELSE v[i - n]
    BY <1>2, <1>6, <1>7, <2>3
  <2>4. \A i \in 1..n : w[i] = s[i]  BY <1>3, <1>5, <2>3
  <2>5. ASSUME NEW i \in 1..c  PROVE  w[n + i] = v[i]
    <3>1. PICK j \in 1..(n + c) : j = n + i  BY <1>3, <1>5, <2>5
    <3>2. j - n = i /\ ~(j <= n)  BY <1>3, <1>5, <3>1
    <3> QED  BY <2>3, <3>1, <3>2
  <2> QED  BY <2>1, <2>2, <2>4, <2>5
<1>9. w[1] = s[1] /\ s[1] \in Int /\ s[n] \in Int  BY <1>2, <1>3, <1>8
<1>10. Rows(s) \subseteq Rows(w)
  <2>1. ASSUME NEW e \in Rows(s)  PROVE  e \in Rows(w)
    <3>1. PICK i \in 1..n : e = s[i]  BY <1>2, <2>1 DEF Rows
    <3>2. i \in 1..Len(w) /\ w[i] = e  BY <1>3, <1>5, <1>8, <3>1
    <3> QED  BY <3>2, RowsOf
  <2> QED  BY <2>1
<1>11. 1 <= s[n] /\ s[n] <= g - n + 1  BY <1>2 DEF Unbroken
<1>12. s[n] \in Rows(s)  BY <1>2, <1>3, RowsOf
<1>13. \A m \in Int : s[n] <= m /\ m <= s[1] => m \in Rows(s)
  BY <1>9, <1>12 DEF Unbroken
<1>14. ASSUME NEW e \in Rows(w), NEW m \in e..w[1]  PROVE  m \in Rows(w)
  <2>1. PICK j \in 1..Len(w) : e = w[j]  BY <1>14 DEF Rows
  <2>2. e \in Int /\ m \in Int /\ e <= m /\ m <= s[1]  BY <1>8, <1>9, <1>14, <2>1
  <2>3. CASE j <= n
    <3>1. e \in Rows(s)  BY <1>2, <1>8, <2>1, <2>3, RowsOf
    <3>2. m \in Rows(s)  BY <1>9, <1>14, <3>1 DEF Unbroken
    <3> QED  BY <1>10, <3>2
  <2>4. CASE s[n] <= m  BY <1>10, <1>13, <2>2, <2>4
  <2>5. CASE j > n /\ m < s[n]
    <3>1. PICK i \in 1..c : j = n + i  BY <1>3, <1>5, <1>8, <2>1, <2>5
    <3>2. e = g - n - i + 1  BY <1>6, <1>8, <2>1, <3>1
    <3>3. g - n - m + 1 \in 1..c  BY <1>3, <1>5, <1>9, <1>11, <2>2, <2>5, <3>1, <3>2
    <3>4. PICK h \in 1..c : h = g - n - m + 1  BY <3>3
    <3>5. v[h] = m  BY <1>3, <1>6, <2>2, <3>4
    <3>6. w[n + h] = m /\ n + h \in 1..Len(w)  BY <1>3, <1>5, <1>8, <3>4, <3>5
    <3> QED  BY <3>6, RowsOf
  <2> QED  BY <1>3, <1>9, <2>1, <2>2, <2>3, <2>4, <2>5, <1>8
<1>15. CASE c = 0
  <2>1. w[Len(w)] = s[n] /\ Len(w) = n  BY <1>3, <1>8, <1>15
  <2>2. g <= n  BY <1>1, <1>3, <1>5, <1>15
  <2>3. s[n] = 1  BY <1>3, <1>9, <1>11, <2>2
  <2>4. 1 \in Rows(w)  BY <1>10, <1>12, <2>3
  <2> QED  BY <1>7, <1>11, <1>14, <2>1, <2>4 DEF Unbroken
<1>16. CASE c > 0
  <2>1. g > n /\ g - n >= c  BY <1>1, <1>3, <1>5, <1>16
  <2>2. w[Len(w)] = g - n - c + 1
    <3>1. c \in 1..c  BY <1>5, <1>16
    <3> QED  BY <1>6, <1>8, <3>1
  <2>3. 1 <= w[Len(w)] /\ w[Len(w)] <= g - Len(w) + 1  BY <1>3, <1>5, <1>8, <2>1, <2>2
  <2>4. ~(Len(v) >= PageSize) => 1 \in Rows(w)
    <3>1. ~(Len(v) >= PageSize) => w[Len(w)] = 1  BY <1>1, <1>3, <1>5, <1>6, <2>1, <2>2
    <3>2. Len(w) \in 1..Len(w)  BY <1>3, <1>5, <1>8
    <3> QED  BY <3>1, <3>2, RowsOf
  <2> QED  BY <1>7, <1>14, <2>3, <2>4 DEF Unbroken
<1> QED  BY <1>5, <1>15, <1>16

-----------------------------------------------------------------------------
(* The page's state. *)

IsRequest(x) ==
  x = [page |-> x.page, kind |-> x.kind, n |-> x.n, pc |-> x.pc, data |-> x.data]

(* an answer for page audit is the top of the log at some time *)
TopRead(x) ==
  x.page = "audit" /\ x.pc = "ok" => \E g \in 0..log : x.data = EntriesOf(g, 0)

(* the button's call *)
IsMore(o) ==
  /\ o = [pc |-> o.pc, kind |-> "more", k |-> o.k, v |-> o.v] /\ o.k \in Nat
  /\ o.pc = "sent" \/ (o.pc = "ok" /\ o.v \in Seq(Int))

AuditType ==
  /\ log \in Nat /\ faults \in Nat
  /\ op = [l \in List |-> op[l]]
  /\ op["audit"] = NoOp \/ IsMore(op["audit"])
  /\ AUD = [entries |-> AUD.entries, more |-> AUD.more]
  /\ AUD.entries \in Seq(Int)
  /\ AUD.more => AUD.entries # <<>>
  /\ \A x \in loads : IsRequest(x) /\ TopRead(x)

(* what is shown has no gap, and reaches the oldest entry without the button *)
ShownInv ==
  AUD.entries # <<>> =>
    /\ Unbroken(AUD.entries, log)
    /\ ~AUD.more => 1 \in Rows(AUD.entries)

(* while the button's call is under way nothing replaces the entries it will be
   appended to, and its answer was read when they were as far back as its offset
   supposes *)
AwaitInv ==
  op["audit"] # NoOp =>
    /\ \A x \in loads : x.page # "audit"
    /\ op["audit"].k = Len(AUD.entries) /\ AUD.entries # <<>>
    /\ op["audit"].pc = "ok" =>
         \E g \in 0..log : /\ op["audit"].v = EntriesOf(g, Len(AUD.entries))
                           /\ Unbroken(AUD.entries, g)

AuditInv ==
  "audit" \in List =>
    /\ AuditType
    /\ "audit" \notin missed => ShownInv /\ AwaitInv

(***************************************************************************)
(* What a step other than those of the audit page does.                    *)
(***************************************************************************)
Apart ==
  /\ log' \in Nat /\ log' >= log /\ faults' \in Nat
  /\ op' = [l \in List |-> op'[l]] /\ op'["audit"] = op["audit"]
  /\ AUD' = AUD
  /\ \A y \in loads' : IsRequest(y) /\ TopRead(y)'

LEMMA TopStays ==
  ASSUME NEW x, log \in Nat, log' \in Nat, log' >= log, TopRead(x)
  PROVE  TopRead(x)'
BY DEF TopRead

LEMMA SameLoads ==
  ASSUME AuditType, log' \in Nat, log' >= log, loads' \subseteq loads
  PROVE  \A y \in loads' : IsRequest(y) /\ TopRead(y)'
BY TopStays DEF AuditType

LEMMA OneMoreLoad ==
  ASSUME AuditType, log' = log, NEW p, NEW kind, Request(p, kind)
  PROVE  \A y \in loads' : IsRequest(y) /\ TopRead(y)'
<1>1. PICK z : z = [page |-> p, kind |-> kind, n |-> shows, pc |-> "sent", data |-> <<>>]
  OBVIOUS
<1>2. loads' = loads \cup {z}  BY <1>1 DEF Request
<1>3. IsRequest(z) /\ TopRead(z)'  BY <1>1 DEF IsRequest, TopRead
<1>4. \A y \in loads : IsRequest(y) /\ TopRead(y)'  BY TopStays DEF AuditType
<1> QED  BY <1>2, <1>3, <1>4

LEMMA CallIsApart ==
  ASSUME "audit" \in List, AuditType,
         NEW l \in List, l # "audit", NEW kind, NEW k, NEW v, Call(l, kind, k, v)
  PROVE  Apart
<1>1. log' = log /\ faults' = faults /\ AUD' = AUD /\ loads' = loads
  BY DEF Call, server, memory
<1>2. op' = [op EXCEPT ![l] = [pc |-> "sent", kind |-> kind, k |-> k, v |-> v]]  BY DEF Call
<1>3. op' = [j \in List |-> op'[j]] /\ op'["audit"] = op["audit"]  BY <1>2 DEF AuditType
<1>4. log' \in Nat /\ log' >= log /\ faults' \in Nat  BY <1>1 DEF AuditType
<1> QED  BY <1>1, <1>3, <1>4, SameLoads DEF Apart

LEMMA ShowRequests ==
  ASSUME "audit" \in List, AuditType, NEW p, Show(p)
  PROVE  Apart
<1>1. log' = log /\ faults' = faults /\ AUD' = AUD /\ op' = op
  BY DEF Show, server, memory
<1>2. log' \in Nat /\ log' >= log /\ faults' \in Nat  BY <1>1 DEF AuditType
<1>3. \A y \in loads' : IsRequest(y) /\ TopRead(y)'  BY <1>1, OneMoreLoad DEF Show
<1> QED  BY <1>1, <1>2, <1>3 DEF Apart, AuditType

LEMMA PagesApart ==
  ASSUME "audit" \in List, AuditType, NEW x \in loads
  PROVE  /\ ServePage(x) => Apart
         /\ LandPage(x) /\ x.page # "audit" => Apart
         /\ LandWorkers(x) => Apart
         /\ LandFailure(x) => Apart
<1>1. IsRequest(x) /\ TopRead(x) /\ log \in Nat /\ faults \in Nat /\ op = [l \in List |-> op[l]]
  BY DEF AuditType
<1>2. ASSUME ServePage(x)  PROVE  Apart
  <2>1. log' = log /\ faults' = faults /\ AUD' = AUD /\ op' = op
    BY <1>2 DEF ServePage, server, memory, counts
  <2>2. PICK d : d = IF x.page = "audit" THEN Entries(0)
                     ELSE [l \in On(x.page) |-> Listing(l, store[l])]
    OBVIOUS
  <2>3. PICK z : z = [x EXCEPT !.pc = "ok", !.data = d]  OBVIOUS
  <2>4. loads' = (loads \ {x}) \cup {z}  BY <1>2, <2>2, <2>3 DEF ServePage
  <2>5. IsRequest(z) /\ z.page = x.page /\ z.data = d  BY <1>1, <2>3 DEF IsRequest
  <2>6. x.page = "audit" => d = EntriesOf(log, 0)
    BY <2>2 DEF Entries, EntriesOf, Count
  <2>7. TopRead(z)'
    <3>1. log \in 0..log  BY <1>1
    <3> QED  BY <2>1, <2>5, <2>6, <3>1 DEF TopRead
  <2>8. \A y \in loads : IsRequest(y) /\ TopRead(y)'  BY <1>1, <2>1, TopStays DEF AuditType
  <2> QED  BY <1>1, <2>1, <2>4, <2>5, <2>7, <2>8 DEF Apart
<1>3. ASSUME LandPage(x), x.page # "audit"  PROVE  Apart
  <2>1. log' = log /\ faults' = faults /\ AUD' = AUD /\ op' = op
    BY <1>3 DEF LandPage, server, counts
  <2>2. ASSUME NEW z \in loads'  PROVE  IsRequest(z) /\ TopRead(z)'
    <3>1. PICK y \in loads :
            z = [y EXCEPT !.kind = IF y.page = x.page /\ @ # "page" THEN "dead" ELSE @]
      BY <1>3, <2>2 DEF LandPage
    <3>2. IsRequest(y) /\ TopRead(y)  BY DEF AuditType
    <3>3. IsRequest(z) /\ z.page = y.page /\ z.pc = y.pc /\ z.data = y.data
      <4>1. PICK c : c = IF y.page = x.page /\ y.kind # "page" THEN "dead" ELSE y.kind  OBVIOUS
      <4>2. z = [y EXCEPT !.kind = c]  BY <3>1, <4>1
      <4> QED  BY <3>2, <4>2 DEF IsRequest
    <3> QED  BY <2>1, <3>2, <3>3 DEF TopRead
  <2> QED  BY <1>1, <2>1, <2>2 DEF Apart
<1>4. ASSUME LandWorkers(x)  PROVE  Apart
  <2>1. /\ log' = log /\ faults' = faults /\ AUD' = AUD /\ op' = op
        /\ loads' \subseteq loads
    BY <1>4 DEF LandWorkers, server, counts
  <2>2. log' >= log  BY <1>1, <2>1
  <2> QED  BY <1>1, <2>1, <2>2, SameLoads DEF Apart
<1>5. ASSUME LandFailure(x)  PROVE  Apart
  <2>1. /\ log' = log /\ faults' = faults + 1 /\ AUD' = AUD /\ op' = op
        /\ loads' \subseteq loads
    BY <1>5 DEF LandFailure, server
  <2>2. log' >= log /\ faults' \in Nat  BY <1>1, <2>1
  <2> QED  BY <1>1, <2>1, <2>2, SameLoads DEF Apart
<1> QED  BY <1>2, <1>3, <1>4, <1>5

LEMMA ServedApart ==
  ASSUME "audit" \in List, AuditType, NEW l \in List
  PROVE  /\ ServeSave(l) => Apart
         /\ ServeRemove(l) => Apart
         /\ PatchList(l) => Apart
         /\ OpFails(l) /\ l # "audit" => Apart
<1>1. log \in Nat /\ faults \in Nat /\ op = [j \in List |-> op[j]]  BY DEF AuditType
<1>2. op["audit"] = NoOp \/ op["audit"].kind = "more"  BY DEF AuditType, IsMore
<1>3. NoOp.pc # "sent" /\ NoOp.pc # "ok"  BY DEF NoOp
<1>4. \A kind : Served(l, kind) /\ kind # "more" => l # "audit"
  BY <1>2, <1>3 DEF Served
<1>5. ASSUME ServeSave(l)  PROVE  Apart
  <2>1. log' = log + 1 /\ faults' = faults /\ AUD' = AUD /\ loads' = loads
    BY <1>5 DEF ServeSave, memory, counts
  <2>2. l # "audit"  BY <1>4, <1>5 DEF ServeSave
  <2>3. PICK r : r = store'[l][op[l].k]  OBVIOUS
  <2>4. op' = [op EXCEPT ![l].pc = "ok", ![l].v = r]  BY <1>5, <2>3 DEF ServeSave
  <2>5. op' = [j \in List |-> op'[j]] /\ op'["audit"] = op["audit"]  BY <1>1, <2>2, <2>4
  <2>6. log' \in Nat /\ log' >= log  BY <1>1, <2>1
  <2> QED  BY <1>1, <2>1, <2>5, <2>6, SameLoads DEF Apart
<1>6. ASSUME ServeRemove(l)  PROVE  Apart
  <2>1. /\ log' = log + 1 \/ log' = log
        /\ faults' = faults /\ AUD' = AUD /\ loads' = loads
    BY <1>6 DEF ServeRemove, memory, counts, server
  <2>2. l # "audit"  BY <1>4, <1>6 DEF ServeRemove
  <2>3. PICK c : op' = [op EXCEPT ![l].pc = c]  BY <1>6 DEF ServeRemove
  <2>4. op' = [j \in List |-> op'[j]] /\ op'["audit"] = op["audit"]  BY <1>1, <2>2, <2>3
  <2>5. log' \in Nat /\ log' >= log  BY <1>1, <2>1
  <2> QED  BY <1>1, <2>1, <2>4, <2>5, SameLoads DEF Apart
<1>7. ASSUME PatchList(l)  PROVE  Apart
  <2>1. log' = log /\ faults' = faults /\ AUD' = AUD /\ loads' = loads
    BY <1>7 DEF PatchList, server, counts
  <2>2. l # "audit" /\ op' = [op EXCEPT ![l] = NoOp]
    BY <1>7 DEF PatchList, Returned, Patched
  <2>3. op' = [j \in List |-> op'[j]] /\ op'["audit"] = op["audit"]  BY <1>1, <2>2
  <2>4. log' >= log  BY <1>1, <2>1
  <2> QED  BY <1>1, <2>1, <2>3, <2>4, SameLoads DEF Apart
<1>8. ASSUME OpFails(l), l # "audit"  PROVE  Apart
  <2>1. log' = log /\ AUD' = AUD /\ loads' = loads  BY <1>8 DEF OpFails, server
  <2>2. faults' \in Nat  BY <1>1, <1>8 DEF OpFails
  <2>3. op' = [op EXCEPT ![l] = NoOp]  BY <1>8 DEF OpFails
  <2>4. op' = [j \in List |-> op'[j]] /\ op'["audit"] = op["audit"]  BY <1>1, <1>8, <2>3
  <2>5. log' >= log  BY <1>1, <2>1
  <2> QED  BY <1>1, <2>1, <2>2, <2>4, <2>5, SameLoads DEF Apart
<1> QED  BY <1>5, <1>6, <1>7, <1>8

LEMMA RefetchApart ==
  ASSUME "audit" \in List, AuditType
  PROVE  /\ RefreshWorkers => Apart
         /\ PoolSaved => Apart
         /\ WorkersPoll => Apart
<1>1. log \in Nat /\ faults \in Nat /\ op = [j \in List |-> op[j]]  BY DEF AuditType
<1>2. ASSUME NEW l \in {"workers", "pools"}, l \in List, Returned(l)
      PROVE  op' = [j \in List |-> op'[j]] /\ op'["audit"] = op["audit"]
  BY <1>1, <1>2 DEF Returned
<1>3. ASSUME RefreshWorkers  PROVE  Apart
  <2>1. log' = log /\ faults' = faults /\ AUD' = AUD
    BY <1>3 DEF RefreshWorkers, server, memory, counts
  <2>2. log' >= log  BY <1>1, <2>1
  <2>3. op' = [j \in List |-> op'[j]] /\ op'["audit"] = op["audit"]
    BY <1>2, <1>3 DEF RefreshWorkers
  <2>4. CASE Request("workers", "refresh")
    BY <1>1, <2>1, <2>2, <2>3, <2>4, OneMoreLoad DEF Apart
  <2>5. CASE loads' = loads
    BY <1>1, <2>1, <2>2, <2>3, <2>5, SameLoads DEF Apart
  <2> QED  BY <1>3, <2>4, <2>5 DEF RefreshWorkers
<1>4. ASSUME PoolSaved  PROVE  Apart
  <2>1. log' = log /\ faults' = faults /\ AUD' = AUD
    BY <1>4 DEF PoolSaved, server, memory, counts
  <2>2. log' >= log  BY <1>1, <2>1
  <2>3. op' = [j \in List |-> op'[j]] /\ op'["audit"] = op["audit"]
    BY <1>2, <1>4 DEF PoolSaved
  <2>4. Request("pools", "page")  BY <1>4 DEF PoolSaved
  <2> QED  BY <1>1, <2>1, <2>2, <2>3, <2>4, OneMoreLoad DEF Apart
<1>5. ASSUME WorkersPoll  PROVE  Apart
  <2>1. log' = log /\ faults' = faults /\ AUD' = AUD /\ op' = op
    BY <1>5 DEF WorkersPoll, server, memory, counts
  <2>2. log' >= log  BY <1>1, <2>1
  <2>3. Request("workers", "poll")  BY <1>5 DEF WorkersPoll
  <2> QED  BY <1>1, <2>1, <2>2, <2>3, OneMoreLoad DEF Apart
<1> QED  BY <1>3, <1>4, <1>5

LEMMA UserApart ==
  ASSUME "audit" \in List, AuditType, User
  PROVE  Apart \/ LoadMore
<1>1. log \in Nat /\ faults \in Nat /\ op = [j \in List |-> op[j]]  BY DEF AuditType
<1>2. CASE ShowApi \/ ShowAIProviders \/ ShowResources \/ ShowAudit \/ ShowWorkers \/ ShowPools
  BY <1>2, ShowRequests
     DEF ShowApi, ShowAIProviders, ShowResources, ShowAudit, ShowWorkers, ShowPools
<1>3. CASE ShowOther
  <2>1. log' = log /\ faults' = faults /\ AUD' = AUD /\ op' = op /\ loads' = loads
    BY <1>3 DEF ShowOther, server, memory, counts
  <2>2. log' >= log  BY <1>1, <2>1
  <2> QED  BY <1>1, <2>1, <2>2, SameLoads DEF Apart
<1>4. CASE OthersAct
  <2>1. log' = log + 1 /\ faults' = faults /\ AUD' = AUD /\ op' = op /\ loads' = loads
    BY <1>4 DEF OthersAct, memory
  <2>2. log' \in Nat /\ log' >= log  BY <1>1, <2>1
  <2> QED  BY <1>1, <2>1, <2>2, SameLoads DEF Apart
<1>5. ASSUME NEW k \in Key,
             \/ RevokeToken(k) \/ DelAIProvider(k) \/ DelVar(k) \/ DelConn(k) \/ DelGroup(k)
             \/ RemoveWorkerUI(k) \/ ToggleDrainWorker(k)
      PROVE  Apart
  BY <1>5, CallIsApart DEF RevokeToken, DelAIProvider, DelVar, DelConn, DelGroup,
     RemoveWorkerUI, ToggleDrainWorker
<1>6. ASSUME NEW k \in Key, NEW v \in Val,
             \/ CreateToken(k, v) \/ AIProviderDialog(k, v) \/ SaveVar(k, v)
             \/ ConnDialog(k, v) \/ GroupDialog(k, v) \/ SavePool(k, v)
      PROVE  Apart
  BY <1>6, CallIsApart DEF CreateToken, AIProviderDialog, SaveVar, ConnDialog, GroupDialog,
     SavePool
<1>7. ASSUME NEW k \in Key, NEW v \in Val, TypeVar(k, v)  PROVE  Apart
  <2>1. log' = log /\ faults' = faults /\ AUD' = AUD /\ op' = op /\ loads' = loads
    BY <1>7 DEF TypeVar, server
  <2>2. log' >= log  BY <1>1, <2>1
  <2> QED  BY <1>1, <2>1, <2>2, SameLoads DEF Apart
<1> QED  BY <1>2, <1>3, <1>4, <1>5, <1>6, <1>7 DEF User

(* every other step is one of five of the audit page *)
LEMMA StepsOfAudit ==
  ASSUME "audit" \in List, AuditType, Next
  PROVE  \/ Apart
         \/ LoadMore \/ ServeMore \/ AppendEntries \/ OpFails("audit")
         \/ \E x \in loads : LandPage(x) /\ x.page = "audit"
BY UserApart, PagesApart, ServedApart, RefetchApart DEF Next, Arrives, Calls

-----------------------------------------------------------------------------
(* The invariant. *)

LEMMA AuditInit == Init => AuditInv
<1> SUFFICES ASSUME Init, "audit" \in List  PROVE  AuditType /\ ShownInv /\ AwaitInv
  BY DEF AuditInv
<1>1. log \in Nat  BY ListAssumption DEF Init
<1>2. AUD = [entries |-> <<>>, more |-> FALSE]  BY DEF Init
<1>3. op["audit"] = NoOp /\ op = [l \in List |-> op[l]]  BY DEF Init
<1> QED  BY <1>1, <1>2, <1>3 DEF Init, AuditType, ShownInv, AwaitInv

(* what Note leaves unmarked *)
LEMMA NotMissed ==
  ASSUME "audit" \in List, Note, "audit" \notin missed'
  PROVE  /\ "audit" \notin missed
         /\ op'["audit"] # NoOp => \A x \in loads' : x.page # "audit"
         /\ op["audit"] # NoOp /\ op'["audit"] = NoOp => faults' = faults
BY DEF Note, PageOf

LEMMA MoreLogged ==
  ASSUME NEW s \in Seq(Int), s # <<>>, NEW g \in Nat, NEW h \in Nat, g <= h, Unbroken(s, g)
  PROVE  Unbroken(s, h)
<1>1. PICK n : n = Len(s)  OBVIOUS
<1>2. n \in Nat /\ s[n] \in Int  BY <1>1
<1>3. s[n] <= h - n + 1  BY <1>1, <1>2 DEF Unbroken
<1> QED  BY <1>1, <1>3 DEF Unbroken

LEMMA ApartKeeps ==
  ASSUME "audit" \in List, AuditType, Apart, Note,
         "audit" \notin missed => ShownInv /\ AwaitInv
  PROVE  AuditType' /\ ("audit" \notin missed' => ShownInv' /\ AwaitInv')
<1>1. /\ log \in Nat /\ log' \in Nat /\ log <= log'
      /\ AUD' = AUD /\ op'["audit"] = op["audit"] /\ AUD.entries \in Seq(Int)
  BY DEF Apart, AuditType
<1>2. AuditType'  BY DEF Apart, AuditType
<1>3. ASSUME "audit" \notin missed'  PROVE  ShownInv' /\ AwaitInv'
  <2>1. ShownInv /\ AwaitInv  BY <1>3, NotMissed
  <2>2. ShownInv'  BY <1>1, <2>1, MoreLogged DEF ShownInv
  <2>3. \A g \in 0..log : g \in 0..log'  BY <1>1
  <2>4. op'["audit"] # NoOp => \A x \in loads' : x.page # "audit"  BY <1>3, NotMissed
  <2>5. AwaitInv'  BY <1>1, <2>1, <2>3, <2>4 DEF AwaitInv
  <2> QED  BY <2>2, <2>5
<1> QED  BY <1>2, <1>3

LEMMA LoadMoreKeeps ==
  ASSUME "audit" \in List, AuditType, LoadMore, Note,
         "audit" \notin missed => ShownInv /\ AwaitInv
  PROVE  AuditType' /\ ("audit" \notin missed' => ShownInv' /\ AwaitInv')
<1>1. log' = log /\ faults' = faults /\ AUD' = AUD /\ loads' = loads
  BY DEF LoadMore, Call, server, memory
<1>2. PICK o : o = [pc |-> "sent", kind |-> "more", k |-> Len(AUD.entries), v |-> 0]  OBVIOUS
<1>3. op' = [op EXCEPT !["audit"] = o]  BY <1>2 DEF LoadMore, Call
<1>4. op'["audit"] = o /\ op' = [l \in List |-> op'[l]]  BY <1>3 DEF AuditType
<1>5. IsMore(o) /\ o.pc = "sent" /\ o.k = Len(AUD.entries)  BY <1>2 DEF AuditType, IsMore
<1>6. AUD.entries # <<>>  BY DEF LoadMore, AuditType
<1>7. log' >= log  BY <1>1 DEF AuditType
<1>8. \A y \in loads' : IsRequest(y) /\ TopRead(y)'  BY <1>1, <1>7, SameLoads DEF AuditType
<1>9. AuditType'  BY <1>1, <1>4, <1>5, <1>8 DEF AuditType
<1>10. ASSUME "audit" \notin missed'  PROVE  ShownInv' /\ AwaitInv'
  <2>1. ShownInv  BY <1>10, NotMissed
  <2>2. ShownInv'  BY <1>1, <2>1 DEF ShownInv
  <2>3. op'["audit"] # NoOp => \A x \in loads' : x.page # "audit"  BY <1>10, NotMissed
  <2>4. AwaitInv'  BY <1>1, <1>4, <1>5, <1>6, <2>3 DEF AwaitInv
  <2> QED  BY <2>2, <2>4
<1> QED  BY <1>9, <1>10

LEMMA ServeMoreKeeps ==
  ASSUME "audit" \in List, AuditType, ServeMore, Note,
         "audit" \notin missed => ShownInv /\ AwaitInv
  PROVE  AuditType' /\ ("audit" \notin missed' => ShownInv' /\ AwaitInv')
<1>1. log' = log /\ faults' = faults /\ AUD' = AUD /\ loads' = loads /\ log \in Nat
  BY DEF ServeMore, server, memory, counts, AuditType
<1>2. PICK a : a = op["audit"]  OBVIOUS
<1>3. a.pc = "sent" /\ IsMore(a) /\ a # NoOp /\ a.k \in Nat
  BY <1>2 DEF ServeMore, Served, AuditType, NoOp, IsMore
<1>4. PICK e : e = EntriesOf(log, a.k)  OBVIOUS
<1>5. e \in Seq(Int)  BY <1>1, <1>3, <1>4, EntriesAre
<1>6. op' = [op EXCEPT !["audit"].pc = "ok", !["audit"].v = e]
  BY <1>2, <1>4 DEF ServeMore, Entries, EntriesOf, Count
<1>7. PICK o : o = [pc |-> "ok", kind |-> "more", k |-> a.k, v |-> e]  OBVIOUS
<1>8. op'["audit"] = o /\ op' = [l \in List |-> op'[l]]
  <2>1. PICK b : b = [[a EXCEPT !.pc = "ok"] EXCEPT !.v = e]  OBVIOUS
  <2>2. op'["audit"] = b /\ op' = [l \in List |-> op'[l]]
    BY <1>2, <1>6, <2>1 DEF AuditType
  <2>3. b = o
    <3>1. PICK k0, v0 : a = [pc |-> "sent", kind |-> "more", k |-> k0, v |-> v0]
      BY <1>3 DEF IsMore
    <3>2. a.k = k0  BY <3>1
    <3>3. [a EXCEPT !.pc = "ok"] = [pc |-> "ok", kind |-> "more", k |-> k0, v |-> v0]
      BY <3>1
    <3>4. PICK r : r = [pc |-> "ok", kind |-> "more", k |-> k0, v |-> v0]  OBVIOUS
    <3>5. [r EXCEPT !.v = e] = [pc |-> "ok", kind |-> "more", k |-> k0, v |-> e]  BY <3>4
    <3>6. b = [r EXCEPT !.v = e]  BY <2>1, <3>3, <3>4
    <3> QED  BY <1>7, <3>2, <3>5, <3>6
  <2> QED  BY <2>2, <2>3
<1>9. IsMore(o) /\ o.k = a.k /\ o.v = e  BY <1>3, <1>5, <1>7 DEF IsMore
<1>10. log' >= log  BY <1>1
<1>11. \A y \in loads' : IsRequest(y) /\ TopRead(y)'  BY <1>1, <1>10, SameLoads
<1>12. AuditType'  BY <1>1, <1>8, <1>9, <1>11 DEF AuditType
<1>13. ASSUME "audit" \notin missed'  PROVE  ShownInv' /\ AwaitInv'
  <2>1. ShownInv /\ AwaitInv  BY <1>13, NotMissed
  <2>2. ShownInv'  BY <1>1, <2>1 DEF ShownInv
  <2>3. op'["audit"] # NoOp => \A x \in loads' : x.page # "audit"  BY <1>13, NotMissed
  <2>4. a.k = Len(AUD.entries) /\ AUD.entries # <<>>  BY <1>2, <1>3, <2>1 DEF AwaitInv
  <2>5. Unbroken(AUD.entries, log) /\ log \in 0..log  BY <1>1, <2>1, <2>4 DEF ShownInv
  <2>6. AwaitInv'  BY <1>1, <1>4, <1>8, <1>9, <2>3, <2>4, <2>5 DEF AwaitInv
  <2> QED  BY <2>2, <2>6
<1> QED  BY <1>12, <1>13

LEMMA AppendKeeps ==
  ASSUME "audit" \in List, AuditType, AppendEntries, Note,
         "audit" \notin missed => ShownInv /\ AwaitInv
  PROVE  AuditType' /\ ("audit" \notin missed' => ShownInv' /\ AwaitInv')
<1>1. log' = log /\ faults' = faults /\ loads' = loads /\ log \in Nat
  BY DEF AppendEntries, server, counts, AuditType
<1>2. PICK a : a = op["audit"]  OBVIOUS
<1>3. a.pc = "ok" /\ a # NoOp /\ a.v \in Seq(Int)
  BY <1>2 DEF AppendEntries, Returned, AuditType, NoOp, IsMore
<1>4. PICK s : s = AUD.entries  OBVIOUS
<1>5. s \in Seq(Int)  BY <1>4 DEF AuditType
<1>6. PICK w : w = s \o a.v  OBVIOUS
<1>7. AUD' = [entries |-> w, more |-> Len(a.v) >= PageSize]
  BY <1>2, <1>4, <1>6 DEF AppendEntries
<1>8. w \in Seq(Int) /\ Len(w) = Len(s) + Len(a.v)  BY <1>3, <1>5, <1>6, ConcatProperties
<1>9. AUD'.more => w # <<>>
  <2>1. PageSize \in Nat /\ PageSize >= 1  BY ListAssumption
  <2>2. Len(s) \in Nat /\ Len(a.v) \in Nat  BY <1>3, <1>5
  <2>3. AUD'.more => Len(a.v) >= PageSize  BY <1>7, Zenon
  <2>4. AUD'.more => Len(w) >= 1  BY <1>8, <2>1, <2>2, <2>3
  <2> QED  BY <2>4
<1>10. op'["audit"] = NoOp /\ op' = [l \in List |-> op'[l]]
  BY DEF AppendEntries, Returned, AuditType
<1>11. log' >= log  BY <1>1
<1>12. \A y \in loads' : IsRequest(y) /\ TopRead(y)'  BY <1>1, <1>11, SameLoads
<1>13. AuditType'  BY <1>1, <1>7, <1>8, <1>9, <1>10, <1>12 DEF AuditType
<1>14. ASSUME "audit" \notin missed'  PROVE  ShownInv' /\ AwaitInv'
  <2>1. AwaitInv  BY <1>14, NotMissed
  <2>2. s # <<>> /\ \E g \in 0..log : a.v = EntriesOf(g, Len(s)) /\ Unbroken(s, g)
    BY <1>2, <1>3, <1>4, <2>1 DEF AwaitInv
  <2>3. PICK g \in 0..log : a.v = EntriesOf(g, Len(s)) /\ Unbroken(s, g)  BY <2>2
  <2>4. g \in Nat /\ g <= log  BY <1>1
  <2>5. Unbroken(w, g) /\ (~(Len(a.v) >= PageSize) => 1 \in Rows(w))
    BY <1>5, <1>6, <2>2, <2>3, <2>4, NextPage
  <2>6. w # <<>> => Unbroken(w, log)  BY <1>1, <1>8, <2>4, <2>5, MoreLogged
  <2>7. ShownInv'  BY <1>1, <1>7, <2>5, <2>6 DEF ShownInv
  <2>8. AwaitInv'  BY <1>10 DEF AwaitInv
  <2> QED  BY <2>7, <2>8
<1> QED  BY <1>13, <1>14

(* a call without an answer marks the list *)
LEMMA AuditFailsKeeps ==
  ASSUME "audit" \in List, AuditType, OpFails("audit"), Note
  PROVE  AuditType' /\ "audit" \in missed'
<1>1. log' = log /\ loads' = loads /\ log \in Nat /\ faults \in Nat
  BY DEF OpFails, server, AuditType
<1>2. op["audit"] # NoOp /\ op["audit"].pc # "gone"  BY DEF OpFails, AuditType, IsMore
<1>3. faults' = faults + 1  BY <1>2 DEF OpFails
<1>4. faults' \in Nat /\ faults' # faults  BY <1>1, <1>3
<1>5. op'["audit"] = NoOp /\ op' = [l \in List |-> op'[l]]  BY DEF OpFails, AuditType
<1>6. AUD' = [AUD EXCEPT !.more = FALSE]  BY DEF OpFails
<1>7. AUD' = [entries |-> AUD'.entries, more |-> AUD'.more] /\ ~AUD'.more
      /\ AUD'.entries = AUD.entries
  BY <1>6 DEF AuditType
<1>8. log' >= log  BY <1>1
<1>9. \A y \in loads' : IsRequest(y) /\ TopRead(y)'  BY <1>1, <1>8, SameLoads
<1>10. AuditType'  BY <1>1, <1>4, <1>5, <1>7, <1>9 DEF AuditType
<1> QED  BY <1>2, <1>4, <1>5, <1>10, NotMissed

LEMMA LandAuditKeeps ==
  ASSUME "audit" \in List, AuditType, Note, NEW x \in loads, LandPage(x), x.page = "audit",
         "audit" \notin missed => ShownInv /\ AwaitInv
  PROVE  AuditType' /\ ("audit" \notin missed' => ShownInv' /\ AwaitInv')
<1>1. log' = log /\ faults' = faults /\ op' = op /\ log \in Nat
  BY DEF LandPage, server, counts, AuditType
<1>2. PICK g \in 0..log : x.data = EntriesOf(g, 0)  BY DEF AuditType, TopRead, LandPage
<1>3. g \in Nat /\ g <= log  BY <1>1
<1>4. PICK s : s = x.data  OBVIOUS
<1>5. s \in Seq(Int) /\ s = EntriesOf(g, 0)  BY <1>2, <1>3, <1>4, EntriesAre
<1>6. AUD' = [entries |-> s, more |-> Len(s) >= PageSize]  BY <1>4 DEF LandPage
<1>7. AUD'.more => s # <<>>
  <2>1. PageSize \in Nat /\ PageSize >= 1 /\ Len(s) \in Nat  BY <1>5, ListAssumption
  <2>2. AUD'.more => Len(s) >= PageSize  BY <1>6, Zenon
  <2> QED  BY <2>1, <2>2
<1>8. ASSUME NEW z \in loads'  PROVE  IsRequest(z) /\ TopRead(z)'
  <2>1. PICK y \in loads :
          z = [y EXCEPT !.kind = IF y.page = x.page /\ @ # "page" THEN "dead" ELSE @]
    BY <1>8 DEF LandPage
  <2>2. IsRequest(y) /\ TopRead(y)  BY DEF AuditType
  <2>3. PICK c : c = IF y.page = x.page /\ y.kind # "page" THEN "dead" ELSE y.kind  OBVIOUS
  <2>4. z = [y EXCEPT !.kind = c]  BY <2>1, <2>3
  <2>5. IsRequest(z) /\ z.page = y.page /\ z.pc = y.pc /\ z.data = y.data
    BY <2>2, <2>4 DEF IsRequest
  <2> QED  BY <1>1, <2>2, <2>5 DEF TopRead
<1>9. AuditType'  BY <1>1, <1>5, <1>6, <1>7, <1>8 DEF AuditType
<1>10. ASSUME "audit" \notin missed'  PROVE  ShownInv' /\ AwaitInv'
  <2>1. AwaitInv  BY <1>10, NotMissed
  <2>2. op["audit"] = NoOp  BY <2>1 DEF AwaitInv
  <2>3. s # <<>> => Unbroken(s, g) /\ (~(Len(s) >= PageSize) => 1 \in Rows(s))
    BY <1>3, <1>5, FirstPage
  <2>4. s # <<>> => Unbroken(s, log)  BY <1>1, <1>3, <1>5, <2>3, MoreLogged
  <2>5. ShownInv'  BY <1>1, <1>6, <2>3, <2>4 DEF ShownInv
  <2>6. AwaitInv'  BY <1>1, <2>2 DEF AwaitInv
  <2> QED  BY <2>5, <2>6
<1> QED  BY <1>9, <1>10

LEMMA AuditStep == AuditInv /\ [Next]_vars => AuditInv'
<1> SUFFICES ASSUME AuditInv, [Next]_vars, "audit" \in List
             PROVE  AuditType' /\ ("audit" \notin missed' => ShownInv' /\ AwaitInv')
  BY DEF AuditInv
<1>1. AuditType /\ ("audit" \notin missed => ShownInv /\ AwaitInv)  BY DEF AuditInv
<1>2. CASE UNCHANGED vars
  BY <1>1, <1>2 DEF vars, page, server, memory, counts, AuditType, TopRead, ShownInv, AwaitInv
<1>3. CASE Next
  <2>1. Note  BY <1>3 DEF Next
  <2>2. CASE Apart  BY <1>1, <2>1, <2>2, ApartKeeps
  <2>3. CASE LoadMore  BY <1>1, <2>1, <2>3, LoadMoreKeeps
  <2>4. CASE ServeMore  BY <1>1, <2>1, <2>4, ServeMoreKeeps
  <2>5. CASE AppendEntries  BY <1>1, <2>1, <2>5, AppendKeeps
  <2>6. CASE OpFails("audit")  BY <1>1, <2>1, <2>6, AuditFailsKeeps
  <2>7. ASSUME NEW x \in loads, LandPage(x), x.page = "audit"
        PROVE  AuditType' /\ ("audit" \notin missed' => ShownInv' /\ AwaitInv')
    BY <1>1, <2>1, <2>7, LandAuditKeeps
  <2> QED  BY <1>1, <1>3, <2>2, <2>3, <2>4, <2>5, <2>6, <2>7, StepsOfAudit
<1> QED  BY <1>2, <1>3

(***************************************************************************)
(* The audit page fetches by offset while entries are added at the top     *)
(* (loadMore's offset is AUD.entries.length): what it shows has no gap,    *)
(* and once the button is gone it reaches the oldest entry, unless an      *)
(* answer was lost or the page was opened again during a call.             *)
(***************************************************************************)
THEOREM AuditHasNoGap == Spec => []AuditComplete
<1>1. AuditInv => AuditComplete
  BY DEF AuditInv, AuditComplete, ShownInv, Unbroken
<1> QED  BY <1>1, AuditInit, AuditStep, PTL DEF Spec
-----------------------------------------------------------------------------
(***************************************************************************)
(* Iteration.  Filtered is a recursive function over the number of rows    *)
(* read: such a function exists, and what step 0 has and each step passes  *)
(* on, all have.                                                           *)
(***************************************************************************)
(* A set of numbers has a least one. *)
LEMMA Least ==
  ASSUME NEW T, T \in SUBSET Nat, T # {}
  PROVE  \E n \in T : \A k \in T : n <= k
<1> DEFINE R == {ss \in Nat \X Nat : ss[1] < ss[2]}
<1>1. IsWellFoundedOn(R, Nat)
  BY NatLessThanWellFounded DEF OpToRel
<1> HIDE DEF R
<1>2. PICK x \in T : \A y \in T : ~(<<y, x>> \in R)
  BY <1>1, WFMin
<1>3. ASSUME NEW y \in T PROVE x <= y
  <2>1. x \in Nat /\ y \in Nat
    OBVIOUS
  <2>2. ~(y < x)
    <3>1. y < x => <<y, x>> \in R
      BY <2>1 DEF R
    <3> QED BY <1>2, <3>1
  <2> QED BY <2>1, <2>2
<1> QED BY <1>3

(* the first n steps of iterating g from a: step i gets i and what step i - 1 made *)
Chain(S, g, a, n, f) ==
  f \in [0..n -> S] /\ f[0] = a /\ \A i \in 1..n : f[i] = g[<<i, f[i - 1]>>]

(* there are, for every step function and every number *)
LEMMA Iteration ==
  ASSUME NEW S, NEW g \in [Nat \X S -> S], NEW a \in S
  PROVE  \A n \in Nat : \E f : Chain(S, g, a, n, f)
<1> DEFINE P(n, f) == Chain(S, g, a, n, f)
           T == {n \in Nat : ~ \E f : P(n, f)}
<1> USE DEF Chain
<1>1. T = {}
  <2>1. SUFFICES ASSUME T # {} PROVE FALSE
    OBVIOUS
  <2>2. PICK n \in T : \A k \in T : n <= k
    BY <2>1, Least
  <2>3. CASE n = 0
    <3>1. P(0, [i \in 0..0 |-> a])
      OBVIOUS
    <3> QED BY <3>1, <2>3
  <2>4. CASE n # 0
    <3>1. n - 1 \in Nat /\ n - 1 \notin T
      BY <2>2, <2>4
    <3>2. PICK f : P(n - 1, f)
      BY <3>1
    <3>3. P(n, [i \in 0..n |-> IF i = n THEN g[<<n, f[n - 1]>>] ELSE f[i]])
      <4> DEFINE h == [i \in 0..n |-> IF i = n THEN g[<<n, f[n - 1]>>] ELSE f[i]]
      <4>0. n \in Nat /\ n - 1 \in 0..(n-1)
        BY <3>1
      <4>1. f[n - 1] \in S
        BY <3>2, <4>0
      <4>2. h \in [0..n -> S]
        BY <4>1, <3>2, <4>0
      <4>3. h[0] = a
        BY <2>4, <3>2, <4>0
      <4>4. ASSUME NEW i \in 1..n PROVE h[i] = g[<<i, h[i - 1]>>]
        <5>1. i - 1 \in 0..n /\ i - 1 # n /\ h[i - 1] = f[i - 1]
          BY <4>0
        <5>2. CASE i = n
          BY <5>1, <5>2, <4>0
        <5>3. CASE i # n
          <6>1. i \in 1..(n - 1)
            BY <5>3, <4>0
          <6> QED BY <6>1, <5>1, <5>3, <3>2, <4>0
        <5> QED BY <5>2, <5>3
      <4> QED BY <4>2, <4>3, <4>4
    <3> QED BY <3>3
  <2> QED BY <2>3, <2>4
<1> QED BY <1>1

(* What step 0 has and each step passes on, all steps have. *)
LEMMA UpTo ==
  ASSUME NEW n \in Nat, NEW T, 0 \in T, \A i \in 1..n : i - 1 \in T => i \in T
  PROVE  \A i \in 0..n : i \in T
<1> DEFINE W == {i \in 0..n : i \notin T}
<1>1. SUFFICES ASSUME W # {} PROVE FALSE
  OBVIOUS
<1>2. W \in SUBSET Nat
  OBVIOUS
<1>3. PICK i \in W : \A k \in W : i <= k
  <2> HIDE DEF W
  <2> QED BY <1>1, <1>2, Least
<1>4. i \in 1..n
  BY <1>3
<1>5. i - 1 \in 0..n /\ ~(i <= i - 1)
  BY <1>4
<1> QED BY <1>3, <1>4, <1>5

-----------------------------------------------------------------------------
(***************************************************************************)
(* Lists in order.                                                         *)
(***************************************************************************)
Row == Nat \X Val

(* c has one row for each key of K, in order *)
Lists(c, K, d) ==
  /\ c \in Seq(Row) /\ Keys(c) = K
  /\ \A i, j \in 1..Len(c) : i < j => IF d THEN c[i][1] > c[j][1] ELSE c[i][1] < c[j][1]

LEMMA KeysOf ==
  ASSUME NEW c, NEW k
  PROVE  k \in Keys(c) <=> \E i \in 1..Len(c) : c[i][1] = k
BY DEF Keys, Rows

(* the order leaves no choice *)
LEMMA OrderHalf ==
  ASSUME NEW d, NEW K, NEW c, NEW e, Lists(c, K, d), Lists(e, K, d)
  PROVE  Len(c) <= Len(e) /\ \A i \in 1..Len(c) : c[i][1] = e[i][1]
<1>1. PICK n \in Nat, m \in Nat : n = Len(c) /\ m = Len(e)
  BY DEF Lists
<1>2. /\ \A i \in 1..n : c[i][1] \in Nat
      /\ \A i \in 1..m : e[i][1] \in Nat
  BY <1>1 DEF Lists, Row
<1>3. /\ \A i, j \in 1..n : i < j => IF d THEN c[i][1] > c[j][1] ELSE c[i][1] < c[j][1]
      /\ \A i, j \in 1..m : i < j => IF d THEN e[i][1] > e[j][1] ELSE e[i][1] < e[j][1]
  BY <1>1 DEF Lists
<1>4. /\ \A i \in 1..n : \E j \in 1..m : e[j][1] = c[i][1]
      /\ \A j \in 1..m : \E i \in 1..n : c[i][1] = e[j][1]
  <2>1. Keys(c) = K /\ Keys(e) = K
    BY DEF Lists
  <2>2. \A k : k \in K <=> \E i \in 1..n : c[i][1] = k
    BY <1>1, <2>1, KeysOf
  <2>3. \A k : k \in K <=> \E i \in 1..m : e[i][1] = k
    BY <1>1, <2>1, KeysOf
  <2> QED BY <2>2, <2>3
<1>5. /\ \A i, j \in 1..n : i < j => c[i][1] # c[j][1]
      /\ \A i, j \in 1..m : i < j => e[i][1] # e[j][1]
  BY <1>2, <1>3
<1> DEFINE T == {i \in 0..n : i <= m /\ \A h \in 1..i : c[h][1] = e[h][1]}
<1>6. 0 \in T
  OBVIOUS
<1>7. ASSUME NEW i \in 1..n, i - 1 \in T PROVE i \in T
  <2>1. \A h \in 1..(i - 1) : h \in 1..n /\ h \in 1..m /\ c[h][1] = e[h][1] /\ h < i
    BY <1>7
  <2>2. PICK j \in 1..m : e[j][1] = c[i][1]
    BY <1>4
  <2>3. j >= i
    <3>1. SUFFICES ASSUME j \in 1..(i - 1) PROVE FALSE
      OBVIOUS
    <3> QED BY <1>5, <2>1, <2>2, <3>1
  <2>4. i \in 1..m
    BY <2>3
  <2>5. PICK p \in 1..n : c[p][1] = e[i][1]
    BY <1>4, <2>4
  <2>6. p >= i
    <3>1. SUFFICES ASSUME p \in 1..(i - 1) PROVE FALSE
      OBVIOUS
    <3> QED BY <1>5, <2>1, <2>4, <2>5, <3>1
  <2>7. c[i][1] = e[i][1]
    <3>1. SUFFICES ASSUME j > i, p > i PROVE FALSE
      BY <2>2, <2>3, <2>5, <2>6
    <3>2. PICK x \in Nat, y \in Nat : x = c[i][1] /\ y = e[i][1]
      BY <1>2, <2>4
    <3>3. c[p][1] = y /\ e[j][1] = x
      BY <2>2, <2>5, <3>2
    <3>4. CASE d
      <4>1. x > y /\ y > x
        BY <1>3, <2>4, <3>1, <3>2, <3>3, <3>4
      <4> QED BY <4>1
    <3>5. CASE ~d
      <4>1. x < y /\ y < x
        BY <1>3, <2>4, <3>1, <3>2, <3>3, <3>5
      <4> QED BY <4>1
    <3> QED BY <3>4, <3>5
  <2>8. \A h \in 1..i : h = i \/ h \in 1..(i - 1)
    OBVIOUS
  <2>9. \A h \in 1..i : c[h][1] = e[h][1]
    BY <2>1, <2>7, <2>8
  <2> QED BY <2>4, <2>9
<1> HIDE DEF T
<1>8. \A i \in 0..n : i \in T
  BY <1>6, <1>7, UpTo
<1>9. n \in T
  BY <1>8
<1> QED BY <1>1, <1>9 DEF T

LEMMA OneOrder ==
  ASSUME NEW d, NEW K, NEW c, NEW e, Lists(c, K, d), Lists(e, K, d)
  PROVE  Len(c) = Len(e) /\ \A i \in 1..Len(c) : c[i][1] = e[i][1]
<1>1. Len(c) \in Nat /\ Len(e) \in Nat
  BY DEF Lists
<1>2. Len(c) <= Len(e) /\ Len(e) <= Len(c)
  BY OrderHalf
<1> QED BY <1>1, <1>2, OrderHalf

(* what is in order is what Sorted finds *)
LEMMA SortedLists ==
  ASSUME NEW d, NEW S, S \subseteq Row, NEW c, NEW K, Lists(c, K, d), Rows(c) = S
  PROVE  Lists(Sorted(S, d), K, d) /\ Rows(Sorted(S, d)) = S
<1>1. PICK n \in Nat : n = Len(c)
  BY DEF Lists
<1>2. c \in [1..n -> S]
  BY <1>1 DEF Rows, Lists
<1>3. \A i \in 1..n : c[i][1] \in Nat
  BY <1>1 DEF Lists, Row
<1>4. \A i, j \in 1..n : i < j => IF d THEN c[i][1] > c[j][1] ELSE c[i][1] < c[j][1]
  BY <1>1 DEF Lists
<1>5. \A i, j \in 1..n : i < j => c[i] # c[j]
  BY <1>3, <1>4
<1>6. n = Cardinality(S)
  <2>1. \A i, j \in 1..n : c[i] = c[j] => i = j
    BY <1>5
  <2>2. c \in Bijection(1..n, S)
    <3>1. \A x \in S : \E i \in 1..n : c[i] = x
      BY <1>1 DEF Rows
    <3>2. IsInjective(c)
      <4>1. DOMAIN c = 1..n
        BY <1>2
      <4> QED BY <2>1, <4>1 DEF IsInjective
    <3> QED BY <1>2, <3>1, <3>2 DEF Bijection, Injection, Surjection
  <2>3. ExistsBijection(1..n, S)
    BY <2>2 DEF ExistsBijection
  <2> QED BY <2>3, FS_CountingElements
<1> DEFINE P(s) == /\ Rows(s) = S
                   /\ \A i, j \in DOMAIN s : i < j => IF d THEN s[i][1] > s[j][1] ELSE s[i][1] < s[j][1]
<1>7. P(c)
  <2>1. DOMAIN c = 1..n
    BY <1>2
  <2> QED BY <1>4, <2>1
<1>8. PICK t : t = Sorted(S, d)
  OBVIOUS
<1>9. t = CHOOSE s \in [1..n -> S] : P(s)
  BY <1>6, <1>8 DEF Sorted
<1> HIDE DEF P
<1>10. t \in [1..n -> S] /\ P(t)
  BY <1>2, <1>7, <1>9
<1>11. t \in Seq(Row) /\ Len(t) = n /\ DOMAIN t = 1..n
  BY <1>10
<1>12. Rows(t) = S /\ \A i, j \in 1..n : i < j => IF d THEN t[i][1] > t[j][1] ELSE t[i][1] < t[j][1]
  BY <1>10, <1>11 DEF P
<1>13. Keys(t) = K
  BY <1>12 DEF Lists, Keys
<1> QED BY <1>8, <1>11, <1>12, <1>13 DEF Lists

(* c lists the keys of f with their rows *)
ListsOf(c, f, d) == Lists(c, DOMAIN f, d) /\ \A r \in Rows(c) : r[2] = f[r[1]]

LEMMA RowsOfList ==
  ASSUME NEW d, NEW f, NEW c, ListsOf(c, f, d)
  PROVE  Rows(c) = {<<k, f[k]>> : k \in DOMAIN f} /\ Rows(c) \subseteq Row
<1>1. c \in Seq(Row) /\ Keys(c) = DOMAIN f /\ \A r \in Rows(c) : r[2] = f[r[1]]
  BY DEF ListsOf, Lists
<1>2. ASSUME NEW r \in Rows(c) PROVE r \in Row /\ r = <<r[1], r[2]>> /\ r[1] \in DOMAIN f
  <2>1. r \in Row
    BY <1>1 DEF Rows
  <2> QED BY <1>1, <2>1 DEF Row, Keys
<1>3. ASSUME NEW k \in DOMAIN f PROVE <<k, f[k]>> \in Rows(c)
  <2>1. PICK r \in Rows(c) : r[1] = k
    BY <1>1 DEF Keys
  <2> QED BY <1>1, <1>2, <2>1
<1> QED BY <1>1, <1>2, <1>3

(* k comes after all of K *)
Above(k, K) == \A j \in K : j < k

(* t has the rows of c and one for k *)
Adds(t, c, K, k, v, d) == Lists(t, K \cup {k}, d) /\ Rows(t) = Rows(c) \cup {<<k, v>>}

(* c with a row put at its end *)
LEMMA LastRow ==
  ASSUME NEW K, NEW c, Lists(c, K, FALSE), NEW k \in Nat, NEW v \in Val, Above(k, K),
         NEW t, t = Append(c, <<k, v>>)
  PROVE  Adds(t, c, K, k, v, FALSE)
<1>1. PICK n \in Nat : n = Len(c)
  BY DEF Lists
<1>2. c \in Seq(Row) /\ Keys(c) = K
  BY DEF Lists
<1>3. PICK r \in Row : r = <<k, v>> /\ r[1] = k
  <2>1. <<k, v>> \in Row
    BY DEF Row
  <2> QED BY <2>1
<1>4. /\ t \in Seq(Row) /\ Len(t) = n + 1 /\ t[n + 1] = r
      /\ \A i \in 1..n : t[i] = c[i]
  BY <1>1, <1>2, <1>3
<1>5. \A i \in 1..(n + 1) : i \in 1..n \/ i = n + 1
  OBVIOUS
<1>6. n + 1 \in 1..(n + 1) /\ \A i \in 1..n : i \in 1..(n + 1)
  OBVIOUS
<1>7. Rows(t) = Rows(c) \cup {r}
  <2>1. ASSUME NEW x \in Rows(t) PROVE x \in Rows(c) \cup {r}
    BY <1>1, <1>4, <1>5 DEF Rows
  <2>2. ASSUME NEW x \in Rows(c) PROVE x \in Rows(t)
    BY <1>1, <1>4, <1>6 DEF Rows
  <2>3. r \in Rows(t)
    BY <1>4, <1>6 DEF Rows
  <2> QED BY <2>1, <2>2, <2>3
<1>8. Keys(t) = K \cup {k}
  BY <1>2, <1>3, <1>7 DEF Keys
<1>9. ASSUME NEW i \in 1..(n + 1), NEW j \in 1..(n + 1), i < j PROVE t[i][1] < t[j][1]
  <2>1. i \in 1..n
    BY <1>9
  <2>2. CASE j \in 1..n
    <3>1. \A x, y \in 1..n : x < y => c[x][1] < c[y][1]
      BY <1>1 DEF Lists
    <3> QED BY <1>4, <1>9, <2>1, <2>2, <3>1
  <2>3. CASE j = n + 1
    <3>1. c[i][1] \in K
      BY <1>1, <1>2, <2>1, KeysOf
    <3> QED BY <1>3, <1>4, <2>1, <2>3, <3>1 DEF Above
  <2> QED BY <1>5, <2>2, <2>3
<1> QED BY <1>3, <1>4, <1>7, <1>8, <1>9 DEF Lists, Adds

(* c with a row put first: unshift *)
LEMMA FirstRow ==
  ASSUME NEW K, NEW c, Lists(c, K, TRUE), NEW k \in Nat, NEW v \in Val, Above(k, K),
         NEW t, t = <<<<k, v>>>> \o c
  PROVE  Adds(t, c, K, k, v, TRUE)
<1>1. PICK n \in Nat : n = Len(c)
  BY DEF Lists
<1>2. c \in Seq(Row) /\ Keys(c) = K
  BY DEF Lists
<1>3. PICK r \in Row : r = <<k, v>> /\ r[1] = k
  <2>1. <<k, v>> \in Row
    BY DEF Row
  <2> QED BY <2>1
<1>4. /\ t \in Seq(Row) /\ Len(t) = n + 1
      /\ \A i \in 1..(n + 1) : t[i] = IF i = 1 THEN r ELSE c[i - 1]
  <2>1. PICK q \in Seq(Row) : q = <<r>> /\ Len(q) = 1 /\ q[1] = r
    <3>1. <<r>> \in Seq(Row)
      OBVIOUS
    <3> QED BY <3>1
  <2>2. t = q \o c
    BY <1>3, <2>1
  <2> QED BY <1>1, <1>2, <2>1, <2>2
<1>5. t[1] = r /\ 1 \in 1..(n + 1) /\ \A i \in 1..n : t[i + 1] = c[i] /\ i + 1 \in 1..(n + 1)
  BY <1>4
<1>7. Rows(t) = Rows(c) \cup {r}
  <2>1. ASSUME NEW x \in Rows(t) PROVE x \in Rows(c) \cup {r}
    <3>1. PICK i \in 1..(n + 1) : x = t[i]
      BY <1>4 DEF Rows
    <3>2. i = 1 \/ (i - 1 \in 1..n /\ t[i] = c[i - 1])
      BY <1>4
    <3> QED BY <1>1, <1>5, <3>1, <3>2, RowsOf
  <2>2. ASSUME NEW x \in Rows(c) PROVE x \in Rows(t)
    <3>1. PICK i \in 1..n : x = c[i]
      BY <1>1 DEF Rows
    <3> QED BY <1>4, <1>5, <3>1 DEF Rows
  <2>3. r \in Rows(t)
    BY <1>4, <1>5 DEF Rows
  <2> QED BY <2>1, <2>2, <2>3
<1>8. Keys(t) = K \cup {k}
  BY <1>2, <1>3, <1>7 DEF Keys
<1>9. ASSUME NEW i \in 1..(n + 1), NEW j \in 1..(n + 1), i < j PROVE t[i][1] > t[j][1]
  <2>1. j - 1 \in 1..n /\ j # 1 /\ t[j] = c[j - 1]
    BY <1>4, <1>9
  <2>2. CASE i = 1
    <3>1. c[j - 1][1] \in K
      BY <1>1, <1>2, <2>1, KeysOf
    <3>2. c[j - 1][1] < k /\ c[j - 1][1] \in Nat
      <4>1. c[j - 1] \in Row
        BY <1>1, <1>2, <2>1
      <4> QED BY <3>1, <4>1 DEF Row, Above
    <3> QED BY <1>3, <1>5, <2>1, <2>2, <3>2
  <2>3. CASE i # 1
    <3>1. i - 1 \in 1..n /\ t[i] = c[i - 1] /\ i - 1 < j - 1
      BY <1>4, <1>9, <2>3
    <3>2. \A x, y \in 1..n : x < y => c[x][1] > c[y][1]
      BY <1>1 DEF Lists
    <3> QED BY <2>1, <3>1, <3>2
  <2> QED BY <2>2, <2>3
<1> QED BY <1>3, <1>4, <1>7, <1>8, <1>9 DEF Lists, Adds

(* every set of keys with a bound is listed *)
LEMMA Listable ==
  ASSUME NEW d \in BOOLEAN, NEW b \in Nat, NEW D \in SUBSET (1..b), NEW f \in [D -> Val]
  PROVE  \E c : ListsOf(c, f, d)
<1> DEFINE L(c, i) == Lists(c, D \cap (1..i), d) /\ \A r \in Rows(c) : r[2] = f[r[1]]
           T == {i \in 0..b : \E c : L(c, i)}
<1>1. 0 \in T
  <2>1. PICK c : c = <<>>
    OBVIOUS
  <2>2. c \in Seq(Row) /\ Len(c) = 0 /\ \A h : h \notin 1..Len(c)
    BY <2>1
  <2>3. Keys(c) = {} /\ Rows(c) = {}
    BY <2>2 DEF Keys, Rows
  <2>4. D \cap (1..0) = {}
    OBVIOUS
  <2>5. L(c, 0)
    BY <2>2, <2>3, <2>4 DEF Lists
  <2> QED BY <2>5
<1>2. ASSUME NEW i \in 1..b, i - 1 \in T PROVE i \in T
  <2>1. PICK c : L(c, i - 1)
    BY <1>2
  <2>2. CASE i \notin D
    <3>1. D \cap (1..i) = D \cap (1..(i - 1))
      BY <2>2
    <3>2. L(c, i)
      BY <2>1, <3>1
    <3> QED BY <3>2
  <2>3. CASE i \in D
    <3>1. D \cap (1..i) = (D \cap (1..(i - 1))) \cup {i}
      BY <2>3
    <3>2. PICK v \in Val : v = f[i]
      BY <2>3
    <3>3. PICK K : K = D \cap (1..(i - 1))
      OBVIOUS
    <3>4. Above(i, K) /\ i \in Nat
      BY <3>3 DEF Above
    <3>5. \E t : Adds(t, c, K, i, v, d)
      <4>1. CASE d = FALSE
        <5>1. Lists(c, K, FALSE)
          BY <2>1, <3>3, <4>1
        <5>2. PICK t : t = Append(c, <<i, v>>)
          OBVIOUS
        <5>3. Adds(t, c, K, i, v, FALSE)
          BY ONLY <3>4, <5>1, <5>2, v \in Val, LastRow
        <5> QED BY <4>1, <5>3
      <4>2. CASE d = TRUE
        <5>1. Lists(c, K, TRUE)
          BY <2>1, <3>3, <4>2
        <5>2. PICK t : t = <<<<i, v>>>> \o c
          OBVIOUS
        <5>3. Adds(t, c, K, i, v, TRUE)
          BY ONLY <3>4, <5>1, <5>2, v \in Val, FirstRow
        <5> QED BY <4>2, <5>3
      <4> QED BY <4>1, <4>2
    <3>6. PICK t : Lists(t, K \cup {i}, d) /\ Rows(t) = Rows(c) \cup {<<i, v>>}
      BY <3>5 DEF Adds
    <3>7. \A r \in Rows(t) : r[2] = f[r[1]]
      <4>1. \A r \in Rows(c) : r[2] = f[r[1]]
        BY <2>1
      <4> QED BY <3>2, <3>6, <4>1
    <3>8. L(t, i)
      BY <3>1, <3>3, <3>6, <3>7
    <3> QED BY <3>8
  <2> QED BY <2>2, <2>3
<1> HIDE DEF T
<1>3. \A i \in 0..b : i \in T
  BY <1>1, <1>2, UpTo
<1>4. PICK c : L(c, b)
  <2>1. b \in T
    BY <1>3
  <2> QED BY <2>1 DEF T
<1>5. D \cap (1..b) = DOMAIN f
  OBVIOUS
<1>6. ListsOf(c, f, d)
  BY <1>4, <1>5 DEF ListsOf
<1> QED BY <1>6

(* Sorted orders the rows of f *)
LEMMA SortedIs ==
  ASSUME NEW d \in BOOLEAN, NEW b \in Nat, NEW D \in SUBSET (1..b), NEW f \in [D -> Val],
         NEW S, S = {<<k, f[k]>> : k \in DOMAIN f}
  PROVE  ListsOf(Sorted(S, d), f, d)
<1>1. PICK c : ListsOf(c, f, d)
  BY Listable
<1>3. Rows(c) = S /\ S \subseteq Row
  BY <1>1, RowsOfList
<1>4. Lists(c, DOMAIN f, d)
  BY <1>1 DEF ListsOf
<1>5. Lists(Sorted(S, d), DOMAIN f, d) /\ Rows(Sorted(S, d)) = S
  BY <1>3, <1>4, SortedLists
<1>6. \A r \in S : r[2] = f[r[1]]
  OBVIOUS
<1> QED BY <1>5, <1>6 DEF ListsOf

LEMMA ListingIs ==
  ASSUME NEW l, NEW b \in Nat, NEW D \in SUBSET (1..b), NEW f \in [D -> Val]
  PROVE  ListsOf(Listing(l, f), f, l = "tokens")
<1>1. PICK d \in BOOLEAN : d = (l = "tokens")
  OBVIOUS
<1>2. PICK S : S = {<<k, f[k]>> : k \in DOMAIN f}
  OBVIOUS
<1>3. ListsOf(Sorted(S, d), f, d)
  BY <1>2, SortedIs
<1> QED BY <1>1, <1>2, <1>3 DEF Listing

-----------------------------------------------------------------------------
(***************************************************************************)
(* What a patch makes of a list: Patches(t, c, k, v) is a list with the    *)
(* row of k replaced or added, Drops one with the row of k gone.           *)
(***************************************************************************)
Same(t, c, k) == \A r \in Rows(t) : r[1] # k => r \in Rows(c)

Patches(t, c, K, k, v, d) ==
  Lists(t, K \cup {k}, d) /\ Same(t, c, k) /\ \A r \in Rows(t) : r[1] = k => r[2] = v

Drops(t, c, K, k, d) == Lists(t, K \ {k}, d) /\ Same(t, c, k)

LEMMA RowOfList ==
  ASSUME NEW c, NEW K, NEW d, Lists(c, K, d), NEW r \in Rows(c)
  PROVE  r \in Row /\ r[1] \in Nat /\ r[2] \in Val /\ r[1] \in K /\ r = <<r[1], r[2]>>
<1>1. r \in Row
  BY DEF Rows, Lists
<1> QED BY <1>1 DEF Lists, Row, Keys

(* a key has one row *)
LEMMA OneRow ==
  ASSUME NEW c, NEW K, NEW d, Lists(c, K, d), NEW r \in Rows(c), NEW s \in Rows(c), r[1] = s[1]
  PROVE  r = s
<1>1. PICK n \in Nat : n = Len(c)
  BY DEF Lists
<1>2. PICK i \in 1..n, j \in 1..n : r = c[i] /\ s = c[j]
  BY <1>1 DEF Rows
<1>3. \A x \in 1..n : c[x][1] \in Nat
  BY <1>1 DEF Lists, Row
<1>4. \A x, y \in 1..n : x < y => IF d THEN c[x][1] > c[y][1] ELSE c[x][1] < c[y][1]
  BY <1>1 DEF Lists
<1>5. \A x, y \in 1..n : x < y => c[x][1] # c[y][1]
  BY <1>3, <1>4
<1>6. i = j
  BY <1>2, <1>5
<1> QED BY <1>2, <1>6

LEMMA AddsPatches ==
  ASSUME NEW t, NEW c, NEW K, NEW k, NEW v, NEW d, Adds(t, c, K, k, v, d),
         \A r \in Rows(c) : r[1] # k
  PROVE  Patches(t, c, K, k, v, d)
<1>1. PICK q : q = <<k, v>> /\ q[1] = k /\ q[2] = v
  <2>1. PICK q : q = <<k, v>>
    OBVIOUS
  <2>2. q[1] = k /\ q[2] = v
    BY <2>1
  <2> QED BY <2>1, <2>2
<1>2. Lists(t, K \cup {k}, d) /\ Rows(t) = Rows(c) \cup {q}
  BY <1>1 DEF Adds
<1>3. ASSUME NEW r \in Rows(t) PROVE (r[1] # k => r \in Rows(c)) /\ (r[1] = k => r[2] = v)
  <2>1. CASE r = q
    BY <1>1, <2>1
  <2>2. CASE r \in Rows(c)
    BY <2>2
  <2> QED BY <1>2, <2>1, <2>2
<1> QED BY <1>2, <1>3 DEF Patches, Same

(* unshift *)
LEMMA UnshiftedPatches ==
  ASSUME NEW c, NEW K, Lists(c, K, TRUE), NEW k \in Nat, NEW v \in Val, Above(k, K)
  PROVE  Patches(Unshifted(c, k, v), c, K, k, v, TRUE)
<1>1. PICK t : t = Unshifted(c, k, v)
  OBVIOUS
<1>2. t = <<<<k, v>>>> \o c
  BY <1>1 DEF Unshifted
<1>3. Adds(t, c, K, k, v, TRUE)
  BY <1>2, FirstRow
<1>4. k \notin K
  BY DEF Above
<1>5. \A r \in Rows(c) : r[1] # k
  BY <1>4, RowOfList
<1> QED BY <1>1, <1>3, <1>5, AddsPatches

(* the row is replaced where it is *)
LEMMA InPlacePatches ==
  ASSUME NEW c, NEW K, NEW d, Lists(c, K, d), NEW k \in Nat, NEW v \in Val, k \in K,
         NEW t, t = [i \in 1..Len(c) |-> IF c[i][1] = k THEN <<k, v>> ELSE c[i]]
  PROVE  Patches(t, c, K, k, v, d)
<1>1. PICK n \in Nat : n = Len(c)
  BY DEF Lists
<1>2. c \in Seq(Row) /\ Keys(c) = K
  BY DEF Lists
<1>3. PICK r \in Row : r = <<k, v>> /\ r[1] = k /\ r[2] = v
  <2>1. <<k, v>> \in Row
    BY DEF Row
  <2> QED BY <2>1
<1>4. t = [i \in 1..n |-> IF c[i][1] = k THEN r ELSE c[i]]
  BY <1>1, <1>3
<1>5. \A i \in 1..n : c[i] \in Row
  BY <1>1, <1>2
<1>6. t \in [1..n -> Row]
  BY <1>4, <1>5
<1>7. t \in Seq(Row) /\ Len(t) = n
  BY <1>6
<1>8. ASSUME NEW i \in 1..n PROVE t[i][1] = c[i][1] /\ t[i] = IF c[i][1] = k THEN r ELSE c[i]
  BY <1>3, <1>4
<1>9. Keys(t) = K
  <2>1. ASSUME NEW x PROVE x \in Keys(t) <=> x \in K
    <3>1. x \in Keys(c) <=> \E i \in 1..n : c[i][1] = x
      BY <1>1, KeysOf
    <3>2. x \in Keys(t) <=> \E i \in 1..n : t[i][1] = x
      BY <1>7, KeysOf
    <3> QED BY <1>2, <1>8, <3>1, <3>2
  <2> QED BY <2>1
<1>10. \A i, j \in 1..n : i < j => IF d THEN c[i][1] > c[j][1] ELSE c[i][1] < c[j][1]
  BY <1>1 DEF Lists
<1>11. \A i, j \in 1..n : i < j => IF d THEN t[i][1] > t[j][1] ELSE t[i][1] < t[j][1]
  BY <1>8, <1>10
<1>12. Lists(t, K, d)
  BY <1>7, <1>9, <1>11 DEF Lists
<1>13. ASSUME NEW x \in Rows(t) PROVE (x[1] # k => x \in Rows(c)) /\ (x[1] = k => x[2] = v)
  <2>1. PICK i \in 1..n : x = t[i]
    BY <1>7 DEF Rows
  <2>2. CASE c[i][1] = k
    BY <1>3, <1>8, <2>1, <2>2
  <2>3. CASE c[i][1] # k
    BY <1>1, <1>8, <2>1, <2>3, RowsOf
  <2> QED BY <2>2, <2>3
<1>14. K \cup {k} = K
  OBVIOUS
<1> QED BY <1>12, <1>13, <1>14 DEF Patches, Same

(* pushed and sorted *)
LEMMA PushedPatches ==
  ASSUME NEW c, NEW b \in Nat, NEW K \in SUBSET (1..b), Lists(c, K, FALSE),
         NEW k \in Nat \ {0}, NEW v \in Val, k \notin K,
         NEW S, S = Rows(c) \cup {<<k, v>>}
  PROVE  Patches(Sorted(S, FALSE), c, K, k, v, FALSE)
<1>1. PICK f : f = [x \in K \cup {k} |-> IF x = k THEN v ELSE (CHOOSE r \in Rows(c) : r[1] = x)[2]]
  OBVIOUS
<1>2. ASSUME NEW x \in K PROVE \E r \in Rows(c) : r[1] = x /\ f[x] = r[2] /\ r[2] \in Val /\ r = <<x, f[x]>>
  <2>1. \E r \in Rows(c) : r[1] = x
    BY DEF Lists, Keys
  <2>2. PICK r : r = CHOOSE s \in Rows(c) : s[1] = x
    OBVIOUS
  <2>3. r \in Rows(c) /\ r[1] = x
    BY <2>1, <2>2
  <2>4. f[x] = r[2]
    BY <1>1, <2>2
  <2>5. r = <<r[1], r[2]>> /\ r[2] \in Val
    BY <2>3, RowOfList
  <2> QED BY <2>3, <2>4, <2>5
<1>3. f[k] = v /\ DOMAIN f = K \cup {k}
  BY <1>1
<1>4. f \in [K \cup {k} -> Val]
  BY <1>1, <1>2, <1>3
<1>5. PICK e \in Nat : K \cup {k} \in SUBSET (1..e)
  <2>1. CASE k <= b
    <3>1. K \cup {k} \in SUBSET (1..b)
      BY <2>1
    <3> QED BY <3>1
  <2>2. CASE k > b
    <3>1. K \cup {k} \in SUBSET (1..k)
      BY <2>2
    <3> QED BY <3>1
  <2> QED BY <2>1, <2>2
<1>6. S = {<<x, f[x]>> : x \in DOMAIN f}
  <2>1. ASSUME NEW r \in Rows(c) PROVE r[1] \in K /\ r = <<r[1], f[r[1]]>>
    <3>1. r[1] \in K
      BY RowOfList
    <3>2. PICK s \in Rows(c) : s[1] = r[1] /\ s = <<r[1], f[r[1]]>>
      BY <1>2, <3>1
    <3>3. r = s
      BY <3>2, OneRow
    <3> QED BY <3>1, <3>2, <3>3
  <2>2. \A x \in K : <<x, f[x]>> \in Rows(c)
    BY <1>2
  <2> QED BY <1>3, <2>1, <2>2
<1>7. PICK t : t = Sorted(S, FALSE)
  OBVIOUS
<1>8. ListsOf(t, f, FALSE)
  <2>1. PICK D : D = K \cup {k}
    OBVIOUS
  <2>2. D \in SUBSET (1..e) /\ f \in [D -> Val]
    BY <1>4, <1>5, <2>1
  <2>3. PICK d \in BOOLEAN : d = FALSE
    OBVIOUS
  <2>4. ListsOf(Sorted(S, d), f, d)
    BY <1>6, <2>2, SortedIs
  <2> QED BY <1>7, <2>3, <2>4
<1>9. Lists(t, K \cup {k}, FALSE)
  BY <1>3, <1>8 DEF ListsOf
<1>10. Rows(t) = S
  BY <1>6, <1>8, RowsOfList
<1>11. \A r \in Rows(c) : r[1] # k
  BY RowOfList
<1>12. Adds(t, c, K, k, v, FALSE)
  BY <1>9, <1>10 DEF Adds
<1> QED BY <1>7, <1>11, <1>12, AddsPatches

LEMMA ReplacedPatches ==
  ASSUME NEW c, NEW b \in Nat, NEW K \in SUBSET (1..b), Lists(c, K, FALSE),
         NEW k \in Nat \ {0}, NEW v \in Val
  PROVE  Patches(Replaced(c, k, v), c, K, k, v, FALSE)
<1>1. (\E r \in Rows(c) : r[1] = k) <=> k \in K
  BY DEF Lists, Keys
<1>2. CASE k \in K
  <2>1. PICK t : t = [i \in 1..Len(c) |-> IF c[i][1] = k THEN <<k, v>> ELSE c[i]]
    OBVIOUS
  <2>2. Replaced(c, k, v) = t
    BY <1>1, <1>2, <2>1 DEF Replaced
  <2>3. Patches(t, c, K, k, v, FALSE)
    BY <1>2, <2>1, InPlacePatches
  <2> QED BY <2>2, <2>3
<1>3. CASE k \notin K
  <2>1. PICK S : S = Rows(c) \cup {<<k, v>>}
    OBVIOUS
  <2>2. Replaced(c, k, v) = Sorted(S, FALSE)
    BY <1>1, <1>3, <2>1 DEF Replaced
  <2>3. Patches(Sorted(S, FALSE), c, K, k, v, FALSE)
    BY <1>3, <2>1, PushedPatches
  <2> QED BY <2>2, <2>3
<1> QED BY <1>2, <1>3

(* the rows of u are those of t, a new default's mark taken from the others *)
Unmarks(u, t, k, v) ==
  \A r \in Rows(u) : \E s \in Rows(t) :
    r[1] = s[1] /\ r[2] = IF v = 2 /\ s[1] # k THEN 1 ELSE s[2]

LEMMA OneDefaultLists ==
  ASSUME NEW t, NEW K, NEW d, Lists(t, K, d), NEW k, NEW v, NEW u, u = OneDefault(t, k, v)
  PROVE  Lists(u, K, d) /\ Unmarks(u, t, k, v)
<1>1. PICK n \in Nat : n = Len(t)
  BY DEF Lists
<1>2. t \in Seq(Row) /\ Keys(t) = K
  BY DEF Lists
<1>3. u = [i \in 1..n |-> IF v = 2 /\ t[i][1] # k THEN <<t[i][1], 1>> ELSE t[i]]
  BY <1>1 DEF OneDefault
<1>4. ASSUME NEW i \in 1..n
      PROVE  /\ u[i] \in Row /\ u[i][1] = t[i][1]
             /\ u[i][2] = IF v = 2 /\ t[i][1] # k THEN 1 ELSE t[i][2]
  <2>1. t[i] \in Row /\ t[i][1] \in Nat
    BY <1>1, <1>2 DEF Row
  <2>2. CASE v = 2 /\ t[i][1] # k
    <3>1. u[i] = <<t[i][1], 1>>
      BY <1>3, <2>2
    <3>2. <<t[i][1], 1>> \in Row
      BY <2>1 DEF Row, Val
    <3> QED BY <2>2, <3>1, <3>2
  <2>3. CASE ~(v = 2 /\ t[i][1] # k)
    BY <1>3, <2>1, <2>3
  <2> QED BY <2>2, <2>3
<1>5. u \in [1..n -> Row]
  BY <1>3, <1>4
<1>6. u \in Seq(Row) /\ Len(u) = n
  BY <1>5
<1>7. Keys(u) = K
  <2>1. ASSUME NEW x PROVE x \in Keys(u) <=> x \in K
    <3>1. x \in Keys(t) <=> \E i \in 1..n : t[i][1] = x
      BY <1>1, KeysOf
    <3>2. x \in Keys(u) <=> \E i \in 1..n : u[i][1] = x
      BY <1>6, KeysOf
    <3> QED BY <1>2, <1>4, <3>1, <3>2
  <2> QED BY <2>1
<1>8. \A i, j \in 1..n : i < j => IF d THEN t[i][1] > t[j][1] ELSE t[i][1] < t[j][1]
  BY <1>1 DEF Lists
<1>9. \A i, j \in 1..n : i < j => IF d THEN u[i][1] > u[j][1] ELSE u[i][1] < u[j][1]
  BY <1>4, <1>8
<1>10. ASSUME NEW r \in Rows(u)
       PROVE  \E s \in Rows(t) : r[1] = s[1] /\ r[2] = IF v = 2 /\ s[1] # k THEN 1 ELSE s[2]
  <2>1. PICK i \in 1..n : r = u[i]
    BY <1>6 DEF Rows
  <2>2. t[i] \in Rows(t)
    BY <1>1, RowsOf
  <2> QED BY <1>4, <2>1, <2>2
<1> QED BY <1>6, <1>7, <1>9, <1>10 DEF Lists, Unmarks

FilterStep(c, k, i, x) == IF c[i][1] # k THEN Append(x, c[i]) ELSE x

FilterRuns(c, k, f) ==
  /\ f \in [0..Len(c) -> Seq(Row)] /\ f[0] = <<>>
  /\ \A i \in 1..Len(c) : f[i] = FilterStep(c, k, i, f[i - 1])

LEMMA FilterRun ==
  ASSUME NEW c \in Seq(Row), NEW k
  PROVE  \E f : FilterRuns(c, k, f) /\ Filtered(c, k) = f[Len(c)]
<1>0. PICK B : B = Seq(Row)
  OBVIOUS
<1> DEFINE g == [p \in Nat \X B |->
                   IF p[1] \in 1..Len(c) THEN FilterStep(c, k, p[1], p[2]) ELSE p[2]]
<1>1. PICK n \in Nat : n = Len(c)
  OBVIOUS
<1>2. PICK e \in B : e = <<>>
  <2>1. <<>> \in Seq(Row)
    OBVIOUS
  <2> QED BY <1>0, <2>1
<1>3. ASSUME NEW i \in 1..n, NEW x \in B PROVE FilterStep(c, k, i, x) \in B
  BY <1>0, <1>1 DEF FilterStep
<1>4. ASSUME NEW i \in 1..n, NEW x \in B PROVE g[<<i, x>>] = FilterStep(c, k, i, x)
  <2>1. <<i, x>> \in Nat \X B
    OBVIOUS
  <2> QED BY <2>1, <1>1
<1>5. g \in [Nat \X B -> B]
  BY <1>1, <1>3
<1> HIDE DEF g
<1>6. PICK h : Chain(B, g, e, n, h)
  BY <1>5, Iteration
<1> DEFINE F(x) == x = [i \in 0..n |-> IF i = 0 THEN e ELSE FilterStep(c, k, i, x[i - 1])]
<1>7. F(h)
  <2>1. h \in [0..n -> B] /\ h[0] = e
    BY <1>6 DEF Chain
  <2>2. ASSUME NEW i \in 1..n PROVE h[i] = FilterStep(c, k, i, h[i - 1])
    <3>1. h[i] = g[<<i, h[i - 1]>>] /\ h[i - 1] \in B
      BY <1>6 DEF Chain
    <3> QED BY <3>1, <1>4
  <2> QED BY <2>1, <2>2
<1>8. PICK y : F(y) /\ Filtered(c, k) = y[n]
  <2>1. F(CHOOSE x : F(x))
    BY <1>7
  <2>2. Filtered(c, k) = (CHOOSE x : F(x))[n]
    BY <1>1, <1>2 DEF Filtered, FilterStep
  <2> QED BY <2>1, <2>2
<1>9. y[0] = e /\ \A i \in 1..n : y[i] = FilterStep(c, k, i, y[i - 1])
  BY <1>8
<1>10. \A i \in 0..n : y[i] \in B
  <2> DEFINE T == {i \in 0..n : y[i] \in B}
  <2>1. 0 \in T
    BY <1>9
  <2>2. ASSUME NEW i \in 1..n, i - 1 \in T PROVE i \in T
    BY <2>2, <1>3, <1>9
  <2> HIDE DEF T
  <2>3. \A i \in 0..n : i \in T
    BY <2>1, <2>2, UpTo
  <2> QED BY <2>3 DEF T
<1>11. y \in [0..n -> B]
  BY <1>8, <1>10
<1> QED BY <1>0, <1>1, <1>2, <1>8, <1>9, <1>11 DEF FilterRuns

(* x is what Filtered has of the first i rows *)
Sifted(c, k, i, x, d) ==
  /\ \A p \in 1..Len(x) : \E q \in 1..i : x[p] = c[q] /\ c[q][1] # k
  /\ \A q \in 1..i : c[q][1] # k => \E p \in 1..Len(x) : x[p] = c[q]
  /\ \A p, q \in 1..Len(x) : p < q => IF d THEN x[p][1] > x[q][1] ELSE x[p][1] < x[q][1]

LEMMA SiftStep ==
  ASSUME NEW K, NEW d, NEW c, Lists(c, K, d), NEW k, NEW i \in 1..Len(c), NEW x \in Seq(Row),
         Sifted(c, k, i - 1, x, d)
  PROVE  Sifted(c, k, i, FilterStep(c, k, i, x), d)
<1>1. PICK n \in Nat : n = Len(c)
  BY DEF Lists
<1>2. c \in Seq(Row)
  BY DEF Lists
<1>3. \A j \in 1..i : j = i \/ j \in 1..(i - 1)
  BY <1>1
<1>4. CASE c[i][1] = k
  <2>1. FilterStep(c, k, i, x) = x
    BY <1>4 DEF FilterStep
  <2>2. \A j \in 1..(i - 1) : j \in 1..i
    BY <1>1
  <2>3. Sifted(c, k, i, x, d)
    BY <1>3, <1>4, <2>2 DEF Sifted
  <2> QED BY <2>1, <2>3
<1>5. CASE c[i][1] # k
  <2>1. PICK r \in Row : r = c[i]
    BY <1>2
  <2>2. PICK y : y = Append(x, r)
    OBVIOUS
  <2>3. FilterStep(c, k, i, x) = y
    BY <1>5, <2>1, <2>2 DEF FilterStep
  <2>4. PICK m \in Nat : m = Len(x)
    OBVIOUS
  <2>5. /\ y \in Seq(Row) /\ Len(y) = m + 1 /\ y[m + 1] = r
        /\ \A p \in 1..m : y[p] = x[p]
    BY <2>2, <2>4
  <2>6. \A p \in 1..(m + 1) : p \in 1..m \/ p = m + 1
    OBVIOUS
  <2>7. m + 1 \in 1..(m + 1) /\ \A p \in 1..m : p \in 1..(m + 1)
    OBVIOUS
  <2>8. i \in 1..i /\ \A j \in 1..(i - 1) : j \in 1..i /\ j \in 1..n /\ j < i
    BY <1>1
  <2>9. /\ \A p \in 1..m : \E q \in 1..(i - 1) : x[p] = c[q] /\ c[q][1] # k
        /\ \A q \in 1..(i - 1) : c[q][1] # k => \E p \in 1..m : x[p] = c[q]
        /\ \A p, q \in 1..m : p < q => IF d THEN x[p][1] > x[q][1] ELSE x[p][1] < x[q][1]
    BY <2>4 DEF Sifted
  <2>10. ASSUME NEW p \in 1..(m + 1) PROVE \E q \in 1..i : y[p] = c[q] /\ c[q][1] # k
    <3>1. CASE p \in 1..m
      BY <2>5, <2>8, <2>9, <3>1
    <3>2. CASE p = m + 1
      BY <1>5, <2>1, <2>5, <2>8, <3>2
    <3> QED BY <2>6, <3>1, <3>2
  <2>11. ASSUME NEW q \in 1..i, c[q][1] # k PROVE \E p \in 1..(m + 1) : y[p] = c[q]
    <3>1. CASE q = i
      BY <2>1, <2>5, <2>7, <3>1
    <3>2. CASE q \in 1..(i - 1)
      BY <2>5, <2>7, <2>9, <2>11, <3>2
    <3> QED BY <1>3, <3>1, <3>2
  <2>12. \A j, h \in 1..n : j < h => IF d THEN c[j][1] > c[h][1] ELSE c[j][1] < c[h][1]
    BY <1>1 DEF Lists
  <2>13. ASSUME NEW p \in 1..(m + 1), NEW q \in 1..(m + 1), p < q
         PROVE  IF d THEN y[p][1] > y[q][1] ELSE y[p][1] < y[q][1]
    <3>1. p \in 1..m
      BY <2>13
    <3>2. CASE q \in 1..m
      BY <2>5, <2>9, <2>13, <3>1, <3>2
    <3>3. CASE q = m + 1
      <4>1. PICK j \in 1..(i - 1) : x[p] = c[j]
        BY <2>9, <3>1
      <4>2. j \in 1..n /\ i \in 1..n /\ j < i
        BY <1>1, <2>8
      <4>3. y[p] = c[j] /\ y[q] = c[i]
        BY <2>1, <2>5, <3>1, <3>3, <4>1
      <4> QED BY <2>12, <4>2, <4>3
    <3> QED BY <2>6, <3>2, <3>3
  <2>14. Sifted(c, k, i, y, d)
    BY <2>5, <2>10, <2>11, <2>13 DEF Sifted
  <2> QED BY <2>3, <2>14
<1> QED BY <1>4, <1>5

LEMMA FilteredDrops ==
  ASSUME NEW K, NEW d, NEW c, Lists(c, K, d), NEW k
  PROVE  Drops(Filtered(c, k), c, K, k, d)
<1>1. PICK n \in Nat : n = Len(c)
  BY DEF Lists
<1>2. c \in Seq(Row) /\ Keys(c) = K
  BY DEF Lists
<1>3. PICK f : FilterRuns(c, k, f) /\ Filtered(c, k) = f[n]
  BY <1>1, <1>2, FilterRun
<1>4. /\ f \in [0..n -> Seq(Row)] /\ f[0] = <<>>
      /\ \A i \in 1..n : f[i] = FilterStep(c, k, i, f[i - 1])
  BY <1>1, <1>3 DEF FilterRuns
<1> DEFINE T == {i \in 0..n : Sifted(c, k, i, f[i], d)}
<1>5. 0 \in T
  <2>1. Sifted(c, k, 0, <<>>, d)
    BY DEF Sifted
  <2> QED BY <1>4, <2>1
<1>6. ASSUME NEW i \in 1..n, i - 1 \in T PROVE i \in T
  <2>1. PICK x \in Seq(Row) : x = f[i - 1]
    BY <1>4
  <2>2. Sifted(c, k, i - 1, x, d) /\ i \in 1..Len(c)
    BY <1>1, <1>6, <2>1
  <2>3. Sifted(c, k, i, FilterStep(c, k, i, x), d)
    BY <2>2, SiftStep
  <2> QED BY <1>4, <2>1, <2>3
<1> HIDE DEF T
<1>7. \A i \in 0..n : i \in T
  BY <1>5, <1>6, UpTo
<1>8. PICK t \in Seq(Row) : t = Filtered(c, k) /\ Sifted(c, k, n, t, d)
  <2>1. n \in T /\ f[n] \in Seq(Row)
    BY <1>4, <1>7
  <2> QED BY <1>3, <2>1 DEF T
<1>9. /\ \A p \in 1..Len(t) : \E q \in 1..n : t[p] = c[q] /\ c[q][1] # k
      /\ \A q \in 1..n : c[q][1] # k => \E p \in 1..Len(t) : t[p] = c[q]
  BY <1>8 DEF Sifted
<1>10. ASSUME NEW r \in Rows(t) PROVE r \in Rows(c) /\ r[1] # k
  <2>1. PICK p \in 1..Len(t) : r = t[p]
    BY DEF Rows
  <2>2. PICK q \in 1..n : t[p] = c[q] /\ c[q][1] # k
    BY <1>9
  <2> QED BY <1>1, <2>1, <2>2, RowsOf
<1>11. ASSUME NEW r \in Rows(c), r[1] # k PROVE r \in Rows(t)
  <2>1. PICK q \in 1..n : r = c[q]
    BY <1>1 DEF Rows
  <2>2. PICK p \in 1..Len(t) : t[p] = c[q]
    BY <1>9, <1>11, <2>1
  <2> QED BY <2>1, <2>2, RowsOf
<1>12. Keys(t) = K \ {k}
  BY <1>2, <1>10, <1>11 DEF Keys
<1>13. Lists(t, K \ {k}, d)
  BY <1>8, <1>12 DEF Lists, Sifted
<1> QED BY <1>8, <1>10, <1>13 DEF Drops, Same

-----------------------------------------------------------------------------
(***************************************************************************)
(* The lists patched in place.  U are the rows typed in and not saved.     *)
(***************************************************************************)
Fresh(r, x, U) == r[2] = x \/ r[1] \in U

(* the memory c shows the rows f *)
Mirrors(l, c, f, U) ==
  Lists(c, DOMAIN f, l = "tokens") /\ \A r \in Rows(c) : Fresh(r, f[r[1]], U)

(* the row of k was saved in f, and c does not show it yet *)
SaveDue(l, c, f, U, k, v) ==
  \E K : /\ Lists(c, K, l = "tokens") /\ DOMAIN f = K \cup {k} /\ f[k] = v
         /\ \A r \in Rows(c) : r[1] # k =>
              IF l = "providers" /\ v = 2 THEN f[r[1]] = 1 ELSE Fresh(r, f[r[1]], U)
         /\ l = "tokens" => Above(k, K)

(* the row of k was removed from f, and c still shows it *)
RemoveDue(l, c, f, U, k) ==
  \E K : /\ Lists(c, K, l = "tokens") /\ DOMAIN f = K \ {k}
         /\ \A r \in Rows(c) : r[1] # k => Fresh(r, f[r[1]], U)

(* what the memory of l shows while the call o is under way *)
Held(l, o, c, f, U) ==
  /\ o.pc # "ok" => Mirrors(l, c, f, U)
  /\ o.pc = "ok" /\ o.kind = "save" => SaveDue(l, c, f, U, o.k, o.v)
  /\ o.pc = "ok" /\ o.kind = "remove" => RemoveDue(l, c, f, U, o.k)

IsStore(f) == \E b \in Nat : \E D \in SUBSET (1..b) : f \in [D -> Val]

IsCall(o) ==
  \/ o = NoOp
  \/ /\ o \in [pc : {"sent", "ok", "gone"}, kind : {"save", "remove"}, k : Key, v : Val \cup {0}]
     /\ o.kind = "save" => o.v \in Val /\ o.pc # "gone"

(* a new token comes after all stored ones *)
TokenLast(l, o, f) ==
  l = "tokens" /\ o.pc = "sent" /\ o.kind = "save" => Above(o.k, DOMAIN f)

Unsaved(l) == IF l = "vars" THEN typed ELSE {}

Frame ==
  /\ faults \in Nat
  /\ op = [l \in List |-> op[l]] /\ store = [l \in List |-> store[l]]
  /\ cache = [l \in List |-> cache[l]]
  /\ \A x \in loads : IsRequest(x)

(* no page loads during a call, so what is loaded is what the server has, and the
   memory lacks at most the call under way *)
Current(l) ==
  /\ op[l] # NoOp => \A x \in loads : x.page # PageOf(l)
  /\ \A x \in loads : x.page = PageOf(l) /\ x.pc = "ok" => x.data[l] = Listing(l, store[l])
  /\ PageOf(l) \in loaded => Held(l, op[l], cache[l], store[l], Unsaved(l))
  /\ TokenLast(l, op[l], store[l])

ListOk(l) == IsStore(store[l]) /\ IsCall(op[l]) /\ (l \notin missed => Current(l))

ListInv == Frame /\ \A l \in List \cap Patched : ListOk(l)

(* an answer of loads' was there before, or was just read *)
OldOrNow(l, z) ==
  \/ \E y \in loads : y.page = z.page /\ y.pc = z.pc /\ y.data = z.data
  \/ z.pc # "ok"
  \/ z.page # PageOf(l)
  \/ z.data[l] = Listing(l, store[l])

(* a step that is not one of l *)
Leaves(l) ==
  /\ store'[l] = store[l] /\ op'[l] = op[l] /\ cache'[l] = cache[l]
  /\ Unsaved(l)' = Unsaved(l)
  /\ PageOf(l) \in loaded' => PageOf(l) \in loaded
  /\ \A z \in loads' : OldOrNow(l, z)

(* what Note leaves unmarked *)
LEMMA Unmarked ==
  ASSUME NEW l \in List, Note, l \notin missed'
  PROVE  /\ l \notin missed
         /\ op'[l] # NoOp => \A x \in loads' : x.page # PageOf(l)
         /\ op[l] # NoOp /\ op'[l] = NoOp => faults' = faults
BY DEF Note

LEMMA LeavesKeeps ==
  ASSUME NEW l \in List, ListOk(l), Leaves(l), Note
  PROVE  ListOk(l)'
<1>1. IsStore(store'[l]) /\ IsCall(op'[l])
  BY DEF ListOk, Leaves
<1>2. ASSUME l \notin missed' PROVE Current(l)'
  <2>1. l \notin missed /\ Current(l)
    BY <1>2, Unmarked DEF ListOk
  <2>2. op'[l] # NoOp => \A x \in loads' : x.page # PageOf(l)
    BY <1>2, Unmarked
  <2>3. ASSUME NEW z \in loads', z.page = PageOf(l), z.pc = "ok"
        PROVE  z.data[l] = Listing(l, store[l])
    BY <2>1, <2>3 DEF Leaves, OldOrNow, Current
  <2>4. PageOf(l) \in loaded' => Held(l, op[l], cache[l], store[l], Unsaved(l))
    BY <2>1 DEF Current, Leaves
  <2>5. PICK st, o, c, U : st = store[l] /\ o = op[l] /\ c = cache[l] /\ U = Unsaved(l)
    OBVIOUS
  <2>6. store'[l] = st /\ op'[l] = o /\ cache'[l] = c /\ Unsaved(l)' = U
    BY <2>5 DEF Leaves
  <2>7. TokenLast(l, o, st)
    BY <2>1, <2>5 DEF Current
  <2> QED BY <2>2, <2>3, <2>4, <2>5, <2>6, <2>7 DEF Current
<1> QED BY <1>1, <1>2 DEF ListOk

(***************************************************************************)
(* The steps that are not l's.                                             *)
(***************************************************************************)
Framed == Frame' /\ \A l \in List \cap Patched : Leaves(l)

LEMMA FewerLoads ==
  ASSUME Frame, loads' \subseteq loads
  PROVE  (\A z \in loads' : IsRequest(z)) /\ \A l : \A z \in loads' : OldOrNow(l, z)
BY DEF Frame, OldOrNow

LEMMA MoreLoads ==
  ASSUME Frame, NEW p, NEW kind, Request(p, kind)
  PROVE  (\A z \in loads' : IsRequest(z)) /\ \A l : \A z \in loads' : OldOrNow(l, z)
<1>1. PICK y : y = [page |-> p, kind |-> kind, n |-> shows, pc |-> "sent", data |-> <<>>]
  OBVIOUS
<1>2. loads' = loads \cup {y}
  BY <1>1 DEF Request
<1>3. IsRequest(y) /\ y.pc # "ok"
  BY <1>1 DEF IsRequest
<1> QED BY <1>2, <1>3 DEF Frame, OldOrNow

(* nothing of the lists but the requests changes *)
LEMMA NothingChanges ==
  ASSUME Frame, store' = store, op' = op, cache' = cache, typed' = typed,
         faults' \in Nat, loaded' \subseteq loaded,
         \A z \in loads' : IsRequest(z), \A l : \A z \in loads' : OldOrNow(l, z)
  PROVE  Framed
<1>1. Frame'
  BY DEF Frame
<1>2. \A l : Leaves(l)
  BY DEF Leaves, Unsaved
<1> QED BY <1>1, <1>2 DEF Framed

LEMMA ShowsApart ==
  ASSUME Frame
  PROVE  /\ \A p : Show(p) => Framed
         /\ ShowOther => Framed
         /\ OthersAct => Framed
         /\ WorkersPoll => Framed
<1>1. faults \in Nat
  BY DEF Frame
<1>2. ASSUME NEW p, Show(p) PROVE Framed
  <2>1. store' = store /\ op' = op /\ cache' = cache /\ typed' = typed /\ faults' = faults /\ loaded' = loaded
    BY <1>2 DEF Show, server, memory
  <2>2. Request(p, "page")
    BY <1>2 DEF Show
  <2>3. (\A z \in loads' : IsRequest(z)) /\ \A l : \A z \in loads' : OldOrNow(l, z)
    BY <2>2, MoreLoads
  <2> QED BY <1>1, <2>1, <2>3, NothingChanges
<1>3. ASSUME ShowOther PROVE Framed
  <2>1. /\ store' = store /\ op' = op /\ cache' = cache /\ typed' = typed /\ faults' = faults
        /\ loaded' = loaded /\ loads' = loads
    BY <1>3 DEF ShowOther, server, memory, counts
  <2>3. (\A z \in loads' : IsRequest(z)) /\ \A l : \A z \in loads' : OldOrNow(l, z)
    BY <2>1, FewerLoads
  <2> QED BY <1>1, <2>1, <2>3, NothingChanges
<1>4. ASSUME OthersAct PROVE Framed
  <2>1. /\ store' = store /\ op' = op /\ cache' = cache /\ typed' = typed /\ faults' = faults
        /\ loaded' = loaded /\ loads' = loads
    BY <1>4 DEF OthersAct, memory
  <2>3. (\A z \in loads' : IsRequest(z)) /\ \A l : \A z \in loads' : OldOrNow(l, z)
    BY <2>1, FewerLoads
  <2> QED BY <1>1, <2>1, <2>3, NothingChanges
<1>5. ASSUME WorkersPoll PROVE Framed
  <2>1. store' = store /\ op' = op /\ cache' = cache /\ typed' = typed /\ faults' = faults /\ loaded' = loaded
    BY <1>5 DEF WorkersPoll, server, memory, counts
  <2>2. Request("workers", "poll")
    BY <1>5 DEF WorkersPoll
  <2>3. (\A z \in loads' : IsRequest(z)) /\ \A l : \A z \in loads' : OldOrNow(l, z)
    BY <2>2, MoreLoads
  <2> QED BY <1>1, <2>1, <2>3, NothingChanges
<1> QED BY <1>2, <1>3, <1>4, <1>5

LEMMA AnswersApart ==
  ASSUME Frame, NEW x \in loads
  PROVE  /\ ServePage(x) => Framed
         /\ LandWorkers(x) => Framed
         /\ LandFailure(x) => Framed
<1>1. faults \in Nat /\ IsRequest(x)
  BY DEF Frame
<1>2. ASSUME ServePage(x) PROVE Framed
  <2>1. store' = store /\ op' = op /\ cache' = cache /\ typed' = typed /\ faults' = faults /\ loaded' = loaded
    BY <1>2 DEF ServePage, server, memory, counts
  <2>2. PICK q : q = IF x.page = "audit" THEN Entries(0)
                     ELSE [l \in On(x.page) |-> Listing(l, store[l])]
    OBVIOUS
  <2>3. PICK y : y = [x EXCEPT !.pc = "ok", !.data = q]
    OBVIOUS
  <2>4. loads' = (loads \ {x}) \cup {y}
    BY <1>2, <2>2, <2>3 DEF ServePage
  <2>5. IsRequest(y) /\ y.page = x.page /\ y.data = q
    BY <1>1, <2>3 DEF IsRequest
  <2>6. ASSUME NEW l \in List \cap Patched PROVE OldOrNow(l, y)
    <3>1. PageOf(l) # "audit"
      BY DEF PageOf, Patched
    <3>2. x.page = PageOf(l) => l \in On(x.page)
      BY DEF On
    <3>3. x.page = PageOf(l) => y.data[l] = Listing(l, store[l])
      BY <2>2, <2>5, <3>1, <3>2
    <3> QED BY <2>5, <3>3 DEF OldOrNow
  <2>7. ASSUME NEW l \in List \cap Patched, NEW z \in loads' PROVE OldOrNow(l, z)
    BY <2>4, <2>6 DEF OldOrNow
  <2>8. \A z \in loads' : IsRequest(z)
    BY <2>4, <2>5 DEF Frame
  <2>9. Frame'
    BY <1>1, <2>1, <2>8 DEF Frame
  <2>10. \A l \in List \cap Patched : Leaves(l)
    BY <2>1, <2>7 DEF Leaves, Unsaved
  <2> QED BY <2>9, <2>10 DEF Framed
<1>3. ASSUME LandWorkers(x) PROVE Framed
  <2>1. /\ store' = store /\ op' = op /\ typed' = typed /\ faults' = faults
        /\ loaded' = loaded /\ loads' \subseteq loads
    BY <1>3 DEF LandWorkers, server, counts
  <2>2. PICK q : cache' = cache \/ cache' = [cache EXCEPT !["workers"] = q]
    BY <1>3 DEF LandWorkers
  <2>3. cache' = [l \in List |-> cache'[l]] /\ \A l \in List \cap Patched : cache'[l] = cache[l]
    BY <2>2 DEF Frame, Patched
  <2>4. (\A z \in loads' : IsRequest(z)) /\ \A l : \A z \in loads' : OldOrNow(l, z)
    BY <2>1, FewerLoads
  <2>5. Frame'
    BY <1>1, <2>1, <2>3, <2>4 DEF Frame
  <2>6. \A l \in List \cap Patched : Leaves(l)
    BY <2>1, <2>3, <2>4 DEF Leaves, Unsaved
  <2> QED BY <2>5, <2>6 DEF Framed
<1>4. ASSUME LandFailure(x) PROVE Framed
  <2>1. /\ store' = store /\ op' = op /\ cache' = cache /\ typed' = typed /\ faults' = faults + 1
        /\ loaded' \subseteq loaded /\ loads' \subseteq loads
    BY <1>4 DEF LandFailure, server
  <2>2. (\A z \in loads' : IsRequest(z)) /\ \A l : \A z \in loads' : OldOrNow(l, z)
    BY <2>1, FewerLoads
  <2>3. faults' \in Nat
    BY <1>1, <2>1
  <2> QED BY <2>1, <2>2, <2>3, NothingChanges
<1> QED BY <1>2, <1>3, <1>4

(* a step of the call on m leaves the other lists alone *)
Alone(m) == Frame' /\ \A l \in List \cap Patched : l # m => Leaves(l)

LEMMA OneCall ==
  ASSUME Frame, NEW m \in List, NEW o, op' = [op EXCEPT ![m] = o],
         store' = [l \in List |-> store'[l]], cache' = [l \in List |-> cache'[l]],
         \A l \in List : l # m => store'[l] = store[l] /\ cache'[l] = cache[l] /\ Unsaved(l)' = Unsaved(l),
         faults' \in Nat, loaded' = loaded,
         \A z \in loads' : IsRequest(z), \A l : \A z \in loads' : OldOrNow(l, z)
  PROVE  Alone(m)
<1>1. op' = [l \in List |-> op'[l]] /\ \A l \in List : l # m => op'[l] = op[l]
  BY DEF Frame
<1>2. Frame'
  BY <1>1 DEF Frame
<1>3. \A l \in List \cap Patched : l # m => Leaves(l)
  BY <1>1 DEF Leaves
<1> QED BY <1>2, <1>3 DEF Alone

LEMMA CallAlone ==
  ASSUME Frame, NEW m \in List, NEW kind, NEW k, NEW v, Call(m, kind, k, v)
  PROVE  Alone(m)
<1>1. PICK o : o = [pc |-> "sent", kind |-> kind, k |-> k, v |-> v]
  OBVIOUS
<1>2. op' = [op EXCEPT ![m] = o]
  BY <1>1 DEF Call
<1>3. /\ store' = store /\ cache' = cache /\ typed' = typed /\ faults' = faults
      /\ loaded' = loaded /\ loads' = loads
  BY DEF Call, server, memory
<1>4. (\A z \in loads' : IsRequest(z)) /\ \A l : \A z \in loads' : OldOrNow(l, z)
  BY <1>3, FewerLoads
<1>5. faults' \in Nat /\ store' = [l \in List |-> store'[l]] /\ cache' = [l \in List |-> cache'[l]]
  BY <1>3 DEF Frame
<1>6. \A l \in List : l # m => store'[l] = store[l] /\ cache'[l] = cache[l] /\ Unsaved(l)' = Unsaved(l)
  BY <1>3 DEF Unsaved
<1> QED BY <1>2, <1>3, <1>4, <1>5, <1>6, OneCall

LEMMA ServedAlone ==
  ASSUME Frame, NEW m \in List
  PROVE  /\ ServeSave(m) => Alone(m)
         /\ ServeRemove(m) => Alone(m)
         /\ PatchList(m) => Alone(m)
         /\ OpFails(m) => Alone(m)
<1>1. faults \in Nat
  BY DEF Frame
<1>2. ASSUME ServeSave(m) PROVE Alone(m)
  <2>1. /\ cache' = cache /\ typed' = typed /\ faults' = faults
        /\ loaded' = loaded /\ loads' = loads
    BY <1>2 DEF ServeSave, memory, counts
  <2>2. PICK f : store' = [store EXCEPT ![m] = f]
    BY <1>2 DEF ServeSave
  <2>3. PICK w : w = store'[m][op[m].k]
    OBVIOUS
  <2>4. op' = [op EXCEPT ![m].pc = "ok", ![m].v = w]
    BY <1>2, <2>3 DEF ServeSave
  <2>5. \E o : op' = [op EXCEPT ![m] = o]
    <3>1. PICK o : o = op'[m]
      OBVIOUS
    <3>2. op' = [l \in List |-> IF l = m THEN o ELSE op[l]]
      BY <2>4, <3>1 DEF Frame
    <3>3. [op EXCEPT ![m] = o] = [l \in List |-> IF l = m THEN o ELSE op[l]]
      BY DEF Frame
    <3> QED BY <3>2, <3>3
  <2>6. (\A z \in loads' : IsRequest(z)) /\ \A l : \A z \in loads' : OldOrNow(l, z)
    BY <2>1, FewerLoads
  <2>7. faults' \in Nat /\ store' = [l \in List |-> store'[l]] /\ cache' = [l \in List |-> cache'[l]]
    BY <2>1, <2>2 DEF Frame
  <2>8. \A l \in List : l # m => store'[l] = store[l] /\ cache'[l] = cache[l] /\ Unsaved(l)' = Unsaved(l)
    BY <2>1, <2>2 DEF Unsaved, Frame
  <2> QED BY <2>1, <2>5, <2>6, <2>7, <2>8, OneCall
<1>3. ASSUME ServeRemove(m) PROVE Alone(m)
  <2>1. /\ cache' = cache /\ typed' = typed /\ faults' = faults
        /\ loaded' = loaded /\ loads' = loads
    BY <1>3 DEF ServeRemove, memory, counts
  <2>2. PICK f : store' = [store EXCEPT ![m] = f] \/ store' = store
    BY <1>3 DEF ServeRemove, server
  <2>4. PICK w : op' = [op EXCEPT ![m].pc = w]
    BY <1>3 DEF ServeRemove
  <2>5. \E o : op' = [op EXCEPT ![m] = o]
    <3>1. PICK o : o = op'[m]
      OBVIOUS
    <3>2. op' = [l \in List |-> IF l = m THEN o ELSE op[l]]
      BY <2>4, <3>1 DEF Frame
    <3>3. [op EXCEPT ![m] = o] = [l \in List |-> IF l = m THEN o ELSE op[l]]
      BY DEF Frame
    <3> QED BY <3>2, <3>3
  <2>6. (\A z \in loads' : IsRequest(z)) /\ \A l : \A z \in loads' : OldOrNow(l, z)
    BY <2>1, FewerLoads
  <2>7. faults' \in Nat /\ store' = [l \in List |-> store'[l]] /\ cache' = [l \in List |-> cache'[l]]
    BY <2>1, <2>2 DEF Frame
  <2>8. \A l \in List : l # m => store'[l] = store[l] /\ cache'[l] = cache[l] /\ Unsaved(l)' = Unsaved(l)
    BY <2>1, <2>2 DEF Unsaved, Frame
  <2> QED BY <2>1, <2>5, <2>6, <2>7, <2>8, OneCall
<1>4. ASSUME PatchList(m) PROVE Alone(m)
  <2>1. /\ store' = store /\ faults' = faults /\ loaded' = loaded /\ loads' = loads
        /\ op' = [op EXCEPT ![m] = NoOp]
    BY <1>4 DEF PatchList, Returned, server, counts
  <2>2. PICK c : cache' = [cache EXCEPT ![m] = c]
    BY <1>4 DEF PatchList
  <2>3. m # "vars" => typed' = typed
    BY <1>4 DEF PatchList
  <2>6. (\A z \in loads' : IsRequest(z)) /\ \A l : \A z \in loads' : OldOrNow(l, z)
    BY <2>1, FewerLoads
  <2>7. faults' \in Nat /\ store' = [l \in List |-> store'[l]] /\ cache' = [l \in List |-> cache'[l]]
    BY <2>1, <2>2 DEF Frame
  <2>8. \A l \in List : l # m => store'[l] = store[l] /\ cache'[l] = cache[l] /\ Unsaved(l)' = Unsaved(l)
    BY <2>1, <2>2, <2>3 DEF Unsaved, Frame
  <2> QED BY <2>1, <2>6, <2>7, <2>8, OneCall
<1>5. ASSUME OpFails(m) PROVE Alone(m)
  <2>1. /\ store' = store /\ cache' = cache /\ typed' = typed /\ loaded' = loaded /\ loads' = loads
        /\ op' = [op EXCEPT ![m] = NoOp]
    BY <1>5 DEF OpFails, server
  <2>2. faults' \in Nat
    BY <1>1, <1>5 DEF OpFails
  <2>6. (\A z \in loads' : IsRequest(z)) /\ \A l : \A z \in loads' : OldOrNow(l, z)
    BY <2>1, FewerLoads
  <2>7. store' = [l \in List |-> store'[l]] /\ cache' = [l \in List |-> cache'[l]]
    BY <2>1 DEF Frame
  <2>8. \A l \in List : l # m => store'[l] = store[l] /\ cache'[l] = cache[l] /\ Unsaved(l)' = Unsaved(l)
    BY <2>1 DEF Unsaved
  <2> QED BY <2>1, <2>2, <2>6, <2>7, <2>8, OneCall
<1> QED BY <1>2, <1>3, <1>4, <1>5

LEMMA FetchedAlone ==
  ASSUME Frame
  PROVE  /\ RefreshWorkers => Alone("workers")
         /\ PoolSaved => Alone("pools")
         /\ ServeMore => Alone("audit")
         /\ AppendEntries => Alone("audit")
<1>1. faults \in Nat
  BY DEF Frame
<1>2. ASSUME store' = store, cache' = cache, typed' = typed
      PROVE  /\ store' = [l \in List |-> store'[l]] /\ cache' = [l \in List |-> cache'[l]]
             /\ \A m : \A l \in List : l # m =>
                  store'[l] = store[l] /\ cache'[l] = cache[l] /\ Unsaved(l)' = Unsaved(l)
  BY <1>2 DEF Frame, Unsaved
<1>3. ASSUME RefreshWorkers PROVE Alone("workers")
  <2>1. /\ store' = store /\ cache' = cache /\ typed' = typed /\ loaded' = loaded /\ faults' = faults
        /\ op' = [op EXCEPT !["workers"] = NoOp] /\ "workers" \in List
    BY <1>3 DEF RefreshWorkers, Returned, server, memory, counts
  <2>2. CASE Request("workers", "refresh")
    <3>1. (\A z \in loads' : IsRequest(z)) /\ \A l : \A z \in loads' : OldOrNow(l, z)
      BY <2>2, MoreLoads
    <3> QED BY <1>1, <1>2, <2>1, <3>1, OneCall
  <2>3. CASE loads' = loads
    <3>1. (\A z \in loads' : IsRequest(z)) /\ \A l : \A z \in loads' : OldOrNow(l, z)
      BY <2>3, FewerLoads
    <3> QED BY <1>1, <1>2, <2>1, <3>1, OneCall
  <2> QED BY <1>3, <2>2, <2>3 DEF RefreshWorkers
<1>4. ASSUME PoolSaved PROVE Alone("pools")
  <2>1. /\ store' = store /\ cache' = cache /\ typed' = typed /\ loaded' = loaded /\ faults' = faults
        /\ op' = [op EXCEPT !["pools"] = NoOp] /\ "pools" \in List /\ Request("pools", "page")
    BY <1>4 DEF PoolSaved, Returned, server, memory, counts
  <2>2. (\A z \in loads' : IsRequest(z)) /\ \A l : \A z \in loads' : OldOrNow(l, z)
    BY <2>1, MoreLoads
  <2> QED BY <1>1, <1>2, <2>1, <2>2, OneCall
<1>5. ASSUME ServeMore PROVE Alone("audit")
  <2>1. /\ store' = store /\ cache' = cache /\ typed' = typed /\ loaded' = loaded /\ faults' = faults
        /\ loads' = loads /\ "audit" \in List
    BY <1>5 DEF ServeMore, server, memory, counts
  <2>2. PICK w : w = Entries(op["audit"].k)
    OBVIOUS
  <2>3. op' = [op EXCEPT !["audit"].pc = "ok", !["audit"].v = w]
    BY <1>5, <2>2 DEF ServeMore
  <2>4. \E o : op' = [op EXCEPT !["audit"] = o]
    <3>1. PICK o : o = op'["audit"]
      OBVIOUS
    <3>2. op' = [l \in List |-> IF l = "audit" THEN o ELSE op[l]]
      BY <2>3, <3>1 DEF Frame
    <3>3. [op EXCEPT !["audit"] = o] = [l \in List |-> IF l = "audit" THEN o ELSE op[l]]
      BY DEF Frame
    <3> QED BY <3>2, <3>3
  <2>5. (\A z \in loads' : IsRequest(z)) /\ \A l : \A z \in loads' : OldOrNow(l, z)
    BY <2>1, FewerLoads
  <2> QED BY <1>1, <1>2, <2>1, <2>4, <2>5, OneCall
<1>6. ASSUME AppendEntries PROVE Alone("audit")
  <2>1. /\ store' = store /\ cache' = cache /\ typed' = typed /\ loaded' = loaded /\ faults' = faults
        /\ loads' = loads /\ "audit" \in List /\ op' = [op EXCEPT !["audit"] = NoOp]
    BY <1>6 DEF AppendEntries, Returned, server, counts
  <2>2. (\A z \in loads' : IsRequest(z)) /\ \A l : \A z \in loads' : OldOrNow(l, z)
    BY <2>1, FewerLoads
  <2> QED BY <1>1, <1>2, <2>1, <2>2, OneCall
<1> QED BY <1>3, <1>4, <1>5, <1>6

(***************************************************************************)
(* The steps of l: what the server does to the rows, what a patch does to  *)
(* the memory.                                                             *)
(***************************************************************************)
Saves(l, f, k, v, g) ==
  /\ IsStore(g) /\ DOMAIN g = DOMAIN f \cup {k} /\ g[k] \in Val
  /\ l # "conns" => g[k] = v
  /\ \A j \in DOMAIN f : j # k => g[j] = IF l = "providers" /\ v = 2 THEN 1 ELSE f[j]

LEMMA UpsertedIs ==
  ASSUME NEW l, NEW f, IsStore(f), NEW k \in Key, NEW v \in Val, NEW g, g = Upserted(l, f, k, v)
  PROVE  Saves(l, f, k, v, g)
<1>1. PICK b \in Nat : \E D \in SUBSET (1..b) : f \in [D -> Val]
  BY DEF IsStore
<1>2. PICK D \in SUBSET (1..b) : f \in [D -> Val]
  BY <1>1
<1>3. PICK E : E = D \cup {k}
  OBVIOUS
<1>4. DOMAIN f = D /\ DOMAIN g = E
  BY <1>2, <1>3 DEF Upserted
<1>5. /\ g[k] \in Val /\ (l # "conns" => g[k] = v)
      /\ \A j \in D : j # k => g[j] = IF l = "providers" /\ v = 2 THEN 1 ELSE f[j]
  <2>1. k \in DOMAIN f \cup {k} /\ 2 \in Val /\ 1 \in Val
    BY DEF Val
  <2>2. g[k] = IF l = "conns" /\ k \in DOMAIN f /\ f[k] = 2 THEN 2 ELSE v
    BY <2>1 DEF Upserted
  <2>3. ASSUME NEW j \in D, j # k PROVE g[j] = IF l = "providers" /\ v = 2 THEN 1 ELSE f[j]
    BY <1>4, <2>3 DEF Upserted
  <2> QED BY <2>1, <2>2, <2>3
<1>6. \A j \in E : g[j] \in Val
  <2>1. 1 \in Val
    BY DEF Val
  <2> QED BY <1>2, <1>3, <1>5, <2>1
<1>7. g = [j \in E |-> g[j]]
  BY <1>3, <1>4 DEF Upserted
<1>8. g \in [E -> Val]
  BY <1>6, <1>7
<1>9. k \in Nat \ {0}
  BY ListAssumption
<1>10. PICK e \in Nat : E \in SUBSET (1..e)
  <2>1. CASE k <= b
    <3>1. E \in SUBSET (1..b)
      BY <1>3, <1>9, <2>1
    <3> QED BY <3>1
  <2>2. CASE k > b
    <3>1. E \in SUBSET (1..k)
      BY <1>3, <1>9, <2>2
    <3> QED BY <1>9, <3>1
  <2> QED BY <1>9, <2>1, <2>2
<1>11. IsStore(g)
  BY <1>8, <1>10 DEF IsStore
<1> QED BY <1>3, <1>4, <1>5, <1>11 DEF Saves

LEMMA SavedIsDue ==
  ASSUME NEW l, NEW c, NEW f, NEW U, Mirrors(l, c, f, U), IsStore(f),
         NEW k \in Key, NEW v \in Val, l = "tokens" => Above(k, DOMAIN f),
         NEW g, g = Upserted(l, f, k, v)
  PROVE  SaveDue(l, c, g, U, k, g[k])
<1>1. PICK K : K = DOMAIN f
  OBVIOUS
<1>2. Lists(c, K, l = "tokens") /\ \A r \in Rows(c) : Fresh(r, f[r[1]], U)
  BY <1>1 DEF Mirrors
<1>3. /\ DOMAIN g = K \cup {k} /\ (l # "conns" => g[k] = v)
      /\ \A j \in K : j # k => g[j] = IF l = "providers" /\ v = 2 THEN 1 ELSE f[j]
  <2>1. Saves(l, f, k, v, g)
    BY UpsertedIs
  <2> QED BY <1>1, <2>1 DEF Saves
<1>4. PICK w : w = g[k]
  OBVIOUS
<1>5. ASSUME NEW r \in Rows(c), r[1] # k
      PROVE  IF l = "providers" /\ w = 2 THEN g[r[1]] = 1 ELSE Fresh(r, g[r[1]], U)
  <2>1. r[1] \in K
    BY <1>2, RowOfList
  <2>2. g[r[1]] = IF l = "providers" /\ v = 2 THEN 1 ELSE f[r[1]]
    BY <1>3, <1>5, <2>1
  <2>3. l = "providers" => w = v
    BY <1>3, <1>4
  <2>4. Fresh(r, f[r[1]], U)
    BY <1>2
  <2>5. CASE l = "providers" /\ v = 2
    BY <2>2, <2>3, <2>5
  <2>6. CASE ~(l = "providers" /\ v = 2)
    BY <2>2, <2>3, <2>4, <2>6
  <2> QED BY <2>5, <2>6
<1>6. l = "tokens" => Above(k, K)
  BY <1>1
<1>7. SaveDue(l, c, g, U, k, w)
  BY <1>2, <1>3, <1>4, <1>5, <1>6 DEF SaveDue
<1> QED BY <1>4, <1>7

LEMMA RemovedIsDue ==
  ASSUME NEW l, NEW c, NEW f, NEW U, Mirrors(l, c, f, U), IsStore(f), NEW k,
         NEW g, g = [j \in DOMAIN f \ {k} |-> f[j]]
  PROVE  IsStore(g) /\ RemoveDue(l, c, g, U, k)
<1>1. PICK b \in Nat : \E D \in SUBSET (1..b) : f \in [D -> Val]
  BY DEF IsStore
<1>2. PICK D \in SUBSET (1..b) : f \in [D -> Val]
  BY <1>1
<1>3. DOMAIN f = D
  BY <1>2
<1>4. PICK E \in SUBSET (1..b) : E = D \ {k}
  OBVIOUS
<1>5. g \in [E -> Val] /\ DOMAIN g = D \ {k} /\ \A j \in D \ {k} : g[j] = f[j]
  BY <1>2, <1>3, <1>4
<1>6. IsStore(g)
  BY <1>5 DEF IsStore
<1>7. Lists(c, D, l = "tokens") /\ \A r \in Rows(c) : Fresh(r, f[r[1]], U)
  BY <1>3 DEF Mirrors
<1>8. ASSUME NEW r \in Rows(c), r[1] # k PROVE Fresh(r, g[r[1]], U)
  <2>1. r[1] \in D
    BY <1>7, RowOfList
  <2> QED BY <1>5, <1>7, <1>8, <2>1
<1>9. RemoveDue(l, c, g, U, k)
  BY <1>5, <1>7, <1>8 DEF RemoveDue
<1> QED BY <1>6, <1>9

(* the memory after the answer to a save *)
LEMMA InPlaceMirrors ==
  ASSUME NEW l \in Patched, NEW c, NEW f, NEW U, NEW k \in Key, NEW v \in Val,
         SaveDue(l, c, f, U, k, v), IsStore(f)
  PROVE  Mirrors(l, InPlace(l, c, k, v), f, U \ {k})
<1>1. PICK K : /\ Lists(c, K, l = "tokens") /\ DOMAIN f = K \cup {k} /\ f[k] = v
               /\ \A r \in Rows(c) : r[1] # k =>
                    IF l = "providers" /\ v = 2 THEN f[r[1]] = 1 ELSE Fresh(r, f[r[1]], U)
               /\ l = "tokens" => Above(k, K)
  BY DEF SaveDue
<1>2. k \in Nat \ {0}
  BY ListAssumption
<1>3. PICK b \in Nat : K \in SUBSET (1..b)
  <2>1. PICK b \in Nat : \E D \in SUBSET (1..b) : f \in [D -> Val]
    BY DEF IsStore
  <2>2. K \in SUBSET (1..b)
    BY <1>1, <2>1
  <2> QED BY <2>2
<1>4. PICK d \in BOOLEAN : d = (l = "tokens")
  OBVIOUS
<1>5. Lists(c, K, d)
  BY <1>1, <1>4
<1>6. ASSUME NEW t, Patches(t, c, K, k, v, d), ~(l = "providers" /\ v = 2)
      PROVE  Mirrors(l, t, f, U \ {k})
  <2>1. ASSUME NEW r \in Rows(t) PROVE Fresh(r, f[r[1]], U \ {k})
    <3>1. CASE r[1] = k
      BY <1>1, <1>6, <3>1 DEF Patches, Fresh
    <3>2. CASE r[1] # k
      <4>1. r \in Rows(c)
        BY <1>6, <3>2 DEF Patches, Same
      <4>2. Fresh(r, f[r[1]], U)
        BY <1>1, <1>6, <3>2, <4>1
      <4> QED BY <3>2, <4>2 DEF Fresh
    <3> QED BY <3>1, <3>2
  <2> QED BY <1>1, <1>4, <1>6, <2>1 DEF Mirrors, Patches
<1>7. CASE l = "tokens"
  <2>1. PICK t : t = Unshifted(c, k, v)
    OBVIOUS
  <2>2. InPlace(l, c, k, v) = t
    BY <1>7, <2>1 DEF InPlace
  <2>3. Lists(c, K, TRUE) /\ Above(k, K) /\ k \in Nat
    BY <1>1, <1>2, <1>4, <1>5, <1>7
  <2>4. Patches(t, c, K, k, v, TRUE)
    BY <2>1, <2>3, UnshiftedPatches
  <2> QED BY <1>4, <1>6, <1>7, <2>2, <2>4
<1>8. CASE l # "tokens"
  <2>1. PICK t : t = Replaced(c, k, v)
    OBVIOUS
  <2>2. Lists(c, K, FALSE)
    BY <1>4, <1>5, <1>8
  <2>3. Patches(t, c, K, k, v, FALSE)
    BY <1>2, <1>3, <2>1, <2>2, ReplacedPatches
  <2>4. CASE l # "providers"
    <3>1. InPlace(l, c, k, v) = t
      BY <1>8, <2>1, <2>4 DEF InPlace
    <3> QED BY <1>4, <1>6, <1>8, <2>3, <2>4, <3>1
  <2>5. CASE l = "providers"
    <3>1. PICK u : u = OneDefault(t, k, v)
      OBVIOUS
    <3>2. InPlace(l, c, k, v) = u
      BY <2>1, <2>5, <3>1 DEF InPlace
    <3>3. Lists(t, K \cup {k}, FALSE)
      BY <2>3 DEF Patches
    <3>4. Lists(u, K \cup {k}, FALSE) /\ Unmarks(u, t, k, v)
      BY <3>1, <3>3, OneDefaultLists
    <3>5. ASSUME NEW r \in Rows(u) PROVE Fresh(r, f[r[1]], U \ {k})
      <4>1. PICK s \in Rows(t) : r[1] = s[1] /\ r[2] = IF v = 2 /\ s[1] # k THEN 1 ELSE s[2]
        BY <3>4 DEF Unmarks
      <4>2. CASE s[1] = k
        <5>1. s[2] = v
          BY <2>3, <4>2 DEF Patches
        <5> QED BY <1>1, <4>1, <4>2, <5>1 DEF Fresh
      <4>3. CASE s[1] # k
        <5>1. s \in Rows(c)
          BY <2>3, <4>3 DEF Patches, Same
        <5>2. CASE v = 2
          BY <1>1, <2>5, <4>1, <4>3, <5>1, <5>2 DEF Fresh
        <5>3. CASE v # 2
          <6>1. Fresh(s, f[s[1]], U)
            BY <1>1, <4>3, <5>1, <5>3
          <6> QED BY <4>1, <4>3, <5>3, <6>1 DEF Fresh
        <5> QED BY <5>2, <5>3
      <4> QED BY <4>2, <4>3
    <3>6. Lists(u, K \cup {k}, l = "tokens")
      BY <1>4, <1>8, <3>4
    <3>7. Mirrors(l, u, f, U \ {k})
      BY <1>1, <3>5, <3>6 DEF Mirrors
    <3> QED BY <3>2, <3>7
  <2> QED BY <2>4, <2>5
<1> QED BY <1>7, <1>8

(* and to a removal *)
LEMMA FilteredMirrors ==
  ASSUME NEW l, NEW c, NEW f, NEW U, NEW k, RemoveDue(l, c, f, U, k)
  PROVE  Mirrors(l, Filtered(c, k), f, U \ {k})
<1>1. PICK K : /\ Lists(c, K, l = "tokens") /\ DOMAIN f = K \ {k}
               /\ \A r \in Rows(c) : r[1] # k => Fresh(r, f[r[1]], U)
  BY DEF RemoveDue
<1>2. PICK t : t = Filtered(c, k)
  OBVIOUS
<1>3. Drops(t, c, K, k, l = "tokens")
  <2>1. PICK d : d = (l = "tokens")
    OBVIOUS
  <2>2. Drops(t, c, K, k, d)
    BY <1>1, <1>2, <2>1, FilteredDrops
  <2> QED BY <2>1, <2>2
<1>4. Lists(t, K \ {k}, l = "tokens") /\ Same(t, c, k)
  BY <1>3 DEF Drops
<1>5. ASSUME NEW r \in Rows(t) PROVE Fresh(r, f[r[1]], U \ {k})
  <2>1. r[1] \in K \ {k}
    BY <1>4, RowOfList
  <2>2. r \in Rows(c)
    BY <1>4, <2>1 DEF Same
  <2> QED BY <1>1, <2>1, <2>2 DEF Fresh
<1> QED BY <1>1, <1>2, <1>4, <1>5 DEF Mirrors

(* what is fetched is what the server has *)
LEMMA ListingMirrors ==
  ASSUME NEW l, NEW f, IsStore(f)
  PROVE  Mirrors(l, Listing(l, f), f, {})
<1>1. PICK b \in Nat : \E D \in SUBSET (1..b) : f \in [D -> Val]
  BY DEF IsStore
<1>2. PICK D \in SUBSET (1..b) : f \in [D -> Val]
  BY <1>1
<1>3. PICK t : t = Listing(l, f)
  OBVIOUS
<1>4. ListsOf(t, f, l = "tokens")
  BY <1>2, <1>3, ListingIs
<1>5. Lists(t, DOMAIN f, l = "tokens") /\ \A r \in Rows(t) : r[2] = f[r[1]]
  BY <1>4 DEF ListsOf
<1> QED BY <1>3, <1>5 DEF Mirrors, Fresh

(* a memory that mirrors the rows is what is fetched, but for what is typed *)
LEMMA MirrorShows ==
  ASSUME NEW l, NEW c, NEW f, IsStore(f), NEW U, Mirrors(l, c, f, U), NEW t, t = Listing(l, f)
  PROVE  /\ Len(c) = Len(t)
         /\ \A i \in 1..Len(t) : c[i] = t[i] \/ (c[i][1] = t[i][1] /\ t[i][1] \in U)
<1>1. PICK d, K : d = (l = "tokens") /\ K = DOMAIN f
  OBVIOUS
<1>2. Lists(c, K, d) /\ \A r \in Rows(c) : Fresh(r, f[r[1]], U)
  BY <1>1 DEF Mirrors
<1>3. Mirrors(l, t, f, {})
  BY ListingMirrors
<1>4. Lists(t, K, d) /\ \A r \in Rows(t) : r[2] = f[r[1]]
  BY <1>1, <1>3 DEF Mirrors, Fresh
<1>5. Len(c) = Len(t) /\ \A i \in 1..Len(c) : c[i][1] = t[i][1]
  BY <1>2, <1>4, OneOrder
<1>6. ASSUME NEW i \in 1..Len(t) PROVE c[i] = t[i] \/ (c[i][1] = t[i][1] /\ t[i][1] \in U)
  <2>1. c[i] \in Rows(c) /\ t[i] \in Rows(t) /\ c[i][1] = t[i][1]
    BY <1>5, RowsOf
  <2>2. c[i] = <<c[i][1], c[i][2]>>
    BY <1>2, <2>1, RowOfList
  <2>3. t[i] = <<t[i][1], t[i][2]>>
    BY <1>4, <2>1, RowOfList
  <2>4. Fresh(c[i], f[c[i][1]], U) /\ t[i][2] = f[t[i][1]]
    BY <1>2, <1>4, <2>1
  <2> QED BY <2>1, <2>2, <2>3, <2>4 DEF Fresh
<1> QED BY <1>5, <1>6

(***************************************************************************)
(* The invariant.                                                          *)
(***************************************************************************)
LEMMA CallKeeps ==
  ASSUME NEW l \in List, Frame, ListOk(l), Note,
         NEW kind \in {"save", "remove"}, NEW k \in Key, NEW v \in Val \cup {0},
         Call(l, kind, k, v), kind = "save" => v \in Val,
         l = "tokens" /\ kind = "save" => Above(k, DOMAIN store[l])
  PROVE  ListOk(l)'
<1>1. PICK o : o = [pc |-> "sent", kind |-> kind, k |-> k, v |-> v]
  OBVIOUS
<1>2. o.pc = "sent" /\ o.kind = kind /\ o.k = k /\ o.v = v /\ IsCall(o)
  BY <1>1 DEF IsCall
<1>3. op'[l] = o
  BY <1>1 DEF Call, Frame
<1>4. op[l] = NoOp /\ store' = store /\ cache' = cache /\ typed' = typed /\ loaded' = loaded /\ loads' = loads
  BY DEF Call, server, memory
<1>5. ASSUME l \notin missed' PROVE Current(l)'
  <2>1. Current(l)
    BY <1>5, Unmarked DEF ListOk
  <2>2. op'[l] # NoOp => \A x \in loads' : x.page # PageOf(l)
    BY <1>5, Unmarked
  <2>3. NoOp.pc # "ok" /\ o.pc # "ok"
    BY <1>2 DEF NoOp
  <2>4. PageOf(l) \in loaded => Mirrors(l, cache[l], store[l], Unsaved(l))
    BY <1>4, <2>1, <2>3 DEF Current, Held
  <2>5. PageOf(l) \in loaded => Held(l, o, cache[l], store[l], Unsaved(l))
    BY <2>3, <2>4 DEF Held
  <2>6. TokenLast(l, o, store[l])
    BY <1>2 DEF TokenLast
  <2>7. Unsaved(l)' = Unsaved(l)
    BY <1>4 DEF Unsaved
  <2> QED BY <1>3, <1>4, <2>1, <2>2, <2>5, <2>6, <2>7 DEF Current
<1>6. IsStore(store'[l]) /\ IsCall(op'[l])
  BY <1>2, <1>3, <1>4 DEF ListOk
<1> QED BY <1>5, <1>6 DEF ListOk

LEMMA TypeVarKeeps ==
  ASSUME Frame, "vars" \in List, ListOk("vars"), Note,
         NEW k, NEW v \in Val, TypeVar(k, v)
  PROVE  ListOk("vars")'
<1>1. /\ op' = op /\ store' = store /\ loads' = loads /\ loaded' = loaded
      /\ typed' = typed \cup {k} /\ (op["vars"] # NoOp => op["vars"].k # k)
  BY DEF TypeVar, server
<1>2. PICK c, U, f, o : c = cache["vars"] /\ U = typed /\ f = store["vars"] /\ o = op["vars"]
  OBVIOUS
<1>3. PICK i \in 1..Len(c) : c[i][1] = k /\ cache' = [cache EXCEPT !["vars"][i] = <<k, v>>]
  BY <1>2 DEF TypeVar
<1>4. PICK e : e = [c EXCEPT ![i] = <<k, v>>]
  OBVIOUS
<1>5. cache'["vars"] = e
  BY <1>2, <1>3, <1>4 DEF Frame
<1>6. Unsaved("vars") = U /\ Unsaved("vars")' = U \cup {k}
  BY <1>1, <1>2 DEF Unsaved
(* the keys stay, and the row typed in is an unsaved one *)
<1>7. ASSUME NEW K, NEW d, Lists(c, K, d)
      PROVE  /\ Lists(e, K, d)
             /\ \A r \in Rows(e) : r[1] = k \/ r \in Rows(c)
  <2>1. PICK n \in Nat : n = Len(c)
    BY <1>7 DEF Lists
  <2>2. c \in Seq(Row) /\ Keys(c) = K
    BY <1>7 DEF Lists
  <2>3. \A j \in 1..n : c[j] \in Row
    BY <2>1, <2>2
  <2>4. PICK r \in Row : r = <<k, v>> /\ r[1] = k
    <3>1. k \in Nat
      BY <1>3, <2>1, <2>3 DEF Row
    <3>2. <<k, v>> \in Row
      BY <3>1 DEF Row
    <3> QED BY <3>2
  <2>5. c \in [1..n -> Row]
    BY <2>1, <2>2
  <2>6. e \in [1..n -> Row] /\ \A j \in 1..n : e[j] = IF j = i THEN r ELSE c[j]
    BY <1>4, <2>1, <2>4, <2>5
  <2>7. e \in Seq(Row) /\ Len(e) = n
    BY <2>6
  <2>8. \A j \in 1..n : e[j][1] = c[j][1]
    BY <1>3, <2>1, <2>4, <2>6
  <2>9. Keys(e) = K
    <3>1. ASSUME NEW x PROVE x \in Keys(e) <=> x \in K
      <4>1. x \in Keys(c) <=> \E j \in 1..n : c[j][1] = x
        BY <2>1, KeysOf
      <4>2. x \in Keys(e) <=> \E j \in 1..n : e[j][1] = x
        BY <2>7, KeysOf
      <4> QED BY <2>2, <2>8, <4>1, <4>2
    <3> QED BY <3>1
  <2>10. \A p, q \in 1..n : p < q => IF d THEN c[p][1] > c[q][1] ELSE c[p][1] < c[q][1]
    BY <1>7, <2>1 DEF Lists
  <2>11. \A p, q \in 1..n : p < q => IF d THEN e[p][1] > e[q][1] ELSE e[p][1] < e[q][1]
    BY <2>8, <2>10
  <2>12. ASSUME NEW x \in Rows(e) PROVE x[1] = k \/ x \in Rows(c)
    <3>1. PICK j \in 1..n : x = e[j]
      BY <2>7 DEF Rows
    <3> QED BY <2>1, <2>4, <2>6, <3>1, RowsOf
  <2> QED BY <2>7, <2>9, <2>11, <2>12 DEF Lists
<1>8. ASSUME Held("vars", o, c, f, U), IsCall(o) PROVE Held("vars", o, e, f, U \cup {k})
  <2>1. CASE o.pc # "ok"
    <3>1. Lists(c, DOMAIN f, "vars" = "tokens") /\ \A r \in Rows(c) : Fresh(r, f[r[1]], U)
      BY <1>8, <2>1 DEF Held, Mirrors
    <3>2. Lists(e, DOMAIN f, "vars" = "tokens") /\ \A r \in Rows(e) : r[1] = k \/ r \in Rows(c)
      BY <1>7, <3>1
    <3>3. \A r \in Rows(e) : Fresh(r, f[r[1]], U \cup {k})
      BY <3>1, <3>2 DEF Fresh
    <3>4. Mirrors("vars", e, f, U \cup {k})
      BY <3>2, <3>3 DEF Mirrors
    <3> QED BY <2>1, <3>4 DEF Held
  <2>2. CASE o.pc = "ok" /\ o.kind = "save"
    <3>1. PICK K : /\ Lists(c, K, "vars" = "tokens") /\ DOMAIN f = K \cup {o.k} /\ f[o.k] = o.v
                   /\ \A r \in Rows(c) : r[1] # o.k => Fresh(r, f[r[1]], U)
      BY <1>8, <2>2 DEF Held, SaveDue
    <3>2. Lists(e, K, "vars" = "tokens") /\ \A r \in Rows(e) : r[1] = k \/ r \in Rows(c)
      BY <1>7, <3>1
    <3>3. \A r \in Rows(e) : r[1] # o.k => Fresh(r, f[r[1]], U \cup {k})
      BY <3>1, <3>2 DEF Fresh
    <3>4. SaveDue("vars", e, f, U \cup {k}, o.k, o.v)
      BY <3>1, <3>2, <3>3 DEF SaveDue
    <3> QED BY <2>2, <3>4 DEF Held
  <2>3. CASE o.pc = "ok" /\ o.kind = "remove"
    <3>1. PICK K : /\ Lists(c, K, "vars" = "tokens") /\ DOMAIN f = K \ {o.k}
                   /\ \A r \in Rows(c) : r[1] # o.k => Fresh(r, f[r[1]], U)
      BY <1>8, <2>3 DEF Held, RemoveDue
    <3>2. Lists(e, K, "vars" = "tokens") /\ \A r \in Rows(e) : r[1] = k \/ r \in Rows(c)
      BY <1>7, <3>1
    <3>3. \A r \in Rows(e) : r[1] # o.k => Fresh(r, f[r[1]], U \cup {k})
      BY <3>1, <3>2 DEF Fresh
    <3>4. RemoveDue("vars", e, f, U \cup {k}, o.k)
      BY <3>1, <3>2, <3>3 DEF RemoveDue
    <3> QED BY <2>3, <3>4 DEF Held
  <2>4. o.pc = "ok" => o.kind = "save" \/ o.kind = "remove"
    BY <1>8 DEF IsCall, NoOp
  <2> QED BY <2>1, <2>2, <2>3, <2>4
<1>9. IsStore(f) /\ IsCall(o)
  BY <1>2 DEF ListOk
<1>10. ASSUME "vars" \notin missed' PROVE Current("vars")'
  <2>1. Current("vars")
    BY <1>10, Unmarked DEF ListOk
  <2>2. PageOf("vars") \in loaded => Held("vars", o, e, f, U \cup {k})
    BY <1>2, <1>6, <1>8, <1>9, <2>1 DEF Current
  <2> QED BY <1>1, <1>2, <1>5, <1>6, <2>1, <2>2 DEF Current
<1> QED BY <1>1, <1>2, <1>9, <1>10 DEF ListOk

(* the page of l lands *)
LEMMA LandKeeps ==
  ASSUME NEW l \in List \cap Patched, Frame, ListOk(l), Note, NEW x \in loads, LandPage(x), x.page = PageOf(l)
  PROVE  ListOk(l)'
<1>1. op' = op /\ store' = store /\ x.pc = "ok"
  BY DEF LandPage, server
<1>2. l \in On(x.page) \ {"audit"}
  BY DEF On, Patched
<1>3. cache'[l] = x.data[l]
  BY <1>2 DEF LandPage
<1>4. Unsaved(l)' = {}
  <2>1. l = "vars" => x.page = "resources"
    BY DEF PageOf
  <2> QED BY <2>1 DEF Unsaved, LandPage
<1>5. PICK f : f = store[l] /\ IsStore(f)
  BY DEF ListOk
<1>6. ASSUME l \notin missed' PROVE Current(l)'
  <2>1. Current(l)
    BY <1>6, Unmarked DEF ListOk
  <2>2. op[l] = NoOp
    BY <2>1 DEF Current
  <2>3. x.data[l] = Listing(l, f)
    BY <1>1, <1>5, <2>1 DEF Current
  <2>4. NoOp.pc # "ok" /\ NoOp.pc # "sent"
    BY DEF NoOp
  <2>5. Mirrors(l, cache'[l], f, {})
    BY <1>3, <1>5, <2>3, ListingMirrors
  <2>6. Held(l, NoOp, cache'[l], f, {})
    BY <2>4, <2>5 DEF Held
  <2>7. ASSUME NEW z \in loads', z.page = PageOf(l), z.pc = "ok" PROVE z.data[l] = Listing(l, f)
    <3>1. PICK y \in loads :
            z = [y EXCEPT !.kind = IF y.page = x.page /\ @ # "page" THEN "dead" ELSE @]
      BY <2>7 DEF LandPage
    <3>2. PICK q : q = IF y.page = x.page /\ y.kind # "page" THEN "dead" ELSE y.kind
      OBVIOUS
    <3>3. z = [y EXCEPT !.kind = q] /\ IsRequest(y)
      BY <3>1, <3>2 DEF Frame
    <3>4. z.page = y.page /\ z.pc = y.pc /\ z.data = y.data
      BY <3>3 DEF IsRequest
    <3> QED BY <1>5, <2>1, <2>7, <3>4 DEF Current
  <2>8. TokenLast(l, NoOp, f)
    BY <2>4 DEF TokenLast
  <2> QED BY <1>1, <1>4, <1>5, <2>2, <2>6, <2>7, <2>8 DEF Current
<1>7. IsStore(store'[l]) /\ IsCall(op'[l])
  BY <1>1 DEF ListOk
<1> QED BY <1>6, <1>7 DEF ListOk

(* another page lands *)
LEMMA LandApart ==
  ASSUME Frame, NEW x \in loads, LandPage(x)
  PROVE  Frame' /\ \A l \in List \cap Patched : x.page # PageOf(l) => Leaves(l)
<1>1. op' = op /\ store' = store /\ faults' = faults /\ loaded' = loaded \cup {x.page}
  BY DEF LandPage, server, counts
<1>2. PICK q : cache' = [l \in List |-> q[l]]
  <2>1. PICK q : q = [l \in List |-> IF l \in On(x.page) \ {"audit"} THEN x.data[l] ELSE cache[l]]
    OBVIOUS
  <2>2. cache' = q /\ q = [l \in List |-> q[l]]
    BY <2>1 DEF LandPage
  <2> QED BY <2>2
<1>3. ASSUME NEW z \in loads' PROVE IsRequest(z) /\ \A l : OldOrNow(l, z)
  <2>1. PICK y \in loads :
          z = [y EXCEPT !.kind = IF y.page = x.page /\ @ # "page" THEN "dead" ELSE @]
    BY <1>3 DEF LandPage
  <2>2. PICK r : r = IF y.page = x.page /\ y.kind # "page" THEN "dead" ELSE y.kind
    OBVIOUS
  <2>3. z = [y EXCEPT !.kind = r] /\ IsRequest(y)
    BY <2>1, <2>2 DEF Frame
  <2>4. IsRequest(z) /\ z.page = y.page /\ z.pc = y.pc /\ z.data = y.data
    BY <2>3 DEF IsRequest
  <2> QED BY <2>4 DEF OldOrNow
<1>4. Frame'
  <2>1. cache' = [l \in List |-> cache'[l]]
    BY <1>2
  <2> QED BY <1>1, <1>3, <2>1 DEF Frame
<1>5. ASSUME NEW l \in List \cap Patched, x.page # PageOf(l) PROVE Leaves(l)
  <2>1. l \notin On(x.page)
    BY <1>5 DEF On
  <2>2. cache'[l] = cache[l]
    BY <2>1 DEF LandPage
  <2>3. l = "vars" => x.page # "resources"
    BY <1>5 DEF PageOf
  <2>4. Unsaved(l)' = Unsaved(l)
    BY <2>3 DEF Unsaved, LandPage
  <2> QED BY <1>1, <1>3, <1>5, <2>2, <2>4 DEF Leaves
<1> QED BY <1>4, <1>5

LEMMA SavedKeeps ==
  ASSUME NEW l \in List \cap Patched, Frame, ListOk(l), Note, ServeSave(l)
  PROVE  ListOk(l)'
<1>1. cache' = cache /\ typed' = typed /\ loaded' = loaded /\ loads' = loads
  BY DEF ServeSave, memory
<1>2. PICK o : o = op[l]
  OBVIOUS
<1>3. IsCall(o) /\ o.pc = "sent" /\ o.kind = "save"
  BY <1>2 DEF ServeSave, Served, ListOk
<1>4. PICK k \in Key, v \in Val : o = [pc |-> "sent", kind |-> "save", k |-> k, v |-> v]
  BY <1>3 DEF IsCall, NoOp
<1>5. o.k = k /\ o.v = v
  BY <1>4
<1>6. PICK f : f = store[l] /\ IsStore(f)
  BY DEF ListOk
<1>7. PICK g : g = Upserted(l, f, k, v)
  OBVIOUS
<1>8. store'[l] = g
  BY <1>2, <1>5, <1>6, <1>7 DEF ServeSave, Frame
<1>9. IsStore(g) /\ g[k] \in Val
  BY <1>6, <1>7, UpsertedIs DEF Saves
<1>10. PICK w : w = g[k]
  OBVIOUS
<1>11. op' = [op EXCEPT ![l].pc = "ok", ![l].v = w]
  BY <1>2, <1>5, <1>8, <1>10 DEF ServeSave
<1>12. PICK u : u = [pc |-> "ok", kind |-> "save", k |-> k, v |-> w]
  OBVIOUS
<1>13. op'[l] = u
  <2>1. op'[l] = [[o EXCEPT !.pc = "ok"] EXCEPT !.v = w]
    BY <1>2, <1>11 DEF Frame
  <2>2. PICK r : r = [o EXCEPT !.pc = "ok"]
    OBVIOUS
  <2>3. r = [pc |-> "ok", kind |-> "save", k |-> k, v |-> v]
    BY <1>4, <2>2
  <2>4. [r EXCEPT !.v = w] = u
    BY <1>12, <2>3
  <2> QED BY <2>1, <2>2, <2>4
<1>14. u.pc = "ok" /\ u.kind = "save" /\ u.k = k /\ u.v = w /\ IsCall(u) /\ u # NoOp
  BY <1>9, <1>10, <1>12 DEF IsCall, NoOp
<1>15. ASSUME l \notin missed' PROVE Current(l)'
  <2>1. Current(l)
    BY <1>15, Unmarked DEF ListOk
  <2>2. \A x \in loads' : x.page # PageOf(l)
    BY <1>13, <1>14, <1>15, Unmarked
  <2>3. PICK c, U : c = cache[l] /\ U = Unsaved(l)
    OBVIOUS
  <2>4. cache'[l] = c /\ Unsaved(l)' = U
    BY <1>1, <2>3 DEF Unsaved
  <2>5. PageOf(l) \in loaded => Held(l, u, c, g, U)
    <3>1. SUFFICES ASSUME PageOf(l) \in loaded PROVE Held(l, u, c, g, U)
      OBVIOUS
    <3>2. Mirrors(l, c, f, U)
      BY <1>2, <1>3, <1>6, <2>1, <2>3, <3>1 DEF Current, Held
    <3>3. l = "tokens" => Above(k, DOMAIN f)
      BY <1>2, <1>3, <1>5, <1>6, <2>1 DEF Current, TokenLast
    <3>4. SaveDue(l, c, g, U, k, g[k])
      BY <1>6, <1>7, <3>2, <3>3, SavedIsDue
    <3>5. SaveDue(l, c, g, U, k, w)
      BY <1>10, <3>4
    <3> QED BY <1>14, <3>5 DEF Held
  <2>6. TokenLast(l, u, g)
    BY <1>14 DEF TokenLast
  <2> QED BY <1>1, <1>8, <1>13, <2>2, <2>4, <2>5, <2>6 DEF Current
<1> QED BY <1>8, <1>9, <1>13, <1>14, <1>15 DEF ListOk

LEMMA RemovedKeeps ==
  ASSUME NEW l \in List \cap Patched, Frame, ListOk(l), Note, ServeRemove(l)
  PROVE  ListOk(l)'
<1>1. cache' = cache /\ typed' = typed /\ loaded' = loaded /\ loads' = loads
  BY DEF ServeRemove, memory
<1>2. PICK o : o = op[l]
  OBVIOUS
<1>3. IsCall(o) /\ o.pc = "sent" /\ o.kind = "remove"
  BY <1>2 DEF ServeRemove, Served, ListOk
<1>4. PICK k \in Key, v \in Val \cup {0} : o = [pc |-> "sent", kind |-> "remove", k |-> k, v |-> v]
  BY <1>3 DEF IsCall, NoOp
<1>5. o.k = k
  BY <1>4
<1>6. PICK f : f = store[l] /\ IsStore(f)
  BY DEF ListOk
<1>7. ASSUME NEW pc \in {"ok", "gone"}, op' = [op EXCEPT ![l].pc = pc]
      PROVE  /\ op'[l] = [pc |-> pc, kind |-> "remove", k |-> k, v |-> v]
             /\ op'[l].pc = pc /\ op'[l].kind = "remove" /\ op'[l].k = k
             /\ IsCall(op'[l]) /\ op'[l] # NoOp
  <2>1. op'[l] = [o EXCEPT !.pc = pc]
    BY <1>2, <1>7 DEF Frame
  <2>2. op'[l] = [pc |-> pc, kind |-> "remove", k |-> k, v |-> v]
    BY <1>4, <2>1
  <2> QED BY <2>2 DEF IsCall, NoOp
<1>8. PICK c, U : c = cache[l] /\ U = Unsaved(l)
  OBVIOUS
<1>9. cache'[l] = c /\ Unsaved(l)' = U
  BY <1>1, <1>8 DEF Unsaved
<1>10. ASSUME l \notin missed' PROVE Current(l) /\ (PageOf(l) \in loaded => Mirrors(l, c, f, U))
  <2>1. Current(l)
    BY <1>10, Unmarked DEF ListOk
  <2> QED BY <1>2, <1>3, <1>6, <1>8, <2>1 DEF Current, Held
<1>11. CASE k \in DOMAIN f
  <2>1. PICK g : g = [j \in DOMAIN f \ {k} |-> f[j]]
    OBVIOUS
  <2>2. store'[l] = g /\ op' = [op EXCEPT ![l].pc = "ok"]
    BY <1>2, <1>5, <1>6, <1>11, <2>1 DEF ServeRemove, Frame
  <2>3. PICK u : u = op'[l]
    OBVIOUS
  <2>4. u.pc = "ok" /\ u.kind = "remove" /\ u.k = k /\ IsCall(u) /\ u # NoOp
    BY <1>7, <2>2, <2>3
  <2>5. IsStore(g)
    <3>1. PICK b \in Nat : \E D \in SUBSET (1..b) : f \in [D -> Val]
      BY <1>6 DEF IsStore
    <3>2. PICK D \in SUBSET (1..b) : f \in [D -> Val]
      BY <3>1
    <3>3. PICK E \in SUBSET (1..b) : E = D \ {k}
      OBVIOUS
    <3>4. g \in [E -> Val]
      BY <2>1, <3>2, <3>3
    <3> QED BY <3>4 DEF IsStore
  <2>6. ASSUME l \notin missed' PROVE Current(l)'
    <3>1. \A x \in loads' : x.page # PageOf(l)
      BY <2>3, <2>4, <2>6, Unmarked
    <3>2. PageOf(l) \in loaded => Held(l, u, c, g, U)
      <4>1. SUFFICES ASSUME PageOf(l) \in loaded PROVE Held(l, u, c, g, U)
        OBVIOUS
      <4>2. Mirrors(l, c, f, U)
        BY <1>10, <2>6, <4>1
      <4>3. RemoveDue(l, c, g, U, k)
        BY <1>6, <2>1, <4>2, RemovedIsDue
      <4> QED BY <2>4, <4>3 DEF Held
    <3>3. TokenLast(l, u, g)
      BY <2>4 DEF TokenLast
    <3> QED BY <1>1, <1>9, <2>2, <2>3, <3>1, <3>2, <3>3 DEF Current
  <2> QED BY <2>2, <2>3, <2>4, <2>5, <2>6 DEF ListOk
<1>12. CASE k \notin DOMAIN f
  <2>1. store' = store /\ op' = [op EXCEPT ![l].pc = "gone"]
    BY <1>2, <1>5, <1>6, <1>12 DEF ServeRemove, server
  <2>2. PICK u : u = op'[l]
    OBVIOUS
  <2>3. u.pc = "gone" /\ IsCall(u) /\ u # NoOp
    BY <1>7, <2>1, <2>2
  <2>4. ASSUME l \notin missed' PROVE Current(l)'
    <3>1. \A x \in loads' : x.page # PageOf(l)
      BY <2>2, <2>3, <2>4, Unmarked
    <3>2. PageOf(l) \in loaded => Held(l, u, c, f, U)
      BY <1>10, <2>3, <2>4 DEF Held
    <3>3. TokenLast(l, u, f)
      BY <2>3 DEF TokenLast
    <3> QED BY <1>1, <1>6, <1>9, <2>1, <2>2, <3>1, <3>2, <3>3 DEF Current
  <2> QED BY <1>6, <2>1, <2>2, <2>3, <2>4 DEF ListOk
<1> QED BY <1>11, <1>12

(* the call on l is over, and the memory shows the rows *)
LEMMA OverKeeps ==
  ASSUME NEW l \in List, ListOk(l), op[l] # NoOp, op'[l] = NoOp,
         store' = store, loads' = loads, loaded' = loaded,
         l \notin missed' => l \notin missed,
         l \notin missed' /\ PageOf(l) \in loaded => Mirrors(l, cache'[l], store[l], Unsaved(l)')
  PROVE  ListOk(l)'
<1>1. NoOp.pc # "ok" /\ NoOp.pc # "sent" /\ IsCall(NoOp)
  BY DEF NoOp, IsCall
<1>2. ASSUME l \notin missed' PROVE Current(l)'
  <2>1. \A x \in loads : x.page # PageOf(l)
    BY <1>2 DEF ListOk, Current
  <2>2. PICK f, c, U : f = store[l] /\ c = cache'[l] /\ U = Unsaved(l)'
    OBVIOUS
  <2>3. PageOf(l) \in loaded => Held(l, NoOp, c, f, U)
    BY <1>1, <1>2, <2>2 DEF Held
  <2>4. TokenLast(l, NoOp, f)
    BY <1>1 DEF TokenLast
  <2> QED BY <2>1, <2>2, <2>3, <2>4 DEF Current
<1> QED BY <1>1, <1>2 DEF ListOk

LEMMA PatchKeeps ==
  ASSUME NEW l \in List \cap Patched, Frame, ListOk(l), Note, PatchList(l)
  PROVE  ListOk(l)'
<1>1. store' = store /\ loads' = loads /\ loaded' = loaded
  BY DEF PatchList, server
<1>2. PICK o : o = op[l]
  OBVIOUS
<1>3. IsCall(o) /\ o.pc = "ok" /\ o # NoOp /\ op'[l] = NoOp
  BY <1>2 DEF PatchList, Returned, ListOk, NoOp, Frame
<1>4. /\ o.k \in Key /\ o.kind \in {"save", "remove"} /\ (o.kind = "save" => o.v \in Val)
  BY <1>3 DEF IsCall
<1>5. PICK k \in Key : k = o.k
  BY <1>4
<1>v. PICK v : v = o.v
  OBVIOUS
<1>6. PICK f, c, U : f = store[l] /\ c = cache[l] /\ U = Unsaved(l)
  OBVIOUS
<1>7. Unsaved(l)' = U \ {k}
  BY <1>2, <1>5, <1>v, <1>6 DEF Unsaved, PatchList
<1>8. cache'[l] = IF o.kind = "save" THEN InPlace(l, c, k, v) ELSE Filtered(c, k)
  BY <1>2, <1>5, <1>v, <1>6 DEF PatchList, Frame
<1>9. IsStore(f)
  BY <1>6 DEF ListOk
<1>10. ASSUME l \notin missed', PageOf(l) \in loaded PROVE Mirrors(l, cache'[l], f, U \ {k})
  <2>1. Current(l)
    BY <1>10, Unmarked DEF ListOk
  <2>2. Held(l, o, c, f, U)
    BY <1>2, <1>6, <1>10, <2>1 DEF Current
  <2>3. CASE o.kind = "save"
    <3>1. SaveDue(l, c, f, U, k, v) /\ v \in Val
      BY <1>3, <1>4, <1>5, <1>v, <2>2, <2>3 DEF Held
    <3>2. Mirrors(l, InPlace(l, c, k, v), f, U \ {k})
      BY <1>9, <3>1, InPlaceMirrors
    <3> QED BY <1>8, <2>3, <3>2
  <2>4. CASE o.kind = "remove"
    <3>1. RemoveDue(l, c, f, U, k)
      BY <1>3, <1>5, <1>v, <2>2, <2>4 DEF Held
    <3>2. Mirrors(l, Filtered(c, k), f, U \ {k})
      BY <3>1, FilteredMirrors
    <3> QED BY <1>8, <2>4, <3>2
  <2> QED BY <1>4, <2>3, <2>4
<1>11. l \notin missed' => l \notin missed
  BY Unmarked
<1> QED BY <1>1, <1>2, <1>3, <1>6, <1>7, <1>10, <1>11, OverKeeps

LEMMA FailsKeeps ==
  ASSUME NEW l \in List \cap Patched, Frame, ListOk(l), Note, OpFails(l)
  PROVE  ListOk(l)'
<1>1. store' = store /\ loads' = loads /\ loaded' = loaded /\ cache' = cache /\ typed' = typed
  BY DEF OpFails, server
<1>2. op[l] # NoOp /\ op'[l] = NoOp
  BY DEF OpFails, Frame
<1>3. ASSUME l \notin missed', PageOf(l) \in loaded
      PROVE  Mirrors(l, cache'[l], store[l], Unsaved(l)')
  <2>1. faults' = faults /\ Current(l)
    BY <1>2, <1>3, Unmarked DEF ListOk
  <2>2. op[l].pc = "gone"
    BY <2>1 DEF OpFails, Frame
  <2>3. Mirrors(l, cache[l], store[l], Unsaved(l))
    BY <1>3, <2>1, <2>2 DEF Current, Held
  <2>4. Unsaved(l)' = Unsaved(l)
    BY <1>1 DEF Unsaved
  <2> QED BY <1>1, <2>3, <2>4
<1>4. l \notin missed' => l \notin missed
  BY Unmarked
<1> QED BY <1>1, <1>2, <1>3, <1>4, OverKeeps

LEMMA UserKeeps ==
  ASSUME ListInv, User, Note
  PROVE  ListInv'
<1>1. Frame /\ \A l \in List \cap Patched : ListOk(l)
  BY DEF ListInv
<1>2. ASSUME Framed PROVE ListInv'
  BY <1>1, <1>2, LeavesKeeps DEF Framed, ListInv
<1>3. ASSUME NEW m \in List, NEW kind, NEW k, NEW v, Call(m, kind, k, v),
             m \in Patched => ListOk(m)'
      PROVE  ListInv'
  <2>1. Alone(m)
    BY <1>1, <1>3, CallAlone
  <2>2. \A l \in List \cap Patched : l # m => ListOk(l)'
    BY <1>1, <2>1, LeavesKeeps DEF Alone
  <2> QED BY <1>3, <2>1, <2>2 DEF Alone, ListInv
<1>4. ASSUME NEW m \in List \cap Patched, NEW k \in Key, Call(m, "remove", k, 0)
      PROVE  ListInv'
  <2>1. ListOk(m)'
    BY <1>1, <1>4, CallKeeps
  <2> QED BY <1>3, <1>4, <2>1
<1>5. ASSUME NEW m \in List \cap Patched, NEW k \in Key, NEW v \in Val, Call(m, "save", k, v),
             m = "tokens" => Above(k, DOMAIN store[m])
      PROVE  ListInv'
  <2>1. ListOk(m)'
    BY <1>1, <1>5, CallKeeps
  <2> QED BY <1>3, <1>5, <2>1
<1>6. CASE ShowApi \/ ShowAIProviders \/ ShowResources \/ ShowAudit \/ ShowWorkers \/ ShowPools
  BY <1>1, <1>2, <1>6, ShowsApart
     DEF ShowApi, ShowAIProviders, ShowResources, ShowAudit, ShowWorkers, ShowPools
<1>7. CASE ShowOther \/ OthersAct
  BY <1>1, <1>2, <1>7, ShowsApart
<1>8. CASE LoadMore
  <2>1. "audit" \in List /\ "audit" \notin Patched /\ Call("audit", "more", Len(AUD.entries), 0)
    BY <1>8 DEF LoadMore, Patched
  <2> QED BY <1>3, <2>1
<1>9. ASSUME NEW k \in Key,
             RevokeToken(k) \/ DelAIProvider(k) \/ DelVar(k) \/ DelConn(k) \/ DelGroup(k)
      PROVE  ListInv'
  <2>1. \E m \in List \cap Patched : Call(m, "remove", k, 0)
    BY <1>9 DEF RevokeToken, DelAIProvider, DelVar, DelConn, DelGroup, Patched
  <2> QED BY <1>4, <2>1
<1>10. ASSUME NEW k \in Key, RemoveWorkerUI(k) \/ ToggleDrainWorker(k) PROVE ListInv'
  <2>1. "workers" \in List /\ "workers" \notin Patched /\ \E kind, v : Call("workers", kind, k, v)
    BY <1>10 DEF RemoveWorkerUI, ToggleDrainWorker, Patched
  <2> QED BY <1>3, <2>1
<1>11. ASSUME NEW k \in Key, NEW v \in Val,
              \/ CreateToken(k, v) \/ AIProviderDialog(k, v) \/ SaveVar(k, v)
              \/ ConnDialog(k, v) \/ GroupDialog(k, v)
       PROVE  ListInv'
  <2>1. \E m \in List \cap Patched :
          Call(m, "save", k, v) /\ (m = "tokens" => Above(k, DOMAIN store[m]))
    BY <1>11 DEF CreateToken, AIProviderDialog, SaveVar, ConnDialog, GroupDialog, Patched, Above
  <2> QED BY <1>5, <2>1
<1>12. ASSUME NEW k \in Key, NEW v \in Val, SavePool(k, v) PROVE ListInv'
  <2>1. "pools" \in List /\ "pools" \notin Patched /\ Call("pools", "save", k, v)
    BY <1>12 DEF SavePool, Patched
  <2> QED BY <1>3, <2>1
<1>13. ASSUME NEW k \in Key, NEW v \in Val, TypeVar(k, v) PROVE ListInv'
  <2>1. "vars" \in List \cap Patched
    BY <1>13 DEF TypeVar, Patched
  <2>2. ListOk("vars")'
    BY <1>1, <1>13, <2>1, TypeVarKeeps
  <2>3. op' = op /\ store' = store /\ loads' = loads /\ loaded' = loaded /\ faults' = faults
    BY <1>13 DEF TypeVar, server
  <2>4. PICK i : cache' = [cache EXCEPT !["vars"][i] = <<k, v>>]
    BY <1>13 DEF TypeVar
  <2>5. cache' = [l \in List |-> cache'[l]] /\ \A l \in List : l # "vars" => cache'[l] = cache[l]
    BY <1>1, <2>4 DEF Frame
  <2>6. (\A z \in loads' : IsRequest(z)) /\ \A l : \A z \in loads' : OldOrNow(l, z)
    BY <1>1, <2>3, FewerLoads
  <2>7. Frame'
    BY <1>1, <2>3, <2>5, <2>6 DEF Frame
  <2>8. \A l \in List : l # "vars" => Leaves(l)
    BY <2>3, <2>5, <2>6 DEF Leaves, Unsaved
  <2>9. \A l \in List \cap Patched : l # "vars" => ListOk(l)'
    BY <1>1, <2>8, LeavesKeeps
  <2> QED BY <2>2, <2>7, <2>9 DEF ListInv
<1> QED BY <1>6, <1>7, <1>8, <1>9, <1>10, <1>11, <1>12, <1>13 DEF User

LEMMA ListInit == Init => ListInv
<1> SUFFICES ASSUME Init PROVE ListInv
  OBVIOUS
<1>1. /\ op = [l \in List |-> NoOp] /\ store = [l \in List |-> [k \in {1} |-> 1]]
      /\ cache = [l \in List |-> <<>>] /\ loads = {} /\ loaded = {} /\ faults = 0
  BY DEF Init
<1>2. Frame
  BY <1>1 DEF Frame
<1>3. PICK f : f = [k \in {1} |-> 1]
  OBVIOUS
<1>4. IsStore(f)
  <2>1. PICK b \in Nat : b = 1
    OBVIOUS
  <2>d. {1} \in SUBSET (1..b)
    BY <2>1
  <2>2. PICK D \in SUBSET (1..b) : D = {1}
    BY <2>d
  <2>3. f \in [D -> Val]
    BY <1>3, <2>2 DEF Val
  <2> QED BY <2>3 DEF IsStore
<1>5. IsCall(NoOp) /\ NoOp.pc # "sent"
  BY DEF IsCall, NoOp
<1>6. ASSUME NEW l \in List PROVE ListOk(l)
  <2>1. op[l] = NoOp /\ store[l] = f
    BY <1>1, <1>3
  <2> QED BY <1>1, <1>4, <1>5, <2>1 DEF ListOk, Current, TokenLast
<1> QED BY <1>2, <1>6 DEF ListInv

LEMMA ListStep == ListInv /\ [Next]_vars => ListInv'
<1> SUFFICES ASSUME ListInv, [Next]_vars PROVE ListInv'
  OBVIOUS
<1>1. Frame /\ \A l \in List \cap Patched : ListOk(l)
  BY DEF ListInv
<1>2. CASE UNCHANGED vars
  <2>1. /\ op' = op /\ store' = store /\ cache' = cache /\ loads' = loads /\ loaded' = loaded
        /\ typed' = typed /\ missed' = missed /\ faults' = faults
    BY <1>2 DEF vars, page, server, memory, counts
  <2> QED BY <1>1, <2>1 DEF ListInv, Frame, ListOk, Current, Unsaved
<1>3. CASE Next
  <2>1. Note
    BY <1>3 DEF Next
  <2>2. ASSUME Framed PROVE ListInv'
    BY <1>1, <2>1, <2>2, LeavesKeeps DEF Framed, ListInv
  <2>3. ASSUME NEW m, Alone(m), m \in List \cap Patched => ListOk(m)' PROVE ListInv'
    <3>1. \A l \in List \cap Patched : l # m => ListOk(l)'
      BY <1>1, <2>1, <2>3, LeavesKeeps DEF Alone
    <3> QED BY <2>3, <3>1 DEF Alone, ListInv
  <2>4. CASE User
    BY <2>1, <2>4, UserKeeps
  <2>5. CASE WorkersPoll
    BY <1>1, <2>2, <2>5, ShowsApart
  <2>6. ASSUME NEW x \in loads, Arrives(x) PROVE ListInv'
    <3>1. CASE LandPage(x)
      <4>1. Frame' /\ \A l \in List \cap Patched : x.page # PageOf(l) => Leaves(l)
        BY <1>1, <3>1, LandApart
      <4>2. ASSUME NEW l \in List \cap Patched PROVE ListOk(l)'
        <5>1. CASE x.page = PageOf(l)
          BY <1>1, <2>1, <3>1, <5>1, LandKeeps
        <5>2. CASE x.page # PageOf(l)
          BY <1>1, <2>1, <4>1, <5>2, LeavesKeeps
        <5> QED BY <5>1, <5>2
      <4> QED BY <4>1, <4>2 DEF ListInv
    <3>2. CASE ServePage(x) \/ LandWorkers(x) \/ LandFailure(x)
      BY <1>1, <2>2, <3>2, AnswersApart
    <3> QED BY <2>6, <3>1, <3>2 DEF Arrives
  <2>7. ASSUME NEW m \in List, Calls(m) PROVE ListInv'
    <3>1. Alone(m)
      BY <1>1, <2>7, ServedAlone DEF Calls
    <3>2. m \in Patched => ListOk(m)'
      BY <1>1, <2>1, <2>7, SavedKeeps, RemovedKeeps, PatchKeeps, FailsKeeps DEF Calls
    <3> QED BY <2>3, <3>1, <3>2
  <2>8. CASE RefreshWorkers \/ PoolSaved \/ ServeMore \/ AppendEntries
    <3>1. Alone("workers") \/ Alone("pools") \/ Alone("audit")
      BY <1>1, <2>8, FetchedAlone
    <3>2. "workers" \notin Patched /\ "pools" \notin Patched /\ "audit" \notin Patched
      BY DEF Patched
    <3> QED BY <2>3, <3>1, <3>2
  <2> QED BY <1>3, <2>4, <2>5, <2>6, <2>7, <2>8 DEF Next
<1> QED BY <1>2, <1>3

(***************************************************************************)
(* The pages that patch their list after a call (aiProviderDialog,         *)
(* saveVar, connDialog, groupDialog, createToken, the deletes) show what   *)
(* fetching it again would show, row by row and in its order, whatever the *)
(* ids, the calls and their order, unless an answer was lost or the page   *)
(* was opened again during a call; rows typed in and not saved differ.     *)
(***************************************************************************)
THEOREM PatchedIsRefetched == Spec => []RefetchShowsTheSame
<1>1. ListInv => RefetchShowsTheSame
  <2>1. SUFFICES ASSUME ListInv, NEW l \in (List \cap Patched) \ missed,
                        op[l] = NoOp, PageOf(l) \in loaded,
                        NEW now, now = Listing(l, store[l])
                 PROVE  /\ Len(cache[l]) = Len(now)
                        /\ \A i \in 1..Len(now) :
                             \/ cache[l][i] = now[i]
                             \/ l = "vars" /\ cache[l][i][1] = now[i][1] /\ now[i][1] \in typed
    BY DEF RefetchShowsTheSame
  <2>2. PICK f, c, U : f = store[l] /\ c = cache[l] /\ U = Unsaved(l)
    OBVIOUS
  <2>3. IsStore(f) /\ Current(l)
    BY <2>1, <2>2 DEF ListInv, ListOk
  <2>4. NoOp.pc # "ok"
    BY DEF NoOp
  <2>5. Mirrors(l, c, f, U)
    BY <2>1, <2>2, <2>3, <2>4 DEF Current, Held
  <2>6. /\ Len(c) = Len(now)
        /\ \A i \in 1..Len(now) : c[i] = now[i] \/ (c[i][1] = now[i][1] /\ now[i][1] \in U)
    BY <2>1, <2>2, <2>3, <2>5, MirrorShows
  <2> QED BY <2>2, <2>6 DEF Unsaved
<1> QED  BY <1>1, ListInit, ListStep, PTL DEF Spec
=============================================================================
