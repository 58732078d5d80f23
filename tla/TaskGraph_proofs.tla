-------------------------- MODULE TaskGraph_proofs --------------------------
(***************************************************************************)
(* The structure of a workflow stays sound and reaches the server, for     *)
(* every set of ids, every workflow opened and every number of edits;      *)
(* hasCycle, topoOrder, the levels of renderGraph and diffLines compute    *)
(* what they are meant to.                                                 *)
(***************************************************************************)
EXTENDS GraphProperties, FiniteSetTheorems, SequenceTheorems, TLAPS

(***************************************************************************)
(* Iteration.  The algorithms are recursive functions over the number of   *)
(* steps taken: such a function exists, and a property of step 0 that each *)
(* step passes on is one of all steps.                                     *)
(***************************************************************************)
(* A set of numbers has a least one. *)
LEMMA Least ==
  ASSUME NEW T, T \in SUBSET Nat, T # {}
  PROVE  \E n \in T : \A k \in T : n <= k
<1> DEFINE R == {ss \in Nat \X Nat : ss[1] < ss[2]}
<1>1. IsWellFoundedOn(R, Nat)
  BY NatLessThanWellFounded DEF OpToRel
<1> HIDE DEF R
<1>2. PICK x \in T : \A y \in T : ~(<<y, x>> \in R)
  BY <1>1, WFMin
<1>3. ASSUME NEW y \in T PROVE x <= y
  <2>1. x \in Nat /\ y \in Nat
    OBVIOUS
  <2>2. ~(y < x)
    <3>1. y < x => <<y, x>> \in R
      BY <2>1 DEF R
    <3> QED BY <1>2, <3>1
  <2> QED BY <2>1, <2>2
<1> QED BY <1>3

(* the first n steps of iterating g from a: step i gets i and what step i - 1 made *)
Chain(S, g, a, n, f) ==
  f \in [0..n -> S] /\ f[0] = a /\ \A i \in 1..n : f[i] = g[<<i, f[i - 1]>>]

(* there are, for every step function and every number *)
LEMMA Iteration ==
  ASSUME NEW S, NEW g \in [Nat \X S -> S], NEW a \in S
  PROVE  \A n \in Nat : \E f : Chain(S, g, a, n, f)
<1> DEFINE P(n, f) == Chain(S, g, a, n, f)
           T == {n \in Nat : ~ \E f : P(n, f)}
<1> USE DEF Chain
<1>1. T = {}
  <2>1. SUFFICES ASSUME T # {} PROVE FALSE
    OBVIOUS
  <2>2. PICK n \in T : \A k \in T : n <= k
    BY <2>1, Least
  <2>3. CASE n = 0
    <3>1. P(0, [i \in 0..0 |-> a])
      OBVIOUS
    <3> QED BY <3>1, <2>3
  <2>4. CASE n # 0
    <3>1. n - 1 \in Nat /\ n - 1 \notin T
      BY <2>2, <2>4
    <3>2. PICK f : P(n - 1, f)
      BY <3>1
    <3>3. P(n, [i \in 0..n |-> IF i = n THEN g[<<n, f[n - 1]>>] ELSE f[i]])
      <4> DEFINE h == [i \in 0..n |-> IF i = n THEN g[<<n, f[n - 1]>>] ELSE f[i]]
      <4>0. n \in Nat /\ n - 1 \in 0..(n-1)
        BY <3>1
      <4>1. f[n - 1] \in S
        BY <3>2, <4>0
      <4>2. h \in [0..n -> S]
        BY <4>1, <3>2, <4>0
      <4>3. h[0] = a
        BY <2>4, <3>2, <4>0
      <4>4. ASSUME NEW i \in 1..n PROVE h[i] = g[<<i, h[i - 1]>>]
        <5>1. i - 1 \in 0..n /\ i - 1 # n /\ h[i - 1] = f[i - 1]
          BY <4>0
        <5>2. CASE i = n
          BY <5>1, <5>2, <4>0
        <5>3. CASE i # n
          <6>1. i \in 1..(n - 1)
            BY <5>3, <4>0
          <6> QED BY <6>1, <5>1, <5>3, <3>2, <4>0
        <5> QED BY <5>2, <5>3
      <4> QED BY <4>2, <4>3, <4>4
    <3> QED BY <3>3
  <2> QED BY <2>3, <2>4
<1> QED BY <1>1

(* What step 0 has and each step passes on, all steps have. *)
LEMMA UpTo ==
  ASSUME NEW n \in Nat, NEW T, 0 \in T, \A i \in 1..n : i - 1 \in T => i \in T
  PROVE  \A i \in 0..n : i \in T
<1> DEFINE W == {i \in 0..n : i \notin T}
<1>1. SUFFICES ASSUME W # {} PROVE FALSE
  OBVIOUS
<1>2. W \in SUBSET Nat
  OBVIOUS
<1>3. PICK i \in W : \A k \in W : i <= k
  <2> HIDE DEF W
  <2> QED BY <1>1, <1>2, Least
<1>4. i \in 1..n
  BY <1>3
<1>5. i - 1 \in 0..n /\ ~(i <= i - 1)
  BY <1>4
<1> QED BY <1>3, <1>4, <1>5


-----------------------------------------------------------------------------
(***************************************************************************)
(* Keep: the part of a list that passes a test, in its order.              *)
(***************************************************************************)
LEMMA RangeOf ==
  ASSUME NEW B, NEW seq \in Seq(B), NEW v
  PROVE  v \in Range(seq) <=> \E k \in 1..Len(seq) : seq[k] = v
BY DEF Range

KeepStep(seq, S, i, x) == IF seq[i] \in S THEN Append(x, seq[i]) ELSE x

KeepRuns(seq, S, B, f) ==
  /\ f \in [0..Len(seq) -> Seq(B)] /\ f[0] = <<>>
  /\ \A i \in 1..Len(seq) : f[i] = KeepStep(seq, S, i, f[i - 1])

LEMMA KeepRun ==
  ASSUME NEW B, NEW seq \in Seq(B), NEW S
  PROVE  \E f : KeepRuns(seq, S, B, f) /\ Keep(seq, S) = f[Len(seq)]
<1> DEFINE g == [p \in Nat \X Seq(B) |->
                   IF p[1] \in 1..Len(seq) THEN KeepStep(seq, S, p[1], p[2]) ELSE p[2]]
<1>1. PICK n \in Nat : n = Len(seq)
  OBVIOUS
<1>2. PICK e \in Seq(B) : e = <<>>
  <2>1. <<>> \in Seq(B)
    OBVIOUS
  <2> QED BY <2>1
<1>3. ASSUME NEW i \in 1..n, NEW x \in Seq(B) PROVE KeepStep(seq, S, i, x) \in Seq(B)
  BY <1>1 DEF KeepStep
<1>4. ASSUME NEW i \in 1..n, NEW x \in Seq(B) PROVE g[<<i, x>>] = KeepStep(seq, S, i, x)
  <2>1. <<i, x>> \in Nat \X Seq(B)
    OBVIOUS
  <2> QED BY <2>1, <1>1
<1>5. g \in [Nat \X Seq(B) -> Seq(B)]
  BY <1>1, <1>3
<1> HIDE DEF g
<1>6. PICK h : Chain(Seq(B), g, e, n, h)
  BY <1>5, Iteration
<1> DEFINE F(x) == x = [i \in 0..n |-> IF i = 0 THEN e ELSE KeepStep(seq, S, i, x[i - 1])]
<1>7. F(h)
  <2>1. h \in [0..n -> Seq(B)] /\ h[0] = e
    BY <1>6 DEF Chain
  <2>2. ASSUME NEW i \in 1..n PROVE h[i] = KeepStep(seq, S, i, h[i - 1])
    <3>1. h[i] = g[<<i, h[i - 1]>>] /\ h[i - 1] \in Seq(B)
      BY <1>6 DEF Chain
    <3> QED BY <3>1, <1>4
  <2> QED BY <2>1, <2>2
<1>8. PICK k : F(k) /\ Keep(seq, S) = k[n]
  <2>1. F(CHOOSE x : F(x))
    BY <1>7
  <2>2. Keep(seq, S) = (CHOOSE x : F(x))[n]
    BY <1>1, <1>2 DEF Keep, KeepStep
  <2> QED BY <2>1, <2>2
<1>9. k[0] = e /\ \A i \in 1..n : k[i] = KeepStep(seq, S, i, k[i - 1])
  BY <1>8
<1>10. \A i \in 0..n : k[i] \in Seq(B)
  <2> DEFINE T == {i \in 0..n : k[i] \in Seq(B)}
  <2>1. 0 \in T
    BY <1>9
  <2>2. ASSUME NEW i \in 1..n, i - 1 \in T PROVE i \in T
    BY <2>2, <1>3, <1>9
  <2> HIDE DEF T
  <2>3. \A i \in 0..n : i \in T
    BY <2>1, <2>2, UpTo
  <2> QED BY <2>3 DEF T
<1>11. k \in [0..n -> Seq(B)]
  BY <1>8, <1>10
<1> QED BY <1>1, <1>2, <1>8, <1>9, <1>11 DEF KeepRuns

(* x is what Keep has of the first i elements *)
Kept(seq, S, i, x) ==
  /\ Len(x) <= i
  /\ \A k \in 1..Len(x) : \E j \in 1..i : x[k] = seq[j] /\ seq[j] \in S
  /\ \A j \in 1..i : seq[j] \in S => \E k \in 1..Len(x) : x[k] = seq[j]
  /\ IsInjective(seq) => \A k, l \in 1..Len(x) : x[k] = x[l] => k = l

(* What Keep returns: the elements asked for, each where it was unique once. *)
LEMMA KeepFacts ==
  ASSUME NEW B, NEW seq \in Seq(B), NEW S
  PROVE  /\ Keep(seq, S) \in Seq(B) /\ Len(Keep(seq, S)) <= Len(seq)
         /\ Range(Keep(seq, S)) = Range(seq) \cap S
         /\ IsInjective(seq) => IsInjective(Keep(seq, S))
<1>1. PICK n \in Nat : n = Len(seq)
  OBVIOUS
<1>2. PICK f : KeepRuns(seq, S, B, f) /\ Keep(seq, S) = f[n]
  BY <1>1, KeepRun
<1>3. /\ f \in [0..n -> Seq(B)] /\ f[0] = <<>>
      /\ \A i \in 1..n : f[i] = KeepStep(seq, S, i, f[i - 1])
  BY <1>1, <1>2 DEF KeepRuns
<1> DEFINE T == {i \in 0..n : Kept(seq, S, i, f[i])}
<1>4. 0 \in T
  <2>1. Kept(seq, S, 0, <<>>)
    BY DEF Kept
  <2> QED BY <1>3, <2>1
<1>5. ASSUME NEW i \in 1..n, i - 1 \in T PROVE i \in T
  <2>2. PICK x \in Seq(B) : x = f[i - 1]
    BY <1>3
  <2>1. Kept(seq, S, i - 1, x)
    BY <1>5, <2>2
  <2>3. f[i] = KeepStep(seq, S, i, x)
    BY <1>3, <2>2
  <2>4. CASE seq[i] \notin S
    <3>1. f[i] = x
      BY <2>3, <2>4 DEF KeepStep
    <3>2. \A j \in 1..i : j = i \/ j \in 1..(i - 1)
      OBVIOUS
    <3>3. Kept(seq, S, i, x)
      BY <2>1, <2>4, <3>2 DEF Kept
    <3> QED BY <3>1, <3>3
  <2>5. CASE seq[i] \in S
    <3>2. seq[i] \in B
      BY <1>1
    <3>1. PICK y \in Seq(B) : y = f[i] /\ y = Append(x, seq[i])
      <4>1. f[i] = Append(x, seq[i])
        BY <2>3, <2>5 DEF KeepStep
      <4>2. Append(x, seq[i]) \in Seq(B)
        BY <3>2
      <4> QED BY <4>1, <4>2
    <3>3. /\ Len(y) = Len(x) + 1 /\ y[Len(x) + 1] = seq[i]
          /\ \A k \in 1..Len(x) : y[k] = x[k]
      BY <3>1, <3>2
    <3>4. Len(x) \in Nat /\ \A k \in 1..Len(y) : k \in 1..Len(x) \/ k = Len(x) + 1
      BY <3>3
    <3>5. \A j \in 1..i : j = i \/ j \in 1..(i - 1)
      OBVIOUS
    <3>6. Len(y) <= i
      BY <2>1, <3>3, <3>4 DEF Kept
    <3>7. \A k \in 1..Len(y) : \E j \in 1..i : y[k] = seq[j] /\ seq[j] \in S
      <4>1. i \in 1..i /\ \A j \in 1..(i - 1) : j \in 1..i
        OBVIOUS
      <4>2. ASSUME NEW k \in 1..Len(x) PROVE \E j \in 1..i : y[k] = seq[j] /\ seq[j] \in S
        BY <2>1, <3>3, <4>1 DEF Kept
      <4>3. y[Len(x) + 1] = seq[i]
        BY <3>3
      <4> QED BY <2>5, <3>4, <4>1, <4>2, <4>3
    <3>8. \A j \in 1..i : seq[j] \in S => \E k \in 1..Len(y) : y[k] = seq[j]
      <4>1. \A k \in 1..Len(x) : k \in 1..Len(y)
        BY <3>3, <3>4
      <4>2. Len(x) + 1 \in 1..Len(y)
        BY <3>3, <3>4
      <4> QED BY <2>1, <3>3, <3>5, <4>1, <4>2 DEF Kept
    <3>9. ASSUME IsInjective(seq), NEW k \in 1..Len(y), NEW l \in 1..Len(y), y[k] = y[l] PROVE k = l
      <4>1. ASSUME NEW j \in 1..(i - 1) PROVE seq[j] # seq[i]
        <5>1. j \in 1..Len(seq) /\ i \in 1..Len(seq) /\ j # i
          BY <1>1
        <5>2. DOMAIN seq = 1..Len(seq)
          OBVIOUS
        <5>3. \A u, v \in DOMAIN seq : seq[u] = seq[v] => u = v
          BY <3>9 DEF IsInjective
        <5> QED BY <5>1, <5>2, <5>3
      <4>2. \A j \in 1..Len(x) : x[j] # seq[i]
        BY <2>1, <4>1 DEF Kept
      <4>3. CASE k \in 1..Len(x) /\ l \in 1..Len(x)
        <5>1. x[k] = x[l]
          BY <3>3, <3>9, <4>3
        <5>2. \A u, v \in 1..Len(x) : x[u] = x[v] => u = v
          BY <2>1, <3>9 DEF Kept
        <5> QED BY <4>3, <5>1, <5>2
      <4>4. CASE k \in 1..Len(x) /\ l = Len(x) + 1
        BY <3>3, <3>9, <4>2, <4>4
      <4>5. CASE l \in 1..Len(x) /\ k = Len(x) + 1
        BY <3>3, <3>9, <4>2, <4>5
      <4>6. CASE k = Len(x) + 1 /\ l = Len(x) + 1
        BY <4>6
      <4>7. (k \in 1..Len(x) \/ k = Len(x) + 1) /\ (l \in 1..Len(x) \/ l = Len(x) + 1)
        BY <3>4
      <4> QED BY <4>3, <4>4, <4>5, <4>6, <4>7, Zenon
    <3>10. Kept(seq, S, i, y)
      BY <3>6, <3>7, <3>8, <3>9 DEF Kept
    <3>11. Kept(seq, S, i, f[i])
      BY <3>1, <3>10, Zenon
    <3>12. i \in 0..n
      OBVIOUS
    <3> QED BY <3>11, <3>12
  <2> QED BY <2>4, <2>5
<1>7. PICK x \in Seq(B) : x = Keep(seq, S) /\ x = f[n]
  BY <1>2, <1>3
<1>6. Kept(seq, S, n, x)
  <2> HIDE DEF T
  <2>1. \A i \in 0..n : i \in T
    BY <1>4, <1>5, UpTo
  <2>2. n \in T
    BY <2>1
  <2> QED BY <2>2, <1>7 DEF T
<1>8. Range(x) = Range(seq) \cap S
  <2>2. ASSUME NEW v \in Range(x) PROVE v \in Range(seq) \cap S
    <3>1. PICK k \in 1..Len(x) : x[k] = v
      BY RangeOf
    <3>2. PICK j \in 1..n : x[k] = seq[j] /\ seq[j] \in S
      BY <1>6 DEF Kept
    <3> QED BY <1>1, <3>1, <3>2, RangeOf
  <2>3. ASSUME NEW v \in Range(seq) \cap S PROVE v \in Range(x)
    <3>1. PICK j \in 1..n : seq[j] = v
      BY <1>1, RangeOf
    <3>2. PICK k \in 1..Len(x) : x[k] = seq[j]
      BY <1>6, <3>1 DEF Kept
    <3> QED BY <3>1, <3>2, RangeOf
  <2> QED BY <2>2, <2>3
<1>9. IsInjective(seq) => IsInjective(x)
  <2>1. DOMAIN x = 1..Len(x)
    OBVIOUS
  <2>2. IsInjective(seq) => \A k, l \in 1..Len(x) : x[k] = x[l] => k = l
    BY <1>6 DEF Kept
  <2>3. (\A k, l \in 1..Len(x) : x[k] = x[l] => k = l) => IsInjective(x)
    BY <2>1 DEF IsInjective
  <2> QED BY <2>2, <2>3
<1> QED BY <1>1, <1>6, <1>7, <1>8, <1>9 DEF Kept

-----------------------------------------------------------------------------
(***************************************************************************)
(* hasCycle.  A step of its search pops the first thing to do: it closes a *)
(* task, opens one, or meets one that is open or done.                     *)
(***************************************************************************)
LEMMA IdsOf ==
  ASSUME NEW m, WellFormed(m)
  PROVE  /\ m.ids \in Seq(Id) /\ m.ids \in Seq(Ids(m)) /\ Ids(m) = Range(m.ids)
         /\ Ids(m) \subseteq Nat \ {0} /\ Ids(m) \subseteq Id
         /\ m.deps \in [Ids(m) -> SUBSET Ids(m)]
<1>1. m.ids \in Seq(Id) /\ m.deps \in [Ids(m) -> SUBSET Ids(m)]
  BY DEF WellFormed
<1>2. PICK s \in Seq(Id) : s = m.ids
  BY <1>1
<1>3. Ids(m) = Range(s)
  BY <1>2 DEF Ids, Range
<1>4. \A k \in 1..Len(s) : s[k] \in Range(s)
  BY RangeOf
<1>5. s \in Seq(Range(s)) /\ Range(s) \subseteq Id
  BY <1>4, RangeOf
<1>6. Id \subseteq Nat \ {0}
  BY GraphAssumption
<1> QED BY <1>1, <1>2, <1>3, <1>5, <1>6

Todo(m) == Ids(m) \cup {-id : id \in Ids(m)}

Search(m) == [color : [Ids(m) -> 0..2], cyc : BOOLEAN, work : Seq(Todo(m))]

SearchStart(m) == [color |-> [id \in Ids(m) |-> 0], cyc |-> FALSE, work |-> m.ids]

Popped(w, v) == Len(v) = Len(w) - 1 /\ \A k \in 1..Len(v) : v[k] = w[k + 1]

Closes(st, nx, id) ==
  /\ st.work[1] = -id
  /\ nx.color = [st.color EXCEPT ![id] = 2] /\ nx.cyc = st.cyc
  /\ Popped(st.work, nx.work)

Meets(st, nx, id) ==
  /\ st.work[1] = id /\ st.color[id] # 0
  /\ nx.color = st.color /\ nx.cyc = (st.cyc \/ st.color[id] = 1)
  /\ Popped(st.work, nx.work)

(* opening id replaces it by the n dependencies and the end of its visit *)
Pushed(w, v, D, id, n) ==
  /\ Len(v) = Len(w) + n
  /\ \A k \in 1..n : v[k] \in D
  /\ \A d \in D : \E k \in 1..n : v[k] = d
  /\ v[n + 1] = -id
  /\ \A k \in (n + 2)..Len(v) : v[k] = w[k - n]

Opens(m, st, nx, id) ==
  /\ st.work[1] = id /\ st.color[id] = 0
  /\ nx.color = [st.color EXCEPT ![id] = 1] /\ nx.cyc = st.cyc
  /\ \E n \in 0..Len(m.ids) : Pushed(st.work, nx.work, m.deps[id], id, n)

LEMMA PushDoes ==
  ASSUME NEW B, NEW K \in Seq(B), NEW w \in Seq(B), w # <<>>, NEW e \in B, NEW D, Range(K) = D
  PROVE  LET v == K \o (<<e>> \o Tail(w))
         IN /\ v \in Seq(B) /\ Len(v) = Len(w) + Len(K)
            /\ \A k \in 1..Len(K) : v[k] \in D
            /\ \A d \in D : \E k \in 1..Len(K) : v[k] = d
            /\ v[Len(K) + 1] = e
            /\ \A k \in (Len(K) + 2)..Len(v) : v[k] = w[k - Len(K)]
<1>1. PICK t \in Seq(B) : t = Tail(w)
  <2>1. Tail(w) \in Seq(B)
    OBVIOUS
  <2> QED BY <2>1
<1>2. Len(t) = Len(w) - 1 /\ \A k \in 1..Len(t) : t[k] = w[k + 1]
  BY <1>1
<1>3. PICK u \in Seq(B) : u = <<e>> \o t
  <2>1. <<e>> \o t \in Seq(B)
    OBVIOUS
  <2> QED BY <2>1
<1>4. Len(u) = Len(w) /\ u[1] = e /\ \A k \in 2..Len(u) : u[k] = w[k]
  <2>1. Len(u) = 1 + Len(t) /\ u[1] = e /\ \A k \in 2..(1 + Len(t)) : u[k] = t[k - 1]
    BY <1>3
  <2>2. \A k \in 2..(1 + Len(t)) : k - 1 \in 1..Len(t) /\ (k - 1) + 1 = k
    OBVIOUS
  <2> QED BY <1>2, <2>1, <2>2
<1>5. PICK v \in Seq(B) : v = K \o u
  <2>1. K \o u \in Seq(B)
    OBVIOUS
  <2> QED BY <2>1
<1>6. /\ Len(v) = Len(K) + Len(u)
      /\ \A k \in 1..Len(K) : v[k] = K[k]
      /\ \A k \in (Len(K) + 1)..Len(v) : v[k] = u[k - Len(K)]
  BY <1>5
<1>7. Len(w) >= 1
  OBVIOUS
<1>8. \A k \in 1..Len(K) : v[k] \in D
  BY <1>6, RangeOf
<1>9. \A d \in D : \E k \in 1..Len(K) : v[k] = d
  BY <1>6, RangeOf
<1>10. v[Len(K) + 1] = e
  <2>1. Len(K) + 1 \in (Len(K) + 1)..Len(v) /\ (Len(K) + 1) - Len(K) = 1
    BY <1>4, <1>6, <1>7
  <2>2. v[Len(K) + 1] = u[(Len(K) + 1) - Len(K)]
    BY <1>6, <2>1
  <2> QED BY <1>4, <2>1, <2>2
<1>11. ASSUME NEW k \in (Len(K) + 2)..Len(v) PROVE v[k] = w[k - Len(K)]
  <2>1. k - Len(K) \in 2..Len(u) /\ k \in (Len(K) + 1)..Len(v)
    BY <1>6
  <2> QED BY <1>4, <1>6, <2>1
<1> QED BY <1>1, <1>3, <1>4, <1>5, <1>6, <1>8, <1>9, <1>10, <1>11

(* A step of the search is one of the three, or there is nothing left to do. *)
LEMMA VisitDoes ==
  ASSUME NEW m, WellFormed(m), NEW st \in Search(m)
  PROVE  LET nx == Visit(m, st)
         IN /\ nx \in Search(m)
            /\ st.work = <<>> => nx = st
            /\ st.work # <<>> =>
                 \E id \in Ids(m) : Closes(st, nx, id) \/ Opens(m, st, nx, id) \/ Meets(st, nx, id)
<1>1. /\ st.work \in Seq(Todo(m)) /\ st.color \in [Ids(m) -> 0..2] /\ st.cyc \in BOOLEAN
      /\ st = [color |-> st.color, cyc |-> st.cyc, work |-> st.work]
  BY DEF Search
<1>2. PICK w \in Seq(Todo(m)) : w = st.work
  BY <1>1
<1>3. PICK nx : nx = Visit(m, st)
  OBVIOUS
<1>4. CASE w = <<>>
  <2>1. nx = st
    BY <1>2, <1>3, <1>4 DEF Visit
  <2> QED BY <1>2, <1>3, <1>4, <2>1
<1>5. CASE w # <<>>
  <2>1. PICK h \in Todo(m) : h = Head(w) /\ h = w[1]
    <3>1. Head(w) = w[1] /\ w[1] \in Todo(m)
      BY <1>5
    <3> QED BY <3>1
  <2>2. PICK t \in Seq(Todo(m)) : t = Tail(w) /\ Popped(w, t)
    <3>1. Tail(w) \in Seq(Todo(m)) /\ Popped(w, Tail(w))
      BY <1>5 DEF Popped
    <3> QED BY <3>1
  <2>3. Ids(m) \subseteq Nat \ {0}
    BY IdsOf
  <2>4. CASE h < 0
    <3>1. PICK id \in Ids(m) : h = -id
      BY <2>3, <2>4 DEF Todo
    <3>2. -h = id
      BY <2>3, <3>1
    <3>3. nx = [color |-> [st.color EXCEPT ![id] = 2], cyc |-> st.cyc, work |-> t]
      BY <1>2, <1>3, <1>5, <2>1, <2>2, <2>4, <3>2 DEF Visit
    <3>4. nx \in Search(m)
      BY <1>1, <3>3 DEF Search
    <3>5. Closes(st, nx, id)
      BY <1>2, <2>1, <2>2, <3>1, <3>3 DEF Closes
    <3> QED BY <1>2, <1>3, <1>5, <3>4, <3>5
  <2>5. CASE ~(h < 0)
    <3>1. h \in Ids(m)
      BY <2>3, <2>5 DEF Todo
    <3>2. CASE st.color[h] = 0
      <4>1. PICK K : K = Keep(m.ids, m.deps[h])
        OBVIOUS
      <4>2. /\ K \in Seq(Ids(m)) /\ Len(K) <= Len(m.ids) /\ Range(K) = m.deps[h]
            /\ Len(K) \in 0..Len(m.ids)
        <5>1. m.ids \in Seq(Ids(m)) /\ Ids(m) = Range(m.ids) /\ m.deps[h] \subseteq Ids(m)
          BY <3>1, IdsOf
        <5>2. PICK s \in Seq(Ids(m)) : s = m.ids
          BY <5>1
        <5>3. K \in Seq(Ids(m)) /\ Len(K) <= Len(s) /\ Range(K) = Range(s) \cap m.deps[h]
          BY <4>1, <5>2, KeepFacts
        <5> QED BY <5>1, <5>2, <5>3
      <4>3. K \in Seq(Todo(m)) /\ -h \in Todo(m)
        BY <3>1, <4>2 DEF Todo
      <4>4. PICK v : v = K \o (<<-h>> \o t)
        OBVIOUS
      <4>5. v \in Seq(Todo(m)) /\ Pushed(w, v, m.deps[h], h, Len(K))
        BY <1>5, <2>2, <4>2, <4>3, <4>4, PushDoes DEF Pushed
      <4>6. nx = [color |-> [st.color EXCEPT ![h] = 1], cyc |-> st.cyc, work |-> v]
        BY <1>2, <1>3, <1>5, <2>1, <2>2, <2>5, <3>2, <4>1, <4>4 DEF Visit
      <4>7. nx \in Search(m)
        BY <1>1, <3>1, <4>5, <4>6 DEF Search
      <4>8. Opens(m, st, nx, h)
        BY <1>2, <2>1, <3>2, <4>2, <4>5, <4>6 DEF Opens
      <4> QED BY <1>2, <1>3, <1>5, <3>1, <4>7, <4>8
    <3>3. CASE st.color[h] # 0
      <4>1. nx = [color |-> st.color, cyc |-> (st.cyc \/ st.color[h] = 1), work |-> t]
        BY <1>2, <1>3, <1>5, <2>1, <2>2, <2>5, <3>3 DEF Visit
      <4>2. nx \in Search(m)
        BY <1>1, <4>1 DEF Search
      <4>3. Meets(st, nx, h)
        BY <1>2, <2>1, <2>2, <3>3, <4>1 DEF Meets
      <4> QED BY <1>2, <1>3, <1>5, <3>1, <4>2, <4>3
    <3> QED BY <3>2, <3>3
  <2> QED BY <2>4, <2>5
<1> QED BY <1>4, <1>5

(***************************************************************************)
(* The invariant of the search.  Every task is open, done or still to be   *)
(* visited; the ends still to do are those of the open tasks; an end waits *)
(* for what its task depends on; what is before an end, up to the one      *)
(* before it, is a dependency of its task; what is done has no cycle.      *)
(***************************************************************************)
Seen(m, c, w) == \A id \in Ids(m) : c[id] # 0 \/ \E k \in 1..Len(w) : w[k] = id

Ended(m, c, w) == \A id \in Ids(m) : c[id] = 1 <=> \E k \in 1..Len(w) : w[k] = -id

Once(w) == \A k, l \in 1..Len(w) : w[k] < 0 /\ w[k] = w[l] => k = l

Waits(m, c, w) ==
  \A k \in 1..Len(w) : \A id \in Ids(m) : w[k] = -id =>
    \A d \in m.deps[id] : c[d] = 2 \/ \E l \in 1..(k - 1) : w[l] = d \/ w[l] = -d

Stacked(m, w) ==
  \A k, l \in 1..Len(w) : \A id \in Ids(m) :
    (k < l /\ w[l] = -id /\ \A j \in (k + 1)..(l - 1) : ~(w[j] < 0)) =>
      w[k] \in m.deps[id] \/ -w[k] \in m.deps[id]

DoneFirst(m, c) == \A id \in Ids(m) : c[id] = 2 => \A d \in m.deps[id] : c[d] = 2

DoneAcyclic(m, c) ==
  \A S : S \subseteq Ids(m) /\ S # {} /\ (\A id \in S : c[id] = 2) => \E id \in S : m.deps[id] \cap S = {}

Shape(m, c, w) == Ended(m, c, w) /\ Once(w) /\ Stacked(m, w) /\ Seen(m, c, w)

LEMMA PopKeeps ==
  ASSUME NEW m, WellFormed(m), NEW w \in Seq(Todo(m)), w # <<>>, NEW v \in Seq(Todo(m)), Popped(w, v)
  PROVE  /\ Once(w) => Once(v)
         /\ Stacked(m, w) => Stacked(m, v)
         /\ \A x : (\E k \in 1..Len(v) : v[k] = x) => \E k \in 1..Len(w) : w[k] = x
         /\ \A x : (\E k \in 1..Len(w) : w[k] = x) => x = w[1] \/ \E k \in 1..Len(v) : v[k] = x
<1>1. Len(v) \in Nat /\ Len(w) = Len(v) + 1 /\ \A k \in 1..Len(v) : v[k] = w[k + 1] /\ k + 1 \in 1..Len(w)
  BY DEF Popped
<1>2. ASSUME Once(w) PROVE Once(v)
  BY <1>1, <1>2 DEF Once
<1>3. ASSUME Stacked(m, w) PROVE Stacked(m, v)
  <2> SUFFICES ASSUME NEW k \in 1..Len(v), NEW l \in 1..Len(v), NEW id \in Ids(m),
                      k < l, v[l] = -id, \A j \in (k + 1)..(l - 1) : ~(v[j] < 0)
               PROVE  v[k] \in m.deps[id] \/ -v[k] \in m.deps[id]
    BY DEF Stacked
  <2>1. w[l + 1] = -id /\ w[k + 1] = v[k] /\ k + 1 < l + 1 /\ k + 1 \in 1..Len(w) /\ l + 1 \in 1..Len(w)
    BY <1>1
  <2>2. ASSUME NEW j \in ((k + 1) + 1)..((l + 1) - 1) PROVE ~(w[j] < 0)
    <3>1. j - 1 \in (k + 1)..(l - 1) /\ j - 1 \in 1..Len(v) /\ (j - 1) + 1 = j
      BY <1>1
    <3> QED BY <1>1, <3>1
  <2> QED BY <1>3, <2>1, <2>2 DEF Stacked
<1>4. ASSUME NEW k \in 1..Len(w) PROVE w[k] = w[1] \/ \E j \in 1..Len(v) : v[j] = w[k]
  <2>1. CASE k # 1
    <3>1. k - 1 \in 1..Len(v) /\ (k - 1) + 1 = k
      BY <1>1, <2>1
    <3> QED BY <1>1, <3>1
  <2> QED BY <2>1
<1> QED BY <1>1, <1>2, <1>3, <1>4

LEMMA CloseKeeps ==
  ASSUME NEW m, WellFormed(m), NEW c \in [Ids(m) -> 0..2], NEW w \in Seq(Todo(m)), w # <<>>,
         NEW v \in Seq(Todo(m)), NEW id \in Ids(m), w[1] = -id, Popped(w, v), Shape(m, c, w),
         NEW d \in [Ids(m) -> 0..2], d[id] = 2, \A x \in Ids(m) : x # id => d[x] = c[x]
  PROVE  /\ Shape(m, d, v) /\ c[id] = 1
         /\ Waits(m, c, w) /\ DoneFirst(m, c) /\ DoneAcyclic(m, c) =>
              Waits(m, d, v) /\ DoneFirst(m, d) /\ DoneAcyclic(m, d)
<1>1. Ids(m) \subseteq Nat \ {0} /\ m.deps \in [Ids(m) -> SUBSET Ids(m)]
  BY IdsOf
<1>2. Len(v) \in Nat /\ Len(w) = Len(v) + 1 /\ \A k \in 1..Len(v) : v[k] = w[k + 1] /\ k + 1 \in 1..Len(w)
  BY DEF Popped
<1>3. /\ Once(v) /\ Stacked(m, v)
      /\ \A x : (\E k \in 1..Len(v) : v[k] = x) => \E k \in 1..Len(w) : w[k] = x
      /\ \A x : (\E k \in 1..Len(w) : w[k] = x) => x = w[1] \/ \E k \in 1..Len(v) : v[k] = x
  BY PopKeeps DEF Shape
<1>4. c[id] = 1
  BY <1>2 DEF Shape, Ended
<1>5. \A k \in 1..Len(v) : v[k] # -id
  BY <1>1, <1>2 DEF Shape, Once
<1>6. d[id] = 2 /\ \A x \in Ids(m) : x # id => d[x] = c[x]
  OBVIOUS
<1>7. Ended(m, d, v)
  <2> SUFFICES ASSUME NEW x \in Ids(m) PROVE d[x] = 1 <=> \E k \in 1..Len(v) : v[k] = -x
    BY DEF Ended
  <2>1. CASE x = id
    BY <1>5, <1>6, <2>1
  <2>2. CASE x # id
    <3>1. -x # -id
      BY <1>1, <2>2
    <3>2. (\E k \in 1..Len(v) : v[k] = -x) <=> (\E k \in 1..Len(w) : w[k] = -x)
      BY <1>3, <3>1
    <3> QED BY <1>6, <2>2, <3>2 DEF Shape, Ended
  <2> QED BY <2>1, <2>2
<1>8. Seen(m, d, v)
  <2> SUFFICES ASSUME NEW x \in Ids(m), d[x] = 0 PROVE \E k \in 1..Len(v) : v[k] = x
    BY DEF Seen
  <2>1. c[x] = 0 /\ x # -id
    BY <1>1, <1>6
  <2> QED BY <1>3, <2>1 DEF Shape, Seen
<1>9. ASSUME Waits(m, c, w), DoneFirst(m, c), DoneAcyclic(m, c)
      PROVE  Waits(m, d, v) /\ DoneFirst(m, d) /\ DoneAcyclic(m, d)
  <2>1. \A x \in m.deps[id] : c[x] = 2
    <3>1. 1 \in 1..Len(w) /\ 1..(1 - 1) = {}
      BY <1>2
    <3> QED BY <1>9, <3>1 DEF Waits
  <2>2. DoneFirst(m, d)
    <3> SUFFICES ASSUME NEW x \in Ids(m), d[x] = 2, NEW y \in m.deps[x] PROVE d[y] = 2
      BY DEF DoneFirst
    <3>1. y \in Ids(m)
      BY <1>1
    <3> QED BY <1>6, <1>9, <2>1, <3>1 DEF DoneFirst
  <2>3. DoneAcyclic(m, d)
    <3> SUFFICES ASSUME NEW S, S \subseteq Ids(m), S # {}, \A x \in S : d[x] = 2
                 PROVE  \E x \in S : m.deps[x] \cap S = {}
      BY DEF DoneAcyclic
    <3> DEFINE U == S \ {id}
    <3>1. U \subseteq Ids(m) /\ \A x \in U : c[x] = 2
      BY <1>6
    <3>2. CASE U = {}
      <4>1. S = {id} /\ id \notin m.deps[id]
        BY <1>4, <2>1, <3>2
      <4> QED BY <4>1
    <3>3. CASE U # {}
      <4>1. PICK x \in U : m.deps[x] \cap U = {}
        <5> HIDE DEF U
        <5> QED BY <1>9, <3>1, <3>3 DEF DoneAcyclic
      <4>2. id \notin m.deps[x]
        BY <1>4, <1>9, <3>1 DEF DoneFirst
      <4> QED BY <4>1, <4>2
    <3> QED BY <3>2, <3>3
  <2>4. Waits(m, d, v)
    <3> SUFFICES ASSUME NEW k \in 1..Len(v), NEW x \in Ids(m), v[k] = -x, NEW y \in m.deps[x], d[y] # 2
                 PROVE  \E l \in 1..(k - 1) : v[l] = y \/ v[l] = -y
      BY DEF Waits
    <3>1. y \in Ids(m) /\ y # id /\ c[y] # 2
      BY <1>1, <1>6
    <3>2. PICK l \in 1..((k + 1) - 1) : w[l] = y \/ w[l] = -y
      BY <1>2, <1>9, <3>1 DEF Waits
    <3>3. l # 1
      BY <1>1, <3>1, <3>2
    <3>4. l - 1 \in 1..(k - 1) /\ l - 1 \in 1..Len(v) /\ (l - 1) + 1 = l
      BY <1>2, <3>3
    <3> QED BY <1>2, <3>2, <3>4
  <2> QED BY <2>2, <2>3, <2>4
<1> QED BY <1>3, <1>4, <1>7, <1>8, <1>9 DEF Shape

LEMMA MeetKeeps ==
  ASSUME NEW m, WellFormed(m), NEW c \in [Ids(m) -> 0..2], NEW w \in Seq(Todo(m)), w # <<>>,
         NEW v \in Seq(Todo(m)), NEW id \in Ids(m), w[1] = id, c[id] # 0, Popped(w, v), Shape(m, c, w)
  PROVE  /\ Shape(m, c, v)
         /\ c[id] = 2 /\ Waits(m, c, w) => Waits(m, c, v)
<1>1. Ids(m) \subseteq Nat \ {0} /\ m.deps \in [Ids(m) -> SUBSET Ids(m)]
  BY IdsOf
<1>2. Len(v) \in Nat /\ Len(w) = Len(v) + 1 /\ \A k \in 1..Len(v) : v[k] = w[k + 1] /\ k + 1 \in 1..Len(w)
  BY DEF Popped
<1>3. /\ Once(v) /\ Stacked(m, v)
      /\ \A x : (\E k \in 1..Len(v) : v[k] = x) => \E k \in 1..Len(w) : w[k] = x
      /\ \A x : (\E k \in 1..Len(w) : w[k] = x) => x = w[1] \/ \E k \in 1..Len(v) : v[k] = x
  BY PopKeeps DEF Shape
<1>4. Ended(m, c, v)
  <2> SUFFICES ASSUME NEW x \in Ids(m) PROVE c[x] = 1 <=> \E k \in 1..Len(v) : v[k] = -x
    BY DEF Ended
  <2>1. -x # id
    BY <1>1
  <2>2. (\E k \in 1..Len(v) : v[k] = -x) <=> (\E k \in 1..Len(w) : w[k] = -x)
    BY <1>3, <2>1
  <2> QED BY <2>2 DEF Shape, Ended
<1>5. Seen(m, c, v)
  <2> SUFFICES ASSUME NEW x \in Ids(m), c[x] = 0 PROVE \E k \in 1..Len(v) : v[k] = x
    BY DEF Seen
  <2> QED BY <1>3 DEF Shape, Seen
<1>6. ASSUME c[id] = 2, Waits(m, c, w) PROVE Waits(m, c, v)
  <2> SUFFICES ASSUME NEW k \in 1..Len(v), NEW x \in Ids(m), v[k] = -x, NEW y \in m.deps[x], c[y] # 2
               PROVE  \E l \in 1..(k - 1) : v[l] = y \/ v[l] = -y
    BY DEF Waits
  <2>1. y \in Ids(m) /\ y # id
    BY <1>1, <1>6
  <2>2. PICK l \in 1..((k + 1) - 1) : w[l] = y \/ w[l] = -y
    BY <1>2, <1>6, <2>1 DEF Waits
  <2>3. l # 1
    BY <1>1, <2>1, <2>2
  <2>4. l - 1 \in 1..(k - 1) /\ l - 1 \in 1..Len(v) /\ (l - 1) + 1 = l
    BY <1>2, <2>3
  <2> QED BY <1>2, <2>2, <2>4
<1> QED BY <1>3, <1>4, <1>5, <1>6 DEF Shape

(* Meeting an open task: the tasks whose ends come up to that of the one met each
   wait for one of them. *)
LEMMA MeetingIsACycle ==
  ASSUME NEW m, WellFormed(m), NEW c \in [Ids(m) -> 0..2], NEW w \in Seq(Todo(m)), w # <<>>,
         NEW id \in Ids(m), w[1] = id, c[id] = 1, Shape(m, c, w)
  PROVE  ~Acyclic(m)
<1>1. Ids(m) \subseteq Nat \ {0} /\ m.deps \in [Ids(m) -> SUBSET Ids(m)]
  BY IdsOf
<1>2. PICK p \in 1..Len(w) : w[p] = -id
  BY DEF Shape, Ended
<1> DEFINE S == {x \in Ids(m) : \E k \in 1..p : w[k] = -x}
<1>3. S \in (SUBSET Ids(m)) \ {{}} /\ id \in S
  <2>1. p \in 1..p
    OBVIOUS
  <2> QED BY <1>2, <2>1
<1>4. ASSUME NEW x \in S PROVE m.deps[x] \cap S # {}
  <2>1. PICK l \in 1..p : w[l] = -x
    OBVIOUS
  <2>2. l \in 1..Len(w) /\ l # 1 /\ x \in Ids(m)
    BY <1>1, <2>1
  <2> DEFINE G == {j \in Nat : j < l /\ l - j \in 1..(l - 1) /\ (l - j = 1 \/ w[l - j] < 0)}
  <2>3. G \in SUBSET Nat /\ l - 1 \in G
    BY <2>2
  <2>4. PICK j \in G : \A i \in G : j <= i
    <3> HIDE DEF G
    <3> QED BY <2>3, Least
  <2>5. PICK k \in 1..(l - 1) : k = l - j
    BY <2>4
  <2>6. k \in 1..Len(w) /\ k < l /\ (k = 1 \/ w[k] < 0) /\ k \in 1..p
    BY <2>1, <2>2, <2>4, <2>5
  <2>7. ASSUME NEW i \in (k + 1)..(l - 1) PROVE ~(w[i] < 0)
    <3>1. l - i \in Nat /\ l - i < j /\ l - i < l /\ l - (l - i) = i /\ i \in 1..(l - 1)
      BY <2>4, <2>5
    <3>2. l - i \notin G
      <4>1. j \in Nat /\ ~(j <= l - i)
        BY <2>4, <3>1
      <4>2. PICK e \in Nat : e = l - i
        BY <3>1
      <4> HIDE DEF G
      <4> QED BY <2>4, <4>1, <4>2
    <3> QED BY <3>1, <3>2
  <2>8. w[k] \in m.deps[x] \/ -w[k] \in m.deps[x]
    BY <2>1, <2>2, <2>6, <2>7 DEF Shape, Stacked
  <2>9. CASE k = 1
    <3>1. id \in m.deps[x]
      BY <1>1, <2>2, <2>8, <2>9
    <3> QED BY <1>3, <3>1
  <2>10. CASE w[k] < 0
    <3>1. PICK y \in Ids(m) : w[k] = -y
      BY <1>1, <2>6, <2>10 DEF Todo
    <3>2. -w[k] = y /\ w[k] \notin Ids(m)
      BY <1>1, <3>1
    <3>3. y \in m.deps[x]
      BY <1>1, <2>2, <2>8, <3>2
    <3>4. y \in S
      BY <2>6, <3>1
    <3> QED BY <3>3, <3>4
  <2> QED BY <2>6, <2>9, <2>10
<1> QED BY <1>3, <1>4 DEF Acyclic

LEMMA OpenKeeps ==
  ASSUME NEW m, WellFormed(m), NEW c \in [Ids(m) -> 0..2], NEW w \in Seq(Todo(m)), w # <<>>,
         NEW v \in Seq(Todo(m)), NEW id \in Ids(m), w[1] = id, c[id] = 0, Shape(m, c, w),
         NEW n \in Nat, NEW D, D = m.deps[id], Pushed(w, v, D, id, n), NEW d \in [Ids(m) -> 0..2], d[id] = 1, \A x \in Ids(m) : x # id => d[x] = c[x]
  PROVE  /\ Shape(m, d, v)
         /\ Waits(m, c, w) => Waits(m, d, v)
         /\ DoneFirst(m, c) /\ DoneAcyclic(m, c) => DoneFirst(m, d) /\ DoneAcyclic(m, d)
<1>1. Ids(m) \subseteq Nat \ {0} /\ m.deps \in [Ids(m) -> SUBSET Ids(m)]
  BY IdsOf
<1>2. /\ Len(v) \in Nat /\ Len(w) \in Nat \ {0} /\ Len(v) = Len(w) + n
      /\ \A k \in 1..n : v[k] \in m.deps[id]
      /\ \A x \in m.deps[id] : \E k \in 1..n : v[k] = x
      /\ v[n + 1] = -id
      /\ \A k \in (n + 2)..Len(v) : v[k] = w[k - n]
  <2>1. Len(v) \in Nat /\ Len(w) \in Nat \ {0}
    OBVIOUS
  <2> QED BY <2>1, Zenon DEF Pushed
<1>3. \A k \in 1..n : v[k] \in Ids(m) /\ ~(v[k] < 0)
  BY <1>1, <1>2
<1>4. \A k \in 1..Len(v) : k \in 1..n \/ k = n + 1 \/ (k \in (n + 2)..Len(v) /\ k - n \in 2..Len(w))
  BY <1>2
<1>5. \A k \in 2..Len(w) : k + n \in (n + 2)..Len(v) /\ k + n \in 1..Len(v) /\ v[k + n] = w[k]
  BY <1>2
<1>6. d[id] = 1 /\ \A x \in Ids(m) : x # id => d[x] = c[x]
  OBVIOUS
<1>7. \A k \in 1..Len(w) : w[k] # -id
  BY DEF Shape, Ended
<1>8. \A k \in 1..Len(v) : v[k] < 0 => k = n + 1 \/ (k \in (n + 2)..Len(v) /\ k - n \in 2..Len(w) /\ v[k] = w[k - n])
  BY <1>2, <1>3, <1>4
<1>9. Once(v)
  <2> SUFFICES ASSUME NEW k \in 1..Len(v), NEW l \in 1..Len(v), v[k] < 0, v[k] = v[l] PROVE k = l
    BY DEF Once
  <2>1. k - n \in 2..Len(w) => k - n \in 1..Len(w)
    OBVIOUS
  <2>2. l - n \in 2..Len(w) => l - n \in 1..Len(w)
    OBVIOUS
  <2>3. CASE k = n + 1
    BY <1>2, <1>7, <1>8, <2>2, <2>3
  <2>4. CASE l = n + 1
    BY <1>2, <1>7, <1>8, <2>1, <2>4
  <2>5. CASE k # n + 1 /\ l # n + 1
    <3>1. k - n \in 1..Len(w) /\ l - n \in 1..Len(w) /\ w[k - n] < 0 /\ w[k - n] = w[l - n]
      BY <1>8, <2>1, <2>2, <2>5
    <3>2. k - n = l - n
      BY <3>1 DEF Shape, Once
    <3> QED BY <3>2
  <2> QED BY <2>3, <2>4, <2>5
<1>10. Ended(m, d, v)
  <2> SUFFICES ASSUME NEW x \in Ids(m) PROVE d[x] = 1 <=> \E k \in 1..Len(v) : v[k] = -x
    BY DEF Ended
  <2>1. CASE x = id
    <3>1. n + 1 \in 1..Len(v)
      BY <1>2
    <3> QED BY <1>2, <1>6, <2>1, <3>1
  <2>2. CASE x # id
    <3>1. ASSUME NEW k \in 1..Len(v), v[k] = -x PROVE \E j \in 1..Len(w) : w[j] = -x
      <4>1. v[k] < 0 /\ k # n + 1
        BY <1>1, <1>2, <2>2, <3>1
      <4>2. k - n \in 1..Len(w) /\ w[k - n] = -x
        BY <1>8, <3>1, <4>1
      <4> QED BY <4>2
    <3>2. ASSUME NEW k \in 1..Len(w), w[k] = -x PROVE \E j \in 1..Len(v) : v[j] = -x
      <4>1. k \in 2..Len(w)
        BY <1>1, <3>2
      <4> QED BY <1>5, <3>2, <4>1
    <3>3. c[x] = 1 <=> \E k \in 1..Len(w) : w[k] = -x
      BY DEF Shape, Ended
    <3> QED BY <1>6, <2>2, <3>1, <3>2, <3>3
  <2> QED BY <2>1, <2>2
<1>11. Seen(m, d, v)
  <2> SUFFICES ASSUME NEW x \in Ids(m), d[x] = 0 PROVE \E k \in 1..Len(v) : v[k] = x
    BY DEF Seen
  <2>1. x # id /\ c[x] = 0
    BY <1>6
  <2>2. PICK k \in 1..Len(w) : w[k] = x
    BY <2>1 DEF Shape, Seen
  <2>3. k \in 2..Len(w)
    BY <2>1, <2>2
  <2> QED BY <1>5, <2>2, <2>3
<1>12. Stacked(m, v)
  <2> SUFFICES ASSUME NEW k \in 1..Len(v), NEW l \in 1..Len(v), NEW x \in Ids(m),
                      k < l, v[l] = -x, \A j \in (k + 1)..(l - 1) : ~(v[j] < 0)
               PROVE  v[k] \in m.deps[x] \/ -v[k] \in m.deps[x]
    BY DEF Stacked
  <2>1. v[l] < 0 /\ v[n + 1] < 0 /\ -(-id) = id
    BY <1>1, <1>2
  <2>2. CASE l = n + 1
    <3>1. x = id /\ k \in 1..n
      BY <1>1, <1>2, <2>2
    <3> QED BY <1>2, <3>1
  <2>3. CASE l # n + 1
    <3>1. l - n \in 2..Len(w) /\ w[l - n] = -x
      BY <1>8, <2>1, <2>3
    <3>2. ~(n + 1 \in (k + 1)..(l - 1))
      BY <2>1
    <3>3. k >= n + 1
      BY <3>1, <3>2
    <3>4. \A j \in ((k - n) + 1)..((l - n) - 1) : ~(w[j] < 0)
      <4> SUFFICES ASSUME NEW j \in ((k - n) + 1)..((l - n) - 1) PROVE ~(w[j] < 0)
        OBVIOUS
      <4>1. j + n \in (k + 1)..(l - 1) /\ j \in 2..Len(w)
        BY <3>1, <3>3
      <4> QED BY <1>5, <4>1
    <3>5. k - n \in 1..Len(w) /\ l - n \in 1..Len(w) /\ k - n < l - n
      BY <3>1, <3>3
    <3>6. w[k - n] \in m.deps[x] \/ -w[k - n] \in m.deps[x]
      BY <3>1, <3>4, <3>5 DEF Shape, Stacked
    <3>7. CASE k = n + 1
      <4>1. k - n = 1 /\ w[k - n] = id
        BY <3>7
      <4>2. id \in m.deps[x]
        BY <1>1, <3>6, <4>1
      <4> QED BY <1>2, <2>1, <3>7, <4>2
    <3>8. CASE k # n + 1
      <4>1. v[k] = w[k - n]
        BY <1>2, <3>3, <3>8
      <4> QED BY <3>6, <4>1
    <3> QED BY <3>7, <3>8
  <2> QED BY <2>2, <2>3
<1>13. ASSUME Waits(m, c, w) PROVE Waits(m, d, v)
  <2> SUFFICES ASSUME NEW k \in 1..Len(v), NEW x \in Ids(m), v[k] = -x, NEW y \in m.deps[x], d[y] # 2
               PROVE  \E l \in 1..(k - 1) : v[l] = y \/ v[l] = -y
    BY DEF Waits
  <2>1. v[k] < 0 /\ y \in Ids(m)
    BY <1>1
  <2>2. CASE k = n + 1
    <3>1. x = id /\ 1..(k - 1) = 1..n
      BY <1>1, <1>2, <2>2
    <3> QED BY <1>2, <3>1
  <2>3. CASE k # n + 1
    <3>1. k - n \in 2..Len(w) /\ k - n \in 1..Len(w) /\ w[k - n] = -x
      BY <1>8, <2>1, <2>3
    <3>2. c[y] # 2
      BY <1>6, <2>1
    <3>3. PICK l \in 1..((k - n) - 1) : w[l] = y \/ w[l] = -y
      BY <1>13, <3>1, <3>2 DEF Waits
    <3>4. CASE l = 1
      <4>1. y = id /\ n + 1 \in 1..(k - 1)
        BY <1>1, <2>1, <3>1, <3>3, <3>4
      <4> QED BY <1>2, <4>1
    <3>5. CASE l # 1
      <4>1. l \in 2..Len(w) /\ l + n \in 1..(k - 1)
        BY <3>1, <3>5
      <4> QED BY <1>5, <3>3, <4>1
    <3> QED BY <3>4, <3>5
  <2> QED BY <2>2, <2>3
<1>14. \A x \in Ids(m) : d[x] = 2 <=> c[x] = 2
  BY <1>6
<1>15. ASSUME DoneFirst(m, c) PROVE DoneFirst(m, d)
  BY <1>1, <1>14, <1>15 DEF DoneFirst
<1>16. ASSUME DoneAcyclic(m, c) PROVE DoneAcyclic(m, d)
  BY <1>14, <1>16 DEF DoneAcyclic
<1> QED BY <1>9, <1>10, <1>11, <1>12, <1>13, <1>15, <1>16 DEF Shape

SearchInv(m, st) ==
  /\ st \in Search(m) /\ Shape(m, st.color, st.work)
  /\ st.cyc => ~Acyclic(m)
  /\ ~st.cyc => Waits(m, st.color, st.work) /\ DoneFirst(m, st.color) /\ DoneAcyclic(m, st.color)

LEMMA SearchStarts ==
  ASSUME NEW m, WellFormed(m)
  PROVE  SearchInv(m, SearchStart(m))
<1>1. Ids(m) \subseteq Nat \ {0} /\ m.ids \in Seq(Ids(m)) /\ Ids(m) = Range(m.ids)
  BY IdsOf
<1>2. PICK w \in Seq(Ids(m)) : w = m.ids
  BY <1>1
<1>3. PICK c \in [Ids(m) -> 0..2] : c = [id \in Ids(m) |-> 0]
  <2>1. [id \in Ids(m) |-> 0] \in [Ids(m) -> 0..2]
    OBVIOUS
  <2> QED BY <2>1
<1>4. PICK st : st = SearchStart(m)
  OBVIOUS
<1>5. st = [color |-> c, cyc |-> FALSE, work |-> w]
  BY <1>2, <1>3, <1>4 DEF SearchStart
<1>6. w \in Seq(Todo(m))
  BY DEF Todo
<1>7. st \in Search(m)
  BY <1>5, <1>6 DEF Search
<1>8. \A k \in 1..Len(w) : w[k] \in Ids(m) /\ ~(w[k] < 0) /\ \A id \in Ids(m) : w[k] # -id
  BY <1>1
<1>9. Seen(m, c, w)
  <2>1. ASSUME NEW id \in Ids(m) PROVE \E k \in 1..Len(w) : w[k] = id
    <3>1. id \in Range(w)
      BY <1>1, <1>2
    <3> QED BY <3>1, RangeOf
  <2> QED BY <2>1 DEF Seen
<1>10. Ended(m, c, w) /\ Once(w) /\ Stacked(m, w) /\ Waits(m, c, w)
  <2>1. Ended(m, c, w)
    BY <1>3, <1>8 DEF Ended
  <2>2. Once(w)
    BY <1>8 DEF Once
  <2>3. Stacked(m, w)
    BY <1>8, Zenon DEF Stacked
  <2>4. Waits(m, c, w)
    BY <1>8, Zenon DEF Waits
  <2> QED BY <2>1, <2>2, <2>3, <2>4
<1>11. DoneFirst(m, c) /\ DoneAcyclic(m, c)
  BY <1>3 DEF DoneFirst, DoneAcyclic
<1>12. st.color = c /\ st.work = w /\ ~st.cyc
  BY <1>5
<1>13. Shape(m, c, w)
  BY <1>9, <1>10 DEF Shape
<1> QED BY <1>4, <1>7, <1>10, <1>11, <1>12, <1>13, Zenon DEF SearchInv

LEMMA SearchSteps ==
  ASSUME NEW m, WellFormed(m), NEW st, SearchInv(m, st)
  PROVE  SearchInv(m, Visit(m, st))
<1>0. st \in Search(m)
  BY Zenon DEF SearchInv
<1>1. PICK nx : nx = Visit(m, st)
  OBVIOUS
<1>2. /\ nx \in Search(m)
      /\ st.work = <<>> => nx = st
      /\ st.work # <<>> =>
           \E id \in Ids(m) : Closes(st, nx, id) \/ Opens(m, st, nx, id) \/ Meets(st, nx, id)
  BY <1>0, <1>1, VisitDoes
<1>3. PICK w \in Seq(Todo(m)) : w = st.work
  BY <1>0 DEF Search
<1>4. PICK v \in Seq(Todo(m)) : v = nx.work
  BY <1>2 DEF Search
<1>5. PICK c \in [Ids(m) -> 0..2] : c = st.color
  BY <1>0 DEF Search
<1>6. PICK d \in [Ids(m) -> 0..2] : d = nx.color
  BY <1>2 DEF Search
<1>7. /\ Shape(m, c, w) /\ (st.cyc => ~Acyclic(m))
      /\ ~st.cyc => Waits(m, c, w) /\ DoneFirst(m, c) /\ DoneAcyclic(m, c)
  BY <1>3, <1>5, Zenon DEF SearchInv
<1>8. SUFFICES /\ Shape(m, d, v) /\ (nx.cyc => ~Acyclic(m))
               /\ ~nx.cyc => Waits(m, d, v) /\ DoneFirst(m, d) /\ DoneAcyclic(m, d)
  BY <1>1, <1>2, <1>4, <1>6, Zenon DEF SearchInv
<1>9. CASE w = <<>>
  <2>1. nx = st
    BY <1>2, <1>3, <1>9
  <2>2. d = c /\ v = w
    BY <1>3, <1>4, <1>5, <1>6, <2>1
  <2> QED BY <1>7, <2>1, <2>2, Zenon
<1>10. CASE w # <<>>
  <2>1. PICK id \in Ids(m) : Closes(st, nx, id) \/ Opens(m, st, nx, id) \/ Meets(st, nx, id)
    BY <1>2, <1>3, <1>10
  <2>2. CASE Closes(st, nx, id)
    <3>1. w[1] = -id /\ Popped(w, v)
      BY <1>3, <1>4, <2>2 DEF Closes
    <3>4. d[id] = 2 /\ \A x \in Ids(m) : x # id => d[x] = c[x]
      BY <1>5, <1>6, <2>2 DEF Closes
    <3>2. nx.cyc = st.cyc
      BY <2>2 DEF Closes
    <3>3. /\ Shape(m, d, v)
          /\ Waits(m, c, w) /\ DoneFirst(m, c) /\ DoneAcyclic(m, c) =>
               Waits(m, d, v) /\ DoneFirst(m, d) /\ DoneAcyclic(m, d)
      BY <1>7, <1>10, <3>1, <3>4, CloseKeeps, SMTT(60)
    <3> QED BY <1>7, <3>2, <3>3, Zenon
  <2>3. CASE Opens(m, st, nx, id)
    <3>1. /\ w[1] = id /\ c[id] = 0
          /\ d[id] = 1 /\ \A x \in Ids(m) : x # id => d[x] = c[x]
      BY <1>3, <1>5, <1>6, <2>3 DEF Opens
    <3>2. nx.cyc = st.cyc
      BY <2>3 DEF Opens
    <3>6. PICK D : D = m.deps[id]
      OBVIOUS
    <3>3. PICK n \in Nat : Pushed(w, v, D, id, n)
      BY <1>3, <1>4, <2>3, <3>6 DEF Opens
    <3>5. /\ Shape(m, d, v)
          /\ Waits(m, c, w) => Waits(m, d, v)
          /\ DoneFirst(m, c) /\ DoneAcyclic(m, c) => DoneFirst(m, d) /\ DoneAcyclic(m, d)
      BY <1>7, <1>10, <3>1, <3>3, <3>6, OpenKeeps, SMTT(60)
    <3> QED BY <1>7, <3>2, <3>5, Zenon
  <2>4. CASE Meets(st, nx, id)
    <3>1. w[1] = id /\ c[id] # 0 /\ d = c /\ Popped(w, v)
      BY <1>3, <1>4, <1>5, <1>6, <2>4 DEF Meets
    <3>2. nx.cyc = (st.cyc \/ c[id] = 1)
      BY <1>5, <2>4 DEF Meets
    <3>3. Shape(m, c, v) /\ (c[id] = 2 /\ Waits(m, c, w) => Waits(m, c, v))
      BY <1>7, <1>10, <3>1, MeetKeeps
    <3>4. c[id] = 1 => ~Acyclic(m)
      BY <1>7, <1>10, <3>1, MeetingIsACycle
    <3>5. c[id] = 1 \/ c[id] = 2
      BY <3>1
    <3> QED BY <1>7, <3>1, <3>2, <3>3, <3>4, <3>5, Zenon
  <2> QED BY <2>1, <2>2, <2>3, <2>4
<1> QED BY <1>9, <1>10

(***************************************************************************)
(* The search ends within its bound: what is left to do, with n + 1 for    *)
(* each task that is not open yet, goes down with every step.              *)
(***************************************************************************)
Unopened(m, c) == {id \in Ids(m) : c[id] = 0}

LEMMA IdsFinite ==
  ASSUME NEW m, WellFormed(m)
  PROVE  IsFiniteSet(Ids(m)) /\ Cardinality(Ids(m)) <= Len(m.ids)
<1>1. PICK s \in Seq(Ids(m)) : s = m.ids /\ Ids(m) = Range(s)
  BY IdsOf
<1>2. PICK n \in Nat : n = Len(s)
  OBVIOUS
<1>3. s \in Surjection(1..n, Ids(m))
  <2>1. s \in [1..n -> Ids(m)]
    BY <1>2
  <2>2. \A id \in Ids(m) : \E k \in 1..n : s[k] = id
    BY <1>1, <1>2, RangeOf
  <2> QED BY <2>1, <2>2 DEF Surjection
<1>4. ExistsSurjection(1..n, Ids(m))
  BY <1>3 DEF ExistsSurjection
<1> QED BY <1>1, <1>2, <1>4, FS_NatSurjection, FS_SurjCardinalityBound

LEMMA UnopenedCount ==
  ASSUME NEW m, WellFormed(m), NEW c \in [Ids(m) -> 0..2]
  PROVE  /\ Cardinality(Unopened(m, c)) \in Nat
         /\ Cardinality(Unopened(m, c)) <= Len(m.ids)
         /\ IsFiniteSet(Unopened(m, c))
<1>1. Unopened(m, c) \in SUBSET Ids(m)
  BY DEF Unopened
<1>2. IsFiniteSet(Ids(m)) /\ Cardinality(Ids(m)) <= Len(m.ids)
  BY IdsFinite
<1>3. /\ IsFiniteSet(Unopened(m, c)) /\ Cardinality(Unopened(m, c)) <= Cardinality(Ids(m))
  BY <1>1, <1>2, FS_Subset
<1>4. Cardinality(Unopened(m, c)) \in Nat /\ Cardinality(Ids(m)) \in Nat
  BY <1>2, <1>3, FS_CardinalityType
<1>5. Len(m.ids) \in Nat
  <2>1. m.ids \in Seq(Id)
    BY DEF WellFormed
  <2> QED BY <2>1
<1> QED BY <1>2, <1>3, <1>4, <1>5

LEMMA Bounds ==
  ASSUME NEW n \in Nat, NEW a \in Nat
  PROVE  /\ n * (n + 2) \in Nat /\ (n + 1) * a \in Nat
         /\ a <= n => (n + 1) * a + n <= n * (n + 2)
         /\ a > 0 => (n + 1) * (a - 1) = (n + 1) * a - n - 1
<1>1. n * (n + 2) = n * n + 2 * n /\ (n + 1) * a = n * a + a
  OBVIOUS
<1>2. n * n \in Nat /\ n * a \in Nat
  OBVIOUS
<1>3. ASSUME a <= n PROVE n * a <= n * n
  BY <1>3
<1>4. (n + 1) * (a - 1) = (n + 1) * a - n - 1
  BY <1>1
<1> QED BY <1>1, <1>2, <1>3, <1>4

(* after k steps *)
Left(m, st, k) ==
  \/ st.work = <<>>
  \/ (Len(m.ids) + 1) * Cardinality(Unopened(m, st.color)) + Len(st.work) + k
       <= Len(m.ids) * (Len(m.ids) + 2)

LEMMA LeftAtStart ==
  ASSUME NEW m, WellFormed(m)
  PROVE  Left(m, SearchStart(m), 0)
<1>1. PICK n \in Nat : n = Len(m.ids)
  <2>1. m.ids \in Seq(Id)
    BY DEF WellFormed
  <2> QED BY <2>1
<1>2. PICK c \in [Ids(m) -> 0..2] : c = [id \in Ids(m) |-> 0]
  <2>1. [id \in Ids(m) |-> 0] \in [Ids(m) -> 0..2]
    OBVIOUS
  <2> QED BY <2>1
<1>3. PICK a \in Nat : a = Cardinality(Unopened(m, c)) /\ a <= n
  BY <1>1, UnopenedCount
<1>4. (n + 1) * a \in Nat /\ (n + 1) * a + n <= n * (n + 2) /\ n * (n + 2) \in Nat
  BY <1>3, Bounds
<1>5. (n + 1) * a + n + 0 <= n * (n + 2)
  BY <1>4
<1>6. SearchStart(m).color = c /\ SearchStart(m).work = m.ids
  BY <1>2 DEF SearchStart
<1> QED BY <1>1, <1>3, <1>5, <1>6 DEF Left

LEMMA LeftGoesDown ==
  ASSUME NEW m, WellFormed(m), NEW st \in Search(m), NEW k \in Nat, Left(m, st, k)
  PROVE  Left(m, Visit(m, st), k + 1)
<1>1. PICK nx : nx = Visit(m, st)
  OBVIOUS
<1>2. /\ nx \in Search(m)
      /\ st.work = <<>> => nx = st
      /\ st.work # <<>> =>
           \E id \in Ids(m) : Closes(st, nx, id) \/ Opens(m, st, nx, id) \/ Meets(st, nx, id)
  BY <1>1, VisitDoes
<1>3. CASE st.work = <<>>
  BY <1>1, <1>2, <1>3 DEF Left
<1>4. CASE st.work # <<>>
  <2>1. PICK n \in Nat : n = Len(m.ids)
    <3>1. m.ids \in Seq(Id)
      BY DEF WellFormed
    <3> QED BY <3>1
  <2>2. PICK c \in [Ids(m) -> 0..2] : c = st.color
    BY DEF Search
  <2>3. PICK d \in [Ids(m) -> 0..2] : d = nx.color
    BY <1>2 DEF Search
  <2>4. PICK a \in Nat : a = Cardinality(Unopened(m, c))
    BY UnopenedCount
  <2>5. PICK b \in Nat : b = Cardinality(Unopened(m, d))
    BY UnopenedCount
  <2>6. PICK x \in Nat : x = Len(st.work)
    BY DEF Search
  <2>7. PICK y \in Nat : y = Len(nx.work)
    BY <1>2 DEF Search
  <2>8. (n + 1) * a + x + k <= n * (n + 2)
    BY <1>4, <2>1, <2>2, <2>4, <2>6 DEF Left
  <2>9. SUFFICES (n + 1) * b + y + (k + 1) <= n * (n + 2)
    BY <1>1, <2>1, <2>3, <2>5, <2>7 DEF Left
  <2>10. (n + 1) * a \in Nat /\ (n + 1) * b \in Nat /\ n * (n + 2) \in Nat
    BY Bounds
  <2>11. PICK id \in Ids(m) : Closes(st, nx, id) \/ Opens(m, st, nx, id) \/ Meets(st, nx, id)
    BY <1>2, <1>4
  <2>12. CASE Closes(st, nx, id)
    <3>1. y = x - 1 /\ d[id] = 2 /\ \A i \in Ids(m) : i # id => d[i] = c[i]
      BY <2>2, <2>3, <2>6, <2>7, <2>12 DEF Closes, Popped
    <3>2. Unopened(m, d) \in SUBSET Unopened(m, c)
      BY <3>1 DEF Unopened
    <3>3. b <= a
      BY <2>4, <2>5, <3>2, FS_Subset, UnopenedCount
    <3>4. (n + 1) * b <= (n + 1) * a
      BY <3>3
    <3> QED BY <2>8, <2>10, <3>1, <3>4
  <2>13. CASE Meets(st, nx, id)
    <3>1. y = x - 1 /\ d = c
      BY <2>2, <2>3, <2>6, <2>7, <2>13 DEF Meets, Popped
    <3>2. b = a
      BY <2>4, <2>5, <3>1
    <3> QED BY <2>8, <2>10, <3>1, <3>2
  <2>14. CASE Opens(m, st, nx, id)
    <3>1. c[id] = 0 /\ d[id] = 1 /\ \A i \in Ids(m) : i # id => d[i] = c[i]
      BY <2>2, <2>3, <2>14 DEF Opens
    <3>2. PICK l \in 0..n : y = x + l
      BY <2>1, <2>6, <2>7, <2>14 DEF Opens, Pushed
    <3>3. Unopened(m, d) = Unopened(m, c) \ {id} /\ id \in Unopened(m, c)
      BY <3>1 DEF Unopened
    <3>4. b = a - 1
      BY <2>4, <2>5, <3>3, FS_RemoveElement, UnopenedCount
    <3>5. a > 0
      BY <3>4
    <3>6. (n + 1) * (a - 1) = (n + 1) * a - n - 1
      BY <3>5, Bounds
    <3> QED BY <2>8, <2>10, <3>2, <3>4, <3>6
  <2> QED BY <2>11, <2>12, <2>13, <2>14
<1> QED BY <1>3, <1>4

SearchRuns(m, f) ==
  LET N == Len(m.ids) * (Len(m.ids) + 2)
  IN /\ f[0] = SearchStart(m) /\ HasCycle(m) = f[N].cyc
     /\ \A k \in 1..N : f[k] = Visit(m, f[k - 1])

LEMMA SearchRun ==
  ASSUME NEW m, WellFormed(m)
  PROVE  \E f : SearchRuns(m, f)
<1>1. PICK n \in Nat : n = Len(m.ids)
  <2>1. m.ids \in Seq(Id)
    BY DEF WellFormed
  <2> QED BY <2>1
<1>2. PICK N \in Nat : N = n * (n + 2)
  BY Bounds
<1>3. PICK e \in Search(m) : e = SearchStart(m)
  <2>1. SearchStart(m) \in Search(m)
    BY SearchStarts, Zenon DEF SearchInv
  <2> QED BY <2>1
<1> DEFINE g == [p \in Nat \X Search(m) |-> Visit(m, p[2])]
<1>4. ASSUME NEW x \in Search(m) PROVE Visit(m, x) \in Search(m)
  BY VisitDoes
<1>5. ASSUME NEW k \in Nat, NEW x \in Search(m) PROVE g[<<k, x>>] = Visit(m, x)
  <2>1. <<k, x>> \in Nat \X Search(m)
    OBVIOUS
  <2> QED BY <2>1
<1>6. g \in [Nat \X Search(m) -> Search(m)]
  BY <1>4
<1> HIDE DEF g
<1>7. PICK h : Chain(Search(m), g, e, N, h)
  BY <1>6, Iteration
<1> DEFINE F(x) == x = [k \in 0..N |-> IF k = 0 THEN e ELSE Visit(m, x[k - 1])]
<1>8. F(h)
  <2>1. h \in [0..N -> Search(m)] /\ h[0] = e
    BY <1>7 DEF Chain
  <2>2. ASSUME NEW k \in 1..N PROVE h[k] = Visit(m, h[k - 1])
    <3>1. h[k] = g[<<k, h[k - 1]>>] /\ h[k - 1] \in Search(m)
      BY <1>7 DEF Chain
    <3> QED BY <3>1, <1>5
  <2> QED BY <2>1, <2>2
<1>9. PICK f : F(f) /\ HasCycle(m) = f[N].cyc
  <2>1. F(CHOOSE x : F(x))
    BY <1>8
  <2>2. HasCycle(m) = (CHOOSE x : F(x))[N].cyc
    BY <1>1, <1>2, <1>3 DEF HasCycle, SearchStart
  <2> QED BY <2>1, <2>2
<1>10. f[0] = e /\ \A k \in 1..N : f[k] = Visit(m, f[k - 1])
  BY <1>9
<1> QED BY <1>1, <1>2, <1>3, <1>9, <1>10 DEF SearchRuns

(* hasCycle tells whether a workflow with unique ids and no dependency on a task
   that is not there has a cycle, for every such workflow: the depth-first search with
   its colours finds one if there is one, and none otherwise. *)
THEOREM SearchDecides ==
  ASSUME NEW m, WellFormed(m)
  PROVE  HasCycle(m) = ~Acyclic(m)
<1>1. PICK n \in Nat : n = Len(m.ids)
  <2>1. m.ids \in Seq(Id)
    BY DEF WellFormed
  <2> QED BY <2>1
<1>2. PICK N \in Nat : N = n * (n + 2)
  BY Bounds
<1>3. PICK f : SearchRuns(m, f)
  BY SearchRun
<1>4. /\ f[0] = SearchStart(m) /\ HasCycle(m) = f[N].cyc
      /\ \A k \in 1..N : f[k] = Visit(m, f[k - 1])
  BY <1>1, <1>2, <1>3 DEF SearchRuns
<1> DEFINE T == {k \in Nat : SearchInv(m, f[k]) /\ Left(m, f[k], k)}
<1>5. 0 \in T
  BY <1>4, SearchStarts, LeftAtStart
<1>6. ASSUME NEW k \in 1..N, k - 1 \in T PROVE k \in T
  <2>1. PICK j \in Nat : j = k - 1
    OBVIOUS
  <2>2. PICK st : st = f[j]
    OBVIOUS
  <2>3. SearchInv(m, st) /\ Left(m, st, j)
    BY <1>6, <2>1, <2>2
  <2>4. st \in Search(m)
    BY <2>3, Zenon DEF SearchInv
  <2>5. SearchInv(m, Visit(m, st)) /\ Left(m, Visit(m, st), j + 1)
    BY <2>3, <2>4, SearchSteps, LeftGoesDown
  <2>6. f[k] = Visit(m, st) /\ k = j + 1 /\ k \in Nat
    BY <1>4, <2>1, <2>2
  <2> QED BY <2>5, <2>6
<1>7. N \in T
  <2> HIDE DEF T
  <2>1. \A k \in 0..N : k \in T
    BY <1>5, <1>6, UpTo
  <2> QED BY <2>1
<1>8. PICK st : st = f[N]
  OBVIOUS
<1>9. SearchInv(m, st) /\ Left(m, st, N)
  BY <1>7, <1>8
<1>10. st \in Search(m) /\ Shape(m, st.color, st.work)
  BY <1>9, Zenon DEF SearchInv
<1>11. st.work = <<>>
  <2>1. st.color \in [Ids(m) -> 0..2] /\ st.work \in Seq(Todo(m))
    BY <1>10 DEF Search
  <2>2. PICK a \in Nat : a = Cardinality(Unopened(m, st.color))
    BY <2>1, UnopenedCount
  <2>3. (n + 1) * a \in Nat
    BY Bounds
  <2>4. PICK w \in Seq(Todo(m)) : w = st.work
    BY <2>1
  <2>5. PICK l \in Nat : l = Len(w)
    OBVIOUS
  <2>6. PICK b \in Nat : b = (n + 1) * a
    BY <2>3
  <2>7. w = <<>> \/ b + l + N <= N
    BY <1>1, <1>2, <1>9, <2>2, <2>4, <2>5, <2>6 DEF Left
  <2>8. b + l + N <= N => l = 0
    OBVIOUS
  <2>9. l = 0 => w = <<>>
    BY <2>5, EmptySeq
  <2> QED BY <2>4, <2>7, <2>8, <2>9
<1>12. ASSUME NEW id \in Ids(m) PROVE st.color[id] = 2
  <2>1. st.color \in [Ids(m) -> 0..2] /\ Len(st.work) = 0
    BY <1>10, <1>11 DEF Search
  <2>2. st.color[id] # 0 /\ st.color[id] # 1
    BY <1>10, <2>1 DEF Shape, Seen, Ended
  <2> QED BY <2>1, <2>2
<1>13. ASSUME DoneAcyclic(m, st.color) PROVE Acyclic(m)
  BY <1>12, <1>13 DEF DoneAcyclic, Acyclic
<1>14. /\ st.cyc => ~Acyclic(m)
       /\ ~st.cyc => Acyclic(m)
  BY <1>9, <1>13, Zenon DEF SearchInv
<1>15. st.cyc \in BOOLEAN /\ HasCycle(m) = st.cyc
  BY <1>4, <1>8, <1>10 DEF Search
<1>16. Acyclic(m) \in BOOLEAN
  BY DEF Acyclic
<1> QED BY <1>14, <1>15, <1>16

-----------------------------------------------------------------------------
(***************************************************************************)
(* topoOrder.  A pass keeps the order sound, and adds a task as long as    *)
(* one is left that waits for nothing else that is left.                   *)
(***************************************************************************)
PassStep(m, i, x) ==
  IF /\ m.ids[i] \notin Range(x)
     /\ m.deps[m.ids[i]] \cap Ids(m) \subseteq Range(x)
  THEN Append(x, m.ids[i]) ELSE x

PassRuns(m, out, f) ==
  /\ f \in [0..Len(m.ids) -> Seq(Ids(m))] /\ f[0] = out /\ Pass(m, out) = f[Len(m.ids)]
  /\ \A i \in 1..Len(m.ids) : f[i] = PassStep(m, i, f[i - 1])

LEMMA PassRun ==
  ASSUME NEW m, WellFormed(m), NEW out \in Seq(Ids(m))
  PROVE  \E f : PassRuns(m, out, f)
<1>0. PICK n \in Nat : n = Len(m.ids)
  <2>1. m.ids \in Seq(Id)
    BY DEF WellFormed
  <2> QED BY <2>1
<1> DEFINE B == Seq(Ids(m))
           g == [p \in Nat \X B |-> IF p[1] \in 1..n THEN PassStep(m, p[1], p[2]) ELSE p[2]]
<1>1. ASSUME NEW i \in 1..n, NEW x \in B PROVE PassStep(m, i, x) \in B
  <2>1. m.ids[i] \in Ids(m)
    BY <1>0 DEF Ids
  <2> QED BY <2>1 DEF PassStep
<1>2. ASSUME NEW i \in 1..n, NEW x \in B PROVE g[<<i, x>>] = PassStep(m, i, x)
  <2>1. <<i, x>> \in Nat \X B
    OBVIOUS
  <2> QED BY <2>1
<1>3. g \in [Nat \X B -> B]
  BY <1>1
<1> HIDE DEF g, B
<1>4. out \in B
  BY DEF B
<1>5. PICK h : Chain(B, g, out, n, h)
  BY <1>3, <1>4, Iteration
<1> DEFINE F(x) == x = [i \in 0..n |-> IF i = 0 THEN out ELSE PassStep(m, i, x[i - 1])]
<1>6. F(h)
  <2>1. h \in [0..n -> B] /\ h[0] = out
    BY <1>5 DEF Chain
  <2>2. ASSUME NEW i \in 1..n PROVE h[i] = PassStep(m, i, h[i - 1])
    <3>1. h[i] = g[<<i, h[i - 1]>>] /\ h[i - 1] \in B
      BY <1>5 DEF Chain
    <3> QED BY <3>1, <1>2
  <2> QED BY <2>1, <2>2
<1>7. PICK f : F(f) /\ Pass(m, out) = f[n]
  <2>1. F(CHOOSE x : F(x))
    BY <1>6
  <2>2. Pass(m, out) = (CHOOSE x : F(x))[n]
    BY <1>0 DEF Pass, PassStep
  <2> QED BY <2>1, <2>2
<1>8. f[0] = out /\ \A i \in 1..n : f[i] = PassStep(m, i, f[i - 1])
  BY <1>7
<1>9. \A i \in 0..n : f[i] \in B
  <2> DEFINE T == {i \in 0..n : f[i] \in B}
  <2>1. 0 \in T
    BY <1>4, <1>8
  <2>2. ASSUME NEW i \in 1..n, i - 1 \in T PROVE i \in T
    BY <2>2, <1>1, <1>8
  <2> HIDE DEF T
  <2>3. \A i \in 0..n : i \in T
    BY <2>1, <2>2, UpTo
  <2> QED BY <2>3 DEF T
<1>10. f \in [0..n -> B]
  BY <1>7, <1>9
<1> QED BY <1>0, <1>7, <1>8, <1>10 DEF PassRuns, B

Ordered(m, x) ==
  /\ \A i, j \in 1..Len(x) : x[i] = x[j] => i = j
  /\ \A j \in 1..Len(x) : \A d \in m.deps[x[j]] : \E i \in 1..(j - 1) : x[i] = d

LEMMA PassStepKeeps ==
  ASSUME NEW m, WellFormed(m), NEW i \in 1..Len(m.ids), NEW x \in Seq(Ids(m)),
         NEW y \in Seq(Ids(m)), y = PassStep(m, i, x)
  PROVE  /\ Ordered(m, x) => Ordered(m, y)
         /\ Range(x) \subseteq Range(y) /\ Len(x) <= Len(y)
         /\ m.deps[m.ids[i]] \subseteq Range(x) => m.ids[i] \in Range(y)
         /\ y = x \/ Len(y) = Len(x) + 1
<1>1. PICK e \in Ids(m) : e = m.ids[i]
  BY DEF Ids
<1>2. m.deps \in [Ids(m) -> SUBSET Ids(m)]
  BY IdsOf
<1>3. CASE y = x
  <2>1. ASSUME m.deps[e] \subseteq Range(x), e \notin Range(x) PROVE FALSE
    <3>1. y = Append(x, e)
      BY <1>1, <2>1 DEF PassStep
    <3>2. Len(y) = Len(x) + 1 /\ Len(x) \in Nat
      BY <3>1
    <3> QED BY <1>3, <3>2
  <2> QED BY <1>1, <1>3, <2>1
<1>4. CASE y # x
  <2>1. y = Append(x, e) /\ e \notin Range(x) /\ m.deps[e] \subseteq Range(x)
    BY <1>1, <1>2, <1>4 DEF PassStep
  <2>2. /\ Len(y) = Len(x) + 1 /\ Len(x) \in Nat /\ y[Len(x) + 1] = e
        /\ \A k \in 1..Len(x) : y[k] = x[k]
    BY <2>1
  <2>3. \A k \in 1..Len(y) : k \in 1..Len(x) \/ k = Len(x) + 1
    BY <2>2
  <2>4. Range(x) \subseteq Range(y)
    <3> SUFFICES ASSUME NEW v \in Range(x) PROVE v \in Range(y)
      OBVIOUS
    <3>1. PICK k \in 1..Len(x) : x[k] = v
      BY RangeOf
    <3>2. k \in 1..Len(y) /\ y[k] = v
      BY <2>2, <3>1
    <3> QED BY <3>2, RangeOf
  <2>5. e \in Range(y)
    <3>1. Len(x) + 1 \in 1..Len(y)
      BY <2>2
    <3> QED BY <2>2, <3>1, RangeOf
  <2>6. ASSUME Ordered(m, x) PROVE Ordered(m, y)
    <3>1. ASSUME NEW k \in 1..Len(y), NEW l \in 1..Len(y), y[k] = y[l] PROVE k = l
      <4>1. \A j \in 1..Len(x) : x[j] # e
        BY <2>1, RangeOf
      <4>2. CASE k \in 1..Len(x) /\ l \in 1..Len(x)
        BY <2>2, <2>6, <3>1, <4>2 DEF Ordered
      <4>3. CASE k \in 1..Len(x) /\ l = Len(x) + 1
        BY <2>2, <3>1, <4>1, <4>3
      <4>4. CASE l \in 1..Len(x) /\ k = Len(x) + 1
        BY <2>2, <3>1, <4>1, <4>4
      <4>5. CASE k = Len(x) + 1 /\ l = Len(x) + 1
        BY <4>5
      <4> QED BY <2>3, <4>2, <4>3, <4>4, <4>5
    <3>2. ASSUME NEW j \in 1..Len(y), NEW d \in m.deps[y[j]] PROVE \E k \in 1..(j - 1) : y[k] = d
      <4>1. CASE j \in 1..Len(x)
        <5>1. PICK k \in 1..(j - 1) : x[k] = d
          BY <2>2, <2>6, <3>2, <4>1 DEF Ordered
        <5>2. k \in 1..Len(x)
          BY <4>1
        <5> QED BY <2>2, <5>1, <5>2
      <4>2. CASE j = Len(x) + 1
        <5>1. d \in Range(x)
          BY <2>1, <2>2, <4>2
        <5>2. PICK k \in 1..Len(x) : x[k] = d
          BY <5>1, RangeOf
        <5>3. k \in 1..(j - 1)
          BY <2>2, <4>2
        <5> QED BY <2>2, <5>2, <5>3
      <4> QED BY <2>3, <4>1, <4>2
    <3> QED BY <3>1, <3>2 DEF Ordered
  <2> QED BY <1>1, <2>2, <2>4, <2>5, <2>6
<1> QED BY <1>3, <1>4

LEMMA PassKeeps ==
  ASSUME NEW m, WellFormed(m), NEW out \in Seq(Ids(m)), Ordered(m, out)
  PROVE  /\ Pass(m, out) \in Seq(Ids(m)) /\ Ordered(m, Pass(m, out))
         /\ Len(out) <= Len(Pass(m, out)) /\ Range(out) \subseteq Range(Pass(m, out))
         /\ Acyclic(m) /\ Range(out) # Ids(m) => Len(out) < Len(Pass(m, out))
<1>0. PICK n \in Nat : n = Len(m.ids)
  <2>1. m.ids \in Seq(Id)
    BY DEF WellFormed
  <2> QED BY <2>1
<1>1. PICK f : PassRuns(m, out, f)
  BY PassRun
<1>2. /\ f \in [0..n -> Seq(Ids(m))] /\ f[0] = out /\ Pass(m, out) = f[n]
      /\ \A i \in 1..n : f[i] = PassStep(m, i, f[i - 1])
  BY <1>0, <1>1 DEF PassRuns
<1>3. ASSUME NEW i \in 1..n
      PROVE  /\ f[i - 1] \in Seq(Ids(m)) /\ f[i] \in Seq(Ids(m))
             /\ Ordered(m, f[i - 1]) => Ordered(m, f[i])
             /\ Range(f[i - 1]) \subseteq Range(f[i]) /\ Len(f[i - 1]) <= Len(f[i])
             /\ m.deps[m.ids[i]] \subseteq Range(f[i - 1]) => m.ids[i] \in Range(f[i])
             /\ f[i] = f[i - 1] \/ Len(f[i]) = Len(f[i - 1]) + 1
  <2>1. PICK x \in Seq(Ids(m)) : x = f[i - 1]
    BY <1>2
  <2>2. PICK y \in Seq(Ids(m)) : y = f[i]
    BY <1>2
  <2>3. y = PassStep(m, i, x) /\ i \in 1..Len(m.ids)
    BY <1>0, <1>2, <2>1, <2>2
  <2> QED BY <2>1, <2>2, <2>3, PassStepKeeps
<1> DEFINE Good(i) == /\ Ordered(m, f[i]) /\ Range(out) \subseteq Range(f[i]) /\ Len(out) <= Len(f[i])
                      /\ f[i] = out \/ Len(out) < Len(f[i])
           T == {i \in 0..n : Good(i)}
<1>4. 0 \in T
  BY <1>2
<1>5. ASSUME NEW i \in 1..n, i - 1 \in T PROVE i \in T
  <2>1. Good(i - 1)
    BY <1>5
  <2>2. PICK x \in Seq(Ids(m)) : x = f[i - 1]
    BY <1>3
  <2>3. PICK y \in Seq(Ids(m)) : y = f[i]
    BY <1>3
  <2>4. Len(x) \in Nat /\ Len(y) \in Nat /\ Len(out) \in Nat
    OBVIOUS
  <2>5. Ordered(m, y)
    BY <1>3, <2>1, <2>2, <2>3
  <2>6. Range(out) \subseteq Range(y)
    BY <1>3, <2>1, <2>2, <2>3
  <2>7. Len(out) <= Len(x) /\ Len(x) <= Len(y)
    BY <1>3, <2>1, <2>2, <2>3
  <2>8. (x = out \/ Len(out) < Len(x)) /\ (y = x \/ Len(y) = Len(x) + 1)
    BY <1>3, <2>1, <2>2, <2>3
  <2>9. y = out \/ Len(out) < Len(y)
    BY <2>4, <2>7, <2>8
  <2>10. Good(i)
    BY <2>3, <2>4, <2>5, <2>6, <2>7, <2>9
  <2>11. i \in 0..n
    OBVIOUS
  <2> QED BY <2>10, <2>11
<1>6. \A i \in 0..n : i \in T
  <2> HIDE DEF T
  <2> QED BY <1>4, <1>5, UpTo
<1>7. \A i \in 0..n : Good(i)
  BY <1>6
<1>8. n \in 0..n
  OBVIOUS
<1>9. ASSUME Acyclic(m), Range(out) # Ids(m) PROVE Len(out) < Len(f[n])
  <2> DEFINE S == Ids(m) \ Range(out)
  <2>1. Range(out) \subseteq Ids(m)
    BY RangeOf
  <2>2. S \in (SUBSET Ids(m)) \ {{}}
    BY <1>9, <2>1
  <2>3. PICK e \in S : m.deps[e] \cap S = {}
    <3> HIDE DEF S
    <3> QED BY <1>9, <2>2 DEF Acyclic
  <2>4. m.deps[e] \subseteq Range(out)
    BY <2>3, IdsOf
  <2>5. PICK i \in 1..n : e = m.ids[i]
    BY <1>0 DEF Ids
  <2>6. i - 1 \in 0..n
    OBVIOUS
  <2>7. Range(out) \subseteq Range(f[i - 1])
    BY <1>7, <2>6
  <2>8. e \in Range(f[i])
    BY <1>3, <2>4, <2>5, <2>7
  <2> DEFINE U == {k \in 0..(n - i) : e \in Range(f[i + k])}
  <2>9. n - i \in Nat /\ 0 \in U
    BY <2>8
  <2>10. ASSUME NEW k \in 1..(n - i), k - 1 \in U PROVE k \in U
    <3>1. i + k \in 1..n /\ (i + k) - 1 = i + (k - 1)
      OBVIOUS
    <3>2. Range(f[i + (k - 1)]) \subseteq Range(f[i + k])
      BY <1>3, <3>1
    <3> QED BY <2>10, <3>2
  <2>11. \A k \in 0..(n - i) : k \in U
    <3>1. PICK j \in Nat : j = n - i
      BY <2>9
    <3> HIDE DEF U
    <3> QED BY <2>9, <2>10, <3>1, UpTo
  <2>12. e \in Range(f[n])
    <3>1. n - i \in 0..(n - i) /\ i + (n - i) = n
      BY <2>9
    <3> QED BY <2>11, <3>1
  <2>13. f[n] # out
    BY <2>12
  <2> QED BY <1>7, <1>8, <2>13
<1>10. Good(n) /\ f[n] \in Seq(Ids(m))
  BY <1>2, <1>7, <1>8
<1> QED BY <1>2, <1>9, <1>10

PassesRun(m, f) ==
  /\ f \in [0..Len(m.ids) -> Seq(Ids(m))] /\ f[0] = <<>>
  /\ \A p \in 1..Len(m.ids) : f[p] = Pass(m, f[p - 1])
  /\ TopoOrder(m) = LET out == f[Len(m.ids)] IN out \o Keep(m.ids, Ids(m) \ Range(out))

LEMMA PassesDo ==
  ASSUME NEW m, WellFormed(m)
  PROVE  \E f : PassesRun(m, f)
<1>0. PICK n \in Nat : n = Len(m.ids)
  <2>1. m.ids \in Seq(Id)
    BY DEF WellFormed
  <2> QED BY <2>1
<1> DEFINE B == {x \in Seq(Ids(m)) : Ordered(m, x)}
           g == [p \in Nat \X B |-> Pass(m, p[2])]
<1>1. ASSUME NEW x \in B PROVE Pass(m, x) \in B
  BY PassKeeps
<1>2. ASSUME NEW i \in Nat, NEW x \in B PROVE g[<<i, x>>] = Pass(m, x)
  <2>1. <<i, x>> \in Nat \X B
    OBVIOUS
  <2> QED BY <2>1
<1>3. g \in [Nat \X B -> B]
  BY <1>1
<1>4. PICK e \in B : e = <<>>
  <2>1. <<>> \in B
    BY DEF Ordered
  <2> QED BY <2>1
<1> HIDE DEF g, B
<1>5. PICK h : Chain(B, g, e, n, h)
  BY <1>3, Iteration
<1> DEFINE F(x) == x = [p \in 0..n |-> IF p = 0 THEN e ELSE Pass(m, x[p - 1])]
<1>6. F(h)
  <2>1. h \in [0..n -> B] /\ h[0] = e
    BY <1>5 DEF Chain
  <2>2. ASSUME NEW i \in 1..n PROVE h[i] = Pass(m, h[i - 1])
    <3>1. h[i] = g[<<i, h[i - 1]>>] /\ h[i - 1] \in B
      BY <1>5 DEF Chain
    <3> QED BY <3>1, <1>2
  <2> QED BY <2>1, <2>2
<1>7. PICK f : F(f) /\ TopoOrder(m) = LET out == f[n] IN out \o Keep(m.ids, Ids(m) \ Range(out))
  <2>1. F(CHOOSE x : F(x))
    BY <1>6
  <2>2. PICK c : c = CHOOSE x : F(x)
    OBVIOUS
  <2>3. TopoOrder(m) = LET out == c[n] IN out \o Keep(m.ids, Ids(m) \ Range(out))
    BY <1>0, <1>4, <2>2 DEF TopoOrder
  <2> QED BY <2>1, <2>2, <2>3
<1>8. f[0] = e /\ \A i \in 1..n : f[i] = Pass(m, f[i - 1])
  BY <1>7
<1>9. \A i \in 0..n : f[i] \in B
  <2> DEFINE T == {i \in 0..n : f[i] \in B}
  <2>1. 0 \in T
    BY <1>8
  <2>2. ASSUME NEW i \in 1..n, i - 1 \in T PROVE i \in T
    BY <2>2, <1>1, <1>8
  <2> HIDE DEF T
  <2>3. \A i \in 0..n : i \in T
    BY <2>1, <2>2, UpTo
  <2> QED BY <2>3 DEF T
<1>10. f \in [0..n -> Seq(Ids(m))]
  BY <1>7, <1>9 DEF B
<1> QED BY <1>0, <1>4, <1>7, <1>8, <1>10 DEF PassesRun

(* An order without repetition names as many tasks as it is long. *)
LEMMA OrderedCount ==
  ASSUME NEW m, WellFormed(m), NEW x \in Seq(Ids(m)), Ordered(m, x)
  PROVE  /\ Len(x) <= Cardinality(Ids(m))
         /\ Len(x) = Cardinality(Ids(m)) <=> Range(x) = Ids(m)
<1>1. IsFiniteSet(Ids(m)) /\ Cardinality(Ids(m)) \in Nat
  BY IdsFinite, FS_CardinalityType
<1>2. PICK k \in Nat : k = Len(x)
  OBVIOUS
<1>3. x \in Injection(1..k, Ids(m))
  BY <1>2 DEF Ordered, Injection, IsInjective
<1>4. Cardinality(1..k) = k
  BY FS_Interval
<1>5. k <= Cardinality(Ids(m)) /\ (k = Cardinality(Ids(m)) <=> x \in Surjection(1..k, Ids(m)))
  BY <1>1, <1>3, <1>4, FS_Injection
<1>6. x \in Surjection(1..k, Ids(m)) <=> Range(x) = Ids(m)
  <2>1. x \in [1..k -> Ids(m)] /\ Range(x) \subseteq Ids(m)
    BY <1>2, RangeOf
  <2>2. (\A id \in Ids(m) : \E i \in 1..k : x[i] = id) <=> Range(x) = Ids(m)
    BY <1>2, <2>1, RangeOf
  <2> QED BY <2>1, <2>2 DEF Surjection
<1> QED BY <1>2, <1>5, <1>6

LEMMA IdsCount ==
  ASSUME NEW m, WellFormed(m)
  PROVE  Cardinality(Ids(m)) = Len(m.ids) /\ Len(m.ids) \in Nat
<1>1. PICK s \in Seq(Ids(m)) : s = m.ids /\ Ids(m) = Range(s)
  BY IdsOf
<1>2. PICK k \in Nat : k = Len(s)
  OBVIOUS
<1>3. s \in Injection(1..k, Ids(m))
  <2>1. IsInjective(s)
    BY <1>1 DEF WellFormed
  <2> QED BY <1>2, <2>1 DEF Injection
<1>4. s \in Surjection(1..k, Ids(m))
  <2>1. s \in [1..k -> Ids(m)]
    BY <1>2
  <2>2. \A id \in Ids(m) : \E i \in 1..k : s[i] = id
    BY <1>1, <1>2, RangeOf
  <2> QED BY <2>1, <2>2 DEF Surjection
<1>5. ExistsBijection(1..k, Ids(m))
  BY <1>3, <1>4 DEF ExistsBijection, Bijection
<1> QED BY <1>1, <1>2, <1>5, FS_CountingElements

(* topoOrder numbers every step of a workflow without cycles once, after what it
   depends on. *)
LEMMA OrderIsSound ==
  ASSUME NEW m, WellFormed(m), Acyclic(m)
  PROVE  /\ TopoOrder(m) \in Seq(Ids(m)) /\ Ordered(m, TopoOrder(m))
         /\ Len(TopoOrder(m)) = Len(m.ids) /\ Range(TopoOrder(m)) = Ids(m)
<1>0. PICK n \in Nat : n = Len(m.ids) /\ n = Cardinality(Ids(m))
  BY IdsCount
<1>1. PICK f : PassesRun(m, f)
  BY PassesDo
<1>2. /\ f \in [0..n -> Seq(Ids(m))] /\ f[0] = <<>>
      /\ \A p \in 1..n : f[p] = Pass(m, f[p - 1])
      /\ TopoOrder(m) = f[n] \o Keep(m.ids, Ids(m) \ Range(f[n]))
  BY <1>0, <1>1 DEF PassesRun
<1> DEFINE T == {p \in 0..n : Ordered(m, f[p]) /\ (p <= Len(f[p]) \/ Range(f[p]) = Ids(m))}
<1>3. 0 \in T
  BY <1>2 DEF Ordered
<1>4. ASSUME NEW p \in 1..n, p - 1 \in T PROVE p \in T
  <2>1. PICK x \in Seq(Ids(m)) : x = f[p - 1]
    BY <1>2
  <2>2. PICK y \in Seq(Ids(m)) : y = f[p]
    BY <1>2
  <2>3. y = Pass(m, x)
    BY <1>2, <2>1, <2>2
  <2>4. Ordered(m, x) /\ (p - 1 <= Len(x) \/ Range(x) = Ids(m))
    BY <1>4, <2>1
  <2>5. /\ Ordered(m, y) /\ Len(x) <= Len(y) /\ Range(x) \subseteq Range(y)
        /\ Range(x) # Ids(m) => Len(x) < Len(y)
    BY <2>3, <2>4, PassKeeps
  <2>6. Range(y) \subseteq Ids(m)
    BY RangeOf
  <2>7. p <= Len(y) \/ Range(y) = Ids(m)
    <3>1. CASE Range(x) = Ids(m)
      BY <2>5, <2>6, <3>1
    <3>2. CASE Range(x) # Ids(m)
      <4>1. Len(x) \in Nat /\ Len(y) \in Nat
        OBVIOUS
      <4> QED BY <2>4, <2>5, <3>2, <4>1
    <3> QED BY <3>1, <3>2
  <2>8. p \in 0..n
    OBVIOUS
  <2> QED BY <2>2, <2>5, <2>7, <2>8
<1>5. n \in T
  <2> HIDE DEF T
  <2>1. \A p \in 0..n : p \in T
    BY <1>3, <1>4, UpTo
  <2> QED BY <2>1
<1>6. PICK x \in Seq(Ids(m)) : x = f[n]
  BY <1>2
<1>7. Ordered(m, x) /\ (n <= Len(x) \/ Range(x) = Ids(m))
  BY <1>5, <1>6
<1>8. Len(x) <= n /\ (Len(x) = n <=> Range(x) = Ids(m))
  BY <1>0, <1>7, OrderedCount
<1>9. Len(x) = n /\ Range(x) = Ids(m)
  <2>1. Len(x) \in Nat
    OBVIOUS
  <2> QED BY <1>7, <1>8, <2>1
<1>10. TopoOrder(m) = x
  <2>1. PICK s \in Seq(Ids(m)) : s = m.ids
    BY IdsOf
  <2>2. PICK k : k = Keep(s, {})
    OBVIOUS
  <2>3. k \in Seq(Ids(m)) /\ Range(k) = Range(s) \cap {}
    BY <2>2, KeepFacts
  <2>4. k = <<>>
    <3>1. \A i \in 1..Len(k) : FALSE
      BY <2>3, RangeOf
    <3>2. Len(k) = 0
      BY <2>3, <3>1
    <3> QED BY <2>3, <3>2, EmptySeq
  <2>5. TopoOrder(m) = x \o k
    <3>1. Ids(m) \ Range(x) = {}
      BY <1>9
    <3> QED BY <1>2, <1>6, <2>1, <2>2, <3>1
  <2> QED BY <2>4, <2>5, ConcatEmptySeq
<1> QED BY <1>0, <1>7, <1>9, <1>10

-----------------------------------------------------------------------------
(***************************************************************************)
(* The levels of renderGraph.                                              *)
(***************************************************************************)
LEMMA FiniteBound ==
  ASSUME NEW D, IsFiniteSet(D), NEW f \in [D -> Nat]
  PROVE  \E b \in Nat : \A d \in D : f[d] <= b
<1>1. PICK k \in Nat : ExistsSurjection(1..k, D)
  BY FS_NatSurjection
<1>2. PICK h \in [1..k -> D] : \A d \in D : \E i \in 1..k : h[i] = d
  BY <1>1 DEF ExistsSurjection, Surjection
<1> DEFINE T == {i \in 0..k : \E b \in Nat : \A j \in 1..i : f[h[j]] <= b}
<1>3. 0 \in T
  OBVIOUS
<1>4. ASSUME NEW i \in 1..k, i - 1 \in T PROVE i \in T
  <2>1. PICK b \in Nat : \A j \in 1..(i - 1) : f[h[j]] <= b
    BY <1>4
  <2>2. PICK a \in Nat : a = f[h[i]]
    BY <1>2
  <2>3. \A j \in 1..i : j \in 1..(i - 1) \/ j = i
    OBVIOUS
  <2>4. \A j \in 1..i : f[h[j]] \in Nat
    BY <1>2
  <2>5. \A j \in 1..i : f[h[j]] <= a + b
    BY <2>1, <2>2, <2>3, <2>4
  <2>6. a + b \in Nat /\ i \in 0..k
    OBVIOUS
  <2> QED BY <2>5, <2>6
<1>5. k \in T
  <2> HIDE DEF T
  <2>1. \A i \in 0..k : i \in T
    BY <1>3, <1>4, UpTo
  <2> QED BY <2>1
<1>6. PICK b \in Nat : \A j \in 1..k : f[h[j]] <= b
  BY <1>5
<1> QED BY <1>2, <1>6

LEMMA MaxOf ==
  ASSUME NEW D, IsFiniteSet(D), D # {}, NEW f \in [D -> Nat]
  PROVE  LET S == {f[d] : d \in D}
         IN Max(S) \in S /\ \A d \in D : f[d] <= Max(S)
<1> DEFINE S == {f[d] : d \in D}
<1>1. PICK b \in Nat : \A d \in D : f[d] <= b
  BY FiniteBound
<1> DEFINE T == {k \in Nat : \E d \in D : k = b - f[d]}
<1>2. T \in SUBSET Nat /\ T # {}
  <2>1. PICK d \in D : TRUE
    OBVIOUS
  <2>2. b - f[d] \in Nat
    BY <1>1, <2>1
  <2> QED BY <2>1, <2>2
<1>3. PICK k \in T : \A j \in T : k <= j
  <2> HIDE DEF T
  <2> QED BY <1>2, Least
<1>4. PICK e \in D : k = b - f[e]
  BY <1>3
<1>5. ASSUME NEW d \in D PROVE f[d] <= f[e]
  <2>1. b - f[d] \in Nat /\ b - f[d] \in T
    BY <1>1
  <2>2. k <= b - f[d]
    BY <1>3, <2>1
  <2>3. f[d] \in Nat /\ f[e] \in Nat /\ b - f[e] <= b - f[d]
    BY <1>4, <2>2
  <2> QED BY <2>3
<1>6. S \subseteq Nat
  OBVIOUS
<1>7. \E x \in S : \A y \in S : x >= y
  <2>1. f[e] \in S
    OBVIOUS
  <2>2. \A y \in S : f[e] >= y
    BY <1>5
  <2> QED BY <2>1, <2>2
<1>8. Max(S) \in S /\ \A y \in S : Max(S) >= y
  <2> HIDE DEF S
  <2> QED BY <1>7 DEF Max
<1> QED BY <1>8

LvlAt(m, l, seen, id) ==
  LET deps == m.deps[id] \cap Ids(m)
  IN IF id \in seen \/ deps = {} THEN 0 ELSE 1 + Max({l[seen \cup {id}][d] : d \in deps})

LvlStep(m, l) == [seen \in SUBSET Ids(m) |-> [id \in Ids(m) |-> LvlAt(m, l, seen, id)]]

LEMMA LvlAtIs ==
  ASSUME NEW m, WellFormed(m), NEW l, NEW seen \in SUBSET Ids(m), NEW id \in Ids(m),
         \A d \in m.deps[id] : l[seen \cup {id}][d] \in Nat
  PROVE  /\ LvlAt(m, l, seen, id) \in Nat
         /\ id \notin seen => \A d \in m.deps[id] : l[seen \cup {id}][d] < LvlAt(m, l, seen, id)
         /\ LvlAt(m, l, seen, id) > 0 =>
              \E d \in m.deps[id] : l[seen \cup {id}][d] = LvlAt(m, l, seen, id) - 1
<1>1. m.deps[id] \subseteq Ids(m)
  BY IdsOf
<1>2. PICK D \in SUBSET Ids(m) : D = m.deps[id] \cap Ids(m) /\ D = m.deps[id]
  BY <1>1
<1>3. CASE id \in seen \/ D = {}
  <2>1. LvlAt(m, l, seen, id) = 0
    BY <1>2, <1>3 DEF LvlAt
  <2> QED BY <1>2, <1>3, <2>1
<1>4. CASE id \notin seen /\ D # {}
  <2>1. PICK f \in [D -> Nat] : f = [d \in D |-> l[seen \cup {id}][d]]
    <3>1. [d \in D |-> l[seen \cup {id}][d]] \in [D -> Nat]
      BY <1>2
    <3> QED BY <3>1
  <2>2. \A d \in D : f[d] = l[seen \cup {id}][d]
    BY <2>1
  <2>3. PICK S : S = {f[d] : d \in D}
    OBVIOUS
  <2>4. S = {l[seen \cup {id}][d] : d \in D}
    BY <2>2, <2>3
  <2>5. LvlAt(m, l, seen, id) = 1 + Max(S)
    BY <1>2, <1>4, <2>4 DEF LvlAt
  <2>6. IsFiniteSet(D)
    BY IdsFinite, FS_Subset
  <2>7. Max(S) \in S /\ \A d \in D : f[d] <= Max(S)
    BY <1>4, <2>3, <2>6, MaxOf
  <2>8. PICK x \in Nat : x = Max(S) /\ \E d \in D : f[d] = x
    BY <2>3, <2>7
  <2>9. \A d \in D : f[d] \in Nat /\ f[d] <= x
    BY <2>7, <2>8
  <2> QED BY <1>2, <2>2, <2>5, <2>8, <2>9
<1> QED BY <1>3, <1>4

LEMMA LvlAtSame ==
  ASSUME NEW m, NEW l, NEW k, NEW seen, NEW met, NEW id, id \in seen <=> id \in met,
         \A d \in m.deps[id] : l[seen \cup {id}][d] = k[met \cup {id}][d]
  PROVE  LvlAt(m, l, seen, id) = LvlAt(m, k, met, id)
<1>1. PICK D : D = m.deps[id] \cap Ids(m)
  OBVIOUS
<1>2. {l[seen \cup {id}][d] : d \in D} = {k[met \cup {id}][d] : d \in D}
  BY <1>1
<1> QED BY <1>1, <1>2 DEF LvlAt

(* a number for every task, above those of its dependencies *)
Ranks(m, r, n) ==
  /\ r \in [Ids(m) -> 1..n]
  /\ \A id \in Ids(m) : \A d \in m.deps[id] : r[d] < r[id]

LEMMA RanksExist ==
  ASSUME NEW m, WellFormed(m), Acyclic(m)
  PROVE  \E n \in Nat : \E r : Ranks(m, r, n)
<1>1. PICK x \in Seq(Ids(m)) : x = TopoOrder(m) /\ Ordered(m, x) /\ Range(x) = Ids(m)
  BY OrderIsSound
<1>2. PICK n \in Nat : n = Len(x)
  OBVIOUS
<1>3. \A id \in Ids(m) : \E i \in 1..n : x[i] = id
  BY <1>1, <1>2, RangeOf
<1>4. PICK r : r = [id \in Ids(m) |-> CHOOSE i \in 1..n : x[i] = id]
  OBVIOUS
<1>5. \A id \in Ids(m) : r[id] \in 1..n /\ x[r[id]] = id
  BY <1>3, <1>4
<1>6. r \in [Ids(m) -> 1..n]
  BY <1>4, <1>5
<1>7. ASSUME NEW id \in Ids(m), NEW d \in m.deps[id] PROVE r[d] < r[id]
  <2>1. d \in Ids(m)
    BY IdsOf
  <2>5. PICK k \in 1..n : k = r[id] /\ x[k] = id
    BY <1>5
  <2>6. k \in 1..Len(x) /\ d \in m.deps[x[k]]
    BY <1>2, <2>5
  <2>7. \E i \in 1..(k - 1) : x[i] = d
    BY <1>1, <2>6 DEF Ordered
  <2>2. PICK i \in 1..(r[id] - 1) : x[i] = d
    BY <2>5, <2>7
  <2>3. i \in 1..n
    BY <2>5, <2>2
  <2>4. i = r[d]
    BY <1>1, <1>2, <1>5, <2>1, <2>2, <2>3 DEF Ordered
  <2> QED BY <1>5, <2>4
<1> QED BY <1>6, <1>7 DEF Ranks

(* lvl is defined: as many rounds as there are ranks settle it *)
LEMMA LevelRun ==
  ASSUME NEW m, WellFormed(m), Acyclic(m)
  PROVE  \E l : l = LvlStep(m, l) /\ Level(m) = l[{}]
<1>1. PICK n \in Nat : \E r : Ranks(m, r, n)
  BY RanksExist
<1>2. PICK r : Ranks(m, r, n)
  BY <1>1
<1> DEFINE B == [SUBSET Ids(m) -> [Ids(m) -> Nat]]
           g == [p \in Nat \X B |-> LvlStep(m, p[2])]
<1>3. ASSUME NEW l \in B PROVE LvlStep(m, l) \in B
  <2>1. ASSUME NEW seen \in SUBSET Ids(m), NEW id \in Ids(m) PROVE LvlAt(m, l, seen, id) \in Nat
    <3>1. m.deps[id] \subseteq Ids(m)
      BY IdsOf
    <3>2. seen \cup {id} \in SUBSET Ids(m)
      OBVIOUS
    <3>3. \A d \in m.deps[id] : l[seen \cup {id}][d] \in Nat
      BY <3>1, <3>2
    <3> HIDE DEF B
    <3> QED BY <3>3, LvlAtIs
  <2> QED BY <2>1 DEF LvlStep
<1>4. ASSUME NEW k \in Nat, NEW l \in B PROVE g[<<k, l>>] = LvlStep(m, l)
  <2>1. <<k, l>> \in Nat \X B
    OBVIOUS
  <2> QED BY <2>1
<1>5. g \in [Nat \X B -> B]
  BY <1>3
<1>6. PICK e \in B : e = [seen \in SUBSET Ids(m) |-> [id \in Ids(m) |-> 0]]
  <2>1. [seen \in SUBSET Ids(m) |-> [id \in Ids(m) |-> 0]] \in B
    OBVIOUS
  <2> QED BY <2>1
<1> HIDE DEF g, B
<1>7. PICK h : Chain(B, g, e, n + 1, h)
  <2>1. n + 1 \in Nat
    OBVIOUS
  <2> QED BY <1>5, <2>1, Iteration
<1>8. ASSUME NEW k \in 1..(n + 1) PROVE h[k] = LvlStep(m, h[k - 1])
  <2>1. h[k] = g[<<k, h[k - 1]>>] /\ h[k - 1] \in B
    BY <1>7 DEF Chain
  <2> QED BY <2>1, <1>4
<1> DEFINE T == {k \in 0..n : \A seen \in SUBSET Ids(m) : \A id \in Ids(m) :
                   r[id] <= k => h[k][seen][id] = h[k + 1][seen][id]}
<1>9. 0 \in T
  BY <1>2 DEF Ranks
<1>10. ASSUME NEW k \in 1..n, k - 1 \in T PROVE k \in T
  <2>1. ASSUME NEW seen \in SUBSET Ids(m), NEW id \in Ids(m), r[id] <= k
        PROVE  h[k][seen][id] = h[k + 1][seen][id]
    <3>1. k \in 1..(n + 1) /\ k + 1 \in 1..(n + 1) /\ (k + 1) - 1 = k /\ (k - 1) + 1 = k
      OBVIOUS
    <3>2. h[k] = LvlStep(m, h[k - 1]) /\ h[k + 1] = LvlStep(m, h[k])
      BY <1>8, <3>1
    <3>3. h[k][seen][id] = LvlAt(m, h[k - 1], seen, id)
      BY <3>2 DEF LvlStep
    <3>4. h[k + 1][seen][id] = LvlAt(m, h[k], seen, id)
      BY <3>2 DEF LvlStep
    <3>5. ASSUME NEW d \in m.deps[id]
          PROVE  h[k - 1][seen \cup {id}][d] = h[k][seen \cup {id}][d]
      <4>1. d \in Ids(m) /\ seen \cup {id} \in SUBSET Ids(m)
        BY IdsOf
      <4>2. r[d] < r[id] /\ r[d] \in Nat /\ r[id] \in Nat
        BY <1>2, <4>1 DEF Ranks
      <4>3. r[d] <= k - 1
        BY <2>1, <4>2
      <4> QED BY <1>10, <3>1, <4>1, <4>3
    <3>6. LvlAt(m, h[k - 1], seen, id) = LvlAt(m, h[k], seen, id)
      BY <3>5, LvlAtSame
    <3> QED BY <3>3, <3>4, <3>6
  <2>2. k \in 0..n
    OBVIOUS
  <2> QED BY <2>1, <2>2
<1>11. n \in T
  <2> HIDE DEF T
  <2>1. \A k \in 0..n : k \in T
    BY <1>9, <1>10, UpTo
  <2> QED BY <2>1
<1>12. PICK l \in B : l = h[n]
  BY <1>7 DEF Chain
<1>13. PICK k \in B : k = h[n + 1]
  BY <1>7 DEF Chain
<1>14. k = LvlStep(m, l)
  <2>1. n + 1 \in 1..(n + 1) /\ (n + 1) - 1 = n
    OBVIOUS
  <2> QED BY <1>8, <1>12, <1>13, <2>1
<1>15. k = l
  <2>1. ASSUME NEW seen \in SUBSET Ids(m), NEW id \in Ids(m) PROVE l[seen][id] = k[seen][id]
    <3>1. r[id] <= n
      BY <1>2 DEF Ranks
    <3> QED BY <1>11, <1>12, <1>13, <3>1
  <2> QED BY <2>1 DEF B
<1> DEFINE F(x) == x = LvlStep(m, x)
<1>16. F(l)
  BY <1>14, <1>15
<1>17. F(CHOOSE x : F(x))
  BY <1>16
<1>18. Level(m) = (CHOOSE x : F(x))[{}]
  BY DEF Level, LvlStep, LvlAt
<1> QED BY <1>17, <1>18

(* renderGraph puts a task right of everything it depends on, and no further than
   the longest chain asks for. *)
LEMMA LevelsAreExact ==
  ASSUME NEW m, WellFormed(m), Acyclic(m), NEW id \in Ids(m)
  PROVE  LET level == Level(m)
         IN /\ \A d \in m.deps[id] : level[d] < level[id]
            /\ level[id] > 0 => \E d \in m.deps[id] : level[d] = level[id] - 1
<1>1. PICK n \in Nat : \E r : Ranks(m, r, n)
  BY RanksExist
<1>2. PICK r : Ranks(m, r, n)
  BY <1>1
<1>3. PICK l : l = LvlStep(m, l) /\ Level(m) = l[{}]
  BY LevelRun
<1>4. \A seen \in SUBSET Ids(m) : \A x \in Ids(m) : l[seen][x] = LvlAt(m, l, seen, x)
  <2> SUFFICES ASSUME NEW seen \in SUBSET Ids(m), NEW x \in Ids(m)
               PROVE  l[seen][x] = LvlAt(m, l, seen, x)
    OBVIOUS
  <2>1. PICK k : k = LvlStep(m, l)
    OBVIOUS
  <2>2. k[seen][x] = LvlAt(m, l, seen, x)
    BY <2>1 DEF LvlStep
  <2> QED BY <1>3, <2>1, <2>2
<1>5. \A x \in Ids(m) : \A d \in m.deps[x] : d \in Ids(m) /\ r[d] < r[x] /\ r[d] \in 1..n /\ r[x] \in 1..n
  BY <1>2, IdsOf DEF Ranks
<1>6. \A seen \in SUBSET Ids(m) : \A x \in Ids(m) : l[seen][x] \in Nat
  <2> DEFINE T == {k \in 0..n : \A seen \in SUBSET Ids(m) : \A x \in Ids(m) :
                     r[x] <= k => l[seen][x] \in Nat}
  <2>1. 0 \in T
    BY <1>2 DEF Ranks
  <2>2. ASSUME NEW k \in 1..n, k - 1 \in T PROVE k \in T
    <3>1. ASSUME NEW seen \in SUBSET Ids(m), NEW x \in Ids(m), r[x] <= k PROVE l[seen][x] \in Nat
      <4>1. seen \cup {x} \in SUBSET Ids(m)
        OBVIOUS
      <4>2. \A d \in m.deps[x] : r[d] <= k - 1
        BY <1>5, <3>1
      <4>3. \A d \in m.deps[x] : l[seen \cup {x}][d] \in Nat
        BY <1>5, <2>2, <4>1, <4>2
      <4>4. LvlAt(m, l, seen, x) \in Nat
        BY <4>3, LvlAtIs
      <4> QED BY <1>4, <4>4
    <3>2. k \in 0..n
      OBVIOUS
    <3> QED BY <3>1, <3>2
  <2>3. n \in T
    <3> HIDE DEF T
    <3>1. \A k \in 0..n : k \in T
      BY <2>1, <2>2, UpTo
    <3> QED BY <3>1
  <2>4. \A x \in Ids(m) : r[x] <= n
    BY <1>2 DEF Ranks
  <2> QED BY <2>3, <2>4
<1>7. \A x \in Ids(m) : \A seen \in SUBSET Ids(m) :
        (\A s \in seen : r[x] < r[s]) => l[seen][x] = l[{}][x]
  <2> DEFINE T == {k \in 0..n : \A x \in Ids(m) : r[x] <= k => \A seen \in SUBSET Ids(m) :
                     (\A s \in seen : r[x] < r[s]) => l[seen][x] = l[{}][x]}
  <2>1. 0 \in T
    BY <1>2 DEF Ranks
  <2>2. ASSUME NEW k \in 1..n, k - 1 \in T PROVE k \in T
    <3>1. ASSUME NEW x \in Ids(m), r[x] <= k, NEW seen \in SUBSET Ids(m), \A s \in seen : r[x] < r[s]
          PROVE  l[seen][x] = l[{}][x]
      <4>1. seen \cup {x} \in SUBSET Ids(m) /\ {} \cup {x} \in SUBSET Ids(m) /\ {} \in SUBSET Ids(m)
        OBVIOUS
      <4>2. r[x] \in Nat /\ \A s \in Ids(m) : r[s] \in Nat
        BY <1>2 DEF Ranks
      <4>3. x \notin seen
        BY <3>1, <4>2
      <4>4. ASSUME NEW d \in m.deps[x] PROVE l[seen \cup {x}][d] = l[{} \cup {x}][d]
        <5>1. d \in Ids(m) /\ r[d] < r[x] /\ r[d] \in Nat /\ r[d] <= k - 1
          BY <1>5, <3>1
        <5>2. \A s \in seen \cup {x} : r[d] < r[s]
          BY <3>1, <4>2, <5>1
        <5>3. \A s \in {} \cup {x} : r[d] < r[s]
          BY <5>1
        <5>4. l[seen \cup {x}][d] = l[{}][d]
          BY <2>2, <4>1, <5>1, <5>2
        <5>5. l[{} \cup {x}][d] = l[{}][d]
          BY <2>2, <4>1, <5>1, <5>3
        <5> QED BY <5>4, <5>5
      <4>5. PICK e : e = {}
        OBVIOUS
      <4>6. x \notin e
        BY <4>5
      <4>7. \A d \in m.deps[x] : l[seen \cup {x}][d] = l[e \cup {x}][d]
        BY <4>4, <4>5
      <4>8. LvlAt(m, l, seen, x) = LvlAt(m, l, e, x)
        <5> HIDE DEF T
        <5>1. PICK D : D = m.deps[x] \cap Ids(m)
          OBVIOUS
        <5>2. {l[seen \cup {x}][d] : d \in D} = {l[e \cup {x}][d] : d \in D}
          BY <4>7, <5>1
        <5> QED BY <4>3, <4>6, <5>1, <5>2 DEF LvlAt
      <4> QED BY <1>4, <4>1, <4>5, <4>8
    <3>2. k \in 0..n
      OBVIOUS
    <3> QED BY <3>1, <3>2
  <2>3. n \in T
    <3> HIDE DEF T
    <3>1. \A k \in 0..n : k \in T
      BY <2>1, <2>2, UpTo
    <3> QED BY <3>1
  <2>4. \A x \in Ids(m) : r[x] <= n
    BY <1>2 DEF Ranks
  <2> QED BY <2>3, <2>4
<1>8. \A d \in m.deps[id] : l[{} \cup {id}][d] = l[{}][d] /\ l[{} \cup {id}][d] \in Nat
  <2> SUFFICES ASSUME NEW d \in m.deps[id]
               PROVE  l[{} \cup {id}][d] = l[{}][d] /\ l[{} \cup {id}][d] \in Nat
    OBVIOUS
  <2>1. d \in Ids(m) /\ {} \cup {id} \in SUBSET Ids(m) /\ \A s \in {} \cup {id} : r[d] < r[s]
    BY <1>5
  <2> QED BY <1>6, <1>7, <2>1
<1>9. l[{}][id] = LvlAt(m, l, {}, id)
  BY <1>4
<1>10. /\ \A d \in m.deps[id] : l[{} \cup {id}][d] < LvlAt(m, l, {}, id)
       /\ LvlAt(m, l, {}, id) > 0 =>
            \E d \in m.deps[id] : l[{} \cup {id}][d] = LvlAt(m, l, {}, id) - 1
  BY <1>8, LvlAtIs
<1> QED BY <1>3, <1>8, <1>9, <1>10

-----------------------------------------------------------------------------
(* What the edits do to a structure. *)

Record(m) == m = [ids |-> m.ids, deps |-> m.deps, blank |-> m.blank]
Sound(m) == Record(m) /\ WellFormed(m) /\ Acyclic(m)

LEMMA IsWellFormed ==
  ASSUME NEW s \in Seq(Id), IsInjective(s), NEW D \in [Range(s) -> SUBSET Range(s)],
         NEW B \in SUBSET Range(s), NEW m, m = [ids |-> s, deps |-> D, blank |-> B]
  PROVE  Record(m) /\ WellFormed(m) /\ Ids(m) = Range(s) /\ m.deps = D /\ m.ids = s /\ m.blank = B
<1>1. m.ids = s /\ m.deps = D /\ m.blank = B
  OBVIOUS
<1>2. Ids(m) = Range(s)
  BY <1>1 DEF Ids, Range
<1>3. Record(m)
  BY <1>1 DEF Record
<1> QED BY <1>1, <1>2, <1>3 DEF WellFormed

(* fewer tasks or fewer dependencies close no cycle *)
LEMMA FewerKeepAcyclic ==
  ASSUME NEW m, Acyclic(m), NEW n, Ids(n) \subseteq Ids(m),
         \A id \in Ids(n) : n.deps[id] \subseteq m.deps[id]
  PROVE  Acyclic(n)
<1> SUFFICES ASSUME NEW S \in (SUBSET Ids(n)) \ {{}} PROVE \E id \in S : n.deps[id] \cap S = {}
  BY DEF Acyclic
<1>1. PICK id \in S : m.deps[id] \cap S = {}
  BY DEF Acyclic
<1> QED BY <1>1

(* nothing waits for a task that is new *)
LEMMA NewKeepsAcyclic ==
  ASSUME NEW m, WellFormed(m), Acyclic(m), NEW n, NEW id, id \notin Ids(m), Ids(n) = Ids(m) \cup {id},
         \A x \in Ids(m) : n.deps[x] = m.deps[x], n.deps[id] \subseteq Ids(m)
  PROVE  Acyclic(n)
<1> SUFFICES ASSUME NEW S \in (SUBSET Ids(n)) \ {{}} PROVE \E x \in S : n.deps[x] \cap S = {}
  BY DEF Acyclic
<1>1. CASE S = {id}
  BY <1>1
<1>2. CASE S # {id}
  <2>1. PICK U : U = S \ {id}
    OBVIOUS
  <2>2. U \in (SUBSET Ids(m)) \ {{}}
    BY <1>2, <2>1
  <2>3. PICK x \in U : m.deps[x] \cap U = {}
    BY <2>2 DEF Acyclic
  <2>4. m.deps[x] \subseteq Ids(m) /\ n.deps[x] = m.deps[x]
    BY <2>2, <2>3, IdsOf
  <2> QED BY <2>1, <2>2, <2>3, <2>4
<1> QED BY <1>1, <1>2

LEMMA WithDepIs ==
  ASSUME NEW m, Sound(m), NEW up \in Ids(m), NEW down \in Ids(m), NEW n, n = WithDep(m, up, down)
  PROVE  Record(n) /\ WellFormed(n) /\ (~HasCycle(n) => Sound(n))
<1>1. PICK s \in Seq(Id), D \in [Ids(m) -> SUBSET Ids(m)], B \in SUBSET Ids(m) :
        m = [ids |-> s, deps |-> D, blank |-> B] /\ IsInjective(s) /\ Ids(m) = Range(s)
  BY IdsOf DEF Sound, Record, WellFormed
<1>2. PICK E \in [Ids(m) -> SUBSET Ids(m)] : E = [D EXCEPT ![down] = D[down] \cup {up}]
  <2>1. [D EXCEPT ![down] = D[down] \cup {up}] \in [Ids(m) -> SUBSET Ids(m)]
    OBVIOUS
  <2> QED BY <2>1
<1>3. n = [ids |-> s, deps |-> E, blank |-> B]
  BY <1>1, <1>2 DEF WithDep
<1>4. Record(n) /\ WellFormed(n)
  <2>1. E \in [Range(s) -> SUBSET Range(s)] /\ B \in SUBSET Range(s) /\ IsInjective(s)
    BY <1>1
  <2> QED BY <1>3, <2>1, IsWellFormed
<1> QED BY <1>4, SearchDecides DEF Sound

LEMMA WithoutDepIs ==
  ASSUME NEW m, Sound(m), NEW up, NEW down \in Ids(m), NEW n, n = WithoutDep(m, up, down)
  PROVE  Sound(n)
<1>1. PICK s \in Seq(Id), D \in [Ids(m) -> SUBSET Ids(m)], B \in SUBSET Ids(m) :
        m = [ids |-> s, deps |-> D, blank |-> B] /\ IsInjective(s) /\ Ids(m) = Range(s)
  BY IdsOf DEF Sound, Record, WellFormed
<1>2. PICK E \in [Ids(m) -> SUBSET Ids(m)] : E = [D EXCEPT ![down] = D[down] \ {up}]
  <2>1. [D EXCEPT ![down] = D[down] \ {up}] \in [Ids(m) -> SUBSET Ids(m)]
    OBVIOUS
  <2> QED BY <2>1
<1>3. n = [ids |-> s, deps |-> E, blank |-> B]
  BY <1>1, <1>2 DEF WithoutDep
<1>4. Record(n) /\ WellFormed(n) /\ Ids(n) = Range(s) /\ n.deps = E
  <2>1. E \in [Range(s) -> SUBSET Range(s)] /\ B \in SUBSET Range(s) /\ IsInjective(s)
    BY <1>1
  <2> QED BY <1>3, <2>1, IsWellFormed
<1>5. m.deps = D /\ \A id \in Ids(m) : E[id] \subseteq D[id]
  BY <1>1, <1>2
<1>6. Acyclic(n)
  BY <1>1, <1>4, <1>5, FewerKeepAcyclic DEF Sound
<1> QED BY <1>4, <1>6 DEF Sound

LEMMA WithCommandsIs ==
  ASSUME NEW m, Sound(m), NEW C \in SUBSET Ids(m), NEW n, n = [m EXCEPT !.blank = C]
  PROVE  Sound(n) /\ Ids(n) = Ids(m)
<1>1. PICK s \in Seq(Id), D \in [Ids(m) -> SUBSET Ids(m)], B \in SUBSET Ids(m) :
        m = [ids |-> s, deps |-> D, blank |-> B] /\ IsInjective(s) /\ Ids(m) = Range(s)
  BY IdsOf DEF Sound, Record, WellFormed
<1>2. n = [ids |-> s, deps |-> D, blank |-> C]
  BY <1>1
<1>3. Record(n) /\ WellFormed(n) /\ Ids(n) = Ids(m) /\ n.deps = m.deps
  BY <1>1, <1>2, IsWellFormed
<1>4. Acyclic(n)
  BY <1>3, FewerKeepAcyclic DEF Sound
<1> QED BY <1>3, <1>4 DEF Sound

LEMMA WithTaskIs ==
  ASSUME NEW m, Sound(m), NEW id \in Id, id \notin Ids(m), NEW deps \in SUBSET Ids(m),
         NEW blank \in SUBSET {id}, NEW n, n = WithTask(m, id, deps, blank)
  PROVE  Sound(n) /\ Ids(n) = Ids(m) \cup {id}
<1>1. PICK s \in Seq(Id), D \in [Ids(m) -> SUBSET Ids(m)], B \in SUBSET Ids(m) :
        m = [ids |-> s, deps |-> D, blank |-> B] /\ IsInjective(s) /\ Ids(m) = Range(s)
  BY IdsOf DEF Sound, Record, WellFormed
<1>2. PICK t \in Seq(Id) : t = Append(s, id)
  <2>1. Append(s, id) \in Seq(Id)
    OBVIOUS
  <2> QED BY <2>1
<1>3. PICK k \in Nat : k = Len(s)
  OBVIOUS
<1>4. Len(t) = k + 1 /\ t[k + 1] = id /\ \A i \in 1..k : t[i] = s[i]
  BY <1>2, <1>3
<1>5. Range(t) = Ids(m) \cup {id}
  <2>1. \A v : v \in Range(t) <=> \E i \in 1..(k + 1) : t[i] = v
    BY <1>4, RangeOf
  <2>2. \A v : v \in Ids(m) <=> \E i \in 1..k : s[i] = v
    BY <1>1, <1>3, RangeOf
  <2>3. ASSUME NEW v \in Range(t) PROVE v \in Ids(m) \cup {id}
    <3>1. PICK i \in 1..(k + 1) : t[i] = v
      BY <2>1
    <3>2. CASE i \in 1..k
      BY <1>4, <2>2, <3>1, <3>2
    <3>3. CASE i = k + 1
      BY <1>4, <3>1, <3>3
    <3> QED BY <3>2, <3>3
  <2>4. ASSUME NEW v \in Ids(m) PROVE v \in Range(t)
    <3>1. PICK i \in 1..k : s[i] = v
      BY <2>2
    <3>2. i \in 1..(k + 1) /\ t[i] = v
      BY <1>4, <3>1
    <3> QED BY <2>1, <3>2
  <2>5. id \in Range(t)
    <3>1. k + 1 \in 1..(k + 1)
      OBVIOUS
    <3> QED BY <1>4, <2>1, <3>1
  <2> QED BY <2>3, <2>4, <2>5
<1>6. IsInjective(t)
  <2>1. \A i, j \in 1..k : s[i] = s[j] => i = j
    BY <1>1, <1>3 DEF IsInjective
  <2>2. \A i \in 1..k : s[i] # id
    BY <1>1, <1>3, RangeOf
  <2>3. ASSUME NEW i \in 1..(k + 1), NEW j \in 1..(k + 1), t[i] = t[j] PROVE i = j
    <3>1. (i \in 1..k \/ i = k + 1) /\ (j \in 1..k \/ j = k + 1)
      OBVIOUS
    <3> QED BY <1>4, <2>1, <2>2, <2>3, <3>1
  <2>4. DOMAIN t = 1..(k + 1)
    BY <1>4
  <2> QED BY <2>3, <2>4 DEF IsInjective
<1>7. PICK E : E = [x \in Ids(m) \cup {id} |-> IF x = id THEN deps ELSE D[x]]
  OBVIOUS
<1>8. E \in [Range(t) -> SUBSET Range(t)]
  BY <1>5, <1>7
<1>9. PICK C \in SUBSET Range(t) : C = B \cup blank
  BY <1>5
<1>10. n = [ids |-> t, deps |-> E, blank |-> C]
  BY <1>1, <1>2, <1>7, <1>9 DEF WithTask
<1>11. Record(n) /\ WellFormed(n) /\ Ids(n) = Range(t) /\ n.deps = E
  BY <1>6, <1>8, <1>10, IsWellFormed
<1>12. m.deps = D /\ E[id] = deps /\ \A x \in Ids(m) : E[x] = D[x]
  BY <1>1, <1>7
<1>13. Acyclic(n)
  <2>1. Ids(n) = Ids(m) \cup {id} /\ n.deps[id] \subseteq Ids(m) /\ \A x \in Ids(m) : n.deps[x] = m.deps[x]
    BY <1>5, <1>11, <1>12
  <2> QED BY <2>1, NewKeepsAcyclic DEF Sound
<1> QED BY <1>5, <1>11, <1>13 DEF Sound

LEMMA WithoutTaskIs ==
  ASSUME NEW m, Sound(m), NEW id, NEW n, n = WithoutTask(m, id)
  PROVE  Sound(n) /\ Ids(n) = Ids(m) \ {id}
<1>1. PICK s \in Seq(Id), D \in [Ids(m) -> SUBSET Ids(m)], B \in SUBSET Ids(m) :
        m = [ids |-> s, deps |-> D, blank |-> B] /\ IsInjective(s) /\ Ids(m) = Range(s)
  BY IdsOf DEF Sound, Record, WellFormed
<1>2. PICK I : I = Ids(m) \ {id}
  OBVIOUS
<1>3. PICK t : t = Keep(s, I)
  OBVIOUS
<1>4. t \in Seq(Id) /\ Range(t) = Range(s) \cap I /\ IsInjective(t)
  BY <1>1, <1>3, KeepFacts
<1>5. Range(t) = I
  BY <1>1, <1>2, <1>4
<1>6. PICK E : E = [x \in I |-> D[x] \ {id}]
  OBVIOUS
<1>7. E \in [Range(t) -> SUBSET Range(t)]
  BY <1>2, <1>5, <1>6
<1>8. PICK C \in SUBSET Range(t) : C = B \ {id}
  BY <1>2, <1>5
<1>9. n = [ids |-> t, deps |-> E, blank |-> C]
  BY <1>1, <1>2, <1>3, <1>6, <1>8 DEF WithoutTask
<1>10. Record(n) /\ WellFormed(n) /\ Ids(n) = Range(t) /\ n.deps = E
  <2>1. t \in Seq(Id) /\ IsInjective(t) /\ E \in [Range(t) -> SUBSET Range(t)]
    BY <1>4, <1>7
  <2>2. C \in SUBSET Range(t)
    OBVIOUS
  <2> QED BY ONLY <1>9, <2>1, <2>2, IsWellFormed
<1>11. m.deps = D /\ \A x \in I : E[x] \subseteq D[x]
  BY <1>1, <1>6
<1>12. Acyclic(n)
  <2>1. Ids(n) \subseteq Ids(m) /\ \A x \in Ids(n) : n.deps[x] \subseteq m.deps[x]
    BY <1>2, <1>5, <1>10, <1>11
  <2> QED BY <2>1, FewerKeepAcyclic DEF Sound
<1> QED BY <1>2, <1>5, <1>10, <1>12 DEF Sound

New(id, newId, x) == IF x = id THEN newId ELSE x
Old(id, newId, x) == IF x = newId THEN id ELSE x
Renamed(m, id, newId) ==
  [ids |-> [i \in 1..Len(m.ids) |-> New(id, newId, m.ids[i])],
   deps |-> [x \in (Ids(m) \ {id}) \cup {newId} |->
               {New(id, newId, d) : d \in m.deps[Old(id, newId, x)]}],
   blank |-> {New(id, newId, x) : x \in m.blank}]

LEMMA RenamedIs ==
  ASSUME NEW m, Sound(m), NEW id \in Ids(m), NEW newId \in Id, newId \notin Ids(m),
         NEW n, n = Renamed(m, id, newId)
  PROVE  Sound(n) /\ Ids(n) = (Ids(m) \ {id}) \cup {newId}
<1>1. PICK s \in Seq(Id), D \in [Ids(m) -> SUBSET Ids(m)], B \in SUBSET Ids(m) :
        m = [ids |-> s, deps |-> D, blank |-> B] /\ IsInjective(s) /\ Ids(m) = Range(s)
  BY IdsOf DEF Sound, Record, WellFormed
<1>2. PICK k \in Nat : k = Len(s)
  OBVIOUS
<1>3. PICK t : t = [i \in 1..k |-> New(id, newId, s[i])]
  OBVIOUS
<1>4. PICK I : I = (Ids(m) \ {id}) \cup {newId}
  OBVIOUS
<1>5. \A i \in 1..k : s[i] \in Ids(m) /\ s[i] \in Id /\ s[i] # newId
  BY <1>1, <1>2, RangeOf
<1>6. \A x \in Ids(m) : New(id, newId, x) \in I /\ Old(id, newId, New(id, newId, x)) = x
  BY <1>4 DEF New, Old
<1>7. \A x \in I : Old(id, newId, x) \in Ids(m) /\ New(id, newId, Old(id, newId, x)) = x
  BY <1>4 DEF New, Old
<1>8. t \in Seq(Id) /\ Len(t) = k /\ \A i \in 1..k : t[i] = New(id, newId, s[i])
  <2>1. \A i \in 1..k : New(id, newId, s[i]) \in Id
    BY <1>5 DEF New
  <2>2. t \in [1..k -> Id]
    BY <1>3, <2>1
  <2> QED BY <1>3, <2>2
<1>9. IsInjective(t)
  <2>1. \A i, j \in 1..k : s[i] = s[j] => i = j
    BY <1>1, <1>2 DEF IsInjective
  <2>2. ASSUME NEW i \in 1..k, NEW j \in 1..k, t[i] = t[j] PROVE i = j
    <3>1. s[i] = s[j]
      BY <1>5, <1>6, <1>8, <2>2
    <3> QED BY <2>1, <3>1
  <2>3. DOMAIN t = 1..k
    BY <1>3
  <2> QED BY <2>2, <2>3 DEF IsInjective
<1>10. Range(t) = I
  <2>1. \A v : v \in Range(t) <=> \E i \in 1..k : t[i] = v
    BY <1>8, RangeOf
  <2>2. \A v : v \in Ids(m) <=> \E i \in 1..k : s[i] = v
    BY <1>1, <1>2, RangeOf
  <2>3. ASSUME NEW v \in Range(t) PROVE v \in I
    BY <1>5, <1>6, <1>8, <2>1
  <2>4. ASSUME NEW v \in I PROVE v \in Range(t)
    <3>1. PICK i \in 1..k : s[i] = Old(id, newId, v)
      BY <1>7, <2>2
    <3>2. t[i] = v
      BY <1>7, <1>8, <3>1
    <3> QED BY <2>1, <3>2
  <2> QED BY <2>3, <2>4
<1>11. PICK E : E = [x \in I |-> {New(id, newId, d) : d \in D[Old(id, newId, x)]}]
  OBVIOUS
<1>12. E \in [Range(t) -> SUBSET Range(t)]
  <2>1. ASSUME NEW x \in I PROVE {New(id, newId, d) : d \in D[Old(id, newId, x)]} \subseteq I
    <3>1. D[Old(id, newId, x)] \subseteq Ids(m)
      BY <1>7
    <3> QED BY <1>6, <3>1
  <2> QED BY <1>10, <1>11, <2>1
<1>13. PICK C \in SUBSET Range(t) : C = {New(id, newId, x) : x \in B}
  <2>1. {New(id, newId, x) : x \in B} \in SUBSET Range(t)
    BY <1>6, <1>10
  <2> QED BY <2>1
<1>14. n = [ids |-> t, deps |-> E, blank |-> C]
  <2>1. m.ids = s /\ m.deps = D /\ m.blank = B
    BY <1>1
  <2> QED BY <1>2, <1>3, <1>4, <1>11, <1>13, <2>1 DEF Renamed
<1>15. Record(n) /\ WellFormed(n) /\ Ids(n) = Range(t) /\ n.deps = E
  <2>1. t \in Seq(Id) /\ IsInjective(t)
    BY <1>8, <1>9
  <2> QED BY <1>12, <1>14, <2>1, IsWellFormed
<1>16. Acyclic(n)
  <2> SUFFICES ASSUME NEW S \in (SUBSET Ids(n)) \ {{}} PROVE \E x \in S : n.deps[x] \cap S = {}
    BY DEF Acyclic
  <2>1. PICK U : U = {x \in Ids(m) : New(id, newId, x) \in S}
    OBVIOUS
  <2>2. S \subseteq I
    BY <1>10, <1>15
  <2>3. U \in (SUBSET Ids(m)) \ {{}}
    BY <1>7, <2>1, <2>2
  <2>4. PICK x \in U : m.deps[x] \cap U = {}
    BY <2>3 DEF Acyclic, Sound
  <2>5. x \in Ids(m) /\ D[x] \subseteq Ids(m) /\ D[x] \cap U = {}
    BY <1>1, <2>3, <2>4
  <2>6. PICK y \in S : y = New(id, newId, x)
    BY <2>1, <2>4
  <2>7. Old(id, newId, y) = x /\ y \in I
    BY <1>6, <2>5, <2>6
  <2>8. n.deps[y] = {New(id, newId, d) : d \in D[x]}
    BY <1>11, <1>15, <2>7
  <2>9. ASSUME NEW d \in D[x] PROVE New(id, newId, d) \notin S
    BY <2>1, <2>5
  <2>10. n.deps[y] \cap S = {}
    BY <2>8, <2>9
  <2> QED BY <2>10
<1> QED BY <1>4, <1>10, <1>15, <1>16 DEF Sound

LEMMA FreshIdIs ==
  ASSUME NEW m, WellFormed(m), \E n \in Id \ Ids(m) : n > Len(m.ids)
  PROVE  FreshId(m) \in Id /\ FreshId(m) \notin Ids(m)
<1>1. PICK k \in Nat : k = Len(m.ids)
  BY IdsCount
<1> DEFINE T == {n \in Id \ Ids(m) : n > k}
<1>2. T \in SUBSET Nat /\ T # {}
  BY <1>1, GraphAssumption
<1>3. PICK n \in T : \A j \in T : n <= j
  <2> HIDE DEF T
  <2> QED BY <1>2, Least
<1>4. n \in Id \ Ids(m) /\ n > k /\ \A j \in (Id \ Ids(m)) : j > k => n <= j
  BY <1>3
<1>5. \E x \in Id \ Ids(m) : x > k /\ \A j \in (Id \ Ids(m)) : j > k => x <= j
  BY <1>4
<1> QED BY <1>1, <1>5 DEF FreshId

LEMMA SoundIsSome ==
  ASSUME NEW m, Sound(m)
  PROVE  m # None
<1>1. m.blank \subseteq Ids(m) /\ 0 \notin Ids(m)
  BY IdsOf DEF Sound, WellFormed
<1>2. 0 \in None.blank
  BY DEF None
<1> QED BY <1>1, <1>2

(* the server's check finds nothing that validateDag did not *)
LEMMA AcceptsWhatIsValid ==
  ASSUME NEW m, Sound(m)
  PROVE  Accepts(m) <=> ValidateDag(m)
<1>1. \A id \in Ids(m) : m.deps[id] \subseteq Ids(m)
  BY IdsOf DEF Sound
<1> QED BY <1>1 DEF Accepts

-----------------------------------------------------------------------------
(* Every step of the editor is one of six moves, and each of them installs sound
   structures only. *)

Structure == /\ Sound(tasks) /\ Sound(saved) /\ (graphBase = None \/ Sound(graphBase))
             /\ graphPending \in {0} \cup Ids(tasks)

Saves == \E m : Sound(m) /\ SaveDag(m)
Mutates == \E m : Sound(m) /\ GraphMutate(m)
Move == \/ UNCHANGED model \/ Saves \/ Mutates
        \/ FlushSave \/ GraphSaveSession \/ GraphDiscardSession

Picks == graphPending' \in {0} \cup Ids(tasks')

LEMMA TogglesAre ==
  ASSUME Structure, NEW up \in Ids(tasks), NEW down, NEW allowRemove,
         GraphToggleDep(up, down, allowRemove)
  PROVE  Move /\ Ids(tasks') = Ids(tasks)
<1>1. CASE Untouched
  BY <1>1 DEF Untouched, Move, model
<1>2. CASE down \in Ids(tasks) /\ GraphMutate(WithoutDep(tasks, up, down))
  <2>1. PICK n : n = WithoutDep(tasks, up, down)
    OBVIOUS
  <2>2. Sound(n)
    BY <1>2, <2>1, WithoutDepIs DEF Structure
  <2>3. Ids(n) = Ids(tasks)
    BY <2>1 DEF WithoutDep, Ids, Structure, Sound, Record
  <2>4. GraphMutate(n)
    BY <1>2, <2>1
  <2>5. tasks' = n
    BY <2>4 DEF GraphMutate
  <2> QED BY <2>2, <2>3, <2>4, <2>5 DEF Move, Mutates
<1>3. CASE down \in Ids(tasks) /\ ~HasCycle(WithDep(tasks, up, down)) /\ GraphMutate(WithDep(tasks, up, down))
  <2>1. PICK n : n = WithDep(tasks, up, down)
    OBVIOUS
  <2>2. Sound(n)
    BY <1>3, <2>1, WithDepIs DEF Structure
  <2>3. Ids(n) = Ids(tasks)
    BY <2>1 DEF WithDep, Ids, Structure, Sound, Record
  <2>4. GraphMutate(n)
    BY <1>3, <2>1
  <2>5. tasks' = n
    BY <2>4 DEF GraphMutate
  <2> QED BY <2>2, <2>3, <2>4, <2>5 DEF Move, Mutates
<1> QED BY <1>1, <1>2, <1>3 DEF GraphToggleDep

(* a save or a change of the graph that installs a sound structure, with the pick
   in it *)
LEMMA SavesAre ==
  ASSUME NEW m, Sound(m), SaveDag(m)
  PROVE  Move /\ tasks' = m
BY DEF Move, Saves, SaveDag

LEMMA MutatesAre ==
  ASSUME NEW m, Sound(m), GraphMutate(m)
  PROVE  Move /\ tasks' = m
BY DEF Move, Mutates, GraphMutate

LEMMA StepsMove ==
  ASSUME Structure, "stale_pick" \notin Races, [Next]_vars
  PROVE  Move /\ Picks
<1> USE DEF Picks
<1>0. WellFormed(tasks) /\ Acyclic(tasks) /\ Sound(tasks) /\ graphPending \in {0} \cup Ids(tasks)
  BY DEF Structure, Sound
<1>1. CASE FlushSave
  BY <1>0, <1>1 DEF FlushSave, Move
<1>2. CASE GraphSaveSession
  BY <1>2 DEF GraphSaveSession, Move
<1>3. CASE GraphDiscardSession
  BY <1>3 DEF GraphDiscardSession, Move
<1>4. CASE ToggleConnectMode
  BY <1>4 DEF ToggleConnectMode, Untouched, Move, model
<1>5. CASE AddTask
  <2>1. PICK id \in Id : id = FreshId(tasks) /\ id \notin Ids(tasks)
    BY <1>0, <1>5, FreshIdIs DEF AddTask
  <2>2. PICK n : n = WithTask(tasks, id, {}, {id})
    OBVIOUS
  <2>3. Sound(n) /\ Ids(n) = Ids(tasks) \cup {id}
    BY <1>0, <2>1, <2>2, WithTaskIs
  <2>4. SaveDag(n) /\ graphPending' = graphPending
    BY <1>5, <2>1, <2>2 DEF AddTask
  <2> QED BY <1>0, <2>3, <2>4, SavesAre
<1>6. CASE NvAddStep
  <2>1. PICK id \in Id : id = FreshId(tasks) /\ id \notin Ids(tasks)
    BY <1>0, <1>6, FreshIdIs DEF NvAddStep
  <2>2. PICK o \in Seq(Ids(tasks)) : o = TopoOrder(tasks)
    BY <1>0, OrderIsSound
  <2>3. PICK last \in SUBSET Ids(tasks) : last = IF o = <<>> THEN {} ELSE {Last(o)}
    <3>1. o # <<>> => Last(o) \in Ids(tasks)
      BY DEF Last
    <3> QED BY <3>1
  <2>4. PICK n : n = WithTask(tasks, id, last, {})
    OBVIOUS
  <2>5. Sound(n) /\ Ids(n) = Ids(tasks) \cup {id}
    BY <1>0, <2>1, <2>4, WithTaskIs
  <2>6. SaveDag(n) /\ graphPending' = graphPending
    BY <1>6, <2>1, <2>2, <2>3, <2>4 DEF NvAddStep
  <2> QED BY <1>0, <2>5, <2>6, SavesAre
<1>7. CASE ToggleDiff
  BY <1>0, <1>7 DEF ToggleDiff, Move, model
<1>8. CASE GotoDagPage
  BY <1>0, <1>8 DEF GotoDagPage, Untouched, Move, model
<1>9. CASE \E i \in 1..Len(diffs) : DiffAnswered(i)
  BY <1>0, <1>9 DEF DiffAnswered, Move, model
<1>10. ASSUME NEW id \in Id, ShowTask(id) PROVE Move /\ Picks
  BY <1>0, <1>10 DEF ShowTask, Move, model
<1>11. ASSUME NEW id \in Id, OnGraphNodeActivate(id) PROVE Move /\ Picks
  <2>1. CASE Untouched /\ graphPending' \in {0, id}
    BY <1>11, <2>1 DEF Untouched, Move, model, OnGraphNodeActivate
  <2>2. CASE graphPending # 0 /\ graphPending' = 0 /\ GraphToggleDep(graphPending, id, TRUE)
    <3>1. graphPending \in Ids(tasks)
      BY <1>0, <2>2
    <3>2. Move
      BY <2>2, <3>1, TogglesAre
    <3> QED BY <2>2, <3>2
  <2> QED BY <1>11, <2>1, <2>2 DEF OnGraphNodeActivate
<1>12. ASSUME NEW id \in Id, AddTaskFromGraph(id) PROVE Move /\ Picks
  <2>1. PICK n : n = WithTask(tasks, id, {}, {})
    OBVIOUS
  <2>2. id \notin Ids(tasks) /\ GraphMutate(n) /\ graphPending' = graphPending
    BY <1>12, <2>1 DEF AddTaskFromGraph
  <2>3. Sound(n) /\ Ids(n) = Ids(tasks) \cup {id}
    BY <1>0, <2>1, <2>2, WithTaskIs
  <2> QED BY <1>0, <2>2, <2>3, MutatesAre
<1>13. ASSUME NEW id \in Id, EditCommand(id) PROVE Move /\ Picks
  <2>1. PICK B \in SUBSET Ids(tasks) : B = IF id \in tasks.blank THEN tasks.blank \ {id} ELSE tasks.blank \cup {id}
    BY <1>0, <1>13 DEF EditCommand, WellFormed
  <2>2. PICK n : n = [tasks EXCEPT !.blank = B]
    OBVIOUS
  <2>3. SaveDag(n) /\ graphPending' = graphPending
    BY <1>13, <2>1, <2>2 DEF EditCommand
  <2>4. Sound(n) /\ Ids(n) = Ids(tasks)
    BY <1>0, <2>2, WithCommandsIs
  <2> QED BY <1>0, <2>3, <2>4, SavesAre
<1>14. ASSUME NEW id \in Id, DeleteTask(id) PROVE Move /\ Picks
  <2>1. PICK n : n = WithoutTask(tasks, id)
    OBVIOUS
  <2>2. SaveDag(n) /\ graphPending' = graphPending /\ graphPending # id
    BY <1>14, <2>1 DEF DeleteTask, MayChange
  <2>3. Sound(n) /\ Ids(n) = Ids(tasks) \ {id}
    BY <1>0, <2>1, WithoutTaskIs
  <2> QED BY <1>0, <2>2, <2>3, SavesAre
<1>15. ASSUME NEW id \in Id, NEW to \in Id, DragEdge(id, to) PROVE Move /\ Picks
  <2>1. id \in Ids(tasks) /\ GraphToggleDep(id, to, FALSE) /\ graphPending' = graphPending
    BY <1>15 DEF DragEdge
  <2> QED BY <1>0, <2>1, TogglesAre
<1>16. ASSUME NEW id \in Id, NEW to \in Id, RemoveEdge(id, to) PROVE Move /\ Picks
  <2>1. id \in Ids(tasks) /\ GraphToggleDep(id, to, TRUE) /\ graphPending' = graphPending
    BY <1>16 DEF RemoveEdge
  <2> QED BY <1>0, <2>1, TogglesAre
<1>17. ASSUME NEW id \in Id, NEW to \in Id, DuplicateTask(id, to) PROVE Move /\ Picks
  <2>1. id \in Ids(tasks) /\ to \notin Ids(tasks)
    BY <1>17 DEF DuplicateTask
  <2>2. PICK D \in SUBSET Ids(tasks) : D = tasks.deps[id]
    BY <1>0, <2>1, IdsOf
  <2>3. PICK B \in SUBSET {to} : B = IF id \in tasks.blank THEN {to} ELSE {}
    OBVIOUS
  <2>4. PICK n : n = WithTask(tasks, to, D, B)
    OBVIOUS
  <2>5. SaveDag(n) /\ graphPending' = graphPending
    BY <1>17, <2>2, <2>3, <2>4 DEF DuplicateTask
  <2>6. Sound(n) /\ Ids(n) = Ids(tasks) \cup {to}
    BY <1>0, <2>1, <2>4, WithTaskIs
  <2> QED BY <1>0, <2>5, <2>6, SavesAre
<1>18. ASSUME NEW id \in Id, NEW to \in Id, RenameActiveTask(id, to) PROVE Move /\ Picks
  <2>1. id \in Ids(tasks) /\ to \notin Ids(tasks) /\ graphPending # id /\ graphPending' = graphPending
    BY <1>18 DEF RenameActiveTask, MayChange
  <2>2. PICK n : n = Renamed(tasks, id, to)
    OBVIOUS
  <2>3. SaveDag(n)
    BY <1>18, <2>2 DEF RenameActiveTask, Renamed, New, Old
  <2>4. Sound(n) /\ Ids(n) = (Ids(tasks) \ {id}) \cup {to}
    BY <1>0, <2>1, <2>2, RenamedIs
  <2> QED BY <1>0, <2>1, <2>3, <2>4, SavesAre
<1>19. ASSUME NEW id \in Id, NEW to \in Id, ToggleChip(id, to) PROVE Move /\ Picks
  <2>1. id \in Ids(tasks) /\ to \in Ids(tasks) /\ graphPending' = graphPending
    BY <1>19 DEF ToggleChip
  <2>2. PICK n : n = IF to \in tasks.deps[id] THEN WithoutDep(tasks, to, id) ELSE WithDep(tasks, to, id)
    OBVIOUS
  <2>3. IF HasCycle(n) THEN UNCHANGED <<model, panel>> ELSE SaveDag(n)
    BY <1>19, <2>2 DEF ToggleChip
  <2>4. CASE HasCycle(n)
    BY <1>0, <2>1, <2>3, <2>4 DEF Move, model
  <2>5. CASE ~HasCycle(n)
    <3>1. Sound(n)
      BY <1>0, <2>1, <2>2, <2>5, WithoutDepIs, WithDepIs
    <3>2. Ids(n) = Ids(tasks)
      BY <1>0, <2>2 DEF WithoutDep, WithDep, Ids, Sound, Record
    <3> QED BY <1>0, <2>1, <2>3, <2>5, <3>1, <3>2, SavesAre
  <2> QED BY <2>4, <2>5
<1>20. CASE UNCHANGED vars
  BY <1>0, <1>20 DEF vars, Move, model
<1> HIDE DEF Picks
<1> QED BY <1>1, <1>2, <1>3, <1>4, <1>5, <1>6, <1>7, <1>8, <1>9, <1>10, <1>11, <1>12, <1>13, <1>14, <1>15, <1>16, <1>17, <1>18, <1>19, <1>20 DEF Next

LEMMA StructureStarts ==
  ASSUME Init
  PROVE  Structure
<1>1. PICK d \in [1..Start -> SUBSET (1..Start)] :
        /\ \A i \in 1..Start : d[i] \subseteq 1..(i - 1)
        /\ tasks = [ids |-> [i \in 1..Start |-> i], deps |-> d, blank |-> {}]
  BY DEF Init
<1>2. PICK s : s = [i \in 1..Start |-> i]
  OBVIOUS
<1>3. s \in Seq(Id) /\ Range(s) = 1..Start /\ IsInjective(s)
  <2>1. s \in [1..Start -> Id]
    BY <1>2, GraphAssumption
  <2>2. Start \in Nat
    BY GraphAssumption
  <2> QED BY <1>2, <2>1, <2>2 DEF Range, IsInjective
<1>4. tasks = [ids |-> s, deps |-> d, blank |-> {}]
  BY <1>1, <1>2
<1>5. d \in [Range(s) -> SUBSET Range(s)] /\ {} \in SUBSET Range(s)
  BY <1>3
<1>6. PICK m : m = tasks
  OBVIOUS
<1>7. Record(m) /\ WellFormed(m) /\ Ids(m) = Range(s) /\ m.deps = d
  <2>1. s \in Seq(Id) /\ IsInjective(s)
    BY <1>3
  <2>2. PICK B \in SUBSET Range(s) : B = {}
    OBVIOUS
  <2>3. m = [ids |-> s, deps |-> d, blank |-> B]
    BY <1>4, <1>6, <2>2
  <2> QED BY <1>5, <2>1, <2>3, IsWellFormed
<1>8. Acyclic(m)
  <2> SUFFICES ASSUME NEW S \in (SUBSET Ids(m)) \ {{}} PROVE \E id \in S : m.deps[id] \cap S = {}
    BY DEF Acyclic
  <2>1. S \in SUBSET Nat /\ S # {}
    BY <1>3, <1>7
  <2>2. PICK i \in S : \A j \in S : i <= j
    BY <2>1, Least
  <2>3. i \in 1..Start /\ d[i] \subseteq 1..(i - 1)
    BY <1>1, <1>3, <1>7
  <2>4. d[i] \cap S = {}
    BY <2>1, <2>2, <2>3
  <2> QED BY <1>7, <2>4
<1> QED BY <1>6, <1>7, <1>8 DEF Init, Structure, Sound

LEMMA StructureKeeps ==
  ASSUME Structure, "stale_pick" \notin Races, [Next]_vars
  PROVE  Structure'
<1>1. Move /\ Picks
  BY StepsMove
<1>2. CASE UNCHANGED model
  BY <1>1, <1>2 DEF Structure, Picks, model
<1>3. CASE Saves
  <2>1. PICK m : Sound(m) /\ SaveDag(m)
    BY <1>3 DEF Saves
  <2>2. tasks' = m /\ saved' = saved /\ graphBase' \in {None, graphBase}
    BY <2>1 DEF SaveDag
  <2> QED BY <1>1, <2>1, <2>2 DEF Structure, Picks
<1>4. CASE Mutates
  <2>1. PICK m : Sound(m) /\ GraphMutate(m)
    BY <1>4 DEF Mutates
  <2>2. tasks' = m /\ saved' = saved /\ graphBase' \in {tasks, graphBase}
    BY <2>1 DEF GraphMutate
  <2> QED BY <1>1, <2>1, <2>2 DEF Structure, Picks
<1>5. CASE FlushSave
  BY <1>1, <1>5 DEF FlushSave, Structure, Picks
<1>6. CASE GraphSaveSession
  BY <1>1, <1>6 DEF GraphSaveSession, Structure, Picks
<1>7. CASE GraphDiscardSession
  BY <1>1, <1>7 DEF GraphDiscardSession, Structure, Picks
<1> QED BY <1>1, <1>2, <1>3, <1>4, <1>5, <1>6, <1>7 DEF Move

LEMMA StructureHolds ==
  ASSUME "stale_pick" \notin Races
  PROVE  Spec => []Structure
<1>1. Init => Structure
  BY StructureStarts
<1>2. Structure /\ [Next]_vars => Structure'
  BY StructureKeeps
<1> QED BY <1>1, <1>2, PTL DEF Spec

(* Whatever is edited, discarded or saved, for any number of tasks and of edits, no
   id is used twice, every dependency is on a task that is there and no task waits
   for itself: the cycle check of graphToggleDep and the chips, the scrubbing of
   deleteTask and the rewriting of renameActiveTask are enough, as long as the task
   picked for a connection is still there when the second one is clicked. *)
THEOREM StructureIsSound ==
  ASSUME "stale_pick" \notin Races
  PROVE  Spec => []StructureSound
<1>1. Structure => StructureSound
  BY DEF Structure, StructureSound, Sound
<1> QED BY <1>1, StructureHolds, PTL

LEMMA StepsAreInOrder ==
  ASSUME Sound(tasks)
  PROVE  StepsInOrder
<1>1. PICK o \in Seq(Ids(tasks)) : /\ o = TopoOrder(tasks) /\ Ordered(tasks, o)
                                  /\ Len(o) = Len(tasks.ids) /\ Range(o) = Ids(tasks)
  BY OrderIsSound DEF Sound
<1>2. PICK k \in Nat : k = Len(o)
  OBVIOUS
<1>3. ASSUME NEW i \in 1..k, NEW j \in 1..k, o[i] \in tasks.deps[o[j]] PROVE i < j
  <2>1. PICK h \in 1..(j - 1) : o[h] = o[i]
    BY <1>1, <1>2, <1>3 DEF Ordered
  <2>2. h \in 1..k /\ h < j
    BY <2>1
  <2>3. h = i
    BY <1>1, <1>2, <2>1, <2>2 DEF Ordered
  <2> QED BY <2>2, <2>3
<1> QED BY <1>1, <1>2, <1>3 DEF StepsInOrder

(* For every structure the editor can hold: hasCycle's search refuses a dependency
   exactly when it closes a cycle, topoOrder numbers every step once and after what
   it depends on, and renderGraph's levels are the lengths of the longest chains. *)
THEOREM AlgorithmsAreExact ==
  ASSUME "stale_pick" \notin Races
  PROVE  Spec => []AlgorithmsExact
<1>1. Structure => AlgorithmsExact
  <2> SUFFICES ASSUME Structure PROVE AlgorithmsExact
    OBVIOUS
  <2>1. Sound(tasks)
    BY DEF Structure
  <2>2. CycleCheckExact
    <3> SUFFICES ASSUME NEW up \in Ids(tasks), NEW down \in Ids(tasks)
                 PROVE  HasCycle(WithDep(tasks, up, down)) = ~Acyclic(WithDep(tasks, up, down))
      BY DEF CycleCheckExact
    <3>1. PICK n : n = WithDep(tasks, up, down)
      OBVIOUS
    <3>2. WellFormed(n)
      BY <2>1, <3>1, WithDepIs
    <3>3. HasCycle(n) = ~Acyclic(n)
      BY <3>2, SearchDecides
    <3> QED BY <3>1, <3>3
  <2>3. StepsInOrder
    BY <2>1, StepsAreInOrder
  <2>4. LevelsAreDepths
    BY <2>1, LevelsAreExact DEF LevelsAreDepths, Sound
  <2> QED BY <2>2, <2>3, <2>4 DEF AlgorithmsExact
<1> QED BY <1>1, StructureHolds, PTL

(* during a session no save waits, and what it started from is what the server has,
   unless that could not be saved *)
Session == graphBase # None => ~saveTimer /\ (ValidateDag(graphBase) => saved = graphBase)

LEMMA SessionKeeps ==
  ASSUME Structure, "stale_pick" \notin Races, "early_timer" \notin Races,
         Session, SettledIsSaved, [Next]_vars
  PROVE  Session' /\ SettledIsSaved'
<1> USE DEF Session, SettledIsSaved
<1>1. Move
  BY StepsMove
<1>2. CASE UNCHANGED model
  BY <1>2 DEF model
<1>3. CASE Saves
  <2>1. PICK m : Sound(m) /\ SaveDag(m)
    BY <1>3 DEF Saves
  <2>2. CASE ValidateDag(m)
    BY <2>1, <2>2 DEF SaveDag
  <2>3. CASE ~ValidateDag(m)
    BY <2>1, <2>3 DEF SaveDag
  <2> QED BY <2>2, <2>3
<1>4. CASE Mutates
  <2>1. PICK m : Sound(m) /\ GraphMutate(m)
    BY <1>4 DEF Mutates
  <2>2. tasks # None
    BY SoundIsSome DEF Structure
  <2> QED BY <2>1, <2>2 DEF GraphMutate
<1>5. CASE FlushSave
  <2>1. Accepts(tasks) <=> ValidateDag(tasks)
    BY AcceptsWhatIsValid DEF Structure
  <2> QED BY <1>5, <2>1 DEF FlushSave
<1>6. CASE GraphSaveSession
  BY <1>6 DEF GraphSaveSession
<1>7. CASE GraphDiscardSession
  BY <1>7 DEF GraphDiscardSession
<1> QED BY <1>1, <1>2, <1>3, <1>4, <1>5, <1>6, <1>7 DEF Move

(* What the editor shows without a session, a waiting save or an error is what the
   server has, for any number of tasks and of edits: every edit reaches a save, and
   discarding a session leaves nothing of it behind.  No session is started while
   an earlier save waits for its timer. *)
THEOREM SettledStructureIsSaved ==
  ASSUME "stale_pick" \notin Races, "early_timer" \notin Races
  PROVE  Spec => []SettledIsSaved
<1>1. Init => Session /\ SettledIsSaved
  BY DEF Init, Session, SettledIsSaved
<1>2. Structure /\ Session /\ SettledIsSaved /\ [Next]_vars => Session' /\ SettledIsSaved'
  BY SessionKeeps
<1> QED BY <1>1, <1>2, StructureHolds, PTL DEF Spec

-----------------------------------------------------------------------------
(* diffLines. *)

(* every value of a recursive definition rests on values of lower rank *)
Ranked(D, F, r, G) ==
  /\ \A v, w \in F : (\A x \in D : v[x] = w[x]) => v = w
  /\ \A v, w \in F : \A x \in D :
       (\A y \in D : r[y] < r[x] => v[y] = w[y]) => G[v][x] = G[w][x]

(* then it defines something *)
LEMMA Recursion ==
  ASSUME NEW D, NEW F, NEW a \in F, NEW n \in Nat, NEW r \in [D -> 0..n],
         NEW G \in [F -> F], Ranked(D, F, r, G)
  PROVE  \E w \in F : w = G[w]
<1> DEFINE g == [p \in Nat \X F |-> G[p[2]]]
<1>1. g \in [Nat \X F -> F]
  OBVIOUS
<1>2. ASSUME NEW k \in Nat, NEW v \in F PROVE g[<<k, v>>] = G[v]
  <2>1. <<k, v>> \in Nat \X F
    OBVIOUS
  <2> QED BY <2>1
<1>3. \A v, w \in F : (\A x \in D : v[x] = w[x]) => v = w
  BY DEF Ranked
<1>4. \A v, w \in F : \A x \in D : (\A y \in D : r[y] < r[x] => v[y] = w[y]) => G[v][x] = G[w][x]
  BY DEF Ranked
<1> HIDE DEF g
<1>5. PICK h : Chain(F, g, a, n + 1, h)
  <2>1. n + 1 \in Nat
    OBVIOUS
  <2> QED BY <1>1, <2>1, Iteration
<1>6. \A k \in 0..(n + 1) : h[k] \in F
  BY <1>5 DEF Chain
<1>7. ASSUME NEW k \in 1..(n + 1) PROVE h[k] = G[h[k - 1]]
  <2>1. h[k] = g[<<k, h[k - 1]>>] /\ h[k - 1] \in F
    BY <1>5 DEF Chain
  <2> QED BY <2>1, <1>2
<1> DEFINE T == {k \in 0..n : \A x \in D : r[x] < k => h[k][x] = h[k + 1][x]}
<1>8. 0 \in T
  OBVIOUS
<1>9. ASSUME NEW k \in 1..n, k - 1 \in T PROVE k \in T
  <2>1. k \in 1..(n + 1) /\ k + 1 \in 1..(n + 1) /\ (k + 1) - 1 = k /\ (k - 1) + 1 = k /\ k \in 0..n
    OBVIOUS
  <2>2. h[k] = G[h[k - 1]] /\ h[k + 1] = G[h[k]]
    BY <1>7, <2>1
  <2>3. h[k] \in F /\ h[k - 1] \in F
    BY <1>6, <2>1
  <2>4. ASSUME NEW x \in D, r[x] < k PROVE h[k][x] = h[k + 1][x]
    <3>1. ASSUME NEW y \in D, r[y] < r[x] PROVE h[k - 1][y] = h[k][y]
      <4>1. r[y] < k - 1
        BY <2>4, <3>1
      <4> QED BY <1>9, <2>1, <4>1
    <3>2. G[h[k - 1]][x] = G[h[k]][x]
      <4> HIDE DEF T
      <4> QED BY <1>4, <2>3, <3>1
    <3> QED BY <2>2, <3>2
  <2> QED BY <2>1, <2>4
<1>10. n \in T
  <2> HIDE DEF T
  <2>1. \A k \in 0..n : k \in T
    BY <1>8, <1>9, UpTo
  <2> QED BY <2>1
<1>11. PICK v \in F : v = h[n]
  BY <1>6
<1>12. PICK w \in F : w = h[n + 1] /\ w = G[v]
  BY <1>6, <1>7, <1>11
<1>13. \A x \in D : r[x] < n => v[x] = w[x]
  BY <1>10, <1>11, <1>12
<1>14. w = G[w]
  <2>1. ASSUME NEW x \in D PROVE w[x] = G[w][x]
    <3>1. \A y \in D : r[y] < r[x] => v[y] = w[y]
      BY <1>13
    <3>2. G[v][x] = G[w][x]
      BY <1>4, <3>1
    <3> QED BY <1>12, <3>2
  <2>2. G[w] \in F
    OBVIOUS
  <2> QED BY <1>3, <2>1, <2>2
<1> QED BY <1>14

LEMMA MaxOfTwo ==
  ASSUME NEW x \in Nat, NEW y \in Nat
  PROVE  /\ Max({x, y}) \in {x, y} /\ Max({x, y}) \in Nat
         /\ x <= Max({x, y}) /\ y <= Max({x, y})
         /\ x >= y => Max({x, y}) = x
         /\ ~(x >= y) => Max({x, y}) = y
<1>1. \E m \in {x, y} : \A k \in {x, y} : m >= k
  OBVIOUS
<1>2. Max({x, y}) \in {x, y} /\ \A k \in {x, y} : Max({x, y}) >= k
  BY <1>1 DEF Max
<1> QED BY <1>2

(* the cells of the table, and how far each is from its last corner *)
LEMMA CellIs ==
  ASSUME NEW L, NEW a \in Seq(L), NEW b \in Seq(L), NEW p \in Cells(a, b)
  PROVE  /\ p[1] \in Nat /\ p[2] \in Nat /\ Len(a) \in Nat /\ Len(b) \in Nat
         /\ p[1] \in 1..(Len(a) + 1) /\ p[2] \in 1..(Len(b) + 1) /\ p = <<p[1], p[2]>>
         /\ p[1] <= Len(a) => <<p[1] + 1, p[2]>> \in Cells(a, b)
         /\ p[2] <= Len(b) => <<p[1], p[2] + 1>> \in Cells(a, b)
         /\ p[1] <= Len(a) /\ p[2] <= Len(b) => <<p[1] + 1, p[2] + 1>> \in Cells(a, b)
<1>1. PICK h \in Nat, k \in Nat : h = Len(a) /\ k = Len(b)
  OBVIOUS
<1>2. Cells(a, b) = (1..(h + 1)) \X (1..(k + 1))
  BY <1>1 DEF Cells
<1>3. PICK i \in 1..(h + 1), j \in 1..(k + 1) : p = <<i, j>>
  BY <1>2
<1>4. /\ i <= h => i + 1 \in 1..(h + 1)
      /\ j <= k => j + 1 \in 1..(k + 1)
  OBVIOUS
<1> QED BY <1>1, <1>2, <1>3, <1>4

Far(a, b, p) == (Len(a) + 1 - p[1]) + (Len(b) + 1 - p[2])

LEMMA FarIs ==
  ASSUME NEW L, NEW a \in Seq(L), NEW b \in Seq(L)
  PROVE  /\ Len(a) + Len(b) \in Nat
         /\ \A p \in Cells(a, b) : /\ Far(a, b, p) \in 0..(Len(a) + Len(b))
                                  /\ Far(a, b, <<p[1] + 1, p[2]>>) < Far(a, b, p)
                                  /\ Far(a, b, <<p[1], p[2] + 1>>) < Far(a, b, p)
                                  /\ Far(a, b, <<p[1] + 1, p[2] + 1>>) < Far(a, b, p)
<1>1. PICK h \in Nat, k \in Nat : h = Len(a) /\ k = Len(b)
  OBVIOUS
<1>2. ASSUME NEW p \in Cells(a, b)
      PROVE  /\ Far(a, b, p) \in 0..(Len(a) + Len(b))
             /\ Far(a, b, <<p[1] + 1, p[2]>>) < Far(a, b, p)
             /\ Far(a, b, <<p[1], p[2] + 1>>) < Far(a, b, p)
             /\ Far(a, b, <<p[1] + 1, p[2] + 1>>) < Far(a, b, p)
  <2>1. p[1] \in 1..(h + 1) /\ p[2] \in 1..(k + 1)
    BY <1>1, CellIs
  <2>2. PICK i \in 1..(h + 1), j \in 1..(k + 1) : i = p[1] /\ j = p[2]
    BY <2>1
  <2>3. /\ Far(a, b, p) = (h + 1 - i) + (k + 1 - j)
        /\ Far(a, b, <<p[1] + 1, p[2]>>) = (h + 1 - (i + 1)) + (k + 1 - j)
        /\ Far(a, b, <<p[1], p[2] + 1>>) = (h + 1 - i) + (k + 1 - (j + 1))
        /\ Far(a, b, <<p[1] + 1, p[2] + 1>>) = (h + 1 - (i + 1)) + (k + 1 - (j + 1))
    BY <1>1, <2>2 DEF Far
  <2> QED BY <1>1, <2>3
<1>3. Len(a) + Len(b) \in Nat
  BY <1>1
<1> QED BY <1>2, <1>3

DpAt(a, b, d, p) ==
  IF p[1] > Len(a) \/ p[2] > Len(b) THEN 0
  ELSE IF a[p[1]] = b[p[2]] THEN d[<<p[1] + 1, p[2] + 1>>] + 1
  ELSE Max({d[<<p[1] + 1, p[2]>>], d[<<p[1], p[2] + 1>>]})

LEMMA DpAtIs ==
  ASSUME NEW L, NEW a \in Seq(L), NEW b \in Seq(L), NEW d, NEW p \in Cells(a, b),
         \A q \in Cells(a, b) : Far(a, b, q) < Far(a, b, p) => d[q] \in Nat
  PROVE  DpAt(a, b, d, p) \in Nat
<1>1. PICK i \in Nat, j \in Nat, h \in Nat, k \in Nat : i = p[1] /\ j = p[2] /\ h = Len(a) /\ k = Len(b)
  <2>1. p[1] \in Nat /\ p[2] \in Nat /\ Len(a) \in Nat /\ Len(b) \in Nat
    BY CellIs
  <2> QED BY <2>1
<1>2. CASE i > h \/ j > k
  BY <1>1, <1>2 DEF DpAt
<1>3. CASE i <= h /\ j <= k
  <2>1. d[<<i + 1, j + 1>>] \in Nat /\ d[<<i + 1, j>>] \in Nat /\ d[<<i, j + 1>>] \in Nat
    BY <1>1, <1>3, CellIs, FarIs
  <2>2. Max({d[<<i + 1, j>>], d[<<i, j + 1>>]}) \in Nat
    BY <2>1, MaxOfTwo
  <2> QED BY <1>1, <1>3, <2>1, <2>2 DEF DpAt
<1> QED BY <1>1, <1>2, <1>3

LEMMA DpAtSame ==
  ASSUME NEW L, NEW a \in Seq(L), NEW b \in Seq(L), NEW d, NEW c, NEW p \in Cells(a, b),
         \A q \in Cells(a, b) : Far(a, b, q) < Far(a, b, p) => d[q] = c[q]
  PROVE  DpAt(a, b, d, p) = DpAt(a, b, c, p)
<1>1. PICK i \in Nat, j \in Nat, h \in Nat, k \in Nat : i = p[1] /\ j = p[2] /\ h = Len(a) /\ k = Len(b)
  <2>1. p[1] \in Nat /\ p[2] \in Nat /\ Len(a) \in Nat /\ Len(b) \in Nat
    BY CellIs
  <2> QED BY <2>1
<1>2. CASE i > h \/ j > k
  BY <1>1, <1>2 DEF DpAt
<1>3. CASE i <= h /\ j <= k
  <2>1. d[<<i + 1, j + 1>>] = c[<<i + 1, j + 1>>] /\ d[<<i + 1, j>>] = c[<<i + 1, j>>] /\ d[<<i, j + 1>>] = c[<<i, j + 1>>]
    BY <1>1, <1>3, CellIs, FarIs
  <2> QED BY <1>1, <1>3, <2>1 DEF DpAt
<1> QED BY <1>1, <1>2, <1>3

(* the table is defined *)
LEMMA DpRun ==
  ASSUME NEW L, NEW a \in Seq(L), NEW b \in Seq(L)
  PROVE  \A p \in Cells(a, b) : Dp(a, b)[p] = DpAt(a, b, Dp(a, b), p) /\ Dp(a, b)[p] \in Nat
<1>1. PICK n \in Nat : n = Len(a) + Len(b)
  BY FarIs
<1>2. PICK C : C = Cells(a, b)
  OBVIOUS
<1>3. PICK r : r = [p \in C |-> Far(a, b, p)]
  OBVIOUS
<1>4. r \in [C -> 0..n] /\ \A p \in C : r[p] = Far(a, b, p)
  BY <1>1, <1>2, <1>3, FarIs
<1> DEFINE Step(d) == [p \in C |-> DpAt(a, b, d, p)]
           G == [d \in [C -> Nat] |-> Step(d)]
<1>5. \A d \in [C -> Nat] : Step(d) \in [C -> Nat]
  BY <1>2, DpAtIs
<1>6. G \in [[C -> Nat] -> [C -> Nat]] /\ \A d \in [C -> Nat] : G[d] = Step(d)
  BY <1>5
<1>8. PICK d \in [C -> Nat] : d = G[d]
  <2>1. PICK F : F = [C -> Nat]
    OBVIOUS
  <2>2. PICK g : g = G
    OBVIOUS
  <2>3. PICK z \in F : z = [p \in C |-> 0]
    <3>1. [p \in C |-> 0] \in F
      BY <2>1
    <3> QED BY <3>1
  <2>4. g \in [F -> F]
    BY <1>6, <2>1, <2>2
  <2>5. \A v, w \in F : (\A p \in C : v[p] = w[p]) => v = w
    BY <2>1
  <2>6. \A v, w \in F : \A p \in C : (\A q \in C : r[q] < r[p] => v[q] = w[q]) => g[v][p] = g[w][p]
    <3> SUFFICES ASSUME NEW v \in F, NEW w \in F, NEW p \in C, \A q \in C : r[q] < r[p] => v[q] = w[q]
                 PROVE  g[v][p] = g[w][p]
      OBVIOUS
    <3>1. DpAt(a, b, v, p) = DpAt(a, b, w, p)
      BY <1>2, <1>4, DpAtSame
    <3>2. g[v] = Step(v) /\ g[w] = Step(w)
      BY <1>6, <2>1, <2>2
    <3> QED BY <3>1, <3>2
  <2>7. Ranked(C, F, r, g)
    BY <2>5, <2>6 DEF Ranked
  <2>8. r \in [C -> 0..n]
    BY <1>4
  <2>9. \E d \in F : d = g[d]
    BY <2>4, <2>7, <2>8, Recursion
  <2> QED BY <2>1, <2>2, <2>9
<1> DEFINE F(x) == x = [p \in Cells(a, b) |-> DpAt(a, b, x, p)]
<1>9. F(d)
  BY <1>2, <1>6, <1>8
<1>10. F(CHOOSE x : F(x))
  BY <1>9
<1>11. Dp(a, b) = CHOOSE x : F(x)
  BY DEF Dp, DpAt
<1>12. PICK c : c = Dp(a, b)
  OBVIOUS
<1>13. \A p \in C : c[p] = DpAt(a, b, c, p)
  <2>1. F(c)
    BY <1>10, <1>11, <1>12
  <2> QED BY <1>2, <2>1
<1> DEFINE T == {k \in 0..n : \A p \in C : r[p] <= k => c[p] \in Nat}
<1>14. 0 \in T
  BY <1>2, <1>4, <1>13, DpAtIs
<1>15. ASSUME NEW k \in 1..n, k - 1 \in T PROVE k \in T
  <2>1. ASSUME NEW p \in C, r[p] <= k PROVE c[p] \in Nat
    <3>1. ASSUME NEW q \in C, Far(a, b, q) < Far(a, b, p) PROVE c[q] \in Nat
      <4>1. r[q] <= k - 1
        BY <1>4, <2>1, <3>1
      <4> QED BY <1>15, <4>1
    <3>2. DpAt(a, b, c, p) \in Nat
      BY <1>2, <3>1, DpAtIs
    <3> QED BY <1>13, <3>2
  <2>2. k \in 0..n
    OBVIOUS
  <2> QED BY <2>1, <2>2
<1>16. n \in T
  <2> HIDE DEF T
  <2>1. \A k \in 0..n : k \in T
    BY <1>14, <1>15, UpTo
  <2> QED BY <2>1
<1>17. \A p \in C : c[p] \in Nat
  BY <1>4, <1>16
<1> QED BY <1>2, <1>12, <1>13, <1>17

(* what holds of everything that rests on things of lower rank it holds of *)
LEMMA RankInduction ==
  ASSUME NEW D, NEW n \in Nat, NEW r \in [D -> 0..n], NEW T,
         \A x \in D : (\A y \in D : r[y] < r[x] => y \in T) => x \in T
  PROVE  \A x \in D : x \in T
<1> DEFINE W == {k \in Nat : \E x \in D : x \notin T /\ r[x] = k}
<1>1. SUFFICES ASSUME NEW z \in D, z \notin T PROVE FALSE
  OBVIOUS
<1>2. W \in SUBSET Nat /\ W # {}
  <2>1. r[z] \in Nat
    OBVIOUS
  <2>2. r[z] \in W
    BY <1>1, <2>1
  <2> QED BY <2>2
<1>3. PICK k \in W : \A j \in W : k <= j
  <2> HIDE DEF W
  <2> QED BY <1>2, Least
<1>4. PICK x \in D : x \notin T /\ r[x] = k
  BY <1>3
<1>5. ASSUME NEW y \in D, r[y] < r[x], y \notin T PROVE FALSE
  <2>1. r[y] \in W /\ r[y] \in Nat /\ k \in Nat
    BY <1>5
  <2>2. k <= r[y]
    BY <1>3, <2>1
  <2> QED BY <1>4, <1>5, <2>1, <2>2
<1> QED BY <1>4, <1>5

LEMMA CellInduction ==
  ASSUME NEW L, NEW a \in Seq(L), NEW b \in Seq(L), NEW T,
         \A p \in Cells(a, b) :
           (\A q \in Cells(a, b) : Far(a, b, q) < Far(a, b, p) => q \in T) => p \in T
  PROVE  \A p \in Cells(a, b) : p \in T
<1>1. PICK n \in Nat : n = Len(a) + Len(b)
  BY FarIs
<1>2. PICK C : C = Cells(a, b)
  OBVIOUS
<1>3. PICK r : r = [p \in C |-> Far(a, b, p)]
  OBVIOUS
<1>4. r \in [C -> 0..n] /\ \A p \in C : r[p] = Far(a, b, p)
  BY <1>1, <1>2, <1>3, FarIs
<1>5. \A p \in C : (\A q \in C : r[q] < r[p] => q \in T) => p \in T
  BY <1>2, <1>4
<1>6. r \in [C -> 0..n]
  BY <1>4
<1>7. \A p \in C : p \in T
  BY <1>5, <1>6, RankInduction
<1> QED BY <1>2, <1>7

(* the walk: the row it writes at a cell, and the cell it goes on to *)
AtEnd(a, b, p) == p[1] > Len(a) /\ p[2] > Len(b)
Same(a, b, p) == p[1] <= Len(a) /\ p[2] <= Len(b) /\ a[p[1]] = b[p[2]]
Drops(a, b, d, p) ==
  p[2] > Len(b) \/ (p[1] <= Len(a) /\ d[<<p[1] + 1, p[2]>>] >= d[<<p[1], p[2] + 1>>])
RowOf(a, b, d, p) ==
  IF Same(a, b, p) THEN [k |-> " ", s |-> a[p[1]]]
  ELSE IF Drops(a, b, d, p) THEN [k |-> "-", s |-> a[p[1]]] ELSE [k |-> "+", s |-> b[p[2]]]
NextOf(a, b, d, p) ==
  IF Same(a, b, p) THEN <<p[1] + 1, p[2] + 1>>
  ELSE IF Drops(a, b, d, p) THEN <<p[1] + 1, p[2]>> ELSE <<p[1], p[2] + 1>>
WalkAt(a, b, d, w, p) ==
  IF AtEnd(a, b, p) THEN <<>> ELSE <<RowOf(a, b, d, p)>> \o w[NextOf(a, b, d, p)]

Row(L) == [k : {" ", "-", "+"}, s : L]

LEMMA WalkGoesOn ==
  ASSUME NEW L, NEW a \in Seq(L), NEW b \in Seq(L), NEW d, NEW p \in Cells(a, b), ~AtEnd(a, b, p)
  PROVE  /\ RowOf(a, b, d, p) \in Row(L) /\ NextOf(a, b, d, p) \in Cells(a, b)
         /\ Far(a, b, NextOf(a, b, d, p)) < Far(a, b, p)
<1>1. p[1] \in Nat /\ p[2] \in Nat /\ Len(a) \in Nat /\ Len(b) \in Nat /\ p[1] >= 1 /\ p[2] >= 1
  <2>1. p[1] \in 1..(Len(a) + 1) /\ p[2] \in 1..(Len(b) + 1) /\ Len(a) \in Nat /\ Len(b) \in Nat
    BY CellIs
  <2> QED BY <2>1
<1>5. /\ p[1] <= Len(a) => <<p[1] + 1, p[2]>> \in Cells(a, b)
      /\ p[2] <= Len(b) => <<p[1], p[2] + 1>> \in Cells(a, b)
      /\ p[1] <= Len(a) /\ p[2] <= Len(b) => <<p[1] + 1, p[2] + 1>> \in Cells(a, b)
  BY CellIs
<1>6. /\ Far(a, b, <<p[1] + 1, p[2]>>) < Far(a, b, p)
      /\ Far(a, b, <<p[1], p[2] + 1>>) < Far(a, b, p)
      /\ Far(a, b, <<p[1] + 1, p[2] + 1>>) < Far(a, b, p)
  BY FarIs
<1>2. CASE Same(a, b, p)
  <2>1. p[1] <= Len(a) /\ p[2] <= Len(b)
    BY <1>2 DEF Same
  <2>2. a[p[1]] \in L
    BY <1>1, <2>1
  <2>3. RowOf(a, b, d, p) = [k |-> " ", s |-> a[p[1]]] /\ NextOf(a, b, d, p) = <<p[1] + 1, p[2] + 1>>
    BY <1>2 DEF RowOf, NextOf
  <2>4. RowOf(a, b, d, p) \in Row(L)
    <3>1. PICK K : K = {" ", "-", "+"}
      OBVIOUS
    <3>2. PICK c \in K : c = " "
      BY <3>1
    <3>3. [k |-> c, s |-> a[p[1]]] \in [k : K, s : L]
      BY <2>2
    <3> QED BY <2>3, <3>1, <3>2, <3>3 DEF Row
  <2> QED BY <1>5, <1>6, <2>1, <2>3, <2>4, Zenon
<1>3. CASE ~Same(a, b, p) /\ Drops(a, b, d, p)
  <2>1. p[1] <= Len(a)
    BY <1>1, <1>3 DEF Drops, AtEnd
  <2>2. a[p[1]] \in L
    BY <1>1, <2>1
  <2>3. RowOf(a, b, d, p) = [k |-> "-", s |-> a[p[1]]] /\ NextOf(a, b, d, p) = <<p[1] + 1, p[2]>>
    BY <1>3 DEF RowOf, NextOf
  <2>4. RowOf(a, b, d, p) \in Row(L)
    BY <2>2, <2>3 DEF Row
  <2> QED BY <1>5, <1>6, <2>1, <2>3, <2>4, Zenon
<1>4. CASE ~Same(a, b, p) /\ ~Drops(a, b, d, p)
  <2>1. p[2] <= Len(b)
    BY <1>1, <1>4 DEF Drops, AtEnd
  <2>2. b[p[2]] \in L
    BY <1>1, <2>1
  <2>3. RowOf(a, b, d, p) = [k |-> "+", s |-> b[p[2]]] /\ NextOf(a, b, d, p) = <<p[1], p[2] + 1>>
    BY <1>4 DEF RowOf, NextOf
  <2>4. RowOf(a, b, d, p) \in Row(L)
    BY <2>2, <2>3 DEF Row
  <2> QED BY <1>5, <1>6, <2>1, <2>3, <2>4, Zenon
<1> QED BY <1>2, <1>3, <1>4

(* the walk is defined, and writes rows *)
LEMMA WalkRun ==
  ASSUME NEW L, NEW a \in Seq(L), NEW b \in Seq(L)
  PROVE  \E w : /\ DiffLines(a, b) = w[<<1, 1>>]
                /\ \A p \in Cells(a, b) : w[p] = WalkAt(a, b, Dp(a, b), w, p) /\ w[p] \in Seq(Row(L))
<1>1. PICK n \in Nat : n = Len(a) + Len(b)
  BY FarIs
<1>2. PICK C : C = Cells(a, b)
  OBVIOUS
<1>3. PICK r : r = [p \in C |-> Far(a, b, p)]
  OBVIOUS
<1>4. r \in [C -> 0..n] /\ \A p \in C : r[p] = Far(a, b, p)
  BY <1>1, <1>2, <1>3, FarIs
<1>5. PICK d : d = Dp(a, b)
  OBVIOUS
<1>6. PICK R : R = Seq(Row(L))
  OBVIOUS
<1>7. ASSUME NEW w, NEW p \in C, \A q \in C : Far(a, b, q) < Far(a, b, p) => w[q] \in R
      PROVE  WalkAt(a, b, d, w, p) \in R
  <2>1. CASE AtEnd(a, b, p)
    BY <1>6, <2>1 DEF WalkAt
  <2>2. CASE ~AtEnd(a, b, p)
    <3>1. PICK x \in Row(L) : x = RowOf(a, b, d, p)
      BY <1>2, <2>2, WalkGoesOn
    <3>2. PICK y \in Seq(Row(L)) : y = w[NextOf(a, b, d, p)]
      BY <1>2, <1>6, <1>7, <2>2, WalkGoesOn
    <3>3. <<x>> \o y \in Seq(Row(L))
      OBVIOUS
    <3> QED BY <1>6, <2>2, <3>1, <3>2, <3>3 DEF WalkAt
  <2> QED BY <2>1, <2>2
<1>8. ASSUME NEW v, NEW w, NEW p \in C, \A q \in C : Far(a, b, q) < Far(a, b, p) => v[q] = w[q]
      PROVE  WalkAt(a, b, d, v, p) = WalkAt(a, b, d, w, p)
  <2>1. CASE AtEnd(a, b, p)
    BY <2>1 DEF WalkAt
  <2>2. CASE ~AtEnd(a, b, p)
    <3>1. v[NextOf(a, b, d, p)] = w[NextOf(a, b, d, p)]
      BY <1>2, <1>8, <2>2, WalkGoesOn
    <3> QED BY <2>2, <3>1 DEF WalkAt
  <2> QED BY <2>1, <2>2
<1> DEFINE Step(w) == [p \in C |-> WalkAt(a, b, d, w, p)]
           G == [w \in [C -> R] |-> Step(w)]
<1>9. \A w \in [C -> R] : Step(w) \in [C -> R]
  BY <1>7
<1>10. G \in [[C -> R] -> [C -> R]] /\ \A w \in [C -> R] : G[w] = Step(w)
  BY <1>9
<1>11. PICK w \in [C -> R] : w = G[w]
  <2>1. PICK F : F = [C -> R]
    OBVIOUS
  <2>2. PICK g : g = G
    OBVIOUS
  <2>3. PICK z \in F : z = [p \in C |-> <<>>]
    <3>1. <<>> \in R
      BY <1>6
    <3>2. [p \in C |-> <<>>] \in F
      BY <2>1, <3>1
    <3> QED BY <3>2
  <2>4. g \in [F -> F]
    BY <1>10, <2>1, <2>2
  <2>5. \A v, w \in F : (\A p \in C : v[p] = w[p]) => v = w
    BY <2>1
  <2>6. \A v, w \in F : \A p \in C : (\A q \in C : r[q] < r[p] => v[q] = w[q]) => g[v][p] = g[w][p]
    <3> SUFFICES ASSUME NEW v \in F, NEW w \in F, NEW p \in C, \A q \in C : r[q] < r[p] => v[q] = w[q]
                 PROVE  g[v][p] = g[w][p]
      OBVIOUS
    <3>1. WalkAt(a, b, d, v, p) = WalkAt(a, b, d, w, p)
      BY <1>4, <1>8
    <3>2. g[v] = Step(v) /\ g[w] = Step(w)
      BY <1>10, <2>1, <2>2
    <3> QED BY <3>1, <3>2
  <2>7. Ranked(C, F, r, g)
    BY <2>5, <2>6 DEF Ranked
  <2>8. r \in [C -> 0..n]
    BY <1>4
  <2>9. \E v \in F : v = g[v]
    BY <2>4, <2>7, <2>8, Recursion
  <2> QED BY <2>1, <2>2, <2>9
<1> DEFINE F(x) == x = [p \in Cells(a, b) |-> WalkAt(a, b, Dp(a, b), x, p)]
<1>12. F(w)
  BY <1>2, <1>5, <1>10, <1>11
<1>13. F(CHOOSE x : F(x))
  BY <1>12
<1>14. DiffLines(a, b) = (CHOOSE x : F(x))[<<1, 1>>]
  BY DEF DiffLines, WalkAt, AtEnd, Same, Drops, RowOf, NextOf
<1>15. PICK c : c = (CHOOSE x : F(x))
  OBVIOUS
<1>16. \A p \in C : c[p] = WalkAt(a, b, d, c, p)
  <2>1. F(c)
    BY <1>13, <1>15
  <2> QED BY <1>2, <1>5, <2>1
<1> DEFINE T == {p \in C : c[p] \in R}
<1>17. ASSUME NEW p \in C, \A q \in C : Far(a, b, q) < Far(a, b, p) => q \in T PROVE p \in T
  <2>1. WalkAt(a, b, d, c, p) \in R
    BY <1>7, <1>17
  <2> QED BY <1>16, <2>1
<1>18. \A p \in C : p \in T
  <2> HIDE DEF T
  <2> QED BY <1>2, <1>17, CellInduction
<1>19. \A p \in Cells(a, b) : c[p] = WalkAt(a, b, Dp(a, b), c, p) /\ c[p] \in Seq(Row(L))
  BY <1>2, <1>5, <1>6, <1>16, <1>18
<1>20. DiffLines(a, b) = c[<<1, 1>>]
  BY <1>14, <1>15
<1> HIDE DEF F, T, G, Step
<1> QED BY <1>19, <1>20

LinesAt(y, ks, f, i) ==
  IF i > Len(y) THEN <<>>
  ELSE IF y[i].k \in ks THEN <<y[i].s>> \o f[i + 1] ELSE f[i + 1]
LinesRuns(L, y, ks, f) ==
  /\ Lines(y, ks) = f[1]
  /\ \A i \in 1..(Len(y) + 1) : f[i] = LinesAt(y, ks, f, i) /\ f[i] \in Seq(L)

(* Lines is defined *)
LEMMA LinesRun ==
  ASSUME NEW L, NEW y \in Seq(Row(L)), NEW ks
  PROVE  \E f : LinesRuns(L, y, ks, f)
<1>1. PICK n \in Nat : n = Len(y)
  OBVIOUS
<1>2. PICK C : C = 1..(n + 1)
  OBVIOUS
<1>3. PICK r : r = [i \in C |-> n + 1 - i]
  OBVIOUS
<1>4. r \in [C -> 0..n] /\ \A i \in C : r[i] = n + 1 - i
  BY <1>2, <1>3
<1>5. PICK R : R = Seq(L)
  OBVIOUS
<1>6. \A i \in C : i <= n => i + 1 \in C /\ r[i + 1] < r[i] /\ y[i].s \in L
  <2> SUFFICES ASSUME NEW i \in C, i <= n PROVE i + 1 \in C /\ r[i + 1] < r[i] /\ y[i].s \in L
    OBVIOUS
  <2>1. i \in 1..n /\ i + 1 \in C
    BY <1>2
  <2>2. y[i] \in Row(L)
    BY <1>1, <2>1
  <2>3. y[i].s \in L
    BY <2>2 DEF Row
  <2>4. r[i] = n + 1 - i /\ r[i + 1] = n + 1 - (i + 1)
    BY <1>4, <2>1
  <2> QED BY <2>1, <2>3, <2>4
<1>7. ASSUME NEW f, NEW i \in C, \A j \in C : r[j] < r[i] => f[j] \in R
      PROVE  LinesAt(y, ks, f, i) \in R
  <2>1. CASE i > n
    BY <1>1, <1>5, <2>1 DEF LinesAt
  <2>2. CASE ~(i > n)
    <3>1. i <= n
      BY <1>2, <2>2
    <3>2. PICK z \in Seq(L), x \in L : z = f[i + 1] /\ x = y[i].s
      BY <1>5, <1>6, <1>7, <3>1
    <3>3. <<x>> \o z \in Seq(L)
      OBVIOUS
    <3> QED BY <1>1, <1>5, <2>2, <3>2, <3>3 DEF LinesAt
  <2> QED BY <2>1, <2>2
<1>8. ASSUME NEW v, NEW w, NEW i \in C, \A j \in C : r[j] < r[i] => v[j] = w[j]
      PROVE  LinesAt(y, ks, v, i) = LinesAt(y, ks, w, i)
  <2>1. CASE i > n
    BY <1>1, <2>1 DEF LinesAt
  <2>2. CASE ~(i > n)
    <3>1. i <= n
      BY <1>2, <2>2
    <3>2. v[i + 1] = w[i + 1]
      BY <1>6, <1>8, <3>1
    <3> QED BY <3>2 DEF LinesAt
  <2> QED BY <2>1, <2>2
<1> DEFINE Step(w) == [i \in C |-> LinesAt(y, ks, w, i)]
           G == [w \in [C -> R] |-> Step(w)]
<1>9. \A w \in [C -> R] : Step(w) \in [C -> R]
  BY <1>7
<1>10. G \in [[C -> R] -> [C -> R]] /\ \A w \in [C -> R] : G[w] = Step(w)
  BY <1>9
<1>11. PICK w \in [C -> R] : w = G[w]
  <2>1. PICK F : F = [C -> R]
    OBVIOUS
  <2>2. PICK g : g = G
    OBVIOUS
  <2>3. PICK z \in F : z = [p \in C |-> <<>>]
    <3>1. <<>> \in R
      BY <1>5
    <3>2. [p \in C |-> <<>>] \in F
      BY <2>1, <3>1
    <3> QED BY <3>2
  <2>4. g \in [F -> F]
    BY <1>10, <2>1, <2>2
  <2>5. \A v, w \in F : (\A p \in C : v[p] = w[p]) => v = w
    BY <2>1
  <2>6. \A v, w \in F : \A p \in C : (\A q \in C : r[q] < r[p] => v[q] = w[q]) => g[v][p] = g[w][p]
    <3> SUFFICES ASSUME NEW v \in F, NEW w \in F, NEW p \in C, \A q \in C : r[q] < r[p] => v[q] = w[q]
                 PROVE  g[v][p] = g[w][p]
      OBVIOUS
    <3>1. LinesAt(y, ks, v, p) = LinesAt(y, ks, w, p)
      BY <1>8
    <3>2. g[v] = Step(v) /\ g[w] = Step(w)
      BY <1>10, <2>1, <2>2
    <3> QED BY <3>1, <3>2
  <2>7. Ranked(C, F, r, g)
    BY <2>5, <2>6 DEF Ranked
  <2>8. r \in [C -> 0..n]
    BY <1>4
  <2>9. \E v \in F : v = g[v]
    BY <2>4, <2>7, <2>8, Recursion
  <2> QED BY <2>1, <2>2, <2>9
<1> DEFINE F(x) == x = [i \in 1..(Len(y) + 1) |-> LinesAt(y, ks, x, i)]
<1>12. F(w)
  BY <1>1, <1>2, <1>10, <1>11
<1>13. F(CHOOSE x : F(x))
  BY <1>12
<1>14. Lines(y, ks) = (CHOOSE x : F(x))[1]
  BY DEF Lines, LinesAt
<1>15. PICK c : c = (CHOOSE x : F(x))
  OBVIOUS
<1>16. \A i \in C : c[i] = LinesAt(y, ks, c, i)
  <2>1. F(c)
    BY <1>13, <1>15
  <2> QED BY <1>1, <1>2, <2>1
<1> DEFINE T == {i \in C : c[i] \in R}
<1>17. ASSUME NEW i \in C, \A j \in C : r[j] < r[i] => j \in T PROVE i \in T
  BY <1>7, <1>16, <1>17
<1>18. \A i \in C : i \in T
  <2>1. r \in [C -> 0..n]
    BY <1>4
  <2> HIDE DEF T, F, G, Step
  <2>2. PICK U : U = T
    OBVIOUS
  <2>3. \A i \in C : (\A j \in C : r[j] < r[i] => j \in U) => i \in U
    BY <1>17, <2>2
  <2>4. \A i \in C : i \in U
    BY <2>1, <2>3, RankInduction, SMTT(40)
  <2> QED BY <2>2, <2>4
<1>19. \A i \in 1..(Len(y) + 1) : c[i] = LinesAt(y, ks, c, i) /\ c[i] \in Seq(L)
  BY <1>1, <1>2, <1>5, <1>16, <1>18
<1>20. Lines(y, ks) = c[1]
  BY <1>14, <1>15
<1> HIDE DEF F, T, G, Step
<1> QED BY <1>19, <1>20 DEF LinesRuns

LEMMA LinesEmpty ==
  ASSUME NEW L, NEW ks
  PROVE  Lines(<<>>, ks) = <<>>
<1>1. PICK y \in Seq(Row(L)) : y = <<>>
  <2>1. <<>> \in Seq(Row(L))
    OBVIOUS
  <2> QED BY <2>1
<1>2. PICK f : LinesRuns(L, y, ks, f)
  BY LinesRun
<1>3. Len(y) = 0 /\ 1 \in 1..(Len(y) + 1) /\ 1 > Len(y)
  BY <1>1
<1>4. f[1] = <<>>
  BY <1>2, <1>3 DEF LinesAt, LinesRuns
<1> QED BY <1>1, <1>2, <1>4 DEF LinesRuns

Prepends(x, y, z) == z = <<x>> \o y
LinesGrow(L, x, y, z, ks) ==
  /\ Lines(y, ks) \in Seq(L)
  /\ Lines(z, ks) = IF x.k \in ks THEN <<x.s>> \o Lines(y, ks) ELSE Lines(y, ks)

LEMMA LinesOfMore ==
  ASSUME NEW L, NEW y \in Seq(Row(L)), NEW x \in Row(L), NEW ks, NEW z, Prepends(x, y, z)
  PROVE  LinesGrow(L, x, y, z, ks)
<1>1. PICK n \in Nat : n = Len(y)
  OBVIOUS
<1>2. z \in Seq(Row(L)) /\ Len(z) = n + 1 /\ z[1] = x /\ \A i \in 1..n : z[i + 1] = y[i]
  BY <1>1 DEF Prepends
<1>3. PICK f : LinesRuns(L, y, ks, f)
  BY LinesRun
<1>4. PICK g : LinesRuns(L, z, ks, g)
  <2>1. PICK v \in Seq(Row(L)) : v = z
    BY <1>2
  <2>2. \E g : LinesRuns(L, v, ks, g)
    BY LinesRun
  <2> QED BY <2>1, <2>2
<1>5. PICK C : C = 1..(n + 1)
  OBVIOUS
<1>6. PICK r : r = [i \in C |-> n + 1 - i]
  OBVIOUS
<1>7. r \in [C -> 0..n] /\ \A i \in C : r[i] = n + 1 - i
  BY <1>5, <1>6
<1> DEFINE T == {i \in C : g[i + 1] = f[i]}
<1>8. ASSUME NEW i \in C, \A j \in C : r[j] < r[i] => j \in T PROVE i \in T
  <2>1. i \in Nat /\ i + 1 \in 1..((n + 1) + 1) /\ i \in 1..(n + 1)
    BY <1>5
  <2>2. f[i] = LinesAt(y, ks, f, i) /\ g[i + 1] = LinesAt(z, ks, g, i + 1)
    BY <1>1, <1>2, <1>3, <1>4, <2>1 DEF LinesRuns
  <2>3. CASE i > n
    <3>1. i + 1 > n + 1
      BY <2>1, <2>3
    <3> QED BY <1>1, <1>2, <2>2, <2>3, <3>1 DEF LinesAt
  <2>4. CASE ~(i > n)
    <3>1. i \in 1..n /\ i + 1 \in C /\ ~(i + 1 > n + 1)
      BY <1>5, <2>1, <2>4
    <3>2. r[i + 1] < r[i]
      BY <1>7, <2>1, <3>1
    <3>3. g[(i + 1) + 1] = f[i + 1]
      BY <1>8, <3>1, <3>2
    <3>4. z[i + 1] = y[i]
      BY <1>2, <3>1
    <3> QED BY <1>1, <1>2, <2>2, <2>4, <3>1, <3>3, <3>4 DEF LinesAt
  <2> QED BY <2>3, <2>4
<1>9. \A i \in C : i \in T
  <2>1. r \in [C -> 0..n]
    BY <1>7
  <2> HIDE DEF T
  <2> QED BY <1>8, <2>1, RankInduction
<1>10. g[2] = f[1]
  <2>1. 1 \in C /\ 1 + 1 = 2
    BY <1>5
  <2> QED BY <1>9, <2>1
<1>11. g[1] = LinesAt(z, ks, g, 1)
  BY <1>2, <1>4 DEF LinesRuns
<1>12. g[1] = IF x.k \in ks THEN <<x.s>> \o g[2] ELSE g[2]
  <2>1. ~(1 > Len(z)) /\ 1 + 1 = 2
    BY <1>2
  <2> QED BY <1>2, <1>11, <2>1 DEF LinesAt
<1>13. f[1] \in Seq(L)
  BY <1>1, <1>3 DEF LinesRuns
<1> QED BY <1>3, <1>4, <1>10, <1>12, <1>13 DEF LinesRuns, LinesGrow

(* what is left of a text from a line on *)
Rest(a, i) == [k \in 1..(Len(a) + 1 - i) |-> a[k + i - 1]]

LEMMA RestIs ==
  ASSUME NEW L, NEW a \in Seq(L)
  PROVE  /\ Rest(a, 1) = a /\ Rest(a, Len(a) + 1) = <<>>
         /\ \A i \in 1..(Len(a) + 1) : Rest(a, i) \in Seq(L)
         /\ \A i \in 1..Len(a) : Rest(a, i) = <<a[i]>> \o Rest(a, i + 1)
<1>1. PICK n \in Nat : n = Len(a)
  OBVIOUS
<1>2. Rest(a, 1) = a
  <2>1. PICK x : x = Rest(a, 1)
    OBVIOUS
  <2>2. x = [k \in 1..n |-> a[k]]
    BY <1>1, <2>1 DEF Rest
  <2> QED BY <1>1, <2>1, <2>2
<1>3. Rest(a, n + 1) = <<>>
  <2>1. PICK x : x = Rest(a, n + 1)
    OBVIOUS
  <2>2. x = [k \in 1..0 |-> a[k + (n + 1) - 1]]
    BY <1>1, <2>1 DEF Rest
  <2>3. x \in Seq(L) /\ Len(x) = 0
    BY <2>2
  <2> QED BY <2>1, <2>3, EmptySeq
<1>4. \A i \in 1..(n + 1) : Rest(a, i) \in Seq(L) /\ Len(Rest(a, i)) = n + 1 - i
  <2> SUFFICES ASSUME NEW i \in 1..(n + 1) PROVE Rest(a, i) \in Seq(L) /\ Len(Rest(a, i)) = n + 1 - i
    OBVIOUS
  <2>1. PICK h \in Nat : h = n + 1 - i
    OBVIOUS
  <2>2. \A k \in 1..h : a[k + i - 1] \in L
    BY <1>1, <2>1
  <2>3. Rest(a, i) = [k \in 1..h |-> a[k + i - 1]]
    BY <1>1, <2>1 DEF Rest
  <2>4. PICK x : x = Rest(a, i)
    OBVIOUS
  <2>5. x \in [1..h -> L]
    BY <2>2, <2>3, <2>4
  <2>6. x \in Seq(L) /\ Len(x) = h
    BY <2>5
  <2> QED BY <2>1, <2>4, <2>6
<1>5. ASSUME NEW i \in 1..n PROVE Rest(a, i) = <<a[i]>> \o Rest(a, i + 1)
  <2>1. PICK h \in Nat : h = n - i
    OBVIOUS
  <2>2. PICK x \in Seq(L), y \in Seq(L) : x = Rest(a, i) /\ y = Rest(a, i + 1) /\ Len(x) = h + 1 /\ Len(y) = h
    <3>1. i \in 1..(n + 1) /\ i + 1 \in 1..(n + 1) /\ n + 1 - i = h + 1 /\ n + 1 - (i + 1) = h
      BY <2>1
    <3>2. Rest(a, i) \in Seq(L) /\ Rest(a, i + 1) \in Seq(L) /\ Len(Rest(a, i)) = h + 1 /\ Len(Rest(a, i + 1)) = h
      BY <1>4, <3>1
    <3> QED BY <3>2
  <2>3. \A k \in 1..(h + 1) : x[k] = a[k + i - 1]
    BY <1>1, <2>1, <2>2 DEF Rest
  <2>4. \A k \in 1..h : y[k] = a[k + (i + 1) - 1]
    BY <1>1, <2>1, <2>2 DEF Rest
  <2>5. PICK z : z = <<a[i]>> \o y
    OBVIOUS
  <2>6. a[i] \in L
    BY <1>1
  <2>7. z \in Seq(L) /\ Len(z) = h + 1 /\ z[1] = a[i] /\ \A k \in 1..h : z[k + 1] = y[k]
    BY <2>2, <2>5, <2>6
  <2>8. ASSUME NEW k \in 1..(h + 1) PROVE x[k] = z[k]
    <3>1. CASE k = 1
      BY <2>3, <2>7, <3>1
    <3>2. CASE k # 1
      <4>1. PICK j \in 1..h : k = j + 1
        <5>1. k - 1 \in 1..h /\ k = (k - 1) + 1
          BY <3>2
        <5> QED BY <5>1
      <4>2. z[k] = y[j] /\ y[j] = a[j + (i + 1) - 1] /\ x[k] = a[k + i - 1]
        BY <2>3, <2>4, <2>7, <4>1
      <4>3. j + (i + 1) - 1 = k + i - 1
        BY <4>1
      <4> QED BY <4>2, <4>3
    <3> QED BY <3>1, <3>2
  <2>9. x = z
    <3>1. x \in Seq(L) /\ z \in Seq(L) /\ Len(x) = Len(z) /\ \A k \in 1..Len(x) : x[k] = z[k]
      BY <2>2, <2>7, <2>8
    <3> QED BY <3>1, SeqEqual
  <2> QED BY <2>2, <2>5, <2>9
<1> QED BY <1>1, <1>2, <1>3, <1>4, <1>5

LEMMA OneMore ==
  ASSUME NEW L, NEW v \in L, NEW s \in Seq(L)
  PROVE  <<v>> \o s \in Seq(L) /\ Len(<<v>> \o s) = Len(s) + 1
OBVIOUS

(* What the walk writes from a cell on: what is left of both texts, and as many kept
   lines as the table says. *)
Tells(L, a, b, d, w, p) ==
  /\ w[p] \in Seq(Row(L))
  /\ Lines(w[p], {" ", "-"}) = Rest(a, p[1])
  /\ Lines(w[p], {" ", "+"}) = Rest(b, p[2])
  /\ Len(Lines(w[p], {" "})) = d[p]

LEMMA WalkTells ==
  ASSUME NEW L, NEW a \in Seq(L), NEW b \in Seq(L), NEW d, NEW w, NEW p \in Cells(a, b),
         \A q \in Cells(a, b) : d[q] = DpAt(a, b, d, q) /\ d[q] \in Nat,
         \A q \in Cells(a, b) : w[q] = WalkAt(a, b, d, w, q) /\ w[q] \in Seq(Row(L)),
         \A q \in Cells(a, b) : Far(a, b, q) < Far(a, b, p) => Tells(L, a, b, d, w, q)
  PROVE  Tells(L, a, b, d, w, p)
<1>1. PICK i \in Nat, j \in Nat, h \in Nat, k \in Nat : i = p[1] /\ j = p[2] /\ h = Len(a) /\ k = Len(b)
  <2>1. p[1] \in Nat /\ p[2] \in Nat /\ Len(a) \in Nat /\ Len(b) \in Nat
    BY CellIs
  <2> QED BY <2>1
<1>2. i \in 1..(h + 1) /\ j \in 1..(k + 1)
  BY <1>1, CellIs
<1>3. d[p] = DpAt(a, b, d, p) /\ w[p] = WalkAt(a, b, d, w, p) /\ w[p] \in Seq(Row(L))
  OBVIOUS
<1>6. i <= h => Rest(a, i) = <<a[i]>> \o Rest(a, i + 1)
  <2>1. \A m \in 1..Len(a) : Rest(a, m) = <<a[m]>> \o Rest(a, m + 1)
    BY RestIs
  <2>2. i <= h => i \in 1..Len(a)
    BY <1>1, <1>2
  <2> QED BY <2>1, <2>2
<1>7. j <= k => Rest(b, j) = <<b[j]>> \o Rest(b, j + 1)
  <2>1. \A m \in 1..Len(b) : Rest(b, m) = <<b[m]>> \o Rest(b, m + 1)
    BY RestIs
  <2>2. j <= k => j \in 1..Len(b)
    BY <1>1, <1>2
  <2> QED BY <2>1, <2>2
<1>4. CASE AtEnd(a, b, p)
  <2>1. i = h + 1 /\ j = k + 1
    BY <1>1, <1>2, <1>4 DEF AtEnd
  <2>2. w[p] = <<>>
    BY <1>3, <1>4 DEF WalkAt
  <2>3. d[p] = 0
    BY <1>1, <1>3, <2>1 DEF DpAt
  <2>4. Rest(a, i) = <<>> /\ Rest(b, j) = <<>>
    BY <1>1, <2>1, RestIs
  <2>5. \A ks : Lines(w[p], ks) = <<>>
    BY <2>2, LinesEmpty
  <2>6. Lines(w[p], {" ", "-"}) = <<>> /\ Lines(w[p], {" ", "+"}) = <<>> /\ Lines(w[p], {" "}) = <<>>
    BY <2>5
  <2>7. Len(Lines(w[p], {" "})) = d[p]
    BY <2>3, <2>6
  <2> QED BY <1>1, <1>3, <2>4, <2>6, <2>7 DEF Tells
<1>5. CASE ~AtEnd(a, b, p)
  <2>1. PICK x \in Row(L) : x = RowOf(a, b, d, p)
    BY <1>5, WalkGoesOn
  <2>2. PICK q \in Cells(a, b) : q = NextOf(a, b, d, p)
    BY <1>5, WalkGoesOn
  <2>3. Tells(L, a, b, d, w, q)
    BY <1>5, <2>2, WalkGoesOn
  <2>4. PICK y \in Seq(Row(L)) : y = w[q]
    OBVIOUS
  <2>5. PICK z : z = <<x>> \o y
    OBVIOUS
  <2>6. w[p] = z
    BY <1>3, <1>5, <2>1, <2>2, <2>4, <2>5 DEF WalkAt
  <2>7. \A ks : /\ Lines(y, ks) \in Seq(L)
                /\ Lines(z, ks) = IF x.k \in ks THEN <<x.s>> \o Lines(y, ks) ELSE Lines(y, ks)
    <3> SUFFICES ASSUME NEW ks
                 PROVE  /\ Lines(y, ks) \in Seq(L)
                        /\ Lines(z, ks) = IF x.k \in ks THEN <<x.s>> \o Lines(y, ks) ELSE Lines(y, ks)
      OBVIOUS
    <3>1. Prepends(x, y, z)
      BY <2>5 DEF Prepends
    <3>2. LinesGrow(L, x, y, z, ks)
      BY <3>1, LinesOfMore
    <3> QED BY <3>2 DEF LinesGrow
  <2>8. /\ Lines(y, {" ", "-"}) = Rest(a, q[1]) /\ Lines(y, {" ", "+"}) = Rest(b, q[2])
        /\ Len(Lines(y, {" "})) = d[q]
    BY <2>3, <2>4 DEF Tells
  <2>9. SUFFICES /\ Lines(z, {" ", "-"}) = Rest(a, i) /\ Lines(z, {" ", "+"}) = Rest(b, j)
                 /\ Len(Lines(z, {" "})) = d[p]
    BY <1>1, <1>3, <2>6 DEF Tells
  <2>10. x.s \in L
    BY DEF Row
  <2>11. PICK e \in Seq(L) : e = Lines(y, {" "}) /\ Len(e) = d[q]
    BY <2>7, <2>8
  <2>12. CASE Same(a, b, p)
    <3>1. x = [k |-> " ", s |-> a[i]] /\ q = <<i + 1, j + 1>>
      BY <1>1, <2>1, <2>2, <2>12 DEF RowOf, NextOf
    <3>2. i <= h /\ j <= k /\ a[i] = b[j]
      BY <1>1, <2>12 DEF Same
    <3>3. d[p] = d[q] + 1
      <4>1. ~(p[1] > Len(a)) /\ ~(p[2] > Len(b)) /\ a[p[1]] = b[p[2]]
        BY <1>1, <3>2
      <4>2. q = <<p[1] + 1, p[2] + 1>>
        BY <1>1, <3>1
      <4>3. DpAt(a, b, d, p) = d[q] + 1
        BY <4>1, <4>2 DEF DpAt
      <4> QED BY <1>3, <4>3
    <3>4. x.k = " " /\ x.s = a[i] /\ x.s = b[j] /\ q[1] = i + 1 /\ q[2] = j + 1
      BY <3>1, <3>2
    <3>5. Rest(a, i) = <<a[i]>> \o Rest(a, i + 1) /\ Rest(b, j) = <<b[j]>> \o Rest(b, j + 1)
      BY <1>6, <1>7, <3>2
    <3>6. Lines(z, {" ", "-"}) = Rest(a, i) /\ Lines(z, {" ", "+"}) = Rest(b, j)
      BY <2>7, <2>8, <3>4, <3>5
    <3>7. Lines(z, {" "}) = <<x.s>> \o e
      BY <2>7, <2>11, <3>4
    <3>8. Len(<<x.s>> \o e) = d[q] + 1
      BY <2>10, <2>11, OneMore
    <3>9. Len(Lines(z, {" "})) = d[p]
      BY <3>3, <3>7, <3>8, Zenon
    <3> QED BY <3>6, <3>9, Zenon
  <2>13. CASE ~Same(a, b, p) /\ Drops(a, b, d, p)
    <3>1. x = [k |-> "-", s |-> a[i]] /\ q = <<i + 1, j>>
      BY <1>1, <2>1, <2>2, <2>13 DEF RowOf, NextOf
    <3>2. i <= h
      BY <1>1, <1>5, <2>13 DEF Drops, AtEnd
    <3>3. d[p] = d[q]
      <4>1. CASE j > k
        <5>1. d[q] = DpAt(a, b, d, q) /\ q[2] > Len(b)
          BY <1>1, <3>1, <4>1
        <5> QED BY <1>1, <1>3, <4>1, <5>1 DEF DpAt
      <4>2. CASE j <= k
        <5>1. <<i + 1, j>> \in Cells(a, b) /\ <<i, j + 1>> \in Cells(a, b)
          BY <1>1, <3>2, <4>2, CellIs
        <5>2. PICK u \in Nat, v \in Nat : u = d[<<i + 1, j>>] /\ v = d[<<i, j + 1>>]
          <6>1. d[<<i + 1, j>>] \in Nat /\ d[<<i, j + 1>>] \in Nat
            BY <5>1
          <6> QED BY <6>1
        <5>3. u >= v
          BY <1>1, <2>13, <4>2, <5>2 DEF Drops
        <5>4. a[i] # b[j]
          BY <1>1, <2>13, <3>2, <4>2 DEF Same
        <5>5. d[p] = Max({u, v})
          BY <1>1, <1>3, <3>2, <4>2, <5>2, <5>4 DEF DpAt
        <5> QED BY <3>1, <5>2, <5>3, <5>5, MaxOfTwo
      <4> QED BY <4>1, <4>2
    <3>4. x.k = "-" /\ x.s = a[i] /\ q[1] = i + 1 /\ q[2] = j
      BY <3>1
    <3>5. Rest(a, i) = <<a[i]>> \o Rest(a, i + 1)
      BY <1>6, <3>2
    <3>6. "-" \in {" ", "-"} /\ "-" \notin {" ", "+"} /\ "-" \notin {" "}
      OBVIOUS
    <3> QED BY <2>7, <2>8, <3>3, <3>4, <3>5, <3>6
  <2>14. CASE ~Same(a, b, p) /\ ~Drops(a, b, d, p)
    <3>1. x = [k |-> "+", s |-> b[j]] /\ q = <<i, j + 1>>
      BY <1>1, <2>1, <2>2, <2>14 DEF RowOf, NextOf
    <3>2. j <= k
      BY <1>1, <1>5, <2>14 DEF Drops, AtEnd
    <3>3. d[p] = d[q]
      <4>1. CASE i > h
        <5>1. d[q] = DpAt(a, b, d, q) /\ q[1] > Len(a)
          BY <1>1, <3>1, <4>1
        <5> QED BY <1>1, <1>3, <4>1, <5>1 DEF DpAt
      <4>2. CASE i <= h
        <5>1. <<i + 1, j>> \in Cells(a, b) /\ <<i, j + 1>> \in Cells(a, b)
          BY <1>1, <3>2, <4>2, CellIs
        <5>2. PICK u \in Nat, v \in Nat : u = d[<<i + 1, j>>] /\ v = d[<<i, j + 1>>]
          <6>1. d[<<i + 1, j>>] \in Nat /\ d[<<i, j + 1>>] \in Nat
            BY <5>1
          <6> QED BY <6>1
        <5>3. ~(u >= v)
          BY <1>1, <2>14, <4>2, <5>2 DEF Drops
        <5>4. a[i] # b[j]
          BY <1>1, <2>14, <3>2, <4>2 DEF Same
        <5>5. d[p] = Max({u, v})
          BY <1>1, <1>3, <3>2, <4>2, <5>2, <5>4 DEF DpAt
        <5> QED BY <3>1, <5>2, <5>3, <5>5, MaxOfTwo
      <4> QED BY <4>1, <4>2
    <3>4. x.k = "+" /\ x.s = b[j] /\ q[1] = i /\ q[2] = j + 1
      BY <3>1
    <3>5. Rest(b, j) = <<b[j]>> \o Rest(b, j + 1)
      BY <1>7, <3>2
    <3>6. "+" \in {" ", "+"} /\ "+" \notin {" ", "-"} /\ "+" \notin {" "}
      OBVIOUS
    <3> QED BY <2>7, <2>8, <3>3, <3>4, <3>5, <3>6
  <2> QED BY <2>12, <2>13, <2>14
<1> QED BY <1>4, <1>5

(* No way to pair the lines of what is left keeps more than the table says. *)
Fits(a, b, P, i, j) == P \in Matchings(a, b) /\ \A m \in P : m[1] >= i /\ m[2] >= j
Best(a, b, d, p) == \A P : Fits(a, b, P, p[1], p[2]) => Cardinality(P) <= d[p]

LEMMA MatchingIs ==
  ASSUME NEW L, NEW a \in Seq(L), NEW b \in Seq(L), NEW P \in Matchings(a, b)
  PROVE  /\ IsFiniteSet(P) /\ Cardinality(P) \in Nat
         /\ \A m \in P : m[1] \in 1..Len(a) /\ m[2] \in 1..Len(b) /\ m = <<m[1], m[2]>> /\ a[m[1]] = b[m[2]]
         /\ \A m, o \in P : m[1] < o[1] <=> m[2] < o[2]
         /\ \A Q \in SUBSET P : Q \in Matchings(a, b)
<1>1. PICK h \in Nat, k \in Nat : h = Len(a) /\ k = Len(b)
  OBVIOUS
<1>2. PICK C : C = (1..h) \X (1..k)
  OBVIOUS
<1>3. P \in SUBSET C /\ \A m \in P : a[m[1]] = b[m[2]]
  BY <1>1, <1>2 DEF Matchings
<1>4. IsFiniteSet(C)
  <2>1. IsFiniteSet(1..h) /\ IsFiniteSet(1..k)
    BY FS_Interval
  <2> QED BY <1>2, <2>1, FS_Product
<1>5. IsFiniteSet(P) /\ Cardinality(P) \in Nat
  BY <1>3, <1>4, FS_Subset, FS_CardinalityType
<1>6. \A m \in P : m[1] \in 1..h /\ m[2] \in 1..k /\ m = <<m[1], m[2]>>
  BY <1>2, <1>3
<1>7. \A m, o \in P : m[1] < o[1] <=> m[2] < o[2]
  BY DEF Matchings
<1>8. \A Q \in SUBSET P : Q \in Matchings(a, b)
  BY DEF Matchings
<1> QED BY <1>1, <1>3, <1>5, <1>6, <1>7, <1>8

LEMMA BestHolds ==
  ASSUME NEW L, NEW a \in Seq(L), NEW b \in Seq(L), NEW d, NEW p \in Cells(a, b),
         \A q \in Cells(a, b) : d[q] = DpAt(a, b, d, q) /\ d[q] \in Nat,
         \A q \in Cells(a, b) : Far(a, b, q) < Far(a, b, p) => Best(a, b, d, q)
  PROVE  Best(a, b, d, p)
<1>1. PICK i \in Nat, j \in Nat, h \in Nat, k \in Nat : i = p[1] /\ j = p[2] /\ h = Len(a) /\ k = Len(b)
  <2>1. p[1] \in Nat /\ p[2] \in Nat /\ Len(a) \in Nat /\ Len(b) \in Nat
    BY CellIs
  <2> QED BY <2>1
<1>2. d[p] = DpAt(a, b, d, p) /\ d[p] \in Nat
  OBVIOUS
<1> SUFFICES ASSUME NEW P, Fits(a, b, P, i, j) PROVE Cardinality(P) <= d[p]
  BY <1>1 DEF Best
<1>3. P \in Matchings(a, b) /\ \A m \in P : m[1] >= i /\ m[2] >= j
  BY DEF Fits
<1>4. /\ IsFiniteSet(P) /\ Cardinality(P) \in Nat
      /\ \A m \in P : m[1] \in 1..h /\ m[2] \in 1..k /\ m = <<m[1], m[2]>> /\ a[m[1]] = b[m[2]]
      /\ \A m, o \in P : m[1] < o[1] <=> m[2] < o[2]
      /\ \A Q \in SUBSET P : Q \in Matchings(a, b)
  BY <1>1, <1>3, MatchingIs
<1>5. CASE i > h \/ j > k
  <2>1. P = {}
    BY <1>3, <1>4, <1>5
  <2> QED BY <1>2, <2>1, FS_EmptySet
<1>6. CASE i <= h /\ j <= k
  <2>1. /\ <<i + 1, j>> \in Cells(a, b) /\ <<i, j + 1>> \in Cells(a, b) /\ <<i + 1, j + 1>> \in Cells(a, b)
        /\ Far(a, b, <<i + 1, j>>) < Far(a, b, p) /\ Far(a, b, <<i, j + 1>>) < Far(a, b, p)
        /\ Far(a, b, <<i + 1, j + 1>>) < Far(a, b, p)
    BY <1>1, <1>6, CellIs, FarIs
  <2>2. PICK x \in Nat, y \in Nat, z \in Nat :
          x = d[<<i + 1, j>>] /\ y = d[<<i, j + 1>>] /\ z = d[<<i + 1, j + 1>>]
    <3>1. d[<<i + 1, j>>] \in Nat /\ d[<<i, j + 1>>] \in Nat /\ d[<<i + 1, j + 1>>] \in Nat
      BY <2>1
    <3> QED BY <3>1
  <2>3. Best(a, b, d, <<i + 1, j>>) /\ Best(a, b, d, <<i, j + 1>>) /\ Best(a, b, d, <<i + 1, j + 1>>)
    BY <2>1
  <2>4. /\ \A Q : Fits(a, b, Q, i + 1, j) => Cardinality(Q) <= x
        /\ \A Q : Fits(a, b, Q, i, j + 1) => Cardinality(Q) <= y
        /\ \A Q : Fits(a, b, Q, i + 1, j + 1) => Cardinality(Q) <= z
    BY <2>2, <2>3 DEF Best
  <2>5. CASE a[i] = b[j]
    <3>1. d[p] = z + 1
      <4>1. ~(p[1] > Len(a)) /\ ~(p[2] > Len(b)) /\ a[p[1]] = b[p[2]]
        BY <1>1, <1>6, <2>5
      <4>2. DpAt(a, b, d, p) = d[<<i + 1, j + 1>>] + 1
        BY <1>1, <4>1 DEF DpAt
      <4> QED BY <1>2, <2>2, <4>2
    <3>2. CASE \A m \in P : m[1] # i /\ m[2] # j
      <4>1. Fits(a, b, P, i + 1, j + 1)
        BY <1>3, <1>4, <3>2 DEF Fits
      <4>2. Cardinality(P) <= z
        BY <2>4, <4>1
      <4> QED BY <1>4, <3>1, <4>2
    <3>3. ASSUME NEW m \in P, m[1] = i \/ m[2] = j PROVE Cardinality(P) <= d[p]
      <4>1. PICK Q \in SUBSET P : Q = P \ {m}
        OBVIOUS
      <4>2. ASSUME NEW o \in Q PROVE o[1] >= i + 1 /\ o[2] >= j + 1
        <5>1. o \in P /\ o # m
          BY <4>1
        <5>2. PICK m1 \in Nat, m2 \in Nat, o1 \in Nat, o2 \in Nat :
                m1 = m[1] /\ m2 = m[2] /\ o1 = o[1] /\ o2 = o[2]
          <6>1. m[1] \in Nat /\ m[2] \in Nat /\ o[1] \in Nat /\ o[2] \in Nat
            BY <1>4, <5>1
          <6> QED BY <6>1
        <5>3. ~(m1 = o1 /\ m2 = o2)
          BY <1>4, <5>1, <5>2
        <5>4. (m1 < o1 <=> m2 < o2) /\ (o1 < m1 <=> o2 < m2)
          BY <1>4, <5>1, <5>2
        <5>5. m1 >= i /\ m2 >= j /\ o1 >= i /\ o2 >= j /\ (m1 = i \/ m2 = j)
          BY <1>3, <3>3, <5>1, <5>2
        <5>6. o1 >= i + 1 /\ o2 >= j + 1
          BY <5>3, <5>4, <5>5
        <5> QED BY <5>2, <5>6
      <4>3. Fits(a, b, Q, i + 1, j + 1)
        BY <1>4, <4>2 DEF Fits
      <4>4. Cardinality(Q) <= z
        BY <2>4, <4>3
      <4>5. Cardinality(Q) = Cardinality(P) - 1
        BY <1>4, <4>1, FS_RemoveElement
      <4> QED BY <1>4, <3>1, <4>4, <4>5
    <3> QED BY <3>2, <3>3
  <2>6. CASE a[i] # b[j]
    <3>1. d[p] = Max({x, y})
      <4>1. ~(p[1] > Len(a)) /\ ~(p[2] > Len(b)) /\ a[p[1]] # b[p[2]]
        BY <1>1, <1>6, <2>6
      <4>2. DpAt(a, b, d, p) = Max({d[<<i + 1, j>>], d[<<i, j + 1>>]})
        BY <1>1, <4>1 DEF DpAt
      <4> QED BY <1>2, <2>2, <4>2
    <3>2. x <= d[p] /\ y <= d[p]
      BY <3>1, MaxOfTwo
    <3>3. CASE \A m \in P : m[1] # i
      <4>1. Fits(a, b, P, i + 1, j)
        BY <1>3, <1>4, <3>3 DEF Fits
      <4>2. Cardinality(P) <= x
        BY <2>4, <4>1
      <4> QED BY <1>2, <1>4, <3>2, <4>2
    <3>4. CASE \A m \in P : m[2] # j
      <4>1. Fits(a, b, P, i, j + 1)
        BY <1>3, <1>4, <3>4 DEF Fits
      <4>2. Cardinality(P) <= y
        BY <2>4, <4>1
      <4> QED BY <1>2, <1>4, <3>2, <4>2
    <3>5. ASSUME NEW m \in P, NEW o \in P, m[1] = i, o[2] = j PROVE FALSE
      <4>1. PICK m2 \in Nat, o1 \in Nat : m2 = m[2] /\ o1 = o[1]
        <5>1. m[2] \in Nat /\ o[1] \in Nat
          BY <1>4
        <5> QED BY <5>1
      <4>2. (i < o1 <=> m2 < j) /\ m2 >= j /\ o1 >= i
        BY <1>3, <1>4, <3>5, <4>1
      <4>3. o1 = i
        BY <4>2
      <4>4. a[i] = b[j]
        BY <1>4, <3>5, <4>1, <4>3
      <4> QED BY <2>6, <4>4
    <3> QED BY <3>3, <3>4, <3>5
  <2> QED BY <2>5, <2>6
<1> QED BY <1>5, <1>6

Explains(L, a, b, rows) ==
  /\ rows \in Seq(Row(L))
  /\ Lines(rows, {" ", "-"}) = a /\ Lines(rows, {" ", "+"}) = b
  /\ \A P \in Matchings(a, b) : Cardinality(P) <= Len(Lines(rows, {" "}))

(* diffLines, for any two texts: the kept and removed rows are the one, the kept and
   added rows are the other, and no way to pair their lines keeps more of them. *)
THEOREM DiffIsExact ==
  ASSUME NEW L, NEW a \in Seq(L), NEW b \in Seq(L), NEW rows, rows = DiffLines(a, b)
  PROVE  Explains(L, a, b, rows)
<1>1. PICK C : C = Cells(a, b)
  OBVIOUS
<1>2. PICK d : d = Dp(a, b)
  OBVIOUS
<1>3. \A p \in C : d[p] = DpAt(a, b, d, p) /\ d[p] \in Nat
  BY <1>1, <1>2, DpRun
<1>4. PICK w : /\ DiffLines(a, b) = w[<<1, 1>>]
               /\ \A p \in C : w[p] = WalkAt(a, b, d, w, p) /\ w[p] \in Seq(Row(L))
  BY <1>1, <1>2, WalkRun
<1> DEFINE T == {p \in C : Tells(L, a, b, d, w, p) /\ Best(a, b, d, p)}
<1>5. ASSUME NEW p \in C, \A q \in C : Far(a, b, q) < Far(a, b, p) => q \in T PROVE p \in T
  <2>1. \A q \in C : Far(a, b, q) < Far(a, b, p) => Tells(L, a, b, d, w, q) /\ Best(a, b, d, q)
    BY <1>5
  <2>2. Tells(L, a, b, d, w, p)
    BY <1>1, <1>3, <1>4, <2>1, WalkTells
  <2>3. Best(a, b, d, p)
    BY <1>1, <1>3, <2>1, BestHolds
  <2> QED BY <2>2, <2>3
<1>6. \A p \in C : p \in T
  <2> HIDE DEF T
  <2> QED BY <1>1, <1>5, CellInduction
<1>7. PICK p \in C : p = <<1, 1>> /\ p[1] = 1 /\ p[2] = 1
  <2>1. Len(a) \in Nat /\ Len(b) \in Nat
    OBVIOUS
  <2>2. <<1, 1>> \in C
    BY <1>1, <2>1 DEF Cells
  <2> QED BY <2>2
<1>8. Tells(L, a, b, d, w, p) /\ Best(a, b, d, p)
  BY <1>6
<1>9. rows = w[p]
  BY <1>4, <1>7
<1>10. /\ rows \in Seq(Row(L)) /\ Lines(rows, {" ", "-"}) = Rest(a, 1)
       /\ Lines(rows, {" ", "+"}) = Rest(b, 1) /\ Len(Lines(rows, {" "})) = d[p]
  BY <1>7, <1>8, <1>9 DEF Tells
<1>11. Rest(a, 1) = a /\ Rest(b, 1) = b
  BY RestIs
<1>12. ASSUME NEW P \in Matchings(a, b) PROVE Cardinality(P) <= d[p]
  <2>1. \A m \in P : m[1] >= 1 /\ m[2] >= 1
    BY MatchingIs
  <2>2. Fits(a, b, P, p[1], p[2])
    BY <1>7, <2>1 DEF Fits
  <2> QED BY <1>8, <2>2 DEF Best
<1> QED BY <1>9, <1>10, <1>11, <1>12 DEF Explains

-----------------------------------------------------------------------------
(* The diff panel. *)

Line == Id \X SUBSET Id

LEMMA YamlIs ==
  ASSUME NEW m, Sound(m)
  PROVE  Yaml(m) \in Seq(Line)
<1>1. PICK n \in Nat : n = Len(m.ids)
  BY IdsCount DEF Sound
<1>2. m.ids \in Seq(Ids(m)) /\ Ids(m) \subseteq Id /\ m.deps \in [Ids(m) -> SUBSET Ids(m)]
  BY IdsOf DEF Sound
<1>3. \A i \in 1..n : m.ids[i] \in Ids(m)
  BY <1>1, <1>2
<1>4. \A i \in 1..n : <<m.ids[i], m.deps[m.ids[i]]>> \in Line
  BY <1>2, <1>3 DEF Line
<1>5. PICK y : y = Yaml(m)
  OBVIOUS
<1>6. y \in [1..n -> Line]
  BY <1>1, <1>4, <1>5 DEF Yaml
<1> QED BY <1>5, <1>6

(* the panel shows the diff of two definitions *)
IsDiff(c, a, b) == c = [old |-> a, rows |-> DiffLines(a, b)]

LEMMA DiffIs ==
  ASSUME NEW a \in Seq(Line), NEW b \in Seq(Line), NEW c, IsDiff(c, a, b)
  PROVE  /\ c # NotShown /\ c.old = a
         /\ Lines(c.rows, {" ", "-"}) = a /\ Lines(c.rows, {" ", "+"}) = b
         /\ \A P \in Matchings(a, b) : Cardinality(P) <= Len(Lines(c.rows, {" "}))
<1>1. PICK rows : rows = DiffLines(a, b)
  OBVIOUS
<1>2. Explains(Line, a, b, rows)
  BY <1>1, DiffIsExact
<1>5. rows \in Seq(Row(Line))
  BY <1>2 DEF Explains
<1>3. c.old = a /\ c.rows = rows
  BY <1>1 DEF IsDiff
<1>4. c # NotShown
  <2>1. SUFFICES ASSUME c = NotShown PROVE FALSE
    OBVIOUS
  <2>2. rows = <<[k |-> "none", s |-> <<>>]>>
    BY <1>3, <2>1 DEF NotShown
  <2>3. Len(rows) = 1 /\ rows[1].k = "none"
    BY <2>2
  <2>4. rows[1] \in Row(Line)
    <3>1. PICK R : R = Row(Line)
      OBVIOUS
    <3>2. rows \in Seq(R) /\ 1 \in 1..Len(rows)
      BY <1>5, <2>3, <3>1
    <3>3. rows[1] \in R
      BY <3>2
    <3> QED BY <3>1, <3>3
  <2>5. rows[1].k \in {" ", "-", "+"}
    BY <2>4 DEF Row
  <2> QED BY <2>3, <2>5
<1> QED BY <1>2, <1>3, <1>4 DEF Explains

Shown == diffCache # NotShown => \E a, b \in Seq(Line) : IsDiff(diffCache, a, b)
Current ==
  graphBase # None /\ ValidateDag(tasks) /\ diffCache # NotShown /\ diffs = <<>> =>
    Lines(diffCache.rows, {" ", "+"}) = Yaml(tasks)
Asked == diffOpen /\ page = 0 /\ graphBase # None /\ diffs = <<>> => diffCache # NotShown

Panel == /\ diffs \in {<<>>, <<tasks>>}
         /\ graphBase = None => diffs = <<>> /\ diffCache = NotShown
         /\ Shown /\ Current /\ Asked

(* what a rendering of the page adds to the requests under way *)
LEMMA RenderAsks ==
  ASSUME NEW m, NEW base, NEW shown, NEW open, Render(m, base, shown, open), diffs = <<>>
  PROVE  /\ diffs' \in {<<>>, <<m>>}
         /\ base = None => diffs' = <<>>
         /\ page' = 0 /\ open /\ base # None /\ diffs' = <<>> => shown # NotShown
<1>1. Append(<<>>, m) = <<m>> /\ <<m>> # <<>>
  OBVIOUS
<1> QED BY <1>1 DEF Render

LEMMA SavesKeepPanel ==
  ASSUME Panel, diffs = <<>>, NEW m, SaveDag(m)
  PROVE  Panel'
<1> USE DEF Panel, Shown, Current, Asked
<1>1. /\ tasks' = m /\ diffOpen' = diffOpen
      /\ diffs' \in {<<>>, <<m>>} /\ (graphBase' = None => diffs' = <<>>)
      /\ page' = 0 /\ diffOpen /\ graphBase' # None /\ diffs' = <<>> => diffCache' # NotShown
  BY RenderAsks DEF SaveDag
<1>2. CASE ValidateDag(m)
  <2>1. graphBase' = None /\ diffCache' = NotShown
    BY <1>2 DEF SaveDag
  <2> QED BY <1>1, <2>1
<1>3. CASE ~ValidateDag(m)
  <2>1. graphBase' = graphBase /\ diffCache' = diffCache
    BY <1>3 DEF SaveDag
  <2> QED BY <1>1, <1>3, <2>1
<1> QED BY <1>2, <1>3

LEMMA MutatesKeepPanel ==
  ASSUME Structure, Panel, diffs = <<>>, NEW m, GraphMutate(m)
  PROVE  Panel'
<1> USE DEF Panel, Shown, Current, Asked
<1>1. tasks # None
  BY SoundIsSome DEF Structure
<1>2. graphBase' # None /\ tasks' = m /\ diffCache' = NotShown /\ diffOpen' = diffOpen
  BY <1>1 DEF GraphMutate
<1>3. Render(m, graphBase', NotShown, diffOpen)
  BY DEF GraphMutate
<1>4. /\ diffs' \in {<<>>, <<m>>}
      /\ page' = 0 /\ diffOpen /\ graphBase' # None /\ diffs' = <<>> => NotShown # NotShown
  <2> HIDE DEF Panel, Shown, Current, Asked
  <2> QED BY <1>3, RenderAsks
<1> QED BY <1>2, <1>4

LEMMA UntouchedKeepsPanel ==
  ASSUME Panel, diffs = <<>>, Untouched
  PROVE  Panel'
<1> USE DEF Panel, Shown, Current, Asked
<1>1. UNCHANGED <<tasks, graphBase, diffOpen, diffCache>>
  BY DEF Untouched
<1>2. /\ diffs' \in {<<>>, <<tasks>>} /\ (graphBase = None => diffs' = <<>>)
      /\ page' = 0 /\ diffOpen /\ graphBase # None /\ diffs' = <<>> => diffCache # NotShown
  <2>1. Render(tasks, graphBase, diffCache, diffOpen)
    BY DEF Untouched
  <2> HIDE DEF Panel, Shown, Current, Asked
  <2> QED BY <2>1, RenderAsks
<1> QED BY <1>1, <1>2

LEMMA TogglesKeepPanel ==
  ASSUME Structure, Panel, diffs = <<>>, NEW up, NEW down, NEW allowRemove,
         GraphToggleDep(up, down, allowRemove)
  PROVE  Panel'
BY UntouchedKeepsPanel, MutatesKeepPanel DEF GraphToggleDep

LEMMA PanelKeeps ==
  ASSUME Structure, "late_diff" \notin Races, Panel, [Next]_vars
  PROVE  Panel'
<1>1. ASSUME Edit PROVE diffs = <<>>
  BY <1>1 DEF Edit, InTime
<1>2. CASE FlushSave
  BY <1>2 DEF FlushSave, Panel, Shown, Current, Asked, panel
<1>3. CASE GraphSaveSession
  BY <1>1, <1>3 DEF GraphSaveSession, Panel, Shown, Current, Asked
<1>4. CASE GraphDiscardSession
  BY <1>1, <1>4 DEF GraphDiscardSession, Panel, Shown, Current, Asked
<1>5. CASE ToggleConnectMode
  BY <1>1, <1>5, UntouchedKeepsPanel DEF ToggleConnectMode
<1>6. CASE AddTask
  BY <1>1, <1>6, SavesKeepPanel DEF AddTask
<1>7. CASE NvAddStep
  BY <1>1, <1>7, SavesKeepPanel DEF NvAddStep
<1>8. CASE ToggleDiff
  <2>1. diffs = <<>> /\ UNCHANGED <<tasks, graphBase, page, diffCache>> /\ graphBase # None
    BY <1>1, <1>8 DEF ToggleDiff, model
  <2>2. /\ diffs' \in {<<>>, <<tasks>>}
        /\ page' = 0 /\ diffOpen' /\ graphBase # None /\ diffs' = <<>> => diffCache # NotShown
    BY <1>8, <2>1, RenderAsks DEF ToggleDiff
  <2> QED BY <2>1, <2>2 DEF Panel, Shown, Current, Asked
<1>9. CASE GotoDagPage
  BY <1>9, UntouchedKeepsPanel DEF GotoDagPage, InTime
<1>10. ASSUME NEW i \in 1..Len(diffs), DiffAnswered(i) PROVE Panel'
  <2>1. diffs = <<tasks>> /\ graphBase # None
    <3>1. diffs # <<>>
      BY <1>10
    <3> QED BY <3>1 DEF Panel
  <2>2. i = 1 /\ diffs[i] = tasks
    BY <1>10, <2>1
  <2>3. diffs' = <<>>
    BY <1>10, <2>1, <2>2 DEF DiffAnswered, RemoveAt
  <2>4. PICK a \in Seq(Line), b \in Seq(Line) : a = Yaml(saved) /\ b = Yaml(tasks)
    BY YamlIs DEF Structure
  <2>5. PICK c : c = diffCache'
    OBVIOUS
  <2>6. IsDiff(c, a, b)
    BY <1>10, <2>2, <2>4, <2>5 DEF DiffAnswered, IsDiff
  <2>7. c # NotShown /\ Lines(c.rows, {" ", "+"}) = b
    BY <2>6, DiffIs
  <2>8. UNCHANGED <<tasks, graphBase>>
    BY <1>10 DEF DiffAnswered, model
  <2>9. Shown'
    BY <2>5, <2>6 DEF Shown
  <2>10. Current' /\ Asked'
    BY <2>4, <2>5, <2>7, <2>8 DEF Current, Asked
  <2> QED BY <2>1, <2>3, <2>8, <2>9, <2>10 DEF Panel
<1>11. ASSUME NEW id \in Id, ShowTask(id) PROVE Panel'
  <2>1. page' # 0 /\ UNCHANGED <<tasks, graphBase, diffOpen, diffCache, diffs>>
    BY <1>11, GraphAssumption DEF ShowTask, model, panel
  <2> QED BY <2>1 DEF Panel, Shown, Current, Asked
<1>12. ASSUME NEW id \in Id, OnGraphNodeActivate(id) PROVE Panel'
  BY <1>1, <1>12, UntouchedKeepsPanel, TogglesKeepPanel DEF OnGraphNodeActivate
<1>13. ASSUME NEW id \in Id, AddTaskFromGraph(id) PROVE Panel'
  BY <1>1, <1>13, MutatesKeepPanel DEF AddTaskFromGraph
<1>14. ASSUME NEW id \in Id, EditCommand(id) PROVE Panel'
  BY <1>1, <1>14, SavesKeepPanel DEF EditCommand
<1>15. ASSUME NEW id \in Id, DeleteTask(id) PROVE Panel'
  BY <1>1, <1>15, SavesKeepPanel DEF DeleteTask
<1>16. ASSUME NEW id \in Id, NEW to \in Id, DragEdge(id, to) PROVE Panel'
  BY <1>1, <1>16, TogglesKeepPanel DEF DragEdge
<1>17. ASSUME NEW id \in Id, NEW to \in Id, RemoveEdge(id, to) PROVE Panel'
  BY <1>1, <1>17, TogglesKeepPanel DEF RemoveEdge
<1>18. ASSUME NEW id \in Id, NEW to \in Id, DuplicateTask(id, to) PROVE Panel'
  BY <1>1, <1>18, SavesKeepPanel DEF DuplicateTask
<1>19. ASSUME NEW id \in Id, NEW to \in Id, RenameActiveTask(id, to) PROVE Panel'
  BY <1>1, <1>19, SavesKeepPanel DEF RenameActiveTask
<1>20. ASSUME NEW id \in Id, NEW to \in Id, ToggleChip(id, to) PROVE Panel'
  <2>1. PICK n : IF HasCycle(n) THEN UNCHANGED <<model, panel>> ELSE SaveDag(n)
    BY <1>20 DEF ToggleChip
  <2>2. diffs = <<>> /\ page' = page
    BY <1>1, <1>20 DEF ToggleChip
  <2>3. CASE HasCycle(n)
    BY <2>1, <2>2, <2>3 DEF model, panel, Panel, Shown, Current, Asked
  <2>4. CASE ~HasCycle(n)
    BY <2>1, <2>2, <2>4, SavesKeepPanel
  <2> QED BY <2>3, <2>4
<1>21. CASE UNCHANGED vars
  BY <1>21 DEF vars, model, panel, Panel, Shown, Current, Asked
<1> QED BY <1>2, <1>3, <1>4, <1>5, <1>6, <1>7, <1>8, <1>9, <1>10, <1>11, <1>12, <1>13, <1>14, <1>15, <1>16, <1>17, <1>18, <1>19, <1>20, <1>21 DEF Next

(* The diff panel tells the truth, for any number of tasks, edits and diffs: its kept
   and removed lines are the saved definition and no diff keeps more lines; with the
   answer in, its kept and added lines are the pending structure, unless a save is
   held.  The answer comes before the next edit. *)
THEOREM DiffIsTrue ==
  ASSUME "stale_pick" \notin Races, "late_diff" \notin Races
  PROVE  Spec => []DiffTellsTruth
<1>1. Init => Panel
  BY DEF Init, Panel, Shown, Current, Asked
<1>2. Structure /\ Panel /\ [Next]_vars => Panel'
  BY PanelKeeps
<1>3. Panel => DiffTellsTruth
  <2> SUFFICES ASSUME Panel PROVE DiffTellsTruth
    OBVIOUS
  <2>1. ASSUME diffCache # NotShown PROVE DiffExplains
    <3>1. PICK a \in Seq(Line), b \in Seq(Line) : IsDiff(diffCache, a, b)
      BY <2>1 DEF Panel, Shown
    <3>2. PICK c : c = diffCache
      OBVIOUS
    <3>3. /\ c.old = a /\ Lines(c.rows, {" ", "-"}) = a /\ Lines(c.rows, {" ", "+"}) = b
          /\ \A P \in Matchings(a, b) : Cardinality(P) <= Len(Lines(c.rows, {" "}))
      BY <3>1, <3>2, DiffIs
    <3> QED BY <3>2, <3>3 DEF DiffExplains
  <2>2. DiffIsCurrent
    BY DEF DiffIsCurrent, Panel, Current, Asked
  <2> QED BY <2>1, <2>2 DEF DiffTellsTruth
<1> QED BY <1>1, <1>2, <1>3, StructureHolds, PTL DEF Spec
=============================================================================
