-------------------------- MODULE CompositorProofs --------------------------
(***************************************************************************)
(* What composes a product: PrefetchCompose implements ChunkedBuild and    *)
(* ends quiet, for every plan, chunk order and number of workers, and the  *)
(* loops over the observations of a pixel (PixelComposite) keep its best   *)
(* one and, in one pass, the exact variance of its valid values, for any   *)
(* number of observations, codes, reflectances and samples.                *)
(***************************************************************************)
EXTENDS PrefetchCompose, PixelComposite, WellFoundedInduction, FiniteSetTheorems, TLAPS

-----------------------------------------------------------------------------
(* The list of fetches: FlattenSeq, over any number of chunks, by the      *)
(* least counterexample.                                                   *)
LEMMA LeastNatural ==
  ASSUME NEW S, S \subseteq Nat, S # {}
  PROVE  \E n \in S : \A m \in S : n <= m
<1> DEFINE Below == {pair \in Nat \X Nat : pair[1] < pair[2]}
<1>1. IsWellFoundedOn(Below, Nat)
  BY NatLessThanWellFounded DEF OpToRel
<1>2. \A x, y \in S : y < x => <<y, x>> \in Below
  OBVIOUS
<1> HIDE DEF Below
<1>3. PICK x \in S : \A y \in S : ~(<<y, x>> \in Below)
  BY <1>1, WFMin, Zenon
<1>4. ASSUME NEW m \in S PROVE x <= m
  <2>1. ~(m < x)
    BY <1>2, <1>3
  <2>2. QED
    BY <2>1
<1>5. QED
  BY <1>4

LEMMA SetInduction ==
  ASSUME NEW S, 0 \in S, \A n \in Nat : n \in S => n + 1 \in S
  PROVE  Nat \subseteq S
<1>1. SUFFICES ASSUME Nat \ S # {} PROVE FALSE
  OBVIOUS
<1>2. PICK n \in Nat \ S : \A m \in Nat \ S : n <= m
  BY <1>1, LeastNatural
<1>3. n # 0
  OBVIOUS
<1>4. n - 1 \in Nat /\ n - 1 \in S
  BY <1>2, <1>3
<1>5. QED
  BY <1>4

LEMMA ConcatDistinct ==
  ASSUME NEW X, NEW f \in Seq(X), NEW g \in Seq(X), IsInjective(f), IsInjective(g),
         ToSet(f) \cap ToSet(g) = {}
  PROVE  f \o g \in Seq(X) /\ IsInjective(f \o g) /\ ToSet(f \o g) = ToSet(f) \cup ToSet(g)
<1>1. /\ f \o g \in Seq(X) /\ Len(f) \in Nat /\ Len(g) \in Nat
      /\ DOMAIN (f \o g) = 1..(Len(f) + Len(g)) /\ DOMAIN f = 1..Len(f) /\ DOMAIN g = 1..Len(g)
      /\ \A i \in 1..Len(f) : (f \o g)[i] = f[i]
      /\ \A i \in (Len(f) + 1)..(Len(f) + Len(g)) : (f \o g)[i] = g[i - Len(f)]
  OBVIOUS
<1> DEFINE h == f \o g
<1> HIDE DEF h
<1>2. \A i \in DOMAIN h : \/ i \in DOMAIN f /\ h[i] = f[i]
                          \/ i - Len(f) \in DOMAIN g /\ h[i] = g[i - Len(f)]
  BY <1>1 DEF h
<1>3. \A i \in DOMAIN f, j \in DOMAIN g : f[i] # g[j]
  BY DEF ToSet
<1>4. IsInjective(h)
  <2> SUFFICES ASSUME NEW a \in DOMAIN h, NEW b \in DOMAIN h, h[a] = h[b] PROVE a = b
    BY DEF IsInjective
  <2>1. CASE a \in DOMAIN f /\ h[a] = f[a] /\ b \in DOMAIN f /\ h[b] = f[b]
    BY <2>1 DEF IsInjective
  <2>2. CASE /\ a - Len(f) \in DOMAIN g /\ h[a] = g[a - Len(f)]
             /\ b - Len(f) \in DOMAIN g /\ h[b] = g[b - Len(f)]
    <3>1. a - Len(f) = b - Len(f)
      BY <2>2 DEF IsInjective
    <3>2. QED
      BY <1>1, <3>1 DEF h
  <2>3. QED
    BY <1>2, <1>3, <2>1, <2>2
<1>5. ToSet(h) = ToSet(f) \cup ToSet(g)
  <2>1. ToSet(h) \subseteq ToSet(f) \cup ToSet(g)
    BY <1>2 DEF ToSet
  <2>2. \A i \in DOMAIN f : i \in DOMAIN h /\ h[i] = f[i]
    BY <1>1 DEF h
  <2>3. \A i \in DOMAIN g : Len(f) + i \in DOMAIN h /\ h[Len(f) + i] = g[i]
    BY <1>1 DEF h
  <2>4. ToSet(f) \subseteq ToSet(h)
    BY <2>2 DEF ToSet
  <2>5. ToSet(g) \subseteq ToSet(h)
    BY <2>3 DEF ToSet
  <2>6. QED
    BY <2>1, <2>4, <2>5
<1>6. QED
  BY <1>1, <1>4, <1>5 DEF h

(* The members of the first i sequences, and their joins.                  *)
Members(seqs, i) == UNION {ToSet(seqs[j]) : j \in 1..i}
Joined(seqs, g, m) ==
  /\ DOMAIN g = 1..m
  /\ g[1] = seqs[1]
  /\ \A i \in 1..m : i > 1 => g[i] = g[i - 1] \o seqs[i]

LEMMA LongerJoin ==
  ASSUME NEW seqs, NEW m \in Nat, m > 0, NEW g, Joined(seqs, g, m)
  PROVE  \E h : Joined(seqs, h, m + 1)
<1> DEFINE last == g[m] \o seqs[m + 1]
           h == [i \in 1..(m + 1) |-> IF i <= m THEN g[i] ELSE last]
<1> HIDE DEF last
<1>1. \A i \in 1..m : h[i] = g[i]
  OBVIOUS
<1>2. h[m + 1] = last /\ DOMAIN h = 1..(m + 1)
  OBVIOUS
<1> HIDE DEF h
<1>3. ASSUME NEW i \in 1..(m + 1), i > 1 PROVE h[i] = h[i - 1] \o seqs[i]
  <2>1. CASE i <= m
    <3>1. i \in 1..m /\ i - 1 \in 1..m
      BY <1>3, <2>1
    <3>2. h[i] = g[i] /\ h[i - 1] = g[i - 1]
      BY <1>1, <3>1
    <3>3. g[i] = g[i - 1] \o seqs[i]
      BY <1>3, <3>1 DEF Joined
    <3>4. QED
      BY <3>2, <3>3
  <2>2. CASE i = m + 1
    <3>1. i - 1 = m /\ m \in 1..m
      BY <2>2
    <3>2. h[i - 1] = g[m]
      BY <1>1, <3>1
    <3>3. h[i] = g[m] \o seqs[m + 1]
      BY <1>2, <2>2 DEF last
    <3>4. seqs[i] = seqs[m + 1]
      BY <2>2
    <3>5. QED
      BY ONLY <3>2, <3>3, <3>4
  <2>3. i <= m \/ i = m + 1
    OBVIOUS
  <2>4. QED
    BY <2>1, <2>2, <2>3, Zenon
<1>4. h[1] = seqs[1]
  <2>1. 1 \in 1..m
    OBVIOUS
  <2>2. QED
    BY <1>1, <2>1 DEF Joined
<1>5. Joined(seqs, h, m + 1)
  BY <1>2, <1>3, <1>4 DEF Joined
<1>6. QED
  BY <1>5

LEMMA JoinExists ==
  ASSUME NEW seqs, NEW n \in Nat, n > 0
  PROVE  \E g : Joined(seqs, g, n)
<1> DEFINE S == {m \in Nat : \E g : Joined(seqs, g, m + 1)}
<1>1. 0 \in S
  <2>1. Joined(seqs, [i \in 1..1 |-> seqs[i]], 1)
    BY DEF Joined
  <2>2. \E g : Joined(seqs, g, 0 + 1)
    BY <2>1
  <2>3. QED
    BY <2>2
<1>2. ASSUME NEW m \in Nat, m \in S PROVE m + 1 \in S
  <2>1. PICK g : Joined(seqs, g, m + 1)
    BY <1>2
  <2>2. m + 1 \in Nat /\ m + 1 > 0
    OBVIOUS
  <2>3. \E h : Joined(seqs, h, (m + 1) + 1)
    BY <2>1, <2>2, LongerJoin
  <2>4. QED
    BY <2>2, <2>3
<1> HIDE DEF S
<1>3. n - 1 \in S
  BY <1>1, <1>2, SetInduction
<1>4. (n - 1) + 1 = n
  OBVIOUS
<1>5. QED
  BY <1>3, <1>4 DEF S

LEMMA FlattenIsJoin ==
  ASSUME NEW X, NEW seqs \in Seq(X), seqs # <<>>
  PROVE  \E g : Joined(seqs, g, Len(seqs)) /\ FlattenSeq(seqs) = g[Len(seqs)]
<1> DEFINE n == Len(seqs)
           F == CHOOSE g : g = [i \in 1..n |-> IF i = 1 THEN seqs[i] ELSE g[i - 1] \o seqs[i]]
<1>1. n \in Nat /\ n > 0
  OBVIOUS
<1>2. FlattenSeq(seqs) = F[n]
  BY <1>1 DEF FlattenSeq
<1>3. F = [i \in 1..n |-> IF i = 1 THEN seqs[i] ELSE F[i - 1] \o seqs[i]]
  <2>1. PICK g : Joined(seqs, g, n)
    BY <1>1, JoinExists
  <2> DEFINE h == [i \in 1..n |-> g[i]]
  <2>2. h = [i \in 1..n |-> IF i = 1 THEN seqs[i] ELSE h[i - 1] \o seqs[i]]
    <3>1. ASSUME NEW i \in 1..n PROVE g[i] = IF i = 1 THEN seqs[i] ELSE h[i - 1] \o seqs[i]
      <4>1. CASE i = 1
        BY <2>1, <4>1 DEF Joined
      <4>2. CASE i > 1
        <5>1. g[i] = g[i - 1] \o seqs[i]
          BY <2>1, <4>2 DEF Joined
        <5>2. i - 1 \in 1..n
          BY <1>1, <4>2
        <5>3. h[i - 1] = g[i - 1]
          BY <5>2
        <5> HIDE DEF h
        <5>4. i # 1
          BY <4>2
        <5>5. QED
          BY <5>1, <5>3, <5>4, Zenon
      <4>3. QED
        BY <1>1, <4>1, <4>2
    <3>2. QED
      BY <3>1
  <2>3. QED
    BY <2>2
<1> HIDE DEF F
<1>4. Joined(seqs, F, n)
  <2>1. DOMAIN F = 1..n
    BY <1>3
  <2>2. \A i \in 1..n : F[i] = IF i = 1 THEN seqs[i] ELSE F[i - 1] \o seqs[i]
    BY <1>3, Zenon
  <2>3. 1 \in 1..n /\ \A i \in 1..n : i > 1 => i # 1
    BY <1>1
  <2>4. F[1] = seqs[1]
    BY <2>2, <2>3, Zenon
  <2>5. \A i \in 1..n : i > 1 => F[i] = F[i - 1] \o seqs[i]
    BY <2>2, <2>3, Zenon
  <2>6. QED
    BY <2>1, <2>4, <2>5 DEF Joined
<1>5. QED
  BY <1>2, <1>4

(* Joining sequences that share nothing and repeat nothing.                *)
LEMMA FlattenDistinct ==
  ASSUME NEW X, NEW seqs \in Seq(Seq(X)),
         \A i \in DOMAIN seqs : IsInjective(seqs[i]),
         \A i, j \in DOMAIN seqs : i # j => ToSet(seqs[i]) \cap ToSet(seqs[j]) = {}
  PROVE  /\ FlattenSeq(seqs) \in Seq(X) /\ IsInjective(FlattenSeq(seqs))
         /\ ToSet(FlattenSeq(seqs)) = Members(seqs, Len(seqs))
<1> DEFINE n == Len(seqs)
           Good(f, i) == f \in Seq(X) /\ IsInjective(f) /\ ToSet(f) = Members(seqs, i)
<1>1. n \in Nat /\ DOMAIN seqs = 1..n /\ \A i \in 1..n : seqs[i] \in Seq(X)
  OBVIOUS
<1>2. CASE seqs = <<>>
  <2>1. FlattenSeq(seqs) = seqs
    BY <1>2 DEF FlattenSeq
  <2>2. Members(seqs, n) = {}
    BY <1>2 DEF Members
  <2>3. <<>> \in Seq(X) /\ IsInjective(<<>>) /\ ToSet(<<>>) = {}
    BY DEF ToSet, IsInjective
  <2>4. QED
    BY <1>2, <2>1, <2>2, <2>3
<1>3. CASE seqs # <<>>
  <2>1. PICK F : Joined(seqs, F, n) /\ FlattenSeq(seqs) = F[n]
    BY <1>3, FlattenIsJoin
  <2>2. n > 0
    BY <1>1, <1>3
  <2> DEFINE S == {m \in Nat : m + 1 <= n => Good(F[m + 1], m + 1)}
  <2>3. 0 \in S
    <3>1. Members(seqs, 1) = ToSet(seqs[1])
      BY DEF Members
    <3>2. Good(F[1], 1)
      BY <1>1, <2>1, <2>2, <3>1 DEF Joined
    <3>3. QED
      BY <3>2
  <2>4. ASSUME NEW m \in Nat, m \in S PROVE m + 1 \in S
    <3>1. SUFFICES ASSUME (m + 1) + 1 <= n PROVE Good(F[(m + 1) + 1], (m + 1) + 1)
      OBVIOUS
    <3> DEFINE k == m + 1
    <3>2. k \in 1..n /\ k + 1 \in 1..n /\ k + 1 > 1 /\ (k + 1) - 1 = k
      BY <1>1, <3>1
    <3>3. Good(F[k], k)
      BY <1>1, <2>4, <3>2
    <3> HIDE DEF k
    <3>4. F[k + 1] = F[k] \o seqs[k + 1]
      BY <2>1, <3>2 DEF Joined
    <3>5. Members(seqs, k) \cap ToSet(seqs[k + 1]) = {}
      <4>1. \A j \in 1..k : ToSet(seqs[j]) \cap ToSet(seqs[k + 1]) = {}
        <5>1. \A j \in 1..k : j \in 1..n /\ j # k + 1
          BY <1>1, <3>2
        <5>2. QED
          BY <1>1, <3>2, <5>1
      <4>2. QED
        BY <4>1 DEF Members
    <3>6. Members(seqs, k + 1) = Members(seqs, k) \cup ToSet(seqs[k + 1])
      <4>1. 1..(k + 1) = 1..k \cup {k + 1}
        BY <3>2
      <4>2. QED
        BY <4>1 DEF Members
    <3>7. seqs[k + 1] \in Seq(X) /\ IsInjective(seqs[k + 1])
      BY <1>1, <3>2
    <3>8. F[k] \o seqs[k + 1] \in Seq(X) /\ IsInjective(F[k] \o seqs[k + 1])
            /\ ToSet(F[k] \o seqs[k + 1]) = ToSet(F[k]) \cup ToSet(seqs[k + 1])
      BY <3>3, <3>5, <3>7, ConcatDistinct
    <3>9. Good(F[k + 1], k + 1)
      BY <3>3, <3>4, <3>6, <3>8
    <3>10. QED
      BY <3>9 DEF k
  <2> HIDE DEF S
  <2>5. n - 1 \in S
    BY <1>1, <2>2, <2>3, <2>4, SetInduction
  <2>6. Good(F[n], n)
    <3>1. (n - 1) + 1 = n /\ n <= n
      BY <1>1
    <3>2. QED
      BY <2>5, <3>1 DEF S
  <2>7. QED
    BY <2>1, <2>6
<1>4. QED
  BY <1>2, <1>3

(* Every pair of the plan is fetched, once.                                *)
Row(c) == [j \in 1..Len(Selected[c]) |-> <<Selected[c][j], c>>]

LEMMA RowFacts ==
  ASSUME NEW c \in Chunks
  PROVE  /\ Row(c) \in Seq(Build!Pairs) /\ IsInjective(Row(c))
         /\ ToSet(Row(c)) = {<<s, c>> : s \in Build!ScenesOf(c)}
<1>1. Selected[c] \in Seq(Scenes) /\ IsInjective(Selected[c]) /\ DOMAIN Selected[c] = 1..Len(Selected[c])
      /\ Len(Selected[c]) \in Nat
  BY PlanAssumption
<1>2. \A j \in 1..Len(Selected[c]) : Selected[c][j] \in Build!ScenesOf(c)
  BY DEF Build!ScenesOf
<1>3. \A s \in Build!ScenesOf(c) : <<s, c>> \in Build!Pairs
  BY DEF Build!Pairs, Build!Chunks, Chunks
<1>4. Row(c) \in Seq(Build!Pairs)
  BY <1>1, <1>2, <1>3 DEF Row
<1>5. IsInjective(Row(c))
  BY <1>1 DEF Row, IsInjective
<1>6. ToSet(Row(c)) = {<<s, c>> : s \in Build!ScenesOf(c)}
  BY DEF ToSet, Row, Build!ScenesOf
<1>7. QED
  BY <1>4, <1>5, <1>6

LEMMA TasksFacts ==
  Tasks \in Seq(Build!Pairs) /\ IsInjective(Tasks) /\ ToSet(Tasks) = Build!Pairs
<1> DEFINE rows == [i \in 1..Len(ChunkOrder) |-> Row(ChunkOrder[i])]
<1>1. Tasks = FlattenSeq(rows)
  BY DEF Tasks, Row
<1>2. /\ Len(ChunkOrder) \in Nat /\ DOMAIN ChunkOrder = 1..Len(ChunkOrder)
      /\ \A i \in 1..Len(ChunkOrder) : ChunkOrder[i] \in Chunks
      /\ \A i, j \in 1..Len(ChunkOrder) : i # j => ChunkOrder[i] # ChunkOrder[j]
      /\ Chunks = {ChunkOrder[i] : i \in 1..Len(ChunkOrder)}
  BY PlanAssumption DEF IsInjective, ToSet
<1>3. rows \in Seq(Seq(Build!Pairs)) /\ DOMAIN rows = 1..Len(ChunkOrder) /\ Len(rows) = Len(ChunkOrder)
  BY <1>2, RowFacts
<1>4. \A i \in DOMAIN rows : /\ IsInjective(rows[i])
                            /\ ToSet(rows[i]) = {<<s, ChunkOrder[i]>> : s \in Build!ScenesOf(ChunkOrder[i])}
  BY <1>2, <1>3, RowFacts
<1> HIDE DEF rows
<1>5. \A i, j \in DOMAIN rows : i # j => ToSet(rows[i]) \cap ToSet(rows[j]) = {}
  <2> SUFFICES ASSUME NEW i \in DOMAIN rows, NEW j \in DOMAIN rows, i # j
               PROVE  ToSet(rows[i]) \cap ToSet(rows[j]) = {}
    OBVIOUS
  <2>1. ChunkOrder[i] # ChunkOrder[j]
    BY <1>2, <1>3
  <2>2. QED
    BY <1>4, <2>1
<1>6. /\ FlattenSeq(rows) \in Seq(Build!Pairs) /\ IsInjective(FlattenSeq(rows))
      /\ ToSet(FlattenSeq(rows)) = Members(rows, Len(rows))
  BY <1>3, <1>4, <1>5, FlattenDistinct
<1>7. Members(rows, Len(rows)) = Build!Pairs
  <2>1. Members(rows, Len(rows)) = UNION {{<<s, ChunkOrder[i]>> : s \in Build!ScenesOf(ChunkOrder[i])}
                                            : i \in 1..Len(ChunkOrder)}
    BY <1>3, <1>4 DEF Members
  <2>2. Build!Pairs = UNION {{<<s, c>> : s \in Build!ScenesOf(c)} : c \in Chunks}
    BY DEF Build!Pairs, Build!Chunks, Chunks
  <2>3. QED
    BY <1>2, <2>1, <2>2
<1>8. QED
  BY <1>1, <1>6, <1>7

-----------------------------------------------------------------------------
(* The inductive invariant.                                                *)
Over == {"returned", "raised"}
Fetching == {"consuming", "cancelling", "closing"}   \* before compose starts

PrefetchType ==
  /\ caller \in Fetching \cup Over \cup {"composing"} /\ at \in Nat /\ error \in BOOLEAN
  /\ task \in [TaskIds -> {"queued", "running", "done", "raised", "cancelled"}]
  /\ answer \in [Build!Pairs -> Build!Answers \cup {"pending"}]
  /\ DOMAIN canvas = Chunks

(* A fetch answers its pair when it ends, and not before.                  *)
TaskInv ==
  \A i \in TaskIds : CASE task[i] = "done"   -> answer[Tasks[i]] \in {"obs", "bad", "none"}
                       [] task[i] = "raised" -> answer[Tasks[i]] = "failed"
                       [] OTHER              -> answer[Tasks[i]] = "pending"

(* What the caller has gone through is done, and kept.                     *)
Kept(i) == task[i] = "done" /\ Tasks[i] \in cache
CallerInv ==
  /\ caller = "consuming" => ~error /\ at <= Len(Tasks) /\ \A i \in 1..at : Kept(i)
  /\ caller \in {"cancelling", "closing"} => error
  /\ caller = "composing" => ~error /\ \A i \in TaskIds : Kept(i)
  /\ caller \in Over => PoolQuiet
  /\ error => \E i \in TaskIds : task[i] = "raised"

(* The chunks passed are painted, the others blank.                        *)
CanvasInv ==
  /\ caller \in Fetching => \A c \in Chunks : canvas[c] = <<>>
  /\ caller = "composing" =>
       /\ at <= Len(ChunkOrder)
       /\ \A i \in 1..Len(ChunkOrder) : LET c == ChunkOrder[i] IN
            IF i <= at THEN ~Build!Rejected(c) /\ canvas[c] = Build!Reference(c)
                       ELSE canvas[c] = <<>>

PrefetchInv == PrefetchType /\ TaskInv /\ CallerInv /\ CanvasInv

LEMMA TaskPairs ==
  /\ Len(Tasks) \in Nat /\ TaskIds = 1..Len(Tasks)
  /\ \A i \in TaskIds : Tasks[i] \in Build!Pairs
  /\ \A i, j \in TaskIds : Tasks[i] = Tasks[j] => i = j
  /\ \A p \in Build!Pairs : \E i \in TaskIds : Tasks[i] = p
BY TasksFacts DEF TaskIds, IsInjective, ToSet

LEMMA PrefetchInit == Init => PrefetchInv
<1> SUFFICES ASSUME Init PROVE PrefetchInv
  OBVIOUS
<1>1. PrefetchType
  BY DEF Init, PrefetchType, Fetching, Over
<1>2. TaskInv
  BY TaskPairs DEF Init, TaskInv
<1>3. Chunks = {} => TaskIds = {}
  BY TaskPairs DEF Build!Pairs, Build!Chunks, Chunks
<1>4. CallerInv
  BY <1>3, TaskPairs DEF Init, CallerInv, PoolQuiet, Over
<1>5. CanvasInv
  BY DEF Init, CanvasInv, Fetching
<1>6. QED
  BY <1>1, <1>2, <1>4, <1>5 DEF PrefetchInv

LEMMA TypeNext ==
  ASSUME PrefetchType, [Next]_vars
  PROVE  PrefetchType'
<1>1. CASE \E i \in TaskIds : Worker(i)
  <2>1. PICK i \in TaskIds : Worker(i)
    BY <1>1
  <2>2. Tasks[i] \in Build!Pairs
    BY TaskPairs
  <2>3. QED
    BY <2>1, <2>2 DEF PrefetchType, Worker, StartFetch, FetchReturns, FetchRaises, Build!Answers
<1>2. CASE Consume \/ ConsumeRaises \/ ClosePool \/ ReturnComposite \/ UNCHANGED vars
  <2>1. UNCHANGED <<task, answer, canvas>>
    BY <1>2 DEF Consume, ConsumeRaises, ClosePool, ReturnComposite, vars
  <2>2. /\ caller' \in Fetching \cup Over \cup {"composing"} /\ error' \in BOOLEAN
        /\ at' \in {at, at + 1, 0}
    BY <1>2 DEF PrefetchType, Consume, ConsumeRaises, ClosePool, ReturnComposite, vars, Fetching, Over
  <2>3. QED
    BY <2>1, <2>2 DEF PrefetchType
<1>5. CASE CancelQueued
  BY <1>5 DEF PrefetchType, CancelQueued, LastQueued, Fetching
<1>3. CASE ComposeNext
  BY <1>3 DEF PrefetchType, ComposeNext, Fetching, Over
<1>4. QED
  BY <1>1, <1>2, <1>3, <1>5 DEF Next, CallerStep, Finished

LEMMA TaskNext ==
  ASSUME PrefetchType, TaskInv, [Next]_vars
  PROVE  TaskInv'
<1>1. CASE \E i \in TaskIds : Worker(i)
  <2>1. PICK i \in TaskIds : Worker(i)
    BY <1>1
  <2>2. /\ DOMAIN answer = Build!Pairs /\ DOMAIN task = TaskIds
        /\ \A j \in TaskIds : Tasks[j] \in Build!Pairs /\ (j # i => Tasks[j] # Tasks[i])
    BY TaskPairs DEF PrefetchType
  <2>3. CASE StartFetch(i)
    BY <2>2, <2>3 DEF TaskInv, StartFetch
  <2>4. CASE FetchReturns(i)
    BY <2>2, <2>4 DEF TaskInv, FetchReturns
  <2>5. CASE FetchRaises(i)
    BY <2>2, <2>5 DEF TaskInv, FetchRaises
  <2>6. QED
    BY <2>1, <2>3, <2>4, <2>5 DEF Worker
<1>2. CASE CancelQueued
  BY <1>2 DEF TaskInv, CancelQueued, LastQueued, PrefetchType
<1>3. CASE UNCHANGED <<task, answer>>
  BY <1>3 DEF TaskInv
<1>4. QED
  BY <1>1, <1>2, <1>3 DEF Next, CallerStep, Consume, ConsumeRaises, ClosePool, ComposeNext,
     ReturnComposite, Finished, vars

(* A fetch that runs or starts finds the caller still in the prefetch.     *)
LEMMA WorkerEarly ==
  ASSUME PrefetchType, CallerInv, NEW i \in TaskIds, Worker(i)
  PROVE  caller \in Fetching
<1>1. CASE StartFetch(i)
  BY <1>1 DEF StartFetch, Fetching
<1>2. CASE task[i] = "running"
  BY <1>2 DEF PrefetchType, CallerInv, Kept, PoolQuiet, Over, Fetching
<1>3. QED
  BY <1>1, <1>2 DEF Worker, FetchReturns, FetchRaises

LEMMA CallerNext ==
  ASSUME PrefetchType, TaskInv, CallerInv, [Next]_vars
  PROVE  CallerInv'
<1>1. CASE \E i \in TaskIds : Worker(i)
  <2>1. PICK i \in TaskIds : Worker(i)
    BY <1>1
  <2>2. caller \in Fetching /\ UNCHANGED <<caller, at, error, cache>>
    BY <2>1, WorkerEarly DEF Worker, StartFetch, FetchReturns, FetchRaises
  <2>3. task[i] \in {"queued", "running"} /\ \A j \in TaskIds : j # i => task'[j] = task[j]
    BY <2>1 DEF Worker, StartFetch, FetchReturns, FetchRaises, PrefetchType
  <2>4. \A j \in TaskIds : (Kept(j) => Kept(j)') /\ (task[j] = "raised" => task'[j] = "raised")
    BY <2>2, <2>3 DEF Kept
  <2>5. \A j \in 1..at : caller = "consuming" => j \in TaskIds
    BY TaskPairs DEF CallerInv, PrefetchType
  <2>6. QED
    BY <2>2, <2>4, <2>5 DEF CallerInv, Fetching, Over
<1>2. CASE Consume
  <2>1. at + 1 \in TaskIds /\ 1..(at + 1) = 1..at \cup {at + 1} /\ at + 1 <= Len(Tasks)
    BY <1>2, TaskPairs DEF Consume, PrefetchType
  <2>2. \A i \in 1..at' : Kept(i)'
    BY <1>2, <2>1 DEF Consume, CallerInv, Kept, Succeeded
  <2>3. QED
    BY <1>2, <2>1, <2>2 DEF Consume, CallerInv, Over
<1>3. CASE ConsumeRaises
  <2>1. at + 1 \in TaskIds
    BY <1>3, TaskPairs DEF ConsumeRaises, PrefetchType
  <2>2. QED
    BY <1>3, <2>1 DEF ConsumeRaises, CallerInv, Over
<1>4. CASE CancelQueued
  BY <1>4 DEF CancelQueued, LastQueued, CallerInv, PrefetchType, Over
<1>5. CASE ClosePool
  <2>1. ~error => caller = "consuming" /\ at = Len(Tasks)
    BY <1>5 DEF ClosePool, CallerInv
  <2>2. ~error => \A i \in TaskIds : Kept(i)
    BY <2>1, TaskPairs DEF CallerInv
  <2>3. PoolQuiet' /\ \A i \in TaskIds : Kept(i)' = Kept(i)
    BY <1>5 DEF ClosePool, PoolQuiet, Pooled, Kept
  <2>4. QED
    BY <1>5, <2>2, <2>3 DEF ClosePool, CallerInv, Over
<1>6. CASE ComposeNext \/ ReturnComposite
  <2>1. \A i \in TaskIds : task[i] = "done"
    BY <1>6 DEF ComposeNext, ReturnComposite, CallerInv, Kept
  <2>2. PoolQuiet' /\ UNCHANGED <<task, cache, error>>
    BY <1>6, <2>1 DEF ComposeNext, ReturnComposite, PoolQuiet
  <2>3. caller = "composing" /\ caller' \in Over \cup {"composing"}
    BY <1>6 DEF ComposeNext, ReturnComposite, Over
  <2>4. QED
    BY <2>2, <2>3 DEF CallerInv, Over, Kept
<1>7. CASE UNCHANGED vars
  BY <1>7 DEF vars, CallerInv, PoolQuiet, Pooled, Kept
<1>8. QED
  BY <1>1, <1>2, <1>3, <1>4, <1>5, <1>6, <1>7 DEF Next, CallerStep, Finished

(* With every fetch kept, what is loaded is what contributes.              *)
LEMMA LoadedAll ==
  ASSUME PrefetchType, TaskInv, CallerInv, caller = "composing", NEW c \in Chunks
  PROVE  /\ Build!Answered(c)
         /\ Build!Rejected(c) <=> \E s \in Loaded(c) : answer[<<s, c>>] = "bad"
         /\ ~Build!Rejected(c) => Merged(c) = Build!Reference(c)
<1>1. ASSUME NEW s \in Build!ScenesOf(c)
      PROVE  <<s, c>> \in cache /\ answer[<<s, c>>] \in {"obs", "bad", "none"}
  <2>1. <<s, c>> \in Build!Pairs
    BY DEF Build!Pairs, Build!Chunks, Chunks
  <2>2. PICK i \in TaskIds : Tasks[i] = <<s, c>>
    BY <2>1, TaskPairs
  <2>3. Kept(i)
    BY DEF CallerInv
  <2>4. QED
    BY <2>2, <2>3 DEF Kept, TaskInv
<1>2. ~Build!Rejected(c) => Loaded(c) = Build!Contributors(c)
  BY <1>1 DEF Build!Rejected, Loaded, Build!Contributors
<1>3. QED
  BY <1>1, <1>2 DEF Build!Answered, Build!Rejected, Loaded, Merged, Build!Reference

LEMMA OrderFacts ==
  /\ Len(ChunkOrder) \in Nat
  /\ \A i \in 1..Len(ChunkOrder) : ChunkOrder[i] \in Chunks
  /\ \A i, j \in 1..Len(ChunkOrder) : ChunkOrder[i] = ChunkOrder[j] => i = j
  /\ \A c \in Chunks : \E i \in 1..Len(ChunkOrder) : ChunkOrder[i] = c
BY PlanAssumption DEF IsInjective, ToSet

LEMMA CanvasNext ==
  ASSUME PrefetchInv, [Next]_vars
  PROVE  CanvasInv'
<1> USE DEF PrefetchInv
<1>1. CASE caller' \in Fetching
  <2>1. caller \in Fetching /\ canvas' = canvas
    BY <1>1 DEF Next, Worker, CallerStep, StartFetch, FetchReturns, FetchRaises, Consume, ConsumeRaises,
       CancelQueued, ClosePool, ComposeNext, ReturnComposite, Finished, vars, Fetching, Over, PrefetchType
  <2>2. QED
    BY <1>1, <2>1 DEF CanvasInv, Fetching
<1>2. CASE ClosePool
  <2>1. caller \in Fetching /\ canvas' = canvas /\ at' = 0
    BY <1>2 DEF ClosePool, Fetching
  <2>2. QED
    BY <2>1, OrderFacts DEF CanvasInv, Fetching
<1>3. CASE ComposeNext /\ caller' = "composing"
  <2>1. /\ caller = "composing" /\ at + 1 \in 1..Len(ChunkOrder) /\ at \in Nat
        /\ ~\E s \in Loaded(ChunkOrder[at + 1]) : answer[<<s, ChunkOrder[at + 1]>>] = "bad"
        /\ canvas' = [canvas EXCEPT ![ChunkOrder[at + 1]] = Merged(ChunkOrder[at + 1])]
        /\ at' = at + 1 /\ UNCHANGED answer
    <3>1. caller = "composing" /\ at < Len(ChunkOrder) /\ at \in Nat /\ UNCHANGED answer
      BY <1>3 DEF ComposeNext, PrefetchType
    <3>2. at + 1 \in 1..Len(ChunkOrder)
      BY <3>1, OrderFacts
    <3>3. caller' # "raised"
      BY <1>3
    <3>4. QED
      BY <1>3, <3>1, <3>2, <3>3, Zenon DEF ComposeNext
  <2> DEFINE c == ChunkOrder[at + 1]
  <2>2. c \in Chunks /\ ~Build!Rejected(c) /\ Merged(c) = Build!Reference(c)
    BY <2>1, OrderFacts, LoadedAll
  <2>3. \A d : Build!Rejected(d)' = Build!Rejected(d) /\ Build!Reference(d)' = Build!Reference(d)
    BY <2>1 DEF Build!Rejected, Build!Reference, Build!Contributors
  <2>4. canvas'[c] = Build!Reference(c)
    BY <2>1, <2>2 DEF PrefetchType
  <2>5. \A i \in 1..Len(ChunkOrder) : i # at + 1 =>
          ChunkOrder[i] # c /\ canvas'[ChunkOrder[i]] = canvas[ChunkOrder[i]]
    BY <2>1, OrderFacts DEF PrefetchType
  <2> HIDE DEF c
  <2>6. ASSUME NEW i \in 1..Len(ChunkOrder)
        PROVE  IF i <= at + 1
               THEN ~Build!Rejected(ChunkOrder[i]) /\ canvas'[ChunkOrder[i]] = Build!Reference(ChunkOrder[i])
               ELSE canvas'[ChunkOrder[i]] = <<>>
    <3>1. CASE i = at + 1
      BY <2>2, <2>4, <3>1 DEF c
    <3>2. CASE i # at + 1
      <4>1. i <= at <=> i <= at + 1
        BY <2>1, <3>2, OrderFacts
      <4>2. IF i <= at
            THEN ~Build!Rejected(ChunkOrder[i]) /\ canvas[ChunkOrder[i]] = Build!Reference(ChunkOrder[i])
            ELSE canvas[ChunkOrder[i]] = <<>>
        BY <2>1 DEF CanvasInv
      <4>3. QED
        BY <2>5, <3>2, <4>1, <4>2
    <3>3. QED
      BY <3>1, <3>2
  <2>7. at' <= Len(ChunkOrder)
    BY <2>1, OrderFacts
  <2>8. QED
    BY <1>3, <2>1, <2>3, <2>6, <2>7 DEF CanvasInv, Fetching
<1>4. CASE UNCHANGED vars
  BY <1>4 DEF vars, CanvasInv, Build!Rejected, Build!Reference, Build!Contributors
<1>5. CASE caller' \in Over
  BY <1>5 DEF CanvasInv, Over, Fetching
<1>6. QED
  <2>1. caller' \in Fetching \cup Over \cup {"composing"}
    BY TypeNext DEF PrefetchType
  <2>2. CASE caller' = "composing"
    <3>1. ~\E i \in TaskIds : Worker(i)
      <4>1. ASSUME NEW i \in TaskIds, Worker(i) PROVE caller' \in Fetching
        BY <4>1, WorkerEarly DEF Worker, StartFetch, FetchReturns, FetchRaises
      <4>2. QED
        BY <2>2, <4>1 DEF Fetching
    <3>2. ~(Consume \/ ConsumeRaises \/ CancelQueued \/ ReturnComposite)
      BY <2>2 DEF Consume, ConsumeRaises, CancelQueued, ReturnComposite
    <3>3. QED
      BY <1>2, <1>3, <1>4, <2>2, <3>1, <3>2 DEF Next, CallerStep, Finished
  <2>3. QED
    BY <1>1, <1>5, <2>1, <2>2

LEMMA PrefetchNext ==
  ASSUME PrefetchInv, [Next]_vars
  PROVE  PrefetchInv'
BY TypeNext, TaskNext, CallerNext, CanvasNext DEF PrefetchInv

THEOREM PrefetchCorrect == SafeSpec => []PrefetchInv
BY PrefetchInit, PrefetchNext, PTL DEF SafeSpec

(* However the fetches ended, no worker runs or takes up one after the     *)
(* build has returned or raised (provider.py:406-440).                     *)
THEOREM QuietAtTheEnd == SafeSpec => []QuietWhenOver
<1>1. PrefetchInv => QuietWhenOver
  BY DEF PrefetchInv, CallerInv, PoolQuiet, QuietWhenOver, Over
<1>2. QED
  BY <1>1, PrefetchCorrect, PTL

-----------------------------------------------------------------------------
(* The refinement.                                                         *)
Verdict == IF caller \in Over THEN caller ELSE "building"

LEMMA InitImplements == Init => Build!Init
BY DEF Init, Build!Init, Build!Chunks, Chunks, Over

(* A fetch that ends answers its pair, which was pending.                  *)
LEMMA FetchImplements ==
  ASSUME PrefetchInv, PrefetchInv', NEW i \in TaskIds, FetchReturns(i) \/ FetchRaises(i)
  PROVE  Build!Answer
<1>1. caller \in Fetching /\ UNCHANGED <<caller, canvas>>
  BY WorkerEarly DEF PrefetchInv, Worker, FetchReturns, FetchRaises
<1>2. answer[Tasks[i]] = "pending" /\ Tasks[i] \in Build!Pairs
  BY TaskPairs DEF PrefetchInv, TaskInv, FetchReturns, FetchRaises
<1>3. \A p \in Build!Pairs : p # Tasks[i] => answer'[p] = answer[p]
  BY DEF PrefetchInv, PrefetchType, FetchReturns, FetchRaises
<1>4. answer' \in [Build!Pairs -> Build!Answers \cup {"pending"}]
  BY DEF PrefetchInv, PrefetchType
<1>5. QED
  BY <1>1, <1>2, <1>3, <1>4 DEF Build!Answer, Fetching, Over

(* A chunk composed is painted as the reference, or raises as it should.   *)
LEMMA ComposeImplements ==
  ASSUME PrefetchInv, ComposeNext
  PROVE  Build!Next
<1> DEFINE c == ChunkOrder[at + 1]
<1>1. at + 1 \in 1..Len(ChunkOrder) /\ at \in Nat /\ ~(at + 1 <= at) /\ caller = "composing"
  BY OrderFacts DEF PrefetchInv, PrefetchType, ComposeNext
<1>2. c \in Build!Chunks /\ c \in Chunks
  BY <1>1, OrderFacts DEF Build!Chunks, Chunks
<1>3. Build!Answered(c) /\ (~Build!Rejected(c) => Merged(c) = Build!Reference(c))
      /\ (Build!Rejected(c) <=> \E s \in Loaded(c) : answer[<<s, c>>] = "bad")
  BY <1>1, <1>2, LoadedAll DEF PrefetchInv
<1>4. canvas[c] = <<>>
  BY <1>1 DEF PrefetchInv, CanvasInv
<1>5. CASE Build!Rejected(c)
  <2>1. caller' = "raised" /\ UNCHANGED <<answer, canvas>>
    BY <1>3, <1>5 DEF ComposeNext
  <2>2. QED
    BY <1>1, <1>2, <1>3, <1>5, <2>1 DEF Build!Next, Build!Raise
<1>6. CASE ~Build!Rejected(c)
  <2>1. canvas' = [canvas EXCEPT ![c] = Build!Reference(c)] /\ UNCHANGED <<answer, caller>>
    BY <1>3, <1>6 DEF ComposeNext
  <2>2. Build!Paint(c)
    BY <1>1, <1>3, <1>4, <1>6, <2>1 DEF Build!Paint
  <2>3. QED
    BY <1>2, <2>2 DEF Build!Next
<1>7. QED
  BY <1>5, <1>6

LEMMA ReturnImplements ==
  ASSUME PrefetchInv, ReturnComposite
  PROVE  Build!Return
<1>1. caller = "composing" /\ at = Len(ChunkOrder) /\ caller' = "returned" /\ UNCHANGED <<answer, canvas>>
  BY DEF ReturnComposite
<1>2. ASSUME NEW c \in Build!Chunks
      PROVE  Build!Answered(c) /\ ~Build!Rejected(c) /\ canvas[c] = Build!Reference(c)
  <2>1. c \in Chunks
    BY DEF Build!Chunks, Chunks
  <2>2. PICK i \in 1..Len(ChunkOrder) : ChunkOrder[i] = c
    BY <2>1, OrderFacts
  <2>3. i <= at
    BY <1>1, OrderFacts
  <2>4. ~Build!Rejected(c) /\ canvas[c] = Build!Reference(c)
    BY <1>1, <2>2, <2>3 DEF PrefetchInv, CanvasInv
  <2>5. QED
    BY <1>1, <2>1, <2>4, LoadedAll DEF PrefetchInv
<1>3. QED
  BY <1>1, <1>2 DEF Build!Return

(* The pool closes on an error because a fetch failed.                     *)
LEMMA CloseImplements ==
  ASSUME PrefetchInv, ClosePool
  PROVE  Build!Raise \/ UNCHANGED Build!abstractVars
<1>1. caller \in Fetching /\ UNCHANGED <<answer, canvas>> /\ caller' = IF error THEN "raised" ELSE "composing"
  BY DEF ClosePool, Fetching
<1>2. CASE error
  <2>1. PICK i \in TaskIds : task[i] = "raised"
    BY <1>2 DEF PrefetchInv, CallerInv
  <2>2. Tasks[i] \in Build!Pairs /\ answer[Tasks[i]] = "failed"
    BY <2>1, TaskPairs DEF PrefetchInv, TaskInv
  <2>3. QED
    BY <1>1, <1>2, <2>2 DEF Build!Raise, Fetching
<1>3. CASE ~error
  BY <1>1, <1>3 DEF Build!abstractVars, Fetching
<1>4. QED
  BY <1>2, <1>3

LEMMA StepImplements ==
  ASSUME PrefetchInv, PrefetchInv', [Next]_vars
  PROVE  [Build!Next]_(Build!abstractVars)
<1>1. CASE \E i \in TaskIds : FetchReturns(i) \/ FetchRaises(i)
  BY <1>1, FetchImplements DEF Build!Next
<1>2. CASE ComposeNext
  BY <1>2, ComposeImplements
<1>3. CASE ReturnComposite
  BY <1>3, ReturnImplements DEF Build!Next
<1>4. CASE ClosePool
  BY <1>4, CloseImplements DEF Build!Next
<1>5. CASE UNCHANGED <<answer, canvas, caller>>
  BY <1>5 DEF Build!abstractVars
<1>6. CASE ConsumeRaises \/ CancelQueued
  BY <1>6 DEF Build!abstractVars, ConsumeRaises, CancelQueued
<1>7. QED
  BY <1>1, <1>2, <1>3, <1>4, <1>5, <1>6 DEF Next, Worker, CallerStep, StartFetch, Consume, Finished, vars

(* The prefetching driver, too, is a correct chunked build: for every plan,*)
(* order and number of workers, its windows and outcome are a behaviour of *)
(* the sequential compose (provider.py:406-440, composite.py:178-272).     *)
THEOREM PrefetchImplements == SafeSpec => ImplementsBuild
<1>1. PrefetchInv /\ PrefetchInv' /\ [Next]_vars => [Build!Next]_(Build!abstractVars)
  BY StepImplements
<1>2. QED
  BY <1>1, InitImplements, PrefetchCorrect, PTL DEF SafeSpec, ImplementsBuild, Build!Spec

-----------------------------------------------------------------------------
(* The pixel loops.                                                        *)
QualityOf(i) == PythonQuality(kind, seen[i].code)
TotalOf(i) == QualityOf(i) * QualityWeight
                + (IF seen[i].sample = Absent THEN 0 ELSE seen[i].sample) + (i - 1)
ScoreOf(i) == Score(kind, seen[i].code)

PixelType ==
  /\ kind \in Kinds /\ seen \in Seq(Pixels)
  /\ \A i \in Seen : seen[i].code \in Codes[kind]
  /\ Len(seen) <= MaxObservations
  /\ DOMAIN python = DOMAIN Empty /\ DOMAIN rust = DOMAIN NoBest

(* The score kept is the least total of the valid observations, and all    *)
(* that is kept is of the observation that has it.                         *)
PythonInv ==
  /\ python.count = Cardinality(PythonValid)
  /\ PythonValid = {} => python.score = Absent /\ python.selected = -1 /\ python.quality = Nodata
  /\ PythonValid # {} =>
       \E w \in PythonValid :
         /\ python.selected = w - 1 /\ python.score = TotalOf(w)
         /\ python.quality = QualityOf(w) /\ python.data = ZeroAsNodata(seen[w].dn)
         /\ \A i \in PythonValid : TotalOf(w) <= TotalOf(i)

(* What is kept is of the first observation of the least score.            *)
RustInv ==
  /\ rust.count = Cardinality(RustValid)
  /\ RustValid = {} => rust.selected = -1 /\ rust.quality = Nodata
  /\ RustValid # {} =>
       \E w \in RustValid :
         /\ rust.selected = w - 1 /\ rust.quality = ScoreOf(w) /\ rust.data = Dn(seen[w])
         /\ \A i \in RustValid : ScoreOf(w) <= ScoreOf(i) /\ (i < w => ScoreOf(w) < ScoreOf(i))

PixelInv == /\ PixelType
            /\ kind \in {"scl", "cs"} => PythonInv
            /\ kind # "cs" => RustInv

-----------------------------------------------------------------------------
(* Quality numbers.                                                        *)
LEMMA QualityNumbers ==
  ASSUME kind \in Kinds, NEW code \in Int
  PROVE  /\ kind \in {"scl", "cs"} => PythonQuality(kind, code) \in Nat
         /\ kind # "cs" => Score(kind, code) \in {0, 1, 2, Nodata}
<1>1. SclQuality(code) \in {0, 1, 2, Nodata}
  BY DEF SclQuality, Nodata
<1>2. ScoreQuality(code) \in Nat
  <2>1. FullScore \in Nat
    BY DEF FullScore
  <2>2. QED
    BY <2>1 DEF ScoreQuality, Nodata
<1>3. FmaskScore(code) \in {0, 1, 2, Nodata}
  BY DEF FmaskScore
<1>4. MandatoryScore(code) \in {0, 1, 2, Nodata}
  BY DEF MandatoryScore
<1>5. kind \in {"scl", "cs"} => PythonQuality(kind, code) \in Nat
  BY <1>1, <1>2 DEF PythonQuality, Nodata
<1>6. kind # "cs" => Score(kind, code) \in {0, 1, 2, Nodata}
  BY <1>1, <1>3, <1>4, CodesAssumption DEF Score
<1>7. QED
  BY <1>5, <1>6

LEMMA QualityType ==
  ASSUME PixelType, NEW i \in Seen
  PROVE  /\ seen[i] \in Pixels
         /\ kind \in {"scl", "cs"} => QualityOf(i) \in Nat
         /\ kind # "cs" => ScoreOf(i) \in {0, 1, 2, Nodata}
<1>1. seen[i] \in Pixels /\ seen[i].code \in Int /\ kind \in Kinds
  BY CodesAssumption DEF PixelType, Seen
<1>2. QED
  BY <1>1, QualityNumbers DEF QualityOf, ScoreOf

LEMMA ScoreType ==
  ASSUME kind \in Kinds, kind \in {"scl", "cs"}, NEW o \in Pixels, o.code \in Codes[kind], NEW n \in Nat
  PROVE  ScorePixel(o, n) \in Nat
<1> DEFINE s == IF o.sample = Absent THEN 0 ELSE o.sample
           q == PythonQuality(kind, o.code)
<1>1. q \in Nat /\ QualityWeight \in Nat
  BY QualityNumbers, CodesAssumption, WeightAssumption
<1>2. s \in Nat
  BY WeightAssumption DEF Pixels
<1>3. ScorePixel(o, n) = q * QualityWeight + s + n
  BY DEF ScorePixel
<1> HIDE DEF s, q
<1>4. QED
  BY <1>1, <1>2, <1>3

LEMMA TotalType ==
  ASSUME PixelType, kind \in {"scl", "cs"}, NEW i \in Seen
  PROVE  /\ TotalOf(i) \in Nat
         /\ QualityOf(i) * QualityWeight <= TotalOf(i)
         /\ TotalOf(i) < (QualityOf(i) + 1) * QualityWeight
         /\ seen[i].sample = Absent => TotalOf(i) = QualityOf(i) * QualityWeight + (i - 1)
<1> DEFINE s == IF seen[i].sample = Absent THEN 0 ELSE seen[i].sample
           q == QualityOf(i)
           W == QualityWeight
<1>1. i \in Nat /\ 1 <= i /\ i <= MaxObservations /\ MaxObservations \in Nat
  BY MaxAssumption DEF PixelType, Seen
<1>2. q \in Nat /\ seen[i].sample \in Samples
  BY QualityType DEF Pixels
<1>3. s \in Nat /\ s + MaxObservations <= W /\ W \in Nat
  <2>1. s \in Samples \cup {0} /\ s # Absent /\ s \in Nat
    <3>1. CASE seen[i].sample = Absent
      BY <3>1, NaNAssumption
    <3>2. CASE seen[i].sample # Absent
      BY <3>2, <1>2, WeightAssumption
    <3>3. QED
      BY <3>1, <3>2
  <2>2. QED
    BY <2>1, WeightAssumption
<1>4. TotalOf(i) = q * W + s + (i - 1)
  BY DEF TotalOf
<1>5. q * W \in Nat /\ (q + 1) * W = q * W + W
  BY <1>2, <1>3
<1>6. seen[i].sample = Absent => s = 0
  OBVIOUS
<1> HIDE DEF s, q, W
<1>7. QED
  <2> DEFINE product == q * W
             next == (q + 1) * W
  <2>1. product \in Nat /\ next = product + W /\ TotalOf(i) = product + s + (i - 1)
    BY <1>4, <1>5
  <2> HIDE DEF product, next
  <2>2. TotalOf(i) \in Nat /\ product <= TotalOf(i) /\ TotalOf(i) < next
    BY <2>1, <1>1, <1>3
  <2>3. s = 0 => TotalOf(i) = product + (i - 1)
    BY <2>1, <1>1
  <2>4. QED
    BY <2>2, <2>3, <1>6 DEF product, next, q, W

(* Of equal qualities, one without a sample index does not follow later.   *)
LEMMA TotalAfter ==
  ASSUME PixelType, kind \in {"scl", "cs"}, NEW i \in Seen, NEW w \in Seen, i < w,
         QualityOf(w) = QualityOf(i), seen[i].sample = Absent, TotalOf(w) <= TotalOf(i)
  PROVE  FALSE
<1> DEFINE s == IF seen[w].sample = Absent THEN 0 ELSE seen[w].sample
           product == QualityOf(i) * QualityWeight
<1>1. TotalOf(i) = product + (i - 1) /\ TotalOf(w) = product + s + (w - 1)
  BY TotalType DEF TotalOf
<1>2. product \in Nat
  BY QualityType, WeightAssumption
<1>3. s \in Nat
  BY QualityType, WeightAssumption DEF Pixels
<1>4. i \in Nat /\ w \in Nat
  BY DEF Seen
<1> HIDE DEF s, product
<1>5. QED
  BY <1>1, <1>2, <1>3, <1>4

(* A smaller quality is a smaller total.                                   *)
LEMMA QualityDecides ==
  ASSUME PixelType, kind \in {"scl", "cs"}, NEW i \in Seen, NEW j \in Seen,
         TotalOf(i) <= TotalOf(j)
  PROVE  QualityOf(i) <= QualityOf(j)
<1>1. QualityOf(i) \in Nat /\ QualityOf(j) \in Nat /\ QualityWeight \in Nat
  BY QualityType, WeightAssumption
<1>2. /\ TotalOf(i) \in Nat /\ TotalOf(j) \in Nat
      /\ QualityOf(i) * QualityWeight <= TotalOf(i)
      /\ TotalOf(j) < (QualityOf(j) + 1) * QualityWeight
  BY TotalType
<1>3. QualityOf(i) * QualityWeight < (QualityOf(j) + 1) * QualityWeight
  BY <1>1, <1>2
<1>4. \A a, b, w \in Nat : b + 1 <= a => (b + 1) * w <= a * w
  OBVIOUS
<1>5. QED
  BY <1>1, <1>3, <1>4

-----------------------------------------------------------------------------
(* One observation more.                                                   *)
LEMMA SeenGrows ==
  ASSUME PixelType, NEW o \in Pixels, seen' = Append(seen, o), kind' = kind
  PROVE  LET n == Len(seen) + 1 IN
         /\ Len(seen) \in Nat /\ Seen' = Seen \cup {n} /\ n \notin Seen /\ seen'[n] = o
         /\ \A i \in Seen : seen'[i] = seen[i]
<1>1. Len(seen) \in Nat /\ Len(seen') = Len(seen) + 1
  BY DEF PixelType
<1>2. seen'[Len(seen) + 1] = o /\ \A i \in 1 .. Len(seen) : seen'[i] = seen[i]
  BY DEF PixelType
<1>3. 1 .. Len(seen) + 1 = (1 .. Len(seen)) \cup {Len(seen) + 1} /\ Len(seen) + 1 \notin 1 .. Len(seen)
  BY <1>1
<1>4. QED
  BY <1>1, <1>2, <1>3 DEF Seen

LEMMA NumbersStay ==
  ASSUME kind' = kind, NEW i, seen'[i] = seen[i]
  PROVE  QualityOf(i)' = QualityOf(i) /\ TotalOf(i)' = TotalOf(i) /\ ScoreOf(i)' = ScoreOf(i)
BY DEF QualityOf, TotalOf, ScoreOf

LEMMA PythonValidGrows ==
  ASSUME PixelType, NEW o \in Pixels, seen' = Append(seen, o), kind' = kind
  PROVE  LET n == Len(seen) + 1 IN
         PythonValid' = IF ValidPixel(o.dn, PythonQuality(kind, o.code))
                        THEN PythonValid \cup {n} ELSE PythonValid
<1> DEFINE n == Len(seen) + 1
           Valid(p) == ValidPixel(p.dn, PythonQuality(kind, p.code))
<1>1. Seen' = Seen \cup {n} /\ n \notin Seen /\ seen'[n] = o /\ \A i \in Seen : seen'[i] = seen[i]
  BY SeenGrows
<1>2. PythonValid = {i \in Seen : Valid(seen[i])}
  BY DEF PythonValid
<1>3. PythonValid' = {i \in Seen' : Valid(seen'[i])}
  BY DEF PythonValid, ValidPixel, ZeroAsNodata, PythonQuality
<1> HIDE DEF Valid, n
<1>4. PythonValid' = IF Valid(o) THEN PythonValid \cup {n} ELSE PythonValid
  BY <1>1, <1>2, <1>3
<1>5. QED
  BY <1>4 DEF Valid, n

LEMMA RustValidGrows ==
  ASSUME PixelType, NEW o \in Pixels, seen' = Append(seen, o), kind' = kind
  PROVE  LET n == Len(seen) + 1 IN
         RustValid' = IF Score(kind, o.code) # Nodata THEN RustValid \cup {n} ELSE RustValid
<1> DEFINE n == Len(seen) + 1
           Valid(p) == Score(kind, p.code) # Nodata
<1>1. Seen' = Seen \cup {n} /\ n \notin Seen /\ seen'[n] = o /\ \A i \in Seen : seen'[i] = seen[i]
  BY SeenGrows
<1>2. RustValid = {i \in Seen : Valid(seen[i])}
  BY DEF RustValid
<1>3. RustValid' = {i \in Seen' : Valid(seen'[i])}
  BY DEF RustValid
<1> HIDE DEF Valid, n
<1>4. RustValid' = IF Valid(o) THEN RustValid \cup {n} ELSE RustValid
  BY <1>1, <1>2, <1>3
<1>5. QED
  BY <1>4 DEF Valid, n

(* Of the numbers of observations, a valid set is finite.                  *)
LEMMA CountsOne ==
  ASSUME PixelType, NEW V, V \subseteq Seen
  PROVE  /\ Cardinality(V) \in Nat
         /\ Cardinality(V \cup {Len(seen) + 1}) = Cardinality(V) + 1
<1>1. Len(seen) \in Nat
  BY DEF PixelType
<1>2. IsFiniteSet(Seen)
  <2>1. \A m \in Nat : IsFiniteSet(1 .. m)
    BY FS_Interval
  <2>2. QED
    BY <1>1, <2>1 DEF Seen
<1>3. IsFiniteSet(V)
  BY <1>2, FS_Subset
<1>4. Len(seen) + 1 \notin V
  BY <1>1 DEF Seen
<1>5. QED
  BY <1>3, <1>4, FS_CardinalityType, FS_AddElement

LEMMA PixelInvInit == PixelInit => PixelInv
<1> SUFFICES ASSUME PixelInit PROVE PixelInv
  OBVIOUS
<1>1. Seen = {} /\ PythonValid = {} /\ RustValid = {}
  BY DEF PixelInit, Seen, PythonValid, RustValid
<1>2. Cardinality({}) = 0
  BY FS_EmptySet
<1>3. PixelType
  BY <1>1, MaxAssumption DEF PixelInit, PixelType
<1>4. PythonInv
  BY <1>1, <1>2 DEF PixelInit, PythonInv, Empty
<1>5. RustInv
  BY <1>1, <1>2 DEF PixelInit, RustInv, NoBest
<1>6. QED
  BY <1>3, <1>4, <1>5 DEF PixelInv

LEMMA TypeStep ==
  ASSUME PixelType, NEW o \in Pixels, Observe(o)
  PROVE  PixelType'
<1>1. kind' = kind /\ seen' = Append(seen, o) /\ o.code \in Codes[kind] /\ Len(seen) < MaxObservations
  BY DEF Observe
<1>2. /\ Len(seen) \in Nat /\ Seen' = Seen \cup {Len(seen) + 1} /\ seen'[Len(seen) + 1] = o
      /\ \A i \in Seen : seen'[i] = seen[i]
  BY <1>1, SeenGrows
<1>3. seen' \in Seq(Pixels) /\ Len(seen') <= MaxObservations
  BY <1>1, <1>2, MaxAssumption DEF PixelType
<1>4. \A i \in Seen' : seen'[i].code \in Codes[kind']
  BY <1>1, <1>2 DEF PixelType
<1>5. DOMAIN python' = DOMAIN Empty
  BY DEF PixelType, Observe, PythonStep, Empty
<1>6. DOMAIN rust' = DOMAIN NoBest
  BY DEF PixelType, Observe, RustStep, NoBest
<1>7. QED
  BY <1>1, <1>3, <1>4, <1>5, <1>6 DEF PixelType

(* Python: the best observation stays, or the new one beats it.            *)
LEMMA PythonStepKeeps ==
  ASSUME PixelType, PixelType', PythonInv, kind \in {"scl", "cs"}, NEW o \in Pixels, Observe(o)
  PROVE  PythonInv'
<1>0. PICK n \in Nat : n = Len(seen) + 1
  BY DEF PixelType
<1>1. kind' = kind /\ seen' = Append(seen, o) /\ python' = PythonStep(o)
  BY DEF Observe
<1>2. /\ Len(seen) \in Nat /\ Seen' = Seen \cup {n} /\ n \notin Seen /\ seen'[n] = o
      /\ \A i \in Seen : seen'[i] = seen[i]
  BY <1>0, <1>1, SeenGrows
<1>3. \A i \in Seen : QualityOf(i)' = QualityOf(i) /\ TotalOf(i)' = TotalOf(i)
  BY <1>1, <1>2, NumbersStay
<1>4. /\ QualityOf(n)' = PythonQuality(kind, o.code)
      /\ TotalOf(n)' = ScorePixel(o, Len(seen))
  BY <1>0, <1>1, <1>2 DEF QualityOf, TotalOf, ScorePixel
<1>5. PythonValid \subseteq Seen /\ PythonValid' \subseteq Seen'
  BY DEF PythonValid
<1>6. ScorePixel(o, Len(seen)) \in Nat /\ \A i \in Seen : TotalOf(i) \in Nat
  BY <1>2, ScoreType, TotalType DEF PixelType, Observe
<1>7. CASE ~ValidPixel(o.dn, PythonQuality(kind, o.code))
  <2>1. PythonValid' = PythonValid /\ python' = python
    BY <1>1, <1>7, PythonValidGrows DEF PythonStep
  <2>2. \A i \in PythonValid : /\ TotalOf(i)' = TotalOf(i) /\ QualityOf(i)' = QualityOf(i)
                               /\ seen'[i] = seen[i]
    BY <1>2, <1>3, <1>5
  <2>3. QED
    BY <2>1, <2>2 DEF PythonInv
<1>8. CASE ValidPixel(o.dn, PythonQuality(kind, o.code))
  <2>1. PythonValid' = PythonValid \cup {n}
    BY <1>0, <1>1, <1>8, PythonValidGrows
  <2>2. Cardinality(PythonValid') = python.count + 1 /\ n \in PythonValid'
    BY <1>0, <1>5, <2>1, CountsOne DEF PythonInv
  <2>3. \A i \in PythonValid : /\ TotalOf(i)' = TotalOf(i) /\ QualityOf(i)' = QualityOf(i)
                               /\ seen'[i] = seen[i] /\ TotalOf(i) \in Nat
    BY <1>2, <1>3, <1>5, <1>6
  <2>4. CASE Replaces(o, Len(seen))
    <3>1. /\ python'.count = python.count + 1 /\ python'.selected = n - 1
          /\ python'.score = TotalOf(n)' /\ python'.quality = QualityOf(n)'
          /\ python'.data = ZeroAsNodata(seen'[n].dn)
      BY <1>0, <1>1, <1>2, <1>4, <1>8, <2>4 DEF PythonStep
    <3>2. \A i \in PythonValid' : TotalOf(n)' <= TotalOf(i)'
      <4> SUFFICES ASSUME NEW i \in PythonValid PROVE TotalOf(n)' <= TotalOf(i)'
        BY <1>4, <1>6, <2>1
      <4>1. PICK w \in PythonValid : python.score = TotalOf(w) /\ TotalOf(w) <= TotalOf(i)
        BY DEF PythonInv
      <4>2. TotalOf(n)' < TotalOf(w)
        BY <2>3, <4>1, <1>4, <2>4, NaNAssumption DEF Replaces
      <4>3. QED
        BY <2>3, <4>1, <4>2, <1>4, <1>6
    <3>3. QED
      BY <2>2, <3>1, <3>2 DEF PythonInv
  <2>5. CASE ~Replaces(o, Len(seen))
    <3>1. /\ python'.count = python.count + 1
          /\ \A field \in {"selected", "score", "quality", "data"} : python'[field] = python[field]
      BY <1>1, <1>8, <2>5 DEF PythonStep, PixelType, Empty
    <3>2. PythonValid # {} /\ python.score <= TotalOf(n)'
      BY <1>4, <1>6, <2>3, <2>5 DEF Replaces, PythonInv
    <3>3. PICK w \in PythonValid :
            /\ python.selected = w - 1 /\ python.score = TotalOf(w)
            /\ python.quality = QualityOf(w) /\ python.data = ZeroAsNodata(seen[w].dn)
            /\ \A i \in PythonValid : TotalOf(w) <= TotalOf(i)
      BY <3>2 DEF PythonInv
    <3>4. /\ w \in PythonValid' /\ python'.selected = w - 1 /\ python'.score = TotalOf(w)'
          /\ python'.quality = QualityOf(w)' /\ python'.data = ZeroAsNodata(seen'[w].dn)
      BY <2>1, <2>3, <3>1, <3>3
    <3>5. \A i \in PythonValid' : TotalOf(w)' <= TotalOf(i)'
      BY <2>1, <2>3, <3>2, <3>3
    <3>6. QED
      BY <2>2, <3>1, <3>4, <3>5 DEF PythonInv
  <2>6. QED
    BY <2>4, <2>5
<1>9. QED
  BY <1>7, <1>8

(* Rust: the same, by the score alone.                                     *)
LEMMA RustStepKeeps ==
  ASSUME PixelType, RustInv, kind # "cs", NEW o \in Pixels, Observe(o)
  PROVE  RustInv'
<1>0. PICK n \in Nat : n = Len(seen) + 1
  BY DEF PixelType
<1>1. kind' = kind /\ seen' = Append(seen, o) /\ rust' = RustStep(o)
  BY DEF Observe
<1>2. /\ Len(seen) \in Nat /\ Seen' = Seen \cup {n} /\ n \notin Seen /\ seen'[n] = o
      /\ \A i \in Seen : seen'[i] = seen[i] /\ i \in Nat /\ i < n
  BY <1>0, <1>1, SeenGrows DEF Seen
<1>3. \A i \in Seen : ScoreOf(i)' = ScoreOf(i) /\ ScoreOf(i) \in {0, 1, 2, Nodata}
  BY <1>1, <1>2, NumbersStay, QualityType
<1>4. ScoreOf(n)' = Score(kind, o.code) /\ Score(kind, o.code) \in {0, 1, 2, Nodata}
  BY <1>1, <1>2, QualityNumbers, CodesAssumption DEF ScoreOf, PixelType, Observe
<1>5. RustValid \subseteq Seen
  BY DEF RustValid
<1>6. \A i \in RustValid : /\ ScoreOf(i)' = ScoreOf(i) /\ ScoreOf(i) \in {0, 1, 2} /\ i \in Nat /\ i < n
                           /\ seen'[i] = seen[i]
  BY <1>2, <1>3, <1>5 DEF RustValid, ScoreOf
<1>7. CASE Score(kind, o.code) = Nodata
  <2>1. RustValid' = RustValid /\ rust' = rust
    BY <1>1, <1>7, RustValidGrows DEF RustStep
  <2>2. QED
    BY <2>1, <1>6 DEF RustInv
<1>8. CASE Score(kind, o.code) # Nodata
  <2>1. RustValid' = RustValid \cup {n}
    BY <1>0, <1>1, <1>8, RustValidGrows
  <2>2. Cardinality(RustValid') = rust.count + 1 /\ n \in RustValid'
    BY <1>0, <1>5, <2>1, CountsOne DEF RustInv
  <2>3. ScoreOf(n)' \in {0, 1, 2}
    BY <1>4, <1>8
  <2>4. CASE Better(Score(kind, o.code))
    <3>1. /\ rust'.count = rust.count + 1 /\ rust'.selected = n - 1
          /\ rust'.quality = ScoreOf(n)' /\ rust'.data = Dn(seen'[n])
      BY <1>0, <1>1, <1>2, <1>4, <1>8, <2>4 DEF RustStep, PixelType, NoBest
    <3>2. \A i \in RustValid : ScoreOf(n)' < ScoreOf(i)'
      <4> SUFFICES ASSUME NEW i \in RustValid PROVE ScoreOf(n)' < ScoreOf(i)'
        OBVIOUS
      <4>1. PICK w \in RustValid : rust.quality = ScoreOf(w) /\ ScoreOf(w) <= ScoreOf(i)
        BY DEF RustInv
      <4>2. ScoreOf(n)' < ScoreOf(w)
        BY <4>1, <1>4, <2>4 DEF Better
      <4>3. QED
        BY <1>6, <2>3, <4>1, <4>2
    <3>3. \A i \in RustValid' : ScoreOf(n)' <= ScoreOf(i)' /\ (i < n => ScoreOf(n)' < ScoreOf(i)')
      BY <1>6, <2>1, <2>3, <3>2
    <3>4. QED
      BY <2>2, <3>1, <3>3 DEF RustInv
  <2>5. CASE ~Better(Score(kind, o.code))
    <3>1. /\ rust'.count = rust.count + 1 /\ rust'.selected = rust.selected
          /\ rust'.quality = rust.quality /\ rust'.data = rust.data
      BY <1>1, <1>8, <2>5 DEF RustStep, PixelType, NoBest
    <3>2. RustValid # {} /\ rust.quality <= ScoreOf(n)'
      <4>1. CASE RustValid = {}
        BY <4>1, <1>4, <2>3, <2>5 DEF Better, RustInv, Nodata
      <4>2. CASE RustValid # {}
        BY <4>2, <1>4, <1>6, <2>3, <2>5 DEF Better, RustInv
      <4>3. QED
        BY <4>1, <4>2
    <3>3. PICK w \in RustValid :
            /\ rust.selected = w - 1 /\ rust.quality = ScoreOf(w) /\ rust.data = Dn(seen[w])
            /\ \A i \in RustValid : ScoreOf(w) <= ScoreOf(i) /\ (i < w => ScoreOf(w) < ScoreOf(i))
      BY <3>2 DEF RustInv
    <3>4. /\ w \in RustValid' /\ rust'.selected = w - 1 /\ rust'.quality = ScoreOf(w)'
          /\ rust'.data = Dn(seen'[w])
      BY <1>6, <2>1, <3>1, <3>3
    <3>5. \A i \in RustValid' : ScoreOf(w)' <= ScoreOf(i)' /\ (i < w => ScoreOf(w)' < ScoreOf(i)')
      <4>1. w < n /\ w \in Nat /\ ScoreOf(w)' <= ScoreOf(n)'
        BY <1>6, <3>2, <3>3
      <4>2. QED
        BY <1>6, <2>1, <3>3, <4>1
    <3>6. QED
      BY <2>2, <3>1, <3>4, <3>5 DEF RustInv
  <2>6. QED
    BY <2>4, <2>5
<1>9. QED
  BY <1>7, <1>8

(* Leaving a loop's state alone keeps its invariant: the loop of the other *)
(* program is then the only one that runs.                                 *)
LEMMA PixelInvNext ==
  ASSUME PixelInv, [PixelNext]_pixelVars
  PROVE  PixelInv'
<1>1. CASE UNCHANGED pixelVars
  <2>1. kind' = kind /\ seen' = seen /\ python' = python /\ rust' = rust
    BY <1>1 DEF pixelVars
  <2>2. Seen' = Seen /\ PythonValid' = PythonValid /\ RustValid' = RustValid
    BY <2>1 DEF Seen, PythonValid, RustValid, ValidPixel, PythonQuality
  <2>3. \A i : QualityOf(i)' = QualityOf(i) /\ TotalOf(i)' = TotalOf(i) /\ ScoreOf(i)' = ScoreOf(i)
    BY <2>1 DEF QualityOf, TotalOf, ScoreOf
  <2>4. PixelType' = PixelType
    BY <2>1, <2>2 DEF PixelType
  <2>5. PythonInv' = PythonInv
    BY <2>1, <2>2, <2>3 DEF PythonInv
  <2>6. RustInv' = RustInv
    BY <2>1, <2>2, <2>3 DEF RustInv
  <2>7. QED
    BY <2>1, <2>4, <2>5, <2>6 DEF PixelInv
<1>2. ASSUME NEW o \in Pixels, Observe(o)
      PROVE  PixelInv'
  <2>1. PixelType' /\ kind' = kind
    BY <1>2, TypeStep DEF PixelInv, Observe
  <2>2. kind \in {"scl", "cs"} => PythonInv'
    BY <1>2, <2>1, PythonStepKeeps DEF PixelInv
  <2>3. kind # "cs" => RustInv'
    BY <1>2, RustStepKeeps DEF PixelInv
  <2>4. QED
    BY <2>1, <2>2, <2>3 DEF PixelInv
<1>3. QED
  BY <1>1, <1>2 DEF PixelNext

LEMMA PixelHolds == PixelSpec => []PixelInv
<1>1. PixelInv /\ [PixelNext]_pixelVars => PixelInv'
  BY PixelInvNext
<1>2. QED
  BY <1>1, PixelInvInit, PTL DEF PixelSpec

-----------------------------------------------------------------------------
(* For any number of observations, what a pixel is given is its best valid *)
(* one: the least quality number, and the first of equals where no sample  *)
(* tells them apart (composite.py:62-91, pipeline.rs:1051-1084). What is   *)
(* claimed is the index, quality, bands and count: the sample index and    *)
(* the uncertainty may be an older observation's (composite.py:79-85).     *)
THEOREM BestIsKept == PixelSpec => []BestPixel
<1>1. ASSUME PixelInv, kind \in {"scl", "cs"}
      PROVE  PythonBest
  <2>1. CASE PythonValid = {}
    BY <1>1, <2>1 DEF PixelInv, PythonInv, PythonBest
  <2>2. CASE PythonValid # {}
    <3>1. PICK w \in PythonValid :
            /\ python.selected = w - 1 /\ python.quality = QualityOf(w)
            /\ python.data = ZeroAsNodata(seen[w].dn)
            /\ \A i \in PythonValid : TotalOf(w) <= TotalOf(i)
      BY <1>1, <2>2 DEF PixelInv, PythonInv
    <3>2. w \in Seen /\ w \in Nat /\ python.selected + 1 = w /\ PixelType
      BY <1>1, <3>1 DEF PythonValid, Seen, PixelInv
    <3>3. ASSUME NEW i \in PythonValid
          PROVE  /\ QualityOf(w) <= QualityOf(i)
                 /\ i >= w \/ QualityOf(w) < QualityOf(i) \/ seen[i].sample # Absent
      <4>1. i \in Seen /\ i \in Nat
        BY DEF PythonValid, Seen
      <4>2. QualityOf(w) <= QualityOf(i) /\ QualityOf(w) \in Nat /\ QualityOf(i) \in Nat
        BY <1>1, <3>1, <3>2, <4>1, QualityDecides, QualityType
      <4>3. ASSUME i < w, QualityOf(w) = QualityOf(i), seen[i].sample = Absent
            PROVE  FALSE
        BY <1>1, <3>1, <3>2, <4>1, <4>3, TotalAfter
      <4>4. QED
        BY <3>2, <4>1, <4>2, <4>3
    <3>4. QED
      BY <1>1, <2>2, <3>1, <3>2, <3>3 DEF PixelInv, PythonInv, PythonBest, QualityOf
  <2>3. QED
    BY <2>1, <2>2
<1>2. ASSUME PixelInv, kind # "cs"
      PROVE  RustBest
  <2>1. CASE RustValid = {}
    BY <1>2, <2>1 DEF PixelInv, RustInv, RustBest
  <2>2. CASE RustValid # {}
    <3>1. PICK w \in RustValid :
            /\ rust.selected = w - 1 /\ rust.quality = ScoreOf(w) /\ rust.data = Dn(seen[w])
            /\ \A i \in RustValid : ScoreOf(w) <= ScoreOf(i) /\ (i < w => ScoreOf(w) < ScoreOf(i))
      BY <1>2, <2>2 DEF PixelInv, RustInv
    <3>2. /\ rust.selected + 1 = w /\ w \in Nat
          /\ \A i \in RustValid : i \in Nat
      BY <3>1 DEF RustValid, Seen
    <3>3. QED
      BY <1>2, <2>2, <3>1, <3>2 DEF PixelInv, RustInv, RustBest, ScoreOf
  <2>3. QED
    BY <2>1, <2>2
<1>3. PixelInv => BestPixel
  BY <1>1, <1>2 DEF BestPixel, PythonBest, RustBest
<1>4. QED
  BY <1>3, PixelHolds, PTL

(* Where every band has data and no source gives a sample index, Python    *)
(* and Rust compose the same pixel from the same scenes, in whatever order *)
(* and number they come.                                                   *)
THEOREM ImplementationsAgree == PixelSpec => []SamePixel
<1>1. ASSUME PixelInv, kind = "scl",
             \A i \in Seen : seen[i].sample = Absent /\ \A b \in Bands : seen[i].dn[b] \notin {0, Outside}
      PROVE  /\ rust.selected = python.selected
             /\ rust.quality = python.quality
             /\ rust.count = python.count
             /\ python.selected # -1 => rust.data = python.data
  <2>1. PixelType /\ PythonInv /\ RustInv
    BY <1>1 DEF PixelInv
  <2>2. \A i \in Seen : QualityOf(i) = ScoreOf(i) /\ ScoreOf(i) \in {0, 1, 2, Nodata}
    BY <1>1, <2>1, QualityType DEF QualityOf, ScoreOf, PythonQuality, Score
  <2>3. \A i \in Seen : seen[i].dn \in Reflectances
    BY <2>1, QualityType DEF Pixels
  <2>4. \A i \in Seen : ZeroAsNodata(seen[i].dn) = Dn(seen[i])
    BY <1>1 DEF ZeroAsNodata, Dn
  <2>5. \A i \in Seen, b \in Bands : ZeroAsNodata(seen[i].dn)[b] # NaN
    BY <1>1, <2>3, NaNAssumption DEF ZeroAsNodata
  <2>6. \A i \in Seen : ScoreOf(i) # Nodata <=> QualityOf(i) <= MaxUsable
    BY <2>2 DEF Nodata, MaxUsable
  <2>7. PythonValid = RustValid
    BY <2>5, <2>6 DEF PythonValid, RustValid, ValidPixel, QualityOf, ScoreOf
  <2>8. CASE PythonValid = {}
    BY <2>1, <2>7, <2>8 DEF PythonInv, RustInv
  <2>9. CASE PythonValid # {}
    <3>1. PICK w \in PythonValid :
            /\ python.selected = w - 1 /\ python.quality = QualityOf(w)
            /\ python.data = ZeroAsNodata(seen[w].dn)
            /\ \A i \in PythonValid : TotalOf(w) <= TotalOf(i)
      BY <2>1, <2>9 DEF PythonInv
    <3>2. PICK v \in RustValid :
            /\ rust.selected = v - 1 /\ rust.quality = ScoreOf(v) /\ rust.data = Dn(seen[v])
            /\ \A i \in RustValid : ScoreOf(v) <= ScoreOf(i) /\ (i < v => ScoreOf(v) < ScoreOf(i))
      BY <2>1, <2>7, <2>9 DEF RustInv
    <3>3. w \in Seen /\ v \in Seen /\ w \in Nat /\ v \in Nat /\ w \in RustValid /\ v \in PythonValid
      BY <2>7, <3>1, <3>2 DEF PythonValid, RustValid, Seen
    <3>4. QualityOf(w) <= QualityOf(v) /\ ScoreOf(v) <= ScoreOf(w)
      BY <1>1, <2>1, <3>1, <3>2, <3>3, QualityDecides
    <3>5. QualityOf(w) = QualityOf(v) /\ ScoreOf(w) = ScoreOf(v) /\ QualityOf(w) = ScoreOf(w)
      BY <2>2, <3>3, <3>4 DEF Nodata
    <3>6. ~(w < v)
      BY <2>2, <3>2, <3>3, <3>5 DEF Nodata
    <3>7. ~(v < w)
      BY <1>1, <2>1, <3>1, <3>3, <3>5, TotalAfter
    <3>8. w = v
      BY <3>3, <3>6, <3>7
    <3>9. QED
      BY <2>1, <2>4, <2>7, <3>1, <3>2, <3>3, <3>5, <3>8 DEF PythonInv, RustInv
  <2>10. QED
    BY <2>8, <2>9
<1>2. PixelInv => SamePixel
  BY <1>1 DEF SamePixel
<1>3. QED
  BY <1>2, PixelHolds, PTL

(* What the scout counts clear has a score, and nodata and the fill of a   *)
(* window have none, for every code of the three products.                 *)
LEMMA ClearHasScore ==
  ASSUME kind \in Kinds, kind # "cs", NEW code \in Int
  PROVE  /\ IsClear(kind, code) => Score(kind, code) \in {0, 1}
         /\ IsNodata(kind, code) \/ code = NodataFill(kind) => Score(kind, code) = Nodata
<1>1. CASE kind = "scl"
  BY <1>1 DEF IsClear, IsNodata, NodataFill, Score, SclQuality, Nodata
<1>2. CASE kind = "modis"
  BY <1>2 DEF IsClear, IsNodata, NodataFill, Score, MandatoryScore, Nodata
<1>3. CASE kind = "fmask"
  <2>1. Score(kind, code) = FmaskScore(code)
    BY <1>3 DEF Score
  <2>2. IsClear(kind, code) => code # 255 /\ code % 16 = 0 /\ Aerosol(code) <= 1
    BY <1>3 DEF IsClear
  <2>3. code % 16 = 0 => ~Flag(code, 1) /\ ~Flag(code, 2) /\ ~Flag(code, 4) /\ ~Flag(code, 8)
    BY DEF Flag
  <2>4. Aerosol(code) <= 1 => ~(Aerosol(code) >= 2)
    BY DEF Aerosol
  <2>5. IsClear(kind, code) => FmaskScore(code) \in {0, 1}
    BY <2>2, <2>3, <2>4 DEF FmaskScore
  <2>6. IsNodata(kind, code) \/ code = NodataFill(kind) => code = 255
    BY <1>3 DEF IsNodata, NodataFill
  <2>7. code = 255 => FmaskScore(code) = Nodata
    BY DEF FmaskScore
  <2>8. QED
    BY <2>1, <2>5, <2>6, <2>7
<1>4. QED
  BY <1>1, <1>2, <1>3, CodesAssumption

(* A pixel the scout counts clear is composed, with a quality of at most 1,*)
(* and a pixel of nodata and fill alone is not (endpoint.rs:69-152).       *)
THEOREM ClearPixelsAreComposed == PixelSpec => []ClearIsComposed
<1>1. ASSUME PixelInv, kind # "cs", NEW i \in Seen, IsClear(kind, seen[i].code)
      PROVE  rust.selected # -1 /\ rust.quality <= 1
  <2>1. ScoreOf(i) \in {0, 1} /\ i \in RustValid
    BY <1>1, ClearHasScore, CodesAssumption DEF PixelInv, PixelType, ScoreOf, RustValid, Nodata
  <2>2. PICK w \in RustValid : rust.selected = w - 1 /\ rust.quality = ScoreOf(w) /\ ScoreOf(w) <= ScoreOf(i)
    BY <1>1, <2>1 DEF PixelInv, RustInv
  <2>3. w \in Seen /\ w \in Nat /\ w >= 1 /\ ScoreOf(w) \in {0, 1, 2, Nodata}
    BY <1>1, QualityType DEF PixelInv, RustValid, Seen
  <2>4. QED
    BY <2>1, <2>2, <2>3 DEF Nodata
<1>2. ASSUME PixelInv, kind # "cs",
             \A i \in Seen : IsNodata(kind, seen[i].code) \/ seen[i].code = NodataFill(kind)
      PROVE  rust.selected = -1
  <2>1. RustValid = {}
    BY <1>2, ClearHasScore, CodesAssumption DEF PixelInv, PixelType, RustValid
  <2>2. QED
    BY <1>2, <2>1 DEF PixelInv, RustInv
<1>3. PixelInv => ClearIsComposed
  BY <1>1, <1>2 DEF ClearIsComposed
<1>4. QED
  BY <1>3, PixelHolds, PTL

-----------------------------------------------------------------------------
(* Sums, as SumTo takes them: by the partial sums.                         *)
Sums(f, n, s) == s \in [0 .. n -> Int] /\ s[0] = 0 /\ \A i \in 1 .. n : s[i] = s[i - 1] + f[i]

LEMMA SumsExist ==
  ASSUME NEW f, NEW n \in Nat, \A i \in 1 .. n : f[i] \in Int
  PROVE  \E s : Sums(f, n, s)
<1> DEFINE S == {m \in Nat : m <= n => \E s : Sums(f, m, s)}
<1>1. 0 \in S
  <2>1. Sums(f, 0, [i \in 0 .. 0 |-> 0])
    BY DEF Sums
  <2>2. QED
    BY <2>1
<1>2. ASSUME NEW m \in Nat, m \in S PROVE m + 1 \in S
  <2> SUFFICES ASSUME m + 1 <= n PROVE \E s : Sums(f, m + 1, s)
    OBVIOUS
  <2>1. PICK s : Sums(f, m, s)
    BY <1>2
  <2> DEFINE t == [i \in 0 .. m + 1 |-> IF i <= m THEN s[i] ELSE s[m] + f[m + 1]]
  <2>2. f[m + 1] \in Int /\ s \in [0 .. m -> Int]
    BY <2>1 DEF Sums
  <2>3. t \in [0 .. m + 1 -> Int] /\ (\A i \in 0 .. m : t[i] = s[i]) /\ t[m + 1] = s[m] + f[m + 1]
    BY <2>2
  <2> HIDE DEF t
  <2>4. Sums(f, m + 1, t)
    <3>1. t[0] = 0
      BY <2>1, <2>3 DEF Sums
    <3>2. ASSUME NEW i \in 1 .. m PROVE t[i] = t[i - 1] + f[i]
      <4>1. i \in 0 .. m /\ i - 1 \in 0 .. m
        OBVIOUS
      <4>2. QED
        BY <2>1, <2>3, <4>1 DEF Sums
    <3>3. t[m + 1] = t[(m + 1) - 1] + f[m + 1]
      BY <2>3
    <3>4. QED
      BY <2>3, <3>1, <3>2, <3>3 DEF Sums
  <2>5. QED
    BY <2>4
<1> HIDE DEF S
<1>3. n \in S
  BY <1>1, <1>2, SetInduction
<1>4. QED
  BY <1>3 DEF S

LEMMA SumsAgree ==
  ASSUME NEW n \in Nat, NEW f, NEW g, NEW s, NEW t, Sums(f, n, s), Sums(g, n, t),
         \A i \in 1 .. n : f[i] = g[i]
  PROVE  \A m \in 0 .. n : s[m] = t[m]
<1> DEFINE S == {m \in Nat : m <= n => s[m] = t[m]}
<1>1. 0 \in S
  BY DEF Sums
<1>2. ASSUME NEW m \in Nat, m \in S PROVE m + 1 \in S
  <2> SUFFICES ASSUME m + 1 <= n PROVE s[m + 1] = t[m + 1]
    OBVIOUS
  <2>1. m + 1 \in 1 .. n /\ (m + 1) - 1 = m /\ s[m] = t[m]
    BY <1>2
  <2>2. s[m + 1] = s[m] + f[m + 1] /\ t[m + 1] = t[m] + g[m + 1]
    BY <2>1 DEF Sums
  <2>3. QED
    BY <2>1, <2>2
<1> HIDE DEF S
<1>3. Nat \subseteq S
  BY <1>1, <1>2, SetInduction
<1>4. QED
  BY <1>3 DEF S

LEMMA SumToIs ==
  ASSUME NEW f, NEW n \in Nat, \A i \in 1 .. n : f[i] \in Int
  PROVE  \E s : Sums(f, n, s) /\ SumTo(f, n) = s[n]
<1> DEFINE F == CHOOSE s : s = [i \in 0 .. n |-> IF i = 0 THEN 0 ELSE s[i - 1] + f[i]]
<1>1. SumTo(f, n) = F[n]
  BY DEF SumTo
<1>2. PICK s : Sums(f, n, s)
  BY SumsExist
<1>3. s = [i \in 0 .. n |-> IF i = 0 THEN 0 ELSE s[i - 1] + f[i]]
  BY <1>2 DEF Sums
<1>4. F = [i \in 0 .. n |-> IF i = 0 THEN 0 ELSE F[i - 1] + f[i]]
  BY <1>3
<1> HIDE DEF F
<1>5. F[0] = 0 /\ \A i \in 1 .. n : F[i] = F[i - 1] + f[i]
  <2>1. \A i \in 0 .. n : F[i] = IF i = 0 THEN 0 ELSE F[i - 1] + f[i]
    BY <1>4, Zenon
  <2>2. 0 \in 0 .. n /\ \A i \in 1 .. n : i \in 0 .. n /\ i # 0
    OBVIOUS
  <2>3. QED
    BY <2>1, <2>2, Zenon
<1>6. \A i \in 0 .. n : F[i] = s[i]
  <2> DEFINE S == {m \in Nat : m <= n => F[m] = s[m]}
  <2>1. 0 \in S
    BY <1>2, <1>5 DEF Sums
  <2>2. ASSUME NEW m \in Nat, m \in S PROVE m + 1 \in S
    <3> SUFFICES ASSUME m + 1 <= n PROVE F[m + 1] = s[m + 1]
      OBVIOUS
    <3>1. m + 1 \in 1 .. n /\ (m + 1) - 1 = m /\ F[m] = s[m]
      BY <2>2
    <3>2. QED
      BY <1>2, <1>5, <3>1 DEF Sums
  <2> HIDE DEF S
  <2>3. Nat \subseteq S
    BY <2>1, <2>2, SetInduction
  <2>4. QED
    BY <2>3 DEF S
<1>7. QED
  BY <1>1, <1>2, <1>6

LEMMA SumNone == ASSUME NEW f PROVE SumTo(f, 0) = 0
BY SumToIs DEF Sums

LEMMA SumNext ==
  ASSUME NEW n \in Nat, NEW f, NEW g, \A i \in 1 .. n + 1 : f[i] \in Int,
         \A i \in 1 .. n : g[i] = f[i]
  PROVE  SumTo(g, n) \in Int /\ SumTo(f, n + 1) = SumTo(g, n) + f[n + 1]
<1>1. PICK s : Sums(f, n + 1, s) /\ SumTo(f, n + 1) = s[n + 1]
  BY SumToIs
<1>2. \A i \in 1 .. n : i \in 1 .. n + 1
  OBVIOUS
<1>3. PICK t : Sums(g, n, t) /\ SumTo(g, n) = t[n]
  BY <1>2, SumToIs
<1> DEFINE r == [i \in 0 .. n |-> s[i]]
<1>4. Sums(f, n, r)
  <2>1. s \in [0 .. n + 1 -> Int] /\ s[0] = 0 /\ \A i \in 1 .. n + 1 : s[i] = s[i - 1] + f[i]
    BY <1>1 DEF Sums
  <2>2. r \in [0 .. n -> Int] /\ r[0] = 0
    BY <2>1
  <2>3. ASSUME NEW i \in 1 .. n PROVE r[i] = r[i - 1] + f[i]
    <3>1. i \in 0 .. n /\ i - 1 \in 0 .. n /\ i \in 1 .. n + 1
      OBVIOUS
    <3>2. QED
      BY <2>1, <3>1
  <2>4. QED
    BY <2>2, <2>3 DEF Sums
<1>5. r[n] = t[n]
  BY <1>3, <1>4, SumsAgree
<1>6. r[n] = s[n] /\ t[n] \in Int
  BY <1>3 DEF Sums
<1>7. s[n + 1] = s[n] + f[n + 1]
  <2>1. n + 1 \in 1 .. n + 1 /\ (n + 1) - 1 = n
    OBVIOUS
  <2>2. QED
    BY <1>1, <2>1 DEF Sums
<1>8. QED
  BY <1>1, <1>3, <1>5, <1>6, <1>7
-----------------------------------------------------------------------------
(* One value more, with the moments scaled.                                *)
LEMMA Divided ==
  ASSUME NEW a \in Nat \ {0}, NEW q \in Int
  PROVE  (a * q) \div a = q
OBVIOUS

LEMMA Whole ==
  ASSUME NEW a \in Nat \ {0}, NEW s \in Nat, s % a = 0
  PROVE  s \div a \in Int /\ s = a * (s \div a)
OBVIOUS

LEMMA VarianceStep ==
  ASSUME NEW n \in Nat \ {0}, NEW S \in Nat, NEW T \in Int, NEW Q \in Int, NEW x \in Int,
         NEW old \in Int, NEW new \in Int, NEW m2 \in Int,
         n * old = S * T, (n + 1) * new = S * (T + x), n * m2 = S * S * (n * Q - T * T)
  PROVE  (n + 1) * (m2 + (S * x - old) * (S * x - new))
           = S * S * ((n + 1) * (Q + x * x) - (T + x) * (T + x))
<1> DEFINE d == S * (n * x - T)
           A == (n + 1) * (m2 + (S * x - old) * (S * x - new))
           B == S * S * ((n + 1) * (Q + x * x) - (T + x) * (T + x))
<1>1. n * (S * x - old) = d
  <2>1. n * (S * x - old) = n * (S * x) - n * old
    OBVIOUS
  <2>2. d = n * (S * x) - S * T
    OBVIOUS
  <2>3. QED
    BY <2>1, <2>2
<1>2. (n + 1) * (S * x - new) = d
  <2>1. (n + 1) * (S * x - new) = (n + 1) * (S * x) - (n + 1) * new
    OBVIOUS
  <2>2. d = (n + 1) * (S * x) - S * (T + x)
    OBVIOUS
  <2>3. QED
    BY <2>1, <2>2
<1>3. n * A = (n + 1) * (S * S * (n * Q - T * T)) + d * d
  <2> DEFINE u == S * x - old
             v == S * x - new
  <2>1. u \in Int /\ v \in Int /\ n * u = d /\ (n + 1) * v = d /\ A = (n + 1) * (m2 + u * v)
    BY <1>1, <1>2
  <2> HIDE DEF u, v, d, A
  <2>2. n * A = (n + 1) * (n * m2) + (n * u) * ((n + 1) * v)
    BY <2>1
  <2>3. QED
    BY <2>1, <2>2
<1>4. n * B = (n + 1) * (S * S * (n * Q - T * T)) + d * d
  OBVIOUS
<1>5. n * A = n * B /\ A \in Int /\ B \in Int
  BY <1>3, <1>4
<1> HIDE DEF A, B
<1>6. A = B
  BY <1>5
<1>7. QED
  BY <1>6 DEF A, B
-----------------------------------------------------------------------------
(* The moments of a band: what is summed, and what is kept of it.          *)
ValueOf(b) == [i \in Seen |-> IF i \in BandValues(b) THEN seen[i].dn[b] ELSE 0]
SquareOf(b) == [i \in Seen |-> ValueOf(b)[i] * ValueOf(b)[i]]
Total(b) == SumTo(ValueOf(b), Len(seen))
Squares(b) == SumTo(SquareOf(b), Len(seen))

Moments == [n : Nat, mean : Int, m2 : Int]
Follows(m, total, squares) ==
  /\ m \in Moments /\ total \in Int /\ squares \in Int
  /\ m.n * m.mean = Scale * total
  /\ m.n * m.m2 = Scale * Scale * (m.n * squares - total * total)
  /\ m.n = 0 => m.mean = 0 /\ m.m2 = 0 /\ total = 0 /\ squares = 0

MomentsOf(b) == /\ Follows(rust.moments[b], Total(b), Squares(b))
                /\ rust.moments[b].n = Cardinality(BandValues(b))
MomentInv == kind # "cs" => /\ DOMAIN rust.moments = Bands
                            /\ \A b \in Bands : MomentsOf(b)

LEMMA WelfordKeeps ==
  ASSUME NEW m, NEW T, NEW Q, Follows(m, T, Q), m.n + 1 <= MaxObservations, NEW x \in Int
  PROVE  Follows(Welford(m, x), T + x, Q + x * x) /\ Welford(m, x).n = m.n + 1
<1>0. /\ m \in Moments /\ T \in Int /\ Q \in Int
      /\ m.n * m.mean = Scale * T /\ m.n * m.m2 = Scale * Scale * (m.n * Q - T * T)
      /\ m.n = 0 => m.mean = 0 /\ m.m2 = 0 /\ T = 0 /\ Q = 0
  BY DEF Follows
<1> DEFINE n == m.n
           new == m.mean + (Scale * x - m.mean) \div (n + 1)
           m2 == m.m2 + (Scale * x - m.mean) * (Scale * x - new)
<1>1. n \in Nat /\ m.mean \in Int /\ m.m2 \in Int /\ Scale \in Nat /\ Scale % (n + 1) = 0
  <2>1. n \in Nat /\ m.mean \in Int /\ m.m2 \in Int
    BY <1>0 DEF Moments
  <2>2. n + 1 \in 1 .. MaxObservations
    BY <2>1, MaxAssumption
  <2>3. QED
    BY <2>1, <2>2, ScaleAssumption
<1>2. Welford(m, x) = [n |-> n + 1, mean |-> new, m2 |-> m2]
  BY DEF Welford
<1>3. new \in Int /\ (n + 1) * new = Scale * (T + x)
  <2> DEFINE S == Scale
             mean == m.mean
             k == S \div (n + 1)
             q == k * (T + x) - mean
  <2>1. n \in Nat /\ mean \in Int /\ S \in Nat /\ T \in Int
    BY <1>0, <1>1
  <2>2. S % (n + 1) = 0
    BY <1>1
  <2>3. n * mean = S * T
    BY <1>0
  <2>4. new = mean + (S * x - mean) \div (n + 1)
    OBVIOUS
  <2> HIDE DEF n, S, mean, new
  <2>5. k \in Int /\ S = (n + 1) * k
    <3>1. n + 1 \in Nat \ {0}
      BY <2>1
    <3>2. QED
      BY <2>1, <2>2, <3>1, Whole
  <2> HIDE DEF k
  <2>6. q \in Int
    BY <2>1, <2>5
  <2>7. S * x - mean = (n + 1) * q
    <3>1. S * x + S * T = (n + 1) * (k * (T + x))
      BY <2>1, <2>5
    <3>2. (n + 1) * q = (n + 1) * (k * (T + x)) - (n * mean + mean)
      BY <2>1, <2>5
    <3> DEFINE a == S * x
               b == S * T
               c == (n + 1) * (k * (T + x))
               d == n * mean
               e == (n + 1) * q
    <3>3. a + b = c /\ e = c - (d + mean) /\ d = b
      BY <2>3, <3>1, <3>2
    <3>4. a \in Int /\ b \in Int /\ c \in Int
      BY <2>1, <2>5
    <3> HIDE DEF a, b, c, d, e
    <3>5. a - mean = e
      BY <2>1, <3>3, <3>4
    <3>6. QED
      BY <3>5 DEF a, e
  <2>8. mean + q = k * (T + x)
    BY <2>1, <2>5
  <2> HIDE DEF q
  <2>9. (S * x - mean) \div (n + 1) = q
    <3>1. n + 1 \in Nat \ {0}
      BY <2>1
    <3>2. QED
      BY <2>6, <2>7, <3>1, Divided
  <2>10. (n + 1) * (k * (T + x)) = S * (T + x)
    BY <2>1, <2>5
  <2>11. new = k * (T + x)
    BY <2>4, <2>8, <2>9
  <2>12. k * (T + x) \in Int
    BY <2>1, <2>5
  <2>13. QED
    BY <2>10, <2>11, <2>12 DEF S
<1>4. (n + 1) * m2 = Scale * Scale * ((n + 1) * (Q + x * x) - (T + x) * (T + x))
  <2>1. CASE n = 0
    <3>1. m.mean = 0 /\ m.m2 = 0 /\ T = 0 /\ Q = 0
      BY <1>0, <2>1
    <3>2. new = Scale * x
      <4>1. (n + 1) * new = new /\ T + x = x
        BY <1>3, <2>1, <3>1
      <4>2. QED
        BY <1>3, <4>1
    <3> HIDE DEF new
    <3>3. m2 = 0
      BY <1>1, <3>1, <3>2
    <3>4. (n + 1) * (Q + x * x) - (T + x) * (T + x) = 0
      BY <2>1, <3>1
    <3>5. QED
      BY <1>1, <3>3, <3>4
  <2>2. CASE n # 0
    <3>1. n * m.m2 = Scale * Scale * (n * Q - T * T) /\ n * m.mean = Scale * T
      BY <1>0
    <3> HIDE DEF new, n
    <3>2. /\ n \in Nat \ {0} /\ Scale \in Nat /\ m.mean \in Int /\ new \in Int /\ m.m2 \in Int
          /\ T \in Int /\ Q \in Int
      BY <1>0, <1>1, <1>3, <2>2
    <3> DEFINE old == m.mean
               before == m.m2
    <3> HIDE DEF old, before
    <3>3. /\ old \in Int /\ before \in Int /\ n * old = Scale * T
          /\ n * before = Scale * Scale * (n * Q - T * T)
      BY <3>1, <3>2 DEF old, before
    <3>4. (n + 1) * (before + (Scale * x - old) * (Scale * x - new))
            = Scale * Scale * ((n + 1) * (Q + x * x) - (T + x) * (T + x))
      BY <1>3, <3>2, <3>3, VarianceStep
    <3>5. QED
      BY <3>4 DEF old, before
  <2>3. QED
    BY <2>1, <2>2
<1> HIDE DEF new
<1>5. m2 \in Int
  BY <1>1, <1>3
<1> HIDE DEF m2
<1>6. n + 1 # 0 /\ n + 1 \in Nat /\ T + x \in Int /\ Q + x * x \in Int
  BY <1>0, <1>1
<1> DEFINE w == Welford(m, x)
<1>7. w \in Moments /\ w.n = n + 1 /\ w.mean = new /\ w.m2 = m2
  BY <1>2, <1>3, <1>5, <1>6 DEF Moments
<1> HIDE DEF w, n
<1>8. Follows(w, T + x, Q + x * x)
  BY <1>3, <1>4, <1>6, <1>7 DEF Follows
<1>9. QED
  BY <1>7, <1>8 DEF w, n

(* The sums after one observation more.                                    *)
LEMMA SumsGrow ==
  ASSUME PixelType, NEW o \in Pixels, seen' = Append(seen, o), kind' = kind, NEW b \in Bands
  PROVE  LET n == Len(seen) + 1
             x == IF n \in BandValues(b)' THEN o.dn[b] ELSE 0
             counted == Score(kind, o.code) # Nodata /\ Dn(o)[b] # Nodata
         IN  /\ BandValues(b)' = IF counted THEN BandValues(b) \cup {n} ELSE BandValues(b)
             /\ n \notin BandValues(b) /\ BandValues(b) \subseteq Seen
             /\ Dn(o)[b] # Nodata => o.dn[b] \in Int /\ Dn(o)[b] = o.dn[b]
             /\ Total(b)' = Total(b) + x
             /\ Squares(b)' = Squares(b) + x * x
<1> DEFINE n == Len(seen) + 1
           counted == Score(kind, o.code) # Nodata /\ Dn(o)[b] # Nodata
           x == IF n \in BandValues(b)' THEN o.dn[b] ELSE 0
<1>1. /\ Len(seen) \in Nat /\ Seen' = Seen \cup {n} /\ n \notin Seen /\ seen'[n] = o
      /\ \A i \in Seen : seen'[i] = seen[i]
  BY SeenGrows
<1>2. RustValid' = IF Score(kind, o.code) # Nodata THEN RustValid \cup {n} ELSE RustValid
  BY RustValidGrows
<1>3. RustValid \subseteq Seen
  BY DEF RustValid
<1>4. BandValues(b) = {i \in RustValid : Dn(seen[i])[b] # Nodata}
  BY DEF BandValues
<1>5. BandValues(b)' = {i \in RustValid' : Dn(seen'[i])[b] # Nodata}
  BY DEF BandValues, Dn
<1>6. BandValues(b)' = IF counted THEN BandValues(b) \cup {n} ELSE BandValues(b)
  BY <1>1, <1>2, <1>3, <1>4, <1>5
<1>7. BandValues(b) \subseteq Seen /\ n \notin BandValues(b)
  BY <1>1, <1>3, <1>4
<1>8. \A p \in Pixels : Dn(p)[b] # Nodata => p.dn[b] \in Int /\ Dn(p)[b] = p.dn[b]
  <2> SUFFICES ASSUME NEW p \in Pixels, Dn(p)[b] # Nodata
               PROVE  p.dn[b] \in Int /\ Dn(p)[b] = p.dn[b]
    OBVIOUS
  <2>1. p.dn \in [Bands -> Int \cup {Outside}]
    BY ReflectancesAssumption DEF Pixels
  <2>2. Dn(p)[b] = IF p.dn[b] = Outside THEN Nodata ELSE p.dn[b]
    BY DEF Dn
  <2>3. QED
    BY <2>1, <2>2
<1>9. \A i \in BandValues(b) : seen[i].dn[b] \in Int
  <2>1. \A i \in Seen : seen[i] \in Pixels
    BY DEF PixelType, Seen
  <2>2. QED
    BY <1>4, <1>7, <1>8, <2>1
<1> HIDE DEF counted
<1>10. x \in Int /\ (counted => Dn(o)[b] # Nodata)
  BY <1>6, <1>7, <1>8 DEF counted
<1> DEFINE f == ValueOf(b)
           g == ValueOf(b)'
           ff == SquareOf(b)
           gg == SquareOf(b)'
<1>11. /\ \A i \in 1 .. Len(seen) : f[i] \in Int /\ ff[i] = f[i] * f[i]
       /\ Seen = 1 .. Len(seen) /\ Seen' = 1 .. n
  <2>1. Seen = 1 .. Len(seen) /\ Seen' = 1 .. n
    BY <1>1 DEF Seen
  <2>2. \A i \in Seen : f[i] = IF i \in BandValues(b) THEN seen[i].dn[b] ELSE 0
    BY DEF ValueOf
  <2>3. \A i \in Seen : ff[i] = f[i] * f[i]
    BY DEF SquareOf
  <2> HIDE DEF f, ff
  <2>4. \A i \in Seen : f[i] \in Int
    BY <1>9, <2>2
  <2>5. QED
    BY <2>1, <2>3, <2>4
<1>12. \A i \in Seen' : g[i] = IF i \in BandValues(b)' THEN seen'[i].dn[b] ELSE 0
  BY DEF ValueOf
<1>13. \A i \in Seen' : gg[i] = g[i] * g[i]
  BY DEF SquareOf
<1>14. \A i \in Seen : f[i] = IF i \in BandValues(b) THEN seen[i].dn[b] ELSE 0
  BY DEF ValueOf
<1> HIDE DEF f, ff, g, gg, x
<1>15. \A i \in 1 .. Len(seen) : g[i] = f[i] /\ i \in Seen'
  BY <1>1, <1>6, <1>7, <1>11, <1>12, <1>14
<1>16. g[n] = x
  BY <1>1, <1>12 DEF x
<1>17. \A i \in 1 .. n : g[i] \in Int /\ gg[i] \in Int
  BY <1>1, <1>10, <1>11, <1>13, <1>15, <1>16
<1>18. \A i \in 1 .. Len(seen) : gg[i] = ff[i]
  BY <1>11, <1>13, <1>15
<1>19. gg[n] = x * x
  BY <1>1, <1>13, <1>16
<1>20. SumTo(g, n) = SumTo(f, Len(seen)) + x /\ SumTo(gg, n) = SumTo(ff, Len(seen)) + x * x
  <2>1. n = Len(seen) + 1 /\ Len(seen) \in Nat
    BY <1>1
  <2> HIDE DEF n
  <2>2. SumTo(g, n) = SumTo(f, Len(seen)) + g[n]
    BY <1>15, <1>17, <2>1, SumNext
  <2>3. SumTo(gg, n) = SumTo(ff, Len(seen)) + gg[n]
    BY <1>17, <1>18, <2>1, SumNext
  <2>4. QED
    BY <1>16, <1>19, <2>2, <2>3
<1>21. Total(b)' = SumTo(g, Len(seen')) /\ Squares(b)' = SumTo(gg, Len(seen'))
  BY DEF Total, Squares, g, gg
<1>22. Len(seen') = n
  BY DEF PixelType
<1>23. Total(b) = SumTo(f, Len(seen)) /\ Squares(b) = SumTo(ff, Len(seen))
  BY DEF Total, Squares, f, ff
<1>24. QED
  BY <1>6, <1>7, <1>8, <1>20, <1>21, <1>22, <1>23 DEF x, counted

LEMMA BandInit ==
  ASSUME PixelInit, NEW b \in Bands
  PROVE  MomentsOf(b)
<1>1. Seen = {} /\ BandValues(b) = {} /\ Len(seen) = 0
  BY DEF PixelInit, Seen, RustValid, BandValues
<1>2. Cardinality({}) = 0
  BY FS_EmptySet
<1>3. Total(b) = 0 /\ Squares(b) = 0
  BY <1>1, SumNone DEF Total, Squares
<1>4. rust.moments[b] = [n |-> 0, mean |-> 0, m2 |-> 0]
  BY DEF PixelInit, NoBest
<1>5. 0 * 0 = Scale * 0 /\ 0 * 0 = Scale * Scale * (0 * 0 - 0 * 0)
  BY ScaleAssumption
<1>6. QED
  BY <1>1, <1>2, <1>3, <1>4, <1>5 DEF MomentsOf, Follows, Moments

(* One observation more, of a band.                                        *)
LEMMA BandStep ==
  ASSUME PixelType, kind # "cs", NEW o \in Pixels, Observe(o), NEW b \in Bands, MomentsOf(b),
         DOMAIN rust.moments = Bands
  PROVE  MomentsOf(b)'
<1> DEFINE n == Len(seen) + 1
           m == rust.moments[b]
           x == IF n \in BandValues(b)' THEN o.dn[b] ELSE 0
           counted == Score(kind, o.code) # Nodata /\ Dn(o)[b] # Nodata
<1>1. kind' = kind /\ seen' = Append(seen, o) /\ rust' = RustStep(o)
  BY DEF Observe
<1>2. /\ BandValues(b)' = IF counted THEN BandValues(b) \cup {n} ELSE BandValues(b)
      /\ n \notin BandValues(b) /\ BandValues(b) \subseteq Seen
      /\ Dn(o)[b] # Nodata => o.dn[b] \in Int /\ Dn(o)[b] = o.dn[b]
      /\ Total(b)' = Total(b) + x
      /\ Squares(b)' = Squares(b) + x * x
  BY <1>1, SumsGrow
<1>3. /\ Follows(m, Total(b), Squares(b)) /\ m.n = Cardinality(BandValues(b))
      /\ m.n \in Nat /\ Total(b) \in Int /\ Squares(b) \in Int
  BY DEF MomentsOf, Follows, Moments
<1>4. rust'.moments[b] = IF counted THEN Welford(m, Dn(o)[b]) ELSE m
  <2>1. DOMAIN rust = DOMAIN NoBest
    BY DEF PixelType
  <2>2. CASE Score(kind, o.code) = Nodata
    BY <1>1, <2>2 DEF RustStep
  <2>3. CASE Score(kind, o.code) # Nodata
    <3>1. rust'.moments = Accumulated(rust.moments, Dn(o))
      BY <1>1, <2>1, <2>3 DEF RustStep, NoBest
    <3>2. rust'.moments[b] = IF Dn(o)[b] = Nodata THEN m ELSE Welford(m, Dn(o)[b])
      BY <3>1 DEF Accumulated
    <3>3. QED
      BY <2>3, <3>2
  <2>4. QED
    BY <2>2, <2>3
<1>5. CASE ~counted
  <2>1. BandValues(b)' = BandValues(b) /\ rust'.moments[b] = m /\ x = 0
    BY <1>2, <1>4, <1>5
  <2>2. Total(b)' = Total(b) /\ Squares(b)' = Squares(b)
    BY <1>2, <1>3, <2>1
  <2>3. QED
    BY <1>3, <2>1, <2>2 DEF MomentsOf
<1>6. CASE counted
  <2>1. BandValues(b)' = BandValues(b) \cup {n} /\ x = o.dn[b] /\ x \in Int /\ rust'.moments[b] = Welford(m, x)
    BY <1>2, <1>4, <1>6
  <2>2. Cardinality(BandValues(b)') = m.n + 1
    BY <1>2, <1>3, <2>1, CountsOne
  <2>3. m.n + 1 <= MaxObservations
    <3>1. BandValues(b)' \subseteq 1 .. MaxObservations
      <4>1. Len(seen) + 1 <= MaxObservations /\ Len(seen) \in Nat
        BY MaxAssumption DEF Observe, PixelType
      <4>2. Seen \subseteq 1 .. MaxObservations /\ n \in 1 .. MaxObservations
        BY <4>1, MaxAssumption DEF Seen
      <4>3. QED
        BY <1>2, <2>1, <4>2
    <3>2. IsFiniteSet(1 .. MaxObservations) /\ Cardinality(1 .. MaxObservations) = MaxObservations
      <4>1. \A k \in Nat : IsFiniteSet(1 .. k) /\ Cardinality(1 .. k) = k
        BY FS_Interval
      <4>2. QED
        BY <4>1, MaxAssumption
    <3>3. Cardinality(BandValues(b)') <= Cardinality(1 .. MaxObservations)
      BY <3>1, <3>2, FS_Subset
    <3>4. QED
      BY <2>2, <3>2, <3>3
  <2> HIDE DEF x, m, counted, n
  <2>4. Follows(Welford(m, x), Total(b) + x, Squares(b) + x * x) /\ Welford(m, x).n = m.n + 1
    BY <1>3, <2>1, <2>3, WelfordKeeps
  <2>5. Follows(rust'.moments[b], Total(b)', Squares(b)')
    BY <1>2, <2>1, <2>4
  <2>6. QED
    BY <2>1, <2>2, <2>4, <2>5 DEF MomentsOf, Follows
<1>7. QED
  BY <1>5, <1>6

LEMMA MomentsHold == PixelSpec => []MomentInv
<1>1. PixelInit => MomentInv
  <2> SUFFICES ASSUME PixelInit PROVE MomentInv
    OBVIOUS
  <2>1. DOMAIN rust.moments = Bands
    BY DEF PixelInit, NoBest
  <2>2. QED
    BY <2>1, BandInit DEF MomentInv
<1>2. PixelInv /\ MomentInv /\ [PixelNext]_pixelVars => MomentInv'
  <2> SUFFICES ASSUME PixelInv, MomentInv, [PixelNext]_pixelVars, kind' # "cs"
               PROVE  /\ DOMAIN rust'.moments = Bands
                      /\ \A b \in Bands : MomentsOf(b)'
    BY DEF MomentInv
  <2>1. CASE UNCHANGED pixelVars
    <3>1. kind' = kind /\ seen' = seen /\ rust' = rust
      BY <2>1 DEF pixelVars
    <3>2. Seen' = Seen /\ RustValid' = RustValid
      BY <3>1 DEF Seen, RustValid
    <3>3. \A b : BandValues(b)' = BandValues(b)
      BY <3>1, <3>2 DEF BandValues, Dn
    <3>4. \A b : ValueOf(b)' = ValueOf(b)
      BY <3>1, <3>2, <3>3 DEF ValueOf
    <3>5. \A b : SquareOf(b)' = SquareOf(b)
      BY <3>2, <3>4 DEF SquareOf
    <3>6. \A b : Total(b)' = Total(b) /\ Squares(b)' = Squares(b)
      BY <3>1, <3>4, <3>5 DEF Total, Squares
    <3>7. \A b : MomentsOf(b)' = MomentsOf(b)
      BY <3>1, <3>3, <3>6 DEF MomentsOf
    <3>8. QED
      BY <3>1, <3>7 DEF MomentInv
  <2>2. ASSUME NEW o \in Pixels, Observe(o)
        PROVE  /\ DOMAIN rust'.moments = Bands
               /\ \A b \in Bands : MomentsOf(b)'
    <3>1. kind' = kind /\ rust' = RustStep(o) /\ DOMAIN rust = DOMAIN NoBest
      BY <2>2 DEF Observe, PixelInv, PixelType
    <3>2. DOMAIN rust.moments = Bands /\ \A b \in Bands : MomentsOf(b)
      BY <3>1 DEF MomentInv
    <3>3. DOMAIN rust'.moments = Bands
      BY <3>1, <3>2 DEF RustStep, Accumulated, NoBest
    <3>4. PixelType
      BY DEF PixelInv
    <3>5. QED
      BY <2>2, <3>1, <3>2, <3>3, <3>4, BandStep
  <2>3. QED
    BY <2>1, <2>2 DEF PixelNext
<1>3. QED
  BY <1>1, <1>2, PixelHolds, PTL DEF PixelSpec

(* The spread kept in one pass by Welford's updates is exactly the         *)
(* variance of the valid values, for any number of them (pipeline.rs:      *)
(* 1058-1073): with n values, n times the mean is their sum, and n times   *)
(* the squared deviations is n times the sum of squares less the square of *)
(* the sum.                                                                *)
THEOREM OnePassVariance == PixelSpec => []SpreadIsVariance
<1>1. MomentInv => SpreadIsVariance
  <2> SUFFICES ASSUME MomentInv, kind # "cs", NEW b \in Bands
               PROVE  /\ rust.moments[b].n = Cardinality(BandValues(b))
                      /\ Cardinality(BandValues(b)) * rust.moments[b].mean = Scale * Total(b)
                      /\ Cardinality(BandValues(b)) * rust.moments[b].m2
                           = Scale * Scale * (Cardinality(BandValues(b)) * Squares(b) - Total(b) * Total(b))
    BY DEF SpreadIsVariance, Total, Squares, ValueOf, SquareOf
  <2>1. MomentsOf(b)
    BY DEF MomentInv
  <2>2. QED
    BY <2>1 DEF MomentsOf, Follows
<1>2. QED
  BY <1>1, MomentsHold, PTL
=============================================================================
