------------------------ MODULE ChunkPipelineProofs ------------------------
(***************************************************************************)
(* Proofs about ChunkPipeline, for every plan, submission order and pool   *)
(* size.                                                                   *)
(***************************************************************************)
EXTENDS ChunkPipeline, FiniteSetTheorems, WellFoundedInduction, TLAPS

(* Expands what every step of the proofs needs: the operators taken over   *)
(* from ChunkedBuild and the variable tuples.                              *)
LEMMA ScenesOfDef ==
  ASSUME NEW c \in Chunks
  PROVE  ScenesOf(c) = {Selected[c][i] : i \in 1..Len(Selected[c])}
BY DEF ScenesOf, Build!ScenesOf

(* Every pair is (scene of a planned chunk, that chunk).                   *)
LEMMA PairsDef ==
  Pairs = UNION {{<<s, c>> : s \in ScenesOf(c)} : c \in Chunks}
BY DEF Pairs, Build!Pairs, ScenesOf, Build!ScenesOf, Chunks, Build!Chunks

LEMMA PairMember ==
  ASSUME NEW s, NEW c
  PROVE  <<s, c>> \in Pairs <=> c \in Chunks /\ s \in ScenesOf(c)
BY PairsDef

LEMMA ScenesOfType ==
  ASSUME NEW c \in Chunks
  PROVE  ScenesOf(c) \subseteq Scenes /\ ScenesOf(c) # {}
<1>1. Selected[c] \in Seq(Scenes) /\ Selected[c] # <<>>
  BY PlanAssumption
<1>2. Len(Selected[c]) \in Nat /\ Len(Selected[c]) > 0
  BY <1>1
<1>3. \A i \in 1..Len(Selected[c]) : Selected[c][i] \in Scenes
  BY <1>1
<1>4. 1 \in 1..Len(Selected[c])
  BY <1>2
<1>5. Selected[c][1] \in ScenesOf(c)
  BY <1>4, ScenesOfDef
<1>6. ScenesOf(c) \subseteq Scenes
  BY <1>3, ScenesOfDef
<1>7. QED
  BY <1>5, <1>6

(* The set of chunks a delivery makes ready is finite, so the list of its  *)
(* submissions is a sequence of exactly those chunks.                      *)
LEMMA OrderIsSeq ==
  ASSUME NEW R \in SUBSET Chunks,
         NEW order \in Bijection(1..Cardinality(R), R)
  PROVE  /\ order \in Seq(R)
         /\ Len(order) = Cardinality(R)
         /\ Len(order) \in Nat
         /\ \A c \in R : \E i \in 1..Len(order) : order[i] = c
         /\ \A i, j \in 1..Len(order) : order[i] = order[j] => i = j
<1>1. Cardinality(R) \in Nat
  BY PlanAssumption, FS_Subset, FS_CardinalityType
<1>2. order \in [1..Cardinality(R) -> R]
  BY DEF Bijection, Injection
<1>3. order \in Seq(R) /\ Len(order) = Cardinality(R)
  BY <1>1, <1>2
<1>4. \A c \in R : \E i \in 1..Cardinality(R) : order[i] = c
  BY DEF Bijection, Surjection
<1>5. \A i, j \in 1..Cardinality(R) : order[i] = order[j] => i = j
  BY <1>2 DEF Bijection, Injection, IsInjective
<1>6. QED
  BY <1>1, <1>3, <1>4, <1>5

-----------------------------------------------------------------------------
(* Type correctness.                                                       *)

LEMMA InitType == Init => TypeOK
<1> SUFFICES ASSUME Init PROVE TypeOK
  OBVIOUS
<1>1. \A c \in Chunks : ScenesOf(c) \in SUBSET Scenes
  BY ScenesOfType
<1>2. Len(SceneOrder) \in Nat
  BY OrderAssumption
<1>3. /\ DOMAIN taken = Chunks /\ \A c \in Chunks : taken[c] \in Selections(c)
      /\ DOMAIN pixels = Chunks /\ \A c \in Chunks : pixels[c] \in Selections(c)
      /\ DOMAIN chosen = Chunks /\ \A c \in Chunks : chosen[c] \in Selections(c)
  BY DEF Init, Selections
<1>4. /\ submitted \in 0..Len(SceneOrder) /\ joined \in Nat
      /\ started \in 0..submitted
  BY <1>2 DEF Init
<1>4a. caller \in CallerPoints /\ error \in BOOLEAN
  BY Zenon DEF Init, CallerPoints
<1>5. jobs \in Seq(Chunks) /\ begun \in 0..Len(jobs)
  BY DEF Init
<1>6. /\ fetch \in [Scenes -> {"idle", "running", "delivered", "raised"}]
      /\ answer \in [Pairs -> Build!Answers \cup {"pending"}]
      /\ items \in [Scenes -> Chunks \cup {NoItem}]
      /\ observations \subseteq Pairs
  BY DEF Init
<1>7. remaining \in [Chunks -> SUBSET Scenes] /\ stage \in [Chunks -> Stages]
  BY <1>1 DEF Init, Stages
<1>8. QED
  BY <1>3, <1>4, <1>4a, <1>5, <1>6, <1>7 DEF TypeOK

LEMMA DeliverType ==
  ASSUME TypeOK, NEW s \in Scenes, NEW reply \in [ChunksOf(s) -> Replies],
         Deliver(s, reply)
  PROVE  TypeOK'
<1> DEFINE listed == {c \in ChunksOf(s) : reply[c] # "omitted"}
           ready == {c \in listed : Resolves(c, s)}
<1>1. PICK order \in Bijection(1..Cardinality(ready), ready) :
        jobs' = jobs \o order
  BY DEF Deliver
<1>2. ready \subseteq Chunks
  BY DEF ChunksOf
<1>3. order \in Seq(ready) /\ Len(order) \in Nat
  BY <1>2, OrderIsSeq
<1>4. order \in Seq(Chunks)
  BY <1>2, <1>3
<1>5. jobs' \in Seq(Chunks) /\ Len(jobs') = Len(jobs) + Len(order)
  BY <1>1, <1>4 DEF TypeOK
<1>6. begun' \in 0..Len(jobs')
  BY <1>3, <1>5 DEF TypeOK, Deliver
<1>7. answer' \in [Pairs -> Build!Answers \cup {"pending"}]
  <2>1. \A p \in Pairs : p[1] = s => p[2] \in ChunksOf(s)
    BY PairsDef DEF ChunksOf
  <2>2. \A c \in ChunksOf(s) : reply[c] \in Build!Answers
    BY DEF Replies, Build!Answers
  <2>3. QED
    BY <2>1, <2>2 DEF TypeOK, Deliver
<1>8. observations' \subseteq Pairs
  <2>1. {<<s, c>> : c \in listed} \subseteq Pairs
    BY PairMember DEF ChunksOf
  <2>2. observations' = observations \cup {<<s, c>> : c \in listed}
    BY DEF Deliver
  <2>3. QED
    BY <2>1, <2>2 DEF TypeOK
<1>9. remaining' \in [Chunks -> SUBSET Scenes]
  BY DEF TypeOK, Deliver
<1>10. stage' \in [Chunks -> Stages]
  BY DEF TypeOK, Deliver, Stages
<1>11. fetch' \in [Scenes -> {"idle", "running", "delivered", "raised"}]
  BY DEF TypeOK, Deliver
<1>12. UNCHANGED <<caller, error, joined, submitted, started, taken, pixels, chosen, items>>
  BY DEF Deliver, callerVars, canvasVars
<1>13. /\ (caller \in CallerPoints)'
       /\ (error \in BOOLEAN)'
  BY <1>12, Zenon DEF TypeOK
<1>14. /\ (submitted \in 0..Len(SceneOrder))'
       /\ (joined \in Nat)'
       /\ (started \in 0..submitted)'
       /\ (items \in [Scenes -> Chunks \cup {NoItem}])'
  BY <1>12 DEF TypeOK
<1>15. /\ (DOMAIN taken = Chunks /\ \A c \in Chunks : taken[c] \in Selections(c))'
       /\ (DOMAIN pixels = Chunks /\ \A c \in Chunks : pixels[c] \in Selections(c))'
       /\ (DOMAIN chosen = Chunks /\ \A c \in Chunks : chosen[c] \in Selections(c))'
  BY <1>12, Zenon DEF TypeOK
<1>16. QED
  BY <1>5, <1>6, <1>7, <1>8, <1>9, <1>10, <1>11, <1>13, <1>14, <1>15 DEF TypeOK

(* The conjuncts of TypeOK, grouped by the part of the state they are      *)
(* about, so that a step proves only the groups it disturbs.               *)
CallerType == /\ caller \in CallerPoints
              /\ error \in BOOLEAN
CountType == /\ submitted \in 0..Len(SceneOrder)
             /\ joined \in Nat
             /\ started \in 0..submitted
FetchType == /\ fetch \in [Scenes -> {"idle", "running", "delivered", "raised"}]
             /\ answer \in [Pairs -> Build!Answers \cup {"pending"}]
TrackType == /\ remaining \in [Chunks -> SUBSET Scenes]
             /\ observations \subseteq Pairs
             /\ jobs \in Seq(Chunks)
StageType == /\ begun \in 0..Len(jobs)
             /\ stage \in [Chunks -> Stages]
CanvasType ==
  /\ DOMAIN taken = Chunks /\ \A c \in Chunks : taken[c] \in Selections(c)
  /\ DOMAIN pixels = Chunks /\ \A c \in Chunks : pixels[c] \in Selections(c)
  /\ DOMAIN chosen = Chunks /\ \A c \in Chunks : chosen[c] \in Selections(c)
  /\ items \in [Scenes -> Chunks \cup {NoItem}]

LEMMA TypeGroups ==
  TypeOK <=> /\ CallerType /\ CountType /\ FetchType
             /\ TrackType /\ StageType /\ CanvasType
BY Zenon DEF TypeOK, CallerType, CountType, FetchType, TrackType, StageType, CanvasType

LEMMA TypeGroupsAfter ==
  ASSUME CallerType', CountType', FetchType', TrackType', StageType', CanvasType'
  PROVE  TypeOK'
BY Zenon DEF TypeOK, CallerType, CountType, FetchType, TrackType, StageType, CanvasType

LEMMA CallerStepType ==
  ASSUME TypeOK, CallerStep
  PROVE  TypeOK'
<1> USE TypeGroups
<1>1. UNCHANGED <<started, fetch, answer, trackVars, composeVars, canvasVars>>
  BY DEF CallerStep, SubmitFetch, JoinFetch, CloseFetchPool, JoinCompose, Shutdown,
         fetchVars
<1>2. FetchType'
  BY <1>1, Zenon DEF FetchType
<1>3. TrackType'
  BY <1>1, Zenon DEF TrackType, trackVars
<1>4. StageType'
  <2>1. begun' = begun /\ stage' = stage /\ jobs' = jobs
    BY <1>1 DEF trackVars, composeVars
  <2>2. QED
    BY <2>1, Zenon DEF StageType
<1>5. CanvasType'
  <2>1. UNCHANGED <<taken, pixels, chosen, items>>
    BY <1>1 DEF composeVars, canvasVars
  <2>2. QED
    BY <2>1, Zenon DEF CanvasType
<1>6. CountType'
  <2>1. Len(SceneOrder) \in Nat
    BY OrderAssumption
  <2>2. started' = started
    BY <1>1
  <2>3. CASE SubmitFetch
    BY <2>1, <2>2, <2>3 DEF CountType, SubmitFetch
  <2>4. CASE ~SubmitFetch
    <3>1. submitted' = submitted
      BY <2>4 DEF CallerStep, JoinFetch, CloseFetchPool, JoinCompose, Shutdown, fetchVars
    <3>2. joined' \in {joined, joined + 1, 0}
      BY <2>4 DEF CallerStep, JoinFetch, CloseFetchPool, JoinCompose, Shutdown
    <3>3. QED
      BY <2>2, <3>1, <3>2 DEF CountType
  <2>5. QED
    BY <2>3, <2>4
<1>7. CallerType'
  <2>1. error' \in {error, TRUE}
    BY Zenon DEF CallerStep, SubmitFetch, JoinFetch, CloseFetchPool, JoinCompose, Shutdown
  <2>2. error' \in BOOLEAN
    BY <2>1, Zenon DEF CallerType
  <2>3. caller' \in {caller} \cup CallerPoints
    BY DEF CallerStep, SubmitFetch, JoinFetch, CloseFetchPool, JoinCompose, Shutdown,
           CallerPoints
  <2>4. QED
    BY <2>2, <2>3, Zenon DEF CallerType
<1>8. QED
  BY <1>2, <1>3, <1>4, <1>5, <1>6, <1>7, TypeGroupsAfter

LEMMA FetchStepType ==
  ASSUME TypeOK, StartFetch \/ \E s \in Scenes : FetchRaises(s)
  PROVE  TypeOK'
<1> USE TypeGroups
<1>1. UNCHANGED <<callerVars, submitted, trackVars, composeVars, canvasVars>>
  BY DEF StartFetch, FetchRaises
<1>2. CallerType' /\ TrackType'
  BY <1>1, Zenon DEF CallerType, TrackType, callerVars, trackVars
<1>3. StageType'
  <2>1. begun' = begun /\ stage' = stage /\ jobs' = jobs
    BY <1>1 DEF trackVars, composeVars
  <2>2. QED
    BY <2>1, Zenon DEF StageType
<1>4. CanvasType'
  <2>1. UNCHANGED <<taken, pixels, chosen, items>>
    BY <1>1 DEF composeVars, canvasVars
  <2>2. QED
    BY <2>1, Zenon DEF CanvasType
<1>5. CountType'
  <2>1. submitted' = submitted /\ joined' = joined
    BY <1>1 DEF callerVars
  <2>2. started' = started \/ (started < submitted /\ started' = started + 1)
    BY DEF StartFetch, FetchRaises
  <2>3. QED
    BY <2>1, <2>2, OrderAssumption, SMTT(40) DEF CountType
<1>6. FetchType'
  <2>1. CASE StartFetch
    BY <2>1 DEF FetchType, StartFetch
  <2>2. CASE \E s \in Scenes : FetchRaises(s)
    <3>1. PICK s \in Scenes : FetchRaises(s)
      BY <2>2
    <3>2. fetch' \in [Scenes -> {"idle", "running", "delivered", "raised"}]
      BY <3>1 DEF FetchType, FetchRaises
    <3>3. answer' \in [Pairs -> Build!Answers \cup {"pending"}]
      BY <3>1 DEF FetchType, FetchRaises, Build!Answers
    <3>4. QED
      BY <3>2, <3>3 DEF FetchType
  <2>3. QED
    BY <2>1, <2>2
<1>7. QED
  BY <1>2, <1>3, <1>4, <1>5, <1>6, TypeGroupsAfter

LEMMA ComposeStepType ==
  ASSUME TypeOK, StartCompose \/ \E c \in Chunks : ComposeStep(c)
  PROVE  TypeOK'
<1> USE TypeGroups
<1>1. UNCHANGED <<callerVars, fetchVars, remaining, jobs>>
  BY DEF StartCompose, ComposeStep, ComposeRaises, StitchPixels, StitchSelected,
         StitchItems, trackVars
<1>2. CallerType' /\ FetchType'
  BY <1>1, Zenon DEF CallerType, FetchType, callerVars, fetchVars
<1>3. CountType'
  <2>1. submitted' = submitted /\ joined' = joined /\ started' = started
    BY <1>1 DEF callerVars, fetchVars
  <2>2. QED
    BY <2>1, Zenon DEF CountType
<1>4. TrackType'
  <2>1. observations' \subseteq observations
    BY DEF StartCompose, AfterPop, ComposeStep, ComposeRaises, StitchPixels,
           StitchSelected, StitchItems, trackVars
  <2>2. remaining' = remaining /\ jobs' = jobs
    BY <1>1
  <2>3. QED
    BY <2>1, <2>2 DEF TrackType
<1>5. CASE StartCompose
  <2> DEFINE c == jobs[begun + 1]
  <2>1. c \in Chunks
    BY <1>5 DEF StartCompose, StageType, TrackType
  <2>2. StageType'
    BY <1>1, <1>5 DEF StartCompose, StageType, TrackType, Stages, TerminalStages, ActiveStages
  <2>3. Popped(c) \in SUBSET ScenesOf(c)
    BY DEF Popped
  <2>4. InPlanOrder(c, Popped(c)) \in Selections(c)
    BY <2>3, Zenon DEF Selections
  <2>5. taken' = [taken EXCEPT ![c] = InPlanOrder(c, Popped(c))]
    BY <1>5, Zenon DEF StartCompose
  <2>6. UNCHANGED <<pixels, chosen, items>>
    BY <1>5 DEF StartCompose, canvasVars
  <2>7. DOMAIN taken' = Chunks /\ \A d \in Chunks : taken'[d] \in Selections(d)
    BY <2>1, <2>4, <2>5 DEF CanvasType
  <2>8. CanvasType'
    BY <2>6, <2>7, Zenon DEF CanvasType
  <2>9. QED
    BY <1>2, <1>3, <1>4, <2>2, <2>8, TypeGroupsAfter
<1>6. CASE \E c \in Chunks : ComposeStep(c)
  <2>1. PICK c \in Chunks : ComposeStep(c)
    BY <1>6
  <2>2. StageType'
    <3>1. begun' = begun /\ jobs' = jobs
      BY <1>1, <2>1 DEF ComposeStep, ComposeRaises, StitchPixels, StitchSelected, StitchItems
    <3>2. \E st \in Stages : stage' = [stage EXCEPT ![c] = st]
      BY <2>1 DEF ComposeStep, ComposeRaises, StitchPixels, StitchSelected, StitchItems,
                  Stages, ActiveStages, TerminalStages
    <3>3. QED
      BY <3>1, <3>2 DEF StageType
  <2>3. taken' = taken
    BY <2>1 DEF ComposeStep, ComposeRaises, StitchPixels, StitchSelected, StitchItems
  <2>4. pixels' \in {pixels, [pixels EXCEPT ![c] = taken[c]]}
    BY <2>1 DEF ComposeStep, ComposeRaises, StitchPixels, StitchSelected, StitchItems, canvasVars
  <2>5. chosen' \in {chosen, [chosen EXCEPT ![c] = taken[c]]}
    BY <2>1 DEF ComposeStep, ComposeRaises, StitchPixels, StitchSelected, StitchItems,
                canvasVars, GlobalIndices
  <2>6. items' \in {items, ItemsAfter(c)}
    BY <2>1 DEF ComposeStep, ComposeRaises, StitchPixels, StitchSelected, StitchItems, canvasVars
  <2>7. items' \in [Scenes -> Chunks \cup {NoItem}]
    BY <2>6 DEF CanvasType, ItemsAfter
  <2>8. DOMAIN pixels' = Chunks /\ \A d \in Chunks : pixels'[d] \in Selections(d)
    BY <2>4 DEF CanvasType
  <2>9. DOMAIN chosen' = Chunks /\ \A d \in Chunks : chosen'[d] \in Selections(d)
    BY <2>5 DEF CanvasType
  <2>10. CanvasType'
    BY <2>3, <2>7, <2>8, <2>9, Zenon DEF CanvasType
  <2>11. QED
    BY <1>2, <1>3, <1>4, <2>2, <2>10, TypeGroupsAfter
<1>7. QED
  BY <1>5, <1>6

(* Every disjunct of the next-state relation preserves it.                 *)
LEMMA TypeStep == TypeOK /\ [Next]_vars => TypeOK'
<1> SUFFICES ASSUME TypeOK, [Next]_vars PROVE TypeOK'
  OBVIOUS
<1>1. CASE CallerStep
  BY <1>1, CallerStepType
<1>2. CASE StartFetch \/ \E s \in Scenes : FetchRaises(s)
  BY <1>2, FetchStepType
<1>3. CASE \E s \in Scenes : FetchReturns(s)
  BY <1>3, DeliverType DEF FetchReturns
<1>4. CASE StartCompose \/ \E c \in Chunks : ComposeStep(c)
  BY <1>4, ComposeStepType
<1>5. CASE UNCHANGED vars
  <2>1. UNCHANGED <<caller, error, joined, submitted, started, fetch, answer>>
    BY <1>5 DEF vars, callerVars, fetchVars
  <2>2. UNCHANGED <<remaining, observations, jobs, begun, stage, taken>>
    BY <1>5 DEF vars, trackVars, composeVars
  <2>3. UNCHANGED <<pixels, chosen, items>>
    BY <1>5 DEF vars, canvasVars
  <2>4. QED
    BY <2>1, <2>2, <2>3, Zenon DEF TypeOK
<1>6. QED
  BY <1>1, <1>2, <1>3, <1>4, <1>5 DEF Next, Finished

(* Every counter, queue and window keeps its type on every step.           *)
THEOREM TypeCorrect == SafeSpec => []TypeOK
BY InitType, TypeStep, PTL DEF SafeSpec

-----------------------------------------------------------------------------
(* The invariant of the dispatcher.                                        *)

Given == {"obs", "bad", "none"}
Usable(c) == {s \in ScenesOf(c) : answer[<<s, c>>] \in {"obs", "bad"}}

(* compose_futures lists each submitted chunk once; the first `begun' of   *)
(* them have been picked up.                                               *)
JobsInv ==
  /\ \A i, j \in 1..Len(jobs) : jobs[i] = jobs[j] => i = j
  /\ \A i \in 1..Len(jobs) : IF i > begun THEN stage[jobs[i]] = "queued"
                             ELSE stage[jobs[i]] \notin {"waiting", "queued"}
  /\ \A c \in Chunks : stage[c] # "waiting" => \E i \in 1..Len(jobs) : jobs[i] = c

(* A key in the observations dict was written by a fetch that is over.     *)
KeyInv ==
  \A p \in observations : fetch[p[1]] = "delivered" /\ answer[p] \in Given

(* Fetch tasks start in submission order.                                  *)
FifoInv ==
  \A i \in 1..Len(SceneOrder) : i > started => fetch[SceneOrder[i]] = "idle"

(* Where a chunk stands determines what is known of its scenes and window. *)
WaitingInv(c) ==
  stage[c] = "waiting" =>
    /\ remaining[c] # {}
    /\ \A s \in ScenesOf(c) : s \in remaining[c] \/ <<s, c>> \in observations
QueuedInv(c) ==
  stage[c] = "queued" => \A s \in ScenesOf(c) : <<s, c>> \in observations
BlankInv(c) ==
  stage[c] \in {"waiting", "queued"} => pixels[c] = <<>> /\ chosen[c] = <<>>
SettledInv(c) ==
  stage[c] \notin {"waiting", "queued"} =>
    \A s \in ScenesOf(c) : fetch[s] = "delivered" /\ answer[<<s, c>>] \in Given
TookInv(c) ==
  stage[c] = "took" => Usable(c) # {} /\ taken[c] = InPlanOrder(c, Usable(c))
PaintedInv(c) ==
  /\ stage[c] \in {"painted", "mapped", "done"} => pixels[c] = Build!Reference(c)
  /\ stage[c] \in {"painted", "mapped"} => taken[c] = pixels[c]
  /\ stage[c] \in {"mapped", "done"} => chosen[c] = pixels[c]
ChunkInv(c) == /\ WaitingInv(c) /\ QueuedInv(c) /\ BlankInv(c)
               /\ SettledInv(c) /\ TookInv(c) /\ PaintedInv(c)

DispatchInv == TypeOK /\ FifoInv /\ JobsInv /\ KeyInv /\ \A c \in Chunks : ChunkInv(c)

LEMMA DispatchInit == Init => DispatchInv
<1> SUFFICES ASSUME Init PROVE DispatchInv
  OBVIOUS
<1>1. TypeOK
  BY InitType
<1>2. JobsInv /\ KeyInv
  BY DEF Init, JobsInv, KeyInv
<1>3. FifoInv
  BY OrderAssumption DEF Init, FifoInv
<1>4. ASSUME NEW c \in Chunks PROVE ChunkInv(c)
  <2>1. stage[c] = "waiting" /\ remaining[c] = ScenesOf(c)
        /\ pixels[c] = <<>> /\ chosen[c] = <<>>
    BY DEF Init
  <2>2. QED
    BY <2>1, ScenesOfType
    DEF ChunkInv, WaitingInv, QueuedInv, BlankInv, SettledInv, TookInv, PaintedInv
<1>5. QED
  BY <1>1, <1>2, <1>3, <1>4 DEF DispatchInv

(* A chunk keeps its standing on a step that leaves its own bookkeeping    *)
(* alone, drops none of its observations, and rewrites no answer of a      *)
(* fetch that is over.                                                     *)
LEMMA ChunkKept ==
  ASSUME DispatchInv, NEW c \in Chunks,
         stage'[c] = stage[c], remaining'[c] = remaining[c], taken'[c] = taken[c],
         pixels'[c] = pixels[c], chosen'[c] = chosen[c],
         \A s \in ScenesOf(c) : <<s, c>> \in observations => <<s, c>> \in observations',
         \A s \in ScenesOf(c) : fetch[s] = "delivered" =>
            fetch'[s] = "delivered" /\ answer'[<<s, c>>] = answer[<<s, c>>]
  PROVE  ChunkInv(c)'
<1>1. ChunkInv(c) /\ (ScenesOf(c))' = ScenesOf(c)
  BY DEF DispatchInv, ScenesOf
<1>2. WaitingInv(c)' /\ QueuedInv(c)' /\ BlankInv(c)'
  BY <1>1 DEF ChunkInv, WaitingInv, QueuedInv, BlankInv
<1>3. CASE stage[c] \in {"waiting", "queued"}
  BY <1>2, <1>3 DEF ChunkInv, SettledInv, TookInv, PaintedInv
<1>4. CASE stage[c] \notin {"waiting", "queued"}
  <2>1. \A s \in ScenesOf(c) : /\ fetch'[s] = "delivered"
                               /\ answer[<<s, c>>] \in Given
                               /\ answer'[<<s, c>>] = answer[<<s, c>>]
    BY <1>1, <1>4 DEF ChunkInv, SettledInv
  <2>2. SettledInv(c)'
    BY <1>1, <2>1 DEF SettledInv
  <2>3. Usable(c)' = Usable(c)
    BY <1>1, <2>1 DEF Usable
  <2>4. (Build!Contributors(c))' = Build!Contributors(c)
    <3>1. Build!Contributors(c) = {s \in ScenesOf(c) : answer[<<s, c>>] = "obs"}
      BY DEF Build!Contributors, ScenesOf
    <3>2. (Build!Contributors(c))' = {s \in ScenesOf(c) : answer'[<<s, c>>] = "obs"}
      BY <1>1 DEF Build!Contributors, ScenesOf
    <3>3. QED
      BY <2>1, <3>1, <3>2
  <2>5. (Build!Reference(c))' = Build!Reference(c)
    BY <2>4 DEF Build!Reference
  <2>6. TookInv(c)' /\ PaintedInv(c)'
    BY <1>1, <2>3, <2>5 DEF ChunkInv, TookInv, PaintedInv, InPlanOrder
  <2>7. QED
    BY <1>2, <2>2, <2>6 DEF ChunkInv
<1>5. QED
  BY <1>3, <1>4

(* A step that leaves alone all the state the invariant reads preserves it.*)
LEMMA DispatchStutter ==
  ASSUME DispatchInv, TypeOK',
         UNCHANGED <<started, fetch, answer, remaining, observations, jobs, begun,
                     stage, taken, pixels, chosen>>
  PROVE  DispatchInv'
<1>1. FifoInv' /\ JobsInv' /\ KeyInv'
  BY DEF DispatchInv, FifoInv, JobsInv, KeyInv
<1>2. ASSUME NEW c \in Chunks PROVE ChunkInv(c)'
  BY ChunkKept
<1>3. QED
  BY <1>1, <1>2 DEF DispatchInv

(* A chunk with a scene whose fetch is not over is still waiting.          *)
LEMMA UnfinishedMeansWaiting ==
  ASSUME DispatchInv, NEW c \in Chunks, NEW s \in ScenesOf(c),
         fetch[s] # "delivered"
  PROVE  stage[c] = "waiting" /\ <<s, c>> \notin observations
<1>1. ChunkInv(c) /\ KeyInv
  BY DEF DispatchInv
<1>2. <<s, c>> \notin observations
  BY <1>1 DEF KeyInv
<1>3. stage[c] # "queued"
  BY <1>1, <1>2 DEF ChunkInv, QueuedInv
<1>4. stage[c] \in {"waiting", "queued"}
  BY <1>1 DEF ChunkInv, SettledInv
<1>5. QED
  BY <1>2, <1>3, <1>4

(* A scene that starts or fails to be fetched changes no chunk's standing. *)
LEMMA DispatchFetchStep ==
  ASSUME DispatchInv, TypeOK', StartFetch \/ \E s \in Scenes : FetchRaises(s)
  PROVE  DispatchInv'
<1>1. UNCHANGED <<remaining, observations, jobs, begun, stage, taken, pixels, chosen>>
  BY DEF StartFetch, FetchRaises, trackVars, composeVars, canvasVars
<1>2. /\ \A s \in Scenes : fetch[s] = "delivered" => fetch'[s] = "delivered"
      /\ \A p \in Pairs : fetch[p[1]] = "delivered" => answer'[p] = answer[p]
      /\ FifoInv'
  <2>1. CASE StartFetch
    <3>1. /\ started' = started + 1 /\ answer' = answer
          /\ started + 1 \in 1..Len(SceneOrder)
          /\ fetch' = [fetch EXCEPT ![SceneOrder[started + 1]] = "running"]
      BY <2>1, OrderAssumption DEF StartFetch, DispatchInv, TypeOK
    <3>2. fetch[SceneOrder[started + 1]] = "idle"
      BY <3>1 DEF DispatchInv, FifoInv, TypeOK
    <3>3. \A s \in Scenes : fetch[s] = "delivered" => fetch'[s] = "delivered"
      BY <3>1, <3>2 DEF DispatchInv, TypeOK
    <3>4. ASSUME NEW i \in 1..Len(SceneOrder), i > started + 1
          PROVE  fetch'[SceneOrder[i]] = "idle"
      <4>1. SceneOrder[i] # SceneOrder[started + 1]
        <5>1. started + 1 \in DOMAIN SceneOrder /\ i \in DOMAIN SceneOrder
          BY <3>1, OrderAssumption, SMTT(40)
        <5>2. i # started + 1
          BY <3>4
        <5>3. QED
          BY <5>1, <5>2, OrderAssumption DEF IsInjective
      <4>2. SceneOrder[i] \in Scenes
        BY OrderAssumption
      <4>3. fetch[SceneOrder[i]] = "idle"
        BY <3>4 DEF DispatchInv, FifoInv, TypeOK
      <4>4. QED
        BY <3>1, <4>1, <4>2, <4>3 DEF DispatchInv, TypeOK
    <3>5. FifoInv'
      BY <3>1, <3>4 DEF FifoInv
    <3>6. QED
      BY <3>1, <3>3, <3>5
  <2>2. CASE \E s \in Scenes : FetchRaises(s)
    <3>1. PICK s \in Scenes : FetchRaises(s)
      BY <2>2
    <3>2. /\ fetch[s] = "running" /\ started' = started
          /\ fetch' = [fetch EXCEPT ![s] = "raised"]
          /\ answer' = [p \in Pairs |-> IF p[1] = s THEN "failed" ELSE answer[p]]
      BY <3>1 DEF FetchRaises
    <3>3. FifoInv'
      <4>1. ASSUME NEW i \in 1..Len(SceneOrder), i > started
            PROVE  fetch'[SceneOrder[i]] = "idle"
        <5>1. fetch[SceneOrder[i]] = "idle" /\ SceneOrder[i] # s
          BY <3>2, <4>1 DEF FifoInv, DispatchInv
        <5>2. SceneOrder[i] \in Scenes
          BY OrderAssumption
        <5>3. QED
          BY <3>2, <5>1, <5>2 DEF DispatchInv, TypeOK
      <4>2. QED
        BY <3>2, <4>1 DEF FifoInv
    <3>4. QED
      BY <3>2, <3>3 DEF DispatchInv, TypeOK
  <2>3. QED
    BY <2>1, <2>2
<1>3. \A p \in Pairs : p[1] \in Scenes
  BY PairsDef, ScenesOfType
<1>4. KeyInv'
  <2>1. ASSUME NEW p \in observations
        PROVE  fetch'[p[1]] = "delivered" /\ answer'[p] \in Given
    <3>1. p \in Pairs
      BY DEF DispatchInv, TypeOK
    <3>2. fetch[p[1]] = "delivered" /\ answer[p] \in Given
      BY DEF DispatchInv, KeyInv
    <3>3. QED
      BY <1>2, <1>3, <3>1, <3>2
  <2>2. observations' = observations
    BY <1>1
  <2>3. QED
    BY <2>1, <2>2 DEF KeyInv, Given
<1>5. JobsInv'
  BY <1>1 DEF DispatchInv, JobsInv
<1>6. ASSUME NEW c \in Chunks PROVE ChunkInv(c)'
  <2>1. \A s \in ScenesOf(c) : s \in Scenes /\ <<s, c>> \in Pairs
    BY ScenesOfType, PairMember
  <2>2. QED
    BY <1>1, <1>2, <2>1, ChunkKept
<1>7. QED
  BY <1>2, <1>4, <1>5, <1>6 DEF DispatchInv

(* Every other step of the dispatcher concerns one chunk c: a compose      *)
(* worker picks c up ...                                                   *)
LEMMA DispatchStartCompose ==
  ASSUME DispatchInv, TypeOK', StartCompose
  PROVE  DispatchInv'
<1>. PICK c : c = jobs[begun + 1]
  OBVIOUS
<1>1. c \in Chunks /\ begun + 1 \in 1..Len(jobs) /\ begun \in Nat /\ Len(jobs) \in Nat
  BY DEF DispatchInv, TypeOK, StartCompose
<1>2. /\ UNCHANGED <<started, fetch, answer, remaining, jobs, pixels, chosen>>
      /\ begun' = begun + 1
      /\ taken' = [taken EXCEPT ![c] = InPlanOrder(c, Popped(c))]
      /\ stage' = [stage EXCEPT ![c] = IF Popped(c) = {} THEN "done" ELSE "took"]
      /\ observations' = observations \ {<<s, c>> : s \in ScenesOf(c)}
  BY Zenon DEF StartCompose, fetchVars, canvasVars, AfterPop
<1>3. stage[c] = "queued"
  BY <1>1 DEF DispatchInv, JobsInv
<1>4. \A s \in ScenesOf(c) : /\ <<s, c>> \in observations
                             /\ fetch[s] = "delivered"
                             /\ answer[<<s, c>>] \in Given
  <2>1. \A s \in ScenesOf(c) : <<s, c>> \in observations
    BY <1>1, <1>3 DEF DispatchInv, ChunkInv, QueuedInv
  <2>2. QED
    BY <2>1 DEF DispatchInv, KeyInv
<1>5. Popped(c) = Usable(c)
  BY <1>4 DEF Popped, Usable
<1>6. /\ DOMAIN stage = Chunks /\ DOMAIN taken = Chunks
  BY DEF DispatchInv, TypeOK
<1>7. FifoInv' /\ KeyInv'
  <2>1. observations' \subseteq observations
    BY <1>2
  <2>2. QED
    BY <1>2, <2>1 DEF DispatchInv, FifoInv, KeyInv
<1>8. JobsInv'
  <2>1. \A i \in 1..Len(jobs) : i # begun + 1 => jobs[i] # c
    BY <1>1 DEF DispatchInv, JobsInv
  <2>2. \A i \in 1..Len(jobs) : jobs[i] \in Chunks
    BY DEF DispatchInv, TypeOK
  <2>3. stage'[c] \in {"done", "took"} /\ \A d \in Chunks : d # c => stage'[d] = stage[d]
    BY <1>1, <1>2, <1>6
  <2>4. \A i \in 1..Len(jobs) : IF i > begun + 1 THEN stage'[jobs[i]] = "queued"
                                ELSE stage'[jobs[i]] \notin {"waiting", "queued"}
    <3>1. ASSUME NEW i \in 1..Len(jobs), i # begun + 1
          PROVE  stage'[jobs[i]] = stage[jobs[i]] /\ (i > begun + 1 <=> i > begun)
      BY <1>1, <2>1, <2>2, <2>3, <3>1
    <3>2. QED
      BY <1>1, <2>3, <3>1 DEF DispatchInv, JobsInv
  <2>5. \A d \in Chunks : stage'[d] # "waiting" => \E i \in 1..Len(jobs) : jobs[i] = d
    BY <1>1, <2>3 DEF DispatchInv, JobsInv
  <2>6. QED
    BY <1>2, <2>4, <2>5 DEF DispatchInv, JobsInv
<1>9. ASSUME NEW d \in Chunks PROVE ChunkInv(d)'
  <2>1. CASE d # c
    BY <1>2, <1>6, <2>1, ChunkKept
  <2>2. CASE d = c
    <3>1. /\ (ScenesOf(c))' = ScenesOf(c) /\ Usable(c)' = Usable(c)
          /\ (Build!Contributors(c))' = Build!Contributors(c)
      BY <1>2 DEF ScenesOf, Usable, Build!Contributors
    <3>2. stage'[c] \in {"done", "took"}
          /\ (stage'[c] = "done" => Usable(c) = {})
          /\ (stage'[c] = "took" => Usable(c) # {} /\ taken'[c] = InPlanOrder(c, Usable(c)))
      BY <1>1, <1>2, <1>5, <1>6
    <3>3. pixels'[c] = <<>> /\ chosen'[c] = <<>>
      BY <1>1, <1>2, <1>3 DEF DispatchInv, ChunkInv, BlankInv
    <3>4. Build!Contributors(c) \subseteq Usable(c)
      BY DEF Build!Contributors, Usable, ScenesOf
    <3>5. stage'[c] = "done" => (Build!Reference(c))' = <<>>
      BY <3>1, <3>2, <3>4 DEF Build!Reference
    <3>6. SettledInv(c)'
      BY <1>2, <1>4, <3>1 DEF SettledInv
    <3>7. TookInv(c)' /\ PaintedInv(c)'
      BY <3>1, <3>2, <3>3, <3>5 DEF TookInv, PaintedInv, InPlanOrder
    <3>8. WaitingInv(c)' /\ QueuedInv(c)' /\ BlankInv(c)'
      BY <3>2 DEF WaitingInv, QueuedInv, BlankInv
    <3>9. ChunkInv(c)'
      BY <3>6, <3>7, <3>8 DEF ChunkInv
    <3>10. QED
      BY <2>2, <3>9
  <2>3. QED
    BY <2>1, <2>2
<1>10. QED
  BY <1>7, <1>8, <1>9 DEF DispatchInv

(* ... a compose worker takes its next step on c ...                       *)
LEMMA DispatchComposeStep ==
  ASSUME DispatchInv, TypeOK', NEW c \in Chunks, ComposeStep(c)
  PROVE  DispatchInv'
<1>1. UNCHANGED <<started, fetch, answer, remaining, observations, jobs, begun, taken>>
  BY DEF ComposeStep, ComposeRaises, StitchPixels, StitchSelected, StitchItems,
         fetchVars, trackVars
<1>2. /\ stage[c] \in ActiveStages
      /\ \E st \in {"painted", "mapped", "done", "failed"} : stage' = [stage EXCEPT ![c] = st]
  BY DEF ComposeStep, ComposeRaises, StitchPixels, StitchSelected, StitchItems,
         ActiveStages
<1>3. /\ stage'[c] \in {"painted", "mapped", "done", "failed"}
      /\ \A d \in Chunks : d # c => stage'[d] = stage[d]
  BY <1>2 DEF DispatchInv, TypeOK
<1>4. \A d \in Chunks : d # c => pixels'[d] = pixels[d] /\ chosen'[d] = chosen[d]
  BY DEF ComposeStep, ComposeRaises, StitchPixels, StitchSelected, StitchItems,
         DispatchInv, TypeOK, canvasVars
<1>5. FifoInv' /\ KeyInv'
  BY <1>1 DEF DispatchInv, FifoInv, KeyInv
<1>6. JobsInv'
  <2>1. \A i \in 1..Len(jobs) : jobs[i] \in Chunks
    BY DEF DispatchInv, TypeOK
  <2>2. \A i \in 1..Len(jobs) : IF i > begun THEN stage'[jobs[i]] = "queued"
                                ELSE stage'[jobs[i]] \notin {"waiting", "queued"}
    BY <1>2, <1>3, <2>1 DEF DispatchInv, JobsInv, ActiveStages
  <2>3. \A d \in Chunks : stage'[d] # "waiting" => \E i \in 1..Len(jobs) : jobs[i] = d
    BY <1>2, <1>3 DEF DispatchInv, JobsInv, ActiveStages
  <2>4. QED
    BY <1>1, <2>2, <2>3 DEF DispatchInv, JobsInv
<1>7. ASSUME NEW d \in Chunks, d # c PROVE ChunkInv(d)'
  BY <1>1, <1>3, <1>4, <1>7, ChunkKept
<1>8. ChunkInv(c)'
  <2>1. ChunkInv(c)
    BY DEF DispatchInv
  <2>2. /\ (ScenesOf(c))' = ScenesOf(c) /\ Usable(c)' = Usable(c)
        /\ (Build!Contributors(c))' = Build!Contributors(c)
    BY <1>1 DEF ScenesOf, Usable, Build!Contributors
  <2>3. (Build!Reference(c))' = Build!Reference(c)
    BY <2>2 DEF Build!Reference
  <2>4. WaitingInv(c)' /\ QueuedInv(c)' /\ BlankInv(c)' /\ TookInv(c)'
    BY <1>3 DEF WaitingInv, QueuedInv, BlankInv, TookInv
  <2>5. SettledInv(c)'
    BY <1>1, <1>2, <2>1, <2>2 DEF ChunkInv, SettledInv, ActiveStages
  <2>6. PaintedInv(c)'
    <3>0. DOMAIN stage = Chunks /\ DOMAIN pixels = Chunks /\ DOMAIN chosen = Chunks
      BY DEF DispatchInv, TypeOK
    <3>1. CASE ComposeRaises(c)
      BY <3>0, <3>1 DEF ComposeRaises, PaintedInv
    <3>2. CASE StitchPixels(c)
      <4>1. Usable(c) = Build!Contributors(c)
        BY <3>2 DEF StitchPixels, Usable, Build!Contributors, ScenesOf
      <4>2. taken[c] = Build!Reference(c)
        BY <2>1, <3>2, <4>1 DEF ChunkInv, TookInv, StitchPixels, Build!Reference, InPlanOrder
      <4>3. stage'[c] = "painted" /\ pixels'[c] = taken[c]
        BY <3>0, <3>2 DEF StitchPixels
      <4>4. QED
        BY <1>1, <2>3, <4>2, <4>3 DEF PaintedInv
    <3>3. CASE StitchSelected(c)
      <4>1. /\ stage[c] = "painted" /\ stage'[c] = "mapped"
            /\ pixels' = pixels /\ chosen'[c] = taken[c]
        BY <3>0, <3>3 DEF StitchSelected, GlobalIndices
      <4>2. QED
        BY <1>1, <2>1, <2>3, <4>1 DEF ChunkInv, PaintedInv
    <3>4. CASE StitchItems(c)
      <4>1. /\ stage[c] = "mapped" /\ stage'[c] = "done"
            /\ pixels' = pixels /\ chosen' = chosen
        BY <3>0, <3>4 DEF StitchItems
      <4>2. QED
        BY <2>1, <2>3, <4>1 DEF ChunkInv, PaintedInv
    <3>5. QED
      BY <3>1, <3>2, <3>3, <3>4 DEF ComposeStep
  <2>7. QED
    BY <2>4, <2>5, <2>6 DEF ChunkInv
<1>9. QED
  BY <1>5, <1>6, <1>7, <1>8 DEF DispatchInv

(* ... or the answers for one scene are merged.                            *)
LEMMA DispatchDeliver ==
  ASSUME DispatchInv, TypeOK', NEW s \in Scenes,
         NEW reply \in [ChunksOf(s) -> Replies], Deliver(s, reply)
  PROVE  DispatchInv'
<1>a. PICK listed : listed = {c \in ChunksOf(s) : reply[c] # "omitted"}
  OBVIOUS
<1>b. PICK ready : ready = {c \in listed : Resolves(c, s)}
  OBVIOUS
<1>1. PICK order \in Bijection(1..Cardinality(ready), ready) :
        jobs' = jobs \o order
  BY <1>a, <1>b DEF Deliver
<1>2. /\ fetch[s] = "running"
      /\ fetch' = [fetch EXCEPT ![s] = "delivered"]
      /\ answer' = [p \in Pairs |-> IF p[1] = s THEN reply[p[2]] ELSE answer[p]]
      /\ observations' = observations \cup {<<s, c>> : c \in listed}
      /\ remaining' = [c \in Chunks |-> IF c \in listed /\ stage[c] = "waiting"
                                        THEN remaining[c] \ {s} ELSE remaining[c]]
      /\ stage' = [c \in Chunks |-> IF c \in ready THEN "queued" ELSE stage[c]]
      /\ UNCHANGED <<started, begun, taken, pixels, chosen>>
  BY <1>a, <1>b DEF Deliver, canvasVars
<1>3. \A c \in ChunksOf(s) :
        c \in Chunks /\ s \in ScenesOf(c) /\ stage[c] = "waiting" /\ <<s, c>> \notin observations
  BY <1>2, UnfinishedMeansWaiting DEF ChunksOf
<1>4. ready \subseteq listed /\ listed \subseteq ChunksOf(s) /\ listed \subseteq Chunks
  BY <1>a, <1>b DEF ChunksOf
<1>5. \A c \in listed : <<s, c>> \in Pairs /\ reply[c] \in Given
  BY <1>a, <1>3, <1>4, PairMember DEF Replies, Given
<1>6. DOMAIN fetch = Scenes /\ DOMAIN stage = Chunks
  BY DEF DispatchInv, TypeOK
<1>7. FifoInv'
  <2>1. ASSUME NEW i \in 1..Len(SceneOrder), i > started
        PROVE  fetch'[SceneOrder[i]] = "idle"
    <3>1. fetch[SceneOrder[i]] = "idle" /\ SceneOrder[i] # s
      BY <1>2, <2>1 DEF FifoInv, DispatchInv
    <3>2. SceneOrder[i] \in Scenes
      BY OrderAssumption
    <3>3. QED
      BY <1>2, <1>6, <3>1, <3>2
  <2>2. QED
    BY <1>2, <2>1 DEF FifoInv
<1>8. KeyInv'
  <2>1. ASSUME NEW p \in observations
        PROVE  fetch'[p[1]] = "delivered" /\ answer'[p] \in Given
    <3>1. p \in Pairs /\ fetch[p[1]] = "delivered" /\ answer[p] \in Given
      BY DEF DispatchInv, TypeOK, KeyInv
    <3>2. p[1] \in Scenes /\ p[1] # s
      BY <1>2, <3>1, PairsDef, ScenesOfType
    <3>3. QED
      BY <1>2, <1>6, <3>1, <3>2
  <2>2. ASSUME NEW c \in listed
        PROVE  fetch'[s] = "delivered" /\ answer'[<<s, c>>] \in Given
    BY <1>2, <1>5, <1>6
  <2>3. QED
    BY <1>2, <2>1, <2>2 DEF KeyInv, Given
<1>9. JobsInv'
  <2>1. order \in Seq(Chunks) /\ Len(order) \in Nat
        /\ (\A i \in 1..Len(order) : order[i] \in ready)
        /\ (\A c \in ready : \E i \in 1..Len(order) : order[i] = c)
        /\ (\A i, j \in 1..Len(order) : order[i] = order[j] => i = j)
    <3>1. ready \in SUBSET Chunks
      BY <1>4
    <3>2. /\ order \in Seq(ready) /\ Len(order) \in Nat
          /\ \A c \in ready : \E i \in 1..Len(order) : order[i] = c
          /\ \A i, j \in 1..Len(order) : order[i] = order[j] => i = j
      BY <1>1, <3>1, OrderIsSeq
    <3>3. \A i \in 1..Len(order) : order[i] \in ready
      BY <3>2
    <3>4. order \in Seq(Chunks)
      BY <3>1, <3>2
    <3>5. QED
      BY <3>2, <3>3, <3>4
  <2>2. jobs \in Seq(Chunks) /\ Len(jobs) \in Nat /\ begun \in 0..Len(jobs)
    BY DEF DispatchInv, TypeOK
  <2>3. /\ Len(jobs') = Len(jobs) + Len(order)
        /\ \A i \in 1..Len(jobs) : jobs'[i] = jobs[i]
        /\ \A i \in 1..Len(order) : jobs'[Len(jobs) + i] = order[i]
    <3>1. order \in Seq(Chunks) /\ jobs \in Seq(Chunks) /\ jobs' = jobs \o order
      BY <1>1, <2>1, <2>2
    <3>2. Len(jobs') = Len(jobs) + Len(order)
      BY <3>1
    <3>3. \A i \in 1..Len(jobs) : jobs'[i] = jobs[i]
      BY <3>1
    <3>4. \A i \in 1..Len(order) : jobs'[Len(jobs) + i] = order[i]
      BY <3>1
    <3>5. QED
      BY <3>2, <3>3, <3>4
  <2>4. \A i \in 1..Len(jobs) : jobs[i] \in Chunks /\ jobs[i] \notin ready
    <3>1. \A i \in 1..Len(jobs) : jobs[i] \in Chunks
      BY <2>2
    <3>2. \A i \in 1..Len(jobs) : stage[jobs[i]] # "waiting"
      BY DEF DispatchInv, JobsInv
    <3>3. \A c \in ready : stage[c] = "waiting"
      BY <1>3, <1>4
    <3>4. QED
      BY <3>1, <3>2, <3>3
  <2>5. \A i \in 1..Len(jobs') : \/ i \in 1..Len(jobs) /\ jobs'[i] = jobs[i]
                                 \/ /\ i > Len(jobs) /\ i - Len(jobs) \in 1..Len(order)
                                    /\ jobs'[i] = order[i - Len(jobs)]
                                    /\ jobs'[i] \in ready
    <3>1. ASSUME NEW i \in 1..Len(jobs'), ~(i \in 1..Len(jobs))
          PROVE  /\ i > Len(jobs) /\ i - Len(jobs) \in 1..Len(order)
                 /\ jobs'[i] = order[i - Len(jobs)]
      <4>1. i - Len(jobs) \in 1..Len(order) /\ i > Len(jobs) /\ i = Len(jobs) + (i - Len(jobs))
        BY <2>1, <2>2, <2>3, <3>1
      <4>2. QED
        BY <2>3, <4>1
    <3>2. QED
      BY <2>1, <2>3, <3>1
  <2>6. \A i, j \in 1..Len(jobs') : jobs'[i] = jobs'[j] => i = j
    <3>1. ASSUME NEW i \in 1..Len(jobs'), NEW j \in 1..Len(jobs'), jobs'[i] = jobs'[j]
          PROVE  i = j
      <4>1. CASE i \in 1..Len(jobs) /\ j \in 1..Len(jobs)
        BY <2>3, <3>1, <4>1 DEF DispatchInv, JobsInv
      <4>2. CASE i \notin 1..Len(jobs) /\ j \notin 1..Len(jobs)
        <5>1. i - Len(jobs) = j - Len(jobs)
          BY <2>1, <2>5, <3>1, <4>2
        <5>2. QED
          BY <2>2, <5>1
      <4>3. CASE (i \in 1..Len(jobs)) # (j \in 1..Len(jobs))
        BY <2>4, <2>5, <3>1, <4>3
      <4>4. QED
        BY <4>1, <4>2, <4>3
    <3>2. QED
      BY <3>1
  <2>7. ASSUME NEW i \in 1..Len(jobs')
        PROVE  IF i > begun THEN stage'[jobs'[i]] = "queued"
               ELSE stage'[jobs'[i]] \notin {"waiting", "queued"}
    <3>1. CASE i \in 1..Len(jobs)
      <4>1. stage'[jobs'[i]] = stage[jobs[i]]
        BY <1>2, <2>3, <2>4, <3>1
      <4>2. QED
        BY <3>1, <4>1 DEF DispatchInv, JobsInv
    <3>2. CASE i \notin 1..Len(jobs)
      <4>1. i > begun /\ jobs'[i] \in ready
        BY <2>2, <2>5, <3>2
      <4>2. QED
        BY <1>2, <1>4, <4>1
    <3>3. QED
      BY <3>1, <3>2
  <2>8. ASSUME NEW c \in Chunks, stage'[c] # "waiting"
        PROVE  \E i \in 1..Len(jobs') : jobs'[i] = c
    <3>1. CASE c \in ready
      <4>1. PICK i \in 1..Len(order) : order[i] = c
        BY <2>1, <3>1
      <4>2. Len(jobs) + i \in 1..Len(jobs') /\ jobs'[Len(jobs) + i] = c
        BY <2>1, <2>2, <2>3, <4>1
      <4>3. QED
        BY <4>2
    <3>2. CASE c \notin ready
      <4>1. PICK i \in 1..Len(jobs) : jobs[i] = c
        BY <1>2, <2>8, <3>2 DEF DispatchInv, JobsInv
      <4>2. i \in 1..Len(jobs') /\ jobs'[i] = c
        BY <2>1, <2>2, <2>3, <4>1
      <4>3. QED
        BY <4>2
    <3>3. QED
      BY <3>1, <3>2
  <2>9. begun' = begun
    BY <1>2
  <2>10. QED
    BY <2>6, <2>7, <2>8, <2>9 DEF JobsInv
<1>10. ASSUME NEW c \in Chunks PROVE ChunkInv(c)'
  <2>1. CASE c \notin listed
    <3>1. stage'[c] = stage[c] /\ remaining'[c] = remaining[c]
      BY <1>2, <1>4, <2>1
    <3>2. \A r \in ScenesOf(c) : r \in Scenes /\ <<r, c>> \in Pairs
      BY ScenesOfType, PairMember
    <3>3. \A r \in ScenesOf(c) : fetch[r] = "delivered" =>
            fetch'[r] = "delivered" /\ answer'[<<r, c>>] = answer[<<r, c>>]
      BY <1>2, <1>6, <3>2
    <3>4. QED
      BY <1>2, <3>1, <3>3, ChunkKept
  <2>2. CASE c \in listed
    <3>1. /\ stage[c] = "waiting"
          /\ stage'[c] = IF c \in ready THEN "queued" ELSE "waiting"
          /\ remaining'[c] = remaining[c] \ {s}
          /\ c \in ready <=> remaining'[c] = {}
          /\ <<s, c>> \in observations'
      BY <1>b, <1>2, <1>3, <1>4, <2>2 DEF Resolves
    <3>2. (ScenesOf(c))' = ScenesOf(c)
      BY DEF ScenesOf
    <3>3. \A r \in ScenesOf(c) : r \in remaining'[c] \/ <<r, c>> \in observations'
      BY <1>2, <3>1 DEF DispatchInv, ChunkInv, WaitingInv
    <3>4. WaitingInv(c)' /\ QueuedInv(c)'
      BY <3>1, <3>2, <3>3 DEF WaitingInv, QueuedInv
    <3>5. BlankInv(c)'
      BY <1>2, <3>1 DEF DispatchInv, ChunkInv, BlankInv
    <3>6. SettledInv(c)' /\ TookInv(c)' /\ PaintedInv(c)'
      BY <3>1 DEF SettledInv, TookInv, PaintedInv
    <3>7. QED
      BY <3>4, <3>5, <3>6 DEF ChunkInv
  <2>3. QED
    BY <2>1, <2>2
<1>11. QED
  BY <1>7, <1>8, <1>9, <1>10 DEF DispatchInv

(* Every disjunct of the next-state relation preserves it.                 *)
LEMMA DispatchStep == DispatchInv /\ [Next]_vars => DispatchInv'
<1> SUFFICES ASSUME DispatchInv, [Next]_vars PROVE DispatchInv'
  OBVIOUS
<1>0. TypeOK'
  BY TypeStep DEF DispatchInv
<1>1. CASE CallerStep
  <2>1. UNCHANGED <<started, fetch, answer, remaining, observations, jobs, begun,
                    stage, taken, pixels, chosen>>
    BY <1>1 DEF CallerStep, SubmitFetch, JoinFetch, CloseFetchPool, JoinCompose,
                Shutdown, fetchVars, trackVars, composeVars, canvasVars
  <2>2. QED
    BY <1>0, <2>1, DispatchStutter
<1>2. CASE StartFetch \/ \E s \in Scenes : FetchRaises(s)
  BY <1>0, <1>2, DispatchFetchStep
<1>3. CASE \E s \in Scenes : FetchReturns(s)
  BY <1>0, <1>3, DispatchDeliver DEF FetchReturns
<1>4. CASE StartCompose
  BY <1>0, <1>4, DispatchStartCompose
<1>5. CASE \E c \in Chunks : ComposeStep(c)
  BY <1>0, <1>5, DispatchComposeStep
<1>6. CASE UNCHANGED vars
  <2>1. UNCHANGED <<started, fetch, answer, remaining, observations, jobs, begun,
                    stage, taken, pixels, chosen>>
    BY <1>6 DEF vars, fetchVars, trackVars, composeVars, canvasVars
  <2>2. QED
    BY <1>0, <2>1, DispatchStutter
<1>7. QED
  BY <1>1, <1>2, <1>3, <1>4, <1>5, <1>6 DEF Next, Finished

(* The dispatcher's invariant is inductive, and holds in every state.      *)
THEOREM DispatchCorrect == SafeSpec => []DispatchInv
BY DispatchInit, DispatchStep, PTL DEF SafeSpec

(* Whatever the interleaving, what a finished chunk shows is what the      *)
(* sequential compose would have put there (composite.py:383-416).         *)
THEOREM Painted == SafeSpec => []PaintedIsSequential
<1>1. DispatchInv => PaintedIsSequential
  BY DEF DispatchInv, ChunkInv, PaintedInv, PaintedIsSequential
<1>2. QED
  BY <1>1, DispatchCorrect, PTL

(* A submitted chunk has all its keys and no fetch can write one of them   *)
(* again, so popping them without state_lock races with nobody             *)
(* (composite.py:351-352 against 383-395).                                 *)
THEOREM PopIsSettled == SafeSpec => []KeysSettledBeforePop
<1>1. DispatchInv => KeysSettledBeforePop
  BY DEF DispatchInv, ChunkInv, QueuedInv, KeyInv, KeysSettledBeforePop
<1>2. QED
  BY <1>1, DispatchCorrect, PTL

-----------------------------------------------------------------------------
(***************************************************************************)
(* What the caller of compose_pipelined may rely on when it returns or     *)
(* raises, from the dispatcher's invariant.                                *)
(***************************************************************************)
(* Where the caller stands determines which futures have succeeded.        *)
AllDelivered == \A s \in Scenes : fetch[s] = "delivered"
AllDone == \A i \in 1..Len(jobs) : stage[jobs[i]] = "done"
CallerInv ==
  /\ caller = "submitting" => joined = 0 /\ ~error
  /\ caller = "joining_fetches" =>
       /\ ~error /\ joined <= Len(SceneOrder)
       /\ \A i \in 1..joined : fetch[SceneOrder[i]] = "delivered"
  /\ caller = "closing" /\ ~error => AllDelivered
  /\ caller = "joining_composes" =>
       /\ ~error /\ AllDelivered /\ joined <= Len(jobs)
       /\ \A i \in 1..joined : stage[jobs[i]] = "done"
  /\ caller = "shutting_down" /\ ~error => AllDelivered /\ AllDone
  /\ caller = "returned" => AllDelivered /\ AllDone

(* With a source that answers every requested chunk, a waiting chunk       *)
(* awaits only fetches that have not delivered.                            *)
AwaitInv ==
  \A c \in Chunks : stage[c] = "waiting" =>
    \A s \in remaining[c] : s \in ScenesOf(c) /\ fetch[s] # "delivered"

(* The exception the caller holds is some worker's.                        *)
Broken == \/ \E s \in Scenes : fetch[s] = "raised"
          \/ \E c \in Chunks : stage[c] = "failed"
ErrorInv == (error \/ caller = "raised") => Broken

ReturnInv == DispatchInv /\ CallerInv

-----------------------------------------------------------------------------
(* Once every fetch has delivered, no step of a worker starts, delivers or *)
(* fails one.                                                              *)
LEMMA DeliveredMeansNoFetchStep ==
  ASSUME DispatchInv, AllDelivered
  PROVE  /\ ~StartFetch
         /\ \A s \in Scenes : ~FetchRaises(s)
         /\ \A s \in Scenes : ~FetchReturns(s)
<1>1. ASSUME StartFetch PROVE FALSE
  <2>1. started + 1 \in 1..Len(SceneOrder) /\ started + 1 > started
    BY <1>1, OrderAssumption, SMTT(40) DEF StartFetch, DispatchInv, TypeOK
  <2>2. fetch[SceneOrder[started + 1]] = "idle"
    BY <2>1 DEF DispatchInv, FifoInv
  <2>3. SceneOrder[started + 1] \in Scenes
    BY <2>1, OrderAssumption
  <2>4. QED
    BY <2>2, <2>3 DEF AllDelivered
<1>2. \A s \in Scenes : ~FetchRaises(s)
  BY DEF AllDelivered, FetchRaises
<1>3. \A s \in Scenes : ~FetchReturns(s)
  BY DEF AllDelivered, FetchReturns, Deliver
<1>4. QED
  BY <1>1, <1>2, <1>3

(* A fetch that has delivered stays delivered, and a chunk that is done    *)
(* stays done.                                                             *)
LEMMA SettledStays ==
  ASSUME DispatchInv, [Next]_vars
  PROVE  /\ \A s \in Scenes : fetch[s] = "delivered" => fetch'[s] = "delivered"
         /\ \A s \in Scenes : fetch[s] = "raised" => fetch'[s] = "raised"
         /\ \A c \in Chunks : stage[c] \in TerminalStages => stage'[c] = stage[c]
<1>0. /\ DOMAIN fetch = Scenes /\ DOMAIN stage = Chunks
  BY DEF DispatchInv, TypeOK
<1>1. CASE CallerStep
  BY <1>1 DEF CallerStep, SubmitFetch, JoinFetch, CloseFetchPool, JoinCompose,
              Shutdown, fetchVars, composeVars
<1>2. CASE StartFetch
  <2>1. started + 1 \in 1..Len(SceneOrder) /\ started + 1 > started
    BY <1>2, OrderAssumption, SMTT(40) DEF StartFetch, DispatchInv, TypeOK
  <2>2. fetch[SceneOrder[started + 1]] = "idle"
    BY <2>1 DEF DispatchInv, FifoInv
  <2>3. QED
    BY <1>0, <1>2, <2>2 DEF StartFetch, composeVars
<1>3. CASE \E s \in Scenes : FetchRaises(s)
  <2>1. PICK s \in Scenes : FetchRaises(s)
    BY <1>3
  <2>2. fetch[s] = "running" /\ fetch' = [fetch EXCEPT ![s] = "raised"] /\ stage' = stage
    BY <2>1 DEF FetchRaises, composeVars
  <2>3. QED
    BY <1>0, <2>2
<1>4. CASE \E s \in Scenes : FetchReturns(s)
  <2>0. PICK s \in Scenes : FetchReturns(s)
    BY <1>4
  <2>1. PICK reply \in [ChunksOf(s) -> Replies] : Deliver(s, reply)
    BY <2>0 DEF FetchReturns
  <2>2. fetch[s] = "running" /\ fetch' = [fetch EXCEPT ![s] = "delivered"]
    BY <2>1 DEF Deliver
  <2>3. \A c \in Chunks : stage'[c] = stage[c] \/ stage[c] = "waiting"
    BY <2>1 DEF Deliver, Resolves
  <2>4. QED
    BY <1>0, <2>2, <2>3 DEF TerminalStages
<1>5. CASE StartCompose
  <2>1. begun + 1 \in 1..Len(jobs) /\ begun + 1 > begun
    BY <1>5 DEF StartCompose, DispatchInv, TypeOK
  <2>2. stage[jobs[begun + 1]] = "queued"
    BY <2>1 DEF DispatchInv, JobsInv
  <2>3. QED
    BY <1>0, <1>5, <2>2 DEF StartCompose, fetchVars, TerminalStages
<1>6. CASE \E c \in Chunks : ComposeStep(c)
  BY <1>0, <1>6 DEF ComposeStep, ComposeRaises, StitchPixels, StitchSelected,
                    StitchItems, fetchVars, TerminalStages
<1>7. CASE UNCHANGED vars
  BY <1>7 DEF vars, fetchVars, composeVars
<1>8. QED
  BY <1>1, <1>2, <1>3, <1>4, <1>5, <1>6, <1>7 DEF Next, Finished

(* Once every fetch has delivered, the list of compose futures is final.   *)
LEMMA JobsFinal ==
  ASSUME DispatchInv, AllDelivered, [Next]_vars
  PROVE  jobs' = jobs
<1>1. \/ CallerStep \/ StartCompose \/ \E c \in Chunks : ComposeStep(c)
      \/ UNCHANGED vars
  BY DeliveredMeansNoFetchStep DEF Next, Finished
<1>2. QED
  BY <1>1 DEF CallerStep, SubmitFetch, JoinFetch, CloseFetchPool, JoinCompose,
              Shutdown, StartCompose, ComposeStep, ComposeRaises, StitchPixels,
              StitchSelected, StitchItems, trackVars, vars

LEMMA CallerInit == Init => CallerInv /\ ErrorInv
<1> SUFFICES ASSUME Init PROVE CallerInv /\ ErrorInv
  OBVIOUS
<1>1. joined = 0 /\ jobs = <<>> /\ error = FALSE
  BY DEF Init
<1>2. Chunks = {} => Scenes = {}
  BY PlanAssumption
<1>3. caller \in {"submitting", "returned"} /\ (caller = "returned" => Chunks = {})
  BY DEF Init
<1>4. CallerInv
  BY <1>1, <1>2, <1>3 DEF CallerInv, AllDelivered, AllDone
<1>5. QED
  BY <1>1, <1>3, <1>4, Zenon DEF ErrorInv

(* What the caller relies on survives every step but its own.              *)
LEMMA CallerKept ==
  ASSUME DispatchInv, CallerInv, [Next]_vars, UNCHANGED callerVars
  PROVE  CallerInv'
<1>1. caller' = caller /\ error' = error /\ joined' = joined
  BY DEF callerVars
<1>2. \A i \in 1..Len(SceneOrder) : SceneOrder[i] \in Scenes
  BY OrderAssumption
<1>3. AllDelivered => AllDelivered'
  BY SettledStays DEF AllDelivered
<1>4. AllDelivered => \A i \in 1..Len(jobs) :
         stage[jobs[i]] = "done" => stage'[jobs'[i]] = "done"
  <2>1. \A i \in 1..Len(jobs) : jobs[i] \in Chunks
    BY DEF DispatchInv, TypeOK
  <2>2. QED
    BY <2>1, SettledStays, JobsFinal DEF TerminalStages
<1>5. AllDelivered => Len(jobs') = Len(jobs)
  BY JobsFinal
<1>6. AllDelivered /\ AllDone => AllDone'
  BY <1>4, <1>5 DEF AllDone
<1>7. joined \in Nat /\ Len(SceneOrder) \in Nat /\ Len(jobs) \in Nat
  BY OrderAssumption DEF DispatchInv, TypeOK
<1>8. caller' = "joining_fetches" =>
        /\ ~error' /\ joined' <= Len(SceneOrder)
        /\ \A i \in 1..joined' : fetch'[SceneOrder[i]] = "delivered"
  BY <1>1, <1>2, <1>7, SettledStays DEF CallerInv
<1>9. caller' = "joining_composes" =>
        /\ ~error' /\ AllDelivered' /\ joined' <= Len(jobs')
        /\ \A i \in 1..joined' : stage'[jobs'[i]] = "done"
  BY <1>1, <1>3, <1>4, <1>5, <1>7 DEF CallerInv
<1>10. QED
  BY <1>1, <1>3, <1>6, <1>8, <1>9 DEF CallerInv

LEMMA CallerMoves ==
  ASSUME DispatchInv, CallerInv, CallerStep
  PROVE  CallerInv'
<1>1. UNCHANGED <<fetch, jobs, stage>>
  BY DEF CallerStep, SubmitFetch, JoinFetch, CloseFetchPool, JoinCompose, Shutdown,
         fetchVars, trackVars, composeVars
<1>2. AllDelivered' = AllDelivered /\ AllDone' = AllDone
  BY <1>1 DEF AllDelivered, AllDone
<1>3. joined \in Nat /\ Len(SceneOrder) \in Nat /\ Len(jobs) \in Nat
  BY OrderAssumption DEF DispatchInv, TypeOK
<1>4. CASE SubmitFetch
  BY <1>1, <1>2, <1>3, <1>4 DEF SubmitFetch, CallerInv
<1>5. CASE JoinFetch
  <2>1. caller = "joining_fetches" /\ ~error /\ joined <= Len(SceneOrder)
        /\ \A i \in 1..joined : fetch[SceneOrder[i]] = "delivered"
    BY <1>5 DEF JoinFetch, CallerInv
  <2>2. CASE /\ joined < Len(SceneOrder) /\ fetch[SceneOrder[joined + 1]] = "delivered"
             /\ joined' = joined + 1 /\ caller' = caller /\ error' = error
    BY <1>1, <1>3, <2>1, <2>2 DEF CallerInv
  <2>3. CASE error' = TRUE /\ caller' = "closing"
    BY <2>3 DEF CallerInv
  <2>4. CASE joined = Len(SceneOrder) /\ caller' = "closing" /\ error' = error
    <3>1. AllDelivered
      BY <2>1, <2>4, OrderAssumption DEF AllDelivered
    <3>2. QED
      BY <1>2, <2>4, <3>1 DEF CallerInv
  <2>5. QED
    BY <1>5, <2>2, <2>3, <2>4 DEF JoinFetch
<1>6. CASE CloseFetchPool
  BY <1>1, <1>2, <1>3, <1>6 DEF CloseFetchPool, CallerInv
<1>7. CASE JoinCompose
  <2>1. caller = "joining_composes" /\ ~error /\ AllDelivered /\ joined <= Len(jobs)
        /\ \A i \in 1..joined : stage[jobs[i]] = "done"
    BY <1>7 DEF JoinCompose, CallerInv
  <2>2. CASE /\ joined < Len(jobs) /\ stage[jobs[joined + 1]] = "done"
             /\ joined' = joined + 1 /\ caller' = caller /\ error' = error
    BY <1>1, <1>2, <1>3, <2>1, <2>2 DEF CallerInv
  <2>3. CASE error' = TRUE /\ caller' = "shutting_down"
    BY <2>3 DEF CallerInv
  <2>4. CASE joined = Len(jobs) /\ caller' = "shutting_down" /\ error' = error
    BY <1>2, <2>1, <2>4 DEF CallerInv, AllDone
  <2>5. QED
    BY <1>7, <2>2, <2>3, <2>4 DEF JoinCompose
<1>8. CASE Shutdown
  BY <1>2, <1>8 DEF Shutdown, CallerInv
<1>9. QED
  BY <1>4, <1>5, <1>6, <1>7, <1>8 DEF CallerStep

(* With a source that answers every requested chunk, every chunk that      *)
(* waits for a scene loses it when that scene is delivered.                *)
LEMMA AwaitInit == Init => AwaitInv
BY ScenesOfType DEF Init, AwaitInv

LEMMA AwaitStep ==
  ASSUME ~MayOmit, DispatchInv, AwaitInv, [Next]_vars
  PROVE  AwaitInv'
<1>0. DOMAIN fetch = Scenes /\ \A c \in Chunks : (ScenesOf(c))' = ScenesOf(c)
  BY DEF DispatchInv, TypeOK, ScenesOf
<1>1. CASE \E s \in Scenes : FetchReturns(s)
  <2>0. PICK s \in Scenes : FetchReturns(s)
    BY <1>1
  <2>1. PICK reply \in [ChunksOf(s) -> Replies] : Deliver(s, reply)
    BY <2>0 DEF FetchReturns
  <2>2. \A c \in ChunksOf(s) : reply[c] # "omitted"
    BY DEF Replies
  <2>3. /\ fetch' = [fetch EXCEPT ![s] = "delivered"]
        /\ \A c \in Chunks : /\ stage'[c] = "waiting" => stage[c] = "waiting"
                             /\ remaining'[c] = IF c \in ChunksOf(s) /\ stage[c] = "waiting"
                                                THEN remaining[c] \ {s} ELSE remaining[c]
    BY <2>1, <2>2 DEF Deliver
  <2>4. ASSUME NEW c \in Chunks, stage'[c] = "waiting", NEW r \in remaining'[c]
        PROVE  r \in ScenesOf(c) /\ fetch'[r] # "delivered"
    <3>1. stage[c] = "waiting" /\ r \in remaining[c]
      BY <2>3, <2>4
    <3>2. r \in ScenesOf(c) /\ fetch[r] # "delivered"
      BY <3>1 DEF AwaitInv
    <3>3. r # s
      BY <2>3, <2>4, <3>1, <3>2 DEF ChunksOf
    <3>4. r \in Scenes
      BY <3>2, ScenesOfType
    <3>5. QED
      BY <1>0, <2>3, <3>2, <3>3, <3>4
  <2>5. QED
    BY <1>0, <2>4 DEF AwaitInv
<1>2. CASE ~(\E s \in Scenes : FetchReturns(s))
  <2>1. remaining' = remaining
    BY <1>2 DEF Next, CallerStep, SubmitFetch, JoinFetch, CloseFetchPool, JoinCompose,
                Shutdown, StartFetch, FetchRaises, StartCompose, ComposeStep,
                ComposeRaises, StitchPixels, StitchSelected, StitchItems, Finished,
                trackVars, vars
  <2>2. \A c \in Chunks : stage'[c] = "waiting" => stage[c] = "waiting"
    <3>1. CASE StartCompose
      BY <3>1 DEF StartCompose, DispatchInv, TypeOK
    <3>2. CASE \E c \in Chunks : ComposeStep(c)
      BY <3>2 DEF ComposeStep, ComposeRaises, StitchPixels, StitchSelected, StitchItems,
                  DispatchInv, TypeOK
    <3>3. CASE ~StartCompose /\ ~(\E c \in Chunks : ComposeStep(c))
      <4>1. stage' = stage
        BY <1>2, <3>3 DEF Next, CallerStep, SubmitFetch, JoinFetch, CloseFetchPool,
                JoinCompose, Shutdown, StartFetch, FetchRaises, Finished, composeVars, vars
      <4>2. QED
        BY <4>1
    <3>4. QED
      BY <3>1, <3>2, <3>3
  <2>3. \A s \in Scenes : fetch'[s] = "delivered" => fetch[s] = "delivered"
    <3>1. fetch' = fetch \/ \E s \in Scenes, v \in {"running", "raised"} :
                              fetch' = [fetch EXCEPT ![s] = v]
      <4>1. CASE StartFetch
        <5>1. SceneOrder[started + 1] \in Scenes
          BY <4>1, OrderAssumption DEF StartFetch, DispatchInv, TypeOK
        <5>2. QED
          BY <4>1, <5>1 DEF StartFetch
      <4>2. CASE \E s \in Scenes : FetchRaises(s)
        BY <4>2 DEF FetchRaises
      <4>3. CASE ~StartFetch /\ ~(\E s \in Scenes : FetchRaises(s))
        BY <1>2, <4>3 DEF Next, CallerStep, SubmitFetch, JoinFetch, CloseFetchPool,
             JoinCompose, Shutdown, StartCompose, ComposeStep, ComposeRaises, StitchPixels,
             StitchSelected, StitchItems, Finished, fetchVars, vars
      <4>4. QED
        BY <4>1, <4>2, <4>3
    <3>2. QED
      BY <1>0, <3>1
  <2>4. \A c \in Chunks : ScenesOf(c) \subseteq Scenes
    BY ScenesOfType
  <2>5. QED
    BY <1>0, <2>1, <2>2, <2>3, <2>4 DEF AwaitInv
<1>3. QED
  BY <1>1, <1>2

LEMMA ErrorStep ==
  ASSUME DispatchInv, ErrorInv, [Next]_vars
  PROVE  ErrorInv'
<1>0. \A i \in 1..Len(SceneOrder) : SceneOrder[i] \in Scenes
  BY OrderAssumption
<1>1. Broken => Broken'
  BY SettledStays DEF Broken, TerminalStages
<1>2. CASE UNCHANGED callerVars
  <2>1. error' = error /\ caller' = caller
    BY <1>2 DEF callerVars
  <2>2. QED
    BY <1>1, <2>1, Zenon DEF ErrorInv
<1>3. CASE CallerStep
  <2>1. CASE error' = error /\ (caller' = "raised" => error)
    BY <1>1, <2>1, Zenon DEF ErrorInv
  <2>2. CASE error' = TRUE
    <3>1. joined \in Nat /\ jobs \in Seq(Chunks)
      BY DEF DispatchInv, TypeOK
    <3>2. \/ error = TRUE
          \/ joined < Len(SceneOrder) /\ fetch[SceneOrder[joined + 1]] = "raised"
          \/ joined < Len(jobs) /\ stage[jobs[joined + 1]] = "failed"
      BY <1>3, <2>2 DEF CallerStep, SubmitFetch, JoinFetch, CloseFetchPool, JoinCompose, Shutdown
    <3>3. joined < Len(SceneOrder) => SceneOrder[joined + 1] \in Scenes
      BY <3>1, OrderAssumption
    <3>4. joined < Len(jobs) => jobs[joined + 1] \in Chunks
      BY <3>1
    <3>5. Broken
      <4>1. CASE error = TRUE
        BY <4>1, Zenon DEF ErrorInv
      <4>2. CASE error # TRUE
        BY <3>2, <3>3, <3>4, <4>2 DEF Broken
      <4>3. QED
        BY <4>1, <4>2
    <3>6. QED
      BY <1>1, <3>5 DEF ErrorInv
  <2>3. QED
    <3>1. \/ error' = TRUE
          \/ error' = error /\ (caller' = "raised" => error)
      BY <1>3, Zenon DEF CallerStep, SubmitFetch, JoinFetch, CloseFetchPool, JoinCompose, Shutdown
    <3>2. QED
      BY <2>1, <2>2, <3>1
<1>4. QED
  <2>1. CallerStep \/ UNCHANGED callerVars
    BY DEF Next, StartFetch, FetchReturns, FetchRaises, Deliver, StartCompose, ComposeStep,
           ComposeRaises, StitchPixels, StitchSelected, StitchItems, Finished, vars, callerVars
  <2>2. QED
    BY <1>2, <1>3, <2>1

-----------------------------------------------------------------------------
(* All of it together is inductive.                                        *)
LEMMA ReturnCorrect == SafeSpec => [](ReturnInv /\ ErrorInv)
<1>1. Init => ReturnInv /\ ErrorInv
  BY DispatchInit, CallerInit DEF ReturnInv
<1>2. ReturnInv /\ ErrorInv /\ [Next]_vars => (ReturnInv /\ ErrorInv)'
  <2> SUFFICES ASSUME ReturnInv, ErrorInv, [Next]_vars PROVE (ReturnInv /\ ErrorInv)'
    OBVIOUS
  <2>1. DispatchInv'
    BY DispatchStep DEF ReturnInv
  <2>2. ErrorInv'
    BY ErrorStep DEF ReturnInv
  <2>3. CallerStep \/ UNCHANGED callerVars
    BY DEF Next, StartFetch, FetchReturns, FetchRaises, Deliver, StartCompose, ComposeStep,
           ComposeRaises, StitchPixels, StitchSelected, StitchItems, Finished, vars, callerVars
  <2>4. CallerInv'
    BY <2>3, CallerKept, CallerMoves DEF ReturnInv
  <2>5. QED
    BY <2>1, <2>2, <2>4 DEF ReturnInv
<1>3. QED
  BY <1>1, <1>2, PTL DEF SafeSpec

LEMMA AwaitCorrect == ~MayOmit /\ SafeSpec => []AwaitInv
<1> SUFFICES ASSUME ~MayOmit PROVE SafeSpec => []AwaitInv
  OBVIOUS
<1>1. DispatchInv /\ AwaitInv /\ [Next]_vars => AwaitInv'
  BY AwaitStep
<1>2. QED
  BY <1>1, AwaitInit, DispatchCorrect, PTL DEF SafeSpec

(* The build raises only when some worker raised, and never returns when   *)
(* one did: no failure is swallowed by the two joins (composite.py:418-436)*)
THEOREM FailuresSurface == SafeSpec => []FailureSurfaces
<1>1. ReturnInv /\ ErrorInv => FailureSurfaces
  <2> SUFFICES ASSUME ReturnInv, ErrorInv PROVE FailureSurfaces
    OBVIOUS
  <2>1. ASSUME caller = "returned" PROVE ~Broken
    <3>1. AllDelivered /\ AllDone
      BY <2>1 DEF ReturnInv, CallerInv
    <3>2. ASSUME NEW c \in Chunks PROVE stage[c] # "failed"
      <4>1. stage[c] # "waiting" => \E i \in 1..Len(jobs) : jobs[i] = c
        BY DEF ReturnInv, DispatchInv, JobsInv
      <4>2. QED
        BY <3>1, <4>1 DEF AllDone
    <3>3. QED
      BY <3>1, <3>2 DEF AllDelivered, Broken
  <2>2. caller = "raised" => Broken
    BY Zenon DEF ErrorInv
  <2>3. QED
    BY <2>1, <2>2 DEF FailureSurfaces, Broken
<1>2. QED
  BY <1>1, ReturnCorrect, PTL

(* With a source that answers every chunk it is asked for, what is         *)
(* returned is the sequential composite on every chunk.                    *)
THEOREM ReturnsSequential == ~MayOmit /\ SafeSpec => []ReturnedEqualsSequential
<1> SUFFICES ASSUME ~MayOmit PROVE SafeSpec => []ReturnedEqualsSequential
  OBVIOUS
<1>1. ReturnInv /\ AwaitInv => ReturnedEqualsSequential
  <2> SUFFICES ASSUME ReturnInv, AwaitInv, caller = "returned", NEW c \in Chunks
               PROVE  pixels[c] = Build!Reference(c)
    BY DEF ReturnedEqualsSequential
  <2>1. AllDelivered /\ AllDone
    BY DEF ReturnInv, CallerInv
  <2>2. ChunkInv(c)
    BY DEF ReturnInv, DispatchInv
  <2>3. stage[c] # "waiting"
    <3>1. SUFFICES ASSUME stage[c] = "waiting" PROVE FALSE
      OBVIOUS
    <3>2. PICK s \in remaining[c] : TRUE
      BY <2>2, <3>1 DEF ChunkInv, WaitingInv
    <3>3. s \in ScenesOf(c) /\ fetch[s] # "delivered"
      BY <3>1 DEF AwaitInv
    <3>4. s \in Scenes
      BY <3>3, ScenesOfType
    <3>5. QED
      BY <2>1, <3>3, <3>4 DEF AllDelivered
  <2>4. stage[c] = "done"
    BY <2>1, <2>3 DEF ReturnInv, DispatchInv, JobsInv, AllDone
  <2>5. QED
    BY <2>2, <2>4 DEF ChunkInv, PaintedInv
<1>2. QED
  BY <1>1, AwaitCorrect, ReturnCorrect, PTL

-----------------------------------------------------------------------------
(***************************************************************************)
(* ChunkPipeline implements ChunkedBuild, with a source that answers every *)
(* chunk it is asked for: proved from the invariants of the dispatcher and *)
(* of the caller, and from what a step never takes back.                   *)
(***************************************************************************)
Over == {"returned", "raised"}

(* A fetch gives its pairs their answers when it ends, and not before.     *)
AnswerInv ==
  \A p \in Pairs : /\ fetch[p[1]] \in {"idle", "running"} => answer[p] = "pending"
                   /\ fetch[p[1]] = "raised" => answer[p] = "failed"

(* A chunk is painted without rejected observations and fails for one.     *)
CleanInv ==
  \A c \in Chunks : /\ stage[c] \in {"painted", "mapped", "done"} => ~Build!Rejected(c)
                    /\ stage[c] = "failed" => Build!Rejected(c)

(* The caller passes the fetch pool, and the end, when they are quiet.     *)
FetchQuiet == \A s \in Scenes : fetch[s] \in {"delivered", "raised"}
QuietInv ==
  /\ caller \in {"joining_composes", "shutting_down"} \cup Over => FetchQuiet
  /\ caller \in Over => ComposeQuiet

RefineInv == ReturnInv /\ ErrorInv /\ AwaitInv /\ AnswerInv /\ CleanInv /\ QuietInv

PairScene == \A p \in Pairs : p[1] \in Scenes

LEMMA PairsOfScenes ==
  /\ \A p \in Pairs : p[1] \in Scenes
  /\ \A c \in Chunks : \A s \in ScenesOf(c) : <<s, c>> \in Pairs /\ s \in Scenes
BY PairsDef, ScenesOfType

LEMMA RefineInit == Init => AnswerInv /\ CleanInv /\ QuietInv
<1> SUFFICES ASSUME Init PROVE AnswerInv /\ CleanInv /\ QuietInv
  OBVIOUS
<1>1. AnswerInv /\ CleanInv
  BY PairsOfScenes DEF Init, AnswerInv, CleanInv
<1>2. Chunks = {} => Scenes = {}
  BY PlanAssumption
<1>3. QuietInv
  BY <1>2 DEF Init, QuietInv, FetchQuiet, ComposeQuiet, Over
<1>4. QED
  BY <1>1, <1>3

-----------------------------------------------------------------------------
(* No step changes an answer once given.                                   *)
LEMMA AnswerStep ==
  ASSUME DispatchInv, AnswerInv, [Next]_vars
  PROVE  /\ AnswerInv'
         /\ \A p \in Pairs : answer[p] # "pending" => answer'[p] = answer[p]
<1>0. DOMAIN fetch = Scenes /\ PairScene
  BY PairsOfScenes DEF DispatchInv, TypeOK, PairScene
<1>1. CASE StartFetch
  <2>1. started + 1 \in 1..Len(SceneOrder) /\ started + 1 > started
    BY <1>1, OrderAssumption DEF StartFetch, DispatchInv, TypeOK
  <2>2. fetch[SceneOrder[started + 1]] = "idle"
    BY <2>1 DEF DispatchInv, FifoInv
  <2>3. QED
    BY <1>0, <1>1, <2>2 DEF StartFetch, AnswerInv, PairScene
<1>2. CASE \E s \in Scenes : FetchRaises(s)
  BY <1>0, <1>2 DEF FetchRaises, AnswerInv, PairScene
<1>3. ASSUME NEW s \in Scenes, NEW reply \in [ChunksOf(s) -> Replies], Deliver(s, reply)
      PROVE  /\ AnswerInv'
             /\ \A p \in Pairs : answer[p] # "pending" => answer'[p] = answer[p]
  <2>1. /\ fetch[s] = "running" /\ fetch' = [fetch EXCEPT ![s] = "delivered"]
        /\ answer' = [p \in Pairs |-> IF p[1] = s THEN reply[p[2]] ELSE answer[p]]
    BY <1>3 DEF Deliver
  <2>2. QED
    BY <1>0, <2>1 DEF AnswerInv, PairScene
<1>4. CASE UNCHANGED <<fetch, answer>>
  BY <1>4 DEF AnswerInv
<1>5. QED
  BY <1>1, <1>2, <1>3, <1>4 DEF Next, FetchReturns, CallerStep, SubmitFetch, JoinFetch,
     CloseFetchPool, JoinCompose, Shutdown, StartCompose, ComposeStep, ComposeRaises,
     StitchPixels, StitchSelected, StitchItems, Finished, fetchVars, vars

(* The observations of a chunk that a worker took are answers for good.    *)
LEMMA RejectedKept ==
  ASSUME DispatchInv, AnswerInv, [Next]_vars, NEW c \in Chunks,
         stage[c] \notin {"waiting", "queued"}
  PROVE  Build!Rejected(c)' = Build!Rejected(c)
<1>1. \A s \in ScenesOf(c) : answer[<<s, c>>] \in Given /\ <<s, c>> \in Pairs
  BY PairsOfScenes DEF DispatchInv, ChunkInv, SettledInv
<1>2. \A s \in ScenesOf(c) : answer'[<<s, c>>] = answer[<<s, c>>]
  BY <1>1, AnswerStep DEF Given
<1>3. QED
  BY <1>2 DEF Build!Rejected, ScenesOf

LEMMA CleanStep ==
  ASSUME DispatchInv, AnswerInv, CleanInv, [Next]_vars
  PROVE  CleanInv'
<1>0. DOMAIN stage = Chunks
  BY DEF DispatchInv, TypeOK
<1> SUFFICES ASSUME NEW c \in Chunks
             PROVE  /\ stage'[c] \in {"painted", "mapped", "done"} => ~Build!Rejected(c)'
                    /\ stage'[c] = "failed" => Build!Rejected(c)'
  BY DEF CleanInv
<1>1. CASE stage'[c] = stage[c]
  BY <1>1, RejectedKept DEF CleanInv
<1>2. CASE ComposeStep(c)
  <2>1. stage[c] \notin {"waiting", "queued"}
    BY <1>2 DEF ComposeStep, ComposeRaises, StitchPixels, StitchSelected, StitchItems
  <2>2. Build!Rejected(c) <=> \E s \in ScenesOf(c) : answer[<<s, c>>] = "bad"
    BY DEF Build!Rejected, ScenesOf
  <2>3. QED
    BY <1>0, <1>2, <2>1, <2>2, RejectedKept
    DEF CleanInv, ComposeStep, ComposeRaises, StitchPixels, StitchSelected, StitchItems
<1>3. CASE StartCompose
  <2>1. begun + 1 \in 1..Len(jobs) /\ begun + 1 > begun /\ jobs[begun + 1] \in Chunks
    BY <1>3 DEF StartCompose, DispatchInv, TypeOK
  <2>2. CASE c # jobs[begun + 1]
    BY <1>0, <1>1, <1>3, <2>2 DEF StartCompose
  <2>3. CASE c = jobs[begun + 1]
    <3>1. stage[c] = "queued"
      BY <2>1, <2>3 DEF DispatchInv, JobsInv
    <3>2. stage'[c] = IF Popped(c) = {} THEN "done" ELSE "took"
      BY <1>0, <1>3, <2>3 DEF StartCompose
    <3>3. \A s \in ScenesOf(c) : <<s, c>> \in observations
      BY <3>1 DEF DispatchInv, ChunkInv, QueuedInv
    <3>4. Popped(c) = {} => ~Build!Rejected(c)
      BY <3>3 DEF Popped, Build!Rejected, ScenesOf
    <3>5. answer' = answer
      BY <1>3 DEF StartCompose, fetchVars
    <3>6. Build!Rejected(c)' = Build!Rejected(c)
      BY <3>5 DEF Build!Rejected
    <3>7. QED
      BY <3>2, <3>4, <3>6
  <2>4. QED
    BY <2>2, <2>3
<1>4. CASE \E s \in Scenes : FetchReturns(s)
  <2>1. stage'[c] = stage[c] \/ stage'[c] = "queued"
    BY <1>4 DEF FetchReturns, Deliver
  <2>2. QED
    BY <1>1, <2>1
<1>5. CASE \E d \in Chunks : d # c /\ ComposeStep(d)
  BY <1>0, <1>1, <1>5 DEF ComposeStep, ComposeRaises, StitchPixels, StitchSelected, StitchItems
<1>6. QED
  BY <1>1, <1>2, <1>3, <1>4, <1>5 DEF Next, CallerStep, SubmitFetch, JoinFetch, CloseFetchPool,
     JoinCompose, Shutdown, StartFetch, FetchRaises, Finished, composeVars, vars

(* With every fetch over, the fetch pool moves no more.                    *)
LEMMA QuietStep ==
  ASSUME DispatchInv, QuietInv, [Next]_vars
  PROVE  QuietInv'
<1>0. DOMAIN fetch = Scenes /\ \A i \in 1..Len(jobs) : jobs[i] \in Chunks
  BY DEF DispatchInv, TypeOK
<1>1. CASE CallerStep
  BY <1>1 DEF CallerStep, SubmitFetch, JoinFetch, CloseFetchPool, JoinCompose, Shutdown,
     QuietInv, FetchQuiet, ComposeQuiet, Over, fetchVars, trackVars, composeVars
<1>2. CASE UNCHANGED callerVars
  <2>1. FetchQuiet => FetchQuiet'
    BY SettledStays DEF FetchQuiet
  <2>2. FetchQuiet => jobs' = jobs
    <3>1. FetchQuiet => \A s \in Scenes : ~FetchReturns(s)
      BY DEF FetchQuiet, FetchReturns, Deliver
    <3>2. (\A s \in Scenes : ~FetchReturns(s)) => jobs' = jobs
      BY DEF Next, CallerStep, SubmitFetch, JoinFetch, CloseFetchPool, JoinCompose, Shutdown,
         StartFetch, FetchRaises, StartCompose, ComposeStep, ComposeRaises, StitchPixels,
         StitchSelected, StitchItems, Finished, trackVars, vars
    <3>3. QED
      BY <3>1, <3>2
  <2>3. FetchQuiet /\ ComposeQuiet => ComposeQuiet'
    BY <1>0, <2>2, SettledStays DEF ComposeQuiet
  <2>4. QED
    BY <1>2, <2>1, <2>3 DEF QuietInv, Over, callerVars
<1>3. QED
  BY <1>1, <1>2 DEF Next, StartFetch, FetchReturns, FetchRaises, Deliver, StartCompose,
     ComposeStep, ComposeRaises, StitchPixels, StitchSelected, StitchItems, Finished, vars, callerVars

-----------------------------------------------------------------------------
(* The refinement: what the driver shows of its windows and of its outcome.*)
Canvas == [c \in Chunks |-> IF stage[c] = "done" THEN pixels[c] ELSE <<>>]
Verdict == IF caller \in Over THEN caller ELSE "building"

LEMMA InitImplements == Init => Build!Init
<1> SUFFICES ASSUME Init PROVE Build!Init
  OBVIOUS
<1>1. /\ answer = [p \in Build!Pairs |-> "pending"]
      /\ caller = IF Chunks = {} THEN "returned" ELSE "submitting"
      /\ \A c \in Chunks : stage[c] = "waiting"
  BY DEF Init, Pairs
<1>2. QED
  BY <1>1 DEF Build!Init, Build!Chunks, Chunks

LEMMA Hidden ==
  ASSUME answer' = answer, Canvas' = Canvas, Verdict' = Verdict
  PROVE  UNCHANGED Build!abstractVars
BY DEF Build!abstractVars, Canvas, Verdict, Over

(* A fetch that ends answers its pairs, and only before the build is over. *)
LEMMA FetchImplements ==
  ASSUME DispatchInv, AnswerInv, QuietInv, TypeOK', [Next]_vars,
         NEW s \in Scenes, FetchReturns(s) \/ FetchRaises(s)
  PROVE  Build!Answer
<1>1. fetch[s] = "running" /\ UNCHANGED <<callerVars, pixels>>
  BY DEF FetchReturns, FetchRaises, Deliver, canvasVars
<1>2. caller \notin Over /\ caller' = caller
  BY <1>1 DEF QuietInv, FetchQuiet, callerVars
<1>3. \A c \in Chunks : stage'[c] = "done" <=> stage[c] = "done"
  BY DEF FetchReturns, FetchRaises, Deliver, composeVars, Resolves
<1>4. Canvas' = Canvas
  BY <1>1, <1>3 DEF Canvas
<1>5. answer' \in [Build!Pairs -> Build!Answers \cup {"pending"}]
  BY DEF TypeOK, Pairs
<1>6. \A p \in Build!Pairs : answer[p] # "pending" => answer'[p] = answer[p]
  BY AnswerStep DEF Pairs
<1>7. QED
  BY <1>2, <1>4, <1>5, <1>6 DEF Build!Answer, Canvas, Over

(* The last stage of a stitch shows the chunk, painted as the reference.   *)
LEMMA PaintImplements ==
  ASSUME DispatchInv, DispatchInv', CleanInv, QuietInv, NEW c \in Chunks, StitchItems(c)
  PROVE  Build!Paint(c)
<1>0. /\ DOMAIN stage = Chunks /\ stage[c] = "mapped" /\ stage' = [stage EXCEPT ![c] = "done"]
      /\ UNCHANGED <<caller, answer, pixels>>
  BY DEF StitchItems, DispatchInv, TypeOK, callerVars, fetchVars
<1>1. caller \notin Over
  <2>1. \E i \in 1..Len(jobs) : jobs[i] = c
    BY <1>0 DEF DispatchInv, JobsInv
  <2>2. ~ComposeQuiet
    BY <1>0, <2>1 DEF ComposeQuiet, TerminalStages
  <2>3. QED
    BY <2>2 DEF QuietInv
<1>2. Build!Answered(c)
  <2>1. \A s \in ScenesOf(c) : answer[<<s, c>>] \in Given
    BY <1>0 DEF DispatchInv, ChunkInv, SettledInv
  <2>2. QED
    BY <2>1 DEF Build!Answered, ScenesOf, Given
<1>3. ~Build!Rejected(c)
  BY <1>0 DEF CleanInv
<1>4. pixels[c] = Build!Reference(c)
  BY <1>0 DEF DispatchInv, ChunkInv, PaintedInv
<1>5. Canvas[c] = <<>> /\ Canvas' = [Canvas EXCEPT ![c] = pixels[c]]
  BY <1>0 DEF Canvas
<1>6. QED
  BY <1>0, <1>1, <1>2, <1>3, <1>4, <1>5 DEF Build!Paint, Canvas, Over

(* The caller returns with every chunk painted, or raises for a reason.    *)
LEMMA ShutdownImplements ==
  ASSUME ReturnInv, ErrorInv, AwaitInv, AnswerInv, CleanInv, Shutdown
  PROVE  Build!Return \/ Build!Raise
<1>0. /\ caller = "shutting_down" /\ UNCHANGED <<answer, stage, pixels>>
      /\ caller' = IF error THEN "raised" ELSE "returned"
      /\ Build!Chunks = Chunks
  BY DEF Shutdown, fetchVars, composeVars, canvasVars, Build!Chunks, Chunks
<1>1. Canvas' = Canvas
  BY <1>0 DEF Canvas
<1>2. \A c \in Chunks : stage[c] \notin {"waiting", "queued"} => Build!Answered(c)
  <2>1. \A c \in Chunks : stage[c] \notin {"waiting", "queued"} =>
           \A s \in ScenesOf(c) : answer[<<s, c>>] \in Given
    BY DEF ReturnInv, DispatchInv, ChunkInv, SettledInv
  <2>2. QED
    BY <2>1 DEF Build!Answered, ScenesOf, Given
<1>3. CASE ~error
  <2>1. AllDelivered /\ AllDone
    BY <1>0, <1>3 DEF ReturnInv, CallerInv
  <2>2. ASSUME NEW c \in Chunks
        PROVE  stage[c] = "done"
    <3>1. ASSUME stage[c] = "waiting" PROVE FALSE
      <4>1. PICK s \in remaining[c] : TRUE
        BY <3>1 DEF ReturnInv, DispatchInv, ChunkInv, WaitingInv
      <4>2. s \in ScenesOf(c) /\ fetch[s] # "delivered"
        BY <3>1 DEF AwaitInv
      <4>3. s \in Scenes
        BY <4>2, ScenesOfType
      <4>4. QED
        BY <2>1, <4>2, <4>3 DEF AllDelivered
    <3>2. QED
      BY <2>1, <3>1 DEF ReturnInv, DispatchInv, JobsInv, AllDone
  <2>3. ASSUME NEW c \in Chunks
        PROVE  Build!Answered(c) /\ ~Build!Rejected(c) /\ Canvas[c] = Build!Reference(c)
    BY <1>2, <2>2 DEF CleanInv, Canvas, ReturnInv, DispatchInv, ChunkInv, PaintedInv
  <2>4. QED
    BY <1>0, <1>1, <1>3, <2>3 DEF Build!Return, Canvas
<1>4. CASE error
  <2>1. Broken
    BY <1>4, Zenon DEF ErrorInv
  <2>2. \/ \E p \in Build!Pairs : answer[p] = "failed"
        \/ \E c \in Build!Chunks : Build!Answered(c) /\ Build!Rejected(c)
    <3>1. ASSUME NEW s \in Scenes, fetch[s] = "raised"
          PROVE  \E p \in Pairs : answer[p] = "failed"
      <4>1. PICK c \in Chunks : s \in ScenesOf(c)
        BY PlanAssumption, ScenesOfDef
      <4>2. <<s, c>> \in Pairs /\ <<s, c>>[1] = s
        BY <4>1, PairsOfScenes
      <4>3. QED
        BY <3>1, <4>2 DEF AnswerInv
    <3>2. ASSUME NEW c \in Chunks, stage[c] = "failed"
          PROVE  Build!Answered(c) /\ Build!Rejected(c)
      BY <1>2, <3>2 DEF CleanInv
    <3>3. QED
      BY <1>0, <2>1, <3>1, <3>2 DEF Broken, Pairs
  <2>3. QED
    BY <1>0, <1>1, <1>4, <2>2 DEF Build!Raise, Canvas
<1>5. QED
  BY <1>3, <1>4

(* Every other step is one the caller of the build cannot see.             *)
LEMMA WorkHidden ==
  ASSUME DispatchInv,
         \/ CallerStep /\ ~Shutdown
         \/ StartFetch
         \/ StartCompose
         \/ \E c \in Chunks : ComposeStep(c) /\ ~StitchItems(c)
         \/ UNCHANGED vars
  PROVE  UNCHANGED Build!abstractVars
<1>0. DOMAIN stage = Chunks /\ DOMAIN pixels = Chunks
  BY DEF DispatchInv, TypeOK
<1>1. CASE CallerStep /\ ~Shutdown
  <2>1. UNCHANGED <<answer, stage, pixels>> /\ Verdict' = Verdict
    BY <1>1 DEF CallerStep, SubmitFetch, JoinFetch, CloseFetchPool, JoinCompose,
                fetchVars, composeVars, canvasVars, Verdict, Over
  <2>2. QED
    BY <2>1, Hidden DEF Canvas
<1>2. CASE StartFetch \/ UNCHANGED vars
  <2>1. UNCHANGED <<caller, answer, stage, pixels>>
    BY <1>2 DEF StartFetch, callerVars, fetchVars, composeVars, canvasVars, vars
  <2>2. QED
    BY <2>1, Hidden DEF Canvas, Verdict
<1>3. CASE StartCompose
  <2>1. begun + 1 \in 1..Len(jobs) /\ begun + 1 > begun /\ jobs[begun + 1] \in Chunks
    BY <1>3 DEF StartCompose, DispatchInv, TypeOK
  <2>2. stage[jobs[begun + 1]] = "queued" /\ pixels[jobs[begun + 1]] = <<>>
    BY <2>1 DEF DispatchInv, JobsInv, ChunkInv, BlankInv
  <2>3. UNCHANGED <<caller, answer, pixels>>
    BY <1>3 DEF StartCompose, callerVars, fetchVars, canvasVars
  <2>4. \A c \in Chunks : c # jobs[begun + 1] => stage'[c] = stage[c]
    BY <1>0, <1>3 DEF StartCompose
  <2>5. Canvas' = Canvas
    BY <2>2, <2>3, <2>4 DEF Canvas
  <2>6. QED
    BY <2>3, <2>5, Hidden DEF Verdict
<1>4. ASSUME NEW c \in Chunks, ComposeStep(c), ~StitchItems(c)
      PROVE  UNCHANGED Build!abstractVars
  <2>1. /\ UNCHANGED <<caller, answer>>
        /\ stage[c] # "done" /\ stage'[c] # "done"
        /\ \A d \in Chunks : d # c => stage'[d] = stage[d] /\ pixels'[d] = pixels[d]
    BY <1>0, <1>4 DEF ComposeStep, ComposeRaises, StitchPixels, StitchSelected,
                      callerVars, fetchVars, canvasVars
  <2>2. Canvas' = Canvas
    BY <2>1 DEF Canvas
  <2>3. QED
    BY <2>1, <2>2, Hidden DEF Verdict
<1>5. QED
  BY <1>1, <1>2, <1>3, <1>4

LEMMA StepImplements ==
  ASSUME RefineInv, RefineInv', [Next]_vars
  PROVE  [Build!Next]_(Build!abstractVars)
<1>0. Build!Chunks = Chunks
  BY DEF Build!Chunks, Chunks
<1>1. CASE \E s \in Scenes : FetchReturns(s) \/ FetchRaises(s)
  BY <1>1, FetchImplements DEF RefineInv, ReturnInv, DispatchInv, Build!Next
<1>2. CASE \E c \in Chunks : StitchItems(c)
  BY <1>0, <1>2, PaintImplements DEF RefineInv, ReturnInv, Build!Next
<1>3. CASE Shutdown
  BY <1>3, ShutdownImplements DEF RefineInv, Build!Next
<1>4. CASE /\ ~(\E s \in Scenes : FetchReturns(s) \/ FetchRaises(s))
           /\ ~(\E c \in Chunks : StitchItems(c))
           /\ ~Shutdown
  BY <1>4, WorkHidden DEF RefineInv, ReturnInv, Next, Finished
<1>5. QED
  BY <1>1, <1>2, <1>3, <1>4

LEMMA RefineCorrect == ~MayOmit /\ SafeSpec => []RefineInv
<1> SUFFICES ASSUME ~MayOmit PROVE SafeSpec => []RefineInv
  OBVIOUS
<1> DEFINE Rest == AnswerInv /\ CleanInv /\ QuietInv
<1>1. Init => Rest
  BY RefineInit
<1>2. ReturnInv /\ Rest /\ [Next]_vars => Rest'
  BY AnswerStep, CleanStep, QuietStep DEF ReturnInv
<1>3. ReturnInv /\ ErrorInv /\ AwaitInv /\ Rest => RefineInv
  BY DEF RefineInv
<1> HIDE DEF Rest
<1>4. QED
  BY <1>1, <1>2, <1>3, ReturnCorrect, AwaitCorrect, PTL DEF SafeSpec

(* The pipelined driver is a correct chunked build: with a source that     *)
(* answers every chunk it is asked for, whatever the plan, the pools and   *)
(* the order in which the threads run, what compose_pipelined shows of its *)
(* windows and outcome is a behaviour of the sequential compose over the   *)
(* same answers (composite.py:275-439 against 178-272).                    *)
THEOREM PipelineImplements == ~MayOmit /\ SafeSpec => ImplementsBuild
<1> SUFFICES ASSUME ~MayOmit PROVE SafeSpec => ImplementsBuild
  OBVIOUS
<1>1. RefineInv /\ RefineInv' /\ [Next]_vars => [Build!Next]_(Build!abstractVars)
  BY StepImplements
<1>2. QED
  BY <1>1, InitImplements, RefineCorrect, PTL DEF SafeSpec, ImplementsBuild, Build!Spec

-----------------------------------------------------------------------------
(* The source items.  What InPlanOrder lists: the places of the scenes     *)
(* kept, counted from the first, reach every place (by induction on the    *)
(* places counted), so it names each scene kept and no other.              *)
LEMMA LeastNatural ==
  ASSUME NEW S, S \subseteq Nat, S # {}
  PROVE  \E n \in S : \A m \in S : n <= m
<1> DEFINE Below == {pair \in Nat \X Nat : pair[1] < pair[2]}
<1>1. IsWellFoundedOn(Below, Nat)
  BY NatLessThanWellFounded DEF OpToRel
<1>2. \A x, y \in S : y < x => <<y, x>> \in Below
  OBVIOUS
<1> HIDE DEF Below
<1>3. PICK x \in S : \A y \in S : ~(<<y, x>> \in Below)
  BY <1>1, WFMin, Zenon
<1>4. ASSUME NEW m \in S PROVE x <= m
  <2>1. ~(m < x)
    BY <1>2, <1>3
  <2>2. QED
    BY <2>1
<1>5. QED
  BY <1>4

LEMMA PlacesCounted ==
  ASSUME NEW n \in Nat, NEW P \in SUBSET (1..n)
  PROVE  /\ Cardinality(P) \in Nat
         /\ \A k \in 1..Cardinality(P) : \E i \in P : Cardinality({j \in P : j < i}) = k - 1
         /\ \A i \in P : Cardinality({j \in P : j < i}) + 1 \in 1..Cardinality(P)
         /\ \A i, h \in P : Cardinality({j \in P : j < i}) = Cardinality({j \in P : j < h}) => i = h
<1> DEFINE Before(i) == {j \in P : j < i}
           Reached(m) == \A k \in 1..Cardinality(Before(m)) : \E i \in P : Cardinality(Before(i)) = k - 1
<1>1. IsFiniteSet(1..n)
  BY FS_Interval
<1>2. \A A \in SUBSET P : IsFiniteSet(A) /\ Cardinality(A) \in Nat /\ Cardinality(A) <= Cardinality(P)
  <2>1. IsFiniteSet(P)
    BY <1>1, FS_Subset
  <2>2. QED
    BY <2>1, FS_Subset, FS_CardinalityType
<1> HIDE DEF Reached
<1>3. \A i : Before(i) \in SUBSET P
  OBVIOUS
<1>3a. \A m \in P : m \in Nat /\ m >= 1 /\ m <= n
  OBVIOUS
<1>4. ASSUME NEW m \in P
      PROVE  m \in Nat /\ Before(m + 1) = Before(m) \cup {m} /\ m \notin Before(m)
  <2>1. \A j \in P : j < m + 1 <=> j < m \/ j = m
    BY <1>3a
  <2>2. m \in Nat /\ ~(m < m)
    BY <1>3a
  <2>3. QED
    BY <2>1, <2>2
<1>5. ASSUME NEW m \in Nat, m \notin P PROVE Before(m + 1) = Before(m)
  <2>1. \A j \in P : j < m + 1 <=> j < m
    BY <1>3a, <1>5
  <2>2. QED
    BY <2>1
<1>6. Before(0) = {} /\ Before(n + 1) = P
  <2>1. \A j \in P : ~(j < 0) /\ j < n + 1
    BY <1>3a
  <2>2. QED
    BY <2>1
<1>7. ASSUME NEW i \in P, NEW h \in P, i < h PROVE Before(i) \cup {i} \subseteq Before(h)
  <2>1. \A j \in P : j < i => j < h
    BY <1>3a, <1>7
  <2>2. QED
    BY <1>7, <2>1
<1> HIDE DEF Before
<1> USE DEF Reached
<1>8. \A i \in P : Cardinality(Before(i) \cup {i}) = Cardinality(Before(i)) + 1
  BY <1>2, <1>3, <1>4, FS_AddElement
<1>9. Reached(0)
  BY <1>6, FS_EmptySet
<1>10. ASSUME NEW m \in Nat, Reached(m) PROVE Reached(m + 1)
  <2>1. CASE m \notin P
    BY <1>5, <1>10, <2>1
  <2>2. CASE m \in P
    <3>1. Cardinality(Before(m + 1)) = Cardinality(Before(m)) + 1 /\ Cardinality(Before(m)) \in Nat
      BY <1>2, <1>3, <1>4, <1>8, <2>2
    <3>2. ASSUME NEW k \in 1..Cardinality(Before(m + 1)) PROVE \E i \in P : Cardinality(Before(i)) = k - 1
      <4>1. CASE k = Cardinality(Before(m)) + 1
        BY <2>2, <3>1, <4>1
      <4>2. CASE k \in 1..Cardinality(Before(m))
        BY <1>10, <4>2
      <4>3. QED
        BY <3>1, <4>1, <4>2
    <3>3. QED
      BY <3>2
  <2>3. QED
    BY <2>1, <2>2
<1>11. \A m \in Nat : Reached(m)
  <2> DEFINE Bad == {m \in Nat : ~Reached(m)}
  <2>0. \A m \in Bad : m \in Nat /\ ~Reached(m)
    OBVIOUS
  <2>1. SUFFICES ASSUME Bad # {} PROVE FALSE
    OBVIOUS
  <2>2. \A m \in Nat : ~Reached(m) => m \in Bad
    OBVIOUS
  <2> HIDE DEF Bad, Reached
  <2>3. PICK m \in Bad : \A x \in Bad : m <= x
    BY <2>0, <2>1, LeastNatural
  <2>4. m # 0 /\ m \in Nat
    BY <1>9, <2>0
  <2>5. m - 1 \in Nat /\ m - 1 \notin Bad
    BY <2>0, <2>3, <2>4
  <2>6. Reached(m - 1) /\ (m - 1) + 1 = m
    BY <2>2, <2>4, <2>5
  <2>7. QED
    BY <1>10, <2>0, <2>5, <2>6
<1>12. \A k \in 1..Cardinality(P) : \E i \in P : Cardinality(Before(i)) = k - 1
  BY <1>6, <1>11
<1>13. \A i \in P : Cardinality(Before(i)) + 1 \in 1..Cardinality(P)
  <2> TAKE i \in P
  <2>1. Before(i) \in SUBSET P
    BY <1>3
  <2>2. Before(i) \cup {i} \in SUBSET P
    BY <2>1
  <2>3. /\ Cardinality(Before(i)) \in Nat
        /\ Cardinality(Before(i) \cup {i}) <= Cardinality(P)
    BY <1>2, <2>1, <2>2
  <2>4. Cardinality(P) \in Nat
    BY <1>2
  <2>5. Cardinality(Before(i) \cup {i}) = Cardinality(Before(i)) + 1
    BY <1>8
  <2>6. QED
    BY <2>3, <2>4, <2>5
<1>14. ASSUME NEW i \in P, NEW h \in P, i < h PROVE Cardinality(Before(i)) < Cardinality(Before(h))
  <2>1. IsFiniteSet(Before(h)) /\ Cardinality(Before(h)) \in Nat /\ Cardinality(Before(i)) \in Nat
    BY <1>2, <1>3, <1>4
  <2>2. Cardinality(Before(i) \cup {i}) <= Cardinality(Before(h))
    BY <1>7, <1>14, <2>1, FS_Subset
  <2>3. QED
    BY <1>8, <2>1, <2>2
<1>15. \A i, h \in P : Cardinality(Before(i)) = Cardinality(Before(h)) => i = h
  <2> TAKE i, h \in P
  <2>1. Cardinality(Before(i)) \in Nat /\ Cardinality(Before(h)) \in Nat
    BY <1>2, <1>3, <1>4
  <2>2. QED
    BY <1>4, <1>14, <2>1
<1>16. Cardinality(P) \in Nat
  BY <1>2
<1>17. QED
  BY <1>12, <1>13, <1>15, <1>16 DEF Before

LEMMA SameCount == \A S : Build!Cardinality(S) = Cardinality(S)
BY DEF Build!Cardinality, Cardinality

LEMMA PlanOrderLists ==
  ASSUME NEW c \in Chunks, NEW S \in SUBSET ScenesOf(c)
  PROVE  /\ Len(InPlanOrder(c, S)) \in Nat
         /\ \A s : s \in S <=> \E i \in 1..Len(InPlanOrder(c, S)) : InPlanOrder(c, S)[i] = s
<1> DEFINE P == Build!Places(c, S)
           n == Cardinality(P)
           Rank(i) == Cardinality({j \in P : j < i})
           Place(k) == Build!Place(c, S, k)
<1>1. Selected[c] \in Seq(Scenes) /\ Len(Selected[c]) \in Nat
  BY PlanAssumption
<1>2. P \in SUBSET (1..Len(Selected[c])) /\ \A i \in P : Selected[c][i] \in S
  BY DEF Build!Places
<1>3. ASSUME NEW s \in S PROVE \E i \in P : Selected[c][i] = s
  <2>1. PICK i \in 1..Len(Selected[c]) : Selected[c][i] = s
    BY ScenesOfDef
  <2>2. i \in P
    BY <2>1 DEF Build!Places
  <2>3. QED
    BY <2>1, <2>2
<1>4. InPlanOrder(c, S) = [k \in 1..n |-> Selected[c][Place(k)]]
  BY SameCount DEF InPlanOrder, Build!InPlanOrder
<1>4a. \A k : Place(k) = CHOOSE i \in P : Rank(i) = k - 1
  BY SameCount DEF Build!Place
<1> HIDE DEF Place
<1> HIDE DEF P
<1>5. /\ n \in Nat
      /\ \A k \in 1..n : \E i \in P : Rank(i) = k - 1
      /\ \A i \in P : Rank(i) + 1 \in 1..n
      /\ \A i, h \in P : Rank(i) = Rank(h) => i = h
  BY <1>1, <1>2, PlacesCounted
<1> HIDE DEF n, Rank
<1>6. \A k \in 1..n : Place(k) \in P /\ Rank(Place(k)) = k - 1
  BY <1>4a, <1>5
<1>7. /\ Len(InPlanOrder(c, S)) = n
      /\ \A k \in 1..n : InPlanOrder(c, S)[k] = Selected[c][Place(k)]
  BY <1>4, <1>5
<1>8. ASSUME NEW s \in S PROVE \E k \in 1..n : Selected[c][Place(k)] = s
  <2>1. PICK i \in P : Selected[c][i] = s
    BY <1>3
  <2>2. Rank(i) + 1 \in 1..n /\ Rank(i) \in Nat
    <3>0. {j \in P : j < i} \in SUBSET (1..Len(Selected[c]))
      BY <1>2
    <3>1. Cardinality({j \in P : j < i}) \in Nat
      <4>1. IsFiniteSet(1..Len(Selected[c]))
        BY <1>1, FS_Interval
      <4>2. IsFiniteSet({j \in P : j < i})
        BY <3>0, <4>1, FS_Subset
      <4>3. QED
        BY <4>2, FS_CardinalityType
    <3>2. QED
      BY <1>5, <2>1, <3>1 DEF Rank
  <2>3. Place(Rank(i) + 1) = i
    BY <1>5, <1>6, <2>2
  <2>4. QED
    BY <2>1, <2>2, <2>3
<1>9. \A k \in 1..n : Selected[c][Place(k)] \in S
  BY <1>2, <1>6
<1>10. QED
  BY <1>5, <1>7, <1>8, <1>9

(* The metadata kept for a scene is of a finished window it contributed    *)
(* to, and every contributor to a finished window has some.                *)
ItemsInv ==
  /\ \A s \in Scenes, c \in Chunks :
       items[s] = c => stage[c] = "done" /\ s \in Build!Contributors(c)
  /\ \A c \in Chunks : stage[c] = "done" => \A s \in Build!Contributors(c) : items[s] # NoItem

(* Who contributed to a chunk that a worker took is settled.               *)
LEMMA ContributorsKept ==
  ASSUME DispatchInv, AnswerInv, [Next]_vars, NEW c \in Chunks,
         stage[c] \notin {"waiting", "queued"}
  PROVE  Build!Contributors(c)' = Build!Contributors(c)
<1>1. \A s \in ScenesOf(c) : answer[<<s, c>>] \in Given /\ <<s, c>> \in Pairs
  BY PairsOfScenes DEF DispatchInv, ChunkInv, SettledInv
<1>2. \A s \in ScenesOf(c) : answer'[<<s, c>>] = answer[<<s, c>>]
  BY <1>1, AnswerStep DEF Given
<1>3. /\ Build!Contributors(c) = {s \in ScenesOf(c) : answer[<<s, c>>] = "obs"}
      /\ Build!Contributors(c)' = {s \in ScenesOf(c) : answer'[<<s, c>>] = "obs"}
  BY DEF Build!Contributors, ScenesOf
<1>4. QED
  BY <1>2, <1>3

(* A chunk that is finished is so already, or was just stitched, or had    *)
(* nothing to stitch.                                                      *)
LEMMA NewlyDone ==
  ASSUME DispatchInv, AnswerInv, [Next]_vars, NEW c \in Chunks, stage'[c] = "done"
  PROVE  \/ stage[c] = "done"
         \/ StitchItems(c)
         \/ Build!Contributors(c)' = {}
<1>0. DOMAIN stage = Chunks
  BY DEF DispatchInv, TypeOK
<1>1. CASE stage'[c] = stage[c]
  BY <1>1
<1>2. CASE \E d \in Chunks : ComposeStep(d)
  BY <1>0, <1>2 DEF ComposeStep, ComposeRaises, StitchPixels, StitchSelected, StitchItems
<1>3. CASE StartCompose
  <2>1. begun + 1 \in 1..Len(jobs) /\ begun + 1 > begun /\ jobs[begun + 1] \in Chunks
    BY <1>3 DEF StartCompose, DispatchInv, TypeOK
  <2>2. CASE c # jobs[begun + 1]
    BY <1>0, <1>1, <1>3, <2>2 DEF StartCompose
  <2>3. CASE c = jobs[begun + 1]
    <3>1. stage[c] = "queued"
      BY <2>1, <2>3 DEF DispatchInv, JobsInv
    <3>2. Popped(c) = {}
      BY <1>0, <1>3, <2>3 DEF StartCompose
    <3>3. \A s \in ScenesOf(c) : <<s, c>> \in observations
      BY <3>1 DEF DispatchInv, ChunkInv, QueuedInv
    <3>4. \A s \in ScenesOf(c) : answer[<<s, c>>] # "obs"
      BY <3>2, <3>3 DEF Popped
    <3>5. answer' = answer
      BY <1>3 DEF StartCompose, fetchVars
    <3>6. Build!Contributors(c)' = {s \in ScenesOf(c) : answer'[<<s, c>>] = "obs"}
      BY DEF Build!Contributors, ScenesOf
    <3>7. QED
      BY <3>4, <3>5, <3>6
  <2>4. QED
    BY <2>2, <2>3
<1>4. CASE \E s \in Scenes : FetchReturns(s)
  <2>1. stage'[c] = stage[c] \/ stage'[c] = "queued"
    BY <1>4 DEF FetchReturns, Deliver
  <2>2. QED
    BY <1>1, <2>1
<1>5. QED
  BY <1>1, <1>2, <1>3, <1>4 DEF Next, CallerStep, SubmitFetch, JoinFetch, CloseFetchPool,
     JoinCompose, Shutdown, StartFetch, FetchRaises, Finished, composeVars, vars

(* A stitch adds the scenes of its list that have no item yet.             *)
LEMMA StitchedItems ==
  ASSUME DispatchInv, NEW c \in Chunks, StitchItems(c)
  PROVE  /\ stage[c] = "mapped" /\ stage' = [stage EXCEPT ![c] = "done"]
         /\ \A s \in Scenes : items'[s] = IF items[s] = NoItem /\ s \in Build!Contributors(c)
                                         THEN c ELSE items[s]
<1>1. stage[c] = "mapped" /\ stage' = [stage EXCEPT ![c] = "done"] /\ items' = ItemsAfter(c)
  BY DEF StitchItems
<1>2. taken[c] = Build!Reference(c)
  BY <1>1 DEF DispatchInv, ChunkInv, PaintedInv
<1>3. Build!Contributors(c) \in SUBSET ScenesOf(c)
  BY DEF Build!Contributors, ScenesOf
<1>4. ASSUME NEW s
      PROVE  (\E i \in 1..Len(taken[c]) : taken[c][i] = s) <=> s \in Build!Contributors(c)
  <2>1. CASE Build!Contributors(c) = {}
    BY <1>2, <2>1 DEF Build!Reference
  <2>2. CASE Build!Contributors(c) # {}
    <3>1. taken[c] = InPlanOrder(c, Build!Contributors(c))
      BY <1>2, <2>2 DEF Build!Reference, InPlanOrder
    <3>2. QED
      BY <1>3, <3>1, PlanOrderLists
  <2>3. QED
    BY <2>1, <2>2
<1>5. QED
  BY <1>1, <1>4 DEF ItemsAfter

LEMMA ItemsInit == Init => ItemsInv
BY OtherAssumption DEF Init, ItemsInv

LEMMA ItemsStep ==
  ASSUME DispatchInv, AnswerInv, ItemsInv, [Next]_vars
  PROVE  ItemsInv'
<1>0. DOMAIN stage = Chunks /\ items \in [Scenes -> Chunks \cup {NoItem}]
  BY DEF DispatchInv, TypeOK
<1>1. \A c \in Chunks : stage[c] = "done" =>
         stage'[c] = "done" /\ Build!Contributors(c)' = Build!Contributors(c)
  BY SettledStays, ContributorsKept DEF TerminalStages
<1>2. CASE \E c \in Chunks : StitchItems(c)
  <2>1. PICK c \in Chunks : StitchItems(c)
    BY <1>2
  <2>2. /\ stage[c] = "mapped" /\ stage' = [stage EXCEPT ![c] = "done"]
        /\ \A s \in Scenes : items'[s] = IF items[s] = NoItem /\ s \in Build!Contributors(c)
                                        THEN c ELSE items[s]
    BY <2>1, StitchedItems
  <2>3. Build!Contributors(c)' = Build!Contributors(c)
    BY <2>2, ContributorsKept
  <2>4. Build!Contributors(c) \subseteq Scenes
    BY ScenesOfType DEF Build!Contributors, ScenesOf
  <2>5. ASSUME NEW s \in Scenes, NEW d \in Chunks, items'[s] = d
        PROVE  stage'[d] = "done" /\ s \in Build!Contributors(d)'
    <3>1. CASE items[s] = NoItem /\ s \in Build!Contributors(c)
      <4>1. d = c
        BY <2>2, <2>5, <3>1
      <4>2. stage'[c] = "done"
        BY <1>0, <2>2
      <4>3. s \in Build!Contributors(c)'
        BY <2>3, <3>1
      <4>4. QED
        BY <4>1, <4>2, <4>3
    <3>2. CASE items[s] = NoItem /\ s \notin Build!Contributors(c)
      BY <2>2, <2>5, <3>2, OtherAssumption
    <3>3. CASE items[s] # NoItem
      <4>1. items[s] = d
        BY <2>2, <2>5, <3>3
      <4>2. QED
        BY <1>1, <4>1 DEF ItemsInv
    <3>4. QED
      BY <3>1, <3>2, <3>3
  <2>6. \A d \in Chunks : stage'[d] = "done" => \A s \in Build!Contributors(d)' : items'[s] # NoItem
    <3> TAKE d \in Chunks
    <3>1. CASE d = c
      BY <2>2, <2>3, <2>4, <3>1, OtherAssumption
    <3>2. CASE d # c
      <4>1. stage'[d] = stage[d]
        BY <1>0, <2>2, <3>2
      <4>2. Build!Contributors(d) \subseteq Scenes
        BY ScenesOfType DEF Build!Contributors, ScenesOf
      <4>3. QED
        BY <1>1, <2>2, <4>1, <4>2, OtherAssumption DEF ItemsInv
    <3>3. QED
      BY <3>1, <3>2
  <2>7. QED
    BY <2>5, <2>6 DEF ItemsInv
<1>3. CASE UNCHANGED items /\ \A c \in Chunks : ~StitchItems(c)
  <2>1. \A s \in Scenes, c \in Chunks :
          items[s] = c => stage'[c] = "done" /\ s \in Build!Contributors(c)'
    BY <1>1 DEF ItemsInv
  <2>2. \A c \in Chunks : stage'[c] = "done" => \A s \in Build!Contributors(c)' : items[s] # NoItem
    BY <1>1, <1>3, NewlyDone DEF ItemsInv
  <2>3. QED
    BY <1>3, <2>1, <2>2 DEF ItemsInv
<1>4. (\E c \in Chunks : StitchItems(c)) \/ UNCHANGED items
  BY DEF Next, CallerStep, SubmitFetch, JoinFetch, CloseFetchPool, JoinCompose, Shutdown,
     StartFetch, FetchReturns, FetchRaises, Deliver, StartCompose, ComposeStep, ComposeRaises,
     StitchPixels, StitchSelected, Finished, canvasVars, vars
<1>5. QED
  BY <1>2, <1>3, <1>4

(* What is returned names, for every scene that shows in some window, the  *)
(* item of a window it shows in, and no item of any other scene            *)
(* (composite.py:383-416, _stitch_chunk).                                  *)
THEOREM ItemsComplete == SafeSpec => []SourceItemsComplete
<1>1. TypeOK /\ ItemsInv => SourceItemsComplete
  <2> SUFFICES ASSUME TypeOK, ItemsInv, NEW s \in Scenes
               PROVE  LET windows == {c \in Chunks : stage[c] = "done" /\ s \in Build!Contributors(c)}
                      IN  IF windows = {} THEN items[s] = NoItem ELSE items[s] \in windows
    BY DEF SourceItemsComplete
  <2>1. items[s] \in Chunks \cup {NoItem}
    BY DEF TypeOK
  <2>2. QED
    BY <2>1 DEF ItemsInv
<1>2. DispatchInv /\ AnswerInv /\ ItemsInv /\ [Next]_vars => (AnswerInv /\ ItemsInv)'
  BY AnswerStep, ItemsStep
<1>3. QED
  BY <1>1, <1>2, RefineInit, ItemsInit, DispatchCorrect, TypeCorrect, PTL DEF SafeSpec
=============================================================================
