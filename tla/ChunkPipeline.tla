--------------------------- MODULE ChunkPipeline ---------------------------
(***************************************************************************)
(* ChunkedCompositor.compose_pipelined (composite.py:275-439): one thread  *)
(* (the caller) submits one fetch per scene to a fetch pool; each fetch    *)
(* worker merges its answers into shared bookkeeping under state_lock and  *)
(* submits every chunk whose last awaited scene it was to a compose pool;  *)
(* compose workers pop the chunk's observations WITHOUT the lock, merge    *)
(* them and stitch the result into arrays all workers share.  The caller   *)
(* joins the fetch futures, then the compose futures, and shuts down.      *)
(*                                                                         *)
(* A locked region is one step, and so is the loop of dict pops: the keys  *)
(* it touches belong to one chunk and are final once the chunk is          *)
(* submitted (KeysSettledBeforePop).                                       *)
(***************************************************************************)
EXTENDS Integers, Sequences, FiniteSets, Functions

CONSTANTS Scenes,          (* scenes of the plan: keys of by_scene          *)
          Selected,        (* plan.selected: chunk -> sequence of scenes    *)
          SceneOrder,      (* order in which by_scene lists the scenes      *)
          FetchWorkers,    (* max_workers of the fetch pool                 *)
          ComposeWorkers,  (* max_workers of the compose pool               *)
          MayOmit,         (* may fetch_scene leave out a requested chunk?  *)
          NoItem

Chunks == DOMAIN Selected

ASSUME PlanAssumption ==
  /\ IsFiniteSet(Chunks)
  /\ \A c \in Chunks : Selected[c] \in Seq(Scenes) /\ Selected[c] # <<>>
  /\ \A c \in Chunks : IsInjective(Selected[c])
  /\ \A s \in Scenes : \E c \in Chunks : s \in {Selected[c][i] : i \in 1..Len(Selected[c])}
ASSUME OrderAssumption ==
  /\ SceneOrder \in Seq(Scenes)
  /\ \A s \in Scenes : \E i \in 1..Len(SceneOrder) : SceneOrder[i] = s
  /\ IsInjective(SceneOrder)
ASSUME WorkersAssumption ==
  FetchWorkers \in Nat \ {0} /\ ComposeWorkers \in Nat \ {0}
ASSUME OtherAssumption == MayOmit \in BOOLEAN /\ NoItem \notin Chunks

VARIABLES
  caller,       (* program point of the thread inside compose_pipelined     *)
  error,        (* has a joined future raised?                              *)
  submitted,    (* fetch tasks submitted so far                             *)
  joined,       (* futures joined so far, of the list being joined          *)
  started,      (* fetch tasks a worker has picked up (FIFO)                *)
  fetch,        (* scene -> "idle", "running", "delivered" or "raised"      *)
  answer,       (* (scene, chunk) -> what fetch_scene answered for it       *)
  remaining,    (* chunk -> unresolved scenes; the key is gone once stage   *)
                (* of the chunk leaves "waiting"                            *)
  observations, (* keys present in the observations dict                    *)
  jobs,         (* compose_futures: submitted chunks in submission order    *)
  begun,        (* compose tasks a worker has picked up (FIFO)              *)
  stage,        (* chunk -> progress of its compose task                    *)
  taken,        (* chunk -> local_to_global of its compose task             *)
  pixels,       (* chunk -> scenes merged in its window of data, quality,.. *)
  chosen,       (* chunk -> scenes its window of selected_observation names *)
  items         (* source_items_by_scene: scene -> chunk of its metadata    *)

fetchVars   == <<submitted, started, fetch, answer>>
trackVars   == <<remaining, observations, jobs>>
canvasVars  == <<pixels, chosen, items>>
composeVars == <<begun, stage, taken>>
callerVars  == <<caller, error, joined>>
vars == <<callerVars, fetchVars, trackVars, composeVars, canvasVars>>

Build == INSTANCE ChunkedBuild WITH
           canvas  <- [c \in Chunks |->
                         IF stage[c] = "done" THEN pixels[c] ELSE <<>>],
           verdict <- IF caller \in {"returned", "raised"}
                      THEN caller ELSE "building"

ScenesOf(c)       == Build!ScenesOf(c)
ChunksOf(s)       == {c \in Chunks : s \in ScenesOf(c)}
Pairs             == Build!Pairs
InPlanOrder(c, S) == Build!InPlanOrder(c, S)

TerminalStages == {"done", "failed"}
ActiveStages   == {"took", "painted", "mapped"}

-----------------------------------------------------------------------------
Init ==
  /\ caller = IF Chunks = {} THEN "returned" ELSE "submitting"
  /\ error = FALSE
  /\ submitted = 0 /\ joined = 0 /\ started = 0 /\ begun = 0
  /\ fetch = [s \in Scenes |-> "idle"]
  /\ answer = [p \in Pairs |-> "pending"]
  /\ remaining = [c \in Chunks |-> ScenesOf(c)]
  /\ observations = {}
  /\ jobs = <<>>
  /\ stage = [c \in Chunks |-> "waiting"]
  /\ taken = [c \in Chunks |-> <<>>]
  /\ pixels = [c \in Chunks |-> <<>>]
  /\ chosen = [c \in Chunks |-> <<>>]
  /\ items = [s \in Scenes |-> NoItem]

(* The caller.                                                             *)
SubmitFetch ==
  /\ caller = "submitting"
  /\ submitted < Len(SceneOrder)
  /\ submitted' = submitted + 1
  /\ caller' = IF submitted' = Len(SceneOrder) THEN "joining_fetches" ELSE caller
  /\ UNCHANGED <<error, joined, started, fetch, answer>>
  /\ UNCHANGED <<trackVars, composeVars, canvasVars>>

(* future.result() of the next fetch; leaving the loop closes the pool.    *)
JoinFetch ==
  /\ caller = "joining_fetches"
  /\ \/ /\ joined < Len(SceneOrder)
        /\ fetch[SceneOrder[joined + 1]] = "delivered"
        /\ joined' = joined + 1
        /\ UNCHANGED <<caller, error>>
     \/ /\ joined < Len(SceneOrder)
        /\ fetch[SceneOrder[joined + 1]] = "raised"
        /\ error' = TRUE
        /\ caller' = "closing"
        /\ UNCHANGED joined
     \/ /\ joined = Len(SceneOrder)
        /\ caller' = "closing"
        /\ UNCHANGED <<error, joined>>
  /\ UNCHANGED <<fetchVars, trackVars, composeVars, canvasVars>>

(* Leaving "with ThreadPoolExecutor" waits for every fetch, then a pending *)
(* exception skips the loop over the compose futures.                      *)
CloseFetchPool ==
  /\ caller = "closing"
  /\ \A s \in Scenes : fetch[s] \in {"delivered", "raised"}
  /\ caller' = IF error THEN "shutting_down" ELSE "joining_composes"
  /\ joined' = 0
  /\ UNCHANGED <<error, fetchVars, trackVars, composeVars, canvasVars>>

(* Variants of the join and the shutdown, used to show that the properties *)
(* notice: a join that swallows a compose failure, and a shutdown that     *)
(* waits for every planned chunk.                                          *)
JoinComposeSwallowing ==
  /\ caller = "joining_composes"
  /\ \/ /\ joined < Len(jobs)
        /\ stage[jobs[joined + 1]] \in TerminalStages
        /\ joined' = joined + 1
        /\ UNCHANGED <<caller, error>>
     \/ /\ joined = Len(jobs)
        /\ caller' = "shutting_down"
        /\ UNCHANGED <<error, joined>>
  /\ UNCHANGED <<fetchVars, trackVars, composeVars, canvasVars>>
QuietAllChunks == \A c \in Chunks : stage[c] \in TerminalStages

JoinCompose ==
  /\ caller = "joining_composes"
  /\ \/ /\ joined < Len(jobs)
        /\ stage[jobs[joined + 1]] = "done"
        /\ joined' = joined + 1
        /\ UNCHANGED <<caller, error>>
     \/ /\ joined < Len(jobs)
        /\ stage[jobs[joined + 1]] = "failed"
        /\ error' = TRUE
        /\ caller' = "shutting_down"
        /\ UNCHANGED joined
     \/ /\ joined = Len(jobs)
        /\ caller' = "shutting_down"
        /\ UNCHANGED <<error, joined>>
  /\ UNCHANGED <<fetchVars, trackVars, composeVars, canvasVars>>

(* No compose task is queued or running.                                   *)
ComposeQuiet == \A i \in 1..Len(jobs) : stage[jobs[i]] \in TerminalStages

(* finally: compose_pool.shutdown(wait=True).                              *)
Shutdown ==
  /\ caller = "shutting_down"
  /\ ComposeQuiet
  /\ caller' = IF error THEN "raised" ELSE "returned"
  /\ UNCHANGED <<error, joined, fetchVars, trackVars, composeVars, canvasVars>>

-----------------------------------------------------------------------------
(* A fetch worker.                                                         *)
StartFetch ==
  /\ started < submitted
  /\ Cardinality({s \in Scenes : fetch[s] = "running"}) < FetchWorkers
  /\ started' = started + 1
  /\ fetch' = [fetch EXCEPT ![SceneOrder[started + 1]] = "running"]
  /\ UNCHANGED <<submitted, answer>>
  /\ UNCHANGED <<callerVars, trackVars, composeVars, canvasVars>>

(* fetch_scene returned: the region under state_lock.  `reply' gives each  *)
(* requested chunk an observation, None, or no entry at all.               *)
Replies == {"obs", "bad", "none"} \cup (IF MayOmit THEN {"omitted"} ELSE {})

(* Variants of the readiness test: one scene too early, and tested before  *)
(* the scene is discarded.                                                 *)
ResolvesEarly(c, s) ==
  stage[c] = "waiting" /\ Cardinality(remaining[c] \ {s}) <= 1
ResolvesBeforeDiscard(c, s) == stage[c] = "waiting" /\ remaining[c] = {}

(* s is the last scene chunk c was waiting for: its key is popped.         *)
Resolves(c, s) == stage[c] = "waiting" /\ remaining[c] \ {s} = {}

Deliver(s, reply) ==
  LET listed == {c \in ChunksOf(s) : reply[c] # "omitted"}
      ready  == {c \in listed : Resolves(c, s)}
  IN  /\ fetch[s] = "running"
      /\ fetch' = [fetch EXCEPT ![s] = "delivered"]
      /\ answer' = [p \in Pairs |-> IF p[1] = s THEN reply[p[2]] ELSE answer[p]]
      /\ observations' = observations \cup {<<s, c>> : c \in listed}
      /\ remaining' = [c \in Chunks |-> IF c \in listed /\ stage[c] = "waiting"
                                        THEN remaining[c] \ {s} ELSE remaining[c]]
      /\ stage' = [c \in Chunks |-> IF c \in ready THEN "queued" ELSE stage[c]]
      /\ \E order \in Bijection(1..Cardinality(ready), ready) :
            jobs' = jobs \o order
      /\ UNCHANGED <<submitted, started, begun, taken>>
      /\ UNCHANGED <<callerVars, canvasVars>>

FetchReturns(s) == \E reply \in [ChunksOf(s) -> Replies] : Deliver(s, reply)

(* fetch_scene raised: the future keeps the exception, nothing is merged.  *)
FetchRaises(s) ==
  /\ fetch[s] = "running"
  /\ fetch' = [fetch EXCEPT ![s] = "raised"]
  /\ answer' = [p \in Pairs |-> IF p[1] = s THEN "failed" ELSE answer[p]]
  /\ UNCHANGED <<submitted, started>>
  /\ UNCHANGED <<callerVars, trackVars, composeVars, canvasVars>>

-----------------------------------------------------------------------------
(* A compose worker: pop the chunk's observations; with none, return.      *)
Popped(c) == {s \in ScenesOf(c) : /\ <<s, c>> \in observations
                                  /\ answer[<<s, c>>] \in {"obs", "bad"}}

AfterPop(c) == observations \ {<<s, c>> : s \in ScenesOf(c)}

StartCompose ==
  /\ begun < Len(jobs)
  /\ Cardinality({c \in Chunks : stage[c] \in ActiveStages}) < ComposeWorkers
  /\ begun' = begun + 1
  /\ LET c == jobs[begun + 1] IN
       /\ taken' = [taken EXCEPT ![c] = InPlanOrder(c, Popped(c))]
       /\ stage' = [stage EXCEPT ![c] = IF Popped(c) = {} THEN "done" ELSE "took"]
       /\ observations' = AfterPop(c)
  /\ UNCHANGED <<callerVars, fetchVars, remaining, jobs, canvasVars>>

(* inner.compose raises for a misaligned observation, before any stitch.   *)
ComposeRaises(c) ==
  /\ stage[c] = "took"
  /\ \E s \in ScenesOf(c) : answer[<<s, c>>] = "bad"
  /\ stage' = [stage EXCEPT ![c] = "failed"]
  /\ UNCHANGED <<callerVars, fetchVars, trackVars, begun, taken, canvasVars>>

(* _stitch_chunk, in its three stages: the value arrays, then              *)
(* selected_observation, then the items under items_lock (setdefault).     *)
StitchPixels(c) ==
  /\ stage[c] = "took"
  /\ \A s \in ScenesOf(c) : answer[<<s, c>>] # "bad"
  /\ pixels' = [pixels EXCEPT ![c] = taken[c]]
  /\ stage' = [stage EXCEPT ![c] = "painted"]
  /\ UNCHANGED <<callerVars, fetchVars, trackVars, begun, taken, chosen, items>>

(* The sub-composite names scenes by local index; local index i stands for *)
(* local_to_global[i].  Variants: left local, or read as a plan index.     *)
Unmapped(c)      == [i \in 1..Len(taken[c]) |-> i]
PlanIndices(c)   == [i \in 1..Len(taken[c]) |-> Selected[c][i]]
GlobalIndices(c) == taken[c]

StitchSelected(c) ==
  /\ stage[c] = "painted"
  /\ chosen' = [chosen EXCEPT ![c] = GlobalIndices(c)]
  /\ stage' = [stage EXCEPT ![c] = "mapped"]
  /\ UNCHANGED <<callerVars, fetchVars, trackVars, begun, taken, pixels, items>>

ItemsOfPlanned(c) ==    \* variant: items of every planned scene
  [s \in Scenes |-> IF items[s] = NoItem /\ s \in ScenesOf(c) THEN c ELSE items[s]]
ItemsAfter(c) ==
  [s \in Scenes |-> IF /\ items[s] = NoItem
                       /\ \E i \in 1..Len(taken[c]) : taken[c][i] = s
                    THEN c ELSE items[s]]

StitchItems(c) ==
  /\ stage[c] = "mapped"
  /\ items' = ItemsAfter(c)
  /\ stage' = [stage EXCEPT ![c] = "done"]
  /\ UNCHANGED <<callerVars, fetchVars, trackVars, begun, taken, pixels, chosen>>

ComposeStep(c) == \/ ComposeRaises(c)
                  \/ StitchPixels(c)
                  \/ StitchSelected(c)
                  \/ StitchItems(c)

CallerStep == \/ SubmitFetch
              \/ JoinFetch
              \/ CloseFetchPool
              \/ JoinCompose
              \/ Shutdown

(* compose_pipelined has returned or raised; its threads are gone.         *)
Finished == caller \in {"returned", "raised"} /\ UNCHANGED vars

Next == \/ CallerStep
        \/ StartFetch
        \/ \E s \in Scenes : FetchReturns(s) \/ FetchRaises(s)
        \/ StartCompose
        \/ \E c \in Chunks : ComposeStep(c)
        \/ Finished

(* Every thread keeps running, and a fetch does return or raise: the       *)
(* source's reads have their own timeouts.                                 *)
Fairness == /\ WF_vars(CallerStep)
            /\ WF_vars(StartFetch)
            /\ \A s \in Scenes : WF_vars(FetchReturns(s) \/ FetchRaises(s))
            /\ WF_vars(StartCompose)
            /\ \A c \in Chunks : WF_vars(ComposeStep(c))

SafeSpec == Init /\ [][Next]_vars
Spec == SafeSpec /\ Fairness

-----------------------------------------------------------------------------
CallerPoints == {"submitting", "joining_fetches", "closing",
                 "joining_composes", "shutting_down", "returned", "raised"}
Stages == {"waiting", "queued"} \cup ActiveStages \cup TerminalStages
Selections(c) == {InPlanOrder(c, S) : S \in SUBSET ScenesOf(c)} \cup {<<>>}

(* The bookkeeping of the dispatcher keeps its shape: every counter stays  *)
(* within its list, and every window holds an in-plan-order selection.     *)
TypeOK ==
  /\ caller \in CallerPoints
  /\ error \in BOOLEAN
  /\ submitted \in 0..Len(SceneOrder)
  /\ joined \in Nat
  /\ started \in 0..submitted
  /\ fetch \in [Scenes -> {"idle", "running", "delivered", "raised"}]
  /\ answer \in [Pairs -> Build!Answers \cup {"pending"}]
  /\ remaining \in [Chunks -> SUBSET Scenes]
  /\ observations \subseteq Pairs
  /\ jobs \in Seq(Chunks)
  /\ begun \in 0..Len(jobs)
  /\ stage \in [Chunks -> Stages]
  /\ DOMAIN taken = Chunks /\ \A c \in Chunks : taken[c] \in Selections(c)
  /\ DOMAIN pixels = Chunks /\ \A c \in Chunks : pixels[c] \in Selections(c)
  /\ DOMAIN chosen = Chunks /\ \A c \in Chunks : chosen[c] \in Selections(c)
  /\ items \in [Scenes -> Chunks \cup {NoItem}]

(* A chunk handed to the compose pool has every key it will pop, and no    *)
(* fetch still to come can write one of them: popping without state_lock   *)
(* is safe (composite.py:351-352 against 383-395).                         *)
KeysSettledBeforePop ==
  \A c \in Chunks : stage[c] = "queued" =>
    \A s \in ScenesOf(c) : fetch[s] = "delivered" /\ <<s, c>> \in observations

(* Whatever the interleaving of fetches and composes, a finished chunk     *)
(* holds exactly what the sequential compose would put there: its answered *)
(* scenes in plan order, in the value arrays and in selected_observation.  *)
PaintedIsSequential ==
  \A c \in Chunks : stage[c] = "done" =>
    /\ pixels[c] = Build!Reference(c)
    /\ chosen[c] = pixels[c]

(* A composite is returned only when it is the sequential one everywhere.  *)
ReturnedEqualsSequential ==
  caller = "returned" => \A c \in Chunks : pixels[c] = Build!Reference(c)

(* The product's source items are exactly the scenes that contributed to   *)
(* some window, each with the metadata of a window it contributed to.      *)
SourceItemsComplete ==
  caller = "returned" =>
    \A s \in Scenes :
      LET windows == {c \in Chunks : stage[c] = "done" /\ s \in Build!Contributors(c)}
      IN  IF windows = {} THEN items[s] = NoItem ELSE items[s] \in windows

(* An exception in any worker thread reaches the caller of the build, and  *)
(* the build raises only when some worker did.                             *)
FailureSurfaces ==
  LET broken == \/ \E s \in Scenes : fetch[s] = "raised"
                \/ \E c \in Chunks : stage[c] = "failed"
  IN  /\ caller = "returned" => ~broken
      /\ caller = "raised" => broken

(* Some thread can always take the build to its end: neither pool starves  *)
(* and no chunk, delivered or lost, blocks the joins.                      *)
Terminates == <>(caller \in {"returned", "raised"})

(* The pipelined driver implements the driver-independent contract.        *)
ImplementsBuild == Build!Spec
=============================================================================
