-------------------------- MODULE PrefetchCompose --------------------------
(***************************************************************************)
(* The other driver of a chunked build, for a source without               *)
(* fetch_selected_for_scene: _prefetch_chunks_per_pair (provider.py:       *)
(* 406-440) fetches every selected (scene, chunk) pair, in a pool or, with *)
(* one worker, in the calling thread; ChunkedCompositor.compose            *)
(* (composite.py:178-272) then walks the chunks one after the other and    *)
(* reads the prefetched observations.                                      *)
(***************************************************************************)
EXTENDS Integers, SequencesExt

CONSTANTS Scenes,       (* scene indices of the plan                        *)
          Selected,     (* plan.selected: chunk -> sequence of scenes       *)
          ChunkOrder,   (* the chunks in layout order                       *)
          WorkerCounts  (* numbers of workers; 0 and 1 mean no pool         *)

Chunks == DOMAIN Selected

ASSUME PlanAssumption ==
  /\ \A c \in Chunks : Selected[c] \in Seq(Scenes) /\ Selected[c] # <<>> /\ IsInjective(Selected[c])
  /\ ChunkOrder \in Seq(Chunks) /\ ToSet(ChunkOrder) = Chunks /\ IsInjective(ChunkOrder)
  /\ WorkerCounts \subseteq Nat

(* The list of (scene, chunk) fetches, in the order of the two loops.      *)
Tasks == FlattenSeq([i \in 1..Len(ChunkOrder) |->
           LET c == ChunkOrder[i]
           IN  [j \in 1..Len(Selected[c]) |-> <<Selected[c][j], c>>]])
TaskIds == 1..Len(Tasks)
VARIABLES workers,  (* max_workers of this build                            *)
          caller,   (* program point of the thread inside _build_chunked    *)
          at,       (* results consumed, then chunks composed               *)
          error,    (* an exception is propagating out of the prefetch      *)
          task,     (* state of each fetch                                  *)
          answer,   (* what each pair got                                   *)
          cache,    (* keys of the prefetch result                          *)
          canvas    (* chunk -> scenes composited into its window           *)

vars == <<workers, caller, at, error, task, answer, cache, canvas>>

Pooled == workers > 1

Build == INSTANCE ChunkedBuild WITH
           verdict <- IF caller \in {"returned", "raised"}
                      THEN caller ELSE "building"

Init == /\ workers \in WorkerCounts
        /\ caller = IF Chunks = {} THEN "returned" ELSE "consuming"
        /\ at = 0
        /\ error = FALSE
        /\ task = [i \in TaskIds |-> "queued"]
        /\ answer = [p \in Build!Pairs |-> "pending"]
        /\ cache = {}
        /\ canvas = [c \in Chunks |-> <<>>]

(* A pool worker, or the calling thread without a pool, takes the next     *)
(* task; submission is FIFO.                                               *)
StartFetch(i) ==
  /\ caller \in {"consuming", "cancelling", "closing"}
  /\ task[i] = "queued" /\ \A j \in 1..(i - 1) : task[j] # "queued"
  /\ IF Pooled THEN Cardinality({j \in TaskIds : task[j] = "running"}) < workers
               ELSE caller = "consuming" /\ at = i - 1
  /\ task' = [task EXCEPT ![i] = "running"]
  /\ UNCHANGED <<workers, caller, at, error, answer, cache, canvas>>

FetchReturns(i) ==
  /\ task[i] = "running"
  /\ \E reply \in {"obs", "bad", "none"} : answer' = [answer EXCEPT ![Tasks[i]] = reply]
  /\ task' = [task EXCEPT ![i] = "done"]
  /\ UNCHANGED <<workers, caller, at, error, cache, canvas>>

FetchRaises(i) ==
  /\ task[i] = "running"
  /\ answer' = [answer EXCEPT ![Tasks[i]] = "failed"]
  /\ task' = [task EXCEPT ![i] = "raised"]
  /\ UNCHANGED <<workers, caller, at, error, cache, canvas>>

(* The caller stores the results in submission order.                      *)
Succeeded(i) == task[i] = "done"

Consume ==
  /\ caller = "consuming"
  /\ at < Len(Tasks) /\ Succeeded(at + 1)
  /\ cache' = cache \cup {Tasks[at + 1]}
  /\ at' = at + 1
  /\ UNCHANGED <<workers, caller, error, task, answer, canvas>>

(* A result that raises ends pool.map, which cancels what has not started, *)
(* last task first, while the workers keep starting the first ones.        *)
ConsumeRaises ==
  /\ caller = "consuming"
  /\ at < Len(Tasks) /\ task[at + 1] = "raised"
  /\ error' = TRUE
  /\ caller' = IF Pooled THEN "cancelling" ELSE "closing"
  /\ UNCHANGED <<workers, at, task, answer, cache, canvas>>

LastQueued(i) == task[i] = "queued" /\ \A j \in TaskIds : j > i => task[j] # "queued"

CancelQueued ==
  /\ caller = "cancelling"
  /\ IF \E i \in TaskIds : LastQueued(i)
     THEN /\ \E i \in TaskIds : LastQueued(i) /\ task' = [task EXCEPT ![i] = "cancelled"]
          /\ UNCHANGED caller
     ELSE caller' = "closing" /\ UNCHANGED task
  /\ UNCHANGED <<workers, at, error, answer, cache, canvas>>

(* Variants: shutdown(wait=False); waiting for every task to succeed.      *)
PoolIgnored   == TRUE
PoolSucceeded == \A i \in TaskIds : task[i] = "done"

PoolQuiet == \A i \in TaskIds : task[i] # "running" /\ (Pooled => task[i] # "queued")

(* Leaving the pool waits for the running fetches; then compose starts, or *)
(* the exception leaves build_prior.                                       *)
ClosePool ==
  /\ \/ caller = "closing"
     \/ caller = "consuming" /\ at = Len(Tasks)
  /\ PoolQuiet
  /\ caller' = IF error THEN "raised" ELSE "composing"
  /\ at' = 0
  /\ UNCHANGED <<workers, error, task, answer, cache, canvas>>

(* chunk_loader is cache.get: an absent key and a None answer are skipped. *)
LoadedWithNone(c) == Build!ScenesOf(c)    \* variant: None is not skipped
Loaded(c) == {s \in Build!ScenesOf(c) :
                <<s, c>> \in cache /\ answer[<<s, c>>] \in {"obs", "bad"}}

Merged(c) == IF Loaded(c) = {} THEN <<>> ELSE Build!InPlanOrder(c, Loaded(c))

ComposeNext ==
  /\ caller = "composing"
  /\ at < Len(ChunkOrder)
  /\ LET c == ChunkOrder[at + 1] IN
       IF \E s \in Loaded(c) : answer[<<s, c>>] = "bad"
       THEN caller' = "raised" /\ UNCHANGED <<workers, at, canvas>>
       ELSE /\ canvas' = [canvas EXCEPT ![c] = Merged(c)]
            /\ at' = at + 1
            /\ UNCHANGED caller
  /\ UNCHANGED <<workers, error, task, answer, cache>>

ReturnComposite ==
  /\ caller = "composing"
  /\ at = Len(ChunkOrder)
  /\ caller' = "returned"
  /\ UNCHANGED <<workers, at, error, task, answer, cache, canvas>>

Finished == caller \in {"returned", "raised"} /\ UNCHANGED vars

Worker(i) == StartFetch(i) \/ FetchReturns(i) \/ FetchRaises(i)
CallerStep == \/ Consume
              \/ ConsumeRaises
              \/ CancelQueued
              \/ ClosePool
              \/ ComposeNext
              \/ ReturnComposite

Next == \/ \E i \in TaskIds : Worker(i)
        \/ CallerStep
        \/ Finished

(* The threads run and every fetch returns or raises.                      *)
SafeSpec == Init /\ [][Next]_vars
Spec == SafeSpec /\ WF_vars(CallerStep) /\ \A i \in TaskIds : WF_vars(Worker(i))

-----------------------------------------------------------------------------

(* When the build has returned or raised no fetch is running and none will *)
(* start: a failed fetch cancels the queued ones (pool.map).               *)
QuietWhenOver ==
  caller \in {"returned", "raised"} =>
    \A i \in TaskIds : task[i] # "running" /\ (Pooled => task[i] # "queued")

(* The call ends: no fetch, cancelled or raised, keeps the caller waiting. *)
Terminates == <>(caller \in {"returned", "raised"})

(* The prefetching driver implements the same contract as the pipeline.    *)
ImplementsBuild == Build!Spec
=============================================================================
