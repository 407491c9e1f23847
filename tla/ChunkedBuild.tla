--------------------------- MODULE ChunkedBuild ---------------------------
(***************************************************************************)
(* What a chunked build promises, whichever driver runs it: the answers of *)
(* the source arrive in any order and any grouping; a chunk is painted     *)
(* once, after every (scene, chunk) pair the plan selected for it has been *)
(* answered, with the contributing scenes in plan order; the build returns *)
(* only when every chunk with a contribution is painted, and raises only   *)
(* for a reason.  This is the observable meaning of the sequential         *)
(* ChunkedCompositor.compose over a chunk_loader (composite.py:178-272).   *)
(* ChunkPipeline and PrefetchCompose are shown to implement it.            *)
(***************************************************************************)
EXTENDS Naturals, Sequences, FiniteSets

CONSTANTS Scenes,    (* the scene indices the selection plan uses           *)
          Selected   (* plan.selected: chunk id -> sequence of its scenes   *)

Chunks == DOMAIN Selected

(* The scenes of a chunk, and the (scene, chunk) pairs a build asks for.   *)
ScenesOf(c) == {Selected[c][i] : i \in 1..Len(Selected[c])}
Pairs == UNION {{<<s, c>> : s \in ScenesOf(c)} : c \in Chunks}

(* What a source may answer for one pair: an observation, an observation   *)
(* the compositor will reject (wrong bands or shape), None, no entry in    *)
(* the returned mapping, or an exception.                                  *)
Answers == {"obs", "bad", "none", "omitted", "failed"}

(* local_to_global of one chunk: its contributing scenes, in plan order.   *)
Places(c, S) == {i \in 1..Len(Selected[c]) : Selected[c][i] \in S}
Place(c, S, k) == CHOOSE i \in Places(c, S) :
                    Cardinality({j \in Places(c, S) : j < i}) = k - 1
InPlanOrder(c, S) ==
  [k \in 1..Cardinality(Places(c, S)) |-> Selected[c][Place(c, S, k)]]

VARIABLES answer,    (* what each pair got, or "pending"                    *)
          canvas,    (* chunk -> scenes composited into it, <<>> is nodata  *)
          verdict    (* "building", "returned" or "raised"                  *)

abstractVars == <<answer, canvas, verdict>>

Contributors(c) == {s \in ScenesOf(c) : answer[<<s, c>>] = "obs"}
Answered(c) == \A s \in ScenesOf(c) :
                  answer[<<s, c>>] \notin {"pending", "failed"}
Rejected(c) == \E s \in ScenesOf(c) : answer[<<s, c>>] = "bad"
(* A chunk nobody contributes to is skipped: its window stays nodata.       *)
Reference(c) == IF Contributors(c) = {} THEN <<>>
                ELSE InPlanOrder(c, Contributors(c))

Init == /\ answer = [p \in Pairs |-> "pending"]
        /\ canvas = [c \in Chunks |-> <<>>]
        /\ verdict = IF Chunks = {} THEN "returned" ELSE "building"

(* Some pending pairs are answered, in whatever grouping the driver uses.  *)
Answer == /\ verdict = "building"
          /\ answer' \in [Pairs -> Answers \cup {"pending"}]
          /\ \A p \in Pairs : answer[p] # "pending" => answer'[p] = answer[p]
          /\ UNCHANGED <<canvas, verdict>>

Paint(c) == /\ verdict = "building"
            /\ Answered(c)
            /\ ~Rejected(c)
            /\ canvas[c] = <<>>
            /\ canvas' = [canvas EXCEPT ![c] = Reference(c)]
            /\ UNCHANGED <<answer, verdict>>

Return == /\ verdict = "building"
          /\ \A c \in Chunks : /\ Answered(c)
                               /\ ~Rejected(c)
                               /\ canvas[c] = Reference(c)
          /\ verdict' = "returned"
          /\ UNCHANGED <<answer, canvas>>

Raise == /\ verdict = "building"
         /\ \/ \E p \in Pairs : answer[p] = "failed"
            \/ \E c \in Chunks : Answered(c) /\ Rejected(c)
         /\ verdict' = "raised"
         /\ UNCHANGED <<answer, canvas>>

Next == \/ Answer
        \/ \E c \in Chunks : Paint(c)
        \/ Return
        \/ Raise

Spec == Init /\ [][Next]_abstractVars
=============================================================================
