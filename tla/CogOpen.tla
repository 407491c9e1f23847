------------------------------- MODULE CogOpen -------------------------------
(***************************************************************************)
(* Tasks of one process open one raster file: open_cog and the header      *)
(* parser.  A profile is looked for in memory, then on disk, and else the  *)
(* file's head is fetched and its directories are followed, with a further *)
(* block fetched for whatever lies beyond it.  A profile, parsed, is the   *)
(* same for everyone, so the caches say only whether they hold it.         *)
(***************************************************************************)
EXTENDS Integers, Sequences, FiniteSets

CONSTANTS Files,        \* the rasters, by name
          Openers,
          HeaderRange,  \* bytes fetched first
          Align, Block  \* a further fetch starts at a multiple of Align and asks for Block bytes

ASSUME BlockAssumption ==
  Align \in Nat \ {0} /\ Block \in Nat /\ Align <= Block /\ HeaderRange \in Nat
ASSUME FilesAssumption ==
  \A f \in DOMAIN Files : Files[f].length \in Nat /\ Files[f].reads \in Seq(Nat \X Nat)

\* file names the raster: its length is its size and its reads are the byte
\* ranges of its directories in the order they are parsed, <<offset, length>>.
VARIABLES file, memory, disk, opener

openVars == <<memory, disk, opener>>

Closed == [pc |-> "closed", chunks |-> {}, left |-> <<>>]

OpenInit == /\ memory = FALSE
            /\ disk \in BOOLEAN
            /\ opener \in [Openers -> {Closed, [Closed EXCEPT !.pc = "away"]}]

Opened(t) == opener' = [opener EXCEPT ![t] = [Closed EXCEPT !.pc = "opened"]]

FromMemory(t) == opener[t].pc = "closed" /\ memory /\ Opened(t) /\ UNCHANGED <<memory, disk>>

\* A file on disk that does not load is a miss.
FromDisk(t) == /\ opener[t].pc = "closed" /\ ~memory /\ disk
               /\ memory' = TRUE
               /\ Opened(t)
               /\ UNCHANGED disk

Miss(t) == /\ opener[t].pc = "closed" /\ ~memory
           /\ opener' = [opener EXCEPT ![t].pc = "asking"]
           /\ UNCHANGED <<memory, disk>>

\* What the server sends of a range: its bytes up to the end of the file.
Chunk(start, length) ==
  <<start, IF start + length <= Files[file].length THEN start + length ELSE Files[file].length>>

Has(chunks, read) == \E c \in chunks : c[1] <= read[1] /\ read[1] + read[2] <= c[2]

Fail(t) == opener' = [opener EXCEPT ![t] = [Closed EXCEPT !.pc = "open_failed"]]

\* http_range_get ends in an error (CogReader has its attempts).
GetFails(t) == /\ opener[t].pc \in {"asking", "more"}
               /\ Fail(t)
               /\ UNCHANGED <<memory, disk>>

FetchHeader(t) ==
  /\ opener[t].pc = "asking"
  /\ opener' = [opener EXCEPT ![t] = [pc |-> "parsing", chunks |-> {Chunk(0, HeaderRange)},
                                      left |-> Files[file].reads]]
  /\ UNCHANGED <<memory, disk>>

\* The next directory or value: at hand, or in a block to fetch.
Parse(t) ==
  /\ opener[t].pc = "parsing" /\ opener[t].left # <<>>
  /\ opener' = IF Has(opener[t].chunks, Head(opener[t].left))
               THEN [opener EXCEPT ![t].left = Tail(@)]
               ELSE [opener EXCEPT ![t].pc = "more"]
  /\ UNCHANGED <<memory, disk>>

\* Variant: blocks that do not overlap.
BlockAligned(offset) == (offset \div Block) * Block
BlockStart(offset) == (offset \div Align) * Align

\* ensure: fails when the block does not hold the whole of what is read.
FetchBlock(t) ==
  LET read == Head(opener[t].left)
      chunks == opener[t].chunks \union {Chunk(BlockStart(read[1]), Block)}
  IN  /\ opener[t].pc = "more"
      /\ IF Has(chunks, read)
         THEN opener' = [opener EXCEPT ![t] = [@ EXCEPT !.pc = "parsing", !.chunks = chunks]]
         ELSE Fail(t)
      /\ UNCHANGED <<memory, disk>>

\* The profile goes to memory, and to disk if that succeeds.
Remember(t) ==
  /\ opener[t].pc = "parsing" /\ opener[t].left = <<>>
  /\ memory' = TRUE
  /\ disk' \in {disk, TRUE}
  /\ Opened(t)

OpenStep(t) == \/ FromMemory(t) \/ FromDisk(t) \/ Miss(t) \/ FetchHeader(t)
               \/ Parse(t) \/ FetchBlock(t) \/ Remember(t)

-----------------------------------------------------------------------------
\* Nothing in the file's directories is out of reach: a value of up to
\* Block - Align + 1 bytes is covered by the one block fetched for it, wherever
\* it lies, so an open fails only when a request does (HeaderBuffer::ensure).
Reachable(read) == read[2] <= Block - Align + 1 /\ read[1] + read[2] <= Files[file].length

CoverableIsRead ==
  \A t \in Openers : opener[t].pc = "more" /\ Reachable(Head(opener[t].left))
    => Has({Chunk(BlockStart(Head(opener[t].left)[1]), Block)}, Head(opener[t].left))
=============================================================================
