--------------------------- MODULE RustBuildProofs ---------------------------
(***************************************************************************)
(* The Rust build, and the disk cache it keeps.  A store during which      *)
(* nobody else has the key's temporary file is found whole until the next  *)
(* one, whatever races and deaths came before, for any number of writers,  *)
(* readers, files and values.  The builds of a process (RustBuild) list    *)
(* every day asked for, compose whole observations, account for every      *)
(* period and take no more scenes warm than cold, for any catalogue,       *)
(* requests, grid, windows and aerosol record, and any number of builds.   *)
(***************************************************************************)
EXTENDS RustBuild, RustDiskCache, FiniteSetTheorems, TLAPS

-----------------------------------------------------------------------------
(* The disk cache.                                                         *)
Points == {"idle", "reading", "create", "write", "write_rest", "rename"}
Window == {"write", "write_rest", "rename"}
Halves == Data \cup {None}

FilesType == /\ final \in Inodes \cup {None} /\ tmp \in Inodes \cup {None}
             /\ content \in [Inodes -> Halves \X Halves]
             /\ pc \in [Users -> Points]
             /\ fd \in [Users -> Inodes \cup {None}]
             /\ value \in [Writers -> Halves]
             /\ alone \subseteq Writers
             /\ sure \in Data \cup {Miss, None}
             /\ promised \in [Readers -> Data \cup {Miss, None}]

(* Who is at which point has which file open.                              *)
OpenInv ==
  \A p \in Users :
    /\ pc[p] = "reading" => p \in Readers /\ fd[p] \in Inodes
    /\ pc[p] \in {"create"} \cup Window => p \in Writers /\ value[p] \in Data
    /\ pc[p] \in Window => fd[p] \in Inodes

(* No writer has the file, and none will find it under the shared name.    *)
Settled(n) == n # tmp /\ \A w \in Users : pc[w] \in Window => fd[w] # n

SureInv == sure # None => Parsed(final) = sure /\ (final # None => Settled(final))
PromiseInv ==
  \A r \in Readers :
    pc[r] = "reading" /\ promised[r] # None => Parsed(fd[r]) = promised[r] /\ Settled(fd[r])

(* A writer that is alone holds the temporary file and has written into it *)
(* what its point says; nobody else writes.                                *)
AloneWriter(w) ==
  pc[w] \in Window =>
    /\ fd[w] = tmp
    /\ \A q \in Users \ {w} : pc[q] \notin Window
    /\ pc[w] = "write_rest" => content[tmp][1] = value[w]
    /\ pc[w] = "rename" => content[tmp] = <<value[w], value[w]>>
AloneWriters == \A w \in alone : AloneWriter(w)

FilesInv == FilesType /\ OpenInv /\ SureInv /\ PromiseInv /\ AloneWriters

LEMMA SetFirst ==
  ASSUME NEW h \in Halves \X Halves, NEW v \in Halves
  PROVE  /\ [h EXCEPT ![1] = v] \in Halves \X Halves
         /\ [h EXCEPT ![1] = v][1] = v
  OBVIOUS

LEMMA SetSecond ==
  ASSUME NEW h \in Halves \X Halves, NEW v \in Halves
  PROVE  /\ [h EXCEPT ![2] = v] \in Halves \X Halves
         /\ [h EXCEPT ![2] = v] = <<h[1], v>>
  OBVIOUS

LEMMA FilesInvInit ==
  ASSUME Init
  PROVE  FilesInv
BY DEF Init, Empty, FilesInv, FilesType, Halves, Points, Window, OpenInv, SureInv, PromiseInv, AloneWriters, Parsed

(* A file with one value twice is read as that value.                      *)
LEMMA ParsedWhole ==
  ASSUME NEW n \in Inodes, NEW v \in Data, content[n] = <<v, v>>
  PROVE  Parsed(n) = v
BY InodesAssumption DEF Parsed

LEMMA ParsedSame ==
  ASSUME NEW n, n # None => content'[n] = content[n]
  PROVE  Parsed(n)' = Parsed(n)
BY DEF Parsed

LEMMA ReadSame ==
  ASSUME NEW r \in Readers, NEW n, fd'[r] = n, n # None => content'[n] = content[n]
  PROVE  Parsed(fd[r])' = Parsed(n)
BY DEF Parsed

LEMMA FinalSame ==
  ASSUME NEW n, final' = n, n # None => content'[n] = content[n]
  PROVE  Parsed(final)' = Parsed(n)
BY DEF Parsed

LEMMA SettledSame ==
  ASSUME NEW n, n # tmp', \A w \in Users : pc'[w] \in Window => fd'[w] # n
  PROVE  /\ final' = n => Settled(final)'
         /\ \A r \in Readers : fd'[r] = n => Settled(fd[r])'
BY DEF Settled

(* A step that changes neither the names nor what is promised, and touches *)
(* no settled file that has the final name or is being read.               *)
LEMMA PromisesKept ==
  ASSUME FilesInv, UNCHANGED <<final, tmp, sure>>,
         \A r \in Readers : pc'[r] = "reading" =>
           pc[r] = "reading" /\ fd'[r] = fd[r] /\ promised'[r] = promised[r],
         \A q \in Users : pc'[q] \in Window => pc[q] \in Window /\ fd'[q] = fd[q],
         \A n \in Inodes : Settled(n) /\ (n = final \/ \E r \in Readers : pc'[r] = "reading" /\ fd[r] = n)
                             => content'[n] = content[n]
  PROVE  SureInv' /\ PromiseInv'
<1>1. \A n : Settled(n) => Settled(n)'
  BY DEF Settled
<1>2. SureInv'
  <2> SUFFICES ASSUME sure # None PROVE Parsed(final)' = sure /\ (final # None => Settled(final)')
    BY DEF SureInv
  <2>1. Parsed(final) = sure /\ (final # None => Settled(final))
    BY DEF FilesInv, SureInv
  <2>2. final # None => content'[final] = content[final]
    BY <2>1 DEF FilesInv, FilesType
  <2>3. QED
    BY <1>1, <2>1, <2>2, ParsedSame
<1>3. PromiseInv'
  <2> SUFFICES ASSUME NEW r \in Readers, pc'[r] = "reading", promised'[r] # None
               PROVE  Parsed(fd[r])' = promised[r] /\ Settled(fd[r])'
    BY DEF PromiseInv
  <2>1. Parsed(fd[r]) = promised[r] /\ Settled(fd[r]) /\ fd[r] \in Inodes
    BY DEF FilesInv, PromiseInv, OpenInv, Users
  <2>2. content'[fd[r]] = content[fd[r]]
    BY <2>1
  <2>3. Settled(fd[r])'
    BY <2>1, SettledSame DEF Settled
  <2>4. QED
    BY <2>1, <2>2, <2>3, ReadSame
<1>4. QED
  BY <1>2, <1>3

LEMMA ReclaimedType ==
  ASSUME FilesType, Reclaim
  PROVE  content' \in [Inodes -> Halves \X Halves]
<1>1. Empty \in Halves \X Halves
  BY DEF Empty, Halves
<1>2. QED
  BY <1>1 DEF Reclaim, FilesType

(* A file with a name or a descriptor keeps its content.                   *)
LEMMA Reclaimed ==
  ASSUME FilesType, Reclaim, NEW n \in Inodes
  PROVE  /\ content' \in [Inodes -> Halves \X Halves]
         /\ (n = final' \/ n = tmp' \/ \E q \in Users : fd'[q] = n) => content'[n] = content[n]
<1>2. content' \in [Inodes -> Halves \X Halves]
  BY ReclaimedType
<1>3. (n = final' \/ n = tmp' \/ \E q \in Users : fd'[q] = n) => n \notin Unused'
  BY DEF Unused
<1>4. QED
  BY <1>2, <1>3 DEF Reclaim

LEMMA Left ==
  ASSUME FilesInv, NEW p \in Users, Leave(p)
  PROVE  /\ pc' \in [Users -> Points] /\ fd' \in [Users -> Inodes \cup {None}]
         /\ value' \in [Writers -> Halves] /\ alone' \subseteq Writers
         /\ promised' \in [Readers -> Data \cup {Miss, None}]
         /\ pc'[p] = "idle" /\ p \notin alone' /\ alone' \subseteq alone
         /\ \A q \in Users \ {p} : pc'[q] = pc[q] /\ fd'[q] = fd[q]
         /\ \A r \in Readers \ {p} : promised'[r] = promised[r]
         /\ \A w \in Writers \ {p} : value'[w] = value[w]
         /\ OpenInv'
<1> USE DEF FilesInv, FilesType
<1>1. /\ pc' \in [Users -> Points] /\ fd' \in [Users -> Inodes \cup {None}]
      /\ pc'[p] = "idle" /\ \A q \in Users \ {p} : pc'[q] = pc[q] /\ fd'[q] = fd[q]
  BY DEF Leave, Goto, Points
<1>2. /\ value' \in [Writers -> Halves] /\ promised' \in [Readers -> Data \cup {Miss, None}]
      /\ \A r \in Readers \ {p} : promised'[r] = promised[r]
      /\ \A w \in Writers \ {p} : value'[w] = value[w]
  BY DEF Leave, Halves
<1>3. alone' \subseteq Writers /\ p \notin alone' /\ alone' \subseteq alone
  BY DEF Leave
<1>4. OpenInv'
  <2>1. ASSUME NEW q \in Users, q # p
        PROVE  /\ pc'[q] = "reading" => q \in Readers /\ fd'[q] \in Inodes
               /\ pc'[q] \in {"create"} \cup Window => q \in Writers /\ value'[q] \in Data
               /\ pc'[q] \in Window => fd'[q] \in Inodes
    BY <1>1, <1>2, <2>1 DEF OpenInv
  <2>2. QED
    BY <1>1, <2>1 DEF OpenInv, Window
<1>5. QED
  BY <1>1, <1>2, <1>3, <1>4

(* A read that ends, a store that fails, a death.                          *)
LEMMA Leaving ==
  ASSUME FilesInv, NEW p \in Users, Leave(p), UNCHANGED <<final, tmp, sure>>,
         Reclaim \/ content' = content
  PROVE  FilesInv'
<1>1. /\ content' \in [Inodes -> Halves \X Halves]
      /\ \A n \in Inodes : (n = final \/ n = tmp \/ \E q \in Users \ {p} : fd[q] = n) => content'[n] = content[n]
  <2>1. CASE content' = content
    BY <2>1 DEF FilesInv, FilesType
  <2>2. CASE Reclaim
    <3>1. content' \in [Inodes -> Halves \X Halves]
      BY <2>2, ReclaimedType DEF FilesInv
    <3>2. ASSUME NEW n \in Inodes, n = final \/ n = tmp \/ \E q \in Users \ {p} : fd[q] = n
          PROVE  content'[n] = content[n]
      <4>1. n = final' \/ n = tmp' \/ \E q \in Users : fd'[q] = n
        BY <3>2, Left
      <4>2. QED
        BY <2>2, <4>1, Reclaimed DEF FilesInv
    <3>3. QED
      BY <3>1, <3>2
  <2>3. QED
    BY <2>1, <2>2
<1>2. FilesType' /\ OpenInv'
  BY <1>1, Left DEF FilesInv, FilesType
<1>3. SureInv' /\ PromiseInv'
  <2>1. \A r \in Readers : pc'[r] = "reading" =>
           r # p /\ pc[r] = "reading" /\ fd'[r] = fd[r] /\ promised'[r] = promised[r]
    BY Left DEF Users
  <2>2. \A q \in Users : pc'[q] \in Window => pc[q] \in Window /\ fd'[q] = fd[q]
    BY Left DEF Window
  <2>3. \A n \in Inodes : (n = final \/ \E r \in Readers : pc'[r] = "reading" /\ fd[r] = n) => content'[n] = content[n]
    BY <1>1, <2>1 DEF Users
  <2>4. QED
    BY <2>1, <2>2, <2>3, PromisesKept
<1>4. AloneWriters'
  <2> SUFFICES ASSUME NEW w \in alone', pc'[w] \in Window
               PROVE  AloneWriter(w)'
    BY DEF AloneWriters, AloneWriter
  <2>1. w \in alone /\ w # p /\ w \in Users /\ w \in Writers
    BY Left DEF Users
  <2>2. pc'[w] = pc[w] /\ fd'[w] = fd[w] /\ value'[w] = value[w]
    BY <2>1, Left
  <2>3. AloneWriter(w) /\ fd[w] \in Inodes
    BY <2>1, <2>2 DEF FilesInv, AloneWriters, OpenInv
  <2>4. content'[tmp] = content[tmp]
    BY <1>1, <2>2, <2>3 DEF AloneWriter
  <2>5. \A q \in Users \ {w} : pc'[q] \notin Window
    BY <2>2, <2>3, Left DEF AloneWriter, Window
  <2>6. QED
    BY <2>2, <2>3, <2>4, <2>5 DEF AloneWriter
<1>5. QED
  BY <1>2, <1>3, <1>4 DEF FilesInv

LEMMA ExistsKeeps ==
  ASSUME FilesInv, NEW r \in Readers, Exists(r)
  PROVE  FilesInv'
<1> USE DEF Users
<1>1. /\ pc' \in [Users -> Points] /\ fd' \in [Users -> Inodes \cup {None}]
      /\ promised' \in [Readers -> Data \cup {Miss, None}]
      /\ pc[r] = "idle" /\ pc'[r] = "reading" /\ fd'[r] = final /\ promised'[r] = sure /\ final \in Inodes
      /\ \A q \in Users \ {r} : pc'[q] = pc[q] /\ fd'[q] = fd[q]
      /\ \A q \in Readers \ {r} : promised'[q] = promised[q]
      /\ UNCHANGED <<final, tmp, content, value, alone, sure>>
  BY DEF FilesInv, FilesType, Exists, Goto, Points
<1>2. FilesType' /\ OpenInv'
  BY <1>1 DEF FilesInv, FilesType, OpenInv, Window
<1>3. \A n : (Settled(n) => Settled(n)') /\ Parsed(n)' = Parsed(n)
  BY <1>1 DEF Settled, Window, Parsed
<1>4. SureInv'
  BY <1>1, <1>3 DEF FilesInv, SureInv, Parsed, Settled, Window
<1>5. PromiseInv'
  <2> SUFFICES ASSUME NEW q \in Readers, pc'[q] = "reading", promised'[q] # None
               PROVE  Parsed(fd[q])' = promised'[q] /\ Settled(fd[q])'
    BY DEF PromiseInv
  <2>1. CASE q = r
    <3>1. Parsed(final) = sure /\ Settled(final)
      BY <1>1, <2>1, InodesAssumption DEF FilesInv, SureInv
    <3>2. fd'[q] = final /\ promised'[q] = sure /\ content'[final] = content[final]
      BY <1>1, <2>1
    <3>3. Settled(fd[q])'
      BY <1>1, <3>1, <3>2, SettledSame DEF Settled, Window
    <3>4. QED
      BY <3>1, <3>2, <3>3, ReadSame
  <2>2. CASE q # r
    <3>1. fd'[q] = fd[q] /\ Parsed(fd[q]) = promised'[q] /\ Settled(fd[q]) /\ content'[fd[q]] = content[fd[q]]
      BY <1>1, <2>2 DEF FilesInv, PromiseInv
    <3>2. Settled(fd[q])'
      BY <1>1, <3>1, SettledSame DEF Settled, Window
    <3>3. QED
      BY <3>1, <3>2, ReadSame
  <2>3. QED
    BY <2>1, <2>2
<1>6. AloneWriters'
  BY <1>1 DEF FilesInv, FilesType, AloneWriters, AloneWriter, Window
<1>7. QED
  BY <1>2, <1>4, <1>5, <1>6 DEF FilesInv

LEMMA StartStoreKeeps ==
  ASSUME FilesInv, NEW w \in Writers, StartStore(w)
  PROVE  FilesInv'
<1> USE DEF Users
<1>1. /\ pc' \in [Users -> Points] /\ value' \in [Writers -> Halves]
      /\ pc'[w] = "create" /\ value'[w] \in Data /\ pc[w] = "idle"
      /\ \A q \in Users \ {w} : pc'[q] = pc[q]
      /\ \A q \in Writers \ {w} : value'[q] = value[q]
      /\ UNCHANGED <<final, tmp, content, fd, alone, sure, promised>>
  BY DEF FilesInv, FilesType, StartStore, Goto, Points, Halves, history
<1>2. FilesType' /\ OpenInv'
  BY <1>1 DEF FilesInv, FilesType, OpenInv, Window
<1>3. SureInv' /\ PromiseInv'
  BY <1>1, PromisesKept DEF Window
<1>4. AloneWriters'
  BY <1>1 DEF FilesInv, FilesType, AloneWriters, AloneWriter, Window
<1>5. QED
  BY <1>2, <1>3, <1>4 DEF FilesInv

(* There is always another file, and create takes it or cuts the old one.  *)
LEMMA CreatedFile ==
  ASSUME FilesType
  PROVE  Created \in Inodes /\ (Created = tmp \/ Created \in Unused)
<1>1. CASE tmp # None
  BY <1>1 DEF Created, FilesType
<1>2. CASE tmp = None
  <2> DEFINE open == {fd[p] : p \in Users}
  <2>1. IsFiniteSet(Users) /\ Cardinality(Users) <= Cardinality(Writers) + Cardinality(Readers)
    <3>1. /\ IsFiniteSet(Writers \cup Readers)
          /\ Cardinality(Writers \cup Readers)
               = Cardinality(Writers) + Cardinality(Readers) - Cardinality(Writers \cap Readers)
      BY InodesAssumption, FS_Union
    <3>2. Writers \cap Readers \in SUBSET Writers
      OBVIOUS
    <3>3. Cardinality(Writers \cap Readers) \in Nat
      BY <3>2, InodesAssumption, FS_Subset, FS_CardinalityType
    <3>4. Cardinality(Writers) \in Nat /\ Cardinality(Readers) \in Nat
      BY InodesAssumption, FS_CardinalityType
    <3>5. QED
      BY <3>1, <3>3, <3>4 DEF Users
  <2>2. IsFiniteSet(open) /\ Cardinality(open) <= Cardinality(Users)
    <3>1. fd \in Surjection(Users, open)
      BY DEF FilesType, Surjection
    <3>2. QED
      BY <2>1, <3>1, FS_Surjection
  <2>3. IsFiniteSet(open \cup {final}) /\ Cardinality(open \cup {final}) <= Cardinality(open) + 1
    <3> HIDE DEF open
    <3>1. Cardinality(open) \in Nat
      BY <2>2, FS_CardinalityType
    <3>2. /\ IsFiniteSet(open \cup {final})
          /\ Cardinality(open \cup {final}) = IF final \in open THEN Cardinality(open) ELSE Cardinality(open) + 1
      BY <2>2, FS_AddElement
    <3>3. QED
      BY <3>1, <3>2
  <2>4. Cardinality(open \cup {final}) < Cardinality(Inodes)
    <3>1. /\ Cardinality(open) \in Nat /\ Cardinality(Users) \in Nat /\ Cardinality(open \cup {final}) \in Nat
          /\ Cardinality(Writers) \in Nat /\ Cardinality(Readers) \in Nat /\ Cardinality(Inodes) \in Nat
      BY <2>1, <2>2, <2>3, InodesAssumption, FS_CardinalityType
    <3>2. QED
      BY <2>1, <2>2, <2>3, <3>1, InodesAssumption
  <2>5. ~(Inodes \subseteq open \cup {final})
    <3> SUFFICES ASSUME Inodes \subseteq open \cup {final} PROVE FALSE
      OBVIOUS
    <3>1. Cardinality(Inodes) <= Cardinality(open \cup {final})
      BY <2>3, FS_Subset
    <3>2. Cardinality(Inodes) \in Nat /\ Cardinality(open \cup {final}) \in Nat
      BY <2>3, InodesAssumption, FS_CardinalityType
    <3>3. QED
      BY <2>4, <3>1, <3>2
  <2>6. \E n \in Inodes : n \in Unused
    BY <1>2, <2>5, InodesAssumption DEF Unused
  <2>7. QED
    BY <1>2, <2>6 DEF Created
<1>3. QED
  BY <1>1, <1>2

LEMMA CreateKeeps ==
  ASSUME FilesInv, NEW w \in Writers, Create(w)
  PROVE  FilesInv'
<1> USE DEF Users
<1>1. CASE Leave(w) /\ UNCHANGED <<tmp, content>>
  BY <1>1, Leaving DEF Create
<1>2. CASE ~(Leave(w) /\ UNCHANGED <<tmp, content>>)
  <2>1. PICK n \in Inodes : /\ n = tmp \/ n \in Unused
                            /\ tmp' = n /\ content' = [content EXCEPT ![n] = Empty] /\ fd' = [fd EXCEPT ![w] = n]
    BY <1>2, CreatedFile DEF Create, FilesInv
  <2>2. n \in Inodes /\ (n = tmp \/ n \in Unused)
    BY <2>1
  <2>3. Empty \in Halves \X Halves
    BY DEF Empty, Halves
  <2>4. /\ pc' \in [Users -> Points] /\ fd' \in [Users -> Inodes \cup {None}] /\ alone' \subseteq Writers
        /\ content' \in [Inodes -> Halves \X Halves]
        /\ pc[w] = "create" /\ pc'[w] = "write" /\ fd'[w] = n
        /\ \A q \in Users \ {w} : pc'[q] = pc[q] /\ fd'[q] = fd[q]
        /\ \A m \in Inodes \ {n} : content'[m] = content[m]
        /\ alone' = IF Writing = {} THEN {w} ELSE {}
        /\ UNCHANGED <<final, value, sure, promised>>
    BY <1>2, <2>1, <2>2, <2>3 DEF FilesInv, FilesType, Create, Goto, Points
  <2>5. FilesType'
    BY <2>1, <2>2, <2>4 DEF FilesInv, FilesType
  <2>6. OpenInv'
    BY <2>2, <2>4 DEF FilesInv, OpenInv, Window
  <2>7. ASSUME NEW m \in Inodes, Settled(m), m \notin Unused
        PROVE  m # tmp' /\ content'[m] = content[m] /\ \A q \in Users : pc'[q] \in Window => fd'[q] # m
    <3>1. m # n
      BY <2>2, <2>7 DEF Settled
    <3>2. QED
      BY <2>1, <2>4, <2>7, <3>1 DEF Settled, Window
  <2>8. final \notin Unused /\ \A q \in Users : fd[q] \notin Unused
    BY DEF Unused
  <2>9. SureInv'
    <3> SUFFICES ASSUME sure # None PROVE Parsed(final)' = sure /\ (final # None => Settled(final)')
      BY <2>4 DEF SureInv, Parsed, Settled
    <3>1. Parsed(final) = sure /\ (final # None => Settled(final) /\ final \in Inodes)
      BY DEF FilesInv, FilesType, SureInv
    <3>2. CASE final = None
      BY <2>4, <3>1, <3>2 DEF Parsed
    <3>3. CASE final # None
      <4>1. content'[final] = content[final] /\ Settled(final)'
        BY <2>4, <2>7, <2>8, <3>1, <3>3, SettledSame
      <4>2. QED
        BY <2>4, <3>1, <4>1, FinalSame
    <3>4. QED
      BY <3>2, <3>3
  <2>10. PromiseInv'
    <3> SUFFICES ASSUME NEW r \in Readers, pc'[r] = "reading", promised'[r] # None
                 PROVE  Parsed(fd[r])' = promised'[r] /\ Settled(fd[r])'
      BY DEF PromiseInv
    <3>1. r # w /\ pc[r] = "reading" /\ fd'[r] = fd[r] /\ promised'[r] = promised[r]
      BY <2>4
    <3>2. Parsed(fd[r]) = promised[r] /\ Settled(fd[r]) /\ fd[r] \in Inodes
      BY <2>4, <3>1 DEF FilesInv, PromiseInv, OpenInv
    <3>3. Settled(fd[r])' /\ content'[fd[r]] = content[fd[r]]
      BY <2>7, <2>8, <3>1, <3>2, SettledSame
    <3>4. QED
      BY <3>1, <3>2, <3>3, ReadSame
  <2>11. AloneWriters'
    <3> SUFFICES ASSUME Writing = {} PROVE AloneWriter(w)'
      BY <2>4 DEF AloneWriters
    <3>1. \A q \in Users \ {w} : pc'[q] \notin Window
      BY <2>4 DEF FilesInv, OpenInv, Writing, Window
    <3>2. QED
      BY <2>1, <2>4, <3>1 DEF AloneWriter
  <2>12. QED
    BY <2>5, <2>6, <2>9, <2>10, <2>11 DEF FilesInv
<1>3. QED
  BY <1>1, <1>2 DEF Create

(* A write into a file that no reader was promised.                        *)
LEMMA Wrote ==
  ASSUME FilesInv, NEW w \in Writers, pc[w] \in Window, NEW h \in Halves \X Halves,
         content' = [content EXCEPT ![fd[w]] = h],
         NEW to \in {"write_rest", "rename"}, Goto(w, to),
         w \in alone => h[1] = value[w] /\ (to = "rename" => h = <<value[w], value[w]>>),
         UNCHANGED <<final, tmp, fd, value, alone, sure, promised>>
  PROVE  FilesInv'
<1> USE DEF Users
<1>1. /\ fd[w] \in Inodes /\ pc' \in [Users -> Points] /\ pc'[w] = to
      /\ content' \in [Inodes -> Halves \X Halves] /\ content'[fd[w]] = h
      /\ \A q \in Users \ {w} : pc'[q] = pc[q]
      /\ \A n \in Inodes \ {fd[w]} : content'[n] = content[n]
  BY DEF FilesInv, FilesType, OpenInv, Goto, Points
<1>2. FilesType' /\ OpenInv'
  BY <1>1 DEF FilesInv, FilesType, OpenInv, Window
<1>3. SureInv' /\ PromiseInv'
  <2>1. \A n \in Inodes : Settled(n) => content'[n] = content[n]
    BY <1>1 DEF Settled
  <2>2. \A r \in Readers : pc'[r] = "reading" => pc[r] = "reading"
    BY <1>1
  <2>3. \A q \in Users : pc'[q] \in Window => pc[q] \in Window
    BY <1>1
  <2>4. QED
    BY <2>1, <2>2, <2>3, PromisesKept
<1>4. AloneWriters'
  <2> SUFFICES ASSUME NEW q \in alone, pc'[q] \in Window PROVE AloneWriter(q)'
    BY DEF AloneWriters, AloneWriter
  <2>1. q \in Users /\ pc[q] \in Window
    BY <1>1 DEF FilesInv, FilesType
  <2>2. AloneWriter(q)
    BY DEF FilesInv, AloneWriters
  <2>3. q = w /\ fd[w] = tmp
    BY <2>1, <2>2 DEF AloneWriter
  <2>4. content'[tmp] = h /\ h[1] = value[w] /\ (to = "rename" => h = <<value[w], value[w]>>)
    BY <1>1, <2>3
  <2>5. QED
    BY <1>1, <2>2, <2>3, <2>4 DEF AloneWriter
<1>5. QED
  BY <1>2, <1>3, <1>4 DEF FilesInv

LEMMA RenameKeeps ==
  ASSUME FilesInv, NEW w \in Writers, Rename(w)
  PROVE  FilesInv'
<1> USE DEF Users
<1>1. Leave(w) /\ Reclaim /\ pc[w] = "rename"
  BY DEF Rename
<1>2. CASE UNCHANGED <<final, tmp, sure>>
  BY <1>1, <1>2, Leaving
<1>3. CASE /\ tmp # None /\ final' = tmp /\ tmp' = None
           /\ sure' = IF w \in alone THEN value[w] ELSE None
  <2>1. tmp \in Inodes /\ value[w] \in Data /\ None \notin Inodes
    BY <1>1, <1>3, InodesAssumption DEF FilesInv, FilesType, OpenInv, Window
  <2>2. /\ content' \in [Inodes -> Halves \X Halves] /\ content'[tmp] = content[tmp]
        /\ \A q \in Users \ {w} : fd[q] \in Inodes => content'[fd[q]] = content[fd[q]]
    BY <1>1, <1>3, <2>1, Left, Reclaimed DEF FilesInv
  <2>3. FilesType' /\ OpenInv'
    BY <1>1, <1>3, <2>1, <2>2, Left DEF FilesInv, FilesType
  <2>4. SureInv'
    <3> SUFFICES ASSUME w \in alone PROVE Parsed(final)' = value[w] /\ Settled(final)'
      BY <1>3, <2>1 DEF SureInv
    <3>1. AloneWriter(w)
      BY DEF FilesInv, AloneWriters
    <3>2. content'[tmp] = <<value[w], value[w]>>
      BY <1>1, <2>2, <3>1 DEF AloneWriter, Window
    <3>3. \A q \in Users : pc'[q] \notin Window
      BY <1>1, <3>1, Left DEF AloneWriter, Window
    <3>4. Settled(final)'
      BY <1>3, <2>1, <3>3, SettledSame
    <3>5. Parsed(final)' = value[w]
      BY <1>3, <2>1, <3>2 DEF Parsed
    <3>6. QED
      BY <3>4, <3>5
  <2>5. PromiseInv'
    <3> SUFFICES ASSUME NEW r \in Readers, pc'[r] = "reading", promised'[r] # None
                 PROVE  Parsed(fd[r])' = promised'[r] /\ Settled(fd[r])'
      BY DEF PromiseInv
    <3>1. r # w /\ pc[r] = "reading" /\ fd'[r] = fd[r] /\ promised'[r] = promised[r]
      BY <1>1, Left
    <3>2. Parsed(fd[r]) = promised[r] /\ Settled(fd[r]) /\ fd[r] \in Inodes
      BY <3>1 DEF FilesInv, PromiseInv, OpenInv
    <3>3. content'[fd[r]] = content[fd[r]]
      BY <2>2, <3>1, <3>2
    <3>4. Settled(fd[r])'
      <4>1. ASSUME NEW q \in Users, pc'[q] \in Window PROVE fd'[q] # fd[r]
        <5>1. q # w
          BY <1>1, <4>1, Left DEF Window
        <5>2. pc'[q] = pc[q] /\ fd'[q] = fd[q]
          BY <1>1, <5>1, Left
        <5>3. QED
          BY <3>2, <4>1, <5>2 DEF Settled
      <4>2. tmp' # fd[r]
        BY <1>3, <2>1, <3>2
      <4>3. QED
        BY <3>1, <4>1, <4>2, SettledSame
    <3>5. QED
      BY <3>1, <3>2, <3>3, <3>4, ReadSame
  <2>6. AloneWriters'
    <3> SUFFICES ASSUME NEW q \in alone', pc'[q] \in Window PROVE FALSE
      BY DEF AloneWriters, AloneWriter
    <3>1. q \in alone /\ q # w /\ q \in Users
      BY <1>1, Left DEF FilesInv, FilesType
    <3>2. AloneWriter(q) /\ pc[q] \in Window
      BY <1>1, <3>1, Left DEF FilesInv, AloneWriters
    <3>3. QED
      BY <1>1, <3>1, <3>2 DEF AloneWriter, Window
  <2>7. QED
    BY <2>3, <2>4, <2>5, <2>6 DEF FilesInv
<1>4. QED
  BY <1>1, <1>2, <1>3 DEF Rename, TmpGone

LEMMA FilesInvNext ==
  ASSUME FilesInv, [Next]_vars
  PROVE  FilesInv'
<1> USE DEF Users
<1>1. ASSUME NEW r \in Readers, Exists(r) PROVE FilesInv'
  BY <1>1, ExistsKeeps
<1>2. ASSUME NEW r \in Readers, ReadToString(r) PROVE FilesInv'
  BY <1>2, Leaving DEF ReadToString
<1>3. ASSUME NEW w \in Writers, StartStore(w) PROVE FilesInv'
  BY <1>3, StartStoreKeeps
<1>4. ASSUME NEW w \in Writers, Create(w) PROVE FilesInv'
  BY <1>4, CreateKeeps
<1>5. ASSUME NEW w \in Writers, Write(w, 1, "write", "write_rest") PROVE FilesInv'
  <2>1. CASE Leave(w) /\ UNCHANGED <<final, tmp>> /\ Reclaim
    BY <1>5, <2>1, Leaving DEF Write
  <2>2. CASE ~(Leave(w) /\ UNCHANGED <<final, tmp>> /\ Reclaim)
    <3>1. /\ content' = [content EXCEPT ![fd[w]] = [content[fd[w]] EXCEPT ![1] = value[w]]]
          /\ Goto(w, "write_rest") /\ pc[w] = "write"
          /\ UNCHANGED <<final, tmp, fd, value, alone, sure, promised>>
      BY <1>5, <2>2 DEF Write
    <3>2. fd[w] \in Inodes /\ value[w] \in Halves /\ content[fd[w]] \in Halves \X Halves
      BY <3>1 DEF FilesInv, FilesType, OpenInv, Window
    <3>3. pc[w] \in Window /\ "write_rest" \in {"write_rest", "rename"} /\ "write_rest" # "rename"
      BY <3>1 DEF Window
    <3>4. PICK h \in Halves \X Halves : h = [content[fd[w]] EXCEPT ![1] = value[w]]
      BY <3>2, SetFirst
    <3>5. h[1] = value[w]
      BY <3>2, <3>4, SetFirst
    <3>6. QED
      BY <3>1, <3>3, <3>4, <3>5, Wrote
  <2>3. QED
    BY <1>5, <2>1, <2>2 DEF Write
<1>6. ASSUME NEW w \in Writers, Write(w, 2, "write_rest", "rename") PROVE FilesInv'
  <2>1. CASE Leave(w) /\ UNCHANGED <<final, tmp>> /\ Reclaim
    BY <1>6, <2>1, Leaving DEF Write
  <2>2. CASE ~(Leave(w) /\ UNCHANGED <<final, tmp>> /\ Reclaim)
    <3>1. /\ content' = [content EXCEPT ![fd[w]] = [content[fd[w]] EXCEPT ![2] = value[w]]]
          /\ Goto(w, "rename") /\ pc[w] = "write_rest"
          /\ UNCHANGED <<final, tmp, fd, value, alone, sure, promised>>
      BY <1>6, <2>2 DEF Write
    <3>2. fd[w] \in Inodes /\ value[w] \in Halves /\ content[fd[w]] \in Halves \X Halves
      BY <3>1 DEF FilesInv, FilesType, OpenInv, Window
    <3>3. pc[w] \in Window
      BY <3>1 DEF Window
    <3>4. PICK h \in Halves \X Halves : h = [content[fd[w]] EXCEPT ![2] = value[w]]
      BY <3>2, SetSecond
    <3>5. h = <<content[fd[w]][1], value[w]>>
      BY <3>2, <3>4, SetSecond
    <3>6. ASSUME w \in alone PROVE h = <<value[w], value[w]>>
      <4>1. AloneWriter(w)
        BY <3>6 DEF FilesInv, AloneWriters
      <4>2. content[fd[w]][1] = value[w]
        BY <3>1, <3>3, <4>1 DEF AloneWriter
      <4>3. QED
        BY <3>5, <4>2
    <3>7. w \in alone => h[1] = value[w] /\ ("rename" = "rename" => h = <<value[w], value[w]>>)
      BY <3>6
    <3>8. "rename" \in {"write_rest", "rename"}
      OBVIOUS
    <3>9. QED
      BY <3>1, <3>3, <3>4, <3>7, <3>8, Wrote
  <2>3. QED
    BY <1>6, <2>1, <2>2 DEF Write
<1>7. ASSUME NEW w \in Writers, Rename(w) PROVE FilesInv'
  BY <1>7, RenameKeeps
<1>8. ASSUME NEW p \in Users, Crash(p) PROVE FilesInv'
  BY <1>8, Leaving DEF Crash
<1>9. CASE UNCHANGED vars
  <2>1. UNCHANGED <<final, tmp, content, pc, fd, value, alone, sure, promised>>
    BY <1>9 DEF vars, history
  <2>2. QED
    BY <2>1 DEF FilesInv, FilesType, OpenInv, SureInv, PromiseInv, AloneWriters, AloneWriter, Parsed, Settled
<1>10. QED
  BY <1>1, <1>2, <1>3, <1>4, <1>5, <1>6, <1>7, <1>8, <1>9 DEF Next

(* A value whose store no other writer came beside is found until another  *)
(* store is published, with any number of writers and readers, through     *)
(* failed writes, failed renames and deaths (disk_cache.rs:166-213).       *)
THEOREM CacheKeepsLastStore == Spec => []LastStoreIsFound
<1>1. Init => FilesInv
  BY FilesInvInit
<1>2. FilesInv /\ [Next]_vars => FilesInv'
  BY FilesInvNext
<1>3. FilesInv => LastStoreIsFound
  BY DEF FilesInv, SureInv, PromiseInv, LastStoreIsFound
<1>4. QED
  BY <1>1, <1>2, <1>3, PTL DEF Spec

-----------------------------------------------------------------------------
(* A finite set in order: what Ordered gives.                              *)
(* A strict order on S, as a set R of pairs, and the rank it gives.        *)
StrictOrder(S, R) ==
  /\ \A x \in S : <<x, x>> \notin R
  /\ \A x, y, z \in S : <<x, y>> \in R /\ <<y, z>> \in R => <<x, z>> \in R
  /\ \A x, y \in S : x # y => <<x, y>> \in R \/ <<y, x>> \in R
Ahead(S, R, x) == {y \in S : <<y, x>> \in R}

LEMMA AheadGrows ==
  ASSUME NEW S, IsFiniteSet(S), NEW R, StrictOrder(S, R), NEW x \in S, NEW y \in S, <<x, y>> \in R
  PROVE  Cardinality(Ahead(S, R, x)) < Cardinality(Ahead(S, R, y))
<1>1. Ahead(S, R, x) \in SUBSET Ahead(S, R, y) /\ x \in Ahead(S, R, y) /\ x \notin Ahead(S, R, x)
  BY DEF StrictOrder, Ahead
<1>2. Ahead(S, R, y) \in SUBSET S
  BY DEF Ahead
<1>3. IsFiniteSet(Ahead(S, R, y))
  BY <1>2, FS_Subset
<1>4. /\ Cardinality(Ahead(S, R, x)) <= Cardinality(Ahead(S, R, y))
      /\ Cardinality(Ahead(S, R, x)) # Cardinality(Ahead(S, R, y))
  <2>1. /\ Cardinality(Ahead(S, R, x)) <= Cardinality(Ahead(S, R, y))
        /\ Cardinality(Ahead(S, R, y)) = Cardinality(Ahead(S, R, x)) => Ahead(S, R, y) = Ahead(S, R, x)
    BY <1>1, <1>3, FS_Subset
  <2>2. QED
    BY <1>1, <2>1
<1>5. Cardinality(Ahead(S, R, x)) \in Nat /\ Cardinality(Ahead(S, R, y)) \in Nat
  <2>1. IsFiniteSet(Ahead(S, R, x))
    BY <1>1, <1>3, FS_Subset
  <2>2. QED
    BY <1>3, <2>1, FS_CardinalityType
<1>6. QED
  BY <1>4, <1>5

(* The ranks are 0 to the number of members but one, each taken once.      *)
LEMMA Ranking ==
  ASSUME NEW S, IsFiniteSet(S), NEW R, StrictOrder(S, R)
  PROVE  /\ Cardinality(S) \in Nat
         /\ \A x \in S : Cardinality(Ahead(S, R, x)) \in 0 .. Cardinality(S) - 1
         /\ \A x, y \in S : <<x, y>> \in R <=> Cardinality(Ahead(S, R, x)) < Cardinality(Ahead(S, R, y))
         /\ \A x, y \in S : Cardinality(Ahead(S, R, x)) = Cardinality(Ahead(S, R, y)) => x = y
         /\ \A n \in 1 .. Cardinality(S) : \E x \in S : Cardinality(Ahead(S, R, x)) = n - 1
<1> DEFINE rank == [x \in S |-> Cardinality(Ahead(S, R, x))]
           last == Cardinality(S) - 1
<1>1. Cardinality(S) \in Nat
  BY FS_CardinalityType
<1>2. ASSUME NEW x \in S
      PROVE  Cardinality(Ahead(S, R, x)) \in 0 .. last
  <2>1. Ahead(S, R, x) \in SUBSET S /\ x \notin Ahead(S, R, x)
    BY DEF Ahead, StrictOrder
  <2>2. /\ IsFiniteSet(Ahead(S, R, x)) /\ Cardinality(Ahead(S, R, x)) <= Cardinality(S)
        /\ Cardinality(S) = Cardinality(Ahead(S, R, x)) => S = Ahead(S, R, x)
    BY <2>1, FS_Subset
  <2>3. Cardinality(Ahead(S, R, x)) \in Nat
    BY <2>2, FS_CardinalityType
  <2>4. Cardinality(S) # Cardinality(Ahead(S, R, x))
    BY <2>1, <2>2
  <2>5. QED
    BY <1>1, <2>2, <2>3, <2>4
<1>3. ASSUME NEW x \in S, NEW y \in S
      PROVE  /\ <<x, y>> \in R <=> Cardinality(Ahead(S, R, x)) < Cardinality(Ahead(S, R, y))
             /\ Cardinality(Ahead(S, R, x)) = Cardinality(Ahead(S, R, y)) => x = y
  <2>1. <<x, y>> \in R => Cardinality(Ahead(S, R, x)) < Cardinality(Ahead(S, R, y))
    BY AheadGrows
  <2>2. <<y, x>> \in R => Cardinality(Ahead(S, R, y)) < Cardinality(Ahead(S, R, x))
    BY AheadGrows
  <2>3. Cardinality(Ahead(S, R, x)) \in Int /\ Cardinality(Ahead(S, R, y)) \in Int
    BY <1>2
  <2>4. x = y \/ <<x, y>> \in R \/ <<y, x>> \in R
    BY DEF StrictOrder
  <2>5. x = y => <<x, y>> \notin R
    BY DEF StrictOrder
  <2>6. QED
    BY <2>1, <2>2, <2>3, <2>4, <2>5
<1>4. rank \in Injection(S, 0 .. last)
  BY <1>2, <1>3 DEF Injection, IsInjective
<1>5. IsFiniteSet(0 .. last) /\ Cardinality(0 .. last) = Cardinality(S)
  BY <1>1, FS_Interval, SMTT(30)
<1>6. rank \in Surjection(S, 0 .. last)
  BY <1>4, <1>5, FS_Injection
<1>7. ASSUME NEW n \in 1 .. Cardinality(S)
      PROVE  \E x \in S : Cardinality(Ahead(S, R, x)) = n - 1
  <2>1. n - 1 \in 0 .. last
    BY <1>1
  <2>2. PICK x \in S : rank[x] = n - 1
    BY <1>6, <2>1 DEF Surjection
  <2>3. QED
    BY <2>2
<1>8. QED
  BY <1>1, <1>2, <1>3, <1>7

(* f lists S by rank: what Ordered gives.                                  *)
Ranked(f, S, R) ==
  /\ f \in [1 .. Cardinality(S) -> S]
  /\ \A n \in 1 .. Cardinality(S) : Cardinality(Ahead(S, R, f[n])) = n - 1

LEMMA RankedLists ==
  ASSUME NEW S, IsFiniteSet(S), NEW R, StrictOrder(S, R), NEW f, Ranked(f, S, R)
  PROVE  /\ Cardinality(S) \in Nat
         /\ f \in Seq(S) /\ Len(f) = Cardinality(S) /\ DOMAIN f = 1 .. Cardinality(S)
         /\ \A x \in S : /\ Cardinality(Ahead(S, R, x)) + 1 \in DOMAIN f
                         /\ f[Cardinality(Ahead(S, R, x)) + 1] = x
         /\ \A n, m \in DOMAIN f : n < m => <<f[n], f[m]>> \in R
         /\ \A n, m \in DOMAIN f : f[n] = f[m] => n = m
<1>1. Cardinality(S) \in Nat
  BY Ranking
<1>2. f \in Seq(S) /\ Len(f) = Cardinality(S) /\ DOMAIN f = 1 .. Cardinality(S)
  BY <1>1 DEF Ranked
<1>3. ASSUME NEW x \in S
      PROVE  /\ Cardinality(Ahead(S, R, x)) + 1 \in DOMAIN f
             /\ f[Cardinality(Ahead(S, R, x)) + 1] = x
  <2> DEFINE k == Cardinality(Ahead(S, R, x))
             y == f[k + 1]
  <2>1. k \in 0 .. Cardinality(S) - 1
    BY Ranking
  <2>2. k + 1 \in 1 .. Cardinality(S)
    BY <1>1, <2>1
  <2>3. y \in S /\ Cardinality(Ahead(S, R, y)) = (k + 1) - 1
    BY <2>2 DEF Ranked
  <2>4. (k + 1) - 1 = k
    BY <2>1
  <2>5. y = x
    BY <2>3, <2>4, Ranking
  <2>6. QED
    BY <1>2, <2>2, <2>5
<1>4. ASSUME NEW n \in DOMAIN f, NEW m \in DOMAIN f
      PROVE  /\ n < m => <<f[n], f[m]>> \in R
             /\ f[n] = f[m] => n = m
  <2>1. /\ f[n] \in S /\ f[m] \in S
        /\ Cardinality(Ahead(S, R, f[n])) = n - 1 /\ Cardinality(Ahead(S, R, f[m])) = m - 1
    BY <1>2, <1>4 DEF Ranked
  <2>2. <<f[n], f[m]>> \in R <=> n - 1 < m - 1
    BY <2>1, Ranking
  <2>3. n \in Nat /\ m \in Nat
    BY <1>1, <1>2
  <2>4. f[n] = f[m] => n - 1 = m - 1
    BY <2>1
  <2>5. QED
    BY <2>2, <2>3, <2>4
<1>5. QED
  BY <1>1, <1>2, <1>3, <1>4

LessPairs(S) == {pair \in S \X S : pair[1] < pair[2]}

LEMMA LessIsStrict ==
  ASSUME NEW S, S \subseteq Nat
  PROVE  /\ StrictOrder(S, LessPairs(S))
         /\ \A n \in S : {m \in S : m < n} = Ahead(S, LessPairs(S), n)
<1>1. \A n, m \in S : <<n, m>> \in LessPairs(S) <=> n < m
  BY DEF LessPairs
<1>2. StrictOrder(S, LessPairs(S))
  BY <1>1 DEF StrictOrder
<1>3. QED
  BY <1>1, <1>2 DEF Ahead

LEMMA FirstOne ==
  ASSUME NEW S, IsFiniteSet(S), S # {}, NEW R, StrictOrder(S, R)
  PROVE  \E x \in S : \A y \in S : <<y, x>> \notin R
<1>1. Cardinality(S) \in Nat /\ Cardinality(S) # 0
  BY FS_EmptySet, FS_CardinalityType
<1>2. \A n \in 1 .. Cardinality(S) : \E x \in S : Cardinality(Ahead(S, R, x)) = n - 1
  BY Ranking
<1>3. 1 \in 1 .. Cardinality(S) /\ 1 - 1 = 0
  BY <1>1
<1>4. PICK x \in S : Cardinality(Ahead(S, R, x)) = 0
  BY <1>2, <1>3
<1>5. Ahead(S, R, x) \in SUBSET S
  BY DEF Ahead
<1>6. IsFiniteSet(Ahead(S, R, x))
  BY <1>5, FS_Subset
<1>7. Ahead(S, R, x) = {}
  BY <1>4, <1>6, FS_EmptySet
<1>8. QED
  BY <1>7 DEF Ahead

-----------------------------------------------------------------------------
(* Lists.                                                                  *)
LEMMA RangeFinite ==
  ASSUME NEW f, IsFiniteSet(DOMAIN f)
  PROVE  IsFiniteSet(ToSet(f))
<1> DEFINE g == [i \in DOMAIN f |-> f[i]]
<1>1. g \in Surjection(DOMAIN f, ToSet(f))
  BY DEF Surjection, ToSet
<1>2. QED
  BY <1>1, FS_Surjection

LEMMA ListFinite ==
  ASSUME NEW f, Len(f) \in Nat, DOMAIN f = 1 .. Len(f)
  PROVE  IsFiniteSet(DOMAIN f)
<1>1. 1 \in Int /\ Len(f) \in Int
  OBVIOUS
<1>2. IsFiniteSet(1 .. Len(f))
  BY ONLY <1>1, FS_Interval
<1>3. QED
  BY <1>2

LEMMA SortedLists ==
  ASSUME NEW S, S \subseteq Nat, IsFiniteSet(S)
  PROVE  /\ SortedSet(S) \in Seq(S) /\ Len(SortedSet(S)) \in Nat
         /\ DOMAIN SortedSet(S) = 1 .. Len(SortedSet(S))
         /\ \A x \in S : \E k \in DOMAIN SortedSet(S) : SortedSet(S)[k] = x
         /\ \A k \in DOMAIN SortedSet(S) : SortedSet(S)[k] \in S
         /\ \A n, m \in DOMAIN SortedSet(S) : SortedSet(S)[n] = SortedSet(S)[m] => n = m
<1> DEFINE R == LessPairs(S)
           N == Cardinality(S)
           sorted == SortedSet(S)
<1>1. StrictOrder(S, R) /\ \A n \in S : {m \in S : m < n} = Ahead(S, R, n)
  BY LessIsStrict
<1>2. sorted = [n \in 1 .. N |-> CHOOSE x \in S : Cardinality({y \in S : y < x}) = n - 1]
  BY DEF SortedSet, Ordered
<1> HIDE DEF R, sorted
<1>3. \A n \in 1 .. N : \E x \in S : Cardinality({y \in S : y < x}) = n - 1
  <2>1. \A n \in 1 .. N : \E x \in S : Cardinality(Ahead(S, R, x)) = n - 1
    <3>1. IsFiniteSet(S) /\ StrictOrder(S, R)
      BY <1>1
    <3>2. QED
      BY ONLY <3>1, Ranking
  <2>2. QED
    BY <1>1, <2>1, Zenon
<1>4. \A n \in 1 .. N : sorted[n] \in S /\ Cardinality({y \in S : y < sorted[n]}) = n - 1
  BY <1>2, <1>3
<1>5. Ranked(sorted, S, R)
  BY <1>1, <1>2, <1>4 DEF Ranked
<1>6. /\ N \in Nat /\ sorted \in Seq(S) /\ Len(sorted) = N /\ DOMAIN sorted = 1 .. N
      /\ \A x \in S : \E k \in DOMAIN sorted : sorted[k] = x
      /\ \A n, m \in DOMAIN sorted : sorted[n] = sorted[m] => n = m
  BY <1>1, <1>5, RankedLists
<1>7. QED
  BY <1>4, <1>6 DEF sorted

(* A list is a sequence of what it holds.                                  *)
List(f) == f \in Seq(ToSet(f))

LEMMA ListFacts ==
  ASSUME NEW f, List(f)
  PROVE  /\ Len(f) \in Nat /\ DOMAIN f = 1 .. Len(f)
         /\ \A n \in DOMAIN f : f[n] \in ToSet(f)
BY DEF List, ToSet

LEMMA IsList ==
  ASSUME NEW S, NEW f \in Seq(S)
  PROVE  List(f)
BY DEF List, ToSet

LEMMA Appended ==
  ASSUME NEW f, List(f), NEW x
  PROVE  /\ List(Append(f, x)) /\ Len(Append(f, x)) = Len(f) + 1
         /\ DOMAIN Append(f, x) = 1 .. Len(f) + 1
         /\ \A n \in DOMAIN f : Append(f, x)[n] = f[n]
         /\ Append(f, x)[Len(f) + 1] = x
         /\ ToSet(Append(f, x)) = ToSet(f) \union {x}
<1> DEFINE S == ToSet(f) \union {x}
           g == Append(f, x)
<1>1. f \in Seq(S) /\ Len(f) \in Nat /\ DOMAIN f = 1 .. Len(f)
  BY DEF List
<1>2. /\ g \in Seq(S) /\ Len(g) = Len(f) + 1 /\ DOMAIN g = 1 .. Len(f) + 1
      /\ \A n \in DOMAIN f : g[n] = f[n]
      /\ g[Len(f) + 1] = x
  BY <1>1
<1> HIDE DEF g
<1>3. ToSet(g) = S
  BY <1>1, <1>2 DEF ToSet
<1>4. List(g)
  BY <1>2, <1>3 DEF List
<1>5. QED
  BY <1>2, <1>3, <1>4 DEF g

-----------------------------------------------------------------------------
(* The periods asked for.                                                  *)
LEMMA DivMod ==
  ASSUME NEW n \in Nat \ {0}, NEW a \in Nat
  PROVE  a \div n \in Nat /\ a % n \in 0 .. n - 1 /\ a = n * (a \div n) + (a % n)
OBVIOUS

LEMMA DivBound ==
  ASSUME NEW n \in Nat \ {0}, NEW q \in Nat, NEW a \in 0 .. (q * n) - 1
  PROVE  a \div n \in 0 .. q - 1
<1>1. a \div n \in Nat /\ n * (a \div n) <= a /\ a < q * n
  <2>1. q * n \in Nat /\ a \in Nat
    OBVIOUS
  <2>2. a \div n \in Nat /\ a % n \in 0 .. n - 1 /\ a = n * (a \div n) + (a % n)
    BY <2>1, DivMod
  <2>3. n * (a \div n) \in Nat
    BY <2>2
  <2>4. QED
    BY <2>1, <2>2, <2>3
<1> DEFINE d == a \div n
<1> HIDE DEF d
<1>2. d \in Nat /\ n * d < q * n
  BY <1>1 DEF d
<1>3. ~(d >= q)
  <2> SUFFICES ASSUME d >= q PROVE FALSE
    OBVIOUS
  <2>1. d - q \in Nat /\ n * (d - q) \in Nat /\ n * d = n * q + n * (d - q)
    BY <1>2
  <2>2. QED
    BY <1>2, <2>1
<1>4. QED
  BY <1>2, <1>3 DEF d

PeriodOf(years, months, k) ==
  LET n == Len(months) IN <<years[((k - 1) \div n) + 1], months[((k - 1) % n) + 1]>>

Months == Nat \X (1 .. 12)

LEMMA PeriodsFacts ==
  ASSUME request \in Requests
  PROVE  /\ Len(Periods) \in Nat \ {0} /\ DOMAIN Periods = 1 .. Len(Periods)
         /\ \A j, k \in DOMAIN Periods : Periods[j] = Periods[k] => j = k
         /\ request.mode = "one" => Periods = <<Nothing>>
         /\ request.mode # "one" => \A k \in DOMAIN Periods : Periods[k] \in Months
<1>1. CASE request.mode = "one"
  <2>1. Periods = <<Nothing>>
    BY <1>1 DEF Periods
  <2>2. QED
    BY <1>1, <2>1
<1>2. CASE request.mode # "one"
  <2> DEFINE Y == ToSet(request.years)
             M == ToSet(request.months)
             years == SortedSet(Y)
             months == SortedSet(M)
             n == Len(months)
             q == Len(years)
  <2>1. /\ Y \subseteq Nat /\ IsFiniteSet(Y) /\ Y # {}
        /\ M \subseteq 1 .. 12 /\ IsFiniteSet(M) /\ M # {}
    <3>1. request.years \in Seq(Nat) /\ request.years # <<>>
          /\ request.months \in Seq(1 .. 12) /\ request.months # <<>>
      BY RequestsAssumption
    <3>2. /\ Len(request.years) \in Nat /\ DOMAIN request.years = 1 .. Len(request.years)
          /\ Len(request.months) \in Nat /\ DOMAIN request.months = 1 .. Len(request.months)
          /\ Len(request.years) # 0 /\ Len(request.months) # 0
      BY <3>1
    <3>3. 1 \in DOMAIN request.years /\ 1 \in DOMAIN request.months
      BY <3>2
    <3>4. Y \subseteq Nat /\ Y # {} /\ M \subseteq 1 .. 12 /\ M # {}
      <4>1. /\ \A i \in DOMAIN request.years : request.years[i] \in Nat
            /\ \A i \in DOMAIN request.months : request.months[i] \in 1 .. 12
        <5>1. \A i \in DOMAIN request.years : request.years[i] \in Nat
          BY <3>1
        <5> DEFINE D == 1 .. 12
        <5> HIDE DEF D
        <5>2. request.months \in Seq(D)
          BY <3>1 DEF D
        <5>3. \A i \in DOMAIN request.months : request.months[i] \in D
          BY <5>2
        <5>4. QED
          BY <5>1, <5>3 DEF D
      <4>2. request.years[1] \in Y /\ request.months[1] \in M
        BY <3>3 DEF ToSet
      <4>3. Y \subseteq Nat /\ M \subseteq 1 .. 12
        BY <4>1 DEF ToSet
      <4>4. QED
        BY <4>2, <4>3
    <3>5. IsFiniteSet(DOMAIN request.years) /\ IsFiniteSet(DOMAIN request.months)
      BY <3>2, FS_Interval, SMTT(40)
    <3>6. QED
      BY <3>4, <3>5, RangeFinite
  <2> HIDE DEF Y, M
  <2>2. /\ years \in Seq(Y) /\ q \in Nat /\ DOMAIN years = 1 .. q
        /\ \A x \in Y : \E k \in DOMAIN years : years[k] = x
        /\ \A k \in DOMAIN years : years[k] \in Y
        /\ \A i, j \in DOMAIN years : years[i] = years[j] => i = j
    BY <2>1, SortedLists
  <2> M \subseteq Nat
    BY <2>1
  <2>3. /\ months \in Seq(M) /\ n \in Nat /\ DOMAIN months = 1 .. n
        /\ \A x \in M : \E k \in DOMAIN months : months[k] = x
        /\ \A k \in DOMAIN months : months[k] \in M
        /\ \A i, j \in DOMAIN months : months[i] = months[j] => i = j
    BY <2>1, SortedLists
  <2>4. Periods = [k \in 1 .. q * n |-> PeriodOf(years, months, k)]
    BY <1>2 DEF Periods, PeriodOf, Y, M
  <2> HIDE DEF years, months
  <2>5. q \in Nat \ {0} /\ n \in Nat \ {0}
    <3>1. (\E k : k \in DOMAIN years) /\ \E k : k \in DOMAIN months
      BY <2>1, <2>2, <2>3
    <3>2. q # 0 /\ n # 0
      BY <2>2, <2>3, <3>1
    <3>3. QED
      BY <2>2, <2>3, <3>2
  <2> HIDE DEF n, q
  <2>6. q * n \in Nat \ {0}
    BY <2>5
  <2>7. ASSUME NEW k \in 1 .. q * n
        PROVE  /\ k - 1 \in Nat
               /\ ((k - 1) \div n) + 1 \in 1 .. q /\ ((k - 1) % n) + 1 \in 1 .. n
               /\ k - 1 = n * ((k - 1) \div n) + ((k - 1) % n)
    <3>1. k - 1 \in Nat /\ k - 1 \in 0 .. (q * n) - 1
      BY <2>6
    <3>2. (k - 1) \div n \in 0 .. q - 1
      BY <2>5, <3>1, DivBound
    <3>3. (k - 1) % n \in 0 .. n - 1 /\ k - 1 = n * ((k - 1) \div n) + ((k - 1) % n)
      BY <2>5, <3>1, DivMod
    <3>4. QED
      BY <2>5, <3>1, <3>2, <3>3
  <2>8. \A k \in 1 .. q * n : /\ Periods[k] = PeriodOf(years, months, k)
                              /\ Periods[k] \in Months
    <3> SUFFICES ASSUME NEW k \in 1 .. q * n
                 PROVE  Periods[k] = PeriodOf(years, months, k) /\ Periods[k] \in Months
      OBVIOUS
    <3>1. Periods[k] = <<years[((k - 1) \div n) + 1], months[((k - 1) % n) + 1]>>
      BY <2>4 DEF PeriodOf, n
    <3>2. years[((k - 1) \div n) + 1] \in Nat /\ months[((k - 1) % n) + 1] \in 1 .. 12
      BY <2>1, <2>2, <2>3, <2>7
    <3>3. QED
      BY <2>4, <3>1, <3>2 DEF Months
  <2>9. ASSUME NEW j \in 1 .. q * n, NEW k \in 1 .. q * n, Periods[j] = Periods[k]
        PROVE  j = k
    <3> DEFINE dj == (j - 1) \div n
               dk == (k - 1) \div n
               mj == (j - 1) % n
               mk == (k - 1) % n
    <3>1. years[dj + 1] = years[dk + 1] /\ months[mj + 1] = months[mk + 1]
      <4>1. PeriodOf(years, months, j) = <<years[dj + 1], months[mj + 1]>>
        BY DEF PeriodOf, n
      <4>2. PeriodOf(years, months, k) = <<years[dk + 1], months[mk + 1]>>
        BY DEF PeriodOf, n
      <4>3. PeriodOf(years, months, j) = PeriodOf(years, months, k)
        BY <2>8, <2>9
      <4> HIDE DEF dj, dk, mj, mk
      <4>4. QED
        BY <4>1, <4>2, <4>3
    <3>2. /\ dj + 1 \in 1 .. q /\ mj + 1 \in 1 .. n /\ j - 1 = n * dj + mj
          /\ dk + 1 \in 1 .. q /\ mk + 1 \in 1 .. n /\ k - 1 = n * dk + mk
      BY <2>7
    <3> HIDE DEF dj, dk, mj, mk
    <3>3. dj + 1 = dk + 1 /\ mj + 1 = mk + 1
      BY <2>2, <2>3, <3>1, <3>2
    <3>4. dj \in Int /\ dk \in Int /\ mj \in Int /\ mk \in Int
      BY <2>5, <2>7 DEF dj, dk, mj, mk
    <3>5. dj = dk /\ mj = mk
      BY <3>3, <3>4
    <3>6. j - 1 = k - 1
      BY <3>2, <3>5
    <3>7. QED
      BY <3>6
  <2>10. Len(Periods) = q * n /\ DOMAIN Periods = 1 .. q * n
    BY <2>4, <2>6
  <2>11. QED
    BY <1>2, <2>6, <2>8, <2>9, <2>10
<1>3. QED
  BY <1>1, <1>2

LEMMA LastDayIsRight ==
  ASSUME NEW p \in Months
  PROVE  LastDay(p[1], p[2]) = DaysOf(p[1], p[2]) /\ DaysOf(p[1], p[2]) \in Nat
<1>1. p[1] \in Nat /\ p[2] \in 1 .. 12
  BY DEF Months
<1>2. CASE p[2] = 2
  <2>1. LastDay(p[1], p[2]) = IF Leap(p[1]) THEN 29 ELSE 28
    BY <1>2 DEF LastDay
  <2>2. QED
    BY <1>1, <1>2, <2>1 DEF DaysOf, Leap
<1>3. CASE p[2] \in {4, 6, 9, 11}
  BY <1>3 DEF LastDay, DaysOf
<1>4. CASE p[2] \in {1, 3, 5, 7, 8, 10, 12}
  BY <1>4 DEF LastDay, DaysOf
<1>5. QED
  BY <1>1, <1>2, <1>3, <1>4

-----------------------------------------------------------------------------
(* What a process has at every step of its builds.                         *)
ScenesOf(months) == {s \in DOMAIN Catalogue : MonthOf(s) \in months}
Lists(months, answer) == answer \in Seq(DOMAIN Catalogue) /\ ToSet(answer) = ScenesOf(months)

DiskInv ==
  /\ disk = [search |-> disk.search, scout |-> disk.scout]
  /\ \A months \in DOMAIN disk.search : Lists(months, disk.search[months])
  /\ \A s \in DOMAIN disk.scout : s \in DOMAIN Catalogue /\ disk.scout[s] = ToCache(ScoutOf(s))

FoundInv ==
  /\ DOMAIN found = ToSet(Periods)
  /\ \A p \in DOMAIN found : found[p] = Nothing \/ Lists(MonthsOf(p), found[p])

ItemsInv ==
  /\ items \in Seq(DOMAIN Catalogue) /\ scouting \subseteq DOMAIN items
  /\ phase = "searching" => scouting = {}
  /\ phase \notin {"searching", "failed"} =>
       /\ \A p \in DOMAIN found : ScenesIn(p) \subseteq ToSet(items)
       /\ request.mode # "one" => IsInjective(items)
       /\ request.mode = "one" => ToSet(items) \subseteq ScenesIn(Nothing)

StatsInv == DOMAIN stats \subseteq DOMAIN Catalogue /\ WarmTakesNoMore

(* The periods before the turn have their result or their error.           *)
Accounted(periods, before, results0, errs0) ==
  /\ \A n \in DOMAIN results0 : \E k \in 1 .. before : results0[n].period = periods[k]
  /\ \A n \in DOMAIN errs0 : \E k \in 1 .. before : errs0[n] = periods[k]
  /\ \A k \in 1 .. before : \/ \E n \in DOMAIN results0 : results0[n].period = periods[k]
                            \/ \E n \in DOMAIN errs0 : errs0[n] = periods[k]
  /\ \A m, n \in DOMAIN results0 : \A j, k \in 1 .. before :
       m < n /\ results0[m].period = periods[j] /\ results0[n].period = periods[k] => j < k
  /\ \A m \in DOMAIN results0, n \in DOMAIN errs0 : results0[m].period # errs0[n]

TurnInv ==
  /\ turn \in 1 .. Len(Periods) + 1 /\ List(results) /\ List(errs)
  /\ phase = "fetching" => turn <= Len(Periods)
  /\ phase = "done" => turn = Len(Periods) + 1 /\ results # <<>>
  /\ Accounted(Periods, turn - 1, results, errs)

PicksInv ==
  phase = "fetching" =>
    /\ List(picks)
    /\ \A k \in DOMAIN picks : /\ picks[k].item \in PeriodItems
                               /\ Catalogue[items[picks[k].item]].projects
                               /\ picks[k].window \in Windows
    /\ \A j, k \in DOMAIN picks : picks[j].item = picks[k].item => j = k
    /\ \A task \in DOMAIN data : data[task] = Read(task[1], task[2])

SeenInv ==
  \A n \in DOMAIN results :
    LET seen == [m \in DOMAIN results[n].observations |-> results[n].observations[m].scene]
    IN  /\ ToSet(seen) \subseteq {s \in ScenesIn(results[n].period) : /\ request.mode # "one" => Passes(s)
                                                                   /\ Catalogue[s].projects}
        /\ request.mode # "one" => IsInjective(seen)

BuildInv ==
  /\ request \in Requests
  /\ DiskInv /\ FoundInv /\ ItemsInv /\ StatsInv /\ TurnInv /\ PicksInv /\ SeenInv /\ ObservationsWhole

-----------------------------------------------------------------------------
(* Searching: an answer lists the scenes of its months, all of them.       *)
LEMMA PeriodKind ==
  ASSUME request \in Requests, NEW p \in ToSet(Periods)
  PROVE  /\ p = Nothing \/ p \in Months
         /\ request.mode = "one" <=> p = Nothing
         /\ p # Nothing => MonthsOf(p) = {p}
<1>1. PICK k \in DOMAIN Periods : p = Periods[k]
  BY DEF ToSet
<1>2. CASE request.mode = "one"
  <2>1. Periods = <<Nothing>>
    BY <1>2, PeriodsFacts
  <2>2. p = Nothing
    BY <1>1, <2>1
  <2>3. QED
    BY <1>2, <2>2
<1>3. CASE request.mode # "one"
  <2>1. p \in Months
    BY <1>1, <1>3, PeriodsFacts
  <2>2. p # Nothing
    BY <2>1, NothingAssumption DEF Months
  <2>3. QED
    BY <1>3, <2>1, <2>2 DEF MonthsOf
<1>4. QED
  BY <1>2, <1>3

LEMMA PeriodsAreValid ==
  ASSUME request \in Requests, NEW p \in ToSet(Periods)
  PROVE  Valid(p)
BY PeriodKind, LastDayIsRight DEF Valid

LEMMA RangesAreWhole ==
  ASSUME request \in Requests, NEW p \in ToSet(Periods)
  PROVE  {s \in DOMAIN Catalogue : InRange(s, p)} = ScenesOf(MonthsOf(p))
<1>1. SUFFICES ASSUME NEW s \in DOMAIN Catalogue, MonthOf(s) \in MonthsOf(p), p # Nothing
               PROVE  Catalogue[s].date[3] <= LastDay(p[1], p[2])
  BY DEF InRange, ScenesOf
<1>2. p \in Months /\ MonthOf(s) = p
  BY <1>1, PeriodKind
<1>3. p[1] = Catalogue[s].date[1] /\ p[2] = Catalogue[s].date[2]
  BY <1>2 DEF MonthOf
<1>4. Catalogue[s].date[3] \in 1 .. DaysOf(p[1], p[2])
  BY <1>3, CatalogueAssumption
<1>5. LastDay(p[1], p[2]) = DaysOf(p[1], p[2]) /\ DaysOf(p[1], p[2]) \in Nat
  BY <1>2, LastDayIsRight
<1>6. QED
  BY <1>4, <1>5

LEMMA CatalogueFinite ==
  /\ DOMAIN Catalogue \subseteq Nat /\ IsFiniteSet(DOMAIN Catalogue)
  /\ \A S \in SUBSET DOMAIN Catalogue : IsFiniteSet(S) /\ S \subseteq Nat
<1>1. DOMAIN Catalogue = 1 .. Len(Catalogue) /\ Len(Catalogue) \in Nat
  BY CatalogueAssumption
<1>2. IsFiniteSet(DOMAIN Catalogue) /\ DOMAIN Catalogue \subseteq Nat
  BY <1>1, FS_Interval
<1>3. QED
  BY <1>2, FS_Subset

LEMMA RepliesList ==
  ASSUME request \in Requests, NEW p \in ToSet(Periods), NEW reply \in Replies(p)
  PROVE  Lists(MonthsOf(p), reply)
<1> DEFINE S == {s \in DOMAIN Catalogue : InRange(s, p)}
           listed == SortedSet(S)
<1>1. S = ScenesOf(MonthsOf(p))
  BY RangesAreWhole
<1>2. reply = listed \/ (listed # <<>> /\ reply = <<Head(listed)>> \o listed)
  BY DEF Replies
<1>3. S \in SUBSET DOMAIN Catalogue
  OBVIOUS
<1> HIDE DEF S
<1>4. /\ listed \in Seq(S) /\ Len(listed) \in Nat /\ DOMAIN listed = 1 .. Len(listed)
      /\ \A x \in S : \E k \in DOMAIN listed : listed[k] = x
      /\ \A k \in DOMAIN listed : listed[k] \in S
  BY <1>3, CatalogueFinite, SortedLists
<1> HIDE DEF listed
<1>5. listed \in Seq(DOMAIN Catalogue) /\ ToSet(listed) = S
  BY <1>3, <1>4 DEF ToSet
<1>6. CASE listed # <<>> /\ reply = <<Head(listed)>> \o listed
  <2>1. Head(listed) \in S
    BY <1>4, <1>6
  <2>2. /\ reply \in Seq(S) /\ Len(reply) = Len(listed) + 1 /\ reply[1] = Head(listed)
        /\ \A k \in 1 .. Len(listed) : reply[k + 1] = listed[k]
    BY <1>4, <1>6, <2>1
  <2>3. reply \in Seq(DOMAIN Catalogue)
    BY <1>3, <2>2
  <2>4. \A k \in DOMAIN reply : reply[k] \in S
    BY <2>2
  <2>5. \A x \in S : \E k \in DOMAIN reply : reply[k] = x
    <3> SUFFICES ASSUME NEW x \in S PROVE \E k \in DOMAIN reply : reply[k] = x
      OBVIOUS
    <3>1. PICK k \in 1 .. Len(listed) : listed[k] = x
      BY <1>4
    <3>2. k + 1 \in DOMAIN reply /\ reply[k + 1] = x
      BY <1>4, <2>2, <3>1
    <3>3. QED
      BY <3>2
  <2>6. ToSet(reply) = S
    BY <2>4, <2>5 DEF ToSet
  <2>7. QED
    BY <1>1, <2>3, <2>6 DEF Lists
<1>7. QED
  BY <1>1, <1>2, <1>5, <1>6 DEF Lists

LEMMA WithFacts ==
  ASSUME NEW f, NEW key, NEW x
  PROVE  /\ DOMAIN With(f, key, x) = DOMAIN f \union {key}
         /\ With(f, key, x)[key] = x
         /\ \A k \in DOMAIN f : k # key => With(f, key, x)[k] = f[k]
BY DEF With

-----------------------------------------------------------------------------
(* Gathering: the items in order, whatever the answers repeat.             *)
LEMMA EarlierIsStrict ==
  /\ \A s \in DOMAIN Catalogue : ~Earlier(s, s)
  /\ \A s, t, u \in DOMAIN Catalogue : Earlier(s, t) /\ Earlier(t, u) => Earlier(s, u)
  /\ \A s, t \in DOMAIN Catalogue : s # t => Earlier(s, t) \/ Earlier(t, s)
<1> DEFINE Day(s) == Catalogue[s].date[1] * 400 + Catalogue[s].date[2] * 32 + Catalogue[s].date[3]
<1>1. \A s \in DOMAIN Catalogue : Day(s) \in Int /\ s \in Nat
  <2> SUFFICES ASSUME NEW s \in DOMAIN Catalogue PROVE Day(s) \in Int /\ s \in Nat
    OBVIOUS
  <2>1. /\ Catalogue[s].date[1] \in Nat /\ Catalogue[s].date[2] \in 1 .. 12
        /\ Catalogue[s].date[3] \in 1 .. DaysOf(Catalogue[s].date[1], Catalogue[s].date[2])
    BY CatalogueAssumption
  <2>2. QED
    BY <2>1, CatalogueFinite
<1>2. \A s, t : Earlier(s, t) <=> Day(s) < Day(t) \/ (Day(s) = Day(t) /\ s < t)
  BY DEF Earlier
<1> HIDE DEF Day
<1>3. QED
  BY <1>1, <1>2

BeforePlace(a, b) == Earlier(ItemAt(a), ItemAt(b)) \/ (ItemAt(a) = ItemAt(b) /\ Prior(a, b))
PlacePairs(S) == {pair \in S \X S : BeforePlace(pair[1], pair[2])}

LEMMA PriorIsStrict ==
  /\ \A a \in Nat \X Nat : ~Prior(a, a)
  /\ \A a, b, c \in Nat \X Nat : Prior(a, b) /\ Prior(b, c) => Prior(a, c)
  /\ \A a, b \in Nat \X Nat : a # b => Prior(a, b) \/ Prior(b, a)
BY DEF Prior

LEMMA PlacesAreStrict ==
  ASSUME NEW S, S \subseteq Nat \X Nat, \A a \in S : ItemAt(a) \in DOMAIN Catalogue
  PROVE  /\ StrictOrder(S, PlacePairs(S))
         /\ \A a \in S : {b \in S : BeforePlace(b, a)} = Ahead(S, PlacePairs(S), a)
<1>1. \A a, b \in S : <<a, b>> \in PlacePairs(S) <=> BeforePlace(a, b)
  BY DEF PlacePairs
<1>2. \A a \in S : ~BeforePlace(a, a)
  BY EarlierIsStrict, PriorIsStrict DEF BeforePlace
<1>3. ASSUME NEW a \in S, NEW b \in S, NEW c \in S, BeforePlace(a, b), BeforePlace(b, c)
      PROVE  BeforePlace(a, c)
  <2>1. /\ ItemAt(a) \in DOMAIN Catalogue /\ ItemAt(b) \in DOMAIN Catalogue /\ ItemAt(c) \in DOMAIN Catalogue
        /\ a \in Nat \X Nat /\ b \in Nat \X Nat /\ c \in Nat \X Nat
    OBVIOUS
  <2>2. /\ Earlier(ItemAt(a), ItemAt(b)) \/ (ItemAt(a) = ItemAt(b) /\ Prior(a, b))
        /\ Earlier(ItemAt(b), ItemAt(c)) \/ (ItemAt(b) = ItemAt(c) /\ Prior(b, c))
    BY <1>3 DEF BeforePlace
  <2>3. Prior(a, b) /\ Prior(b, c) => Prior(a, c)
    BY <2>1, PriorIsStrict
  <2>4. Earlier(ItemAt(a), ItemAt(b)) /\ Earlier(ItemAt(b), ItemAt(c)) => Earlier(ItemAt(a), ItemAt(c))
    BY <2>1, EarlierIsStrict
  <2>5. QED
    BY <2>2, <2>3, <2>4, Zenon DEF BeforePlace
<1>4. ASSUME NEW a \in S, NEW b \in S, a # b
      PROVE  BeforePlace(a, b) \/ BeforePlace(b, a)
  <2>1. Prior(a, b) \/ Prior(b, a)
    BY <1>4, PriorIsStrict
  <2>2. ItemAt(a) # ItemAt(b) => Earlier(ItemAt(a), ItemAt(b)) \/ Earlier(ItemAt(b), ItemAt(a))
    BY EarlierIsStrict
  <2>3. QED
    BY <2>1, <2>2, Zenon DEF BeforePlace
<1>5. StrictOrder(S, PlacePairs(S))
  BY <1>1, <1>2, <1>3, <1>4, Zenon DEF StrictOrder
<1>6. QED
  BY <1>1, <1>5 DEF Ahead

LEMMA Gathered ==
  ASSUME NEW S, IsFiniteSet(S), S \subseteq Nat \X Nat, \A a \in S : ItemAt(a) \in DOMAIN Catalogue,
         NEW order, order = Ordered(S, BeforePlace),
         NEW f, f = [n \in DOMAIN order |-> ItemAt(order[n])]
  PROVE  /\ f \in Seq(DOMAIN Catalogue) /\ ToSet(f) = {ItemAt(a) : a \in S}
         /\ (\A a, b \in S : ItemAt(a) = ItemAt(b) => a = b) => IsInjective(f)
<1> DEFINE R == PlacePairs(S)
           N == Cardinality(S)
<1>1. StrictOrder(S, R) /\ \A a \in S : {b \in S : BeforePlace(b, a)} = Ahead(S, R, a)
  BY PlacesAreStrict
<1>2. order = [n \in 1 .. N |-> CHOOSE a \in S : Cardinality({b \in S : BeforePlace(b, a)}) = n - 1]
  BY DEF Ordered
<1> HIDE DEF R
<1>3. \A n \in 1 .. N : \E a \in S : Cardinality({b \in S : BeforePlace(b, a)}) = n - 1
  <2>1. \A n \in 1 .. N : \E a \in S : Cardinality(Ahead(S, R, a)) = n - 1
    <3>1. IsFiniteSet(S) /\ StrictOrder(S, R)
      BY <1>1
    <3>2. QED
      BY ONLY <3>1, Ranking
  <2>2. QED
    BY <1>1, <2>1, Zenon
<1>4. \A n \in 1 .. N : order[n] \in S /\ Cardinality({b \in S : BeforePlace(b, order[n])}) = n - 1
  BY <1>2, <1>3
<1>5. Ranked(order, S, R)
  BY <1>1, <1>2, <1>4 DEF Ranked
<1>6. /\ N \in Nat /\ order \in Seq(S) /\ DOMAIN order = 1 .. N
      /\ \A a \in S : \E k \in DOMAIN order : order[k] = a
      /\ \A n, m \in DOMAIN order : order[n] = order[m] => n = m
  BY ONLY <1>1, <1>5, RankedLists, IsFiniteSet(S)
<1>7. DOMAIN f = 1 .. N /\ \A n \in 1 .. N : f[n] = ItemAt(order[n]) /\ order[n] \in S
  BY <1>4, <1>6
<1>8. f \in Seq(DOMAIN Catalogue)
  <2>1. \A n \in 1 .. N : ItemAt(order[n]) \in DOMAIN Catalogue
    BY <1>4
  <2>2. f = [n \in 1 .. N |-> ItemAt(order[n])]
    BY <1>6
  <2>3. f \in [1 .. N -> DOMAIN Catalogue] /\ N \in Nat
    BY <1>6, <2>1, <2>2
  <2>4. QED
    BY ONLY <2>3
<1>9. ToSet(f) = {ItemAt(a) : a \in S}
  <2>1. \A a \in S : \E n \in DOMAIN f : f[n] = ItemAt(a)
    BY <1>6, <1>7
  <2>2. \A n \in DOMAIN f : f[n] \in {ItemAt(a) : a \in S}
    BY <1>7
  <2>3. QED
    BY <2>1, <2>2 DEF ToSet
<1>10. ASSUME \A a, b \in S : ItemAt(a) = ItemAt(b) => a = b
       PROVE  IsInjective(f)
  BY <1>6, <1>7, <1>10 DEF IsInjective
<1>11. QED
  BY <1>8, <1>9, <1>10

Answered == request \in Requests /\ FoundInv /\ \A p \in DOMAIN found : found[p] # Nothing

LEMMA AnswerFacts ==
  ASSUME Answered, NEW k \in DOMAIN Periods
  PROVE  /\ Periods[k] \in DOMAIN found
         /\ found[Periods[k]] \in Seq(DOMAIN Catalogue)
         /\ ToSet(found[Periods[k]]) = ScenesIn(Periods[k])
<1>1. Periods[k] \in DOMAIN found
  BY DEF Answered, FoundInv, ToSet
<1>2. Lists(MonthsOf(Periods[k]), found[Periods[k]])
  BY <1>1 DEF Answered, FoundInv
<1>3. QED
  BY <1>1, <1>2 DEF Lists, ScenesIn, ScenesOf

LEMMA PlacesFacts ==
  ASSUME Answered
  PROVE  /\ IsFiniteSet(Places) /\ Places \subseteq Nat \X Nat
         /\ \A a \in Places : ItemAt(a) \in DOMAIN Catalogue
         /\ \A k \in DOMAIN Periods : \A s \in ScenesIn(Periods[k]) : \E a \in Places : ItemAt(a) = s
         /\ \A a \in Places : a[1] \in DOMAIN Periods /\ ItemAt(a) \in ScenesIn(Periods[a[1]])
<1> DEFINE At(k) == {k} \X DOMAIN found[Periods[k]]
           g == [k \in DOMAIN Periods |-> At(k)]
<1>1. Len(Periods) \in Nat /\ DOMAIN Periods = 1 .. Len(Periods)
  BY PeriodsFacts DEF Answered
<1>2. \A k \in DOMAIN Periods : /\ Len(found[Periods[k]]) \in Nat
                                /\ DOMAIN found[Periods[k]] = 1 .. Len(found[Periods[k]])
                                /\ \A n \in DOMAIN found[Periods[k]] : /\ found[Periods[k]][n] \in DOMAIN Catalogue
                                                                       /\ found[Periods[k]][n] \in ScenesIn(Periods[k])
                                /\ \A s \in ScenesIn(Periods[k]) : \E n \in DOMAIN found[Periods[k]] :
                                     found[Periods[k]][n] = s
  <2> SUFFICES ASSUME NEW k \in DOMAIN Periods
               PROVE  /\ Len(found[Periods[k]]) \in Nat
                      /\ DOMAIN found[Periods[k]] = 1 .. Len(found[Periods[k]])
                      /\ \A n \in DOMAIN found[Periods[k]] : /\ found[Periods[k]][n] \in DOMAIN Catalogue
                                                             /\ found[Periods[k]][n] \in ScenesIn(Periods[k])
                      /\ \A s \in ScenesIn(Periods[k]) : \E n \in DOMAIN found[Periods[k]] :
                           found[Periods[k]][n] = s
    OBVIOUS
  <2> DEFINE answer == found[Periods[k]]
  <2>1. answer \in Seq(DOMAIN Catalogue) /\ ToSet(answer) = ScenesIn(Periods[k])
    BY AnswerFacts
  <2> HIDE DEF answer
  <2>2. Len(answer) \in Nat /\ DOMAIN answer = 1 .. Len(answer)
        /\ \A n \in DOMAIN answer : answer[n] \in DOMAIN Catalogue
    BY <2>1
  <2>3. /\ \A n \in DOMAIN answer : answer[n] \in ScenesIn(Periods[k])
        /\ \A s \in ScenesIn(Periods[k]) : \E n \in DOMAIN answer : answer[n] = s
    BY <2>1 DEF ToSet
  <2>4. QED
    BY <2>2, <2>3 DEF answer
<1>3. Places = UNION {At(k) : k \in DOMAIN Periods}
  BY DEF Places
<1>4. \A a \in Places : /\ a[1] \in DOMAIN Periods /\ a[2] \in DOMAIN found[Periods[a[1]]]
                        /\ a = <<a[1], a[2]>>
  BY <1>3
<1>5. \A a \in Places : /\ ItemAt(a) \in DOMAIN Catalogue /\ ItemAt(a) \in ScenesIn(Periods[a[1]])
                        /\ a \in Nat \X Nat
  BY <1>1, <1>2, <1>4 DEF ItemAt
<1>6. IsFiniteSet(Places)
  <2>1. IsFiniteSet(DOMAIN g)
    <3>1. IsFiniteSet(DOMAIN Periods)
      BY <1>1, ListFinite
    <3>2. QED
      BY <3>1
  <2>2. IsFiniteSet(ToSet(g))
    BY <2>1, RangeFinite
  <2>3. \A k \in DOMAIN Periods : IsFiniteSet(At(k))
    <3> SUFFICES ASSUME NEW k \in DOMAIN Periods PROVE IsFiniteSet(At(k))
      OBVIOUS
    <3>1. IsFiniteSet(DOMAIN found[Periods[k]])
      BY <1>2, ListFinite
    <3>2. IsFiniteSet({k})
      BY FS_Singleton
    <3>3. QED
      BY <3>1, <3>2, FS_Product
  <2>4. \A T \in ToSet(g) : IsFiniteSet(T)
    BY <2>3 DEF ToSet
  <2>5. Places = UNION ToSet(g)
    BY <1>3 DEF ToSet
  <2>6. QED
    BY <2>2, <2>4, <2>5, FS_UNION
<1>7. ASSUME NEW k \in DOMAIN Periods, NEW s \in ScenesIn(Periods[k])
      PROVE  \E a \in Places : ItemAt(a) = s
  <2>1. PICK n \in DOMAIN found[Periods[k]] : found[Periods[k]][n] = s
    BY <1>2
  <2>2. <<k, n>> \in At(k)
    OBVIOUS
  <2>3. <<k, n>> \in Places
    BY <1>3, <2>2
  <2>4. ItemAt(<<k, n>>) = s
    BY <2>1 DEF ItemAt
  <2>5. QED
    BY <2>3, <2>4
<1>8. QED
  BY <1>4, <1>5, <1>6, <1>7

(* Dropping repetitions keeps one place of every item, the first.          *)
LEMMA FirstPlacesFacts ==
  ASSUME Answered
  PROVE  /\ FirstPlaces \subseteq Places
         /\ \A a, b \in FirstPlaces : ItemAt(a) = ItemAt(b) => a = b
         /\ \A b \in Places : \E a \in FirstPlaces : ItemAt(a) = ItemAt(b)
<1>1. FirstPlaces \subseteq Places
  BY DEF FirstPlaces
<1>2. Places \subseteq Nat \X Nat
  BY PlacesFacts
<1>3. ASSUME NEW a \in FirstPlaces, NEW b \in FirstPlaces, ItemAt(a) = ItemAt(b), a # b
      PROVE  FALSE
  <2>1. ~Prior(a, b) /\ ~Prior(b, a)
    BY <1>3 DEF FirstPlaces
  <2>2. QED
    BY <1>1, <1>2, <1>3, <2>1, PriorIsStrict
<1>4. ASSUME NEW b \in Places
      PROVE  \E a \in FirstPlaces : ItemAt(a) = ItemAt(b)
  <2> DEFINE Same == {a \in Places : ItemAt(a) = ItemAt(b)}
             R == {pair \in Same \X Same : Prior(pair[1], pair[2])}
  <2>1. Same \in SUBSET Places /\ b \in Same /\ \A a \in Same : ItemAt(a) = ItemAt(b)
    OBVIOUS
  <2>2. \A a \in Places : ItemAt(a) = ItemAt(b) => a \in Same
    OBVIOUS
  <2> HIDE DEF Same
  <2>3. \A a, c \in Same : <<a, c>> \in R <=> Prior(a, c)
    OBVIOUS
  <2> HIDE DEF R
  <2>4. StrictOrder(Same, R)
    <3>1. Same \subseteq Nat \X Nat
      BY <1>2, <2>1
    <3>2. /\ \A a \in Same : ~Prior(a, a)
          /\ \A a, c, d \in Same : Prior(a, c) /\ Prior(c, d) => Prior(a, d)
          /\ \A a, c \in Same : a # c => Prior(a, c) \/ Prior(c, a)
      BY <3>1, PriorIsStrict
    <3>3. QED
      BY <2>3, <3>2 DEF StrictOrder
  <2>5. IsFiniteSet(Same) /\ Same # {}
    BY <2>1, PlacesFacts, FS_Subset
  <2>6. PICK a \in Same : \A c \in Same : <<c, a>> \notin R
    BY <2>4, <2>5, FirstOne
  <2>7. a \in Places /\ ItemAt(a) = ItemAt(b) /\ \A c \in Places : ItemAt(c) = ItemAt(a) => ~Prior(c, a)
    BY <2>1, <2>2, <2>3, <2>6
  <2>8. QED
    BY <2>7 DEF FirstPlaces
<1>5. QED
  BY <1>1, <1>3, <1>4

LEMMA GatherLists ==
  ASSUME Answered, Gather
  PROVE  /\ items' \in Seq(DOMAIN Catalogue)
         /\ \A p \in DOMAIN found : ScenesIn(p) \subseteq ToSet(items')
         /\ request.mode # "one" => IsInjective(items')
         /\ request.mode = "one" => ToSet(items') \subseteq ScenesIn(Nothing)
<1> DEFINE S == IF request.mode = "one" THEN Places ELSE FirstPlaces
           order == Ordered(S, BeforePlace)
<1>1. items' = [n \in DOMAIN order |-> ItemAt(order[n])]
  BY DEF Gather, Ordered, BeforePlace
<1>2. S \subseteq Places /\ \A b \in Places : \E a \in S : ItemAt(a) = ItemAt(b)
  BY FirstPlacesFacts
<1>3. IsFiniteSet(S) /\ S \subseteq Nat \X Nat /\ \A a \in S : ItemAt(a) \in DOMAIN Catalogue
  <2>1. S \in SUBSET Places
    BY <1>2
  <2>2. IsFiniteSet(S)
    BY <2>1, PlacesFacts, FS_Subset
  <2>3. QED
    BY <1>2, <2>2, PlacesFacts
<1>4. request.mode # "one" => \A a, b \in S : ItemAt(a) = ItemAt(b) => a = b
  BY FirstPlacesFacts
<1> HIDE DEF S, order
<1>5. order = Ordered(S, BeforePlace)
  BY DEF order
<1>6. /\ items' \in Seq(DOMAIN Catalogue) /\ ToSet(items') = {ItemAt(a) : a \in S}
      /\ (\A a, b \in S : ItemAt(a) = ItemAt(b) => a = b) => IsInjective(items')
  BY <1>1, <1>3, <1>5, Gathered
<1>7. ASSUME NEW p \in DOMAIN found
      PROVE  ScenesIn(p) \subseteq ToSet(items')
  <2>1. PICK k \in DOMAIN Periods : p = Periods[k]
    BY DEF Answered, FoundInv, ToSet
  <2>2. \A s \in ScenesIn(p) : \E a \in S : ItemAt(a) = s
    BY <1>2, <2>1, PlacesFacts
  <2>3. QED
    BY <1>6, <2>2
<1>8. ASSUME request.mode = "one"
      PROVE  ToSet(items') \subseteq ScenesIn(Nothing)
  <2>1. Periods = <<Nothing>>
    BY <1>8, PeriodsFacts DEF Answered
  <2>2. \A a \in S : ItemAt(a) \in ScenesIn(Periods[a[1]]) /\ Periods[a[1]] = Nothing
    BY <1>2, <2>1, PlacesFacts
  <2>3. QED
    BY <1>6, <2>2
<1>9. QED
  BY <1>4, <1>6, <1>7, <1>8

-----------------------------------------------------------------------------
(* What a step that leaves a part alone keeps of it.                       *)
LEMMA SamePeriods ==
  ASSUME request' = request
  PROVE  Periods' = Periods
BY DEF Periods

LEMMA KeptDisk ==
  ASSUME DiskInv, disk' = disk
  PROVE  DiskInv'
BY DEF DiskInv, Lists, ScenesOf, MonthOf, ToCache, ScoutOf

LEMMA KeptFound ==
  ASSUME FoundInv, found' = found, request' = request
  PROVE  FoundInv'
<1>1. Periods' = Periods
  BY SamePeriods
<1>2. QED
  BY <1>1 DEF FoundInv, MonthsOf, Lists, ScenesOf, MonthOf

LEMMA KeptItems ==
  ASSUME ItemsInv, items' = items, found' = found, request' = request, scouting' \subseteq DOMAIN items,
         phase' # "searching", phase' = "failed" \/ phase \notin {"searching", "failed"}
  PROVE  ItemsInv'
BY DEF ItemsInv, ScenesIn, MonthsOf, MonthOf

LEMMA KeptStats ==
  ASSUME StatsInv, stats' = stats
  PROVE  StatsInv'
BY DEF StatsInv, WarmTakesNoMore, ScoutOf

LEMMA KeptTurn ==
  ASSUME TurnInv, UNCHANGED <<request, turn, results, errs>>, phase' = phase \/ phase' \notin {"fetching", "done"}
  PROVE  TurnInv'
<1>1. Periods' = Periods
  BY SamePeriods
<1>2. /\ phase' = "fetching" => turn' <= Len(Periods')
      /\ phase' = "done" => turn' = Len(Periods') + 1 /\ results' # <<>>
  BY <1>1 DEF TurnInv
<1>3. /\ turn' \in 1 .. Len(Periods') + 1 /\ List(results') /\ List(errs')
      /\ Accounted(Periods', turn' - 1, results', errs')
  BY <1>1 DEF TurnInv
<1>4. QED
  BY <1>2, <1>3 DEF TurnInv

LEMMA KeptPicks ==
  ASSUME phase' # "fetching"
  PROVE  PicksInv'
BY DEF PicksInv

(* What is composed is in its place: ObservationsWhole, of one observation. *)
Placed(o, bands) ==
  LET Expected(b) == [at \in 1 .. Rows * Columns |->
                        IF Within(at, o.window) THEN <<o.scene, b, RowOf(at), ColumnOf(at)>> ELSE Pad]
  IN  o.quality = Expected(Quality) /\ \A b \in DOMAIN bands : o.bands[b] = Expected(bands[b])

LEMMA KeptResults ==
  ASSUME SeenInv, ObservationsWhole, UNCHANGED <<request, results>>
  PROVE  SeenInv' /\ ObservationsWhole'
<1>1. SeenInv'
  BY DEF SeenInv, ScenesIn, MonthsOf, MonthOf, Passes
<1>2. ObservationsWhole'
  <2>1. \A n \in DOMAIN results : \A m \in DOMAIN results[n].observations :
          Placed(results[n].observations[m], request.bands)
    BY DEF ObservationsWhole, Placed
  <2>2. \A n \in DOMAIN results' : \A m \in DOMAIN results'[n].observations :
          Placed(results'[n].observations[m], request'.bands)
    BY <2>1
  <2>3. QED
    BY ONLY <2>2 DEF ObservationsWhole, Placed
<1>3. QED
  BY <1>1, <1>2

-----------------------------------------------------------------------------
(* Searching, gathering and signing.                                       *)
LEMMA SearchKeeps ==
  ASSUME BuildInv, NEW p \in DOMAIN found, Search(p)
  PROVE  BuildInv'
<1>1. /\ request \in Requests /\ DiskInv /\ FoundInv /\ ItemsInv /\ StatsInv /\ TurnInv
      /\ SeenInv /\ ObservationsWhole
  BY DEF BuildInv
<1>2. /\ phase = "searching" /\ phase' \in {"searching", "failed"}
      /\ UNCHANGED <<request, items, stats, scouting, turn, results, errs>>
  BY DEF Search, FromDisk, FromServer, scouted, composing
<1>3. p \in ToSet(Periods) /\ DOMAIN found = ToSet(Periods) /\ Periods' = Periods
  BY <1>1, <1>2, SamePeriods DEF FoundInv
<1> DEFINE M == MonthsOf(p)
<1>4. FoundInv' /\ DiskInv'
  <2>1. CASE FromDisk(p)
    <3>1. M \in DOMAIN disk.search /\ found' = [found EXCEPT ![p] = disk.search[M]] /\ disk' = disk
      BY <2>1 DEF FromDisk
    <3>2. Lists(M, disk.search[M])
      BY <1>1, <3>1 DEF DiskInv
    <3>3. \A q \in DOMAIN found : found'[q] = Nothing \/ Lists(MonthsOf(q), found'[q])
      BY <1>1, <3>1, <3>2 DEF FoundInv
    <3>4. DOMAIN found' = ToSet(Periods)
      BY <1>3, <3>1
    <3>5. QED
      BY <1>1, <1>2, <1>3, <3>1, <3>3, <3>4, KeptDisk DEF FoundInv, MonthsOf, Lists, ScenesOf, MonthOf
  <2>2. ASSUME NEW reply \in Replies(p), found' = [found EXCEPT ![p] = reply],
               disk' = IF request.cached THEN [disk EXCEPT !.search = With(@, M, reply)] ELSE disk
        PROVE  FoundInv' /\ DiskInv'
    <3>1. Lists(M, reply)
      BY <1>1, <1>3, RepliesList
    <3>2. \A q \in DOMAIN found : found'[q] = Nothing \/ Lists(MonthsOf(q), found'[q])
      BY <1>1, <2>2, <3>1 DEF FoundInv
    <3>3. DOMAIN found' = ToSet(Periods)
      BY <1>3, <2>2
    <3>4. FoundInv'
      BY <1>2, <1>3, <3>2, <3>3 DEF FoundInv, MonthsOf, Lists, ScenesOf, MonthOf
    <3>5. CASE ~request.cached
      BY <1>1, <2>2, <3>4, <3>5, KeptDisk
    <3>6. CASE request.cached
      <4> HIDE DEF M
      <4> DEFINE stored == With(disk.search, M, reply)
      <4>1. disk' = [search |-> stored, scout |-> disk.scout]
        BY <1>1, <2>2, <3>6 DEF DiskInv
      <4>2. DOMAIN stored = DOMAIN disk.search \union {M} /\ stored[M] = reply
            /\ \A k \in DOMAIN disk.search : k # M => stored[k] = disk.search[k]
        BY DEF With
      <4> HIDE DEF stored
      <4>3. \A k \in DOMAIN stored : Lists(k, stored[k])
        BY <1>1, <3>1, <4>2 DEF DiskInv
      <4>4. DiskInv'
        BY <1>1, <4>1, <4>3 DEF DiskInv, Lists, ScenesOf, MonthOf, ToCache, ScoutOf
      <4>5. QED
        BY <3>4, <4>4
    <3>7. QED
      BY <3>5, <3>6
  <2>3. CASE FromServer(p) /\ UNCHANGED <<found, disk>>
    BY <1>1, <1>2, <2>3, KeptDisk, KeptFound
  <2>4. QED
    BY <2>1, <2>2, <2>3 DEF Search, FromServer
<1>5. ItemsInv' /\ StatsInv' /\ TurnInv' /\ PicksInv' /\ SeenInv' /\ ObservationsWhole'
  <2>1. ItemsInv'
    BY <1>1, <1>2 DEF ItemsInv
  <2>2. StatsInv' /\ TurnInv' /\ PicksInv' /\ SeenInv' /\ ObservationsWhole'
    BY <1>1, <1>2, KeptStats, KeptTurn, KeptPicks, KeptResults
  <2>3. QED
    BY <2>1, <2>2
<1>6. QED
  BY <1>1, <1>2, <1>4, <1>5 DEF BuildInv

LEMMA GatherKeeps ==
  ASSUME BuildInv, Gather
  PROVE  BuildInv'
<1>1. /\ request \in Requests /\ DiskInv /\ FoundInv /\ ItemsInv /\ StatsInv /\ TurnInv
      /\ SeenInv /\ ObservationsWhole
  BY DEF BuildInv
<1>2. /\ phase' = "signing"
      /\ UNCHANGED <<request, disk, found, stats, scouting, turn, results, errs>>
      /\ \A p \in DOMAIN found : found[p] # Nothing
  BY DEF Gather, shared, scouted, composing
<1>3. Answered
  BY <1>1, <1>2 DEF Answered
<1>4. /\ items' \in Seq(DOMAIN Catalogue)
      /\ \A p \in DOMAIN found : ScenesIn(p) \subseteq ToSet(items')
      /\ request.mode # "one" => IsInjective(items')
      /\ request.mode = "one" => ToSet(items') \subseteq ScenesIn(Nothing)
  BY <1>3, GatherLists
<1>5. ItemsInv'
  <2>1. scouting' = {}
    BY <1>1, <1>2 DEF ItemsInv, Gather
  <2>2. /\ \A p \in DOMAIN found' : ScenesIn(p)' \subseteq ToSet(items')
        /\ request'.mode = "one" => ToSet(items') \subseteq ScenesIn(Nothing)'
    BY <1>2, <1>4 DEF ScenesIn, MonthsOf, MonthOf
  <2>3. request'.mode # "one" => IsInjective(items')
    BY <1>2, <1>4
  <2>4. QED
    BY <1>2, <1>4, <2>1, <2>2, <2>3 DEF ItemsInv
<1>6. DiskInv' /\ FoundInv' /\ StatsInv' /\ TurnInv' /\ PicksInv' /\ SeenInv' /\ ObservationsWhole'
  BY <1>1, <1>2, KeptDisk, KeptFound, KeptStats, KeptTurn, KeptPicks, KeptResults
<1>7. QED
  BY <1>1, <1>2, <1>5, <1>6 DEF BuildInv

LEMMA SignKeeps ==
  ASSUME BuildInv, Sign
  PROVE  BuildInv'
<1>1. /\ request \in Requests /\ DiskInv /\ FoundInv /\ ItemsInv /\ StatsInv /\ TurnInv
      /\ SeenInv /\ ObservationsWhole
  BY DEF BuildInv
<1>2. /\ phase = "signing" /\ phase' = phase
      /\ UNCHANGED <<request, disk, found, items, stats, scouting, turn, results, errs>>
  BY DEF Sign, scouted, composing
<1>3. ItemsInv'
  BY <1>1, <1>2, KeptItems DEF ItemsInv
<1>4. DiskInv' /\ FoundInv' /\ StatsInv' /\ TurnInv' /\ PicksInv' /\ SeenInv' /\ ObservationsWhole'
  BY <1>1, <1>2, KeptDisk, KeptFound, KeptStats, KeptTurn, KeptPicks, KeptResults
<1>5. QED
  BY <1>1, <1>2, <1>3, <1>4 DEF BuildInv

-----------------------------------------------------------------------------
(* Scouting: what comes back from the disk is what was stored.             *)
Warm(s, st) ==
  LET cold == ScoutOf(s)
  IN  /\ st.clear = cold.clear /\ st.finite = cold.finite
      /\ st.usable => cold.usable

LEMMA LoadedIsWarm ==
  ASSUME DiskInv, NEW s, Loads(s)
  PROVE  s \in DOMAIN Catalogue /\ Warm(s, FromCache(disk.scout[s]))
<1> DEFINE cold == ScoutOf(s)
           kept == disk.scout[s]
           N == Len(cold.clear)
           warm == FromCache(kept)
<1>1. s \in DOMAIN Catalogue /\ kept = ToCache(cold) /\ \A c \in ToSet(kept) : c.finite
  BY DEF Loads, DiskInv
<1>2. /\ cold.clear \in Seq(Nat) /\ cold.finite \in BOOLEAN /\ cold.usable = cold.finite
      /\ cold.clear = <<>> => ~cold.finite
  BY <1>1, CatalogueAssumption DEF ScoutOf
<1> HIDE DEF cold, kept
<1>3. /\ N \in Nat /\ DOMAIN cold.clear = 1 .. N /\ cold.clear = [c \in 1 .. N |-> cold.clear[c]]
      /\ N = 0 => cold.clear = <<>>
  BY <1>2
<1> HIDE DEF N
<1>4. /\ DOMAIN kept = 1 .. N
      /\ \A c \in 1 .. N : /\ kept[c].chunk = c /\ kept[c].clear = cold.clear[c]
                           /\ kept[c].finite = cold.finite /\ kept[c] \in ToSet(kept)
  BY <1>1, <1>3 DEF ToCache, ToSet
<1>5. ChunksOf(kept) = 1 .. N
  BY <1>4 DEF ChunksOf, ToSet
<1>6. warm.clear = cold.clear
  <2>1. warm.clear = [c \in 1 .. N |-> IF c \in ChunksOf(kept) THEN kept[c].clear ELSE 0]
    BY <1>4 DEF FromCache
  <2>2. QED
    BY <1>3, <1>4, <1>5, <2>1
<1>7. warm.finite = cold.finite
  <2>1. warm.finite = \E c \in 1 .. N : kept[c].finite
    BY <1>5 DEF FromCache
  <2>2. CASE N = 0
    <3>1. cold.finite = FALSE
      BY <1>2, <1>3, <2>2
    <3>2. 1 .. N = {}
      BY <2>2
    <3>3. (\E c \in 1 .. N : kept[c].finite) = FALSE
      BY <3>2
    <3>4. QED
      BY <2>1, <3>1, <3>3, Zenon
  <2>3. CASE N # 0
    <3>1. 1 \in 1 .. N
      BY <1>3, <2>3
    <3>2. kept[1].finite /\ kept[1].finite = cold.finite
      BY <1>1, <1>4, <3>1
    <3>3. (\E c \in 1 .. N : kept[c].finite) = TRUE
      BY <3>1, <3>2
    <3>4. QED
      BY <1>2, <2>1, <3>2, <3>3
  <2>4. QED
    BY <2>2, <2>3
<1>8. ASSUME warm.usable
      PROVE  cold.usable
  <2>1. warm.usable = \E e \in 1 .. N : kept[e].clear > 0
    BY <1>5 DEF FromCache
  <2>2. PICK e \in 1 .. N : kept[e].clear > 0
    BY <1>8, <2>1
  <2>3. kept[e].finite /\ kept[e].finite = cold.finite
    BY <1>1, <1>4
  <2>4. QED
    BY <1>2, <2>3
<1> HIDE DEF warm
<1>9. Warm(s, warm)
  BY <1>3, <1>6, <1>7, <1>8 DEF Warm, cold
<1>10. QED
  BY <1>1, <1>9 DEF warm, kept

LEMMA StartScoutsKeeps ==
  ASSUME BuildInv, StartScouts
  PROVE  BuildInv'
<1>1. /\ request \in Requests /\ DiskInv /\ FoundInv /\ ItemsInv /\ StatsInv /\ TurnInv
      /\ SeenInv /\ ObservationsWhole
  BY DEF BuildInv
<1>2. /\ phase = "signing" /\ phase' = "scouting" /\ scouting' \subseteq DOMAIN items
      /\ UNCHANGED <<request, disk, found, items, turn, results, errs>>
  BY DEF StartScouts, shared, listing, composing
<1>3. PICK hits : hits = {s \in ToSet(items) : Loads(s)} /\ stats' = [s \in hits |-> FromCache(disk.scout[s])]
  BY DEF StartScouts
<1>4. \A s \in hits : s \in DOMAIN Catalogue /\ Warm(s, stats'[s])
  BY <1>1, <1>3, LoadedIsWarm
<1>5. StatsInv'
  BY <1>3, <1>4 DEF StatsInv, WarmTakesNoMore, Warm, ScoutOf
<1>6. ItemsInv'
  BY <1>1, <1>2, KeptItems
<1>7. DiskInv' /\ FoundInv' /\ TurnInv' /\ PicksInv' /\ SeenInv' /\ ObservationsWhole'
  BY <1>1, <1>2, KeptDisk, KeptFound, KeptTurn, KeptPicks, KeptResults
<1>8. QED
  BY <1>1, <1>2, <1>5, <1>6, <1>7 DEF BuildInv

LEMMA ScoutEndsKeeps ==
  ASSUME BuildInv, NEW i \in scouting, ScoutEnds(i)
  PROVE  BuildInv'
<1>1. /\ request \in Requests /\ DiskInv /\ FoundInv /\ ItemsInv /\ StatsInv /\ TurnInv
      /\ SeenInv /\ ObservationsWhole
  BY DEF BuildInv
<1>2. /\ phase = "scouting" /\ phase' = "scouting" /\ scouting' = scouting \ {i}
      /\ UNCHANGED <<request, found, items, turn, results, errs>>
  BY DEF ScoutEnds, listing, composing
<1> DEFINE s == items[i]
<1>3. s \in DOMAIN Catalogue
  BY <1>1 DEF ItemsInv
<1>4. DiskInv'
  <2>1. CASE disk' = disk
    BY <1>1, <2>1, KeptDisk
  <2>2. CASE disk' = [disk EXCEPT !.scout = With(@, s, ToCache(ScoutOf(s)))]
    <3> DEFINE stored == With(disk.scout, s, ToCache(ScoutOf(s)))
    <3>1. disk' = [search |-> disk.search, scout |-> stored]
      BY <1>1, <2>2 DEF DiskInv
    <3> HIDE DEF s
    <3>2. DOMAIN stored = DOMAIN disk.scout \union {s} /\ stored[s] = ToCache(ScoutOf(s))
          /\ \A k \in DOMAIN disk.scout : k # s => stored[k] = disk.scout[k]
      BY DEF With
    <3> HIDE DEF stored
    <3>3. \A k \in DOMAIN stored : k \in DOMAIN Catalogue /\ stored[k] = ToCache(ScoutOf(k))
      BY <1>1, <1>3, <3>2 DEF DiskInv
    <3>4. QED
      BY <1>1, <3>1, <3>3 DEF DiskInv, Lists, ScenesOf, MonthOf, ToCache, ScoutOf
  <2>3. QED
    BY <2>1, <2>2 DEF ScoutEnds
<1>5. StatsInv'
  <2>1. CASE stats' = stats
    BY <1>1, <2>1, KeptStats
  <2>2. CASE stats' = With(stats, s, ScoutOf(s))
    <3> HIDE DEF s
    <3>1. DOMAIN stats' = DOMAIN stats \union {s} /\ stats'[s] = ScoutOf(s)
          /\ \A k \in DOMAIN stats : k # s => stats'[k] = stats[k]
      BY <2>2 DEF With
    <3>2. Warm(s, ScoutOf(s))
      BY DEF Warm
    <3>3. \A k \in DOMAIN stats : Warm(k, stats[k])
      BY <1>1 DEF StatsInv, WarmTakesNoMore, Warm
    <3>4. \A k \in DOMAIN stats' : k \in DOMAIN Catalogue /\ Warm(k, stats'[k])
      BY <1>1, <1>3, <3>1, <3>2, <3>3 DEF StatsInv
    <3>5. QED
      BY <3>4 DEF StatsInv, WarmTakesNoMore, Warm, ScoutOf
  <2>3. QED
    BY <2>1, <2>2 DEF ScoutEnds
<1>6. ItemsInv'
  BY <1>1, <1>2, KeptItems DEF ItemsInv
<1>7. FoundInv' /\ TurnInv' /\ PicksInv' /\ SeenInv' /\ ObservationsWhole'
  BY <1>1, <1>2, KeptFound, KeptTurn, KeptPicks, KeptResults
<1>8. QED
  BY <1>1, <1>2, <1>4, <1>5, <1>6, <1>7 DEF BuildInv

LEMMA AllScoutedKeeps ==
  ASSUME BuildInv, AllScouted
  PROVE  BuildInv'
<1>1. /\ request \in Requests /\ DiskInv /\ FoundInv /\ ItemsInv /\ StatsInv /\ TurnInv
      /\ SeenInv /\ ObservationsWhole
  BY DEF BuildInv
<1>2. /\ phase = "scouting" /\ phase' \in {"composing", "failed"}
      /\ UNCHANGED <<request, disk, found, items, stats, scouting, turn, results, errs>>
  BY DEF AllScouted, shared, listing, scouted, composing
<1>3. ItemsInv'
  BY <1>1, <1>2, KeptItems DEF ItemsInv
<1>4. DiskInv' /\ FoundInv' /\ StatsInv' /\ TurnInv' /\ PicksInv' /\ SeenInv' /\ ObservationsWhole'
  BY <1>1, <1>2, KeptDisk, KeptFound, KeptStats, KeptTurn, KeptPicks, KeptResults
<1>5. QED
  BY <1>1, <1>2, <1>3, <1>4 DEF BuildInv

-----------------------------------------------------------------------------
(* Composing.                                                              *)
LEMMA ErrorAccounted ==
  ASSUME NEW periods, NEW n \in Nat, \A j, k \in 1 .. n : periods[j] = periods[k] => j = k,
         NEW t \in Nat, t < n, NEW r, List(r), NEW e, List(e), Accounted(periods, t, r, e)
  PROVE  Accounted(periods, t + 1, r, Append(e, periods[t + 1]))
<1> DEFINE E == Append(e, periods[t + 1])
<1>1. /\ Len(e) \in Nat /\ DOMAIN e = 1 .. Len(e) /\ DOMAIN E = 1 .. Len(e) + 1
      /\ \A m \in DOMAIN e : E[m] = e[m]
      /\ E[Len(e) + 1] = periods[t + 1]
  BY Appended, ListFacts
<1> HIDE DEF E
<1>2. DOMAIN E = DOMAIN e \union {Len(e) + 1} /\ Len(e) + 1 \notin DOMAIN e
  BY <1>1
<1>3. /\ 1 .. t + 1 = (1 .. t) \union {t + 1} /\ t + 1 \notin 1 .. t
      /\ 1 .. t + 1 \subseteq 1 .. n
  OBVIOUS
<1>4. \A m \in DOMAIN r : \E k \in 1 .. t + 1 : r[m].period = periods[k]
  BY <1>3 DEF Accounted
<1>5. \A m \in DOMAIN E : \E k \in 1 .. t + 1 : E[m] = periods[k]
  BY <1>1, <1>2, <1>3 DEF Accounted
<1>6. \A k \in 1 .. t + 1 : \/ \E m \in DOMAIN r : r[m].period = periods[k]
                            \/ \E m \in DOMAIN E : E[m] = periods[k]
  <2> SUFFICES ASSUME NEW k \in 1 .. t + 1
               PROVE  \/ \E m \in DOMAIN r : r[m].period = periods[k]
                      \/ \E m \in DOMAIN E : E[m] = periods[k]
    OBVIOUS
  <2>1. CASE k \in 1 .. t
    BY <1>1, <1>2, <2>1 DEF Accounted
  <2>2. CASE k = t + 1
    BY <1>1, <1>2, <2>2
  <2>3. QED
    BY <1>3, <2>1, <2>2
<1>7. \A m \in DOMAIN r, k \in 1 .. t + 1 : r[m].period = periods[k] => k \in 1 .. t
  BY <1>3 DEF Accounted
<1>8. \A l, m \in DOMAIN r : \A j, k \in 1 .. t + 1 :
        l < m /\ r[l].period = periods[j] /\ r[m].period = periods[k] => j < k
  <2> SUFFICES ASSUME NEW l \in DOMAIN r, NEW m \in DOMAIN r, NEW j \in 1 .. t + 1, NEW k \in 1 .. t + 1,
                      l < m, r[l].period = periods[j], r[m].period = periods[k]
               PROVE  j < k
    OBVIOUS
  <2>1. j \in 1 .. t /\ k \in 1 .. t
    BY <1>7
  <2>2. QED
    BY <2>1 DEF Accounted
<1>9. \A l \in DOMAIN r, m \in DOMAIN E : r[l].period # E[m]
  BY <1>1, <1>2, <1>3, <1>7 DEF Accounted
<1>10. QED
  BY <1>4, <1>5, <1>6, <1>8, <1>9 DEF Accounted, E

LEMMA ResultAccounted ==
  ASSUME NEW periods, NEW n \in Nat, \A j, k \in 1 .. n : periods[j] = periods[k] => j = k,
         NEW t \in Nat, t < n, NEW r, List(r), NEW e, List(e), Accounted(periods, t, r, e),
         NEW new, new.period = periods[t + 1]
  PROVE  Accounted(periods, t + 1, Append(r, new), e)
<1> DEFINE R == Append(r, new)
<1>1. /\ Len(r) \in Nat /\ DOMAIN r = 1 .. Len(r) /\ DOMAIN R = 1 .. Len(r) + 1
      /\ \A m \in DOMAIN r : R[m] = r[m]
      /\ R[Len(r) + 1] = new
  BY Appended, ListFacts
<1> HIDE DEF R
<1>2. DOMAIN R = DOMAIN r \union {Len(r) + 1} /\ Len(r) + 1 \notin DOMAIN r
  BY <1>1
<1>3. /\ 1 .. t + 1 = (1 .. t) \union {t + 1} /\ t + 1 \notin 1 .. t
      /\ 1 .. t + 1 \subseteq 1 .. n
  OBVIOUS
<1>4. \A m \in DOMAIN R : \E k \in 1 .. t + 1 : R[m].period = periods[k]
  BY <1>1, <1>2, <1>3 DEF Accounted
<1>5. \A m \in DOMAIN e : \E k \in 1 .. t + 1 : e[m] = periods[k]
  BY <1>3 DEF Accounted
<1>6. \A k \in 1 .. t + 1 : \/ \E m \in DOMAIN R : R[m].period = periods[k]
                            \/ \E m \in DOMAIN e : e[m] = periods[k]
  <2> SUFFICES ASSUME NEW k \in 1 .. t + 1
               PROVE  \/ \E m \in DOMAIN R : R[m].period = periods[k]
                      \/ \E m \in DOMAIN e : e[m] = periods[k]
    OBVIOUS
  <2>1. CASE k \in 1 .. t
    BY <1>1, <1>2, <2>1 DEF Accounted
  <2>2. CASE k = t + 1
    BY <1>1, <1>2, <2>2
  <2>3. QED
    BY <1>3, <2>1, <2>2
<1>7. /\ \A m \in DOMAIN r, k \in 1 .. t + 1 : r[m].period = periods[k] => k \in 1 .. t
      /\ \A m \in DOMAIN e : e[m] # periods[t + 1]
      /\ \A k \in 1 .. t + 1 : new.period = periods[k] => k = t + 1
  BY <1>3 DEF Accounted
<1>8. \A l, m \in DOMAIN R : \A j, k \in 1 .. t + 1 :
        l < m /\ R[l].period = periods[j] /\ R[m].period = periods[k] => j < k
  <2> SUFFICES ASSUME NEW l \in DOMAIN R, NEW m \in DOMAIN R, NEW j \in 1 .. t + 1, NEW k \in 1 .. t + 1,
                      l < m, R[l].period = periods[j], R[m].period = periods[k]
               PROVE  j < k
    OBVIOUS
  <2>1. l \in DOMAIN r /\ r[l].period = periods[j]
    BY <1>1
  <2>2. j \in 1 .. t
    BY <1>7, <2>1
  <2>3. CASE m \in DOMAIN r
    <3>1. r[m].period = periods[k]
      BY <1>1, <2>3
    <3>2. k \in 1 .. t
      BY <1>7, <2>3, <3>1
    <3>3. QED
      BY <2>1, <2>2, <2>3, <3>1, <3>2 DEF Accounted
  <2>4. CASE m = Len(r) + 1
    <3>1. k = t + 1
      BY <1>1, <1>7, <2>4
    <3>2. QED
      BY <2>2, <3>1
  <2>5. QED
    BY <1>2, <2>3, <2>4
<1>9. \A l \in DOMAIN R, m \in DOMAIN e : R[l].period # e[m]
  BY <1>1, <1>2, <1>7 DEF Accounted
<1>10. QED
  BY <1>4, <1>5, <1>6, <1>8, <1>9 DEF Accounted, R

LEMMA PeriodFailsKeeps ==
  ASSUME BuildInv, PeriodFails
  PROVE  BuildInv'
<1>1. /\ request \in Requests /\ DiskInv /\ FoundInv /\ ItemsInv /\ StatsInv /\ TurnInv
      /\ SeenInv /\ ObservationsWhole
  BY DEF BuildInv
<1>2. /\ phase = "composing" /\ phase' \in {"composing", "failed"} /\ turn <= Len(Periods)
      /\ UNCHANGED <<request, disk, found, items, stats, scouting, results>>
  BY DEF PeriodFails, ComposingTurn, shared, listing, scouted
<1>3. ItemsInv'
  BY <1>1, <1>2, KeptItems DEF ItemsInv
<1>4. TurnInv'
  <2>1. CASE phase' = "failed" /\ UNCHANGED <<turn, errs>>
    BY <1>1, <1>2, <2>1, KeptTurn
  <2>2. CASE phase' = "composing" /\ turn' = turn + 1 /\ errs' = Append(errs, Periods[turn])
    <3>1. /\ Len(Periods) \in Nat /\ \A j, k \in 1 .. Len(Periods) : Periods[j] = Periods[k] => j = k
          /\ Periods' = Periods
      BY <1>1, <1>2, PeriodsFacts, SamePeriods
    <3>2. /\ turn - 1 \in Nat /\ turn - 1 < Len(Periods) /\ (turn - 1) + 1 = turn
          /\ turn + 1 \in 1 .. Len(Periods) + 1 /\ (turn + 1) - 1 = turn
          /\ List(results) /\ List(errs) /\ Accounted(Periods, turn - 1, results, errs)
      BY <1>1, <1>2, <3>1 DEF TurnInv
    <3>3. Accounted(Periods, (turn - 1) + 1, results, Append(errs, Periods[(turn - 1) + 1]))
      BY <3>1, <3>2, ErrorAccounted
    <3>4. List(errs')
      BY <2>2, <3>2, Appended
    <3>5. QED
      BY <1>2, <2>2, <3>1, <3>2, <3>3, <3>4 DEF TurnInv
  <2>3. QED
    BY <1>2, <2>1, <2>2 DEF PeriodFails
<1>5. DiskInv' /\ FoundInv' /\ StatsInv' /\ PicksInv' /\ SeenInv' /\ ObservationsWhole'
  BY <1>1, <1>2, KeptDisk, KeptFound, KeptStats, KeptPicks, KeptResults
<1>6. QED
  BY <1>1, <1>2, <1>3, <1>4, <1>5 DEF BuildInv

LEMMA SelectKeeps ==
  ASSUME BuildInv, Select
  PROVE  BuildInv'
<1>1. /\ request \in Requests /\ DiskInv /\ FoundInv /\ ItemsInv /\ StatsInv /\ TurnInv
      /\ SeenInv /\ ObservationsWhole
  BY DEF BuildInv
<1>2. /\ phase = "composing" /\ phase' = "fetching" /\ turn <= Len(Periods) /\ data' = <<>>
      /\ UNCHANGED <<request, disk, found, items, stats, scouting, turn, results, errs>>
      /\ \A i \in PeriodItems : Catalogue[items[i]].projects
  BY DEF Select, ComposingTurn, shared, listing, scouted
<1>3. PICK chosen \in SUBSET Eligible : \E window \in [chosen -> Windows] :
        LET order == SortedSet(chosen)
        IN  picks' = [k \in DOMAIN order |-> [item |-> order[k], window |-> window[order[k]]]]
  BY DEF Select
<1> DEFINE order == SortedSet(chosen)
           N == Len(order)
<1>4. PICK window \in [chosen -> Windows] :
        picks' = [k \in DOMAIN order |-> [item |-> order[k], window |-> window[order[k]]]]
  BY <1>3
<1>5. chosen \subseteq PeriodItems /\ chosen \subseteq DOMAIN items
  BY DEF Eligible, PeriodItems
<1>6. chosen \subseteq Nat /\ IsFiniteSet(chosen)
  <2>1. Len(items) \in Nat /\ DOMAIN items = 1 .. Len(items)
    BY <1>1 DEF ItemsInv
  <2>2. IsFiniteSet(DOMAIN items) /\ DOMAIN items \subseteq Nat
    BY <2>1, ListFinite
  <2>3. QED
    BY <1>5, <2>2, FS_Subset
<1>7. /\ order \in Seq(chosen) /\ N \in Nat /\ DOMAIN order = 1 .. N
      /\ \A k \in 1 .. N : order[k] \in chosen
      /\ \A j, k \in 1 .. N : order[j] = order[k] => j = k
  <2>1. /\ order \in Seq(chosen) /\ N \in Nat /\ DOMAIN order = 1 .. N
        /\ \A k \in DOMAIN order : order[k] \in chosen
        /\ \A j, k \in DOMAIN order : order[j] = order[k] => j = k
    BY ONLY <1>6, SortedLists
  <2>2. QED
    BY <2>1
<1> HIDE DEF order, N
<1>8. /\ DOMAIN picks' = 1 .. N
      /\ \A k \in 1 .. N : picks'[k].item = order[k] /\ picks'[k].window \in Windows
  BY <1>4, <1>7
<1>9. List(picks')
  <2> DEFINE P == [k \in 1 .. N |-> [item |-> order[k], window |-> window[order[k]]]]
  <2>1. picks' = P
    BY <1>4, <1>7
  <2> DEFINE S == {P[k] : k \in 1 .. N}
  <2>2. P \in [1 .. N -> S]
    OBVIOUS
  <2> HIDE DEF P, S
  <2>3. P \in Seq(S)
    BY <1>7, <2>2
  <2>4. QED
    BY <2>1, <2>3, IsList
<1>10. PeriodItems' = PeriodItems /\ Windows' = Windows
  <2>1. Periods' = Periods
    BY <1>2, SamePeriods
  <2>2. QED
    BY <1>2, <2>1 DEF PeriodItems, OfPeriod, MonthOf, Passes, Windows
<1>11. \A k \in DOMAIN picks' : /\ picks'[k].item \in PeriodItems
                                /\ Catalogue[items[picks'[k].item]].projects
                                /\ picks'[k].window \in Windows
  BY <1>2, <1>5, <1>7, <1>8
<1>12. \A j, k \in DOMAIN picks' : picks'[j].item = picks'[k].item => j = k
  BY <1>7, <1>8
<1>13. PicksInv'
  <2>1. DOMAIN data' = {}
    BY <1>2
  <2>2. QED
    BY <1>2, <1>9, <1>10, <1>11, <1>12, <2>1 DEF PicksInv
<1>14. ItemsInv'
  BY <1>1, <1>2, KeptItems DEF ItemsInv
<1>15. TurnInv'
  <2>1. Periods' = Periods
    BY <1>2, SamePeriods
  <2>2. QED
    BY <1>1, <1>2, <2>1 DEF TurnInv
<1>16. DiskInv' /\ FoundInv' /\ StatsInv' /\ SeenInv' /\ ObservationsWhole'
  BY <1>1, <1>2, KeptDisk, KeptFound, KeptStats, KeptResults
<1>17. QED
  BY <1>1, <1>2, <1>13, <1>14, <1>15, <1>16 DEF BuildInv

LEMMA FetchEndsKeeps ==
  ASSUME BuildInv, NEW k, NEW b, FetchEnds(k, b)
  PROVE  BuildInv'
<1>1. /\ request \in Requests /\ DiskInv /\ FoundInv /\ ItemsInv /\ StatsInv /\ TurnInv /\ PicksInv
      /\ SeenInv /\ ObservationsWhole
  BY DEF BuildInv
<1>2. /\ phase = "fetching" /\ phase' = phase
      /\ UNCHANGED <<request, disk, found, items, stats, scouting, turn, picks, results, errs>>
      /\ data' = data \/ data' = With(data, <<k, b>>, Read(k, b))
  BY DEF FetchEnds, shared, listing, scouted
<1>3. Periods' = Periods
  BY <1>2, SamePeriods
<1>4. /\ PeriodItems' = PeriodItems /\ Windows' = Windows
      /\ \A j, c : Read(j, c)' = Read(j, c)
  BY <1>2, <1>3 DEF PeriodItems, OfPeriod, MonthOf, Passes, Windows, Read, QualityRead, BandRead, WindowPixels
<1>5. \A task \in DOMAIN data' : data'[task] = Read(task[1], task[2])
  <2>1. \A task \in DOMAIN data : data[task] = Read(task[1], task[2])
    BY <1>1, <1>2 DEF PicksInv
  <2>2. CASE data' = data
    BY <2>1, <2>2
  <2>3. CASE data' = With(data, <<k, b>>, Read(k, b))
    <3>1. /\ DOMAIN data' = DOMAIN data \union {<<k, b>>} /\ data'[<<k, b>>] = Read(k, b)
          /\ \A task \in DOMAIN data : task # <<k, b>> => data'[task] = data[task]
      BY <2>3 DEF With
    <3>2. QED
      BY <2>1, <3>1
  <2>4. QED
    BY <1>2, <2>2, <2>3
<1>6. PicksInv'
  BY <1>1, <1>2, <1>4, <1>5 DEF PicksInv
<1>7. ItemsInv'
  BY <1>1, <1>2, KeptItems DEF ItemsInv
<1>8. DiskInv' /\ FoundInv' /\ StatsInv' /\ TurnInv' /\ SeenInv' /\ ObservationsWhole'
  BY <1>1, <1>2, KeptDisk, KeptFound, KeptStats, KeptTurn, KeptResults
<1>9. QED
  BY <1>1, <1>2, <1>6, <1>7, <1>8 DEF BuildInv

(* The pixels read over a window are put in their places.                  *)
Fits(win) == /\ win.row0 \in Nat /\ win.h \in Nat \ {0} /\ win.row0 + win.h <= Rows
             /\ win.col0 \in Nat /\ win.w \in Nat \ {0} /\ win.col0 + win.w <= Columns

LEMMA WindowsFit ==
  ASSUME NEW win \in Windows
  PROVE  Fits(win)
BY GridAssumption, BoxesAssumption DEF Windows, Fits

RowMajor(h, w, r, c) == /\ r * w + c \in 0 .. h * w - 1
                        /\ (r * w + c) \div w = r /\ (r * w + c) % w = c

LEMMA RowAndColumn ==
  ASSUME NEW h \in Nat \ {0}, NEW w \in Nat \ {0}, NEW r \in 0 .. h - 1, NEW c \in 0 .. w - 1
  PROVE  RowMajor(h, w, r, c)
<1> DEFINE a == r * w + c
           q == a \div w
<1>1. a \in Nat /\ r * w \in Nat
  OBVIOUS
<1>2. q \in Nat /\ a % w \in 0 .. w - 1 /\ a = w * q + (a % w)
  BY <1>1, DivMod
<1>3. a <= h * w - 1
  <2>1. (h - 1 - r) * w \in Nat
    OBVIOUS
  <2>2. (h - 1 - r) * w = h * w - w - r * w
    OBVIOUS
  <2>3. QED
    BY <2>1, <2>2
<1> HIDE DEF q
<1>4. ASSUME q < r PROVE FALSE
  <2>1. (r - q - 1) * w \in Nat
    BY <1>2, <1>4
  <2>2. (r - q - 1) * w = r * w - w * q - w
    BY <1>2
  <2>3. QED
    BY <1>2, <2>1, <2>2
<1>5. ASSUME r < q PROVE FALSE
  <2>1. (q - r - 1) * w \in Nat
    BY <1>2, <1>5
  <2>2. (q - r - 1) * w = w * q - r * w - w
    BY <1>2
  <2>3. QED
    BY <1>2, <2>1, <2>2
<1>6. q = r
  BY <1>2, <1>4, <1>5
<1>7. a % w = c
  <2>1. w * q = r * w
    BY <1>6
  <2>2. QED
    BY <1>2, <2>1
<1>8. QED
  BY <1>1, <1>3, <1>6, <1>7 DEF q, RowMajor

LEMMA PixelsArePlaced ==
  ASSUME NEW k, picks[k].window \in Windows, NEW band
  PROVE  Scattered(WindowPixels(k, band), picks[k].window, Pad)
           = [n \in 1 .. Rows * Columns |->
                IF Within(n, picks[k].window) THEN <<items[picks[k].item], band, RowOf(n), ColumnOf(n)>> ELSE Pad]
<1> DEFINE win == picks[k].window
           s == items[picks[k].item]
           size == win.h * win.w
<1>1. Fits(win) /\ Rows \in Nat \ {0} /\ Columns \in Nat \ {0}
  BY WindowsFit, GridAssumption
<1>2. WindowPixels(k, band)
        = [n \in 1 .. size |-> <<s, band, win.row0 + ((n - 1) \div win.w), win.col0 + ((n - 1) % win.w)>>]
  BY DEF WindowPixels
<1> HIDE DEF win, s
<1>3. size \in Nat
  BY <1>1 DEF Fits
<1> HIDE DEF size
<1>4. ASSUME NEW n \in 1 .. Rows * Columns, Within(n, win)
      PROVE  WindowPixels(k, band)[(RowOf(n) - win.row0) * win.w + (ColumnOf(n) - win.col0) + 1]
               = <<s, band, RowOf(n), ColumnOf(n)>>
  <2> DEFINE r == RowOf(n) - win.row0
             c == ColumnOf(n) - win.col0
             a == r * win.w + c
  <2>1. RowOf(n) \in Int /\ ColumnOf(n) \in Int
    <3>1. Rows * Columns \in Nat
      BY <1>1
    <3>2. n - 1 \in Nat
      BY <1>4, <3>1
    <3>3. (n - 1) \div Columns \in Nat /\ (n - 1) % Columns \in 0 .. Columns - 1
      BY <1>1, <3>2, DivMod
    <3>4. QED
      BY <1>1, <3>3 DEF RowOf, ColumnOf
  <2>2. r \in 0 .. win.h - 1 /\ c \in 0 .. win.w - 1
    BY <1>1, <1>4, <2>1 DEF Fits, Within
  <2>3. r + win.row0 = RowOf(n) /\ c + win.col0 = ColumnOf(n)
    BY <1>1, <2>1 DEF Fits
  <2> HIDE DEF r, c
  <2>4. a \in 0 .. size - 1 /\ a \div win.w = r /\ (a % win.w) = c
    <3>1. win.h \in Nat \ {0} /\ win.w \in Nat \ {0}
      BY <1>1 DEF Fits
    <3>2. RowMajor(win.h, win.w, r, c)
      BY <3>1, <2>2, RowAndColumn
    <3>3. QED
      BY ONLY <3>2 DEF RowMajor, size, a
  <2> HIDE DEF a
  <2>5. a + 1 \in 1 .. size /\ (a + 1) - 1 = a
    BY <1>3, <2>4
  <2>6. WindowPixels(k, band)[a + 1]
          = <<s, band, win.row0 + (((a + 1) - 1) \div win.w), win.col0 + (((a + 1) - 1) % win.w)>>
    BY <1>2, <2>5
  <2>7. win.row0 + r = RowOf(n) /\ win.col0 + c = ColumnOf(n)
    BY <1>1, <2>2, <2>3 DEF Fits
  <2>8. WindowPixels(k, band)[a + 1] = <<s, band, RowOf(n), ColumnOf(n)>>
    BY <2>4, <2>5, <2>6, <2>7
  <2>9. QED
    BY <2>8 DEF a, r, c
<1>5. Scattered(WindowPixels(k, band), win, Pad)
        = [n \in 1 .. Rows * Columns |-> IF Within(n, win) THEN <<s, band, RowOf(n), ColumnOf(n)>> ELSE Pad]
  BY <1>4 DEF Scattered
<1>6. QED
  BY <1>5 DEF win, s

LEMMA WholeIsPlaced ==
  ASSUME BuildInv, phase = "fetching", NEW k \in DOMAIN picks, Whole(k)
  PROVE  Placed(Observation(k), request.bands)
<1> DEFINE w == picks[k].window
           s == items[picks[k].item]
           Expected(b) == [n \in 1 .. Rows * Columns |->
                             IF Within(n, w) THEN <<s, b, RowOf(n), ColumnOf(n)>> ELSE Pad]
<1>1. /\ w \in Windows
      /\ \A task \in DOMAIN data : data[task] = Read(task[1], task[2])
      /\ DOMAIN request.bands = 1 .. Len(request.bands) /\ Len(request.bands) \in Nat
  BY RequestsAssumption DEF BuildInv, PicksInv
<1>2. \A b \in {Quality} \union DOMAIN request.bands : <<k, b>> \in DOMAIN data
  BY DEF Whole
<1>3. \A b : Scattered(WindowPixels(k, b), w, Pad) = Expected(b)
  BY <1>1, PixelsArePlaced
<1>4. <<k, Quality>> \in DOMAIN data /\ data[<<k, Quality>>] = WindowPixels(k, Quality)
  BY <1>1, <1>2 DEF Read, QualityRead
<1>5. \A b \in DOMAIN request.bands : /\ <<k, b>> \in DOMAIN data
                                      /\ data[<<k, b>>] = WindowPixels(k, request.bands[b])
  BY <1>1, <1>2 DEF Read, BandRead, Quality
<1> HIDE DEF Expected
<1>6. /\ Observation(k).scene = s /\ Observation(k).window = w
      /\ Observation(k).quality = Expected(Quality)
      /\ \A b \in DOMAIN request.bands : Observation(k).bands[b] = Expected(request.bands[b])
  BY <1>3, <1>4, <1>5 DEF Observation
<1>7. QED
  BY <1>6, SMTT(40) DEF Placed, Expected

LEMMA SeenInPeriod ==
  ASSUME BuildInv, phase = "fetching", NEW i \in PeriodItems, Catalogue[items[i]].projects
  PROVE  items[i] \in {s \in ScenesIn(Periods[turn]) : /\ request.mode # "one" => Passes(s)
                                                      /\ Catalogue[s].projects}
<1>1. /\ request \in Requests /\ turn \in DOMAIN Periods /\ Periods[turn] \in ToSet(Periods)
      /\ items \in Seq(DOMAIN Catalogue) /\ i \in DOMAIN items
  BY PeriodsFacts DEF BuildInv, TurnInv, ItemsInv, PeriodItems, ToSet
<1>2. items[i] \in DOMAIN Catalogue /\ items[i] \in ToSet(items)
  BY <1>1 DEF ToSet
<1>3. CASE request.mode = "one"
  <2>1. Periods[turn] = Nothing
    BY <1>1, <1>3, PeriodKind
  <2>2. ToSet(items) \subseteq ScenesIn(Nothing)
    BY <1>3 DEF BuildInv, ItemsInv
  <2>3. QED
    BY <1>2, <1>3, <2>1, <2>2
<1>4. CASE request.mode # "one"
  <2>1. MonthOf(items[i]) = Periods[turn] /\ Passes(items[i])
    BY <1>4 DEF PeriodItems, OfPeriod
  <2>2. MonthsOf(Periods[turn]) = {Periods[turn]}
    BY <1>1, <1>4, PeriodKind
  <2>3. items[i] \in ScenesIn(Periods[turn])
    BY <1>2, <2>1, <2>2 DEF ScenesIn
  <2>4. QED
    BY <2>1, <2>3
<1>5. QED
  BY <1>3, <1>4

LEMMA ComposeKeeps ==
  ASSUME BuildInv, Compose
  PROVE  BuildInv'
<1>1. /\ request \in Requests /\ DiskInv /\ FoundInv /\ ItemsInv /\ StatsInv /\ TurnInv /\ PicksInv
      /\ SeenInv /\ ObservationsWhole
  BY DEF BuildInv
<1>2. /\ phase = "fetching" /\ phase' = "composing" /\ turn' = turn + 1
      /\ UNCHANGED <<request, disk, found, items, stats, scouting, errs>>
  BY DEF Compose, shared, listing, scouted
<1> DEFINE W == {k \in DOMAIN picks : Whole(k)}
           whole == SortedSet(W)
           N == Len(whole)
           observations == [n \in DOMAIN whole |-> Observation(whole[n])]
           new == [period |-> Periods[turn], observations |-> observations]
<1>3. results' = Append(results, new)
  BY DEF Compose
<1>4. W \subseteq Nat /\ IsFiniteSet(W)
  <2>1. Len(picks) \in Nat /\ DOMAIN picks = 1 .. Len(picks)
    BY <1>1, <1>2, ListFacts DEF PicksInv
  <2>2. IsFiniteSet(DOMAIN picks) /\ DOMAIN picks \subseteq Nat
    BY <2>1, ListFinite
  <2>3. QED
    BY <2>2, FS_Subset
<1>5. \A k \in W : k \in DOMAIN picks /\ Whole(k)
  OBVIOUS
<1> HIDE DEF W
<1>6. /\ DOMAIN whole = 1 .. N /\ N \in Nat
      /\ \A n \in DOMAIN whole : whole[n] \in W
      /\ \A n, m \in DOMAIN whole : whole[n] = whole[m] => n = m
  BY ONLY <1>4, SortedLists
<1> HIDE DEF whole, N
<1>7. /\ DOMAIN observations = DOMAIN whole
      /\ \A n \in DOMAIN whole : observations[n] = Observation(whole[n])
  OBVIOUS
<1>8. \A n \in DOMAIN whole : /\ Placed(observations[n], request.bands)
                              /\ observations[n].scene = items[picks[whole[n]].item]
  <2> SUFFICES ASSUME NEW n \in DOMAIN whole
               PROVE  /\ Placed(observations[n], request.bands)
                      /\ observations[n].scene = items[picks[whole[n]].item]
    OBVIOUS
  <2>1. whole[n] \in DOMAIN picks /\ Whole(whole[n])
    BY <1>5, <1>6
  <2>2. Placed(Observation(whole[n]), request.bands)
    BY <1>2, <2>1, WholeIsPlaced
  <2>3. Observation(whole[n]).scene = items[picks[whole[n]].item]
    BY DEF Observation
  <2>4. QED
    BY <1>7, <2>2, <2>3
<1> HIDE DEF observations
<1>9. /\ List(results) /\ Len(results) \in Nat /\ DOMAIN results = 1 .. Len(results)
      /\ DOMAIN results' = 1 .. Len(results) + 1 /\ List(results')
      /\ \A n \in DOMAIN results : results'[n] = results[n]
      /\ results'[Len(results) + 1] = new
  BY <1>1, <1>3, Appended, ListFacts DEF TurnInv
<1>10. \A n \in DOMAIN results' : n \in DOMAIN results \/ n = Len(results) + 1
  BY <1>9
<1>11. new.period = Periods[turn] /\ new.observations = observations
  OBVIOUS
<1> HIDE DEF new
<1>12. ObservationsWhole'
  <2>1. \A n \in DOMAIN results : \A m \in DOMAIN results[n].observations :
          Placed(results[n].observations[m], request.bands)
    BY <1>1 DEF ObservationsWhole, Placed
  <2>2. \A n \in DOMAIN results' : \A m \in DOMAIN results'[n].observations :
          Placed(results'[n].observations[m], request.bands)
    <3> SUFFICES ASSUME NEW n \in DOMAIN results', NEW m \in DOMAIN results'[n].observations
                 PROVE  Placed(results'[n].observations[m], request.bands)
      OBVIOUS
    <3>1. CASE n \in DOMAIN results
      BY <1>9, <2>1, <3>1
    <3>2. CASE n = Len(results) + 1
      BY <1>7, <1>8, <1>9, <1>11, <3>2
    <3>3. QED
      BY <1>10, <3>1, <3>2
  <2>3. \A n \in DOMAIN results' : \A m \in DOMAIN results'[n].observations :
          Placed(results'[n].observations[m], request'.bands)
    BY <1>2, <2>2
  <2>4. QED
    BY ONLY <2>3 DEF ObservationsWhole, Placed
<1> DEFINE Good(p, s) == s \in {x \in ScenesIn(p) : /\ request.mode # "one" => Passes(x)
                                                  /\ Catalogue[x].projects}
           Seen(r) == [m \in DOMAIN r.observations |-> r.observations[m].scene]
<1>13. SeenInv'
  <2>1. \A n \in DOMAIN results : /\ \A s \in ToSet(Seen(results[n])) : Good(results[n].period, s)
                                  /\ request.mode # "one" => IsInjective(Seen(results[n]))
    BY <1>1 DEF SeenInv
  <2>2. \A m \in DOMAIN whole : Good(Periods[turn], observations[m].scene)
    <3> SUFFICES ASSUME NEW m \in DOMAIN whole PROVE Good(Periods[turn], observations[m].scene)
      OBVIOUS
    <3>1. whole[m] \in DOMAIN picks
      BY <1>5, <1>6
    <3>2. /\ picks[whole[m]].item \in PeriodItems
          /\ Catalogue[items[picks[whole[m]].item]].projects
      BY <1>1, <1>2, <3>1 DEF PicksInv
    <3>3. Good(Periods[turn], items[picks[whole[m]].item])
      BY <1>2, <3>2, SeenInPeriod
    <3>4. QED
      BY <1>8, <3>3
  <2>3. ASSUME request.mode # "one", NEW l \in DOMAIN whole, NEW m \in DOMAIN whole,
               observations[l].scene = observations[m].scene
        PROVE  l = m
    <3>1. items[picks[whole[l]].item] = items[picks[whole[m]].item]
      BY <1>8, <2>3
    <3>2. whole[l] \in DOMAIN picks /\ whole[m] \in DOMAIN picks
      BY <1>5, <1>6
    <3>3. picks[whole[l]].item \in DOMAIN items /\ picks[whole[m]].item \in DOMAIN items
      BY <1>1, <1>2, <3>2 DEF PicksInv, PeriodItems
    <3>4. IsInjective(items)
      BY <1>1, <1>2, <2>3 DEF ItemsInv
    <3>5. picks[whole[l]].item = picks[whole[m]].item
      BY <3>1, <3>3, <3>4 DEF IsInjective
    <3>6. QED
      BY <1>1, <1>2, <1>6, <3>2, <3>5 DEF PicksInv
  <2> HIDE DEF Good
  <2>4. \A n \in DOMAIN results' : /\ \A s \in ToSet(Seen(results'[n])) : Good(results'[n].period, s)
                                   /\ request.mode # "one" => IsInjective(Seen(results'[n]))
    <3> SUFFICES ASSUME NEW n \in DOMAIN results'
                 PROVE  /\ \A s \in ToSet(Seen(results'[n])) : Good(results'[n].period, s)
                        /\ request.mode # "one" => IsInjective(Seen(results'[n]))
      OBVIOUS
    <3>1. CASE n \in DOMAIN results
      BY <1>9, <2>1, <3>1
    <3>2. CASE n = Len(results) + 1
      <4>1. /\ results'[n] = new /\ results'[n].period = Periods[turn]
            /\ DOMAIN Seen(results'[n]) = DOMAIN whole
            /\ \A m \in DOMAIN whole : Seen(results'[n])[m] = observations[m].scene
        BY <1>7, <1>9, <1>11, <3>2
      <4> HIDE DEF Seen
      <4>2. \A s \in ToSet(Seen(results'[n])) : Good(results'[n].period, s)
        BY <2>2, <4>1 DEF ToSet
      <4>3. request.mode # "one" => IsInjective(Seen(results'[n]))
        BY <2>3, <4>1 DEF IsInjective
      <4>4. QED
        BY <4>2, <4>3
    <3>3. QED
      BY <1>10, <3>1, <3>2
  <2>5. QED
    BY <1>2, <2>4 DEF SeenInv, Good, Seen, ScenesIn, MonthsOf, MonthOf, Passes
<1>14. TurnInv'
  <2>1. /\ Len(Periods) \in Nat /\ \A j, k \in 1 .. Len(Periods) : Periods[j] = Periods[k] => j = k
        /\ Periods' = Periods
    BY <1>1, <1>2, PeriodsFacts, SamePeriods
  <2>2. /\ turn - 1 \in Nat /\ turn - 1 < Len(Periods) /\ (turn - 1) + 1 = turn
        /\ turn + 1 \in 1 .. Len(Periods) + 1 /\ (turn + 1) - 1 = turn
        /\ List(results) /\ List(errs) /\ Accounted(Periods, turn - 1, results, errs)
    BY <1>1, <1>2, <2>1 DEF TurnInv
  <2>3. Accounted(Periods, (turn - 1) + 1, Append(results, new), errs)
    BY <1>11, <2>1, <2>2, ResultAccounted
  <2>4. QED
    BY <1>2, <1>3, <1>9, <2>1, <2>2, <2>3 DEF TurnInv
<1>15. ItemsInv'
  BY <1>1, <1>2, KeptItems DEF ItemsInv
<1>16. DiskInv' /\ FoundInv' /\ StatsInv' /\ PicksInv'
  BY <1>1, <1>2, KeptDisk, KeptFound, KeptStats, KeptPicks
<1>17. QED
  BY <1>1, <1>2, <1>12, <1>13, <1>14, <1>15, <1>16 DEF BuildInv

LEMMA ReturnKeeps ==
  ASSUME BuildInv, Return
  PROVE  BuildInv'
<1>1. /\ request \in Requests /\ DiskInv /\ FoundInv /\ ItemsInv /\ StatsInv /\ TurnInv
      /\ SeenInv /\ ObservationsWhole
  BY DEF BuildInv
<1>2. /\ phase = "composing" /\ turn > Len(Periods)
      /\ phase' = IF results = <<>> /\ errs # <<>> THEN "failed" ELSE "done"
      /\ UNCHANGED <<request, disk, found, items, stats, scouting, turn, results, errs>>
  BY DEF Return, shared, listing, scouted, composing
<1>3. /\ Len(Periods) \in Nat \ {0} /\ Periods' = Periods
  BY <1>1, <1>2, PeriodsFacts, SamePeriods
<1>4. turn = Len(Periods) + 1 /\ 1 \in 1 .. turn - 1
  BY <1>1, <1>2, <1>3 DEF TurnInv
<1>5. phase' = "done" => results # <<>>
  <2>1. SUFFICES ASSUME results = <<>>, errs = <<>> PROVE FALSE
    BY <1>2
  <2>2. DOMAIN results = {} /\ DOMAIN errs = {}
    BY <2>1
  <2>3. (\E n \in DOMAIN results : results[n].period = Periods[1]) \/ \E n \in DOMAIN errs : errs[n] = Periods[1]
    BY <1>1, <1>4 DEF TurnInv, Accounted
  <2>4. QED
    BY <2>2, <2>3
<1>6. TurnInv'
  BY <1>1, <1>2, <1>3, <1>4, <1>5 DEF TurnInv
<1>7. phase' \in {"done", "failed"}
  BY <1>2
<1>8. ItemsInv'
  BY <1>1, <1>2, <1>7, KeptItems DEF ItemsInv
<1>9. DiskInv' /\ FoundInv' /\ StatsInv' /\ PicksInv' /\ SeenInv' /\ ObservationsWhole'
  BY <1>1, <1>2, <1>7, KeptDisk, KeptFound, KeptStats, KeptPicks, KeptResults
<1>10. QED
  BY <1>1, <1>2, <1>6, <1>8, <1>9 DEF BuildInv

-----------------------------------------------------------------------------
(* The first build, and the next.                                          *)
LEMMA PeriodsCount == request \in Requests => Len(Periods) \in Nat
BY PeriodsFacts

LEMMA NothingAccounted ==
  ASSUME NEW periods
  PROVE  Accounted(periods, 0, <<>>, <<>>) /\ List(<<>>)
<1>1. 1 .. 0 = {} /\ DOMAIN <<>> = {}
  OBVIOUS
<1>2. List(<<>>)
  BY DEF List
<1>3. QED
  BY <1>1, <1>2 DEF Accounted

Begun == /\ request \in Requests /\ phase = "searching"
         /\ found = [p \in ToSet(Periods) |-> Nothing]
         /\ items = <<>> /\ scouting = {} /\ stats = <<>>
         /\ turn = 1 /\ results = <<>> /\ errs = <<>>

LEMMA BegunIsRight == Begun /\ DiskInv => BuildInv
<1> SUFFICES ASSUME Begun, DiskInv PROVE BuildInv
  OBVIOUS
<1>1. FoundInv
  BY DEF Begun, FoundInv
<1>2. ItemsInv
  <2>1. items = <<>> /\ scouting = {} /\ phase = "searching"
    BY DEF Begun
  <2>2. items \in Seq(DOMAIN Catalogue)
    BY <2>1
  <2>3. QED
    BY <2>1, <2>2 DEF ItemsInv
<1>3. StatsInv
  <2>1. DOMAIN stats = {}
    BY DEF Begun
  <2>2. QED
    BY <2>1 DEF StatsInv, WarmTakesNoMore
<1>4. TurnInv
  <2>1. Len(Periods) \in Nat
    BY PeriodsCount DEF Begun
  <2>2. Accounted(Periods, 0, <<>>, <<>>) /\ List(<<>>)
    BY NothingAccounted
  <2>3. turn - 1 = 0 /\ turn \in 1 .. Len(Periods) + 1 /\ results = <<>> /\ errs = <<>> /\ phase = "searching"
    BY <2>1 DEF Begun
  <2>4. QED
    BY <2>2, <2>3 DEF TurnInv
<1>5. PicksInv
  BY DEF Begun, PicksInv
<1>6. SeenInv /\ ObservationsWhole
  <2>1. DOMAIN results = {}
    BY DEF Begun
  <2>2. QED
    BY <2>1 DEF SeenInv, ObservationsWhole
<1>7. QED
  BY <1>1, <1>2, <1>3, <1>4, <1>5, <1>6 DEF BuildInv, Begun

LEMMA BuildInvInit ==
  ASSUME BuildInit
  PROVE  BuildInv
<1>1. Begun
  BY DEF BuildInit, Fresh, Begun
<1>2. DiskInv
  <2>1. disk = [search |-> <<>>, scout |-> <<>>]
    BY DEF BuildInit
  <2>2. DOMAIN disk.search = {} /\ DOMAIN disk.scout = {}
    BY <2>1
  <2>3. QED
    BY <2>1, <2>2 DEF DiskInv
<1>3. QED
  BY <1>1, <1>2, BegunIsRight

LEMMA NextBuildKeeps ==
  ASSUME BuildInv, NextBuild
  PROVE  BuildInv'
<1>1. Begun'
  BY DEF NextBuild, Begun
<1>2. DiskInv'
  BY KeptDisk DEF BuildInv, NextBuild
<1>3. (Begun /\ DiskInv => BuildInv)'
  BY BegunIsRight, PTL
<1>4. QED
  BY <1>1, <1>2, <1>3

LEMMA BuildInvStutters ==
  ASSUME BuildInv, UNCHANGED buildVars
  PROVE  BuildInv'
<1>1. /\ request \in Requests /\ DiskInv /\ FoundInv /\ ItemsInv /\ StatsInv /\ TurnInv /\ PicksInv
      /\ SeenInv /\ ObservationsWhole
  BY DEF BuildInv
<1>2. UNCHANGED <<request, disk, phase, found, items, scouting, stats, turn, picks, data, results, errs>>
  BY DEF buildVars
<1>3. Periods' = Periods
  BY <1>2, SamePeriods
<1>4. PicksInv'
  <2>1. /\ PeriodItems' = PeriodItems /\ Windows' = Windows
        /\ \A j, c : Read(j, c)' = Read(j, c)
    BY <1>2, <1>3 DEF PeriodItems, OfPeriod, MonthOf, Passes, Windows, Read, QualityRead, BandRead, WindowPixels
  <2>2. phase = "fetching" => \A task \in DOMAIN data' : data'[task] = Read(task[1], task[2])
    BY <1>1, <1>2 DEF PicksInv
  <2>3. QED
    BY <1>1, <1>2, <2>1, <2>2 DEF PicksInv
<1>5. ItemsInv'
  BY <1>1, <1>2 DEF ItemsInv, ScenesIn, MonthsOf, MonthOf
<1>6. DiskInv' /\ FoundInv' /\ StatsInv' /\ TurnInv' /\ SeenInv' /\ ObservationsWhole'
  BY <1>1, <1>2, KeptDisk, KeptFound, KeptStats, KeptTurn, KeptResults
<1>7. QED
  BY <1>1, <1>2, <1>4, <1>5, <1>6 DEF BuildInv

LEMMA BuildInvNext ==
  ASSUME BuildInv, [BuildNext]_buildVars
  PROVE  BuildInv'
<1>1. ASSUME NEW p \in DOMAIN found, Search(p) PROVE BuildInv'
  BY <1>1, SearchKeeps
<1>2. CASE Gather
  BY <1>2, GatherKeeps
<1>3. CASE Sign
  BY <1>3, SignKeeps
<1>4. CASE StartScouts
  BY <1>4, StartScoutsKeeps
<1>5. CASE AllScouted
  BY <1>5, AllScoutedKeeps
<1>6. ASSUME NEW i \in scouting, ScoutEnds(i) PROVE BuildInv'
  BY <1>6, ScoutEndsKeeps
<1>7. CASE Select
  BY <1>7, SelectKeeps
<1>8. CASE PeriodFails
  BY <1>8, PeriodFailsKeeps
<1>9. ASSUME NEW task \in pending, FetchEnds(task[1], task[2]) PROVE BuildInv'
  BY <1>9, FetchEndsKeeps
<1>10. CASE Compose
  BY <1>10, ComposeKeeps
<1>11. CASE Return
  BY <1>11, ReturnKeeps
<1>12. CASE NextBuild
  BY <1>12, NextBuildKeeps
<1>13. CASE UNCHANGED buildVars
  BY <1>13, BuildInvStutters
<1>14. QED
  BY <1>1, <1>2, <1>3, <1>4, <1>5, <1>6, <1>7, <1>8, <1>9, <1>10, <1>11, <1>12, <1>13
     DEF BuildNext, Step

(* The invariant of the builds: from the first search to the return, and   *)
(* from one build to the next over the same disk (py.rs:399-1431).         *)
THEOREM BuildsAreRight == BuildSpec => []BuildInv
<1>1. BuildInit => BuildInv
  BY BuildInvInit
<1>2. BuildInv /\ [BuildNext]_buildVars => BuildInv'
  BY BuildInvNext
<1>3. QED
  BY <1>1, <1>2, PTL DEF BuildSpec

-----------------------------------------------------------------------------
(* What the invariant says of a build.                                     *)
LEMMA InvListsEveryDay == BuildInv => EveryDayListed
<1> SUFFICES ASSUME BuildInv PROVE EveryDayListed
  OBVIOUS
<1>1. request \in Requests /\ DOMAIN found = ToSet(Periods) /\ ItemsInv
  BY DEF BuildInv, FoundInv
<1>2. \A p \in DOMAIN found : Valid(p)
  BY <1>1, PeriodsAreValid
<1>3. QED
  BY <1>1, <1>2 DEF EveryDayListed, ItemsInv

LEMMA InvAccounts == BuildInv => PeriodsAccounted
<1> SUFFICES ASSUME BuildInv PROVE PeriodsAccounted
  OBVIOUS
<1> DEFINE done == [n \in DOMAIN results |-> results[n].period]
           at(p) == CHOOSE k \in DOMAIN Periods : Periods[k] = p
<1>1. /\ request \in Requests /\ TurnInv /\ SeenInv
      /\ Accounted(Periods, turn - 1, results, errs)
  BY DEF BuildInv, TurnInv
<1>2. /\ Len(Periods) \in Nat \ {0} /\ DOMAIN Periods = 1 .. Len(Periods)
      /\ \A j, k \in DOMAIN Periods : Periods[j] = Periods[k] => j = k
      /\ turn \in 1 .. Len(Periods) + 1 /\ 1 .. turn - 1 \subseteq DOMAIN Periods
  BY <1>1, PeriodsFacts DEF TurnInv
<1>3. \A k \in DOMAIN Periods : at(Periods[k]) = k
  BY <1>2
<1>4. /\ Len(results) \in Nat /\ DOMAIN results = 1 .. Len(results)
      /\ Len(done) = Len(results) /\ DOMAIN done = DOMAIN results
      /\ \A n \in DOMAIN results : done[n] = results[n].period
  BY <1>1, ListFacts DEF TurnInv
<1> HIDE DEF done, at
<1>5. \A n \in 1 .. Len(done) - 1 : at(done[n]) < at(done[n + 1])
  <2> SUFFICES ASSUME NEW n \in 1 .. Len(done) - 1 PROVE at(done[n]) < at(done[n + 1])
    OBVIOUS
  <2>1. n \in DOMAIN results /\ n + 1 \in DOMAIN results /\ n < n + 1
    BY <1>4
  <2>2. PICK j \in 1 .. turn - 1 : results[n].period = Periods[j]
    BY <1>1, <2>1 DEF Accounted
  <2>3. PICK k \in 1 .. turn - 1 : results[n + 1].period = Periods[k]
    BY <1>1, <2>1 DEF Accounted
  <2>4. j < k
    BY <1>1, <2>1, <2>2, <2>3 DEF Accounted
  <2>5. at(done[n]) = j /\ at(done[n + 1]) = k
    BY <1>2, <1>3, <1>4, <2>1, <2>2, <2>3
  <2>6. QED
    BY <2>4, <2>5
<1>6. ToSet(done) \cap ToSet(errs) = {}
  BY <1>1, <1>4 DEF Accounted, ToSet
<1>7. ASSUME phase = "done"
      PROVE  ToSet(done) \union ToSet(errs) = ToSet(Periods) /\ done # <<>>
  <2>1. turn - 1 = Len(Periods) /\ results # <<>>
    BY <1>1, <1>2, <1>7 DEF TurnInv
  <2>2. /\ \A n \in DOMAIN done : \E k \in DOMAIN Periods : done[n] = Periods[k]
        /\ \A n \in DOMAIN errs : \E k \in DOMAIN Periods : errs[n] = Periods[k]
        /\ \A k \in DOMAIN Periods : \/ \E n \in DOMAIN done : done[n] = Periods[k]
                                     \/ \E n \in DOMAIN errs : errs[n] = Periods[k]
    <3>1. 1 .. turn - 1 = DOMAIN Periods
      BY <1>2, <2>1
    <3>2. /\ \A n \in DOMAIN results : \E k \in DOMAIN Periods : results[n].period = Periods[k]
          /\ \A n \in DOMAIN errs : \E k \in DOMAIN Periods : errs[n] = Periods[k]
          /\ \A k \in DOMAIN Periods : \/ \E n \in DOMAIN results : results[n].period = Periods[k]
                                       \/ \E n \in DOMAIN errs : errs[n] = Periods[k]
      BY <1>1, <3>1 DEF Accounted
    <3>3. QED
      BY <1>4, <3>2
  <2>3. ToSet(done) \union ToSet(errs) = ToSet(Periods)
    BY <2>2 DEF ToSet
  <2>4. DOMAIN results # {}
    <3>1. Len(results) # 0
      BY <1>1, <2>1 DEF TurnInv, List
    <3>2. QED
      BY <1>4, <3>1
  <2>5. QED
    BY <1>4, <2>3, <2>4
<1>8. \A n \in DOMAIN results :
        LET seen == [m \in DOMAIN results[n].observations |-> results[n].observations[m].scene]
        IN  /\ ToSet(seen) \subseteq {s \in ScenesIn(done[n]) : /\ request.mode # "one" => Passes(s)
                                                            /\ Catalogue[s].projects}
            /\ request.mode # "one" => IsInjective(seen)
  BY <1>1, <1>4 DEF SeenInv
<1>9. QED
  BY <1>5, <1>6, <1>7, <1>8 DEF PeriodsAccounted, done, at

(* For any years, months and catalogue, a build that is not refused lists  *)
(* every scene of every day asked for, the leap day included, and each once *)
(* if it is of periods (last_day_of_month, py.rs:942-996).                 *)
THEOREM BuildsListEveryDay == BuildSpec => []EveryDayListed
BY BuildsAreRight, InvListsEveryDay, PTL

(* Whichever reads fail and in whatever order they end, every observation  *)
(* composed has each pixel of each band in its own row and column over the *)
(* whole of its window, for any grid and windows (py.rs:389-398, 752-805,  *)
(* 1339-1392).                                                             *)
THEOREM BuildsCompose == BuildSpec => []ObservationsWhole
<1>1. BuildInv => ObservationsWhole
  BY DEF BuildInv
<1>2. QED
  BY BuildsAreRight, <1>1, PTL

(* Each period asked for has a result or an error, once and in order, and  *)
(* the results are of scenes of their period that pass the gate            *)
(* (run_build_periods, py.rs:1128-1431).                                   *)
THEOREM BuildsAccount == BuildSpec => []PeriodsAccounted
BY BuildsAreRight, InvAccounts, PTL

(* What a build reads back of a scouted scene has the clear ground of each *)
(* chunk that the scout found, and is usable only if it was: the cache can *)
(* make a selection leave a scene, and never take one                      *)
(* (scenestats_to_cache and scenestats_from_cache, pipeline.rs:73-112).    *)
THEOREM WarmBuildsTakeNoMore == BuildSpec => []WarmTakesNoMore
<1>1. BuildInv => WarmTakesNoMore
  BY DEF BuildInv, StatsInv
<1>2. QED
  BY BuildsAreRight, <1>1, PTL
=============================================================================
