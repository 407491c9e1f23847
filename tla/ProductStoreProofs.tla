------------------------- MODULE ProductStoreProofs -------------------------
(***************************************************************************)
(* What ProductStore promises, for any number of callers, builds, asset    *)
(* sets and write workers, with crashes and failed writes.                 *)
(***************************************************************************)
EXTENDS ProductStore, FiniteSetTheorems, TLAPS

Points == {"idle", "building", "clearing", "making", "writing", "naming", "saved",
           "opening", "loading", "served", "raised"}
Rebuilding == {"building", "clearing", "making", "writing", "naming", "saved"}
Saving == Rebuilding \ {"building"}

StageNames == {"none", "old", "create", "write", "copy", "copying", "drop", "move"}

Written == [by : 0..MaxBuilds, whole : BOOLEAN]
Present(f) == files[f] # Absent

StoreType ==
  /\ dir \in BOOLEAN
  /\ files \in [Files -> Written \cup {Absent}]
  /\ temps \in [Files -> Written \cup {Absent}]
  /\ item \in Items \cup {Absent, Torn}
  /\ built \in 0..MaxBuilds
  /\ pc \in [Callers -> Points]
  /\ mine \in [Callers -> 0..MaxBuilds]
  /\ lists \in [Callers -> SUBSET Files]
  /\ todo \in [Callers -> SUBSET Files]
  /\ stage \in [Callers -> [Files -> StageNames]]
  /\ failed \in [Callers -> BOOLEAN]
  /\ read \in [Callers -> SUBSET (0..MaxBuilds)]
  /\ mishap \in BOOLEAN

(* A caller that rebuilds or has rebuilt has a build of its own.           *)
OwnBuild(p) == pc[p] \in Rebuilding => mine[p] # 0

(* What a caller has still to do, at each of its program points.           *)
Pending(p) ==
  /\ pc[p] # "writing" => ~failed[p] /\ \A f \in Files : stage[p][f] = "none"
  /\ pc[p] \in Saving \cup {"loading"} => lists[p] \in AssetSets /\ todo[p] \subseteq lists[p]
  /\ pc[p] \in {"clearing", "making"} => todo[p] = lists[p]
  /\ pc[p] = "writing" =>
       \A f \in Files : stage[p][f] # "none" => f \in lists[p] /\ f \notin todo[p]
  /\ pc[p] \notin {"clearing", "making", "writing", "loading"} => todo[p] = {}
  /\ pc[p] = "opening" => read[p] = {}
  /\ pc[p] = "loading" /\ read[p] = {} => todo[p] = lists[p]
  /\ pc[p] = "served" => read[p] # {}

(* Nothing is ever written where there is no directory.                    *)
NoDirNoFiles == ~dir => Cleared

LocalInv == /\ \A p \in Callers : OwnBuild(p) /\ Pending(p)
            /\ NoDirNoFiles
            /\ Callers = {} => item = Absent

(* The disk as a caller finds it that nobody rebuilds under.               *)
OneBuild == \A f, g \in Files : Present(f) /\ Present(g) => files[f].by = files[g].by

FileAlone(p, f) ==
  /\ f \in todo[p] \/ f \notin lists[p] \/ stage[p][f] \in {"old", "create"} =>
       files[f] = Absent /\ temps[f] = Absent
  /\ stage[p][f] = "write" => temps[f] = [by |-> mine[p], whole |-> FALSE]
  /\ stage[p][f] \in {"copy", "copying", "drop", "move"} =>
       temps[f] = [by |-> mine[p], whole |-> TRUE]
  /\ stage[p][f] \in {"write", "copy", "move"} => files[f] = Absent
  /\ stage[p][f] = "copying" => files[f] = [by |-> mine[p], whole |-> FALSE]
  /\ stage[p][f] = "drop" => files[f] = [by |-> mine[p], whole |-> TRUE]
  /\ f \in lists[p] /\ f \notin todo[p] /\ stage[p][f] = "none" /\ ~failed[p] =>
       files[f] = [by |-> mine[p], whole |-> TRUE] /\ temps[f] = Absent
  /\ files[f] # Absent => files[f].by = mine[p]

WritingAlone(p) == \A f \in Files : FileAlone(p, f)

SavedAlone(p) == /\ \A f \in lists[p] : Whole(f, mine[p])
                 /\ \A f \in Files \ lists[p] : ~Present(f)
                 /\ \A f \in Files : temps[f] = Absent

ReadAlone(p) == \A b, d \in read[p] : b = d

AloneInv(p) ==
  Alone(p) =>
    /\ OneBuild
    /\ pc[p] = "making" => Cleared
    /\ pc[p] = "writing" => WritingAlone(p)
    /\ pc[p] \in {"naming", "saved"} => SavedAlone(p)
    /\ pc[p] = "naming" => item = Torn
    /\ pc[p] = "saved" => item = [by |-> mine[p], lists |-> lists[p]]
    /\ pc[p] = "opening" => item \in Items
    /\ pc[p] \in {"loading", "served"} => ReadAlone(p)
    /\ pc[p] = "loading" =>
         \A b \in read[p], f \in Files : Present(f) => files[f].by = b

(* Two writers of one temporary file, or one whose temporary file is gone: *)
(* from there on, until a write raises, there are more of them than there  *)
(* are temporary files to copy or rename.                                  *)
Disturbed == mishap \/ \E p \in Callers : failed[p]
Uses(p, f) == stage[p][f] \in {"write", "copy", "copying", "drop", "move"}
Doomed(f) == \/ \E p, q \in Callers : p # q /\ Uses(p, f) /\ Uses(q, f)
             \/ \E p \in Callers : Uses(p, f) /\ temps[f] = Absent

(* An asset that is not there is one that some caller does not list, or    *)
(* will still write or read.                                               *)
Owed(p, f) == \/ f \notin lists[p]
              \/ f \in todo[p]
              \/ stage[p][f] \in {"old", "create", "write", "copy", "move"}

(* What a writer of f that is the only one finds of its own.               *)
SoundOf(p, f) ==
  /\ stage[p][f] = "write" => temps[f] = [by |-> mine[p], whole |-> FALSE]
  /\ stage[p][f] \in {"copy", "copying", "drop", "move"} =>
       temps[f] = [by |-> mine[p], whole |-> TRUE]
  /\ stage[p][f] = "copying" => files[f] \in {Absent, [by |-> mine[p], whole |-> FALSE]}

Sound(f) == /\ \A p \in Callers : SoundOf(p, f)
            /\ ~Present(f) => \E p \in Callers : Owed(p, f)
            /\ Present(f) => /\ files[f].by # 0
                             /\ files[f].whole \/ \E p \in Callers : stage[p][f] = "copying"

SoundInv == Callers # {} /\ ~Disturbed => \A f \in Files : Doomed(f) \/ Sound(f)

StoreInv == StoreType /\ LocalInv /\ (\A p \in Callers : AloneInv(p)) /\ SoundInv

-----------------------------------------------------------------------------
LEMMA TypeInit ==
  ASSUME Init
  PROVE  StoreType
<1>1. mine \in [Callers -> 0..MaxBuilds] /\ built \in 0..MaxBuilds
  BY StoreAssumption DEF Init
<1>2. QED
  BY <1>1 DEF Init, StoreType, Points, StageNames

LEMMA FilesOfAssets == \A assets \in AssetSets : assets \subseteq Files /\ assets # {}
BY StoreAssumption DEF Files

LEMMA WrittenIsPresent == \A b \in 0..MaxBuilds, w \in BOOLEAN : [by |-> b, whole |-> w] # Absent
BY NamesAssumption

Goes(p, f, s) == stage'[p][f] = s /\ failed'[p] = failed[p]
Raised(p, f) == stage'[p][f] = "none" /\ failed'[p] = TRUE
Falls(p, f) == /\ files'[f] = Absent
               /\ Goes(p, f, "move") \/ (Contended(p, f) /\ Raised(p, f))

(* A step of p's write of f leaves all other assets, stages and callers    *)
(* as they were.                                                           *)
OnlyOwn(p, f) ==
  /\ \A g \in Files \ {f} : files'[g] = files[g] /\ temps'[g] = temps[g]
  /\ \A q \in Callers, g \in Files : (q # p \/ g # f) =>
       stage'[q][g] = stage[q][g] /\ (g \in todo'[q] <=> g \in todo[q])
  /\ \A q \in Callers \ {p} : failed'[q] = failed[q] /\ todo'[q] = todo[q]
  /\ failed[p] => failed'[p]
  /\ todo'[p] \subseteq todo[p]
  /\ UNCHANGED <<item, built, pc, mine, lists, read, mishap>>

Contents == Written \cup {Absent}
DiskType == /\ dir \in BOOLEAN
            /\ files \in [Files -> Contents] /\ temps \in [Files -> Contents]
            /\ todo \in [Callers -> SUBSET Files]
            /\ stage \in [Callers -> [Files -> StageNames]]
            /\ failed \in [Callers -> BOOLEAN]

LEMMA ContentsFacts ==
  ASSUME StoreType, NEW f \in Files, NEW p \in Callers
  PROVE  /\ files[f] \in Contents /\ temps[f] \in Contents /\ Absent \in Contents
         /\ \A b \in 0..MaxBuilds, w \in BOOLEAN :
              /\ [by |-> b, whole |-> w] \in Contents /\ [by |-> b, whole |-> w] # Absent
         /\ \A c \in Contents \ {Absent} :
              c.by \in 0..MaxBuilds /\ c.whole \in BOOLEAN /\ c = [by |-> c.by, whole |-> c.whole]
         /\ mine[p] \in 0..MaxBuilds /\ 0 \in 0..MaxBuilds
<1>1. \A b \in 0..MaxBuilds, w \in BOOLEAN : [by |-> b, whole |-> w] \in Contents /\ [by |-> b, whole |-> w] # Absent
  BY WrittenIsPresent DEF Contents, Written
<1>2. QED
  BY <1>1, StoreAssumption DEF StoreType, Contents, Written

FileBecomes(f, v) == v \in Contents /\ files' = [files EXCEPT ![f] = v]
TempBecomes(f, w) == w \in Contents /\ temps' = [temps EXCEPT ![f] = w]
StageBecomes(p, f, s) == s \in StageNames /\ (Stages(p, f, s) \/ WriteRaises(p, f))
TodoBecomes(p, f) == todo' = todo \/ todo' = [todo EXCEPT ![p] = @ \ {f}]

LEMMA StageFacts ==
  ASSUME StoreType, NEW p \in Callers, NEW f \in Files, NEW s
  PROVE  /\ Stages(p, f, s) => Goes(p, f, s)
         /\ WriteRaises(p, f) => Raised(p, f)
BY DEF StoreType, Stages, WriteRaises, Goes, Raised

LEMMA WriteOwn ==
  ASSUME StoreType, NEW p \in Callers, NEW f \in Files, WriteFrame, dir' \in BOOLEAN, TodoBecomes(p, f),
         NEW s, StageBecomes(p, f, s), NEW v, FileBecomes(f, v), NEW w, TempBecomes(f, w)
  PROVE  OnlyOwn(p, f) /\ DiskType' /\ files'[f] = v /\ temps'[f] = w
<1> USE DEF StoreType
<1>0. "none" \in StageNames
  BY DEF StageNames
<1>3. /\ stage' \in [Callers -> [Files -> StageNames]] /\ failed' \in [Callers -> BOOLEAN]
      /\ \A q \in Callers, g \in Files : (q # p \/ g # f) => stage'[q][g] = stage[q][g]
      /\ \A q \in Callers \ {p} : failed'[q] = failed[q]
      /\ failed[p] => failed'[p]
  <2>1. CASE Stages(p, f, s)
    BY <2>1 DEF Stages, StageBecomes
  <2>2. CASE WriteRaises(p, f)
    BY <1>0, <2>2 DEF WriteRaises
  <2>3. QED
    BY <2>1, <2>2 DEF StageBecomes
<1>4. /\ todo' \in [Callers -> SUBSET Files] /\ todo'[p] \subseteq todo[p]
      /\ \A q \in Callers, g \in Files : (q # p \/ g # f) => (g \in todo'[q] <=> g \in todo[q])
      /\ \A q \in Callers \ {p} : todo'[q] = todo[q]
  BY DEF TodoBecomes
<1>5. files' \in [Files -> Contents] /\ files'[f] = v /\ \A g \in Files \ {f} : files'[g] = files[g]
  BY DEF Contents, FileBecomes
<1>6. temps' \in [Files -> Contents] /\ temps'[f] = w /\ \A g \in Files \ {f} : temps'[g] = temps[g]
  BY DEF Contents, TempBecomes
<1>7. OnlyOwn(p, f)
  BY <1>3, <1>4, <1>5, <1>6 DEF OnlyOwn, WriteFrame
<1>8. DiskType'
  BY <1>3, <1>4, <1>5, <1>6 DEF DiskType
<1>9. QED
  BY <1>5, <1>6, <1>7, <1>8

LEMMA SameContents ==
  ASSUME StoreType, NEW f \in Files
  PROVE  /\ files' = files => FileBecomes(f, files[f])
         /\ temps' = temps => TempBecomes(f, temps[f])
<1>1. files = [files EXCEPT ![f] = files[f]] /\ temps = [temps EXCEPT ![f] = temps[f]]
  BY DEF StoreType
<1>2. files[f] \in Contents /\ temps[f] \in Contents
  BY DEF StoreType, Contents
<1>3. QED
  BY <1>1, <1>2 DEF FileBecomes, TempBecomes

LEMMA StageCases ==
  ASSUME NEW p \in Callers, NEW f \in Files
  PROVE  /\ WriteRaises(p, f) => StageBecomes(p, f, "none")
         /\ \A s \in StageNames : Stages(p, f, s) => StageBecomes(p, f, s)
         /\ {"none", "old", "create", "write", "copy", "copying", "drop", "move"} = StageNames
BY DEF StageBecomes, StageNames

LEMMA Falling ==
  ASSUME StoreType, NEW p \in Callers, NEW f \in Files, WriteFrame, FallBack(p, f),
         NEW w, TempBecomes(f, w), todo' = todo, dir' = dir
  PROVE  OnlyOwn(p, f) /\ DiskType' /\ Falls(p, f) /\ temps'[f] = w
<1>1. FileBecomes(f, Absent) /\ StageBecomes(p, f, "move")
  BY DEF FallBack, FileBecomes, StageBecomes, Contents, StageNames
<1>2. dir' \in BOOLEAN /\ TodoBecomes(p, f)
  BY DEF StoreType, TodoBecomes
<1>3. OnlyOwn(p, f) /\ DiskType' /\ files'[f] = Absent /\ temps'[f] = w
  BY <1>1, <1>2, WriteOwn
<1>4. QED
  BY <1>3, StageFacts DEF Falls, FallBack

LEMMA StartWriteEffect ==
  ASSUME StoreType, LocalInv, NEW p \in Callers, NEW f \in Files, StartWrite(p, f)
  PROVE  /\ pc[p] = "writing" /\ stage[p][f] = "none" /\ f \in todo[p]
         /\ f \notin todo'[p] /\ dir' = TRUE /\ files'[f] = files[f] /\ temps'[f] = Absent
         /\ Goes(p, f, "old") \/ (Contended(p, f) /\ Raised(p, f))
         /\ OnlyOwn(p, f) /\ DiskType'
<1>1. pc[p] = "writing" /\ f \in todo[p] /\ f \notin todo'[p] /\ dir' = TRUE
  BY DEF StartWrite, StoreType
<1>2. TodoBecomes(p, f) /\ TempBecomes(f, Absent) /\ FileBecomes(f, files[f]) /\ WriteFrame
      /\ (Stages(p, f, "old") \/ (Contended(p, f) /\ WriteRaises(p, f)))
  BY SameContents DEF StartWrite, TodoBecomes, TempBecomes, Contents
<1>3. stage[p][f] = "none"
  BY <1>1 DEF LocalInv, Pending, StoreType
<1>4. \E s : StageBecomes(p, f, s)
  BY <1>2, StageCases
<1>5. OnlyOwn(p, f) /\ DiskType' /\ files'[f] = files[f] /\ temps'[f] = Absent
  BY <1>1, <1>2, <1>4, WriteOwn
<1>6. QED
  BY <1>1, <1>2, <1>3, <1>5, StageFacts

LEMMA DropOldEffect ==
  ASSUME StoreType, LocalInv, NEW p \in Callers, NEW f \in Files, DropOld(p, f)
  PROVE  /\ stage[p][f] = "old" /\ files'[f] = Absent /\ temps' = temps /\ todo' = todo /\ dir' = dir
         /\ Goes(p, f, "create") \/ (Contended(p, f) /\ Raised(p, f))
         /\ OnlyOwn(p, f) /\ DiskType'
<1>1. stage[p][f] = "old" /\ temps' = temps /\ todo' = todo /\ dir' = dir /\ dir' \in BOOLEAN
  BY DEF DropOld, StoreType
<1>2. TodoBecomes(p, f) /\ TempBecomes(f, temps[f]) /\ FileBecomes(f, Absent) /\ WriteFrame
      /\ (Stages(p, f, "create") \/ (Contended(p, f) /\ WriteRaises(p, f)))
  BY SameContents DEF DropOld, TodoBecomes, FileBecomes, Contents
<1>3. \E s : StageBecomes(p, f, s)
  BY <1>2, StageCases
<1>4. OnlyOwn(p, f) /\ DiskType' /\ files'[f] = Absent
  BY <1>1, <1>2, <1>3, WriteOwn
<1>5. QED
  BY <1>1, <1>2, <1>4, StageFacts

LEMMA CreateTempEffect ==
  ASSUME StoreType, LocalInv, NEW p \in Callers, NEW f \in Files, CreateTemp(p, f)
  PROVE  /\ stage[p][f] = "create" /\ files' = files /\ todo' = todo /\ dir' = dir
         /\ \/ /\ dir /\ Goes(p, f, "write")
               /\ \/ temps'[f] = [by |-> mine[p], whole |-> FALSE]
                  \/ /\ temps'[f] = [by |-> 0, whole |-> FALSE]
                     /\ \E q \in Callers \ {p} : stage[q][f] = "write"
            \/ Raised(p, f) /\ temps' = temps
         /\ OnlyOwn(p, f) /\ DiskType'
<1>1. stage[p][f] = "create" /\ files' = files /\ todo' = todo /\ dir' = dir /\ dir' \in BOOLEAN
      /\ TodoBecomes(p, f) /\ FileBecomes(f, files[f]) /\ WriteFrame
  BY SameContents DEF CreateTemp, StoreType, TodoBecomes
<1>2. CASE dir /\ Stages(p, f, "write")
           /\ \E by \in {mine[p]} \cup {0 : q \in {q \in Callers \ {p} : stage[q][f] = "write"}} :
                temps' = [temps EXCEPT ![f] = [by |-> by, whole |-> FALSE]]
  <2>1. PICK by \in {mine[p]} \cup {0 : q \in {q \in Callers \ {p} : stage[q][f] = "write"}} :
               temps' = [temps EXCEPT ![f] = [by |-> by, whole |-> FALSE]]
    BY <1>2
  <2>2. by = mine[p] \/ (by = 0 /\ \E q \in Callers \ {p} : stage[q][f] = "write")
    BY <2>1
  <2>3. by \in 0..MaxBuilds
    BY <2>2, ContentsFacts
  <2>4. [by |-> by, whole |-> FALSE] \in Contents
    BY <2>3, ContentsFacts
  <2>5. TempBecomes(f, [by |-> by, whole |-> FALSE])
    BY <2>1, <2>4 DEF TempBecomes
  <2>6. StageBecomes(p, f, "write") /\ Goes(p, f, "write")
    BY <1>2, StageCases, StageFacts
  <2>7. OnlyOwn(p, f) /\ DiskType' /\ temps'[f] = [by |-> by, whole |-> FALSE]
    BY <1>1, <2>5, <2>6, WriteOwn
  <2>8. QED
    BY <1>1, <1>2, <2>2, <2>6, <2>7
<1>3. CASE WriteRaises(p, f) /\ temps' = temps
  <2>1. StageBecomes(p, f, "none") /\ Raised(p, f) /\ TempBecomes(f, temps[f])
    BY <1>3, StageCases, StageFacts, SameContents
  <2>2. OnlyOwn(p, f) /\ DiskType'
    BY <1>1, <2>1, WriteOwn
  <2>3. QED
    BY <1>1, <1>3, <2>1, <2>2
<1>4. QED
  BY <1>2, <1>3 DEF CreateTemp

LEMMA EndTempEffect ==
  ASSUME StoreType, LocalInv, NEW p \in Callers, NEW f \in Files, EndTemp(p, f)
  PROVE  /\ stage[p][f] = "write" /\ files' = files /\ todo' = todo /\ dir' = dir
         /\ \/ /\ Goes(p, f, "copy") \/ Goes(p, f, "move")
               /\ \/ /\ temps[f] # Absent /\ temps[f].by = mine[p]
                     /\ temps'[f] = [by |-> mine[p], whole |-> TRUE]
                  \/ (temps[f] = Absent \/ temps[f].by # mine[p]) /\ temps'[f] = temps[f]
            \/ Raised(p, f) /\ temps' = temps
         /\ OnlyOwn(p, f) /\ DiskType'
<1>1. stage[p][f] = "write" /\ files' = files /\ todo' = todo /\ dir' = dir /\ dir' \in BOOLEAN
      /\ TodoBecomes(p, f) /\ FileBecomes(f, files[f]) /\ WriteFrame
  BY SameContents DEF EndTemp, StoreType, TodoBecomes
<1>2. CASE /\ temps' = IF temps[f] # Absent /\ temps[f].by = mine[p]
                       THEN [temps EXCEPT ![f] = [by |-> mine[p], whole |-> TRUE]] ELSE temps
           /\ Stages(p, f, "copy") \/ Stages(p, f, "move")
  <2>1. (\E s : StageBecomes(p, f, s)) /\ (Goes(p, f, "copy") \/ Goes(p, f, "move"))
    BY <1>2, StageCases, StageFacts
  <2>2. CASE temps[f] # Absent /\ temps[f].by = mine[p]
    <3>4. [by |-> mine[p], whole |-> TRUE] \in Contents
      BY ContentsFacts
    <3>5. TempBecomes(f, [by |-> mine[p], whole |-> TRUE])
      BY <1>2, <2>2, <3>4 DEF TempBecomes
    <3>6. OnlyOwn(p, f) /\ DiskType' /\ temps'[f] = [by |-> mine[p], whole |-> TRUE]
      BY <1>1, <2>1, <3>5, WriteOwn
    <3>7. QED
      BY <1>1, <2>1, <2>2, <3>6
  <2>3. CASE ~(temps[f] # Absent /\ temps[f].by = mine[p])
    <3>1. TempBecomes(f, temps[f])
      BY <1>2, <2>3, SameContents
    <3>2. OnlyOwn(p, f) /\ DiskType' /\ temps'[f] = temps[f]
      BY <1>1, <2>1, <3>1, WriteOwn
    <3>3. QED
      BY <1>1, <2>1, <2>3, <3>2
  <2>4. QED
    BY <2>2, <2>3
<1>3. CASE WriteRaises(p, f) /\ temps' = temps
  <2>1. StageBecomes(p, f, "none") /\ Raised(p, f) /\ TempBecomes(f, temps[f])
    BY <1>3, StageCases, StageFacts, SameContents
  <2>2. OnlyOwn(p, f) /\ DiskType'
    BY <1>1, <2>1, WriteOwn
  <2>3. QED
    BY <1>1, <1>3, <2>1, <2>2
<1>4. QED
  BY <1>2, <1>3 DEF EndTemp

LEMMA StartCopyEffect ==
  ASSUME StoreType, LocalInv, NEW p \in Callers, NEW f \in Files, StartCopy(p, f)
  PROVE  /\ stage[p][f] = "copy" /\ temps' = temps /\ todo' = todo /\ dir' = dir
         /\ \/ /\ temps[f] # Absent /\ Goes(p, f, "copying")
               /\ files'[f] = [by |-> temps[f].by, whole |-> FALSE]
            \/ temps[f] = Absent /\ Falls(p, f)
         /\ OnlyOwn(p, f) /\ DiskType'
<1>1. stage[p][f] = "copy" /\ temps' = temps /\ todo' = todo /\ dir' = dir /\ dir' \in BOOLEAN
      /\ TodoBecomes(p, f) /\ TempBecomes(f, temps[f]) /\ WriteFrame
  BY SameContents DEF StartCopy, StoreType, TodoBecomes
<1>2. CASE temps[f] # Absent /\ files' = [files EXCEPT ![f] = [by |-> temps[f].by, whole |-> FALSE]]
           /\ Stages(p, f, "copying")
  <2>1. temps[f].by \in 0..MaxBuilds
    BY <1>2, ContentsFacts
  <2>2. [by |-> temps[f].by, whole |-> FALSE] \in Contents
    BY <2>1, ContentsFacts
  <2>3. FileBecomes(f, [by |-> temps[f].by, whole |-> FALSE])
    BY <1>2, <2>2 DEF FileBecomes
  <2>4. StageBecomes(p, f, "copying") /\ Goes(p, f, "copying")
    BY <1>2, StageCases, StageFacts
  <2>5. OnlyOwn(p, f) /\ DiskType' /\ files'[f] = [by |-> temps[f].by, whole |-> FALSE]
    BY <1>1, <2>3, <2>4, WriteOwn
  <2>6. QED
    BY <1>1, <1>2, <2>4, <2>5
<1>3. CASE temps[f] = Absent /\ FallBack(p, f)
  <2>1. OnlyOwn(p, f) /\ DiskType' /\ Falls(p, f)
    BY <1>1, <1>3, Falling
  <2>2. QED
    BY <1>1, <1>3, <2>1
<1>4. QED
  BY <1>2, <1>3 DEF StartCopy

LEMMA EndCopyEffect ==
  ASSUME StoreType, LocalInv, NEW p \in Callers, NEW f \in Files, EndCopy(p, f)
  PROVE  /\ stage[p][f] = "copying" /\ temps' = temps /\ todo' = todo /\ dir' = dir
         /\ \/ Goes(p, f, "drop") /\ CopyIsWhole(p, f) /\ files'[f] = [by |-> temps[f].by, whole |-> TRUE]
            \/ Goes(p, f, "drop") /\ ~CopyIsWhole(p, f) /\ files'[f] = files[f]
            \/ Falls(p, f)
         /\ OnlyOwn(p, f) /\ DiskType'
<1>1. stage[p][f] = "copying" /\ temps' = temps /\ todo' = todo /\ dir' = dir /\ dir' \in BOOLEAN
      /\ TodoBecomes(p, f) /\ TempBecomes(f, temps[f]) /\ WriteFrame
  BY SameContents DEF EndCopy, StoreType, TodoBecomes
<1>2. CASE /\ CopyIsWhole(p, f) /\ files' = [files EXCEPT ![f] = [by |-> temps[f].by, whole |-> TRUE]]
           /\ Stages(p, f, "drop")
  <2>1. files[f] = [by |-> temps[f].by, whole |-> FALSE] /\ temps[f] # Absent
    BY <1>2 DEF CopyIsWhole
  <2>4. temps[f].by \in 0..MaxBuilds
    BY <2>1, ContentsFacts
  <2>5. [by |-> temps[f].by, whole |-> TRUE] \in Contents
    BY <2>4, ContentsFacts
  <2>6. FileBecomes(f, [by |-> temps[f].by, whole |-> TRUE])
    BY <1>2, <2>5 DEF FileBecomes
  <2>7. StageBecomes(p, f, "drop") /\ Goes(p, f, "drop")
    BY <1>2, StageCases, StageFacts
  <2>8. OnlyOwn(p, f) /\ DiskType' /\ files'[f] = [by |-> temps[f].by, whole |-> TRUE]
    BY <1>1, <2>6, <2>7, WriteOwn
  <2>9. QED
    BY <1>1, <1>2, <2>7, <2>8
<1>3. CASE ~CopyIsWhole(p, f) /\ files' = files /\ Stages(p, f, "drop")
  <2>1. StageBecomes(p, f, "drop") /\ Goes(p, f, "drop") /\ FileBecomes(f, files[f])
    BY <1>3, StageCases, StageFacts, SameContents
  <2>2. OnlyOwn(p, f) /\ DiskType'
    BY <1>1, <2>1, WriteOwn
  <2>3. QED
    BY <1>1, <1>3, <2>1, <2>2
<1>4. CASE FallBack(p, f)
  <2>1. OnlyOwn(p, f) /\ DiskType' /\ Falls(p, f)
    BY <1>1, <1>4, Falling
  <2>2. QED
    BY <1>1, <2>1
<1>5. QED
  BY <1>2, <1>3, <1>4 DEF EndCopy

LEMMA DropTempEffect ==
  ASSUME StoreType, LocalInv, NEW p \in Callers, NEW f \in Files, DropTemp(p, f)
  PROVE  /\ stage[p][f] = "drop" /\ todo' = todo /\ dir' = dir
         /\ \/ temps[f] # Absent /\ temps'[f] = Absent /\ files' = files /\ Goes(p, f, "none")
            \/ temps[f] = Absent /\ temps' = temps /\ Falls(p, f)
         /\ OnlyOwn(p, f) /\ DiskType'
<1>1. stage[p][f] = "drop" /\ todo' = todo /\ dir' = dir /\ dir' \in BOOLEAN
      /\ TodoBecomes(p, f) /\ WriteFrame
  BY DEF DropTemp, StoreType, TodoBecomes
<1>2. CASE temps[f] # Absent
  <2>1. files' = files /\ Stages(p, f, "none") /\ TempBecomes(f, Absent)
    BY <1>2 DEF DropTemp, TempBecomes, Contents
  <2>2. FileBecomes(f, files[f]) /\ StageBecomes(p, f, "none") /\ Goes(p, f, "none")
    BY <2>1, SameContents, StageCases, StageFacts
  <2>3. OnlyOwn(p, f) /\ DiskType' /\ temps'[f] = Absent
    BY <1>1, <2>1, <2>2, WriteOwn
  <2>4. QED
    BY <1>1, <1>2, <2>1, <2>2, <2>3
<1>3. CASE temps[f] = Absent
  <2>1. temps' = temps /\ FallBack(p, f)
    BY <1>3 DEF DropTemp
  <2>2. OnlyOwn(p, f) /\ DiskType' /\ Falls(p, f)
    BY <1>1, <2>1, Falling, SameContents
  <2>3. QED
    BY <1>1, <1>3, <2>1, <2>2
<1>4. QED
  BY <1>2, <1>3

LEMMA ReplaceEffect ==
  ASSUME StoreType, LocalInv, NEW p \in Callers, NEW f \in Files, Replace(p, f)
  PROVE  /\ stage[p][f] = "move" /\ todo' = todo /\ dir' = dir
         /\ \/ temps[f] # Absent /\ files'[f] = temps[f] /\ temps'[f] = Absent /\ Goes(p, f, "none")
            \/ temps[f] = Absent /\ temps' = temps /\ files' = files /\ Raised(p, f)
         /\ OnlyOwn(p, f) /\ DiskType'
<1>1. stage[p][f] = "move" /\ todo' = todo /\ dir' = dir /\ dir' \in BOOLEAN
      /\ TodoBecomes(p, f) /\ WriteFrame
  BY DEF Replace, StoreType, TodoBecomes
<1>2. CASE temps[f] # Absent
  <2>1. Stages(p, f, "none") /\ TempBecomes(f, Absent) /\ FileBecomes(f, temps[f])
    BY <1>2, ContentsFacts DEF Replace, TempBecomes, FileBecomes
  <2>2. StageBecomes(p, f, "none") /\ Goes(p, f, "none")
    BY <2>1, StageCases, StageFacts
  <2>3. OnlyOwn(p, f) /\ DiskType' /\ files'[f] = temps[f] /\ temps'[f] = Absent
    BY <1>1, <2>1, <2>2, WriteOwn
  <2>4. QED
    BY <1>1, <1>2, <2>2, <2>3
<1>3. CASE temps[f] = Absent
  <2>1. temps' = temps /\ files' = files /\ WriteRaises(p, f)
    BY <1>3 DEF Replace
  <2>2. FileBecomes(f, files[f]) /\ TempBecomes(f, temps[f]) /\ StageBecomes(p, f, "none") /\ Raised(p, f)
    BY <2>1, SameContents, StageCases, StageFacts
  <2>3. OnlyOwn(p, f) /\ DiskType'
    BY <1>1, <2>2, WriteOwn
  <2>4. QED
    BY <1>1, <1>3, <2>1, <2>2, <2>3
<1>4. QED
  BY <1>2, <1>3

LEMMA WriteEffects ==
  ASSUME StoreType, LocalInv, NEW p \in Callers, NEW f \in Files, WriteStep(p, f)
  PROVE  /\ OnlyOwn(p, f) /\ DiskType' /\ pc[p] = "writing"
         /\ stage'[p][f] # "none" => f \notin todo'[p] /\ (stage[p][f] # "none" \/ f \in todo[p])
         /\ ~dir' => ~dir
         /\ ~dir' /\ temps[f] = Absent /\ files[f] = Absent => temps'[f] = Absent /\ files'[f] = Absent
<1>0. stage[p][f] # "none" => pc[p] = "writing" /\ f \notin todo[p]
  BY DEF LocalInv, Pending
<1>1. CASE StartWrite(p, f)
  <2>1. OnlyOwn(p, f) /\ DiskType' /\ pc[p] = "writing"
    BY <1>0, <1>1, StartWriteEffect
  <2>2. stage'[p][f] # "none" => f \notin todo'[p] /\ (stage[p][f] # "none" \/ f \in todo[p])
    BY <1>0, <1>1, StartWriteEffect
  <2>3. /\ ~dir' => ~dir
        /\ ~dir' /\ temps[f] = Absent /\ files[f] = Absent => temps'[f] = Absent /\ files'[f] = Absent
    BY <1>1, StartWriteEffect
  <2>4. QED
    BY <2>1, <2>2, <2>3
<1>2. CASE DropOld(p, f)
  <2>1. OnlyOwn(p, f) /\ DiskType' /\ pc[p] = "writing"
    BY <1>0, <1>2, DropOldEffect
  <2>2. stage'[p][f] # "none" => f \notin todo'[p] /\ (stage[p][f] # "none" \/ f \in todo[p])
    BY <1>0, <1>2, DropOldEffect
  <2>3. /\ ~dir' => ~dir
        /\ ~dir' /\ temps[f] = Absent /\ files[f] = Absent => temps'[f] = Absent /\ files'[f] = Absent
    BY <1>2, DropOldEffect
  <2>4. QED
    BY <2>1, <2>2, <2>3
<1>3. CASE CreateTemp(p, f)
  <2>1. OnlyOwn(p, f) /\ DiskType' /\ pc[p] = "writing"
    BY <1>0, <1>3, CreateTempEffect
  <2>2. stage'[p][f] # "none" => f \notin todo'[p] /\ (stage[p][f] # "none" \/ f \in todo[p])
    BY <1>0, <1>3, CreateTempEffect
  <2>3. /\ ~dir' => ~dir
        /\ ~dir' /\ temps[f] = Absent /\ files[f] = Absent => temps'[f] = Absent /\ files'[f] = Absent
    <3>1. files' = files /\ dir' = dir /\ (dir \/ temps' = temps)
      BY <1>3, CreateTempEffect
    <3>2. QED
      BY <3>1
  <2>4. QED
    BY <2>1, <2>2, <2>3
<1>4. CASE EndTemp(p, f)
  <2>1. OnlyOwn(p, f) /\ DiskType' /\ pc[p] = "writing"
    BY <1>0, <1>4, EndTempEffect
  <2>2. stage'[p][f] # "none" => f \notin todo'[p] /\ (stage[p][f] # "none" \/ f \in todo[p])
    BY <1>0, <1>4, EndTempEffect
  <2>3. /\ ~dir' => ~dir
        /\ ~dir' /\ temps[f] = Absent /\ files[f] = Absent => temps'[f] = Absent /\ files'[f] = Absent
    BY <1>4, EndTempEffect
  <2>4. QED
    BY <2>1, <2>2, <2>3
<1>5. CASE StartCopy(p, f)
  <2>1. OnlyOwn(p, f) /\ DiskType' /\ pc[p] = "writing"
    BY <1>0, <1>5, StartCopyEffect
  <2>2. stage'[p][f] # "none" => f \notin todo'[p] /\ (stage[p][f] # "none" \/ f \in todo[p])
    BY <1>0, <1>5, StartCopyEffect
  <2>3. /\ ~dir' => ~dir
        /\ ~dir' /\ temps[f] = Absent /\ files[f] = Absent => temps'[f] = Absent /\ files'[f] = Absent
    BY <1>5, StartCopyEffect DEF Falls
  <2>4. QED
    BY <2>1, <2>2, <2>3
<1>6. CASE EndCopy(p, f)
  <2>1. OnlyOwn(p, f) /\ DiskType' /\ pc[p] = "writing"
    BY <1>0, <1>6, EndCopyEffect
  <2>2. stage'[p][f] # "none" => f \notin todo'[p] /\ (stage[p][f] # "none" \/ f \in todo[p])
    BY <1>0, <1>6, EndCopyEffect
  <2>3. /\ ~dir' => ~dir
        /\ ~dir' /\ temps[f] = Absent /\ files[f] = Absent => temps'[f] = Absent /\ files'[f] = Absent
    BY <1>6, EndCopyEffect DEF Falls, CopyIsWhole
  <2>4. QED
    BY <2>1, <2>2, <2>3
<1>7. CASE DropTemp(p, f)
  <2>1. OnlyOwn(p, f) /\ DiskType' /\ pc[p] = "writing"
    BY <1>0, <1>7, DropTempEffect
  <2>2. stage'[p][f] # "none" => f \notin todo'[p] /\ (stage[p][f] # "none" \/ f \in todo[p])
    BY <1>0, <1>7, DropTempEffect
  <2>3. /\ ~dir' => ~dir
        /\ ~dir' /\ temps[f] = Absent /\ files[f] = Absent => temps'[f] = Absent /\ files'[f] = Absent
    BY <1>7, DropTempEffect DEF Falls
  <2>4. QED
    BY <2>1, <2>2, <2>3
<1>8. CASE Replace(p, f)
  <2>1. OnlyOwn(p, f) /\ DiskType' /\ pc[p] = "writing"
    BY <1>0, <1>8, ReplaceEffect
  <2>2. stage'[p][f] # "none" => f \notin todo'[p] /\ (stage[p][f] # "none" \/ f \in todo[p])
    BY <1>0, <1>8, ReplaceEffect
  <2>3. /\ ~dir' => ~dir
        /\ ~dir' /\ temps[f] = Absent /\ files[f] = Absent => temps'[f] = Absent /\ files'[f] = Absent
    BY <1>8, ReplaceEffect
  <2>4. QED
    BY <2>1, <2>2, <2>3
<1>9. QED
  BY <1>1, <1>2, <1>3, <1>4, <1>5, <1>6, <1>7, <1>8 DEF WriteStep

(* A call that raises or dies keeps nothing.                               *)
LEMMA LeaveEffect ==
  ASSUME StoreType, NEW p \in Callers, NEW point \in Points, Leave(p, point)
  PROVE  /\ pc' \in [Callers -> Points] /\ lists' \in [Callers -> SUBSET Files]
         /\ todo' \in [Callers -> SUBSET Files] /\ stage' \in [Callers -> [Files -> StageNames]]
         /\ failed' \in [Callers -> BOOLEAN] /\ read' \in [Callers -> SUBSET (0..MaxBuilds)]
         /\ mishap' = TRUE /\ mine' = mine
         /\ pc'[p] = point /\ lists'[p] = {} /\ todo'[p] = {} /\ failed'[p] = FALSE /\ read'[p] = {}
         /\ \A f \in Files : stage'[p][f] = "none"
         /\ \A q \in Callers \ {p} :
              /\ pc'[q] = pc[q] /\ lists'[q] = lists[q] /\ todo'[q] = todo[q]
              /\ stage'[q] = stage[q] /\ failed'[q] = failed[q] /\ read'[q] = read[q]
<1>1. [f \in Files |-> "none"] \in [Files -> StageNames]
  BY DEF StageNames
<1>2. QED
  BY <1>1 DEF Leave, Goto, StoreType

PointNames == Points = {"idle", "building", "clearing", "making", "writing", "naming", "saved",
                        "opening", "loading", "served", "raised"}

LEMMA TypeNext ==
  ASSUME StoreType, LocalInv, [Next]_vars
  PROVE  StoreType'
<1>0. PointNames /\ "raised" \in Points /\ "idle" \in Points /\ Builds \subseteq 0..MaxBuilds
      /\ built \in 0..MaxBuilds /\ MaxBuilds \in Nat
  BY StoreAssumption DEF PointNames, Points, Builds, StoreType
<1>1. ASSUME NEW p \in Callers, Call(p)
      PROVE  StoreType'
  <2>1. built' \in 0..MaxBuilds /\ mine' \in [Callers -> 0..MaxBuilds]
    <3>1. CASE UNCHANGED <<built, mine>>
      BY <3>1 DEF StoreType
    <3>2. CASE built < MaxBuilds /\ built' = built + 1 /\ mine' = [mine EXCEPT ![p] = built + 1]
      BY <1>0, <3>2 DEF StoreType
    <3>3. QED
      BY <1>1, <3>1, <3>2 DEF Call
  <2>2. pc' \in [Callers -> Points]
    BY <1>1 DEF Call, Goto, StoreType, Points
  <2>3. QED
    BY <1>1, <2>1, <2>2 DEF Call, StoreType, disk
<1>2. ASSUME NEW p \in Callers, Build(p)
      PROVE  StoreType'
  <2>1. CASE Raise(p)
    BY <1>0, <1>2, <2>1, LeaveEffect DEF Build, Raise, StoreType, disk
  <2>2. CASE /\ \E assets \in AssetSets : /\ lists' = [lists EXCEPT ![p] = assets]
                                          /\ todo' = [todo EXCEPT ![p] = assets]
             /\ Goto(p, AfterBuild)
             /\ UNCHANGED <<mine, stage, failed, read, mishap>>
    <3>1. lists' \in [Callers -> SUBSET Files] /\ todo' \in [Callers -> SUBSET Files]
      BY <2>2, FilesOfAssets DEF StoreType
    <3>2. pc' \in [Callers -> Points]
      BY <2>2 DEF Goto, AfterBuild, StoreType, Points
    <3>3. QED
      BY <1>2, <2>2, <3>1, <3>2 DEF Build, StoreType, disk
  <2>3. QED
    BY <1>2, <2>1, <2>2 DEF Build
<1>3. ASSUME NEW p \in Callers, NEW f \in Files, Unlink(p, f)
      PROVE  StoreType'
  BY <1>3 DEF Unlink, StoreType, local
<1>4. ASSUME NEW p \in Callers, Rmdir(p)
      PROVE  StoreType'
  BY <1>4 DEF Rmdir, StoreType, local, Goto, Points
<1>5. ASSUME NEW p \in Callers, RmtreeRaises(p)
      PROVE  StoreType'
  BY <1>0, <1>5, LeaveEffect DEF RmtreeRaises, Raise, StoreType, disk
<1>6. ASSUME NEW p \in Callers, MakeDirs(p)
      PROVE  StoreType'
  BY <1>6 DEF MakeDirs, StoreType, local, Goto, Points
<1>7. ASSUME NEW p \in Callers, NEW f \in Files, WriteStep(p, f)
      PROVE  StoreType'
  <2>1. OnlyOwn(p, f) /\ DiskType'
    BY <1>7, WriteEffects
  <2>2. QED
    BY <2>1 DEF StoreType, OnlyOwn, DiskType, Contents
<1>8. ASSUME NEW p \in Callers, CancelWrites(p)
      PROVE  StoreType'
  BY <1>8 DEF CancelWrites, StoreType, disk
<1>9. ASSUME NEW p \in Callers, OpenItem(p)
      PROVE  StoreType'
  <2>1. CASE Raise(p) /\ UNCHANGED item
    BY <1>0, <1>9, <2>1, LeaveEffect DEF OpenItem, Raise, StoreType
  <2>2. CASE Goto(p, "naming") /\ item' = Torn /\ UNCHANGED <<local, mishap>>
    BY <1>9, <2>2 DEF OpenItem, StoreType, local, Goto, Points
  <2>3. QED
    BY <1>9, <2>1, <2>2 DEF OpenItem
<1>10. ASSUME NEW p \in Callers, WriteItem(p)
      PROVE  StoreType'
  <2>1. item' \in Items \cup {Absent, Torn}
    <3>1. mine[p] \in Builds /\ lists[p] \in AssetSets
      BY <1>10, StoreAssumption DEF WriteItem, LocalInv, OwnBuild, Pending, Rebuilding, Saving, StoreType, Builds
    <3>2. QED
      BY <1>10, <3>1 DEF WriteItem, Items
  <2>2. QED
    BY <1>10, <2>1 DEF WriteItem, StoreType, local, Goto, Points
<1>11. ASSUME NEW p \in Callers, ReadItem(p)
      PROVE  StoreType'
  <2>1. CASE Raise(p)
    BY <1>0, <1>11, <2>1, LeaveEffect DEF ReadItem, Raise, StoreType, disk
  <2>2. CASE item \in Items /\ ~Raise(p)
    <3>1. item.lists \subseteq Files
      BY <2>2, FilesOfAssets DEF Items
    <3>2. /\ lists' = [lists EXCEPT ![p] = item.lists] /\ todo' = [todo EXCEPT ![p] = item.lists]
          /\ Goto(p, "loading") /\ UNCHANGED <<mine, stage, failed, read, mishap>>
      BY <1>11, <2>2 DEF ReadItem
    <3>3. QED
      BY <1>11, <3>1, <3>2 DEF ReadItem, StoreType, disk, Goto, Points
  <2>3. QED
    BY <1>11, <2>1, <2>2 DEF ReadItem
<1>12. ASSUME NEW p \in Callers, NEW f \in Files, ReadAsset(p, f)
      PROVE  StoreType'
  <2>1. CASE Raise(p)
    BY <1>0, <1>12, <2>1, LeaveEffect DEF ReadAsset, Raise, StoreType, disk
  <2>2. CASE /\ files[f] # Absent /\ todo' = [todo EXCEPT ![p] = @ \ {f}]
             /\ read' = [read EXCEPT ![p] = @ \cup {files[f].by}]
             /\ UNCHANGED <<pc, mine, lists, stage, failed, mishap>>
    <3>1. files[f] \in Contents \ {Absent}
      BY <2>2, ContentsFacts
    <3>2. files[f].by \in 0..MaxBuilds
      BY <3>1, ContentsFacts
    <3>3. QED
      BY <1>12, <2>2, <3>2 DEF ReadAsset, StoreType, disk
  <2>3. QED
    BY <1>12, <2>1, <2>2 DEF ReadAsset
<1>13. ASSUME NEW p \in Callers, Serve(p)
      PROVE  StoreType'
  BY <1>13 DEF Serve, StoreType, disk, local, Goto, Points
<1>14. ASSUME NEW p \in Callers, Crash(p)
      PROVE  StoreType'
  BY <1>0, <1>14, LeaveEffect DEF Crash, StoreType, disk
<1>15. CASE UNCHANGED vars
  BY <1>15 DEF vars, disk, local, StoreType
<1>16. QED
  BY <1>1, <1>2, <1>3, <1>4, <1>5, <1>6, <1>7, <1>8, <1>9, <1>10, <1>11, <1>12, <1>13, <1>14, <1>15 DEF Next, Step, Exhausted

(* A caller's step leaves the others' locals as they were.                 *)
Keeps(q) == /\ pc'[q] = pc[q] /\ mine'[q] = mine[q] /\ lists'[q] = lists[q] /\ todo'[q] = todo[q]
            /\ failed'[q] = failed[q] /\ read'[q] = read[q]
            /\ \A f \in Files : stage'[q][f] = stage[q][f]

LEMMA OthersKeep ==
  ASSUME StoreType, LocalInv, NEW p \in Callers, Call(p) \/ Step(p) \/ Crash(p), NEW q \in Callers \ {p}
  PROVE  Keeps(q)
<1>0. "raised" \in Points /\ "idle" \in Points
  BY DEF Points
<1>14. ASSUME NEW point \in Points, Leave(p, point)
       PROVE  Keeps(q)
  <2>1. mine' = mine /\ pc'[q] = pc[q] /\ lists'[q] = lists[q] /\ todo'[q] = todo[q]
        /\ stage'[q] = stage[q] /\ failed'[q] = failed[q] /\ read'[q] = read[q]
    BY <1>14, LeaveEffect
  <2>2. QED
    BY ONLY <2>1 DEF Keeps
<1>1. CASE Call(p)
  <2>1. pc'[q] = pc[q] /\ mine'[q] = mine[q]
    BY <1>1 DEF Call, Goto, StoreType
  <2>2. /\ lists' = [lists EXCEPT ![p] = {}] /\ failed' = [failed EXCEPT ![p] = FALSE]
        /\ read' = [read EXCEPT ![p] = {}] /\ UNCHANGED <<todo, stage>>
    BY <1>1 DEF Call
  <2>3. lists'[q] = lists[q] /\ failed'[q] = failed[q] /\ read'[q] = read[q]
    BY <2>2 DEF StoreType
  <2>4. todo' = todo /\ stage' = stage
    BY <2>2
  <2>5. QED
    BY ONLY <2>1, <2>3, <2>4 DEF Keeps
<1>2. CASE Raise(p)
  BY <1>0, <1>2, <1>14 DEF Raise
<1>3. CASE Build(p) /\ ~Raise(p)
  BY <1>3 DEF Build, Keeps, Goto, StoreType
<1>4. CASE \E f \in Files : Unlink(p, f)
  BY <1>4 DEF Unlink, Keeps, local
<1>5. CASE Rmdir(p) \/ MakeDirs(p) \/ WriteItem(p) \/ Serve(p)
  BY <1>5 DEF Rmdir, MakeDirs, WriteItem, Serve, Keeps, local, Goto, StoreType
<1>6. ASSUME NEW f \in Files, WriteStep(p, f)
      PROVE  Keeps(q)
  BY <1>6, WriteEffects DEF OnlyOwn, Keeps
<1>7. CASE CancelWrites(p)
  BY <1>7 DEF CancelWrites, Keeps, StoreType
<1>8. CASE OpenItem(p) /\ ~Raise(p)
  BY <1>8 DEF OpenItem, Keeps, Goto, local, StoreType
<1>9. CASE ReadItem(p) /\ ~Raise(p)
  BY <1>9 DEF ReadItem, Keeps, Goto, StoreType
<1>10. ASSUME NEW f \in Files, ReadAsset(p, f), ~Raise(p)
       PROVE  Keeps(q)
  <2>1. /\ todo' = [todo EXCEPT ![p] = @ \ {f}] /\ read' = [read EXCEPT ![p] = @ \cup {files[f].by}]
        /\ UNCHANGED <<pc, mine, lists, stage, failed>>
    BY <1>10 DEF ReadAsset
  <2>2. todo'[q] = todo[q] /\ read'[q] = read[q]
    BY <2>1 DEF StoreType
  <2>3. pc' = pc /\ mine' = mine /\ lists' = lists /\ stage' = stage /\ failed' = failed
    BY <2>1
  <2>4. QED
    BY ONLY <2>2, <2>3 DEF Keeps
<1>11. CASE Crash(p)
  BY <1>0, <1>11, <1>14 DEF Crash
<1>12. CASE RmtreeRaises(p)
  BY <1>2, <1>12 DEF RmtreeRaises
<1>13. QED
  BY <1>1, <1>2, <1>3, <1>4, <1>5, <1>6, <1>7, <1>8, <1>9, <1>10, <1>11, <1>12 DEF Step

LEMMA KeepsPending ==
  ASSUME NEW q \in Callers, Keeps(q), OwnBuild(q), Pending(q)
  PROVE  OwnBuild(q)' /\ Pending(q)'
BY DEF Keeps, OwnBuild, Pending

(* What the caller itself does to its own locals.                          *)
LEMMA OwnPending ==
  ASSUME StoreType, LocalInv, NEW p \in Callers, Call(p) \/ Step(p) \/ Crash(p)
  PROVE  OwnBuild(p)' /\ Pending(p)'
<1>0. /\ "raised" \in Points /\ "idle" \in Points /\ OwnBuild(p) /\ Pending(p)
      /\ "raised" \notin Saving /\ "idle" \notin Saving /\ "raised" \notin Rebuilding /\ "idle" \notin Rebuilding
  BY DEF Points, LocalInv, Saving, Rebuilding
<1>1. CASE Call(p)
  <2>1. /\ pc'[p] = "building" \/ (pc'[p] = "opening" /\ mine' = mine)
        /\ stage' = stage /\ todo' = todo /\ read'[p] = {} /\ failed'[p] = FALSE
        /\ pc'[p] = "building" => mine'[p] = built + 1
    BY <1>1 DEF Call, Goto, StoreType
  <2>2. todo[p] = {} /\ \A f \in Files : stage[p][f] = "none"
    BY <1>0, <1>1 DEF Call, Idle, Pending
  <2>3. built + 1 # 0
    BY StoreAssumption DEF StoreType
  <2>4. QED
    BY <2>1, <2>2, <2>3 DEF OwnBuild, Pending, Rebuilding, Saving
<1>2. CASE Raise(p)
  BY <1>0, <1>2, LeaveEffect DEF Raise, OwnBuild, Pending, Saving, Rebuilding
<1>3. CASE Build(p) /\ ~Raise(p)
  <2>1. PICK assets \in AssetSets : /\ lists' = [lists EXCEPT ![p] = assets]
                                    /\ todo' = [todo EXCEPT ![p] = assets]
    BY <1>3 DEF Build
  <2>2. /\ pc[p] = "building" /\ pc'[p] \in {"clearing", "making"}
        /\ mine' = mine /\ stage' = stage /\ failed' = failed /\ read' = read
    BY <1>3 DEF Build, Goto, AfterBuild, StoreType
  <2>3. lists'[p] = assets /\ todo'[p] = assets
    BY <2>1 DEF StoreType
  <2>4. QED
    BY <1>0, <2>2, <2>3 DEF OwnBuild, Pending, Rebuilding, Saving
<1>4. CASE \E f \in Files : Unlink(p, f)
  BY <1>0, <1>4 DEF Unlink, local, OwnBuild, Pending
<1>5. CASE Rmdir(p) \/ MakeDirs(p) \/ WriteItem(p) \/ Serve(p)
  <2>1. UNCHANGED local
    BY <1>5 DEF Rmdir, MakeDirs, WriteItem, Serve
  <2>2. \/ pc[p] = "clearing" /\ pc'[p] = "making"
        \/ pc[p] = "making" /\ pc'[p] = "writing"
        \/ pc[p] = "naming" /\ pc'[p] = "saved"
        \/ pc[p] = "loading" /\ pc'[p] = "served" /\ todo[p] = {}
    BY <1>5 DEF Rmdir, MakeDirs, WriteItem, Serve, Goto, StoreType
  <2>3. pc[p] = "loading" /\ todo[p] = {} => read[p] # {}
    BY <1>0, FilesOfAssets DEF Pending, Saving
  <2>4. QED
    BY <1>0, <2>1, <2>2, <2>3 DEF local, OwnBuild, Pending, Rebuilding, Saving
<1>6. ASSUME NEW f \in Files, WriteStep(p, f)
      PROVE  OwnBuild(p)' /\ Pending(p)'
  <2>1. OnlyOwn(p, f) /\ pc[p] = "writing"
        /\ (stage'[p][f] # "none" => f \notin todo'[p] /\ (stage[p][f] # "none" \/ f \in todo[p]))
    BY <1>6, WriteEffects
  <2>2. pc' = pc /\ mine' = mine /\ lists' = lists /\ read' = read /\ todo'[p] \subseteq todo[p]
        /\ \A g \in Files \ {f} : stage'[p][g] = stage[p][g] /\ (g \in todo'[p] <=> g \in todo[p])
    BY <2>1 DEF OnlyOwn
  <2>3. \A g \in Files : stage'[p][g] # "none" => g \in lists'[p] /\ g \notin todo'[p]
    BY <1>0, <2>1, <2>2 DEF Pending, Saving, Rebuilding
  <2>4. QED
    BY <1>0, <2>1, <2>2, <2>3 DEF OwnBuild, Pending, Rebuilding, Saving
<1>7. CASE CancelWrites(p)
  <2>1. pc[p] = "writing" /\ pc' = pc /\ todo'[p] = {} /\ UNCHANGED <<mine, lists, stage, failed, read>>
    BY <1>7 DEF CancelWrites, StoreType
  <2>2. QED
    BY <1>0, <2>1 DEF OwnBuild, Pending, Rebuilding, Saving
<1>8. CASE OpenItem(p) /\ ~Raise(p)
  <2>1. /\ pc[p] = "writing" /\ pc'[p] = "naming" /\ ~failed[p] /\ UNCHANGED local
        /\ todo[p] = {} /\ \A f \in Files : stage[p][f] = "none"
    BY <1>8 DEF OpenItem, PoolDrained, Open, Goto, StoreType
  <2>2. QED
    BY <1>0, <2>1 DEF local, OwnBuild, Pending, Rebuilding, Saving
<1>9. CASE ReadItem(p) /\ ~Raise(p)
  <2>1. /\ pc[p] = "opening" /\ pc'[p] = "loading" /\ item \in Items
        /\ lists'[p] = item.lists /\ todo'[p] = item.lists /\ UNCHANGED <<mine, stage, failed, read>>
    BY <1>9 DEF ReadItem, Goto, StoreType
  <2>2. item.lists \in AssetSets
    BY <2>1 DEF Items
  <2>3. QED
    BY <1>0, <2>1, <2>2 DEF OwnBuild, Pending, Rebuilding, Saving
<1>10. ASSUME NEW f \in Files, ReadAsset(p, f), ~Raise(p)
       PROVE  OwnBuild(p)' /\ Pending(p)'
  <2>1. /\ pc[p] = "loading" /\ pc' = pc /\ UNCHANGED <<mine, lists, stage, failed>>
        /\ todo'[p] = todo[p] \ {f} /\ files[f].by \in read'[p]
    BY <1>10 DEF ReadAsset, StoreType
  <2>2. QED
    BY <1>0, <2>1 DEF OwnBuild, Pending, Rebuilding, Saving
<1>11. CASE Crash(p)
  BY <1>0, <1>11, LeaveEffect DEF Crash, OwnBuild, Pending, Saving, Rebuilding
<1>12. CASE RmtreeRaises(p)
  BY <1>2, <1>12 DEF RmtreeRaises
<1>13. QED
  BY <1>1, <1>2, <1>3, <1>4, <1>5, <1>6, <1>7, <1>8, <1>9, <1>10, <1>11, <1>12 DEF Step

LEMMA NoDirNext ==
  ASSUME StoreType, LocalInv, NEW p \in Callers, Call(p) \/ Step(p) \/ Crash(p)
  PROVE  NoDirNoFiles'
<1> SUFFICES ASSUME ~dir', NEW g \in Files PROVE files'[g] = Absent /\ temps'[g] = Absent
  BY DEF NoDirNoFiles, Cleared
<1>0. NoDirNoFiles
  BY DEF LocalInv
<1>1. CASE UNCHANGED <<dir, files, temps>>
  BY <1>0, <1>1 DEF NoDirNoFiles, Cleared
<1>2. ASSUME NEW f \in Files, Unlink(p, f)
      PROVE  files'[g] = Absent /\ temps'[g] = Absent
  BY <1>0, <1>2 DEF Unlink, NoDirNoFiles, Cleared, StoreType
<1>3. CASE Rmdir(p)
  BY <1>3 DEF Rmdir, Cleared
<1>4. CASE MakeDirs(p)
  BY <1>4 DEF MakeDirs
<1>5. ASSUME NEW f \in Files, WriteStep(p, f)
      PROVE  files'[g] = Absent /\ temps'[g] = Absent
  <2>1. OnlyOwn(p, f) /\ ~dir
        /\ (temps[f] = Absent /\ files[f] = Absent => temps'[f] = Absent /\ files'[f] = Absent)
    BY <1>5, WriteEffects
  <2>2. files[f] = Absent /\ temps[f] = Absent /\ files[g] = Absent /\ temps[g] = Absent
    BY <1>0, <2>1 DEF NoDirNoFiles, Cleared
  <2>3. QED
    BY <2>1, <2>2 DEF OnlyOwn
<1>6. CASE Call(p) \/ Build(p) \/ RmtreeRaises(p) \/ CancelWrites(p) \/ OpenItem(p) \/ WriteItem(p)
           \/ ReadItem(p) \/ (\E f \in Files : ReadAsset(p, f)) \/ Serve(p) \/ Crash(p)
  BY <1>1, <1>6 DEF Call, Build, RmtreeRaises, CancelWrites, OpenItem, WriteItem, ReadItem, ReadAsset,
     Serve, Crash, disk
<1>7. QED
  BY <1>2, <1>3, <1>4, <1>5, <1>6 DEF Step

LEMMA LocalNext ==
  ASSUME StoreType, LocalInv, [Next]_vars
  PROVE  LocalInv'
<1>1. ASSUME NEW p \in Callers, Call(p) \/ Step(p) \/ Crash(p)
      PROVE  LocalInv'
  <2>1. ASSUME NEW q \in Callers PROVE OwnBuild(q)' /\ Pending(q)'
    <3>1. OwnBuild(q) /\ Pending(q)
      BY DEF LocalInv
    <3>2. CASE q = p
      BY <1>1, <3>2, OwnPending
    <3>3. CASE q # p
      BY <1>1, <3>1, <3>3, OthersKeep, KeepsPending
    <3>4. QED
      BY <3>2, <3>3
  <2>2. NoDirNoFiles'
    BY <1>1, NoDirNext
  <2>3. QED
    BY <2>1, <2>2 DEF LocalInv
<1>2. CASE UNCHANGED vars
  BY <1>2 DEF vars, disk, local, LocalInv, OwnBuild, Pending, NoDirNoFiles, Cleared
<1>3. QED
  BY <1>1, <1>2 DEF Next, Exhausted

-----------------------------------------------------------------------------
(* Who has built keeps a build, so who is alone has been alone.            *)
LEMMA OwnMine ==
  ASSUME StoreType, LocalInv, NEW p \in Callers, Call(p) \/ Step(p) \/ Crash(p)
  PROVE  mine' = mine \/ (Call(p) /\ pc'[p] = "building" /\ mine'[p] # 0)
<1>0. built + 1 # 0
  BY StoreAssumption DEF StoreType
<1>1. CASE Call(p)
  BY <1>0, <1>1 DEF Call, Goto, StoreType
<1>2. ASSUME NEW f \in Files, WriteStep(p, f)
      PROVE  mine' = mine
  BY <1>2, WriteEffects DEF OnlyOwn
<1>3. CASE Step(p) \/ Crash(p)
  BY <1>2, <1>3 DEF Step, Build, Unlink, Rmdir, RmtreeRaises, MakeDirs, CancelWrites, OpenItem, WriteItem,
     ReadItem, ReadAsset, Serve, Crash, Raise, Leave, local
<1>4. QED
  BY <1>1, <1>3

LEMMA AloneBefore ==
  ASSUME StoreType, LocalInv, NEW p \in Callers, Call(p) \/ Step(p) \/ Crash(p)
  PROVE  \A r \in Callers : Alone(r)' => Alone(r)
<1>1. \A q \in Callers : mine[q] # 0 => mine'[q] # 0
  BY OwnMine, OthersKeep DEF Keeps
<1>2. QED
  BY <1>1 DEF Alone

(* A caller next to one who is alone only loads: it leaves the disk as it  *)
(* was.                                                                    *)
LEMMA OthersOnlyLoad ==
  ASSUME StoreType, LocalInv, NEW p \in Callers, Call(p) \/ Step(p) \/ Crash(p),
         NEW r \in Callers \ {p}, Alone(r)'
  PROVE  UNCHANGED disk
<1>1. mine[p] = 0 /\ mine'[p] = 0
  BY AloneBefore DEF Alone
<1>2. pc[p] \notin Rebuilding
  BY <1>1 DEF LocalInv, OwnBuild
<1>3. \A f \in Files : ~WriteStep(p, f)
  BY <1>2, WriteEffects DEF Rebuilding
<1>4. CASE Call(p) \/ Crash(p)
  BY <1>4 DEF Call, Crash
<1>5. CASE Step(p)
  BY <1>2, <1>3, <1>5 DEF Step, Rebuilding, Build, Unlink, Rmdir, RmtreeRaises, MakeDirs, CancelWrites, OpenItem,
     WriteItem, ReadItem, ReadAsset, Serve
<1>6. QED
  BY <1>4, <1>5

LEMMA AloneOther ==
  ASSUME StoreType, LocalInv, NEW p \in Callers, Call(p) \/ Step(p) \/ Crash(p),
         NEW r \in Callers \ {p}, AloneInv(r)
  PROVE  AloneInv(r)'
<1>1. SUFFICES ASSUME Alone(r)' PROVE AloneInv(r)'
  BY DEF AloneInv
<1>2. Alone(r)
  BY <1>1, AloneBefore
<1>3. files' = files /\ temps' = temps /\ item' = item /\ Keeps(r)
  BY <1>1, OthersOnlyLoad, OthersKeep DEF disk
<1>4. WritingAlone(r) => WritingAlone(r)'
  BY <1>3 DEF Keeps, WritingAlone, FileAlone
<1>5. OneBuild' = OneBuild /\ Cleared' = Cleared /\ SavedAlone(r)' = SavedAlone(r)
      /\ ReadAlone(r)' = ReadAlone(r)
  BY <1>3 DEF Keeps, OneBuild, SavedAlone, ReadAlone, Present, Whole, Cleared
<1>6. QED
  BY <1>1, <1>2, <1>3, <1>4, <1>5 DEF Keeps, AloneInv, Present

(* Nobody is at work next to a caller who is alone.                        *)
LEMMA AloneQuiet ==
  ASSUME StoreType, LocalInv, NEW p \in Callers, Alone(p), NEW f \in Files
  PROVE  /\ ~Contended(p, f)
         /\ \A q \in Callers \ {p} : stage[q][f] = "none"
<1>1. ASSUME NEW q \in Callers \ {p} PROVE pc[q] # "clearing" /\ stage[q][f] = "none"
  BY DEF Alone, LocalInv, OwnBuild, Pending, Rebuilding
<1>2. QED
  BY <1>1 DEF Contended

LEMMA OtherFileAlone ==
  ASSUME NEW p \in Callers, NEW f \in Files, OnlyOwn(p, f), NEW g \in Files \ {f}, FileAlone(p, g)
  PROVE  FileAlone(p, g)'
BY DEF OnlyOwn, FileAlone

LEMMA WritingAloneNext ==
  ASSUME StoreType, LocalInv, NEW p \in Callers, NEW f \in Files, WriteStep(p, f), Alone(p), WritingAlone(p)
  PROVE  WritingAlone(p)'
<1>0. FileAlone(p, f) /\ ~Contended(p, f) /\ OnlyOwn(p, f) /\ mine[p] \in Builds
      /\ \A q \in Callers \ {p} : stage[q][f] = "none"
  BY AloneQuiet, WriteEffects, StoreAssumption DEF WritingAlone, LocalInv, OwnBuild, Rebuilding, StoreType, Builds
<1>1. /\ [by |-> mine[p], whole |-> TRUE] # Absent /\ [by |-> mine[p], whole |-> FALSE] # Absent
      /\ [by |-> mine[p], whole |-> TRUE].by = mine[p] /\ [by |-> mine[p], whole |-> FALSE].by = mine[p]
      /\ [by |-> mine[p], whole |-> TRUE].whole = TRUE
  <2>1. mine[p] \in 0..MaxBuilds
    BY DEF StoreType
  <2>2. QED
    BY <2>1, WrittenIsPresent
<1>2. mine'[p] = mine[p] /\ lists'[p] = lists[p] /\ (failed[p] => failed'[p])
  BY <1>0 DEF OnlyOwn
<1>3. stage[p][f] # "none" => f \in lists[p] /\ f \notin todo[p]
  BY DEF LocalInv, Pending
<1>5. FileAlone(p, f)'
  <2>1. CASE StartWrite(p, f)
    <3>1. /\ f \in todo[p] /\ f \notin todo'[p] /\ files'[f] = files[f] /\ temps'[f] = Absent
          /\ stage'[p][f] = "old"
      BY <1>0, <2>1, StartWriteEffect DEF Goes
    <3>2. files[f] = Absent
      BY <1>0, <3>1 DEF FileAlone
    <3>3. QED
      BY ONLY <1>2, <3>1, <3>2 DEF FileAlone
  <2>2. CASE DropOld(p, f)
    <3>1. /\ stage[p][f] = "old" /\ files'[f] = Absent /\ temps'[f] = temps[f] /\ todo' = todo
          /\ stage'[p][f] = "create"
      BY <1>0, <2>2, DropOldEffect DEF Goes
    <3>2. temps[f] = Absent
      BY <1>0, <3>1 DEF FileAlone
    <3>3. QED
      BY ONLY <1>2, <3>1, <3>2 DEF FileAlone
  <2>3. CASE CreateTemp(p, f)
    <3>1. /\ stage[p][f] = "create" /\ files' = files /\ todo' = todo
          /\ \/ stage'[p][f] = "write" /\ temps'[f] = [by |-> mine[p], whole |-> FALSE]
             \/ stage'[p][f] = "none" /\ temps' = temps /\ failed'[p] = TRUE
      BY <1>0, <2>3, CreateTempEffect DEF Goes, Raised
    <3>2. files[f] = Absent /\ temps[f] = Absent
      BY <1>0, <3>1 DEF FileAlone
    <3>3. f \in lists[p] /\ f \notin todo[p]
      BY <1>3, <3>1
    <3>4. QED
      BY ONLY <1>2, <3>1, <3>2, <3>3 DEF FileAlone
  <2>4. CASE EndTemp(p, f)
    <3>1. stage[p][f] = "write" /\ files' = files /\ todo' = todo
      BY <2>4, EndTempEffect
    <3>2. files[f] = Absent /\ temps[f] = [by |-> mine[p], whole |-> FALSE]
          /\ temps[f] # Absent /\ temps[f].by = mine[p]
      BY <1>0, <1>1, <3>1 DEF FileAlone
    <3>3. \/ stage'[p][f] \in {"copy", "move"} /\ temps'[f] = [by |-> mine[p], whole |-> TRUE]
          \/ stage'[p][f] = "none" /\ temps' = temps /\ failed'[p] = TRUE
      BY <1>1, <2>4, <3>2, EndTempEffect DEF Goes, Raised
    <3>4. f \in lists[p] /\ f \notin todo[p]
      BY <1>3, <3>1
    <3>5. QED
      BY ONLY <1>2, <3>1, <3>2, <3>3, <3>4 DEF FileAlone
  <2>5. CASE StartCopy(p, f)
    <3>1. stage[p][f] = "copy" /\ temps' = temps /\ todo' = todo
      BY <2>5, StartCopyEffect
    <3>2. temps[f] = [by |-> mine[p], whole |-> TRUE] /\ temps[f] # Absent /\ temps[f].by = mine[p]
      BY <1>0, <1>1, <3>1 DEF FileAlone
    <3>3. stage'[p][f] = "copying" /\ files'[f] = [by |-> mine[p], whole |-> FALSE]
      BY <2>5, <3>2, StartCopyEffect DEF Goes
    <3>4. files'[f].by = mine[p]
      BY <1>1, <3>3
    <3>5. f \in lists[p] /\ f \notin todo[p]
      BY <1>3, <3>1
    <3>6. QED
      BY ONLY <1>2, <3>1, <3>2, <3>3, <3>4, <3>5 DEF FileAlone
  <2>6. CASE EndCopy(p, f)
    <3>1. stage[p][f] = "copying" /\ temps' = temps /\ todo' = todo
      BY <2>6, EndCopyEffect
    <3>2. /\ temps[f] = [by |-> mine[p], whole |-> TRUE] /\ temps[f] # Absent
          /\ temps[f].by = mine[p] /\ temps[f].whole = TRUE
          /\ files[f] = [by |-> mine[p], whole |-> FALSE]
      BY <1>0, <1>1, <3>1 DEF FileAlone
    <3>3. CopyIsWhole(p, f)
      BY <1>0, <3>2 DEF CopyIsWhole
    <3>4. \/ stage'[p][f] = "drop" /\ files'[f] = [by |-> mine[p], whole |-> TRUE]
          \/ stage'[p][f] = "move" /\ files'[f] = Absent
      BY <1>0, <2>6, <3>2, <3>3, EndCopyEffect DEF Goes, Falls
    <3>5. files'[f] # Absent => files'[f].by = mine[p]
      BY <1>1, <3>4
    <3>6. f \in lists[p] /\ f \notin todo[p]
      BY <1>3, <3>1
    <3>7. QED
      BY ONLY <1>2, <3>1, <3>2, <3>4, <3>5, <3>6 DEF FileAlone
  <2>7. CASE DropTemp(p, f)
    <3>1. stage[p][f] = "drop" /\ todo' = todo
      BY <2>7, DropTempEffect
    <3>2. temps[f] # Absent /\ files[f] = [by |-> mine[p], whole |-> TRUE] /\ files[f].by = mine[p]
      BY <1>0, <1>1, <3>1 DEF FileAlone
    <3>3. stage'[p][f] = "none" /\ temps'[f] = Absent /\ files'[f] = files[f]
      BY <2>7, <3>2, DropTempEffect DEF Goes
    <3>4. f \in lists[p] /\ f \notin todo[p]
      BY <1>3, <3>1
    <3>5. QED
      BY ONLY <1>2, <3>1, <3>2, <3>3, <3>4 DEF FileAlone
  <2>8. CASE Replace(p, f)
    <3>1. stage[p][f] = "move" /\ todo' = todo
      BY <2>8, ReplaceEffect
    <3>2. temps[f] # Absent /\ temps[f] = [by |-> mine[p], whole |-> TRUE] /\ temps[f].by = mine[p]
      BY <1>0, <1>1, <3>1 DEF FileAlone
    <3>3. stage'[p][f] = "none" /\ temps'[f] = Absent /\ files'[f] = temps[f]
      BY <2>8, <3>2, ReplaceEffect DEF Goes
    <3>4. f \in lists[p] /\ f \notin todo[p]
      BY <1>3, <3>1
    <3>5. QED
      BY ONLY <1>2, <3>1, <3>2, <3>3, <3>4 DEF FileAlone
  <2>9. QED
    BY <2>1, <2>2, <2>3, <2>4, <2>5, <2>6, <2>7, <2>8 DEF WriteStep
<1>6. QED
  <2>1. ASSUME NEW g \in Files PROVE FileAlone(p, g)'
    BY <1>0, <1>5, OtherFileAlone DEF WritingAlone
  <2>2. QED
    BY <2>1 DEF WritingAlone

LEMMA AloneOwn ==
  ASSUME StoreType, LocalInv, NEW p \in Callers, Call(p) \/ Step(p) \/ Crash(p), AloneInv(p)
  PROVE  AloneInv(p)'
<1> SUFFICES ASSUME Alone(p)' PROVE AloneInv(p)'
  BY DEF AloneInv
<1>0. Alone(p)
  BY AloneBefore
<1>a. OneBuild /\ pc[p] \in Points
  BY <1>0 DEF AloneInv, StoreType
<1>b. ASSUME pc'[p] \in {"idle", "raised", "building", "clearing"}, files' = files
      PROVE  AloneInv(p)'
  BY <1>a, <1>b DEF AloneInv, OneBuild, Present
<1>c. ASSUME NEW point \in {"idle", "raised"}, Leave(p, point), files' = files
      PROVE  AloneInv(p)'
  <2>1. pc'[p] = point
    <3>1. point \in Points
      BY DEF Points
    <3>2. QED
      BY <1>c, <3>1, LeaveEffect
  <2>2. QED
    BY <1>b, <1>c, <2>1
<1>d. ASSUME Raise(p), files' = files
      PROVE  AloneInv(p)'
  BY <1>c, <1>d DEF Raise
<1>1. CASE Call(p)
  <2>1. pc'[p] \in {"opening", "building"} /\ (pc'[p] = "opening" => item \in Items) /\ item' = item
        /\ files' = files
    BY <1>1 DEF Call, HasProduct, Goto, StoreType, disk
  <2>2. CASE pc'[p] = "building"
    BY <1>b, <2>1, <2>2
  <2>3. CASE pc'[p] = "opening"
    BY <1>a, <2>1, <2>3 DEF AloneInv, OneBuild, Present
  <2>4. QED
    BY <2>1, <2>2, <2>3
<1>2. CASE Build(p)
  <2>1. files' = files /\ temps' = temps
    BY <1>2 DEF Build, disk
  <2>2. CASE Raise(p)
    BY <1>d, <2>1, <2>2
  <2>3. CASE ~Raise(p)
    <3>1. pc'[p] = "clearing" \/ (pc'[p] = "making" /\ ~dir)
      BY <1>2, <2>3 DEF Build, AfterBuild, Goto, StoreType
    <3>2. CASE pc'[p] = "making" /\ ~dir
      <4>1. Cleared'
        BY <2>1, <3>2 DEF LocalInv, NoDirNoFiles, Cleared
      <4>2. QED
        BY <1>a, <2>1, <3>2, <4>1 DEF AloneInv, OneBuild, Present
    <3>3. QED
      BY <1>b, <2>1, <3>1, <3>2
  <2>4. QED
    BY <2>2, <2>3
<1>3. ASSUME NEW f \in Files, Unlink(p, f)
      PROVE  AloneInv(p)'
  <2>1. pc'[p] = "clearing" /\ (\A g \in Files : files'[g] \in {files[g], Absent})
    BY <1>3 DEF Unlink, StoreType
  <2>2. OneBuild'
    BY <1>a, <2>1 DEF OneBuild, Present
  <2>3. QED
    BY <2>1, <2>2 DEF AloneInv
<1>4. CASE Rmdir(p)
  <2>1. pc'[p] = "making" /\ Cleared'
    BY <1>4 DEF Rmdir, Cleared, Goto, StoreType
  <2>2. QED
    BY <2>1 DEF AloneInv, OneBuild, Present, Cleared
<1>5. CASE RmtreeRaises(p)
  BY <1>d, <1>5 DEF RmtreeRaises, disk
<1>6. CASE MakeDirs(p)
  <2>1. pc'[p] = "writing" /\ pc[p] = "making" /\ UNCHANGED <<files, temps, mine, lists, todo, stage, failed>>
    BY <1>6 DEF MakeDirs, Goto, StoreType, local
  <2>2. Cleared /\ todo[p] = lists[p] /\ \A f \in Files : stage[p][f] = "none"
    BY <1>0, <2>1 DEF AloneInv, LocalInv, Pending
  <2>3. WritingAlone(p)'
    BY <2>1, <2>2 DEF WritingAlone, FileAlone, Cleared
  <2>4. QED
    BY <2>1, <2>2, <2>3 DEF AloneInv, OneBuild, Present, Cleared
<1>7. ASSUME NEW f \in Files, WriteStep(p, f)
      PROVE  AloneInv(p)'
  <2>1. pc[p] = "writing" /\ pc' = pc
    BY <1>7, WriteEffects DEF OnlyOwn
  <2>2. WritingAlone(p)'
    BY <1>0, <1>7, <2>1, WritingAloneNext DEF AloneInv
  <2>3. OneBuild'
    BY <2>2 DEF WritingAlone, FileAlone, OneBuild, Present
  <2>4. QED
    BY <2>1, <2>2, <2>3 DEF AloneInv
<1>8. CASE CancelWrites(p)
  <2>1. pc[p] = "writing" /\ failed[p] /\ pc' = pc /\ todo'[p] = {}
        /\ UNCHANGED <<files, temps, mine, lists, stage, failed>>
    BY <1>8 DEF CancelWrites, disk, StoreType
  <2>2. WritingAlone(p)
    BY <1>0, <2>1 DEF AloneInv
  <2>3. WritingAlone(p)'
    BY <2>1, <2>2 DEF WritingAlone, FileAlone
  <2>4. QED
    BY <1>a, <2>1, <2>3 DEF AloneInv, OneBuild, Present
<1>9. CASE OpenItem(p)
  <2>1. pc[p] = "writing" /\ PoolDrained(p) /\ files' = files /\ temps' = temps
    BY <1>9 DEF OpenItem
  <2>2. CASE Raise(p)
    BY <1>d, <2>1, <2>2
  <2>3. CASE ~Raise(p)
    <3>1. pc'[p] = "naming" /\ item' = Torn /\ ~failed[p] /\ lists' = lists /\ mine' = mine
      BY <1>9, <2>3 DEF OpenItem, Goto, StoreType, local
    <3>2. WritingAlone(p) /\ lists[p] \subseteq Files
      BY <1>0, <2>1 DEF AloneInv, StoreType
    <3>3. SavedAlone(p)'
      BY <2>1, <3>1, <3>2 DEF PoolDrained, Open, WritingAlone, FileAlone, SavedAlone, Whole, Present
    <3>4. QED
      BY <1>a, <2>1, <3>1, <3>3 DEF AloneInv, OneBuild, Present
  <2>4. QED
    BY <2>2, <2>3
<1>10. CASE WriteItem(p)
  <2>1. /\ pc[p] = "naming" /\ pc'[p] = "saved" /\ files' = files /\ temps' = temps
        /\ lists' = lists /\ mine' = mine
    BY <1>10 DEF WriteItem, Goto, StoreType, local
  <2>2. item = Torn /\ SavedAlone(p)
    BY <1>0, <2>1 DEF AloneInv
  <2>3. item' = [by |-> mine[p], lists |-> lists[p]]
    BY <1>10, <2>2 DEF WriteItem
  <2>4. OneBuild' /\ SavedAlone(p)'
    BY <1>a, <2>1, <2>2 DEF OneBuild, SavedAlone, Present, Whole
  <2>5. QED
    BY <2>1, <2>3, <2>4 DEF AloneInv
<1>11. CASE ReadItem(p)
  <2>1. files' = files /\ pc[p] = "opening"
    BY <1>11 DEF ReadItem, disk
  <2>2. CASE Raise(p)
    BY <1>d, <2>1, <2>2
  <2>3. CASE ~Raise(p)
    <3>1. pc'[p] = "loading" /\ read' = read
      BY <1>11, <2>3 DEF ReadItem, Goto, StoreType
    <3>2. read[p] = {}
      BY <2>1 DEF LocalInv, Pending
    <3>3. QED
      BY <1>a, <2>1, <3>1, <3>2 DEF AloneInv, OneBuild, Present, ReadAlone
  <2>4. QED
    BY <2>2, <2>3
<1>12. ASSUME NEW f \in Files, ReadAsset(p, f)
      PROVE  AloneInv(p)'
  <2>1. files' = files /\ pc[p] = "loading"
    BY <1>12 DEF ReadAsset, disk
  <2>2. CASE Raise(p)
    BY <1>d, <2>1, <2>2
  <2>3. CASE ~Raise(p)
    <3>1. pc' = pc /\ files[f] # Absent /\ read'[p] = read[p] \cup {files[f].by}
      BY <1>12, <2>3 DEF ReadAsset, StoreType
    <3>2. ReadAlone(p) /\ \A b \in read[p], g \in Files : Present(g) => files[g].by = b
      BY <1>0, <2>1 DEF AloneInv
    <3>3. \A b \in read'[p], g \in Files : Present(g) => files[g].by = b
      BY <1>a, <3>1, <3>2 DEF OneBuild, Present
    <3>4. ReadAlone(p)'
      BY <3>1, <3>2 DEF ReadAlone, Present
    <3>5. QED
      BY <1>a, <2>1, <3>1, <3>3, <3>4 DEF AloneInv, OneBuild, Present
  <2>4. QED
    BY <2>2, <2>3
<1>13. CASE Serve(p)
  <2>1. pc[p] = "loading" /\ pc'[p] = "served" /\ files' = files /\ read' = read
    BY <1>13 DEF Serve, disk, local, Goto, StoreType
  <2>2. QED
    BY <1>0, <1>a, <2>1 DEF AloneInv, OneBuild, Present, ReadAlone
<1>14. CASE Crash(p)
  BY <1>c, <1>14 DEF Crash, disk
<1>15. QED
  BY <1>1, <1>2, <1>3, <1>4, <1>5, <1>6, <1>7, <1>8, <1>9, <1>10, <1>11, <1>12, <1>13, <1>14 DEF Step

LEMMA AloneNext ==
  ASSUME StoreType, LocalInv, NEW r \in Callers, AloneInv(r), [Next]_vars
  PROVE  AloneInv(r)'
<1>1. ASSUME NEW p \in Callers, Call(p) \/ Step(p) \/ Crash(p)
      PROVE  AloneInv(r)'
  <2>1. CASE p = r
    BY <1>1, <2>1, AloneOwn
  <2>2. CASE p # r
    BY <1>1, <2>2, AloneOther
  <2>3. QED
    BY <2>1, <2>2
<1>2. CASE UNCHANGED vars
  <2>1. UNCHANGED <<files, temps, item, pc, mine, lists, todo, stage, failed, read>>
    BY <1>2 DEF vars, disk, local
  <2>2. WritingAlone(r)' = WritingAlone(r) /\ SavedAlone(r)' = SavedAlone(r) /\ ReadAlone(r)' = ReadAlone(r)
        /\ OneBuild' = OneBuild /\ Cleared' = Cleared /\ Alone(r)' = Alone(r)
    BY <2>1 DEF WritingAlone, FileAlone, SavedAlone, ReadAlone, OneBuild, Present, Whole, Cleared, Alone
  <2>3. QED
    BY <2>1, <2>2 DEF AloneInv, Present
<1>3. QED
  BY <1>1, <1>2 DEF Next, Exhausted

-----------------------------------------------------------------------------
LEMMA DisturbedStays ==
  ASSUME StoreType, LocalInv, NEW p \in Callers, Call(p) \/ Step(p) \/ Crash(p), Disturbed
  PROVE  Disturbed'
<1>1. ASSUME NEW point \in {"idle", "raised"}, Leave(p, point)
      PROVE  Disturbed'
  BY <1>1 DEF Leave, Disturbed
<1>2. CASE mishap' = mishap /\ (failed[p] => failed'[p])
  <2>1. \A q \in Callers : failed[q] => failed'[q]
    BY <1>2, OthersKeep DEF Keeps
  <2>2. QED
    BY <1>2, <2>1 DEF Disturbed
<1>3. CASE Call(p)
  <2>1. ~failed[p] /\ mishap' = mishap
    BY <1>3 DEF Call, Idle, LocalInv, Pending
  <2>2. QED
    BY <1>2, <2>1
<1>4. ASSUME NEW f \in Files, WriteStep(p, f)
      PROVE  Disturbed'
  BY <1>2, <1>4, WriteEffects DEF OnlyOwn
<1>5. CASE Step(p) /\ ~Raise(p)
  <2>1. CASE \E f \in Files : WriteStep(p, f)
    BY <1>4, <2>1
  <2>2. CASE ~\E f \in Files : WriteStep(p, f)
    <3>1. mishap' = mishap /\ failed' = failed
      BY <1>5, <2>2 DEF Step, Build, Unlink, Rmdir, RmtreeRaises, MakeDirs, CancelWrites, OpenItem, WriteItem,
         ReadItem, ReadAsset, Serve, local
    <3>2. QED
      BY <1>2, <3>1
  <2>3. QED
    BY <2>1, <2>2
<1>6. CASE Raise(p) \/ Crash(p)
  BY <1>1, <1>6 DEF Raise, Crash
<1>7. QED
  BY <1>3, <1>5, <1>6

LEMMA SoundKept ==
  ASSUME NEW g \in Files, Doomed(g) \/ Sound(g),
         files'[g] = files[g], temps'[g] = temps[g],
         \A q \in Callers : stage'[q][g] = stage[q][g] /\ (stage[q][g] # "none" => mine'[q] = mine[q]),
         ~Present(g) => \A q \in Callers : Owed(q, g) => Owed(q, g)'
  PROVE  Doomed(g)' \/ Sound(g)'
<1>1. CASE Doomed(g)
  BY <1>1 DEF Doomed, Uses
<1>2. CASE Sound(g)
  <2>1. \A q \in Callers : SoundOf(q, g)'
    BY <1>2 DEF Sound, SoundOf
  <2>2. Present(g)' = Present(g)
    BY DEF Present
  <2>3. ~Present(g)' => \E q \in Callers : Owed(q, g)'
    BY <1>2, <2>2 DEF Sound
  <2>4. QED
    BY <1>2, <2>1, <2>2, <2>3 DEF Sound
<1>3. QED
  BY <1>1, <1>2

LEMMA DoomedStays ==
  ASSUME StoreType, LocalInv, NEW p \in Callers, NEW f \in Files, WriteStep(p, f), Doomed(f), ~failed'[p]
  PROVE  Doomed(f)'
<1>0. \A q \in Callers \ {p} : Uses(q, f)' = Uses(q, f)
  BY WriteEffects DEF OnlyOwn, Uses
<1>1. ASSUME Uses(p, f) => Uses(p, f)', temps[f] = Absent => temps'[f] = Absent
      PROVE  Doomed(f)'
  BY <1>0, <1>1 DEF Doomed
<1>2. ASSUME temps'[f] = Absent, \E q \in Callers \ {p} : Uses(q, f)
      PROVE  Doomed(f)'
  BY <1>0, <1>2 DEF Doomed
<1>3. CASE StartWrite(p, f)
  <2>1. ~Uses(p, f) /\ temps'[f] = Absent
    BY <1>3, StartWriteEffect DEF Uses
  <2>2. QED
    BY <1>1, <2>1
<1>4. CASE DropOld(p, f)
  <2>1. ~Uses(p, f) /\ temps' = temps
    BY <1>4, DropOldEffect DEF Uses
  <2>2. QED
    BY <1>1, <2>1
<1>5. CASE CreateTemp(p, f)
  <2>1. ~Uses(p, f) /\ Uses(p, f)'
    BY <1>5, CreateTempEffect DEF Uses, Goes, Raised
  <2>2. PICK q \in Callers \ {p} : Uses(q, f)
    BY <2>1 DEF Doomed
  <2>3. QED
    BY <1>0, <2>1, <2>2 DEF Doomed
<1>6. CASE EndTemp(p, f)
  <2>1. \/ Goes(p, f, "copy") \/ Goes(p, f, "move")
        \/ Raised(p, f)
    BY <1>6, EndTempEffect
  <2>2. Uses(p, f)'
    BY <2>1 DEF Uses, Goes, Raised
  <2>3. \/ temps[f] # Absent
        \/ temps'[f] = temps[f]
        \/ temps' = temps
    BY <1>6, EndTempEffect
  <2>4. temps[f] = Absent => temps'[f] = Absent
    BY <2>3
  <2>5. QED
    BY <1>1, <2>2, <2>4
<1>7. CASE StartCopy(p, f)
  <2>1. Uses(p, f)' /\ temps' = temps
    BY <1>7, StartCopyEffect DEF Uses, Goes, Raised, Falls
  <2>2. QED
    BY <1>1, <2>1
<1>8. CASE EndCopy(p, f)
  <2>1. Uses(p, f)' /\ temps' = temps
    BY <1>8, EndCopyEffect DEF Uses, Goes, Raised, Falls
  <2>2. QED
    BY <1>1, <2>1
<1>9. CASE DropTemp(p, f)
  <2>1. CASE temps[f] = Absent
    <3>1. Uses(p, f)' /\ temps' = temps
      BY <1>9, <2>1, DropTempEffect DEF Uses, Goes, Raised, Falls
    <3>2. QED
      BY <1>1, <3>1
  <2>2. CASE temps[f] # Absent
    <3>1. temps'[f] = Absent
      BY <1>9, <2>2, DropTempEffect
    <3>2. QED
      BY <1>2, <2>2, <3>1 DEF Doomed
  <2>3. QED
    BY <2>1, <2>2
<1>10. CASE Replace(p, f)
  <2>1. temps[f] # Absent /\ temps'[f] = Absent
    BY <1>10, ReplaceEffect DEF Raised
  <2>2. QED
    BY <1>2, <2>1 DEF Doomed
<1>11. QED
  BY <1>3, <1>4, <1>5, <1>6, <1>7, <1>8, <1>9, <1>10 DEF WriteStep

LEMMA SoundAgain ==
  ASSUME NEW p \in Callers, NEW f \in Files, \A q \in Callers \ {p} : ~Uses(q, f)',
         SoundOf(p, f)', Present(f)' \/ \E q \in Callers : Owed(q, f)',
         Present(f)' => files'[f].by # 0 /\ (files'[f].whole \/ stage'[p][f] = "copying")
  PROVE  Sound(f)'
<1>1. \A q \in Callers \ {p} : SoundOf(q, f)'
  BY DEF Uses, SoundOf
<1>2. QED
  BY <1>1 DEF Sound

(* A writer that is the only one of its temporary file comes to an asset   *)
(* that is whole; a second one dooms one of the two.                       *)
LEMMA SoundWrite ==
  ASSUME StoreType, LocalInv, NEW p \in Callers, NEW f \in Files, WriteStep(p, f),
         Sound(f), ~Doomed(f), ~failed'[p]
  PROVE  Doomed(f)' \/ Sound(f)'
<1>1. /\ \A q \in Callers \ {p} : stage'[q][f] = stage[q][f] /\ (f \in todo'[q] <=> f \in todo[q])
      /\ lists' = lists /\ mine' = mine /\ pc[p] = "writing"
  BY WriteEffects DEF OnlyOwn
<1>2. \A q \in Callers \ {p} : (Uses(q, f)' <=> Uses(q, f)) /\ (Owed(q, f)' <=> Owed(q, f))
  BY <1>1 DEF Uses, Owed
<1>3. /\ Uses(p, f) => temps[f] # Absent /\ \A q \in Callers \ {p} : ~Uses(q, f)
      /\ \A q \in Callers : Uses(q, f) => temps[f] # Absent
  BY DEF Doomed
<1>4. mine[p] # 0 /\ mine[p] \in 0..MaxBuilds
  BY <1>1 DEF LocalInv, OwnBuild, Rebuilding, StoreType
<1>5. stage[p][f] # "none" => f \in lists[p] /\ f \notin todo[p]
  BY <1>1 DEF LocalInv, Pending
<1>6. ~Raised(p, f)
  BY DEF Raised
<1>7. /\ SoundOf(p, f)
      /\ Present(f) \/ \E q \in Callers : Owed(q, f)
      /\ Present(f) => files[f].by # 0 /\ (files[f].whole \/ \E q \in Callers : stage[q][f] = "copying")
  BY DEF Sound
<1>8. \A w \in BOOLEAN : /\ [by |-> mine[p], whole |-> w] # Absent
                         /\ [by |-> mine[p], whole |-> w].by = mine[p]
                         /\ [by |-> mine[p], whole |-> w].whole = w
  BY <1>4, WrittenIsPresent
<1>9. ASSUME NEW q \in Callers \ {p}, Uses(q, f), temps'[f] = Absent \/ Uses(p, f)'
      PROVE  Doomed(f)'
  BY <1>2, <1>9 DEF Doomed
<1>10. ASSUME \A q \in Callers \ {p} : ~Uses(q, f), stage[p][f] # "copying", Present(f)
       PROVE  files[f].by # 0 /\ files[f].whole
  BY <1>7, <1>10 DEF Uses
<1>11. CASE StartWrite(p, f)
  <2>1. temps'[f] = Absent /\ files'[f] = files[f] /\ stage'[p][f] = "old" /\ stage[p][f] = "none"
    BY <1>6, <1>11, StartWriteEffect DEF Goes
  <2>2. CASE \E q \in Callers \ {p} : Uses(q, f)
    BY <1>9, <2>1, <2>2
  <2>3. CASE \A q \in Callers \ {p} : ~Uses(q, f)
    <3>1. SoundOf(p, f)' /\ Owed(p, f)'
      BY <2>1 DEF SoundOf, Owed
    <3>2. Present(f)' => files'[f].by # 0 /\ files'[f].whole
      BY <1>10, <2>1, <2>3 DEF Present
    <3>3. QED
      BY <1>2, <2>3, <3>1, <3>2, SoundAgain
  <2>4. QED
    BY <2>2, <2>3
<1>12. CASE DropOld(p, f)
  <2>1. temps'[f] = temps[f] /\ files'[f] = Absent /\ stage'[p][f] = "create"
    BY <1>6, <1>12, DropOldEffect DEF Goes
  <2>2. SoundOf(p, f)' /\ Owed(p, f)' /\ ~Present(f)'
    BY <2>1 DEF SoundOf, Owed, Present
  <2>3. \A q \in Callers \ {p} : SoundOf(q, f)'
    BY <1>1, <2>1 DEF SoundOf, Sound
  <2>4. QED
    BY <2>2, <2>3 DEF Sound
<1>13. CASE CreateTemp(p, f)
  <2>1. /\ files' = files /\ stage'[p][f] = "write" /\ stage[p][f] = "create"
        /\ \/ temps'[f] = [by |-> mine[p], whole |-> FALSE]
           \/ \E q \in Callers \ {p} : stage[q][f] = "write"
    BY <1>6, <1>13, CreateTempEffect DEF Goes
  <2>2. Uses(p, f)'
    BY <2>1 DEF Uses
  <2>3. CASE \E q \in Callers \ {p} : Uses(q, f)
    BY <1>9, <2>2, <2>3
  <2>4. CASE \A q \in Callers \ {p} : ~Uses(q, f)
    <3>1. temps'[f] = [by |-> mine[p], whole |-> FALSE]
      BY <2>1, <2>4 DEF Uses
    <3>2. SoundOf(p, f)' /\ Owed(p, f)'
      BY <1>1, <2>1, <3>1 DEF SoundOf, Owed
    <3>3. Present(f)' => files'[f].by # 0 /\ files'[f].whole
      BY <1>10, <2>1, <2>4 DEF Present
    <3>4. QED
      BY <1>2, <2>4, <3>2, <3>3, SoundAgain
  <2>5. QED
    BY <2>3, <2>4
<1>14. CASE EndTemp(p, f)
  <2>1. stage[p][f] = "write" /\ Uses(p, f) /\ files' = files
    BY <1>14, EndTempEffect DEF Uses
  <2>2. temps[f] = [by |-> mine[p], whole |-> FALSE] /\ \A q \in Callers \ {p} : ~Uses(q, f)
    BY <1>3, <1>7, <2>1 DEF SoundOf
  <2>3. temps[f] # Absent /\ temps[f].by = mine[p]
    BY <1>8, <2>2
  <2>4. stage'[p][f] \in {"copy", "move"} /\ temps'[f] = [by |-> mine[p], whole |-> TRUE]
    BY <1>6, <1>14, <2>3, EndTempEffect DEF Goes
  <2>5. SoundOf(p, f)' /\ Owed(p, f)'
    BY <1>1, <2>4 DEF SoundOf, Owed
  <2>6. Present(f)' => files'[f].by # 0 /\ files'[f].whole
    BY <1>10, <2>1, <2>2 DEF Present
  <2>7. QED
    BY <1>2, <2>2, <2>5, <2>6, SoundAgain
<1>15. CASE StartCopy(p, f)
  <2>1. stage[p][f] = "copy" /\ Uses(p, f) /\ temps' = temps
    BY <1>15, StartCopyEffect DEF Uses
  <2>2. temps[f] = [by |-> mine[p], whole |-> TRUE] /\ \A q \in Callers \ {p} : ~Uses(q, f)
    BY <1>3, <1>7, <2>1 DEF SoundOf
  <2>3. temps[f] # Absent /\ temps[f].by = mine[p]
    BY <1>8, <2>2
  <2>4. stage'[p][f] = "copying" /\ files'[f] = [by |-> mine[p], whole |-> FALSE]
    BY <1>15, <2>3, StartCopyEffect DEF Goes
  <2>5. SoundOf(p, f)' /\ Present(f)' /\ files'[f].by # 0
    BY <1>1, <1>4, <1>8, <2>1, <2>2, <2>4 DEF SoundOf, Present
  <2>6. QED
    BY <1>2, <2>2, <2>4, <2>5, SoundAgain
<1>16. CASE EndCopy(p, f)
  <2>1. stage[p][f] = "copying" /\ Uses(p, f) /\ temps' = temps
    BY <1>16, EndCopyEffect DEF Uses
  <2>2. /\ temps[f] = [by |-> mine[p], whole |-> TRUE] /\ \A q \in Callers \ {p} : ~Uses(q, f)
        /\ files[f] \in {Absent, [by |-> mine[p], whole |-> FALSE]}
    BY <1>3, <1>7, <2>1 DEF SoundOf
  <2>3. temps[f] # Absent /\ temps[f].by = mine[p] /\ temps[f].whole = TRUE
    BY <1>8, <2>2
  <2>4. CASE Falls(p, f)
    <3>1. stage'[p][f] = "move" /\ files'[f] = Absent
      BY <1>6, <2>4 DEF Falls, Goes
    <3>2. SoundOf(p, f)' /\ Owed(p, f)' /\ ~Present(f)'
      BY <1>1, <2>1, <2>2, <3>1 DEF SoundOf, Owed, Present
    <3>3. QED
      BY <1>2, <2>2, <3>2, SoundAgain
  <2>5. CASE CopyIsWhole(p, f) /\ ~Falls(p, f)
    <3>1. stage'[p][f] = "drop" /\ files'[f] = [by |-> mine[p], whole |-> TRUE]
      BY <1>16, <2>3, <2>5, EndCopyEffect DEF Goes
    <3>2. SoundOf(p, f)' /\ Present(f)' /\ files'[f].by # 0 /\ files'[f].whole
      BY <1>1, <1>4, <1>8, <2>1, <2>2, <3>1 DEF SoundOf, Present
    <3>3. QED
      BY <1>2, <2>2, <3>2, SoundAgain
  <2>6. CASE ~CopyIsWhole(p, f) /\ ~Falls(p, f)
    <3>1. stage'[p][f] = "drop" /\ files'[f] = files[f]
      BY <1>16, <2>6, EndCopyEffect DEF Goes
    <3>2. \A q \in Callers \ {p} : stage[q][f] # "copying"
      BY <2>2 DEF Uses
    <3>3. files[f] = Absent
      BY <2>2, <2>3, <2>6, <3>2 DEF CopyIsWhole
    <3>4. PICK q \in Callers : Owed(q, f)
      BY <1>7, <3>3 DEF Present
    <3>5. q # p
      BY <1>5, <2>1, <3>4 DEF Owed
    <3>6. SoundOf(p, f)' /\ Owed(q, f)' /\ ~Present(f)'
      BY <1>1, <1>2, <2>1, <2>2, <3>1, <3>3, <3>4, <3>5 DEF SoundOf, Present
    <3>7. QED
      BY <1>2, <2>2, <3>6, SoundAgain
  <2>7. QED
    BY <2>4, <2>5, <2>6
<1>17. CASE DropTemp(p, f)
  <2>1. stage[p][f] = "drop" /\ Uses(p, f)
    BY <1>17, DropTempEffect DEF Uses
  <2>2. temps[f] # Absent /\ \A q \in Callers \ {p} : ~Uses(q, f)
    BY <1>3, <2>1
  <2>3. files' = files /\ stage'[p][f] = "none"
    BY <1>17, <2>2, DropTempEffect DEF Goes
  <2>4. SoundOf(p, f)' /\ (Present(f)' => files'[f].by # 0 /\ files'[f].whole)
    BY <1>10, <2>1, <2>2, <2>3 DEF SoundOf, Present
  <2>5. Present(f)' \/ \E q \in Callers : Owed(q, f)'
    <3>1. SUFFICES ASSUME ~Present(f)' PROVE \E q \in Callers : Owed(q, f)'
      OBVIOUS
    <3>2. PICK q \in Callers : Owed(q, f)
      BY <1>7, <2>3, <3>1 DEF Present
    <3>3. q # p
      BY <1>5, <2>1, <3>2 DEF Owed
    <3>4. QED
      BY <1>2, <3>2, <3>3
  <2>6. QED
    BY <1>2, <2>2, <2>4, <2>5, SoundAgain
<1>18. CASE Replace(p, f)
  <2>1. stage[p][f] = "move" /\ Uses(p, f)
    BY <1>18, ReplaceEffect DEF Uses
  <2>2. temps[f] = [by |-> mine[p], whole |-> TRUE] /\ temps[f] # Absent /\ \A q \in Callers \ {p} : ~Uses(q, f)
    BY <1>3, <1>7, <2>1 DEF SoundOf
  <2>3. files'[f] = [by |-> mine[p], whole |-> TRUE] /\ stage'[p][f] = "none"
    BY <1>18, <2>2, ReplaceEffect DEF Goes
  <2>4. SoundOf(p, f)' /\ Present(f)' /\ files'[f].by # 0 /\ files'[f].whole
    BY <1>4, <1>8, <2>3 DEF SoundOf, Present
  <2>5. QED
    BY <1>2, <2>2, <2>4, SoundAgain
<1>19. QED
  BY <1>11, <1>12, <1>13, <1>14, <1>15, <1>16, <1>17, <1>18 DEF WriteStep

LEMMA SoundUnlink ==
  ASSUME StoreType, LocalInv, NEW p \in Callers, NEW f \in Files, Unlink(p, f),
         NEW g \in Files, Doomed(g) \/ Sound(g)
  PROVE  Doomed(g)' \/ Sound(g)'
<1>1. UNCHANGED <<mine, lists, todo, stage>> /\ pc[p] = "clearing"
  BY DEF Unlink, local
<1>2. \A q \in Callers : Owed(q, g)' = Owed(q, g) /\ Uses(q, g)' = Uses(q, g)
  BY <1>1 DEF Owed, Uses
<1>3. CASE g # f
  <2>1. files'[g] = files[g] /\ temps'[g] = temps[g]
    BY <1>3 DEF Unlink, StoreType
  <2>2. QED
    BY <1>1, <1>2, <2>1, SoundKept
<1>4. CASE g = f /\ files[f] # Absent /\ files' = [files EXCEPT ![f] = Absent] /\ UNCHANGED temps
  <2>1. ~Present(g)' /\ files'[g] = Absent
    BY <1>4 DEF StoreType, Present
  <2>2. Owed(p, g)'
    BY <1>1 DEF LocalInv, Pending, Owed
  <2>3. CASE Doomed(g)
    BY <1>2, <1>4, <2>3 DEF Doomed
  <2>4. CASE Sound(g)
    <3>1. \A q \in Callers : SoundOf(q, g)'
      BY <1>1, <1>4, <2>1, <2>4 DEF Sound, SoundOf
    <3>2. QED
      BY <2>1, <2>2, <3>1 DEF Sound
  <2>5. QED
    BY <2>3, <2>4
<1>5. CASE g = f /\ temps[f] # Absent /\ temps' = [temps EXCEPT ![f] = Absent] /\ UNCHANGED files
  <2>1. temps'[g] = Absent
    BY <1>5 DEF StoreType
  <2>2. CASE \E q \in Callers : Uses(q, g)
    BY <1>2, <2>1, <2>2 DEF Doomed
  <2>3. CASE \A q \in Callers : ~Uses(q, g)
    <3>1. Sound(g)
      BY <2>3 DEF Doomed
    <3>2. \A q \in Callers : SoundOf(q, g)' /\ stage[q][g] # "copying"
      BY <1>1, <2>3 DEF SoundOf, Uses
    <3>3. QED
      BY <1>1, <1>2, <1>5, <3>1, <3>2 DEF Sound, Present
  <2>4. QED
    BY <2>2, <2>3
<1>6. QED
  BY <1>3, <1>4, <1>5 DEF Unlink

LEMMA SoundNext ==
  ASSUME StoreType, LocalInv, SoundInv, [Next]_vars
  PROVE  SoundInv'
<1> SUFFICES ASSUME Callers # {}, ~Disturbed', NEW g \in Files
             PROVE  Doomed(g)' \/ Sound(g)'
  BY DEF SoundInv
<1>1. ASSUME NEW p \in Callers, Call(p) \/ Step(p) \/ Crash(p)
      PROVE  Doomed(g)' \/ Sound(g)'
  <2>0. ~Disturbed /\ mishap' # TRUE /\ ~failed'[p] /\ ~failed[p]
    BY <1>1, DisturbedStays DEF Disturbed
  <2>1. Doomed(g) \/ Sound(g)
    BY <2>0 DEF SoundInv
  <2>2. ASSUME NEW point, Leave(p, point)
        PROVE  FALSE
    BY <2>0, <2>2 DEF Leave
  <2>3. ~Raise(p) /\ ~Crash(p)
    BY <2>2 DEF Raise, Crash
  <2>4. \A q \in Callers \ {p} :
          stage'[q][g] = stage[q][g] /\ mine'[q] = mine[q] /\ lists'[q] = lists[q] /\ todo'[q] = todo[q]
    BY <1>1, OthersKeep DEF Keeps
  <2>5. \A q \in Callers \ {p} : Owed(q, g) => Owed(q, g)'
    BY <2>4 DEF Owed
  <2>6. ASSUME files' = files, temps' = temps, stage'[p][g] = stage[p][g],
               stage[p][g] # "none" => mine'[p] = mine[p],
               ~Present(g) /\ Owed(p, g) => Owed(p, g)'
        PROVE  Doomed(g)' \/ Sound(g)'
    BY <2>1, <2>4, <2>5, <2>6, SoundKept
  <2>7. CASE Call(p)
    <3>1. /\ files' = files /\ temps' = temps /\ stage' = stage
          /\ lists' = [lists EXCEPT ![p] = {}]
      BY <2>7 DEF Call, disk
    <3>2. stage[p][g] = "none" /\ lists'[p] = {}
      BY <2>7, <3>1 DEF Call, Idle, LocalInv, Pending, StoreType
    <3>3. Owed(p, g)'
      BY <3>2 DEF Owed
    <3>4. QED
      BY <2>6, <3>1, <3>2, <3>3
  <2>8. CASE Build(p)
    <3>1. PICK assets \in AssetSets : lists' = [lists EXCEPT ![p] = assets] /\ todo' = [todo EXCEPT ![p] = assets]
      BY <2>3, <2>8 DEF Build
    <3>2. files' = files /\ temps' = temps /\ stage' = stage /\ mine' = mine
      BY <2>3, <2>8 DEF Build, disk
    <3>3. lists'[p] = assets /\ todo'[p] = assets
      BY <3>1 DEF StoreType
    <3>4. Owed(p, g)'
      BY <3>3 DEF Owed
    <3>5. QED
      BY <2>6, <3>2, <3>4
  <2>9. ASSUME NEW f \in Files, Unlink(p, f)
        PROVE  Doomed(g)' \/ Sound(g)'
    BY <2>1, <2>9, SoundUnlink
  <2>10. CASE Rmdir(p) \/ MakeDirs(p) \/ OpenItem(p) \/ WriteItem(p) \/ Serve(p)
    <3>1. UNCHANGED <<files, temps, mine, lists, todo, stage>>
      BY <2>3, <2>10 DEF Rmdir, MakeDirs, OpenItem, WriteItem, Serve, disk, local
    <3>2. Owed(p, g)' = Owed(p, g)
      BY <3>1 DEF Owed
    <3>3. QED
      BY <2>6, <3>1, <3>2
  <2>11. ~RmtreeRaises(p) /\ ~CancelWrites(p)
    BY <2>0, <2>3 DEF RmtreeRaises, CancelWrites
  <2>12. ASSUME NEW f \in Files, WriteStep(p, f)
         PROVE  Doomed(g)' \/ Sound(g)'
    <3>1. CASE g = f
      <4>1. CASE Doomed(f)
        BY <2>0, <2>12, <3>1, <4>1, DoomedStays
      <4>2. CASE Sound(f) /\ ~Doomed(f)
        BY <2>0, <2>12, <3>1, <4>2, SoundWrite
      <4>3. QED
        BY <2>1, <3>1, <4>1, <4>2
    <3>2. CASE g # f
      <4>1. /\ files'[g] = files[g] /\ temps'[g] = temps[g] /\ mine' = mine /\ lists' = lists
            /\ \A q \in Callers : stage'[q][g] = stage[q][g] /\ (g \in todo'[q] <=> g \in todo[q])
        BY <2>12, <3>2, WriteEffects DEF OnlyOwn
      <4>2. \A q \in Callers : Owed(q, g) => Owed(q, g)'
        BY <4>1 DEF Owed
      <4>3. QED
        BY <2>1, <4>1, <4>2, SoundKept
    <3>3. QED
      BY <3>1, <3>2
  <2>13. CASE ReadItem(p)
    <3>1. /\ lists' = [lists EXCEPT ![p] = item.lists] /\ todo' = [todo EXCEPT ![p] = item.lists]
          /\ files' = files /\ temps' = temps /\ stage' = stage /\ mine' = mine
      BY <2>3, <2>13 DEF ReadItem, disk
    <3>2. lists'[p] = item.lists /\ todo'[p] = item.lists
      BY <3>1 DEF StoreType
    <3>3. Owed(p, g)'
      BY <3>2 DEF Owed
    <3>4. QED
      BY <2>6, <3>1, <3>3
  <2>14. ASSUME NEW f \in Files, ReadAsset(p, f)
         PROVE  Doomed(g)' \/ Sound(g)'
    <3>1. /\ files[f] # Absent /\ todo' = [todo EXCEPT ![p] = @ \ {f}]
          /\ files' = files /\ temps' = temps /\ stage' = stage /\ mine' = mine /\ lists' = lists
      BY <2>3, <2>14 DEF ReadAsset, disk
    <3>2. todo'[p] = todo[p] \ {f}
      BY <3>1 DEF StoreType
    <3>3. ~Present(g) /\ Owed(p, g) => Owed(p, g)'
      BY <3>1, <3>2 DEF Present, Owed
    <3>4. QED
      BY <2>6, <3>1, <3>3
  <2>15. QED
    BY <1>1, <2>3, <2>7, <2>8, <2>9, <2>10, <2>11, <2>12, <2>13, <2>14 DEF Step
<1>2. CASE UNCHANGED vars
  <2>1. UNCHANGED <<files, temps, mine, lists, todo, stage, failed, mishap>>
    BY <1>2 DEF vars, disk, local
  <2>2. ~Disturbed
    BY <2>1 DEF Disturbed
  <2>3. Doomed(g) \/ Sound(g)
    BY <2>2 DEF SoundInv
  <2>4. \A q \in Callers : Owed(q, g)' = Owed(q, g)
    BY <2>1 DEF Owed
  <2>5. QED
    BY <2>1, <2>3, <2>4, SoundKept
<1>3. QED
  BY <1>1, <1>2 DEF Next, Exhausted

-----------------------------------------------------------------------------
LEMMA StoreInvInit ==
  ASSUME Init
  PROVE  StoreInv
<1>1. LocalInv
  BY DEF Init, LocalInv, OwnBuild, Pending, Rebuilding, Saving, NoDirNoFiles, Cleared
<1>2. \A p \in Callers : AloneInv(p)
  BY DEF Init, AloneInv, OneBuild, Present
<1>3. SoundInv
  BY DEF Init, SoundInv, Sound, SoundOf, Owed, Present
<1>4. QED
  BY <1>1, <1>2, <1>3, TypeInit DEF StoreInv

LEMMA StoreInvNext ==
  ASSUME StoreInv, [Next]_vars
  PROVE  StoreInv'
<1>1. StoreType' /\ LocalInv' /\ SoundInv'
  BY TypeNext, LocalNext, SoundNext DEF StoreInv
<1>2. ASSUME NEW r \in Callers PROVE AloneInv(r)'
  BY AloneNext DEF StoreInv
<1>3. QED
  BY <1>1, <1>2 DEF StoreInv

LEMMA StoreCorrect == Spec => []StoreInv
<1>1. Init => StoreInv
  BY StoreInvInit
<1>2. StoreInv /\ [Next]_vars => StoreInv'
  BY StoreInvNext
<1>3. QED
  BY <1>1, <1>2, PTL DEF Spec

(* A product served to a caller under whom nobody else rebuilt is of one   *)
(* save: has_product and load over what dead or failed saves left behind.  *)
THEOREM ServesOneSave == Spec => []ServedFromOneSave
<1>1. StoreInv => ServedFromOneSave
  <2> SUFFICES ASSUME StoreInv, NEW p \in Callers, pc[p] = "served", Alone(p)
               PROVE  Cardinality(read[p]) = 1
    BY DEF ServedFromOneSave
  <2>1. read[p] # {} /\ \A b, d \in read[p] : b = d
    BY DEF StoreInv, LocalInv, Pending, AloneInv, ReadAlone
  <2>2. PICK b \in read[p] : read[p] = {b}
    BY <2>1
  <2>3. QED
    BY <2>2, FS_Singleton
<1>2. QED
  BY <1>1, StoreCorrect, PTL

(* A save nobody else disturbed leaves its item, all its assets whole, no  *)
(* asset of another composite and no temporary file, after any crashes and *)
(* failed writes.                                                          *)
THEOREM SavesWhole == Spec => []SavedIsWhole
<1>1. StoreInv => SavedIsWhole
  BY DEF StoreInv, AloneInv, SavedAlone, Present, SavedIsWhole
<1>2. QED
  BY <1>1, StoreCorrect, PTL

(* Overlapping calls of one asset list that all return leave every listed  *)
(* asset whole, however many callers unlinked, copied and renamed it under *)
(* the same names.                                                         *)
THEOREM ListsWhatIsThere == Spec => []ListedAssetsWhole
<1>1. ASSUME StoreInv
      PROVE  ListedAssetsWhole
  <2> SUFFICES ASSUME ~mishap, item \in Items, \A p \in Callers : Idle(p) /\ lists[p] = item.lists,
                      NEW f \in item.lists
               PROVE  \E b \in Builds : Whole(f, b)
    BY DEF ListedAssetsWhole
  <2>1. f \in Files
    BY FilesOfAssets DEF Items
  <2>2. Callers # {}
    BY <1>1, NamesAssumption DEF StoreInv, LocalInv, Items
  <2>3. \A p \in Callers : ~failed[p] /\ stage[p][f] = "none" /\ todo[p] = {} /\ f \in lists[p]
    BY <1>1, <2>1 DEF StoreInv, LocalInv, Pending, Idle
  <2>4. ~Disturbed /\ ~Doomed(f) /\ \A p \in Callers : ~Owed(p, f)
    BY <2>3 DEF Disturbed, Doomed, Uses, Owed
  <2>5. Sound(f)
    BY <1>1, <2>1, <2>2, <2>4 DEF StoreInv, SoundInv
  <2>6. files[f] # Absent /\ files[f].by # 0 /\ files[f].whole
    BY <2>3, <2>4, <2>5 DEF Sound, Present
  <2>7. files[f].by \in 0..MaxBuilds /\ files[f] = [by |-> files[f].by, whole |-> files[f].whole]
        /\ files[f].whole \in BOOLEAN
    BY <1>1, <2>1, <2>2, <2>6, ContentsFacts DEF StoreInv
  <2>8. files[f].by \in Builds /\ Whole(f, files[f].by)
    BY <2>6, <2>7, StoreAssumption DEF Builds, Whole
  <2>9. QED
    BY <2>8
<1>2. QED
  BY <1>1, StoreCorrect, PTL

(* An item that a crash cut short is a miss for has_product: a load that   *)
(* began under no other rebuild finds the item it was promised.            *)
THEOREM TornItemNeverRaises == Spec => TornItemIsMiss
<1>1. ASSUME StoreInv, [Next]_vars
      PROVE  [\A p \in Callers : pc[p] = "opening" /\ Alone(p) => pc'[p] # "raised"]_vars
  <2> SUFFICES ASSUME Next, NEW p \in Callers, pc[p] = "opening", Alone(p)
               PROVE  pc'[p] # "raised"
    BY <1>1
  <2> USE DEF StoreInv
  <2>1. item \in Items /\ StoreType /\ LocalInv
    BY <1>1 DEF AloneInv
  <2>2. ASSUME NEW q \in Callers \ {p}, Call(q) \/ Step(q) \/ Crash(q)
        PROVE  pc'[p] # "raised"
    <3>1. p \in Callers \ {q}
      BY <2>2
    <3>2. Keeps(p)
      BY <2>1, <2>2, <3>1, OthersKeep
    <3>3. QED
      BY <3>2 DEF Keeps
  <2>3. CASE Crash(p)
    BY <2>1, <2>3 DEF Crash, Leave, Goto, StoreType
  <2>4. CASE ReadItem(p)
    BY <2>1, <2>4 DEF ReadItem, Goto, StoreType
  <2>5. CASE Call(p) \/ (Step(p) /\ ~ReadItem(p))
    <3>1. ~\E f \in Files : WriteStep(p, f)
      BY <2>1, WriteEffects
    <3>2. ~Call(p)
      BY DEF Call, Idle
    <3>3. QED
      BY <2>5, <3>1, <3>2 DEF Step, Build, Unlink, Rmdir, RmtreeRaises, MakeDirs, CancelWrites,
         OpenItem, WriteItem, ReadAsset, Serve
  <2>6. CASE UNCHANGED vars
    BY <2>6 DEF vars
  <2>7. QED
    BY <2>2, <2>3, <2>4, <2>5, <2>6 DEF Next, Exhausted
<1>2. QED
  BY <1>1, StoreCorrect, PTL DEF Spec, TornItemIsMiss
=============================================================================
