------------------------- MODULE StacDiskCacheProofs -------------------------
(***************************************************************************)
(* StacDiskCache implements CacheEntry, for any number of processes,       *)
(* values, stores and damages.                                             *)
(***************************************************************************)
EXTENDS StacDiskCache, TLAPS

Contents == Data \cup Garbage \cup {Miss}

Points == {"idle", "stored", "store_failed", "store_raised", "opening",
           "mkdir", "write", "write_rest", "replace", "discard"}
Storing == {"mkdir", "write", "write_rest", "replace"}

CacheType == /\ file \in Contents
             /\ temp \in [Users -> Data \cup {NoTemp, Part}]
             /\ pc \in [Users -> Points]
             /\ value \in [Users -> Data \cup {Miss}]
             /\ got \in [Users -> Data \cup {Miss}]
             /\ offered \subseteq Data
             /\ damages \in Nat

(* What a store has in hand was offered; what it moves under the final     *)
(* name is the whole of it.                                                *)
InHand == \A p \in Users : /\ pc[p] \in Storing => value[p] \in offered
                           /\ pc[p] = "replace" => temp[p] = value[p]

CacheInv == CacheType /\ InHand

LEMMA CacheInvInit ==
  ASSUME CacheInit
  PROVE  CacheInv
BY DEF CacheInit, CacheInv, CacheType, InHand, Contents, Points, Storing

(* Bytes that do not decode would raise out of a load; they are assumed    *)
(* away in the lemmas about what a load returns.                           *)
LEMMA ParsedWhole ==
  ASSUME CacheType, "undecodable" \notin Garbage
  PROVE  Parsed = IF file \in Data THEN file ELSE Miss
BY CacheAssumption DEF CacheType, Contents, Parsed, Damages

LEMMA CacheInvNext ==
  ASSUME CacheInv, "undecodable" \notin Garbage, [CacheNext]_cacheVars
  PROVE  CacheInv'
<1> USE DEF CacheInv, CacheType, InHand, Contents, Points, Storing, Goto
<1>1. ASSUME NEW p \in Users, StartLoad(p)
      PROVE  CacheInv'
  BY <1>1 DEF StartLoad
<1>2. ASSUME NEW p \in Users, ReadFile(p)
      PROVE  CacheInv'
  <2>1. Parsed \in Data \cup {Miss}
    BY ParsedWhole
  <2>2. QED
    BY <1>2, <2>1 DEF ReadFile
<1>3. ASSUME NEW p \in Users, StartStore(p)
      PROVE  CacheInv'
  BY <1>3 DEF StartStore
<1>4. ASSUME NEW p \in Users, MakeTemp(p)
      PROVE  CacheInv'
  BY <1>4 DEF MakeTemp
<1>5. ASSUME NEW p \in Users, WriteTemp(p)
      PROVE  CacheInv'
  BY <1>5 DEF WriteTemp, InTemp
<1>6. ASSUME NEW p \in Users, WriteRest(p)
      PROVE  CacheInv'
  BY <1>6 DEF WriteRest
<1>7. ASSUME NEW p \in Users, Replace(p)
      PROVE  CacheInv'
  BY <1>7 DEF Replace
<1>8. ASSUME NEW p \in Users, Discard(p)
      PROVE  CacheInv'
  BY <1>8 DEF Discard, AfterUnlink
<1>9. ASSUME NEW p \in Users, Crash(p)
      PROVE  CacheInv'
  BY <1>9 DEF Crash
<1>10. CASE Damage
  BY <1>10 DEF Damage
<1>11. CASE UNCHANGED cacheVars
  BY <1>11 DEF cacheVars
<1>12. QED
  BY <1>1, <1>2, <1>3, <1>4, <1>5, <1>6, <1>7, <1>8, <1>9, <1>10, <1>11 DEF CacheNext

(* The entry that a load would return now.                                 *)
Held == IF file \in Data THEN file ELSE Miss

LEMMA InitImplements ==
  ASSUME CacheInit
  PROVE  Entry!Init
BY CacheAssumption DEF CacheInit, Entry!Init

LEMMA LoadImplements ==
  ASSUME CacheInv, "undecodable" \notin Garbage, NEW p \in Users,
         got' = [got EXCEPT ![p] = Held], UNCHANGED <<file, offered, damages>>
  PROVE  Entry!Next
<1>1. Entry!Load(p)
  BY DEF Entry!Load, Held
<1>2. QED
  BY <1>1 DEF Entry!Next

LEMMA StepImplements ==
  ASSUME CacheInv, "undecodable" \notin Garbage, [CacheNext]_cacheVars
  PROVE  [Entry!Next]_(Entry!vars)
<1> DEFINE Still == UNCHANGED <<file, got, offered, damages>>
<1>1. Still => UNCHANGED Entry!vars
  BY DEF Entry!vars
<1>2. ASSUME NEW p \in Users, StartLoad(p)
      PROVE  Still \/ Entry!Next
  <2>1. CASE file = Miss
    <3>1. Held = Miss
      BY <2>1 DEF Held
    <3>2. QED
      BY <1>2, <2>1, <3>1, LoadImplements DEF StartLoad
  <2>2. CASE file # Miss
    BY <1>2, <2>2 DEF StartLoad
  <2>3. QED
    BY <2>1, <2>2
<1>3. ASSUME NEW p \in Users, ReadFile(p)
      PROVE  Entry!Next
  <2>1. Parsed = Held
    BY ParsedWhole DEF CacheInv, Held
  <2>2. QED
    BY <1>3, <2>1, LoadImplements DEF ReadFile
<1>4. ASSUME NEW p \in Users, StartStore(p)
      PROVE  Entry!Next
  <2>1. Entry!Offer
    BY <1>4 DEF StartStore, Entry!Offer
  <2>2. QED
    BY <2>1 DEF Entry!Next
<1>5. ASSUME NEW p \in Users, Replace(p)
      PROVE  Still \/ Entry!Next
  <2>1. CASE file' = temp[p]
    <3>1. temp[p] \in offered /\ temp[p] \in Data
      BY <1>5 DEF CacheInv, CacheType, InHand, Storing, Replace
    <3>2. Entry!Store
      BY <1>5, <2>1, <3>1 DEF Replace, Entry!Store
    <3>3. QED
      BY <3>2 DEF Entry!Next
  <2>2. CASE UNCHANGED file
    BY <1>5, <2>2 DEF Replace
  <2>3. QED
    BY <1>5, <2>1, <2>2 DEF Replace
<1>6. CASE Damage
  <2>1. file' \notin Data
    BY <1>6, CacheAssumption DEF Damage
  <2>2. Entry!Lose
    BY <1>6, <2>1 DEF Damage, Entry!Lose
  <2>3. QED
    BY <2>2 DEF Entry!Next
<1>7. ASSUME NEW p \in Users,
             MakeTemp(p) \/ WriteTemp(p) \/ WriteRest(p) \/ Discard(p) \/ Crash(p)
      PROVE  Still
  BY <1>7 DEF MakeTemp, WriteTemp, InTemp, WriteRest, Discard, Crash
<1>8. CASE UNCHANGED cacheVars
  BY <1>1, <1>8 DEF cacheVars
<1>9. QED
  BY <1>1, <1>2, <1>3, <1>4, <1>5, <1>6, <1>7, <1>8 DEF CacheNext

(* Whatever the processes, a full disk and their deaths do, a load returns *)
(* one whole stored value and a stored value is lost to damage alone, if   *)
(* damage leaves text that decodes (stac_cache.py:11-14, 36-37, 161-187).  *)
THEOREM CacheImplements ==
  ASSUME "undecodable" \notin Garbage
  PROVE  CacheSpec => ImplementsEntry
<1>1. CacheInit => CacheInv /\ Entry!Init
  BY CacheInvInit, InitImplements
<1>2. CacheInv /\ [CacheNext]_cacheVars => CacheInv'
  BY CacheInvNext
<1>3. CacheInv /\ [CacheNext]_cacheVars => [Entry!Next]_(Entry!vars)
  BY StepImplements
<1>4. QED
  BY <1>1, <1>2, <1>3, PTL DEF CacheSpec, ImplementsEntry, Entry!Spec
=============================================================================
