-------------------------- MODULE SpaceFreezeProofs --------------------------
(***************************************************************************)
(* Jobs that release the management lock while they copy are undisturbed,  *)
(* and freeze markers belong to spaces, for any number of names, spaces,   *)
(* sessions and jobs.                                                      *)
(***************************************************************************)
EXTENDS SpaceFreeze, TLAPS

(* A space is at one path, and an identity is new when it is published.    *)
PlaceInv ==
    /\ \A m, n \in Names : dir[m] = dir[n] /\ dir[m] # None => m = n
    /\ \A n \in Names : dir[n] \notin unused
    /\ stable \cap unused = {}

(* A job holds the `.active` lock of its source, alone if exclusively.     *)
LockInv ==
    /\ \A j \in Jobs : job[j] # None => activity[j] = job[j].space
    /\ \A j \in Jobs, p \in Sessions \cup Jobs :
          Exclusive(j) /\ p # j => activity[p] # job[j].space

(* ... and so the source stays where the job found it.                     *)
SourceInv ==
    \A j \in Jobs : job[j] # None =>
        /\ dir[job[j].name] = job[j].space
        /\ generation[job[j].space] = job[j].generation
        /\ Exclusive(j) => writes[job[j].space] = job[j].writes

(* A session opened since a space was frozen has read the frozen identity, *)
(* so Lease refuses it; one that is active is open.                        *)
SinceInv ==
    /\ \A s \in Sessions : activity[s] # None => handle[s] # None
    /\ \A d \in frozen, s \in Sessions :
          handle[s] # None /\ s \notin early[d] /\ dir[handle[s].name] = d => handle[s].id = d

FInv ==
    /\ TypeOK
    /\ PlaceInv
    /\ MarkersHaveSpaces
    /\ LockInv
    /\ SourceInv
    /\ SinceInv
    /\ OnlyEarlySessions
    /\ ReplacedAtMostOnce

USE FreezeAssumption DEF Handles, Kinds, Prepared, spaceVars, jobVars, procVars, sinceVars, freezeVars

LEMMA InitFInv == Init => FInv
<1> SUFFICES ASSUME Init PROVE FInv
  OBVIOUS
<1>1. TypeOK
  BY DEF Init, TypeOK, PlacedSpaces
<1>2. PlaceInv
  BY DEF Init, PlaceInv, PlacedSpaces
<1>3. MarkersHaveSpaces /\ LockInv /\ SourceInv
  BY DEF Init, MarkersHaveSpaces, LockInv, SourceInv, Exclusive
<1>4. SinceInv /\ OnlyEarlySessions /\ ReplacedAtMostOnce
  BY DEF Init, SinceInv, OnlyEarlySessions, ReplacedAtMostOnce
<1> QED
  BY <1>1, <1>2, <1>3, <1>4 DEF FInv

LEMMA FreezeFInv ==
    ASSUME FInv, NEW n \in Names, Freeze(n)
    PROVE  FInv'
<1>1. TypeOK'
  BY DEF Freeze, FInv, TypeOK
<1>2. PlaceInv'
  BY DEF Freeze, FInv, TypeOK, PlaceInv
<1>3. MarkersHaveSpaces'
  BY DEF Freeze, FInv, TypeOK, PlaceInv, MarkersHaveSpaces
<1>4. LockInv'
  BY DEF Freeze, FInv, TypeOK, LockInv, Exclusive
<1>5. SourceInv'
  BY DEF Freeze, FInv, TypeOK, LockInv, SourceInv, Exclusive
<1>6. SinceInv'
  BY DEF Freeze, FInv, TypeOK, PlaceInv, SinceInv
<1>7. OnlyEarlySessions'
  BY DEF Freeze, FInv, TypeOK, PlaceInv, LockInv, SinceInv, OnlyEarlySessions, Exclusive
<1>8. ReplacedAtMostOnce'
  BY DEF Freeze, FInv, TypeOK, PlaceInv, LockInv, SourceInv, ReplacedAtMostOnce, Exclusive
<1> QED
  BY <1>1, <1>2, <1>3, <1>4, <1>5, <1>6, <1>7, <1>8 DEF FInv

LEMMA UnfreezeFInv ==
    ASSUME FInv, NEW n \in Names, Unfreeze(n)
    PROVE  FInv'
<1>1. TypeOK'
  BY DEF Unfreeze, FInv, TypeOK
<1>2. PlaceInv'
  BY DEF Unfreeze, FInv, TypeOK, PlaceInv
<1>3. MarkersHaveSpaces'
  BY DEF Unfreeze, FInv, TypeOK, PlaceInv, MarkersHaveSpaces
<1>4. LockInv'
  BY DEF Unfreeze, FInv, TypeOK, LockInv, Exclusive
<1>5. SourceInv'
  BY DEF Unfreeze, FInv, TypeOK, LockInv, SourceInv, Exclusive
<1>6. SinceInv'
  BY DEF Unfreeze, FInv, TypeOK, PlaceInv, SinceInv
<1>7. OnlyEarlySessions'
  BY DEF Unfreeze, FInv, TypeOK, PlaceInv, LockInv, SinceInv, OnlyEarlySessions, Exclusive
<1>8. ReplacedAtMostOnce'
  BY DEF Unfreeze, FInv, TypeOK, PlaceInv, LockInv, SourceInv, ReplacedAtMostOnce, Exclusive
<1> QED
  BY <1>1, <1>2, <1>3, <1>4, <1>5, <1>6, <1>7, <1>8 DEF FInv

LEMMA OpenFInv ==
    ASSUME FInv, NEW s \in Sessions, NEW n \in Names, Open(s, n)
    PROVE  FInv'
<1>1. TypeOK'
  BY DEF Open, IdOf, FInv, TypeOK
<1>2. PlaceInv'
  BY DEF Open, IdOf, FInv, TypeOK, PlaceInv
<1>3. MarkersHaveSpaces'
  BY DEF Open, IdOf, FInv, TypeOK, PlaceInv, MarkersHaveSpaces
<1>4. LockInv'
  BY DEF Open, IdOf, FInv, TypeOK, LockInv, Exclusive
<1>5. SourceInv'
  BY DEF Open, IdOf, FInv, TypeOK, LockInv, SourceInv, Exclusive
<1>6. SinceInv'
  BY DEF Open, IdOf, FInv, TypeOK, PlaceInv, SinceInv
<1>7. OnlyEarlySessions'
  BY DEF Open, IdOf, FInv, TypeOK, PlaceInv, LockInv, SinceInv, OnlyEarlySessions, Exclusive
<1>8. ReplacedAtMostOnce'
  BY DEF Open, IdOf, FInv, TypeOK, PlaceInv, LockInv, SourceInv, ReplacedAtMostOnce, Exclusive
<1> QED
  BY <1>1, <1>2, <1>3, <1>4, <1>5, <1>6, <1>7, <1>8 DEF FInv

LEMMA LeaseFInv ==
    ASSUME FInv, NEW s \in Sessions, Lease(s)
    PROVE  FInv'
<1>1. TypeOK'
  BY DEF Lease, Shareable, FInv, TypeOK
<1>2. PlaceInv'
  BY DEF Lease, Shareable, FInv, TypeOK, PlaceInv
<1>3. MarkersHaveSpaces'
  BY DEF Lease, Shareable, FInv, TypeOK, PlaceInv, MarkersHaveSpaces
<1>4. LockInv'
  BY DEF Lease, Shareable, FInv, TypeOK, LockInv, Exclusive
<1>5. SourceInv'
  BY DEF Lease, Shareable, FInv, TypeOK, LockInv, SourceInv, Exclusive
<1>6. SinceInv'
  BY DEF Lease, Shareable, FInv, TypeOK, PlaceInv, SinceInv
<1>7. OnlyEarlySessions'
  BY DEF Lease, NotFrozen, FInv, TypeOK, SinceInv, OnlyEarlySessions
<1>8. ReplacedAtMostOnce'
  BY DEF Lease, Shareable, FInv, TypeOK, PlaceInv, LockInv, SourceInv, ReplacedAtMostOnce, Exclusive
<1> QED
  BY <1>1, <1>2, <1>3, <1>4, <1>5, <1>6, <1>7, <1>8 DEF FInv

LEMMA WriteFInv ==
    ASSUME FInv, NEW s \in Sessions, Write(s)
    PROVE  FInv'
<1>1. TypeOK'
  BY DEF Write, FInv, TypeOK
<1>2. PlaceInv'
  BY DEF Write, FInv, TypeOK, PlaceInv
<1>3. MarkersHaveSpaces'
  BY DEF Write, FInv, TypeOK, PlaceInv, MarkersHaveSpaces
<1>4. LockInv'
  BY DEF Write, FInv, TypeOK, LockInv, Exclusive
<1>5. SourceInv'
  BY DEF Write, FInv, TypeOK, LockInv, SourceInv, Exclusive
<1>6. SinceInv'
  BY DEF Write, FInv, TypeOK, PlaceInv, SinceInv
<1>7. OnlyEarlySessions'
  BY DEF Write, FInv, TypeOK, PlaceInv, LockInv, SinceInv, OnlyEarlySessions, Exclusive
<1>8. ReplacedAtMostOnce'
  BY DEF Write, FInv, TypeOK, PlaceInv, LockInv, SourceInv, ReplacedAtMostOnce, Exclusive
<1> QED
  BY <1>1, <1>2, <1>3, <1>4, <1>5, <1>6, <1>7, <1>8 DEF FInv

LEMMA CloseFInv ==
    ASSUME FInv, NEW s \in Sessions, Close(s)
    PROVE  FInv'
<1>1. TypeOK'
  BY DEF Close, FInv, TypeOK
<1>2. PlaceInv'
  BY DEF Close, FInv, TypeOK, PlaceInv
<1>3. MarkersHaveSpaces'
  BY DEF Close, FInv, TypeOK, PlaceInv, MarkersHaveSpaces
<1>4. LockInv'
  BY DEF Close, FInv, TypeOK, LockInv, Exclusive
<1>5. SourceInv'
  BY DEF Close, FInv, TypeOK, LockInv, SourceInv, Exclusive
<1>6. SinceInv'
  BY DEF Close, FInv, TypeOK, PlaceInv, SinceInv
<1>7. OnlyEarlySessions'
  BY DEF Close, FInv, TypeOK, PlaceInv, LockInv, SinceInv, OnlyEarlySessions, Exclusive
<1>8. ReplacedAtMostOnce'
  BY DEF Close, FInv, TypeOK, PlaceInv, LockInv, SourceInv, ReplacedAtMostOnce, Exclusive
<1> QED
  BY <1>1, <1>2, <1>3, <1>4, <1>5, <1>6, <1>7, <1>8 DEF FInv

LEMMA PrepareRollbackFInv ==
    ASSUME FInv, NEW j \in Jobs, NEW n \in Names, PrepareRollback(j, n)
    PROVE  FInv'
<1>1. TypeOK'
  BY DEF PrepareRollback, Begin, Unleased, FInv, TypeOK
<1>2. PlaceInv'
  BY DEF PrepareRollback, Begin, Unleased, FInv, TypeOK, PlaceInv
<1>3. MarkersHaveSpaces'
  BY DEF PrepareRollback, Begin, Unleased, FInv, TypeOK, PlaceInv, MarkersHaveSpaces
<1>4. LockInv'
  BY DEF PrepareRollback, Begin, Unleased, FInv, TypeOK, LockInv, Exclusive
<1>5. SourceInv'
  BY DEF PrepareRollback, Begin, Unleased, FInv, TypeOK, LockInv, SourceInv, Exclusive
<1>6. SinceInv'
  BY DEF PrepareRollback, Begin, Unleased, FInv, TypeOK, PlaceInv, SinceInv
<1>7. OnlyEarlySessions'
  BY DEF PrepareRollback, Begin, Unleased, FInv, TypeOK, PlaceInv, LockInv, SinceInv, OnlyEarlySessions, Exclusive
<1>8. ReplacedAtMostOnce'
  BY DEF PrepareRollback, NotFrozen, IdOf, Begin, FInv, TypeOK, ReplacedAtMostOnce
<1> QED
  BY <1>1, <1>2, <1>3, <1>4, <1>5, <1>6, <1>7, <1>8 DEF FInv

LEMMA PrepareCaptureFInv ==
    ASSUME FInv, NEW j \in Jobs, NEW n \in Names, PrepareCapture(j, n)
    PROVE  FInv'
<1>1. TypeOK'
  BY DEF PrepareCapture, Begin, Unleased, FInv, TypeOK
<1>2. PlaceInv'
  BY DEF PrepareCapture, Begin, Unleased, FInv, TypeOK, PlaceInv
<1>3. MarkersHaveSpaces'
  BY DEF PrepareCapture, Begin, Unleased, FInv, TypeOK, PlaceInv, MarkersHaveSpaces
<1>4. LockInv'
  BY DEF PrepareCapture, Begin, Unleased, FInv, TypeOK, LockInv, Exclusive
<1>5. SourceInv'
  BY DEF PrepareCapture, Begin, Unleased, FInv, TypeOK, LockInv, SourceInv, Exclusive
<1>6. SinceInv'
  BY DEF PrepareCapture, Begin, Unleased, FInv, TypeOK, PlaceInv, SinceInv
<1>7. OnlyEarlySessions'
  BY DEF PrepareCapture, Begin, Unleased, FInv, TypeOK, PlaceInv, LockInv, SinceInv, OnlyEarlySessions, Exclusive
<1>8. ReplacedAtMostOnce'
  BY DEF PrepareCapture, Begin, Unleased, FInv, TypeOK, PlaceInv, LockInv, SourceInv, ReplacedAtMostOnce, Exclusive
<1> QED
  BY <1>1, <1>2, <1>3, <1>4, <1>5, <1>6, <1>7, <1>8 DEF FInv

LEMMA PrepareActiveFInv ==
    ASSUME FInv, NEW j \in Jobs, NEW n \in Names, PrepareActive(j, n)
    PROVE  FInv'
<1>1. TypeOK'
  BY DEF PrepareActive, Begin, Shareable, FInv, TypeOK
<1>2. PlaceInv'
  BY DEF PrepareActive, Begin, Shareable, FInv, TypeOK, PlaceInv
<1>3. MarkersHaveSpaces'
  BY DEF PrepareActive, Begin, Shareable, FInv, TypeOK, PlaceInv, MarkersHaveSpaces
<1>4. LockInv'
  BY DEF PrepareActive, Begin, Shareable, FInv, TypeOK, LockInv, Exclusive
<1>5. SourceInv'
  BY DEF PrepareActive, Begin, Shareable, FInv, TypeOK, LockInv, SourceInv, Exclusive
<1>6. SinceInv'
  BY DEF PrepareActive, Begin, Shareable, FInv, TypeOK, PlaceInv, SinceInv
<1>7. OnlyEarlySessions'
  BY DEF PrepareActive, Begin, Shareable, FInv, TypeOK, PlaceInv, LockInv, SinceInv, OnlyEarlySessions, Exclusive
<1>8. ReplacedAtMostOnce'
  BY DEF PrepareActive, Begin, Shareable, FInv, TypeOK, PlaceInv, LockInv, SourceInv, ReplacedAtMostOnce, Exclusive
<1> QED
  BY <1>1, <1>2, <1>3, <1>4, <1>5, <1>6, <1>7, <1>8 DEF FInv

LEMMA PublishRollbackFInv ==
    ASSUME FInv, NEW j \in Jobs, PublishRollback(j)
    PROVE  FInv'
<1>1. TypeOK'
  BY DEF PublishRollback, End, FInv, TypeOK
<1>2. PlaceInv'
  BY DEF PublishRollback, End, FInv, TypeOK, PlaceInv
<1>3. MarkersHaveSpaces'
  BY DEF PublishRollback, End, FInv, TypeOK, PlaceInv, MarkersHaveSpaces
<1>4. LockInv'
  BY DEF PublishRollback, End, FInv, TypeOK, LockInv, Exclusive
<1>5. SourceInv'
  BY DEF PublishRollback, End, FInv, TypeOK, LockInv, SourceInv, Exclusive
<1>6. SinceInv'
  BY DEF PublishRollback, End, FInv, TypeOK, PlaceInv, SinceInv
<1>7. OnlyEarlySessions'
  BY DEF PublishRollback, End, FInv, TypeOK, PlaceInv, LockInv, SinceInv, OnlyEarlySessions, Exclusive
<1>8. ReplacedAtMostOnce'
  <2> DEFINE e == job[j].space
  <2>1. /\ job[j] # None /\ job[j].kind = "rollback" /\ e \in Spaces /\ j \in Jobs
        /\ UNCHANGED <<frozen, base>>
        /\ generation' = [generation EXCEPT ![e] = @ + 1]
        /\ job' = [job EXCEPT ![j] = None]
        /\ generation \in [Spaces -> Nat] /\ base \in [Spaces -> Nat] /\ frozen \subseteq Spaces
        /\ job \in [Jobs -> Prepared \cup {None}]
    BY DEF PublishRollback, End, FInv, TypeOK
  <2>2. \A i \in Jobs : i # j /\ job[i] # None => job[i].space # e
    BY <2>1 DEF FInv, LockInv, Exclusive
  <2>3. e \in frozen => generation[e] <= base[e]
    BY <2>1 DEF FInv, ReplacedAtMostOnce
  <2>4. ASSUME NEW d \in frozen
        PROVE  /\ generation'[d] <= base[d] + 1
               /\ generation'[d] = base[d] + 1 =>
                     \A i \in Jobs : job'[i] # None /\ job'[i].kind = "rollback" =>
                                         job'[i].space # d
    <3>1. CASE d = e
      BY <2>1, <2>2, <2>3, <3>1
    <3>2. CASE d # e
      BY <2>1, <3>2 DEF FInv, ReplacedAtMostOnce
    <3> QED
      BY <3>1, <3>2
  <2> QED
    BY <2>1, <2>4 DEF ReplacedAtMostOnce
<1> QED
  BY <1>1, <1>2, <1>3, <1>4, <1>5, <1>6, <1>7, <1>8 DEF FInv

LEMMA PublishArtifactFInv ==
    ASSUME FInv, NEW j \in Jobs, PublishArtifact(j)
    PROVE  FInv'
<1>1. TypeOK'
  BY DEF PublishArtifact, End, FInv, TypeOK
<1>2. PlaceInv'
  BY DEF PublishArtifact, End, FInv, TypeOK, PlaceInv
<1>3. MarkersHaveSpaces'
  BY DEF PublishArtifact, End, FInv, TypeOK, PlaceInv, MarkersHaveSpaces
<1>4. LockInv'
  BY DEF PublishArtifact, End, FInv, TypeOK, LockInv, Exclusive
<1>5. SourceInv'
  BY DEF PublishArtifact, End, FInv, TypeOK, LockInv, SourceInv, Exclusive
<1>6. SinceInv'
  BY DEF PublishArtifact, End, FInv, TypeOK, PlaceInv, SinceInv
<1>7. OnlyEarlySessions'
  BY DEF PublishArtifact, End, FInv, TypeOK, PlaceInv, LockInv, SinceInv, OnlyEarlySessions, Exclusive
<1>8. ReplacedAtMostOnce'
  BY DEF PublishArtifact, End, FInv, TypeOK, PlaceInv, LockInv, SourceInv, ReplacedAtMostOnce, Exclusive
<1> QED
  BY <1>1, <1>2, <1>3, <1>4, <1>5, <1>6, <1>7, <1>8 DEF FInv

LEMMA AbandonFInv ==
    ASSUME FInv, NEW j \in Jobs, Abandon(j)
    PROVE  FInv'
<1>1. TypeOK'
  BY DEF Abandon, End, FInv, TypeOK
<1>2. PlaceInv'
  BY DEF Abandon, End, FInv, TypeOK, PlaceInv
<1>3. MarkersHaveSpaces'
  BY DEF Abandon, End, FInv, TypeOK, PlaceInv, MarkersHaveSpaces
<1>4. LockInv'
  BY DEF Abandon, End, FInv, TypeOK, LockInv, Exclusive
<1>5. SourceInv'
  BY DEF Abandon, End, FInv, TypeOK, LockInv, SourceInv, Exclusive
<1>6. SinceInv'
  BY DEF Abandon, End, FInv, TypeOK, PlaceInv, SinceInv
<1>7. OnlyEarlySessions'
  BY DEF Abandon, End, FInv, TypeOK, PlaceInv, LockInv, SinceInv, OnlyEarlySessions, Exclusive
<1>8. ReplacedAtMostOnce'
  BY DEF Abandon, End, FInv, TypeOK, PlaceInv, LockInv, SourceInv, ReplacedAtMostOnce, Exclusive
<1> QED
  BY <1>1, <1>2, <1>3, <1>4, <1>5, <1>6, <1>7, <1>8 DEF FInv

LEMMA RenameFInv ==
    ASSUME FInv, NEW m \in Names, NEW n \in Names, Rename(m, n)
    PROVE  FInv'
<1>1. TypeOK'
  BY DEF Rename, NotFrozen, Unleased, FInv, TypeOK
<1>2. PlaceInv'
  BY DEF Rename, NotFrozen, Unleased, FInv, TypeOK, PlaceInv
<1>3. MarkersHaveSpaces'
  BY DEF Rename, NotFrozen, Unleased, FInv, TypeOK, PlaceInv, MarkersHaveSpaces
<1>4. LockInv'
  BY DEF Rename, NotFrozen, Unleased, FInv, TypeOK, LockInv, Exclusive
<1>5. SourceInv'
  BY DEF Rename, NotFrozen, Unleased, FInv, TypeOK, LockInv, SourceInv, Exclusive
<1>6. SinceInv'
  BY DEF Rename, NotFrozen, Unleased, FInv, TypeOK, PlaceInv, SinceInv
<1>7. OnlyEarlySessions'
  BY DEF Rename, NotFrozen, Unleased, FInv, TypeOK, PlaceInv, LockInv, SinceInv, OnlyEarlySessions, Exclusive
<1>8. ReplacedAtMostOnce'
  BY DEF Rename, NotFrozen, Unleased, FInv, TypeOK, PlaceInv, LockInv, SourceInv, ReplacedAtMostOnce, Exclusive
<1> QED
  BY <1>1, <1>2, <1>3, <1>4, <1>5, <1>6, <1>7, <1>8 DEF FInv

LEMMA UpgradeFInv ==
    ASSUME FInv, NEW n \in Names, Upgrade(n)
    PROVE  FInv'
<1>1. TypeOK'
  BY DEF Upgrade, Unleased, FInv, TypeOK
<1>2. PlaceInv'
  BY DEF Upgrade, Unleased, FInv, TypeOK, PlaceInv
<1>3. MarkersHaveSpaces'
  BY DEF Upgrade, Unleased, FInv, TypeOK, PlaceInv, MarkersHaveSpaces
<1>4. LockInv'
  BY DEF Upgrade, Unleased, FInv, TypeOK, LockInv, Exclusive
<1>5. SourceInv'
  BY DEF Upgrade, Unleased, FInv, TypeOK, LockInv, SourceInv, Exclusive
<1>6. SinceInv'
  BY DEF Upgrade, Unleased, FInv, TypeOK, PlaceInv, SinceInv
<1>7. OnlyEarlySessions'
  BY DEF Upgrade, Unleased, FInv, TypeOK, PlaceInv, LockInv, SinceInv, OnlyEarlySessions, Exclusive
<1>8. ReplacedAtMostOnce'
  BY DEF Upgrade, Unleased, FInv, TypeOK, PlaceInv, LockInv, SourceInv, ReplacedAtMostOnce, Exclusive
<1> QED
  BY <1>1, <1>2, <1>3, <1>4, <1>5, <1>6, <1>7, <1>8 DEF FInv

LEMMA RemoveFInv ==
    ASSUME FInv, NEW n \in Names, Remove(n)
    PROVE  FInv'
<1>1. TypeOK'
  BY DEF Remove, NotFrozen, IdOf, Unleased, FInv, TypeOK
<1>2. PlaceInv'
  BY DEF Remove, NotFrozen, IdOf, Unleased, FInv, TypeOK, PlaceInv
<1>3. MarkersHaveSpaces'
  BY DEF Remove, NotFrozen, IdOf, Unleased, FInv, TypeOK, PlaceInv, MarkersHaveSpaces
<1>4. LockInv'
  BY DEF Remove, NotFrozen, IdOf, Unleased, FInv, TypeOK, LockInv, Exclusive
<1>5. SourceInv'
  BY DEF Remove, NotFrozen, IdOf, Unleased, FInv, TypeOK, LockInv, SourceInv, Exclusive
<1>6. SinceInv'
  BY DEF Remove, NotFrozen, IdOf, Unleased, FInv, TypeOK, PlaceInv, SinceInv
<1>7. OnlyEarlySessions'
  BY DEF Remove, NotFrozen, IdOf, Unleased, FInv, TypeOK, PlaceInv, LockInv, SinceInv, OnlyEarlySessions, Exclusive
<1>8. ReplacedAtMostOnce'
  BY DEF Remove, NotFrozen, IdOf, Unleased, FInv, TypeOK, PlaceInv, LockInv, SourceInv, ReplacedAtMostOnce, Exclusive
<1> QED
  BY <1>1, <1>2, <1>3, <1>4, <1>5, <1>6, <1>7, <1>8 DEF FInv

LEMMA CreateFInv ==
    ASSUME FInv, NEW n \in Names, NEW d \in Spaces, Create(n, d)
    PROVE  FInv'
<1>1. TypeOK'
  BY DEF Create, FInv, TypeOK
<1>2. PlaceInv'
  BY DEF Create, FInv, TypeOK, PlaceInv
<1>3. MarkersHaveSpaces'
  BY DEF Create, FInv, TypeOK, PlaceInv, MarkersHaveSpaces
<1>4. LockInv'
  BY DEF Create, FInv, TypeOK, LockInv, Exclusive
<1>5. SourceInv'
  BY DEF Create, FInv, TypeOK, LockInv, SourceInv, Exclusive
<1>6. SinceInv'
  BY DEF Create, FInv, TypeOK, PlaceInv, SinceInv
<1>7. OnlyEarlySessions'
  BY DEF Create, FInv, TypeOK, PlaceInv, LockInv, SinceInv, OnlyEarlySessions, Exclusive
<1>8. ReplacedAtMostOnce'
  BY DEF Create, FInv, TypeOK, PlaceInv, LockInv, SourceInv, ReplacedAtMostOnce, Exclusive
<1> QED
  BY <1>1, <1>2, <1>3, <1>4, <1>5, <1>6, <1>7, <1>8 DEF FInv
LEMMA StutterFInv == ASSUME FInv, UNCHANGED vars PROVE FInv'
BY DEF FInv, vars, TypeOK, PlaceInv, MarkersHaveSpaces, LockInv, SourceInv, SinceInv,
       OnlyEarlySessions, ReplacedAtMostOnce, Exclusive

LEMMA NextFInv == ASSUME FInv, [Next]_vars PROVE FInv'
<1>1. CASE UNCHANGED vars
  BY <1>1, StutterFInv
<1>2. ASSUME NEW n \in Names,
             Freeze(n) \/ Unfreeze(n) \/ Upgrade(n) \/ Remove(n)
      PROVE  FInv'
  BY <1>2, FreezeFInv, UnfreezeFInv, UpgradeFInv, RemoveFInv
<1>3. ASSUME NEW m \in Names, NEW n \in Names, Rename(m, n) PROVE FInv'
  BY <1>3, RenameFInv
<1>4. ASSUME NEW n \in Names, NEW d \in Spaces, Create(n, d) PROVE FInv'
  BY <1>4, CreateFInv
<1>5. ASSUME NEW s \in Sessions, NEW n \in Names, Open(s, n) PROVE FInv'
  BY <1>5, OpenFInv
<1>6. ASSUME NEW j \in Jobs, NEW n \in Names,
             PrepareRollback(j, n) \/ PrepareCapture(j, n) \/ PrepareActive(j, n)
      PROVE  FInv'
  BY <1>6, PrepareRollbackFInv, PrepareCaptureFInv, PrepareActiveFInv
<1>7. ASSUME NEW s \in Sessions, Lease(s) \/ Write(s) \/ Close(s) PROVE FInv'
  BY <1>7, LeaseFInv, WriteFInv, CloseFInv
<1>8. ASSUME NEW j \in Jobs, PublishRollback(j) \/ PublishArtifact(j) \/ Abandon(j)
      PROVE  FInv'
  BY <1>8, PublishRollbackFInv, PublishArtifactFInv, AbandonFInv
<1> QED
  BY <1>1, <1>2, <1>3, <1>4, <1>5, <1>6, <1>7, <1>8 DEF Next

(* The inductive invariant holds in every reachable state.                 *)
THEOREM FreezeSafety == Spec => []FInv
BY InitFInv, NextFInv, PTL DEF Spec

(* The state keeps its types; in particular only stable spaces are frozen. *)
THEOREM FreezeTypeCorrect == Spec => []TypeOK
<1>1. FInv => TypeOK
  BY DEF FInv
<1> QED
  BY <1>1, FreezeSafety, PTL

(* Every freeze marker belongs to a visible space: freeze and unfreeze can *)
(* always reach it, whatever is renamed, removed or rolled back.           *)
THEOREM FreezeMarkersHaveSpaces == Spec => []MarkersHaveSpaces
<1>1. FInv => MarkersHaveSpaces
  BY DEF FInv
<1> QED
  BY <1>1, FreezeSafety, PTL

(* Between the two management sections of a rollback or of an inactive     *)
(* capture nothing it reads changes.                                       *)
THEOREM JobsQuiescent == Spec => []ExclusiveJobsQuiescent
<1>1. FInv => ExclusiveJobsQuiescent
  BY DEF FInv, SourceInv, ExclusiveJobsQuiescent, Exclusive
<1> QED
  BY <1>1, FreezeSafety, PTL

(* No lifecycle operation on its source overlaps an active capture.        *)
THEOREM ActiveCapturesUndisturbed == Spec => []ActiveCaptureUndisturbed
<1>1. FInv => ActiveCaptureUndisturbed
  BY DEF FInv, SourceInv, ActiveCaptureUndisturbed, Exclusive
<1> QED
  BY <1>1, FreezeSafety, PTL

(* Whatever happens between the two sections of a long operation, what it  *)
(* relies on is as it was, and every freeze marker has its space.          *)
THEOREM FreezeIsSound == Spec => []FreezeSound
<1>1. TypeOK /\ MarkersHaveSpaces /\ ExclusiveJobsQuiescent /\ ActiveCaptureUndisturbed => FreezeSound
  BY DEF FreezeSound
<1> QED
  BY <1>1, FreezeTypeCorrect, FreezeMarkersHaveSpaces, JobsQuiescent, ActiveCapturesUndisturbed, PTL

(* Once a marker is there, only sessions opened before it are active in    *)
(* the space, and at most one rollback, prepared before it, replaces the   *)
(* tree, although neither lease nor publish_rollback looks at the identity *)
(* that is at the path by then.                                            *)
THEOREM FreezesHold == Spec => []FreezeHolds
<1>1. FInv => FreezeHolds
  BY DEF FInv, FreezeHolds
<1> QED
  BY <1>1, FreezeSafety, PTL
=============================================================================
