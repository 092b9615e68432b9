--------------------------- MODULE StagingProofs ---------------------------
(***************************************************************************)
(* Staged publication is sound for any number of builders, mutators and    *)
(* names, whatever they build and wherever they and the recovery stop.     *)
(***************************************************************************)
EXTENDS Staging, TLAPS

(* The critical sections of builders, mutators and the recovery.           *)
ManagementInv ==
    /\ \A b \in Builders : management = b <=> pc[b] \in Locking
    /\ \A m \in Mutators : management = m <=> mpc[m] = "replace"
    /\ management = Recoverer <=> rpc \in {"spaces", "artifacts"}

Working == Live \cup Locking

(* A builder has its staging directory from the preparation to the         *)
(* publication, and until then the manifest has the requested name.        *)
PlaceInv ==
    \A b \in Builders :
        /\ pc[b] \in {"idle", "verified"} => place[b] = "none"
        /\ pc[b] \in Working => place[b] = "staging"
        /\ place[b] \in {"none", "staging"} => label[b] = Dest[b]

(* The lock file is there while recovery must respect it, and gone when    *)
(* the tree becomes visible.                                               *)
LockFileInv ==
    \A b \in Builders :
        /\ pc[b] \in {"lock", "fill", "publish", "seal"} => b \in lockFile
        /\ pc[b] = "rename" \/ place[b] = "visible" => b \notin lockFile

(* What is published or about to be has its content.                       *)
CompleteInv ==
    \A b \in Builders :
        pc[b] \in {"publish", "seal", "rename"} \/ place[b] = "visible" => b \in complete

(* What recovery's scan finds has no builder that still works in it.       *)
FoundInv ==
    /\ rpc \notin {"spaces", "artifacts"} => found = {}
    /\ \A b \in found :
          /\ pc[b] \notin {"idle", "verified"} \cup Working
          /\ place[b] \notin {"none", "visible"}

ReclaimInv == \A b \in reclaiming : place[b] \in {"trash", "gone"}

(* What a removal or an artifact rename verified, and what the lock keeps. *)
MutatorInv ==
    \A m \in Mutators :
        /\ mpc[m] \notin {"idle", "done"} =>
              handle[m].tree \in Builders /\ handle[m].name \in Names
        /\ mpc[m] \in {"verified", "replace"} => handle[m].tree \in Artifacts
        /\ mpc[m] = "replace" =>
              place[handle[m].tree] = "visible" /\ ArtifactNameFree(handle[m].name)

(* The name stays free between the second check and the publication.       *)
NameInv ==
    \A b \in Artifacts : pc[b] \in {"seal", "rename"} => ArtifactNameFree(Dest[b])

(* A template that is not visible any more never returns, so one that is   *)
(* still visible under the lock was whole when it was copied.              *)
UseInv ==
    \A b \in Builders : Kind[b] = "use" =>
        /\ pc[b] \in {"verified"} \cup Working =>
              /\ handle[b].tree \in Builders
              /\ place[handle[b].tree] \notin {"none", "staging"}
        /\ pc[b] = "publish" /\ place[handle[b].tree] = "visible" => b \in faithful
        /\ pc[b] \in {"seal", "rename"} \/ place[b] = "visible" => b \in faithful

SInv ==
    /\ TypeOK
    /\ ManagementInv
    /\ PlaceInv
    /\ LockFileInv
    /\ CompleteInv
    /\ FoundInv
    /\ ReclaimInv
    /\ MutatorInv
    /\ NameInv
    /\ ArtifactNamesUnique
    /\ UseInv

USE StagingAssumption
    DEF Live, Locking, Working, treeVars, recVars

-----------------------------------------------------------------------------
LEMMA InitSInv == Init => SInv
<1> SUFFICES ASSUME Init PROVE SInv
  OBVIOUS
<1>1. TypeOK
  BY DEF Init, TypeOK, NoHandle, Artifacts
<1>2. ManagementInv /\ FoundInv /\ ReclaimInv /\ MutatorInv
  BY DEF Init, ManagementInv, FoundInv, ReclaimInv, MutatorInv
<1>3. PlaceInv /\ LockFileInv /\ CompleteInv /\ NameInv
  BY DEF Init, PlaceInv, LockFileInv, CompleteInv, NameInv, Artifacts
<1>4. ArtifactNamesUnique
  BY DEF Init, ArtifactNamesUnique, Artifacts
<1>5. UseInv
  BY DEF Init, UseInv, ArtifactKinds
<1> QED
  BY <1>1, <1>2, <1>3, <1>4, <1>5 DEF SInv

LEMMA VerifyTemplateSInv ==
    ASSUME SInv, NEW b \in Builders, VerifyTemplate(b)
    PROVE  SInv'
<1>1. (ReclaimInv /\ ArtifactNamesUnique)'
  BY DEF SInv, VerifyTemplate, Named, ReclaimInv, TypeOK, ArtifactNamesUnique,
          Artifacts
<1>2. TypeOK'
  BY DEF SInv, VerifyTemplate, Named, TypeOK, Artifacts, ManagementInv,
          PlaceInv
<1>3. ManagementInv'
  BY DEF SInv, VerifyTemplate, Named, ManagementInv, TypeOK, PlaceInv
<1>4. PlaceInv'
  BY DEF SInv, VerifyTemplate, Named, PlaceInv, TypeOK, ManagementInv
<1>5. LockFileInv'
  BY DEF SInv, VerifyTemplate, Named, LockFileInv, TypeOK, ManagementInv,
          PlaceInv
<1>6. CompleteInv'
  BY DEF SInv, VerifyTemplate, Named, CompleteInv, TypeOK, ManagementInv,
          PlaceInv
<1>7. FoundInv'
  BY DEF SInv, VerifyTemplate, Named, FoundInv, TypeOK, ManagementInv, PlaceInv
<1>8. MutatorInv'
  BY DEF SInv, VerifyTemplate, Named, MutatorInv, TypeOK, ArtifactNameFree,
          Artifacts, ManagementInv, PlaceInv
<1>9. NameInv'
  BY DEF SInv, VerifyTemplate, Named, NameInv, TypeOK, ArtifactNameFree,
          Artifacts, ManagementInv, PlaceInv
<1>10. UseInv'
  BY DEF SInv, VerifyTemplate, Named, UseInv, TypeOK, CompleteInv, Artifacts,
          ManagementInv, PlaceInv
<1> QED
  BY <1>1, <1>2, <1>3, <1>4, <1>5, <1>6, <1>7, <1>8, <1>9, <1>10 DEF SInv

LEMMA PrepareStagingSInv ==
    ASSUME SInv, NEW b \in Builders, PrepareStaging(b)
    PROVE  SInv'
<1>1. TypeOK'
  BY DEF SInv, PrepareStaging, TypeOK, Artifacts, ManagementInv, PlaceInv
<1>2. ManagementInv'
  BY DEF SInv, PrepareStaging, ManagementInv, TypeOK, PlaceInv
<1>3. PlaceInv'
  BY DEF SInv, PrepareStaging, PlaceInv, TypeOK, ManagementInv
<1>4. LockFileInv'
  BY DEF SInv, PrepareStaging, LockFileInv, TypeOK, ManagementInv, PlaceInv
<1>5. CompleteInv'
  BY DEF SInv, PrepareStaging, CompleteInv, TypeOK, ManagementInv, PlaceInv
<1>6. FoundInv'
  BY DEF SInv, PrepareStaging, FoundInv, TypeOK, ManagementInv, PlaceInv
<1>7. ReclaimInv'
  BY DEF SInv, PrepareStaging, ReclaimInv, TypeOK, ManagementInv, PlaceInv
<1>8. MutatorInv'
  BY DEF SInv, PrepareStaging, MutatorInv, TypeOK, ArtifactNameFree, Named,
          Artifacts, ManagementInv, PlaceInv
<1>9. NameInv'
  BY DEF SInv, PrepareStaging, NameInv, TypeOK, ArtifactNameFree, Named,
          Artifacts, ManagementInv, PlaceInv
<1>10. ArtifactNamesUnique'
  BY DEF SInv, PrepareStaging, ArtifactNamesUnique, TypeOK, Artifacts,
          ManagementInv, PlaceInv
<1>11. UseInv'
  BY DEF SInv, PrepareStaging, UseInv, TypeOK, ManagementInv, PlaceInv
<1> QED
  BY <1>1, <1>2, <1>3, <1>4, <1>5, <1>6, <1>7, <1>8, <1>9, <1>10, <1>11 DEF
          SInv

LEMMA CreateLockFileSInv ==
    ASSUME SInv, NEW b \in Builders, CreateLockFile(b)
    PROVE  SInv'
<1>1. (ReclaimInv /\ MutatorInv /\ ArtifactNamesUnique)'
  BY DEF SInv, CreateLockFile, ReclaimInv, TypeOK, MutatorInv,
          ArtifactNameFree, Named, Artifacts, ArtifactNamesUnique
<1>2. TypeOK'
  BY DEF SInv, CreateLockFile, TypeOK, Artifacts, ManagementInv, PlaceInv
<1>3. ManagementInv'
  BY DEF SInv, CreateLockFile, ManagementInv, TypeOK, PlaceInv
<1>4. PlaceInv'
  BY DEF SInv, CreateLockFile, PlaceInv, TypeOK, ManagementInv
<1>5. LockFileInv'
  BY DEF SInv, CreateLockFile, LockFileInv, TypeOK, ManagementInv, PlaceInv
<1>6. CompleteInv'
  BY DEF SInv, CreateLockFile, CompleteInv, TypeOK, ManagementInv, PlaceInv
<1>7. FoundInv'
  BY DEF SInv, CreateLockFile, FoundInv, TypeOK, ManagementInv, PlaceInv
<1>8. NameInv'
  BY DEF SInv, CreateLockFile, NameInv, TypeOK, ArtifactNameFree, Named,
          Artifacts, ManagementInv, PlaceInv
<1>9. UseInv'
  BY DEF SInv, CreateLockFile, UseInv, TypeOK, ManagementInv, PlaceInv
<1> QED
  BY <1>1, <1>2, <1>3, <1>4, <1>5, <1>6, <1>7, <1>8, <1>9 DEF SInv

LEMMA LockStagingSInv ==
    ASSUME SInv, NEW b \in Builders, LockStaging(b)
    PROVE  SInv'
<1>1. (ReclaimInv /\ MutatorInv /\ ArtifactNamesUnique)'
  BY DEF SInv, LockStaging, ReclaimInv, TypeOK, MutatorInv, ArtifactNameFree,
          Named, Artifacts, ArtifactNamesUnique
<1>2. TypeOK'
  BY DEF SInv, LockStaging, TypeOK, Artifacts, ManagementInv, PlaceInv
<1>3. ManagementInv'
  BY DEF SInv, LockStaging, ManagementInv, TypeOK, PlaceInv
<1>4. PlaceInv'
  BY DEF SInv, LockStaging, PlaceInv, TypeOK, ManagementInv
<1>5. LockFileInv'
  BY DEF SInv, LockStaging, LockFileInv, TypeOK, ManagementInv,
          PlaceInv
<1>6. CompleteInv'
  BY DEF SInv, LockStaging, CompleteInv, TypeOK, ManagementInv, PlaceInv
<1>7. FoundInv'
  BY DEF SInv, LockStaging, FoundInv, TypeOK, ManagementInv, PlaceInv
<1>8. NameInv'
  BY DEF SInv, LockStaging, NameInv, TypeOK, ArtifactNameFree, Named,
          Artifacts, ManagementInv, PlaceInv
<1>9. UseInv'
  BY DEF SInv, LockStaging, UseInv, TypeOK, ManagementInv, PlaceInv
<1> QED
  BY <1>1, <1>2, <1>3, <1>4, <1>5, <1>6, <1>7, <1>8, <1>9 DEF SInv

LEMMA LockStagingFailsSInv ==
    ASSUME SInv, NEW b \in Builders, LockStagingFails(b)
    PROVE  SInv'
<1>1. TypeOK'
  BY DEF SInv, LockStagingFails, TypeOK, Artifacts, ManagementInv, PlaceInv
<1>2. ManagementInv'
  BY DEF SInv, LockStagingFails, ManagementInv, TypeOK, PlaceInv
<1>3. PlaceInv'
  BY DEF SInv, LockStagingFails, PlaceInv, TypeOK, ManagementInv
<1>4. LockFileInv'
  BY DEF SInv, LockStagingFails, LockFileInv, TypeOK, ManagementInv, PlaceInv
<1>5. CompleteInv'
  BY DEF SInv, LockStagingFails, CompleteInv, TypeOK, ManagementInv, PlaceInv
<1>6. FoundInv'
  BY DEF SInv, LockStagingFails, FoundInv, TypeOK, ManagementInv, PlaceInv
<1>7. ReclaimInv'
  BY DEF SInv, LockStagingFails, ReclaimInv, TypeOK, ManagementInv, PlaceInv
<1>8. MutatorInv'
  BY DEF SInv, LockStagingFails, MutatorInv, TypeOK, ArtifactNameFree, Named,
          Artifacts, ManagementInv, PlaceInv
<1>9. NameInv'
  BY DEF SInv, LockStagingFails, NameInv, TypeOK, ArtifactNameFree, Named,
          Artifacts, ManagementInv, PlaceInv
<1>10. ArtifactNamesUnique'
  BY DEF SInv, LockStagingFails, ArtifactNamesUnique, TypeOK, Artifacts,
          ManagementInv, PlaceInv
<1>11. UseInv'
  BY DEF SInv, LockStagingFails, UseInv, TypeOK, ManagementInv, PlaceInv
<1> QED
  BY <1>1, <1>2, <1>3, <1>4, <1>5, <1>6, <1>7, <1>8, <1>9, <1>10, <1>11 DEF
          SInv

LEMMA FillSInv ==
    ASSUME SInv, NEW b \in Builders, Fill(b)
    PROVE  SInv'
<1>1. (ReclaimInv /\ MutatorInv /\ ArtifactNamesUnique)'
  BY DEF SInv, Fill, ReclaimInv, TypeOK, MutatorInv, ArtifactNameFree, Named,
          Artifacts, ArtifactNamesUnique
<1>2. TypeOK'
  BY DEF SInv, Fill, TypeOK, Artifacts, ManagementInv, PlaceInv
<1>3. ManagementInv'
  BY DEF SInv, Fill, ManagementInv, TypeOK, PlaceInv
<1>4. PlaceInv'
  BY DEF SInv, Fill, PlaceInv, TypeOK, ManagementInv
<1>5. LockFileInv'
  BY DEF SInv, Fill, LockFileInv, TypeOK, ManagementInv, PlaceInv
<1>6. CompleteInv'
  BY DEF SInv, Fill, CompleteInv, TypeOK, ManagementInv, PlaceInv
<1>7. FoundInv'
  BY DEF SInv, Fill, FoundInv, TypeOK, ManagementInv, PlaceInv
<1>8. NameInv'
  BY DEF SInv, Fill, NameInv, TypeOK, ArtifactNameFree, Named, Artifacts,
          ManagementInv, PlaceInv
<1>9. UseInv'
  BY DEF SInv, Fill, UseInv, TypeOK, CompleteInv, ManagementInv, PlaceInv
<1> QED
  BY <1>1, <1>2, <1>3, <1>4, <1>5, <1>6, <1>7, <1>8, <1>9 DEF SInv

LEMMA BeginPublishSInv ==
    ASSUME SInv, NEW b \in Builders, BeginPublish(b)
    PROVE  SInv'
<1>1. (ReclaimInv /\ MutatorInv /\ ArtifactNamesUnique)'
  BY DEF SInv, BeginPublish, ReclaimInv, TypeOK, MutatorInv, ArtifactNameFree,
          Named, Artifacts, ArtifactNamesUnique
<1>2. TypeOK'
  BY DEF SInv, BeginPublish, TypeOK, Artifacts, ManagementInv, PlaceInv
<1>3. ManagementInv'
  BY DEF SInv, BeginPublish, ManagementInv, TypeOK, PlaceInv
<1>4. PlaceInv'
  BY DEF SInv, BeginPublish, PlaceInv, TypeOK, ManagementInv
<1>5. LockFileInv'
  BY DEF SInv, BeginPublish, LockFileInv, TypeOK, ManagementInv, PlaceInv
<1>6. CompleteInv'
  BY DEF SInv, BeginPublish, CompleteInv, TypeOK, ManagementInv, PlaceInv
<1>7. FoundInv'
  BY DEF SInv, BeginPublish, FoundInv, TypeOK, ManagementInv, PlaceInv
<1>8. NameInv'
  BY DEF SInv, BeginPublish, NameInv, TypeOK, ArtifactNameFree, Named,
          Artifacts, NameFree, Spaces, SpaceKinds, ArtifactKinds,
          ManagementInv, PlaceInv
<1>9. UseInv'
  BY DEF SInv, BeginPublish, UseInv, TypeOK, TemplateUnchanged, Named,
          ManagementInv, PlaceInv
<1> QED
  BY <1>1, <1>2, <1>3, <1>4, <1>5, <1>6, <1>7, <1>8, <1>9 DEF SInv

LEMMA SealSInv ==
    ASSUME SInv, NEW b \in Builders, Seal(b)
    PROVE  SInv'
<1>1. (ReclaimInv /\ MutatorInv /\ ArtifactNamesUnique)'
  BY DEF SInv, Seal, ReclaimInv, TypeOK, MutatorInv, ArtifactNameFree, Named,
          Artifacts, ArtifactNamesUnique
<1>2. TypeOK'
  BY DEF SInv, Seal, TypeOK, Artifacts, ManagementInv, PlaceInv
<1>3. ManagementInv'
  BY DEF SInv, Seal, ManagementInv, TypeOK, PlaceInv
<1>4. PlaceInv'
  BY DEF SInv, Seal, PlaceInv, TypeOK, ManagementInv
<1>5. LockFileInv'
  BY DEF SInv, Seal, LockFileInv, TypeOK, ManagementInv, PlaceInv
<1>6. CompleteInv'
  BY DEF SInv, Seal, CompleteInv, TypeOK, ManagementInv, PlaceInv
<1>7. FoundInv'
  BY DEF SInv, Seal, FoundInv, TypeOK, ManagementInv, PlaceInv
<1>8. NameInv'
  BY DEF SInv, Seal, NameInv, TypeOK, ArtifactNameFree, Named, Artifacts,
          ManagementInv, PlaceInv
<1>9. UseInv'
  BY DEF SInv, Seal, UseInv, TypeOK, ManagementInv, PlaceInv
<1> QED
  BY <1>1, <1>2, <1>3, <1>4, <1>5, <1>6, <1>7, <1>8, <1>9 DEF SInv

LEMMA PublishSInv ==
    ASSUME SInv, NEW b \in Builders, Publish(b)
    PROVE  SInv'
<1>1. TypeOK'
  BY DEF SInv, Publish, TypeOK, Artifacts, ManagementInv, PlaceInv
<1>2. ManagementInv'
  BY DEF SInv, Publish, ManagementInv, TypeOK, PlaceInv
<1>3. PlaceInv'
  BY DEF SInv, Publish, PlaceInv, TypeOK, ManagementInv
<1>4. LockFileInv'
  BY DEF SInv, Publish, LockFileInv, TypeOK, ManagementInv, PlaceInv
<1>5. CompleteInv'
  BY DEF SInv, Publish, CompleteInv, TypeOK, ManagementInv, PlaceInv
<1>6. FoundInv'
  BY DEF SInv, Publish, FoundInv, TypeOK, ManagementInv, PlaceInv
<1>7. ReclaimInv'
  BY DEF SInv, Publish, ReclaimInv, TypeOK, ManagementInv, PlaceInv
<1>8. MutatorInv'
  BY DEF SInv, Publish, MutatorInv, TypeOK, ArtifactNameFree, Named, Artifacts,
          ManagementInv, PlaceInv
<1>9. NameInv'
  BY DEF SInv, Publish, NameInv, TypeOK, ArtifactNameFree, Named, Artifacts,
          ManagementInv, PlaceInv
<1>10. ArtifactNamesUnique'
  BY DEF SInv, Publish, ArtifactNamesUnique, TypeOK, Artifacts, NameInv,
          ArtifactNameFree, Named, ManagementInv, PlaceInv
<1>11. UseInv'
  BY DEF SInv, Publish, UseInv, TypeOK, ManagementInv, PlaceInv
<1> QED
  BY <1>1, <1>2, <1>3, <1>4, <1>5, <1>6, <1>7, <1>8, <1>9, <1>10, <1>11 DEF
          SInv

LEMMA FinishSInv ==
    ASSUME SInv, NEW b \in Builders, Finish(b)
    PROVE  SInv'
<1>1. (ReclaimInv /\ MutatorInv /\ ArtifactNamesUnique)'
  BY DEF SInv, Finish, ReclaimInv, TypeOK, MutatorInv, ArtifactNameFree, Named,
          Artifacts, ArtifactNamesUnique
<1>2. TypeOK'
  BY DEF SInv, Finish, TypeOK, Artifacts, ManagementInv, PlaceInv
<1>3. ManagementInv'
  BY DEF SInv, Finish, ManagementInv, TypeOK, PlaceInv
<1>4. PlaceInv'
  BY DEF SInv, Finish, PlaceInv, TypeOK, ManagementInv
<1>5. LockFileInv'
  BY DEF SInv, Finish, LockFileInv, TypeOK, ManagementInv, PlaceInv
<1>6. CompleteInv'
  BY DEF SInv, Finish, CompleteInv, TypeOK, ManagementInv, PlaceInv
<1>7. FoundInv'
  BY DEF SInv, Finish, FoundInv, TypeOK, ManagementInv, PlaceInv
<1>8. NameInv'
  BY DEF SInv, Finish, NameInv, TypeOK, ArtifactNameFree, Named, Artifacts,
          ManagementInv, PlaceInv
<1>9. UseInv'
  BY DEF SInv, Finish, UseInv, TypeOK, ManagementInv, PlaceInv
<1> QED
  BY <1>1, <1>2, <1>3, <1>4, <1>5, <1>6, <1>7, <1>8, <1>9 DEF SInv

LEMMA FailSInv ==
    ASSUME SInv, NEW b \in Builders, Fail(b)
    PROVE  SInv'
<1>1. (ReclaimInv /\ MutatorInv /\ ArtifactNamesUnique)'
  BY DEF SInv, Fail, Release, ReclaimInv, TypeOK, MutatorInv, ArtifactNameFree,
          Named, Artifacts, ArtifactNamesUnique
<1>2. TypeOK'
  BY DEF SInv, Fail, Release, TypeOK, Artifacts, ManagementInv, PlaceInv
<1>3. ManagementInv'
  BY DEF SInv, Fail, Release, ManagementInv, TypeOK, PlaceInv
<1>4. PlaceInv'
  BY DEF SInv, Fail, Release, PlaceInv, TypeOK, ManagementInv
<1>5. LockFileInv'
  BY DEF SInv, Fail, Release, LockFileInv, TypeOK, ManagementInv, PlaceInv
<1>6. CompleteInv'
  BY DEF SInv, Fail, Release, CompleteInv, TypeOK, ManagementInv, PlaceInv
<1>7. FoundInv'
  BY DEF SInv, Fail, Release, FoundInv, TypeOK, ManagementInv, PlaceInv
<1>8. NameInv'
  BY DEF SInv, Fail, Release, NameInv, TypeOK, ArtifactNameFree, Named,
          Artifacts, ManagementInv, PlaceInv
<1>9. UseInv'
  BY DEF SInv, Fail, Release, UseInv, TypeOK, ManagementInv, PlaceInv
<1> QED
  BY <1>1, <1>2, <1>3, <1>4, <1>5, <1>6, <1>7, <1>8, <1>9 DEF SInv

LEMMA CleanupSInv ==
    ASSUME SInv, NEW b \in Builders, Cleanup(b)
    PROVE  SInv'
<1>1. (ReclaimInv /\ MutatorInv /\ ArtifactNamesUnique)'
  BY DEF SInv, Cleanup, ReclaimInv, TypeOK, MutatorInv, ArtifactNameFree,
          Named, Artifacts, ArtifactNamesUnique
<1>2. TypeOK'
  BY DEF SInv, Cleanup, TypeOK, Artifacts, ManagementInv, PlaceInv
<1>3. ManagementInv'
  BY DEF SInv, Cleanup, ManagementInv, TypeOK, PlaceInv
<1>4. PlaceInv'
  BY DEF SInv, Cleanup, PlaceInv, TypeOK, ManagementInv
<1>5. LockFileInv'
  BY DEF SInv, Cleanup, LockFileInv, TypeOK, ManagementInv, PlaceInv
<1>6. CompleteInv'
  BY DEF SInv, Cleanup, CompleteInv, TypeOK, ManagementInv, PlaceInv
<1>7. FoundInv'
  BY DEF SInv, Cleanup, FoundInv, TypeOK, ManagementInv, PlaceInv
<1>8. NameInv'
  BY DEF SInv, Cleanup, NameInv, TypeOK, ArtifactNameFree, Named, Artifacts,
          ManagementInv, PlaceInv
<1>9. UseInv'
  BY DEF SInv, Cleanup, UseInv, TypeOK, ManagementInv, PlaceInv
<1> QED
  BY <1>1, <1>2, <1>3, <1>4, <1>5, <1>6, <1>7, <1>8, <1>9 DEF SInv

LEMMA CleanupEndsSInv ==
    ASSUME SInv, NEW b \in Builders, CleanupEnds(b)
    PROVE  SInv'
<1>1. TypeOK'
  BY DEF SInv, CleanupEnds, TypeOK, Artifacts, ManagementInv, PlaceInv
<1>2. ManagementInv'
  BY DEF SInv, CleanupEnds, ManagementInv, TypeOK, PlaceInv
<1>3. PlaceInv'
  BY DEF SInv, CleanupEnds, PlaceInv, TypeOK, ManagementInv
<1>4. LockFileInv'
  BY DEF SInv, CleanupEnds, LockFileInv, TypeOK, ManagementInv, PlaceInv
<1>5. CompleteInv'
  BY DEF SInv, CleanupEnds, CompleteInv, TypeOK, ManagementInv, PlaceInv
<1>6. FoundInv'
  BY DEF SInv, CleanupEnds, FoundInv, TypeOK, ManagementInv, PlaceInv
<1>7. ReclaimInv'
  BY DEF SInv, CleanupEnds, ReclaimInv, TypeOK, ManagementInv, PlaceInv
<1>8. MutatorInv'
  BY DEF SInv, CleanupEnds, MutatorInv, TypeOK, ArtifactNameFree, Named,
          Artifacts, ManagementInv, PlaceInv
<1>9. NameInv'
  BY DEF SInv, CleanupEnds, NameInv, TypeOK, ArtifactNameFree, Named,
          Artifacts, ManagementInv, PlaceInv
<1>10. ArtifactNamesUnique'
  BY DEF SInv, CleanupEnds, ArtifactNamesUnique, TypeOK, Artifacts,
          ManagementInv, PlaceInv
<1>11. UseInv'
  BY DEF SInv, CleanupEnds, UseInv, TypeOK, ManagementInv, PlaceInv
<1> QED
  BY <1>1, <1>2, <1>3, <1>4, <1>5, <1>6, <1>7, <1>8, <1>9, <1>10, <1>11 DEF
          SInv

LEMMA CleanupFailsSInv ==
    ASSUME SInv, NEW b \in Builders, CleanupFails(b)
    PROVE  SInv'
<1>1. TypeOK'
  BY DEF SInv, CleanupFails, TypeOK, Artifacts, ManagementInv, PlaceInv
<1>2. ManagementInv'
  BY DEF SInv, CleanupFails, ManagementInv, TypeOK, PlaceInv
<1>3. PlaceInv'
  BY DEF SInv, CleanupFails, PlaceInv, TypeOK, ManagementInv
<1>4. LockFileInv'
  BY DEF SInv, CleanupFails, LockFileInv, TypeOK, ManagementInv, PlaceInv
<1>5. CompleteInv'
  BY DEF SInv, CleanupFails, CompleteInv, TypeOK, ManagementInv, PlaceInv
<1>6. FoundInv'
  BY DEF SInv, CleanupFails, FoundInv, TypeOK, ManagementInv, PlaceInv
<1>7. ReclaimInv'
  BY DEF SInv, CleanupFails, ReclaimInv, TypeOK, ManagementInv, PlaceInv
<1>8. MutatorInv'
  BY DEF SInv, CleanupFails, MutatorInv, TypeOK, ArtifactNameFree, Named,
          Artifacts, ManagementInv, PlaceInv
<1>9. NameInv'
  BY DEF SInv, CleanupFails, NameInv, TypeOK, ArtifactNameFree, Named,
          Artifacts, ManagementInv, PlaceInv
<1>10. ArtifactNamesUnique'
  BY DEF SInv, CleanupFails, ArtifactNamesUnique, TypeOK, Artifacts,
          ManagementInv, PlaceInv
<1>11. UseInv'
  BY DEF SInv, CleanupFails, UseInv, TypeOK, ManagementInv, PlaceInv
<1> QED
  BY <1>1, <1>2, <1>3, <1>4, <1>5, <1>6, <1>7, <1>8, <1>9, <1>10, <1>11 DEF
          SInv

LEMMA CrashSInv ==
    ASSUME SInv, NEW b \in Builders, Crash(b)
    PROVE  SInv'
<1>1. (ReclaimInv /\ MutatorInv /\ ArtifactNamesUnique)'
  BY DEF SInv, Crash, Release, ReclaimInv, TypeOK, MutatorInv,
          ArtifactNameFree, Named, Artifacts, ArtifactNamesUnique
<1>2. TypeOK'
  BY DEF SInv, Crash, Release, TypeOK, Artifacts, ManagementInv, PlaceInv
<1>3. ManagementInv'
  BY DEF SInv, Crash, Release, ManagementInv, TypeOK, PlaceInv
<1>4. PlaceInv'
  BY DEF SInv, Crash, Release, PlaceInv, TypeOK, ManagementInv
<1>5. LockFileInv'
  BY DEF SInv, Crash, Release, LockFileInv, TypeOK, ManagementInv, PlaceInv
<1>6. CompleteInv'
  BY DEF SInv, Crash, Release, CompleteInv, TypeOK, ManagementInv, PlaceInv
<1>7. FoundInv'
  BY DEF SInv, Crash, Release, FoundInv, TypeOK, ManagementInv, PlaceInv
<1>8. NameInv'
  BY DEF SInv, Crash, Release, NameInv, TypeOK, ArtifactNameFree, Named,
          Artifacts, ManagementInv, PlaceInv
<1>9. UseInv'
  BY DEF SInv, Crash, Release, UseInv, TypeOK, ManagementInv, PlaceInv
<1> QED
  BY <1>1, <1>2, <1>3, <1>4, <1>5, <1>6, <1>7, <1>8, <1>9 DEF SInv

LEMMA VerifyArtifactSInv ==
    ASSUME SInv, NEW m \in Mutators, VerifyArtifact(m)
    PROVE  SInv'
<1>1. (PlaceInv /\ LockFileInv /\ CompleteInv /\ FoundInv /\ ReclaimInv /\
      NameInv /\ ArtifactNamesUnique)'
  BY DEF SInv, VerifyArtifact, PlaceInv, TypeOK, LockFileInv, CompleteInv,
          FoundInv, ReclaimInv, NameInv, ArtifactNameFree, Named, Artifacts,
          ArtifactNamesUnique
<1>2. TypeOK'
  BY DEF SInv, VerifyArtifact, TypeOK, Artifacts, ManagementInv, PlaceInv,
          MutatorInv
<1>3. ManagementInv'
  BY DEF SInv, VerifyArtifact, ManagementInv, TypeOK, PlaceInv, MutatorInv
<1>4. MutatorInv'
  BY DEF SInv, VerifyArtifact, MutatorInv, TypeOK, ArtifactNameFree, Named,
          Artifacts, ManagementInv, PlaceInv
<1>5. UseInv'
  BY DEF SInv, VerifyArtifact, UseInv, TypeOK, ManagementInv, PlaceInv,
          MutatorInv
<1> QED
  BY <1>1, <1>2, <1>3, <1>4, <1>5 DEF SInv

LEMMA RenameBeginSInv ==
    ASSUME SInv, NEW m \in Mutators, NEW n \in Names, RenameBegin(m, n)
    PROVE  SInv'
<1>1. (PlaceInv /\ LockFileInv /\ CompleteInv /\ FoundInv /\ ReclaimInv /\
      NameInv /\ ArtifactNamesUnique)'
  BY DEF SInv, RenameBegin, Unchanged, Named, PlaceInv, TypeOK, LockFileInv,
          CompleteInv, FoundInv, ReclaimInv, NameInv, ArtifactNameFree, Named,
          Artifacts, ArtifactNamesUnique
<1>2. TypeOK'
  BY DEF SInv, RenameBegin, Unchanged, Named, TypeOK, Artifacts, ManagementInv,
          PlaceInv, MutatorInv
<1>3. ManagementInv'
  BY DEF SInv, RenameBegin, Unchanged, Named, ManagementInv, TypeOK, PlaceInv,
          MutatorInv
<1>4. MutatorInv'
  BY DEF SInv, RenameBegin, Unchanged, Named, MutatorInv, TypeOK,
          ArtifactNameFree, Artifacts, ManagementInv, PlaceInv
<1>5. UseInv'
  BY DEF SInv, RenameBegin, Unchanged, Named, UseInv, TypeOK, ManagementInv,
          PlaceInv, MutatorInv
<1> QED
  BY <1>1, <1>2, <1>3, <1>4, <1>5 DEF SInv

LEMMA RenameReplaceSInv ==
    ASSUME SInv, NEW m \in Mutators, RenameReplace(m)
    PROVE  SInv'
<1>1. (LockFileInv /\ CompleteInv /\ FoundInv /\ ReclaimInv /\ UseInv)'
  BY DEF SInv, RenameReplace, LockFileInv, TypeOK, CompleteInv, FoundInv,
          ReclaimInv, UseInv
<1>2. TypeOK'
  BY DEF SInv, RenameReplace, TypeOK, Artifacts, ManagementInv, PlaceInv,
          MutatorInv, ArtifactNameFree, Named
<1>3. ManagementInv'
  BY DEF SInv, RenameReplace, ManagementInv, TypeOK, PlaceInv, MutatorInv,
          ArtifactNameFree, Named
<1>4. PlaceInv'
  BY DEF SInv, RenameReplace, PlaceInv, TypeOK, ManagementInv, MutatorInv,
          ArtifactNameFree, Named
<1>5. MutatorInv'
  BY DEF SInv, RenameReplace, MutatorInv, TypeOK, ArtifactNameFree, Named,
          Artifacts, ManagementInv, PlaceInv
<1>6. NameInv'
  BY DEF SInv, RenameReplace, NameInv, TypeOK, ArtifactNameFree, Named,
          Artifacts, ManagementInv, PlaceInv, MutatorInv
<1>7. ArtifactNamesUnique'
  BY DEF SInv, RenameReplace, ArtifactNamesUnique, TypeOK, Artifacts,
          ManagementInv, PlaceInv, MutatorInv, ArtifactNameFree, Named
<1> QED
  BY <1>1, <1>2, <1>3, <1>4, <1>5, <1>6, <1>7 DEF SInv

LEMMA RemoveArtifactSInv ==
    ASSUME SInv, NEW m \in Mutators, RemoveArtifact(m)
    PROVE  SInv'
<1>1. TypeOK'
  BY DEF SInv, RemoveArtifact, Unchanged, Named, TypeOK, Artifacts,
          ManagementInv, PlaceInv, MutatorInv
<1>2. ManagementInv'
  BY DEF SInv, RemoveArtifact, Unchanged, Named, ManagementInv, TypeOK,
          PlaceInv, MutatorInv
<1>3. PlaceInv'
  BY DEF SInv, RemoveArtifact, Unchanged, Named, PlaceInv, TypeOK,
          ManagementInv, MutatorInv
<1>4. LockFileInv'
  BY DEF SInv, RemoveArtifact, Unchanged, Named, LockFileInv, TypeOK,
          ManagementInv, PlaceInv, MutatorInv
<1>5. CompleteInv'
  BY DEF SInv, RemoveArtifact, Unchanged, Named, CompleteInv, TypeOK,
          ManagementInv, PlaceInv, MutatorInv
<1>6. FoundInv'
  BY DEF SInv, RemoveArtifact, Unchanged, Named, FoundInv, TypeOK,
          ManagementInv, PlaceInv, MutatorInv
<1>7. ReclaimInv'
  BY DEF SInv, RemoveArtifact, Unchanged, Named, ReclaimInv, TypeOK,
          ManagementInv, PlaceInv, MutatorInv
<1>8. MutatorInv'
  BY DEF SInv, RemoveArtifact, Unchanged, Named, MutatorInv, TypeOK,
          ArtifactNameFree, Artifacts, ManagementInv, PlaceInv
<1>9. NameInv'
  BY DEF SInv, RemoveArtifact, Unchanged, Named, NameInv, TypeOK,
          ArtifactNameFree, Artifacts, ManagementInv, PlaceInv, MutatorInv
<1>10. ArtifactNamesUnique'
  BY DEF SInv, RemoveArtifact, Unchanged, Named, ArtifactNamesUnique, TypeOK,
          Artifacts, ManagementInv, PlaceInv, MutatorInv
<1>11. UseInv'
  BY DEF SInv, RemoveArtifact, Unchanged, Named, UseInv, TypeOK, ManagementInv,
          PlaceInv, MutatorInv
<1> QED
  BY <1>1, <1>2, <1>3, <1>4, <1>5, <1>6, <1>7, <1>8, <1>9, <1>10, <1>11 DEF
          SInv

LEMMA RetireSpaceSInv ==
    ASSUME SInv, NEW m \in Mutators, RetireSpace(m)
    PROVE  SInv'
<1>1. TypeOK'
  BY DEF SInv, RetireSpace, Spaces, TypeOK, Artifacts, ManagementInv, PlaceInv,
          MutatorInv
<1>2. ManagementInv'
  BY DEF SInv, RetireSpace, Spaces, ManagementInv, TypeOK, PlaceInv, MutatorInv
<1>3. PlaceInv'
  BY DEF SInv, RetireSpace, Spaces, PlaceInv, TypeOK, ManagementInv, MutatorInv
<1>4. LockFileInv'
  BY DEF SInv, RetireSpace, Spaces, LockFileInv, TypeOK, ManagementInv,
          PlaceInv, MutatorInv
<1>5. CompleteInv'
  BY DEF SInv, RetireSpace, Spaces, CompleteInv, TypeOK, ManagementInv,
          PlaceInv, MutatorInv
<1>6. FoundInv'
  BY DEF SInv, RetireSpace, Spaces, FoundInv, TypeOK, ManagementInv, PlaceInv,
          MutatorInv
<1>7. ReclaimInv'
  BY DEF SInv, RetireSpace, Spaces, ReclaimInv, TypeOK, ManagementInv,
          PlaceInv, MutatorInv
<1>8. MutatorInv'
  BY DEF SInv, RetireSpace, Spaces, MutatorInv, TypeOK, ArtifactNameFree,
          Named, Artifacts, ManagementInv, PlaceInv
<1>9. NameInv'
  BY DEF SInv, RetireSpace, Spaces, NameInv, TypeOK, ArtifactNameFree, Named,
          Artifacts, ManagementInv, PlaceInv, MutatorInv
<1>10. ArtifactNamesUnique'
  BY DEF SInv, RetireSpace, Spaces, ArtifactNamesUnique, TypeOK, Artifacts,
          ManagementInv, PlaceInv, MutatorInv
<1>11. UseInv'
  BY DEF SInv, RetireSpace, Spaces, UseInv, TypeOK, ManagementInv, PlaceInv,
          MutatorInv
<1> QED
  BY <1>1, <1>2, <1>3, <1>4, <1>5, <1>6, <1>7, <1>8, <1>9, <1>10, <1>11 DEF
          SInv

LEMMA DeleteContentSInv ==
    ASSUME SInv, NEW m \in Mutators, DeleteContent(m)
    PROVE  SInv'
<1>1. (PlaceInv /\ LockFileInv /\ FoundInv /\ ReclaimInv /\ NameInv /\
      ArtifactNamesUnique /\ UseInv)'
  BY DEF SInv, DeleteContent, PlaceInv, TypeOK, LockFileInv, FoundInv,
          ReclaimInv, NameInv, ArtifactNameFree, Named, Artifacts,
          ArtifactNamesUnique, UseInv
<1>2. TypeOK'
  BY DEF SInv, DeleteContent, TypeOK, Artifacts, ManagementInv, PlaceInv,
          MutatorInv
<1>3. ManagementInv'
  BY DEF SInv, DeleteContent, ManagementInv, TypeOK, PlaceInv, MutatorInv
<1>4. CompleteInv'
  BY DEF SInv, DeleteContent, CompleteInv, TypeOK, ManagementInv, PlaceInv,
          MutatorInv
<1>5. MutatorInv'
  BY DEF SInv, DeleteContent, MutatorInv, TypeOK, ArtifactNameFree, Named,
          Artifacts, ManagementInv, PlaceInv
<1> QED
  BY <1>1, <1>2, <1>3, <1>4, <1>5 DEF SInv

LEMMA DeleteEndsSInv ==
    ASSUME SInv, NEW m \in Mutators, DeleteEnds(m)
    PROVE  SInv'
<1>1. TypeOK'
  BY DEF SInv, DeleteEnds, TypeOK, Artifacts, ManagementInv, PlaceInv,
          MutatorInv
<1>2. ManagementInv'
  BY DEF SInv, DeleteEnds, ManagementInv, TypeOK, PlaceInv, MutatorInv
<1>3. PlaceInv'
  BY DEF SInv, DeleteEnds, PlaceInv, TypeOK, ManagementInv, MutatorInv
<1>4. LockFileInv'
  BY DEF SInv, DeleteEnds, LockFileInv, TypeOK, ManagementInv, PlaceInv,
          MutatorInv
<1>5. CompleteInv'
  BY DEF SInv, DeleteEnds, CompleteInv, TypeOK, ManagementInv, PlaceInv,
          MutatorInv
<1>6. FoundInv'
  BY DEF SInv, DeleteEnds, FoundInv, TypeOK, ManagementInv, PlaceInv,
          MutatorInv
<1>7. ReclaimInv'
  BY DEF SInv, DeleteEnds, ReclaimInv, TypeOK, ManagementInv, PlaceInv,
          MutatorInv
<1>8. MutatorInv'
  BY DEF SInv, DeleteEnds, MutatorInv, TypeOK, ArtifactNameFree, Named,
          Artifacts, ManagementInv, PlaceInv
<1>9. NameInv'
  BY DEF SInv, DeleteEnds, NameInv, TypeOK, ArtifactNameFree, Named, Artifacts,
          ManagementInv, PlaceInv, MutatorInv
<1>10. ArtifactNamesUnique'
  BY DEF SInv, DeleteEnds, ArtifactNamesUnique, TypeOK, Artifacts,
          ManagementInv, PlaceInv, MutatorInv
<1>11. UseInv'
  BY DEF SInv, DeleteEnds, UseInv, TypeOK, ManagementInv, PlaceInv, MutatorInv
<1> QED
  BY <1>1, <1>2, <1>3, <1>4, <1>5, <1>6, <1>7, <1>8, <1>9, <1>10, <1>11 DEF
          SInv

LEMMA MutatorStopsSInv ==
    ASSUME SInv, NEW m \in Mutators, MutatorStops(m)
    PROVE  SInv'
<1>1. (PlaceInv /\ LockFileInv /\ CompleteInv /\ FoundInv /\ ReclaimInv /\
      NameInv /\ ArtifactNamesUnique /\ UseInv)'
  BY DEF SInv, MutatorStops, Release, PlaceInv, TypeOK, LockFileInv,
          CompleteInv, FoundInv, ReclaimInv, NameInv, ArtifactNameFree, Named,
          Artifacts, ArtifactNamesUnique, UseInv
<1>2. TypeOK'
  BY DEF SInv, MutatorStops, Release, TypeOK, Artifacts, ManagementInv,
          PlaceInv, MutatorInv
<1>3. ManagementInv'
  BY DEF SInv, MutatorStops, Release, ManagementInv, TypeOK, PlaceInv,
          MutatorInv
<1>4. MutatorInv'
  BY DEF SInv, MutatorStops, Release, MutatorInv, TypeOK, ArtifactNameFree,
          Named, Artifacts, ManagementInv, PlaceInv
<1> QED
  BY <1>1, <1>2, <1>3, <1>4 DEF SInv

LEMMA RecoverProbeSInv ==
    ASSUME SInv, RecoverProbe
    PROVE  SInv'
<1>1. (PlaceInv /\ LockFileInv /\ CompleteInv /\ ReclaimInv /\ MutatorInv /\
      NameInv /\ ArtifactNamesUnique /\ UseInv)'
  BY DEF SInv, RecoverProbe, Staged, PlaceInv, TypeOK, LockFileInv,
          CompleteInv, ReclaimInv, MutatorInv, ArtifactNameFree, Named,
          Artifacts, NameInv, ArtifactNamesUnique, UseInv
<1>2. TypeOK'
  BY DEF SInv, RecoverProbe, Staged, TypeOK, Artifacts, ManagementInv,
          PlaceInv, FoundInv, ReclaimInv
<1>3. ManagementInv'
  BY DEF SInv, RecoverProbe, Staged, ManagementInv, TypeOK, PlaceInv, FoundInv,
          ReclaimInv
<1>4. FoundInv'
  BY DEF SInv, RecoverProbe, Staged, FoundInv, TypeOK, ManagementInv, PlaceInv,
          ReclaimInv
<1> QED
  BY <1>1, <1>2, <1>3, <1>4 DEF SInv

LEMMA RecoverProbedSInv ==
    ASSUME SInv, RecoverProbed
    PROVE  SInv'
<1>1. (PlaceInv /\ LockFileInv /\ CompleteInv /\ ReclaimInv /\ MutatorInv /\
      NameInv /\ ArtifactNamesUnique /\ UseInv)'
  BY DEF SInv, RecoverProbed, PlaceInv, TypeOK, LockFileInv, CompleteInv,
          ReclaimInv, MutatorInv, ArtifactNameFree, Named, Artifacts, NameInv,
          ArtifactNamesUnique, UseInv
<1>2. TypeOK'
  BY DEF SInv, RecoverProbed, TypeOK, Artifacts, ManagementInv, PlaceInv,
          FoundInv, ReclaimInv
<1>3. ManagementInv'
  BY DEF SInv, RecoverProbed, ManagementInv, TypeOK, PlaceInv, FoundInv,
          ReclaimInv
<1>4. FoundInv'
  BY DEF SInv, RecoverProbed, FoundInv, TypeOK, ManagementInv, PlaceInv,
          ReclaimInv
<1> QED
  BY <1>1, <1>2, <1>3, <1>4 DEF SInv

LEMMA RecoverBeginSInv ==
    ASSUME SInv, RecoverBegin
    PROVE  SInv'
<1>1. (PlaceInv /\ LockFileInv /\ CompleteInv /\ ReclaimInv /\ MutatorInv /\
      NameInv /\ ArtifactNamesUnique /\ UseInv)'
  BY DEF SInv, RecoverBegin, Stale, Staged, LockHeld, Spaces, PlaceInv, TypeOK,
          LockFileInv, CompleteInv, ReclaimInv, MutatorInv, ArtifactNameFree,
          Named, Artifacts, NameInv, ArtifactNamesUnique, UseInv
<1>2. TypeOK'
  BY DEF SInv, RecoverBegin, Stale, Staged, LockHeld, Spaces, TypeOK,
          Artifacts, ManagementInv, PlaceInv, FoundInv, LockFileInv
<1>3. ManagementInv'
  BY DEF SInv, RecoverBegin, Stale, Staged, LockHeld, Spaces, ManagementInv,
          TypeOK, PlaceInv, FoundInv, LockFileInv
<1>4. FoundInv'
  BY DEF SInv, RecoverBegin, Stale, Staged, LockHeld, Spaces, FoundInv, TypeOK,
          ManagementInv, PlaceInv, LockFileInv
<1> QED
  BY <1>1, <1>2, <1>3, <1>4 DEF SInv

LEMMA RetireFoundSInv ==
    ASSUME SInv, NEW b \in Builders, RetireFound(b)
    PROVE  SInv'
<1>1. ManagementInv'
  BY DEF SInv, RetireFound, Retirable, ManagementInv, TypeOK
<1>2. TypeOK'
  BY DEF SInv, RetireFound, Retirable, TypeOK, Artifacts, ManagementInv,
          PlaceInv, FoundInv, ReclaimInv
<1>3. PlaceInv'
  BY DEF SInv, RetireFound, Retirable, PlaceInv, TypeOK, ManagementInv,
          FoundInv, ReclaimInv
<1>4. LockFileInv'
  BY DEF SInv, RetireFound, Retirable, LockFileInv, TypeOK, ManagementInv,
          PlaceInv, FoundInv, ReclaimInv
<1>5. CompleteInv'
  BY DEF SInv, RetireFound, Retirable, CompleteInv, TypeOK, ManagementInv,
          PlaceInv, FoundInv, ReclaimInv
<1>6. FoundInv'
  BY DEF SInv, RetireFound, Retirable, FoundInv, TypeOK, ManagementInv,
          PlaceInv, ReclaimInv
<1>7. ReclaimInv'
  BY DEF SInv, RetireFound, Retirable, ReclaimInv, TypeOK, ManagementInv,
          PlaceInv, FoundInv
<1>8. MutatorInv'
  BY DEF SInv, RetireFound, Retirable, MutatorInv, TypeOK, ArtifactNameFree,
          Named, Artifacts, ManagementInv, PlaceInv, FoundInv, ReclaimInv
<1>9. NameInv'
  BY DEF SInv, RetireFound, Retirable, NameInv, TypeOK, ArtifactNameFree,
          Named, Artifacts, ManagementInv, PlaceInv, FoundInv, ReclaimInv
<1>10. ArtifactNamesUnique'
  BY DEF SInv, RetireFound, Retirable, ArtifactNamesUnique, TypeOK, Artifacts,
          ManagementInv, PlaceInv, FoundInv, ReclaimInv
<1>11. UseInv'
  BY DEF SInv, RetireFound, Retirable, UseInv, TypeOK, ManagementInv, PlaceInv,
          FoundInv, ReclaimInv
<1> QED
  BY <1>1, <1>2, <1>3, <1>4, <1>5, <1>6, <1>7, <1>8, <1>9, <1>10, <1>11 DEF
          SInv

LEMMA ArtifactRecoverySInv ==
    ASSUME SInv, ArtifactRecovery
    PROVE  SInv'
<1>1. (PlaceInv /\ LockFileInv /\ CompleteInv /\ ReclaimInv /\ MutatorInv /\
      NameInv /\ ArtifactNamesUnique /\ UseInv)'
  BY DEF SInv, ArtifactRecovery, Stale, Staged, LockHeld, PlaceInv, TypeOK,
          LockFileInv, CompleteInv, ReclaimInv, MutatorInv, ArtifactNameFree,
          Named, Artifacts, NameInv, ArtifactNamesUnique, UseInv
<1>2. TypeOK'
  BY DEF SInv, ArtifactRecovery, Stale, Staged, LockHeld, TypeOK, Artifacts,
          ManagementInv, PlaceInv, FoundInv, LockFileInv
<1>3. ManagementInv'
  BY DEF SInv, ArtifactRecovery, Stale, Staged, LockHeld, ManagementInv,
          TypeOK, PlaceInv, FoundInv, LockFileInv, Artifacts
<1>4. FoundInv'
  BY DEF SInv, ArtifactRecovery, Stale, Staged, LockHeld, FoundInv, TypeOK,
          ManagementInv, PlaceInv, LockFileInv, Artifacts
<1> QED
  BY <1>1, <1>2, <1>3, <1>4 DEF SInv

LEMMA RecoverFailsSInv ==
    ASSUME SInv, RecoverFails
    PROVE  SInv'
<1>1. (PlaceInv /\ LockFileInv /\ CompleteInv /\ MutatorInv /\ NameInv /\
      ArtifactNamesUnique /\ UseInv)'
  BY DEF SInv, RecoverFails, PlaceInv, TypeOK, LockFileInv, CompleteInv,
          MutatorInv, ArtifactNameFree, Named, Artifacts, NameInv,
          ArtifactNamesUnique, UseInv
<1>2. TypeOK'
  BY DEF SInv, RecoverFails, TypeOK, Artifacts, ManagementInv, PlaceInv,
          FoundInv, ReclaimInv
<1>3. ManagementInv'
  BY DEF SInv, RecoverFails, ManagementInv, TypeOK, PlaceInv, FoundInv,
          ReclaimInv
<1>4. FoundInv'
  BY DEF SInv, RecoverFails, FoundInv, TypeOK, ManagementInv, PlaceInv,
          ReclaimInv
<1>5. ReclaimInv'
  BY DEF SInv, RecoverFails, ReclaimInv, TypeOK, ManagementInv, PlaceInv,
          FoundInv
<1> QED
  BY <1>1, <1>2, <1>3, <1>4, <1>5 DEF SInv

LEMMA RecoverPreparedSInv ==
    ASSUME SInv, RecoverPrepared
    PROVE  SInv'
<1>1. (PlaceInv /\ LockFileInv /\ CompleteInv /\ ReclaimInv /\ MutatorInv /\
      NameInv /\ ArtifactNamesUnique /\ UseInv)'
  BY DEF SInv, RecoverPrepared, PlaceInv, TypeOK, LockFileInv, CompleteInv,
          ReclaimInv, MutatorInv, ArtifactNameFree, Named, Artifacts, NameInv,
          ArtifactNamesUnique, UseInv
<1>2. TypeOK'
  BY DEF SInv, RecoverPrepared, TypeOK, Artifacts, ManagementInv, PlaceInv,
          FoundInv, ReclaimInv
<1>3. ManagementInv'
  BY DEF SInv, RecoverPrepared, ManagementInv, TypeOK, PlaceInv, FoundInv,
          ReclaimInv
<1>4. FoundInv'
  BY DEF SInv, RecoverPrepared, FoundInv, TypeOK, ManagementInv, PlaceInv,
          ReclaimInv
<1> QED
  BY <1>1, <1>2, <1>3, <1>4 DEF SInv

LEMMA RecoverDeleteSInv ==
    ASSUME SInv, NEW b \in Builders, RecoverDelete(b)
    PROVE  SInv'
<1>1. ManagementInv'
  BY DEF SInv, RecoverDelete, ManagementInv, TypeOK
<1>2. TypeOK'
  BY DEF SInv, RecoverDelete, TypeOK, Artifacts, ManagementInv, PlaceInv,
          FoundInv, ReclaimInv
<1>3. PlaceInv'
  BY DEF SInv, RecoverDelete, PlaceInv, TypeOK, ManagementInv, FoundInv,
          ReclaimInv
<1>4. LockFileInv'
  BY DEF SInv, RecoverDelete, LockFileInv, TypeOK, ManagementInv, PlaceInv,
          FoundInv, ReclaimInv
<1>5. CompleteInv'
  BY DEF SInv, RecoverDelete, CompleteInv, TypeOK, ManagementInv, PlaceInv,
          FoundInv, ReclaimInv
<1>6. FoundInv'
  BY DEF SInv, RecoverDelete, FoundInv, TypeOK, ManagementInv, PlaceInv,
          ReclaimInv
<1>7. ReclaimInv'
  BY DEF SInv, RecoverDelete, ReclaimInv, TypeOK, ManagementInv, PlaceInv,
          FoundInv
<1>8. MutatorInv'
  BY DEF SInv, RecoverDelete, MutatorInv, TypeOK, ArtifactNameFree, Named,
          Artifacts, ManagementInv, PlaceInv, FoundInv, ReclaimInv
<1>9. NameInv'
  BY DEF SInv, RecoverDelete, NameInv, TypeOK, ArtifactNameFree, Named,
          Artifacts, ManagementInv, PlaceInv, FoundInv, ReclaimInv
<1>10. ArtifactNamesUnique'
  BY DEF SInv, RecoverDelete, ArtifactNamesUnique, TypeOK, Artifacts,
          ManagementInv, PlaceInv, FoundInv, ReclaimInv
<1>11. UseInv'
  BY DEF SInv, RecoverDelete, UseInv, TypeOK, ManagementInv, PlaceInv,
          FoundInv, ReclaimInv
<1> QED
  BY <1>1, <1>2, <1>3, <1>4, <1>5, <1>6, <1>7, <1>8, <1>9, <1>10, <1>11 DEF
          SInv

LEMMA RecoverEndSInv ==
    ASSUME SInv, RecoverEnd
    PROVE  SInv'
<1>1. (PlaceInv /\ LockFileInv /\ CompleteInv /\ ReclaimInv /\ MutatorInv /\
      NameInv /\ ArtifactNamesUnique /\ UseInv)'
  BY DEF SInv, RecoverEnd, PlaceInv, TypeOK, LockFileInv, CompleteInv,
          ReclaimInv, MutatorInv, ArtifactNameFree, Named, Artifacts, NameInv,
          ArtifactNamesUnique, UseInv
<1>2. TypeOK'
  BY DEF SInv, RecoverEnd, TypeOK, Artifacts, ManagementInv, PlaceInv,
          FoundInv, ReclaimInv
<1>3. ManagementInv'
  BY DEF SInv, RecoverEnd, ManagementInv, TypeOK, PlaceInv, FoundInv,
          ReclaimInv
<1>4. FoundInv'
  BY DEF SInv, RecoverEnd, FoundInv, TypeOK, ManagementInv, PlaceInv,
          ReclaimInv
<1> QED
  BY <1>1, <1>2, <1>3, <1>4 DEF SInv

LEMMA RecoverInterruptedSInv ==
    ASSUME SInv, RecoverInterrupted
    PROVE  SInv'
<1>1. (PlaceInv /\ LockFileInv /\ CompleteInv /\ MutatorInv /\ NameInv /\
      ArtifactNamesUnique /\ UseInv)'
  BY DEF SInv, RecoverInterrupted, Release, PlaceInv, TypeOK, LockFileInv,
          CompleteInv, MutatorInv, ArtifactNameFree, Named, Artifacts, NameInv,
          ArtifactNamesUnique, UseInv
<1>2. TypeOK'
  BY DEF SInv, RecoverInterrupted, Release, TypeOK, Artifacts, ManagementInv,
          PlaceInv, FoundInv, ReclaimInv
<1>3. ManagementInv'
  BY DEF SInv, RecoverInterrupted, Release, ManagementInv, TypeOK, PlaceInv,
          FoundInv, ReclaimInv
<1>4. FoundInv'
  BY DEF SInv, RecoverInterrupted, Release, FoundInv, TypeOK, ManagementInv,
          PlaceInv, ReclaimInv
<1>5. ReclaimInv'
  BY DEF SInv, RecoverInterrupted, Release, ReclaimInv, TypeOK, ManagementInv,
          PlaceInv, FoundInv
<1> QED
  BY <1>1, <1>2, <1>3, <1>4, <1>5 DEF SInv
LEMMA StutterSInv == ASSUME SInv, UNCHANGED vars PROVE SInv'
BY DEF SInv, vars, TypeOK, ManagementInv, PlaceInv, LockFileInv, CompleteInv, FoundInv,
       ReclaimInv, MutatorInv, NameInv, ArtifactNamesUnique, UseInv, ArtifactNameFree,
       Named, Artifacts

LEMMA NextSInv == ASSUME SInv, [Next]_vars PROVE SInv'
<1>1. CASE UNCHANGED vars
  BY <1>1, StutterSInv
<1>2. ASSUME NEW b \in Builders, BuilderStep(b) PROVE SInv'
  BY <1>2, VerifyTemplateSInv, PrepareStagingSInv, CreateLockFileSInv, LockStagingSInv,
     LockStagingFailsSInv, FillSInv, BeginPublishSInv, SealSInv, PublishSInv, FinishSInv,
     FailSInv, CleanupSInv, CleanupEndsSInv, CleanupFailsSInv, CrashSInv
  DEF BuilderStep
<1>3. ASSUME NEW m \in Mutators, MutatorStep(m) PROVE SInv'
  BY <1>3, VerifyArtifactSInv, RenameBeginSInv, RenameReplaceSInv, RemoveArtifactSInv,
     RetireSpaceSInv, DeleteContentSInv, DeleteEndsSInv, MutatorStopsSInv
  DEF MutatorStep
<1>4. ASSUME RecoverWorks \/ RecoverInterrupted PROVE SInv'
  BY <1>4, RecoverProbeSInv, RecoverProbedSInv, RecoverBeginSInv, RetireFoundSInv,
     ArtifactRecoverySInv, RecoverFailsSInv, RecoverPreparedSInv, RecoverDeleteSInv,
     RecoverEndSInv, RecoverInterruptedSInv
  DEF RecoverWorks
<1> QED
  BY <1>1, <1>2, <1>3, <1>4 DEF Next

(* The inductive invariant holds in every reachable state.                 *)
THEOREM StagingSafety == Spec => []SInv
BY InitSInv, NextSInv, PTL DEF Spec

(* What is visible in the store is whole, without the sign of an           *)
(* unfinished creation, and artifact names are unique, whatever failed,    *)
(* died or was recovered meanwhile.                                        *)
THEOREM PublishedIsSound == Spec => []PublishedSound
<1>1. SInv => PublishedSound
  BY DEF SInv, PublishedSound, PublishedIntact, LockFileInv, CompleteInv
<1> QED
  BY <1>1, StagingSafety, PTL

(* Recovery never takes the directory of a builder that works in it.       *)
THEOREM LiveStagingIsKept == Spec => []LiveStagingKept
<1>1. SInv => LiveStagingKept
  BY DEF SInv, LiveStagingKept, PlaceInv
<1> QED
  BY <1>1, StagingSafety, PTL

(* A space made from a template copies the template that was verified.     *)
THEOREM TemplateUseIsFaithful == Spec => []TemplateUseFaithful
<1>1. SInv => TemplateUseFaithful
  BY DEF SInv, TemplateUseFaithful, UseInv
<1> QED
  BY <1>1, StagingSafety, PTL
=============================================================================
