--------------------------- MODULE RollbackProofs ---------------------------
(***************************************************************************)
(* Safety of the rollback transaction, for any number of spaces,           *)
(* transactions and sessions: the inductive invariant and its proof.       *)
(***************************************************************************)
EXTENDS Rollback, TLAPS

(* The store's two kinds of lock: steps that change paths hold the         *)
(* management lock, and a rollback holds its target until it retires it.   *)
ManagementInv ==
    /\ \A t \in Txs : pc[t] \in Publishing \cup {"lock"} => management = t
    /\ rpc \in Managed => management = Recoverer

BeforeRetire == {"lock", "capture", "fill", "publish", "prepared_tmp", "prepared", "retire"}

LeaseInv ==
    /\ \A t \in Txs : pc[t] \in BeforeRetire =>
          activity[t] = target[Target[t]] /\ activity[t] # NoTree
    /\ \A t, u \in Txs : activity[t] # NoTree /\ activity[t] = activity[u] => t = u
    /\ \A s \in Sessions : spc[s] = "running" =>
          /\ activity[s] = target[Home[s]]
          /\ activity[s] # NoTree
          /\ NotExclusive(activity[s])

(* Where trees are: each belongs to one space and is at one path.          *)
TreeOf(x, n) == x = n \/ (x \in filled /\ Target[x] = n /\ staging[x] = NoTree)

TreeInv ==
    /\ \A t \in Txs : staging[t] \in {t, NoTree}
    /\ \A n \in Names : target[n] # NoTree => TreeOf(target[n], n)
    /\ \A t \in Txs : retired[t] # NoTree =>
          /\ TreeOf(retired[t], Target[t])
          /\ target[Target[t]] # retired[t]
    /\ \A t, u \in Txs : retired[t] # NoTree /\ retired[t] = retired[u] => t = u
    /\ \A n \in Names : target[n] = NoTree =>
          \E t \in Txs : Target[t] = n /\ retired[t] # NoTree

(* What each marker state allows at the three paths.                       *)
MarkerShape(t) ==
    LET at == target[Target[t]] IN
    \/ marker[t] = "none" /\ retired[t] = NoTree
    \/ /\ marker[t] = "prepared" /\ staging[t] = t
       /\ at # NoTree <=> retired[t] = NoTree
    \/ /\ marker[t] = "retired" /\ retired[t] # NoTree
       /\ \/ staging[t] = t /\ at = NoTree
          \/ staging[t] = NoTree /\ at = t
    \/ marker[t] = "published" /\ staging[t] = NoTree /\ at = t

MarkerInv ==
    /\ \A t \in Txs : MarkerShape(t)
    /\ \A t \in Txs : marker[t] # "none" => t \in filled
    /\ \A t, u \in Txs : /\ marker[t] # "none" /\ marker[u] # "none"
                         /\ Target[t] = Target[u]
                         => t = u

(* What a running rollback knows at each control point.                    *)
ControlShape(t) ==
    LET at == target[Target[t]] IN
    /\ pc[t] = "idle" => staging[t] = NoTree /\ marker[t] = "none" /\ t \notin filled
    /\ pc[t] = "lock" => staging[t] = t /\ marker[t] = "none"
    /\ pc[t] \in Staging => staging[t] = t /\ t \in lockFile /\ marker[t] = "none"
    /\ pc[t] = "publish" => t \in filled
    /\ pc[t] \in Publishing => \A u \in Txs \ {t} : Target[u] = Target[t] => marker[u] = "none"
    /\ pc[t] \in {"prepared_tmp", "prepared"} =>
          staging[t] = t /\ marker[t] = "none" /\ t \in filled
    /\ pc[t] = "retire" => marker[t] = "prepared" /\ retired[t] = NoTree
    /\ pc[t] \in {"retired_tmp", "retired"} => marker[t] = "prepared" /\ at = NoTree
    /\ pc[t] \in {"unlock", "swap"} => marker[t] = "retired" /\ at = NoTree
    /\ pc[t] \in {"published_tmp", "published"} => marker[t] = "retired" /\ at = t
    /\ pc[t] = "reclaim" => marker[t] = "published" /\ retired[t] # NoTree
    /\ pc[t] = "unmark" => marker[t] = "published" /\ retired[t] = NoTree
    /\ pc[t] = "purge" => marker[t] = "none" /\ staging[t] = NoTree

ControlInv == \A t \in Txs : ControlShape(t)

(* The plan that recovery made for a marker is still the right one.        *)
PlanShape(t) ==
    LET at == target[Target[t]] IN
    /\ pc[t] \in {"cleanup", "done", "dead"}
    /\ plan[t] = "abort" =>
          marker[t] = "prepared" /\ staging[t] = t /\ at # NoTree /\ retired[t] = NoTree
    /\ plan[t] = "restore" =>
          marker[t] \in {"prepared", "retired"} /\ staging[t] = t /\ at = NoTree /\ retired[t] # NoTree
    /\ plan[t] = "complete" =>
          marker[t] \in {"retired", "published"} /\ staging[t] = NoTree /\ at = t

StepShape(t) ==
    LET at == target[Target[t]] IN
    /\ plan[t] # "none"
    /\ pc[t] \in {"cleanup", "done", "dead"}
    /\ rpc \in {"transition_tmp", "transition"} => PlanShape(t) /\ plan[t] # "abort"
    /\ rpc = "restore" => PlanShape(t) /\ plan[t] = "restore" /\ marker[t] = "prepared"
    /\ rpc = "complete" => PlanShape(t) /\ plan[t] = "complete" /\ marker[t] = "published"
    /\ rpc = "unmark" =>
          /\ retired[t] = NoTree
          /\ IF plan[t] = "complete"
             THEN marker[t] = "published" /\ at = t
             ELSE marker[t] = "prepared" /\ at # NoTree
    /\ rpc = "discard" => marker[t] = "none" /\ plan[t] # "complete"

RecoverInv ==
    /\ rpc = "apply" => \A t \in Txs : plan[t] # "none" => PlanShape(t)
    /\ rpc \in Applying =>
          /\ rtx \in Txs
          /\ StepShape(rtx)
          /\ \A t \in Txs \ {rtx} : plan[t] # "none" => PlanShape(t)

(* A replaced home is in a published snapshot as it was when it was        *)
(* retired; the lease keeps it so until then.                              *)
SavedInv ==
    /\ \A t \in Txs : retired[t] # NoTree =>
          <<retired[t], content[retired[t]]>> \in saved
    /\ \A t \in Txs : pc[t] \in BeforeRetire \ {"lock", "capture"} =>
          <<target[Target[t]], content[target[Target[t]]]>> \in saved

IInv ==
    /\ TypeOK
    /\ ManagementInv
    /\ LeaseInv
    /\ TreeInv
    /\ MarkerInv
    /\ ControlInv
    /\ RecoverInv
    /\ SavedInv

-----------------------------------------------------------------------------
USE RollbackAssumption
DEF Trees, MarkerStates, PlanActions, Outside, Staging, Publishing, PCs,
    Applying, Managed, RPCs, BeforeRetire, fsVars, dataVars, lockVars, recVars

(* One lemma for each action: the parts it cannot disturb, then the others.*)

LEMMA PreparePreserves ==
    ASSUME IInv, NEW t \in Txs, Prepare(t)
    PROVE  IInv'
<1>1. TypeOK' /\ ManagementInv' /\ MarkerInv' /\ RecoverInv' /\ SavedInv'
  BY DEF Prepare, CanOpen, Openable, Unlocked, IInv, TypeOK, ManagementInv,
     MarkerInv, MarkerShape, RecoverInv, PlanShape, StepShape, SavedInv
<1>2. LeaseInv'
  BY DEF Prepare, CanOpen, Openable, Unlocked, IInv, TypeOK, LeaseInv,
     NotExclusive
<1>3. TreeInv'
  BY DEF Prepare, CanOpen, Openable, Unlocked, IInv, TypeOK, ManagementInv,
     TreeInv, TreeOf, ControlInv, ControlShape
<1>4. ControlInv'
  BY DEF Prepare, CanOpen, Openable, Unlocked, IInv, TypeOK, ControlInv,
     ControlShape
<1> QED
  BY <1>1, <1>2, <1>3, <1>4 DEF IInv

LEMMA LockStagingPreserves ==
    ASSUME IInv, NEW t \in Txs, LockStaging(t)
    PROVE  IInv'
<1>1. TypeOK' /\ LeaseInv' /\ TreeInv' /\ MarkerInv' /\ ControlInv' /\
      RecoverInv' /\ SavedInv'
  BY DEF LockStaging, IInv, TypeOK, LeaseInv, NotExclusive, TreeInv, TreeOf,
     MarkerInv, MarkerShape, ControlInv, ControlShape, RecoverInv, PlanShape,
     StepShape, SavedInv
<1>2. ManagementInv'
  BY DEF LockStaging, IInv, TypeOK, ManagementInv
<1> QED
  BY <1>1, <1>2 DEF IInv

LEMMA LockStagingFailsPreserves ==
    ASSUME IInv, NEW t \in Txs, LockStagingFails(t)
    PROVE  IInv'
<1>1. TypeOK' /\ TreeInv' /\ RecoverInv' /\ SavedInv'
  BY DEF LockStagingFails, IInv, TypeOK, TreeInv, TreeOf, RecoverInv,
     PlanShape, StepShape, SavedInv
<1>2. ManagementInv'
  BY DEF LockStagingFails, IInv, TypeOK, ManagementInv
<1>3. LeaseInv'
  BY DEF LockStagingFails, IInv, TypeOK, LeaseInv, NotExclusive
<1>4. MarkerInv'
  BY DEF LockStagingFails, IInv, TypeOK, ManagementInv, MarkerInv,
     MarkerShape, ControlInv, ControlShape
<1>5. ControlInv'
  BY DEF LockStagingFails, IInv, TypeOK, ControlInv, ControlShape
<1> QED
  BY <1>1, <1>2, <1>3, <1>4, <1>5 DEF IInv

LEMMA CapturePreserves ==
    ASSUME IInv, NEW t \in Txs, Capture(t)
    PROVE  IInv'
<1>1. TypeOK' /\ ManagementInv' /\ LeaseInv' /\ TreeInv' /\ MarkerInv' /\
      ControlInv' /\ RecoverInv' /\ SavedInv'
  BY DEF Capture, IInv, TypeOK, ManagementInv, LeaseInv, NotExclusive,
     TreeInv, TreeOf, MarkerInv, MarkerShape, ControlInv, ControlShape,
     RecoverInv, PlanShape, StepShape, SavedInv
<1> QED
  BY <1>1 DEF IInv

LEMMA FillPreserves ==
    ASSUME IInv, NEW t \in Txs, Fill(t)
    PROVE  IInv'
<1>1. TypeOK' /\ ManagementInv' /\ LeaseInv' /\ TreeInv' /\ MarkerInv' /\
      ControlInv' /\ RecoverInv' /\ SavedInv'
  BY DEF Fill, IInv, TypeOK, ManagementInv, LeaseInv, NotExclusive, TreeInv,
     TreeOf, MarkerInv, MarkerShape, ControlInv, ControlShape, RecoverInv,
     PlanShape, StepShape, SavedInv
<1> QED
  BY <1>1 DEF IInv

LEMMA BeginPublishPreserves ==
    ASSUME IInv, NEW t \in Txs, BeginPublish(t)
    PROVE  IInv'
<1>1. TypeOK' /\ ManagementInv' /\ LeaseInv' /\ TreeInv' /\ MarkerInv' /\
      ControlInv' /\ RecoverInv' /\ SavedInv'
  BY DEF BeginPublish, CanOpen, Openable, IInv, TypeOK, ManagementInv,
     LeaseInv, NotExclusive, TreeInv, TreeOf, MarkerInv, MarkerShape,
     ControlInv, ControlShape, RecoverInv, PlanShape, StepShape, SavedInv
<1> QED
  BY <1>1 DEF IInv

LEMMA RetireTargetPreserves ==
    ASSUME IInv, NEW t \in Txs, RetireTarget(t)
    PROVE  IInv'
<1>1. TypeOK' /\ ManagementInv'
  BY DEF RetireTarget, IInv, TypeOK, ManagementInv
<1>2. LeaseInv'
  BY DEF RetireTarget, IInv, TypeOK, LeaseInv, NotExclusive
<1>3. TreeInv'
  BY DEF RetireTarget, IInv, TypeOK, TreeInv, TreeOf
<1>4. MarkerInv'
  BY DEF RetireTarget, IInv, TypeOK, ManagementInv, MarkerInv, MarkerShape,
     ControlInv, ControlShape
<1>5. ControlInv'
  BY DEF RetireTarget, IInv, TypeOK, ControlInv, ControlShape
<1>6. RecoverInv'
  BY DEF RetireTarget, IInv, TypeOK, ManagementInv, RecoverInv, PlanShape,
     StepShape
<1>7. SavedInv'
  <2>1. \A u \in Txs : u # t /\ pc[u] \in BeforeRetire => Target[u] # Target[t]
    BY DEF RetireTarget, IInv, LeaseInv
  <2>2. <<target[Target[t]], content[target[Target[t]]]>> \in saved
    BY DEF RetireTarget, IInv, SavedInv
  <2>3. pc' = [pc EXCEPT ![t] = "retired_tmp"] /\ UNCHANGED <<saved, content>>
    BY DEF RetireTarget
  <2>4. \A u \in Txs : retired'[u] # NoTree => <<retired'[u], content[retired'[u]]>> \in saved
    BY <2>2 DEF RetireTarget, IInv, TypeOK, SavedInv
  <2>5. \A u \in Txs : u # t /\ pc[u] \in BeforeRetire => target'[Target[u]] = target[Target[u]]
    BY <2>1 DEF RetireTarget, IInv, TypeOK
  <2> QED
    BY <2>3, <2>4, <2>5 DEF IInv, TypeOK, SavedInv
<1> QED
  BY <1>1, <1>2, <1>3, <1>4, <1>5, <1>6, <1>7 DEF IInv

LEMMA RemoveLockFilePreserves ==
    ASSUME IInv, NEW t \in Txs, RemoveLockFile(t)
    PROVE  IInv'
<1>1. TypeOK' /\ ManagementInv' /\ LeaseInv' /\ TreeInv' /\ MarkerInv' /\
      ControlInv' /\ RecoverInv' /\ SavedInv'
  BY DEF RemoveLockFile, IInv, TypeOK, ManagementInv, LeaseInv, NotExclusive,
     TreeInv, TreeOf, MarkerInv, MarkerShape, ControlInv, ControlShape,
     RecoverInv, PlanShape, StepShape, SavedInv
<1> QED
  BY <1>1 DEF IInv

LEMMA PublishStagingPreserves ==
    ASSUME IInv, NEW t \in Txs, PublishStaging(t)
    PROVE  IInv'
<1>1. TypeOK' /\ ManagementInv' /\ LeaseInv'
  BY DEF PublishStaging, IInv, TypeOK, ManagementInv, LeaseInv, NotExclusive
<1>2. TreeInv'
  BY DEF PublishStaging, IInv, TypeOK, ManagementInv, TreeInv, TreeOf,
     MarkerInv, MarkerShape, ControlInv, ControlShape
<1>3. MarkerInv'
  BY DEF PublishStaging, IInv, TypeOK, ManagementInv, MarkerInv, MarkerShape,
     ControlInv, ControlShape
<1>4. ControlInv'
  BY DEF PublishStaging, IInv, TypeOK, ManagementInv, MarkerInv, MarkerShape,
     ControlInv, ControlShape
<1>5. RecoverInv'
  BY DEF PublishStaging, IInv, TypeOK, ManagementInv, RecoverInv, PlanShape,
     StepShape
<1>6. SavedInv'
  BY DEF PublishStaging, IInv, TypeOK, LeaseInv, NotExclusive, TreeInv,
     TreeOf, SavedInv
<1> QED
  BY <1>1, <1>2, <1>3, <1>4, <1>5, <1>6 DEF IInv

LEMMA ReclaimRetiredPreserves ==
    ASSUME IInv, NEW t \in Txs, ReclaimRetired(t)
    PROVE  IInv'
<1>1. ManagementInv' /\ LeaseInv' /\ RecoverInv' /\ SavedInv'
  BY DEF ReclaimRetired, IInv, ManagementInv, LeaseInv, NotExclusive,
     RecoverInv, PlanShape, StepShape, SavedInv
<1>2. TypeOK'
  BY DEF ReclaimRetired, IInv, TypeOK, ManagementInv, ControlInv, ControlShape
<1>3. TreeInv'
  BY DEF ReclaimRetired, IInv, TypeOK, ManagementInv, TreeInv, TreeOf,
     MarkerInv, MarkerShape, ControlInv, ControlShape
<1>4. MarkerInv'
  BY DEF ReclaimRetired, IInv, TypeOK, ManagementInv, MarkerInv, MarkerShape,
     ControlInv, ControlShape
<1>5. ControlInv'
  BY DEF ReclaimRetired, IInv, TypeOK, ControlInv, ControlShape
<1> QED
  BY <1>1, <1>2, <1>3, <1>4, <1>5 DEF IInv

LEMMA RemoveMarkerPreserves ==
    ASSUME IInv, NEW t \in Txs, RemoveMarker(t)
    PROVE  IInv'
<1>1. TypeOK' /\ LeaseInv' /\ TreeInv' /\ RecoverInv' /\ SavedInv'
  BY DEF RemoveMarker, IInv, TypeOK, LeaseInv, NotExclusive, TreeInv, TreeOf,
     RecoverInv, PlanShape, StepShape, SavedInv
<1>2. ManagementInv'
  BY DEF RemoveMarker, IInv, TypeOK, ManagementInv
<1>3. MarkerInv'
  BY DEF RemoveMarker, IInv, TypeOK, ManagementInv, MarkerInv, MarkerShape,
     ControlInv, ControlShape
<1>4. ControlInv'
  BY DEF RemoveMarker, IInv, TypeOK, ManagementInv, MarkerInv, MarkerShape,
     ControlInv, ControlShape
<1> QED
  BY <1>1, <1>2, <1>3, <1>4 DEF IInv

LEMMA PurgePreserves ==
    ASSUME IInv, NEW t \in Txs, Purge(t)
    PROVE  IInv'
<1>1. TypeOK' /\ ManagementInv' /\ LeaseInv' /\ TreeInv' /\ MarkerInv' /\
      ControlInv' /\ RecoverInv' /\ SavedInv'
  BY DEF Purge, IInv, TypeOK, ManagementInv, LeaseInv, NotExclusive, TreeInv,
     TreeOf, MarkerInv, MarkerShape, ControlInv, ControlShape, RecoverInv,
     PlanShape, StepShape, SavedInv
<1> QED
  BY <1>1 DEF IInv

LEMMA FailPreserves ==
    ASSUME IInv, NEW t \in Txs, Fail(t)
    PROVE  IInv'
<1>1. TypeOK' /\ TreeInv' /\ MarkerInv' /\ ControlInv' /\ RecoverInv' /\
      SavedInv'
  BY DEF Fail, Release, IInv, TypeOK, TreeInv, TreeOf, MarkerInv, MarkerShape,
     ControlInv, ControlShape, RecoverInv, PlanShape, StepShape, SavedInv
<1>2. ManagementInv'
  BY DEF Fail, Release, IInv, TypeOK, ManagementInv
<1>3. LeaseInv'
  BY DEF Fail, Release, IInv, TypeOK, LeaseInv, NotExclusive
<1> QED
  BY <1>1, <1>2, <1>3 DEF IInv

LEMMA CleanupPreserves ==
    ASSUME IInv, NEW t \in Txs, Cleanup(t)
    PROVE  IInv'
<1>1. TypeOK' /\ ManagementInv' /\ LeaseInv' /\ SavedInv'
  BY DEF Cleanup, IInv, TypeOK, ManagementInv, LeaseInv, NotExclusive,
     SavedInv
<1>2. TreeInv'
  BY DEF Cleanup, IInv, TypeOK, TreeInv, TreeOf
<1>3. MarkerInv'
  BY DEF Cleanup, IInv, TypeOK, MarkerInv, MarkerShape
<1>4. ControlInv'
  BY DEF Cleanup, IInv, TypeOK, ControlInv, ControlShape
<1>5. RecoverInv'
  BY DEF Cleanup, IInv, TypeOK, RecoverInv, PlanShape, StepShape
<1> QED
  BY <1>1, <1>2, <1>3, <1>4, <1>5 DEF IInv

LEMMA CrashPreserves ==
    ASSUME IInv, NEW t \in Txs, Crash(t)
    PROVE  IInv'
<1>1. TypeOK' /\ TreeInv' /\ MarkerInv' /\ ControlInv' /\ RecoverInv' /\
      SavedInv'
  BY DEF Crash, Release, IInv, TypeOK, TreeInv, TreeOf, MarkerInv,
     MarkerShape, ControlInv, ControlShape, RecoverInv, PlanShape, StepShape,
     SavedInv
<1>2. ManagementInv'
  BY DEF Crash, Release, IInv, TypeOK, ManagementInv
<1>3. LeaseInv'
  BY DEF Crash, Release, IInv, TypeOK, LeaseInv, NotExclusive
<1> QED
  BY <1>1, <1>2, <1>3 DEF IInv

LEMMA ReclaimTempPreserves ==
    ASSUME IInv, NEW t \in Txs, ReclaimTemp(t)
    PROVE  IInv'
<1>1. TypeOK' /\ ManagementInv' /\ LeaseInv' /\ TreeInv' /\ MarkerInv' /\
      ControlInv' /\ RecoverInv' /\ SavedInv'
  BY DEF ReclaimTemp, IInv, TypeOK, ManagementInv, LeaseInv, NotExclusive,
     TreeInv, TreeOf, MarkerInv, MarkerShape, ControlInv, ControlShape,
     RecoverInv, PlanShape, StepShape, SavedInv
<1> QED
  BY <1>1 DEF IInv

LEMMA ApplyPlanPreserves ==
    ASSUME IInv, NEW t \in Txs, ApplyPlan(t)
    PROVE  IInv'
<1>1. TypeOK' /\ ManagementInv' /\ LeaseInv' /\ TreeInv' /\ MarkerInv' /\
      ControlInv' /\ SavedInv'
  BY DEF ApplyPlan, IInv, TypeOK, ManagementInv, LeaseInv, NotExclusive,
     TreeInv, TreeOf, MarkerInv, MarkerShape, ControlInv, ControlShape,
     SavedInv
<1>2. RecoverInv'
  BY DEF ApplyPlan, IInv, TypeOK, RecoverInv, PlanShape, StepShape
<1> QED
  BY <1>1, <1>2 DEF IInv

LEMMA ReclaimOrphanPreserves ==
    ASSUME IInv, NEW t \in Txs, ReclaimOrphan(t)
    PROVE  IInv'
<1>1. TypeOK' /\ ManagementInv' /\ LeaseInv' /\ TreeInv' /\ MarkerInv' /\
      RecoverInv' /\ SavedInv'
  BY DEF ReclaimOrphan, RetireStaging, Orphan, LockHeld, IInv, TypeOK,
     ManagementInv, LeaseInv, NotExclusive, TreeInv, TreeOf, MarkerInv,
     MarkerShape, RecoverInv, PlanShape, StepShape, SavedInv
<1>2. ControlInv'
  BY DEF ReclaimOrphan, RetireStaging, Orphan, LockHeld, IInv, TypeOK,
     ManagementInv, ControlInv, ControlShape
<1> QED
  BY <1>1, <1>2 DEF IInv

LEMMA WritePreparedTempPreserves ==
    ASSUME IInv, NEW t \in Txs, WriteTemp(t, "prepared_tmp", "prepared")
    PROVE  IInv'
<1>1. TypeOK' /\ ManagementInv' /\ LeaseInv' /\ TreeInv' /\ MarkerInv' /\
      ControlInv' /\ RecoverInv' /\ SavedInv'
  BY DEF WriteTemp, IInv, TypeOK, ManagementInv, LeaseInv, NotExclusive,
     TreeInv, TreeOf, MarkerInv, MarkerShape, ControlInv, ControlShape,
     RecoverInv, PlanShape, StepShape, SavedInv
<1> QED
  BY <1>1 DEF IInv

LEMMA WriteRetiredTempPreserves ==
    ASSUME IInv, NEW t \in Txs, WriteTemp(t, "retired_tmp", "retired")
    PROVE  IInv'
<1>1. TypeOK' /\ ManagementInv' /\ LeaseInv' /\ TreeInv' /\ MarkerInv' /\
      ControlInv' /\ RecoverInv' /\ SavedInv'
  BY DEF WriteTemp, IInv, TypeOK, ManagementInv, LeaseInv, NotExclusive,
     TreeInv, TreeOf, MarkerInv, MarkerShape, ControlInv, ControlShape,
     RecoverInv, PlanShape, StepShape, SavedInv
<1> QED
  BY <1>1 DEF IInv

LEMMA WritePublishedTempPreserves ==
    ASSUME IInv, NEW t \in Txs, WriteTemp(t, "published_tmp", "published")
    PROVE  IInv'
<1>1. TypeOK' /\ ManagementInv' /\ LeaseInv' /\ TreeInv' /\ MarkerInv' /\
      ControlInv' /\ RecoverInv' /\ SavedInv'
  BY DEF WriteTemp, IInv, TypeOK, ManagementInv, LeaseInv, NotExclusive,
     TreeInv, TreeOf, MarkerInv, MarkerShape, ControlInv, ControlShape,
     RecoverInv, PlanShape, StepShape, SavedInv
<1> QED
  BY <1>1 DEF IInv

LEMMA MarkPreparedPreserves ==
    ASSUME IInv, NEW t \in Txs, RenameTemp(t, "prepared", "retire")
    PROVE  IInv'
<1>1. TypeOK' /\ ManagementInv' /\ LeaseInv' /\ TreeInv' /\ RecoverInv' /\
      SavedInv'
  BY DEF RenameTemp, IInv, TypeOK, ManagementInv, LeaseInv, NotExclusive,
     TreeInv, TreeOf, RecoverInv, PlanShape, StepShape, SavedInv
<1>2. MarkerInv'
  BY DEF RenameTemp, IInv, TypeOK, ManagementInv, TreeInv, TreeOf, MarkerInv,
     MarkerShape, ControlInv, ControlShape
<1>3. ControlInv'
  BY DEF RenameTemp, IInv, TypeOK, ManagementInv, MarkerInv, MarkerShape,
     ControlInv, ControlShape
<1> QED
  BY <1>1, <1>2, <1>3 DEF IInv

LEMMA MarkRetiredPreserves ==
    ASSUME IInv, NEW t \in Txs, RenameTemp(t, "retired", "unlock")
    PROVE  IInv'
<1>1. TypeOK' /\ ManagementInv' /\ LeaseInv' /\ TreeInv' /\ RecoverInv' /\
      SavedInv'
  BY DEF RenameTemp, IInv, TypeOK, ManagementInv, LeaseInv, NotExclusive,
     TreeInv, TreeOf, RecoverInv, PlanShape, StepShape, SavedInv
<1>2. MarkerInv'
  BY DEF RenameTemp, IInv, TypeOK, ManagementInv, MarkerInv, MarkerShape,
     ControlInv, ControlShape
<1>3. ControlInv'
  BY DEF RenameTemp, IInv, TypeOK, ControlInv, ControlShape
<1> QED
  BY <1>1, <1>2, <1>3 DEF IInv

LEMMA MarkPublishedPreserves ==
    ASSUME IInv, NEW t \in Txs, RenameTemp(t, "published", "reclaim")
    PROVE  IInv'
<1>1. TypeOK' /\ ManagementInv' /\ LeaseInv' /\ TreeInv' /\ RecoverInv' /\
      SavedInv'
  BY DEF RenameTemp, IInv, TypeOK, ManagementInv, LeaseInv, NotExclusive,
     TreeInv, TreeOf, RecoverInv, PlanShape, StepShape, SavedInv
<1>2. MarkerInv'
  BY DEF RenameTemp, IInv, TypeOK, ManagementInv, MarkerInv, MarkerShape,
     ControlInv, ControlShape
<1>3. ControlInv'
  BY DEF RenameTemp, IInv, TypeOK, ManagementInv, MarkerInv, MarkerShape,
     ControlInv, ControlShape
<1> QED
  BY <1>1, <1>2, <1>3 DEF IInv

LEMMA RecoverBeginPreserves ==
    ASSUME IInv, RecoverBegin
    PROVE  IInv'
<1>1. TypeOK' /\ ManagementInv' /\ LeaseInv' /\ TreeInv' /\ MarkerInv' /\
      ControlInv' /\ RecoverInv' /\ SavedInv'
  BY DEF RecoverBegin, IInv, TypeOK, ManagementInv, LeaseInv, NotExclusive,
     TreeInv, TreeOf, MarkerInv, MarkerShape, ControlInv, ControlShape,
     RecoverInv, PlanShape, StepShape, SavedInv
<1> QED
  BY <1>1 DEF IInv

LEMMA TempsReclaimedPreserves ==
    ASSUME IInv, TempsReclaimed
    PROVE  IInv'
<1>1. TypeOK' /\ ManagementInv' /\ LeaseInv' /\ TreeInv' /\ MarkerInv' /\
      ControlInv' /\ RecoverInv' /\ SavedInv'
  BY DEF TempsReclaimed, IInv, TypeOK, ManagementInv, LeaseInv, NotExclusive,
     TreeInv, TreeOf, MarkerInv, MarkerShape, ControlInv, ControlShape,
     RecoverInv, PlanShape, StepShape, SavedInv
<1> QED
  BY <1>1 DEF IInv

LEMMA LoadInventoryPreserves ==
    ASSUME IInv, LoadInventory
    PROVE  IInv'
<1>1. ManagementInv' /\ LeaseInv' /\ TreeInv' /\ MarkerInv' /\ ControlInv' /\
      SavedInv'
  BY DEF LoadInventory, IInv, ManagementInv, LeaseInv, NotExclusive, TreeInv,
     TreeOf, MarkerInv, MarkerShape, ControlInv, ControlShape, SavedInv
<1>2. TypeOK'
  <2>1. \A t \in Txs : RecoveryRow(t) \in PlanActions \cup {"ambiguous"}
    BY DEF RecoveryRow
  <2>2. plan' \in [Txs -> PlanActions \cup {"none"}]
    BY <2>1 DEF LoadInventory, RecoveryAction
  <2> QED
    BY <2>2 DEF LoadInventory, IInv, TypeOK
<1>3. RecoverInv'
  <2> SUFFICES ASSUME NEW t \in Txs, plan'[t] # "none"
               PROVE  PlanShape(t)'
    BY DEF LoadInventory, RecoverInv
  <2>1. /\ marker[t] # "none"
        /\ RecoveryRow(t) # "ambiguous"
        /\ plan'[t] = RecoveryRow(t)
    BY DEF LoadInventory, RecoveryAction
  <2>2. pc[t] \in {"cleanup", "done", "dead"}
    BY <2>1 DEF LoadInventory, IInv, TypeOK, ManagementInv, ControlInv, ControlShape
  <2>3. /\ marker[t] \in MarkerStates
        /\ staging[t] \in {t, NoTree}
        /\ MarkerShape(t)
    BY <2>1 DEF IInv, TypeOK, TreeInv, MarkerInv
  <2>4. \/ /\ RecoveryRow(t) = "abort" /\ marker[t] = "prepared"
           /\ Paths(t) = <<TRUE, TRUE, FALSE>>
        \/ /\ RecoveryRow(t) = "restore" /\ marker[t] \in {"prepared", "retired"}
           /\ Paths(t) = <<FALSE, TRUE, TRUE>>
        \/ /\ RecoveryRow(t) = "complete" /\ marker[t] \in {"retired", "published"}
           /\ Paths(t) \in {<<TRUE, FALSE, TRUE>>, <<TRUE, FALSE, FALSE>>}
    BY <2>1, <2>3 DEF RecoveryRow
  <2>5. PlanShape(t)'
        <=> /\ pc[t] \in {"cleanup", "done", "dead"}
            /\ plan'[t] = "abort" =>
                  /\ marker[t] = "prepared" /\ staging[t] = t
                  /\ target[Target[t]] # NoTree /\ retired[t] = NoTree
            /\ plan'[t] = "restore" =>
                  /\ marker[t] \in {"prepared", "retired"} /\ staging[t] = t
                  /\ target[Target[t]] = NoTree /\ retired[t] # NoTree
            /\ plan'[t] = "complete" =>
                  /\ marker[t] \in {"retired", "published"} /\ staging[t] = NoTree
                  /\ target[Target[t]] = t
    BY DEF LoadInventory, PlanShape
  <2> QED
    BY <2>1, <2>2, <2>3, <2>4, <2>5 DEF MarkerShape, Paths
<1> QED
  BY <1>1, <1>2, <1>3 DEF IInv

LEMMA TransitionTempPreserves ==
    ASSUME IInv, TransitionTemp
    PROVE  IInv'
<1>1. ManagementInv' /\ LeaseInv' /\ TreeInv' /\ MarkerInv' /\ ControlInv' /\
      RecoverInv' /\ SavedInv'
  BY DEF TransitionTemp, IInv, ManagementInv, LeaseInv, NotExclusive, TreeInv,
     TreeOf, MarkerInv, MarkerShape, ControlInv, ControlShape, RecoverInv,
     PlanShape, StepShape, SavedInv
<1>2. TypeOK'
  BY DEF TransitionTemp, IInv, TypeOK, ManagementInv, TreeInv, TreeOf,
     MarkerInv, MarkerShape, RecoverInv, PlanShape, StepShape
<1> QED
  BY <1>1, <1>2 DEF IInv

LEMMA TransitionMarkerPreserves ==
    ASSUME IInv, TransitionMarker
    PROVE  IInv'
<1>1. ManagementInv' /\ LeaseInv' /\ TreeInv' /\ SavedInv'
  BY DEF TransitionMarker, IInv, ManagementInv, LeaseInv, NotExclusive,
     TreeInv, TreeOf, SavedInv
<1>2. TypeOK'
  BY DEF TransitionMarker, IInv, TypeOK, ManagementInv, TreeInv, TreeOf,
     MarkerInv, MarkerShape, RecoverInv, PlanShape, StepShape
<1>3. MarkerInv'
  BY DEF TransitionMarker, IInv, TypeOK, ManagementInv, TreeInv, TreeOf,
     MarkerInv, MarkerShape, RecoverInv, PlanShape, StepShape
<1>4. ControlInv'
  BY DEF TransitionMarker, IInv, TypeOK, ManagementInv, TreeInv, TreeOf,
     MarkerInv, MarkerShape, ControlInv, ControlShape, RecoverInv, PlanShape,
     StepShape
<1>5. RecoverInv'
  BY DEF TransitionMarker, IInv, TypeOK, RecoverInv, PlanShape, StepShape
<1> QED
  BY <1>1, <1>2, <1>3, <1>4, <1>5 DEF IInv

LEMMA RestoreOldPreserves ==
    ASSUME IInv, RestoreOld
    PROVE  IInv'
<1>1. ManagementInv' /\ LeaseInv'
  BY DEF RestoreOld, IInv, ManagementInv, LeaseInv, NotExclusive
<1>2. TypeOK'
  BY DEF RestoreOld, IInv, TypeOK, ManagementInv, TreeInv, TreeOf, MarkerInv,
     MarkerShape, RecoverInv, PlanShape, StepShape
<1>3. TreeInv'
  BY DEF RestoreOld, IInv, TypeOK, ManagementInv, TreeInv, TreeOf, MarkerInv,
     MarkerShape, RecoverInv, PlanShape, StepShape
<1>4. MarkerInv'
  BY DEF RestoreOld, IInv, TypeOK, ManagementInv, TreeInv, TreeOf, MarkerInv,
     MarkerShape, RecoverInv, PlanShape, StepShape
<1>5. ControlInv'
  BY DEF RestoreOld, IInv, TypeOK, ManagementInv, ControlInv, ControlShape
<1>6. RecoverInv'
  BY DEF RestoreOld, IInv, TypeOK, ManagementInv, MarkerInv, MarkerShape,
     ControlInv, ControlShape, RecoverInv, PlanShape, StepShape
<1>7. SavedInv'
  BY DEF RestoreOld, IInv, TypeOK, LeaseInv, NotExclusive, TreeInv, TreeOf,
     SavedInv
<1> QED
  BY <1>1, <1>2, <1>3, <1>4, <1>5, <1>6, <1>7 DEF IInv

LEMMA CompleteNewPreserves ==
    ASSUME IInv, CompleteNew
    PROVE  IInv'
<1>1. rtx \in Txs /\ target[Target[rtx]] = rtx
  BY DEF CompleteNew, IInv, RecoverInv, StepShape, PlanShape
<1>2. ManagementInv' /\ LeaseInv'
  BY DEF CompleteNew, IInv, ManagementInv, LeaseInv, NotExclusive
<1>3. TypeOK'
  BY <1>1 DEF CompleteNew, IInv, TypeOK
<1>4. TreeInv'
  <2>1. \A t \in Txs : retired'[t] = retired[t] \/ (t = rtx /\ retired'[t] = NoTree)
    BY <1>1 DEF CompleteNew, IInv, TypeOK
  <2>2. UNCHANGED <<target, staging, filled>> /\ rtx # NoTree
    BY <1>1 DEF CompleteNew
  <2>3. ASSUME NEW n \in Names, target[n] = NoTree
        PROVE  \E t \in Txs : Target[t] = n /\ retired'[t] # NoTree
    <3>1. PICK t \in Txs : Target[t] = n /\ retired[t] # NoTree
      BY <2>3 DEF IInv, TreeInv
    <3>2. t # rtx
      BY <1>1, <2>2, <2>3, <3>1
    <3> QED
      BY <2>1, <3>1, <3>2
  <2>4. \A t \in Txs : retired'[t] # NoTree => retired'[t] = retired[t]
    BY <2>1
  <2>5. \A t \in Txs : retired'[t] # NoTree =>
           /\ TreeOf(retired'[t], Target[t])
           /\ target'[Target[t]] # retired'[t]
    BY <2>2, <2>4 DEF IInv, TreeInv
  <2>6. \A t, u \in Txs : retired'[t] # NoTree /\ retired'[t] = retired'[u] => t = u
    BY <2>4 DEF IInv, TreeInv
  <2> QED
    BY <2>2, <2>3, <2>5, <2>6 DEF IInv, TreeInv, TreeOf
<1>5. MarkerInv'
  BY DEF CompleteNew, IInv, TypeOK, ManagementInv, TreeInv, TreeOf, MarkerInv,
     MarkerShape, RecoverInv, PlanShape, StepShape
<1>6. ControlInv'
  BY DEF CompleteNew, IInv, TypeOK, ManagementInv, ControlInv, ControlShape
<1>7. RecoverInv'
  BY DEF CompleteNew, IInv, TypeOK, RecoverInv, PlanShape, StepShape
<1>8. SavedInv'
  BY DEF CompleteNew, IInv, TypeOK, ManagementInv, SavedInv
<1> QED
  BY <1>1, <1>2, <1>3, <1>4, <1>5, <1>6, <1>7, <1>8 DEF IInv

LEMMA UnmarkPreserves ==
    ASSUME IInv, Unmark
    PROVE  IInv'
<1>1. ManagementInv' /\ LeaseInv' /\ TreeInv' /\ SavedInv'
  BY DEF Unmark, IInv, ManagementInv, LeaseInv, NotExclusive, TreeInv, TreeOf,
     SavedInv
<1>2. TypeOK'
  BY DEF Unmark, IInv, TypeOK, ManagementInv
<1>3. MarkerInv'
  BY DEF Unmark, IInv, TypeOK, ManagementInv, TreeInv, TreeOf, MarkerInv,
     MarkerShape, RecoverInv, PlanShape, StepShape
<1>4. ControlInv'
  BY DEF Unmark, IInv, TypeOK, ManagementInv, ControlInv, ControlShape
<1>5. RecoverInv'
  BY DEF Unmark, IInv, TypeOK, RecoverInv, PlanShape, StepShape
<1> QED
  BY <1>1, <1>2, <1>3, <1>4, <1>5 DEF IInv

LEMMA DiscardPreserves ==
    ASSUME IInv, Discard
    PROVE  IInv'
<1>1. ManagementInv' /\ LeaseInv' /\ TreeInv' /\ SavedInv'
  BY DEF Discard, RetireStaging, IInv, ManagementInv, LeaseInv, NotExclusive,
     TreeInv, TreeOf, SavedInv
<1>2. TypeOK'
  BY DEF Discard, RetireStaging, IInv, TypeOK, ManagementInv, TreeInv, TreeOf,
     MarkerInv, MarkerShape, RecoverInv, PlanShape, StepShape
<1>3. MarkerInv'
  BY DEF Discard, RetireStaging, IInv, TypeOK, ManagementInv, TreeInv, TreeOf,
     MarkerInv, MarkerShape, RecoverInv, PlanShape, StepShape
<1>4. ControlInv'
  BY DEF Discard, RetireStaging, IInv, TypeOK, ManagementInv, TreeInv, TreeOf,
     MarkerInv, MarkerShape, ControlInv, ControlShape, RecoverInv, PlanShape,
     StepShape
<1>5. RecoverInv'
  BY DEF Discard, RetireStaging, IInv, TypeOK, RecoverInv, PlanShape,
     StepShape
<1> QED
  BY <1>1, <1>2, <1>3, <1>4, <1>5 DEF IInv

LEMMA DiscardFailsPreserves ==
    ASSUME IInv, DiscardFails
    PROVE  IInv'
<1>1. TypeOK' /\ ManagementInv' /\ LeaseInv' /\ TreeInv' /\ MarkerInv' /\
      ControlInv' /\ RecoverInv' /\ SavedInv'
  BY DEF DiscardFails, RecoverReturns, IInv, TypeOK, ManagementInv, LeaseInv,
     NotExclusive, TreeInv, TreeOf, MarkerInv, MarkerShape, ControlInv,
     ControlShape, RecoverInv, PlanShape, StepShape, SavedInv
<1> QED
  BY <1>1 DEF IInv

LEMMA PlansAppliedPreserves ==
    ASSUME IInv, PlansApplied
    PROVE  IInv'
<1>1. TypeOK' /\ ManagementInv' /\ LeaseInv' /\ TreeInv' /\ MarkerInv' /\
      ControlInv' /\ RecoverInv' /\ SavedInv'
  BY DEF PlansApplied, IInv, TypeOK, ManagementInv, LeaseInv, NotExclusive,
     TreeInv, TreeOf, MarkerInv, MarkerShape, ControlInv, ControlShape,
     RecoverInv, PlanShape, StepShape, SavedInv
<1> QED
  BY <1>1 DEF IInv

LEMMA OrphansReclaimedPreserves ==
    ASSUME IInv, OrphansReclaimed
    PROVE  IInv'
<1>1. TypeOK' /\ ManagementInv' /\ LeaseInv' /\ TreeInv' /\ MarkerInv' /\
      ControlInv' /\ RecoverInv' /\ SavedInv'
  BY DEF OrphansReclaimed, IInv, TypeOK, ManagementInv, LeaseInv,
     NotExclusive, TreeInv, TreeOf, MarkerInv, MarkerShape, ControlInv,
     ControlShape, RecoverInv, PlanShape, StepShape, SavedInv
<1> QED
  BY <1>1 DEF IInv

LEMMA RecoverPurgePreserves ==
    ASSUME IInv, RecoverPurge
    PROVE  IInv'
<1>1. TypeOK' /\ ManagementInv' /\ LeaseInv' /\ TreeInv' /\ MarkerInv' /\
      ControlInv' /\ RecoverInv' /\ SavedInv'
  BY DEF RecoverPurge, IInv, TypeOK, ManagementInv, LeaseInv, NotExclusive,
     TreeInv, TreeOf, MarkerInv, MarkerShape, ControlInv, ControlShape,
     RecoverInv, PlanShape, StepShape, SavedInv
<1> QED
  BY <1>1 DEF IInv

LEMMA RecoverInterruptedPreserves ==
    ASSUME IInv, RecoverInterrupted
    PROVE  IInv'
<1>1. TypeOK' /\ ManagementInv' /\ LeaseInv' /\ TreeInv' /\ MarkerInv' /\
      ControlInv' /\ RecoverInv' /\ SavedInv'
  BY DEF RecoverInterrupted, RecoverReturns, IInv, TypeOK, ManagementInv,
     LeaseInv, NotExclusive, TreeInv, TreeOf, MarkerInv, MarkerShape,
     ControlInv, ControlShape, RecoverInv, PlanShape, StepShape, SavedInv
<1> QED
  BY <1>1 DEF IInv

LEMMA OpenSpacePreserves ==
    ASSUME IInv, NEW s \in Sessions, OpenSpace(s)
    PROVE  IInv'
<1>1. TypeOK' /\ ManagementInv' /\ LeaseInv' /\ TreeInv' /\ MarkerInv' /\
      ControlInv' /\ RecoverInv' /\ SavedInv'
  BY DEF OpenSpace, IInv, TypeOK, ManagementInv, LeaseInv, NotExclusive,
     TreeInv, TreeOf, MarkerInv, MarkerShape, ControlInv, ControlShape,
     RecoverInv, PlanShape, StepShape, SavedInv
<1> QED
  BY <1>1 DEF IInv

LEMMA LeasePreserves ==
    ASSUME IInv, NEW s \in Sessions, Lease(s)
    PROVE  IInv'
<1>1. TypeOK' /\ ManagementInv' /\ TreeInv' /\ MarkerInv' /\ ControlInv' /\
      RecoverInv' /\ SavedInv'
  BY DEF Lease, IInv, TypeOK, ManagementInv, TreeInv, TreeOf, MarkerInv,
     MarkerShape, ControlInv, ControlShape, RecoverInv, PlanShape, StepShape,
     SavedInv
<1>2. LeaseInv'
  BY DEF Lease, IInv, TypeOK, LeaseInv, NotExclusive
<1> QED
  BY <1>1, <1>2 DEF IInv

LEMMA WritePreserves ==
    ASSUME IInv, NEW s \in Sessions, Write(s)
    PROVE  IInv'
<1>1. TypeOK' /\ ManagementInv' /\ LeaseInv' /\ TreeInv' /\ MarkerInv' /\
      ControlInv' /\ RecoverInv'
  BY DEF Write, IInv, TypeOK, ManagementInv, LeaseInv, NotExclusive, TreeInv,
     TreeOf, MarkerInv, MarkerShape, ControlInv, ControlShape, RecoverInv,
     PlanShape, StepShape
<1>2. SavedInv'
  BY DEF Write, IInv, TypeOK, LeaseInv, NotExclusive, TreeInv, TreeOf,
     SavedInv
<1> QED
  BY <1>1, <1>2 DEF IInv

LEMMA ClosePreserves ==
    ASSUME IInv, NEW s \in Sessions, Close(s)
    PROVE  IInv'
<1>1. TypeOK' /\ ManagementInv' /\ TreeInv' /\ MarkerInv' /\ ControlInv' /\
      RecoverInv' /\ SavedInv'
  BY DEF Close, IInv, TypeOK, ManagementInv, TreeInv, TreeOf, MarkerInv,
     MarkerShape, ControlInv, ControlShape, RecoverInv, PlanShape, StepShape,
     SavedInv
<1>2. LeaseInv'
  BY DEF Close, IInv, TypeOK, LeaseInv, NotExclusive
<1> QED
  BY <1>1, <1>2 DEF IInv

LEMMA StutterPreserves == ASSUME IInv, UNCHANGED vars PROVE IInv'
BY DEF IInv, vars, TypeOK, ManagementInv, LeaseInv, NotExclusive, TreeInv, TreeOf,
       MarkerInv, MarkerShape, ControlInv, ControlShape, RecoverInv, PlanShape,
       StepShape, SavedInv

LEMMA RollbackStepPreserves ==
    ASSUME IInv, NEW t \in Txs,
           RollbackStep(t) \/ LockStagingFails(t) \/ Fail(t) \/ Crash(t)
    PROVE  IInv'
BY PreparePreserves, LockStagingPreserves, LockStagingFailsPreserves,
   CapturePreserves, FillPreserves, BeginPublishPreserves,
   WritePreparedTempPreserves, MarkPreparedPreserves, RetireTargetPreserves,
   WriteRetiredTempPreserves, MarkRetiredPreserves, RemoveLockFilePreserves,
   PublishStagingPreserves, WritePublishedTempPreserves, MarkPublishedPreserves,
   ReclaimRetiredPreserves, RemoveMarkerPreserves, PurgePreserves,
   CleanupPreserves, FailPreserves, CrashPreserves
   DEF RollbackStep

LEMMA RecoverStepPreserves ==
    ASSUME IInv, RecoverBegin \/ RecoverStep \/ RecoverInterrupted
    PROVE  IInv'
BY RecoverBeginPreserves, ReclaimTempPreserves, TempsReclaimedPreserves,
   LoadInventoryPreserves, ApplyPlanPreserves, TransitionTempPreserves,
   TransitionMarkerPreserves, RestoreOldPreserves, CompleteNewPreserves,
   UnmarkPreserves, DiscardPreserves, DiscardFailsPreserves,
   PlansAppliedPreserves, ReclaimOrphanPreserves, OrphansReclaimedPreserves,
   RecoverPurgePreserves, RecoverInterruptedPreserves
   DEF RecoverStep

LEMMA SessionStepPreserves ==
    ASSUME IInv, NEW s \in Sessions, SessionStep(s)
    PROVE  IInv'
BY OpenSpacePreserves, LeasePreserves, WritePreserves, ClosePreserves DEF SessionStep

LEMMA NextPreserves == ASSUME IInv, [Next]_vars PROVE IInv'
<1>1. CASE UNCHANGED vars
  BY <1>1, StutterPreserves
<1>2. CASE Next
  BY <1>2, RollbackStepPreserves, RecoverStepPreserves, SessionStepPreserves DEF Next
<1> QED
  BY <1>1, <1>2

LEMMA InitIInv == Init => IInv
<1> SUFFICES ASSUME Init PROVE IInv
  OBVIOUS
<1>1. TypeOK
  BY DEF Init, TypeOK
<1>2. ManagementInv /\ LeaseInv /\ SavedInv /\ RecoverInv
  BY DEF Init, ManagementInv, LeaseInv, NotExclusive, SavedInv, RecoverInv
<1>3. TreeInv /\ MarkerInv /\ ControlInv
  BY DEF Init, TreeInv, TreeOf, MarkerInv, MarkerShape, ControlInv, ControlShape
<1> QED
  BY <1>1, <1>2, <1>3 DEF IInv

-----------------------------------------------------------------------------
(* The inductive invariant holds in every reachable state: whatever mix of *)
(* rollbacks, crashes, recoveries and sessions led there.                  *)
THEOREM RollbackSafety == Spec => []IInv
BY InitIInv, NextPreserves, PTL DEF Spec

(* The state keeps its types; in particular recovery never moves a tree    *)
(* that is not there.                                                      *)
THEOREM TypeCorrect == Spec => []TypeOK
<1>1. IInv => TypeOK
  BY DEF IInv
<1> QED
  BY <1>1, RollbackSafety, PTL

(* Every marker that any interruption leaves behind selects one of         *)
(* recovery_action's three actions, and no target has two markers.         *)
THEOREM RecoveryDetermined == Spec => []RecoveryIsDetermined
<1>1. ASSUME IInv, NEW t \in Txs, marker[t] # "none"
      PROVE  RecoveryAction(t) \in PlanActions /\ ~Duplicated(t)
  <2>1. ~Duplicated(t)
    BY <1>1 DEF IInv, MarkerInv, Duplicated
  <2>2. /\ MarkerShape(t)
        /\ t \in filled
        /\ target[Target[t]] # NoTree => Openable(target[Target[t]])
        /\ retired[t] # NoTree => Openable(retired[t])
    BY <1>1 DEF IInv, TypeOK, MarkerInv, TreeInv, TreeOf, Openable
  <2>3. \/ RecoveryRow(t) = "abort" /\ target[Target[t]] # NoTree
        \/ RecoveryRow(t) = "restore" /\ retired[t] # NoTree
        \/ RecoveryRow(t) = "complete" /\ target[Target[t]] # NoTree
    <3>1. CASE marker[t] = "prepared"
      BY <2>2, <3>1 DEF MarkerShape, RecoveryRow, Paths
    <3>2. CASE marker[t] = "retired"
      BY <2>2, <3>2 DEF MarkerShape, RecoveryRow, Paths
    <3>3. CASE marker[t] = "published"
      BY <2>2, <3>3 DEF MarkerShape, RecoveryRow, Paths
    <3> QED
      BY <1>1, <2>2, <3>1, <3>2, <3>3 DEF MarkerShape
  <2> QED
    BY <2>1, <2>2, <2>3 DEF RecoveryAction
<1>2. IInv => RecoveryIsDetermined
  BY <1>1 DEF RecoveryIsDetermined
<1> QED
  BY <1>2, RollbackSafety, PTL

(* At every instant each space has a complete home, at its path or at the  *)
(* retired path of a marked transaction.                                   *)
THEOREM HomesReachable == Spec => []HomeReachable
<1>1. ASSUME IInv, NEW n \in Names
      PROVE  \/ Openable(target[n])
             \/ \E t \in Txs : /\ Target[t] = n
                               /\ marker[t] # "none"
                               /\ Openable(retired[t])
  <2>1. CASE target[n] # NoTree
    BY <1>1, <2>1 DEF IInv, TreeInv, TreeOf, Openable
  <2>2. CASE target[n] = NoTree
    <3>1. PICK t \in Txs : Target[t] = n /\ retired[t] # NoTree
      BY <1>1, <2>2 DEF IInv, TreeInv
    <3>2. Openable(retired[t]) /\ marker[t] # "none"
      BY <1>1, <3>1 DEF IInv, TreeInv, TreeOf, Openable, MarkerInv, MarkerShape
    <3> QED
      BY <3>1, <3>2
  <2> QED
    BY <2>1, <2>2
<1>2. IInv => HomeReachable
  BY <1>1 DEF HomeReachable
<1> QED
  BY <1>2, RollbackSafety, PTL

(* A running session's lease is on the tree its path names.                *)
THEOREM LeasesCoverHomes == Spec => []LeaseCoversHome
<1>1. IInv => LeaseCoversHome
  BY DEF IInv, LeaseInv, LeaseCoversHome
<1> QED
  BY <1>1, RollbackSafety, PTL

(* Recovery never reclaims the staging tree of a live rollback.            *)
THEOREM StagingKept == Spec => []LiveStagingKept
<1>1. IInv => LiveStagingKept
  BY DEF IInv, ControlInv, ControlShape, LiveStagingKept
<1> QED
  BY <1>1, RollbackSafety, PTL

(* The state is well formed, and neither a home, nor a lease, nor a live   *)
(* staging tree is ever lost to a rollback or a recovery that was cut off. *)
THEOREM HomesAreSound == Spec => []HomesSound
<1>1. TypeOK /\ HomeReachable /\ LeaseCoversHome /\ LiveStagingKept => HomesSound
  BY DEF HomesSound
<1> QED
  BY <1>1, TypeCorrect, HomesReachable, LeasesCoverHomes, StagingKept, PTL

(* The action property: the only steps that take a home away from the      *)
(* store are ReclaimRetired and CompleteNew, and SavedInv covers the tree  *)
(* they move to the trash.                                                 *)
THEOREM DiscardsAreSaved == Spec => DiscardsOnlySavedHomes
<1> DEFINE Saves == \A x \in Trees : Kept(x) /\ ~Kept(x)' => <<x, content[x]>> \in saved
<1>1. ASSUME IInv, [Next]_vars PROVE Saves
  <2>1. ASSUME UNCHANGED <<target, retired>> PROVE Saves
    BY <2>1 DEF Kept
  <2>2. ASSUME NEW t \in Txs, RetireTarget(t) PROVE Saves
    <3>1. \A x \in Trees : Kept(x) => Kept(x)'
      BY <1>1, <2>2 DEF RetireTarget, Kept, IInv, TypeOK, ControlInv, ControlShape
    <3> QED
      BY <3>1
  <2>3. ASSUME NEW t \in Txs, PublishStaging(t) PROVE Saves
    <3>1. \A x \in Trees : Kept(x) => Kept(x)'
      BY <1>1, <2>3 DEF PublishStaging, Kept, IInv, TypeOK
    <3> QED
      BY <3>1
  <2>4. ASSUME RestoreOld PROVE Saves
    <3>1. rtx \in Txs
      BY <1>1, <2>4 DEF RestoreOld, IInv, RecoverInv
    <3>2. \A x \in Trees : Kept(x) => Kept(x)'
      BY <1>1, <2>4, <3>1 DEF RestoreOld, Kept, IInv, TypeOK
    <3> QED
      BY <3>2
  <2>5. ASSUME NEW t \in Txs, UNCHANGED target,
               \A u \in Txs : u # t => retired'[u] = retired[u]
        PROVE  Saves
    <3>1. \A x \in Trees : Kept(x) /\ ~Kept(x)' => x = retired[t]
      BY <2>5 DEF Kept
    <3> QED
      BY <1>1, <3>1 DEF IInv, SavedInv
  <2>6. ASSUME NEW t \in Txs, ReclaimRetired(t) PROVE Saves
    BY <1>1, <2>5, <2>6 DEF ReclaimRetired, IInv, TypeOK
  <2>7. ASSUME CompleteNew PROVE Saves
    <3>1. rtx \in Txs
      BY <1>1, <2>7 DEF CompleteNew, IInv, RecoverInv
    <3>2. UNCHANGED target /\ \A u \in Txs : u # rtx => retired'[u] = retired[u]
      BY <1>1, <2>7, <3>1 DEF CompleteNew, IInv, TypeOK
    <3> QED
      BY <2>5, <3>1, <3>2
  <2> HIDE DEF Saves
  <2>8. CASE UNCHANGED vars
    BY <2>1, <2>8 DEF vars
  <2>9. ASSUME NEW t \in Txs, RollbackStep(t) \/ LockStagingFails(t) \/ Fail(t) \/ Crash(t)
        PROVE  Saves
    BY <2>1, <2>2, <2>3, <2>6, <2>9
    DEF RollbackStep, LockStagingFails, Fail, Crash, Prepare, LockStaging, Capture,
        Fill, BeginPublish, WriteTemp, RenameTemp, RemoveLockFile, RemoveMarker,
        Purge, Cleanup
  <2>10. CASE RecoverBegin \/ RecoverStep \/ RecoverInterrupted
    BY <2>1, <2>4, <2>7, <2>10
    DEF RecoverBegin, RecoverStep, RecoverInterrupted, RecoverReturns, ReclaimTemp,
        TempsReclaimed, LoadInventory, ApplyPlan, TransitionTemp, TransitionMarker,
        Unmark, Discard, DiscardFails, PlansApplied, ReclaimOrphan,
        OrphansReclaimed, RecoverPurge
  <2>11. ASSUME NEW s \in Sessions, SessionStep(s) PROVE Saves
    BY <2>1, <2>11 DEF SessionStep, OpenSpace, Lease, Write, Close
  <2> QED
    BY <1>1, <2>8, <2>9, <2>10, <2>11 DEF Next
<1> QED
  BY <1>1, RollbackSafety, PTL DEF Spec, DiscardsOnlySavedHomes

-----------------------------------------------------------------------------
(***************************************************************************)
(* The refinement of AtomicReplace.                                        *)
(***************************************************************************)

(* A retired tree is the home of its space while no tree is at the path.   *)
LEMMA HomeOfRetired ==
    IInv => \A t \in Txs : target[Target[t]] = NoTree /\ retired[t] # NoTree =>
                HomeOf(Target[t]) = retired[t]
<1> SUFFICES ASSUME IInv, NEW t \in Txs, target[Target[t]] = NoTree, retired[t] # NoTree
             PROVE  HomeOf(Target[t]) = retired[t]
  OBVIOUS
<1>1. \A u \in Txs : retired[u] # NoTree => marker[u] # "none"
  BY DEF IInv, MarkerInv, MarkerShape
<1>2. \A u \in Txs : Target[u] = Target[t] /\ retired[u] # NoTree => u = t
  BY <1>1 DEF IInv, MarkerInv
<1>3. (CHOOSE u \in Txs : Target[u] = Target[t] /\ retired[u] # NoTree) = t
  BY <1>2
<1> QED
  BY <1>3 DEF HomeOf

LEMMA HomeOfRetiredNext ==
    IInv' => \A t \in Txs : target'[Target[t]] = NoTree /\ retired'[t] # NoTree =>
                HomeOf(Target[t])' = retired'[t]
<1>1. (IInv => \A t \in Txs : target[Target[t]] = NoTree /\ retired[t] # NoTree =>
                HomeOf(Target[t]) = retired[t])'
  BY HomeOfRetired, PTL
<1> QED
  BY <1>1

(* The marker of a space decides its phase, since there is only one.       *)
LEMMA PhaseOfMarked ==
    IInv => \A t \in Txs : marker[t] # "none" =>
                PhaseOf(Target[t]) =
                    IF target[Target[t]] = t THEN "replaced" ELSE "announced"
<1> SUFFICES ASSUME IInv, NEW t \in Txs, marker[t] # "none"
             PROVE  PhaseOf(Target[t]) =
                        IF target[Target[t]] = t THEN "replaced" ELSE "announced"
  OBVIOUS
<1>1. \A u \in Txs : Target[u] = Target[t] /\ marker[u] # "none" => u = t
  BY DEF IInv, MarkerInv
<1> QED
  BY <1>1 DEF PhaseOf

LEMMA PhaseOfMarkedNext ==
    IInv' => \A t \in Txs : marker'[t] # "none" =>
                PhaseOf(Target[t])' =
                    IF target'[Target[t]] = t THEN "replaced" ELSE "announced"
<1>1. (IInv => \A t \in Txs : marker[t] # "none" =>
                PhaseOf(Target[t]) =
                    IF target[Target[t]] = t THEN "replaced" ELSE "announced")'
  BY PhaseOfMarked, PTL
<1> QED
  BY <1>1

(* A space keeps its home or its phase when its own paths or markers stay. *)
LEMMA HomeUnchanged ==
    ASSUME IInv, IInv', NEW n \in Names, target'[n] = target[n],
           \A u \in Txs : Target[u] = n => retired'[u] = retired[u]
    PROVE  HomeOf(n)' = HomeOf(n)
<1>1. CASE target[n] # NoTree
  BY <1>1 DEF HomeOf
<1>2. CASE target[n] = NoTree
  <2>1. PICK u \in Txs : Target[u] = n /\ retired[u] # NoTree
    BY <1>2 DEF IInv, TreeInv
  <2> QED
    BY <1>2, <2>1, HomeOfRetired, HomeOfRetiredNext
<1> QED
  BY <1>1, <1>2

LEMMA PhaseUnchanged ==
    ASSUME NEW n \in Names, target'[n] = target[n],
           \A u \in Txs : Target[u] = n => marker'[u] = marker[u]
    PROVE  PhaseOf(n)' = PhaseOf(n)
BY DEF PhaseOf

(* The marker of one space leaves the phases of the others alone.          *)
LEMMA OtherPhases ==
    ASSUME IInv, NEW t \in Txs, NEW m \in MarkerStates \cup {"none"}, UNCHANGED target,
           marker' = [marker EXCEPT ![t] = m],
           NEW n \in Names, n # Target[t]
    PROVE  PhaseOf(n)' = PhaseOf(n)
<1>1. \A u \in Txs : Target[u] = n => marker'[u] = marker[u]
  BY DEF IInv, TypeOK
<1> QED
  BY <1>1, PhaseUnchanged

homes == [n \in Names |-> HomeOf(n)]
phases == [n \in Names |-> PhaseOf(n)]

(* Steps that the abstract specification does not see.                     *)
LEMMA Unseen ==
    ASSUME UNCHANGED <<homes, phases, content, saved>>
    PROVE  UNCHANGED Abstract!vars
BY DEF Abstract!vars, homes, phases

LEMMA FilesUnchanged ==
    ASSUME IInv, IInv', UNCHANGED <<target, retired, marker, content, saved>>
    PROVE  UNCHANGED Abstract!vars
<1>1. \A n \in Names : HomeOf(n)' = HomeOf(n)
  BY HomeUnchanged
<1>2. \A n \in Names : PhaseOf(n)' = PhaseOf(n)
  BY PhaseUnchanged
<1> QED
  BY <1>1, <1>2, Unseen DEF homes, phases

(* A step that brings the marker of one space to another state.            *)
LEMMA MarkerStepRefines ==
    ASSUME IInv, IInv', NEW t \in Txs, NEW m \in MarkerStates \cup {"none"},
           UNCHANGED <<target, retired, content, saved>>,
           marker' = [marker EXCEPT ![t] = m],
           \A u \in Txs \ {t} : Target[u] = Target[t] => marker[u] = "none",
           marker[t] = "none" => target[Target[t]] # t
    PROVE  Abstract!Next \/ UNCHANGED Abstract!vars
<1> DEFINE n == Target[t]
<1>1. n \in Names /\ marker'[t] = m /\ \A u \in Txs \ {t} : marker'[u] = marker[u]
  <2>1. marker \in [Txs -> MarkerStates \cup {"none"}]
    BY DEF IInv, TypeOK
  <2> QED
    BY <2>1
<1>2. homes' = homes
  BY HomeUnchanged DEF homes
<1>3. \A k \in Names \ {n} : PhaseOf(k)' = PhaseOf(k)
  BY OtherPhases
<1>4. phases' = [phases EXCEPT ![n] = PhaseOf(n)'] /\ phases[n] = PhaseOf(n)
  BY <1>1, <1>3 DEF phases
<1>5. CASE marker[t] = "none" /\ m = "none"
  <2>1. PhaseOf(n)' = PhaseOf(n)
    BY <1>1, <1>5, PhaseUnchanged
  <2> QED
    BY <1>2, <1>3, <2>1, Unseen DEF phases
<1>6. CASE marker[t] = "none" /\ m # "none"
  <2>1. PhaseOf(n) = "idle"
    BY <1>1, <1>6 DEF PhaseOf
  <2>2. PhaseOf(n)' = "announced"
    BY <1>1, <1>6, PhaseOfMarkedNext
  <2>3. Abstract!Announce(n)
    BY <1>2, <1>4, <2>1, <2>2 DEF Abstract!Announce, homes, phases
  <2> QED
    BY <1>1, <2>3 DEF Abstract!Next
<1>7. CASE marker[t] # "none" /\ m = "none"
  <2>1. PhaseOf(n) # "idle"
    BY <1>7, PhaseOfMarked
  <2>2. PhaseOf(n)' = "idle"
    BY <1>1, <1>7 DEF PhaseOf
  <2>3. Abstract!Settle(n)
    BY <1>2, <1>4, <2>1, <2>2 DEF Abstract!Settle, homes, phases
  <2> QED
    BY <1>1, <2>3 DEF Abstract!Next
<1>8. CASE marker[t] # "none" /\ m # "none"
  <2>1. PhaseOf(n)' = PhaseOf(n)
    BY <1>1, <1>8, PhaseOfMarked, PhaseOfMarkedNext
  <2> QED
    BY <1>2, <1>3, <2>1, Unseen DEF phases
<1> QED
  BY <1>5, <1>6, <1>7, <1>8

-----------------------------------------------------------------------------
(* The home moves aside and is still the home of its space.                *)
LEMMA RetireTargetRefines ==
    ASSUME IInv, IInv', NEW t \in Txs, RetireTarget(t)
    PROVE  UNCHANGED Abstract!vars
<1> DEFINE n == Target[t]
<1>1. /\ n \in Names /\ target[n] # NoTree /\ target'[n] = NoTree
      /\ \A k \in Names \ {n} : target'[k] = target[k]
      /\ retired'[t] = target[n]
      /\ \A u \in Txs \ {t} : retired'[u] = retired[u]
  BY DEF RetireTarget, IInv, TypeOK
<1>2. marker[t] = "prepared" /\ marker' = marker /\ staging[t] = t
  BY DEF RetireTarget, IInv, ControlInv, ControlShape, MarkerInv, MarkerShape
<1>3. target[n] # t
  BY <1>1, <1>2 DEF IInv, TreeInv, TreeOf
<1>4. HomeOf(n)' = HomeOf(n)
  BY <1>1, HomeOfRetiredNext DEF HomeOf
<1>5. PhaseOf(n)' = PhaseOf(n)
  BY <1>1, <1>2, <1>3, PhaseOfMarked, PhaseOfMarkedNext
<1>6. \A k \in Names \ {n} : HomeOf(k)' = HomeOf(k)
  BY <1>1, HomeUnchanged
<1>7. \A k \in Names \ {n} : PhaseOf(k)' = PhaseOf(k)
  BY <1>1, <1>2, PhaseUnchanged
<1> QED
  BY <1>4, <1>5, <1>6, <1>7, Unseen DEF homes, phases, RetireTarget

(* The one step that replaces a home: the staged tree gets the path while  *)
(* the old tree, whose content is saved, waits beside it.                  *)
LEMMA PublishStagingRefines ==
    ASSUME IInv, IInv', NEW t \in Txs, PublishStaging(t)
    PROVE  Abstract!Next
<1> DEFINE n == Target[t]
<1>1. marker[t] = "retired" /\ marker' = marker /\ staging[t] = t
  BY DEF PublishStaging, IInv, ControlInv, ControlShape, MarkerInv, MarkerShape
<1>2. retired[t] # NoTree /\ retired' = retired /\ retired[t] # t
  BY <1>1 DEF PublishStaging, IInv, MarkerInv, MarkerShape, TreeInv, TreeOf
<1>3. /\ n \in Names /\ target[n] = NoTree /\ target'[n] = t
      /\ \A k \in Names \ {n} : target'[k] = target[k]
  BY <1>1 DEF PublishStaging, IInv, TypeOK
<1>4. HomeOf(n) = retired[t] /\ HomeOf(n)' = t
  BY <1>2, <1>3, HomeOfRetired DEF HomeOf
<1>5. PhaseOf(n) = "announced" /\ PhaseOf(n)' = "replaced"
  BY <1>1, <1>3, PhaseOfMarked, PhaseOfMarkedNext
<1>6. \A k \in Names \ {n} : HomeOf(k)' = HomeOf(k)
  BY <1>2, <1>3, HomeUnchanged
<1>7. \A k \in Names \ {n} : PhaseOf(k)' = PhaseOf(k)
  BY <1>1, <1>3, PhaseUnchanged
<1>8. homes' = [homes EXCEPT ![n] = t] /\ phases' = [phases EXCEPT ![n] = "replaced"]
  BY <1>3, <1>4, <1>5, <1>6, <1>7 DEF homes, phases
<1>9. homes[n] = retired[t] /\ phases[n] = "announced"
  BY <1>3, <1>4, <1>5 DEF homes, phases
<1>10. <<homes[n], content[homes[n]]>> \in saved
  BY <1>2, <1>9 DEF IInv, SavedInv
<1>11. UNCHANGED <<content, saved>>
  BY DEF PublishStaging
<1>12. Abstract!Replace(n, t)
  BY <1>2, <1>8, <1>9, <1>10, <1>11 DEF Abstract!Replace, homes, phases
<1> QED
  BY <1>3, <1>12 DEF Abstract!Next

(* A retired tree leaves after its space got another home.                 *)
LEMMA RetiredLeavesRefines ==
    ASSUME IInv, IInv', NEW t \in Txs,
           UNCHANGED <<target, marker, content, saved>>, target[Target[t]] # NoTree,
           \A u \in Txs \ {t} : retired'[u] = retired[u]
    PROVE  UNCHANGED Abstract!vars
<1>1. \A n \in Names : HomeOf(n)' = HomeOf(n)
  <2>1. HomeOf(Target[t])' = HomeOf(Target[t])
    BY DEF HomeOf
  <2>2. ASSUME NEW n \in Names, n # Target[t] PROVE HomeOf(n)' = HomeOf(n)
    BY <2>2, HomeUnchanged
  <2> QED
    BY <2>1, <2>2
<1>2. \A n \in Names : PhaseOf(n)' = PhaseOf(n)
  BY PhaseUnchanged
<1> QED
  BY <1>1, <1>2, Unseen DEF homes, phases

LEMMA RestoreOldRefines ==
    ASSUME IInv, IInv', RestoreOld
    PROVE  UNCHANGED Abstract!vars
<1>1. PICK t \in Txs : t = rtx /\ StepShape(t)
  BY DEF RestoreOld, IInv, RecoverInv
<1> DEFINE n == Target[t]
<1>2. /\ staging[t] = t /\ retired[t] # NoTree
      /\ marker[t] = "prepared" /\ marker' = marker
  BY <1>1 DEF RestoreOld, StepShape, PlanShape
<1>3. retired[t] # t
  BY <1>1, <1>2 DEF IInv, TreeInv, TreeOf
<1>4. /\ n \in Names /\ target[n] = NoTree /\ target'[n] = retired[t]
      /\ \A k \in Names \ {n} : target'[k] = target[k]
      /\ \A u \in Txs \ {t} : retired'[u] = retired[u]
  BY <1>1 DEF RestoreOld, IInv, TypeOK
<1>5. HomeOf(n)' = HomeOf(n)
  BY <1>1, <1>2, <1>4, HomeOfRetired DEF HomeOf
<1>6. PhaseOf(n)' = PhaseOf(n)
  BY <1>1, <1>2, <1>3, <1>4, PhaseOfMarked, PhaseOfMarkedNext
<1>7. \A k \in Names \ {n} : HomeOf(k)' = HomeOf(k)
  BY <1>4, HomeUnchanged
<1>8. \A k \in Names \ {n} : PhaseOf(k)' = PhaseOf(k)
  BY <1>2, <1>4, PhaseUnchanged
<1> QED
  BY <1>5, <1>6, <1>7, <1>8, Unseen DEF homes, phases, RestoreOld

LEMMA CaptureRefines ==
    ASSUME IInv, IInv', NEW t \in Txs, Capture(t)
    PROVE  Abstract!Next
<1> DEFINE n == Target[t]
<1>1. n \in Names /\ HomeOf(n) = target[n]
  BY DEF Capture, HomeOf
<1>2. UNCHANGED <<target, retired, marker, content>>
  BY DEF Capture
<1>3. homes' = homes /\ phases' = phases
  BY <1>2, HomeUnchanged, PhaseUnchanged DEF homes, phases
<1>4. Abstract!Save(n)
  BY <1>1, <1>2, <1>3 DEF Capture, Abstract!Save, homes, phases
<1> QED
  BY <1>1, <1>4 DEF Abstract!Next

LEMMA WriteRefines ==
    ASSUME IInv, IInv', NEW s \in Sessions, Write(s)
    PROVE  Abstract!Next
<1> DEFINE n == Home[s]
<1>1. n \in Names /\ HomeOf(n) = target[n]
  BY DEF Write, HomeOf
<1>2. UNCHANGED <<target, retired, marker, saved>>
  BY DEF Write
<1>3. homes' = homes /\ phases' = phases
  BY <1>2, HomeUnchanged, PhaseUnchanged DEF homes, phases
<1>4. Abstract!WriteHome(n)
  BY <1>1, <1>2, <1>3 DEF Write, Abstract!WriteHome, homes, phases
<1> QED
  BY <1>1, <1>4 DEF Abstract!Next

-----------------------------------------------------------------------------
LEMMA RollbackStepRefines ==
    ASSUME IInv, IInv', NEW t \in Txs,
           RollbackStep(t) \/ LockStagingFails(t) \/ Fail(t) \/ Crash(t)
    PROVE  Abstract!Next \/ UNCHANGED Abstract!vars
<1>1. ASSUME UNCHANGED <<target, retired, marker, content, saved>>
      PROVE  UNCHANGED Abstract!vars
  BY <1>1, FilesUnchanged
<1>2. ASSUME NEW state, NEW to, RenameTemp(t, state, to), state \in MarkerStates
      PROVE  Abstract!Next \/ UNCHANGED Abstract!vars
  <2>1. \A u \in Txs \ {t} : Target[u] = Target[t] => marker[u] = "none"
    BY <1>2 DEF RenameTemp, IInv, ControlInv, ControlShape
  <2>2. marker[t] = "none" => target[Target[t]] # t
    BY <1>2 DEF RenameTemp, IInv, ControlInv, ControlShape, TreeInv, TreeOf
  <2>3. marker' = [marker EXCEPT ![t] = state] /\ UNCHANGED <<target, retired, content, saved>>
    BY <1>2 DEF RenameTemp
  <2> QED
    BY <1>2, <2>1, <2>2, <2>3, MarkerStepRefines
<1>3. ASSUME RemoveMarker(t) PROVE Abstract!Next \/ UNCHANGED Abstract!vars
  <2>1. /\ \A u \in Txs \ {t} : Target[u] = Target[t] => marker[u] = "none"
        /\ marker[t] # "none"
    BY <1>3 DEF RemoveMarker, IInv, ControlInv, ControlShape
  <2>2. marker' = [marker EXCEPT ![t] = "none"] /\ UNCHANGED <<target, retired, content, saved>>
    BY <1>3 DEF RemoveMarker
  <2> QED
    BY <2>1, <2>2, MarkerStepRefines
<1>4. ASSUME ReclaimRetired(t) PROVE UNCHANGED Abstract!vars
  <2>1. target[Target[t]] # NoTree
    BY <1>4 DEF ReclaimRetired, IInv, ControlInv, ControlShape, MarkerInv, MarkerShape
  <2>2. UNCHANGED <<target, marker, content, saved>> /\ \A u \in Txs \ {t} : retired'[u] = retired[u]
    BY <1>4 DEF ReclaimRetired, IInv, TypeOK
  <2> QED
    BY <2>1, <2>2, RetiredLeavesRefines
<1>5. ASSUME LockStagingFails(t) \/ Fail(t) \/ Crash(t) \/ Prepare(t) \/ LockStaging(t) \/ Fill(t)
             \/ BeginPublish(t) \/ RemoveLockFile(t) \/ Purge(t) \/ Cleanup(t)
      PROVE  UNCHANGED Abstract!vars
  BY <1>1, <1>5
  DEF LockStagingFails, Fail, Crash, Prepare, LockStaging, Fill, BeginPublish,
      RemoveLockFile, Purge, Cleanup
<1>6. ASSUME NEW from, NEW to, WriteTemp(t, from, to) PROVE UNCHANGED Abstract!vars
  BY <1>1, <1>6 DEF WriteTemp
<1> QED
  BY <1>2, <1>3, <1>4, <1>5, <1>6, RetireTargetRefines, PublishStagingRefines, CaptureRefines
  DEF RollbackStep

LEMMA RecoverStepRefines ==
    ASSUME IInv, IInv', RecoverBegin \/ RecoverStep \/ RecoverInterrupted
    PROVE  Abstract!Next \/ UNCHANGED Abstract!vars
<1>1. ASSUME UNCHANGED <<target, retired, marker, content, saved>>
      PROVE  UNCHANGED Abstract!vars
  BY <1>1, FilesUnchanged
<1>2. ASSUME rtx \in Txs, marker[rtx] # "none"
      PROVE  \A u \in Txs \ {rtx} : Target[u] = Target[rtx] => marker[u] = "none"
  BY <1>2 DEF IInv, MarkerInv
<1>3. ASSUME TransitionMarker PROVE Abstract!Next \/ UNCHANGED Abstract!vars
  <2>1. PICK t \in Txs : t = rtx /\ StepShape(t) /\ PlanShape(t)
    BY <1>3 DEF TransitionMarker, IInv, RecoverInv, StepShape
  <2>2. marker[t] # "none"
    BY <1>3, <2>1 DEF TransitionMarker, StepShape, PlanShape, IInv, TypeOK
  <2>3. PICK m \in MarkerStates : marker' = [marker EXCEPT ![t] = m]
    BY <1>3, <2>1 DEF TransitionMarker
  <2>4. UNCHANGED <<target, retired, content, saved>>
    BY <1>3 DEF TransitionMarker
  <2> QED
    BY <1>2, <2>1, <2>2, <2>3, <2>4, MarkerStepRefines
<1>4. ASSUME Unmark PROVE Abstract!Next \/ UNCHANGED Abstract!vars
  <2>1. PICK t \in Txs : t = rtx /\ StepShape(t)
    BY <1>4 DEF Unmark, IInv, RecoverInv
  <2>2. marker[t] # "none"
    BY <1>4, <2>1 DEF Unmark, StepShape
  <2>3. marker' = [marker EXCEPT ![t] = "none"] /\ UNCHANGED <<target, retired, content, saved>>
    BY <1>4, <2>1 DEF Unmark
  <2> QED
    BY <1>2, <2>1, <2>2, <2>3, MarkerStepRefines
<1>5. ASSUME CompleteNew PROVE UNCHANGED Abstract!vars
  <2>1. PICK t \in Txs : t = rtx /\ StepShape(t)
    BY <1>5 DEF CompleteNew, IInv, RecoverInv
  <2>2. target[Target[t]] # NoTree
    BY <1>5, <2>1 DEF CompleteNew, StepShape, PlanShape
  <2>3. UNCHANGED <<target, marker, content, saved>> /\ \A u \in Txs \ {t} : retired'[u] = retired[u]
    BY <1>5, <2>1 DEF CompleteNew, IInv, TypeOK
  <2> QED
    BY <2>2, <2>3, RetiredLeavesRefines
<1>6. ASSUME RecoverBegin \/ RecoverInterrupted \/ TempsReclaimed \/ LoadInventory
             \/ TransitionTemp \/ Discard \/ DiscardFails \/ PlansApplied \/ OrphansReclaimed
             \/ RecoverPurge \/ \E t \in Txs : ReclaimTemp(t) \/ ApplyPlan(t) \/ ReclaimOrphan(t)
      PROVE  UNCHANGED Abstract!vars
  BY <1>1, <1>6
  DEF RecoverBegin, RecoverInterrupted, RecoverReturns, TempsReclaimed, LoadInventory,
      TransitionTemp, Discard, DiscardFails, PlansApplied, OrphansReclaimed, RecoverPurge,
      ReclaimTemp, ApplyPlan, ReclaimOrphan
<1> QED
  BY <1>3, <1>4, <1>5, <1>6, RestoreOldRefines DEF RecoverStep

LEMMA SessionStepRefines ==
    ASSUME IInv, IInv', NEW s \in Sessions, SessionStep(s)
    PROVE  Abstract!Next \/ UNCHANGED Abstract!vars
<1>1. ASSUME OpenSpace(s) \/ Lease(s) \/ Close(s) PROVE UNCHANGED Abstract!vars
  BY <1>1, FilesUnchanged DEF OpenSpace, Lease, Close
<1> QED
  BY <1>1, WriteRefines DEF SessionStep

(* The rollback transaction with its crashes and recoveries implements the *)
(* abstract replacement: announced before it happens, of a saved home, at  *)
(* most once, and never leaving a space without a home.                    *)
THEOREM RollbackReplacesAtomically == Spec => ReplacesAtomically
<1>1. Init => Abstract!Init
  BY DEF Init, Abstract!Init, HomeOf, PhaseOf
<1>2. ASSUME IInv, IInv', [Next]_vars PROVE [Abstract!Next]_(Abstract!vars)
  <2>1. CASE UNCHANGED vars
    BY <1>2, <2>1, FilesUnchanged DEF vars
  <2>2. CASE Next
    BY <1>2, <2>2, RollbackStepRefines, RecoverStepRefines, SessionStepRefines DEF Next
  <2> QED
    BY <1>2, <2>1, <2>2
<1> QED
  BY <1>1, <1>2, RollbackSafety, PTL DEF Spec, ReplacesAtomically, Abstract!Spec
=============================================================================
