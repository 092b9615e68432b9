------------------------------ MODULE Rollback ------------------------------
(***************************************************************************)
(* The guarded three-state rollback transaction of the space store         *)
(* (store/artifact/rollback.rs) and its recovery, one action per durable   *)
(* filesystem step, so that a crash or an I/O error can fall between any   *)
(* two of them.                                                            *)
(*                                                                         *)
(* A tree is one directory generation (an inode): the home a space had     *)
(* before any rollback is named by the space, the home a rollback builds   *)
(* is named by its transaction.  Locks belong to trees, not to paths: a    *)
(* `.active` lock follows its directory through every rename.              *)
(*                                                                         *)
(* Each step that renames or unlinks is followed in the code by an fsync   *)
(* of the directory, so what a crash leaves is the state before or after   *)
(* a step.                                                                 *)
(***************************************************************************)
EXTENDS Naturals

CONSTANTS
    Names,      \* visible spaces
    Txs,        \* `quarters rollback` invocations, by transaction ID
    Sessions,   \* supervised processes (`enter`, `exec`) that open a space
    Target,     \* the space each invocation rolls back
    Home,       \* the space each session runs in
    MaxWrites,  \* bound on the writes to one tree
    NoTree,     \* no directory at a path
    Recoverer,  \* the `quarters recover` invocation
    Free        \* the management lock is not held

ASSUME RollbackAssumption ==
    /\ Target \in [Txs -> Names]
    /\ Home \in [Sessions -> Names]
    /\ MaxWrites \in Nat
    /\ Names \cap Txs = {}
    /\ Sessions \cap Txs = {}
    /\ NoTree \notin Names \cup Txs
    /\ Recoverer \notin Txs \cup {Free}
    /\ Free \notin Txs

VARIABLES
    target,     \* spaces/<name>: the tree at each visible path
    staging,    \* spaces/.rollback-staging-<tx>
    retired,    \* spaces/.rolled-back-<tx>
    marker,     \* spaces/.rollback-<tx>.json: its state, or "none"
    temp,       \* transactions whose marker temporary exists
    lockFile,   \* staging trees that contain the creation lock file
    filled,     \* staged trees with a complete home and manifest
    trash,      \* trees each invocation moved to trash/.reclaiming-*
    saved,      \* published recovery snapshots: tree and captured content
    content,    \* number of writes each tree has seen
    management, \* holder of the store-wide management lock
    activity,   \* the tree whose `.active` lock an invocation holds
    pc,         \* control point of each rollback invocation
    spc,        \* control point of each session
    rpc,        \* control point of the recovery invocation
    plan,       \* recovery: the action planned for each marker
    rtx         \* recovery: the transaction being reconciled

fsVars == <<target, staging, retired, marker, temp, lockFile, filled, trash>>
dataVars == <<saved, content>>
lockVars == <<management, activity>>
recVars == <<rpc, plan, rtx>>
vars == <<fsVars, dataVars, lockVars, pc, spc, recVars>>

Trees == Names \cup Txs
MarkerStates == {"prepared", "retired", "published"}
PlanActions == {"abort", "restore", "complete"}

(* Control points of rollback_space, in program order.                     *)
Outside == {"idle", "dead", "done"}
Staging == {"capture", "fill", "publish"}
Publishing == {"prepared_tmp", "prepared", "retire", "retired_tmp", "retired",
               "unlock", "swap", "published_tmp", "published", "reclaim",
               "unmark"}
PCs == Outside \cup Staging \cup Publishing \cup {"lock", "purge", "cleanup"}

(* Control points of recover_rollbacks: `Managed` hold the lock.           *)
Applying == {"transition_tmp", "transition", "restore", "complete", "unmark",
             "discard"}
Managed == Applying \cup {"temps", "load", "apply", "orphans"}
RPCs == Managed \cup {"idle", "purge"}

TypeOK ==
    /\ target \in [Names -> Trees \cup {NoTree}]
    /\ staging \in [Txs -> Trees \cup {NoTree}]
    /\ retired \in [Txs -> Trees \cup {NoTree}]
    /\ marker \in [Txs -> MarkerStates \cup {"none"}]
    /\ temp \in SUBSET Txs
    /\ lockFile \in SUBSET Txs
    /\ filled \in SUBSET Txs
    /\ trash \in [Txs \cup {Recoverer} -> SUBSET Trees]
    /\ saved \in SUBSET (Trees \X Nat)
    /\ content \in [Trees -> Nat]
    /\ management \in Txs \cup {Recoverer, Free}
    /\ activity \in [Txs \cup Sessions -> Trees \cup {NoTree}]
    /\ pc \in [Txs -> PCs]
    /\ spc \in [Sessions -> {"closed", "opened", "running"}]
    /\ rpc \in RPCs
    /\ plan \in [Txs -> PlanActions \cup {"none"}]
    /\ rtx \in Txs \cup {NoTree}

Init ==
    /\ target = [n \in Names |-> n]
    /\ staging = [t \in Txs |-> NoTree]
    /\ retired = [t \in Txs |-> NoTree]
    /\ marker = [t \in Txs |-> "none"]
    /\ temp = {}
    /\ lockFile = {}
    /\ filled = {}
    /\ trash = [p \in Txs \cup {Recoverer} |-> {}]
    /\ saved = {}
    /\ content = [x \in Trees |-> 0]
    /\ management = Free
    /\ activity = [p \in Txs \cup Sessions |-> NoTree]
    /\ pc = [t \in Txs |-> "idle"]
    /\ spc = [s \in Sessions |-> "closed"]
    /\ rpc = "idle"
    /\ plan = [t \in Txs |-> "none"]
    /\ rtx = NoTree

-----------------------------------------------------------------------------
(***************************************************************************)
(* What the code observes of the filesystem.                               *)
(***************************************************************************)

(* open_path and open_relocated_path validate the anchors and the          *)
(* manifest, which a staged tree has only once it is filled.               *)
Openable(x) == x \in Names \cup filled

(* Store::open: no rollback marker names the space and its tree is valid.  *)
CanOpen(n) ==
    /\ Openable(target[n])
    /\ \A t \in Txs : Target[t] = n => marker[t] = "none"

(* acquire_lifecycle_lease: exclusive; shared_lease: against exclusive.    *)
Unlocked(x) == \A p \in Txs \cup Sessions : activity[p] # x
NotExclusive(x) == \A t \in Txs : activity[t] # x

(* recovery_action: the row that the marker and the existence of the       *)
(* target, staging and retired paths select.                               *)
Paths(t) == <<target[Target[t]] # NoTree, staging[t] # NoTree, retired[t] # NoTree>>
(* Mutant: a published tree under a "retired" marker is not recognised.    *)
RecoveryRowForgetsRetired(t) ==
    CASE marker[t] = "prepared" /\ Paths(t) = <<TRUE, TRUE, FALSE>> -> "abort"
      [] /\ marker[t] \in {"prepared", "retired"}
         /\ Paths(t) = <<FALSE, TRUE, TRUE>> -> "restore"
      [] marker[t] = "published" /\ Paths(t)[1] /\ ~Paths(t)[2] -> "complete"
      [] OTHER -> "ambiguous"

RecoveryRow(t) ==
    CASE marker[t] = "prepared" /\ Paths(t) = <<TRUE, TRUE, FALSE>> -> "abort"
      [] /\ marker[t] \in {"prepared", "retired"}
         /\ Paths(t) = <<FALSE, TRUE, TRUE>> -> "restore"
      [] /\ marker[t] \in {"retired", "published"}
         /\ Paths(t) = <<TRUE, FALSE, TRUE>> -> "complete"
      [] marker[t] = "published" /\ Paths(t) = <<TRUE, FALSE, FALSE>> -> "complete"
      [] OTHER -> "ambiguous"

(* ... if the tree that must survive opens with the marker's identity.     *)
RecoveryAction(t) ==
    IF Openable(IF RecoveryRow(t) = "restore" THEN retired[t] ELSE target[Target[t]])
    THEN RecoveryRow(t) ELSE "ambiguous"

(* reject_duplicate_targets: two markers of one target are both retained.  *)
Duplicated(t) == \E u \in Txs \ {t} : marker[u] # "none" /\ Target[u] = Target[t]

-----------------------------------------------------------------------------
(***************************************************************************)
(* rollback_space                                                          *)
(***************************************************************************)

(* prepare_rollback up to the new staging directory.                       *)
Prepare(t) ==
    LET n == Target[t] IN
    /\ pc[t] = "idle"
    /\ management = Free
    /\ CanOpen(n)
    /\ Unlocked(target[n])
    /\ staging[t] = NoTree
    /\ management' = t
    /\ activity' = [activity EXCEPT ![t] = target[n]]
    /\ staging' = [staging EXCEPT ![t] = t]
    /\ pc' = [pc EXCEPT ![t] = "lock"]
    /\ UNCHANGED <<target, retired, marker, temp, lockFile, filled, trash,
                   dataVars, spc, recVars>>

(* Mutant: the lifecycle lease is dropped together with the management     *)
(* lock.                                                                   *)
LockStagingDropsLease(t) ==
    /\ pc[t] = "lock"
    /\ lockFile' = lockFile \cup {t}
    /\ management' = Free
    /\ activity' = [activity EXCEPT ![t] = NoTree]
    /\ pc' = [pc EXCEPT ![t] = "capture"]
    /\ UNCHANGED <<target, staging, retired, marker, temp, filled, trash,
                   dataVars, spc, recVars>>

(* acquire_creation_lock in the staging tree; then the management lock is  *)
(* dropped while the exclusive lease stays.                                *)
LockStaging(t) ==
    /\ pc[t] = "lock"
    /\ lockFile' = lockFile \cup {t}
    /\ management' = Free
    /\ pc' = [pc EXCEPT ![t] = "capture"]
    /\ UNCHANGED <<target, staging, retired, marker, temp, filled, trash,
                   dataVars, activity, spc, recVars>>

(* acquire_creation_lock deletes the staging tree when it cannot lock it.  *)
LockStagingFails(t) ==
    /\ pc[t] = "lock"
    /\ staging' = [staging EXCEPT ![t] = NoTree]
    /\ management' = Free
    /\ activity' = [activity EXCEPT ![t] = NoTree]
    /\ pc' = [pc EXCEPT ![t] = "done"]
    /\ UNCHANGED <<target, retired, marker, temp, lockFile, filled, trash,
                   dataVars, spc, recVars>>

(* Mutant: the rollback goes on without its recovery snapshot.             *)
CaptureNothing(t) ==
    /\ pc[t] = "capture"
    /\ pc' = [pc EXCEPT ![t] = "fill"]
    /\ UNCHANGED <<fsVars, dataVars, lockVars, spc, recVars>>

(* create_artifact_with_held_source: the automatic recovery snapshot of    *)
(* the home that is about to be replaced.                                  *)
Capture(t) ==
    LET x == target[Target[t]] IN
    /\ pc[t] = "capture"
    /\ management = Free
    /\ x # NoTree
    /\ saved' = saved \cup {<<x, content[x]>>}
    /\ pc' = [pc EXCEPT ![t] = "fill"]
    /\ UNCHANGED <<fsVars, content, lockVars, spc, recVars>>

(* execute_rollback before publication: copy the snapshot, write the       *)
(* skeleton, the lock file, the manifest and the provenance.               *)
Fill(t) ==
    /\ pc[t] = "fill"
    /\ staging[t] = t
    /\ filled' = filled \cup {t}
    /\ pc' = [pc EXCEPT ![t] = "publish"]
    /\ UNCHANGED <<target, staging, retired, marker, temp, lockFile, trash,
                   dataVars, lockVars, spc, recVars>>

(* publish_rollback takes the management lock and revalidates the target   *)
(* and the staged anchors.                                                 *)
BeginPublish(t) ==
    /\ pc[t] = "publish"
    /\ management = Free
    /\ CanOpen(Target[t])
    /\ Openable(staging[t])
    /\ management' = t
    /\ pc' = [pc EXCEPT ![t] = "prepared_tmp"]
    /\ UNCHANGED <<fsVars, dataVars, activity, spc, recVars>>

(* replace_marker: a new temporary, then a rename over the marker.         *)
WriteTemp(t, from, to) ==
    /\ pc[t] = from
    /\ t \notin temp
    /\ temp' = temp \cup {t}
    /\ pc' = [pc EXCEPT ![t] = to]
    /\ UNCHANGED <<target, staging, retired, marker, lockFile, filled, trash,
                   dataVars, lockVars, spc, recVars>>

RenameTemp(t, state, to) ==
    /\ pc[t] = state
    /\ temp' = temp \ {t}
    /\ marker' = [marker EXCEPT ![t] = state]
    /\ pc' = [pc EXCEPT ![t] = to]
    /\ UNCHANGED <<target, staging, retired, lockFile, filled, trash,
                   dataVars, lockVars, spc, recVars>>

RetireTarget(t) ==
    LET n == Target[t] IN
    /\ pc[t] = "retire"
    /\ target[n] # NoTree
    /\ retired' = [retired EXCEPT ![t] = target[n]]
    /\ target' = [target EXCEPT ![n] = NoTree]
    /\ pc' = [pc EXCEPT ![t] = "retired_tmp"]
    /\ UNCHANGED <<staging, marker, temp, lockFile, filled, trash, dataVars,
                   lockVars, spc, recVars>>

(* StagingIdentity::verify, then the creation lock file is removed.        *)
RemoveLockFile(t) ==
    /\ pc[t] = "unlock"
    /\ staging[t] = t
    /\ t \in lockFile
    /\ lockFile' = lockFile \ {t}
    /\ pc' = [pc EXCEPT ![t] = "swap"]
    /\ UNCHANGED <<target, staging, retired, marker, temp, filled, trash,
                   dataVars, lockVars, spc, recVars>>

(* fs::rename of the staged tree fails on a path that exists.              *)
PublishStaging(t) ==
    LET n == Target[t] IN
    /\ pc[t] = "swap"
    /\ target[n] = NoTree
    /\ target' = [target EXCEPT ![n] = staging[t]]
    /\ staging' = [staging EXCEPT ![t] = NoTree]
    /\ pc' = [pc EXCEPT ![t] = "published_tmp"]
    /\ UNCHANGED <<retired, marker, temp, lockFile, filled, trash, dataVars,
                   lockVars, spc, recVars>>

ReclaimRetired(t) ==
    /\ pc[t] = "reclaim"
    /\ trash' = [trash EXCEPT ![t] = @ \cup {retired[t]}]
    /\ retired' = [retired EXCEPT ![t] = NoTree]
    /\ pc' = [pc EXCEPT ![t] = "unmark"]
    /\ UNCHANGED <<target, staging, marker, temp, lockFile, filled, dataVars,
                   lockVars, spc, recVars>>

(* The marker is removed, then the lease and the management lock dropped.  *)
RemoveMarker(t) ==
    /\ pc[t] = "unmark"
    /\ marker' = [marker EXCEPT ![t] = "none"]
    /\ management' = Free
    /\ activity' = [activity EXCEPT ![t] = NoTree]
    /\ pc' = [pc EXCEPT ![t] = "purge"]
    /\ UNCHANGED <<target, staging, retired, temp, lockFile, filled, trash,
                   dataVars, spc, recVars>>

Purge(t) ==
    /\ pc[t] = "purge"
    /\ trash' = [trash EXCEPT ![t] = {}]
    /\ pc' = [pc EXCEPT ![t] = "done"]
    /\ UNCHANGED <<target, staging, retired, marker, temp, lockFile, filled,
                   dataVars, lockVars, spc, recVars>>

(* An error returns from any step: the guards drop both locks.  Before     *)
(* execute_rollback nothing is cleaned up; inside it rollback_space still  *)
(* holds the creation lock and looks at the marker.                        *)
Release(t) ==
    /\ management' = IF management = t THEN Free ELSE management
    /\ activity' = [activity EXCEPT ![t] = NoTree]

Fail(t) ==
    /\ pc[t] \notin Outside \cup {"cleanup"}
    /\ pc' = [pc EXCEPT ![t] =
                IF pc[t] \in Publishing \cup {"fill", "publish"}
                THEN "cleanup" ELSE "done"]
    /\ Release(t)
    /\ UNCHANGED <<fsVars, dataVars, spc, recVars>>

(* Staging is deleted only when this transaction left no marker, and only  *)
(* if the path still holds the retained generation.                        *)
Cleanup(t) ==
    /\ pc[t] = "cleanup"
    /\ IF marker[t] = "none" /\ staging[t] = t
       THEN /\ staging' = [staging EXCEPT ![t] = NoTree]
            /\ lockFile' = lockFile \ {t}
       ELSE UNCHANGED <<staging, lockFile>>
    /\ pc' = [pc EXCEPT ![t] = "done"]
    /\ UNCHANGED <<target, retired, marker, temp, filled, trash, dataVars,
                   lockVars, spc, recVars>>

(* The process dies: the kernel drops its locks and nothing else changes.  *)
Crash(t) ==
    /\ pc[t] \notin Outside
    /\ pc' = [pc EXCEPT ![t] = "dead"]
    /\ Release(t)
    /\ UNCHANGED <<fsVars, dataVars, spc, recVars>>

RollbackStep(t) ==
    \/ Prepare(t)
    \/ LockStaging(t)
    \/ Capture(t)
    \/ Fill(t)
    \/ BeginPublish(t)
    \/ WriteTemp(t, "prepared_tmp", "prepared")
    \/ RenameTemp(t, "prepared", "retire")
    \/ RetireTarget(t)
    \/ WriteTemp(t, "retired_tmp", "retired")
    \/ RenameTemp(t, "retired", "unlock")
    \/ RemoveLockFile(t)
    \/ PublishStaging(t)
    \/ WriteTemp(t, "published_tmp", "published")
    \/ RenameTemp(t, "published", "reclaim")
    \/ ReclaimRetired(t)
    \/ RemoveMarker(t)
    \/ Purge(t)
    \/ Cleanup(t)

-----------------------------------------------------------------------------
(***************************************************************************)
(* recover_rollbacks, under the management lock until its trees are gone.  *)
(***************************************************************************)

RecoverBegin ==
    /\ rpc = "idle"
    /\ management = Free
    /\ management' = Recoverer
    /\ rpc' = "temps"
    /\ UNCHANGED <<fsVars, dataVars, activity, pc, spc, plan, rtx>>

(* reclaim_marker_temporaries, one unlink at a time.                       *)
ReclaimTemp(t) ==
    /\ rpc = "temps"
    /\ t \in temp
    /\ temp' = temp \ {t}
    /\ UNCHANGED <<target, staging, retired, marker, lockFile, filled, trash,
                   dataVars, lockVars, pc, spc, recVars>>
(* Mutant: leftover marker temporaries are not reclaimed first.            *)
TempsIgnored ==
    /\ rpc = "temps"
    /\ rpc' = "load"
    /\ UNCHANGED <<fsVars, dataVars, lockVars, pc, spc, plan, rtx>>


TempsReclaimed ==
    /\ rpc = "temps"
    /\ temp = {}
    /\ rpc' = "load"
    /\ UNCHANGED <<fsVars, dataVars, lockVars, pc, spc, plan, rtx>>

(* load_recovery_inventory: every unambiguous marker with a target of its  *)
(* own becomes a plan; the others are issues and are left alone.           *)
LoadInventory ==
    /\ rpc = "load"
    /\ plan' = [t \in Txs |->
                  IF \/ marker[t] = "none"
                     \/ RecoveryAction(t) = "ambiguous"
                     \/ Duplicated(t)
                  THEN "none" ELSE RecoveryAction(t)]
    /\ rpc' = "apply"
    /\ UNCHANGED <<fsVars, dataVars, lockVars, pc, spc, rtx>>

(* apply_recovery_plan: an abort removes the marker at once; the others    *)
(* first bring the marker to the state they complete (transition_marker).  *)
ApplyPlan(t) ==
    /\ rpc = "apply"
    /\ plan[t] # "none"
    /\ rtx' = t
    /\ rpc' = CASE plan[t] = "abort" -> "unmark"
              [] plan[t] = "restore" ->
                    IF marker[t] = "prepared" THEN "restore" ELSE "transition_tmp"
              [] plan[t] = "complete" ->
                    IF marker[t] = "published" THEN "complete" ELSE "transition_tmp"
    /\ UNCHANGED <<fsVars, dataVars, lockVars, pc, spc, plan>>

TransitionTemp ==
    /\ rpc = "transition_tmp"
    /\ rtx \notin temp
    /\ temp' = temp \cup {rtx}
    /\ rpc' = "transition"
    /\ UNCHANGED <<target, staging, retired, marker, lockFile, filled, trash,
                   dataVars, lockVars, pc, spc, plan, rtx>>

(* Mutant: the marker goes as soon as the old home is known to be there.   *)
TransitionUnmarks ==
    /\ rpc = "transition"
    /\ temp' = temp \ {rtx}
    /\ marker' = [marker EXCEPT ![rtx] =
                    IF plan[rtx] = "restore" THEN "none" ELSE "published"]
    /\ rpc' = plan[rtx]
    /\ UNCHANGED <<target, staging, retired, lockFile, filled, trash,
                   dataVars, lockVars, pc, spc, plan, rtx>>

TransitionMarker ==
    /\ rpc = "transition"
    /\ temp' = temp \ {rtx}
    /\ marker' = [marker EXCEPT ![rtx] =
                    IF plan[rtx] = "restore" THEN "prepared" ELSE "published"]
    /\ rpc' = plan[rtx]
    /\ UNCHANGED <<target, staging, retired, lockFile, filled, trash,
                   dataVars, lockVars, pc, spc, plan, rtx>>

(* recover_restore_old: the retired tree goes back to the target path.     *)
RestoreOld ==
    LET n == Target[rtx] IN
    /\ rpc = "restore"
    /\ target[n] = NoTree
    /\ target' = [target EXCEPT ![n] = retired[rtx]]
    /\ retired' = [retired EXCEPT ![rtx] = NoTree]
    /\ rpc' = "unmark"
    /\ UNCHANGED <<staging, marker, temp, lockFile, filled, trash, dataVars,
                   lockVars, pc, spc, plan, rtx>>

(* recover_complete_new: the replaced tree, if it is still there, goes.    *)
CompleteNew ==
    /\ rpc = "complete"
    /\ IF retired[rtx] # NoTree
       THEN /\ trash' = [trash EXCEPT ![Recoverer] = @ \cup {retired[rtx]}]
            /\ retired' = [retired EXCEPT ![rtx] = NoTree]
       ELSE UNCHANGED <<trash, retired>>
    /\ rpc' = "unmark"
    /\ UNCHANGED <<target, staging, marker, temp, lockFile, filled, dataVars,
                   lockVars, pc, spc, plan, rtx>>

(* remove_marker_durable                                                   *)
Unmark ==
    /\ rpc = "unmark"
    /\ marker' = [marker EXCEPT ![rtx] = "none"]
    /\ IF plan[rtx] = "complete"
       THEN rpc' = "apply" /\ plan' = [plan EXCEPT ![rtx] = "none"]
       ELSE rpc' = "discard" /\ UNCHANGED plan
    /\ UNCHANGED <<target, staging, retired, temp, lockFile, filled, trash,
                   dataVars, lockVars, pc, spc, rtx>>

(* retire_recovery_path: a staging tree moves to the trash.                *)
RetireStaging(t) ==
    /\ trash' = [trash EXCEPT ![Recoverer] = @ \cup {staging[t]}]
    /\ staging' = [staging EXCEPT ![t] = NoTree]
    /\ lockFile' = lockFile \ {t}

Discard ==
    /\ rpc = "discard"
    /\ staging[rtx] # NoTree
    /\ RetireStaging(rtx)
    /\ plan' = [plan EXCEPT ![rtx] = "none"]
    /\ rpc' = "apply"
    /\ UNCHANGED <<target, retired, marker, temp, filled, dataVars, lockVars,
                   pc, spc, rtx>>

(* The invocation returns early; its guard drops the management lock.      *)
RecoverReturns ==
    /\ management' = IF management = Recoverer THEN Free ELSE management
    /\ rpc' = "idle"
    /\ plan' = [t \in Txs |-> "none"]
    /\ rtx' = NoTree
    /\ UNCHANGED <<fsVars, dataVars, activity, pc, spc>>

(* A failed rollback may delete its own staging tree after recovery        *)
(* removed the marker: the rename fails and so does the recovery.          *)
DiscardFails ==
    /\ rpc = "discard"
    /\ staging[rtx] = NoTree
    /\ RecoverReturns

(* An I/O error or a crash ends the recovery wherever it is; a later one   *)
(* starts from the filesystem alone.  (Where that would be the very step   *)
(* DiscardFails or RecoverPurge takes, it is left to them, so that         *)
(* Fairness can tell an interruption from an end.)                         *)
RecoverInterrupted ==
    /\ rpc # "idle"
    /\ rpc = "discard" => staging[rtx] # NoTree
    /\ rpc = "purge" => trash[Recoverer] # {}
    /\ RecoverReturns

PlansApplied ==
    /\ rpc = "apply"
    /\ \A t \in Txs : plan[t] = "none"
    /\ rpc' = "orphans"
    /\ UNCHANGED <<fsVars, dataVars, lockVars, pc, spc, plan, rtx>>

(* reclaim_orphan_staging: no marker, and a creation lock that is missing  *)
(* or whose owner is gone.                                                 *)
LockHeld(t) == t \in lockFile /\ pc[t] \notin Outside
Orphan(t) == staging[t] # NoTree /\ marker[t] = "none" /\ ~LockHeld(t)

ReclaimOrphan(t) ==
    /\ rpc = "orphans"
    /\ Orphan(t)
    /\ RetireStaging(t)
    /\ UNCHANGED <<target, retired, marker, temp, filled, dataVars, lockVars,
                   pc, spc, recVars>>

OrphansReclaimed ==
    /\ rpc = "orphans"
    /\ \A t \in Txs : ~Orphan(t)
    /\ management' = Free
    /\ rpc' = "purge"
    /\ UNCHANGED <<fsVars, dataVars, activity, pc, spc, plan, rtx>>

RecoverPurge ==
    /\ rpc = "purge"
    /\ trash' = [trash EXCEPT ![Recoverer] = {}]
    /\ rpc' = "idle"
    /\ rtx' = NoTree
    /\ UNCHANGED <<target, staging, retired, marker, temp, lockFile, filled,
                   dataVars, lockVars, pc, spc, plan>>

RecoverStep ==
    \/ \E t \in Txs : ReclaimTemp(t)
    \/ TempsReclaimed
    \/ LoadInventory
    \/ \E t \in Txs : ApplyPlan(t)
    \/ TransitionTemp
    \/ TransitionMarker
    \/ RestoreOld
    \/ CompleteNew
    \/ Unmark
    \/ Discard
    \/ DiscardFails
    \/ PlansApplied
    \/ \E t \in Txs : ReclaimOrphan(t)
    \/ OrphansReclaimed
    \/ RecoverPurge

-----------------------------------------------------------------------------
(***************************************************************************)
(* Supervised sessions: Store::open without a lock, Store::lease later.    *)
(***************************************************************************)

OpenSpace(s) ==
    /\ spc[s] = "closed"
    /\ CanOpen(Home[s])
    /\ spc' = [spc EXCEPT ![s] = "opened"]
    /\ UNCHANGED <<fsVars, dataVars, lockVars, pc, recVars>>

(* lease: under the management lock, shared on the `.active` file that the *)
(* path names now; the marker is not looked at again.                      *)
Lease(s) ==
    LET x == target[Home[s]] IN
    /\ spc[s] = "opened"
    /\ management = Free
    /\ x # NoTree
    /\ NotExclusive(x)
    /\ activity' = [activity EXCEPT ![s] = x]
    /\ spc' = [spc EXCEPT ![s] = "running"]
    /\ UNCHANGED <<fsVars, dataVars, management, pc, recVars>>

(* The session writes through the path of its home.                        *)
Write(s) ==
    LET x == target[Home[s]] IN
    /\ spc[s] = "running"
    /\ x # NoTree
    /\ content[x] < MaxWrites
    /\ content' = [content EXCEPT ![x] = @ + 1]
    /\ UNCHANGED <<fsVars, saved, lockVars, pc, spc, recVars>>

(* Exit, a refused lease, and a crash are one step to everyone else.       *)
Close(s) ==
    /\ spc[s] # "closed"
    /\ activity' = [activity EXCEPT ![s] = NoTree]
    /\ spc' = [spc EXCEPT ![s] = "closed"]
    /\ UNCHANGED <<fsVars, dataVars, management, pc, recVars>>

SessionStep(s) == OpenSpace(s) \/ Lease(s) \/ Write(s) \/ Close(s)

-----------------------------------------------------------------------------
Next ==
    \/ \E t \in Txs : RollbackStep(t) \/ LockStagingFails(t) \/ Fail(t) \/ Crash(t)
    \/ RecoverBegin
    \/ RecoverStep
    \/ RecoverInterrupted
    \/ \E s \in Sessions : SessionStep(s)

Spec == Init /\ [][Next]_vars

(***************************************************************************)
(* Properties.                                                             *)
(***************************************************************************)

(* Whatever instant a rollback or an earlier recovery was cut off at, the  *)
(* marker and the three paths select exactly one action: recovery never    *)
(* meets the "ambiguous filesystem tuple" of recovery_action, nor the      *)
(* duplicate markers of reject_duplicate_targets.                          *)
RecoveryIsDetermined ==
    \A t \in Txs : marker[t] # "none" =>
        /\ RecoveryAction(t) \in PlanActions
        /\ ~Duplicated(t)

(* A space never loses its home: there is a valid tree at its path, or one *)
(* marker names the retired directory where the old tree waits.            *)
HomeReachable ==
    \A n \in Names :
        \/ Openable(target[n])
        \/ \E t \in Txs :
              /\ Target[t] = n
              /\ marker[t] # "none"
              /\ Openable(retired[t])

(* A session that got its lease runs in the tree it leased: no rollback    *)
(* and no recovery moves that tree away or holds it exclusively, although  *)
(* recovery takes no lease and the session checked the marker before it    *)
(* asked for the lock.                                                     *)
LeaseCoversHome ==
    \A s \in Sessions : spc[s] = "running" =>
        /\ activity[s] = target[Home[s]]
        /\ NotExclusive(activity[s])

(* The staging tree of a rollback that is still running is never reclaimed *)
(* by a concurrent recovery (reclaim_orphan_staging).                      *)
LiveStagingKept ==
    \A t \in Txs : pc[t] \in Staging => staging[t] = t /\ t \in lockFile

(* What every instant keeps, whatever rollbacks and recoveries are cut     *)
(* off: the state is well formed, no home is out of reach, no lease is     *)
(* left on a replaced tree, and no live staging is taken.                  *)
HomesSound ==
    /\ TypeOK
    /\ HomeReachable
    /\ LeaseCoversHome
    /\ LiveStagingKept

(* A home that has been the visible or the retired tree of a space leaves  *)
(* the store only if a published recovery snapshot holds its content.      *)
Kept(x) == (\E n \in Names : target[n] = x) \/ (\E t \in Txs : retired[t] = x)
DiscardsOnlySavedHomes ==
    [][\A x \in Trees : Kept(x) /\ ~Kept(x)' => <<x, content[x]>> \in saved]_vars

(* The abstract view: a space with no tree at its path is still the old    *)
(* one, and the replacement happens when the staged tree is renamed there. *)
HomeOf(n) ==
    IF target[n] # NoTree THEN target[n]
    ELSE retired[CHOOSE t \in Txs : Target[t] = n /\ retired[t] # NoTree]

PhaseOf(n) ==
    IF \A t \in Txs : Target[t] = n => marker[t] = "none" THEN "idle"
    ELSE IF \E t \in Txs : Target[t] = n /\ marker[t] # "none" /\ target[n] = t
    THEN "replaced" ELSE "announced"

Abstract == INSTANCE AtomicReplace WITH
    home <- [n \in Names |-> HomeOf(n)],
    phase <- [n \in Names |-> PhaseOf(n)],
    written <- content

(* Every behaviour of rollback, crash and recovery is one of the abstract  *)
(* announced, saved and at-most-once replacement.                          *)
ReplacesAtomically == Abstract!Spec

(* The operator runs `recover` until one invocation is not interrupted,    *)
(* and processes that are neither dead nor failed keep running.            *)
Fairness ==
    /\ \A t \in Txs : WF_vars(RollbackStep(t))
    /\ WF_vars(RecoverBegin)
    /\ WF_vars(RecoverStep)
    /\ <>[][~RecoverInterrupted]_vars

LiveSpec == Spec /\ Fairness

(* An interrupted rollback is always settled: a space refused because of a *)
(* marker can eventually be opened again.                                  *)
RefusedSpaceReturns == \A n \in Names : ~CanOpen(n) ~> CanOpen(n)
=============================================================================
