------------------------------- MODULE Staging -------------------------------
(***************************************************************************)
(* Staged publication.  Creation, clone, host fork and template use build  *)
(* a space, capture and bundle import build an artifact: each in a private *)
(* .creating-* directory guarded by its own creation lock, published by    *)
(* one rename (store/create.rs, store/lifecycle/copy.rs,                   *)
(* store/host_fork/transaction.rs, store/artifact).  Removals and artifact *)
(* renames (store/remove.rs, store/artifact/catalog.rs) work on what is    *)
(* published; `quarters recover` (store_recovery.rs) reclaims what is left *)
(* behind.                                                                 *)
(*                                                                         *)
(* A tree is named by the invocation that builds it.  A space is found by  *)
(* its path; an artifact is found by the name in its manifest, which       *)
(* rename_artifact replaces.                                               *)
(***************************************************************************)
CONSTANTS
    Names,      \* space names and artifact names
    Builders,   \* invocations that build a tree, and the trees
    Kind,       \* what each builds
    Dest,       \* the name each publishes under
    From,       \* the template name a "use" starts from
    Published,  \* artifacts that are already there
    Mutators,   \* removals and artifact renames
    Recoverer,  \* the `quarters recover` invocation
    Free,       \* the management lock is not held
    None        \* no tree

SpaceKinds == {"create", "clone", "fork", "use"}
ArtifactKinds == {"capture", "import"}

ASSUME StagingAssumption ==
    /\ Kind \in [Builders -> SpaceKinds \cup ArtifactKinds]
    /\ Dest \in [Builders -> Names]
    /\ From \in [Builders -> Names]
    /\ Published \in SUBSET {b \in Builders : Kind[b] \in ArtifactKinds}
    /\ \A a, b \in Published : Dest[a] = Dest[b] => a = b
    /\ Builders \cap Mutators = {}
    /\ {Recoverer, Free} \cap (Builders \cup Mutators) = {}
    /\ Recoverer # Free
    /\ None \notin Builders \cup Names

VARIABLES
    place,      \* where each tree is
    lockFile,   \* trees that contain .creating.lock
    complete,   \* trees with all their content and their manifest
    faithful,   \* trees copied from a complete template
    label,      \* the name in each artifact's manifest
    temp,       \* artifacts that contain .manifest-<id>.tmp
    management, \* holder of the management lock
    pc,         \* builders
    handle,     \* the manifest a "use" or a mutator verified
    mpc,        \* mutators
    rpc,        \* the recovery
    probed,     \* creation locks held by the unlocked part of recovery
    found,      \* what the recovery's scan under the lock has found
    reclaiming  \* what this recovery has moved to the trash

treeVars == <<place, lockFile, complete, faithful, label, temp>>
recVars == <<rpc, probed, found, reclaiming>>
vars == <<treeVars, management, pc, handle, mpc, recVars>>

Spaces == {b \in Builders : Kind[b] \in SpaceKinds}
Artifacts == {b \in Builders : Kind[b] \in ArtifactKinds}
Live == {"fill", "publish", "seal", "rename"}
Locking == {"open", "lock", "seal", "rename"}
NoHandle == [tree |-> None, name |-> None]

TypeOK ==
    /\ place \in [Builders -> {"none", "staging", "visible", "retired", "trash", "gone"}]
    /\ lockFile \in SUBSET Builders
    /\ complete \in SUBSET Builders
    /\ faithful \in SUBSET Builders
    /\ label \in [Builders -> Names]
    /\ temp \in SUBSET {a \in Artifacts : place[a] # "none"}
    /\ management \in Builders \cup Mutators \cup {Recoverer, Free}
    /\ pc \in [Builders -> Live \cup Locking \cup {"idle", "verified", "sync",
                              "cleanup", "cleaning", "done", "dead"}]
    /\ handle \in [Builders \cup Mutators ->
                     [tree : Builders \cup {None}, name : Names \cup {None}]]
    /\ mpc \in [Mutators -> {"idle", "verified", "replace", "delete", "deleting", "done"}]
    /\ rpc \in {"idle", "probe", "begin", "spaces", "artifacts", "delete"}
    /\ probed \in SUBSET Artifacts
    /\ found \in SUBSET Builders
    /\ reclaiming \in SUBSET Builders

Init ==
    /\ place = [b \in Builders |-> IF b \in Published THEN "visible" ELSE "none"]
    /\ lockFile = {}
    /\ complete = Published
    /\ faithful = {}
    /\ label = Dest
    /\ temp = {}
    /\ management = Free
    /\ pc = [b \in Builders |-> IF b \in Published THEN "done" ELSE "idle"]
    /\ handle = [p \in Builders \cup Mutators |-> NoHandle]
    /\ mpc = [m \in Mutators |-> "idle"]
    /\ rpc = "idle"
    /\ probed = {}
    /\ found = {}
    /\ reclaiming = {}

-----------------------------------------------------------------------------
(* entry_exists on the destination path                                    *)
SpaceNameFree(n) == \A b \in Spaces : place[b] = "visible" => Dest[b] # n

(* open_artifact: a scan of the manifests of the published artifacts       *)
Named(n) == {a \in Artifacts : place[a] = "visible" /\ label[a] = n}

(* require_artifact_name_available                                         *)
ArtifactNameFree(n) == Named(n) = {}

NameFree(b) ==
    IF b \in Spaces THEN SpaceNameFree(Dest[b]) ELSE ArtifactNameFree(Dest[b])

(* The template is still the one that was verified.                        *)
TemplateUnchanged(b) ==
    Kind[b] = "use" => handle[b].tree \in Named(handle[b].name)

(* The creation lock is held as long as the builder is alive and the file  *)
(* is there to be tried.                                                   *)
LockHeld(b) == b \in lockFile /\ pc[b] \in Live \cup {"cleanup"}

-----------------------------------------------------------------------------
(***************************************************************************)
(* Builders                                                                *)
(***************************************************************************)

(* verify_artifact, without any lock                                       *)
VerifyTemplate(b) ==
    /\ pc[b] = "idle"
    /\ Kind[b] = "use"
    /\ \E a \in Named(From[b]) \cap complete :
          handle' = [handle EXCEPT ![b] = [tree |-> a, name |-> From[b]]]
    /\ pc' = [pc EXCEPT ![b] = "verified"]
    /\ UNCHANGED <<treeVars, management, mpc, recVars>>

(* The preparation section makes the staging directory.  host_fork looks   *)
(* at the destination before the section only.                             *)
PrepareStaging(b) ==
    /\ pc[b] = IF Kind[b] = "use" THEN "verified" ELSE "idle"
    /\ management = Free
    /\ Kind[b] # "fork" => NameFree(b)
    /\ management' = b
    /\ place' = [place EXCEPT ![b] = "staging"]
    /\ pc' = [pc EXCEPT ![b] = "open"]
    /\ UNCHANGED <<lockFile, complete, faithful, label, temp, handle, mpc, recVars>>

(* acquire_creation_lock creates the lock file ...                         *)
CreateLockFile(b) ==
    /\ pc[b] = "open"
    /\ lockFile' = lockFile \cup {b}
    /\ pc' = [pc EXCEPT ![b] = "lock"]
    /\ UNCHANGED <<place, complete, faithful, label, temp, management, handle, mpc, recVars>>

(* ... and locks it; then the management lock is released.                 *)
LockStaging(b) ==
    /\ pc[b] = "lock"
    /\ b \notin probed
    /\ management' = Free
    /\ pc' = [pc EXCEPT ![b] = "fill"]
    /\ UNCHANGED <<treeVars, handle, mpc, recVars>>

(* A recovery that holds the new lock for its inspection makes the builder *)
(* give up and delete the directory.                                       *)
LockStagingFails(b) ==
    /\ pc[b] = "lock"
    /\ b \in probed
    /\ place' = [place EXCEPT ![b] = "gone"]
    /\ lockFile' = lockFile \ {b}
    /\ management' = Free
    /\ pc' = [pc EXCEPT ![b] = "done"]
    /\ UNCHANGED <<complete, faithful, label, temp, handle, mpc, recVars>>

(* Copy, skeleton, manifest and provenance.  A template is read without    *)
(* any lock and verified again by name when the copy is done.              *)
Fill(b) ==
    /\ pc[b] = "fill"
    /\ Kind[b] = "use" => Named(handle[b].name) \cap complete # {}
    /\ complete' = complete \cup {b}
    /\ faithful' = IF handle[b].tree \in complete THEN faithful \cup {b} ELSE faithful
    /\ pc' = [pc EXCEPT ![b] = "publish"]
    /\ UNCHANGED <<place, lockFile, label, temp, management, handle, mpc, recVars>>

(* Mutant: the template is not compared again under the lock.              *)
BeginPublishUnchecked(b) ==
    /\ pc[b] = "publish"
    /\ management = Free
    /\ NameFree(b)
    /\ place[b] = "staging" /\ b \in lockFile
    /\ management' = b
    /\ pc' = [pc EXCEPT ![b] = "seal"]
    /\ UNCHANGED <<treeVars, handle, mpc, recVars>>

(* The publication section checks everything again; StagingIdentity::verify*)
(* requires the directory and its lock file.                               *)
BeginPublish(b) ==
    /\ pc[b] = "publish"
    /\ management = Free
    /\ TemplateUnchanged(b)
    /\ NameFree(b)
    /\ place[b] = "staging" /\ b \in lockFile
    /\ management' = b
    /\ pc' = [pc EXCEPT ![b] = "seal"]
    /\ UNCHANGED <<treeVars, handle, mpc, recVars>>

(* The lock file goes before the tree becomes visible.                     *)
Seal(b) ==
    /\ pc[b] = "seal"
    /\ lockFile' = lockFile \ {b}
    /\ pc' = [pc EXCEPT ![b] = "rename"]
    /\ UNCHANGED <<place, complete, faithful, label, temp, management, handle, mpc, recVars>>

Publish(b) ==
    /\ pc[b] = "rename"
    /\ place[b] = "staging"
    /\ place' = [place EXCEPT ![b] = "visible"]
    /\ management' = Free
    /\ pc' = [pc EXCEPT ![b] = "sync"]
    /\ UNCHANGED <<lockFile, complete, faithful, label, temp, handle, mpc, recVars>>

Finish(b) ==
    /\ pc[b] = "sync"
    /\ pc' = [pc EXCEPT ![b] = "done"]
    /\ UNCHANGED <<treeVars, management, handle, mpc, recVars>>

Release(p) == management' = IF management = p THEN Free ELSE management

(* Any check, copy or rename may fail.  Clone, template use and capture    *)
(* also clean up when the sync after the publication fails.                *)
Fail(b) ==
    /\ \/ pc[b] \in Live
       \/ pc[b] = "sync" /\ Kind[b] \in {"clone", "use", "capture"}
    /\ Release(b)
    /\ pc' = [pc EXCEPT ![b] = "cleanup"]
    /\ UNCHANGED <<treeVars, handle, mpc, recVars>>

(* Mutant: the retained identity is followed to wherever the tree is now.  *)
CleanupByIdentity(b) ==
    /\ pc[b] = "cleanup"
    /\ place[b] \in {"staging", "visible"}
    /\ lockFile' = lockFile \ {b}
    /\ complete' = complete \ {b}
    /\ pc' = [pc EXCEPT ![b] = "cleaning"]
    /\ UNCHANGED <<place, faithful, label, temp, management, handle, mpc, recVars>>

(* StagingIdentity::cleanup deletes what is at the staging path, entry by  *)
(* entry and without the management lock.                                  *)
Cleanup(b) ==
    /\ pc[b] = "cleanup"
    /\ place[b] = "staging"
    /\ lockFile' = lockFile \ {b}
    /\ complete' = complete \ {b}
    /\ pc' = [pc EXCEPT ![b] = "cleaning"]
    /\ UNCHANGED <<place, faithful, label, temp, management, handle, mpc, recVars>>

CleanupEnds(b) ==
    /\ \/ pc[b] = "cleaning"
       \/ pc[b] = "cleanup" /\ place[b] # "staging"
    /\ place' = [place EXCEPT ![b] = IF @ = "staging" THEN "gone" ELSE @]
    /\ pc' = [pc EXCEPT ![b] = "done"]
    /\ UNCHANGED <<lockFile, complete, faithful, label, temp, management, handle, mpc, recVars>>

(* ... or gives up on an entry, and what is left stays where it is; the    *)
(* creation lock goes with the process.                                    *)
CleanupFails(b) ==
    /\ pc[b] \in {"cleanup", "cleaning"}
    /\ place[b] = "staging"
    /\ pc' = [pc EXCEPT ![b] = "done"]
    /\ UNCHANGED <<treeVars, management, handle, mpc, recVars>>

Crash(b) ==
    /\ pc[b] \notin {"idle", "done", "dead"}
    /\ Release(b)
    /\ pc' = [pc EXCEPT ![b] = "dead"]
    /\ UNCHANGED <<treeVars, handle, mpc, recVars>>

BuilderStep(b) ==
    \/ VerifyTemplate(b) \/ PrepareStaging(b) \/ CreateLockFile(b)
    \/ LockStaging(b) \/ LockStagingFails(b) \/ Fill(b)
    \/ BeginPublish(b) \/ Seal(b) \/ Publish(b) \/ Finish(b)
    \/ Fail(b) \/ Cleanup(b) \/ CleanupEnds(b) \/ CleanupFails(b) \/ Crash(b)

-----------------------------------------------------------------------------
(***************************************************************************)
(* Removals and artifact renames                                           *)
(***************************************************************************)

(* rename_artifact and remove_artifact verify before they take the lock.   *)
VerifyArtifact(m) ==
    /\ mpc[m] = "idle"
    /\ \E a \in Artifacts \cap complete :
          /\ place[a] = "visible"
          /\ handle' = [handle EXCEPT ![m] = [tree |-> a, name |-> label[a]]]
    /\ mpc' = [mpc EXCEPT ![m] = "verified"]
    /\ UNCHANGED <<treeVars, management, pc, recVars>>

Unchanged(m) == handle[m].tree \in Named(handle[m].name)

(* replace_artifact_manifest refuses an existing temporary.                *)
RenameBegin(m, n) ==
    LET a == handle[m].tree IN
    /\ mpc[m] = "verified"
    /\ management = Free
    /\ Unchanged(m)
    /\ ArtifactNameFree(n)
    /\ a \notin temp
    /\ temp' = temp \cup {a}
    /\ management' = m
    /\ handle' = [handle EXCEPT ![m].name = n]
    /\ mpc' = [mpc EXCEPT ![m] = "replace"]
    /\ UNCHANGED <<place, lockFile, complete, faithful, label, pc, recVars>>

RenameReplace(m) ==
    LET a == handle[m].tree IN
    /\ mpc[m] = "replace"
    /\ label' = [label EXCEPT ![a] = handle[m].name]
    /\ temp' = temp \ {a}
    /\ management' = Free
    /\ mpc' = [mpc EXCEPT ![m] = "done"]
    /\ UNCHANGED <<place, lockFile, complete, faithful, pc, handle, recVars>>

(* remove_artifact retires to .reclaiming-<id> beside the artifacts.       *)
RemoveArtifact(m) ==
    /\ mpc[m] = "verified"
    /\ management = Free
    /\ Unchanged(m)
    /\ place' = [place EXCEPT ![handle[m].tree] = "retired"]
    /\ mpc' = [mpc EXCEPT ![m] = "delete"]
    /\ UNCHANGED <<lockFile, complete, faithful, label, temp, management, pc,
                   handle, recVars>>

(* retire_space moves the space to .retired-* in the trash.                *)
RetireSpace(m) ==
    /\ mpc[m] = "idle"
    /\ management = Free
    /\ \E b \in Spaces :
          /\ place[b] = "visible"
          /\ place' = [place EXCEPT ![b] = "retired"]
          /\ handle' = [handle EXCEPT ![m] = [tree |-> b, name |-> Dest[b]]]
    /\ mpc' = [mpc EXCEPT ![m] = "delete"]
    /\ UNCHANGED <<lockFile, complete, faithful, label, temp, management, pc, recVars>>

(* The retired tree is deleted entry by entry, without the lock.           *)
DeleteContent(m) ==
    /\ mpc[m] = "delete"
    /\ place[handle[m].tree] = "retired"
    /\ complete' = complete \ {handle[m].tree}
    /\ mpc' = [mpc EXCEPT ![m] = "deleting"]
    /\ UNCHANGED <<place, lockFile, faithful, label, temp, management, pc, handle, recVars>>

DeleteEnds(m) ==
    LET b == handle[m].tree IN
    /\ mpc[m] \in {"delete", "deleting"}
    /\ mpc[m] = "delete" => place[b] # "retired"
    /\ place' = [place EXCEPT ![b] = IF @ = "retired" THEN "gone" ELSE @]
    /\ temp' = IF place[b] = "retired" THEN temp \ {b} ELSE temp
    /\ mpc' = [mpc EXCEPT ![m] = "done"]
    /\ UNCHANGED <<lockFile, complete, faithful, label, management, pc, handle, recVars>>

MutatorStops(m) ==
    /\ mpc[m] \notin {"idle", "done"}
    /\ Release(m)
    /\ mpc' = [mpc EXCEPT ![m] = "done"]
    /\ UNCHANGED <<treeVars, pc, handle, recVars>>

MutatorStep(m) ==
    \/ VerifyArtifact(m) \/ RenameReplace(m) \/ RemoveArtifact(m)
    \/ RetireSpace(m) \/ DeleteContent(m) \/ DeleteEnds(m) \/ MutatorStops(m)
    \/ \E n \in Names : RenameBegin(m, n)

-----------------------------------------------------------------------------
(***************************************************************************)
(* recover                                                                 *)
(***************************************************************************)
Staged(X) == {b \in X : place[b] = "staging"}

(* inspect_artifact_state runs without the management lock and holds the   *)
(* creation locks it could take until it has seen every artifact.          *)
RecoverProbe ==
    /\ rpc = "idle"
    /\ probed' = {a \in Staged(Artifacts) : a \in lockFile /\ ~LockHeld(a)}
    /\ rpc' = "probe"
    /\ UNCHANGED <<treeVars, management, pc, handle, mpc, found, reclaiming>>

RecoverProbed ==
    /\ rpc = "probe"
    /\ probed' = {}
    /\ rpc' = "begin"
    /\ UNCHANGED <<treeVars, management, pc, handle, mpc, found, reclaiming>>

(* Mutant: a creation is taken for stale without trying its lock.          *)
StaleUnlocked(X) == Staged(X)

(* classify_creations: no lock file, or a lock nobody holds                *)
Stale(X) == {b \in Staged(X) : ~LockHeld(b)}

(* prepare_recovery: stale space creations, removals that did not finish,  *)
(* and what an earlier recovery left in the trash.                         *)
RecoverBegin ==
    /\ rpc = "begin"
    /\ management = Free
    /\ management' = Recoverer
    /\ found' = Stale(Spaces) \cup {b \in Spaces : place[b] = "retired"}
                \cup {b \in Builders : place[b] = "trash"}
    /\ rpc' = "spaces"
    /\ UNCHANGED <<treeVars, pc, handle, mpc, probed, reclaiming>>

Retirable(b) == place[b] \in {"staging", "retired", "trash"}

(* Each entry is renamed to .reclaiming-* in the trash.  For a space an    *)
(* entry that is gone by now is skipped.                                   *)
RetireFound(b) ==
    /\ rpc \in {"spaces", "artifacts"}
    /\ b \in found
    /\ rpc = "artifacts" => Retirable(b)
    /\ found' = found \ {b}
    /\ IF Retirable(b)
       THEN /\ place' = [place EXCEPT ![b] = "trash"]
            /\ reclaiming' = reclaiming \cup {b}
       ELSE UNCHANGED <<place, reclaiming>>
    /\ UNCHANGED <<lockFile, complete, faithful, label, temp, management, pc,
                   handle, mpc, rpc, probed>>

(* Mutant: manifest temporaries are counted and left in place.             *)
ArtifactRecoveryKeepsTemps ==
    /\ rpc = "spaces"
    /\ found = {}
    /\ found' = Stale(Artifacts) \cup {a \in Artifacts : place[a] = "retired"}
    /\ rpc' = "artifacts"
    /\ UNCHANGED <<treeVars, management, pc, handle, mpc, probed, reclaiming>>

(* prepare_artifact_recovery removes the manifest temporaries of published *)
(* artifacts, then retires stale creations and unfinished removals.        *)
ArtifactRecovery ==
    /\ rpc = "spaces"
    /\ found = {}
    /\ temp' = {a \in temp : place[a] # "visible"}
    /\ found' = Stale(Artifacts) \cup {a \in Artifacts : place[a] = "retired"}
    /\ rpc' = "artifacts"
    /\ UNCHANGED <<place, lockFile, complete, faithful, label, management, pc,
                   handle, mpc, probed, reclaiming>>

(* For an artifact an entry that is gone by now is an error.               *)
RecoverFails ==
    /\ rpc = "artifacts"
    /\ \E a \in found : ~Retirable(a)
    /\ management' = Free
    /\ found' = {}
    /\ reclaiming' = {}
    /\ rpc' = "idle"
    /\ UNCHANGED <<treeVars, pc, handle, mpc, probed>>

RecoverPrepared ==
    /\ rpc = "artifacts"
    /\ found = {}
    /\ management' = Free
    /\ rpc' = "delete"
    /\ UNCHANGED <<treeVars, pc, handle, mpc, probed, found, reclaiming>>

RecoverDelete(b) ==
    /\ rpc = "delete"
    /\ b \in reclaiming
    /\ place' = [place EXCEPT ![b] = "gone"]
    /\ complete' = complete \ {b}
    /\ lockFile' = lockFile \ {b}
    /\ temp' = temp \ {b}
    /\ reclaiming' = reclaiming \ {b}
    /\ UNCHANGED <<faithful, label, management, pc, handle, mpc, rpc, probed, found>>

RecoverEnd ==
    /\ rpc = "delete"
    /\ reclaiming = {}
    /\ rpc' = "idle"
    /\ UNCHANGED <<treeVars, management, pc, handle, mpc, probed, found, reclaiming>>

RecoverInterrupted ==
    /\ rpc # "idle"
    /\ rpc = "artifacts" => \A a \in found : Retirable(a)
    /\ rpc = "delete" => reclaiming # {}
    /\ Release(Recoverer)
    /\ probed' = {}
    /\ found' = {}
    /\ reclaiming' = {}
    /\ rpc' = "idle"
    /\ UNCHANGED <<treeVars, pc, handle, mpc>>

RecoverWorks ==
    \/ RecoverProbe \/ RecoverProbed \/ RecoverBegin \/ ArtifactRecovery
    \/ RecoverFails \/ RecoverPrepared \/ RecoverEnd
    \/ \E b \in Builders : RetireFound(b) \/ RecoverDelete(b)

-----------------------------------------------------------------------------
Next ==
    \/ \E b \in Builders : BuilderStep(b)
    \/ \E m \in Mutators : MutatorStep(m)
    \/ RecoverWorks \/ RecoverInterrupted

Spec == Init /\ [][Next]_vars

-----------------------------------------------------------------------------
(* Recovery never takes the directory of a builder that still works in it, *)
(* although it decides by a lock file that the builder itself removes.     *)
LiveStagingKept == \A b \in Builders : pc[b] \in Live => place[b] = "staging"

(* What is published is whole and not marked as unfinished: neither the    *)
(* cleanup after a late failure nor recovery touches it.                   *)
PublishedIntact ==
    \A b \in Builders : place[b] = "visible" => b \in complete \ lockFile

(* No two published artifacts have one name, although a name is checked    *)
(* when staging begins, long before it is taken.                           *)
ArtifactNamesUnique ==
    \A a, b \in Artifacts :
        place[a] = "visible" /\ place[b] = "visible" /\ label[a] = label[b] => a = b

(* What is visible in the store is whole and its name is its own, whatever *)
(* failed, died or was recovered meanwhile.                                *)
PublishedSound == TypeOK /\ PublishedIntact /\ ArtifactNamesUnique

(* A space made from a template is a copy of that template as it was       *)
(* verified, although the template may be removed, renamed or succeeded by *)
(* another one of its name while it is copied.                             *)
TemplateUseFaithful ==
    \A b \in Builders : Kind[b] = "use" /\ place[b] = "visible" => b \in faithful

-----------------------------------------------------------------------------
(* A process that has begun goes on or dies; `quarters recover` is run     *)
(* again and again, and in the end without being interrupted.              *)
Fairness ==
    /\ WF_vars(RecoverWorks)
    /\ <>[][~RecoverInterrupted]_vars
    /\ \A b \in Builders : WF_vars(pc[b] # "idle" /\ BuilderStep(b))
    /\ \A m \in Mutators : WF_vars(mpc[m] # "idle" /\ MutatorStep(m))

LiveSpec == Spec /\ Fairness

(* Whatever a builder, a removal or an earlier recovery leaves behind is   *)
(* reclaimed in the end, and so is the manifest temporary that would block *)
(* every later rename of its artifact.                                     *)
Leftover(b) == place[b] \in {"staging", "retired", "trash"} \/ b \in temp
LeftoversReclaimed == \A b \in Builders : Leftover(b) ~> ~Leftover(b)
=============================================================================
