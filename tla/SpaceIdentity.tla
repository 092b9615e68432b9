---------------------------- MODULE SpaceIdentity ----------------------------
(***************************************************************************)
(* A space's display name and stable identity: rename_space with its       *)
(* durable marker and recovery (store/rename.rs), and upgrade_space, which *)
(* gives a legacy space its identity (store/upgrade.rs).  One action per   *)
(* durable filesystem step.                                                *)
(*                                                                         *)
(* A space is known here by its directory generation, which keeps its      *)
(* identity through every rename; its path and its manifest say what it is *)
(* called, and they disagree while a rename is half done.                  *)
(***************************************************************************)
EXTENDS Naturals

CONSTANTS
    Names,      \* visible paths under spaces/
    Spaces,     \* directory generations
    Txs,        \* `quarters rename` invocations, by transaction ID
    Sessions,   \* supervised processes
    From, To,   \* the two names of each rename invocation
    Entered,    \* the name each session is started with
    Placed,     \* where the initial spaces are
    Legacy,     \* initial spaces without a stable identity
    None,       \* no directory
    Recoverer,  \* the `quarters recover` invocation
    Upgrader,   \* the `quarters upgrade` invocation
    Free        \* the management lock is not held

ASSUME IdentityAssumption ==
    /\ From \in [Txs -> Names]
    /\ To \in [Txs -> Names]
    /\ \A t \in Txs : From[t] # To[t]          \* validate_distinct_names
    /\ Entered \in [Sessions -> Names]
    /\ Placed \in [Names -> Spaces \cup {None}]
    /\ \A m, n \in Names : Placed[m] = Placed[n] /\ Placed[m] # None => m = n
    /\ Legacy \in SUBSET Spaces
    /\ None \notin Spaces \cup Names
    /\ Sessions \cap Txs = {}
    /\ {Recoverer, Upgrader, Free} \cap (Txs \cup Sessions) = {}
    /\ Recoverer # Upgrader /\ Recoverer # Free /\ Upgrader # Free

VARIABLES
    dir,        \* the space at each visible path
    label,      \* the name in each space's manifest
    stable,     \* spaces whose manifest has a stable ID
    renameTemp, \* spaces that contain .quarters-rename.tmp
    upgradeTemp,\* spaces that contain .quarters-upgrade.tmp
    marker,     \* .rename-<tx>.json: "none", "torn" or "valid"
    bound,      \* the identity in each marker
    management, \* holder of the management lock
    activity,   \* the space whose `.active` lock a process holds
    pc,         \* rename invocations
    upc, uname, \* the upgrade invocation and the name it upgrades
    rpc, rtx, visited,  \* the recovery, its marker, the markers seen
    spc         \* sessions

diskVars == <<dir, label, stable, renameTemp, upgradeTemp, marker, bound>>
lockVars == <<management, activity>>
upgradeVars == <<upc, uname>>
recVars == <<rpc, rtx, visited>>
vars == <<diskVars, lockVars, pc, upgradeVars, recVars, spc>>

Holders == Txs \cup Sessions \cup {Upgrader}
Applying == {"cleanup", "temp", "relabel", "unmark"}

TypeOK ==
    /\ dir \in [Names -> Spaces \cup {None}]
    /\ label \in [Spaces -> Names \cup {None}]
    /\ stable \in SUBSET Spaces
    /\ renameTemp \in SUBSET Spaces
    /\ upgradeTemp \in SUBSET Spaces
    /\ marker \in [Txs -> {"none", "torn", "valid"}]
    /\ bound \in [Txs -> Spaces \cup {None}]
    /\ management \in Txs \cup {Recoverer, Upgrader, Free}
    /\ activity \in [Holders -> Spaces \cup {None}]
    /\ pc \in [Txs -> {"idle", "mark", "write", "move", "temp",
                       "relabel", "unmark", "done"}]
    /\ upc \in {"idle", "temp", "replace"}
    /\ uname \in Names \cup {None}
    /\ rpc \in {"idle", "scan"} \cup Applying
    /\ rtx \in Txs \cup {None}
    /\ visited \in SUBSET Txs
    /\ spc \in [Sessions -> {"closed", "opened", "running"}]

PlacedSpaces == {Placed[n] : n \in Names} \ {None}

Init ==
    /\ dir = Placed
    /\ label = [d \in Spaces |->
                  IF d \in PlacedSpaces THEN CHOOSE n \in Names : Placed[n] = d
                  ELSE None]
    /\ stable = PlacedSpaces \ Legacy
    /\ renameTemp = {}
    /\ upgradeTemp = {}
    /\ marker = [t \in Txs |-> "none"]
    /\ bound = [t \in Txs |-> None]
    /\ management = Free
    /\ activity = [p \in Holders |-> None]
    /\ pc = [t \in Txs |-> "idle"]
    /\ upc = "idle"
    /\ uname = None
    /\ rpc = "idle"
    /\ rtx = None
    /\ visited = {}
    /\ spc = [s \in Sessions |-> "closed"]

-----------------------------------------------------------------------------
(* Mutant: only the old name is compared with the markers.                 *)
ReservesOldName(n) == \E t \in Txs : marker[t] = "valid" /\ n = From[t]

(* rename_target_exists: a valid marker reserves both of its names; a torn *)
(* one is skipped.                                                         *)
Reserved(n) == \E t \in Txs : marker[t] = "valid" /\ n \in {From[t], To[t]}

(* Store::open: not reserved, present, and the manifest names the path.    *)
CanOpen(n) ==
    /\ ~Reserved(n)
    /\ dir[n] # None
    /\ label[dir[n]] = n

Exclusives == Txs \cup {Upgrader}

(* Mutant: lifecycle operations are excluded, sessions are not.            *)
UnlockedByLifecycle(d) == \A p \in Exclusives : activity[p] # d

Unlocked(d) == \A p \in Holders : activity[p] # d

NotExclusive(d) == \A p \in Exclusives : activity[p] # d

(* reject_legacy, reject_destination                                       *)
Renamable(t) == dir[From[t]] \in stable /\ dir[To[t]] = None

-----------------------------------------------------------------------------
(***************************************************************************)
(* rename_space, under the management lock and the exclusive lease from    *)
(* its first check to its last step.                                       *)
(***************************************************************************)
BeginRename(t) ==
    LET d == dir[From[t]] IN
    /\ pc[t] = "idle"
    /\ management = Free
    /\ CanOpen(From[t])
    /\ ~Reserved(To[t])
    /\ Renamable(t)
    /\ Unlocked(d)
    /\ management' = t
    /\ activity' = [activity EXCEPT ![t] = d]
    /\ pc' = [pc EXCEPT ![t] = "mark"]
    /\ UNCHANGED <<diskVars, upgradeVars, recVars, spc>>

(* write_marker creates the file at its final name and then writes it.     *)
CreateMarker(t) ==
    /\ pc[t] = "mark"
    /\ marker' = [marker EXCEPT ![t] = "torn"]
    /\ pc' = [pc EXCEPT ![t] = "write"]
    /\ UNCHANGED <<dir, label, stable, renameTemp, upgradeTemp, bound,
                   lockVars, upgradeVars, recVars, spc>>

WriteMarker(t) ==
    /\ pc[t] = "write"
    /\ marker' = [marker EXCEPT ![t] = "valid"]
    /\ bound' = [bound EXCEPT ![t] = dir[From[t]]]
    /\ pc' = [pc EXCEPT ![t] = "move"]
    /\ UNCHANGED <<dir, label, stable, renameTemp, upgradeTemp,
                   lockVars, upgradeVars, recVars, spc>>

MoveDirectory(t) ==
    /\ pc[t] = "move"
    /\ dir[To[t]] = None
    /\ dir' = [dir EXCEPT ![To[t]] = dir[From[t]], ![From[t]] = None]
    /\ pc' = [pc EXCEPT ![t] = "temp"]
    /\ UNCHANGED <<label, stable, renameTemp, upgradeTemp, marker,
                   bound, lockVars, upgradeVars, recVars, spc>>

Release(p) ==
    /\ management' = IF management = p THEN Free ELSE management
    /\ activity' = [activity EXCEPT ![p] = None]

(* A failed move removes the marker (and ignores a failure to do so, which *)
(* is then the same as an interruption).                                   *)
MoveFails(t) ==
    /\ pc[t] = "move"
    /\ marker' = [marker EXCEPT ![t] = "none"]
    /\ pc' = [pc EXCEPT ![t] = "done"]
    /\ Release(t)
    /\ UNCHANGED <<dir, label, stable, renameTemp, upgradeTemp, bound,
                   upgradeVars, recVars, spc>>

(* complete_moved_rename: the moved space must still carry its old name;   *)
(* replace_manifest creates its temporary exclusively, then renames it.    *)
CanComplete(t) ==
    LET d == dir[To[t]] IN
    d # None /\ d = bound[t] /\ label[d] = From[t] /\ d \notin renameTemp

WriteRenameTemp(t) ==
    /\ pc[t] = "temp"
    /\ CanComplete(t)
    /\ renameTemp' = renameTemp \cup {dir[To[t]]}
    /\ pc' = [pc EXCEPT ![t] = "relabel"]
    /\ UNCHANGED <<dir, label, stable, upgradeTemp, marker, bound,
                   lockVars, upgradeVars, recVars, spc>>

ReplaceLabel(t) ==
    /\ pc[t] = "relabel"
    /\ label' = [label EXCEPT ![dir[To[t]]] = To[t]]
    /\ renameTemp' = renameTemp \ {dir[To[t]]}
    /\ pc' = [pc EXCEPT ![t] = "unmark"]
    /\ UNCHANGED <<dir, stable, upgradeTemp, marker, bound, lockVars,
                   upgradeVars, recVars, spc>>

RemoveMarker(t) ==
    /\ pc[t] = "unmark"
    /\ marker' = [marker EXCEPT ![t] = "none"]
    /\ pc' = [pc EXCEPT ![t] = "done"]
    /\ Release(t)
    /\ UNCHANGED <<dir, label, stable, renameTemp, upgradeTemp, bound,
                   upgradeVars, recVars, spc>>

(* An I/O error or a crash at any point: the locks go, the files stay.     *)
RenameInterrupted(t) ==
    /\ pc[t] \notin {"idle", "done"}
    /\ pc' = [pc EXCEPT ![t] = "done"]
    /\ Release(t)
    /\ UNCHANGED <<diskVars, upgradeVars, recVars, spc>>

RenameStep(t) ==
    \/ BeginRename(t)
    \/ CreateMarker(t)
    \/ WriteMarker(t)
    \/ MoveDirectory(t)
    \/ WriteRenameTemp(t)
    \/ ReplaceLabel(t)
    \/ RemoveMarker(t)

-----------------------------------------------------------------------------
(***************************************************************************)
(* recover_renames: each valid marker once, under the management lock; one *)
(* that fails is counted and retained, and the others are still visited.   *)
(***************************************************************************)
RecoverBegin ==
    /\ rpc = "idle"
    /\ management = Free
    /\ management' = Recoverer
    /\ rpc' = "scan"
    /\ visited' = {}
    /\ UNCHANGED <<diskVars, activity, pc, upgradeVars, rtx, spc>>

(* recover_one: where the two paths send a marker.                         *)
NotMoved(t) ==
    LET d == dir[From[t]] IN
    dir[To[t]] = None /\ d # None /\ label[d] = From[t] /\ d = bound[t]

Moved(t) ==
    LET d == dir[To[t]] IN
    dir[From[t]] = None /\ d # None /\ label[d] \in {From[t], To[t]} /\ d = bound[t]

Relabelled(t) == Moved(t) /\ label[dir[To[t]]] = To[t]

(* Mutant: a moved directory is taken to be a finished rename.             *)
RowTrustsMove(t) ==
    IF NotMoved(t) \/ Moved(t) THEN "unmark" ELSE "scan"

(* The rows of recover_one: settled markers only have to go, a moved space *)
(* is completed first, and an ambiguous pair of paths is an error: the     *)
(* marker is retained and the scan goes on.                                *)
Row(t) ==
    CASE NotMoved(t) \/ Relabelled(t) -> "unmark"
      [] Moved(t) /\ ~Relabelled(t)   -> "cleanup"
      [] OTHER                        -> "scan"

RecoverOne(t) ==
    /\ rpc = "scan"
    /\ marker[t] = "valid"
    /\ t \notin visited
    /\ rtx' = t
    /\ rpc' = Row(t)
    /\ visited' = IF Row(t) = "scan" THEN visited \cup {t} ELSE visited
    /\ UNCHANGED <<diskVars, lockVars, pc, upgradeVars, spc>>

(* Mutant: recovery does not look for the interrupted attempt's temporary. *)
CleanupNothing ==
    /\ rpc = "cleanup"
    /\ rpc' = "temp"
    /\ UNCHANGED <<diskVars, lockVars, pc, upgradeVars, rtx, visited, spc>>

(* cleanup_manifest_temporary                                              *)
CleanupTemp ==
    /\ rpc = "cleanup"
    /\ renameTemp' = renameTemp \ {dir[To[rtx]]}
    /\ rpc' = "temp"
    /\ UNCHANGED <<dir, label, stable, upgradeTemp, marker, bound, lockVars, pc,
                   upgradeVars, rtx, visited, spc>>

RecoverTemp ==
    /\ rpc = "temp"
    /\ CanComplete(rtx)
    /\ renameTemp' = renameTemp \cup {dir[To[rtx]]}
    /\ rpc' = "relabel"
    /\ UNCHANGED <<dir, label, stable, upgradeTemp, marker, bound, lockVars, pc,
                   upgradeVars, rtx, visited, spc>>

RecoverLabel ==
    /\ rpc = "relabel"
    /\ label' = [label EXCEPT ![dir[To[rtx]]] = To[rtx]]
    /\ renameTemp' = renameTemp \ {dir[To[rtx]]}
    /\ rpc' = "unmark"
    /\ UNCHANGED <<dir, stable, upgradeTemp, marker, bound, lockVars, pc,
                   upgradeVars, rtx, visited, spc>>

RecoverUnmark ==
    /\ rpc = "unmark"
    /\ marker' = [marker EXCEPT ![rtx] = "none"]
    /\ visited' = visited \cup {rtx}
    /\ rpc' = "scan"
    /\ UNCHANGED <<dir, label, stable, renameTemp, upgradeTemp, bound, lockVars,
                   pc, upgradeVars, rtx, spc>>

(* recover_one fails with an I/O error: the scan goes on.                  *)
RecoverOneFails ==
    /\ rpc \in Applying
    /\ visited' = visited \cup {rtx}
    /\ rpc' = "scan"
    /\ UNCHANGED <<diskVars, lockVars, pc, upgradeVars, rtx, spc>>

AllVisited == \A t \in Txs : marker[t] = "valid" => t \in visited

RecoverEnd ==
    /\ rpc = "scan"
    /\ AllVisited
    /\ management' = Free
    /\ rpc' = "idle"
    /\ UNCHANGED <<diskVars, activity, pc, upgradeVars, rtx, visited, spc>>

(* A crash of the recovery.  (At the end of the scan it is RecoverEnd, so  *)
(* that Fairness can tell an interruption from an end.)                    *)
RecoverInterrupted ==
    /\ rpc # "idle"
    /\ rpc = "scan" => ~AllVisited
    /\ management' = Free
    /\ rpc' = "idle"
    /\ UNCHANGED <<diskVars, activity, pc, upgradeVars, rtx, visited, spc>>

RecoverStep ==
    \/ \E t \in Txs : RecoverOne(t)
    \/ CleanupTemp
    \/ RecoverTemp
    \/ RecoverLabel
    \/ RecoverUnmark
    \/ RecoverEnd

-----------------------------------------------------------------------------
(***************************************************************************)
(* upgrade_space, under both locks.  A space that has its identity already *)
(* only has its runtime directory re-keyed, which is not modelled.         *)
(***************************************************************************)
UpgradeBegin(n) ==
    /\ upc = "idle"
    /\ management = Free
    /\ CanOpen(n)
    /\ dir[n] \notin stable
    /\ Unlocked(dir[n])
    /\ management' = Upgrader
    /\ activity' = [activity EXCEPT ![Upgrader] = dir[n]]
    /\ uname' = n
    /\ upc' = "temp"
    /\ UNCHANGED <<diskVars, pc, recVars, spc>>

(* replace_manifest: write_private_file opens the temporary create_new.    *)
UpgradeWriteTemp ==
    /\ upc = "temp"
    /\ dir[uname] \notin upgradeTemp
    /\ upgradeTemp' = upgradeTemp \cup {dir[uname]}
    /\ upc' = "replace"
    /\ UNCHANGED <<dir, label, stable, renameTemp, marker, bound, lockVars, pc,
                   uname, recVars, spc>>

UpgradeReturns ==
    /\ upc' = "idle"
    /\ uname' = None
    /\ Release(Upgrader)

(* create_new fails on a temporary that an interrupted upgrade left.       *)
UpgradeTempExists ==
    /\ upc = "temp"
    /\ dir[uname] \in upgradeTemp
    /\ UpgradeReturns
    /\ UNCHANGED <<diskVars, pc, recVars, spc>>

UpgradeReplace ==
    /\ upc = "replace"
    /\ stable' = stable \cup {dir[uname]}
    /\ upgradeTemp' = upgradeTemp \ {dir[uname]}
    /\ UpgradeReturns
    /\ UNCHANGED <<dir, label, renameTemp, marker, bound, pc, recVars, spc>>

(* An I/O error or a crash (the failure above is an action of its own).    *)
UpgradeInterrupted ==
    /\ upc # "idle"
    /\ upc = "temp" => dir[uname] \notin upgradeTemp
    /\ UpgradeReturns
    /\ UNCHANGED <<diskVars, pc, recVars, spc>>

UpgradeStep == UpgradeWriteTemp \/ UpgradeTempExists \/ UpgradeReplace

-----------------------------------------------------------------------------
(***************************************************************************)
(* The other users of names: creation publishes a complete new space at an *)
(* absent, unreserved path; removal takes an inactive one away; sessions   *)
(* open a space and lease what its path names later.                       *)
(***************************************************************************)
Create(n, d) ==
    /\ management = Free
    /\ ~Reserved(n)
    /\ dir[n] = None
    /\ label[d] = None
    /\ dir' = [dir EXCEPT ![n] = d]
    /\ label' = [label EXCEPT ![d] = n]
    /\ stable' = stable \cup {d}
    /\ UNCHANGED <<renameTemp, upgradeTemp, marker, bound, lockVars, pc,
                   upgradeVars, recVars, spc>>

Remove(n) ==
    /\ management = Free
    /\ CanOpen(n)
    /\ Unlocked(dir[n])
    /\ dir' = [dir EXCEPT ![n] = None]
    /\ UNCHANGED <<label, stable, renameTemp, upgradeTemp, marker, bound,
                   lockVars, pc, upgradeVars, recVars, spc>>

OpenSpace(s) ==
    /\ spc[s] = "closed"
    /\ CanOpen(Entered[s])
    /\ spc' = [spc EXCEPT ![s] = "opened"]
    /\ UNCHANGED <<diskVars, lockVars, pc, upgradeVars, recVars>>

Lease(s) ==
    LET d == dir[Entered[s]] IN
    /\ spc[s] = "opened"
    /\ management = Free
    /\ d # None
    /\ NotExclusive(d)
    /\ activity' = [activity EXCEPT ![s] = d]
    /\ spc' = [spc EXCEPT ![s] = "running"]
    /\ UNCHANGED <<diskVars, management, pc, upgradeVars, recVars>>

Close(s) ==
    /\ spc[s] # "closed"
    /\ activity' = [activity EXCEPT ![s] = None]
    /\ spc' = [spc EXCEPT ![s] = "closed"]
    /\ UNCHANGED <<diskVars, management, pc, upgradeVars, recVars>>

-----------------------------------------------------------------------------
Next ==
    \/ \E t \in Txs : RenameStep(t) \/ MoveFails(t) \/ RenameInterrupted(t)
    \/ RecoverBegin
    \/ RecoverStep
    \/ RecoverOneFails
    \/ RecoverInterrupted
    \/ \E n \in Names : UpgradeBegin(n)
    \/ UpgradeStep
    \/ UpgradeInterrupted
    \/ \E n \in Names, d \in Spaces : Create(n, d)
    \/ \E n \in Names : Remove(n)
    \/ \E s \in Sessions : OpenSpace(s) \/ Lease(s) \/ Close(s)

Spec == Init /\ [][Next]_vars

-----------------------------------------------------------------------------
(* Wherever a rename or an earlier recovery stopped, the manifest of every *)
(* space names its path, or one durable marker explains why it does not.   *)
NamedOrMarked ==
    \A n \in Names : dir[n] # None =>
        \/ label[dir[n]] = n
        \/ \E t \in Txs : marker[t] = "valid" /\ Moved(t) /\ To[t] = n

(* Every valid marker can be recovered: no creation, removal or second     *)
(* rename takes one of its names or its space meanwhile, so recover_one    *)
(* never meets "ambiguous source and destination state".                   *)
MarkersRecoverable ==
    \A t \in Txs : marker[t] = "valid" => NotMoved(t) \/ Moved(t)

(* A manifest temporary that would make replace_manifest fail exists only  *)
(* while a valid marker leads recovery to it: none outlives its rename.    *)
TempsHaveMarkers ==
    \A d \in renameTemp :
        \E t \in Txs : marker[t] = "valid" /\ Moved(t) /\ ~Relabelled(t) /\ bound[t] = d

(* What renames and upgrades leave at any instant can be recovered: one    *)
(* row of recover_one applies to every marker, and a temporary is found by *)
(* its marker.                                                             *)
RecoverySound == TypeOK /\ MarkersRecoverable /\ TempsHaveMarkers

(* A leased space stays where its session runs: no rename, recovery,       *)
(* removal or upgrade moves it, and no other process has it exclusively.   *)
LeaseCoversSpace ==
    \A s \in Sessions : spc[s] = "running" =>
        /\ dir[Entered[s]] = activity[s]
        /\ NotExclusive(activity[s])

(* Invocations that are not interrupted run on; the operator repeats       *)
(* `recover` and `upgrade`, and from some time on nothing is interrupted.  *)
Fairness ==
    /\ \A t \in Txs : WF_vars(RenameStep(t))
    /\ SF_vars(RecoverBegin)
    /\ WF_vars(RecoverStep)
    /\ \A n \in Names : SF_vars(UpgradeBegin(n))
    /\ WF_vars(UpgradeStep)
    /\ \A s \in Sessions : WF_vars(Close(s))
    /\ <>[][~(RecoverInterrupted \/ RecoverOneFails \/ UpgradeInterrupted)]_vars

LiveSpec == Spec /\ Fairness

(* A name reserved by an interrupted rename is released by recovery.       *)
ReservedNamesReturn == \A n \in Names : Reserved(n) ~> ~Reserved(n)

(* "An interrupted upgrade can therefore resume without guessing"          *)
(* (ADR-0006): repeated, it gives a legacy space its identity, unless the  *)
(* space is removed.                                                       *)
Exists(d) == \E n \in Names : dir[n] = d
UpgradeResumes == \A d \in Spaces : (d \notin stable /\ Exists(d)) ~> (d \in stable \/ ~Exists(d))
=============================================================================
