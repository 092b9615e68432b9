----------------------------- MODULE SpaceFreeze -----------------------------
(***************************************************************************)
(* Cooperative freeze (store/freeze.rs) among the operations it refuses    *)
(* and the ones it serves: launches, which open a space and lease it later *)
(* (store.rs), rollback and artifact capture, which release the management *)
(* lock between their preparation and their publication                    *)
(* (store/artifact), and rename, upgrade, removal and creation, which hold *)
(* it throughout.                                                          *)
(*                                                                         *)
(* One action is one section under the management lock; SpaceIdentity and  *)
(* Rollback take the multi-step ones apart.  A space is its stable         *)
(* identity, which renames and rollbacks preserve.                         *)
(***************************************************************************)
EXTENDS Naturals

CONSTANTS
    Names,      \* visible paths under spaces/
    Spaces,     \* space identities
    Sessions,   \* enter, exec and private-agent starts
    Jobs,       \* rollbacks and artifact captures, each run once
    Placed,     \* where the initial spaces are
    Legacy,     \* initial spaces without a stable identity
    MaxWrites,  \* bound: writes by sessions to one space
    None        \* no space, no handle, no job

ASSUME FreezeAssumption ==
    /\ Placed \in [Names -> Spaces \cup {None}]
    /\ \A m, n \in Names : Placed[m] = Placed[n] /\ Placed[m] # None => m = n
    /\ Legacy \in SUBSET Spaces
    /\ None \notin Spaces \cup Names
    /\ Sessions \cap Jobs = {}
    /\ MaxWrites \in Nat

VARIABLES
    dir,        \* the space at each visible path
    unused,     \* identities not generated yet
    stable,     \* spaces whose manifest has the stable ID
    frozen,     \* stable IDs with a .freeze-<id>.json marker
    generation, \* rollbacks published into each space
    writes,     \* writes by sessions to each space
    handle,     \* the Space value each session opened
    activity,   \* the space whose `.active` lock a session or job holds
    job,        \* what each job has prepared
    over,       \* jobs that have ended
    early,      \* history: sessions open when each marker was written
    base        \* history: the generation each marker was written over

spaceVars == <<dir, unused, stable, generation, writes>>
jobVars == <<job, over>>
procVars == <<handle, activity, jobVars>>
sinceVars == <<early, base>>
freezeVars == <<frozen, sinceVars>>
vars == <<spaceVars, freezeVars, procVars>>

Handles == [name : Names, id : Spaces \cup {None}]
Kinds == {"rollback", "inactive", "frozenActive"}
Prepared == [kind : Kinds, name : Names, space : Spaces,
             generation : Nat, writes : Nat]

TypeOK ==
    /\ dir \in [Names -> Spaces \cup {None}]
    /\ unused \in SUBSET Spaces
    /\ stable \in SUBSET Spaces
    /\ frozen \in SUBSET stable
    /\ generation \in [Spaces -> Nat]
    /\ writes \in [Spaces -> 0 .. MaxWrites]
    /\ handle \in [Sessions -> Handles \cup {None}]
    /\ activity \in [Sessions \cup Jobs -> Spaces \cup {None}]
    /\ job \in [Jobs -> Prepared \cup {None}]
    /\ over \in SUBSET Jobs
    /\ early \in [Spaces -> SUBSET Sessions]
    /\ base \in [Spaces -> Nat]

PlacedSpaces == {Placed[n] : n \in Names} \ {None}

Init ==
    /\ dir = Placed
    /\ unused = Spaces \ PlacedSpaces
    /\ stable = PlacedSpaces \ Legacy
    /\ frozen = {}
    /\ generation = [d \in Spaces |-> 0]
    /\ writes = [d \in Spaces |-> 0]
    /\ handle = [s \in Sessions |-> None]
    /\ activity = [p \in Sessions \cup Jobs |-> None]
    /\ job = [j \in Jobs |-> None]
    /\ over = {}
    /\ early = [d \in Spaces |-> {}]
    /\ base = [d \in Spaces |-> 0]

-----------------------------------------------------------------------------
(* The `.active` lock: rollback and inactive capture hold it exclusively,  *)
(* sessions and active capture share it.                                   *)
Exclusive(j) == job[j] # None /\ job[j].kind # "frozenActive"

Shareable(d) == \A j \in Jobs : Exclusive(j) => activity[j] # d

(* Mutant: the lifecycle lease excludes other lifecycle operations only.   *)
FreeOfJobs(d) == \A j \in Jobs : activity[j] # d

Unleased(d) == \A p \in Sessions \cup Jobs : activity[p] # d

(* ensure_not_frozen looks for the marker of the identity the handle has;  *)
(* a legacy handle has none.                                               *)
NotFrozen(id) == id = None \/ id \notin frozen

IdOf(d) == IF d \in stable THEN d ELSE None

-----------------------------------------------------------------------------
(* A valid marker that is already there is left as it is.                  *)
Freeze(n) ==
    LET d == dir[n] IN
    /\ d \in stable
    /\ frozen' = frozen \cup {d}
    /\ IF d \in frozen
       THEN UNCHANGED sinceVars
       ELSE /\ early' = [early EXCEPT ![d] = {s \in Sessions : handle[s] # None}]
            /\ base' = [base EXCEPT ![d] = generation[d]]
    /\ UNCHANGED <<spaceVars, procVars>>

Unfreeze(n) ==
    LET d == dir[n] IN
    /\ d \in stable
    /\ frozen' = frozen \ {d}
    /\ early' = [early EXCEPT ![d] = {}]
    /\ base' = [base EXCEPT ![d] = 0]
    /\ UNCHANGED <<spaceVars, procVars>>

(* Store::open, without any lock; the session keeps the path and the       *)
(* identity it read.                                                       *)
Open(s, n) ==
    /\ handle[s] = None
    /\ dir[n] # None
    /\ handle' = [handle EXCEPT ![s] = [name |-> n, id |-> IdOf(dir[n])]]
    /\ UNCHANGED <<spaceVars, freezeVars, activity, jobVars>>

(* Store::lease: the freeze of the opened identity, the lock of whatever   *)
(* the path names now.                                                     *)
Lease(s) ==
    /\ handle[s] # None
    /\ activity[s] = None
    /\ NotFrozen(handle[s].id)
    /\ dir[handle[s].name] # None
    /\ Shareable(dir[handle[s].name])
    /\ activity' = [activity EXCEPT ![s] = dir[handle[s].name]]
    /\ UNCHANGED <<spaceVars, freezeVars, handle, jobVars>>

Write(s) ==
    LET d == activity[s] IN
    /\ d # None
    /\ writes[d] < MaxWrites
    /\ writes' = [writes EXCEPT ![d] = @ + 1]
    /\ UNCHANGED <<dir, unused, stable, generation, freezeVars, procVars>>

(* Exit, a refused lease and a crash are one step to everyone else.        *)
Close(s) ==
    /\ handle[s] # None
    /\ handle' = [handle EXCEPT ![s] = None]
    /\ activity' = [activity EXCEPT ![s] = None]
    /\ early' = [d \in Spaces |-> early[d] \ {s}]
    /\ UNCHANGED <<spaceVars, frozen, base, jobVars>>

-----------------------------------------------------------------------------
Begin(j, n, kind) ==
    LET d == dir[n] IN
    /\ job[j] = None /\ j \notin over
    /\ d # None
    /\ activity' = [activity EXCEPT ![j] = d]
    /\ job' = [job EXCEPT ![j] = [kind |-> kind, name |-> n, space |-> d,
                                  generation |-> generation[d], writes |-> writes[d]]]
    /\ UNCHANGED <<spaceVars, freezeVars, handle, over>>

End(j) ==
    /\ activity' = [activity EXCEPT ![j] = None]
    /\ job' = [job EXCEPT ![j] = None]
    /\ over' = over \cup {j}

(* Mutant: the exclusive lease is taken to be all a rollback needs.        *)
PrepareRollbackFrozen(j, n) ==
    /\ dir[n] # None
    /\ Unleased(dir[n])
    /\ Begin(j, n, "rollback")

(* prepare_rollback                                                        *)
PrepareRollback(j, n) ==
    /\ dir[n] # None
    /\ NotFrozen(IdOf(dir[n]))
    /\ Unleased(dir[n])
    /\ Begin(j, n, "rollback")

(* publish_rollback, after revalidate_publication.                         *)
PublishRollback(j) ==
    /\ job[j] # None
    /\ job[j].kind = "rollback"
    /\ dir[job[j].name] = job[j].space
    /\ generation' = [generation EXCEPT ![job[j].space] = @ + 1]
    /\ End(j)
    /\ UNCHANGED <<dir, unused, stable, writes, freezeVars, handle>>

(* ArtifactSetup::prepare; a frozen source may be captured.                *)
PrepareCapture(j, n) ==
    /\ dir[n] # None
    /\ Unleased(dir[n])
    /\ Begin(j, n, "inactive")

(* ArtifactSetup::prepare_active: frozen, a lease already held, and a      *)
(* shared one of its own.                                                  *)
PrepareActive(j, n) ==
    /\ dir[n] \in frozen
    /\ ~Unleased(dir[n])
    /\ Shareable(dir[n])
    /\ Begin(j, n, "frozenActive")

(* publish_artifact: the source still has its manifest, and active capture *)
(* finds the freeze still (or again) there.                                *)
PublishArtifact(j) ==
    /\ job[j] # None
    /\ job[j].kind # "rollback"
    /\ dir[job[j].name] = job[j].space
    /\ job[j].kind = "frozenActive" => job[j].space \in frozen
    /\ End(j)
    /\ UNCHANGED <<spaceVars, freezeVars, handle>>

(* Any failure or crash between the two sections.                          *)
Abandon(j) ==
    /\ job[j] # None
    /\ End(j)
    /\ UNCHANGED <<spaceVars, freezeVars, handle>>

-----------------------------------------------------------------------------
Rename(m, n) ==
    /\ dir[m] \in stable
    /\ NotFrozen(dir[m])
    /\ dir[n] = None
    /\ Unleased(dir[m])
    /\ dir' = [dir EXCEPT ![n] = dir[m], ![m] = None]
    /\ UNCHANGED <<unused, stable, generation, writes, freezeVars, procVars>>

Upgrade(n) ==
    /\ dir[n] \notin stable \cup {None}
    /\ Unleased(dir[n])
    /\ stable' = stable \cup {dir[n]}
    /\ UNCHANGED <<dir, unused, generation, writes, freezeVars, procVars>>

Remove(n) ==
    /\ dir[n] # None
    /\ NotFrozen(IdOf(dir[n]))
    /\ Unleased(dir[n])
    /\ dir' = [dir EXCEPT ![n] = None]
    /\ UNCHANGED <<unused, stable, generation, writes, freezeVars, procVars>>

(* Creation, clone and template use publish a space with a new identity.   *)
Create(n, d) ==
    /\ dir[n] = None
    /\ d \in unused
    /\ dir' = [dir EXCEPT ![n] = d]
    /\ unused' = unused \ {d}
    /\ stable' = stable \cup {d}
    /\ UNCHANGED <<generation, writes, freezeVars, procVars>>

-----------------------------------------------------------------------------
Next ==
    \/ \E n \in Names :
          \/ Freeze(n) \/ Unfreeze(n) \/ Upgrade(n) \/ Remove(n)
          \/ \E m \in Names : Rename(m, n)
          \/ \E d \in Spaces : Create(n, d)
          \/ \E s \in Sessions : Open(s, n)
          \/ \E j \in Jobs : PrepareRollback(j, n) \/ PrepareCapture(j, n) \/ PrepareActive(j, n)
    \/ \E s \in Sessions : Lease(s) \/ Write(s) \/ Close(s)
    \/ \E j \in Jobs : PublishRollback(j) \/ PublishArtifact(j) \/ Abandon(j)

Spec == Init /\ [][Next]_vars

-----------------------------------------------------------------------------
(* Every freeze marker belongs to a space that is there: neither removal,  *)
(* nor a rename, nor a rollback leaves a marker no command could lift.     *)
MarkersHaveSpaces == \A d \in frozen : \E n \in Names : dir[n] = d

(* What an inactive capture copies, and what a rollback saves and replaces,*)
(* does not change from the preparation to the publication, although the   *)
(* management lock is free meanwhile.                                      *)
ExclusiveJobsQuiescent ==
    \A j \in Jobs : Exclusive(j) =>
        /\ dir[job[j].name] = job[j].space
        /\ writes[job[j].space] = job[j].writes
        /\ generation[job[j].space] = job[j].generation

(* An active capture never spans a lifecycle operation on its source, even *)
(* when the freeze is lifted and set again while it copies.                *)
ActiveCaptureUndisturbed ==
    \A j \in Jobs : job[j] # None /\ ~Exclusive(j) =>
        /\ dir[job[j].name] = job[j].space
        /\ generation[job[j].space] = job[j].generation

(* Between the two sections of a long operation, and across freezes,       *)
(* renames and removals, nothing it relies on changes and no freeze marker *)
(* is orphaned.                                                            *)
FreezeSound ==
    /\ TypeOK
    /\ MarkersHaveSpaces
    /\ ExclusiveJobsQuiescent
    /\ ActiveCaptureUndisturbed

(* ensure_not_frozen looks at the identity a session read when it opened   *)
(* the space, lease locks whatever the path names by then: only a session  *)
(* that was open when the marker was written is active in a frozen space.  *)
OnlyEarlySessions ==
    \A d \in frozen, s \in Sessions : activity[s] = d => s \in early[d]

(* publish_rollback does not look at the marker again: a rollback prepared *)
(* before the freeze may replace the frozen tree, but it is the only one.  *)
ReplacedAtMostOnce ==
    \A d \in frozen :
        /\ generation[d] <= base[d] + 1
        /\ generation[d] = base[d] + 1 =>
              \A j \in Jobs : job[j] # None /\ job[j].kind = "rollback" =>
                                  job[j].space # d

(* What reaches a frozen space after ensure_not_frozen has been passed is  *)
(* bounded: the sessions already open, and one rollback already prepared.  *)
FreezeHolds == OnlyEarlySessions /\ ReplacedAtMostOnce

=============================================================================
