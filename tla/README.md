# Quarters in TLA+

Quarters keeps *spaces* (private homes with their own configuration, caches and
runtime directories), starts processes in them, and replaces, renames, copies,
exports, freezes and recovers them. There is no daemon: many independent
`quarters` processes share one directory tree, every change of which must survive
a crash at any point, and copy from homes that other processes go on writing to.
This project models those parts in TLA+ and checks them with TLC. For nine of them
(rollback, rename and upgrade, freeze, staging and the catalog, private agents, MCP
sessions, the layout of the store, the host fork and the command links) TLAPS proves every safety property that TLC checks, for all values of
the constants, and that the rollback implements its abstract specification.

## 1. The system

| Part | State it keeps | Operations | Module |
| --- | --- | --- | --- |
| Rollback transaction (`store/artifact/rollback.rs`) | `.rollback-<tx>.json` markers and their temporaries, staging and retired trees | `rollback_space`, `recover_rollbacks` | `Rollback`, `AtomicReplace` |
| Rename and upgrade (`store/rename.rs`, `store/upgrade.rs`) | `.rename-<tx>.json` markers, manifests and their temporaries | `rename_space`, `recover_renames`, `upgrade_space` | `SpaceIdentity` |
| Cooperative freeze (`store/freeze.rs`) | `.freeze-<id>.json` markers | `freeze`, `unfreeze`, the checks in every other operation | `SpaceFreeze` |
| Locks (`store_lock.rs`) | one management lock per store, one `.active` lock per space tree | bounded shared and exclusive locking | guards in most modules |
| Space store (`store.rs`, `store/create.rs`, `store/remove.rs`) | `spaces/<name>`, manifests | open, lease, create, remove | one step each in `Rollback`, `SpaceIdentity`, `SpaceFreeze`; create and remove step by step in `Staging` |
| Artifact catalog (`store/artifact/`) | templates, snapshots | capture, use, rename, remove | `Staging`; the captures also in `SpaceFreeze` |
| Store recovery (`store_recovery.rs`) | abandoned staging and trash | `recover` | `Staging` |
| Copy engine (`store/lifecycle/`) | the staging home of a copy, its report | the bounded walk, its policy, the cleanup | `TreeCopy` |
| Host fork (`store/host_fork/`) | a plan and its digest, the staging home | preview, `create_from_host` | `HostFork` |
| Bundles (`store/artifact/bundle/`) | a bundle file, an export's staging link, a template | `export_bundle`, import preview and import | `Bundle` |
| Layout and its marker (`store/layout.rs`, `store/layout/marker.rs`) | the root's categories, the marker and its staging names | `ensure_layout`, `begin_mutation`, resolution, `diagnose` | `LayoutMarker` |
| Private agents (`agent/`) | one ownership record and one socket per space, the lifecycle lock, the startup-owner lock, the launched processes | start, stop, recover, the launcher | `Agent` |
| Launch on Linux (`platform/linux*`, `platform/working_directory.rs`, cli `process.rs`) | a confinement plan, the launcher's mounts, the working directory | planning, home view, confinement, execution | `Confinement` |
| Environment and runtime directories (`environment.rs`, `platform/mod.rs`) | environment variables, runtime directories | launch, `quarters host`, re-keying, removal | `ProfileLaunch` |
| Command links (`command_links.rs`, cli `adapter.rs`) | links in `.local/bin` | inspect, install, remove | `CommandLinks`, `CreateFromHost` |
| MCP server (`quarters-mcp`) | the admission table, the protocol family, pending errors | requests, cancellations, answers | `McpSession` |
| State discovery, command-line parsing and output, quality gate | none shared between processes | | not modelled |

Processes interact only through the filesystem and advisory locks. The
*management lock* serialises mutations of the store's directory entries; the
`.active` lock of a space is shared by the processes running in it and taken
exclusively by lifecycle operations. A process opens a space without any lock,
keeps the `Space` value, and leases it later. Long copies run with the
management lock released. What makes this hard: a crash at every step, recovery
that can crash too, leftovers of one operation that block another, handles that
are stale when they are used, locks that follow an inode rather than a name,
conditions checked in one locked section and relied on in the next, and sources
that change while they are read. The MCP server is the one part with concurrency
inside a process; a launch is the one part where a path means different things
before and after a step of the program itself.

What makes each part correct:

* rollback: whatever stops wherever, the space has its old home, its new one, or
  a marker from which recovery rebuilds exactly one of them; a home that is given
  up is in a recovery snapshot; no session is left in a replaced home;
* rename: a directory and its manifest agree, or one marker explains the
  difference; names are released eventually;
* freeze: every marker has its space, what a capture copies does not change under
  it, and what still gets into a frozen space had passed its checks before: the
  sessions that were open, and one rollback that was prepared;
* staging, catalog and recovery: what is published is whole, names are unique, a
  space made from a template is that template, abandoned staging is reclaimed and
  live staging is not;
* copies, forks and bundles: what arrives is what was selected, previewed or
  recorded, each entry as it was at one instant, within the limits, or nothing;
* layout: readers without the lock are never misled, foreign stores are never
  touched, an interrupted publication is finished;
* agents: no agent runs without the record, no serving agent loses its socket to
  Quarters, and whatever dies, recovery settles the record;
* launches: a grant never opens what is protected, the process starts where it
  should, and from any depth of nesting the environment leads back to the host and
  to the one runtime of a space;
* command links: tools lead to the launcher, a failed installation can be repeated,
  and entries of others are spared;
* MCP: every request is settled once, under its own slot.

## 2. Modules

### AtomicReplace and Rollback

`AtomicReplace` is what a rollback promises: the home of a space is replaced in
one step by another one, only after its contents were saved, and while a
replacement is announced but not settled the space is simply refused.

`Rollback` has one action per durable filesystem step of `publish_rollback` (the
marker is written to a temporary, renamed; the target is retired; the marker
transitions; the lock file is removed; the staging tree is renamed to the target;
the marker transitions; the retired tree goes to the trash; the marker goes), the
steps before it (`Prepare`, `LockStaging`, `Capture`, `Fill`), failure and crash
from every one of them, and recovery: `reclaim_marker_temporaries`,
`load_recovery_inventory` with the decision table `RecoveryRow`, and the steps of
`recover_abort`, `recover_restore_old`, `recover_complete_new` and
`reclaim_orphan_staging`. A tree is the space name it started as or the
transaction that staged it; `target`, `staging` and `retired` say which tree each
path holds; `content` counts writes, which is all the properties need of a home's
contents; `saved` is the recovery snapshots. Sessions open, lease, write and
close.

Every step the code makes is followed by a directory sync before the next one
starts, so a power failure leaves a prefix of the steps and is a crash between two
actions here.

### SpaceIdentity

One action per durable step of `rename_space` and of the recovery of its markers,
and of `upgrade_space`. `dir` says which space is at a path, `label` what its
manifest calls it. A rename marker is created at its final name and then written,
so it can be torn. Creation and removal are one step each. That `rename_space`
refuses a space with legacy artifact bindings is left out, so the model renames more
often than the code; the re-keying of runtime directories is in `ProfileLaunch`.

### SpaceFreeze

One action is one section under the management lock; the operations that
`Rollback` and `SpaceIdentity` take apart are single steps here, the ones that
release the lock between preparation and publication are two. A session's
`handle` is the `Space` value it opened: a name and the identity its manifest had
then. `early` and `base` are history variables: the sessions that were open when a
marker was written, and the generation of the home it was written over.

### Staging

Six operations build a tree and publish it: creation, clone, host fork and
template use make a space, capture and bundle import an artifact. They share one
protocol, and `Kind` tells them apart where they differ: a template use verifies
its template before, during and after the copy; host fork does not check the
destination under the lock when it begins; creation, host fork and import do not
clean up once they have published. A tree is named by its builder and is in one
`place`: nowhere, in a `.creating-*` directory, visible, retired by a removal, in
the trash as `.reclaiming-*`, or gone. `lockFile` says which trees contain
`.creating.lock`; the lock itself is held while its builder is alive. Mutators are
`remove`, `remove_artifact` and `rename_artifact`; the last leaves a manifest
temporary when it dies. Recovery inspects the artifacts without the management lock
(`RecoverProbe`, which holds creation locks while it looks), then retires space
creations, then artifact creations, and deletes the trash without the lock.
Deleting a tree is two steps: its contents, the lock file among them, and then the
directory. A builder's own cleanup may fail before either (`CleanupFails`): the
staging is left to recovery, with or without its lock file.

### Agent

The private SSH agent of one space. A *client* is one invocation of `agent start`,
`stop` or `recover`; `pc` follows it between the sections it spends under the
lifecycle lock, and `GiveUp` is its crash, an error return or a spent deadline. A
start owns `owner`, the startup-owner lock, from its reservation to its end, and
waits for its child without the lifecycle lock. A *process* is used for one launch,
so it stands for its PID and start generation, for the token of its record and for
the inode of its socket: `Alive` is `process_matches_generation` (true of a zombie
that its parent has not reaped), `Serving` is `verified_socket_identity`, and
`Status` is `inspect_at`. A process is a helper until it reads its own `starting`
record (`Own`), then it executes `ssh-agent`, binds the path and serves. It may die
at any time; the socket may be deleted by somebody else (`Vanish`). Observers of a
start (`reconcile`) probe without the lock (`Look`) and act on what they saw under
it. The helper's launch failures after `fork` and a child that cannot be stopped are
not told apart from a command that ends there.

### TreeCopy

The walk of `walk.rs`, one action per system call that can see another state of
the source: the listing of a directory, the stat of an entry, its open, each block
read, the second stat, the last look at its name. Inodes hold data as blocks, so a
size is a number of blocks; another process writes, links or unlinks between any
two actions. `Refuses`, `Reported` and `Copied` are the reference: what
the policy of `policy.rs` says of a whole tree, without an order. After a failure the actions are those of
`cleanup.rs`: the modes of the staged directories are restored level by level,
within limits of their own, and the tree is removed. Every change of an inode is
assumed to show in its stat; the root directory itself is not looked at again, a
file moved between two directories may be copied twice or missed (the code has the
same freedom), and limits on byte lengths of names are left out.

### HostFork, CommandLinks and CreateFromHost

`HostFork` runs the preparation twice: for the preview and, after the user
confirmed its digest, for the execution, which may be asked for something else.
Then the files are copied from the descriptors that were opened, looked at again by
their paths, and the space is published. A digest is the plan itself. One open of a
path is one step; which paths are sensitive is a set. The operators that look at the
host take it as a parameter, so that they can be reasoned about apart from the state;
`shown`, the bytes the preview saw, is a history variable, since no plan holds them.
Any call of `execute_staging` may fail (`CallFails`), and so may the cleanup after a
failure, which then leaves the staging home behind (`compound_host_fork_error`). The
command can be run again with the same digest (`Retry`) and finds the name taken if an
earlier attempt has published (`Taken`). A new attempt has a staging name of its
own, so a leftover does not meet it; that recovery reclaims it is checked in `Staging`.

`CommandLinks` is the installation and the removal of the managed commands, one
action per system call: the report (one look per name), the links in order, the
look at each one, the rollback from the last to the first, the removal of exact
tool links. `op.at` is the index of the loop that is running, `op.seen` the report. `op.made` and `op.looked` are history variables: which names still hold
the inode this command made, and which ones nobody touched since the last look.
`foreign` stands for any entry that is not managed. The management lock and the
exclusive lease are guards; other processes put entries, loosen the directory or
remove an executable. The lstat of an entry that is there and the unlink of a
rollback are assumed not to fail.

`CreateFromHost` composes the two as `create --from-host` does: the fork, then
`install_created_commands` in the published space; in other behaviours the fork was
refused since the name was taken, and the adapter commands work on that older space
with anything at the names.

### Bundle

An export walks the artifact's home without a lock and compares stats as the code
does; other processes may change the home with or without a visible change of the
stat (`stamp`), because timestamps are coarse, and it is the recorded integrity that
decides. The parser of `format.rs` is `Follows`, `Descend` and `Closed`: which entry
may come next, given the directories that are open. An import reads the file three
times: preview, authentication, extraction. `represent` is how the importing
filesystem stores names: it may fold two of them or spell one differently. Digests
and tags are collision free and therefore what they cover.

### LayoutMarker

The publication of `.quarters-store.json` by a hard link to a staging file, and
everybody who reads it without the lock. A process runs one operation as a stack of
calls (`local`), with one action per system call; `quiet` is a history variable that
says whether anything changed while it looked. The roots are absent, new, dotted or
mixed, with no marker or one of each format, with or without a staging name or a
link elsewhere. A name that was listed and is gone when it is looked at gives an
i/o error, as in the code: it is transient, and `NoFalseAlarm` is about verdicts.

### Confinement and ProfileLaunch

`Confinement` has the host as a forest of inodes and a table of mounts, as the
kernel sees them; resolution, stat and the walk to the root that Landlock makes are
operators on it. A launch goes through the steps of `linux_launch`: discovery of the
plan, the user's grants one by one (`ResolveGrant`, `CheckGrant`), the working
directory, the opening of the anchors (`Prepare`), the home view, entering, the
executable, execution. The home view is four steps: staging, the last look at the
account's home (`CheckAccountHome`), the mount over whatever its path leads to by then
(`AttachHome`), and entering that path (`EnterView`). Others exchange two entries or add a hard link between any
two. Assumed: mounts of others do not change during a launch; mount points cannot be
renamed; nothing is mounted beneath the space's home; symbolic links are absolute;
the passwd home is canonical. A hard link inside a granted directory is not promised
anything, as the code says. A path exchanged while the plan is being made is promised
only that what is opened is what was planned.

`ProfileLaunch` puts environments around it. The processes form a stack; a process
launches into a space (`Nest`), goes back with `quarters host` (`Escape`), exits,
upgrades or removes a space, starts or stops its agent, each in its own environment,
which is all it knows. CARGO_HOME stands for the redirected variables, TERM for the
safe ones, TOKEN for the rest. Runtimes are keyed by identity, by name, or in one of
the two ways of earlier alphas, so a legacy space may have more than one fallback. Two launches that race to re-key one legacy runtime are not
modelled: one of them gets a transient error. `LaunchMain` is the launch whose
confinement is worked out step by step.

### McpSession

One connection. The server runs a current-thread runtime, so an action is the code
between two awaits. The actors are the receive loop, one handler task per delivered
request, the writes of the answers and the writer of the transport's own errors. A
*use* is one request the client sent; uses of one id may overlap, and the table is
keyed by id alone, which is the difficulty. `rmcp` is external: it starts one task
per delivered request, and a cancellation stops a task that has not begun and
suppresses the answer of one that has.

### Proofs

`RollbackProofs`, `SpaceIdentityProofs`, `SpaceFreezeProofs`, `StagingProofs`,
`AgentProofs`, `McpProofs` (about `McpSession`), `LayoutProofs` (about
`LayoutMarker`) and `CreateProofs` (about `CreateFromHost`, with `HostFork` and
`CommandLinks`) extend the modules they are about.
Each begins with its inductive invariant (`CreateProofs` has two), then has the lemmas on the module's
operators, one lemma per action, and the theorems.

## 3. Runs

| Run | Instance | Properties |
| --- | --- | --- |
| `rollback` | two rollbacks of one space, a session with a write, a recovery; crashes anywhere | `RecoveryIsDetermined`, `HomesSound`, `DiscardsOnlySavedHomes`; `ReplacesAtomically`: `Rollback` implements `AtomicReplace`; `RefusedSpaceReturns` under fairness |
| `identity` | three renames (out, back, on) over three names, a legacy space, an upgrade, two sessions | `NamedOrMarked`, `RecoverySound`, `LeaseCoversSpace`; `ReservedNamesReturn` under fairness |
| `freeze` | two names, two spaces, two sessions, two jobs | `FreezeSound`, `FreezeHolds` |
| `staging` | a published template, a use of it, a capture that wants its name, a removal or rename, a repeated recovery | `LiveStagingKept`, `PublishedSound`, `TemplateUseFaithful`; `LeftoversReclaimed` under fairness |
| `agent` | two starts, a stop, a recovery, two launches, a cleaner of temporary files | `RecordSound`, `LiveSocketsKept`, `ReservationKept`; `AgentSettles` under fairness |
| `copy` | seven homes, a preview or a copy, two writes by others | `WalkComputesSelection` (on a quiet source the walk is the reference), `CopySound`, `EntriesAtOneInstant` |
| `hostfork` | two hosts, six requests, two changes by others, any failing call or cleanup, a second attempt; two tools, any entries, one disturbance, any crash | `ForkSound`, `LinksSound`, `ForeignEntriesKept` |
| `bundle` | two homes, seven rewritten streams, three filesystems, three writes by others | `ExportSound`, `ParsedCanonical`, `ImportSound` |
| `layout` | two processes, four roots with every marker, one failed call or death | `LayoutSound`, `ReadersNotMisled`, `ForeignUntouched`; `MarkerPublished` under fairness |
| `launch` | 24 inodes, two filesystems, up to two more mounts, up to two changes; nesting of three | `GrantsClosed`, `LaunchSound`, `EnvironmentSound`, `OneRuntime` |
| `mcp` | three requests on two ids, two slots, one blocking permit, one fault | `SlotsSound`, `FamiliesSound`; `EveryRequestSettled` under fairness |
| `upgrade_interrupted` | a legacy space and an upgrade | a counterexample: `UpgradeResumes` fails |

A property whose name ends in `Sound`, and `FreezeHolds` and `ReadersNotMisled`, are
conjunctions of named parts, each stated and explained where it is defined; the type
invariant of a module is a part of one of them.

| Property | Parts |
| --- | --- |
| `HomesSound` | `TypeOK`, `HomeReachable`, `LeaseCoversHome`, `LiveStagingKept` |
| `RecoverySound` | `TypeOK`, `MarkersRecoverable`, `TempsHaveMarkers` |
| `FreezeSound` | `TypeOK`, `MarkersHaveSpaces`, `ExclusiveJobsQuiescent`, `ActiveCaptureUndisturbed` |
| `FreezeHolds` | `OnlyEarlySessions`, `ReplacedAtMostOnce` |
| `PublishedSound` | `TypeOK`, `PublishedIntact`, `ArtifactNamesUnique` |
| `RecordSound` | `TypeOK`, `AgentsRecorded` |
| `SlotsSound` | `TypeOK`, `NoSlotLeaked`, `LiveWorkHasSlot`, `AnswersTheRightUse` |
| `FamiliesSound` | `LegacyIdsOnce`, `FamiliesDisjoint` |
| `ExportSound` | `TypeOK`, `ExportedFaithful`, `ExportParses` |
| `ImportSound` | `ImportedAsConfirmed`, `TransferFaithful` |
| `CopySound` | `TypeOK`, `WithinLimits`, `StagedWithinPolicy`, `FailedCopyRemoved` |
| `ForkSound` | `TypeOK`, `ConfirmedContents`, `ReplacementConfirmed`, `PreviewPredicts` |
| `LinksSound` | `LinksTypeOK`, `InstalledRoutes`, `RetryNeverBlocked`, `FailedInstallUndone` |
| `LayoutSound` | `TypeOK`, `MarkerComplete`, `EnsuredComplete`, `GuardedLayout` |
| `ReadersNotMisled` | `NoFalseAlarm`, `DiagnosisTruthful` |
| `LaunchSound` | `TypeOK`, `WorkdirInside`, `PlanHolds`, `RefusalsJustified` |
| `EnvironmentSound` | `ProfileTypeOK`, `EscapeRestores`, `CredentialsAsked`, `EnvironmentUsable` |

Bounds. Two transactions on one space are the least at which one can find the
leftovers of another, and the markers of the two meet in `reject_duplicate_targets`;
a third adds no pair. The one write of the session may fall before or after a capture.
Three names are the least with a chain of renames that comes back to a name still
reserved by another marker. A template use, a capture of the same name and one
mutator are the least with which a template goes away and its name is taken again
while it is copied. A start launches at most twice, so two launches are the least
with which its retry meets an observer. Two changes by others let an entry be
exchanged and put back around one check; one attempt after a failed one is the least
in which a fork meets what an earlier one published; the third write of `bundle` lets home, file
and file again change. Limits are set so that the instances lie on both sides of
each. Three requests on two ids are the least in which an id is used again while
another one holds the last slot. A nesting of three is the least in which a space
saves what another space had saved; it is used for one login, two for the others, and
none where the confinement is in question. One disturbance at every moment, together
with a crash and a retry, is what a command's look-then-act sequence can be broken
by. A transaction ID is used once, as the generated IDs of the code are. The proofs
do away with the bounds for the safety properties of `Rollback`, `SpaceIdentity`,
`SpaceFreeze`, `Staging`, `Agent`, `McpSession`, `LayoutMarker`, `HostFork` and
`CommandLinks`; the number of
requests, the slots and the permits of a session are constants there, too.
Deadlock is not checked where things end: in `freeze` when every space is gone, in
`bundle` and `launch` when the operation is over.

Fairness. The live specifications assume that a process that holds the management
lock takes its next step or dies (the code never waits for input there), that an
operation that has begun goes on or dies, and that `quarters recover` is run again
and again and is not interrupted for ever. The last is the documented remedy for an
interrupted operation; the code does not run it by itself. In `SpaceIdentity` also
that a session ends and that the user repeats an upgrade. For agents: a launcher goes
on or dies at its five-second deadline, a signalled agent exits, and the deadline of
an observer comes (it is looked at in every turn that settles nothing). For the
layout: strong fairness of taking the lock, whose wait retries until its deadline, and
of beginning `ensure`, which every mutating command does. For the MCP session: the
runtime polls tasks that are ready, and the client reads. No fairness is assumed of
starting operations, of crashes or of what other processes do.

## 4. Findings

**An interrupted upgrade cannot be repeated** (`upgrade_interrupted`).
`replace_manifest` creates `.quarters-upgrade.tmp` with `create_new`; only
`.quarters-rename.tmp` is ever cleaned up. ADR-0006 says an interrupted upgrade can
resume.

Other disagreements between code and documents that modelling met. The models follow
the code in all of them, and no property above excludes them; for the first two,
`FreezeHolds` says how much gets in and no more.

* A rollback prepared before a freeze publishes into the frozen space:
  `revalidate_publication` (`rollback.rs:882`) checks the identity and the names but
  not the freeze. It is one such rollback at most (`ReplacedAtMostOnce`); `freeze.rs:25` and ADR-0010, line 38, say that rollback requires an
  unfreeze.
* A stale legacy handle enters a frozen space: `Store::lease` (`store.rs:279`) checks
  the freeze of the identity it read when it opened the space, and a space that was
  upgraded since had none. Only a session that was open when the space was frozen can
  (`OnlyEarlySessions`); ADR-0010, line 35, says new launches fail.
* Recovery disturbs a running removal: `remove` (`remove.rs:50`) and `remove_artifact`
  delete the retired tree with no lock held, recovery retires that tree too, and the
  removal then fails before it removes the runtime directory; `store_recovery.rs:152`
  says that active working paths are never removed.
* Between the exit of a first agent launch and the second one the record names a dead
  process; `recover_inactive_state` removes it without asking for the startup-owner
  lease, and the retry fails (the exception in `ReservationKept`). When the second
  launch has exited and its failure cannot be recorded, `abort_spawned` signals a PID
  that `try_wait` has already reaped. ADR-0005, lines 70 and 80, say otherwise.
* When the login shell has no TMPDIR or XDG_RUNTIME_DIR, a space entered from within a
  space saves the outer space's values as those of the host (`preserve_host_value`), and
  the runtime of a third lies in the runtime of the first; `ARCHITECTURE.md:285` and
  `THREAT-MODEL.md:296` speak of the original values. `EscapeRestores` and `OneRuntime`
  except it. So they do where HOME is not the passwd home and XDG_RUNTIME_DIR lies
  beneath HOME: the runtime base is `/tmp` from the login shell and XDG_RUNTIME_DIR
  from a nested launch (`environment.rs:58`).
* `command_links.rs` says stale tool links are left alone; `remove_command_links` takes
  away links of the exact shape also when the launcher is gone.

## 5. Proofs

Every component below is proved along one line: none of its properties is inductive,
so the invariant is their conjunction with what the program knows at each
control point; one lemma per action shows that it is preserved; the theorems follow.
TLC checked each inductive invariant on the instance of the component's run before
it was proved.

**Rollback.** `RollbackSafety` is `Spec => []IInv`. That recovery always finds a row
of its table depends on which paths a rollback can leave at each program point, and
that in turn on who holds the locks:

* `ManagementInv`: who is inside a locked section is who holds the management lock;
* `LeaseInv`: an active rollback holds its target's tree exclusively, and a running
  session holds the tree its name leads to or a tree whose name is marked;
* `TreeInv`: a tree is in one place, and only trees that are filled are published;
* `MarkerInv`: the three paths that each marker state can coexist with;
* `ControlInv`: the paths and markers at each program point of a rollback;
* `RecoverInv`: the same for recovery and the plan it has loaded;
* `SavedInv`: from the capture on, the saved contents are the current ones.

`RecoveryDetermined`, `HomesAreSound` (all parts of `HomesSound`) and
`DiscardsAreSaved`, an action property, follow. `RollbackReplacesAtomically` is the
refinement. `home` is the tree at the target or, while there is none, the retired
one; `phase` is read off the marker and off whether the target already holds the
marker's own tree. Then a capture is `Save`, the rename that puts the prepared marker
in place `Announce`, the rename of a staging tree to the target `Replace`, the
unlinking of a marker `Settle`, a session's write `WriteHome`, whether a rollback or a
recovery does it, and every other step, crash or failure is a stutter. `Replace` asks
for a saved home: that is `SavedInv`; that a recovery never undoes one is
`RecoverInv`.

**Rename and upgrade.** `IdentitySafety` is `Spec => []DInv`. `ManagementInv` and
`LeaseInv` say who holds which lock (a rename holds the lock of the directory, which
moves with it); `PlaceInv` that a space is at one path; `MarkerInv` that the two names
of one marker are apart from those of any other; `ControlInv` and `RecoverInv` whether
the directory has moved and what its manifest says at each program point. Theorems:
`SpacesNamedOrMarked`, `RecoveryIsSound`, `LeasesCoverSpaces`. `MarkerInv` is what
makes the recovery of one marker harmless to another, in any order.

**Freeze.** `FreezeSafety` is the same with `PlaceInv`, `LockInv` (the activity lock
is exclusive where it should be), `SourceInv` (a job holds the lock of the space it
prepared, and that space has not moved) and `SinceInv` (a session opened since a
freeze whose name leads to the frozen space has read that space's identity, so its lease
is refused). That at most one rollback replaces a frozen tree is `SourceInv` and
`LockInv`: the job that was prepared before holds the lock exclusively, so there is one,
and no other is prepared while the marker is there. Theorems: `FreezeIsSound` and
`FreezesHold`, for all parts of `FreezeSound` and of `FreezeHolds`.

**Staging and catalog.** `StagingSafety` is `Spec => []SInv`. `LockFileInv` is the
argument of the creation locks: the lock file is in the tree as long as recovery must
spare it and is gone once the tree is visible; `FoundInv` that what a scan of the
recovery found has no live builder, though the scan and the retirement are two steps;
`NameInv` that a name found free under the management lock stays so to the
publication; `MutatorInv` what a removal or a rename verified; and `UseInv` that a
template that went away never comes back, so that one found visible after the copy
was there throughout. Theorems: `PublishedIsSound`, `LiveStagingIsKept`,
`TemplateUseIsFaithful`.

**Agents.** `AgentSafety` is `Spec => []AInv`. `OwnerInv` is the heart: while a start
owns the startup, the record is absent or names its own process, and a launch is
repeated only when the first process has been reaped. `LaunchedInv`,
`ActivatedInv` and `FinishInv` say what a record and a stop know of the process, and
`LookInv` that what an observer saw dead without the lock is dead (generations are
not used again). Theorems: `RecordIsSound`, and two action properties,
`LiveSocketsAreKept` and `ReservationsAreKept`.

**MCP sessions.** `McpSafety` is `Spec => []MInv`, for any ids, limits and number of
requests. The table is keyed by id while several uses of an id may be under way:
`OrderInv` says that only one of them, the earliest that is unsettled, occupies the slot;
`AwaitingInv` that the receive loop waits for at most one release, the one of a
cancelled handler; `SlotInv` which phase of the slot goes with which stage of
that use; `ClosedInv` who still has a slot after the transport has gone; `SeenInv`
which ids the legacy family remembers. Theorems: `SlotsAreSound`, `FamiliesAreSound`.

**Layout.** `LayoutSafety` is `Spec => []LInv`, for any processes, programs, inodes
and deaths. A process is a stack of calls, so `FramesInv` says which stacks belong to
which control point, and most of the other parts speak of the operation at the bottom
of the stack. `HolderInv` says which operations hold the lock, `SectionInv` what they
know of the disk at each point, `AloneInv` what a read returns when nobody disturbs
it. `ReaderInv` is the argument for the others: in a sound store the marker once
found never changes, and its second link once gone never comes back, so the retry of
`read_marker` converges at the second attempt. `DiagnosisInv` carries what `diagnose`
has seen to its report. A step either leaves the disk alone or is a `Progress` of a
sound store by the holder of the lock or by the creator of the root (`Settles`); the
others are considered once for each of the two (`QuietlyKeepsOthers`,
`ChangingKeepsOthers`). Theorems: `LayoutIsSound`, `ReadersAreNotMisled`, and the
action property `ForeignIsUntouched`. `MaxReads` is at least two: with a single read
the retry that `ReadersNotMisled` rests on would not exist (the code has eight).

**Command links.** `CreateUsesLinks` is `CreateSpec => LinksSpec`: the creation and
the adapter commands change the links only through their operations, so what is
proved of those holds of both. `LinksInductive` is `LinksSpec => []LinksInv`, for any
number of tools and executables and any disturbances. `LinksPlaced` says what each
control point has looked at; `LinksMade` that what a command has made and nobody
touched is the link it meant, at a name its report found absent and its loop has been
at, which is what a rollback may remove; `LinksQuiet` what follows while nobody
disturbs: a directory that could be installed into stays one after every step, failure
and crash, and the names below the loop's index are routed. Theorems:
`CreateLinksSound`, and the action property `CreateKeepsForeignEntries`.

**Host fork.** `ForkInductive` is `CreateSpec => []ForkInv`, for any hosts, requests,
limits, number of writes and number of attempts, whichever calls and cleanups fail.

* `HostKept`: a stamp is the number of a write that has happened, so a later write
  always shows;
* `ForkControl`: once files are copied, the plan is the confirmed one and nothing has
  been published, by an earlier attempt either;
* `ForkRecorded`: a source whose stamp is still the planned one still has the bytes
  that the preview looked at. This is what makes a digest without contents enough;
* `ForkStaged`: what is staged at each control point; what has been read of a file is a
  prefix of it as long as its stamp is the planned one, whoever writes in between;
* `ForkQuiet`: while nobody writes, everything in the confirmed plan is still so
  (`Foreseen`), and the plan being prepared again is the confirmed one as far as it
  has come (`Following`), in the order of the candidates and within the limits at
  each file. So the second preparation can differ only where the request does.

Theorem: `CreateForkSound`, for all parts of `ForkSound`.

Assumptions on the constants are those the modules state: distinct model values,
total functions between them, and that a place holder such as `None` is not one of
the things it stands for the absence of. `HostFork` also assumes that no two paths
have the same rank (the candidates are an ordered set), that a new space has at least
one generated file, and the shape of a host's nodes; `CommandLinks` that the tools are
a sequence of names other than the launcher's. No theorem has another hypothesis.

Only model-checked, and why:

* the liveness properties (`RefusedSpaceReturns`, `ReservedNamesReturn`,
  `LeftoversReclaimed`, `AgentSettles`, `MarkerPublished`, `EveryRequestSettled`):
  fairness needs ENABLED, which this prover does not handle;
* `WalkComputesSelection`, `ParsedCanonical` and `GrantsClosed`: they compare with or
  rest on operators defined over trees and paths of any depth, and the proof is an
  induction over the data;
* the other parts of `TreeCopy`, `Bundle`, `Confinement` and `ProfileLaunch`, for the
  same reason: their steps call those operators.

## 6. Plan

1. The probes of `doctor`, and the private command set that a launcher puts into the
   runtime directory.
2. Discovery under its lease.

## 7. Not modelled

File contents beyond blocks, permissions beyond what a check tells apart, archive
framing, signatures and encryption; parsing, reports and messages; the durations of
bounded waits (a refused wait is a step not taken); macOS; the option grammar of the
OpenSSH adapters; discovery, which reads a home and keeps no state; the quality gate
and packaging, which are not part of the running system.
