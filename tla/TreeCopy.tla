-------------------------------- MODULE TreeCopy --------------------------------
(***************************************************************************)
(* The lifecycle copy engine (store/lifecycle/walk.rs): the bounded walk   *)
(* of a home that previews a copy or makes it, for clones, templates,      *)
(* snapshots and rollbacks, and the removal of the staged tree when the    *)
(* copy fails (cleanup.rs).                                                *)
(*                                                                         *)
(* The source lies in the user's own account: the lease keeps supervised   *)
(* processes away, but detached ones may write while the walk runs.  The   *)
(* engine holds descriptors, compares what stat shows before and after it  *)
(* reads an entry, and refuses what changed.  It computes no digest, so it *)
(* relies on every change showing in the metadata: a change gives the      *)
(* inode a stamp of its own.                                               *)
(*                                                                         *)
(* Files are inodes; a directory maps names, numbered in byte order, to    *)
(* inodes.  A file's data is a sequence of blocks, and its size their      *)
(* number.  In a link's target 0 is the parent component.                  *)
(***************************************************************************)
EXTENDS Naturals, Sequences, FiniteSets, FiniteSetsExt, SequencesExt

CONSTANTS
    Names,          \* file names
    Homes,          \* the file systems the walk may start on
    Root,           \* the inode of the source home
    Spare,          \* inodes another process may link into the home
    NewData,        \* contents another process may give to a file
    ForeignData,    \* blocks only found in files of another user
    CacheRoots,     \* .cache and the derived cache directories
    CommandLink,    \* .local/bin/quarters
    ShimLinks,      \* .local/bin/ssh and the like
    EntryLimit, ByteLimit, FileLimit, DepthLimit, TargetLimit,  \* CloneLimits
    RemovalDepth,   \* MAX_PRIVATE_REMOVAL_DEPTH
    PendingLimit,   \* MAX_PRIVATE_REMOVAL_PENDING
    MaxWrites       \* bound: writes by other processes

ASSUME CopyAssumption ==
    /\ Names \subseteq Nat \ {0}
    /\ {EntryLimit, ByteLimit, FileLimit, DepthLimit, TargetLimit, MaxWrites} \subseteq Nat
    /\ RemovalDepth \in Nat /\ DepthLimit + 2 <= RemovalDepth
    /\ PendingLimit \in Nat /\ EntryLimit <= PendingLimit

VARIABLES
    fs,         \* the source file system: inode -> node
    control,    \* execute or preview, include_cache, artifact or space
    pc,         \* where the walk stands
    frames,     \* the directories it has open
    entry,      \* the entry it works on: path, stat and descriptor
    got,        \* blocks read of the entry
    buffered,   \* Walker.buffered_entries
    counts,     \* CloneReport.counts
    omitted,    \* CloneReport.exclusions
    links,      \* kept links: path -> resolved target
    staged,     \* the staging home: path -> node
    pending,    \* directories the cleanup has queued
    writes      \* writes by other processes so far

report == <<counts, omitted, links>>
vars == <<fs, control, pc, frames, entry, got, buffered, report, staged, pending, writes>>

NoIno == "none"
Home == <<>>
Parent(p) == SubSeq(p, 1, Len(p) - 1)
Below(root, p) == IsPrefix(root, p)
DirMode == {"r", "w", "x"}

-------------------------------------------------------------------------------
(* What stat shows of an inode.                                            *)
LinkCount(f, i) ==
    Cardinality({r \in (DOMAIN f) \X Names :
                   r[2] \in DOMAIN f[r[1]].entries /\ f[r[1]].entries[r[2]] = i})

Stat(f, i) ==
    [ino |-> i, kind |-> f[i].kind, mine |-> f[i].mine, mode |-> f[i].mode,
     links |-> LinkCount(f, i), size |-> Len(f[i].data), stamp |-> f[i].stamp]

Lookup(f, dir, name) ==
    IF name \in DOMAIN f[dir].entries THEN f[dir].entries[name] ELSE NoIno

(* Mutant: the inode itself is not compared.                               *)
SameEntryByMetadata(expected, actual) ==
    expected.kind = actual.kind /\ expected.size = actual.size

(* verify_identity                                                         *)
SameEntry(expected, actual) == expected = actual

(* resolve_relative_link_target: the target component by component; a      *)
(* parent component at the home itself escapes.                            *)
Escaped == <<0>>

Resolve(parent, target) ==
    IF target.absolute THEN Escaped
    ELSE FoldLeft(LAMBDA at, c : IF at = Escaped THEN Escaped
                                 ELSE IF c # 0 THEN Append(at, c)
                                 ELSE IF at = Home THEN Escaped ELSE Parent(at),
                  parent, target.components)

(* is_managed_command_link                                                 *)
ManagedLink(path, target) ==
    LET command == Last(CommandLink)
    IN  \/ /\ path = CommandLink
           /\ target.absolute
           /\ target.components # <<>> /\ Last(target.components) = command
        \/ /\ path \in ShimLinks
           /\ target = [absolute |-> FALSE, components |-> <<command>>]

TargetSize(target) == Len(target.components)

StagedDirectory(mode) == [kind |-> "directory", data |-> <<>>, target |-> <<>>, mode |-> mode]
StagedFile(data, mode) == [kind |-> "file", data |-> data, target |-> <<>>, mode |-> mode]
StagedLink(target) == [kind |-> "symlink", data |-> <<>>, target |-> target, mode |-> {}]

-------------------------------------------------------------------------------
NoEntry == [path |-> Home, stat |-> "none", fd |-> NoIno]
NoCounts == [entries |-> 0, files |-> 0, directories |-> 0, symlinks |-> 0, bytes |-> 0]
NoneOmitted == [roots |-> {}, special |-> 0, foreign |-> 0, managed |-> 0,
                hardLinked |-> 0, intoRoots |-> 0]

Init ==
    /\ fs \in Homes
    /\ control \in [execute : BOOLEAN, cache : BOOLEAN, artifact : BOOLEAN]
    /\ pc = "list"
    /\ frames = <<[ino |-> Root, path |-> Home, listed |-> {}, left |-> {}, stat |-> "none"]>>
    /\ entry = NoEntry /\ got = <<>> /\ buffered = 0
    /\ counts = NoCounts /\ omitted = NoneOmitted /\ links = <<>>
    /\ staged = [p \in {Home} |-> StagedDirectory(DirMode)]
    /\ pending = <<>>
    /\ writes = 0

Frame == frames[Len(frames)]

Stage(p, node) == IF control.execute THEN staged @@ (p :> node) ELSE staged
Unstaged == UNCHANGED staged
SourceKept == UNCHANGED <<fs, control, writes, pending>>

(* The walk ends with an error; the caller then removes its staging tree.  *)
Fail ==
    /\ pc' = "failed"
    /\ UNCHANGED <<frames, entry, got, buffered, report, staged>>

(* walk_directory, directory_names: the names of the directory, within     *)
(* what the entry limit leaves beside the names buffered already.          *)
ListDirectory ==
    /\ pc = "list"
    /\ LET found == DOMAIN fs[Frame.ino].entries
       IN  IF counts.entries + buffered + Cardinality(found) > EntryLimit
           THEN Fail
           ELSE /\ frames' = [frames EXCEPT ![Len(frames)].listed = found,
                                            ![Len(frames)].left = found]
                /\ buffered' = buffered + Cardinality(found)
                /\ pc' = "next"
                /\ UNCHANGED <<entry, got, report, staged>>
    /\ SourceKept

(* exclude_cache: the root is left out, and made anew empty unless an      *)
(* artifact is written.                                                    *)
ExcludesCache(path) == ~control.cache /\ path \in CacheRoots

ExcludeCache(path) ==
    /\ omitted' = [omitted EXCEPT !.roots = @ \cup {path}]
    /\ staged' = IF control.artifact THEN staged
                 ELSE Stage(path, StagedDirectory(DirMode))

SpecialKinds == {"socket", "fifo", "device"}

Taken == buffered - 1

(* note_entry                                                              *)
Noted == [counts EXCEPT !.entries = @ + 1]

(* The next name of the directory: its stat, the entry limit, and what is  *)
(* left out without being opened.                                          *)
NextEntry ==
    /\ pc = "next" /\ Frame.left # {}
    /\ LET name == Min(Frame.left)
           path == Append(Frame.path, name)
           ino == Lookup(fs, Frame.ino, name)
       IN  IF \/ ino = NoIno \/ Noted.entries > EntryLimit
              \/ "x" \notin fs[Frame.ino].mode
           THEN Fail
           ELSE LET stat == Stat(fs, ino)
                IN  /\ frames' = [frames EXCEPT ![Len(frames)].left = @ \ {name}]
                    /\ buffered' = Taken
                    /\ counts' = Noted
                    /\ UNCHANGED <<got, links>>
                    /\ \/ /\ ExcludesCache(path)
                          /\ ExcludeCache(path)
                          /\ UNCHANGED <<pc, entry>>
                       \/ /\ ~ExcludesCache(path) /\ ~stat.mine
                          /\ omitted' = [omitted EXCEPT !.foreign = @ + 1]
                          /\ UNCHANGED <<pc, entry>> /\ Unstaged
                       \/ /\ ~ExcludesCache(path) /\ stat.mine /\ stat.kind \in SpecialKinds
                          /\ omitted' = [omitted EXCEPT !.special = @ + 1]
                          /\ UNCHANGED <<pc, entry>> /\ Unstaged
                       \/ /\ ~ExcludesCache(path) /\ stat.mine /\ stat.kind \notin SpecialKinds
                          /\ entry' = [path |-> path, stat |-> stat, fd |-> NoIno]
                          /\ pc' = "open"
                          /\ UNCHANGED omitted /\ Unstaged
    /\ SourceKept

(* The inode an entry's name leads to now.                                 *)
Linked == Lookup(fs, Frame.ino, Last(entry.path))
LinkUnchanged == Linked # NoIno /\ SameEntry(entry.stat, Stat(fs, Linked))

(* visit_directory, open_directory_at, create_directory_at                 *)
OpenDirectory ==
    /\ pc = "open" /\ entry.stat.kind = "directory"
    /\ IF \/ "r" \notin entry.stat.mode
          \/ control.artifact /\ "x" \notin entry.stat.mode
          \/ Len(frames) > DepthLimit
          \/ ~LinkUnchanged
       THEN Fail
       ELSE /\ frames' = Append(frames, [ino |-> Linked, path |-> entry.path, listed |-> {},
                                         left |-> {}, stat |-> entry.stat])
            /\ counts' = [counts EXCEPT !.directories = @ + 1]
            /\ staged' = Stage(entry.path, StagedDirectory(DirMode))
            /\ entry' = NoEntry
            /\ pc' = "list"
            /\ UNCHANGED <<got, buffered, omitted, links>>
    /\ SourceKept

(* visit_file, open_regular_at: only now is the staging file created.      *)
OpenFile ==
    /\ pc = "open" /\ entry.stat.kind = "file"
    /\ IF entry.stat.size > FileLimit \/ "r" \notin entry.stat.mode \/ ~LinkUnchanged
       THEN Fail
       ELSE /\ entry' = [entry EXCEPT !.fd = Linked]
            /\ got' = <<>>
            /\ staged' = Stage(entry.path, StagedFile(<<>>, {"r", "w"}))
            /\ pc' = IF control.execute THEN "copy" ELSE "recheck"
            /\ UNCHANGED <<frames, buffered, report>>
    /\ SourceKept

(* copy_bounded: one read and write, or the end of the file.               *)
CopyBlock ==
    /\ pc = "copy"
    /\ LET data == fs[entry.fd].data
       IN  IF Len(got) >= Len(data)
           THEN /\ pc' = "recheck"
                /\ staged' = [staged EXCEPT ![entry.path].mode = entry.stat.mode]
                /\ UNCHANGED <<frames, entry, got, buffered, report>>
           ELSE LET read == Append(got, data[Len(got) + 1])
                IN  IF Len(read) > FileLimit \/ counts.bytes + Len(read) > ByteLimit
                    THEN Fail
                    ELSE /\ got' = read
                         /\ staged' = [staged EXCEPT ![entry.path].data = read]
                         /\ UNCHANGED <<pc, frames, entry, buffered, report>>
    /\ SourceKept

(* The descriptor, after the last read.                                    *)
RecheckFile ==
    /\ pc = "recheck" /\ entry.stat.kind = "file"
    /\ IF SameEntry(entry.stat, Stat(fs, entry.fd))
       THEN pc' = "relink" /\ UNCHANGED <<frames, entry, got, buffered, report, staged>>
       ELSE Fail
    /\ SourceKept

(* The name again, then the accounting of visit_file.                      *)
AcceptFile ==
    /\ pc = "relink" /\ entry.stat.kind = "file"
    /\ LET bytes == counts.bytes + (IF control.execute THEN Len(got) ELSE entry.stat.size)
       IN  IF ~LinkUnchanged \/ bytes > ByteLimit
           THEN Fail
           ELSE /\ counts' = [counts EXCEPT !.bytes = bytes, !.files = @ + 1]
                /\ omitted' = [omitted EXCEPT !.hardLinked = @ + (IF entry.stat.links > 1 THEN 1 ELSE 0)]
                /\ pc' = "next"
                /\ UNCHANGED <<frames, entry, got, buffered, links, staged>>
    /\ SourceKept

(* visit_symlink: the target, read through the name.                       *)
ReadLink ==
    /\ pc = "open" /\ entry.stat.kind = "symlink"
    /\ IF \/ Linked = NoIno
          \/ Linked # NoIno /\ (fs[Linked].kind # "symlink" \/ TargetSize(fs[Linked].target) > TargetLimit)
       THEN Fail
       ELSE /\ got' = fs[Linked].target
            /\ pc' = "relink"
            /\ UNCHANGED <<frames, entry, buffered, report, staged>>
    /\ SourceKept

(* Mutant: a link managed by Quarters is treated like any other.           *)
AcceptLinkManaged ==
    /\ pc = "relink" /\ entry.stat.kind = "symlink"
    /\ LET resolved == Resolve(Frame.path, got)
           bytes == counts.bytes + TargetSize(got)
       IN  IF ~LinkUnchanged \/ resolved = Escaped \/ bytes > ByteLimit
           THEN Fail
           ELSE /\ counts' = [counts EXCEPT !.bytes = bytes, !.symlinks = @ + 1]
                /\ links' = links @@ (entry.path :> resolved)
                /\ staged' = Stage(entry.path, StagedLink(got))
                /\ pc' = "next"
                /\ UNCHANGED <<frames, entry, got, buffered, omitted>>
    /\ SourceKept

(* recheck_symlink, then: a link Quarters manages is omitted, one that     *)
(* leaves the home refuses the whole copy.                                 *)
AcceptLink ==
    /\ pc = "relink" /\ entry.stat.kind = "symlink"
    /\ LET resolved == Resolve(Frame.path, got)
           bytes == counts.bytes + TargetSize(got)
           managed == ManagedLink(entry.path, got)
       IN  \/ /\ ~LinkUnchanged \/ (~managed /\ (resolved = Escaped \/ bytes > ByteLimit))
              /\ Fail
           \/ /\ LinkUnchanged /\ managed
              /\ omitted' = [omitted EXCEPT !.managed = @ + 1]
              /\ pc' = "next"
              /\ UNCHANGED <<frames, entry, got, buffered, counts, links, staged>>
           \/ /\ LinkUnchanged /\ ~managed /\ resolved # Escaped /\ bytes <= ByteLimit
              /\ counts' = [counts EXCEPT !.bytes = bytes, !.symlinks = @ + 1]
              /\ links' = links @@ (entry.path :> resolved)
              /\ staged' = Stage(entry.path, StagedLink(got))
              /\ pc' = "next"
              /\ UNCHANGED <<frames, entry, got, buffered, omitted>>
    /\ SourceKept

(* finish: kept links whose target was omitted, summed over the roots.     *)
IntoOmitted ==
    MapThenSumSet(LAMBDA root : Cardinality({p \in DOMAIN links : Below(root, links[p])}),
                  omitted.roots)

(* The end of walk_directory: the mode goes to the staged directory only   *)
(* now, and the descriptor is compared, except that of the home.           *)
FinishDirectory ==
    /\ pc = "next" /\ Frame.left = {}
    /\ staged' = IF control.execute
                 THEN [staged EXCEPT ![Frame.path].mode = fs[Frame.ino].mode] ELSE staged
    /\ \/ /\ Frame.path = Home
          /\ omitted' = [omitted EXCEPT !.intoRoots = IntoOmitted]
          /\ pc' = "done"
       \/ /\ Frame.path # Home
          /\ pc' = IF SameEntry(Frame.stat, Stat(fs, Frame.ino)) THEN "reparent" ELSE "failed"
          /\ UNCHANGED omitted
    /\ UNCHANGED <<frames, entry, got, buffered, counts, links>>
    /\ SourceKept

(* Mutant: the walk goes on whatever became of the directory's name.       *)
AcceptDirectoryUnlinked ==
    /\ pc = "reparent"
    /\ frames' = Front(frames)
    /\ pc' = "next"
    /\ UNCHANGED <<entry, got, buffered, report, staged>>
    /\ SourceKept

(* The end of visit_directory: the directory's name in its parent.         *)
AcceptDirectory ==
    /\ pc = "reparent"
    /\ LET linked == Lookup(fs, frames[Len(frames) - 1].ino, Last(Frame.path))
       IN  IF linked # NoIno /\ SameEntry(Frame.stat, Stat(fs, linked))
           THEN /\ frames' = Front(frames)
                /\ pc' = "next"
                /\ UNCHANGED <<entry, got, buffered, report, staged>>
           ELSE Fail
    /\ SourceKept

-------------------------------------------------------------------------------
(* cleanup.rs: the failed copy's staging tree, of which the home is the    *)
(* first directory below the root.                                         *)

CleanupStep == UNCHANGED <<fs, control, frames, entry, got, buffered, report, writes>>

BeginCleanup ==
    /\ pc = "failed"
    /\ IF control.execute
       THEN pc' = "cleanup" /\ pending' = <<[path |-> Home, depth |-> 1]>>
       ELSE pc' = "refused" /\ UNCHANGED pending
    /\ UNCHANGED staged
    /\ CleanupStep

(* restore_directory_access: mode | S_IRWXU                                *)
Restored(mode) == mode \cup DirMode

(* restore_tree_access: one directory, its children queued.                *)
RestoreDirectory ==
    /\ pc = "cleanup" /\ pending # <<>>
    /\ LET at == Last(pending)
           children == {p \in DOMAIN staged : /\ p # Home /\ Parent(p) = at.path
                                              /\ staged[p].kind = "directory"}
       IN  IF at.depth > RemovalDepth \/ Len(pending) - 1 + Cardinality(children) > PendingLimit
           THEN pc' = "stuck" /\ UNCHANGED <<pending, staged>>
           ELSE /\ staged' = [staged EXCEPT ![at.path].mode = Restored(@)]
                /\ pending' = Front(pending) \o
                     [i \in 1 .. Cardinality(children) |->
                        [path |-> SetToSeq(children)[i], depth |-> at.depth + 1]]
                /\ UNCHANGED pc
    /\ CleanupStep

(* remove_dir_all, which needs the owner's access to every directory.      *)
RemoveTree ==
    /\ pc = "cleanup" /\ pending = <<>>
    /\ IF \A p \in DOMAIN staged : staged[p].kind = "directory" => DirMode \subseteq staged[p].mode
       THEN staged' = <<>> /\ pc' = "refused"
       ELSE pc' = "stuck" /\ UNCHANGED staged
    /\ UNCHANGED pending
    /\ CleanupStep

-------------------------------------------------------------------------------
(* A detached process of the user writes to a file, or changes what a name *)
(* leads to.                                                               *)

Stamped(f, is) == [i \in DOMAIN f |-> IF i \in is THEN [f[i] EXCEPT !.stamp = writes + 1] ELSE f[i]]
WalkKept == UNCHANGED <<control, pc, frames, entry, got, buffered, report, staged, pending>>
Walking == pc \in {"list", "next", "open", "copy", "recheck", "relink", "reparent"}

WriteFile ==
    /\ Walking /\ writes < MaxWrites
    /\ \E i \in DOMAIN fs, data \in NewData :
         /\ fs[i].kind = "file" /\ fs[i].mine
         /\ fs' = Stamped([fs EXCEPT ![i].data = data], {i})
    /\ writes' = writes + 1
    /\ WalkKept

Relink ==
    /\ Walking /\ writes < MaxWrites
    /\ \E d \in DOMAIN fs, n \in Names, i \in Spare :
         /\ fs[d].kind = "directory" /\ d # i
         /\ fs' = Stamped([fs EXCEPT ![d].entries = (n :> i) @@ @],
                          {d, i} \cup ({Lookup(fs, d, n)} \ {NoIno}))
    /\ writes' = writes + 1
    /\ WalkKept

Unlink ==
    /\ Walking /\ writes < MaxWrites
    /\ \E d \in DOMAIN fs : \E n \in DOMAIN fs[d].entries :
         fs' = Stamped([fs EXCEPT ![d].entries = [m \in DOMAIN @ \ {n} |-> @[m]]],
                       {d, fs[d].entries[n]})
    /\ writes' = writes + 1
    /\ WalkKept

(* The walk or its cleanup is over.                                        *)
Ended ==
    /\ pc \in {"done", "refused", "stuck"}
    /\ UNCHANGED vars

Walk ==
    \/ ListDirectory \/ NextEntry
    \/ OpenDirectory \/ FinishDirectory \/ AcceptDirectory
    \/ OpenFile \/ CopyBlock \/ RecheckFile \/ AcceptFile
    \/ ReadLink \/ AcceptLink

Cleanup == BeginCleanup \/ RestoreDirectory \/ RemoveTree

Next == Walk \/ Cleanup \/ WriteFile \/ Relink \/ Unlink \/ Ended

Spec == Init /\ [][Next]_vars

-------------------------------------------------------------------------------
(* What the walk should do, said of the whole tree at once.                *)

Paths == UNION {[1 .. n -> Names] : n \in 1 .. DepthLimit + 2}

InodeAt(f, p) ==
    LET at[k \in 0 .. Len(p)] ==
          IF k = 0 THEN Root
          ELSE IF at[k - 1] = NoIno THEN NoIno ELSE Lookup(f, at[k - 1], p[k])
    IN  at[Len(p)]

Entered(f, p) ==
    LET node == f[InodeAt(f, p)] IN ~ExcludesCache(p) /\ node.mine /\ node.kind = "directory"

Examined(f) ==
    {p \in Paths : /\ InodeAt(f, p) # NoIno
                   /\ \A n \in 1 .. Len(p) - 1 : Entered(f, SubSeq(p, 1, n))}

OfKind(f, kinds) ==
    {p \in Examined(f) : /\ ~ExcludesCache(p) /\ f[InodeAt(f, p)].mine
                         /\ f[InodeAt(f, p)].kind \in kinds}

Managed(f) == {p \in OfKind(f, {"symlink"}) : ManagedLink(p, f[InodeAt(f, p)].target)}
KeptLinks(f) == OfKind(f, {"symlink"}) \ Managed(f)

Bytes(f) ==
    MapThenSumSet(LAMBDA p : Len(f[InodeAt(f, p)].data), OfKind(f, {"file"}))
    + MapThenSumSet(LAMBDA p : TargetSize(f[InodeAt(f, p)].target), KeptLinks(f))

Refuses(f) ==
    \/ Cardinality(Examined(f)) > EntryLimit
    \/ Bytes(f) > ByteLimit
    \/ \E p \in OfKind(f, {"directory"}) :
         LET node == f[InodeAt(f, p)]
         IN  \/ Len(p) > DepthLimit \/ "r" \notin node.mode
             \/ "x" \notin node.mode /\ (control.artifact \/ node.entries # <<>>)
    \/ \E p \in OfKind(f, {"file"}) :
         LET node == f[InodeAt(f, p)] IN Len(node.data) > FileLimit \/ "r" \notin node.mode
    \/ \E p \in OfKind(f, {"symlink"}) : TargetSize(f[InodeAt(f, p)].target) > TargetLimit
    \/ \E p \in KeptLinks(f) : Resolve(Parent(p), f[InodeAt(f, p)].target) = Escaped

OmittedRoots(f) == {p \in Examined(f) : ExcludesCache(p)}

Copied(f) ==
    [p \in {Home} \cup OfKind(f, {"directory", "file"}) \cup KeptLinks(f)
          \cup (IF control.artifact THEN {} ELSE OmittedRoots(f)) |->
       LET node == f[InodeAt(f, p)]
       IN  IF p \in OmittedRoots(f) THEN StagedDirectory(DirMode)
           ELSE CASE node.kind = "directory" -> StagedDirectory(node.mode)
                  [] node.kind = "file" -> StagedFile(node.data, node.mode)
                  [] node.kind = "symlink" -> StagedLink(node.target)]

Reported(f) ==
    /\ counts = [entries |-> Cardinality(Examined(f)),
                 files |-> Cardinality(OfKind(f, {"file"})),
                 directories |-> Cardinality(OfKind(f, {"directory"})),
                 symlinks |-> Cardinality(KeptLinks(f)), bytes |-> Bytes(f)]
    /\ omitted = [roots |-> OmittedRoots(f),
                  special |-> Cardinality(OfKind(f, SpecialKinds)),
                  foreign |-> Cardinality({p \in Examined(f) : ~ExcludesCache(p) /\ ~f[InodeAt(f, p)].mine}),
                  managed |-> Cardinality(Managed(f)),
                  hardLinked |-> Cardinality({p \in OfKind(f, {"file"}) : LinkCount(f, InodeAt(f, p)) > 1}),
                  intoRoots |-> Cardinality({p \in KeptLinks(f) : \E r \in OmittedRoots(f) :
                                   Below(r, Resolve(Parent(p), f[InodeAt(f, p)].target))})]

-------------------------------------------------------------------------------
TypeOK ==
    /\ control \in [execute : BOOLEAN, cache : BOOLEAN, artifact : BOOLEAN]
    /\ Walking \/ pc \in {"done", "failed", "cleanup", "refused", "stuck"}
    /\ \A i \in DOMAIN frames : frames[i].ino \in DOMAIN fs /\ frames[i].left \subseteq frames[i].listed
    /\ buffered = MapThenSumSet(LAMBDA i : Cardinality(frames[i].left), DOMAIN frames)
    /\ writes \in 0 .. MaxWrites

(* Of a source nobody writes to, the depth-first, one entry at a time walk *)
(* copies, reports and refuses exactly what the policy says of the whole   *)
(* tree; a preview and the copy therefore agree (walk_home, clone_plan).   *)
WalkComputesSelection ==
    /\ writes = 0 /\ pc = "done" =>
         /\ ~Refuses(fs)
         /\ Reported(fs)
         /\ control.execute => staged = Copied(fs)
    /\ writes = 0 /\ pc = "failed" => Refuses(fs)

(* What is copied of an entry is what the entry holds when its name is     *)
(* checked for the last time, and the names copied of a directory are all  *)
(* it then has, whatever other processes did since (visit_file,            *)
(* visit_symlink, visit_directory).                                        *)
EntriesAtOneInstant ==
    [][/\ pc = "relink" /\ pc' = "next" /\ entry.stat.kind = "file" /\ control.execute =>
            staged[entry.path].data = fs[Linked].data
       /\ pc = "relink" /\ pc' = "next" /\ entry.stat.kind = "symlink" => got = fs[Linked].target
       /\ pc = "reparent" /\ pc' = "next" =>
            LET linked == Lookup(fs, frames[Len(frames) - 1].ino, Last(Frame.path))
            IN  linked # NoIno /\ Frame.listed = DOMAIN fs[linked].entries]_vars

(* A source that grows while it is walked still gives a copy within the    *)
(* limits: names examined and buffered, blocks written and depth           *)
(* (directory_names, note_entry, copy_bounded).                            *)
WithinLimits ==
    /\ counts.entries + buffered <= EntryLimit
    /\ MapThenSumSet(LAMBDA p : Len(staged[p].data) + (IF staged[p].kind = "symlink"
                                                       THEN TargetSize(staged[p].target) ELSE 0),
                     DOMAIN staged) <= ByteLimit
    /\ Len(frames) <= DepthLimit + 1

(* Nothing of another user's files, no link that leaves the home, and      *)
(* nothing below an omitted cache root is staged, even when entries are    *)
(* exchanged between the checks and the reads.                             *)
StagedWithinPolicy ==
    \A p \in DOMAIN staged :
        /\ \A i \in DOMAIN staged[p].data : staged[p].data[i] \notin ForeignData
        /\ staged[p].kind = "symlink" => Resolve(Parent(p), staged[p].target) # Escaped
        /\ \A root \in CacheRoots : ~control.cache /\ Below(root, p) => p = root

(* A refused copy leaves no staging tree behind: the cleanup stays within  *)
(* its own limits and regains the access that copied modes took away       *)
(* (remove_tree, restore_tree_access).                                     *)
FailedCopyRemoved ==
    /\ pc # "stuck"
    /\ pc = "refused" /\ control.execute => staged = <<>>

(* Whatever others do to the source, the staged tree keeps to the limits   *)
(* and the policy, and it is gone if the copy is refused.                  *)
CopySound ==
    /\ TypeOK
    /\ WithinLimits
    /\ StagedWithinPolicy
    /\ FailedCopyRemoved

===============================================================================
