----------------------------- MODULE Confinement -----------------------------
(***************************************************************************)
(* Linux launches: filesystem confinement, the home view and the working   *)
(* directory (platform/linux/confinement, platform/linux.rs,               *)
(* platform/working_directory.rs, cli process.rs linux_launch).            *)
(*                                                                         *)
(* A launch plans its Landlock rules from paths of the host, opens the     *)
(* anchors again, mounts the space's home over the account's home, enters  *)
(* the working directory, resolves the executable, restricts itself and    *)
(* executes.  Other processes may exchange files or directories of the     *)
(* host between any two of these steps.                                    *)
(*                                                                         *)
(* The host is a forest of inodes, one tree per filesystem, and a table of *)
(* mounts.  A mount shows the tree below its root at a directory of its    *)
(* parent mount.  A place is an inode seen through a mount.                *)
(***************************************************************************)
EXTENDS Naturals, FiniteSets, Sequences, SequencesExt

CONSTANTS
    Nodes,      \* inodes
    Kind,       \* "dir", "file" or "link"
    Device,     \* the filesystem of each inode
    Target,     \* the absolute path in each symbolic link
    Runnable,   \* files with an execute bit
    Layout,     \* [dir, name] of each inode; dir is None for a filesystem's root
    SpaceHome,  \* the space's home in the store
    HostHome,   \* the account's home
    Runtime,    \* the space's runtime directory
    StoreRoot,  \* the store
    Quarters,   \* the executables that serve the request
    Hidden,     \* names of the credential directories in the account's home
    BuiltIn,    \* fixed policy paths: [path, access, source, required]
    Etc,        \* /etc
    Resolver,   \* /etc/resolv.conf
    Search,     \* PATH of the launcher
    Launches,   \* [mounts, request, writes] to be considered
    Exchanges,  \* pairs of inodes that other processes may exchange
    None

Links == {n \in Nodes : Kind[n] = "link"}
ExecutableRoots == {"system-executable-root", "system-configuration", "process-compatibility"}

ASSUME ConfinementAssumption ==
    /\ Layout \in [Nodes -> [dir : Nodes \cup {None}, name : STRING]]
    /\ \A n \in Nodes : Kind[n] \in {"dir", "file", "link"}
    /\ \A x \in Exchanges : x \subseteq Nodes /\ Cardinality(x) = 2
    /\ \A x \in Exchanges : \A a, b \in x : Device[a] = Device[b]
    /\ \A l \in Launches : l.writes \in Nat

VARIABLES
    where,      \* the position of each inode
    aliased,    \* files with a second hard link
    writes,     \* exchanges that other processes may still make
    mounts,     \* the mounts the launcher sees
    request,    \* mode, grants, workdir and program
    pc,
    plan,       \* the ConfinementPlan
    rules,      \* the prepared Landlock rules
    view,       \* inodes of the space's and the account's home held open
    cwd,
    exe,        \* the executable: path, expected inode and opened place
    changed,    \* when other processes changed the host
    planned     \* what lay beneath what when the plan was complete

hostVars == <<where, aliased, writes, planned, changed>>
vars == <<hostVars, mounts, request, pc, plan, rules, view, cwd, exe>>

-----------------------------------------------------------------------------
(***************************************************************************)
(* Paths, mounts and inodes as the kernel sees them                        *)
(***************************************************************************)
Path == Seq(STRING)
NoPlace == [mount |-> None, node |-> None]

MountAt(id) == CHOOSE m \in mounts : m.id = id
Root == LET top == CHOOSE m \in mounts : m.parent = None IN [mount |-> top.id, node |-> top.root]

(* A directory that is covered leads to the root of the mount over it.     *)
Cross(p) ==
    IF \E m \in mounts : m.parent = p.mount /\ m.at = p.node
    THEN LET m == CHOOSE m \in mounts : m.parent = p.mount /\ m.at = p.node
         IN [mount |-> m.id, node |-> m.root]
    ELSE p

Descend(p, name) ==
    IF \E c \in Nodes : where[c] = [dir |-> p.node, name |-> name]
    THEN Cross([mount |-> p.mount,
                node |-> CHOOSE c \in Nodes : where[c] = [dir |-> p.node, name |-> name]])
    ELSE NoPlace

(* realpath: every symbolic link on the way is followed.                   *)
Resolve[path \in Path] ==
    IF path = <<>> THEN [path |-> <<>>, place |-> Root]
    ELSE LET dir == Resolve[Front(path)]
             place == IF dir.path = None THEN NoPlace ELSE Descend(dir.place, Last(path))
         IN CASE place = NoPlace -> [path |-> None, place |-> NoPlace]
              [] place.node \in Links -> Resolve[Target[place.node]]
              [] OTHER -> [path |-> Append(dir.path, Last(path)), place |-> place]

Canonical(path) == Resolve[path].path

(* stat, and open without O_NOFOLLOW                                       *)
Stat(path) == Resolve[path].place

(* open with O_NOFOLLOW: the last component is not followed.               *)
Open[path \in Path] ==
    IF path = <<>> THEN Root
    ELSE LET dir == Stat(Front(path))
         IN IF dir = NoPlace THEN NoPlace ELSE Descend(dir, Last(path))

OpenDirectory(path) ==
    IF Open[path] # NoPlace /\ Kind[Open[path].node] = "dir" THEN Open[path] ELSE NoPlace

(* The inodes met by going from a place to ".." until the root.  Landlock  *)
(* looks for its rules along the same way.  What was moved out of a mount  *)
(* leads to the root of its filesystem.                                    *)
Ancestry(place) ==
    LET dirOf(p) == [mount |-> p.mount, node |-> where[p.node].dir]
        up[p \in [mount : {m.id : m \in mounts}, node : Nodes]] ==
            {p.node} \cup
            IF p.node # MountAt(p.mount).root
            THEN IF where[p.node].dir = None THEN {} ELSE up[dirOf(p)]
            ELSE IF MountAt(p.mount).parent = None THEN {}
            ELSE up[dirOf([mount |-> MountAt(p.mount).parent, node |-> MountAt(p.mount).at])]
    IN up[place]

(* An inode's path on its own filesystem                                   *)
OnDevice(n) ==
    LET path[m \in Nodes] ==
            IF where[m].dir = None THEN <<>> ELSE Append(path[where[m].dir], where[m].name)
    IN path[n]

(* The mount point that mountinfo shows                                    *)
Point(m) ==
    LET path[p \in [mount : {k.id : k \in mounts}, node : Nodes]] ==
            IF p.node # MountAt(p.mount).root
            THEN Append(path[[mount |-> p.mount, node |-> where[p.node].dir]], where[p.node].name)
            ELSE IF MountAt(p.mount).parent = None THEN <<>>
            ELSE path[[mount |-> MountAt(p.mount).parent, node |-> MountAt(p.mount).at]]
    IN path[[mount |-> m.id, node |-> m.root]]

-----------------------------------------------------------------------------
(***************************************************************************)
(* Overlap                                                                 *)
(***************************************************************************)
PathsOverlap(p, q) == IsPrefix(p, q) \/ IsPrefix(q, p)

(* Anchor::open and Anchor::overlaps                                       *)
Anchor(path) == [node |-> Open[path].node, ancestry |-> Ancestry(Open[path])]

AnchorsOverlap(a, b) == a.node \in b.ancestry \/ b.node \in a.ancestry

(* A region is a path on a filesystem.                                     *)
RegionsOverlap(r, s) == r.device = s.device /\ PathsOverlap(r.path, s.path)

(* kernel_mount: the nearest existing ancestor, and the mount serving it   *)
Existing(path) ==
    LET there == {i \in 0..Len(path) : Open[SubSeq(path, 1, i)] # NoPlace}
    IN SubSeq(path, 1, CHOOSE i \in there : \A j \in there : j <= i)

Located(path) == IsPrefix(Point(MountAt(Open[Existing(path)].mount)), Existing(path))

Region(path) ==
    LET mount == MountAt(Open[Existing(path)].mount)
    IN [device |-> Device[mount.root],
        path |-> OnDevice(mount.root) \o SubSeq(path, Len(Point(mount)) + 1, Len(path))]

(* Every mount strictly beneath a path, hidden or not                      *)
BeneathRegions(path) ==
    {[device |-> Device[m.root], path |-> OnDevice(m.root)] :
        m \in {k \in mounts : Point(k) # path /\ IsPrefix(path, Point(k))}}

(* Mutant: the mounts beneath a path are not considered.                   *)
RegionsOfPathOnly(path) == {Region(path)}

Regions(path) == {Region(path)} \cup BeneathRegions(path)

(* MountTopology::reject_overlap; a path that no mount locates is refused. *)
MountsOverlap(path, protected) ==
    \/ \E p \in {path} \cup protected : ~Located(p)
    \/ \E r \in Regions(path), p \in protected : \E s \in Regions(p) : RegionsOverlap(r, s)

-----------------------------------------------------------------------------
(***************************************************************************)
(* The plan                                                                *)
(***************************************************************************)
Confined == request.mode \in {"confined", "both"}
HomeView == request.mode \in {"view", "both"}
EffectiveHome == IF HomeView THEN HostHome ELSE SpaceHome

Refuse(stage) == pc' = "refused" /\ plan' = [plan EXCEPT !.stage = stage]

(* validate_private_directory                                              *)
Private(path) == Stat(path) # NoPlace /\ Open[path] = Stat(path) /\ Kind[Open[path].node] = "dir"

Grant(path, access, source) ==
    [path |-> Canonical(path), access |-> access, source |-> source, node |-> Stat(path).node]

(* push_canonical and push_optional; an optional path that is missing is   *)
(* omitted.  A path and its access occur once (deduplicate_grants).        *)
BuiltInGrants ==
    {Grant(b.path, b.access, b.source) : b \in {c \in BuiltIn : Stat(c.path) # NoPlace}}

(* add_resolver_target                                                     *)
ResolverGrants ==
    IF Stat(Resolver) # NoPlace /\ ~IsPrefix(Etc, Canonical(Resolver))
    THEN {Grant(Resolver, "read-file", "derived-resolver-target")} ELSE {}

(* An unconfined launch has no plan.                                       *)
Begin ==
    /\ pc = "idle"
    /\ pc' = IF Confined THEN "discover"
             ELSE IF request.workdir # None THEN "workdir"
             ELSE IF HomeView THEN "view" ELSE "exec"
    /\ UNCHANGED <<hostVars, mounts, request, plan, rules, view, cwd, exe>>

Discover ==
    /\ pc = "discover"
    /\ IF /\ Private(SpaceHome) /\ Private(Runtime)
          /\ \A b \in BuiltIn : b.required => Stat(b.path) # NoPlace
       THEN /\ plan' = [plan EXCEPT !.grants = BuiltInGrants \cup ResolverGrants]
            /\ pc' = "disjoint"
       ELSE Refuse("discover")
    /\ UNCHANGED <<hostVars, mounts, request, rules, view, cwd, exe>>

(* Anchor::verify: the path still leads to the inode in the plan.          *)
Verified(g) == Open[g.path].node = g.node

(* ensure_store_disjoint                                                   *)
StoreDisjoint ==
    LET roots == {g \in plan.grants : g.source \in ExecutableRoots}
        kept == {Canonical(StoreRoot), Canonical(SpaceHome)}
    IN /\ None \notin kept
       /\ \A g \in roots : Verified(g)
       /\ \A g \in roots, p \in kept :
             ~IsPrefix(g.path, p) /\ ~AnchorsOverlap(Anchor(g.path), Anchor(p))

CheckStore ==
    /\ pc = "disjoint"
    /\ IF StoreDisjoint
       THEN /\ pc' = IF request.grants = <<>> THEN "workdir" ELSE "reserve"
            /\ UNCHANGED plan
       ELSE Refuse("disjoint")
    /\ UNCHANGED <<hostVars, mounts, request, rules, view, cwd, exe>>

(* reserved_paths; a credential directory counts at its own path and where *)
(* a symbolic link takes it.                                               *)
ReservedPaths ==
    LET credentials == {Append(Canonical(HostHome), h) : h \in Hidden}
    IN {Canonical(p) : p \in {StoreRoot, Runtime} \cup Quarters}
       \cup credentials
       \cup ({Canonical(c) : c \in credentials} \ {None})
       \cup (IF HomeView THEN {Canonical(HostHome)} ELSE {})

(* existing_anchors, and the anchors of the built-in grants                *)
Reserve ==
    /\ pc = "reserve"
    /\ IF None \notin {Canonical(HostHome)} \cup ReservedPaths /\ \A g \in plan.grants : Verified(g)
       THEN /\ plan' = [plan EXCEPT
                  !.reserved = ReservedPaths,
                  !.anchors = {Anchor(p) : p \in {q \in ReservedPaths : Open[q] # NoPlace}}
                              \cup {Anchor(g.path) : g \in plan.grants}]
            /\ pc' = "resolve"
       ELSE Refuse("reserve")
    /\ UNCHANGED <<hostVars, mounts, request, rules, view, cwd, exe>>

UserGrants == {g \in plan.grants : g.source = "user-granted"}
BuiltInPaths == {g.path : g \in plan.grants \ UserGrants}

(* Each user grant is resolved ...                                         *)
ResolveGrant ==
    LET path == Canonical(request.grants[plan.next].path) IN
    /\ pc = "resolve"
    /\ IF path # None /\ path \notin {g.path : g \in UserGrants}
       THEN plan' = [plan EXCEPT !.path = path] /\ pc' = "check"
       ELSE Refuse("resolve")
    /\ UNCHANGED <<hostVars, mounts, request, rules, view, cwd, exe>>

(* user_access_class                                                       *)
UserAccess(kind, write) ==
    CASE kind = "dir" -> IF write THEN "data-read-write" ELSE "data-read"
      [] OTHER -> IF write THEN "data-read-write-file" ELSE "data-read-file"

(* ... and compared with the other grants, the reserved and the built-in   *)
(* paths: by path, by inode and by the regions that mounts show.           *)
Admissible(path) ==
    LET anchor == Anchor(path)
        others == UserGrants
        fixed == plan.reserved \cup BuiltInPaths
    IN /\ \A g \in others : ~PathsOverlap(g.path, path)
       /\ \A a \in plan.anchors \cup plan.userAnchors : ~AnchorsOverlap(a, anchor)
       /\ \A p \in fixed : ~PathsOverlap(p, path)
       /\ ~MountsOverlap(path, fixed)
       /\ Kind[anchor.node] # "link" /\ anchor.node \notin aliased

CheckGrant ==
    LET path == plan.path
        wanted == request.grants[plan.next]
    IN
    /\ pc = "check"
    /\ IF Open[path] # NoPlace /\ Admissible(path)
       THEN /\ plan' = [plan EXCEPT
                  !.grants = @ \cup {[path |-> path,
                                      access |-> UserAccess(Kind[Open[path].node], wanted.write),
                                      source |-> "user-granted", node |-> Open[path].node]},
                  !.userAnchors = @ \cup {Anchor(path)},
                  !.next = @ + 1]
            /\ pc' = IF plan.next < Len(request.grants) THEN "resolve" ELSE "workdir"
       ELSE Refuse("check")
    /\ UNCHANGED <<hostVars, mounts, request, rules, view, cwd, exe>>

(* resolve_home_view_working_directory: the entry path and the directory   *)
(* it is identified by                                                     *)
ViewDirectory(path) ==
    LET c == Canonical(path)
        space == Canonical(SpaceHome)
        host == Canonical(HostHome)
        beyond(root) == SubSeq(c, Len(root) + 1, Len(c))
    IN CASE IsPrefix(space, c) -> [path |-> host \o beyond(space), source |-> c]
         [] ~IsPrefix(space, c) /\ IsPrefix(host, c) ->
               [path |-> host \o beyond(host), source |-> space \o beyond(host)]
         [] OTHER -> [path |-> c, source |-> c]

IsDirectory(path) == Stat(path) # NoPlace /\ Kind[Stat(path).node] = "dir"

(* resolve_working_directory up to the descriptor                          *)
Directory ==
    CASE request.workdir = None ->
           [path |-> Canonical(EffectiveHome),
            source |-> IF HomeView THEN SpaceHome ELSE Canonical(EffectiveHome)]
      [] request.workdir # None /\ HomeView -> ViewDirectory(request.workdir)
      [] OTHER -> [path |-> Canonical(request.workdir), source |-> Canonical(request.workdir)]

(* A confined working directory is the home, below it, or below a granted  *)
(* directory.                                                              *)
Within(path) ==
    \/ ~Confined
    \/ request.workdir = None
    \/ IsPrefix(IF HomeView THEN Canonical(HostHome) ELSE Canonical(SpaceHome), path)
    \/ \E g \in UserGrants : g.access \in {"data-read", "data-read-write"} /\ IsPrefix(g.path, path)

ResolveWorkdir ==
    /\ pc = "workdir"
    /\ IF /\ request.mode # "plain" => None \notin {Canonical(EffectiveHome), Canonical(SpaceHome)}
          /\ Confined => \E g \in plan.grants : g.access = "read-execute"
          /\ request.workdir = None \/ IsDirectory(request.workdir)
       THEN IF IsDirectory(Directory.source)
            THEN /\ plan' = [plan EXCEPT !.path = Directory.path, !.source = Directory.source,
                                         !.root = Canonical(EffectiveHome)]
                 /\ pc' = "identify"
            ELSE Refuse("workdir")
       ELSE Refuse("workdir")
    /\ UNCHANGED <<hostVars, mounts, request, rules, view, cwd, exe>>

(* What a careful observer would note when the plan is complete: the       *)
(* inodes beneath each inode, through every mount, and the protected ones. *)
Shown ==
    {p \in [mount : {m.id : m \in mounts}, node : Nodes] :
        IsPrefix(OnDevice(MountAt(p.mount).root), OnDevice(p.node))
        /\ Device[MountAt(p.mount).root] = Device[p.node]}

ProtectedNodes ==
    LET paths == {StoreRoot, Runtime} \cup Quarters \cup {Append(HostHome, h) : h \in Hidden}
                 \cup {b.path : b \in BuiltIn} \cup (IF HomeView THEN {HostHome} ELSE {})
    IN {Stat(p).node : p \in paths} \ {None}

Census ==
    [below |-> [n \in Nodes |-> {p.node : p \in {q \in Shown : n \in Ancestry(q)}}],
     protected |-> ProtectedNodes,
     home |-> Stat(SpaceHome).node]

(* WorkingDirectory::identified; then the plan is complete.                *)
Identify ==
    /\ pc = "identify"
    /\ IF OpenDirectory(plan.source) # NoPlace /\ Within(plan.path)
       THEN /\ plan' = [plan EXCEPT !.node = OpenDirectory(plan.source).node]
            /\ pc' = IF Confined THEN "prepare" ELSE IF HomeView THEN "view" ELSE "enter"
       ELSE Refuse("identify")
    /\ planned' = Census
    /\ UNCHANGED <<where, aliased, writes, changed, mounts, request, rules, view, cwd, exe>>

-----------------------------------------------------------------------------
(***************************************************************************)
(* The launch                                                              *)
(***************************************************************************)
All == {"ReadFile", "ReadDir", "Execute", "WriteFile", "Truncate", "Make"}

(* grant_access                                                            *)
Rights(access) ==
    CASE access \in {"read-file", "data-read-file"} -> {"ReadFile"}
      [] access \in {"read", "data-read"} -> {"ReadFile", "ReadDir"}
      [] access = "read-execute" -> {"ReadFile", "ReadDir", "Execute"}
      [] access = "read-write" -> All
      [] access = "data-read-write" -> All \ {"Execute"}
      [] access = "data-read-write-file" -> {"ReadFile", "WriteFile", "Truncate"}
      [] access = "device" -> {"ReadFile", "WriteFile"}

(* policy::prepare opens every anchor; a file must still have one link.    *)
AnchorUnchanged(g) ==
    /\ Stat(g.path).node = g.node
    /\ g.access \in {"data-read-file", "data-read-write-file"} => g.node \notin aliased

Prepare ==
    /\ pc = "prepare"
    /\ IF \A g \in plan.grants : AnchorUnchanged(g)
       THEN /\ rules' = {[node |-> Stat(g.path).node, rights |-> Rights(g.access),
                          user |-> g.source = "user-granted"] : g \in plan.grants}
            /\ pc' = IF HomeView THEN "view" ELSE "enter"
            /\ UNCHANGED plan
       ELSE Refuse("prepare") /\ UNCHANGED rules
    /\ UNCHANGED <<hostVars, mounts, request, view, cwd, exe>>

(* platform_enter_home_view opens both homes ...                           *)
OpenHomes ==
    /\ pc = "view"
    /\ IF OpenDirectory(SpaceHome) # NoPlace /\ OpenDirectory(HostHome) # NoPlace
       THEN /\ view' = [space |-> OpenDirectory(SpaceHome).node, host |-> OpenDirectory(HostHome).node]
            /\ pc' = "stage"
            /\ UNCHANGED plan
       ELSE Refuse("view") /\ UNCHANGED view
    /\ UNCHANGED <<hostVars, mounts, request, rules, cwd, exe>>

(* ... binds the space's home to the staging directory and compares what   *)
(* is there with the open one ...                                          *)
StageHome ==
    /\ pc = "stage"
    /\ IF Stat(SpaceHome).node = view.space
       THEN pc' = "attach" /\ UNCHANGED plan
       ELSE Refuse("view")
    /\ UNCHANGED <<hostVars, mounts, request, rules, view, cwd, exe>>

(* ... finds the account's home unchanged ...                              *)
CheckAccountHome ==
    /\ pc = "attach"
    /\ IF OpenDirectory(HostHome).node = view.host
       THEN pc' = "mount" /\ UNCHANGED plan
       ELSE Refuse("view")
    /\ UNCHANGED <<hostVars, mounts, request, rules, view, cwd, exe>>

(* ... mounts what is staged over whatever its path leads to now, in a     *)
(* mount namespace of its own ...                                          *)
AttachHome ==
    /\ pc = "mount"
    /\ IF IsDirectory(HostHome)
       THEN /\ mounts' = mounts \cup {[id |-> "view", parent |-> Stat(HostHome).mount,
                                       at |-> Stat(HostHome).node, root |-> view.space]}
            /\ pc' = "chdir"
            /\ UNCHANGED plan
       ELSE Refuse("view") /\ UNCHANGED mounts
    /\ UNCHANGED <<hostVars, request, rules, view, cwd, exe>>

(* ... and enters that path, which must then be the space's home.          *)
EnterView ==
    /\ pc = "chdir"
    /\ IF Stat(HostHome).node = view.space
       THEN /\ cwd' = view.space
            /\ pc' = IF plan.node = None THEN "exec" ELSE "enter"
            /\ UNCHANGED plan
       ELSE Refuse("view") /\ UNCHANGED cwd
    /\ UNCHANGED <<hostVars, mounts, request, rules, view, exe>>

(* Mutant: the directory is entered by its path alone.                     *)
EnterByPath ==
    /\ pc = "enter"
    /\ IF OpenDirectory(plan.path) # NoPlace
       THEN /\ cwd' = OpenDirectory(plan.path).node
            /\ pc' = IF Confined THEN "executable" ELSE "exec"
            /\ UNCHANGED plan
       ELSE Refuse("enter") /\ UNCHANGED cwd
    /\ UNCHANGED <<hostVars, mounts, request, rules, view, exe>>

(* WorkingDirectory::enter                                                 *)
Enter ==
    /\ pc = "enter"
    /\ IF OpenDirectory(plan.path).node = plan.node
       THEN /\ cwd' = plan.node
            /\ pc' = IF Confined THEN "executable" ELSE "exec"
            /\ UNCHANGED plan
       ELSE Refuse("enter") /\ UNCHANGED cwd
    /\ UNCHANGED <<hostVars, mounts, request, rules, view, exe>>

IsExecutable(place) == place # NoPlace /\ place.node \in Runnable

(* map_home_view_program for a path, resolve_name for a bare name          *)
Candidate ==
    LET program == request.program
        hits == {i \in 1..Len(Search) : IsExecutable(Stat(Search[i] \o program.path))}
    IN CASE program.bare /\ hits # {} ->
              Search[CHOOSE i \in hits : \A j \in hits : i <= j] \o program.path
         [] program.bare /\ hits = {} -> None
         [] ~program.bare /\ IsPrefix(SpaceHome, program.path) ->
              EffectiveHome \o SubSeq(program.path, Len(SpaceHome) + 1, Len(program.path))
         [] OTHER -> program.path

(* resolve_executable: beneath the command root or an executable grant     *)
ExecutableAllowed(path) ==
    \/ IsPrefix(plan.root, path)
    \/ \E g \in plan.grants : g.access \in {"read-execute", "read-write"} /\ IsPrefix(g.path, path)

ResolveExecutable ==
    LET path == IF Candidate = None THEN None ELSE Canonical(Candidate) IN
    /\ pc = "executable"
    /\ IF path # None
       THEN IF ExecutableAllowed(path) /\ IsExecutable(Stat(path))
            THEN /\ exe' = [path |-> path, node |-> Stat(path).node, place |-> NoPlace]
                 /\ pc' = "open"
                 /\ UNCHANGED plan
            ELSE Refuse("executable") /\ UNCHANGED exe
       ELSE Refuse("executable") /\ UNCHANGED exe
    /\ UNCHANGED <<hostVars, mounts, request, rules, view, cwd>>

(* open_stable_executable                                                  *)
OpenExecutable ==
    /\ pc = "open"
    /\ IF Open[exe.path].node = exe.node
       THEN exe' = [exe EXCEPT !.place = Open[exe.path]] /\ pc' = "exec" /\ UNCHANGED plan
       ELSE Refuse("open") /\ UNCHANGED exe
    /\ UNCHANGED <<hostVars, mounts, request, rules, view, cwd>>

(* The kernel's answer to a restricted process                             *)
Permits(place, right) ==
    \E r \in rules : r.node \in Ancestry(place) /\ right \in r.rights

(* enter_filesystem_confinement, then execveat of the descriptor           *)
Execute ==
    /\ pc = "exec"
    /\ IF Confined => Permits(exe.place, "Execute")
       THEN pc' = "launched" /\ UNCHANGED plan
       ELSE Refuse("exec")
    /\ UNCHANGED <<hostVars, mounts, request, rules, view, cwd, exe>>

Planning == {"discover", "disjoint", "reserve", "resolve", "check", "workdir", "identify"}
Ended == {"launched", "refused"}

(* Another process exchanges two files or directories that it does not see *)
(* as mount points, or links a file once more.                             *)
Tick ==
    /\ pc \notin Ended \cup {"idle"}
    /\ writes > 0
    /\ writes' = writes - 1
    /\ changed' = IF pc \in Planning THEN "planning"
                  ELSE IF changed = "no" THEN "launching" ELSE changed
    /\ UNCHANGED <<planned, mounts, request, pc, plan, rules, view, cwd, exe>>

Exchange ==
    /\ Tick
    /\ \E x \in Exchanges : \E a \in x : \E b \in x \ {a} :
          /\ ~PathsOverlap(OnDevice(a), OnDevice(b))
          /\ \A m \in mounts : m.at \in x => m.id = "view"
          /\ where' = [where EXCEPT ![a] = where[b], ![b] = where[a]]
    /\ UNCHANGED aliased

AddLink ==
    /\ Tick
    /\ \E f \in Nodes \ aliased : Kind[f] = "file" /\ aliased' = aliased \cup {f}
    /\ UNCHANGED where

NewPlan ==
    [grants |-> {}, reserved |-> {}, anchors |-> {}, userAnchors |-> {}, next |-> 1,
     path |-> None, source |-> None, root |-> None, node |-> None, stage |-> None]

InitOf(launch) ==
    /\ mounts = launch.mounts
    /\ request = launch.request
    /\ writes = launch.writes
    /\ where = Layout
    /\ aliased = {}
    /\ planned = None
    /\ changed = "no"
    /\ pc = "idle"
    /\ plan = NewPlan
    /\ rules = {}
    /\ view = [space |-> None, host |-> None]
    /\ cwd = None
    /\ exe = [path |-> None, node |-> None, place |-> NoPlace]

Init == \E launch \in Launches : InitOf(launch)

(* linux_launch after it has begun                                         *)
Continue ==
    \/ Discover \/ CheckStore \/ Reserve \/ ResolveGrant \/ CheckGrant
    \/ ResolveWorkdir \/ Identify \/ Prepare \/ OpenHomes \/ StageHome
    \/ CheckAccountHome \/ AttachHome \/ EnterView \/ Enter \/ ResolveExecutable \/ OpenExecutable \/ Execute

Next == Begin \/ Continue \/ Exchange \/ AddLink

Spec == Init /\ [][Next]_vars

-----------------------------------------------------------------------------
Accesses == {"read-file", "read", "read-execute", "read-write", "device", "data-read-file",
             "data-read", "data-read-write", "data-read-write-file"}

TypeOK ==
    /\ where \in [Nodes -> [dir : Nodes \cup {None}, name : STRING]]
    /\ aliased \subseteq {n \in Nodes : Kind[n] = "file"}
    /\ writes \in Nat
    /\ request.mode \in {"plain", "view", "confined", "both"}
    /\ pc \in Planning \cup Ended \cup {"idle", "prepare", "view", "stage", "attach", "mount",
                                      "chdir", "enter", "executable", "open", "exec"}
    /\ \A g \in plan.grants : g.access \in Accesses /\ g.node \in Nodes /\ g.path # None
    /\ pc \in {"check", "identify", "prepare", "executable"} => plan.path # None
    /\ plan.next \in 1..(Len(request.grants) + 1)
    /\ \A r \in rules : r.node \in Nodes /\ r.rights \subseteq All
    /\ rules # {} => Confined
    /\ cwd \in Nodes \cup {None}
    /\ pc \in {"open", "exec"} /\ Confined => exe.node \in Runnable
    /\ changed \in {"no", "planning", "launching"}

(* add_user_grants and policy::prepare: whatever happens on the host after *)
(* the plan, no rule that a user grant adds reaches an inode which lay     *)
(* beneath the store, the runtime, the executables, the credentials or a   *)
(* built-in root, under any name that symbolic links or mounts give it.    *)
GrantsClosed ==
    rules # {} /\ changed # "planning" =>
        \A r \in rules : r.user =>
            \A n \in planned.protected : planned.below[r.node] \cap planned.below[n] = {}

(* resolve_working_directory and WorkingDirectory::enter: a confined       *)
(* process starts in the space's home, or where it was told to if that lay *)
(* in the space's home or in a granted directory.                          *)
WorkdirInside ==
    pc = "launched" /\ Confined /\ changed # "planning" =>
        /\ \/ cwd \in planned.below[planned.home]
           \/ \E r \in rules : r.user /\ cwd \in planned.below[r.node]
        /\ request.workdir = None => cwd = planned.home

(* linux_launch: on a host that nobody changes, a plan that was accepted   *)
(* is carried out.  The anchors, the home view and the working directory   *)
(* are what was planned, and the kernel executes what resolve_executable   *)
(* accepts.                                                                *)
PlanHolds ==
    pc = "refused" /\ changed = "no" => plan.stage \in Planning \cup {"executable"}

(* Filesystems that are mounted once and as a whole                        *)
NoAliases ==
    /\ \A m \in mounts : where[m.root].dir = None
    /\ \A m, k \in mounts : m.root = k.root => m = k

(* add_user_grants: on a host without aliases a user grant is refused only *)
(* if it has something in common with what is protected or with another    *)
(* grant.                                                                  *)
RefusalsJustified ==
    pc = "refused" /\ plan.stage = "check" /\ changed = "no" /\ NoAliases =>
        LET below(n) == {p.node : p \in {q \in Shown : n \in Ancestry(q)}}
        IN \E n \in ProtectedNodes \cup {g.node : g \in UserGrants} :
              below(n) \cap below(Stat(plan.path).node) # {}

(* A launch does what its plan says: it starts where it was told to, with  *)
(* what was planned, and nothing is refused without a reason.              *)
LaunchSound == TypeOK /\ WorkdirInside /\ PlanHolds /\ RefusalsJustified

=============================================================================
