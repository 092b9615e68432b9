-------------------------------- MODULE HostFork --------------------------------
(***************************************************************************)
(* A space forked from selected files of the host's home                   *)
(* (store/host_fork): the content-free plan a preview shows, the digest    *)
(* the user confirms, the plan prepared again at execution, the copy from  *)
(* the descriptors it holds, the second look at every source by its path,  *)
(* the publication of one complete space, and the attempt after one that   *)
(* failed, whose cleanup may have failed with it.                          *)
(*                                                                         *)
(* The host's home is in use: the user's other processes write, replace    *)
(* and remove files between any two of these steps.  A change shows in a   *)
(* file's metadata (its stamp); of a directory only the inode and the mode *)
(* are compared.  The digest is collision free, so it is the plan itself.  *)
(* Publication against recovery and other creations is Staging's subject.  *)
(***************************************************************************)
EXTENDS Naturals, Sequences, FiniteSets, FiniteSetsExt, SequencesExt

CONSTANTS
    Hosts,          \* host file systems: inode -> node
    HomeIno,        \* the inode HOME leads to at first
    Spare,          \* inodes other processes may link
    NewData,        \* contents other processes may write
    Presets,        \* SHELL_PATHS
    Requests,       \* what users ask: [explicit, replace, nested]
    Rank,           \* the order of relative paths
    Sensitive,      \* explicit paths reject_sensitive_path refuses
    Generated,      \* files and directories populate_space makes
    Replaceable,    \* generated_conflict: the files a fork may replace
    Tailed,         \* startup files that get the managed tail
    FileLimit,      \* MAX_FILE_BYTES
    TotalLimit,     \* MAX_TOTAL_BYTES
    MaxWrites,      \* bound: writes by other processes
    MaxAttempts     \* bound: executions of one confirmed plan

ASSUME HostForkAssumption ==
    /\ FileLimit \in Nat /\ TotalLimit \in Nat /\ MaxWrites \in Nat /\ MaxAttempts \in Nat
    /\ Presets \subseteq DOMAIN Rank /\ \A p \in DOMAIN Rank : Rank[p] \in Nat
    /\ \A p, q \in DOMAIN Rank : Rank[p] = Rank[q] => p = q
    /\ \A r \in Requests : r.explicit \subseteq DOMAIN Rank
    /\ Tailed \subseteq Presets /\ Replaceable \subseteq Generated /\ Generated # {}
    /\ NewData \subseteq Seq(STRING)
    /\ \A h \in Hosts :
         /\ h = [i \in DOMAIN h |-> h[i]] /\ HomeIno \in DOMAIN h /\ Spare \subseteq DOMAIN h
         /\ \A i \in DOMAIN h :
              /\ h[i] = [kind |-> h[i].kind, safe |-> h[i].safe, entries |-> h[i].entries,
                         data |-> h[i].data, stamp |-> 0]
              /\ h[i].data \in Seq(STRING)

VARIABLES
    fs, home,       \* the host: inodes, and what HOME leads to
    phase,          \* "preview" or "execute"
    pc,
    request,        \* the request of this phase
    todo,           \* candidates not looked at yet
    plan,           \* PreparedHostFork of this phase
    confirmed,      \* the plan of the preview the user confirmed
    shown,          \* the files' contents when the preview looked at them
    got,            \* blocks read of the file being copied
    staged,         \* the staging home: path -> data
    space,          \* the published home
    rival,          \* another process has created the destination
    attempts,       \* executions begun after the first
    writes

source == <<fs, home, writes>>
vars == <<source, phase, pc, request, todo, plan, confirmed, shown, got, staged, space, rival, attempts>>

NoIno == "none"
Nothing == <<>>
NoPlan == [anchor |-> NoIno, sources |-> <<>>, absent |-> {}, ineligible |-> {}, replace |-> FALSE]

-------------------------------------------------------------------------------
(* What is found on a host, which is fs at the moment of the call          *)
Lookup(host, dir, name) ==
    IF name \in DOMAIN host[dir].entries /\ host[dir].entries[name] \in DOMAIN host
    THEN host[dir].entries[name] ELSE NoIno

LinkCount(host, i) ==
    MapThenSumSet(LAMBDA d : Cardinality({n \in DOMAIN host[d].entries : host[d].entries[n] = i}), DOMAIN host)

(* SourceMetadata, DirectoryIdentity                                       *)
Metadata(host, i) ==
    [ino |-> i, safe |-> host[i].safe, links |-> LinkCount(host, i), size |-> Len(host[i].data),
     stamp |-> host[i].stamp]
Directory(host, i) == [ino |-> i, safe |-> host[i].safe]

(* open_relative below a directory: the descriptors of the parents, then   *)
(* the file.  What cannot be opened has a reason instead.                  *)
Opened(ino, parents) == [reason |-> "none", ino |-> ino, parents |-> parents]
Not(reason) == [reason |-> reason, ino |-> NoIno, parents |-> <<>>]

OpenDirectory(host, at, name) ==
    LET i == Lookup(host, at.ino, name)
    IN  CASE at.reason # "none" -> at
          [] at.reason = "none" /\ i = NoIno -> Not("missing")
          [] at.reason = "none" /\ i # NoIno /\ host[i].kind = "symlink" -> Not("unsupported")
          [] at.reason = "none" /\ i # NoIno /\ host[i].kind = "file" -> Not("unavailable")
          [] at.reason = "none" /\ i # NoIno /\ host[i].kind = "directory" ->
               IF host[i].safe THEN Opened(i, Append(at.parents, Directory(host, i))) ELSE Not("unsafe")

OpenParents(host, anchor, path) ==
    FoldLeft(LAMBDA at, name : OpenDirectory(host, at, name), Opened(anchor, <<>>), Front(path))

OpenRelative(host, anchor, path) ==
    LET at == OpenParents(host, anchor, path)
        i == Lookup(host, at.ino, Last(path))
    IN  CASE at.reason # "none" -> at
          [] at.reason = "none" /\ i = NoIno -> Not("missing")
          [] at.reason = "none" /\ i # NoIno /\ host[i].kind = "symlink" -> Not("unsupported")
          [] at.reason = "none" /\ i # NoIno /\ host[i].kind # "symlink" ->
               IF host[i].kind = "file" /\ host[i].safe /\ LinkCount(host, i) = 1
               THEN Opened(i, at.parents) ELSE Not("unsafe")

(* open_source adds the limit of one file.                                 *)
OpenSource(host, anchor, path) ==
    LET opened == OpenRelative(host, anchor, path)
    IN  IF opened.reason = "none" /\ Len(host[opened.ino].data) > FileLimit
        THEN Not("limit") ELSE opened

(* SourceFile: an opened file with the metadata of its descriptor          *)
SourceFile(host, path, opened) ==
    [path |-> path, meta |-> Metadata(host, opened.ino), parents |-> opened.parents]

-------------------------------------------------------------------------------
Init ==
    /\ fs \in Hosts /\ home = HomeIno
    /\ phase = "preview" /\ pc = "begin"
    /\ request \in Requests
    /\ todo = {} /\ plan = NoPlan /\ confirmed = NoPlan /\ shown = Nothing
    /\ got = <<>> /\ staged = Nothing /\ space = Nothing
    /\ rival = FALSE /\ attempts = 0 /\ writes = 0

Refuse ==
    /\ pc' = "refused"
    /\ UNCHANGED <<phase, request, todo, plan, confirmed, shown, got, staged, space, rival, attempts>>

(* preflight_destination, and publish again: another creation or an        *)
(* earlier attempt of this one may have taken the name.                    *)
Taken == rival \/ space # Nothing

(* preflight_destination, reject_nested_fork, open_home_anchor and         *)
(* candidate_paths                                                         *)
Begin ==
    /\ pc = "begin"
    /\ IF \/ Taken \/ request.nested \/ ~fs[home].safe
          \/ request.explicit \cap Sensitive # {}
       THEN Refuse
       ELSE /\ todo' = Presets \cup request.explicit
            /\ plan' = [NoPlan EXCEPT !.anchor = home, !.replace = request.replace]
            /\ pc' = "open"
            /\ UNCHANGED <<phase, request, confirmed, shown, got, staged, space, rival, attempts>>
    /\ UNCHANGED source

Candidate == CHOOSE p \in todo : \A q \in todo : Rank[p] <= Rank[q]
Planned == [p \in {s.path : s \in Range(plan.sources)} |->
              CHOOSE s \in Range(plan.sources) : s.path = p]
TotalBytes(sources) == MapThenSumSet(LAMBDA s : s.meta.size, Range(sources))

(* f with a value at one more path                                         *)
With(f, path, value) == [p \in DOMAIN f \cup {path} |-> IF p = path THEN value ELSE f[p]]

(* One candidate of prepare.                                               *)
OpenCandidate ==
    /\ pc = "open" /\ todo # {}
    /\ LET path == Candidate
           opened == OpenSource(fs, plan.anchor, path)
           required == path \in request.explicit
           found == SourceFile(fs, path, opened)
           fits == /\ \A s \in Range(plan.sources) : s.meta.ino # opened.ino
                   /\ TotalBytes(plan.sources) + found.meta.size <= TotalLimit
       IN  \/ /\ opened.reason # "none" /\ required
              /\ Refuse
           \/ /\ opened.reason # "none" /\ ~required
              /\ plan' = IF opened.reason = "missing"
                         THEN [plan EXCEPT !.absent = @ \cup {path}]
                         ELSE [plan EXCEPT !.ineligible = @ \cup {<<path, opened.reason>>}]
              /\ todo' = todo \ {path}
              /\ UNCHANGED <<phase, pc, request, confirmed, shown, got, staged, space, rival, attempts>>
           \/ /\ opened.reason = "none" /\ ~fits
              /\ Refuse
           \/ /\ opened.reason = "none" /\ fits
              /\ plan' = [plan EXCEPT !.sources = Append(@, found)]
              /\ shown' = IF phase = "preview" THEN With(shown, path, fs[opened.ino].data) ELSE shown
              /\ todo' = todo \ {path}
              /\ UNCHANGED <<phase, pc, request, confirmed, got, staged, space, rival, attempts>>
    /\ UNCHANGED source

(* The preview reports its plan; the user executes it, with a request of   *)
(* his own and the digest he was shown.                                    *)
Confirm ==
    /\ pc = "open" /\ todo = {} /\ phase = "preview"
    /\ confirmed' = plan
    /\ phase' = "execute" /\ pc' = "begin"
    /\ request' \in Requests
    /\ UNCHANGED <<source, todo, plan, shown, got, staged, space, rival, attempts>>

(* Mutant: only the names of the selected files are bound to the digest.   *)
PlanDigestOfPaths(p) == {s.path : s \in Range(p.sources)}

(* plan_digest                                                             *)
PlanDigest(p) == p

Conflicts == {p \in DOMAIN Planned : p \in Replaceable}

CopyList == DOMAIN Planned

(* populate_space: the home of a new space before anything is copied       *)
PopulateSpace == [p \in Generated |-> <<"generated">>]

(* The digest, reject_unapproved_conflicts, then staging and               *)
(* populate_space.                                                         *)
Stage ==
    /\ pc = "open" /\ todo = {} /\ phase = "execute"
    /\ IF PlanDigest(plan) # PlanDigest(confirmed) \/ (Conflicts # {} /\ ~plan.replace)
       THEN Refuse
       ELSE /\ staged' = PopulateSpace
            /\ todo' = CopyList
            /\ pc' = "copy"
            /\ UNCHANGED <<phase, request, plan, confirmed, shown, got, space, rival, attempts>>
    /\ UNCHANGED source

(* create_from_host removes its staging unless it was published; when that *)
(* fails too (compound_host_fork_error), the staging home is left behind.  *)
CleanUp ==
    /\ staged' \in {Nothing, staged}
    /\ UNCHANGED <<phase, request, todo, plan, confirmed, shown, got, space, rival, attempts>>

Abandon == pc' = "failed" /\ CleanUp

(* Any other call of execute_staging before the publication fails.         *)
CallFails ==
    /\ pc \in {"copy", "read", "verify"}
    /\ pc' = "broken"
    /\ CleanUp
    /\ UNCHANGED source

(* prepare_destination: what the new space already has at this path.       *)
StartCopy ==
    /\ pc = "copy" /\ todo # {}
    /\ IF Candidate \in Generated /\ (Candidate \notin Replaceable \/ ~plan.replace)
       THEN Abandon
       ELSE /\ staged' = With(staged, Candidate, <<>>)
            /\ got' = <<>>
            /\ pc' = "read"
            /\ UNCHANGED <<phase, request, todo, plan, confirmed, shown, space, rival, attempts>>
    /\ UNCHANGED source

Descriptor == Planned[Candidate].meta.ino

(* copy_source: one block from the descriptor; one more than the planned   *)
(* length would be noticed.                                                *)
ReadBlock ==
    /\ pc = "read"
    /\ Len(got) < Len(fs[Descriptor].data) /\ Len(got) <= Planned[Candidate].meta.size
    /\ got' = Append(got, fs[Descriptor].data[Len(got) + 1])
    /\ UNCHANGED <<source, phase, pc, request, todo, plan, confirmed, shown, staged, space, rival, attempts>>

PromptTail(path) == IF path \in Tailed THEN <<"tail">> ELSE <<>>

(* The end of the file, or a block too many; the tail; matches_file.       *)
FinishCopy ==
    /\ pc = "read"
    /\ Len(got) >= Len(fs[Descriptor].data) \/ Len(got) > Planned[Candidate].meta.size
    /\ IF \/ Len(got) # Planned[Candidate].meta.size
          \/ Metadata(fs, Descriptor) # Planned[Candidate].meta
       THEN Abandon
       ELSE /\ staged' = [staged EXCEPT ![Candidate] = got \o PromptTail(Candidate)]
            /\ todo' = todo \ {Candidate}
            /\ pc' = "copy"
            /\ UNCHANGED <<phase, request, plan, confirmed, shown, got, space, rival, attempts>>
    /\ UNCHANGED source

(* verify_sources: the anchor by its path, then every source by its own.   *)
VerifyAnchor ==
    /\ pc = "copy" /\ todo = {}
    /\ IF home # plan.anchor \/ ~fs[home].safe
       THEN Abandon
       ELSE /\ todo' = DOMAIN Planned
            /\ pc' = "verify"
            /\ UNCHANGED <<phase, request, plan, confirmed, shown, got, staged, space, rival, attempts>>
    /\ UNCHANGED source

VerifySource ==
    /\ pc = "verify" /\ todo # {}
    /\ LET opened == OpenRelative(fs, plan.anchor, Candidate)
       IN  IF \/ opened.reason # "none"
              \/ Metadata(fs, opened.ino) # Planned[Candidate].meta
              \/ opened.parents # Planned[Candidate].parents
           THEN Abandon
           ELSE /\ todo' = todo \ {Candidate}
                /\ UNCHANGED <<phase, pc, request, plan, confirmed, shown, got, staged, space, rival, attempts>>
    /\ UNCHANGED source

(* publish: the destination must still be free.                            *)
Publish ==
    /\ pc = "verify" /\ todo = {}
    /\ IF Taken
       THEN Abandon
       ELSE /\ space' = staged
            /\ staged' = Nothing
            /\ pc' = "published"
            /\ UNCHANGED <<phase, request, todo, plan, confirmed, shown, got, rival, attempts>>
    /\ UNCHANGED source

(* Durability or the reopening of the published space fails: an error, but *)
(* the space stays.                                                        *)
ReportFailure ==
    /\ pc = "published"
    /\ pc' = "failed"
    /\ UNCHANGED <<source, phase, request, todo, plan, confirmed, shown, got, staged, space, rival, attempts>>

(* The same command is run again with the digest that was confirmed.  The  *)
(* name of its staging home is new: what an attempt left behind is for     *)
(* `quarters recover` (Staging).                                           *)
Retry ==
    /\ pc \in {"refused", "failed", "broken"} /\ phase = "execute"
    /\ attempts < MaxAttempts
    /\ attempts' = attempts + 1
    /\ pc' = "begin" /\ todo' = {} /\ plan' = NoPlan /\ got' = <<>> /\ staged' = Nothing
    /\ UNCHANGED <<source, phase, request, confirmed, shown, space, rival>>

-------------------------------------------------------------------------------
(* Other processes.                                                        *)
ForkKept == UNCHANGED <<phase, pc, request, todo, plan, confirmed, shown, got, staged, space, attempts>>
Busy == pc \notin {"published", "refused", "failed", "broken"}
Stamped(f, i) == [f EXCEPT ![i].stamp = writes + 1]

WriteFile ==
    /\ Busy /\ writes < MaxWrites
    /\ \E i \in DOMAIN fs, data \in NewData :
         /\ fs[i].kind = "file"
         /\ fs' = Stamped([fs EXCEPT ![i].data = data], i)
    /\ writes' = writes + 1
    /\ UNCHANGED <<home, rival>> /\ ForkKept

Relink ==
    /\ Busy /\ writes < MaxWrites
    /\ \E d \in DOMAIN fs : \E n \in DOMAIN fs[d].entries, i \in Spare \cup {NoIno} :
         fs' = [fs EXCEPT ![d].entries =
                  IF i = NoIno THEN [m \in DOMAIN @ \ {n} |-> @[m]] ELSE [@ EXCEPT ![n] = i]]
    /\ writes' = writes + 1
    /\ UNCHANGED <<home, rival>> /\ ForkKept

Rename ==
    /\ Busy /\ writes < MaxWrites
    /\ \E d \in DOMAIN fs : \E n, m \in DOMAIN fs[d].entries :
         /\ n # m
         /\ fs' = Stamped([fs EXCEPT ![d].entries =
                             [k \in DOMAIN @ \ {n} |-> IF k = m THEN @[n] ELSE @[k]]],
                          fs[d].entries[n])
    /\ writes' = writes + 1
    /\ UNCHANGED <<home, rival>> /\ ForkKept

MoveHome ==
    /\ Busy /\ writes < MaxWrites
    /\ \E i \in Spare : fs[i].kind = "directory" /\ home' = i
    /\ writes' = writes + 1
    /\ UNCHANGED <<fs, rival>> /\ ForkKept

CreateRival ==
    /\ Busy /\ ~rival /\ writes < MaxWrites
    /\ rival' = TRUE /\ writes' = writes + 1
    /\ UNCHANGED <<fs, home>> /\ ForkKept

Ended ==
    /\ ~Busy
    /\ UNCHANGED vars

Fork ==
    \/ Begin \/ OpenCandidate \/ Confirm \/ Stage
    \/ StartCopy \/ ReadBlock \/ FinishCopy
    \/ VerifyAnchor \/ VerifySource \/ Publish \/ ReportFailure
    \/ CallFails \/ Retry

Next == Fork \/ WriteFile \/ Relink \/ Rename \/ MoveHome \/ CreateRival \/ Ended

Spec == Init /\ [][Next]_vars

-------------------------------------------------------------------------------
TypeOK ==
    /\ phase \in {"preview", "execute"}
    /\ pc \in {"begin", "open", "copy", "read", "verify", "published", "refused", "failed", "broken"}
    /\ todo \subseteq DOMAIN Rank
    /\ home \in DOMAIN fs
    /\ pc = "read" => Candidate \in DOMAIN Planned

Confirmed == {s.path : s \in Range(confirmed.sources)}

(* A published space holds the generated files and, at the paths of the    *)
(* plan the user confirmed and nowhere else, the bytes those files had     *)
(* when the preview looked at them, although neither the plan nor the      *)
(* digest contains a byte of them (plan_digest, copy_source,               *)
(* verify_sources).                                                        *)
ConfirmedContents ==
    space # Nothing =>
        space = [p \in Generated \cup Confirmed |->
                   IF p \in Confirmed THEN shown[p] \o PromptTail(p) ELSE <<"generated">>]

(* A generated file gives way only to a file of a plan that was confirmed  *)
(* with the replacement in it (reject_unapproved_conflicts,                *)
(* prepare_destination).                                                   *)
ReplacementConfirmed ==
    \A p \in DOMAIN space : p \in Generated /\ space[p] # <<"generated">> =>
        p \in Replaceable \cap Confirmed /\ confirmed.replace

(* On a host nobody writes to, the same request executes the plan that was *)
(* previewed; only a path the new space itself occupies, outside the files *)
(* a fork may replace, can refuse it.  An attempt that failed before, and  *)
(* a staging home it could not remove, cannot.                             *)
PreviewPredicts ==
    /\ writes = 0 /\ phase = "execute" /\ pc \in {"refused", "failed"} /\ space = Nothing =>
         \/ request.replace # confirmed.replace
         \/ Presets \cup request.explicit # Confirmed \cup confirmed.absent \cup {x[1] : x \in confirmed.ineligible}
         \/ \E p \in request.explicit \cap Presets : p \notin Confirmed
         \/ request.nested \/ request.explicit \cap Sensitive # {}
         \/ Confirmed \cap Replaceable # {} /\ ~request.replace
         \/ Confirmed \cap (Generated \ Replaceable) # {}

(* The published space is what the preview promised: contents,             *)
(* replacements and, on a quiet host, the plan.                            *)
ForkSound ==
    /\ TypeOK
    /\ ConfirmedContents
    /\ ReplacementConfirmed
    /\ PreviewPredicts

===============================================================================
