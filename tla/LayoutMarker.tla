------------------------------ MODULE LayoutMarker ------------------------------
(***************************************************************************)
(* The layout of the store root and its format marker                      *)
(* (store/layout.rs, store/layout/marker.rs).  The marker is published by  *)
(* a hard link to a complete staging file whose own name is then removed,  *)
(* all under the management lock.  Whoever only reads takes no lock: it    *)
(* may meet the marker with two links, and the second link may go away     *)
(* between any two of its system calls.  A process may die at any step;    *)
(* its lock is then free and its files stay.                               *)
(*                                                                         *)
(* A staging name is unique (unique_suffix), so it stands for the inode it *)
(* was created with.  Owners, modes, name syntax and the bounds on bytes   *)
(* and root entries are those of files this program made.                  *)
(***************************************************************************)
EXTENDS Naturals, Sequences, FiniteSets

CONSTANTS
    Procs,
    Programs,       \* the operations each process may run
    Roots,          \* entries of the roots a process may find
    Inodes,
    MaxReads,       \* MAX_MARKER_REPLACEMENT_READS
    MaxMishaps      \* bound: failed system calls, lock timeouts, deaths

NoIno == "no inode"
NoProc == "no process"

ASSUME LayoutAssumption ==
    /\ MaxReads \in Nat \ {0, 1} /\ MaxMishaps \in Nat
    /\ Procs # {} /\ Inodes # {}
    /\ NoProc \notin Procs /\ NoIno \notin Inodes
    /\ \A root \in Roots : root \subseteq {"root", "spaces", "trash", ".spaces"} /\ (root # {} => "root" \in root)
    /\ Programs \in [Procs -> SUBSET {"ensure", "mutate", "inspect", "diagnose"}]

VARIABLES
    entries,        \* of the root: "root" itself and its category directories
    marker,         \* the inode .quarters-store.json names
    staging,        \* the inodes the staging names lead to
    content,        \* of every inode
    outside,        \* inodes with a link elsewhere
    holder,         \* of the management lock
    local,          \* the state of every process
    mishaps

disk == <<entries, marker, staging, content, outside>>
vars == <<disk, holder, local, mishaps>>

Formats == {"visible", "dotted", "newer"}
Errors == {"corrupt", "newer", "io", "limit", "unsupported", "busy"}
Operations == {"ensure", "mutate", "inspect", "diagnose"}

Links(i) == Cardinality({k \in {1} : i \in staging} \cup {k \in {2} : marker = i} \cup {k \in {3} : i \in outside})

Idle == [pc |-> "idle", op |-> "none", stack |-> <<>>, out |-> "none", seen |-> {}, ino |-> NoIno, links |-> 0,
         pending |-> {}, matching |-> FALSE, reads |-> 0, made |-> NoIno, raw |-> {}, todo |-> {}, found |-> "none",
         issue |-> FALSE, interrupted |-> FALSE, quiet |-> TRUE, report |-> "none"]

TypeOK ==
    /\ entries \subseteq {"root", "spaces", "trash", ".spaces"}
    /\ marker \in Inodes \cup {NoIno}
    /\ staging \subseteq Inodes /\ outside \subseteq Inodes
    /\ content \in [Inodes -> Formats \cup {"empty"}]
    /\ holder \in Procs \cup {NoProc}
    /\ mishaps \in 0..MaxMishaps
    /\ \A p \in Procs :
        /\ DOMAIN local[p] = DOMAIN Idle
        /\ local[p].op \in Operations \cup {"none"}
        /\ local[p].reads \in 0..MaxReads - 1
        /\ local[p].pending \subseteq Inodes /\ local[p].todo \subseteq Inodes

(* The stores a process may find: what it made itself, what a release      *)
(* without the marker made, and what it must not touch.                    *)
Init ==
    /\ entries \in Roots
    /\ \E format \in Formats :
        LET first == CHOOSE i \in Inodes : TRUE
        IN  /\ marker \in IF "root" \in entries THEN {NoIno, first} ELSE {NoIno}
            /\ staging \in {{}, {marker} \cap Inodes}
            /\ outside \in {{}, {marker} \cap Inodes}
            /\ marker = NoIno => format = "visible"
            /\ content = [i \in Inodes |-> IF i = marker THEN format ELSE "empty"]
    /\ holder = NoProc
    /\ local = [p \in Procs |-> Idle]
    /\ mishaps = 0

-------------------------------------------------------------------------------
(* Control: a call pushes the label to return to; a result is left in out. *)
At(p, label) == local[p].pc = label

Go(p, state) == local' = [local EXCEPT ![p] = state]

(* As Go, for a step that changes the disk: others no longer run alone.    *)
Change(p, state) ==
    local' = [q \in Procs |-> IF q = p THEN state ELSE [local[q] EXCEPT !.quiet = FALSE, !.report = "none"]]

Call(state, label, return) == [state EXCEPT !.pc = label, !.stack = <<return>> \o @]

Back(state, value) == [state EXCEPT !.pc = Head(state.stack), !.stack = Tail(@), !.out = value]

Return(state, value) ==
    [Back(state, value) EXCEPT !.pending = {}, !.matching = FALSE, !.reads = 0, !.ino = NoIno, !.links = 0]

(* An operation ends; its lock, if it has it, is released.                 *)
Ended(p, value) == [Idle EXCEPT !.out = value, !.quiet = local[p].quiet]

Release(p) == holder' = IF holder = p THEN NoProc ELSE holder

Finish(p, value) == Go(p, Ended(p, value)) /\ Release(p) /\ UNCHANGED disk

Unread == UNCHANGED <<disk, holder, mishaps>>

(* A call fails, a lock is not granted in time, or a process dies.         *)
Mishap == mishaps < MaxMishaps /\ mishaps' = mishaps + 1

-------------------------------------------------------------------------------
(* read_marker, read_marker_once                                           *)
StatMarker(p) ==
    /\ At(p, "stat")
    /\ Go(p, CASE marker = NoIno -> Return(local[p], "none")
               [] marker # NoIno /\ Links(marker) = 1 ->
                    [local[p] EXCEPT !.pc = "read", !.ino = marker, !.links = 1]
               [] marker # NoIno /\ Links(marker) = 2 ->
                    [Call(local[p], "list", "matched") EXCEPT !.ino = marker, !.links = 2]
               [] OTHER -> Return(local[p], "corrupt"))
    /\ Unread

(* matching_publication_staging: the names first, then the inode of each.  *)
ListStaging(p) ==
    /\ At(p, "list")
    /\ Go(p, [local[p] EXCEPT !.pc = "probe", !.pending = staging])
    /\ Unread

(* A name that has gone meanwhile is an error, not a name less.            *)
ProbeStaging(p) ==
    /\ At(p, "probe")
    /\ \/ local[p].pending = {} /\ Go(p, Back(local[p], "ok"))
       \/ \E i \in local[p].pending :
            Go(p, IF i \in staging
                  THEN [local[p] EXCEPT !.pending = @ \ {i}, !.matching = @ \/ i = local[p].ino]
                  ELSE Back([local[p] EXCEPT !.pending = {}], "io"))
    /\ Unread

Matched(p) ==
    /\ At(p, "matched")
    /\ Go(p, CASE local[p].out = "io" -> Return(local[p], "io")
               [] local[p].out = "ok" /\ local[p].matching -> [local[p] EXCEPT !.pc = "read"]
               [] OTHER -> [local[p] EXCEPT !.pc = "converged"])
    /\ Unread

(* parse_marker                                                            *)
Parsed(i) == IF content[i] = "empty" THEN "corrupt" ELSE content[i]

(* read_bounded: the links of the opened file are those of the stat.       *)
ReadMarker(p) ==
    /\ At(p, "read")
    /\ LET i == local[p].ino
           format == Parsed(i)
       IN  Go(p, CASE Links(i) # local[p].links /\ local[p].links = 2 -> [local[p] EXCEPT !.pc = "converged"]
                   [] Links(i) # local[p].links /\ local[p].links # 2 -> Return(local[p], "corrupt")
                   [] Links(i) = local[p].links /\ local[p].links = 2 /\ format = "dotted" -> Return(local[p], "corrupt")
                   [] OTHER -> Return(local[p], format))
    /\ Unread

(* Mutant: an exact second look is not taken.                              *)
PublicationConvergedNever(p) == FALSE

(* publication_converged                                                   *)
PublicationConverged(p) == marker = local[p].ino /\ Links(marker) = 1

RetryRead(p) ==
    /\ At(p, "converged")
    /\ Go(p, CASE ~PublicationConverged(p) -> Return(local[p], "corrupt")
               [] PublicationConverged(p) /\ local[p].reads + 1 = MaxReads -> Return(local[p], "limit")
               [] OTHER -> [local[p] EXCEPT !.pc = "stat", !.reads = @ + 1, !.matching = FALSE])
    /\ Unread

ReadSteps(p) ==
    \/ StatMarker(p) \/ ListStaging(p) \/ ProbeStaging(p) \/ Matched(p) \/ ReadMarker(p) \/ RetryRead(p)

-------------------------------------------------------------------------------
(* resolve: the categories are looked at before the marker.                *)
Layout(format, seen) ==
    CASE format \in Errors -> format
      [] format \in {"none", "visible"} -> IF ".spaces" \in seen THEN "corrupt" ELSE "visible"
      [] format = "dotted" -> IF {"spaces", "trash"} \cap seen # {} THEN "corrupt" ELSE "dotted"

Resolve(p) ==
    /\ At(p, "resolve")
    /\ Go(p, IF "root" \notin entries
             THEN Return(local[p], "visible")
             ELSE [Call(local[p], "stat", "resolved") EXCEPT !.seen = entries])
    /\ Unread

Resolved(p) ==
    /\ At(p, "resolved")
    /\ Go(p, Return([local[p] EXCEPT !.seen = {}], Layout(local[p].out, local[p].seen)))
    /\ Unread

(* Mutant: what can be resolved can be written.                            *)
RequireWritableAny(layout) == layout

(* StoreLayout::require_writable                                           *)
RequireWritable(layout) == IF layout = "dotted" THEN "unsupported" ELSE layout

-------------------------------------------------------------------------------
(* ensure_layout, begin_mutation, layout and layout_diagnosis begin.       *)
Begin(p, op) ==
    /\ At(p, "idle")
    /\ LET started == [Idle EXCEPT !.op = op]
       IN  IF op = "ensure" /\ "root" \notin entries
           THEN entries' = {"root"} /\ Change(p, Call(started, "resolve", "preliminary"))
           ELSE /\ Go(p, IF op = "diagnose" THEN [started EXCEPT !.pc = "diagnose"]
                         ELSE Call(started, "resolve", "preliminary"))
                /\ UNCHANGED entries
    /\ UNCHANGED <<marker, staging, content, outside, holder, mishaps>>

Preliminary(p) ==
    /\ At(p, "preliminary")
    /\ LET layout == RequireWritable(local[p].out)
       IN  IF local[p].op = "inspect" \/ layout \in Errors
           THEN Finish(p, IF local[p].op = "inspect" THEN local[p].out ELSE layout)
           ELSE Go(p, [local[p] EXCEPT !.pc = "lock"]) /\ UNCHANGED <<disk, holder>>
    /\ UNCHANGED mishaps

(* Mutant: what a dead publisher left is not looked for.                   *)
LockWithoutRecovery(p) ==
    /\ At(p, "lock")
    /\ "root" \in entries /\ holder = NoProc
    /\ holder' = p
    /\ Go(p, Call(local[p], "resolve", "layout"))
    /\ UNCHANGED <<disk, mishaps>>

(* raw_management_guard: the lock file is in the root.                     *)
Lock(p) ==
    /\ At(p, "lock")
    /\ "root" \in entries /\ holder = NoProc
    /\ holder' = p
    /\ Go(p, Call(local[p], "recover", "locked"))
    /\ UNCHANGED <<disk, mishaps>>

LockFails(p) ==
    /\ At(p, "lock")
    /\ \/ "root" \notin entries /\ Finish(p, "io") /\ UNCHANGED mishaps
       \/ "root" \in entries /\ holder # NoProc /\ Mishap /\ Finish(p, "busy")

-------------------------------------------------------------------------------
(* recover_interrupted_publication.  Nobody else writes the marker while   *)
(* the lock is held, so its stat and its reading are one step.             *)
Recover(p) ==
    /\ At(p, "recover")
    /\ Go(p, CASE marker = NoIno -> Back(local[p], "ok")
               [] marker # NoIno /\ Links(marker) = 1 -> Back(local[p], "ok")
               [] marker # NoIno /\ Links(marker) = 2 /\ Parsed(marker) = "visible" ->
                    [Call(local[p], "list", "explained") EXCEPT !.ino = marker]
               [] marker # NoIno /\ Links(marker) = 2 /\ Parsed(marker) = "newer" -> Back(local[p], "newer")
               [] OTHER -> Back(local[p], "corrupt"))
    /\ Unread

(* unlink_exact of the matching name, with the root synced after it.       *)
RecoverUnlink(p) ==
    /\ At(p, "explained")
    /\ IF local[p].out = "ok" /\ local[p].matching
       THEN \/ staging' = staging \ {local[p].ino} /\ Change(p, [local[p] EXCEPT !.pc = "recsync"]) /\ UNCHANGED mishaps
            \/ Mishap /\ Go(p, Return(local[p], "io")) /\ UNCHANGED staging
       ELSE /\ Go(p, Return(local[p], IF local[p].out = "ok" THEN "corrupt" ELSE "io"))
            /\ UNCHANGED <<staging, mishaps>>
    /\ UNCHANGED <<entries, marker, content, outside, holder>>

RecoverSync(p) ==
    /\ At(p, "recsync")
    /\ \/ Go(p, Call([local[p] EXCEPT !.matching = FALSE, !.ino = NoIno], "stat", "recverify")) /\ UNCHANGED mishaps
       \/ Mishap /\ Go(p, Return(local[p], "io"))
    /\ UNCHANGED <<disk, holder>>

RecoverVerify(p) ==
    /\ At(p, "recverify")
    /\ Go(p, Back(local[p], CASE local[p].out = "visible" -> "ok"
                              [] local[p].out \in Errors -> local[p].out
                              [] OTHER -> "corrupt"))
    /\ Unread

RecoverSteps(p) == Recover(p) \/ RecoverUnlink(p) \/ RecoverSync(p) \/ RecoverVerify(p)

Locked(p) ==
    /\ At(p, "locked")
    /\ IF local[p].out = "ok"
       THEN Go(p, Call(local[p], "resolve", "layout")) /\ UNCHANGED <<disk, holder>>
       ELSE Finish(p, local[p].out)
    /\ UNCHANGED mishaps

(* The layout of the lock's holder; validate_categories for a mutation.    *)
LayoutKnown(p) ==
    /\ At(p, "layout")
    /\ LET layout == RequireWritable(local[p].out)
           next == IF local[p].op = "mutate" THEN "mutating" ELSE "spaces"
       IN  CASE layout \in Errors -> Finish(p, layout)
             [] layout \notin Errors /\ next = "mutating" /\ "spaces" \notin entries -> Finish(p, "io")
             [] OTHER -> Go(p, [local[p] EXCEPT !.pc = next]) /\ UNCHANGED <<disk, holder>>
    /\ UNCHANGED mishaps

EndMutation(p) == At(p, "mutating") /\ Finish(p, "ok") /\ UNCHANGED mishaps

CreateCategory(p) ==
    /\ \/ /\ At(p, "spaces")
          /\ entries' = entries \cup {"spaces"} /\ Change(p, [local[p] EXCEPT !.pc = "trash"])
       \/ /\ At(p, "trash")
          /\ entries' = entries \cup {"trash"} /\ Change(p, Call(local[p], "recover", "reclaim"))
    /\ UNCHANGED <<marker, staging, content, outside, holder, mishaps>>

-------------------------------------------------------------------------------
(* attempt_visible_marker                                                  *)
Reclaim(p) ==
    /\ At(p, "reclaim")
    /\ IF local[p].out = "ok"
       THEN Go(p, [local[p] EXCEPT !.pc = "reclaiming", !.todo = staging]) /\ UNCHANGED <<disk, holder>>
       ELSE Finish(p, local[p].out)
    /\ UNCHANGED mishaps

(* Mutant: staging that cannot be parsed is refused.                       *)
ReclaimStagingParsed(p) ==
    /\ At(p, "reclaiming")
    /\ \/ /\ local[p].todo = {}
          /\ Go(p, Call(local[p], "stat", "check"))
          /\ UNCHANGED <<disk, holder, mishaps>>
       \/ \E i \in local[p].todo :
            \/ Links(i) # 1 /\ Finish(p, "io") /\ UNCHANGED mishaps
            \/ Links(i) = 1 /\ content[i] = "empty" /\ Finish(p, "io") /\ UNCHANGED mishaps
            \/ /\ Links(i) = 1 /\ content[i] # "empty"
               /\ staging' = staging \ {i} /\ Change(p, [local[p] EXCEPT !.todo = @ \ {i}])
               /\ UNCHANGED <<entries, marker, content, outside, holder, mishaps>>

(* reclaim_safe_staging: what a dead publisher left, one name at a time.   *)
ReclaimStaging(p) ==
    /\ At(p, "reclaiming")
    /\ \/ /\ local[p].todo = {}
          /\ Go(p, Call(local[p], "stat", "check"))
          /\ UNCHANGED <<disk, holder, mishaps>>
       \/ \E i \in local[p].todo :
            \/ Links(i) # 1 /\ Finish(p, "corrupt") /\ UNCHANGED mishaps
            \/ Links(i) = 1 /\ Mishap /\ Finish(p, "io")
            \/ /\ Links(i) = 1
               /\ staging' = staging \ {i} /\ Change(p, [local[p] EXCEPT !.todo = @ \ {i}])
               /\ UNCHANGED <<entries, marker, content, outside, holder, mishaps>>

Check(p) ==
    /\ At(p, "check")
    /\ IF local[p].out \in Errors
       THEN Finish(p, local[p].out)
       ELSE /\ Go(p, [local[p] EXCEPT !.pc = IF local[p].out = "none" THEN "create" ELSE "ensured"])
            /\ UNCHANGED <<disk, holder>>
    /\ UNCHANGED mishaps

(* create_visible_staging: an empty file, then its bytes, then the sync.   *)
CreateStaging(p) ==
    /\ At(p, "create")
    /\ \/ \E i \in Inodes \ (staging \cup outside \cup {marker}) :
            /\ staging' = staging \cup {i}
            /\ content' = [content EXCEPT ![i] = "empty"]
            /\ Change(p, [local[p] EXCEPT !.pc = "write", !.made = i])
            /\ UNCHANGED <<entries, marker, outside, holder, mishaps>>
       \/ Mishap /\ Finish(p, "io")

WriteStaging(p) ==
    /\ At(p, "write")
    /\ \/ content' = [content EXCEPT ![local[p].made] = "visible"] /\ Change(p, [local[p] EXCEPT !.pc = "link"])
          /\ UNCHANGED mishaps
       \/ Mishap /\ Go(p, [local[p] EXCEPT !.pc = "discard"]) /\ UNCHANGED content
    /\ UNCHANGED <<entries, marker, staging, outside, holder>>

(* publish_visible_marker                                                  *)
Publish(p) ==
    /\ At(p, "link")
    /\ \/ /\ marker = NoIno
          /\ marker' = local[p].made /\ Change(p, [local[p] EXCEPT !.pc = "unlink"]) /\ UNCHANGED mishaps
       \/ Mishap /\ Go(p, [local[p] EXCEPT !.pc = "failed"]) /\ UNCHANGED marker
    /\ UNCHANGED <<entries, staging, content, outside, holder>>

PublishUnlink(p) ==
    /\ At(p, "unlink")
    /\ \/ staging' = staging \ {local[p].made} /\ Change(p, [local[p] EXCEPT !.pc = "sync"]) /\ UNCHANGED mishaps
       \/ Mishap /\ Go(p, [local[p] EXCEPT !.pc = "failed"]) /\ UNCHANGED staging
    /\ UNCHANGED <<entries, marker, content, outside, holder>>

PublishSync(p) ==
    /\ At(p, "sync")
    /\ \/ Go(p, Call(local[p], "stat", "verify")) /\ UNCHANGED mishaps
       \/ Mishap /\ Go(p, [local[p] EXCEPT !.pc = "failed"])
    /\ UNCHANGED <<disk, holder>>

PublishVerify(p) ==
    /\ At(p, "verify")
    /\ Go(p, [local[p] EXCEPT !.pc = IF local[p].out = "visible" THEN "ensured" ELSE "failed"])
    /\ Unread

(* The staging name goes with a failed attempt unless the marker exists.   *)
PublicationFailed(p) ==
    /\ At(p, "failed")
    /\ IF marker = NoIno
       THEN Go(p, [local[p] EXCEPT !.pc = "discard"]) /\ UNCHANGED <<disk, holder>>
       ELSE Finish(p, "io")
    /\ UNCHANGED mishaps

DiscardStaging(p) ==
    /\ At(p, "discard")
    /\ \/ /\ staging' = staging \ {local[p].made}
          /\ Change(p, Ended(p, "io")) /\ Release(p)
          /\ UNCHANGED <<entries, marker, content, outside, mishaps>>
       \/ Mishap /\ Finish(p, "io")

Ensured(p) == At(p, "ensured") /\ Finish(p, "ok") /\ UNCHANGED mishaps

AttemptSteps(p) ==
    \/ Reclaim(p) \/ ReclaimStaging(p) \/ Check(p) \/ CreateStaging(p) \/ WriteStaging(p) \/ Publish(p)
    \/ PublishUnlink(p) \/ PublishSync(p) \/ PublishVerify(p) \/ PublicationFailed(p) \/ DiscardStaging(p) \/ Ensured(p)

-------------------------------------------------------------------------------
(* diagnose: five looks at the root, none of them under the lock.          *)
Report(p, text) == [Ended(p, "ok") EXCEPT !.report = text]

Diagnose(p) ==
    /\ At(p, "diagnose")
    /\ Go(p, IF "root" \notin entries
             THEN Report(p, "absent")
             ELSE [Call(local[p], "stat", "diagnosed") EXCEPT !.raw = entries])
    /\ Unread

DiagnoseMarker(p) ==
    /\ At(p, "diagnosed")
    /\ Go(p, [local[p] EXCEPT !.pc = "staging", !.found = local[p].out, !.todo = staging])
    /\ Unread

(* diagnose_staging, diagnose_staging_metadata: only the first issue is    *)
(* kept, and nothing is looked at after it.                                *)
DiagnoseStaging(p) ==
    /\ At(p, "staging")
    /\ \/ local[p].todo = {} /\ Go(p, [local[p] EXCEPT !.pc = "interrupted"])
       \/ \E i \in local[p].todo :
            LET looked == [local[p] EXCEPT !.todo = @ \ {i}]
            IN  Go(p, CASE local[p].issue \/ (i \in staging /\ Links(i) = 1) -> looked
                        [] ~local[p].issue /\ i \in staging /\ Links(i) = 2 /\ marker = i -> Call(looked, "stat", "paired")
                        [] OTHER -> [looked EXCEPT !.issue = TRUE])
    /\ Unread

DiagnosePaired(p) ==
    /\ At(p, "paired")
    /\ Go(p, [local[p] EXCEPT !.pc = "staging", !.issue = local[p].out \in Errors \cup {"none"}])
    /\ Unread

(* interrupted_publication_present                                         *)
DiagnoseInterrupted(p) ==
    /\ \/ /\ At(p, "interrupted")
          /\ Go(p, IF marker # NoIno /\ Links(marker) = 2
                   THEN Call(local[p], "stat", "reread")
                   ELSE Call(local[p], "resolve", "report"))
       \/ /\ At(p, "reread")
          /\ Go(p, [Call(local[p], "resolve", "report") EXCEPT !.interrupted = local[p].out \notin Errors \cup {"none"}])
    /\ Unread

Diagnosis(l) ==
    CASE l.out = "newer" -> "newer-format"
      [] l.out \in Errors \ {"newer"} -> IF ".spaces" \in l.raw /\ {"spaces", "trash"} \cap l.raw # {} THEN "ambiguous-dual-layout" ELSE "invalid"
      [] l.out \notin Errors /\ l.interrupted -> "interrupted-publication"
      [] l.out = "visible" /\ ~l.interrupted -> IF l.found = "none" THEN "unmarked-visible" ELSE "marked-visible"
      [] l.out = "dotted" /\ ~l.interrupted -> "marked-dotted-read-only"

DiagnoseReport(p) == At(p, "report") /\ Go(p, Report(p, Diagnosis(local[p]))) /\ Unread

DiagnoseSteps(p) ==
    \/ Diagnose(p) \/ DiagnoseMarker(p) \/ DiagnoseStaging(p) \/ DiagnosePaired(p) \/ DiagnoseInterrupted(p)
    \/ DiagnoseReport(p)

-------------------------------------------------------------------------------
(* A process dies: the kernel releases its lock, the disk stays.           *)
Crash(p) ==
    /\ ~At(p, "idle") /\ Mishap
    /\ Go(p, Idle) /\ Release(p)
    /\ UNCHANGED disk

Step(p) ==
    \/ ReadSteps(p) \/ Resolve(p) \/ Resolved(p) \/ Preliminary(p) \/ LockFails(p) \/ RecoverSteps(p) \/ Locked(p)
    \/ LayoutKnown(p) \/ EndMutation(p) \/ CreateCategory(p) \/ AttemptSteps(p) \/ DiagnoseSteps(p)

Next == \E p \in Procs : Step(p) \/ Lock(p) \/ (\E op \in Programs[p] : Begin(p, op)) \/ Crash(p)

Spec == Init /\ [][Next]_vars

(* A process that has begun goes on; a free lock is granted in the end to  *)
(* whoever keeps asking; and users do not give up on an operation that     *)
(* needs the store (create, import, recover: all begin with ensure_layout).*)
LiveSpec ==
    /\ Spec
    /\ \A p \in Procs : WF_vars(Step(p)) /\ SF_vars(Lock(p)) /\ SF_vars("ensure" \in Programs[p] /\ Begin(p, "ensure"))

-------------------------------------------------------------------------------
(* A store of the visible layout whose marker, if any, is explained.       *)
Healthy ==
    /\ ".spaces" \notin entries /\ outside = {}
    /\ marker # NoIno => content[marker] = "visible"

(* A reader without the lock, at whatever moment of a publication or of a  *)
(* recovery it looks (read_marker_once, publication_converged), and after  *)
(* whatever deaths, never takes a sound store for a corrupt one, for one   *)
(* of a newer release, or for one that keeps changing.                     *)
NoFalseAlarm == Healthy => \A p \in Procs : local[p].out \notin {"corrupt", "newer", "limit", "unsupported"}

(* A store of the dotted layout, of a newer release, or with a marker this *)
(* program cannot explain is left as it is by every operation              *)
(* (require_writable, resolve, recover_interrupted_publication).           *)
ForeignUntouched == [][~Healthy => UNCHANGED disk]_vars

(* Whoever meets the marker meets all of it: the name is given to a file   *)
(* that was written and synced before (create_visible_staging).            *)
MarkerComplete == marker # NoIno => content[marker] # "empty"

(* ensure_layout succeeds only with the whole layout in place: both        *)
(* categories, a visible marker with one link, and nothing left of this or *)
(* an earlier publication.                                                 *)
EnsuredComplete ==
    \A p \in Procs : At(p, "ensured") =>
        {"spaces", "trash"} \subseteq entries /\ marker # NoIno /\ content[marker] = "visible" /\ staging = {}

(* A mutation guard is held only for the visible layout, by one process,   *)
(* and with no half-made publication that a later one would have to undo   *)
(* (begin_mutation recovers before it resolves).                           *)
GuardedLayout ==
    \A p \in Procs : At(p, "mutating") =>
        holder = p /\ Healthy /\ "spaces" \in entries /\ (marker # NoIno => Links(marker) = 1)

(* What a publication shows, what ensure_layout reports and what a guard   *)
(* stands for are the whole layout, whoever died in between.               *)
LayoutSound ==
    /\ TypeOK
    /\ MarkerComplete
    /\ EnsuredComplete
    /\ GuardedLayout

(* doctor's report, when nothing changed while it looked: an interrupted   *)
(* publication is reported exactly where recovery will finish one, and a   *)
(* writable store exactly where ensure_layout can succeed (diagnose).      *)
DiagnosisTruthful ==
    \A p \in Procs : local[p].report # "none" /\ local[p].quiet =>
        /\ local[p].report = "interrupted-publication" <=> Healthy /\ marker \in staging
        /\ local[p].report \in {"absent", "interrupted-publication", "unmarked-visible", "marked-visible"} <=> Healthy

(* Whoever reads the root without the lock is told the truth about it, or  *)
(* a transient error.                                                      *)
ReadersNotMisled == NoFalseAlarm /\ DiagnosisTruthful

(* However often publishers die and calls fail, within the bounds, a sound *)
(* store ends with its marker published and no staging left.               *)
MarkerPublished == <>[](Healthy => marker # NoIno /\ staging = {})
====
