--------------------------------- MODULE Bundle ---------------------------------
(***************************************************************************)
(* Authenticated bundles: the export of an artifact's home into one file   *)
(* (store/artifact/bundle/export.rs), the framing and its parser           *)
(* (format.rs), the import of such a file as a template (import.rs), and   *)
(* the canonical verification both rest on (integrity.rs).                 *)
(*                                                                         *)
(* No lock is held while trees are read: other processes of the user write *)
(* below the artifact's home while it is exported and to the bundle while  *)
(* it is imported.  A change need not show in the metadata the code        *)
(* compares: timestamps are coarse and a rewrite may keep the length.      *)
(*                                                                         *)
(* Digests are collision free, so a digest is modelled by what it covers:  *)
(* the recorded integrity by the recorded tree, a bundle's authentication  *)
(* tag by the entries that were authenticated with the key.  Names are     *)
(* numbers in byte order and a path is the sequence of its components.     *)
(***************************************************************************)
EXTENDS Naturals, Sequences, FiniteSets

CONSTANTS
    Names,          \* file names, numbered in byte order
    Homes,          \* the contents an artifact may have been published with
    Edits,          \* entries another process may put into the home
    Rewrites,       \* entry sequences another process may put into the bundle
    Foreign,        \* an authentic bundle of another artifact, same key
    Representations,\* how the importing filesystem may store a name
    DepthLimit,     \* CloneLimits::ALPHA.depth
    EntryLimit,     \* CloneLimits::ALPHA.entries
    MaxWrites       \* bound: writes by other processes

ASSUME BundleAssumption ==
    /\ Names \subseteq Nat
    /\ DepthLimit \in Nat /\ EntryLimit \in Nat /\ MaxWrites \in Nat
    /\ Representations \subseteq [Names -> Nat]

VARIABLES
    home,       \* the artifact's home: path -> [kind, data, target, stamp]
    recorded,   \* manifest.content_integrity: the tree that was published
    xpc,        \* the export: where it stands
    frames,     \* directories it has open: path, names left, stat when opened
    entry,      \* the stat of the entry it works on
    stream,     \* entries written to the staging file and hashed
    temp,       \* the export's staging link exists
    file,       \* the file at the destination: [there, entries, stamp]
    ipc,        \* the import: where it stands
    confirmed,  \* the plan the user confirmed: the entries of the preview, its stamp
    plan,       \* the same of the bundle this import authenticated
    pass,       \* entries read in the current pass
    open,       \* ParseState.directories: path and last child of each
    made,       \* what the extraction created: stored path -> entry
    template,   \* the published template's entries, or "none"
    represent,  \* how the filesystem of the store represents a name
    writes      \* writes by other processes so far

xvars == <<xpc, frames, entry, stream, temp>>
ivars == <<ipc, confirmed, plan, pass, open, made, template>>
vars == <<home, recorded, xvars, file, ivars, represent, writes>>

Root == <<>>
Parent(p) == SubSeq(p, 1, Len(p) - 1)
Name(p) == p[Len(p)]
Entry(p, node) == [path |-> p, kind |-> node.kind, data |-> node.data, target |-> node.target]
Node(e, stamp) == [kind |-> e.kind, data |-> e.data, target |-> e.target, stamp |-> stamp]
Content(h) == {Entry(p, h[p]) : p \in DOMAIN h \ {Root}}
Entries(s) == {s[i] : i \in DOMAIN s}

(* resolve_relative_link_target: following the target component by         *)
(* component never climbs above the home (0 is a parent component).     *)
LinkStays(path, target) ==
    \A n \in 1 .. Len(target) :
        Cardinality({i \in 1 .. n : target[i] = 0})
            <= Len(Parent(path)) + Cardinality({i \in 1 .. n : target[i] # 0})

-------------------------------------------------------------------------------
(* The parser of format.rs: which entry may follow, given the directories  *)
(* that are open and the last child seen in each.                          *)

ParentOpen(stack, path) ==
    /\ Len(Parent(path)) < Len(stack)
    /\ stack[Len(path)].path = Parent(path)

(* validate_link_target                                                    *)
ValidLinkTarget(e) == e.kind = "symlink" => LinkStays(e.path, e.target)

(* Mutant: siblings may be repeated.                                       *)
FollowsDuplicate(stack, e) ==
    /\ Len(e.path) <= DepthLimit + (IF e.kind = "directory" THEN 0 ELSE 1)
    /\ ParentOpen(stack, e.path)
    /\ stack[Len(e.path)].last <= Name(e.path)
    /\ ValidLinkTarget(e)

(* ParseState::validate_path                                               *)
Follows(stack, e) ==
    /\ Len(e.path) <= DepthLimit + (IF e.kind = "directory" THEN 0 ELSE 1)
    /\ ParentOpen(stack, e.path)
    /\ stack[Len(e.path)].last < Name(e.path)
    /\ ValidLinkTarget(e)

(* The directories left open after the entry.                              *)
Descend(stack, e) ==
    LET kept == [i \in 1 .. Len(e.path) |->
                   IF i = Len(e.path) THEN [stack[i] EXCEPT !.last = Name(e.path)] ELSE stack[i]]
    IN  IF e.kind = "directory" THEN Append(kept, [path |-> e.path, last |-> 0]) ELSE kept

(* The directories the entry closes.                                       *)
Closed(stack, e) == {stack[i].path : i \in Len(e.path) + 1 .. Len(stack)}

StartOfParse == <<[path |-> Root, last |-> 0]>>

-------------------------------------------------------------------------------
(* Other processes.  stamp is what stat shows of a file; a write may leave *)
(* it as it was.                                                           *)

Stamps == {0, 1}

Touched(h, p, stamp) ==
    [q \in DOMAIN h |-> IF q = p THEN [h[q] EXCEPT !.stamp = stamp] ELSE h[q]]

EditHome ==
    /\ writes < MaxWrites
    /\ writes' = writes + 1
    /\ \E e \in Edits, stamp \in Stamps :
         /\ Parent(e.path) \in DOMAIN home
         /\ home[Parent(e.path)].kind = "directory"
         /\ LET base == IF e.path \in DOMAIN home THEN home
                        ELSE Touched(home, Parent(e.path), stamp)
            IN  home' = [q \in DOMAIN base \cup {e.path} |->
                           IF q = e.path
                           THEN Node(e, stamp)
                           ELSE base[q]]
         /\ e.path \in DOMAIN home =>
              home[e.path].kind = e.kind /\ e.kind # "directory"
    /\ UNCHANGED <<recorded, xvars, file, ivars, represent>>

RemoveFromHome ==
    /\ writes < MaxWrites
    /\ writes' = writes + 1
    /\ \E p \in DOMAIN home \ {Root}, stamp \in Stamps :
         /\ \A q \in DOMAIN home \ {Root} : Parent(q) # p
         /\ LET base == Touched(home, Parent(p), stamp)
            IN  home' = [q \in DOMAIN base \ {p} |-> base[q]]
    /\ UNCHANGED <<recorded, xvars, file, ivars, represent>>

RewriteBundle ==
    /\ writes < MaxWrites
    /\ file.there
    /\ writes' = writes + 1
    /\ \E s \in Rewrites \cup {Foreign}, stamp \in Stamps :
         file' = [file EXCEPT !.entries = s, !.stamp = stamp]
    /\ UNCHANGED <<home, recorded, xvars, ivars, represent>>

-------------------------------------------------------------------------------
(* The export.  verify_artifact digests the home as digest_home does, by   *)
(* the same walk as the export's own; it succeeds only on a home whose     *)
(* content is the recorded one while it is read.                           *)

NoEntry == [path |-> Root, kind |-> "directory", stamp |-> 0]

Frame(p) == [path |-> p, left |-> {Name(q) : q \in {q \in DOMAIN home \ {Root} : Parent(q) = p}},
             stamp |-> home[p].stamp]

ExportBegins ==
    /\ xpc = "idle"
    /\ Content(home) = recorded
    /\ xpc' = "walk"
    /\ temp' = TRUE
    /\ stream' = <<>>
    /\ frames' = <<Frame(Root)>>
    /\ UNCHANGED <<home, recorded, entry, file, ivars, represent, writes>>

Top == frames[Len(frames)]

(* The names of a directory are sorted as bytes.                           *)
Smallest(S) == CHOOSE n \in S : \A m \in S : n <= m

NextPath == Append(Top.path, Smallest(Top.left))

Give(pc) ==
    /\ xpc' = pc
    /\ UNCHANGED <<home, recorded, file, ivars, represent, writes>>

(* The next entry of the directory in byte order is looked at.  An entry   *)
(* that is gone, too deep, one too many, or a link that leaves the home    *)
(* ends the export.                                                        *)
ExportStat ==
    /\ xpc = "walk"
    /\ Top.left # {}
    /\ \/ /\ NextPath \in DOMAIN home
          /\ LET node == home[NextPath]
             IN  /\ node.kind = "directory" => Len(NextPath) <= DepthLimit
                 /\ node.kind = "symlink" => LinkStays(NextPath, node.target)
                 /\ Len(stream) < EntryLimit
                 /\ entry' = [path |-> NextPath, kind |-> node.kind, stamp |-> node.stamp]
          /\ frames' = [frames EXCEPT ![Len(frames)].left = @ \ {Smallest(@)}]
          /\ Give("read")
          /\ UNCHANGED <<stream, temp>>
       \/ /\ \/ NextPath \notin DOMAIN home
             \/ /\ NextPath \in DOMAIN home
                /\ LET node == home[NextPath]
                   IN  \/ node.kind = "directory" /\ Len(NextPath) > DepthLimit
                       \/ node.kind = "symlink" /\ ~LinkStays(NextPath, node.target)
                       \/ Len(stream) >= EntryLimit
          /\ Give("failed")
          /\ temp' = FALSE
          /\ UNCHANGED <<frames, entry, stream>>

(* It is opened, compared with the stat and written: a file's data are     *)
(* those of this moment, and they go to the bundle and to the digest.      *)
SameEntry == /\ entry.path \in DOMAIN home
             /\ home[entry.path].kind = entry.kind
             /\ home[entry.path].stamp = entry.stamp

ExportRead ==
    /\ xpc = "read"
    /\ IF SameEntry
       THEN /\ stream' = Append(stream, Entry(entry.path, home[entry.path]))
            /\ frames' = IF entry.kind = "directory"
                         THEN Append(frames, Frame(entry.path)) ELSE frames
            /\ Give(IF entry.kind = "directory" THEN "walk" ELSE "recheck")
            /\ UNCHANGED temp
       ELSE /\ Give("failed")
            /\ temp' = FALSE
            /\ UNCHANGED <<stream, frames>>
    /\ UNCHANGED entry

ExportRecheck ==
    /\ xpc = "recheck"
    /\ Give(IF SameEntry THEN "walk" ELSE "failed")
    /\ temp' = SameEntry
    /\ UNCHANGED <<frames, entry, stream>>

(* The last entry of a directory: its own stat is compared again.          *)
ExportAscend ==
    /\ xpc = "walk"
    /\ Top.left = {}
    /\ IF Len(frames) = 1 THEN Give("digest") /\ UNCHANGED <<frames, temp>>
       ELSE /\ frames' = SubSeq(frames, 1, Len(frames) - 1)
            /\ IF /\ Top.path \in DOMAIN home
                  /\ home[Top.path].stamp = Top.stamp
               THEN Give("walk") /\ UNCHANGED temp
               ELSE Give("failed") /\ temp' = FALSE
    /\ UNCHANGED <<entry, stream>>

(* Mutant: the digest of what was written is not compared with the record. *)
ExportDigestTrusted ==
    /\ xpc = "digest"
    /\ Give("link")
    /\ UNCHANGED <<frames, entry, stream, temp>>

(* The digest of what was written must be the recorded one.                *)
ExportDigest ==
    /\ xpc = "digest"
    /\ LET same == Entries(stream) = recorded
       IN  /\ Give(IF same THEN "link" ELSE "failed")
           /\ temp' = same
    /\ UNCHANGED <<frames, entry, stream>>

(* The synced staging file is linked to the destination, never over one    *)
(* that is there, and its own name is removed; a failure of the removal is *)
(* a warning.  create_export_key publishes a key in the same way.          *)
ExportLink ==
    /\ xpc = "link"
    /\ IF file.there
       THEN xpc' = "failed" /\ temp' = FALSE /\ UNCHANGED file
       ELSE /\ xpc' = "linked"
            /\ file' = [there |-> TRUE, entries |-> stream, stamp |-> 0]
            /\ UNCHANGED temp
    /\ UNCHANGED <<home, recorded, frames, entry, stream, ivars, represent, writes>>

ExportEnds ==
    /\ xpc = "linked"
    /\ temp' \in BOOLEAN
    /\ Give("done")
    /\ UNCHANGED <<frames, entry, stream>>

(* The process dies and leaves its staging file behind.                    *)
ExportDies ==
    /\ xpc \in {"walk", "read", "recheck", "digest", "link", "linked"}
    /\ Give("done")
    /\ UNCHANGED <<frames, entry, stream, temp>>

-------------------------------------------------------------------------------
(* The import.  open_bundle takes a file with one link only, so a bundle   *)
(* whose staging link is still there is refused.                           *)

Authentic == {Foreign} \cup {s \in {stream} : xpc \in {"linked", "done"}}

Refuse ==
    /\ ipc' = "refused"
    /\ UNCHANGED <<confirmed, plan, pass, open, made, template>>

ImportOpens ==
    /\ ipc \in {"idle", "previewed"}
    /\ file.there
    /\ ~temp
    /\ ipc' = IF ipc = "idle" THEN "preview" ELSE "authenticate"
    /\ plan' = [plan EXCEPT !.stamp = file.stamp]
    /\ pass' = <<>>
    /\ open' = StartOfParse
    /\ UNCHANGED <<home, recorded, xvars, file, confirmed, made, template, represent, writes>>

(* One entry is read from the file as it is now and must follow the ones   *)
(* before it; the second pass also creates it in the staging home.         *)
Stored(path) == [i \in DOMAIN path |-> represent[path[i]]]

Creatable(e) == Stored(e.path) \notin DOMAIN made /\ e.data # "unreadable"

Creates(e) ==
    made' = [p \in DOMAIN made \cup {Stored(e.path)} |->
               IF p = Stored(e.path) THEN e ELSE made[p]]

(* verify_directory_children: the names of a directory are those that were *)
(* written.                                                                *)
ChildrenKept(dir) ==
    \A p \in DOMAIN made : Parent(made[p].path) = dir => Name(p) = Name(made[p].path)

Reads == Len(pass) < Len(file.entries)

(* ParseState::note_entry                                                  *)
NoteEntry == Len(pass) < EntryLimit

ReadEntry(extract) ==
    LET e == file.entries[Len(pass) + 1]
    IN  /\ Reads
        /\ IF /\ Follows(open, e)
              /\ NoteEntry
              /\ extract => /\ \A d \in Closed(open, e) : ChildrenKept(d)
                            /\ Creatable(e)
           THEN /\ pass' = Append(pass, e)
                /\ open' = Descend(open, e)
                /\ IF extract THEN Creates(e) ELSE UNCHANGED made
                /\ UNCHANGED <<ipc, confirmed, plan, template>>
           ELSE Refuse
        /\ UNCHANGED <<home, recorded, xvars, file, represent, writes>>

AuthenticateEntry == ipc \in {"preview", "authenticate"} /\ ReadEntry(FALSE)

ExtractEntry == ipc = "extract" /\ ReadEntry(TRUE)

(* The end of authenticate: the tag must cover what was read, and the      *)
(* file's generation be what it was.                                       *)
Authenticated == pass \in Authentic /\ file.stamp = plan.stamp

(* bundle_import_plan shows the plan digest, which covers tag and          *)
(* generation, and the user confirms it.                                   *)
PreviewEnds ==
    /\ ipc = "preview"
    /\ ~Reads
    /\ IF Authenticated
       THEN /\ ipc' = "previewed"
            /\ confirmed' = [plan EXCEPT !.entries = pass]
            /\ UNCHANGED <<plan, pass, open, made, template>>
       ELSE Refuse
    /\ UNCHANGED <<home, recorded, xvars, file, represent, writes>>

(* import_bundle authenticates the file again; its plan digest must be the *)
(* confirmed one before staging is prepared.                               *)
AuthenticateEnds ==
    /\ ipc = "authenticate"
    /\ ~Reads
    /\ IF Authenticated /\ [plan EXCEPT !.entries = pass] = confirmed
       THEN /\ ipc' = "extract"
            /\ plan' = [plan EXCEPT !.entries = pass]
            /\ pass' = <<>>
            /\ open' = StartOfParse
            /\ UNCHANGED <<confirmed, made, template>>
       ELSE Refuse
    /\ UNCHANGED <<home, recorded, xvars, file, represent, writes>>

(* Mutant: the second pass only has to be authentic, not the one that was  *)
(* confirmed.                                                              *)
SecondPassAgreesAnyTag == pass \in Authentic /\ file.stamp = plan.stamp

(* The end of the second pass: authentic again, the same header and tag,   *)
(* the same generation, and no name changed by the filesystem.             *)
SecondPassAgrees ==
    /\ pass \in Authentic
    /\ pass = plan.entries
    /\ file.stamp = plan.stamp

(* digest_home of the staging home, before it is published.                *)
StagedContent == {Entry(p, made[p]) : p \in DOMAIN made}

ExtractEnds ==
    /\ ipc = "extract"
    /\ ~Reads
    /\ IF /\ SecondPassAgrees
          /\ \A i \in DOMAIN open : ChildrenKept(open[i].path)
          /\ StagedContent = Entries(pass)
       THEN /\ ipc' = "done"
            /\ template' = StagedContent
            /\ UNCHANGED <<confirmed, plan, pass, open, made>>
       ELSE Refuse
    /\ UNCHANGED <<home, recorded, xvars, file, represent, writes>>

Nothing == [p \in {} |-> TRUE]

Init ==
    /\ \E h \in Homes :
         /\ home = [p \in {Root} \cup {e.path : e \in h} |->
                      IF p = Root THEN [kind |-> "directory", data |-> "rwx", target |-> <<>>, stamp |-> 0]
                      ELSE LET e == CHOOSE e \in h : e.path = p
                           IN  Node(e, 0)]
         /\ recorded = h
    /\ represent \in Representations
    /\ xpc = "idle" /\ frames = <<>> /\ entry = NoEntry /\ stream = <<>> /\ temp = FALSE
    /\ file = [there |-> FALSE, entries |-> <<>>, stamp |-> 0]
    /\ ipc = "idle" /\ plan = [entries |-> <<>>, stamp |-> 0] /\ confirmed = plan /\ pass = <<>>
    /\ open = StartOfParse /\ made = Nothing /\ template = {}
    /\ writes = 0

Export ==
    \/ ExportBegins
    \/ ExportStat
    \/ ExportRead
    \/ ExportRecheck
    \/ ExportAscend
    \/ ExportDigest
    \/ ExportLink
    \/ ExportEnds
    \/ ExportDies

Import ==
    \/ ImportOpens
    \/ AuthenticateEntry
    \/ PreviewEnds
    \/ AuthenticateEnds
    \/ ExtractEntry
    \/ ExtractEnds

Next == EditHome \/ RemoveFromHome \/ RewriteBundle \/ Export \/ Import

Spec == Init /\ [][Next]_vars

-------------------------------------------------------------------------------
(* Properties.                                                             *)

EntryType(e) == /\ Len(e.path) >= 1
                /\ e.kind \in {"directory", "file", "symlink"}

TypeOK ==
    /\ Root \in DOMAIN home
    /\ \A p \in DOMAIN home \ {Root} :
         Parent(p) \in DOMAIN home /\ home[Parent(p)].kind = "directory"
    /\ \A i \in DOMAIN stream : EntryType(stream[i])
    /\ \A i \in DOMAIN pass : EntryType(pass[i])
    /\ \A i \in DOMAIN open : Len(open[i].path) = i - 1
    /\ temp \in BOOLEAN

(* "Fails without publishing the final path when any source ... check      *)
(* fails" (export.rs:48): a bundle that is at the destination and was not  *)
(* rewritten since holds exactly the recorded tree, whatever other         *)
(* processes did to the home while it was read.                            *)
ExportedFaithful ==
    xpc = "linked" /\ file.entries = stream => Entries(stream) = recorded

(* The two ends of the format agree: a stream the walk has finished is one *)
(* the parser follows to its end, so an exported bundle can be imported.   *)
ExportParses ==
    LET Opened[n \in 0 .. Len(stream)] ==
            IF n = 0 THEN StartOfParse ELSE Descend(Opened[n - 1], stream[n])
    IN  xpc \in {"digest", "link", "linked"} =>
            \A n \in 1 .. Len(stream) : Follows(Opened[n - 1], stream[n])

(* An export gives the recorded tree, in a stream the parser accepts, or   *)
(* nothing.                                                                *)
ExportSound == TypeOK /\ ExportedFaithful /\ ExportParses

(* What the parser follows is canonical: no path twice, every parent       *)
(* declared as a directory before, siblings in order.  One tree has one    *)
(* bundle, and an entry is never created below a link or a file.           *)
ParsedCanonical ==
    \A n \in DOMAIN pass :
        /\ \A k \in 1 .. n - 1 : pass[k].path # pass[n].path
        /\ Parent(pass[n].path) # Root =>
             \E k \in 1 .. n - 1 :
                /\ pass[k].path = Parent(pass[n].path)
                /\ pass[k].kind = "directory"
        /\ \A k \in 1 .. n - 1 :
             Parent(pass[k].path) = Parent(pass[n].path) => Name(pass[k].path) < Name(pass[n].path)

(* "Fails without publication when the plan, bundle generation,            *)
(* extraction, content identity ... changes" (import.rs:50): a published   *)
(* template is what the user confirmed, name for name, although the file   *)
(* is read three times and others may rewrite it at any point.             *)
ImportedAsConfirmed ==
    ipc = "done" => /\ template = Entries(confirmed.entries)
                    /\ confirmed.entries \in Authentic

(* The same from end to end: the import of the bundle this export wrote is *)
(* the artifact that was exported.                                         *)
TransferFaithful ==
    ipc = "done" /\ confirmed.entries # Foreign => template = recorded

(* An import publishes what was confirmed, which for an untouched bundle   *)
(* is what was exported, or nothing.                                       *)
ImportSound == ImportedAsConfirmed /\ TransferFaithful

===============================================================================
