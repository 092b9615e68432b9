------------------------------ MODULE CommandLinks ------------------------------
(***************************************************************************)
(* The managed commands of a space (command_links.rs): a launcher link     *)
(* `quarters` and one link per OpenSSH tool that leads to it, installed    *)
(* and removed in `.local/bin` of the space's home.                        *)
(*                                                                         *)
(* The management lock and the exclusive lease keep other commands and     *)
(* sessions away, not detached processes: between any two system calls     *)
(* they may put anything at any of the names, loosen the directory, or     *)
(* remove the executable a launcher leads to.  An installation undoes the  *)
(* links it made if one fails; a crash undoes nothing.                     *)
(*                                                                         *)
(* An entry is "absent", a link by its target ("quarters" or an absolute   *)
(* path that ends in quarters, a member of Executables), or "foreign": any *)
(* other link and everything that is not a link.                           *)
(***************************************************************************)
EXTENDS Naturals, Sequences, FiniteSets, SequencesExt

CONSTANTS
    Tools,          \* TOOLS, in order
    Executables,    \* absolute paths of the shape .../quarters
    Running,        \* the executable of the commands, canonical
    MaxDisturbed    \* bound: what detached processes do

ASSUME CommandLinksAssumption ==
    /\ Running \in Executables /\ MaxDisturbed \in Nat
    /\ Tools \in Seq(STRING) /\ \A i \in DOMAIN Tools : Tools[i] # "quarters"
    /\ Executables \cap {"absent", "quarters", "foreign", "nothing"} = {}

VARIABLES
    entry,          \* the names of .local/bin
    directorySafe,  \* .local/bin and its parents pass validate_directory
    usable,         \* executables with safe_launcher_metadata
    ancestorsSafe,  \* validate_launcher_ancestors accepts Running
    session,        \* a lease other than ours, or a freeze
    op,             \* the command that holds the management lock
    disturbed,      \* bound: number of disturbances so far
    installable     \* history: what was found at first could be installed on

linkVars == <<entry, directorySafe, usable, ancestorsSafe, session, op, disturbed, installable>>

Launcher == "quarters"
Names == <<Launcher>> \o Tools
Entries == {"absent", "quarters", "foreign"} \cup Executables
States == {"absent", "managed", "stale", "collision"}

(* kind: what is asked; at: the name its loop is at; seen: the states of    *)
(* the report it works on; made: links it made that are still its inode;    *)
(* looked: names nobody else changed since the last look.                   *)
Unseen == [n \in ToSet(Names) |-> "unknown"]
NoCommand == [pc |-> "idle", kind |-> "none", at |-> 1, seen |-> Unseen, made |-> {}, looked |-> {}]

-------------------------------------------------------------------------------
(* managed_launcher_shape, launcher_state.  The relative shape leads to    *)
(* the link itself, which is no regular file.                              *)
LauncherState ==
    CASE entry[Launcher] = "absent" -> "absent"
      [] entry[Launcher] = "foreign" -> "collision"
      [] entry[Launcher] \in Executables -> IF entry[Launcher] \in usable THEN "managed" ELSE "stale"
      [] entry[Launcher] = "quarters" -> "stale"

ToolState(tool, launcher) ==
    CASE entry[tool] = "absent" -> "absent"
      [] entry[tool] = "quarters" /\ launcher = "managed" -> "managed"
      [] entry[tool] = "quarters" /\ launcher \in {"absent", "stale"} -> "stale"
      [] OTHER -> "collision"

StateOf(name, seen) == IF name = Launcher THEN LauncherState ELSE ToolState(name, seen[Launcher])

Active == op.pc \notin {"idle", "done", "failed", "undone"}

EnsureInstallable(seen) ==
    \A n \in ToSet(Names) :
        /\ seen[n] # "collision"
        /\ seen[n] = "stale" => n # Launcher /\ seen[Launcher] = "absent"

EnsureRemovable(seen) == \A n \in ToSet(Tools) : seen[n] # "collision"

(* inspect_command_links at one instant                                    *)
Report ==
    LET launcher == LauncherState
    IN  [n \in ToSet(Names) |-> IF n = Launcher THEN launcher ELSE ToolState(n, launcher)]

(* Mutant: an executable that is not stable is linked all the same         *)
ValidateCommandLauncherAny == TRUE

ValidateCommandLauncher == Running \in usable /\ ancestorsSafe

-------------------------------------------------------------------------------
LinksInit ==
    /\ entry \in [ToSet(Names) -> Entries]
    /\ directorySafe = TRUE /\ session = FALSE
    /\ usable \in SUBSET Executables /\ ancestorsSafe \in BOOLEAN
    /\ op = NoCommand /\ disturbed = 0
    /\ installable = EnsureInstallable(Report)

Here == Names[op.at]
Go(next, at) == op' = [op EXCEPT !.pc = next, !.at = at]
Kept == UNCHANGED <<directorySafe, usable, ancestorsSafe, session, disturbed, installable>>

(* install_space_command_links, remove_space_command_links up to the       *)
(* lease; what refuses them is a session, a freeze or an unfinished        *)
(* rename or rollback of the space.                                        *)
LinksBegin(kind) ==
    /\ ~Active /\ ~session
    /\ op' = [NoCommand EXCEPT !.pc = "validate", !.kind = kind]
    /\ UNCHANGED entry /\ Kept

(* validate_command_directory and, before an installation, the launcher    *)
LinksValidate ==
    /\ op.pc = "validate"
    /\ Go(IF directorySafe /\ (op.kind = "remove" \/ ValidateCommandLauncher) THEN "inspect" ELSE "failed", 1)
    /\ UNCHANGED entry /\ Kept

(* One inspect_launcher or inspect_tool of inspect_command_links           *)
LinksLook ==
    /\ op.pc \in {"inspect", "report"} /\ op.at <= Len(Names)
    /\ op' = [op EXCEPT !.seen[Here] = StateOf(Here, op.seen), !.at = @ + 1]
    /\ UNCHANGED entry /\ Kept

Reported == op.at > Len(Names)

(* The loop of an installation begins with the launcher, that of a removal *)
(* with the tools.                                                         *)
LinksPreflight ==
    /\ op.pc = "inspect" /\ Reported
    /\ \/ op.kind = "install" /\ EnsureInstallable(op.seen) /\ Go("create", 1)
       \/ op.kind = "install" /\ ~EnsureInstallable(op.seen) /\ Go("failed", 1)
       \/ op.kind = "remove" /\ EnsureRemovable(op.seen) /\ Go("remove", 2)
       \/ op.kind = "remove" /\ ~EnsureRemovable(op.seen) /\ Go("failed", 1)
    /\ UNCHANGED entry /\ Kept

TargetOf(name) == IF name = Launcher THEN Running ELSE "quarters"

(* A name none of the three loops works on                                 *)
PassOver ==
    /\ \/ op.pc = "create" /\ op.at <= Len(Names) /\ op.seen[Here] # "absent" /\ Go("create", op.at + 1)
       \/ op.pc = "rollback" /\ op.at > 0 /\ op.seen[Here] # "absent" /\ Go("rollback", op.at - 1)
       \/ op.pc = "remove" /\ op.at <= Len(Names) /\ op.seen[Here] = "absent" /\ Go("remove", op.at + 1)
    /\ UNCHANGED entry /\ Kept

(* The symlink of create_link, which never replaces an entry; what fails   *)
(* undoes the links of the names before this one.                          *)
CreateLink ==
    /\ op.pc = "create" /\ op.at <= Len(Names) /\ op.seen[Here] = "absent"
    /\ \/ /\ entry[Here] = "absent"
          /\ entry' = [entry EXCEPT ![Here] = TargetOf(Here)]
          /\ op' = [op EXCEPT !.pc = "verify", !.made = @ \cup {Here}]
       \/ entry[Here] # "absent" /\ Go("rollback", op.at - 1) /\ UNCHANGED entry
    /\ Kept

(* The directory is full or read only.                                     *)
CreateLinkFails ==
    /\ op.pc = "create" /\ op.at <= Len(Names) /\ op.seen[Here] = "absent"
    /\ Go("rollback", op.at - 1)
    /\ UNCHANGED entry /\ Kept

(* The look of create_link at what it made                                 *)
VerifyLink ==
    /\ op.pc = "verify"
    /\ \/ entry[Here] = TargetOf(Here) /\ Go("create", op.at + 1)
       \/ entry[Here] # TargetOf(Here) /\ Go("rollback", op.at - 1)
    /\ UNCHANGED entry /\ Kept

CreateEnds ==
    /\ op.pc = "create" /\ op.at > Len(Names)
    /\ Go("sync", op.at)
    /\ UNCHANGED entry /\ Kept

(* sync_directory fails after the work is done                             *)
SyncFails ==
    /\ op.pc = "sync"
    /\ Go("failed", op.at)
    /\ UNCHANGED entry /\ Kept

(* The directory is validated again and the report made anew.              *)
LinksInspectAgain ==
    /\ op.pc = "sync"
    /\ op' = [op EXCEPT !.pc = IF directorySafe THEN "report" ELSE "failed", !.at = 1, !.seen = Unseen]
    /\ UNCHANGED entry /\ Kept

(* Mutant: whatever is at the name is taken for the link                   *)
MatchingLinkByName(name) == entry[name] # "absent"

(* matching_link                                                           *)
MatchingLink(name) ==
    /\ entry[name] = TargetOf(name)
    /\ name \in op.made

(* An inode number may be used again: a link of the same target that       *)
(* another process made matches too, if it was given the number of ours.   *)
RollbackLook ==
    /\ op.pc = "rollback" /\ op.at > 0 /\ op.seen[Here] = "absent"
    /\ \/ MatchingLink(Here) /\ op' = [op EXCEPT !.pc = "undo", !.looked = {Here}]
       \/ /\ entry[Here] = TargetOf(Here) /\ Here \notin op.made
          /\ op' = [op EXCEPT !.pc = "undo", !.looked = {}]
       \/ ~MatchingLink(Here) /\ Go("rollback", op.at - 1)
    /\ UNCHANGED entry /\ Kept

(* The remove_file of rollback_links, whose failure is ignored             *)
RollbackUnlink ==
    /\ op.pc = "undo"
    /\ entry' = [entry EXCEPT ![Here] = "absent"]
    /\ op' = [op EXCEPT !.pc = "rollback", !.at = @ - 1, !.made = @ \ {Here}]
    /\ Kept

RollbackEnds ==
    /\ op.pc = "rollback" /\ op.at = 0
    /\ Go("undone", 1)
    /\ UNCHANGED entry /\ Kept

(* The test of remove_managed_tool                                         *)
RemoveToolLook(name) == entry[name] = "quarters"

RemoveLook ==
    /\ op.pc = "remove" /\ op.at <= Len(Names) /\ op.seen[Here] # "absent"
    /\ \/ RemoveToolLook(Here) /\ op' = [op EXCEPT !.pc = "unlink", !.looked = {Here}]
       \/ ~RemoveToolLook(Here) /\ Go("failed", op.at)
    /\ UNCHANGED entry /\ Kept

RemoveUnlink ==
    /\ op.pc = "unlink"
    /\ entry' = [entry EXCEPT ![Here] = "absent"]
    /\ \/ entry[Here] = "absent" /\ Go("failed", op.at)
       \/ entry[Here] # "absent" /\ Go("remove", op.at + 1)
    /\ Kept

RemoveEnds ==
    /\ op.pc = "remove" /\ op.at > Len(Names)
    /\ Go("sync", op.at)
    /\ UNCHANGED entry /\ Kept

LinksReturn ==
    /\ op.pc = "report" /\ Reported
    /\ Go("done", op.at)
    /\ UNCHANGED entry /\ Kept

(* The command dies; its locks go with it.                                 *)
LinksCrash ==
    /\ Active
    /\ op' = NoCommand
    /\ UNCHANGED entry /\ Kept

-------------------------------------------------------------------------------
Disturbing == disturbed < MaxDisturbed /\ disturbed' = disturbed + 1

(* A detached process, or the user, puts something at a name.              *)
PutEntry(name, value) ==
    /\ Disturbing
    /\ value # entry[name] \/ (Active /\ name \in op.made)
    /\ entry' = [entry EXCEPT ![name] = value]
    /\ op' = [op EXCEPT !.made = @ \ {name}, !.looked = @ \ {name}]
    /\ UNCHANGED <<directorySafe, usable, ancestorsSafe, session, installable>>

LoosenDirectory ==
    /\ Disturbing /\ directorySafe /\ directorySafe' = FALSE
    /\ UNCHANGED <<entry, usable, ancestorsSafe, session, op, installable>>

(* An executable is uninstalled or made writable for others.               *)
LoseExecutable ==
    /\ Disturbing
    /\ \E e \in usable : usable' = usable \ {e}
    /\ UNCHANGED <<entry, directorySafe, ancestorsSafe, session, op, installable>>

(* A session begins when no exclusive lease is held, and ends.             *)
SessionBegins ==
    /\ Disturbing
    /\ ~session /\ ~Active /\ session' = TRUE
    /\ UNCHANGED <<entry, directorySafe, usable, ancestorsSafe, op, installable>>

SessionEnds ==
    /\ session /\ session' = FALSE
    /\ UNCHANGED <<entry, directorySafe, usable, ancestorsSafe, op, disturbed, installable>>

LinksCommand ==
    \/ LinksValidate \/ LinksLook \/ LinksPreflight \/ LinksReturn
    \/ LinksInspectAgain \/ PassOver \/ CreateLink \/ CreateLinkFails \/ VerifyLink \/ CreateEnds \/ SyncFails
    \/ RollbackLook \/ RollbackUnlink \/ RollbackEnds
    \/ RemoveLook \/ RemoveUnlink \/ RemoveEnds \/ LinksCrash

LinksOthers ==
    \/ \E n \in ToSet(Names), v \in Entries : PutEntry(n, v)
    \/ LoosenDirectory \/ LoseExecutable \/ SessionBegins

LinksNext == (\E k \in {"install", "remove"} : LinksBegin(k)) \/ LinksCommand \/ LinksOthers \/ SessionEnds

LinksSpec == LinksInit /\ [][LinksNext]_linkVars

-------------------------------------------------------------------------------
LinksTypeOK ==
    /\ entry \in [ToSet(Names) -> Entries]
    /\ op.pc \in {"idle", "validate", "inspect", "create", "verify", "sync", "rollback", "undo", "remove",
                  "unlink", "report", "done", "failed", "undone"}
    /\ op.seen \in [ToSet(Names) -> States \cup {"unknown"}] /\ op.at \in 0..(Len(Names) + 1)
    /\ op.made \subseteq ToSet(Names) /\ disturbed \in 0..MaxDisturbed
    /\ op.pc \in {"verify", "undo", "unlink"} => ~session

(* What other people put in the directory stays there: a command takes     *)
(* away only a link it made itself (rollback_links) or an exact tool link  *)
(* (remove_managed_tool), and never replaces anything.  All it may lose is *)
(* what was put there after its last look at the name, and a rollback may  *)
(* take a twin of its link that was given the same inode number.           *)
ForeignEntriesKept ==
    [][disturbed' = disturbed =>
        \A n \in ToSet(Names) : entry'[n] # entry[n] =>
            \/ entry[n] = "absent"
            \/ op.kind = "install" /\ n \in op.made
            \/ op.kind = "remove" /\ n # Launcher /\ entry[n] = "quarters"
            \/ op.pc \in {"undo", "unlink"} /\ n \notin op.looked]_linkVars

(* Following a name to the program it runs: at most two links              *)
Runs(name) ==
    LET last == IF entry[name] = "quarters" THEN entry[Launcher] ELSE entry[name]
    IN  IF last \in usable THEN last ELSE "nothing"

(* If nobody interferes, an installation that returns leaves every tool    *)
(* running the launcher's executable, whatever it began with: absent       *)
(* entries, a launcher of another executable, tools that had lost their    *)
(* launcher (install_command_links).                                       *)
InstalledRoutes ==
    op.pc = "done" /\ op.kind = "install" /\ disturbed = 0 =>
        /\ Runs(Launcher) # "nothing"
        /\ \A n \in ToSet(Tools) : Runs(n) = Runs(Launcher)

(* If nobody interferes, no sequence of installations, removals, failures  *)
(* and crashes turns a directory that could be installed on into one that  *)
(* every later installation refuses (install_created_commands: "then       *)
(* retry installation").                                                   *)
RetryNeverBlocked == installable /\ disturbed = 0 => EnsureInstallable(Report)

(* An installation that failed while it made its links leaves none of      *)
(* them, and one that is at work or died has linked no tool ahead of the   *)
(* launcher the tools lead to (install_command_links, rollback_links).     *)
FailedInstallUndone ==
    /\ op.pc = "undone" => op.made = {}
    /\ disturbed = 0 /\ op.made # {} => entry[Launcher] # "absent"

(* An installation of the commands leads every tool to the launcher or can *)
(* be repeated until it does.                                              *)
LinksSound ==
    /\ LinksTypeOK
    /\ InstalledRoutes
    /\ RetryNeverBlocked
    /\ FailedInstallUndone

===============================================================================
