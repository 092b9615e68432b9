------------------------------ MODULE CreateProofs ------------------------------
(***************************************************************************)
(* Proofs about the creation of a space from the host's home and about its *)
(* managed commands, for every set of tools, of executables, of host file  *)
(* systems and of requests, and every number of disturbances.              *)
(***************************************************************************)
EXTENDS CreateFromHost, WellFoundedInduction, TLAPS

(* What the proofs use of Names                                            *)
LEMMA NamesFacts ==
    /\ Len(Names) \in Nat \ {0}
    /\ DOMAIN Names = 1..Len(Names)
    /\ Names[1] = Launcher
    /\ \A i \in 1..Len(Names) : Names[i] = Launcher => i = 1
    /\ \A i \in 1..Len(Names) : Names[i] \in ToSet(Names)
    /\ \A n \in ToSet(Names) : \E i \in 1..Len(Names) : n = Names[i]
    /\ Launcher \in ToSet(Names)
    /\ ToSet(Tools) \subseteq ToSet(Names)
    /\ Launcher \notin ToSet(Tools)
    /\ \A n \in ToSet(Names) : n # Launcher => n \in ToSet(Tools)
<1> DEFINE S == STRING \cup {"quarters"}
<1>1. Tools \in Seq(S) /\ \A i \in DOMAIN Tools : Tools[i] # "quarters"
  BY CommandLinksAssumption
<1>2. <<"quarters">> \in Seq(S)
  OBVIOUS
<1> HIDE DEF S
<1>3. /\ Len(Names) = 1 + Len(Tools) /\ Len(Tools) \in Nat
      /\ DOMAIN Names = 1..Len(Names) /\ DOMAIN Tools = 1..Len(Tools)
      /\ Names[1] = "quarters"
      /\ \A i \in 1..Len(Names) : i # 1 => Names[i] = Tools[i - 1]
  BY <1>1, <1>2 DEF Names, Launcher
<1>4. \A i \in 1..Len(Tools) : i + 1 \in 1..Len(Names) /\ Names[i + 1] = Tools[i]
  BY <1>3
<1>5. \A i \in 1..Len(Names) : i # 1 => i - 1 \in 1..Len(Tools)
  BY <1>3
<1>6. \A i \in 1..Len(Names) : Names[i] = Launcher => i = 1
  BY <1>1, <1>3, <1>5 DEF Launcher
<1>7. ToSet(Names) = {Names[i] : i \in 1..Len(Names)} /\ ToSet(Tools) = {Tools[i] : i \in 1..Len(Tools)}
  BY <1>3 DEF ToSet
<1>8. ToSet(Tools) \subseteq ToSet(Names)
  BY <1>7, <1>4
<1>9. Launcher \notin ToSet(Tools)
  BY <1>7, <1>1, <1>3 DEF Launcher
<1>10. \A n \in ToSet(Names) : n # Launcher => n \in ToSet(Tools)
  BY <1>7, <1>5, <1>3 DEF Launcher
<1>11. Len(Names) \in Nat \ {0} /\ 1 \in 1..Len(Names)
  BY <1>3
<1>12. QED
  BY <1>3, <1>6, <1>7, <1>8, <1>9, <1>10, <1>11 DEF Launcher

-------------------------------------------------------------------------------
(* The inductive invariant of the commands                                 *)
LinkPcs ==
    {"idle", "validate", "inspect", "create", "verify", "sync", "rollback", "undo", "remove",
     "unlink", "report", "done", "failed", "undone"}

OpType ==
    [pc : LinkPcs, kind : {"none", "install", "remove"}, at : 0..(Len(Names) + 1),
     seen : [ToSet(Names) -> States \cup {"unknown"}], made : SUBSET ToSet(Names), looked : SUBSET ToSet(Names)]

LinksTyped ==
    /\ entry \in [ToSet(Names) -> Entries]
    /\ op \in OpType
    /\ usable \subseteq Executables
    /\ disturbed \in 0..MaxDisturbed

(* Where a command is in its loops, and which command it is                *)
LinksPlaced ==
    /\ Active => ~session
    /\ op.pc \in {"create", "inspect", "report"} => op.at >= 1
    /\ op.pc \in {"verify", "undo", "unlink"} => op.at \in 1..Len(Names)
    /\ op.pc = "rollback" => op.at <= Len(Names)
    /\ op.pc \in {"remove", "unlink"} => op.at >= 2 /\ op.kind = "remove"
    /\ op.pc \in {"create", "verify", "rollback", "undo", "undone"} => op.kind = "install"

(* The links a command made: each is the link it meant to make, at a name  *)
(* its report found absent, among the names its loop has been at           *)
LinksMade ==
    /\ op.kind = "remove" \/ op.pc \in {"idle", "validate", "inspect", "undone"} => op.made = {}
    /\ \A n \in op.made : entry[n] = TargetOf(n)
    /\ op.pc \in {"create", "verify", "rollback", "undo"} =>
         \A n \in op.made : op.seen[n] = "absent" /\ \E i \in 1..Len(Names) : i <= op.at /\ n = Names[i]
    /\ op.pc = "create" => \A n \in op.made : \E i \in 1..Len(Names) : i < op.at /\ n = Names[i]
    /\ op.pc = "undo" => op.looked \subseteq op.made
    /\ op.pc = "unlink" => \A n \in op.looked : entry[n] = "quarters"

Routed(n) == IF n = Launcher THEN entry[n] \in usable ELSE entry[n] = "quarters"
Retryable(n) == entry[n] = "absent" \/ Routed(n)

(* While nobody interferes: what a report saw is still so, an installation *)
(* routes one name after the other, and tools never lead nowhere           *)
LinksQuiet ==
    disturbed = 0 =>
      /\ installable => \A n \in ToSet(Names) : Retryable(n)
      /\ op.kind = "install" /\ op.pc \notin {"idle", "validate", "failed"} => Running \in usable
      /\ op.pc = "inspect" => \A i \in 1..Len(Names) : i < op.at =>
           /\ op.seen[Names[i]] \in States
           /\ op.seen[Names[i]] = "absent" => entry[Names[i]] = "absent"
           /\ op.seen[Names[i]] = "managed" => Routed(Names[i])
           /\ op.seen[Names[i]] = "stale" /\ Names[i] # Launcher => Routed(Names[i])
      /\ op.pc \in {"create", "verify"} => \A i \in 1..Len(Names) :
           Routed(Names[i]) \/ (i >= op.at /\ op.seen[Names[i]] = "absent" /\ entry[Names[i]] = "absent")
      /\ op.pc = "verify" => Routed(Names[op.at])
      /\ op.kind = "install" /\ op.pc \in {"sync", "report", "done"} => \A n \in ToSet(Names) : Routed(n)
      /\ op.made # {} => entry[Launcher] # "absent"

LinksInv == LinksTyped /\ LinksPlaced /\ LinksMade /\ LinksQuiet

(* The command moves: all of op after a step                               *)
OpIs(next, kind, at, seen, made, looked) ==
    /\ op' \in OpType
    /\ op'.pc = next /\ op'.kind = kind /\ op'.at = at
    /\ op'.seen = seen /\ op'.made = made /\ op'.looked = looked

LEMMA GoEffect ==
    ASSUME LinksInv, NEW next \in LinkPcs, NEW at \in 0..(Len(Names) + 1), Go(next, at)
    PROVE  OpIs(next, op.kind, at, op.seen, op.made, op.looked)
BY DEF LinksInv, LinksTyped, OpType, Go, OpIs

LEMMA OpEffect ==
    ASSUME LinksInv,
           NEW next \in LinkPcs, NEW at \in 0..(Len(Names) + 1),
           NEW seen \in [ToSet(Names) -> States \cup {"unknown"}],
           NEW made \in SUBSET ToSet(Names), NEW looked \in SUBSET ToSet(Names)
    PROVE  /\ op' = [op EXCEPT !.pc = next, !.looked = looked] =>
                OpIs(next, op.kind, op.at, op.seen, op.made, looked)
           /\ op' = [op EXCEPT !.pc = next, !.made = made] =>
                OpIs(next, op.kind, op.at, op.seen, made, op.looked)
           /\ op' = [op EXCEPT !.pc = next, !.at = at, !.made = made] =>
                OpIs(next, op.kind, at, op.seen, made, op.looked)
           /\ op' = [op EXCEPT !.pc = next, !.at = at, !.seen = seen] =>
                OpIs(next, op.kind, at, seen, op.made, op.looked)
           /\ op' = [op EXCEPT !.seen = seen, !.at = at] =>
                OpIs(op.pc, op.kind, at, seen, op.made, op.looked)
           /\ op' = [op EXCEPT !.made = made, !.looked = looked] =>
                OpIs(op.pc, op.kind, op.at, op.seen, made, looked)
<1>1. ASSUME op' = [op EXCEPT !.pc = next, !.looked = looked] PROVE OpIs(next, op.kind, op.at, op.seen, op.made, looked)
  BY <1>1 DEF LinksInv, LinksTyped, OpType, OpIs
<1>2. ASSUME op' = [op EXCEPT !.pc = next, !.made = made] PROVE OpIs(next, op.kind, op.at, op.seen, made, op.looked)
  BY <1>2 DEF LinksInv, LinksTyped, OpType, OpIs
<1>3. ASSUME op' = [op EXCEPT !.pc = next, !.at = at, !.made = made] PROVE OpIs(next, op.kind, at, op.seen, made, op.looked)
  BY <1>3 DEF LinksInv, LinksTyped, OpType, OpIs
<1>4. ASSUME op' = [op EXCEPT !.pc = next, !.at = at, !.seen = seen] PROVE OpIs(next, op.kind, at, seen, op.made, op.looked)
  BY <1>4 DEF LinksInv, LinksTyped, OpType, OpIs
<1>5. ASSUME op' = [op EXCEPT !.seen = seen, !.at = at] PROVE OpIs(op.pc, op.kind, at, seen, op.made, op.looked)
  BY <1>5 DEF LinksInv, LinksTyped, OpType, OpIs
<1>6. ASSUME op' = [op EXCEPT !.made = made, !.looked = looked] PROVE OpIs(op.pc, op.kind, op.at, op.seen, made, looked)
  BY <1>6 DEF LinksInv, LinksTyped, OpType, OpIs
<1>7. QED
  BY <1>1, <1>2, <1>3, <1>4, <1>5, <1>6

LEMMA UnseenTyped == Unseen \in [ToSet(Names) -> States \cup {"unknown"}]
BY DEF Unseen, States

LEMMA PcsAre ==
    /\ "validate" \in LinkPcs /\ "inspect" \in LinkPcs /\ "create" \in LinkPcs /\ "verify" \in LinkPcs
    /\ "sync" \in LinkPcs /\ "rollback" \in LinkPcs /\ "undo" \in LinkPcs /\ "remove" \in LinkPcs
    /\ "unlink" \in LinkPcs /\ "report" \in LinkPcs /\ "done" \in LinkPcs /\ "failed" \in LinkPcs
    /\ "undone" \in LinkPcs /\ "idle" \in LinkPcs
BY DEF LinkPcs

LEMMA EntriesAre ==
    /\ "absent" \in Entries /\ "quarters" \in Entries /\ Running \in Entries
    /\ \A n \in ToSet(Names) : TargetOf(n) \in Entries /\ TargetOf(n) # "absent"
    /\ \A e \in Executables : e # "absent" /\ e # "quarters" /\ e # "foreign" /\ e # "nothing"
BY CommandLinksAssumption DEF Entries, TargetOf

LEMMA LinksValidateKeeps == LinksInv /\ LinksValidate => LinksInv'
<1> SUFFICES ASSUME LinksInv, LinksValidate PROVE LinksInv'
  OBVIOUS
<1> USE NamesFacts
<1>1. CASE directorySafe /\ (op.kind = "remove" \/ ValidateCommandLauncher)
<2>1. Go("inspect", 1) /\ "inspect" \in LinkPcs /\ 1 \in 0..(Len(Names) + 1)
  BY PcsAre, <1>1 DEF LinksInv, LinksTyped, LinksPlaced, OpType, LinksValidate, ValidateCommandLauncher
<2>2. OpIs("inspect", op.kind, 1, op.seen, op.made, op.looked)
  BY <2>1, GoEffect
<2>3. LinksTyped'
  BY <2>2, <1>1, EntriesAre DEF LinksInv, LinksTyped, LinksPlaced, OpType, OpIs, LinksValidate, Here, Kept
<2>4. LinksPlaced'
  BY <2>2, <1>1 DEF LinksInv, LinksTyped, LinksPlaced, OpType, OpIs, Active, LinksValidate, Kept
<2>5. LinksMade'
  BY <2>2, <1>1 DEF LinksInv, LinksTyped, LinksPlaced, LinksMade, OpType, OpIs, TargetOf, LinksValidate, Kept, ValidateCommandLauncher
<2>6. LinksQuiet'
  BY <2>2, <1>1, EntriesAre DEF LinksInv, LinksTyped, LinksPlaced, LinksMade, LinksQuiet, Routed, Retryable, OpType, OpIs, LinksValidate, Kept, ValidateCommandLauncher
<2>7. QED
  BY <2>3, <2>4, <2>5, <2>6 DEF LinksInv
<1>2. CASE ~(directorySafe /\ (op.kind = "remove" \/ ValidateCommandLauncher))
<2>1. Go("failed", 1) /\ "failed" \in LinkPcs /\ 1 \in 0..(Len(Names) + 1)
  BY PcsAre, <1>2 DEF LinksInv, LinksTyped, LinksPlaced, OpType, LinksValidate, ValidateCommandLauncher
<2>2. OpIs("failed", op.kind, 1, op.seen, op.made, op.looked)
  BY <2>1, GoEffect
<2>3. LinksTyped'
  BY <2>2, <1>2, EntriesAre DEF LinksInv, LinksTyped, LinksPlaced, OpType, OpIs, LinksValidate, Here, Kept
<2>4. LinksPlaced'
  BY <2>2, <1>2 DEF LinksInv, LinksTyped, LinksPlaced, OpType, OpIs, Active, LinksValidate, Kept
<2>5. LinksMade'
  BY <2>2, <1>2 DEF LinksInv, LinksTyped, LinksPlaced, LinksMade, OpType, OpIs, TargetOf, LinksValidate, Kept, ValidateCommandLauncher
<2>6. LinksQuiet'
  BY <2>2, <1>2, EntriesAre DEF LinksInv, LinksTyped, LinksPlaced, LinksMade, LinksQuiet, Routed, Retryable, OpType, OpIs, LinksValidate, Kept, ValidateCommandLauncher
<2>7. QED
  BY <2>3, <2>4, <2>5, <2>6 DEF LinksInv
<1>3. QED
  BY <1>1, <1>2 DEF LinksValidate

LEMMA LinksPreflightKeeps == LinksInv /\ LinksPreflight => LinksInv'
<1> SUFFICES ASSUME LinksInv, LinksPreflight PROVE LinksInv'
  OBVIOUS
<1> USE NamesFacts
<1>1. CASE op.kind = "install" /\ EnsureInstallable(op.seen) /\ Go("create", 1)
<2>1. Go("create", 1) /\ "create" \in LinkPcs /\ 1 \in 0..(Len(Names) + 1)
  BY PcsAre, <1>1 DEF LinksInv, LinksTyped, LinksPlaced, OpType, LinksPreflight, Reported, EnsureInstallable, States
<2>2. OpIs("create", op.kind, 1, op.seen, op.made, op.looked)
  BY <2>1, GoEffect
<2>3. LinksTyped'
  BY <2>2, <1>1, EntriesAre DEF LinksInv, LinksTyped, LinksPlaced, OpType, OpIs, LinksPreflight, Here, Kept
<2>4. LinksPlaced'
  BY <2>2, <1>1 DEF LinksInv, LinksTyped, LinksPlaced, OpType, OpIs, Active, LinksPreflight, Kept
<2>5. LinksMade'
  BY <2>2, <1>1 DEF LinksInv, LinksTyped, LinksPlaced, LinksMade, OpType, OpIs, TargetOf, LinksPreflight, Kept, Reported, EnsureInstallable, States
<2>6. LinksQuiet'
  BY <2>2, <1>1, EntriesAre DEF LinksInv, LinksTyped, LinksPlaced, LinksMade, LinksQuiet, Routed, Retryable, OpType, OpIs, LinksPreflight, Kept, Reported, EnsureInstallable, States
<2>7. QED
  BY <2>3, <2>4, <2>5, <2>6 DEF LinksInv
<1>2. CASE op.kind = "install" /\ ~EnsureInstallable(op.seen) /\ Go("failed", 1)
<2>1. Go("failed", 1) /\ "failed" \in LinkPcs /\ 1 \in 0..(Len(Names) + 1)
  BY PcsAre, <1>2 DEF LinksInv, LinksTyped, LinksPlaced, OpType, LinksPreflight, Reported, EnsureInstallable, States
<2>2. OpIs("failed", op.kind, 1, op.seen, op.made, op.looked)
  BY <2>1, GoEffect
<2>3. LinksTyped'
  BY <2>2, <1>2, EntriesAre DEF LinksInv, LinksTyped, LinksPlaced, OpType, OpIs, LinksPreflight, Here, Kept
<2>4. LinksPlaced'
  BY <2>2, <1>2 DEF LinksInv, LinksTyped, LinksPlaced, OpType, OpIs, Active, LinksPreflight, Kept
<2>5. LinksMade'
  BY <2>2, <1>2 DEF LinksInv, LinksTyped, LinksPlaced, LinksMade, OpType, OpIs, TargetOf, LinksPreflight, Kept, Reported, EnsureInstallable, States
<2>6. LinksQuiet'
  BY <2>2, <1>2, EntriesAre DEF LinksInv, LinksTyped, LinksPlaced, LinksMade, LinksQuiet, Routed, Retryable, OpType, OpIs, LinksPreflight, Kept, Reported, EnsureInstallable, States
<2>7. QED
  BY <2>3, <2>4, <2>5, <2>6 DEF LinksInv
<1>3. CASE op.kind = "remove" /\ EnsureRemovable(op.seen) /\ Go("remove", 2)
<2>1. Go("remove", 2) /\ "remove" \in LinkPcs /\ 2 \in 0..(Len(Names) + 1)
  BY PcsAre, <1>3 DEF LinksInv, LinksTyped, LinksPlaced, OpType, LinksPreflight, Reported, EnsureInstallable, States
<2>2. OpIs("remove", op.kind, 2, op.seen, op.made, op.looked)
  BY <2>1, GoEffect
<2>3. LinksTyped'
  BY <2>2, <1>3, EntriesAre DEF LinksInv, LinksTyped, LinksPlaced, OpType, OpIs, LinksPreflight, Here, Kept
<2>4. LinksPlaced'
  BY <2>2, <1>3 DEF LinksInv, LinksTyped, LinksPlaced, OpType, OpIs, Active, LinksPreflight, Kept
<2>5. LinksMade'
  BY <2>2, <1>3 DEF LinksInv, LinksTyped, LinksPlaced, LinksMade, OpType, OpIs, TargetOf, LinksPreflight, Kept, Reported, EnsureInstallable, States
<2>6. LinksQuiet'
  BY <2>2, <1>3, EntriesAre DEF LinksInv, LinksTyped, LinksPlaced, LinksMade, LinksQuiet, Routed, Retryable, OpType, OpIs, LinksPreflight, Kept, Reported, EnsureInstallable, States
<2>7. QED
  BY <2>3, <2>4, <2>5, <2>6 DEF LinksInv
<1>4. CASE op.kind = "remove" /\ ~EnsureRemovable(op.seen) /\ Go("failed", 1)
<2>1. Go("failed", 1) /\ "failed" \in LinkPcs /\ 1 \in 0..(Len(Names) + 1)
  BY PcsAre, <1>4 DEF LinksInv, LinksTyped, LinksPlaced, OpType, LinksPreflight, Reported, EnsureInstallable, States
<2>2. OpIs("failed", op.kind, 1, op.seen, op.made, op.looked)
  BY <2>1, GoEffect
<2>3. LinksTyped'
  BY <2>2, <1>4, EntriesAre DEF LinksInv, LinksTyped, LinksPlaced, OpType, OpIs, LinksPreflight, Here, Kept
<2>4. LinksPlaced'
  BY <2>2, <1>4 DEF LinksInv, LinksTyped, LinksPlaced, OpType, OpIs, Active, LinksPreflight, Kept
<2>5. LinksMade'
  BY <2>2, <1>4 DEF LinksInv, LinksTyped, LinksPlaced, LinksMade, OpType, OpIs, TargetOf, LinksPreflight, Kept, Reported, EnsureInstallable, States
<2>6. LinksQuiet'
  BY <2>2, <1>4, EntriesAre DEF LinksInv, LinksTyped, LinksPlaced, LinksMade, LinksQuiet, Routed, Retryable, OpType, OpIs, LinksPreflight, Kept, Reported, EnsureInstallable, States
<2>7. QED
  BY <2>3, <2>4, <2>5, <2>6 DEF LinksInv
<1>5. QED
  BY <1>1, <1>2, <1>3, <1>4 DEF LinksPreflight

LEMMA LinksReturnKeeps == LinksInv /\ LinksReturn => LinksInv'
<1> SUFFICES ASSUME LinksInv, LinksReturn PROVE LinksInv'
  OBVIOUS
<1> USE NamesFacts
<1>1. Go("done", op.at) /\ "done" \in LinkPcs /\ op.at \in 0..(Len(Names) + 1)
  BY PcsAre DEF LinksInv, LinksTyped, LinksPlaced, OpType, LinksReturn, Reported
<1>2. OpIs("done", op.kind, op.at, op.seen, op.made, op.looked)
  BY <1>1, GoEffect
<1>3. LinksTyped'
  BY <1>2, EntriesAre DEF LinksInv, LinksTyped, LinksPlaced, OpType, OpIs, LinksReturn, Here, Kept
<1>4. LinksPlaced'
  BY <1>2 DEF LinksInv, LinksTyped, LinksPlaced, OpType, OpIs, Active, LinksReturn, Kept
<1>5. LinksMade'
  BY <1>2 DEF LinksInv, LinksTyped, LinksPlaced, LinksMade, OpType, OpIs, TargetOf, LinksReturn, Kept, Reported
<1>6. LinksQuiet'
  BY <1>2, EntriesAre DEF LinksInv, LinksTyped, LinksPlaced, LinksMade, LinksQuiet, Routed, Retryable, OpType, OpIs, LinksReturn, Kept, Reported
<1>7. QED
  BY <1>3, <1>4, <1>5, <1>6 DEF LinksInv

LEMMA PassOverKeeps == LinksInv /\ PassOver => LinksInv'
<1> SUFFICES ASSUME LinksInv, PassOver PROVE LinksInv'
  OBVIOUS
<1> USE NamesFacts
<1>1. CASE op.pc = "create" /\ op.at <= Len(Names) /\ op.seen[Here] # "absent" /\ Go("create", op.at + 1)
<2>1. Go("create", op.at + 1) /\ "create" \in LinkPcs /\ op.at + 1 \in 0..(Len(Names) + 1)
  BY PcsAre, <1>1 DEF LinksInv, LinksTyped, LinksPlaced, OpType, PassOver, Here
<2>2. OpIs("create", op.kind, op.at + 1, op.seen, op.made, op.looked)
  BY <2>1, GoEffect
<2>3. LinksTyped'
  BY <2>2, <1>1, EntriesAre DEF LinksInv, LinksTyped, LinksPlaced, OpType, OpIs, PassOver, Here, Kept
<2>4. LinksPlaced'
  BY <2>2, <1>1 DEF LinksInv, LinksTyped, LinksPlaced, OpType, OpIs, Active, PassOver, Kept
<2>5. LinksMade'
  BY <2>2, <1>1 DEF LinksInv, LinksTyped, LinksPlaced, LinksMade, OpType, OpIs, TargetOf, PassOver, Kept, Here
<2>6. LinksQuiet'
  BY <2>2, <1>1, EntriesAre DEF LinksInv, LinksTyped, LinksPlaced, LinksMade, LinksQuiet, Routed, Retryable, OpType, OpIs, PassOver, Kept, Here
<2>7. QED
  BY <2>3, <2>4, <2>5, <2>6 DEF LinksInv
<1>2. CASE op.pc = "rollback" /\ op.at > 0 /\ op.seen[Here] # "absent" /\ Go("rollback", op.at - 1)
<2>1. Go("rollback", op.at - 1) /\ "rollback" \in LinkPcs /\ op.at - 1 \in 0..(Len(Names) + 1)
  BY PcsAre, <1>2 DEF LinksInv, LinksTyped, LinksPlaced, OpType, PassOver, Here
<2>2. OpIs("rollback", op.kind, op.at - 1, op.seen, op.made, op.looked)
  BY <2>1, GoEffect
<2>3. LinksTyped'
  BY <2>2, <1>2, EntriesAre DEF LinksInv, LinksTyped, LinksPlaced, OpType, OpIs, PassOver, Here, Kept
<2>4. LinksPlaced'
  BY <2>2, <1>2 DEF LinksInv, LinksTyped, LinksPlaced, OpType, OpIs, Active, PassOver, Kept
<2>5. LinksMade'
  BY <2>2, <1>2 DEF LinksInv, LinksTyped, LinksPlaced, LinksMade, OpType, OpIs, TargetOf, PassOver, Kept, Here
<2>6. LinksQuiet'
  BY <2>2, <1>2, EntriesAre DEF LinksInv, LinksTyped, LinksPlaced, LinksMade, LinksQuiet, Routed, Retryable, OpType, OpIs, PassOver, Kept, Here
<2>7. QED
  BY <2>3, <2>4, <2>5, <2>6 DEF LinksInv
<1>3. CASE op.pc = "remove" /\ op.at <= Len(Names) /\ op.seen[Here] = "absent" /\ Go("remove", op.at + 1)
<2>1. Go("remove", op.at + 1) /\ "remove" \in LinkPcs /\ op.at + 1 \in 0..(Len(Names) + 1)
  BY PcsAre, <1>3 DEF LinksInv, LinksTyped, LinksPlaced, OpType, PassOver, Here
<2>2. OpIs("remove", op.kind, op.at + 1, op.seen, op.made, op.looked)
  BY <2>1, GoEffect
<2>3. LinksTyped'
  BY <2>2, <1>3, EntriesAre DEF LinksInv, LinksTyped, LinksPlaced, OpType, OpIs, PassOver, Here, Kept
<2>4. LinksPlaced'
  BY <2>2, <1>3 DEF LinksInv, LinksTyped, LinksPlaced, OpType, OpIs, Active, PassOver, Kept
<2>5. LinksMade'
  BY <2>2, <1>3 DEF LinksInv, LinksTyped, LinksPlaced, LinksMade, OpType, OpIs, TargetOf, PassOver, Kept, Here
<2>6. LinksQuiet'
  BY <2>2, <1>3, EntriesAre DEF LinksInv, LinksTyped, LinksPlaced, LinksMade, LinksQuiet, Routed, Retryable, OpType, OpIs, PassOver, Kept, Here
<2>7. QED
  BY <2>3, <2>4, <2>5, <2>6 DEF LinksInv
<1>4. QED
  BY <1>1, <1>2, <1>3 DEF PassOver

LEMMA CreateLinkFailsKeeps == LinksInv /\ CreateLinkFails => LinksInv'
<1> SUFFICES ASSUME LinksInv, CreateLinkFails PROVE LinksInv'
  OBVIOUS
<1> USE NamesFacts
<1>1. Go("rollback", op.at - 1) /\ "rollback" \in LinkPcs /\ op.at - 1 \in 0..(Len(Names) + 1)
  BY PcsAre DEF LinksInv, LinksTyped, LinksPlaced, OpType, CreateLinkFails, Here
<1>2. OpIs("rollback", op.kind, op.at - 1, op.seen, op.made, op.looked)
  BY <1>1, GoEffect
<1>3. LinksTyped'
  BY <1>2, EntriesAre DEF LinksInv, LinksTyped, LinksPlaced, OpType, OpIs, CreateLinkFails, Here, Kept
<1>4. LinksPlaced'
  BY <1>2 DEF LinksInv, LinksTyped, LinksPlaced, OpType, OpIs, Active, CreateLinkFails, Kept
<1>5. LinksMade'
  BY <1>2 DEF LinksInv, LinksTyped, LinksPlaced, LinksMade, OpType, OpIs, TargetOf, CreateLinkFails, Kept, Here
<1>6. LinksQuiet'
  BY <1>2, EntriesAre DEF LinksInv, LinksTyped, LinksPlaced, LinksMade, LinksQuiet, Routed, Retryable, OpType, OpIs, CreateLinkFails, Kept, Here
<1>7. QED
  BY <1>3, <1>4, <1>5, <1>6 DEF LinksInv

LEMMA VerifyLinkKeeps == LinksInv /\ VerifyLink => LinksInv'
<1> SUFFICES ASSUME LinksInv, VerifyLink PROVE LinksInv'
  OBVIOUS
<1> USE NamesFacts
<1>1. CASE entry[Here] = TargetOf(Here) /\ Go("create", op.at + 1)
<2>1. Go("create", op.at + 1) /\ "create" \in LinkPcs /\ op.at + 1 \in 0..(Len(Names) + 1)
  BY PcsAre, <1>1 DEF LinksInv, LinksTyped, LinksPlaced, OpType, VerifyLink, Here
<2>2. OpIs("create", op.kind, op.at + 1, op.seen, op.made, op.looked)
  BY <2>1, GoEffect
<2>3. LinksTyped'
  BY <2>2, <1>1, EntriesAre DEF LinksInv, LinksTyped, LinksPlaced, OpType, OpIs, VerifyLink, Here, Kept
<2>4. LinksPlaced'
  BY <2>2, <1>1 DEF LinksInv, LinksTyped, LinksPlaced, OpType, OpIs, Active, VerifyLink, Kept
<2>5. LinksMade'
  BY <2>2, <1>1 DEF LinksInv, LinksTyped, LinksPlaced, LinksMade, OpType, OpIs, TargetOf, VerifyLink, Kept, Here
<2>6. LinksQuiet'
  BY <2>2, <1>1, EntriesAre DEF LinksInv, LinksTyped, LinksPlaced, LinksMade, LinksQuiet, Routed, Retryable, OpType, OpIs, VerifyLink, Kept, Here
<2>7. QED
  BY <2>3, <2>4, <2>5, <2>6 DEF LinksInv
<1>2. CASE entry[Here] # TargetOf(Here) /\ Go("rollback", op.at - 1)
<2>1. Go("rollback", op.at - 1) /\ "rollback" \in LinkPcs /\ op.at - 1 \in 0..(Len(Names) + 1)
  BY PcsAre, <1>2 DEF LinksInv, LinksTyped, LinksPlaced, OpType, VerifyLink, Here
<2>2. OpIs("rollback", op.kind, op.at - 1, op.seen, op.made, op.looked)
  BY <2>1, GoEffect
<2>3. LinksTyped'
  BY <2>2, <1>2, EntriesAre DEF LinksInv, LinksTyped, LinksPlaced, OpType, OpIs, VerifyLink, Here, Kept
<2>4. LinksPlaced'
  BY <2>2, <1>2 DEF LinksInv, LinksTyped, LinksPlaced, OpType, OpIs, Active, VerifyLink, Kept
<2>5. LinksMade'
  BY <2>2, <1>2 DEF LinksInv, LinksTyped, LinksPlaced, LinksMade, OpType, OpIs, TargetOf, VerifyLink, Kept, Here
<2>6. LinksQuiet'
  BY <2>2, <1>2, EntriesAre DEF LinksInv, LinksTyped, LinksPlaced, LinksMade, LinksQuiet, Routed, Retryable, OpType, OpIs, VerifyLink, Kept, Here
<2>7. QED
  BY <2>3, <2>4, <2>5, <2>6 DEF LinksInv
<1>3. QED
  BY <1>1, <1>2 DEF VerifyLink

LEMMA CreateEndsKeeps == LinksInv /\ CreateEnds => LinksInv'
<1> SUFFICES ASSUME LinksInv, CreateEnds PROVE LinksInv'
  OBVIOUS
<1> USE NamesFacts
<1>1. Go("sync", op.at) /\ "sync" \in LinkPcs /\ op.at \in 0..(Len(Names) + 1)
  BY PcsAre DEF LinksInv, LinksTyped, LinksPlaced, OpType, CreateEnds
<1>2. OpIs("sync", op.kind, op.at, op.seen, op.made, op.looked)
  BY <1>1, GoEffect
<1>3. LinksTyped'
  BY <1>2, EntriesAre DEF LinksInv, LinksTyped, LinksPlaced, OpType, OpIs, CreateEnds, Here, Kept
<1>4. LinksPlaced'
  BY <1>2 DEF LinksInv, LinksTyped, LinksPlaced, OpType, OpIs, Active, CreateEnds, Kept
<1>5. LinksMade'
  BY <1>2 DEF LinksInv, LinksTyped, LinksPlaced, LinksMade, OpType, OpIs, TargetOf, CreateEnds, Kept
<1>6. LinksQuiet'
  BY <1>2, EntriesAre DEF LinksInv, LinksTyped, LinksPlaced, LinksMade, LinksQuiet, Routed, Retryable, OpType, OpIs, CreateEnds, Kept
<1>7. QED
  BY <1>3, <1>4, <1>5, <1>6 DEF LinksInv

LEMMA SyncFailsKeeps == LinksInv /\ SyncFails => LinksInv'
<1> SUFFICES ASSUME LinksInv, SyncFails PROVE LinksInv'
  OBVIOUS
<1> USE NamesFacts
<1>1. Go("failed", op.at) /\ "failed" \in LinkPcs /\ op.at \in 0..(Len(Names) + 1)
  BY PcsAre DEF LinksInv, LinksTyped, LinksPlaced, OpType, SyncFails
<1>2. OpIs("failed", op.kind, op.at, op.seen, op.made, op.looked)
  BY <1>1, GoEffect
<1>3. LinksTyped'
  BY <1>2, EntriesAre DEF LinksInv, LinksTyped, LinksPlaced, OpType, OpIs, SyncFails, Here, Kept
<1>4. LinksPlaced'
  BY <1>2 DEF LinksInv, LinksTyped, LinksPlaced, OpType, OpIs, Active, SyncFails, Kept
<1>5. LinksMade'
  BY <1>2 DEF LinksInv, LinksTyped, LinksPlaced, LinksMade, OpType, OpIs, TargetOf, SyncFails, Kept
<1>6. LinksQuiet'
  BY <1>2, EntriesAre DEF LinksInv, LinksTyped, LinksPlaced, LinksMade, LinksQuiet, Routed, Retryable, OpType, OpIs, SyncFails, Kept
<1>7. QED
  BY <1>3, <1>4, <1>5, <1>6 DEF LinksInv

LEMMA RollbackEndsKeeps == LinksInv /\ RollbackEnds => LinksInv'
<1> SUFFICES ASSUME LinksInv, RollbackEnds PROVE LinksInv'
  OBVIOUS
<1> USE NamesFacts
<1>1. Go("undone", 1) /\ "undone" \in LinkPcs /\ 1 \in 0..(Len(Names) + 1)
  BY PcsAre DEF LinksInv, LinksTyped, LinksPlaced, OpType, RollbackEnds
<1>2. OpIs("undone", op.kind, 1, op.seen, op.made, op.looked)
  BY <1>1, GoEffect
<1>3. LinksTyped'
  BY <1>2, EntriesAre DEF LinksInv, LinksTyped, LinksPlaced, OpType, OpIs, RollbackEnds, Here, Kept
<1>4. LinksPlaced'
  BY <1>2 DEF LinksInv, LinksTyped, LinksPlaced, OpType, OpIs, Active, RollbackEnds, Kept
<1>5. LinksMade'
  BY <1>2 DEF LinksInv, LinksTyped, LinksPlaced, LinksMade, OpType, OpIs, TargetOf, RollbackEnds, Kept
<1>6. LinksQuiet'
  BY <1>2, EntriesAre DEF LinksInv, LinksTyped, LinksPlaced, LinksMade, LinksQuiet, Routed, Retryable, OpType, OpIs, RollbackEnds, Kept
<1>7. QED
  BY <1>3, <1>4, <1>5, <1>6 DEF LinksInv

LEMMA RemoveEndsKeeps == LinksInv /\ RemoveEnds => LinksInv'
<1> SUFFICES ASSUME LinksInv, RemoveEnds PROVE LinksInv'
  OBVIOUS
<1> USE NamesFacts
<1>1. Go("sync", op.at) /\ "sync" \in LinkPcs /\ op.at \in 0..(Len(Names) + 1)
  BY PcsAre DEF LinksInv, LinksTyped, LinksPlaced, OpType, RemoveEnds
<1>2. OpIs("sync", op.kind, op.at, op.seen, op.made, op.looked)
  BY <1>1, GoEffect
<1>3. LinksTyped'
  BY <1>2, EntriesAre DEF LinksInv, LinksTyped, LinksPlaced, OpType, OpIs, RemoveEnds, Here, Kept
<1>4. LinksPlaced'
  BY <1>2 DEF LinksInv, LinksTyped, LinksPlaced, OpType, OpIs, Active, RemoveEnds, Kept
<1>5. LinksMade'
  BY <1>2 DEF LinksInv, LinksTyped, LinksPlaced, LinksMade, OpType, OpIs, TargetOf, RemoveEnds, Kept
<1>6. LinksQuiet'
  BY <1>2, EntriesAre DEF LinksInv, LinksTyped, LinksPlaced, LinksMade, LinksQuiet, Routed, Retryable, OpType, OpIs, RemoveEnds, Kept
<1>7. QED
  BY <1>3, <1>4, <1>5, <1>6 DEF LinksInv

LEMMA LinksInspectAgainKeeps == LinksInv /\ LinksInspectAgain => LinksInv'
<1> SUFFICES ASSUME LinksInv, LinksInspectAgain PROVE LinksInv'
  OBVIOUS
<1> USE NamesFacts
<1>1. CASE directorySafe
<2>1. /\ op' = [op EXCEPT !.pc = "report", !.at = 1, !.seen = Unseen]
      /\ "report" \in LinkPcs /\ 1 \in 0..(Len(Names) + 1)
      /\ op.made \in SUBSET ToSet(Names) /\ op.looked \in SUBSET ToSet(Names)
  BY PcsAre, <1>1 DEF LinksInv, LinksTyped, LinksPlaced, OpType, LinksInspectAgain, Unseen
<2>2. OpIs("report", op.kind, 1, Unseen, op.made, op.looked)
  BY <2>1, OpEffect, UnseenTyped
<2>3. LinksTyped'
  BY <2>2, <1>1, EntriesAre DEF LinksInv, LinksTyped, LinksPlaced, OpType, OpIs, LinksInspectAgain, Here, Kept
<2>4. LinksPlaced'
  BY <2>2, <1>1 DEF LinksInv, LinksTyped, LinksPlaced, OpType, OpIs, Active, LinksInspectAgain, Kept
<2>5. LinksMade'
  BY <2>2, <1>1 DEF LinksInv, LinksTyped, LinksPlaced, LinksMade, OpType, OpIs, TargetOf, LinksInspectAgain, Kept, Unseen
<2>6. LinksQuiet'
  BY <2>2, <1>1, EntriesAre DEF LinksInv, LinksTyped, LinksPlaced, LinksMade, LinksQuiet, Routed, Retryable, OpType, OpIs, LinksInspectAgain, Kept, Unseen
<2>7. QED
  BY <2>3, <2>4, <2>5, <2>6 DEF LinksInv
<1>2. CASE ~directorySafe
<2>1. /\ op' = [op EXCEPT !.pc = "failed", !.at = 1, !.seen = Unseen]
      /\ "failed" \in LinkPcs /\ 1 \in 0..(Len(Names) + 1)
      /\ op.made \in SUBSET ToSet(Names) /\ op.looked \in SUBSET ToSet(Names)
  BY PcsAre, <1>2 DEF LinksInv, LinksTyped, LinksPlaced, OpType, LinksInspectAgain, Unseen
<2>2. OpIs("failed", op.kind, 1, Unseen, op.made, op.looked)
  BY <2>1, OpEffect, UnseenTyped
<2>3. LinksTyped'
  BY <2>2, <1>2, EntriesAre DEF LinksInv, LinksTyped, LinksPlaced, OpType, OpIs, LinksInspectAgain, Here, Kept
<2>4. LinksPlaced'
  BY <2>2, <1>2 DEF LinksInv, LinksTyped, LinksPlaced, OpType, OpIs, Active, LinksInspectAgain, Kept
<2>5. LinksMade'
  BY <2>2, <1>2 DEF LinksInv, LinksTyped, LinksPlaced, LinksMade, OpType, OpIs, TargetOf, LinksInspectAgain, Kept, Unseen
<2>6. LinksQuiet'
  BY <2>2, <1>2, EntriesAre DEF LinksInv, LinksTyped, LinksPlaced, LinksMade, LinksQuiet, Routed, Retryable, OpType, OpIs, LinksInspectAgain, Kept, Unseen
<2>7. QED
  BY <2>3, <2>4, <2>5, <2>6 DEF LinksInv
<1>3. QED
  BY <1>1, <1>2 DEF LinksInspectAgain

LEMMA LinksCrashKeeps == LinksInv /\ LinksCrash => LinksInv'
<1> SUFFICES ASSUME LinksInv, LinksCrash PROVE LinksInv'
  OBVIOUS
<1> USE NamesFacts
<1>1. "idle" \in LinkPcs
  BY PcsAre
<1>2. OpIs("idle", "none", 1, Unseen, {}, {})
  BY <1>1 DEF LinksInv, LinksTyped, LinksPlaced, OpType, OpIs, LinksCrash, Unseen, NoCommand
<1>3. LinksTyped'
  BY <1>2, EntriesAre DEF LinksInv, LinksTyped, LinksPlaced, OpType, OpIs, LinksCrash, Here, Kept
<1>4. LinksPlaced'
  BY <1>2 DEF LinksInv, LinksTyped, LinksPlaced, OpType, OpIs, Active, LinksCrash, Kept
<1>5. LinksMade'
  BY <1>2 DEF LinksInv, LinksTyped, LinksPlaced, LinksMade, OpType, OpIs, TargetOf, LinksCrash, Kept, Unseen
<1>6. LinksQuiet'
  BY <1>2, EntriesAre DEF LinksInv, LinksTyped, LinksPlaced, LinksMade, LinksQuiet, Routed, Retryable, OpType, OpIs, LinksCrash, Kept, Unseen
<1>7. QED
  BY <1>3, <1>4, <1>5, <1>6 DEF LinksInv

LEMMA RollbackLookKeeps == LinksInv /\ RollbackLook => LinksInv'
<1> SUFFICES ASSUME LinksInv, RollbackLook PROVE LinksInv'
  OBVIOUS
<1> USE NamesFacts
<1>1. CASE MatchingLink(Here) /\ op' = [op EXCEPT !.pc = "undo", !.looked = {Here}]
<2>1. /\ op' = [op EXCEPT !.pc = "undo", !.looked = {Here}]
      /\ "undo" \in LinkPcs /\ op.at \in 0..(Len(Names) + 1)
      /\ op.made \in SUBSET ToSet(Names) /\ {Here} \in SUBSET ToSet(Names)
  BY PcsAre, <1>1 DEF LinksInv, LinksTyped, LinksPlaced, OpType, RollbackLook, Here, MatchingLink
<2>2. OpIs("undo", op.kind, op.at, op.seen, op.made, {Here})
  BY <2>1, OpEffect, UnseenTyped
<2>3. LinksTyped'
  BY <2>2, <1>1, EntriesAre DEF LinksInv, LinksTyped, LinksPlaced, OpType, OpIs, RollbackLook, Here, Kept
<2>4. LinksPlaced'
  BY <2>2, <1>1 DEF LinksInv, LinksTyped, LinksPlaced, OpType, OpIs, Active, RollbackLook, Kept
<2>5. LinksMade'
  BY <2>2, <1>1 DEF LinksInv, LinksTyped, LinksPlaced, LinksMade, OpType, OpIs, TargetOf, RollbackLook, Kept, Here, MatchingLink
<2>6. LinksQuiet'
  BY <2>2, <1>1, EntriesAre DEF LinksInv, LinksTyped, LinksPlaced, LinksMade, LinksQuiet, Routed, Retryable, OpType, OpIs, RollbackLook, Kept, Here, MatchingLink
<2>7. QED
  BY <2>3, <2>4, <2>5, <2>6 DEF LinksInv
<1>2. CASE entry[Here] = TargetOf(Here) /\ Here \notin op.made /\ op' = [op EXCEPT !.pc = "undo", !.looked = {}]
<2>1. /\ op' = [op EXCEPT !.pc = "undo", !.looked = {}]
      /\ "undo" \in LinkPcs /\ op.at \in 0..(Len(Names) + 1)
      /\ op.made \in SUBSET ToSet(Names) /\ {} \in SUBSET ToSet(Names)
  BY PcsAre, <1>2 DEF LinksInv, LinksTyped, LinksPlaced, OpType, RollbackLook, Here, MatchingLink
<2>2. OpIs("undo", op.kind, op.at, op.seen, op.made, {})
  BY <2>1, OpEffect, UnseenTyped
<2>3. LinksTyped'
  BY <2>2, <1>2, EntriesAre DEF LinksInv, LinksTyped, LinksPlaced, OpType, OpIs, RollbackLook, Here, Kept
<2>4. LinksPlaced'
  BY <2>2, <1>2 DEF LinksInv, LinksTyped, LinksPlaced, OpType, OpIs, Active, RollbackLook, Kept
<2>5. LinksMade'
  BY <2>2, <1>2 DEF LinksInv, LinksTyped, LinksPlaced, LinksMade, OpType, OpIs, TargetOf, RollbackLook, Kept, Here, MatchingLink
<2>6. LinksQuiet'
  BY <2>2, <1>2, EntriesAre DEF LinksInv, LinksTyped, LinksPlaced, LinksMade, LinksQuiet, Routed, Retryable, OpType, OpIs, RollbackLook, Kept, Here, MatchingLink
<2>7. QED
  BY <2>3, <2>4, <2>5, <2>6 DEF LinksInv
<1>3. CASE ~MatchingLink(Here) /\ Go("rollback", op.at - 1)
<2>1. Go("rollback", op.at - 1) /\ "rollback" \in LinkPcs /\ op.at - 1 \in 0..(Len(Names) + 1)
  BY PcsAre, <1>3 DEF LinksInv, LinksTyped, LinksPlaced, OpType, RollbackLook, Here, MatchingLink
<2>2. OpIs("rollback", op.kind, op.at - 1, op.seen, op.made, op.looked)
  BY <2>1, GoEffect
<2>3. LinksTyped'
  BY <2>2, <1>3, EntriesAre DEF LinksInv, LinksTyped, LinksPlaced, OpType, OpIs, RollbackLook, Here, Kept
<2>4. LinksPlaced'
  BY <2>2, <1>3 DEF LinksInv, LinksTyped, LinksPlaced, OpType, OpIs, Active, RollbackLook, Kept
<2>5. LinksMade'
  BY <2>2, <1>3 DEF LinksInv, LinksTyped, LinksPlaced, LinksMade, OpType, OpIs, TargetOf, RollbackLook, Kept, Here, MatchingLink
<2>6. LinksQuiet'
  BY <2>2, <1>3, EntriesAre DEF LinksInv, LinksTyped, LinksPlaced, LinksMade, LinksQuiet, Routed, Retryable, OpType, OpIs, RollbackLook, Kept, Here, MatchingLink
<2>7. QED
  BY <2>3, <2>4, <2>5, <2>6 DEF LinksInv
<1>4. QED
  BY <1>1, <1>2, <1>3 DEF RollbackLook

LEMMA RemoveLookKeeps == LinksInv /\ RemoveLook => LinksInv'
<1> SUFFICES ASSUME LinksInv, RemoveLook PROVE LinksInv'
  OBVIOUS
<1> USE NamesFacts
<1>1. CASE RemoveToolLook(Here) /\ op' = [op EXCEPT !.pc = "unlink", !.looked = {Here}]
<2>1. /\ op' = [op EXCEPT !.pc = "unlink", !.looked = {Here}]
      /\ "unlink" \in LinkPcs /\ op.at \in 0..(Len(Names) + 1)
      /\ op.made \in SUBSET ToSet(Names) /\ {Here} \in SUBSET ToSet(Names)
  BY PcsAre, <1>1 DEF LinksInv, LinksTyped, LinksPlaced, OpType, RemoveLook, Here, RemoveToolLook
<2>2. OpIs("unlink", op.kind, op.at, op.seen, op.made, {Here})
  BY <2>1, OpEffect, UnseenTyped
<2>3. LinksTyped'
  BY <2>2, <1>1, EntriesAre DEF LinksInv, LinksTyped, LinksPlaced, OpType, OpIs, RemoveLook, Here, Kept
<2>4. LinksPlaced'
  BY <2>2, <1>1 DEF LinksInv, LinksTyped, LinksPlaced, OpType, OpIs, Active, RemoveLook, Kept
<2>5. LinksMade'
  BY <2>2, <1>1 DEF LinksInv, LinksTyped, LinksPlaced, LinksMade, OpType, OpIs, TargetOf, RemoveLook, Kept, Here, RemoveToolLook
<2>6. LinksQuiet'
  BY <2>2, <1>1, EntriesAre DEF LinksInv, LinksTyped, LinksPlaced, LinksMade, LinksQuiet, Routed, Retryable, OpType, OpIs, RemoveLook, Kept, Here, RemoveToolLook
<2>7. QED
  BY <2>3, <2>4, <2>5, <2>6 DEF LinksInv
<1>2. CASE ~RemoveToolLook(Here) /\ Go("failed", op.at)
<2>1. Go("failed", op.at) /\ "failed" \in LinkPcs /\ op.at \in 0..(Len(Names) + 1)
  BY PcsAre, <1>2 DEF LinksInv, LinksTyped, LinksPlaced, OpType, RemoveLook, Here, RemoveToolLook
<2>2. OpIs("failed", op.kind, op.at, op.seen, op.made, op.looked)
  BY <2>1, GoEffect
<2>3. LinksTyped'
  BY <2>2, <1>2, EntriesAre DEF LinksInv, LinksTyped, LinksPlaced, OpType, OpIs, RemoveLook, Here, Kept
<2>4. LinksPlaced'
  BY <2>2, <1>2 DEF LinksInv, LinksTyped, LinksPlaced, OpType, OpIs, Active, RemoveLook, Kept
<2>5. LinksMade'
  BY <2>2, <1>2 DEF LinksInv, LinksTyped, LinksPlaced, LinksMade, OpType, OpIs, TargetOf, RemoveLook, Kept, Here, RemoveToolLook
<2>6. LinksQuiet'
  BY <2>2, <1>2, EntriesAre DEF LinksInv, LinksTyped, LinksPlaced, LinksMade, LinksQuiet, Routed, Retryable, OpType, OpIs, RemoveLook, Kept, Here, RemoveToolLook
<2>7. QED
  BY <2>3, <2>4, <2>5, <2>6 DEF LinksInv
<1>3. QED
  BY <1>1, <1>2 DEF RemoveLook

LEMMA RemoveUnlinkKeeps == LinksInv /\ RemoveUnlink => LinksInv'
<1> SUFFICES ASSUME LinksInv, RemoveUnlink PROVE LinksInv'
  OBVIOUS
<1> USE NamesFacts
<1>1. CASE entry[Here] = "absent" /\ Go("failed", op.at)
<2>1. Go("failed", op.at) /\ "failed" \in LinkPcs /\ op.at \in 0..(Len(Names) + 1)
  BY PcsAre, <1>1 DEF LinksInv, LinksTyped, LinksPlaced, OpType, RemoveUnlink, Here
<2>2. OpIs("failed", op.kind, op.at, op.seen, op.made, op.looked)
  BY <2>1, GoEffect
<2>3. LinksTyped'
  BY <2>2, <1>1, EntriesAre DEF LinksInv, LinksTyped, LinksPlaced, OpType, OpIs, RemoveUnlink, Here, Kept
<2>4. LinksPlaced'
  BY <2>2, <1>1 DEF LinksInv, LinksTyped, LinksPlaced, OpType, OpIs, Active, RemoveUnlink, Kept
<2>5. LinksMade'
  BY <2>2, <1>1 DEF LinksInv, LinksTyped, LinksPlaced, LinksMade, OpType, OpIs, TargetOf, RemoveUnlink, Kept, Here
<2>6. LinksQuiet'
  BY <2>2, <1>1, EntriesAre DEF LinksInv, LinksTyped, LinksPlaced, LinksMade, LinksQuiet, Routed, Retryable, OpType, OpIs, RemoveUnlink, Kept, Here
<2>7. QED
  BY <2>3, <2>4, <2>5, <2>6 DEF LinksInv
<1>2. CASE entry[Here] # "absent" /\ Go("remove", op.at + 1)
<2>1. Go("remove", op.at + 1) /\ "remove" \in LinkPcs /\ op.at + 1 \in 0..(Len(Names) + 1)
  BY PcsAre, <1>2 DEF LinksInv, LinksTyped, LinksPlaced, OpType, RemoveUnlink, Here
<2>2. OpIs("remove", op.kind, op.at + 1, op.seen, op.made, op.looked)
  BY <2>1, GoEffect
<2>3. LinksTyped'
  BY <2>2, <1>2, EntriesAre DEF LinksInv, LinksTyped, LinksPlaced, OpType, OpIs, RemoveUnlink, Here, Kept
<2>4. LinksPlaced'
  BY <2>2, <1>2 DEF LinksInv, LinksTyped, LinksPlaced, OpType, OpIs, Active, RemoveUnlink, Kept
<2>5. LinksMade'
  BY <2>2, <1>2 DEF LinksInv, LinksTyped, LinksPlaced, LinksMade, OpType, OpIs, TargetOf, RemoveUnlink, Kept, Here
<2>6. LinksQuiet'
  BY <2>2, <1>2, EntriesAre DEF LinksInv, LinksTyped, LinksPlaced, LinksMade, LinksQuiet, Routed, Retryable, OpType, OpIs, RemoveUnlink, Kept, Here
<2>7. QED
  BY <2>3, <2>4, <2>5, <2>6 DEF LinksInv
<1>3. QED
  BY <1>1, <1>2 DEF RemoveUnlink

LEMMA RollbackUnlinkKeeps == LinksInv /\ RollbackUnlink => LinksInv'
<1> SUFFICES ASSUME LinksInv, RollbackUnlink PROVE LinksInv'
  OBVIOUS
<1> USE NamesFacts
<1>1. /\ op' = [op EXCEPT !.pc = "rollback", !.at = op.at - 1, !.made = op.made \ {Here}]
      /\ "rollback" \in LinkPcs /\ op.at - 1 \in 0..(Len(Names) + 1)
      /\ op.made \ {Here} \in SUBSET ToSet(Names) /\ op.looked \in SUBSET ToSet(Names)
  BY PcsAre DEF LinksInv, LinksTyped, LinksPlaced, OpType, RollbackUnlink, Here
<1>2. OpIs("rollback", op.kind, op.at - 1, op.seen, op.made \ {Here}, op.looked)
  BY <1>1, OpEffect, UnseenTyped
<1>3. LinksTyped'
  BY <1>2, EntriesAre DEF LinksInv, LinksTyped, LinksPlaced, OpType, OpIs, RollbackUnlink, Here, Kept
<1>4. LinksPlaced'
  BY <1>2 DEF LinksInv, LinksTyped, LinksPlaced, OpType, OpIs, Active, RollbackUnlink, Kept
<1>5. LinksMade'
  BY <1>2 DEF LinksInv, LinksTyped, LinksPlaced, LinksMade, OpType, OpIs, TargetOf, RollbackUnlink, Kept, Here
<1>6. LinksQuiet'
  BY <1>2, EntriesAre DEF LinksInv, LinksTyped, LinksPlaced, LinksMade, LinksQuiet, Routed, Retryable, OpType, OpIs, RollbackUnlink, Kept, Here
<1>7. QED
  BY <1>3, <1>4, <1>5, <1>6 DEF LinksInv

LEMMA CreateLinkKeeps == LinksInv /\ CreateLink => LinksInv'
<1> SUFFICES ASSUME LinksInv, CreateLink PROVE LinksInv'
  OBVIOUS
<1> USE NamesFacts
<1>1. CASE /\ entry[Here] = "absent"
            /\ entry' = [entry EXCEPT ![Here] = TargetOf(Here)]
            /\ op' = [op EXCEPT !.pc = "verify", !.made = @ \cup {Here}]
<2>1. /\ op' = [op EXCEPT !.pc = "verify", !.made = op.made \cup {Here}]
      /\ "verify" \in LinkPcs /\ op.at \in 0..(Len(Names) + 1)
      /\ op.made \cup {Here} \in SUBSET ToSet(Names) /\ op.looked \in SUBSET ToSet(Names)
  BY PcsAre, <1>1 DEF LinksInv, LinksTyped, LinksPlaced, OpType, CreateLink, Here
<2>2. OpIs("verify", op.kind, op.at, op.seen, op.made \cup {Here}, op.looked)
  BY <2>1, OpEffect, UnseenTyped
<2>3. LinksTyped'
  BY <2>2, <1>1, EntriesAre DEF LinksInv, LinksTyped, LinksPlaced, OpType, OpIs, CreateLink, Here, Kept
<2>4. LinksPlaced'
  BY <2>2, <1>1 DEF LinksInv, LinksTyped, LinksPlaced, OpType, OpIs, Active, CreateLink, Kept
<2>5. LinksMade'
  BY <2>2, <1>1 DEF LinksInv, LinksTyped, LinksPlaced, LinksMade, OpType, OpIs, TargetOf, CreateLink, Kept, Here
<2>6. LinksQuiet'
  <3> SUFFICES ASSUME disturbed = 0 PROVE LinksQuiet'
    BY DEF LinksQuiet, CreateLink, Kept
  <3>0. PICK here \in ToSet(Names) : here = Names[op.at] /\ here = Here
    BY DEF LinksInv, LinksTyped, LinksPlaced, OpType, CreateLink, Here
  <3>1. /\ op.at \in 1..Len(Names) /\ op.kind = "install" /\ Running \in usable
        /\ entry' = [entry EXCEPT ![here] = TargetOf(here)] /\ usable' = usable /\ disturbed' = disturbed
        /\ installable' = installable
    BY <1>1, <3>0 DEF LinksInv, LinksTyped, LinksPlaced, LinksQuiet, OpType, CreateLink, Kept
  <3>2. Routed(here)'
    BY <3>1 DEF LinksInv, LinksTyped, Routed, TargetOf
  <3>21. ASSUME NEW n \in ToSet(Names), n # here PROVE (Routed(n)' <=> Routed(n)) /\ entry'[n] = entry[n]
    BY <3>1, <3>21 DEF LinksInv, LinksTyped, Routed
  <3>3. ASSUME NEW i \in 1..Len(Names)
        PROVE  \/ Routed(Names[i])'
               \/ i >= op.at /\ op.seen[Names[i]] = "absent" /\ entry'[Names[i]] = "absent"
    BY <3>1, <3>2, <3>21, <1>1 DEF LinksInv, LinksQuiet, CreateLink
  <3>4. entry'[Launcher] # "absent"
    <4>1. CASE op.at = 1
      BY <4>1, <3>0, <3>1, EntriesAre DEF LinksInv, LinksTyped
    <4>2. CASE op.at # 1
      <5>1. here # Launcher
        BY <4>2, <3>0, <3>1
      <5>2. entry'[Launcher] = entry[Launcher]
        BY <5>1, <3>21
      <5>3. Routed(Names[1])
        BY <4>2, <3>1 DEF LinksInv, LinksQuiet, CreateLink
      <5>4. QED
        BY <5>2, <5>3, EntriesAre DEF LinksInv, LinksTyped, Routed
    <4>3. QED
      BY <4>1, <4>2
  <3>5. ASSUME installable, NEW n \in ToSet(Names) PROVE Retryable(n)'
    <4>1. Retryable(n)
      BY <3>5 DEF LinksInv, LinksQuiet
    <4>2. CASE n = here
      BY <4>2, <3>2 DEF Retryable
    <4>3. CASE n # here
      BY <4>1, <4>3, <3>21 DEF Retryable
    <4>4. QED
      BY <4>2, <4>3
  <3>6. QED
    BY <2>2, <3>0, <3>1, <3>2, <3>3, <3>4, <3>5 DEF LinksQuiet, OpIs
<2>7. QED
  BY <2>3, <2>4, <2>5, <2>6 DEF LinksInv
<1>2. CASE entry[Here] # "absent" /\ Go("rollback", op.at - 1) /\ UNCHANGED entry
<2>1. Go("rollback", op.at - 1) /\ "rollback" \in LinkPcs /\ op.at - 1 \in 0..(Len(Names) + 1)
  BY PcsAre, <1>2 DEF LinksInv, LinksTyped, LinksPlaced, OpType, CreateLink, Here
<2>2. OpIs("rollback", op.kind, op.at - 1, op.seen, op.made, op.looked)
  BY <2>1, GoEffect
<2>3. LinksTyped'
  BY <2>2, <1>2, EntriesAre DEF LinksInv, LinksTyped, LinksPlaced, OpType, OpIs, CreateLink, Here, Kept
<2>4. LinksPlaced'
  BY <2>2, <1>2 DEF LinksInv, LinksTyped, LinksPlaced, OpType, OpIs, Active, CreateLink, Kept
<2>5. LinksMade'
  BY <2>2, <1>2 DEF LinksInv, LinksTyped, LinksPlaced, LinksMade, OpType, OpIs, TargetOf, CreateLink, Kept, Here
<2>6. LinksQuiet'
  BY <2>2, <1>2, EntriesAre DEF LinksInv, LinksTyped, LinksPlaced, LinksMade, LinksQuiet, Routed, Retryable, OpType, OpIs, CreateLink, Kept, Here
<2>7. QED
  BY <2>3, <2>4, <2>5, <2>6 DEF LinksInv
<1>3. QED
  BY <1>1, <1>2 DEF CreateLink

LEMMA LinksLookKeeps == LinksInv /\ LinksLook => LinksInv'
<1> SUFFICES ASSUME LinksInv, LinksLook PROVE LinksInv'
  OBVIOUS
<1> USE NamesFacts
<1>1. op.at \in 1..Len(Names) /\ Here \in ToSet(Names)
  BY DEF LinksInv, LinksTyped, LinksPlaced, OpType, LinksLook, Here
<1>2. PICK state : state = StateOf(Here, op.seen)
  OBVIOUS
<1>3. /\ state \in States
      /\ state = "absent" => entry[Here] = "absent"
      /\ state = "managed" => Routed(Here)
      /\ state = "stale" /\ Here # Launcher => Routed(Here)
  BY <1>1, <1>2, EntriesAre
  DEF LinksInv, LinksTyped, Entries, States, StateOf, LauncherState, ToolState, Routed
<1>4. OpIs(op.pc, op.kind, op.at + 1, [op.seen EXCEPT ![Here] = state], op.made, op.looked)
  <2>1. /\ op' = [op EXCEPT !.seen = [op.seen EXCEPT ![Here] = state], !.at = op.at + 1]
        /\ [op.seen EXCEPT ![Here] = state] \in [ToSet(Names) -> States \cup {"unknown"}]
        /\ op.at + 1 \in 0..(Len(Names) + 1)
    BY <1>1, <1>2, <1>3 DEF LinksInv, LinksTyped, OpType, LinksLook
  <2>2. QED
    BY <2>1, OpEffect, PcsAre
<1>5. LinksTyped'
  BY <1>4 DEF LinksInv, LinksTyped, OpIs, LinksLook, Kept
<1>6. LinksPlaced'
  BY <1>4 DEF LinksInv, LinksTyped, LinksPlaced, OpType, OpIs, LinksLook, Active, Kept
<1>7. LinksMade'
  BY <1>4 DEF LinksInv, LinksTyped, LinksMade, OpType, OpIs, LinksLook, TargetOf, Kept
<1>8. LinksQuiet'
  BY <1>1, <1>3, <1>4
  DEF LinksInv, LinksTyped, LinksPlaced, LinksMade, LinksQuiet, Routed, Retryable, OpType, OpIs, LinksLook, Here, Kept
<1>9. QED
  BY <1>5, <1>6, <1>7, <1>8 DEF LinksInv

LEMMA LinksBeginKeeps ==
    ASSUME LinksInv, NEW kind \in {"install", "remove"}, LinksBegin(kind)
    PROVE  LinksInv'
<1> USE NamesFacts
<1>1. OpIs("validate", kind, 1, Unseen, {}, {})
  <2>1. op' = [pc |-> "validate", kind |-> kind, at |-> 1, seen |-> Unseen, made |-> {}, looked |-> {}]
    BY DEF LinksBegin, NoCommand
  <2>2. QED
    BY <2>1, PcsAre, UnseenTyped DEF OpType, OpIs
<1>2. LinksTyped'
  BY <1>1 DEF LinksInv, LinksTyped, OpIs, LinksBegin, Kept
<1>3. LinksPlaced'
  BY <1>1 DEF LinksInv, LinksPlaced, OpIs, LinksBegin, Active, Kept
<1>4. LinksMade'
  BY <1>1 DEF LinksMade, OpIs
<1>5. LinksQuiet'
  BY <1>1 DEF LinksInv, LinksQuiet, Routed, Retryable, OpIs, LinksBegin, Kept
<1>6. QED
  BY <1>2, <1>3, <1>4, <1>5 DEF LinksInv

LEMMA PutEntryKeeps ==
    ASSUME LinksInv, NEW name \in ToSet(Names), NEW value \in Entries, PutEntry(name, value)
    PROVE  LinksInv'
<1> USE NamesFacts
<1>1. OpIs(op.pc, op.kind, op.at, op.seen, op.made \ {name}, op.looked \ {name})
  <2>1. /\ op' = [op EXCEPT !.made = op.made \ {name}, !.looked = op.looked \ {name}]
        /\ op.made \ {name} \in SUBSET ToSet(Names) /\ op.looked \ {name} \in SUBSET ToSet(Names)
    BY DEF PutEntry, LinksInv, LinksTyped, OpType
  <2>2. QED
    <3>1. 1 \in 0..(Len(Names) + 1)
      OBVIOUS
    <3>2. QED
      BY <2>1, <3>1, OpEffect, PcsAre, UnseenTyped
<1>2. disturbed' = disturbed + 1 /\ disturbed' \in 0..MaxDisturbed /\ disturbed' # 0
  BY CommandLinksAssumption DEF PutEntry, Disturbing, LinksInv, LinksTyped
<1>3. LinksTyped'
  BY <1>1, <1>2 DEF LinksInv, LinksTyped, OpIs, PutEntry
<1>4. LinksPlaced'
  BY <1>1 DEF LinksInv, LinksPlaced, OpIs, PutEntry, Active
<1>5. LinksMade'
  BY <1>1 DEF LinksInv, LinksTyped, LinksMade, OpType, OpIs, PutEntry, TargetOf
<1>6. LinksQuiet'
  BY <1>2 DEF LinksQuiet
<1>7. QED
  BY <1>3, <1>4, <1>5, <1>6 DEF LinksInv

LEMMA LoosenDirectoryKeeps == LinksInv /\ LoosenDirectory => LinksInv'
<1> SUFFICES ASSUME LinksInv, LoosenDirectory PROVE LinksInv'
  OBVIOUS
<1>1. disturbed' = disturbed + 1 /\ disturbed' \in 0..MaxDisturbed /\ disturbed' # 0
  BY CommandLinksAssumption DEF LoosenDirectory, Disturbing, LinksInv, LinksTyped
<1>2. LinksTyped' /\ LinksPlaced' /\ LinksMade'
  BY <1>1 DEF LinksInv, LinksTyped, LinksPlaced, LinksMade, TargetOf, LoosenDirectory, Active
<1>3. LinksQuiet'
  BY <1>1 DEF LinksQuiet
<1>4. QED
  BY <1>2, <1>3 DEF LinksInv

LEMMA LoseExecutableKeeps == LinksInv /\ LoseExecutable => LinksInv'
<1> SUFFICES ASSUME LinksInv, LoseExecutable PROVE LinksInv'
  OBVIOUS
<1>1. disturbed' = disturbed + 1 /\ disturbed' \in 0..MaxDisturbed /\ disturbed' # 0
  BY CommandLinksAssumption DEF LoseExecutable, Disturbing, LinksInv, LinksTyped
<1>2. LinksTyped' /\ LinksPlaced' /\ LinksMade'
  BY <1>1 DEF LinksInv, LinksTyped, LinksPlaced, LinksMade, TargetOf, LoseExecutable, Active
<1>3. LinksQuiet'
  BY <1>1 DEF LinksQuiet
<1>4. QED
  BY <1>2, <1>3 DEF LinksInv

LEMMA SessionBeginsKeeps == LinksInv /\ SessionBegins => LinksInv'
<1> SUFFICES ASSUME LinksInv, SessionBegins PROVE LinksInv'
  OBVIOUS
<1>1. disturbed' = disturbed + 1 /\ disturbed' \in 0..MaxDisturbed /\ disturbed' # 0
  BY CommandLinksAssumption DEF SessionBegins, Disturbing, LinksInv, LinksTyped
<1>2. LinksTyped' /\ LinksPlaced' /\ LinksMade'
  BY <1>1 DEF LinksInv, LinksTyped, LinksPlaced, LinksMade, TargetOf, SessionBegins, Active
<1>3. LinksQuiet'
  BY <1>1 DEF LinksQuiet
<1>4. QED
  BY <1>2, <1>3 DEF LinksInv

LEMMA SessionEndsKeeps == LinksInv /\ SessionEnds => LinksInv'
BY DEF LinksInv, LinksTyped, LinksPlaced, LinksMade, LinksQuiet, TargetOf, Routed, Retryable, SessionEnds, Active

LEMMA LinksStays == LinksInv /\ UNCHANGED linkVars => LinksInv'
BY DEF LinksInv, LinksTyped, LinksPlaced, LinksMade, LinksQuiet, TargetOf, Routed, Retryable, linkVars, Active

(* A directory on which an installation can begin: every name is free or   *)
(* already leads where it should.                                          *)
LEMMA InstallableIff ==
    LinksTyped => (EnsureInstallable(Report) <=> \A n \in ToSet(Names) : Retryable(n))
<1> SUFFICES ASSUME LinksTyped PROVE EnsureInstallable(Report) <=> \A n \in ToSet(Names) : Retryable(n)
  OBVIOUS
<1> USE NamesFacts, EntriesAre
<1> DEFINE L == LauncherState
<1>1. /\ entry[Launcher] \in Entries /\ usable \subseteq Executables
      /\ \A n \in ToSet(Names) : entry[n] \in Entries
  BY DEF LinksTyped
<1>2. /\ L = "absent" <=> entry[Launcher] = "absent"
      /\ L = "managed" <=> entry[Launcher] \in usable
      /\ L \in States
  BY <1>1 DEF LauncherState, Entries, States
<1> HIDE DEF L
<1>3. Report = [n \in ToSet(Names) |-> IF n = Launcher THEN L ELSE ToolState(n, L)]
  BY DEF Report, L
<1>4. ASSUME NEW n \in ToSet(Names), n # Launcher, L \in {"absent", "managed"}
      PROVE  /\ ToolState(n, L) # "collision" <=> Retryable(n)
             /\ ToolState(n, L) = "stale" => L = "absent"
  BY <1>1, <1>4 DEF ToolState, Retryable, Routed
<1>5. Retryable(Launcher) <=> L \in {"absent", "managed"}
  BY <1>2 DEF Retryable, Routed
<1>6. ASSUME EnsureInstallable(Report) PROVE \A n \in ToSet(Names) : Retryable(n)
  <2>1. L \in {"absent", "managed"}
    BY <1>2, <1>3, <1>6 DEF EnsureInstallable, States
  <2>2. QED
    BY <2>1, <1>3, <1>4, <1>5, <1>6 DEF EnsureInstallable
<1>7. ASSUME \A n \in ToSet(Names) : Retryable(n) PROVE EnsureInstallable(Report)
  <2>1. L \in {"absent", "managed"}
    BY <1>7, <1>5
  <2>2. QED
    BY <2>1, <1>3, <1>4, <1>7 DEF EnsureInstallable
<1>8. QED
  BY <1>6, <1>7

LEMMA LinksInitInv == LinksInit => LinksInv
<1> SUFFICES ASSUME LinksInit PROVE LinksInv
  OBVIOUS
<1> USE NamesFacts
<1>1. op \in OpType /\ op.pc = "idle" /\ op.kind = "none" /\ op.made = {}
  BY UnseenTyped, PcsAre DEF LinksInit, NoCommand, OpType
<1>2. LinksTyped
  BY <1>1, CommandLinksAssumption DEF LinksInit, LinksTyped
<1>3. LinksPlaced /\ LinksMade
  BY <1>1 DEF LinksPlaced, LinksMade, Active
<1>4. LinksQuiet
  BY <1>1, <1>2, InstallableIff DEF LinksInit, LinksQuiet
<1>5. QED
  BY <1>2, <1>3, <1>4 DEF LinksInv

LEMMA LinksNextKeeps == LinksInv /\ [LinksNext]_linkVars => LinksInv'
<1> SUFFICES ASSUME LinksInv, [LinksNext]_linkVars PROVE LinksInv'
  OBVIOUS
<1>1. CASE LinksCommand
  BY <1>1, LinksValidateKeeps, LinksLookKeeps, LinksPreflightKeeps, LinksReturnKeeps, LinksInspectAgainKeeps,
     PassOverKeeps, CreateLinkKeeps, CreateLinkFailsKeeps, VerifyLinkKeeps, CreateEndsKeeps, SyncFailsKeeps,
     RollbackLookKeeps, RollbackUnlinkKeeps, RollbackEndsKeeps, RemoveLookKeeps, RemoveUnlinkKeeps,
     RemoveEndsKeeps, LinksCrashKeeps DEF LinksCommand
<1>2. CASE LinksOthers
  BY <1>2, PutEntryKeeps, LoosenDirectoryKeeps, LoseExecutableKeeps, SessionBeginsKeeps DEF LinksOthers
<1>3. QED
  BY <1>1, <1>2, LinksBeginKeeps, SessionEndsKeeps, LinksStays DEF LinksNext

LEMMA LinksInvSound == LinksInv => LinksSound
<1> SUFFICES ASSUME LinksInv PROVE LinksSound
  OBVIOUS
<1> USE NamesFacts
<1>1. LinksTypeOK
  BY DEF LinksInv, LinksTyped, LinksPlaced, LinksTypeOK, OpType, LinkPcs, Active
<1>2. InstalledRoutes
  BY EntriesAre DEF LinksInv, LinksTyped, LinksQuiet, InstalledRoutes, Runs, Routed
<1>3. RetryNeverBlocked
  BY InstallableIff DEF LinksInv, LinksQuiet, RetryNeverBlocked
<1>4. FailedInstallUndone
  BY DEF LinksInv, LinksMade, LinksQuiet, FailedInstallUndone
<1>5. QED
  BY <1>1, <1>2, <1>3, <1>4 DEF LinksSound

(* Every step of the creation is a step of the commands or leaves them be. *)
LEMMA CreateStepIsLinksStep == [CreateNext]_createVars => [LinksNext]_linkVars
BY DEF CreateNext, createVars, ForkStep, InstallCommands, RemoveCommands, CommandsStep, CommandsDisturbed, LinksNext

(* `quarters create --from-host` and the adapter commands (app.rs) use the *)
(* managed commands only through their operations.                         *)
THEOREM CreateUsesLinks == CreateSpec => LinksSpec
<1>1. CreateInit => LinksInit
  BY DEF CreateInit
<1>2. QED
  BY <1>1, CreateStepIsLinksStep, PTL DEF CreateSpec, LinksSpec

(* The inductive invariant of the managed commands (command_link.rs)       *)
THEOREM LinksInductive == LinksSpec => []LinksInv
BY LinksInitInv, LinksNextKeeps, PTL DEF LinksSpec

(* Whatever detached processes do, an installation of the managed commands *)
(* (install_command_links) that nobody disturbed routes every tool, one    *)
(* that failed has undone its links, and no failure, crash or removal      *)
(* leaves a directory that a later installation refuses.                   *)
THEOREM CreateLinksSound == CreateSpec => []LinksSound
BY CreateUsesLinks, LinksInductive, LinksInvSound, PTL

LEMMA LinksStepKeepsForeign ==
    ASSUME LinksInv, [LinksNext]_linkVars, disturbed' = disturbed,
           NEW n \in ToSet(Names), entry'[n] # entry[n]
    PROVE  \/ entry[n] = "absent"
           \/ op.kind = "install" /\ n \in op.made
           \/ op.kind = "remove" /\ n # Launcher /\ entry[n] = "quarters"
           \/ op.pc \in {"undo", "unlink"} /\ n \notin op.looked
<1> USE NamesFacts
<1>1. CreateLink \/ RollbackUnlink \/ RemoveUnlink
  <2>1. ~LinksOthers
    <3>1. disturbed \in Nat
      BY CommandLinksAssumption DEF LinksInv, LinksTyped
    <3>2. ~Disturbing
      BY <3>1 DEF Disturbing
    <3>3. QED
      BY <3>2 DEF LinksOthers, PutEntry, LoosenDirectory, LoseExecutable, SessionBegins
  <2>2. entry' # entry
    OBVIOUS
  <2>3. ~(\E k \in {"install", "remove"} : LinksBegin(k)) /\ ~SessionEnds /\ ~UNCHANGED linkVars
    BY <2>2 DEF LinksBegin, SessionEnds, linkVars
  <2>4. QED
    BY <2>1, <2>2, <2>3 DEF LinksNext, LinksCommand, LinksValidate, LinksLook, LinksPreflight, LinksReturn,
       LinksInspectAgain, PassOver, CreateLinkFails, VerifyLink, CreateEnds, SyncFails, RollbackLook,
       RollbackEnds, RemoveLook, RemoveEnds, LinksCrash
<1>2. Here \in ToSet(Names) /\ op.at \in 1..Len(Names)
  BY <1>1 DEF LinksInv, LinksTyped, LinksPlaced, OpType, CreateLink, RollbackUnlink, RemoveUnlink, Here
<1>3. n = Here
  BY <1>1, <1>2 DEF LinksInv, LinksTyped, CreateLink, RollbackUnlink, RemoveUnlink
<1>4. CASE CreateLink
  BY <1>3, <1>4 DEF CreateLink
<1>5. CASE RollbackUnlink
  BY <1>3, <1>5 DEF RollbackUnlink, LinksInv, LinksPlaced, LinksMade
<1>6. CASE RemoveUnlink
  BY <1>2, <1>3, <1>6 DEF RemoveUnlink, LinksInv, LinksPlaced, LinksMade, Here
<1>7. QED
  BY <1>1, <1>4, <1>5, <1>6

(* A command never takes away or replaces what others put into .local/bin, *)
(* except what came after its last look (rollback_links,                   *)
(* remove_managed_tool).                                                   *)
THEOREM CreateKeepsForeignEntries == CreateSpec => ForeignEntriesKept
<1>1. LinksInv /\ [LinksNext]_linkVars =>
        [disturbed' = disturbed =>
          \A n \in ToSet(Names) : entry'[n] # entry[n] =>
            \/ entry[n] = "absent"
            \/ op.kind = "install" /\ n \in op.made
            \/ op.kind = "remove" /\ n # Launcher /\ entry[n] = "quarters"
            \/ op.pc \in {"undo", "unlink"} /\ n \notin op.looked]_linkVars
  BY LinksStepKeepsForeign
<1>2. QED
  BY <1>1, CreateUsesLinks, LinksInductive, PTL DEF LinksSpec, ForeignEntriesKept

-------------------------------------------------------------------------------
(* The inductive invariant of the fork.  The host: nodes of the shape they *)
(* began with; a stamp is the number of a write that has happened.         *)
NodeShape(x) ==
    x = [kind |-> x.kind, safe |-> x.safe, entries |-> x.entries, data |-> x.data, stamp |-> x.stamp]

HostKept ==
    /\ writes \in Nat
    /\ fs = [i \in DOMAIN fs |-> fs[i]] /\ home \in DOMAIN fs /\ Spare \subseteq DOMAIN fs
    /\ \A i \in DOMAIN fs :
         NodeShape(fs[i]) /\ fs[i].data \in Seq(STRING) /\ fs[i].stamp \in Nat /\ fs[i].stamp <= writes

PlanShape(p) ==
    /\ p = [anchor |-> p.anchor, sources |-> p.sources, absent |-> p.absent, ineligible |-> p.ineligible,
            replace |-> p.replace]
    /\ p.sources \in Seq(Range(p.sources))
    /\ \A s \in Range(p.sources) : s.path \in DOMAIN Rank

Copying == {"copy", "read", "verify"}

ForkControl ==
    /\ phase \in {"preview", "execute"}
    /\ pc \in {"begin", "open", "copy", "read", "verify", "published", "refused", "failed", "broken"}
    /\ request \in Requests /\ todo \subseteq DOMAIN Rank
    /\ PlanShape(plan) /\ PlanShape(confirmed)
    /\ pc \in Copying \cup {"published", "failed", "broken"} => phase = "execute"
    /\ pc \in Copying => plan = confirmed /\ todo \subseteq Confirmed
    /\ pc \in Copying \cup {"open"} => plan.replace = request.replace
    /\ pc = "open" => todo \subseteq Presets \cup request.explicit
    /\ pc = "read" => todo # {}
    /\ pc \in Copying \cup {"open"} => space = Nothing

(* The contents behind a plan: a source whose stamp is still the planned   *)
(* one still has the bytes the preview looked at.                          *)
ShownOf(sources) ==
    \A s \in Range(sources) :
        /\ s.path \in DOMAIN shown /\ s.meta.ino \in DOMAIN fs
        /\ s.meta.stamp \in Nat /\ s.meta.stamp <= writes
        /\ fs[s.meta.ino].stamp = s.meta.stamp => fs[s.meta.ino].data = shown[s.path]

ForkRecorded ==
    /\ \A p \in DOMAIN shown : shown[p] \in Seq(STRING)
    /\ phase = "preview" /\ pc = "begin" => shown = Nothing
    /\ phase = "preview" =>
         /\ ShownOf(plan.sources)
         /\ \A p \in DOMAIN shown : p \notin todo /\ \E s \in Range(plan.sources) : s.path = p
    /\ phase = "execute" => ShownOf(confirmed.sources)

Contents(p) == shown[p] \o PromptTail(p)
Complete == [p \in Generated \cup Confirmed |-> IF p \in Confirmed THEN Contents(p) ELSE <<"generated">>]
Approved(p) == p \in Generated => p \in Replaceable /\ confirmed.replace

(* The staging home holds what was copied so far; what is being read is a  *)
(* prefix of the file unless the file has been written to.                 *)
ForkStaged ==
    /\ pc \in {"copy", "read"} =>
         /\ staged = [p \in DOMAIN staged |-> staged[p]]
         /\ Generated \cup (Confirmed \ todo) \subseteq DOMAIN staged
         /\ DOMAIN staged \subseteq Generated \cup Confirmed
         /\ \A p \in Generated \ Confirmed : staged[p] = <<"generated">>
         /\ \A p \in Confirmed \ todo : staged[p] = Contents(p) /\ Approved(p)
    /\ pc = "read" =>
         /\ got \in Seq(STRING) /\ Candidate \in DOMAIN staged /\ Approved(Candidate)
         /\ fs[Descriptor].stamp = Planned[Candidate].meta.stamp =>
              /\ Len(got) <= Len(fs[Descriptor].data)
              /\ \A k \in 1..Len(got) : got[k] = fs[Descriptor].data[k]
    /\ pc = "verify" => staged = Complete
    /\ pc = "published" => space = Complete
    /\ pc = "verify" \/ space # Nothing => \A p \in Confirmed : Approved(p)
    /\ space # Nothing => space = Complete

(* While nobody writes: what a plan says of the host is still so.          *)
Before(sources, k) == [i \in 1..(k - 1) |-> sources[i]]

Foreseen(p) ==
    /\ p.anchor = home /\ fs[home].safe
    /\ \A k \in 1..Len(p.sources) :
         LET path == p.sources[k].path IN
         /\ OpenSource(fs, home, path).reason = "none"
         /\ p.sources[k] = SourceFile(fs, path, OpenSource(fs, home, path))
         /\ TotalBytes(Before(p.sources, k)) + p.sources[k].meta.size <= TotalLimit
    /\ \A k, l \in 1..Len(p.sources) : k < l =>
         /\ Rank[p.sources[k].path] < Rank[p.sources[l].path]
         /\ p.sources[k].meta.ino # p.sources[l].meta.ino
    /\ \A q \in p.absent : q \in Presets /\ OpenSource(fs, home, q).reason = "missing"
    /\ \A x \in p.ineligible :
         /\ x = <<x[1], x[2]>> /\ x[1] \in Presets
         /\ OpenSource(fs, home, x[1]).reason = x[2] /\ x[2] \notin {"none", "missing"}

AllPaths(p) == {s.path : s \in Range(p.sources)} \cup p.absent \cup {x[1] : x \in p.ineligible}

(* The plan of the execution is the confirmed one as far as it has come.   *)
Following ==
    /\ plan.anchor = home
    /\ Len(plan.sources) <= Len(confirmed.sources)
    /\ \A k \in 1..Len(plan.sources) : plan.sources[k] = confirmed.sources[k]
    /\ \A k \in 1..Len(confirmed.sources) : k > Len(plan.sources) <=> confirmed.sources[k].path \in todo
    /\ plan.absent = {q \in confirmed.absent : q \notin todo}
    /\ plan.ineligible = {x \in confirmed.ineligible : x[1] \notin todo}
    /\ todo \subseteq AllPaths(confirmed)

ForkQuiet ==
    writes = 0 =>
      /\ phase = "execute" \/ pc # "refused" => ~rival
      /\ phase = "preview" /\ pc = "open" =>
           /\ Foreseen(plan)
           /\ \A k \in 1..Len(plan.sources), q \in todo : Rank[plan.sources[k].path] < Rank[q]
      /\ phase = "execute" => Foreseen(confirmed)
      /\ phase = "execute" /\ pc = "open" /\ Presets \cup request.explicit = AllPaths(confirmed) => Following
      /\ PreviewPredicts

ForkInv == HostKept /\ ForkControl /\ ForkRecorded /\ ForkStaged /\ ForkQuiet

-------------------------------------------------------------------------------
LEMMA LeastNatural ==
    ASSUME NEW T, T \subseteq Nat, T # {}
    PROVE  \E x \in T : \A y \in T : x <= y
<1> DEFINE R == {ss \in Nat \X Nat : ss[1] < ss[2]}
<1>1. IsWellFoundedOn(R, Nat)
  BY NatLessThanWellFounded DEF OpToRel
<1> HIDE DEF R
<1>2. PICK x \in T : \A y \in T : ~(<<y, x>> \in R)
  BY <1>1, WFMin
<1>3. ASSUME NEW y \in T PROVE x <= y
  <2>1. x \in Nat /\ y \in Nat
    OBVIOUS
  <2>2. ~(y < x)
    BY <1>2, <2>1 DEF R
  <2>3. QED
    BY <2>1, <2>2
<1>4. QED
  BY <1>3

(* candidate_paths: the next candidate is the least of those left.         *)
LEMMA CandidateIsLeast ==
    ASSUME todo \subseteq DOMAIN Rank, todo # {}
    PROVE  Candidate \in todo /\ \A q \in todo : Rank[Candidate] <= Rank[q]
<1>1. \A p \in todo : Rank[p] \in Nat
  BY HostForkAssumption
<1> DEFINE T == {Rank[p] : p \in todo}
<1>2. PICK x \in T : \A y \in T : x <= y
  <2>1. T \subseteq Nat /\ T # {}
    BY <1>1
  <2> HIDE DEF T
  <2>2. QED
    BY <2>1, LeastNatural
<1>3. \E p \in todo : \A q \in todo : Rank[p] <= Rank[q]
  BY <1>2
<1>4. QED
  BY <1>3 DEF Candidate

LEMMA PlannedIs ==
    /\ DOMAIN Planned = {s.path : s \in Range(plan.sources)}
    /\ \A p \in DOMAIN Planned : Planned[p] \in Range(plan.sources) /\ Planned[p].path = p
<1>1. DOMAIN Planned = {s.path : s \in Range(plan.sources)}
  BY DEF Planned
<1>2. ASSUME NEW p \in DOMAIN Planned PROVE Planned[p] \in Range(plan.sources) /\ Planned[p].path = p
  <2>1. Planned[p] = CHOOSE s \in Range(plan.sources) : s.path = p
    BY <1>1 DEF Planned
  <2>2. \E s \in Range(plan.sources) : s.path = p
    BY <1>1
  <2>3. QED
    BY <2>1, <2>2
<1>3. QED
  BY <1>1, <1>2

(* What open_source opens exists, and open_relative opens it again.        *)
LEMMA OpenedExists ==
    ASSUME NEW host, NEW anchor, NEW path, OpenSource(host, anchor, path).reason = "none"
    PROVE  /\ OpenSource(host, anchor, path).ino \in DOMAIN host
           /\ OpenRelative(host, anchor, path) = OpenSource(host, anchor, path)
<1> DEFINE opened == OpenRelative(host, anchor, path)
<1>1. opened = OpenSource(host, anchor, path) /\ opened.reason = "none"
  BY DEF OpenSource, Not
<1>2. opened.ino \in DOMAIN host
  <2> DEFINE at == OpenParents(host, anchor, path)
             i == Lookup(host, at.ino, Last(path))
  <2>1. i = NoIno \/ i \in DOMAIN host
    BY DEF Lookup
  <2>2. opened = CASE at.reason # "none" -> at
                   [] at.reason = "none" /\ i = NoIno -> Not("missing")
                   [] at.reason = "none" /\ i # NoIno /\ host[i].kind = "symlink" -> Not("unsupported")
                   [] at.reason = "none" /\ i # NoIno /\ host[i].kind # "symlink" ->
                        IF host[i].kind = "file" /\ host[i].safe /\ LinkCount(host, i) = 1
                        THEN Opened(i, at.parents) ELSE Not("unsafe")
    BY DEF OpenRelative
  <2> HIDE DEF at, i, opened
  <2>3. i # NoIno /\ opened = Opened(i, at.parents)
    BY <1>1, <2>2 DEF Not
  <2>4. QED
    BY <2>1, <2>3 DEF Opened
<1>3. QED
  BY <1>1, <1>2

LEMMA AppendSeq ==
    ASSUME NEW s, s \in Seq(Range(s)), NEW x, NEW t, t = Append(s, x)
    PROVE  /\ t \in Seq(Range(t)) /\ \A y : y \in Range(t) <=> y \in Range(s) \/ y = x
           /\ Len(s) \in Nat /\ Len(t) = Len(s) + 1 /\ t[Len(t)] = x
           /\ \A i \in 1..Len(s) : t[i] = s[i] /\ i \in 1..Len(t)
<1> DEFINE S == Range(s) \cup {x}
<1>1. s \in Seq(S) /\ x \in S
  OBVIOUS
<1>2. DOMAIN s = 1..Len(s)
  OBVIOUS
<1>3. Range(s) = {s[i] : i \in 1..Len(s)}
  BY <1>2 DEF Range
<1> HIDE DEF S
<1>4. /\ t \in Seq(S) /\ Len(s) \in Nat /\ Len(t) = Len(s) + 1 /\ t[Len(t)] = x /\ DOMAIN t = 1..Len(t)
      /\ \A i \in 1..Len(s) : t[i] = s[i] /\ i \in 1..Len(t)
  BY <1>1
<1>5. Range(t) = S
  BY <1>3, <1>4 DEF Range, S
<1>6. QED
  BY <1>4, <1>5 DEF S

(* Steps of other processes: what they write has a new stamp.              *)
LEMMA NodeSet ==
    ASSUME NEW x, NodeShape(x), NEW d, NEW e, NEW n
    PROVE  /\ [x EXCEPT !.data = d] = [kind |-> x.kind, safe |-> x.safe, entries |-> x.entries, data |-> d, stamp |-> x.stamp]
           /\ [x EXCEPT !.entries = e] = [kind |-> x.kind, safe |-> x.safe, entries |-> e, data |-> x.data, stamp |-> x.stamp]
           /\ [x EXCEPT !.stamp = n] = [kind |-> x.kind, safe |-> x.safe, entries |-> x.entries, data |-> x.data, stamp |-> n]
BY DEF NodeShape

(* A host after another process changed it: the same inodes, and a new     *)
(* stamp wherever the contents are not the same.                           *)
Disturbed(host) ==
    /\ host = [i \in DOMAIN fs |-> host[i]] /\ DOMAIN host = DOMAIN fs
    /\ \A i \in DOMAIN fs :
         /\ NodeShape(host[i]) /\ host[i].data \in Seq(STRING)
         /\ \/ host[i].stamp = fs[i].stamp /\ host[i].data = fs[i].data
            \/ host[i].stamp = writes + 1

LEMMA EntriesDisturb ==
    ASSUME HostKept, NEW d \in DOMAIN fs, NEW e
    PROVE  Disturbed([fs EXCEPT ![d].entries = e])
<1> DEFINE g == [fs EXCEPT ![d].entries = e]
           node == [kind |-> fs[d].kind, safe |-> fs[d].safe, entries |-> e, data |-> fs[d].data, stamp |-> fs[d].stamp]
<1>1. NodeShape(fs[d]) /\ fs[d].data \in Seq(STRING)
  BY DEF HostKept
<1>2. g[d] = node
  BY <1>1, NodeSet
<1>3. DOMAIN g = DOMAIN fs /\ g = [i \in DOMAIN fs |-> g[i]] /\ \A i \in DOMAIN fs : i # d => g[i] = fs[i]
  OBVIOUS
<1>4. NodeShape(node) /\ node.data = fs[d].data /\ node.stamp = fs[d].stamp
  BY DEF NodeShape
<1> HIDE DEF g, node
<1>5. Disturbed(g)
  BY <1>1, <1>2, <1>3, <1>4 DEF Disturbed, HostKept
<1>6. QED
  BY <1>5 DEF g

LEMMA StampDisturbs ==
    ASSUME HostKept, NEW i, NEW g,
           g = [j \in DOMAIN fs |-> g[j]], DOMAIN g = DOMAIN fs,
           \A j \in DOMAIN fs : NodeShape(g[j]) /\ g[j].data \in Seq(STRING),
           \A j \in DOMAIN fs : j # i => (g[j].stamp = fs[j].stamp /\ g[j].data = fs[j].data) \/ g[j].stamp = writes + 1,
           i \in DOMAIN fs \/ Disturbed(g)
    PROVE  Disturbed(Stamped(g, i))
<1> DEFINE h == [g EXCEPT ![i].stamp = writes + 1]
<1>0. h = Stamped(g, i)
  BY DEF Stamped
<1>1. CASE i \in DOMAIN fs
  <2> DEFINE node == [kind |-> g[i].kind, safe |-> g[i].safe, entries |-> g[i].entries, data |-> g[i].data, stamp |-> writes + 1]
  <2>2. h[i] = node
    BY <1>1, NodeSet
  <2>3. DOMAIN h = DOMAIN fs /\ h = [j \in DOMAIN fs |-> h[j]] /\ \A j \in DOMAIN fs : j # i => h[j] = g[j]
    OBVIOUS
  <2>4. NodeShape(node) /\ node.data = g[i].data /\ node.stamp = writes + 1
    BY DEF NodeShape
  <2> HIDE DEF h, node
  <2>5. QED
    BY <1>0, <1>1, <2>2, <2>3, <2>4 DEF Disturbed
<1>2. CASE i \notin DOMAIN fs
  <2>1. h = g
    BY <1>2
  <2>2. QED
    BY <1>0, <1>2, <2>1
<1>3. QED
  BY <1>1, <1>2

LEMMA HostStep ==
    ASSUME HostKept, WriteFile \/ Relink \/ Rename \/ MoveHome \/ CreateRival
    PROVE  HostKept' /\ writes' = writes + 1 /\ Disturbed(fs') /\ ForkKept
<1>1. writes' = writes + 1 /\ writes \in Nat /\ ForkKept
  BY DEF HostKept, WriteFile, Relink, Rename, MoveHome, CreateRival
<1>2. Disturbed(fs)
  BY DEF Disturbed, HostKept
<1>3. Disturbed(fs')
  <2>1. CASE WriteFile
    <3>1. PICK i \in DOMAIN fs, data \in NewData : fs' = Stamped([fs EXCEPT ![i].data = data], i)
      BY <2>1 DEF WriteFile
    <3> DEFINE g == [fs EXCEPT ![i].data = data]
               node == [kind |-> fs[i].kind, safe |-> fs[i].safe, entries |-> fs[i].entries, data |-> data, stamp |-> fs[i].stamp]
    <3>2. data \in Seq(STRING) /\ NodeShape(fs[i])
      BY HostForkAssumption DEF HostKept
    <3>3. g[i] = node
      BY <3>2, NodeSet
    <3>4. NodeShape(node) /\ node.data = data
      BY DEF NodeShape
    <3>5. DOMAIN g = DOMAIN fs /\ g = [j \in DOMAIN fs |-> g[j]] /\ \A j \in DOMAIN fs : j # i => g[j] = fs[j]
      OBVIOUS
    <3>6. fs' = Stamped(g, i)
      BY <3>1
    <3> HIDE DEF g, node
    <3>7. \A j \in DOMAIN fs : NodeShape(g[j]) /\ g[j].data \in Seq(STRING)
      BY <3>2, <3>3, <3>4, <3>5 DEF HostKept
    <3>8. QED
      BY <3>5, <3>6, <3>7, StampDisturbs
  <2>2. CASE Relink
    <3>1. PICK d \in DOMAIN fs : \E n \in DOMAIN fs[d].entries, i \in Spare \cup {NoIno} :
            fs' = [fs EXCEPT ![d].entries = IF i = NoIno THEN [m \in DOMAIN @ \ {n} |-> @[m]] ELSE [@ EXCEPT ![n] = i]]
      BY <2>2 DEF Relink
    <3>2. PICK n \in DOMAIN fs[d].entries, i \in Spare \cup {NoIno} :
            fs' = [fs EXCEPT ![d].entries = IF i = NoIno THEN [m \in DOMAIN @ \ {n} |-> @[m]] ELSE [@ EXCEPT ![n] = i]]
      BY <3>1
    <3> DEFINE old == fs[d].entries
               e == IF i = NoIno THEN [m \in DOMAIN old \ {n} |-> old[m]] ELSE [old EXCEPT ![n] = i]
    <3>3. fs' = [fs EXCEPT ![d].entries = e]
      BY <3>2
    <3> HIDE DEF e
    <3>4. QED
      BY <3>3, EntriesDisturb
  <2>3. CASE Rename
    <3>0. PICK d \in DOMAIN fs : \E n, m \in DOMAIN fs[d].entries :
            fs' = Stamped([fs EXCEPT ![d].entries = [k \in DOMAIN @ \ {n} |-> IF k = m THEN @[n] ELSE @[k]]],
                          fs[d].entries[n])
      BY <2>3 DEF Rename
    <3>1. PICK n \in DOMAIN fs[d].entries, m \in DOMAIN fs[d].entries :
            fs' = Stamped([fs EXCEPT ![d].entries = [k \in DOMAIN @ \ {n} |-> IF k = m THEN @[n] ELSE @[k]]],
                          fs[d].entries[n])
      BY <3>0
    <3> DEFINE e == [k \in DOMAIN fs[d].entries \ {n} |-> IF k = m THEN fs[d].entries[n] ELSE fs[d].entries[k]]
               g == [fs EXCEPT ![d].entries = e]
    <3>2. fs' = Stamped(g, fs[d].entries[n])
      BY <3>1
    <3> HIDE DEF e
    <3>3. Disturbed(g)
      BY EntriesDisturb
    <3> HIDE DEF g
    <3>4. /\ g = [j \in DOMAIN fs |-> g[j]] /\ DOMAIN g = DOMAIN fs
          /\ \A j \in DOMAIN fs : NodeShape(g[j]) /\ g[j].data \in Seq(STRING)
          /\ \A j \in DOMAIN fs : (g[j].stamp = fs[j].stamp /\ g[j].data = fs[j].data) \/ g[j].stamp = writes + 1
      BY <3>3 DEF Disturbed
    <3>5. QED
      BY <3>2, <3>3, <3>4, StampDisturbs
  <2>4. CASE MoveHome \/ CreateRival
    BY <2>4, <1>2 DEF MoveHome, CreateRival
  <2>5. QED
    BY <2>1, <2>2, <2>3, <2>4
<1>4. home' \in DOMAIN fs
  BY DEF HostKept, WriteFile, Relink, Rename, MoveHome, CreateRival
<1>5. HostKept'
  <2>1. /\ fs' = [i \in DOMAIN fs' |-> fs'[i]] /\ DOMAIN fs' = DOMAIN fs /\ Spare \subseteq DOMAIN fs
    BY <1>3 DEF Disturbed, HostKept
  <2>2. ASSUME NEW i \in DOMAIN fs
        PROVE  NodeShape(fs'[i]) /\ fs'[i].data \in Seq(STRING) /\ fs'[i].stamp \in Nat /\ fs'[i].stamp <= writes + 1
    <3>1. fs[i].stamp \in Nat /\ fs[i].stamp <= writes
      BY DEF HostKept
    <3>2. NodeShape(fs'[i]) /\ fs'[i].data \in Seq(STRING) /\ (fs'[i].stamp = fs[i].stamp \/ fs'[i].stamp = writes + 1)
      BY <1>3 DEF Disturbed
    <3>3. QED
      BY <1>1, <3>1, <3>2
  <2>3. QED
    BY <1>1, <1>4, <2>1, <2>2 DEF HostKept
<1>6. QED
  BY <1>1, <1>3, <1>5

(* The file being copied or verified is one of the confirmed plan.         *)
LEMMA ConfirmedSource ==
    ASSUME ForkControl, pc \in Copying, todo # {}
    PROVE  /\ Candidate \in todo /\ Candidate \in DOMAIN Planned /\ Candidate \in Confirmed
           /\ Planned[Candidate] \in Range(confirmed.sources) /\ Planned[Candidate].path = Candidate
<1>1. Candidate \in todo /\ plan = confirmed /\ todo \subseteq Confirmed
  BY CandidateIsLeast DEF ForkControl
<1>2. Candidate \in DOMAIN Planned
  BY <1>1, PlannedIs DEF Confirmed
<1>3. QED
  BY <1>1, <1>2, PlannedIs

LEMMA ShownStays ==
    ASSUME HostKept, writes' = writes + 1, Disturbed(fs'), shown' = shown, NEW sources, ShownOf(sources)
    PROVE  ShownOf(sources)'
<1> SUFFICES ASSUME NEW s \in Range(sources)
             PROVE  /\ s.path \in DOMAIN shown /\ s.meta.ino \in DOMAIN fs'
                    /\ s.meta.stamp \in Nat /\ s.meta.stamp <= writes + 1
                    /\ fs'[s.meta.ino].stamp = s.meta.stamp => fs'[s.meta.ino].data = shown[s.path]
  BY DEF ShownOf
<1>1. /\ s.path \in DOMAIN shown /\ s.meta.ino \in DOMAIN fs
      /\ s.meta.stamp \in Nat /\ s.meta.stamp <= writes /\ writes \in Nat
      /\ fs[s.meta.ino].stamp = s.meta.stamp => fs[s.meta.ino].data = shown[s.path]
  BY DEF ShownOf, HostKept
<1>2. /\ DOMAIN fs' = DOMAIN fs
      /\ \/ fs'[s.meta.ino].stamp = fs[s.meta.ino].stamp /\ fs'[s.meta.ino].data = fs[s.meta.ino].data
         \/ fs'[s.meta.ino].stamp = writes + 1
  BY <1>1 DEF Disturbed
<1>3. QED
  BY <1>1, <1>2

LEMMA OthersKeep ==
    ASSUME ForkInv, WriteFile \/ Relink \/ Rename \/ MoveHome \/ CreateRival
    PROVE  ForkInv'
<1>1. HostKept' /\ writes' = writes + 1 /\ Disturbed(fs') /\ ForkKept /\ HostKept
  BY HostStep DEF ForkInv
<1>2. writes \in Nat
  BY <1>1 DEF HostKept
<1>3. ForkControl'
  BY <1>1 DEF ForkInv, ForkControl, ForkKept, Confirmed
<1>4. ForkRecorded'
  <2>1. /\ phase = "preview" => ShownOf(plan.sources)'
        /\ phase = "execute" => ShownOf(confirmed.sources)'
    <3>1. /\ plan' = plan /\ confirmed' = confirmed /\ shown' = shown
          /\ phase = "preview" => ShownOf(plan.sources)
          /\ phase = "execute" => ShownOf(confirmed.sources)
      BY <1>1 DEF ForkInv, ForkRecorded, ForkKept
    <3>2. \A sources : ShownOf(sources) => ShownOf(sources)'
      BY <1>1, <3>1, ShownStays
    <3>3. QED
      BY <1>1, <3>1, <3>2 DEF ShownOf
  <2>2. QED
    BY <1>1, <2>1 DEF ForkInv, ForkRecorded, ForkKept
<1>5. ForkStaged'
  <2>1. /\ pc' = pc /\ staged' = staged /\ space' = space /\ got' = got /\ Confirmed' = Confirmed
        /\ Candidate' = Candidate /\ Planned' = Planned /\ Descriptor' = Descriptor /\ Complete' = Complete
        /\ todo' = todo /\ shown' = shown
    BY <1>1 DEF ForkKept, Confirmed, Candidate, Planned, Descriptor, Complete, Contents
  <2>2. \A p : Contents(p)' = Contents(p) /\ (Approved(p)' <=> Approved(p))
    BY <1>1 DEF ForkKept, Contents, Approved
  <2>3. ASSUME pc = "read", fs'[Descriptor].stamp = Planned[Candidate].meta.stamp
        PROVE  fs'[Descriptor].data = fs[Descriptor].data /\ fs'[Descriptor].stamp = fs[Descriptor].stamp
    <3>1. Planned[Candidate] \in Range(confirmed.sources) /\ phase = "execute"
      BY <2>3, ConfirmedSource DEF ForkInv, ForkControl, Copying
    <3>2. /\ Descriptor \in DOMAIN fs /\ Planned[Candidate].meta.stamp \in Nat /\ Planned[Candidate].meta.stamp <= writes
      BY <3>1 DEF ForkInv, ForkRecorded, ShownOf, Descriptor
    <3>3. QED
      BY <1>1, <1>2, <2>3, <3>2 DEF Disturbed
  <2>4. Approved(Candidate)' <=> Approved(Candidate)
    BY <1>1, <2>1 DEF Approved, ForkKept
  <2>5. QED
    BY <2>1, <2>2, <2>3, <2>4 DEF ForkInv, ForkStaged
<1>6. ForkQuiet'
  BY <1>1, <1>2 DEF ForkQuiet
<1>7. QED
  BY <1>1, <1>3, <1>4, <1>5, <1>6 DEF ForkInv

-------------------------------------------------------------------------------
(* Steps of the fork itself, which leave the host alone                    *)
LEMMA HostFrame == ASSUME HostKept, UNCHANGED source PROVE HostKept'
BY DEF HostKept, source

LEMMA ForeseenFrame == ASSUME UNCHANGED source, confirmed' = confirmed PROVE Foreseen(confirmed)' <=> Foreseen(confirmed)
BY DEF Foreseen, source

LEMMA ShownFrame ==
    ASSUME UNCHANGED source, confirmed' = confirmed, shown' = shown
    PROVE  ShownOf(confirmed.sources)' <=> ShownOf(confirmed.sources)
BY DEF ShownOf, source

LEMMA ShownPlanFrame ==
    ASSUME UNCHANGED source, plan' = plan, shown' = shown
    PROVE  ShownOf(plan.sources)' <=> ShownOf(plan.sources)
BY DEF ShownOf, source

(* What may refuse the execution of a plan on a host nobody writes to      *)
Excused ==
    \/ request.replace # confirmed.replace
    \/ Presets \cup request.explicit # AllPaths(confirmed)
    \/ \E p \in request.explicit \cap Presets : p \notin Confirmed
    \/ request.nested \/ request.explicit \cap Sensitive # {}
    \/ Confirmed \cap Replaceable # {} /\ ~request.replace
    \/ Confirmed \cap (Generated \ Replaceable) # {}

LEMMA CompleteFrame ==
    ASSUME confirmed' = confirmed, shown' = shown
    PROVE  Complete' = Complete /\ Confirmed' = Confirmed /\ \A p : Approved(p)' <=> Approved(p)
BY DEF Complete, Contents, Confirmed, Approved

LEMMA RefuseKeeps ==
    ASSUME ForkInv, UNCHANGED source, Refuse, pc \in {"begin", "open"},
           writes = 0 /\ phase = "execute" /\ space = Nothing => Excused
    PROVE  ForkInv'
<1>1. /\ pc' = "refused" /\ phase' = phase /\ request' = request /\ todo' = todo /\ plan' = plan
      /\ confirmed' = confirmed /\ shown' = shown /\ staged' = staged /\ space' = space /\ rival' = rival
      /\ writes' = writes
  BY DEF Refuse, source
<1>2. HostKept'
  BY HostFrame DEF ForkInv
<1>3. ForkControl'
  BY <1>1 DEF ForkInv, ForkControl, Copying
<1>4. ForkRecorded'
  BY <1>1, ShownFrame, ShownPlanFrame DEF ForkInv, ForkRecorded
<1>5. ForkStaged'
  BY <1>1, CompleteFrame DEF ForkInv, ForkStaged
<1>6. ForkQuiet'
  <2>1. PreviewPredicts'
    BY <1>1 DEF Excused, PreviewPredicts, Confirmed, AllPaths
  <2>2. QED
    BY <1>1, <2>1, ForeseenFrame DEF ForkInv, ForkQuiet
<1>7. QED
  BY <1>2, <1>3, <1>4, <1>5, <1>6 DEF ForkInv

LEMMA AbandonKeeps ==
    ASSUME ForkInv, UNCHANGED source, CleanUp, pc \in Copying,
           (pc' = "failed" /\ (writes = 0 => Excused)) \/ pc' = "broken"
    PROVE  ForkInv'
<1>1. /\ pc' \in {"failed", "broken"} /\ phase' = phase /\ request' = request /\ todo' = todo /\ plan' = plan
      /\ confirmed' = confirmed /\ shown' = shown /\ space' = space /\ rival' = rival
      /\ writes' = writes /\ space = Nothing /\ phase = "execute"
  BY DEF CleanUp, source, ForkInv, ForkControl, Copying
<1>2. HostKept'
  BY HostFrame DEF ForkInv
<1>3. ForkControl'
  BY <1>1 DEF ForkInv, ForkControl, Copying
<1>4. ForkRecorded'
  BY <1>1, ShownFrame, ShownPlanFrame DEF ForkInv, ForkRecorded
<1>5. ForkStaged'
  BY <1>1 DEF ForkStaged
<1>6. ForkQuiet'
  <2>1. PreviewPredicts'
    BY <1>1 DEF Excused, PreviewPredicts, Confirmed, AllPaths
  <2>2. QED
    BY <1>1, <2>1, ForeseenFrame DEF ForkInv, ForkQuiet
<1>7. QED
  BY <1>2, <1>3, <1>4, <1>5, <1>6 DEF ForkInv

LEMMA CallFailsKeeps == ASSUME ForkInv, CallFails PROVE ForkInv'
BY AbandonKeeps DEF CallFails, Copying

LEMMA RetryKeeps == ASSUME ForkInv, Retry PROVE ForkInv'
<1>1. /\ UNCHANGED source /\ pc' = "begin" /\ phase = "execute" /\ phase' = phase /\ request' = request
      /\ todo' = {} /\ plan' = NoPlan /\ confirmed' = confirmed /\ shown' = shown /\ space' = space
      /\ rival' = rival /\ writes' = writes
  BY DEF Retry, source
<1>2. HostKept'
  BY <1>1, HostFrame DEF ForkInv
<1>3. ForkControl'
  <2>1. Range(<<>>) = {} /\ <<>> \in Seq({})
    BY DEF Range
  <2>2. PlanShape(plan)'
    BY <1>1, <2>1 DEF PlanShape, NoPlan
  <2>3. QED
    BY <1>1, <2>2 DEF ForkInv, ForkControl, Copying
<1>4. ForkRecorded'
  BY <1>1, ShownFrame DEF ForkInv, ForkRecorded
<1>5. ForkStaged'
  BY <1>1, CompleteFrame DEF ForkInv, ForkStaged
<1>6. ForkQuiet'
  <2>1. PreviewPredicts'
    BY <1>1 DEF PreviewPredicts
  <2>2. QED
    BY <1>1, <2>1, ForeseenFrame DEF ForkInv, ForkQuiet
<1>7. QED
  BY <1>2, <1>3, <1>4, <1>5, <1>6 DEF ForkInv

LEMMA BeginKeeps == ASSUME ForkInv, Begin PROVE ForkInv'
<1> DEFINE refused == Taken \/ request.nested \/ ~fs[home].safe \/ request.explicit \cap Sensitive # {}
<1>1. CASE refused
  <2>1. Refuse /\ UNCHANGED source /\ pc = "begin"
    BY <1>1 DEF Begin
  <2>2. writes = 0 /\ phase = "execute" /\ space = Nothing => Excused
    BY <1>1 DEF ForkInv, ForkQuiet, Foreseen, Excused, Taken
  <2>3. QED
    BY <2>1, <2>2, RefuseKeeps
<1>2. CASE ~refused
  <2>1. /\ UNCHANGED source /\ pc = "begin" /\ pc' = "open" /\ phase' = phase /\ request' = request
        /\ todo' = Presets \cup request.explicit
        /\ plan' = [NoPlan EXCEPT !.anchor = home, !.replace = request.replace]
        /\ confirmed' = confirmed /\ shown' = shown /\ staged' = staged /\ space' = space /\ rival' = rival
        /\ writes' = writes /\ fs' = fs /\ home' = home /\ space = Nothing
    BY <1>2 DEF Begin, source, Taken
  <2>2. plan' = [anchor |-> home, sources |-> <<>>, absent |-> {}, ineligible |-> {}, replace |-> request.replace]
    BY <2>1 DEF NoPlan
  <2>3. Range(<<>>) = {} /\ <<>> \in Seq({}) /\ Len(<<>>) = 0
    BY DEF Range
  <2>4. /\ PlanShape(plan)' /\ plan'.sources = <<>> /\ plan'.anchor = home /\ plan'.absent = {}
        /\ plan'.ineligible = {} /\ plan'.replace = request.replace
    BY <2>2, <2>3 DEF PlanShape
  <2>5. request.explicit \subseteq DOMAIN Rank /\ Presets \subseteq DOMAIN Rank
    BY HostForkAssumption DEF ForkInv, ForkControl
  <2>6. HostKept'
    BY <2>1, HostFrame DEF ForkInv
  <2>7. ForkControl'
    BY <2>1, <2>4, <2>5 DEF ForkInv, ForkControl, Copying
  <2>8. ForkRecorded'
    <3>1. ShownOf(plan.sources)'
      BY <2>3, <2>4 DEF ShownOf
    <3>2. phase = "preview" => DOMAIN shown = {}
      BY <2>1 DEF ForkInv, ForkRecorded, Nothing
    <3>3. QED
      BY <2>1, <3>1, <3>2, ShownFrame DEF ForkInv, ForkRecorded
  <2>9. ForkStaged'
    BY <2>1 DEF ForkInv, ForkControl, ForkStaged
  <2>10. ForkQuiet'
    <3>1. writes = 0 /\ phase = "preview" => Foreseen(plan)'
      BY <1>2, <2>1, <2>3, <2>4 DEF Foreseen
    <3>2. ASSUME Presets \cup request.explicit = AllPaths(confirmed) PROVE Following'
      <4>1. todo' = AllPaths(confirmed)
        BY <2>1, <3>2
      <4>2. \A k \in 1..Len(confirmed.sources) : confirmed.sources[k].path \in AllPaths(confirmed)
        <5>1. confirmed.sources \in Seq(Range(confirmed.sources))
          BY DEF ForkInv, ForkControl, PlanShape
        <5>2. \A k \in 1..Len(confirmed.sources) : confirmed.sources[k] \in Range(confirmed.sources)
          BY <5>1
        <5>3. QED
          BY <5>2 DEF AllPaths
      <4>3. Len(confirmed.sources) \in Nat
        BY DEF ForkInv, ForkControl, PlanShape
      <4>4. /\ {q \in confirmed.absent : q \notin AllPaths(confirmed)} = {}
            /\ {x \in confirmed.ineligible : x[1] \notin AllPaths(confirmed)} = {}
        BY DEF AllPaths
      <4>5. QED
        BY <2>1, <2>3, <2>4, <4>1, <4>2, <4>3, <4>4 DEF Following, AllPaths
    <3>3. PreviewPredicts'
      BY <2>1 DEF PreviewPredicts
    <3>4. QED
      BY <2>1, <2>3, <2>4, <3>1, <3>2, <3>3, ForeseenFrame DEF ForkInv, ForkQuiet, AllPaths
  <2>11. QED
    BY <2>6, <2>7, <2>8, <2>9, <2>10 DEF ForkInv
<1>3. QED
  BY <1>1, <1>2

LEMMA ConfirmKeeps == ASSUME ForkInv, Confirm PROVE ForkInv'
<1>1. /\ UNCHANGED source /\ pc = "open" /\ phase = "preview" /\ todo = {} /\ pc' = "begin" /\ phase' = "execute"
      /\ request' \in Requests /\ todo' = todo /\ plan' = plan /\ confirmed' = plan /\ shown' = shown
      /\ staged' = staged /\ space' = space /\ rival' = rival /\ writes' = writes /\ fs' = fs /\ home' = home
  BY DEF Confirm, source
<1>2. HostKept'
  BY <1>1, HostFrame DEF ForkInv
<1>3. ForkControl'
  BY <1>1 DEF ForkInv, ForkControl, Copying
<1>4. ForkRecorded'
  <2>1. ShownOf(confirmed.sources)'
    BY <1>1 DEF ForkInv, ForkRecorded, ShownOf
  <2>2. QED
    BY <1>1, <2>1 DEF ForkInv, ForkRecorded
<1>5. ForkStaged'
  BY <1>1 DEF ForkInv, ForkControl, ForkStaged
<1>6. ForkQuiet'
  <2>1. writes = 0 => Foreseen(confirmed)'
    BY <1>1 DEF ForkInv, ForkQuiet, Foreseen
  <2>2. PreviewPredicts'
    BY <1>1 DEF PreviewPredicts
  <2>3. QED
    BY <1>1, <2>1, <2>2 DEF ForkInv, ForkQuiet
<1>7. QED
  BY <1>2, <1>3, <1>4, <1>5, <1>6 DEF ForkInv

(* On a host nobody writes to, the plan prepared again is the confirmed    *)
(* one, up to the replacement.                                             *)
LEMMA FollowedPlan ==
    ASSUME ForkControl, Following, Foreseen(confirmed), todo = {}, plan.replace = confirmed.replace
    PROVE  plan = confirmed
<1>1. PlanShape(plan) /\ PlanShape(confirmed)
  BY DEF ForkControl
<1>2. plan.sources \in Seq(Range(plan.sources)) /\ confirmed.sources \in Seq(Range(confirmed.sources))
  BY <1>1 DEF PlanShape
<1>3. Len(plan.sources) \in Nat /\ Len(confirmed.sources) \in Nat
  BY <1>2
<1>4. Len(plan.sources) = Len(confirmed.sources)
  <2>1. SUFFICES ASSUME Len(plan.sources) < Len(confirmed.sources) PROVE FALSE
    BY <1>3, <2>1 DEF Following
  <2>2. Len(confirmed.sources) \in 1..Len(confirmed.sources)
    BY <1>3, <2>1
  <2>3. QED
    BY <2>1, <2>2 DEF Following
<1>5. plan.sources = confirmed.sources
  <2>1. plan.sources = [k \in 1..Len(plan.sources) |-> plan.sources[k]]
    BY <1>2
  <2>2. confirmed.sources = [k \in 1..Len(confirmed.sources) |-> confirmed.sources[k]]
    BY <1>2
  <2>3. QED
    BY <1>4, <2>1, <2>2 DEF Following
<1>6. plan.anchor = confirmed.anchor /\ plan.absent = confirmed.absent /\ plan.ineligible = confirmed.ineligible
  BY DEF Following, Foreseen
<1>7. QED
  BY <1>1, <1>5, <1>6 DEF PlanShape

LEMMA StageKeeps == ASSUME ForkInv, Stage PROVE ForkInv'
<1> DEFINE refused == PlanDigest(plan) # PlanDigest(confirmed) \/ (Conflicts # {} /\ ~plan.replace)
<1>0. UNCHANGED source /\ pc = "open" /\ phase = "execute" /\ todo = {} /\ plan.replace = request.replace
  BY DEF Stage, ForkInv, ForkControl
<1>1. CASE refused
  <2>1. Refuse
    BY <1>1 DEF Stage
  <2>2. ASSUME writes = 0, ~Excused PROVE FALSE
    <3>1. Following /\ Foreseen(confirmed) /\ plan.replace = confirmed.replace
      BY <1>0, <2>2 DEF ForkInv, ForkQuiet, Excused
    <3>2. plan = confirmed
      BY <1>0, <3>1, FollowedPlan DEF ForkInv
    <3>3. Conflicts # {} /\ ~plan.replace
      BY <1>1, <3>2 DEF PlanDigest
    <3>4. Confirmed \cap Replaceable # {}
      BY <3>2, <3>3, PlannedIs DEF Conflicts, Confirmed
    <3>5. QED
      BY <1>0, <2>2, <3>3, <3>4 DEF Excused
  <2>3. QED
    BY <1>0, <2>1, <2>2, RefuseKeeps
<1>2. CASE ~refused
  <2>1. /\ staged' = PopulateSpace /\ todo' = DOMAIN Planned /\ pc' = "copy" /\ plan = confirmed
        /\ phase' = phase /\ request' = request /\ plan' = plan /\ confirmed' = confirmed /\ shown' = shown
        /\ space' = space /\ rival' = rival /\ writes' = writes
    BY <1>2, <1>0 DEF Stage, PlanDigest, CopyList, source
  <2>2. DOMAIN Planned = Confirmed /\ Confirmed' = Confirmed
    BY <2>1, PlannedIs DEF Confirmed
  <2>3. HostKept'
    BY <1>0, HostFrame DEF ForkInv
  <2>4. ForkControl'
    <3>1. Confirmed \subseteq DOMAIN Rank
      BY DEF ForkInv, ForkControl, PlanShape, Confirmed
    <3>2. QED
      BY <1>0, <2>1, <2>2, <3>1 DEF ForkInv, ForkControl, Copying
  <2>5. ForkRecorded'
    BY <1>0, <2>1, ShownFrame DEF ForkInv, ForkRecorded
  <2>6. ForkStaged'
    <3>1. space = Nothing
      BY <1>0 DEF ForkInv, ForkControl
    <3>2. staged' = [p \in Generated |-> <<"generated">>]
      BY <2>1 DEF PopulateSpace
    <3>3. DOMAIN staged' = Generated /\ staged' = [p \in DOMAIN staged' |-> staged'[p]]
          /\ \A p \in Generated : staged'[p] = <<"generated">>
      BY <3>2
    <3>4. QED
      BY <2>1, <2>2, <3>1, <3>3 DEF ForkStaged
  <2>7. ForkQuiet'
    <3>1. PreviewPredicts'
      BY <2>1 DEF PreviewPredicts
    <3>2. QED
      BY <1>0, <2>1, <3>1, ForeseenFrame DEF ForkInv, ForkQuiet
  <2>8. QED
    BY <2>3, <2>4, <2>5, <2>6, <2>7 DEF ForkInv
<1>3. QED
  BY <1>1, <1>2

(* A confirmed source on a host nobody writes to: it is opened again as it *)
(* was.                                                                    *)
LEMMA ForeseenSource ==
    ASSUME ForkControl, Foreseen(confirmed), NEW s \in Range(confirmed.sources)
    PROVE  LET opened == OpenSource(fs, home, s.path)
           IN  /\ opened.reason = "none" /\ s.meta = Metadata(fs, s.meta.ino)
               /\ opened.ino = s.meta.ino /\ opened.parents = s.parents
<1>1. confirmed.sources \in Seq(Range(confirmed.sources))
  BY DEF ForkControl, PlanShape
<1>2. PICK k \in 1..Len(confirmed.sources) : s = confirmed.sources[k]
  BY <1>1 DEF Range
<1>3. OpenSource(fs, home, s.path).reason = "none" /\ s = SourceFile(fs, s.path, OpenSource(fs, home, s.path))
  BY <1>2 DEF Foreseen
<1>4. s.meta = Metadata(fs, OpenSource(fs, home, s.path).ino) /\ s.parents = OpenSource(fs, home, s.path).parents
  BY <1>3 DEF SourceFile
<1>5. s.meta.ino = OpenSource(fs, home, s.path).ino
  BY <1>4 DEF Metadata
<1>6. QED
  BY <1>3, <1>4, <1>5

LEMMA StartCopyKeeps == ASSUME ForkInv, StartCopy PROVE ForkInv'
<1> DEFINE blocked == Candidate \in Generated /\ (Candidate \notin Replaceable \/ ~plan.replace)
<1>0. /\ UNCHANGED source /\ pc = "copy" /\ todo # {} /\ phase = "execute" /\ plan = confirmed
      /\ plan.replace = request.replace /\ space = Nothing
      /\ Candidate \in todo /\ Candidate \in Confirmed
  BY ConfirmedSource DEF StartCopy, ForkInv, ForkControl, Copying
<1>1. CASE blocked
  <2>1. Abandon
    BY <1>1 DEF StartCopy
  <2>2. Excused
    BY <1>0, <1>1 DEF Excused
  <2>3. QED
    BY <1>0, <2>1, <2>2, AbandonKeeps DEF Abandon, Copying
<1>2. CASE ~blocked
  <2>1. /\ staged' = With(staged, Candidate, <<>>) /\ got' = <<>> /\ pc' = "read" /\ todo' = todo
        /\ phase' = phase /\ request' = request /\ plan' = plan /\ confirmed' = confirmed /\ shown' = shown
        /\ space' = space /\ rival' = rival /\ writes' = writes
    BY <1>2, <1>0 DEF StartCopy, source
  <2>2. Confirmed' = Confirmed /\ Candidate' = Candidate
    BY <2>1 DEF Confirmed, Candidate
  <2>3. HostKept'
    BY <1>0, HostFrame DEF ForkInv
  <2>4. ForkControl'
    BY <1>0, <2>1, <2>2 DEF ForkInv, ForkControl, Copying
  <2>5. ForkRecorded'
    BY <1>0, <2>1, ShownFrame DEF ForkInv, ForkRecorded
  <2>6. ForkStaged'
    <3> DEFINE c == Candidate
    <3>1. /\ DOMAIN staged' = DOMAIN staged \cup {c} /\ staged' = [p \in DOMAIN staged' |-> staged'[p]]
          /\ \A p \in DOMAIN staged : p # c => staged'[p] = staged[p]
      BY <2>1 DEF With
    <3>2. /\ \A p \in Generated \ Confirmed : p # c /\ p \in DOMAIN staged
          /\ \A p \in Confirmed \ todo : p # c /\ p \in DOMAIN staged
      BY <1>0 DEF ForkInv, ForkStaged
    <3>3. Approved(c)
      BY <1>0, <1>2 DEF Approved
    <3>4. \A p : (Approved(p)' <=> Approved(p)) /\ Contents(p)' = Contents(p)
      BY <2>1 DEF Approved, Contents
    <3>5. Approved(Candidate)'
      BY <2>1, <2>2, <3>3 DEF Approved
    <3>6. got' \in Seq(STRING) /\ Len(got') = 0
      BY <2>1
    <3>61. Len(fs'[Descriptor'].data) \in Nat
      <4>1. Planned[Candidate] \in Range(confirmed.sources)
        BY <1>0, ConfirmedSource DEF ForkInv, Copying
      <4>2. Planned[Candidate].meta.ino \in DOMAIN fs
        BY <1>0, <4>1 DEF ForkInv, ForkRecorded, ShownOf
      <4>3. fs[Planned[Candidate].meta.ino].data \in Seq(STRING)
        BY <4>2 DEF ForkInv, HostKept
      <4>4. Descriptor' = Descriptor /\ fs' = fs
        BY <1>0, <2>1, <2>2 DEF Descriptor, Planned, source
      <4>5. QED
        BY <4>3, <4>4 DEF Descriptor
    <3> HIDE DEF c
    <3>7. /\ Generated \cup (Confirmed \ todo) \subseteq DOMAIN staged'
          /\ DOMAIN staged' \subseteq Generated \cup Confirmed /\ Candidate \in DOMAIN staged'
      BY <1>0, <3>1 DEF ForkInv, ForkStaged, c
    <3>8. /\ \A p \in Generated \ Confirmed : staged'[p] = <<"generated">>
          /\ \A p \in Confirmed \ todo : staged'[p] = Contents(p) /\ Approved(p)
      BY <1>0, <3>1, <3>2 DEF ForkInv, ForkStaged
    <3>9. QED
      BY <1>0, <2>1, <2>2, <3>1, <3>4, <3>5, <3>6, <3>61, <3>7, <3>8 DEF ForkStaged
  <2>7. ForkQuiet'
    <3>1. PreviewPredicts'
      BY <2>1 DEF PreviewPredicts
    <3>2. QED
      BY <1>0, <2>1, <3>1, ForeseenFrame DEF ForkInv, ForkQuiet
  <2>8. QED
    BY <2>3, <2>4, <2>5, <2>6, <2>7 DEF ForkInv
<1>3. QED
  BY <1>1, <1>2

(* The descriptor that is being read, and what the preview saw of it       *)
LEMMA Reading ==
    ASSUME ForkInv, pc = "read"
    PROVE  /\ Descriptor \in DOMAIN fs /\ Planned[Candidate].meta.ino = Descriptor
           /\ fs[Descriptor].data \in Seq(STRING)
           /\ Planned[Candidate] \in Range(confirmed.sources) /\ Planned[Candidate].path = Candidate
           /\ Candidate \in todo /\ Candidate \in Confirmed /\ Candidate \in DOMAIN shown
           /\ fs[Descriptor].stamp = Planned[Candidate].meta.stamp => fs[Descriptor].data = shown[Candidate]
<1>1. /\ Planned[Candidate] \in Range(confirmed.sources) /\ Planned[Candidate].path = Candidate
      /\ Candidate \in todo /\ Candidate \in Confirmed /\ phase = "execute"
  BY ConfirmedSource DEF ForkInv, ForkControl, Copying
<1>2. /\ Descriptor \in DOMAIN fs /\ Candidate \in DOMAIN shown
      /\ fs[Descriptor].stamp = Planned[Candidate].meta.stamp => fs[Descriptor].data = shown[Candidate]
  BY <1>1 DEF ForkInv, ForkRecorded, ShownOf, Descriptor
<1>3. QED
  BY <1>1, <1>2 DEF ForkInv, HostKept, Descriptor

LEMMA ReadBlockKeeps == ASSUME ForkInv, ReadBlock PROVE ForkInv'
<1>1. /\ UNCHANGED source /\ pc = "read" /\ pc' = pc /\ todo' = todo /\ staged' = staged
      /\ phase' = phase /\ request' = request /\ plan' = plan /\ confirmed' = confirmed /\ shown' = shown
      /\ space' = space /\ rival' = rival /\ writes' = writes /\ fs' = fs /\ space = Nothing /\ phase = "execute"
  BY DEF ReadBlock, source, ForkInv, ForkControl, Copying
<1>2. /\ Confirmed' = Confirmed /\ Candidate' = Candidate /\ Planned' = Planned /\ Descriptor' = Descriptor
  BY <1>1 DEF Confirmed, Candidate, Planned, Descriptor
<1>3. HostKept'
  BY <1>1, HostFrame DEF ForkInv
<1>4. ForkControl'
  BY <1>1, <1>2 DEF ForkInv, ForkControl, Copying
<1>5. ForkRecorded'
  BY <1>1, ShownFrame DEF ForkInv, ForkRecorded
<1>6. ForkStaged'
  <2> DEFINE data == fs[Descriptor].data
  <2>1. data \in Seq(STRING) /\ got \in Seq(STRING) /\ Len(got) < Len(data) /\ got' = Append(got, data[Len(got) + 1])
    BY <1>1, Reading DEF ReadBlock, ForkInv, ForkStaged
  <2>2. fs[Descriptor].stamp = Planned[Candidate].meta.stamp => \A k \in 1..Len(got) : got[k] = data[k]
    BY <1>1 DEF ForkInv, ForkStaged
  <2> HIDE DEF data
  <2>3. got' \in Seq(STRING) /\ Len(got') <= Len(data)
    BY <2>1
  <2>4. fs[Descriptor].stamp = Planned[Candidate].meta.stamp => \A k \in 1..Len(got') : got'[k] = data[k]
    BY <2>1, <2>2
  <2>5. \A p : (Approved(p)' <=> Approved(p)) /\ Contents(p)' = Contents(p)
    BY <1>1 DEF Approved, Contents
  <2>6. Approved(Candidate)' <=> Approved(Candidate)
    BY <1>1, <1>2 DEF Approved
  <2>7. QED
    BY <1>1, <1>2, <2>3, <2>4, <2>5, <2>6 DEF ForkInv, ForkStaged, data
<1>7. ForkQuiet'
  <2>1. PreviewPredicts'
    BY <1>1 DEF PreviewPredicts
  <2>2. QED
    BY <1>1, <2>1, ForeseenFrame DEF ForkInv, ForkQuiet
<1>8. QED
  BY <1>3, <1>4, <1>5, <1>6, <1>7 DEF ForkInv

LEMMA FinishCopyKeeps == ASSUME ForkInv, FinishCopy PROVE ForkInv'
<1> DEFINE changed == Len(got) # Planned[Candidate].meta.size \/ Metadata(fs, Descriptor) # Planned[Candidate].meta
           data == fs[Descriptor].data
           meta == Planned[Candidate].meta
<1>0. /\ UNCHANGED source /\ pc = "read" /\ phase = "execute" /\ plan = confirmed /\ space = Nothing
      /\ Len(got) >= Len(data) \/ Len(got) > meta.size
      /\ got \in Seq(STRING) /\ data \in Seq(STRING) /\ todo # {}
      /\ Candidate \in todo /\ Candidate \in Confirmed
  BY Reading DEF FinishCopy, ForkInv, ForkControl, ForkStaged, Copying
<1>a. fs[Descriptor].stamp = meta.stamp =>
        Len(got) <= Len(data) /\ \A k \in 1..Len(got) : got[k] = data[k]
  BY <1>0 DEF ForkInv, ForkStaged
<1>b. meta = Metadata(fs, Descriptor) => meta.stamp = fs[Descriptor].stamp /\ meta.size = Len(data)
  BY DEF Metadata
<1>1. CASE changed
  <2>1. Abandon
    BY <1>1 DEF FinishCopy
  <2>2. writes # 0
    <3> SUFFICES ASSUME writes = 0 PROVE FALSE
      OBVIOUS
    <3>1. meta = Metadata(fs, Descriptor)
      <4>1. Foreseen(confirmed)
        BY <1>0 DEF ForkInv, ForkQuiet
      <4>2. QED
        BY <1>0, <4>1, Reading, ForeseenSource DEF ForkInv
    <3>2. QED
      BY <1>0, <1>1, <1>a, <1>b, <3>1
  <2>3. QED
    BY <1>0, <2>1, <2>2, AbandonKeeps DEF Abandon, Copying
<1>2. CASE ~changed
  <2> DEFINE c == Candidate
  <2>1. /\ staged' = [staged EXCEPT ![c] = got \o PromptTail(c)] /\ pc' = "copy" /\ todo' = todo \ {c}
        /\ phase' = phase /\ request' = request /\ plan' = plan /\ confirmed' = confirmed /\ shown' = shown
        /\ space' = space /\ rival' = rival /\ writes' = writes
    BY <1>2, <1>0 DEF FinishCopy, source
  <2>2. got = shown[c]
    <3>1. Len(got) = Len(data) /\ \A k \in 1..Len(got) : got[k] = data[k]
      BY <1>2, <1>a, <1>b
    <3>2. got = data
      BY <1>0, <3>1
    <3>3. data = shown[c]
      BY <1>0, <1>2, <1>b, Reading
    <3>4. QED
      BY <3>2, <3>3
  <2>3. Confirmed' = Confirmed
    BY <2>1 DEF Confirmed
  <2>4. HostKept'
    BY <1>0, HostFrame DEF ForkInv
  <2>5. ForkControl'
    BY <1>0, <2>1, <2>3 DEF ForkInv, ForkControl, Copying
  <2>6. ForkRecorded'
    BY <1>0, <2>1, ShownFrame DEF ForkInv, ForkRecorded
  <2>7. ForkStaged'
    <3>1. c \in DOMAIN staged /\ Approved(c) /\ c \in Confirmed
      BY <1>0 DEF ForkInv, ForkStaged
    <3> HIDE DEF c
    <3>2. /\ DOMAIN staged' = DOMAIN staged /\ staged'[c] = got \o PromptTail(c)
          /\ \A p \in DOMAIN staged : p # c => staged'[p] = staged[p]
          /\ staged' = [p \in DOMAIN staged' |-> staged'[p]]
      BY <2>1, <3>1
    <3>3. staged'[c] = Contents(c)
      BY <2>2, <3>2 DEF Contents
    <3>4. \A p : (Approved(p)' <=> Approved(p)) /\ Contents(p)' = Contents(p)
      BY <2>1 DEF Approved, Contents
    <3>5. /\ Generated \cup (Confirmed \ todo') \subseteq DOMAIN staged'
          /\ DOMAIN staged' \subseteq Generated \cup Confirmed
      BY <1>0, <2>1, <3>1, <3>2 DEF ForkInv, ForkStaged
    <3>6. \A p \in Generated \ Confirmed : staged'[p] = <<"generated">>
      BY <1>0, <3>1, <3>2 DEF ForkInv, ForkStaged
    <3>7. \A p \in Confirmed \ todo' : staged'[p] = Contents(p) /\ Approved(p)
      BY <1>0, <2>1, <3>1, <3>2, <3>3 DEF ForkInv, ForkStaged
    <3>8. QED
      BY <1>0, <2>1, <2>3, <3>2, <3>4, <3>5, <3>6, <3>7 DEF ForkStaged
  <2>8. ForkQuiet'
    <3>1. PreviewPredicts'
      BY <2>1 DEF PreviewPredicts
    <3>2. QED
      BY <1>0, <2>1, <3>1, ForeseenFrame DEF ForkInv, ForkQuiet
  <2>9. QED
    BY <2>4, <2>5, <2>6, <2>7, <2>8 DEF ForkInv
<1>3. QED
  BY <1>1, <1>2

LEMMA VerifyAnchorKeeps == ASSUME ForkInv, VerifyAnchor PROVE ForkInv'
<1>0. /\ UNCHANGED source /\ pc = "copy" /\ todo = {} /\ phase = "execute" /\ plan = confirmed /\ space = Nothing
  BY DEF VerifyAnchor, ForkInv, ForkControl, Copying
<1>1. CASE home # plan.anchor \/ ~fs[home].safe
  <2>1. Abandon
    BY <1>1 DEF VerifyAnchor
  <2>2. writes # 0
    BY <1>0, <1>1 DEF ForkInv, ForkQuiet, Foreseen
  <2>3. QED
    BY <1>0, <2>1, <2>2, AbandonKeeps DEF Abandon, Copying
<1>2. CASE ~(home # plan.anchor \/ ~fs[home].safe)
  <2>1. /\ staged' = staged /\ pc' = "verify" /\ todo' = DOMAIN Planned
        /\ phase' = phase /\ request' = request /\ plan' = plan /\ confirmed' = confirmed /\ shown' = shown
        /\ space' = space /\ rival' = rival /\ writes' = writes
    BY <1>2, <1>0 DEF VerifyAnchor, source
  <2>2. DOMAIN Planned = Confirmed /\ Confirmed \subseteq DOMAIN Rank
    BY <1>0, PlannedIs DEF Confirmed, ForkInv, ForkControl, PlanShape
  <2>3. Complete' = Complete /\ Confirmed' = Confirmed /\ \A p : Approved(p)' <=> Approved(p)
    BY <2>1, CompleteFrame
  <2>4. HostKept'
    BY <1>0, HostFrame DEF ForkInv
  <2>5. ForkControl'
    BY <1>0, <2>1, <2>2, <2>3 DEF ForkInv, ForkControl, Copying
  <2>6. ForkRecorded'
    BY <1>0, <2>1, ShownFrame DEF ForkInv, ForkRecorded
  <2>7. ForkStaged'
    <3>1. /\ staged = [p \in DOMAIN staged |-> staged[p]] /\ DOMAIN staged = Generated \cup Confirmed
          /\ \A p \in Generated \ Confirmed : staged[p] = <<"generated">>
          /\ \A p \in Confirmed : staged[p] = Contents(p) /\ Approved(p)
      BY <1>0 DEF ForkInv, ForkStaged
    <3>2. staged = Complete
      BY <3>1 DEF Complete
    <3>3. QED
      BY <1>0, <2>1, <2>3, <3>1, <3>2 DEF ForkStaged
  <2>8. ForkQuiet'
    <3>1. PreviewPredicts'
      BY <2>1 DEF PreviewPredicts
    <3>2. QED
      BY <1>0, <2>1, <3>1, ForeseenFrame DEF ForkInv, ForkQuiet
  <2>9. QED
    BY <2>4, <2>5, <2>6, <2>7, <2>8 DEF ForkInv
<1>3. QED
  BY <1>1, <1>2

LEMMA VerifySourceKeeps == ASSUME ForkInv, VerifySource PROVE ForkInv'
<1> DEFINE opened == OpenRelative(fs, plan.anchor, Candidate)
           changed == \/ opened.reason # "none" \/ Metadata(fs, opened.ino) # Planned[Candidate].meta
                      \/ opened.parents # Planned[Candidate].parents
<1>0. /\ UNCHANGED source /\ pc = "verify" /\ todo # {} /\ phase = "execute" /\ plan = confirmed /\ space = Nothing
      /\ Planned[Candidate] \in Range(confirmed.sources) /\ Planned[Candidate].path = Candidate
  BY ConfirmedSource DEF VerifySource, ForkInv, ForkControl, Copying
<1>1. CASE changed
  <2>1. Abandon
    BY <1>1 DEF VerifySource
  <2>2. writes # 0
    <3> SUFFICES ASSUME writes = 0 PROVE FALSE
      OBVIOUS
    <3>1. Foreseen(confirmed) /\ plan.anchor = home
      BY <1>0 DEF ForkInv, ForkQuiet, Foreseen
    <3>2. LET again == OpenSource(fs, home, Candidate)
          IN  /\ again.reason = "none" /\ Planned[Candidate].meta = Metadata(fs, Planned[Candidate].meta.ino)
              /\ again.ino = Planned[Candidate].meta.ino /\ again.parents = Planned[Candidate].parents
      BY <1>0, <3>1, ForeseenSource DEF ForkInv
    <3>3. opened = OpenSource(fs, home, Candidate)
      BY <3>1, <3>2, OpenedExists
    <3>4. QED
      BY <1>1, <3>2, <3>3
  <2>3. QED
    BY <1>0, <2>1, <2>2, AbandonKeeps DEF Abandon, Copying
<1>2. CASE ~changed
  <2>1. /\ staged' = staged /\ pc' = pc /\ todo' = todo \ {Candidate}
        /\ phase' = phase /\ request' = request /\ plan' = plan /\ confirmed' = confirmed /\ shown' = shown
        /\ space' = space /\ rival' = rival /\ writes' = writes
    BY <1>2, <1>0 DEF VerifySource, source
  <2>2. Complete' = Complete /\ Confirmed' = Confirmed /\ \A p : Approved(p)' <=> Approved(p)
    BY <2>1, CompleteFrame
  <2>3. HostKept'
    BY <1>0, HostFrame DEF ForkInv
  <2>4. ForkControl'
    BY <1>0, <2>1, <2>2 DEF ForkInv, ForkControl, Copying
  <2>5. ForkRecorded'
    BY <1>0, <2>1, ShownFrame DEF ForkInv, ForkRecorded
  <2>6. ForkStaged'
    BY <1>0, <2>1, <2>2 DEF ForkInv, ForkStaged
  <2>7. ForkQuiet'
    <3>1. PreviewPredicts'
      BY <1>0, <2>1 DEF PreviewPredicts
    <3>2. QED
      BY <1>0, <2>1, <3>1, ForeseenFrame DEF ForkInv, ForkQuiet
  <2>8. QED
    BY <2>3, <2>4, <2>5, <2>6, <2>7 DEF ForkInv
<1>3. QED
  BY <1>1, <1>2

LEMMA CompleteIsSomething == Complete # Nothing
<1>1. DOMAIN Complete # {}
  BY HostForkAssumption DEF Complete
<1>2. DOMAIN Nothing = {}
  BY DEF Nothing
<1>3. QED
  BY <1>1, <1>2

LEMMA PublishKeeps == ASSUME ForkInv, Publish PROVE ForkInv'
<1>0. /\ UNCHANGED source /\ pc = "verify" /\ todo = {} /\ phase = "execute" /\ plan = confirmed /\ space = Nothing
  BY DEF Publish, ForkInv, ForkControl, Copying
<1>1. CASE Taken
  <2>1. Abandon
    BY <1>1 DEF Publish
  <2>2. writes # 0
    BY <1>0, <1>1 DEF ForkInv, ForkQuiet, Taken
  <2>3. QED
    BY <1>0, <2>1, <2>2, AbandonKeeps DEF Abandon, Copying
<1>2. CASE ~Taken
  <2>1. /\ space' = staged /\ staged' = Nothing /\ pc' = "published" /\ todo' = todo
        /\ phase' = phase /\ request' = request /\ plan' = plan /\ confirmed' = confirmed /\ shown' = shown
        /\ rival' = rival /\ writes' = writes
    BY <1>2, <1>0 DEF Publish, source
  <2>2. Complete' = Complete /\ Confirmed' = Confirmed /\ \A p : Approved(p)' <=> Approved(p)
    BY <2>1, CompleteFrame
  <2>3. HostKept'
    BY <1>0, HostFrame DEF ForkInv
  <2>4. ForkControl'
    BY <1>0, <2>1, <2>2 DEF ForkInv, ForkControl, Copying
  <2>5. ForkRecorded'
    BY <1>0, <2>1, ShownFrame DEF ForkInv, ForkRecorded
  <2>6. ForkStaged'
    BY <1>0, <2>1, <2>2 DEF ForkInv, ForkStaged
  <2>7. ForkQuiet'
    <3>1. PreviewPredicts'
      BY <1>0, <2>1 DEF PreviewPredicts
    <3>2. QED
      BY <1>0, <2>1, <3>1, ForeseenFrame DEF ForkInv, ForkQuiet
  <2>8. QED
    BY <2>3, <2>4, <2>5, <2>6, <2>7 DEF ForkInv
<1>3. QED
  BY <1>1, <1>2

LEMMA ReportFailureKeeps == ASSUME ForkInv, ReportFailure PROVE ForkInv'
<1>1. /\ UNCHANGED source /\ pc = "published" /\ pc' = "failed" /\ phase = "execute" /\ space = Complete
      /\ space' = space /\ staged' = staged /\ todo' = todo /\ phase' = phase /\ request' = request /\ plan' = plan
      /\ confirmed' = confirmed /\ shown' = shown /\ rival' = rival /\ writes' = writes
  BY DEF ReportFailure, source, ForkInv, ForkControl, ForkStaged
<1>2. Complete' = Complete /\ Confirmed' = Confirmed /\ \A p : Approved(p)' <=> Approved(p)
  BY <1>1, CompleteFrame
<1>3. HostKept'
  BY <1>1, HostFrame DEF ForkInv
<1>4. ForkControl'
  BY <1>1, <1>2 DEF ForkInv, ForkControl, Copying
<1>5. ForkRecorded'
  BY <1>1, ShownFrame DEF ForkInv, ForkRecorded
<1>6. ForkStaged'
  BY <1>1, <1>2 DEF ForkInv, ForkStaged
<1>7. ForkQuiet'
  <2>1. PreviewPredicts'
    BY <1>1, CompleteIsSomething DEF PreviewPredicts
  <2>2. QED
    BY <1>1, <2>1, ForeseenFrame DEF ForkInv, ForkQuiet
<1>8. QED
  BY <1>3, <1>4, <1>5, <1>6, <1>7 DEF ForkInv

(* The reason recorded for a path of the confirmed plan is the one found   *)
(* again on a host nobody writes to.                                       *)
LEMMA ForeseenReason ==
    ASSUME ForkControl, Foreseen(confirmed), NEW path \in AllPaths(confirmed)
    PROVE  LET reason == OpenSource(fs, home, path).reason
           IN  /\ reason = "none" => path \in Confirmed
               /\ reason # "none" => path \notin Confirmed /\ path \in Presets
               /\ reason = "missing" => path \in confirmed.absent
               /\ reason \notin {"none", "missing"} => <<path, reason>> \in confirmed.ineligible
               /\ path \in confirmed.absent => reason = "missing"
               /\ \A x \in confirmed.ineligible : x[1] = path => reason = x[2] /\ reason \notin {"none", "missing"}
<1> DEFINE reason == OpenSource(fs, home, path).reason
<1>1. path \in Confirmed => reason = "none"
  <2>1. SUFFICES ASSUME path \in Confirmed PROVE reason = "none"
    OBVIOUS
  <2>2. PICK s \in Range(confirmed.sources) : s.path = path
    BY <2>1 DEF Confirmed
  <2>3. QED
    BY <2>2, ForeseenSource
<1>2. path \in Confirmed \/ path \in confirmed.absent \/ \E x \in confirmed.ineligible : x[1] = path
  BY DEF AllPaths, Confirmed
<1>3. path \in confirmed.absent => path \in Presets /\ reason = "missing"
  BY DEF Foreseen
<1>4. \A x \in confirmed.ineligible : x[1] = path =>
        x = <<path, reason>> /\ reason = x[2] /\ path \in Presets /\ reason \notin {"none", "missing"}
  BY DEF Foreseen
<1> HIDE DEF reason
<1>5. /\ reason = "none" => path \in Confirmed
      /\ reason # "none" => path \notin Confirmed /\ path \in Presets
      /\ reason = "missing" => path \in confirmed.absent
      /\ reason \notin {"none", "missing"} => <<path, reason>> \in confirmed.ineligible
      /\ path \in confirmed.absent => reason = "missing"
      /\ \A x \in confirmed.ineligible : x[1] = path => reason = x[2] /\ reason \notin {"none", "missing"}
  BY <1>1, <1>2, <1>3, <1>4
<1>6. QED
  BY <1>5 DEF reason

(* The file opened next on a host nobody writes to is the next one of the  *)
(* confirmed plan, and it fits.                                            *)
LEMMA NextSource ==
    ASSUME ForkControl, Following, Foreseen(confirmed), todo # {}, OpenSource(fs, home, Candidate).reason = "none"
    PROVE  LET next == Len(plan.sources) + 1
               found == SourceFile(fs, Candidate, OpenSource(fs, home, Candidate))
           IN  /\ next \in 1..Len(confirmed.sources) /\ confirmed.sources[next] = found
               /\ \A s \in Range(plan.sources) : s.meta.ino # found.meta.ino
               /\ TotalBytes(plan.sources) + found.meta.size <= TotalLimit
<1> DEFINE C == confirmed.sources
           n == Len(plan.sources)
<1>1. /\ plan.sources \in Seq(Range(plan.sources)) /\ C \in Seq(Range(C))
      /\ \A s \in Range(C) : s.path \in DOMAIN Rank
  BY DEF ForkControl, PlanShape
<1>2. n \in Nat /\ Len(C) \in Nat /\ \A k \in 1..Len(C) : C[k].path \in DOMAIN Rank /\ Rank[C[k].path] \in Nat
  <2>1. \A k \in 1..Len(C) : C[k] \in Range(C)
    BY <1>1
  <2>2. QED
    BY <1>1, <2>1, HostForkAssumption
<1>3. Candidate \in todo /\ (\A q \in todo : Rank[Candidate] <= Rank[q]) /\ Candidate \in AllPaths(confirmed)
  BY CandidateIsLeast DEF ForkControl, Following
<1>4. PICK k \in 1..Len(C) : C[k].path = Candidate
  <2>1. Candidate \in Confirmed
    BY <1>3, ForeseenReason
  <2>2. PICK s \in Range(C) : s.path = Candidate
    BY <2>1 DEF Confirmed
  <2>3. QED
    BY <1>1, <2>2 DEF Range
<1>5. k > n
  BY <1>3, <1>4 DEF Following
<1>6. n + 1 \in 1..Len(C) /\ C[n + 1].path \in todo
  <2>1. n + 1 \in 1..Len(C) /\ n + 1 > n
    BY <1>2, <1>4, <1>5
  <2>2. QED
    BY <2>1 DEF Following
<1>7. k = n + 1
  <2>1. SUFFICES ASSUME n + 1 < k PROVE FALSE
    BY <1>2, <1>5, <2>1
  <2>2. Rank[C[n + 1].path] < Rank[C[k].path]
    BY <1>6, <2>1 DEF Foreseen
  <2>3. Rank[C[k].path] <= Rank[C[n + 1].path]
    BY <1>3, <1>4, <1>6
  <2>4. QED
    BY <1>2, <1>6, <2>2, <2>3
<1>8. C[n + 1] = SourceFile(fs, Candidate, OpenSource(fs, home, Candidate))
  BY <1>4, <1>6, <1>7 DEF Foreseen
<1>9. \A s \in Range(plan.sources) : s.meta.ino # C[n + 1].meta.ino
  <2> SUFFICES ASSUME NEW s \in Range(plan.sources) PROVE s.meta.ino # C[n + 1].meta.ino
    OBVIOUS
  <2>1. PICK j \in 1..n : s = plan.sources[j]
    <3>1. DOMAIN plan.sources = 1..n
      BY <1>1
    <3>2. \E j \in DOMAIN plan.sources : s = plan.sources[j]
      BY DEF Range
    <3>3. QED
      BY <3>1, <3>2
  <2>2. plan.sources[j] = C[j] /\ j \in 1..Len(C) /\ j < n + 1
    BY <1>2, <1>6 DEF Following
  <2>3. QED
    BY <1>6, <2>1, <2>2 DEF Foreseen
<1>10. TotalBytes(plan.sources) + C[n + 1].meta.size <= TotalLimit
  <2>1. plan.sources = Before(C, n + 1)
    <3>1. plan.sources = [j \in 1..n |-> plan.sources[j]]
      BY <1>1
    <3>2. Before(C, n + 1) = [j \in 1..n |-> C[j]]
      BY <1>2 DEF Before
    <3>3. QED
      BY <3>1, <3>2 DEF Following
  <2>2. TotalBytes(Before(C, n + 1)) + C[n + 1].meta.size <= TotalLimit
    BY <1>6 DEF Foreseen
  <2>3. QED
    BY <2>1, <2>2
<1>11. QED
  BY <1>6, <1>8, <1>9, <1>10

(* A candidate that is passed over, with the reason in the plan            *)
LEMMA SkipKeeps ==
    ASSUME ForkInv, pc = "open", todo # {}, UNCHANGED source,
           NEW path, path = Candidate, NEW reason, reason = OpenSource(fs, plan.anchor, path).reason,
           reason # "none", path \notin request.explicit,
           plan' = IF reason = "missing" THEN [plan EXCEPT !.absent = @ \cup {path}]
                   ELSE [plan EXCEPT !.ineligible = @ \cup {<<path, reason>>}],
           todo' = todo \ {path},
           UNCHANGED <<phase, pc, request, confirmed, shown, got, staged, space, rival>>
    PROVE  ForkInv'
<1>1. /\ phase' = phase /\ pc' = pc /\ request' = request /\ confirmed' = confirmed /\ shown' = shown
      /\ staged' = staged /\ space' = space /\ rival' = rival /\ writes' = writes /\ fs' = fs /\ home' = home
  BY DEF source
<1>2. path \in todo /\ path \in Presets
  BY CandidateIsLeast DEF ForkInv, ForkControl
<1>3. /\ plan'.anchor = plan.anchor /\ plan'.sources = plan.sources /\ plan'.replace = plan.replace
      /\ plan'.absent = IF reason = "missing" THEN plan.absent \cup {path} ELSE plan.absent
      /\ plan'.ineligible = IF reason = "missing" THEN plan.ineligible ELSE plan.ineligible \cup {<<path, reason>>}
      /\ PlanShape(plan)'
  <2>1. PlanShape(plan)
    BY DEF ForkInv, ForkControl
  <2>2. CASE reason = "missing"
    <3>1. plan' = [anchor |-> plan.anchor, sources |-> plan.sources, absent |-> plan.absent \cup {path},
                   ineligible |-> plan.ineligible, replace |-> plan.replace]
      BY <2>1, <2>2 DEF PlanShape
    <3>2. QED
      BY <2>1, <2>2, <3>1 DEF PlanShape
  <2>3. CASE reason # "missing"
    <3>1. plan' = [anchor |-> plan.anchor, sources |-> plan.sources, absent |-> plan.absent,
                   ineligible |-> plan.ineligible \cup {<<path, reason>>}, replace |-> plan.replace]
      BY <2>1, <2>3 DEF PlanShape
    <3>2. QED
      BY <2>1, <2>3, <3>1 DEF PlanShape
  <2>4. QED
    BY <2>2, <2>3
<1>4. HostKept'
  BY HostFrame DEF ForkInv
<1>5. ForkControl'
  BY <1>1, <1>3 DEF ForkInv, ForkControl, Copying
<1>6. ForkRecorded'
  <2>1. ShownOf(plan.sources)' <=> ShownOf(plan.sources)
    BY <1>1, <1>3 DEF ShownOf
  <2>2. QED
    BY <1>1, <1>3, <2>1, ShownFrame DEF ForkInv, ForkRecorded
<1>7. ForkStaged'
  BY <1>1 DEF ForkInv, ForkControl, ForkStaged
<1>8. ForkQuiet'
  <2>1. ASSUME writes = 0, phase = "preview" PROVE Foreseen(plan)'
    <3>1. Foreseen(plan) /\ plan.anchor = home
      BY <2>1 DEF ForkInv, ForkQuiet, Foreseen
    <3>2. \A q \in plan'.absent : q \in Presets /\ OpenSource(fs, home, q).reason = "missing"
      BY <1>2, <1>3, <3>1 DEF Foreseen
    <3>3. \A x \in plan'.ineligible : /\ x = <<x[1], x[2]>> /\ x[1] \in Presets
                                      /\ OpenSource(fs, home, x[1]).reason = x[2] /\ x[2] \notin {"none", "missing"}
      <4>1. \A x \in plan.ineligible : /\ x = <<x[1], x[2]>> /\ x[1] \in Presets
                                       /\ OpenSource(fs, home, x[1]).reason = x[2] /\ x[2] \notin {"none", "missing"}
        BY <3>1 DEF Foreseen
      <4>2. OpenSource(fs, home, path).reason = reason
        BY <3>1
      <4>3. QED
        BY <1>2, <1>3, <4>1, <4>2
    <3>4. QED
      BY <1>1, <1>3, <3>1, <3>2, <3>3 DEF Foreseen
  <2>2. ASSUME writes = 0, phase = "execute", Presets \cup request.explicit = AllPaths(confirmed) PROVE Following'
    <3>1. Following /\ Foreseen(confirmed) /\ plan.anchor = home
      BY <2>2 DEF ForkInv, ForkQuiet, Following
    <3>2. path \in AllPaths(confirmed)
      BY <1>2, <3>1 DEF Following
    <3>3. /\ path \notin Confirmed
          /\ reason = "missing" => path \in confirmed.absent
          /\ reason # "missing" => <<path, reason>> \in confirmed.ineligible
          /\ path \in confirmed.absent => reason = "missing"
          /\ \A x \in confirmed.ineligible : x[1] = path => reason = x[2] /\ reason # "missing"
      BY <3>1, <3>2, ForeseenReason DEF ForkInv
    <3>4. \A k \in 1..Len(confirmed.sources) : confirmed.sources[k].path # path
      <4>1. confirmed.sources \in Seq(Range(confirmed.sources))
        BY DEF ForkInv, ForkControl, PlanShape
      <4>2. \A k \in 1..Len(confirmed.sources) : confirmed.sources[k] \in Range(confirmed.sources)
        BY <4>1
      <4>3. QED
        BY <3>3, <4>2 DEF Confirmed
    <3>5. plan'.absent = {q \in confirmed.absent : q \notin todo'}
      <4>1. plan.absent = {q \in confirmed.absent : q \notin todo}
        BY <3>1 DEF Following
      <4>2. QED
        BY <1>2, <1>3, <3>3, <4>1
    <3>6. plan'.ineligible = {x \in confirmed.ineligible : x[1] \notin todo'}
      <4>1. plan.ineligible = {x \in confirmed.ineligible : x[1] \notin todo}
        BY <3>1 DEF Following
      <4>2. \A x \in confirmed.ineligible : x[1] = path => x = <<path, reason>>
        BY <3>1, <3>3 DEF Foreseen
      <4>3. <<path, reason>>[1] = path
        OBVIOUS
      <4>4. CASE reason = "missing"
        BY <1>2, <1>3, <3>3, <4>1, <4>4
      <4>5. CASE reason # "missing"
        <5>1. plan'.ineligible = plan.ineligible \cup {<<path, reason>>}
          BY <1>3, <4>5
        <5>2. <<path, reason>> \in confirmed.ineligible
          BY <3>3, <4>5
        <5>3. QED
          BY <1>2, <4>1, <4>2, <4>3, <5>1, <5>2
      <4>6. QED
        BY <4>4, <4>5
    <3>7. todo' \subseteq AllPaths(confirmed)
      BY <3>1 DEF Following
    <3>8. AllPaths(confirmed)' = AllPaths(confirmed)
      BY <1>1 DEF AllPaths
    <3>9. QED
      BY <1>1, <1>3, <3>1, <3>4, <3>5, <3>6, <3>7, <3>8 DEF Following
  <2>3. PreviewPredicts'
    BY <1>1 DEF PreviewPredicts
  <2>4. AllPaths(confirmed)' = AllPaths(confirmed)
    BY <1>1 DEF AllPaths
  <2>5. QED
    BY <1>1, <1>3, <2>1, <2>2, <2>3, <2>4, ForeseenFrame DEF ForkInv, ForkQuiet
<1>9. QED
  BY <1>4, <1>5, <1>6, <1>7, <1>8 DEF ForkInv

(* A plan stays foreseen when the next file is appended to it.             *)
LEMMA ForeseenGrows ==
    ASSUME NEW p, Foreseen(p), p.sources \in Seq(Range(p.sources)),
           NEW path, NEW opened, opened = OpenSource(fs, home, path), opened.reason = "none",
           NEW found, found = SourceFile(fs, path, opened), found.path = path,
           \A s \in Range(p.sources) : s.meta.ino # found.meta.ino,
           TotalBytes(p.sources) + found.meta.size <= TotalLimit,
           \A k \in 1..Len(p.sources) : Rank[p.sources[k].path] < Rank[path],
           NEW q, q.anchor = p.anchor, q.absent = p.absent, q.ineligible = p.ineligible,
           q.sources = Append(p.sources, found)
    PROVE  Foreseen(q)
<1> DEFINE s == p.sources
           t == q.sources
           n == Len(p.sources)
<1>1. /\ n \in Nat /\ Len(t) = n + 1 /\ t[n + 1] = found
      /\ \A k \in 1..n : t[k] = s[k] /\ s[k] \in Range(s)
  BY AppendSeq
<1>2. \A k \in 1..Len(t) : k \in 1..n \/ k = n + 1
  BY <1>1
<1>3. \A k \in 1..n : Before(t, k) = Before(s, k)
  <2>1. SUFFICES ASSUME NEW k \in 1..n PROVE Before(t, k) = Before(s, k)
    OBVIOUS
  <2>2. \A i \in 1..(k - 1) : t[i] = s[i]
    BY <1>1
  <2>3. QED
    BY <2>2 DEF Before
<1>4. Before(t, n + 1) = s
  <2>1. s = [i \in 1..n |-> s[i]]
    OBVIOUS
  <2>2. n + 1 - 1 = n
    BY <1>1
  <2>3. Before(t, n + 1) = [i \in 1..n |-> t[i]]
    BY <2>2 DEF Before
  <2>4. QED
    BY <1>1, <2>1, <2>3
<1>5. \A k \in 1..n :
        /\ OpenSource(fs, home, s[k].path).reason = "none"
        /\ s[k] = SourceFile(fs, s[k].path, OpenSource(fs, home, s[k].path))
        /\ TotalBytes(Before(s, k)) + s[k].meta.size <= TotalLimit
  BY DEF Foreseen
<1>6. \A k, l \in 1..n : k < l => Rank[s[k].path] < Rank[s[l].path] /\ s[k].meta.ino # s[l].meta.ino
  BY DEF Foreseen
<1>7. \A k \in 1..n : Rank[s[k].path] < Rank[path] /\ s[k].meta.ino # found.meta.ino
  BY <1>1
<1>8. /\ p.anchor = home /\ fs[home].safe
      /\ \A x \in p.absent : x \in Presets /\ OpenSource(fs, home, x).reason = "missing"
      /\ \A x \in p.ineligible :
           /\ x = <<x[1], x[2]>> /\ x[1] \in Presets
           /\ OpenSource(fs, home, x[1]).reason = x[2] /\ x[2] \notin {"none", "missing"}
  BY DEF Foreseen
<1>9. ASSUME NEW k \in 1..Len(t)
      PROVE  /\ OpenSource(fs, home, t[k].path).reason = "none"
             /\ t[k] = SourceFile(fs, t[k].path, OpenSource(fs, home, t[k].path))
             /\ TotalBytes(Before(t, k)) + t[k].meta.size <= TotalLimit
  <2>1. CASE k \in 1..n
    BY <1>1, <1>3, <1>5, <2>1
  <2>2. CASE k = n + 1
    BY <1>1, <1>4, <2>2
  <2>3. QED
    BY <1>2, <2>1, <2>2
<1>10. ASSUME NEW k \in 1..Len(t), NEW l \in 1..Len(t), k < l
       PROVE  Rank[t[k].path] < Rank[t[l].path] /\ t[k].meta.ino # t[l].meta.ino
  <2>1. k \in 1..n
    BY <1>1, <1>10
  <2>2. CASE l \in 1..n
    BY <1>1, <1>6, <1>10, <2>1, <2>2
  <2>3. CASE l = n + 1
    BY <1>1, <1>7, <2>1, <2>3
  <2>4. QED
    BY <1>2, <2>2, <2>3
<1>11. QED
  BY <1>8, <1>9, <1>10 DEF Foreseen

(* A candidate that is planned                                             *)
LEMMA PlanKeeps ==
    ASSUME ForkInv, pc = "open", todo # {}, UNCHANGED source,
           NEW path, path = Candidate, NEW opened, opened = OpenSource(fs, plan.anchor, path), opened.reason = "none",
           NEW found, found = SourceFile(fs, path, opened),
           \A s \in Range(plan.sources) : s.meta.ino # opened.ino,
           TotalBytes(plan.sources) + found.meta.size <= TotalLimit,
           plan' = [plan EXCEPT !.sources = Append(@, found)],
           shown' = IF phase = "preview" THEN With(shown, path, fs[opened.ino].data) ELSE shown,
           todo' = todo \ {path},
           UNCHANGED <<phase, pc, request, confirmed, got, staged, space, rival>>
    PROVE  ForkInv'
<1>1. /\ phase' = phase /\ pc' = pc /\ request' = request /\ confirmed' = confirmed
      /\ staged' = staged /\ space' = space /\ rival' = rival /\ writes' = writes /\ fs' = fs /\ home' = home
  BY DEF source
<1>2. path \in todo /\ path \in DOMAIN Rank /\ \A q \in todo : Rank[path] <= Rank[q]
  BY CandidateIsLeast DEF ForkInv, ForkControl
<1>3. found.path = path /\ found.meta.ino = opened.ino /\ found.meta.stamp = fs[opened.ino].stamp
  BY DEF SourceFile, Metadata
<1>4. opened.ino \in DOMAIN fs
  BY OpenedExists
<1>5. PlanShape(plan)
  BY DEF ForkInv, ForkControl
<1>6. /\ plan'.anchor = plan.anchor /\ plan'.absent = plan.absent /\ plan'.ineligible = plan.ineligible
      /\ plan'.replace = plan.replace /\ plan'.sources = Append(plan.sources, found)
      /\ plan' = [anchor |-> plan.anchor, sources |-> Append(plan.sources, found), absent |-> plan.absent,
                  ineligible |-> plan.ineligible, replace |-> plan.replace]
  BY <1>5 DEF PlanShape
<1>7. PICK t : t = plan'.sources
  OBVIOUS
<1>8. /\ t \in Seq(Range(t)) /\ Range(t) = Range(plan.sources) \cup {found}
      /\ Len(plan.sources) \in Nat /\ Len(t) = Len(plan.sources) + 1 /\ t[Len(plan.sources) + 1] = found
      /\ \A k \in 1..Len(plan.sources) : t[k] = plan.sources[k]
  <2>1. plan.sources \in Seq(Range(plan.sources)) /\ t = Append(plan.sources, found)
    BY <1>5, <1>6, <1>7 DEF PlanShape
  <2>2. PICK s : s = plan.sources
    OBVIOUS
  <2>3. s \in Seq(Range(s)) /\ t = Append(s, found)
    BY <2>1, <2>2
  <2>4. \A y : y \in Range(t) <=> y \in Range(s) \/ y = found
    BY <2>3, AppendSeq
  <2>5. /\ t \in Seq(Range(t))
        /\ Len(s) \in Nat /\ Len(t) = Len(s) + 1 /\ t[Len(t)] = found
    <3>1. t \in Seq(Range(t))
      BY <2>3, AppendSeq
    <3>2. Len(s) \in Nat /\ Len(t) = Len(s) + 1 /\ t[Len(t)] = found
      BY <2>3, AppendSeq
    <3>3. QED
      BY <3>1, <3>2
  <2>6. \A k \in 1..Len(s) : t[k] = s[k]
    BY <2>3, AppendSeq
  <2>7. QED
    BY <2>2, <2>4, <2>5, <2>6
<1>9. PlanShape(plan)'
  <2>1. plan' = [anchor |-> plan'.anchor, sources |-> plan'.sources, absent |-> plan'.absent,
                 ineligible |-> plan'.ineligible, replace |-> plan'.replace]
    BY <1>6
  <2>2. \A s \in Range(t) : s.path \in DOMAIN Rank
    BY <1>2, <1>3, <1>5, <1>8 DEF PlanShape
  <2>3. QED
    BY <1>7, <1>8, <2>1, <2>2 DEF PlanShape
<1>10. HostKept'
  BY HostFrame DEF ForkInv
<1>11. ForkControl'
  BY <1>1, <1>6, <1>9 DEF ForkInv, ForkControl, Copying
<1>12. ForkRecorded'
  <2>1. CASE phase = "preview"
    <3>1. /\ ShownOf(plan.sources) /\ \A p \in DOMAIN shown : shown[p] \in Seq(STRING) /\ p \notin todo
          /\ \A p \in DOMAIN shown : \E s \in Range(plan.sources) : s.path = p
      BY <2>1 DEF ForkInv, ForkRecorded
    <3>2. /\ DOMAIN shown' = DOMAIN shown \cup {path} /\ shown'[path] = fs[opened.ino].data
          /\ \A p \in DOMAIN shown : p # path /\ shown'[p] = shown[p]
      BY <1>2, <2>1, <3>1 DEF With
    <3>3. ShownOf(plan.sources)'
      <4>1. SUFFICES ASSUME NEW s \in Range(t)
                     PROVE  /\ s.path \in DOMAIN shown' /\ s.meta.ino \in DOMAIN fs
                            /\ s.meta.stamp \in Nat /\ s.meta.stamp <= writes
                            /\ fs[s.meta.ino].stamp = s.meta.stamp => fs[s.meta.ino].data = shown'[s.path]
        BY <1>1, <1>7, <4>1 DEF ShownOf
      <4>2. CASE s \in Range(plan.sources)
        BY <3>1, <3>2, <4>2 DEF ShownOf
      <4>3. CASE s = found
        BY <1>3, <1>4, <3>2, <4>3 DEF ForkInv, HostKept
      <4>4. QED
        BY <1>8, <4>2, <4>3
    <3>4. \A p \in DOMAIN shown' : shown'[p] \in Seq(STRING)
      BY <1>4, <3>1, <3>2 DEF ForkInv, HostKept
    <3>5. \A p \in DOMAIN shown' : p \notin todo' /\ \E s \in Range(t) : s.path = p
      <4>1. SUFFICES ASSUME NEW p \in DOMAIN shown' PROVE p \notin todo' /\ \E s \in Range(t) : s.path = p
        OBVIOUS
      <4>2. CASE p = path
        BY <1>3, <1>8, <4>2
      <4>3. CASE p \in DOMAIN shown
        BY <1>8, <3>1, <4>3
      <4>4. QED
        BY <3>2, <4>2, <4>3
    <3>6. QED
      BY <1>1, <1>7, <2>1, <3>3, <3>4, <3>5 DEF ForkRecorded
  <2>2. CASE phase # "preview"
    BY <1>1, <2>2, ShownFrame DEF ForkInv, ForkRecorded
  <2>3. QED
    BY <2>1, <2>2
<1>13. ForkStaged'
  BY <1>1 DEF ForkInv, ForkControl, ForkStaged
<1>14. ASSUME writes = 0, phase = "preview"
       PROVE  Foreseen(plan)' /\ \A k \in 1..Len(t), q \in todo' : Rank[t[k].path] < Rank[q]
  <2>1. /\ Foreseen(plan) /\ plan.anchor = home
        /\ \A k \in 1..Len(plan.sources), q \in todo : Rank[plan.sources[k].path] < Rank[q]
    BY <1>14 DEF ForkInv, ForkQuiet, Foreseen
  <2>2. PICK q : q = plan'
    OBVIOUS
  <2>3. plan.sources \in Seq(Range(plan.sources))
    BY <1>5 DEF PlanShape
  <2>4. Foreseen(q)
    <3>1. /\ opened = OpenSource(fs, home, path) /\ opened.reason = "none" /\ found.path = path
          /\ \A s \in Range(plan.sources) : s.meta.ino # found.meta.ino
          /\ \A k \in 1..Len(plan.sources) : Rank[plan.sources[k].path] < Rank[path]
      BY <1>2, <1>3, <2>1
    <3>2. /\ q.anchor = plan.anchor /\ q.absent = plan.absent /\ q.ineligible = plan.ineligible
          /\ q.sources = Append(plan.sources, found)
      BY <1>6, <2>2
    <3>3. QED
      BY <2>1, <2>3, <3>1, <3>2, ForeseenGrows
  <2>5. Foreseen(plan)'
    BY <1>1, <2>2, <2>4 DEF Foreseen
  <2>6. ASSUME NEW k \in 1..Len(t), NEW r \in todo' PROVE Rank[t[k].path] < Rank[r]
    <3>1. r \in todo /\ r # path /\ r \in DOMAIN Rank
      BY DEF ForkInv, ForkControl
    <3>2. CASE k \in 1..Len(plan.sources)
      BY <1>8, <2>1, <3>1, <3>2
    <3>3. CASE k = Len(plan.sources) + 1
      BY <1>2, <1>3, <1>8, <3>1, <3>3, HostForkAssumption
    <3>4. QED
      BY <1>8, <3>2, <3>3
  <2>7. QED
    BY <2>5, <2>6
<1>15. ASSUME writes = 0, phase = "execute", Presets \cup request.explicit = AllPaths(confirmed) PROVE Following'
  <2>1. Following /\ Foreseen(confirmed) /\ plan.anchor = home
    BY <1>15 DEF ForkInv, ForkQuiet, Following
  <2> DEFINE C == confirmed.sources
             n == Len(plan.sources)
  <2>2. n + 1 \in 1..Len(C) /\ C[n + 1] = found
    BY <2>1, NextSource DEF ForkInv
  <2>3. C \in Seq(Range(C)) /\ Len(C) \in Nat /\ \A k \in 1..Len(C) : C[k].path \in DOMAIN Rank
    <3>1. C \in Seq(Range(C)) /\ \A s \in Range(C) : s.path \in DOMAIN Rank
      BY DEF ForkInv, ForkControl, PlanShape
    <3>2. \A k \in 1..Len(C) : C[k] \in Range(C)
      BY <3>1
    <3>3. QED
      BY <3>1, <3>2
  <2>4. ASSUME NEW k \in 1..Len(C) PROVE k > Len(t) <=> C[k].path \in todo'
    <3>1. k > n <=> C[k].path \in todo
      BY <2>1 DEF Following
    <3>2. k # n + 1 => C[k].path # path
      <4>1. SUFFICES ASSUME k # n + 1, C[k].path = path PROVE FALSE
        OBVIOUS
      <4>2. C[n + 1].path = path
        BY <1>3, <2>2
      <4>3. Rank[path] \in Nat
        BY <1>2, HostForkAssumption
      <4>4. k < n + 1 \/ n + 1 < k
        BY <1>8, <4>1
      <4>5. QED
        BY <2>1, <2>2, <4>1, <4>2, <4>3, <4>4 DEF Foreseen
    <3>3. CASE k = n + 1
      BY <1>3, <1>8, <2>2, <3>3
    <3>4. CASE k # n + 1
      BY <1>8, <3>1, <3>2, <3>4
    <3>5. QED
      BY <3>3, <3>4
  <2>5. \A k \in 1..Len(t) : t[k] = C[k]
    <3>1. SUFFICES ASSUME NEW k \in 1..Len(t) PROVE t[k] = C[k]
      OBVIOUS
    <3>2. CASE k \in 1..n
      BY <1>8, <2>1, <3>2 DEF Following
    <3>3. CASE k = n + 1
      BY <1>8, <2>2, <3>3
    <3>4. QED
      BY <1>8, <3>2, <3>3
  <2>6. path \in AllPaths(confirmed) /\ todo \subseteq AllPaths(confirmed)
    BY <1>2, <2>1 DEF Following
  <2>7. path \notin confirmed.absent /\ \A x \in confirmed.ineligible : x[1] # path
    <3>1. OpenSource(fs, home, path).reason = "none"
      BY <2>1
    <3>2. QED
      BY <2>1, <2>6, <3>1, ForeseenReason DEF ForkInv
  <2>8. /\ plan'.absent = {q \in confirmed.absent : q \notin todo'}
        /\ plan'.ineligible = {x \in confirmed.ineligible : x[1] \notin todo'}
    <3>1. /\ plan.absent = {q \in confirmed.absent : q \notin todo}
          /\ plan.ineligible = {x \in confirmed.ineligible : x[1] \notin todo}
      BY <2>1 DEF Following
    <3>2. QED
      BY <1>6, <2>7, <3>1
  <2>9. AllPaths(confirmed)' = AllPaths(confirmed) /\ Len(t) <= Len(C)
    BY <1>1, <1>8, <2>2, <2>3 DEF AllPaths
  <2>10. QED
    BY <1>1, <1>6, <1>7, <2>1, <2>4, <2>5, <2>6, <2>8, <2>9 DEF Following
<1>16. ForkQuiet'
  <2>1. PreviewPredicts'
    BY <1>1 DEF PreviewPredicts
  <2>2. AllPaths(confirmed)' = AllPaths(confirmed)
    BY <1>1 DEF AllPaths
  <2>3. QED
    BY <1>1, <1>7, <1>14, <1>15, <2>1, <2>2, ForeseenFrame DEF ForkInv, ForkQuiet
<1>17. QED
  BY <1>10, <1>11, <1>12, <1>13, <1>16 DEF ForkInv

LEMMA OpenCandidateKeeps == ASSUME ForkInv, OpenCandidate PROVE ForkInv'
<1>1. pc = "open" /\ todo # {} /\ UNCHANGED source
  BY DEF OpenCandidate
<1>2. PICK path : path = Candidate
  OBVIOUS
<1>3. PICK opened : opened = OpenSource(fs, plan.anchor, path)
  OBVIOUS
<1>4. PICK found : found = SourceFile(fs, path, opened)
  OBVIOUS
<1> DEFINE fits == /\ \A s \in Range(plan.sources) : s.meta.ino # opened.ino
                   /\ TotalBytes(plan.sources) + found.meta.size <= TotalLimit
<1>5. \/ opened.reason # "none" /\ path \in request.explicit /\ Refuse
      \/ /\ opened.reason # "none" /\ path \notin request.explicit
         /\ plan' = IF opened.reason = "missing" THEN [plan EXCEPT !.absent = @ \cup {path}]
                    ELSE [plan EXCEPT !.ineligible = @ \cup {<<path, opened.reason>>}]
         /\ todo' = todo \ {path}
         /\ UNCHANGED <<phase, pc, request, confirmed, shown, got, staged, space, rival>>
      \/ opened.reason = "none" /\ ~fits /\ Refuse
      \/ /\ opened.reason = "none" /\ fits
         /\ plan' = [plan EXCEPT !.sources = Append(@, found)]
         /\ shown' = IF phase = "preview" THEN With(shown, path, fs[opened.ino].data) ELSE shown
         /\ todo' = todo \ {path}
         /\ UNCHANGED <<phase, pc, request, confirmed, got, staged, space, rival>>
  BY <1>2, <1>3, <1>4 DEF OpenCandidate
<1>6. path \in todo /\ found.meta.ino = opened.ino
  BY <1>1, <1>2, <1>4, CandidateIsLeast DEF ForkInv, ForkControl, SourceFile, Metadata
<1>7. ASSUME writes = 0, phase = "execute", ~Excused
      PROVE  /\ Following /\ Foreseen(confirmed) /\ opened = OpenSource(fs, home, path)
             /\ path \in AllPaths(confirmed)
  <2>1. Following /\ Foreseen(confirmed)
    BY <1>1, <1>7 DEF ForkInv, ForkQuiet, Excused
  <2>2. QED
    BY <1>3, <1>6, <2>1 DEF Following
<1>8. CASE opened.reason # "none" /\ path \in request.explicit /\ Refuse
  <2>1. ASSUME writes = 0, phase = "execute", ~Excused PROVE FALSE
    <3>1. path \notin Confirmed /\ path \in Presets
      BY <1>7, <1>8, <2>1, ForeseenReason DEF ForkInv
    <3>2. QED
      BY <1>8, <2>1, <3>1 DEF Excused
  <2>2. QED
    BY <1>1, <1>8, <2>1, RefuseKeeps
<1>9. CASE opened.reason = "none" /\ ~fits /\ Refuse
  <2>1. ASSUME writes = 0, phase = "execute", ~Excused PROVE FALSE
    <3>1. Following /\ Foreseen(confirmed) /\ OpenSource(fs, home, Candidate).reason = "none"
          /\ found = SourceFile(fs, Candidate, OpenSource(fs, home, Candidate))
      BY <1>2, <1>4, <1>7, <1>9, <2>1
    <3>2. /\ \A s \in Range(plan.sources) : s.meta.ino # found.meta.ino
          /\ TotalBytes(plan.sources) + found.meta.size <= TotalLimit
      BY <1>1, <3>1, NextSource DEF ForkInv
    <3>3. QED
      BY <1>6, <1>9, <3>2
  <2>2. QED
    BY <1>1, <1>9, <2>1, RefuseKeeps
<1>10. CASE /\ opened.reason # "none" /\ path \notin request.explicit
            /\ plan' = IF opened.reason = "missing" THEN [plan EXCEPT !.absent = @ \cup {path}]
                       ELSE [plan EXCEPT !.ineligible = @ \cup {<<path, opened.reason>>}]
            /\ todo' = todo \ {path}
            /\ UNCHANGED <<phase, pc, request, confirmed, shown, got, staged, space, rival>>
  <2>1. PICK reason : reason = opened.reason
    OBVIOUS
  <2>2. /\ reason = OpenSource(fs, plan.anchor, path).reason /\ reason # "none" /\ path \notin request.explicit
        /\ plan' = IF reason = "missing" THEN [plan EXCEPT !.absent = @ \cup {path}]
                   ELSE [plan EXCEPT !.ineligible = @ \cup {<<path, reason>>}]
    BY <1>3, <1>10, <2>1
  <2>3. QED
    BY <1>1, <1>2, <1>10, <2>2, SkipKeeps
<1>11. CASE /\ opened.reason = "none" /\ fits
            /\ plan' = [plan EXCEPT !.sources = Append(@, found)]
            /\ shown' = IF phase = "preview" THEN With(shown, path, fs[opened.ino].data) ELSE shown
            /\ todo' = todo \ {path}
            /\ UNCHANGED <<phase, pc, request, confirmed, got, staged, space, rival>>
  BY <1>1, <1>2, <1>3, <1>4, <1>11, PlanKeeps
<1>12. QED
  BY <1>5, <1>8, <1>9, <1>10, <1>11

LEMMA ForkStays == ASSUME ForkInv, UNCHANGED vars PROVE ForkInv'
<1>1. /\ phase' = phase /\ pc' = pc /\ request' = request /\ todo' = todo /\ plan' = plan /\ confirmed' = confirmed
      /\ shown' = shown /\ got' = got /\ staged' = staged /\ space' = space /\ rival' = rival
      /\ UNCHANGED source /\ writes' = writes /\ fs' = fs /\ home' = home
  BY DEF vars, source
<1>2. HostKept'
  BY <1>1, HostFrame DEF ForkInv
<1>3. Confirmed' = Confirmed /\ AllPaths(confirmed)' = AllPaths(confirmed)
  BY <1>1 DEF Confirmed, AllPaths
<1>4. ForkControl'
  BY <1>1, <1>3 DEF ForkInv, ForkControl, PlanShape
<1>5. ForkRecorded'
  BY <1>1, ShownFrame, ShownPlanFrame DEF ForkInv, ForkRecorded
<1>6. ForkStaged'
  <2>1. /\ Candidate' = Candidate /\ Planned' = Planned /\ Descriptor' = Descriptor /\ Complete' = Complete
    BY <1>1 DEF Confirmed, Candidate, Planned, Descriptor, Complete, Contents
  <2>2. \A p : Contents(p)' = Contents(p) /\ (Approved(p)' <=> Approved(p))
    BY <1>1 DEF Contents, Approved
  <2>3. Approved(Candidate)' <=> Approved(Candidate)
    BY <1>1, <2>1 DEF Approved
  <2>4. QED
    BY <1>1, <1>3, <2>1, <2>2, <2>3 DEF ForkInv, ForkStaged
<1>7. ForkQuiet'
  <2>1. Foreseen(plan)' <=> Foreseen(plan)
    BY <1>1 DEF Foreseen
  <2>2. Following' <=> Following
    BY <1>1, <1>3 DEF Following
  <2>3. PreviewPredicts' <=> PreviewPredicts
    BY <1>1, <1>3 DEF PreviewPredicts
  <2>4. QED
    BY <1>1, <1>3, <2>1, <2>2, <2>3, ForeseenFrame DEF ForkInv, ForkQuiet
<1>8. QED
  BY <1>2, <1>4, <1>5, <1>6, <1>7 DEF ForkInv

LEMMA ForkNextKeeps == ForkInv /\ [Next]_vars => ForkInv'
<1> SUFFICES ASSUME ForkInv, [Next]_vars PROVE ForkInv'
  OBVIOUS
<1>1. CASE Fork
  BY <1>1, BeginKeeps, OpenCandidateKeeps, ConfirmKeeps, StageKeeps, StartCopyKeeps, ReadBlockKeeps,
     FinishCopyKeeps, VerifyAnchorKeeps, VerifySourceKeeps, PublishKeeps, ReportFailureKeeps, CallFailsKeeps, RetryKeeps DEF Fork
<1>2. CASE WriteFile \/ Relink \/ Rename \/ MoveHome \/ CreateRival
  BY <1>2, OthersKeep
<1>3. CASE Ended \/ UNCHANGED vars
  BY <1>3, ForkStays DEF Ended
<1>4. QED
  BY <1>1, <1>2, <1>3 DEF Next

LEMMA CreateInitFork == CreateInit => ForkInv
<1> SUFFICES ASSUME CreateInit PROVE ForkInv
  OBVIOUS
<1>1. /\ request \in Requests /\ fs \in Hosts /\ home = HomeIno /\ phase = "preview" /\ writes = 0
      /\ todo = {} /\ plan = NoPlan /\ confirmed = NoPlan /\ shown = Nothing /\ staged = Nothing /\ space = Nothing
      /\ (rival = FALSE /\ pc = "begin") \/ (rival = TRUE /\ pc = "refused")
  BY DEF CreateInit
<1>2. Range(<<>>) = {} /\ <<>> \in Seq({}) /\ DOMAIN <<>> = {}
  BY DEF Range
<1>3. HostKept
  <2>1. /\ fs = [i \in DOMAIN fs |-> fs[i]] /\ HomeIno \in DOMAIN fs /\ Spare \subseteq DOMAIN fs
        /\ \A i \in DOMAIN fs :
             /\ fs[i] = [kind |-> fs[i].kind, safe |-> fs[i].safe, entries |-> fs[i].entries,
                         data |-> fs[i].data, stamp |-> 0]
             /\ fs[i].data \in Seq(STRING)
    BY <1>1, HostForkAssumption
  <2>2. \A i \in DOMAIN fs : fs[i].stamp = 0
    BY <2>1
  <2>3. QED
    BY <1>1, <2>1, <2>2 DEF HostKept, NodeShape
<1>4. PlanShape(plan) /\ PlanShape(confirmed) /\ plan.sources = <<>>
  BY <1>1, <1>2 DEF PlanShape, NoPlan
<1>5. ForkControl
  BY <1>1, <1>4 DEF ForkControl, Copying
<1>6. ForkRecorded
  BY <1>1, <1>2, <1>4 DEF ForkRecorded, ShownOf, Nothing
<1>7. ForkStaged
  BY <1>1 DEF ForkStaged
<1>8. ForkQuiet
  BY <1>1 DEF ForkQuiet, PreviewPredicts
<1>9. QED
  BY <1>3, <1>5, <1>6, <1>7, <1>8 DEF ForkInv

LEMMA ForkInvSound == ForkInv => ForkSound
<1> SUFFICES ASSUME ForkInv PROVE ForkSound
  OBVIOUS
<1>1. TypeOK
  BY ConfirmedSource DEF ForkInv, ForkControl, HostKept, TypeOK, Copying
<1>2. ConfirmedContents
  BY DEF ForkInv, ForkStaged, Complete, Contents, ConfirmedContents
<1>3. ReplacementConfirmed
  <2>1. CASE space = Nothing
    BY <2>1 DEF Nothing, ReplacementConfirmed
  <2>2. CASE space # Nothing
    <3>1. space = Complete /\ \A p \in Confirmed : Approved(p)
      BY <2>2 DEF ForkInv, ForkStaged
    <3>2. \A p \in Generated : p \notin Confirmed => space[p] = <<"generated">>
      BY <3>1 DEF Complete
    <3>3. QED
      BY <3>1, <3>2 DEF Approved, ReplacementConfirmed
  <2>3. QED
    BY <2>1, <2>2
<1>4. PreviewPredicts
  BY DEF ForkInv, ForkQuiet, PreviewPredicts
<1>5. QED
  BY <1>1, <1>2, <1>3, <1>4 DEF ForkSound

(* Every step of the creation is a step of the fork or leaves it be.       *)
LEMMA CreateStepIsForkStep == [CreateNext]_createVars => [Next]_vars
BY DEF CreateNext, createVars, ForkStep, InstallCommands, RemoveCommands, CommandsStep, CommandsDisturbed

(* The inductive invariant of the fork within the creation                 *)
THEOREM ForkInductive == CreateSpec => []ForkInv
BY CreateInitFork, ForkNextKeeps, CreateStepIsForkStep, PTL DEF CreateSpec

(* Whatever other processes write to the host's home, and whenever, a      *)
(* space that create_from_host publishes holds at the confirmed paths and  *)
(* nowhere else the bytes the preview looked at; a generated file gives    *)
(* way only where that was confirmed; and on a host nobody writes to, the  *)
(* confirmed plan is executed as it was shown.                             *)
THEOREM CreateForkSound == CreateSpec => []ForkSound
BY ForkInductive, ForkInvSound, PTL

===============================================================================
