----------------------------- MODULE CreateFromHost -----------------------------
(***************************************************************************)
(* `quarters create --from-host` (app.rs, create): a fork of the host's    *)
(* home and then, in the published space, its managed commands; and the    *)
(* adapter commands on a space that was there before, whose name a fork is *)
(* refused.                                                                *)
(***************************************************************************)
EXTENDS HostFork, CommandLinks

createVars == <<vars, linkVars>>

(* A fork to a new name, or one that was refused since a space of that     *)
(* name exists, with anything among its commands                           *)
CreateInit ==
    /\ request \in Requests /\ fs \in Hosts /\ home = HomeIno /\ phase = "preview"
    /\ todo = {} /\ plan = NoPlan /\ confirmed = NoPlan /\ shown = Nothing
    /\ got = <<>> /\ staged = Nothing /\ space = Nothing /\ attempts = 0 /\ writes = 0
    /\ LinksInit
    /\ \/ /\ rival = FALSE /\ pc = "begin"
          /\ usable = Executables /\ ancestorsSafe
          /\ entry = [n \in ToSet(Names) |-> "absent"]
       \/ /\ rival = TRUE /\ pc = "refused"
          /\ fs = (CHOOSE h \in Hosts : TRUE) /\ request = (CHOOSE r \in Requests : ~r.nested)

(* The space whose commands these are: the older one, or the fork's        *)
Older == rival /\ writes = 0 /\ pc = "refused"
CommandsOf == Older \/ pc = "published"

ForkStep == op = NoCommand /\ disturbed = 0 /\ Next /\ UNCHANGED linkVars

(* install_created_commands after a fork, adapter install otherwise        *)
InstallCommands == CommandsOf /\ LinksBegin("install") /\ UNCHANGED vars
RemoveCommands == Older /\ LinksBegin("remove") /\ UNCHANGED vars
CommandsStep == (LinksCommand \/ SessionEnds) /\ UNCHANGED vars
CommandsDisturbed == CommandsOf /\ disturbed + writes < MaxDisturbed /\ LinksOthers /\ UNCHANGED vars

CreateNext == ForkStep \/ InstallCommands \/ RemoveCommands \/ CommandsStep \/ CommandsDisturbed

CreateSpec == CreateInit /\ [][CreateNext]_createVars

===============================================================================
