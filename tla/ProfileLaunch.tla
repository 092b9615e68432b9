---------------------------- MODULE ProfileLaunch ----------------------------
(***************************************************************************)
(* The environment of launched processes and the private runtime           *)
(* directories (environment.rs, platform/mod.rs, cli process.rs), composed *)
(* with the launch itself (Confinement).                                   *)
(*                                                                         *)
(* A login shell launches a command in a space, that command launches      *)
(* another one, `quarters host` leads back, and so on: the processes form  *)
(* a stack, since each waits for the one it started.  All a process knows  *)
(* of the ones below is its environment.  A launch of the space Main may   *)
(* take a home view or confinement; its steps are those of Confinement.    *)
(***************************************************************************)
EXTENDS Confinement

CONSTANTS
    Spaces,
    Main,           \* the space whose home is SpaceHome
    HomeOf,         \* homes of the spaces
    RuntimeName,    \* names of a space's runtime directory by kind of key
    Tmp,            \* where runtimes are kept without XDG_RUNTIME_DIR
    Scenarios       \* [launch, login, runtimes, identity, nesting] to be considered

Kinds == {"id", "legacy", "preAlpha4", "published"}

ASSUME ProfileAssumption ==
    /\ Main \in Spaces
    /\ HomeOf \in [Spaces -> Seq(STRING)] /\ HomeOf[Main] = SpaceHome
    /\ RuntimeName \in [Spaces -> [Kinds -> STRING]]
    /\ \A c \in Scenarios : c.nesting \in Nat /\ c.launch \in Launches

VARIABLES
    login,      \* the environment of the login shell
    stack,      \* processes: [space, env, asked]; space is None outside of spaces
    runtimes,   \* the private runtime directories there are
    identity,   \* "id" or "legacy" of each space, or "gone"
    agents,     \* the runtimes in which agents of each space run
    nesting     \* bound on the processes above the login shell; at 0 only LaunchMain happens

profileVars == <<login, stack, runtimes, identity, agents, nesting>>
confinementVars == vars
allVars == <<profileVars, confinementVars>>

-----------------------------------------------------------------------------
(***************************************************************************)
(* Environments.  CARGO_HOME stands for the variables that are redirected  *)
(* into the home, TERM for those that are safe to inherit, TOKEN for all   *)
(* the others.                                                             *)
(***************************************************************************)
Backup == [HOME |-> "QUARTERS_HOST_HOME", PATH |-> "QUARTERS_HOST_PATH",
           TMPDIR |-> "QUARTERS_HOST_TMPDIR", XDG_RUNTIME_DIR |-> "QUARTERS_HOST_XDG_RUNTIME_DIR"]
Saved == DOMAIN Backup
Redirected == {"CARGO_HOME", "SSH_AUTH_SOCK", "TMPDIR", "XDG_RUNTIME_DIR"}
Quarter == {Backup[v] : v \in Saved}
           \cup {"QUARTERS_SPACE", "QUARTERS_CONFINEMENT", "QUARTERS_NO_HOST_ESCAPE"}
Variables == Saved \cup Redirected \cup Quarter \cup {"TERM", "TOKEN"}

(* safe_to_inherit                                                         *)
Safe == {"PATH", "TERM"}

TopProcess == Last(stack)
Restricted(env) == env.QUARTERS_NO_HOST_ESCAPE # None

(* Mutant: the runtime of the process that launches is taken.              *)
OriginalRuntimeOfLauncher(env) == env.XDG_RUNTIME_DIR

(* HostEnvironment::original_xdg_runtime                                   *)
OriginalRuntime(env) ==
    IF env.QUARTERS_HOST_XDG_RUNTIME_DIR # None THEN env.QUARTERS_HOST_XDG_RUNTIME_DIR
    ELSE IF env.QUARTERS_SPACE = None THEN env.XDG_RUNTIME_DIR ELSE None

(* platform_runtime_base: never in a home                                  *)
RuntimeBase(env) ==
    LET runtime == OriginalRuntime(env)
    IN IF /\ runtime # None
          /\ ~IsPrefix(HostHome, runtime)
          /\ env.HOME # None => ~IsPrefix(env.HOME, runtime)
       THEN runtime ELSE Tmp

RuntimePath(env, s, kind) == Append(RuntimeBase(env), RuntimeName[s][kind])

(* runtime_identity, legacy_runtime_fallbacks                              *)
RuntimeOf(env, s) == RuntimePath(env, s, identity[s])
FallbackKinds(kind) ==
    (IF kind = "id" THEN {"legacy"} ELSE {}) \cup {"preAlpha4", "published"}
Fallbacks(env, s) == {RuntimePath(env, s, k) : k \in FallbackKinds(identity[s])} \cap runtimes

(* migrate_existing_legacy_runtime: one directory of an older release is   *)
(* renamed; of two neither is chosen.                                      *)
MigrationClear(env, s) ==
    \/ Fallbacks(env, s) = {}
    \/ Cardinality(Fallbacks(env, s)) = 1 /\ RuntimeOf(env, s) \notin runtimes

Migrated(env, s) ==
    IF Fallbacks(env, s) = {} THEN runtimes
    ELSE (runtimes \ Fallbacks(env, s)) \cup {RuntimeOf(env, s)}

(* existing_runtime_directory: there may be one at most                    *)
ExistingRuntimes(env, s) == ({RuntimeOf(env, s)} \cap runtimes) \cup Fallbacks(env, s)

(* agent::active_socket                                                    *)
ActiveSocket(env, s) ==
    IF RuntimeOf(env, s) \in agents[s] THEN RuntimeOf(env, s) ELSE None

(* Mutant: the value of the process that launches is saved.                *)
PreservedFromLauncher(env, v) == env[v]

(* preserve_host_value: a value saved before is passed on.                 *)
Preserved(env, v) == IF env[Backup[v]] # None THEN env[Backup[v]] ELSE env[v]

(* EnvironmentPlan::for_space                                              *)
ProfileEnvironment(env, s, home, asked) ==
    LET runtime == RuntimeOf(env, s)
    IN [v \in Variables |->
          CASE v = "HOME" -> home
            [] v = "PATH" -> <<home>> \o env.PATH
            [] v = "XDG_RUNTIME_DIR" -> runtime
            [] v = "TMPDIR" -> Append(runtime, "tmp")
            [] v = "CARGO_HOME" -> Append(home, ".cargo")
            [] v = "SSH_AUTH_SOCK" -> ActiveSocket(env, s)
            [] v = "QUARTERS_SPACE" -> s
            [] v \in {Backup[w] : w \in Saved} ->
                 Preserved(env, CHOOSE w \in Saved : Backup[w] = v)
            [] v \in Safe -> env[v]
            [] v = "TOKEN" /\ asked -> env.TOKEN
            [] OTHER -> None]

(* ... with a home view and after apply_filesystem_confinement             *)
RestrictedEnvironment(env, s, asked) ==
    LET base == ProfileEnvironment(env, s, EffectiveHome, asked)
        viewed == IF HomeView THEN [base EXCEPT !.QUARTERS_NO_HOST_ESCAPE = "home-view",
                                                !.PATH = <<Runtime>> \o @]
                  ELSE base
        context == IF HomeView THEN "home-view+filesystem" ELSE "filesystem"
    IN IF Confined THEN [viewed EXCEPT !.QUARTERS_NO_HOST_ESCAPE = context,
                                       !.QUARTERS_CONFINEMENT = "filesystem",
                                       !.QUARTERS_HOST_PATH = None,
                                       !.PATH = Search]
       ELSE viewed

(* host_command_environment                                                *)
EscapeEnvironment(env) ==
    [v \in Variables |->
        CASE v \in Saved -> env[Backup[v]]
          [] v \in (Redirected \cup Quarter) \ Saved -> None
          [] OTHER -> env[v]]

-----------------------------------------------------------------------------
(***************************************************************************)
(* Operations of the process on top                                        *)
(***************************************************************************)
(* home_view_management_guard                                              *)
Unrestricted == pc = "idle" /\ ~Restricted(TopProcess.env)
MayManage == Unrestricted /\ nesting > 0

(* acquire_lifecycle_lease: a space with a process is active.              *)
Inactive(s) == \A i \in DOMAIN stack : stack[i].space # s

(* runtime_directory                                                       *)
RuntimeReady(s) ==
    /\ identity[s] # "gone"
    /\ MigrationClear(TopProcess.env, s)
    /\ runtimes' = Migrated(TopProcess.env, s) \cup {RuntimeOf(TopProcess.env, s)}

(* --inherit of a variable that is unset is refused.                       *)
Inheritable(asked) == asked => TopProcess.env.TOKEN # None

(* ProfileLaunch::run without options                                      *)
Nest(s, asked) ==
    /\ MayManage
    /\ Len(stack) <= nesting
    /\ Inheritable(asked)
    /\ RuntimeReady(s)
    /\ stack' = Append(stack, [space |-> s, asked |-> asked,
                               env |-> ProfileEnvironment(TopProcess.env, s, HomeOf[s], asked)])
    /\ UNCHANGED <<login, identity, agents, nesting, confinementVars>>

(* run_host                                                                *)
Escape ==
    /\ MayManage
    /\ Len(stack) <= nesting
    /\ TopProcess.env.QUARTERS_SPACE # None
    /\ stack' = Append(stack, [space |-> None, asked |-> TopProcess.asked,
                               env |-> EscapeEnvironment(TopProcess.env)])
    /\ UNCHANGED <<login, runtimes, identity, agents, nesting, confinementVars>>

Exit ==
    /\ pc = "idle"
    /\ Len(stack) > 1
    /\ stack' = Front(stack)
    /\ UNCHANGED <<login, runtimes, identity, agents, nesting, confinementVars>>

(* upgrade_space: the identity changes whether or not the runtime follows. *)
Upgrade(s) ==
    /\ MayManage /\ Inactive(s)
    /\ identity[s] # "gone"
    /\ identity' = [identity EXCEPT ![s] = "id"]
    /\ LET env == TopProcess.env
           old == {RuntimePath(env, s, k) : k \in FallbackKinds("id")} \cap runtimes
       IN runtimes' = IF Cardinality(old) = 1 /\ RuntimePath(env, s, "id") \notin runtimes
                      THEN (runtimes \ old) \cup {RuntimePath(env, s, "id")}
                      ELSE runtimes
    /\ UNCHANGED <<login, stack, agents, nesting, confinementVars>>

(* agent start: spaces with an identity only                               *)
StartAgent(s) ==
    /\ MayManage
    /\ identity[s] = "id"
    /\ RuntimeReady(s)
    /\ agents' = [agents EXCEPT ![s] = @ \cup {RuntimeOf(TopProcess.env, s)}]
    /\ UNCHANGED <<login, stack, identity, nesting, confinementVars>>

(* agent stop                                                              *)
StopAgent(s) ==
    /\ MayManage
    /\ identity[s] = "id"
    /\ ActiveSocket(TopProcess.env, s) # None
    /\ agents' = [agents EXCEPT ![s] = @ \ {RuntimeOf(TopProcess.env, s)}]
    /\ UNCHANGED <<login, stack, runtimes, identity, nesting, confinementVars>>

(* remove: refused while an agent is found; then the runtime is removed if *)
(* there is only one.                                                      *)
RemoveSpace(s) ==
    LET env == TopProcess.env
        found == ExistingRuntimes(env, s)
    IN
    /\ MayManage /\ Inactive(s)
    /\ identity[s] # "gone"
    /\ Cardinality(found) <= 1
    /\ ActiveSocket(env, s) = None
    /\ identity' = [identity EXCEPT ![s] = "gone"]
    /\ runtimes' = runtimes \ found
    /\ UNCHANGED <<login, stack, agents, nesting, confinementVars>>

(* A launch of Main with the options of the request; the launcher has the  *)
(* runtime in its arguments.                                               *)
LaunchMain ==
    /\ Unrestricted
    /\ RuntimeReady(Main)
    /\ RuntimeOf(TopProcess.env, Main) = Runtime
    /\ stack' = Append(stack, [space |-> Main, asked |-> FALSE,
                               env |-> RestrictedEnvironment(TopProcess.env, Main, FALSE)])
    /\ Begin
    /\ UNCHANGED <<login, identity, agents, nesting>>

ManagementStep ==
    \/ \E s \in Spaces, asked \in BOOLEAN : Nest(s, asked)
    \/ Escape
    \/ Exit
    \/ \E s \in Spaces : Upgrade(s) \/ StartAgent(s) \/ StopAgent(s) \/ RemoveSpace(s)

ProfileNext ==
    \/ ManagementStep
    \/ LaunchMain
    \/ (Continue \/ Exchange \/ AddLink) /\ UNCHANGED profileVars

ProfileInit ==
    \E c \in Scenarios :
        /\ InitOf(c.launch)
        /\ login = c.login
        /\ stack = <<[space |-> None, asked |-> TRUE, env |-> c.login]>>
        /\ runtimes = c.runtimes
        /\ identity = c.identity
        /\ agents = [s \in Spaces |-> {}]
        /\ nesting = c.nesting

ProfileSpec == ProfileInit /\ [][ProfileNext]_allVars

-----------------------------------------------------------------------------
ProfileTypeOK ==
    /\ \A i \in DOMAIN stack :
          /\ DOMAIN stack[i].env = Variables
          /\ stack[i].space \in Spaces \cup {None}
          /\ stack[i].asked \in BOOLEAN
          /\ stack[i].space # None => stack[i].env.XDG_RUNTIME_DIR # None
    /\ Len(stack) \in 1..(nesting + 2)
    /\ runtimes \subseteq Path
    /\ identity \in [Spaces -> {"id", "legacy", "gone"}]
    /\ \A s \in Spaces : agents[s] \subseteq runtimes

(* No space was entered from within another one.                           *)
Shallow(i) == \A j \in 2..i : stack[j].space = None \/ stack[j - 1].space = None

(* host_command_environment and preserve_host_value: what `quarters host`  *)
(* starts, below any number of spaces, has the HOME and the PATH of the    *)
(* login shell, its TMPDIR and XDG_RUNTIME_DIR if it had them, and nothing *)
(* of a space; if it had none, this holds below spaces entered one at a    *)
(* time.                                                                   *)
EscapeRestores ==
    \A i \in 2..Len(stack) : stack[i].space = None =>
        /\ \A v \in Saved : login[v] # None \/ Shallow(i) => stack[i].env[v] = login[v]
        /\ \A v \in Quarter \cup {"CARGO_HOME", "SSH_AUTH_SOCK"} : stack[i].env[v] = None

(* for_space, safe_to_inherit: a credential of the login shell is in a     *)
(* process only if every launch below it asked for it, and a space has the *)
(* agent of its own runtime or none.                                       *)
CredentialsAsked ==
    \A i \in 2..Len(stack) :
        /\ stack[i].env.TOKEN # None => \A j \in 2..i : stack[j].asked
        /\ stack[i].space # None =>
              stack[i].env.SSH_AUTH_SOCK \in {None, stack[i].env.XDG_RUNTIME_DIR}

(* XDG_RUNTIME_DIR is set, and in no home but the account's.               *)
Settled ==
    /\ login.XDG_RUNTIME_DIR # None
    /\ IsPrefix(HostHome, login.XDG_RUNTIME_DIR) \/ ~IsPrefix(login.HOME, login.XDG_RUNTIME_DIR)

(* original_xdg_runtime, runtime_directory, remove_runtime_directory: from *)
(* however deep a space is launched, managed or removed, it has one        *)
(* runtime; its agent is found there and does not outlive it.              *)
OneRuntime ==
    Settled => \A s \in Spaces :
        /\ Cardinality(agents[s]) <= 1
        /\ \A i, j \in DOMAIN stack : stack[i].space = s /\ stack[j].space = s =>
              stack[i].env.XDG_RUNTIME_DIR = stack[j].env.XDG_RUNTIME_DIR
        /\ identity[s] = "gone" =>
              agents[s] = {} /\ \A r \in runtimes : Last(r) \notin {RuntimeName[s][k] : k \in Kinds}

(* apply_filesystem_confinement and linux_launch: where the environment of *)
(* a confined process says that its home and its runtime are, it may write *)
(* there, and it knows no way back to the host.                            *)
EnvironmentUsable ==
    pc = "launched" /\ Confined /\ changed = "no" =>
        /\ \A v \in {"HOME", "XDG_RUNTIME_DIR"} :
              LET place == Stat(TopProcess.env[v])
              IN place # NoPlace /\ Permits(place, "WriteFile")
        /\ Restricted(TopProcess.env)
        /\ TopProcess.env.QUARTERS_HOST_PATH = None

(* The environment, which is all a process knows, is right at every depth: *)
(* it leads back to the host, carries no credential that was not asked     *)
(* for, and names directories that can be used.                            *)
EnvironmentSound ==
    /\ ProfileTypeOK
    /\ EscapeRestores
    /\ CredentialsAsked
    /\ EnvironmentUsable

=============================================================================
