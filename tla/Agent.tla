-------------------------------- MODULE Agent --------------------------------
(***************************************************************************)
(* The private SSH agent of one space (agent/mod.rs, agent/startup.rs,     *)
(* agent/registry.rs, agent/process.rs): one ownership record, one socket  *)
(* path, the lifecycle lock that guards both, and the startup-owner lock   *)
(* that a starting invocation keeps while it waits for the agent without   *)
(* the lifecycle lock.                                                     *)
(*                                                                         *)
(* A client is one command line; when it is over the next one begins under *)
(* its name.  A process is launched once, so it stands for its PID with    *)
(* its start generation, for the token of its record and for the inode of  *)
(* the socket it binds.                                                    *)
(***************************************************************************)
CONSTANTS
    Starters,    \* agent start
    Stoppers,    \* agent stop
    Recoverers,  \* agent recover
    Procs,       \* launched processes
    TmpCleaner,  \* whether somebody else may delete the socket
    None

Clients == Starters \cup Stoppers \cup Recoverers

ASSUME AgentAssumption ==
    /\ Starters \cap Stoppers = {} /\ Starters \cap Recoverers = {}
    /\ Stoppers \cap Recoverers = {}
    /\ Clients \cap Procs = {}
    /\ TmpCleaner \in BOOLEAN
    /\ None \notin Clients \cup Procs

VARIABLES
    record,    \* ssh-agent.json
    socket,    \* the process that bound ssh-agent.sock
    proc,      \* what each process is
    parent,    \* the client that can reap it
    lock,      \* holder of the lifecycle lock
    owner,     \* holder of the startup-owner lock
    pc,
    at,        \* the process a client launched or observes
    attempt,   \* launches of a starter
    look,      \* what an observer saw without the lock
    saw        \* the socket a cleanup observed

clientVars == <<pc, at, attempt, look, saw>>
vars == <<record, socket, proc, parent, lock, owner, clientVars>>

Ownership == [state : {"starting", "active", "stopping", "failed"},
              proc : Procs, socket : Procs \cup {None}]
NoRecord == [state |-> "none", proc |-> None, socket |-> None]
Starting(p) == [state |-> "starting", proc |-> p, socket |-> None]
Activated(p) == [state |-> "active", proc |-> p, socket |-> p]

Failed(p) == [state |-> "failed", proc |-> p, socket |-> None]

NoLook == [observed |-> FALSE, alive |-> FALSE]

(* Types, and the shape that registry::validate requires of each state.    *)
TypeOK ==
    /\ record \in Ownership \cup {NoRecord}
    /\ record.state \in {"active", "stopping"} <=> record.socket # None
    /\ socket \in Procs \cup {None}
    /\ proc \in [Procs -> {"none", "helper", "owned", "agent", "zombie", "gone"}]
    /\ parent \in [Procs -> Starters \cup {None}]
    /\ lock \in Clients \cup {None}
    /\ owner \in Starters \cup {None}
    /\ pc \in [Clients -> {"idle", "spawn", "create", "await", "activate", "unlink",
                           "retry", "respawn", "replace", "fail", "timeout", "abort",
                           "cleanup", "kill", "sweep", "observe", "reconcile",
                           "pending", "finish", "wait", "forget"}]
    /\ at \in [Clients -> Procs \cup {None}]
    /\ attempt \in [Clients -> {0, 1, 2}]
    /\ look \in [Clients -> [observed : BOOLEAN, alive : BOOLEAN]]
    /\ saw \in [Clients -> Procs \cup {None}]

Init ==
    /\ record = NoRecord
    /\ socket = None
    /\ proc = [p \in Procs |-> "none"]
    /\ parent = [p \in Procs |-> None]
    /\ lock = None
    /\ owner = None
    /\ pc = [c \in Clients |-> "idle"]
    /\ at = [c \in Clients |-> None]
    /\ attempt = [c \in Clients |-> 0]
    /\ look = [c \in Clients |-> NoLook]
    /\ saw = [c \in Clients |-> None]

-----------------------------------------------------------------------------
(* process_matches_generation: a process that exited keeps its entry until *)
(* its parent reaps it.                                                    *)
Alive(p) == p # None /\ proc[p] \in {"helper", "owned", "agent", "zombie"}

(* verified_socket_identity                                                *)
Serving(p) == p # None /\ socket = p /\ proc[p] = "agent"

(* orphan_startup_guard, startup_owner_is_busy: somebody holds the         *)
(* startup-owner lock; startup_owner_guard is refused.                     *)
OwnerBusy == owner # None

(* inspect_at                                                              *)
Status ==
    IF record = NoRecord THEN IF socket = None THEN "unset" ELSE "stale"
    ELSE IF record.state = "failed" THEN "failed"
    ELSE IF record.state = "active"
         THEN IF Serving(record.proc) /\ socket = record.socket THEN "active" ELSE "stale"
    ELSE IF Alive(record.proc) THEN record.state ELSE "stale"

(* recoverable_disconnected_socket                                         *)
Disconnected == socket = None \/ (socket = record.socket /\ ~Serving(socket))

(* recover_inactive_record removes the recorded socket only; an unrecorded *)
(* one makes it fail.                                                      *)
SocketReleasable == socket \in {None, record.socket}

(* A client is over: its locks are released and what it has not reaped is  *)
(* reaped by init.                                                         *)
End(c) ==
    /\ pc' = [pc EXCEPT ![c] = "idle"]
    /\ at' = [at EXCEPT ![c] = None]
    /\ attempt' = [attempt EXCEPT ![c] = 0]
    /\ look' = [look EXCEPT ![c] = NoLook]
    /\ saw' = [saw EXCEPT ![c] = None]
    /\ lock' = IF lock = c THEN None ELSE lock
    /\ owner' = IF owner = c THEN None ELSE owner
    /\ proc' = [p \in Procs |->
                  IF parent[p] = c /\ proc[p] = "zombie" THEN "gone" ELSE proc[p]]
    /\ parent' = [p \in Procs |-> IF parent[p] = c THEN None ELSE parent[p]]

Goto(c, l) ==
    /\ pc' = [pc EXCEPT ![c] = l]
    /\ UNCHANGED <<at, attempt, look, saw>>

(* An error return, a spent deadline or a crash                            *)
GiveUp(c) ==
    /\ pc[c] # "idle"
    /\ End(c)
    /\ UNCHANGED <<record, socket>>

-----------------------------------------------------------------------------
(***************************************************************************)
(* start                                                                   *)
(***************************************************************************)

(* reserve: somebody else's start is under way.                            *)
ReserveObserve(s) ==
    /\ pc[s] = "idle"
    /\ lock = None
    /\ \/ Status = "starting"
       \/ Status = "stale" /\ record.state = "starting" /\ OwnerBusy
    /\ pc' = [pc EXCEPT ![s] = "observe"]
    /\ at' = [at EXCEPT ![s] = record.proc]
    /\ UNCHANGED <<record, socket, proc, parent, lock, owner, attempt, look, saw>>

(* Mutant: the failed record of a live process may be replaced.            *)
ReserveNewOverLive(s) ==
    /\ pc[s] = "idle"
    /\ lock = None /\ ~OwnerBusy
    /\ Status \in {"unset", "failed"}
    /\ socket = None
    /\ record' = NoRecord
    /\ lock' = s /\ owner' = s
    /\ Goto(s, "spawn")
    /\ UNCHANGED <<socket, proc, parent>>

(* Mutant: the startup-owner lease is not asked for.                       *)
ReserveNewUnleased(s) ==
    /\ pc[s] = "idle"
    /\ lock = None
    /\ Status = "unset" \/ (Status = "failed" /\ ~Alive(record.proc))
    /\ socket = None
    /\ record' = NoRecord
    /\ lock' = s /\ owner' = s
    /\ Goto(s, "spawn")
    /\ UNCHANGED <<socket, proc, parent>>

(* reserve: nothing there, or the failed start of a dead process.          *)
ReserveNew(s) ==
    /\ pc[s] = "idle"
    /\ lock = None /\ ~OwnerBusy
    /\ Status = "unset" \/ (Status = "failed" /\ ~Alive(record.proc))
    /\ socket = None
    /\ record' = NoRecord
    /\ lock' = s /\ owner' = s
    /\ Goto(s, "spawn")
    /\ UNCHANGED <<socket, proc, parent>>

(* spawn_helper, for the first launch and for the retry                    *)
Spawn(s) ==
    /\ pc[s] \in {"spawn", "respawn"}
    /\ \E p \in Procs :
          /\ proc[p] = "none"
          /\ proc' = [proc EXCEPT ![p] = "helper"]
          /\ parent' = [parent EXCEPT ![p] = s]
          /\ at' = [at EXCEPT ![s] = p]
    /\ pc' = [pc EXCEPT ![s] = IF @ = "spawn" THEN "create" ELSE "replace"]
    /\ UNCHANGED <<record, socket, lock, owner, attempt, look, saw>>

CreateRecord(s) ==
    /\ pc[s] = "create"
    /\ record' = Starting(at[s])
    /\ lock' = None
    /\ attempt' = [attempt EXCEPT ![s] = 1]
    /\ pc' = [pc EXCEPT ![s] = "await"]
    /\ UNCHANGED <<socket, proc, parent, owner, at, look, saw>>

(* The record was not written, or written and not synced.                  *)
CreateFails(s) ==
    /\ pc[s] = "create"
    /\ record' \in {record, Starting(at[s])}
    /\ lock' = None
    /\ Goto(s, "cleanup")
    /\ UNCHANGED <<socket, proc, parent, owner>>

AwaitServing(s) ==
    /\ pc[s] = "await"
    /\ Serving(at[s])
    /\ Goto(s, "activate")
    /\ UNCHANGED <<record, socket, proc, parent, lock, owner>>

(* try_wait reaps the child; the first one is launched again.              *)
AwaitExited(s) ==
    /\ pc[s] = "await"
    /\ proc[at[s]] = "zombie"
    /\ proc' = [proc EXCEPT ![at[s]] = "gone"]
    /\ Goto(s, IF attempt[s] = 1 THEN "unlink" ELSE "fail")
    /\ UNCHANGED <<record, socket, parent, lock, owner>>

AwaitTimeout(s) ==
    /\ pc[s] = "await"
    /\ Goto(s, "timeout")
    /\ UNCHANGED <<record, socket, proc, parent, lock, owner>>

(* Every commit returns first when the record is already active.           *)
Promoted(s) == Status = "active" /\ record.proc = at[s]

ReturnActive(s) ==
    /\ pc[s] \in {"activate", "fail", "timeout", "abort"}
    /\ lock = None
    /\ Promoted(s)
    /\ End(s)
    /\ UNCHANGED <<record, socket>>

CommitActivation(s) ==
    /\ pc[s] = "activate"
    /\ lock = None
    /\ record = Starting(at[s])
    /\ Serving(at[s])
    /\ record' = Activated(at[s])
    /\ End(s)
    /\ UNCHANGED socket

(* The lock, the second proof or the record fails, or the new record is    *)
(* written and not synced.                                                 *)
CommitActivationFails(s) ==
    /\ pc[s] = "activate"
    /\ \/ record' = record
       \/ lock = None /\ record = Starting(at[s]) /\ Serving(at[s])
          /\ record' = Activated(at[s])
    /\ Goto(s, "abort")
    /\ UNCHANGED <<socket, proc, parent, lock, owner>>

(* cleanup_exited_socket removes whatever socket is there.                 *)
UnlinkExited(s) ==
    /\ pc[s] = "unlink"
    /\ lock = None
    /\ socket' = None
    /\ Goto(s, "retry")
    /\ UNCHANGED <<record, proc, parent, lock, owner>>

(* retry_exited_launch                                                     *)
Retry(s) ==
    /\ pc[s] = "retry"
    /\ lock = None
    /\ record = Starting(at[s])
    /\ lock' = s
    /\ Goto(s, "respawn")
    /\ UNCHANGED <<record, socket, proc, parent, owner>>

RetryFails(s) ==
    /\ pc[s] \in {"retry", "respawn"}
    /\ lock' = IF lock = s THEN None ELSE lock
    /\ Goto(s, "fail")
    /\ UNCHANGED <<record, socket, proc, parent, owner>>

ReplaceRecord(s) ==
    /\ pc[s] = "replace"
    /\ record' = Starting(at[s])
    /\ lock' = None
    /\ attempt' = [attempt EXCEPT ![s] = 2]
    /\ pc' = [pc EXCEPT ![s] = "await"]
    /\ UNCHANGED <<socket, proc, parent, owner, at, look, saw>>

(* The new helper is killed and the old record becomes the failure.        *)
ReplaceFails(s) ==
    /\ pc[s] = "replace"
    /\ proc' = [proc EXCEPT ![at[s]] = "gone"]
    /\ socket' = None
    /\ lock' = None
    /\ at' = [at EXCEPT ![s] = record.proc]
    /\ pc' = [pc EXCEPT ![s] = "fail"]
    /\ UNCHANGED <<record, parent, owner, attempt, look, saw>>

(* commit_failure after an exit                                            *)
CommitExit(s) ==
    /\ pc[s] = "fail"
    /\ lock = None
    /\ record = Starting(at[s])
    /\ record' = Failed(at[s])
    /\ End(s)
    /\ UNCHANGED socket

(* commit_failure after the deadline; the child is still alive.            *)
CommitTimeout(s) ==
    /\ pc[s] = "timeout"
    /\ lock = None
    /\ record = Starting(at[s])
    /\ record' = Failed(at[s])
    /\ Goto(s, "cleanup")
    /\ UNCHANGED <<socket, proc, parent, lock, owner>>

(* The failure is not recorded, or recorded and not synced.  When the      *)
(* first launch could not be repeated the command ends (GiveUp).           *)
CommitFailureFails(s) ==
    /\ pc[s] = "timeout" \/ (pc[s] = "fail" /\ attempt[s] = 2)
    /\ \/ record' = record
       \/ lock = None /\ record = Starting(at[s]) /\ record' = Failed(at[s])
    /\ Goto(s, "abort")
    /\ UNCHANGED <<socket, proc, parent, lock, owner>>

(* abort_spawned: a committed activation is kept, a reservation failed.    *)
Abort(s) ==
    /\ pc[s] = "abort"
    /\ lock = None
    /\ ~Promoted(s)
    /\ record # Activated(at[s])
    /\ record' = IF record = Starting(at[s]) THEN Failed(at[s]) ELSE record
    /\ Goto(s, "cleanup")
    /\ UNCHANGED <<socket, proc, parent, lock, owner>>

AbortUnrecorded(s) ==
    /\ pc[s] = "abort"
    /\ Goto(s, "cleanup")
    /\ UNCHANGED <<record, socket, proc, parent, lock, owner>>

(* cleanup_spawned_child notes the socket, stops and reaps the child, and  *)
(* removes that socket.                                                    *)
Cleanup(s) ==
    /\ pc[s] = "cleanup"
    /\ lock = None
    /\ lock' = s
    /\ saw' = [saw EXCEPT ![s] = socket]
    /\ pc' = [pc EXCEPT ![s] = "kill"]
    /\ UNCHANGED <<record, socket, proc, parent, owner, at, attempt, look>>

Kill(s) ==
    /\ pc[s] = "kill"
    /\ proc' = [proc EXCEPT ![at[s]] = "gone"]
    /\ socket' \in {socket, IF proc[at[s]] = "agent" THEN None ELSE socket}
    /\ Goto(s, "sweep")
    /\ UNCHANGED <<record, parent, lock, owner>>

Sweep(s) ==
    /\ pc[s] = "sweep"
    /\ socket' = IF socket = saw[s] THEN None ELSE socket
    /\ End(s)
    /\ UNCHANGED record

StartStep(s) ==
    \/ ReserveObserve(s) \/ ReserveNew(s) \/ Spawn(s) \/ CreateRecord(s) \/ CreateFails(s)
    \/ AwaitServing(s) \/ AwaitExited(s) \/ AwaitTimeout(s) \/ ReturnActive(s)
    \/ CommitActivation(s) \/ CommitActivationFails(s) \/ UnlinkExited(s)
    \/ Retry(s) \/ RetryFails(s) \/ ReplaceRecord(s) \/ ReplaceFails(s)
    \/ CommitExit(s) \/ CommitTimeout(s) \/ CommitFailureFails(s)
    \/ Abort(s) \/ AbortUnrecorded(s) \/ Cleanup(s) \/ Kill(s) \/ Sweep(s)

-----------------------------------------------------------------------------
(***************************************************************************)
(* reconcile: a start or a recovery that observes another start            *)
(***************************************************************************)

(* The probes are made before the lifecycle lock is taken.                 *)
Look(c) ==
    /\ pc[c] \in {"observe", "pending"}
    /\ look' = [look EXCEPT ![c] = [observed |-> Serving(at[c]), alive |-> Alive(at[c])]]
    /\ pc' = [pc EXCEPT ![c] = "reconcile"]
    /\ UNCHANGED <<record, socket, proc, parent, lock, owner, at, attempt, saw>>

Reconciling(c) == pc[c] = "reconcile" /\ lock = None

Observed(c) == record = Starting(at[c])
DeadFailure == record.state = "failed" /\ ~Alive(record.proc)

Pending(c) ==
    /\ Reconciling(c)
    /\ \/ record = NoRecord /\ OwnerBusy
       \/ record.state = "active" /\ Status # "active"
       \/ DeadFailure /\ OwnerBusy
       \/ Observed(c) /\ (OwnerBusy \/ (look[c].alive /\ ~look[c].observed))
    /\ Goto(c, "pending")
    /\ UNCHANGED <<record, socket, proc, parent, lock, owner>>

(* The deadline is looked at after a turn that settled nothing.            *)
Expire(c) ==
    /\ pc[c] = "pending"
    /\ End(c)
    /\ UNCHANGED <<record, socket>>

Follow(c) ==
    /\ Reconciling(c)
    /\ record.state = "starting" /\ record.proc # at[c]
    /\ at' = [at EXCEPT ![c] = record.proc]
    /\ pc' = [pc EXCEPT ![c] = "observe"]
    /\ UNCHANGED <<record, socket, proc, parent, lock, owner, attempt, look, saw>>

(* Ready, or Rereserve after somebody else cleared the record              *)
Resolved(c) ==
    /\ Reconciling(c)
    /\ Status = "active" \/ (record = NoRecord /\ ~OwnerBusy)
    /\ End(c)
    /\ UNCHANGED <<record, socket>>

(* Mutant: an observer promotes a start whose owner still works on it.     *)
PromoteOwned(c) ==
    /\ Reconciling(c)
    /\ Observed(c)
    /\ look[c].observed
    /\ Serving(at[c])
    /\ record' = Activated(at[c])
    /\ End(c)
    /\ UNCHANGED socket

(* The orphan guard is free and both proofs of the socket agree.           *)
Promote(c) ==
    /\ Reconciling(c)
    /\ Observed(c) /\ ~OwnerBusy
    /\ look[c].observed
    /\ Serving(at[c])
    /\ record' = Activated(at[c])
    /\ End(c)
    /\ UNCHANGED socket

(* recover_inactive_record on a dead start or a dead failure               *)
RecoverOrphan(c) ==
    /\ Reconciling(c)
    /\ ~OwnerBusy
    /\ (Observed(c) /\ ~look[c].observed /\ ~look[c].alive) \/ DeadFailure
    /\ SocketReleasable
    /\ record' = NoRecord
    /\ End(c)
    /\ UNCHANGED socket

(* The errors of reconcile                                                 *)
ReconcileRefused(c) ==
    /\ Reconciling(c)
    /\ \/ record.state = "stopping"
       \/ record.state = "failed" /\ Alive(record.proc)
       \/ Observed(c) /\ ~OwnerBusy /\ look[c].observed /\ ~Serving(at[c])
       \/ /\ ~OwnerBusy /\ ~SocketReleasable
          /\ (Observed(c) /\ ~look[c].observed /\ ~look[c].alive) \/ DeadFailure
    /\ End(c)
    /\ UNCHANGED <<record, socket>>

ReconcileStep(c) ==
    \/ Look(c) \/ Pending(c) \/ Expire(c) \/ Follow(c) \/ Resolved(c)
    \/ Promote(c) \/ RecoverOrphan(c) \/ ReconcileRefused(c)

-----------------------------------------------------------------------------
(***************************************************************************)
(* stop and recover                                                        *)
(***************************************************************************)
StopBegin(k) ==
    /\ pc[k] = "idle"
    /\ lock = None
    /\ Status = "active"
    /\ record' = [record EXCEPT !.state = "stopping"]
    /\ lock' = k
    /\ at' = [at EXCEPT ![k] = record.proc]
    /\ pc' = [pc EXCEPT ![k] = "finish"]
    /\ UNCHANGED <<socket, proc, parent, owner, attempt, look, saw>>

(* finish_stopping repeats the proof and signals ...                       *)
Terminate(c) ==
    /\ pc[c] = "finish"
    /\ Serving(at[c])
    /\ Goto(c, "wait")
    /\ UNCHANGED <<record, socket, proc, parent, lock, owner>>

TerminateRefused(c) ==
    /\ pc[c] = "finish"
    /\ ~Serving(at[c])
    /\ End(c)
    /\ UNCHANGED <<record, socket>>

(* ... waits for the exit and removes the recorded socket.                 *)
Stopped(c) ==
    /\ pc[c] = "wait"
    /\ proc[at[c]] \in {"zombie", "gone"}
    /\ SocketReleasable
    /\ socket' = None
    /\ Goto(c, "forget")
    /\ UNCHANGED <<record, proc, parent, lock, owner>>

Forget(c) ==
    /\ pc[c] = "forget"
    /\ record' = NoRecord
    /\ End(c)
    /\ UNCHANGED socket

RecoverStarting(r) ==
    /\ pc[r] = "idle"
    /\ lock = None
    /\ Status = "starting"
    /\ at' = [at EXCEPT ![r] = record.proc]
    /\ pc' = [pc EXCEPT ![r] = "observe"]
    /\ UNCHANGED <<record, socket, proc, parent, lock, owner, attempt, look, saw>>

Inactive == record # NoRecord /\ Status \in {"stopping", "failed", "stale"}

(* recover_inactive_state finishes an interrupted stop ...                 *)
RecoverStopping(r) ==
    /\ pc[r] = "idle"
    /\ lock = None
    /\ Inactive
    /\ Alive(record.proc) /\ record.state = "stopping" /\ ~Disconnected
    /\ lock' = r
    /\ at' = [at EXCEPT ![r] = record.proc]
    /\ pc' = [pc EXCEPT ![r] = "finish"]
    /\ UNCHANGED <<record, socket, proc, parent, owner, attempt, look, saw>>

(* Mutant: only dead processes are forgotten.                              *)
RecoverDeadOnly(r) ==
    /\ pc[r] = "idle"
    /\ lock = None
    /\ Inactive
    /\ ~Alive(record.proc)
    /\ SocketReleasable
    /\ socket' = None
    /\ lock' = r
    /\ Goto(r, "forget")
    /\ UNCHANGED <<record, proc, parent, owner>>

(* ... and forgets a dead or disconnected process, its socket first.       *)
RecoverInactive(r) ==
    /\ pc[r] = "idle"
    /\ lock = None
    /\ Inactive
    /\ \/ ~Alive(record.proc)
       \/ record.state \in {"active", "stopping"} /\ Disconnected
    /\ SocketReleasable
    /\ socket' = None
    /\ lock' = r
    /\ Goto(r, "forget")
    /\ UNCHANGED <<record, proc, parent, owner>>

FinishStep(c) == Terminate(c) \/ TerminateRefused(c) \/ Stopped(c) \/ Forget(c)

StopStep(k) == StopBegin(k) \/ FinishStep(k)

RecoverStep(r) ==
    \/ RecoverStarting(r) \/ RecoverStopping(r) \/ RecoverInactive(r)
    \/ FinishStep(r) \/ ReconcileStep(r)

-----------------------------------------------------------------------------
(***************************************************************************)
(* The launched process: a helper that waits for its record and then       *)
(* becomes ssh-agent                                                       *)
(***************************************************************************)
Exited(p) == IF parent[p] = None THEN "gone" ELSE "zombie"

(* wait_for_ownership                                                      *)
Own(p) ==
    /\ proc[p] = "helper"
    /\ record = Starting(p)
    /\ proc' = [proc EXCEPT ![p] = "owned"]
    /\ UNCHANGED <<record, socket, parent, lock, owner, clientVars>>

(* ssh-agent binds the path, or exits because it is taken.                 *)
Bind(p) ==
    /\ proc[p] = "owned"
    /\ socket' = IF socket = None THEN p ELSE socket
    /\ proc' = [proc EXCEPT ![p] = IF socket = None THEN "agent" ELSE Exited(p)]
    /\ UNCHANGED <<record, parent, lock, owner, clientVars>>

(* It may die at any time; when it is told to, it removes the path.        *)
Exit(p) ==
    /\ proc[p] \in {"helper", "owned", "agent"}
    /\ proc' = [proc EXCEPT ![p] = Exited(p)]
    /\ socket' \in {socket, IF proc[p] = "agent" THEN None ELSE socket}
    /\ UNCHANGED <<record, parent, lock, owner, clientVars>>

(* The socket is deleted by somebody else.                                 *)
Vanish ==
    /\ TmpCleaner
    /\ socket # None
    /\ socket' = None
    /\ UNCHANGED <<record, proc, parent, lock, owner, clientVars>>

ProcStep(p) == Own(p) \/ Bind(p) \/ Exit(p)

-----------------------------------------------------------------------------
Next ==
    \/ \E s \in Starters : StartStep(s) \/ ReconcileStep(s)
    \/ \E k \in Stoppers : StopStep(k)
    \/ \E r \in Recoverers : RecoverStep(r)
    \/ \E c \in Clients : GiveUp(c)
    \/ \E p \in Procs : ProcStep(p)
    \/ Vanish

Spec == Init /\ [][Next]_vars

-----------------------------------------------------------------------------
(* While a start waits without the lifecycle lock, its reservation stays   *)
(* its own: no other start promotes, replaces or clears it, although its   *)
(* process may be seen dead or serving.  Only a recovery takes it away,    *)
(* when it finds the first process dead before the owner launches the      *)
(* second: recover_inactive_state does not ask for the owner lease.        *)
ReservationKept ==
    [][\A s \in Starters :
          /\ pc[s] \in {"await", "activate", "unlink", "retry", "fail", "timeout"}
          /\ record = Starting(at[s])
          /\ record' # record
          => pc'[s] # pc[s] \/ \E r \in Recoverers : Forget(r)]_vars

(* No agent runs unrecorded: one that was allowed to become ssh-agent has  *)
(* the record, until its socket is gone and nobody can reach it.           *)
AgentsRecorded ==
    \A p \in Procs :
        /\ proc[p] = "owned" => record.proc = p
        /\ proc[p] = "agent" /\ socket = p => record.proc = p

(* The record is well formed and covers every agent that runs              *)
(* (registry.rs, reserve, fail, recover_inactive_state).                   *)
RecordSound == TypeOK /\ AgentsRecorded

(* Quarters never unlinks the socket of an agent that still serves, not    *)
(* even where it removes the path without looking whose it is.  (Somebody  *)
(* else may, and ssh-agent removes the path when it exits.)                *)
LiveSocketsKept ==
    [][\/ Vanish
       \/ \E p \in Procs : Exit(p)
       \/ \A p \in Procs : Serving(p) /\ socket' # p => proc'[p] # "agent"]_vars

-----------------------------------------------------------------------------
(* A helper goes on, a signalled agent exits, a command that has begun     *)
(* goes on or gives up, and recovery is run again until it is not          *)
(* interrupted; the deadline of an observer comes.                         *)
Fairness ==
    /\ \A p \in Procs :
          /\ WF_vars(Own(p) \/ Bind(p))
          /\ WF_vars(proc[p] = "helper" /\ record # Starting(p) /\ Exit(p))
          /\ WF_vars((\E c \in Clients : pc[c] = "wait" /\ at[c] = p) /\ Exit(p))
    /\ \A s \in Starters : WF_vars(pc[s] # "idle" /\ (StartStep(s) \/ ReconcileStep(s) \/ GiveUp(s)))
    /\ \A k \in Stoppers : WF_vars(pc[k] # "idle" /\ (StopStep(k) \/ GiveUp(k)))
    /\ \A r \in Recoverers : /\ WF_vars(RecoverStep(r)) /\ SF_vars(Expire(r))
                             /\ <>[][GiveUp(r) => Expire(r)]_vars

LiveSpec == Spec /\ Fairness

(* What recovery retains by design: an unrecorded socket, the failed start *)
(* of a process that is still alive, and a start whose agent lost the      *)
(* socket before it was activated.                                         *)
Retained ==
    \/ ~SocketReleasable
    \/ record.state = "failed" /\ Alive(record.proc)
    \/ record.state = "starting" /\ proc[record.proc] = "agent" /\ ~Serving(record.proc)

(* Wherever starts, stops and recoveries die, repeated recovery settles on *)
(* an active agent or none, or on a state that is retained.                *)
AgentSettles == []<>(Status \in {"unset", "active"} \/ Retained)
=============================================================================
