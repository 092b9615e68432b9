----------------------------- MODULE AgentProofs -----------------------------
(***************************************************************************)
(* The record of a private agent covers every agent that runs, for any     *)
(* number of starts, stops, recoveries and launched processes, and no      *)
(* command takes another one's reservation or a live socket.               *)
(***************************************************************************)
EXTENDS Agent, TLAPS

(* The control points of an invocation that holds the startup-owner lock.  *)
StartPath == {"spawn", "create", "await", "activate", "unlink", "retry", "respawn",
              "replace", "fail", "timeout", "abort", "cleanup", "kill", "sweep"}

LockInv ==
    /\ \A c \in Clients : lock = c <=>
          pc[c] \in {"spawn", "create", "respawn", "replace", "kill", "sweep",
                     "finish", "wait", "forget"}
    /\ \A c \in Clients : owner = c <=> pc[c] \in StartPath

(* Everything that is recorded or observed has been launched.              *)
LaunchedInv ==
    /\ record.proc # None => proc[record.proc] # "none"
    /\ \A c \in Clients : at[c] # None => proc[at[c]] # "none"

(* While a start owns the startup, the record is absent or of its process; *)
(* a launch is only repeated when the first process has been reaped.       *)
OwnerInv ==
    \A s \in Starters :
        /\ pc[s] \in {"spawn", "create"} => record = NoRecord
        /\ pc[s] \in StartPath \ {"spawn"} => at[s] \in Procs
        /\ pc[s] = "replace" => record.state = "starting" /\ proc[record.proc] = "gone"
        /\ pc[s] \in StartPath \ {"spawn", "create", "replace"} => record.proc \in {None, at[s]}
        /\ pc[s] \in {"unlink", "retry", "respawn", "sweep"} => proc[at[s]] = "gone"
        /\ pc[s] = "respawn" => record = Starting(at[s])

(* A record names a socket only after its process has bound it.            *)
ActivatedInv ==
    record.state \in {"active", "stopping"} =>
        record.socket = record.proc /\ proc[record.proc] \in {"agent", "zombie", "gone"}

(* What a stop or a recovery knows while it holds the lifecycle lock.      *)
FinishInv ==
    \A c \in Clients :
        /\ pc[c] \in {"finish", "wait"} => record.state = "stopping" /\ at[c] = record.proc
        /\ pc[c] = "forget" =>
              /\ record # NoRecord
              /\ proc[record.proc] \in {"agent", "zombie", "gone"}
              /\ socket = None
        /\ pc[c] = "forget" /\ c \in Stoppers => record.state = "stopping"

(* A process that was seen dead without the lock is dead.                  *)
LookInv ==
    \A c \in Clients :
        /\ pc[c] \in {"observe", "reconcile", "pending"} => at[c] \in Procs
        /\ pc[c] = "reconcile" /\ ~look[c].alive => proc[at[c]] = "gone"

AInv ==
    /\ TypeOK
    /\ LockInv
    /\ LaunchedInv
    /\ OwnerInv
    /\ ActivatedInv
    /\ FinishInv
    /\ LookInv
    /\ AgentsRecorded

USE AgentAssumption DEF Clients, StartPath, clientVars

-----------------------------------------------------------------------------
(* The record by its fields.                                               *)
LEMMA RecordFields ==
    ASSUME TypeOK
    PROVE  /\ record.state \in {"none", "starting", "active", "stopping", "failed"}
           /\ record.proc \in Procs \cup {None}
           /\ record.socket \in Procs \cup {None}
           /\ record = NoRecord <=> record.state = "none"
           /\ record = NoRecord <=> record.proc = None
           /\ record # NoRecord => record.proc \in Procs
BY DEF TypeOK, Ownership, NoRecord

LEMMA NewRecords ==
    ASSUME NEW p \in Procs
    PROVE  /\ Starting(p) \in Ownership /\ Activated(p) \in Ownership /\ Failed(p) \in Ownership
           /\ Starting(p).proc = p /\ Activated(p).proc = p /\ Failed(p).proc = p
           /\ Starting(p).state = "starting" /\ Starting(p).socket = None
           /\ Activated(p).state = "active" /\ Activated(p).socket = p
           /\ Failed(p).state = "failed" /\ Failed(p).socket = None
BY DEF Starting, Activated, Failed, Ownership

LEMMA NoRecordFields ==
    NoRecord.state = "none" /\ NoRecord.proc = None /\ NoRecord.socket = None
BY DEF NoRecord

LEMMA InitAInv == Init => AInv
<1> SUFFICES ASSUME Init PROVE AInv
  OBVIOUS
<1>1. TypeOK
  BY DEF Init, TypeOK, NoRecord, NoLook
<1>2. LockInv /\ OwnerInv /\ FinishInv /\ LookInv
  BY DEF Init, LockInv, OwnerInv, FinishInv, LookInv
<1>3. LaunchedInv /\ ActivatedInv /\ AgentsRecorded
  BY DEF Init, LaunchedInv, ActivatedInv, AgentsRecorded, NoRecord
<1> QED
  BY <1>1, <1>2, <1>3 DEF AInv

LEMMA GiveUpAInv ==
    ASSUME AInv, NEW c \in Clients, GiveUp(c)
    PROVE  AInv'
<1>1. TypeOK'
  BY RecordFields, NewRecords, NoRecordFields
  DEF AInv, GiveUp, End, NoLook, TypeOK, LockInv, LaunchedInv, OwnerInv,
          ActivatedInv
<1>2. LockInv'
  BY RecordFields, NewRecords, NoRecordFields
  DEF AInv, GiveUp, End, NoLook, LockInv, TypeOK, LaunchedInv, OwnerInv,
          ActivatedInv
<1>3. LaunchedInv'
  BY RecordFields, NewRecords, NoRecordFields
  DEF AInv, GiveUp, End, NoLook, LaunchedInv, TypeOK, LockInv, OwnerInv,
          ActivatedInv
<1>4. OwnerInv'
  BY RecordFields, NewRecords, NoRecordFields
  DEF AInv, GiveUp, End, NoLook, OwnerInv, TypeOK, LockInv, LaunchedInv,
          ActivatedInv
<1>5. ActivatedInv'
  BY RecordFields, NewRecords, NoRecordFields
  DEF AInv, GiveUp, End, NoLook, ActivatedInv, TypeOK, LockInv, LaunchedInv,
          OwnerInv
<1>6. FinishInv'
  BY RecordFields, NewRecords, NoRecordFields
  DEF AInv, GiveUp, End, NoLook, FinishInv, TypeOK, LockInv, LaunchedInv,
          OwnerInv, ActivatedInv
<1>7. LookInv'
  BY RecordFields, NewRecords, NoRecordFields
  DEF AInv, GiveUp, End, NoLook, LookInv, TypeOK, LockInv, LaunchedInv,
          OwnerInv, ActivatedInv
<1>8. AgentsRecorded'
  BY RecordFields, NewRecords, NoRecordFields
  DEF AInv, GiveUp, End, NoLook, AgentsRecorded, TypeOK, LockInv,
          LaunchedInv, OwnerInv, ActivatedInv
<1> QED
  BY <1>1, <1>2, <1>3, <1>4, <1>5, <1>6, <1>7, <1>8 DEF AInv

LEMMA ReserveObserveAInv ==
    ASSUME AInv, NEW s \in Starters, ReserveObserve(s)
    PROVE  AInv'
<1>1. (ActivatedInv /\ AgentsRecorded)'
  BY RecordFields, NewRecords, NoRecordFields
  DEF AInv, ReserveObserve, Status, ActivatedInv, TypeOK, AgentsRecorded
<1>2. TypeOK'
  BY RecordFields, NewRecords, NoRecordFields
  DEF AInv, ReserveObserve, Status, TypeOK, LockInv, LaunchedInv, OwnerInv,
          ActivatedInv
<1>3. LockInv'
  BY RecordFields, NewRecords, NoRecordFields
  DEF AInv, ReserveObserve, Status, LockInv, TypeOK, LaunchedInv, OwnerInv,
          ActivatedInv
<1>4. LaunchedInv'
  BY RecordFields, NewRecords, NoRecordFields
  DEF AInv, ReserveObserve, Status, LaunchedInv, TypeOK, LockInv, OwnerInv,
          ActivatedInv
<1>5. OwnerInv'
  BY RecordFields, NewRecords, NoRecordFields
  DEF AInv, ReserveObserve, Status, OwnerInv, TypeOK, LockInv, LaunchedInv,
          ActivatedInv
<1>6. FinishInv'
  BY RecordFields, NewRecords, NoRecordFields
  DEF AInv, ReserveObserve, Status, FinishInv, TypeOK, LockInv, LaunchedInv,
          OwnerInv, ActivatedInv
<1>7. LookInv'
  BY RecordFields, NewRecords, NoRecordFields
  DEF AInv, ReserveObserve, Status, LookInv, TypeOK, LockInv, LaunchedInv,
          OwnerInv, ActivatedInv
<1> QED
  BY <1>1, <1>2, <1>3, <1>4, <1>5, <1>6, <1>7 DEF AInv

LEMMA ReserveNewAInv ==
    ASSUME AInv, NEW s \in Starters, ReserveNew(s)
    PROVE  AInv'
<1>1. TypeOK'
  BY RecordFields, NewRecords, NoRecordFields
  DEF AInv, ReserveNew, OwnerBusy, Status, Alive, Goto, TypeOK, LockInv,
          LaunchedInv, OwnerInv, ActivatedInv, AgentsRecorded
<1>2. LockInv'
  BY RecordFields, NewRecords, NoRecordFields
  DEF AInv, ReserveNew, OwnerBusy, Status, Alive, Goto, LockInv, TypeOK,
          LaunchedInv, OwnerInv, ActivatedInv, AgentsRecorded
<1>3. LaunchedInv'
  BY RecordFields, NewRecords, NoRecordFields
  DEF AInv, ReserveNew, OwnerBusy, Status, Alive, Goto, LaunchedInv, TypeOK,
          LockInv, OwnerInv, ActivatedInv, AgentsRecorded
<1>4. OwnerInv'
  BY RecordFields, NewRecords, NoRecordFields
  DEF AInv, ReserveNew, OwnerBusy, Status, Alive, Goto, OwnerInv, TypeOK,
          LockInv, LaunchedInv, ActivatedInv, AgentsRecorded
<1>5. ActivatedInv'
  BY RecordFields, NewRecords, NoRecordFields
  DEF AInv, ReserveNew, OwnerBusy, Status, Alive, Goto, ActivatedInv,
          TypeOK, LockInv, LaunchedInv, OwnerInv, AgentsRecorded
<1>6. FinishInv'
  BY RecordFields, NewRecords, NoRecordFields
  DEF AInv, ReserveNew, OwnerBusy, Status, Alive, Goto, FinishInv, TypeOK,
          LockInv, LaunchedInv, OwnerInv, ActivatedInv, AgentsRecorded
<1>7. LookInv'
  BY RecordFields, NewRecords, NoRecordFields
  DEF AInv, ReserveNew, OwnerBusy, Status, Alive, Goto, LookInv, TypeOK,
          LockInv, LaunchedInv, OwnerInv, ActivatedInv, AgentsRecorded
<1>8. AgentsRecorded'
  BY RecordFields, NewRecords, NoRecordFields
  DEF AInv, ReserveNew, OwnerBusy, Status, Alive, Goto, AgentsRecorded,
          TypeOK, LockInv, LaunchedInv, OwnerInv, ActivatedInv
<1> QED
  BY <1>1, <1>2, <1>3, <1>4, <1>5, <1>6, <1>7, <1>8 DEF AInv

LEMMA SpawnAInv ==
    ASSUME AInv, NEW s \in Starters, Spawn(s)
    PROVE  AInv'
<1>1. TypeOK'
  BY RecordFields, NewRecords, NoRecordFields
  DEF AInv, Spawn, TypeOK, LockInv, LaunchedInv, OwnerInv, ActivatedInv
<1>2. LockInv'
  BY RecordFields, NewRecords, NoRecordFields
  DEF AInv, Spawn, LockInv, TypeOK, LaunchedInv, OwnerInv, ActivatedInv
<1>3. LaunchedInv'
  BY RecordFields, NewRecords, NoRecordFields
  DEF AInv, Spawn, LaunchedInv, TypeOK, LockInv, OwnerInv, ActivatedInv
<1>4. OwnerInv'
  BY RecordFields, NewRecords, NoRecordFields
  DEF AInv, Spawn, OwnerInv, TypeOK, LockInv, LaunchedInv, ActivatedInv
<1>5. ActivatedInv'
  BY RecordFields, NewRecords, NoRecordFields
  DEF AInv, Spawn, ActivatedInv, TypeOK, LockInv, LaunchedInv, OwnerInv
<1>6. FinishInv'
  BY RecordFields, NewRecords, NoRecordFields
  DEF AInv, Spawn, FinishInv, TypeOK, LockInv, LaunchedInv, OwnerInv,
          ActivatedInv
<1>7. LookInv'
  BY RecordFields, NewRecords, NoRecordFields
  DEF AInv, Spawn, LookInv, TypeOK, LockInv, LaunchedInv, OwnerInv,
          ActivatedInv
<1>8. AgentsRecorded'
  BY RecordFields, NewRecords, NoRecordFields
  DEF AInv, Spawn, AgentsRecorded, TypeOK, LockInv, LaunchedInv, OwnerInv,
          ActivatedInv
<1> QED
  BY <1>1, <1>2, <1>3, <1>4, <1>5, <1>6, <1>7, <1>8 DEF AInv

LEMMA CreateRecordAInv ==
    ASSUME AInv, NEW s \in Starters, CreateRecord(s)
    PROVE  AInv'
<1>1. TypeOK'
  BY RecordFields, NewRecords, NoRecordFields
  DEF AInv, CreateRecord, TypeOK, LockInv, LaunchedInv, OwnerInv,
          ActivatedInv
<1>2. LockInv'
  BY RecordFields, NewRecords, NoRecordFields
  DEF AInv, CreateRecord, LockInv, TypeOK, LaunchedInv, OwnerInv,
          ActivatedInv
<1>3. LaunchedInv'
  BY RecordFields, NewRecords, NoRecordFields
  DEF AInv, CreateRecord, LaunchedInv, TypeOK, LockInv, OwnerInv,
          ActivatedInv
<1>4. OwnerInv'
  BY RecordFields, NewRecords, NoRecordFields
  DEF AInv, CreateRecord, OwnerInv, TypeOK, LockInv, LaunchedInv,
          ActivatedInv
<1>5. ActivatedInv'
  BY RecordFields, NewRecords, NoRecordFields
  DEF AInv, CreateRecord, ActivatedInv, TypeOK, LockInv, LaunchedInv,
          OwnerInv
<1>6. FinishInv'
  BY RecordFields, NewRecords, NoRecordFields
  DEF AInv, CreateRecord, FinishInv, TypeOK, LockInv, LaunchedInv, OwnerInv,
          ActivatedInv
<1>7. LookInv'
  BY RecordFields, NewRecords, NoRecordFields
  DEF AInv, CreateRecord, LookInv, TypeOK, LockInv, LaunchedInv, OwnerInv,
          ActivatedInv
<1>8. AgentsRecorded'
  BY RecordFields, NewRecords, NoRecordFields
  DEF AInv, CreateRecord, AgentsRecorded, TypeOK, LockInv, LaunchedInv,
          OwnerInv, ActivatedInv
<1> QED
  BY <1>1, <1>2, <1>3, <1>4, <1>5, <1>6, <1>7, <1>8 DEF AInv

LEMMA CreateFailsAInv ==
    ASSUME AInv, NEW s \in Starters, CreateFails(s)
    PROVE  AInv'
<1>1. TypeOK'
  BY RecordFields, NewRecords, NoRecordFields
  DEF AInv, CreateFails, Goto, TypeOK, LockInv, LaunchedInv, OwnerInv,
          ActivatedInv
<1>2. LockInv'
  BY RecordFields, NewRecords, NoRecordFields
  DEF AInv, CreateFails, Goto, LockInv, TypeOK, LaunchedInv, OwnerInv,
          ActivatedInv
<1>3. LaunchedInv'
  BY RecordFields, NewRecords, NoRecordFields
  DEF AInv, CreateFails, Goto, LaunchedInv, TypeOK, LockInv, OwnerInv,
          ActivatedInv
<1>4. OwnerInv'
  BY RecordFields, NewRecords, NoRecordFields
  DEF AInv, CreateFails, Goto, OwnerInv, TypeOK, LockInv, LaunchedInv,
          ActivatedInv
<1>5. ActivatedInv'
  BY RecordFields, NewRecords, NoRecordFields
  DEF AInv, CreateFails, Goto, ActivatedInv, TypeOK, LockInv, LaunchedInv,
          OwnerInv
<1>6. FinishInv'
  BY RecordFields, NewRecords, NoRecordFields
  DEF AInv, CreateFails, Goto, FinishInv, TypeOK, LockInv, LaunchedInv,
          OwnerInv, ActivatedInv
<1>7. LookInv'
  BY RecordFields, NewRecords, NoRecordFields
  DEF AInv, CreateFails, Goto, LookInv, TypeOK, LockInv, LaunchedInv,
          OwnerInv, ActivatedInv
<1>8. AgentsRecorded'
  BY RecordFields, NewRecords, NoRecordFields
  DEF AInv, CreateFails, Goto, AgentsRecorded, TypeOK, LockInv, LaunchedInv,
          OwnerInv, ActivatedInv
<1> QED
  BY <1>1, <1>2, <1>3, <1>4, <1>5, <1>6, <1>7, <1>8 DEF AInv

LEMMA AwaitServingAInv ==
    ASSUME AInv, NEW s \in Starters, AwaitServing(s)
    PROVE  AInv'
<1>1. (LaunchedInv /\ ActivatedInv /\ AgentsRecorded)'
  BY RecordFields, NewRecords, NoRecordFields
  DEF AInv, AwaitServing, Goto, LaunchedInv, TypeOK, ActivatedInv,
          AgentsRecorded
<1>2. TypeOK'
  BY RecordFields, NewRecords, NoRecordFields
  DEF AInv, AwaitServing, Goto, TypeOK, LockInv, LaunchedInv, OwnerInv,
          ActivatedInv
<1>3. LockInv'
  BY RecordFields, NewRecords, NoRecordFields
  DEF AInv, AwaitServing, Goto, LockInv, TypeOK, LaunchedInv, OwnerInv,
          ActivatedInv
<1>4. OwnerInv'
  BY RecordFields, NewRecords, NoRecordFields
  DEF AInv, AwaitServing, Goto, OwnerInv, TypeOK, LockInv, LaunchedInv,
          ActivatedInv
<1>5. FinishInv'
  BY RecordFields, NewRecords, NoRecordFields
  DEF AInv, AwaitServing, Goto, FinishInv, TypeOK, LockInv, LaunchedInv,
          OwnerInv, ActivatedInv
<1>6. LookInv'
  BY RecordFields, NewRecords, NoRecordFields
  DEF AInv, AwaitServing, Goto, LookInv, TypeOK, LockInv, LaunchedInv,
          OwnerInv, ActivatedInv
<1> QED
  BY <1>1, <1>2, <1>3, <1>4, <1>5, <1>6 DEF AInv

LEMMA AwaitExitedAInv ==
    ASSUME AInv, NEW s \in Starters, AwaitExited(s)
    PROVE  AInv'
<1>1. TypeOK'
  BY RecordFields, NewRecords, NoRecordFields
  DEF AInv, AwaitExited, Goto, TypeOK, LockInv, LaunchedInv, OwnerInv,
          ActivatedInv
<1>2. LockInv'
  BY RecordFields, NewRecords, NoRecordFields
  DEF AInv, AwaitExited, Goto, LockInv, TypeOK, LaunchedInv, OwnerInv,
          ActivatedInv
<1>3. LaunchedInv'
  BY RecordFields, NewRecords, NoRecordFields
  DEF AInv, AwaitExited, Goto, LaunchedInv, TypeOK, LockInv, OwnerInv,
          ActivatedInv
<1>4. OwnerInv'
  BY RecordFields, NewRecords, NoRecordFields
  DEF AInv, AwaitExited, Goto, OwnerInv, TypeOK, LockInv, LaunchedInv,
          ActivatedInv
<1>5. ActivatedInv'
  BY RecordFields, NewRecords, NoRecordFields
  DEF AInv, AwaitExited, Goto, ActivatedInv, TypeOK, LockInv, LaunchedInv,
          OwnerInv
<1>6. FinishInv'
  BY RecordFields, NewRecords, NoRecordFields
  DEF AInv, AwaitExited, Goto, FinishInv, TypeOK, LockInv, LaunchedInv,
          OwnerInv, ActivatedInv
<1>7. LookInv'
  BY RecordFields, NewRecords, NoRecordFields
  DEF AInv, AwaitExited, Goto, LookInv, TypeOK, LockInv, LaunchedInv,
          OwnerInv, ActivatedInv
<1>8. AgentsRecorded'
  BY RecordFields, NewRecords, NoRecordFields
  DEF AInv, AwaitExited, Goto, AgentsRecorded, TypeOK, LockInv, LaunchedInv,
          OwnerInv, ActivatedInv
<1> QED
  BY <1>1, <1>2, <1>3, <1>4, <1>5, <1>6, <1>7, <1>8 DEF AInv

LEMMA AwaitTimeoutAInv ==
    ASSUME AInv, NEW s \in Starters, AwaitTimeout(s)
    PROVE  AInv'
<1>1. (LaunchedInv /\ ActivatedInv /\ AgentsRecorded)'
  BY RecordFields, NewRecords, NoRecordFields
  DEF AInv, AwaitTimeout, Goto, LaunchedInv, TypeOK, ActivatedInv,
          AgentsRecorded
<1>2. TypeOK'
  BY RecordFields, NewRecords, NoRecordFields
  DEF AInv, AwaitTimeout, Goto, TypeOK, LockInv, LaunchedInv, OwnerInv,
          ActivatedInv
<1>3. LockInv'
  BY RecordFields, NewRecords, NoRecordFields
  DEF AInv, AwaitTimeout, Goto, LockInv, TypeOK, LaunchedInv, OwnerInv,
          ActivatedInv
<1>4. OwnerInv'
  BY RecordFields, NewRecords, NoRecordFields
  DEF AInv, AwaitTimeout, Goto, OwnerInv, TypeOK, LockInv, LaunchedInv,
          ActivatedInv
<1>5. FinishInv'
  BY RecordFields, NewRecords, NoRecordFields
  DEF AInv, AwaitTimeout, Goto, FinishInv, TypeOK, LockInv, LaunchedInv,
          OwnerInv, ActivatedInv
<1>6. LookInv'
  BY RecordFields, NewRecords, NoRecordFields
  DEF AInv, AwaitTimeout, Goto, LookInv, TypeOK, LockInv, LaunchedInv,
          OwnerInv, ActivatedInv
<1> QED
  BY <1>1, <1>2, <1>3, <1>4, <1>5, <1>6 DEF AInv

LEMMA ReturnActiveAInv ==
    ASSUME AInv, NEW s \in Starters, ReturnActive(s)
    PROVE  AInv'
<1>1. TypeOK'
  BY RecordFields, NewRecords, NoRecordFields
  DEF AInv, ReturnActive, End, NoLook, TypeOK, LockInv, LaunchedInv,
          OwnerInv, ActivatedInv
<1>2. LockInv'
  BY RecordFields, NewRecords, NoRecordFields
  DEF AInv, ReturnActive, End, NoLook, LockInv, TypeOK, LaunchedInv,
          OwnerInv, ActivatedInv
<1>3. LaunchedInv'
  BY RecordFields, NewRecords, NoRecordFields
  DEF AInv, ReturnActive, End, NoLook, LaunchedInv, TypeOK, LockInv,
          OwnerInv, ActivatedInv
<1>4. OwnerInv'
  BY RecordFields, NewRecords, NoRecordFields
  DEF AInv, ReturnActive, End, NoLook, OwnerInv, TypeOK, LockInv,
          LaunchedInv, ActivatedInv
<1>5. ActivatedInv'
  BY RecordFields, NewRecords, NoRecordFields
  DEF AInv, ReturnActive, End, NoLook, ActivatedInv, TypeOK, LockInv,
          LaunchedInv, OwnerInv
<1>6. FinishInv'
  BY RecordFields, NewRecords, NoRecordFields
  DEF AInv, ReturnActive, End, NoLook, FinishInv, TypeOK, LockInv,
          LaunchedInv, OwnerInv, ActivatedInv
<1>7. LookInv'
  BY RecordFields, NewRecords, NoRecordFields
  DEF AInv, ReturnActive, End, NoLook, LookInv, TypeOK, LockInv,
          LaunchedInv, OwnerInv, ActivatedInv
<1>8. AgentsRecorded'
  BY RecordFields, NewRecords, NoRecordFields
  DEF AInv, ReturnActive, End, NoLook, AgentsRecorded, TypeOK, LockInv,
          LaunchedInv, OwnerInv, ActivatedInv
<1> QED
  BY <1>1, <1>2, <1>3, <1>4, <1>5, <1>6, <1>7, <1>8 DEF AInv

LEMMA CommitActivationAInv ==
    ASSUME AInv, NEW s \in Starters, CommitActivation(s)
    PROVE  AInv'
<1>1. TypeOK'
  BY RecordFields, NewRecords, NoRecordFields
  DEF AInv, CommitActivation, End, Serving, NoLook, TypeOK, LockInv,
          LaunchedInv, OwnerInv, ActivatedInv
<1>2. LockInv'
  BY RecordFields, NewRecords, NoRecordFields
  DEF AInv, CommitActivation, End, Serving, NoLook, LockInv, TypeOK,
          LaunchedInv, OwnerInv, ActivatedInv
<1>3. LaunchedInv'
  BY RecordFields, NewRecords, NoRecordFields
  DEF AInv, CommitActivation, End, Serving, NoLook, LaunchedInv, TypeOK,
          LockInv, OwnerInv, ActivatedInv
<1>4. OwnerInv'
  BY RecordFields, NewRecords, NoRecordFields
  DEF AInv, CommitActivation, End, Serving, NoLook, OwnerInv, TypeOK,
          LockInv, LaunchedInv, ActivatedInv
<1>5. ActivatedInv'
  BY RecordFields, NewRecords, NoRecordFields
  DEF AInv, CommitActivation, End, Serving, NoLook, ActivatedInv, TypeOK,
          LockInv, LaunchedInv, OwnerInv
<1>6. FinishInv'
  BY RecordFields, NewRecords, NoRecordFields
  DEF AInv, CommitActivation, End, Serving, NoLook, FinishInv, TypeOK,
          LockInv, LaunchedInv, OwnerInv, ActivatedInv
<1>7. LookInv'
  BY RecordFields, NewRecords, NoRecordFields
  DEF AInv, CommitActivation, End, Serving, NoLook, LookInv, TypeOK,
          LockInv, LaunchedInv, OwnerInv, ActivatedInv
<1>8. AgentsRecorded'
  BY RecordFields, NewRecords, NoRecordFields
  DEF AInv, CommitActivation, End, Serving, NoLook, AgentsRecorded, TypeOK,
          LockInv, LaunchedInv, OwnerInv, ActivatedInv
<1> QED
  BY <1>1, <1>2, <1>3, <1>4, <1>5, <1>6, <1>7, <1>8 DEF AInv

LEMMA CommitActivationFailsAInv ==
    ASSUME AInv, NEW s \in Starters, CommitActivationFails(s)
    PROVE  AInv'
<1>1. TypeOK'
  BY RecordFields, NewRecords, NoRecordFields
  DEF AInv, CommitActivationFails, Goto, Serving, TypeOK, LockInv,
          LaunchedInv, OwnerInv, ActivatedInv
<1>2. LockInv'
  BY RecordFields, NewRecords, NoRecordFields
  DEF AInv, CommitActivationFails, Goto, Serving, LockInv, TypeOK,
          LaunchedInv, OwnerInv, ActivatedInv
<1>3. LaunchedInv'
  BY RecordFields, NewRecords, NoRecordFields
  DEF AInv, CommitActivationFails, Goto, Serving, LaunchedInv, TypeOK,
          LockInv, OwnerInv, ActivatedInv
<1>4. OwnerInv'
  BY RecordFields, NewRecords, NoRecordFields
  DEF AInv, CommitActivationFails, Goto, Serving, OwnerInv, TypeOK, LockInv,
          LaunchedInv, ActivatedInv
<1>5. ActivatedInv'
  BY RecordFields, NewRecords, NoRecordFields
  DEF AInv, CommitActivationFails, Goto, Serving, ActivatedInv, TypeOK,
          LockInv, LaunchedInv, OwnerInv
<1>6. FinishInv'
  BY RecordFields, NewRecords, NoRecordFields
  DEF AInv, CommitActivationFails, Goto, Serving, FinishInv, TypeOK,
          LockInv, LaunchedInv, OwnerInv, ActivatedInv
<1>7. LookInv'
  BY RecordFields, NewRecords, NoRecordFields
  DEF AInv, CommitActivationFails, Goto, Serving, LookInv, TypeOK, LockInv,
          LaunchedInv, OwnerInv, ActivatedInv
<1>8. AgentsRecorded'
  BY RecordFields, NewRecords, NoRecordFields
  DEF AInv, CommitActivationFails, Goto, Serving, AgentsRecorded, TypeOK,
          LockInv, LaunchedInv, OwnerInv, ActivatedInv
<1> QED
  BY <1>1, <1>2, <1>3, <1>4, <1>5, <1>6, <1>7, <1>8 DEF AInv

LEMMA UnlinkExitedAInv ==
    ASSUME AInv, NEW s \in Starters, UnlinkExited(s)
    PROVE  AInv'
<1>1. (LaunchedInv /\ ActivatedInv)'
  BY RecordFields, NewRecords, NoRecordFields
  DEF AInv, UnlinkExited, Goto, LaunchedInv, TypeOK, ActivatedInv
<1>2. TypeOK'
  BY RecordFields, NewRecords, NoRecordFields
  DEF AInv, UnlinkExited, Goto, TypeOK, LockInv, LaunchedInv, OwnerInv,
          ActivatedInv
<1>3. LockInv'
  BY RecordFields, NewRecords, NoRecordFields
  DEF AInv, UnlinkExited, Goto, LockInv, TypeOK, LaunchedInv, OwnerInv,
          ActivatedInv
<1>4. OwnerInv'
  BY RecordFields, NewRecords, NoRecordFields
  DEF AInv, UnlinkExited, Goto, OwnerInv, TypeOK, LockInv, LaunchedInv,
          ActivatedInv
<1>5. FinishInv'
  BY RecordFields, NewRecords, NoRecordFields
  DEF AInv, UnlinkExited, Goto, FinishInv, TypeOK, LockInv, LaunchedInv,
          OwnerInv, ActivatedInv
<1>6. LookInv'
  BY RecordFields, NewRecords, NoRecordFields
  DEF AInv, UnlinkExited, Goto, LookInv, TypeOK, LockInv, LaunchedInv,
          OwnerInv, ActivatedInv
<1>7. AgentsRecorded'
  BY RecordFields, NewRecords, NoRecordFields
  DEF AInv, UnlinkExited, Goto, AgentsRecorded, TypeOK, LockInv,
          LaunchedInv, OwnerInv, ActivatedInv
<1> QED
  BY <1>1, <1>2, <1>3, <1>4, <1>5, <1>6, <1>7 DEF AInv

LEMMA RetryAInv ==
    ASSUME AInv, NEW s \in Starters, Retry(s)
    PROVE  AInv'
<1>1. (LaunchedInv /\ ActivatedInv /\ AgentsRecorded)'
  BY RecordFields, NewRecords, NoRecordFields
  DEF AInv, Retry, Goto, LaunchedInv, TypeOK, ActivatedInv, AgentsRecorded
<1>2. TypeOK'
  BY RecordFields, NewRecords, NoRecordFields
  DEF AInv, Retry, Goto, TypeOK, LockInv, LaunchedInv, OwnerInv,
          ActivatedInv
<1>3. LockInv'
  BY RecordFields, NewRecords, NoRecordFields
  DEF AInv, Retry, Goto, LockInv, TypeOK, LaunchedInv, OwnerInv,
          ActivatedInv
<1>4. OwnerInv'
  BY RecordFields, NewRecords, NoRecordFields
  DEF AInv, Retry, Goto, OwnerInv, TypeOK, LockInv, LaunchedInv,
          ActivatedInv
<1>5. FinishInv'
  BY RecordFields, NewRecords, NoRecordFields
  DEF AInv, Retry, Goto, FinishInv, TypeOK, LockInv, LaunchedInv, OwnerInv,
          ActivatedInv
<1>6. LookInv'
  BY RecordFields, NewRecords, NoRecordFields
  DEF AInv, Retry, Goto, LookInv, TypeOK, LockInv, LaunchedInv, OwnerInv,
          ActivatedInv
<1> QED
  BY <1>1, <1>2, <1>3, <1>4, <1>5, <1>6 DEF AInv

LEMMA RetryFailsAInv ==
    ASSUME AInv, NEW s \in Starters, RetryFails(s)
    PROVE  AInv'
<1>1. (LaunchedInv /\ ActivatedInv /\ AgentsRecorded)'
  BY RecordFields, NewRecords, NoRecordFields
  DEF AInv, RetryFails, Goto, LaunchedInv, TypeOK, ActivatedInv,
          AgentsRecorded
<1>2. TypeOK'
  BY RecordFields, NewRecords, NoRecordFields
  DEF AInv, RetryFails, Goto, TypeOK, LockInv, LaunchedInv, OwnerInv,
          ActivatedInv
<1>3. LockInv'
  BY RecordFields, NewRecords, NoRecordFields
  DEF AInv, RetryFails, Goto, LockInv, TypeOK, LaunchedInv, OwnerInv,
          ActivatedInv
<1>4. OwnerInv'
  BY RecordFields, NewRecords, NoRecordFields
  DEF AInv, RetryFails, Goto, OwnerInv, TypeOK, LockInv, LaunchedInv,
          ActivatedInv
<1>5. FinishInv'
  BY RecordFields, NewRecords, NoRecordFields
  DEF AInv, RetryFails, Goto, FinishInv, TypeOK, LockInv, LaunchedInv,
          OwnerInv, ActivatedInv
<1>6. LookInv'
  BY RecordFields, NewRecords, NoRecordFields
  DEF AInv, RetryFails, Goto, LookInv, TypeOK, LockInv, LaunchedInv,
          OwnerInv, ActivatedInv
<1> QED
  BY <1>1, <1>2, <1>3, <1>4, <1>5, <1>6 DEF AInv

LEMMA ReplaceRecordAInv ==
    ASSUME AInv, NEW s \in Starters, ReplaceRecord(s)
    PROVE  AInv'
<1>1. TypeOK'
  BY RecordFields, NewRecords, NoRecordFields
  DEF AInv, ReplaceRecord, TypeOK, LockInv, LaunchedInv, OwnerInv,
          ActivatedInv
<1>2. LockInv'
  BY RecordFields, NewRecords, NoRecordFields
  DEF AInv, ReplaceRecord, LockInv, TypeOK, LaunchedInv, OwnerInv,
          ActivatedInv
<1>3. LaunchedInv'
  BY RecordFields, NewRecords, NoRecordFields
  DEF AInv, ReplaceRecord, LaunchedInv, TypeOK, LockInv, OwnerInv,
          ActivatedInv
<1>4. OwnerInv'
  BY RecordFields, NewRecords, NoRecordFields
  DEF AInv, ReplaceRecord, OwnerInv, TypeOK, LockInv, LaunchedInv,
          ActivatedInv
<1>5. ActivatedInv'
  BY RecordFields, NewRecords, NoRecordFields
  DEF AInv, ReplaceRecord, ActivatedInv, TypeOK, LockInv, LaunchedInv,
          OwnerInv
<1>6. FinishInv'
  BY RecordFields, NewRecords, NoRecordFields
  DEF AInv, ReplaceRecord, FinishInv, TypeOK, LockInv, LaunchedInv,
          OwnerInv, ActivatedInv
<1>7. LookInv'
  BY RecordFields, NewRecords, NoRecordFields
  DEF AInv, ReplaceRecord, LookInv, TypeOK, LockInv, LaunchedInv, OwnerInv,
          ActivatedInv
<1>8. AgentsRecorded'
  BY RecordFields, NewRecords, NoRecordFields
  DEF AInv, ReplaceRecord, AgentsRecorded, TypeOK, LockInv, LaunchedInv,
          OwnerInv, ActivatedInv
<1> QED
  BY <1>1, <1>2, <1>3, <1>4, <1>5, <1>6, <1>7, <1>8 DEF AInv

LEMMA ReplaceFailsAInv ==
    ASSUME AInv, NEW s \in Starters, ReplaceFails(s)
    PROVE  AInv'
<1>1. TypeOK'
  BY RecordFields, NewRecords, NoRecordFields
  DEF AInv, ReplaceFails, TypeOK, LockInv, LaunchedInv, OwnerInv,
          ActivatedInv
<1>2. LockInv'
  BY RecordFields, NewRecords, NoRecordFields
  DEF AInv, ReplaceFails, LockInv, TypeOK, LaunchedInv, OwnerInv,
          ActivatedInv
<1>3. LaunchedInv'
  BY RecordFields, NewRecords, NoRecordFields
  DEF AInv, ReplaceFails, LaunchedInv, TypeOK, LockInv, OwnerInv,
          ActivatedInv
<1>4. OwnerInv'
  BY RecordFields, NewRecords, NoRecordFields
  DEF AInv, ReplaceFails, OwnerInv, TypeOK, LockInv, LaunchedInv,
          ActivatedInv
<1>5. ActivatedInv'
  BY RecordFields, NewRecords, NoRecordFields
  DEF AInv, ReplaceFails, ActivatedInv, TypeOK, LockInv, LaunchedInv,
          OwnerInv
<1>6. FinishInv'
  BY RecordFields, NewRecords, NoRecordFields
  DEF AInv, ReplaceFails, FinishInv, TypeOK, LockInv, LaunchedInv, OwnerInv,
          ActivatedInv
<1>7. LookInv'
  BY RecordFields, NewRecords, NoRecordFields
  DEF AInv, ReplaceFails, LookInv, TypeOK, LockInv, LaunchedInv, OwnerInv,
          ActivatedInv
<1>8. AgentsRecorded'
  BY RecordFields, NewRecords, NoRecordFields
  DEF AInv, ReplaceFails, AgentsRecorded, TypeOK, LockInv, LaunchedInv,
          OwnerInv, ActivatedInv
<1> QED
  BY <1>1, <1>2, <1>3, <1>4, <1>5, <1>6, <1>7, <1>8 DEF AInv

LEMMA CommitExitAInv ==
    ASSUME AInv, NEW s \in Starters, CommitExit(s)
    PROVE  AInv'
<1>1. TypeOK'
  BY RecordFields, NewRecords, NoRecordFields
  DEF AInv, CommitExit, End, NoLook, TypeOK, LockInv, LaunchedInv, OwnerInv,
          ActivatedInv
<1>2. LockInv'
  BY RecordFields, NewRecords, NoRecordFields
  DEF AInv, CommitExit, End, NoLook, LockInv, TypeOK, LaunchedInv, OwnerInv,
          ActivatedInv
<1>3. LaunchedInv'
  BY RecordFields, NewRecords, NoRecordFields
  DEF AInv, CommitExit, End, NoLook, LaunchedInv, TypeOK, LockInv, OwnerInv,
          ActivatedInv
<1>4. OwnerInv'
  BY RecordFields, NewRecords, NoRecordFields
  DEF AInv, CommitExit, End, NoLook, OwnerInv, TypeOK, LockInv, LaunchedInv,
          ActivatedInv
<1>5. ActivatedInv'
  BY RecordFields, NewRecords, NoRecordFields
  DEF AInv, CommitExit, End, NoLook, ActivatedInv, TypeOK, LockInv,
          LaunchedInv, OwnerInv
<1>6. FinishInv'
  BY RecordFields, NewRecords, NoRecordFields
  DEF AInv, CommitExit, End, NoLook, FinishInv, TypeOK, LockInv,
          LaunchedInv, OwnerInv, ActivatedInv
<1>7. LookInv'
  BY RecordFields, NewRecords, NoRecordFields
  DEF AInv, CommitExit, End, NoLook, LookInv, TypeOK, LockInv, LaunchedInv,
          OwnerInv, ActivatedInv
<1>8. AgentsRecorded'
  BY RecordFields, NewRecords, NoRecordFields
  DEF AInv, CommitExit, End, NoLook, AgentsRecorded, TypeOK, LockInv,
          LaunchedInv, OwnerInv, ActivatedInv
<1> QED
  BY <1>1, <1>2, <1>3, <1>4, <1>5, <1>6, <1>7, <1>8 DEF AInv

LEMMA CommitTimeoutAInv ==
    ASSUME AInv, NEW s \in Starters, CommitTimeout(s)
    PROVE  AInv'
<1>1. TypeOK'
  BY RecordFields, NewRecords, NoRecordFields
  DEF AInv, CommitTimeout, Goto, TypeOK, LockInv, LaunchedInv, OwnerInv,
          ActivatedInv
<1>2. LockInv'
  BY RecordFields, NewRecords, NoRecordFields
  DEF AInv, CommitTimeout, Goto, LockInv, TypeOK, LaunchedInv, OwnerInv,
          ActivatedInv
<1>3. LaunchedInv'
  BY RecordFields, NewRecords, NoRecordFields
  DEF AInv, CommitTimeout, Goto, LaunchedInv, TypeOK, LockInv, OwnerInv,
          ActivatedInv
<1>4. OwnerInv'
  BY RecordFields, NewRecords, NoRecordFields
  DEF AInv, CommitTimeout, Goto, OwnerInv, TypeOK, LockInv, LaunchedInv,
          ActivatedInv
<1>5. ActivatedInv'
  BY RecordFields, NewRecords, NoRecordFields
  DEF AInv, CommitTimeout, Goto, ActivatedInv, TypeOK, LockInv, LaunchedInv,
          OwnerInv
<1>6. FinishInv'
  BY RecordFields, NewRecords, NoRecordFields
  DEF AInv, CommitTimeout, Goto, FinishInv, TypeOK, LockInv, LaunchedInv,
          OwnerInv, ActivatedInv
<1>7. LookInv'
  BY RecordFields, NewRecords, NoRecordFields
  DEF AInv, CommitTimeout, Goto, LookInv, TypeOK, LockInv, LaunchedInv,
          OwnerInv, ActivatedInv
<1>8. AgentsRecorded'
  BY RecordFields, NewRecords, NoRecordFields
  DEF AInv, CommitTimeout, Goto, AgentsRecorded, TypeOK, LockInv,
          LaunchedInv, OwnerInv, ActivatedInv
<1> QED
  BY <1>1, <1>2, <1>3, <1>4, <1>5, <1>6, <1>7, <1>8 DEF AInv

LEMMA CommitFailureFailsAInv ==
    ASSUME AInv, NEW s \in Starters, CommitFailureFails(s)
    PROVE  AInv'
<1>1. TypeOK'
  BY RecordFields, NewRecords, NoRecordFields
  DEF AInv, CommitFailureFails, Goto, TypeOK, LockInv, LaunchedInv,
          OwnerInv, ActivatedInv
<1>2. LockInv'
  BY RecordFields, NewRecords, NoRecordFields
  DEF AInv, CommitFailureFails, Goto, LockInv, TypeOK, LaunchedInv,
          OwnerInv, ActivatedInv
<1>3. LaunchedInv'
  BY RecordFields, NewRecords, NoRecordFields
  DEF AInv, CommitFailureFails, Goto, LaunchedInv, TypeOK, LockInv,
          OwnerInv, ActivatedInv
<1>4. OwnerInv'
  BY RecordFields, NewRecords, NoRecordFields
  DEF AInv, CommitFailureFails, Goto, OwnerInv, TypeOK, LockInv,
          LaunchedInv, ActivatedInv
<1>5. ActivatedInv'
  BY RecordFields, NewRecords, NoRecordFields
  DEF AInv, CommitFailureFails, Goto, ActivatedInv, TypeOK, LockInv,
          LaunchedInv, OwnerInv
<1>6. FinishInv'
  BY RecordFields, NewRecords, NoRecordFields
  DEF AInv, CommitFailureFails, Goto, FinishInv, TypeOK, LockInv,
          LaunchedInv, OwnerInv, ActivatedInv
<1>7. LookInv'
  BY RecordFields, NewRecords, NoRecordFields
  DEF AInv, CommitFailureFails, Goto, LookInv, TypeOK, LockInv, LaunchedInv,
          OwnerInv, ActivatedInv
<1>8. AgentsRecorded'
  BY RecordFields, NewRecords, NoRecordFields
  DEF AInv, CommitFailureFails, Goto, AgentsRecorded, TypeOK, LockInv,
          LaunchedInv, OwnerInv, ActivatedInv
<1> QED
  BY <1>1, <1>2, <1>3, <1>4, <1>5, <1>6, <1>7, <1>8 DEF AInv

LEMMA AbortAInv ==
    ASSUME AInv, NEW s \in Starters, Abort(s)
    PROVE  AInv'
<1>1. TypeOK'
  BY RecordFields, NewRecords, NoRecordFields
  DEF AInv, Abort, Goto, TypeOK, LockInv, LaunchedInv, OwnerInv,
          ActivatedInv
<1>2. LockInv'
  BY RecordFields, NewRecords, NoRecordFields
  DEF AInv, Abort, Goto, LockInv, TypeOK, LaunchedInv, OwnerInv,
          ActivatedInv
<1>3. LaunchedInv'
  BY RecordFields, NewRecords, NoRecordFields
  DEF AInv, Abort, Goto, LaunchedInv, TypeOK, LockInv, OwnerInv,
          ActivatedInv
<1>4. OwnerInv'
  BY RecordFields, NewRecords, NoRecordFields
  DEF AInv, Abort, Goto, OwnerInv, TypeOK, LockInv, LaunchedInv,
          ActivatedInv
<1>5. ActivatedInv'
  BY RecordFields, NewRecords, NoRecordFields
  DEF AInv, Abort, Goto, ActivatedInv, TypeOK, LockInv, LaunchedInv,
          OwnerInv
<1>6. FinishInv'
  BY RecordFields, NewRecords, NoRecordFields
  DEF AInv, Abort, Goto, FinishInv, TypeOK, LockInv, LaunchedInv, OwnerInv,
          ActivatedInv
<1>7. LookInv'
  BY RecordFields, NewRecords, NoRecordFields
  DEF AInv, Abort, Goto, LookInv, TypeOK, LockInv, LaunchedInv, OwnerInv,
          ActivatedInv
<1>8. AgentsRecorded'
  BY RecordFields, NewRecords, NoRecordFields
  DEF AInv, Abort, Goto, AgentsRecorded, TypeOK, LockInv, LaunchedInv,
          OwnerInv, ActivatedInv
<1> QED
  BY <1>1, <1>2, <1>3, <1>4, <1>5, <1>6, <1>7, <1>8 DEF AInv

LEMMA AbortUnrecordedAInv ==
    ASSUME AInv, NEW s \in Starters, AbortUnrecorded(s)
    PROVE  AInv'
<1>1. (LaunchedInv /\ ActivatedInv /\ AgentsRecorded)'
  BY RecordFields, NewRecords, NoRecordFields
  DEF AInv, AbortUnrecorded, Goto, LaunchedInv, TypeOK, ActivatedInv,
          AgentsRecorded
<1>2. TypeOK'
  BY RecordFields, NewRecords, NoRecordFields
  DEF AInv, AbortUnrecorded, Goto, TypeOK, LockInv, LaunchedInv, OwnerInv,
          ActivatedInv
<1>3. LockInv'
  BY RecordFields, NewRecords, NoRecordFields
  DEF AInv, AbortUnrecorded, Goto, LockInv, TypeOK, LaunchedInv, OwnerInv,
          ActivatedInv
<1>4. OwnerInv'
  BY RecordFields, NewRecords, NoRecordFields
  DEF AInv, AbortUnrecorded, Goto, OwnerInv, TypeOK, LockInv, LaunchedInv,
          ActivatedInv
<1>5. FinishInv'
  BY RecordFields, NewRecords, NoRecordFields
  DEF AInv, AbortUnrecorded, Goto, FinishInv, TypeOK, LockInv, LaunchedInv,
          OwnerInv, ActivatedInv
<1>6. LookInv'
  BY RecordFields, NewRecords, NoRecordFields
  DEF AInv, AbortUnrecorded, Goto, LookInv, TypeOK, LockInv, LaunchedInv,
          OwnerInv, ActivatedInv
<1> QED
  BY <1>1, <1>2, <1>3, <1>4, <1>5, <1>6 DEF AInv

LEMMA CleanupAInv ==
    ASSUME AInv, NEW s \in Starters, Cleanup(s)
    PROVE  AInv'
<1>1. (LaunchedInv /\ ActivatedInv /\ AgentsRecorded)'
  BY RecordFields, NewRecords, NoRecordFields
  DEF AInv, Cleanup, LaunchedInv, TypeOK, ActivatedInv, AgentsRecorded
<1>2. TypeOK'
  BY RecordFields, NewRecords, NoRecordFields
  DEF AInv, Cleanup, TypeOK, LockInv, LaunchedInv, OwnerInv, ActivatedInv
<1>3. LockInv'
  BY RecordFields, NewRecords, NoRecordFields
  DEF AInv, Cleanup, LockInv, TypeOK, LaunchedInv, OwnerInv, ActivatedInv
<1>4. OwnerInv'
  BY RecordFields, NewRecords, NoRecordFields
  DEF AInv, Cleanup, OwnerInv, TypeOK, LockInv, LaunchedInv, ActivatedInv
<1>5. FinishInv'
  BY RecordFields, NewRecords, NoRecordFields
  DEF AInv, Cleanup, FinishInv, TypeOK, LockInv, LaunchedInv, OwnerInv,
          ActivatedInv
<1>6. LookInv'
  BY RecordFields, NewRecords, NoRecordFields
  DEF AInv, Cleanup, LookInv, TypeOK, LockInv, LaunchedInv, OwnerInv,
          ActivatedInv
<1> QED
  BY <1>1, <1>2, <1>3, <1>4, <1>5, <1>6 DEF AInv

LEMMA KillAInv ==
    ASSUME AInv, NEW s \in Starters, Kill(s)
    PROVE  AInv'
<1>1. TypeOK'
  BY RecordFields, NewRecords, NoRecordFields
  DEF AInv, Kill, Goto, TypeOK, LockInv, LaunchedInv, OwnerInv, ActivatedInv
<1>2. LockInv'
  BY RecordFields, NewRecords, NoRecordFields
  DEF AInv, Kill, Goto, LockInv, TypeOK, LaunchedInv, OwnerInv, ActivatedInv
<1>3. LaunchedInv'
  BY RecordFields, NewRecords, NoRecordFields
  DEF AInv, Kill, Goto, LaunchedInv, TypeOK, LockInv, OwnerInv, ActivatedInv
<1>4. OwnerInv'
  BY RecordFields, NewRecords, NoRecordFields
  DEF AInv, Kill, Goto, OwnerInv, TypeOK, LockInv, LaunchedInv, ActivatedInv
<1>5. ActivatedInv'
  BY RecordFields, NewRecords, NoRecordFields
  DEF AInv, Kill, Goto, ActivatedInv, TypeOK, LockInv, LaunchedInv, OwnerInv
<1>6. FinishInv'
  BY RecordFields, NewRecords, NoRecordFields
  DEF AInv, Kill, Goto, FinishInv, TypeOK, LockInv, LaunchedInv, OwnerInv,
          ActivatedInv
<1>7. LookInv'
  BY RecordFields, NewRecords, NoRecordFields
  DEF AInv, Kill, Goto, LookInv, TypeOK, LockInv, LaunchedInv, OwnerInv,
          ActivatedInv
<1>8. AgentsRecorded'
  BY RecordFields, NewRecords, NoRecordFields
  DEF AInv, Kill, Goto, AgentsRecorded, TypeOK, LockInv, LaunchedInv,
          OwnerInv, ActivatedInv
<1> QED
  BY <1>1, <1>2, <1>3, <1>4, <1>5, <1>6, <1>7, <1>8 DEF AInv

LEMMA SweepAInv ==
    ASSUME AInv, NEW s \in Starters, Sweep(s)
    PROVE  AInv'
<1>1. TypeOK'
  BY RecordFields, NewRecords, NoRecordFields
  DEF AInv, Sweep, End, NoLook, TypeOK, LockInv, LaunchedInv, OwnerInv,
          ActivatedInv
<1>2. LockInv'
  BY RecordFields, NewRecords, NoRecordFields
  DEF AInv, Sweep, End, NoLook, LockInv, TypeOK, LaunchedInv, OwnerInv,
          ActivatedInv
<1>3. LaunchedInv'
  BY RecordFields, NewRecords, NoRecordFields
  DEF AInv, Sweep, End, NoLook, LaunchedInv, TypeOK, LockInv, OwnerInv,
          ActivatedInv
<1>4. OwnerInv'
  BY RecordFields, NewRecords, NoRecordFields
  DEF AInv, Sweep, End, NoLook, OwnerInv, TypeOK, LockInv, LaunchedInv,
          ActivatedInv
<1>5. ActivatedInv'
  BY RecordFields, NewRecords, NoRecordFields
  DEF AInv, Sweep, End, NoLook, ActivatedInv, TypeOK, LockInv, LaunchedInv,
          OwnerInv
<1>6. FinishInv'
  BY RecordFields, NewRecords, NoRecordFields
  DEF AInv, Sweep, End, NoLook, FinishInv, TypeOK, LockInv, LaunchedInv,
          OwnerInv, ActivatedInv
<1>7. LookInv'
  BY RecordFields, NewRecords, NoRecordFields
  DEF AInv, Sweep, End, NoLook, LookInv, TypeOK, LockInv, LaunchedInv,
          OwnerInv, ActivatedInv
<1>8. AgentsRecorded'
  BY RecordFields, NewRecords, NoRecordFields
  DEF AInv, Sweep, End, NoLook, AgentsRecorded, TypeOK, LockInv,
          LaunchedInv, OwnerInv, ActivatedInv
<1> QED
  BY <1>1, <1>2, <1>3, <1>4, <1>5, <1>6, <1>7, <1>8 DEF AInv

LEMMA LookAInv ==
    ASSUME AInv, NEW c \in Clients, Look(c)
    PROVE  AInv'
<1>1. (LaunchedInv /\ ActivatedInv /\ AgentsRecorded)'
  BY RecordFields, NewRecords, NoRecordFields
  DEF AInv, Look, Serving, Alive, LaunchedInv, TypeOK, ActivatedInv,
          AgentsRecorded
<1>2. TypeOK'
  BY RecordFields, NewRecords, NoRecordFields
  DEF AInv, Look, Serving, Alive, TypeOK, LockInv, LaunchedInv, OwnerInv,
          ActivatedInv
<1>3. LockInv'
  BY RecordFields, NewRecords, NoRecordFields
  DEF AInv, Look, Serving, Alive, LockInv, TypeOK, LaunchedInv, OwnerInv,
          ActivatedInv
<1>4. OwnerInv'
  BY RecordFields, NewRecords, NoRecordFields
  DEF AInv, Look, Serving, Alive, OwnerInv, TypeOK, LockInv, LaunchedInv,
          ActivatedInv
<1>5. FinishInv'
  BY RecordFields, NewRecords, NoRecordFields
  DEF AInv, Look, Serving, Alive, FinishInv, TypeOK, LockInv, LaunchedInv,
          OwnerInv, ActivatedInv
<1>6. LookInv'
  <2> SUFFICES ASSUME NEW d \in Clients
               PROVE  /\ pc'[d] \in {"observe", "reconcile", "pending"} => at'[d] \in Procs
                      /\ pc'[d] = "reconcile" /\ ~look'[d].alive => proc'[at'[d]] = "gone"
    BY RecordFields, NewRecords, NoRecordFields
  DEF LookInv
  <2>1. CASE d = c
    <3>1. at[c] \in Procs /\ proc[at[c]] # "none"
      BY RecordFields, NewRecords, NoRecordFields
  DEF AInv, Look, LookInv, LaunchedInv
    <3>2. look'[c].alive = Alive(at[c])
      BY RecordFields, NewRecords, NoRecordFields
  DEF AInv, TypeOK, Look
    <3>3. ~Alive(at[c]) => proc[at[c]] = "gone"
      BY <3>1 DEF AInv, TypeOK, Alive
    <3> QED
      BY <2>1, <3>1, <3>2, <3>3 DEF Look
  <2>2. CASE d # c
    BY <2>2 DEF AInv, TypeOK, Look, LookInv
  <2> QED
    BY <2>1, <2>2
<1> QED
  BY <1>1, <1>2, <1>3, <1>4, <1>5, <1>6 DEF AInv

LEMMA PendingAInv ==
    ASSUME AInv, NEW c \in Clients, Pending(c)
    PROVE  AInv'
<1>1. (LaunchedInv /\ ActivatedInv /\ AgentsRecorded)'
  BY RecordFields, NewRecords, NoRecordFields
  DEF AInv, Pending, Reconciling, Goto, LaunchedInv, TypeOK, ActivatedInv,
          AgentsRecorded
<1>2. TypeOK'
  BY RecordFields, NewRecords, NoRecordFields
  DEF AInv, Pending, Reconciling, Goto, TypeOK, LockInv, LaunchedInv,
          OwnerInv, ActivatedInv, LookInv
<1>3. LockInv'
  BY RecordFields, NewRecords, NoRecordFields
  DEF AInv, Pending, Reconciling, Goto, LockInv, TypeOK, LaunchedInv,
          OwnerInv, ActivatedInv, LookInv
<1>4. OwnerInv'
  BY RecordFields, NewRecords, NoRecordFields
  DEF AInv, Pending, Reconciling, Goto, OwnerInv, TypeOK, LockInv,
          LaunchedInv, ActivatedInv, LookInv
<1>5. FinishInv'
  BY RecordFields, NewRecords, NoRecordFields
  DEF AInv, Pending, Reconciling, Goto, FinishInv, TypeOK, LockInv,
          LaunchedInv, OwnerInv, ActivatedInv, LookInv
<1>6. LookInv'
  BY RecordFields, NewRecords, NoRecordFields
  DEF AInv, Pending, Reconciling, Goto, LookInv, TypeOK, LockInv,
          LaunchedInv, OwnerInv, ActivatedInv
<1> QED
  BY <1>1, <1>2, <1>3, <1>4, <1>5, <1>6 DEF AInv

LEMMA ExpireAInv ==
    ASSUME AInv, NEW c \in Clients, Expire(c)
    PROVE  AInv'
<1>1. TypeOK'
  BY RecordFields, NewRecords, NoRecordFields
  DEF AInv, Expire, End, NoLook, TypeOK, LockInv, LaunchedInv, OwnerInv,
          ActivatedInv
<1>2. LockInv'
  BY RecordFields, NewRecords, NoRecordFields
  DEF AInv, Expire, End, NoLook, LockInv, TypeOK, LaunchedInv, OwnerInv,
          ActivatedInv
<1>3. LaunchedInv'
  BY RecordFields, NewRecords, NoRecordFields
  DEF AInv, Expire, End, NoLook, LaunchedInv, TypeOK, LockInv, OwnerInv,
          ActivatedInv
<1>4. OwnerInv'
  BY RecordFields, NewRecords, NoRecordFields
  DEF AInv, Expire, End, NoLook, OwnerInv, TypeOK, LockInv, LaunchedInv,
          ActivatedInv
<1>5. ActivatedInv'
  BY RecordFields, NewRecords, NoRecordFields
  DEF AInv, Expire, End, NoLook, ActivatedInv, TypeOK, LockInv, LaunchedInv,
          OwnerInv
<1>6. FinishInv'
  BY RecordFields, NewRecords, NoRecordFields
  DEF AInv, Expire, End, NoLook, FinishInv, TypeOK, LockInv, LaunchedInv,
          OwnerInv, ActivatedInv
<1>7. LookInv'
  BY RecordFields, NewRecords, NoRecordFields
  DEF AInv, Expire, End, NoLook, LookInv, TypeOK, LockInv, LaunchedInv,
          OwnerInv, ActivatedInv
<1>8. AgentsRecorded'
  BY RecordFields, NewRecords, NoRecordFields
  DEF AInv, Expire, End, NoLook, AgentsRecorded, TypeOK, LockInv,
          LaunchedInv, OwnerInv, ActivatedInv
<1> QED
  BY <1>1, <1>2, <1>3, <1>4, <1>5, <1>6, <1>7, <1>8 DEF AInv

LEMMA FollowAInv ==
    ASSUME AInv, NEW c \in Clients, Follow(c)
    PROVE  AInv'
<1>1. (ActivatedInv /\ AgentsRecorded)'
  BY RecordFields, NewRecords, NoRecordFields
  DEF AInv, Follow, Reconciling, ActivatedInv, TypeOK, AgentsRecorded
<1>2. TypeOK'
  BY RecordFields, NewRecords, NoRecordFields
  DEF AInv, Follow, Reconciling, TypeOK, LockInv, LaunchedInv, OwnerInv,
          ActivatedInv
<1>3. LockInv'
  BY RecordFields, NewRecords, NoRecordFields
  DEF AInv, Follow, Reconciling, LockInv, TypeOK, LaunchedInv, OwnerInv,
          ActivatedInv
<1>4. LaunchedInv'
  BY RecordFields, NewRecords, NoRecordFields
  DEF AInv, Follow, Reconciling, LaunchedInv, TypeOK, LockInv, OwnerInv,
          ActivatedInv
<1>5. OwnerInv'
  BY RecordFields, NewRecords, NoRecordFields
  DEF AInv, Follow, Reconciling, OwnerInv, TypeOK, LockInv, LaunchedInv,
          ActivatedInv
<1>6. FinishInv'
  BY RecordFields, NewRecords, NoRecordFields
  DEF AInv, Follow, Reconciling, FinishInv, TypeOK, LockInv, LaunchedInv,
          OwnerInv, ActivatedInv
<1>7. LookInv'
  BY RecordFields, NewRecords, NoRecordFields
  DEF AInv, Follow, Reconciling, LookInv, TypeOK, LockInv, LaunchedInv,
          OwnerInv, ActivatedInv
<1> QED
  BY <1>1, <1>2, <1>3, <1>4, <1>5, <1>6, <1>7 DEF AInv

LEMMA ResolvedAInv ==
    ASSUME AInv, NEW c \in Clients, Resolved(c)
    PROVE  AInv'
<1>1. TypeOK'
  BY RecordFields, NewRecords, NoRecordFields
  DEF AInv, Resolved, Reconciling, End, NoLook, TypeOK, LockInv,
          LaunchedInv, OwnerInv, ActivatedInv
<1>2. LockInv'
  BY RecordFields, NewRecords, NoRecordFields
  DEF AInv, Resolved, Reconciling, End, NoLook, LockInv, TypeOK,
          LaunchedInv, OwnerInv, ActivatedInv
<1>3. LaunchedInv'
  BY RecordFields, NewRecords, NoRecordFields
  DEF AInv, Resolved, Reconciling, End, NoLook, LaunchedInv, TypeOK,
          LockInv, OwnerInv, ActivatedInv
<1>4. OwnerInv'
  BY RecordFields, NewRecords, NoRecordFields
  DEF AInv, Resolved, Reconciling, End, NoLook, OwnerInv, TypeOK, LockInv,
          LaunchedInv, ActivatedInv
<1>5. ActivatedInv'
  BY RecordFields, NewRecords, NoRecordFields
  DEF AInv, Resolved, Reconciling, End, NoLook, ActivatedInv, TypeOK,
          LockInv, LaunchedInv, OwnerInv
<1>6. FinishInv'
  BY RecordFields, NewRecords, NoRecordFields
  DEF AInv, Resolved, Reconciling, End, NoLook, FinishInv, TypeOK, LockInv,
          LaunchedInv, OwnerInv, ActivatedInv
<1>7. LookInv'
  BY RecordFields, NewRecords, NoRecordFields
  DEF AInv, Resolved, Reconciling, End, NoLook, LookInv, TypeOK, LockInv,
          LaunchedInv, OwnerInv, ActivatedInv
<1>8. AgentsRecorded'
  BY RecordFields, NewRecords, NoRecordFields
  DEF AInv, Resolved, Reconciling, End, NoLook, AgentsRecorded, TypeOK,
          LockInv, LaunchedInv, OwnerInv, ActivatedInv
<1> QED
  BY <1>1, <1>2, <1>3, <1>4, <1>5, <1>6, <1>7, <1>8 DEF AInv

LEMMA PromoteAInv ==
    ASSUME AInv, NEW c \in Clients, Promote(c)
    PROVE  AInv'
<1>1. TypeOK'
  BY RecordFields, NewRecords, NoRecordFields
  DEF AInv, Promote, Reconciling, Observed, OwnerBusy, End, Serving, NoLook,
          TypeOK, LockInv, LaunchedInv, OwnerInv, ActivatedInv, LookInv
<1>2. LockInv'
  BY RecordFields, NewRecords, NoRecordFields
  DEF AInv, Promote, Reconciling, Observed, OwnerBusy, End, Serving, NoLook,
          LockInv, TypeOK, LaunchedInv, OwnerInv, ActivatedInv, LookInv
<1>3. LaunchedInv'
  BY RecordFields, NewRecords, NoRecordFields
  DEF AInv, Promote, Reconciling, Observed, OwnerBusy, End, Serving, NoLook,
          LaunchedInv, TypeOK, LockInv, OwnerInv, ActivatedInv, LookInv
<1>4. OwnerInv'
  BY RecordFields, NewRecords, NoRecordFields
  DEF AInv, Promote, Reconciling, Observed, OwnerBusy, End, Serving, NoLook,
          OwnerInv, TypeOK, LockInv, LaunchedInv, ActivatedInv, LookInv
<1>5. ActivatedInv'
  BY RecordFields, NewRecords, NoRecordFields
  DEF AInv, Promote, Reconciling, Observed, OwnerBusy, End, Serving, NoLook,
          ActivatedInv, TypeOK, LockInv, LaunchedInv, OwnerInv, LookInv
<1>6. FinishInv'
  BY RecordFields, NewRecords, NoRecordFields
  DEF AInv, Promote, Reconciling, Observed, OwnerBusy, End, Serving, NoLook,
          FinishInv, TypeOK, LockInv, LaunchedInv, OwnerInv, ActivatedInv,
          LookInv
<1>7. LookInv'
  BY RecordFields, NewRecords, NoRecordFields
  DEF AInv, Promote, Reconciling, Observed, OwnerBusy, End, Serving, NoLook,
          LookInv, TypeOK, LockInv, LaunchedInv, OwnerInv, ActivatedInv
<1>8. AgentsRecorded'
  BY RecordFields, NewRecords, NoRecordFields
  DEF AInv, Promote, Reconciling, Observed, OwnerBusy, End, Serving, NoLook,
          AgentsRecorded, TypeOK, LockInv, LaunchedInv, OwnerInv, ActivatedInv,
          LookInv
<1> QED
  BY <1>1, <1>2, <1>3, <1>4, <1>5, <1>6, <1>7, <1>8 DEF AInv

LEMMA RecoverOrphanAInv ==
    ASSUME AInv, NEW c \in Clients, RecoverOrphan(c)
    PROVE  AInv'
<1>1. TypeOK'
  BY RecordFields, NewRecords, NoRecordFields
  DEF AInv, RecoverOrphan, Reconciling, Observed, OwnerBusy, DeadFailure,
          Alive, End, NoLook, TypeOK, LockInv, LaunchedInv, OwnerInv,
          ActivatedInv, LookInv
<1>2. LockInv'
  BY RecordFields, NewRecords, NoRecordFields
  DEF AInv, RecoverOrphan, Reconciling, Observed, OwnerBusy, DeadFailure,
          Alive, End, NoLook, LockInv, TypeOK, LaunchedInv, OwnerInv,
          ActivatedInv, LookInv
<1>3. LaunchedInv'
  BY RecordFields, NewRecords, NoRecordFields
  DEF AInv, RecoverOrphan, Reconciling, Observed, OwnerBusy, DeadFailure,
          Alive, End, NoLook, LaunchedInv, TypeOK, LockInv, OwnerInv,
          ActivatedInv, LookInv
<1>4. OwnerInv'
  BY RecordFields, NewRecords, NoRecordFields
  DEF AInv, RecoverOrphan, Reconciling, Observed, OwnerBusy, DeadFailure,
          Alive, End, NoLook, OwnerInv, TypeOK, LockInv, LaunchedInv,
          ActivatedInv, LookInv
<1>5. ActivatedInv'
  BY RecordFields, NewRecords, NoRecordFields
  DEF AInv, RecoverOrphan, Reconciling, Observed, OwnerBusy, DeadFailure,
          Alive, End, NoLook, ActivatedInv, TypeOK, LockInv, LaunchedInv,
          OwnerInv, LookInv
<1>6. FinishInv'
  BY RecordFields, NewRecords, NoRecordFields
  DEF AInv, RecoverOrphan, Reconciling, Observed, OwnerBusy, DeadFailure,
          Alive, End, NoLook, FinishInv, TypeOK, LockInv, LaunchedInv,
          OwnerInv, ActivatedInv, LookInv
<1>7. LookInv'
  BY RecordFields, NewRecords, NoRecordFields
  DEF AInv, RecoverOrphan, Reconciling, Observed, OwnerBusy, DeadFailure,
          Alive, End, NoLook, LookInv, TypeOK, LockInv, LaunchedInv, OwnerInv,
          ActivatedInv
<1>8. AgentsRecorded'
  BY RecordFields, NewRecords, NoRecordFields
  DEF AInv, RecoverOrphan, Reconciling, Observed, OwnerBusy, DeadFailure,
          Alive, End, NoLook, AgentsRecorded, TypeOK, LockInv, LaunchedInv,
          OwnerInv, ActivatedInv, LookInv
<1> QED
  BY <1>1, <1>2, <1>3, <1>4, <1>5, <1>6, <1>7, <1>8 DEF AInv

LEMMA ReconcileRefusedAInv ==
    ASSUME AInv, NEW c \in Clients, ReconcileRefused(c)
    PROVE  AInv'
<1>1. TypeOK'
  BY RecordFields, NewRecords, NoRecordFields
  DEF AInv, ReconcileRefused, Reconciling, End, NoLook, TypeOK, LockInv,
          LaunchedInv, OwnerInv, ActivatedInv
<1>2. LockInv'
  BY RecordFields, NewRecords, NoRecordFields
  DEF AInv, ReconcileRefused, Reconciling, End, NoLook, LockInv, TypeOK,
          LaunchedInv, OwnerInv, ActivatedInv
<1>3. LaunchedInv'
  BY RecordFields, NewRecords, NoRecordFields
  DEF AInv, ReconcileRefused, Reconciling, End, NoLook, LaunchedInv, TypeOK,
          LockInv, OwnerInv, ActivatedInv
<1>4. OwnerInv'
  BY RecordFields, NewRecords, NoRecordFields
  DEF AInv, ReconcileRefused, Reconciling, End, NoLook, OwnerInv, TypeOK,
          LockInv, LaunchedInv, ActivatedInv
<1>5. ActivatedInv'
  BY RecordFields, NewRecords, NoRecordFields
  DEF AInv, ReconcileRefused, Reconciling, End, NoLook, ActivatedInv,
          TypeOK, LockInv, LaunchedInv, OwnerInv
<1>6. FinishInv'
  BY RecordFields, NewRecords, NoRecordFields
  DEF AInv, ReconcileRefused, Reconciling, End, NoLook, FinishInv, TypeOK,
          LockInv, LaunchedInv, OwnerInv, ActivatedInv
<1>7. LookInv'
  BY RecordFields, NewRecords, NoRecordFields
  DEF AInv, ReconcileRefused, Reconciling, End, NoLook, LookInv, TypeOK,
          LockInv, LaunchedInv, OwnerInv, ActivatedInv
<1>8. AgentsRecorded'
  BY RecordFields, NewRecords, NoRecordFields
  DEF AInv, ReconcileRefused, Reconciling, End, NoLook, AgentsRecorded,
          TypeOK, LockInv, LaunchedInv, OwnerInv, ActivatedInv
<1> QED
  BY <1>1, <1>2, <1>3, <1>4, <1>5, <1>6, <1>7, <1>8 DEF AInv

LEMMA StopBeginAInv ==
    ASSUME AInv, NEW k \in Stoppers, StopBegin(k)
    PROVE  AInv'
<1>1. TypeOK'
  <2>1. record \in Ownership /\ record.state = "active"
    BY RecordFields, NoRecordFields DEF AInv, TypeOK, StopBegin, Status
  <2>2. /\ record' \in Ownership
        /\ record'.state = "stopping" /\ record'.socket = record.socket
    BY <2>1 DEF StopBegin, Ownership
  <2>3. record.socket # None
    BY <2>1 DEF AInv, TypeOK
  <2> QED
    BY <2>1, <2>2, <2>3 DEF AInv, StopBegin, TypeOK, Ownership
<1>2. LockInv'
  BY RecordFields, NewRecords, NoRecordFields
  DEF AInv, StopBegin, Status, Serving, LockInv, TypeOK, LaunchedInv,
          OwnerInv, ActivatedInv
<1>3. LaunchedInv'
  BY RecordFields, NewRecords, NoRecordFields
  DEF AInv, StopBegin, Status, Serving, LaunchedInv, TypeOK, LockInv,
          OwnerInv, ActivatedInv
<1>4. OwnerInv'
  BY RecordFields, NewRecords, NoRecordFields
  DEF AInv, StopBegin, Status, Serving, OwnerInv, TypeOK, LockInv,
          LaunchedInv, ActivatedInv
<1>5. ActivatedInv'
  BY RecordFields, NewRecords, NoRecordFields
  DEF AInv, StopBegin, Status, Serving, ActivatedInv, TypeOK, LockInv,
          LaunchedInv, OwnerInv
<1>6. FinishInv'
  BY RecordFields, NewRecords, NoRecordFields
  DEF AInv, StopBegin, Status, Serving, FinishInv, TypeOK, LockInv,
          LaunchedInv, OwnerInv, ActivatedInv
<1>7. LookInv'
  BY RecordFields, NewRecords, NoRecordFields
  DEF AInv, StopBegin, Status, Serving, LookInv, TypeOK, LockInv,
          LaunchedInv, OwnerInv, ActivatedInv
<1>8. AgentsRecorded'
  BY RecordFields, NewRecords, NoRecordFields
  DEF AInv, StopBegin, Status, Serving, AgentsRecorded, TypeOK, LockInv,
          LaunchedInv, OwnerInv, ActivatedInv
<1> QED
  BY <1>1, <1>2, <1>3, <1>4, <1>5, <1>6, <1>7, <1>8 DEF AInv

LEMMA TerminateAInv ==
    ASSUME AInv, NEW c \in Clients, Terminate(c)
    PROVE  AInv'
<1>1. (LaunchedInv /\ ActivatedInv /\ AgentsRecorded)'
  BY RecordFields, NewRecords, NoRecordFields
  DEF AInv, Terminate, Goto, LaunchedInv, TypeOK, ActivatedInv,
          AgentsRecorded
<1>2. TypeOK'
  BY RecordFields, NewRecords, NoRecordFields
  DEF AInv, Terminate, Goto, TypeOK, LockInv, LaunchedInv, OwnerInv,
          ActivatedInv, FinishInv
<1>3. LockInv'
  BY RecordFields, NewRecords, NoRecordFields
  DEF AInv, Terminate, Goto, LockInv, TypeOK, LaunchedInv, OwnerInv,
          ActivatedInv, FinishInv
<1>4. OwnerInv'
  BY RecordFields, NewRecords, NoRecordFields
  DEF AInv, Terminate, Goto, OwnerInv, TypeOK, LockInv, LaunchedInv,
          ActivatedInv, FinishInv
<1>5. FinishInv'
  BY RecordFields, NewRecords, NoRecordFields
  DEF AInv, Terminate, Goto, FinishInv, TypeOK, LockInv, LaunchedInv,
          OwnerInv, ActivatedInv
<1>6. LookInv'
  BY RecordFields, NewRecords, NoRecordFields
  DEF AInv, Terminate, Goto, LookInv, TypeOK, LockInv, LaunchedInv,
          OwnerInv, ActivatedInv, FinishInv
<1> QED
  BY <1>1, <1>2, <1>3, <1>4, <1>5, <1>6 DEF AInv

LEMMA TerminateRefusedAInv ==
    ASSUME AInv, NEW c \in Clients, TerminateRefused(c)
    PROVE  AInv'
<1>1. TypeOK'
  BY RecordFields, NewRecords, NoRecordFields
  DEF AInv, TerminateRefused, End, NoLook, TypeOK, LockInv, LaunchedInv,
          OwnerInv, ActivatedInv
<1>2. LockInv'
  BY RecordFields, NewRecords, NoRecordFields
  DEF AInv, TerminateRefused, End, NoLook, LockInv, TypeOK, LaunchedInv,
          OwnerInv, ActivatedInv
<1>3. LaunchedInv'
  BY RecordFields, NewRecords, NoRecordFields
  DEF AInv, TerminateRefused, End, NoLook, LaunchedInv, TypeOK, LockInv,
          OwnerInv, ActivatedInv
<1>4. OwnerInv'
  BY RecordFields, NewRecords, NoRecordFields
  DEF AInv, TerminateRefused, End, NoLook, OwnerInv, TypeOK, LockInv,
          LaunchedInv, ActivatedInv
<1>5. ActivatedInv'
  BY RecordFields, NewRecords, NoRecordFields
  DEF AInv, TerminateRefused, End, NoLook, ActivatedInv, TypeOK, LockInv,
          LaunchedInv, OwnerInv
<1>6. FinishInv'
  BY RecordFields, NewRecords, NoRecordFields
  DEF AInv, TerminateRefused, End, NoLook, FinishInv, TypeOK, LockInv,
          LaunchedInv, OwnerInv, ActivatedInv
<1>7. LookInv'
  BY RecordFields, NewRecords, NoRecordFields
  DEF AInv, TerminateRefused, End, NoLook, LookInv, TypeOK, LockInv,
          LaunchedInv, OwnerInv, ActivatedInv
<1>8. AgentsRecorded'
  BY RecordFields, NewRecords, NoRecordFields
  DEF AInv, TerminateRefused, End, NoLook, AgentsRecorded, TypeOK, LockInv,
          LaunchedInv, OwnerInv, ActivatedInv
<1> QED
  BY <1>1, <1>2, <1>3, <1>4, <1>5, <1>6, <1>7, <1>8 DEF AInv

LEMMA StoppedAInv ==
    ASSUME AInv, NEW c \in Clients, Stopped(c)
    PROVE  AInv'
<1>1. (LaunchedInv /\ ActivatedInv)'
  BY RecordFields, NewRecords, NoRecordFields
  DEF AInv, Stopped, Goto, LaunchedInv, TypeOK, ActivatedInv
<1>2. TypeOK'
  BY RecordFields, NewRecords, NoRecordFields
  DEF AInv, Stopped, Goto, TypeOK, LockInv, LaunchedInv, OwnerInv,
          ActivatedInv, FinishInv
<1>3. LockInv'
  BY RecordFields, NewRecords, NoRecordFields
  DEF AInv, Stopped, Goto, LockInv, TypeOK, LaunchedInv, OwnerInv,
          ActivatedInv, FinishInv
<1>4. OwnerInv'
  BY RecordFields, NewRecords, NoRecordFields
  DEF AInv, Stopped, Goto, OwnerInv, TypeOK, LockInv, LaunchedInv,
          ActivatedInv, FinishInv
<1>5. FinishInv'
  BY RecordFields, NewRecords, NoRecordFields
  DEF AInv, Stopped, Goto, FinishInv, TypeOK, LockInv, LaunchedInv,
          OwnerInv, ActivatedInv
<1>6. LookInv'
  BY RecordFields, NewRecords, NoRecordFields
  DEF AInv, Stopped, Goto, LookInv, TypeOK, LockInv, LaunchedInv, OwnerInv,
          ActivatedInv, FinishInv
<1>7. AgentsRecorded'
  BY RecordFields, NewRecords, NoRecordFields
  DEF AInv, Stopped, Goto, AgentsRecorded, TypeOK, LockInv, LaunchedInv,
          OwnerInv, ActivatedInv, FinishInv
<1> QED
  BY <1>1, <1>2, <1>3, <1>4, <1>5, <1>6, <1>7 DEF AInv

LEMMA ForgetAInv ==
    ASSUME AInv, NEW c \in Clients, Forget(c)
    PROVE  AInv'
<1>1. TypeOK'
  BY RecordFields, NewRecords, NoRecordFields
  DEF AInv, Forget, End, NoLook, TypeOK, LockInv, LaunchedInv, OwnerInv,
          ActivatedInv, FinishInv
<1>2. LockInv'
  BY RecordFields, NewRecords, NoRecordFields
  DEF AInv, Forget, End, NoLook, LockInv, TypeOK, LaunchedInv, OwnerInv,
          ActivatedInv, FinishInv
<1>3. LaunchedInv'
  BY RecordFields, NewRecords, NoRecordFields
  DEF AInv, Forget, End, NoLook, LaunchedInv, TypeOK, LockInv, OwnerInv,
          ActivatedInv, FinishInv
<1>4. OwnerInv'
  BY RecordFields, NewRecords, NoRecordFields
  DEF AInv, Forget, End, NoLook, OwnerInv, TypeOK, LockInv, LaunchedInv,
          ActivatedInv, FinishInv
<1>5. ActivatedInv'
  BY RecordFields, NewRecords, NoRecordFields
  DEF AInv, Forget, End, NoLook, ActivatedInv, TypeOK, LockInv, LaunchedInv,
          OwnerInv, FinishInv
<1>6. FinishInv'
  BY RecordFields, NewRecords, NoRecordFields
  DEF AInv, Forget, End, NoLook, FinishInv, TypeOK, LockInv, LaunchedInv,
          OwnerInv, ActivatedInv
<1>7. LookInv'
  BY RecordFields, NewRecords, NoRecordFields
  DEF AInv, Forget, End, NoLook, LookInv, TypeOK, LockInv, LaunchedInv,
          OwnerInv, ActivatedInv, FinishInv
<1>8. AgentsRecorded'
  BY RecordFields, NewRecords, NoRecordFields
  DEF AInv, Forget, End, NoLook, AgentsRecorded, TypeOK, LockInv,
          LaunchedInv, OwnerInv, ActivatedInv, FinishInv
<1> QED
  BY <1>1, <1>2, <1>3, <1>4, <1>5, <1>6, <1>7, <1>8 DEF AInv

LEMMA RecoverStartingAInv ==
    ASSUME AInv, NEW r \in Recoverers, RecoverStarting(r)
    PROVE  AInv'
<1>1. (ActivatedInv /\ AgentsRecorded)'
  BY RecordFields, NewRecords, NoRecordFields
  DEF AInv, RecoverStarting, Status, ActivatedInv, TypeOK, AgentsRecorded
<1>2. TypeOK'
  BY RecordFields, NewRecords, NoRecordFields
  DEF AInv, RecoverStarting, Status, TypeOK, LockInv, LaunchedInv, OwnerInv,
          ActivatedInv
<1>3. LockInv'
  BY RecordFields, NewRecords, NoRecordFields
  DEF AInv, RecoverStarting, Status, LockInv, TypeOK, LaunchedInv, OwnerInv,
          ActivatedInv
<1>4. LaunchedInv'
  BY RecordFields, NewRecords, NoRecordFields
  DEF AInv, RecoverStarting, Status, LaunchedInv, TypeOK, LockInv, OwnerInv,
          ActivatedInv
<1>5. OwnerInv'
  BY RecordFields, NewRecords, NoRecordFields
  DEF AInv, RecoverStarting, Status, OwnerInv, TypeOK, LockInv, LaunchedInv,
          ActivatedInv
<1>6. FinishInv'
  BY RecordFields, NewRecords, NoRecordFields
  DEF AInv, RecoverStarting, Status, FinishInv, TypeOK, LockInv,
          LaunchedInv, OwnerInv, ActivatedInv
<1>7. LookInv'
  BY RecordFields, NewRecords, NoRecordFields
  DEF AInv, RecoverStarting, Status, LookInv, TypeOK, LockInv, LaunchedInv,
          OwnerInv, ActivatedInv
<1> QED
  BY <1>1, <1>2, <1>3, <1>4, <1>5, <1>6, <1>7 DEF AInv

LEMMA RecoverStoppingAInv ==
    ASSUME AInv, NEW r \in Recoverers, RecoverStopping(r)
    PROVE  AInv'
<1>1. (ActivatedInv /\ AgentsRecorded)'
  BY RecordFields, NewRecords, NoRecordFields
  DEF AInv, RecoverStopping, Inactive, ActivatedInv, TypeOK, AgentsRecorded
<1>2. TypeOK'
  BY RecordFields, NewRecords, NoRecordFields
  DEF AInv, RecoverStopping, Inactive, TypeOK, LockInv, LaunchedInv,
          OwnerInv, ActivatedInv
<1>3. LockInv'
  BY RecordFields, NewRecords, NoRecordFields
  DEF AInv, RecoverStopping, Inactive, LockInv, TypeOK, LaunchedInv,
          OwnerInv, ActivatedInv
<1>4. LaunchedInv'
  BY RecordFields, NewRecords, NoRecordFields
  DEF AInv, RecoverStopping, Inactive, LaunchedInv, TypeOK, LockInv,
          OwnerInv, ActivatedInv
<1>5. OwnerInv'
  BY RecordFields, NewRecords, NoRecordFields
  DEF AInv, RecoverStopping, Inactive, OwnerInv, TypeOK, LockInv,
          LaunchedInv, ActivatedInv
<1>6. FinishInv'
  BY RecordFields, NewRecords, NoRecordFields
  DEF AInv, RecoverStopping, Inactive, FinishInv, TypeOK, LockInv,
          LaunchedInv, OwnerInv, ActivatedInv
<1>7. LookInv'
  BY RecordFields, NewRecords, NoRecordFields
  DEF AInv, RecoverStopping, Inactive, LookInv, TypeOK, LockInv,
          LaunchedInv, OwnerInv, ActivatedInv
<1> QED
  BY <1>1, <1>2, <1>3, <1>4, <1>5, <1>6, <1>7 DEF AInv

LEMMA RecoverInactiveAInv ==
    ASSUME AInv, NEW r \in Recoverers, RecoverInactive(r)
    PROVE  AInv'
<1>1. (LaunchedInv /\ ActivatedInv)'
  BY RecordFields, NewRecords, NoRecordFields
  DEF AInv, RecoverInactive, Inactive, Alive, Goto, LaunchedInv, TypeOK,
          ActivatedInv
<1>2. TypeOK'
  BY RecordFields, NewRecords, NoRecordFields
  DEF AInv, RecoverInactive, Inactive, Alive, Goto, TypeOK, LockInv,
          LaunchedInv, OwnerInv, ActivatedInv
<1>3. LockInv'
  BY RecordFields, NewRecords, NoRecordFields
  DEF AInv, RecoverInactive, Inactive, Alive, Goto, LockInv, TypeOK,
          LaunchedInv, OwnerInv, ActivatedInv
<1>4. OwnerInv'
  BY RecordFields, NewRecords, NoRecordFields
  DEF AInv, RecoverInactive, Inactive, Alive, Goto, OwnerInv, TypeOK,
          LockInv, LaunchedInv, ActivatedInv
<1>5. FinishInv'
  BY RecordFields, NewRecords, NoRecordFields
  DEF AInv, RecoverInactive, Inactive, Alive, Goto, FinishInv, TypeOK,
          LockInv, LaunchedInv, OwnerInv, ActivatedInv
<1>6. LookInv'
  BY RecordFields, NewRecords, NoRecordFields
  DEF AInv, RecoverInactive, Inactive, Alive, Goto, LookInv, TypeOK,
          LockInv, LaunchedInv, OwnerInv, ActivatedInv
<1>7. AgentsRecorded'
  BY RecordFields, NewRecords, NoRecordFields
  DEF AInv, RecoverInactive, Inactive, Alive, Goto, AgentsRecorded, TypeOK,
          LockInv, LaunchedInv, OwnerInv, ActivatedInv
<1> QED
  BY <1>1, <1>2, <1>3, <1>4, <1>5, <1>6, <1>7 DEF AInv

LEMMA OwnAInv ==
    ASSUME AInv, NEW p \in Procs, Own(p)
    PROVE  AInv'
<1>1. LockInv'
  BY RecordFields, NewRecords, NoRecordFields
  DEF AInv, Own, LockInv, TypeOK
<1>2. TypeOK'
  BY RecordFields, NewRecords, NoRecordFields
  DEF AInv, Own, TypeOK, LockInv, LaunchedInv, OwnerInv, ActivatedInv
<1>3. LaunchedInv'
  BY RecordFields, NewRecords, NoRecordFields
  DEF AInv, Own, LaunchedInv, TypeOK, LockInv, OwnerInv, ActivatedInv
<1>4. OwnerInv'
  BY RecordFields, NewRecords, NoRecordFields
  DEF AInv, Own, OwnerInv, TypeOK, LockInv, LaunchedInv, ActivatedInv
<1>5. ActivatedInv'
  BY RecordFields, NewRecords, NoRecordFields
  DEF AInv, Own, ActivatedInv, TypeOK, LockInv, LaunchedInv, OwnerInv
<1>6. FinishInv'
  BY RecordFields, NewRecords, NoRecordFields
  DEF AInv, Own, FinishInv, TypeOK, LockInv, LaunchedInv, OwnerInv,
          ActivatedInv
<1>7. LookInv'
  BY RecordFields, NewRecords, NoRecordFields
  DEF AInv, Own, LookInv, TypeOK, LockInv, LaunchedInv, OwnerInv,
          ActivatedInv
<1>8. AgentsRecorded'
  BY RecordFields, NewRecords, NoRecordFields
  DEF AInv, Own, AgentsRecorded, TypeOK, LockInv, LaunchedInv, OwnerInv,
          ActivatedInv
<1> QED
  BY <1>1, <1>2, <1>3, <1>4, <1>5, <1>6, <1>7, <1>8 DEF AInv

LEMMA BindAInv ==
    ASSUME AInv, NEW p \in Procs, Bind(p)
    PROVE  AInv'
<1>1. LockInv'
  BY RecordFields, NewRecords, NoRecordFields
  DEF AInv, Bind, Exited, LockInv, TypeOK
<1>2. TypeOK'
  BY RecordFields, NewRecords, NoRecordFields
  DEF AInv, Bind, Exited, TypeOK, LockInv, LaunchedInv, OwnerInv,
          ActivatedInv, AgentsRecorded
<1>3. LaunchedInv'
  BY RecordFields, NewRecords, NoRecordFields
  DEF AInv, Bind, Exited, LaunchedInv, TypeOK, LockInv, OwnerInv,
          ActivatedInv, AgentsRecorded
<1>4. OwnerInv'
  BY RecordFields, NewRecords, NoRecordFields
  DEF AInv, Bind, Exited, OwnerInv, TypeOK, LockInv, LaunchedInv,
          ActivatedInv, AgentsRecorded
<1>5. ActivatedInv'
  BY RecordFields, NewRecords, NoRecordFields
  DEF AInv, Bind, Exited, ActivatedInv, TypeOK, LockInv, LaunchedInv,
          OwnerInv, AgentsRecorded
<1>6. FinishInv'
  BY RecordFields, NewRecords, NoRecordFields
  DEF AInv, Bind, Exited, FinishInv, TypeOK, LockInv, LaunchedInv, OwnerInv,
          ActivatedInv, AgentsRecorded
<1>7. LookInv'
  BY RecordFields, NewRecords, NoRecordFields
  DEF AInv, Bind, Exited, LookInv, TypeOK, LockInv, LaunchedInv, OwnerInv,
          ActivatedInv, AgentsRecorded
<1>8. AgentsRecorded'
  BY RecordFields, NewRecords, NoRecordFields
  DEF AInv, Bind, Exited, AgentsRecorded, TypeOK, LockInv, LaunchedInv,
          OwnerInv, ActivatedInv
<1> QED
  BY <1>1, <1>2, <1>3, <1>4, <1>5, <1>6, <1>7, <1>8 DEF AInv

LEMMA ExitAInv ==
    ASSUME AInv, NEW p \in Procs, Exit(p)
    PROVE  AInv'
<1>1. LockInv'
  BY RecordFields, NewRecords, NoRecordFields
  DEF AInv, Exit, Exited, LockInv, TypeOK
<1>2. TypeOK'
  BY RecordFields, NewRecords, NoRecordFields
  DEF AInv, Exit, Exited, TypeOK, LockInv, LaunchedInv, OwnerInv,
          ActivatedInv
<1>3. LaunchedInv'
  BY RecordFields, NewRecords, NoRecordFields
  DEF AInv, Exit, Exited, LaunchedInv, TypeOK, LockInv, OwnerInv,
          ActivatedInv
<1>4. OwnerInv'
  BY RecordFields, NewRecords, NoRecordFields
  DEF AInv, Exit, Exited, OwnerInv, TypeOK, LockInv, LaunchedInv,
          ActivatedInv
<1>5. ActivatedInv'
  BY RecordFields, NewRecords, NoRecordFields
  DEF AInv, Exit, Exited, ActivatedInv, TypeOK, LockInv, LaunchedInv,
          OwnerInv
<1>6. FinishInv'
  BY RecordFields, NewRecords, NoRecordFields
  DEF AInv, Exit, Exited, FinishInv, TypeOK, LockInv, LaunchedInv, OwnerInv,
          ActivatedInv
<1>7. LookInv'
  BY RecordFields, NewRecords, NoRecordFields
  DEF AInv, Exit, Exited, LookInv, TypeOK, LockInv, LaunchedInv, OwnerInv,
          ActivatedInv
<1>8. AgentsRecorded'
  BY RecordFields, NewRecords, NoRecordFields
  DEF AInv, Exit, Exited, AgentsRecorded, TypeOK, LockInv, LaunchedInv,
          OwnerInv, ActivatedInv
<1> QED
  BY <1>1, <1>2, <1>3, <1>4, <1>5, <1>6, <1>7, <1>8 DEF AInv

LEMMA VanishAInv ==
    ASSUME AInv, Vanish
    PROVE  AInv'
<1>1. (LockInv /\ LaunchedInv /\ OwnerInv /\ ActivatedInv /\ LookInv)'
  BY RecordFields, NewRecords, NoRecordFields
  DEF AInv, Vanish, LockInv, TypeOK, LaunchedInv, OwnerInv, ActivatedInv,
          LookInv
<1>2. TypeOK'
  BY RecordFields, NewRecords, NoRecordFields
  DEF AInv, Vanish, TypeOK, LockInv, LaunchedInv, OwnerInv, ActivatedInv
<1>3. FinishInv'
  BY RecordFields, NewRecords, NoRecordFields
  DEF AInv, Vanish, FinishInv, TypeOK, LockInv, LaunchedInv, OwnerInv,
          ActivatedInv
<1>4. AgentsRecorded'
  BY RecordFields, NewRecords, NoRecordFields
  DEF AInv, Vanish, AgentsRecorded, TypeOK, LockInv, LaunchedInv, OwnerInv,
          ActivatedInv
<1> QED
  BY <1>1, <1>2, <1>3, <1>4 DEF AInv
LEMMA StutterAInv == ASSUME AInv, UNCHANGED vars PROVE AInv'
BY DEF AInv, vars, TypeOK, LockInv, LaunchedInv, OwnerInv, ActivatedInv, FinishInv, LookInv,
       AgentsRecorded

LEMMA NextAInv == ASSUME AInv, [Next]_vars PROVE AInv'
<1>1. CASE UNCHANGED vars
  BY <1>1, StutterAInv
<1>2. ASSUME NEW s \in Starters, StartStep(s) PROVE AInv'
  BY <1>2, ReserveObserveAInv, ReserveNewAInv, SpawnAInv, CreateRecordAInv, CreateFailsAInv,
     AwaitServingAInv, AwaitExitedAInv, AwaitTimeoutAInv, ReturnActiveAInv,
     CommitActivationAInv, CommitActivationFailsAInv, UnlinkExitedAInv, RetryAInv,
     RetryFailsAInv, ReplaceRecordAInv, ReplaceFailsAInv, CommitExitAInv, CommitTimeoutAInv,
     CommitFailureFailsAInv, AbortAInv, AbortUnrecordedAInv, CleanupAInv, KillAInv, SweepAInv
  DEF StartStep
<1>3. ASSUME NEW c \in Clients, ReconcileStep(c) \/ GiveUp(c) PROVE AInv'
  BY <1>3, LookAInv, PendingAInv, ExpireAInv, FollowAInv, ResolvedAInv, PromoteAInv,
     RecoverOrphanAInv, ReconcileRefusedAInv, GiveUpAInv
  DEF ReconcileStep
<1>4. ASSUME NEW c \in Stoppers \cup Recoverers, FinishStep(c) PROVE AInv'
  BY <1>4, TerminateAInv, TerminateRefusedAInv, StoppedAInv, ForgetAInv DEF FinishStep
<1>5. ASSUME NEW k \in Stoppers, StopStep(k) PROVE AInv'
  BY <1>4, <1>5, StopBeginAInv DEF StopStep
<1>6. ASSUME NEW r \in Recoverers, RecoverStep(r) PROVE AInv'
  BY <1>3, <1>4, <1>6, RecoverStartingAInv, RecoverStoppingAInv, RecoverInactiveAInv
  DEF RecoverStep
<1>7. ASSUME NEW p \in Procs, ProcStep(p) PROVE AInv'
  BY <1>7, OwnAInv, BindAInv, ExitAInv DEF ProcStep
<1>8. CASE Vanish
  BY <1>8, VanishAInv
<1> QED
  BY <1>1, <1>2, <1>3, <1>5, <1>6, <1>7, <1>8 DEF Next

(* The inductive invariant holds in every reachable state.                 *)
THEOREM AgentSafety == Spec => []AInv
BY InitAInv, NextAInv, PTL DEF Spec

(* The record is well formed and covers every agent that runs.             *)
THEOREM RecordIsSound == Spec => []RecordSound
<1>1. AInv => RecordSound
  BY DEF AInv, RecordSound
<1> QED
  BY <1>1, AgentSafety, PTL

(* No command of Quarters unlinks the socket of an agent that serves: its  *)
(* process has the record, so it is neither the process that was found     *)
(* dead nor the predecessor of the command's own.                          *)
THEOREM LiveSocketsAreKept == Spec => LiveSocketsKept
<1> DEFINE Keeps == \A p \in Procs : Serving(p) /\ socket' # p => proc'[p] # "agent"
<1>1. ASSUME AInv, [Next]_vars
      PROVE  Vanish \/ (\E p \in Procs : Exit(p)) \/ Keeps
  <2>1. \A p \in Procs : Serving(p) => proc[p] = "agent" /\ socket = p /\ record.proc = p
    BY <1>1 DEF AInv, AgentsRecorded, Serving
  <2>2. ASSUME UNCHANGED socket PROVE Keeps
    BY <2>2 DEF Serving
  <2>3. ASSUME NEW s \in Starters, UnlinkExited(s) \/ ReplaceFails(s) PROVE Keeps
    <3>1. record.proc # None => proc[record.proc] = "gone"
      BY <1>1, <2>3, RecordFields, NewRecords
      DEF AInv, OwnerInv, UnlinkExited, ReplaceFails
    <3> QED
      BY <2>1, <3>1
  <2>4. ASSUME NEW s \in Starters, Kill(s) PROVE Keeps
    <3>1. record.proc \in {None, at[s]} /\ at[s] \in Procs
      BY <1>1, <2>4 DEF AInv, OwnerInv, Kill
    <3>2. proc'[at[s]] = "gone"
      BY <1>1, <2>4, <3>1 DEF AInv, TypeOK, Kill
    <3> QED
      BY <2>1, <3>1, <3>2
  <2>5. ASSUME NEW s \in Starters, Sweep(s) PROVE Keeps
    BY <1>1, <2>1, <2>5 DEF AInv, OwnerInv, Sweep
  <2>6. ASSUME NEW c \in Clients, Stopped(c) PROVE Keeps
    BY <1>1, <2>1, <2>6 DEF AInv, FinishInv, Stopped
  <2>7. ASSUME NEW r \in Recoverers, RecoverInactive(r) PROVE Keeps
    BY <1>1, <2>1, <2>7
    DEF AInv, ActivatedInv, RecoverInactive, SocketReleasable, Disconnected, Alive, Serving
  <2>8. ASSUME NEW p \in Procs, Bind(p) PROVE Keeps
    BY <2>1, <2>8 DEF Bind
  <2> HIDE DEF Keeps
  <2>9. CASE UNCHANGED vars
    BY <2>2, <2>9 DEF vars
  <2>10. ASSUME NEW s \in Starters, StartStep(s) PROVE Keeps
    BY <2>2, <2>3, <2>4, <2>5, <2>10
    DEF StartStep, ReserveObserve, ReserveNew, Spawn, CreateRecord, CreateFails, AwaitServing,
        AwaitExited, AwaitTimeout, ReturnActive, CommitActivation, CommitActivationFails,
        Retry, RetryFails, ReplaceRecord, CommitExit, CommitTimeout, CommitFailureFails,
        Abort, AbortUnrecorded, Cleanup
  <2>11. ASSUME NEW c \in Clients, ReconcileStep(c) \/ GiveUp(c) PROVE Keeps
    BY <2>2, <2>11
    DEF ReconcileStep, Look, Pending, Expire, Follow, Resolved, Promote, RecoverOrphan,
        ReconcileRefused, GiveUp
  <2>12. ASSUME NEW c \in Clients, FinishStep(c) PROVE Keeps
    BY <2>2, <2>6, <2>12 DEF FinishStep, Terminate, TerminateRefused, Forget
  <2>13. ASSUME NEW k \in Stoppers, StopStep(k) PROVE Keeps
    BY <2>2, <2>12, <2>13 DEF StopStep, StopBegin
  <2>14. ASSUME NEW r \in Recoverers, RecoverStep(r) PROVE Keeps
    BY <2>2, <2>7, <2>11, <2>12, <2>14 DEF RecoverStep, RecoverStarting, RecoverStopping
  <2>15. ASSUME NEW p \in Procs, ProcStep(p) PROVE Keeps \/ Exit(p)
    BY <2>2, <2>8, <2>15 DEF ProcStep, Own
  <2> QED
    BY <1>1, <2>9, <2>10, <2>11, <2>13, <2>14, <2>15 DEF Next
<1> QED
  BY <1>1, AgentSafety, PTL DEF Spec, LiveSocketsKept

Waiting == {"await", "activate", "unlink", "retry", "fail", "timeout"}

(* While a start waits without the lifecycle lock, nobody but a recovery   *)
(* that found its process dead changes its reservation: every other writer *)
(* of the record asks for the startup-owner lock or for another state.     *)
THEOREM ReservationsAreKept == Spec => ReservationKept
<1> DEFINE Reserves(s) == pc[s] \in Waiting /\ record = Starting(at[s]) /\ record' # record
           Kept == \A s \in Starters :
                      Reserves(s) => pc'[s] # pc[s] \/ \E r \in Recoverers : Forget(r)
<1>1. ASSUME AInv, [Next]_vars PROVE Kept
  <2> SUFFICES ASSUME NEW s \in Starters, Reserves(s), pc'[s] = pc[s]
               PROVE  \E r \in Recoverers : Forget(r)
    OBVIOUS
  <2>1. owner = s /\ at[s] \in Procs /\ record.state = "starting"
    BY <1>1, NewRecords DEF AInv, LockInv, OwnerInv, Waiting
  <2>2. \A u \in Starters : pc[u] \in StartPath => u = s
    BY <1>1, <2>1 DEF AInv, LockInv
  <2>3. ASSUME NEW u \in Starters, StartStep(u) PROVE FALSE
    <3>1. CASE u = s
      BY <1>1, <2>1, <2>3, <3>1
      DEF AInv, TypeOK, Waiting, StartStep, ReserveObserve, ReserveNew, Spawn, CreateRecord,
          CreateFails, AwaitServing, AwaitExited, AwaitTimeout, ReturnActive,
          CommitActivation, CommitActivationFails, UnlinkExited, Retry, RetryFails,
          ReplaceRecord, ReplaceFails, CommitExit, CommitTimeout, CommitFailureFails, Abort,
          AbortUnrecorded, Cleanup, Kill, Sweep, Goto, End
    <3>2. CASE u # s
      BY <2>1, <2>2, <2>3, <3>2
      DEF StartStep, ReserveObserve, ReserveNew, OwnerBusy, Spawn, CreateRecord,
          CreateFails, AwaitServing, AwaitExited, AwaitTimeout, ReturnActive,
          CommitActivation, CommitActivationFails, UnlinkExited, Retry, RetryFails,
          ReplaceRecord, ReplaceFails, CommitExit, CommitTimeout, CommitFailureFails, Abort,
          AbortUnrecorded, Cleanup, Kill, Sweep
    <3> QED
      BY <3>1, <3>2
  <2>4. ASSUME NEW c \in Clients, ReconcileStep(c) \/ GiveUp(c) PROVE FALSE
    BY <2>1, <2>4
    DEF ReconcileStep, Look, Pending, Expire, Follow, Resolved, Promote, RecoverOrphan,
        ReconcileRefused, GiveUp, OwnerBusy
  <2>5. ASSUME NEW c \in Stoppers \cup Recoverers, FinishStep(c)
        PROVE  c \in Recoverers /\ Forget(c)
    BY <1>1, <2>1, <2>5 DEF FinishStep, Terminate, TerminateRefused, Stopped, Forget, AInv, FinishInv
  <2>6. ASSUME NEW k \in Stoppers, StopStep(k) PROVE FALSE
    <3>1. ~StopBegin(k)
      BY <2>1, NoRecordFields DEF StopBegin, Status
    <3> QED
      BY <2>5, <2>6, <3>1 DEF StopStep
  <2>7. ASSUME NEW r \in Recoverers, RecoverStep(r) PROVE Forget(r)
    BY <2>4, <2>5, <2>7 DEF RecoverStep, RecoverStarting, RecoverStopping, RecoverInactive
  <2>8. ASSUME (\E p \in Procs : ProcStep(p)) \/ Vanish \/ UNCHANGED vars PROVE FALSE
    BY <2>8 DEF ProcStep, Own, Bind, Exit, Vanish, vars
  <2> QED
    BY <1>1, <2>3, <2>4, <2>6, <2>7, <2>8 DEF Next
<1>2. ASSUME Kept
      PROVE  \A s \in Starters :
                /\ pc[s] \in {"await", "activate", "unlink", "retry", "fail", "timeout"}
                /\ record = Starting(at[s])
                /\ record' # record
                => pc'[s] # pc[s] \/ \E r \in Recoverers : Forget(r)
  BY <1>2 DEF Waiting
<1> QED
  BY <1>1, <1>2, AgentSafety, PTL DEF Spec, ReservationKept
=============================================================================
