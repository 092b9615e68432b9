------------------------------- MODULE McpSession -------------------------------
(***************************************************************************)
(* One connection of the MCP server: the bounded transport that reads      *)
(* frames (quarters-mcp/src/transport.rs), the admission table that gives  *)
(* every request id a slot until its answer is written, the two protocol   *)
(* families (lifecycle.rs), and the handlers that do store work on the     *)
(* blocking pool (server.rs).                                              *)
(*                                                                         *)
(* serve_stdio runs a current-thread runtime, so code between two awaits   *)
(* is one step: an action here is a stretch of code from one await to the  *)
(* next.  The actors are the receive loop, one handler task per delivered  *)
(* request, the response writes, and the task that writes the transport's  *)
(* own errors.  The rmcp crate is external: it starts one task per         *)
(* delivered request, and a cancellation notification stops a task that    *)
(* has not begun and suppresses the answer of one that has (the comments   *)
(* at lifecycle.rs:242 and transport.rs:236 rely on both).                 *)
(***************************************************************************)
EXTENDS Naturals, Sequences, FiniteSets

CONSTANTS
    Ids,                        \* JSON-RPC request ids the decoder accepts
    Inputs,                     \* the requests the client may send: method and meta
    MaxUses,                    \* bound: requests the client sends
    MaxFaults,                  \* bound: malformed frames and failed writes
    MAX_IN_FLIGHT_REQUESTS,
    MAX_SESSION_REQUEST_IDS,
    MAX_BLOCKING_STORE_CALLS

ASSUME LimitsAssumption ==
    /\ MAX_IN_FLIGHT_REQUESTS \in Nat \ {0}
    /\ MAX_SESSION_REQUEST_IDS \in Nat \ {0}
    /\ MAX_BLOCKING_STORE_CALLS \in Nat \ {0}
    /\ MaxUses \in Nat /\ MaxFaults \in Nat
    /\ Inputs \subseteq [method : {"initialize", "ping", "discover", "tool"},
                        meta : {"none", "2025", "2026"}]

VARIABLES
    session,    \* "open" | "closed": whether receive still runs
    family,     \* FamilyState of the connection
    requests,   \* AdmissionState.requests, a function on the ids it holds
    seen,       \* AdmissionState.seen
    legacy,     \* AdmissionState.legacy
    uses,       \* every request read so far, in order, with where it stands
    awaiting,   \* the use held in awaiting_release, 0 for none
    pending,    \* pending_error: "none" | "error" | "terminal"
    channel,    \* messages in the error channel (capacity 1)
    writerUp,   \* the error writer task has not failed
    faults      \* faults taken so far

vars == <<session, family, requests, seen, legacy, uses, awaiting, pending,
          channel, writerUp, faults>>

admission == <<requests, seen, legacy>>
errors == <<pending, channel, writerUp>>

Families == {"unopened", "modern", "legacy"}
Phases == {"reserved", "running", "handler_done", "response_started"}
RequestState == [phase : Phases, transport_owned : BOOLEAN, cancelled : BOOLEAN]

(* initialize opens the 2025 family; discover exists only in 2026, ping    *)
(* only in 2025; a tool call is in both.  meta is the version the request  *)
(* names in _meta, "none" when the required 2026 keys are missing.         *)
Methods == {"initialize", "ping", "discover", "tool"}
Metas == {"none", "2025", "2026"}

Stages == {"waiting", "delivered", "claimed", "working", "returned",
           "answering", "answered", "suppressed", "refused"}
Use == [id : Ids, method : Methods, meta : Metas,
        stage : Stages, legacy : BOOLEAN, cancelled : BOOLEAN]

TypeOK ==
    /\ session \in {"open", "closed"}
    /\ family \in Families
    /\ DOMAIN requests \subseteq Ids
    /\ \A i \in DOMAIN requests : requests[i] \in RequestState
    /\ seen \subseteq Ids
    /\ legacy \in BOOLEAN
    /\ uses \in Seq(Use) /\ Len(uses) <= MaxUses
    /\ awaiting \in 0 .. MaxUses
    /\ pending \in {"none", "error", "terminal"}
    /\ channel \in 0 .. 1
    /\ writerUp \in BOOLEAN
    /\ faults \in 0 .. MaxFaults

Init ==
    /\ session = "open"
    /\ family = "unopened"
    /\ requests = [i \in {} |-> TRUE]
    /\ seen = {}
    /\ legacy = FALSE
    /\ uses = <<>>
    /\ awaiting = 0
    /\ pending = "none"
    /\ channel = 0
    /\ writerUp = TRUE
    /\ faults = 0

-------------------------------------------------------------------------------
(* The admission table.                                                    *)

Without(i) == [j \in DOMAIN requests \ {i} |-> requests[j]]

With(i, r) == [j \in DOMAIN requests \cup {i} |-> IF j = i THEN r ELSE requests[j]]

(* The outcome of RequestAdmission::reserve, in the order of its tests; an *)
(* id over MAX_REQUEST_ID_BYTES never gets here, the decoder refuses it.   *)
ReserveOutcome(i) ==
    IF legacy /\ i \in seen THEN "duplicate"
    ELSE IF i \in DOMAIN requests
         THEN IF requests[i].cancelled THEN "cancelled_in_flight" ELSE "duplicate"
    ELSE IF legacy /\ Cardinality(seen) >= MAX_SESSION_REQUEST_IDS THEN "session_limit"
    ELSE IF Cardinality(DOMAIN requests) >= MAX_IN_FLIGHT_REQUESTS THEN "capacity"
    ELSE "ok"

(* What reserve does to the table.  A legacy id is recorded as seen before *)
(* the capacity test, so a request refused for capacity has used its id.   *)
Reserve(i) ==
    LET outcome == ReserveOutcome(i)
    IN  /\ requests' = IF outcome = "ok"
                       THEN With(i, [phase |-> "reserved", transport_owned |-> TRUE,
                                     cancelled |-> FALSE])
                       ELSE requests
        /\ seen' = IF legacy /\ outcome \in {"ok", "capacity"}
                   THEN seen \cup {i} ELSE seen
        /\ UNCHANGED legacy

(* Mutant: cancellation frees the slot of a handler that still runs.       *)
CancelReleasesRunning(i) ==
    /\ requests' = IF i \notin DOMAIN requests THEN requests ELSE Without(i)
    /\ UNCHANGED <<seen, legacy>>

(* RequestAdmission::cancel: a reservation whose handler has not begun, or *)
(* whose handler has returned, is released; a running one is only marked.  *)
Cancel(i) ==
    /\ requests' = IF i \notin DOMAIN requests THEN requests
                   ELSE IF requests[i].phase \in {"reserved", "handler_done"}
                   THEN Without(i)
                   ELSE [requests EXCEPT ![i].cancelled = TRUE]
    /\ UNCHANGED <<seen, legacy>>

(* RequestAdmission::finish_handler, run when the RequestGuard drops.      *)
FinishHandler(i) ==
    /\ requests' =
          IF i \notin DOMAIN requests THEN requests
          ELSE LET started == requests[i].phase = "response_started"
               IN  IF ~requests[i].transport_owned \/ (requests[i].cancelled /\ ~started)
                   THEN Without(i)
                   ELSE IF started THEN requests
                   ELSE [requests EXCEPT ![i].phase = "handler_done"]
    /\ UNCHANGED <<seen, legacy>>

-------------------------------------------------------------------------------
(* The receive loop.  Its top-of-loop checks give every action below its   *)
(* guard: a held request is retried first, then a pending error is handed  *)
(* to the error writer, and only then is a frame read.                     *)

Receiving == session = "open" /\ writerUp

Reading == Receiving /\ awaiting = 0 /\ pending = "none"

Stop == session' = "closed"

(* Dropping the transport closes the admission table.                      *)
CloseTable ==
    /\ requests' = [i \in {} |-> TRUE]
    /\ seen' = {}
    /\ legacy' = FALSE

(* modern_metadata_error: outside the legacy family a request other than   *)
(* initialize needs the 2026 metadata; a bare ping is let through.         *)
MetadataError(use) ==
    /\ family # "legacy"
    /\ use.method # "initialize"
    /\ IF use.method = "ping" THEN use.meta # "none" ELSE use.meta = "none"

(* Preparation for a request: what prepare_message and try_admit make of   *)
(* the outcome of reserve.                                                 *)
Admit(u, use) ==
    LET outcome == ReserveOutcome(use.id)
        at(stage) == [use EXCEPT !.stage = stage, !.legacy = legacy]
        placed(stage) == uses' = [v \in 1 .. (IF u > Len(uses) THEN u ELSE Len(uses)) |->
                                     IF v = u THEN at(stage) ELSE uses[v]]
    IN  \/ /\ outcome = "ok"
           /\ Reserve(use.id)
           /\ placed("delivered")
           /\ awaiting' = 0
           /\ UNCHANGED <<session, pending>>
        \/ /\ outcome = "duplicate"
           /\ Stop
           /\ CloseTable
           /\ placed("refused")
           /\ awaiting' = 0
           /\ UNCHANGED pending
        \/ /\ outcome = "cancelled_in_flight"
           /\ placed("waiting")
           /\ awaiting' = u
           /\ UNCHANGED <<session, pending, admission>>
        \/ /\ outcome \in {"capacity", "session_limit"}
           /\ Reserve(use.id)
           /\ placed("refused")
           /\ awaiting' = 0
           /\ pending' = IF outcome = "capacity" THEN "error" ELSE "terminal"
           /\ UNCHANGED session

(* A request frame: prepare_message.                                       *)
ReadRequest ==
    /\ Reading
    /\ Len(uses) < MaxUses
    /\ \E i \in Ids, in \in Inputs :
         LET use == [id |-> i, method |-> in.method, meta |-> in.meta, stage |-> "refused",
                     legacy |-> FALSE, cancelled |-> FALSE]
         IN  IF MetadataError(use)
             THEN /\ uses' = Append(uses, use)
                  /\ pending' = "error"
                  /\ UNCHANGED <<session, awaiting, admission>>
             ELSE Admit(Len(uses) + 1, use)
    /\ UNCHANGED <<family, channel, writerUp, faults>>

(* The uses of an id that rmcp still has a task for.                       *)
Tasks(i) == {u \in DOMAIN uses :
               uses[u].id = i /\ uses[u].stage \in {"delivered", "claimed", "working", "returned"}}

(* A cancellation notification: admission.cancel, then rmcp stops the task *)
(* of that id.  A task not begun, or whose answer is still queued, is over *)
(* at once; a running one finishes its work and is not answered.           *)
ReadCancellation ==
    /\ Reading
    /\ family # "unopened"
    /\ \E i \in Ids :
         /\ Tasks(i) # {}
         /\ Cancel(i)
         /\ uses' = [u \in DOMAIN uses |->
                       IF u \notin Tasks(i) THEN uses[u]
                       ELSE IF uses[u].stage \in {"delivered", "returned"}
                       THEN [uses[u] EXCEPT !.stage = "suppressed"]
                       ELSE [uses[u] EXCEPT !.cancelled = TRUE]]
    /\ UNCHANGED <<session, family, awaiting, errors, faults>>

(* What BoundedJsonRpcDecoder::parse makes of a frame that is no message:  *)
(* unparsable text, a batch, a bad id or a request that fits no method     *)
(* schema is answered with an error, a malformed notification is dropped,  *)
(* an oversized line or a closed input ends the session.                   *)
ReadMalformed ==
    /\ Reading
    /\ faults < MaxFaults
    /\ faults' = faults + 1
    /\ pending' = "error"
    /\ UNCHANGED <<session, family, admission, uses, awaiting, channel, writerUp>>

ReadEnd ==
    /\ Reading
    /\ Stop
    /\ CloseTable
    /\ UNCHANGED <<family, uses, awaiting, errors, faults>>

(* awaiting_release: a retry after a release was notified...               *)
RetryAwaiting ==
    /\ Receiving
    /\ awaiting # 0
    /\ ReserveOutcome(uses[awaiting].id) # "cancelled_in_flight"
    /\ Admit(awaiting, uses[awaiting])
    /\ UNCHANGED <<family, channel, writerUp, faults>>

(* ... or after CANCELLED_ID_RELEASE_WAIT with the id still held.          *)
AwaitingExpires ==
    /\ Receiving
    /\ awaiting # 0
    /\ ReserveOutcome(uses[awaiting].id) = "cancelled_in_flight"
    /\ uses' = [uses EXCEPT ![awaiting].stage = "refused"]
    /\ awaiting' = 0
    /\ pending' = "error"
    /\ UNCHANGED <<session, family, admission, channel, writerUp, faults>>

(* A pending error goes into the channel when it has room; after a         *)
(* terminal one receive returns None.                                      *)
QueueError ==
    /\ Receiving
    /\ awaiting = 0
    /\ pending # "none"
    /\ channel = 0
    /\ channel' = 1
    /\ pending' = "none"
    /\ IF pending = "terminal" THEN Stop /\ CloseTable ELSE UNCHANGED <<session, admission>>
    /\ UNCHANGED <<family, uses, awaiting, writerUp, faults>>

(* The error writer task; a write that fails or stalls ends it, and the    *)
(* receive loop with it.                                                   *)
WriteError ==
    /\ writerUp
    /\ channel = 1
    /\ channel' = 0
    /\ \/ UNCHANGED <<writerUp, faults>>
       \/ /\ faults < MaxFaults
          /\ faults' = faults + 1
          /\ writerUp' = FALSE
    /\ UNCHANGED <<session, family, admission, uses, awaiting, pending>>

NoticeWriterFailure ==
    /\ session = "open"
    /\ ~writerUp
    /\ Stop
    /\ CloseTable
    /\ UNCHANGED <<family, uses, awaiting, errors, faults>>

-------------------------------------------------------------------------------
(* The handler of a delivered request.                                     *)

OpeningLegacy(use) == use.method = "initialize"

(* expected_version and validate_family_method.                            *)
ExpectedVersion(use) ==
    IF family = "legacy" \/ (family = "unopened" /\ OpeningLegacy(use))
    THEN "2025" ELSE "2026"

FamilyAccepts(use) ==
    /\ family = "unopened" \/ ~OpeningLegacy(use)
    /\ use.method # (IF ExpectedVersion(use) = "2025" THEN "discover" ELSE "ping")
    /\ use.meta \in {"none", ExpectedVersion(use)}

FamilyAfter(use) ==
    IF OpeningLegacy(use) THEN "legacy"
    ELSE IF family = "unopened" THEN "modern" ELSE family

(* RequestAdmission::claim on the table t: an id with a reservation starts *)
(* running; an id without one (its session ended first) gets a slot of its *)
(* own, under the same limits.                                             *)
ClaimAccepts(i, ids, inLegacy) ==
    IF i \in DOMAIN requests THEN requests[i].phase = "reserved"
    ELSE /\ ~(inLegacy /\ i \in ids)
         /\ ~(inLegacy /\ Cardinality(ids) >= MAX_SESSION_REQUEST_IDS)
         /\ Cardinality(DOMAIN requests) < MAX_IN_FLIGHT_REQUESTS

Claim(i) ==
    requests' = With(i, IF i \in DOMAIN requests
                        THEN [requests[i] EXCEPT !.phase = "running"]
                        ELSE [phase |-> "running", transport_owned |-> FALSE,
                              cancelled |-> FALSE])

At(u, stage) == uses' = [uses EXCEPT ![u].stage = stage]

(* The uses whose slots enter_legacy finds.                                *)
Marked == {u \in DOMAIN uses : uses[u].id \in DOMAIN requests
                               /\ uses[u].stage \in {"delivered", "claimed", "working",
                                                     "returned", "answering"}}

(* Mutant: the ids in flight are not recorded when the session opens.      *)
EnterLegacyForgets == seen

(* enter_legacy: the ids in flight count as used by the legacy session.    *)
EnterLegacy == seen \cup DOMAIN requests

(* handle_request up to its first await: the family admits the request and *)
(* perhaps opens, and the handler claims its slot.  A refusal is an answer *)
(* without a slot of its own.                                              *)
HandleRequest(u) ==
    LET use == uses[u]
        opens == OpeningLegacy(use)
        ids == IF opens THEN EnterLegacy ELSE seen
        inLegacy == legacy \/ opens
    IN  /\ use.stage = "delivered"
        /\ \/ /\ ~FamilyAccepts(use)
              /\ At(u, "returned")
              /\ UNCHANGED <<family, admission>>
           \/ /\ FamilyAccepts(use)
              /\ family' = FamilyAfter(use)
              /\ legacy' = inLegacy
              /\ IF ClaimAccepts(use.id, ids, inLegacy)
                 THEN /\ Claim(use.id)
                      /\ seen' = IF inLegacy THEN ids \cup {use.id} ELSE ids
                      /\ uses' = [v \in DOMAIN uses |->
                                    [uses[v] EXCEPT
                                       !.stage = IF v = u THEN "claimed" ELSE @,
                                       !.legacy = @ \/ (opens /\ v \in Marked)]]
                 ELSE /\ seen' = ids
                      /\ At(u, "returned")
                      /\ UNCHANGED requests
        /\ UNCHANGED <<session, awaiting, errors, faults>>

Working == {u \in DOMAIN uses : uses[u].stage = "working"}

(* Mutant: a permit is not given back when the work ends.                  *)
StartWorkLeaksPermit(u) ==
    /\ uses[u].stage = "claimed"
    /\ uses[u].method = "tool"
    /\ Cardinality({v \in DOMAIN uses : uses[v].method = "tool"
          /\ uses[v].stage \in {"working", "returned", "answering", "answered"}})
          < MAX_BLOCKING_STORE_CALLS
    /\ At(u, "working")
    /\ UNCHANGED <<session, family, admission, awaiting, errors, faults>>

(* run_blocking: a tool call takes a permit and its work runs on the       *)
(* blocking pool; the permit goes back when the work ends.                 *)
StartWork(u) ==
    /\ uses[u].stage = "claimed"
    /\ uses[u].method = "tool"
    /\ Cardinality(Working) < MAX_BLOCKING_STORE_CALLS
    /\ At(u, "working")
    /\ UNCHANGED <<session, family, admission, awaiting, errors, faults>>

(* The handler returns and its guard drops.                                *)
HandlerReturns(u) ==
    /\ uses[u].stage = IF uses[u].method = "tool" THEN "working" ELSE "claimed"
    /\ FinishHandler(uses[u].id)
    /\ uses' = [uses EXCEPT ![u].stage = IF uses[u].cancelled THEN "suppressed" ELSE "returned",
                            ![u].cancelled = FALSE]
    /\ UNCHANGED <<session, family, awaiting, errors, faults>>

(* Transport::send: the slot is marked before the write starts and freed   *)
(* when it ends, well or not.                                              *)
StartResponse(u) ==
    LET i == uses[u].id
    IN  /\ uses[u].stage = "returned"
        /\ requests' = IF i \in DOMAIN requests
                       THEN [requests EXCEPT ![i].phase = "response_started"] ELSE requests
        /\ At(u, "answering")
        /\ UNCHANGED <<session, family, seen, legacy, awaiting, errors, faults>>

FinishResponse(u) ==
    /\ uses[u].stage = "answering"
    /\ requests' = Without(uses[u].id)
    /\ At(u, "answered")
    /\ UNCHANGED <<session, family, seen, legacy, awaiting, errors, faults>>

Handler(u) ==
    \/ HandleRequest(u)
    \/ StartWork(u)
    \/ HandlerReturns(u)
    \/ StartResponse(u)
    \/ FinishResponse(u)

(* A session that has ended may stop.                                      *)
Ended == session = "closed" /\ UNCHANGED vars

ReceiveLoop ==
    \/ RetryAwaiting
    \/ AwaitingExpires
    \/ QueueError
    \/ NoticeWriterFailure

Next ==
    \/ ReadRequest
    \/ ReadCancellation
    \/ ReadMalformed
    \/ ReadEnd
    \/ ReceiveLoop
    \/ WriteError
    \/ \E u \in 1 .. Len(uses) : Handler(u)
    \/ Ended

Spec == Init /\ [][Next]_vars

(* tokio polls every ready task and timer again, a started write ends      *)
(* within MCP_OUTPUT_DRAIN_TIMEOUT, and store work on the blocking pool    *)
(* ends by itself; the client owes no frame.                               *)
Fairness ==
    /\ WF_vars(ReceiveLoop)
    /\ WF_vars(WriteError)
    /\ \A u \in 1 .. MaxUses : WF_vars(u \in DOMAIN uses /\ Handler(u))

LiveSpec == Spec /\ Fairness

-------------------------------------------------------------------------------
(* Properties.                                                             *)

InFlight(u) == uses[u].stage \in {"claimed", "working"}

(* The stages of a use that still has to release the slot of its id.       *)
Occupying == {"delivered", "claimed", "working", "returned", "answering"}

(* A slot of an open session belongs to a use of that id which will still  *)
(* release it: no order of cancellation, completion, refusal and failed    *)
(* write leaks a slot of the 32 (lifecycle.rs:240-279, transport.rs:86).   *)
NoSlotLeaked ==
    \A i \in DOMAIN requests :
        \E u \in DOMAIN uses : uses[u].id = i /\ uses[u].stage \in Occupying

(* "capacity still bounds live work" (lifecycle.rs:244): while the session *)
(* is open every handler that runs is covered by a slot of its own, also   *)
(* when cancellations and reuses of its id arrive around it.               *)
LiveWorkHasSlot ==
    session = "open" =>
        \A u \in DOMAIN uses : InFlight(u) =>
            /\ uses[u].id \in DOMAIN requests
            /\ requests[uses[u].id].phase = "running"
            /\ \A v \in DOMAIN uses : InFlight(v) /\ uses[v].id = uses[u].id => v = u

(* An answer is never taken for that of a later request with the same id:  *)
(* when a response is on its way no later use of its id has been admitted, *)
(* for all that the id is all start_response and finish_response know.     *)
AnswersTheRightUse ==
    \A u, v \in DOMAIN uses :
        /\ u < v
        /\ uses[u].id = uses[v].id
        /\ uses[u].stage \in {"returned", "answering"}
        => uses[v].stage \in {"waiting", "refused"}

(* The admission table accounts for the requests although it knows them by *)
(* id alone: no slot is leaked, none is given up under live work, and no   *)
(* answer is taken for a later request.                                    *)
SlotsSound ==
    /\ TypeOK
    /\ NoSlotLeaked
    /\ LiveWorkHasSlot
    /\ AnswersTheRightUse

(* "id was already used in this session": an id that was in flight when    *)
(* the legacy session opened, or was admitted in it, is never admitted     *)
(* again, cancelled or not.                                                *)
LegacyIdsOnce ==
    \A u, v \in DOMAIN uses :
        /\ u < v
        /\ uses[u].id = uses[v].id
        /\ uses[u].legacy
        /\ uses[u].stage \notin {"waiting", "refused"}
        => uses[v].stage = "refused"

(* The 2025 and 2026 families stay disjoint (lifecycle.rs:22): whatever    *)
(* order the first requests are handled in, every handler that works       *)
(* belongs to the family the connection ended up in.                       *)
FamiliesDisjoint ==
    \A u \in DOMAIN uses :
        InFlight(u) =>
            /\ family # "unopened"
            /\ uses[u].method # (IF family = "legacy" THEN "discover" ELSE "ping")
            /\ uses[u].meta \in {"none", IF family = "legacy" THEN "2025" ELSE "2026"}

(* One connection is of one protocol family, and in a legacy one no id is  *)
(* used twice, in whatever order the first requests are handled.           *)
FamiliesSound == LegacyIdsOnce /\ FamiliesDisjoint

(* Every request the client sends is answered, refused with an error or    *)
(* cancelled, or the session ends: nothing waits for an id, a permit or    *)
(* the error channel for ever.                                             *)
EveryRequestSettled ==
    \A u \in 1 .. MaxUses :
        (u \in DOMAIN uses) ~>
            (\/ session = "closed"
             \/ u \in DOMAIN uses /\ uses[u].stage \in {"answered", "suppressed", "refused"})
===============================================================================
