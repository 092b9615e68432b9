------------------------------ MODULE McpProofs ------------------------------
(***************************************************************************)
(* The admission table of one MCP connection accounts for every request,   *)
(* for any number of ids and requests, and whatever the limits are.        *)
(***************************************************************************)
EXTENDS McpSession, SequenceTheorems, TLAPS

(* Requests are admitted in order, so at most one use of an id occupies    *)
(* its slot: those read later wait or have been refused.                   *)
OrderInv ==
    \A u, v \in DOMAIN uses :
        /\ u < v
        /\ uses[u].id = uses[v].id
        /\ uses[u].stage \in Occupying \cup {"waiting"}
        => uses[v].stage \in {"waiting", "refused"}

(* Only the request read last can wait, for the release of a slot whose    *)
(* handler was cancelled while it ran.                                     *)
AwaitingInv ==
    /\ awaiting # 0 => awaiting = Len(uses) /\ family # "unopened"
    /\ \A v \in DOMAIN uses : uses[v].stage = "waiting" => awaiting = v
    /\ awaiting # 0 => uses[awaiting].stage = "waiting"
    /\ awaiting # 0 => \A u \in DOMAIN uses :
          uses[u].id = uses[awaiting].id /\ uses[u].stage \in Occupying => uses[u].cancelled
    /\ session = "open" /\ awaiting # 0 => ~(legacy /\ uses[awaiting].id \in seen)

CancelledInv ==
    \A u \in DOMAIN uses : uses[u].cancelled => uses[u].stage \in {"claimed", "working"}

(* What the slot of an id says of the use that occupies it.                *)
PhasesOf(stage) ==
    CASE stage = "delivered" -> {"reserved"}
      [] stage \in {"claimed", "working"} -> {"running"}
      [] stage = "returned" -> {"reserved", "handler_done"}
      [] stage = "answering" -> {"response_started"}

SlotInv ==
    session = "open" =>
        \A u \in DOMAIN uses : uses[u].stage \in Occupying =>
            /\ uses[u].id \in DOMAIN requests
            /\ requests[uses[u].id].transport_owned
            /\ requests[uses[u].id].cancelled = uses[u].cancelled
            /\ requests[uses[u].id].phase \in PhasesOf(uses[u].stage)

(* A slot that was claimed after the session ended is its handler's own.   *)
ClosedInv ==
    session = "closed" =>
        \A i \in DOMAIN requests :
            /\ ~requests[i].transport_owned
            /\ \A u \in DOMAIN uses : uses[u].id = i /\ uses[u].stage \in Occupying =>
                  uses[u].stage \in {"claimed", "working"}

(* The legacy session remembers the ids of the requests it counts as its   *)
(* own.                                                                    *)
SeenInv ==
    session = "open" =>
        /\ legacy <=> family = "legacy"
        /\ \A u \in DOMAIN uses :
              uses[u].legacy /\ uses[u].stage \notin {"waiting", "refused"} =>
                  legacy /\ uses[u].id \in seen

MInv ==
    /\ TypeOK
    /\ OrderInv
    /\ AwaitingInv
    /\ CancelledInv
    /\ SlotInv
    /\ ClosedInv
    /\ NoSlotLeaked
    /\ SeenInv
    /\ LegacyIdsOnce
    /\ FamiliesDisjoint

USE LimitsAssumption DEF Occupying, admission, errors

-----------------------------------------------------------------------------
(* The sequence of uses as a function.                                     *)
LEMMA UsesType ==
    ASSUME TypeOK
    PROVE  /\ Len(uses) \in Nat /\ Len(uses) <= MaxUses
           /\ DOMAIN uses = 1 .. Len(uses)
           /\ uses \in [1 .. Len(uses) -> Use]
           /\ \A u \in DOMAIN uses : uses[u] \in Use
BY LenProperties DEF TypeOK

LEMMA NewUses ==
    ASSUME NEW n \in Nat, NEW f \in [1 .. n -> Use]
    PROVE  f \in Seq(Use) /\ Len(f) = n /\ DOMAIN f = 1 .. n
<1>1. f \in Seq(Use)
  BY SeqDef
<1>2. DOMAIN f = 1 .. n /\ DOMAIN f = 1 .. Len(f) /\ Len(f) \in Nat
  BY <1>1, LenProperties
<1>3. Len(f) = n
  <2>1. CASE n = 0
    BY <1>2, <2>1
  <2>2. CASE n # 0
    <3>1. n \in 1 .. Len(f)
      BY <1>2, <2>2
    <3>2. Len(f) \in 1 .. n
      BY <1>2, <3>1
    <3> QED
      BY <1>2, <3>1, <3>2
  <2> QED
    BY <2>1, <2>2
<1> QED
  BY <1>1, <1>2, <1>3

(* A step that moves one use to another stage and changes no other.        *)
LEMMA AtType ==
    ASSUME TypeOK, NEW u \in 1 .. Len(uses), NEW stage \in Stages, At(u, stage)
    PROVE  /\ uses' \in Seq(Use) /\ Len(uses') = Len(uses) /\ DOMAIN uses' = DOMAIN uses
           /\ \A v \in DOMAIN uses :
                 /\ uses'[v].id = uses[v].id
                 /\ uses'[v].method = uses[v].method
                 /\ uses'[v].meta = uses[v].meta
                 /\ uses'[v].legacy = uses[v].legacy
                 /\ uses'[v].cancelled = uses[v].cancelled
                 /\ uses'[v].stage = IF v = u THEN stage ELSE uses[v].stage
<1>1. uses' \in [1 .. Len(uses) -> Use]
  BY UsesType DEF At, Use
<1>2. uses' \in Seq(Use) /\ Len(uses') = Len(uses) /\ DOMAIN uses' = DOMAIN uses
  BY <1>1, UsesType, NewUses
<1> QED
  BY <1>2, UsesType DEF At, Use

-----------------------------------------------------------------------------
(* The table as a function, and what its operations leave of it.           *)
LEMMA TableType ==
    ASSUME TypeOK
    PROVE  /\ DOMAIN requests \subseteq Ids
           /\ \A i \in DOMAIN requests :
                 /\ requests[i].phase \in Phases
                 /\ requests[i].transport_owned \in BOOLEAN
                 /\ requests[i].cancelled \in BOOLEAN
BY DEF TypeOK, RequestState

LEMMA WithFacts ==
    ASSUME TypeOK, NEW i \in Ids, NEW r \in RequestState, requests' = With(i, r)
    PROVE  /\ DOMAIN requests' = DOMAIN requests \cup {i}
           /\ requests'[i] = r
           /\ \A j \in DOMAIN requests : j # i => requests'[j] = requests[j]
           /\ DOMAIN requests' \subseteq Ids
           /\ \A j \in DOMAIN requests' : requests'[j] \in RequestState
BY DEF With, TypeOK

LEMMA WithoutFacts ==
    ASSUME TypeOK, NEW i, requests' = Without(i)
    PROVE  /\ DOMAIN requests' = DOMAIN requests \ {i}
           /\ \A j \in DOMAIN requests' : requests'[j] = requests[j]
           /\ DOMAIN requests' \subseteq Ids
           /\ \A j \in DOMAIN requests' : requests'[j] \in RequestState
BY DEF Without, TypeOK

(* A slot is marked in place: its phase or its cancellation changes.       *)
LEMMA MarkFacts ==
    ASSUME TypeOK, NEW i \in DOMAIN requests, NEW p \in Phases, NEW c \in BOOLEAN,
           requests' = [requests EXCEPT ![i] = [requests[i] EXCEPT !.phase = p,
                                                                   !.cancelled = c]]
    PROVE  /\ DOMAIN requests' = DOMAIN requests
           /\ requests'[i].phase = p
           /\ requests'[i].cancelled = c
           /\ requests'[i].transport_owned = requests[i].transport_owned
           /\ \A j \in DOMAIN requests : j # i => requests'[j] = requests[j]
           /\ DOMAIN requests' \subseteq Ids
           /\ \A j \in DOMAIN requests' : requests'[j] \in RequestState
<1> DEFINE r == [requests[i] EXCEPT !.phase = p, !.cancelled = c]
<1>1. requests[i] \in RequestState
  BY DEF TypeOK
<1>2. r \in RequestState /\ r.phase = p /\ r.cancelled = c
      /\ r.transport_owned = requests[i].transport_owned
  BY <1>1 DEF RequestState
<1>3. requests' = [requests EXCEPT ![i] = r]
  OBVIOUS
<1> HIDE DEF r
<1> QED
  BY <1>2, <1>3 DEF TypeOK

LEMMA EmptyTable ==
    ASSUME CloseTable
    PROVE  DOMAIN requests' = {} /\ seen' = {} /\ legacy' = FALSE
BY DEF CloseTable

(* At most one use of an id occupies its slot.                             *)
LEMMA OneOccupant ==
    ASSUME TypeOK, OrderInv, NEW u \in DOMAIN uses, NEW v \in DOMAIN uses,
           uses[u].id = uses[v].id, uses[u].stage \in Occupying, uses[v].stage \in Occupying
    PROVE  u = v
BY UsesType DEF OrderInv

-----------------------------------------------------------------------------
LEMMA InitMInv == Init => MInv
<1> SUFFICES ASSUME Init PROVE MInv
  OBVIOUS
<1>1. uses = <<>> /\ uses \in Seq(Use) /\ Len(uses) = 0 /\ DOMAIN uses = {}
  BY DEF Init
<1>2. DOMAIN requests = {} /\ awaiting = 0
  BY DEF Init
<1>3. /\ session = "open" /\ family = "unopened" /\ seen = {} /\ legacy = FALSE
      /\ pending = "none" /\ channel = 0 /\ writerUp = TRUE /\ faults = 0
  BY DEF Init
<1>4. uses \in Seq(Use) /\ Len(uses) <= MaxUses /\ awaiting \in 0 .. MaxUses
      /\ faults \in 0 .. MaxFaults
  BY <1>1, <1>2, <1>3
<1>5. /\ DOMAIN requests \subseteq Ids
      /\ \A i \in DOMAIN requests : requests[i] \in RequestState
      /\ seen \subseteq Ids
  BY <1>2, <1>3
<1>a. session \in {"open", "closed"} /\ family \in Families
      /\ pending \in {"none", "error", "terminal"} /\ channel \in 0 .. 1
  BY <1>3 DEF Families
<1>b. legacy \in BOOLEAN /\ writerUp \in BOOLEAN
  BY <1>3, Zenon
<1>6. TypeOK
  BY <1>4, <1>5, <1>a, <1>b DEF TypeOK
<1> QED
  BY <1>1, <1>2, <1>3, <1>6 DEF MInv, OrderInv, AwaitingInv, CancelledInv, SlotInv,
     ClosedInv, NoSlotLeaked, SeenInv, LegacyIdsOnce, FamiliesDisjoint

LEMMA StartWorkMInv ==
    ASSUME MInv, NEW u \in 1 .. Len(uses), StartWork(u)
    PROVE  MInv'
<1>1. /\ DOMAIN uses' = DOMAIN uses /\ uses' \in Seq(Use) /\ Len(uses') = Len(uses)
      /\ \A v \in DOMAIN uses :
            /\ uses'[v].id = uses[v].id
            /\ uses'[v].method = uses[v].method
            /\ uses'[v].meta = uses[v].meta
            /\ uses'[v].legacy = uses[v].legacy
            /\ uses'[v].cancelled = uses[v].cancelled
            /\ uses'[v].stage = IF v = u THEN "working" ELSE uses[v].stage
  BY AtType DEF MInv, StartWork, Stages
<1>2. /\ uses[u].stage = "claimed" /\ u \in DOMAIN uses
      /\ UNCHANGED <<session, family, requests, seen, legacy, awaiting, pending,
                     channel, writerUp, faults>>
  BY UsesType DEF MInv, StartWork
<1>3. TypeOK'
  BY <1>1, <1>2, UsesType DEF MInv, TypeOK, Families
<1>4. OrderInv'
  BY <1>1, <1>2, UsesType DEF MInv, OrderInv
<1>5. AwaitingInv'
  BY <1>1, <1>2, UsesType DEF MInv, AwaitingInv
<1>6. CancelledInv'
  BY <1>1, <1>2, UsesType DEF MInv, CancelledInv
<1>7. SlotInv'
  BY <1>1, <1>2, UsesType DEF MInv, SlotInv, PhasesOf
<1>8. ClosedInv'
  BY <1>1, <1>2, UsesType DEF MInv, ClosedInv
<1>9. NoSlotLeaked'
  BY <1>1, <1>2, UsesType DEF MInv, NoSlotLeaked
<1>10. SeenInv'
  BY <1>1, <1>2, UsesType DEF MInv, SeenInv
<1>11. LegacyIdsOnce'
  BY <1>1, <1>2, UsesType DEF MInv, LegacyIdsOnce
<1>12. FamiliesDisjoint'
  BY <1>1, <1>2, UsesType DEF MInv, FamiliesDisjoint, InFlight
<1> QED
  BY <1>3, <1>4, <1>5, <1>6, <1>7, <1>8, <1>9, <1>10, <1>11, <1>12 DEF MInv

LEMMA HandlerReturnsMInv ==
    ASSUME MInv, NEW u \in 1 .. Len(uses), HandlerReturns(u)
    PROVE  MInv'
<1>1. /\ DOMAIN uses' = DOMAIN uses /\ uses' \in Seq(Use) /\ Len(uses') = Len(uses)
      /\ \A v \in DOMAIN uses :
            /\ uses'[v].id = uses[v].id
            /\ uses'[v].method = uses[v].method
            /\ uses'[v].meta = uses[v].meta
            /\ uses'[v].legacy = uses[v].legacy
            /\ v # u => uses'[v] = uses[v]
      /\ uses'[u].cancelled = FALSE
      /\ uses'[u].stage = IF uses[u].cancelled THEN "suppressed" ELSE "returned"
  <2> DEFINE s == IF uses[u].cancelled THEN "suppressed" ELSE "returned"
             r == [uses[u] EXCEPT !.stage = s, !.cancelled = FALSE]
  <2>a. uses[u] \in Use /\ s \in Stages /\ TypeOK /\ u \in DOMAIN uses
    BY UsesType DEF MInv, Stages
  <2> HIDE DEF s
  <2>b. r \in Use
    BY <2>a DEF Use
  <2>c. uses' = [uses EXCEPT ![u] = r]
    BY <2>a, UsesType DEF HandlerReturns, s
  <2> HIDE DEF r
  <2>1. uses' \in [1 .. Len(uses) -> Use]
    BY <2>a, <2>b, <2>c, UsesType
  <2>2. uses' \in Seq(Use) /\ Len(uses') = Len(uses) /\ DOMAIN uses' = DOMAIN uses
    BY <2>1, UsesType, NewUses DEF MInv
  <2> QED
    BY <2>2, UsesType DEF MInv, HandlerReturns, Use
<1>2. /\ uses[u].stage \in {"claimed", "working"} /\ u \in DOMAIN uses
      /\ uses[u].id \in Ids
      /\ UNCHANGED <<session, family, seen, legacy, awaiting, pending,
                     channel, writerUp, faults>>
  BY UsesType DEF MInv, HandlerReturns, FinishHandler, Use
<1>3. /\ DOMAIN requests' \subseteq Ids
      /\ \A j \in DOMAIN requests' : requests'[j] \in RequestState
      /\ \A j \in DOMAIN requests : j # uses[u].id =>
            j \in DOMAIN requests' /\ requests'[j] = requests[j]
      /\ DOMAIN requests' \subseteq DOMAIN requests
      /\ session = "closed" => uses[u].id \notin DOMAIN requests'
      /\ session = "open" =>
            IF uses[u].cancelled THEN uses[u].id \notin DOMAIN requests'
            ELSE /\ uses[u].id \in DOMAIN requests'
                 /\ requests'[uses[u].id].phase = "handler_done"
                 /\ requests'[uses[u].id].transport_owned
                 /\ requests'[uses[u].id].cancelled = FALSE
  <2> DEFINE i == uses[u].id
  <2>1. FinishHandler(i)
    BY DEF HandlerReturns
  <2>2. session \in {"open", "closed"} /\ uses[u].cancelled \in BOOLEAN
    BY <1>2, UsesType DEF MInv, TypeOK, Use
  <2>3. CASE session = "closed"
    <3>1. CASE i \notin DOMAIN requests
      BY <2>1, <2>3, <3>1 DEF FinishHandler, MInv, TypeOK
    <3>2. CASE i \in DOMAIN requests
      <4>1. ~requests[i].transport_owned
        BY <2>3, <3>2 DEF MInv, ClosedInv
      <4>2. requests' = Without(i)
        BY <2>1, <3>2, <4>1 DEF FinishHandler
      <4>3. /\ DOMAIN requests' = DOMAIN requests \ {i}
            /\ \A j \in DOMAIN requests' : requests'[j] = requests[j]
            /\ DOMAIN requests' \subseteq Ids
            /\ \A j \in DOMAIN requests' : requests'[j] \in RequestState
        BY WithoutFacts, <4>2 DEF MInv
      <4> QED
        BY <2>3, <4>3
    <3> QED
      BY <3>1, <3>2
  <2>4. CASE session = "open"
    <3>1. /\ i \in DOMAIN requests
          /\ requests[i].transport_owned
          /\ requests[i].cancelled = uses[u].cancelled
          /\ requests[i].phase = "running"
      BY <1>2, <2>4 DEF MInv, SlotInv, PhasesOf
    <3>2. CASE uses[u].cancelled
      <4>1. requests' = Without(i)
        BY <2>1, <3>1, <3>2 DEF FinishHandler
      <4>2. /\ DOMAIN requests' = DOMAIN requests \ {i}
            /\ \A j \in DOMAIN requests' : requests'[j] = requests[j]
            /\ DOMAIN requests' \subseteq Ids
            /\ \A j \in DOMAIN requests' : requests'[j] \in RequestState
        BY WithoutFacts, <4>1 DEF MInv
      <4> QED
        BY <2>4, <3>2, <4>2
    <3>3. CASE ~uses[u].cancelled
      <4>1. requests[i] \in RequestState
        BY <3>1 DEF MInv, TypeOK
      <4>2. requests' = [requests EXCEPT
                            ![i] = [requests[i] EXCEPT !.phase = "handler_done",
                                                       !.cancelled = requests[i].cancelled]]
        BY <2>1, <3>1, <3>3, <4>1 DEF FinishHandler, RequestState
      <4>3. requests[i].cancelled \in BOOLEAN /\ "handler_done" \in Phases
        BY <4>1 DEF RequestState, Phases
      <4>4. /\ DOMAIN requests' = DOMAIN requests
            /\ requests'[i].phase = "handler_done"
            /\ requests'[i].cancelled = requests[i].cancelled
            /\ requests'[i].transport_owned = requests[i].transport_owned
            /\ \A j \in DOMAIN requests : j # i => requests'[j] = requests[j]
            /\ DOMAIN requests' \subseteq Ids
            /\ \A j \in DOMAIN requests' : requests'[j] \in RequestState
        BY <3>1, <4>2, <4>3, MarkFacts DEF MInv
      <4> QED
        BY <2>2, <2>4, <3>1, <3>3, <4>4
    <3> QED
      BY <2>2, <3>2, <3>3
  <2> QED
    BY <2>2, <2>3, <2>4
<1>4. TypeOK'
  BY <1>1, <1>2, <1>3, UsesType DEF MInv, TypeOK, Families
<1>5. OrderInv'
  BY <1>1, <1>2, <1>3, UsesType DEF MInv, OrderInv
<1>6. AwaitingInv'
  BY <1>1, <1>2, <1>3, UsesType DEF MInv, AwaitingInv
<1>7. CancelledInv'
  BY <1>1, <1>2, <1>3, UsesType DEF MInv, CancelledInv
<1>8. SlotInv'
  <2>1. \A v \in DOMAIN uses : uses[v].stage \in Occupying /\ uses[v].id = uses[u].id => v = u
    BY <1>2, OneOccupant DEF MInv
  <2> SUFFICES ASSUME session = "open", NEW v \in DOMAIN uses, uses'[v].stage \in Occupying
               PROVE  /\ uses'[v].id \in DOMAIN requests'
                      /\ requests'[uses'[v].id].transport_owned
                      /\ requests'[uses'[v].id].cancelled = uses'[v].cancelled
                      /\ requests'[uses'[v].id].phase \in PhasesOf(uses'[v].stage)
    BY <1>1, <1>2 DEF SlotInv
  <2>2. CASE v = u
    BY <1>1, <1>2, <1>3, <2>2 DEF PhasesOf
  <2>3. CASE v # u
    BY <1>1, <1>2, <1>3, <2>1, <2>3 DEF MInv, SlotInv
  <2> QED
    BY <2>2, <2>3
<1>9. ClosedInv'
  BY <1>1, <1>2, <1>3, UsesType DEF MInv, ClosedInv, TypeOK
<1>10. NoSlotLeaked'
  <2> SUFFICES ASSUME NEW i \in DOMAIN requests'
               PROVE  \E v \in DOMAIN uses' : uses'[v].id = i /\ uses'[v].stage \in Occupying
    BY DEF NoSlotLeaked
  <2>1. CASE i = uses[u].id
    BY <1>1, <1>2, <1>3, <2>1, UsesType DEF MInv, TypeOK, Use
  <2>2. CASE i # uses[u].id
    BY <1>1, <1>2, <1>3, <2>2 DEF MInv, NoSlotLeaked
  <2> QED
    BY <2>1, <2>2
<1>11. SeenInv'
  BY <1>1, <1>2, <1>3, UsesType DEF MInv, SeenInv
<1>12. LegacyIdsOnce'
  BY <1>1, <1>2, <1>3, UsesType DEF MInv, LegacyIdsOnce
<1>13. FamiliesDisjoint'
  BY <1>1, <1>2, <1>3, UsesType DEF MInv, FamiliesDisjoint, InFlight
<1> QED
  BY <1>4, <1>5, <1>6, <1>7, <1>8, <1>9, <1>10, <1>11, <1>12, <1>13 DEF MInv

LEMMA StartResponseMInv ==
    ASSUME MInv, NEW u \in 1 .. Len(uses), StartResponse(u)
    PROVE  MInv'
<1>1. /\ DOMAIN uses' = DOMAIN uses /\ uses' \in Seq(Use) /\ Len(uses') = Len(uses)
      /\ \A v \in DOMAIN uses :
            /\ uses'[v].id = uses[v].id
            /\ uses'[v].method = uses[v].method
            /\ uses'[v].meta = uses[v].meta
            /\ uses'[v].legacy = uses[v].legacy
            /\ uses'[v].cancelled = uses[v].cancelled
            /\ uses'[v].stage = IF v = u THEN "answering" ELSE uses[v].stage
  BY AtType DEF MInv, StartResponse, Stages
<1>2. /\ uses[u].stage = "returned" /\ u \in DOMAIN uses
      /\ uses[u].id \in Ids
      /\ UNCHANGED <<session, family, seen, legacy, awaiting, pending,
                     channel, writerUp, faults>>
  BY UsesType DEF MInv, StartResponse, Use
<1>3. /\ DOMAIN requests' = DOMAIN requests
      /\ \A j \in DOMAIN requests' : requests'[j] \in RequestState
      /\ \A j \in DOMAIN requests : j # uses[u].id => requests'[j] = requests[j]
      /\ session = "closed" => uses[u].id \notin DOMAIN requests
      /\ uses[u].id \in DOMAIN requests =>
            /\ requests'[uses[u].id].phase = "response_started"
            /\ requests'[uses[u].id].transport_owned = requests[uses[u].id].transport_owned
            /\ requests'[uses[u].id].cancelled = requests[uses[u].id].cancelled
  <2> DEFINE i == uses[u].id
  <2>1. session = "closed" => i \notin DOMAIN requests
    BY <1>2 DEF MInv, ClosedInv
  <2>2. CASE i \notin DOMAIN requests
    BY <2>1, <2>2 DEF StartResponse, MInv, TypeOK
  <2>3. CASE i \in DOMAIN requests
    <3>1. requests[i] \in RequestState
      BY <2>3 DEF MInv, TypeOK
    <3>2. requests' = [requests EXCEPT
                          ![i] = [requests[i] EXCEPT !.phase = "response_started",
                                                     !.cancelled = requests[i].cancelled]]
      BY <2>3, <3>1 DEF StartResponse, RequestState
    <3>3. requests[i].cancelled \in BOOLEAN /\ "response_started" \in Phases
      BY <3>1 DEF RequestState, Phases
    <3>4. /\ DOMAIN requests' = DOMAIN requests
          /\ requests'[i].phase = "response_started"
          /\ requests'[i].cancelled = requests[i].cancelled
          /\ requests'[i].transport_owned = requests[i].transport_owned
          /\ \A j \in DOMAIN requests : j # i => requests'[j] = requests[j]
          /\ \A j \in DOMAIN requests' : requests'[j] \in RequestState
      BY <2>3, <3>2, <3>3, MarkFacts DEF MInv
    <3> QED
      BY <2>1, <3>4
  <2> QED
    BY <2>2, <2>3
<1>4. TypeOK'
  BY <1>1, <1>2, <1>3, UsesType DEF MInv, TypeOK, Families
<1>5. OrderInv'
  BY <1>1, <1>2, <1>3, UsesType DEF MInv, OrderInv
<1>6. AwaitingInv'
  BY <1>1, <1>2, <1>3, UsesType DEF MInv, AwaitingInv
<1>7. CancelledInv'
  BY <1>1, <1>2, <1>3, UsesType DEF MInv, CancelledInv
<1>8. SlotInv'
  <2>1. \A v \in DOMAIN uses : uses[v].stage \in Occupying /\ uses[v].id = uses[u].id => v = u
    BY <1>2, OneOccupant DEF MInv
  <2> QED
    BY <1>1, <1>2, <1>3, <2>1, UsesType DEF MInv, SlotInv, PhasesOf
<1>9. ClosedInv'
  BY <1>1, <1>2, <1>3, UsesType DEF MInv, ClosedInv
<1>10. NoSlotLeaked'
  BY <1>1, <1>2, <1>3, UsesType DEF MInv, NoSlotLeaked
<1>11. SeenInv'
  BY <1>1, <1>2, <1>3, UsesType DEF MInv, SeenInv
<1>12. LegacyIdsOnce'
  BY <1>1, <1>2, <1>3, UsesType DEF MInv, LegacyIdsOnce
<1>13. FamiliesDisjoint'
  BY <1>1, <1>2, <1>3, UsesType DEF MInv, FamiliesDisjoint, InFlight
<1> QED
  BY <1>4, <1>5, <1>6, <1>7, <1>8, <1>9, <1>10, <1>11, <1>12, <1>13 DEF MInv

LEMMA FinishResponseMInv ==
    ASSUME MInv, NEW u \in 1 .. Len(uses), FinishResponse(u)
    PROVE  MInv'
<1>1. /\ DOMAIN uses' = DOMAIN uses /\ uses' \in Seq(Use) /\ Len(uses') = Len(uses)
      /\ \A v \in DOMAIN uses :
            /\ uses'[v].id = uses[v].id
            /\ uses'[v].method = uses[v].method
            /\ uses'[v].meta = uses[v].meta
            /\ uses'[v].legacy = uses[v].legacy
            /\ uses'[v].cancelled = uses[v].cancelled
            /\ uses'[v].stage = IF v = u THEN "answered" ELSE uses[v].stage
  BY AtType DEF MInv, FinishResponse, Stages
<1>2. /\ uses[u].stage = "answering" /\ u \in DOMAIN uses
      /\ UNCHANGED <<session, family, seen, legacy, awaiting, pending,
                     channel, writerUp, faults>>
  BY UsesType DEF MInv, FinishResponse
<1>3. /\ DOMAIN requests' = DOMAIN requests \ {uses[u].id}
      /\ \A j \in DOMAIN requests' : requests'[j] = requests[j]
      /\ DOMAIN requests' \subseteq Ids
      /\ \A j \in DOMAIN requests' : requests'[j] \in RequestState
  BY WithoutFacts DEF MInv, FinishResponse
<1>4. TypeOK'
  BY <1>1, <1>2, <1>3, UsesType DEF MInv, TypeOK, Families
<1>5. OrderInv'
  BY <1>1, <1>2, <1>3, UsesType DEF MInv, OrderInv
<1>6. AwaitingInv'
  BY <1>1, <1>2, <1>3, UsesType DEF MInv, AwaitingInv
<1>7. CancelledInv'
  BY <1>1, <1>2, <1>3, UsesType DEF MInv, CancelledInv
<1>8. SlotInv'
  <2>1. \A v \in DOMAIN uses : uses[v].stage \in Occupying /\ uses[v].id = uses[u].id => v = u
    BY <1>2, OneOccupant DEF MInv
  <2> QED
    BY <1>1, <1>2, <1>3, <2>1, UsesType DEF MInv, SlotInv, PhasesOf
<1>9. ClosedInv'
  BY <1>1, <1>2, <1>3, UsesType DEF MInv, ClosedInv
<1>10. NoSlotLeaked'
  BY <1>1, <1>2, <1>3, UsesType DEF MInv, NoSlotLeaked
<1>11. SeenInv'
  BY <1>1, <1>2, <1>3, UsesType DEF MInv, SeenInv
<1>12. LegacyIdsOnce'
  BY <1>1, <1>2, <1>3, UsesType DEF MInv, LegacyIdsOnce
<1>13. FamiliesDisjoint'
  BY <1>1, <1>2, <1>3, UsesType DEF MInv, FamiliesDisjoint, InFlight
<1> QED
  BY <1>4, <1>5, <1>6, <1>7, <1>8, <1>9, <1>10, <1>11, <1>12, <1>13 DEF MInv

LEMMA ReadMalformedMInv ==
    ASSUME MInv, ReadMalformed
    PROVE  MInv'
<1>1. /\ uses' = uses /\ family' = family /\ awaiting' = awaiting
      /\ pending' \in {"none", "error", "terminal"} /\ channel' \in 0 .. 1
      /\ writerUp' \in BOOLEAN /\ faults' \in 0 .. MaxFaults
  BY DEF MInv, TypeOK, ReadMalformed
<1>2. UNCHANGED <<session, requests, seen, legacy>>
  BY DEF ReadMalformed
<1>3. TypeOK'
  BY <1>1, <1>2, UsesType DEF MInv, TypeOK, Families
<1>4. OrderInv'
  BY <1>1, <1>2, UsesType DEF MInv, OrderInv
<1>5. AwaitingInv'
  BY <1>1, <1>2, UsesType DEF MInv, AwaitingInv
<1>6. CancelledInv'
  BY <1>1, <1>2, UsesType DEF MInv, CancelledInv
<1>7. SlotInv'
  BY <1>1, <1>2, UsesType DEF MInv, SlotInv, PhasesOf
<1>8. ClosedInv'
  BY <1>1, <1>2, UsesType DEF MInv, ClosedInv
<1>9. NoSlotLeaked'
  BY <1>1, <1>2, UsesType DEF MInv, NoSlotLeaked
<1>10. SeenInv'
  BY <1>1, <1>2, UsesType DEF MInv, SeenInv
<1>11. LegacyIdsOnce'
  BY <1>1, <1>2, UsesType DEF MInv, LegacyIdsOnce
<1>12. FamiliesDisjoint'
  BY <1>1, <1>2, UsesType DEF MInv, FamiliesDisjoint, InFlight
<1> QED
  BY <1>3, <1>4, <1>5, <1>6, <1>7, <1>8, <1>9, <1>10, <1>11, <1>12 DEF MInv

LEMMA ReadEndMInv ==
    ASSUME MInv, ReadEnd
    PROVE  MInv'
<1>1. /\ uses' = uses /\ family' = family /\ awaiting' = awaiting
      /\ pending' \in {"none", "error", "terminal"} /\ channel' \in 0 .. 1
      /\ writerUp' \in BOOLEAN /\ faults' \in 0 .. MaxFaults
  BY DEF MInv, TypeOK, ReadEnd
<1>2. session' = "closed" /\ DOMAIN requests' = {} /\ seen' = {} /\ legacy' = FALSE
  BY EmptyTable DEF ReadEnd, Stop
<1>3. TypeOK'
  BY <1>1, <1>2, UsesType DEF MInv, TypeOK, Families
<1>4. OrderInv'
  BY <1>1, <1>2, UsesType DEF MInv, OrderInv
<1>5. AwaitingInv'
  BY <1>1, <1>2, UsesType DEF MInv, AwaitingInv
<1>6. CancelledInv'
  BY <1>1, <1>2, UsesType DEF MInv, CancelledInv
<1>7. SlotInv'
  BY <1>1, <1>2, UsesType DEF MInv, SlotInv, PhasesOf
<1>8. ClosedInv'
  BY <1>1, <1>2, UsesType DEF MInv, ClosedInv
<1>9. NoSlotLeaked'
  BY <1>1, <1>2, UsesType DEF MInv, NoSlotLeaked
<1>10. SeenInv'
  BY <1>1, <1>2, UsesType DEF MInv, SeenInv
<1>11. LegacyIdsOnce'
  BY <1>1, <1>2, UsesType DEF MInv, LegacyIdsOnce
<1>12. FamiliesDisjoint'
  BY <1>1, <1>2, UsesType DEF MInv, FamiliesDisjoint, InFlight
<1> QED
  BY <1>3, <1>4, <1>5, <1>6, <1>7, <1>8, <1>9, <1>10, <1>11, <1>12 DEF MInv

LEMMA QueueErrorMInv ==
    ASSUME MInv, QueueError
    PROVE  MInv'
<1>1. /\ uses' = uses /\ family' = family /\ awaiting' = awaiting
      /\ pending' \in {"none", "error", "terminal"} /\ channel' \in 0 .. 1
      /\ writerUp' \in BOOLEAN /\ faults' \in 0 .. MaxFaults
  BY DEF MInv, TypeOK, QueueError
<1>2. \/ session' = "closed" /\ DOMAIN requests' = {} /\ seen' = {} /\ legacy' = FALSE
      \/ UNCHANGED <<session, requests, seen, legacy>>
  BY EmptyTable DEF QueueError, Stop
<1>3. TypeOK'
  BY <1>1, <1>2, UsesType DEF MInv, TypeOK, Families
<1>4. OrderInv'
  BY <1>1, <1>2, UsesType DEF MInv, OrderInv
<1>5. AwaitingInv'
  BY <1>1, <1>2, UsesType DEF MInv, AwaitingInv
<1>6. CancelledInv'
  BY <1>1, <1>2, UsesType DEF MInv, CancelledInv
<1>7. SlotInv'
  BY <1>1, <1>2, UsesType DEF MInv, SlotInv, PhasesOf
<1>8. ClosedInv'
  BY <1>1, <1>2, UsesType DEF MInv, ClosedInv
<1>9. NoSlotLeaked'
  BY <1>1, <1>2, UsesType DEF MInv, NoSlotLeaked
<1>10. SeenInv'
  BY <1>1, <1>2, UsesType DEF MInv, SeenInv
<1>11. LegacyIdsOnce'
  BY <1>1, <1>2, UsesType DEF MInv, LegacyIdsOnce
<1>12. FamiliesDisjoint'
  BY <1>1, <1>2, UsesType DEF MInv, FamiliesDisjoint, InFlight
<1> QED
  BY <1>3, <1>4, <1>5, <1>6, <1>7, <1>8, <1>9, <1>10, <1>11, <1>12 DEF MInv

LEMMA WriteErrorMInv ==
    ASSUME MInv, WriteError
    PROVE  MInv'
<1>1. /\ uses' = uses /\ family' = family /\ awaiting' = awaiting
      /\ pending' = pending /\ channel' = 0 /\ faults' \in 0 .. MaxFaults
  <2>1. faults' = faults \/ (faults < MaxFaults /\ faults' = faults + 1)
    BY DEF WriteError
  <2>2. faults \in 0 .. MaxFaults
    BY DEF MInv, TypeOK
  <2>3. uses' = uses /\ family' = family /\ awaiting' = awaiting
        /\ pending' = pending /\ channel' = 0
    BY DEF WriteError
  <2> QED
    BY <2>1, <2>2, <2>3
<1>2. writerUp' \in BOOLEAN
  <2>1. writerUp' = writerUp \/ writerUp' = FALSE
    BY DEF WriteError
  <2>2. writerUp \in BOOLEAN
    BY DEF MInv, TypeOK
  <2> QED
    BY <2>1, <2>2, Zenon
<1>3. UNCHANGED <<session, requests, seen, legacy>>
  BY DEF WriteError
<1>4. TypeOK'
  BY <1>1, <1>2, <1>3, UsesType DEF MInv, TypeOK, Families
<1>5. OrderInv'
  BY <1>1, <1>2, <1>3, UsesType DEF MInv, OrderInv
<1>6. AwaitingInv'
  BY <1>1, <1>2, <1>3, UsesType DEF MInv, AwaitingInv
<1>7. CancelledInv'
  BY <1>1, <1>2, <1>3, UsesType DEF MInv, CancelledInv
<1>8. SlotInv'
  BY <1>1, <1>2, <1>3, UsesType DEF MInv, SlotInv, PhasesOf
<1>9. ClosedInv'
  BY <1>1, <1>2, <1>3, UsesType DEF MInv, ClosedInv
<1>10. NoSlotLeaked'
  BY <1>1, <1>2, <1>3, UsesType DEF MInv, NoSlotLeaked
<1>11. SeenInv'
  BY <1>1, <1>2, <1>3, UsesType DEF MInv, SeenInv
<1>12. LegacyIdsOnce'
  BY <1>1, <1>2, <1>3, UsesType DEF MInv, LegacyIdsOnce
<1>13. FamiliesDisjoint'
  BY <1>1, <1>2, <1>3, UsesType DEF MInv, FamiliesDisjoint, InFlight
<1> QED
  BY <1>4, <1>5, <1>6, <1>7, <1>8, <1>9, <1>10, <1>11, <1>12, <1>13 DEF MInv

LEMMA NoticeWriterFailureMInv ==
    ASSUME MInv, NoticeWriterFailure
    PROVE  MInv'
<1>1. /\ uses' = uses /\ family' = family /\ awaiting' = awaiting
      /\ pending' \in {"none", "error", "terminal"} /\ channel' \in 0 .. 1
      /\ writerUp' \in BOOLEAN /\ faults' \in 0 .. MaxFaults
  BY DEF MInv, TypeOK, NoticeWriterFailure
<1>2. session' = "closed" /\ DOMAIN requests' = {} /\ seen' = {} /\ legacy' = FALSE
  BY EmptyTable DEF NoticeWriterFailure, Stop
<1>3. TypeOK'
  BY <1>1, <1>2, UsesType DEF MInv, TypeOK, Families
<1>4. OrderInv'
  BY <1>1, <1>2, UsesType DEF MInv, OrderInv
<1>5. AwaitingInv'
  BY <1>1, <1>2, UsesType DEF MInv, AwaitingInv
<1>6. CancelledInv'
  BY <1>1, <1>2, UsesType DEF MInv, CancelledInv
<1>7. SlotInv'
  BY <1>1, <1>2, UsesType DEF MInv, SlotInv, PhasesOf
<1>8. ClosedInv'
  BY <1>1, <1>2, UsesType DEF MInv, ClosedInv
<1>9. NoSlotLeaked'
  BY <1>1, <1>2, UsesType DEF MInv, NoSlotLeaked
<1>10. SeenInv'
  BY <1>1, <1>2, UsesType DEF MInv, SeenInv
<1>11. LegacyIdsOnce'
  BY <1>1, <1>2, UsesType DEF MInv, LegacyIdsOnce
<1>12. FamiliesDisjoint'
  BY <1>1, <1>2, UsesType DEF MInv, FamiliesDisjoint, InFlight
<1> QED
  BY <1>3, <1>4, <1>5, <1>6, <1>7, <1>8, <1>9, <1>10, <1>11, <1>12 DEF MInv

LEMMA AwaitingExpiresMInv ==
    ASSUME MInv, AwaitingExpires
    PROVE  MInv'
<1>1. awaiting \in 1 .. Len(uses) /\ uses[awaiting].stage = "waiting"
  BY UsesType DEF MInv, AwaitingExpires, AwaitingInv, TypeOK
<1>2. /\ DOMAIN uses' = DOMAIN uses /\ uses' \in Seq(Use) /\ Len(uses') = Len(uses)
      /\ \A v \in DOMAIN uses :
            /\ uses'[v].id = uses[v].id
            /\ uses'[v].method = uses[v].method
            /\ uses'[v].meta = uses[v].meta
            /\ uses'[v].legacy = uses[v].legacy
            /\ uses'[v].cancelled = uses[v].cancelled
            /\ uses'[v].stage = IF v = awaiting THEN "refused" ELSE uses[v].stage
  BY <1>1, AtType DEF MInv, AwaitingExpires, At, Stages
<1>3. awaiting' = 0 /\ pending' = "error"
      /\ UNCHANGED <<session, family, requests, seen, legacy, channel, writerUp, faults>>
  BY DEF AwaitingExpires
<1>4. TypeOK'
  BY <1>1, <1>2, <1>3, UsesType DEF MInv, TypeOK, Families
<1>5. OrderInv'
  BY <1>1, <1>2, <1>3, UsesType DEF MInv, OrderInv
<1>6. AwaitingInv'
  BY <1>1, <1>2, <1>3, UsesType DEF MInv, AwaitingInv
<1>7. CancelledInv'
  BY <1>1, <1>2, <1>3, UsesType DEF MInv, CancelledInv
<1>8. SlotInv'
  BY <1>1, <1>2, <1>3, UsesType DEF MInv, SlotInv, PhasesOf
<1>9. ClosedInv'
  BY <1>1, <1>2, <1>3, UsesType DEF MInv, ClosedInv
<1>10. NoSlotLeaked'
  BY <1>1, <1>2, <1>3, UsesType DEF MInv, NoSlotLeaked
<1>11. SeenInv'
  BY <1>1, <1>2, <1>3, UsesType DEF MInv, SeenInv
<1>12. LegacyIdsOnce'
  BY <1>1, <1>2, <1>3, UsesType DEF MInv, LegacyIdsOnce
<1>13. FamiliesDisjoint'
  BY <1>1, <1>2, <1>3, UsesType DEF MInv, FamiliesDisjoint, InFlight
<1> QED
  BY <1>4, <1>5, <1>6, <1>7, <1>8, <1>9, <1>10, <1>11, <1>12, <1>13 DEF MInv

LEMMA ReadCancellationMInv ==
    ASSUME MInv, NEW i \in Ids, NEW t \in Tasks(i), session = "open", awaiting
           = 0, Cancel(i), uses' = [u \in DOMAIN uses |->
           IF u \notin Tasks(i) THEN uses[u]                      ELSE IF
           uses[u].stage \in {"delivered", "returned"}
           THEN [uses[u] EXCEPT !.stage = "suppressed"]
           ELSE [uses[u] EXCEPT !.cancelled = TRUE]],            UNCHANGED
           <<session, family, awaiting, errors, faults>>
    PROVE  MInv'
<1>1. /\ t \in DOMAIN uses /\ uses[t].id = i
      /\ uses[t].stage \in {"delivered", "claimed", "working", "returned"}
      /\ \A v \in DOMAIN uses : uses[v].stage \in Occupying /\ uses[v].id = i => v = t
      /\ Tasks(i) = {t}
  <2>1. /\ t \in DOMAIN uses /\ uses[t].id = i
        /\ uses[t].stage \in {"delivered", "claimed", "working", "returned"}
    BY DEF Tasks
  <2>2. \A v \in DOMAIN uses : uses[v].stage \in Occupying /\ uses[v].id = i => v = t
    BY <2>1, OneOccupant DEF MInv
  <2> QED
    BY <2>1, <2>2 DEF Tasks
<1>2. /\ DOMAIN uses' = DOMAIN uses /\ uses' \in Seq(Use) /\ Len(uses') = Len(uses)
      /\ \A v \in DOMAIN uses :
            /\ uses'[v].id = uses[v].id
            /\ uses'[v].method = uses[v].method
            /\ uses'[v].meta = uses[v].meta
            /\ uses'[v].legacy = uses[v].legacy
            /\ v # t => uses'[v] = uses[v]
      /\ uses[t].stage \in {"delivered", "returned"} =>
            uses'[t].stage = "suppressed" /\ uses'[t].cancelled = uses[t].cancelled
      /\ uses[t].stage \in {"claimed", "working"} =>
            uses'[t].stage = uses[t].stage /\ uses'[t].cancelled = TRUE
  <2>1. \A v \in DOMAIN uses : uses[v] \in Use
    BY UsesType DEF MInv
  <2>2. /\ DOMAIN uses' = DOMAIN uses
        /\ \A v \in DOMAIN uses : v # t => uses'[v] = uses[v]
        /\ uses'[t] = IF uses[t].stage \in {"delivered", "returned"}
                      THEN [uses[t] EXCEPT !.stage = "suppressed"]
                      ELSE [uses[t] EXCEPT !.cancelled = TRUE]
    BY <1>1
  <2>3. uses'[t] \in Use
    BY <1>1, <2>1, <2>2 DEF Use, Stages
  <2>4. uses' \in [1 .. Len(uses) -> Use]
    <3>1. \A v \in DOMAIN uses : uses'[v] \in Use
      BY <2>1, <2>2, <2>3
    <3>2. uses' = [v \in DOMAIN uses |-> uses'[v]]
      OBVIOUS
    <3> QED
      BY <3>1, <3>2, UsesType DEF MInv
  <2>5. uses' \in Seq(Use) /\ Len(uses') = Len(uses)
    BY <2>4, UsesType, NewUses DEF MInv
  <2> QED
    BY <1>1, <2>1, <2>2, <2>5 DEF Use
<1>3. /\ i \in DOMAIN requests
      /\ requests[i].phase \in PhasesOf(uses[t].stage)
      /\ requests[i].cancelled = uses[t].cancelled /\ requests[i].transport_owned
      /\ UNCHANGED <<seen, legacy>>
  BY <1>1 DEF MInv, SlotInv, Cancel
<1>4. /\ DOMAIN requests' \subseteq Ids
      /\ \A j \in DOMAIN requests' : requests'[j] \in RequestState
      /\ DOMAIN requests' \subseteq DOMAIN requests
      /\ \A j \in DOMAIN requests : j # i =>
            j \in DOMAIN requests' /\ requests'[j] = requests[j]
      /\ uses[t].stage \in {"delivered", "returned"} => i \notin DOMAIN requests'
      /\ uses[t].stage \in {"claimed", "working"} =>
            /\ i \in DOMAIN requests'
            /\ requests'[i].cancelled = TRUE
            /\ requests'[i].transport_owned
            /\ requests'[i].phase = "running"
  <2>1. CASE uses[t].stage \in {"delivered", "returned"}
    <3>1. requests' = Without(i)
      BY <1>3, <2>1 DEF Cancel, PhasesOf
    <3>2. /\ DOMAIN requests' = DOMAIN requests \ {i}
          /\ \A j \in DOMAIN requests' : requests'[j] = requests[j]
          /\ DOMAIN requests' \subseteq Ids
          /\ \A j \in DOMAIN requests' : requests'[j] \in RequestState
      BY WithoutFacts, <3>1 DEF MInv
    <3> QED
      BY <2>1, <3>2
  <2>2. CASE uses[t].stage \in {"claimed", "working"}
    <3>1. requests[i] \in RequestState /\ requests[i].phase = "running"
      BY <1>3, <2>2 DEF MInv, TypeOK, PhasesOf
    <3>2. requests' = [requests EXCEPT ![i] = [requests[i] EXCEPT !.phase = "running",
                                                                  !.cancelled = TRUE]]
      BY <1>3, <3>1 DEF Cancel, RequestState
    <3>3. /\ DOMAIN requests' = DOMAIN requests
          /\ requests'[i].phase = "running"
          /\ requests'[i].cancelled = TRUE
          /\ requests'[i].transport_owned = requests[i].transport_owned
          /\ \A j \in DOMAIN requests : j # i => requests'[j] = requests[j]
          /\ DOMAIN requests' \subseteq Ids
          /\ \A j \in DOMAIN requests' : requests'[j] \in RequestState
      BY <1>3, <3>2, MarkFacts DEF MInv, Phases
    <3> QED
      BY <1>3, <2>2, <3>3
  <2> QED
    BY <1>1, <2>1, <2>2
<1>5. TypeOK'
  BY <1>1, <1>2, <1>3, <1>4, UsesType DEF MInv, TypeOK, Families
<1>6. OrderInv'
  BY <1>1, <1>2, <1>3, <1>4, UsesType DEF MInv, OrderInv
<1>7. AwaitingInv'
  BY <1>1, <1>2, <1>3, <1>4, UsesType DEF MInv, AwaitingInv
<1>8. CancelledInv'
  BY <1>1, <1>2, <1>3, <1>4, UsesType DEF MInv, CancelledInv
<1>9. SlotInv'
  <2> SUFFICES ASSUME session = "open", NEW v \in DOMAIN uses, uses'[v].stage \in Occupying
               PROVE  /\ uses'[v].id \in DOMAIN requests'
                      /\ requests'[uses'[v].id].transport_owned
                      /\ requests'[uses'[v].id].cancelled = uses'[v].cancelled
                      /\ requests'[uses'[v].id].phase \in PhasesOf(uses'[v].stage)
    BY <1>1, <1>2, <1>3 DEF SlotInv
  <2>1. CASE v = t
    <3>1. uses[t].stage \in {"claimed", "working"}
      BY <1>1, <1>2, <2>1
    <3>2. uses'[t].id = i /\ uses'[t].stage = uses[t].stage /\ uses'[t].cancelled = TRUE
      BY <1>1, <1>2, <3>1
    <3>3. PhasesOf(uses[t].stage) = {"running"}
      BY <3>1 DEF PhasesOf
    <3> QED
      BY <1>4, <2>1, <3>1, <3>2, <3>3
  <2>2. CASE v # t
    BY <1>1, <1>2, <1>3, <1>4, <2>2 DEF MInv, SlotInv
  <2> QED
    BY <2>1, <2>2
<1>10. ClosedInv'
  BY <1>1, <1>2, <1>3, <1>4, UsesType DEF MInv, ClosedInv
<1>11. NoSlotLeaked'
  <2> SUFFICES ASSUME NEW j \in DOMAIN requests'
               PROVE  \E v \in DOMAIN uses' : uses'[v].id = j /\ uses'[v].stage \in Occupying
    BY DEF NoSlotLeaked
  <2>1. CASE j = i
    BY <1>1, <1>2, <1>4, <2>1
  <2>2. CASE j # i
    BY <1>1, <1>2, <1>4, <2>2 DEF MInv, NoSlotLeaked
  <2> QED
    BY <2>1, <2>2
<1>12. SeenInv'
  BY <1>1, <1>2, <1>3, <1>4, UsesType DEF MInv, SeenInv
<1>13. LegacyIdsOnce'
  BY <1>1, <1>2, <1>3, <1>4, UsesType DEF MInv, LegacyIdsOnce
<1>14. FamiliesDisjoint'
  BY <1>1, <1>2, <1>3, <1>4, UsesType DEF MInv, FamiliesDisjoint, InFlight
<1> QED
  BY <1>5, <1>6, <1>7, <1>8, <1>9, <1>10, <1>11, <1>12, <1>13, <1>14 DEF MInv

(* A delivered request is refused before it claims its slot.              *)
LEMMA RefuseRequestMInv ==
    ASSUME MInv, NEW u \in 1 .. Len(uses), uses[u].stage = "delivered", At(u,
           "returned"),            UNCHANGED <<session, family, requests, seen,
           legacy, awaiting, pending, channel, writerUp, faults>>
    PROVE  MInv'
<1>1. /\ DOMAIN uses' = DOMAIN uses /\ uses' \in Seq(Use) /\ Len(uses') = Len(uses)
      /\ \A v \in DOMAIN uses :
            /\ uses'[v].id = uses[v].id
            /\ uses'[v].method = uses[v].method
            /\ uses'[v].meta = uses[v].meta
            /\ uses'[v].legacy = uses[v].legacy
            /\ uses'[v].cancelled = uses[v].cancelled
            /\ uses'[v].stage = IF v = u THEN "returned" ELSE uses[v].stage
  BY AtType DEF MInv, Stages
<1>2. uses[u].stage = "delivered" /\ u \in DOMAIN uses
  BY UsesType DEF MInv
<1>3. session = "closed" => uses[u].id \notin DOMAIN requests
  BY <1>2 DEF MInv, ClosedInv
<1>4. TypeOK'
  BY <1>1, <1>2, <1>3, UsesType DEF MInv, TypeOK, Families
<1>5. OrderInv'
  BY <1>1, <1>2, <1>3, UsesType DEF MInv, OrderInv
<1>6. AwaitingInv'
  BY <1>1, <1>2, <1>3, UsesType DEF MInv, AwaitingInv
<1>7. CancelledInv'
  BY <1>1, <1>2, <1>3, UsesType DEF MInv, CancelledInv
<1>8. SlotInv'
  BY <1>1, <1>2, <1>3, UsesType DEF MInv, SlotInv, PhasesOf
<1>9. ClosedInv'
  BY <1>1, <1>2, <1>3, UsesType DEF MInv, ClosedInv
<1>10. NoSlotLeaked'
  BY <1>1, <1>2, <1>3, UsesType DEF MInv, NoSlotLeaked
<1>11. SeenInv'
  BY <1>1, <1>2, <1>3, UsesType DEF MInv, SeenInv
<1>12. LegacyIdsOnce'
  BY <1>1, <1>2, <1>3, UsesType DEF MInv, LegacyIdsOnce
<1>13. FamiliesDisjoint'
  BY <1>1, <1>2, <1>3, UsesType DEF MInv, FamiliesDisjoint, InFlight
<1> QED
  BY <1>4, <1>5, <1>6, <1>7, <1>8, <1>9, <1>10, <1>11, <1>12, <1>13 DEF MInv

(* handle_request on a delivered request that its family accepts; opens    *)
(* says that it opens the legacy session, ids what is then seen.           *)
Passed(u, opens, ids) ==
    /\ opens <=> OpeningLegacy(uses[u])
    /\ ids = IF opens THEN EnterLegacy ELSE seen
    /\ uses[u].stage = "delivered"
    /\ FamilyAccepts(uses[u])
    /\ family' = FamilyAfter(uses[u])
    /\ legacy' = (legacy \/ opens)
    /\ UNCHANGED <<session, awaiting, errors, faults>>

ClaimRefused(u, opens, ids) ==
    /\ Passed(u, opens, ids)
    /\ ~ClaimAccepts(uses[u].id, ids, legacy')
    /\ seen' = ids
    /\ At(u, "returned")
    /\ UNCHANGED requests

Claimed(u, opens, ids) ==
    /\ Passed(u, opens, ids)
    /\ Claim(uses[u].id)
    /\ seen' = IF legacy' THEN ids \cup {uses[u].id} ELSE ids
    /\ uses' = [v \in DOMAIN uses |->
                  [uses[v] EXCEPT !.stage = IF v = u THEN "claimed" ELSE @,
                                  !.legacy = @ \/ (opens /\ v \in Marked)]]

(* The family of the connection after the handler of u has passed it.      *)
LEMMA FamilyStep ==
    ASSUME MInv, NEW u \in 1 .. Len(uses), NEW opens \in BOOLEAN, NEW ids, Passed(u, opens, ids)
    PROVE  /\ u \in DOMAIN uses /\ uses[u] \in Use /\ family \in Families
           /\ opens => family = "unopened" /\ awaiting = 0
           /\ opens => family' = "legacy"
           /\ ~opens /\ family = "unopened" => family' = "modern"
           /\ ~opens /\ family # "unopened" => family' = family
           /\ uses[u].method # (IF family' = "legacy" THEN "discover" ELSE "ping")
           /\ uses[u].meta \in {"none", IF family' = "legacy" THEN "2025" ELSE "2026"}
           /\ \A v \in DOMAIN uses : v # u /\ InFlight(v) => family' = family
           /\ seen \subseteq ids /\ ids \subseteq Ids
           /\ opens => DOMAIN requests \subseteq ids
           /\ opens \/ ids = seen
           /\ session = "open" => uses[u].id \in DOMAIN requests
           /\ session = "closed" => uses[u].id \notin DOMAIN requests
           /\ \A v \in DOMAIN uses : uses[v].stage \in Occupying /\ uses[v].id = uses[u].id
                 => v = u
           /\ awaiting # 0 => uses[awaiting].id # uses[u].id
           /\ uses[u].cancelled = FALSE
<1>1. u \in DOMAIN uses /\ uses[u] \in Use /\ family \in Families
  BY UsesType DEF MInv, TypeOK
<1>2. uses[u].cancelled = FALSE
  BY <1>1 DEF MInv, CancelledInv, Use, Passed
<1>3. \A v \in DOMAIN uses : uses[v].stage \in Occupying /\ uses[v].id = uses[u].id => v = u
  BY <1>1, OneOccupant DEF MInv, Passed
<1>4. awaiting # 0 => uses[awaiting].id # uses[u].id
  BY <1>1, <1>2 DEF MInv, AwaitingInv, Passed
<1>5. /\ session = "open" => uses[u].id \in DOMAIN requests
      /\ session = "closed" => uses[u].id \notin DOMAIN requests
  BY <1>1 DEF MInv, SlotInv, ClosedInv, Passed
<1>6. /\ seen \subseteq ids /\ ids \subseteq Ids /\ (opens \/ ids = seen)
      /\ opens => DOMAIN requests \subseteq ids
  BY DEF MInv, TypeOK, EnterLegacy, Passed
<1>7. opens => family = "unopened"
  BY DEF FamilyAccepts, Passed
<1>8. opens => awaiting = 0
  BY <1>7 DEF MInv, AwaitingInv
<1>9. family' = IF opens THEN "legacy" ELSE IF family = "unopened" THEN "modern" ELSE family
  BY DEF FamilyAfter, Passed
<1>10. \A v \in DOMAIN uses : InFlight(v) => family # "unopened"
  BY DEF MInv, FamiliesDisjoint
<1>11. ExpectedVersion(uses[u]) = IF family' = "legacy" THEN "2025" ELSE "2026"
  BY <1>1, <1>7, <1>9 DEF ExpectedVersion, Families, Passed
<1>12. /\ uses[u].method # (IF family' = "legacy" THEN "discover" ELSE "ping")
       /\ uses[u].meta \in {"none", IF family' = "legacy" THEN "2025" ELSE "2026"}
  BY <1>11 DEF FamilyAccepts, Passed
<1> QED
  BY <1>1, <1>2, <1>3, <1>4, <1>5, <1>6, <1>7, <1>8, <1>9, <1>10, <1>12

(* The family accepts the request but its claim is refused: only once the  *)
(* session has ended.                                                      *)
LEMMA RefuseClaimMInv ==
    ASSUME MInv, NEW u \in 1 .. Len(uses), NEW opens \in BOOLEAN, NEW ids,
           ClaimRefused(u, opens, ids)
    PROVE  MInv'
<1>1. /\ u \in DOMAIN uses /\ uses[u] \in Use /\ family \in Families
      /\ opens => family = "unopened" /\ awaiting = 0
      /\ opens => family' = "legacy"
      /\ ~opens /\ family = "unopened" => family' = "modern"
      /\ ~opens /\ family # "unopened" => family' = family
      /\ uses[u].method # (IF family' = "legacy" THEN "discover" ELSE "ping")
      /\ uses[u].meta \in {"none", IF family' = "legacy" THEN "2025" ELSE "2026"}
      /\ \A v \in DOMAIN uses : v # u /\ InFlight(v) => family' = family
  <2>1. Passed(u, opens, ids)
    BY DEF ClaimRefused
  <2>2. u \in DOMAIN uses /\ uses[u] \in Use /\ family \in Families
    BY <2>1, FamilyStep
  <2>3. opens => family = "unopened" /\ awaiting = 0
    BY <2>1, FamilyStep
  <2>4. /\ opens => family' = "legacy"
        /\ ~opens /\ family = "unopened" => family' = "modern"
        /\ ~opens /\ family # "unopened" => family' = family
    BY <2>1 DEF Passed, FamilyAfter
  <2>5. uses[u].method # (IF family' = "legacy" THEN "discover" ELSE "ping")
    BY <2>1, FamilyStep
  <2>6. uses[u].meta \in {"none", IF family' = "legacy" THEN "2025" ELSE "2026"}
    BY <2>1, FamilyStep
  <2>7. \A v \in DOMAIN uses : v # u /\ InFlight(v) => family' = family
    BY <2>1, FamilyStep
  <2> QED
    BY <2>2, <2>3, <2>4, <2>5, <2>6, <2>7
<1>2. /\ seen \subseteq ids /\ ids \subseteq Ids
      /\ opens => DOMAIN requests \subseteq ids
      /\ opens \/ ids = seen
      /\ session = "open" => uses[u].id \in DOMAIN requests
      /\ session = "closed" => uses[u].id \notin DOMAIN requests
      /\ \A v \in DOMAIN uses : uses[v].stage \in Occupying /\ uses[v].id = uses[u].id
            => v = u
      /\ awaiting # 0 => uses[awaiting].id # uses[u].id
      /\ uses[u].cancelled = FALSE /\ uses[u].stage = "delivered"
      /\ legacy' = (legacy \/ opens)
      /\ UNCHANGED <<session, awaiting, pending, channel, writerUp, faults>>
  BY FamilyStep DEF ClaimRefused, Passed
<1>3. /\ DOMAIN uses' = DOMAIN uses /\ uses' \in Seq(Use) /\ Len(uses') = Len(uses)
      /\ \A v \in DOMAIN uses :
            /\ uses'[v].id = uses[v].id
            /\ uses'[v].method = uses[v].method
            /\ uses'[v].meta = uses[v].meta
            /\ uses'[v].legacy = uses[v].legacy
            /\ uses'[v].cancelled = uses[v].cancelled
            /\ uses'[v].stage = IF v = u THEN "returned" ELSE uses[v].stage
  BY AtType DEF MInv, Stages, ClaimRefused
<1>4. session = "closed"
  <2>1. CASE session = "open"
    <3>1. uses[u].id \in DOMAIN requests /\ requests[uses[u].id].phase = "reserved"
      BY <1>1, <1>2, <2>1 DEF MInv, SlotInv, PhasesOf
    <3> QED
      BY <3>1 DEF ClaimAccepts, ClaimRefused
  <2> QED
    BY <2>1 DEF MInv, TypeOK
<1>5. seen' = ids /\ requests' = requests
  BY DEF ClaimRefused
<1>6. legacy' \in BOOLEAN
  BY <1>2, Zenon DEF MInv, TypeOK
<1>7. TypeOK'
  BY <1>1, <1>2, <1>3, <1>4, <1>5, <1>6, UsesType DEF MInv, TypeOK, Families
<1>8. OrderInv'
  BY <1>1, <1>2, <1>3, <1>4, <1>5, <1>6, UsesType DEF MInv, OrderInv
<1>9. AwaitingInv'
  BY <1>1, <1>2, <1>3, <1>4, <1>5, <1>6, UsesType DEF MInv, AwaitingInv
<1>10. CancelledInv'
  BY <1>1, <1>2, <1>3, <1>4, <1>5, <1>6, UsesType DEF MInv, CancelledInv
<1>11. SlotInv'
  BY <1>1, <1>2, <1>3, <1>4, <1>5, <1>6, UsesType DEF MInv, SlotInv, PhasesOf
<1>12. ClosedInv'
  BY <1>1, <1>2, <1>3, <1>4, <1>5, <1>6, UsesType DEF MInv, ClosedInv
<1>13. NoSlotLeaked'
  BY <1>1, <1>2, <1>3, <1>4, <1>5, <1>6, UsesType DEF MInv, NoSlotLeaked
<1>14. SeenInv'
  BY <1>1, <1>2, <1>3, <1>4, <1>5, <1>6, UsesType DEF MInv, SeenInv
<1>15. LegacyIdsOnce'
  BY <1>1, <1>2, <1>3, <1>4, <1>5, <1>6, UsesType DEF MInv, LegacyIdsOnce
<1>16. FamiliesDisjoint'
  BY <1>1, <1>2, <1>3, <1>4, <1>5, <1>6, UsesType DEF MInv, FamiliesDisjoint,
     InFlight
<1> QED
  BY <1>7, <1>8, <1>9, <1>10, <1>11, <1>12, <1>13, <1>14, <1>15, <1>16 DEF MInv

(* The family accepts the request and its handler claims the slot of its   *)
(* id, or a slot of its own once the session has ended.                    *)
LEMMA AcceptRequestMInv ==
    ASSUME MInv, NEW u \in 1 .. Len(uses), NEW opens \in BOOLEAN, NEW ids,
           Claimed(u, opens, ids)
    PROVE  MInv'
<1>1. /\ u \in DOMAIN uses /\ uses[u] \in Use /\ family \in Families
      /\ opens => family = "unopened" /\ awaiting = 0
      /\ opens => family' = "legacy"
      /\ ~opens /\ family = "unopened" => family' = "modern"
      /\ ~opens /\ family # "unopened" => family' = family
      /\ uses[u].method # (IF family' = "legacy" THEN "discover" ELSE "ping")
      /\ uses[u].meta \in {"none", IF family' = "legacy" THEN "2025" ELSE "2026"}
      /\ \A v \in DOMAIN uses : v # u /\ InFlight(v) => family' = family
  <2>1. Passed(u, opens, ids)
    BY DEF Claimed
  <2>2. u \in DOMAIN uses /\ uses[u] \in Use /\ family \in Families
    BY <2>1, FamilyStep
  <2>3. opens => family = "unopened" /\ awaiting = 0
    BY <2>1, FamilyStep
  <2>4. /\ opens => family' = "legacy"
        /\ ~opens /\ family = "unopened" => family' = "modern"
        /\ ~opens /\ family # "unopened" => family' = family
    BY <2>1 DEF Passed, FamilyAfter
  <2>5. uses[u].method # (IF family' = "legacy" THEN "discover" ELSE "ping")
    BY <2>1, FamilyStep
  <2>6. uses[u].meta \in {"none", IF family' = "legacy" THEN "2025" ELSE "2026"}
    BY <2>1, FamilyStep
  <2>7. \A v \in DOMAIN uses : v # u /\ InFlight(v) => family' = family
    BY <2>1, FamilyStep
  <2> QED
    BY <2>2, <2>3, <2>4, <2>5, <2>6, <2>7
<1>2. /\ seen \subseteq ids /\ ids \subseteq Ids
      /\ opens => DOMAIN requests \subseteq ids
      /\ opens \/ ids = seen
      /\ session = "open" => uses[u].id \in DOMAIN requests
      /\ session = "closed" => uses[u].id \notin DOMAIN requests
      /\ \A v \in DOMAIN uses : uses[v].stage \in Occupying /\ uses[v].id = uses[u].id
            => v = u
      /\ awaiting # 0 => uses[awaiting].id # uses[u].id
      /\ uses[u].cancelled = FALSE /\ uses[u].stage = "delivered"
      /\ legacy' = (legacy \/ opens)
      /\ UNCHANGED <<session, awaiting, pending, channel, writerUp, faults>>
  BY FamilyStep DEF Claimed, Passed
<1>3. /\ DOMAIN uses' = DOMAIN uses /\ uses' \in Seq(Use) /\ Len(uses') = Len(uses)
      /\ \A v \in DOMAIN uses :
            /\ uses'[v].id = uses[v].id
            /\ uses'[v].method = uses[v].method
            /\ uses'[v].meta = uses[v].meta
            /\ uses'[v].legacy = (uses[v].legacy \/ (opens /\ v \in Marked))
            /\ uses'[v].cancelled = uses[v].cancelled
            /\ uses'[v].stage = IF v = u THEN "claimed" ELSE uses[v].stage
  <2>1. \A v \in DOMAIN uses :
           /\ uses'[v] = [uses[v] EXCEPT !.stage = IF v = u THEN "claimed" ELSE @,
                                         !.legacy = @ \/ (opens /\ v \in Marked)]
           /\ uses[v] \in Use
    BY UsesType DEF MInv, Claimed
  <2>2. \A v \in DOMAIN uses :
           /\ uses'[v] \in Use
           /\ uses'[v].id = uses[v].id
           /\ uses'[v].method = uses[v].method
           /\ uses'[v].meta = uses[v].meta
           /\ uses'[v].legacy = (uses[v].legacy \/ (opens /\ v \in Marked))
           /\ uses'[v].cancelled = uses[v].cancelled
           /\ uses'[v].stage = IF v = u THEN "claimed" ELSE uses[v].stage
    <3> SUFFICES ASSUME NEW v \in DOMAIN uses
                 PROVE  /\ uses'[v] \in Use
                        /\ uses'[v].id = uses[v].id
                        /\ uses'[v].method = uses[v].method
                        /\ uses'[v].meta = uses[v].meta
                        /\ uses'[v].legacy = (uses[v].legacy \/ (opens /\ v \in Marked))
                        /\ uses'[v].cancelled = uses[v].cancelled
                        /\ uses'[v].stage = IF v = u THEN "claimed" ELSE uses[v].stage
      OBVIOUS
    <3> DEFINE s == IF v = u THEN "claimed" ELSE uses[v].stage
               l == uses[v].legacy \/ (opens /\ v \in Marked)
    <3>1. s \in Stages /\ l \in BOOLEAN
      BY <2>1 DEF Use, Stages
    <3>2. uses'[v] = [uses[v] EXCEPT !.stage = s, !.legacy = l]
      BY <2>1
    <3> HIDE DEF s, l
    <3>3. /\ uses'[v] \in Use
          /\ uses'[v].id = uses[v].id
          /\ uses'[v].method = uses[v].method
          /\ uses'[v].meta = uses[v].meta
          /\ uses'[v].legacy = l
          /\ uses'[v].cancelled = uses[v].cancelled
          /\ uses'[v].stage = s
      BY <2>1, <3>1, <3>2 DEF Use
    <3> QED
      BY <3>3 DEF s, l
  <2>3. uses' \in [1 .. Len(uses) -> Use]
    <3>1. uses' = [v \in DOMAIN uses |-> uses'[v]]
      BY DEF Claimed
    <3> QED
      BY <2>2, <3>1, UsesType DEF MInv
  <2>4. uses' \in Seq(Use) /\ Len(uses') = Len(uses) /\ DOMAIN uses' = DOMAIN uses
    BY <2>3, UsesType, NewUses DEF MInv
  <2> QED
    BY <2>2, <2>4
<1>4. /\ DOMAIN requests' = DOMAIN requests \cup {uses[u].id}
      /\ DOMAIN requests' \subseteq Ids
      /\ \A j \in DOMAIN requests' : requests'[j] \in RequestState
      /\ \A j \in DOMAIN requests : j # uses[u].id => requests'[j] = requests[j]
      /\ requests'[uses[u].id].phase = "running"
      /\ requests'[uses[u].id].cancelled = FALSE
      /\ requests'[uses[u].id].transport_owned <=> session = "open"
  <2> DEFINE i == uses[u].id
             r == IF i \in DOMAIN requests
                  THEN [requests[i] EXCEPT !.phase = "running"]
                  ELSE [phase |-> "running", transport_owned |-> FALSE, cancelled |-> FALSE]
  <2>1. session \in {"open", "closed"} /\ i \in Ids
    BY <1>1 DEF MInv, TypeOK, Use
  <2>2. session = "open" => /\ i \in DOMAIN requests
                            /\ requests[i].transport_owned
                            /\ requests[i].cancelled = FALSE
    BY <1>1, <1>2 DEF MInv, SlotInv
  <2>3. i \in DOMAIN requests => requests[i] \in RequestState
    BY DEF MInv, TypeOK
  <2>4. /\ r \in RequestState
        /\ r.phase = "running" /\ r.cancelled = FALSE
        /\ r.transport_owned <=> session = "open"
    BY <1>2, <2>1, <2>2, <2>3 DEF RequestState, Phases
  <2>5. requests' = With(i, r)
    BY DEF Claim, Claimed
  <2> HIDE DEF r
  <2>6. /\ DOMAIN requests' = DOMAIN requests \cup {i}
        /\ requests'[i] = r
        /\ \A j \in DOMAIN requests : j # i => requests'[j] = requests[j]
        /\ DOMAIN requests' \subseteq Ids
        /\ \A j \in DOMAIN requests' : requests'[j] \in RequestState
    BY <2>1, <2>4, <2>5, WithFacts DEF MInv
  <2> QED
    BY <2>4, <2>6
<1>5. /\ ids \subseteq seen' /\ seen' \subseteq Ids
      /\ legacy' => uses[u].id \in seen'
      /\ seen' \subseteq ids \cup {uses[u].id}
  BY <1>1, <1>2 DEF Use, Claimed
<1>6. legacy' \in BOOLEAN
  BY <1>2, Zenon DEF MInv, TypeOK
<1>7. TypeOK'
  BY <1>1, <1>2, <1>3, <1>4, <1>5, <1>6, UsesType DEF MInv, TypeOK, Families
<1>8. OrderInv'
  BY <1>1, <1>2, <1>3, <1>4, <1>5, <1>6, UsesType DEF MInv, OrderInv
<1>9. AwaitingInv'
  BY <1>1, <1>2, <1>3, <1>4, <1>5, <1>6, UsesType DEF MInv, AwaitingInv
<1>10. CancelledInv'
  BY <1>1, <1>2, <1>3, <1>4, <1>5, <1>6, UsesType DEF MInv, CancelledInv
<1>11. SlotInv'
  <2> SUFFICES ASSUME session = "open", NEW v \in DOMAIN uses, uses'[v].stage \in Occupying
               PROVE  /\ uses'[v].id \in DOMAIN requests'
                      /\ requests'[uses'[v].id].transport_owned
                      /\ requests'[uses'[v].id].cancelled = uses'[v].cancelled
                      /\ requests'[uses'[v].id].phase \in PhasesOf(uses'[v].stage)
    BY <1>2, <1>3 DEF SlotInv
  <2>1. CASE v = u
    BY <1>1, <1>2, <1>3, <1>4, <2>1 DEF PhasesOf
  <2>2. CASE v # u
    BY <1>1, <1>2, <1>3, <1>4, <2>2 DEF MInv, SlotInv
  <2> QED
    BY <2>1, <2>2
<1>12. ClosedInv'
  BY <1>1, <1>2, <1>3, <1>4, <1>5, <1>6, UsesType DEF MInv, ClosedInv
<1>13. NoSlotLeaked'
  BY <1>1, <1>2, <1>3, <1>4, <1>5, <1>6, UsesType DEF MInv, NoSlotLeaked
<1>14. SeenInv'
  BY <1>1, <1>2, <1>3, <1>4, <1>5, <1>6, UsesType DEF MInv, SeenInv,
     AwaitingInv, SlotInv, Marked
<1>15. LegacyIdsOnce'
  <2> SUFFICES ASSUME NEW v \in DOMAIN uses, NEW w \in DOMAIN uses, v < w,
                      uses[v].id = uses[w].id, uses'[v].legacy,
                      uses'[v].stage \notin {"waiting", "refused"}
               PROVE  uses'[w].stage = "refused"
    BY <1>3 DEF LegacyIdsOnce
  <2>1. uses[v].stage \notin {"waiting", "refused"}
    BY <1>2, <1>3
  <2>2. uses[w].stage = "refused"
    <3>1. CASE uses[v].legacy
      BY <2>1, <3>1 DEF MInv, LegacyIdsOnce
    <3>2. CASE opens /\ v \in Marked
      BY <1>1, <3>2 DEF MInv, OrderInv, AwaitingInv, Marked
    <3> QED
      BY <1>3, <3>1, <3>2
  <2> QED
    BY <1>2, <1>3, <2>2
<1>16. FamiliesDisjoint'
  BY <1>1, <1>2, <1>3, <1>4, <1>5, <1>6, UsesType DEF MInv, FamiliesDisjoint,
     InFlight
<1> QED
  BY <1>7, <1>8, <1>9, <1>10, <1>11, <1>12, <1>13, <1>14, <1>15, <1>16 DEF MInv

LEMMA HandleRequestMInv ==
    ASSUME MInv, NEW u \in 1 .. Len(uses), HandleRequest(u)
    PROVE  MInv'
<1> DEFINE opens == OpeningLegacy(uses[u])
           ids == IF opens THEN EnterLegacy ELSE seen
<1>1. opens \in BOOLEAN
  BY DEF OpeningLegacy
<1>2. CASE ~FamilyAccepts(uses[u])
  BY <1>2, RefuseRequestMInv DEF HandleRequest
<1>3. CASE FamilyAccepts(uses[u])
  <2>1. Passed(u, opens, ids) /\ legacy' = (legacy \/ opens)
    BY <1>3 DEF HandleRequest, Passed
  <2>2. CASE ClaimAccepts(uses[u].id, ids, legacy')
    <3>1. Claimed(u, opens, ids)
      BY <1>3, <2>1, <2>2 DEF HandleRequest, Claimed
    <3> QED
      BY <1>1, <3>1, AcceptRequestMInv
  <2>3. CASE ~ClaimAccepts(uses[u].id, ids, legacy')
    <3>1. ClaimRefused(u, opens, ids)
      BY <1>3, <2>1, <2>3 DEF HandleRequest, ClaimRefused
    <3> QED
      BY <1>1, <3>1, RefuseClaimMInv
  <2> QED
    BY <2>2, <2>3
<1> QED
  BY <1>2, <1>3

(* What each outcome of reserve says of the table.                         *)
LEMMA Outcomes ==
    ASSUME NEW i
    PROVE  /\ ReserveOutcome(i) \in {"ok", "duplicate", "cancelled_in_flight",
                                     "capacity", "session_limit"}
           /\ ReserveOutcome(i) \notin {"ok", "cancelled_in_flight", "capacity",
                                        "session_limit"}
              \/ ~(legacy /\ i \in seen)
           /\ ReserveOutcome(i) = "ok" => i \notin DOMAIN requests
           /\ ReserveOutcome(i) = "cancelled_in_flight" =>
                 i \in DOMAIN requests /\ requests[i].cancelled
<1>1. CASE legacy /\ i \in seen
  BY <1>1 DEF ReserveOutcome
<1>2. CASE ~(legacy /\ i \in seen) /\ i \in DOMAIN requests
  <2>1. ReserveOutcome(i) = IF requests[i].cancelled THEN "cancelled_in_flight"
                            ELSE "duplicate"
    BY <1>2 DEF ReserveOutcome
  <2> QED
    BY <1>2, <2>1
<1>3. CASE ~(legacy /\ i \in seen) /\ i \notin DOMAIN requests
  <2>1. ReserveOutcome(i) \in {"ok", "capacity", "session_limit"}
    BY <1>3 DEF ReserveOutcome
  <2> QED
    BY <1>3, <2>1
<1> QED
  BY <1>1, <1>2, <1>3

(* The u-th request, read now or read last and waiting, is placed at a      *)
(* stage; no other request moves.                                          *)
Candidate(u, use) ==
    /\ session = "open"
    /\ use \in Use
    /\ ~use.cancelled
    /\ \/ u = Len(uses) + 1 /\ u <= MaxUses /\ awaiting = 0
       \/ u = Len(uses) /\ u # 0 /\ awaiting = u /\ uses[u].id = use.id

Placed(u, use, stage, lg) ==
    uses' = [v \in 1 .. u |->
               IF v = u THEN [use EXCEPT !.stage = stage, !.legacy = lg] ELSE uses[v]]

LEMMA PlacedType ==
    ASSUME MInv, NEW u, NEW use, NEW stage \in Stages, NEW lg \in BOOLEAN,
           Candidate(u, use), Placed(u, use, stage, lg)
    PROVE  /\ u \in Nat /\ u # 0 /\ u <= MaxUses
           /\ use.id \in Ids
           /\ uses' \in Seq(Use) /\ Len(uses') = u /\ DOMAIN uses' = 1 .. u
           /\ \A v \in 1 .. u : v # u => v \in DOMAIN uses /\ uses'[v] = uses[v]
           /\ \A v \in DOMAIN uses : v \in 1 .. u
           /\ \A v \in DOMAIN uses : v # u => v < u
           /\ uses'[u].id = use.id
           /\ uses'[u].method = use.method
           /\ uses'[u].meta = use.meta
           /\ uses'[u].stage = stage
           /\ uses'[u].legacy = lg
           /\ uses'[u].cancelled = FALSE
           /\ u \in DOMAIN uses => /\ uses[u].stage = "waiting" /\ uses[u].id = use.id
                                   /\ awaiting = u
           /\ u \notin DOMAIN uses => awaiting = 0
           /\ \A v \in DOMAIN uses : uses[v].stage = "waiting" => v = u
<1> DEFINE r == [use EXCEPT !.stage = stage, !.legacy = lg]
<1>1. /\ TypeOK /\ Len(uses) \in Nat /\ Len(uses) <= MaxUses
      /\ DOMAIN uses = 1 .. Len(uses) /\ \A v \in DOMAIN uses : uses[v] \in Use
  BY UsesType DEF MInv
<1>2. /\ u \in Nat /\ u # 0 /\ u <= MaxUses
      /\ \A v \in 1 .. u : v # u => v \in DOMAIN uses
      /\ \A v \in DOMAIN uses : v \in 1 .. u
      /\ \A v \in DOMAIN uses : v # u => v < u
  BY <1>1 DEF Candidate
<1>3. /\ r \in Use /\ r.id = use.id /\ r.method = use.method /\ r.meta = use.meta
      /\ r.stage = stage /\ r.legacy = lg /\ r.cancelled = FALSE
      /\ use.id \in Ids
  BY DEF Candidate, Use
<1>4. uses' = [v \in 1 .. u |-> IF v = u THEN r ELSE uses[v]]
  BY DEF Placed
<1> HIDE DEF r
<1>5. /\ uses' \in [1 .. u -> Use]
      /\ \A v \in 1 .. u : v # u => uses'[v] = uses[v]
      /\ uses'[u] = r
  BY <1>1, <1>2, <1>3, <1>4
<1>6. uses' \in Seq(Use) /\ Len(uses') = u /\ DOMAIN uses' = 1 .. u
  BY <1>2, <1>5, NewUses
<1>7. u \in DOMAIN uses => /\ uses[u].stage = "waiting" /\ uses[u].id = use.id
                           /\ awaiting = u
  BY <1>1 DEF Candidate, MInv, AwaitingInv
<1>8. u \notin DOMAIN uses => awaiting = 0
  <2>1. CASE u = Len(uses) + 1 /\ u <= MaxUses /\ awaiting = 0
    BY <2>1
  <2>2. CASE u = Len(uses) /\ u # 0 /\ awaiting = u
    BY <1>1, <2>2
  <2> QED
    BY <2>1, <2>2 DEF Candidate
<1>9. \A v \in DOMAIN uses : uses[v].stage = "waiting" => v = u
  BY <1>1, <1>7, <1>8 DEF MInv, AwaitingInv
<1> QED
  BY <1>2, <1>3, <1>5, <1>6, <1>7, <1>8, <1>9

(* The steps of try_admit, by the outcome of reserve.                      *)
Admitted(u, use) ==
    /\ Candidate(u, use)
    /\ ReserveOutcome(use.id) = "ok"
    /\ Reserve(use.id)
    /\ Placed(u, use, "delivered", legacy)
    /\ awaiting' = 0
    /\ UNCHANGED <<session, pending, family, channel, writerUp, faults>>

Held(u, use) ==
    /\ Candidate(u, use)
    /\ ReserveOutcome(use.id) = "cancelled_in_flight"
    /\ Placed(u, use, "waiting", legacy)
    /\ awaiting' = u
    /\ UNCHANGED <<session, pending, family, channel, writerUp, faults, requests, seen, legacy>>

(* A duplicate ends the session, a request over a limit or without its     *)
(* metadata is answered with an error; none of them gets a slot.           *)
RefusedAdmission(u, use, lg) ==
    /\ Candidate(u, use)
    /\ Placed(u, use, "refused", lg)
    /\ awaiting' = 0
    /\ \/ /\ session' = "closed"
          /\ CloseTable
          /\ UNCHANGED pending
       \/ /\ pending' \in {"error", "terminal"}
          /\ seen \subseteq seen' /\ seen' \subseteq seen \cup {use.id}
          /\ UNCHANGED <<session, requests, legacy>>
    /\ UNCHANGED <<family, channel, writerUp, faults>>

LEMMA AdmittedMInv ==
    ASSUME MInv, NEW u, NEW use, Admitted(u, use)
    PROVE  MInv'
<1>1. /\ u \in Nat /\ u # 0 /\ u <= MaxUses
      /\ use.id \in Ids
      /\ uses' \in Seq(Use) /\ Len(uses') = u /\ DOMAIN uses' = 1 .. u
      /\ \A v \in 1 .. u : v # u => v \in DOMAIN uses /\ uses'[v] = uses[v]
      /\ \A v \in DOMAIN uses : v \in 1 .. u
      /\ \A v \in DOMAIN uses : v # u => v < u
      /\ uses'[u].id = use.id
      /\ uses'[u].method = use.method
      /\ uses'[u].meta = use.meta
      /\ uses'[u].stage = "delivered"
      /\ uses'[u].legacy = legacy
      /\ uses'[u].cancelled = FALSE
      /\ u \in DOMAIN uses => /\ uses[u].stage = "waiting" /\ uses[u].id = use.id
                              /\ awaiting = u
      /\ u \notin DOMAIN uses => awaiting = 0
      /\ \A v \in DOMAIN uses : uses[v].stage = "waiting" => v = u
  <2>1. legacy \in BOOLEAN /\ "delivered" \in Stages
    BY DEF MInv, TypeOK, Stages
  <2> QED
    BY <2>1, PlacedType DEF Admitted
<1>2. /\ session = "open" /\ awaiting' = 0
      /\ UNCHANGED <<session, pending, family, channel, writerUp, faults, legacy>>
  BY DEF Admitted, Candidate, Reserve
<1>3. use.id \notin DOMAIN requests /\ ~(legacy /\ use.id \in seen)
  BY Outcomes DEF Admitted
<1>4. /\ DOMAIN requests' = DOMAIN requests \cup {use.id}
      /\ DOMAIN requests' \subseteq Ids
      /\ \A j \in DOMAIN requests' : requests'[j] \in RequestState
      /\ \A j \in DOMAIN requests : j # use.id => requests'[j] = requests[j]
      /\ requests'[use.id].phase = "reserved"
      /\ requests'[use.id].cancelled = FALSE
      /\ requests'[use.id].transport_owned = TRUE
  <2> DEFINE r == [phase |-> "reserved", transport_owned |-> TRUE, cancelled |-> FALSE]
  <2>1. r \in RequestState
    BY DEF RequestState, Phases
  <2>2. requests' = With(use.id, r)
    BY DEF Admitted, Reserve
  <2>3. /\ DOMAIN requests' = DOMAIN requests \cup {use.id}
        /\ requests'[use.id] = r
        /\ \A j \in DOMAIN requests : j # use.id => requests'[j] = requests[j]
        /\ DOMAIN requests' \subseteq Ids
        /\ \A j \in DOMAIN requests' : requests'[j] \in RequestState
    BY <1>1, <2>1, <2>2, WithFacts DEF MInv
  <2> QED
    BY <2>3
<1>5. /\ seen \subseteq seen' /\ seen' \subseteq Ids
      /\ legacy => use.id \in seen'
  BY <1>1 DEF Admitted, Reserve, MInv, TypeOK
<1>6. \A v \in DOMAIN uses : uses[v].id = use.id => uses[v].stage \notin Occupying
  BY <1>2, <1>3 DEF MInv, SlotInv
<1>7. TypeOK'
  BY <1>1, <1>2, <1>3, <1>4, <1>5, <1>6, UsesType DEF MInv, TypeOK, Families
<1>8. OrderInv'
  BY <1>1, <1>2, <1>3, <1>4, <1>5, <1>6, UsesType DEF MInv, OrderInv
<1>9. AwaitingInv'
  BY <1>1, <1>2, <1>3, <1>4, <1>5, <1>6, UsesType DEF MInv, AwaitingInv
<1>10. CancelledInv'
  BY <1>1, <1>2, <1>3, <1>4, <1>5, <1>6, UsesType DEF MInv, CancelledInv
<1>11. SlotInv'
  <2> SUFFICES ASSUME NEW v \in DOMAIN uses', uses'[v].stage \in Occupying
               PROVE  /\ uses'[v].id \in DOMAIN requests'
                      /\ requests'[uses'[v].id].transport_owned
                      /\ requests'[uses'[v].id].cancelled = uses'[v].cancelled
                      /\ requests'[uses'[v].id].phase \in PhasesOf(uses'[v].stage)
    BY <1>2 DEF SlotInv
  <2>1. CASE v = u
    BY <1>1, <1>4, <2>1 DEF PhasesOf
  <2>2. CASE v # u
    BY <1>1, <1>2, <1>4, <1>6, <2>2 DEF MInv, SlotInv
  <2> QED
    BY <2>1, <2>2
<1>12. ClosedInv'
  BY <1>1, <1>2, <1>3, <1>4, <1>5, <1>6, UsesType DEF MInv, ClosedInv
<1>13. NoSlotLeaked'
  BY <1>1, <1>2, <1>3, <1>4, <1>5, <1>6, UsesType DEF MInv, NoSlotLeaked
<1>14. SeenInv'
  BY <1>1, <1>2, <1>3, <1>4, <1>5, <1>6, UsesType DEF MInv, SeenInv
<1>15. LegacyIdsOnce'
  <2> SUFFICES ASSUME NEW v \in DOMAIN uses', NEW w \in DOMAIN uses', v < w,
                      uses'[v].id = uses'[w].id, uses'[v].legacy,
                      uses'[v].stage \notin {"waiting", "refused"}
               PROVE  uses'[w].stage = "refused"
    BY DEF LegacyIdsOnce
  <2>1. v \in DOMAIN uses /\ v # u /\ uses'[v] = uses[v]
    BY <1>1
  <2>2. CASE w = u
    <3>1. uses[v].id = use.id /\ uses[v].legacy
          /\ uses[v].stage \notin {"waiting", "refused"}
      BY <1>1, <2>1, <2>2
    <3>2. legacy /\ use.id \in seen
      BY <1>2, <2>1, <3>1 DEF MInv, SeenInv
    <3> QED
      BY <1>3, <3>2
  <2>3. CASE w # u
    BY <1>1, <2>1, <2>3 DEF MInv, LegacyIdsOnce
  <2> QED
    BY <2>2, <2>3
<1>16. FamiliesDisjoint'
  BY <1>1, <1>2, <1>3, <1>4, <1>5, <1>6, UsesType DEF MInv, FamiliesDisjoint,
     InFlight
<1> QED
  BY <1>7, <1>8, <1>9, <1>10, <1>11, <1>12, <1>13, <1>14, <1>15, <1>16 DEF MInv

LEMMA HeldMInv ==
    ASSUME MInv, NEW u, NEW use, Held(u, use)
    PROVE  MInv'
<1>1. /\ u \in Nat /\ u # 0 /\ u <= MaxUses
      /\ use.id \in Ids
      /\ uses' \in Seq(Use) /\ Len(uses') = u /\ DOMAIN uses' = 1 .. u
      /\ \A v \in 1 .. u : v # u => v \in DOMAIN uses /\ uses'[v] = uses[v]
      /\ \A v \in DOMAIN uses : v \in 1 .. u
      /\ \A v \in DOMAIN uses : v # u => v < u
      /\ uses'[u].id = use.id
      /\ uses'[u].method = use.method
      /\ uses'[u].meta = use.meta
      /\ uses'[u].stage = "waiting"
      /\ uses'[u].legacy = legacy
      /\ uses'[u].cancelled = FALSE
      /\ u \in DOMAIN uses => /\ uses[u].stage = "waiting" /\ uses[u].id = use.id
                              /\ awaiting = u
      /\ u \notin DOMAIN uses => awaiting = 0
      /\ \A v \in DOMAIN uses : uses[v].stage = "waiting" => v = u
  <2>1. legacy \in BOOLEAN /\ "waiting" \in Stages
    BY DEF MInv, TypeOK, Stages
  <2> QED
    BY <2>1, PlacedType DEF Held
<1>2. /\ session = "open" /\ awaiting' = u
      /\ UNCHANGED <<session, pending, family, channel, writerUp, faults, requests,
                     seen, legacy>>
  BY DEF Held, Candidate
<1>3. /\ use.id \in DOMAIN requests /\ ~(legacy /\ use.id \in seen)
      /\ requests[use.id].cancelled
  BY Outcomes DEF Held
<1>4. /\ \A v \in DOMAIN uses : uses[v].id = use.id /\ uses[v].stage \in Occupying
            => uses[v].cancelled
      /\ family # "unopened"
  <2>1. \A v \in DOMAIN uses : uses[v].id = use.id /\ uses[v].stage \in Occupying
             => uses[v].cancelled
    BY <1>2, <1>3 DEF MInv, SlotInv
  <2>2. PICK w \in DOMAIN uses : uses[w].id = use.id /\ uses[w].stage \in Occupying
    BY <1>3 DEF MInv, NoSlotLeaked
  <2>3. uses[w].stage \in {"claimed", "working"}
    BY <2>1, <2>2 DEF MInv, CancelledInv
  <2> QED
    BY <2>1, <2>2, <2>3 DEF MInv, FamiliesDisjoint, InFlight
<1>5. TypeOK'
  BY <1>1, <1>2, <1>3, <1>4, UsesType DEF MInv, TypeOK, Families
<1>6. OrderInv'
  BY <1>1, <1>2, <1>3, <1>4, UsesType DEF MInv, OrderInv
<1>7. AwaitingInv'
  BY <1>1, <1>2, <1>3, <1>4, UsesType DEF MInv, AwaitingInv
<1>8. CancelledInv'
  BY <1>1, <1>2, <1>3, <1>4, UsesType DEF MInv, CancelledInv
<1>9. SlotInv'
  BY <1>1, <1>2, <1>3, <1>4, UsesType DEF MInv, SlotInv, PhasesOf
<1>10. ClosedInv'
  BY <1>1, <1>2, <1>3, <1>4, UsesType DEF MInv, ClosedInv
<1>11. NoSlotLeaked'
  BY <1>1, <1>2, <1>3, <1>4, UsesType DEF MInv, NoSlotLeaked
<1>12. SeenInv'
  BY <1>1, <1>2, <1>3, <1>4, UsesType DEF MInv, SeenInv
<1>13. LegacyIdsOnce'
  <2> SUFFICES ASSUME NEW v \in DOMAIN uses', NEW w \in DOMAIN uses', v < w,
                      uses'[v].id = uses'[w].id, uses'[v].legacy,
                      uses'[v].stage \notin {"waiting", "refused"}
               PROVE  uses'[w].stage = "refused"
    BY DEF LegacyIdsOnce
  <2>1. v \in DOMAIN uses /\ v # u /\ uses'[v] = uses[v]
    BY <1>1
  <2>2. CASE w = u
    <3>1. uses[v].id = use.id /\ uses[v].legacy
          /\ uses[v].stage \notin {"waiting", "refused"}
      BY <1>1, <2>1, <2>2
    <3>2. legacy /\ use.id \in seen
      BY <1>2, <2>1, <3>1 DEF MInv, SeenInv
    <3> QED
      BY <1>3, <3>2
  <2>3. CASE w # u
    BY <1>1, <2>1, <2>3 DEF MInv, LegacyIdsOnce
  <2> QED
    BY <2>2, <2>3
<1>14. FamiliesDisjoint'
  BY <1>1, <1>2, <1>3, <1>4, UsesType DEF MInv, FamiliesDisjoint, InFlight
<1> QED
  BY <1>5, <1>6, <1>7, <1>8, <1>9, <1>10, <1>11, <1>12, <1>13, <1>14 DEF MInv

LEMMA RefusedAdmissionMInv ==
    ASSUME MInv, NEW u, NEW use, NEW lg \in BOOLEAN, RefusedAdmission(u, use,
           lg)
    PROVE  MInv'
<1>1. /\ u \in Nat /\ u # 0 /\ u <= MaxUses
      /\ use.id \in Ids
      /\ uses' \in Seq(Use) /\ Len(uses') = u /\ DOMAIN uses' = 1 .. u
      /\ \A v \in 1 .. u : v # u => v \in DOMAIN uses /\ uses'[v] = uses[v]
      /\ \A v \in DOMAIN uses : v \in 1 .. u
      /\ \A v \in DOMAIN uses : v # u => v < u
      /\ uses'[u].id = use.id
      /\ uses'[u].method = use.method
      /\ uses'[u].meta = use.meta
      /\ uses'[u].stage = "refused"
      /\ uses'[u].legacy = lg
      /\ uses'[u].cancelled = FALSE
      /\ u \in DOMAIN uses => /\ uses[u].stage = "waiting" /\ uses[u].id = use.id
                              /\ awaiting = u
      /\ u \notin DOMAIN uses => awaiting = 0
      /\ \A v \in DOMAIN uses : uses[v].stage = "waiting" => v = u
  <2>1. "refused" \in Stages
    BY DEF Stages
  <2> QED
    BY <2>1, PlacedType DEF RefusedAdmission
<1>2. /\ session = "open" /\ awaiting' = 0
      /\ UNCHANGED <<family, channel, writerUp, faults>>
      /\ pending' \in {"none", "error", "terminal"}
  BY DEF RefusedAdmission, Candidate, MInv, TypeOK
<1>3. \/ session' = "closed" /\ DOMAIN requests' = {} /\ seen' = {} /\ legacy' = FALSE
      \/ /\ seen \subseteq seen' /\ seen' \subseteq seen \cup {use.id}
         /\ UNCHANGED <<session, requests, legacy>>
  BY EmptyTable DEF RefusedAdmission
<1>4. TypeOK'
  <2>1. /\ DOMAIN requests' \subseteq Ids
        /\ \A j \in DOMAIN requests' : requests'[j] \in RequestState
        /\ seen' \subseteq Ids
    BY <1>1, <1>3 DEF MInv, TypeOK
  <2>2. session' \in {"open", "closed"} /\ awaiting' \in 0 .. MaxUses
    BY <1>2, <1>3 DEF MInv, TypeOK
  <2>3. legacy' = FALSE \/ legacy' = legacy
    BY <1>3
  <2>4. legacy' \in BOOLEAN
    BY <2>3, Zenon DEF MInv, TypeOK
  <2> QED
    BY <1>1, <1>2, <2>1, <2>2, <2>4 DEF MInv, TypeOK, Families
<1>5. OrderInv'
  BY <1>1, <1>2, <1>3, UsesType DEF MInv, OrderInv
<1>6. AwaitingInv'
  BY <1>1, <1>2, <1>3, UsesType DEF MInv, AwaitingInv
<1>7. CancelledInv'
  BY <1>1, <1>2, <1>3, UsesType DEF MInv, CancelledInv
<1>8. SlotInv'
  BY <1>1, <1>2, <1>3, UsesType DEF MInv, SlotInv, PhasesOf
<1>9. ClosedInv'
  BY <1>1, <1>2, <1>3, UsesType DEF MInv, ClosedInv
<1>10. NoSlotLeaked'
  BY <1>1, <1>2, <1>3, UsesType DEF MInv, NoSlotLeaked
<1>11. SeenInv'
  BY <1>1, <1>2, <1>3, UsesType DEF MInv, SeenInv
<1>12. LegacyIdsOnce'
  BY <1>1, <1>2, <1>3, UsesType DEF MInv, LegacyIdsOnce
<1>13. FamiliesDisjoint'
  BY <1>1, <1>2, <1>3, UsesType DEF MInv, FamiliesDisjoint, InFlight
<1> QED
  BY <1>4, <1>5, <1>6, <1>7, <1>8, <1>9, <1>10, <1>11, <1>12, <1>13 DEF MInv

-----------------------------------------------------------------------------
(* try_admit on a request that is a candidate takes one of these steps.    *)
LEMMA AdmitMInv ==
    ASSUME MInv, NEW u, NEW use, Candidate(u, use), Admit(u, use),
           UNCHANGED <<family, channel, writerUp, faults>>
    PROVE  MInv'
<1> DEFINE outcome == ReserveOutcome(use.id)
           Place(stage) == Placed(u, use, stage, legacy)
<1>1. (IF u > Len(uses) THEN u ELSE Len(uses)) = u
  BY UsesType DEF MInv, Candidate
<1>2. legacy \in BOOLEAN
  BY DEF MInv, TypeOK
<1>3. CASE outcome = "ok" /\ Reserve(use.id) /\ Place("delivered")
           /\ awaiting' = 0 /\ UNCHANGED <<session, pending>>
  <2>1. Admitted(u, use)
    BY <1>3 DEF Admitted
  <2> QED
    BY <2>1, AdmittedMInv
<1>4. CASE outcome = "cancelled_in_flight" /\ Place("waiting")
           /\ awaiting' = u /\ UNCHANGED <<session, pending, admission>>
  <2>1. Held(u, use)
    BY <1>4 DEF Held
  <2> QED
    BY <2>1, HeldMInv
<1>5. CASE outcome = "duplicate" /\ Stop /\ CloseTable /\ Place("refused")
           /\ awaiting' = 0 /\ UNCHANGED pending
  <2>1. RefusedAdmission(u, use, legacy)
    BY <1>5 DEF RefusedAdmission, Stop
  <2> QED
    BY <1>2, <2>1, RefusedAdmissionMInv
<1>6. CASE outcome \in {"capacity", "session_limit"} /\ Reserve(use.id) /\ Place("refused")
           /\ awaiting' = 0
           /\ pending' = (IF outcome = "capacity" THEN "error" ELSE "terminal")
           /\ UNCHANGED session
  <2>1. /\ requests' = requests /\ legacy' = legacy
        /\ seen \subseteq seen' /\ seen' \subseteq seen \cup {use.id}
    BY <1>6 DEF Reserve
  <2>2. RefusedAdmission(u, use, legacy)
    BY <1>6, <2>1 DEF RefusedAdmission
  <2> QED
    BY <1>2, <2>2, RefusedAdmissionMInv
<1> QED
  BY <1>1, <1>3, <1>4, <1>5, <1>6 DEF Admit, Placed

LEMMA ReadRequestMInv ==
    ASSUME MInv, ReadRequest
    PROVE  MInv'
<1> DEFINE Use0(i, in) == [id |-> i, method |-> in.method, meta |-> in.meta,
                           stage |-> "refused", legacy |-> FALSE, cancelled |-> FALSE]
<1>1. PICK i \in Ids, in \in Inputs :
         IF MetadataError(Use0(i, in))
         THEN /\ uses' = Append(uses, Use0(i, in))
              /\ pending' = "error"
              /\ UNCHANGED <<session, awaiting, admission>>
         ELSE Admit(Len(uses) + 1, Use0(i, in))
  BY DEF ReadRequest
<1>2. UNCHANGED <<family, channel, writerUp, faults>>
  BY DEF ReadRequest
<1> DEFINE use == Use0(i, in)
           u == Len(uses) + 1
<1>3. in.method \in Methods /\ in.meta \in Metas
  BY DEF Methods, Metas
<1>4. use \in Use /\ use.cancelled = FALSE
  BY <1>3 DEF Use, Stages
<1>5. session = "open" /\ awaiting = 0 /\ Len(uses) < MaxUses
  BY DEF ReadRequest, Reading, Receiving
<1>6. Candidate(u, use)
  <2>1. u <= MaxUses
    BY <1>5, UsesType DEF MInv
  <2> HIDE DEF use
  <2> QED
    BY <1>4, <1>5, <2>1 DEF Candidate
<1>7. CASE MetadataError(use)
  <2>1. uses' = Append(uses, use) /\ pending' = "error"
        /\ UNCHANGED <<session, awaiting, requests, seen, legacy>>
    BY <1>1, <1>7
  <2>2. use = [use EXCEPT !.stage = "refused", !.legacy = FALSE]
    <3>1. use.stage = "refused" /\ use.legacy = FALSE
      OBVIOUS
    <3> HIDE DEF use
    <3> QED
      BY <1>4, <3>1 DEF Use
  <2>3. uses \in Seq(Use) /\ Len(uses) \in Nat
    BY UsesType DEF MInv, TypeOK
  <2> HIDE DEF use
  <2>4. uses' = [v \in 1 .. u |-> IF v = u THEN use ELSE uses[v]]
    <3>1. /\ Append(uses, use) \in Seq(Use)
          /\ Len(Append(uses, use)) = u
          /\ \A v \in 1 .. Len(uses) : Append(uses, use)[v] = uses[v]
          /\ Append(uses, use)[u] = use
      BY <1>4, <2>3, AppendProperties
    <3>2. Append(uses, use) = [v \in 1 .. u |-> Append(uses, use)[v]]
      BY <3>1, LenProperties
    <3>3. \A v \in 1 .. u : Append(uses, use)[v] = IF v = u THEN use ELSE uses[v]
      BY <2>3, <3>1
    <3> QED
      BY <2>1, <3>2, <3>3
  <2>5. Placed(u, use, "refused", FALSE)
    BY <2>2, <2>4 DEF Placed
  <2>6. RefusedAdmission(u, use, FALSE)
    BY <1>2, <1>5, <1>6, <2>1, <2>5 DEF RefusedAdmission
  <2> QED
    BY <2>6, RefusedAdmissionMInv
<1>8. CASE ~MetadataError(use)
  <2>1. Admit(u, use)
    BY <1>1, <1>8
  <2> QED
    BY <1>2, <1>6, <2>1, AdmitMInv
<1> QED
  BY <1>7, <1>8

LEMMA RetryAwaitingMInv ==
    ASSUME MInv, RetryAwaiting
    PROVE  MInv'
<1> DEFINE u == awaiting
           use == uses[awaiting]
<1>1. /\ session = "open" /\ u # 0 /\ Admit(u, use)
      /\ UNCHANGED <<family, channel, writerUp, faults>>
  BY DEF RetryAwaiting, Receiving
<1>2. u = Len(uses) /\ u \in DOMAIN uses /\ use.stage = "waiting"
  BY <1>1, UsesType DEF MInv, AwaitingInv
<1>3. use \in Use
  BY <1>2, UsesType DEF MInv
<1>4. ~use.cancelled
  BY <1>2 DEF MInv, CancelledInv
<1>5. Candidate(u, use)
  BY <1>1, <1>2, <1>3, <1>4 DEF Candidate
<1> QED
  BY <1>1, <1>5, AdmitMInv

LEMMA ReadCancellationStep ==
    ASSUME MInv, ReadCancellation
    PROVE  MInv'
<1>1. session = "open" /\ awaiting = 0
      /\ UNCHANGED <<session, family, awaiting, errors, faults>>
  BY DEF ReadCancellation, Reading, Receiving
<1>2. PICK i \in Ids :
         /\ Tasks(i) # {}
         /\ Cancel(i)
         /\ uses' = [u \in DOMAIN uses |->
                       IF u \notin Tasks(i) THEN uses[u]
                       ELSE IF uses[u].stage \in {"delivered", "returned"}
                       THEN [uses[u] EXCEPT !.stage = "suppressed"]
                       ELSE [uses[u] EXCEPT !.cancelled = TRUE]]
  BY DEF ReadCancellation
<1>3. PICK t : t \in Tasks(i)
  BY <1>2
<1> QED
  BY <1>1, <1>2, <1>3, ReadCancellationMInv

LEMMA UnchangedMInv ==
    ASSUME MInv, UNCHANGED vars
    PROVE  MInv'
BY DEF MInv, vars, TypeOK, OrderInv, AwaitingInv, CancelledInv, SlotInv, ClosedInv,
   NoSlotLeaked, SeenInv, LegacyIdsOnce, FamiliesDisjoint, InFlight

LEMMA NextMInv == MInv /\ [Next]_vars => MInv'
<1> SUFFICES ASSUME MInv, [Next]_vars PROVE MInv'
  OBVIOUS
<1>1. CASE ReadRequest
  BY <1>1, ReadRequestMInv
<1>2. CASE ReadCancellation
  BY <1>2, ReadCancellationStep
<1>3. CASE ReadMalformed
  BY <1>3, ReadMalformedMInv
<1>4. CASE ReadEnd
  BY <1>4, ReadEndMInv
<1>5. CASE ReceiveLoop
  BY <1>5, RetryAwaitingMInv, AwaitingExpiresMInv, QueueErrorMInv,
     NoticeWriterFailureMInv DEF ReceiveLoop
<1>6. CASE WriteError
  BY <1>6, WriteErrorMInv
<1>7. CASE \E u \in 1 .. Len(uses) : Handler(u)
  BY <1>7, HandleRequestMInv, StartWorkMInv, HandlerReturnsMInv, StartResponseMInv,
     FinishResponseMInv DEF Handler
<1>8. CASE UNCHANGED vars
  BY <1>8, UnchangedMInv
<1> QED
  BY <1>1, <1>2, <1>3, <1>4, <1>5, <1>6, <1>7, <1>8 DEF Next, Ended

-----------------------------------------------------------------------------
(* The admission table and the requests keep in step: requests are         *)
(* admitted in order, a slot's phase is that of the one request that       *)
(* occupies it, and the legacy session remembers what it admitted          *)
(* (lifecycle.rs:82-300, transport.rs:180-330).                            *)
THEOREM McpSafety == Spec => []MInv
<1>1. Init => MInv
  BY InitMInv
<1>2. MInv /\ [Next]_vars => MInv'
  BY NextMInv
<1> QED
  BY <1>1, <1>2, PTL DEF Spec

(* No slot is leaked, none is given up under live work, and no answer is   *)
(* taken for that of a later request with the same id, for every number    *)
(* of ids and every limit ("capacity still bounds live work",              *)
(* lifecycle.rs:244).                                                      *)
THEOREM SlotsAreSound == Spec => []SlotsSound
<1>1. MInv => SlotsSound
  <2> SUFFICES ASSUME MInv PROVE SlotsSound
    OBVIOUS
  <2>1. LiveWorkHasSlot
    <3> SUFFICES ASSUME session = "open", NEW u \in DOMAIN uses, InFlight(u)
                 PROVE  /\ uses[u].id \in DOMAIN requests
                        /\ requests[uses[u].id].phase = "running"
                        /\ \A v \in DOMAIN uses :
                              InFlight(v) /\ uses[v].id = uses[u].id => v = u
      BY DEF LiveWorkHasSlot
    <3>1. uses[u].id \in DOMAIN requests /\ requests[uses[u].id].phase = "running"
      BY DEF MInv, SlotInv, PhasesOf, InFlight
    <3>2. \A v \in DOMAIN uses : InFlight(v) /\ uses[v].id = uses[u].id => v = u
      BY OneOccupant DEF MInv, InFlight
    <3> QED
      BY <3>1, <3>2
  <2>2. AnswersTheRightUse
    BY DEF MInv, OrderInv, AnswersTheRightUse
  <2> QED
    BY <2>1, <2>2 DEF SlotsSound, MInv
<1> QED
  BY <1>1, McpSafety, PTL

(* One connection is of one protocol family, and a legacy session never    *)
(* admits an id twice (lifecycle.rs:22, "id was already used in this       *)
(* session").                                                              *)
THEOREM FamiliesAreSound == Spec => []FamiliesSound
<1>1. MInv => FamiliesSound
  BY DEF MInv, FamiliesSound
<1> QED
  BY <1>1, McpSafety, PTL
=============================================================================
