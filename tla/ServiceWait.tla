----------------------------- MODULE ServiceWait -----------------------------
(***************************************************************************)
(* RemoteServiceInstance (remote_service_instance_async.py): a scenario    *)
(* creates, updates, deletes or moves a service of a real orchestrator,    *)
(* then polls its log until a state is reached.  The orchestrator gives    *)
(* the service new versions at any time, between any two requests.         *)
(***************************************************************************)
EXTENDS Naturals, Sequences, FiniteSets

CONSTANTS
    States,
    Bad,        \* bad_states
    Targets,    \* the states a scenario waits for
    Nothing,    \* Python's None
    MaxVersion  \* bound on the versions of the service

ASSUME BadAssumption == Bad \subseteq States /\ Targets \subseteq States
ASSUME NothingAssumption ==
    /\ Nothing \notin Nat /\ Nothing \notin States
    /\ Nothing \notin [target : States, version : Nat \cup {Nothing}, start : Nat]
ASSUME BoundAssumption == MaxVersion \in Nat \ {0}

VARIABLES
    log,         \* on the orchestrator: the state of the service, by version
    pc,          \* the next request of the client, "idle" between operations
    operation,   \* the operation in progress, with its parameters
    start,       \* start_version, 0 before the wait
    lastVersion, \* last_version
    seen,        \* the last version in the reply of the last poll
    expired,     \* the timeout has elapsed
    outcome      \* the verdict of the operation, final once it is idle

vars == <<log, pc, operation, start, lastVersion, seen, expired, outcome>>

Versions == 1 .. MaxVersion
\* update and delete only differ by their request, whose effect is the server's.
Operations == [kind : {"create", "update", "set_state"}, state : States \cup {Nothing},
               target : States \cup {Nothing}, version : Versions \cup {Nothing},
               current : Versions \cup {Nothing}]
Outcomes == [kind : {"none", "returned", "BadState", "VersionExceeded",
                     "Timeout", "RequestError"}, version : 0 .. MaxVersion]

None == [kind |-> "none", version |-> 0]

Init ==
    /\ log = <<>>
    /\ pc = "idle"
    /\ operation = Nothing
    /\ start = 0
    /\ lastVersion = 0
    /\ seen = 0
    /\ expired = FALSE
    /\ outcome = None

-----------------------------------------------------------------------------
\* The orchestrator: any transfer of the lifecycle, made on its own or by others.
ServerMoves ==
    /\ log # <<>>
    /\ Len(log) < MaxVersion
    /\ \E state \in States : log' = Append(log, state)
    /\ UNCHANGED <<pc, operation, start, lastVersion, seen, expired, outcome>>

TimeElapses ==
    /\ pc \in {"poll", "handle"}
    /\ ~expired
    /\ expired' = TRUE
    /\ UNCHANGED <<log, pc, operation, start, lastVersion, seen, outcome>>

\* A scenario starts an operation.  It may give the current version it knows of,
\* which can be outdated by the time of the request.
\* set_state waits for the state it sets when no other is given.
Begin(kind, state, target, version, current) ==
    /\ pc = "idle"
    /\ (kind = "create") <=> (log = <<>>)
    /\ operation' = [kind |-> kind, state |-> state, version |-> version,
                     target |-> IF kind = "set_state" /\ target = Nothing THEN state ELSE target,
                     current |-> current]
    /\ pc' = IF kind # "create" /\ current = Nothing THEN "get" ELSE "request"
    /\ start' = 0 /\ lastVersion' = 0 /\ seen' = 0
    /\ outcome' = None
    /\ UNCHANGED <<log, expired>>

GetCurrentVersion ==
    /\ pc = "get"
    /\ operation' = [operation EXCEPT !.current = Len(log)]
    /\ pc' = "request"
    /\ UNCHANGED <<log, start, lastVersion, seen, expired, outcome>>

\* Mutant: the wait starts from the version there is after the request.
StartWaitLate(version) ==
    /\ start' = IF operation.target = Nothing THEN 0 ELSE Len(log')
    /\ lastVersion' = start'
    /\ expired' = FALSE
    /\ pc' = IF operation.target = Nothing THEN "return" ELSE "poll"

\* The wait starts from the version the request was made for.
StartWait(version) ==
    /\ start' = IF operation.target = Nothing THEN 0 ELSE version
    /\ lastVersion' = start'
    /\ expired' = FALSE
    /\ pc' = IF operation.target = Nothing THEN "return" ELSE "poll"

RequestCreate ==
    /\ pc = "request" /\ operation.kind = "create"
    /\ log = <<>>
    /\ \E state \in States : log' = <<state>>
    /\ StartWait(1)
    /\ UNCHANGED <<operation, seen, outcome>>

\* The orchestrator takes a request for the current version only.
RequestChange ==
    /\ pc = "request" /\ operation.kind # "create"
    /\ operation.current = Len(log)
    /\ Len(log) < MaxVersion
    /\ \E state \in States :
         /\ operation.kind = "set_state" => state = operation.state
         /\ log' = Append(log, state)
    /\ StartWait(operation.current)
    /\ UNCHANGED <<operation, seen, outcome>>

\* Any request may be refused or fail, those of the failure report included.
RequestFails ==
    /\ pc \in {"get", "request", "poll", "diagnose", "return"}
    /\ pc' = "idle"
    /\ outcome' = [kind |-> "RequestError", version |-> 0]
    /\ UNCHANGED <<log, operation, start, lastVersion, seen, expired>>

\* Nothing to wait for: create returns what its request returned, the other
\* operations the service as it now is.
ReturnService ==
    /\ pc = "return"
    /\ pc' = "idle"
    /\ outcome' = [kind |-> "returned",
                   version |-> IF operation.kind = "create" THEN 1 ELSE Len(log)]
    /\ UNCHANGED <<log, operation, start, lastVersion, seen, expired>>

-----------------------------------------------------------------------------
\* history(since_version=last_version), as the orchestrator answers it.
Poll ==
    /\ pc = "poll"
    /\ seen' = Len(log)
    /\ pc' = "handle"
    /\ UNCHANGED <<log, operation, start, lastVersion, expired, outcome>>

\* Mutant: the target version is looked at before the bad states.
IsDoneVersionFirst(version) ==
    LET state == log[version]
    IN  IF operation.version = Nothing
        THEN IF state \in Bad THEN "BadState"
             ELSE IF state = operation.target THEN "returned" ELSE "none"
        ELSE IF version > operation.version THEN "VersionExceeded"
        ELSE IF version = operation.version /\ state # operation.target THEN "VersionExceeded"
        ELSE IF state \in Bad THEN "BadState"
        ELSE IF version = operation.version /\ state = operation.target THEN "returned"
        ELSE "none"

\* is_done
IsDone(version) ==
    LET state == log[version]
    IN  IF state \in Bad THEN "BadState"
        ELSE IF operation.version = Nothing
        THEN IF state = operation.target THEN "returned" ELSE "none"
        ELSE IF version > operation.version THEN "VersionExceeded"
        ELSE IF version = operation.version /\ state # operation.target THEN "VersionExceeded"
        ELSE IF version = operation.version /\ state = operation.target THEN "returned"
        ELSE "none"

\* The versions of the reply, and the first of them that ends the wait: the last
\* version of the previous poll is always there, and always skipped.
NewVersions == lastVersion + 1 .. seen
\* Mutant: the newest log of the reply is looked at first.
EndsNewest(version) ==
    /\ IsDone(version) # "none"
    /\ \A later \in version + 1 .. seen : IsDone(later) = "none"

Ends(version) ==
    /\ IsDone(version) # "none"
    /\ \A earlier \in lastVersion + 1 .. version - 1 : IsDone(earlier) = "none"

Decide ==
    /\ pc = "handle"
    /\ \E version \in NewVersions :
         /\ Ends(version)
         /\ lastVersion' = version - 1
         /\ outcome' = [kind |-> IsDone(version), version |-> version]
         /\ pc' = IF IsDone(version) = "BadState" THEN "diagnose" ELSE "idle"
    /\ UNCHANGED <<log, operation, start, seen, expired>>

\* Mutant: the timeout is never checked.
GiveUpNever == FALSE /\ UNCHANGED vars

GiveUp ==
    /\ pc = "handle"
    /\ \A version \in NewVersions : IsDone(version) = "none"
    /\ expired
    /\ lastVersion' = seen
    /\ outcome' = [kind |-> "Timeout", version |-> seen]
    /\ pc' = "diagnose"
    /\ UNCHANGED <<log, operation, start, seen, expired>>

PollAgain ==
    /\ pc = "handle"
    /\ \A version \in NewVersions : IsDone(version) = "none"
    /\ ~expired
    /\ lastVersion' = seen
    /\ pc' = "poll"
    /\ UNCHANGED <<log, operation, start, seen, expired, outcome>>

\* format_failure is done, the exception is raised.
ReportFailure ==
    /\ pc = "diagnose"
    /\ pc' = "idle"
    /\ UNCHANGED <<log, operation, start, lastVersion, seen, expired, outcome>>

ClientStep ==
    \/ GetCurrentVersion \/ RequestCreate \/ RequestChange \/ RequestFails
    \/ ReturnService \/ Poll \/ Decide \/ GiveUp \/ PollAgain \/ ReportFailure

BeginAny ==
    \E target \in Targets \cup {Nothing}, version \in Versions \cup {Nothing} :
         \/ Begin("create", Nothing, target, version, Nothing)
         \/ \E current \in {Len(log), Nothing} :
              \/ Begin("update", Nothing, target, version, current)
              \/ \E state \in States : Begin("set_state", state, target, version, current)

Next == ServerMoves \/ TimeElapses \/ ClientStep \/ BeginAny

\* The coroutine is scheduled, requests are answered and time goes by; neither
\* the orchestrator nor the scenario has to do anything.
Spec == Init /\ [][Next]_vars /\ WF_vars(ClientStep) /\ WF_vars(TimeElapses)

-----------------------------------------------------------------------------
\* The types of the variables.
TypeOK ==
    /\ log \in Seq(States) /\ Len(log) <= MaxVersion
    /\ pc \in {"idle", "get", "request", "poll", "handle", "diagnose", "return"}
    /\ operation \in Operations \cup {Nothing}
    /\ pc # "idle" => operation \in Operations
    /\ start \in 0 .. MaxVersion
    /\ lastVersion \in 0 .. MaxVersion
    /\ seen \in 0 .. MaxVersion
    /\ expired \in BOOLEAN
    /\ outcome \in Outcomes

Waited == pc = "idle" /\ start # 0

\* A bad state that the wait went through, even for the time of one request, is
\* reported: no other verdict comes after it.
BadStateNeverHidden ==
    Waited /\ outcome.kind \in {"returned", "VersionExceeded", "Timeout"} =>
        \A version \in start + 1 .. outcome.version : log[version] \notin Bad

\* set_state that waits for the state it sets always finds its own transition,
\* however fast the service moves on: it neither misses it nor times out.
OwnTransitionSeen ==
    /\ Waited /\ operation.kind = "set_state"
    /\ operation.target = operation.state /\ operation.target \notin Bad
    /\ operation.version = Nothing
    => outcome.kind = "RequestError" \/ outcome = [kind |-> "returned", version |-> start + 1]

\* An operation always ends, at the latest when its timeout has elapsed.
OperationEnds == pc # "idle" ~> pc = "idle"

\* The waiting is an implementation of WaitVerdict: what the client has learned
\* is the last reply it has, the wait lasts from its request to its verdict.
Waiting == pc \in {"poll", "handle", "diagnose"}
Verdict == INSTANCE WaitVerdict WITH
    wait    <- IF Waiting
               THEN [target |-> operation.target, version |-> operation.version, start |-> start]
               ELSE Nothing,
    known   <- IF start = 0 THEN 0 ELSE IF lastVersion >= seen THEN lastVersion ELSE seen,
    outcome <- IF Waited THEN outcome ELSE None

\* The wait reports the first version that decides, and skips none.
ImplementsVerdict == Verdict!Spec
=============================================================================
