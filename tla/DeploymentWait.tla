---------------------------- MODULE DeploymentWait ----------------------------
(***************************************************************************)
(* RemoteOrchestrator's waits for a version (remote_orchestrator.py:       *)
(* 962-1128) with retry_limited: for its release, its scheduling and its   *)
(* deployment, one after the other.  Each poll is a request, and the       *)
(* orchestrator moves on between any two: it gets new versions, releases   *)
(* them, takes the newest as the active one, deploys its resources.        *)
(***************************************************************************)
EXTENDS Naturals

CONSTANTS
    Resources,
    Nothing,     \* Python's None
    MaxVersions  \* bound on the versions that get exported

Versions == 1 .. MaxVersions
\* DONE_STATES without dry: what a deployment can end with.
DoneStates == {"deployed", "failed"}
Statuses == DoneStates \cup {"todo"}

VARIABLES
    newApi,   \* the orchestrator has the resource scheduler
    exported, \* the newest version there is, 0 if there is none
    released, \* the versions that were released
    active,   \* the version that is being deployed, 0 if there is none
    status,   \* of each resource, by version
    pc,       \* what the client polls for, "idle" between two waits
    wait,     \* the parameters of the wait
    expired,  \* the timeout of the present retry_limited has elapsed
    outcome,  \* how the last wait ended
    \* The rest is history:
    scheduled \* the versions that have been active

orchestrator == <<newApi, exported, released, active, status, scheduled>>
vars == <<orchestrator, pc, wait, expired, outcome>>

Phases == {"version", "released", "scheduled", "deployed", "mismatch", "done", "states"}
Waits == [kind : {"all", "released", "scheduled", "deployed"},
          version : Versions \cup {Nothing}, state : DoneStates \cup {Nothing}]
Outcomes == {"none", "returned", "AssertionError", "Superseded", "LookupError", "RequestError"}

Init ==
    /\ newApi \in BOOLEAN
    /\ exported = 0 /\ released = {} /\ active = 0 /\ scheduled = {}
    /\ status = [version \in Versions |-> [r \in Resources |-> "todo"]]
    /\ pc = "idle"
    /\ wait = Nothing
    /\ expired = FALSE
    /\ outcome = "none"

-----------------------------------------------------------------------------
\* The orchestrator: versions are exported in order, and released or never.
Export ==
    /\ exported < MaxVersions
    /\ exported' = exported + 1
    /\ UNCHANGED <<newApi, released, active, status, scheduled>>

Release ==
    \E version \in 1 .. exported :
        /\ \A other \in released : other < version
        /\ released' = released \cup {version}
        /\ UNCHANGED <<newApi, exported, active, status, scheduled>>

\* The newest released version gets active.  Resources it does not change keep
\* their status.
Schedule ==
    \E version \in released, changed \in SUBSET Resources :
        /\ \A other \in released : other <= version
        /\ active < version
        /\ active' = version
        /\ scheduled' = scheduled \cup {version}
        /\ status' = [status EXCEPT ![version] = [r \in Resources |->
                        IF r \in changed \/ active = 0 THEN "todo" ELSE status[active][r]]]
        /\ UNCHANGED <<newApi, exported, released>>

Deploy ==
    /\ active # 0
    /\ \E r \in Resources, done \in DoneStates :
         /\ status[active][r] = "todo"
         /\ status' = [status EXCEPT ![active][r] = done]
    /\ UNCHANGED <<newApi, exported, released, active, scheduled>>

OrchestratorMoves ==
    /\ Export \/ Release \/ Schedule \/ Deploy
    /\ UNCHANGED <<pc, wait, expired, outcome>>

TimeElapses ==
    /\ pc \in {"released", "scheduled", "deployed", "done"}
    /\ ~expired
    /\ expired' = TRUE
    /\ UNCHANGED <<orchestrator, pc, wait, outcome>>

-----------------------------------------------------------------------------
End(how) ==
    /\ pc' = "idle"
    /\ outcome' = how
    /\ UNCHANGED <<orchestrator, wait, expired>>

\* The next phase, with a timeout of its own.
Enter(phase) ==
    /\ pc' = phase
    /\ expired' = FALSE
    /\ UNCHANGED <<orchestrator, wait, outcome>>

\* A phase that a test has asked for alone is followed by no other.
Proceed(phase) == IF wait.kind = "all" THEN Enter(phase) ELSE End("returned")

\* Mutant: no timeout, the function is called until its result is true.
RetryForever(result, Success) == result /\ Success

\* retry_limited: the result of one more call of its function.  It gets called
\* once whatever the timeout, and its last result counts.
Retry(result, Success) ==
    \/ result /\ Success
    \/ ~result /\ expired /\ End("AssertionError")

\* wait_until_deployment_finishes, or one of the waits it is made of.
Begin(kind, version, state) ==
    /\ pc = "idle"
    /\ wait' = [kind |-> kind, version |-> version, state |-> state]
    /\ pc' = IF kind = "all" THEN "version" ELSE kind
    /\ expired' = FALSE
    /\ outcome' = "none"
    /\ UNCHANGED orchestrator

\* get_version tells the api by its layout; there is no model in the answer for an
\* unknown version.
GetVersion ==
    /\ pc = "version"
    /\ IF wait.version > exported THEN End("LookupError")
       ELSE Enter(IF newApi THEN "released" ELSE "done")

\* is_released, of a version or of the newest one: a version that is not there is
\* an error at once, not a reason to wait.
PollReleased ==
    /\ pc = "released"
    /\ IF exported = 0 \/ (wait.version # Nothing /\ wait.version > exported)
       THEN End("LookupError")
       ELSE Retry((IF wait.version = Nothing THEN exported ELSE wait.version) \in released,
                  Proceed("scheduled"))

\* Mutant: a later version is as good.
PollScheduledLater ==
    /\ pc = "scheduled"
    /\ IF exported = 0 THEN End("LookupError")
       ELSE Retry(exported >= wait.version, Proceed("deployed"))

\* is_scheduled looks at the newest version only.
PollScheduled ==
    /\ pc = "scheduled"
    /\ IF exported = 0 THEN End("LookupError")
       ELSE IF exported > wait.version THEN End("Superseded")
       ELSE Retry(exported = wait.version /\ active = wait.version, Proceed("deployed"))

\* is_deployment_finished and the check that follows are about whatever version is
\* active: the api shows the last status of each resource.
Done == \A r \in Resources : active # 0 => status[active][r] \in DoneStates
PollDeployed ==
    /\ pc = "deployed"
    /\ Retry(Done, IF wait.kind = "all" /\ wait.state # Nothing THEN Enter("mismatch")
                   ELSE End("returned"))

CheckMismatch ==
    /\ pc = "mismatch"
    /\ IF active # 0 /\ \E r \in Resources : status[active][r] \in DoneStates \ {wait.state}
       THEN End("AssertionError")
       ELSE End("returned")

\* Mutant: the states of the resources are not looked at.
PollDoneOnly ==
    /\ pc = "done"
    /\ Retry(\A r \in Resources : status[wait.version][r] \in DoneStates, End("returned"))

\* The same without a resource scheduler, about the version itself.
PollDone ==
    /\ pc = "done"
    /\ Retry(\A r \in Resources : status[wait.version][r] \in DoneStates,
             IF wait.state # Nothing THEN Enter("states") ELSE End("returned"))

CheckStates ==
    /\ pc = "states"
    /\ IF \E r \in Resources : status[wait.version][r] # wait.state
       THEN End("AssertionError")
       ELSE End("returned")

\* Any request may fail; the assertions about its code, or the client, raise.
RequestFails == pc # "idle" /\ End("RequestError")

ClientStep ==
    \/ GetVersion \/ PollReleased \/ PollScheduled \/ PollDeployed \/ CheckMismatch
    \/ PollDone \/ CheckStates

TestBegins ==
    \/ \E version \in Versions, state \in DoneStates \cup {Nothing} : Begin("all", version, state)
    \/ \E version \in Versions \cup {Nothing} : Begin("released", version, Nothing)
    \/ \E version \in Versions : Begin("scheduled", version, Nothing)
    \/ Begin("deployed", Nothing, Nothing)

Next == OrchestratorMoves \/ TimeElapses \/ ClientStep \/ RequestFails \/ TestBegins

\* The client polls, its requests are answered, and time goes by; nothing has to
\* happen on the orchestrator.
Spec == Init /\ [][Next]_vars /\ WF_vars(ClientStep) /\ WF_vars(TimeElapses)

-----------------------------------------------------------------------------
\* The types of the variables.
TypeOK ==
    /\ newApi \in BOOLEAN
    /\ exported \in 0 .. MaxVersions
    /\ released \subseteq 1 .. exported
    /\ active \in released \cup {0}
    /\ scheduled \subseteq released
    /\ status \in [Versions -> [Resources -> Statuses]]
    /\ pc \in Phases \cup {"idle"}
    /\ wait \in Waits \cup {Nothing}
    /\ expired \in BOOLEAN
    /\ outcome \in Outcomes

Returned == pc = "idle" /\ outcome = "returned"
=============================================================================
