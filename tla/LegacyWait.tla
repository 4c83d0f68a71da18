------------------------------ MODULE LegacyWait ------------------------------
(***************************************************************************)
(* ManagedServiceInstance with WaitForState (managed_service_instance.py,  *)
(* wait_for_state.py), the older client of the same services.  Its         *)
(* requests are those of ServiceWait, its wait is another: the target is   *)
(* looked for before the bad states, and create waits without a start      *)
(* version, for which only the newest version of each poll is looked at.   *)
(***************************************************************************)
EXTENDS ServiceWait

\* create asserts that it got version 1, and waits from no version at all: start
\* stays 0.  update and delete are RequestChange, with a target state always.
LegacyCreate ==
    /\ pc = "request" /\ operation.kind = "create"
    /\ log = <<>>
    /\ \E state \in States : log' = <<state>>
    /\ start' = 0 /\ lastVersion' = 0
    /\ expired' = FALSE
    /\ pc' = "poll"
    /\ UNCHANGED <<operation, seen, outcome>>

\* compare_states, then check_bad_state.
LegacyIsDone(state, version) ==
    IF state = operation.target
    THEN IF operation.version \in {Nothing, version} THEN "returned" ELSE "VersionMismatch"
    ELSE IF operation.version # Nothing /\ operation.version <= version THEN "VersionExceeded"
    ELSE IF state \in Bad THEN "BadState"
    ELSE "none"

\* previous_state is lastVersion: at first it has the name "default" and the start
\* version, then it is the newest version of the poll before, looked at again.
StateOf(version) == IF version = start THEN "default" ELSE log[version]

\* Mutant: with a start version too, only the newest version is looked at.
LookedAtNewest == IF seen = start THEN {} ELSE {seen}

\* The versions of past_states a poll looks at: none while the service is still in
\* its start version.
LookedAt ==
    IF start = 0 THEN {seen}
    ELSE IF seen = start THEN {}
    ELSE lastVersion .. seen

LegacyEnds(version) ==
    /\ LegacyIsDone(StateOf(version), version) # "none"
    /\ \A earlier \in LookedAt :
         earlier < version => LegacyIsDone(StateOf(earlier), earlier) = "none"
NothingEnds ==
    \A version \in LookedAt : LegacyIsDone(StateOf(version), version) = "none"

LegacyDecide ==
    /\ pc = "handle"
    /\ \E version \in LookedAt :
         /\ LegacyEnds(version)
         /\ outcome' = [kind |-> LegacyIsDone(StateOf(version), version), version |-> version]
         /\ pc' = IF outcome'.kind = "BadState" THEN "diagnose" ELSE "idle"
    /\ lastVersion' = seen
    /\ UNCHANGED <<log, operation, start, seen, expired>>

LegacyGiveUp ==
    /\ pc = "handle"
    /\ NothingEnds
    /\ expired
    /\ lastVersion' = seen
    /\ outcome' = [kind |-> "Timeout", version |-> seen]
    /\ pc' = "diagnose"
    /\ UNCHANGED <<log, operation, start, seen, expired>>

LegacyPollAgain ==
    /\ pc = "handle"
    /\ NothingEnds
    /\ ~expired
    /\ lastVersion' = seen
    /\ pc' = "poll"
    /\ UNCHANGED <<log, operation, start, seen, expired, outcome>>

\* get_state, get_states and the failing requests are those of the other client;
\* a diagnosis that fails takes the place of the failure it was made for.
LegacyStep ==
    \/ GetCurrentVersion \/ LegacyCreate \/ RequestChange \/ RequestFails
    \/ Poll \/ LegacyDecide \/ LegacyGiveUp \/ LegacyPollAgain \/ ReportFailure

LegacyBegin ==
    \E target \in Targets, version \in Versions \cup {Nothing} :
        \/ Begin("create", Nothing, target, version, Nothing)
        \/ \E current \in {Len(log), Nothing} : Begin("update", Nothing, target, version, current)

LegacySpec ==
    /\ Init /\ [][LegacyStep \/ LegacyBegin \/ ServerMoves \/ TimeElapses]_vars
    /\ WF_vars(LegacyStep) /\ WF_vars(TimeElapses)

-----------------------------------------------------------------------------
\* Where this client promises as much as the other: a wait with a start version,
\* for a state that is no bad one, in whatever version it comes.
Promised == start # 0 /\ operation.version = Nothing /\ operation.target \notin Bad
LegacyVerdict == INSTANCE WaitVerdict WITH
    wait    <- IF Promised /\ Waiting
               THEN [target |-> operation.target, version |-> Nothing, start |-> start]
               ELSE Nothing,
    known   <- IF ~Promised THEN 0 ELSE IF lastVersion >= seen THEN lastVersion ELSE seen,
    outcome <- IF Promised /\ Waited THEN outcome ELSE None

\* The legacy client's wait after an update or a delete reports the first version
\* that decides, and skips none, although it asks for the newest state and looks at
\* the last one it knows again.
LegacyImplementsVerdict == LegacyVerdict!Spec

\* A legacy operation always ends, at the latest when its timeout has elapsed.
LegacyOperationEnds == pc # "idle" ~> pc = "idle"
=============================================================================
