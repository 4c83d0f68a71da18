---------------------------- MODULE ServiceClients ----------------------------
(***************************************************************************)
(* A test drives a service through one of two clients: the coroutines of   *)
(* RemoteServiceInstance or the blocking ManagedServiceInstance.  The      *)
(* orchestrator and its service are the same for both, and so is what a    *)
(* wait is expected to promise.                                            *)
(***************************************************************************)
EXTENDS ServiceWait

VARIABLES
    client, \* the client in use
    legacyPc, legacyOperation, legacyStart, legacyLastVersion, legacySeen,
    legacyExpired, legacyOutcome

\* The legacy client's first previous_state is not a state of the service: no test
\* waits for a state that has its name.
ASSUME DefaultAssumption == "default" \notin Targets \cup Bad

asyncVars  == <<pc, operation, start, lastVersion, seen, expired, outcome>>
legacyVars == <<legacyPc, legacyOperation, legacyStart, legacyLastVersion, legacySeen,
                legacyExpired, legacyOutcome>>
allVars == <<log, client, asyncVars, legacyVars>>

Legacy == INSTANCE LegacyWait WITH
    pc <- legacyPc, operation <- legacyOperation, start <- legacyStart,
    lastVersion <- legacyLastVersion, seen <- legacySeen, expired <- legacyExpired,
    outcome <- legacyOutcome

ClientsInit == Init /\ Legacy!Init /\ client \in {"async", "legacy"}

AsyncRuns  == client = "async" /\ ClientStep /\ UNCHANGED <<client, legacyVars>>
LegacyRuns == client = "legacy" /\ Legacy!LegacyStep /\ UNCHANGED <<client, asyncVars>>

ServiceMoves == ServerMoves /\ UNCHANGED <<client, legacyVars>>
TimePasses ==
    \/ TimeElapses /\ UNCHANGED <<client, legacyVars>>
    \/ Legacy!TimeElapses /\ UNCHANGED <<client, asyncVars>>

TestBegins ==
    \/ client = "async" /\ BeginAny /\ UNCHANGED <<client, legacyVars>>
    \/ client = "legacy" /\ Legacy!LegacyBegin /\ UNCHANGED <<client, asyncVars>>

ClientsNext == AsyncRuns \/ LegacyRuns \/ ServiceMoves \/ TimePasses \/ TestBegins

\* The client in use gets to run, its requests are answered, and time goes by.
ClientsSpec ==
    /\ ClientsInit /\ [][ClientsNext]_allVars
    /\ WF_allVars(AsyncRuns) /\ WF_allVars(LegacyRuns) /\ WF_allVars(TimePasses)

-----------------------------------------------------------------------------
\* The legacy client's wait after an update or a delete reports the first version
\* that decides, and skips none (LegacyWait).
LegacyImplementsVerdict == Legacy!LegacyImplementsVerdict

\* An operation of either client always ends, at the latest when its timeout has
\* elapsed.
EitherOperationEnds == OperationEnds /\ Legacy!LegacyOperationEnds
=============================================================================
