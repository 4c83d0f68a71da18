---------------------------- MODULE ServiceWaitProofs ----------------------------
(***************************************************************************)
(* What is proved of the waits for a state of a service: the safety of     *)
(* ServiceWait, and that both clients of ServiceClients implement          *)
(* WaitVerdict, each one while the orchestrator, or a scenario that uses   *)
(* the other one, moves the service.                                       *)
(***************************************************************************)
EXTENDS ServiceClients, TLAPS

-----------------------------------------------------------------------------
\* The asyncio client, whoever moves the service.

\* Where the operation is: a wait has a start, which is a version of the service, and
\* the versions it has gone through are versions of the service too.
Stages ==
    /\ pc \in {"get", "request"} /\ operation.kind # "create" => log # <<>>
    /\ pc = "get" => operation.kind # "create"
    /\ pc \in {"get", "request", "return"} => start = 0
    /\ Waiting => start # 0
    /\ start = 0 => lastVersion = 0 /\ seen = 0
    /\ start # 0 => /\ operation \in Operations /\ operation.target \in States
                    /\ start <= lastVersion /\ lastVersion <= Len(log) /\ seen <= Len(log)
    /\ pc = "poll" => seen <= lastVersion
    /\ pc = "handle" => lastVersion <= seen
    /\ pc \in {"get", "request", "return", "poll", "handle"} => outcome = None

\* The versions the wait has gone through decide nothing.
NothingMissed == start # 0 => \A version \in start + 1 .. lastVersion : IsDone(version) = "none"

\* The verdict is that of the next one, or the timeout's.
VerdictIsNext ==
    start # 0 /\ pc \in {"idle", "diagnose"} =>
        \/ pc = "idle" /\ outcome.kind = "RequestError"
        \/ outcome = [kind |-> "Timeout", version |-> lastVersion] /\ lastVersion = seen
        \/ /\ outcome.version = lastVersion + 1 /\ outcome.version <= seen
           /\ outcome.kind = IsDone(outcome.version) /\ outcome.kind # "none"
           /\ pc = "diagnose" => outcome.kind = "BadState"

\* The transition that set_state asked for is in each reply.
OwnTransitionThere ==
    start # 0 /\ operation.kind = "set_state" =>
        /\ start < Len(log) /\ log[start + 1] = operation.state
        /\ pc = "handle" \/ (pc # "poll" /\ outcome.kind = "Timeout") => start < seen

WaitInv == TypeOK /\ Stages /\ NothingMissed /\ VerdictIsNext /\ OwnTransitionThere

-----------------------------------------------------------------------------
\* The legacy client.

LegacyStages ==
    /\ log \in Seq(States) /\ Len(log) <= MaxVersion
    /\ legacyPc \in {"idle", "get", "request", "poll", "handle", "diagnose"}
    /\ legacyPc # "idle" => legacyOperation \in Operations /\ legacyOperation.target \in Targets
    /\ legacyStart \in Nat /\ legacyLastVersion \in Nat /\ legacySeen \in Nat
    /\ legacyPc \in {"get", "request"} /\ legacyOperation.kind # "create" => log # <<>>
    /\ legacyPc = "get" => legacyOperation.kind # "create"
    /\ legacyPc \in {"get", "request"} =>
          legacyStart = 0 /\ legacyLastVersion = 0 /\ legacySeen = 0
    /\ legacyStart # 0 =>
          /\ legacyOperation \in Operations /\ legacyOperation.target \in Targets
          /\ legacyStart <= legacyLastVersion
    /\ legacyLastVersion <= Len(log) /\ legacySeen <= Len(log)
    /\ legacyPc = "poll" => legacySeen <= legacyLastVersion
    /\ legacyPc = "handle" => legacyLastVersion <= legacySeen

\* What a version means to a wait for a state, in whatever version it comes.
Meaning(version) == Legacy!LegacyIsDone(log[version], version)
Ignored(version) == Meaning(version) = "none"
FirstToDecide(version) ==
    ~Ignored(version) /\ \A earlier \in legacyStart + 1 .. version - 1 : Ignored(earlier)

LegacyNothingMissed ==
    Legacy!Promised /\ legacyPc \in {"poll", "handle"} =>
        \A version \in legacyStart + 1 .. legacyLastVersion : Ignored(version)

LegacyVerdictIsFirst ==
    Legacy!Promised /\ legacyPc \in {"idle", "diagnose"} =>
        \/ legacyPc = "idle" /\ legacyOutcome.kind = "RequestError"
        \/ /\ legacyOutcome = [kind |-> "Timeout", version |-> legacySeen]
           /\ legacyLastVersion = legacySeen
           /\ \A version \in legacyStart + 1 .. legacySeen : Ignored(version)
        \/ \E version \in legacyStart + 1 .. legacySeen :
              /\ FirstToDecide(version)
              /\ legacyOutcome = [kind |-> Meaning(version), version |-> version]
              /\ legacyLastVersion = legacySeen
              /\ legacyPc = "diagnose" => legacyOutcome.kind = "BadState"

LegacyInv == LegacyStages /\ LegacyNothingMissed /\ LegacyVerdictIsFirst

-----------------------------------------------------------------------------
\* A log that grows by one version keeps those it has.
LEMMA Appended ==
    ASSUME NEW old \in Seq(States), NEW state \in States, NEW new, new = Append(old, state)
    PROVE  /\ new \in Seq(States) /\ new # <<>> /\ Len(new) = Len(old) + 1
           /\ new[Len(old) + 1] = state
           /\ \A version \in 1 .. Len(old) : new[version] = old[version]
OBVIOUS

\* The service moves while the asyncio client does nothing: whoever moves it.
Elsewhere ==
    /\ UNCHANGED asyncVars
    /\ Len(log) < MaxVersion
    /\ \E state \in States : log' = Append(log, state)

LEMMA ElsewhereStep == WaitInv /\ Elsewhere => WaitInv'
<1> SUFFICES ASSUME WaitInv, UNCHANGED asyncVars, Len(log) < MaxVersion,
                    NEW state \in States, log' = Append(log, state)
             PROVE  WaitInv'
  BY DEF Elsewhere
<1> USE BoundAssumption
<1>1. log \in Seq(States) /\ Len(log) \in Nat
  BY DEF WaitInv, TypeOK
<1>2. /\ log' \in Seq(States) /\ log' # <<>> /\ Len(log') = Len(log) + 1
      /\ \A version \in 1 .. Len(log) : log'[version] = log[version]
  BY <1>1, Appended
<1>3. \A version \in 1 .. Len(log) : IsDone(version)' = IsDone(version)
  BY <1>2 DEF IsDone, asyncVars
<1>4. TypeOK'
  BY <1>1, <1>2 DEF WaitInv, TypeOK, asyncVars
<1>5. Stages'
  BY <1>1, <1>2 DEF WaitInv, TypeOK, Stages, asyncVars, Waiting
<1>6. NothingMissed'
  <2>1. start # 0 => \A version \in start + 1 .. lastVersion : version \in 1 .. Len(log)
    BY <1>1 DEF WaitInv, TypeOK, Stages
  <2> QED
    BY <1>3, <2>1 DEF WaitInv, NothingMissed, asyncVars
<1>7. VerdictIsNext'
  <2>1. start # 0 /\ outcome.version = lastVersion + 1 /\ outcome.version <= seen
          => outcome.version \in 1 .. Len(log)
    BY <1>1 DEF WaitInv, TypeOK, Stages
  <2> QED
    BY <1>3, <2>1 DEF WaitInv, VerdictIsNext, asyncVars
<1>8. OwnTransitionThere'
  <2>1. start # 0 /\ start < Len(log) => start + 1 \in 1 .. Len(log)
    BY <1>1 DEF WaitInv, TypeOK
  <2> QED
    BY <1>1, <1>2, <2>1 DEF WaitInv, TypeOK, OwnTransitionThere, asyncVars
<1> QED
  BY <1>4, <1>5, <1>6, <1>7, <1>8 DEF WaitInv

\* What a step of the client, or of the scenario that uses it, keeps true.
LEMMA ClientKeeps == WaitInv /\ (ClientStep \/ BeginAny \/ TimeElapses) => WaitInv'
<1> SUFFICES ASSUME WaitInv, ClientStep \/ BeginAny \/ TimeElapses PROVE WaitInv'
  OBVIOUS
<1> USE BoundAssumption, NothingAssumption
<1>0. /\ TypeOK /\ Stages /\ NothingMissed /\ VerdictIsNext /\ OwnTransitionThere
      /\ log \in Seq(States) /\ Len(log) \in Nat /\ Len(log) <= MaxVersion
      /\ log # <<>> => Len(log) \in Versions
  BY DEF WaitInv, TypeOK, Versions
<1>1. CASE TimeElapses
  <2>1. UNCHANGED <<log, pc, operation, start, lastVersion, seen, outcome>> /\ expired' \in BOOLEAN
    BY <1>1 DEF TimeElapses
  <2> QED
    BY <1>0, <2>1 DEF WaitInv, TypeOK, Stages, NothingMissed, VerdictIsNext, OwnTransitionThere,
                      Waiting, IsDone
<1>2. CASE BeginAny
  <2>1. PICK kind \in {"create", "update", "set_state"}, state \in States \cup {Nothing},
             target \in Targets \cup {Nothing}, version \in Versions \cup {Nothing},
             current \in {Len(log), Nothing} :
          /\ Begin(kind, state, target, version, current)
          /\ kind = "create" => current = Nothing
          /\ kind = "set_state" => state \in States
    BY <1>2 DEF BeginAny
  <2>2. /\ pc = "idle" /\ UNCHANGED log /\ expired' = expired
        /\ start' = 0 /\ lastVersion' = 0 /\ seen' = 0 /\ outcome' = None
        /\ pc' \in {"get", "request"}
        /\ pc' = "get" => kind # "create"
        /\ kind # "create" => log # <<>>
    BY <2>1 DEF Begin
  <2>3. operation' \in Operations /\ operation'.kind = kind
    <3>1. current \in Versions \cup {Nothing}
      BY <1>0, <2>1, <2>2
    <3>2. (IF kind = "set_state" /\ target = Nothing THEN state ELSE target) \in States \cup {Nothing}
      BY BadAssumption
    <3> QED
      BY <2>1, <3>1, <3>2 DEF Begin, Operations
  <2>4. TypeOK'
    <3>1. expired' \in BOOLEAN
      BY <1>0, <2>2 DEF TypeOK
    <3> QED
      BY <1>0, <2>2, <2>3, <3>1 DEF TypeOK, None, Outcomes
  <2>5. Stages'
    BY <2>2, <2>3 DEF Stages, Waiting
  <2>6. NothingMissed' /\ VerdictIsNext' /\ OwnTransitionThere'
    BY <2>2 DEF NothingMissed, VerdictIsNext, OwnTransitionThere
  <2> QED
    BY <2>4, <2>5, <2>6 DEF WaitInv
<1>3. CASE GetCurrentVersion
  <2>1. operation' \in Operations /\ operation'.kind = operation.kind
    BY <1>0, <1>3 DEF GetCurrentVersion, TypeOK, Stages, Operations
  <2> QED
    BY <1>0, <1>3, <2>1 DEF GetCurrentVersion, WaitInv, TypeOK, Stages, NothingMissed,
                            VerdictIsNext, OwnTransitionThere, Waiting
<1>4. CASE RequestFails
  <2>1. /\ UNCHANGED <<log, operation, start, lastVersion, seen, expired>> /\ pc # "idle"
        /\ pc' = "idle" /\ outcome' \in Outcomes /\ outcome'.kind = "RequestError"
    BY <1>4 DEF RequestFails, Outcomes
  <2> QED
    BY <1>0, <2>1 DEF WaitInv, TypeOK, Stages, NothingMissed, VerdictIsNext, OwnTransitionThere,
                      Waiting, IsDone
<1>5. CASE ReturnService
  <2>1. /\ UNCHANGED <<log, operation, start, lastVersion, seen, expired>> /\ pc = "return"
        /\ pc' = "idle" /\ outcome' \in Outcomes /\ outcome'.kind = "returned"
    BY <1>0, <1>5 DEF ReturnService, Outcomes
  <2> QED
    BY <1>0, <2>1 DEF WaitInv, TypeOK, Stages, NothingMissed, VerdictIsNext, OwnTransitionThere,
                      Waiting
<1>6. CASE Poll
  <2> QED
    BY <1>0, <1>6 DEF Poll, WaitInv, TypeOK, Stages, NothingMissed, VerdictIsNext,
                      OwnTransitionThere, Waiting, IsDone
<1>7. CASE Decide
  <2>1. PICK version \in NewVersions :
          /\ Ends(version) /\ lastVersion' = version - 1
          /\ outcome' = [kind |-> IsDone(version), version |-> version]
          /\ pc' = IF IsDone(version) = "BadState" THEN "diagnose" ELSE "idle"
    BY <1>7 DEF Decide
  <2>2. /\ UNCHANGED <<log, operation, start, seen, expired>> /\ pc = "handle" /\ start # 0
        /\ start \in Nat /\ lastVersion \in Nat /\ seen \in Nat /\ version \in Nat
        /\ start <= lastVersion /\ lastVersion < version /\ version <= seen
        /\ seen <= Len(log) /\ seen <= MaxVersion
    BY <1>0, <1>7, <2>1 DEF Decide, NewVersions, Stages, Waiting, TypeOK
  <2>3. \A other : IsDone(other)' = IsDone(other)
    BY <2>2 DEF IsDone
  <2>4. IsDone(version) \in {"BadState", "VersionExceeded", "returned"}
    BY <2>1 DEF Ends, IsDone
  <2>5. TypeOK'
    BY <1>0, <2>1, <2>2, <2>4 DEF TypeOK, Outcomes, Stages
  <2>6. Stages'
    BY <1>0, <2>1, <2>2 DEF Stages, Waiting
  <2>7. NothingMissed'
    <3>1. \A other \in start + 1 .. version - 1 :
            other \in start + 1 .. lastVersion \/ other \in lastVersion + 1 .. version - 1
      BY <2>2
    <3> QED
      BY <1>0, <2>1, <2>2, <2>3, <3>1 DEF NothingMissed, Ends
  <2>8. VerdictIsNext'
    BY <2>1, <2>2, <2>3, <2>4 DEF VerdictIsNext
  <2>9. OwnTransitionThere'
    BY <1>0, <2>1, <2>2, <2>4 DEF OwnTransitionThere
  <2> QED
    BY <2>5, <2>6, <2>7, <2>8, <2>9 DEF WaitInv
<1>8. CASE GiveUp \/ PollAgain
  <2>1. /\ UNCHANGED <<log, operation, start, seen, expired>> /\ pc = "handle" /\ lastVersion' = seen
        /\ \A version \in NewVersions : IsDone(version) = "none"
        /\ \/ pc' = "diagnose" /\ outcome' = [kind |-> "Timeout", version |-> seen]
           \/ pc' = "poll" /\ UNCHANGED outcome
    BY <1>8 DEF GiveUp, PollAgain
  <2>2. /\ start # 0 /\ start \in Nat /\ lastVersion \in Nat /\ seen \in 0 .. MaxVersion
        /\ start <= lastVersion /\ lastVersion <= seen /\ seen <= Len(log)
    BY <1>0, <2>1 DEF Stages, Waiting, TypeOK
  <2>3. \A other : IsDone(other)' = IsDone(other)
    BY <2>1 DEF IsDone
  <2>4. TypeOK'
    BY <1>0, <2>1 DEF TypeOK, Outcomes
  <2>5. Stages'
    BY <1>0, <2>1, <2>2 DEF Stages, Waiting
  <2>6. NothingMissed'
    <3>1. \A other \in start + 1 .. seen :
            other \in start + 1 .. lastVersion \/ other \in NewVersions
      BY <2>2 DEF NewVersions
    <3> QED
      BY <1>0, <2>1, <2>2, <2>3, <3>1 DEF NothingMissed
  <2>7. VerdictIsNext'
    BY <2>1 DEF VerdictIsNext
  <2>8. OwnTransitionThere'
    BY <1>0, <2>1, <2>2 DEF OwnTransitionThere, Stages, None
  <2> QED
    BY <2>4, <2>5, <2>6, <2>7, <2>8 DEF WaitInv
<1>9. CASE ReportFailure
  <2>1. pc = "diagnose" /\ pc' = "idle" /\ UNCHANGED <<log, operation, start, lastVersion, seen, expired, outcome>>
    BY <1>9 DEF ReportFailure
  <2> QED
    BY <1>0, <2>1 DEF WaitInv, TypeOK, Stages, NothingMissed, VerdictIsNext, OwnTransitionThere,
                      Waiting, IsDone
<1>10. CASE RequestCreate \/ RequestChange
  <2>1. PICK state \in States :
          /\ log' = Append(log, state)
          /\ operation.kind = "set_state" => state = operation.state
    <3>1. CASE RequestCreate
      <4>1. PICK state \in States : log' = <<state>>
        BY <3>1 DEF RequestCreate
      <4> QED
        BY <3>1, <4>1 DEF RequestCreate
    <3>2. CASE RequestChange
      BY <3>2 DEF RequestChange
    <3> QED
      BY <1>10, <3>1, <3>2
  <2>2. /\ pc = "request" /\ UNCHANGED <<operation, seen, outcome>> /\ Len(log) < MaxVersion
        /\ expired' = FALSE /\ lastVersion' = start'
        /\ pc' = IF operation.target = Nothing THEN "return" ELSE "poll"
        /\ start' = IF operation.target = Nothing THEN 0
                    ELSE IF operation.kind = "create" THEN 1 ELSE Len(log)
    BY <1>0, <1>10 DEF RequestCreate, RequestChange, StartWait
  <2>3. /\ operation \in Operations /\ outcome = None /\ seen = 0
        /\ operation.kind # "create" => log # <<>>
    BY <1>0, <2>2 DEF Stages, TypeOK
  <2>4. /\ log' \in Seq(States) /\ log' # <<>> /\ Len(log') = Len(log) + 1
        /\ log'[Len(log) + 1] = state
    BY <1>0, <2>1, Appended
  <2>5. operation.target # Nothing => operation.target \in States
    BY <2>3 DEF Operations
  <2>6. /\ start' \in 0 .. MaxVersion /\ start' <= Len(log')
        /\ operation.target # Nothing => start' # 0
        /\ operation.kind = "create" => Len(log) = 0
    BY <1>0, <1>10, <2>2, <2>3, <2>4 DEF RequestCreate, RequestChange, Versions
  <2>7. TypeOK'
    <3>1. expired' \in BOOLEAN
      BY <2>2
    <3> QED
      BY <1>0, <2>2, <2>3, <2>4, <2>6, <3>1 DEF TypeOK
  <2>8. Stages'
    BY <2>2, <2>3, <2>4, <2>5, <2>6 DEF Stages, Waiting
  <2>9. NothingMissed' /\ VerdictIsNext'
    BY <2>2, <2>6 DEF NothingMissed, VerdictIsNext
  <2>10. OwnTransitionThere'
    BY <1>0, <2>1, <2>2, <2>3, <2>4 DEF OwnTransitionThere, None
  <2> QED
    BY <2>7, <2>8, <2>9, <2>10 DEF WaitInv
<1> QED
  BY <1>1, <1>2, <1>3, <1>4, <1>5, <1>6, <1>7, <1>8, <1>9, <1>10 DEF ClientStep

\* A step of the two clients is one of the asyncio client, or of someone else.
LEMMA AsyncStep ==
    [ClientsNext]_allVars =>
        \/ ClientStep \/ BeginAny \/ TimeElapses
        \/ Elsewhere
        \/ UNCHANGED <<log, asyncVars>>
<1> SUFFICES ASSUME ClientsNext
             PROVE  \/ ClientStep \/ BeginAny \/ TimeElapses
                    \/ Elsewhere
                    \/ UNCHANGED <<log, asyncVars>>
  BY DEF allVars
<1>1. CASE LegacyRuns
  <2>1. CASE Legacy!LegacyCreate
    <3>1. PICK state \in States : log = <<>> /\ log' = <<state>>
      BY <2>1 DEF Legacy!LegacyCreate
    <3>2. log' = Append(log, state) /\ Len(log) < MaxVersion
      BY <3>1, BoundAssumption
    <3> QED
      BY <1>1, <3>2 DEF LegacyRuns, Elsewhere
  <2>2. CASE Legacy!RequestChange
    <3>1. Len(log) < MaxVersion /\ \E state \in States : log' = Append(log, state)
      BY <2>2 DEF Legacy!RequestChange
    <3> QED
      BY <1>1, <3>1 DEF LegacyRuns, Elsewhere
  <2>3. CASE UNCHANGED log
    BY <1>1, <2>3 DEF LegacyRuns
  <2> QED
    BY <1>1, <2>1, <2>2, <2>3
       DEF LegacyRuns, Legacy!LegacyStep, Legacy!GetCurrentVersion, Legacy!RequestFails, Legacy!Poll,
           Legacy!LegacyDecide, Legacy!LegacyGiveUp, Legacy!LegacyPollAgain, Legacy!ReportFailure
<1>2. CASE ServiceMoves
  BY <1>2 DEF ServiceMoves, ServerMoves, Elsewhere, asyncVars
<1>3. CASE TimePasses
  BY <1>3 DEF TimePasses, Legacy!TimeElapses
<1>4. CASE TestBegins
  BY <1>4 DEF TestBegins, Legacy!LegacyBegin, Legacy!Begin
<1> QED
  BY <1>1, <1>2, <1>3, <1>4 DEF ClientsNext, AsyncRuns

LEMMA WaitStep == WaitInv /\ [ClientsNext]_allVars => WaitInv'
<1>1. WaitInv /\ UNCHANGED <<log, asyncVars>> => WaitInv'
  BY DEF WaitInv, TypeOK, Stages, NothingMissed, VerdictIsNext, OwnTransitionThere, Waiting,
         IsDone, asyncVars
<1> QED
  BY <1>1, AsyncStep, ElsewhereStep, ClientKeeps

LEMMA WaitInvariant == ClientsSpec => []WaitInv
<1>1. ClientsInit => WaitInv
  <2> SUFFICES ASSUME Init PROVE WaitInv
    BY DEF ClientsInit
  <2> USE BoundAssumption DEF Init, None
  <2>1. log \in Seq(States) /\ Len(log) = 0
    OBVIOUS
  <2>2. TypeOK
    <3>1. outcome \in Outcomes /\ 0 \in 0 .. MaxVersion
      BY DEF Outcomes
    <3>2. expired \in BOOLEAN /\ operation \in Operations \cup {Nothing}
      OBVIOUS
    <3> QED
      BY <2>1, <3>1, <3>2 DEF TypeOK
  <2>3. Stages /\ NothingMissed /\ VerdictIsNext /\ OwnTransitionThere
    BY DEF Stages, NothingMissed, VerdictIsNext, OwnTransitionThere, Waiting
  <2> QED
    BY <2>2, <2>3 DEF WaitInv
<1> QED
  BY <1>1, WaitStep, PTL DEF ClientsSpec

\* The types of the asyncio client's variables and of the service it works on.
THEOREM TypeCorrect == ClientsSpec => []TypeOK
BY WaitInvariant, PTL DEF WaitInv

\* Every bad state that a wait went through is reported.
THEOREM BadStatesAreReported == ClientsSpec => []BadStateNeverHidden
<1>1. WaitInv => BadStateNeverHidden
  <2> SUFFICES ASSUME WaitInv, Waited, outcome.kind \in {"returned", "VersionExceeded", "Timeout"},
                      NEW version \in start + 1 .. outcome.version
               PROVE  log[version] \notin Bad
    BY DEF BadStateNeverHidden
  <2>1. /\ start # 0 /\ pc = "idle" /\ start \in Nat /\ lastVersion \in Nat
        /\ outcome.version \in Nat
    BY DEF Waited, WaitInv, TypeOK, Outcomes
  <2>2. CASE version \in start + 1 .. lastVersion
    BY <2>1, <2>2 DEF WaitInv, NothingMissed, IsDone
  <2>3. CASE version \notin start + 1 .. lastVersion
    <3>1. version = outcome.version /\ outcome.kind = IsDone(outcome.version)
      BY <2>1, <2>3 DEF WaitInv, VerdictIsNext
    <3> QED
      BY <3>1 DEF IsDone
  <2> QED
    BY <2>2, <2>3
<1> QED
  BY <1>1, WaitInvariant, PTL

\* A transition that set_state made and waits for is always seen.
THEOREM OwnTransitionIsSeen == ClientsSpec => []OwnTransitionSeen
<1>1. WaitInv => OwnTransitionSeen
  <2> SUFFICES ASSUME WaitInv, Waited, operation.kind = "set_state",
                      operation.target = operation.state, operation.target \notin Bad,
                      operation.version = Nothing, outcome.kind # "RequestError"
               PROVE  outcome = [kind |-> "returned", version |-> start + 1]
    BY DEF OwnTransitionSeen
  <2>1. /\ start # 0 /\ pc = "idle" /\ start \in Nat /\ lastVersion \in Nat /\ seen \in Nat
        /\ outcome \in Outcomes /\ start <= lastVersion
    BY DEF Waited, WaitInv, TypeOK, Stages
  <2>2. IsDone(start + 1) = "returned"
    BY <2>1 DEF WaitInv, OwnTransitionThere, IsDone
  <2>3. lastVersion = start
    BY <2>1, <2>2 DEF WaitInv, NothingMissed
  <2>4. outcome.kind # "Timeout"
    BY <2>1, <2>2, <2>3 DEF WaitInv, VerdictIsNext, OwnTransitionThere
  <2>5. outcome.version = start + 1 /\ outcome.kind = "returned"
    BY <2>1, <2>2, <2>3, <2>4 DEF WaitInv, VerdictIsNext
  <2> QED
    BY <2>1, <2>5 DEF Outcomes
<1> QED
  BY <1>1, WaitInvariant, PTL

-----------------------------------------------------------------------------
\* The asyncio client implements WaitVerdict.

\* During a wait, is_done says of a version what the promise says of it.
LEMMA SameVerdict ==
    ASSUME WaitInv, Waiting, NEW version \in 1 .. Len(log)
    PROVE  /\ Verdict!Decisive(version) <=> IsDone(version) # "none"
           /\ IsDone(version) # "none" =>
                IsDone(version) = CASE Verdict!IsBad(version)   -> "BadState"
                                    [] Verdict!Exceeds(version) -> "VersionExceeded"
                                    [] OTHER                    -> "returned"
<1>1. /\ operation \in Operations /\ operation.target \in States /\ log[version] \in States
      /\ operation.version \in Nat \cup {Nothing} /\ version \in Nat
  BY DEF WaitInv, Stages, TypeOK, Waiting, Operations, Versions
<1>2. Verdict!IsBad(version) <=> log[version] \in Bad
  BY DEF Verdict!IsBad
<1>3. Verdict!Exceeds(version) <=>
        /\ log[version] \notin Bad /\ operation.version # Nothing
        /\ version > operation.version
             \/ (version = operation.version /\ log[version] # operation.target)
  BY DEF Verdict!Exceeds, Verdict!IsBad
<1>4. Verdict!Matches(version) <=>
        /\ log[version] \notin Bad /\ log[version] = operation.target
        /\ operation.version \in {Nothing, version}
  BY DEF Verdict!Matches, Verdict!IsBad
<1> QED
  BY <1>1, <1>2, <1>3, <1>4, NothingAssumption DEF Verdict!Decisive, IsDone

\* What a wait is to WaitVerdict is not Nothing.
LEMMA WaitIsNotNothing ==
    ASSUME WaitInv, Waiting
    PROVE  [target |-> operation.target, version |-> operation.version, start |-> start] # Nothing
<1>1. /\ operation \in Operations /\ operation.target \in States /\ start \in Nat
      /\ operation.version \in Nat \cup {Nothing}
  BY DEF WaitInv, Stages, TypeOK, Waiting, Operations, Versions
<1> QED
  BY <1>1, NothingAssumption

\* A step of somebody else is a new version, or nothing at all.
LEMMA ElsewhereGrows ==
    Elsewhere \/ UNCHANGED <<log, asyncVars>> => [Verdict!Next]_(Verdict!vars)
BY DEF Elsewhere, asyncVars, Verdict!Next, Verdict!Grow, Verdict!vars, Waiting, Waited

\* A verdict that is raised is that of the first version that decides.
LEMMA FirstIsReported ==
    ASSUME WaitInv, Waiting, start # 0, seen <= Len(log), lastVersion <= seen,
           UNCHANGED <<log, operation, start, seen>>, pc' = "idle", lastVersion' <= seen,
           NEW version \in start + 1 .. seen, IsDone(version) # "none",
           \A earlier \in start + 1 .. version - 1 : IsDone(earlier) = "none",
           outcome' = [kind |-> IsDone(version), version |-> version],
           lastVersion' \in Nat
    PROVE  Verdict!Report
<1>1. /\ start \in Nat /\ seen \in Nat /\ lastVersion \in Nat /\ Len(log) \in Nat
      /\ version \in 1 .. Len(log)
  BY DEF WaitInv, TypeOK
<1>2. Verdict!Decisive(version)
      /\ IsDone(version) = CASE Verdict!IsBad(version)   -> "BadState"
                             [] Verdict!Exceeds(version) -> "VersionExceeded"
                             [] OTHER                    -> "returned"
  BY <1>1, SameVerdict
<1>3. \A earlier \in start + 1 .. version - 1 : ~Verdict!Decisive(earlier)
  BY <1>1, SameVerdict
<1>4. Verdict!FirstIn(version, start)
  BY <1>2, <1>3 DEF Verdict!FirstIn
<1> QED
  BY <1>1, <1>2, <1>4, WaitIsNotNothing DEF Verdict!Report, Waiting, Waited

\* Each step of the client is one of WaitVerdict, or none.
LEMMA ClientImplements ==
    WaitInv /\ (ClientStep \/ BeginAny \/ TimeElapses) => [Verdict!Next]_(Verdict!vars)
<1> SUFFICES ASSUME WaitInv, ClientStep \/ BeginAny \/ TimeElapses
             PROVE  [Verdict!Next]_(Verdict!vars)
  OBVIOUS
<1> USE NothingAssumption
<1>0. /\ TypeOK /\ Stages /\ NothingMissed /\ VerdictIsNext
      /\ log \in Seq(States) /\ Len(log) \in Nat
      /\ start \in Nat /\ lastVersion \in Nat /\ seen \in Nat
  BY DEF WaitInv, TypeOK
\* Nothing but the stage changes, and it stays a wait or none.
<1>1. CASE TimeElapses \/ GetCurrentVersion
  BY <1>0, <1>1 DEF TimeElapses, GetCurrentVersion, Verdict!vars, Waiting, Waited, Stages
\* An operation that begins forgets the verdict of the last one.
<1>2. CASE BeginAny
  <2>1. pc = "idle" /\ UNCHANGED log /\ start' = 0 /\ pc' \in {"get", "request"}
    BY <1>2 DEF BeginAny, Begin
  <2>2. Verdict!Forget
    BY <2>1 DEF Verdict!Forget, Verdict!None, None, Waiting, Waited
  <2> QED
    BY <2>2 DEF Verdict!Next
<1>3. CASE RequestFails \/ ReturnService
  <2>1. CASE start = 0
    BY <1>0, <1>3, <2>1 DEF RequestFails, ReturnService, Stages, Verdict!vars, Waiting, Waited
  <2>2. CASE start # 0
    <3>1. RequestFails /\ Waiting
      BY <1>0, <1>3, <2>2 DEF RequestFails, ReturnService, Stages, Waiting
    <3>2. Verdict!Fail
      BY <2>2, <3>1, WaitIsNotNothing DEF RequestFails, Verdict!Fail, Waiting, Waited
    <3> QED
      BY <3>2 DEF Verdict!Next
  <2> QED
    BY <2>1, <2>2
<1>4. CASE Poll
  <2>1. Waiting /\ start # 0 /\ seen <= lastVersion /\ lastVersion <= Len(log)
    BY <1>0, <1>4 DEF Poll, Stages, Waiting
  <2>2. Verdict!Learn
    BY <1>0, <1>4, <2>1, WaitIsNotNothing DEF Poll, Verdict!Learn, Waiting, Waited
  <2> QED
    BY <2>2 DEF Verdict!Next
\* The reply decides, and the failure has no diagnosis, or the diagnosis begins.
<1>5. CASE Decide
  <2>1. PICK version \in NewVersions :
          /\ Ends(version) /\ lastVersion' = version - 1
          /\ outcome' = [kind |-> IsDone(version), version |-> version]
          /\ pc' = IF IsDone(version) = "BadState" THEN "diagnose" ELSE "idle"
    BY <1>5 DEF Decide
  <2>2. /\ UNCHANGED <<log, operation, start, seen>> /\ Waiting /\ start # 0
        /\ start <= lastVersion /\ lastVersion <= seen /\ seen <= Len(log)
        /\ version \in Nat /\ lastVersion < version /\ version <= seen
    BY <1>0, <1>5, <2>1 DEF Decide, Stages, Waiting, NewVersions
  <2>3. CASE pc' = "diagnose"
    BY <1>0, <2>1, <2>2, <2>3 DEF Verdict!vars, Waiting, Waited
  <2>4. CASE pc' = "idle"
    <3>1. \A earlier \in start + 1 .. version - 1 : IsDone(earlier) = "none"
      BY <1>0, <2>1, <2>2 DEF NothingMissed, Ends
    <3>2. Verdict!Report
      BY <1>0, <2>1, <2>2, <2>4, <3>1, FirstIsReported DEF Ends
    <3> QED
      BY <3>2 DEF Verdict!Next
  <2> QED
    BY <2>1, <2>3, <2>4
\* The client knows what the reply says, and goes on.
<1>6. CASE GiveUp \/ PollAgain
  <2>1. /\ UNCHANGED <<log, operation, start, seen>> /\ pc = "handle" /\ lastVersion' = seen
        /\ pc' \in {"diagnose", "poll"} /\ start # 0 /\ lastVersion <= seen
    BY <1>0, <1>6 DEF GiveUp, PollAgain, Stages, Waiting
  <2> QED
    BY <1>0, <2>1 DEF Verdict!vars, Waiting, Waited
\* The diagnosis is done, the verdict is raised.
<1>7. CASE ReportFailure
  <2>1. /\ UNCHANGED <<log, operation, start, lastVersion, seen, outcome>>
        /\ pc = "diagnose" /\ pc' = "idle" /\ Waiting /\ start # 0
        /\ start <= lastVersion /\ lastVersion <= Len(log) /\ seen <= Len(log)
    BY <1>0, <1>7 DEF ReportFailure, Stages, Waiting
  <2>2. CASE outcome = [kind |-> "Timeout", version |-> lastVersion] /\ lastVersion = seen
    <3>1. \A version \in start + 1 .. lastVersion : ~Verdict!Decisive(version)
      BY <1>0, <2>1, SameVerdict DEF NothingMissed
    <3>2. Verdict!GiveUp
      BY <1>0, <2>1, <2>2, <3>1, WaitIsNotNothing DEF Verdict!GiveUp, Waiting, Waited
    <3> QED
      BY <3>2 DEF Verdict!Next
  <2>3. CASE /\ outcome.version = lastVersion + 1 /\ outcome.version <= seen
             /\ outcome.kind = IsDone(outcome.version) /\ outcome.kind # "none"
    <3>1. \A earlier \in start + 1 .. outcome.version - 1 : IsDone(earlier) = "none"
      BY <1>0, <2>1, <2>3 DEF NothingMissed
    <3>2. outcome = [kind |-> IsDone(outcome.version), version |-> outcome.version]
      BY <1>0, <2>3 DEF TypeOK, Outcomes
    <3>3. Verdict!Report
      BY <1>0, <2>1, <2>3, <3>1, <3>2, FirstIsReported
    <3> QED
      BY <3>3 DEF Verdict!Next
  <2> QED
    BY <1>0, <2>1, <2>2, <2>3 DEF VerdictIsNext
\* The request makes a version, and starts the wait if there is a state to wait for.
<1>8. CASE RequestCreate \/ RequestChange
  <2>1. PICK state \in States : log' = Append(log, state)
    <3>1. CASE RequestCreate
      <4>1. PICK state \in States : log' = <<state>>
        BY <3>1 DEF RequestCreate
      <4> QED
        BY <3>1, <4>1 DEF RequestCreate
    <3>2. CASE RequestChange
      BY <3>2 DEF RequestChange
    <3> QED
      BY <1>8, <3>1, <3>2
  <2>2. /\ pc = "request" /\ UNCHANGED <<operation, seen, outcome>> /\ seen = 0 /\ start = 0
        /\ lastVersion' = start' /\ operation \in Operations
        /\ pc' = IF operation.target = Nothing THEN "return" ELSE "poll"
    BY <1>0, <1>8 DEF RequestCreate, RequestChange, StartWait, Stages, TypeOK
  <2>3. CASE operation.target = Nothing
    <3>1. start' = 0
      BY <1>8, <2>3 DEF RequestCreate, RequestChange, StartWait
    <3>2. Verdict!Grow
      BY <2>1, <2>2, <2>3, <3>1 DEF Verdict!Grow, Waiting, Waited
    <3> QED
      BY <3>2 DEF Verdict!Next
  <2>4. CASE operation.target # Nothing
    <3>1. start' \in Nat \ {0} /\ start' <= Len(log) + 1
      BY <1>0, <1>8, <2>2, <2>4 DEF RequestCreate, RequestChange, StartWait, Stages
    <3>2. log' \in Seq(States) /\ Len(log') = Len(log) + 1
      BY <1>0, <2>1, Appended
    <3>3. [target |-> operation.target, version |-> operation.version, start |-> start']
            \in [target : States, version : Nat \cup {Nothing}, start : 1 .. Len(log')]
      BY <1>0, <2>2, <2>4, <3>1, <3>2 DEF Operations, Versions
    <3>4. Verdict!Start
      BY <1>0, <2>1, <2>2, <2>4, <3>1, <3>3
         DEF Verdict!Start, Verdict!None, None, Waiting, Waited
    <3> QED
      BY <3>4 DEF Verdict!Next
  <2> QED
    BY <2>3, <2>4
<1> QED
  BY <1>1, <1>2, <1>3, <1>4, <1>5, <1>6, <1>7, <1>8 DEF ClientStep

\* The wait of the asyncio client reports the first version that decides, whatever the
\* orchestrator and the users of the legacy client do to the service meanwhile.
THEOREM AsyncImplementsVerdict == ClientsSpec => ImplementsVerdict
<1>1. ClientsInit => Verdict!Init
  BY DEF ClientsInit, Init, Verdict!Init, Verdict!None, Waiting, Waited, None
<1>2. WaitInv /\ [ClientsNext]_allVars => [Verdict!Next]_(Verdict!vars)
  BY AsyncStep, ElsewhereGrows, ClientImplements
<1> QED
  BY <1>1, <1>2, WaitInvariant, PTL DEF ClientsSpec, ImplementsVerdict, Verdict!Spec

-----------------------------------------------------------------------------
\* The legacy client implements it where it has a start version, and no target version.

\* The service moves while the legacy client does nothing.
LegacyElsewhere ==
    /\ UNCHANGED legacyVars
    /\ Len(log) < MaxVersion
    /\ \E state \in States : log' = Append(log, state)

\* A step of the two clients is one of the legacy client, or of someone else.
LEMMA LegacyOrElse ==
    [ClientsNext]_allVars =>
        \/ Legacy!LegacyStep \/ Legacy!LegacyBegin \/ Legacy!TimeElapses
        \/ LegacyElsewhere
        \/ UNCHANGED <<log, legacyVars>>
<1> SUFFICES ASSUME ClientsNext
             PROVE  \/ Legacy!LegacyStep \/ Legacy!LegacyBegin \/ Legacy!TimeElapses
                    \/ LegacyElsewhere
                    \/ UNCHANGED <<log, legacyVars>>
  BY DEF allVars
<1>1. CASE AsyncRuns
  <2>1. CASE RequestCreate
    <3>1. PICK state \in States : log = <<>> /\ log' = <<state>>
      BY <2>1 DEF RequestCreate
    <3>2. log' = Append(log, state) /\ Len(log) < MaxVersion
      BY <3>1, BoundAssumption
    <3> QED
      BY <1>1, <3>2 DEF AsyncRuns, LegacyElsewhere
  <2>2. CASE RequestChange
    <3>1. Len(log) < MaxVersion /\ \E state \in States : log' = Append(log, state)
      BY <2>2 DEF RequestChange
    <3> QED
      BY <1>1, <3>1 DEF AsyncRuns, LegacyElsewhere
  <2>3. CASE UNCHANGED log
    BY <1>1, <2>3 DEF AsyncRuns
  <2> QED
    BY <1>1, <2>1, <2>2, <2>3
       DEF AsyncRuns, ClientStep, GetCurrentVersion, RequestFails, ReturnService, Poll, Decide, GiveUp,
           PollAgain, ReportFailure
<1>2. CASE ServiceMoves
  BY <1>2 DEF ServiceMoves, ServerMoves, LegacyElsewhere
<1>3. CASE TimePasses
  BY <1>3 DEF TimePasses, TimeElapses
<1>4. CASE TestBegins
  BY <1>4 DEF TestBegins, BeginAny, Begin
<1> QED
  BY <1>1, <1>2, <1>3, <1>4 DEF ClientsNext, LegacyRuns

LEMMA LegacyElsewhereStep == LegacyInv /\ LegacyElsewhere => LegacyInv'
<1> SUFFICES ASSUME LegacyInv, UNCHANGED legacyVars, Len(log) < MaxVersion,
                    NEW state \in States, log' = Append(log, state)
             PROVE  LegacyInv'
  BY DEF LegacyElsewhere
<1> USE BoundAssumption
<1>1. /\ log \in Seq(States) /\ Len(log) \in Nat
      /\ legacyStart \in Nat /\ legacyLastVersion \in Nat /\ legacySeen \in Nat
  BY DEF LegacyInv, LegacyStages
<1>2. /\ log' \in Seq(States) /\ log' # <<>> /\ Len(log') = Len(log) + 1
      /\ \A version \in 1 .. Len(log) : log'[version] = log[version]
  BY <1>1, Appended
<1>3. \A version \in 1 .. Len(log) :
        Meaning(version)' = Meaning(version) /\ Ignored(version)' = Ignored(version)
  BY <1>2 DEF Legacy!LegacyIsDone, Meaning, Ignored, legacyVars
<1>4. LegacyStages'
  BY <1>1, <1>2 DEF LegacyInv, LegacyStages, legacyVars
<1>5. legacyStart # 0 => legacyLastVersion <= Len(log) /\ legacySeen <= Len(log)
  BY DEF LegacyInv, LegacyStages
<1>6. LegacyNothingMissed'
  BY <1>1, <1>3, <1>5 DEF LegacyInv, LegacyNothingMissed, legacyVars, Legacy!Promised
<1>7. LegacyVerdictIsFirst'
  <2>1. \A version \in legacyStart + 1 .. legacySeen :
          legacyStart # 0 => FirstToDecide(version)' = FirstToDecide(version)
    BY <1>1, <1>3, <1>5 DEF FirstToDecide, legacyVars
  <2> QED
    BY <1>1, <1>3, <1>5, <2>1 DEF LegacyInv, LegacyVerdictIsFirst, legacyVars, Legacy!Promised
<1> QED
  BY <1>4, <1>6, <1>7 DEF LegacyInv

\* A poll looks at every version it does not know yet, and at one that it does.
LEMMA LooksAtTheNew ==
    ASSUME LegacyInv, Legacy!Promised, legacyPc = "handle"
    PROVE  /\ legacyStart + 1 .. legacySeen \subseteq
                 (legacyStart + 1 .. legacyLastVersion) \cup Legacy!LookedAt
           /\ \A version \in legacyStart + 1 .. legacySeen :
                 Legacy!LegacyIsDone(Legacy!StateOf(version), version) = Meaning(version)
           /\ \A version \in Legacy!LookedAt :
                 \/ Legacy!LegacyIsDone(Legacy!StateOf(version), version) = "none"
                 \/ version \in legacyStart + 1 .. legacySeen
<1>1. /\ legacyStart \in Nat /\ legacyLastVersion \in Nat /\ legacySeen \in Nat /\ legacyStart # 0
      /\ legacyStart <= legacyLastVersion /\ legacyLastVersion <= legacySeen
      /\ legacyOperation.target \in Targets /\ legacyOperation.version = Nothing
  BY DEF LegacyInv, LegacyStages, Legacy!Promised
<1>2. Legacy!LookedAt = IF legacySeen = legacyStart THEN {} ELSE legacyLastVersion .. legacySeen
  BY <1>1 DEF Legacy!LookedAt
<1>3. \A version \in legacyStart + 1 .. legacySeen : Legacy!StateOf(version) = log[version]
  BY <1>1 DEF Legacy!StateOf
<1>4. Legacy!LegacyIsDone("default", legacyStart) = "none"
  BY <1>1, DefaultAssumption DEF Legacy!LegacyIsDone
<1>5. Legacy!StateOf(legacyStart) = "default"
  BY DEF Legacy!StateOf
<1> QED
  BY <1>1, <1>2, <1>3, <1>4, <1>5 DEF Meaning

\* What a poll that ends the legacy wait has found is the first version that decides; one
\* that does not has found none.
LEMMA PollFindsTheFirst ==
    ASSUME LegacyInv, Legacy!Promised, legacyPc = "handle"
    PROVE  /\ \A version \in Legacy!LookedAt :
                 Legacy!LegacyEnds(version) =>
                    version \in legacyStart + 1 .. legacySeen /\ FirstToDecide(version)
           /\ Legacy!NothingEnds => \A version \in legacyStart + 1 .. legacySeen : Ignored(version)
<1>1. /\ legacyStart \in Nat /\ legacyLastVersion \in Nat /\ legacySeen \in Nat /\ legacyStart # 0
      /\ legacyLastVersion <= legacySeen
      /\ \A version \in legacyStart + 1 .. legacyLastVersion : Ignored(version)
  BY DEF LegacyInv, LegacyStages, LegacyNothingMissed, Legacy!Promised
<1>2. ASSUME NEW version \in Legacy!LookedAt, Legacy!LegacyEnds(version)
      PROVE  version \in legacyStart + 1 .. legacySeen /\ FirstToDecide(version)
  <2>1. version \in legacyStart + 1 .. legacySeen /\ ~Ignored(version)
    BY <1>2, LooksAtTheNew DEF Legacy!LegacyEnds, Ignored
  <2>2. ASSUME NEW earlier \in legacyStart + 1 .. version - 1 PROVE Ignored(earlier)
    <3>1. earlier \in legacyStart + 1 .. legacySeen /\ earlier < version
      BY <1>1, <2>1
    <3>2. CASE earlier \in Legacy!LookedAt
      BY <1>2, <3>1, <3>2, LooksAtTheNew DEF Legacy!LegacyEnds, Ignored
    <3> QED
      BY <1>1, <3>1, <3>2, LooksAtTheNew
  <2> QED
    BY <2>1, <2>2 DEF FirstToDecide
<1>3. ASSUME Legacy!NothingEnds, NEW version \in legacyStart + 1 .. legacySeen
      PROVE  Ignored(version)
  BY <1>1, <1>3, LooksAtTheNew DEF Legacy!NothingEnds, Ignored
<1> QED
  BY <1>2, <1>3

LEMMA LegacyKeeps ==
    LegacyInv /\ (Legacy!LegacyStep \/ Legacy!LegacyBegin \/ Legacy!TimeElapses) => LegacyInv'
<1> SUFFICES ASSUME LegacyInv, Legacy!LegacyStep \/ Legacy!LegacyBegin \/ Legacy!TimeElapses
             PROVE  LegacyInv'
  OBVIOUS
<1> USE NothingAssumption, BoundAssumption
<1>0. /\ LegacyStages /\ LegacyNothingMissed /\ LegacyVerdictIsFirst
      /\ log \in Seq(States) /\ Len(log) \in Nat /\ Len(log) <= MaxVersion
      /\ legacyStart \in Nat /\ legacyLastVersion \in Nat /\ legacySeen \in Nat
  BY DEF LegacyInv, LegacyStages
<1>1. CASE Legacy!TimeElapses
  <2>1. UNCHANGED <<log, legacyPc, legacyOperation, legacyStart, legacyLastVersion, legacySeen,
                    legacyOutcome>>
    BY <1>1 DEF Legacy!TimeElapses
  <2> QED
    BY <2>1 DEF LegacyInv, LegacyStages, LegacyNothingMissed, LegacyVerdictIsFirst,
                Legacy!Promised, FirstToDecide, Ignored, Meaning, Legacy!LegacyIsDone
<1>2. CASE Legacy!LegacyBegin
  <2>1. PICK kind \in {"create", "update"}, target \in Targets, version \in Versions \cup {Nothing},
             current \in {Len(log), Nothing} :
          /\ Legacy!Begin(kind, Nothing, target, version, current)
          /\ kind = "create" => current = Nothing
    BY <1>2 DEF Legacy!LegacyBegin, Versions, Legacy!Versions
  <2>2. /\ legacyPc = "idle" /\ UNCHANGED log
        /\ legacyStart' = 0 /\ legacyLastVersion' = 0 /\ legacySeen' = 0
        /\ legacyPc' \in {"get", "request"}
        /\ legacyPc' = "get" => kind # "create"
        /\ kind # "create" => log # <<>>
    BY <2>1 DEF Legacy!Begin
  <2>3. legacyOperation' \in Operations /\ legacyOperation'.kind = kind
        /\ legacyOperation'.target \in Targets
    <3>1. current \in Versions \cup {Nothing}
      BY <1>0, <2>1, <2>2 DEF Versions
    <3> QED
      BY <2>1, <3>1, BadAssumption DEF Legacy!Begin, Operations
  <2> QED
    BY <1>0, <2>2, <2>3 DEF LegacyInv, LegacyStages, LegacyNothingMissed, LegacyVerdictIsFirst,
                            Legacy!Promised
<1>3. CASE Legacy!GetCurrentVersion
  <2>1. legacyOperation' \in Operations /\ legacyOperation'.kind = legacyOperation.kind
        /\ legacyOperation'.target = legacyOperation.target
    BY <1>0, <1>3 DEF Legacy!GetCurrentVersion, LegacyStages, Operations, Versions
  <2> QED
    BY <1>0, <1>3, <2>1 DEF Legacy!GetCurrentVersion, LegacyInv, LegacyStages, LegacyNothingMissed,
                            LegacyVerdictIsFirst, Legacy!Promised
<1>4. CASE Legacy!RequestFails
  <2>1. /\ UNCHANGED <<log, legacyOperation, legacyStart, legacyLastVersion, legacySeen>>
        /\ legacyPc # "idle" /\ legacyPc' = "idle" /\ legacyOutcome'.kind = "RequestError"
    BY <1>4 DEF Legacy!RequestFails
  <2> QED
    BY <1>0, <2>1 DEF LegacyInv, LegacyStages, LegacyNothingMissed, LegacyVerdictIsFirst,
                      Legacy!Promised
<1>5. CASE Legacy!Poll
  <2>1. /\ UNCHANGED <<log, legacyOperation, legacyStart, legacyLastVersion, legacyOutcome>>
        /\ legacyPc = "poll" /\ legacyPc' = "handle" /\ legacySeen' = Len(log)
    BY <1>5 DEF Legacy!Poll
  <2>2. \A version : Ignored(version)' = Ignored(version)
    BY <2>1 DEF Ignored, Meaning, Legacy!LegacyIsDone
  <2>3. LegacyStages'
    BY <1>0, <2>1 DEF LegacyStages
  <2>4. LegacyNothingMissed' /\ LegacyVerdictIsFirst'
    BY <1>0, <2>1, <2>2 DEF LegacyNothingMissed, LegacyVerdictIsFirst, Legacy!Promised
  <2> QED
    BY <2>3, <2>4 DEF LegacyInv
<1>6. CASE Legacy!LegacyDecide \/ Legacy!LegacyGiveUp \/ Legacy!LegacyPollAgain
  <2>1. /\ UNCHANGED <<log, legacyOperation, legacyStart, legacySeen>>
        /\ legacyPc = "handle" /\ legacyLastVersion' = legacySeen
        /\ legacyPc' \in {"diagnose", "idle", "poll"}
    BY <1>6 DEF Legacy!LegacyDecide, Legacy!LegacyGiveUp, Legacy!LegacyPollAgain
  <2>2. \A version : /\ Meaning(version)' = Meaning(version) /\ Ignored(version)' = Ignored(version)
                     /\ FirstToDecide(version)' = FirstToDecide(version)
    BY <2>1 DEF Meaning, Ignored, FirstToDecide, Legacy!LegacyIsDone
  <2>3. LegacyStages'
    BY <1>0, <2>1 DEF LegacyStages
  <2>4. LegacyNothingMissed' /\ LegacyVerdictIsFirst'
    <3>0. Legacy!Promised' = Legacy!Promised
      BY <2>1 DEF Legacy!Promised
    <3>1. CASE ~Legacy!Promised
      BY <3>0, <3>1 DEF LegacyNothingMissed, LegacyVerdictIsFirst
    <3>2. CASE Legacy!Promised /\ Legacy!LegacyDecide
      <4>1. PICK version \in Legacy!LookedAt :
              /\ Legacy!LegacyEnds(version)
              /\ legacyOutcome' = [kind    |-> Legacy!LegacyIsDone(Legacy!StateOf(version), version),
                                   version |-> version]
              /\ legacyPc' = IF legacyOutcome'.kind = "BadState" THEN "diagnose" ELSE "idle"
        BY <3>2 DEF Legacy!LegacyDecide
      <4>2. /\ version \in legacyStart + 1 .. legacySeen /\ FirstToDecide(version)
            /\ Legacy!LegacyIsDone(Legacy!StateOf(version), version) = Meaning(version)
        BY <2>1, <3>2, <4>1, PollFindsTheFirst, LooksAtTheNew
      <4> QED
        BY <2>1, <2>2, <4>1, <4>2 DEF LegacyNothingMissed, LegacyVerdictIsFirst
    <3>3. CASE Legacy!Promised /\ (Legacy!LegacyGiveUp \/ Legacy!LegacyPollAgain)
      <4>1. \A version \in legacyStart + 1 .. legacySeen : Ignored(version)
        BY <2>1, <3>3, PollFindsTheFirst DEF Legacy!LegacyGiveUp, Legacy!LegacyPollAgain
      <4>2. \/ legacyPc' = "diagnose" /\ legacyOutcome' = [kind |-> "Timeout", version |-> legacySeen]
            \/ legacyPc' = "poll"
        BY <3>3 DEF Legacy!LegacyGiveUp, Legacy!LegacyPollAgain
      <4> QED
        BY <2>1, <2>2, <4>1, <4>2 DEF LegacyNothingMissed, LegacyVerdictIsFirst
    <3> QED
      BY <1>6, <3>1, <3>2, <3>3
  <2> QED
    BY <2>3, <2>4 DEF LegacyInv
<1>7. CASE Legacy!ReportFailure
  <2>1. /\ UNCHANGED <<log, legacyOperation, legacyStart, legacyLastVersion, legacySeen, legacyOutcome>>
        /\ legacyPc = "diagnose" /\ legacyPc' = "idle"
    BY <1>7 DEF Legacy!ReportFailure
  <2>2. \A version : /\ Meaning(version)' = Meaning(version) /\ Ignored(version)' = Ignored(version)
                     /\ FirstToDecide(version)' = FirstToDecide(version)
    BY <2>1 DEF Meaning, Ignored, FirstToDecide, Legacy!LegacyIsDone
  <2>3. LegacyStages'
    BY <1>0, <2>1 DEF LegacyStages
  <2>4. LegacyNothingMissed' /\ LegacyVerdictIsFirst'
    BY <1>0, <2>1, <2>2 DEF LegacyNothingMissed, LegacyVerdictIsFirst, Legacy!Promised
  <2> QED
    BY <2>3, <2>4 DEF LegacyInv
<1>8. CASE Legacy!LegacyCreate
  <2>1. PICK state \in States : log = <<>> /\ log' = <<state>>
    BY <1>8 DEF Legacy!LegacyCreate
  <2>2. log' \in Seq(States) /\ Len(log') = 1
    BY <2>1
  <2>3. /\ legacyStart' = 0 /\ legacyLastVersion' = 0 /\ legacyPc' = "poll" /\ legacyPc = "request"
        /\ UNCHANGED <<legacyOperation, legacySeen>>
    BY <1>8 DEF Legacy!LegacyCreate
  <2> QED
    BY <1>0, <2>2, <2>3 DEF LegacyInv, LegacyStages, LegacyNothingMissed, LegacyVerdictIsFirst,
                            Legacy!Promised
<1>9. CASE Legacy!RequestChange
  <2>1. PICK state \in States : log' = Append(log, state)
    BY <1>9 DEF Legacy!RequestChange
  <2>2. log' \in Seq(States) /\ Len(log') = Len(log) + 1
    BY <1>0, <2>1, Appended
  <2>3. legacyOperation \in Operations /\ legacyOperation.target \in Targets
        /\ legacyOperation.target # Nothing /\ log # <<>> /\ legacySeen = 0
    BY <1>0, <1>9, BadAssumption DEF Legacy!RequestChange, LegacyStages
  <2>4. /\ legacyPc' = "poll" /\ UNCHANGED <<legacyOperation, legacySeen>>
        /\ legacyStart' = Len(log) /\ legacyLastVersion' = Len(log) /\ Len(log) < MaxVersion
    BY <1>9, <2>3 DEF Legacy!RequestChange, Legacy!StartWait
  <2>5. LegacyStages'
    BY <1>0, <2>2, <2>3, <2>4 DEF LegacyStages
  <2>6. LegacyNothingMissed' /\ LegacyVerdictIsFirst'
    BY <1>0, <2>4 DEF LegacyNothingMissed, LegacyVerdictIsFirst
  <2> QED
    BY <2>5, <2>6 DEF LegacyInv
<1> QED
  BY <1>1, <1>2, <1>3, <1>4, <1>5, <1>6, <1>7, <1>8, <1>9 DEF Legacy!LegacyStep

LEMMA LegacyStepKeeps == LegacyInv /\ [ClientsNext]_allVars => LegacyInv'
<1>1. LegacyInv /\ UNCHANGED <<log, legacyVars>> => LegacyInv'
  BY DEF LegacyInv, LegacyStages, LegacyNothingMissed, LegacyVerdictIsFirst, Legacy!Promised,
         FirstToDecide, Ignored, Meaning, Legacy!LegacyIsDone, legacyVars
<1> QED
  BY <1>1, LegacyOrElse, LegacyElsewhereStep, LegacyKeeps

LEMMA LegacyInvariant == ClientsSpec => []LegacyInv
<1>1. ClientsInit => LegacyInv
  <2> SUFFICES ASSUME Legacy!Init PROVE LegacyInv
    BY DEF ClientsInit
  <2>1. log \in Seq(States) /\ Len(log) = 0
    BY DEF Legacy!Init
  <2> QED
    BY <2>1, BoundAssumption DEF Legacy!Init, LegacyInv, LegacyStages, LegacyNothingMissed,
                                 LegacyVerdictIsFirst, Legacy!Promised
<1> QED
  BY <1>1, LegacyStepKeeps, PTL DEF ClientsSpec

\* What the legacy client makes of a version is what the promise says of it: neither
\* cares for a state by its version.
LEMMA LegacySameVerdict ==
    ASSUME LegacyInv, Legacy!Promised, Legacy!Waiting, NEW version \in 1 .. Len(log)
    PROVE  /\ Legacy!LegacyVerdict!Decisive(version) <=> ~Ignored(version)
           /\ ~Legacy!LegacyVerdict!Exceeds(version)
           /\ ~Ignored(version) =>
                Meaning(version) = IF Legacy!LegacyVerdict!IsBad(version) THEN "BadState" ELSE "returned"
<1>1. Meaning(version) = IF log[version] = legacyOperation.target THEN "returned"
                         ELSE IF log[version] \in Bad THEN "BadState" ELSE "none"
  BY DEF Legacy!Promised, Meaning, Legacy!LegacyIsDone
<1>2. legacyOperation.target \notin Bad
  BY DEF Legacy!Promised
<1>3. Legacy!LegacyVerdict!IsBad(version) <=> log[version] \in Bad
  BY DEF Legacy!LegacyVerdict!IsBad
<1>4. ~Legacy!LegacyVerdict!Exceeds(version)
  BY DEF Legacy!LegacyVerdict!Exceeds
<1>5. Legacy!LegacyVerdict!Matches(version) <=>
        log[version] \notin Bad /\ log[version] = legacyOperation.target
  BY DEF Legacy!LegacyVerdict!Matches, Legacy!LegacyVerdict!IsBad
<1> QED
  BY <1>1, <1>2, <1>3, <1>4, <1>5 DEF Ignored, Legacy!LegacyVerdict!Decisive

LEMMA LegacyWaitIsNotNothing ==
    ASSUME LegacyInv, Legacy!Promised
    PROVE  /\ [target |-> legacyOperation.target, version |-> Nothing, start |-> legacyStart]
                 \in [target : States, version : Nat \cup {Nothing}, start : Nat]
           /\ [target |-> legacyOperation.target, version |-> Nothing, start |-> legacyStart] # Nothing
<1>1. legacyOperation.target \in States /\ legacyStart \in Nat
  BY BadAssumption DEF LegacyInv, LegacyStages, Legacy!Promised
<1> QED
  BY <1>1, NothingAssumption

\* A verdict that is raised is that of the first version that decides.
LEMMA LegacyFirstIsReported ==
    ASSUME LegacyInv, Legacy!Promised, Legacy!Waiting,
           UNCHANGED <<log, legacyOperation, legacyStart, legacySeen>>, legacyPc' = "idle",
           legacyLastVersion <= legacySeen, legacyLastVersion' <= legacySeen, legacyLastVersion' \in Nat,
           NEW version \in legacyStart + 1 .. legacySeen, FirstToDecide(version),
           legacyOutcome' = [kind |-> Meaning(version), version |-> version]
    PROVE  Legacy!LegacyVerdict!Report
<1>1. /\ legacyStart \in Nat /\ legacySeen \in Nat /\ legacyLastVersion \in Nat /\ Len(log) \in Nat
      /\ legacySeen <= Len(log) /\ legacyStart # 0 /\ version \in 1 .. Len(log)
  BY DEF LegacyInv, LegacyStages, Legacy!Promised
<1>2. /\ Legacy!LegacyVerdict!Decisive(version)
      /\ ~Legacy!LegacyVerdict!Exceeds(version)
      /\ Meaning(version) = IF Legacy!LegacyVerdict!IsBad(version) THEN "BadState" ELSE "returned"
  BY <1>1, LegacySameVerdict DEF FirstToDecide
<1>3. \A earlier \in legacyStart + 1 .. version - 1 : ~Legacy!LegacyVerdict!Decisive(earlier)
  BY <1>1, LegacySameVerdict DEF FirstToDecide
<1>4. Legacy!LegacyVerdict!FirstIn(version, legacyStart)
  BY <1>2, <1>3 DEF Legacy!LegacyVerdict!FirstIn
<1> QED
  BY <1>1, <1>2, <1>4, LegacyWaitIsNotNothing
     DEF Legacy!LegacyVerdict!Report, Legacy!Waiting, Legacy!Waited, Legacy!Promised

LEMMA LegacyElsewhereGrows ==
    LegacyElsewhere \/ UNCHANGED <<log, legacyVars>> =>
        [Legacy!LegacyVerdict!Next]_(Legacy!LegacyVerdict!vars)
BY DEF LegacyElsewhere, legacyVars, Legacy!LegacyVerdict!Next, Legacy!LegacyVerdict!Grow,
       Legacy!LegacyVerdict!vars, Legacy!Waiting, Legacy!Waited, Legacy!Promised

\* Each step of the legacy client is one of WaitVerdict, or none.
LEMMA LegacyImplements ==
    LegacyInv /\ (Legacy!LegacyStep \/ Legacy!LegacyBegin \/ Legacy!TimeElapses) =>
        [Legacy!LegacyVerdict!Next]_(Legacy!LegacyVerdict!vars)
<1> SUFFICES ASSUME LegacyInv, Legacy!LegacyStep \/ Legacy!LegacyBegin \/ Legacy!TimeElapses
             PROVE  [Legacy!LegacyVerdict!Next]_(Legacy!LegacyVerdict!vars)
  OBVIOUS
<1> USE NothingAssumption
<1>0. /\ LegacyStages /\ LegacyNothingMissed /\ LegacyVerdictIsFirst
      /\ log \in Seq(States) /\ Len(log) \in Nat
      /\ legacyStart \in Nat /\ legacyLastVersion \in Nat /\ legacySeen \in Nat
  BY DEF LegacyInv, LegacyStages
<1>1. CASE Legacy!TimeElapses \/ Legacy!GetCurrentVersion
  BY <1>0, <1>1 DEF Legacy!TimeElapses, Legacy!GetCurrentVersion, Legacy!LegacyVerdict!vars,
                    Legacy!Waiting, Legacy!Waited, Legacy!Promised, LegacyStages
<1>2. CASE Legacy!LegacyBegin
  <2>1. legacyPc = "idle" /\ UNCHANGED log /\ legacyStart' = 0
    BY <1>2 DEF Legacy!LegacyBegin, Legacy!Begin
  <2>2. Legacy!LegacyVerdict!Forget
    BY <2>1 DEF Legacy!LegacyVerdict!Forget, Legacy!LegacyVerdict!None, Legacy!None,
                Legacy!Waiting, Legacy!Waited, Legacy!Promised
  <2> QED
    BY <2>2 DEF Legacy!LegacyVerdict!Next
<1>3. CASE Legacy!RequestFails
  <2>1. CASE Legacy!Promised
    <3>1. Legacy!Waiting
      BY <1>0, <1>3, <2>1 DEF Legacy!RequestFails, LegacyStages, Legacy!Waiting, Legacy!Promised
    <3>2. Legacy!LegacyVerdict!Fail
      BY <1>3, <2>1, <3>1, LegacyWaitIsNotNothing
         DEF Legacy!RequestFails, Legacy!LegacyVerdict!Fail, Legacy!Waiting, Legacy!Waited, Legacy!Promised
    <3> QED
      BY <3>2 DEF Legacy!LegacyVerdict!Next
  <2>2. CASE ~Legacy!Promised
    BY <1>3, <2>2 DEF Legacy!RequestFails, Legacy!LegacyVerdict!vars, Legacy!Promised
  <2> QED
    BY <2>1, <2>2
<1>4. CASE Legacy!Poll
  <2>1. CASE Legacy!Promised
    <3>1. Legacy!Waiting /\ legacySeen <= legacyLastVersion /\ legacyLastVersion <= Len(log)
      BY <1>0, <1>4 DEF Legacy!Poll, LegacyStages, Legacy!Waiting
    <3>2. Legacy!LegacyVerdict!Learn
      BY <1>0, <1>4, <2>1, <3>1, LegacyWaitIsNotNothing
         DEF Legacy!Poll, Legacy!LegacyVerdict!Learn, Legacy!Waiting, Legacy!Waited, Legacy!Promised
    <3> QED
      BY <3>2 DEF Legacy!LegacyVerdict!Next
  <2>2. CASE ~Legacy!Promised
    BY <1>4, <2>2 DEF Legacy!Poll, Legacy!LegacyVerdict!vars, Legacy!Promised
  <2> QED
    BY <2>1, <2>2
<1>5. CASE Legacy!LegacyDecide
  <2>1. PICK version \in Legacy!LookedAt :
          /\ Legacy!LegacyEnds(version)
          /\ legacyOutcome' = [kind    |-> Legacy!LegacyIsDone(Legacy!StateOf(version), version),
                               version |-> version]
          /\ legacyPc' = IF legacyOutcome'.kind = "BadState" THEN "diagnose" ELSE "idle"
    BY <1>5 DEF Legacy!LegacyDecide
  <2>2. /\ UNCHANGED <<log, legacyOperation, legacyStart, legacySeen>> /\ legacyPc = "handle"
        /\ Legacy!Waiting /\ legacyLastVersion' = legacySeen /\ legacyLastVersion <= legacySeen
    BY <1>0, <1>5 DEF Legacy!LegacyDecide, LegacyStages, Legacy!Waiting
  <2>3. CASE ~Legacy!Promised \/ legacyPc' = "diagnose"
    BY <1>0, <2>2, <2>3 DEF Legacy!LegacyVerdict!vars, Legacy!Promised, Legacy!Waiting, Legacy!Waited
  <2>4. CASE Legacy!Promised /\ legacyPc' = "idle"
    <3>1. /\ version \in legacyStart + 1 .. legacySeen /\ FirstToDecide(version)
          /\ Legacy!LegacyIsDone(Legacy!StateOf(version), version) = Meaning(version)
      BY <2>1, <2>2, <2>4, PollFindsTheFirst, LooksAtTheNew
    <3>2. Legacy!LegacyVerdict!Report
      BY <1>0, <2>1, <2>2, <2>4, <3>1, LegacyFirstIsReported
    <3> QED
      BY <3>2 DEF Legacy!LegacyVerdict!Next
  <2> QED
    BY <2>1, <2>3, <2>4
<1>6. CASE Legacy!LegacyGiveUp \/ Legacy!LegacyPollAgain
  <2>1. /\ UNCHANGED <<log, legacyOperation, legacyStart, legacySeen>>
        /\ legacyPc = "handle" /\ legacyPc' \in {"diagnose", "poll"}
        /\ legacyLastVersion' = legacySeen /\ legacyLastVersion <= legacySeen
    BY <1>0, <1>6 DEF Legacy!LegacyGiveUp, Legacy!LegacyPollAgain, LegacyStages
  <2> QED
    BY <1>0, <2>1 DEF Legacy!LegacyVerdict!vars, Legacy!Promised, Legacy!Waiting, Legacy!Waited
<1>7. CASE Legacy!ReportFailure
  <2>1. /\ UNCHANGED <<log, legacyOperation, legacyStart, legacyLastVersion, legacySeen, legacyOutcome>>
        /\ legacyPc = "diagnose" /\ legacyPc' = "idle" /\ Legacy!Waiting
        /\ legacySeen <= Len(log) /\ legacyLastVersion <= Len(log)
    BY <1>0, <1>7 DEF Legacy!ReportFailure, LegacyStages, Legacy!Waiting
  <2>2. CASE ~Legacy!Promised
    BY <2>1, <2>2 DEF Legacy!LegacyVerdict!vars, Legacy!Promised
  <2>3. CASE /\ Legacy!Promised
             /\ legacyOutcome = [kind |-> "Timeout", version |-> legacySeen]
             /\ legacyLastVersion = legacySeen
             /\ \A version \in legacyStart + 1 .. legacySeen : Ignored(version)
    <3>1. \A version \in legacyStart + 1 .. legacySeen : ~Legacy!LegacyVerdict!Decisive(version)
      BY <1>0, <2>1, <2>3, LegacySameVerdict
    <3>2. Legacy!LegacyVerdict!GiveUp
      BY <1>0, <2>1, <2>3, <3>1, LegacyWaitIsNotNothing
         DEF Legacy!LegacyVerdict!GiveUp, Legacy!Promised, Legacy!Waiting, Legacy!Waited
    <3> QED
      BY <3>2 DEF Legacy!LegacyVerdict!Next
  <2>4. ASSUME Legacy!Promised, NEW version \in legacyStart + 1 .. legacySeen,
               FirstToDecide(version), legacyLastVersion = legacySeen,
               legacyOutcome = [kind |-> Meaning(version), version |-> version]
        PROVE  Legacy!LegacyVerdict!Report
    BY <1>0, <2>1, <2>4, LegacyFirstIsReported
  <2> QED
    BY <1>0, <2>1, <2>2, <2>3, <2>4 DEF LegacyVerdictIsFirst, Legacy!LegacyVerdict!Next
<1>8. CASE Legacy!LegacyCreate
  <2>1. PICK state \in States : log = <<>> /\ log' = <<state>>
    BY <1>8 DEF Legacy!LegacyCreate
  <2>2. log' = Append(log, state)
    BY <2>1
  <2>3. legacyStart = 0 /\ legacyStart' = 0
    BY <1>0, <1>8 DEF Legacy!LegacyCreate, LegacyStages
  <2>4. Legacy!LegacyVerdict!Grow
    BY <2>2, <2>3 DEF Legacy!LegacyVerdict!Grow, Legacy!Promised
  <2> QED
    BY <2>4 DEF Legacy!LegacyVerdict!Next
<1>9. CASE Legacy!RequestChange
  <2>1. PICK state \in States : log' = Append(log, state)
    BY <1>9 DEF Legacy!RequestChange
  <2>2. /\ legacyOperation.target \in States /\ legacyOperation.target # Nothing
        /\ legacySeen = 0 /\ legacyStart = 0 /\ log # <<>>
    BY <1>0, <1>9, BadAssumption DEF Legacy!RequestChange, LegacyStages
  <2>3. /\ legacyPc = "request" /\ legacyPc' = "poll" /\ UNCHANGED <<legacyOperation, legacySeen>>
        /\ legacyStart' = Len(log) /\ legacyLastVersion' = Len(log)
    BY <1>9, <2>2 DEF Legacy!RequestChange, Legacy!StartWait
  <2>4. log' \in Seq(States) /\ Len(log') = Len(log) + 1
    BY <1>0, <2>1, Appended
  <2>5. CASE legacyOperation.version = Nothing /\ legacyOperation.target \notin Bad
    <3>1. [target |-> legacyOperation.target, version |-> Nothing, start |-> legacyStart']
            \in [target : States, version : Nat \cup {Nothing}, start : 1 .. Len(log')]
      BY <1>0, <2>2, <2>3, <2>4
    <3>2. Legacy!LegacyVerdict!Start
      BY <1>0, <2>1, <2>2, <2>3, <2>5, <3>1
         DEF Legacy!LegacyVerdict!Start, Legacy!LegacyVerdict!None, Legacy!None,
             Legacy!Promised, Legacy!Waiting, Legacy!Waited
    <3> QED
      BY <3>2 DEF Legacy!LegacyVerdict!Next
  <2>6. CASE ~(legacyOperation.version = Nothing /\ legacyOperation.target \notin Bad)
    <3>1. Legacy!LegacyVerdict!Grow
      BY <2>1, <2>3, <2>6 DEF Legacy!LegacyVerdict!Grow, Legacy!Promised
    <3> QED
      BY <3>1 DEF Legacy!LegacyVerdict!Next
  <2> QED
    BY <2>5, <2>6
<1> QED
  BY <1>1, <1>2, <1>3, <1>4, <1>5, <1>6, <1>7, <1>8, <1>9 DEF Legacy!LegacyStep

\* The wait of the legacy client, after an update or a delete, reports the first version
\* that decides as well, although it looks at the newest state first.
THEOREM LegacyClientImplementsVerdict == ClientsSpec => LegacyImplementsVerdict
<1>1. ClientsInit => Legacy!LegacyVerdict!Init
  BY DEF ClientsInit, Legacy!Init, Legacy!LegacyVerdict!Init, Legacy!LegacyVerdict!None, Legacy!None,
         Legacy!Promised, Legacy!Waiting, Legacy!Waited
<1>2. LegacyInv /\ [ClientsNext]_allVars =>
        [Legacy!LegacyVerdict!Next]_(Legacy!LegacyVerdict!vars)
  BY LegacyOrElse, LegacyElsewhereGrows, LegacyImplements
<1> QED
  BY <1>1, <1>2, LegacyInvariant, PTL
     DEF ClientsSpec, LegacyImplementsVerdict, Legacy!LegacyImplementsVerdict, Legacy!LegacyVerdict!Spec
====
