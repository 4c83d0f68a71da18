-------------------------- MODULE OrchestratorProofs --------------------------
(***************************************************************************)
(* Proofs about the fixtures and about RemoteOrchestrator, for any number  *)
(* of tests, versions, names and modules: a session with its lab,          *)
(* environment and load (Session), the waits for a deployment              *)
(* (DeploymentWait), and the project's folder on the orchestrator          *)
(* (ProjectFolder).  Each part has its inductive invariant: SessionInv,    *)
(* DeploymentInv, FolderInv.                                               *)
(***************************************************************************)
EXTENDS Session, DeploymentPromises, FolderPromises, SequenceTheorems, TLAPS

-----------------------------------------------------------------------------
\* Session: the lab, the environment, the load and the fixtures around them.

\* The lab in containers.
ContainerInv ==
    /\ cwd \in {"none", "partial", "ready"} /\ lab \in {"none", "partial", "up"}
    /\ at \in {"new", "pull", "up", "ps", "entered", "down", "rmtree", "left"}
    /\ at = "new" => cwd = "none"
    /\ at \in {"new", "pull", "rmtree"} => lab = "none"
    /\ at \in {"pull", "up", "ps", "entered", "down"} => cwd = "ready"
    /\ at \in {"ps", "entered"} => lab = "up"
    /\ at \in {"new", "pull", "up", "ps", "entered"} => error = "none"
    /\ LabHasItsFolder

\* The load: a request that is about to be sent is the first one since the flag was
\* reset, and the thread that was joined in time has ended.
LoadInv ==
    /\ late \in {0, 1}
    /\ running => late = 0
    /\ late = 1 => thread # "send"
    /\ user \in {"out", "in"} => running
    /\ user = "left" => timedOut \/ (thread = "done" /\ raised = exception)

\* What was read, and what is to be updated, whatever the others do.
Renamed == updates.name = IF asked.name \in {Nothing, before.name} THEN Nothing ELSE asked.name
Moved   == updates.project = Or(asked.project, Default)
Read ==
    /\ conf \in {"project", "modify"} => current # Nothing
    /\ current # Nothing => environment # Nothing
    /\ conf \in {"create project", "create"} => Moved

\* Left alone, what was read is what there is, and the update makes of it what is wanted.
Configuring ==
    edits = 0 =>
        /\ conf \in {"get", "project", "projects", "create project", "create", "modify"} =>
              environment = before
        /\ conf \in {"get", "project"} => updates = NoUpdates
        /\ conf \in {"project", "projects", "create project", "create", "modify"} => current = before
        /\ conf = "create" => before = Nothing
        /\ conf \in {"projects", "create project", "modify"} /\ before # Nothing => Renamed
        /\ conf \in {"projects", "create project"} /\ before # Nothing =>
              asked.project \notin {Nothing, before.project}
        /\ conf = "create" => updates.project \in projects
        /\ conf = "modify" =>
              \/ Moved /\ asked.project # Nothing /\ updates.project \in projects
              \/ updates.project = Nothing /\ asked.project \in {Nothing, before.project}

EnvironmentInv ==
    /\ edits \in Nat
    /\ environment \in Environments \cup {Nothing} /\ before \in Environments \cup {Nothing}
    /\ asked \in Asked /\ projects \subseteq Names
    /\ current \in Environments \cup {Nothing}
    /\ updates \in [name : Names \cup {Nothing}, project : Names \cup {Nothing}]
    /\ stage \in {"start", "enter", "reach"} => conf = "out" /\ updates = NoUpdates
    /\ Read /\ Configuring /\ ConfiguredAtOnce

\* Where the session is with its container, and with what it has to clean up.
Outside == IF options.container THEN "entered" ELSE "new"
StageInv ==
    /\ options \in [container : BOOLEAN, noClean : BOOLEAN, noHalt : BOOLEAN]
    /\ failed \in BOOLEAN /\ halted \in BOOLEAN /\ inventory \in BOOLEAN
    /\ stage \in {"start", "enter", "reach", "configure", "check", "clear", "ready", "settings",
                  "test", "clean", "halt", "exit", "over"}
    /\ error # "none" => failed
    /\ stage = "start" => at = "new"
    /\ stage = "enter" =>
          options.container /\ at \notin {"entered", "left"} /\ (at \in {"down", "rmtree"} => failed)
    /\ stage \notin {"start", "enter", "exit", "over"} => at = Outside
    /\ stage = "exit" => options.container /\ at \in {"entered", "down", "rmtree"}
    /\ stage = "over" => at = IF options.container THEN "left" ELSE "new"
    /\ stage \in {"exit", "over"} /\ at \in {"down", "rmtree"} /\ ~failed => ~options.noClean
    /\ stage = "over" /\ ~failed /\ options.container =>
          IF options.noClean THEN lab = "up" ELSE lab = "none" /\ cwd = "none"
    /\ stage \in {"halt", "exit", "over"} /\ ~failed => (inventory => options.noClean)
    /\ stage \in {"exit", "over"} /\ ~failed => halted \/ options.noHalt

SessionInv == ContainerInv /\ LoadInv /\ EnvironmentInv /\ StageInv

\* The lab: each command, its failure and its interruption.
LEMMA ContainerKeeps ==
    ASSUME ContainerInv,
           \/ Container!ContainerStep \/ Container!Exit(options.noClean) \/ Container!Interrupt
           \/ UNCHANGED containerVars
    PROVE  ContainerInv'
<1> USE DEF ContainerInv, LabHasItsFolder, Container!LabHasItsFolder, Container!Leave, Container!CleanUp
<1>1. CASE Container!PrepareFolder
  BY <1>1 DEF Container!PrepareFolder
<1>2. CASE Container!Pull
  BY <1>2 DEF Container!Pull
<1>3. CASE Container!Up
  BY <1>3 DEF Container!Up
<1>4. CASE Container!Ps
  BY <1>4 DEF Container!Ps
<1>5. CASE Container!Down
  BY <1>5 DEF Container!Down
<1>6. CASE Container!RemoveFolder
  BY <1>6 DEF Container!RemoveFolder
<1>7. CASE Container!Exit(options.noClean)
  BY <1>7 DEF Container!Exit
<1>8. CASE Container!Interrupt
  BY <1>8 DEF Container!Interrupt
<1>9. CASE Container!CannotStart
  BY <1>9 DEF Container!CannotStart
<1>10. CASE UNCHANGED containerVars
  BY <1>10 DEF containerVars
<1> QED
  BY <1>1, <1>2, <1>3, <1>4, <1>5, <1>6, <1>7, <1>8, <1>9, <1>10
  DEF Container!ContainerStep

\* The load: the thread, and the test that uses it.
LEMMA LoadKeeps ==
    ASSUME LoadInv,
           \/ Generator!Load \/ Generator!EnterLoad \/ Generator!ExitLoad \/ Generator!Join
           \/ UNCHANGED loadVars
    PROVE  LoadInv'
<1> USE DEF LoadInv
<1>1. CASE Generator!Check
  BY <1>1 DEF Generator!Check
<1>2. CASE Generator!Send
  BY <1>2 DEF Generator!Send
<1>3. CASE Generator!RequestEnds
  BY <1>3 DEF Generator!RequestEnds
<1>4. CASE Generator!Sleep
  BY <1>4 DEF Generator!Sleep
<1>5. CASE Generator!LoadBreaks
  BY <1>5 DEF Generator!LoadBreaks
<1>6. CASE Generator!EnterLoad
  BY <1>6 DEF Generator!EnterLoad
<1>7. CASE Generator!ExitLoad
  BY <1>7 DEF Generator!ExitLoad
<1>8. CASE Generator!Join
  BY <1>8 DEF Generator!Join
<1>9. CASE UNCHANGED loadVars
  BY <1>9 DEF loadVars
<1> QED
  BY <1>1, <1>2, <1>3, <1>4, <1>5, <1>6, <1>7, <1>8, <1>9 DEF Generator!Load, Generator!ThreadStep

\* The environment is left alone, and so is the part of the session that it depends on.
LEMMA SameEnvironment ==
    ASSUME EnvironmentInv, UNCHANGED environmentVars,
           stage' \in {"start", "enter", "reach"} => stage \in {"start", "enter", "reach"}
    PROVE  EnvironmentInv'
<1>1. UNCHANGED <<environment, projects, asked, conf, current, updates, edits, before>>
  BY DEF environmentVars
<1>2. Read' /\ Configuring' /\ ConfiguredAtOnce'
  BY <1>1 DEF EnvironmentInv, Read, Configuring, ConfiguredAtOnce, Renamed, Moved, Wanted, Or
<1> QED
  BY <1>1, <1>2 DEF EnvironmentInv

Pairs == [name : Names \cup {Nothing}, project : Names \cup {Nothing}]

\* The requests of the configuration.
LEMMA ConfigureKeeps ==
    ASSUME EnvironmentInv, ConfigureStep \/ ConfigureFails,
           stage' \notin {"start", "enter", "reach"}
    PROVE  EnvironmentInv'
<1> USE NamesAssumption, NothingAssumption
<1> DEFINE Types == /\ edits' \in Nat
                    /\ environment' \in Environments \cup {Nothing}
                    /\ before' \in Environments \cup {Nothing}
                    /\ asked' \in Asked /\ projects' \subseteq Names
                    /\ current' \in Environments \cup {Nothing}
                    /\ updates' \in Pairs
<1>a. /\ edits \in Nat /\ Read /\ Configuring /\ ConfiguredAtOnce
      /\ environment \in Environments \cup {Nothing} /\ before \in Environments \cup {Nothing}
      /\ asked \in Asked /\ projects \subseteq Names
      /\ current \in Environments \cup {Nothing}
      /\ updates \in Pairs
  BY DEF EnvironmentInv, Pairs
<1>b. /\ asked.name \in Names \cup {Nothing} /\ asked.project \in Names \cup {Nothing}
      /\ before # Nothing => before.name \in Names /\ before.project \in Names
      /\ updates.name \in Names \cup {Nothing} /\ updates.project \in Names \cup {Nothing}
      /\ current # Nothing => current.name \in Names
      /\ environment # Nothing => environment.project \in Names
      /\ Default \in Names
  BY <1>a DEF Asked, Environments, Pairs
<1> SUFFICES Types /\ Read' /\ Configuring' /\ ConfiguredAtOnce'
  BY DEF EnvironmentInv, Pairs
<1>1. CASE GetEnvironment
  <2>1. /\ conf = "get" /\ current' = environment
        /\ conf' \in {IF environment = Nothing THEN "projects" ELSE "project", "failed"}
        /\ UNCHANGED <<environment, projects, updates, asked, edits, before>>
    BY <1>1 DEF GetEnvironment, Answered
  <2>2. Types
    BY <1>a, <2>1
  <2>3. Read'
    BY <2>1 DEF Read
  <2>4. Configuring'
    BY <1>a, <2>1 DEF Configuring, Renamed, Moved, Or
  <2>5. ConfiguredAtOnce'
    BY <1>a, <2>1 DEF Configuring, ConfiguredAtOnce, Wanted, Or
  <2> QED
    BY <2>2, <2>3, <2>4, <2>5
<1>2. CASE GetProject
  <2> DEFINE rename == asked.name \notin {Nothing, current.name}
             move == asked.project \notin {Nothing, environment.project}
  <2>1. /\ conf = "project"
        /\ updates' = [updates EXCEPT !.name = IF rename THEN asked.name ELSE Nothing]
        /\ conf' \in {IF move THEN "projects" ELSE IF rename THEN "modify" ELSE "done", "failed"}
        /\ UNCHANGED <<environment, projects, current, asked, edits, before>>
    BY <1>2 DEF GetProject, Answered
  <2>2. /\ updates'.name = IF rename THEN asked.name ELSE Nothing
        /\ updates'.project = updates.project
        /\ updates' \in Pairs
    BY <1>a, <1>b, <2>1 DEF Pairs
  <2>3. Types
    BY <1>a, <2>1, <2>2
  <2>4. edits = 0 => /\ environment = before /\ current = before /\ before # Nothing
                     /\ updates = NoUpdates /\ updates.project = Nothing
    BY <1>a, <2>1 DEF Configuring, NoUpdates, Read
  <2>5. Read'
    BY <1>a, <2>1 DEF Read
  <2>6. Configuring'
    BY <2>1, <2>2, <2>4 DEF Configuring, Renamed, Moved, Or
  <2>7. edits = 0 /\ ~rename /\ ~move => before = Wanted(before)
    <3> SUFFICES ASSUME edits = 0, ~rename, ~move PROVE before = Wanted(before)
      OBVIOUS
    <3>1. before \in Environments
      BY <1>a, <2>4
    <3>2. /\ Or(asked.name, before.name) = before.name
          /\ Or(asked.project, before.project) = before.project
      BY <2>4 DEF Or
    <3>3. Wanted(before) = [name |-> before.name, project |-> before.project]
      BY <2>4, <3>2 DEF Wanted
    <3> QED
      BY <3>1, <3>3 DEF Environments
  <2>8. ConfiguredAtOnce'
    <3>1. Wanted(before)' = Wanted(before)
      BY <2>1 DEF Wanted, Or
    <3>2. edits = 0 /\ conf' = "done" => environment = Wanted(before)
      BY <2>1, <2>4, <2>7
    <3> QED
      BY <1>a, <2>1, <2>4, <3>1, <3>2 DEF ConfiguredAtOnce
  <2> QED
    BY <2>3, <2>5, <2>6, <2>8
<1>3. CASE ListProjects
  <2> DEFINE wanted == Or(asked.project, Default)
  <2>1. /\ conf = "projects"
        /\ updates' = [updates EXCEPT !.project = wanted]
        /\ conf' \in {IF wanted \notin projects THEN "create project"
                      ELSE IF current = Nothing THEN "create" ELSE "modify", "failed"}
        /\ UNCHANGED <<environment, projects, current, asked, edits, before>>
    BY <1>3 DEF ListProjects, Answered
  <2>2. wanted \in Names
    BY <1>b DEF Or
  <2>3. /\ updates'.name = updates.name /\ updates'.project = wanted
        /\ updates' \in Pairs
    BY <1>a, <2>1, <2>2 DEF Pairs
  <2>4. Types
    BY <1>a, <2>1, <2>3
  <2>5. edits = 0 => /\ environment = before /\ current = before
                     /\ before # Nothing =>
                           Renamed /\ asked.project \notin {Nothing, before.project}
    BY <1>a, <2>1 DEF Configuring
  <2>6. Read'
    BY <1>a, <2>1, <2>3 DEF Read, Moved
  <2>7. Configuring'
    <3> SUFFICES ASSUME edits = 0 PROVE Configuring'
      BY <2>1 DEF Configuring
    <3>1. Moved' /\ (before # Nothing => Renamed')
      BY <2>1, <2>3, <2>5 DEF Moved, Renamed
    <3>2. conf' \in {"create", "modify"} => updates'.project \in projects'
      <4>1. conf' \in {"create", "modify"} => wanted \in projects
        BY <2>1
      <4>2. updates'.project = wanted
        BY <2>3
      <4>3. projects' = projects
        BY <2>1
      <4> QED
        BY <4>1, <4>2, <4>3, Zenon
    <3>3. conf' = "create" => before' = Nothing
      BY <2>1, <2>5
    <3>4. conf' = "modify" => before # Nothing
      BY <2>1, <2>5
    <3> QED
      BY <2>1, <2>5, <3>1, <3>2, <3>3, <3>4 DEF Configuring
  <2>8. ConfiguredAtOnce'
    BY <1>a, <2>1 DEF ConfiguredAtOnce, Wanted, Or
  <2> QED
    BY <2>4, <2>6, <2>7, <2>8
<1>4. CASE CreateProject
  <2>1. /\ conf = "create project" /\ projects' = projects \cup {updates.project}
        /\ conf' \in {IF current = Nothing THEN "create" ELSE "modify", "failed"}
        /\ UNCHANGED <<environment, current, updates, asked, edits, before>>
    BY <1>4 DEF CreateProject, Answered
  <2>2. Moved /\ updates.project \in Names
    BY <1>a, <1>b, <2>1 DEF Read, Moved, Or
  <2>3. Types
    BY <1>a, <2>1, <2>2
  <2>4. edits = 0 => /\ environment = before /\ current = before
                     /\ before # Nothing =>
                           Renamed /\ asked.project \notin {Nothing, before.project}
    BY <1>a, <2>1 DEF Configuring
  <2>5. Read'
    BY <1>a, <2>1, <2>2 DEF Read, Moved
  <2>6. Configuring'
    BY <2>1, <2>2, <2>4 DEF Configuring, Renamed, Moved, Or
  <2>7. ConfiguredAtOnce'
    BY <1>a, <2>1 DEF ConfiguredAtOnce, Wanted, Or
  <2> QED
    BY <2>3, <2>5, <2>6, <2>7
<1>5. CASE CreateEnvironment
  <2>1. /\ conf = "create"
        /\ environment' = [name |-> Or(asked.name, Default), project |-> updates.project]
        /\ conf' \in {"done", "failed"}
        /\ UNCHANGED <<projects, current, updates, asked, edits, before>>
    BY <1>5 DEF CreateEnvironment, Answered
  <2>2. updates.project = Or(asked.project, Default)
    BY <1>a, <2>1 DEF Read, Moved
  <2>3. Or(asked.name, Default) \in Names /\ updates.project \in Names
    BY <1>b, <2>2 DEF Or
  <2>4. environment' \in Environments
    BY <2>1, <2>3 DEF Environments
  <2>5. Types
    BY <1>a, <2>1, <2>4
  <2>6. Read'
    BY <2>1, <2>4 DEF Read
  <2>7. Configuring'
    BY <2>1 DEF Configuring
  <2>8. ConfiguredAtOnce'
    <3>1. edits = 0 => before = Nothing /\ updates.project \in projects
      BY <1>a, <2>1 DEF Configuring
    <3>2. edits = 0 => environment' = Wanted(before)
      BY <2>1, <2>2, <3>1 DEF Wanted
    <3>3. Wanted(before)' = Wanted(before)
      BY <2>1 DEF Wanted, Or
    <3>4. environment'.project = updates.project
      BY <2>1
    <3> QED
      BY <2>1, <3>1, <3>2, <3>3, <3>4 DEF ConfiguredAtOnce
  <2> QED
    BY <2>5, <2>6, <2>7, <2>8
<1>6. CASE ModifyEnvironment
  <2>1. /\ conf = "modify"
        /\ environment' = [name |-> Or(updates.name, current.name),
                           project |-> Or(updates.project, environment.project)]
        /\ conf' \in {"done", "failed"}
        /\ UNCHANGED <<projects, current, updates, asked, edits, before>>
    BY <1>6 DEF ModifyEnvironment, Answered
  <2>2. current # Nothing /\ environment # Nothing
    BY <1>a, <2>1 DEF Read
  <2>3. Or(updates.name, current.name) \in Names /\ Or(updates.project, environment.project) \in Names
    BY <1>b, <2>2 DEF Or
  <2>4. environment' \in Environments
    BY <2>1, <2>3 DEF Environments
  <2>5. Types
    BY <1>a, <2>1, <2>4
  <2>6. Read'
    BY <2>1, <2>4 DEF Read
  <2>7. Configuring'
    BY <2>1 DEF Configuring
  <2>8. ConfiguredAtOnce'
    <3>1. edits = 0 => /\ environment = before /\ current = before /\ before # Nothing /\ Renamed
                       /\ environment.project \in projects
      BY <1>a, <2>1, <2>2 DEF Configuring, ConfiguredAtOnce
    <3>2. edits = 0 => Or(updates.name, before.name) = Or(asked.name, before.name)
      BY <1>b, <3>1 DEF Renamed, Or
    <3>3. edits = 0 => /\ Or(updates.project, before.project) = Or(asked.project, before.project)
                       /\ Or(updates.project, before.project) \in projects
      BY <1>a, <1>b, <2>1, <3>1 DEF Configuring, Moved, Or
    <3>4. edits = 0 => environment' = Wanted(before)
      BY <2>1, <3>1, <3>2, <3>3 DEF Wanted
    <3>5. Wanted(before)' = Wanted(before)
      BY <2>1 DEF Wanted, Or
    <3>6. environment'.project = Or(updates.project, environment.project)
      BY <2>1
    <3> QED
      BY <2>1, <3>1, <3>3, <3>4, <3>5, <3>6 DEF ConfiguredAtOnce
  <2> QED
    BY <2>5, <2>6, <2>7, <2>8
<1>7. CASE ConfigureFails
  <2>1. /\ conf' = "failed"
        /\ conf \in {"get", "project", "projects", "create project", "create", "modify"}
        /\ UNCHANGED <<environment, projects, asked, current, updates, edits, before>>
    BY <1>7 DEF ConfigureFails
  <2>2. Read' /\ Configuring'
    BY <1>a, <2>1 DEF Read, Configuring
  <2>3. ConfiguredAtOnce'
    BY <1>a, <2>1 DEF ConfiguredAtOnce, Wanted, Or
  <2> QED
    BY <1>a, <2>1, <2>2, <2>3
<1> QED
  BY <1>1, <1>2, <1>3, <1>4, <1>5, <1>6, <1>7 DEF ConfigureStep

\* The others: they never take the environment away.
LEMMA OthersKeep ==
    ASSUME EnvironmentInv, OthersAct
    PROVE  EnvironmentInv' /\ UNCHANGED <<containerVars, loadVars, inventory, halted, sessionVars>>
<1> USE NamesAssumption, NothingAssumption
<1>1. UNCHANGED <<containerVars, loadVars, inventory, halted, sessionVars>>
  BY DEF OthersAct
<1>2. /\ edits' = edits + 1 /\ UNCHANGED <<asked, conf, current, updates, before>>
      /\ \/ UNCHANGED <<environment, projects>>
         \/ \E name \in Names : projects' = projects \cup {name} /\ UNCHANGED environment
         \/ \E name \in Names, project \in projects :
               environment' = [name |-> name, project |-> project] /\ UNCHANGED projects
  BY DEF OthersAct, OthersEdit
<1>3. environment' \in Environments \/ UNCHANGED environment
  BY <1>2 DEF EnvironmentInv, Environments
<1>4. projects' \subseteq Names
  BY <1>2 DEF EnvironmentInv
<1>5. edits' \in Nat /\ edits' # 0
  BY <1>2 DEF EnvironmentInv
<1>6. Read'
  BY <1>2, <1>3 DEF EnvironmentInv, Read, Moved, Or
<1>7. Configuring' /\ ConfiguredAtOnce'
  BY <1>5 DEF Configuring, ConfiguredAtOnce
<1>8. stage' = stage
  BY <1>1 DEF sessionVars
<1> QED
  BY <1>1, <1>2, <1>3, <1>4, <1>5, <1>6, <1>7, <1>8 DEF EnvironmentInv

-----------------------------------------------------------------------------
\* The fixtures.  What a part of them does to the stage, with its container as it is.
LEMMA InitSession == Init => SessionInv
<1> SUFFICES ASSUME Init PROVE SessionInv
  OBVIOUS
<1> USE NamesAssumption, NothingAssumption
<1>1. ContainerInv
  BY DEF Init, Container!ContainerInit, ContainerInv, LabHasItsFolder, Container!LabHasItsFolder
<1>2. LoadInv
  BY DEF Init, Generator!LoadInit, LoadInv
<1>3. EnvironmentInv
  <2>1. /\ environment \in Environments \cup {Nothing} /\ before = environment
        /\ projects \subseteq Names /\ asked \in Asked /\ current = Nothing
        /\ updates = NoUpdates /\ conf = "out" /\ edits = 0
        /\ environment # Nothing => environment.project \in projects
    BY DEF Init
  <2>2. NoUpdates \in [name : Names \cup {Nothing}, project : Names \cup {Nothing}]
    BY DEF NoUpdates
  <2> QED
    BY <2>1, <2>2 DEF EnvironmentInv, Read, Configuring, ConfiguredAtOnce
<1>4. StageInv
  <2>1. /\ options \in [container : BOOLEAN, noClean : BOOLEAN, noHalt : BOOLEAN]
        /\ stage = "start" /\ failed = FALSE /\ at = "new" /\ error = "none"
        /\ halted = inventory /\ inventory = (environment # Nothing)
    BY DEF Init, Container!ContainerInit
  <2> QED
    BY <2>1 DEF StageInv
<1> QED
  BY <1>1, <1>2, <1>3, <1>4 DEF SessionInv

\* The container's own steps: the session enters with its lab, or fails, and leaves without.
LEMMA LabStep ==
    ASSUME SessionInv, ContainerRuns \/ ExitContainer \/ Interrupted
    PROVE  SessionInv'
<1>1. /\ stage \in {"enter", "exit"}
      /\ \/ Container!ContainerStep
         \/ stage = "exit" /\ Container!Exit(options.noClean)
         \/ Container!Interrupt
      /\ stage' = IF at' = "left" THEN "over" ELSE IF at' = "entered" THEN "reach" ELSE stage
      /\ failed' = (failed \/ error' # "none")
      /\ UNCHANGED <<environmentVars, loadVars, inventory, halted, protected, options, tries, tests>>
  BY DEF ContainerRuns, ExitContainer, Interrupted, AfterContainer, serverVars
<1>2. ContainerInv /\ LoadInv /\ EnvironmentInv /\ StageInv
  BY DEF SessionInv
<1>3. ContainerInv'
  BY <1>1, <1>2, ContainerKeeps
<1>4. LoadInv'
  BY <1>1, <1>2, LoadKeeps
<1>5. EnvironmentInv'
  <2>1. stage' \in {"start", "enter", "reach"} => stage \in {"start", "enter", "reach"}
    BY <1>1, <1>2 DEF StageInv, ContainerInv, Container!ContainerStep, Container!PrepareFolder, Container!Pull, Container!Up,
       Container!Ps, Container!Down, Container!CannotStart, Container!RemoveFolder,
       Container!Exit, Container!Interrupt, Container!Leave, Container!CleanUp
  <2> QED
    BY <1>1, <1>2, <2>1, SameEnvironment
<1>6. StageInv'
  <2> USE <1>1, <1>2 DEF StageInv, ContainerInv, Container!Leave, Container!CleanUp, Outside
  <2>1. CASE Container!PrepareFolder
    BY <2>1 DEF Container!PrepareFolder
  <2>2. CASE Container!Pull
    BY <2>2 DEF Container!Pull
  <2>3. CASE Container!Up
    BY <2>3 DEF Container!Up
  <2>4. CASE Container!Ps
    BY <2>4 DEF Container!Ps
  <2>5. CASE Container!Down
    BY <2>5 DEF Container!Down
  <2>6. CASE Container!RemoveFolder
    BY <2>6 DEF Container!RemoveFolder
  <2>7. CASE stage = "exit" /\ Container!Exit(options.noClean)
    BY <2>7 DEF Container!Exit
  <2>8. CASE Container!Interrupt
    BY <2>8 DEF Container!Interrupt
  <2>9. CASE Container!CannotStart
    BY <2>9 DEF Container!CannotStart
  <2> QED
    BY <2>1, <2>2, <2>3, <2>4, <2>5, <2>6, <2>7, <2>8, <2>9 DEF Container!ContainerStep
<1> QED
  BY <1>3, <1>4, <1>5, <1>6 DEF SessionInv

\* What the parts of the fixtures do to the stage: the session is given up, goes on with
\* a part that is not its last, is about to halt what it may keep, or has halted it.
Aborts ==
    /\ stage' = (IF options.container THEN "exit" ELSE "over") /\ failed' = TRUE
    /\ inventory' \in BOOLEAN /\ halted' \in BOOLEAN
GoesOn(stages) ==
    /\ stage' \in stages
    /\ failed' \in BOOLEAN /\ inventory' \in BOOLEAN /\ halted' \in BOOLEAN
Keeps ==
    /\ stage' = "halt" /\ failed' = failed /\ halted' = halted
    /\ inventory' \in BOOLEAN /\ (options.noClean \/ inventory' = FALSE)
Halts ==
    /\ stage = "halt" /\ stage' = IF options.container THEN "exit" ELSE "over"
    /\ failed' = failed /\ inventory' = inventory /\ halted' = (halted \/ ~options.noHalt)

LEMMA StageMoves ==
    ASSUME ContainerInv, StageInv, UNCHANGED containerVars, UNCHANGED options,
           stage \notin {"start", "enter", "reach", "exit", "over"},
           \/ Aborts \/ Keeps \/ Halts
           \/ GoesOn({"clear"}) \/ GoesOn({"ready"}) \/ GoesOn({"clean"}) \/ GoesOn({"test"})
           \/ GoesOn({"settings", "ready"}) \/ GoesOn({"test", "ready"})
    PROVE  StageInv'
<1>1. /\ options \in [container : BOOLEAN, noClean : BOOLEAN, noHalt : BOOLEAN]
      /\ options' = options /\ at' = at /\ error' = error /\ cwd' = cwd /\ lab' = lab
      /\ at = Outside /\ error = "none"
      /\ failed \in BOOLEAN /\ inventory \in BOOLEAN /\ halted \in BOOLEAN
  BY DEF StageInv, ContainerInv, containerVars, Outside
<1>2. CASE Aborts
  BY <1>1, <1>2 DEF Aborts, StageInv, Outside
<1>3. CASE Keeps
  BY <1>1, <1>3 DEF Keeps, StageInv, Outside
<1>4. CASE Halts
  BY <1>1, <1>4 DEF Halts, StageInv, Outside
<1>5. CASE GoesOn({"clear", "ready", "clean", "test", "settings"})
  BY <1>1, <1>5 DEF GoesOn, StageInv, Outside
<1> QED
  BY <1>2, <1>3, <1>4, <1>5 DEF GoesOn

\* A part of a fixture goes on, or fails; the server is cleared, resumed or halted.
LEMMA PartStep ==
    ASSUME SessionInv,
           \/ CheckProtected \/ ClearFirst \/ StartTest \/ ResumeEnvironment \/ EndTest
           \/ EndSession \/ ClearLast \/ HaltEnvironment \/ CreateServices
    PROVE  SessionInv'
<1>1. /\ UNCHANGED <<environmentVars, containerVars, loadVars, options>>
      /\ stage \notin {"start", "enter", "reach", "configure", "exit", "over"}
      /\ stage' \notin {"start", "enter", "reach"}
  BY DEF CheckProtected, ClearFirst, StartTest, ResumeEnvironment, EndTest, EndSession, ClearLast,
         HaltEnvironment, CreateServices, Part, GoOn, Abort
<1>2. ContainerInv /\ LoadInv /\ EnvironmentInv /\ StageInv
  BY DEF SessionInv
<1>3. ContainerInv'
  BY <1>1, <1>2, ContainerKeeps
<1>4. LoadInv'
  BY <1>1, <1>2, LoadKeeps
<1>5. EnvironmentInv'
  BY <1>1, <1>2, SameEnvironment
<1>6. StageInv'
  <2>1. failed \in BOOLEAN /\ halted \in BOOLEAN /\ inventory \in BOOLEAN
    BY <1>2 DEF StageInv
  <2>2. CASE CheckProtected
    <3>1. Aborts \/ GoesOn({"clear"})
      BY <2>1, <2>2 DEF CheckProtected, Part, Abort, GoOn, Aborts, GoesOn
    <3> QED
      BY <1>1, <1>2, <3>1, StageMoves
  <2>3. CASE ClearFirst
    <3>1. Aborts \/ GoesOn({"ready"})
      BY <2>1, <2>3 DEF ClearFirst, EnvironmentClear, Part, Abort, GoOn, Aborts, GoesOn
    <3> QED
      BY <1>1, <1>2, <3>1, StageMoves
  <2>4. CASE StartTest
    <3>1. GoesOn({"settings", "ready"})
      BY <2>1, <2>4 DEF StartTest, EnvironmentClear, GoOn, GoesOn
    <3> QED
      BY <1>1, <1>2, <3>1, StageMoves
  <2>5. CASE ResumeEnvironment
    <3>1. GoesOn({"test", "ready"})
      BY <2>1, <2>5 DEF ResumeEnvironment, Part, GoOn, GoesOn
    <3> QED
      BY <1>1, <1>2, <3>1, StageMoves
  <2>6. CASE EndTest
    <3>1. GoesOn({"ready"})
      BY <2>1, <2>6 DEF EndTest, Part, GoesOn
    <3> QED
      BY <1>1, <1>2, <3>1, StageMoves
  <2>7. CASE EndSession
    <3>1. Aborts \/ GoesOn({"clean"}) \/ Keeps
      BY <2>1, <2>7 DEF EndSession, Part, Abort, GoOn, Aborts, GoesOn, Keeps
    <3> QED
      BY <1>1, <1>2, <3>1, StageMoves
  <2>8. CASE ClearLast
    <3>1. Aborts \/ Keeps
      BY <2>1, <2>8 DEF ClearLast, EnvironmentClear, Part, Abort, GoOn, Aborts, Keeps
    <3> QED
      BY <1>1, <1>2, <3>1, StageMoves
  <2>9. CASE HaltEnvironment
    <3>1. Aborts \/ Halts
      BY <2>1, <2>9 DEF HaltEnvironment, Part, Abort, GoOn, Aborts, Halts
    <3> QED
      BY <1>1, <1>2, <3>1, StageMoves
  <2>10. CASE CreateServices
    <3>1. GoesOn({"test"})
      BY <2>1, <2>10 DEF CreateServices, Part, GoesOn
    <3> QED
      BY <1>1, <1>2, <3>1, StageMoves
  <2> QED
    BY <2>2, <2>3, <2>4, <2>5, <2>6, <2>7, <2>8, <2>9, <2>10
<1> QED
  BY <1>3, <1>4, <1>5, <1>6 DEF SessionInv

\* The session reaches the server, and configures its environment.
LEMMA AccessStep ==
    ASSUME SessionInv, Start \/ Reach \/ ConfigureRuns
    PROVE  SessionInv'
<1>1. UNCHANGED <<containerVars, loadVars, inventory, halted, protected, options>>
  BY DEF Start, Reach, ConfigureRuns, serverVars
<1>2. ContainerInv /\ LoadInv /\ EnvironmentInv /\ StageInv
  BY DEF SessionInv
<1>3. ContainerInv'
  BY <1>1, <1>2, ContainerKeeps
<1>4. LoadInv'
  BY <1>1, <1>2, LoadKeeps
<1>5. EnvironmentInv'
  <2>1. CASE Start
    BY <1>2, <2>1, SameEnvironment DEF Start
  <2>2. CASE Reach
    <3>1. /\ UNCHANGED <<environment, projects, asked, current, updates, edits>>
          /\ stage = "reach"
          /\ \/ stage' = "configure" /\ conf' = "get" /\ before' = environment
             \/ UNCHANGED <<conf, before>>
      BY <2>2 DEF Reach
    <3>2. conf = "out" /\ updates = NoUpdates /\ environment \in Environments \cup {Nothing}
      BY <1>2, <3>1 DEF EnvironmentInv
    <3>3. Read' /\ Configuring' /\ ConfiguredAtOnce'
      BY <1>2, <3>1, <3>2 DEF EnvironmentInv, Read, Configuring, ConfiguredAtOnce, Renamed, Moved,
                              Wanted, Or
    <3>4. stage' \in {"start", "enter", "reach"} => conf' = "out" /\ updates' = NoUpdates
      BY <3>1, <3>2
    <3> QED
      BY <1>2, <3>1, <3>2, <3>3, <3>4 DEF EnvironmentInv
  <2>3. CASE ConfigureRuns
    <3>1. stage' \notin {"start", "enter", "reach"} /\ (ConfigureStep \/ ConfigureFails)
      BY <2>3 DEF ConfigureRuns, Abort, GoOn
    <3> QED
      BY <1>2, <3>1, ConfigureKeeps
  <2> QED
    BY <2>1, <2>2, <2>3
<1>6. StageInv'
  <2> USE <1>1, <1>2 DEF StageInv, Outside, GoOn, Abort, containerVars
  <2>1. CASE Start
    BY <2>1 DEF Start
  <2>2. CASE Reach
    BY <2>2 DEF Reach
  <2>3. CASE ConfigureRuns
    BY <2>3 DEF ConfigureRuns
  <2> QED
    BY <2>1, <2>2, <2>3
<1> QED
  BY <1>3, <1>4, <1>5, <1>6 DEF SessionInv

\* The load, on both sides, and what leaves all but the environment alone.
LEMMA LoadStep ==
    ASSUME SessionInv, UseLoad \/ LeaveLoad \/ LoadRuns \/ UNCHANGED vars
    PROVE  SessionInv'
<1>1. /\ UNCHANGED <<environmentVars, containerVars, inventory, halted, protected, options, stage>>
      /\ failed' = failed \/ failed' = TRUE \/ failed' = (failed \/ raised')
      /\ \/ Generator!Load \/ Generator!EnterLoad \/ Generator!ExitLoad \/ Generator!Join
         \/ UNCHANGED loadVars
  BY DEF UseLoad, LeaveLoad, LoadRuns, vars, serverVars, sessionVars
<1>2. ContainerInv /\ LoadInv /\ EnvironmentInv /\ StageInv
  BY DEF SessionInv
<1>3. ContainerInv'
  BY <1>1, <1>2, ContainerKeeps
<1>4. LoadInv'
  BY <1>1, <1>2, LoadKeeps
<1>5. EnvironmentInv'
  BY <1>1, <1>2, SameEnvironment
<1>6. StageInv'
  <2>1. /\ options' = options /\ at' = at /\ error' = error /\ cwd' = cwd /\ lab' = lab
        /\ stage' = stage /\ inventory' = inventory /\ halted' = halted
    BY <1>1 DEF containerVars
  <2>2. CASE failed' = failed
    BY <1>2, <2>1, <2>2 DEF StageInv, Outside
  <2>3. CASE failed' = TRUE
    BY <1>2, <2>1, <2>3 DEF StageInv, Outside
  <2>4. failed' = failed \/ failed' = TRUE
    BY <1>1, <1>2 DEF StageInv
  <2> QED
    BY <2>2, <2>3, <2>4
<1> QED
  BY <1>3, <1>4, <1>5, <1>6 DEF SessionInv

LEMMA NextSession == SessionInv /\ [Next]_vars => SessionInv'
<1> SUFFICES ASSUME SessionInv, [Next]_vars PROVE SessionInv'
  OBVIOUS
<1>1. CASE OthersAct
  <2>1. /\ EnvironmentInv'
        /\ UNCHANGED <<containerVars, loadVars, inventory, halted, sessionVars>>
    BY <1>1, OthersKeep DEF SessionInv
  <2>2. ContainerInv' /\ LoadInv'
    BY <2>1, ContainerKeeps, LoadKeeps DEF SessionInv
  <2>3. StageInv'
    BY <2>1 DEF SessionInv, StageInv, Outside, sessionVars, containerVars
  <2> QED
    BY <2>1, <2>2, <2>3 DEF SessionInv
<1>2. CASE ~OthersAct
  BY <1>2, LabStep, PartStep, AccessStep, LoadStep DEF Next, FixtureStep
<1> QED
  BY <1>1, <1>2

LEMMA SessionInvariant == Spec => []SessionInv
BY InitSession, NextSession, PTL DEF Spec

\* Containers never outlive the folder with their compose file, whatever fails and
\* wherever the developer interrupts.
THEOREM LabKeepsItsFolder == Spec => []LabHasItsFolder
<1>1. SessionInv => LabHasItsFolder
  BY DEF SessionInv, ContainerInv
<1> QED
  BY <1>1, SessionInvariant, PTL

\* The environment goes from what it was to what was asked for in one step, whichever
\* of the requests fails, for any names, if the other developers leave it alone.
THEOREM OneStepConfigures == Spec => []ConfiguredAtOnce
<1>1. SessionInv => ConfiguredAtOnce
  BY DEF SessionInv, EnvironmentInv
<1> QED
  BY <1>1, SessionInvariant, PTL

\* A session without an error leaves what its options ask for, for any number of tests.
THEOREM SessionEndsAsAsked == Spec => []EndsAsAsked
<1>1. SessionInv => EndsAsAsked
  BY DEF SessionInv, StageInv, ContainerInv, EndsAsAsked
<1> QED
  BY <1>1, SessionInvariant, PTL

\* At most one request is sent after the load was told to stop, and a failure of its
\* thread is the test's unless the join has timed out.
THEOREM LoadStops == Spec => []LoadIsBounded
<1>1. SessionInv => LoadIsBounded
  BY DEF SessionInv, LoadInv, LoadIsBounded, Generator!LoadIsBounded
<1> QED
  BY <1>1, SessionInvariant, PTL
-----------------------------------------------------------------------------
(***************************************************************************)
(* The waits for a deployment.                                             *)
(***************************************************************************)
\* Versions get active in order, and a resource has no status in a version that was
\* never active.
VersionsInv ==
    /\ active # 0 => active \in scheduled
    /\ \A version \in scheduled : version <= active
    /\ \A version \in Deployment!Versions \ scheduled, r \in Resources :
          status[version][r] = "todo"

\* All the resources of a version ended, in the state that is waited for if there is one.
Reached(version) ==
    \A r \in Resources :
        status[version][r] \in IF wait.state = Unset THEN Deployment!DoneStates ELSE {wait.state}

\* The phases that each kind of wait goes through; the whole one, by the api.
PhaseInv ==
    pc # "idle" =>
        /\ wait \in Deployment!Waits
        /\ wait.kind \in {"all", "scheduled"} => wait.version \in Deployment!Versions
        /\ wait.kind # "all" => pc = wait.kind
        /\ pc \in {"mismatch", "states"} => wait.state # Unset
        /\ pc \in {"released", "scheduled", "deployed", "mismatch"} /\ wait.kind = "all" => newApi
        /\ pc \in {"done", "states"} => ~newApi

\* What the phases before have established: the version was active, and if it still is
\* in the last phase its resources have ended.
PastInv ==
    /\ pc \in {"deployed", "mismatch"} /\ wait.kind = "all" => wait.version \in scheduled
    /\ pc = "mismatch" /\ active = wait.version =>
          \A r \in Resources : status[active][r] \in Deployment!DoneStates

\* What a wait that returned leaves, for as long as no other one begins.
ReturnInv ==
    Deployment!Returned =>
        /\ wait \in Deployment!Waits
        /\ wait.kind \in {"all", "scheduled"} => wait.version \in Deployment!Versions
        /\ wait.kind = "scheduled" => wait.version \in scheduled
        /\ wait.kind = "all" /\ newApi =>
              wait.version \in scheduled /\ (active = wait.version => Reached(wait.version))
        /\ wait.kind = "all" /\ ~newApi => Reached(wait.version)

DeploymentInv ==
    Deployment!TypeOK /\ VersionsInv /\ PhaseInv /\ PastInv /\ ReturnInv

LEMMA DeploymentInvInit ==
  ASSUME MaxVersions \in Nat, Unset \notin Nat \cup {"deployed", "failed"}, Deployment!Init
  PROVE  DeploymentInv
<1> USE DEF Deployment!Init
<1>1. Deployment!TypeOK
  <2>1. status \in [Deployment!Versions -> [Resources -> Deployment!Statuses]]
    BY DEF Deployment!Statuses
  <2>2. exported \in 0 .. MaxVersions /\ released \subseteq 1 .. exported /\ scheduled \subseteq released
    OBVIOUS
  <2>3. pc \in Deployment!Phases \cup {"idle"} /\ outcome \in Deployment!Outcomes
    BY DEF Deployment!Phases, Deployment!Outcomes
  <2> QED BY <2>1, <2>2, <2>3 DEF Deployment!TypeOK
<1>2. VersionsInv
  BY DEF VersionsInv
<1>3. PhaseInv /\ PastInv
  BY DEF PhaseInv, PastInv
<1>4. ReturnInv
  BY DEF ReturnInv, Deployment!Returned
<1> QED BY <1>1, <1>2, <1>3, <1>4 DEF DeploymentInv

\* What the orchestrator does to a version that has been active: it remains that, it does
\* not get active once more, and the resources that have ended keep their states.
Onward ==
    /\ newApi' = newApi
    /\ scheduled \subseteq scheduled'
    /\ \A version \in scheduled : active' = version => active = version
    /\ \A version \in scheduled, r \in Resources :
          status[version][r] \in Deployment!DoneStates => status'[version][r] = status[version][r]

LEMMA ScheduleGoesOn ==
  ASSUME MaxVersions \in Nat, Deployment!TypeOK, VersionsInv, Deployment!Schedule
  PROVE  status' \in [Deployment!Versions -> [Resources -> Deployment!Statuses]]
         /\ active' \in released' /\ scheduled' \subseteq released' /\ VersionsInv' /\ Onward
<1>1. PICK version \in released, changed \in SUBSET Resources :
          /\ active < version
          /\ active' = version
          /\ scheduled' = scheduled \cup {version}
          /\ status' = [status EXCEPT ![version] = [r \in Resources |->
                          IF r \in changed \/ active = 0 THEN "todo" ELSE status[active][r]]]
          /\ UNCHANGED <<newApi, exported, released>>
  BY Zenon DEF Deployment!Schedule
<1>2. /\ exported \in 0 .. MaxVersions /\ released \subseteq 1 .. exported
      /\ active \in released \cup {0} /\ scheduled \subseteq released
      /\ status \in [Deployment!Versions -> [Resources -> Deployment!Statuses]]
  BY DEF Deployment!TypeOK
<1>3. released \subseteq Deployment!Versions /\ 0 \notin released
  BY <1>2 DEF Deployment!Versions
<1>4. released \subseteq Nat /\ active \in Nat /\ version \in Nat /\ scheduled \subseteq Nat
  BY <1>2, <1>3 DEF Deployment!Versions
<1>5. [r \in Resources |-> IF r \in changed \/ active = 0 THEN "todo" ELSE status[active][r]]
          \in [Resources -> Deployment!Statuses]
  BY <1>2, <1>3 DEF Deployment!Statuses
<1>6. status' \in [Deployment!Versions -> [Resources -> Deployment!Statuses]]
  BY <1>1, <1>2, <1>3, <1>5
<1>7. \A other \in Deployment!Versions : other # version => status'[other] = status[other]
  BY <1>1, <1>2
<1>8. \A other \in scheduled : other <= active
  BY DEF VersionsInv
<1>9. version \notin scheduled
  BY <1>1, <1>4, <1>8
<1>10. VersionsInv'
  <2>1. active' \in scheduled'
    BY <1>1
  <2>2. \A other \in scheduled' : other <= active'
    BY <1>1, <1>4, <1>8
  <2>3. \A other \in Deployment!Versions \ scheduled', r \in Resources : status'[other][r] = "todo"
    BY <1>1, <1>7 DEF VersionsInv
  <2> QED BY <2>1, <2>2, <2>3 DEF VersionsInv, Deployment!Versions
<1>11. Onward
  <2>1. \A other \in scheduled : other # version /\ other \in Deployment!Versions
    BY <1>2, <1>3, <1>9
  <2> QED BY <1>1, <1>7, <2>1 DEF Onward
<1> QED BY <1>1, <1>2, <1>6, <1>10, <1>11

LEMMA DeployGoesOn ==
  ASSUME MaxVersions \in Nat, Deployment!TypeOK, VersionsInv, Deployment!Deploy
  PROVE  status' \in [Deployment!Versions -> [Resources -> Deployment!Statuses]]
         /\ VersionsInv' /\ Onward
<1>1. active # 0 /\ UNCHANGED <<newApi, exported, released, active, scheduled>>
  BY DEF Deployment!Deploy
<1>2. PICK resource \in Resources, done \in Deployment!DoneStates :
          /\ status[active][resource] = "todo"
          /\ status' = [status EXCEPT ![active][resource] = done]
  BY Zenon DEF Deployment!Deploy
<1>3. /\ exported \in 0 .. MaxVersions /\ released \subseteq 1 .. exported
      /\ active \in released \cup {0} /\ scheduled \subseteq released
      /\ status \in [Deployment!Versions -> [Resources -> Deployment!Statuses]]
  BY DEF Deployment!TypeOK
<1>4. active \in Deployment!Versions /\ scheduled \subseteq Deployment!Versions
  BY <1>1, <1>3 DEF Deployment!Versions
<1>5. done \in Deployment!Statuses
  BY <1>2 DEF Deployment!Statuses
<1>6. status' \in [Deployment!Versions -> [Resources -> Deployment!Statuses]]
  BY <1>2, <1>3, <1>4, <1>5
<1>7. \A version \in Deployment!Versions, r \in Resources :
          version # active \/ r # resource => status'[version][r] = status[version][r]
  BY <1>2, <1>3, <1>4
<1>8. active \in scheduled
  BY <1>1 DEF VersionsInv
<1>9. VersionsInv'
  <2>1. \A version \in Deployment!Versions \ scheduled', r \in Resources : status'[version][r] = "todo"
    BY <1>1, <1>7, <1>8 DEF VersionsInv
  <2> QED BY <1>1, <2>1 DEF VersionsInv, Deployment!Versions
<1>10. Onward
  <2>1. "todo" \notin Deployment!DoneStates
    BY DEF Deployment!DoneStates
  <2>2. \A version \in scheduled, r \in Resources :
            status[version][r] \in Deployment!DoneStates => status'[version][r] = status[version][r]
    BY <1>2, <1>4, <1>7, <2>1
  <2> QED BY <1>1, <2>2 DEF Onward
<1> QED BY <1>6, <1>9, <1>10

\* The orchestrator on its own: what it does between two polls.
LEMMA OrchestratorGoesOn ==
  ASSUME MaxVersions \in Nat, Deployment!TypeOK, VersionsInv, Deployment!OrchestratorMoves
  PROVE  Deployment!TypeOK' /\ VersionsInv' /\ Onward
<1>1. UNCHANGED <<pc, wait, expired, outcome>>
  BY DEF Deployment!OrchestratorMoves
<1>2. /\ newApi \in BOOLEAN /\ exported \in 0 .. MaxVersions /\ released \subseteq 1 .. exported
      /\ active \in released \cup {0} /\ scheduled \subseteq released
      /\ status \in [Deployment!Versions -> [Resources -> Deployment!Statuses]]
  BY DEF Deployment!TypeOK
<1>3. CASE Deployment!Export
  <2>1. exported' = exported + 1 /\ exported < MaxVersions
        /\ UNCHANGED <<newApi, released, active, status, scheduled>>
    BY <1>3 DEF Deployment!Export
  <2>2. exported' \in 0 .. MaxVersions /\ released' \subseteq 1 .. exported'
    BY <1>2, <2>1
  <2>3. VersionsInv'
    BY <2>1 DEF VersionsInv, Deployment!Versions
  <2>4. Onward
    BY <2>1 DEF Onward
  <2>5. Deployment!TypeOK'
    BY <1>1, <1>2, <2>1, <2>2 DEF Deployment!TypeOK, Deployment!Versions
  <2> QED BY <2>3, <2>4, <2>5
<1>4. CASE Deployment!Release
  <2>1. PICK version \in 1 .. exported : released' = released \cup {version}
    BY <1>4 DEF Deployment!Release
  <2>2. UNCHANGED <<newApi, exported, active, status, scheduled>>
    BY <1>4 DEF Deployment!Release
  <2>3. VersionsInv'
    BY <2>2 DEF VersionsInv, Deployment!Versions
  <2>4. Onward
    BY <2>2 DEF Onward
  <2>5. Deployment!TypeOK'
    BY <1>1, <1>2, <2>1, <2>2 DEF Deployment!TypeOK, Deployment!Versions
  <2> QED BY <2>3, <2>4, <2>5
<1>5. CASE Deployment!Schedule
  <2>1. UNCHANGED <<newApi, exported, released>>
    BY <1>5 DEF Deployment!Schedule
  <2> QED BY <1>1, <1>2, <1>5, <2>1, ScheduleGoesOn DEF Deployment!TypeOK, Deployment!Versions
<1>6. CASE Deployment!Deploy
  <2>1. UNCHANGED <<newApi, exported, released, active, scheduled>>
    BY <1>6 DEF Deployment!Deploy
  <2> QED BY <1>1, <1>2, <1>6, <2>1, DeployGoesOn DEF Deployment!TypeOK, Deployment!Versions
<1> QED BY <1>3, <1>4, <1>5, <1>6 DEF Deployment!OrchestratorMoves

\* Nothing the orchestrator does undoes what a wait has seen, or what it has returned on.
LEMMA PastGoesOn ==
  ASSUME MaxVersions \in Nat, DeploymentInv, Onward, UNCHANGED <<pc, wait, expired, outcome>>
  PROVE  PhaseInv' /\ PastInv' /\ ReturnInv'
<1>1. pc' = pc /\ wait' = wait /\ outcome' = outcome
  OBVIOUS
<1>2. /\ newApi' = newApi
      /\ scheduled \subseteq scheduled'
      /\ \A version \in scheduled : active' = version => active = version
      /\ \A version \in scheduled, r \in Resources :
            status[version][r] \in Deployment!DoneStates => status'[version][r] = status[version][r]
  BY DEF Onward
<1>3. PhaseInv'
  BY <1>1, <1>2 DEF DeploymentInv, PhaseInv, Deployment!Waits, Deployment!Versions
<1>4. PastInv'
  <2>1. pc \in {"deployed", "mismatch"} /\ wait.kind = "all" => wait.version \in scheduled'
    BY <1>2 DEF DeploymentInv, PastInv
  <2>2. ASSUME pc = "mismatch", active' = wait.version, NEW r \in Resources
        PROVE  status'[active'][r] \in Deployment!DoneStates
    <3>1. wait.kind = "all"
      BY <2>2 DEF DeploymentInv, PhaseInv, Deployment!Waits
    <3>2. wait.version \in scheduled
      BY <2>2, <3>1 DEF DeploymentInv, PastInv
    <3>3. active = wait.version
      BY <1>2, <2>2, <3>2
    <3>4. status[wait.version][r] \in Deployment!DoneStates
      BY <2>2, <3>3 DEF DeploymentInv, PastInv
    <3> QED BY <1>2, <2>2, <3>2, <3>4
  <2>3. Deployment!DoneStates' = Deployment!DoneStates
    BY DEF Deployment!DoneStates
  <2> QED BY <1>1, <2>1, <2>2, <2>3 DEF PastInv
<1>5. ReturnInv'
  <2>1. SUFFICES ASSUME Deployment!Returned
                 PROVE  /\ wait \in Deployment!Waits
                        /\ wait.kind \in {"all", "scheduled"} => wait.version \in Deployment!Versions
                        /\ wait.kind = "scheduled" => wait.version \in scheduled'
                        /\ wait.kind = "all" /\ newApi =>
                              wait.version \in scheduled' /\ (active' = wait.version => Reached(wait.version)')
                        /\ wait.kind = "all" /\ ~newApi => Reached(wait.version)'
    BY <1>1, <1>2 DEF ReturnInv, Deployment!Returned, Deployment!Waits, Deployment!Versions, Reached
  <2>2. /\ wait \in Deployment!Waits
        /\ wait.kind \in {"all", "scheduled"} => wait.version \in Deployment!Versions
        /\ wait.kind = "scheduled" => wait.version \in scheduled
        /\ wait.kind = "all" /\ newApi =>
              wait.version \in scheduled /\ (active = wait.version => Reached(wait.version))
        /\ wait.kind = "all" /\ ~newApi => Reached(wait.version)
    BY <2>1 DEF DeploymentInv, ReturnInv
  <2>3. ASSUME wait.version \in Deployment!Versions, Reached(wait.version) PROVE Reached(wait.version)'
    <3>1. ASSUME NEW r \in Resources PROVE status'[wait.version][r] = status[wait.version][r]
      <4>1. wait.state \in Deployment!DoneStates \cup {Unset}
        BY <2>2 DEF Deployment!Waits
      <4>2. status[wait.version][r] \in Deployment!DoneStates
        BY <2>3, <4>1 DEF Reached
      <4>3. status[wait.version][r] # "todo"
        BY <4>2 DEF Deployment!DoneStates
      <4>4. wait.version \in scheduled
        BY <2>3, <4>3 DEF DeploymentInv, VersionsInv
      <4> QED BY <1>2, <4>2, <4>4
    <3> QED BY <1>1, <2>3, <3>1 DEF Reached, Deployment!DoneStates
  <2> QED BY <1>2, <2>2, <2>3
<1> QED BY <1>3, <1>4, <1>5

\* A step of the client leaves the orchestrator as it is.
LEMMA ClientKeepsVersions ==
  ASSUME DeploymentInv, UNCHANGED Deployment!orchestrator,
         pc' \in Deployment!Phases \cup {"idle"}, wait' \in Deployment!Waits \cup {Unset},
         expired' \in BOOLEAN, outcome' \in Deployment!Outcomes
  PROVE  Deployment!TypeOK' /\ VersionsInv'
<1>1. UNCHANGED <<newApi, exported, released, active, status, scheduled>>
  BY DEF Deployment!orchestrator
<1>2. VersionsInv'
  BY <1>1 DEF DeploymentInv, VersionsInv, Deployment!Versions
<1>3. Deployment!TypeOK'
  BY <1>1 DEF DeploymentInv, Deployment!TypeOK, Deployment!Versions, Deployment!Statuses,
     Deployment!DoneStates, Deployment!Phases, Deployment!Waits, Deployment!Outcomes
<1> QED BY <1>2, <1>3

\* A wait that ends without success promises nothing.
LEMMA EndPromisesNothing ==
  ASSUME DeploymentInv, NEW how \in Deployment!Outcomes \ {"returned"}, Deployment!End(how)
  PROVE  DeploymentInv'
<1>1. pc' = "idle" /\ outcome' = how /\ UNCHANGED <<wait, expired>> /\ UNCHANGED Deployment!orchestrator
  BY DEF Deployment!End
<1>2. Deployment!TypeOK' /\ VersionsInv'
  BY <1>1, ClientKeepsVersions DEF DeploymentInv, Deployment!TypeOK
<1>3. PhaseInv' /\ PastInv' /\ ReturnInv'
  BY <1>1 DEF PhaseInv, PastInv, ReturnInv, Deployment!Returned
<1> QED BY <1>2, <1>3 DEF DeploymentInv

\* A wait returns with what its last phase has seen.
LEMMA EndKeepsItsPromise ==
  ASSUME DeploymentInv, pc # "idle", Deployment!End("returned"),
         wait.kind = "scheduled" => wait.version \in scheduled,
         wait.kind = "all" /\ newApi =>
             wait.version \in scheduled /\ (active = wait.version => Reached(wait.version)),
         wait.kind = "all" /\ ~newApi => Reached(wait.version)
  PROVE  DeploymentInv'
<1>1. pc' = "idle" /\ outcome' = "returned" /\ UNCHANGED <<wait, expired>>
      /\ UNCHANGED Deployment!orchestrator
  BY DEF Deployment!End
<1>2. UNCHANGED <<newApi, active, status, scheduled, wait>>
  BY <1>1 DEF Deployment!orchestrator
<1>3. Deployment!TypeOK' /\ VersionsInv'
  BY <1>1, ClientKeepsVersions DEF DeploymentInv, Deployment!TypeOK, Deployment!Outcomes
<1>4. PhaseInv' /\ PastInv'
  BY <1>1 DEF PhaseInv, PastInv
<1>5. Reached(wait.version)' <=> Reached(wait.version)
  BY <1>2 DEF Reached, Deployment!DoneStates
<1>6. ReturnInv'
  BY <1>2, <1>5 DEF DeploymentInv, PhaseInv, ReturnInv, Deployment!Waits, Deployment!Versions
<1> QED BY <1>3, <1>4, <1>6 DEF DeploymentInv

\* The next phase starts from what the present one has seen.
LEMMA EnterKeepsThePast ==
  ASSUME DeploymentInv, pc # "idle", NEW phase \in Deployment!Phases, Deployment!Enter(phase),
         wait.kind = "all",
         phase \in {"mismatch", "states"} => wait.state # Unset,
         phase \in {"released", "scheduled", "deployed", "mismatch"} => newApi,
         phase \in {"done", "states"} => ~newApi,
         phase \in {"deployed", "mismatch"} => wait.version \in scheduled,
         phase = "mismatch" /\ active = wait.version =>
             \A r \in Resources : status[active][r] \in Deployment!DoneStates
  PROVE  DeploymentInv'
<1>1. pc' = phase /\ expired' = FALSE /\ UNCHANGED <<wait, outcome>> /\ UNCHANGED Deployment!orchestrator
  BY DEF Deployment!Enter
<1>2. UNCHANGED <<newApi, active, status, scheduled, wait>>
  BY <1>1 DEF Deployment!orchestrator
<1>3. Deployment!TypeOK' /\ VersionsInv'
  BY <1>1, ClientKeepsVersions DEF DeploymentInv, Deployment!TypeOK
<1>4. wait \in Deployment!Waits /\ wait.version \in Deployment!Versions
  BY DEF DeploymentInv, PhaseInv
<1>5. PhaseInv'
  BY <1>1, <1>2, <1>4 DEF PhaseInv, Deployment!Waits, Deployment!Versions
<1>6. PastInv'
  BY <1>1, <1>2 DEF PastInv, Deployment!DoneStates
<1>7. ReturnInv'
  BY <1>1 DEF ReturnInv, Deployment!Returned, Deployment!Phases
<1> QED BY <1>3, <1>5, <1>6, <1>7 DEF DeploymentInv

\* An error of a wait is one of the outcomes that promise nothing.
LEMMA ErrorsPromiseNothing ==
  {"AssertionError", "Superseded", "LookupError", "RequestError"}
      \subseteq Deployment!Outcomes \ {"returned"}
BY DEF Deployment!Outcomes

\* The kinds of wait that a phase is part of.
LEMMA PhaseTellsKind ==
  ASSUME DeploymentInv, pc # "idle"
  PROVE  /\ wait.kind \in {"all", "released", "scheduled", "deployed"}
         /\ wait.kind # "all" => pc = wait.kind
         /\ wait.state \in Deployment!DoneStates \cup {Unset}
BY DEF DeploymentInv, PhaseInv, Deployment!Waits

LEMMA GetVersionKeeps ==
  ASSUME DeploymentInv, Deployment!GetVersion
  PROVE  DeploymentInv'
<1>1. pc = "version"
  BY DEF Deployment!GetVersion
<1>2. wait.kind = "all"
  BY <1>1, PhaseTellsKind
<1>3. CASE Deployment!End("LookupError")
  BY <1>3, EndPromisesNothing, ErrorsPromiseNothing
<1>4. CASE newApi /\ Deployment!Enter("released")
  BY <1>1, <1>2, <1>4, EnterKeepsThePast DEF Deployment!Phases
<1>5. CASE ~newApi /\ Deployment!Enter("done")
  BY <1>1, <1>2, <1>5, EnterKeepsThePast DEF Deployment!Phases
<1> QED BY <1>3, <1>4, <1>5 DEF Deployment!GetVersion

LEMMA PollReleasedKeeps ==
  ASSUME DeploymentInv, Deployment!PollReleased
  PROVE  DeploymentInv'
<1>1. pc = "released"
  BY DEF Deployment!PollReleased
<1>2. CASE Deployment!End("LookupError") \/ Deployment!End("AssertionError")
  BY <1>2, EndPromisesNothing, ErrorsPromiseNothing
<1>3. CASE Deployment!Proceed("scheduled")
  <2>1. CASE wait.kind = "all"
    <3>1. newApi
      BY <1>1, <2>1 DEF DeploymentInv, PhaseInv
    <3> QED BY <1>1, <1>3, <2>1, <3>1, EnterKeepsThePast DEF Deployment!Proceed, Deployment!Phases
  <2>2. CASE wait.kind # "all"
    <3>1. wait.kind = "released"
      BY <1>1, <2>2, PhaseTellsKind
    <3> QED BY <1>1, <1>3, <2>2, <3>1, EndKeepsItsPromise DEF Deployment!Proceed
  <2> QED BY <2>1, <2>2
<1> QED BY <1>2, <1>3 DEF Deployment!PollReleased, Deployment!Retry

LEMMA PollScheduledKeeps ==
  ASSUME Unset \notin Nat, DeploymentInv, Deployment!PollScheduled
  PROVE  DeploymentInv'
<1>1. pc = "scheduled"
  BY DEF Deployment!PollScheduled
<1>2. CASE \/ Deployment!End("LookupError") \/ Deployment!End("AssertionError")
           \/ Deployment!End("Superseded")
  BY <1>2, EndPromisesNothing, ErrorsPromiseNothing
<1>3. CASE active = wait.version /\ Deployment!Proceed("deployed")
  <2>1. wait.kind \in {"all", "scheduled"}
    BY <1>1, PhaseTellsKind
  <2>2. wait.version # 0
    BY <1>1, <2>1 DEF DeploymentInv, PhaseInv, Deployment!Versions
  <2>3. wait.version \in scheduled
    BY <1>3, <2>2 DEF DeploymentInv, VersionsInv
  <2>4. CASE wait.kind = "all"
    <3>1. newApi
      BY <1>1, <2>4 DEF DeploymentInv, PhaseInv
    <3> QED BY <1>1, <1>3, <2>3, <2>4, <3>1, EnterKeepsThePast DEF Deployment!Proceed, Deployment!Phases
  <2>5. CASE wait.kind = "scheduled"
    BY <1>1, <1>3, <2>3, <2>5, EndKeepsItsPromise DEF Deployment!Proceed
  <2> QED BY <2>1, <2>4, <2>5
<1> QED BY <1>2, <1>3 DEF Deployment!PollScheduled, Deployment!Retry

LEMMA PollDeployedKeeps ==
  ASSUME DeploymentInv, Deployment!PollDeployed
  PROVE  DeploymentInv'
<1>1. pc = "deployed"
  BY DEF Deployment!PollDeployed
<1>2. CASE Deployment!End("AssertionError")
  BY <1>2, EndPromisesNothing, ErrorsPromiseNothing
<1>3. ASSUME Deployment!Done, wait.kind = "all"
      PROVE  /\ newApi /\ wait.version \in scheduled
             /\ active = wait.version => \A r \in Resources : status[active][r] \in Deployment!DoneStates
  <2>1. newApi /\ wait.version \in scheduled /\ wait.version \in Deployment!Versions
    BY <1>1, <1>3 DEF DeploymentInv, PhaseInv, PastInv
  <2>2. wait.version # 0
    BY <2>1 DEF Deployment!Versions
  <2> QED BY <1>3, <2>1, <2>2 DEF Deployment!Done
<1>4. CASE Deployment!Done /\ wait.kind = "all" /\ wait.state # Unset /\ Deployment!Enter("mismatch")
  BY <1>1, <1>3, <1>4, EnterKeepsThePast DEF Deployment!Phases
<1>5. CASE Deployment!Done /\ ~(wait.kind = "all" /\ wait.state # Unset) /\ Deployment!End("returned")
  <2>1. wait.kind \in {"all", "deployed"}
    BY <1>1, PhaseTellsKind
  <2>2. ASSUME wait.kind = "all"
        PROVE  newApi /\ wait.version \in scheduled /\ (active = wait.version => Reached(wait.version))
    BY <1>3, <1>5, <2>2 DEF Reached
  <2> QED BY <1>1, <1>5, <2>1, <2>2, EndKeepsItsPromise
<1> QED BY <1>2, <1>4, <1>5 DEF Deployment!PollDeployed, Deployment!Retry

LEMMA CheckMismatchKeeps ==
  ASSUME DeploymentInv, Deployment!CheckMismatch
  PROVE  DeploymentInv'
<1>1. pc = "mismatch"
  BY DEF Deployment!CheckMismatch
<1>2. CASE Deployment!End("AssertionError")
  BY <1>2, EndPromisesNothing, ErrorsPromiseNothing
<1>3. CASE /\ ~(active # 0 /\ \E r \in Resources : status[active][r] \in Deployment!DoneStates \ {wait.state})
           /\ Deployment!End("returned")
  <2>1. wait.kind = "all"
    BY <1>1, PhaseTellsKind
  <2>2. newApi /\ wait.version \in scheduled /\ wait.version \in Deployment!Versions /\ wait.state # Unset
    BY <1>1, <2>1 DEF DeploymentInv, PhaseInv, PastInv
  <2>3. wait.version # 0
    BY <2>2 DEF Deployment!Versions
  <2>4. active = wait.version => \A r \in Resources : status[active][r] \in Deployment!DoneStates
    BY <1>1 DEF DeploymentInv, PastInv
  <2>5. active = wait.version => Reached(wait.version)
    BY <1>3, <2>2, <2>3, <2>4 DEF Reached
  <2> QED BY <1>1, <1>3, <2>1, <2>2, <2>5, EndKeepsItsPromise
<1> QED BY <1>2, <1>3 DEF Deployment!CheckMismatch

LEMMA PollDoneKeeps ==
  ASSUME DeploymentInv, Deployment!PollDone
  PROVE  DeploymentInv'
<1>1. pc = "done"
  BY DEF Deployment!PollDone
<1>2. wait.kind = "all" /\ ~newApi
  BY <1>1, PhaseTellsKind DEF DeploymentInv, PhaseInv
<1>3. CASE Deployment!End("AssertionError")
  BY <1>3, EndPromisesNothing, ErrorsPromiseNothing
<1>4. CASE wait.state # Unset /\ Deployment!Enter("states")
  BY <1>1, <1>2, <1>4, EnterKeepsThePast DEF Deployment!Phases
<1>5. CASE /\ \A r \in Resources : status[wait.version][r] \in Deployment!DoneStates
           /\ wait.state = Unset
           /\ Deployment!End("returned")
  BY <1>1, <1>2, <1>5, EndKeepsItsPromise DEF Reached
<1> QED BY <1>3, <1>4, <1>5 DEF Deployment!PollDone, Deployment!Retry

LEMMA CheckStatesKeeps ==
  ASSUME DeploymentInv, Deployment!CheckStates
  PROVE  DeploymentInv'
<1>1. pc = "states"
  BY DEF Deployment!CheckStates
<1>2. wait.kind = "all" /\ ~newApi /\ wait.state # Unset
  BY <1>1, PhaseTellsKind DEF DeploymentInv, PhaseInv
<1>3. CASE Deployment!End("AssertionError")
  BY <1>3, EndPromisesNothing, ErrorsPromiseNothing
<1>4. CASE /\ ~(\E r \in Resources : status[wait.version][r] # wait.state)
           /\ Deployment!End("returned")
  <2>1. Reached(wait.version)
    BY <1>2, <1>4 DEF Reached
  <2> QED BY <1>1, <1>2, <1>4, <2>1, EndKeepsItsPromise
<1> QED BY <1>3, <1>4 DEF Deployment!CheckStates

LEMMA TimeElapsesKeeps ==
  ASSUME DeploymentInv, Deployment!TimeElapses
  PROVE  DeploymentInv'
<1>1. expired' = TRUE /\ UNCHANGED <<pc, wait, outcome>> /\ UNCHANGED Deployment!orchestrator
  BY DEF Deployment!TimeElapses
<1>2. UNCHANGED <<newApi, active, status, scheduled>>
  BY <1>1 DEF Deployment!orchestrator
<1>3. Deployment!TypeOK' /\ VersionsInv'
  BY <1>1, ClientKeepsVersions DEF DeploymentInv, Deployment!TypeOK
<1>4. PhaseInv'
  BY <1>1, <1>2 DEF DeploymentInv, PhaseInv, Deployment!Waits, Deployment!Versions
<1>5. PastInv'
  BY <1>1, <1>2 DEF DeploymentInv, PastInv, Deployment!DoneStates
<1>6. ReturnInv'
  BY <1>1, <1>2 DEF DeploymentInv, ReturnInv, Deployment!Returned, Deployment!Waits,
     Deployment!Versions, Reached, Deployment!DoneStates
<1> QED BY <1>3, <1>4, <1>5, <1>6 DEF DeploymentInv

LEMMA TestBeginsKeeps ==
  ASSUME DeploymentInv, Deployment!TestBegins
  PROVE  DeploymentInv'
<1>1. PICK kind \in {"all", "released", "scheduled", "deployed"},
           version \in Deployment!Versions \cup {Unset},
           state \in Deployment!DoneStates \cup {Unset} :
        /\ kind \in {"all", "scheduled"} => version \in Deployment!Versions
        /\ Deployment!Begin(kind, version, state)
  BY Zenon DEF Deployment!TestBegins
<1>2. /\ wait' = [kind |-> kind, version |-> version, state |-> state]
      /\ pc' = IF kind = "all" THEN "version" ELSE kind
      /\ expired' = FALSE /\ outcome' = "none" /\ UNCHANGED Deployment!orchestrator
  BY <1>1 DEF Deployment!Begin
<1>3. wait' \in Deployment!Waits /\ wait'.kind = kind /\ wait'.version = version /\ wait'.state = state
  BY <1>2 DEF Deployment!Waits
<1>4. pc' \in {"version", "released", "scheduled", "deployed"}
  BY <1>2
<1>5. Deployment!TypeOK' /\ VersionsInv'
  BY <1>2, <1>3, <1>4, ClientKeepsVersions DEF Deployment!Phases, Deployment!Outcomes
<1>6. PhaseInv'
  BY <1>1, <1>2, <1>3 DEF PhaseInv, Deployment!Waits, Deployment!Versions
<1>7. PastInv'
  BY <1>2, <1>3 DEF PastInv
<1>8. ReturnInv'
  BY <1>2 DEF ReturnInv, Deployment!Returned
<1> QED BY <1>5, <1>6, <1>7, <1>8 DEF DeploymentInv

LEMMA DeploymentInvStep ==
  ASSUME MaxVersions \in Nat, Unset \notin Nat \cup {"deployed", "failed"},
         DeploymentInv, [Deployment!Next]_(Deployment!vars)
  PROVE  DeploymentInv'
<1>1. CASE Deployment!OrchestratorMoves
  <2>1. UNCHANGED <<pc, wait, expired, outcome>>
    BY <1>1 DEF Deployment!OrchestratorMoves
  <2>2. Deployment!TypeOK' /\ VersionsInv' /\ Onward
    BY <1>1, OrchestratorGoesOn DEF DeploymentInv
  <2> QED BY <2>1, <2>2, PastGoesOn DEF DeploymentInv
<1>2. CASE Deployment!TimeElapses
  BY <1>2, TimeElapsesKeeps
<1>3. CASE Deployment!ClientStep
  BY <1>3, GetVersionKeeps, PollReleasedKeeps, PollScheduledKeeps, PollDeployedKeeps,
     CheckMismatchKeeps, PollDoneKeeps, CheckStatesKeeps DEF Deployment!ClientStep
<1>4. CASE Deployment!RequestFails
  BY <1>4, EndPromisesNothing, ErrorsPromiseNothing DEF Deployment!RequestFails
<1>5. CASE Deployment!TestBegins
  BY <1>5, TestBeginsKeeps
<1>6. CASE UNCHANGED Deployment!vars
  <2>1. UNCHANGED <<pc, wait, expired, outcome>> /\ UNCHANGED Deployment!orchestrator
    BY <1>6 DEF Deployment!vars
  <2>2. UNCHANGED <<newApi, active, status, scheduled>>
    BY <2>1 DEF Deployment!orchestrator
  <2>3. Deployment!TypeOK' /\ VersionsInv'
    BY <2>1, ClientKeepsVersions DEF DeploymentInv, Deployment!TypeOK
  <2>4. Onward
    BY <2>2 DEF Onward
  <2> QED BY <2>1, <2>3, <2>4, PastGoesOn DEF DeploymentInv
<1> QED BY <1>1, <1>2, <1>3, <1>4, <1>5, <1>6 DEF Deployment!Next

\* The invariant of the waits holds in every state.
LEMMA DeploymentInvariant == DeploymentSpec => []DeploymentInv
<1>1. Deployment!Init => DeploymentInv
  BY DeploymentInvInit, MaxVersionsAssumption, UnsetAssumption
<1>2. DeploymentInv /\ [Deployment!Next]_(Deployment!vars) => DeploymentInv'
  BY DeploymentInvStep, MaxVersionsAssumption, UnsetAssumption
<1> QED BY <1>1, <1>2, PTL DEF DeploymentSpec, Deployment!Spec

\* The types of the waits' variables, whatever versions get exported and released.
THEOREM DeploymentTypeCorrect == DeploymentSpec => []Deployment!TypeOK
<1>1. DeploymentInv => Deployment!TypeOK
  BY DEF DeploymentInv
<1> QED BY <1>1, DeploymentInvariant, PTL

\* A wait for a deployment that returns (wait_until_deployment_finishes) has seen every
\* resource of its version done, in the desired state if there is one, unless a newer
\* version took its place.
THEOREM ReturnedIsDeployed == DeploymentSpec => []ReturnedMeansDeployed
<1>1. DeploymentInv => ReturnedMeansDeployed
  BY DEF DeploymentInv, ReturnInv, Reached, ReturnedMeansDeployed
<1> QED BY <1>1, DeploymentInvariant, PTL

\* The wait for a version returns only if the version was active at some time: one that
\* was superseded before is never taken for deployed.  Without a resource scheduler that
\* is known from the resources only, so there has to be one: is_deployment_finished is
\* true at once of a version that has none.
THEOREM SupersededIsNotReturned ==
  ASSUME Resources # {}
  PROVE  DeploymentSpec => []SupersededNeverReturns
<1>1. DeploymentInv => SupersededNeverReturns
  <2>1. SUFFICES ASSUME DeploymentInv, Deployment!Returned, wait.kind \in {"all", "scheduled"}
                 PROVE  wait.version \in scheduled
    BY DEF SupersededNeverReturns
  <2>2. wait \in Deployment!Waits /\ wait.version \in Deployment!Versions
    BY <2>1 DEF DeploymentInv, ReturnInv
  <2>3. CASE wait.kind = "scheduled" \/ newApi
    BY <2>1, <2>3 DEF DeploymentInv, ReturnInv
  <2>4. CASE wait.kind = "all" /\ ~newApi
    <3>1. Reached(wait.version)
      BY <2>1, <2>4 DEF DeploymentInv, ReturnInv
    <3>2. wait.state \in Deployment!DoneStates \cup {Unset}
      BY <2>2 DEF Deployment!Waits
    <3>3. PICK r \in Resources : TRUE
      OBVIOUS
    <3>4. status[wait.version][r] \in Deployment!DoneStates
      BY <3>1, <3>2 DEF Reached
    <3>5. status[wait.version][r] # "todo"
      BY <3>4 DEF Deployment!DoneStates
    <3> QED BY <2>1, <2>2, <3>5 DEF DeploymentInv, VersionsInv
  <2> QED BY <2>1, <2>3, <2>4
<1> QED BY <1>1, DeploymentInvariant, PTL
-----------------------------------------------------------------------------
(***************************************************************************)
(* The project's folder.                                                   *)
(***************************************************************************)
\* The commands of the task in progress.
Commands ==
    CASE task = "start_session" -> Folder!SessionSetup
      [] task = "clear" -> Folder!SoftClear
      [] task = "export" -> Folder!ExportServiceEntities
      [] task = "end_session" -> Folder!SessionTeardown

\* The project as the task found it, once mkdir -p has made sure that it is there.
Kept == IF folderBefore = NoFolder THEN Folder!Empty ELSE folderBefore

\* The project has nothing but the libs of the cache; the cache has those of the project
\* that the task has found.
OnlyLibs ==
    /\ disk["cache"] # NoFolder
    /\ disk["project"] = [Folder!Empty EXCEPT !.libs = disk["cache"].libs]
LibsKept == disk["cache"] # NoFolder /\ disk["cache"].libs = Kept.libs

\* What holds on the disk when command k of a task is next, or when none is left.
StartFits(k) ==
    /\ k = 2 => disk["project"] = NoFolder
    /\ k \in {3, 4} => disk["project"] = Folder!Empty
    /\ k = 4 => disk["cache"] # NoFolder
    /\ k = 5 => OnlyLibs

ClearFits(k) ==
    /\ k = 1 => disk["project"] = folderBefore
    /\ k \in {2, 3, 8} => disk["project"] = Kept
    /\ k = 3 => disk["cache"] = NoFolder
    /\ k \in {4, 5, 6, 7} => disk["cache"] = Kept /\ disk["project"] = NoFolder

EndFits(k) ==
    /\ k = 1 => disk["project"] = folderBefore
    /\ k \in {2, 3} => disk["project"] = Kept
    /\ k \in {4, 5} => LibsKept

\* The part of an export that both ways of a sync share, from its position in them.
SyncedFits(position) ==
    /\ disk["project"] # NoFolder
    /\ disk["project"].files = local.files
    /\ position \in {3, 4, 5} => disk["project"].libs = local.modules
    /\ position \in {4, 5} => disk["project"].env = TRUE

ExportFits(k) ==
    IF sameUser
    THEN /\ k = 2 => disk["project"] # NoFolder
         /\ k \in 3 .. 7 => SyncedFits(k - 2)
    ELSE /\ k \in {2, 3} => disk["project"] # NoFolder
         /\ k = 3 => disk["tmp"] = NoFolder
         /\ k \in {4, 5} => disk["project"] = NoFolder /\ disk["tmp"] # NoFolder
         /\ k = 5 => disk["tmp"].files = local.files
         /\ k \in 6 .. 10 => SyncedFits(k - 5)

Fits(k) ==
    /\ task = "start_session" => StartFits(k)
    /\ task = "clear" => ClearFits(k)
    /\ task = "export" => ExportFits(k)
    /\ task = "end_session" => EndFits(k)

\* The script is what is left of the task's commands, and fits the disk.
ScriptInv ==
    script # <<>> =>
        /\ task # "none"
        /\ \E k \in 1 .. Len(Commands) : script = SubSeq(Commands, k, Len(Commands)) /\ Fits(k)

\* A folder that no other one was moved into, or none at all: no command ever moves a
\* folder into another one.
Tidy(folder) == folder = NoFolder \/ (folder \in Folder!Folders /\ folder.nested = FALSE)
TidyDisk == disk \in [Folder!Places -> {folder \in Folder!Folders \cup {NoFolder} : Tidy(folder)}]

\* The libs that a session has left stay in the cache, until the next one moves them away.
CachedInv ==
    /\ cached # NoFolder => disk["cache"] # NoFolder /\ disk["cache"].libs = cached
    /\ script # <<>> /\ task \in {"clear", "end_session"} => cached = NoFolder

\* What each task leaves when it succeeds.
LeftInv ==
    /\ ExportIsLocal
    /\ SoftClearKeepsProject
    /\ SessionStartsClean
    /\ LibsAreCached

FolderInv == Folder!TypeOK /\ ScriptInv /\ TidyDisk /\ CachedInv /\ LeftInv

\* What is left of a sequence, from position k.
LEMMA RestOfSequence ==
  ASSUME NEW S, NEW s \in Seq(S), NEW k \in 1 .. Len(s)
  PROVE  /\ SubSeq(s, k, Len(s)) # <<>>
         /\ Head(SubSeq(s, k, Len(s))) = s[k]
         /\ Tail(SubSeq(s, k, Len(s))) = SubSeq(s, k + 1, Len(s))
         /\ Len(SubSeq(s, k, Len(s))) = Len(s) - k + 1
         /\ k = Len(s) => SubSeq(s, k + 1, Len(s)) = <<>>
         /\ SubSeq(s, 1, Len(s)) = s
<1>1. Len(SubSeq(s, k, Len(s))) = Len(s) - k + 1
  OBVIOUS
<1>2. SubSeq(s, k, Len(s)) # <<>>
  <2>1. Len(s) - k + 1 # 0
    OBVIOUS
  <2> QED BY <1>1, <2>1
<1>3. Head(SubSeq(s, k, Len(s))) = s[k]
  OBVIOUS
<1>4. Tail(SubSeq(s, k, Len(s))) = SubSeq(s, k + 1, Len(s))
  OBVIOUS
<1>5. SubSeq(s, Len(s) + 1, Len(s)) = <<>>
  OBVIOUS
<1>6. SubSeq(s, 1, Len(s)) = s
  OBVIOUS
<1> QED BY <1>1, <1>2, <1>3, <1>4, <1>5, <1>6

\* Every part of a command.
Parts ==
    {Folder!ClearApi, Folder!MkDir("project"), Folder!MkDir("cache"),
     Folder!CopyLibs("cache", "project"), Folder!CopyLibs("project", "cache"),
     Folder!Remove("cache"), Folder!Remove("project"), Folder!Remove("tmp"),
     Folder!Move("project", "cache"), Folder!Move("cache", "project"),
     Folder!Move("project", "tmp"), Folder!Move("tmp", "project"),
     Folder!Cmd("rsync_project", "project", "project"), Folder!Cmd("rsync_project", "tmp", "tmp"),
     Folder!Cmd("sync_modules", "project", "project"), Folder!Cmd("clear_extra", "project", "project"),
     Folder!Cmd("install", "project", "project"), Folder!Cmd("export", "project", "project")}

\* The commands of each task, in order.
LEMMA StartCommands ==
  /\ Folder!SessionSetup \in Seq(Parts)
  /\ Len(Folder!SessionSetup) = 4
  /\ Folder!SessionSetup[1] = Folder!ClearApi
  /\ Folder!SessionSetup[2] = Folder!MkDir("project")
  /\ Folder!SessionSetup[3] = Folder!MkDir("cache")
  /\ Folder!SessionSetup[4] = Folder!CopyLibs("cache", "project")
<1> DEFINE s == <<Folder!ClearApi>>
           t == <<Folder!MkDir("project"), Folder!MkDir("cache"), Folder!CopyLibs("cache", "project")>>
<1>1. s \in Seq(Parts) /\ Len(s) = 1 /\ t \in Seq(Parts) /\ Len(t) = 3
  BY DEF Parts
<1>2. s[1] = Folder!ClearApi /\ t[1] = Folder!MkDir("project") /\ t[2] = Folder!MkDir("cache")
      /\ t[3] = Folder!CopyLibs("cache", "project")
  OBVIOUS
<1>3. Folder!SessionSetup = s \o t
  BY DEF Folder!SessionSetup, Folder!ClearEnvironment, Folder!RestoreLibs
<1> HIDE DEF s, t
<1>4. /\ s \o t \in Seq(Parts)
      /\ Len(s \o t) = 1 + 3
      /\ \A k \in 1 .. 1 + 3 : (s \o t)[k] = IF k <= 1 THEN s[k] ELSE t[k - 1]
  <2>1. /\ s \o t \in Seq(Parts) /\ Len(s \o t) = Len(s) + Len(t)
        /\ \A k \in 1 .. Len(s) + Len(t) :
              (s \o t)[k] = IF k <= Len(s) THEN s[k] ELSE t[k - Len(s)]
    BY <1>1, ConcatProperties
  <2> QED BY <1>1, <2>1
<1>5. (s \o t)[1] = s[1]
  BY <1>4
<1>6. (s \o t)[2] = t[1]
  BY <1>4
<1>7. (s \o t)[3] = t[2]
  BY <1>4
<1>8. (s \o t)[4] = t[3]
  BY <1>4
<1> QED BY <1>2, <1>3, <1>4, <1>5, <1>6, <1>7, <1>8

LEMMA ClearCommands ==
  /\ Folder!SoftClear \in Seq(Parts)
  /\ Len(Folder!SoftClear) = 7
  /\ Folder!SoftClear[1] = Folder!MkDir("project")
  /\ Folder!SoftClear[2] = Folder!Remove("cache")
  /\ Folder!SoftClear[3] = Folder!Move("project", "cache")
  /\ Folder!SoftClear[4] = Folder!ClearApi
  /\ Folder!SoftClear[5] = Folder!MkDir("cache")
  /\ Folder!SoftClear[6] = Folder!Remove("project")
  /\ Folder!SoftClear[7] = Folder!Move("cache", "project")
BY DEF Parts, Folder!SoftClear

LEMMA EndCommands ==
  /\ Folder!SessionTeardown \in Seq(Parts)
  /\ Len(Folder!SessionTeardown) = IF clean THEN 4 ELSE 3
  /\ Folder!SessionTeardown[1] = Folder!MkDir("project")
  /\ Folder!SessionTeardown[2] = Folder!MkDir("cache")
  /\ Folder!SessionTeardown[3] = Folder!CopyLibs("project", "cache")
  /\ clean => Folder!SessionTeardown[4] = Folder!ClearApi
<1> DEFINE s == <<Folder!MkDir("project"), Folder!MkDir("cache"), Folder!CopyLibs("project", "cache")>>
           t == IF clean THEN <<Folder!ClearApi>> ELSE <<>>
<1>1. s \in Seq(Parts) /\ Len(s) = 3 /\ t \in Seq(Parts) /\ Len(t) = IF clean THEN 1 ELSE 0
  <2>1. s \in Seq(Parts) /\ Len(s) = 3
    BY DEF Parts
  <2>2. CASE clean
    BY <2>1, <2>2 DEF Parts
  <2>3. CASE ~clean
    BY <2>1, <2>3
  <2> QED BY <2>2, <2>3
<1>2. s[1] = Folder!MkDir("project") /\ s[2] = Folder!MkDir("cache")
      /\ s[3] = Folder!CopyLibs("project", "cache")
  OBVIOUS
<1>3. clean => t[1] = Folder!ClearApi
  OBVIOUS
<1>4. Folder!SessionTeardown = s \o t
  BY DEF Folder!SessionTeardown, Folder!ClearEnvironment, Folder!CacheLibs
<1> HIDE DEF s, t
<1>5. /\ s \o t \in Seq(Parts)
      /\ Len(s \o t) = 3 + Len(t)
      /\ \A k \in 1 .. 3 + Len(t) : (s \o t)[k] = IF k <= 3 THEN s[k] ELSE t[k - 3]
  <2>1. /\ s \o t \in Seq(Parts) /\ Len(s \o t) = Len(s) + Len(t)
        /\ \A k \in 1 .. Len(s) + Len(t) :
              (s \o t)[k] = IF k <= Len(s) THEN s[k] ELSE t[k - Len(s)]
    BY <1>1, ConcatProperties
  <2> QED BY <1>1, <2>1
<1>6. (s \o t)[1] = s[1]
  BY <1>1, <1>5
<1>7. (s \o t)[2] = s[2]
  BY <1>1, <1>5
<1>8. (s \o t)[3] = s[3]
  BY <1>1, <1>5
<1>9. clean => (s \o t)[4] = t[1]
  BY <1>1, <1>5
<1>10. Len(s \o t) = IF clean THEN 4 ELSE 3
  BY <1>1, <1>5
<1> QED BY <1>2, <1>3, <1>4, <1>5, <1>6, <1>7, <1>8, <1>9, <1>10

\* What an export does once the project's files are in place.
LEMMA ExportCommands ==
  ASSUME NEW n, n = IF sameUser THEN 2 ELSE 5
  PROVE  /\ Folder!ExportServiceEntities \in Seq(Parts)
         /\ Len(Folder!ExportServiceEntities) = n + 4
         /\ Folder!ExportServiceEntities[n + 1] = Folder!Cmd("sync_modules", "project", "project")
         /\ Folder!ExportServiceEntities[n + 2] = Folder!Cmd("clear_extra", "project", "project")
         /\ Folder!ExportServiceEntities[n + 3] = Folder!Cmd("install", "project", "project")
         /\ Folder!ExportServiceEntities[n + 4] = Folder!Cmd("export", "project", "project")
         /\ Len(Folder!SyncFolder) = n
         /\ \A k \in 1 .. n : Folder!ExportServiceEntities[k] = Folder!SyncFolder[k]
<1> DEFINE s == Folder!SyncFolder
           t == <<Folder!Cmd("sync_modules", "project", "project"),
                  Folder!Cmd("clear_extra", "project", "project")>>
           u == <<Folder!Cmd("install", "project", "project"), Folder!Cmd("export", "project", "project")>>
<1>1. s \in Seq(Parts) /\ Len(s) = n
  <2>1. CASE sameUser
    BY <2>1 DEF Parts, Folder!SyncFolder
  <2>2. CASE ~sameUser
    BY <2>2 DEF Parts, Folder!SyncFolder
  <2> QED BY <2>1, <2>2
<1>2. t \in Seq(Parts) /\ Len(t) = 2 /\ u \in Seq(Parts) /\ Len(u) = 2
  BY DEF Parts
<1>3. t[1] = Folder!Cmd("sync_modules", "project", "project")
      /\ t[2] = Folder!Cmd("clear_extra", "project", "project")
      /\ u[1] = Folder!Cmd("install", "project", "project")
      /\ u[2] = Folder!Cmd("export", "project", "project")
  OBVIOUS
<1>4. Folder!ExportServiceEntities = (s \o t) \o u
  BY DEF Folder!ExportServiceEntities, Folder!SyncProject
<1>5. Len(Folder!SyncFolder) = n
  BY <1>1
<1> HIDE DEF s, t, u
<1>6. n \in Nat
  OBVIOUS
<1> DEFINE v == s \o t
<1>7. /\ v \in Seq(Parts)
      /\ Len(v) = n + 2
      /\ \A k \in 1 .. n + 2 : v[k] = IF k <= n THEN s[k] ELSE t[k - n]
  <2>1. /\ s \o t \in Seq(Parts) /\ Len(s \o t) = Len(s) + Len(t)
        /\ \A k \in 1 .. Len(s) + Len(t) :
              (s \o t)[k] = IF k <= Len(s) THEN s[k] ELSE t[k - Len(s)]
    BY <1>1, <1>2, ConcatProperties
  <2> QED BY <1>1, <1>2, <1>6, <2>1
<1>8. Folder!ExportServiceEntities = v \o u
  BY <1>4
<1> HIDE DEF v
<1>9. n + 2 \in Nat
  BY <1>6
<1>10. /\ v \o u \in Seq(Parts)
       /\ Len(v \o u) = (n + 2) + 2
       /\ \A k \in 1 .. (n + 2) + 2 : (v \o u)[k] = IF k <= n + 2 THEN v[k] ELSE u[k - (n + 2)]
  <2>1. /\ v \o u \in Seq(Parts) /\ Len(v \o u) = Len(v) + Len(u)
        /\ \A k \in 1 .. Len(v) + Len(u) :
              (v \o u)[k] = IF k <= Len(v) THEN v[k] ELSE u[k - Len(v)]
    BY <1>2, <1>7, ConcatProperties
  <2> QED BY <1>2, <1>7, <1>9, <2>1
<1>11. \A k \in 1 .. n : (v \o u)[k] = s[k]
  BY <1>6, <1>7, <1>10
<1>12. (v \o u)[n + 1] = t[1]
  <2>1. n + 1 \in 1 .. n + 2 /\ ~(n + 1 <= n) /\ (n + 1) - n = 1 /\ n + 1 \in 1 .. (n + 2) + 2
    BY <1>6
  <2> QED BY <1>7, <1>10, <2>1
<1>13. (v \o u)[n + 2] = t[2]
  <2>1. n + 2 \in 1 .. n + 2 /\ ~(n + 2 <= n) /\ (n + 2) - n = 2 /\ n + 2 \in 1 .. (n + 2) + 2
    BY <1>6
  <2> QED BY <1>7, <1>10, <2>1
<1>14. (v \o u)[n + 3] = u[1]
  <2>1. n + 3 \in 1 .. (n + 2) + 2 /\ ~(n + 3 <= n + 2) /\ (n + 3) - (n + 2) = 1
    BY <1>6
  <2> QED BY <1>10, <2>1
<1>15. (v \o u)[n + 4] = u[2]
  <2>1. n + 4 \in 1 .. (n + 2) + 2 /\ ~(n + 4 <= n + 2) /\ (n + 4) - (n + 2) = 2
    BY <1>6
  <2> QED BY <1>10, <2>1
<1>16. (n + 2) + 2 = n + 4
  BY <1>6
<1> QED BY <1>3, <1>5, <1>8, <1>10, <1>11, <1>12, <1>13, <1>14, <1>15, <1>16 DEF s

LEMMA SyncCommands ==
  /\ sameUser =>
        /\ Folder!SyncFolder[1] = Folder!MkDir("project")
        /\ Folder!SyncFolder[2] = Folder!Cmd("rsync_project", "project", "project")
  /\ ~sameUser =>
        /\ Folder!SyncFolder[1] = Folder!MkDir("project")
        /\ Folder!SyncFolder[2] = Folder!Remove("tmp")
        /\ Folder!SyncFolder[3] = Folder!Move("project", "tmp")
        /\ Folder!SyncFolder[4] = Folder!Cmd("rsync_project", "tmp", "tmp")
        /\ Folder!SyncFolder[5] = Folder!Move("tmp", "project")
BY DEF Folder!SyncFolder

\* What each part of a command leaves on the disk.
LEMMA EffectOfMkDir ==
  ASSUME NEW place
  PROVE  Folder!Effect(Folder!MkDir(place)) = [disk EXCEPT ![place] = Folder!Made(place)]
BY DEF Folder!Effect, Folder!MkDir, Folder!Cmd

LEMMA EffectOfRemove ==
  ASSUME NEW place
  PROVE  Folder!Effect(Folder!Remove(place)) = [disk EXCEPT ![place] = NoFolder]
BY DEF Folder!Effect, Folder!Remove, Folder!Cmd

LEMMA EffectOfClear ==
  Folder!Effect(Folder!ClearApi) = [disk EXCEPT !["project"] = NoFolder]
BY DEF Folder!Effect, Folder!ClearApi, Folder!Cmd

LEMMA EffectOfMove ==
  ASSUME NEW from, NEW to, disk[to] = NoFolder
  PROVE  Folder!Effect(Folder!Move(from, to)) = [disk EXCEPT ![from] = NoFolder, ![to] = disk[from]]
BY DEF Folder!Effect, Folder!Move, Folder!Cmd

LEMMA EffectOfCopyLibs ==
  ASSUME NEW from, NEW to
  PROVE  Folder!Effect(Folder!CopyLibs(from, to)) =
             [disk EXCEPT ![to] = [Folder!Made(to) EXCEPT !.libs = Folder!Made(from).libs]]
BY DEF Folder!Effect, Folder!CopyLibs, Folder!Cmd

LEMMA EffectOfTheRest ==
  ASSUME NEW to
  PROVE  /\ Folder!Effect(Folder!Cmd("rsync_project", to, to)) = [disk EXCEPT ![to].files = local.files]
         /\ Folder!Effect(Folder!Cmd("sync_modules", to, to)) = [disk EXCEPT ![to].libs = @ \cup local.modules]
         /\ Folder!Effect(Folder!Cmd("clear_extra", to, to)) = [disk EXCEPT ![to].libs = local.modules]
         /\ Folder!Effect(Folder!Cmd("install", to, to)) = [disk EXCEPT ![to].env = TRUE]
         /\ Folder!Effect(Folder!Cmd("export", to, to)) = disk
BY DEF Folder!Effect, Folder!Cmd

LEMMA TidyFolders ==
  ASSUME NoFolder \notin Folder!Folders
  PROVE  Folder!Empty \in Folder!Folders /\ Tidy(Folder!Empty) /\ Tidy(NoFolder) /\ Folder!Empty # NoFolder
<1>1. Folder!Empty \in Folder!Folders
  BY DEF Folder!Empty, Folder!Folders
<1>2. Folder!Empty.nested = FALSE
  BY DEF Folder!Empty
<1> QED BY <1>1, <1>2 DEF Tidy

LEMMA FoldersStayTidy ==
  ASSUME NEW folder \in Folder!Folders, folder.nested = FALSE,
         NEW libs \in SUBSET Modules, NEW files \in Versions
  PROVE  /\ [folder EXCEPT !.libs = libs] \in Folder!Folders /\ Tidy([folder EXCEPT !.libs = libs])
         /\ [folder EXCEPT !.files = files] \in Folder!Folders /\ Tidy([folder EXCEPT !.files = files])
         /\ [folder EXCEPT !.env = TRUE] \in Folder!Folders /\ Tidy([folder EXCEPT !.env = TRUE])
<1>1. [folder EXCEPT !.libs = libs] \in Folder!Folders /\ [folder EXCEPT !.libs = libs].nested = FALSE
  BY DEF Folder!Folders
<1>2. [folder EXCEPT !.files = files] \in Folder!Folders /\ [folder EXCEPT !.files = files].nested = FALSE
  BY DEF Folder!Folders
<1>3. [folder EXCEPT !.env = TRUE] \in Folder!Folders /\ [folder EXCEPT !.env = TRUE].nested = FALSE
  BY DEF Folder!Folders
<1> QED BY <1>1, <1>2, <1>3 DEF Tidy

\* One place of the disk changes.
LEMMA DiskChanges ==
  ASSUME TidyDisk, NEW place \in Folder!Places, NEW folder \in Folder!Folders \cup {NoFolder},
         Tidy(folder), disk' = [disk EXCEPT ![place] = folder]
  PROVE  /\ TidyDisk'
         /\ disk'[place] = folder
         /\ \A other \in Folder!Places \ {place} : disk'[other] = disk[other]
<1>1. /\ disk' \in [Folder!Places -> {one \in Folder!Folders \cup {NoFolder} : Tidy(one)}]
      /\ disk'[place] = folder
      /\ \A other \in Folder!Places \ {place} : disk'[other] = disk[other]
  BY DEF TidyDisk
<1> QED BY <1>1 DEF TidyDisk, Tidy, Folder!Places, Folder!Folders

LEMMA PlacesAre ==
  "project" \in Folder!Places /\ "cache" \in Folder!Places /\ "tmp" \in Folder!Places
BY DEF Folder!Places

\* What is in a place, or mkdir puts there.
LEMMA MadeIsThere ==
  ASSUME NoFolder \notin Folder!Folders, TidyDisk, NEW place \in Folder!Places
  PROVE  /\ Folder!Made(place) \in Folder!Folders /\ Tidy(Folder!Made(place))
         /\ Folder!Made(place) # NoFolder
         /\ Folder!Made(place).libs \in SUBSET Modules
<1>1. disk[place] \in Folder!Folders \cup {NoFolder} /\ Tidy(disk[place])
  BY DEF TidyDisk
<1>2. Folder!Made(place) \in Folder!Folders /\ Tidy(Folder!Made(place))
  BY <1>1, TidyFolders DEF Folder!Made
<1> QED BY <1>2 DEF Folder!Folders

LEMMA MkDirChanges ==
  ASSUME NoFolder \notin Folder!Folders, TidyDisk, NEW place \in Folder!Places,
         disk' = Folder!Effect(Folder!MkDir(place))
  PROVE  /\ TidyDisk'
         /\ disk'[place] = Folder!Made(place) /\ disk'[place] # NoFolder
         /\ \A other \in Folder!Places \ {place} : disk'[other] = disk[other]
BY EffectOfMkDir, MadeIsThere, DiskChanges

LEMMA RemoveChanges ==
  ASSUME NoFolder \notin Folder!Folders, TidyDisk, NEW place \in Folder!Places,
         disk' = Folder!Effect(Folder!Remove(place))
  PROVE  /\ TidyDisk'
         /\ disk'[place] = NoFolder
         /\ \A other \in Folder!Places \ {place} : disk'[other] = disk[other]
BY EffectOfRemove, TidyFolders, DiskChanges

LEMMA ClearChanges ==
  ASSUME NoFolder \notin Folder!Folders, TidyDisk, disk' = Folder!Effect(Folder!ClearApi)
  PROVE  /\ TidyDisk'
         /\ disk'["project"] = NoFolder
         /\ \A other \in Folder!Places \ {"project"} : disk'[other] = disk[other]
BY EffectOfClear, TidyFolders, DiskChanges, PlacesAre

\* mv to a place where nothing is.
LEMMA MoveChanges ==
  ASSUME TidyDisk, NEW from \in Folder!Places, NEW to \in Folder!Places, from # to,
         disk[to] = NoFolder, disk' = Folder!Effect(Folder!Move(from, to))
  PROVE  /\ TidyDisk'
         /\ disk'[from] = NoFolder /\ disk'[to] = disk[from]
         /\ \A other \in Folder!Places \ {from, to} : disk'[other] = disk[other]
<1>1. disk' = [disk EXCEPT ![from] = NoFolder, ![to] = disk[from]]
  BY EffectOfMove
<1>2. disk[from] \in Folder!Folders \cup {NoFolder} /\ Tidy(disk[from]) /\ Tidy(NoFolder)
  BY DEF TidyDisk, Tidy
<1>3. /\ disk' \in [Folder!Places -> {one \in Folder!Folders \cup {NoFolder} : Tidy(one)}]
      /\ disk'[from] = NoFolder /\ disk'[to] = disk[from]
      /\ \A other \in Folder!Places \ {from, to} : disk'[other] = disk[other]
  BY <1>1, <1>2 DEF TidyDisk
<1> QED BY <1>3 DEF TidyDisk, Tidy, Folder!Places, Folder!Folders

LEMMA CopyLibsChanges ==
  ASSUME NoFolder \notin Folder!Folders, TidyDisk, NEW from \in Folder!Places, NEW to \in Folder!Places,
         disk' = Folder!Effect(Folder!CopyLibs(from, to))
  PROVE  /\ TidyDisk'
         /\ disk'[to] = [Folder!Made(to) EXCEPT !.libs = Folder!Made(from).libs]
         /\ disk'[to] # NoFolder /\ disk'[to].libs = Folder!Made(from).libs
         /\ \A other \in Folder!Places \ {to} : disk'[other] = disk[other]
<1>1. Folder!Made(from).libs \in SUBSET Modules
  BY MadeIsThere
<1>2. Folder!Made(to) \in Folder!Folders /\ Tidy(Folder!Made(to))
  BY MadeIsThere
<1>3. /\ [Folder!Made(to) EXCEPT !.libs = Folder!Made(from).libs] \in Folder!Folders
      /\ Tidy([Folder!Made(to) EXCEPT !.libs = Folder!Made(from).libs])
  <2>1. Folder!Made(to).nested = FALSE
    BY MadeIsThere DEF Tidy
  <2>2. /\ [Folder!Made(to) EXCEPT !.libs = Folder!Made(from).libs] \in Folder!Folders
        /\ [Folder!Made(to) EXCEPT !.libs = Folder!Made(from).libs].nested = FALSE
    BY <1>1, <1>2, <2>1 DEF Folder!Folders
  <2> QED BY <2>2 DEF Tidy
<1>4. [Folder!Made(to) EXCEPT !.libs = Folder!Made(from).libs].libs = Folder!Made(from).libs
  BY <1>2 DEF Folder!Folders
<1> QED BY <1>3, <1>4, EffectOfCopyLibs, DiskChanges

\* The parts that change a folder in place.
LEMMA FieldChanges ==
  ASSUME NoFolder \notin Folder!Folders, local \in Folder!Projects, TidyDisk,
         NEW to \in Folder!Places, disk[to] # NoFolder
  PROVE  /\ disk' = Folder!Effect(Folder!Cmd("rsync_project", to, to)) =>
               TidyDisk' /\ disk'[to] = [disk[to] EXCEPT !.files = local.files]
         /\ disk' = Folder!Effect(Folder!Cmd("sync_modules", to, to)) =>
               TidyDisk' /\ disk'[to] = [disk[to] EXCEPT !.libs = disk[to].libs \cup local.modules]
         /\ disk' = Folder!Effect(Folder!Cmd("clear_extra", to, to)) =>
               TidyDisk' /\ disk'[to] = [disk[to] EXCEPT !.libs = local.modules]
         /\ disk' = Folder!Effect(Folder!Cmd("install", to, to)) =>
               TidyDisk' /\ disk'[to] = [disk[to] EXCEPT !.env = TRUE]
         /\ \A name \in {"rsync_project", "sync_modules", "clear_extra", "install"} :
               disk' = Folder!Effect(Folder!Cmd(name, to, to)) =>
                   /\ disk'[to] # NoFolder
                   /\ \A other \in Folder!Places \ {to} : disk'[other] = disk[other]
<1>1. disk[to] \in Folder!Folders /\ disk[to].nested = FALSE
  BY DEF TidyDisk, Tidy
<1>2. local.files \in Versions /\ local.modules \in SUBSET Modules
  BY DEF Folder!Projects
<1>3. disk[to].libs \cup local.modules \in SUBSET Modules
  BY <1>1, <1>2 DEF Folder!Folders
<1>4. disk \in [Folder!Places -> Folder!Folders \cup {NoFolder}]
  BY DEF TidyDisk
<1>5. /\ Folder!Effect(Folder!Cmd("rsync_project", to, to)) =
             [disk EXCEPT ![to] = [disk[to] EXCEPT !.files = local.files]]
      /\ Folder!Effect(Folder!Cmd("sync_modules", to, to)) =
             [disk EXCEPT ![to] = [disk[to] EXCEPT !.libs = disk[to].libs \cup local.modules]]
      /\ Folder!Effect(Folder!Cmd("clear_extra", to, to)) =
             [disk EXCEPT ![to] = [disk[to] EXCEPT !.libs = local.modules]]
      /\ Folder!Effect(Folder!Cmd("install", to, to)) =
             [disk EXCEPT ![to] = [disk[to] EXCEPT !.env = TRUE]]
  BY <1>1, <1>4, EffectOfTheRest DEF Folder!Folders
<1>6. /\ [disk[to] EXCEPT !.files = local.files] \in Folder!Folders
      /\ Tidy([disk[to] EXCEPT !.files = local.files])
      /\ [disk[to] EXCEPT !.libs = local.modules] \in Folder!Folders
      /\ Tidy([disk[to] EXCEPT !.libs = local.modules])
      /\ [disk[to] EXCEPT !.env = TRUE] \in Folder!Folders
      /\ Tidy([disk[to] EXCEPT !.env = TRUE])
  BY <1>1, <1>2, FoldersStayTidy
<1>7. /\ [disk[to] EXCEPT !.libs = disk[to].libs \cup local.modules] \in Folder!Folders
      /\ Tidy([disk[to] EXCEPT !.libs = disk[to].libs \cup local.modules])
  BY <1>1, <1>2, <1>3, FoldersStayTidy
<1>8. ASSUME NEW folder \in Folder!Folders, Tidy(folder), disk' = [disk EXCEPT ![to] = folder]
      PROVE  TidyDisk' /\ disk'[to] = folder /\ folder # NoFolder /\ \A other \in Folder!Places \ {to} : disk'[other] = disk[other]
  BY <1>8, DiskChanges
<1> QED BY <1>5, <1>6, <1>7, <1>8

\* What a command finds: the task's settings do not change, and the next one is c.
Runs(c) ==
    /\ NoFolder \notin Folder!Folders /\ TidyDisk
    /\ disk' = Folder!Effect(c)
    /\ UNCHANGED <<local, sameUser, clean, task, folderBefore>>

\* The cache is left alone, but for mkdir -p.
CacheKept == disk["cache"] # NoFolder => disk'["cache"] = disk["cache"]

LEMMA StartStep ==
  ASSUME NEW k \in 1 .. 4, task = "start_session", StartFits(k), Runs(Folder!SessionSetup[k])
  PROVE  TidyDisk' /\ StartFits(k + 1)' /\ CacheKept
<1>1. NoFolder \notin Folder!Folders /\ TidyDisk /\ disk' = Folder!Effect(Folder!SessionSetup[k])
  BY DEF Runs
<1>2. CASE k = 1
  <2>1. TidyDisk' /\ disk'["project"] = NoFolder /\ disk'["cache"] = disk["cache"]
    BY <1>1, <1>2, StartCommands, ClearChanges, PlacesAre
  <2>2. StartFits(2)'
    BY <2>1 DEF StartFits
  <2> QED BY <1>2, <2>1, <2>2 DEF CacheKept
<1>3. CASE k = 2
  <2>1. disk["project"] = NoFolder
    BY <1>3 DEF StartFits
  <2>2. disk' = Folder!Effect(Folder!MkDir("project"))
    BY <1>1, <1>3, StartCommands
  <2>3. TidyDisk' /\ disk'["project"] = Folder!Made("project") /\ disk'["cache"] = disk["cache"]
    BY <1>1, <2>2, MkDirChanges, PlacesAre
  <2>4. disk'["project"] = Folder!Empty
    BY <2>1, <2>3 DEF Folder!Made
  <2>5. StartFits(3)'
    BY <2>3, <2>4 DEF StartFits, Folder!Empty
  <2> QED BY <1>3, <2>3, <2>4, <2>5 DEF CacheKept
<1>4. CASE k = 3
  <2>1. disk["project"] = Folder!Empty
    BY <1>4 DEF StartFits
  <2>2. disk' = Folder!Effect(Folder!MkDir("cache"))
    BY <1>1, <1>4, StartCommands
  <2>3. TidyDisk' /\ disk'["cache"] = Folder!Made("cache") /\ disk'["cache"] # NoFolder
        /\ disk'["project"] = disk["project"]
    BY <1>1, <2>2, MkDirChanges, PlacesAre
  <2>4. CacheKept
    BY <2>3 DEF CacheKept, Folder!Made
  <2>6. StartFits(4)'
    BY <2>1, <2>3, <2>4 DEF StartFits, Folder!Empty
  <2> QED BY <1>4, <2>1, <2>3, <2>4, <2>6
<1>5. CASE k = 4
  <2>1. disk["project"] = Folder!Empty /\ disk["cache"] # NoFolder /\ Folder!Empty # NoFolder
    BY <1>1, <1>5, TidyFolders DEF StartFits
  <2>2. disk' = Folder!Effect(Folder!CopyLibs("cache", "project"))
    BY <1>1, <1>5, StartCommands
  <2>3. /\ TidyDisk'
        /\ disk'["project"] = [Folder!Made("project") EXCEPT !.libs = Folder!Made("cache").libs]
        /\ disk'["cache"] = disk["cache"]
    BY <1>1, <2>2, CopyLibsChanges, PlacesAre
  <2>4. Folder!Made("project") = Folder!Empty /\ Folder!Made("cache") = disk["cache"]
    BY <2>1 DEF Folder!Made
  <2>5. OnlyLibs'
    BY <2>1, <2>3, <2>4 DEF OnlyLibs, Folder!Empty
  <2>6. StartFits(5)'
    BY <2>1, <2>3, <2>5 DEF StartFits, Folder!Empty
  <2> QED BY <1>5, <2>1, <2>3, <2>5, <2>6 DEF CacheKept
<1> QED BY <1>2, <1>3, <1>4, <1>5

LEMMA ClearStep ==
  ASSUME NEW k \in 1 .. 7, task = "clear", ClearFits(k), Runs(Folder!SoftClear[k])
  PROVE  TidyDisk' /\ ClearFits(k + 1)'
<1>1. NoFolder \notin Folder!Folders /\ TidyDisk /\ disk' = Folder!Effect(Folder!SoftClear[k])
      /\ UNCHANGED folderBefore
  BY DEF Runs
<1>2. Kept' = Kept
  BY <1>1 DEF Kept, Folder!Empty
<1>3. CASE k = 1
  <2>1. disk["project"] = folderBefore
    BY <1>3 DEF ClearFits
  <2>2. disk' = Folder!Effect(Folder!MkDir("project"))
    BY <1>1, <1>3, ClearCommands
  <2>3. TidyDisk' /\ disk'["project"] = Folder!Made("project")
    BY <1>1, <2>2, MkDirChanges, PlacesAre
  <2>4. disk'["project"] = Kept
    BY <2>1, <2>3 DEF Folder!Made, Kept
  <2> QED BY <1>2, <1>3, <2>3, <2>4 DEF ClearFits
<1>4. CASE k = 2
  <2>1. disk["project"] = Kept
    BY <1>4 DEF ClearFits
  <2>2. disk' = Folder!Effect(Folder!Remove("cache"))
    BY <1>1, <1>4, ClearCommands
  <2>3. TidyDisk' /\ disk'["cache"] = NoFolder /\ disk'["project"] = disk["project"]
    BY <1>1, <2>2, RemoveChanges, PlacesAre
  <2> QED BY <1>2, <1>4, <2>1, <2>3 DEF ClearFits
<1>5. CASE k = 3
  <2>1. disk["project"] = Kept /\ disk["cache"] = NoFolder
    BY <1>5 DEF ClearFits
  <2>2. disk' = Folder!Effect(Folder!Move("project", "cache"))
    BY <1>1, <1>5, ClearCommands
  <2>3. TidyDisk' /\ disk'["project"] = NoFolder /\ disk'["cache"] = disk["project"]
    BY <1>1, <2>1, <2>2, MoveChanges, PlacesAre
  <2> QED BY <1>2, <1>5, <2>1, <2>3 DEF ClearFits
<1>6. CASE k = 4
  <2>1. disk["cache"] = Kept
    BY <1>6 DEF ClearFits
  <2>2. disk' = Folder!Effect(Folder!ClearApi)
    BY <1>1, <1>6, ClearCommands
  <2>3. TidyDisk' /\ disk'["project"] = NoFolder /\ disk'["cache"] = disk["cache"]
    BY <1>1, <2>2, ClearChanges, PlacesAre
  <2> QED BY <1>2, <1>6, <2>1, <2>3 DEF ClearFits
<1>7. CASE k = 5
  <2>1. disk["cache"] = Kept /\ disk["project"] = NoFolder
    BY <1>7 DEF ClearFits
  <2>2. disk["cache"] # NoFolder
    BY <1>1, <2>1, TidyFolders DEF Kept
  <2>3. disk' = Folder!Effect(Folder!MkDir("cache"))
    BY <1>1, <1>7, ClearCommands
  <2>4. TidyDisk' /\ disk'["cache"] = Folder!Made("cache") /\ disk'["project"] = disk["project"]
    BY <1>1, <2>3, MkDirChanges, PlacesAre
  <2>5. disk'["cache"] = Kept
    BY <2>1, <2>2, <2>4 DEF Folder!Made
  <2> QED BY <1>2, <1>7, <2>1, <2>4, <2>5 DEF ClearFits
<1>8. CASE k = 6
  <2>1. disk["cache"] = Kept
    BY <1>8 DEF ClearFits
  <2>2. disk' = Folder!Effect(Folder!Remove("project"))
    BY <1>1, <1>8, ClearCommands
  <2>3. TidyDisk' /\ disk'["project"] = NoFolder /\ disk'["cache"] = disk["cache"]
    BY <1>1, <2>2, RemoveChanges, PlacesAre
  <2> QED BY <1>2, <1>8, <2>1, <2>3 DEF ClearFits
<1>9. CASE k = 7
  <2>1. disk["cache"] = Kept /\ disk["project"] = NoFolder
    BY <1>9 DEF ClearFits
  <2>2. disk' = Folder!Effect(Folder!Move("cache", "project"))
    BY <1>1, <1>9, ClearCommands
  <2>3. TidyDisk' /\ disk'["project"] = disk["cache"]
    BY <1>1, <2>1, <2>2, MoveChanges, PlacesAre
  <2> QED BY <1>2, <1>9, <2>1, <2>3 DEF ClearFits
<1> QED BY <1>3, <1>4, <1>5, <1>6, <1>7, <1>8, <1>9

LEMMA EndStep ==
  ASSUME NEW k \in 1 .. 4, k = 4 => clean, task = "end_session", EndFits(k),
         Runs(Folder!SessionTeardown[k])
  PROVE  TidyDisk' /\ EndFits(k + 1)'
<1>1. NoFolder \notin Folder!Folders /\ TidyDisk /\ disk' = Folder!Effect(Folder!SessionTeardown[k])
      /\ UNCHANGED folderBefore
  BY DEF Runs
<1>2. Kept' = Kept
  BY <1>1 DEF Kept, Folder!Empty
<1>3. CASE k = 1
  <2>1. disk["project"] = folderBefore
    BY <1>3 DEF EndFits
  <2>2. disk' = Folder!Effect(Folder!MkDir("project"))
    BY <1>1, <1>3, EndCommands
  <2>3. TidyDisk' /\ disk'["project"] = Folder!Made("project")
    BY <1>1, <2>2, MkDirChanges, PlacesAre
  <2>4. disk'["project"] = Kept
    BY <2>1, <2>3 DEF Folder!Made, Kept
  <2>5. EndFits(2)'
    BY <1>2, <2>3, <2>4 DEF EndFits
  <2> QED BY <1>3, <2>3, <2>4, <2>5
<1>4. CASE k = 2
  <2>1. disk["project"] = Kept
    BY <1>4 DEF EndFits
  <2>2. disk' = Folder!Effect(Folder!MkDir("cache"))
    BY <1>1, <1>4, EndCommands
  <2>3. TidyDisk' /\ disk'["project"] = disk["project"]
    BY <1>1, <2>2, MkDirChanges, PlacesAre
  <2>6. EndFits(3)'
    BY <1>2, <2>1, <2>3 DEF EndFits
  <2> QED BY <1>4, <2>1, <2>3, <2>6
<1>5. CASE k = 3
  <2>1. disk["project"] = Kept
    BY <1>5 DEF EndFits
  <2>2. Kept # NoFolder
    BY <1>1, TidyFolders DEF Kept
  <2>3. disk' = Folder!Effect(Folder!CopyLibs("project", "cache"))
    BY <1>1, <1>5, EndCommands
  <2>4. TidyDisk' /\ disk'["cache"] # NoFolder /\ disk'["cache"].libs = Folder!Made("project").libs
    BY <1>1, <2>3, CopyLibsChanges, PlacesAre
  <2>5. Folder!Made("project") = Kept
    BY <2>1, <2>2 DEF Folder!Made
  <2>6. LibsKept'
    BY <1>2, <2>4, <2>5 DEF LibsKept
  <2>7. EndFits(4)'
    BY <2>6 DEF EndFits
  <2> QED BY <1>5, <2>4, <2>6, <2>7
<1>6. CASE k = 4
  <2>1. LibsKept
    BY <1>6 DEF EndFits
  <2>2. disk' = Folder!Effect(Folder!ClearApi)
    BY <1>1, <1>6, EndCommands
  <2>3. TidyDisk' /\ disk'["cache"] = disk["cache"]
    BY <1>1, <2>2, ClearChanges, PlacesAre
  <2>4. LibsKept'
    BY <1>2, <2>1, <2>3 DEF LibsKept
  <2>8. EndFits(5)'
    BY <2>3, <2>4 DEF EndFits
  <2> QED BY <1>6, <2>3, <2>4, <2>8
<1> QED BY <1>3, <1>4, <1>5, <1>6

\* The last four parts of an export, which both ways of a sync share.
SharedPart(position) ==
    CASE position = 1 -> Folder!Cmd("sync_modules", "project", "project")
      [] position = 2 -> Folder!Cmd("clear_extra", "project", "project")
      [] position = 3 -> Folder!Cmd("install", "project", "project")
      [] position = 4 -> Folder!Cmd("export", "project", "project")

LEMMA SharedStep ==
  ASSUME NEW position \in 1 .. 4, local \in Folder!Projects, SyncedFits(position),
         Runs(SharedPart(position))
  PROVE  TidyDisk' /\ SyncedFits(position + 1)' /\ disk'["cache"] = disk["cache"]
<1>1. NoFolder \notin Folder!Folders /\ TidyDisk /\ disk' = Folder!Effect(SharedPart(position))
      /\ local' = local
  BY DEF Runs
<1>2. disk["project"] # NoFolder /\ disk["project"].files = local.files
  BY DEF SyncedFits
<1>3. disk["project"] \in Folder!Folders
  BY <1>1, <1>2, PlacesAre DEF TidyDisk
<1>4. \A folder \in Folder!Folders : folder # NoFolder
  BY <1>1
<1>5. CASE position = 1
  <2>1. disk' = Folder!Effect(Folder!Cmd("sync_modules", "project", "project"))
    BY <1>1, <1>5 DEF SharedPart
  <2>2. /\ TidyDisk' /\ disk'["cache"] = disk["cache"]
        /\ disk'["project"] = [disk["project"] EXCEPT !.libs = disk["project"].libs \cup local.modules]
    BY <1>1, <1>2, <2>1, FieldChanges, PlacesAre
  <2>3. disk'["project"] # NoFolder
    BY <1>1, <1>2, <2>1, FieldChanges, PlacesAre
  <2>4. disk'["project"].files = disk["project"].files
    BY <1>3, <2>2 DEF Folder!Folders
  <2>5. SyncedFits(2)'
    BY <1>1, <1>2, <2>3, <2>4 DEF SyncedFits
  <2> QED BY <1>5, <2>2, <2>5
<1>6. CASE position = 2
  <2>1. disk' = Folder!Effect(Folder!Cmd("clear_extra", "project", "project"))
    BY <1>1, <1>6 DEF SharedPart
  <2>2. /\ TidyDisk' /\ disk'["cache"] = disk["cache"]
        /\ disk'["project"] = [disk["project"] EXCEPT !.libs = local.modules]
    BY <1>1, <1>2, <2>1, FieldChanges, PlacesAre
  <2>3. disk'["project"] # NoFolder
    BY <1>1, <1>2, <2>1, FieldChanges, PlacesAre
  <2>4. disk'["project"].files = disk["project"].files /\ disk'["project"].libs = local.modules
    BY <1>3, <2>2 DEF Folder!Folders
  <2>5. SyncedFits(3)'
    BY <1>1, <1>2, <2>3, <2>4 DEF SyncedFits
  <2> QED BY <1>6, <2>2, <2>5
<1>7. CASE position = 3
  <2>1. disk' = Folder!Effect(Folder!Cmd("install", "project", "project"))
    BY <1>1, <1>7 DEF SharedPart
  <2>2. /\ TidyDisk' /\ disk'["cache"] = disk["cache"]
        /\ disk'["project"] = [disk["project"] EXCEPT !.env = TRUE]
    BY <1>1, <1>2, <2>1, FieldChanges, PlacesAre
  <2>3. disk'["project"] # NoFolder
    BY <1>1, <1>2, <2>1, FieldChanges, PlacesAre
  <2>4. disk'["project"].files = disk["project"].files /\ disk'["project"].libs = disk["project"].libs
        /\ disk'["project"].env = TRUE
    BY <1>3, <2>2 DEF Folder!Folders
  <2>5. disk["project"].libs = local.modules
    BY <1>7 DEF SyncedFits
  <2>6. SyncedFits(4)'
    BY <1>1, <1>2, <2>3, <2>4, <2>5 DEF SyncedFits
  <2> QED BY <1>7, <2>2, <2>6
<1>8. CASE position = 4
  <2>1. disk' = disk
    BY <1>1, <1>8, EffectOfTheRest DEF SharedPart
  <2>2. disk["project"].libs = local.modules /\ disk["project"].env = TRUE
    BY <1>8 DEF SyncedFits
  <2>3. SyncedFits(5)'
    BY <1>1, <1>2, <2>1, <2>2 DEF SyncedFits
  <2>4. TidyDisk'
    BY <1>1, <2>1 DEF TidyDisk, Tidy, Folder!Places, Folder!Folders
  <2> QED BY <1>8, <2>1, <2>3, <2>4
<1> QED BY <1>5, <1>6, <1>7, <1>8

\* The last parts of an export, by position.
LEMMA SharedCommands ==
  ASSUME NEW n, n = IF sameUser THEN 2 ELSE 5, NEW position \in 1 .. 4
  PROVE  Folder!ExportServiceEntities[n + position] = SharedPart(position)
BY ExportCommands DEF SharedPart

LEMMA ExportStep ==
  ASSUME NEW k \in 1 .. Len(Folder!ExportServiceEntities), task = "export",
         local \in Folder!Projects, sameUser \in BOOLEAN, ExportFits(k),
         Runs(Folder!ExportServiceEntities[k])
  PROVE  TidyDisk' /\ ExportFits(k + 1)' /\ disk'["cache"] = disk["cache"]
<1>1. NoFolder \notin Folder!Folders /\ TidyDisk /\ disk' = Folder!Effect(Folder!ExportServiceEntities[k])
      /\ local' = local /\ sameUser' = sameUser
  BY DEF Runs
<1>2. CASE sameUser
  <2>1. k \in 1 .. 6 /\ \A i \in 1 .. 2 : Folder!ExportServiceEntities[i] = Folder!SyncFolder[i]
    BY <1>2, ExportCommands
  <2>2. CASE k = 1
    <3>1. disk' = Folder!Effect(Folder!MkDir("project"))
      BY <1>1, <1>2, <2>1, <2>2, SyncCommands
    <3>2. TidyDisk' /\ disk'["project"] # NoFolder /\ disk'["cache"] = disk["cache"]
      BY <1>1, <3>1, MkDirChanges, PlacesAre
    <3>3. ExportFits(2)'
      BY <1>1, <1>2, <3>2 DEF ExportFits
    <3> QED BY <2>2, <3>2, <3>3
  <2>3. CASE k = 2
    <3>1. disk["project"] # NoFolder
      BY <1>2, <2>3 DEF ExportFits
    <3>2. disk' = Folder!Effect(Folder!Cmd("rsync_project", "project", "project"))
      BY <1>1, <1>2, <2>1, <2>3, SyncCommands
    <3>3. /\ TidyDisk' /\ disk'["cache"] = disk["cache"]
          /\ disk'["project"] = [disk["project"] EXCEPT !.files = local.files]
      BY <1>1, <3>1, <3>2, FieldChanges, PlacesAre
    <3>4. disk["project"] \in Folder!Folders
      BY <1>1, <3>1, PlacesAre DEF TidyDisk
    <3>5. disk'["project"] # NoFolder /\ disk'["project"].files = local.files
      <4>1. disk'["project"] # NoFolder
        BY <1>1, <3>1, <3>2, FieldChanges, PlacesAre
      <4>2. disk'["project"].files = local.files
        BY <3>3, <3>4 DEF Folder!Folders
      <4> QED BY <4>1, <4>2
    <3>6. SyncedFits(1)'
      BY <1>1, <3>5 DEF SyncedFits
    <3>7. ExportFits(3)'
      BY <1>1, <1>2, <3>6 DEF ExportFits
    <3> QED BY <2>3, <3>3, <3>7
  <2>4. CASE k \in 3 .. 6
    <3> DEFINE position == k - 2
    <3>1. position \in 1 .. 4 /\ 2 + position = k
      BY <2>4
    <3>2. SyncedFits(position)
      BY <1>2, <2>4 DEF ExportFits
    <3>3. Folder!ExportServiceEntities[2 + position] = SharedPart(position)
      BY <1>2, <3>1, SharedCommands
    <3>4. Runs(SharedPart(position))
      BY <3>1, <3>3
    <3>5. TidyDisk' /\ SyncedFits(position + 1)' /\ disk'["cache"] = disk["cache"]
      BY <3>1, <3>2, <3>4, SharedStep
    <3>6. position + 1 = (k + 1) - 2 /\ k + 1 \in 3 .. 7 /\ k + 1 # 2
      BY <2>4
    <3>7. ExportFits(k + 1)'
      BY <1>1, <1>2, <3>5, <3>6 DEF ExportFits
    <3> QED BY <3>5, <3>7
  <2> QED BY <2>1, <2>2, <2>3, <2>4
<1>3. CASE ~sameUser
  <2>1. k \in 1 .. 9 /\ \A i \in 1 .. 5 : Folder!ExportServiceEntities[i] = Folder!SyncFolder[i]
    BY <1>3, ExportCommands
  <2>2. CASE k = 1
    <3>1. disk' = Folder!Effect(Folder!MkDir("project"))
      BY <1>1, <1>3, <2>1, <2>2, SyncCommands
    <3>2. TidyDisk' /\ disk'["project"] # NoFolder /\ disk'["cache"] = disk["cache"]
      BY <1>1, <3>1, MkDirChanges, PlacesAre
    <3>3. ExportFits(2)'
      BY <1>1, <1>3, <3>2 DEF ExportFits
    <3> QED BY <2>2, <3>2, <3>3
  <2>3. CASE k = 2
    <3>1. disk["project"] # NoFolder
      BY <1>3, <2>3 DEF ExportFits
    <3>2. disk' = Folder!Effect(Folder!Remove("tmp"))
      BY <1>1, <1>3, <2>1, <2>3, SyncCommands
    <3>3. TidyDisk' /\ disk'["tmp"] = NoFolder /\ disk'["project"] = disk["project"]
          /\ disk'["cache"] = disk["cache"]
      BY <1>1, <3>2, RemoveChanges, PlacesAre
    <3>4. ExportFits(3)'
      BY <1>1, <1>3, <3>1, <3>3 DEF ExportFits
    <3> QED BY <2>3, <3>3, <3>4
  <2>4. CASE k = 3
    <3>1. disk["project"] # NoFolder /\ disk["tmp"] = NoFolder
      BY <1>3, <2>4 DEF ExportFits
    <3>2. disk' = Folder!Effect(Folder!Move("project", "tmp"))
      BY <1>1, <1>3, <2>1, <2>4, SyncCommands
    <3>3. TidyDisk' /\ disk'["project"] = NoFolder /\ disk'["tmp"] = disk["project"]
          /\ disk'["cache"] = disk["cache"]
      BY <1>1, <3>1, <3>2, MoveChanges, PlacesAre
    <3>4. ExportFits(4)'
      BY <1>1, <1>3, <3>1, <3>3 DEF ExportFits
    <3> QED BY <2>4, <3>3, <3>4
  <2>5. CASE k = 4
    <3>1. disk["project"] = NoFolder /\ disk["tmp"] # NoFolder
      BY <1>3, <2>5 DEF ExportFits
    <3>2. disk' = Folder!Effect(Folder!Cmd("rsync_project", "tmp", "tmp"))
      BY <1>1, <1>3, <2>1, <2>5, SyncCommands
    <3>3. /\ TidyDisk' /\ disk'["cache"] = disk["cache"] /\ disk'["project"] = disk["project"]
          /\ disk'["tmp"] = [disk["tmp"] EXCEPT !.files = local.files]
      BY <1>1, <3>1, <3>2, FieldChanges, PlacesAre
    <3>4. disk["tmp"] \in Folder!Folders
      BY <1>1, <3>1, PlacesAre DEF TidyDisk
    <3>5. disk'["tmp"] # NoFolder /\ disk'["tmp"].files = local.files
      <4>1. disk'["tmp"] # NoFolder
        BY <1>1, <3>1, <3>2, FieldChanges, PlacesAre
      <4>2. disk'["tmp"].files = local.files
        BY <3>3, <3>4 DEF Folder!Folders
      <4> QED BY <4>1, <4>2
    <3>6. ExportFits(5)'
      BY <1>1, <1>3, <3>1, <3>3, <3>5 DEF ExportFits
    <3> QED BY <2>5, <3>3, <3>6
  <2>6. CASE k = 5
    <3>1. disk["project"] = NoFolder /\ disk["tmp"] # NoFolder /\ disk["tmp"].files = local.files
      BY <1>3, <2>6 DEF ExportFits
    <3>2. disk' = Folder!Effect(Folder!Move("tmp", "project"))
      BY <1>1, <1>3, <2>1, <2>6, SyncCommands
    <3>3. TidyDisk' /\ disk'["project"] = disk["tmp"] /\ disk'["cache"] = disk["cache"]
      BY <1>1, <3>1, <3>2, MoveChanges, PlacesAre
    <3>4. SyncedFits(1)'
      BY <1>1, <3>1, <3>3 DEF SyncedFits
    <3>5. ExportFits(6)'
      BY <1>1, <1>3, <3>4 DEF ExportFits
    <3> QED BY <2>6, <3>3, <3>5
  <2>7. CASE k \in 6 .. 9
    <3> DEFINE position == k - 5
    <3>1. position \in 1 .. 4 /\ 5 + position = k
      BY <2>7
    <3>2. SyncedFits(position)
      BY <1>3, <2>7 DEF ExportFits
    <3>3. Folder!ExportServiceEntities[5 + position] = SharedPart(position)
      BY <1>3, <3>1, SharedCommands
    <3>4. Runs(SharedPart(position))
      BY <3>1, <3>3
    <3>5. TidyDisk' /\ SyncedFits(position + 1)' /\ disk'["cache"] = disk["cache"]
      BY <3>1, <3>2, <3>4, SharedStep
    <3>6. position + 1 = (k + 1) - 5 /\ k + 1 \in 7 .. 10
      BY <2>7
    <3>7. ExportFits(k + 1)'
      BY <1>1, <1>3, <3>5, <3>6 DEF ExportFits
    <3> QED BY <3>5, <3>7
  <2> QED BY <2>1, <2>2, <2>3, <2>4, <2>5, <2>6, <2>7
<1> QED BY <1>2, <1>3

-----------------------------------------------------------------------------
LEMMA CommandsOf ==
  /\ task = "start_session" => Commands = Folder!SessionSetup
  /\ task = "clear" => Commands = Folder!SoftClear
  /\ task = "export" => Commands = Folder!ExportServiceEntities
  /\ task = "end_session" => Commands = Folder!SessionTeardown
BY DEF Commands

LEMMA LengthOfExport ==
  /\ Folder!ExportServiceEntities \in Seq(Parts)
  /\ sameUser => Len(Folder!ExportServiceEntities) = 6
  /\ ~sameUser => Len(Folder!ExportServiceEntities) = 9
<1>1. CASE sameUser
  <2>1. 2 = IF sameUser THEN 2 ELSE 5
    BY <1>1
  <2>2. Folder!ExportServiceEntities \in Seq(Parts) /\ Len(Folder!ExportServiceEntities) = 2 + 4
    BY <2>1, ExportCommands
  <2> QED BY <1>1, <2>2
<1>2. CASE ~sameUser
  <2>1. 5 = IF sameUser THEN 2 ELSE 5
    BY <1>2
  <2>2. Folder!ExportServiceEntities \in Seq(Parts) /\ Len(Folder!ExportServiceEntities) = 5 + 4
    BY <2>1, ExportCommands
  <2> QED BY <1>2, <2>2
<1> QED BY <1>1, <1>2

LEMMA NumberOfCommands ==
  /\ task = "start_session" => Len(Commands) = 4
  /\ task = "clear" => Len(Commands) = 7
  /\ task = "export" /\ sameUser => Len(Commands) = 6
  /\ task = "export" /\ ~sameUser => Len(Commands) = 9
  /\ task = "end_session" /\ clean => Len(Commands) = 4
  /\ task = "end_session" /\ ~clean => Len(Commands) = 3
<1>1. /\ Len(Folder!SessionSetup) = 4
      /\ Len(Folder!SoftClear) = 7
      /\ clean => Len(Folder!SessionTeardown) = 4
      /\ ~clean => Len(Folder!SessionTeardown) = 3
  BY StartCommands, ClearCommands, EndCommands
<1> QED BY <1>1, CommandsOf, LengthOfExport, Zenon

LEMMA CommandsAreParts ==
  ASSUME task \in Folder!Tasks \ {"none"}
  PROVE  Commands \in Seq(Parts) /\ Len(Commands) \in 1 .. 9
<1>1. CASE task = "start_session"
  BY <1>1, CommandsOf, StartCommands
<1>2. CASE task = "clear"
  BY <1>2, CommandsOf, ClearCommands
<1>3. CASE task = "export"
  BY <1>3, CommandsOf, LengthOfExport, NumberOfCommands
<1>4. CASE task = "end_session"
  BY <1>4, CommandsOf, EndCommands, NumberOfCommands
<1> QED BY <1>1, <1>2, <1>3, <1>4 DEF Folder!Tasks

\* The commands of a task in progress do not change.
LEMMA CommandsKept ==
  ASSUME UNCHANGED <<sameUser, clean, task>>
  PROVE  Commands' = Commands
BY DEF Commands, Folder!SessionSetup, Folder!SoftClear, Folder!ExportServiceEntities,
   Folder!SessionTeardown, Folder!SyncProject, Folder!SyncFolder, Folder!ClearEnvironment,
   Folder!RestoreLibs, Folder!CacheLibs

\* A command that succeeds leaves the disk as the next one expects it.
LEMMA CommandRuns ==
  ASSUME FolderInv, NEW k \in 1 .. Len(Commands), Fits(k), task \in Folder!Tasks \ {"none"},
         Runs(Commands[k])
  PROVE  /\ TidyDisk' /\ Fits(k + 1)'
         /\ task \in {"start_session", "export"} => CacheKept
<1>1. task' = task
  BY DEF Runs
<1>2. local \in Folder!Projects /\ sameUser \in BOOLEAN /\ clean \in BOOLEAN
  BY DEF FolderInv, Folder!TypeOK
<1>3. CASE task = "start_session"
  <2>1. k \in 1 .. 4 /\ Runs(Folder!SessionSetup[k]) /\ StartFits(k)
    BY <1>3, CommandsOf, StartCommands DEF Fits
  <2>2. TidyDisk' /\ StartFits(k + 1)' /\ CacheKept
    BY <1>3, <2>1, StartStep
  <2> QED BY <1>1, <1>3, <2>2 DEF Fits
<1>4. CASE task = "clear"
  <2>1. k \in 1 .. 7 /\ Runs(Folder!SoftClear[k]) /\ ClearFits(k)
    BY <1>4, CommandsOf, ClearCommands DEF Fits
  <2>2. TidyDisk' /\ ClearFits(k + 1)'
    BY <1>4, <2>1, ClearStep
  <2> QED BY <1>1, <1>4, <2>2 DEF Fits
<1>5. CASE task = "export"
  <2>1. k \in 1 .. Len(Folder!ExportServiceEntities) /\ Runs(Folder!ExportServiceEntities[k]) /\ ExportFits(k)
    BY <1>5, CommandsOf DEF Fits
  <2>2. TidyDisk' /\ ExportFits(k + 1)' /\ disk'["cache"] = disk["cache"]
    BY <1>2, <1>5, <2>1, ExportStep
  <2> QED BY <1>1, <1>5, <2>2 DEF Fits, CacheKept
<1>6. CASE task = "end_session"
  <2>1. k \in 1 .. 4 /\ (k = 4 => clean)
    <3>1. clean => Len(Commands) = 4
      BY <1>6, NumberOfCommands
    <3>2. ~clean => Len(Commands) = 3
      BY <1>6, NumberOfCommands
    <3> QED BY <3>1, <3>2
  <2>2. Runs(Folder!SessionTeardown[k]) /\ EndFits(k)
    BY <1>6, CommandsOf DEF Fits
  <2>3. TidyDisk' /\ EndFits(k + 1)'
    BY <1>6, <2>1, <2>2, EndStep
  <2> QED BY <1>1, <1>6, <2>3 DEF Fits
<1> QED BY <1>3, <1>4, <1>5, <1>6 DEF Folder!Tasks

\* A task whose last command has succeeded, and what it leaves.
TaskOver ==
    /\ NoFolder \notin Folder!Folders
    /\ local \in Folder!Projects /\ sameUser \in BOOLEAN /\ clean \in BOOLEAN
    /\ folderBefore \in Folder!Folders \cup {NoFolder}
    /\ task \in Folder!Tasks \ {"none"}
    /\ TidyDisk /\ Fits(Len(Commands) + 1)

TaskDone ==
    /\ task = "export" =>
          disk["project"] = [files |-> local.files, env |-> TRUE, libs |-> local.modules, nested |-> FALSE]
    /\ task = "clear" => disk["project"] = Kept
    /\ task = "start_session" =>
          /\ disk["cache"] # NoFolder
          /\ disk["project"] = [Folder!Empty EXCEPT !.libs = disk["cache"].libs]
    /\ task = "end_session" =>
          /\ disk["cache"] # NoFolder /\ disk["cache"].libs \in SUBSET Modules
          /\ disk["cache"].libs = IF folderBefore = NoFolder THEN {} ELSE folderBefore.libs

LEMMA TaskOverIsDone == TaskOver => TaskDone
<1> SUFFICES ASSUME TaskOver PROVE TaskDone
  OBVIOUS
<1>0. /\ TidyDisk /\ Fits(Len(Commands) + 1)
      /\ folderBefore \in Folder!Folders \cup {NoFolder} /\ NoFolder \notin Folder!Folders
  BY DEF TaskOver
<1>1. ASSUME task = "export"
      PROVE  disk["project"] = [files |-> local.files, env |-> TRUE, libs |-> local.modules, nested |-> FALSE]
  <2>1. SyncedFits(5)
    <3>1. CASE sameUser
      <4>1. Len(Commands) + 1 = 7
        <5>1. Len(Commands) = 6
          BY <1>1, <3>1, NumberOfCommands
        <5> QED BY <5>1
      <4> QED BY <1>0, <1>1, <3>1, <4>1 DEF Fits, ExportFits
    <3>2. CASE ~sameUser
      <4>1. Len(Commands) + 1 = 10
        <5>1. Len(Commands) = 9
          BY <1>1, <3>2, NumberOfCommands
        <5> QED BY <5>1
      <4> QED BY <1>0, <1>1, <3>2, <4>1 DEF Fits, ExportFits
    <3> QED BY <3>1, <3>2
  <2>2. disk["project"] # NoFolder /\ disk["project"].files = local.files
        /\ disk["project"].libs = local.modules /\ disk["project"].env = TRUE
    BY <2>1 DEF SyncedFits
  <2>3. disk["project"] \in Folder!Folders /\ disk["project"].nested = FALSE
    BY <1>0, <2>2, PlacesAre DEF TidyDisk, Tidy
  <2> QED BY <2>2, <2>3 DEF Folder!Folders
<1>2. ASSUME task = "clear" PROVE disk["project"] = Kept
  <2>1. Len(Commands) + 1 = 8
    <3>1. Len(Commands) = 7
      BY <1>2, NumberOfCommands
    <3> QED BY <3>1
  <2> QED BY <1>0, <1>2, <2>1 DEF Fits, ClearFits
<1>3. ASSUME task = "start_session"
      PROVE  disk["cache"] # NoFolder /\ disk["project"] = [Folder!Empty EXCEPT !.libs = disk["cache"].libs]
  <2>1. Len(Commands) + 1 = 5
    <3>1. Len(Commands) = 4
      BY <1>3, NumberOfCommands
    <3> QED BY <3>1
  <2> QED BY <1>0, <1>3, <2>1 DEF Fits, StartFits, OnlyLibs
<1>4. ASSUME task = "end_session"
      PROVE  /\ disk["cache"] # NoFolder /\ disk["cache"].libs \in SUBSET Modules
             /\ disk["cache"].libs = IF folderBefore = NoFolder THEN {} ELSE folderBefore.libs
  <2>1. LibsKept
    <3>1. CASE clean
      <4>1. Len(Commands) + 1 = 5
        <5>1. Len(Commands) = 4
          BY <1>4, <3>1, NumberOfCommands
        <5> QED BY <5>1
      <4> QED BY <1>0, <1>4, <4>1 DEF Fits, EndFits
    <3>2. CASE ~clean
      <4>1. Len(Commands) + 1 = 4
        <5>1. Len(Commands) = 3
          BY <1>4, <3>2, NumberOfCommands
        <5> QED BY <5>1
      <4> QED BY <1>0, <1>4, <4>1 DEF Fits, EndFits
    <3> QED BY <3>1, <3>2
  <2>2. disk["cache"] \in Folder!Folders
    BY <1>0, <2>1, PlacesAre DEF LibsKept, TidyDisk
  <2>3. disk["cache"].libs \in SUBSET Modules
    BY <2>2 DEF Folder!Folders
  <2>4. Kept.libs = IF folderBefore = NoFolder THEN {} ELSE folderBefore.libs
    BY <1>0 DEF Kept, Folder!Empty
  <2> QED BY <2>1, <2>3, <2>4 DEF LibsKept
<1> QED BY <1>1, <1>2, <1>3, <1>4 DEF TaskDone

LEMMA FolderInvInit ==
  ASSUME NoFolder \notin Folder!Folders, Folder!Init
  PROVE  FolderInv
<1> USE DEF Folder!Init
<1>1. disk \in [Folder!Places -> Folder!Folders \cup {NoFolder}]
  OBVIOUS
<1>2. TidyDisk
  BY DEF TidyDisk, Tidy
<1>3. Folder!TypeOK
  <2>1. task \in Folder!Tasks /\ result \in {"none", "done", "failed"} /\ session \in BOOLEAN
    BY DEF Folder!Tasks
  <2>2. (script # <<>> => session /\ result = "none")
    OBVIOUS
  <2>3. folderBefore \in Folder!Folders \cup {NoFolder}
    OBVIOUS
  <2>4. cached \in (SUBSET Modules) \cup {NoFolder}
    <3>1. cached = NoFolder
      OBVIOUS
    <3> HIDE DEF Folder!Init
    <3> QED BY <3>1, Zenon
  <2> QED BY <1>1, <2>1, <2>2, <2>3, <2>4 DEF Folder!TypeOK
<1>4. ScriptInv /\ CachedInv
  BY DEF ScriptInv, CachedInv
<1>5. LeftInv
  BY DEF LeftInv, ExportIsLocal, SoftClearKeepsProject, SessionStartsClean,
     LibsAreCached, Folder!Did
<1> QED BY <1>2, <1>3, <1>4, <1>5 DEF FolderInv

\* A task that is not over has left nothing yet.
LEMMA NothingLeftYet ==
  ASSUME result # "done"
  PROVE  LeftInv
BY DEF LeftInv, ExportIsLocal, SoftClearKeepsProject, SessionStartsClean,
   LibsAreCached, Folder!Did

\* A task begins with all of its commands.
LEMMA TaskBegins ==
  ASSUME NoFolder \notin Folder!Folders, FolderInv, NEW name \in Folder!Tasks \ {"none"},
         NEW commands, Folder!Begin(name, commands), UNCHANGED clean,
         Commands' = commands, commands \in Seq(Parts), Len(commands) \in 1 .. 9,
         session' = TRUE, cached' \in {cached, NoFolder},
         name \in {"clear", "end_session"} => cached' = NoFolder
  PROVE  FolderInv'
<1>1. /\ script' = commands /\ task' = name /\ result' = "none" /\ folderBefore' = disk["project"]
      /\ disk' = disk /\ local' = local /\ sameUser' = sameUser /\ clean' = clean
  BY DEF Folder!Begin
<1>2. TidyDisk /\ disk["project"] \in Folder!Folders \cup {NoFolder}
  BY PlacesAre DEF FolderInv, TidyDisk
<1>3. TidyDisk'
  BY <1>1, <1>2 DEF TidyDisk, Tidy, Folder!Places, Folder!Folders
<1>4. Folder!TypeOK'
  <2>1. /\ local \in Folder!Projects /\ sameUser \in BOOLEAN /\ clean \in BOOLEAN
        /\ disk \in [Folder!Places -> Folder!Folders \cup {NoFolder}]
        /\ cached \in (SUBSET Modules) \cup {NoFolder}
    BY DEF FolderInv, Folder!TypeOK
  <2>2. cached' \in (SUBSET Modules) \cup {NoFolder}
    BY <2>1, Zenon
  <2> QED BY <1>1, <1>2, <2>1, <2>2
          DEF Folder!TypeOK, Folder!Projects, Folder!Places, Folder!Folders, Folder!Tasks
<1>5. ScriptInv'
  <2>1. 1 \in 1 .. Len(commands)
    <3>1. \A n \in 1 .. 9 : 1 \in 1 .. n
      OBVIOUS
    <3> QED BY <3>1
  <2>2. commands = SubSeq(commands, 1, Len(commands))
    BY <2>1, RestOfSequence
  <2>3. Fits(1)'
    BY <1>1 DEF Fits, StartFits, ClearFits, ExportFits, EndFits
  <2>4. \E k \in 1 .. Len(Commands') : script' = SubSeq(Commands', k, Len(Commands')) /\ Fits(k)'
    BY <1>1, <2>1, <2>2, <2>3
  <2> QED BY <1>1, <2>4 DEF ScriptInv
<1>6. CachedInv'
  BY <1>1 DEF FolderInv, CachedInv
<1>7. LeftInv'
  BY <1>1 DEF LeftInv, ExportIsLocal, SoftClearKeepsProject, SessionStartsClean,
     LibsAreCached, Folder!Did
<1> QED BY <1>3, <1>4, <1>5, <1>6, <1>7 DEF FolderInv

\* What is next of a script that is not over, and what is left then.
LEMMA NextCommand ==
  ASSUME FolderInv, script # <<>>
  PROVE  /\ task \in Folder!Tasks \ {"none"}
         /\ \E k \in 1 .. Len(Commands) :
               /\ Fits(k)
               /\ Head(script) = Commands[k]
               /\ Tail(script) = SubSeq(Commands, k + 1, Len(Commands))
               /\ Len(script) = Len(Commands) - k + 1
               /\ k = Len(Commands) => Tail(script) = <<>>
<1>1. task \in Folder!Tasks \ {"none"}
  BY DEF FolderInv, Folder!TypeOK, ScriptInv
<1>2. Commands \in Seq(Parts)
  BY <1>1, CommandsAreParts
<1>3. PICK k \in 1 .. Len(Commands) : script = SubSeq(Commands, k, Len(Commands)) /\ Fits(k)
  BY DEF FolderInv, ScriptInv
<1>4. /\ Head(script) = Commands[k]
      /\ Tail(script) = SubSeq(Commands, k + 1, Len(Commands))
      /\ Len(script) = Len(Commands) - k + 1
      /\ k = Len(Commands) => Tail(script) = <<>>
  BY <1>2, <1>3, RestOfSequence
<1> QED BY <1>1, <1>3, <1>4

LEMMA StepKeeps ==
  ASSUME NoFolder \notin Folder!Folders, FolderInv, Folder!Step
  PROVE  FolderInv'
<1>1. /\ script # <<>> /\ disk' = Folder!Effect(Head(script)) /\ script' = Tail(script)
      /\ UNCHANGED <<local, sameUser, clean, task, folderBefore>>
  BY DEF Folder!Step, Folder!settings
<1>2. task \in Folder!Tasks \ {"none"} /\ session = TRUE /\ result = "none"
  BY <1>1, NextCommand DEF FolderInv, Folder!TypeOK
<1>3. PICK k \in 1 .. Len(Commands) :
          /\ Fits(k)
          /\ Head(script) = Commands[k]
          /\ Tail(script) = SubSeq(Commands, k + 1, Len(Commands))
          /\ Len(script) = Len(Commands) - k + 1
          /\ k = Len(Commands) => Tail(script) = <<>>
  BY <1>1, NextCommand
<1>4. Runs(Commands[k])
  BY <1>1, <1>3 DEF Runs, FolderInv
<1>5. TidyDisk' /\ Fits(k + 1)' /\ (task \in {"start_session", "export"} => CacheKept)
  BY <1>2, <1>3, <1>4, CommandRuns
<1>6. Commands' = Commands /\ Len(Commands) \in 1 .. 9
  BY <1>1, <1>2, CommandsKept, CommandsAreParts
<1>7. disk' \in [Folder!Places -> Folder!Folders \cup {NoFolder}]
  BY <1>5 DEF TidyDisk, Folder!Places, Folder!Folders
<1>8. /\ local \in Folder!Projects /\ sameUser \in BOOLEAN /\ clean \in BOOLEAN
      /\ folderBefore \in Folder!Folders \cup {NoFolder} /\ cached \in (SUBSET Modules) \cup {NoFolder}
  BY DEF FolderInv, Folder!TypeOK
<1>9. cached # NoFolder => disk'["cache"] # NoFolder /\ disk'["cache"].libs = cached
  <2>1. SUFFICES ASSUME cached # NoFolder
                 PROVE  disk'["cache"] # NoFolder /\ disk'["cache"].libs = cached
    OBVIOUS
  <2>2. disk["cache"] # NoFolder /\ disk["cache"].libs = cached /\ task \in {"start_session", "export"}
    BY <1>1, <1>2, <2>1 DEF FolderInv, CachedInv, Folder!Tasks
  <2> QED BY <1>5, <2>2 DEF CacheKept
<1>10. CASE k = Len(Commands)
  <2>1. Len(script) = 1
    BY <1>3, <1>6, <1>10
  <2>2. /\ result' = "done" /\ session' = (task # "end_session")
        /\ cached' = IF task = "end_session" THEN disk'["cache"].libs ELSE cached
    BY <2>1 DEF Folder!Step, Folder!Finish
  <2>3. script' = <<>>
    BY <1>1, <1>3, <1>10
  <2>4. Fits(Len(Commands) + 1)'
    BY <1>5, <1>6, <1>10
  <2>5. /\ task = "export" => disk'["project"] =
              [files |-> local.files, env |-> TRUE, libs |-> local.modules, nested |-> FALSE]
        /\ task = "clear" => disk'["project"] = Kept'
        /\ task = "start_session" =>
              /\ disk'["cache"] # NoFolder
              /\ disk'["project"] = [Folder!Empty EXCEPT !.libs = disk'["cache"].libs]
        /\ task = "end_session" =>
              /\ disk'["cache"] # NoFolder /\ disk'["cache"].libs \in SUBSET Modules
              /\ disk'["cache"].libs = IF folderBefore = NoFolder THEN {} ELSE folderBefore.libs
    <3>1. TaskOver'
      BY <1>1, <1>2, <1>5, <1>8, <2>4 DEF TaskOver, Folder!Projects, Folder!Folders, Folder!Tasks
    <3>2. TaskDone'
      BY <3>1, TaskOverIsDone, PTL
    <3> QED BY <1>1, <3>2 DEF TaskDone, Folder!Empty
  <2>6. Folder!TypeOK'
    <3>1. cached' \in (SUBSET Modules) \cup {NoFolder}
      BY <1>8, <2>2, <2>5
    <3> QED BY <1>1, <1>2, <1>7, <1>8, <2>2, <2>3, <3>1
            DEF Folder!TypeOK, Folder!Projects, Folder!Places, Folder!Folders, Folder!Tasks
  <2>7. CachedInv'
    BY <1>1, <1>9, <2>2, <2>3, <2>5 DEF CachedInv
  <2>8. LeftInv'
    <3>1. ExportIsLocal'
      BY <1>1, <2>5 DEF ExportIsLocal, Folder!Did
    <3>2. SoftClearKeepsProject'
      BY <1>1, <2>5 DEF SoftClearKeepsProject, Folder!Did, Kept, Folder!Empty
    <3>3. SessionStartsClean'
      <4>1. SUFFICES ASSUME task = "start_session"
                     PROVE  /\ disk'["project"] = [Folder!Empty EXCEPT !.libs = disk'["cache"].libs]
                            /\ cached' # NoFolder => disk'["project"].libs = cached'
        BY <1>1 DEF SessionStartsClean, Folder!Did, Folder!Empty
      <4>2. disk'["project"] = [Folder!Empty EXCEPT !.libs = disk'["cache"].libs]
        BY <2>5, <4>1
      <4>3. disk'["project"].libs = disk'["cache"].libs
        BY <4>2 DEF Folder!Empty
      <4>4. cached' = cached
        BY <2>2, <4>1
      <4> QED BY <1>9, <4>2, <4>3, <4>4
    <3>4. LibsAreCached'
      BY <1>1, <2>2, <2>5 DEF LibsAreCached, Folder!Did
    <3> QED BY <3>1, <3>2, <3>3, <3>4 DEF LeftInv
  <2>9. ScriptInv'
    BY <2>3 DEF ScriptInv
  <2> QED BY <1>5, <2>6, <2>7, <2>8, <2>9 DEF FolderInv
<1>11. CASE k # Len(Commands)
  <2>1. Len(script) # 1 /\ k + 1 \in 1 .. Len(Commands)
    BY <1>3, <1>6, <1>11
  <2>2. UNCHANGED <<result, session, cached>>
    BY <2>1 DEF Folder!Step
  <2>3. ScriptInv'
    <3>1. script' = SubSeq(Commands', k + 1, Len(Commands')) /\ Fits(k + 1)'
      BY <1>1, <1>3, <1>5, <1>6
    <3>2. k + 1 \in 1 .. Len(Commands')
      BY <1>6, <2>1
    <3> QED BY <1>1, <1>2, <3>1, <3>2 DEF ScriptInv
  <2>4. Folder!TypeOK'
    BY <1>1, <1>2, <1>7, <1>8, <2>2
       DEF Folder!TypeOK, Folder!Projects, Folder!Places, Folder!Folders, Folder!Tasks
  <2>5. CachedInv'
    BY <1>1, <1>9, <2>2 DEF FolderInv, CachedInv
  <2>6. LeftInv'
    BY <1>2, <2>2 DEF LeftInv, ExportIsLocal, SoftClearKeepsProject,
       SessionStartsClean, LibsAreCached, Folder!Did
  <2> QED BY <1>5, <2>3, <2>4, <2>5, <2>6 DEF FolderInv
<1> QED BY <1>10, <1>11

LEMMA StepFailsKeeps ==
  ASSUME NoFolder \notin Folder!Folders, FolderInv, Folder!StepFails
  PROVE  FolderInv'
<1>1. /\ script # <<>> /\ script' = <<>> /\ disk' \in {disk, Folder!Effect(Head(script))}
      /\ result' = "failed" /\ session' = (task \notin {"start_session", "end_session"})
      /\ UNCHANGED <<local, sameUser, clean, task, folderBefore, cached>>
  BY DEF Folder!StepFails, Folder!settings
<1>2. task \in Folder!Tasks \ {"none"}
  BY <1>1, NextCommand
<1>3. TidyDisk' /\ (task \in {"start_session", "export"} => CacheKept)
  <2>1. CASE disk' = disk
    BY <2>1 DEF FolderInv, TidyDisk, Tidy, Folder!Places, Folder!Folders, CacheKept
  <2>2. CASE disk' = Folder!Effect(Head(script))
    <3>1. PICK k \in 1 .. Len(Commands) : Fits(k) /\ Head(script) = Commands[k]
      BY <1>1, NextCommand
    <3>2. Runs(Commands[k])
      BY <1>1, <2>2, <3>1 DEF Runs, FolderInv
    <3> QED BY <1>2, <3>1, <3>2, CommandRuns
  <2> QED BY <1>1, <2>1, <2>2
<1>4. disk' \in [Folder!Places -> Folder!Folders \cup {NoFolder}]
  BY <1>3 DEF TidyDisk, Folder!Places, Folder!Folders
<1>5. Folder!TypeOK'
  BY <1>1, <1>4 DEF FolderInv, Folder!TypeOK, Folder!Projects, Folder!Places, Folder!Folders, Folder!Tasks
<1>6. CachedInv'
  <2>1. SUFFICES ASSUME cached # NoFolder
                 PROVE  disk'["cache"] # NoFolder /\ disk'["cache"].libs = cached
    BY <1>1 DEF CachedInv
  <2>2. disk["cache"] # NoFolder /\ disk["cache"].libs = cached /\ task \in {"start_session", "export"}
    BY <1>1, <1>2, <2>1 DEF FolderInv, CachedInv, Folder!Tasks
  <2> QED BY <1>3, <2>2 DEF CacheKept
<1>7. LeftInv'
  BY <1>1 DEF LeftInv, ExportIsLocal, SoftClearKeepsProject, SessionStartsClean,
     LibsAreCached, Folder!Did
<1>8. ScriptInv'
  BY <1>1 DEF ScriptInv
<1> QED BY <1>3, <1>5, <1>6, <1>7, <1>8 DEF FolderInv

LEMMA FolderInvStep ==
  ASSUME NoFolder \notin Folder!Folders, FolderInv, [Folder!Next]_(Folder!vars)
  PROVE  FolderInv'
<1>1. CASE Folder!StartSession
  <2>1. Folder!Begin("start_session", Folder!SessionSetup) /\ session' = TRUE /\ UNCHANGED <<clean, cached>>
    BY <1>1 DEF Folder!StartSession
  <2>2. task' = "start_session" /\ sameUser' = sameUser
    BY <2>1 DEF Folder!Begin
  <2>3. Commands' = Folder!SessionSetup
    BY <2>2 DEF Commands, Folder!SessionSetup, Folder!ClearEnvironment, Folder!RestoreLibs
  <2>4. "start_session" \in Folder!Tasks \ {"none"} /\ "start_session" \notin {"clear", "end_session"}
    BY DEF Folder!Tasks
  <2>5. Folder!SessionSetup \in Seq(Parts) /\ Len(Folder!SessionSetup) \in 1 .. 9
    BY StartCommands
  <2> QED BY <2>1, <2>3, <2>4, <2>5, TaskBegins
<1>2. CASE Folder!StartTest
  <2>1. Folder!Begin("clear", Folder!SoftClear) /\ cached' = NoFolder /\ UNCHANGED <<clean, session>>
        /\ session
    BY <1>2 DEF Folder!StartTest, Folder!Ready
  <2>2. task' = "clear" /\ session' = TRUE
    BY <2>1 DEF Folder!Begin, FolderInv, Folder!TypeOK
  <2>3. Commands' = Folder!SoftClear
    BY <2>2 DEF Commands, Folder!SoftClear
  <2>4. "clear" \in Folder!Tasks \ {"none"}
    BY DEF Folder!Tasks
  <2>5. Folder!SoftClear \in Seq(Parts) /\ Len(Folder!SoftClear) \in 1 .. 9
    BY ClearCommands
  <2> QED BY <2>1, <2>2, <2>3, <2>4, <2>5, TaskBegins
<1>3. CASE Folder!Export
  <2>1. Folder!Begin("export", Folder!ExportServiceEntities) /\ UNCHANGED <<clean, session, cached>>
        /\ session
    BY <1>3 DEF Folder!Export, Folder!Ready
  <2>2. task' = "export" /\ session' = TRUE /\ sameUser' = sameUser
    BY <2>1 DEF Folder!Begin, FolderInv, Folder!TypeOK
  <2>3. Commands' = Folder!ExportServiceEntities
    BY <2>2 DEF Commands, Folder!ExportServiceEntities, Folder!SyncProject, Folder!SyncFolder
  <2>4. "export" \in Folder!Tasks \ {"none"} /\ "export" \notin {"clear", "end_session"}
    BY DEF Folder!Tasks
  <2>5. Folder!ExportServiceEntities \in Seq(Parts) /\ Len(Folder!ExportServiceEntities) \in 1 .. 9
    BY LengthOfExport
  <2> QED BY <2>1, <2>2, <2>3, <2>4, <2>5, TaskBegins
<1>4. CASE Folder!EndSession
  <2>1. Folder!Begin("end_session", Folder!SessionTeardown) /\ cached' = NoFolder
        /\ UNCHANGED <<clean, session>> /\ session
    BY <1>4 DEF Folder!EndSession, Folder!Ready
  <2>2. task' = "end_session" /\ session' = TRUE
    BY <2>1 DEF Folder!Begin, FolderInv, Folder!TypeOK
  <2>3. Commands' = Folder!SessionTeardown
    BY <2>1, <2>2 DEF Commands, Folder!SessionTeardown, Folder!ClearEnvironment, Folder!CacheLibs
  <2>4. "end_session" \in Folder!Tasks \ {"none"}
    BY DEF Folder!Tasks
  <2>5. Folder!SessionTeardown \in Seq(Parts) /\ Len(Folder!SessionTeardown) \in 1 .. 9
    BY EndCommands
  <2> QED BY <2>1, <2>2, <2>3, <2>4, <2>5, TaskBegins
<1>5. CASE Folder!ChangeLocal
  <2>1. /\ ~session /\ local' \in Folder!Projects /\ clean' \in BOOLEAN
        /\ UNCHANGED <<sameUser, disk, script, task, result, session, folderBefore, cached>>
    BY <1>5 DEF Folder!ChangeLocal
  <2>2. script = <<>>
    BY <2>1 DEF FolderInv, Folder!TypeOK
  <2>3. Folder!TypeOK'
    BY <2>1 DEF FolderInv, Folder!TypeOK, Folder!Projects, Folder!Places, Folder!Folders, Folder!Tasks
  <2>4. ScriptInv' /\ CachedInv' /\ TidyDisk'
    BY <2>1, <2>2 DEF FolderInv, ScriptInv, CachedInv, TidyDisk, Tidy, Folder!Places, Folder!Folders
  <2>5. LeftInv'
    BY <2>1 DEF FolderInv, LeftInv, ExportIsLocal, SoftClearKeepsProject,
       SessionStartsClean, LibsAreCached, Folder!Did, Folder!Empty
  <2> QED BY <2>3, <2>4, <2>5 DEF FolderInv
<1>6. CASE Folder!Step
  BY <1>6, StepKeeps
<1>7. CASE Folder!StepFails
  BY <1>7, StepFailsKeeps
<1>8. CASE Folder!Crash
  <2>1. /\ session' = FALSE /\ script' = <<>> /\ result' = "failed"
        /\ UNCHANGED <<local, sameUser, clean, disk, task, folderBefore, cached>>
    BY <1>8 DEF Folder!Crash, Folder!settings
  <2>2. Folder!TypeOK'
    BY <2>1 DEF FolderInv, Folder!TypeOK, Folder!Projects, Folder!Places, Folder!Folders, Folder!Tasks
  <2>3. ScriptInv' /\ CachedInv' /\ TidyDisk'
    BY <2>1 DEF FolderInv, ScriptInv, CachedInv, TidyDisk, Tidy, Folder!Places, Folder!Folders
  <2>4. LeftInv'
    BY <2>1 DEF LeftInv, ExportIsLocal, SoftClearKeepsProject,
       SessionStartsClean, LibsAreCached, Folder!Did
  <2> QED BY <2>2, <2>3, <2>4 DEF FolderInv
<1>9. CASE UNCHANGED Folder!vars
  <2>1. UNCHANGED <<local, sameUser, clean, disk, script, task, result, session, folderBefore, cached>>
    BY <1>9 DEF Folder!vars
  <2>2. Folder!TypeOK'
    BY <2>1 DEF FolderInv, Folder!TypeOK, Folder!Projects, Folder!Places, Folder!Folders, Folder!Tasks
  <2>3. CachedInv' /\ TidyDisk'
    BY <2>1 DEF FolderInv, CachedInv, TidyDisk, Tidy, Folder!Places, Folder!Folders
  <2>4. ScriptInv'
    <3>1. Commands' = Commands
      BY <2>1, CommandsKept
    <3>2. \A k : Fits(k)' <=> Fits(k)
      BY <2>1 DEF Fits, StartFits, ClearFits, ExportFits, EndFits, SyncedFits, OnlyLibs, LibsKept,
         Kept, Folder!Empty
    <3> QED BY <2>1, <3>1, <3>2 DEF FolderInv, ScriptInv
  <2>5. LeftInv'
    BY <2>1 DEF FolderInv, LeftInv, ExportIsLocal, SoftClearKeepsProject,
       SessionStartsClean, LibsAreCached, Folder!Did, Folder!Empty
  <2> QED BY <2>2, <2>3, <2>4, <2>5 DEF FolderInv
<1> QED BY <1>1, <1>2, <1>3, <1>4, <1>5, <1>6, <1>7, <1>8, <1>9 DEF Folder!Next

\* The invariant of the project's folder holds in every state.
LEMMA FolderInvariant == FolderSpec => []FolderInv
<1>1. NoFolder \notin Folder!Folders
  BY NoFolderAssumption
<1>2. Folder!Init => FolderInv
  BY <1>1, FolderInvInit
<1>3. FolderInv /\ [Folder!Next]_(Folder!vars) => FolderInv'
  BY <1>1, FolderInvStep
<1> QED BY <1>2, <1>3, PTL DEF FolderSpec, Folder!Spec

\* The types of the disk's variables, after any sequence of sessions, failures and kills.
THEOREM FolderTypeCorrect == FolderSpec => []Folder!TypeOK
<1>1. FolderInv => Folder!TypeOK
  BY DEF FolderInv
<1> QED BY <1>1, FolderInvariant, PTL

\* An export that succeeds (export_service_entities) leaves exactly the local project on
\* the orchestrator, installed, whatever was left half done before.
THEOREM ExportLeavesTheLocal == FolderSpec => []ExportIsLocal
<1>1. FolderInv => ExportIsLocal
  BY DEF FolderInv, LeftInv
<1> QED BY <1>1, FolderInvariant, PTL

\* A soft clear (clear_environment with soft=True) puts the project back as it was.
THEOREM SoftClearRestores == FolderSpec => []SoftClearKeepsProject
<1>1. FolderInv => SoftClearKeepsProject
  BY DEF FolderInv, LeftInv
<1> QED BY <1>1, FolderInvariant, PTL

\* A session starts (remote_orchestrator_shared) with no file of an earlier one, but for
\* the libs that it has cached.
THEOREM SessionsDoNotMix == FolderSpec => []SessionStartsClean
<1>1. FolderInv => SessionStartsClean
  BY DEF FolderInv, LeftInv
<1> QED BY <1>1, FolderInvariant, PTL

\* The end of a session (cache_libs_folder) caches the libs that were there when it began.
THEOREM SessionEndCachesLibs == FolderSpec => []LibsAreCached
<1>1. FolderInv => LibsAreCached
  BY DEF FolderInv, LeftInv
<1> QED BY <1>1, FolderInvariant, PTL
=============================================================================
