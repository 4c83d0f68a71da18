------------------------------- MODULE Session -------------------------------
(***************************************************************************)
(* A test session against a remote orchestrator, by the fixtures of        *)
(* plugin.py: the lab in containers if it is asked for, the environment,   *)
(* then for each test a clear, the settings and a resume, and at the end   *)
(* what is to be cleaned up.  It composes the container, the configuration *)
(* of the environment, and the load a test may put on the orchestrator.    *)
(* The project's folder, which the same fixtures move, is in ProjectFolder.*)
(***************************************************************************)
EXTENDS Environment

CONSTANTS
    MaxTests, \* bound on the tests of a session
    MaxTries  \* how often the server's status is asked for, 10 in the code

VARIABLES
    cwd, lab, at, error,                                         \* OrchestratorContainer
    running, thread, user, exception, raised, timedOut, late,    \* LoadGenerator
    options,   \* --lsm-ctr, --lsm-no-clean, --lsm-no-halt
    stage,     \* the fixture that runs, or its part
    tries,     \* requests for the server's status
    tests,     \* tests begun
    failed,    \* pytest has an error to report
    inventory, \* the environment has service instances
    halted,    \* the environment is halted
    protected  \* the environment is protected

Container == INSTANCE OrchestratorContainer
Generator == INSTANCE LoadGenerator

containerVars == <<cwd, lab, at, error>>
loadVars == <<running, thread, user, exception, raised, timedOut, late>>
serverVars == <<inventory, halted, protected>>
sessionVars == <<options, stage, tries, tests, failed>>
vars == <<environmentVars, containerVars, loadVars, serverVars, sessionVars>>

Init ==
    /\ Container!ContainerInit /\ Generator!LoadInit
    /\ options \in [container : BOOLEAN, noClean : BOOLEAN, noHalt : BOOLEAN]
    /\ stage = "start" /\ tries = 0 /\ tests = 0 /\ failed = FALSE
    /\ asked \in Asked
    /\ conf = "out" /\ current = Nothing /\ updates = NoUpdates /\ edits = 0
    /\ environment \in Environments \cup {Nothing} /\ before = environment
    /\ projects \in SUBSET Names
    /\ environment # Nothing => environment.project \in projects
    \* An environment that is there was left full, and halted, by another session.
    /\ inventory = (environment # Nothing) /\ halted = inventory /\ protected = FALSE
    \* An orchestrator that is new has nothing.
    /\ options.container => environment = Nothing /\ projects = {}

-----------------------------------------------------------------------------
\* The rest of a fixture's code: go on with the next part, or fail.  pytest then tears
\* down the fixtures that were set up, so the container too.
GoOn(next) == stage' = next /\ UNCHANGED failed
Abort ==
    /\ stage' = IF options.container THEN "exit" ELSE "over"
    /\ failed' = TRUE

\* A part of a fixture that leaves all but the server alone.
Part(name) ==
    /\ stage = name
    /\ UNCHANGED <<environmentVars, containerVars, loadVars, options, tries, tests, protected>>

\* remote_orchestrator_container.
Start ==
    /\ stage = "start"
    /\ stage' = IF options.container THEN "enter" ELSE "reach"
    /\ UNCHANGED <<environmentVars, containerVars, loadVars, serverVars, options, tries, tests, failed>>

\* A container that is not entered is never exited: the fixture has not yielded.
AfterContainer ==
    /\ stage' = IF at' = "left" THEN "over" ELSE IF at' = "entered" THEN "reach" ELSE stage
    /\ failed' = (failed \/ error' # "none")
    /\ UNCHANGED <<environmentVars, loadVars, serverVars, options, tries, tests>>

ContainerRuns ==
    /\ stage \in {"enter", "exit"}
    /\ Container!ContainerStep
    /\ AfterContainer

ExitContainer ==
    /\ stage = "exit"
    /\ Container!Exit(options.noClean)
    /\ AfterContainer

Interrupted ==
    /\ stage \in {"enter", "exit"}
    /\ Container!Interrupt
    /\ AfterContainer

\* remote_orchestrator_access: the server answers, or not yet.
Reach ==
    /\ stage = "reach"
    /\ tries' = tries + 1
    /\ \/ stage' = "configure" /\ conf' = "get" /\ before' = environment /\ UNCHANGED failed
       \/ tries' < MaxTries /\ UNCHANGED <<stage, failed, conf, before>>
       \/ tries' = MaxTries /\ Abort /\ UNCHANGED <<conf, before>>
    /\ UNCHANGED <<environment, projects, asked, current, updates, edits>>
    /\ UNCHANGED <<containerVars, loadVars, serverVars, options, tests>>

ConfigureRuns ==
    /\ stage = "configure"
    /\ ConfigureStep \/ ConfigureFails
    /\ IF conf' = "failed" THEN Abort
       ELSE GoOn(IF conf' = "done" THEN "check" ELSE stage)
    /\ UNCHANGED <<containerVars, loadVars, serverVars, options, tries, tests>>

\* remote_orchestrator_shared: no protected environment, a module that is installed.
CheckProtected ==
    /\ Part("check")
    /\ \/ ~protected /\ GoOn("clear")
       \/ Abort
    /\ UNCHANGED <<inventory, halted>>

\* environment_clear: the orchestrator refuses to clear a protected environment.
EnvironmentClear == ~protected /\ inventory' = FALSE /\ UNCHANGED halted

\* clear_environment and restore_libs_folder.
ClearFirst ==
    /\ Part("clear")
    /\ \/ EnvironmentClear /\ GoOn("ready")
       \/ EnvironmentClear /\ Abort
       \/ Abort /\ UNCHANGED <<inventory, halted>>

\* remote_orchestrator, for each test: a failure is that test's.
StartTest ==
    /\ stage = "ready" /\ tests < MaxTests
    /\ tests' = tests + 1
    /\ \/ EnvironmentClear /\ GoOn("settings")
       \/ EnvironmentClear /\ UNCHANGED stage /\ failed' = TRUE
       \/ UNCHANGED <<inventory, halted, stage>> /\ failed' = TRUE
    /\ UNCHANGED <<environmentVars, containerVars, loadVars, options, tries, protected>>

ResumeEnvironment ==
    /\ Part("settings")
    /\ \/ halted' = FALSE /\ GoOn("test")
       \/ halted' \in {halted, FALSE} /\ stage' = "ready" /\ failed' = TRUE
    /\ UNCHANGED inventory

\* What a test does: it creates services, and may use a load generator.
CreateServices == Part("test") /\ inventory' = TRUE /\ UNCHANGED <<halted, stage, failed>>
UseLoad ==
    /\ stage = "test"
    /\ Generator!EnterLoad
    /\ UNCHANGED <<environmentVars, containerVars, serverVars, sessionVars>>
LeaveLoad ==
    /\ Generator!ExitLoad \/ Generator!Join
    /\ failed' = (failed \/ raised')
    /\ UNCHANGED <<environmentVars, containerVars, serverVars, options, stage, tries, tests>>

EndTest ==
    /\ Part("test") /\ user \in {"out", "left"}
    /\ stage' = "ready"
    /\ failed' \in {failed, TRUE}
    /\ UNCHANGED <<inventory, halted>>

\* remote_orchestrator_shared, after its yield: cache_libs_folder.
EndSession ==
    /\ Part("ready")
    /\ \/ GoOn(IF options.noClean THEN "halt" ELSE "clean")
       \/ Abort
    /\ UNCHANGED <<inventory, halted>>

\* Mutant: nobody looks at the answer to environment_clear.
ClearLastUnchecked ==
    /\ Part("clean")
    /\ \/ EnvironmentClear /\ GoOn("halt")
       \/ UNCHANGED <<inventory, halted>> /\ GoOn("halt")

ClearLast ==
    /\ Part("clean")
    /\ \/ EnvironmentClear /\ GoOn("halt")
       \/ EnvironmentClear /\ Abort
       \/ Abort /\ UNCHANGED <<inventory, halted>>

HaltEnvironment ==
    /\ Part("halt")
    /\ \/ /\ halted' = (halted \/ ~options.noHalt)
          /\ GoOn(IF options.container THEN "exit" ELSE "over")
       \/ ~options.noHalt /\ halted' \in {halted, TRUE} /\ Abort
    /\ UNCHANGED inventory

-----------------------------------------------------------------------------
LoadRuns ==
    /\ Generator!Load
    /\ UNCHANGED <<environmentVars, containerVars, serverVars, sessionVars>>

\* The other developers protect the environment, or change its name and project, which
\* only its configuration reads.
OthersAct ==
    /\ \/ stage \in {"reach", "configure"} /\ OthersEdit /\ UNCHANGED protected
       \/ /\ stage \notin {"start", "enter", "exit", "over"}
          /\ edits < MaxEdits /\ edits' = edits + 1
          /\ environment # Nothing /\ protected' = TRUE
          /\ UNCHANGED <<environment, projects, asked, conf, current, updates, before>>
    /\ UNCHANGED <<containerVars, loadVars, inventory, halted, sessionVars>>

FixtureStep ==
    \/ Start \/ ContainerRuns \/ ExitContainer \/ Reach \/ ConfigureRuns \/ CheckProtected
    \/ ClearFirst \/ StartTest \/ ResumeEnvironment \/ EndTest \/ LeaveLoad
    \/ EndSession \/ ClearLast \/ HaltEnvironment

Next == FixtureStep \/ CreateServices \/ UseLoad \/ LoadRuns \/ Interrupted \/ OthersAct

\* pytest goes on with the session, commands and requests come to an end, and the
\* threads get their turns.
Spec ==
    /\ Init /\ [][Next]_vars
    /\ WF_vars(FixtureStep) /\ WF_vars(LoadRuns)

-----------------------------------------------------------------------------
\* A container never outlives its compose file (OrchestratorContainer).
LabHasItsFolder == Container!LabHasItsFolder

\* At most one request is sent after the load generator was told to stop, and its
\* failure is the test's (LoadGenerator).
LoadIsBounded == Generator!LoadIsBounded

\* A session that pytest reports no error for leaves what its options ask for, and
\* nothing else: no containers without --lsm-no-clean, an environment that is empty
\* unless it is to be kept, and halted unless it is to be kept running.
EndsAsAsked ==
    stage = "over" /\ ~failed =>
        /\ (lab # "none") = (options.container /\ options.noClean)
        /\ lab = "none" => cwd = "none"
        /\ (lab # "none" \/ ~options.container) =>
              /\ inventory => options.noClean
              /\ ~halted => options.noHalt

\* A session always ends, whatever fails in it, and so does the load of its tests.
SessionEnds ==
    /\ <>(stage = "over")
    /\ Generator!LoadEnds
=============================================================================
