------------------------ MODULE OrchestratorContainer ------------------------
(***************************************************************************)
(* A lab of docker containers for the duration of some tests, used with a  *)
(* with statement (orchestrator_container.py:190-439): a temporary folder  *)
(* with the compose file, then docker compose pull, up and ps; down and    *)
(* the removal of the folder at the end.  Every command may fail, and the  *)
(* developer may interrupt any of them.                                    *)
(***************************************************************************)
VARIABLES
    cwd,   \* the temporary folder: "none", "partial" while it is incomplete, "ready"
    lab,   \* the containers: "none", "partial", "up"
    at,    \* where the with statement is
    error  \* what it ended with, see Errors

containerVars == <<cwd, lab, at, error>>

Errors == {"none", "OSError", "CommandFailed", "DownFailed", "KeyboardInterrupt"}

ContainerInit == cwd = "none" /\ lab = "none" /\ at = "new" /\ error = "none"

Leave(how) == at' = "left" /\ error' = how

\* The cwd property, at its first use: mkdtemp, then the copies.  An OSError of theirs
\* is not what __enter__ catches.
PrepareFolder ==
    /\ at = "new"
    /\ \/ cwd' = "ready" /\ at' = "pull" /\ UNCHANGED error
       \/ cwd' \in {"none", "partial"} /\ Leave("OSError")
    /\ UNCHANGED lab

\* The handler of __enter__: __exit__, then the exception again.
CleanUp == at' = "down" /\ error' = "CommandFailed"

\* _up
Pull ==
    /\ at = "pull"
    /\ \/ at' = "up" /\ UNCHANGED error
       \/ CleanUp
    /\ UNCHANGED <<cwd, lab>>

Up ==
    /\ at = "up"
    /\ \/ lab' = "up" /\ at' = "ps" /\ UNCHANGED error
       \/ lab' \in {"none", "partial"} /\ CleanUp
    /\ UNCHANGED cwd

\* ps -q tells the ids of the containers.
Ps ==
    /\ at = "ps"
    /\ \/ at' = "entered" /\ UNCHANGED error
       \/ CleanUp
    /\ UNCHANGED <<cwd, lab>>

\* __exit__.  DoNotCleanOrchestratorContainer is swallowed, and all is left as it is.
Exit(doNotClean) ==
    /\ at = "entered"
    /\ at' = IF doNotClean THEN "left" ELSE "down"
    /\ UNCHANGED <<cwd, lab, error>>

\* Mutant: the folder gets removed whether the containers are gone or not.
DownAnyway ==
    /\ at = "down"
    /\ at' = "rmtree"
    /\ \/ lab' = "none" /\ UNCHANGED error
       \/ lab # "none" /\ lab' \in {lab, "partial"} /\ error' = "DownFailed"
    /\ UNCHANGED cwd

\* When down fails, it is down's exception that gets raised, whatever __exit__ was
\* called for.
Down ==
    /\ at = "down"
    /\ \/ lab' = "none" /\ at' = "rmtree" /\ UNCHANGED error
       \/ /\ lab' \in IF lab = "none" THEN {lab} ELSE {lab, "partial"}
          /\ Leave("DownFailed")
    /\ UNCHANGED cwd

\* A command that cannot even be started is an OSError: __enter__ does not catch it,
\* and out of __exit__ it leaves the rest undone.
CannotStart ==
    /\ at \in {"pull", "up", "ps", "down"}
    /\ Leave("OSError")
    /\ UNCHANGED <<cwd, lab>>

RemoveFolder ==
    /\ at = "rmtree"
    /\ \/ cwd' = "none" /\ at' = "left" /\ UNCHANGED error
       \/ cwd' = "partial" /\ Leave("OSError")
    /\ UNCHANGED lab

\* A KeyboardInterrupt is no CalledProcessError: nothing is cleaned up.
Interrupt ==
    /\ at \in {"new", "pull", "up", "ps", "down", "rmtree"}
    /\ lab' \in IF at = "up" \/ (at = "down" /\ lab # "none") THEN {lab, "partial"} ELSE {lab}
    /\ cwd' \in IF at \in {"new", "rmtree"} THEN {cwd, "partial"} ELSE {cwd}
    /\ Leave("KeyboardInterrupt")

ContainerStep == PrepareFolder \/ Pull \/ Up \/ Ps \/ Down \/ CannotStart \/ RemoveFolder

\* Containers never outlive their compose file: whatever fails, and wherever the
\* developer interrupts, the folder that is needed to take them down by hand, and
\* that the log names, is complete.
LabHasItsFolder == lab # "none" => cwd = "ready"
=============================================================================
