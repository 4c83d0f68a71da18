----------------------------- MODULE Environment -----------------------------
(***************************************************************************)
(* OrchestratorEnvironment (remote_orchestrator.py:60-175): makes sure     *)
(* that the environment exists, with the name and in the project that were *)
(* asked for.  Each step is a request; the developers who share the        *)
(* orchestrator may rename the environment, move it or add projects        *)
(* between two of them.                                                    *)
(***************************************************************************)
EXTENDS Naturals

CONSTANTS
    Names,   \* of environments and of projects
    Options, \* the names that may be asked for
    Default, \* the name for what has to be created, "pytest-inmanta-lsm"
    Nothing, \* Python's None
    MaxEdits \* bound on what the other developers do

ASSUME NamesAssumption == Options \subseteq Names /\ Default \in Names /\ Nothing \notin Names

Environments == [name : Names, project : Names]

ASSUME NothingAssumption == Nothing \notin Environments

VARIABLES
    environment, \* on the orchestrator, or Nothing
    projects,    \* the projects of the orchestrator
    asked,       \* OrchestratorEnvironment.name and project
    conf,        \* the next request of configure_environment, "done" or "failed"
    current,     \* current_environment
    updates,     \* what to modify
    edits,       \* bound on the edits of others
    \* The rest is history:
    before       \* the environment when configure_environment was called

environmentVars == <<environment, projects, asked, conf, current, updates, edits, before>>

Asked == [name : Options \cup {Nothing}, project : Options \cup {Nothing}]
NoUpdates == [name |-> Nothing, project |-> Nothing]

Or(value, otherwise) == IF value # Nothing THEN value ELSE otherwise

\* A request that is not answered, or that is refused, raises: it may have been done
\* all the same.
Answered(next) ==
    /\ conf' \in {next, "failed"}
    /\ UNCHANGED <<asked, edits, before>>

\* get_environment: a 404 becomes a LookupError, which asks for a new environment.
GetEnvironment ==
    /\ conf = "get"
    /\ current' = environment
    /\ Answered(IF environment = Nothing THEN "projects" ELSE "project")
    /\ UNCHANGED <<environment, projects, updates>>

\* get_project, which reads the environment once more, and what is to be updated.
GetProject ==
    /\ conf = "project"
    /\ LET rename == asked.name \notin {Nothing, current.name}
           move == asked.project \notin {Nothing, environment.project}
       IN  /\ updates' = [updates EXCEPT !.name = IF rename THEN asked.name ELSE Nothing]
           /\ Answered(IF move THEN "projects" ELSE IF rename THEN "modify" ELSE "done")
    /\ UNCHANGED <<environment, projects, current>>

\* configure_project: project_list, then project_create when the name is not in it.
ListProjects ==
    /\ conf = "projects"
    /\ LET wanted == Or(asked.project, Default)
       IN  /\ updates' = [updates EXCEPT !.project = wanted]
           /\ Answered(IF wanted \notin projects THEN "create project"
                       ELSE IF current = Nothing THEN "create" ELSE "modify")
    /\ UNCHANGED <<environment, projects, current>>

CreateProject ==
    /\ conf = "create project"
    /\ updates.project \notin projects
    /\ projects' = projects \cup {updates.project}
    /\ Answered(IF current = Nothing THEN "create" ELSE "modify")
    /\ UNCHANGED <<environment, current, updates>>

CreateEnvironment ==
    /\ conf = "create"
    /\ environment' = [name |-> Or(asked.name, Default), project |-> updates.project]
    /\ Answered("done")
    /\ UNCHANGED <<projects, current, updates>>

\* Mutant: the name is only given when it changes, and gets reset otherwise.
ModifyWithoutName ==
    /\ conf = "modify"
    /\ environment' = [name |-> Or(updates.name, Default),
                       project |-> Or(updates.project, environment.project)]
    /\ Answered("done")
    /\ UNCHANGED <<projects, current, updates>>

\* environment_modify wants a name: the present one, as it was read, if it is not to
\* be updated.
ModifyEnvironment ==
    /\ conf = "modify"
    /\ environment' = [name |-> Or(updates.name, current.name),
                       project |-> Or(updates.project, environment.project)]
    /\ Answered("done")
    /\ UNCHANGED <<projects, current, updates>>

\* A request that fails before it does anything.
ConfigureFails ==
    /\ conf \in {"get", "project", "projects", "create project", "create", "modify"}
    /\ conf' = "failed"
    /\ UNCHANGED <<environment, projects, asked, current, updates, edits, before>>

ConfigureStep ==
    \/ GetEnvironment \/ GetProject \/ ListProjects \/ CreateProject
    \/ CreateEnvironment \/ ModifyEnvironment

\* The other developers.  An environment is never moved to a project that is not there.
OthersEdit ==
    /\ edits < MaxEdits /\ edits' = edits + 1
    /\ \/ \E name \in Names :
            /\ projects' = projects \cup {name}
            /\ UNCHANGED environment
       \/ /\ environment # Nothing
          /\ \E name \in Names, project \in projects :
               environment' = [name |-> name, project |-> project]
          /\ UNCHANGED projects
    /\ UNCHANGED <<asked, conf, current, updates, before>>

-----------------------------------------------------------------------------
\* What configure_environment makes of an environment.
Wanted(from) ==
    [name    |-> Or(asked.name, IF from = Nothing THEN Default ELSE from.name),
     project |-> Or(asked.project, IF from = Nothing THEN Default ELSE from.project)]

\* Left alone by the others, the environment goes from what it was to what was asked
\* for in one step: however the configuration ends, it never has the name without
\* the project, nor loses what was not asked for, and it is in a project that exists.
\* When the configuration returns, it has made that step.
ConfiguredAtOnce ==
    edits = 0 =>
        /\ conf \in {"get", "project", "projects", "create project", "create", "modify", "failed"} =>
              environment \in {before, Wanted(before)}
        /\ conf = "done" => environment = Wanted(before)
        /\ environment # Nothing => environment.project \in projects
=============================================================================
