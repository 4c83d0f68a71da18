---------------------------- MODULE ProjectFolder ----------------------------
(***************************************************************************)
(* The project on the orchestrator's disk: RemoteOrchestrator moves it     *)
(* around with shell commands (remote_orchestrator.py:673-960), at the     *)
(* start and the end of each session of pytest and at the start of each    *)
(* test (plugin.py:415-598).  Every part of a command can fail, and pytest *)
(* be killed before any of them; the folders outlive both.                 *)
(***************************************************************************)
EXTENDS Sequences

CONSTANTS
    Versions,  \* versions of the local project
    Modules,   \* the modules a local project may have
    Nothing    \* no folder, no file

\* A project has at least the module under test.
Projects == [files : Versions, modules : (SUBSET Modules) \ {{}}]
\* A folder: the project's own files, its venv, its libs, and whether another
\* folder has been moved into it.
Folders == [files : Versions \cup {Nothing}, env : BOOLEAN, libs : SUBSET Modules, nested : BOOLEAN]
Empty   == [files |-> Nothing, env |-> FALSE, libs |-> {}, nested |-> FALSE]

Places  == {"project", "cache", "tmp"}
Tasks   == {"none", "start_session", "clear", "export", "end_session"}

VARIABLES
    local,    \* the project under test
    sameUser, \* remote_user is inmanta
    clean,    \* the session cleans behind itself: no --lsm-no-clean
    disk,     \* the folder at each place
    script,   \* what is left of the commands of the task in progress
    task,     \* the last task, and its result
    result,
    session,  \* a session of pytest is running
    \* The rest is history:
    before,   \* the project's folder when the task started
    cached    \* the libs the last session has left for the next one's start: its
              \* first soft clear removes them

vars == <<local, sameUser, clean, disk, script, task, result, session,
          before, cached>>
settings == <<local, sameUser, clean>>

Init ==
    /\ local \in Projects
    /\ sameUser \in BOOLEAN
    /\ clean \in BOOLEAN
    /\ disk = [place \in Places |-> Nothing]
    /\ script = <<>>
    /\ task = "none"
    /\ result = "none"
    /\ session = FALSE
    /\ before = Nothing
    /\ cached = Nothing

-----------------------------------------------------------------------------
\* The commands, one part at a time.
Cmd(name, from, to) == [name |-> name, from |-> from, to |-> to]
MkDir(place)    == Cmd("mkdir", place, place)
Remove(place)   == Cmd("rm", place, place)
Move(from, to)  == Cmd("mv", from, to)
CopyLibs(from, to) == Cmd("rsync_libs", from, to)
ClearApi        == Cmd("environment_clear", "project", "project")

\* What a part of a command leaves on the disk; mkdir -p, rm -rf; mv moves into
\* a folder that is there; rsync --delete keeps what it excludes.
Made(place) == IF disk[place] = Nothing THEN Empty ELSE disk[place]
Effect(c) ==
    CASE c.name = "mkdir" -> [disk EXCEPT ![c.to] = Made(c.to)]
      [] c.name \in {"rm", "environment_clear"} -> [disk EXCEPT ![c.to] = Nothing]
      [] c.name = "mv" ->
            [disk EXCEPT ![c.from] = Nothing,
                         ![c.to] = IF disk[c.to] = Nothing THEN disk[c.from]
                                   ELSE [disk[c.to] EXCEPT !.nested = TRUE]]
      [] c.name = "rsync_libs" ->
            [disk EXCEPT ![c.to] = [Made(c.to) EXCEPT !.libs = Made(c.from).libs]]
      [] c.name = "rsync_project" -> [disk EXCEPT ![c.to].files = local.files]
      [] c.name = "sync_modules" ->
            [disk EXCEPT ![c.to].libs = @ \cup local.modules]
      [] c.name = "clear_extra" -> [disk EXCEPT ![c.to].libs = local.modules]
      [] c.name = "install" -> [disk EXCEPT ![c.to].env = TRUE]
      [] c.name = "export"  -> disk

\* sync_local_folder, of the project
\* Mutant: what an earlier sync left in the temporary folder stays.
SyncFolderOnTop ==
    IF sameUser THEN <<MkDir("project"), Cmd("rsync_project", "project", "project")>>
    ELSE <<MkDir("project"), Move("project", "tmp"),
           Cmd("rsync_project", "tmp", "tmp"), Move("tmp", "project")>>
SyncFolder ==
    IF sameUser THEN <<MkDir("project"), Cmd("rsync_project", "project", "project")>>
    ELSE <<MkDir("project"), Remove("tmp"), Move("project", "tmp"),
           Cmd("rsync_project", "tmp", "tmp"), Move("tmp", "project")>>

\* sync_project_folder
SyncProject ==
    SyncFolder \o <<Cmd("sync_modules", "project", "project"),
                    Cmd("clear_extra", "project", "project")>>

ExportServiceEntities ==
    SyncProject \o <<Cmd("install", "project", "project"), Cmd("export", "project", "project")>>

CacheLibs   == <<MkDir("project"), MkDir("cache"), CopyLibs("project", "cache")>>
RestoreLibs == <<MkDir("project"), MkDir("cache"), CopyLibs("cache", "project")>>

ClearEnvironment == <<ClearApi>>

\* Mutant: the project is put back from the cache without removing it first.
SoftClearOnTop ==
    <<MkDir("project"), Move("project", "cache"), ClearApi, MkDir("cache"),
      Remove("project"), Move("cache", "project")>>
SoftClear ==
    <<MkDir("project"), Remove("cache"), Move("project", "cache"), ClearApi,
      MkDir("cache"), Remove("project"), Move("cache", "project")>>

\* The fixtures remote_orchestrator_shared, around a session...
\* Mutant: the session starts with a soft clear.
SessionSetupSoft == SoftClear \o RestoreLibs
SessionSetup == ClearEnvironment \o RestoreLibs
\* Mutant: the environment is cleared before the libs are cached.
SessionTeardownLate == (IF clean THEN ClearEnvironment ELSE <<>>) \o CacheLibs
SessionTeardown == CacheLibs \o (IF clean THEN ClearEnvironment ELSE <<>>)

-----------------------------------------------------------------------------
Begin(name, commands) ==
    /\ script = <<>>
    /\ script' = commands
    /\ task' = name
    /\ result' = "none"
    /\ before' = disk["project"]
    /\ UNCHANGED <<disk, local, sameUser>>

StartSession ==
    /\ ~session /\ session' = TRUE
    /\ Begin("start_session", SessionSetup)
    /\ UNCHANGED <<clean, cached>>

\* ... and remote_orchestrator, before a test: a session whose setup has failed
\* has no tests.
Ready == session /\ ~(task = "start_session" /\ result = "failed") /\ task # "end_session"

StartTest ==
    /\ Ready
    /\ Begin("clear", SoftClear)
    /\ cached' = Nothing
    /\ UNCHANGED <<clean, session>>

\* A test exports its service entities, possibly more than once.
Export ==
    /\ Ready /\ task \in {"clear", "export"} /\ ~(task = "clear" /\ result = "failed")
    /\ Begin("export", ExportServiceEntities)
    /\ UNCHANGED <<clean, session, cached>>

EndSession ==
    /\ Ready
    /\ Begin("end_session", SessionTeardown)
    /\ cached' = Nothing
    /\ UNCHANGED <<clean, session>>

\* The project under test and the options may change between two sessions.
ChangeLocal ==
    /\ ~session
    /\ local' \in Projects /\ clean' \in BOOLEAN
    /\ UNCHANGED <<sameUser, disk, script, task, result, session, before, cached>>

Finish ==
    /\ result' = "done"
    /\ session' = (task # "end_session")
    /\ cached' = IF task = "end_session" THEN disk'["cache"].libs ELSE cached

\* One part of a command; the API call is one of them.
Step ==
    /\ script # <<>>
    /\ disk' = Effect(Head(script))
    /\ script' = Tail(script)
    /\ IF Len(script) = 1 THEN Finish ELSE UNCHANGED <<result, session, cached>>
    /\ UNCHANGED <<settings, task, before>>

\* A part fails, before or after its effect: the exception ends the task, and
\* the session if it is its setup or its teardown.
StepFails ==
    /\ script # <<>>
    /\ script' = <<>>
    /\ disk' \in {disk, Effect(Head(script))}
    /\ result' = "failed"
    /\ session' = (task \notin {"start_session", "end_session"})
    /\ UNCHANGED <<settings, task, before, cached>>

\* pytest is killed.
Crash ==
    /\ session
    /\ session' = FALSE
    /\ script' = <<>>
    /\ result' = "failed"
    /\ UNCHANGED <<settings, disk, task, before, cached>>

Next ==
    \/ StartSession \/ StartTest \/ Export \/ EndSession \/ ChangeLocal
    \/ Step \/ StepFails \/ Crash

Spec == Init /\ [][Next]_vars

-----------------------------------------------------------------------------
\* The types of the variables.
TypeOK ==
    /\ local \in Projects
    /\ sameUser \in BOOLEAN /\ clean \in BOOLEAN
    /\ disk \in [Places -> Folders \cup {Nothing}]
    /\ task \in Tasks
    /\ result \in {"none", "done", "failed"}
    /\ session \in BOOLEAN
    /\ script # <<>> => session /\ result = "none"
    /\ before \in Folders \cup {Nothing}
    /\ cached \in (SUBSET Modules) \cup {Nothing}

Did(name) == task = name /\ result = "done"
=============================================================================
