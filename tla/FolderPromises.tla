---------------------------- MODULE FolderPromises ----------------------------
(***************************************************************************)
(* What RemoteOrchestrator promises about the project on the               *)
(* orchestrator's disk: the properties of ProjectFolder, whose steps are   *)
(* Folder's here.                                                          *)
(***************************************************************************)

CONSTANTS
    Versions, Modules,
    NoFolder \* no folder, no file

VARIABLES
    local, sameUser, clean, disk, script, task, result, session, cached,
    folderBefore \* the project's folder when the task started

Folder == INSTANCE ProjectFolder WITH Nothing <- NoFolder, before <- folderBefore

ASSUME NoFolderAssumption == NoFolder \notin Versions \cup Folder!Folders

FolderSpec == Folder!Spec

-----------------------------------------------------------------------------
\* An export that succeeds leaves exactly the local project on the orchestrator,
\* installed, whatever earlier tasks have left half done anywhere on the disk.
ExportIsLocal ==
    Folder!Did("export") /\ session =>
        disk["project"] = [files |-> local.files, env |-> TRUE, libs |-> local.modules, nested |-> FALSE]

\* A soft clear keeps all the files of the project in place, and nests nothing.
SoftClearKeepsProject ==
    Folder!Did("clear") /\ session =>
        disk["project"] = IF folderBefore = NoFolder THEN Folder!Empty ELSE folderBefore

\* A session starts with none of the files of an earlier one, even of one that
\* was killed, but for the libs it has left.
SessionStartsClean ==
    Folder!Did("start_session") =>
        /\ disk["project"] = [Folder!Empty EXCEPT !.libs = disk["cache"].libs]
        /\ cached # NoFolder => disk["project"].libs = cached

\* The session teardown caches the libs as they are when it starts.
LibsAreCached ==
    Folder!Did("end_session") =>
        cached = IF folderBefore = NoFolder THEN {} ELSE folderBefore.libs
=============================================================================
