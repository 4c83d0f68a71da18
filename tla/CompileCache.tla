---------------------------- MODULE CompileCache -----------------------------
(***************************************************************************)
(* CompileCache (compile_cache.py): the first compile of a model in a test *)
(* parses, types and executes it; the later ones execute the typed program *)
(* again, after a reset of what an execution leaves behind: on the program *)
(* itself and on the process it shares with the other programs.            *)
(***************************************************************************)
EXTENDS FiniteSets

CONSTANTS
    Models,
    Programs,    \* the projects a test loads; those it no longer uses are reclaimed
    Schedulers,  \* the values of id() of its schedulers, reused as well
    Nothing

\* The text of a model: read back from main.cf, it has lost its newlines.
Texts == [model : Models, newlines : BOOLEAN]

\* A compile: what it is for, the scheduler that runs it, its kind.
Compiles == [text : Texts, scheduler : Schedulers \cup {Nothing},
             kind : {"cold", "warm"}]

ASSUME NothingAssumption == Nothing \notin Programs \cup Schedulers \cup Compiles

VARIABLES
    states,   \* self._states: the program kept for each text, if any
    compiled, \* the programs that are compiled: typed, with their snapshot
    warmSchedulers, \* self._warm_schedulers
    project,  \* the current project: module.Project.get()
    source,   \* the model each program was loaded for
    typed,    \* the programs whose typing is complete
    used,     \* the programs whose typed graph carries an execution
    paired,   \* the program whose entities the python dataclasses are paired with
    fresh,    \* the stateful python modules are as loaded
    pc,
    compile,
    succeeded \* history: the models a compile has succeeded for

process == <<project, source, typed, used, paired, fresh>>
vars == <<states, compiled, warmSchedulers, process, pc, compile, succeeded>>

Init ==
    /\ states = [text \in Texts |-> Nothing]
    /\ compiled = {}
    /\ warmSchedulers = {}
    /\ project = Nothing
    /\ source = [p \in Programs |-> Nothing]
    /\ typed = {} /\ used = {}
    /\ paired = Nothing
    /\ fresh \in BOOLEAN
    /\ pc = "idle"
    /\ compile = Nothing
    /\ succeeded = {}

\* Mutant: the text itself is the key.
CacheKeyIsText(text) == text
CacheKey(text) == [model |-> text.model, newlines |-> FALSE]
State(text) == states[CacheKey(text)]
Warm(text)  == State(text) \in compiled
Unused == Programs \ ({project, paired} \cup {states[text] : text \in Texts})

-----------------------------------------------------------------------------
\* create_project_and_load
Begin(text) ==
    /\ pc = "idle"
    /\ compile' = [text |-> text, scheduler |-> Nothing,
                   kind |-> IF Warm(text) THEN "warm" ELSE "cold"]
    /\ UNCHANGED <<compiled, warmSchedulers, paired, succeeded>>

ReuseProject(text) ==
    /\ Begin(text) /\ Warm(text)
    /\ project' = State(text)
    /\ pc' = "reset"
    /\ UNCHANGED <<states, source, typed, used, fresh>>

\* A new project: its modules are loaded and reset, its program not yet typed.
LoadProject(text, p) ==
    /\ Begin(text) /\ ~Warm(text)
    /\ p \in Unused
    /\ project' = p
    /\ source' = [source EXCEPT ![p] = text.model]
    /\ typed' = typed \ {p} /\ used' = used \ {p}
    /\ states' = [states EXCEPT ![CacheKey(text)] = p]
    /\ fresh' = TRUE
    /\ pc' = "schedule"

\* The model does not parse, or a module does not load.
LoadFails(text) ==
    /\ pc = "idle" /\ ~Warm(text)
    /\ fresh' = ~fresh
    /\ UNCHANGED <<states, compiled, warmSchedulers, project, source, typed, used, paired,
                   pc, compile, succeeded>>

\* _restore_dataclass_pairing
\* Mutant: the pairing is left to the typing phase.
RestorePairingNever == UNCHANGED paired
RestorePairing == paired' = project

\* _reset_execution_state
ResetGraph == used' = used \ {project}

\* What precedes a warm execution; _reset_module_state comes first.
Reset ==
    /\ pc = "reset"
    /\ fresh' = TRUE
    /\ RestorePairing
    /\ ResetGraph
    /\ pc' = "schedule"
    /\ UNCHANGED <<states, compiled, warmSchedulers, project, source, typed, compile, succeeded>>

\* A scheduler is created; the warm ones are registered.
Schedule(id) ==
    /\ pc = "schedule"
    /\ compile' = [compile EXCEPT !.scheduler = id]
    /\ warmSchedulers' = IF compile.kind = "warm" THEN warmSchedulers \cup {id} ELSE warmSchedulers
    /\ pc' = "define types"
    /\ UNCHANGED <<states, compiled, process, succeeded>>

\* The finally clause of a warm compile; a cold one has no scheduler registered.
Unregister == warmSchedulers' = warmSchedulers \ {compile.scheduler}

\* define_types: skipped for a registered scheduler, else the typing phase, which
\* pairs the dataclasses as it goes.
SkipTypes ==
    /\ pc = "define types" /\ compile.scheduler \in warmSchedulers
    /\ pc' = "execute"
    /\ UNCHANGED <<states, compiled, warmSchedulers, process, compile, succeeded>>

DefineTypes ==
    /\ pc = "define types" /\ compile.scheduler \notin warmSchedulers
    /\ paired' = project
    /\ typed' = typed \cup {project}
    /\ pc' = "execute"
    /\ UNCHANGED <<states, compiled, warmSchedulers, project, source, used, fresh, compile, succeeded>>

TypingFails ==
    /\ pc = "define types" /\ compile.scheduler \notin warmSchedulers
    /\ paired' \in {paired, project}
    /\ pc' = "idle"
    /\ UNCHANGED <<states, compiled, warmSchedulers, project, source, typed, used, fresh,
                   compile, succeeded>>

\* The execution phase runs the plugins of the modules and fills the graph.
Execute ==
    /\ pc = "execute"
    /\ used' = used \cup {project}
    /\ fresh' = FALSE
    /\ pc' = "idle"
    /\ UNCHANGED <<states, project, source, typed, paired, compile>>

ExecutionFails ==
    /\ Execute
    /\ UNCHANGED <<compiled, succeeded>>
    /\ Unregister

ExecutionSucceeds ==
    /\ Execute
    /\ compiled' = compiled \cup {project}
    /\ succeeded' = succeeded \cup {compile.text.model}
    /\ Unregister

Next ==
    \/ \E text \in Texts :
         \/ ReuseProject(text) \/ LoadFails(text)
         \/ \E p \in Programs : LoadProject(text, p)
    \/ \E id \in Schedulers : Schedule(id)
    \/ Reset \/ SkipTypes \/ DefineTypes \/ TypingFails
    \/ ExecutionFails \/ ExecutionSucceeds

Spec == Init /\ [][Next]_vars

-----------------------------------------------------------------------------
\* The types of the variables.
TypeOK ==
    /\ states \in [Texts -> Programs \cup {Nothing}]
    /\ compiled \subseteq typed /\ typed \subseteq Programs
    /\ used \subseteq Programs
    /\ warmSchedulers \subseteq Schedulers
    /\ project \in Programs \cup {Nothing} /\ paired \in Programs \cup {Nothing}
    /\ source \in [Programs -> Models \cup {Nothing}]
    /\ fresh \in BOOLEAN
    /\ pc \in {"idle", "reset", "schedule", "define types", "execute"}
    /\ compile \in Compiles \cup {Nothing}
    /\ pc # "idle" => compile # Nothing /\ project # Nothing
    /\ succeeded \subseteq Models

\* Whatever was compiled before, and failed, an execution starts as that of a cold
\* compile does: from a typed program of the model that was asked for, without a
\* trace of another execution on its graph, in the python modules or in the pairing
\* of the dataclasses.
ExecutesAsCold ==
    pc = "execute" =>
        /\ project \in typed /\ source[project] = compile.text.model
        /\ project \notin used
        /\ paired = project
        /\ fresh

\* A model that has been compiled with success is never parsed or typed again, also
\* when its text is read back from main.cf.
TypedOnce ==
    pc = "define types" /\ compile.scheduler \notin warmSchedulers =>
        compile.text.model \notin succeeded
=============================================================================
