-------------------------- MODULE CompileCacheProofs --------------------------
(***************************************************************************)
(* What CompileCache promises, for any models, programs and scheduler ids: *)
(* a warm compile executes what a cold one would, and types nothing again. *)
(***************************************************************************)
EXTENDS CompileCache, TLAPS

\* The registry holds the scheduler of the warm compile that is running, no other:
\* an id that is reused later is not mistaken for it.
RegistryInv ==
    warmSchedulers = IF pc \in {"define types", "execute"} /\ compile.kind = "warm"
                     THEN {compile.scheduler} ELSE {}

\* The cache keeps each program under the model it was loaded for, and keeps all
\* that are compiled, those of every model that has succeeded among them.
CacheInv ==
    /\ \A text \in Texts : states[text] # Nothing => source[states[text]] = text.model
    /\ compiled \subseteq {states[text] : text \in Texts}
    /\ \A m \in succeeded : states[[model |-> m, newlines |-> FALSE]] \in compiled

\* The current project is that of the running compile; a cold one is not compiled
\* yet, a warm one is.
CurrentInv ==
    pc # "idle" =>
        /\ compile.kind \in {"cold", "warm"}
        /\ compile.text \in Texts
        /\ project = State(compile.text) /\ project \in Programs
        /\ compile.kind = "warm" <=> project \in compiled

\* From its reset or its load on, nothing is left of an execution; a warm program
\* is paired before it is scheduled, a cold one when it is typed.
CleanInv ==
    /\ pc \in {"schedule", "define types", "execute"} => project \notin used /\ fresh
    /\ pc \in {"schedule", "define types"} /\ compile.kind = "warm" => paired = project
    /\ pc = "execute" => paired = project /\ project \in typed

IInv == TypeOK /\ RegistryInv /\ CacheInv /\ CurrentInv /\ CleanInv

-----------------------------------------------------------------------------
\* The key of a text has the text's model.
LEMMA CacheKeyModel ==
    ASSUME NEW text \in Texts
    PROVE  /\ CacheKey(text) \in Texts
           /\ CacheKey(text) = [model |-> text.model, newlines |-> FALSE]
           /\ text.model \in Models
  BY DEF CacheKey, Texts

\* The cache does not depend on the step a compile is at.
LEMMA CacheKept ==
    ASSUME CacheInv, states' = states, source' = source,
           compiled' = compiled, succeeded' = succeeded
    PROVE  CacheInv'
  BY DEF CacheInv

LEMMA InvInit == Init => IInv
<1> SUFFICES ASSUME Init PROVE IInv
  OBVIOUS
<1> USE DEF Init
<1>1. TypeOK
  BY DEF TypeOK, Texts
<1>2. RegistryInv /\ CacheInv /\ CurrentInv /\ CleanInv
  BY DEF RegistryInv, CacheInv, CurrentInv, CleanInv
<1>3. QED
  BY <1>1, <1>2 DEF IInv

\* A compile for a text whose program is compiled.
LEMMA InvReuse ==
    ASSUME IInv, NEW text \in Texts, ReuseProject(text)
    PROVE  IInv'
<1> USE DEF ReuseProject, Begin
<1>1. /\ CacheKey(text) \in Texts /\ project' = states[CacheKey(text)]
      /\ project' \in compiled /\ project' \in Programs
  BY CacheKeyModel DEF IInv, TypeOK, Warm, State
<1>2. compile' = [text |-> text, scheduler |-> Nothing, kind |-> "warm"]
  BY DEF Warm
<1>3. TypeOK'
  BY <1>1, <1>2, NothingAssumption DEF IInv, TypeOK, Compiles
<1>4. RegistryInv' /\ CacheInv' /\ CleanInv'
  BY <1>1 DEF IInv, RegistryInv, CacheInv, CleanInv
<1>5. CurrentInv'
  BY <1>1, <1>2 DEF CurrentInv, State, CacheKey
<1>6. QED
  BY <1>3, <1>4, <1>5 DEF IInv

\* A compile for a text without a compiled program: the program it loads is not
\* one of those in use, and replaces none that is compiled.
LEMMA InvLoad ==
    ASSUME IInv, NEW text \in Texts, NEW p \in Programs, LoadProject(text, p)
    PROVE  IInv'
<1> DEFINE key == CacheKey(text)
<1> USE DEF LoadProject, Begin
<1>1. key \in Texts /\ key.model = text.model /\ text.model \in Models
  BY CacheKeyModel
<1>2. states \in [Texts -> Programs \cup {Nothing}]
  BY DEF IInv, TypeOK
<1>3. /\ \A t \in Texts : states[t] # p
      /\ p \notin compiled /\ p # Nothing
  BY NothingAssumption DEF IInv, CacheInv, Unused
<1>4. compile' = [text |-> text, scheduler |-> Nothing, kind |-> "cold"]
  BY DEF Warm
<1>5. states[key] \notin compiled
  BY DEF Warm, State
<1>6. /\ states'[key] = p
      /\ \A t \in Texts \ {key} : states'[t] = states[t]
  BY <1>1, <1>2
<1>7. TypeOK'
  <2>1. states' \in [Texts -> Programs \cup {Nothing}]
    BY <1>2
  <2>2. source' \in [Programs -> Models \cup {Nothing}]
    BY <1>1 DEF IInv, TypeOK
  <2>3. compiled' \subseteq typed' /\ typed' \subseteq Programs
    BY <1>3 DEF IInv, TypeOK
  <2>4. compile' \in Compiles
    BY <1>4 DEF Compiles
  <2>5. QED
    BY <2>1, <2>2, <2>3, <2>4, <1>3, <1>4, NothingAssumption DEF IInv, TypeOK, Compiles
<1>8. RegistryInv'
  BY DEF IInv, RegistryInv
<1>9. CacheInv'
  <2>1. source'[p] = text.model /\ \A q \in Programs \ {p} : source'[q] = source[q]
    BY DEF IInv, TypeOK
  <2>2. \A t \in Texts : states'[t] # Nothing => source'[states'[t]] = t.model
    BY <1>1, <1>2, <1>3, <1>6, <2>1 DEF IInv, CacheInv
  <2>3. compiled' \subseteq {states'[t] : t \in Texts}
    BY <1>5, <1>6 DEF IInv, CacheInv
  <2>4. ASSUME NEW m \in succeeded'
        PROVE  states'[[model |-> m, newlines |-> FALSE]] \in compiled'
    <3>1. m \in Models /\ [model |-> m, newlines |-> FALSE] \in Texts
      BY <2>4 DEF IInv, TypeOK, Texts
    <3>2. states[[model |-> m, newlines |-> FALSE]] \in compiled
      BY <2>4 DEF IInv, CacheInv
    <3>3. [model |-> m, newlines |-> FALSE] # key
      BY <3>2, <1>5
    <3>4. QED
      BY <3>1, <3>2, <3>3, <1>6
  <2>5. QED
    BY <2>2, <2>3, <2>4 DEF CacheInv
<1>10. CurrentInv'
  BY <1>3, <1>4, <1>6 DEF CurrentInv, State, CacheKey
<1>11. CleanInv'
  BY <1>4 DEF CleanInv
<1>12. QED
  BY <1>7, <1>8, <1>9, <1>10, <1>11 DEF IInv

\* The steps of a compile that keep the cache as it is.
LEMMA InvCompile ==
    ASSUME IInv,
           \/ Reset \/ SkipTypes \/ DefineTypes \/ TypingFails
           \/ \E id \in Schedulers : Schedule(id)
    PROVE  IInv'
<1> USE DEF IInv
<1>1. CASE Reset
  <2> USE <1>1 DEF Reset, RestorePairing, ResetGraph
  <2>1. TypeOK'
    BY DEF TypeOK
  <2>2. RegistryInv' /\ CacheInv'
    BY DEF RegistryInv, CacheInv
  <2>3. CurrentInv' /\ CleanInv'
    BY DEF CurrentInv, CleanInv, State
  <2>4. QED
    BY <2>1, <2>2, <2>3
<1>2. ASSUME NEW id \in Schedulers, Schedule(id) PROVE IInv'
  <2> USE <1>2 DEF Schedule, process
  <2>1. /\ compile \in Compiles
        /\ compile' = [text |-> compile.text, scheduler |-> id, kind |-> compile.kind]
    BY NothingAssumption DEF TypeOK, CurrentInv, Compiles
  <2>2. compile'.kind = compile.kind /\ compile'.scheduler = id /\ compile' \in Compiles
    BY <2>1 DEF Compiles
  <2>3. warmSchedulers = {}
    BY DEF RegistryInv
  <2>4. TypeOK'
    BY <2>2, NothingAssumption DEF TypeOK
  <2>5. RegistryInv' /\ CacheInv'
    <3>1. warmSchedulers' = IF compile.kind = "warm" THEN {id} ELSE {}
      BY <2>3
    <3>2. RegistryInv'
      BY <2>2, <3>1 DEF RegistryInv
    <3>3. states' = states /\ source' = source /\ compiled' = compiled /\ succeeded' = succeeded
      OBVIOUS
    <3>4. CacheInv'
      BY <3>3, CacheKept
    <3>5. QED
      BY <3>2, <3>4
  <2>6. CurrentInv' /\ CleanInv'
    BY <2>1 DEF CurrentInv, CleanInv, State
  <2>7. QED
    BY <2>4, <2>5, <2>6
<1>3. CASE SkipTypes
  <2> USE <1>3 DEF SkipTypes, process
  <2>1. compile.kind = "warm"
    BY DEF RegistryInv
  <2>2. TypeOK' /\ RegistryInv' /\ CacheInv' /\ CurrentInv'
    BY DEF TypeOK, RegistryInv, CacheInv, CurrentInv, State
  <2>3. project \in typed
    BY <2>1 DEF CurrentInv, TypeOK
  <2>4. CleanInv'
    BY <2>1, <2>3 DEF CleanInv
  <2>5. QED
    BY <2>2, <2>4
<1>4. CASE DefineTypes
  <2> USE <1>4 DEF DefineTypes
  <2>1. project \in Programs
    BY DEF CurrentInv
  <2>2. TypeOK'
    BY <2>1 DEF TypeOK
  <2>3. RegistryInv' /\ CacheInv' /\ CurrentInv' /\ CleanInv'
    BY DEF RegistryInv, CacheInv, CurrentInv, CleanInv, State
  <2>4. QED
    BY <2>2, <2>3
<1>5. CASE TypingFails
  <2> USE <1>5 DEF TypingFails
  <2>1. compile.kind = "cold"
    BY DEF RegistryInv, CurrentInv
  <2>2. TypeOK' /\ RegistryInv' /\ CacheInv' /\ CurrentInv' /\ CleanInv'
    BY <2>1 DEF TypeOK, RegistryInv, CacheInv, CurrentInv, CleanInv, State
  <2>3. QED
    BY <2>2
<1>6. QED
  BY <1>1, <1>2, <1>3, <1>4, <1>5

\* The end of an execution.
LEMMA InvExecute ==
    ASSUME IInv, ExecutionFails \/ ExecutionSucceeds
    PROVE  IInv'
<1> USE DEF Execute, Unregister
<1>1. /\ pc = "execute" /\ pc' = "idle" /\ compile' = compile
      /\ project \in typed /\ project \in Programs
      /\ project = states[CacheKey(compile.text)] /\ compile.text \in Texts
      /\ source[project] = compile.text.model
  <2>1. /\ pc = "execute" /\ pc' = "idle" /\ compile' = compile
    BY DEF ExecutionFails, ExecutionSucceeds
  <2>2. /\ project \in typed /\ project \in Programs
        /\ project = states[CacheKey(compile.text)] /\ compile.text \in Texts
    BY <2>1 DEF IInv, CurrentInv, CleanInv, State
  <2>3. QED
    BY <2>1, <2>2, CacheKeyModel, NothingAssumption DEF IInv, CacheInv
<1>2. compiled' \in {compiled, compiled \cup {project}}
  BY DEF ExecutionFails, ExecutionSucceeds
<1>3. succeeded' \in {succeeded, succeeded \cup {compile.text.model}}
      /\ (succeeded' # succeeded => project \in compiled')
  BY DEF ExecutionFails, ExecutionSucceeds
<1>4. UNCHANGED <<states, project, source, typed, paired>> /\ used' = used \cup {project}
      /\ fresh' = FALSE /\ warmSchedulers' = warmSchedulers \ {compile.scheduler}
  BY DEF ExecutionFails, ExecutionSucceeds
<1>5. TypeOK'
  BY <1>1, <1>2, <1>3, <1>4, CacheKeyModel DEF IInv, TypeOK
<1>6. RegistryInv'
  BY <1>1, <1>4 DEF IInv, RegistryInv
<1>7. CacheInv'
  <2>1. compiled' \subseteq {states[text] : text \in Texts}
    BY <1>1, <1>2, CacheKeyModel DEF IInv, CacheInv
  <2>2. \A m \in succeeded' : states[[model |-> m, newlines |-> FALSE]] \in compiled'
    BY <1>1, <1>2, <1>3, CacheKeyModel DEF IInv, CacheInv
  <2>3. QED
    BY <2>1, <2>2, <1>4 DEF IInv, CacheInv
<1>8. CurrentInv' /\ CleanInv'
  BY <1>1 DEF CurrentInv, CleanInv
<1>9. QED
  BY <1>5, <1>6, <1>7, <1>8 DEF IInv

LEMMA InvNext == IInv /\ [Next]_vars => IInv'
<1> SUFFICES ASSUME IInv, [Next]_vars PROVE IInv'
  OBVIOUS
<1>1. ASSUME NEW text \in Texts, ReuseProject(text) PROVE IInv'
  BY <1>1, InvReuse
<1>2. ASSUME NEW text \in Texts, NEW p \in Programs, LoadProject(text, p) PROVE IInv'
  BY <1>2, InvLoad
<1>3. ASSUME NEW text \in Texts, LoadFails(text) PROVE IInv'
  BY <1>3 DEF LoadFails, IInv, TypeOK, RegistryInv, CacheInv, CurrentInv, CleanInv, State
<1>4. ASSUME NEW id \in Schedulers, Schedule(id) PROVE IInv'
  BY <1>4, InvCompile
<1>5. CASE Reset \/ SkipTypes \/ DefineTypes \/ TypingFails
  BY <1>5, InvCompile
<1>6. CASE ExecutionFails \/ ExecutionSucceeds
  BY <1>6, InvExecute
<1>7. CASE UNCHANGED vars
  BY <1>7 DEF vars, process, IInv, TypeOK, RegistryInv, CacheInv, CurrentInv, CleanInv, State
<1>8. QED
  BY <1>1, <1>2, <1>3, <1>4, <1>5, <1>6, <1>7 DEF Next

-----------------------------------------------------------------------------
\* The cache and the state of the process keep their types.
THEOREM TypeCorrect == Spec => []TypeOK
<1>1. IInv => TypeOK
  BY DEF IInv
<1>2. QED
  BY InvInit, InvNext, <1>1, PTL DEF Spec

\* Every execution, of a new program or of a cached one, starts as that of a cold
\* compile does.
THEOREM WarmIsCold == Spec => []ExecutesAsCold
<1>1. IInv => ExecutesAsCold
  <2> SUFFICES ASSUME IInv, pc = "execute"
               PROVE  /\ project \in typed /\ source[project] = compile.text.model
                      /\ project \notin used /\ paired = project /\ fresh
    BY DEF ExecutesAsCold
  <2>1. /\ compile.text \in Texts /\ project = states[CacheKey(compile.text)]
        /\ project # Nothing
    BY NothingAssumption DEF IInv, CurrentInv, State
  <2>2. source[project] = compile.text.model
    BY <2>1, CacheKeyModel DEF IInv, CacheInv
  <2>3. QED
    BY <2>2 DEF IInv, CleanInv
<1>2. QED
  BY InvInit, InvNext, <1>1, PTL DEF Spec

\* A model that was compiled with success is not typed again.
THEOREM NeverTypedAgain == Spec => []TypedOnce
<1>1. IInv => TypedOnce
  <2> SUFFICES ASSUME IInv, pc = "define types", compile.scheduler \notin warmSchedulers
               PROVE  compile.text.model \notin succeeded
    BY DEF TypedOnce
  <2>1. compile.kind = "cold" /\ project \notin compiled /\ compile.text \in Texts
    BY DEF IInv, RegistryInv, CurrentInv
  <2>2. states[[model |-> compile.text.model, newlines |-> FALSE]] \notin compiled
    BY <2>1, CacheKeyModel DEF IInv, CurrentInv, State
  <2>3. QED
    BY <2>2 DEF IInv, CacheInv
<1>2. QED
  BY InvInit, InvNext, <1>1, PTL DEF Spec
=============================================================================
