--------------------------- MODULE SharedResources ---------------------------
(***************************************************************************)
(* post_partial_compile_validation (lsm_project.py:134-262, 1239-1349):    *)
(* after a partial compile, a test checks which resource sets were         *)
(* emitted, that each resource is in the kind of set the test expects, and *)
(* that the resources outside of any set, which all services share, never  *)
(* change.  LsmProject remembers the shared resources of earlier exports;  *)
(* what a compile emits is up to the model under test.                     *)
(***************************************************************************)
EXTENDS FiniteSets

CONSTANTS
    Resources,
    Sets,    \* resource sets: one per root of an ownership tree
    Hashes,  \* what resource_attributes_hash may return
    Nothing  \* Python's None

Shared == "shared"
ASSUME SetsAssumption == Shared \notin Sets /\ Nothing \notin Sets

\* An export: the resources it emits, the set and the hash of each.
Emissions == [set : Sets \cup {Shared}, hash : Hashes]
Exports   == UNION {[R -> Emissions] : R \in SUBSET Resources}

VARIABLES
    export,    \* what the last compile has emitted
    exporting, \* the sets that have a service in an exporting state
    sharedSet, \* self.shared_resource_set, with the hash of each resource
    pc,        \* where the validation in progress is, "idle" between two
    result,    \* how the last one ended
    \* The rest is history:
    accepted   \* the shared resources of the exports that were accepted so far

vars == <<export, exporting, sharedSet, pc, result, accepted>>

NoResource == [r \in {} |-> Nothing]

Init ==
    /\ export = NoResource
    /\ exporting = {}
    /\ sharedSet = NoResource
    /\ pc = "idle"
    /\ result = "none"
    /\ accepted = {}

\* get_resource_sets, get_shared_resources and exporting_resource_sets
Owned  == {r \in DOMAIN export : export[r].set # Shared}
SharedResources == DOMAIN export \ Owned
ResourceSets == {export[r].set : r \in Owned}

-----------------------------------------------------------------------------
\* Between two validations, services change their states and the test compiles.
ChangeServices ==
    /\ pc = "idle"
    /\ exporting' \in SUBSET Sets
    /\ result' = "none"
    /\ UNCHANGED <<export, sharedSet, pc, accepted>>

PartialCompile ==
    /\ pc = "idle"
    /\ export' \in Exports
    /\ result' = "none"
    /\ UNCHANGED <<exporting, sharedSet, pc, accepted>>

End(how) == pc' = "idle" /\ result' = how

\* The emitted sets: that of the validated service if it exports, and exactly
\* those of the additional services, if any are given.
SetsAsExpected(root, additional) ==
    IF additional = Nothing THEN root \in ResourceSets <=> root \in exporting
    ELSE ResourceSets = ({root} \cup additional) \cap exporting

\* The patterns a resource matches are those of the shared or the owned ones.
Validate(root, additional, patterns) ==
    LET mismatched == {r \in DOMAIN export :
            (IF r \in Owned THEN "owned" ELSE "shared") \notin patterns[r]}
        ambiguous == {r \in DOMAIN export : patterns[r] = {"owned", "shared"}}
    IN  /\ pc = "idle"
        /\ \/ ~SetsAsExpected(root, additional) /\ End("AssertionError")
           \/ SetsAsExpected(root, additional) /\ mismatched # {} /\ End("AssertionError")
           \/ SetsAsExpected(root, additional) /\ ambiguous # {} /\ End("ValueError")
           \/ /\ SetsAsExpected(root, additional)
              /\ mismatched \cup ambiguous = {}
              /\ pc' = "partial" /\ result' = "none"
        /\ UNCHANGED <<export, exporting, sharedSet, accepted>>

-----------------------------------------------------------------------------
\* shared_resource_set_validation, in the first or the second half of a validation.
Known == DOMAIN sharedSet
Changed == {r \in SharedResources \cap Known : sharedSet[r] # export[r].hash}

\* Mutant: the memory is that of the last export.
RememberLast(new) == sharedSet' = [r \in new |-> export[r].hash]
Remember(new) ==
    sharedSet' = [r \in Known \cup new |-> IF r \in Known THEN sharedSet[r] ELSE export[r].hash]

\* A changed resource ends the loop, in no particular order: some of the new
\* resources have been added by then.
SharedChanged ==
    /\ pc \in {"partial", "full"}
    /\ Changed # {}
    /\ \E new \in SUBSET (SharedResources \ Known) : Remember(new)
    /\ End("AssertionError")
    /\ UNCHANGED <<export, exporting, accepted>>

\* An owned resource that was shared: the message of the assertion names the
\* resource of the first loop, which there is none of without shared resources.
SharedIsOwned ==
    /\ pc \in {"partial", "full"}
    /\ Changed = {}
    /\ Remember(SharedResources)
    /\ Owned \cap Known # {}
    /\ End(IF SharedResources = {} THEN "UnboundLocalError" ELSE "AssertionError")
    /\ UNCHANGED <<export, exporting, accepted>>

\* Mutant: the owned resources are not looked at.
AcceptedAnyOwner == Changed = {}
Accepted == Changed = {} /\ Owned \cap Known = {}

Accept ==
    /\ Accepted
    /\ Remember(SharedResources)
    /\ accepted' = accepted \cup {[resource |-> r, hash |-> export[r].hash] : r \in SharedResources}
    /\ UNCHANGED <<export, exporting>>

PartialAccepted ==
    /\ pc = "partial" /\ Accept
    /\ pc' = "compile" /\ UNCHANGED result

\* The full compile that follows; it may fail as any compile.
FullCompile ==
    /\ pc = "compile"
    /\ \/ End("CompileError") /\ UNCHANGED export
       \/ /\ export' \in Exports
          /\ IF ResourceSets' = exporting THEN pc' = "full" /\ UNCHANGED result
             ELSE End("AssertionError")
    /\ UNCHANGED <<exporting, sharedSet, accepted>>

FullAccepted ==
    /\ pc = "full" /\ Accept
    /\ End("passed")

Next ==
    \/ ChangeServices \/ PartialCompile \/ FullCompile
    \/ \E root \in Sets, additional \in (SUBSET Sets) \cup {Nothing},
          patterns \in [Resources -> SUBSET {"owned", "shared"}] :
         Validate(root, additional, patterns)
    \/ SharedChanged \/ SharedIsOwned \/ PartialAccepted \/ FullAccepted

Spec == Init /\ [][Next]_vars

-----------------------------------------------------------------------------
\* The types of the variables.
TypeOK ==
    /\ export \in Exports
    /\ exporting \in SUBSET Sets
    /\ Known \subseteq Resources /\ sharedSet \in [Known -> Hashes]
    /\ pc \in {"idle", "partial", "compile", "full"}
    /\ result \in {"none", "passed", "AssertionError", "ValueError", "CompileError",
                   "UnboundLocalError"}
    /\ pc # "idle" => result = "none"
    /\ accepted \subseteq [resource : Resources, hash : Hashes]

\* A shared resource that was accepted once is the same in every later export that
\* is accepted, however many exports it is absent from in between.
SharedNeverChanges ==
    \A one, other \in accepted : one.resource = other.resource => one = other

\* After a validation that passed, no resource is owned that was ever accepted as
\* a shared one.
SharedNeverOwned ==
    result = "passed" => \A r \in Owned : \A one \in accepted : one.resource # r
=============================================================================
