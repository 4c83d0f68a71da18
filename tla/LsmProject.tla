----------------------------- MODULE LsmProject ------------------------------
(***************************************************************************)
(* The mocked service inventory of a test, src/.../lsm_project.py: a test  *)
(* creates and updates services, and LsmProject drives each one through    *)
(* the AUTO transfers of its lifecycle, with a validating compile for the  *)
(* transfers that ask for one and an exporting compile for each change of  *)
(* desired state.  A compile runs the model under test: it can fail with   *)
(* any exception, and it allocates attributes through the mocked api.      *)
(***************************************************************************)
EXTENDS Naturals, FiniteSets

CONSTANTS
    Ids,            \* service ids
    Values,         \* what a test may give as attributes
    Nothing,        \* Python's None
    States,
    AutoTransfers,  \* the AUTO transfer of some states
    OnUpdateTargets,\* the target of the ON_UPDATE transfer of some states
    ExportingStates,\* the states with export_resources set
    InitialStates,  \* what create_service may be given as initial_state
    TestMoves,      \* the <<from, to>> state changes a test makes by hand
    Failures,       \* the exceptions a compile may end with
    MaxCalls        \* bound on the calls the test makes

Operations == {"none", "promote", "rollback",
               "clear candidate", "clear active", "clear rollback"}
Exceptions == {"KeyError", "Exception"}

\* add_defaults(attributes), before and after the allocation of the rest.
Attributes  == [given : Values, allocated : BOOLEAN]
MaybeAttributes == Attributes \cup {Nothing}

Transfers == [target : States, error : States, validate : BOOLEAN,
              targetOp : Operations, errorOp : Operations,
              targetSame : BOOLEAN, errorSame : BOOLEAN]

ASSUME LifecycleAssumption ==
    /\ DOMAIN AutoTransfers \subseteq States
    /\ AutoTransfers \in [DOMAIN AutoTransfers -> Transfers]
    /\ DOMAIN OnUpdateTargets \subseteq States
    /\ OnUpdateTargets \in [DOMAIN OnUpdateTargets -> States]
    /\ ExportingStates \subseteq States
    /\ InitialStates \subseteq States
    /\ TestMoves \subseteq States \X States
ASSUME FailuresAssumption == Failures \subseteq Exceptions
ASSUME NothingAssumption == Nothing \notin Attributes \cup Transfers
ASSUME MaxCallsAssumption == MaxCalls \in Nat

\* What the theorems ask of a lifecycle.  Honest: a transfer that does without an
\* exporting compile changes nothing that is emitted.
ChangesNothingEmitted(from, op, to) ==
    /\ from \in ExportingStates <=> to \in ExportingStates
    /\ from \in ExportingStates => op \in {"none", "clear candidate", "clear rollback"}
HonestLifecycle ==
    /\ \A state \in DOMAIN AutoTransfers :
         LET t == AutoTransfers[state]
         IN  /\ t.targetSame \/ t.target = state
                 => ChangesNothingEmitted(state, t.targetOp, t.target)
             /\ t.validate /\ (t.errorSame \/ t.error = state)
                 => ChangesNothingEmitted(state, t.errorOp, t.error)
    /\ \A state \in DOMAIN OnUpdateTargets :
         ChangesNothingEmitted(state, "none", OnUpdateTargets[state])

\* Guarded: a promotion comes with or after a validation, the states it is made
\* from are only reached by passing one.
PromotingStates ==
    {state \in DOMAIN AutoTransfers :
        ~AutoTransfers[state].validate /\ AutoTransfers[state].targetOp = "promote"}
GuardedLifecycle ==
    /\ \A state \in DOMAIN AutoTransfers :
         LET t == AutoTransfers[state]
         IN  IF t.validate THEN t.error \notin PromotingStates /\ t.errorOp # "promote"
             ELSE t.target \notin PromotingStates
    /\ InitialStates \cap PromotingStates = {}
    /\ \A state \in DOMAIN OnUpdateTargets : OnUpdateTargets[state] \notin PromotingStates
    /\ \A move \in TestMoves : move[2] \notin PromotingStates

VARIABLES
    services,   \* the inventory: a function from ids to service instances
    partial,    \* self.partial_compile
    pc,         \* where the call in progress is, "idle" between calls
    call,       \* its service, whether it loops over transfers, the transfer
                \* being followed, the branch taken and the exception in flight
    result,     \* how the last call ended
    calls,      \* number of calls made by the test
    \* The rest is history, which no action reads:
    exported,   \* what the last exporting compile saw of each service
    missed,     \* services changed by hand, or whose export failed, since their last one
    failed,     \* a compile has failed during the last call
    approved    \* attribute sets that passed a validating compile

history == <<exported, missed, failed, approved>>
vars == <<services, partial, pc, call, result, calls, history>>

Instances == [state : States, version : Nat, desired : Nat, deleted : BOOLEAN,
              candidate : MaybeAttributes, active : MaybeAttributes,
              rollback : MaybeAttributes]
Calls == [id : Ids \cup {Nothing}, loop : BOOLEAN, transfer : Transfers \cup {Nothing},
          branch : {"none", "plain", "target", "error"},
          exception : Exceptions \cup {"none"}]

NoCall == [id |-> Nothing, loop |-> FALSE, transfer |-> Nothing,
           branch |-> "none", exception |-> "none"]

\* What an exporting compile emits for a service: the active attributes of the
\* services in an exporting state, nothing for the others.
Emitted(srv) ==
    IF ~srv.deleted /\ srv.state \in ExportingStates THEN srv.active ELSE Nothing
Export(srv) == [desired |-> srv.desired, emitted |-> Emitted(srv)]
Exports == [desired : Nat, emitted : MaybeAttributes]

Current == services[call.id]

Init ==
    /\ services = [id \in {} |-> Nothing]
    /\ partial \in BOOLEAN
    /\ pc = "idle"
    /\ call = NoCall
    /\ result = "none"
    /\ calls = 0
    /\ exported = [id \in Ids |-> [desired |-> 1, emitted |-> Nothing]]
    /\ missed = {}
    /\ failed = FALSE
    /\ approved = [id \in Ids |-> {}]

-----------------------------------------------------------------------------
\* perform_attribute_operation
Perform(op, srv) ==
    CASE op = "promote" ->
            [srv EXCEPT !.rollback = srv.active, !.active = srv.candidate,
                        !.candidate = Nothing]
      [] op = "rollback" ->
            [srv EXCEPT !.candidate = srv.active, !.active = srv.rollback,
                        !.rollback = Nothing]
      [] op = "clear candidate" -> [srv EXCEPT !.candidate = Nothing]
      [] op = "clear active"    -> [srv EXCEPT !.active = Nothing]
      [] op = "clear rollback"  -> [srv EXCEPT !.rollback = Nothing]
      [] op = "none"            -> srv

\* next_state up to its exporting compile, and whether it asks for one.
NextState(srv, state, same) ==
    IF srv.state = state THEN srv
    ELSE [srv EXCEPT !.version = srv.version + 1, !.state = state,
                     !.desired = IF same THEN srv.desired ELSE srv.desired + 1]
\* Mutant: same_desired_state read the wrong way around.
NeedsCompileInverted(srv, state, same) == srv.state # state /\ same
NeedsCompile(srv, state, same) == srv.state # state /\ ~same

\* The services an exporting compile looks at: with partial compile, next_state
\* asks for its own service only.
Scope == IF partial THEN {call.id} ELSE DOMAIN services

\* Mutant: the loops catch any exception.
RaiseCaught(exception) ==
    /\ pc' = "idle"
    /\ result' = IF call.loop THEN "returned" ELSE "raised"
    /\ call' = [call EXCEPT !.exception = exception, !.branch = "none"]

\* The call ends with an exception: the loops of create_service and
\* update_service take any KeyError for the end of the auto transfers.
Raise(exception) ==
    /\ pc' = "idle"
    /\ result' = IF call.loop /\ exception = "KeyError" THEN "returned" ELSE "raised"
    /\ call' = [call EXCEPT !.exception = exception, !.branch = "none"]

\* The transfer is done: the error branch of a validating transfer raises the
\* exception it has caught, the others go on with the next transfer, if any.
Done(branch) ==
    IF branch = "error" THEN Raise(call.exception)
    ELSE /\ pc' = IF call.loop THEN "auto" ELSE "idle"
         /\ result' = IF call.loop THEN result ELSE "returned"
         /\ call' = [call EXCEPT !.branch = "none"]

\* perform_attribute_operation, then next_state, on one branch of a transfer.
\* The exception is the one its handler has caught.
Follow(op, state, same, branch, exception) ==
    LET srv == Perform(op, Current)
    IN  /\ services' = [services EXCEPT ![call.id] = NextState(srv, state, same)]
        /\ IF NeedsCompile(srv, state, same)
           THEN /\ pc' = "exporting"
                /\ call' = [call EXCEPT !.branch = branch, !.exception = exception]
                /\ UNCHANGED result
           ELSE IF branch = "error"
           THEN Raise(exception)
           ELSE Done(branch)

\* Mutant: the handler follows the transfer to its target.
HandleErrorToTarget(exception) ==
    Follow(call.transfer.targetOp, call.transfer.target, call.transfer.targetSame,
           "error", exception)

HandleError(exception) ==
    Follow(call.transfer.errorOp, call.transfer.error, call.transfer.errorSame,
           "error", exception)

-----------------------------------------------------------------------------
\* What the test does between two calls.
NewCall ==
    /\ pc = "idle"
    /\ calls < MaxCalls
    /\ calls' = calls + 1

\* A new call, in which no compile has failed yet.
Begins == NewCall /\ failed' = FALSE

StartLoop(id) ==
    /\ pc' = "auto"
    /\ result' = "none"
    /\ call' = [NoCall EXCEPT !.id = id, !.loop = TRUE]

EndCall(id) ==
    /\ pc' = "idle"
    /\ result' = "returned"
    /\ call' = [NoCall EXCEPT !.id = id]

CreateService(id, given, state, auto) ==
    /\ Begins
    /\ id \notin DOMAIN services
    /\ services' = [i \in DOMAIN services \cup {id} |->
           IF i # id THEN services[i]
           ELSE [state |-> state, version |-> 1, desired |-> 1, deleted |-> FALSE,
                 candidate |-> [given |-> given, allocated |-> FALSE],
                 active |-> Nothing, rollback |-> Nothing]]
    /\ IF auto THEN StartLoop(id) ELSE EndCall(id)
    /\ UNCHANGED <<partial, exported, missed, approved>>

\* A service that can not be updated raises RuntimeError and changes nothing.
UpdateService(id, given, auto) ==
    /\ Begins
    /\ id \in DOMAIN services
    /\ services[id].state \in DOMAIN OnUpdateTargets
    /\ services' = [services EXCEPT
           ![id].state = OnUpdateTargets[services[id].state],
           ![id].candidate = [given |-> given, allocated |-> FALSE]]
    /\ IF auto THEN StartLoop(id) ELSE EndCall(id)
    /\ UNCHANGED <<partial, exported, missed, approved>>

\* Attributes that add_defaults does not accept: the service is already in its new
\* state.
UpdateServiceFails(id) ==
    /\ Begins
    /\ id \in DOMAIN services
    /\ services[id].state \in DOMAIN OnUpdateTargets
    /\ services' = [services EXCEPT ![id].state = OnUpdateTargets[services[id].state]]
    /\ pc' = "idle"
    /\ result' = "raised"
    /\ call' = [NoCall EXCEPT !.id = id]
    /\ UNCHANGED <<partial, exported, missed, approved>>

\* A test may also follow the transfers one by one.
CallAutoTransfer(id) ==
    /\ Begins
    /\ id \in DOMAIN services
    /\ pc' = "auto"
    /\ result' = "none"
    /\ call' = [NoCall EXCEPT !.id = id]
    /\ UNCHANGED <<services, partial, exported, missed, approved>>

\* exporting_compile called by the test, for one service or for all of them:
\* selecting services without partial compile is a ValueError,
\* an unknown service a LookupError.  A failure is the test's.
CallExportingCompile(ids) ==
    /\ NewCall
    /\ ids # {} /\ ids \subseteq DOMAIN services
    /\ ids = DOMAIN services \/ partial
    /\ call' = NoCall
    /\ \/ /\ exported' = [id \in Ids |-> IF id \in ids THEN Export(services[id])
                                       ELSE exported[id]]
          /\ missed' = missed \ ids
          /\ result' = "returned" /\ failed' = FALSE
       \/ /\ Failures # {}
          /\ result' = "raised" /\ failed' = TRUE
          /\ UNCHANGED <<exported, missed>>
    /\ UNCHANGED <<services, partial, pc, approved>>

\* The resources get deployed, or the service deleted: the test changes the
\* state of the service by hand.
MoveByHand(id) ==
    /\ Begins
    /\ id \in DOMAIN services
    /\ \E move \in TestMoves :
         /\ services[id].state = move[1]
         /\ services' = [services EXCEPT ![id].state = move[2],
                ![id].version = @ + 1, ![id].deleted = (move[2] = "terminated")]
    /\ missed' = missed \cup {id}
    /\ result' = "none"
    /\ UNCHANGED <<partial, pc, call, exported, approved>>

SetPartialCompile ==
    /\ NewCall
    /\ partial' = ~partial
    /\ UNCHANGED <<services, pc, call, result, history>>

-----------------------------------------------------------------------------
\* Mutant: the loop goes on when there is no transfer.
NoTransferLeftLoops ==
    /\ pc = "auto"
    /\ Current.state \notin DOMAIN AutoTransfers
    /\ UNCHANGED vars

\* One turn of the loop: auto_transfer for the current state of the service.
NoTransferLeft ==
    /\ pc = "auto"
    /\ Current.state \notin DOMAIN AutoTransfers
    /\ Raise("KeyError")
    /\ UNCHANGED <<services, partial, calls, history>>

FollowTransfer ==
    /\ pc = "auto"
    /\ Current.state \in DOMAIN AutoTransfers
    /\ LET transfer == AutoTransfers[Current.state]
       IN  /\ ~transfer.validate
           /\ Follow(transfer.targetOp, transfer.target, transfer.targetSame, "plain", "none")
    /\ UNCHANGED <<partial, calls, history>>

StartValidation ==
    /\ pc = "auto"
    /\ Current.state \in DOMAIN AutoTransfers
    /\ AutoTransfers[Current.state].validate
    /\ pc' = "validating"
    /\ call' = [call EXCEPT !.transfer = AutoTransfers[Current.state]]
    /\ UNCHANGED <<services, partial, result, calls, history>>

\* The model allocates attributes through the mocked api, which starts from a copy of
\* the active attributes when there is no candidate set.
Allocate(edited) ==
    /\ pc = "validating"
    /\ LET base == IF Current.candidate # Nothing THEN Current.candidate ELSE Current.active
       IN  /\ base # Nothing
           /\ services' = [services EXCEPT ![call.id].candidate =
                             IF edited THEN [base EXCEPT !.allocated = TRUE] ELSE base]
    /\ UNCHANGED <<partial, pc, call, result, calls, history>>

UpdateAttributes == Allocate(TRUE)

\* The edits are applied one by one: one that fails leaves the copy that was made, and
\* those before it.  The model sees the error, and may handle it.
UpdateAttributesV2 == \E edited \in BOOLEAN : Allocate(edited)

ValidatingCompileSucceeds ==
    /\ pc = "validating"
    /\ approved' = [approved EXCEPT ![call.id] = @ \cup {Current.candidate}]
    /\ Follow(call.transfer.targetOp, call.transfer.target, call.transfer.targetSame,
              "target", "none")
    /\ UNCHANGED <<partial, calls, exported, missed, failed>>

ValidatingCompileFails ==
    /\ pc = "validating"
    /\ \E exception \in Failures : HandleError(exception)
    /\ failed' = TRUE
    /\ UNCHANGED <<partial, calls, exported, missed, approved>>

ExportingCompileSucceeds ==
    /\ pc = "exporting"
    /\ exported' = [id \in Ids |-> IF id \in Scope THEN Export(services[id]) ELSE exported[id]]
    /\ missed' = missed \ Scope
    /\ Done(call.branch)
    /\ UNCHANGED <<services, partial, calls, failed, approved>>

\* In the try block of a validating transfer, a failed export goes to the error
\* branch as a failed validation does; elsewhere it ends the call.
ExportingCompileFails ==
    /\ pc = "exporting"
    /\ \E exception \in Failures :
         IF call.branch = "target" THEN HandleError(exception)
         ELSE Raise(exception) /\ UNCHANGED services
    /\ missed' = missed \cup {call.id}
    /\ failed' = TRUE
    /\ UNCHANGED <<partial, calls, exported, approved>>

TestStep ==
    \/ \E id \in Ids, given \in Values, auto \in BOOLEAN :
         \/ \E state \in InitialStates : CreateService(id, given, state, auto)
         \/ UpdateService(id, given, auto)
    \/ \E id \in Ids : UpdateServiceFails(id) \/ CallAutoTransfer(id) \/ MoveByHand(id)
    \/ \E ids \in SUBSET Ids : CallExportingCompile(ids)
    \/ SetPartialCompile

CallStep ==
    \/ NoTransferLeft \/ FollowTransfer \/ StartValidation
    \/ ValidatingCompileSucceeds \/ ValidatingCompileFails
    \/ ExportingCompileSucceeds \/ ExportingCompileFails

Next == TestStep \/ UpdateAttributes \/ UpdateAttributesV2 \/ CallStep

\* A call runs in the thread of the test, and a compile always ends; the test
\* itself need not make another call, nor the model allocate anything.
Spec == Init /\ [][Next]_vars /\ WF_vars(CallStep)

-----------------------------------------------------------------------------
\* The types of the variables.
TypeOK ==
    /\ DOMAIN services \subseteq Ids
    /\ services \in [DOMAIN services -> Instances]
    /\ partial \in BOOLEAN
    /\ pc \in {"idle", "auto", "validating", "exporting"}
    /\ call \in Calls
    /\ pc # "idle" => call.id \in DOMAIN services
    /\ pc = "validating" => call.transfer # Nothing
    /\ pc = "exporting" /\ call.branch = "target" => call.transfer # Nothing
    /\ result \in {"none", "returned", "raised"}
    /\ calls \in 0 .. MaxCalls
    /\ exported \in [Ids -> Exports]
    /\ missed \subseteq DOMAIN services
    /\ failed \in BOOLEAN
    /\ approved \in [Ids -> SUBSET MaybeAttributes]

\* Only what a validating compile has accepted, allocated attributes included,
\* ever becomes active: a failed or skipped validation promotes nothing.
ActiveWasValidated ==
    \A id \in DOMAIN services : services[id].active \in approved[id] \cup {Nothing}

\* Between two calls, the last export shows every service as it is now, unless
\* the service's last exporting compile failed or the test moved it by hand.
ExportFollowsInventory ==
    pc = "idle" =>
        \A id \in DOMAIN services \ missed : exported[id] = Export(services[id])

\* A call during which a compile failed, validating or exporting, does not return:
\* it raises, whatever the error branch has done and exported meanwhile.
NoSilentFailure == pc = "idle" /\ failed => result = "raised"

\* A call of create_service or update_service that returns has followed all the
\* auto transfers there were.
SettledOnReturn ==
    result = "returned" /\ call.loop => services[call.id].state \notin DOMAIN AutoTransfers

\* Every call ends, when the lifecycle has no cycle of auto transfers.
CallEnds == pc # "idle" ~> pc = "idle"
=============================================================================
