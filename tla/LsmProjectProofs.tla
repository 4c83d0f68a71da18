-------------------------- MODULE LsmProjectProofs ---------------------------
(***************************************************************************)
(* Theorems about LsmProject, for any inventory and any lifecycle: the     *)
(* types, what is exported, when a call raises and what gets active.       *)
(***************************************************************************)
EXTENDS LsmProject, TLAPS

\* Attribute operations and state changes make service instances of service
\* instances.
LEMMA PerformType ==
    ASSUME NEW op \in Operations, NEW srv \in Instances
    PROVE  Perform(op, srv) \in Instances
  BY DEF Perform, Operations, Instances, MaybeAttributes

LEMMA NextStateType ==
    ASSUME NEW srv \in Instances, NEW state \in States, NEW same \in BOOLEAN
    PROVE  NextState(srv, state, same) \in Instances
<1>1. CASE srv.state = state
  BY <1>1 DEF NextState
<1>2. CASE srv.state # state
  <2> DEFINE desired == IF same THEN srv.desired ELSE srv.desired + 1
  <2>1. srv.version + 1 \in Nat /\ desired \in Nat
    BY DEF Instances
  <2>2. NextState(srv, state, same) =
          [srv EXCEPT !.version = srv.version + 1, !.state = state, !.desired = desired]
    BY <1>2 DEF NextState
  <2>3. QED
    BY <2>1, <2>2 DEF Instances
<1>3. QED
  BY <1>1, <1>2

\* What following one branch of a transfer does to the types.
LEMMA FollowType ==
    ASSUME TypeOK, call.id \in DOMAIN services,
           NEW op \in Operations, NEW state \in States, NEW same \in BOOLEAN,
           NEW branch \in {"plain", "target", "error"},
           NEW exception \in Exceptions \cup {"none"},
           branch = "target" => call.transfer # Nothing,
           Follow(op, state, same, branch, exception)
    PROVE  /\ services' \in [DOMAIN services -> Instances]
           /\ DOMAIN services' = DOMAIN services
           /\ pc' \in {"idle", "auto", "exporting"}
           /\ call' \in Calls /\ call'.id = call.id /\ call'.transfer = call.transfer
           /\ pc' = "exporting" => call'.branch = branch
           /\ result' \in {"none", "returned", "raised"}
<1> DEFINE srv == Perform(op, Current)
<1>1. Current \in Instances
  BY DEF Current, TypeOK
<1>2. NextState(srv, state, same) \in Instances
  BY <1>1, PerformType, NextStateType
<1>3. services' = [services EXCEPT ![call.id] = NextState(srv, state, same)]
  BY DEF Follow
<1>4. services' \in [DOMAIN services -> Instances] /\ DOMAIN services' = DOMAIN services
  BY <1>2, <1>3 DEF TypeOK
<1>5. CASE NeedsCompile(srv, state, same)
  <2>1. pc' = "exporting" /\ UNCHANGED result
    BY <1>5 DEF Follow
  <2>2. call' = [call EXCEPT !.branch = branch, !.exception = exception]
    BY <1>5 DEF Follow
  <2>3. QED
    BY <1>4, <2>1, <2>2 DEF TypeOK, Calls, Follow
<1>6. ASSUME NEW e \in Exceptions \cup {"none"}, Raise(e)
      PROVE  /\ pc' = "idle" /\ result' \in {"returned", "raised"}
             /\ call' \in Calls /\ call'.id = call.id /\ call'.transfer = call.transfer
  BY <1>6 DEF Raise, TypeOK, Calls
<1>7. CASE ~NeedsCompile(srv, state, same) /\ branch = "error"
  <2>1. Raise(exception)
    BY <1>7 DEF Follow
  <2>2. QED
    BY <1>4, <1>6, <2>1
<1>8. CASE ~NeedsCompile(srv, state, same) /\ branch # "error"
  <2>1. Done(branch)
    BY <1>8 DEF Follow
  <2>2. QED
    BY <1>4, <1>8, <2>1 DEF Done, TypeOK, Calls
<1>9. QED
  BY <1>5, <1>7, <1>8

LEMMA TypeInit == Init => TypeOK
<1> SUFFICES ASSUME Init PROVE TypeOK
  OBVIOUS
<1> USE DEF Init
<1>1. DOMAIN services = {} /\ services \in [DOMAIN services -> Instances]
  OBVIOUS
<1>2. call \in Calls
  BY DEF Calls, NoCall
<1>3. exported \in [Ids -> Exports]
  BY DEF Exports, MaybeAttributes
<1>4. calls \in 0 .. MaxCalls
  BY MaxCallsAssumption
<1>5. QED
  BY <1>1, <1>2, <1>3, <1>4 DEF TypeOK

LEMMA ExportType ==
    ASSUME NEW srv \in Instances
    PROVE  Export(srv) \in Exports
  BY DEF Export, Emitted, Exports, Instances, MaybeAttributes

\* The transfers of the lifecycle are transfers.
LEMMA AutoType ==
    ASSUME NEW state \in DOMAIN AutoTransfers
    PROVE  /\ AutoTransfers[state] \in Transfers
           /\ AutoTransfers[state].target \in States /\ AutoTransfers[state].error \in States
           /\ AutoTransfers[state].targetOp \in Operations
           /\ AutoTransfers[state].errorOp \in Operations
           /\ AutoTransfers[state].targetSame \in BOOLEAN
           /\ AutoTransfers[state].errorSame \in BOOLEAN
           /\ AutoTransfers[state].validate \in BOOLEAN
  BY LifecycleAssumption DEF Transfers

LEMMA TypeNext == TypeOK /\ [Next]_vars => TypeOK'
<1> SUFFICES ASSUME TypeOK, [Next]_vars PROVE TypeOK'
  OBVIOUS
<1> USE DEF TypeOK
<1>1. ASSUME NewCall PROVE calls' \in 0 .. MaxCalls
  BY <1>1, MaxCallsAssumption DEF NewCall
<1>2. ASSUME NEW id \in Ids, NEW given \in Values, NEW state \in InitialStates,
             NEW auto \in BOOLEAN, CreateService(id, given, state, auto)
      PROVE  TypeOK'
  <2> DEFINE new == [state |-> state, version |-> 1, desired |-> 1, deleted |-> FALSE,
                     candidate |-> [given |-> given, allocated |-> FALSE],
                     active |-> Nothing, rollback |-> Nothing]
  <2>1. new \in Instances
    BY LifecycleAssumption DEF Instances, MaybeAttributes, Attributes
  <2>2. /\ services' = [i \in DOMAIN services \cup {id} |->
                            IF i # id THEN services[i] ELSE new]
        /\ UNCHANGED <<partial, exported, missed, approved>> /\ NewCall
        /\ failed' = FALSE
    BY <1>2 DEF CreateService, Begins
  <2>3. /\ services' \in [DOMAIN services' -> Instances]
        /\ DOMAIN services' = DOMAIN services \cup {id}
    BY <2>1, <2>2
  <2>4. /\ pc' \in {"idle", "auto"} /\ call' \in Calls /\ call'.id = id
        /\ call'.branch = "none" /\ result' \in {"none", "returned"}
    BY <1>2 DEF CreateService, StartLoop, EndCall, Calls, NoCall
  <2>5. QED
    BY <1>1, <2>2, <2>3, <2>4 DEF history
<1>3. ASSUME NEW id \in Ids, NEW given \in Values, NEW auto \in BOOLEAN,
             UpdateService(id, given, auto)
      PROVE  TypeOK'
  <2> DEFINE attributes == [given |-> given, allocated |-> FALSE]
             state == OnUpdateTargets[services[id].state]
  <2>1. id \in DOMAIN services /\ state \in States /\ attributes \in MaybeAttributes
    BY <1>3, LifecycleAssumption DEF UpdateService, MaybeAttributes, Attributes
  <2>2. services' = [services EXCEPT ![id] = [@ EXCEPT !.state = state, !.candidate = attributes]]
    BY <1>3 DEF UpdateService
  <2>3. services' \in [DOMAIN services -> Instances] /\ DOMAIN services' = DOMAIN services
    BY <2>1, <2>2 DEF Instances
  <2>4. /\ pc' \in {"idle", "auto"} /\ call' \in Calls /\ call'.id = id
        /\ call'.branch = "none" /\ result' \in {"none", "returned"}
    BY <1>3 DEF UpdateService, StartLoop, EndCall, Calls, NoCall
  <2>5. QED
    BY <1>1, <1>3, <2>1, <2>3, <2>4 DEF UpdateService, history, Begins
<1>4. ASSUME NEW id \in Ids, CallAutoTransfer(id) PROVE TypeOK'
  BY <1>1, <1>4 DEF CallAutoTransfer, history, Calls, NoCall, Begins
<1>5. ASSUME NEW id \in Ids, MoveByHand(id) PROVE TypeOK'
  <2>1. PICK move \in TestMoves : services' = [services EXCEPT ![id].state = move[2],
                ![id].version = @ + 1, ![id].deleted = (move[2] = "terminated")]
    BY <1>5 DEF MoveByHand
  <2> DEFINE deleted == (move[2] = "terminated")
  <2>2. id \in DOMAIN services /\ move[2] \in States /\ deleted \in BOOLEAN
    BY <1>5, LifecycleAssumption DEF MoveByHand
  <2>3. services[id].version + 1 \in Nat
    BY <2>2 DEF Instances
  <2>4. services' \in [DOMAIN services -> Instances] /\ DOMAIN services' = DOMAIN services
    BY <2>1, <2>2, <2>3 DEF Instances
  <2>5. QED
    BY <1>1, <1>5, <2>2, <2>4 DEF MoveByHand, Begins
<1>6. ASSUME NEW ids \in SUBSET Ids, CallExportingCompile(ids) PROVE TypeOK'
  <2>1. /\ calls' \in 0 .. MaxCalls /\ pc' = "idle" /\ call' = NoCall
        /\ result' \in {"returned", "raised"} /\ failed' \in BOOLEAN
        /\ UNCHANGED <<services, partial, approved>>
    BY <1>1, <1>6 DEF CallExportingCompile, NewCall
  <2>2. NoCall \in Calls
    BY DEF NoCall, Calls
  <2>3. exported' \in [Ids -> Exports]
    BY <1>6, ExportType DEF CallExportingCompile
  <2>4. missed' \subseteq DOMAIN services
    BY <1>6 DEF CallExportingCompile
  <2>5. QED
    BY <2>1, <2>2, <2>3, <2>4
<1>7. CASE SetPartialCompile
  BY <1>1, <1>7 DEF SetPartialCompile, history
<1>8. ASSUME NEW edited \in BOOLEAN, Allocate(edited) PROVE TypeOK'
  <2> DEFINE base == IF Current.candidate # Nothing THEN Current.candidate ELSE Current.active
             attributes == IF edited THEN [base EXCEPT !.allocated = TRUE] ELSE base
  <2>1. call.id \in DOMAIN services /\ Current \in Instances /\ base # Nothing
    BY <1>8 DEF Allocate, Current
  <2>2. attributes \in MaybeAttributes
    BY <2>1 DEF Instances, MaybeAttributes, Attributes
  <2>3. services' = [services EXCEPT ![call.id] = [@ EXCEPT !.candidate = attributes]]
    BY <1>8 DEF Allocate
  <2>4. services' \in [DOMAIN services -> Instances] /\ DOMAIN services' = DOMAIN services
    BY <2>1, <2>2, <2>3 DEF Instances
  <2>5. QED
    BY <1>8, <2>4 DEF Allocate, history
<1>9. CASE NoTransferLeft
  BY <1>9 DEF NoTransferLeft, Raise, Exceptions, Calls, history
<1>10. CASE FollowTransfer
  <2>1. Current.state \in DOMAIN AutoTransfers
    BY <1>10 DEF FollowTransfer
  <2> DEFINE t == AutoTransfers[Current.state]
  <2>2. Follow(t.targetOp, t.target, t.targetSame, "plain", "none")
    BY <1>10 DEF FollowTransfer
  <2>3. /\ t.targetOp \in Operations /\ t.target \in States /\ t.targetSame \in BOOLEAN
        /\ call.id \in DOMAIN services
    BY <1>10, <2>1, AutoType DEF FollowTransfer
  <2>4. /\ services' \in [DOMAIN services -> Instances] /\ DOMAIN services' = DOMAIN services
        /\ pc' \in {"idle", "auto", "exporting"}
        /\ call' \in Calls /\ call'.id = call.id /\ (pc' = "exporting" => call'.branch = "plain")
        /\ result' \in {"none", "returned", "raised"}
    <3> HIDE DEF t
    <3>1. QED
      BY <2>2, <2>3, FollowType
  <2>5. QED
    BY <1>10, <2>3, <2>4 DEF FollowTransfer, history
<1>11. CASE StartValidation
  <2>1. Current.state \in DOMAIN AutoTransfers
    BY <1>11 DEF StartValidation
  <2> DEFINE t == AutoTransfers[Current.state]
  <2>2. t \in Transfers /\ t # Nothing
    BY <2>1, AutoType, NothingAssumption
  <2>3. call' = [call EXCEPT !.transfer = t] /\ pc' = "validating"
    BY <1>11 DEF StartValidation
  <2>4. call' \in Calls /\ call'.id = call.id /\ call'.transfer = t
    <3> HIDE DEF t
    <3>1. QED
      BY <2>2, <2>3 DEF Calls
  <2>5. QED
    BY <1>11, <2>2, <2>3, <2>4 DEF StartValidation, history
<1>12. CASE ValidatingCompileSucceeds
  <2>1. call.transfer \in Transfers /\ call.id \in DOMAIN services
    BY <1>12 DEF ValidatingCompileSucceeds, Calls
  <2> DEFINE t == call.transfer
  <2>2. Follow(t.targetOp, t.target, t.targetSame, "target", "none")
    BY <1>12 DEF ValidatingCompileSucceeds
  <2>3. /\ t.targetOp \in Operations /\ t.target \in States /\ t.targetSame \in BOOLEAN
        /\ Current.candidate \in MaybeAttributes /\ call.id \in Ids
    BY <2>1 DEF Transfers, Current, Instances
  <2>4. approved' \in [Ids -> SUBSET MaybeAttributes]
    BY <1>12, <2>3 DEF ValidatingCompileSucceeds
  <2>5. t # Nothing
    BY <1>12 DEF ValidatingCompileSucceeds
  <2>6. QED
    BY <1>12, <2>1, <2>2, <2>3, <2>4, <2>5, FollowType DEF ValidatingCompileSucceeds
<1>13. ASSUME NEW exception \in Failures, HandleError(exception),
              call.transfer # Nothing, call.id \in DOMAIN services,
              UNCHANGED <<partial, calls, exported, approved>>,
              missed' \subseteq DOMAIN services, failed' = TRUE
       PROVE  TypeOK'
  <2>1. call.transfer \in Transfers
    BY <1>13 DEF Calls
  <2> DEFINE t == call.transfer
  <2>2. Follow(t.errorOp, t.error, t.errorSame, "error", exception)
    BY <1>13 DEF HandleError
  <2>3. t.errorOp \in Operations /\ t.error \in States /\ t.errorSame \in BOOLEAN
    BY <2>1 DEF Transfers
  <2>4. QED
    BY <1>13, <2>2, <2>3, FollowType, FailuresAssumption
<1>14. CASE ValidatingCompileFails
  BY <1>13, <1>14 DEF ValidatingCompileFails
<1>15. CASE ExportingCompileSucceeds
  <2>1. /\ pc' \in {"idle", "auto"} /\ call' \in Calls /\ call'.id = call.id
        /\ result' \in {"none", "returned", "raised"}
    <3>1. CASE call.branch = "error"
      <4>1. Raise(call.exception)
        BY <1>15, <3>1 DEF ExportingCompileSucceeds, Done
      <4>2. QED
        BY <1>15, <4>1 DEF Raise, Calls, ExportingCompileSucceeds
    <3>2. CASE call.branch # "error"
      BY <1>15, <3>2 DEF ExportingCompileSucceeds, Done, Calls
    <3>3. QED
      BY <3>1, <3>2
  <2>2. exported' \in [Ids -> Exports]
    BY <1>15, ExportType DEF ExportingCompileSucceeds, Scope
  <2>3. QED
    BY <1>15, <2>1, <2>2 DEF ExportingCompileSucceeds
<1>16. CASE ExportingCompileFails
  <2>1. PICK exception \in Failures :
          IF call.branch = "target" THEN HandleError(exception)
          ELSE Raise(exception) /\ UNCHANGED services
    BY <1>16 DEF ExportingCompileFails
  <2>2. missed' \subseteq DOMAIN services
    BY <1>16 DEF ExportingCompileFails
  <2>3. CASE call.branch = "target"
    BY <1>13, <1>16, <2>1, <2>2, <2>3 DEF ExportingCompileFails
  <2>4. CASE call.branch # "target"
    BY <1>16, <2>1, <2>2, <2>4, FailuresAssumption DEF ExportingCompileFails, Raise, Calls
  <2>5. QED
    BY <2>3, <2>4
<1>17. CASE UNCHANGED vars
  BY <1>17 DEF vars, history
<1>18. ASSUME NEW id \in Ids, UpdateServiceFails(id) PROVE TypeOK'
  <2> DEFINE state == OnUpdateTargets[services[id].state]
  <2>1. id \in DOMAIN services /\ state \in States
    BY <1>18, LifecycleAssumption DEF UpdateServiceFails
  <2>2. services' = [services EXCEPT ![id] = [@ EXCEPT !.state = state]]
    BY <1>18 DEF UpdateServiceFails
  <2>3. services' \in [DOMAIN services -> Instances] /\ DOMAIN services' = DOMAIN services
    BY <2>1, <2>2 DEF Instances
  <2>4. QED
    BY <1>1, <1>18, <2>3 DEF UpdateServiceFails, Begins, Calls, NoCall
<1>19. QED
  BY <1>2, <1>3, <1>4, <1>5, <1>6, <1>7, <1>8, <1>9, <1>10, <1>11, <1>12, <1>14,
     <1>15, <1>16, <1>17, <1>18 DEF Next, TestStep, UpdateAttributes, UpdateAttributesV2, CallStep

\* Whatever the lifecycle and the test, the variables keep their types: a call in
\* progress always has its service, and a handler the transfer it is for.
THEOREM TypeCorrect == Spec => []TypeOK
  BY TypeInit, TypeNext, PTL DEF Spec

-----------------------------------------------------------------------------
\* The transfer at hand is the one of the state the service is validated in.
TransferInv ==
    /\ pc = "validating" =>
         /\ Current.state \in DOMAIN AutoTransfers
         /\ AutoTransfers[Current.state].validate
         /\ call.transfer = AutoTransfers[Current.state]
    /\ pc = "exporting" /\ call.branch = "target" =>
         \E state \in DOMAIN AutoTransfers :
            AutoTransfers[state].validate /\ call.transfer = AutoTransfers[state]

\* What follows one branch changes one service only, and leaves the call where
\* its next step needs no transfer, or where its handler has the same one.
LEMMA FollowFrame ==
    ASSUME TypeOK, call.id \in DOMAIN services,
           NEW op, NEW state, NEW same, NEW branch, NEW exception,
           Follow(op, state, same, branch, exception)
    PROVE  LET srv == Perform(op, Current)
           IN  /\ services' = [services EXCEPT ![call.id] = NextState(srv, state, same)]
               /\ call'.id = call.id /\ call'.transfer = call.transfer
               /\ call'.loop = call.loop
               /\ pc' = "exporting" <=> NeedsCompile(srv, state, same)
               /\ pc' = "exporting" => /\ call'.branch = branch
                                       /\ call'.exception = exception
                                       /\ result' = result
               /\ pc' # "exporting" /\ branch = "error" => Raise(exception)
               /\ pc' # "exporting" /\ branch # "error" =>
                    /\ pc' = IF call.loop THEN "auto" ELSE "idle"
                    /\ result' = IF call.loop THEN result ELSE "returned"
<1> DEFINE srv == Perform(op, Current)
<1> USE DEF Follow, TypeOK, Calls
<1>1. CASE NeedsCompile(srv, state, same)
  BY <1>1
<1>2. CASE ~NeedsCompile(srv, state, same) /\ branch = "error"
  BY <1>2 DEF Raise
<1>3. CASE ~NeedsCompile(srv, state, same) /\ branch # "error"
  BY <1>3 DEF Done
<1>4. QED
  BY <1>1, <1>2, <1>3

LEMMA TransferNext == TypeOK /\ TransferInv /\ [Next]_vars => TransferInv'
<1> SUFFICES ASSUME TypeOK, TransferInv, [Next]_vars PROVE TransferInv'
  OBVIOUS
<1>1. ASSUME pc' \notin {"validating", "exporting"} PROVE TransferInv'
  BY <1>1 DEF TransferInv
<1>2. CASE TestStep
  <2>1. pc' \in {"idle", "auto"}
    BY <1>2 DEF TestStep, NewCall, CreateService, UpdateService, CallAutoTransfer,
       CallExportingCompile, MoveByHand, SetPartialCompile, StartLoop, EndCall, Begins,
       UpdateServiceFails
  <2>2. QED
    BY <1>1, <2>1
<1>3. ASSUME NEW edited \in BOOLEAN, Allocate(edited) PROVE TransferInv'
  <2>1. Current'.state = Current.state /\ UNCHANGED <<pc, call>>
    <3>1. PICK attributes :
            services' = [services EXCEPT ![call.id] = [@ EXCEPT !.candidate = attributes]]
      BY <1>3 DEF Allocate
    <3>2. call.id \in DOMAIN services /\ UNCHANGED <<pc, call>>
      BY <1>3 DEF Allocate, TypeOK
    <3>3. QED
      BY <3>1, <3>2 DEF Current, TypeOK, Instances
  <2>2. QED
    BY <1>3, <2>1 DEF Allocate, TransferInv
<1>4. CASE NoTransferLeft
  BY <1>1, <1>4 DEF NoTransferLeft, Raise
<1>5. CASE FollowTransfer
  <2> DEFINE t == AutoTransfers[Current.state]
  <2>1. Follow(t.targetOp, t.target, t.targetSame, "plain", "none")
    BY <1>5 DEF FollowTransfer
  <2>2. call.id \in DOMAIN services
    BY <1>5 DEF FollowTransfer, TypeOK
  <2>3. pc' = "exporting" => call'.branch = "plain"
    <3> HIDE DEF t
    <3>1. QED
      BY <2>1, <2>2, FollowFrame
  <2>4. pc' # "validating"
    BY <2>1 DEF Follow, Raise, Done
  <2>5. QED
    BY <2>3, <2>4 DEF TransferInv
<1>6. CASE StartValidation
  <2>1. Current' = Current /\ call'.transfer = AutoTransfers[Current.state]
    BY <1>6 DEF StartValidation, Current, TypeOK, Calls
  <2>2. QED
    BY <1>6, <2>1 DEF StartValidation, TransferInv
<1>7. CASE ValidatingCompileSucceeds
  <2>1. pc' # "validating" /\ call'.transfer = call.transfer
    BY <1>7, FollowFrame DEF ValidatingCompileSucceeds, TypeOK, Follow, Raise, Done
  <2>2. QED
    BY <1>7, <2>1 DEF TransferInv, ValidatingCompileSucceeds
<1>8. ASSUME NEW exception, HandleError(exception), call.id \in DOMAIN services
      PROVE  TransferInv'
  <2>1. pc' # "validating"
    BY <1>8 DEF HandleError, Follow, Raise, Done
  <2>2. pc' = "exporting" => call'.branch = "error"
    BY <1>8, FollowFrame DEF HandleError
  <2>3. QED
    BY <2>1, <2>2 DEF TransferInv
<1>9. CASE ValidatingCompileFails
  BY <1>8, <1>9 DEF ValidatingCompileFails, TypeOK
<1>10. CASE ExportingCompileSucceeds
  BY <1>1, <1>10 DEF ExportingCompileSucceeds, Done, Raise
<1>11. CASE ExportingCompileFails
  BY <1>1, <1>8, <1>11 DEF ExportingCompileFails, Raise, TypeOK
<1>12. CASE UNCHANGED vars
  BY <1>12 DEF vars, TransferInv, Current
<1>13. QED
  BY <1>2, <1>3, <1>4, <1>5, <1>6, <1>7, <1>9, <1>10, <1>11, <1>12
  DEF Next, UpdateAttributes, UpdateAttributesV2, CallStep

-----------------------------------------------------------------------------
\* When a compile has failed, the call is on an error branch that is being exported,
\* with the exception that it will raise, or it has raised one.
FailedInv ==
    failed => \/ pc = "exporting" /\ call.branch = "error" /\ call.exception \in Failures
              \/ pc = "idle" /\ result = "raised"

\* The error branch of a transfer ends with its exception, at once or after an export.
LEMMA FailedHandle ==
    ASSUME "KeyError" \notin Failures, TypeOK, call.id \in DOMAIN services,
           NEW exception \in Failures, HandleError(exception)
    PROVE  FailedInv'
<1> DEFINE t == call.transfer
           srv == Perform(t.errorOp, Current)
<1>1. Follow(t.errorOp, t.error, t.errorSame, "error", exception)
  BY DEF HandleError
<1>2. CASE NeedsCompile(srv, t.error, t.errorSame)
  <2>1. pc' = "exporting" /\ call' = [call EXCEPT !.branch = "error", !.exception = exception]
    BY <1>1, <1>2 DEF Follow
  <2>2. QED
    BY <2>1 DEF FailedInv, TypeOK, Calls
<1>3. CASE ~NeedsCompile(srv, t.error, t.errorSame)
  <2>1. Raise(exception)
    BY <1>1, <1>3 DEF Follow
  <2>2. QED
    BY <2>1 DEF Raise, FailedInv
<1>4. QED
  BY <1>2, <1>3

LEMMA FailedNext ==
    ASSUME "KeyError" \notin Failures, TypeOK, FailedInv, [Next]_vars
    PROVE  FailedInv'
<1> USE DEF FailedInv
<1>1. CASE TestStep
  <2>1. CASE SetPartialCompile
    BY <2>1 DEF SetPartialCompile, NewCall, history
  <2>2. ASSUME NEW ids \in SUBSET Ids, CallExportingCompile(ids) PROVE FailedInv'
    BY <2>2 DEF CallExportingCompile, NewCall
  <2>3. CASE failed' = FALSE
    BY <2>3
  <2>4. QED
    BY <1>1, <2>1, <2>2, <2>3 DEF TestStep, CreateService, UpdateService, UpdateServiceFails,
       CallAutoTransfer, MoveByHand, Begins
<1>2. ASSUME NEW edited \in BOOLEAN, Allocate(edited) PROVE FailedInv'
  BY <1>2 DEF Allocate, history
<1>3. CASE NoTransferLeft \/ FollowTransfer \/ StartValidation \/ ValidatingCompileSucceeds
  <2>1. pc \in {"auto", "validating"} /\ UNCHANGED failed
    BY <1>3 DEF NoTransferLeft, FollowTransfer, StartValidation, ValidatingCompileSucceeds, history
  <2>2. QED
    BY <2>1
<1>4. CASE ValidatingCompileFails
  BY <1>4, FailedHandle DEF ValidatingCompileFails, TypeOK
<1>5. CASE ExportingCompileSucceeds
  <2>1. CASE failed
    <3>1. call.branch = "error" /\ call.exception # "KeyError"
      BY <1>5, <2>1 DEF ExportingCompileSucceeds
    <3>2. QED
      BY <1>5, <3>1 DEF ExportingCompileSucceeds, Done, Raise
  <2>2. QED
    BY <1>5, <2>1 DEF ExportingCompileSucceeds
<1>6. CASE ExportingCompileFails
  <2>1. PICK exception \in Failures :
          IF call.branch = "target" THEN HandleError(exception)
          ELSE Raise(exception) /\ UNCHANGED services
    BY <1>6 DEF ExportingCompileFails
  <2>2. CASE call.branch = "target"
    BY <1>6, <2>1, <2>2, FailedHandle DEF ExportingCompileFails, TypeOK
  <2>3. CASE call.branch # "target"
    BY <2>1, <2>3 DEF Raise
  <2>4. QED
    BY <2>2, <2>3
<1>7. CASE UNCHANGED vars
  BY <1>7 DEF vars, history
<1>8. QED
  BY <1>1, <1>2, <1>3, <1>4, <1>5, <1>6, <1>7
     DEF Next, UpdateAttributes, UpdateAttributesV2, CallStep

\* A call during which a compile has failed raises, whatever its error branch does,
\* if no compile ends with a KeyError: the loops over the transfers take that one for
\* their own end.
THEOREM FailureIsRaised ==
    ASSUME "KeyError" \notin Failures
    PROVE  Spec => []NoSilentFailure
<1>1. Init => FailedInv
  BY DEF Init, FailedInv
<1>2. TypeOK /\ FailedInv /\ [Next]_vars => FailedInv'
  BY FailedNext
<1>3. FailedInv => NoSilentFailure
  BY DEF FailedInv, NoSilentFailure
<1>4. QED
  BY <1>1, <1>2, <1>3, TypeCorrect, PTL DEF Spec

-----------------------------------------------------------------------------
\* A call has no result before it ends, and its loop ends on a KeyError of its
\* own only: none is in flight while a branch is exported.
SettledInv ==
    /\ pc # "idle" => result = "none"
    /\ pc = "exporting" => call.exception # "KeyError"
    /\ result = "returned" /\ call.loop => call.id \in DOMAIN services
    /\ SettledOnReturn

LEMMA SettledFollow ==
    ASSUME TypeOK, SettledInv, pc # "idle",
           NEW op, NEW state, NEW same, NEW branch, NEW exception,
           Follow(op, state, same, branch, exception), exception # "KeyError"
    PROVE  SettledInv'
<1>1. /\ call.id \in DOMAIN services /\ call'.id = call.id /\ call'.loop = call.loop
      /\ DOMAIN services' = DOMAIN services /\ result = "none"
  BY FollowFrame DEF TypeOK, SettledInv
<1>2. CASE pc' = "exporting"
  BY <1>1, <1>2, FollowFrame DEF SettledInv, SettledOnReturn
<1>3. CASE pc' # "exporting" /\ branch = "error"
  <2>1. Raise(exception)
    BY <1>1, <1>3, FollowFrame
  <2>2. pc' = "idle" /\ result' = "raised"
    BY <2>1 DEF Raise
  <2>3. QED
    BY <2>2 DEF SettledInv, SettledOnReturn
<1>4. CASE pc' # "exporting" /\ branch # "error"
  <2>1. pc' = (IF call.loop THEN "auto" ELSE "idle")
        /\ result' = (IF call.loop THEN result ELSE "returned")
    BY <1>1, <1>4, FollowFrame
  <2>2. QED
    BY <1>1, <2>1 DEF SettledInv, SettledOnReturn
<1>5. QED
  BY <1>2, <1>3, <1>4

LEMMA SettledNext ==
    ASSUME "KeyError" \notin Failures, TypeOK, SettledInv, [Next]_vars
    PROVE  SettledInv'
<1> USE DEF SettledInv, SettledOnReturn
<1>1. ASSUME NEW id \in Ids,
             \/ \E given \in Values, auto \in BOOLEAN :
                   \/ \E state \in InitialStates : CreateService(id, given, state, auto)
                   \/ UpdateService(id, given, auto)
             \/ CallAutoTransfer(id)
      PROVE  SettledInv'
  <2>1. call'.id = id /\ id \in DOMAIN services'
    BY <1>1 DEF CreateService, UpdateService, CallAutoTransfer, StartLoop, EndCall, NoCall
  <2>2. \/ pc' = "auto" /\ result' = "none"
        \/ pc' = "idle" /\ ~call'.loop
    BY <1>1 DEF CreateService, UpdateService, CallAutoTransfer, StartLoop, EndCall, NoCall
  <2>3. QED
    BY <2>1, <2>2
<1>2. ASSUME NEW ids \in SUBSET Ids, CallExportingCompile(ids) PROVE SettledInv'
  BY <1>2 DEF CallExportingCompile, NewCall, NoCall
<1>3. ASSUME NEW id \in Ids, MoveByHand(id) PROVE SettledInv'
  BY <1>3 DEF MoveByHand, NewCall, Begins
<1>4. CASE SetPartialCompile
  BY <1>4 DEF SetPartialCompile, NewCall
<1>5. ASSUME NEW edited \in BOOLEAN, Allocate(edited) PROVE SettledInv'
  BY <1>5 DEF Allocate
<1>6. CASE NoTransferLeft
  BY <1>6 DEF NoTransferLeft, Raise, Current, TypeOK, Calls
<1>7. CASE FollowTransfer
  <2> DEFINE t == AutoTransfers[Current.state]
  <2>1. Follow(t.targetOp, t.target, t.targetSame, "plain", "none") /\ pc # "idle"
    BY <1>7 DEF FollowTransfer
  <2>2. QED
    <3> HIDE DEF t, SettledInv
    <3>1. QED
      BY <2>1, SettledFollow
<1>8. CASE StartValidation
  BY <1>8 DEF StartValidation
<1>9. CASE ValidatingCompileSucceeds
  BY <1>9, SettledFollow DEF ValidatingCompileSucceeds
<1>10. ASSUME NEW exception \in Failures, HandleError(exception), pc # "idle"
       PROVE  SettledInv'
  BY <1>10, SettledFollow DEF HandleError
<1>11. CASE ValidatingCompileFails
  BY <1>10, <1>11 DEF ValidatingCompileFails
<1>12. CASE ExportingCompileSucceeds
  <2>1. Done(call.branch) /\ pc = "exporting" /\ call.id \in DOMAIN services
    BY <1>12 DEF ExportingCompileSucceeds, TypeOK
  <2>2. UNCHANGED services
    BY <1>12 DEF ExportingCompileSucceeds
  <2>3. CASE call.branch = "error"
    BY <2>1, <2>3 DEF Done, Raise
  <2>4. CASE call.branch # "error"
    BY <2>1, <2>2, <2>4 DEF Done, TypeOK, Calls
  <2>5. QED
    BY <2>3, <2>4
<1>13. CASE ExportingCompileFails
  <2>1. PICK exception \in Failures :
          IF call.branch = "target" THEN HandleError(exception)
          ELSE Raise(exception) /\ UNCHANGED services
    BY <1>13 DEF ExportingCompileFails
  <2>2. CASE call.branch = "target"
    BY <1>10, <1>13, <2>1, <2>2 DEF ExportingCompileFails
  <2>3. CASE call.branch # "target"
    BY <2>1, <2>3 DEF Raise
  <2>4. QED
    BY <2>2, <2>3
<1>14. CASE UNCHANGED vars
  BY <1>14 DEF vars
<1>15. ASSUME NEW id \in Ids, UpdateServiceFails(id) PROVE SettledInv'
  BY <1>15 DEF UpdateServiceFails
<1>16. QED
  BY <1>1, <1>2, <1>3, <1>4, <1>5, <1>6, <1>7, <1>8, <1>9, <1>11, <1>12, <1>13, <1>14,
     <1>15 DEF Next, TestStep, UpdateAttributes, UpdateAttributesV2, CallStep

\* If no compile ends with a KeyError, create_service and update_service return
\* only once the service has no auto transfer left.
THEOREM ReturnsWhenSettled ==
    ASSUME "KeyError" \notin Failures
    PROVE  Spec => []SettledOnReturn
<1>1. Init => SettledInv
  BY DEF Init, SettledInv, SettledOnReturn
<1>2. TypeOK /\ SettledInv /\ [Next]_vars => SettledInv'
  BY SettledNext
<1>3. SettledInv => SettledOnReturn
  BY DEF SettledInv
<1>4. QED
  BY <1>1, <1>2, <1>3, TypeCorrect, PTL DEF Spec

-----------------------------------------------------------------------------
LEMMA TransferInit == Init => TransferInv
  BY DEF Init, TransferInv

\* What an attribute operation and a state change leave alone.
LEMMA StepFields ==
    ASSUME NEW srv \in Instances, NEW op \in Operations,
           NEW state \in States, NEW same \in BOOLEAN
    PROVE  LET next == NextState(Perform(op, srv), state, same)
           IN  /\ next.state = state
               /\ next.deleted = srv.deleted
               /\ next.active = Perform(op, srv).active
               /\ next.rollback = Perform(op, srv).rollback
               /\ next.candidate = Perform(op, srv).candidate
               /\ ~NeedsCompile(Perform(op, srv), state, same) => next.desired = srv.desired
<1>1. Perform(op, srv) \in Instances /\ Perform(op, srv).deleted = srv.deleted
      /\ Perform(op, srv).desired = srv.desired
  BY PerformType DEF Perform, Operations, Instances
<1> DEFINE p == Perform(op, srv)
<1>2. ASSUME p \in Instances
      PROVE  /\ NextState(p, state, same).state = state
             /\ NextState(p, state, same).deleted = p.deleted
             /\ NextState(p, state, same).active = p.active
             /\ NextState(p, state, same).rollback = p.rollback
             /\ NextState(p, state, same).candidate = p.candidate
             /\ ~NeedsCompile(p, state, same) => NextState(p, state, same).desired = p.desired
  <2> HIDE DEF p
  <2>1. QED
    BY <1>2 DEF NextState, NeedsCompile, Instances
<1>3. QED
  BY <1>1, <1>2

\* The attributes the service may promote or go back to are all validated ones.
Validated(id) ==
    LET srv == services[id]
    IN  /\ srv.active \in approved[id] \cup {Nothing}
        /\ srv.rollback \in approved[id] \cup {Nothing}
        /\ srv.state \in PromotingStates => srv.candidate \in approved[id] \cup {Nothing}

ValidatedInv == \A id \in DOMAIN services : Validated(id)

\* A branch that promotes nothing, or a candidate that is approved by then.
LEMMA ValidatedFollow ==
    ASSUME TypeOK, ValidatedInv, call.id \in DOMAIN services,
           NEW op \in Operations, NEW state \in States, NEW same \in BOOLEAN,
           NEW branch, NEW exception,
           Follow(op, state, same, branch, exception),
           \A id \in Ids : approved[id] \subseteq approved'[id],
           op = "promote" => Current.candidate \in approved'[call.id] \cup {Nothing},
           state \in PromotingStates =>
               Current.candidate \in approved'[call.id] \cup {Nothing}
    PROVE  ValidatedInv'
<1> DEFINE srv == Perform(op, Current)
           next == NextState(srv, state, same)
<1>1. services' = [services EXCEPT ![call.id] = next]
  BY DEF Follow
<1>2. Current \in Instances /\ call.id \in Ids
  BY DEF TypeOK, Current
<1>3. /\ next.state = state /\ next.active = srv.active
      /\ next.rollback = srv.rollback /\ next.candidate = srv.candidate
  BY <1>2, StepFields
<1>4. /\ Current.active \in approved'[call.id] \cup {Nothing}
      /\ Current.rollback \in approved'[call.id] \cup {Nothing}
  BY <1>2 DEF ValidatedInv, Validated, Current
<1>5. /\ srv.active \in approved'[call.id] \cup {Nothing}
      /\ srv.rollback \in approved'[call.id] \cup {Nothing}
      /\ state \in PromotingStates => srv.candidate \in approved'[call.id] \cup {Nothing}
  BY <1>2, <1>4 DEF Perform, Operations, Instances
<1>6. ASSUME NEW id \in DOMAIN services PROVE Validated(id)'
  <2>1. CASE id = call.id
    <3>1. services'[id] = next
      BY <1>1, <2>1
    <3>2. QED
      <4> HIDE DEF next, srv
      <4>1. QED
        BY <1>3, <1>5, <2>1, <3>1 DEF Validated
  <2>2. CASE id # call.id
    <3>1. services'[id] = services[id]
      BY <1>1, <2>2
    <3>2. id \in Ids /\ Validated(id)
      BY DEF TypeOK, ValidatedInv
    <3>3. QED
      BY <3>1, <3>2 DEF Validated
  <2>3. QED
    BY <2>1, <2>2
<1>7. DOMAIN services' = DOMAIN services
  BY <1>1
<1>8. QED
  BY <1>6, <1>7 DEF ValidatedInv

LEMMA ValidatedNext ==
    ASSUME GuardedLifecycle, TypeOK, TransferInv, ValidatedInv, [Next]_vars
    PROVE  ValidatedInv'
<1>1. ASSUME UNCHANGED <<services, approved>> PROVE ValidatedInv'
  BY <1>1 DEF ValidatedInv, Validated
<1>2. ASSUME NEW id \in Ids, NEW given \in Values, NEW state \in InitialStates,
             NEW auto \in BOOLEAN, CreateService(id, given, state, auto)
      PROVE  ValidatedInv'
  <2>1. state \notin PromotingStates
    BY DEF GuardedLifecycle
  <2>2. /\ DOMAIN services' = DOMAIN services \cup {id}
        /\ \A i \in DOMAIN services : services'[i] = services[i]
        /\ services'[id].state = state /\ services'[id].active = Nothing
        /\ services'[id].rollback = Nothing /\ approved' = approved
    BY <1>2 DEF CreateService
  <2>3. QED
    BY <2>1, <2>2 DEF ValidatedInv, Validated
<1>3. ASSUME NEW id \in Ids, NEW given \in Values, NEW auto \in BOOLEAN,
             UpdateService(id, given, auto)
      PROVE  ValidatedInv'
  <2> DEFINE attributes == [given |-> given, allocated |-> FALSE]
             state == OnUpdateTargets[services[id].state]
  <2>1. /\ services' =
             [services EXCEPT ![id] = [@ EXCEPT !.state = state, !.candidate = attributes]]
        /\ approved' = approved /\ id \in DOMAIN services
    BY <1>3 DEF UpdateService
  <2>2. state \notin PromotingStates /\ services[id] \in Instances
    BY <1>3 DEF GuardedLifecycle, UpdateService, TypeOK
  <2>3. /\ services'[id].state = state /\ services'[id].active = services[id].active
        /\ services'[id].rollback = services[id].rollback
        /\ DOMAIN services' = DOMAIN services
        /\ \A i \in DOMAIN services \ {id} : services'[i] = services[i]
    BY <2>1, <2>2 DEF Instances
  <2>4. QED
    BY <2>1, <2>2, <2>3 DEF ValidatedInv, Validated
<1>4. ASSUME NEW id \in Ids, CallAutoTransfer(id) PROVE ValidatedInv'
  BY <1>1, <1>4 DEF CallAutoTransfer
<1>5. ASSUME NEW id \in Ids, MoveByHand(id) PROVE ValidatedInv'
  <2>1. PICK move \in TestMoves : services' = [services EXCEPT ![id].state = move[2],
                ![id].version = @ + 1, ![id].deleted = (move[2] = "terminated")]
    BY <1>5 DEF MoveByHand
  <2>2. move[2] \notin PromotingStates /\ id \in DOMAIN services /\ approved' = approved
        /\ services[id] \in Instances
    BY <1>5 DEF GuardedLifecycle, MoveByHand, TypeOK
  <2>3. /\ services'[id].state = move[2] /\ services'[id].active = services[id].active
        /\ services'[id].rollback = services[id].rollback
        /\ DOMAIN services' = DOMAIN services
        /\ \A i \in DOMAIN services \ {id} : services'[i] = services[i]
    BY <2>1, <2>2 DEF Instances
  <2>4. QED
    BY <2>2, <2>3 DEF ValidatedInv, Validated
<1>6. ASSUME NEW ids \in SUBSET Ids, CallExportingCompile(ids) PROVE ValidatedInv'
  BY <1>1, <1>6 DEF CallExportingCompile
<1>7. CASE SetPartialCompile
  BY <1>1, <1>7 DEF SetPartialCompile, history
<1>8. ASSUME NEW edited \in BOOLEAN, Allocate(edited) PROVE ValidatedInv'
  <2>1. PICK attributes :
          services' = [services EXCEPT ![call.id] = [@ EXCEPT !.candidate = attributes]]
    BY <1>8 DEF Allocate
  <2>2. Current.state \notin PromotingStates
    BY <1>8 DEF Allocate, TransferInv, PromotingStates
  <2>3. /\ call.id \in DOMAIN services /\ services[call.id] \in Instances
        /\ approved' = approved
    BY <1>8 DEF Allocate, TypeOK, history
  <2>4. /\ services'[call.id].state = Current.state
        /\ services'[call.id].active = services[call.id].active
        /\ services'[call.id].rollback = services[call.id].rollback
        /\ DOMAIN services' = DOMAIN services
        /\ \A i \in DOMAIN services \ {call.id} : services'[i] = services[i]
    BY <2>1, <2>3 DEF Instances, Current
  <2>5. QED
    BY <2>2, <2>3, <2>4 DEF ValidatedInv, Validated
<1>9. CASE NoTransferLeft
  BY <1>1, <1>9 DEF NoTransferLeft, history
<1>10. CASE FollowTransfer
  <2> DEFINE t == AutoTransfers[Current.state]
  <2>1. Current.state \in DOMAIN AutoTransfers /\ ~t.validate /\ approved' = approved
    BY <1>10 DEF FollowTransfer, history
  <2>2. Follow(t.targetOp, t.target, t.targetSame, "plain", "none")
    BY <1>10 DEF FollowTransfer
  <2>3. call.id \in DOMAIN services /\ t.target \notin PromotingStates
    BY <1>10, <2>1 DEF FollowTransfer, TypeOK, GuardedLifecycle
  <2>4. t.targetOp = "promote" => Current.candidate \in approved[call.id] \cup {Nothing}
    BY <2>1, <2>3 DEF ValidatedInv, Validated, PromotingStates, Current
  <2>5. t.targetOp \in Operations /\ t.target \in States /\ t.targetSame \in BOOLEAN
    BY <2>1, AutoType
  <2>6. QED
    <3> HIDE DEF t
    <3>1. QED
      BY <2>1, <2>2, <2>3, <2>4, <2>5, ValidatedFollow
<1>11. CASE StartValidation
  BY <1>1, <1>11 DEF StartValidation, history
<1>12. CASE ValidatingCompileSucceeds
  <2> DEFINE t == call.transfer
  <2>1. Follow(t.targetOp, t.target, t.targetSame, "target", "none")
    BY <1>12 DEF ValidatingCompileSucceeds
  <2>2. approved' = [approved EXCEPT ![call.id] = @ \cup {Current.candidate}]
    BY <1>12 DEF ValidatingCompileSucceeds
  <2>3. t \in Transfers /\ call.id \in DOMAIN services /\ call.id \in Ids
    BY <1>12 DEF ValidatingCompileSucceeds, TypeOK, Calls
  <2>4. /\ \A id \in Ids : approved[id] \subseteq approved'[id]
        /\ Current.candidate \in approved'[call.id]
    BY <2>2, <2>3 DEF TypeOK
  <2>5. t.targetOp \in Operations /\ t.target \in States /\ t.targetSame \in BOOLEAN
    BY <2>3 DEF Transfers
  <2>6. QED
    BY <2>1, <2>3, <2>4, <2>5, ValidatedFollow
<1>13. ASSUME NEW exception, HandleError(exception), UNCHANGED approved,
              pc = "validating" \/ (pc = "exporting" /\ call.branch = "target")
       PROVE  ValidatedInv'
  <2> DEFINE t == call.transfer
  <2>1. PICK state \in DOMAIN AutoTransfers :
          AutoTransfers[state].validate /\ t = AutoTransfers[state]
    BY <1>13 DEF TransferInv
  <2>2. Follow(t.errorOp, t.error, t.errorSame, "error", exception)
    BY <1>13 DEF HandleError
  <2>3. t.error \notin PromotingStates /\ t.errorOp # "promote"
    BY <2>1 DEF GuardedLifecycle
  <2>4. /\ t.errorOp \in Operations /\ t.error \in States /\ t.errorSame \in BOOLEAN
        /\ call.id \in DOMAIN services
    BY <1>13, <2>1, AutoType DEF TypeOK
  <2>5. QED
    BY <1>13, <2>2, <2>3, <2>4, ValidatedFollow
<1>14. CASE ValidatingCompileFails
  BY <1>13, <1>14 DEF ValidatingCompileFails
<1>15. CASE ExportingCompileSucceeds
  BY <1>1, <1>15 DEF ExportingCompileSucceeds
<1>16. CASE ExportingCompileFails
  <2>1. CASE call.branch = "target"
    BY <1>13, <1>16, <2>1 DEF ExportingCompileFails
  <2>2. CASE call.branch # "target"
    BY <1>1, <1>16, <2>2 DEF ExportingCompileFails
  <2>3. QED
    BY <2>1, <2>2
<1>17. CASE UNCHANGED vars
  BY <1>1, <1>17 DEF vars, history
<1>18. ASSUME NEW id \in Ids, UpdateServiceFails(id) PROVE ValidatedInv'
  <2> DEFINE state == OnUpdateTargets[services[id].state]
  <2>1. /\ services' = [services EXCEPT ![id] = [@ EXCEPT !.state = state]]
        /\ approved' = approved /\ id \in DOMAIN services
    BY <1>18 DEF UpdateServiceFails
  <2>2. state \notin PromotingStates /\ services[id] \in Instances
    BY <1>18 DEF GuardedLifecycle, UpdateServiceFails, TypeOK
  <2>3. /\ services'[id].state = state /\ services'[id].active = services[id].active
        /\ services'[id].rollback = services[id].rollback
        /\ DOMAIN services' = DOMAIN services
        /\ \A i \in DOMAIN services \ {id} : services'[i] = services[i]
    BY <2>1, <2>2 DEF Instances
  <2>4. QED
    BY <2>1, <2>2, <2>3 DEF ValidatedInv, Validated
<1>19. QED
  BY <1>2, <1>3, <1>4, <1>5, <1>6, <1>7, <1>8, <1>9, <1>10, <1>11, <1>12, <1>14,
     <1>15, <1>16, <1>17, <1>18 DEF Next, TestStep, UpdateAttributes, UpdateAttributesV2, CallStep

\* In a lifecycle that promotes with or after a validation, only what a validating
\* compile has accepted gets active, whatever fails and whatever the test does.
THEOREM OnlyValidatedIsActive ==
    ASSUME GuardedLifecycle
    PROVE  Spec => []ActiveWasValidated
<1>1. Init => ValidatedInv
  BY DEF Init, ValidatedInv
<1>2. TypeOK /\ TransferInv /\ ValidatedInv /\ [Next]_vars => ValidatedInv'
  BY ValidatedNext
<1>3. ValidatedInv => ActiveWasValidated
  BY DEF ValidatedInv, Validated, ActiveWasValidated
<1>4. QED
  BY <1>1, <1>2, <1>3, TypeCorrect, TransferInit, TransferNext, PTL DEF Spec

-----------------------------------------------------------------------------
\* A transfer that asks for no exporting compile, in an honest lifecycle, leaves
\* what an export shows as it was.
LEMMA NothingToExport ==
    ASSUME NEW srv \in Instances, NEW op \in Operations,
           NEW state \in States, NEW same \in BOOLEAN,
           same \/ state = srv.state => ChangesNothingEmitted(srv.state, op, state),
           ~NeedsCompile(Perform(op, srv), state, same)
    PROVE  Export(NextState(Perform(op, srv), state, same)) = Export(srv)
<1> DEFINE next == NextState(Perform(op, srv), state, same)
<1>1. /\ next.state = state /\ next.deleted = srv.deleted
      /\ next.active = Perform(op, srv).active /\ next.desired = srv.desired
  BY StepFields
<1>2. Perform(op, srv).state = srv.state
  BY DEF Perform, Operations, Instances
<1>3. ChangesNothingEmitted(srv.state, op, state)
  BY <1>2 DEF NeedsCompile
<1>4. srv.state \in ExportingStates => next.active = srv.active
  BY <1>1, <1>3 DEF ChangesNothingEmitted, Perform, Operations, Instances
<1>5. (state \in ExportingStates) <=> (srv.state \in ExportingStates)
  BY <1>3 DEF ChangesNothingEmitted
<1>6. QED
  <2> HIDE DEF next
  <2>1. Emitted(next) = Emitted(srv)
    BY <1>1, <1>4, <1>5 DEF Emitted
  <2>2. QED
    BY <1>1, <2>1 DEF Export, next

\* A service that is neither missed nor being exported is as the last export
\* shows it, one that does not exist is exported as a new one.
Shown(id) ==
    IF id \notin DOMAIN services THEN exported[id] = [desired |-> 1, emitted |-> Nothing]
    ELSE \/ id \in missed
         \/ pc = "exporting" /\ id = call.id
         \/ exported[id] = Export(services[id])

ExportInv == \A id \in Ids : Shown(id)

LEMMA ExportFollow ==
    ASSUME TypeOK, ExportInv, call.id \in DOMAIN services,
           NEW op \in Operations, NEW state \in States, NEW same \in BOOLEAN,
           NEW branch, NEW exception,
           Follow(op, state, same, branch, exception),
           \/ call.id \in missed'
           \/ /\ pc # "exporting"
              /\ same \/ state = Current.state
                   => ChangesNothingEmitted(Current.state, op, state),
           missed \subseteq missed', exported' = exported
    PROVE  ExportInv'
<1> DEFINE srv == Perform(op, Current)
           next == NextState(srv, state, same)
<1>1. services' = [services EXCEPT ![call.id] = next] /\ call'.id = call.id
      /\ DOMAIN services' = DOMAIN services
  BY FollowFrame DEF Follow
<1>2. ASSUME NEW id \in Ids, id # call.id PROVE Shown(id)'
  <2>1. id \in DOMAIN services => services'[id] = services[id]
    BY <1>1, <1>2
  <2>2. Shown(id)
    BY DEF ExportInv
  <2>3. QED
    BY <1>1, <1>2, <2>1, <2>2 DEF Shown
<1>3. ASSUME NEW id \in Ids, id = call.id PROVE Shown(id)'
  <2>1. CASE call.id \in missed'
    BY <1>1, <1>3, <2>1 DEF Shown
  <2>2. CASE NeedsCompile(srv, state, same)
    <3>1. pc' = "exporting"
      BY <2>2 DEF Follow
    <3>2. QED
      BY <1>1, <1>3, <3>1 DEF Shown
  <2>3. CASE ~NeedsCompile(srv, state, same) /\ call.id \notin missed'
    <3>1. Current \in Instances /\ call.id \in Ids
      BY DEF TypeOK, Current
    <3>2. Export(next) = Export(Current)
      BY <2>3, <3>1, NothingToExport
    <3>3. exported[call.id] = Export(Current)
      BY <2>3, <3>1 DEF ExportInv, Shown, Current
    <3>4. services'[call.id] = next
      BY <1>1
    <3>5. QED
      <4> HIDE DEF next
      <4>1. QED
        BY <1>1, <1>3, <3>2, <3>3, <3>4 DEF Shown
  <2>4. QED
    BY <2>1, <2>2, <2>3
<1>4. QED
  BY <1>2, <1>3 DEF ExportInv

LEMMA ExportNext ==
    ASSUME HonestLifecycle, TypeOK, TransferInv, ExportInv, [Next]_vars
    PROVE  ExportInv'
<1>1. ASSUME UNCHANGED <<services, exported, missed>>, pc # "exporting" PROVE ExportInv'
  BY <1>1 DEF ExportInv, Shown
<1>2. ASSUME NEW id \in DOMAIN services, NEW srv, Export(srv) = Export(services[id]),
             services' = [services EXCEPT ![id] = srv],
             UNCHANGED <<exported, missed>>, pc # "exporting"
      PROVE  ExportInv'
  <2>1. ASSUME NEW i \in Ids PROVE Shown(i)'
    <3>1. i \in DOMAIN services => Export(services'[i]) = Export(services[i])
      BY <1>2
    <3>2. Shown(i)
      BY DEF ExportInv
    <3>3. QED
      BY <1>2, <3>1, <3>2 DEF Shown
  <2>2. QED
    BY <2>1 DEF ExportInv
<1>3. ASSUME NEW id \in Ids, NEW given \in Values, NEW state \in InitialStates,
             NEW auto \in BOOLEAN, CreateService(id, given, state, auto)
      PROVE  ExportInv'
  <2>1. /\ DOMAIN services' = DOMAIN services \cup {id} /\ id \notin DOMAIN services
        /\ \A i \in DOMAIN services : services'[i] = services[i]
        /\ services'[id].desired = 1 /\ services'[id].active = Nothing
        /\ UNCHANGED <<exported, missed>> /\ pc = "idle"
    BY <1>3 DEF CreateService, NewCall, Begins
  <2>2. Export(services'[id]) = [desired |-> 1, emitted |-> Nothing]
    BY <2>1 DEF Export, Emitted
  <2>3. QED
    BY <2>1, <2>2 DEF ExportInv, Shown
<1>4. ASSUME NEW id \in Ids, NEW given \in Values, NEW auto \in BOOLEAN,
             UpdateService(id, given, auto)
      PROVE  ExportInv'
  <2> DEFINE attributes == [given |-> given, allocated |-> FALSE]
             state == OnUpdateTargets[services[id].state]
             srv == [services[id] EXCEPT !.state = state, !.candidate = attributes]
  <2>1. /\ services' = [services EXCEPT ![id] = srv]
        /\ UNCHANGED <<exported, missed>> /\ id \in DOMAIN services /\ pc = "idle"
    BY <1>4 DEF UpdateService, NewCall, Begins
  <2>2. ChangesNothingEmitted(services[id].state, "none", state)
    BY <1>4 DEF HonestLifecycle, UpdateService
  <2>3. services[id] \in Instances
    BY <2>1 DEF TypeOK
  <2>4. /\ srv.state = state /\ srv.active = services[id].active
        /\ srv.desired = services[id].desired /\ srv.deleted = services[id].deleted
    BY <2>3 DEF Instances
  <2>5. Export(srv) = Export(services[id])
    <3> HIDE DEF srv, state
    <3>1. QED
      BY <2>2, <2>4 DEF Export, Emitted, ChangesNothingEmitted
  <2>6. QED
    BY <1>2, <2>1, <2>5
<1>5. ASSUME NEW id \in Ids, CallAutoTransfer(id) PROVE ExportInv'
  BY <1>1, <1>5 DEF CallAutoTransfer, NewCall, Begins
<1>6. ASSUME NEW id \in Ids, MoveByHand(id) PROVE ExportInv'
  <2>1. /\ DOMAIN services' = DOMAIN services /\ missed' = missed \cup {id}
        /\ \A i \in DOMAIN services \ {id} : services'[i] = services[i]
        /\ id \in DOMAIN services /\ pc = "idle" /\ exported' = exported
    BY <1>6 DEF MoveByHand, NewCall, Begins
  <2>2. QED
    BY <2>1 DEF ExportInv, Shown
<1>7. ASSUME NEW ids \in SUBSET Ids, CallExportingCompile(ids) PROVE ExportInv'
  BY <1>7 DEF CallExportingCompile, NewCall, ExportInv, Shown
<1>8. CASE SetPartialCompile
  BY <1>1, <1>8 DEF SetPartialCompile, NewCall, history
<1>9. ASSUME NEW edited \in BOOLEAN, Allocate(edited) PROVE ExportInv'
  <2>1. PICK attributes :
          services' = [services EXCEPT ![call.id] = [@ EXCEPT !.candidate = attributes]]
    BY <1>9 DEF Allocate
  <2> DEFINE srv == [services[call.id] EXCEPT !.candidate = attributes]
  <2>2. /\ call.id \in DOMAIN services /\ services[call.id] \in Instances
        /\ UNCHANGED <<exported, missed>> /\ pc # "exporting"
    BY <1>9 DEF Allocate, TypeOK, history
  <2>3. Export(srv) = Export(services[call.id])
    BY <2>2 DEF Export, Emitted, Instances
  <2>4. QED
    BY <1>2, <2>1, <2>2, <2>3
<1>10. CASE NoTransferLeft
  BY <1>1, <1>10 DEF NoTransferLeft, history
<1>11. CASE FollowTransfer
  <2> DEFINE t == AutoTransfers[Current.state]
  <2>1. /\ Current.state \in DOMAIN AutoTransfers /\ UNCHANGED <<exported, missed>>
        /\ call.id \in DOMAIN services /\ pc # "exporting"
    BY <1>11 DEF FollowTransfer, TypeOK, history
  <2>2. Follow(t.targetOp, t.target, t.targetSame, "plain", "none")
    BY <1>11 DEF FollowTransfer
  <2>3. t.targetSame \/ t.target = Current.state
          => ChangesNothingEmitted(Current.state, t.targetOp, t.target)
    BY <2>1 DEF HonestLifecycle
  <2>4. t.targetOp \in Operations /\ t.target \in States /\ t.targetSame \in BOOLEAN
    BY <2>1, AutoType
  <2>5. QED
    <3> HIDE DEF t
    <3>1. QED
      BY <2>1, <2>2, <2>3, <2>4, ExportFollow
<1>12. CASE StartValidation
  BY <1>1, <1>12 DEF StartValidation, history
<1>13. CASE ValidatingCompileSucceeds
  <2> DEFINE t == AutoTransfers[Current.state]
  <2>1. /\ Current.state \in DOMAIN AutoTransfers /\ UNCHANGED <<exported, missed>>
        /\ call.id \in DOMAIN services /\ call.transfer = t /\ pc # "exporting"
    BY <1>13 DEF ValidatingCompileSucceeds, TypeOK, TransferInv
  <2>2. Follow(t.targetOp, t.target, t.targetSame, "target", "none")
    BY <1>13, <2>1 DEF ValidatingCompileSucceeds
  <2>3. t.targetSame \/ t.target = Current.state
          => ChangesNothingEmitted(Current.state, t.targetOp, t.target)
    BY <2>1 DEF HonestLifecycle
  <2>4. t.targetOp \in Operations /\ t.target \in States /\ t.targetSame \in BOOLEAN
    BY <2>1, AutoType
  <2>5. QED
    <3> HIDE DEF t
    <3>1. QED
      BY <2>1, <2>2, <2>3, <2>4, ExportFollow
<1>14. CASE ValidatingCompileFails
  <2> DEFINE t == AutoTransfers[Current.state]
  <2>1. /\ Current.state \in DOMAIN AutoTransfers /\ UNCHANGED <<exported, missed>>
        /\ call.id \in DOMAIN services /\ call.transfer = t /\ t.validate
        /\ pc # "exporting"
    BY <1>14 DEF ValidatingCompileFails, TypeOK, TransferInv
  <2>2. PICK exception \in Failures :
          Follow(t.errorOp, t.error, t.errorSame, "error", exception)
    BY <1>14, <2>1 DEF ValidatingCompileFails, HandleError
  <2>3. t.errorSame \/ t.error = Current.state
          => ChangesNothingEmitted(Current.state, t.errorOp, t.error)
    BY <2>1 DEF HonestLifecycle
  <2>4. t.errorOp \in Operations /\ t.error \in States /\ t.errorSame \in BOOLEAN
    BY <2>1, AutoType
  <2>5. QED
    <3> HIDE DEF t
    <3>1. QED
      BY <2>1, <2>2, <2>3, <2>4, ExportFollow
<1>15. CASE ExportingCompileSucceeds
  <2>1. /\ call.id \in Scope /\ Scope \subseteq DOMAIN services /\ UNCHANGED services
        /\ exported' = [id \in Ids |-> IF id \in Scope THEN Export(services[id])
                                       ELSE exported[id]]
        /\ missed' = missed \ Scope
    BY <1>15 DEF ExportingCompileSucceeds, Scope, TypeOK
  <2>2. QED
    BY <2>1 DEF ExportInv, Shown
<1>16. CASE ExportingCompileFails
  <2>1. /\ call.id \in missed' /\ missed \subseteq missed' /\ exported' = exported
        /\ call.id \in DOMAIN services /\ missed' = missed \cup {call.id}
    BY <1>16 DEF ExportingCompileFails, TypeOK
  <2>2. CASE call.branch = "target"
    <3>1. PICK exception \in Failures : HandleError(exception)
      BY <1>16, <2>2 DEF ExportingCompileFails
    <3>2. PICK state \in DOMAIN AutoTransfers : call.transfer = AutoTransfers[state]
      BY <1>16, <2>2 DEF ExportingCompileFails, TransferInv
    <3> DEFINE t == call.transfer
    <3>3. t.errorOp \in Operations /\ t.error \in States /\ t.errorSame \in BOOLEAN
      BY <3>2, AutoType
    <3>4. QED
      BY <2>1, <3>1, <3>3, ExportFollow DEF HandleError
  <2>3. CASE call.branch # "target"
    <3>1. UNCHANGED services
      BY <1>16, <2>3 DEF ExportingCompileFails
    <3>2. QED
      BY <2>1, <3>1 DEF ExportInv, Shown
  <2>4. QED
    BY <2>2, <2>3
<1>17. CASE UNCHANGED vars
  BY <1>17 DEF vars, ExportInv, Shown, history
<1>18. ASSUME NEW id \in Ids, UpdateServiceFails(id) PROVE ExportInv'
  <2> DEFINE state == OnUpdateTargets[services[id].state]
             srv == [services[id] EXCEPT !.state = state]
  <2>1. /\ services' = [services EXCEPT ![id] = srv]
        /\ UNCHANGED <<exported, missed>> /\ id \in DOMAIN services /\ pc = "idle"
    BY <1>18 DEF UpdateServiceFails, NewCall, Begins
  <2>2. ChangesNothingEmitted(services[id].state, "none", state)
    BY <1>18 DEF HonestLifecycle, UpdateServiceFails
  <2>3. /\ srv.state = state /\ srv.active = services[id].active
        /\ srv.desired = services[id].desired /\ srv.deleted = services[id].deleted
    BY <2>1 DEF TypeOK, Instances
  <2>4. Export(srv) = Export(services[id])
    <3> HIDE DEF srv, state
    <3>1. QED
      BY <2>2, <2>3 DEF Export, Emitted, ChangesNothingEmitted
  <2>5. QED
    BY <1>2, <2>1, <2>4
<1>19. QED
  BY <1>3, <1>4, <1>5, <1>6, <1>7, <1>8, <1>9, <1>10, <1>11, <1>12, <1>13, <1>14,
     <1>15, <1>16, <1>17, <1>18 DEF Next, TestStep, UpdateAttributes, UpdateAttributesV2, CallStep

\* In an honest lifecycle, what the last export shows of a service is what the
\* inventory holds between two calls, but for the exports that failed.
THEOREM ExportIsUpToDate ==
    ASSUME HonestLifecycle
    PROVE  Spec => []ExportFollowsInventory
<1>1. Init => ExportInv
  BY DEF Init, ExportInv, Shown
<1>2. TypeOK /\ TransferInv /\ ExportInv /\ [Next]_vars => ExportInv'
  BY ExportNext
<1>3. TypeOK /\ ExportInv => ExportFollowsInventory
  BY DEF ExportInv, Shown, ExportFollowsInventory, TypeOK
<1>4. QED
  BY <1>1, <1>2, <1>3, TypeCorrect, TransferInit, TransferNext, PTL DEF Spec
=============================================================================
