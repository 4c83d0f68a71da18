---------------------------- MODULE MCLsmProject -----------------------------
(* A small instance of LsmProject.  The lifecycle has the shape of the one     *)
(* the examples use (creation and update are validated, then promoted), and a  *)
(* roll back of the failed updates; a service that is up can be validated      *)
(* again, without candidate attributes.                                        *)
EXTENDS LsmProject, TLC

CONSTANTS a, b

MCStates == {"start", "acknowledged", "inprogress", "rejected", "up",
             "update_start", "update_acknowledged", "update_inprogress",
             "update_rejected", "update_failed", "reconfirm", "terminated"}

Transfer(validate, target, targetOp, targetSame, error, errorOp, errorSame) ==
    [target |-> target, error |-> error, validate |-> validate,
     targetOp |-> targetOp, errorOp |-> errorOp,
     targetSame |-> targetSame, errorSame |-> errorSame]
Plain(target, op, same) == Transfer(FALSE, target, op, same, target, "none", TRUE)

\* The creation asks for an exporting compile on each transfer, as orchestrators
\* without same_desired_state do; the update only when the desired state changes.
MCAuto ==
    "start"  :> Transfer(TRUE, "acknowledged", "none", FALSE, "rejected", "none", FALSE)
 @@ "acknowledged" :> Plain("inprogress", "promote", FALSE)
 @@ "update_start" :> Transfer(TRUE, "update_acknowledged", "none", TRUE,
                               "update_rejected", "none", TRUE)
 @@ "update_acknowledged" :> Plain("update_inprogress", "promote", FALSE)
 @@ "update_rejected" :> Plain("up", "clear candidate", TRUE)
 @@ "update_failed"   :> Plain("up", "rollback", FALSE)
 @@ "reconfirm" :> Transfer(TRUE, "up", "clear candidate", TRUE, "up", "clear candidate", TRUE)

MCOnUpdate == "up" :> "update_start"

MCExporting == {"inprogress", "up", "update_start", "update_acknowledged",
                "update_inprogress", "update_rejected", "update_failed", "reconfirm"}

MCTestMoves == {<<"inprogress", "up">>, <<"update_inprogress", "up">>,
                <<"update_inprogress", "update_failed">>, <<"up", "terminated">>, <<"up", "reconfirm">>}

\* The lifecycle is one the theorems apply to.
ASSUME LifecycleIsHonest == HonestLifecycle /\ GuardedLifecycle
=============================================================================
