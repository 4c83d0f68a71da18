-------------------------- MODULE DeploymentPromises --------------------------
(***************************************************************************)
(* What RemoteOrchestrator's waits for a version promise: the properties   *)
(* of DeploymentWait, whose steps are Deployment's here.                   *)
(***************************************************************************)
EXTENDS Naturals

CONSTANTS
    Resources, MaxVersions,
    Unset \* Python's None: no version, or no state, was asked for

ASSUME MaxVersionsAssumption == MaxVersions \in Nat
ASSUME UnsetAssumption == Unset \notin Nat \cup {"deployed", "failed"}

VARIABLES newApi, exported, released, active, status, pc, wait, expired, outcome, scheduled

Deployment == INSTANCE DeploymentWait WITH Nothing <- Unset

DeploymentSpec == Deployment!Spec

-----------------------------------------------------------------------------
\* A wait for the deployment of a version that returns has seen all its resources
\* done, and in the desired state, unless a newer one took its place meanwhile.
ReturnedMeansDeployed ==
    Deployment!Returned /\ wait.kind = "all" /\ (newApi => active = wait.version) =>
        \A r \in Resources :
            status[wait.version][r] \in
                IF wait.state = Unset THEN Deployment!DoneStates ELSE {wait.state}

\* A version that was superseded before it got scheduled is never taken for scheduled
\* or deployed: the wait for it may last until its timeout, but does not return.
SupersededNeverReturns ==
    Deployment!Returned /\ wait.kind \in {"all", "scheduled"} => wait.version \in scheduled

\* A wait always ends, at the latest when the timeout of each of its phases has
\* elapsed, even if nothing is ever released or deployed.
WaitEnds == pc # "idle" ~> pc = "idle"
=============================================================================
