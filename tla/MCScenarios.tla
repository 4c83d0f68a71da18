----------------------------- MODULE MCScenarios -----------------------------
(* An instance of Scenarios is given by its configuration.                    *)
EXTENDS ScenarioPromises
=============================================================================
