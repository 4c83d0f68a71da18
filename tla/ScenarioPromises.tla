--------------------------- MODULE ScenarioPromises ---------------------------
(***************************************************************************)
(* What execute_scenarios (util.py) promises about the scenarios it runs:  *)
(* the properties of Scenarios, whose steps are Runner's here.             *)
(***************************************************************************)
EXTENDS Naturals, FiniteSets

CONSTANTS Count, Limits, Failures

ASSUME CountAssumption == Count \in Nat
ASSUME LimitsAssumption == Limits \subseteq Nat
ASSUME FailuresAssumption == Failures \subseteq {"Exception", "BaseException"}

VARIABLES sequential, limit, timeout, state, cancel, waiting, slots, failure, result

Runner == INSTANCE Scenarios

RunnerSpec == Runner!Spec
runnerVars == Runner!vars

-----------------------------------------------------------------------------
\* At most max_concurrency scenarios run at the same time, and no slot gets lost,
\* whatever ends, fails or times out.
SlotsAccounted ==
    /\ Runner!Capped =>
          Cardinality(Runner!Running) <= limit /\ Cardinality(Runner!Running) + slots = limit
    /\ sequential => Cardinality(Runner!Running) <= 1

\* No slot stays free while a scenario waits for one.
NoSlotWasted == waiting # <<>> => slots = 0

\* If every scenario that runs ends by itself, so does their execution: each one
\* gets its slot, without the help of a timeout.
ExecutionEnds ==
    (\A s \in Runner!All : WF_runnerVars(Runner!ScenarioEnds(s))) => <>(result # "none")

\* Concurrent scenarios end soon after the timeout, those that wait for a slot too,
\* even if they would otherwise run forever.
EndsAfterTimeout == cancel # {} /\ ~sequential ~> result # "none"
=============================================================================
