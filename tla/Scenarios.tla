------------------------------ MODULE Scenarios ------------------------------
(***************************************************************************)
(* execute_scenarios (util.py): runs scenarios one after the other, or at  *)
(* the same time, at most max_concurrency of them, within a timeout, and   *)
(* raises their failures once they are all done.                           *)
(***************************************************************************)
EXTENDS Naturals, Sequences

CONSTANTS
    Count,    \* number of scenarios, in the order they are given
    Limits,   \* the values of max_concurrency, 0 for None; Semaphore(0), with which
              \* nothing ever runs, is left out
    Failures  \* how a scenario fails: "Exception" for a subclass of it, else
              \* "BaseException", as a pytest.fail or a cancelled request does

All == 1 .. Count

VARIABLES
    sequential, limit, timeout, \* the parameters
    state,    \* of each scenario
    cancel,   \* the scenarios that the timeout has cancelled
    waiting,  \* the scenarios waiting for the semaphore, first come first served
    slots,    \* its value
    failure,  \* what gather gets from each scenario
    result    \* how execute_scenarios ended

parameters == <<sequential, limit, timeout>>
vars == <<parameters, state, cancel, waiting, slots, failure, result>>

States == {"created", "queued", "running", "done", "not run"}
Ended  == {"done", "not run"}
Capped == limit # 0 /\ ~sequential
Running == {s \in All : state[s] = "running"}

Init ==
    /\ sequential \in BOOLEAN
    /\ limit \in Limits
    /\ timeout \in BOOLEAN
    /\ state = [s \in All |-> "created"]
    /\ cancel = {}
    /\ waiting = <<>>
    /\ slots = limit
    /\ failure = [s \in All |-> "none"]
    /\ result = "none"

-----------------------------------------------------------------------------
\* Mutant: each scenario gets the semaphore for itself.
HasSlotAlways == TRUE
HasSlot == ~Capped \/ slots > 0

\* The tasks of gather start in the order of the scenarios, in a sequential run
\* each one when the one before is done.
Start(s) ==
    /\ state[s] = "created"
    /\ \A earlier \in 1 .. s - 1 :
         IF sequential THEN state[earlier] \in Ended ELSE state[earlier] # "created"
    /\ IF HasSlot
       THEN /\ state' = [state EXCEPT ![s] = "running"]
            /\ slots' = IF Capped THEN slots - 1 ELSE slots
            /\ UNCHANGED waiting
       ELSE /\ state' = [state EXCEPT ![s] = "queued"]
            /\ waiting' = Append(waiting, s)
            /\ UNCHANGED slots
    /\ UNCHANGED <<parameters, cancel, failure, result>>

\* Mutant: a slot is only given back when no one waits for it.
ReleaseUnheard == slots' = (IF Capped THEN slots + 1 ELSE slots) /\ UNCHANGED waiting

\* The slot of a scenario that ends goes to the first one that waits.
Release ==
    IF ~Capped THEN UNCHANGED <<waiting, slots>>
    ELSE IF waiting = <<>> THEN slots' = slots + 1 /\ UNCHANGED waiting
    ELSE waiting' = Tail(waiting) /\ UNCHANGED slots

\* A scenario ends; a sequential run stops at the first failure.
End(s, how) ==
    /\ failure' = [failure EXCEPT ![s] = how]
    /\ Release
    /\ state' = [r \in All |->
           IF r = s THEN "done"
           ELSE IF waiting' # waiting /\ r = Head(waiting) THEN "running"
           ELSE IF sequential /\ how # "none" /\ r > s THEN "not run"
           ELSE state[r]]
    /\ UNCHANGED <<parameters, cancel, result>>

ScenarioEnds(s) ==
    /\ state[s] = "running" /\ s \notin cancel
    /\ \E how \in Failures \cup {"none"} : End(s, how)

\* A cancelled scenario ends as well: with a TimeoutError, with an exception of
\* its own or, if it ignores the cancellation, with none.
CancelledEnds(s) ==
    /\ state[s] = "running" /\ s \in cancel
    /\ \E how \in Failures \cup {"none", "Exception"} : End(s, how)

QueuedTimesOut(s) ==
    /\ state[s] = "queued" /\ s \in cancel
    /\ state' = [state EXCEPT ![s] = "not run"]
    /\ failure' = [failure EXCEPT ![s] = "Exception"]
    /\ UNCHANGED <<parameters, cancel, waiting, slots, result>>

\* Mutant: the timer starts when the slot is acquired.
TimeElapsesOnSlots ==
    /\ timeout /\ cancel = {} /\ Running # {}
    /\ sequential \/ \A s \in All : state[s] # "created"
    /\ cancel' = Running
    /\ UNCHANGED <<parameters, state, waiting, slots, failure, result>>

\* The timer is the same for all: it starts before the slots are acquired, and in
\* a sequential run it is about the whole of it.  It cancels once.
TimeElapses ==
    /\ timeout /\ cancel = {} /\ Running # {}
    /\ sequential \/ \A s \in All : state[s] # "created"
    /\ cancel' = IF sequential THEN Running ELSE {s \in All : state[s] \notin Ended}
    /\ waiting' = <<>>
    /\ UNCHANGED <<parameters, state, slots, failure, result>>

AllDone == \A s \in All : state[s] \in Ended

\* What gather has got is filtered by isinstance(exc, Exception), then raised.
Return ==
    /\ result = "none"
    /\ AllDone
    /\ result' = IF \E s \in All : failure[s] = "Exception" THEN "raised" ELSE "returned"
    /\ UNCHANGED <<parameters, state, cancel, waiting, slots, failure>>

Step == Return \/ \E s \in All : Start(s) \/ CancelledEnds(s) \/ QueuedTimesOut(s)
Next == Step \/ TimeElapses \/ \E s \in All : ScenarioEnds(s)

\* The event loop runs, time goes by, and a cancelled scenario ends.
Spec == Init /\ [][Next]_vars /\ WF_vars(Step) /\ WF_vars(TimeElapses)

-----------------------------------------------------------------------------
\* The types of the variables.
TypeOK ==
    /\ sequential \in BOOLEAN /\ limit \in Limits /\ timeout \in BOOLEAN
    /\ state \in [All -> States]
    /\ cancel \subseteq All
    /\ waiting \in Seq(All)
    /\ slots \in 0 .. limit
    /\ failure \in [All -> Failures \cup {"none", "Exception"}]
    /\ result \in {"none", "returned", "raised"}
=============================================================================
