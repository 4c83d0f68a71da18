----------------------------- MODULE WaitVerdict -----------------------------
(***************************************************************************)
(* What waiting for a state promises.  A service only ever gets new        *)
(* versions.  A waiter learns longer and longer prefixes of its log, and   *)
(* its verdict is the one of the first version, after the version it       *)
(* starts from, that decides: no state is skipped, however short-lived,    *)
(* and none is looked at before an older one.                              *)
(***************************************************************************)
EXTENDS Naturals, Sequences

CONSTANTS States, Bad, Nothing

VARIABLES
    log,    \* the states of the service, by version
    wait,   \* the wait in progress: its target state and version, its start
    known,  \* the last version the waiter knows about
    outcome \* the verdict of the last wait

vars == <<log, wait, known, outcome>>

None == [kind |-> "none", version |-> 0]

\* The versions that end a wait: a bad state; without target version, the target
\* state; with one, that version, or a later one.
IsBad(v)     == log[v] \in Bad
Exceeds(v)   == /\ ~IsBad(v) /\ wait.version # Nothing
                /\ v > wait.version \/ (v = wait.version /\ log[v] # wait.target)
Matches(v)   == /\ ~IsBad(v) /\ log[v] = wait.target
                /\ wait.version \in {Nothing, v}
Decisive(v)  == IsBad(v) \/ Exceeds(v) \/ Matches(v)
FirstIn(v, s) == Decisive(v) /\ \A w \in s + 1 .. v - 1 : ~Decisive(w)

Init == log = <<>> /\ wait = Nothing /\ known = 0 /\ outcome = None

Grow ==
    /\ \E state \in States : log' = Append(log, state)
    /\ UNCHANGED <<wait, known, outcome>>

\* A wait starts from a version that exists, possibly with the request that
\* creates the next one.
Start ==
    /\ wait = Nothing
    /\ log' = log \/ \E state \in States : log' = Append(log, state)
    /\ wait' \in [target : States, version : Nat \cup {Nothing}, start : 1 .. Len(log')]
    /\ known' = wait'.start
    /\ outcome' = None

Learn ==
    /\ wait # Nothing
    /\ known' \in known .. Len(log)
    /\ UNCHANGED <<log, wait, outcome>>

Report ==
    /\ wait # Nothing
    /\ \E v \in wait.start + 1 .. known :
         /\ FirstIn(v, wait.start)
         /\ outcome' = [kind |-> CASE IsBad(v) -> "BadState"
                                   [] Exceeds(v) -> "VersionExceeded"
                                   [] OTHER -> "returned",
                        version |-> v]
    /\ wait' = Nothing
    /\ UNCHANGED <<log, known>>

\* A timeout says that nothing the waiter knows about has decided.
GiveUp ==
    /\ wait # Nothing
    /\ \A v \in wait.start + 1 .. known : ~Decisive(v)
    /\ outcome' = [kind |-> "Timeout", version |-> known]
    /\ wait' = Nothing
    /\ UNCHANGED <<log, known>>

\* A request to the orchestrator may fail, and the wait with it.
Fail ==
    /\ wait # Nothing
    /\ outcome' = [kind |-> "RequestError", version |-> 0]
    /\ wait' = Nothing
    /\ UNCHANGED <<log, known>>

Forget ==
    /\ wait = Nothing
    /\ known' = 0
    /\ outcome' = None
    /\ UNCHANGED <<log, wait>>

Next == Grow \/ Start \/ Learn \/ Report \/ GiveUp \/ Fail \/ Forget

Spec == Init /\ [][Next]_vars
=============================================================================
