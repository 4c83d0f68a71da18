---------------------------- MODULE LoadGenerator ----------------------------
(***************************************************************************)
(* A thread that sends requests to the orchestrator while a with block     *)
(* runs (load_generator.py): the test resets a flag and joins the thread,  *)
(* with a timeout; the thread looks at the flag before each request.       *)
(***************************************************************************)
EXTENDS Naturals

VARIABLES
    running,   \* the flag
    thread,    \* what the thread does next, "none" before it is started
    user,      \* where the with statement of the test is
    exception, \* what the thread ended with is to be raised
    raised,    \* by __exit__
    \* The rest is history:
    timedOut,  \* the join has returned before the thread ended
    late       \* requests sent since the flag was reset, up to 2

loadVars == <<running, thread, user, exception, raised, timedOut, late>>

LoadInit ==
    /\ running = TRUE /\ thread = "none" /\ user = "out"
    /\ exception = FALSE /\ raised = FALSE
    /\ timedOut = FALSE /\ late = 0

EnterLoad ==
    /\ user = "out" /\ user' = "in"
    /\ thread' = "check"
    /\ UNCHANGED <<running, exception, raised, timedOut, late>>

\* remote_call: the flag, then the request.  The test may reset it in between.
\* Mutant: the flag is not looked at.
CheckNothing ==
    /\ thread = "check"
    /\ thread' = "send"
    /\ UNCHANGED <<running, user, exception, raised, timedOut, late>>

Check ==
    /\ thread = "check"
    /\ thread' = IF running THEN "send" ELSE "done"
    /\ UNCHANGED <<running, user, exception, raised, timedOut, late>>

Send ==
    /\ thread = "send" /\ thread' = "request"
    /\ late' = IF running \/ late = 2 THEN late ELSE late + 1
    /\ UNCHANGED <<running, user, exception, raised, timedOut>>

\* Answered or failed, the error is logged only; then the thread sleeps.
RequestEnds ==
    /\ thread = "request" /\ thread' = "sleep"
    /\ UNCHANGED <<running, user, exception, raised, timedOut, late>>

Sleep ==
    /\ thread = "sleep" /\ thread' = "check"
    /\ UNCHANGED <<running, user, exception, raised, timedOut, late>>

\* Anything else that goes wrong in create_load ends the thread.
LoadBreaks ==
    /\ thread = "check" /\ thread' = "done"
    /\ exception' = TRUE
    /\ UNCHANGED <<running, user, raised, timedOut, late>>

\* __exit__, whatever the block ended with.
ExitLoad ==
    /\ user = "in" /\ user' = "join"
    /\ running' = FALSE
    /\ UNCHANGED <<thread, exception, raised, timedOut, late>>

\* Mutant: __exit__ forgets the exception of the thread.
JoinForgets ==
    /\ user = "join" /\ user' = "left"
    /\ timedOut' = (thread # "done")
    /\ UNCHANGED <<running, thread, exception, raised, late>>

Join ==
    /\ user = "join" /\ user' = "left"
    /\ timedOut' = (thread # "done")
    /\ raised' = exception
    /\ UNCHANGED <<running, thread, exception, late>>

ThreadStep == Check \/ Send \/ RequestEnds \/ Sleep
Load == ThreadStep \/ LoadBreaks

\* After the flag is reset, at most one request is still sent, and when the block is
\* left, a failure of the thread is the test's too, unless the join has timed out.
LoadIsBounded ==
    /\ late <= 1
    /\ user = "left" /\ exception => raised \/ timedOut

\* The thread ends once the block does, even if the join does not wait for it.
LoadEnds == user = "join" ~> thread = "done"
=============================================================================
