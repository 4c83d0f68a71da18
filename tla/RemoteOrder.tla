----------------------------- MODULE RemoteOrder -----------------------------
(***************************************************************************)
(* RemoteOrder (remote_order_async.py): the tasks of a scenario share an   *)
(* order object.  They add items to it, create the order on a real         *)
(* orchestrator and wait for its state.  The orchestrator executes the     *)
(* items at any time, between any two requests; what a failed wait reports *)
(* takes requests of its own.                                              *)
(***************************************************************************)
EXTENDS Naturals, FiniteSets

CONSTANTS
    Tasks,     \* the asyncio tasks of the scenario
    Items,     \* order items, each about a service of its own
    Batches,   \* the sets of items that a task adds, or gives to create, at a time
    OrderIds,  \* bounds the number of orders the orchestrator creates
    ChosenIds, \* those of them that a scenario may choose
    Targets,   \* what a scenario waits for
    Nothing,   \* Python's None
    MaxOrdered, \* bound on the items of all the orders together
    MaxCalls   \* bound on the calls of create and wait_for_state

Final    == {"success", "partial", "failed"}
Statuses == {"acknowledged", "in_progress"} \cup Final
ItemStates == {"open", "completed", "failed"}

ASSUME BatchesAssumption == Batches \subseteq SUBSET Items
ASSUME ChosenIdsAssumption == ChosenIds \subseteq OrderIds
ASSUME TargetsAssumption == Targets \subseteq Statuses
ASSUME NothingAssumption == Nothing \notin Statuses /\ Nothing \notin OrderIds
ASSUME MaxCallsAssumption == MaxCalls \in Nat

\* An order: its status, its items with their states.
Orders == [status : Statuses, item : UNION {[S -> ItemStates] : S \in SUBSET Items}]
\* What a task knows: what it waits for, what it has sent, the id of the order it is
\* about, the reply that decided, the verdict and what it has reported about it.
Waits == [target : Statuses \cup {Nothing}, bad : SUBSET Statuses,
          sent : SUBSET Items, id : OrderIds \cup {Nothing},
          order : Orders \cup {Nothing}, verdict : {"none", "returned", "BadOrderState", "Timeout"},
          failing : SUBSET Items, pending : SUBSET Items, unknown : BOOLEAN]

VARIABLES
    orders,  \* on the orchestrator: the orders by id
    items,   \* self._items
    orderId, \* self._order_id
    created, \* self._created
    pc,      \* the next step of each task, "idle" between two calls
    wait,    \* the Waits record of each task, of its last call when it got a verdict
    expired, \* the tasks whose timeout has elapsed
    calls    \* number of calls made by the tasks

object == <<items, orderId, created>>
vars == <<orders, object, pc, wait, expired, calls>>

NoWait == [target |-> Nothing, bad |-> {}, sent |-> {}, id |-> Nothing, order |-> Nothing,
           verdict |-> "none", failing |-> {}, pending |-> {}, unknown |-> FALSE]

\* The id of an order may be chosen by the scenario.
Init ==
    /\ orders = [id \in {} |-> Nothing]
    /\ items = {}
    /\ orderId \in ChosenIds \cup {Nothing}
    /\ created = FALSE
    /\ pc = [t \in Tasks |-> "idle"]
    /\ wait = [t \in Tasks |-> NoWait]
    /\ expired = {}
    /\ calls = 0

Goto(t, label) == pc' = [pc EXCEPT ![t] = label]
End(t) == Goto(t, "idle") /\ expired' = expired \ {t}
\* The call ends without a verdict.
EndUntold(t) == End(t) /\ wait' = [wait EXCEPT ![t] = NoWait]

-----------------------------------------------------------------------------
\* The orchestrator starts an order, executes its items one by one, ends it.
OrderStarts(id) ==
    /\ orders[id].status = "acknowledged"
    /\ orders' = [orders EXCEPT ![id].status = "in_progress"]
    /\ UNCHANGED <<object, pc, wait, expired, calls>>

ItemDone(id, i, state) ==
    /\ orders[id].status = "in_progress"
    /\ i \in DOMAIN orders[id].item /\ orders[id].item[i] = "open"
    /\ orders' = [orders EXCEPT ![id].item[i] = state]
    /\ UNCHANGED <<object, pc, wait, expired, calls>>

OrderEnds(id) ==
    LET states == {orders[id].item[i] : i \in DOMAIN orders[id].item}
    IN  /\ orders[id].status = "in_progress"
        /\ "open" \notin states
        /\ orders' = [orders EXCEPT ![id].status =
               CASE states = {"completed"} -> "success"
                 [] states = {"failed"}    -> "failed"
                 [] OTHER                  -> "partial"]
        /\ UNCHANGED <<object, pc, wait, expired, calls>>

TimeElapses(t) ==
    /\ pc[t] = "poll" /\ t \notin expired
    /\ expired' = expired \cup {t}
    /\ UNCHANGED <<orders, object, pc, wait, calls>>

-----------------------------------------------------------------------------
\* add_create_instance, add_update_instance and add_delete_instance, none of which
\* awaits anything, one after the other.  An order that has been created takes no
\* more items: RuntimeError.
AddItems(t, added) ==
    /\ pc[t] = "idle"
    /\ ~created
    /\ items' = items \cup added
    /\ UNCHANGED <<orders, orderId, created, pc, wait, expired, calls>>

NewCall(t) ==
    /\ pc[t] = "idle"
    /\ calls < MaxCalls
    /\ calls' = calls + 1

\* create, up to its request.  An empty order is a ValueError, an order that has
\* been created a RuntimeError: nothing keeps two tasks from being here at a time.
Create(t, given, target, bad) ==
    /\ NewCall(t)
    /\ ~created
    /\ items \cup given # {}
    /\ Goto(t, "create")
    /\ wait' = [wait EXCEPT ![t] = [NoWait EXCEPT !.target = target, !.bad = bad,
                                       !.sent = items \cup given, !.id = orderId]]
    /\ UNCHANGED <<orders, object, expired>>

OrderedItems == UNION {{<<id, i>> : i \in DOMAIN orders[id].item} : id \in DOMAIN orders}

\* The orchestrator takes the request, if the id is not in use.
OrderCreated(t, id) ==
    /\ pc[t] = "create"
    /\ Cardinality(OrderedItems) + Cardinality(wait[t].sent) <= MaxOrdered
    /\ id \notin DOMAIN orders
    /\ wait[t].id \in {Nothing, id}
    /\ orders' = [o \in DOMAIN orders \cup {id} |->
           IF o # id THEN orders[o]
           ELSE [status |-> "acknowledged", item |-> [i \in wait[t].sent |-> "open"]]]

\* The id of the answer replaces the one the object had, for all the tasks.
KeepCreated(id) == created' = TRUE /\ orderId' = id /\ UNCHANGED items

CreateReturns(t, id) ==
    /\ OrderCreated(t, id)
    /\ KeepCreated(id)
    /\ IF wait[t].target = Nothing THEN EndUntold(t)
       ELSE /\ Goto(t, "poll")
            /\ wait' = [wait EXCEPT ![t].id = id]
            /\ UNCHANGED expired
    /\ UNCHANGED calls

\* The reply gets lost: the order exists, the client does not know.
CreateReplyLost(t, id) ==
    /\ OrderCreated(t, id)
    /\ EndUntold(t)
    /\ UNCHANGED <<object, calls>>

\* wait_for_state, called on its own; without an order id it is a RuntimeError.  With
\* one that the scenario has chosen, the order need not be there yet.
WaitForState(t, target, bad) ==
    /\ NewCall(t)
    /\ orderId # Nothing
    /\ Goto(t, "poll")
    /\ wait' = [wait EXCEPT ![t] = [NoWait EXCEPT !.target = target, !.bad = bad, !.id = orderId]]
    /\ UNCHANGED <<orders, object, expired>>

\* Any request may be refused or fail.
RequestFails(t) ==
    /\ pc[t] \in {"create", "poll", "report"}
    /\ EndUntold(t)
    /\ UNCHANGED <<orders, object, calls>>

-----------------------------------------------------------------------------
\* One turn of wait_for_state: get, and what its reply decides.  A reply that
\* decides nothing before the timeout changes nothing: the task polls again.
Polls(t) == pc[t] = "poll" /\ orderId \in DOMAIN orders
Reply == orders[orderId]
Decide(t, verdict) == wait' = [wait EXCEPT ![t].order = Reply, ![t].verdict = verdict]

\* Mutant: any final status will do.
TargetReachedWhenDone(t) ==
    /\ Polls(t)
    /\ Reply.status \in Final \cup {wait[t].target}
    /\ Decide(t, "returned")
    /\ End(t)
    /\ UNCHANGED <<orders, object, calls>>

TargetReached(t) ==
    /\ Polls(t)
    /\ Reply.status = wait[t].target
    /\ Decide(t, "returned")
    /\ End(t)
    /\ UNCHANGED <<orders, object, calls>>

\* A bad state interrupts the wait, unless it is the one waited for.
BadStateReached(t) ==
    /\ Polls(t)
    /\ Reply.status # wait[t].target /\ Reply.status \in wait[t].bad
    /\ Decide(t, "BadOrderState")
    /\ Goto(t, "report")
    /\ UNCHANGED <<orders, object, expired, calls>>

\* Mutant: the deadline is never checked.
GiveUpNever(t) == FALSE /\ UNCHANGED vars
GiveUp(t) ==
    /\ Polls(t) /\ t \in expired
    /\ Reply.status \notin wait[t].bad \cup {wait[t].target}
    /\ Decide(t, "Timeout")
    /\ Goto(t, "report")
    /\ UNCHANGED <<orders, object, expired, calls>>

-----------------------------------------------------------------------------
\* Mutant: the failing items are those that are not done.
FailingItemsOpen(order) == {i \in DOMAIN order.item : order.item[i] = "open"}
FailingItems(order) == {i \in DOMAIN order.item : order.item[i] = "failed"}
PendingItems(order) == {i \in DOMAIN order.item : order.item[i] \notin {"completed", "failed"}}

\* log_failures asks for the order again: the reply is newer than the one the
\* verdict is about.  The diagnosis of an item fails on its own, and only then.
LogFailures(t) ==
    /\ pc[t] = "report"
    /\ wait' = [wait EXCEPT ![t].failing = FailingItems(orders[orderId])]
    /\ IF wait[t].verdict = "BadOrderState" THEN End(t)
       ELSE Goto(t, "pending") /\ UNCHANGED expired
    /\ UNCHANGED <<orders, object, calls>>

\* Mutant: the pending items are asked for once more.
LogPendingAgain(t) ==
    /\ pc[t] = "pending"
    /\ \/ wait' = [wait EXCEPT ![t].pending = PendingItems(orders[orderId])]
       \/ wait' = [wait EXCEPT ![t].unknown = TRUE]
    /\ End(t)
    /\ UNCHANGED <<orders, object, calls>>

\* _log_pending reports on the reply the verdict is about; its own failure is
\* not raised, and leaves the report empty.
LogPending(t) ==
    /\ pc[t] = "pending"
    /\ \/ wait' = [wait EXCEPT ![t].pending = PendingItems(wait[t].order)]
       \/ wait' = [wait EXCEPT ![t].unknown = TRUE]
    /\ End(t)
    /\ UNCHANGED <<orders, object, calls>>

\* What a task does by itself, with the requests that are refused: to create an order
\* whose id is in use, to get one that does not exist.
TaskStep(t) ==
    \/ \E id \in OrderIds : CreateReturns(t, id) \/ CreateReplyLost(t, id)
    \/ pc[t] \in {"create", "poll"} /\ ~Polls(t) /\ RequestFails(t)
    \/ TargetReached(t) \/ BadStateReached(t)
    \/ GiveUp(t) \/ LogFailures(t) \/ LogPending(t)

\* bad_states: the default, or none for the scenarios that handle failures.
BadStates(target) == {{"failed", "partial"} \ {target}, {}}

Next ==
    \/ \E id \in DOMAIN orders :
         \/ OrderStarts(id) \/ OrderEnds(id)
         \/ \E i \in Items, state \in {"completed", "failed"} : ItemDone(id, i, state)
    \/ \E t \in Tasks :
         \/ TaskStep(t) \/ RequestFails(t) \/ TimeElapses(t)
         \/ \E added \in Batches : AddItems(t, added)
         \/ \E target \in Targets : \E bad \in BadStates(target) :
              \/ WaitForState(t, target, bad)
              \/ \E given \in Batches \cup {{}} : Create(t, given, target, bad)
         \/ \E given \in Batches \cup {{}} : Create(t, given, Nothing, {})

\* A task that has something to do gets to run, its requests are answered and
\* time goes by; no request needs to fail, and the orchestrator has to do nothing.
Spec ==
    /\ Init /\ [][Next]_vars
    /\ \A t \in Tasks : WF_vars(TaskStep(t)) /\ WF_vars(TimeElapses(t))

-----------------------------------------------------------------------------
\* The types of the variables.
TypeOK ==
    /\ DOMAIN orders \subseteq OrderIds /\ orders \in [DOMAIN orders -> Orders]
    /\ items \subseteq Items
    /\ orderId \in OrderIds \cup {Nothing}
    /\ created \in BOOLEAN
    /\ created => orderId \in DOMAIN orders
    /\ pc \in [Tasks -> {"idle", "create", "poll", "report", "pending"}]
    /\ wait \in [Tasks -> Waits]
    /\ expired \subseteq Tasks
    /\ calls \in 0 .. MaxCalls

Ended(t, how) == pc[t] = "idle" /\ wait[t].verdict = how

\* The object has the id of the task's own order: no other create has been answered
\* since, for a request made while the task's own was on its way.
OwnOrder(t) == wait[t].id = orderId

\* When create returns with success, the orchestrator has completed every item the
\* order was created with, those of the helpers and those given: if the order that
\* was waited for is that one.
SuccessMeansDone ==
    \A t \in Tasks :
        Ended(t, "returned") /\ wait[t].target = "success" /\ OwnOrder(t) =>
            \A i \in wait[t].sent :
                /\ i \in DOMAIN orders[wait[t].id].item
                /\ orders[wait[t].id].item[i] = "completed"

\* An order that went into a bad state is reported with a failing item, although
\* the report is about a newer state of the order than the verdict.
BadStateIsExplained ==
    \A t \in Tasks : Ended(t, "BadOrderState") /\ OwnOrder(t) => wait[t].failing # {}

\* After a timeout, the two reports account for every item that was not completed,
\* although they are about two different states of the order.
TimeoutIsExplained ==
    \A t \in Tasks : Ended(t, "Timeout") /\ OwnOrder(t) /\ ~wait[t].unknown =>
        \A i \in DOMAIN wait[t].order.item :
            \/ wait[t].order.item[i] = "completed"
            \/ i \in wait[t].failing \cup wait[t].pending

\* A call always ends, at the latest when its timeout has elapsed.
CallsEnd == \A t \in Tasks : pc[t] # "idle" ~> pc[t] = "idle"
=============================================================================
