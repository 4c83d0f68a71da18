---------------------------- MODULE ScenarioProofs ----------------------------
(***************************************************************************)
(* What is proved of scenarios that run at the same time.  Of RemoteOrder, *)
(* for any tasks, items, order ids and number of calls: what a task has    *)
(* been told about the order stays true while the orchestrator and the     *)
(* other tasks go on with it.  Of Scenarios, for any number of them and    *)
(* any limit: what becomes of the slots of the runner (ScenarioPromises).  *)
(***************************************************************************)
EXTENDS RemoteOrder, ScenarioPromises, Sequences, FiniteSetTheorems, TLAPS

\* An order that exists stays, with its items, and so does what became of an item.
Progress ==
    \A id \in DOMAIN orders :
        /\ id \in DOMAIN orders'
        /\ DOMAIN orders'[id].item = DOMAIN orders[id].item
        /\ \A i \in DOMAIN orders[id].item :
              orders[id].item[i] # "open" => orders'[id].item[i] = orders[id].item[i]

\* The status of an order tells of its items.
Tells(order) ==
    /\ DOMAIN order.item # {}
    /\ order.status = "success" => \A i \in DOMAIN order.item : order.item[i] = "completed"
    /\ order.status \in {"partial", "failed"} => FailingItems(order) # {}

OrdersTell == \A id \in DOMAIN orders : Tells(orders[id])

\* A wait that has its verdict has it about an order.
Reported(t) ==
    pc[t] \in {"report", "pending"} => orderId \in DOMAIN orders /\ wait[t].order \in Orders

TypeInv == TypeOK /\ \A t \in Tasks : Reported(t)

\* What a task does with the order that it creates, or whose id it knows.
Underway(t) ==
    /\ pc[t] = "create" =>
          wait[t].sent # {} /\ (wait[t].id = orderId \/ orderId \in DOMAIN orders)
    /\ pc[t] = "poll" =>
          /\ wait[t].id # Nothing
          /\ wait[t].id \in DOMAIN orders \cup {orderId}
          /\ \/ wait[t].sent = {}
             \/ /\ wait[t].id \in DOMAIN orders
                /\ wait[t].sent \subseteq DOMAIN orders[wait[t].id].item
    /\ pc[t] \in {"create", "poll"} =>
          wait[t].verdict = "none" /\ wait[t].bad \subseteq {"partial", "failed"}
    /\ wait[t].verdict # "none" => wait[t].id \in DOMAIN orders

\* A report is about every item of the task's own order that had failed.
Reporting(t) ==
    /\ pc[t] \in {"report", "pending"} =>
          /\ wait[t].verdict \in {"BadOrderState", "Timeout"}
          /\ OwnOrder(t) => FailingItems(wait[t].order) \subseteq FailingItems(orders[wait[t].id])
          /\ wait[t].verdict = "BadOrderState" => FailingItems(wait[t].order) # {}
    /\ pc[t] = "pending" =>
          /\ wait[t].verdict = "Timeout"
          /\ OwnOrder(t) => FailingItems(wait[t].order) \subseteq wait[t].failing

\* What the task was told of its own order holds ever after.
Told(t) ==
    /\ Ended(t, "returned") /\ OwnOrder(t) =>
          /\ wait[t].sent \subseteq DOMAIN orders[wait[t].id].item
          /\ wait[t].target = "success" =>
                \A i \in DOMAIN orders[wait[t].id].item : orders[wait[t].id].item[i] = "completed"
    /\ Ended(t, "BadOrderState") /\ OwnOrder(t) => wait[t].failing # {}
    /\ Ended(t, "Timeout") /\ OwnOrder(t) /\ ~wait[t].unknown =>
          \A i \in DOMAIN wait[t].order.item :
              \/ wait[t].order.item[i] = "completed"
              \/ i \in wait[t].failing \cup wait[t].pending

TaskInv(t) == Underway(t) /\ Reporting(t) /\ Told(t)
OrderInv == TypeInv /\ OrdersTell /\ \A t \in Tasks : TaskInv(t)

-----------------------------------------------------------------------------
\* What an order is made of.
LEMMA OrderParts ==
    ASSUME NEW order \in Orders
    PROVE  /\ order.status \in Statuses
           /\ order.item \in [DOMAIN order.item -> ItemStates]
           /\ DOMAIN order.item \subseteq Items
<1>1. order.status \in Statuses
  BY DEF Orders
<1>2. PICK S \in SUBSET Items : order.item \in [S -> ItemStates]
  BY DEF Orders
<1> QED
  BY <1>1, <1>2

\* An order with an item or with its status changed is an order.
LEMMA OrderWithItem ==
    ASSUME NEW order \in Orders, NEW i \in DOMAIN order.item, NEW how \in ItemStates
    PROVE  [order EXCEPT !.item[i] = how] \in Orders
<1>1. PICK S \in SUBSET Items : order \in [status : Statuses, item : [S -> ItemStates]]
  BY DEF Orders
<1>2. [order EXCEPT !.item[i] = how] \in [status : Statuses, item : [S -> ItemStates]]
  BY <1>1
<1> QED
  BY <1>2 DEF Orders

LEMMA OrderWithStatus ==
    ASSUME NEW order \in Orders, NEW status \in Statuses
    PROVE  [order EXCEPT !.status = status] \in Orders
<1>1. PICK S \in SUBSET Items : order \in [status : Statuses, item : [S -> ItemStates]]
  BY DEF Orders
<1>2. [order EXCEPT !.status = status] \in [status : Statuses, item : [S -> ItemStates]]
  BY <1>1
<1> QED
  BY <1>2 DEF Orders

\* The failing items of an order stay while the orchestrator goes on with it.
LEMMA FailingStay ==
    ASSUME Progress, NEW id \in DOMAIN orders
    PROVE  FailingItems(orders[id]) \subseteq FailingItems(orders'[id])
BY DEF Progress, FailingItems

-----------------------------------------------------------------------------
\* The orchestrator goes on with an order.
Executes(id) ==
    OrderStarts(id) \/ OrderEnds(id)
    \/ \E i \in Items, how \in {"completed", "failed"} : ItemDone(id, i, how)

\* What the orchestrator makes of an order.
LEMMA ExecutesOrder ==
    ASSUME TypeOK, NEW id \in DOMAIN orders, Executes(id)
    PROVE  /\ \E order \in Orders :
                /\ orders' = [orders EXCEPT ![id] = order]
                /\ Tells(orders[id]) => Tells(order)
                /\ DOMAIN order.item = DOMAIN orders[id].item
                /\ \A i \in DOMAIN orders[id].item :
                      orders[id].item[i] # "open" => order.item[i] = orders[id].item[i]
           /\ UNCHANGED <<object, pc, wait, expired, calls>>
<1> DEFINE old == orders[id]
<1>1. /\ old \in Orders
      /\ old.status \in Statuses /\ old.item \in [DOMAIN old.item -> ItemStates]
  BY OrderParts DEF TypeOK
<1>2. CASE OrderStarts(id)
  <2> DEFINE order == [old EXCEPT !.status = "in_progress"]
  <2>1. order \in Orders
    BY <1>1, OrderWithStatus DEF Statuses
  <2>2. order.status = "in_progress" /\ order.item = old.item
    BY <1>1 DEF Orders
  <2>3. orders' = [orders EXCEPT ![id] = order]
    BY <1>2 DEF OrderStarts
  <2>4. Tells(old) => Tells(order)
    BY <1>1, <2>2 DEF Tells
  <2> QED
    BY <1>2, <2>1, <2>2, <2>3, <2>4 DEF OrderStarts
<1>3. ASSUME NEW i \in Items, NEW how \in {"completed", "failed"}, ItemDone(id, i, how)
      PROVE  /\ \E order \in Orders :
                /\ orders' = [orders EXCEPT ![id] = order]
                /\ Tells(old) => Tells(order)
                /\ DOMAIN order.item = DOMAIN old.item
                /\ \A j \in DOMAIN old.item : old.item[j] # "open" => order.item[j] = old.item[j]
           /\ UNCHANGED <<object, pc, wait, expired, calls>>
  <2> DEFINE order == [old EXCEPT !.item[i] = how]
  <2>1. /\ old.status = "in_progress" /\ i \in DOMAIN old.item /\ old.item[i] = "open"
        /\ orders' = [orders EXCEPT ![id].item[i] = how]
    BY <1>3 DEF ItemDone
  <2>2. order \in Orders
    BY <1>1, <2>1, OrderWithItem DEF ItemStates
  <2>3. order.status = "in_progress" /\ order.item = [old.item EXCEPT ![i] = how]
    BY <1>1, <2>1 DEF Orders
  <2>4. orders' = [orders EXCEPT ![id] = order]
    BY <2>1
  <2>5. DOMAIN order.item = DOMAIN old.item
    BY <1>1, <2>3
  <2>6. \A j \in DOMAIN old.item : old.item[j] # "open" => order.item[j] = old.item[j]
    BY <1>1, <2>1, <2>3
  <2>7. Tells(old) => Tells(order)
    BY <1>1, <2>3, <2>5 DEF Tells
  <2> QED
    BY <1>3, <2>2, <2>4, <2>5, <2>6, <2>7 DEF ItemDone
<1>4. CASE OrderEnds(id)
  <2> DEFINE states == {old.item[i] : i \in DOMAIN old.item}
             status == CASE states = {"completed"} -> "success"
                         [] states = {"failed"}    -> "failed"
                         [] OTHER                  -> "partial"
             order  == [old EXCEPT !.status = status]
  <2>1. "open" \notin states /\ orders' = [orders EXCEPT ![id].status = status]
    BY <1>4 DEF OrderEnds
  <2>2. status \in {"success", "failed", "partial"}
    BY Zenon
  <2>3. order \in Orders
    BY <1>1, <2>2, OrderWithStatus DEF Statuses, Final
  <2>4. order.status = status /\ order.item = old.item
    BY <1>1 DEF Orders
  <2>5. orders' = [orders EXCEPT ![id] = order]
    BY <2>1
  <2>6. status = "success" => \A i \in DOMAIN old.item : old.item[i] = "completed"
    <3>1. status = "success" => states = {"completed"}
      OBVIOUS
    <3> QED
      BY <3>1
  <2>7. Tells(old) /\ status \in {"failed", "partial"} => FailingItems(old) # {}
    <3> SUFFICES ASSUME Tells(old), FailingItems(old) = {} PROVE status = "success"
      BY <2>2
    <3>1. \A i \in DOMAIN old.item : old.item[i] = "completed"
      BY <1>1, <2>1 DEF FailingItems, ItemStates
    <3>2. states = {"completed"}
      BY <1>1, <3>1 DEF Tells
    <3> QED
      BY <3>2
  <2>8. Tells(old) => Tells(order)
    BY <1>1, <2>4, <2>6, <2>7 DEF Tells, FailingItems
  <2> QED
    BY <1>4, <2>3, <2>4, <2>5, <2>8 DEF OrderEnds
<1> QED
  BY <1>2, <1>3, <1>4 DEF Executes

\* What the record of a wait is made of.
LEMMA WaitParts ==
    ASSUME TypeOK, NEW t \in Tasks
    PROVE  /\ wait[t].target \in Statuses \cup {Nothing} /\ wait[t].bad \subseteq Statuses
           /\ wait[t].sent \subseteq Items /\ wait[t].id \in OrderIds \cup {Nothing}
           /\ wait[t].order \in Orders \cup {Nothing}
           /\ wait[t].verdict \in {"none", "returned", "BadOrderState", "Timeout"}
           /\ wait[t].failing \subseteq Items /\ wait[t].pending \subseteq Items
           /\ wait[t].unknown \in BOOLEAN
BY DEF TypeOK, Waits

\* The order is created: it has the items that the task has sent, all of them open.
LEMMA OrderCreatedOrder ==
    ASSUME TypeOK, NEW t \in Tasks, NEW id \in OrderIds, OrderCreated(t, id)
    PROVE  /\ Progress
           /\ wait[t].sent # {} /\ OrdersTell => OrdersTell'
           /\ DOMAIN orders' = DOMAIN orders \cup {id}
           /\ DOMAIN orders' \subseteq OrderIds /\ orders' \in [DOMAIN orders' -> Orders]
           /\ DOMAIN orders'[id].item = wait[t].sent
<1> DEFINE order == [status |-> "acknowledged", item |-> [i \in wait[t].sent |-> "open"]]
<1>1. /\ pc[t] = "create" /\ id \notin DOMAIN orders
      /\ orders' = [o \in DOMAIN orders \cup {id} |-> IF o # id THEN orders[o] ELSE order]
  BY DEF OrderCreated
<1>2. wait[t].sent \subseteq Items
  BY WaitParts
<1>3. order \in Orders
  <2>1. order.item \in [wait[t].sent -> ItemStates]
    BY DEF ItemStates
  <2>2. order \in [status : Statuses, item : [wait[t].sent -> ItemStates]]
    BY <2>1 DEF Statuses
  <2> QED
    BY <1>2, <2>2 DEF Orders
<1>4. /\ DOMAIN orders' = DOMAIN orders \cup {id}
      /\ orders'[id] = order
      /\ \A o \in DOMAIN orders : orders'[o] = orders[o]
  BY <1>1
<1>5. orders' \in [DOMAIN orders' -> Orders]
  BY <1>1, <1>2, <1>3 DEF TypeOK
<1>6. ASSUME wait[t].sent # {}, OrdersTell PROVE OrdersTell'
  <2>1. Tells(order)
    BY <1>6 DEF Tells
  <2>2. \A o \in DOMAIN orders' : Tells(orders'[o])
    BY <1>4, <1>6, <2>1 DEF OrdersTell
  <2> QED
    BY <2>2 DEF OrdersTell, Tells, FailingItems
<1>7. Progress
  BY <1>4 DEF Progress
<1> QED
  BY <1>2, <1>4, <1>5, <1>6, <1>7 DEF TypeOK

\* The wait of a task takes a decision on the order as it is.
LEMMA Decided ==
    ASSUME TypeOK, NEW t \in Tasks, Polls(t),
           NEW verdict \in {"returned", "BadOrderState", "Timeout"}, Decide(t, verdict)
    PROVE  /\ orderId \in DOMAIN orders /\ Reply \in Orders
           /\ wait' \in [Tasks -> Waits]
           /\ wait'[t].order = Reply /\ wait'[t].id = wait[t].id /\ wait'[t].verdict = verdict
           /\ wait'[t].target = wait[t].target /\ wait'[t].sent = wait[t].sent
           /\ \A other \in Tasks \ {t} : wait'[other] = wait[other]
<1>1. orderId \in DOMAIN orders /\ Reply \in Orders
  BY DEF TypeOK, Polls, Reply
<1> DEFINE new == [wait[t] EXCEPT !.order = Reply, !.verdict = verdict]
<1>2. wait \in [Tasks -> Waits] /\ wait[t] \in Waits
  BY DEF TypeOK
<1>3. wait' = [wait EXCEPT ![t] = new]
  BY <1>2 DEF Decide, Waits
<1>4. /\ new \in Waits
      /\ new.order = Reply /\ new.id = wait[t].id /\ new.verdict = verdict
      /\ new.target = wait[t].target /\ new.sent = wait[t].sent
  BY <1>1, <1>2 DEF Waits
<1> QED
  BY <1>1, <1>2, <1>3, <1>4

\* What a call may be given.
BadOnes(bad) == bad \subseteq {"partial", "failed"}
LEMMA BadStatesAreFinal ==
    ASSUME NEW target, NEW bad \in BadStates(target)
    PROVE  BadOnes(bad) /\ bad \subseteq Statuses
BY DEF BadStates, BadOnes, Statuses, Final

LEMMA NoWaitType == NoWait \in Waits
BY DEF NoWait, Waits, Statuses, Final

-----------------------------------------------------------------------------
\* The types.
\* A report makes a wait of a wait.
LEMMA LoggedType ==
    ASSUME TypeOK, NEW t \in Tasks, NEW failing \in SUBSET Items
    PROVE  /\ [wait EXCEPT ![t].failing = failing] \in [Tasks -> Waits]
           /\ [wait EXCEPT ![t].pending = failing] \in [Tasks -> Waits]
           /\ [wait EXCEPT ![t].unknown = TRUE] \in [Tasks -> Waits]
<1>1. wait \in [Tasks -> Waits] /\ wait[t] \in Waits
  BY DEF TypeOK
<1>2. /\ [wait[t] EXCEPT !.failing = failing] \in Waits
      /\ [wait[t] EXCEPT !.pending = failing] \in Waits
      /\ [wait[t] EXCEPT !.unknown = TRUE] \in Waits
  BY <1>1 DEF Waits
<1> QED
  BY <1>1, <1>2

\* A wait that gets its verdict, or has it, has it about an order.
LEMMA ReportedKeeps ==
    ASSUME TypeInv, DOMAIN orders \subseteq DOMAIN orders',
           \/ orderId' = orderId
           \/ orderId' \in DOMAIN orders',
           \A t \in Tasks : pc'[t] \in {"report", "pending"} =>
              \/ pc[t] \in {"report", "pending"} /\ wait'[t].order = wait[t].order
              \/ wait'[t].order \in Orders /\ orderId' \in DOMAIN orders'
    PROVE  \A t \in Tasks : Reported(t)'
<1> SUFFICES ASSUME NEW t \in Tasks, pc'[t] \in {"report", "pending"}
             PROVE  orderId' \in DOMAIN orders' /\ wait'[t].order \in Orders
  BY DEF Reported
<1>1. CASE pc[t] \in {"report", "pending"} /\ wait'[t].order = wait[t].order
  BY <1>1 DEF TypeInv, Reported
<1>2. CASE wait'[t].order \in Orders /\ orderId' \in DOMAIN orders'
  BY <1>2
<1> QED
  BY <1>1, <1>2

LEMMA TypeInit == Init => TypeInv
<1> SUFFICES ASSUME Init PROVE TypeInv
  OBVIOUS
<1>1. DOMAIN orders = {} /\ orders \in [DOMAIN orders -> Orders]
  BY DEF Init
<1>2. wait \in [Tasks -> Waits] /\ calls \in 0 .. MaxCalls
  BY NoWaitType, MaxCallsAssumption DEF Init
<1>3. created = FALSE /\ created \in BOOLEAN
  BY DEF Init
<1>4. \A t \in Tasks : Reported(t)
  BY DEF Init, Reported
<1>5. orderId \in OrderIds \cup {Nothing}
  BY ChosenIdsAssumption DEF Init
<1> QED
  BY <1>1, <1>2, <1>3, <1>4, <1>5 DEF Init, TypeInv, TypeOK

\* The types.
LEMMA TypeNext == TypeInv /\ [Next]_vars => TypeInv'
<1> SUFFICES ASSUME TypeInv, [Next]_vars PROVE TypeInv'
  OBVIOUS
<1> USE DEF object
<1>1. TypeOK
  BY DEF TypeInv
<1>2. ASSUME NEW id \in DOMAIN orders, Executes(id) PROVE TypeInv'
  <2>1. PICK order \in Orders : orders' = [orders EXCEPT ![id] = order]
    BY <1>1, <1>2, ExecutesOrder
  <2>2. UNCHANGED <<object, pc, wait, expired, calls>>
    BY <1>1, <1>2, ExecutesOrder
  <2>3. DOMAIN orders' = DOMAIN orders /\ \A t \in Tasks : Reported(t)'
    BY <2>1, <2>2, ReportedKeeps
  <2> QED
    BY <1>1, <2>1, <2>2, <2>3 DEF TypeInv, TypeOK
<1>3. ASSUME NEW t \in Tasks, NEW id \in OrderIds,
             CreateReturns(t, id) \/ CreateReplyLost(t, id)
      PROVE  TypeInv'
  <2>1. /\ DOMAIN orders' = DOMAIN orders \cup {id}
        /\ DOMAIN orders' \subseteq OrderIds /\ orders' \in [DOMAIN orders' -> Orders]
    BY <1>1, <1>3, OrderCreatedOrder DEF CreateReturns, CreateReplyLost
  <2>2. /\ UNCHANGED <<items, calls>> /\ expired' \subseteq expired /\ pc[t] = "create"
        /\ \/ UNCHANGED <<orderId, created>>
           \/ created' = TRUE /\ orderId' = id
    BY <1>3 DEF CreateReturns, CreateReplyLost, KeepCreated, OrderCreated, EndUntold, End
  <2>3. /\ \/ pc' = [pc EXCEPT ![t] = "idle"]
           \/ pc' = [pc EXCEPT ![t] = "poll"]
        /\ \/ wait' = [wait EXCEPT ![t].id = id]
           \/ wait' = [wait EXCEPT ![t] = NoWait]
    BY <1>3 DEF CreateReturns, CreateReplyLost, EndUntold, End, Goto
  <2>4. \A task \in Tasks : pc'[task] \in {"report", "pending"} =>
          pc'[task] = pc[task] /\ wait'[task] = wait[task]
    BY <1>1, <2>3 DEF TypeOK
  <2>5. \A task \in Tasks : Reported(task)'
    BY <2>1, <2>2, <2>4, ReportedKeeps
  <2>6. created' \in BOOLEAN /\ orderId' \in OrderIds \cup {Nothing}
    BY <1>1, <2>2 DEF TypeOK
  <2>7. created' => orderId' \in DOMAIN orders'
    BY <1>1, <2>1, <2>2 DEF TypeOK
  <2>8. pc' \in [Tasks -> {"idle", "create", "poll", "report", "pending"}]
    BY <1>1, <2>3 DEF TypeOK
  <2>9. wait' \in [Tasks -> Waits]
    BY <1>1, <2>3, NoWaitType DEF TypeOK, Waits
  <2> QED
    BY <1>1, <2>1, <2>2, <2>5, <2>6, <2>7, <2>8, <2>9 DEF TypeInv, TypeOK
<1>4. ASSUME NEW t \in Tasks, RequestFails(t) PROVE TypeInv'
  <2>1. /\ UNCHANGED <<orders, items, orderId, created, calls>> /\ expired' \subseteq expired
        /\ pc' = [pc EXCEPT ![t] = "idle"] /\ wait' = [wait EXCEPT ![t] = NoWait]
    BY <1>4 DEF RequestFails, EndUntold, End, Goto
  <2>2. \A task \in Tasks : pc'[task] \in {"report", "pending"} =>
          pc'[task] = pc[task] /\ wait'[task] = wait[task]
    BY <1>1, <2>1 DEF TypeOK
  <2>3. \A task \in Tasks : Reported(task)'
    BY <2>1, <2>2, ReportedKeeps
  <2> QED
    BY <1>1, <2>1, <2>3, NoWaitType DEF TypeInv, TypeOK
<1>5. ASSUME NEW t \in Tasks, NEW verdict \in {"returned", "BadOrderState", "Timeout"},
             Polls(t), Decide(t, verdict),
             UNCHANGED <<orders, object, calls>>, expired' \subseteq expired,
             \/ pc' = [pc EXCEPT ![t] = "idle"]
             \/ pc' = [pc EXCEPT ![t] = "report"]
      PROVE  TypeInv'
  <2>1. /\ orderId \in DOMAIN orders /\ wait' \in [Tasks -> Waits]
        /\ wait'[t].order \in Orders
        /\ \A other \in Tasks \ {t} : wait'[other] = wait[other]
    BY <1>1, <1>5, Decided
  <2>2. \A other \in Tasks \ {t} : pc'[other] = pc[other]
    BY <1>1, <1>5 DEF TypeOK
  <2>3. \A task \in Tasks : Reported(task)'
    BY <1>5, <2>1, <2>2, ReportedKeeps
  <2> QED
    BY <1>1, <1>5, <2>1, <2>3 DEF TypeInv, TypeOK
<1>6. ASSUME NEW t \in Tasks, TargetReached(t) \/ BadStateReached(t) \/ GiveUp(t)
      PROVE  TypeInv'
  BY <1>5, <1>6 DEF TargetReached, BadStateReached, GiveUp, End, Goto
<1>7. ASSUME NEW t \in Tasks, LogFailures(t) \/ LogPending(t) PROVE TypeInv'
  <2>1. /\ pc[t] \in {"report", "pending"}
        /\ orderId \in DOMAIN orders /\ orders[orderId] \in Orders /\ wait[t].order \in Orders
    BY <1>1, <1>7 DEF TypeInv, Reported, TypeOK, LogFailures, LogPending
  <2>2. /\ FailingItems(orders[orderId]) \subseteq Items
        /\ PendingItems(wait[t].order) \subseteq Items
    BY <2>1, OrderParts DEF FailingItems, PendingItems
  <2>3. /\ \/ wait' = [wait EXCEPT ![t].failing = FailingItems(orders[orderId])]
           \/ wait' = [wait EXCEPT ![t].pending = PendingItems(wait[t].order)]
           \/ wait' = [wait EXCEPT ![t].unknown = TRUE]
        /\ UNCHANGED <<orders, items, orderId, created, calls>> /\ expired' \subseteq expired
        /\ \/ pc' = [pc EXCEPT ![t] = "idle"]
           \/ pc' = [pc EXCEPT ![t] = "pending"]
    BY <1>7 DEF LogFailures, LogPending, End, Goto
  <2>4. wait' \in [Tasks -> Waits]
    <3>1. CASE wait' = [wait EXCEPT ![t].failing = FailingItems(orders[orderId])]
      BY <1>1, <2>2, <3>1, LoggedType
    <3>2. CASE wait' = [wait EXCEPT ![t].pending = PendingItems(wait[t].order)]
      BY <1>1, <2>2, <3>2, LoggedType
    <3>3. CASE wait' = [wait EXCEPT ![t].unknown = TRUE]
      BY <1>1, <2>2, <3>3, LoggedType
    <3> QED
      BY <2>3, <3>1, <3>2, <3>3
  <2>5. \A task \in Tasks :
          /\ wait'[task].order = wait[task].order
          /\ pc'[task] \in {"report", "pending"} => pc[task] \in {"report", "pending"}
    BY <1>1, <2>1, <2>3 DEF TypeOK, Waits
  <2>6. \A task \in Tasks : Reported(task)'
    BY <2>3, <2>5, ReportedKeeps
  <2> QED
    BY <1>1, <2>3, <2>4, <2>6 DEF TypeInv, TypeOK
<1>8. ASSUME NEW t \in Tasks, TimeElapses(t) \/ \E added \in Batches : AddItems(t, added)
      PROVE  TypeInv'
  <2>1. /\ UNCHANGED <<orders, orderId, created, pc, wait, calls>>
        /\ items' \subseteq Items /\ expired' \subseteq Tasks
    BY <1>1, <1>8, BatchesAssumption DEF TimeElapses, AddItems, TypeOK
  <2>2. \A task \in Tasks : Reported(task)'
    BY <2>1, ReportedKeeps
  <2> QED
    BY <1>1, <2>1, <2>2 DEF TypeInv, TypeOK
<1>9. ASSUME NEW t \in Tasks, NEW given \in SUBSET Items,
             NEW target \in Statuses \cup {Nothing}, NEW bad \in SUBSET Statuses,
             Create(t, given, target, bad) \/ WaitForState(t, target, bad)
      PROVE  TypeInv'
  <2>1. PICK asked \in Waits : wait' = [wait EXCEPT ![t] = asked]
    <3>1. CASE Create(t, given, target, bad)
      <4> DEFINE asked == [NoWait EXCEPT !.target = target, !.bad = bad,
                                         !.sent = items \cup given, !.id = orderId]
      <4>1. asked \in Waits
        BY <1>1, NoWaitType DEF TypeOK, Waits
      <4> QED
        BY <3>1, <4>1 DEF Create
    <3>2. CASE WaitForState(t, target, bad)
      <4> DEFINE asked == [NoWait EXCEPT !.target = target, !.bad = bad, !.id = orderId]
      <4>1. asked \in Waits
        BY <1>1, NoWaitType DEF TypeOK, Waits
      <4> QED
        BY <3>2, <4>1 DEF WaitForState
    <3> QED
      BY <1>9, <3>1, <3>2
  <2>2. /\ UNCHANGED <<orders, items, orderId, created, expired>>
        /\ calls < MaxCalls /\ calls' = calls + 1
        /\ \/ pc' = [pc EXCEPT ![t] = "create"]
           \/ pc' = [pc EXCEPT ![t] = "poll"]
    BY <1>9 DEF Create, WaitForState, NewCall, Goto
  <2>3. calls' \in 0 .. MaxCalls
    BY <1>1, <2>2, MaxCallsAssumption DEF TypeOK
  <2>4. \A task \in Tasks : pc'[task] \in {"report", "pending"} =>
          pc'[task] = pc[task] /\ wait'[task] = wait[task]
    BY <1>1, <2>1, <2>2 DEF TypeOK
  <2>5. \A task \in Tasks : Reported(task)'
    BY <2>2, <2>4, ReportedKeeps
  <2> QED
    BY <1>1, <2>1, <2>2, <2>3, <2>5 DEF TypeInv, TypeOK
<1>10. CASE UNCHANGED vars
  BY <1>10 DEF vars, TypeInv, TypeOK, Reported
<1>11. ASSUME NEW t \in Tasks, NEW target \in Targets, NEW bad \in BadStates(target),
              \/ WaitForState(t, target, bad)
              \/ \E given \in Batches \cup {{}} : Create(t, given, target, bad)
       PROVE  TypeInv'
  <2>1. target \in Statuses \cup {Nothing} /\ bad \in SUBSET Statuses
    BY BadStatesAreFinal, TargetsAssumption
  <2>2. {} \in SUBSET Items /\ Batches \cup {{}} \subseteq SUBSET Items
    BY BatchesAssumption
  <2> QED
    BY <1>9, <1>11, <2>1, <2>2
<1>12. ASSUME NEW t \in Tasks, NEW given \in Batches \cup {{}}, Create(t, given, Nothing, {})
       PROVE  TypeInv'
  <2>1. /\ Nothing \in Statuses \cup {Nothing} /\ {} \in SUBSET Statuses
        /\ given \in SUBSET Items
    BY BatchesAssumption
  <2> QED
    BY <1>9, <1>12, <2>1
<1>13. ASSUME NEW t \in Tasks, TaskStep(t) PROVE TypeInv'
  BY <1>3, <1>4, <1>6, <1>7, <1>13 DEF TaskStep
<1> QED
  BY <1>2, <1>4, <1>8, <1>10, <1>11, <1>12, <1>13 DEF Next, Executes

LEMMA TypeInvariant == Spec => []TypeInv
BY TypeInit, TypeNext, PTL DEF Spec

\* The orders, the object the tasks share, and what each task has got so far keep
\* their types, also when two tasks create the order at the same time.
THEOREM TypeCorrect == Spec => []TypeOK
<1>1. TypeInv => TypeOK
  BY DEF TypeInv
<1> QED
  BY <1>1, TypeInvariant, PTL

-----------------------------------------------------------------------------
\* The id of the order stays, or that of a new order replaces it: there was none, or
\* one that the orchestrator knows.
IdMoves ==
    \/ UNCHANGED orderId
    \/ /\ orderId = Nothing \/ orderId \in DOMAIN orders
       /\ orderId' \notin DOMAIN orders /\ orderId' \in DOMAIN orders'

\* A task that does nothing keeps what it has been told, whoever goes on with the order.
LEMMA TaskKeeps ==
    ASSUME TypeInv, Progress, IdMoves, NEW t \in Tasks, TaskInv(t),
           pc'[t] = pc[t], wait'[t] = wait[t]
    PROVE  TaskInv(t)'
<1>1. wait[t].id \in DOMAIN orders =>
        /\ wait[t].id \in DOMAIN orders'
        /\ DOMAIN orders'[wait[t].id].item = DOMAIN orders[wait[t].id].item
        /\ FailingItems(orders[wait[t].id]) \subseteq FailingItems(orders'[wait[t].id])
        /\ OwnOrder(t)' => OwnOrder(t)
  BY FailingStay DEF Progress, IdMoves, OwnOrder
<1>2. Underway(t)'
  <2>1. pc[t] = "create" => wait[t].id = orderId' \/ orderId' \in DOMAIN orders'
    BY DEF TaskInv, Underway, IdMoves, Progress
  <2>2. pc[t] = "poll" => wait[t].id \in DOMAIN orders' \cup {orderId'}
    BY DEF TaskInv, Underway, IdMoves, Progress
  <2> QED
    BY <1>1, <2>1, <2>2 DEF TaskInv, Underway
<1>3. Reporting(t)'
  <2>1. pc[t] \in {"report", "pending"} /\ OwnOrder(t)' =>
          FailingItems(wait[t].order) \subseteq FailingItems(orders[wait[t].id])'
    BY <1>1 DEF TaskInv, Underway, Reporting, FailingItems
  <2>2. FailingItems(wait[t].order)' = FailingItems(wait[t].order)
    BY DEF FailingItems
  <2>3. pc[t] = "pending" => wait[t].id \in DOMAIN orders
    BY DEF TaskInv, Underway, Reporting
  <2> QED
    BY <1>1, <2>1, <2>2, <2>3 DEF TaskInv, Reporting
<1>4. Told(t)'
  <2>1. wait[t].verdict # "none" => wait[t].id \in DOMAIN orders
    BY DEF TaskInv, Underway
  <2>2. Ended(t, "returned") /\ OwnOrder(t)' =>
          /\ wait[t].sent \subseteq DOMAIN orders'[wait[t].id].item
          /\ wait[t].target = "success" =>
                \A i \in DOMAIN orders'[wait[t].id].item :
                    orders'[wait[t].id].item[i] = "completed"
    BY <1>1, <2>1 DEF TaskInv, Told, Progress, Ended
  <2>3. \A how : Ended(t, how)' = Ended(t, how)
    BY DEF Ended
  <2>4. \A how \in {"BadOrderState", "Timeout"} :
          Ended(t, how) /\ OwnOrder(t)' => OwnOrder(t)
    BY <1>1, <2>1 DEF Ended
  <2> QED
    BY <2>2, <2>3, <2>4 DEF TaskInv, Told
<1> QED
  BY <1>2, <1>3, <1>4 DEF TaskInv

LEMMA OrchestratorStep ==
    ASSUME OrderInv, TypeInv', NEW id \in DOMAIN orders, Executes(id)
    PROVE  OrderInv'
<1> TypeOK /\ Tells(orders[id])
  BY DEF OrderInv, TypeInv, OrdersTell
<1>1. PICK order \in Orders :
        /\ orders' = [orders EXCEPT ![id] = order]
        /\ Tells(order)
        /\ DOMAIN order.item = DOMAIN orders[id].item
        /\ \A i \in DOMAIN orders[id].item :
              orders[id].item[i] # "open" => order.item[i] = orders[id].item[i]
  BY ExecutesOrder
<1>2. UNCHANGED <<object, pc, wait, expired, calls>>
  BY ExecutesOrder
<1>3. /\ DOMAIN orders' = DOMAIN orders /\ orders'[id] = order
      /\ \A other \in DOMAIN orders : other # id => orders'[other] = orders[other]
  BY <1>1
<1>4. Progress
  BY <1>1, <1>3 DEF Progress
<1>5. OrdersTell'
  <2>1. \A other \in DOMAIN orders' : Tells(orders'[other])
    BY <1>1, <1>3 DEF OrderInv, OrdersTell
  <2> QED
    BY <2>1 DEF OrdersTell, Tells, FailingItems
<1>6. IdMoves
  BY <1>2 DEF IdMoves, object
<1>7. \A t \in Tasks : TaskInv(t)'
  BY <1>2, <1>4, <1>6, TaskKeeps DEF OrderInv
<1> QED
  BY <1>5, <1>7 DEF OrderInv

-----------------------------------------------------------------------------
\* A step of one task leaves what the others know true.
LEMMA OthersKeep ==
    ASSUME OrderInv, NEW t \in Tasks, Progress, IdMoves, TaskInv(t)',
           \A other \in Tasks \ {t} : pc'[other] = pc[other] /\ wait'[other] = wait[other]
    PROVE  \A task \in Tasks : TaskInv(task)'
<1> SUFFICES ASSUME NEW other \in Tasks \ {t} PROVE TaskInv(other)'
  OBVIOUS
<1>1. TypeInv /\ TaskInv(other)
  BY DEF OrderInv
<1> QED
  BY <1>1, TaskKeeps

\* The orders are left alone.
LEMMA NoProgress ==
    ASSUME OrdersTell, UNCHANGED <<orders, orderId>>
    PROVE  Progress /\ IdMoves /\ OrdersTell'
BY DEF Progress, IdMoves, OrdersTell, Tells, FailingItems

\* A task that has not been told anything has nothing to keep.
LEMMA UntoldTask ==
    ASSUME NEW t \in Tasks, pc'[t] = "idle", wait'[t] = NoWait
    PROVE  TaskInv(t)'
<1>1. wait'[t].verdict = "none"
  BY DEF NoWait
<1> QED
  BY <1>1 DEF TaskInv, Underway, Reporting, Told, Ended

-----------------------------------------------------------------------------
\* The calls of a task.
LEMMA QuietStep ==
    ASSUME OrderInv, TypeInv', UNCHANGED <<orders, orderId, pc, wait>>
    PROVE  OrderInv'
<1>1. Progress /\ IdMoves /\ OrdersTell'
  BY NoProgress DEF OrderInv
<1>2. \A task \in Tasks : TaskInv(task)'
  BY <1>1, TaskKeeps DEF OrderInv
<1> QED
  BY <1>1, <1>2 DEF OrderInv

LEMMA CreateStep ==
    ASSUME OrderInv, TypeInv', NEW t \in Tasks, NEW given \in SUBSET Items,
           NEW target \in Statuses \cup {Nothing}, NEW bad \in SUBSET Statuses, BadOnes(bad),
           Create(t, given, target, bad)
    PROVE  OrderInv'
<1> DEFINE asked == [NoWait EXCEPT !.target = target, !.bad = bad,
                                   !.sent = items \cup given, !.id = orderId]
<1>1. /\ UNCHANGED <<orders, orderId>>
      /\ pc' = [pc EXCEPT ![t] = "create"] /\ wait' = [wait EXCEPT ![t] = asked]
      /\ items \cup given # {}
  BY DEF Create, NewCall, Goto, object
<1>2. /\ asked.sent = items \cup given /\ asked.id = orderId
      /\ asked.verdict = "none" /\ asked.bad = bad
  BY DEF NoWait
<1>3. /\ pc \in [Tasks -> {"idle", "create", "poll", "report", "pending"}]
      /\ wait \in [Tasks -> Waits]
  BY DEF OrderInv, TypeInv, TypeOK
<1>4. /\ pc'[t] = "create" /\ wait'[t] = asked
      /\ \A other \in Tasks \ {t} : pc'[other] = pc[other] /\ wait'[other] = wait[other]
  BY <1>1, <1>3
<1>5. Progress /\ IdMoves /\ OrdersTell'
  BY <1>1, NoProgress DEF OrderInv
<1>6. TaskInv(t)'
  BY <1>1, <1>2, <1>4 DEF TaskInv, Underway, Reporting, Told, Ended, BadOnes
<1>7. \A task \in Tasks : TaskInv(task)'
  BY <1>4, <1>5, <1>6, OthersKeep
<1> QED
  BY <1>5, <1>7 DEF OrderInv

LEMMA WaitForStateStep ==
    ASSUME OrderInv, TypeInv', NEW t \in Tasks,
           NEW target \in Statuses, NEW bad \in SUBSET Statuses, BadOnes(bad),
           WaitForState(t, target, bad)
    PROVE  OrderInv'
<1> DEFINE asked == [NoWait EXCEPT !.target = target, !.bad = bad, !.id = orderId]
<1>1. /\ UNCHANGED <<orders, orderId>>
      /\ pc' = [pc EXCEPT ![t] = "poll"] /\ wait' = [wait EXCEPT ![t] = asked]
      /\ orderId # Nothing
  BY DEF WaitForState, NewCall, Goto, object
<1>2. asked.sent = {} /\ asked.verdict = "none" /\ asked.bad = bad /\ asked.id = orderId
  BY DEF NoWait
<1>3. /\ pc \in [Tasks -> {"idle", "create", "poll", "report", "pending"}]
      /\ wait \in [Tasks -> Waits]
  BY DEF OrderInv, TypeInv, TypeOK
<1>4. /\ pc'[t] = "poll" /\ wait'[t] = asked
      /\ \A other \in Tasks \ {t} : pc'[other] = pc[other] /\ wait'[other] = wait[other]
  BY <1>1, <1>3
<1>5. Progress /\ IdMoves /\ OrdersTell'
  BY <1>1, NoProgress DEF OrderInv
<1>6. TaskInv(t)'
  BY <1>1, <1>2, <1>4 DEF TaskInv, Underway, Reporting, Told, Ended, BadOnes
<1>7. \A task \in Tasks : TaskInv(task)'
  BY <1>4, <1>5, <1>6, OthersKeep
<1> QED
  BY <1>5, <1>7 DEF OrderInv

LEMMA RequestFailsStep ==
    ASSUME OrderInv, TypeInv', NEW t \in Tasks, RequestFails(t)
    PROVE  OrderInv'
<1>1. /\ UNCHANGED <<orders, orderId>>
      /\ pc' = [pc EXCEPT ![t] = "idle"] /\ wait' = [wait EXCEPT ![t] = NoWait]
  BY DEF RequestFails, EndUntold, End, Goto, object
<1>2. /\ pc'[t] = "idle" /\ wait'[t] = NoWait
      /\ \A other \in Tasks \ {t} : pc'[other] = pc[other] /\ wait'[other] = wait[other]
  BY <1>1 DEF OrderInv, TypeInv, TypeOK
<1>3. Progress /\ IdMoves /\ OrdersTell'
  BY <1>1, NoProgress DEF OrderInv
<1>4. TaskInv(t)'
  BY <1>2, UntoldTask
<1>5. \A task \in Tasks : TaskInv(task)'
  BY <1>2, <1>3, <1>4, OthersKeep
<1> QED
  BY <1>3, <1>5 DEF OrderInv

-----------------------------------------------------------------------------
LEMMA CreateReplyLostStep ==
    ASSUME OrderInv, TypeInv', NEW t \in Tasks, NEW id \in OrderIds, CreateReplyLost(t, id)
    PROVE  OrderInv'
<1>1. /\ OrderCreated(t, id) /\ UNCHANGED orderId
      /\ pc' = [pc EXCEPT ![t] = "idle"] /\ wait' = [wait EXCEPT ![t] = NoWait]
  BY DEF CreateReplyLost, EndUntold, End, Goto, object
<1>2. TypeOK
  BY DEF OrderInv, TypeInv
<1>3. /\ pc'[t] = "idle" /\ wait'[t] = NoWait
      /\ \A other \in Tasks \ {t} : pc'[other] = pc[other] /\ wait'[other] = wait[other]
  BY <1>1, <1>2 DEF TypeOK
<1>4. Progress /\ OrdersTell'
  <2>1. wait[t].sent # {} /\ OrdersTell
    BY <1>1 DEF OrderInv, TaskInv, Underway, OrderCreated
  <2> QED
    BY <1>1, <1>2, <2>1, OrderCreatedOrder
<1>5. TaskInv(t)'
  BY <1>3, UntoldTask
<1>6. \A task \in Tasks : TaskInv(task)'
  BY <1>1, <1>3, <1>4, <1>5, OthersKeep DEF IdMoves
<1> QED
  BY <1>4, <1>6 DEF OrderInv

LEMMA CreateReturnsStep ==
    ASSUME OrderInv, TypeInv', NEW t \in Tasks, NEW id \in OrderIds, CreateReturns(t, id)
    PROVE  OrderInv'
<1>1. /\ OrderCreated(t, id) /\ pc[t] = "create" /\ orderId' = id
      /\ id \notin DOMAIN orders /\ wait[t].id \in {Nothing, id}
  BY DEF CreateReturns, KeepCreated, OrderCreated
<1>2. \/ pc' = [pc EXCEPT ![t] = "idle"] /\ wait' = [wait EXCEPT ![t] = NoWait]
      \/ pc' = [pc EXCEPT ![t] = "poll"] /\ wait' = [wait EXCEPT ![t].id = id]
  BY DEF CreateReturns, EndUntold, End, Goto
<1>3. TypeOK /\ TaskInv(t) /\ wait[t] \in Waits
  BY DEF OrderInv, TypeInv, TypeOK
<1>4. \A other \in Tasks \ {t} : pc'[other] = pc[other] /\ wait'[other] = wait[other]
  BY <1>2, <1>3 DEF TypeOK
<1>5. wait[t].sent # {} /\ OrdersTell
  BY <1>1 DEF OrderInv, TaskInv, Underway
<1>6. Progress /\ OrdersTell'
  BY <1>1, <1>3, <1>5, OrderCreatedOrder
<1>7. DOMAIN orders' = DOMAIN orders \cup {id} /\ DOMAIN orders'[id].item = wait[t].sent
  BY <1>1, <1>3, OrderCreatedOrder
<1>8. IdMoves
  BY <1>1, <1>3, <1>7 DEF TaskInv, Underway, IdMoves
<1>9. TaskInv(t)'
  <2>1. CASE pc' = [pc EXCEPT ![t] = "idle"] /\ wait' = [wait EXCEPT ![t] = NoWait]
    BY <1>3, <2>1, UntoldTask DEF TypeOK
  <2>2. CASE pc' = [pc EXCEPT ![t] = "poll"] /\ wait' = [wait EXCEPT ![t].id = id]
    <3>1. /\ pc'[t] = "poll" /\ wait'[t].id = id /\ wait'[t].sent = wait[t].sent
          /\ wait'[t].verdict = wait[t].verdict /\ wait'[t].bad = wait[t].bad
      BY <1>3, <2>2 DEF TypeOK, Waits
    <3>2. wait[t].verdict = "none" /\ wait[t].bad \subseteq {"partial", "failed"}
      BY <1>1, <1>3 DEF TaskInv, Underway
    <3>3. Underway(t)'
      BY <1>1, <1>7, <3>1, <3>2, NothingAssumption DEF Underway
    <3> QED
      BY <3>1, <3>3 DEF TaskInv, Reporting, Told, Ended
  <2> QED
    BY <1>2, <2>1, <2>2
<1>10. \A task \in Tasks : TaskInv(task)'
  BY <1>4, <1>6, <1>8, <1>9, OthersKeep
<1> QED
  BY <1>6, <1>10 DEF OrderInv

-----------------------------------------------------------------------------
LEMMA TargetReachedStep ==
    ASSUME OrderInv, TypeInv', NEW t \in Tasks, TargetReached(t)
    PROVE  OrderInv'
<1>1. /\ Polls(t) /\ pc[t] = "poll" /\ Reply.status = wait[t].target /\ Decide(t, "returned")
      /\ UNCHANGED <<orders, orderId>> /\ pc' = [pc EXCEPT ![t] = "idle"]
  BY DEF TargetReached, Polls, End, Goto, object
<1>2. TypeOK /\ TaskInv(t)
  BY DEF OrderInv, TypeInv
<1>3. /\ orderId \in DOMAIN orders
      /\ wait'[t].id = wait[t].id /\ wait'[t].verdict = "returned"
      /\ wait'[t].target = wait[t].target /\ wait'[t].sent = wait[t].sent
      /\ \A other \in Tasks \ {t} : wait'[other] = wait[other]
  BY <1>1, <1>2, Decided
<1>4. pc'[t] = "idle" /\ \A other \in Tasks \ {t} : pc'[other] = pc[other]
  BY <1>1, <1>2 DEF TypeOK
<1>5. Progress /\ IdMoves /\ OrdersTell' /\ Tells(Reply)
  BY <1>1, <1>3, NoProgress DEF OrderInv, OrdersTell, Reply
<1>6. wait[t].id \in DOMAIN orders
  BY <1>1, <1>2, <1>3 DEF TaskInv, Underway
<1>7. TaskInv(t)'
  <2>1. wait[t].id = orderId =>
          /\ wait[t].sent \subseteq DOMAIN orders[wait[t].id].item
          /\ wait[t].target = "success" =>
              \A i \in DOMAIN orders[wait[t].id].item : orders[wait[t].id].item[i] = "completed"
    BY <1>1, <1>2, <1>5 DEF TaskInv, Underway, Tells, Reply
  <2>2. Underway(t)' /\ Reporting(t)'
    BY <1>1, <1>3, <1>4, <1>6 DEF Underway, Reporting
  <2>3. Told(t)'
    BY <1>1, <1>3, <1>4, <2>1 DEF Told, Ended, OwnOrder
  <2> QED
    BY <2>2, <2>3 DEF TaskInv
<1>8. \A task \in Tasks : TaskInv(task)'
  BY <1>3, <1>4, <1>5, <1>7, OthersKeep
<1> QED
  BY <1>5, <1>8 DEF OrderInv

\* BadStateReached and GiveUp: the verdict is to be reported.
LEMMA ToBeReported ==
    ASSUME OrderInv, TypeInv', NEW t \in Tasks, Polls(t),
           NEW verdict \in {"BadOrderState", "Timeout"}, Decide(t, verdict), Goto(t, "report"),
           verdict = "BadOrderState" => Reply.status \in wait[t].bad,
           UNCHANGED <<orders, orderId>>
    PROVE  OrderInv'
<1>1. pc' = [pc EXCEPT ![t] = "report"] /\ pc[t] = "poll"
  BY DEF Goto, Polls
<1>2. TypeOK /\ TaskInv(t)
  BY DEF OrderInv, TypeInv
<1>3. /\ orderId \in DOMAIN orders
      /\ wait'[t].order = Reply /\ wait'[t].verdict = verdict /\ wait'[t].id = wait[t].id
      /\ \A other \in Tasks \ {t} : wait'[other] = wait[other]
  BY <1>2, Decided
<1>4. pc'[t] = "report" /\ \A other \in Tasks \ {t} : pc'[other] = pc[other]
  BY <1>1, <1>2 DEF TypeOK
<1>5. Progress /\ IdMoves /\ OrdersTell' /\ Tells(Reply)
  BY <1>3, NoProgress DEF OrderInv, OrdersTell, Reply
<1>6. wait[t].id \in DOMAIN orders
  BY <1>1, <1>2, <1>3 DEF TaskInv, Underway
<1>7. TaskInv(t)'
  <2>1. verdict = "BadOrderState" => FailingItems(Reply) # {}
    BY <1>1, <1>2, <1>5 DEF TaskInv, Underway, Tells
  <2>2. FailingItems(wait[t].order)' = FailingItems(Reply)
    BY <1>3 DEF FailingItems
  <2>3. OwnOrder(t)' => FailingItems(orders[wait[t].id])' = FailingItems(Reply)
    BY <1>3 DEF OwnOrder, FailingItems, Reply
  <2>4. Reporting(t)'
    BY <1>3, <1>4, <2>1, <2>2, <2>3 DEF Reporting
  <2>5. Underway(t)' /\ Told(t)'
    BY <1>3, <1>4, <1>6 DEF Underway, Told, Ended
  <2> QED
    BY <2>4, <2>5 DEF TaskInv
<1>8. \A task \in Tasks : TaskInv(task)'
  BY <1>3, <1>4, <1>5, <1>7, OthersKeep
<1> QED
  BY <1>5, <1>8 DEF OrderInv

-----------------------------------------------------------------------------
\* The report of a failed wait.
LEMMA LogFailuresStep ==
    ASSUME OrderInv, TypeInv', NEW t \in Tasks, LogFailures(t)
    PROVE  OrderInv'
<1> DEFINE new == [wait[t] EXCEPT !.failing = FailingItems(orders[orderId])]
<1>1. /\ pc[t] = "report" /\ wait' = [wait EXCEPT ![t] = new]
      /\ UNCHANGED <<orders, orderId>>
      /\ \/ wait[t].verdict = "BadOrderState" /\ pc' = [pc EXCEPT ![t] = "idle"]
         \/ wait[t].verdict # "BadOrderState" /\ pc' = [pc EXCEPT ![t] = "pending"]
  BY DEF LogFailures, End, Goto, object
<1>2. TypeOK /\ TaskInv(t)
  BY DEF OrderInv, TypeInv
<1>3. orderId \in DOMAIN orders /\ orders[orderId] \in Orders
  BY <1>1, <1>2 DEF OrderInv, TypeInv, Reported, TypeOK
<1>4. FailingItems(orders[orderId]) \subseteq Items
  BY <1>3, OrderParts DEF FailingItems
<1>5. /\ new \in Waits /\ new.failing = FailingItems(orders[orderId]) /\ new.id = wait[t].id
      /\ new.order = wait[t].order /\ new.verdict = wait[t].verdict
  BY <1>2, <1>4 DEF TypeOK, Waits
<1>6. wait'[t] = new /\ \A other \in Tasks \ {t} : wait'[other] = wait[other]
  BY <1>1, <1>2, <1>5 DEF TypeOK
<1>7. /\ pc'[t] \in {"idle", "pending"}
      /\ pc'[t] = "idle" => wait[t].verdict = "BadOrderState"
      /\ pc'[t] = "pending" => wait[t].verdict # "BadOrderState"
      /\ \A other \in Tasks \ {t} : pc'[other] = pc[other]
  BY <1>1, <1>2 DEF TypeOK
<1>8. Progress /\ IdMoves /\ OrdersTell'
  BY <1>1, NoProgress DEF OrderInv
<1>9. /\ wait[t].verdict \in {"BadOrderState", "Timeout"}
      /\ wait[t].id = orderId => FailingItems(wait[t].order) \subseteq FailingItems(orders[orderId])
      /\ wait[t].verdict = "BadOrderState" => FailingItems(wait[t].order) # {}
      /\ wait[t].id \in DOMAIN orders
  BY <1>1, <1>2 DEF TaskInv, Underway, Reporting, OwnOrder
<1>10. TaskInv(t)'
  <2>1. FailingItems(wait[t].order)' = FailingItems(wait[t].order)
    BY <1>5, <1>6 DEF FailingItems
  <2>2. FailingItems(orders[wait[t].id])' = FailingItems(orders[wait[t].id])
    BY <1>1, <1>5, <1>6 DEF FailingItems
  <2>3. OwnOrder(t)' => wait[t].id = orderId
    BY <1>1, <1>5, <1>6 DEF OwnOrder
  <2>4. Underway(t)'
    BY <1>1, <1>5, <1>6, <1>7, <1>9 DEF Underway
  <2>5. Reporting(t)'
    BY <1>5, <1>6, <1>7, <1>9, <2>1, <2>2, <2>3 DEF Reporting
  <2>6. Told(t)'
    BY <1>5, <1>6, <1>7, <1>9, <2>3 DEF Told, Ended
  <2> QED
    BY <2>4, <2>5, <2>6 DEF TaskInv
<1>11. \A task \in Tasks : TaskInv(task)'
  BY <1>6, <1>7, <1>8, <1>10, OthersKeep
<1> QED
  BY <1>8, <1>11 DEF OrderInv

LEMMA LogPendingStep ==
    ASSUME OrderInv, TypeInv', NEW t \in Tasks, LogPending(t)
    PROVE  OrderInv'
<1> DEFINE pendingOnes == PendingItems(wait[t].order)
<1>1. /\ pc[t] = "pending" /\ UNCHANGED <<orders, orderId>>
      /\ pc' = [pc EXCEPT ![t] = "idle"]
      /\ \/ wait' = [wait EXCEPT ![t].pending = pendingOnes]
         \/ wait' = [wait EXCEPT ![t].unknown = TRUE]
  BY DEF LogPending, End, Goto, object
<1>2. /\ TypeOK /\ wait \in [Tasks -> Waits] /\ wait[t] \in Waits
      /\ wait[t].order \in Orders /\ wait[t].verdict = "Timeout"
      /\ wait[t].id \in DOMAIN orders
      /\ wait[t].id = orderId => FailingItems(wait[t].order) \subseteq wait[t].failing
  BY <1>1 DEF OrderInv, TypeInv, TypeOK, Reported, TaskInv, Underway, Reporting, OwnOrder
<1>3. /\ wait[t].order.item \in [DOMAIN wait[t].order.item -> ItemStates]
      /\ DOMAIN wait[t].order.item \subseteq Items
  BY <1>2, OrderParts
<1>4. pendingOnes \subseteq Items
  BY <1>3 DEF PendingItems
<1>5. PICK new \in Waits :
        /\ wait' = [wait EXCEPT ![t] = new]
        /\ new.order = wait[t].order /\ new.verdict = "Timeout" /\ new.failing = wait[t].failing
        /\ new.id = wait[t].id
        /\ new.unknown \/ new.pending = pendingOnes
  <2>1. CASE wait' = [wait EXCEPT ![t].pending = pendingOnes]
    <3> DEFINE new == [wait[t] EXCEPT !.pending = pendingOnes]
    <3>1. new \in Waits
      BY <1>2, <1>4 DEF Waits
    <3>2. /\ new.order = wait[t].order /\ new.verdict = "Timeout" /\ new.id = wait[t].id
          /\ new.failing = wait[t].failing /\ new.pending = pendingOnes
      BY <1>2 DEF Waits
    <3> QED
      BY <2>1, <3>1, <3>2
  <2>2. CASE wait' = [wait EXCEPT ![t].unknown = TRUE]
    <3> DEFINE new == [wait[t] EXCEPT !.unknown = TRUE]
    <3>1. new \in Waits
      BY <1>2 DEF Waits
    <3>2. /\ new.order = wait[t].order /\ new.verdict = "Timeout" /\ new.id = wait[t].id
          /\ new.failing = wait[t].failing /\ new.unknown
      BY <1>2 DEF Waits
    <3> QED
      BY <2>2, <3>1, <3>2
  <2> QED
    BY <1>1, <2>1, <2>2
<1>6. wait'[t] = new /\ \A other \in Tasks \ {t} : wait'[other] = wait[other]
  BY <1>2, <1>5
<1>7. pc'[t] = "idle" /\ \A other \in Tasks \ {t} : pc'[other] = pc[other]
  BY <1>1, <1>2 DEF TypeOK
<1>8. Progress /\ IdMoves /\ OrdersTell'
  BY <1>1, NoProgress DEF OrderInv
<1>9. TaskInv(t)'
  <2>1. wait[t].id = orderId /\ ~new.unknown => \A i \in DOMAIN new.order.item :
          new.order.item[i] = "completed" \/ i \in new.failing \cup new.pending
    BY <1>2, <1>3, <1>5 DEF FailingItems, PendingItems, ItemStates
  <2>2. OwnOrder(t)' => wait[t].id = orderId
    BY <1>1, <1>5, <1>6 DEF OwnOrder
  <2>3. Underway(t)' /\ Reporting(t)'
    BY <1>1, <1>2, <1>5, <1>6, <1>7 DEF Underway, Reporting
  <2>4. Told(t)'
    BY <1>5, <1>6, <1>7, <2>1, <2>2 DEF Told, Ended
  <2> QED
    BY <2>3, <2>4 DEF TaskInv
<1>10. \A task \in Tasks : TaskInv(task)'
  BY <1>6, <1>7, <1>8, <1>9, OthersKeep
<1> QED
  BY <1>8, <1>10 DEF OrderInv

-----------------------------------------------------------------------------
\* Before the first call there is no order, and no task has been told anything.
LEMMA InitInv == Init => OrderInv
<1> SUFFICES ASSUME Init PROVE OrderInv
  OBVIOUS
<1>1. TypeInv
  BY TypeInit
<1>2. OrdersTell
  BY DEF Init, OrdersTell
<1>3. \A t \in Tasks : wait[t].verdict = "none" /\ pc[t] = "idle"
  BY DEF Init, NoWait
<1>4. \A t \in Tasks : TaskInv(t)
  BY <1>3 DEF TaskInv, Underway, Reporting, Told, Ended
<1> QED
  BY <1>1, <1>2, <1>4 DEF OrderInv

\* Every step of the tasks and of the orchestrator keeps the invariant.
LEMMA NextInv == OrderInv /\ [Next]_vars => OrderInv'
<1> SUFFICES ASSUME OrderInv, [Next]_vars PROVE OrderInv'
  OBVIOUS
<1> TypeInv'
  BY TypeNext DEF OrderInv
<1>1. ASSUME NEW id \in DOMAIN orders, Executes(id) PROVE OrderInv'
  BY <1>1, OrchestratorStep
<1>2. ASSUME NEW t \in Tasks, TaskStep(t) PROVE OrderInv'
  <2>1. ASSUME NEW id \in OrderIds, CreateReturns(t, id) PROVE OrderInv'
    BY <2>1, CreateReturnsStep
  <2>2. ASSUME NEW id \in OrderIds, CreateReplyLost(t, id) PROVE OrderInv'
    BY <2>2, CreateReplyLostStep
  <2>3. CASE RequestFails(t)
    BY <2>3, RequestFailsStep
  <2>4. CASE TargetReached(t)
    BY <2>4, TargetReachedStep
  <2>5. CASE BadStateReached(t)
    <3>1. /\ Polls(t) /\ Decide(t, "BadOrderState") /\ Goto(t, "report")
          /\ Reply.status \in wait[t].bad /\ UNCHANGED <<orders, orderId>>
      BY <2>5 DEF BadStateReached, object
    <3> QED
      BY <3>1, ToBeReported
  <2>6. CASE GiveUp(t)
    <3>1. /\ Polls(t) /\ Decide(t, "Timeout") /\ Goto(t, "report")
          /\ UNCHANGED <<orders, orderId>>
      BY <2>6 DEF GiveUp, object
    <3> QED
      BY <3>1, ToBeReported
  <2>7. CASE LogFailures(t)
    BY <2>7, LogFailuresStep
  <2>8. CASE LogPending(t)
    BY <2>8, LogPendingStep
  <2> QED
    BY <1>2, <2>1, <2>2, <2>3, <2>4, <2>5, <2>6, <2>7, <2>8 DEF TaskStep
<1>3. ASSUME NEW t \in Tasks, RequestFails(t) PROVE OrderInv'
  BY <1>3, RequestFailsStep
<1>4. ASSUME NEW t \in Tasks, TimeElapses(t) PROVE OrderInv'
  BY <1>4, QuietStep DEF TimeElapses, object
<1>5. ASSUME NEW t \in Tasks, NEW added \in Batches, AddItems(t, added) PROVE OrderInv'
  BY <1>5, QuietStep DEF AddItems
<1>6. ASSUME NEW t \in Tasks, NEW target \in Targets, NEW bad \in BadStates(target),
             WaitForState(t, target, bad)
      PROVE  OrderInv'
  <2>1. BadOnes(bad) /\ bad \in SUBSET Statuses /\ target \in Statuses
    BY BadStatesAreFinal, TargetsAssumption
  <2> QED
    BY <1>6, <2>1, WaitForStateStep
<1>7. ASSUME NEW t \in Tasks, NEW target \in Targets, NEW bad \in BadStates(target),
             NEW given \in Batches \cup {{}}, Create(t, given, target, bad)
      PROVE  OrderInv'
  <2>1. BadOnes(bad) /\ bad \in SUBSET Statuses /\ target \in Statuses \cup {Nothing}
    BY BadStatesAreFinal, TargetsAssumption
  <2>2. given \in SUBSET Items
    BY BatchesAssumption
  <2> QED
    BY <1>7, <2>1, <2>2, CreateStep
<1>8. ASSUME NEW t \in Tasks, NEW given \in Batches \cup {{}}, Create(t, given, Nothing, {})
      PROVE  OrderInv'
  <2>1. BadOnes({}) /\ {} \in SUBSET Statuses /\ Nothing \in Statuses \cup {Nothing}
    BY DEF BadOnes
  <2>2. given \in SUBSET Items
    BY BatchesAssumption
  <2> QED
    BY <1>8, <2>1, <2>2, CreateStep
<1>9. CASE UNCHANGED vars
  BY <1>9, QuietStep DEF vars, object
<1> QED
  BY <1>1, <1>2, <1>3, <1>4, <1>5, <1>6, <1>7, <1>8, <1>9 DEF Next, Executes

\* The invariant holds in every state.
LEMMA Invariant == Spec => []OrderInv
BY InitInv, NextInv, PTL DEF Spec

\* A task that was told of the success of the order it has created finds all its items
\* completed, whatever the other tasks added meanwhile and however many orders there are,
\* unless the answer to another task's create has replaced the id it waits for.
THEOREM SuccessIsDone == Spec => []SuccessMeansDone
<1>1. OrderInv => SuccessMeansDone
  BY DEF OrderInv, TaskInv, Told, SuccessMeansDone
<1> QED
  BY <1>1, Invariant, PTL

\* The report of a bad state names an item: none of those that had failed when the verdict
\* was taken is missing in the later reply that the report is about, if it is one about
\* the same order.
THEOREM BadStateHasItsItem == Spec => []BadStateIsExplained
<1>1. OrderInv => BadStateIsExplained
  BY DEF OrderInv, TaskInv, Told, BadStateIsExplained
<1> QED
  BY <1>1, Invariant, PTL

\* The two reports of a timeout, one about a later reply than the other, leave out no item
\* that was not completed, if the two are about the same order.
THEOREM TimeoutHasItsItems == Spec => []TimeoutIsExplained
<1>1. OrderInv => TimeoutIsExplained
  BY DEF OrderInv, TaskInv, Told, TimeoutIsExplained
<1> QED
  BY <1>1, Invariant, PTL

-----------------------------------------------------------------------------
\* Scenarios: the runner, for any number of scenarios and any limit.

\* The scenarios that wait are queued, each one once; that takes a limit, and none of
\* them waits for a slot any more once the timeout has cancelled it.
QueueInv ==
    /\ \A i \in 1 .. Len(waiting) : state[waiting[i]] = "queued"
    /\ \A i, j \in 1 .. Len(waiting) : waiting[i] = waiting[j] => i = j
    /\ waiting # <<>> => Runner!Capped /\ cancel = {}
    /\ cancel # {} /\ ~sequential => \A s \in Runner!All : state[s] # "created"

\* Of a sequential run, a scenario runs when those before it have ended.
TurnInv ==
    sequential => \A s \in Runner!All : \A earlier \in 1 .. s - 1 :
        state[s] = "running" => state[earlier] \in Runner!Ended

\* Each slot is either free or of one of the scenarios that run.
SlotsInv ==
    /\ Runner!Capped => Cardinality(Runner!Running) + slots = limit
    /\ ~Runner!Capped => slots = limit

RunnerInv == Runner!TypeOK /\ QueueInv /\ TurnInv /\ SlotsInv /\ NoSlotWasted

-----------------------------------------------------------------------------
\* Sequences, as the provers see them: a queue that loses its head, or grows.
LEMMA QueueTail ==
    ASSUME NEW S, NEW queue \in Seq(S), queue # <<>>
    PROVE  /\ Head(queue) = queue[1] /\ Head(queue) \in S /\ Tail(queue) \in Seq(S)
           /\ Len(queue) \in Nat /\ Len(queue) >= 1 /\ Len(Tail(queue)) = Len(queue) - 1
           /\ Tail(queue) # queue
           /\ \A i \in 1 .. Len(Tail(queue)) : Tail(queue)[i] = queue[i + 1]
<1>1. /\ Head(queue) = queue[1] /\ Head(queue) \in S /\ Tail(queue) \in Seq(S)
      /\ Len(queue) \in Nat /\ Len(queue) >= 1 /\ Len(Tail(queue)) = Len(queue) - 1
      /\ \A i \in 1 .. Len(Tail(queue)) : Tail(queue)[i] = queue[i + 1]
  OBVIOUS
<1>2. ASSUME Tail(queue) = queue PROVE FALSE
  <2>1. Len(Tail(queue)) = Len(queue)
    BY <1>2, Zenon
  <2> QED
    BY <1>1, <2>1
<1> QED
  BY <1>1, <1>2

LEMMA QueueAppend ==
    ASSUME NEW S, NEW queue \in Seq(S), NEW last \in S
    PROVE  /\ Append(queue, last) \in Seq(S) /\ Append(queue, last) # <<>>
           /\ Len(queue) \in Nat /\ Len(Append(queue, last)) = Len(queue) + 1
           /\ Append(queue, last)[Len(queue) + 1] = last
           /\ \A i \in 1 .. Len(queue) : Append(queue, last)[i] = queue[i]
OBVIOUS

\* There are finitely many scenarios, and the limit is a number.
LEMMA RunningIsFinite ==
    ASSUME Count \in Nat, Limits \subseteq Nat, Runner!TypeOK
    PROVE  /\ IsFiniteSet(Runner!Running) /\ Cardinality(Runner!Running) \in Nat
           /\ limit \in Nat /\ slots \in Nat /\ slots <= limit
<1>1. IsFiniteSet(1 .. Count)
  BY FS_Interval
<1>2. Runner!Running \in SUBSET (1 .. Count)
  BY DEF Runner!Running, Runner!All
<1>3. IsFiniteSet(Runner!Running)
  BY <1>1, <1>2, FS_Subset
<1>4. Cardinality(Runner!Running) \in Nat
  BY <1>3, FS_CardinalityType
<1>5. limit \in Nat /\ slots \in 0 .. limit
  BY DEF Runner!TypeOK
<1> QED
  BY <1>3, <1>4, <1>5

\* A scenario starts.
LEMMA StartStep ==
    ASSUME Count \in Nat, Limits \subseteq Nat, RunnerInv,
           NEW s \in Runner!All, Runner!Start(s)
    PROVE  RunnerInv'
<1>1. /\ state[s] = "created"
      /\ \A earlier \in 1 .. s - 1 :
           IF sequential THEN state[earlier] \in Runner!Ended ELSE state[earlier] # "created"
      /\ UNCHANGED <<sequential, limit, timeout, cancel, failure, result>>
  BY DEF Runner!Start, Runner!parameters
<1>2. /\ Runner!TypeOK /\ QueueInv /\ TurnInv /\ SlotsInv /\ NoSlotWasted
      /\ waiting \in Seq(Runner!All) /\ Len(waiting) \in Nat
      /\ state \in [Runner!All -> Runner!States]
  BY DEF RunnerInv, Runner!TypeOK
<1>3. /\ IsFiniteSet(Runner!Running) /\ Cardinality(Runner!Running) \in Nat
      /\ limit \in Nat /\ slots \in Nat /\ slots <= limit
  BY <1>2, RunningIsFinite
<1>4. CASE Runner!HasSlot
  <2>1. /\ state' = [state EXCEPT ![s] = "running"]
        /\ slots' = IF Runner!Capped THEN slots - 1 ELSE slots
        /\ UNCHANGED waiting
    BY <1>4 DEF Runner!Start
  <2>2. /\ state'[s] = "running"
        /\ \A other \in Runner!All \ {s} : state'[other] = state[other]
    BY <1>2, <2>1
  <2>3. Runner!Capped' = Runner!Capped
    BY <1>1 DEF Runner!Capped
  <2>4. slots' \in 0 .. limit
    BY <1>3, <1>4, <2>1 DEF Runner!HasSlot
  <2>5. Runner!TypeOK'
    BY <1>1, <1>2, <2>1, <2>4 DEF Runner!TypeOK, Runner!States
  <2>6. QueueInv'
    BY <1>1, <1>2, <2>1, <2>2, <2>3 DEF QueueInv
  <2>7. TurnInv'
    <3> SUFFICES ASSUME sequential, NEW r \in Runner!All, NEW earlier \in 1 .. r - 1,
                        state'[r] = "running"
                 PROVE  state'[earlier] \in Runner!Ended
      BY <1>1 DEF TurnInv, Runner!All, Runner!Ended
    <3>1. earlier \in Runner!All
      BY DEF Runner!All
    <3>2. state[earlier] \in Runner!Ended
      BY <1>1, <1>2, <2>2 DEF TurnInv
    <3> QED
      BY <1>1, <2>2, <3>1, <3>2 DEF Runner!Ended
  <2>8. SlotsInv'
    <3>1. Runner!Running' = Runner!Running \cup {s} /\ s \notin Runner!Running
      BY <1>1, <2>2 DEF Runner!Running
    <3>2. Cardinality(Runner!Running') = Cardinality(Runner!Running) + 1
      BY <1>3, <3>1, FS_AddElement
    <3> QED
      BY <1>1, <1>2, <1>3, <2>1, <2>3, <3>2 DEF SlotsInv
  <2>9. NoSlotWasted'
    BY <1>2, <1>3, <1>4, <2>1 DEF QueueInv, NoSlotWasted, Runner!HasSlot
  <2> QED
    BY <2>5, <2>6, <2>7, <2>8, <2>9 DEF RunnerInv
<1>5. CASE ~Runner!HasSlot
  <2>1. /\ state' = [state EXCEPT ![s] = "queued"]
        /\ waiting' = Append(waiting, s)
        /\ UNCHANGED slots
    BY <1>5 DEF Runner!Start
  <2>2. /\ state'[s] = "queued"
        /\ \A other \in Runner!All \ {s} : state'[other] = state[other]
    BY <1>2, <2>1
  <2>3. /\ waiting' \in Seq(Runner!All) /\ waiting' # <<>> /\ Len(waiting') = Len(waiting) + 1
        /\ waiting'[Len(waiting) + 1] = s
        /\ \A i \in 1 .. Len(waiting) : waiting'[i] = waiting[i] /\ waiting'[i] \in Runner!All \ {s}
    <3>1. \A i \in 1 .. Len(waiting) : waiting[i] \in Runner!All \ {s}
      BY <1>1, <1>2 DEF QueueInv
    <3> QED
      BY <1>2, <2>1, <3>1, QueueAppend
  <2>4. /\ Runner!Capped' /\ Runner!Capped /\ ~sequential /\ slots = 0
        /\ cancel = {}
    BY <1>1, <1>2, <1>3, <1>5 DEF Runner!HasSlot, Runner!Capped, QueueInv
  <2>5. Runner!TypeOK'
    BY <1>1, <1>2, <2>1, <2>3 DEF Runner!TypeOK, Runner!States
  <2>6. QueueInv'
    <3>1. \A i \in 1 .. Len(waiting') : i \in 1 .. Len(waiting) \/ i = Len(waiting) + 1
      BY <1>2, <2>3
    <3>2. \A i \in 1 .. Len(waiting') : state'[waiting'[i]] = "queued"
      BY <1>2, <2>2, <2>3, <3>1 DEF QueueInv
    <3>3. \A i, j \in 1 .. Len(waiting') : waiting'[i] = waiting'[j] => i = j
      BY <1>2, <2>3, <3>1 DEF QueueInv
    <3> QED
      BY <1>1, <2>4, <3>2, <3>3 DEF QueueInv
  <2>7. TurnInv'
    BY <1>1, <2>4 DEF TurnInv
  <2>8. SlotsInv'
    <3>1. Runner!Running' = Runner!Running
      BY <1>1, <2>2 DEF Runner!Running
    <3> QED
      BY <1>1, <1>2, <2>1, <2>4, <3>1 DEF SlotsInv
  <2>9. NoSlotWasted'
    BY <2>1, <2>4 DEF NoSlotWasted
  <2> QED
    BY <2>5, <2>6, <2>7, <2>8, <2>9 DEF RunnerInv
<1> QED
  BY <1>4, <1>5

\* A scenario that runs ends: its slot is free, or goes to the first one that waits.
LEMMA EndStep ==
    ASSUME Count \in Nat, Limits \subseteq Nat, RunnerInv,
           NEW s \in Runner!All, state[s] = "running",
           NEW how \in Failures \cup {"none", "Exception"}, Runner!End(s, how)
    PROVE  RunnerInv'
<1>1. /\ UNCHANGED <<sequential, limit, timeout, cancel, result>>
      /\ failure' = [failure EXCEPT ![s] = how]
      /\ Runner!Release
      /\ state' = [r \in Runner!All |->
           IF r = s THEN "done"
           ELSE IF waiting' # waiting /\ r = Head(waiting) THEN "running"
           ELSE IF sequential /\ how # "none" /\ r > s THEN "not run"
           ELSE state[r]]
  BY DEF Runner!End, Runner!parameters
<1>2. /\ Runner!TypeOK /\ QueueInv /\ TurnInv /\ SlotsInv /\ NoSlotWasted
      /\ waiting \in Seq(Runner!All) /\ Len(waiting) \in Nat
      /\ state \in [Runner!All -> Runner!States]
      /\ failure \in [Runner!All -> Failures \cup {"none", "Exception"}]
      /\ limit \in Limits /\ slots \in 0 .. limit
  BY DEF RunnerInv, Runner!TypeOK
<1>3. /\ IsFiniteSet(Runner!Running) /\ Cardinality(Runner!Running) \in Nat
      /\ limit \in Nat /\ slots \in Nat /\ slots <= limit
  BY <1>2, RunningIsFinite
<1>4. Runner!Capped' = Runner!Capped
  BY <1>1 DEF Runner!Capped
<1>5. failure' \in [Runner!All -> Failures \cup {"none", "Exception"}]
  BY <1>1, <1>2
<1>6. /\ IsFiniteSet(Runner!Running \ {s})
      /\ Cardinality(Runner!Running \ {s}) = Cardinality(Runner!Running) - 1
      /\ Cardinality(Runner!Running) >= 1
  <2>1. s \in Runner!Running
    BY DEF Runner!Running
  <2>2. Runner!Running # {} /\ Cardinality(Runner!Running) # 0
    BY <1>3, <2>1, FS_EmptySet
  <2> QED
    BY <1>3, <2>1, <2>2, FS_RemoveElement
<1>7. CASE waiting # <<>>
  <2> DEFINE next == Head(waiting)
  <2>1. Runner!Capped /\ ~sequential /\ cancel = {}
    BY <1>2, <1>7 DEF QueueInv, Runner!Capped
  <2>2. waiting' = Tail(waiting) /\ slots' = slots
    BY <1>1, <1>7, <2>1 DEF Runner!Release
  <2>3. /\ next = waiting[1] /\ next \in Runner!All /\ Tail(waiting) \in Seq(Runner!All)
        /\ Len(waiting) \in Nat /\ Len(waiting) >= 1 /\ Len(Tail(waiting)) = Len(waiting) - 1
        /\ Tail(waiting) # waiting
        /\ \A i \in 1 .. Len(Tail(waiting)) : Tail(waiting)[i] = waiting[i + 1]
    BY <1>2, <1>7, QueueTail
  <2>4. /\ Len(waiting) \in Nat /\ Len(waiting) >= 1 /\ Len(waiting') = Len(waiting) - 1
         /\ Len(waiting') \in Nat
    <3>1. Len(waiting) \in Nat /\ Len(waiting) >= 1 /\ Len(waiting') = Len(waiting) - 1
      BY <1>2, <1>7, <2>2, QueueTail
    <3> QED
      BY <3>1
  <2>5. \A i \in 1 .. Len(waiting') : i \in Nat /\ i + 1 \in 1 .. Len(waiting) /\ i + 1 # 1
    BY <2>4
  <2>6. state[next] = "queued" /\ next # s
    <3>1. 1 \in 1 .. Len(waiting)
      BY <2>4
    <3> QED
      BY <1>2, <2>3, <3>1 DEF QueueInv
  <2>7. /\ state'[s] = "done" /\ state'[next] = "running"
        /\ \A r \in Runner!All \ {s, next} : state'[r] = state[r]
        /\ state' \in [Runner!All -> Runner!States]
    BY <1>1, <1>2, <2>1, <2>2, <2>3, <2>6 DEF Runner!States
  <2>8. Runner!TypeOK'
    BY <1>1, <1>2, <1>5, <2>2, <2>3, <2>7 DEF Runner!TypeOK
  <2>9. QueueInv'
    <3>1. \A i \in 1 .. Len(waiting') :
            /\ i + 1 \in 1 .. Len(waiting) /\ waiting'[i] = waiting[i + 1]
            /\ waiting'[i] \in Runner!All \ {s, next}
      <4> SUFFICES ASSUME NEW i \in 1 .. Len(waiting')
                   PROVE  /\ i + 1 \in 1 .. Len(waiting) /\ waiting'[i] = waiting[i + 1]
                          /\ waiting'[i] \in Runner!All \ {s, next}
        OBVIOUS
      <4>1. i + 1 \in 1 .. Len(waiting) /\ waiting'[i] = waiting[i + 1] /\ i + 1 # 1
        BY <2>2, <2>3, <2>5
      <4>2. waiting[i + 1] \in Runner!All
        BY <1>2, <4>1
      <4>3. 1 \in 1 .. Len(waiting)
        BY <2>4
      <4>4. waiting[i + 1] # s /\ waiting[i + 1] # next
        BY <1>2, <2>3, <2>6, <4>1, <4>3 DEF QueueInv
      <4> QED
        BY <4>1, <4>2, <4>4
    <3>2. \A i \in 1 .. Len(waiting') : state'[waiting'[i]] = "queued"
      BY <1>2, <2>7, <3>1 DEF QueueInv
    <3>3. \A i, j \in 1 .. Len(waiting') : waiting'[i] = waiting'[j] => i = j
      <4> SUFFICES ASSUME NEW i \in 1 .. Len(waiting'), NEW j \in 1 .. Len(waiting'),
                          waiting'[i] = waiting'[j]
                   PROVE  i = j
        OBVIOUS
      <4>1. /\ i + 1 \in 1 .. Len(waiting) /\ j + 1 \in 1 .. Len(waiting)
            /\ waiting[i + 1] = waiting[j + 1]
        BY <3>1
      <4>2. i + 1 = j + 1
        BY <1>2, <4>1 DEF QueueInv
      <4>3. i \in Nat /\ j \in Nat
        BY <2>5
      <4> QED
        BY <4>2, <4>3
    <3> QED
      BY <1>1, <1>4, <2>1, <3>2, <3>3 DEF QueueInv
  <2>10. TurnInv'
    BY <1>1, <2>1 DEF TurnInv
  <2>11. SlotsInv'
    <3>1. /\ Runner!Running' = (Runner!Running \ {s}) \cup {next}
          /\ next \notin Runner!Running \ {s}
      BY <2>3, <2>6, <2>7 DEF Runner!Running
    <3>2. Cardinality(Runner!Running') = Cardinality(Runner!Running \ {s}) + 1
      BY <1>6, <3>1, FS_AddElement
    <3>3. Cardinality(Runner!Running') = Cardinality(Runner!Running)
      BY <1>3, <1>6, <3>2
    <3>4. limit' = limit
      BY <1>1
    <3> QED
      BY <1>2, <1>4, <2>1, <2>2, <3>3, <3>4 DEF SlotsInv
  <2>12. NoSlotWasted'
    BY <1>2, <1>7, <2>2 DEF NoSlotWasted
  <2> QED
    BY <2>8, <2>9, <2>10, <2>11, <2>12 DEF RunnerInv
<1>8. CASE waiting = <<>>
  <2>1. /\ waiting' = waiting
        /\ slots' = IF Runner!Capped THEN slots + 1 ELSE slots
    BY <1>1, <1>8 DEF Runner!Release
  <2>2. /\ state'[s] = "done" /\ state' \in [Runner!All -> Runner!States]
        /\ \A r \in Runner!All \ {s} :
             state'[r] = IF sequential /\ how # "none" /\ r > s THEN "not run" ELSE state[r]
    BY <1>1, <1>2, <2>1 DEF Runner!States
  <2>3. sequential => \A r \in Runner!All : r > s => state[r] # "running"
    <3> SUFFICES ASSUME sequential, NEW r \in Runner!All, r > s, state[r] = "running"
                 PROVE  FALSE
      OBVIOUS
    <3>1. s \in 1 .. r - 1
      BY DEF Runner!All
    <3> QED
      BY <1>2, <3>1 DEF TurnInv, Runner!Ended
  <2>4. slots' \in 0 .. limit
    BY <1>2, <1>3, <1>6, <2>1 DEF SlotsInv
  <2>5. Runner!TypeOK'
    BY <1>1, <1>2, <1>5, <2>1, <2>2, <2>4 DEF Runner!TypeOK
  <2>6. QueueInv'
    <3>1. cancel' # {} /\ ~sequential' => \A r \in Runner!All : state'[r] # "created"
      BY <1>1, <1>2, <2>2 DEF QueueInv
    <3>2. Len(waiting') = 0 /\ waiting' = <<>>
      BY <1>8, <2>1
    <3>3. /\ \A i \in 1 .. Len(waiting') : state'[waiting'[i]] = "queued"
          /\ \A i, j \in 1 .. Len(waiting') : waiting'[i] = waiting'[j] => i = j
      BY <3>2
    <3>4. (\A r \in Runner!All : state[r] # "created")' <=> \A r \in Runner!All : state'[r] # "created"
      BY DEF Runner!All
    <3> QED
      BY <3>1, <3>2, <3>3, <3>4 DEF QueueInv
  <2>7. TurnInv'
    <3> SUFFICES ASSUME sequential, NEW r \in Runner!All, NEW earlier \in 1 .. r - 1,
                        state'[r] = "running"
                 PROVE  state'[earlier] \in Runner!Ended
      BY <1>1 DEF TurnInv, Runner!All, Runner!Ended
    <3>0. earlier \in Runner!All
      BY DEF Runner!All
    <3>1. r # s /\ state[r] = "running"
      BY <2>2
    <3>2. state[earlier] \in Runner!Ended
      BY <1>2, <3>1 DEF TurnInv
    <3> QED
      BY <2>2, <3>0, <3>2 DEF Runner!Ended
  <2>8. SlotsInv'
    <3>1. Runner!Running' = Runner!Running \ {s}
      <4>1. \A r \in Runner!All \ {s} : state'[r] = "running" <=> state[r] = "running"
        BY <2>2, <2>3
      <4> QED
        BY <2>2, <4>1 DEF Runner!Running
    <3>2. Cardinality(Runner!Running') = Cardinality(Runner!Running) - 1
      BY <1>6, <3>1
    <3>3. limit' = limit
      BY <1>1
    <3> QED
      BY <1>2, <1>3, <1>4, <2>1, <3>2, <3>3 DEF SlotsInv
  <2>9. NoSlotWasted'
    BY <1>8, <2>1 DEF NoSlotWasted
  <2> QED
    BY <2>5, <2>6, <2>7, <2>8, <2>9 DEF RunnerInv
<1> QED
  BY <1>7, <1>8

\* The timeout, and those it cancels in the queue.
LEMMA TimeoutStep ==
    ASSUME Count \in Nat, Limits \subseteq Nat, RunnerInv, Runner!TimeElapses
    PROVE  RunnerInv'
<1>1. /\ waiting' = <<>> /\ cancel' \subseteq Runner!All
      /\ sequential \/ \A s \in Runner!All : state[s] # "created"
      /\ UNCHANGED <<sequential, limit, timeout, state, slots, failure, result>>
  BY DEF Runner!TimeElapses, Runner!parameters, Runner!Running
<1>2. Runner!TypeOK'
  BY <1>1 DEF RunnerInv, Runner!TypeOK
<1>3. QueueInv' /\ TurnInv' /\ SlotsInv' /\ NoSlotWasted'
  BY <1>1 DEF RunnerInv, QueueInv, TurnInv, SlotsInv, Runner!Capped, Runner!Running,
              NoSlotWasted
<1> QED
  BY <1>2, <1>3 DEF RunnerInv

LEMMA QueuedTimesOutStep ==
    ASSUME Count \in Nat, Limits \subseteq Nat, RunnerInv,
           NEW s \in Runner!All, Runner!QueuedTimesOut(s)
    PROVE  RunnerInv'
<1>1. /\ state[s] = "queued" /\ s \in cancel
      /\ state' = [state EXCEPT ![s] = "not run"]
      /\ failure' = [failure EXCEPT ![s] = "Exception"]
      /\ UNCHANGED <<sequential, limit, timeout, cancel, waiting, slots, result>>
  BY DEF Runner!QueuedTimesOut, Runner!parameters
<1>2. waiting = <<>> /\ state \in [Runner!All -> Runner!States]
  BY <1>1 DEF RunnerInv, QueueInv, Runner!TypeOK
<1>3. state'[s] = "not run" /\ \A r \in Runner!All \ {s} : state'[r] = state[r]
  BY <1>1, <1>2
<1>4. Runner!TypeOK'
  BY <1>1 DEF RunnerInv, Runner!TypeOK, Runner!States
<1>5. Runner!Running' = Runner!Running
  BY <1>1, <1>3 DEF Runner!Running
<1>6. QueueInv' /\ SlotsInv' /\ NoSlotWasted'
  <2>1. QueueInv /\ SlotsInv /\ Runner!Capped' = Runner!Capped
    BY <1>1 DEF RunnerInv, Runner!Capped
  <2>2. SlotsInv' /\ NoSlotWasted'
    BY <1>1, <1>2, <1>5, <2>1 DEF SlotsInv, NoSlotWasted
  <2>3. Len(waiting') = 0 /\ waiting' = <<>>
    BY <1>1, <1>2
  <2>4. cancel' # {} /\ ~sequential' => \A r \in Runner!All : state'[r] # "created"
    BY <1>1, <1>3, <2>1 DEF QueueInv
  <2>5. (\A r \in Runner!All : state[r] # "created")' <=> \A r \in Runner!All : state'[r] # "created"
    BY DEF Runner!All
  <2> QED
    BY <2>2, <2>3, <2>4, <2>5 DEF QueueInv
<1>7. TurnInv'
  <2> SUFFICES ASSUME sequential, NEW r \in Runner!All, NEW earlier \in 1 .. r - 1,
                      state'[r] = "running"
               PROVE  state'[earlier] \in Runner!Ended
    BY <1>1 DEF TurnInv, Runner!All, Runner!Ended
  <2>1. earlier \in Runner!All
    BY DEF Runner!All
  <2>2. state[earlier] \in Runner!Ended
    BY <1>3 DEF RunnerInv, TurnInv
  <2> QED
    BY <1>3, <2>1, <2>2 DEF Runner!Ended
<1> QED
  BY <1>4, <1>6, <1>7 DEF RunnerInv

\* The invariant of the runner holds in every state.
LEMMA RunnerInvariant == RunnerSpec => []RunnerInv
<1>1. Runner!Init => RunnerInv
  <2> SUFFICES ASSUME Runner!Init PROVE RunnerInv
    OBVIOUS
  <2>1. /\ sequential \in BOOLEAN /\ limit \in Limits /\ timeout \in BOOLEAN
        /\ state = [s \in Runner!All |-> "created"] /\ cancel = {} /\ waiting = <<>>
        /\ slots = limit /\ failure = [s \in Runner!All |-> "none"] /\ result = "none"
    BY DEF Runner!Init
  <2>2. limit \in Nat /\ slots \in 0 .. limit
    BY <2>1, LimitsAssumption
  <2>3. Runner!TypeOK
    BY <2>1, <2>2 DEF Runner!TypeOK, Runner!States
  <2>4. QueueInv /\ TurnInv /\ NoSlotWasted
    BY <2>1 DEF QueueInv, TurnInv, NoSlotWasted
  <2>5. Runner!Running = {}
    BY <2>1 DEF Runner!Running
  <2>6. SlotsInv
    BY <2>1, <2>2, <2>5, FS_EmptySet DEF SlotsInv
  <2> QED
    BY <2>3, <2>4, <2>6 DEF RunnerInv
<1>2. RunnerInv /\ [Runner!Next]_Runner!vars => RunnerInv'
  <2> SUFFICES ASSUME RunnerInv, [Runner!Next]_Runner!vars PROVE RunnerInv'
    OBVIOUS
  <2>1. CASE Runner!Return
    BY <2>1 DEF Runner!Return, Runner!parameters, RunnerInv, Runner!TypeOK, QueueInv, TurnInv,
                SlotsInv, Runner!Capped, Runner!Running, NoSlotWasted
  <2>2. ASSUME NEW s \in Runner!All, Runner!Start(s) PROVE RunnerInv'
    BY <2>2, StartStep, CountAssumption, LimitsAssumption
  <2>3. ASSUME NEW s \in Runner!All, Runner!CancelledEnds(s) PROVE RunnerInv'
    BY <2>3, EndStep, CountAssumption, LimitsAssumption DEF Runner!CancelledEnds
  <2>4. ASSUME NEW s \in Runner!All, Runner!QueuedTimesOut(s) PROVE RunnerInv'
    BY <2>4, QueuedTimesOutStep, CountAssumption, LimitsAssumption
  <2>5. CASE Runner!TimeElapses
    BY <2>5, TimeoutStep, CountAssumption, LimitsAssumption
  <2>6. ASSUME NEW s \in Runner!All, Runner!ScenarioEnds(s) PROVE RunnerInv'
    BY <2>6, EndStep, CountAssumption, LimitsAssumption DEF Runner!ScenarioEnds
  <2>7. CASE UNCHANGED Runner!vars
    BY <2>7 DEF Runner!vars, Runner!parameters, RunnerInv, Runner!TypeOK, QueueInv, TurnInv,
                SlotsInv, Runner!Capped, Runner!Running, NoSlotWasted
  <2> QED
    BY <2>1, <2>2, <2>3, <2>4, <2>5, <2>6, <2>7 DEF Runner!Next, Runner!Step
<1> QED
  BY <1>1, <1>2, PTL DEF RunnerSpec, Runner!Spec

\* The variables of the runner keep their types: its semaphore never goes below zero
\* nor above the limit.
THEOREM RunnerTypeCorrect == RunnerSpec => []Runner!TypeOK
<1>1. RunnerInv => Runner!TypeOK
  BY DEF RunnerInv
<1> QED
  BY <1>1, RunnerInvariant, PTL

\* At most as many scenarios run as the limit says, one after the other in a sequential
\* run, and no slot gets lost: for any number of scenarios.
THEOREM RunnerKeepsTheLimit == RunnerSpec => []SlotsAccounted
<1>1. RunnerInv => SlotsAccounted
  <2> SUFFICES ASSUME RunnerInv PROVE SlotsAccounted
    OBVIOUS
  <2>0. Count \in Nat /\ Limits \subseteq Nat
    BY CountAssumption, LimitsAssumption
  <2>1. /\ IsFiniteSet(Runner!Running) /\ Cardinality(Runner!Running) \in Nat
        /\ limit \in Nat /\ slots \in Nat
    BY <2>0, RunningIsFinite DEF RunnerInv
  <2>2. sequential => Cardinality(Runner!Running) <= 1
    <3> SUFFICES ASSUME sequential, NEW s \in Runner!Running
                 PROVE  Cardinality(Runner!Running) <= 1
      BY <2>1, FS_EmptySet
    <3>1. \A r \in Runner!Running : r = s
      <4> SUFFICES ASSUME NEW r \in Runner!Running, r # s PROVE FALSE
        OBVIOUS
      <4>1. /\ r \in 1 .. Count /\ s \in 1 .. Count
            /\ state[r] = "running" /\ state[s] = "running"
        BY DEF Runner!Running, Runner!All
      <4>2. r \in 1 .. s - 1 \/ s \in 1 .. r - 1
        BY <2>0, <4>1
      <4> QED
        BY <4>1, <4>2 DEF RunnerInv, TurnInv, Runner!Ended, Runner!All
    <3>2. Runner!Running = {s}
      BY <3>1
    <3>3. Cardinality({s}) = 1
      BY FS_Singleton
    <3> QED
      BY <3>2, <3>3
  <2> QED
    BY <2>1, <2>2 DEF RunnerInv, SlotsInv, SlotsAccounted
<1> QED
  BY <1>1, RunnerInvariant, PTL

\* A scenario only waits while all the slots are taken.
THEOREM NobodyWaitsInVain == RunnerSpec => []NoSlotWasted
<1>1. RunnerInv => NoSlotWasted
  BY DEF RunnerInv
<1> QED
  BY <1>1, RunnerInvariant, PTL
=============================================================================
