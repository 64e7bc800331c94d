-------------------------- MODULE OrderService_proofs --------------------------
(****************************************************************************)
(* Type correctness, the dates behind the statuses, and finality of         *)
(* OrderService, for any number of orders, users and handlers in flight,    *)
(* of faults, and any delay.                                                *)
(****************************************************************************)
EXTENDS OrderService, TLAPS

JobState == OrderJob \cup {Idle}

(* The dates a document must have.                                          *)
Dated(d) ==
  /\ d.status \in {"in_progress", "pending_completion"} => d.started
  /\ d.status = "pending_completion" => d.requestedAt # None
  /\ d.status = "completed" => d.completedAt # None
  /\ d.status = "canceled" => d.canceled

(* What a handler in flight has seen and its save relies on: a request for  *)
(* completion and a refusal show the order in progress, so it must have     *)
(* been started, whatever happened since.                                   *)
Relies(s) ==
  /\ s.op \in OrderCall => OrderExists(s.oid)
  /\ s.op = "order.expire" => \A o \in s.batch : OrderExists(o)
  /\ s.op \in {"order.request", "order.decline"} => orders[s.oid].started

(* The inductive invariant.                                                 *)
Inv ==
  /\ OrderTypeOK
  /\ \A o \in Orders : OrderExists(o) => Dated(orders[o])
  /\ \A j \in Jobs : Relies(job[j])

(* An order that exists is a document of the schema, with its dates.        *)
LEMMA ExistsIsOrder ==
  ASSUME Inv, NEW o \in Orders, OrderExists(o)
  PROVE  orders[o] \in OrderDoc /\ Dated(orders[o])
  BY DEF Inv, OrderTypeOK, OrderExists

(* An idle slot and an event rely on nothing.                               *)
LEMMA IdleOK == Idle \in JobState /\ Relies(Idle)
  BY DEF Idle, JobState, Relies, OrderCall

(* A listener of an order event is a job of its kind.                       *)
LEMMA EventOK ==
  ASSUME NEW o \in Orders, NEW op \in OrderEvent
  PROVE  [op |-> op, oid |-> o] \in JobState /\ Relies([op |-> op, oid |-> o])
  BY DEF JobState, OrderJob, Relies, OrderCall, OrderEvent

(* The kinds of jobs and the fields they have.                              *)
LEMMA JobKinds ==
  ASSUME NEW s \in JobState
  PROVE  \/ s.op \in OrderCall /\ s.oid \in Orders /\ s.at \in Nat
         \/ s.op \in OrderEvent /\ s.oid \in Orders
         \/ s.op = "order.expire" /\ s.batch \subseteq Orders
         \/ s.op = "idle"
  <1>1. CASE s = Idle
    BY <1>1 DEF Idle
  <1>2. CASE s \in OrderJob
    BY <1>2 DEF OrderJob
  <1> QED  BY <1>1, <1>2 DEF JobState

---------------------------------------------------------------------------
(* A step that changes jobs only.                                           *)
LEMMA JobStep ==
  ASSUME Inv, UNCHANGED orders, clock' \in Nat, faults' \in Nat,
         job' \in [Jobs -> JobState],
         \A k \in Jobs : job'[k] = job[k] \/ Relies(job'[k])
  PROVE  Inv'
  <1>1. OrderTypeOK'
    BY DEF Inv, OrderTypeOK, JobState
  <1>2. \A o \in Orders : OrderExists(o)' => Dated(orders[o])'
    BY DEF Inv, OrderExists, Dated
  <1>3. \A k \in Jobs : Relies(job[k])'
    <2> TAKE k \in Jobs
    <2>1. Relies(job'[k])
      BY DEF Inv
    <2> QED  BY <2>1 DEF Relies, OrderExists
  <1> QED  BY <1>1, <1>2, <1>3 DEF Inv

(* A step that writes one order: that it exists and was started must stay.  *)
LEMMA DocStep ==
  ASSUME Inv, UNCHANGED <<clock, faults>>, NEW o \in Orders, NEW doc \in OrderDoc,
         WriteOrder(o, doc), Dated(doc),
         OrderExists(o) => (orders[o].started => doc.started),
         job' \in [Jobs -> JobState],
         \A k \in Jobs : job'[k] = job[k] \/ Relies(job[k])'
  PROVE  Inv'
  <1>1. \A q \in Orders : orders'[q] = IF q = o THEN doc ELSE orders[q]
    BY DEF Inv, OrderTypeOK, WriteOrder
  <1>2. OrderTypeOK'
    BY DEF Inv, OrderTypeOK, WriteOrder, JobState
  <1>3. \A q \in Orders : OrderExists(q)' => Dated(orders[q])'
    BY <1>1 DEF Inv, OrderExists, Dated
  <1>4. \A q \in Orders : OrderExists(q) =>
          OrderExists(q)' /\ (orders[q].started => orders'[q].started)
    BY <1>1, NullIsNoOrder DEF OrderExists
  <1>5. ASSUME NEW k \in Jobs, job'[k] = job[k]  PROVE Relies(job[k])'
    <2>1. job[k] \in JobState /\ Relies(job[k])
      BY DEF Inv, OrderTypeOK, JobState
    <2>2. CASE job[k].op \in OrderCall /\ job[k].oid \in Orders
      BY <1>4, <1>5, <2>1, <2>2 DEF Relies, OrderExists, OrderCall
    <2>3. CASE job[k].op = "order.expire" /\ job[k].batch \subseteq Orders
      BY <1>4, <1>5, <2>1, <2>3 DEF Relies, OrderExists, OrderCall
    <2>4. CASE job[k].op \in OrderEvent \cup {"idle"}
      BY <1>5, <2>4 DEF Relies, OrderCall, OrderEvent
    <2> QED  BY <2>1, <2>2, <2>3, <2>4, JobKinds
  <1> QED  BY <1>2, <1>3, <1>5 DEF Inv

---------------------------------------------------------------------------
(* The handlers up to the save: what the new job relies on is what was just *)
(* checked.                                                                 *)
LEMMA CallStep ==
  ASSUME Inv, NEW j \in Jobs, NEW o \in Orders, NEW op \in OrderCall, Call(j, o, op),
         op \in {"order.request", "order.decline"} => orders[o].started
  PROVE  Inv'
  <1> DEFINE s == [op |-> op, oid |-> o, at |-> clock]
  <1>1. clock \in Nat /\ faults \in Nat /\ job \in [Jobs -> JobState]
    BY DEF Inv, OrderTypeOK, JobState
  <1>2. s \in JobState
    BY <1>1 DEF JobState, OrderJob
  <1>3. Relies(s)
    BY DEF Call, Relies, OrderCall
  <1> QED  BY <1>1, <1>2, <1>3, JobStep DEF Call, Become

(* The operations of users: they load, and write nothing yet.               *)
LEMMA UserCalls ==
  ASSUME Inv, NEW j \in Jobs, NEW o \in Orders, NEW user, OrderUserCall(j, o, user)
  PROVE  Inv'
  <1>0. OrderExists(o) => Dated(orders[o])
    BY ExistsIsOrder
  <1>1. CASE StartOrder(j, o, user)
    BY <1>1, CallStep DEF StartOrder, OrderCall
  <1>2. CASE RequestCompletion(j, o, user)
    <2>1. orders[o].started
      BY <1>0, <1>2 DEF RequestCompletion, Call, Dated
    <2> QED  BY <1>2, <2>1, CallStep DEF RequestCompletion, OrderCall
  <1>3. CASE ApproveCompletion(j, o, user)
    BY <1>3, CallStep DEF ApproveCompletion, OrderCall
  <1>4. CASE DeclineCompletion(j, o, user)
    <2>1. orders[o].started
      BY <1>0, <1>4 DEF DeclineCompletion, Call, Dated
    <2> QED  BY <1>4, <2>1, CallStep DEF DeclineCompletion, OrderCall
  <1>5. CASE CancelOrder(j, o, user)
    BY <1>5, CallStep DEF CancelOrder, OrderCall
  <1>6. CASE SetProviderEts(j, o, user)
    BY <1>6, CallStep DEF SetProviderEts, OrderCall
  <1> QED  BY <1>1, <1>2, <1>3, <1>4, <1>5, <1>6 DEF OrderUserCall

---------------------------------------------------------------------------
(* Whatever the order has become since the load, a save leaves it with the  *)
(* dates of its status.                                                     *)
LEMMA SavedOK ==
  ASSUME NEW d \in OrderDoc, Dated(d), NEW at \in Nat, NEW op \in OrderCall,
         op \in {"order.request", "order.decline"} => d.started
  PROVE  /\ Saved(op, d, at) \in OrderDoc
         /\ Dated(Saved(op, d, at))
         /\ d.started => Saved(op, d, at).started
  <1> USE NoneAssumption DEF OrderDoc, OrderStatus, Dated, Saved
  <1>1. CASE op = "order.start"
    BY <1>1 DEF Started
  <1>2. CASE op = "order.request"
    BY <1>2 DEF Requested
  <1>3. CASE op = "order.approve"
    BY <1>3 DEF Completed
  <1>4. CASE op = "order.decline"
    BY <1>4 DEF Declined
  <1>5. CASE op = "order.cancel"
    BY <1>5 DEF Canceled
  <1>6. CASE op = "order.ets"
    BY <1>6
  <1> QED  BY <1>1, <1>2, <1>3, <1>4, <1>5, <1>6 DEF OrderCall

(* The save of an operation.                                                *)
LEMMA SaveStep ==
  ASSUME Inv, NEW j \in Jobs, SaveOrder(j)
  PROVE  Inv'
  <1> DEFINE o == job[j].oid
             d == Saved(job[j].op, orders[o], job[j].at)
             s == Emitted(job[j].op, o)
  <1>1. job[j] \in JobState /\ Relies(job[j]) /\ job \in [Jobs -> JobState]
    BY DEF Inv, OrderTypeOK, JobState
  <1>2. job[j].op \in OrderCall /\ o \in Orders /\ job[j].at \in Nat
    BY <1>1, JobKinds DEF SaveOrder, OrderCall, OrderEvent
  <1>3. orders[o] \in OrderDoc /\ Dated(orders[o])
    BY <1>1, <1>2, ExistsIsOrder DEF Relies
  <1>4. job[j].op \in {"order.request", "order.decline"} => orders[o].started
    BY <1>1 DEF Relies
  <1>5. d \in OrderDoc /\ Dated(d) /\ (orders[o].started => d.started)
    BY <1>2, <1>3, <1>4, SavedOK
  <1>6. s \in JobState /\ s.op \in OrderEvent \cup {"idle"}
    <2>1. s \in {Idle, [op |-> "order.completed", oid |-> o], [op |-> "order.canceled", oid |-> o]}
      BY <1>2 DEF Emitted, OrderCall
    <2>2. s \in JobState
      BY <1>2, <2>1, IdleOK, EventOK DEF OrderEvent
    <2>3. s.op \in {"idle", "order.completed", "order.canceled"}
      BY <2>1 DEF Idle
    <2> QED  BY <2>2, <2>3 DEF OrderEvent
  <1>7. job' = [job EXCEPT ![j] = s]
    BY DEF SaveOrder, Become
  <1>8. job' \in [Jobs -> JobState] /\ \A k \in Jobs : job'[k] = job[k] \/ Relies(job[k])'
    <2>1. \A k \in Jobs : job'[k] = IF k = j THEN s ELSE job[k]
      BY <1>1, <1>7
    <2>2. job' \in [Jobs -> JobState]
      BY <1>1, <1>6, <1>7
    <2>3. job'[j].op \in OrderEvent \cup {"idle"}
      BY <1>6, <2>1
    <2>4. Relies(job[j])'
      BY <2>3 DEF Relies, OrderCall, OrderEvent
    <2> QED  BY <2>1, <2>2, <2>4
  <1>9. WriteOrder(o, d) /\ UNCHANGED <<clock, faults>>
    BY DEF SaveOrder
  <1> HIDE DEF o, d, s
  <1> QED  BY <1>2, <1>5, <1>8, <1>9, DocStep

---------------------------------------------------------------------------
(* The cron: its batch are orders, and completing one gives it its date,    *)
(* whatever it has become since the query.                                  *)
LEMMA CompletedOK ==
  ASSUME NEW d \in OrderDoc, Dated(d), NEW at \in Nat
  PROVE  /\ Completed(d, at) \in OrderDoc
         /\ Dated(Completed(d, at))
         /\ d.started => Completed(d, at).started
  BY NoneAssumption DEF OrderDoc, OrderStatus, Dated, Completed

(* The query of the cron.                                                   *)
LEMMA ExpireStartStep ==
  ASSUME Inv, NEW j \in Jobs, ExpireStart(j)
  PROVE  Inv'
  <1> DEFINE s == [op |-> "order.expire", batch |-> Expired(clock)]
  <1>1. clock \in Nat /\ faults \in Nat /\ job \in [Jobs -> JobState]
    BY DEF Inv, OrderTypeOK, JobState
  <1>2. Expired(clock) \subseteq Orders /\ \A o \in Expired(clock) : OrderExists(o)
    BY DEF Expired
  <1>3. s \in JobState /\ Relies(s)
    BY <1>2 DEF JobState, OrderJob, Relies, OrderCall
  <1> QED  BY <1>1, <1>3, JobStep DEF ExpireStart, Become

(* One save of the cron.                                                    *)
LEMMA ExpireOneStep ==
  ASSUME Inv, NEW j \in Jobs, NEW o \in Orders, NEW k \in Jobs, ExpireOne(j, o, k)
  PROVE  Inv'
  <1> DEFINE d == Completed(orders[o], clock)
             rest == job[j].batch \ {o}
             event == [op |-> "order.completed", oid |-> o]
  <1>1. /\ job[j] \in JobState /\ Relies(job[j]) /\ job \in [Jobs -> JobState]
        /\ clock \in Nat
    BY DEF Inv, OrderTypeOK, JobState
  <1>2. job[j].op = "order.expire" /\ o \in job[j].batch
    BY DEF ExpireOne
  <1>3. job[j].batch \subseteq Orders /\ \A q \in job[j].batch : OrderExists(q)
    BY <1>1, <1>2, JobKinds DEF OrderCall, OrderEvent, Relies
  <1>4. orders[o] \in OrderDoc /\ Dated(orders[o])
    BY <1>2, <1>3, ExistsIsOrder
  <1>5. d \in OrderDoc /\ Dated(d) /\ (orders[o].started => d.started)
    BY <1>1, <1>4, CompletedOK
  <1>6. \A q \in job[j].batch : OrderExists(q)'
    <2>1. \A q \in Orders : orders'[q] = IF q = o THEN d ELSE orders[q]
      BY DEF ExpireOne, WriteOrder, Inv, OrderTypeOK
    <2> QED  BY <1>3, <1>5, <2>1, NullIsNoOrder DEF OrderExists
  <1>7. event \in JobState
    BY EventOK DEF OrderEvent
  <1>8. job' \in [Jobs -> JobState] /\ \A i \in Jobs : job'[i] = job[i] \/ Relies(job[i])'
    <2>1. CASE rest = {}
      <3>1. job' = [job EXCEPT ![j] = event]
        BY <2>1 DEF ExpireOne, Become
      <3>2. Relies(job[j])'
        BY <1>1, <3>1 DEF Relies, OrderCall
      <3> QED  BY <1>1, <1>7, <3>1, <3>2
    <2>2. CASE rest # {}
      <3>1. Free(k) /\ job' = [job EXCEPT ![j].batch = rest, ![k] = event]
        BY <2>2 DEF ExpireOne
      <3>2. k # j
        BY <1>2, <3>1 DEF Free, Idle
      <3>3. job[j] \in [op : {"order.expire"}, batch : SUBSET Orders]
        BY <1>1, <1>2 DEF JobState, OrderJob, Idle, OrderCall, OrderEvent
      <3> DEFINE s == [job[j] EXCEPT !.batch = rest]
      <3>4. s = [op |-> "order.expire", batch |-> rest]
        BY <3>3
      <3>5. s \in JobState
        BY <1>3, <3>4 DEF JobState, OrderJob
      <3>6. \A i \in Jobs : job'[i] = IF i = k THEN event ELSE IF i = j THEN s ELSE job[i]
        BY <1>1, <3>1, <3>2
      <3>7. job' \in [Jobs -> JobState]
        BY <1>1, <1>7, <3>1, <3>5, <3>6
      <3>8. Relies(job[k])'
        BY <3>6 DEF Relies, OrderCall
      <3>9. job'[j].op = "order.expire" /\ job'[j].batch \subseteq job[j].batch
        BY <3>2, <3>4, <3>6
      <3>10. Relies(job[j])'
        BY <1>6, <3>9 DEF Relies, OrderCall
      <3> QED  BY <3>6, <3>7, <3>8, <3>10
    <2> QED  BY <2>1, <2>2
  <1>9. WriteOrder(o, d) /\ UNCHANGED <<clock, faults>>
    BY DEF ExpireOne
  <1> HIDE DEF d, rest, event
  <1> QED  BY <1>5, <1>8, <1>9, DocStep

---------------------------------------------------------------------------
(* An order appears, an event is dropped, time passes, something fails.     *)
LEMMA AssignedStep ==
  ASSUME Inv, NEW o \in Orders, NEW r \in Requests, NEW c \in Customers,
         NEW p \in Providers, Assigned(o, r, c, p)
  PROVE  Inv'
  <1>1. NewOrder(r, c, p) \in OrderDoc /\ Dated(NewOrder(r, c, p))
    BY DEF NewOrder, OrderDoc, OrderStatus, Dated
  <1>2. job \in [Jobs -> JobState]
    BY DEF Inv, OrderTypeOK, JobState
  <1> QED  BY <1>1, <1>2, DocStep DEF Assigned

(* Time passes, a handler ends or is cut off.                               *)
LEMMA EndSteps ==
  ASSUME Inv
  PROVE  /\ \A j \in Jobs : OrderAbort(j) \/ Unheard(j) => Inv'
         /\ (Tick \/ Crash) /\ UNCHANGED orders => Inv'
  <1>1. clock \in Nat /\ faults \in Nat /\ job \in [Jobs -> JobState]
    BY DEF Inv, OrderTypeOK, JobState
  <1>2. ASSUME NEW j \in Jobs, OrderAbort(j)  PROVE Inv'
    BY <1>1, <1>2, IdleOK, JobStep DEF OrderAbort, Abort, Faulty, Finish, Become
  <1>3. ASSUME NEW j \in Jobs, Unheard(j)  PROVE Inv'
    BY <1>1, <1>3, IdleOK, JobStep DEF Unheard, Finish, Become
  <1>4. CASE Tick /\ UNCHANGED orders
    BY <1>1, <1>4, JobStep DEF Tick
  <1>5. CASE Crash /\ UNCHANGED orders
    BY <1>1, <1>5, IdleOK, JobStep DEF Crash, Faulty
  <1> QED  BY <1>2, <1>3, <1>4, <1>5

(* Every step keeps the invariant.                                          *)
LEMMA NextInv == Inv /\ [OrdersAlone]_orderVars => Inv'
  <1> SUFFICES ASSUME Inv, [OrdersAlone]_orderVars  PROVE Inv'
    OBVIOUS
  <1>1. CASE OrderNext
    <2>1. ASSUME NEW j \in Jobs, OrderStep(j)  PROVE Inv'
      BY <2>1, SaveStep, ExpireOneStep DEF OrderStep
    <2> QED  BY <1>1, <2>1, UserCalls, ExpireStartStep, EndSteps DEF OrderNext
  <1>2. CASE \E o \in Orders, r \in Requests, c \in Customers, p \in Providers :
               Assigned(o, r, c, p)
    BY <1>2, AssignedStep
  <1>3. CASE \E j \in Jobs : Unheard(j)
    BY <1>3, EndSteps
  <1>4. CASE (Tick \/ Crash) /\ UNCHANGED orders
    BY <1>4, EndSteps
  <1>5. CASE UNCHANGED orderVars
    <2>1. clock \in Nat /\ faults \in Nat /\ job \in [Jobs -> JobState]
      BY DEF Inv, OrderTypeOK, JobState
    <2> QED  BY <1>5, <2>1, JobStep DEF orderVars
  <1> QED  BY <1>1, <1>2, <1>3, <1>4, <1>5 DEF OrdersAlone

(* The invariant holds at first.                                            *)
LEMMA OrderInitInv == OrderInit => Inv
  BY DEF OrderInit, BackendInit, Inv, OrderTypeOK, OrderExists, Relies, Idle, OrderCall

(* The invariant holds of every behaviour, whatever fails.                  *)
THEOREM OrderInvariant == OrderSpec => []Inv
  BY OrderInitInv, NextInv, PTL DEF OrderSpec

(* Every order fits the schema and every job the handlers' code.            *)
THEOREM OrderTypeCorrect == OrderSpec => []OrderTypeOK
  <1>1. Inv => OrderTypeOK
    BY DEF Inv
  <1> QED  BY <1>1, OrderInvariant, PTL

(* However the saves of orders.service.ts meet on one order, its status is  *)
(* backed by the date of the step that led to it.                           *)
THEOREM OrderDates == OrderSpec => []StatusHasDate
  <1>1. Inv => StatusHasDate
    BY DEF Inv, StatusHasDate, Dated
  <1> QED  BY <1>1, OrderInvariant, PTL

---------------------------------------------------------------------------
(* Finality.  A job that will write the status of o.                        *)
Writes(s, o) ==
  \/ s.op \in OrderCall \ {"order.ets"} /\ s.oid = o
  \/ s.op = "order.expire" /\ o \in s.batch

(* An ended order stays settled in a step that leaves its status alone and  *)
(* starts no job that will write it.                                        *)
LEMMA StaysSettled ==
  ASSUME NEW o \in Orders, SettledOrder(o), OrderExists(o)',
         orders'[o].status = orders[o].status,
         \A k \in Jobs : job'[k] = job[k] \/ ~Writes(job'[k], o)
  PROVE  SettledOrder(o)' /\ orders'[o].status = orders[o].status
  <1>1. \A k \in Jobs : ~Writes(job[k], o)
    BY DEF SettledOrder, WritingOrder, Writes
  <1>2. \A k \in Jobs : ~Writes(job'[k], o)
    BY <1>1
  <1>3. ~WritingOrder(o)'
    BY <1>2 DEF WritingOrder, Writes
  <1>4. Ended(o)'
    BY DEF SettledOrder, Ended
  <1> QED  BY <1>3, <1>4 DEF SettledOrder

(* No check lets a handler start that would write an ended order.           *)
LEMMA CallsSpareEnded ==
  ASSUME Inv, NEW o \in Orders, SettledOrder(o),
         NEW j \in Jobs, NEW q \in Orders, NEW user, OrderUserCall(j, q, user)
  PROVE  SettledOrder(o)' /\ orders'[o].status = orders[o].status
  <1>1. job \in [Jobs -> JobState]
    BY DEF Inv, OrderTypeOK, JobState
  <1>2. orders[o].status \in {"completed", "canceled"} /\ OrderExists(o)
    BY DEF SettledOrder, Ended
  <1>3. PICK op \in OrderCall : Call(j, q, op) /\ (op # "order.ets" => q # o)
    BY <1>2 DEF OrderUserCall, OrderCall, StartOrder, RequestCompletion, ApproveCompletion,
                DeclineCompletion, CancelOrder, SetProviderEts, Ongoing
  <1>4. \A k \in Jobs : job'[k] = IF k = j THEN [op |-> op, oid |-> q, at |-> clock] ELSE job[k]
    BY <1>1, <1>3 DEF Call, Become
  <1>5. \A k \in Jobs : job'[k] = job[k] \/ ~Writes(job'[k], o)
    BY <1>3, <1>4 DEF Writes, OrderCall
  <1>6. orders' = orders
    BY <1>3 DEF Call
  <1> QED  BY <1>2, <1>5, <1>6, StaysSettled DEF OrderExists

(* A save of another order leaves o alone, one of o was known to be coming, *)
(* unless it sets the ETS only.                                             *)
LEMMA SaveSparesEnded ==
  ASSUME Inv, NEW o \in Orders, SettledOrder(o), NEW j \in Jobs, SaveOrder(j)
  PROVE  SettledOrder(o)' /\ orders'[o].status = orders[o].status
  <1>1. job[j] \in JobState /\ job \in [Jobs -> JobState] /\ orders[o] \in OrderDoc
    BY DEF Inv, OrderTypeOK, JobState, SettledOrder, Ended, OrderExists
  <1>2. job[j].op \in OrderCall /\ job[j].oid \in Orders
    BY <1>1, JobKinds DEF SaveOrder, OrderCall, OrderEvent
  <1>3. job[j].op = "order.ets" \/ job[j].oid # o
    BY <1>2 DEF SettledOrder, WritingOrder
  <1>4. orders'[o] = orders[o] \/ orders'[o] = [orders[o] EXCEPT !.ets = TRUE]
    BY <1>2, <1>3 DEF SaveOrder, WriteOrder, Saved, Inv, OrderTypeOK
  <1>5. OrderExists(o)' /\ orders'[o].status = orders[o].status
    <2>1. [orders[o] EXCEPT !.ets = TRUE] \in OrderDoc
      BY <1>1 DEF OrderDoc
    <2>2. [orders[o] EXCEPT !.ets = TRUE].status = orders[o].status
      BY <1>1 DEF OrderDoc
    <2> QED  BY <1>1, <1>4, <2>1, <2>2, NullIsNoOrder DEF OrderExists
  <1>6. \A k \in Jobs : job'[k] = job[k] \/ ~Writes(job'[k], o)
    <2>1. \A k \in Jobs : job'[k] = IF k = j THEN Emitted(job[j].op, job[j].oid) ELSE job[k]
      BY <1>1 DEF SaveOrder, Become
    <2>2. Emitted(job[j].op, job[j].oid).op \in {"idle", "order.completed", "order.canceled"}
      BY <1>2 DEF Emitted, Idle, OrderCall
    <2> QED  BY <2>1, <2>2 DEF Writes, OrderCall
  <1> QED  BY <1>5, <1>6, StaysSettled

(* The cron completes what its query found, and finds no ended order.       *)
LEMMA CronSparesEnded ==
  ASSUME Inv, NEW o \in Orders, SettledOrder(o), NEW j \in Jobs
  PROVE  /\ ExpireStart(j)
              => SettledOrder(o)' /\ orders'[o].status = orders[o].status
         /\ \A q \in Orders, k \in Jobs : ExpireOne(j, q, k)
              => SettledOrder(o)' /\ orders'[o].status = orders[o].status
  <1>1. /\ job[j] \in JobState /\ job \in [Jobs -> JobState]
        /\ OrderExists(o) /\ orders[o].status \in {"completed", "canceled"}
    BY DEF Inv, OrderTypeOK, JobState, SettledOrder, Ended
  <1>2. ASSUME ExpireStart(j)
        PROVE  SettledOrder(o)' /\ orders'[o].status = orders[o].status
    <2>1. o \notin Expired(clock)
      BY <1>1 DEF Expired
    <2>2. \A k \in Jobs : job'[k] = IF k = j THEN [op |-> "order.expire", batch |-> Expired(clock)]
                                    ELSE job[k]
      BY <1>1, <1>2 DEF ExpireStart, Become
    <2>3. \A k \in Jobs : job'[k] = job[k] \/ ~Writes(job'[k], o)
      BY <2>1, <2>2 DEF Writes, OrderCall
    <2>4. orders' = orders
      BY <1>2 DEF ExpireStart
    <2> QED  BY <1>1, <2>3, <2>4, StaysSettled DEF OrderExists
  <1>3. ASSUME NEW q \in Orders, NEW k \in Jobs, ExpireOne(j, q, k)
        PROVE  SettledOrder(o)' /\ orders'[o].status = orders[o].status
    <2>1. q # o
      BY <1>3 DEF ExpireOne, SettledOrder, WritingOrder
    <2>2. orders'[o] = orders[o]
      BY <1>3, <2>1 DEF ExpireOne, WriteOrder, Inv, OrderTypeOK
    <2>3. \A i \in Jobs : ~Writes(job'[i], o) \/ job'[i] = job[i]
      <3>1. \A i \in Jobs \ {j, k} : job'[i] = job[i]
        BY <1>1, <1>3 DEF ExpireOne, Become
      <3>2. job'[k].op = "order.completed"
        BY <1>1, <1>3 DEF ExpireOne, Become
      <3>3. CASE k = j
        BY <3>1, <3>2, <3>3 DEF Writes, OrderCall
      <3>4. CASE k # j
        <4>1. job[j] \in [op : {"order.expire"}, batch : SUBSET Orders]
          BY <1>1, <1>3 DEF ExpireOne, JobState, OrderJob, Idle, OrderCall, OrderEvent
        <4>2. job'[j] = [job[j] EXCEPT !.batch = @ \ {q}]
          BY <1>1, <1>3, <3>4 DEF ExpireOne, Become
        <4>3. job'[j].op = "order.expire" /\ job'[j].batch \subseteq job[j].batch
          BY <4>1, <4>2
        <4>4. o \notin job[j].batch
          BY <1>3 DEF ExpireOne, SettledOrder, WritingOrder
        <4>5. ~Writes(job'[j], o)
          BY <4>3, <4>4 DEF Writes, OrderCall
        <4> QED  BY <3>1, <3>2, <4>5 DEF Writes, OrderCall
      <3> QED  BY <3>3, <3>4
    <2> QED  BY <1>1, <2>2, <2>3, StaysSettled DEF OrderExists
  <1> QED  BY <1>2, <1>3

(* The steps that save no order leave an ended one alone.                   *)
LEMMA RestSparesEnded ==
  ASSUME Inv, NEW o \in Orders, SettledOrder(o),
         \/ \E q \in Orders, r \in Requests, c \in Customers, p \in Providers : Assigned(q, r, c, p)
         \/ \E j \in Jobs : OrderAbort(j) \/ Unheard(j)
         \/ (Tick \/ Crash) /\ UNCHANGED orders
         \/ UNCHANGED orderVars
  PROVE  SettledOrder(o)' /\ orders'[o].status = orders[o].status
  <1>1. job \in [Jobs -> JobState] /\ OrderExists(o)
    BY DEF Inv, OrderTypeOK, JobState, SettledOrder, Ended
  <1>2. orders'[o] = orders[o]
    BY <1>1 DEF Assigned, WriteOrder, Inv, OrderTypeOK, OrderAbort, Unheard, orderVars
  <1>3. \A k \in Jobs : job'[k] = job[k] \/ job'[k] = Idle
    BY <1>1 DEF Assigned, OrderAbort, Abort, Unheard, Finish, Become, Tick, Crash, orderVars
  <1>4. \A k \in Jobs : job'[k] = job[k] \/ ~Writes(job'[k], o)
    BY <1>3 DEF Writes, Idle, OrderCall
  <1> QED  BY <1>1, <1>2, <1>4, StaysSettled DEF OrderExists

(* Every step leaves an ended order alone.                                  *)
LEMMA FinalStep ==
  ASSUME Inv, [OrdersAlone]_orderVars, NEW o \in Orders, SettledOrder(o)
  PROVE  SettledOrder(o)' /\ orders'[o].status = orders[o].status
  <1>1. CASE OrderNext
    <2>1. ASSUME NEW j \in Jobs, OrderStep(j)
          PROVE  SettledOrder(o)' /\ orders'[o].status = orders[o].status
      BY <2>1, SaveSparesEnded, CronSparesEnded DEF OrderStep
    <2> QED  BY <1>1, <2>1, CallsSpareEnded, CronSparesEnded, RestSparesEnded DEF OrderNext
  <1>2. CASE ~OrderNext
    BY <1>2, RestSparesEnded DEF OrdersAlone
  <1> QED  BY <1>1, <1>2

(* An order that is completed or canceled, and that no handler had loaded   *)
(* before, stays as it ended, whatever handlers and cron runs follow.       *)
THEOREM OrderFinal == OrderSpec => OrderFinality
  <1>1. Inv /\ [OrdersAlone]_orderVars
          => [\A o \in Orders : SettledOrder(o) =>
                SettledOrder(o)' /\ orders'[o].status = orders[o].status]_orderVars
    BY FinalStep
  <1> QED  BY <1>1, OrderInvariant, PTL DEF OrderSpec, OrderFinality

---------------------------------------------------------------------------
(* Refinement.  As long as no two operations in flight are about to write   *)
(* the status of the same order, every save is a step of OrderPromise.      *)
NoOverlap ==
  \A o \in Orders, i, j \in Jobs : Writes(job[i], o) /\ Writes(job[j], o) => i = j

(* Then the order a handler writes still is as the handler saw it.          *)
Fresh(s) ==
  /\ s.op = "order.start" => orders[s.oid].status = "assigned"
  /\ s.op = "order.request" => orders[s.oid].status = "in_progress" /\ s.at <= clock
  /\ s.op \in {"order.approve", "order.decline"} => orders[s.oid].status = "pending_completion"
  /\ s.op = "order.cancel" => Ongoing(s.oid)
  /\ s.op = "order.expire" => \A o \in s.batch : orders[o].status = "pending_completion"

AllFresh == \A j \in Jobs : Fresh(job[j])

PromisedNext == [OrderPromised!Next]_(OrderPromised!vars)

(* The fields that are seen are those of the document.                      *)
LEMMA SeenFields ==
  ASSUME NEW d \in OrderDoc
  PROVE  /\ SeenOrder(d).status = d.status
         /\ SeenOrder(d).requestedAt = d.requestedAt
         /\ SeenOrder(d) \in OrderView
         /\ SeenOrder(d) = [request |-> d.request, customer |-> d.customer,
                      provider |-> d.provider, status |-> d.status,
                      requestedAt |-> d.requestedAt]
  BY DEF SeenOrder, OrderDoc, OrderView

(* No order is seen as missing, and its status is the one seen.             *)
LEMMA SeenStatus ==
  ASSUME Inv, NEW o \in Orders
  PROVE  /\ OrderPromised!Status(o) = IF OrderExists(o) THEN orders[o].status ELSE "none"
         /\ SeenOrders[o] = IF OrderExists(o) THEN SeenOrder(orders[o]) ELSE None
  <1>1. SeenOrders[o] = IF OrderExists(o) THEN SeenOrder(orders[o]) ELSE None
    BY DEF OrderExists, SeenOrders
  <1>2. OrderExists(o) => SeenOrder(orders[o]).status = orders[o].status /\ SeenOrder(orders[o]) # None
    <2>1. OrderExists(o) => orders[o] \in OrderDoc
      BY ExistsIsOrder
    <2> QED  BY <2>1, SeenFields, NullIsNoOrder
  <1>3. OrderPromised!Status(o) = IF SeenOrders[o] = None THEN "none" ELSE SeenOrders[o].status
    BY DEF OrderPromised!Status
  <1> QED  BY <1>1, <1>2, <1>3

(* What each save changes of what is seen.                                  *)
LEMMA SavedSeen ==
  ASSUME NEW d \in OrderDoc, NEW at \in Nat
  PROVE  /\ SeenOrder(Started(d)) = [SeenOrder(d) EXCEPT !.status = "in_progress"]
         /\ SeenOrder(Requested(d, at)) =
              [SeenOrder(d) EXCEPT !.status = "pending_completion", !.requestedAt = at]
         /\ SeenOrder(Completed(d, at)) = [SeenOrder(d) EXCEPT !.status = "completed"]
         /\ SeenOrder(Declined(d)) = [SeenOrder(d) EXCEPT !.status = "in_progress", !.requestedAt = None]
         /\ SeenOrder(Canceled(d)) = [SeenOrder(d) EXCEPT !.status = "canceled"]
         /\ SeenOrder([d EXCEPT !.ets = TRUE]) = SeenOrder(d)
  <1> USE DEF SeenOrder, OrderDoc
  <1>1. SeenOrder(Started(d)) = [SeenOrder(d) EXCEPT !.status = "in_progress"]
    BY DEF Started
  <1>2. SeenOrder(Requested(d, at)) =
          [SeenOrder(d) EXCEPT !.status = "pending_completion", !.requestedAt = at]
    BY DEF Requested
  <1>3. SeenOrder(Completed(d, at)) = [SeenOrder(d) EXCEPT !.status = "completed"]
    BY DEF Completed
  <1>4. SeenOrder(Declined(d)) = [SeenOrder(d) EXCEPT !.status = "in_progress", !.requestedAt = None]
    BY DEF Declined
  <1>5. SeenOrder(Canceled(d)) = [SeenOrder(d) EXCEPT !.status = "canceled"]
    BY DEF Canceled
  <1>6. SeenOrder([d EXCEPT !.ets = TRUE]) = SeenOrder(d)
    OBVIOUS
  <1> QED  BY <1>1, <1>2, <1>3, <1>4, <1>5, <1>6

(* Writing a document is a change of what is seen of its order.             *)
LEMMA WriteSeen ==
  ASSUME Inv, NEW o \in Orders, NEW doc \in OrderDoc, WriteOrder(o, doc), UNCHANGED clock
  PROVE  /\ SeenOrders' = [SeenOrders EXCEPT ![o] = SeenOrder(doc)]
         /\ \A q \in Orders : orders'[q] = IF q = o THEN doc ELSE orders[q]
  <1>1. \A q \in Orders : orders'[q] = IF q = o THEN doc ELSE orders[q]
    BY DEF Inv, OrderTypeOK, WriteOrder
  <1>2. SeenOrders' = [SeenOrders EXCEPT ![o] = SeenOrder(doc)]
    BY <1>1, NullIsNoOrder DEF SeenOrders
  <1> QED  BY <1>1, <1>2

(* The orders a job in flight writes exist.                                 *)
LEMMA WrittenExists ==
  ASSUME Inv, NEW j \in Jobs, NEW o, Writes(job[j], o)
  PROVE  o \in Orders /\ OrderExists(o)
  <1>1. job[j] \in JobState /\ Relies(job[j])
    BY DEF Inv, OrderTypeOK, JobState
  <1> QED  BY <1>1, JobKinds DEF Writes, Relies, OrderCall, OrderEvent

(* A job that goes on stays fresh if the status of its orders stays.        *)
LEMMA StaysFresh ==
  ASSUME Inv, AllFresh, NEW k \in Jobs, job'[k] = job[k], clock' \in Nat, clock' >= clock,
         \A o \in Orders : Writes(job[k], o) => orders'[o].status = orders[o].status
  PROVE  Fresh(job[k])'
  <1>1. job[k] \in JobState /\ Fresh(job[k]) /\ clock \in Nat
    BY DEF Inv, OrderTypeOK, JobState, AllFresh
  <1>2. CASE job[k].op \in OrderCall \ {"order.ets"}
    <2>1. orders'[job[k].oid].status = orders[job[k].oid].status
      BY <1>2, WrittenExists DEF Writes
    <2>2. job[k].at \in Nat
      BY <1>1, <1>2, JobKinds DEF OrderCall, OrderEvent
    <2> QED  BY <1>1, <1>2, <2>1, <2>2 DEF Fresh, OrderCall, Ongoing
  <1>3. CASE job[k].op = "order.expire"
    <2>1. \A o \in job[k].batch : orders'[o].status = orders[o].status
      BY <1>3, WrittenExists DEF Writes
    <2> QED  BY <1>1, <1>3, <2>1 DEF Fresh
  <1>4. CASE job[k].op \in OrderEvent \cup {"idle", "order.ets"}
    BY <1>4 DEF Fresh, OrderEvent
  <1> QED  BY <1>1, <1>2, <1>3, <1>4, JobKinds DEF OrderCall

(* A step that leaves orders and time alone is seen as no step.             *)
LEMMA UnseenStep ==
  ASSUME Inv, AllFresh, UNCHANGED <<orders, clock>>,
         \A k \in Jobs : job'[k] = job[k] \/ Fresh(job'[k])
  PROVE  AllFresh' /\ UNCHANGED OrderPromised!vars
  <1>1. clock \in Nat
    BY DEF Inv, OrderTypeOK
  <1>2. \A k \in Jobs : Fresh(job[k])'
    <2> TAKE k \in Jobs
    <2>1. CASE job'[k] = job[k]
      BY <1>1, <2>1, StaysFresh
    <2>2. CASE Fresh(job'[k])
      BY <2>2 DEF Fresh, Ongoing
    <2> QED  BY <2>1, <2>2
  <1>3. UNCHANGED OrderPromised!vars
    BY DEF OrderPromised!vars, SeenOrders
  <1> QED  BY <1>2, <1>3 DEF AllFresh

(* A handler checks what its save needs.                                    *)
LEMMA CallsUnseen ==
  ASSUME Inv, AllFresh, NEW j \in Jobs, NEW o \in Orders, NEW user,
         OrderUserCall(j, o, user)
  PROVE  AllFresh' /\ UNCHANGED OrderPromised!vars
  <1>1. clock \in Nat /\ job \in [Jobs -> JobState]
    BY DEF Inv, OrderTypeOK, JobState
  <1>2. PICK op \in OrderCall :
          Call(j, o, op) /\ Fresh([op |-> op, oid |-> o, at |-> clock])
    BY <1>1 DEF OrderUserCall, OrderCall, StartOrder, RequestCompletion, ApproveCompletion,
                DeclineCompletion, CancelOrder, SetProviderEts, Fresh
  <1>3. \A k \in Jobs : job'[k] = job[k] \/ job'[k] = [op |-> op, oid |-> o, at |-> clock]
    BY <1>1, <1>2 DEF Call, Become
  <1> QED  BY <1>2, <1>3, UnseenStep DEF Call

(* The cron's query finds pending completions.                              *)
LEMMA CronStartUnseen ==
  ASSUME Inv, AllFresh, NEW j \in Jobs, ExpireStart(j)
  PROVE  AllFresh' /\ UNCHANGED OrderPromised!vars
  <1>1. job \in [Jobs -> JobState]
    BY DEF Inv, OrderTypeOK, JobState
  <1>2. Fresh([op |-> "order.expire", batch |-> Expired(clock)])
    BY DEF Fresh, Expired
  <1>3. \A k \in Jobs : job'[k] = job[k]
                          \/ job'[k] = [op |-> "order.expire", batch |-> Expired(clock)]
    BY <1>1 DEF ExpireStart, Become
  <1> QED  BY <1>2, <1>3, UnseenStep DEF ExpireStart

(* The steps of OrderPromise on what is seen of an order.                   *)
LEMMA PromisedSteps ==
  ASSUME NEW o \in Orders, NEW doc, UNCHANGED clock,
         SeenOrders' = [SeenOrders EXCEPT ![o] = doc]
  PROVE  LET status == OrderPromised!Status(o)
             seen   == SeenOrders[o]
         IN /\ status = "assigned" /\ doc = [seen EXCEPT !.status = "in_progress"]
                 => PromisedNext
            /\ \A at \in 0..clock :
                 status = "in_progress" /\
                 doc = [seen EXCEPT !.status = "pending_completion", !.requestedAt = at]
                   => PromisedNext
            /\ status = "pending_completion" /\
               doc = [seen EXCEPT !.status = "in_progress", !.requestedAt = None]
                 => PromisedNext
            /\ status = "pending_completion" /\ doc = [seen EXCEPT !.status = "completed"]
                 => PromisedNext
            /\ status \in {"assigned", "in_progress", "pending_completion"} /\
               doc = [seen EXCEPT !.status = "canceled"]
                 => PromisedNext
            /\ status = "none" /\
               (\E r \in Requests, c \in Customers, p \in Providers :
                  doc = [request |-> r, customer |-> c, provider |-> p,
                         status |-> "assigned", requestedAt |-> None])
                 => PromisedNext
  <1> DEFINE status == OrderPromised!Status(o)
             seen   == SeenOrders[o]
  <1> USE DEF PromisedNext, OrderPromised!Next
  <1>1. OrderPromised!Change(o, doc)
    BY DEF OrderPromised!Change
  <1>2. ASSUME status = "assigned", doc = [seen EXCEPT !.status = "in_progress"]
        PROVE  PromisedNext
    <2>1. OrderPromised!Start(o)
      BY <1>1, <1>2 DEF OrderPromised!Start, OrderPromised!Move
    <2> QED  BY <2>1
  <1>3. ASSUME NEW at \in 0..clock, status = "in_progress",
               doc = [seen EXCEPT !.status = "pending_completion", !.requestedAt = at]
        PROVE  PromisedNext
    <2>1. OrderPromised!AskApproval(o)
      BY <1>1, <1>3 DEF OrderPromised!AskApproval
    <2> QED  BY <2>1
  <1>4. ASSUME status = "pending_completion",
               doc = [seen EXCEPT !.status = "in_progress", !.requestedAt = None]
        PROVE  PromisedNext
    <2>1. OrderPromised!Refuse(o)
      BY <1>1, <1>4 DEF OrderPromised!Refuse
    <2> QED  BY <2>1
  <1>5. ASSUME status = "pending_completion", doc = [seen EXCEPT !.status = "completed"]
        PROVE  PromisedNext
    <2>1. OrderPromised!Approve(o)
      BY <1>1, <1>5 DEF OrderPromised!Approve, OrderPromised!Move
    <2> QED  BY <2>1
  <1>6. ASSUME status \in {"assigned", "in_progress", "pending_completion"},
               doc = [seen EXCEPT !.status = "canceled"]
        PROVE  PromisedNext
    <2>1. OrderPromised!Cancel(o)
      BY <1>1, <1>6 DEF OrderPromised!Cancel
    <2> QED  BY <2>1
  <1>7. ASSUME status = "none",
               \E r \in Requests, c \in Customers, p \in Providers :
                 doc = [request |-> r, customer |-> c, provider |-> p,
                        status |-> "assigned", requestedAt |-> None]
        PROVE  PromisedNext
    <2>1. OrderPromised!Assign(o)
      BY <1>1, <1>7 DEF OrderPromised!Assign
    <2> QED  BY <2>1
  <1> HIDE DEF PromisedNext
  <1> QED  BY <1>2, <1>3, <1>4, <1>5, <1>6, <1>7

(* A save that nobody came before is the step of OrderPromise it stands for.*)
LEMMA SaveIsStep ==
  ASSUME Inv, AllFresh, NEW j \in Jobs, NEW o \in Orders, SaveOrder(j), o = job[j].oid
  PROVE  /\ PromisedNext
         /\ \A q \in Orders : q # o => orders'[q] = orders[q]
         /\ job[j].op = "order.ets" => orders'[o].status = orders[o].status
  <1> DEFINE d == orders[o]
             doc == Saved(job[j].op, d, job[j].at)
  <1>1. job[j] \in JobState /\ Fresh(job[j]) /\ Relies(job[j]) /\ clock \in Nat
    BY DEF Inv, OrderTypeOK, JobState, AllFresh
  <1>2. job[j].op \in OrderCall /\ job[j].at \in Nat
    BY <1>1, JobKinds DEF SaveOrder, OrderCall, OrderEvent
  <1>3. d \in OrderDoc /\ Dated(d) /\ OrderExists(o)
    BY <1>1, <1>2, ExistsIsOrder DEF Relies
  <1>4. doc \in OrderDoc
    BY <1>1, <1>2, <1>3, SavedOK DEF Relies
  <1>5. WriteOrder(o, doc) /\ UNCHANGED clock
    BY DEF SaveOrder
  <1>6. /\ SeenOrders' = [SeenOrders EXCEPT ![o] = SeenOrder(doc)]
        /\ \A q \in Orders : orders'[q] = IF q = o THEN doc ELSE orders[q]
    BY <1>4, <1>5, WriteSeen
  <1>7. OrderPromised!Status(o) = d.status /\ SeenOrders[o] = SeenOrder(d)
    BY <1>3, SeenStatus
  <1> HIDE DEF doc, d
  <1>8. PromisedNext
    <2>1. CASE job[j].op = "order.start"
      <3>1. SeenOrder(doc) = [SeenOrder(d) EXCEPT !.status = "in_progress"] /\ d.status = "assigned"
        BY <1>1, <1>3, <2>1, SavedSeen DEF Fresh, Saved, OrderCall, d, doc
      <3> QED  BY <1>5, <1>6, <1>7, <3>1, PromisedSteps
    <2>2. CASE job[j].op = "order.request"
      <3>1. doc = Requested(d, job[j].at)
        BY <2>2 DEF Saved, doc, d
      <3>2. SeenOrder(doc) = [SeenOrder(d) EXCEPT !.status = "pending_completion",
                                                  !.requestedAt = job[j].at]
        BY <1>2, <1>3, <3>1, SavedSeen DEF d
      <3>3. d.status = "in_progress" /\ job[j].at \in 0..clock
        BY <1>1, <1>2, <2>2 DEF Fresh, d
      <3> QED  BY <1>5, <1>6, <1>7, <3>2, <3>3, PromisedSteps
    <2>3. CASE job[j].op = "order.approve"
      <3>1. doc = Completed(d, job[j].at)
        BY <2>3 DEF Saved, doc, d
      <3>2. SeenOrder(doc) = [SeenOrder(d) EXCEPT !.status = "completed"]
        BY <1>2, <1>3, <3>1, SavedSeen DEF d
      <3>3. d.status = "pending_completion"
        BY <1>1, <2>3 DEF Fresh, d
      <3> QED  BY <1>5, <1>6, <1>7, <3>2, <3>3, PromisedSteps
    <2>4. CASE job[j].op = "order.decline"
      <3>1. doc = Declined(d)
        BY <2>4 DEF Saved, doc, d
      <3>2. SeenOrder(doc) = [SeenOrder(d) EXCEPT !.status = "in_progress",
                                                  !.requestedAt = None]
        BY <1>2, <1>3, <3>1, SavedSeen DEF d
      <3>3. d.status = "pending_completion"
        BY <1>1, <2>4 DEF Fresh, d
      <3> QED  BY <1>5, <1>6, <1>7, <3>2, <3>3, PromisedSteps
    <2>5. CASE job[j].op = "order.cancel"
      <3>1. /\ SeenOrder(doc) = [SeenOrder(d) EXCEPT !.status = "canceled"]
            /\ d.status \in {"assigned", "in_progress", "pending_completion"}
        BY <1>1, <1>2, <1>3, <2>5, SavedSeen
        DEF Fresh, Saved, Ongoing, OrderDoc, OrderStatus, d, doc
      <3> QED  BY <1>5, <1>6, <1>7, <3>1, PromisedSteps
    <2>6. CASE job[j].op = "order.ets"
      <3>1. SeenOrder(doc) = SeenOrder(d)
        BY <1>1, <1>2, <1>3, <2>6, SavedSeen DEF Saved, d, doc
      <3>2. SeenOrders' = SeenOrders
        BY <1>6, <1>7, <3>1 DEF SeenOrders
      <3> QED  BY <1>5, <3>2 DEF PromisedNext, OrderPromised!vars
    <2> QED  BY <1>2, <2>1, <2>2, <2>3, <2>4, <2>5, <2>6 DEF OrderCall
  <1>9. job[j].op = "order.ets" => doc.status = d.status
    BY <1>3 DEF Saved, OrderDoc, doc
  <1> QED  BY <1>6, <1>8, <1>9 DEF d

(* With the events it emits, a save leaves the other handlers fresh.        *)
LEMMA SaveSeen ==
  ASSUME Inv, AllFresh, NoOverlap, NEW j \in Jobs, SaveOrder(j)
  PROVE  AllFresh' /\ PromisedNext
  <1>1. job[j] \in JobState /\ job \in [Jobs -> JobState] /\ clock \in Nat
    BY DEF Inv, OrderTypeOK, JobState
  <1>2. PICK o \in Orders : o = job[j].oid
    BY <1>1, JobKinds DEF SaveOrder, OrderCall, OrderEvent
  <1>3. /\ PromisedNext
        /\ \A q \in Orders : q # o => orders'[q] = orders[q]
        /\ job[j].op = "order.ets" => orders'[o].status = orders[o].status
    BY <1>2, SaveIsStep
  <1>4. ASSUME NEW k \in Jobs, k # j  PROVE Fresh(job[k])'
    <2>1. job'[k] = job[k] /\ clock' = clock
      BY <1>1, <1>4 DEF SaveOrder, Become
    <2>2. ASSUME NEW q \in Orders, Writes(job[k], q)  PROVE orders'[q].status = orders[q].status
      <3>1. q = o => job[j].op = "order.ets"
        BY <1>2, <1>4, <2>2 DEF NoOverlap, Writes, SaveOrder
      <3> QED  BY <1>3, <3>1
    <2> QED  BY <1>1, <2>1, <2>2, StaysFresh
  <1>5. Fresh(job[j])'
    <2>1. job'[j] = Emitted(job[j].op, job[j].oid)
      BY <1>1 DEF SaveOrder, Become
    <2>2. job'[j].op \in {"idle", "order.completed", "order.canceled"}
      BY <2>1 DEF Emitted, Idle, SaveOrder, OrderCall
    <2> QED  BY <2>2 DEF Fresh
  <1> QED  BY <1>3, <1>4, <1>5 DEF AllFresh

(* So does a save of the cron.                                              *)
LEMMA CronSeen ==
  ASSUME Inv, AllFresh, NoOverlap, NEW j \in Jobs, NEW o \in Orders, NEW k \in Jobs,
         ExpireOne(j, o, k)
  PROVE  AllFresh' /\ PromisedNext
  <1> DEFINE d == orders[o]
             doc == Completed(d, clock)
  <1>1. /\ job[j] \in JobState /\ job \in [Jobs -> JobState] /\ clock \in Nat
        /\ Relies(job[j]) /\ Fresh(job[j])
        /\ job[j].op = "order.expire" /\ o \in job[j].batch
    BY DEF Inv, OrderTypeOK, JobState, AllFresh, ExpireOne
  <1>2. d \in OrderDoc /\ Dated(d) /\ OrderExists(o) /\ d.status = "pending_completion"
    BY <1>1, ExistsIsOrder DEF Relies, Fresh
  <1>3. doc \in OrderDoc /\ SeenOrder(doc) = [SeenOrder(d) EXCEPT !.status = "completed"]
    BY <1>1, <1>2, CompletedOK, SavedSeen
  <1>4. WriteOrder(o, doc) /\ UNCHANGED clock
    BY DEF ExpireOne
  <1>5. /\ SeenOrders' = [SeenOrders EXCEPT ![o] = SeenOrder(doc)]
        /\ \A q \in Orders : orders'[q] = IF q = o THEN doc ELSE orders[q]
    BY <1>3, <1>4, WriteSeen
  <1>6. OrderPromised!Status(o) = d.status /\ SeenOrders[o] = SeenOrder(d)
    BY <1>2, SeenStatus
  <1> HIDE DEF doc, d
  <1>7. PromisedNext
    BY <1>2, <1>3, <1>4, <1>5, <1>6, PromisedSteps
  <1>8. ASSUME NEW i \in Jobs, i # j, i # k  PROVE Fresh(job[i])'
    <2>1. job'[i] = job[i] /\ clock' = clock
      BY <1>1, <1>8 DEF ExpireOne, Become
    <2>2. ASSUME NEW q \in Orders, Writes(job[i], q)  PROVE q # o
      BY <1>1, <1>8, <2>2 DEF NoOverlap, Writes
    <2>3. \A q \in Orders : Writes(job[i], q) => orders'[q].status = orders[q].status
      BY <1>5, <2>2
    <2> QED  BY <1>1, <2>1, <2>3, StaysFresh
  <1>9. Fresh(job[k])'
    <2>1. job'[k].op = "order.completed"
      BY <1>1 DEF ExpireOne, Become
    <2> QED  BY <2>1 DEF Fresh
  <1>10. ASSUME k # j  PROVE Fresh(job[j])'
    <2>1. job[j] \in [op : {"order.expire"}, batch : SUBSET Orders]
      BY <1>1 DEF JobState, OrderJob, Idle, OrderCall, OrderEvent
    <2>2. job'[j] = [job[j] EXCEPT !.batch = @ \ {o}]
      BY <1>1, <1>10 DEF ExpireOne, Become
    <2>3. job'[j].op = "order.expire" /\ job'[j].batch = job[j].batch \ {o}
      BY <2>1, <2>2
    <2>4. \A q \in job'[j].batch : q \in Orders /\ q # o /\ orders[q].status = "pending_completion"
      BY <1>1, <2>1, <2>3 DEF Fresh
    <2>5. \A q \in job'[j].batch : orders'[q].status = "pending_completion"
      BY <1>5, <2>4
    <2> QED  BY <2>3, <2>5 DEF Fresh
  <1> QED  BY <1>7, <1>8, <1>9, <1>10 DEF AllFresh

(* An order that appears is one of OrderPromise, and no handler knew it.    *)
LEMMA AssignedSeen ==
  ASSUME Inv, AllFresh, NEW o \in Orders, NEW r \in Requests, NEW c \in Customers,
         NEW p \in Providers, Assigned(o, r, c, p)
  PROVE  AllFresh' /\ PromisedNext
  <1>1. NewOrder(r, c, p) \in OrderDoc /\ clock \in Nat
    BY DEF NewOrder, OrderDoc, OrderStatus, Inv, OrderTypeOK
  <1>2. SeenOrder(NewOrder(r, c, p)) =
          [request |-> r, customer |-> c, provider |-> p,
           status |-> "assigned", requestedAt |-> None]
    BY DEF SeenOrder, NewOrder
  <1>3. WriteOrder(o, NewOrder(r, c, p)) /\ UNCHANGED <<job, clock>> /\ ~OrderExists(o)
    BY DEF Assigned
  <1>4. /\ SeenOrders' = [SeenOrders EXCEPT ![o] = SeenOrder(NewOrder(r, c, p))]
        /\ \A q \in Orders : orders'[q] = IF q = o THEN NewOrder(r, c, p) ELSE orders[q]
    BY <1>1, <1>3, WriteSeen
  <1>5. OrderPromised!Status(o) = "none"
    BY <1>3, SeenStatus
  <1>6. PromisedNext
    BY <1>2, <1>3, <1>4, <1>5, PromisedSteps
  <1>7. ASSUME NEW k \in Jobs  PROVE Fresh(job[k])'
    <2>1. \A q \in Orders : Writes(job[k], q) => q # o
      BY <1>3, WrittenExists
    <2>2. \A q \in Orders : Writes(job[k], q) => orders'[q].status = orders[q].status
      BY <1>4, <2>1
    <2> QED  BY <1>1, <1>3, <2>2, StaysFresh
  <1> QED  BY <1>6, <1>7 DEF AllFresh

(* Time passes, a handler ends or is cut off.                               *)
LEMMA EndsSeen ==
  ASSUME Inv, AllFresh,
         \/ \E j \in Jobs : OrderAbort(j) \/ Unheard(j)
         \/ (Tick \/ Crash) /\ UNCHANGED orders
         \/ UNCHANGED orderVars
  PROVE  AllFresh' /\ PromisedNext
  <1>1. job \in [Jobs -> JobState] /\ clock \in Nat
    BY DEF Inv, OrderTypeOK, JobState
  <1>2. CASE Tick /\ UNCHANGED orders
    <2>1. OrderPromised!Tick
      BY <1>2 DEF Tick, OrderPromised!Tick, SeenOrders
    <2>2. \A k \in Jobs : Fresh(job[k])'
      BY <1>1, <1>2, StaysFresh DEF Tick
    <2> QED  BY <2>1, <2>2 DEF AllFresh, PromisedNext, OrderPromised!Next
  <1>3. CASE ~(Tick /\ UNCHANGED orders)
    <2>1. /\ UNCHANGED <<orders, clock>>
          /\ \A k \in Jobs : job'[k] = job[k] \/ job'[k] = Idle
      BY <1>1, <1>3 DEF OrderAbort, Abort, Unheard, Finish, Become, Crash, orderVars
    <2>2. Fresh(Idle)
      BY DEF Fresh, Idle
    <2>3. AllFresh' /\ UNCHANGED OrderPromised!vars
      BY <2>1, <2>2, UnseenStep
    <2> QED  BY <2>3 DEF PromisedNext
  <1> QED  BY <1>2, <1>3

(* Every step is a step of OrderPromise or none.                            *)
LEMMA StepSeen == Inv /\ AllFresh /\ NoOverlap /\ [OrdersAlone]_orderVars => AllFresh' /\ PromisedNext
  <1> SUFFICES ASSUME Inv, AllFresh, NoOverlap, [OrdersAlone]_orderVars
               PROVE  AllFresh' /\ PromisedNext
    OBVIOUS
  <1>1. CASE OrderNext
    <2>1. ASSUME NEW j \in Jobs, OrderStep(j)  PROVE AllFresh' /\ PromisedNext
      BY <2>1, SaveSeen, CronSeen DEF OrderStep
    <2>2. ASSUME NEW j \in Jobs, NEW o \in Orders, NEW user, OrderUserCall(j, o, user)
          PROVE  AllFresh' /\ PromisedNext
      BY <2>2, CallsUnseen DEF PromisedNext
    <2>3. ASSUME NEW j \in Jobs, ExpireStart(j)  PROVE AllFresh' /\ PromisedNext
      BY <2>3, CronStartUnseen DEF PromisedNext
    <2> QED  BY <1>1, <2>1, <2>2, <2>3, EndsSeen DEF OrderNext
  <1>2. CASE ~OrderNext
    BY <1>2, AssignedSeen, EndsSeen DEF OrdersAlone
  <1> QED  BY <1>1, <1>2

(* OrderService implements the safety part of OrderPromise as long as no    *)
(* two operations in flight are about to write the status of one order:     *)
(* with every check still true at its save, a save is an atomic step, also  *)
(* when handlers are cut off and the cron completes a batch among them.     *)
THEOREM OrderKeepsPromise == OrderSpec /\ []NoOverlap => OrderPromised!Lifecycle
  <1>1. OrderInit => OrderPromised!Init /\ AllFresh
    BY DEF OrderInit, BackendInit, OrderPromised!Init, SeenOrders, AllFresh, Fresh, Idle
  <1>2. OrderSpec => []Inv
    BY OrderInvariant
  <1>3. Inv /\ AllFresh /\ NoOverlap /\ [OrdersAlone]_orderVars
          => AllFresh' /\ [OrderPromised!Next]_(OrderPromised!vars)
    BY StepSeen DEF PromisedNext
  <1> QED  BY <1>1, <1>2, <1>3, PTL DEF OrderSpec, OrderPromised!Lifecycle

(* One handler at a time never overlaps: the setting of run serial.         *)
THEOREM OrderSerial ==
  ASSUME \A i, j \in Jobs : i = j
  PROVE  OrderSpec => OrderPromised!Lifecycle
  <1>1. NoOverlap
    BY DEF NoOverlap
  <1> QED  BY <1>1, OrderKeepsPromise, PTL
================================================================================
