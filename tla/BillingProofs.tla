---------------------------- MODULE BillingProofs ----------------------------
(***************************************************************************)
(* Theorems about Billing, for every number of technicians, plans,         *)
(* sessions and threads, and any bounds.                                   *)
(***************************************************************************)
EXTENDS Billing, TLAPS

-----------------------------------------------------------------------------
(* Types *)

LEMMA ZeroInstant == 0 \in Instant
BY TimeAssumption DEF Instant

LEMMA IdleType == Idle \in Request
BY ZeroInstant DEF Idle, Request, Pc

LEMMA EventType == \A s \in Session : PaidEvent(s) \in Event /\ FailedEvent(s) \in Event
BY DEF PaidEvent, FailedEvent, Event

\* What a thread at each point of a handler has in its hands.
Holding(t) ==
    /\ At(t, "checkout") =>
            /\ web[t].user \in User /\ web[t].plan \in Plan /\ web[t].session \in Session
    /\ At(t, "cancel") => web[t].user \in User /\ subs[web[t].user] # None
    /\ web[t].pc \in {"activate", "record", "answer"} =>
            web[t].event \in Event /\ sessions[About(t)] # None

EventsOpen == \A e \in events : sessions[e.session] # None

TypeInv == TypeOK /\ EventsOpen /\ \A t \in Web : Holding(t)

LEMMA TypeInit == Init => TypeInv
BY IdleType, TimeAssumption
   DEF Init, TypeInv, TypeOK, Instant, PlanState, EventsOpen, Holding, At, Idle

\* A handler that goes on keeps what it holds.
LEMMA GoType ==
    ASSUME TypeOK, NEW t \in Web, NEW pc \in Pc, Go(t, pc)
    PROVE  web' \in [Web -> Request]
BY DEF TypeOK, Go, Request

LEMMA DoneType ==
    ASSUME TypeOK, NEW t \in Web, Done(t)
    PROVE  web' \in [Web -> Request]
BY IdleType DEF TypeOK, Done

\* A thread other than the one that moves still holds what it held, as no step
\* deletes a subscription or a session.
LEMMA OthersHold ==
    ASSUME TypeInv, NEW t \in Web, NEW r, web' = [web EXCEPT ![t] = r],
           NEW o \in Web, o # t,
           \A u \in User : subs[u] # None => subs'[u] # None,
           \A s \in Session : sessions[s] # None => sessions'[s] # None
    PROVE  Holding(o)'
<1>1. web'[o] = web[o]
  BY DEF TypeInv, TypeOK
<1>2. web[o].event \in Event => About(o) \in Session
  BY DEF About, Event
<1> QED BY <1>1, <1>2 DEF TypeInv, Holding, At, About

-----------------------------------------------------------------------------
(* Types: one lemma for each action that writes more than the thread's own state *)

LEMMA SubscribeType ==
    ASSUME TypeInv, NEW t \in Web, NEW u \in User, NEW p \in Plan, NEW s \in Session,
           Subscribe(t, u, p, s)
    PROVE  TypeInv'
<1> DEFINE r == [Idle EXCEPT !.pc = "checkout", !.user = u, !.plan = p, !.session = s]
<1>1. r \in Request
  BY ZeroInstant DEF Idle, Request, Pc
<1>2. TypeOK'
  BY <1>1 DEF TypeInv, TypeOK, Subscribe
<1>3. Holding(t)'
  BY DEF TypeInv, TypeOK, Subscribe, Holding, At, Idle
<1>4. \A o \in Web \ {t} : Holding(o)'
  BY OthersHold DEF Subscribe
<1> QED BY <1>2, <1>3, <1>4 DEF TypeInv, EventsOpen, Subscribe

LEMMA OpenCheckoutType ==
    ASSUME TypeInv, NEW t \in Web, OpenCheckout(t)
    PROVE  TypeInv'
<1>1. web' \in [Web -> Request]
  BY DoneType DEF OpenCheckout, TypeInv
<1> DEFINE c == [user |-> web[t].user, plan |-> web[t].plan, paid |-> FALSE]
<1>2. c \in Checkout
  BY DEF OpenCheckout, TypeInv, TypeOK, Checkout, Holding
<1>3. /\ sessions' \in [Session -> Checkout \cup {None}]
      /\ \A s \in Session : sessions[s] # None => sessions'[s] # None
  <2>1. CASE sessions' = [sessions EXCEPT ![web[t].session] = c]
    BY <1>2, <2>1, NoneAssumption DEF TypeInv, TypeOK
  <2>2. CASE UNCHANGED sessions
    BY <2>2 DEF TypeInv, TypeOK
  <2> QED BY <2>1, <2>2 DEF OpenCheckout
<1>4. TypeOK'
  BY <1>1, <1>3, TimeAssumption DEF TypeInv, TypeOK, OpenCheckout, Spend
<1>5. Holding(t)'
  BY DEF TypeInv, TypeOK, OpenCheckout, Done, Holding, At, Idle
<1>6. \A o \in Web \ {t} : Holding(o)'
  BY <1>3, OthersHold DEF OpenCheckout, Done
<1>7. EventsOpen'
  BY <1>3 DEF EventsOpen, TypeInv, TypeOK, Event, OpenCheckout
<1> QED BY <1>4, <1>5, <1>6, <1>7 DEF TypeInv

LEMMA CancelType ==
    ASSUME TypeInv, NEW t \in Web, NEW u \in User, Cancel(t, u)
    PROVE  TypeInv'
<1> DEFINE r == [Idle EXCEPT !.pc = "cancel", !.user = u]
<1>1. r \in Request
  BY ZeroInstant DEF Idle, Request, Pc
<1>2. TypeOK'
  BY <1>1 DEF TypeInv, TypeOK, Cancel
<1>3. Holding(t)'
  BY DEF TypeInv, TypeOK, Cancel, IsActive, Holding, At, Idle
<1>4. \A o \in Web \ {t} : Holding(o)'
  BY OthersHold DEF Cancel
<1> QED BY <1>2, <1>3, <1>4 DEF TypeInv, EventsOpen, Cancel

LEMMA CancelSaveType ==
    ASSUME TypeInv, NEW t \in Web, CancelSave(t)
    PROVE  TypeInv'
<1>1. web' \in [Web -> Request]
  BY DoneType DEF CancelSave, TypeInv
<1>2. web[t].user \in User /\ subs[web[t].user] \in Subscription
  BY DEF CancelSave, TypeInv, TypeOK, Holding
<1>3. [subs[web[t].user] EXCEPT !.status = "cancelled"] \in Subscription
  BY <1>2 DEF Subscription
<1>4. /\ subs' \in [User -> Subscription \cup {None}]
      /\ \A u \in User : subs[u] # None => subs'[u] # None
  BY <1>2, <1>3, NoneAssumption DEF CancelSave, TypeInv, TypeOK
<1>5. TypeOK'
  BY <1>1, <1>4 DEF TypeInv, TypeOK, CancelSave
<1>6. Holding(t)'
  BY DEF TypeInv, TypeOK, CancelSave, Done, Holding, At, Idle
<1>7. \A o \in Web \ {t} : Holding(o)'
  BY <1>4, OthersHold DEF CancelSave, Done
<1> QED BY <1>5, <1>6, <1>7 DEF TypeInv, EventsOpen, CancelSave

LEMMA DeliverType ==
    ASSUME TypeInv, NEW t \in Web, NEW e \in events, Deliver(t, e)
    PROVE  TypeInv'
<1> DEFINE r(pc) == [Idle EXCEPT !.event = e, !.now = now, !.pc = pc]
<1>1. PICK pc \in {"answer", "activate"} : web' = [web EXCEPT ![t] = r(pc)]
  BY DEF Deliver
<1>2. r(pc) \in Request
  BY DEF TypeInv, TypeOK, Idle, Request, Pc
<1>3. TypeOK'
  BY <1>1, <1>2 DEF TypeInv, TypeOK, Deliver
<1>4. web'[t].pc = pc /\ web'[t].event = e
  BY <1>1 DEF TypeInv, TypeOK, Idle
<1>5. Holding(t)'
  BY <1>4 DEF TypeInv, TypeOK, EventsOpen, Deliver, Holding, At, About
<1>6. \A o \in Web \ {t} : Holding(o)'
  BY <1>1, OthersHold DEF Deliver
<1> QED BY <1>3, <1>5, <1>6 DEF TypeInv, EventsOpen, Deliver

\* The session of the event in a thread's hands.
LEMMA AboutType ==
    ASSUME TypeInv, NEW t \in Web, web[t].pc \in {"activate", "record", "answer"}
    PROVE  About(t) \in Session /\ sessions[About(t)] \in Checkout
BY DEF TypeInv, TypeOK, Holding, About, Event

LEMMA PeriodEndType ==
    ASSUME TypeOK, NEW t \in Web
    PROVE  web[t].now \in Instant /\ PeriodEnd(t) \in 0 .. MaxTime + Month
BY TimeAssumption DEF TypeOK, Request, PeriodEnd, Instant

\* slowest only grows, and covers the webhook that writes.
LEMMA TookType ==
    ASSUME TypeOK, NEW t \in Web, Took(t)
    PROVE  /\ slowest' \in Nat /\ slowest <= slowest'
           /\ Age(t) \in Int /\ Age(t) <= slowest'
<1>1. slowest \in Nat /\ Age(t) \in Int
  BY TimeAssumption DEF TypeOK, Request, Instant, Age
<1> QED BY <1>1 DEF Took

LEMMA ActivateType ==
    ASSUME TypeInv, NEW t \in Web, Activate(t)
    PROVE  TypeInv'
<1> DEFINE c == sessions[About(t)]
           n == [plan |-> c.plan, status |-> "active",
                 start |-> web[t].now, end |-> PeriodEnd(t)]
<1>1. c \in Checkout
  BY AboutType DEF Activate, At
<1>2. n \in Subscription /\ c.user \in User
  BY <1>1, PeriodEndType DEF Checkout, Subscription, TypeInv
<1>3. CASE subs' = [subs EXCEPT ![c.user] = n] /\ Took(t) /\ Go(t, "record")
  <2>1. /\ subs' \in [User -> Subscription \cup {None}]
        /\ \A u \in User : subs[u] # None => subs'[u] # None
    BY <1>2, <1>3, NoneAssumption DEF TypeInv, TypeOK
  <2>2. web' \in [Web -> Request]
    BY <1>3, GoType DEF TypeInv, Pc
  <2>3. TypeOK'
    <3>1. slowest' \in Nat
      BY <1>3, TookType DEF TypeInv
    <3> QED BY <2>1, <2>2, <3>1 DEF TypeInv, TypeOK, Activate
  <2>4. web'[t].pc = "record" /\ web'[t].event = web[t].event
    BY <1>3 DEF Go, TypeInv, TypeOK, Request
  <2>5. Holding(t)'
    BY <2>4 DEF TypeInv, Holding, At, About, Activate
  <2>6. \A o \in Web \ {t} : Holding(o)'
    BY <1>3, <2>1, OthersHold DEF Activate, Go
  <2> QED BY <2>3, <2>5, <2>6 DEF TypeInv, EventsOpen, Activate
<1>4. CASE Done(t) /\ UNCHANGED <<subs, slowest>>
  <2>1. web' \in [Web -> Request]
    BY <1>4, DoneType DEF TypeInv
  <2>2. TypeOK'
    BY <1>4, <2>1 DEF TypeInv, TypeOK, Activate
  <2>3. Holding(t)'
    BY <1>4 DEF TypeInv, TypeOK, Done, Holding, At, Idle
  <2>4. \A o \in Web \ {t} : Holding(o)'
    BY <1>4, OthersHold DEF Activate, Done
  <2> QED BY <2>2, <2>3, <2>4 DEF TypeInv, EventsOpen, Activate
<1> QED BY <1>3, <1>4 DEF Activate

LEMMA RecordType ==
    ASSUME TypeInv, NEW t \in Web, Record(t)
    PROVE  TypeInv'
<1>1. [status |-> "paid", start |-> web[t].now, end |-> PeriodEnd(t)] \in Payment
  BY PeriodEndType DEF Payment, TypeInv
<1>2. payments' \in [Session -> Payment \cup {None}]
  BY <1>1 DEF Record, TypeInv, TypeOK
<1>3. web' \in [Web -> Request]
  BY GoType DEF Record, TypeInv, Pc
<1>4. TypeOK'
  BY <1>2, <1>3 DEF TypeInv, TypeOK, Record
<1>5. web'[t].pc = "answer" /\ web'[t].event = web[t].event
  BY DEF Record, Go, TypeInv, TypeOK, Request
<1>6. Holding(t)'
  BY <1>5 DEF TypeInv, Holding, At, About, Record
<1>7. \A o \in Web \ {t} : Holding(o)'
  BY OthersHold DEF Record, Go
<1> QED BY <1>4, <1>6, <1>7 DEF TypeInv, EventsOpen, Record

LEMMA DeliverFailedType ==
    ASSUME TypeInv, NEW t \in Web, NEW e \in events, DeliverFailed(t, e)
    PROVE  TypeInv'
<1> DEFINE r == [Idle EXCEPT !.pc = "answer", !.event = e]
<1>1. r \in Request
  BY ZeroInstant DEF TypeInv, TypeOK, Idle, Request, Pc
<1>2. payments[e.session] # None =>
          [payments[e.session] EXCEPT !.status = "failed"] \in Payment
  BY DEF TypeInv, TypeOK, Payment, Event
<1>3. payments' \in [Session -> Payment \cup {None}]
  BY <1>2 DEF DeliverFailed, TypeInv, TypeOK
<1>4. TypeOK'
  BY <1>1, <1>3 DEF TypeInv, TypeOK, DeliverFailed
<1>5. web'[t] = r
  BY DEF DeliverFailed, TypeInv, TypeOK
<1>6. Holding(t)'
  BY <1>5 DEF TypeInv, TypeOK, EventsOpen, DeliverFailed, Holding, At, About, Idle
<1>7. \A o \in Web \ {t} : Holding(o)'
  BY OthersHold DEF DeliverFailed
<1> QED BY <1>4, <1>6, <1>7 DEF TypeInv, EventsOpen, DeliverFailed

\* A step that only ends a handler, and may drop events.
LEMMA DoneKeepsType ==
    ASSUME TypeInv, NEW t \in Web, Done(t), events' \subseteq events,
           trouble' \in 0 .. MaxTrouble,
           UNCHANGED <<now, plans, subs, payments, sessions, slowest>>
    PROVE  TypeInv'
<1>1. TypeOK'
  BY DoneType DEF TypeInv, TypeOK
<1>2. Holding(t)'
  BY DEF TypeInv, TypeOK, Done, Holding, At, Idle
<1>3. \A o \in Web \ {t} : Holding(o)'
  BY OthersHold DEF Done
<1> QED BY <1>1, <1>2, <1>3 DEF TypeInv, EventsOpen

LEMMA SpendType == TypeOK /\ Spend => trouble' \in 0 .. MaxTrouble
BY TimeAssumption DEF TypeOK, Spend

LEMMA AcknowledgeType ==
    ASSUME TypeInv, NEW t \in Web, Acknowledge(t)
    PROVE  TypeInv'
<1>1. trouble' \in 0 .. MaxTrouble
  BY SpendType DEF Acknowledge, TypeInv, TypeOK
<1> QED BY <1>1, DoneKeepsType DEF Acknowledge

LEMMA StopType ==
    ASSUME TypeInv, NEW t \in Web, Stop(t)
    PROVE  TypeInv'
BY SpendType, DoneKeepsType DEF Stop, TypeInv

\* A step outside the application keeps what the threads hold.
LEMMA OutsideHolds ==
    ASSUME TypeInv, UNCHANGED <<subs, web>>,
           \A s \in Session : sessions[s] # None => sessions'[s] # None
    PROVE  \A t \in Web : Holding(t)'
<1> SUFFICES ASSUME NEW t \in Web PROVE Holding(t)'
  OBVIOUS
<1>1. web[t].event \in Event => About(t) \in Session
  BY DEF About, Event
<1> QED BY <1>1 DEF TypeInv, Holding, At, About

LEMMA PayType ==
    ASSUME TypeInv, NEW s \in Session, Pay(s)
    PROVE  TypeInv'
<1>1. [sessions[s] EXCEPT !.paid = TRUE] \in Checkout
  BY DEF Pay, TypeInv, TypeOK, Checkout
<1>2. /\ sessions' \in [Session -> Checkout \cup {None}]
      /\ sessions'[s] # None
      /\ \A r \in Session : sessions[r] # None => sessions'[r] # None
  BY <1>1, NoneAssumption DEF Pay, TypeInv, TypeOK
<1>3. TypeOK'
  BY <1>2, EventType DEF Pay, TypeInv, TypeOK
<1>4. EventsOpen'
  BY <1>2 DEF Pay, EventsOpen, TypeInv, TypeOK, PaidEvent, Event
<1> QED BY <1>2, <1>3, <1>4, OutsideHolds DEF Pay, TypeInv

LEMMA DeclineType ==
    ASSUME TypeInv, NEW s \in Session, Decline(s)
    PROVE  TypeInv'
<1>1. TypeOK'
  BY EventType DEF Decline, TypeInv, TypeOK
<1>2. EventsOpen'
  BY DEF Decline, EventsOpen, TypeInv, FailedEvent
<1> QED BY <1>1, <1>2, OutsideHolds DEF Decline, TypeInv

LEMMA PlanType ==
    ASSUME TypeInv, NEW p \in Plan, Retire(p) \/ DeletePlan(p)
    PROVE  TypeInv'
<1>1. TypeOK' /\ UNCHANGED <<subs, web, sessions, events>>
  BY DEF Retire, DeletePlan, TypeInv, TypeOK, PlanState
<1> QED BY <1>1, OutsideHolds DEF TypeInv, EventsOpen

LEMMA TickType ==
    ASSUME TypeInv, Tick
    PROVE  TypeInv'
<1>1. TypeOK' /\ UNCHANGED <<subs, web, sessions, events>>
  BY TimeAssumption DEF Tick, TypeInv, TypeOK, Instant
<1> QED BY <1>1, OutsideHolds DEF TypeInv, EventsOpen

LEMMA TypeStep == TypeInv /\ [Next]_vars => TypeInv'
<1> SUFFICES ASSUME TypeInv, [Next]_vars PROVE TypeInv'
  OBVIOUS
<1>1. CASE Next
  BY <1>1, SubscribeType, CancelType, DeliverType, DeliverFailedType,
     OpenCheckoutType, CancelSaveType, ActivateType, RecordType, AcknowledgeType,
     StopType, PayType, DeclineType, PlanType, TickType
     DEF Next, Handle
<1>2. CASE UNCHANGED vars
  <2>1. TypeOK' /\ UNCHANGED <<subs, web, sessions, events>>
    BY <1>2 DEF vars, TypeInv, TypeOK
  <2> QED BY <2>1, OutsideHolds DEF TypeInv, EventsOpen
<1> QED BY <1>1, <1>2

\* What a thread holds at each point of a handler is what that point needs, so
\* that the state always has its type.
THEOREM BillingTypeCorrect == Spec => []TypeOK
<1>1. Spec => []TypeInv
  BY TypeInit, TypeStep, PTL DEF Spec
<1>2. TypeInv => TypeOK
  BY DEF TypeInv
<1> QED BY <1>1, <1>2, PTL

-----------------------------------------------------------------------------
(* What the webhook guarantees about money and access.  The properties are not *)
(* inductive: they rest on what a webhook knows between its clock and its      *)
(* answer (Justified, Extended, Finished), on every period ending within a     *)
(* month of the present (WithinMonth, PaidWithinMonth) and on plans in use not *)
(* being deleted (Protected).                                                  *)

\* No two threads open one session, and none opens a session twice.
OwnSession ==
    \A t \in Web : At(t, "checkout") =>
        /\ sessions[web[t].session] = None
        /\ \A o \in Web \ {t} : At(o, "checkout") => web[o].session # web[t].session

\* A webhook about to write handles money that was taken, read the clock in the
\* past, and PayMongo has not been told to forget the money.
Busy(t) == web[t].pc \in {"activate", "record"}
Justified(t) ==
    Busy(t) =>
        /\ web[t].event = PaidEvent(About(t))
        /\ web[t].now <= now
        /\ Paid(About(t))
        /\ Recorded(About(t)) \/ Announced(About(t)) \/ Gone(About(t))

\* A webhook about to record a payment has extended the subscription for it, and
\* others that wrote it since have not taken off more than they took.
Extended(t) ==
    At(t, "record") =>
        /\ subs[sessions[About(t)].user] # None
        /\ PeriodEnd(t) <= subs[sessions[About(t)].user].end + slowest

\* A webhook about to answer 200 has nothing left to do.
Finished(t) ==
    At(t, "answer") /\ web[t].event.type = "payment.paid" =>
        Recorded(About(t)) \/ Gone(About(t))

\* No subscription and no payment runs for longer than a month from now, and the
\* plan of no subscription is deleted.
WithinMonth == \A u \in User : subs[u] # None => subs[u].end <= now + Month
PaidWithinMonth == \A s \in Session : Recorded(s) => payments[s].end <= now + Month
Protected == \A u \in User : subs[u] # None => plans[subs[u].plan] # "deleted"

\* Only money that was taken is announced; only opened sessions have payments.
AnnouncedPaid == \A s \in Session : Announced(s) => Paid(s)
RecordedOpen == \A s \in Session : Recorded(s) => sessions[s] # None

SafetyInv ==
    /\ TypeInv
    /\ OwnSession
    /\ \A t \in Web : Justified(t) /\ Extended(t) /\ Finished(t)
    /\ WithinMonth
    /\ PaidWithinMonth
    /\ Protected
    /\ AnnouncedPaid
    /\ RecordedOpen
    /\ PeriodCovered
    /\ SubscriptionIsPaidFor
    /\ AcknowledgedIsRecorded

LEMMA SafetyInit == Init => SafetyInv
BY TypeInit
   DEF Init, SafetyInv, OwnSession, Justified, Extended, Finished, WithinMonth,
       PaidWithinMonth, Protected, AnnouncedPaid, RecordedOpen, PeriodCovered, SubscriptionIsPaidFor,
       AcknowledgedIsRecorded, Busy, At, Idle, Paid, Recorded, Announced

-----------------------------------------------------------------------------
(* What a step may do to each piece of the state *)

\* A session keeps its user and plan, and stays paid.
LEMMA SessionsStep ==
    ASSUME TypeInv, OwnSession, [Next]_vars, NEW s \in Session, sessions[s] # None
    PROVE  /\ sessions'[s] # None
           /\ sessions'[s].user = sessions[s].user
           /\ sessions'[s].plan = sessions[s].plan
           /\ sessions[s].paid => sessions'[s].paid
<1>1. CASE UNCHANGED sessions
  BY <1>1
<1>2. ASSUME NEW t \in Web, OpenCheckout(t) PROVE UNCHANGED sessions \/ sessions'[s] = sessions[s]
  BY <1>2 DEF OpenCheckout, OwnSession, TypeInv, TypeOK
<1>3. ASSUME NEW r \in Session, Pay(r)
      PROVE  /\ sessions'[s] # None
             /\ sessions'[s].user = sessions[s].user
             /\ sessions'[s].plan = sessions[s].plan
             /\ sessions[s].paid => sessions'[s].paid
  <2>1. sessions[s] \in Checkout
    BY DEF TypeInv, TypeOK
  <2>2. [sessions[s] EXCEPT !.paid = TRUE] \in Checkout
    BY <2>1 DEF Checkout
  <2>3. sessions'[s] = sessions[s] \/ sessions'[s] = [sessions[s] EXCEPT !.paid = TRUE]
    BY <1>3 DEF Pay, TypeInv, TypeOK
  <2> QED BY <2>1, <2>2, <2>3, NoneAssumption DEF Checkout
<1> QED BY <1>1, <1>2, <1>3
        DEF Next, Handle, Subscribe, Cancel, Deliver, DeliverFailed, CancelSave,
            Activate, Record, Acknowledge, Stop, Decline, Retire, DeletePlan, Tick, vars

\* A payment on record stays on record with its end, unless its own webhook
\* records it again.
LEMMA PaymentsStep ==
    ASSUME TypeInv, [Next]_vars, NEW s \in Session
    PROVE  \/ payments'[s] = payments[s]
           \/ Recorded(s) /\ Recorded(s)' /\ payments'[s].end = payments[s].end
           \/ \E t \in Web : Record(t) /\ About(t) = s
<1>1. CASE UNCHANGED payments
  BY <1>1
<1>2. ASSUME NEW t \in Web, Record(t)
      PROVE  payments'[s] = payments[s] \/ About(t) = s
  BY <1>2 DEF Record, TypeInv, TypeOK
<1>3. ASSUME NEW t \in Web, NEW e \in events, DeliverFailed(t, e)
      PROVE  \/ payments'[s] = payments[s]
             \/ Recorded(s) /\ Recorded(s)' /\ payments'[s].end = payments[s].end
  <2>1. payments[s] # None =>
            /\ [payments[s] EXCEPT !.status = "failed"] \in Payment
            /\ [payments[s] EXCEPT !.status = "failed"].end = payments[s].end
    BY DEF TypeInv, TypeOK, Payment
  <2>2. \/ payments'[s] = payments[s]
        \/ payments[s] # None /\ payments'[s] = [payments[s] EXCEPT !.status = "failed"]
    BY <1>3 DEF DeliverFailed, TypeInv, TypeOK
  <2> QED BY <2>1, <2>2, NoneAssumption DEF Recorded
<1> QED BY <1>1, <1>2, <1>3
        DEF Next, Handle, Subscribe, Cancel, Deliver, CancelSave, OpenCheckout,
            Activate, Acknowledge, Stop, Pay, Decline, Retire, DeletePlan, Tick, vars

\* A deleted plan stays deleted, and only a plan without subscriptions is deleted.
LEMMA PlansStep ==
    ASSUME TypeInv, [Next]_vars, NEW p \in Plan
    PROVE  /\ plans[p] = "deleted" => plans'[p] = "deleted"
           /\ plans[p] # "deleted" /\ plans'[p] = "deleted" =>
                 /\ UNCHANGED subs
                 /\ \A u \in User : subs[u] # None => subs[u].plan # p
<1>1. CASE UNCHANGED plans
  BY <1>1
<1>2. ASSUME NEW q \in Plan, Retire(q) \/ DeletePlan(q)
      PROVE  /\ plans[p] = "deleted" => plans'[p] = "deleted"
             /\ plans[p] # "deleted" /\ plans'[p] = "deleted" =>
                   /\ UNCHANGED subs
                   /\ \A u \in User : subs[u] # None => subs[u].plan # p
  BY <1>2 DEF Retire, DeletePlan, TypeInv, TypeOK
<1> QED BY <1>1, <1>2
        DEF Next, Handle, Subscribe, Cancel, Deliver, DeliverFailed, CancelSave,
            OpenCheckout, Activate, Record, Acknowledge, Stop, Pay, Decline, Tick, vars

\* Activate has written a subscription and noted how long it took.
Wrote(t) == Took(t) /\ At(t, "activate") /\ web'[t].pc = "record"

\* The subscription a successful Activate writes.
LEMMA ActivateWrites ==
    ASSUME TypeInv, NEW t \in Web, Activate(t), NEW u \in User
    PROVE  \/ subs'[u] = subs[u]
           \/ /\ u = sessions[About(t)].user
              /\ plans[sessions[About(t)].plan] # "deleted"
              /\ subs'[u] # None
              /\ subs'[u].plan = sessions[About(t)].plan
              /\ subs'[u].end = PeriodEnd(t) /\ Wrote(t)
<1> DEFINE c == sessions[About(t)]
           n == [plan |-> c.plan, status |-> "active",
                 start |-> web[t].now, end |-> PeriodEnd(t)]
<1>1. c \in Checkout
  BY AboutType DEF Activate, At
<1>2. n \in Subscription
  BY <1>1, PeriodEndType DEF Checkout, Subscription, TypeInv
<1>3. CASE /\ plans[c.plan] # "deleted" /\ subs' = [subs EXCEPT ![c.user] = n]
            /\ Took(t) /\ Go(t, "record")
  <2>1. CASE u = c.user
    <3>1. subs'[u] = n
      BY <1>3, <2>1 DEF TypeInv, TypeOK
    <3>2. Wrote(t)
      BY <1>3 DEF Wrote, Activate, Go, TypeInv, TypeOK, Request
    <3> QED BY <1>2, <1>3, <2>1, <3>1, <3>2, NoneAssumption
  <2>2. CASE u # c.user
    BY <1>3, <2>2 DEF TypeInv, TypeOK
  <2> QED BY <2>1, <2>2
<1> QED BY <1>3 DEF Activate

\* A subscription keeps its plan and its end, or Activate writes it.
LEMMA SubsStep ==
    ASSUME TypeInv, [Next]_vars, NEW u \in User
    PROVE  \/ subs'[u] = subs[u]
           \/ /\ subs[u] # None /\ subs'[u] # None
              /\ subs'[u].plan = subs[u].plan /\ subs'[u].end = subs[u].end
           \/ /\ subs'[u] # None
              /\ \E t \in Web :
                    /\ Activate(t)
                    /\ u = sessions[About(t)].user
                    /\ plans[sessions[About(t)].plan] # "deleted"
                    /\ subs'[u].plan = sessions[About(t)].plan
                    /\ subs'[u].end = PeriodEnd(t) /\ Wrote(t)
<1>1. CASE UNCHANGED subs
  BY <1>1
<1>2. ASSUME NEW t \in Web, Activate(t)
      PROVE  \/ subs'[u] = subs[u]
             \/ /\ u = sessions[About(t)].user
                /\ plans[sessions[About(t)].plan] # "deleted"
                /\ subs'[u] # None
                /\ subs'[u].plan = sessions[About(t)].plan
                /\ subs'[u].end = PeriodEnd(t) /\ Wrote(t)
  BY <1>2, ActivateWrites
<1>3. ASSUME NEW t \in Web, CancelSave(t)
      PROVE  \/ subs'[u] = subs[u]
             \/ /\ subs[u] # None /\ subs'[u] # None
                /\ subs'[u].plan = subs[u].plan /\ subs'[u].end = subs[u].end
  <2>1. web[t].user \in User /\ subs[web[t].user] \in Subscription
    BY <1>3 DEF CancelSave, TypeInv, TypeOK, Holding
  <2> DEFINE v == web[t].user
             n == [subs[v] EXCEPT !.status = "cancelled"]
  <2>2. n \in Subscription /\ n.plan = subs[v].plan /\ n.end = subs[v].end
    BY <2>1 DEF Subscription
  <2>3. subs' = [subs EXCEPT ![v] = n]
    BY <1>3 DEF CancelSave
  <2>4. CASE u = v
    BY <2>1, <2>2, <2>3, <2>4, NoneAssumption DEF TypeInv, TypeOK
  <2>5. CASE u # v
    BY <2>3, <2>5 DEF TypeInv, TypeOK
  <2> QED BY <2>4, <2>5
<1> QED BY <1>1, <1>2, <1>3
        DEF Next, Handle, Subscribe, Cancel, Deliver, DeliverFailed, OpenCheckout,
            Record, Acknowledge, Stop, Pay, Decline, Retire, DeletePlan, Tick, vars

\* PayMongo forgets only what a finished webhook answers 200 for.
LEMMA EventsStep ==
    ASSUME TypeInv, \A t \in Web : Finished(t), [Next]_vars,
           NEW s \in Session, Announced(s)
    PROVE  Announced(s)' \/ Recorded(s) \/ Gone(s)
<1>1. CASE UNCHANGED events
  BY <1>1 DEF Announced, PaidEvent
<1>2. ASSUME NEW r \in Session, Pay(r) \/ Decline(r) PROVE Announced(s)'
  BY <1>2 DEF Pay, Decline, Announced, PaidEvent
<1>3. ASSUME NEW t \in Web, Acknowledge(t) PROVE Announced(s)' \/ Recorded(s) \/ Gone(s)
  <2>1. CASE web[t].event = PaidEvent(s)
    BY <1>3, <2>1 DEF Acknowledge, Finished, About, PaidEvent
  <2>2. CASE web[t].event # PaidEvent(s)
    BY <1>3, <2>2 DEF Acknowledge, Announced, PaidEvent
  <2> QED BY <2>1, <2>2
<1> QED BY <1>1, <1>2, <1>3
        DEF Next, Handle, Subscribe, Cancel, Deliver, DeliverFailed, OpenCheckout,
            CancelSave, Activate, Record, Stop, Retire, DeletePlan, Tick, vars

\* What is new in events was taken in the same step.
LEMMA AnnouncedStep ==
    ASSUME TypeInv, [Next]_vars, NEW s \in Session, Announced(s)', ~Announced(s)
    PROVE  Paid(s)'
<1>1. ASSUME NEW r \in Session, Pay(r) PROVE Paid(s)'
  <2>1. r = s
    BY <1>1 DEF Pay, Announced, PaidEvent
  <2>2. [sessions[s] EXCEPT !.paid = TRUE] \in Checkout
    BY <1>1, <2>1 DEF Pay, TypeInv, TypeOK, Checkout
  <2>3. sessions[s] \in Checkout
    BY <1>1, <2>1 DEF Pay, TypeInv, TypeOK
  <2>4. sessions'[s] = [sessions[s] EXCEPT !.paid = TRUE]
    BY <1>1, <2>1 DEF Pay, TypeInv, TypeOK
  <2> QED BY <2>2, <2>3, <2>4, NoneAssumption DEF Paid, Checkout
<1>2. ASSUME NEW r \in Session, Decline(r) PROVE FALSE
  BY <1>2 DEF Decline, Announced, PaidEvent, FailedEvent
<1> QED BY <1>1, <1>2
        DEF Next, Handle, Subscribe, Cancel, Deliver, DeliverFailed, OpenCheckout,
            CancelSave, Activate, Record, Acknowledge, Stop, Retire, DeletePlan, Tick,
            vars, Announced, PaidEvent

LEMMA DeliverWrites ==
    ASSUME TypeInv, NEW o \in Web, NEW e \in events, Deliver(o, e)
    PROVE  /\ e = PaidEvent(e.session) /\ e.session \in Session
           /\ web'[o].event = e /\ web'[o].now = now
           /\ \/ web'[o].pc = "answer" /\ Gone(e.session)
              \/ web'[o].pc = "activate"
<1>1. e \in Event /\ e.type = "payment.paid"
  BY DEF Deliver, TypeInv, TypeOK
<1>2. e = PaidEvent(e.session) /\ e.session \in Session
  BY <1>1 DEF Event, PaidEvent
<1>3. CASE plans[sessions[e.session].plan] = "deleted"
  <2>1. web'[o] = [Idle EXCEPT !.event = e, !.now = now, !.pc = "answer"]
    BY <1>3 DEF Deliver, TypeInv, TypeOK
  <2>2. Gone(e.session)
    BY <1>3 DEF Gone, TypeInv, EventsOpen
  <2> QED BY <1>2, <2>1, <2>2 DEF Idle
<1>4. CASE plans[sessions[e.session].plan] # "deleted"
  <2>1. web'[o] = [Idle EXCEPT !.event = e, !.now = now, !.pc = "activate"]
    BY <1>4 DEF Deliver, TypeInv, TypeOK
  <2> QED BY <1>2, <2>1 DEF Idle
<1> QED BY <1>3, <1>4

\* How a thread may come to be where it is.
LEMMA WebStep ==
    ASSUME TypeInv, [Next]_vars, NEW o \in Web
    PROVE  \/ web'[o] = web[o]
           \/ web'[o] = Idle
           \/ \E u \in User, p \in Plan, s \in Session : Subscribe(o, u, p, s)
           \/ \E u \in User : Cancel(o, u)
           \/ \E e \in events : Deliver(o, e) \/ DeliverFailed(o, e)
           \/ Activate(o) /\ web'[o] = [web[o] EXCEPT !.pc = "record"]
           \/ Record(o) /\ web'[o] = [web[o] EXCEPT !.pc = "answer"]
<1>1. CASE UNCHANGED web
  BY <1>1
<1>2. ASSUME NEW t \in Web, NEW u \in User, NEW p \in Plan, NEW s \in Session,
             Subscribe(t, u, p, s)
      PROVE  t = o \/ web'[o] = web[o]
  BY <1>2 DEF Subscribe, TypeInv, TypeOK
<1>3. ASSUME NEW t \in Web, NEW u \in User, Cancel(t, u)
      PROVE  t = o \/ web'[o] = web[o]
  BY <1>3 DEF Cancel, TypeInv, TypeOK
<1>4. ASSUME NEW t \in Web, NEW e \in events, Deliver(t, e) \/ DeliverFailed(t, e)
      PROVE  t = o \/ web'[o] = web[o]
  BY <1>4 DEF Deliver, DeliverFailed, TypeInv, TypeOK
<1>5. ASSUME NEW t \in Web, Done(t)
      PROVE  web'[o] = Idle \/ web'[o] = web[o]
  BY <1>5 DEF Done, TypeInv, TypeOK
<1>6. ASSUME NEW t \in Web, NEW pc, Go(t, pc)
      PROVE  \/ web'[o] = web[o]
             \/ t = o /\ web'[o] = [web[o] EXCEPT !.pc = pc]
  BY <1>6 DEF Go, TypeInv, TypeOK
<1>7. ASSUME NEW t \in Web, Activate(t)
      PROVE  web'[o] = web[o] \/ web'[o] = Idle \/ (t = o /\ web'[o] = [web[o] EXCEPT !.pc = "record"])
  BY <1>5, <1>6, <1>7 DEF Activate
<1>8. ASSUME NEW t \in Web, Record(t)
      PROVE  web'[o] = web[o] \/ (t = o /\ web'[o] = [web[o] EXCEPT !.pc = "answer"])
  BY <1>6, <1>8 DEF Record
<1> QED BY <1>1, <1>2, <1>3, <1>4, <1>5, <1>7, <1>8
        DEF Next, Handle, OpenCheckout, CancelSave, Acknowledge, Stop,
            Pay, Decline, Retire, DeletePlan, Tick, vars

\* Time does not go back.
LEMMA NowStep ==
    ASSUME TypeInv, [Next]_vars
    PROVE  now \in Nat /\ now' \in Nat /\ now <= now'
<1>1. now \in Nat
  BY DEF TypeInv, TypeOK, Instant
<1>2. now' = now \/ now' = now + 1
  BY DEF Next, Handle, Subscribe, Cancel, Deliver, DeliverFailed, OpenCheckout, CancelSave,
         Activate, Record, Acknowledge, Stop, Pay, Decline, Retire, DeletePlan, Tick, vars
<1> QED BY <1>1, <1>2

LEMMA SlowestStep ==
    ASSUME TypeInv, [Next]_vars
    PROVE  slowest \in Nat /\ slowest' \in Nat /\ slowest <= slowest'
<1>1. ASSUME UNCHANGED slowest PROVE slowest <= slowest'
  BY <1>1 DEF TypeInv, TypeOK
<1>2. ASSUME NEW t \in Web, Activate(t) PROVE slowest <= slowest'
  BY <1>1, <1>2, TookType DEF Activate, TypeInv
<1>3. slowest <= slowest'
  BY <1>1, <1>2
     DEF Next, Handle, Subscribe, Cancel, Deliver, DeliverFailed, OpenCheckout, CancelSave,
         Record, Acknowledge, Stop, Pay, Decline, Retire, DeletePlan, Tick, vars
<1>4. slowest \in Nat /\ slowest' \in Nat
  BY TypeStep DEF TypeInv, TypeOK
<1> QED BY <1>3, <1>4

\* Only an open checkout of a thread turns no session into a session.
LEMMA FreshStep ==
    ASSUME TypeInv, [Next]_vars, NEW s \in Session, sessions[s] = None
    PROVE  \/ sessions'[s] = None
           \/ \E t \in Web : OpenCheckout(t) /\ web[t].session = s
<1>1. CASE UNCHANGED sessions
  BY <1>1
<1>2. ASSUME NEW t \in Web, OpenCheckout(t)
      PROVE  sessions'[s] = None \/ web[t].session = s
  BY <1>2 DEF OpenCheckout, TypeInv, TypeOK
<1>3. ASSUME NEW r \in Session, Pay(r)
      PROVE  sessions'[s] = None
  BY <1>3 DEF Pay, TypeInv, TypeOK
<1> QED BY <1>1, <1>2, <1>3
        DEF Next, Handle, Subscribe, Cancel, Deliver, DeliverFailed, CancelSave,
            Activate, Record, Acknowledge, Stop, Decline, Retire, DeletePlan, Tick, vars

-----------------------------------------------------------------------------
(* Each part of SafetyInv is preserved *)

LEMMA OwnSessionStep == SafetyInv /\ [Next]_vars => OwnSession'
<1> SUFFICES ASSUME SafetyInv, [Next]_vars, NEW t \in Web, At(t, "checkout")'
             PROVE  /\ sessions'[web'[t].session] = None
                    /\ \A o \in Web \ {t} :
                          At(o, "checkout")' => web'[o].session # web'[t].session
  BY DEF OwnSession
<1> USE DEF SafetyInv
\* A thread that has a session to open had it before, or subscribes now.
<1>1. ASSUME NEW o \in Web, At(o, "checkout")'
      PROVE  \/ web'[o] = web[o]
             \/ \E u \in User, p \in Plan, s \in Session : Subscribe(o, u, p, s)
  <2>1. /\ Idle.pc # "checkout"
        /\ [web[o] EXCEPT !.pc = "record"].pc # "checkout"
        /\ [web[o] EXCEPT !.pc = "answer"].pc # "checkout"
    BY DEF Idle, TypeInv, TypeOK, Request
  <2>2. \A u \in User : Cancel(o, u) => web'[o].pc # "checkout"
    BY DEF Cancel, TypeInv, TypeOK, Idle
  <2>3. \A e \in events : Deliver(o, e) \/ DeliverFailed(o, e) => web'[o].pc # "checkout"
    <3>1. \A e \in events : Deliver(o, e) => web'[o].pc # "checkout"
      BY DeliverWrites
    <3>2. \A e \in events : DeliverFailed(o, e) => web'[o].pc # "checkout"
      BY DEF DeliverFailed, TypeInv, TypeOK, Idle
    <3> QED BY <3>1, <3>2
  <2> QED BY <1>1, <2>1, <2>2, <2>3, WebStep DEF At
<1>2. ASSUME NEW u \in User, NEW p \in Plan, NEW s \in Session, NEW x \in Web,
             Subscribe(x, u, p, s)
      PROVE  /\ web'[x].session = s
             /\ sessions'[s] = None
             /\ \A o \in Web \ {x} : web'[o] = web[o] /\ web[o].session # s
  BY <1>2 DEF Subscribe, TypeInv, TypeOK, Idle
<1>3. CASE \E u \in User, p \in Plan, s \in Session, x \in Web : Subscribe(x, u, p, s)
  <2>1. PICK u \in User, p \in Plan, s \in Session, x \in Web : Subscribe(x, u, p, s)
    BY <1>3
  <2>2. UNCHANGED sessions
    BY <2>1 DEF Subscribe
  <2>3. CASE t = x
    BY <1>2, <2>1, <2>3
  <2>4. CASE t # x
    <3>1. web'[t] = web[t] /\ At(t, "checkout") /\ web[t].session # s /\ web'[x].session = s
      BY <1>2, <2>1, <2>4 DEF At
    <3>2. \A o \in Web \ {t, x} : web'[o] = web[o]
      BY <1>2, <2>1
    <3> QED BY <2>2, <3>1, <3>2 DEF OwnSession, At
  <2> QED BY <2>3, <2>4
<1>4. CASE ~\E u \in User, p \in Plan, s \in Session, x \in Web : Subscribe(x, u, p, s)
  <2>1. \A o \in Web : At(o, "checkout")' => web'[o] = web[o] /\ At(o, "checkout")
    BY <1>1, <1>4 DEF At
  <2>2. web[t].session \in Session /\ sessions[web[t].session] = None
    BY <2>1 DEF OwnSession, TypeInv, Holding
  <2>3. ASSUME NEW x \in Web, OpenCheckout(x), web[x].session = web[t].session
        PROVE  FALSE
    <3>1. x = t
      BY <2>1, <2>3 DEF OwnSession, OpenCheckout
    <3>2. web'[t].pc = "idle"
      BY <2>3, <3>1 DEF OpenCheckout, Done, TypeInv, TypeOK, Idle
    <3> QED BY <3>2 DEF At
  <2>4. sessions'[web[t].session] = None
    BY <2>2, <2>3, FreshStep
  <2> QED BY <2>1, <2>4 DEF OwnSession
<1> QED BY <1>3, <1>4

\* What a thread that is busy, or about to answer, did to come to be there.
LEMMA BusyStep ==
    ASSUME TypeInv, [Next]_vars, NEW o \in Web, Busy(o)'
    PROVE  \/ web'[o] = web[o]
           \/ At(o, "activate")' /\ \E e \in events : Deliver(o, e)
           \/ Activate(o) /\ web'[o] = [web[o] EXCEPT !.pc = "record"]
<1>1. /\ ~(Idle.pc \in {"activate", "record"})
      /\ ~([web[o] EXCEPT !.pc = "answer"].pc \in {"activate", "record"})
  BY DEF Idle, TypeInv, TypeOK, Request
<1>2. \A u \in User, p \in Plan, s \in Session :
          Subscribe(o, u, p, s) => web'[o].pc = "checkout"
  BY DEF Subscribe, TypeInv, TypeOK, Idle
<1>3. \A u \in User : Cancel(o, u) => web'[o].pc = "cancel"
  BY DEF Cancel, TypeInv, TypeOK, Idle
<1>4. \A e \in events : DeliverFailed(o, e) => web'[o].pc = "answer"
  BY DEF DeliverFailed, TypeInv, TypeOK, Idle
<1>5. \A e \in events : Deliver(o, e) => web'[o].pc \in {"answer", "activate"}
  BY DeliverWrites
<1> QED BY <1>1, <1>2, <1>3, <1>4, <1>5, WebStep DEF Busy, At

LEMMA RecordWrites ==
    ASSUME TypeInv, NEW t \in Web, Record(t)
    PROVE  Recorded(About(t))' /\ payments'[About(t)].end = PeriodEnd(t)
<1>1. [status |-> "paid", start |-> web[t].now, end |-> PeriodEnd(t)] \in Payment
  BY PeriodEndType DEF Payment, TypeInv
<1>2. About(t) \in Session
  BY AboutType DEF Record, At
<1>3. payments'[About(t)] = [status |-> "paid", start |-> web[t].now, end |-> PeriodEnd(t)]
  BY <1>2 DEF Record, TypeInv, TypeOK
<1>4. About(t)' = About(t)
  BY DEF Record, Go, About, TypeInv, TypeOK, Request
<1> QED BY <1>1, <1>3, <1>4, NoneAssumption DEF Recorded

LEMMA RecordedStays ==
    ASSUME TypeInv, [Next]_vars, NEW s \in Session, Recorded(s)
    PROVE  Recorded(s)'
<1>1. SUFFICES ASSUME NEW t \in Web, Record(t), About(t) = s PROVE Recorded(s)'
  BY PaymentsStep DEF Recorded
<1>2. payments'[s] # None
  <2>1. [status |-> "paid", start |-> web[t].now, end |-> PeriodEnd(t)] \in Payment
    BY PeriodEndType DEF Payment, TypeInv
  <2> QED BY <1>1, <2>1, NoneAssumption DEF Record, TypeInv, TypeOK
<1> QED BY <1>2 DEF Recorded

LEMMA GoneStays ==
    ASSUME TypeInv, OwnSession, [Next]_vars, NEW s \in Session, Gone(s)
    PROVE  Gone(s)'
<1>1. sessions[s].plan \in Plan
  BY DEF Gone, TypeInv, TypeOK, Checkout
<1>2. sessions'[s] # None /\ sessions'[s].plan = sessions[s].plan
  BY SessionsStep DEF Gone
<1> QED BY <1>1, <1>2, PlansStep DEF Gone

\* A payment that is justified stays so for as long as its webhook runs.
LEMMA StaysJustified ==
    ASSUME SafetyInv, [Next]_vars, NEW s \in Session, Paid(s),
           Recorded(s) \/ Announced(s) \/ Gone(s)
    PROVE  Paid(s)' /\ (Recorded(s)' \/ Announced(s)' \/ Gone(s)')
<1>1. Paid(s)'
  BY SessionsStep DEF Paid, SafetyInv
<1> QED BY <1>1, RecordedStays, GoneStays, EventsStep DEF SafetyInv

LEMMA JustifiedStep == SafetyInv /\ [Next]_vars => \A t \in Web : Justified(t)'
<1> SUFFICES ASSUME SafetyInv, [Next]_vars, NEW t \in Web, Busy(t)' PROVE Justified(t)'
  BY DEF Justified
<1> USE DEF SafetyInv
<1>1. CASE \E e \in events : Deliver(t, e)
  <2>1. PICK e \in events : Deliver(t, e)
    BY <1>1
  <2>2. /\ web'[t].event = PaidEvent(e.session) /\ e.session \in Session
        /\ web'[t].now <= now' /\ About(t)' = e.session
        /\ UNCHANGED <<sessions, events>>
    BY <2>1, DeliverWrites, NowStep DEF Deliver, About, PaidEvent
  <2>3. Announced(e.session) /\ Paid(e.session)
    BY <2>1, <2>2, DeliverWrites DEF AnnouncedPaid, Announced
  <2> QED BY <2>2, <2>3 DEF Justified, Paid, Announced
<1>2. CASE web'[t].event = web[t].event /\ web'[t].now = web[t].now /\ Busy(t) /\ About(t)' = About(t)
  <2>1. web'[t].now <= now'
    <3>1. web[t].now \in Nat
      BY DEF TypeInv, TypeOK, Request, Instant
    <3> QED BY <1>2, <3>1, NowStep DEF Justified
  <2>2. About(t) \in Session
    BY <1>2, AboutType DEF Busy
  <2>3. Paid(About(t))' /\ (Recorded(About(t))' \/ Announced(About(t))' \/ Gone(About(t))')
    <3>1. PICK s \in Session : s = About(t)
      BY <2>2
    <3>2. Paid(s)' /\ (Recorded(s)' \/ Announced(s)' \/ Gone(s)')
      BY <1>2, <3>1, StaysJustified DEF Justified
    <3> QED BY <1>2, <3>1, <3>2 DEF Paid, Recorded, Announced, Gone
  <2> QED BY <1>2, <2>1, <2>3 DEF Justified
<1>3. CASE web'[t] = web[t]
  BY <1>2, <1>3 DEF Busy, About
<1>4. CASE Activate(t) /\ web'[t] = [web[t] EXCEPT !.pc = "record"]
  <2>1. Busy(t) /\ web'[t].event = web[t].event /\ web'[t].now = web[t].now
    BY <1>4 DEF Activate, Busy, At, TypeInv, TypeOK, Request
  <2> QED BY <1>2, <2>1 DEF About
<1> QED BY <1>1, <1>3, <1>4, BusyStep

\* A webhook brings the end of a subscription forward by no more than it took.
LEMMA SubsShrink ==
    ASSUME SafetyInv, [Next]_vars, NEW u \in User, subs[u] # None
    PROVE  /\ subs'[u] # None
           /\ \/ subs'[u].end = subs[u].end
              \/ \E t \in Web :
                    /\ Wrote(t)
                    /\ subs'[u].end + Age(t) = now + Month
                    /\ subs[u].end <= subs'[u].end + Age(t)
<1> USE DEF SafetyInv
<1>1. subs[u].end \in Nat /\ now \in Nat /\ Month \in Nat
  BY TimeAssumption DEF TypeInv, TypeOK, Subscription, Instant
<1>2. ASSUME NEW t \in Web, subs'[u].end = PeriodEnd(t)
      PROVE  subs'[u].end + Age(t) = now + Month
  <2>1. web[t].now \in Nat
    BY DEF TypeInv, TypeOK, Request, Instant
  <2> QED BY <1>1, <1>2, <2>1 DEF PeriodEnd, Age
<1>3. subs[u].end <= now + Month
  BY DEF WithinMonth
<1> QED BY <1>2, <1>3, SubsStep

\* So what ends within a month of the present stays covered up to slowest.
LEMMA StaysCovered ==
    ASSUME SafetyInv, [Next]_vars, NEW u \in User, subs[u] # None,
           NEW x \in Nat, x <= now + Month, x <= subs[u].end + slowest
    PROVE  subs'[u] # None /\ x <= subs'[u].end + slowest'
<1> USE DEF SafetyInv
<1>1. subs'[u] # None /\ subs[u].end \in Nat /\ subs'[u].end \in Nat
  <2>1. TypeInv'
    BY TypeStep
  <2> QED BY <2>1, SubsShrink, TimeAssumption DEF TypeInv, TypeOK, Subscription
<1>2. slowest \in Nat /\ slowest' \in Nat /\ slowest <= slowest' /\ now \in Nat /\ Month \in Nat
  BY SlowestStep, NowStep, TimeAssumption
<1>3. CASE subs'[u].end = subs[u].end
  BY <1>1, <1>2, <1>3
<1>4. ASSUME NEW t \in Web, Wrote(t), subs'[u].end + Age(t) = now + Month
      PROVE  x <= subs'[u].end + slowest'
  <2>1. Age(t) \in Int /\ Age(t) <= slowest'
    BY <1>4, TookType DEF Wrote, TypeInv
  <2> QED BY <1>1, <1>2, <1>4, <2>1
<1> QED BY <1>1, <1>3, <1>4, SubsShrink

LEMMA ExtendedStep == SafetyInv /\ [Next]_vars => \A t \in Web : Extended(t)'
<1> SUFFICES ASSUME SafetyInv, [Next]_vars, NEW t \in Web, At(t, "record")' PROVE Extended(t)'
  BY DEF Extended
<1> USE DEF SafetyInv
<1>1. CASE web'[t] = web[t]
  <2>1. At(t, "record") /\ About(t)' = About(t) /\ PeriodEnd(t)' = PeriodEnd(t)
    BY <1>1 DEF At, About, PeriodEnd
  <2>2. About(t) \in Session /\ sessions[About(t)] \in Checkout
    BY <2>1, AboutType DEF At
  <2>3. sessions'[About(t)].user = sessions[About(t)].user
    BY <2>2, NoneAssumption, SessionsStep
  <2> DEFINE u == sessions[About(t)].user
  <2>4. u \in User /\ subs[u] # None /\ PeriodEnd(t) <= subs[u].end + slowest
    BY <2>1, <2>2 DEF Extended, Checkout
  <2>5. PeriodEnd(t) \in Nat /\ PeriodEnd(t) <= now + Month
    <3>1. web[t].now \in Nat /\ web[t].now <= now
      BY <2>1 DEF Justified, Busy, At, TypeInv, TypeOK, Request, Instant
    <3> QED BY <3>1, NowStep, TimeAssumption DEF PeriodEnd
  <2>6. subs'[u] # None /\ PeriodEnd(t) <= subs'[u].end + slowest'
    BY <2>4, <2>5, StaysCovered
  <2> QED BY <2>1, <2>3, <2>6 DEF Extended
<1>2. CASE Activate(t) /\ web'[t] = [web[t] EXCEPT !.pc = "record"]
  <2> DEFINE c == sessions[About(t)]
             n == [plan |-> c.plan, status |-> "active",
                   start |-> web[t].now, end |-> PeriodEnd(t)]
  <2>1. c \in Checkout
    BY <1>2, AboutType DEF Activate, At
  <2>2. n \in Subscription /\ c.user \in User /\ PeriodEnd(t) \in Nat
    BY <2>1, PeriodEndType, TimeAssumption DEF Checkout, Subscription, TypeInv
  <2>3. subs' = [subs EXCEPT ![c.user] = n]
    <3>1. ~Done(t)
      BY <1>2 DEF Done, Idle, TypeInv, TypeOK, Request
    <3> QED BY <1>2, <3>1 DEF Activate
  <2>4. subs'[c.user] = n
    BY <2>2, <2>3 DEF TypeInv, TypeOK
  <2>5. About(t)' = About(t) /\ PeriodEnd(t)' = PeriodEnd(t) /\ UNCHANGED sessions
    BY <1>2 DEF About, PeriodEnd, Activate, TypeInv, TypeOK, Request
  <2>6. PeriodEnd(t) <= n.end + slowest'
    BY <2>2, SlowestStep
  <2> QED BY <2>2, <2>4, <2>5, <2>6, NoneAssumption DEF Extended
<1>3. ASSUME NEW e \in events, Deliver(t, e), At(t, "activate")'
      PROVE  FALSE
  BY <1>3 DEF At
<1> QED BY <1>1, <1>2, <1>3, BusyStep DEF Busy, At

LEMMA FinishedStep == SafetyInv /\ [Next]_vars => \A t \in Web : Finished(t)'
<1> SUFFICES ASSUME SafetyInv, [Next]_vars, NEW t \in Web,
                    web'[t].pc = "answer", web'[t].event.type = "payment.paid"
             PROVE  (Recorded(About(t)) \/ Gone(About(t)))'
  BY DEF Finished, At
<1> USE DEF SafetyInv
<1>1. CASE web'[t] = web[t]
  <2>1. About(t)' = About(t) /\ About(t) \in Session
    BY <1>1, AboutType DEF About
  <2>2. Recorded(About(t)) \/ Gone(About(t))
    BY <1>1 DEF Finished, At
  <2>3. PICK s \in Session : s = About(t)
    BY <2>1
  <2>4. Recorded(s)' \/ Gone(s)'
    BY <2>2, <2>3, RecordedStays, GoneStays
  <2> QED BY <2>1, <2>3, <2>4 DEF Recorded, Gone
<1>2. CASE Record(t)
  BY <1>2, RecordWrites
<1>3. ASSUME NEW e \in events, Deliver(t, e)
      PROVE  (Recorded(About(t)) \/ Gone(About(t)))'
  <2>1. web'[t].event = e /\ Gone(e.session)
    BY <1>3, DeliverWrites
  <2> QED BY <1>3, <2>1 DEF Deliver, Gone, About
<1>4. ASSUME NEW e \in events, DeliverFailed(t, e)
      PROVE  FALSE
  <2>1. web'[t].event = e /\ e.type = "payment.failed"
    BY <1>4 DEF DeliverFailed, TypeInv, TypeOK, Idle
  <2> QED BY <2>1
<1>5. /\ Idle.pc # "answer"
      /\ [web[t] EXCEPT !.pc = "record"].pc # "answer"
  BY DEF Idle, TypeInv, TypeOK, Request
<1>6. \A u \in User, p \in Plan, s \in Session :
          Subscribe(t, u, p, s) => web'[t].pc = "checkout"
  BY DEF Subscribe, TypeInv, TypeOK, Idle
<1>7. \A u \in User : Cancel(t, u) => web'[t].pc = "cancel"
  BY DEF Cancel, TypeInv, TypeOK, Idle
<1> QED BY <1>1, <1>2, <1>3, <1>4, <1>5, <1>6, <1>7, WebStep

LEMMA WithinMonthStep == SafetyInv /\ [Next]_vars => WithinMonth'
<1> SUFFICES ASSUME SafetyInv, [Next]_vars, NEW u \in User, subs'[u] # None
             PROVE  subs'[u].end <= now' + Month
  BY DEF WithinMonth
<1> USE DEF SafetyInv
<1>1. now \in Nat /\ now' \in Nat /\ now <= now' /\ Month \in Nat
  BY NowStep, TimeAssumption
<1>2. CASE subs[u] # None /\ subs'[u].end = subs[u].end
  <2>1. subs[u].end \in Nat
    BY <1>2, TimeAssumption DEF TypeInv, TypeOK, Subscription
  <2> QED BY <1>1, <1>2, <2>1 DEF WithinMonth
<1>3. ASSUME NEW t \in Web, Activate(t), subs'[u].end = PeriodEnd(t)
      PROVE  subs'[u].end <= now' + Month
  <2>1. web[t].now \in Nat /\ web[t].now <= now
    BY <1>3 DEF Activate, At, Justified, Busy, TypeInv, TypeOK, Request, Instant
  <2> QED BY <1>1, <1>3, <2>1 DEF PeriodEnd
<1> QED BY <1>2, <1>3, SubsStep

LEMMA PaidWithinMonthStep == SafetyInv /\ [Next]_vars => PaidWithinMonth'
<1> SUFFICES ASSUME SafetyInv, [Next]_vars, NEW s \in Session, Recorded(s)'
             PROVE  payments'[s].end <= now' + Month
  BY DEF PaidWithinMonth
<1> USE DEF SafetyInv
<1>1. now \in Nat /\ now' \in Nat /\ now <= now' /\ Month \in Nat
  BY NowStep, TimeAssumption
<1>2. CASE Recorded(s) /\ payments'[s].end = payments[s].end
  <2>1. payments[s].end \in Nat
    BY <1>2, TimeAssumption DEF TypeInv, TypeOK, Payment, Recorded
  <2> QED BY <1>1, <1>2, <2>1 DEF PaidWithinMonth
<1>3. ASSUME NEW t \in Web, Record(t), About(t) = s
      PROVE  payments'[s].end <= now' + Month
  <2>1. web[t].now \in Nat /\ web[t].now <= now
    BY <1>3 DEF Record, At, Justified, Busy, TypeInv, TypeOK, Request, Instant
  <2>2. payments'[s].end = PeriodEnd(t)
    BY <1>3, RecordWrites
  <2> QED BY <1>1, <2>1, <2>2 DEF PeriodEnd
<1> QED BY <1>2, <1>3, PaymentsStep DEF Recorded

LEMMA ProtectedStep == SafetyInv /\ [Next]_vars => Protected'
<1> SUFFICES ASSUME SafetyInv, [Next]_vars, NEW u \in User, subs'[u] # None
             PROVE  plans'[subs'[u].plan] # "deleted"
  BY DEF Protected
<1> USE DEF SafetyInv
<1>1. CASE subs[u] # None /\ subs'[u].plan = subs[u].plan
  <2>1. subs[u].plan \in Plan /\ plans[subs[u].plan] # "deleted"
    BY <1>1 DEF Protected, TypeInv, TypeOK, Subscription
  <2> QED BY <1>1, <2>1, PlansStep
<1>2. ASSUME NEW t \in Web, Activate(t), plans[sessions[About(t)].plan] # "deleted",
             subs'[u].plan = sessions[About(t)].plan
      PROVE  plans'[subs'[u].plan] # "deleted"
  BY <1>2 DEF Activate
<1> QED BY <1>1, <1>2, SubsStep

\* Money that is taken in a step is announced in that step.
LEMMA PaidStep ==
    ASSUME TypeInv, OwnSession, [Next]_vars, NEW s \in Session, Paid(s)', ~Paid(s)
    PROVE  Announced(s)'
<1>1. CASE UNCHANGED sessions
  BY <1>1 DEF Paid
<1>2. ASSUME NEW r \in Session, Pay(r) PROVE Announced(s)'
  BY <1>2 DEF Pay, Paid, Announced, TypeInv, TypeOK, PaidEvent
<1>3. ASSUME NEW t \in Web, OpenCheckout(t) PROVE FALSE
  BY <1>3 DEF OpenCheckout, Paid, TypeInv, TypeOK
<1> QED BY <1>1, <1>2, <1>3
        DEF Next, Handle, Subscribe, Cancel, Deliver, DeliverFailed, CancelSave,
            Activate, Record, Acknowledge, Stop, Decline, Retire, DeletePlan, Tick, vars

LEMMA AnnouncedPaidStep == SafetyInv /\ [Next]_vars => AnnouncedPaid'
<1> SUFFICES ASSUME SafetyInv, [Next]_vars, NEW s \in Session, Announced(s)'
             PROVE  Paid(s)'
  BY DEF AnnouncedPaid
<1> USE DEF SafetyInv
<1>1. CASE Announced(s)
  BY <1>1, SessionsStep DEF AnnouncedPaid, Paid
<1>2. CASE ~Announced(s)
  BY <1>2, AnnouncedStep
<1> QED BY <1>1, <1>2

LEMMA RecordedOpenStep == SafetyInv /\ [Next]_vars => RecordedOpen'
<1> SUFFICES ASSUME SafetyInv, [Next]_vars, NEW s \in Session, Recorded(s)'
             PROVE  sessions'[s] # None
  BY DEF RecordedOpen
<1> USE DEF SafetyInv
<1>1. CASE Recorded(s)
  BY <1>1, SessionsStep DEF RecordedOpen
<1>2. ASSUME NEW t \in Web, Record(t), About(t) = s
      PROVE  sessions'[s] # None
  BY <1>2 DEF Record, At, Justified, Busy, Paid
<1> QED BY <1>1, <1>2, PaymentsStep DEF Recorded

LEMMA PeriodCoveredStep == SafetyInv /\ [Next]_vars => PeriodCovered'
<1> SUFFICES ASSUME SafetyInv, [Next]_vars, NEW s \in Session, Recorded(s)'
             PROVE  /\ subs'[sessions'[s].user] # None
                    /\ payments'[s].end <= subs'[sessions'[s].user].end + slowest'
  BY DEF PeriodCovered
<1> USE DEF SafetyInv
\* The payment was on record with the same end.
<1>1. CASE Recorded(s) /\ payments'[s].end = payments[s].end
  <2>1. sessions[s] \in Checkout /\ sessions'[s].user = sessions[s].user
    BY <1>1, SessionsStep DEF RecordedOpen, TypeInv, TypeOK
  <2> DEFINE u == sessions[s].user
  <2>2. u \in User /\ subs[u] # None /\ payments[s].end <= subs[u].end + slowest
    BY <1>1, <2>1 DEF PeriodCovered, Checkout
  <2>3. payments[s].end \in Nat /\ payments[s].end <= now + Month
    BY <1>1, TimeAssumption DEF PaidWithinMonth, TypeInv, TypeOK, Payment, Recorded
  <2>4. subs'[u] # None /\ payments[s].end <= subs'[u].end + slowest'
    BY <2>2, <2>3, StaysCovered
  <2> QED BY <1>1, <2>1, <2>4
\* Its webhook records it now, and has extended the subscription before.
<1>2. ASSUME NEW t \in Web, Record(t), About(t) = s
      PROVE  /\ subs'[sessions'[s].user] # None
             /\ payments'[s].end <= subs'[sessions'[s].user].end + slowest'
  <2>1. payments'[s].end = PeriodEnd(t)
    BY <1>2, RecordWrites
  <2> QED BY <1>2, <2>1 DEF Record, Extended
<1> QED BY <1>1, <1>2, PaymentsStep DEF Recorded

LEMMA SubscriptionIsPaidForStep == SafetyInv /\ [Next]_vars => SubscriptionIsPaidFor'
<1> SUFFICES ASSUME SafetyInv, [Next]_vars, NEW u \in User, subs'[u] # None
             PROVE  \E s \in Session :
                       /\ Paid(s)'
                       /\ sessions'[s].user = u /\ sessions'[s].plan = subs'[u].plan
                       /\ Recorded(s)' \/ Announced(s)'
  BY DEF SubscriptionIsPaidFor
<1> USE DEF SafetyInv
<1>1. SUFFICES ASSUME NEW s \in Session, Paid(s), sessions[s].user = u,
                      sessions[s].plan = subs'[u].plan,
                      Recorded(s) \/ Announced(s) \/ Gone(s)
               PROVE  Recorded(s)' \/ Announced(s)'
  <2>1. \E s \in Session :
            /\ Paid(s) /\ sessions[s].user = u /\ sessions[s].plan = subs'[u].plan
            /\ Recorded(s) \/ Announced(s) \/ Gone(s)
    <3>1. CASE subs[u] # None /\ subs'[u].plan = subs[u].plan
      BY <3>1 DEF SubscriptionIsPaidFor
    <3>2. ASSUME NEW t \in Web, Activate(t), u = sessions[About(t)].user,
                 subs'[u].plan = sessions[About(t)].plan
          PROVE  \E s \in Session :
                    /\ Paid(s) /\ sessions[s].user = u /\ sessions[s].plan = subs'[u].plan
                    /\ Recorded(s) \/ Announced(s) \/ Gone(s)
      <4>1. About(t) \in Session
        BY <3>2, AboutType DEF Activate, At
      <4> QED BY <3>2, <4>1 DEF Activate, At, Justified, Busy
    <3> QED BY <3>1, <3>2, SubsStep
  <2>2. ASSUME NEW s \in Session, Paid(s)
        PROVE  Paid(s)' /\ sessions'[s].user = sessions[s].user
                        /\ sessions'[s].plan = sessions[s].plan
    BY <2>2, SessionsStep DEF Paid
  <2> QED BY <2>1, <2>2
\* The plan of a subscription is not deleted, so the payment was not given up.
<1>2. ~Gone(s)'
  <2>1. sessions'[s].plan = subs'[u].plan
    BY <1>1, SessionsStep DEF Paid
  <2> QED BY <2>1, ProtectedStep DEF Protected, Gone
<1> QED BY <1>1, <1>2, StaysJustified

LEMMA AcknowledgedIsRecordedStep == SafetyInv /\ [Next]_vars => AcknowledgedIsRecorded'
<1> SUFFICES ASSUME SafetyInv, [Next]_vars, NEW s \in Session, Paid(s)', ~Announced(s)'
             PROVE  Recorded(s)' \/ Gone(s)'
  BY DEF AcknowledgedIsRecorded
<1> USE DEF SafetyInv
<1>1. Paid(s)
  BY PaidStep
<1> QED BY <1>1, StaysJustified DEF AcknowledgedIsRecorded

-----------------------------------------------------------------------------
(* The theorems *)

LEMMA SafetyStep == SafetyInv /\ [Next]_vars => SafetyInv'
<1> SUFFICES ASSUME SafetyInv, [Next]_vars PROVE SafetyInv'
  OBVIOUS
<1>1. TypeInv'
  BY TypeStep DEF SafetyInv
<1> QED BY <1>1, OwnSessionStep, JustifiedStep, ExtendedStep, FinishedStep,
           WithinMonthStep, PaidWithinMonthStep, ProtectedStep, AnnouncedPaidStep, RecordedOpenStep,
           PeriodCoveredStep, SubscriptionIsPaidForStep, AcknowledgedIsRecordedStep
        DEF SafetyInv

LEMMA SafetyInvariant == Spec => []SafetyInv
BY SafetyInit, SafetyStep, PTL DEF Spec

\* Every payment on record lies within its user's subscription, up to the longest
\* that a webhook took between its clock and its write, for webhooks of any number,
\* order and repetition, overtaking each other and stopped anywhere.
THEOREM PeriodIsCovered == Spec => []PeriodCovered
<1>1. SafetyInv => PeriodCovered
  BY DEF SafetyInv
<1> QED BY <1>1, SafetyInvariant, PTL

\* Behind every subscription is money taken for its plan from its user, on record
\* or still to be announced.
THEOREM SubscriptionsArePaidFor == Spec => []SubscriptionIsPaidFor
<1>1. SafetyInv => SubscriptionIsPaidFor
  BY DEF SafetyInv
<1> QED BY <1>1, SafetyInvariant, PTL

\* No payment is forgotten by PayMongo before it is on record, unless its plan
\* was deleted.
THEOREM NothingForgotten == Spec => []AcknowledgedIsRecorded
<1>1. SafetyInv => AcknowledgedIsRecorded
  BY DEF SafetyInv
<1> QED BY <1>1, SafetyInvariant, PTL

\* No step brings the end of a subscription forward, but a webhook that was
\* overtaken, by no more than the time since it read the clock.
THEOREM PeriodsHardlyShrink == Spec => NeverShortened
<1>1. ASSUME SafetyInv, [Next]_vars, NEW u \in User, subs[u] # None
      PROVE  /\ subs'[u] # None
             /\ \/ subs[u].end <= subs'[u].end
                \/ \E t \in Web :
                      /\ At(t, "activate") /\ web'[t].pc = "record"
                      /\ subs[u].end <= subs'[u].end + Age(t)
  <2>1. subs[u].end \in Nat
    BY <1>1, TimeAssumption DEF SafetyInv, TypeInv, TypeOK, Subscription
  <2> QED BY <1>1, <2>1, SubsShrink DEF Wrote
<1>2. SafetyInv /\ [Next]_vars =>
        [\A u \in User : subs[u] # None =>
            /\ subs'[u] # None
            /\ \/ subs[u].end <= subs'[u].end
               \/ \E t \in Web :
                     /\ At(t, "activate") /\ web'[t].pc = "record"
                     /\ subs[u].end <= subs'[u].end + Age(t)]_vars
  BY <1>1
<1> QED BY <1>2, SafetyInvariant, PTL DEF Spec, NeverShortened
=============================================================================
