------------------------------- MODULE Billing -------------------------------
(***************************************************************************)
(* Subscriptions of NailTrace (apps/billing): a technician asks for a      *)
(* checkout at PayMongo, pays there, and PayMongo tells the webhook, which *)
(* writes a Subscription row and a Payment row.                            *)
(*                                                                         *)
(* PayMongo is not under src/: it opens sessions, takes the money, and     *)
(* delivers an event, in no order, until it has been answered 200.  A      *)
(* session has at most one payment, so sessions name payments as well.     *)
(*                                                                         *)
(* Time passes at any point, also while a webhook has read the clock and   *)
(* not yet written, so that webhooks may write in the opposite order.      *)
(***************************************************************************)
EXTENDS Integers

CONSTANTS
    User,           \* technicians
    Plan,           \* the slugs of the plans
    Session,        \* bound: checkout sessions opened, and their payments
    Web,            \* gunicorn threads
    None,           \* no row, no session
    Month,          \* timedelta(days=30)
    MaxTime,        \* bound: the last instant
    MaxTrouble      \* bound: threads that die, calls that fail, answers lost

Instant == 0 .. MaxTime
PlanState == {"offered", "retired", "deleted"}

\* A row of Subscription: start and end are those of the current period.  The
\* statuses past_due and trial are never written by the code.
Subscription == [plan : Plan, status : {"active", "cancelled"},
                 start : Instant, end : 0 .. MaxTime + Month]

\* A row of Payment; its user is that of the session.
Payment == [status : {"paid", "failed"},
            start : Instant, end : 0 .. MaxTime + Month]

\* A checkout session: the metadata the code gave it, and whether it was paid.
Checkout == [user : User, plan : Plan, paid : BOOLEAN]

Event == [type : {"payment.paid", "payment.failed"}, session : Session]

Pc == {"idle", "checkout", "cancel", "activate", "record", "answer"}

\* What a thread holds: whom it works for, the session it opens or the event it
\* handles, and the instant a webhook took for now.
Request == [pc : Pc, user : User \cup {None}, plan : Plan \cup {None},
            event : Event \cup {None}, session : Session \cup {None},
            now : Instant]

Idle == [pc |-> "idle", user |-> None, plan |-> None, event |-> None,
         session |-> None, now |-> 0]

ASSUME TimeAssumption == Month \in Nat \ {0} /\ MaxTime \in Nat /\ MaxTrouble \in Nat
ASSUME NoneAssumption ==
    /\ None \notin User /\ None \notin Plan /\ None \notin Session
    /\ None \notin Subscription /\ None \notin Payment
    /\ None \notin Checkout /\ None \notin Event

VARIABLES
    now,            \* the clock
    plans,          \* Plan rows: offered (is_active), retired or deleted
    subs,           \* Subscription rows: a user has at most one
    payments,       \* Payment rows, by paymongo_payment_id
    sessions,       \* PayMongo: its checkout sessions
    events,         \* PayMongo: events not yet answered 200
    web,            \* what each thread is doing
    trouble,        \* how much of MaxTrouble is spent
    slowest         \* history: the longest a webhook took from reading the clock
                    \* to writing the subscription

vars == <<now, plans, subs, payments, sessions, events, web, trouble, slowest>>

TypeOK ==
    /\ now \in Instant
    /\ plans \in [Plan -> PlanState]
    /\ subs \in [User -> Subscription \cup {None}]
    /\ payments \in [Session -> Payment \cup {None}]
    /\ sessions \in [Session -> Checkout \cup {None}]
    /\ events \subseteq Event
    /\ web \in [Web -> Request]
    /\ trouble \in 0 .. MaxTrouble
    /\ slowest \in Nat

\* Migration 0002 seeds the plans.
Init ==
    /\ now = 0
    /\ plans = [p \in Plan |-> "offered"]
    /\ subs = [u \in User |-> None]
    /\ payments = [s \in Session |-> None]
    /\ sessions = [s \in Session |-> None]
    /\ events = {}
    /\ web = [t \in Web |-> Idle]
    /\ trouble = 0
    /\ slowest = 0

-----------------------------------------------------------------------------
(* Helpers *)

At(t, pc) == web[t].pc = pc
Go(t, pc) == web' = [web EXCEPT ![t].pc = pc]
Done(t) == web' = [web EXCEPT ![t] = Idle]
Spend == trouble < MaxTrouble /\ trouble' = trouble + 1

\* Subscription.is_active, and with it User.has_active_subscription.
IsActive(u) ==
    /\ subs[u] # None
    /\ subs[u].status = "active"
    /\ now < subs[u].end

\* The session of a webhook's event.
About(t) == web[t].event.session
PaidEvent(s) == [type |-> "payment.paid", session |-> s]
FailedEvent(s) == [type |-> "payment.failed", session |-> s]

\* A definition whose name ends in Variant is a faulty form of the one that
\* follows it, kept to see that the properties below can tell the two apart.

\* A payment announced again keeps the period on record for it.
PeriodEndVariant(t) ==
    IF payments[About(t)] # None THEN payments[About(t)].end ELSE web[t].now + Month

\* The end of the period a payment buys, from the now of its webhook.
PeriodEnd(t) == web[t].now + Month

\* How long ago the webhook of t read the clock.
Age(t) == now - web[t].now
Took(t) == slowest' = IF slowest < Age(t) THEN Age(t) ELSE slowest

-----------------------------------------------------------------------------
(* POST /api/billing/subscribe/ *)

\* The plan is offered and the user has no active subscription.  A refusal
\* changes nothing and has no action.  The two reads are one step, as plans and
\* subscriptions change independently of each other.
Subscribe(t, u, p, s) ==
    /\ At(t, "idle")
    /\ plans[p] = "offered"
    /\ ~IsActive(u)
    /\ sessions[s] = None /\ \A o \in Web : web[o].session # s
    /\ web' = [web EXCEPT ![t] =
            [Idle EXCEPT !.pc = "checkout", !.user = u, !.plan = p, !.session = s]]
    /\ UNCHANGED <<now, plans, subs, payments, sessions, events, trouble, slowest>>

\* PayMongo opens the session and the user is sent there, or the call fails and
\* the user is told so.
OpenCheckout(t) ==
    /\ At(t, "checkout")
    /\ \/ /\ sessions' = [sessions EXCEPT ![web[t].session] =
                [user |-> web[t].user, plan |-> web[t].plan, paid |-> FALSE]]
          /\ UNCHANGED trouble
       \/ Spend /\ UNCHANGED sessions
    /\ Done(t)
    /\ UNCHANGED <<now, plans, subs, payments, events, slowest>>

-----------------------------------------------------------------------------
(* POST /api/billing/cancel/ *)

\* Load the subscription, which must be active.
Cancel(t, u) ==
    /\ At(t, "idle")
    /\ IsActive(u)
    /\ web' = [web EXCEPT ![t] = [Idle EXCEPT !.pc = "cancel", !.user = u]]
    /\ UNCHANGED <<now, plans, subs, payments, sessions, events, trouble, slowest>>

\* Subscription.cancel saves the status only, whatever the row holds by now.
CancelSave(t) ==
    /\ At(t, "cancel")
    /\ subs' = [subs EXCEPT ![web[t].user].status = "cancelled"]
    /\ Done(t)
    /\ UNCHANGED <<now, plans, payments, sessions, events, trouble, slowest>>

-----------------------------------------------------------------------------
(* POST /api/billing/webhooks/paymongo/ *)

\* The webhook looks for an offered plan, as the subscribe view does.
DeliverVariant(t, e) ==
    /\ At(t, "idle")
    /\ e \in events /\ e.type = "payment.paid"
    /\ web' = [web EXCEPT ![t] = [Idle EXCEPT !.event = e, !.now = now,
            !.pc = IF plans[sessions[e.session].plan] # "offered"
                   THEN "answer" ELSE "activate"]]
    /\ UNCHANGED <<now, plans, subs, payments, sessions, events, trouble, slowest>>

\* A failed payment is handled as a paid one.
DeliverAnyVariant(t, e) ==
    /\ At(t, "idle")
    /\ e \in events
    /\ web' = [web EXCEPT ![t] = [Idle EXCEPT !.event = e, !.now = now,
            !.pc = IF plans[sessions[e.session].plan] = "deleted"
                   THEN "answer" ELSE "activate"]]
    /\ UNCHANGED <<now, plans, subs, payments, sessions, events, trouble, slowest>>

\* The first half of _handle_payment_paid: the plan of the metadata, retired or
\* not, and the clock.  An event whose plan is gone is answered 200.
Deliver(t, e) ==
    /\ At(t, "idle")
    /\ e \in events /\ e.type = "payment.paid"
    /\ web' = [web EXCEPT ![t] = [Idle EXCEPT !.event = e, !.now = now,
            !.pc = IF plans[sessions[e.session].plan] = "deleted"
                   THEN "answer" ELSE "activate"]]
    /\ UNCHANGED <<now, plans, subs, payments, sessions, events, trouble, slowest>>

\* get_or_create: a subscription that exists is left as it is.
ActivateVariant(t) ==
    /\ At(t, "activate")
    /\ LET c == sessions[About(t)] IN
        /\ plans[c.plan] # "deleted"
        /\ subs' = IF subs[c.user] # None THEN subs
                   ELSE [subs EXCEPT ![c.user] =
                        [plan |-> c.plan, status |-> "active",
                         start |-> web[t].now, end |-> PeriodEnd(t)]]
    /\ Took(t)
    /\ Go(t, "record")
    /\ UNCHANGED <<now, plans, payments, sessions, events, trouble>>

\* Create the user's subscription or overwrite it, under a row lock.  A plan
\* deleted in the meantime breaks the foreign key: the answer is 500.
Activate(t) ==
    /\ At(t, "activate")
    /\ LET c == sessions[About(t)] IN
        \/ /\ plans[c.plan] # "deleted"
           /\ subs' = [subs EXCEPT ![c.user] =
                [plan |-> c.plan, status |-> "active",
                 start |-> web[t].now, end |-> PeriodEnd(t)]]
           /\ Took(t)
           /\ Go(t, "record")
        \/ plans[c.plan] = "deleted" /\ Done(t) /\ UNCHANGED <<subs, slowest>>
    /\ UNCHANGED <<now, plans, payments, sessions, events, trouble>>

\* Create the payment or overwrite it.
Record(t) ==
    /\ At(t, "record")
    /\ payments' = [payments EXCEPT ![About(t)] =
            [status |-> "paid", start |-> web[t].now, end |-> PeriodEnd(t)]]
    /\ Go(t, "answer")
    /\ UNCHANGED <<now, plans, subs, sessions, events, trouble, slowest>>

\* update_or_create: a payment nobody recorded gets a row without a period.
DeliverFailedVariant(t, e) ==
    /\ At(t, "idle")
    /\ e \in events /\ e.type = "payment.failed"
    /\ payments' = IF payments[e.session] = None
                   THEN [payments EXCEPT ![e.session] =
                            [status |-> "failed", start |-> None, end |-> None]]
                   ELSE [payments EXCEPT ![e.session].status = "failed"]
    /\ web' = [web EXCEPT ![t] = [Idle EXCEPT !.pc = "answer", !.event = e]]
    /\ UNCHANGED <<now, plans, subs, sessions, events, trouble, slowest>>

\* _handle_payment_failed: one UPDATE, which may match no row.
DeliverFailed(t, e) ==
    /\ At(t, "idle")
    /\ e \in events /\ e.type = "payment.failed"
    /\ payments' = IF payments[e.session] = None THEN payments
                   ELSE [payments EXCEPT ![e.session].status = "failed"]
    /\ web' = [web EXCEPT ![t] = [Idle EXCEPT !.pc = "answer", !.event = e]]
    /\ UNCHANGED <<now, plans, subs, sessions, events, trouble, slowest>>

\* 200: PayMongo forgets the event, unless the answer does not reach it in time.
Acknowledge(t) ==
    /\ At(t, "answer")
    /\ \/ events' = events \ {web[t].event} /\ UNCHANGED trouble
       \/ Spend /\ UNCHANGED events
    /\ Done(t)
    /\ UNCHANGED <<now, plans, subs, payments, sessions, slowest>>

-----------------------------------------------------------------------------
(* PayMongo and its customers *)

\* The customer pays at an open session.
Pay(s) ==
    /\ sessions[s] # None /\ ~sessions[s].paid
    /\ sessions' = [sessions EXCEPT ![s].paid = TRUE]
    /\ events' = events \cup {PaidEvent(s)}
    /\ UNCHANGED <<now, plans, subs, payments, web, trouble, slowest>>

\* An attempt to pay fails; the session stays open.
Decline(s) ==
    /\ sessions[s] # None /\ ~sessions[s].paid
    /\ events' = events \cup {FailedEvent(s)}
    /\ UNCHANGED <<now, plans, subs, payments, sessions, web, trouble, slowest>>

-----------------------------------------------------------------------------
(* The Django admin site, the processes, time *)

\* PlanAdmin: tick or untick is_active.
Retire(p) ==
    /\ plans[p] # "deleted"
    /\ plans' = [plans EXCEPT ![p] = IF @ = "offered" THEN "retired" ELSE "offered"]
    /\ UNCHANGED <<now, subs, payments, sessions, events, web, trouble, slowest>>

\* PlanAdmin: delete a plan no subscription refers to (on_delete=PROTECT).
DeletePlan(p) ==
    /\ plans[p] # "deleted"
    /\ \A u \in User : subs[u] # None => subs[u].plan # p
    /\ plans' = [plans EXCEPT ![p] = "deleted"]
    /\ UNCHANGED <<now, subs, payments, sessions, events, web, trouble, slowest>>

\* The webhook answers 200 when its handler raises.
StopVariant(t) ==
    /\ ~At(t, "idle")
    /\ Spend
    /\ Done(t)
    /\ events' = events \ {web[t].event}
    /\ UNCHANGED <<now, plans, subs, payments, sessions, slowest>>

\* A thread dies, or a statement of the handler raises and the answer is 500:
\* what it wrote stays.
Stop(t) ==
    /\ ~At(t, "idle")
    /\ Spend
    /\ Done(t)
    /\ UNCHANGED <<now, plans, subs, payments, sessions, events, slowest>>

Tick ==
    /\ now < MaxTime
    /\ now' = now + 1
    /\ UNCHANGED <<plans, subs, payments, sessions, events, web, trouble, slowest>>

Handle(t) ==
    \/ OpenCheckout(t)
    \/ CancelSave(t)
    \/ Activate(t)
    \/ Record(t)
    \/ Acknowledge(t)

Next ==
    \/ \E t \in Web, u \in User, p \in Plan, s \in Session : Subscribe(t, u, p, s)
    \/ \E t \in Web, u \in User : Cancel(t, u)
    \/ \E t \in Web, e \in events : Deliver(t, e) \/ DeliverFailed(t, e)
    \/ \E t \in Web : Handle(t) \/ Stop(t)
    \/ \E s \in Session : Pay(s) \/ Decline(s)
    \/ \E p \in Plan : Retire(p) \/ DeletePlan(p)
    \/ Tick

Spec == Init /\ [][Next]_vars

\* A handler that has begun goes on (gunicorn), and an event is delivered again
\* until it is answered 200 (PayMongo).
FairSpec ==
    /\ Spec
    /\ \A t \in Web : WF_vars(Handle(t))
    /\ \A e \in Event : SF_vars(\E t \in Web : Deliver(t, e) \/ DeliverFailed(t, e))

-----------------------------------------------------------------------------
(* Properties *)

Paid(s) == sessions[s] # None /\ sessions[s].paid
Recorded(s) == payments[s] # None
\* The plan of s was deleted.
Gone(s) == sessions[s] # None /\ plans[sessions[s].plan] = "deleted"
\* PayMongo has still to be answered 200 for the payment of s.
Announced(s) == PaidEvent(s) \in events

\* A subscription outlasts every payment on record for its user, although the
\* two rows are written in separate steps, by deliveries in any order and twice.
\* What webhooks that overtake each other can take off it is no more than the
\* longest that one of them took from its clock to its write
\* (billing/views.py:206-233).
PeriodCovered ==
    \A s \in Session :
        Recorded(s) =>
            /\ subs[sessions[s].user] # None
            /\ payments[s].end <= subs[sessions[s].user].end + slowest

\* Behind every subscription is money taken for its plan from its user, and that
\* payment is on record or PayMongo will announce it again: a webhook that dies
\* half-way leaves no free subscription (billing/views.py:160-169,210-233).
SubscriptionIsPaidFor ==
    \A u \in User :
        subs[u] # None =>
            \E s \in Session :
                /\ Paid(s)
                /\ sessions[s].user = u /\ sessions[s].plan = subs[u].plan
                /\ Recorded(s) \/ Announced(s)

\* PayMongo is answered 200 for a payment only when it is on record, or when its
\* plan is gone (billing/views.py:165-171,198-204).
AcknowledgedIsRecorded ==
    \A s \in Session :
        Paid(s) /\ ~Announced(s) => Recorded(s) \/ Gone(s)

\* No step brings the end of a subscription forward, not a late delivery, not an
\* old payment announced again, but the write of a webhook that others overtook,
\* and that by no more than the time since it read the clock
\* (billing/views.py:206-219).
NeverShortened ==
    [][\A u \in User : subs[u] # None =>
        /\ subs'[u] # None
        /\ \/ subs[u].end <= subs'[u].end
           \/ \E t \in Web :
                /\ At(t, "activate") /\ web'[t].pc = "record"
                /\ subs[u].end <= subs'[u].end + Age(t)]_vars

\* A customer who pays gets the payment recorded, whatever webhooks die on the
\* way and even when the plan is retired after the checkout
\* (billing/views.py:197-204), unless the plan is deleted.
PaidIsHonoured ==
    \A s \in Session : Paid(s) ~> (Recorded(s) \/ Gone(s))
=============================================================================
