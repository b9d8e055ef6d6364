---------------------------- MODULE StripeBilling ----------------------------
(***************************************************************************)
(* Plans paid through Stripe: BillingService, StripePaymentProvider and    *)
(* the columns plan, stripe_customer_id and stripe_subscription_id of the  *)
(* table organizations.                                                    *)
(*                                                                         *)
(* Stripe is external and modelled by what the code asks of it: a checkout *)
(* session that is paid creates one subscription, which carries the        *)
(* session's name here, and a new customer unless the session named one;   *)
(* payments and cancellations are announced by webhooks that are repeated  *)
(* until they are answered.  Only the plans Free and Pro are sold through  *)
(* it.  As in the other modules a worker is a thread serving a request and *)
(* every transaction, or call to Stripe, is one action.                    *)
(***************************************************************************)
EXTENDS Naturals, Sequences, SequencesExt

CONSTANTS
    Workers,      \* threads serving requests and webhooks
    Orgs,         \* organizations
    Checkouts,    \* checkout sessions, with their subscriptions and customers
    None,         \* a NULL column
    Disciplined,  \* TRUE: a plan is changed only when nothing is on its way
    Ordered,      \* TRUE: webhooks arrive one at a time, in order
    MaxDeaths     \* bound: requests that die

ASSUME NoneAssumption == None \notin Orgs \cup Checkouts
ASSUME FlagAssumption == Disciplined \in BOOLEAN /\ Ordered \in BOOLEAN
ASSUME DeathsAssumption == MaxDeaths \in Nat

VARIABLES
    plan,           \* the columns of each organization
    customer,
    subscription,
    checkout,       \* what Stripe knows of each session and its subscription
    outbox,         \* webhooks Stripe has not been given an answer to
    deaths,         \* requests that died
    pc,             \* where each worker is
    task            \* what it works on

columns == <<plan, customer, subscription>>
vars == <<plan, customer, subscription, checkout, outbox, deaths, pc, task>>

Plans == {"free", "pro"}
Events == {"completed", "deleted"} \X Checkouts

ASSUME EventsAssumption == None \notin Events

Checkout == [org      : Orgs \cup {None},
             customer : Checkouts \cup {None},
             state    : {"none", "open", "abandoned", "active", "cancelled"}]

Task == [org          : Orgs \cup {None},
         plan         : Plans,
         customer     : Checkouts \cup {None},
         subscription : Checkouts \cup {None},
         event        : Events \cup {None}]

NoTask == [org |-> None, plan |-> "free", customer |-> None,
           subscription |-> None, event |-> None]

PC == {"idle", "provider", "update_plan", "update_ids", "respond"}

Init ==
    /\ plan = [o \in Orgs |-> "free"]
    /\ customer = [o \in Orgs |-> None]
    /\ subscription = [o \in Orgs |-> None]
    /\ checkout = [c \in Checkouts |-> [org |-> None, customer |-> None, state |-> "none"]]
    /\ outbox = <<>>
    /\ deaths = 0
    /\ pc = [w \in Workers |-> "idle"]
    /\ task = [w \in Workers |-> NoTask]

-----------------------------------------------------------------------------
(* Requests. *)

Begin(w, p, k) ==
    /\ pc[w] = "idle"
    /\ pc' = [pc EXCEPT ![w] = p]
    /\ task' = [task EXCEPT ![w] = k]

Goto(w, p, q) ==
    /\ pc[w] = p
    /\ pc' = [pc EXCEPT ![w] = q]

Finish(w) ==
    /\ pc' = [pc EXCEPT ![w] = "idle"]
    /\ task' = [task EXCEPT ![w] = NoTask]

Pending(e) == \E i \in DOMAIN outbox : outbox[i] = e

CheckoutsOf(o) == {c \in Checkouts : checkout[c].org = o}

\* Nothing that concerns organization o is on its way.
Settled(o) ==
    /\ \A w \in Workers : task[w].org # o
    /\ \A c \in CheckoutsOf(o), kind \in {"completed", "deleted"} : ~Pending(<<kind, c>>)

\* A disciplined client asks for another plan than the one he has, after
\* everything about the last change has arrived.
AdmitsChange(o, p) ==
    Disciplined => /\ Settled(o)
                   /\ p # plan[o]
                   /\ \A c \in CheckoutsOf(o) : checkout[c].state # "open"

-----------------------------------------------------------------------------
(* Stripe. *)

Announce(kind, c) == outbox' = Append(outbox, <<kind, c>>)

\* An event that was answered is not repeated; another answer to it changes
\* nothing.
Answered(e) ==
    \/ \E i \in DOMAIN outbox : outbox[i] = e /\ outbox' = RemoveAt(outbox, i)
    \/ ~Pending(e) /\ UNCHANGED outbox

Pay(c) ==
    /\ checkout[c].state = "open"
    /\ checkout' = [checkout EXCEPT ![c] = [@ EXCEPT !.state = "active"]]
    /\ Announce("completed", c)
    /\ UNCHANGED <<columns, deaths, pc, task>>

Abandon(c) ==
    /\ checkout[c].state = "open"
    /\ checkout' = [checkout EXCEPT ![c] = [@ EXCEPT !.state = "abandoned"]]
    /\ UNCHANGED <<columns, outbox, deaths, pc, task>>

CancelledByStripe(c) ==
    /\ checkout[c].state = "active"
    /\ checkout' = [checkout EXCEPT ![c] = [@ EXCEPT !.state = "cancelled"]]
    /\ Announce("deleted", c)

\* Payments failed, or the dashboard was used.
Lapse(c) ==
    /\ CancelledByStripe(c)
    /\ UNCHANGED <<columns, deaths, pc, task>>

-----------------------------------------------------------------------------
(* POST /billing/subscribe *)

ReadOrganization(w, o, p) ==
    /\ AdmitsChange(o, p)
    /\ Begin(w, "provider", [NoTask EXCEPT !.org = o, !.plan = p,
                                           !.customer = customer[o],
                                           !.subscription = subscription[o]])
    /\ UNCHANGED <<columns, checkout, outbox, deaths>>

\* Mutant: the plan is activated when the session is created.
CreateSessionActivating(w, c) ==
    LET k == task[w]
    IN  /\ Goto(w, "provider", "update_plan")
        /\ k.plan = "pro"
        /\ checkout[c].state = "none"
        /\ checkout' = [checkout EXCEPT ![c] =
                           [org      |-> k.org,
                            customer |-> IF k.customer = None THEN c ELSE k.customer,
                            state    |-> "open"]]
        /\ UNCHANGED <<columns, outbox, deaths, task>>

\* Pro: the browser is sent to a session, and the plan stays as it is.
CreateSession(w, c) ==
    LET k == task[w]
    IN  /\ pc[w] = "provider"
        /\ k.plan = "pro"
        /\ checkout[c].state = "none"
        /\ checkout' = [checkout EXCEPT ![c] =
                           [org      |-> k.org,
                            customer |-> IF k.customer = None THEN c ELSE k.customer,
                            state    |-> "open"]]
        /\ Finish(w)
        /\ UNCHANGED <<columns, outbox, deaths>>

\* Free: the subscription that was read, if any, is cancelled at once.  One
\* that is cancelled already makes Stripe raise, and the request ends.
CancelSubscription(w) ==
    LET s == task[w].subscription
    IN  /\ pc[w] = "provider"
        /\ task[w].plan = "free"
        /\ IF s # None /\ checkout[s].state # "active"
           THEN Finish(w) /\ UNCHANGED <<checkout, outbox>>
           ELSE /\ Goto(w, "provider", "update_plan")
                /\ task' = [task EXCEPT ![w] = [@ EXCEPT !.subscription = None]]
                /\ IF s = None THEN UNCHANGED <<checkout, outbox>> ELSE CancelledByStripe(s)
        /\ UNCHANGED <<columns, deaths>>

-----------------------------------------------------------------------------
(* POST /billing/webhooks/stripe *)

Deliverable(e) ==
    /\ Pending(e)
    /\ Ordered => outbox[1] = e /\ \A w \in Workers : task[w].event = None

OrganizationsOf(k) == {o \in Orgs : customer[o] = k}

\* Mutant: every event is resolved by its customer.
AddresseesByCustomer(e) == OrganizationsOf(checkout[e[2]].customer)

\* The event names its organization, or its customer does.
Addressees(e) ==
    IF e[1] = "completed" THEN {checkout[e[2]].org}
    ELSE OrganizationsOf(checkout[e[2]].customer)

\* Mutant: the plan is cleared when the subscription ends.
OutcomeClearingPlan(e, o) ==
    [org          |-> o,
     plan         |-> IF e[1] = "completed" THEN "pro" ELSE None,
     customer     |-> checkout[e[2]].customer,
     subscription |-> IF e[1] = "completed" THEN e[2] ELSE None,
     event        |-> e]

Outcome(e, o) ==
    [org          |-> o,
     plan         |-> IF e[1] = "completed" THEN "pro" ELSE "free",
     customer     |-> checkout[e[2]].customer,
     subscription |-> IF e[1] = "completed" THEN e[2] ELSE None,
     event        |-> e]

\* Mutant: the cancellation is applied to an organization that is not asked for.
ReceiveEventForAnyone(w, e) ==
    /\ Deliverable(e)
    /\ \E o \in IF e[1] = "completed" THEN {checkout[e[2]].org} ELSE Orgs :
          Begin(w, "update_plan", Outcome(e, o))
    /\ UNCHANGED <<columns, checkout, outbox, deaths>>

\* An event of nobody is answered and forgotten.
ReceiveEvent(w, e) ==
    /\ Deliverable(e)
    /\ IF Addressees(e) = {}
       THEN Begin(w, "respond", Outcome(e, None))
       ELSE \E o \in Addressees(e) : Begin(w, "update_plan", Outcome(e, o))
    /\ UNCHANGED <<columns, checkout, outbox, deaths>>

\* Mutant: Stripe is answered before the ids are stored.
UpdatePlanAnswering(w) ==
    /\ Goto(w, "update_plan", "update_ids")
    /\ plan' = [plan EXCEPT ![task[w].org] = task[w].plan]
    /\ Answered(task[w].event)
    /\ UNCHANGED <<customer, subscription, checkout, deaths, task>>

UpdatePlan(w) ==
    /\ Goto(w, "update_plan", "update_ids")
    /\ plan' = [plan EXCEPT ![task[w].org] = task[w].plan]
    /\ UNCHANGED <<customer, subscription, checkout, outbox, deaths, task>>

\* One transaction takes the customer away from any other organization.
UpdateIds(w) ==
    LET k == task[w]
    IN  /\ pc[w] = "update_ids"
        /\ customer' = [o \in Orgs |->
                           IF o = k.org THEN k.customer
                           ELSE IF k.customer # None /\ customer[o] = k.customer THEN None
                           ELSE customer[o]]
        /\ subscription' = [subscription EXCEPT ![k.org] = k.subscription]
        /\ IF k.event = None THEN Finish(w)
           ELSE Goto(w, "update_ids", "respond") /\ UNCHANGED task
        /\ UNCHANGED <<plan, checkout, outbox, deaths>>

Respond(w) ==
    /\ pc[w] = "respond"
    /\ Answered(task[w].event)
    /\ Finish(w)
    /\ UNCHANGED <<columns, checkout, deaths>>

-----------------------------------------------------------------------------
\* The process dies, or the database or Stripe fails, or the answer is lost.
Abort(w) ==
    /\ deaths < MaxDeaths
    /\ deaths' = deaths + 1
    /\ pc[w] # "idle"
    /\ Finish(w)
    /\ UNCHANGED <<columns, checkout, outbox>>

Stripe == \E c \in Checkouts : Pay(c) \/ Abandon(c) \/ Lapse(c)

Delivery(w) == \E e \in Events : ReceiveEvent(w, e)

Step(w) ==
    \/ \E c \in Checkouts : CreateSession(w, c)
    \/ CancelSubscription(w)
    \/ UpdatePlan(w)
    \/ UpdateIds(w)
    \/ Respond(w)

Next ==
    \/ Stripe
    \/ \E w \in Workers :
          \/ \E o \in Orgs, p \in Plans : ReadOrganization(w, o, p)
          \/ Delivery(w)
          \/ Step(w)
          \/ Abort(w)

Spec == Init /\ [][Next]_vars

\* Threads go on with what they began, and Stripe repeats what is not answered
\* until some thread takes it.
FairSpec ==
    /\ Spec
    /\ \A w \in Workers : WF_vars(Step(w))
    /\ WF_vars(\E w \in Workers : Delivery(w))

-----------------------------------------------------------------------------
(* Properties that hold whatever clients do and in whatever order webhooks  *)
(* arrive.                                                                 *)

\* Every variable has its type.
TypeOK ==
    /\ plan \in [Orgs -> Plans]
    /\ customer \in [Orgs -> Checkouts \cup {None}]
    /\ subscription \in [Orgs -> Checkouts \cup {None}]
    /\ checkout \in [Checkouts -> Checkout]
    /\ outbox \in Seq(Events)
    /\ deaths \in 0..MaxDeaths
    /\ pc \in [Workers -> PC]
    /\ task \in [Workers -> Task]

Paid == {c \in Checkouts : checkout[c].state \in {"active", "cancelled"}}

\* An organization is on Pro only after it has paid: "the plan is only
\* activated once Stripe confirms payment via webhook".
ProWasPaid == \A o \in Orgs : plan[o] = "pro" => CheckoutsOf(o) \cap Paid # {}

\* The Stripe ids of an organization come from its own payments, so that the
\* events of one customer never reach another organization.
IdsStayInOrganization ==
    \A o \in Orgs :
        /\ customer[o] # None => checkout[customer[o]].org = o
        /\ subscription[o] # None => subscription[o] \in CheckoutsOf(o) \cap Paid

-----------------------------------------------------------------------------
(* Properties that need disciplined clients and ordered webhooks.          *)

ActiveOf(o) == {c \in CheckoutsOf(o) : checkout[c].state = "active"}

\* When nothing is on its way, an organization is on Pro exactly if it has an
\* active subscription, and it is the recorded one: requests that died half-way
\* between Stripe and the two updates have been made good by the webhooks.
PlanFollowsPayment ==
    \A o \in Orgs : Settled(o) =>
        /\ plan[o] = "pro" <=> ActiveOf(o) # {}
        /\ \A c \in ActiveOf(o) : subscription[o] = c

\* Who has paid gets Pro, unless the subscription ends first.
PaymentActivates ==
    \A c \in Checkouts, o \in Orgs :
        (checkout[c].state = "active" /\ checkout[c].org = o)
            ~> (plan[o] = "pro" \/ checkout[c].state = "cancelled")

-----------------------------------------------------------------------------
\* What the documentation says and the code does not ensure: "downgrading to
\* Free cancels any existing subscription immediately".  When the provider has
\* cancelled for a downgrade, the organization has no active subscription that
\* the service has been told of.
DowngradeCancels ==
    \A w \in Workers : pc[w] = "update_plan" /\ task[w].event = None =>
        \A c \in ActiveOf(task[w].org) : Pending(<<"completed", c>>)
=============================================================================
