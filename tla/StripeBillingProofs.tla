------------------------ MODULE StripeBillingProofs ------------------------
(***************************************************************************)
(* Theorems about StripeBilling, for any number of threads, organizations, *)
(* checkout sessions and deaths.                                           *)
(***************************************************************************)
EXTENDS StripeBilling, SequenceTheorems, TLAPS

\* The customer of an organization, or of one of its sessions, is its own.
OwnCustomer(k, o) == k \in Checkouts /\ checkout[k].org = o

\* A subscription of an organization that it has paid.
OwnPaid(c, o) == c \in CheckoutsOf(o) \cap Paid

\* A session that was created names its organization and one of its customers.
SessionShape(c) ==
    IF checkout[c].state = "none"
    THEN checkout[c].org = None /\ checkout[c].customer = None
    ELSE checkout[c].org \in Orgs /\ OwnCustomer(checkout[c].customer, checkout[c].org)

\* What a request of a client, or the handling of an event, is going to write.
ClientShape(w) ==
    pc[w] # "idle" /\ task[w].event = None =>
        /\ pc[w] # "respond"
        /\ task[w].org \in Orgs
        /\ task[w].customer # None => OwnCustomer(task[w].customer, task[w].org)
        /\ task[w].subscription # None => OwnPaid(task[w].subscription, task[w].org)
        /\ pc[w] # "provider" => task[w].plan = "free"

EventShape(w) ==
    task[w].event # None =>
        /\ pc[w] \in {"update_plan", "update_ids", "respond"}
        /\ task[w].event[2] \in Paid
        /\ pc[w] # "respond" => /\ task[w].org \in Orgs
                                /\ task[w].org = checkout[task[w].event[2]].org
                                /\ OwnCustomer(task[w].customer, task[w].org)
        /\ task[w].customer = checkout[task[w].event[2]].customer
        /\ task[w].plan = IF task[w].event[1] = "completed" THEN "pro" ELSE "free"
        /\ task[w].subscription = IF task[w].event[1] = "completed" THEN task[w].event[2] ELSE None

Inv ==
    /\ TypeOK
    /\ ProWasPaid
    /\ IdsStayInOrganization
    /\ \A c \in Checkouts : SessionShape(c)
    /\ \A w \in Workers : ClientShape(w) /\ EventShape(w)
    /\ \A e \in Events : Pending(e) => e[2] \in Paid

-----------------------------------------------------------------------------
(* The sequence of webhooks.                                               *)

\* What is left when an event is answered.
LEMMA RemoveAtProperties ==
    ASSUME NEW S, NEW s \in Seq(S), NEW i \in 1..Len(s)
    PROVE  /\ RemoveAt(s, i) \in Seq(S)
           /\ Len(RemoveAt(s, i)) = Len(s) - 1
           /\ \A j \in 1..(Len(s) - 1) : RemoveAt(s, i)[j] = IF j < i THEN s[j] ELSE s[j + 1]
<1> DEFINE a == SubSeq(s, 1, i - 1)
           b == SubSeq(s, i + 1, Len(s))
<1>1. Len(s) \in Nat
  OBVIOUS
<1>2. a \in Seq(S) /\ Len(a) = i - 1 /\ \A j \in 1..(i - 1) : a[j] = s[j]
  BY <1>1, SubSeqProperties, SMTT(30)
<1>3. b \in Seq(S) /\ Len(b) = Len(s) - i /\ \A j \in 1..(Len(s) - i) : b[j] = s[i + j]
  BY <1>1, SubSeqProperties, SMTT(30)
<1>4. RemoveAt(s, i) = a \o b
  BY DEF RemoveAt
<1> HIDE DEF a, b
<1>5. /\ a \o b \in Seq(S) /\ Len(a \o b) = Len(a) + Len(b)
      /\ \A j \in 1..(Len(a) + Len(b)) :
             (a \o b)[j] = IF j <= Len(a) THEN a[j] ELSE b[j - Len(a)]
  BY <1>2, <1>3, ConcatProperties
<1> QED
  BY <1>1, <1>2, <1>3, <1>4, <1>5, SMTT(30)

\* An announcement is pending, with what was.
LEMMA AnnounceProperties ==
    ASSUME TypeOK, NEW kind \in {"completed", "deleted"}, NEW c \in Checkouts, Announce(kind, c)
    PROVE  /\ outbox' \in Seq(Events)
           /\ \A e \in Events : Pending(e)' <=> (Pending(e) \/ e = <<kind, c>>)
<1>1. <<kind, c>> \in Events /\ outbox \in Seq(Events)
  BY DEF Events, TypeOK
<1>2. /\ outbox' \in Seq(Events) /\ Len(outbox') = Len(outbox) + 1 /\ Len(outbox) \in Nat
      /\ \A i \in 1..Len(outbox) : outbox'[i] = outbox[i]
      /\ outbox'[Len(outbox) + 1] = <<kind, c>>
  BY <1>1, AppendProperties DEF Announce
<1>3. DOMAIN outbox = 1..Len(outbox) /\ DOMAIN outbox' = 1..(Len(outbox) + 1)
  BY <1>1, <1>2
<1>4. ASSUME NEW e \in Events, Pending(e)'
      PROVE  Pending(e) \/ e = <<kind, c>>
  <2>1. PICK i \in 1..(Len(outbox) + 1) : outbox'[i] = e
    BY <1>3, <1>4 DEF Pending
  <2>2. CASE i = Len(outbox) + 1
    BY <1>2, <2>1, <2>2
  <2>3. CASE i \in 1..Len(outbox)
    BY <1>2, <1>3, <2>1, <2>3 DEF Pending
  <2> QED
    BY <1>2, <2>1, <2>2, <2>3
<1>5. ASSUME NEW e \in Events, Pending(e) \/ e = <<kind, c>>
      PROVE  Pending(e)'
  <2>1. Len(outbox) + 1 \in DOMAIN outbox'
    BY <1>2, <1>3
  <2>2. CASE e = <<kind, c>>
    BY <1>2, <2>1, <2>2 DEF Pending
  <2>3. CASE Pending(e)
    BY <1>2, <1>3, <2>3 DEF Pending
  <2> QED
    BY <1>5, <2>2, <2>3
<1> QED
  BY <1>2, <1>4, <1>5

\* An answer takes nothing else away.
LEMMA AnsweredProperties ==
    ASSUME TypeOK, NEW e, Answered(e)
    PROVE  /\ outbox' \in Seq(Events)
           /\ \A f \in Events : Pending(f)' => Pending(f)
           /\ \A f \in Events : f # e /\ Pending(f) => Pending(f)'
<1>1. CASE ~Pending(e) /\ UNCHANGED outbox
  BY <1>1 DEF TypeOK, Pending
<1>2. ASSUME NEW i \in DOMAIN outbox, outbox[i] = e, outbox' = RemoveAt(outbox, i)
      PROVE  /\ outbox' \in Seq(Events)
             /\ \A f \in Events : Pending(f)' => Pending(f)
             /\ \A f \in Events : f # e /\ Pending(f) => Pending(f)'
  <2>1. /\ DOMAIN outbox = 1..Len(outbox) /\ Len(outbox) \in Nat /\ i \in 1..Len(outbox)
        /\ outbox \in Seq(Events)
    BY <1>2 DEF TypeOK
  <2>2. /\ outbox' \in Seq(Events) /\ Len(outbox') = Len(outbox) - 1
        /\ \A j \in 1..(Len(outbox) - 1) :
               outbox'[j] = IF j < i THEN outbox[j] ELSE outbox[j + 1]
    BY <1>2, <2>1, RemoveAtProperties
  <2>3. DOMAIN outbox' = 1..(Len(outbox) - 1)
    BY <2>1, <2>2
  <2>4. ASSUME NEW f \in Events, Pending(f)'
        PROVE  Pending(f)
    <3>1. PICK j \in 1..(Len(outbox) - 1) : outbox'[j] = f
      BY <2>3, <2>4 DEF Pending
    <3>2. j \in 1..Len(outbox) /\ j + 1 \in 1..Len(outbox)
      BY <2>1, <3>1
    <3> QED
      BY <2>1, <2>2, <3>1, <3>2 DEF Pending
  <2>5. ASSUME NEW f \in Events, f # e, Pending(f)
        PROVE  Pending(f)'
    <3>1. PICK j \in 1..Len(outbox) : outbox[j] = f
      BY <2>1, <2>5 DEF Pending
    <3>2. CASE j < i
      BY <2>1, <2>2, <2>3, <3>1, <3>2 DEF Pending
    <3>3. CASE j > i
      <4>1. j - 1 \in 1..(Len(outbox) - 1) /\ ~(j - 1 < i) /\ (j - 1) + 1 = j
        BY <2>1, <3>1, <3>3
      <4>2. outbox'[j - 1] = f
        BY <2>2, <3>1, <4>1
      <4> QED
        BY <2>3, <4>1, <4>2 DEF Pending
    <3>4. j # i
      BY <1>2, <2>5, <3>1
    <3> QED
      BY <2>1, <3>1, <3>2, <3>3, <3>4
  <2> QED
    BY <2>2, <2>4, <2>5
<1> QED
  BY <1>1, <1>2 DEF Answered

-----------------------------------------------------------------------------
(* Sessions are created once, and keep their organization and customer.    *)

Grows ==
    /\ checkout' \in [Checkouts -> Checkout]
    /\ \A c \in Checkouts : checkout[c].state # "none" =>
           /\ checkout'[c].state # "none"
           /\ checkout'[c].org = checkout[c].org
           /\ checkout'[c].customer = checkout[c].customer
           /\ c \in Paid => c \in Paid'

\* Nobody's task changes owners when only the columns move.
LEMMA OwnersKept ==
    ASSUME Inv, Grows, NEW k, NEW o \in Orgs
    PROVE  /\ OwnCustomer(k, o) => OwnCustomer(k, o)'
           /\ OwnPaid(k, o) => OwnPaid(k, o)'
BY NoneAssumption DEF Inv, Grows, SessionShape, OwnCustomer, OwnPaid, CheckoutsOf, Paid

\* The columns keep to their organization when nobody writes them.
LEMMA ColumnsKept ==
    ASSUME Inv, Grows, UNCHANGED columns
    PROVE  ProWasPaid' /\ IdsStayInOrganization'
<1>1. ProWasPaid'
  <2> SUFFICES ASSUME NEW o \in Orgs, plan[o] = "pro"
               PROVE  (CheckoutsOf(o) \cap Paid)' # {}
    BY DEF ProWasPaid, columns
  <2>1. PICK c : OwnPaid(c, o)
    BY DEF Inv, ProWasPaid, OwnPaid
  <2>2. OwnPaid(c, o)'
    BY <2>1, OwnersKept
  <2> QED
    BY <2>2 DEF OwnPaid
<1>2. IdsStayInOrganization'
  <2> SUFFICES ASSUME NEW o \in Orgs
               PROVE  /\ customer[o] # None => checkout'[customer[o]].org = o
                      /\ subscription[o] # None => subscription[o] \in (CheckoutsOf(o) \cap Paid)'
    BY DEF IdsStayInOrganization, columns
  <2>1. customer[o] # None => OwnCustomer(customer[o], o)
    BY DEF Inv, TypeOK, IdsStayInOrganization, OwnCustomer
  <2>2. subscription[o] # None => OwnPaid(subscription[o], o)
    BY DEF Inv, IdsStayInOrganization, OwnPaid
  <2>3. PICK k, c : k = customer[o] /\ c = subscription[o]
    OBVIOUS
  <2>4. (k # None => OwnCustomer(k, o)') /\ (c # None => OwnPaid(c, o)')
    BY <2>1, <2>2, <2>3, OwnersKept
  <2> QED
    BY <2>3, <2>4 DEF OwnCustomer, OwnPaid
<1> QED
  BY <1>1, <1>2

\* A worker that does not move keeps its shape.
LEMMA ShapesKept ==
    ASSUME Inv, Grows, NEW v \in Workers, pc'[v] = pc[v], task'[v] = task[v]
    PROVE  ClientShape(v)' /\ EventShape(v)'
<1>1. PICK k : k = task[v]
  OBVIOUS
<1>2. k \in Task /\ ClientShape(v) /\ EventShape(v)
  BY <1>1 DEF Inv, TypeOK
<1>3. k.event # None => /\ k.event[2] \in Checkouts
                        /\ k.event[2] \in Paid
                        /\ checkout[k.event[2]].state # "none"
  BY <1>1, <1>2 DEF EventShape, Paid
<1>4. k.org \in Orgs => /\ OwnCustomer(k.customer, k.org) => OwnCustomer(k.customer, k.org)'
                        /\ OwnPaid(k.subscription, k.org) => OwnPaid(k.subscription, k.org)'
  BY OwnersKept
<1>5. k.event # None => /\ k.event[2] \in Paid'
                        /\ checkout'[k.event[2]].org = checkout[k.event[2]].org
                        /\ checkout'[k.event[2]].customer = checkout[k.event[2]].customer
  BY <1>3 DEF Grows
<1>6. ClientShape(v)'
  BY <1>1, <1>2, <1>4 DEF ClientShape, OwnCustomer, OwnPaid
<1>7. EventShape(v)'
  BY <1>1, <1>2, <1>4, <1>5 DEF EventShape, OwnCustomer
<1> QED
  BY <1>6, <1>7

\* Sessions only grow, so what a worker knows of them stays true.
LEMMA SessionsKept ==
    ASSUME Inv, Grows,
           \A c \in Checkouts : checkout[c].state = "none" => checkout'[c] = checkout[c]
    PROVE  \A c \in Checkouts : SessionShape(c)'
<1> SUFFICES ASSUME NEW c \in Checkouts, checkout[c].state # "none"
             PROVE  SessionShape(c)'
  BY DEF Inv, SessionShape
<1>1. PICK k, o : k = checkout[c].customer /\ o = checkout[c].org
  OBVIOUS
<1>2. o \in Orgs /\ OwnCustomer(k, o)
  BY <1>1 DEF Inv, SessionShape
<1>3. OwnCustomer(k, o)'
  BY <1>2, OwnersKept
<1> QED
  BY <1>1, <1>2, <1>3 DEF Grows, SessionShape, OwnCustomer

\* What no step on Stripe's side or on the columns can break.
LEMMA PendingKept ==
    ASSUME Inv, Grows, \A e \in Events : Pending(e)' => (Pending(e) \/ e[2] \in Paid')
    PROVE  \A e \in Events : (Pending(e) => e[2] \in Paid)'
BY DEF Inv, Grows, Events, Paid

-----------------------------------------------------------------------------
(* The invariant, one action at a time.                                    *)

\* No organization is on the Pro plan at first.
LEMMA InitInv == Init => Inv
<1> SUFFICES ASSUME Init
             PROVE  Inv
  OBVIOUS
<1>1. outbox \in Seq(Events)
  BY DEF Init
<1>2. ~ \E e \in Events : Pending(e)
  BY DEF Init, Pending
<1> QED
  BY <1>1, <1>2, DeathsAssumption
     DEF Init, Inv, TypeOK, ProWasPaid, IdsStayInOrganization, SessionShape, ClientShape,
         EventShape, Checkout, Task, NoTask, Plans, PC

\* What happens at Stripe: a session is paid, abandoned or cancelled.
LEMMA StripeInv ==
    ASSUME Inv, NEW c \in Checkouts, Pay(c) \/ Abandon(c) \/ Lapse(c)
    PROVE  Inv'
<1>1. PICK s \in {"abandoned", "active", "cancelled"} :
          /\ checkout' = [checkout EXCEPT ![c] = [@ EXCEPT !.state = s]]
          /\ checkout[c].state \in {"open", "active"}
          /\ checkout[c].state = "active" => s = "cancelled"
  BY DEF Pay, Abandon, Lapse, CancelledByStripe
<1>2. Grows
  BY <1>1 DEF Grows, Inv, TypeOK, Checkout, Paid
<1>3. UNCHANGED <<columns, deaths, pc, task>>
  BY DEF Pay, Abandon, Lapse
<1>4. /\ outbox' \in Seq(Events)
      /\ \A e \in Events : Pending(e)' => (Pending(e) \/ e[2] \in Paid')
  <2>1. CASE Pay(c)
    <3>1. Announce("completed", c) /\ c \in Paid'
      BY <2>1 DEF Pay, Paid, Inv, TypeOK, Checkout
    <3> QED
      BY <3>1, AnnounceProperties DEF Inv
  <2>2. CASE Abandon(c)
    BY <2>2 DEF Abandon, Pending, Inv, TypeOK
  <2>3. CASE Lapse(c)
    <3>1. Announce("deleted", c) /\ c \in Paid'
      BY <2>3 DEF Lapse, CancelledByStripe, Paid, Inv, TypeOK, Checkout
    <3> QED
      BY <3>1, AnnounceProperties DEF Inv
  <2> QED
    BY <2>1, <2>2, <2>3
<1>5. TypeOK'
  BY <1>2, <1>3, <1>4 DEF Inv, TypeOK, Grows, columns
<1>6. \A v \in Workers : ClientShape(v)' /\ EventShape(v)'
  BY <1>2, <1>3, ShapesKept
<1>7. \A d \in Checkouts : SessionShape(d)'
  BY <1>1, <1>2, SessionsKept DEF Inv, TypeOK
<1> QED
  BY <1>2, <1>3, <1>4, <1>5, <1>6, <1>7, ColumnsKept, PendingKept DEF Inv

\* A step of worker w that creates no session.
LEMMA WorkerStep ==
    ASSUME Inv, TypeOK', ProWasPaid', IdsStayInOrganization', Grows, NEW w \in Workers,
           \A c \in Checkouts : checkout[c].state = "none" => checkout'[c] = checkout[c],
           \A v \in Workers : v # w => pc'[v] = pc[v] /\ task'[v] = task[v],
           \A e \in Events : Pending(e)' => (Pending(e) \/ e[2] \in Paid'),
           ClientShape(w)', EventShape(w)'
    PROVE  Inv'
<1>1. \A v \in Workers : ClientShape(v)' /\ EventShape(v)'
  BY ShapesKept
<1> QED
  BY <1>1, SessionsKept, PendingKept DEF Inv

\* Sessions that do not change have not shrunk.
LEMMA UnchangedGrows == Inv /\ checkout' = checkout => Grows
BY DEF Inv, TypeOK, Grows, Paid

\* A worker at rest has a shape.
LEMMA IdleShape ==
    ASSUME NEW w \in Workers, pc'[w] = "idle", task'[w] = NoTask
    PROVE  ClientShape(w)' /\ EventShape(w)'
BY DEF ClientShape, EventShape, NoTask

\* The empty task has its type.
LEMMA NoTaskType == NoTask \in Task
BY DEF NoTask, Task, Plans

ChangeRequest(o, p) == [NoTask EXCEPT !.org = o, !.plan = p, !.customer = customer[o],
                                      !.subscription = subscription[o]]

\* Zenon takes one field at a time.
LEMMA ChangeRequestFields ==
    ASSUME TypeOK, NEW o \in Orgs, NEW p \in Plans
    PROVE  LET k == ChangeRequest(o, p)
           IN  /\ k \in Task
               /\ k.org = o /\ k.plan = p
               /\ k.customer = customer[o] /\ k.subscription = subscription[o]
               /\ k.event = None
<1> DEFINE k == ChangeRequest(o, p)
<1>1. customer[o] \in Checkouts \cup {None} /\ subscription[o] \in Checkouts \cup {None}
  BY DEF TypeOK
<1>2. k \in Task
  BY <1>1, NoTaskType DEF ChangeRequest, Task
<1>3. k.org = o
  BY DEF ChangeRequest, NoTask
<1>4. k.plan = p
  BY DEF ChangeRequest, NoTask
<1>5. k.customer = customer[o]
  BY DEF ChangeRequest, NoTask
<1>6. k.subscription = subscription[o]
  BY DEF ChangeRequest, NoTask
<1>7. k.event = None
  BY DEF ChangeRequest, NoTask
<1> QED
  BY <1>2, <1>3, <1>4, <1>5, <1>6, <1>7

\* Reading a row copies ids of its own organization.
LEMMA ReadOrganizationInv ==
    ASSUME Inv, NEW w \in Workers, NEW o \in Orgs, NEW p \in Plans, ReadOrganization(w, o, p)
    PROVE  Inv'
<1>1. PICK k : k = ChangeRequest(o, p)
  OBVIOUS
<1>2. task' = [task EXCEPT ![w] = k] /\ pc' = [pc EXCEPT ![w] = "provider"]
  BY <1>1 DEF ReadOrganization, Begin, ChangeRequest
<1>3. /\ k \in Task
      /\ k.org = o /\ k.customer = customer[o] /\ k.subscription = subscription[o]
      /\ k.event = None
  BY <1>1, ChangeRequestFields DEF Inv
<1>4. UNCHANGED <<columns, checkout, outbox, deaths>>
  BY DEF ReadOrganization
<1>5. Grows
  BY <1>4, UnchangedGrows
<1>6. TypeOK' /\ \A e \in Events : Pending(e)' => Pending(e)
  BY <1>2, <1>3, <1>4 DEF Inv, TypeOK, columns, PC, Pending
<1>7. EventShape(w)'
  BY <1>2, <1>3 DEF EventShape, Inv, TypeOK
<1>8. /\ customer[o] # None => OwnCustomer(customer[o], o)
      /\ subscription[o] # None => OwnPaid(subscription[o], o)
  BY DEF Inv, TypeOK, IdsStayInOrganization, OwnCustomer, OwnPaid
<1>9. /\ k.customer # None => OwnCustomer(k.customer, o)'
      /\ k.subscription # None => OwnPaid(k.subscription, o)'
  BY <1>3, <1>4, <1>8 DEF OwnCustomer, OwnPaid, CheckoutsOf, Paid
<1>10. ClientShape(w)'
  BY <1>2, <1>3, <1>9 DEF ClientShape, Inv, TypeOK, OwnCustomer, OwnPaid
<1>11. ProWasPaid' /\ IdsStayInOrganization'
  BY <1>4, <1>5, ColumnsKept
<1>12. \A v \in Workers : v # w => pc'[v] = pc[v] /\ task'[v] = task[v]
  BY <1>2 DEF Inv, TypeOK
<1> QED
  BY <1>4, <1>5, <1>6, <1>7, <1>10, <1>11, <1>12, WorkerStep

\* A new session belongs to the organization of the request, and so does its
\* customer, a new one or the recorded one.
LEMMA CreateSessionInv ==
    ASSUME Inv, NEW w \in Workers, NEW c \in Checkouts, CreateSession(w, c)
    PROVE  Inv'
<1>1. PICK k, x, s : k = task[w] /\ x = (IF k.customer = None THEN c ELSE k.customer)
                     /\ s = [org |-> k.org, customer |-> x, state |-> "open"]
  OBVIOUS
<1>2. /\ checkout[c].state = "none" /\ checkout' = [checkout EXCEPT ![c] = s]
      /\ pc' = [pc EXCEPT ![w] = "idle"] /\ task' = [task EXCEPT ![w] = NoTask]
      /\ UNCHANGED <<columns, outbox, deaths>>
      /\ pc[w] = "provider"
  BY <1>1 DEF CreateSession, Finish
<1>3. /\ k.org \in Orgs /\ x \in Checkouts
      /\ x # c => OwnCustomer(x, k.org)
  BY <1>1, <1>2 DEF Inv, TypeOK, ClientShape, EventShape, Task, OwnCustomer
<1>4. s \in Checkout /\ s.org = k.org /\ s.customer = x /\ s.state = "open"
  BY <1>1, <1>3 DEF Checkout
<1>5. Grows
  BY <1>2, <1>4 DEF Grows, Inv, TypeOK, Paid
<1>6. TypeOK' /\ \A e \in Events : Pending(e)' => Pending(e)
  BY <1>2, <1>5, NoTaskType DEF Inv, TypeOK, columns, PC, Grows, Pending
<1>7. ClientShape(w)' /\ EventShape(w)'
  BY <1>2, IdleShape DEF Inv, TypeOK
<1>8. \A v \in Workers : v # w => pc'[v] = pc[v] /\ task'[v] = task[v]
  BY <1>2 DEF Inv, TypeOK
<1>9. \A v \in Workers : ClientShape(v)' /\ EventShape(v)'
  BY <1>5, <1>7, <1>8, ShapesKept
<1>10. SessionShape(c)'
  <2>1. checkout'[c] = s
    BY <1>2 DEF Inv, TypeOK
  <2>2. OwnCustomer(x, k.org)'
    <3>1. CASE x = c
      BY <2>1, <1>3, <1>4, <3>1 DEF OwnCustomer
    <3>2. CASE x # c
      BY <1>2, <1>3, <3>2 DEF OwnCustomer, Inv, TypeOK
    <3> QED
      BY <3>1, <3>2
  <2> QED
    BY <1>3, <1>4, <2>1, <2>2 DEF SessionShape, OwnCustomer
<1>11. \A d \in Checkouts : d # c => SessionShape(d)'
  <2> SUFFICES ASSUME NEW d \in Checkouts, d # c
               PROVE  SessionShape(d)'
    OBVIOUS
  <2>1. checkout'[d] = checkout[d] /\ SessionShape(d)
    BY <1>2 DEF Inv, TypeOK
  <2>2. CASE checkout[d].state = "none"
    BY <2>1, <2>2 DEF SessionShape
  <2>3. CASE checkout[d].state # "none"
    <3>1. PICK y, o : y = checkout[d].customer /\ o = checkout[d].org
      OBVIOUS
    <3>2. o \in Orgs /\ OwnCustomer(y, o)
      BY <2>1, <2>3, <3>1 DEF SessionShape
    <3>3. OwnCustomer(y, o)'
      BY <1>5, <3>2, OwnersKept
    <3> QED
      BY <2>1, <2>3, <3>1, <3>2, <3>3 DEF SessionShape, OwnCustomer
  <2> QED
    BY <2>2, <2>3
<1>12. \A e \in Events : (Pending(e) => e[2] \in Paid)'
  BY <1>5, <1>6, PendingKept
<1> QED
  BY <1>2, <1>5, <1>6, <1>9, <1>10, <1>11, <1>12, ColumnsKept DEF Inv

\* A subscription is cancelled by its organization only.
LEMMA CancelSubscriptionInv ==
    ASSUME Inv, NEW w \in Workers, CancelSubscription(w)
    PROVE  Inv'
<1>1. PICK k, s, x : k = task[w] /\ s = k.subscription /\ x = [k EXCEPT !.subscription = None]
  OBVIOUS
<1>2. /\ k \in Task /\ k.event = None /\ k.org \in Orgs /\ k.plan = "free"
      /\ k.customer # None => OwnCustomer(k.customer, k.org)
      /\ s # None => s \in Checkouts
      /\ pc[w] = "provider" /\ UNCHANGED <<columns, deaths>>
  BY <1>1 DEF CancelSubscription, Inv, TypeOK, ClientShape, EventShape, Task
<1>3. /\ x \in Task /\ x.org = k.org /\ x.customer = k.customer /\ x.subscription = None
      /\ x.event = None /\ x.plan = "free"
  BY <1>1, <1>2 DEF Task
<1>4. CASE /\ pc' = [pc EXCEPT ![w] = "idle"] /\ task' = [task EXCEPT ![w] = NoTask]
           /\ UNCHANGED <<checkout, outbox>>
  <2>1. Grows
    BY <1>4, UnchangedGrows
  <2>2. TypeOK' /\ \A e \in Events : Pending(e)' => Pending(e)
    BY <1>2, <1>4, NoTaskType DEF Inv, TypeOK, columns, PC, Pending
  <2>3. ClientShape(w)' /\ EventShape(w)'
    BY <1>4, IdleShape DEF Inv, TypeOK
  <2>4. \A v \in Workers : v # w => pc'[v] = pc[v] /\ task'[v] = task[v]
    BY <1>4 DEF Inv, TypeOK
  <2> QED
    BY <1>2, <1>4, <2>1, <2>2, <2>3, <2>4, ColumnsKept, WorkerStep
<1>5. CASE /\ pc' = [pc EXCEPT ![w] = "update_plan"] /\ task' = [task EXCEPT ![w] = x]
           /\ IF s = None THEN UNCHANGED <<checkout, outbox>> ELSE CancelledByStripe(s)
  <2>1. /\ Grows
        /\ \A c \in Checkouts : checkout[c].state = "none" => checkout'[c] = checkout[c]
        /\ outbox' \in Seq(Events)
        /\ \A e \in Events : Pending(e)' => (Pending(e) \/ e[2] \in Paid')
    <3>1. CASE s = None
      BY <1>5, <3>1, UnchangedGrows DEF Inv, TypeOK, Pending
    <3>2. CASE s # None
      <4>1. /\ s \in Checkouts /\ checkout[s].state = "active"
            /\ checkout' = [checkout EXCEPT ![s] = [@ EXCEPT !.state = "cancelled"]]
            /\ Announce("deleted", s)
        BY <1>2, <1>5, <3>2 DEF CancelledByStripe
      <4>2. /\ Grows /\ s \in Paid'
            /\ \A c \in Checkouts : checkout[c].state = "none" => checkout'[c] = checkout[c]
        BY <4>1 DEF Grows, Inv, TypeOK, Checkout, Paid
      <4> QED
        BY <4>1, <4>2, AnnounceProperties DEF Inv
    <3> QED
      BY <3>1, <3>2
  <2>2. TypeOK'
    BY <1>2, <1>3, <1>5, <2>1 DEF Inv, TypeOK, columns, PC, Grows
  <2>3. /\ \A v \in Workers : v # w => pc'[v] = pc[v] /\ task'[v] = task[v]
        /\ task'[w] = x /\ pc'[w] = "update_plan"
    BY <1>5 DEF Inv, TypeOK
  <2>4. k.customer # None => OwnCustomer(k.customer, k.org)'
    BY <1>2, <2>1, OwnersKept
  <2>5. ClientShape(w)' /\ EventShape(w)'
    BY <1>2, <1>3, <2>3, <2>4 DEF ClientShape, EventShape, OwnCustomer
  <2> QED
    BY <1>2, <2>1, <2>2, <2>3, <2>5, ColumnsKept, WorkerStep
<1> QED
  BY <1>1, <1>4, <1>5 DEF CancelSubscription, Goto, Finish

\* The addressee of an event is the organization that paid: the customer of a
\* session is nobody else's.
LEMMA AddresseeOwns ==
    ASSUME Inv, NEW e \in Events, e[2] \in Paid, NEW o \in Addressees(e)
    PROVE  o \in Orgs /\ o = checkout[e[2]].org
<1>1. e[2] \in Checkouts /\ checkout[e[2]].state # "none"
  BY DEF Paid
<1>2. checkout[e[2]].org \in Orgs /\ OwnCustomer(checkout[e[2]].customer, checkout[e[2]].org)
  BY <1>1 DEF Inv, SessionShape
<1>3. CASE e[1] = "completed"
  BY <1>2, <1>3 DEF Addressees
<1>4. CASE e[1] # "completed"
  <2>1. o \in Orgs /\ customer[o] = checkout[e[2]].customer
    BY <1>4 DEF Addressees, OrganizationsOf
  <2> QED
    BY <1>2, <2>1, NoneAssumption DEF Inv, IdsStayInOrganization, OwnCustomer
<1> QED
  BY <1>3, <1>4

\* The plan an event asks for.
LEMMA OutcomeFields ==
    ASSUME Inv, NEW e \in Events, e[2] \in Paid, NEW o \in Orgs \cup {None}
    PROVE  LET k == Outcome(e, o)
           IN  /\ k \in Task
               /\ k.org = o
               /\ k.event = e
               /\ k.customer = checkout[e[2]].customer
               /\ k.plan = IF e[1] = "completed" THEN "pro" ELSE "free"
               /\ k.subscription = IF e[1] = "completed" THEN e[2] ELSE None
<1>1. e[2] \in Checkouts /\ checkout[e[2]].customer \in Checkouts \cup {None}
  BY DEF Inv, TypeOK, Checkout, Paid
<1> QED
  BY <1>1 DEF Outcome, Task, Plans

\* An event names the organization of its own session.
LEMMA ReceiveEventInv ==
    ASSUME Inv, NEW w \in Workers, NEW e \in Events, ReceiveEvent(w, e)
    PROVE  Inv'
<1>1. e[2] \in Paid /\ e # None
  BY EventsAssumption DEF ReceiveEvent, Deliverable, Inv
<1>2. PICK o \in Orgs \cup {None}, p \in {"update_plan", "respond"} :
          /\ Begin(w, p, Outcome(e, o))
          /\ p # "respond" => o \in Addressees(e)
  BY <1>1, AddresseeOwns DEF ReceiveEvent
<1>3. PICK k : k = Outcome(e, o)
  OBVIOUS
<1>4. /\ k \in Task /\ k.org = o /\ k.event = e /\ k.customer = checkout[e[2]].customer
      /\ k.plan = IF e[1] = "completed" THEN "pro" ELSE "free"
      /\ k.subscription = IF e[1] = "completed" THEN e[2] ELSE None
  BY <1>1, <1>3, OutcomeFields
<1>5. task' = [task EXCEPT ![w] = k] /\ pc' = [pc EXCEPT ![w] = p]
  BY <1>2, <1>3 DEF Begin
<1>6. UNCHANGED <<columns, checkout, outbox, deaths>>
  BY DEF ReceiveEvent
<1>7. Grows
  BY <1>6, UnchangedGrows
<1>8. TypeOK' /\ \A f \in Events : Pending(f)' => Pending(f)
  BY <1>4, <1>5, <1>6 DEF Inv, TypeOK, columns, PC, Pending
<1>9. /\ \A v \in Workers : v # w => pc'[v] = pc[v] /\ task'[v] = task[v]
      /\ pc'[w] = p /\ task'[w] = k
  BY <1>5 DEF Inv, TypeOK
<1>10. ClientShape(w)'
  BY <1>1, <1>4, <1>9 DEF ClientShape
<1>11. p # "respond" => /\ o \in Orgs /\ o = checkout[e[2]].org
                        /\ OwnCustomer(checkout[e[2]].customer, o)
  <2> SUFFICES ASSUME p # "respond"
               PROVE  /\ o \in Orgs /\ o = checkout[e[2]].org
                      /\ OwnCustomer(checkout[e[2]].customer, o)
    OBVIOUS
  <2>1. o \in Orgs /\ o = checkout[e[2]].org
    BY <1>1, <1>2, AddresseeOwns
  <2> QED
    BY <1>1, <2>1 DEF Inv, SessionShape, Paid
<1>12. EventShape(w)'
  BY <1>1, <1>4, <1>6, <1>9, <1>11 DEF EventShape, OwnCustomer, Paid
<1> QED
  BY <1>6, <1>7, <1>8, <1>9, <1>10, <1>12, ColumnsKept, WorkerStep

\* A plan that is set to Pro was paid.
LEMMA UpdatePlanInv ==
    ASSUME Inv, NEW w \in Workers, UpdatePlan(w)
    PROVE  Inv'
<1>1. PICK k : k = task[w]
  OBVIOUS
<1>2. /\ pc[w] = "update_plan" /\ pc' = [pc EXCEPT ![w] = "update_ids"]
      /\ plan' = [plan EXCEPT ![k.org] = k.plan]
      /\ UNCHANGED <<customer, subscription, checkout, outbox, deaths, task>>
  BY <1>1 DEF UpdatePlan, Goto
<1>3. k \in Task /\ k.org \in Orgs /\ (k.plan = "pro" => k.event # None) /\ k.plan \in Plans
  BY <1>1, <1>2 DEF Inv, TypeOK, ClientShape, EventShape, Task
<1>4. k.plan = "pro" => OwnPaid(k.event[2], k.org)
  BY <1>1, <1>2, <1>3 DEF Inv, EventShape, OwnPaid, CheckoutsOf, Paid
<1>5. Grows
  BY <1>2, UnchangedGrows
<1>6. TypeOK' /\ \A f \in Events : Pending(f)' => Pending(f)
  BY <1>2, <1>3 DEF Inv, TypeOK, PC, Pending
<1>7. ProWasPaid'
  BY <1>2, <1>3, <1>4 DEF Inv, TypeOK, ProWasPaid, OwnPaid, CheckoutsOf, Paid
<1>8. IdsStayInOrganization'
  BY <1>2 DEF Inv, IdsStayInOrganization, CheckoutsOf, Paid
<1>9. ClientShape(w) /\ EventShape(w)
  BY DEF Inv
<1>10. ClientShape(w)' /\ EventShape(w)'
  BY <1>2, <1>9 DEF Inv, TypeOK, ClientShape, EventShape, OwnCustomer, OwnPaid, CheckoutsOf, Paid
<1>11. \A v \in Workers : v # w => pc'[v] = pc[v] /\ task'[v] = task[v]
  BY <1>2 DEF Inv, TypeOK
<1> QED
  BY <1>2, <1>5, <1>6, <1>7, <1>8, <1>10, <1>11, WorkerStep

\* The ids that are written are those of the event's session.
LEMMA UpdateIdsInv ==
    ASSUME Inv, NEW w \in Workers, UpdateIds(w)
    PROVE  Inv'
<1>1. PICK k : k = task[w]
  OBVIOUS
<1>2. /\ pc[w] = "update_ids" /\ UNCHANGED <<plan, checkout, outbox, deaths>>
      /\ subscription' = [subscription EXCEPT ![k.org] = k.subscription]
      /\ customer' = [o \in Orgs |-> IF o = k.org THEN k.customer
                                     ELSE IF k.customer # None /\ customer[o] = k.customer THEN None
                                     ELSE customer[o]]
  BY <1>1 DEF UpdateIds
<1>3. /\ k \in Task /\ k.org \in Orgs
      /\ k.customer \in Checkouts \cup {None} /\ k.subscription \in Checkouts \cup {None}
      /\ k.customer # None => OwnCustomer(k.customer, k.org)
  BY <1>1, <1>2 DEF Inv, TypeOK, ClientShape, EventShape, Task
<1>4. k.subscription # None => OwnPaid(k.subscription, k.org)
  BY <1>1, <1>2 DEF Inv, ClientShape, EventShape, OwnPaid, CheckoutsOf, Paid
<1>5. \/ pc' = [pc EXCEPT ![w] = "idle"] /\ task' = [task EXCEPT ![w] = NoTask]
      \/ k.event # None /\ pc' = [pc EXCEPT ![w] = "respond"] /\ task' = task
  BY <1>1 DEF UpdateIds, Goto, Finish
<1>6. Grows
  BY <1>2, UnchangedGrows
<1>7. customer' \in [Orgs -> Checkouts \cup {None}] /\ subscription' \in [Orgs -> Checkouts \cup {None}]
  BY <1>2, <1>3 DEF Inv, TypeOK
<1>8. pc' \in [Workers -> PC] /\ task' \in [Workers -> Task]
  BY <1>5, NoTaskType DEF Inv, TypeOK, PC
<1>9. TypeOK' /\ \A f \in Events : Pending(f)' => Pending(f)
  BY <1>2, <1>7, <1>8 DEF Inv, TypeOK, Pending
<1>10. ProWasPaid'
  BY <1>2 DEF Inv, ProWasPaid, CheckoutsOf, Paid
<1>11. IdsStayInOrganization'
  BY <1>2, <1>3, <1>4 DEF Inv, TypeOK, IdsStayInOrganization, OwnCustomer, OwnPaid, CheckoutsOf,
                          Paid
<1>12. ClientShape(w) /\ EventShape(w)
  BY DEF Inv
<1>13. ClientShape(w)' /\ EventShape(w)'
  <2>1. CASE pc' = [pc EXCEPT ![w] = "idle"] /\ task' = [task EXCEPT ![w] = NoTask]
    BY <2>1, IdleShape DEF Inv, TypeOK
  <2>2. CASE k.event # None /\ pc' = [pc EXCEPT ![w] = "respond"] /\ task' = task
    BY <1>1, <1>2, <1>12, <2>2 DEF Inv, TypeOK, ClientShape, EventShape, Paid
  <2> QED
    BY <1>5, <2>1, <2>2
<1>14. \A v \in Workers : v # w => pc'[v] = pc[v] /\ task'[v] = task[v]
  BY <1>5 DEF Inv, TypeOK
<1> QED
  BY <1>2, <1>6, <1>9, <1>10, <1>11, <1>13, <1>14, WorkerStep

\* A request that ends, answered or dead.
LEMMA FinishInv ==
    ASSUME Inv, NEW w \in Workers, Respond(w) \/ Abort(w)
    PROVE  Inv'
<1>1. /\ pc' = [pc EXCEPT ![w] = "idle"] /\ task' = [task EXCEPT ![w] = NoTask]
      /\ UNCHANGED <<columns, checkout>>
  BY DEF Respond, Abort, Finish
<1>2. /\ deaths' \in 0..MaxDeaths
      /\ outbox' \in Seq(Events)
      /\ \A e \in Events : Pending(e)' => Pending(e)
  <2>1. CASE Respond(w)
    BY <2>1, AnsweredProperties DEF Respond, Inv, TypeOK
  <2>2. CASE Abort(w)
    BY <2>2, DeathsAssumption DEF Abort, Inv, TypeOK, Pending
  <2> QED
    BY <2>1, <2>2
<1>3. Grows
  BY <1>1, UnchangedGrows
<1>4. TypeOK'
  BY <1>1, <1>2, NoTaskType DEF Inv, TypeOK, columns, PC
<1>5. ClientShape(w)' /\ EventShape(w)'
  BY <1>1, IdleShape DEF Inv, TypeOK
<1>6. \A v \in Workers : v # w => pc'[v] = pc[v] /\ task'[v] = task[v]
  BY <1>1 DEF Inv, TypeOK
<1> QED
  BY <1>1, <1>2, <1>3, <1>4, <1>5, <1>6, ColumnsKept, WorkerStep

\* Every step keeps the invariant ...
LEMMA NextInv ==
    ASSUME Inv, [Next]_vars
    PROVE  Inv'
<1>1. CASE Stripe
  BY <1>1, StripeInv DEF Stripe
<1>2. ASSUME NEW w \in Workers, Step(w)
      PROVE  Inv'
  BY <1>2, CreateSessionInv, CancelSubscriptionInv, UpdatePlanInv, UpdateIdsInv, FinishInv DEF Step
<1>3. CASE UNCHANGED vars
  <2>1. Grows
    BY <1>3, UnchangedGrows DEF vars
  <2>2. TypeOK' /\ \A e \in Events : Pending(e)' => Pending(e)
    BY <1>3 DEF vars, columns, Inv, TypeOK, Pending
  <2>3. \A v \in Workers : ClientShape(v)' /\ EventShape(v)'
    BY <1>3, <2>1, ShapesKept DEF vars
  <2>4. ProWasPaid' /\ IdsStayInOrganization'
    BY <1>3, <2>1, ColumnsKept DEF vars, columns
  <2>5. \A c \in Checkouts : SessionShape(c)'
    BY <1>3, <2>1, SessionsKept DEF vars
  <2>6. \A e \in Events : (Pending(e) => e[2] \in Paid)'
    BY <2>1, <2>2, PendingKept
  <2> QED
    BY <2>2, <2>3, <2>4, <2>5, <2>6 DEF Inv
<1> QED
  BY <1>1, <1>2, <1>3, ReadOrganizationInv, ReceiveEventInv, FinishInv DEF Next, Delivery

\* ... so it holds in every state.
LEMMA InvAlways == Spec => []Inv
<1>1. Inv /\ [Next]_vars => Inv'
  BY NextInv
<1> QED
  BY <1>1, InitInv, PTL DEF Spec

-----------------------------------------------------------------------------
(* Theorems about any clients and any order of webhooks.                   *)

\* Every reachable state is well-typed.
THEOREM TypeCorrect == Spec => []TypeOK
<1>1. Inv => TypeOK
  BY DEF Inv
<1> QED
  BY <1>1, InvAlways, PTL

\* No organization gets Pro that has not paid, however webhooks are repeated,
\* delayed or reordered and wherever requests die.
THEOREM ProAlwaysPaid == Spec => []ProWasPaid
<1>1. Inv => ProWasPaid
  BY DEF Inv
<1> QED
  BY <1>1, InvAlways, PTL

\* The Stripe ids of one organization never become another's.
THEOREM IdsAlwaysStayInOrganization == Spec => []IdsStayInOrganization
<1>1. Inv => IdsStayInOrganization
  BY DEF Inv
<1> QED
  BY <1>1, InvAlways, PTL

-----------------------------------------------------------------------------
(* When clients change a plan only after everything about the last change  *)
(* has arrived, and webhooks arrive in order.  Then one session of an      *)
(* organization is alive at a time, and all that is on its way is about    *)
(* that one.                                                               *)

Live(o) == {c \in CheckoutsOf(o) : checkout[c].state \in {"open", "active"}}

\* A deletion is announced after the payment.
InOrder ==
    \A i, j \in DOMAIN outbox, c \in Checkouts :
        outbox[i] = <<"deleted", c>> /\ outbox[j] = <<"completed", c>> => j < i

\* An event that is being handled is the first that is pending.
OneEvent(w) ==
    task[w].event # None =>
        /\ outbox # <<>> /\ outbox[1] = task[w].event
        /\ \A v \in Workers : task[v].event # None => v = w

OneLive ==
    \A o \in Orgs :
        /\ \A c, d \in Live(o) : c = d
        /\ \A e \in Events : Pending(e) /\ checkout[e[2]].org = o => Live(o) \subseteq {e[2]}
        /\ \A e, f \in Events : Pending(e) /\ Pending(f)
               /\ checkout[e[2]].org = o /\ checkout[f[2]].org = o => e[2] = f[2]

\* What is pending of a session is what Stripe did with it.
Announced ==
    \A c \in Checkouts :
        /\ Pending(<<"deleted", c>>) => checkout[c].state = "cancelled"
        /\ Pending(<<"completed", c>>) /\ checkout[c].state = "cancelled" => Pending(<<"deleted", c>>)

\* Payments that were answered have left their customer, and the next session
\* is made with it.
Customers ==
    \A c \in Checkouts :
        /\ c \in Paid /\ ~Pending(<<"completed", c>>) =>
               customer[checkout[c].org] = checkout[c].customer
        /\ checkout[c].state = "open" \/ Pending(<<"completed", c>>) =>
               customer[checkout[c].org] \in {None, checkout[c].customer}

\* A client's request knows the organization as it is.
OneClient(w) ==
    pc[w] # "idle" /\ task[w].event = None =>
        /\ \A v \in Workers : pc[v] # "idle" /\ task[v].event = None /\ task[v].org = task[w].org =>
               v = w
        /\ task[w].customer = customer[task[w].org]
        /\ \A c \in CheckoutsOf(task[w].org) : ~Pending(<<"completed", c>>)
        /\ pc[w] = "provider" /\ task[w].plan = "pro" =>
               /\ Live(task[w].org) = {}
               /\ plan[task[w].org] = "free"
               /\ \A c \in CheckoutsOf(task[w].org) : ~Pending(<<"deleted", c>>)
        /\ pc[w] = "provider" /\ task[w].plan = "free" =>
               task[w].subscription # None /\ Live(task[w].org) \subseteq {task[w].subscription}
        /\ pc[w] # "provider" => Live(task[w].org) = {} /\ task[w].subscription = None

\* What handling an event has done so far.
EventDone(w) ==
    task[w].event # None =>
        /\ pc[w] # "update_plan" => /\ task[w].org = checkout[task[w].event[2]].org
                                    /\ plan[task[w].org] = task[w].plan
        /\ pc[w] = "respond" => /\ subscription[task[w].org] = task[w].subscription
                                /\ customer[task[w].org] = task[w].customer

Activated(c) ==
    checkout[c].state = "active" /\ ~Pending(<<"completed", c>>) =>
        plan[checkout[c].org] = "pro" /\ subscription[checkout[c].org] = c

Deactivated(o) ==
    plan[o] = "pro" /\ ActiveOf(o) = {} => \E c \in CheckoutsOf(o) : Pending(<<"deleted", c>>)

\* What the columns and Stripe say of each other.
Agree ==
    /\ InOrder
    /\ OneLive
    /\ Announced
    /\ Customers
    /\ \A c \in Checkouts : Activated(c)
    /\ \A o \in Orgs : Deactivated(o)

OrderedInv ==
    /\ Agree
    /\ \A w \in Workers : OneEvent(w) /\ OneClient(w) /\ EventDone(w)

\* At first nobody has paid.
LEMMA InitOrdered == Init => OrderedInv
<1> SUFFICES ASSUME Init
             PROVE  OrderedInv
  OBVIOUS
<1>1. ~ \E e : Pending(e)
  BY DEF Init, Pending
<1>2. InOrder
  BY DEF Init, InOrder
<1>3. OneLive /\ Announced /\ Customers
  BY <1>1 DEF Init, OneLive, Announced, Customers, Live, CheckoutsOf, Paid
<1>4. \A w \in Workers : OneEvent(w) /\ OneClient(w) /\ EventDone(w)
  BY DEF Init, OneEvent, OneClient, EventDone, NoTask
<1>5. (\A c \in Checkouts : Activated(c)) /\ (\A o \in Orgs : Deactivated(o))
  BY DEF Init, Activated, Deactivated
<1> QED
  BY <1>2, <1>3, <1>4, <1>5 DEF OrderedInv, Agree

\* What the state promises when nothing is on its way.
LEMMA SettledPlan == Inv /\ OrderedInv => PlanFollowsPayment
<1> SUFFICES ASSUME Inv, OrderedInv, NEW o \in Orgs, Settled(o)
             PROVE  /\ plan[o] = "pro" <=> ActiveOf(o) # {}
                    /\ \A c \in ActiveOf(o) : subscription[o] = c
  BY DEF PlanFollowsPayment
<1>1. plan[o] = "pro" => ActiveOf(o) # {}
  BY DEF OrderedInv, Agree, Deactivated, Settled
<1>2. \A c \in ActiveOf(o) : plan[o] = "pro" /\ subscription[o] = c
  BY DEF OrderedInv, Agree, Activated, ActiveOf, CheckoutsOf, Settled
<1> QED
  BY <1>1, <1>2

\* An event joins the end of the outbox.
LEMMA AnnounceOrder ==
    ASSUME TypeOK, InOrder, NEW kind \in {"completed", "deleted"}, NEW c \in Checkouts,
           Announce(kind, c), kind = "completed" => ~Pending(<<"deleted", c>>)
    PROVE  /\ InOrder'
           /\ outbox # <<>> => outbox' # <<>> /\ outbox'[1] = outbox[1]
<1>1. <<kind, c>> \in Events /\ outbox \in Seq(Events)
  BY DEF Events, TypeOK
<1>2. /\ outbox' \in Seq(Events) /\ Len(outbox') = Len(outbox) + 1 /\ Len(outbox) \in Nat
      /\ \A i \in 1..Len(outbox) : outbox'[i] = outbox[i]
      /\ outbox'[Len(outbox) + 1] = <<kind, c>>
  BY <1>1, AppendProperties DEF Announce
<1>3. DOMAIN outbox = 1..Len(outbox) /\ DOMAIN outbox' = 1..(Len(outbox) + 1)
  BY <1>1, <1>2
<1>4. InOrder'
  <2> SUFFICES ASSUME NEW i \in 1..(Len(outbox) + 1), NEW j \in 1..(Len(outbox) + 1),
                      NEW d \in Checkouts,
                      outbox'[i] = <<"deleted", d>>, outbox'[j] = <<"completed", d>>
               PROVE  j < i
    BY <1>3 DEF InOrder
  <2>1. CASE i \in 1..Len(outbox) /\ j \in 1..Len(outbox)
    BY <1>2, <1>3, <2>1 DEF InOrder
  <2>2. CASE i = Len(outbox) + 1 /\ j \in 1..Len(outbox)
    BY <1>2, <2>2
  <2>3. CASE i \in 1..Len(outbox) /\ j = Len(outbox) + 1
    <3>1. outbox[i] = <<"deleted", d>> /\ kind = "completed" /\ d = c
      BY <1>2, <2>3
    <3> QED
      BY <1>3, <2>3, <3>1 DEF Pending
  <2>4. CASE i = Len(outbox) + 1 /\ j = Len(outbox) + 1
    BY <2>4
  <2> QED
    BY <1>2, <2>1, <2>2, <2>3, <2>4
<1>5. outbox # <<>> => 1 \in 1..Len(outbox)
  BY <1>1, <1>2
<1> QED
  BY <1>2, <1>4, <1>5

\* Answering one event keeps the order of the others.
LEMMA AnsweredOrder ==
    ASSUME TypeOK, InOrder, NEW e, Answered(e)
    PROVE  InOrder'
<1>1. CASE ~Pending(e) /\ UNCHANGED outbox
  BY <1>1 DEF InOrder
<1>2. ASSUME NEW i \in DOMAIN outbox, outbox[i] = e, outbox' = RemoveAt(outbox, i)
      PROVE  InOrder'
  <2>1. /\ DOMAIN outbox = 1..Len(outbox) /\ Len(outbox) \in Nat /\ i \in 1..Len(outbox)
        /\ outbox \in Seq(Events)
    BY <1>2 DEF TypeOK
  <2>2. /\ outbox' \in Seq(Events) /\ Len(outbox') = Len(outbox) - 1
        /\ \A j \in 1..(Len(outbox) - 1) :
               outbox'[j] = IF j < i THEN outbox[j] ELSE outbox[j + 1]
    BY <1>2, <2>1, RemoveAtProperties
  <2>3. DOMAIN outbox' = 1..(Len(outbox) - 1)
    BY <2>1, <2>2
  <2> SUFFICES ASSUME NEW x \in 1..(Len(outbox) - 1), NEW y \in 1..(Len(outbox) - 1),
                      NEW d \in Checkouts,
                      outbox'[x] = <<"deleted", d>>, outbox'[y] = <<"completed", d>>
               PROVE  y < x
    BY <2>3 DEF InOrder
  <2>4. x + 1 \in 1..Len(outbox) /\ y + 1 \in 1..Len(outbox) /\ x \in 1..Len(outbox) /\ y \in 1..Len(outbox)
    BY <2>1
  <2>5. PICK a \in 1..Len(outbox) : (a = IF x < i THEN x ELSE x + 1) /\ outbox[a] = <<"deleted", d>>
    BY <2>2, <2>4
  <2>6. PICK b \in 1..Len(outbox) : (b = IF y < i THEN y ELSE y + 1) /\ outbox[b] = <<"completed", d>>
    BY <2>2, <2>4
  <2>7. b < a
    BY <2>1, <2>5, <2>6 DEF InOrder
  <2> QED
    BY <2>1, <2>5, <2>6, <2>7
<1> QED
  BY <1>1, <1>2 DEF Answered

\* When a deletion is the first that is pending, its payment was answered.
LEMMA FirstDeleted ==
    ASSUME TypeOK, InOrder, NEW c \in Checkouts, outbox # <<>>, outbox[1] = <<"deleted", c>>
    PROVE  ~Pending(<<"completed", c>>)
<1>1. DOMAIN outbox = 1..Len(outbox) /\ Len(outbox) \in Nat /\ 1 \in DOMAIN outbox
  BY DEF TypeOK
<1> SUFFICES ASSUME NEW j \in DOMAIN outbox, outbox[j] = <<"completed", c>>
             PROVE  FALSE
  BY DEF Pending
<1>2. j < 1
  BY <1>1 DEF InOrder
<1> QED
  BY <1>1, <1>2

\* The event that is handled is pending, and of the organization it changes.
LEMMA HandledEvent ==
    ASSUME Inv, NEW w \in Workers, OneEvent(w), task[w].event # None
    PROVE  /\ task[w].event \in Events
           /\ Pending(task[w].event)
           /\ task[w].event[2] \in Paid
           /\ pc[w] \in {"update_plan", "update_ids", "respond"}
<1>1. task[w].event \in Events
  BY DEF Inv, TypeOK, Task
<1>2. Pending(task[w].event)
  BY DEF Inv, TypeOK, OneEvent, Pending
<1> QED
  BY <1>1, <1>2 DEF Inv, EventShape

-----------------------------------------------------------------------------
(* The invariant of ordered webhooks, one action at a time.                *)

\* Columns that nobody writes go on agreeing with what was paid.
LEMMA AgreeKept ==
    ASSUME Agree, UNCHANGED <<columns, checkout, outbox>>
    PROVE  Agree'
<1> USE DEF columns
<1>1. /\ \A e : Pending(e)' <=> Pending(e)
      /\ \A o : Live(o)' = Live(o) /\ CheckoutsOf(o)' = CheckoutsOf(o) /\ ActiveOf(o)' = ActiveOf(o)
      /\ Paid' = Paid
  BY DEF Pending, Live, CheckoutsOf, ActiveOf, Paid
<1>2. InOrder' /\ OneLive' /\ Announced'
  BY <1>1 DEF Agree, InOrder, OneLive, Announced
<1>3. Customers'
  BY <1>1 DEF Agree, Customers
<1>4. \A c \in Checkouts : Activated(c)'
  BY <1>1 DEF Agree, Activated
<1>5. \A o \in Orgs : Deactivated(o)'
  BY <1>1 DEF Agree, Deactivated
<1> QED
  BY <1>2, <1>3, <1>4, <1>5 DEF Agree

\* A request that ends leaves the others as they were.
LEMMA DropOrdered ==
    ASSUME Inv, OrderedInv, NEW w \in Workers, Finish(w), UNCHANGED <<columns, checkout, outbox>>
    PROVE  OrderedInv'
<1>1. /\ pc'[w] = "idle" /\ task'[w].event = None
      /\ \A v \in Workers : v # w => pc'[v] = pc[v] /\ task'[v] = task[v]
  BY DEF Finish, Inv, TypeOK, NoTask
<1>2. Agree'
  BY AgreeKept DEF OrderedInv
<1>3. /\ \A e : Pending(e)' <=> Pending(e)
      /\ \A o : Live(o)' = Live(o) /\ CheckoutsOf(o)' = CheckoutsOf(o)
      /\ UNCHANGED <<plan, customer, subscription, checkout, outbox>>
  BY DEF Pending, Live, CheckoutsOf, columns
<1>4. \A v \in Workers : OneEvent(v)'
  BY <1>1, <1>3 DEF OrderedInv, OneEvent
<1>5. \A v \in Workers : OneClient(v)'
  BY <1>1, <1>3 DEF OrderedInv, OneClient
<1>6. \A v \in Workers : EventDone(v)'
  BY <1>1, <1>3 DEF OrderedInv, EventDone
<1> QED
  BY <1>2, <1>4, <1>5, <1>6 DEF OrderedInv

\* One session changes its state.
Becomes(c, s) ==
    \A d \in Checkouts :
        /\ checkout'[d].org = checkout[d].org
        /\ checkout'[d].customer = checkout[d].customer
        /\ checkout'[d].state = IF d = c THEN s ELSE checkout[d].state

\* What changes when a session changes its state.
LEMMA BecomesState ==
    ASSUME TypeOK, NEW c \in Checkouts, NEW s,
           checkout' = [checkout EXCEPT ![c] = [@ EXCEPT !.state = s]]
    PROVE  Becomes(c, s)
BY DEF TypeOK, Checkout, Becomes

\* What is alive and active before and after.
LEMMA BecomesSets ==
    ASSUME NEW c \in Checkouts, NEW s, Becomes(c, s), NEW o
    PROVE  /\ CheckoutsOf(o)' = CheckoutsOf(o)
           /\ s \notin {"open", "active"} => Live(o)' = Live(o) \ {c}
           /\ s \in {"open", "active"} /\ c \in Live(o) => Live(o)' = Live(o)
           /\ checkout[c].org # o => Live(o)' = Live(o) /\ ActiveOf(o)' = ActiveOf(o)
           /\ s # "active" => ActiveOf(o)' = ActiveOf(o) \ {c}
           /\ s = "active" /\ checkout[c].org = o => c \in ActiveOf(o)'
BY DEF Becomes, CheckoutsOf, Live, ActiveOf

\* Nothing is pending of an organization whose session is still open, and none
\* of its requests is being served.
LEMMA OpenIsAlone ==
    ASSUME Inv, OrderedInv, NEW c \in Checkouts, checkout[c].state = "open"
    PROVE  /\ checkout[c].org \in Orgs
           /\ \A e \in Events : Pending(e) => checkout[e[2]].org # checkout[c].org
           /\ \A w \in Workers : pc[w] # "idle" /\ task[w].event = None =>
                  task[w].org # checkout[c].org
           /\ \A d \in Live(checkout[c].org) : d = c
           /\ c \in Live(checkout[c].org)
<1>1. checkout[c].org \in Orgs /\ c \notin Paid
  BY DEF Inv, SessionShape, Paid
<1>2. c \in Live(checkout[c].org)
  BY DEF Live, CheckoutsOf
<1>3. \A e \in Events : Pending(e) => checkout[e[2]].org # checkout[c].org
  BY <1>1, <1>2 DEF Inv, OrderedInv, Agree, OneLive
<1>4. \A w \in Workers : pc[w] # "idle" /\ task[w].event = None => task[w].org # checkout[c].org
  <2> SUFFICES ASSUME NEW w \in Workers, pc[w] # "idle", task[w].event = None,
                      task[w].org = checkout[c].org
               PROVE  FALSE
    OBVIOUS
  <2>1. ClientShape(w) /\ OneClient(w) /\ task[w].plan \in Plans
    BY DEF Inv, OrderedInv, TypeOK, Task
  <2>2. Live(task[w].org) # {}
    BY <1>2
  <2>3. pc[w] = "provider" /\ task[w].plan = "free"
    BY <2>1, <2>2 DEF OneClient, Plans
  <2>4. task[w].subscription = c
    BY <1>2, <2>1, <2>3 DEF OneClient
  <2>5. c \in Paid
    BY <2>1, <2>3, <2>4, NoneAssumption DEF ClientShape, OwnPaid
  <2> QED
    BY <1>1, <2>5
<1>5. \A d \in Live(checkout[c].org) : d = c
  BY <1>1, <1>2 DEF OrderedInv, Agree, OneLive
<1> QED
  BY <1>1, <1>2, <1>3, <1>4, <1>5

\* A payment announces itself after everything before it.
LEMMA PayOrdered ==
    ASSUME Inv, OrderedInv, NEW c \in Checkouts, Pay(c)
    PROVE  OrderedInv'
<1>1. PICK o : o = checkout[c].org
  OBVIOUS
<1>2. /\ checkout[c].state = "open" /\ Announce("completed", c)
      /\ UNCHANGED <<plan, customer, subscription, pc, task>>
      /\ Becomes(c, "active")
  BY BecomesState DEF Pay, columns, Inv
<1>3. /\ o \in Orgs /\ c \in Live(o) /\ \A d \in Live(o) : d = c
      /\ \A e \in Events : Pending(e) => checkout[e[2]].org # o
      /\ \A w \in Workers : pc[w] # "idle" /\ task[w].event = None => task[w].org # o
  BY <1>1, <1>2, OpenIsAlone
<1>4. \A e \in Events : Pending(e)' <=> (Pending(e) \/ e = <<"completed", c>>)
  BY <1>2, AnnounceProperties DEF Inv
<1>5. /\ \A x : CheckoutsOf(x)' = CheckoutsOf(x) /\ Live(x)' = Live(x)
      /\ \A x : x # o => ActiveOf(x)' = ActiveOf(x)
      /\ c \in ActiveOf(o)'
  BY <1>1, <1>2, <1>3, BecomesSets
<1>6. /\ <<"deleted", c>> \in Events /\ <<"completed", c>> \in Events
      /\ \A d \in Checkouts : <<"completed", d>> \in Events /\ <<"deleted", d>> \in Events
  BY DEF Events
<1>7. ~Pending(<<"deleted", c>>) /\ ~Pending(<<"completed", c>>)
  BY <1>1, <1>3, <1>6
<1>8. InOrder' /\ (outbox # <<>> => outbox' # <<>> /\ outbox'[1] = outbox[1])
  BY <1>2, <1>7, AnnounceOrder DEF Inv, OrderedInv, Agree
<1>9. OneLive'
  BY <1>1, <1>2, <1>3, <1>4, <1>5 DEF Becomes, OrderedInv, Agree, OneLive, Events
<1>10. Announced'
  BY <1>2, <1>4, <1>6, <1>7 DEF Becomes, OrderedInv, Agree, Announced
<1>11. Customers'
  BY <1>1, <1>2, <1>4, <1>6 DEF Becomes, OrderedInv, Agree, Customers, Paid
<1>12. \A d \in Checkouts : Activated(d)'
  <2> SUFFICES ASSUME NEW d \in Checkouts
               PROVE  Activated(d)'
    OBVIOUS
  <2>1. CASE d = c
    BY <1>4, <1>6, <2>1 DEF Activated
  <2>2. CASE d # c
    BY <1>2, <1>4, <1>6, <2>2 DEF Becomes, OrderedInv, Agree, Activated
  <2> QED
    BY <2>1, <2>2
<1>13. \A x \in Orgs : Deactivated(x)'
  BY <1>2, <1>4, <1>5, <1>6 DEF OrderedInv, Agree, Deactivated, CheckoutsOf
<1>14. \A w \in Workers : OneEvent(w)'
  BY <1>2, <1>8 DEF OrderedInv, OneEvent
<1>15. \A w \in Workers : OneClient(w)'
  <2> SUFFICES ASSUME NEW w \in Workers, pc[w] # "idle", task[w].event = None
               PROVE  OneClient(w)'
    BY <1>2 DEF OneClient
  <2>1. OneClient(w) /\ task[w].org # o
    BY <1>3 DEF OrderedInv
  <2>2. \A d \in CheckoutsOf(task[w].org) :
            /\ Pending(<<"completed", d>>)' => Pending(<<"completed", d>>)
            /\ Pending(<<"deleted", d>>)' => Pending(<<"deleted", d>>)
    BY <1>1, <1>4, <1>6, <2>1 DEF CheckoutsOf
  <2> QED
    BY <1>2, <1>5, <2>1, <2>2 DEF OneClient
<1>16. \A w \in Workers : EventDone(w)'
  <2> SUFFICES ASSUME NEW w \in Workers, task[w].event # None
               PROVE  EventDone(w)'
    BY <1>2 DEF EventDone
  <2>1. task[w].event[2] \in Checkouts
    BY HandledEvent DEF OrderedInv, Paid
  <2> QED
    BY <1>2, <2>1 DEF Becomes, OrderedInv, EventDone
<1> QED
  BY <1>8, <1>9, <1>10, <1>11, <1>12, <1>13, <1>14, <1>15, <1>16 DEF OrderedInv, Agree

\* A session that is abandoned never had a plan.
LEMMA AbandonOrdered ==
    ASSUME Inv, OrderedInv, NEW c \in Checkouts, Abandon(c)
    PROVE  OrderedInv'
<1>1. /\ checkout[c].state = "open"
      /\ UNCHANGED <<plan, customer, subscription, outbox, pc, task>>
      /\ Becomes(c, "abandoned")
  BY BecomesState DEF Abandon, columns, Inv
<1>2. \A e : Pending(e)' <=> Pending(e)
  BY <1>1 DEF Pending
<1>3. /\ \A x : CheckoutsOf(x)' = CheckoutsOf(x) /\ Live(x)' = Live(x) \ {c}
      /\ \A x : ActiveOf(x)' = ActiveOf(x)
  BY <1>1, BecomesSets DEF ActiveOf
<1>4. InOrder' /\ (\A w \in Workers : OneEvent(w)')
  BY <1>1 DEF OrderedInv, Agree, InOrder, OneEvent
<1>5. OneLive'
  BY <1>1, <1>2, <1>3 DEF Becomes, OrderedInv, Agree, OneLive, Events
<1>6. Announced'
  BY <1>1, <1>2 DEF Becomes, OrderedInv, Agree, Announced
<1>7. Customers'
  BY <1>1, <1>2 DEF Becomes, OrderedInv, Agree, Customers, Paid
<1>8. \A d \in Checkouts : Activated(d)'
  BY <1>1, <1>2 DEF Becomes, OrderedInv, Agree, Activated
<1>9. \A x \in Orgs : Deactivated(x)'
  BY <1>1, <1>2, <1>3 DEF OrderedInv, Agree, Deactivated
<1>10. \A w \in Workers : OneClient(w)'
  BY <1>1, <1>2, <1>3 DEF OrderedInv, OneClient
<1>11. \A w \in Workers : EventDone(w)'
  <2> SUFFICES ASSUME NEW w \in Workers, task[w].event # None
               PROVE  EventDone(w)'
    BY <1>1 DEF EventDone
  <2>1. task[w].event[2] \in Checkouts
    BY HandledEvent DEF OrderedInv, Paid
  <2> QED
    BY <1>1, <2>1 DEF Becomes, OrderedInv, EventDone
<1> QED
  BY <1>4, <1>5, <1>6, <1>7, <1>8, <1>9, <1>10, <1>11 DEF OrderedInv, Agree

\* What a cancellation at Stripe leaves, whoever asked for it.
LEMMA CancelledAgree ==
    ASSUME Inv, OrderedInv, NEW c \in Checkouts, CancelledByStripe(c), UNCHANGED columns
    PROVE  /\ Agree'
           /\ Becomes(c, "cancelled")
           /\ checkout[c].state = "active"
           /\ outbox # <<>> => outbox' # <<>> /\ outbox'[1] = outbox[1]
           /\ \A e \in Events : Pending(e)' <=> (Pending(e) \/ e = <<"deleted", c>>)
           /\ \A x : CheckoutsOf(x)' = CheckoutsOf(x) /\ Live(x)' = Live(x) \ {c}
<1>1. PICK o : o = checkout[c].org
  OBVIOUS
<1>2. /\ checkout[c].state = "active" /\ Announce("deleted", c)
      /\ UNCHANGED <<plan, customer, subscription>>
      /\ Becomes(c, "cancelled")
  BY BecomesState DEF CancelledByStripe, columns, Inv
<1>3. o \in Orgs /\ c \in Live(o) /\ c \in Paid
  BY <1>1, <1>2 DEF Inv, SessionShape, Live, CheckoutsOf, Paid
<1>4. \A e \in Events : Pending(e)' <=> (Pending(e) \/ e = <<"deleted", c>>)
  BY <1>2, AnnounceProperties DEF Inv
<1>5. /\ \A x : CheckoutsOf(x)' = CheckoutsOf(x) /\ Live(x)' = Live(x) \ {c}
      /\ \A x : ActiveOf(x)' = ActiveOf(x) \ {c}
      /\ \A x : x # o => ActiveOf(x)' = ActiveOf(x)
  BY <1>1, <1>2, BecomesSets
<1>6. \A d \in Checkouts : <<"completed", d>> \in Events /\ <<"deleted", d>> \in Events
  BY DEF Events
<1>7. \A d \in Live(o) : d = c
  BY <1>3 DEF OrderedInv, Agree, OneLive
<1>8. \A e \in Events : Pending(e) /\ checkout[e[2]].org = o => e[2] = c
  BY <1>3 DEF OrderedInv, Agree, OneLive
<1>9. InOrder' /\ (outbox # <<>> => outbox' # <<>> /\ outbox'[1] = outbox[1])
  BY <1>2, AnnounceOrder DEF Inv, OrderedInv, Agree
<1>10. OneLive'
  <2> SUFFICES ASSUME NEW x \in Orgs
               PROVE  /\ \A a, b \in Live(x)' : a = b
                      /\ \A e \in Events : Pending(e)' /\ checkout'[e[2]].org = x => Live(x)' \subseteq {e[2]}
                      /\ \A e, f \in Events : Pending(e)' /\ Pending(f)'
                             /\ checkout'[e[2]].org = x /\ checkout'[f[2]].org = x => e[2] = f[2]
    BY DEF OneLive
  <2>1. \A e \in Events : e[2] \in Checkouts /\ checkout'[e[2]].org = checkout[e[2]].org
    BY <1>2 DEF Events, Becomes
  <2>2. CASE x = o
    BY <1>4, <1>5, <1>7, <1>8, <2>1, <2>2
  <2>3. CASE x # o
    BY <1>1, <1>4, <1>5, <2>1, <2>3 DEF OrderedInv, Agree, OneLive
  <2> QED
    BY <2>2, <2>3
<1>11. Announced'
  BY <1>2, <1>4, <1>6 DEF Becomes, OrderedInv, Agree, Announced
<1>12. Customers'
  BY <1>2, <1>3, <1>4, <1>6 DEF Becomes, OrderedInv, Agree, Customers, Paid
<1>13. \A d \in Checkouts : Activated(d)'
  BY <1>2, <1>4, <1>6 DEF Becomes, OrderedInv, Agree, Activated
<1>14. \A x \in Orgs : Deactivated(x)'
  <2> SUFFICES ASSUME NEW x \in Orgs
               PROVE  Deactivated(x)'
    OBVIOUS
  <2>1. CASE x = o
    BY <1>1, <1>4, <1>5, <1>6, <2>1 DEF Deactivated, CheckoutsOf
  <2>2. CASE x # o
    BY <1>2, <1>4, <1>5, <1>6, <2>2 DEF OrderedInv, Agree, Deactivated, CheckoutsOf
  <2> QED
    BY <2>1, <2>2
<1> QED
  BY <1>1, <1>2, <1>4, <1>5, <1>7, <1>9, <1>10, <1>11, <1>12, <1>13, <1>14 DEF Agree

\* No request of a client that waits for a session has an active subscription.
LEMMA CancelledClients ==
    ASSUME Inv, OrderedInv, NEW c \in Checkouts, checkout[c].state = "active",
           Becomes(c, "cancelled"), UNCHANGED columns,
           \A e \in Events : Pending(e)' <=> (Pending(e) \/ e = <<"deleted", c>>),
           \A x : CheckoutsOf(x)' = CheckoutsOf(x) /\ Live(x)' = Live(x) \ {c},
           NEW w \in Workers, pc[w] # "idle", task[w].event = None,
           pc'[w] = pc[w], task'[w] = task[w],
           \A v \in Workers : pc'[v] # "idle" /\ task'[v].event = None =>
               pc[v] # "idle" /\ task[v].event = None /\ task'[v].org = task[v].org
    PROVE  OneClient(w)'
<1>1. OneClient(w)
  BY DEF OrderedInv
<1>2. \A d \in Checkouts : <<"completed", d>> \in Events /\ <<"deleted", d>> \in Events
  BY DEF Events
<1>3. \A d \in CheckoutsOf(task[w].org) : ~Pending(<<"completed", d>>)'
  BY <1>1, <1>2 DEF OneClient, CheckoutsOf
<1>4. pc[w] = "provider" /\ task[w].plan = "pro" =>
          \A d \in CheckoutsOf(task[w].org) : ~Pending(<<"deleted", d>>)'
  <2> SUFFICES ASSUME pc[w] = "provider", task[w].plan = "pro"
               PROVE  \A d \in CheckoutsOf(task[w].org) : ~Pending(<<"deleted", d>>)'
    OBVIOUS
  <2>1. c \notin CheckoutsOf(task[w].org)
    BY <1>1 DEF OneClient, Live
  <2> QED
    BY <1>1, <1>2, <2>1 DEF OneClient, CheckoutsOf
<1> QED
  BY <1>1, <1>3, <1>4 DEF OneClient, columns

\* A subscription that lapses announces its end after its payment.
LEMMA LapseOrdered ==
    ASSUME Inv, OrderedInv, NEW c \in Checkouts, Lapse(c)
    PROVE  OrderedInv'
<1>1. CancelledByStripe(c) /\ UNCHANGED <<plan, customer, subscription, columns, pc, task>>
  BY DEF Lapse, columns
<1>2. /\ Agree'
      /\ Becomes(c, "cancelled") /\ checkout[c].state = "active"
      /\ outbox # <<>> => outbox' # <<>> /\ outbox'[1] = outbox[1]
      /\ \A e \in Events : Pending(e)' <=> (Pending(e) \/ e = <<"deleted", c>>)
      /\ \A x : CheckoutsOf(x)' = CheckoutsOf(x) /\ Live(x)' = Live(x) \ {c}
  BY <1>1, CancelledAgree
<1>3. \A w \in Workers : OneEvent(w)'
  BY <1>1, <1>2 DEF OrderedInv, OneEvent
<1>4. \A w \in Workers : OneClient(w)'
  <2> SUFFICES ASSUME NEW w \in Workers, pc[w] # "idle", task[w].event = None
               PROVE  OneClient(w)'
    BY <1>1 DEF OneClient
  <2> QED
    BY <1>1, <1>2, CancelledClients
<1>5. \A w \in Workers : EventDone(w)'
  <2> SUFFICES ASSUME NEW w \in Workers, task[w].event # None
               PROVE  EventDone(w)'
    BY <1>1 DEF EventDone
  <2>1. task[w].event[2] \in Checkouts
    BY HandledEvent DEF OrderedInv, Paid
  <2> QED
    BY <1>1, <1>2, <2>1 DEF Becomes, OrderedInv, EventDone
<1> QED
  BY <1>2, <1>3, <1>4, <1>5 DEF OrderedInv

\* A disciplined client asks for Pro with nothing alive, or for Free with the
\* recorded subscription active.
LEMMA DisciplinedRequest ==
    ASSUME Disciplined, Inv, OrderedInv, NEW o \in Orgs, NEW p \in Plans, AdmitsChange(o, p)
    PROVE  /\ Settled(o)
           /\ p = "pro" => Live(o) = {} /\ plan[o] = "free"
           /\ p = "free" => subscription[o] # None /\ Live(o) \subseteq {subscription[o]}
<1>1. /\ Settled(o) /\ p # plan[o] /\ plan[o] \in Plans
      /\ \A c \in CheckoutsOf(o) : checkout[c].state # "open"
  BY DEF AdmitsChange, Inv, TypeOK
<1>2. Live(o) = ActiveOf(o)
  BY <1>1 DEF Live, ActiveOf
<1>3. /\ plan[o] = "pro" <=> ActiveOf(o) # {}
      /\ \A c \in ActiveOf(o) : subscription[o] = c
  BY <1>1, SettledPlan DEF PlanFollowsPayment
<1>4. \A c \in ActiveOf(o) : c # None
  BY NoneAssumption DEF ActiveOf, CheckoutsOf
<1> QED
  BY <1>1, <1>2, <1>3, <1>4 DEF Plans

\* Reading a row changes nothing that was announced.
LEMMA ReadOrganizationOrdered ==
    ASSUME Disciplined, Inv, OrderedInv, NEW w \in Workers, NEW o \in Orgs, NEW p \in Plans,
           ReadOrganization(w, o, p)
    PROVE  OrderedInv'
<1>1. PICK k : k = ChangeRequest(o, p)
  OBVIOUS
<1>2. /\ task' = [task EXCEPT ![w] = k] /\ pc' = [pc EXCEPT ![w] = "provider"]
      /\ pc[w] = "idle" /\ AdmitsChange(o, p)
      /\ UNCHANGED <<columns, checkout, outbox>>
  BY <1>1 DEF ReadOrganization, Begin, ChangeRequest
<1>3. /\ k.org = o /\ k.customer = customer[o] /\ k.subscription = subscription[o]
      /\ k.event = None /\ k.plan = p
  BY <1>1, ChangeRequestFields DEF Inv
<1>4. /\ pc'[w] = "provider" /\ task'[w] = k
      /\ \A v \in Workers : v # w => pc'[v] = pc[v] /\ task'[v] = task[v]
  BY <1>2 DEF Inv, TypeOK
<1>5. /\ Settled(o)
      /\ p = "pro" => Live(o) = {} /\ plan[o] = "free"
      /\ p = "free" => subscription[o] # None /\ Live(o) \subseteq {subscription[o]}
  BY <1>2, DisciplinedRequest
<1>6. Agree'
  BY <1>2, AgreeKept DEF OrderedInv
<1>7. /\ \A e : Pending(e)' <=> Pending(e)
      /\ \A x : Live(x)' = Live(x) /\ CheckoutsOf(x)' = CheckoutsOf(x)
      /\ UNCHANGED <<plan, customer, subscription, checkout, outbox>>
  BY <1>2 DEF Pending, Live, CheckoutsOf, columns
<1>8. \A v \in Workers : OneEvent(v)'
  BY <1>3, <1>4, <1>7 DEF OrderedInv, OneEvent
<1>9. OneClient(w)'
  BY <1>3, <1>4, <1>5, <1>7 DEF OneClient, Settled, Plans
<1>10. \A v \in Workers : v # w => OneClient(v)'
  BY <1>3, <1>4, <1>5, <1>7 DEF OrderedInv, OneClient, Settled
<1>11. \A v \in Workers : EventDone(v)'
  BY <1>3, <1>4, <1>7 DEF OrderedInv, EventDone
<1> QED
  BY <1>6, <1>8, <1>9, <1>10, <1>11 DEF OrderedInv

\* A client that keeps to the discipline has no other session.
LEMMA CreateSessionOrdered ==
    ASSUME Inv, OrderedInv, NEW w \in Workers, NEW c \in Checkouts, CreateSession(w, c)
    PROVE  OrderedInv'
<1>1. PICK o, x, s : /\ o = task[w].org
                     /\ x = (IF task[w].customer = None THEN c ELSE task[w].customer)
                     /\ s = [org |-> o, customer |-> x, state |-> "open"]
  OBVIOUS
<1>2. /\ checkout[c].state = "none" /\ checkout' = [checkout EXCEPT ![c] = s]
      /\ pc' = [pc EXCEPT ![w] = "idle"] /\ task' = [task EXCEPT ![w] = NoTask]
      /\ UNCHANGED <<plan, customer, subscription, outbox>>
      /\ pc[w] = "provider" /\ task[w].plan = "pro"
  BY <1>1 DEF CreateSession, Finish, columns
<1>3. task[w].event = None /\ o \in Orgs
  BY <1>1, <1>2 DEF Inv, ClientShape, EventShape
<1>4. /\ Live(o) = {} /\ plan[o] = "free"
      /\ \A d \in CheckoutsOf(o) : ~Pending(<<"completed", d>>) /\ ~Pending(<<"deleted", d>>)
      /\ \A v \in Workers : pc[v] # "idle" /\ task[v].event = None /\ task[v].org = o => v = w
      /\ customer[o] \in {None, x}
  BY <1>1, <1>2, <1>3 DEF OrderedInv, OneClient
<1>5. /\ checkout'[c].org = o /\ checkout'[c].customer = x /\ checkout'[c].state = "open"
      /\ \A d \in Checkouts : d # c => checkout'[d] = checkout[d]
      /\ checkout[c].org = None /\ o # None /\ c \notin Paid
  BY <1>1, <1>2, <1>3, NoneAssumption DEF Inv, TypeOK, SessionShape, Paid
<1>6. /\ pc'[w] = "idle" /\ task'[w].event = None
      /\ \A v \in Workers : v # w => pc'[v] = pc[v] /\ task'[v] = task[v]
  BY <1>2 DEF Inv, TypeOK, NoTask
<1>7. \A e : Pending(e)' <=> Pending(e)
  BY <1>2 DEF Pending
<1>8. \A e \in Events : e[2] \in Checkouts /\ (Pending(e) => e[2] # c)
  BY <1>5 DEF Inv, Events
<1>9. /\ \A y \in Orgs : y # o => CheckoutsOf(y)' = CheckoutsOf(y) /\ Live(y)' = Live(y)
      /\ Live(o)' = {c} /\ CheckoutsOf(o)' = CheckoutsOf(o) \cup {c}
      /\ \A y \in Orgs : ActiveOf(y)' = ActiveOf(y)
  BY <1>3, <1>4, <1>5, NoneAssumption DEF CheckoutsOf, Live, ActiveOf
<1>10. InOrder' /\ \A v \in Workers : OneEvent(v)'
  BY <1>2, <1>6 DEF OrderedInv, Agree, InOrder, OneEvent
<1>11. \A e \in Events : Pending(e) => checkout[e[2]].org # o /\ checkout'[e[2]] = checkout[e[2]]
  <2> SUFFICES ASSUME NEW e \in Events, Pending(e)
               PROVE  checkout[e[2]].org # o /\ checkout'[e[2]] = checkout[e[2]]
    OBVIOUS
  <2>1. e[2] \in Checkouts /\ e[2] # c
    BY <1>8
  <2>2. e = <<"completed", e[2]>> \/ e = <<"deleted", e[2]>>
    BY DEF Events
  <2>3. e[2] \notin CheckoutsOf(o)
    BY <1>4, <2>2
  <2> QED
    BY <1>5, <2>1, <2>3 DEF CheckoutsOf
<1>12. OneLive'
  BY <1>7, <1>8, <1>9, <1>11 DEF OrderedInv, Agree, OneLive
<1>13. \A d \in Checkouts : <<"completed", d>> \in Events /\ <<"deleted", d>> \in Events
  BY DEF Events
<1>14. ~Pending(<<"completed", c>>) /\ ~Pending(<<"deleted", c>>)
  BY <1>8, <1>13
<1>15. Announced'
  BY <1>5, <1>7, <1>14 DEF OrderedInv, Agree, Announced
<1>16. Customers'
  <2> SUFFICES ASSUME NEW d \in Checkouts
               PROVE  /\ d \in Paid' /\ ~Pending(<<"completed", d>>) =>
                             customer[checkout'[d].org] = checkout'[d].customer
                      /\ checkout'[d].state = "open" \/ Pending(<<"completed", d>>) =>
                             customer[checkout'[d].org] \in {None, checkout'[d].customer}
    BY <1>2, <1>7 DEF Customers
  <2>1. CASE d = c
    BY <1>4, <1>5, <2>1 DEF Paid
  <2>2. CASE d # c
    BY <1>5, <2>2 DEF OrderedInv, Agree, Customers, Paid
  <2> QED
    BY <2>1, <2>2
<1>17. \A d \in Checkouts : Activated(d)'
  BY <1>2, <1>5, <1>7 DEF OrderedInv, Agree, Activated
<1>18. \A y \in Orgs : Deactivated(y)'
  BY <1>2, <1>4, <1>7, <1>9 DEF OrderedInv, Agree, Deactivated
<1>19. \A v \in Workers : OneClient(v)'
  <2> SUFFICES ASSUME NEW v \in Workers, v # w, pc[v] # "idle", task[v].event = None
               PROVE  OneClient(v)'
    BY <1>6 DEF OneClient
  <2>1. OneClient(v) /\ task[v].org # o /\ task[v].org \in Orgs
    BY <1>4 DEF OrderedInv, Inv, ClientShape
  <2> QED
    BY <1>2, <1>6, <1>7, <1>9, <2>1 DEF OneClient
<1>20. \A v \in Workers : EventDone(v)'
  <2> SUFFICES ASSUME NEW v \in Workers, v # w, task[v].event # None
               PROVE  EventDone(v)'
    BY <1>6 DEF EventDone
  <2>1. task[v].event[2] \in Checkouts /\ task[v].event[2] # c
    BY <1>5, HandledEvent DEF OrderedInv, Paid
  <2> QED
    BY <1>2, <1>5, <1>6, <2>1 DEF OrderedInv, EventDone
<1> QED
  BY <1>10, <1>12, <1>15, <1>16, <1>17, <1>18, <1>19, <1>20 DEF OrderedInv, Agree

\* Cancelling announces the end after the payment.
LEMMA CancelSubscriptionOrdered ==
    ASSUME Inv, OrderedInv, NEW w \in Workers, CancelSubscription(w)
    PROVE  OrderedInv'
<1>1. PICK k, s, x : k = task[w] /\ s = k.subscription /\ x = [k EXCEPT !.subscription = None]
  OBVIOUS
<1>2. /\ k \in Task /\ k.event = None /\ k.org \in Orgs /\ k.plan = "free"
      /\ pc[w] = "provider" /\ UNCHANGED columns
  BY <1>1 DEF CancelSubscription, Inv, TypeOK, ClientShape, EventShape
<1>3. s # None /\ s \in Checkouts /\ Live(k.org) \subseteq {s}
  BY <1>1, <1>2 DEF OrderedInv, OneClient, Task
<1>4. x.org = k.org /\ x.customer = k.customer /\ x.subscription = None /\ x.event = None
  BY <1>1, <1>2 DEF Task
<1>5. CASE Finish(w) /\ UNCHANGED <<checkout, outbox>>
  BY <1>2, <1>5, DropOrdered
<1>6. CASE /\ pc' = [pc EXCEPT ![w] = "update_plan"] /\ task' = [task EXCEPT ![w] = x]
           /\ CancelledByStripe(s)
  <2>1. /\ Agree'
        /\ Becomes(s, "cancelled") /\ checkout[s].state = "active"
        /\ outbox # <<>> => outbox' # <<>> /\ outbox'[1] = outbox[1]
        /\ \A e \in Events : Pending(e)' <=> (Pending(e) \/ e = <<"deleted", s>>)
        /\ \A y : CheckoutsOf(y)' = CheckoutsOf(y) /\ Live(y)' = Live(y) \ {s}
    BY <1>2, <1>3, <1>6, CancelledAgree
  <2>2. /\ pc'[w] = "update_plan" /\ task'[w] = x
        /\ \A v \in Workers : v # w => pc'[v] = pc[v] /\ task'[v] = task[v]
    BY <1>6 DEF Inv, TypeOK
  <2>3. \A v \in Workers : OneEvent(v)'
    <3> SUFFICES ASSUME NEW v \in Workers, v # w, task[v].event # None
                 PROVE  OneEvent(v)'
      BY <1>4, <2>2 DEF OneEvent
    <3>1. OneEvent(v) /\ \A u \in Workers : task'[u].event # None => task[u].event # None
      BY <1>4, <2>2 DEF OrderedInv
    <3> QED
      BY <2>1, <2>2, <3>1 DEF OneEvent
  <2>4. \A v \in Workers : pc'[v] # "idle" /\ task'[v].event = None =>
            pc[v] # "idle" /\ task[v].event = None /\ task'[v].org = task[v].org
    BY <1>1, <1>2, <1>4, <2>2
  <2>5. \A v \in Workers : v # w => OneClient(v)'
    <3> SUFFICES ASSUME NEW v \in Workers, v # w, pc[v] # "idle", task[v].event = None
                 PROVE  OneClient(v)'
      BY <2>2 DEF OneClient
    <3> QED
      BY <1>2, <1>3, <2>1, <2>2, <2>4, CancelledClients
  <2>6. OneClient(w)'
    <3>1. OneClient(w) /\ UNCHANGED customer
      BY <1>2 DEF OrderedInv, columns
    <3>2. \A d \in CheckoutsOf(k.org) : ~Pending(<<"completed", d>>)'
      BY <1>1, <1>2, <2>1, <3>1 DEF OneClient, CheckoutsOf, Events
    <3> QED
      BY <1>1, <1>2, <1>3, <1>4, <2>1, <2>2, <2>4, <3>1, <3>2 DEF OneClient
  <2>7. \A v \in Workers : EventDone(v)'
    <3> SUFFICES ASSUME NEW v \in Workers, v # w, task[v].event # None
                 PROVE  EventDone(v)'
      BY <1>4, <2>2 DEF EventDone
    <3>1. task[v].event[2] \in Checkouts
      BY HandledEvent DEF OrderedInv, Paid
    <3> QED
      BY <1>2, <2>1, <2>2, <3>1 DEF Becomes, OrderedInv, EventDone, columns
  <2> QED
    BY <2>1, <2>3, <2>5, <2>6, <2>7 DEF OrderedInv
<1> QED
  BY <1>1, <1>3, <1>5, <1>6 DEF CancelSubscription, Goto

\* The event that is received is the oldest of its organization.
LEMMA ReceiveEventOrdered ==
    ASSUME Ordered, Inv, OrderedInv, NEW w \in Workers, NEW e \in Events, ReceiveEvent(w, e)
    PROVE  OrderedInv'
<1>1. /\ e[2] \in Paid /\ e # None /\ Pending(e) /\ outbox[1] = e
      /\ \A v \in Workers : task[v].event = None
  BY EventsAssumption DEF ReceiveEvent, Deliverable, Inv
<1>2. outbox # <<>>
  BY <1>1 DEF Pending
<1>3. e[2] \in Checkouts /\ e[2] \in Paid /\ (e[1] = "completed" \/ e = <<"deleted", e[2]>>)
  BY <1>1 DEF Events
<1>4. checkout[e[2]].org \in Orgs
  BY <1>3 DEF Inv, SessionShape, Paid
<1>5. Addressees(e) # {}
  <2>1. CASE e[1] = "completed"
    BY <2>1 DEF Addressees
  <2>2. CASE e = <<"deleted", e[2]>>
    <3>1. ~Pending(<<"completed", e[2]>>)
      BY <1>1, <1>2, <1>3, <2>2, FirstDeleted DEF Inv, OrderedInv, Agree
    <3>2. customer[checkout[e[2]].org] = checkout[e[2]].customer
      BY <1>3, <3>1 DEF OrderedInv, Agree, Customers
    <3> QED
      BY <1>4, <2>2, <3>2 DEF Addressees, OrganizationsOf
  <2> QED
    BY <1>3, <2>1, <2>2
<1>6. PICK o \in Orgs : Begin(w, "update_plan", Outcome(e, o))
  BY <1>1, <1>5, AddresseeOwns DEF ReceiveEvent
<1>7. PICK k : k = Outcome(e, o)
  OBVIOUS
<1>8. k.event = e
  BY <1>3, <1>7, OutcomeFields
<1>9. /\ pc[w] = "idle" /\ task'[w] = k /\ pc'[w] = "update_plan"
      /\ \A v \in Workers : v # w => pc'[v] = pc[v] /\ task'[v] = task[v]
  BY <1>6, <1>7 DEF Begin, Inv, TypeOK
<1>10. UNCHANGED <<columns, checkout, outbox>>
  BY DEF ReceiveEvent
<1>11. Agree'
  BY <1>10, AgreeKept DEF OrderedInv
<1>12. /\ \A f : Pending(f)' <=> Pending(f)
       /\ \A x : Live(x)' = Live(x) /\ CheckoutsOf(x)' = CheckoutsOf(x)
       /\ UNCHANGED <<plan, customer, subscription, checkout, outbox>>
  BY <1>10 DEF Pending, Live, CheckoutsOf, columns
<1>13. \A v \in Workers : OneEvent(v)'
  BY <1>1, <1>2, <1>8, <1>9, <1>12 DEF OneEvent
<1>14. \A v \in Workers : OneClient(v)'
  BY <1>1, <1>8, <1>9, <1>12 DEF OrderedInv, OneClient
<1>15. \A v \in Workers : EventDone(v)'
  BY <1>1, <1>9, <1>12 DEF EventDone
<1> QED
  BY <1>11, <1>13, <1>14, <1>15 DEF OrderedInv

\* What is known of the event a worker handles.
LEMMA EventOfOne ==
    ASSUME Inv, OrderedInv, NEW w \in Workers, task[w].event # None,
           NEW o, o = checkout[task[w].event[2]].org
    PROVE  /\ task[w].event \in Events /\ task[w].event[2] \in Paid /\ task[w].event[2] \in Checkouts
           /\ o \in Orgs /\ Pending(task[w].event)
           /\ Live(o) \subseteq {task[w].event[2]}
           /\ task[w].event = <<"completed", task[w].event[2]>> \/
                 /\ task[w].event = <<"deleted", task[w].event[2]>>
                 /\ ~Pending(<<"completed", task[w].event[2]>>)
                 /\ checkout[task[w].event[2]].state = "cancelled"
                 /\ Live(o) = {}
           /\ \A v \in Workers : task[v].event # None => v = w
<1>1. PICK e : e = task[w].event
  OBVIOUS
<1>2. e \in Events /\ Pending(e) /\ e[2] \in Paid /\ e[2] \in Checkouts
  BY <1>1, HandledEvent DEF OrderedInv, Events
<1>3. o \in Orgs
  BY <1>1, <1>2 DEF Inv, SessionShape, Paid
<1>4. Live(o) \subseteq {e[2]}
  BY <1>1, <1>2, <1>3 DEF OrderedInv, Agree, OneLive
<1>5. OneEvent(w)
  BY DEF OrderedInv
<1>6. e = <<"completed", e[2]>> \/ e = <<"deleted", e[2]>>
  BY <1>2 DEF Events
<1>7. CASE e = <<"deleted", e[2]>>
  <2>1. outbox # <<>> /\ outbox[1] = <<"deleted", e[2]>>
    BY <1>1, <1>5, <1>7 DEF OneEvent
  <2>2. ~Pending(<<"completed", e[2]>>)
    BY <1>2, <2>1, FirstDeleted DEF Inv, OrderedInv, Agree
  <2>3. checkout[e[2]].state = "cancelled"
    BY <1>2, <1>7 DEF OrderedInv, Agree, Announced
  <2>4. Live(o) = {}
    BY <1>4, <2>3 DEF Live
  <2> QED
    BY <1>1, <1>2, <1>3, <1>4, <1>5, <1>7, <2>2, <2>3, <2>4 DEF OneEvent
<1>8. CASE e = <<"completed", e[2]>>
  BY <1>1, <1>2, <1>3, <1>4, <1>5, <1>8 DEF OneEvent
<1> QED
  BY <1>6, <1>7, <1>8

\* The plan becomes that of the event in hand.
LEMMA UpdatePlanOrdered ==
    ASSUME Inv, OrderedInv, NEW w \in Workers, UpdatePlan(w)
    PROVE  OrderedInv'
<1>1. PICK k, o : k = task[w] /\ o = k.org
  OBVIOUS
<1>2. /\ pc[w] = "update_plan" /\ pc'[w] = "update_ids"
      /\ \A v \in Workers : v # w => pc'[v] = pc[v]
      /\ plan' = [plan EXCEPT ![o] = k.plan]
      /\ UNCHANGED <<customer, subscription, checkout, outbox, task>>
  BY <1>1 DEF UpdatePlan, Goto, Inv, TypeOK
<1>3. o \in Orgs /\ ClientShape(w) /\ EventShape(w) /\ OneClient(w) /\ k.event \in Events \cup {None}
  BY <1>1, <1>2 DEF Inv, TypeOK, Task, ClientShape, EventShape, OrderedInv
<1>4. plan'[o] = k.plan /\ \A x \in Orgs : x # o => plan'[x] = plan[x]
  BY <1>2, <1>3 DEF Inv, TypeOK
<1>5. /\ \A e : Pending(e)' <=> Pending(e)
      /\ \A x : Live(x)' = Live(x) /\ CheckoutsOf(x)' = CheckoutsOf(x) /\ ActiveOf(x)' = ActiveOf(x)
      /\ Paid' = Paid
  BY <1>2 DEF Pending, Live, CheckoutsOf, ActiveOf, Paid
<1>6. InOrder' /\ OneLive' /\ Announced' /\ Customers'
  BY <1>2, <1>5 DEF OrderedInv, Agree, InOrder, OneLive, Announced, Customers
<1>7. \A v \in Workers : OneEvent(v)'
  BY <1>2 DEF OrderedInv, OneEvent
<1>8. \A d \in Checkouts : <<"completed", d>> \in Events /\ <<"deleted", d>> \in Events
  BY DEF Events
\* Who writes, and what is alive then.
<1>9. \/ /\ k.event = None /\ k.plan = "free" /\ Live(o) = {}
         /\ \A d \in CheckoutsOf(o) : ~Pending(<<"completed", d>>)
      \/ /\ k.event # None /\ k.event = <<"deleted", k.event[2]>> /\ k.plan = "free" /\ Live(o) = {}
      \/ /\ k.event # None /\ k.event = <<"completed", k.event[2]>> /\ k.plan = "pro"
         /\ Live(o) \subseteq {k.event[2]} /\ k.event[2] \in Paid /\ k.event[2] \in CheckoutsOf(o)
         /\ Pending(k.event)
  <2>1. CASE k.event = None
    BY <1>1, <1>2, <1>3, <2>1 DEF ClientShape, OneClient
  <2>2. CASE k.event # None
    <3>1. /\ k.event[2] \in Paid /\ o = checkout[k.event[2]].org /\ k.event[2] \in Checkouts
          /\ k.plan = IF k.event[1] = "completed" THEN "pro" ELSE "free"
      BY <1>1, <1>2, <1>3, <2>2 DEF EventShape, Events
    <3>2. /\ Live(o) \subseteq {k.event[2]} /\ Pending(k.event)
          /\ k.event = <<"completed", k.event[2]>> \/
                /\ k.event = <<"deleted", k.event[2]>> /\ Live(o) = {}
                /\ ~Pending(<<"completed", k.event[2]>>)
      <4>1. task[w].event # None /\ o = checkout[task[w].event[2]].org
        BY <1>1, <2>2, <3>1
      <4> QED
        BY <1>1, <4>1, EventOfOne
    <3>3. CASE k.event = <<"completed", k.event[2]>>
      BY <2>2, <3>1, <3>2, <3>3 DEF CheckoutsOf
    <3>4. CASE k.event = <<"deleted", k.event[2]>> /\ Live(o) = {}
      <4>1. k.event[1] = "deleted"
        BY <3>4
      <4> QED
        BY <2>2, <3>1, <3>4, <4>1
    <3> QED
      BY <3>2, <3>3, <3>4
  <2> QED
    BY <2>1, <2>2
<1>10. \A d \in Checkouts : Activated(d)'
  <2> SUFFICES ASSUME NEW d \in Checkouts, checkout[d].state = "active", ~Pending(<<"completed", d>>)
               PROVE  plan'[checkout[d].org] = "pro" /\ subscription[checkout[d].org] = d
    BY <1>2, <1>5 DEF Activated
  <2>1. d \in Live(checkout[d].org) /\ checkout[d].org \in Orgs
    BY DEF Live, CheckoutsOf, Inv, SessionShape
  <2>2. plan[checkout[d].org] = "pro" /\ subscription[checkout[d].org] = d
    BY DEF OrderedInv, Agree, Activated
  <2> QED
    BY <1>4, <1>9, <2>1, <2>2
<1>11. \A x \in Orgs : Deactivated(x)'
  <2> SUFFICES ASSUME NEW x \in Orgs, plan'[x] = "pro", ActiveOf(x) = {}
               PROVE  \E c \in CheckoutsOf(x) : Pending(<<"deleted", c>>)
    BY <1>5 DEF Deactivated
  <2>1. CASE x # o
    BY <1>4, <2>1 DEF OrderedInv, Agree, Deactivated
  <2>2. CASE x = o
    <3>1. /\ k.event = <<"completed", k.event[2]>> /\ k.event[2] \in Paid /\ k.event[2] \in CheckoutsOf(o)
          /\ Pending(k.event)
      BY <1>4, <1>9, <2>2
    <3>2. checkout[k.event[2]].state = "cancelled"
      BY <2>2, <3>1 DEF ActiveOf, Paid
    <3>3. Pending(<<"deleted", k.event[2]>>)
      BY <3>1, <3>2 DEF OrderedInv, Agree, Announced, Paid
    <3> QED
      BY <2>2, <3>1, <3>3
  <2> QED
    BY <2>1, <2>2
<1>12. \A v \in Workers : OneClient(v)'
  <2> SUFFICES ASSUME NEW v \in Workers, pc'[v] # "idle", task[v].event = None
               PROVE  OneClient(v)'
    BY <1>2 DEF OneClient
  <2>1. OneClient(v) /\ task[v].org \in Orgs /\ pc[v] # "idle"
    BY <1>2 DEF OrderedInv, Inv, ClientShape
  <2>2. task[v].org = o => k.plan = "free" \/ v = w
    BY <1>8, <1>9, <2>1 DEF OneClient, CheckoutsOf
  <2>3. pc'[v] = "provider" => v # w /\ pc[v] = "provider"
    BY <1>2
  <2>4. pc'[v] = "provider" /\ task[v].plan = "pro" => plan'[task[v].org] = "free"
    BY <1>4, <2>1, <2>2, <2>3 DEF OneClient
  <2>5. pc'[v] # "provider" => Live(task[v].org) = {} /\ task[v].subscription = None
    BY <1>1, <1>2, <2>1 DEF OneClient
  <2>6. \A u \in Workers : pc'[u] # "idle" => pc[u] # "idle"
    BY <1>2
  <2> QED
    BY <1>2, <1>5, <2>1, <2>3, <2>4, <2>5, <2>6 DEF OneClient
<1>13. \A v \in Workers : EventDone(v)'
  <2> SUFFICES ASSUME NEW v \in Workers, task[v].event # None
               PROVE  EventDone(v)'
    BY <1>2 DEF EventDone
  <2>1. CASE v = w
    BY <1>1, <1>2, <1>3, <1>4, <2>1 DEF EventShape, EventDone
  <2>2. CASE v # w
    <3>1. k.event = None
      BY <1>1, <2>2, EventOfOne
    <3>2. /\ Live(o) = {} /\ \A d \in CheckoutsOf(o) : ~Pending(<<"completed", d>>)
          /\ k.plan = "free"
      BY <1>9, <3>1
    <3>3. PICK e, x : e = task[v].event /\ x = checkout[e[2]].org
      OBVIOUS
    <3>4. e \in Events /\ e[2] \in Checkouts /\ x \in Orgs /\ Pending(e)
      BY <3>3, EventOfOne
    <3>5. x = o => e[1] # "completed"
      <4>1. e[1] = "completed" => e = <<"completed", e[2]>>
        BY <3>4 DEF Events
      <4> QED
        BY <3>2, <3>3, <3>4, <4>1 DEF CheckoutsOf
    <3>6. EventDone(v) /\ EventShape(v)
      BY DEF OrderedInv, Inv
    <3> QED
      BY <1>2, <1>4, <2>2, <3>2, <3>3, <3>4, <3>5, <3>6 DEF EventDone, EventShape
  <2> QED
    BY <2>1, <2>2
<1> QED
  BY <1>6, <1>7, <1>10, <1>11, <1>12, <1>13 DEF OrderedInv, Agree

\* The ids become those of the event in hand.
LEMMA UpdateIdsOrdered ==
    ASSUME Inv, OrderedInv, NEW w \in Workers, UpdateIds(w)
    PROVE  OrderedInv'
<1>1. PICK k, o : k = task[w] /\ o = k.org
  OBVIOUS
<1>2. /\ pc[w] = "update_ids" /\ UNCHANGED <<plan, checkout, outbox>>
      /\ subscription' = [subscription EXCEPT ![o] = k.subscription]
      /\ customer' = [x \in Orgs |-> IF x = o THEN k.customer
                                     ELSE IF k.customer # None /\ customer[x] = k.customer THEN None
                                     ELSE customer[x]]
  BY <1>1 DEF UpdateIds
<1>3. o \in Orgs /\ ClientShape(w) /\ EventShape(w) /\ OneClient(w) /\ EventDone(w)
  BY <1>1, <1>2 DEF Inv, ClientShape, EventShape, OrderedInv
<1>4. /\ \A v \in Workers : v # w => pc'[v] = pc[v] /\ task'[v] = task[v]
      /\ \/ k.event = None /\ pc'[w] = "idle" /\ task'[w] = NoTask
         \/ k.event # None /\ pc'[w] = "respond" /\ task'[w] = k
  BY <1>1 DEF UpdateIds, Goto, Finish, Inv, TypeOK
<1>5. /\ subscription'[o] = k.subscription /\ customer'[o] = k.customer
      /\ \A x \in Orgs : x # o => subscription'[x] = subscription[x]
  BY <1>2, <1>3 DEF Inv, TypeOK
<1>6. k.customer # None => OwnCustomer(k.customer, o)
  BY <1>1, <1>2, <1>3 DEF ClientShape, EventShape
\* No other organization has the customer.
<1>7. \A x \in Orgs : x # o => customer'[x] = customer[x]
  BY <1>2, <1>6 DEF OwnCustomer, Inv, IdsStayInOrganization
<1>8. /\ \A e : Pending(e)' <=> Pending(e)
      /\ \A x : Live(x)' = Live(x) /\ CheckoutsOf(x)' = CheckoutsOf(x) /\ ActiveOf(x)' = ActiveOf(x)
      /\ Paid' = Paid
  BY <1>2 DEF Pending, Live, CheckoutsOf, ActiveOf, Paid
<1>9. InOrder' /\ OneLive' /\ Announced'
  BY <1>2, <1>8 DEF OrderedInv, Agree, InOrder, OneLive, Announced
<1>10. /\ \A v \in Workers : task'[v].event = task[v].event
       /\ \A v \in Workers : OneEvent(v)'
  <2>1. \A v \in Workers : task'[v].event = task[v].event
    BY <1>1, <1>4 DEF NoTask
  <2> QED
    BY <1>2, <2>1 DEF OrderedInv, OneEvent
<1>11. \A d \in Checkouts : <<"completed", d>> \in Events /\ <<"deleted", d>> \in Events
  BY DEF Events
\* Who writes, and what the columns are then.
<1>12. \/ /\ k.event = None /\ k.customer = customer[o] /\ Live(o) = {} /\ k.subscription = None
          /\ \A d \in CheckoutsOf(o) : ~Pending(<<"completed", d>>)
       \/ /\ k.event # None /\ k.event = <<"deleted", k.event[2]>> /\ k.customer = customer[o]
          /\ Live(o) = {} /\ k.subscription = None
       \/ /\ k.event # None /\ k.event = <<"completed", k.event[2]>>
          /\ Live(o) \subseteq {k.event[2]} /\ k.event[2] \in Paid /\ k.event[2] \in CheckoutsOf(o)
          /\ Pending(k.event) /\ k.customer = checkout[k.event[2]].customer /\ k.customer # None
          /\ customer[o] \in {None, k.customer} /\ k.subscription = k.event[2]
  <2>1. CASE k.event = None
    BY <1>1, <1>2, <1>3, <2>1 DEF ClientShape, OneClient
  <2>2. CASE k.event # None
    <3>1. /\ k.event[2] \in Paid /\ o = checkout[k.event[2]].org /\ k.event[2] \in Checkouts
          /\ k.customer = checkout[k.event[2]].customer /\ k.customer # None
          /\ k.subscription = IF k.event[1] = "completed" THEN k.event[2] ELSE None
      BY <1>1, <1>2, <1>3, <2>2, NoneAssumption DEF EventShape, OwnCustomer, Paid
    <3>2. task[w].event # None /\ o = checkout[task[w].event[2]].org
      BY <1>1, <2>2, <3>1
    <3>3. /\ Live(o) \subseteq {k.event[2]} /\ Pending(k.event)
          /\ k.event = <<"completed", k.event[2]>> \/
                /\ k.event = <<"deleted", k.event[2]>> /\ Live(o) = {}
                /\ ~Pending(<<"completed", k.event[2]>>)
      BY <1>1, <3>2, EventOfOne
    <3>4. CASE k.event = <<"completed", k.event[2]>>
      <4>1. customer[o] \in {None, k.customer}
        BY <3>1, <3>3, <3>4 DEF OrderedInv, Agree, Customers
      <4> QED
        BY <2>2, <3>1, <3>3, <3>4, <4>1 DEF CheckoutsOf
    <3>5. CASE /\ k.event = <<"deleted", k.event[2]>> /\ Live(o) = {}
               /\ ~Pending(<<"completed", k.event[2]>>)
      <4>1. customer[o] = k.customer
        BY <3>1, <3>5 DEF OrderedInv, Agree, Customers
      <4>2. k.event[1] = "deleted"
        BY <3>5
      <4> QED
        BY <2>2, <3>1, <3>5, <4>1, <4>2
    <3> QED
      BY <3>3, <3>4, <3>5
  <2> QED
    BY <2>1, <2>2
<1>13. Customers'
  <2> SUFFICES ASSUME NEW d \in Checkouts, d \in Paid \/ checkout[d].state = "open" \/ Pending(<<"completed", d>>)
               PROVE  /\ d \in Paid /\ ~Pending(<<"completed", d>>) =>
                             customer'[checkout[d].org] = checkout[d].customer
                      /\ checkout[d].state = "open" \/ Pending(<<"completed", d>>) =>
                             customer'[checkout[d].org] \in {None, checkout[d].customer}
    BY <1>2, <1>8 DEF Customers
  <2>1. /\ checkout[d].org \in Orgs /\ checkout[d].customer # None
        /\ d \in Paid /\ ~Pending(<<"completed", d>>) =>
               customer[checkout[d].org] = checkout[d].customer
        /\ checkout[d].state = "open" \/ Pending(<<"completed", d>>) =>
               customer[checkout[d].org] \in {None, checkout[d].customer}
    BY <1>11, NoneAssumption DEF OrderedInv, Agree, Customers, Inv, SessionShape, OwnCustomer, Paid
  <2>2. CASE checkout[d].org # o
    BY <1>7, <2>1, <2>2
  <2>3. CASE checkout[d].org = o /\ customer[o] = k.customer
    BY <1>5, <2>1, <2>3
  <2>4. CASE checkout[d].org = o /\ customer[o] = None /\ k.customer # None
    <3>1. /\ Pending(k.event) /\ k.event = <<"completed", k.event[2]>> /\ k.event[2] \in CheckoutsOf(o)
          /\ k.customer = checkout[k.event[2]].customer /\ Live(o) \subseteq {k.event[2]}
      BY <1>12, <2>4
    <3>2. checkout[d].state = "open" \/ Pending(<<"completed", d>>)
      BY <2>1, <2>4
    <3>3. checkout[d].state = "open" => d = k.event[2]
      BY <2>4, <3>1 DEF Live, CheckoutsOf
    <3>4. k.event \in Events /\ checkout[k.event[2]].org = o
      BY <1>11, <3>1 DEF CheckoutsOf
    <3>5. Pending(<<"completed", d>>) => d = k.event[2]
      <4>1. SUFFICES ASSUME Pending(<<"completed", d>>) PROVE d = k.event[2]
        OBVIOUS
      <4>2. <<"completed", d>> \in Events
        BY DEF Events
      <4>3. \A e, f \in Events : Pending(e) /\ Pending(f) /\ checkout[e[2]].org = o
                   /\ checkout[f[2]].org = o => e[2] = f[2]
        BY <1>3, <1>11 DEF OrderedInv, Agree, OneLive
      <4> QED
        BY <2>4, <3>1, <3>4, <4>1, <4>2, <4>3
    <3> QED
      BY <1>5, <2>1, <2>4, <3>1, <3>2, <3>3, <3>5
  <2> QED
    BY <1>12, <2>2, <2>3, <2>4
<1>14. \A d \in Checkouts : Activated(d)'
  <2> SUFFICES ASSUME NEW d \in Checkouts, checkout[d].state = "active", ~Pending(<<"completed", d>>)
               PROVE  plan[checkout[d].org] = "pro" /\ subscription'[checkout[d].org] = d
    BY <1>2, <1>8 DEF Activated
  <2>1. d \in Live(checkout[d].org) /\ checkout[d].org \in Orgs
    BY DEF Live, CheckoutsOf, Inv, SessionShape
  <2>2. plan[checkout[d].org] = "pro" /\ subscription[checkout[d].org] = d
    BY DEF OrderedInv, Agree, Activated
  <2> QED
    BY <1>5, <1>12, <2>1, <2>2
<1>15. \A x \in Orgs : Deactivated(x)'
  BY <1>2, <1>8 DEF OrderedInv, Agree, Deactivated
<1>16. \A v \in Workers : OneClient(v)'
  <2> SUFFICES ASSUME NEW v \in Workers, v # w, pc[v] # "idle", task[v].event = None
               PROVE  OneClient(v)'
    BY <1>4 DEF OneClient, NoTask
  <2>1. OneClient(v) /\ task[v].org \in Orgs
    BY DEF OrderedInv, Inv, ClientShape
  <2>2. task[v].customer = customer'[task[v].org]
    <3>1. CASE task[v].org # o
      BY <1>7, <2>1, <3>1 DEF OneClient
    <3>2. CASE task[v].org = o
      BY <1>5, <1>11, <1>12, <2>1, <3>2 DEF OneClient, CheckoutsOf
    <3> QED
      BY <3>1, <3>2
  <2>3. \A u \in Workers : pc'[u] # "idle" /\ task'[u].event = None =>
            u # w /\ pc[u] # "idle" /\ task[u].event = None /\ task'[u] = task[u]
    BY <1>4 DEF NoTask
  <2> QED
    BY <1>2, <1>4, <1>8, <2>1, <2>2, <2>3 DEF OneClient
<1>17. \A v \in Workers : EventDone(v)'
  <2> SUFFICES ASSUME NEW v \in Workers, task[v].event # None
               PROVE  EventDone(v)'
    BY <1>10 DEF EventDone
  <2>1. CASE v = w
    BY <1>1, <1>2, <1>3, <1>4, <1>5, <2>1 DEF EventDone
  <2>2. CASE v # w
    <3>1. k.event = None
      BY <1>1, <2>2, EventOfOne
    <3>2. /\ \A d \in CheckoutsOf(o) : ~Pending(<<"completed", d>>)
          /\ k.subscription = None /\ k.customer = customer[o]
      BY <1>12, <3>1
    <3>3. PICK e, x : e = task[v].event /\ x = checkout[e[2]].org
      OBVIOUS
    <3>4. /\ e \in Events /\ e[2] \in Checkouts /\ x \in Orgs /\ Pending(e)
          /\ e = <<"completed", e[2]>> \/ e = <<"deleted", e[2]>>
      BY <3>3, EventOfOne
    <3>5. x = o => e[1] # "completed"
      <4>1. e[1] = "completed" => e = <<"completed", e[2]>>
        BY <3>4
      <4> QED
        BY <3>2, <3>3, <3>4, <4>1 DEF CheckoutsOf
    <3>6. EventDone(v) /\ EventShape(v)
      BY DEF OrderedInv, Inv
    <3> QED
      BY <1>2, <1>4, <1>5, <1>7, <2>2, <3>2, <3>3, <3>4, <3>5, <3>6 DEF EventDone, EventShape
  <2> QED
    BY <2>1, <2>2
<1> QED
  BY <1>9, <1>10, <1>13, <1>14, <1>15, <1>16, <1>17 DEF OrderedInv, Agree

\* An event that is answered has been applied.
LEMMA RespondOrdered ==
    ASSUME Inv, OrderedInv, NEW w \in Workers, Respond(w)
    PROVE  OrderedInv'
<1>1. PICK e, d, o : e = task[w].event /\ d = e[2] /\ o = checkout[d].org
  OBVIOUS
<1>2. /\ pc[w] = "respond" /\ Answered(e) /\ pc'[w] = "idle" /\ task'[w].event = None
      /\ \A v \in Workers : v # w => pc'[v] = pc[v] /\ task'[v] = task[v]
      /\ UNCHANGED <<plan, customer, subscription, checkout>>
  BY <1>1 DEF Respond, Finish, Inv, TypeOK, NoTask, columns
<1>3. e # None /\ EventDone(w) /\ EventShape(w)
  BY <1>1, <1>2 DEF Inv, ClientShape, OrderedInv
<1>4. /\ e \in Events /\ d \in Paid /\ d \in Checkouts /\ o \in Orgs
      /\ \/ e = <<"completed", d>>
         \/ e = <<"deleted", d>> /\ ~Pending(<<"completed", d>>)
      /\ \A v \in Workers : task[v].event # None => v = w
  <2>1. task[w].event # None /\ o = checkout[task[w].event[2]].org
    BY <1>1, <1>3
  <2>2. e \in Events /\ d \in Paid /\ d \in Checkouts /\ o \in Orgs
    BY <1>1, <2>1, EventOfOne
  <2>3. \/ e = <<"completed", d>>
        \/ e = <<"deleted", d>> /\ ~Pending(<<"completed", d>>)
    BY <1>1, <2>1, EventOfOne
  <2>4. \A v \in Workers : task[v].event # None => v = w
    BY <2>1, EventOfOne
  <2> QED
    BY <2>2, <2>3, <2>4
<1>5. /\ plan[o] = (IF e = <<"completed", d>> THEN "pro" ELSE "free")
      /\ e = <<"completed", d>> => subscription[o] = d /\ customer[o] = checkout[d].customer
  BY <1>1, <1>2, <1>3, <1>4 DEF EventDone, EventShape
<1>6. /\ \A f \in Events : Pending(f)' => Pending(f)
      /\ \A f \in Events : f # e /\ Pending(f) => Pending(f)'
      /\ InOrder'
  BY <1>2, AnsweredProperties, AnsweredOrder DEF Inv, OrderedInv, Agree
<1>7. /\ \A x : Live(x)' = Live(x) /\ CheckoutsOf(x)' = CheckoutsOf(x) /\ ActiveOf(x)' = ActiveOf(x)
      /\ Paid' = Paid
  BY <1>2 DEF Live, CheckoutsOf, ActiveOf, Paid
<1>8. \A c \in Checkouts : <<"completed", c>> \in Events /\ <<"deleted", c>> \in Events
  BY DEF Events
<1>9. OneLive'
  BY <1>2, <1>6, <1>7 DEF OrderedInv, Agree, OneLive
<1>10. Announced'
  <2> SUFFICES ASSUME NEW c \in Checkouts
               PROVE  /\ Pending(<<"deleted", c>>)' => checkout[c].state = "cancelled"
                      /\ Pending(<<"completed", c>>)' /\ checkout[c].state = "cancelled" =>
                             Pending(<<"deleted", c>>)'
    BY <1>2 DEF Announced
  <2>1. <<"deleted", c>> = e => c = d /\ ~Pending(<<"completed", c>>)
    BY <1>4
  <2> QED
    BY <1>6, <1>8, <2>1 DEF OrderedInv, Agree, Announced
<1>11. Customers'
  <2> SUFFICES ASSUME NEW c \in Checkouts
               PROVE  /\ c \in Paid /\ ~Pending(<<"completed", c>>)' =>
                             customer[checkout[c].org] = checkout[c].customer
                      /\ checkout[c].state = "open" \/ Pending(<<"completed", c>>)' =>
                             customer[checkout[c].org] \in {None, checkout[c].customer}
    BY <1>2, <1>7 DEF Customers
  <2>1. <<"completed", c>> = e => c = d
    BY <1>4
  <2> QED
    BY <1>1, <1>5, <1>6, <1>8, <2>1 DEF OrderedInv, Agree, Customers
<1>12. \A c \in Checkouts : Activated(c)'
  <2> SUFFICES ASSUME NEW c \in Checkouts, checkout[c].state = "active", ~Pending(<<"completed", c>>)'
               PROVE  plan[checkout[c].org] = "pro" /\ subscription[checkout[c].org] = c
    BY <1>2 DEF Activated
  <2>1. <<"completed", c>> = e => c = d
    BY <1>4
  <2> QED
    BY <1>1, <1>5, <1>6, <1>8, <2>1 DEF OrderedInv, Agree, Activated
<1>13. \A x \in Orgs : Deactivated(x)'
  <2> SUFFICES ASSUME NEW x \in Orgs, plan[x] = "pro", ActiveOf(x) = {}
               PROVE  \E c \in CheckoutsOf(x) : Pending(<<"deleted", c>>)'
    BY <1>2, <1>7 DEF Deactivated
  <2>1. PICK c \in CheckoutsOf(x) : Pending(<<"deleted", c>>)
    BY DEF OrderedInv, Agree, Deactivated
  <2>2. <<"deleted", c>> # e
    BY <1>1, <1>4, <1>5, <2>1 DEF CheckoutsOf
  <2> QED
    BY <1>6, <1>8, <2>1, <2>2 DEF CheckoutsOf
<1>14. \A v \in Workers : OneEvent(v)' /\ EventDone(v)'
  BY <1>2, <1>4 DEF OneEvent, EventDone
<1>15. \A v \in Workers : OneClient(v)'
  <2> SUFFICES ASSUME NEW v \in Workers, v # w, pc[v] # "idle", task[v].event = None
               PROVE  OneClient(v)'
    BY <1>2 DEF OneClient
  <2>1. OneClient(v)
    BY DEF OrderedInv
  <2>2. \A c \in CheckoutsOf(task[v].org) :
            /\ Pending(<<"completed", c>>)' => Pending(<<"completed", c>>)
            /\ Pending(<<"deleted", c>>)' => Pending(<<"deleted", c>>)
    BY <1>6, <1>8 DEF CheckoutsOf
  <2> QED
    BY <1>2, <1>7, <2>1, <2>2 DEF OneClient
<1> QED
  BY <1>6, <1>9, <1>10, <1>11, <1>12, <1>13, <1>14, <1>15 DEF OrderedInv, Agree

\* Every step keeps the order and the agreement.
LEMMA NextOrdered ==
    ASSUME Disciplined, Ordered, Inv, OrderedInv, [Next]_vars
    PROVE  OrderedInv'
<1>1. CASE Stripe
  BY <1>1, PayOrdered, AbandonOrdered, LapseOrdered DEF Stripe
<1>2. ASSUME NEW w \in Workers, Step(w)
      PROVE  OrderedInv'
  BY <1>2, CreateSessionOrdered, CancelSubscriptionOrdered, UpdatePlanOrdered, UpdateIdsOrdered,
     RespondOrdered DEF Step
<1>3. ASSUME NEW w \in Workers, Abort(w)
      PROVE  OrderedInv'
  BY <1>3, DropOrdered DEF Abort
<1>4. CASE UNCHANGED vars
  <2>1. UNCHANGED <<columns, checkout, outbox>>
    BY <1>4 DEF vars, columns
  <2>3. Agree'
    BY <2>1, AgreeKept DEF OrderedInv
  <2>2. \A w \in Workers : OneEvent(w)' /\ OneClient(w)' /\ EventDone(w)'
    BY <1>4 DEF vars, columns, OrderedInv, OneEvent, OneClient, EventDone, Pending, Live,
                CheckoutsOf
  <2> QED
    BY <2>2, <2>3 DEF OrderedInv
<1> QED
  BY <1>1, <1>2, <1>3, <1>4, ReadOrganizationOrdered, ReceiveEventOrdered DEF Next, Delivery

\* With disciplined clients and ordered webhooks, an organization with nothing
\* on its way is on Pro exactly if its one active subscription is the recorded
\* one, wherever requests and webhooks died half-way and were repeated.
THEOREM PlanAlwaysFollowsPayment ==
    ASSUME Disciplined, Ordered
    PROVE  Spec => []PlanFollowsPayment
<1>1. Init => Inv /\ OrderedInv
  BY InitInv, InitOrdered
<1>2. Inv /\ OrderedInv /\ [Next]_vars => Inv' /\ OrderedInv'
  BY NextInv, NextOrdered
<1>3. Inv /\ OrderedInv => PlanFollowsPayment
  BY SettledPlan
<1> QED
  BY <1>1, <1>2, <1>3, PTL DEF Spec

=============================================================================
