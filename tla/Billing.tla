------------------------------- MODULE Billing -------------------------------
(***************************************************************************)
(* The payment service, Stripe which feeds it, and the registrar which     *)
(* asks it.  Stripe's webhook events come over HTTP: late, out of order,   *)
(* and again until one delivery is answered.  The service holds the mutex  *)
(* of its database for one call at a time and applies each event as it     *)
(* comes.  A failing insert panics with the mutex held, which poisons it:  *)
(* nothing is answered any more until the service is started again, and    *)
(* the registrar takes no answer for a yes.                                *)
(***************************************************************************)
EXTENDS Integers, SequencesExt

CONSTANTS
  DID,         \* the customers
  NoDID,       \* the customer of a checkout that was not asked for here
  StripeId,    \* Stripe's ids of subscriptions
  Free,        \* a row without one
  PriceMap,    \* the plans that the environment gives a price at Stripe
  Delivery,    \* deliveries: signed with our secret or another, and how old
  StripeStatus,\* the statuses Stripe gives, some of which the service does not know
  MaxSent,     \* bound: the events Stripe sends
  MaxRows,     \* bound: the rows of the table
  MaxCreated   \* bound: the agents created

Plan == {"developer", "startup", "scale", "enterprise"}
SubscriptionStatus == {"active", "past_due", "canceled", "trialing", "unpaid"}

(* An Option<u32> is the set of what it holds. *)
AllPlans ==
  [p \in Plan |->
     [did_limit |-> CASE p = "developer" -> {5}
                      [] p = "startup" -> {100}
                      [] OTHER -> {}]]

ASSUME PriceMapAssumption == PriceMap \subseteq {"startup", "scale"}
ASSUME DeliveryAssumption == Delivery \subseteq [ours : BOOLEAN, age : Int]
ASSUME NullAssumption == Free \notin StripeId /\ NoDID \notin DID

VARIABLES
  rows,     \* the table subscriptions, by created_at, with their usage records
  service,  \* "up", or "poisoned": the mutex of the database is
  durable,  \* DATABASE_PATH names a file
  checkout, \* checkout[s]: Stripe's session that s may come of, or came of
  sent,     \* sent[s]: Stripe's events about s, in the order they happened
  seen,     \* history: how many of them have been applied, one after the other
  orderly,  \* history: no event of s was applied out of order or again
  asked,    \* customers with a creation that the registrar has let through
  created   \* created[d]: the agents created for d

serviceVars == <<rows, service, durable>>
stripeVars == <<checkout, sent>>
historyVars == <<seen, orderly>>
registrarVars == <<asked, created>>
billingVars == <<serviceVars, stripeVars, historyVars, registrarVars>>

BillingInit ==
  /\ rows = <<>>
  /\ service = "up"
  /\ durable \in BOOLEAN
  /\ checkout = [s \in StripeId |-> {}]
  /\ sent = [s \in StripeId |-> <<>>]
  /\ seen = [s \in StripeId |-> 0]
  /\ orderly = [s \in StripeId |-> TRUE]
  /\ asked = {}
  /\ created = [d \in DID |-> 0]

-----------------------------------------------------------------------------
(* Stripe.  A session that the customer pays begins a subscription, which  *)
(* a deletion ends.                                                        *)

Event(type, status) == [type |-> type, status |-> status]

Emit(s, e) ==
  /\ FoldFunction(LAMBDA q, n : Len(q) + n, 0, sent) < MaxSent
  /\ sent' = [sent EXCEPT ![s] = Append(@, e)]
  /\ UNCHANGED <<serviceVars, checkout, historyVars, registrarVars>>

OpenSession(s, d, plan) ==
  /\ checkout[s] = {}
  /\ checkout' = [checkout EXCEPT ![s] = {[customer_did |-> d, plan_id |-> plan]}]
  /\ UNCHANGED <<serviceVars, sent, historyVars, registrarVars>>

Session(s) == CHOOSE c \in checkout[s] : TRUE

(* A checkout that the vendor set up at Stripe by itself has no metadata. *)
OpenElsewhere(s) == \E plan \in PriceMap : OpenSession(s, NoDID, plan)

Paid(s) ==
  /\ checkout[s] # {}
  /\ sent[s] = <<>>
  /\ Emit(s, Event("checkout.session.completed", "active"))

(* The customer, or Stripe, changes a subscription. *)
Change(s) ==
  /\ sent[s] # <<>>
  /\ Last(sent[s]).status # "canceled"
  /\ \/ \E status \in StripeStatus \ {"canceled"} :
          Emit(s, Event("customer.subscription.updated", status))
     \/ Emit(s, Event("invoice.payment_failed", "past_due"))
     \/ Emit(s, Event("invoice.paid", "active"))
     \/ Emit(s, Event("customer.subscription.deleted", "canceled"))

-----------------------------------------------------------------------------
(* The table of subscriptions. *)

(* SubscriptionStatus::from_str *)
FromStr(status) == IF status \in SubscriptionStatus THEN status ELSE "active"

(* usage is the row of usage_records, where there is one. *)
Subscription(d, s, plan) ==
  [customer_did |-> d, stripe_subscription_id |-> s, plan_id |-> plan,
   status |-> "active", usage |-> {}]

UsageRecord == [dids_created |-> 0]

CreateSubscription(sub) ==
  /\ service = "up"
  /\ Len(rows) < MaxRows
  /\ rows' = Append(rows, [sub EXCEPT !.usage = {UsageRecord}])
  /\ UNCHANGED service

(* The insert of the row, or that of its usage record, fails: `expect`     *)
(* panics under the mutex, between the two or before both.                 *)
InsertPanics(sub) ==
  /\ service = "up"
  /\ durable
  /\ Len(rows) < MaxRows
  /\ rows' \in {rows, Append(rows, sub)}
  /\ service' = "poisoned"

(* Bug: the customer's rows, whichever subscription they are of. *)
BugUpdateStatus(s, status, plan) ==
  LET of == {rows[i].customer_did :
               i \in {j \in DOMAIN rows : rows[j].stripe_subscription_id = s}}
  IN [i \in DOMAIN rows |->
        IF rows[i].customer_did \in of
          THEN [rows[i] EXCEPT !.status = status, !.plan_id = plan[@]]
          ELSE rows[i]]

(* Bug: the rows without a Stripe id match as well. *)
BugUpdateFree(s, status, plan) ==
  [i \in DOMAIN rows |->
     IF rows[i].stripe_subscription_id \in {s, Free}
       THEN [rows[i] EXCEPT !.status = status, !.plan_id = plan[@]]
       ELSE rows[i]]

(* update_subscription_status: every row of the Stripe id; none is no error. *)
UpdateStatus(s, status, plan) ==
  [i \in DOMAIN rows |->
     IF rows[i].stripe_subscription_id = s
       THEN [rows[i] EXCEPT !.status = status, !.plan_id = plan[@]]
       ELSE rows[i]]

RowsOf(d) == {i \in DOMAIN rows : rows[i].customer_did = d}

(* get_subscription_by_did: the newest row. *)
SubscriptionOf(d) == rows[Max(RowsOf(d))]

(* get_plan: what seed_plans has written. *)
GetPlan(plan) == AllPlans[plan]

(* get_usage, where a subscription without a usage record counts none. *)
DidsCreated(sub) == IF sub.usage = {} THEN 0 ELSE (CHOOSE u \in sub.usage : TRUE).dids_created

(* validate, for the action "create".  No function that a request reaches  *)
(* adds to dids_created.                                                   *)
Validate(d) ==
  RowsOf(d) # {} =>
    LET sub == SubscriptionOf(d) IN
      /\ sub.status = "active"
      /\ \A limit \in GetPlan(sub.plan_id).did_limit : DidsCreated(sub) < limit

-----------------------------------------------------------------------------
(* The requests of customers. *)

(* The free tier: one more row, whatever rows the customer has. *)
FreeTier(d) == Subscription(d, Free, "developer")

(* create_checkout_session.  A plan with a price goes to Stripe, and does  *)
(* not need the database; "developer" is written at once; of the others    *)
(* nothing comes.                                                          *)
CreateCheckoutSession(d, plan) ==
  \/ /\ plan \in PriceMap
     /\ \E s \in StripeId : OpenSession(s, d, plan)
  \/ /\ plan = "developer"
     /\ CreateSubscription(FreeTier(d)) \/ InsertPanics(FreeTier(d))
     /\ UNCHANGED <<durable, stripeVars, historyVars, registrarVars>>

(* What the customer does at Stripe's portal.  Stripe opens it for its own *)
(* customers: that of a free row it does not know.                         *)
PortalSession(s) ==
  /\ s # Free
  /\ Last(sent[s]).status # "canceled"
  /\ Emit(s, Event("customer.subscription.deleted", "canceled"))

(* create_portal_session: for the newest row of the customer and no other. *)
CreatePortalSession(d) ==
  /\ service = "up"
  /\ RowsOf(d) # {}
  /\ PortalSession(SubscriptionOf(d).stripe_subscription_id)

-----------------------------------------------------------------------------
(* Webhooks. *)

MAX_TIMESTAMP_AGE == 300

VerifySignature(delivery) ==
  /\ delivery.ours
  /\ delivery.age \in -MAX_TIMESTAMP_AGE .. MAX_TIMESTAMP_AGE

SamePlan == [p \in Plan |-> p]
Downgrade == [p \in Plan |-> "developer"]

(* The EventActions that update a row. *)
SubscriptionUpdated(s, status) == UpdateStatus(s, FromStr(status), SamePlan)
SubscriptionDeleted(s) == UpdateStatus(s, "canceled", Downgrade)
PaymentFailed(s) == UpdateStatus(s, "past_due", SamePlan)
InvoicePaid(s) == UpdateStatus(s, "active", SamePlan)

DispatchEvent(s, e) ==
  CASE e.type = "customer.subscription.updated" -> SubscriptionUpdated(s, e.status)
    [] e.type = "customer.subscription.deleted" -> SubscriptionDeleted(s)
    [] e.type = "invoice.payment_failed" -> PaymentFailed(s)
    [] e.type = "invoice.paid" -> InvoicePaid(s)

(* What was bought is not looked up. *)
DeterminePlan(s) == "startup"

CheckoutCompleted(s) == Subscription(Session(s).customer_did, s, DeterminePlan(s))

(* Note that event i of s has been applied. *)
Applied(s, i) ==
  /\ orderly' = [orderly EXCEPT ![s] = @ /\ i = seen[s] + 1]
  /\ seen' = [seen EXCEPT ![s] = IF i = @ + 1 THEN i ELSE @]

(* One delivery of one event, whatever was delivered before.  A checkout    *)
(* that names no customer is dropped.  One that panics is not answered, and *)
(* Stripe will deliver it again.                                            *)
Webhook(s, i, delivery) ==
  /\ service = "up"
  /\ VerifySignature(delivery)
  /\ IF sent[s][i].type = "checkout.session.completed" /\ Session(s).customer_did # NoDID
       THEN \/ CreateSubscription(CheckoutCompleted(s)) /\ Applied(s, i)
            \/ /\ InsertPanics(CheckoutCompleted(s))
               /\ IF rows' = rows THEN UNCHANGED historyVars ELSE Applied(s, i)
       ELSE /\ IF sent[s][i].type = "checkout.session.completed"
                 THEN UNCHANGED rows
                 ELSE rows' = DispatchEvent(s, sent[s][i])
            /\ Applied(s, i)
            /\ UNCHANGED service
  /\ UNCHANGED <<durable, stripeVars, registrarVars>>

(* The process is started again; a database in memory starts empty. *)
Restart ==
  /\ service' = "up"
  /\ rows' = IF durable THEN rows ELSE <<>>
  /\ orderly' = [s \in StripeId |-> orderly[s] /\ (durable \/ seen[s] = 0)]
  /\ UNCHANGED <<durable, stripeVars, seen, registrarVars>>

-----------------------------------------------------------------------------
(* The registrar's create_agent: it asks, and then creates. *)

(* validate_subscription: an answer that does not come is a yes. *)
Allowed(d) == service = "up" => Validate(d)

Ask(d) ==
  /\ d \notin asked
  /\ FoldFunction(+, Cardinality(asked), created) < MaxCreated
  /\ Allowed(d)
  /\ asked' = asked \cup {d}
  /\ UNCHANGED <<serviceVars, stripeVars, historyVars, created>>

CreateAgent(d) ==
  /\ d \in asked
  /\ asked' = asked \ {d}
  /\ created' = [created EXCEPT ![d] = @ + 1]
  /\ UNCHANGED <<serviceVars, stripeVars, historyVars>>

BillingNext ==
  \/ \E s \in StripeId :
       \/ OpenElsewhere(s)
       \/ Paid(s)
       \/ Change(s)
       \/ \E i \in DOMAIN sent[s], delivery \in Delivery : Webhook(s, i, delivery)
  \/ \E d \in DID :
       \/ \E plan \in Plan : CreateCheckoutSession(d, plan)
       \/ CreatePortalSession(d)
       \/ Ask(d)
       \/ CreateAgent(d)
  \/ Restart

BillingSpec == BillingInit /\ [][BillingNext]_billingVars

-----------------------------------------------------------------------------
(* Of a subscription whose events have come once and in order there is one *)
(* row, and it has the status that Stripe's last applied event gave it,    *)
(* whatever happened to other subscriptions, its own customer's included;  *)
(* there is none of a subscription that was not begun here.                *)
FollowsStripe ==
  \A s \in StripeId :
    orderly[s] /\ seen[s] > 0 =>
      LET last == sent[s][seen[s]]
          mine == {i \in DOMAIN rows : rows[i].stripe_subscription_id = s} IN
        IF Session(s).customer_did = NoDID THEN mine = {}
        ELSE \E i \in DOMAIN rows :
               /\ mine = {i}
               /\ rows[i].customer_did = Session(s).customer_did
               /\ rows[i].status = FromStr(last.status)
               /\ rows[i].plan_id = IF last.status = "canceled" THEN "developer" ELSE "startup"

(* Events lost, late, repeated or out of order, panics and restarts: a     *)
(* customer is refused only if a subscription of its own, and no other's,  *)
(* has been out of order at Stripe.                                        *)
RefusedForAReason ==
  \A d \in DID :
    ~Validate(d) =>
      \E s \in StripeId :
        /\ \E c \in checkout[s] : c.customer_did = d
        /\ \E i \in DOMAIN sent[s] : FromStr(sent[s][i].status) # "active"

(* "5 active Agent DIDs": a customer who has only ever been on one plan does *)
(* not create more agents than that plan allows.                             *)
WithinPlan ==
  \A d \in DID : \A p \in Plan : \A limit \in AllPlans[p].did_limit :
    (\A i \in RowsOf(d) : rows[i].plan_id = p) /\ RowsOf(d) # {} => created[d] <= limit
==============================================================================
