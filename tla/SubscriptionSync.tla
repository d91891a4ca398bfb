-------------------------- MODULE SubscriptionSync --------------------------
(* The plan of one user: what Stripe, the App Store and the creator programme  *)
(* give, and the webhooks that tell the database of it. Every change at a      *)
(* provider sends events; they are delivered in any order, more than once, to  *)
(* any number of handlers, each of which reads the user's row and writes it    *)
(* back under a condition. MinuteAllowance has what the row then allows.       *)
EXTENDS Naturals, Sequences, FiniteSets, FiniteSetsExt

CONSTANTS
    Hooks,        \* running webhook handlers, billing requests and admin requests
    MaxChanges,   \* bound: changes at the providers
    MaxFailures   \* bound: handlers that raise or die, before the last change

VARIABLES
    user,      \* the row: plan, subscription_status and _provider, whether it names a
               \* Stripe subscription, pending_plan and its invoice, billing_period_end
    sub,       \* the subscription at Stripe, and the plan that is paid for
    invoices,  \* its invoices: the plan on their lines, and whether they are settled
    store,     \* the subscription in the App Store: its plan, and when it ends
    creator,   \* the user's application as a creator: none, approved, revoked
    events,    \* events that are not answered yet
    seen,      \* stripe_webhook_events and revenuecat_webhook_events, without the ids
               \* of events that are answered and come no more
    hook,      \* where each handler is, its event and what it read
    past       \* changes, failures; the dearest plan ever paid, and what happened that
               \* the properties except
svars == <<user, sub, invoices, store, creator, events, seen, hook, past>>

\* planRank is the number of the plan.
Free  == 0
Pro   == 1
Scale == 2
Paid  == {Pro, Scale}
Entitled == {"active", "past_due"}          \* trialing is active
Blocking == {"past_due", "unpaid", "canceled"}
NoSub == [status |-> "none", price |-> Free, invoice |-> 0, paid |-> Free, cancels |-> FALSE]
NoEvent == [id |-> <<0, "none">>, kind |-> "none", sub |-> NoSub, invoice |-> 0, plan |-> Free, end |-> 0]
FreeUser == [plan |-> Free, status |-> "none", provider |-> "none", sub |-> FALSE,
             pending |-> Free, invoice |-> 0, end |-> 0]
Rest == [at |-> "rest", event |-> NoEvent, row |-> FreeUser, sub |-> NoSub, settled |-> FALSE]
NoStore == [plan |-> Free, end |-> 0]

If(test, name) == IF test THEN {name} ELSE {}
Request(kind, n) == [NoEvent EXCEPT !.id = <<n, kind>>, !.kind = kind]
StartWith(row, s, bills, apple, approved) ==
    /\ user = row /\ sub = s /\ invoices = bills /\ store = apple /\ creator = approved
    /\ events = {} /\ seen = {} /\ hook = [h \in Hooks |-> Rest]
    /\ past = [changes |-> 0, failures |-> 0, top |-> Max({row.plan, s.paid}),
               oddities |-> If(row.plan = Free /\ row.status = "past_due", "legacy")]
Bill(p, paid) == [plan |-> p, settled |-> paid]
StripeUser(p, status) == [FreeUser EXCEPT !.plan = p, !.status = status, !.provider = "stripe", !.sub = TRUE]
Gone == StartWith(FreeUser, NoSub, <<>>, NoStore, "none")
AppleUser(p, end) == [FreeUser EXCEPT !.plan = p, !.status = "active", !.provider = "apple", !.end = end]
CreatorUser == [FreeUser EXCEPT !.plan = Pro, !.status = "active", !.provider = "affiliate"]
Has(p, status) == [NoSub EXCEPT !.status = status, !.price = p, !.paid = p, !.invoice = 1]
\* A newcomer; a creator; a Pro subscriber, without and with an upgrade that is not paid;
\* creators who subscribe at Stripe or in the App Store; and a row written before a
\* subscription that is past due kept its plan.
Init ==
    \/ Gone
    \/ StartWith(CreatorUser, NoSub, <<>>, NoStore, "approved")
    \/ StartWith(StripeUser(Pro, "active"), Has(Pro, "active"), <<Bill(Pro, TRUE)>>, NoStore, "none")
    \/ StartWith([StripeUser(Pro, "active") EXCEPT !.pending = Scale, !.invoice = 2],
                 [Has(Pro, "active") EXCEPT !.price = Scale, !.invoice = 2],
                 <<Bill(Pro, TRUE), Bill(Free, FALSE)>>, NoStore, "none")
    \/ StartWith(StripeUser(Scale, "active"), Has(Scale, "active"), <<Bill(Scale, TRUE)>>, NoStore, "approved")
    \/ StartWith(AppleUser(Pro, 1), NoSub, <<>>, [plan |-> Pro, end |-> 1], "approved")
    \/ StartWith(StripeUser(Free, "past_due"), Has(Pro, "past_due"), <<Bill(Pro, FALSE)>>, NoStore, "none")

(***************************************************************************)
(* The providers                                                           *)
(***************************************************************************)
Moves == past.changes < MaxChanges
Now == past.changes + 1
Tell(kinds, s, k, p, end) ==
    events' = events \cup {[id |-> <<Now, kind>>, kind |-> kind, sub |-> s, invoice |-> k,
                            plan |-> p, end |-> end] : kind \in kinds}
Changed(p, odd) ==
    past' = [past EXCEPT !.changes = Now, !.top = Max({@, p}), !.oddities = @ \cup odd]
Bills == Len(invoices)
Live(s) == s.status \notin {"none", "canceled"}

\* POST /api/billing/checkout: none beside a subscription in the App Store, nor beside
\* one that Stripe still holds; those change their plan in the portal.
Checkout(p) ==
    /\ Moves /\ ~(user.provider = "apple" /\ user.status = "active")
    /\ ~(user.sub /\ user.status = "active") /\ ~Live(sub)
    /\ invoices' = Append(invoices, Bill(p, TRUE))
    /\ sub' = [status |-> "active", price |-> p, paid |-> p, invoice |-> Bills + 1, cancels |-> FALSE]
    /\ Tell({"checkout", "updated", "paid"}, sub', Bills + 1, p, 0)
    /\ Changed(p, If(store.plan # Free, "excepted"))
    /\ UNCHANGED <<user, store, creator, seen, hook>>
\* The invoice of an upgrade is paid at once or stays open; its lines may not name the
\* new price.
Upgrade(settled, named) ==
    /\ Moves /\ sub.status = "active" /\ sub.price = Pro
    /\ invoices' = Append(invoices, Bill(IF named THEN Scale ELSE Free, settled))
    /\ \E status \in IF settled THEN {"active"} ELSE Entitled :
          sub' = [sub EXCEPT !.price = Scale, !.invoice = Bills + 1, !.status = status,
                             !.paid = IF settled THEN Scale ELSE @]
    /\ Tell({"updated", IF settled THEN "paid" ELSE "failed"}, sub', Bills + 1, Free, 0)
    /\ Changed(sub'.paid, {}) /\ UNCHANGED <<user, store, creator, seen, hook>>
Downgrade ==
    /\ Moves /\ sub.status = "active" /\ sub.price = Scale
    /\ invoices' = Append(invoices, Bill(Pro, TRUE))
    /\ sub' = [sub EXCEPT !.price = Pro, !.paid = Pro, !.invoice = Bills + 1]
    /\ Tell({"updated", "paid"}, sub', Bills + 1, Free, 0)
    /\ Changed(Pro, {}) /\ UNCHANGED <<user, store, creator, seen, hook>>
RenewalFails ==
    /\ Moves /\ sub.status = "active" /\ invoices[sub.invoice].settled
    /\ invoices' = Append(invoices, Bill(sub.price, FALSE))
    /\ sub' = [sub EXCEPT !.status = "past_due", !.invoice = Bills + 1]
    /\ Tell({"updated", "failed"}, sub', Bills + 1, Free, 0)
    /\ Changed(Free, {}) /\ UNCHANGED <<user, store, creator, seen, hook>>
Pay ==
    /\ Moves /\ Live(sub) /\ ~invoices[sub.invoice].settled
    /\ invoices' = [invoices EXCEPT ![sub.invoice].settled = TRUE]
    /\ sub' = [sub EXCEPT !.status = "active", !.paid = sub.price]
    /\ Tell({"updated", "paid"}, sub', sub.invoice, Free, 0)
    /\ Changed(sub.price, {}) /\ UNCHANGED <<user, store, creator, seen, hook>>
RetriesOver ==
    /\ Moves /\ sub.status = "past_due" /\ sub' = [sub EXCEPT !.status = "unpaid"]
    /\ Tell({"updated"}, sub', 0, Free, 0)
    /\ Changed(Free, {}) /\ UNCHANGED <<user, invoices, store, creator, seen, hook>>
\* previous_attributes mark the event that schedules a cancellation.
ScheduleCancellation ==
    /\ Moves /\ sub.status \in Entitled /\ ~sub.cancels /\ sub' = [sub EXCEPT !.cancels = TRUE]
    /\ Tell({"cancels"}, sub', 0, Free, 0)
    /\ Changed(Free, {}) /\ UNCHANGED <<user, invoices, store, creator, seen, hook>>
EndSubscription ==
    /\ Moves /\ Live(sub) /\ sub' = [sub EXCEPT !.status = "canceled", !.paid = Free]
    /\ Tell({"deleted"}, sub', 0, Free, 0)
    /\ Changed(Free, {}) /\ UNCHANGED <<user, invoices, store, creator, seen, hook>>

\* INITIAL_PURCHASE and RENEWAL, which carries the product it is renewed as.
StoreGrants(p) ==
    /\ Moves /\ store' = [plan |-> p, end |-> Now + 1]
    /\ Tell({"granted"}, NoSub, 0, p, Now + 1)
    /\ Changed(p, If(Live(sub), "excepted"))
    /\ UNCHANGED <<user, sub, invoices, creator, seen, hook>>
\* BILLING_ISSUE, with a grace period or without one.
StoreCannotBill(grace) ==
    /\ Moves /\ store.plan # Free
    /\ store' = IF grace THEN [store EXCEPT !.end = Now + 1] ELSE store
    /\ Tell({IF grace THEN "grace" ELSE "issue"}, NoSub, 0, Free, Now + 1)
    /\ Changed(Free, {}) /\ UNCHANGED <<user, sub, invoices, creator, seen, hook>>
\* EXPIRATION, or TRANSFER to another account.
StoreEnds(kind) ==
    /\ Moves /\ store.plan # Free /\ store' = NoStore
    /\ Tell({kind}, NoSub, 0, Free, store.end)
    /\ Changed(Free, {}) /\ UNCHANGED <<user, sub, invoices, creator, seen, hook>>

(***************************************************************************)
(* A webhook is delivered                                                  *)
(***************************************************************************)
\* Which step the handler of an event begins with.
Opens(kind) ==
    CASE kind \in {"cancels", "checkout", "summary"} -> "live"
      [] kind \in {"updated", "paid", "failed"} -> "read"
      [] OTHER -> "write"
\* What is begun before something of an earlier change is done. Expirations may be late,
\* and the administrator's requests have no place among the changes.
Overtakes(n) ==
    \E e \in events \cup {hook[g].event : g \in {x \in Hooks : hook[x].at # "rest"}} :
        e.id[1] < n /\ e.kind \notin {"expired", "approve", "revoke"}
Began(n) == past' = [past EXCEPT !.oddities = @ \cup If(Overtakes(n), "excepted")]
\* POST: the id of the event is inserted before its handler runs.
Receive(h, e) ==
    /\ hook[h].at = "rest" /\ e.id \notin seen /\ seen' = seen \cup {e.id}
    /\ hook' = [hook EXCEPT ![h] = [Rest EXCEPT !.at = Opens(e.kind), !.event = e, !.sub = e.sub]]
    /\ Began(e.id[1]) /\ UNCHANGED <<user, sub, invoices, store, creator, events>>
\* P2002: the event is answered, whatever becomes of the handler that has it.
Repeat(e) ==
    /\ e.id \in seen /\ events' = events \ {e}
    /\ UNCHANGED <<user, sub, invoices, store, creator, seen, hook, past>>

Goes(h, at) == hook' = [hook EXCEPT ![h].at = at]
Ends(h) ==
    /\ hook' = [hook EXCEPT ![h] = Rest]
    /\ events' = events \ {hook[h].event} /\ seen' = seen \ {hook[h].event.id}
\* subscriptions.retrieve; checkout.session.completed first links the customer and the
\* subscription to the row.
Retrieve(h) ==
    /\ hook[h].at = "live"
    /\ user' = IF hook[h].event.kind = "checkout" THEN [user EXCEPT !.sub = TRUE] ELSE user
    /\ hook' = [hook EXCEPT ![h].sub = sub,
                            ![h].at = IF hook[h].event.kind = "cancels" THEN "read" ELSE "write"]
    /\ UNCHANGED <<sub, invoices, store, creator, events, seen, past>>
\* syncSubscriptionUpdate and the invoice handlers read the row ...
Syncs(kind) == kind \in {"updated", "cancels", "resume"}
ReadRow(h) ==
    /\ hook[h].at = "read"
    /\ hook' = [hook EXCEPT ![h].row = user,
                            ![h].at = IF Syncs(hook[h].event.kind) /\ hook[h].sub.price > user.plan
                                      THEN "ask" ELSE "write"]
    /\ UNCHANGED <<user, sub, invoices, store, creator, events, seen, past>>
\* ... and an upgrade asks for its invoice: resolveLatestInvoice.
ResolveInvoice(h) ==
    /\ hook[h].at = "ask"
    /\ hook' = [hook EXCEPT ![h].settled = invoices[hook[h].sub.invoice].settled, ![h].at = "write"]
    /\ UNCHANGED <<user, sub, invoices, store, creator, events, seen, past>>

(***************************************************************************)
(* What a handler writes                                                   *)
(***************************************************************************)
PaidPlan(s) == IF s.status \in Entitled THEN s.price ELSE Free
\* upsertSubscriptionState: only a paid grant takes over a row of another provider.
StripeOwns(row) == row.provider \in {"stripe", "none"}
Upsert(s, p) == IF p \in Paid \/ StripeOwns(user) THEN StripeUser(p, s.status) ELSE user
\* Variant: an upgrade is written as soon as Stripe announces it.
SyncAtOnce(r) == Upsert(r.sub, PaidPlan(r.sub))
\* syncSubscriptionUpdate: a higher plan waits for its invoice; the plan that is paid
\* for stays, and the higher one is noted.
Sync(r) ==
    IF r.sub.price <= r.row.plan THEN Upsert(r.sub, PaidPlan(r.sub))
    ELSE IF r.settled /\ r.sub.status \notin Blocking THEN Upsert(r.sub, r.sub.price)
    ELSE IF user.plan = r.row.plan /\ StripeOwns(user) /\ StripeOwns(r.row)
    THEN [StripeUser(r.row.plan, IF r.row.plan # Free /\ r.sub.status \notin Entitled
                                 THEN "past_due" ELSE r.sub.status)
             EXCEPT !.pending = r.sub.price, !.invoice = r.sub.invoice]
    ELSE user

\* Only the invoice that was noted may grant a plan its lines do not name.
Noted(r) == r.row.invoice = r.event.invoice
HigherPlan(r) ==
    LET named == invoices[r.event.invoice].plan
    IN  IF named > r.row.plan THEN named
        ELSE IF Noted(r) /\ r.row.pending > r.row.plan THEN r.row.pending ELSE Free
\* applyPaidUpgradeInvoice: below that plan only, and never over the App Store.
PaidInvoice(r) ==
    IF r.row.provider = "apple" THEN user
    ELSE IF HigherPlan(r) = Free
    THEN IF Noted(r) /\ user.invoice = r.event.invoice
         THEN [user EXCEPT !.pending = Free, !.invoice = 0] ELSE user
    ELSE IF user.plan < HigherPlan(r) /\ user.provider # "apple"
    THEN StripeUser(HigherPlan(r), "active") ELSE user
\* noteUpgradePaymentFailed.
FailedInvoice(r) ==
    IF StripeOwns(r.row) /\ HigherPlan(r) # Free /\ user.plan = r.row.plan /\ StripeOwns(user)
    THEN [user EXCEPT !.pending = HigherPlan(r), !.invoice = r.event.invoice] ELSE user
\* handleSubscriptionDeleted leaves what is pending.
Deleted ==
    IF StripeOwns(user)
    THEN [FreeUser EXCEPT !.status = "canceled", !.pending = user.pending, !.invoice = user.invoice]
    ELSE user

\* grantAppleSubscription applies whatever the row says.
Granted(e) ==
    [user EXCEPT !.plan = e.plan, !.status = "active", !.provider = "apple", !.end = e.end]
\* Variant: an expiration ends the subscription, whichever period it belongs to.
ExpiresAlways(e) == user.provider = "apple"
\* downgradeAppleSubscription: an expiration that comes late spares a later period.
Expires(e) == user.provider = "apple" /\ (e.kind = "transferred" \/ user.end <= e.end)
StoreEnded(e) ==
    IF Expires(e)
    THEN [user EXCEPT !.plan = Free, !.status = "inactive", !.provider = "none", !.end = 0] ELSE user
\* handleBillingIssue.
Grace(e) == IF user.provider = "apple" THEN [user EXCEPT !.end = e.end] ELSE user
Issue    == IF user.provider = "apple" THEN [user EXCEPT !.status = "past_due"] ELSE user
\* revokeAffiliatePro.
Revoked ==
    IF user.provider = "affiliate"
    THEN [user EXCEPT !.plan = Free, !.status = "inactive", !.provider = "none"] ELSE user

Written(r) ==
    CASE Syncs(r.event.kind) -> Sync(r)
      [] r.event.kind \in {"checkout", "summary"} -> Upsert(r.sub, PaidPlan(r.sub))
      [] r.event.kind = "paid" -> PaidInvoice(r)
      [] r.event.kind = "failed" -> FailedInvoice(r)
      [] r.event.kind = "deleted" -> Deleted
      [] r.event.kind = "granted" -> Granted(r.event)
      [] r.event.kind \in {"expired", "transferred"} -> StoreEnded(r.event)
      [] r.event.kind = "grace" -> Grace(r.event)
      [] r.event.kind = "issue" -> Issue
      [] r.event.kind = "revoke" -> Revoked
\* A row that lost its paid plan may fall back to the creator's, and the mail of a
\* scheduled cancellation is sent before its event is answered.
After(r) ==
    IF r.event.kind = "deleted" /\ StripeOwns(user) THEN "restore"
    ELSE IF r.event.kind \in {"expired", "transferred"} /\ Expires(r.event) THEN "restore"
    ELSE IF r.event.kind = "cancels" THEN "mail" ELSE "rest"
Write(h) ==
    LET r == hook[h] IN
    /\ r.at = "write" /\ user' = Written(r)
    /\ IF After(r) = "rest" THEN Ends(h) ELSE Goes(h, After(r)) /\ UNCHANGED <<events, seen>>
    /\ past' = [past EXCEPT !.oddities = (@ \ If(r.event.kind = "summary", "legacy"))
                    \cup If(r.event.kind \in {"checkout", "summary"} /\ r.sub.price > r.sub.paid, "ahead")]
    /\ UNCHANGED <<sub, invoices, store, creator>>

(***************************************************************************)
(* The creator programme                                                   *)
(***************************************************************************)
\* restoreAffiliateProIfApproved.
Restore(h) ==
    /\ hook[h].at = "restore"
    /\ IF creator = "approved" THEN Goes(h, "grant") /\ UNCHANGED <<events, seen>> ELSE Ends(h)
    /\ UNCHANGED <<user, sub, invoices, store, creator, past>>
\* grantAffiliatePro: over the creator's own plan, or one that is not in good standing.
Grants == user.provider = "affiliate" \/ user.status # "active"
GrantCreator(h) ==
    /\ hook[h].at = "grant" /\ Ends(h)
    /\ user' = IF Grants THEN [user EXCEPT !.plan = Pro, !.status = "active", !.provider = "affiliate"]
               ELSE user
    /\ past' = [past EXCEPT !.oddities = @ \cup If(Grants /\ user.plan # Free /\ user.provider # "affiliate",
                                                   "excepted")]
    /\ UNCHANGED <<sub, invoices, store, creator>>
Mail(h) ==
    /\ hook[h].at = "mail" /\ Ends(h)
    /\ UNCHANGED <<user, sub, invoices, store, creator, past>>
\* POST /api/admin/affiliates/{id}: the application, then the row of the user.
Approve(h) ==
    /\ Moves /\ hook[h].at = "rest" /\ creator = "none" /\ creator' = "approved"
    /\ hook' = [hook EXCEPT ![h].at = "grant", ![h].event = Request("approve", Now)]
    /\ Changed(Pro, {}) /\ UNCHANGED <<user, sub, invoices, store, events, seen>>
Revoke(h) ==
    /\ Moves /\ hook[h].at = "rest" /\ creator = "approved" /\ creator' = "revoked"
    /\ hook' = [hook EXCEPT ![h].at = "write", ![h].event = Request("revoke", Now)]
    /\ Changed(Free, If(\E g \in Hooks : hook[g].at = "grant", "excepted"))
    /\ UNCHANGED <<user, sub, invoices, store, events, seen>>

(***************************************************************************)
(* Requests of the user, and failures                                      *)
(***************************************************************************)
\* POST /api/billing/resume.
Resume(h) ==
    /\ Moves /\ hook[h].at = "rest" /\ user.sub /\ user.provider # "apple"
    /\ Live(sub) /\ sub.cancels /\ sub' = [sub EXCEPT !.cancels = FALSE]
    /\ hook' = [hook EXCEPT ![h].at = "read", ![h].event = Request("resume", Now), ![h].sub = sub']
    /\ Tell({"updated"}, sub', 0, Free, 0)
    /\ Changed(Free, If(Overtakes(Now), "excepted")) /\ UNCHANGED <<user, invoices, store, creator, seen>>
\* restorePastDueEntitlement, when the billing summary is read.
ReadSummary(h) ==
    /\ hook[h].at = "rest" /\ user.provider = "stripe" /\ user.sub
    /\ user.status = "past_due" /\ user.plan = Free /\ user.pending = Free
    /\ hook' = [hook EXCEPT ![h].at = "live", ![h].event = Request("summary", past.changes)]
    /\ Began(past.changes) /\ UNCHANGED <<user, sub, invoices, store, creator, events, seen>>

MayFail == past.failures < MaxFailures /\ Moves
Failing(odd) == past' = [past EXCEPT !.failures = @ + 1, !.oddities = @ \cup odd]
Webhook(h) == hook[h].event.id \in seen
\* The handler raises: the id is removed and the event is delivered again, unless a
\* repetition was answered meanwhile. A second run finds nothing to downgrade, and so
\* nothing to restore, when the first one ended an App Store subscription.
Raises(h) ==
    /\ MayFail /\ hook[h].at # "rest" /\ Webhook(h)
    /\ seen' = seen \ {hook[h].event.id} /\ hook' = [hook EXCEPT ![h] = Rest]
    /\ Failing(If(hook[h].event \notin events, "excepted") \cup
               If(hook[h].at \in {"restore", "grant"}
                  /\ hook[h].event.kind \in {"expired", "transferred"}, "excepted"))
    /\ UNCHANGED <<user, sub, invoices, store, creator, events>>
\* The process dies: the id stays, and the next delivery is answered as a repetition.
Dies(h) ==
    /\ MayFail /\ hook[h].at # "rest" /\ hook' = [hook EXCEPT ![h] = Rest]
    /\ Failing({"excepted"}) /\ UNCHANGED <<user, sub, invoices, store, creator, events, seen>>

Next ==
    \/ \E p \in Paid : Checkout(p) \/ StoreGrants(p)
    \/ \E settled, named \in BOOLEAN : Upgrade(settled, named)
    \/ Downgrade \/ RenewalFails \/ Pay \/ RetriesOver \/ ScheduleCancellation \/ EndSubscription
    \/ \E grace \in BOOLEAN : StoreCannotBill(grace)
    \/ \E kind \in {"expired", "transferred"} : StoreEnds(kind)
    \/ \E e \in events : Repeat(e) \/ \E h \in Hooks : Receive(h, e)
    \/ \E h \in Hooks : Retrieve(h) \/ ReadRow(h) \/ ResolveInvoice(h) \/ Write(h) \/ Restore(h)
                        \/ GrantCreator(h) \/ Mail(h) \/ Approve(h) \/ Revoke(h) \/ Resume(h)
                        \/ ReadSummary(h) \/ Raises(h) \/ Dies(h)
Spec == Init /\ [][Next]_svars

(***************************************************************************)
(* Properties                                                              *)
(***************************************************************************)
TypeOK ==
    /\ user \in [plan : {Free} \cup Paid, status : {"none", "active", "past_due", "unpaid", "canceled", "inactive"},
                 provider : {"none", "stripe", "apple", "affiliate"}, sub : BOOLEAN,
                 pending : {Free} \cup Paid, invoice : 0..MaxChanges + 2, end : 0..MaxChanges + 1]
    /\ creator \in {"none", "approved", "revoked"}
    /\ past.changes \in 0..MaxChanges /\ past.top \in {Free} \cup Paid
    /\ \A h \in Hooks : hook[h].at \in {"rest", "live", "read", "ask", "write", "restore", "grant", "mail"}

\* What the user has paid for: Stripe's plan while it is entitled, and while an open
\* upgrade is all that is unpaid; else the App Store's; else the creator's, of which a
\* subscription whose retries are over may take the place.
StripePlan ==
    IF sub.status \in Entitled \/ (sub.status = "unpaid" /\ sub.paid < sub.price) THEN sub.paid ELSE Free
Owed ==
    IF StripePlan # Free THEN {StripePlan}
    ELSE IF store.plan # Free THEN {store.plan}
    ELSE IF creator # "approved" THEN {Free}
    ELSE IF sub.status = "unpaid" THEN {Free, Pro} ELSE {Pro}
Quiet == events = {} /\ \A h \in Hooks : hook[h].at = "rest"
\* No order of events gives a plan that was never paid for, but for a checkout that is
\* handled after an upgrade it reads from Stripe.
NoPlanUnpaid == user.plan <= past.top \/ "ahead" \in past.oddities
\* Once every event is answered, the row holds the plan that was paid for, however the
\* events of one change were ordered, repeated or retried; an event overtaken by a later
\* change, one lost with its process, two subscriptions at once and the overlaps noted
\* above are excepted.
PlansFollowPayments ==
    /\ Quiet /\ past.oddities = {} => user.plan \in Owed
    /\ NoPlanUnpaid

\* "A non-paid Stripe state must not clobber an entitlement owned by the App Store"
\* (stripe-subscription-sync.ts:139), nor a creator's; and "a retried/out-of-order
\* EXPIRATION must not revoke access that a later RENEWAL already extended".
OthersPlansStand ==
    [][/\ user.provider \in {"apple", "affiliate"} /\ user'.provider = "stripe" => user'.plan \in Paid
       /\ user.provider = "apple" /\ user'.provider = "none" /\ user.end = store.end
            => \E h \in Hooks : hook[h].event.kind = "transferred"]_svars
=============================================================================
