------------------------------ MODULE MCBilling ------------------------------
(* What a user is charged and what a user has paid for, side by side: the        *)
(* minutes of MinuteAllowance take the plan as it changes, SubscriptionSync says *)
(* how it comes to change. A behaviour is about one of the two.                  *)
EXTENDS MCMinuteAllowance

CONSTANTS Hooks, MaxChanges, MaxFailures

VARIABLES part, user, sub, invoices, store, creator, events, seen, hook, past

subscription == <<user, sub, invoices, store, creator, events, seen, hook, past>>
S == INSTANCE SubscriptionSync

BillingInit ==
    \/ part = "minutes" /\ Init /\ S!Gone
    \/ part = "plans" /\ Init /\ status = [t \in Tasks |-> "none"] /\ S!Init
BillingNext ==
    \/ part = "minutes" /\ Next /\ UNCHANGED <<part, subscription>>
    \/ part = "plans" /\ S!Next /\ UNCHANGED <<part, vars>>
BillingSpec == BillingInit /\ [][BillingNext]_<<part, vars, subscription>>

\* The row follows what the providers were paid; the webhooks of one do not take away
\* what another gives.
PlansFollowPayments == part = "plans" => S!TypeOK /\ S!PlansFollowPayments
OthersPlansStand    == S!OthersPlansStand
==============================================================================
