------------------------------ MODULE Deposits ------------------------------
(***************************************************************************)
(* Token deposits paid through Stripe Checkout.                            *)
(*                                                                         *)
(* A player opens a deposit and a checkout session; everything afterwards  *)
(* is told by Stripe's notifications, which arrive more than once, out of  *)
(* order and several at a time.  A notification is claimed in the table    *)
(* WebhookEvent, applied to the deposit and the wallet in one database     *)
(* transaction, and marked PROCESSED or FAILED.  The transactions of       *)
(* reverse and restoreDispute read the deposit without locking it and      *)
(* write what they computed from that read: reading and writing are two    *)
(* actions.  All deposits here belong to one player.                       *)
(***************************************************************************)
EXTENDS LedgerOps, Sequences, FiniteSets

CONSTANTS
    Deposits,       \* the player's deposits
    Amount,         \* the tokens each is worth
    Callers,        \* concurrent calls of create and cancel
    NoDeposit,      \* the job of an idle caller
    Openings,       \* the balances the player may start with
    Deliveries,     \* the regimes under which Stripe's notifications arrive
    MaxCrashes      \* bound on the handlers that die half way

ASSUME NoDepositAssumption == NoDeposit \notin Deposits
ASSUME AmountAssumption    == Amount \in [Deposits -> Nat \ {0}]
ASSUME OpeningsAssumption  == Openings \subseteq Int
ASSUME BoundAssumption     == MaxCrashes \in Nat

(* inOrder: a notification is delivered when all earlier ones are            *)
(* acknowledged.  handlers: bound on the notifications handled at the same   *)
(* time.  notices: bound on the notifications Stripe sends.                  *)
ASSUME DeliveriesAssumption ==
    Deliveries \subseteq [inOrder : BOOLEAN, handlers : Nat \ {0}, notices : Nat]

VARIABLES
    status,     \* Deposit.status; "NONE" before the row exists
    credited,   \* Deposit.creditedAt is not null
    refunded,   \* Deposit.refundedAmount
    disputed,   \* Deposit.disputedAmount
    session,    \* Deposit.stripeCheckoutSessionId is not null
    intent,     \* Deposit.stripePaymentIntentId is not null
    net,        \* sum of the ledger rows that reference the deposit
    balance,    \* User.balance
    pc, job,    \* the step and the deposit of each call of create or cancel
    reattached, \* history: deposits whose checkout two overlapping calls attached
    checkout,   \* Stripe: the checkout session
    returned,   \* Stripe: the part of the payment refunded
    dispute,    \* Stripe: the dispute of the payment
    sent,       \* Stripe: the notifications, in the order they were sent
    hook,       \* WebhookEvent.status of each notification
    stage,      \* the step of the handler of that notification
    read,       \* what that handler has read of the deposit
    crashes,    \* handlers that died
    delivery    \* the regime of this behaviour, chosen once

rowVars    == <<status, credited, refunded, disputed, session, intent>>
moneyVars  == <<net, balance>>
callVars   == <<pc, job, reattached>>
stripeVars == <<checkout, returned, dispute, sent>>
hookVars   == <<hook, stage, read, crashes, delivery>>
vars == <<rowVars, moneyVars, callVars, stripeVars, hookVars>>

Statuses == {"CREATED", "CHECKOUT_CREATED", "PROCESSING", "SUCCEEDED", "FAILED",
             "CANCELED", "PARTIALLY_REFUNDED", "REFUNDED", "DISPUTED"}

(* Notifications.  total is the cumulative amount of a refund or a dispute.  *)
SettleTypes  == {"completed", "async_succeeded", "intent_succeeded"}
DisputeTypes == {"dispute_created", "funds_withdrawn"}
RestoreTypes == {"closed_won", "funds_reinstated"}
OtherTypes   == {"completed_unpaid", "payment_failed", "expired", "closed_lost"}
Types == SettleTypes \cup DisputeTypes \cup RestoreTypes \cup OtherTypes \cup {"refunded"}

Notices(d) == [deposit : {d}, type : Types, total : 0 .. Amount[d]]
Sent == {sent[i] : i \in DOMAIN sent}

Nothing == [refunded |-> 0, disputed |-> 0]

TypeOK ==
    /\ status   \in [Deposits -> Statuses \cup {"NONE"}]
    /\ credited \in [Deposits -> BOOLEAN]
    /\ refunded \in [Deposits -> Nat]
    /\ disputed \in [Deposits -> Nat]
    /\ session  \in [Deposits -> BOOLEAN]
    /\ intent   \in [Deposits -> BOOLEAN]
    /\ net      \in [Deposits -> Int]
    /\ balance  \in Int
    /\ pc       \in [Callers -> {"idle", "opened", "answered", "expiring", "cancelling"}]
    /\ job      \in [Callers -> Deposits \cup {NoDeposit}]
    /\ reattached \subseteq Deposits
    /\ checkout \in [Deposits -> {"none", "open", "unpaid", "paid", "declined", "expired"}]
    /\ returned \in [Deposits -> Nat]
    /\ dispute  \in [Deposits -> {"none", "open", "won", "lost"}]
    /\ \A n \in Sent : n \in Notices(n.deposit)
    /\ DOMAIN hook = Sent /\ DOMAIN stage = Sent /\ DOMAIN read = Sent
    /\ \A n \in Sent : /\ hook[n]  \in {"none", "RECEIVED", "PROCESSED", "FAILED"}
                       /\ stage[n] \in {"idle", "claimed", "read", "applied", "threw"}
                       /\ read[n]  \in [refunded : Nat, disputed : Nat]
    /\ crashes \in 0 .. MaxCrashes
    /\ delivery \in Deliveries

Init ==
    /\ status   = [d \in Deposits |-> "NONE"]
    /\ credited = [d \in Deposits |-> FALSE]
    /\ refunded = [d \in Deposits |-> 0]
    /\ disputed = [d \in Deposits |-> 0]
    /\ session  = [d \in Deposits |-> FALSE]
    /\ intent   = [d \in Deposits |-> FALSE]
    /\ net      = [d \in Deposits |-> 0]
    /\ balance  \in Openings
    /\ pc       = [c \in Callers |-> "idle"]
    /\ job      = [c \in Callers |-> NoDeposit]
    /\ reattached = {}
    /\ checkout = [d \in Deposits |-> "none"]
    /\ returned = [d \in Deposits |-> 0]
    /\ dispute  = [d \in Deposits |-> "none"]
    /\ sent     = << >>
    /\ hook     = << >>
    /\ stage    = << >>
    /\ read     = << >>
    /\ crashes  = 0
    /\ delivery \in Deliveries
-----------------------------------------------------------------------------
(* The player's calls.                                                       *)

Step(c, from, to) ==
    /\ pc[c] = from
    /\ pc' = [pc EXCEPT ![c] = to]

Return(c, from) ==
    /\ Step(c, from, "idle")
    /\ job' = [job EXCEPT ![c] = NoDeposit]

(* createOrFind; a deposit that already has its session is answered at once. *)
Open(c, d) ==
    /\ ~session[d]
    /\ Step(c, "idle", "opened")
    /\ job' = [job EXCEPT ![c] = d]
    /\ status' = [status EXCEPT ![d] = IF @ = "NONE" THEN "CREATED" ELSE @]
    /\ UNCHANGED <<credited, refunded, disputed, session, intent, reattached>>
    /\ UNCHANGED <<moneyVars, stripeVars, hookVars>>

(* createCheckoutSession under the key deposit_{id}: Stripe opens one session*)
(* and answers every further call with the same one.                         *)
StripeOpensSession(c) ==
    LET d == job[c] IN
    /\ Step(c, "opened", "answered")
    /\ checkout' = [checkout EXCEPT ![d] = IF @ = "none" THEN "open" ELSE @]
    /\ UNCHANGED <<job, reattached, returned, dispute, sent, rowVars, moneyVars, hookVars>>

(* The call to Stripe fails; the row stays for the next attempt.             *)
StripeFails(c) ==
    /\ Return(c, "opened")
    /\ UNCHANGED <<reattached, rowVars, moneyVars, stripeVars, hookVars>>

(* attachCheckout, whose WHERE clause names only the id: a second call that  *)
(* also found no session writes over whatever has become of the deposit.     *)
(* Stripe may or may not have put a payment intent into its answer.          *)
AttachCheckout(c, given) ==
    LET d == job[c] IN
    /\ Return(c, "answered")
    /\ session' = [session EXCEPT ![d] = TRUE]
    /\ intent'  = [intent EXCEPT ![d] = given]
    /\ status'  = [status EXCEPT ![d] = "CHECKOUT_CREATED"]
    /\ reattached' = IF session[d] THEN reattached \cup {d} ELSE reattached
    /\ UNCHANGED <<credited, refunded, disputed, moneyVars, stripeVars, hookVars>>

(* cancel reads the deposit; one that is credited is answered as it is.      *)
StartCancel(c, d) ==
    /\ status[d] # "NONE"
    /\ ~credited[d]
    /\ Step(c, "idle", IF session[d] THEN "expiring" ELSE "cancelling")
    /\ job' = [job EXCEPT ![c] = d]
    /\ UNCHANGED <<reattached, rowVars, moneyVars, stripeVars, hookVars>>

-----------------------------------------------------------------------------
(* Stripe.                                                                   *)

Noted(ns, n) == IF \E i \in DOMAIN ns : ns[i] = n THEN ns ELSE Append(ns, n)

(* Stripe sends m, then n (the same one where it has only one to send), each *)
(* of them once (and delivers it until it is acknowledged).                  *)
Emit(m, n) ==
    LET all == Sent \cup {m, n}
    IN  /\ sent' = Noted(Noted(sent, m), n)
        /\ Len(sent') <= delivery.notices
        /\ hook'  = [k \in all |-> IF k \in Sent THEN hook[k] ELSE "none"]
        /\ stage' = [k \in all |-> IF k \in Sent THEN stage[k] ELSE "idle"]
        /\ read'  = [k \in all |-> IF k \in Sent THEN read[k] ELSE Nothing]
        /\ UNCHANGED <<crashes, delivery>>

EmitOne(n) == Emit(n, n)

Notice(d, type, total) == [deposit |-> d, type |-> type, total |-> total]

MoveCheckout(d, from, to) ==
    /\ checkout[d] \in from
    /\ checkout' = [checkout EXCEPT ![d] = to]

(* The player pays in the session whose URL the API returned.                *)
Pay(d) ==
    /\ session[d]
    /\ MoveCheckout(d, {"open"}, "paid")
    /\ Emit(Notice(d, "completed", 0), Notice(d, "intent_succeeded", 0))
    /\ UNCHANGED <<returned, dispute, rowVars, moneyVars, callVars>>

(* A delayed method: the session completes before the payment does.          *)
PayLater(d) ==
    /\ session[d]
    /\ MoveCheckout(d, {"open"}, "unpaid")
    /\ EmitOne(Notice(d, "completed_unpaid", 0))
    /\ UNCHANGED <<returned, dispute, rowVars, moneyVars, callVars>>

DelayedPaymentArrives(d) ==
    /\ MoveCheckout(d, {"unpaid"}, "paid")
    /\ Emit(Notice(d, "async_succeeded", 0), Notice(d, "intent_succeeded", 0))
    /\ UNCHANGED <<returned, dispute, rowVars, moneyVars, callVars>>

(* A declined card leaves the session open; a delayed payment is lost.       *)
PaymentFails(d) ==
    /\ session[d]
    /\ \/ MoveCheckout(d, {"open"}, "open")
       \/ MoveCheckout(d, {"unpaid"}, "declined")
    /\ EmitOne(Notice(d, "payment_failed", 0))
    /\ UNCHANGED <<returned, dispute, rowVars, moneyVars, callVars>>

(* The session runs out, or the cancel call c expires it.                    *)
SessionExpires(d) ==
    /\ MoveCheckout(d, {"open"}, "expired")
    /\ EmitOne(Notice(d, "expired", 0))
    /\ UNCHANGED <<returned, dispute, rowVars, moneyVars, callVars>>

ExpireSession(c) ==
    LET d == job[c] IN
    /\ Step(c, "expiring", "cancelling")
    /\ MoveCheckout(d, {"open"}, "expired")
    /\ EmitOne(Notice(d, "expired", 0))
    /\ UNCHANGED <<job, reattached, returned, dispute, rowVars, moneyVars>>

(* Stripe refuses to expire a session that is not open: the call fails.      *)
ExpireRefused(c) ==
    /\ Return(c, "expiring")
    /\ checkout[job[c]] # "open"
    /\ UNCHANGED <<reattached, rowVars, moneyVars, stripeVars, hookVars>>

(* markCanceled.                                                             *)
CancelIt(d) ==
    status' = [status EXCEPT ![d] = IF credited[d] THEN @ ELSE "CANCELED"]

MarkCanceled(c) ==
    /\ Return(c, "cancelling")
    /\ CancelIt(job[c])
    /\ UNCHANGED <<credited, refunded, disputed, session, intent, reattached>>
    /\ UNCHANGED <<moneyVars, stripeVars, hookVars>>

(* An operator refunds more of the payment at Stripe.                        *)
RefundAtStripe(d, total) ==
    /\ checkout[d] = "paid"
    /\ dispute[d] \in {"none", "won"}
    /\ returned[d] < total
    /\ returned' = [returned EXCEPT ![d] = total]
    /\ EmitOne(Notice(d, "refunded", total))
    /\ UNCHANGED <<checkout, dispute, rowVars, moneyVars, callVars>>

(* The cardholder disputes what is left of the payment.                      *)
DisputeAtStripe(d) ==
    LET total == Amount[d] - returned[d] IN
    /\ checkout[d] = "paid"
    /\ dispute[d] = "none"
    /\ total > 0
    /\ dispute' = [dispute EXCEPT ![d] = "open"]
    /\ Emit(Notice(d, "dispute_created", total), Notice(d, "funds_withdrawn", total))
    /\ UNCHANGED <<checkout, returned, rowVars, moneyVars, callVars>>

DisputeCloses(d, outcome) ==
    /\ dispute[d] = "open"
    /\ dispute' = [dispute EXCEPT ![d] = outcome]
    /\ IF outcome = "won" THEN Emit(Notice(d, "closed_won", 0), Notice(d, "funds_reinstated", 0))
                          ELSE EmitOne(Notice(d, "closed_lost", 0))
    /\ UNCHANGED <<checkout, returned, rowVars, moneyVars, callVars>>
-----------------------------------------------------------------------------
(* The webhook handler.                                                      *)

Busy(n) == stage[n] # "idle"

Before(m, n) == \E i, j \in DOMAIN sent : i < j /\ sent[i] = m /\ sent[j] = n

(* The handler of the notice died, and every redelivery is a duplicate.      *)
Lost(m) == hook[m] = "RECEIVED" /\ ~Busy(m)

(* Stripe got its 200: the notice was handled, or its handler died and the   *)
(* redelivery was taken for a duplicate.                                     *)
Answered(m) == hook[m] = "PROCESSED" \/ Lost(m)

(* claimStripeWebhook, under the regime of the behaviour.                   *)
Claim(n) ==
    /\ hook[n] \in {"none", "FAILED"}
    /\ ~Busy(n)
    /\ Cardinality({m \in Sent : Busy(m)}) < delivery.handlers
    /\ delivery.inOrder => \A m \in Sent : Before(m, n) => Answered(m)
    /\ hook'  = [hook EXCEPT ![n] = "RECEIVED"]
    /\ stage' = [stage EXCEPT ![n] = "claimed"]
    /\ UNCHANGED <<read, crashes, delivery, rowVars, moneyVars, callVars, stripeVars>>

Handled(n, from, to) ==
    /\ stage[n] = from
    /\ stage' = [stage EXCEPT ![n] = to]
    /\ UNCHANGED <<hook, crashes, delivery, callVars, stripeVars>>

(* The deposit is found by the id in the object's metadata, which a dispute  *)
(* does not carry, or by the payment intent the deposit has recorded.        *)
Found(n) == n.type \notin DisputeTypes \cup RestoreTypes \cup {"closed_lost"}
            \/ intent[n.deposit]

(* settle: the creditedAt of the row is claimed, the credit posted.          *)
SettleUnclaimed(n) ==    \* Mutation: creditedAt is not checked
    LET d == n.deposit IN
    /\ n.type \in SettleTypes
    /\ Recordable(balance, Amount[d])
    /\ Handled(n, "claimed", "applied")
    /\ credited' = [credited EXCEPT ![d] = TRUE]
    /\ status'   = [status EXCEPT ![d] = "SUCCEEDED"]
    /\ intent'   = [intent EXCEPT ![d] = TRUE]
    /\ net'      = [net EXCEPT ![d] = @ + Amount[d]]
    /\ balance'  = balance + Amount[d]
    /\ UNCHANGED <<refunded, disputed, session, read>>

SettleWhileOpen(n) ==    \* Mutation: a deposit marked FAILED or CANCELED is not settled
    LET d == n.deposit IN
    /\ n.type \in SettleTypes
    /\ status[d] \in {"CHECKOUT_CREATED", "PROCESSING"}
    /\ Recordable(balance, Amount[d])
    /\ Handled(n, "claimed", "applied")
    /\ credited' = [credited EXCEPT ![d] = TRUE]
    /\ status'   = [status EXCEPT ![d] = "SUCCEEDED"]
    /\ intent'   = [intent EXCEPT ![d] = TRUE]
    /\ net'      = [net EXCEPT ![d] = @ + Amount[d]]
    /\ balance'  = balance + Amount[d]
    /\ UNCHANGED <<refunded, disputed, session, read>>

Settle(n) ==
    LET d == n.deposit IN
    /\ n.type \in SettleTypes
    /\ ~credited[d]
    /\ Recordable(balance, Amount[d])
    /\ Handled(n, "claimed", "applied")
    /\ credited' = [credited EXCEPT ![d] = TRUE]
    /\ status'   = [status EXCEPT ![d] = "SUCCEEDED"]
    /\ intent'   = [intent EXCEPT ![d] = TRUE]
    /\ net'      = [net EXCEPT ![d] = @ + Amount[d]]
    /\ balance'  = balance + Amount[d]
    /\ UNCHANGED <<refunded, disputed, session, read>>

(* The wallet is below zero and recordLedgerEntry refuses the credit.        *)
SettleThrows(n) ==
    /\ n.type \in SettleTypes
    /\ ~credited[n.deposit]
    /\ ~Recordable(balance, Amount[n.deposit])
    /\ Handled(n, "claimed", "threw")
    /\ UNCHANGED <<rowVars, moneyVars, read>>

(* markProcessing, markFailed, markCanceled: only an uncredited row.         *)
NewStatus(n) ==
    CASE n.type = "completed_unpaid" -> "PROCESSING"
      [] n.type = "payment_failed"   -> "FAILED"
      [] n.type = "expired"          -> "CANCELED"

Mark(n) ==
    LET d == n.deposit IN
    /\ n.type \in {"completed_unpaid", "payment_failed", "expired"}
    /\ ~credited[d]
    /\ Handled(n, "claimed", "applied")
    /\ status' = [status EXCEPT ![d] = NewStatus(n)]
    /\ intent' = [intent EXCEPT ![d] = @ \/ n.type = "completed_unpaid"]
    /\ UNCHANGED <<credited, refunded, disputed, session, moneyVars, read>>

(* The read that opens the transactions of reverse and restoreDispute.       *)
Reverses(n) == n.type \in DisputeTypes \cup {"refunded"} /\ credited[n.deposit]
Restores(n) == n.type \in RestoreTypes

Read(n) ==
    LET d == n.deposit IN
    /\ Found(n)
    /\ Reverses(n) \/ Restores(n)
    /\ Handled(n, "claimed", "read")
    /\ read' = [read EXCEPT ![n] = [refunded |-> refunded[d], disputed |-> disputed[d]]]
    /\ UNCHANGED <<rowVars, moneyVars>>

(* What reverse computes from its read.                                      *)
Least(a, b) == IF a < b THEN a ELSE b
PreviousRefund(n) == read[n].refunded    \* Mutation: kind is not looked at
Previous(n) == IF n.type = "refunded" THEN read[n].refunded ELSE read[n].disputed
Capped(n) ==
    Least(n.total, Amount[n.deposit]
                   - (IF n.type = "refunded" THEN read[n].disputed ELSE read[n].refunded))
Delta(n) == Capped(n) - Previous(n)

ReversedStatus(n, r, x) ==
    IF n.type # "refunded" THEN "DISPUTED"
    ELSE IF r + x >= Amount[n.deposit] THEN "REFUNDED"
    ELSE "PARTIALLY_REFUNDED"

(* isPositive of a Decimal is TRUE of zero: a delta of zero is written too.  *)
Reverse(n) ==
    LET d == n.deposit
        r == IF n.type = "refunded" THEN Capped(n) ELSE read[n].refunded
        x == IF n.type = "refunded" THEN read[n].disputed ELSE Capped(n)
    IN
    /\ n.type \in DisputeTypes \cup {"refunded"}
    /\ Delta(n) >= 0
    /\ Handled(n, "read", "applied")
    /\ net'      = [net EXCEPT ![d] = @ - Delta(n)]
    /\ balance'  = balance - Delta(n)
    /\ refunded' = [refunded EXCEPT ![d] = r]
    /\ disputed' = [disputed EXCEPT ![d] = x]
    /\ status'   = [status EXCEPT ![d] = ReversedStatus(n, r, x)]
    /\ UNCHANGED <<credited, session, intent, read>>

RestoredStatus(n) ==
    IF read[n].refunded = 0 THEN "SUCCEEDED"
    ELSE IF read[n].refunded >= Amount[n.deposit] THEN "REFUNDED"
    ELSE "PARTIALLY_REFUNDED"

(* restoreDispute gives back the disputed amount it read (zero included).    *)
Restore(n) ==
    LET d == n.deposit IN
    /\ Restores(n)
    /\ Handled(n, "read", "applied")
    /\ net'      = [net EXCEPT ![d] = @ + read[n].disputed]
    /\ balance'  = balance + read[n].disputed
    /\ disputed' = [disputed EXCEPT ![d] = 0]
    /\ status'   = [status EXCEPT ![d] = RestoredStatus(n)]
    /\ UNCHANGED <<credited, refunded, session, intent, read>>

(* Nothing to do: already credited, not found, not credited yet, the total   *)
(* already reversed, or a lost dispute.                                      *)
Ignore(n) ==
    /\ \/ /\ stage[n] = "claimed"
          /\ \/ n.type \in SettleTypes \cup {"completed_unpaid", "payment_failed", "expired"}
                /\ credited[n.deposit]
             \/ n.type = "closed_lost"
             \/ ~Found(n)
             \/ n.type \in DisputeTypes \cup {"refunded"} /\ ~credited[n.deposit]
       \/ /\ stage[n] = "read"
          /\ n.type \in DisputeTypes \cup {"refunded"}
          /\ Delta(n) < 0
    /\ Handled(n, stage[n], "applied")
    /\ UNCHANGED <<rowVars, moneyVars, read>>

(* markStripeWebhookProcessed or markStripeWebhookFailed.                    *)
Finish(n) ==
    /\ stage[n] \in {"applied", "threw"}
    /\ hook'  = [hook EXCEPT ![n] = IF stage[n] = "threw" THEN "FAILED" ELSE "PROCESSED"]
    /\ stage' = [stage EXCEPT ![n] = "idle"]
    /\ read'  = [read EXCEPT ![n] = Nothing]
    /\ UNCHANGED <<crashes, delivery, rowVars, moneyVars, callVars, stripeVars>>

(* The process dies while it handles n: the event stays RECEIVED and every   *)
(* further delivery of it is taken for a duplicate.                          *)
Crash(n) ==
    /\ crashes < MaxCrashes
    /\ Busy(n)
    /\ crashes' = crashes + 1
    /\ stage' = [stage EXCEPT ![n] = "idle"]
    /\ read'  = [read EXCEPT ![n] = Nothing]
    /\ UNCHANGED <<hook, delivery, rowVars, moneyVars, callVars, stripeVars>>

-----------------------------------------------------------------------------
Call(c) ==
    \/ \E d \in Deposits : Open(c, d) \/ StartCancel(c, d)
    \/ StripeOpensSession(c)
    \/ StripeFails(c)
    \/ \E given \in BOOLEAN : AttachCheckout(c, given)
    \/ ExpireSession(c)
    \/ ExpireRefused(c)
    \/ MarkCanceled(c)

Stripe(d) ==
    \/ Pay(d)
    \/ PayLater(d)
    \/ DelayedPaymentArrives(d)
    \/ PaymentFails(d)
    \/ SessionExpires(d)
    \/ \E total \in 1 .. Amount[d] : RefundAtStripe(d, total)
    \/ DisputeAtStripe(d)
    \/ \E outcome \in {"won", "lost"} : DisputeCloses(d, outcome)

(* settleFromEvent, for a notice that says the money has come; one that says *)
(* it has not is marked PROCESSING.                                          *)
SettleFromEvent(n) == Settle(n) \/ SettleThrows(n)

Handle(n) ==
    \/ SettleFromEvent(n)
    \/ Mark(n)
    \/ Read(n)
    \/ Reverse(n)
    \/ Restore(n)
    \/ Ignore(n)
    \/ Finish(n)

Next ==
    \/ \E c \in Callers : Call(c)
    \/ \E d \in Deposits : Stripe(d)
    \/ \E n \in Sent : Claim(n) \/ Handle(n) \/ Crash(n)

Spec == Init /\ [][Next]_vars

(* Stripe delivers a notice again until it is acknowledged, and a handler    *)
(* that does not die comes to its end.                                       *)
Deliver(d)  == \E n \in Sent : n.deposit = d /\ Claim(n)
Progress(d) == \E n \in Sent : n.deposit = d /\ Handle(n)

Fairness == \A d \in Deposits : WF_vars(Deliver(d)) /\ WF_vars(Progress(d))
FairSpec == Spec /\ Fairness

-----------------------------------------------------------------------------
(* Properties.                                                               *)

(* As long as Stripe has taken nothing back, a deposit is worth its amount   *)
(* once or not at all, however many of its settlement notices are handled at *)
(* the same time (settle claims creditedAt in the UPDATE that sets it).      *)
CreditedExactlyOnce ==
    \A d \in Deposits :
        returned[d] = 0 /\ dispute[d] = "none"
        => net[d] = IF credited[d] THEN Amount[d] ELSE 0

OneAtATime == delivery.handlers = 1

(* The deposit row says what the ledger rows add up to, and never takes back *)
(* more than was credited, whatever the order of refund, dispute and         *)
(* settlement notices (reverse, restoreDispute).  Holds while notices are    *)
(* handled one at a time: two notices of one dispute handled at the same     *)
(* time both take its tokens.                                                *)
LedgerAgrees ==
    OneAtATime => \A d \in Deposits :
        /\ net[d] = (IF credited[d] THEN Amount[d] ELSE 0) - refunded[d] - disputed[d]
        /\ refunded[d] + disputed[d] <= Amount[d]
        /\ ~credited[d] => refunded[d] = 0 /\ disputed[d] = 0

(* What the player's payment is worth according to Stripe.                   *)
Worth(d) ==
    IF checkout[d] # "paid" \/ dispute[d] \in {"open", "lost"}
    THEN 0
    ELSE Amount[d] - returned[d]

Acknowledged(d) == \A n \in Sent : n.deposit = d => hook[n] = "PROCESSED"

(* Once every notice is acknowledged the tokens on the ledger are those the  *)
(* payment is worth at Stripe -- if notices come in order and one at a time  *)
(* (the API itself assumes nothing about order; out of order a won dispute   *)
(* may be withdrawn for good), and no second attachCheckout took the payment *)
(* intent, by which a dispute is found, away again.                          *)
BooksMatchStripe ==
    OneAtATime /\ delivery.inOrder =>
        \A d \in Deposits \ reattached : Acknowledged(d) => net[d] = Worth(d)

(* Stripe tells of every payment, every dispute and every won dispute twice: *)
(* what one dead handler of the deposit has missed, another learns.          *)
AtMostOneLost(d) ==
    \A m, n \in Sent : m.deposit = d /\ n.deposit = d /\ Lost(m) /\ Lost(n) => m = n

(* The status shown to the player tells the money: settled exactly when it   *)
(* was credited, DISPUTED exactly while tokens are withheld, SUCCEEDED only  *)
(* when nothing was taken back.  Same regime as BooksMatchStripe; whatever   *)
(* is redelivered or refused meanwhile, and one handler may die.             *)
StatusTellsTheMoney ==
    OneAtATime /\ delivery.inOrder => \A d \in Deposits \ reattached : AtMostOneLost(d) =>
        /\ credited[d] <=> status[d] \in {"SUCCEEDED", "PARTIALLY_REFUNDED", "REFUNDED", "DISPUTED"}
        /\ disputed[d] > 0 <=> status[d] = "DISPUTED"
        /\ status[d] = "SUCCEEDED" => refunded[d] = 0
        /\ status[d] = "REFUNDED" => refunded[d] = Amount[d]

(* What the player sees, what the ledger holds and what Stripe moved are one *)
(* account of the deposit, over any run of notices.                          *)
BooksAgree == TypeOK /\ LedgerAgrees /\ BooksMatchStripe /\ StatusTellsTheMoney

(* A paid deposit is credited in the end, although one handler may die half  *)
(* way and leave its notice RECEIVED: Stripe sends two settlement notices.   *)
(* A wallet in debt refuses the credit (settle, recordLedgerEntry).          *)
PaidIsCredited ==
    \A d \in Deposits : checkout[d] = "paid" ~> credited[d] \/ balance < 0
=============================================================================
