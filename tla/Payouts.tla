------------------------------- MODULE Payouts -------------------------------
(***************************************************************************)
(* Withdrawals, payouts and their Stripe transfers.                        *)
(*                                                                         *)
(* A player turns wallet tokens into a withdrawal request; the request     *)
(* reserves the tokens and opens a payout; an administrator approves and   *)
(* processes it; processing claims the payout, asks Stripe for a transfer  *)
(* under the idempotency key payout_{id} and records the result; Stripe's  *)
(* webhooks later confirm or revoke it.  Prize payouts follow the same     *)
(* path without a withdrawal behind them.                                  *)
(*                                                                         *)
(* One action is one database transaction, one call to Stripe, or one      *)
(* reaction of Stripe.  The read of a request handler and the transaction  *)
(* that follows it are separate actions wherever what was read is used     *)
(* later (process, the webhook handler); where the transaction repeats the *)
(* read in its WHERE clause the two are one action.                        *)
(***************************************************************************)
EXTENDS LedgerOps, Sums

CONSTANTS
    Users,          \* players
    Withdrawals,    \* withdrawal requests, each with its payout
    Prizes,         \* payouts that have no withdrawal request
    Workers,        \* concurrent calls of PayoutsService.process
    NoPayout,       \* the job of an idle worker
    Owner,          \* the player a payout belongs to
    Amount,         \* the tokens it is worth
    Opening,        \* the balance a player starts with
    OtherAmounts,   \* signed amounts other features post to the wallet
    MinBalance,     \* bound on the wallet, below
    MaxBalance      \* bound on the wallet, above

Payouts == Withdrawals \cup Prizes

ASSUME FiniteAssumption   == IsFiniteSet(Withdrawals)
ASSUME DisjointAssumption == Withdrawals \cap Prizes = {}
ASSUME NoPayoutAssumption == NoPayout \notin Payouts
ASSUME OwnerAssumption    == Owner \in [Payouts -> Users]
ASSUME AmountAssumption   == Amount \in [Payouts -> Nat \ {0}]
ASSUME OpeningAssumption  == Opening \in [Users -> Nat]
ASSUME BoundsAssumption   == /\ OtherAmounts \subseteq Int
                             /\ MinBalance \in Int
                             /\ MaxBalance \in Int

VARIABLES
    balance,      \* User.balance
    posted,       \* sum of the rows other features wrote for the player
    status,       \* Payout.status; "NONE" before the row exists
    transferId,   \* Payout.stripeTransferId is not null
    stale,        \* PROCESSING and processedAt at least 30 s old
    settled,      \* Payout.settledAt is not null
    wstatus,      \* WithdrawalRequest.status
    reservation,  \* status of the transaction withdrawal-reservation:...
    released,     \* WithdrawalRequest.releaseTransactionId is not null
    prizeRow,     \* status of the PRIZE transaction payout:{id}
    verified,     \* User.stripeAccountStatus = VERIFIED
    frozen,       \* setting payouts.frozen
    pc, job,      \* the step and the payout of each call of process
    transfer,     \* the transfer Stripe holds under the key payout_{id}
    event,        \* WebhookEvent.status of each Stripe event
    stage         \* the step of the handler of that event

rowVars     == <<status, transferId, stale, settled>>
moneyVars   == <<balance, posted, reservation, released, prizeRow>>
workerVars  == <<pc, job>>
controlVars == <<verified, frozen>>
eventVars   == <<event, stage>>
vars == <<rowVars, moneyVars, wstatus, workerVars, controlVars, transfer, eventVars>>

PayoutStatus == {"PENDING", "PENDING_REVIEW", "APPROVED", "PROCESSING",
                 "PAID", "FAILED", "CANCELLED"}
WithdrawalStatus == {"PENDING_REVIEW", "APPROVED", "DECLINED", "CANCELLED"}
RowStatus == {"PENDING", "COMPLETED", "REVERSED", "FAILED"}

(* Stripe's notifications about the transfer of a payout.                    *)
Events == Payouts \X {"transfer.paid", "transfer.failed"}

ApprovableFrom   == {"PENDING", "PENDING_REVIEW", "FAILED"}

(* Mutation: a payout in flight at Stripe may be cancelled.                  *)
CancellableInFlight == {"PENDING", "PENDING_REVIEW", "APPROVED", "PROCESSING", "FAILED"}

CancellableFrom  == {"PENDING", "PENDING_REVIEW", "APPROVED", "FAILED"}

TypeOK ==
    /\ balance     \in [Users -> Int]
    /\ posted      \in [Users -> Int]
    /\ status      \in [Payouts -> PayoutStatus \cup {"NONE"}]
    /\ transferId  \in [Payouts -> BOOLEAN]
    /\ stale       \in [Payouts -> BOOLEAN]
    /\ settled     \in [Payouts -> BOOLEAN]
    /\ wstatus     \in [Withdrawals -> WithdrawalStatus \cup {"NONE"}]
    /\ reservation \in [Withdrawals -> RowStatus \cup {"NONE"}]
    /\ released    \in [Withdrawals -> BOOLEAN]
    /\ prizeRow    \in [Prizes -> RowStatus \cup {"NONE"}]
    /\ verified    \in [Users -> BOOLEAN]
    /\ frozen      \in BOOLEAN
    /\ pc          \in [Workers -> {"idle", "checked", "claimed", "accepted", "refused"}]
    /\ job         \in [Workers -> Payouts \cup {NoPayout}]
    /\ transfer    \in [Payouts -> {"none", "sent", "landed", "returned"}]
    /\ event       \in [Events -> {"none", "RECEIVED", "PROCESSED", "FAILED"}]
    /\ stage       \in [Events -> {"idle", "claimed", "applied", "threw"}]

Init ==
    /\ balance     = Opening
    /\ posted      = [u \in Users |-> 0]
    /\ status      = [p \in Payouts |-> IF p \in Prizes THEN "PENDING" ELSE "NONE"]
    /\ transferId  = [p \in Payouts |-> FALSE]
    /\ stale       = [p \in Payouts |-> FALSE]
    /\ settled     = [p \in Payouts |-> FALSE]
    /\ wstatus     = [p \in Withdrawals |-> "NONE"]
    /\ reservation = [p \in Withdrawals |-> "NONE"]
    /\ released    = [p \in Withdrawals |-> FALSE]
    /\ prizeRow    = [p \in Prizes |-> "NONE"]
    /\ verified    = [u \in Users |-> TRUE]
    /\ frozen      = FALSE
    /\ pc          = [w \in Workers |-> "idle"]
    /\ job         = [w \in Workers |-> NoPayout]
    /\ transfer    = [p \in Payouts |-> "none"]
    /\ event       = [e \in Events |-> "none"]
    /\ stage       = [e \in Events |-> "idle"]
-----------------------------------------------------------------------------
(* Wallet.                                                                   *)

(* Any other feature's call of recordLedgerEntry: a fee, a purchase, a       *)
(* deposit.  forced is allowNegativeBalance, which a chargeback passes.      *)
OtherEntry(u, amount, forced) ==
    /\ forced \/ Recordable(balance[u], amount)
    /\ MinBalance <= balance[u] + amount
    /\ balance[u] + amount <= MaxBalance
    /\ balance' = [balance EXCEPT ![u] = @ + amount]
    /\ posted'  = [posted EXCEPT ![u] = @ + amount]
    /\ UNCHANGED <<reservation, released, prizeRow>>
    /\ UNCHANGED <<rowVars, wstatus, workerVars, controlVars, transfer, eventVars>>

(* The rows withdrawal-release:{id}: the tokens go back, the reservation     *)
(* reads REVERSED.  Refused (and the caller's transaction rolled back) when  *)
(* the wallet is below zero.                                                 *)
CanRelease(p) == Recordable(balance[Owner[p]], Amount[p])

(* A withdrawal whose releaseTransactionId is null stands behind the payout. *)
Holding(p) == p \in Withdrawals /\ ~released[p]

(* Mutation: the reservation is marked with a value the enum does not have.  *)
ReleaseReservationMistyped(p) ==
    /\ balance'     = [balance EXCEPT ![Owner[p]] = @ + Amount[p]]
    /\ released'    = [released EXCEPT ![p] = TRUE]
    /\ reservation' = [reservation EXCEPT ![p] = "RELEASED"]

ReleaseReservation(p) ==
    /\ balance'     = [balance EXCEPT ![Owner[p]] = @ + Amount[p]]
    /\ released'    = [released EXCEPT ![p] = TRUE]
    /\ reservation' = [reservation EXCEPT ![p] = "REVERSED"]

-----------------------------------------------------------------------------
(* The player.                                                               *)

(* PlayerWithdrawalsService.create and the repository's transaction.  The    *)
(* eligibility checks (identity, age, country, tax, fraud, no open dispute)  *)
(* are part of verified.                                                     *)
Request(p) ==
    /\ ~frozen
    /\ status[p] = "NONE"
    /\ verified[Owner[p]]
    /\ Recordable(balance[Owner[p]], -Amount[p])
    /\ balance'     = [balance EXCEPT ![Owner[p]] = @ - Amount[p]]
    /\ reservation' = [reservation EXCEPT ![p] = "PENDING"]
    /\ wstatus'     = [wstatus EXCEPT ![p] = "PENDING_REVIEW"]
    /\ status'      = [status EXCEPT ![p] = "PENDING_REVIEW"]
    /\ UNCHANGED <<posted, released, prizeRow, transferId, stale, settled>>
    /\ UNCHANGED <<workerVars, controlVars, transfer, eventVars>>

(* The player withdraws the request.  The payout is cancelled whatever its   *)
(* status is: only the request's own status guards the transaction.          *)
CancelOwned(p) ==
    /\ wstatus[p] = "PENDING_REVIEW"
    /\ ~released[p]
    /\ CanRelease(p)
    /\ ReleaseReservation(p)
    /\ wstatus' = [wstatus EXCEPT ![p] = "CANCELLED"]
    /\ status'  = [status EXCEPT ![p] = "CANCELLED"]
    /\ UNCHANGED <<posted, prizeRow, transferId, stale, settled>>
    /\ UNCHANGED <<workerVars, controlVars, transfer, eventVars>>

-----------------------------------------------------------------------------
(* The administrator.                                                        *)

(* Mutation: the second statement of the transaction is forgotten.           *)
ApprovePayoutOnly(p) ==
    /\ status[p] \in ApprovableFrom
    /\ status'  = [status EXCEPT ![p] = "APPROVED"]
    /\ UNCHANGED <<transferId, stale, settled, moneyVars, wstatus>>
    /\ UNCHANGED <<workerVars, controlVars, transfer, eventVars>>

Approve(p) ==
    /\ status[p] \in ApprovableFrom
    /\ status'  = [status EXCEPT ![p] = "APPROVED"]
    /\ wstatus' = [q \in Withdrawals |->
                     IF q = p /\ wstatus[q] = "PENDING_REVIEW"
                     THEN "APPROVED" ELSE wstatus[q]]
    /\ UNCHANGED <<transferId, stale, settled, moneyVars>>
    /\ UNCHANGED <<workerVars, controlVars, transfer, eventVars>>

(* A payout without an unreleased reservation only changes its status.       *)
CancelPlain(p) ==
    /\ ~Holding(p)
    /\ UNCHANGED <<moneyVars, wstatus>>

(* Mutation: the request is not checked for an earlier release.              *)
CancelAndReleaseAgain(p) ==
    /\ p \in Withdrawals
    /\ CanRelease(p)
    /\ ReleaseReservation(p)
    /\ wstatus' = [wstatus EXCEPT ![p] = "DECLINED"]
    /\ UNCHANGED <<posted, prizeRow>>

CancelAndRelease(p) ==
    /\ Holding(p)
    /\ CanRelease(p)
    /\ ReleaseReservation(p)
    /\ wstatus' = [wstatus EXCEPT ![p] = "DECLINED"]
    /\ UNCHANGED <<posted, prizeRow>>

Cancel(p) ==
    /\ status[p] \in CancellableFrom
    /\ status' = [status EXCEPT ![p] = "CANCELLED"]
    /\ CancelPlain(p) \/ CancelAndRelease(p)
    /\ UNCHANGED <<transferId, stale, settled>>
    /\ UNCHANGED <<workerVars, controlVars, transfer, eventVars>>

(* The emergency stop is thrown or cleared.                                  *)
ToggleFreeze ==
    /\ frozen' = ~frozen
    /\ UNCHANGED verified
    /\ UNCHANGED <<rowVars, moneyVars, wstatus, workerVars, transfer, eventVars>>

(* Webhook account.updated: Stripe restricts or restores the account.        *)
AccountUpdated(u) ==
    /\ verified' = [verified EXCEPT ![u] = ~@]
    /\ UNCHANGED frozen
    /\ UNCHANGED <<rowVars, moneyVars, wstatus, workerVars, transfer, eventVars>>

-----------------------------------------------------------------------------
(* PayoutsService.process, one step of a worker at a time.                   *)

(* assertProcessable on the row as it is read, recovery allowed.             *)
Processable(p) ==
    /\ ~transferId[p]
    /\ status[p] = "APPROVED" \/ (status[p] = "PROCESSING" /\ stale[p])
    /\ verified[Owner[p]]

Step(w, from, to) ==
    /\ pc[w] = from
    /\ pc' = [pc EXCEPT ![w] = to]

Return(w, from) ==
    /\ Step(w, from, "idle")
    /\ job' = [job EXCEPT ![w] = NoPayout]

(* The reads that open process: the payout, the emergency stop, the guards.  *)
StartProcess(w, p) ==
    /\ ~frozen
    /\ Processable(p)
    /\ Step(w, "idle", "checked")
    /\ job' = [job EXCEPT ![w] = p]
    /\ UNCHANGED <<rowVars, moneyVars, wstatus, controlVars, transfer, eventVars>>

(* The two conditional updates of claimForProcessing: a fresh claim of an    *)
(* approved payout, or the takeover of a stale one.                          *)
ClaimableBySentToo(p) == status[p] = "APPROVED"    \* Mutation: guard #2 dropped

Claimable(p) == ~transferId[p] /\ status[p] = "APPROVED"
Resumable(p) == ~transferId[p] /\ status[p] = "PROCESSING" /\ stale[p]

ClaimForProcessing(w) ==
    LET p == job[w] IN
    /\ Step(w, "checked", "claimed")
    /\ Claimable(p) \/ Resumable(p)
    /\ status' = [status EXCEPT ![p] = "PROCESSING"]
    /\ stale'  = [stale EXCEPT ![p] = FALSE]
    /\ UNCHANGED <<transferId, settled, job, moneyVars, wstatus, controlVars>>
    /\ UNCHANGED <<transfer, eventVars>>

NotClaimed(w) ==
    /\ Return(w, "checked")
    /\ ~Claimable(job[w]) /\ ~Resumable(job[w])
    /\ UNCHANGED <<rowVars, moneyVars, wstatus, controlVars, transfer, eventVars>>

(* Stripe creates the transfer, or returns the one it already holds for the  *)
(* idempotency key.                                                          *)
HoldTransfer(p) ==
    transfer' = [transfer EXCEPT ![p] = IF @ = "none" THEN "sent" ELSE @]

TransferAccepted(w) ==
    /\ Step(w, "claimed", "accepted")
    /\ HoldTransfer(job[w])
    /\ UNCHANGED <<rowVars, moneyVars, wstatus, job, controlVars, eventVars>>

(* Stripe accepted but its answer never arrived (the client gives up after   *)
(* 20 s and two retries).                                                    *)
TransferAnswerLost(w) ==
    /\ Step(w, "claimed", "refused")
    /\ HoldTransfer(job[w])
    /\ UNCHANGED <<rowVars, moneyVars, wstatus, job, controlVars, eventVars>>

(* Stripe declined, was not reached, or the recipient has no account.        *)
TransferRefused(w) ==
    /\ Step(w, "claimed", "refused")
    /\ UNCHANGED <<rowVars, moneyVars, wstatus, job, controlVars, transfer, eventVars>>

(* Whatever made createTransfer throw, the payout goes back to APPROVED.     *)
ReleaseAfterFailure(w) ==
    LET p == job[w] IN
    /\ Return(w, "refused")
    /\ IF status[p] = "PROCESSING"
       THEN /\ status' = [status EXCEPT ![p] = "APPROVED"]
            /\ stale'  = [stale EXCEPT ![p] = FALSE]
       ELSE UNCHANGED <<status, stale>>
    /\ UNCHANGED <<transferId, settled, moneyVars, wstatus, controlVars>>
    /\ UNCHANGED <<transfer, eventVars>>

(* The conditional update of markPaid.                                       *)
PayableWhenever(p) == ~transferId[p]    \* Mutation: the status is not checked

Payable(p) == status[p] \in {"PROCESSING", "APPROVED"} /\ ~transferId[p]

MarkPaid(w) ==
    LET p == job[w] IN
    /\ Return(w, "accepted")
    /\ Payable(p)
    /\ status'     = [status EXCEPT ![p] = "PAID"]
    /\ transferId' = [transferId EXCEPT ![p] = TRUE]
    /\ stale'      = [stale EXCEPT ![p] = FALSE]
    /\ reservation' = [q \in Withdrawals |-> IF q = p THEN "COMPLETED" ELSE reservation[q]]
    /\ prizeRow'    = [q \in Prizes |-> IF q = p THEN "COMPLETED" ELSE prizeRow[q]]
    /\ UNCHANGED <<settled, balance, posted, released, wstatus, controlVars>>
    /\ UNCHANGED <<transfer, eventVars>>

(* Another worker recorded the same transfer, or the payout is no longer     *)
(* payable: either way the call writes nothing.                              *)
MarkPaidLost(w) ==
    /\ Return(w, "accepted")
    /\ ~Payable(job[w])
    /\ UNCHANGED <<rowVars, moneyVars, wstatus, controlVars, transfer, eventVars>>

(* The process serving the call stops.                                       *)
Crash(w) ==
    /\ pc[w] # "idle"
    /\ Return(w, pc[w])
    /\ UNCHANGED <<rowVars, moneyVars, wstatus, controlVars, transfer, eventVars>>

(* PAYOUT_PROCESSING_RECOVERY_MS pass since processedAt.                     *)
Elapse(p) ==
    /\ status[p] = "PROCESSING"
    /\ ~stale[p]
    /\ stale' = [stale EXCEPT ![p] = TRUE]
    /\ UNCHANGED <<status, transferId, settled>>
    /\ UNCHANGED <<moneyVars, wstatus, workerVars, controlVars, transfer, eventVars>>

-----------------------------------------------------------------------------
(* Stripe settles or returns a transfer and notifies.                        *)

StripeResolves(p, outcome) ==
    /\ transfer[p] = "sent"
    /\ transfer' = [transfer EXCEPT ![p] = outcome]
    /\ UNCHANGED <<rowVars, moneyVars, wstatus, workerVars, controlVars, eventVars>>

Emitted(e) ==
    transfer[e[1]] = IF e[2] = "transfer.paid" THEN "landed" ELSE "returned"

(* claimStripeWebhook: the first delivery inserts the event, a redelivery    *)
(* takes over a FAILED one.  Every other delivery is a duplicate.            *)
ClaimEvent(e) ==
    /\ Emitted(e)
    /\ event[e] \in {"none", "FAILED"}
    /\ stage[e] = "idle"
    /\ event' = [event EXCEPT ![e] = "RECEIVED"]
    /\ stage' = [stage EXCEPT ![e] = "claimed"]
    /\ UNCHANGED <<rowVars, moneyVars, wstatus, workerVars, controlVars, transfer>>

Handled(e, to) ==
    /\ stage[e] = "claimed"
    /\ stage' = [stage EXCEPT ![e] = to]
    /\ UNCHANGED <<event, workerVars, controlVars, transfer>>

(* transfer.paid: markSettled.                                               *)
MarkSettled(p) ==
    LET e == <<p, "transfer.paid">> IN
    /\ Handled(e, "applied")
    /\ settled' = [settled EXCEPT ![p] = @ \/ (transferId[p] /\ status[p] = "PAID")]
    /\ UNCHANGED <<status, transferId, stale, moneyVars, wstatus>>

(* transfer.failed finds a payout by the transfer id it recorded.            *)
Failable(p) == transferId[p] /\ status[p] \in {"PROCESSING", "PAID"}

(* Mutation: the history row of a prize is left COMPLETED.                   *)
FailRowsKeepingHistory(p) ==
    /\ status'   = [status EXCEPT ![p] = "FAILED"]
    /\ settled'  = [settled EXCEPT ![p] = FALSE]
    /\ UNCHANGED <<prizeRow, transferId, stale, wstatus, posted>>

(* Mutation: a failed payout forgets its transfer, to be sent once more.     *)
FailRowsForgettingTransfer(p) ==
    /\ status'     = [status EXCEPT ![p] = "FAILED"]
    /\ transferId' = [transferId EXCEPT ![p] = FALSE]
    /\ settled'    = [settled EXCEPT ![p] = FALSE]
    /\ prizeRow'   = [q \in Prizes |->
                        IF q = p /\ prizeRow[q] # "NONE" THEN "FAILED" ELSE prizeRow[q]]
    /\ UNCHANGED <<stale, wstatus, posted>>

FailRows(p) ==
    /\ status'   = [status EXCEPT ![p] = "FAILED"]
    /\ settled'  = [settled EXCEPT ![p] = FALSE]
    /\ prizeRow' = [q \in Prizes |->
                      IF q = p /\ prizeRow[q] # "NONE" THEN "FAILED" ELSE prizeRow[q]]
    /\ UNCHANGED <<transferId, stale, wstatus, posted>>

MarkFailedAndRelease(p) ==
    /\ Failable(p) /\ Holding(p) /\ CanRelease(p)
    /\ Handled(<<p, "transfer.failed">>, "applied")
    /\ FailRows(p)
    /\ ReleaseReservation(p)

MarkFailedPlain(p) ==
    /\ Failable(p) /\ ~Holding(p)
    /\ Handled(<<p, "transfer.failed">>, "applied")
    /\ FailRows(p)
    /\ UNCHANGED <<balance, released, reservation>>

(* The release is refused: the transaction rolls back and the handler throws.*)
MarkFailedThrows(p) ==
    /\ Failable(p) /\ Holding(p) /\ ~CanRelease(p)
    /\ Handled(<<p, "transfer.failed">>, "threw")
    /\ UNCHANGED <<rowVars, moneyVars, wstatus>>

(* No payout records that transfer, or it is not PAID: nothing to do.        *)
MarkFailedIgnored(p) ==
    /\ ~Failable(p)
    /\ Handled(<<p, "transfer.failed">>, "applied")
    /\ UNCHANGED <<rowVars, moneyVars, wstatus>>

MarkFailed(p) ==
    \/ MarkFailedAndRelease(p)
    \/ MarkFailedPlain(p)
    \/ MarkFailedThrows(p)
    \/ MarkFailedIgnored(p)

(* markStripeWebhookProcessed or markStripeWebhookFailed.                    *)
FinishEvent(e) ==
    /\ stage[e] \in {"applied", "threw"}
    /\ event' = [event EXCEPT ![e] = IF stage[e] = "threw" THEN "FAILED" ELSE "PROCESSED"]
    /\ stage' = [stage EXCEPT ![e] = "idle"]
    /\ UNCHANGED <<rowVars, moneyVars, wstatus, workerVars, controlVars, transfer>>

(* The process stops while it handles the event: the row stays RECEIVED.     *)
CrashHandler(e) ==
    /\ stage[e] # "idle"
    /\ stage' = [stage EXCEPT ![e] = "idle"]
    /\ UNCHANGED <<event, rowVars, moneyVars, wstatus, workerVars, controlVars, transfer>>

-----------------------------------------------------------------------------
Player == \E p \in Withdrawals : Request(p) \/ CancelOwned(p)

Administrator ==
    \/ \E p \in Payouts : Approve(p) \/ Cancel(p)
    \/ ToggleFreeze

Process(w) ==
    \/ \E p \in Payouts : StartProcess(w, p)
    \/ ClaimForProcessing(w)
    \/ NotClaimed(w)
    \/ TransferAccepted(w)
    \/ TransferAnswerLost(w)
    \/ TransferRefused(w)
    \/ ReleaseAfterFailure(w)
    \/ MarkPaid(w)
    \/ MarkPaidLost(w)
    \/ Crash(w)

Webhook ==
    \/ \E p \in Payouts : MarkSettled(p) \/ MarkFailed(p)
    \/ \E e \in Events : ClaimEvent(e) \/ FinishEvent(e) \/ CrashHandler(e)

Environment ==
    \/ \E u \in Users, a \in OtherAmounts, forced \in BOOLEAN : OtherEntry(u, a, forced)
    \/ \E u \in Users : AccountUpdated(u)
    \/ \E p \in Payouts : Elapse(p)
    \/ \E p \in Payouts, o \in {"landed", "returned"} : StripeResolves(p, o)

Next ==
    \/ Player
    \/ Administrator
    \/ \E w \in Workers : Process(w)
    \/ Webhook
    \/ Environment

Spec == Init /\ [][Next]_vars

-----------------------------------------------------------------------------
(* Where the tokens of a withdrawal are, as Custody sees it.                 *)
Place(p) ==
    IF status[p] = "NONE" THEN "player"
    ELSE IF status[p] = "PAID" THEN "paid"
    ELSE IF released[p] THEN "returned"
    ELSE "held"

C == INSTANCE Custody WITH
        Requests <- Withdrawals,
        wallet   <- balance,
        other    <- posted,
        place    <- [p \in Withdrawals |-> Place(p)]

(* Payouts implements Custody: through every interleaving of players,        *)
(* administrators, workers, Stripe and its webhooks, tokens leave the wallet *)
(* once per request, come back at most once, and what came back is never     *)
(* paid out afterwards.                                                      *)
ImplementsCustody == C!CustodySpec

-----------------------------------------------------------------------------
(* Properties.                                                               *)

(* The payout's record and the request's record move together although four  *)
(* different transactions write them: a request is under review exactly when *)
(* its payout is, and a request that was declined or cancelled has a         *)
(* cancelled payout and its tokens back.  CancelOwned relies on this: it     *)
(* overwrites the payout's status without looking at it                      *)
(* (player-withdrawals.repository.ts, cancelOwned).                          *)
RequestAndPayoutAgree ==
    \A p \in Withdrawals :
        /\ wstatus[p] = "NONE" <=> status[p] = "NONE"
        /\ wstatus[p] = "PENDING_REVIEW" <=> status[p] = "PENDING_REVIEW"
        /\ wstatus[p] \in {"DECLINED", "CANCELLED"} => status[p] = "CANCELLED" /\ released[p]
        /\ status[p] = "CANCELLED" => released[p]

(* Tokens that went back to the wallet are not paid out as well: no payout   *)
(* whose reservation was released is or becomes PAID, although a FAILED      *)
(* payout may be approved again (claimForProcessing, markPaid, markFailed).  *)
ReleasedIsNeverPaid ==
    \A p \in Withdrawals :
        released[p] => /\ status[p] \notin {"PROCESSING", "PAID"}
                       /\ status[p] = "CANCELLED" \/ transferId[p]

(* What a payout records about Stripe is true of Stripe, and the ledger rows *)
(* agree with it: a PAID payout has a transfer, its reservation or prize row *)
(* is COMPLETED, and a reservation reads REVERSED exactly when it was given  *)
(* back (markPaid, markFailed, cancel).                                      *)
RecordMatchesTransfer ==
    \A p \in Payouts :
        /\ transferId[p] => transfer[p] # "none"
        /\ status[p] = "PAID" => transferId[p]
        /\ settled[p] => status[p] = "PAID" /\ transfer[p] = "landed"
        /\ p \in Withdrawals =>
              /\ status[p] = "PAID" => reservation[p] = "COMPLETED"
              /\ released[p] <=> reservation[p] = "REVERSED"
        /\ p \in Prizes => (status[p] = "PAID" <=> prizeRow[p] = "COMPLETED")

(* What the others rest on.  A call of process past its reads has a payout,  *)
(* and one that was answered has a transfer; a notice being handled is of a  *)
(* transfer that landed or came back; a withdrawal under review holds its    *)
(* tokens, and one that records a transfer is PAID or has been given back.   *)
Bookkeeping ==
    /\ \A w \in Workers :
          /\ pc[w] # "idle" => job[w] \in Payouts
          /\ pc[w] = "accepted" => transfer[job[w]] # "none"
    /\ \A e \in Events : stage[e] # "idle" => Emitted(e)
    /\ \A p \in Withdrawals :
          /\ status[p] # "PENDING"
          /\ status[p] = "PENDING_REVIEW" => ~released[p]
          /\ status[p] = "NONE" <=> reservation[p] = "NONE"
          /\ transferId[p] => status[p] = "PAID" \/ released[p]

(* The tokens of the withdrawals whose reservation stands.                   *)
Held(u) == {p \in Withdrawals : Owner[p] = u /\ reservation[p] # "NONE" /\ ~released[p]}

TokensOf(S) == SumOver(Amount, S)

(* Conservation: a wallet holds what the player started with, plus what      *)
(* other features posted, less the standing reservations -- whatever mix of  *)
(* cancels, declines, failures, retries and webhooks has happened.           *)
Conservation ==
    \A u \in Users : balance[u] = Opening[u] + posted[u] - TokensOf(Held(u))

(* A payout that may be at Stripe is never cancelled, neither by an          *)
(* administrator nor by the player's own cancellation (payout-status.ts: no  *)
(* route from PROCESSING back to CANCELLED), and CANCELLED is final.         *)
CancelOnlyAtRest ==
    [][\A p \in Payouts :
         /\ status[p] \in {"PROCESSING", "PAID"} => status'[p] # "CANCELLED"
         /\ status[p] = "CANCELLED" => status'[p] = "CANCELLED"]_vars

(* The transfer id, once recorded, is never lost: it is what keeps a failed  *)
(* payout from being sent a second time.  A PAID payout leaves that status   *)
(* only for FAILED and only when its own transfer came back, and only then   *)
(* is a settlement taken back (markPaid, markFailed).                        *)
TransferIsRemembered ==
    [][\A p \in Payouts :
         /\ transferId[p] => transferId'[p]
         /\ status[p] = "PAID" /\ status'[p] # "PAID"
              => status'[p] = "FAILED" /\ transfer[p] = "returned"
         /\ settled[p] /\ ~settled'[p] => status'[p] = "FAILED"]_vars

(* payout-status.ts: once a transfer is in flight at Stripe, cancelling      *)
(* locally would leave the money moved and the record denying it.            *)
CancelledWasNotSent ==
    \A p \in Payouts : status[p] = "CANCELLED" => transfer[p] \in {"none", "returned"}
=============================================================================
