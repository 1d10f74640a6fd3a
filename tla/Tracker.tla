------------------------------- MODULE Tracker -------------------------------
(***************************************************************************)
(* What operators and players are shown of a payout: the rail and the      *)
(* buttons of the tracker, the badges of the prize table, the cards of the *)
(* overview and of the history, the player's own list.                     *)
(*                                                                         *)
(* Each view reads a few columns of three tables that a dozen transactions *)
(* write, and derives a statement about money from them.  The columns that *)
(* module Payouts has no use for are added here, each written by the       *)
(* transaction that its change of status stands for.                       *)
(***************************************************************************)
EXTENDS Payouts, FiniteSetsExt

VARIABLES approvedAt, processedAt, paidAt, blockerReason    \* not null, per payout

stampVars == <<approvedAt, processedAt, paidAt, blockerReason>>
trackedVars == <<vars, stampVars>>

TrackedInit ==
    /\ Init
    /\ approvedAt    = [p \in Payouts |-> FALSE]
    /\ processedAt   = [p \in Payouts |-> FALSE]
    /\ paidAt        = [p \in Payouts |-> FALSE]
    /\ blockerReason = [p \in Payouts |-> FALSE]

(* The transaction under way takes the payout from one status to another.    *)
Goes(p, from, to) == status[p] \in from /\ status'[p] = to /\ status[p] # to

(* approve.                                                                  *)
Approves(p) == Goes(p, ApprovableFrom, "APPROVED")

(* claimForProcessing; a resumed claim has its processedAt already.          *)
Claims(p) == Goes(p, {"APPROVED"}, "PROCESSING")

(* releaseAfterFailure.                                                      *)
Releases(p) == Goes(p, {"PROCESSING"}, "APPROVED")

(* markPaid.                                                                 *)
Pays(p) == Goes(p, {"PROCESSING", "APPROVED"}, "PAID")

FailsKeepingPaidAt(p) == FALSE    \* Mutation: markFailed leaves paidAt

(* markFailed.                                                               *)
Fails(p) == Goes(p, {"PROCESSING", "PAID"}, "FAILED")

(* create of a withdrawal: 'Awaiting admin review'.                          *)
Requests(p) == Goes(p, {"NONE"}, "PENDING_REVIEW")

(* cancel and cancelOwned leave the reason of the cancellation.              *)
Cancels(p) == Goes(p, PayoutStatus, "CANCELLED")

Stamp ==
    IF status' = status THEN UNCHANGED stampVars
    ELSE /\ approvedAt'    = [p \in Payouts |-> approvedAt[p] \/ Approves(p)]
         /\ processedAt'   = [p \in Payouts |-> Claims(p) \/ (processedAt[p] /\ ~Releases(p))]
         /\ paidAt'        = [p \in Payouts |-> Pays(p) \/ (paidAt[p] /\ ~Fails(p))]
         /\ blockerReason' = [p \in Payouts |-> \/ Requests(p) \/ Cancels(p)
                                                \/ blockerReason[p] /\ ~Approves(p)]

TrackedNext == Next /\ Stamp

TrackedSpec == TrackedInit /\ [][TrackedNext]_trackedVars
-----------------------------------------------------------------------------
(* One payout.                                                               *)

(* isPayable.  Every payout of the models is by STRIPE_CONNECT and positive. *)
IsPayable(p) == status[p] = "APPROVED" /\ verified[Owner[p]] /\ ~transferId[p]

(* resolveAdvanceAction.                                                     *)
AdvanceAction(p) ==
    IF IsPayable(p) THEN "PROCESS"
    ELSE IF status[p] \in ApprovableFrom THEN "APPROVE" ELSE "none"

(* TRACKER_STEPS: 1 PENDING_REVIEW, 2 IDENTITY_VERIFIED, 3 APPROVED,         *)
(* 4 PROCESSING, 5 SENT, 6 COMPLETED.                                        *)
Steps == 1 .. 6

(* completionFlags.                                                          *)
Done(p, i) ==
    \/ i = 1
    \/ /\ status[p] # "CANCELLED"
       /\ \/ i = 2 /\ verified[Owner[p]]
          \/ i = 3 /\ approvedAt[p]
          \/ i = 4 /\ processedAt[p]
          \/ i = 5 /\ paidAt[p]
          \/ i = 6 /\ settled[p]

(* toPayoutTrackerItem, which counts the steps that are done.                *)
Rail(p) ==
    LET done    == {i \in Steps : Done(p, i)}
        count   == Cardinality(done)
        blocked == status[p] \notin {"CANCELLED", "PAID"} /\ blockerReason[p]
    IN [i \in Steps |->
          IF (blocked /\ i = count + 1) \/ (status[p] = "FAILED" /\ i = 4) THEN "BLOCKED"
          ELSE IF i \notin done THEN "TODO"
          ELSE IF i = count /\ count < 6 THEN "CURRENT" ELSE "DONE"]

(* deriveDistributionStatus.                                                 *)
DistributionStatus(p) ==
    CASE status[p] = "PAID" -> "SENT"
      [] status[p] \in {"PENDING", "PENDING_REVIEW"} ->
            IF verified[Owner[p]] THEN "PENDING_REVIEW" ELSE "KYC_NEEDED"
      [] OTHER -> status[p]

(* toPlayerWithdrawal.                                                       *)
WithdrawalShown(p) ==
    IF wstatus[p] \in {"DECLINED", "CANCELLED"} THEN wstatus[p]
    ELSE IF status[p] = "PAID" /\ settled[p] THEN "SETTLED"
    ELSE status[p]
-----------------------------------------------------------------------------
(* The cards: which rows each of them counts or sums.                        *)

Outstanding == {p \in Payouts : status[p] \notin {"NONE", "PAID", "CANCELLED"}}

(* stats.                                                                    *)
Stats ==
    [paidOut     |-> {p \in Payouts : status[p] = "PAID"},
     pending     |-> {p \in Payouts : status[p] \in {"APPROVED", "PROCESSING"}},
     owed        |-> Outstanding,
     readyToSend |-> {p \in Payouts : /\ status[p] = "APPROVED" /\ ~transferId[p]
                                      /\ verified[Owner[p]]},
     blocked     |-> {p \in Outstanding : blockerReason[p] \/ status[p] = "PENDING_REVIEW"}]

(* trackerStats.                                                             *)
TrackerStats ==
    [inProcessing   |-> {p \in Payouts : status[p] = "PROCESSING"},
     awaitingAction |-> {p \in Outstanding : status[p] = "PENDING_REVIEW" \/ blockerReason[p]}]
-----------------------------------------------------------------------------
(* Properties.                                                               *)

(* The rail of a payout: SENT is done exactly for a payout that is PAID and  *)
(* has a transfer, never before its approval; COMPLETED only after SENT and  *)
(* when the money landed; the red mark is on what waits for a review and on  *)
(* what failed, not on what a decision has passed over.  Of a verified       *)
(* player the steps done come first and end in the current one.  (Not so     *)
(* when another call gave the payout back to APPROVED before this one        *)
(* recorded its transfer: then PROCESSING is missing beside SENT.)           *)
RailIsTrue ==
    \A p \in Payouts : status[p] # "NONE" =>
        LET rail == Rail(p)
            reached(i) == rail[i] \in {"DONE", "CURRENT"}
            red == \E i \in Steps : rail[i] = "BLOCKED"
        IN /\ reached(5) <=> status[p] = "PAID"
           /\ reached(5) => reached(3) /\ transferId[p]
           /\ reached(6) => reached(5) /\ transfer[p] = "landed"
           /\ status[p] = "PROCESSING" => reached(4)
           /\ red <=> \/ p \in Withdrawals /\ wstatus[p] = "PENDING_REVIEW"
                      \/ status[p] = "FAILED"
           /\ verified[Owner[p]] /\ ~red /\ (reached(5) => reached(4)) =>
                 /\ \A i \in 1 .. 5 : reached(i + 1) => rail[i] = "DONE"
                 /\ reached(6) \/ \E i \in Steps : rail[i] = "CURRENT"

(* The button of a row does what it says: Send is offered exactly where      *)
(* process would not refuse (but for the emergency stop and the recovery of  *)
(* a stale claim), and a row of a verified player without a button is either *)
(* at Stripe or came back from there and was approved once more, which       *)
(* nothing can move again.                                                   *)
ButtonsWork ==
    \A p \in Payouts :
        /\ AdvanceAction(p) = "PROCESS" <=> Processable(p) /\ status[p] = "APPROVED"
        /\ p \in Outstanding /\ AdvanceAction(p) = "none" /\ verified[Owner[p]]
             => status[p] = "PROCESSING" \/ (transferId[p] /\ transfer[p] = "returned")

(* What a player is told agrees with the wallet: declined, cancelled and     *)
(* failed withdrawals are back in it, and what is shown on its way, sent or  *)
(* settled is not; a prize is shown SENT when its row in the ledger is       *)
(* COMPLETED.                                                                *)
PlayersAreToldTheTruth ==
    /\ \A p \in Withdrawals :
          /\ WithdrawalShown(p) \in {"DECLINED", "CANCELLED", "FAILED"} => released[p]
          /\ WithdrawalShown(p) \in {"PENDING_REVIEW", "PROCESSING", "PAID", "SETTLED"}
               => ~released[p] /\ reservation[p] # "NONE"
    /\ \A p \in Prizes : DistributionStatus(p) = "SENT" <=> prizeRow[p] = "COMPLETED"

(* The cards add up across tables: what the overview calls paid out is what  *)
(* the ledger has as completed, what can be sent is what the rows offer to   *)
(* send, what is blocked on one page awaits an action on the other and is    *)
(* under review by the player's own list, and nothing that is owed and       *)
(* holds no tokens is anything but a returned transfer.                      *)
CardsAddUp ==
    LET cards == Stats
        track == TrackerStats
    IN /\ cards.paidOut = {p \in Prizes : prizeRow[p] = "COMPLETED"}
                          \cup {p \in Withdrawals : reservation[p] = "COMPLETED"}
       /\ cards.readyToSend = {p \in Payouts : AdvanceAction(p) = "PROCESS"}
       /\ cards.blocked = track.awaitingAction
       /\ cards.blocked = {p \in Withdrawals : WithdrawalShown(p) = "PENDING_REVIEW"}
       /\ track.inProcessing \subseteq cards.pending \cap cards.owed
       /\ \A p \in cards.owed \cap Withdrawals : Holding(p) \/ transfer[p] = "returned"

(* All that is shown of a payout, through every interleaving of decisions,   *)
(* calls to Stripe, failures and notices.                                    *)
ShownIsTrue == RailIsTrue /\ ButtonsWork /\ PlayersAreToldTheTruth /\ CardsAddUp
=============================================================================
