--------------------------- MODULE Payouts_proofs ---------------------------
(***************************************************************************)
(* Proofs about Payouts and what Tracker shows of them, for any players,   *)
(* withdrawals, prizes, amounts and any number of concurrent calls of      *)
(* process.                                                                *)
(***************************************************************************)
EXTENDS Tracker, Sums_proofs

(* The inductive invariant: the record properties and what they rest on.     *)
PayoutsInv ==
    /\ TypeOK
    /\ RequestAndPayoutAgree
    /\ ReleasedIsNeverPaid
    /\ RecordMatchesTransfer
    /\ Bookkeeping

(* The invariant holds initially.                                            *)
LEMMA InitInv == Init => PayoutsInv
<1> SUFFICES ASSUME Init PROVE PayoutsInv
  OBVIOUS
<1>1. TypeOK
  <2>1. balance \in [Users -> Int] /\ posted \in [Users -> Int]
    BY OpeningAssumption DEF Init
  <2>2. /\ status \in [Payouts -> PayoutStatus \cup {"NONE"}]
        /\ wstatus \in [Withdrawals -> WithdrawalStatus \cup {"NONE"}]
    BY DEF Init, PayoutStatus
  <2>3. /\ reservation \in [Withdrawals -> RowStatus \cup {"NONE"}]
        /\ prizeRow \in [Prizes -> RowStatus \cup {"NONE"}]
    BY DEF Init
  <2> QED BY <2>1, <2>2, <2>3 DEF Init, TypeOK
<1>2. RequestAndPayoutAgree
  BY DisjointAssumption DEF Init, RequestAndPayoutAgree, Payouts
<1>3. ReleasedIsNeverPaid
  BY DEF Init, ReleasedIsNeverPaid
<1>4. RecordMatchesTransfer
  BY DEF Init, RecordMatchesTransfer, Payouts
<1>5. Bookkeeping
  BY DisjointAssumption DEF Init, Bookkeeping, Payouts
<1> QED BY <1>1, <1>2, <1>3, <1>4, <1>5 DEF PayoutsInv

(* A release moves the amount to its owner and keeps every type.            *)
LEMMA ReleaseTypes ==
    ASSUME TypeOK, NEW p \in Withdrawals, ReleaseReservation(p)
    PROVE  /\ balance' \in [Users -> Int]
           /\ released' \in [Withdrawals -> BOOLEAN]
           /\ reservation' \in [Withdrawals -> RowStatus \cup {"NONE"}]
<1>1. Owner[p] \in Users /\ Amount[p] \in Int
  BY OwnerAssumption, AmountAssumption DEF Payouts
<1>2. balance[Owner[p]] + Amount[p] \in Int
  BY <1>1 DEF TypeOK
<1> QED BY <1>2 DEF TypeOK, ReleaseReservation, RowStatus

(* OtherEntry keeps the invariant.                                           *)
LEMMA OtherEntryInv ==
    ASSUME PayoutsInv, NEW u \in Users, NEW a \in OtherAmounts, NEW forced \in BOOLEAN, OtherEntry(u, a, forced)
    PROVE  PayoutsInv'
<1> USE DEF PayoutsInv
<1>1. TypeOK'
  BY BoundsAssumption
  DEF TypeOK, PayoutStatus, WithdrawalStatus, RowStatus, OtherEntry, controlVars, eventVars,
     rowVars, workerVars
<1>2. RequestAndPayoutAgree'
  BY DEF RequestAndPayoutAgree, OtherEntry, controlVars, eventVars, rowVars, workerVars
<1>3. ReleasedIsNeverPaid'
  BY DEF ReleasedIsNeverPaid, OtherEntry, controlVars, eventVars, rowVars, workerVars
<1>4. RecordMatchesTransfer'
  BY DEF RecordMatchesTransfer, OtherEntry, controlVars, eventVars, rowVars, workerVars
<1>5. Bookkeeping'
  BY DEF Bookkeeping, Emitted, OtherEntry, controlVars, eventVars, rowVars, workerVars
<1> QED BY <1>1, <1>2, <1>3, <1>4, <1>5

(* Request keeps the invariant.                                              *)
LEMMA RequestInv ==
    ASSUME PayoutsInv, NEW p \in Withdrawals, Request(p)
    PROVE  PayoutsInv'
<1> USE DEF PayoutsInv
<1>1. TypeOK'
  <2>1. Owner[p] \in Users /\ Amount[p] \in Int
    BY OwnerAssumption, AmountAssumption DEF Payouts
  <2>2. balance[Owner[p]] - Amount[p] \in Int
    BY <2>1 DEF TypeOK, Request, controlVars, eventVars, workerVars
  <2> QED BY <2>2
          DEF TypeOK, PayoutStatus, WithdrawalStatus, RowStatus, Request, rowVars, moneyVars,
             workerVars, controlVars, eventVars, Payouts
<1>2. RequestAndPayoutAgree'
  BY DEF TypeOK, RequestAndPayoutAgree, Payouts, Request, controlVars, eventVars, workerVars
<1>3. ReleasedIsNeverPaid'
  BY DEF ReleasedIsNeverPaid, Request, controlVars, eventVars, workerVars
<1>4. RecordMatchesTransfer'
  BY DEF TypeOK, RecordMatchesTransfer, Bookkeeping, Payouts, Request, controlVars, eventVars,
     workerVars
<1>5. Bookkeeping'
  BY DEF TypeOK, Bookkeeping, RecordMatchesTransfer, Emitted, Payouts, Request, controlVars,
     eventVars, workerVars
<1> QED BY <1>1, <1>2, <1>3, <1>4, <1>5

(* CancelOwned keeps the invariant.                                          *)
LEMMA CancelOwnedInv ==
    ASSUME PayoutsInv, NEW p \in Withdrawals, CancelOwned(p)
    PROVE  PayoutsInv'
<1> USE DEF PayoutsInv
<1>1. TypeOK'
  BY ReleaseTypes, BoundsAssumption
  DEF TypeOK, PayoutStatus, WithdrawalStatus, RowStatus, CancelOwned, ReleaseReservation,
     controlVars, eventVars, workerVars
<1>2. RequestAndPayoutAgree'
  BY DEF TypeOK, RequestAndPayoutAgree, Payouts, CancelOwned, ReleaseReservation, controlVars,
     eventVars, workerVars
<1>3. ReleasedIsNeverPaid'
  BY DEF TypeOK, ReleasedIsNeverPaid, Payouts, CancelOwned, ReleaseReservation, controlVars,
     eventVars, workerVars
<1>4. RecordMatchesTransfer'
  BY DEF TypeOK, RecordMatchesTransfer, RequestAndPayoutAgree, Payouts, CancelOwned,
     ReleaseReservation, controlVars, eventVars, workerVars
<1>5. Bookkeeping'
  BY DEF TypeOK, Bookkeeping, Emitted, Payouts, CancelOwned, ReleaseReservation, controlVars,
     eventVars, workerVars
<1> QED BY <1>1, <1>2, <1>3, <1>4, <1>5

(* Approve keeps the invariant.                                              *)
LEMMA ApproveInv ==
    ASSUME PayoutsInv, NEW p \in Payouts, Approve(p)
    PROVE  PayoutsInv'
<1> USE DEF PayoutsInv
<1>1. TypeOK'
  BY BoundsAssumption
  DEF TypeOK, PayoutStatus, WithdrawalStatus, RowStatus, Approve, ApprovableFrom, controlVars,
     eventVars, moneyVars, workerVars
<1>2. RequestAndPayoutAgree'
  BY DEF TypeOK, RequestAndPayoutAgree, Approve, ApprovableFrom, controlVars, eventVars,
     moneyVars, workerVars
<1>3. ReleasedIsNeverPaid'
  BY DEF ReleasedIsNeverPaid, Approve, ApprovableFrom, controlVars, eventVars, moneyVars,
     workerVars
<1>4. RecordMatchesTransfer'
  BY DEF RecordMatchesTransfer, Approve, ApprovableFrom, controlVars, eventVars, moneyVars,
     workerVars
<1>5. Bookkeeping'
  BY DEF Bookkeeping, Emitted, Approve, ApprovableFrom, controlVars, eventVars, moneyVars,
     workerVars
<1> QED BY <1>1, <1>2, <1>3, <1>4, <1>5

(* Cancel keeps the invariant.                                               *)
LEMMA CancelInv ==
    ASSUME PayoutsInv, NEW p \in Payouts, Cancel(p)
    PROVE  PayoutsInv'
<1> USE DEF PayoutsInv
<1>1. TypeOK'
  <2>1. CASE CancelPlain(p)
    BY <2>1
    DEF TypeOK, PayoutStatus, Cancel, CancelAndRelease, CancelPlain, CancellableFrom,
       controlVars, eventVars, workerVars, Holding, ReleaseReservation, moneyVars
  <2>2. CASE CancelAndRelease(p)
    BY <2>2, ReleaseTypes
    DEF TypeOK, PayoutStatus, WithdrawalStatus, Cancel, CancelAndRelease, CancelPlain,
       CancellableFrom, controlVars, eventVars, workerVars, Holding, ReleaseReservation, moneyVars
  <2> QED BY <2>1, <2>2 DEF Cancel
<1>2. RequestAndPayoutAgree'
  <2>1. CASE CancelPlain(p)
    BY <2>1
    DEF TypeOK, RequestAndPayoutAgree, Bookkeeping, Payouts, Cancel, CancelAndRelease,
       CancelPlain, CancellableFrom, controlVars, eventVars, workerVars, Holding,
       ReleaseReservation, moneyVars
  <2>2. CASE CancelAndRelease(p)
    BY <2>2
    DEF TypeOK, RequestAndPayoutAgree, Cancel, CancelAndRelease, CancelPlain, CancellableFrom,
       controlVars, eventVars, workerVars, Holding, ReleaseReservation, moneyVars
  <2> QED BY <2>1, <2>2 DEF Cancel
<1>3. ReleasedIsNeverPaid'
  BY DEF TypeOK, ReleasedIsNeverPaid, Cancel, CancelAndRelease, CancelPlain, CancellableFrom,
     controlVars, eventVars, workerVars, Holding, ReleaseReservation, moneyVars
<1>4. RecordMatchesTransfer'
  BY DEF TypeOK, RecordMatchesTransfer, Cancel, CancelAndRelease, CancelPlain, CancellableFrom,
     controlVars, eventVars, workerVars, Holding, ReleaseReservation, moneyVars
<1>5. Bookkeeping'
  BY DEF TypeOK, Bookkeeping, Emitted, Cancel, CancelAndRelease, CancelPlain, CancellableFrom,
     controlVars, eventVars, workerVars, Holding, ReleaseReservation, moneyVars
<1> QED BY <1>1, <1>2, <1>3, <1>4, <1>5

(* StartProcess keeps the invariant.                                         *)
LEMMA StartProcessInv ==
    ASSUME PayoutsInv, NEW w \in Workers, NEW p \in Payouts, StartProcess(w, p)
    PROVE  PayoutsInv'
<1> USE DEF PayoutsInv
<1>1. TypeOK'
  BY DEF TypeOK, StartProcess, Step, controlVars, eventVars, moneyVars, rowVars
<1>2. RequestAndPayoutAgree'
  BY DEF RequestAndPayoutAgree, StartProcess, Step, controlVars, eventVars, moneyVars, rowVars
<1>3. ReleasedIsNeverPaid'
  BY DEF ReleasedIsNeverPaid, StartProcess, Step, controlVars, eventVars, moneyVars, rowVars
<1>4. RecordMatchesTransfer'
  BY DEF RecordMatchesTransfer, StartProcess, Step, controlVars, eventVars, moneyVars, rowVars
<1>5. Bookkeeping'
  BY DEF TypeOK, Bookkeeping, Emitted, StartProcess, Step, controlVars, eventVars, moneyVars,
     rowVars
<1> QED BY <1>1, <1>2, <1>3, <1>4, <1>5

(* ClaimForProcessing keeps the invariant.                                   *)
LEMMA ClaimForProcessingInv ==
    ASSUME PayoutsInv, NEW w \in Workers, ClaimForProcessing(w)
    PROVE  PayoutsInv'
<1> USE DEF PayoutsInv
<1>1. TypeOK'
  BY DEF TypeOK, PayoutStatus, ClaimForProcessing, Claimable, Resumable, Step, controlVars,
     eventVars, moneyVars
<1>2. RequestAndPayoutAgree'
  BY DEF RequestAndPayoutAgree, ClaimForProcessing, Claimable, Resumable, Step, controlVars,
     eventVars, moneyVars
<1>3. ReleasedIsNeverPaid'
  BY DEF ReleasedIsNeverPaid, ClaimForProcessing, Claimable, Resumable, Step, controlVars,
     eventVars, moneyVars
<1>4. RecordMatchesTransfer'
  BY DEF RecordMatchesTransfer, ClaimForProcessing, Claimable, Resumable, Step, controlVars,
     eventVars, moneyVars
<1>5. Bookkeeping'
  BY DEF Bookkeeping, Emitted, ClaimForProcessing, Claimable, Resumable, Step, controlVars,
     eventVars, moneyVars
<1> QED BY <1>1, <1>2, <1>3, <1>4, <1>5

(* TransferAccepted keeps the invariant.                                     *)
LEMMA TransferAcceptedInv ==
    ASSUME PayoutsInv, NEW w \in Workers, TransferAccepted(w)
    PROVE  PayoutsInv'
<1> USE DEF PayoutsInv
<1>1. TypeOK'
  BY DEF TypeOK, TransferAccepted, HoldTransfer, Step, controlVars, eventVars, moneyVars, rowVars
<1>2. RequestAndPayoutAgree'
  BY DEF RequestAndPayoutAgree, TransferAccepted, HoldTransfer, Step, controlVars, eventVars,
     moneyVars, rowVars
<1>3. ReleasedIsNeverPaid'
  BY DEF ReleasedIsNeverPaid, TransferAccepted, HoldTransfer, Step, controlVars, eventVars,
     moneyVars, rowVars
<1>4. RecordMatchesTransfer'
  BY DEF RecordMatchesTransfer, TransferAccepted, HoldTransfer, Step, controlVars, eventVars,
     moneyVars, rowVars
<1>5. Bookkeeping'
  BY DEF TypeOK, Bookkeeping, Emitted, TransferAccepted, HoldTransfer, Step, controlVars,
     eventVars, moneyVars, rowVars
<1> QED BY <1>1, <1>2, <1>3, <1>4, <1>5

(* TransferAnswerLost keeps the invariant.                                   *)
LEMMA TransferAnswerLostInv ==
    ASSUME PayoutsInv, NEW w \in Workers, TransferAnswerLost(w)
    PROVE  PayoutsInv'
<1> USE DEF PayoutsInv
<1>1. TypeOK'
  BY DEF TypeOK, TransferAnswerLost, HoldTransfer, Step, controlVars, eventVars, moneyVars,
     rowVars
<1>2. RequestAndPayoutAgree'
  BY DEF RequestAndPayoutAgree, TransferAnswerLost, HoldTransfer, Step, controlVars, eventVars,
     moneyVars, rowVars
<1>3. ReleasedIsNeverPaid'
  BY DEF ReleasedIsNeverPaid, TransferAnswerLost, HoldTransfer, Step, controlVars, eventVars,
     moneyVars, rowVars
<1>4. RecordMatchesTransfer'
  BY DEF RecordMatchesTransfer, TransferAnswerLost, HoldTransfer, Step, controlVars, eventVars,
     moneyVars, rowVars
<1>5. Bookkeeping'
  BY DEF Bookkeeping, Emitted, TransferAnswerLost, HoldTransfer, Step, controlVars, eventVars,
     moneyVars, rowVars
<1> QED BY <1>1, <1>2, <1>3, <1>4, <1>5

(* TransferRefused keeps the invariant.                                      *)
LEMMA TransferRefusedInv ==
    ASSUME PayoutsInv, NEW w \in Workers, TransferRefused(w)
    PROVE  PayoutsInv'
<1> USE DEF PayoutsInv
<1>1. TypeOK'
  BY DEF TypeOK, TransferRefused, Step, controlVars, eventVars, moneyVars, rowVars
<1>2. RequestAndPayoutAgree'
  BY DEF RequestAndPayoutAgree, TransferRefused, Step, controlVars, eventVars, moneyVars, rowVars
<1>3. ReleasedIsNeverPaid'
  BY DEF ReleasedIsNeverPaid, TransferRefused, Step, controlVars, eventVars, moneyVars, rowVars
<1>4. RecordMatchesTransfer'
  BY DEF RecordMatchesTransfer, TransferRefused, Step, controlVars, eventVars, moneyVars, rowVars
<1>5. Bookkeeping'
  BY DEF Bookkeeping, Emitted, TransferRefused, Step, controlVars, eventVars, moneyVars, rowVars
<1> QED BY <1>1, <1>2, <1>3, <1>4, <1>5

(* ReleaseAfterFailure keeps the invariant.                                  *)
LEMMA ReleaseAfterFailureInv ==
    ASSUME PayoutsInv, NEW w \in Workers, ReleaseAfterFailure(w)
    PROVE  PayoutsInv'
<1> USE DEF PayoutsInv
<1>1. TypeOK'
  <2>1. CASE status[job[w]] = "PROCESSING"
    <3>1. job[w] \in Payouts
      BY DEF Bookkeeping, ReleaseAfterFailure, Return, Step
    <3>2. /\ status' = [status EXCEPT ![job[w]] = "APPROVED"]
          /\ stale'  = [stale EXCEPT ![job[w]] = FALSE]
      BY <2>1 DEF TypeOK, ReleaseAfterFailure, Return, controlVars, eventVars, moneyVars, Step
    <3>3. status' \in [Payouts -> PayoutStatus \cup {"NONE"}] /\ stale' \in [Payouts -> BOOLEAN]
      BY <3>1, <3>2
      DEF TypeOK, PayoutStatus, ReleaseAfterFailure, Return, controlVars, eventVars, moneyVars,
         Step
    <3> QED BY <3>3
            DEF TypeOK, ReleaseAfterFailure, Step, Return, rowVars, moneyVars, workerVars,
               controlVars, eventVars
  <2>2. CASE status[job[w]] # "PROCESSING"
    BY <2>2 DEF TypeOK, ReleaseAfterFailure, Return, controlVars, eventVars, moneyVars, Step
  <2> QED BY <2>1, <2>2
<1>2. RequestAndPayoutAgree'
  BY DEF TypeOK, RequestAndPayoutAgree, Payouts, ReleaseAfterFailure, Return, controlVars,
     eventVars, moneyVars, Step
<1>3. ReleasedIsNeverPaid'
  BY DEF TypeOK, ReleasedIsNeverPaid, Payouts, ReleaseAfterFailure, Return, controlVars,
     eventVars, moneyVars, Step
<1>4. RecordMatchesTransfer'
  BY DEF TypeOK, RecordMatchesTransfer, ReleaseAfterFailure, Return, controlVars, eventVars,
     moneyVars, Step
<1>5. Bookkeeping'
  BY DEF TypeOK, Bookkeeping, Emitted, Payouts, ReleaseAfterFailure, Return, controlVars,
     eventVars, moneyVars, Step
<1> QED BY <1>1, <1>2, <1>3, <1>4, <1>5

(* MarkPaid keeps the invariant.                                             *)
LEMMA MarkPaidInv ==
    ASSUME PayoutsInv, NEW w \in Workers, MarkPaid(w)
    PROVE  PayoutsInv'
<1> USE DEF PayoutsInv
<1>1. TypeOK'
  BY BoundsAssumption
  DEF TypeOK, PayoutStatus, WithdrawalStatus, RowStatus, MarkPaid, Payable, Return, controlVars,
     eventVars, Step
<1>2. RequestAndPayoutAgree'
  BY DEF RequestAndPayoutAgree, MarkPaid, Payable, Return, controlVars, eventVars, Step
<1>3. ReleasedIsNeverPaid'
  BY DEF ReleasedIsNeverPaid, MarkPaid, Payable, Return, controlVars, eventVars, Step
<1>4. RecordMatchesTransfer'
  BY DisjointAssumption
  DEF TypeOK, RecordMatchesTransfer, ReleasedIsNeverPaid, Bookkeeping, Payouts, MarkPaid,
     Payable, Return, controlVars, eventVars, Step
<1>5. Bookkeeping'
  BY DEF TypeOK, Bookkeeping, Emitted, MarkPaid, Payable, Return, controlVars, eventVars, Step
<1> QED BY <1>1, <1>2, <1>3, <1>4, <1>5

(* A call of process that writes nothing more keeps the invariant.           *)
LEMMA IdleAgainInv ==
    ASSUME PayoutsInv, NEW w \in Workers, NotClaimed(w) \/ MarkPaidLost(w) \/ Crash(w)
    PROVE  PayoutsInv'
<1> USE DEF PayoutsInv
<1>1. TypeOK'
  BY DEF TypeOK, NotClaimed, MarkPaidLost, Crash, Claimable, Resumable, Return, controlVars,
     eventVars, moneyVars, rowVars, Payable, Step
<1>2. RequestAndPayoutAgree'
  BY DEF RequestAndPayoutAgree, NotClaimed, MarkPaidLost, Crash, Claimable, Resumable, Return,
     controlVars, eventVars, moneyVars, rowVars, Payable, Step
<1>3. ReleasedIsNeverPaid'
  BY DEF ReleasedIsNeverPaid, NotClaimed, MarkPaidLost, Crash, Claimable, Resumable, Return,
     controlVars, eventVars, moneyVars, rowVars, Payable, Step
<1>4. RecordMatchesTransfer'
  BY DEF RecordMatchesTransfer, NotClaimed, MarkPaidLost, Crash, Claimable, Resumable, Return,
     controlVars, eventVars, moneyVars, rowVars, Payable, Step
<1>5. Bookkeeping'
  BY DEF TypeOK, Bookkeeping, Emitted, NotClaimed, MarkPaidLost, Crash, Claimable, Resumable,
     Return, controlVars, eventVars, moneyVars, rowVars, Payable, Step
<1> QED BY <1>1, <1>2, <1>3, <1>4, <1>5

(* Elapse keeps the invariant.                                               *)
LEMMA ElapseInv ==
    ASSUME PayoutsInv, NEW p \in Payouts, Elapse(p)
    PROVE  PayoutsInv'
<1> USE DEF PayoutsInv
<1>1. TypeOK'
  BY DEF TypeOK, Elapse, controlVars, eventVars, moneyVars, workerVars
<1>2. RequestAndPayoutAgree'
  BY DEF RequestAndPayoutAgree, Elapse, controlVars, eventVars, moneyVars, workerVars
<1>3. ReleasedIsNeverPaid'
  BY DEF ReleasedIsNeverPaid, Elapse, controlVars, eventVars, moneyVars, workerVars
<1>4. RecordMatchesTransfer'
  BY DEF RecordMatchesTransfer, Elapse, controlVars, eventVars, moneyVars, workerVars
<1>5. Bookkeeping'
  BY DEF Bookkeeping, Emitted, Elapse, controlVars, eventVars, moneyVars, workerVars
<1> QED BY <1>1, <1>2, <1>3, <1>4, <1>5

(* StripeResolves keeps the invariant.                                       *)
LEMMA StripeResolvesInv ==
    ASSUME PayoutsInv, NEW p \in Payouts, NEW o \in {"landed", "returned"}, StripeResolves(p, o)
    PROVE  PayoutsInv'
<1> USE DEF PayoutsInv
<1>1. TypeOK'
  BY DEF TypeOK, StripeResolves, controlVars, eventVars, moneyVars, rowVars, workerVars
<1>2. RequestAndPayoutAgree'
  BY DEF RequestAndPayoutAgree, StripeResolves, controlVars, eventVars, moneyVars, rowVars,
     workerVars
<1>3. ReleasedIsNeverPaid'
  BY DEF ReleasedIsNeverPaid, StripeResolves, controlVars, eventVars, moneyVars, rowVars,
     workerVars
<1>4. RecordMatchesTransfer'
  BY DEF RecordMatchesTransfer, StripeResolves, controlVars, eventVars, moneyVars, rowVars,
     workerVars
<1>5. Bookkeeping'
  BY DEF Bookkeeping, Emitted, StripeResolves, controlVars, eventVars, moneyVars, rowVars,
     workerVars
<1> QED BY <1>1, <1>2, <1>3, <1>4, <1>5

(* ClaimEvent keeps the invariant.                                           *)
LEMMA ClaimEventInv ==
    ASSUME PayoutsInv, NEW e \in Events, ClaimEvent(e)
    PROVE  PayoutsInv'
<1> USE DEF PayoutsInv
<1>1. TypeOK'
  BY DEF TypeOK, ClaimEvent, Emitted, controlVars, moneyVars, rowVars, workerVars
<1>2. RequestAndPayoutAgree'
  BY DEF RequestAndPayoutAgree, ClaimEvent, Emitted, controlVars, moneyVars, rowVars, workerVars
<1>3. ReleasedIsNeverPaid'
  BY DEF ReleasedIsNeverPaid, ClaimEvent, Emitted, controlVars, moneyVars, rowVars, workerVars
<1>4. RecordMatchesTransfer'
  BY DEF RecordMatchesTransfer, ClaimEvent, Emitted, controlVars, moneyVars, rowVars, workerVars
<1>5. Bookkeeping'
  BY DEF Bookkeeping, Emitted, ClaimEvent, controlVars, moneyVars, rowVars, workerVars
<1> QED BY <1>1, <1>2, <1>3, <1>4, <1>5

(* MarkSettled keeps the invariant.                                          *)
LEMMA MarkSettledInv ==
    ASSUME PayoutsInv, NEW p \in Payouts, MarkSettled(p)
    PROVE  PayoutsInv'
<1> USE DEF PayoutsInv
<1>1. TypeOK'
  BY DEF TypeOK, MarkSettled, Handled, moneyVars, controlVars, workerVars
<1>2. RequestAndPayoutAgree'
  BY DEF RequestAndPayoutAgree, MarkSettled, Handled, moneyVars, controlVars, workerVars
<1>3. ReleasedIsNeverPaid'
  BY DEF ReleasedIsNeverPaid, MarkSettled, Handled, moneyVars, controlVars, workerVars
<1>4. RecordMatchesTransfer'
  BY DisjointAssumption
  DEF TypeOK, RecordMatchesTransfer, RequestAndPayoutAgree, ReleasedIsNeverPaid, Bookkeeping,
     MarkSettled, Handled, Emitted, Events, rowVars, moneyVars, workerVars, controlVars,
     eventVars, Payouts
<1>5. Bookkeeping'
  BY DEF Bookkeeping, Emitted, MarkSettled, Handled, moneyVars, controlVars, workerVars
<1> QED BY <1>1, <1>2, <1>3, <1>4, <1>5

(* MarkFailed keeps the invariant.                                           *)
LEMMA MarkFailedInv ==
    ASSUME PayoutsInv, NEW p \in Payouts, MarkFailed(p)
    PROVE  PayoutsInv'
<1> USE DEF PayoutsInv
<1>1. TypeOK'
  <2>1. CASE MarkFailedAndRelease(p)
    BY <2>1, ReleaseTypes
    DEF TypeOK, PayoutStatus, RowStatus, MarkFailed, MarkFailedAndRelease, MarkFailedIgnored,
       MarkFailedPlain, MarkFailedThrows, FailRows, Failable, Handled, Holding,
       ReleaseReservation, moneyVars, rowVars, controlVars, workerVars
  <2>2. CASE MarkFailedPlain(p)
    BY <2>2, ReleaseTypes
    DEF TypeOK, PayoutStatus, RowStatus, MarkFailed, MarkFailedAndRelease, MarkFailedIgnored,
       MarkFailedPlain, MarkFailedThrows, FailRows, Failable, Handled, Holding,
       ReleaseReservation, moneyVars, rowVars, controlVars, workerVars
  <2>3. CASE MarkFailedThrows(p)
    BY <2>3
    DEF TypeOK, MarkFailed, MarkFailedAndRelease, MarkFailedIgnored, MarkFailedPlain,
       MarkFailedThrows, FailRows, Failable, Handled, Holding, ReleaseReservation, moneyVars,
       rowVars, controlVars, workerVars
  <2>4. CASE MarkFailedIgnored(p)
    BY <2>4
    DEF TypeOK, MarkFailed, MarkFailedAndRelease, MarkFailedIgnored, MarkFailedPlain,
       MarkFailedThrows, FailRows, Failable, Handled, Holding, ReleaseReservation, moneyVars,
       rowVars, controlVars, workerVars
  <2> QED BY <2>1, <2>2, <2>3, <2>4 DEF MarkFailed
<1>2. RequestAndPayoutAgree'
  BY DEF TypeOK, RequestAndPayoutAgree, Payouts, MarkFailed, MarkFailedAndRelease,
     MarkFailedIgnored, MarkFailedPlain, MarkFailedThrows, FailRows, Failable, Handled, Holding,
     ReleaseReservation, moneyVars, rowVars, controlVars, workerVars
<1>3. ReleasedIsNeverPaid'
  BY DEF TypeOK, ReleasedIsNeverPaid, Payouts, MarkFailed, MarkFailedAndRelease,
     MarkFailedIgnored, MarkFailedPlain, MarkFailedThrows, FailRows, Failable, Handled, Holding,
     ReleaseReservation, moneyVars, rowVars, controlVars, workerVars
<1>4. RecordMatchesTransfer'
  BY DEF TypeOK, RecordMatchesTransfer, MarkFailed, MarkFailedAndRelease, MarkFailedIgnored,
     MarkFailedPlain, MarkFailedThrows, FailRows, Failable, Handled, Holding, ReleaseReservation,
     moneyVars, rowVars, controlVars, workerVars
<1>5. Bookkeeping'
  BY DEF TypeOK, Bookkeeping, Emitted, Payouts, MarkFailed, MarkFailedAndRelease,
     MarkFailedIgnored, MarkFailedPlain, MarkFailedThrows, FailRows, Failable, Handled, Holding,
     ReleaseReservation, moneyVars, rowVars, controlVars, workerVars
<1> QED BY <1>1, <1>2, <1>3, <1>4, <1>5

(* FinishEvent keeps the invariant.                                          *)
LEMMA FinishEventInv ==
    ASSUME PayoutsInv, NEW e \in Events, FinishEvent(e)
    PROVE  PayoutsInv'
<1> USE DEF PayoutsInv
<1>1. TypeOK'
  BY DEF TypeOK, FinishEvent, controlVars, moneyVars, rowVars, workerVars
<1>2. RequestAndPayoutAgree'
  BY DEF RequestAndPayoutAgree, FinishEvent, controlVars, moneyVars, rowVars, workerVars
<1>3. ReleasedIsNeverPaid'
  BY DEF ReleasedIsNeverPaid, FinishEvent, controlVars, moneyVars, rowVars, workerVars
<1>4. RecordMatchesTransfer'
  BY DEF RecordMatchesTransfer, FinishEvent, controlVars, moneyVars, rowVars, workerVars
<1>5. Bookkeeping'
  BY DEF Bookkeeping, Emitted, FinishEvent, controlVars, moneyVars, rowVars, workerVars
<1> QED BY <1>1, <1>2, <1>3, <1>4, <1>5

(* CrashHandler keeps the invariant.                                         *)
LEMMA CrashHandlerInv ==
    ASSUME PayoutsInv, NEW e \in Events, CrashHandler(e)
    PROVE  PayoutsInv'
<1> USE DEF PayoutsInv
<1>1. TypeOK'
  BY DEF TypeOK, CrashHandler, controlVars, moneyVars, rowVars, workerVars
<1>2. RequestAndPayoutAgree'
  BY DEF RequestAndPayoutAgree, CrashHandler, controlVars, moneyVars, rowVars, workerVars
<1>3. ReleasedIsNeverPaid'
  BY DEF ReleasedIsNeverPaid, CrashHandler, controlVars, moneyVars, rowVars, workerVars
<1>4. RecordMatchesTransfer'
  BY DEF RecordMatchesTransfer, CrashHandler, controlVars, moneyVars, rowVars, workerVars
<1>5. Bookkeeping'
  BY DEF Bookkeeping, Emitted, CrashHandler, controlVars, moneyVars, rowVars, workerVars
<1> QED BY <1>1, <1>2, <1>3, <1>4, <1>5

(* ToggleFreeze keeps the invariant.                                         *)
LEMMA ToggleFreezeInv == ASSUME PayoutsInv, ToggleFreeze PROVE PayoutsInv'
  BY DEF PayoutsInv, TypeOK, RequestAndPayoutAgree, ReleasedIsNeverPaid, RecordMatchesTransfer,
     Bookkeeping, Emitted, ToggleFreeze, rowVars, moneyVars, workerVars, eventVars

(* AccountUpdated keeps the invariant.                                       *)
LEMMA AccountUpdatedInv ==
    ASSUME PayoutsInv, NEW u \in Users, AccountUpdated(u)
    PROVE  PayoutsInv'
  BY DEF PayoutsInv, TypeOK, RequestAndPayoutAgree, ReleasedIsNeverPaid, RecordMatchesTransfer,
     Bookkeeping, Emitted, AccountUpdated, rowVars, moneyVars, workerVars, eventVars

(* Every step keeps the invariant.                                           *)
LEMMA NextInv == PayoutsInv /\ [Next]_vars => PayoutsInv'
<1> SUFFICES ASSUME PayoutsInv, [Next]_vars PROVE PayoutsInv'
  OBVIOUS
<1>1. CASE Player
  BY <1>1, RequestInv, CancelOwnedInv DEF Player
<1>2. CASE Administrator
  BY <1>2, ApproveInv, CancelInv, ToggleFreezeInv DEF Administrator
<1>3. CASE \E w \in Workers : Process(w)
  BY <1>3, StartProcessInv, ClaimForProcessingInv, TransferAcceptedInv, TransferAnswerLostInv,
     TransferRefusedInv, ReleaseAfterFailureInv, MarkPaidInv, IdleAgainInv
  DEF Process
<1>4. CASE Webhook
  BY <1>4, MarkSettledInv, MarkFailedInv, ClaimEventInv, FinishEventInv, CrashHandlerInv
  DEF Webhook
<1>5. CASE Environment
  BY <1>5, OtherEntryInv, AccountUpdatedInv, ElapseInv, StripeResolvesInv DEF Environment
<1>6. CASE UNCHANGED vars
  BY <1>6
  DEF PayoutsInv, TypeOK, RequestAndPayoutAgree, ReleasedIsNeverPaid, RecordMatchesTransfer,
     Bookkeeping, Emitted, vars, rowVars, moneyVars, workerVars, controlVars, eventVars
<1> QED BY <1>1, <1>2, <1>3, <1>4, <1>5, <1>6 DEF Next

(* The invariant holds in every reachable state.                             *)
THEOREM Invariance == Spec => []PayoutsInv
  BY InitInv, NextInv, PTL DEF Spec

(* Every variable keeps its type.                                            *)
THEOREM TypeCorrect == Spec => []TypeOK
  BY Invariance, PTL DEF PayoutsInv

(* The record of the payout and of the request agree.                        *)
THEOREM Agreement == Spec => []RequestAndPayoutAgree
  BY Invariance, PTL DEF PayoutsInv

(* Tokens that went back to the wallet are never paid out.                   *)
THEOREM NoPaymentAfterRelease == Spec => []ReleasedIsNeverPaid
  BY Invariance, PTL DEF PayoutsInv

(* What a payout records about Stripe and the ledger is so.                  *)
THEOREM RecordIsTrue == Spec => []RecordMatchesTransfer
  BY Invariance, PTL DEF PayoutsInv

-----------------------------------------------------------------------------
(* The steps that move no withdrawal between the places Custody tells apart. *)

(* A step that writes neither the payout's status, nor a release, nor the    *)
(* wallet is invisible to Custody.                                           *)
LEMMA Invisible ==
    ASSUME UNCHANGED <<balance, posted, status, released>>
    PROVE  UNCHANGED C!custodyVars
  BY DEF C!custodyVars, Place

(* So is one that changes a status inside one place.                         *)
LEMMA SamePlace ==
    ASSUME UNCHANGED <<balance, posted>>,
           \A q \in Withdrawals : Place(q)' = Place(q)
    PROVE  UNCHANGED C!custodyVars
  BY DEF C!custodyVars

(* A request takes its tokens into custody.                                  *)
LEMMA RequestTakes ==
    ASSUME PayoutsInv, NEW p \in Withdrawals, Request(p)
    PROVE  C!Take(p)
<1>1. Place(p) = "player" /\ Place(p)' = "held"
  BY DEF PayoutsInv, TypeOK, ReleasedIsNeverPaid, RecordMatchesTransfer, Bookkeeping, Payouts,
     Place, Request, moneyVars
<1>2. \A q \in Withdrawals \ {p} : Place(q)' = Place(q)
  BY DEF PayoutsInv, TypeOK, Payouts, Place, Request
<1>3. balance[Owner[p]] >= Amount[p]
  BY AmountAssumption DEF Request, Recordable, Floor, Payouts
<1> QED BY <1>1, <1>2, <1>3 DEF C!Take, Request

(* A release of a held reservation gives the tokens back.                    *)
LEMMA ReleaseGivesBack ==
    ASSUME PayoutsInv, NEW p \in Withdrawals, NEW s \in PayoutStatus \ {"PAID"},
           Holding(p), status[p] # "NONE", ReleaseReservation(p),
           status' = [status EXCEPT ![p] = s], UNCHANGED posted
    PROVE  C!GiveBack(p)
<1>1. Place(p) \in {"held", "paid"} /\ Place(p)' = "returned"
  BY DEF PayoutsInv, TypeOK, Payouts, PayoutStatus, Place, Holding, ReleaseReservation
<1>2. \A q \in Withdrawals \ {p} : Place(q)' = Place(q)
  BY DEF PayoutsInv, TypeOK, Payouts, Place, ReleaseReservation
<1> QED BY <1>1, <1>2 DEF C!GiveBack, ReleaseReservation

(* So does the player's cancellation.                                        *)
LEMMA CancelOwnedGivesBack ==
    ASSUME PayoutsInv, NEW p \in Withdrawals, CancelOwned(p)
    PROVE  C!GiveBack(p)
<1>1. Holding(p) /\ status[p] # "NONE"
  BY DEF PayoutsInv, RequestAndPayoutAgree, Holding, CancelOwned
<1> QED BY <1>1, ReleaseGivesBack DEF CancelOwned, PayoutStatus

(* An administrator's cancellation gives back or is invisible.               *)
LEMMA CancelImplements ==
    ASSUME PayoutsInv, NEW p \in Payouts, Cancel(p)
    PROVE  (p \in Withdrawals /\ C!GiveBack(p)) \/ UNCHANGED C!custodyVars
<1>1. CASE CancelPlain(p)
  <2>1. \A q \in Withdrawals : Place(q)' = Place(q)
    BY <1>1, DisjointAssumption
    DEF PayoutsInv, TypeOK, Payouts, Place, Cancel, CancelPlain, CancellableFrom, Holding,
       moneyVars
  <2> QED BY <1>1, <2>1, SamePlace DEF CancelPlain, moneyVars
<1>2. CASE CancelAndRelease(p)
  <2>1. p \in Withdrawals /\ Holding(p) /\ status[p] # "NONE"
    BY <1>2 DEF Cancel, CancelAndRelease, CancellableFrom, Holding
  <2> QED BY <1>2, <2>1, ReleaseGivesBack DEF Cancel, CancelAndRelease, PayoutStatus
<1> QED BY <1>1, <1>2 DEF Cancel

(* Recording the transfer pays the tokens out, if a withdrawal is behind it. *)
LEMMA MarkPaidPays ==
    ASSUME PayoutsInv, NEW w \in Workers, MarkPaid(w)
    PROVE  (job[w] \in Withdrawals /\ C!PayOut(job[w])) \/ UNCHANGED C!custodyVars
<1>1. PICK p \in Payouts : p = job[w]
  BY DEF PayoutsInv, Bookkeeping, MarkPaid, Return, Step
<1>2. status[p] \in {"PROCESSING", "APPROVED"} /\ ~transferId[p]
  BY <1>1 DEF MarkPaid, Payable
<1>3. \A q \in Withdrawals \ {p} : Place(q)' = Place(q)
  BY <1>1 DEF PayoutsInv, TypeOK, Payouts, Place, MarkPaid
<1>4. CASE p \in Withdrawals
  <2>1. Place(p) = "held" /\ Place(p)' = "paid"
    BY <1>1, <1>2, <1>4 DEF PayoutsInv, TypeOK, ReleasedIsNeverPaid, Place, MarkPaid
  <2>2. C!PayOut(p)
    BY <1>3, <1>4, <2>1 DEF C!PayOut, MarkPaid
  <2> QED BY <1>1, <1>4, <2>2
<1>5. CASE p \notin Withdrawals
  BY <1>3, <1>5, SamePlace DEF MarkPaid
<1> QED BY <1>4, <1>5

(* A failed transfer gives back or is invisible.                             *)
LEMMA MarkFailedImplements ==
    ASSUME PayoutsInv, NEW p \in Payouts, MarkFailed(p)
    PROVE  (p \in Withdrawals /\ C!GiveBack(p)) \/ UNCHANGED C!custodyVars
<1>1. CASE MarkFailedAndRelease(p)
  <2>1. p \in Withdrawals /\ status[p] # "NONE"
    BY <1>1 DEF MarkFailedAndRelease, Failable, Holding
  <2> QED BY <1>1, <2>1, ReleaseGivesBack DEF MarkFailedAndRelease, FailRows, PayoutStatus
<1>2. CASE MarkFailedPlain(p)
  <2>1. p \notin Withdrawals
    BY <1>2 DEF PayoutsInv, ReleasedIsNeverPaid, MarkFailedPlain, Failable, Holding
  <2>2. \A q \in Withdrawals : Place(q)' = Place(q)
    BY <1>2, <2>1 DEF PayoutsInv, TypeOK, Payouts, Place, MarkFailedPlain, FailRows
  <2> QED BY <1>2, <2>2, SamePlace DEF MarkFailedPlain, FailRows
<1>3. CASE MarkFailedThrows(p) \/ MarkFailedIgnored(p)
  BY <1>3, Invisible DEF MarkFailedThrows, MarkFailedIgnored, rowVars, moneyVars
<1> QED BY <1>1, <1>2, <1>3 DEF MarkFailed

(* An entry of another feature is accounted to it.                           *)
LEMMA OtherEntryUses ==
    ASSUME PayoutsInv, NEW u \in Users, NEW a \in OtherAmounts, NEW forced \in BOOLEAN,
           OtherEntry(u, a, forced)
    PROVE  C!OtherUse(u)
<1>1. posted'[u] - posted[u] = a
  BY BoundsAssumption DEF PayoutsInv, TypeOK, OtherEntry
<1>2. posted' = [posted EXCEPT ![u] = posted'[u]]
  BY DEF PayoutsInv, TypeOK, OtherEntry
<1>3. balance' = [balance EXCEPT ![u] = @ + (posted'[u] - posted[u])]
  BY <1>1 DEF OtherEntry
<1>4. UNCHANGED [q \in Withdrawals |-> Place(q)]
  BY DEF Place, OtherEntry, rowVars
<1> QED BY <1>2, <1>3, <1>4 DEF C!OtherUse

(* The steps that change a status without leaving "held".                    *)
LEMMA HeldStays ==
    ASSUME PayoutsInv,
           \/ \E p \in Payouts : Approve(p)
           \/ \E w \in Workers : ClaimForProcessing(w) \/ ReleaseAfterFailure(w)
    PROVE  UNCHANGED C!custodyVars
<1>1. CASE \E p \in Payouts : Approve(p)
  BY <1>1, SamePlace DEF PayoutsInv, TypeOK, Payouts, Place, Approve, ApprovableFrom, moneyVars
<1>2. ASSUME NEW w \in Workers, ClaimForProcessing(w) PROVE UNCHANGED C!custodyVars
  BY <1>2, SamePlace
  DEF PayoutsInv, TypeOK, Payouts, Place, ClaimForProcessing, Claimable, Resumable, moneyVars
<1>3. ASSUME NEW w \in Workers, ReleaseAfterFailure(w) PROVE UNCHANGED C!custodyVars
  BY <1>3, SamePlace DEF PayoutsInv, TypeOK, Payouts, Place, ReleaseAfterFailure, moneyVars
<1> QED BY <1>1, <1>2, <1>3

(* Every step of Payouts is a step of Custody or invisible to it.            *)
LEMMA StepImplementsCustody == PayoutsInv /\ [Next]_vars => [C!CustodyNext]_(C!custodyVars)
<1> SUFFICES ASSUME PayoutsInv, [Next]_vars PROVE [C!CustodyNext]_(C!custodyVars)
  OBVIOUS
<1>1. CASE Player
  BY <1>1, RequestTakes, CancelOwnedGivesBack DEF Player, C!CustodyNext
<1>2. CASE Administrator
  <2>1. CASE ToggleFreeze
    BY <2>1, Invisible DEF ToggleFreeze, rowVars, moneyVars
  <2> QED BY <1>2, <2>1, HeldStays, CancelImplements DEF Administrator, C!CustodyNext
<1>3. ASSUME NEW w \in Workers, Process(w) PROVE [C!CustodyNext]_(C!custodyVars)
  <2>1. CASE \/ \E p \in Payouts : StartProcess(w, p)
             \/ NotClaimed(w) \/ TransferAccepted(w) \/ TransferAnswerLost(w)
             \/ TransferRefused(w) \/ MarkPaidLost(w) \/ Crash(w)
    BY <2>1, Invisible
    DEF StartProcess, NotClaimed, TransferAccepted, TransferAnswerLost, TransferRefused,
       MarkPaidLost, Crash, rowVars, moneyVars
  <2>2. CASE ClaimForProcessing(w) \/ ReleaseAfterFailure(w)
    BY <2>2, HeldStays
  <2>3. CASE MarkPaid(w)
    BY <2>3, MarkPaidPays DEF C!CustodyNext
  <2> QED BY <1>3, <2>1, <2>2, <2>3 DEF Process
<1>4. CASE Webhook
  <2>1. CASE \E p \in Payouts : MarkSettled(p)
    BY <2>1, Invisible DEF MarkSettled, moneyVars
  <2>2. CASE \E p \in Payouts : MarkFailed(p)
    BY <2>2, MarkFailedImplements DEF C!CustodyNext
  <2>3. CASE \E e \in Events : ClaimEvent(e) \/ FinishEvent(e) \/ CrashHandler(e)
    BY <2>3, Invisible DEF ClaimEvent, FinishEvent, CrashHandler, rowVars, moneyVars
  <2> QED BY <1>4, <2>1, <2>2, <2>3 DEF Webhook
<1>5. CASE Environment
  <2>1. CASE \/ \E u \in Users : AccountUpdated(u)
             \/ \E p \in Payouts : Elapse(p)
             \/ \E p \in Payouts, o \in {"landed", "returned"} : StripeResolves(p, o)
    BY <2>1, Invisible DEF AccountUpdated, Elapse, StripeResolves, rowVars, moneyVars
  <2> QED BY <1>5, <2>1, OtherEntryUses DEF Environment, C!CustodyNext
<1>6. CASE UNCHANGED vars
  BY <1>6, Invisible DEF vars, rowVars, moneyVars
<1> QED BY <1>1, <1>2, <1>3, <1>4, <1>5, <1>6 DEF Next

(* The initial states are those of Custody.                                  *)
LEMMA InitImplementsCustody == Init => C!CustodyInit
  BY DisjointAssumption DEF Init, C!CustodyInit, Place, Payouts

(* The withdrawal system implements Custody.                                 *)
THEOREM Refinement == Spec => ImplementsCustody
  BY InitImplementsCustody, StepImplementsCustody, Invariance, PTL
  DEF Spec, ImplementsCustody, C!CustodySpec

-----------------------------------------------------------------------------
(* What a step does to a payout at Stripe and to a cancelled one.            *)
Keeps(p) ==
    /\ status[p] \in {"PROCESSING", "PAID"} => status'[p] # "CANCELLED"
    /\ status[p] = "CANCELLED" => status'[p] = "CANCELLED"

(* No step cancels a payout at Stripe or revives a cancelled one.            *)
LEMMA CancelStep ==
    ASSUME PayoutsInv, [Next]_vars, NEW p \in Payouts
    PROVE  Keeps(p)
<1>1. UNCHANGED status => Keeps(p)
  BY DEF Keeps
<1>2. ASSUME NEW q \in Withdrawals, Request(q) PROVE Keeps(p)
  BY <1>2 DEF Keeps, PayoutsInv, TypeOK, Request
<1>3. ASSUME NEW q \in Withdrawals, CancelOwned(q) PROVE Keeps(p)
  BY <1>3 DEF Keeps, PayoutsInv, TypeOK, RequestAndPayoutAgree, CancelOwned
<1>4. ASSUME NEW q \in Payouts, Approve(q) PROVE Keeps(p)
  BY <1>4 DEF Keeps, PayoutsInv, TypeOK, Approve, ApprovableFrom
<1>5. ASSUME NEW q \in Payouts, Cancel(q) PROVE Keeps(p)
  BY <1>5 DEF Keeps, PayoutsInv, TypeOK, Cancel, CancellableFrom
<1>6. ASSUME NEW w \in Workers, ClaimForProcessing(w) PROVE Keeps(p)
  BY <1>6 DEF Keeps, PayoutsInv, TypeOK, ClaimForProcessing, Claimable, Resumable
<1>7. ASSUME NEW w \in Workers, ReleaseAfterFailure(w) PROVE Keeps(p)
  BY <1>7 DEF Keeps, PayoutsInv, TypeOK, ReleaseAfterFailure
<1>8. ASSUME NEW w \in Workers, MarkPaid(w) PROVE Keeps(p)
  BY <1>8 DEF Keeps, PayoutsInv, TypeOK, MarkPaid, Payable
<1>9. ASSUME NEW q \in Payouts, MarkFailed(q) PROVE Keeps(p)
  BY <1>9
  DEF Keeps, PayoutsInv, TypeOK, MarkFailed, MarkFailedAndRelease, MarkFailedPlain,
     MarkFailedThrows, MarkFailedIgnored, Failable, FailRows, rowVars
<1>10. CASE Player
  BY <1>10, <1>2, <1>3 DEF Player
<1>11. CASE Administrator
  BY <1>11, <1>1, <1>4, <1>5 DEF Administrator, ToggleFreeze, rowVars
<1>12. ASSUME NEW w \in Workers, Process(w) PROVE Keeps(p)
  BY <1>12, <1>1, <1>6, <1>7, <1>8
  DEF Process, StartProcess, NotClaimed, TransferAccepted, TransferAnswerLost, TransferRefused,
     MarkPaidLost, Crash, rowVars
<1>13. CASE Webhook
  BY <1>13, <1>1, <1>9 DEF Webhook, MarkSettled, ClaimEvent, FinishEvent, CrashHandler, rowVars
<1>14. CASE Environment
  BY <1>14, <1>1 DEF Environment, OtherEntry, AccountUpdated, Elapse, StripeResolves, rowVars
<1>15. CASE UNCHANGED vars
  BY <1>15, <1>1 DEF vars, rowVars
<1> QED BY <1>10, <1>11, <1>12, <1>13, <1>14, <1>15 DEF Next

(* A payout that may be at Stripe is never cancelled, CANCELLED is final.    *)
THEOREM CancelSafe == Spec => CancelOnlyAtRest
<1>1. PayoutsInv /\ [Next]_vars
      => [\A p \in Payouts :
            /\ status[p] \in {"PROCESSING", "PAID"} => status'[p] # "CANCELLED"
            /\ status[p] = "CANCELLED" => status'[p] = "CANCELLED"]_vars
  BY CancelStep DEF Keeps
<1> QED BY <1>1, Invariance, PTL DEF Spec, CancelOnlyAtRest

-----------------------------------------------------------------------------
(* Conservation.                                                             *)

(* The tokens held are a number, and one withdrawal more holds its amount    *)
(* more.                                                                     *)
LEMMA TokensGrow ==
    ASSUME NEW S \in SUBSET Withdrawals
    PROVE  /\ TokensOf(S) \in Int
           /\ \A p \in Withdrawals \ S : TokensOf(S \cup {p}) = TokensOf(S) + Amount[p]
<1> DEFINE f == [p \in Withdrawals |-> Amount[p]]
<1>1. f \in [Withdrawals -> Int]
  BY AmountAssumption DEF Payouts
<1>2. \A T \in SUBSET Withdrawals : SumOver(Amount, T) = SumOver(f, T)
  <2> SUFFICES ASSUME NEW T \in SUBSET Withdrawals PROVE SumOver(Amount, T) = SumOver(f, T)
    OBVIOUS
  <2>1. IsFiniteSet(T) /\ \A p \in T : Amount[p] = f[p]
    BY FiniteAssumption, FS_Subset
  <2> HIDE DEF f
  <2> QED BY <2>1, SumSame
<1>3. \A p \in Withdrawals : f[p] = Amount[p]
  OBVIOUS
<1> HIDE DEF f
<1>4. SumOver(f, S) \in Int
  BY <1>1, FiniteAssumption, SumIsInt
<1>5. \A p \in Withdrawals \ S : SumOver(f, S \cup {p}) = SumOver(f, S) + f[p]
  BY <1>1, FiniteAssumption, SumPut
<1> QED BY <1>2, <1>3, <1>4, <1>5 DEF TokensOf

(* A step that leaves the wallets, the reservations and their release alone. *)
LEMMA HeldUntouched ==
    ASSUME Conservation, UNCHANGED <<balance, posted>>,
           \A u \in Users : Held(u)' = Held(u)
    PROVE  Conservation'
  BY DEF Conservation

(* A request takes its amount from the wallet and adds it to what is held.   *)
LEMMA RequestConserves ==
    ASSUME PayoutsInv, Conservation, NEW p \in Withdrawals, Request(p)
    PROVE  Conservation'
<1> SUFFICES ASSUME NEW u \in Users
             PROVE  balance'[u] = Opening[u] + posted'[u] - TokensOf(Held(u)')
  BY DEF Conservation
<1>1. /\ Owner[p] \in Users /\ Amount[p] \in Int /\ Opening[u] \in Int
      /\ balance[u] \in Int /\ posted[u] \in Int
  BY OwnerAssumption, AmountAssumption, OpeningAssumption DEF PayoutsInv, TypeOK, Payouts
<1>2. balance[u] = Opening[u] + posted[u] - TokensOf(Held(u)) /\ posted' = posted
  BY DEF Conservation, Request
<1>3. Held(u) \in SUBSET Withdrawals
  BY DEF Held
<1>4. CASE u = Owner[p]
  <2>1. Held(u)' = Held(u) \cup {p} /\ p \notin Held(u)
    BY <1>4 DEF PayoutsInv, TypeOK, Bookkeeping, RecordMatchesTransfer, Payouts, Held, Request
  <2>2. balance'[u] = balance[u] - Amount[p]
    BY <1>4 DEF PayoutsInv, TypeOK, Request
  <2>3. TokensOf(Held(u)') = TokensOf(Held(u)) + Amount[p] /\ TokensOf(Held(u)) \in Int
    BY <1>3, <2>1, TokensGrow
  <2> QED BY <1>1, <1>2, <2>2, <2>3
<1>5. CASE u # Owner[p]
  <2>1. Held(u)' = Held(u)
    BY <1>5 DEF PayoutsInv, TypeOK, Held, Request
  <2>2. balance'[u] = balance[u]
    BY <1>5 DEF PayoutsInv, TypeOK, Request
  <2> QED BY <1>1, <1>2, <2>1, <2>2
<1> QED BY <1>4, <1>5

(* A release puts the amount back and takes it from what is held.            *)
LEMMA ReleaseConserves ==
    ASSUME PayoutsInv, Conservation, NEW p \in Withdrawals, Holding(p), status[p] # "NONE",
           ReleaseReservation(p), UNCHANGED posted
    PROVE  Conservation'
<1> SUFFICES ASSUME NEW u \in Users
             PROVE  balance'[u] = Opening[u] + posted'[u] - TokensOf(Held(u)')
  BY DEF Conservation
<1>1. /\ Owner[p] \in Users /\ Amount[p] \in Int /\ Opening[u] \in Int
      /\ balance[u] \in Int /\ posted[u] \in Int
  BY OwnerAssumption, AmountAssumption, OpeningAssumption DEF PayoutsInv, TypeOK, Payouts
<1>2. balance[u] = Opening[u] + posted[u] - TokensOf(Held(u))
  BY DEF Conservation
<1>3. CASE u = Owner[p]
  <2>1. /\ Held(u) = Held(u)' \cup {p} /\ p \notin Held(u)'
        /\ Held(u)' \in SUBSET Withdrawals
    BY <1>3
    DEF PayoutsInv, TypeOK, Bookkeeping, Payouts, Held, Holding, ReleaseReservation
  <2>2. balance'[u] = balance[u] + Amount[p]
    BY <1>3 DEF PayoutsInv, TypeOK, ReleaseReservation
  <2>3. TokensOf(Held(u)) = TokensOf(Held(u)') + Amount[p] /\ TokensOf(Held(u)') \in Int
    BY <2>1, TokensGrow
  <2> QED BY <1>1, <1>2, <2>2, <2>3
<1>4. CASE u # Owner[p]
  <2>1. Held(u)' = Held(u)
    BY <1>4 DEF PayoutsInv, TypeOK, Held, ReleaseReservation
  <2>2. balance'[u] = balance[u]
    BY <1>4 DEF PayoutsInv, TypeOK, ReleaseReservation
  <2> QED BY <1>1, <1>2, <2>1, <2>2
<1> QED BY <1>3, <1>4

(* Another feature's entry moves the wallet and what is posted alike.        *)
LEMMA OtherEntryConserves ==
    ASSUME PayoutsInv, Conservation, NEW u \in Users, NEW a \in OtherAmounts,
           NEW forced \in BOOLEAN, OtherEntry(u, a, forced)
    PROVE  Conservation'
<1> SUFFICES ASSUME NEW v \in Users
             PROVE  balance'[v] = Opening[v] + posted'[v] - TokensOf(Held(v)')
  BY DEF Conservation
<1>1. Held(v)' = Held(v)
  BY DEF OtherEntry, Held
<1>2. balance'[v] - balance[v] = posted'[v] - posted[v]
  BY BoundsAssumption DEF PayoutsInv, TypeOK, OtherEntry
<1>3. TokensOf(Held(v)) \in Int /\ Opening[v] \in Int
  BY TokensGrow, OpeningAssumption DEF Held
<1>4. balance'[v] \in Int /\ posted'[v] \in Int /\ balance[v] \in Int /\ posted[v] \in Int
  BY BoundsAssumption DEF PayoutsInv, TypeOK, OtherEntry
<1>5. balance[v] = Opening[v] + posted[v] - TokensOf(Held(v))
  BY DEF Conservation
<1>6. TokensOf(Held(v)') = TokensOf(Held(v))
  BY <1>1, Zenon
<1> QED BY <1>2, <1>3, <1>4, <1>5, <1>6

(* Recording the transfer completes reservations that stood already.         *)
LEMMA MarkPaidConserves ==
    ASSUME PayoutsInv, Conservation, NEW w \in Workers, MarkPaid(w)
    PROVE  Conservation'
<1>1. \A q \in Withdrawals : reservation'[q] # "NONE" <=> reservation[q] # "NONE"
  BY DEF PayoutsInv, TypeOK, Bookkeeping, Payouts, MarkPaid, Payable
<1>2. UNCHANGED <<balance, posted, released>>
  BY DEF MarkPaid
<1>3. \A u \in Users : Held(u)' = Held(u)
  BY <1>1, <1>2 DEF Held
<1> QED BY <1>2, <1>3, HeldUntouched

(* Every step conserves the tokens.                                          *)
LEMMA ConservationStep == PayoutsInv /\ Conservation /\ [Next]_vars => Conservation'
<1> SUFFICES ASSUME PayoutsInv, Conservation, [Next]_vars PROVE Conservation'
  OBVIOUS
<1>1. UNCHANGED <<balance, posted, reservation, released>> => Conservation'
  BY HeldUntouched DEF Held
<1>2. CASE Player
  <2>1. ASSUME NEW p \in Withdrawals, CancelOwned(p) PROVE Conservation'
    BY <2>1, ReleaseConserves DEF CancelOwned, Holding, PayoutsInv, RequestAndPayoutAgree
  <2> QED BY <1>2, <2>1, RequestConserves DEF Player
<1>3. CASE Administrator
  <2>1. ASSUME NEW p \in Payouts, CancelAndRelease(p), Cancel(p) PROVE Conservation'
    BY <2>1, ReleaseConserves DEF Cancel, CancellableFrom, CancelAndRelease, Holding
  <2> QED BY <1>1, <1>3, <2>1
          DEF Administrator, Approve, Cancel, CancelPlain, ToggleFreeze, moneyVars
<1>4. ASSUME NEW w \in Workers, Process(w) PROVE Conservation'
  BY <1>1, <1>4, MarkPaidConserves
  DEF Process, StartProcess, ClaimForProcessing, NotClaimed, TransferAccepted,
     TransferAnswerLost, TransferRefused, ReleaseAfterFailure, MarkPaidLost, Crash, moneyVars
<1>5. CASE Webhook
  <2>1. ASSUME NEW p \in Payouts, MarkFailedAndRelease(p) PROVE Conservation'
    BY <2>1, ReleaseConserves DEF MarkFailedAndRelease, Failable, FailRows, Holding
  <2>2. ASSUME NEW p \in Payouts, MarkFailed(p) PROVE Conservation'
    BY <1>1, <2>1, <2>2
    DEF MarkFailed, MarkFailedPlain, MarkFailedThrows, MarkFailedIgnored, FailRows, moneyVars
  <2> QED BY <1>1, <1>5, <2>2
          DEF Webhook, MarkSettled, ClaimEvent, FinishEvent, CrashHandler, moneyVars
<1>6. CASE Environment
  BY <1>1, <1>6, OtherEntryConserves
  DEF Environment, AccountUpdated, Elapse, StripeResolves, moneyVars
<1>7. CASE UNCHANGED vars
  BY <1>1, <1>7 DEF vars, moneyVars
<1> QED BY <1>2, <1>3, <1>4, <1>5, <1>6, <1>7 DEF Next

(* Nothing is held before the first request.                                 *)
LEMMA ConservationInit == Init => Conservation
<1> SUFFICES ASSUME Init, NEW u \in Users
             PROVE  balance[u] = Opening[u] + posted[u] - TokensOf(Held(u))
  BY DEF Conservation
<1>1. Held(u) = {} /\ balance[u] = Opening[u] /\ posted[u] = 0 /\ Opening[u] \in Int
  BY OpeningAssumption DEF Init, Held
<1>2. TokensOf(Held(u)) = 0
  BY <1>1, SumEmpty DEF TokensOf
<1> QED BY <1>1, <1>2

(* A wallet holds what the player started with, plus what other features     *)
(* posted, less the standing reservations: for any number of players and     *)
(* withdrawals and any amounts, whatever mix of cancels, failures, retries   *)
(* and webhooks has happened.                                                *)
THEOREM Conserved == Spec => []Conservation
  BY ConservationInit, ConservationStep, Invariance, PTL DEF Spec

-----------------------------------------------------------------------------
(* What a step may do to the record of a transfer.                           *)
Remembers(p) ==
    /\ transferId[p] => transferId'[p]
    /\ status[p] = "PAID" /\ status'[p] # "PAID"
         => status'[p] = "FAILED" /\ transfer[p] = "returned"
    /\ settled[p] /\ ~settled'[p] => status'[p] = "FAILED"

(* No step forgets a transfer; only its return takes PAID back.              *)
LEMMA RememberStep ==
    ASSUME PayoutsInv, [Next]_vars, NEW p \in Payouts
    PROVE  Remembers(p)
<1>1. UNCHANGED <<status, transferId, settled>> => Remembers(p)
  BY DEF Remembers
<1>2. ASSUME NEW q \in Withdrawals, Request(q) PROVE Remembers(p)
  BY <1>2 DEF Remembers, PayoutsInv, TypeOK, Request
<1>3. ASSUME NEW q \in Withdrawals, CancelOwned(q) PROVE Remembers(p)
  BY <1>3 DEF Remembers, PayoutsInv, TypeOK, RequestAndPayoutAgree, CancelOwned
<1>4. ASSUME NEW q \in Payouts, Approve(q) PROVE Remembers(p)
  BY <1>4 DEF Remembers, PayoutsInv, TypeOK, Approve, ApprovableFrom
<1>5. ASSUME NEW q \in Payouts, Cancel(q) PROVE Remembers(p)
  BY <1>5 DEF Remembers, PayoutsInv, TypeOK, Cancel, CancellableFrom
<1>6. ASSUME NEW w \in Workers, ClaimForProcessing(w) PROVE Remembers(p)
  BY <1>6 DEF Remembers, PayoutsInv, TypeOK, ClaimForProcessing, Claimable, Resumable
<1>7. ASSUME NEW w \in Workers, ReleaseAfterFailure(w) PROVE Remembers(p)
  BY <1>7 DEF Remembers, PayoutsInv, TypeOK, ReleaseAfterFailure
<1>8. ASSUME NEW w \in Workers, MarkPaid(w) PROVE Remembers(p)
  BY <1>8 DEF Remembers, PayoutsInv, TypeOK, MarkPaid, Payable
<1>9. ASSUME NEW q \in Payouts, MarkFailed(q) PROVE Remembers(p)
  <2>1. q = p /\ (MarkFailedAndRelease(q) \/ MarkFailedPlain(q)) => transfer[p] = "returned"
    BY DEF PayoutsInv, Bookkeeping, Events, Emitted, MarkFailedAndRelease, MarkFailedPlain, Handled
  <2> QED BY <1>9, <2>1
          DEF Remembers, PayoutsInv, TypeOK, MarkFailed, MarkFailedAndRelease, MarkFailedPlain,
             MarkFailedThrows, MarkFailedIgnored, Failable, FailRows, rowVars
<1>10. ASSUME NEW q \in Payouts, MarkSettled(q) PROVE Remembers(p)
  BY <1>10 DEF Remembers, PayoutsInv, TypeOK, MarkSettled
<1>11. CASE Player
  BY <1>11, <1>2, <1>3 DEF Player
<1>12. CASE Administrator
  BY <1>12, <1>1, <1>4, <1>5 DEF Administrator, ToggleFreeze, rowVars
<1>13. ASSUME NEW w \in Workers, Process(w) PROVE Remembers(p)
  BY <1>13, <1>1, <1>6, <1>7, <1>8
  DEF Process, StartProcess, NotClaimed, TransferAccepted, TransferAnswerLost, TransferRefused,
     MarkPaidLost, Crash, rowVars
<1>14. CASE Webhook
  BY <1>14, <1>1, <1>9, <1>10 DEF Webhook, ClaimEvent, FinishEvent, CrashHandler, rowVars
<1>15. CASE Environment
  BY <1>15, <1>1 DEF Environment, OtherEntry, AccountUpdated, Elapse, StripeResolves, rowVars
<1>16. CASE UNCHANGED vars
  BY <1>16, <1>1 DEF vars, rowVars
<1> QED BY <1>11, <1>12, <1>13, <1>14, <1>15, <1>16 DEF Next

(* A recorded transfer is never forgotten, and only its return takes PAID    *)
(* back.                                                                     *)
THEOREM TransferKept == Spec => TransferIsRemembered
<1>1. PayoutsInv /\ [Next]_vars
      => [\A p \in Payouts :
            /\ transferId[p] => transferId'[p]
            /\ status[p] = "PAID" /\ status'[p] # "PAID"
                 => status'[p] = "FAILED" /\ transfer[p] = "returned"
            /\ settled[p] /\ ~settled'[p] => status'[p] = "FAILED"]_vars
  BY RememberStep DEF Remembers
<1> QED BY <1>1, Invariance, PTL DEF Spec, TransferIsRemembered

-----------------------------------------------------------------------------
(* What is shown.                                                            *)

(* How the status of a payout moves, and what else moves with it.            *)
StatusMoves(p) ==
    /\ \/ status'[p] = status[p]
       \/ status[p] = "NONE" /\ status'[p] = "PENDING_REVIEW" /\ p \in Withdrawals
       \/ status[p] \in ApprovableFrom /\ status'[p] = "APPROVED"
       \/ status[p] \in CancellableFrom /\ status'[p] = "CANCELLED"
       \/ status[p] = "APPROVED" /\ status'[p] = "PROCESSING" /\ ~transferId[p]
       \/ status[p] = "PROCESSING" /\ status'[p] = "APPROVED"
       \/ status[p] \in {"PROCESSING", "APPROVED"} /\ status'[p] = "PAID"
       \/ Failable(p) /\ status'[p] = "FAILED"
    /\ transferId'[p] /\ ~transferId[p] => status'[p] = "PAID"
    /\ transfer[p] = "returned" => transfer'[p] = "returned"

(* What the stamps of a payout say of its status.                            *)
StampsFit(p) ==
    /\ approvedAt[p] \in BOOLEAN /\ processedAt[p] \in BOOLEAN
    /\ paidAt[p] \in BOOLEAN /\ blockerReason[p] \in BOOLEAN
    /\ paidAt[p] <=> status[p] = "PAID"
    /\ blockerReason[p] <=> status[p] \in {"PENDING_REVIEW", "CANCELLED"}
    /\ status[p] \in {"NONE", "PENDING", "PENDING_REVIEW"}
         => ~approvedAt[p] /\ ~processedAt[p] /\ ~transferId[p]
    /\ status[p] \in {"APPROVED", "PROCESSING", "PAID", "FAILED"} => approvedAt[p]
    /\ status[p] = "PROCESSING" => processedAt[p] /\ ~transferId[p]
    /\ status[p] = "FAILED" => transferId[p]
    /\ transferId[p] /\ status[p] # "PAID" => transfer[p] = "returned"
    /\ p \in Prizes => status[p] \notin {"NONE", "PENDING_REVIEW"}
    /\ p \in Withdrawals => (reservation[p] = "COMPLETED" => status[p] = "PAID")

TrackerInv == PayoutsInv /\ \A p \in Payouts : StampsFit(p)
LEMMA TrackedInitially == TrackedInit => TrackerInv
<1> SUFFICES ASSUME TrackedInit PROVE TrackerInv
  OBVIOUS
<1>1. PayoutsInv
  BY InitInv DEF TrackedInit
<1>2. ASSUME NEW p \in Payouts PROVE StampsFit(p)
  <2>1. /\ ~approvedAt[p] /\ ~processedAt[p] /\ ~paidAt[p] /\ ~blockerReason[p] /\ ~transferId[p]
        /\ approvedAt[p] \in BOOLEAN /\ processedAt[p] \in BOOLEAN
        /\ paidAt[p] \in BOOLEAN /\ blockerReason[p] \in BOOLEAN
    BY DEF TrackedInit, Init
  <2>2. /\ status[p] = IF p \in Prizes THEN "PENDING" ELSE "NONE"
        /\ p \in Withdrawals => reservation[p] = "NONE"
    BY DEF TrackedInit, Init
  <2> QED  BY <2>1, <2>2, DisjointAssumption DEF StampsFit, Payouts
<1> QED  BY <1>1, <1>2 DEF TrackerInv

(* Every transaction moves a status along one of these edges.                *)
LEMMA StatusMovesSo ==
    ASSUME PayoutsInv, [Next]_vars, NEW p \in Payouts
    PROVE  StatusMoves(p)
<1>1. UNCHANGED <<status, transferId, transfer>> => StatusMoves(p)
  BY DEF StatusMoves
<1>2. ASSUME NEW q \in Withdrawals, Request(q) PROVE StatusMoves(p)
  BY <1>2 DEF StatusMoves, PayoutsInv, TypeOK, Request
<1>3. ASSUME NEW q \in Withdrawals, CancelOwned(q) PROVE StatusMoves(p)
  BY <1>3 DEF StatusMoves, PayoutsInv, TypeOK, RequestAndPayoutAgree, CancelOwned, CancellableFrom
<1>4. ASSUME NEW q \in Payouts, Approve(q) PROVE StatusMoves(p)
  BY <1>4 DEF StatusMoves, PayoutsInv, TypeOK, Approve
<1>5. ASSUME NEW q \in Payouts, Cancel(q) PROVE StatusMoves(p)
  BY <1>5 DEF StatusMoves, PayoutsInv, TypeOK, Cancel
<1>6. ASSUME NEW w \in Workers, ClaimForProcessing(w) PROVE StatusMoves(p)
  BY <1>6 DEF StatusMoves, PayoutsInv, TypeOK, ClaimForProcessing, Claimable, Resumable
<1>7. ASSUME NEW w \in Workers, ReleaseAfterFailure(w) PROVE StatusMoves(p)
  BY <1>7 DEF StatusMoves, PayoutsInv, TypeOK, ReleaseAfterFailure
<1>8. ASSUME NEW w \in Workers, MarkPaid(w) PROVE StatusMoves(p)
  BY <1>8 DEF StatusMoves, PayoutsInv, TypeOK, MarkPaid, Payable
<1>9. ASSUME NEW q \in Payouts, MarkFailed(q) PROVE StatusMoves(p)
  BY <1>9
  DEF StatusMoves, PayoutsInv, TypeOK, MarkFailed, MarkFailedAndRelease, MarkFailedPlain,
     MarkFailedThrows, MarkFailedIgnored, Failable, FailRows, rowVars, Handled
<1>10. ASSUME NEW q \in Payouts, MarkSettled(q) PROVE StatusMoves(p)
  BY <1>10, <1>1 DEF MarkSettled, Handled
<1>11. ASSUME NEW w \in Workers, HoldTransfer(job[w]), UNCHANGED <<status, transferId>>
       PROVE  StatusMoves(p)
  BY <1>11 DEF StatusMoves, HoldTransfer, PayoutsInv, TypeOK
<1>12. ASSUME NEW q \in Payouts, NEW o \in {"landed", "returned"}, StripeResolves(q, o)
       PROVE  StatusMoves(p)
  BY <1>12 DEF StatusMoves, StripeResolves, PayoutsInv, TypeOK, rowVars
<1>13. CASE Player
  BY <1>13, <1>2, <1>3 DEF Player
<1>14. CASE Administrator
  BY <1>14, <1>1, <1>4, <1>5 DEF Administrator, ToggleFreeze, rowVars
<1>15. ASSUME NEW w \in Workers, Process(w) PROVE StatusMoves(p)
  <2>1. TransferAccepted(w) \/ TransferAnswerLost(w) => StatusMoves(p)
    BY <1>11 DEF TransferAccepted, TransferAnswerLost, rowVars
  <2> QED  BY <1>15, <1>1, <1>6, <1>7, <1>8, <2>1
           DEF Process, StartProcess, NotClaimed, TransferRefused, MarkPaidLost, Crash, rowVars
<1>16. CASE Webhook
  BY <1>16, <1>1, <1>9, <1>10 DEF Webhook, ClaimEvent, FinishEvent, CrashHandler, rowVars
<1>17. CASE Environment
  BY <1>17, <1>1, <1>12 DEF Environment, OtherEntry, AccountUpdated, Elapse, rowVars
<1>18. CASE UNCHANGED vars
  BY <1>18, <1>1 DEF vars, rowVars
<1> QED  BY <1>13, <1>14, <1>15, <1>16, <1>17, <1>18 DEF Next

(* A reservation is completed by the payment, and by nothing else kept so.   *)
LEMMA CompletedByPayment ==
    ASSUME PayoutsInv, [Next]_vars, NEW p \in Withdrawals,
           reservation[p] = "COMPLETED" => status[p] = "PAID", reservation'[p] = "COMPLETED"
    PROVE  status'[p] = "PAID"
<1>0. p \in Payouts
  BY DEF Payouts
<1>1. CASE UNCHANGED <<status, reservation>>
  BY <1>1
<1>2. ASSUME NEW q \in Withdrawals, Request(q) PROVE status'[p] = "PAID"
  BY <1>0, <1>2 DEF PayoutsInv, TypeOK, Request
<1>3. ASSUME NEW q \in Withdrawals, CancelOwned(q) PROVE status'[p] = "PAID"
  BY <1>0, <1>3 DEF PayoutsInv, TypeOK, CancelOwned, ReleaseReservation
<1>4. ASSUME NEW q \in Payouts, Approve(q) PROVE status'[p] = "PAID"
  BY <1>0, <1>4 DEF PayoutsInv, TypeOK, Approve, ApprovableFrom, moneyVars
<1>5. ASSUME NEW q \in Payouts, Cancel(q) PROVE status'[p] = "PAID"
  BY <1>0, <1>5 DEF PayoutsInv, TypeOK, Cancel, CancelPlain, CancelAndRelease, ReleaseReservation,
                    CancellableFrom, Holding, moneyVars
<1>6. ASSUME NEW w \in Workers, ClaimForProcessing(w) PROVE status'[p] = "PAID"
  BY <1>0, <1>6 DEF PayoutsInv, TypeOK, ClaimForProcessing, Claimable, Resumable, moneyVars
<1>7. ASSUME NEW w \in Workers, ReleaseAfterFailure(w) PROVE status'[p] = "PAID"
  BY <1>0, <1>7 DEF PayoutsInv, TypeOK, ReleaseAfterFailure, moneyVars
<1>8. ASSUME NEW w \in Workers, MarkPaid(w) PROVE status'[p] = "PAID"
  BY <1>0, <1>8 DEF PayoutsInv, TypeOK, MarkPaid
<1>9. ASSUME NEW q \in Payouts, MarkFailed(q) PROVE status'[p] = "PAID"
  BY <1>0, <1>9
  DEF PayoutsInv, TypeOK, ReleasedIsNeverPaid, RecordMatchesTransfer, MarkFailed, MarkFailedAndRelease, MarkFailedPlain,
     MarkFailedThrows, MarkFailedIgnored, Failable, FailRows, ReleaseReservation, Holding, rowVars, moneyVars
<1>10. CASE Player
  BY <1>10, <1>2, <1>3 DEF Player
<1>11. CASE Administrator
  BY <1>11, <1>1, <1>4, <1>5 DEF Administrator, ToggleFreeze, rowVars, moneyVars
<1>12. ASSUME NEW w \in Workers, Process(w) PROVE status'[p] = "PAID"
  BY <1>12, <1>1, <1>6, <1>7, <1>8
  DEF Process, StartProcess, NotClaimed, TransferAccepted, TransferAnswerLost, TransferRefused,
     MarkPaidLost, Crash, rowVars, moneyVars
<1>13. CASE Webhook
  BY <1>13, <1>1, <1>9 DEF Webhook, MarkSettled, ClaimEvent, FinishEvent, CrashHandler, rowVars, moneyVars
<1>14. CASE Environment
  BY <1>14, <1>1 DEF Environment, OtherEntry, AccountUpdated, Elapse, StripeResolves, rowVars, moneyVars
<1>15. CASE UNCHANGED vars
  BY <1>15, <1>1 DEF vars, rowVars, moneyVars
<1> QED  BY <1>10, <1>11, <1>12, <1>13, <1>14, <1>15 DEF Next

(* The stamps, one payout at a time.                                         *)
LEMMA StampsAre ==
    ASSUME Stamp, NEW p \in Payouts, StampsFit(p)
    PROVE  /\ approvedAt'[p] \in BOOLEAN /\ processedAt'[p] \in BOOLEAN
           /\ paidAt'[p] \in BOOLEAN /\ blockerReason'[p] \in BOOLEAN
           /\ approvedAt'[p] <=> approvedAt[p] \/ Approves(p)
           /\ processedAt'[p] <=> Claims(p) \/ (processedAt[p] /\ ~Releases(p))
           /\ paidAt'[p] <=> Pays(p) \/ (paidAt[p] /\ ~Fails(p))
           /\ blockerReason'[p] <=> Requests(p) \/ Cancels(p) \/ (blockerReason[p] /\ ~Approves(p))
<1>1. CASE status' = status
  <2>1. UNCHANGED stampVars
    BY <1>1 DEF Stamp
  <2> QED  BY <1>1, <2>1 DEF stampVars, StampsFit, Approves, Claims, Releases, Pays, Fails, Requests, Cancels, Goes
<1>2. CASE status' # status
  <2>1. /\ approvedAt'[p] = (approvedAt[p] \/ Approves(p))
        /\ processedAt'[p] = (Claims(p) \/ (processedAt[p] /\ ~Releases(p)))
        /\ paidAt'[p] = (Pays(p) \/ (paidAt[p] /\ ~Fails(p)))
        /\ blockerReason'[p] = (Requests(p) \/ Cancels(p) \/ (blockerReason[p] /\ ~Approves(p)))
    BY <1>2, Zenon DEF Stamp
  <2> QED  BY <2>1, Zenon
<1> QED  BY <1>1, <1>2

LEMMA TrackerStep == TrackerInv /\ [TrackedNext]_trackedVars => TrackerInv'
<1> SUFFICES ASSUME TrackerInv, [TrackedNext]_trackedVars PROVE TrackerInv'
  OBVIOUS
<1>1. [Next]_vars /\ (Stamp \/ UNCHANGED trackedVars)
  BY DEF TrackedNext, trackedVars
<1>2. PayoutsInv /\ PayoutsInv'
  BY <1>1, NextInv DEF TrackerInv
<1>3. ASSUME NEW p \in Payouts PROVE StampsFit(p)'
  <2>0. StampsFit(p)
    BY DEF TrackerInv
  <2>1. CASE UNCHANGED trackedVars
    BY <2>0, <2>1 DEF trackedVars, stampVars, vars, rowVars, moneyVars, StampsFit
  <2>2. CASE Stamp
    <3>1. StatusMoves(p)
      BY <1>1, <1>2, StatusMovesSo
    <3>2. Remembers(p)
      BY <1>1, <1>2, RememberStep
    <3>3. p \in Withdrawals => (reservation'[p] = "COMPLETED" => status'[p] = "PAID")
      BY <1>1, <1>2, <2>0, CompletedByPayment DEF StampsFit
    <3>4. /\ approvedAt'[p] \in BOOLEAN /\ processedAt'[p] \in BOOLEAN
          /\ paidAt'[p] \in BOOLEAN /\ blockerReason'[p] \in BOOLEAN
          /\ approvedAt'[p] <=> approvedAt[p] \/ Approves(p)
          /\ processedAt'[p] <=> Claims(p) \/ (processedAt[p] /\ ~Releases(p))
          /\ paidAt'[p] <=> Pays(p) \/ (paidAt[p] /\ ~Fails(p))
          /\ blockerReason'[p] <=> Requests(p) \/ Cancels(p) \/ (blockerReason[p] /\ ~Approves(p))
      BY <2>0, <2>2, StampsAre
    <3>5. /\ transferId[p] \in BOOLEAN /\ transferId'[p] \in BOOLEAN
          /\ status[p] \in PayoutStatus \cup {"NONE"} /\ status'[p] \in PayoutStatus \cup {"NONE"}
          /\ status'[p] = "PAID" => transferId'[p]
          /\ p \in Prizes => p \notin Withdrawals
      BY <1>2, DisjointAssumption DEF PayoutsInv, TypeOK, RecordMatchesTransfer
    <3>6. /\ paidAt'[p] <=> status'[p] = "PAID"
          /\ blockerReason'[p] <=> status'[p] \in {"PENDING_REVIEW", "CANCELLED"}
      BY <2>0, <3>1, <3>4, <3>5
      DEF StampsFit, StatusMoves, Failable, ApprovableFrom, CancellableFrom, PayoutStatus,
         Goes, Approves, Pays, Fails, Requests, Cancels
    <3>7. /\ status'[p] \in {"NONE", "PENDING", "PENDING_REVIEW"}
                => ~approvedAt'[p] /\ ~processedAt'[p] /\ ~transferId'[p]
          /\ status'[p] \in {"APPROVED", "PROCESSING", "PAID", "FAILED"} => approvedAt'[p]
          /\ status'[p] = "PROCESSING" => processedAt'[p] /\ ~transferId'[p]
      BY <2>0, <3>1, <3>4, <3>5
      DEF StampsFit, StatusMoves, Failable, ApprovableFrom, CancellableFrom, PayoutStatus,
         Goes, Approves, Claims, Releases
    <3>8. /\ status'[p] = "FAILED" => transferId'[p]
          /\ transferId'[p] /\ status'[p] # "PAID" => transfer'[p] = "returned"
          /\ p \in Prizes => status'[p] \notin {"NONE", "PENDING_REVIEW"}
      BY <2>0, <3>1, <3>2, <3>5
      DEF StampsFit, StatusMoves, Remembers, Failable, ApprovableFrom, CancellableFrom
    <3> QED  BY <3>3, <3>4, <3>6, <3>7, <3>8 DEF StampsFit
  <2> QED  BY <1>1, <2>1, <2>2
<1> QED  BY <1>2, <1>3 DEF TrackerInv

-----------------------------------------------------------------------------
(* Counting the steps that are done.                                         *)
Tick(S, i) == IF i \in S THEN 1 ELSE 0

LEMMA OneMore ==
    ASSUME NEW S \in SUBSET Steps, NEW k \in Nat
    PROVE  /\ IsFiniteSet(S \cap (1 .. k))
           /\ Cardinality(S \cap (1 .. k + 1)) = Cardinality(S \cap (1 .. k)) + Tick(S, k + 1)
<1>1. IsFiniteSet(1 .. k)
  BY FS_Interval
<1>2. IsFiniteSet(S \cap (1 .. k))
  BY <1>1, FS_Subset
<1>3. 1 .. k + 1 = (1 .. k) \cup {k + 1} /\ k + 1 \notin 1 .. k
  OBVIOUS
<1>4. CASE k + 1 \in S
  <2>1. S \cap (1 .. k + 1) = (S \cap (1 .. k)) \cup {k + 1} /\ k + 1 \notin S \cap (1 .. k)
    BY <1>3, <1>4
  <2> QED  BY <1>2, <1>4, <2>1, FS_AddElement DEF Tick
<1>5. CASE k + 1 \notin S
  <2>1. S \cap (1 .. k + 1) = S \cap (1 .. k)
    BY <1>3, <1>5
  <2>2. Cardinality(S \cap (1 .. k)) \in Nat
    BY <1>2, FS_CardinalityType
  <2> QED  BY <1>2, <1>5, <2>1, <2>2 DEF Tick
<1> QED  BY <1>2, <1>4, <1>5

LEMMA CountSteps ==
    ASSUME NEW S \in SUBSET Steps
    PROVE  Cardinality(S) = Tick(S, 1) + Tick(S, 2) + Tick(S, 3) + Tick(S, 4) + Tick(S, 5) + Tick(S, 6)
<1> DEFINE N(k) == Cardinality(S \cap (1 .. k))
<1>1. N(0) = 0
  <2>1. S \cap (1 .. 0) = {}
    OBVIOUS
  <2> QED  BY <2>1, FS_EmptySet
<1>2. /\ N(0 + 1) = N(0) + Tick(S, 0 + 1) /\ N(1 + 1) = N(1) + Tick(S, 1 + 1)
      /\ N(2 + 1) = N(2) + Tick(S, 2 + 1) /\ N(3 + 1) = N(3) + Tick(S, 3 + 1)
      /\ N(4 + 1) = N(4) + Tick(S, 4 + 1) /\ N(5 + 1) = N(5) + Tick(S, 5 + 1)
  BY OneMore
<1>3. N(6) = Cardinality(S)
  <2>1. S \cap (1 .. 6) = S
    BY DEF Steps
  <2> QED  BY <2>1
<1> HIDE DEF N
<1>4. /\ N(1) = N(0) + Tick(S, 1) /\ N(2) = N(1) + Tick(S, 2)
      /\ N(3) = N(2) + Tick(S, 3) /\ N(4) = N(3) + Tick(S, 4)
      /\ N(5) = N(4) + Tick(S, 5) /\ N(6) = N(5) + Tick(S, 6)
  BY <1>2
<1>5. \A i \in 1 .. 6 : Tick(S, i) \in {0, 1}
  BY DEF Tick
<1> QED  BY <1>1, <1>3, <1>4, <1>5
-----------------------------------------------------------------------------
(* What the steps of a payout say, by its status.                            *)
LEMMA DoneIs ==
    ASSUME TrackerInv, NEW p \in Payouts, status[p] # "NONE"
    PROVE  /\ Done(p, 1)
           /\ Done(p, 2) <=> status[p] # "CANCELLED" /\ verified[Owner[p]]
           /\ Done(p, 3) <=> status[p] \in {"APPROVED", "PROCESSING", "PAID", "FAILED"}
           /\ Done(p, 4) => status[p] \in {"APPROVED", "PROCESSING", "PAID", "FAILED"}
           /\ status[p] = "PROCESSING" => Done(p, 4)
           /\ Done(p, 5) <=> status[p] = "PAID"
           /\ Done(p, 6) => status[p] = "PAID" /\ transfer[p] = "landed"
<1>1. StampsFit(p) /\ status[p] \in PayoutStatus
  BY DEF TrackerInv, PayoutsInv, TypeOK
<1>2. /\ settled[p] \in BOOLEAN
      /\ settled[p] => status[p] = "PAID" /\ transfer[p] = "landed"
  BY DEF TrackerInv, PayoutsInv, TypeOK, RecordMatchesTransfer
<1> QED  BY <1>1, <1>2 DEF Done, StampsFit, PayoutStatus

LEMMA RailIs ==
    ASSUME TrackerInv, NEW p \in Payouts, status[p] # "NONE"
    PROVE  LET rail == Rail(p)
               reached(i) == rail[i] \in {"DONE", "CURRENT"}
               red == \E i \in Steps : rail[i] = "BLOCKED"
           IN /\ reached(5) <=> status[p] = "PAID"
              /\ reached(5) => reached(3) /\ transferId[p]
              /\ reached(6) => reached(5) /\ transfer[p] = "landed"
              /\ status[p] = "PROCESSING" => reached(4)
              /\ red <=> \/ p \in Withdrawals /\ wstatus[p] = "PENDING_REVIEW"
                         \/ status[p] = "FAILED"
              /\ verified[Owner[p]] /\ ~red /\ (reached(5) => reached(4)) =>
                    /\ \A i \in 1 .. 5 : reached(i + 1) => rail[i] = "DONE"
                    /\ reached(6) \/ \E i \in Steps : rail[i] = "CURRENT"
<1> DEFINE done == {i \in Steps : Done(p, i)}
           count == Cardinality(done)
           blocked == status[p] \notin {"CANCELLED", "PAID"} /\ blockerReason[p]
           rail == Rail(p)
           reached(i) == rail[i] \in {"DONE", "CURRENT"}
           red == \E i \in Steps : rail[i] = "BLOCKED"
           v == status[p] # "CANCELLED" /\ verified[Owner[p]]
           Told == /\ reached(5) <=> status[p] = "PAID"
                   /\ reached(5) => reached(3) /\ transferId[p]
                   /\ reached(6) => reached(5) /\ transfer[p] = "landed"
                   /\ status[p] = "PROCESSING" => reached(4)
                   /\ red <=> \/ p \in Withdrawals /\ wstatus[p] = "PENDING_REVIEW"
                              \/ status[p] = "FAILED"
                   /\ verified[Owner[p]] /\ ~red /\ (reached(5) => reached(4)) =>
                         /\ \A i \in 1 .. 5 : reached(i + 1) => rail[i] = "DONE"
                         /\ reached(6) \/ \E i \in Steps : rail[i] = "CURRENT"
<1> SUFFICES Told
  OBVIOUS
<1>1. \A i \in Steps :
        rail[i] = IF (blocked /\ i = count + 1) \/ (status[p] = "FAILED" /\ i = 4) THEN "BLOCKED"
                  ELSE IF i \notin done THEN "TODO"
                  ELSE IF i = count /\ count < 6 THEN "CURRENT" ELSE "DONE"
  BY DEF Rail
<1>2. count = Tick(done, 1) + Tick(done, 2) + Tick(done, 3) + Tick(done, 4) + Tick(done, 5) + Tick(done, 6)
  <2>1. done \in SUBSET Steps
    OBVIOUS
  <2> HIDE DEF done
  <2> QED  BY <2>1, CountSteps
<1>3. /\ 1 \in done
      /\ 2 \in done <=> v
      /\ 3 \in done <=> status[p] \in {"APPROVED", "PROCESSING", "PAID", "FAILED"}
      /\ 4 \in done => status[p] \in {"APPROVED", "PROCESSING", "PAID", "FAILED"}
      /\ status[p] = "PROCESSING" => 4 \in done
      /\ 5 \in done <=> status[p] = "PAID"
      /\ 6 \in done => status[p] = "PAID" /\ transfer[p] = "landed"
  <2>1. \A i \in 1 .. 6 : i \in done <=> Done(p, i)
    BY DEF Steps
  <2> HIDE DEF done
  <2> QED  BY <2>1, DoneIs
<1>4. /\ status[p] \in PayoutStatus
      /\ blocked <=> status[p] = "PENDING_REVIEW"
      /\ status[p] = "PAID" => transferId[p]
      /\ (p \in Withdrawals /\ wstatus[p] = "PENDING_REVIEW") <=> status[p] = "PENDING_REVIEW"
  <2>1. StampsFit(p) /\ status[p] \in PayoutStatus
    BY DEF TrackerInv, PayoutsInv, TypeOK
  <2>2. status[p] = "PAID" => transferId[p]
    BY DEF TrackerInv, PayoutsInv, RecordMatchesTransfer
  <2>3. p \in Withdrawals => (wstatus[p] = "PENDING_REVIEW" <=> status[p] = "PENDING_REVIEW")
    BY DEF TrackerInv, PayoutsInv, RequestAndPayoutAgree
  <2> QED  BY <2>1, <2>2, <2>3 DEF StampsFit, Payouts
<1>5. /\ Tick(done, 1) = 1 /\ Tick(done, 2) = (IF v THEN 1 ELSE 0)
      /\ \A i \in 1 .. 6 : (i \in done => Tick(done, i) = 1) /\ (i \notin done => Tick(done, i) = 0)
  BY <1>3 DEF Tick
<1>6. /\ \A i \in 1 .. 6 : i \in Steps
      /\ \A i \in Steps : i \in {1, 2, 3, 4, 5, 6}
      /\ v => status[p] # "CANCELLED"
      /\ verified[Owner[p]] /\ status[p] # "CANCELLED" => v
  BY DEF Steps
<1> HIDE DEF done, count, blocked, rail, v
<1>7. CASE status[p] = "CANCELLED"
  <2>1. count = 1 /\ ~blocked /\ \A i \in 2 .. 6 : i \notin done
    BY <1>2, <1>3, <1>4, <1>5, <1>6, <1>7
  <2>2. rail[1] = "CURRENT" /\ \A i \in 2 .. 6 : rail[i] = "TODO"
    BY <1>1, <1>3, <1>6, <1>7, <2>1
  <2> QED  BY <1>4, <1>6, <1>7, <2>2
<1>8. CASE status[p] \in {"PENDING", "PENDING_REVIEW"}
  <2>1. count = (IF v THEN 2 ELSE 1) /\ \A i \in 3 .. 6 : i \notin done
    BY <1>2, <1>3, <1>4, <1>5, <1>6, <1>8
  <2>2. /\ \A i \in 4 .. 6 : rail[i] = "TODO"
        /\ rail[3] = IF blocked /\ v THEN "BLOCKED" ELSE "TODO"
        /\ rail[2] = IF v THEN "CURRENT" ELSE IF blocked THEN "BLOCKED" ELSE "TODO"
        /\ rail[1] = IF v THEN "DONE" ELSE "CURRENT"
    BY <1>1, <1>3, <1>6, <1>8, <2>1
  <2> QED  BY <1>4, <1>6, <1>8, <2>2
<1>9. CASE status[p] = "FAILED"
  <2>1. 5 \notin done /\ 6 \notin done /\ ~blocked
    BY <1>3, <1>4, <1>9
  <2>2. rail[4] = "BLOCKED" /\ rail[5] = "TODO" /\ rail[6] = "TODO"
    BY <1>1, <1>6, <1>9, <2>1
  <2> QED  BY <1>4, <1>6, <1>9, <2>2
<1>10. CASE status[p] \in {"APPROVED", "PROCESSING"}
  <2>1. /\ count = 2 + (IF v THEN 1 ELSE 0) + Tick(done, 4) /\ ~blocked
        /\ 5 \notin done /\ 6 \notin done /\ 3 \in done
        /\ Tick(done, 4) = IF 4 \in done THEN 1 ELSE 0
    BY <1>2, <1>3, <1>4, <1>5, <1>6, <1>10
  <2>2. \A i \in Steps : rail[i] # "BLOCKED"
    BY <1>1, <1>10, <2>1
  <2>3. rail[5] = "TODO" /\ rail[6] = "TODO" /\ (4 \in done => rail[4] \in {"DONE", "CURRENT"})
    BY <1>1, <1>6, <1>10, <2>1
  <2>4. ASSUME v
        PROVE  /\ rail[1] = "DONE" /\ rail[2] = "DONE"
               /\ IF 4 \in done THEN rail[3] = "DONE" /\ rail[4] = "CURRENT"
                  ELSE rail[3] = "CURRENT" /\ rail[4] = "TODO"
    BY <1>1, <1>3, <1>6, <1>10, <2>1, <2>4
  <2>5. verified[Owner[p]] => v
    BY <1>6, <1>10
  <2>6. verified[Owner[p]] => /\ \A i \in 1 .. 5 : reached(i + 1) => rail[i] = "DONE"
                              /\ \E i \in Steps : rail[i] = "CURRENT"
    BY <1>6, <2>3, <2>4, <2>5
  <2>7. ~red /\ (status[p] = "PROCESSING" => reached(4)) /\ ~reached(5) /\ ~reached(6)
    BY <1>3, <2>2, <2>3
  <2> HIDE DEF reached, red
  <2> QED  BY <1>4, <1>10, <2>6, <2>7
<1>11. CASE status[p] = "PAID"
  <2>1. /\ count = 3 + (IF v THEN 1 ELSE 0) + (IF 4 \in done THEN 1 ELSE 0) + (IF 6 \in done THEN 1 ELSE 0)
        /\ 3 \in done /\ 5 \in done /\ ~blocked
    BY <1>2, <1>3, <1>4, <1>5, <1>6, <1>11
  <2>2. \A i \in Steps : rail[i] # "BLOCKED"
    BY <1>1, <1>11, <2>1
  <2>3. \A i \in Steps : rail[i] \in {"DONE", "CURRENT"} <=> i \in done
    BY <1>1, <1>11, <2>1
  <2>4. reached(3) /\ reached(5) /\ (reached(4) <=> 4 \in done) /\ (reached(6) <=> 6 \in done)
    BY <1>6, <2>1, <2>3
  <2>5. verified[Owner[p]] => v
    BY <1>6, <1>11
  <2>6. ASSUME v, 4 \in done
        PROVE  /\ \A i \in 1 .. 5 : reached(i + 1) => rail[i] = "DONE"
               /\ reached(6) \/ \E i \in Steps : rail[i] = "CURRENT"
    <3>1. count = IF 6 \in done THEN 6 ELSE 5
      BY <2>1, <2>6
    <3>2. \A i \in 1 .. 4 : rail[i] = "DONE"
      BY <1>1, <1>3, <1>6, <1>11, <2>1, <2>6, <3>1
    <3>3. CASE 6 \in done
      <4>1. rail[5] = "DONE" /\ rail[6] = "DONE"
        BY <1>1, <1>6, <1>11, <2>1, <3>1, <3>3
      <4> QED  BY <3>2, <4>1
    <3>4. CASE 6 \notin done
      <4>1. rail[5] = "CURRENT" /\ rail[6] = "TODO"
        BY <1>1, <1>6, <1>11, <2>1, <3>1, <3>4
      <4> QED  BY <1>6, <3>2, <4>1
    <3> QED  BY <3>3, <3>4
  <2>7. ~red /\ (6 \in done => transfer[p] = "landed")
    BY <1>3, <2>2
  <2> HIDE DEF reached, red
  <2> QED  BY <1>4, <1>11, <2>4, <2>5, <2>6, <2>7
<1> QED  BY <1>4, <1>7, <1>8, <1>9, <1>10, <1>11 DEF PayoutStatus

LEMMA ButtonsAre == TrackerInv => ButtonsWork
<1> SUFFICES ASSUME TrackerInv, NEW p \in Payouts
             PROVE  /\ AdvanceAction(p) = "PROCESS" <=> Processable(p) /\ status[p] = "APPROVED"
                    /\ p \in Outstanding /\ AdvanceAction(p) = "none" /\ verified[Owner[p]]
                         => status[p] = "PROCESSING" \/ (transferId[p] /\ transfer[p] = "returned")
  BY DEF ButtonsWork
<1>1. StampsFit(p) /\ status[p] \in PayoutStatus \cup {"NONE"} /\ transferId[p] \in BOOLEAN
  BY DEF TrackerInv, PayoutsInv, TypeOK
<1> QED  BY <1>1 DEF StampsFit, AdvanceAction, IsPayable, Processable, Outstanding, ApprovableFrom, PayoutStatus

(* A withdrawal, as its player is shown it.                                  *)
LEMMA WithdrawalIs ==
    ASSUME TrackerInv, NEW p \in Withdrawals
    PROVE  /\ WithdrawalShown(p) \in {"DECLINED", "CANCELLED", "FAILED"} => released[p]
           /\ WithdrawalShown(p) \in {"PENDING_REVIEW", "PROCESSING", "PAID", "SETTLED"}
                => ~released[p] /\ reservation[p] # "NONE"
           /\ WithdrawalShown(p) = "PENDING_REVIEW" <=> status[p] = "PENDING_REVIEW"
           /\ status[p] = "PAID" <=> reservation[p] = "COMPLETED"
           /\ released[p] => status[p] = "CANCELLED" \/ transfer[p] = "returned"
<1>1. p \in Payouts
  BY DEF Payouts
<1>2. StampsFit(p) /\ status[p] \in PayoutStatus \cup {"NONE"} /\ released[p] \in BOOLEAN /\ transferId[p] \in BOOLEAN
  BY <1>1 DEF TrackerInv, PayoutsInv, TypeOK
<1>3. /\ wstatus[p] = "PENDING_REVIEW" <=> status[p] = "PENDING_REVIEW"
      /\ wstatus[p] \in {"DECLINED", "CANCELLED"} => status[p] = "CANCELLED" /\ released[p]
      /\ status[p] = "CANCELLED" => released[p]
      /\ released[p] => /\ status[p] \notin {"PROCESSING", "PAID"}
                        /\ status[p] = "CANCELLED" \/ transferId[p]
  BY DEF TrackerInv, PayoutsInv, RequestAndPayoutAgree, ReleasedIsNeverPaid
<1>4. /\ status[p] = "PENDING_REVIEW" => ~released[p]
      /\ status[p] = "NONE" <=> reservation[p] = "NONE"
      /\ transferId[p] => status[p] = "PAID" \/ released[p]
      /\ status[p] = "PAID" => reservation[p] = "COMPLETED"
  BY <1>1 DEF TrackerInv, PayoutsInv, Bookkeeping, RecordMatchesTransfer
<1> QED  BY <1>2, <1>3, <1>4 DEF StampsFit, WithdrawalShown, PayoutStatus

LEMMA PrizeIs ==
    ASSUME TrackerInv, NEW p \in Prizes
    PROVE  /\ DistributionStatus(p) = "SENT" <=> prizeRow[p] = "COMPLETED"
           /\ status[p] = "PAID" <=> prizeRow[p] = "COMPLETED"
<1>1. p \in Payouts
  BY DEF Payouts
<1>2. status[p] \in PayoutStatus \cup {"NONE"} /\ (status[p] = "PAID" <=> prizeRow[p] = "COMPLETED")
  BY <1>1 DEF TrackerInv, PayoutsInv, TypeOK, RecordMatchesTransfer
<1>3. DistributionStatus(p) = "SENT" <=> status[p] = "PAID"
  <2>1. CASE status[p] = "PAID"
    BY <2>1 DEF DistributionStatus
  <2>2. CASE status[p] \in {"PENDING", "PENDING_REVIEW"}
    BY <2>2 DEF DistributionStatus
  <2>3. CASE status[p] \notin {"PAID", "PENDING", "PENDING_REVIEW"}
    <3>1. DistributionStatus(p) = status[p]
      BY <2>3 DEF DistributionStatus
    <3> QED  BY <1>2, <2>3, <3>1 DEF PayoutStatus
  <2> QED  BY <2>1, <2>2, <2>3
<1> QED  BY <1>2, <1>3

LEMMA CardsAre == TrackerInv => CardsAddUp
<1> SUFFICES ASSUME TrackerInv PROVE CardsAddUp
  OBVIOUS
<1>0. \A p \in Payouts : StampsFit(p) /\ transferId[p] \in BOOLEAN
  BY DEF TrackerInv, PayoutsInv, TypeOK
<1>1. Stats.paidOut = {p \in Prizes : prizeRow[p] = "COMPLETED"}
                      \cup {p \in Withdrawals : reservation[p] = "COMPLETED"}
  BY PrizeIs, WithdrawalIs DEF Stats, Payouts
<1>2. Stats.readyToSend = {p \in Payouts : AdvanceAction(p) = "PROCESS"}
  BY <1>0 DEF Stats, AdvanceAction, IsPayable
<1>3. Stats.blocked = TrackerStats.awaitingAction
  BY <1>0 DEF Stats, TrackerStats
<1>4. Stats.blocked = {p \in Withdrawals : WithdrawalShown(p) = "PENDING_REVIEW"}
  <2>1. ASSUME NEW p \in Payouts
        PROVE  p \in Stats.blocked <=> p \in Withdrawals /\ WithdrawalShown(p) = "PENDING_REVIEW"
    <3>1. p \in Stats.blocked <=> status[p] = "PENDING_REVIEW"
      BY <1>0 DEF Stats, Outstanding, StampsFit
    <3>2. status[p] = "PENDING_REVIEW" => p \in Withdrawals
      BY <1>0 DEF StampsFit, Payouts
    <3> QED  BY <3>1, <3>2, WithdrawalIs
  <2>2. Stats.blocked \subseteq Payouts
    BY DEF Stats, Outstanding
  <2> QED  BY <2>1, <2>2 DEF Payouts
<1>5. TrackerStats.inProcessing \subseteq Stats.pending \cap Stats.owed
  BY DEF Stats, TrackerStats, Outstanding
<1>6. \A p \in Stats.owed \cap Withdrawals : Holding(p) \/ transfer[p] = "returned"
  BY WithdrawalIs DEF Stats, Outstanding, Holding
<1> QED  BY <1>1, <1>2, <1>3, <1>4, <1>5, <1>6 DEF CardsAddUp

(* The transfers and the tracker agree in every state.                       *)
THEOREM TrackerInvariance == TrackedSpec => []TrackerInv
  BY TrackedInitially, TrackerStep, PTL DEF TrackedSpec

(* What operators and players are shown of a payout is true of the wallet, of *)
(* the ledger and of Stripe: the rail of its steps, the button of its row, the *)
(* player's own list and the cards of two pages, for any payouts and workers. *)
THEOREM ShownAlwaysTrue == TrackedSpec => []ShownIsTrue
<1>1. TrackerInv => ShownIsTrue
  <2>1. TrackerInv => RailIsTrue
    BY RailIs DEF RailIsTrue
  <2>2. TrackerInv => PlayersAreToldTheTruth
    BY WithdrawalIs, PrizeIs DEF PlayersAreToldTheTruth
  <2> QED  BY <2>1, <2>2, ButtonsAre, CardsAre DEF ShownIsTrue
<1> QED  BY <1>1, TrackerInvariance, PTL
=============================================================================
