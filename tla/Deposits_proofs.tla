--------------------------- MODULE Deposits_proofs ---------------------------
(***************************************************************************)
(* The deposit module, proved for any deposits, amounts, callers and       *)
(* delivery regimes: a deposit from which Stripe took nothing back is      *)
(* credited once or not at all; while notices are handled one at a time    *)
(* the deposit's row says what the ledger rows add up to; and while they   *)
(* come in order as well, row, status and ledger tell what Stripe tells.   *)
(***************************************************************************)
EXTENDS Deposits, FiniteSetTheorems, SequenceTheorems, TLAPS

(* What Stripe can say: of a deposit, never more than it is worth.           *)
Wire == {n \in [deposit : Deposits, type : Types, total : Nat] :
            n.total <= Amount[n.deposit]}

PcValues       == {"idle", "opened", "answered", "expiring", "cancelling"}
CheckoutValues == {"none", "open", "unpaid", "paid", "declined", "expired"}
HookValues     == {"none", "RECEIVED", "PROCESSED", "FAILED"}
StageValues    == {"idle", "claimed", "read", "applied", "threw"}
Readings       == [refunded : Nat, disputed : Nat]

RowTables ==
    /\ status   \in [Deposits -> Statuses \cup {"NONE"}]
    /\ credited \in [Deposits -> BOOLEAN]
    /\ refunded \in [Deposits -> Nat]
    /\ disputed \in [Deposits -> Nat]
    /\ session  \in [Deposits -> BOOLEAN]
    /\ intent   \in [Deposits -> BOOLEAN]
    /\ net      \in [Deposits -> Int]
    /\ balance  \in Int

CallTables ==
    /\ pc  \in [Callers -> PcValues]
    /\ job \in [Callers -> Deposits \cup {NoDeposit}]
    /\ reattached \subseteq Deposits
    /\ \A c \in Callers : pc[c] # "idle" => job[c] \in Deposits

StripeTables ==
    /\ checkout \in [Deposits -> CheckoutValues]
    /\ returned \in [Deposits -> Nat]
    /\ dispute  \in [Deposits -> {"none", "open", "won", "lost"}]
    /\ sent     \in Seq(Wire)
    /\ IsFiniteSet(Sent)

HookTables ==
    /\ hook  \in [Sent -> HookValues]
    /\ stage \in [Sent -> StageValues]
    /\ read  \in [Sent -> Readings]
    /\ crashes \in 0 .. MaxCrashes
    /\ delivery \in Deliveries

(* A notice that takes money back, or gives it back, tells of something that *)
(* happened at Stripe; and no other notice reads the row and writes later.   *)
Withdraws == DisputeTypes \cup RestoreTypes

NoticesAreMeant ==
    \A n \in Sent :
        /\ n.type = "refunded" => returned[n.deposit] # 0
        /\ n.type \in Withdraws => dispute[n.deposit] # "none"
        /\ stage[n] = "read" => n.type \in Withdraws \cup {"refunded"}

(* One notice is handled at a time, and what its handler read of the deposit *)
(* is still the row; a notice that takes tokens back found them credited.    *)
OneHandler ==
    OneAtATime => \A m, n \in Sent : Busy(m) /\ Busy(n) => m = n

ReadIsCurrent ==
    OneAtATime => \A n \in Sent : stage[n] = "read" =>
        /\ read[n].refunded = refunded[n.deposit]
        /\ read[n].disputed = disputed[n.deposit]
        /\ n.type \notin RestoreTypes => credited[n.deposit]

DepositsInv ==
    /\ RowTables
    /\ CallTables
    /\ StripeTables
    /\ HookTables
    /\ NoticesAreMeant
    /\ CreditedExactlyOnce
    /\ OneHandler
    /\ ReadIsCurrent
    /\ LedgerAgrees

-----------------------------------------------------------------------------
(* What Stripe's sending does to the list of notices.                        *)

LEMMA NotedAdds ==
    ASSUME NEW ns \in Seq(Wire), NEW n \in Wire
    PROVE  /\ Noted(ns, n) \in Seq(Wire)
           /\ {Noted(ns, n)[i] : i \in DOMAIN Noted(ns, n)}
                = {ns[i] : i \in DOMAIN ns} \cup {n}
<1>1. CASE \E i \in DOMAIN ns : ns[i] = n
  BY <1>1 DEF Noted
<1>2. CASE ~ \E i \in DOMAIN ns : ns[i] = n
  <2>1. Noted(ns, n) = Append(ns, n)
    BY <1>2 DEF Noted
  <2>2. /\ Append(ns, n) \in Seq(Wire)
        /\ DOMAIN ns = 1 .. Len(ns)
        /\ DOMAIN Append(ns, n) = 1 .. (Len(ns) + 1)
        /\ Len(ns) \in Nat
        /\ \A i \in 1 .. Len(ns) : Append(ns, n)[i] = ns[i]
        /\ Append(ns, n)[Len(ns) + 1] = n
    OBVIOUS
  <2> QED  BY <2>1, <2>2
<1> QED  BY <1>1, <1>2

LEMMA EmitAdds ==
    ASSUME StripeTables, HookTables, NEW m \in Wire, NEW n \in Wire, Emit(m, n)
    PROVE  /\ sent' \in Seq(Wire)
           /\ Sent' = Sent \cup {m, n}
           /\ IsFiniteSet(Sent')
           /\ HookTables'
           /\ \A k \in Sent : /\ hook'[k] = hook[k]
                              /\ stage'[k] = stage[k]
                              /\ read'[k] = read[k]
           /\ \A k \in Sent' : k \notin Sent => stage'[k] = "idle" /\ hook'[k] = "none"
<1>1. sent' = Noted(Noted(sent, m), n)
  BY DEF Emit
<1>2. /\ Noted(sent, m) \in Seq(Wire)
      /\ {Noted(sent, m)[i] : i \in DOMAIN Noted(sent, m)} = Sent \cup {m}
  BY NotedAdds DEF StripeTables, Sent
<1>3. /\ sent' \in Seq(Wire)
      /\ Sent' = (Sent \cup {m}) \cup {n}
  <2> DEFINE ns == Noted(sent, m)
  <2>1. ns \in Seq(Wire) /\ {ns[i] : i \in DOMAIN ns} = Sent \cup {m}
    BY <1>2
  <2> HIDE DEF ns
  <2>2. /\ Noted(ns, n) \in Seq(Wire)
        /\ {Noted(ns, n)[i] : i \in DOMAIN Noted(ns, n)} = {ns[i] : i \in DOMAIN ns} \cup {n}
    BY <2>1, NotedAdds
  <2>3. sent' = Noted(ns, n)
    BY <1>1 DEF ns
  <2>4. Sent' = {sent'[i] : i \in DOMAIN sent'}
    BY DEF Sent
  <2> QED  BY <2>1, <2>2, <2>3, <2>4
<1>4. Sent' = Sent \cup {m, n}
  BY <1>3
<1>5. IsFiniteSet(Sent')
  BY <1>3, FS_AddElement DEF StripeTables
<1>6. /\ hook'  = [k \in Sent' |-> IF k \in Sent THEN hook[k] ELSE "none"]
      /\ stage' = [k \in Sent' |-> IF k \in Sent THEN stage[k] ELSE "idle"]
      /\ read'  = [k \in Sent' |-> IF k \in Sent THEN read[k] ELSE Nothing]
      /\ crashes' = crashes /\ delivery' = delivery
  BY <1>4 DEF Emit
<1>7. Nothing \in Readings
  BY DEF Nothing, Readings
<1>8. HookTables'
  BY <1>6, <1>7 DEF HookTables, HookValues, StageValues
<1> QED  BY <1>3, <1>4, <1>5, <1>6, <1>8

-----------------------------------------------------------------------------
(* The three kinds of step: a call of the player, an event at Stripe, a step *)
(* of a handler.                                                             *)

(* A call touches no money and no notice.                                    *)
LEMMA CallKeepsMoney ==
    ASSUME DepositsInv, RowTables', CallTables', checkout' \in [Deposits -> CheckoutValues],
           UNCHANGED <<credited, refunded, disputed, net, balance, returned, dispute,
                       sent, hook, stage, read, crashes, delivery>>
    PROVE  DepositsInv'
<1>1. Sent' = Sent
  BY DEF Sent
<1>2. StripeTables' /\ HookTables'
  BY <1>1 DEF DepositsInv, StripeTables, HookTables
<1>3. NoticesAreMeant' /\ OneHandler' /\ ReadIsCurrent'
  BY <1>1 DEF DepositsInv, NoticesAreMeant, OneHandler, ReadIsCurrent, OneAtATime, Busy
<1>4. CreditedExactlyOnce' /\ LedgerAgrees'
  BY DEF DepositsInv, CreditedExactlyOnce, LedgerAgrees, OneAtATime
<1> QED  BY <1>2, <1>3, <1>4 DEF DepositsInv

(* An event at Stripe touches no row: it sends what happened.                *)
LEMMA EventKeepsMoney ==
    ASSUME DepositsInv, CallTables', NEW m \in Wire, NEW n \in Wire, Emit(m, n),
           UNCHANGED <<rowVars, moneyVars>>,
           checkout' \in [Deposits -> CheckoutValues],
           returned' \in [Deposits -> Nat],
           dispute'  \in [Deposits -> {"none", "open", "won", "lost"}],
           \A d \in Deposits : returned[d] # 0 => returned'[d] # 0,
           \A d \in Deposits : dispute[d] # "none" => dispute'[d] # "none",
           \A k \in {m, n} : /\ k.type = "refunded" => returned'[k.deposit] # 0
                             /\ k.type \in Withdraws => dispute'[k.deposit] # "none"
    PROVE  DepositsInv'
<1>1. /\ StripeTables /\ HookTables
      /\ Sent \subseteq Wire
  BY DEF DepositsInv, StripeTables, Sent
<1>2. /\ sent' \in Seq(Wire)
      /\ Sent' = Sent \cup {m, n}
      /\ IsFiniteSet(Sent')
      /\ HookTables'
      /\ \A k \in Sent : stage'[k] = stage[k] /\ read'[k] = read[k]
      /\ \A k \in Sent' : k \notin Sent => stage'[k] = "idle"
  BY <1>1, EmitAdds
<1>3. RowTables' /\ StripeTables'
  BY <1>2 DEF DepositsInv, RowTables, StripeTables, rowVars, moneyVars
<1>4. delivery' = delivery
  BY DEF Emit
<1>5. NoticesAreMeant'
  <2>1. \A k \in Sent : k.deposit \in Deposits
    BY <1>1 DEF Wire
  <2> SUFFICES ASSUME NEW k \in Sent'
               PROVE  /\ k.type = "refunded" => returned'[k.deposit] # 0
                      /\ k.type \in Withdraws => dispute'[k.deposit] # "none"
                      /\ stage'[k] = "read" => k.type \in Withdraws \cup {"refunded"}
    BY DEF NoticesAreMeant
  <2>2. CASE k \in Sent
    BY <1>2, <2>1, <2>2 DEF DepositsInv, NoticesAreMeant
  <2>3. CASE k \notin Sent
    BY <1>2, <2>3
  <2> QED  BY <2>2, <2>3
<1>6. OneHandler'
  BY <1>2, <1>4 DEF DepositsInv, OneHandler, OneAtATime, Busy
<1>7. ReadIsCurrent'
  BY <1>2, <1>4 DEF DepositsInv, ReadIsCurrent, OneAtATime, rowVars
<1>8. CreditedExactlyOnce' /\ LedgerAgrees'
  BY <1>4 DEF DepositsInv, CreditedExactlyOnce, LedgerAgrees, OneAtATime, rowVars, moneyVars
<1> QED  BY <1>2, <1>3, <1>5, <1>6, <1>7, <1>8 DEF DepositsInv

-----------------------------------------------------------------------------
LEMMA DepositsInitially == Init => DepositsInv
<1> SUFFICES ASSUME Init PROVE DepositsInv
  OBVIOUS
<1>1. Sent = {} /\ IsFiniteSet(Sent)
  <2>1. sent = << >>
    BY DEF Init
  <2>2. DOMAIN sent = {}
    BY <2>1
  <2>3. Sent = {}
    BY <2>2 DEF Sent
  <2> QED  BY <2>3, FS_EmptySet
<1>2. balance \in Int
  BY OpeningsAssumption DEF Init
<1>3. RowTables
  BY <1>2 DEF Init, RowTables
<1>4. CallTables
  BY DEF Init, CallTables, PcValues
<1>5. StripeTables
  BY <1>1 DEF Init, StripeTables, CheckoutValues
<1>6. HookTables
  BY <1>1, BoundAssumption DEF Init, HookTables
<1>7. NoticesAreMeant /\ OneHandler /\ ReadIsCurrent
  BY <1>1 DEF NoticesAreMeant, OneHandler, ReadIsCurrent
<1>8. CreditedExactlyOnce
  BY DEF Init, CreditedExactlyOnce
<1>9. LedgerAgrees
  BY AmountAssumption DEF Init, LedgerAgrees
<1> QED  BY <1>3, <1>4, <1>5, <1>6, <1>7, <1>8, <1>9 DEF DepositsInv

LEMMA CallStep ==
    ASSUME DepositsInv, NEW c \in Callers, Call(c)
    PROVE  DepositsInv'
<1>1. RowTables /\ CallTables /\ StripeTables
  BY DEF DepositsInv
<1>2. CASE \E d \in Deposits : Open(c, d) \/ StartCancel(c, d)
  <2> PICK d \in Deposits : Open(c, d) \/ StartCancel(c, d)
    BY <1>2
  <2>1. CASE Open(c, d)
    <3>1. RowTables'
      BY <1>1, <2>1 DEF Open, RowTables, Statuses, moneyVars
    <3>2. CallTables'
      BY <1>1, <2>1 DEF Open, Step, CallTables, PcValues
    <3>3. checkout' \in [Deposits -> CheckoutValues]
      BY <1>1, <2>1 DEF Open, StripeTables, stripeVars
    <3>4. UNCHANGED <<credited, refunded, disputed, net, balance, returned, dispute,
                      sent, hook, stage, read, crashes, delivery>>
      BY <2>1 DEF Open, moneyVars, stripeVars, hookVars
    <3> QED  BY <3>1, <3>2, <3>3, <3>4, CallKeepsMoney
  <2>2. CASE StartCancel(c, d)
    <3>1. RowTables'
      BY <1>1, <2>2 DEF StartCancel, RowTables, rowVars, moneyVars
    <3>2. CallTables'
      BY <1>1, <2>2 DEF StartCancel, Step, CallTables, PcValues
    <3>3. checkout' \in [Deposits -> CheckoutValues]
      BY <1>1, <2>2 DEF StartCancel, StripeTables, stripeVars
    <3>4. UNCHANGED <<credited, refunded, disputed, net, balance, returned, dispute,
                      sent, hook, stage, read, crashes, delivery>>
      BY <2>2 DEF StartCancel, rowVars, moneyVars, stripeVars, hookVars
    <3> QED  BY <3>1, <3>2, <3>3, <3>4, CallKeepsMoney
  <2> QED  BY <2>1, <2>2
<1>3. CASE StripeOpensSession(c)
  <2>0. job[c] \in Deposits
    BY <1>1, <1>3 DEF StripeOpensSession, Step, CallTables
  <2>1. RowTables'
    BY <1>1, <1>3 DEF StripeOpensSession, RowTables, rowVars, moneyVars
  <2>2. CallTables'
    BY <1>1, <1>3 DEF StripeOpensSession, Step, CallTables, PcValues
  <2>3. checkout' \in [Deposits -> CheckoutValues]
    BY <2>0, <1>1, <1>3 DEF StripeOpensSession, StripeTables, CheckoutValues
  <2>4. UNCHANGED <<credited, refunded, disputed, net, balance, returned, dispute,
                    sent, hook, stage, read, crashes, delivery>>
    BY <1>3 DEF StripeOpensSession, rowVars, moneyVars, hookVars
  <2> QED  BY <2>1, <2>2, <2>3, <2>4, CallKeepsMoney
<1>4. CASE StripeFails(c) \/ ExpireRefused(c)
  <2>1. RowTables'
    BY <1>1, <1>4 DEF StripeFails, ExpireRefused, RowTables, rowVars, moneyVars
  <2>2. CallTables'
    BY <1>1, <1>4 DEF StripeFails, ExpireRefused, Return, Step, CallTables, PcValues
  <2>3. checkout' \in [Deposits -> CheckoutValues]
    BY <1>1, <1>4 DEF StripeFails, ExpireRefused, StripeTables, stripeVars
  <2>4. UNCHANGED <<credited, refunded, disputed, net, balance, returned, dispute,
                    sent, hook, stage, read, crashes, delivery>>
    BY <1>4 DEF StripeFails, ExpireRefused, rowVars, moneyVars, stripeVars, hookVars
  <2> QED  BY <2>1, <2>2, <2>3, <2>4, CallKeepsMoney
<1>5. CASE \E given \in BOOLEAN : AttachCheckout(c, given)
  <2> PICK given \in BOOLEAN : AttachCheckout(c, given)
    BY <1>5
  <2>0. job[c] \in Deposits
    BY <1>1 DEF AttachCheckout, Return, Step, CallTables
  <2>1. RowTables'
    BY <2>0, <1>1 DEF AttachCheckout, RowTables, Statuses, moneyVars
  <2>2. CallTables'
    BY <1>1 DEF AttachCheckout, Return, Step, CallTables, PcValues
  <2>3. checkout' \in [Deposits -> CheckoutValues]
    BY <1>1 DEF AttachCheckout, StripeTables, stripeVars
  <2>4. UNCHANGED <<credited, refunded, disputed, net, balance, returned, dispute,
                    sent, hook, stage, read, crashes, delivery>>
    BY DEF AttachCheckout, moneyVars, stripeVars, hookVars
  <2> QED  BY <2>1, <2>2, <2>3, <2>4, CallKeepsMoney
<1>6. CASE ExpireSession(c)
  <2> DEFINE n == Notice(job[c], "expired", 0)
  <2>0. job[c] \in Deposits
    BY <1>1, <1>6 DEF ExpireSession, Step, CallTables
  <2>1. n \in Wire /\ n.type = "expired"
    BY <2>0, AmountAssumption DEF Notice, Wire, Types, OtherTypes
  <2>2. Emit(n, n)
    BY <1>6 DEF ExpireSession, EmitOne
  <2>3. CallTables'
    BY <1>1, <1>6 DEF ExpireSession, Step, CallTables, PcValues
  <2>4. /\ checkout' \in [Deposits -> CheckoutValues]
        /\ UNCHANGED <<rowVars, moneyVars>>
        /\ returned' = returned /\ dispute' = dispute
    BY <1>1, <1>6 DEF ExpireSession, MoveCheckout, StripeTables, CheckoutValues
  <2>5. returned' \in [Deposits -> Nat] /\ dispute' \in [Deposits -> {"none", "open", "won", "lost"}]
    BY <2>4, <1>1 DEF StripeTables
  <2>6. \A k \in {n} : k.type \notin Withdraws \cup {"refunded"}
    BY <2>1 DEF Withdraws, DisputeTypes, RestoreTypes
  <2> HIDE DEF n
  <2> QED  BY <2>1, <2>2, <2>3, <2>4, <2>5, <2>6, EventKeepsMoney
<1>7. CASE MarkCanceled(c)
  <2>0. job[c] \in Deposits
    BY <1>1, <1>7 DEF MarkCanceled, Return, Step, CallTables
  <2>1. RowTables'
    BY <2>0, <1>1, <1>7 DEF MarkCanceled, CancelIt, RowTables, Statuses, moneyVars
  <2>2. CallTables'
    BY <1>1, <1>7 DEF MarkCanceled, Return, Step, CallTables, PcValues
  <2>3. checkout' \in [Deposits -> CheckoutValues]
    BY <1>1, <1>7 DEF MarkCanceled, StripeTables, stripeVars
  <2>4. UNCHANGED <<credited, refunded, disputed, net, balance, returned, dispute,
                    sent, hook, stage, read, crashes, delivery>>
    BY <1>7 DEF MarkCanceled, moneyVars, stripeVars, hookVars
  <2> QED  BY <2>1, <2>2, <2>3, <2>4, CallKeepsMoney
<1> QED  BY <1>2, <1>3, <1>4, <1>5, <1>6, <1>7 DEF Call

(* What an event at Stripe sends, and what it changes there.                 *)
LEMMA StripeStep ==
    ASSUME DepositsInv, NEW d \in Deposits, Stripe(d)
    PROVE  DepositsInv'
<1>1. RowTables /\ CallTables /\ StripeTables
  BY DEF DepositsInv
<1>2. Amount[d] \in Nat /\ Amount[d] # 0 /\ returned[d] \in Nat
  BY <1>1, AmountAssumption DEF StripeTables
<1>3. ASSUME NEW t \in Types, NEW a \in Nat, a <= Amount[d]
      PROVE  Notice(d, t, a) \in Wire /\ Notice(d, t, a).type = t /\ Notice(d, t, a).deposit = d
  BY <1>3 DEF Notice, Wire
<1>4. ASSUME NEW t \in SettleTypes \cup OtherTypes, NEW u \in SettleTypes \cup OtherTypes,
             Emit(Notice(d, t, 0), Notice(d, u, 0)),
             UNCHANGED <<returned, dispute, rowVars, moneyVars, callVars>>,
             checkout' \in [Deposits -> CheckoutValues]
      PROVE  DepositsInv'
  <2> DEFINE m == Notice(d, t, 0)
             n == Notice(d, u, 0)
  <2>1. m \in Wire /\ n \in Wire /\ m.type = t /\ n.type = u
    BY <1>2, <1>3 DEF Types
  <2>2. \A k \in {m, n} : k.type \notin Withdraws \cup {"refunded"}
    BY <2>1 DEF SettleTypes, OtherTypes, Withdraws, DisputeTypes, RestoreTypes
  <2>3. CallTables'
    BY <1>1, <1>4 DEF CallTables, callVars
  <2>4. /\ returned' \in [Deposits -> Nat]
        /\ dispute' \in [Deposits -> {"none", "open", "won", "lost"}]
        /\ returned' = returned /\ dispute' = dispute
    BY <1>1, <1>4 DEF StripeTables
  <2>5. Emit(m, n) /\ UNCHANGED <<rowVars, moneyVars>>
    BY <1>4
  <2> HIDE DEF m, n
  <2> QED  BY <1>4, <2>1, <2>2, <2>3, <2>4, <2>5, EventKeepsMoney
<1>5. \A to \in CheckoutValues : checkout' = [checkout EXCEPT ![d] = to]
                                 => checkout' \in [Deposits -> CheckoutValues]
  BY <1>1 DEF StripeTables
<1>6. CASE Pay(d)
  <2>1. checkout' \in [Deposits -> CheckoutValues]
    BY <1>5, <1>6 DEF Pay, MoveCheckout, CheckoutValues
  <2> QED  BY <1>4, <1>6, <2>1 DEF Pay, SettleTypes
<1>7. CASE PayLater(d)
  <2>1. checkout' \in [Deposits -> CheckoutValues]
    BY <1>5, <1>7 DEF PayLater, MoveCheckout, CheckoutValues
  <2> QED  BY <1>4, <1>7, <2>1 DEF PayLater, EmitOne, OtherTypes
<1>8. CASE DelayedPaymentArrives(d)
  <2>1. checkout' \in [Deposits -> CheckoutValues]
    BY <1>5, <1>8 DEF DelayedPaymentArrives, MoveCheckout, CheckoutValues
  <2> QED  BY <1>4, <1>8, <2>1 DEF DelayedPaymentArrives, SettleTypes
<1>9. CASE PaymentFails(d)
  <2>1. checkout' \in [Deposits -> CheckoutValues]
    BY <1>5, <1>9 DEF PaymentFails, MoveCheckout, CheckoutValues
  <2> QED  BY <1>4, <1>9, <2>1 DEF PaymentFails, EmitOne, OtherTypes
<1>10. CASE SessionExpires(d)
  <2>1. checkout' \in [Deposits -> CheckoutValues]
    BY <1>5, <1>10 DEF SessionExpires, MoveCheckout, CheckoutValues
  <2> QED  BY <1>4, <1>10, <2>1 DEF SessionExpires, EmitOne, OtherTypes
<1>11. CASE \E total \in 1 .. Amount[d] : RefundAtStripe(d, total)
  <2> PICK total \in 1 .. Amount[d] : RefundAtStripe(d, total)
    BY <1>11
  <2> DEFINE n == Notice(d, "refunded", total)
  <2>1. n \in Wire /\ n.type = "refunded" /\ n.deposit = d
    BY <1>2, <1>3 DEF Types
  <2>2. Emit(n, n) /\ UNCHANGED <<rowVars, moneyVars>> /\ checkout' = checkout /\ dispute' = dispute
    BY DEF RefundAtStripe, EmitOne
  <2>3. CallTables'
    BY <1>1 DEF RefundAtStripe, CallTables, callVars
  <2>4. /\ returned' \in [Deposits -> Nat]
        /\ \A e \in Deposits : returned[e] # 0 => returned'[e] # 0
        /\ returned'[d] # 0
    BY <1>1, <1>2 DEF RefundAtStripe, StripeTables
  <2>5. checkout' \in [Deposits -> CheckoutValues] /\ dispute' \in [Deposits -> {"none", "open", "won", "lost"}]
    BY <1>1, <2>2 DEF StripeTables
  <2>6. "refunded" \notin Withdraws
    BY DEF Withdraws, DisputeTypes, RestoreTypes
  <2> HIDE DEF n
  <2> QED  BY <2>1, <2>2, <2>3, <2>4, <2>5, <2>6, EventKeepsMoney
<1>12. ASSUME NEW t \in Withdraws \cup {"closed_lost"}, NEW u \in Withdraws \cup {"closed_lost"},
              NEW a \in Nat, a <= Amount[d], Emit(Notice(d, t, a), Notice(d, u, a)),
              NEW s \in {"open", "won", "lost"},
              dispute' = [dispute EXCEPT ![d] = s],
              UNCHANGED <<checkout, returned, rowVars, moneyVars, callVars>>
       PROVE  DepositsInv'
  <2> DEFINE m == Notice(d, t, a)
             n == Notice(d, u, a)
  <2>0. t \in Types /\ u \in Types
    BY DEF Types, Withdraws, OtherTypes
  <2>1. /\ m \in Wire /\ n \in Wire /\ m.type # "refunded" /\ n.type # "refunded"
        /\ m.deposit = d /\ n.deposit = d
    BY <1>3, <1>12, <2>0 DEF Withdraws, DisputeTypes, RestoreTypes
  <2>2. CallTables' /\ UNCHANGED <<rowVars, moneyVars>> /\ returned' = returned
    BY <1>1, <1>12 DEF CallTables, callVars
  <2>3. /\ dispute' \in [Deposits -> {"none", "open", "won", "lost"}]
        /\ \A e \in Deposits : dispute[e] # "none" => dispute'[e] # "none"
        /\ dispute'[d] # "none"
    BY <1>1, <1>12 DEF StripeTables
  <2>4. checkout' \in [Deposits -> CheckoutValues] /\ returned' \in [Deposits -> Nat]
    BY <1>1, <1>12 DEF StripeTables
  <2>5. Emit(m, n)
    BY <1>12
  <2> HIDE DEF m, n
  <2> QED  BY <2>1, <2>2, <2>3, <2>4, <2>5, EventKeepsMoney
<1>13. CASE DisputeAtStripe(d)
  <2>1. Amount[d] - returned[d] \in Nat /\ Amount[d] - returned[d] <= Amount[d]
    BY <1>2, <1>13 DEF DisputeAtStripe
  <2>2. {"dispute_created", "funds_withdrawn"} \subseteq Withdraws
    BY DEF Withdraws, DisputeTypes
  <2> QED  BY <1>12, <1>13, <2>1, <2>2 DEF DisputeAtStripe
<1>14. CASE \E outcome \in {"won", "lost"} : DisputeCloses(d, outcome)
  <2> PICK outcome \in {"won", "lost"} : DisputeCloses(d, outcome)
    BY <1>14
  <2>1. {"closed_won", "funds_reinstated"} \subseteq Withdraws
    BY DEF Withdraws, RestoreTypes
  <2>2. CASE outcome = "won"
    BY <1>2, <1>12, <2>1, <2>2 DEF DisputeCloses
  <2>3. CASE outcome = "lost"
    BY <1>2, <1>12, <2>3 DEF DisputeCloses, EmitOne
  <2> QED  BY <2>2, <2>3
<1> QED  BY <1>6, <1>7, <1>8, <1>9, <1>10, <1>11, <1>13, <1>14 DEF Stripe

-----------------------------------------------------------------------------
(* The handlers.                                                             *)

(* A handler that stops reading disturbs no other: where one notice is       *)
(* handled at a time, no other is being handled.                             *)
LEMMA HandlerMoves ==
    ASSUME DepositsInv, NEW n \in Sent, NEW to \in StageValues \ {"read"},
           Busy(n),
           stage' = [stage EXCEPT ![n] = to],
           read' \in [Sent -> Readings],
           hook' \in [Sent -> HookValues],
           crashes' \in 0 .. MaxCrashes,
           UNCHANGED <<delivery, callVars, stripeVars>>
    PROVE  /\ CallTables' /\ StripeTables' /\ HookTables'
           /\ NoticesAreMeant' /\ OneHandler' /\ ReadIsCurrent'
<1>1. Sent' = Sent
  BY DEF Sent, stripeVars
<1>2. CallTables' /\ StripeTables'
  BY <1>1 DEF DepositsInv, CallTables, StripeTables, callVars, stripeVars
<1>3. stage \in [Sent -> StageValues]
  BY DEF DepositsInv, HookTables
<1>4. HookTables'
  BY <1>1, <1>3 DEF DepositsInv, HookTables
<1>5. NoticesAreMeant'
  BY <1>1, <1>3 DEF DepositsInv, NoticesAreMeant, stripeVars
<1>6. OneHandler'
  BY <1>1, <1>3 DEF DepositsInv, OneHandler, OneAtATime, Busy
<1>7. ReadIsCurrent'
  <2> SUFFICES ASSUME OneAtATime', NEW m \in Sent, stage'[m] = "read" PROVE FALSE
    BY <1>1 DEF ReadIsCurrent
  <2> QED
    BY <1>1, <1>3 DEF DepositsInv, OneHandler, OneAtATime, Busy
<1> QED  BY <1>2, <1>4, <1>5, <1>6, <1>7

LEMMA ClaimStep ==
    ASSUME DepositsInv, NEW n \in Sent, Claim(n)
    PROVE  DepositsInv'
<1>1. Sent' = Sent /\ delivery' = delivery
  BY DEF Claim, Sent, stripeVars
<1>2. RowTables' /\ CallTables' /\ StripeTables'
  BY <1>1 DEF DepositsInv, Claim, RowTables, CallTables, StripeTables, rowVars, moneyVars,
              callVars, stripeVars
<1>3. /\ stage \in [Sent -> StageValues]
      /\ hook \in [Sent -> HookValues]
  BY DEF DepositsInv, HookTables
<1>4. HookTables'
  BY <1>1, <1>3 DEF DepositsInv, Claim, HookTables, HookValues, StageValues
<1>5. NoticesAreMeant'
  BY <1>1, <1>3 DEF DepositsInv, Claim, NoticesAreMeant, stripeVars
<1>6. OneAtATime => \A m \in Sent : ~ Busy(m)
  <2> SUFFICES ASSUME OneAtATime PROVE {m \in Sent : Busy(m)} = {}
    OBVIOUS
  <2> DEFINE S == {m \in Sent : Busy(m)}
  <2>1. IsFiniteSet(S)
    BY FS_Subset DEF DepositsInv, StripeTables
  <2>2. Cardinality(S) < 1
    BY DEF Claim, OneAtATime
  <2> HIDE DEF S
  <2>3. Cardinality(S) = 0
    BY <2>1, <2>2, FS_CardinalityType
  <2>4. S = {}
    BY <2>1, <2>3, FS_EmptySet
  <2> QED  BY <2>4 DEF S
<1>7. OneHandler'
  BY <1>1, <1>3, <1>6 DEF Claim, OneHandler, OneAtATime, Busy
<1>8. ReadIsCurrent'
  BY <1>1, <1>3 DEF DepositsInv, Claim, ReadIsCurrent, OneAtATime, rowVars
<1>9. CreditedExactlyOnce' /\ LedgerAgrees'
  BY <1>1 DEF DepositsInv, Claim, CreditedExactlyOnce, LedgerAgrees, OneAtATime, rowVars,
              moneyVars, stripeVars
<1> QED  BY <1>2, <1>4, <1>5, <1>7, <1>8, <1>9 DEF DepositsInv

(* A step of a handler that leaves the money of every row alone.             *)
LEMMA IdleMoney ==
    ASSUME DepositsInv, NEW n \in Sent, NEW to \in StageValues \ {"read"}, Busy(n),
           stage' = [stage EXCEPT ![n] = to],
           read' \in [Sent -> Readings],
           hook' \in [Sent -> HookValues],
           crashes' \in 0 .. MaxCrashes,
           RowTables',
           UNCHANGED <<delivery, callVars, stripeVars, credited, refunded, disputed, net>>
    PROVE  DepositsInv'
<1>1. /\ CallTables' /\ StripeTables' /\ HookTables'
      /\ NoticesAreMeant' /\ OneHandler' /\ ReadIsCurrent'
  BY HandlerMoves
<1>2. CreditedExactlyOnce' /\ LedgerAgrees'
  BY DEF DepositsInv, CreditedExactlyOnce, LedgerAgrees, OneAtATime, stripeVars
<1> QED  BY <1>1, <1>2 DEF DepositsInv

LEMMA ApplySettle ==
    ASSUME DepositsInv, NEW n \in Sent, Settle(n)
    PROVE  DepositsInv'
<1> DEFINE d == n.deposit
<1>1. d \in Deposits /\ Amount[d] \in Nat
  BY AmountAssumption DEF DepositsInv, StripeTables, Sent, Wire
<1>2. RowTables
  BY DEF DepositsInv
<1>3. RowTables'
  BY <1>1, <1>2 DEF Settle, RowTables, Statuses
<1>4. /\ stage[n] = "claimed" /\ stage' = [stage EXCEPT ![n] = "applied"]
      /\ UNCHANGED <<hook, crashes, delivery, callVars, stripeVars>>
      /\ read' = read
  BY DEF Settle, Handled
<1>5. /\ CallTables' /\ StripeTables' /\ HookTables'
      /\ NoticesAreMeant' /\ OneHandler' /\ ReadIsCurrent'
  <2>1. Busy(n)
    BY <1>4 DEF Busy
  <2>2. "applied" \in StageValues \ {"read"}
    BY DEF StageValues
  <2>3. /\ read' \in [Sent -> Readings] /\ hook' \in [Sent -> HookValues]
        /\ crashes' \in 0 .. MaxCrashes
    BY <1>4 DEF DepositsInv, HookTables
  <2> QED  BY <1>4, <2>1, <2>2, <2>3, HandlerMoves
<1>6. CreditedExactlyOnce'
  <2> SUFFICES ASSUME NEW e \in Deposits, returned'[e] = 0, dispute'[e] = "none"
               PROVE  net'[e] = IF credited'[e] THEN Amount[e] ELSE 0
    BY DEF CreditedExactlyOnce
  <2>1. net[e] = IF credited[e] THEN Amount[e] ELSE 0
    BY <1>4 DEF DepositsInv, CreditedExactlyOnce, stripeVars
  <2> QED  BY <1>1, <1>2, <2>1 DEF Settle, RowTables
<1>7. LedgerAgrees'
  <2> SUFFICES ASSUME OneAtATime, NEW e \in Deposits
               PROVE /\ net'[e] = (IF credited'[e] THEN Amount[e] ELSE 0) - refunded'[e] - disputed'[e]
                     /\ refunded'[e] + disputed'[e] <= Amount[e]
                     /\ ~credited'[e] => refunded'[e] = 0 /\ disputed'[e] = 0
    BY <1>4 DEF LedgerAgrees, OneAtATime
  <2>1. /\ net[e] = (IF credited[e] THEN Amount[e] ELSE 0) - refunded[e] - disputed[e]
        /\ refunded[e] + disputed[e] <= Amount[e]
        /\ ~credited[e] => refunded[e] = 0 /\ disputed[e] = 0
    BY DEF DepositsInv, LedgerAgrees
  <2>2. refunded' = refunded /\ disputed' = disputed
    BY DEF Settle
  <2> QED  BY <1>1, <1>2, <2>1, <2>2 DEF Settle, RowTables
<1> QED  BY <1>3, <1>5, <1>6, <1>7 DEF DepositsInv

(* The read that opens reverse and restoreDispute.                           *)
LEMMA ApplyRead ==
    ASSUME DepositsInv, NEW n \in Sent, Read(n)
    PROVE  DepositsInv'
<1> DEFINE seen == [refunded |-> refunded[n.deposit], disputed |-> disputed[n.deposit]]
<1>0. n.deposit \in Deposits
  BY DEF DepositsInv, StripeTables, Sent, Wire
<1>1. /\ stage[n] = "claimed" /\ stage' = [stage EXCEPT ![n] = "read"]
      /\ read' = [read EXCEPT ![n] = seen]
      /\ UNCHANGED <<hook, crashes, delivery, callVars, stripeVars, rowVars, moneyVars>>
      /\ Reverses(n) \/ Restores(n)
  BY DEF Read, Handled
<1>2. seen \in Readings /\ seen.refunded = refunded[n.deposit] /\ seen.disputed = disputed[n.deposit]
  BY <1>0 DEF DepositsInv, RowTables, Readings
<1> HIDE DEF seen
<1>3. Sent' = Sent
  BY <1>1 DEF Sent, stripeVars
<1>4. RowTables' /\ CallTables' /\ StripeTables'
  BY <1>1, <1>3 DEF DepositsInv, RowTables, CallTables, StripeTables, rowVars, moneyVars,
                    callVars, stripeVars
<1>5. stage \in [Sent -> StageValues] /\ read \in [Sent -> Readings]
  BY DEF DepositsInv, HookTables
<1>6. HookTables'
  BY <1>1, <1>2, <1>3, <1>5 DEF DepositsInv, HookTables, StageValues
<1>7. NoticesAreMeant'
  <2>1. n.type \in Withdraws \cup {"refunded"}
    BY <1>1 DEF Reverses, Restores, Withdraws
  <2> QED  BY <1>1, <1>3, <1>5, <2>1 DEF DepositsInv, NoticesAreMeant, stripeVars
<1>8. OneHandler'
  BY <1>1, <1>3, <1>5 DEF DepositsInv, OneHandler, OneAtATime, Busy
<1>9. ReadIsCurrent'
  <2> SUFFICES ASSUME OneAtATime, NEW m \in Sent, stage'[m] = "read"
               PROVE  /\ read'[m].refunded = refunded[m.deposit]
                      /\ read'[m].disputed = disputed[m.deposit]
                      /\ m.type \notin RestoreTypes => credited[m.deposit]
    BY <1>1, <1>3 DEF ReadIsCurrent, OneAtATime, rowVars
  <2>1. CASE m = n
    <3>1. read'[m] = seen
      BY <1>1, <1>5, <2>1
    <3>2. m.type \notin RestoreTypes => credited[m.deposit]
      BY <1>1, <2>1 DEF Reverses, Restores
    <3> QED  BY <1>2, <2>1, <3>1, <3>2
  <2>2. CASE m # n
    <3>1. stage[m] = "read" /\ read'[m] = read[m]
      BY <1>1, <1>5, <2>2
    <3> QED  BY <3>1 DEF DepositsInv, ReadIsCurrent
  <2> QED  BY <2>1, <2>2
<1>10. CreditedExactlyOnce' /\ LedgerAgrees'
  BY <1>1 DEF DepositsInv, CreditedExactlyOnce, LedgerAgrees, OneAtATime, rowVars, moneyVars, stripeVars
<1> QED  BY <1>4, <1>6, <1>7, <1>8, <1>9, <1>10 DEF DepositsInv

(* What reverse writes: what it read, grown by the difference it debits, and *)
(* never more than the deposit is worth.                                     *)
Refunds(n)  == IF n.type = "refunded" THEN Capped(n) ELSE read[n].refunded
Disputes(n) == IF n.type = "refunded" THEN read[n].disputed ELSE Capped(n)

LEMMA ReverseWrites ==
    ASSUME DepositsInv, NEW n \in Sent, Delta(n) >= 0
    PROVE  /\ Refunds(n) \in Nat /\ Disputes(n) \in Nat /\ Delta(n) \in Nat
           /\ Refunds(n) + Disputes(n) <= Amount[n.deposit]
           /\ Refunds(n) + Disputes(n) = read[n].refunded + read[n].disputed + Delta(n)
<1> DEFINE r == read[n].refunded
           x == read[n].disputed
           a == Amount[n.deposit]
           t == n.total
<1>1. r \in Nat /\ x \in Nat /\ a \in Nat /\ t \in Nat
  BY AmountAssumption DEF DepositsInv, HookTables, Readings, StripeTables, Sent, Wire
<1>2. Capped(n) = Least(t, a - (IF n.type = "refunded" THEN x ELSE r))
  BY DEF Capped
<1>3. Delta(n) = Capped(n) - (IF n.type = "refunded" THEN r ELSE x)
  BY DEF Delta, Previous
<1>4. /\ Refunds(n) = IF n.type = "refunded" THEN Capped(n) ELSE r
      /\ Disputes(n) = IF n.type = "refunded" THEN x ELSE Capped(n)
  BY DEF Refunds, Disputes
<1> HIDE DEF r, x, a, t
<1> SUFFICES /\ Refunds(n) \in Nat /\ Disputes(n) \in Nat /\ Delta(n) \in Nat
             /\ Refunds(n) + Disputes(n) <= a
             /\ Refunds(n) + Disputes(n) = r + x + Delta(n)
  BY DEF r, x, a
<1>5. CASE n.type = "refunded"
  BY <1>1, <1>2, <1>3, <1>4, <1>5 DEF Least
<1>6. CASE n.type # "refunded"
  BY <1>1, <1>2, <1>3, <1>4, <1>6 DEF Least
<1> QED  BY <1>5, <1>6

(* What is debited is what the row has grown by.                             *)
LEMMA DebitIsGrowth ==
    ASSUME NEW a \in Int, NEW v \in Int, NEW delta \in Int,
           NEW f \in Int, NEW g \in Int, NEW r \in Int, NEW x \in Int,
           v = a - f - g,
           r + x = f + g + delta
    PROVE  v - delta = a - r - x
  OBVIOUS

(* One transaction of reverse or of restoreDispute.                          *)
LEMMA ReaderWrites ==
    ASSUME DepositsInv, NEW n \in Sent, NEW r \in Nat, NEW x \in Nat, NEW delta \in Int,
           r + x <= Amount[n.deposit],
           r + x = read[n].refunded + read[n].disputed + delta,
           OneAtATime => credited[n.deposit] \/ r + x = 0,
           Handled(n, "read", "applied"),
           net'      = [net EXCEPT ![n.deposit] = @ - delta],
           balance'  = balance - delta,
           refunded' = [refunded EXCEPT ![n.deposit] = r],
           disputed' = [disputed EXCEPT ![n.deposit] = x],
           status' \in [Deposits -> Statuses \cup {"NONE"}],
           UNCHANGED <<credited, session, intent, read>>
    PROVE  DepositsInv'
<1> DEFINE d == n.deposit
<1>1. d \in Deposits /\ Amount[d] \in Nat
  BY AmountAssumption DEF DepositsInv, StripeTables, Sent, Wire
<1>2. /\ stage[n] = "read" /\ stage' = [stage EXCEPT ![n] = "applied"]
      /\ UNCHANGED <<hook, crashes, delivery, callVars, stripeVars>>
  BY DEF Handled
<1>3. /\ CallTables' /\ StripeTables' /\ HookTables'
      /\ NoticesAreMeant' /\ OneHandler' /\ ReadIsCurrent'
  <2>1. Busy(n)
    BY <1>2 DEF Busy
  <2>2. "applied" \in StageValues \ {"read"}
    BY DEF StageValues
  <2>3. /\ read' \in [Sent -> Readings] /\ hook' \in [Sent -> HookValues]
        /\ crashes' \in 0 .. MaxCrashes
    BY <1>2 DEF DepositsInv, HookTables
  <2> QED  BY <1>2, <2>1, <2>2, <2>3, HandlerMoves
<1>4. RowTables
  BY DEF DepositsInv
<1>5. RowTables'
  BY <1>1, <1>4 DEF RowTables
<1>6. returned[d] # 0 \/ dispute[d] # "none"
  BY <1>2 DEF DepositsInv, NoticesAreMeant
<1>7. CreditedExactlyOnce'
  <2> SUFFICES ASSUME NEW e \in Deposits, returned'[e] = 0, dispute'[e] = "none"
               PROVE  net'[e] = IF credited'[e] THEN Amount[e] ELSE 0
    BY DEF CreditedExactlyOnce
  <2>1. e # d /\ net[e] = IF credited[e] THEN Amount[e] ELSE 0
    BY <1>2, <1>6 DEF DepositsInv, CreditedExactlyOnce, stripeVars
  <2> QED  BY <1>1, <1>4, <2>1 DEF RowTables
<1>8. LedgerAgrees'
  <2> SUFFICES ASSUME OneAtATime, NEW e \in Deposits
               PROVE /\ net'[e] = (IF credited'[e] THEN Amount[e] ELSE 0) - refunded'[e] - disputed'[e]
                     /\ refunded'[e] + disputed'[e] <= Amount[e]
                     /\ ~credited'[e] => refunded'[e] = 0 /\ disputed'[e] = 0
    BY <1>2 DEF LedgerAgrees, OneAtATime
  <2>1. /\ net[e] = (IF credited[e] THEN Amount[e] ELSE 0) - refunded[e] - disputed[e]
        /\ refunded[e] + disputed[e] <= Amount[e]
        /\ ~credited[e] => refunded[e] = 0 /\ disputed[e] = 0
    BY DEF DepositsInv, LedgerAgrees
  <2>2. CASE e = d
    <3>1. read[n].refunded = refunded[e] /\ read[n].disputed = disputed[e]
      BY <1>2, <2>2 DEF DepositsInv, ReadIsCurrent
    <3>2. /\ net'[e] = net[e] - delta /\ refunded'[e] = r /\ disputed'[e] = x
          /\ credited'[e] = credited[e]
      BY <1>1, <1>4, <2>2 DEF RowTables
    <3>3. /\ net[e] \in Int /\ refunded[e] \in Nat /\ disputed[e] \in Nat /\ Amount[e] \in Nat
          /\ credited[e] \in BOOLEAN
      BY <1>1, <1>4, <2>2 DEF RowTables
    <3>4. r + x = refunded[e] + disputed[e] + delta /\ r + x <= Amount[e]
      BY <2>2, <3>1
    <3> DEFINE v == net[e]
               f == refunded[e]
               g == disputed[e]
               a == Amount[e]
    <3>7. /\ v \in Int /\ f \in Int /\ g \in Int /\ a \in Int /\ r \in Int /\ x \in Int
          /\ r + x = f + g + delta
          /\ net'[e] = v - delta
      BY <3>2, <3>3, <3>4
    <3>5. CASE credited[e]
      <4>1. net[e] = Amount[e] - refunded[e] - disputed[e]
        BY <2>1, <3>5
      <4>2. net'[e] = Amount[e] - r - x
        <5>1. v = a - f - g
          BY <4>1
        <5> HIDE DEF v, f, g, a
        <5>2. v - delta = a - r - x
          BY <3>7, <5>1, DebitIsGrowth
        <5> QED  BY <3>7, <5>2 DEF a
      <4>3. credited'[e]
        BY <3>2, <3>5
      <4> QED  BY <3>2, <3>4, <4>2, <4>3
    <3>6. CASE ~ credited[e]
      <4>1. r + x = 0
        BY <2>2, <3>6
      <4>2. r = 0 /\ x = 0
        BY <4>1
      <4>3. net[e] = 0 - refunded[e] - disputed[e] /\ refunded[e] = 0 /\ disputed[e] = 0
        BY <2>1, <3>6
      <4>4. ~ credited'[e]
        BY <3>2, <3>6
      <4>5. net'[e] = 0 - r - x
        <5>1. v = 0 - f - g
          BY <4>3
        <5> HIDE DEF v, f, g, a
        <5>2. v - delta = 0 - r - x
          BY <3>7, <5>1, DebitIsGrowth
        <5>3. net'[e] = v - delta
          BY <3>7
        <5> QED  BY <5>2, <5>3, Zenon
      <4>6. net'[e] = 0 - refunded'[e] - disputed'[e]
        BY <3>2, <4>5
      <4>7. (IF credited'[e] THEN Amount[e] ELSE 0) = 0
        BY <4>4
      <4>8. refunded'[e] + disputed'[e] <= Amount[e]
        BY <3>2, <3>4
      <4>9. refunded'[e] = 0 /\ disputed'[e] = 0
        BY <3>2, <4>2
      <4> QED  BY <4>6, <4>7, <4>8, <4>9
    <3> QED  BY <3>5, <3>6
  <2>3. CASE e # d
    <3>1. net'[e] = net[e] /\ refunded'[e] = refunded[e] /\ disputed'[e] = disputed[e]
          /\ credited'[e] = credited[e]
      BY <1>1, <1>4, <2>3 DEF RowTables
    <3> QED  BY <2>1, <3>1
  <2> QED  BY <2>2, <2>3
<1> QED  BY <1>3, <1>5, <1>7, <1>8 DEF DepositsInv

LEMMA ApplyReverse ==
    ASSUME DepositsInv, NEW n \in Sent, Reverse(n)
    PROVE  DepositsInv'
<1> DEFINE r == Refunds(n)
           x == Disputes(n)
           delta == Delta(n)
<1>1. /\ n.type \in DisputeTypes \cup {"refunded"}
      /\ delta >= 0
      /\ Handled(n, "read", "applied")
      /\ net'      = [net EXCEPT ![n.deposit] = @ - delta]
      /\ balance'  = balance - delta
      /\ refunded' = [refunded EXCEPT ![n.deposit] = r]
      /\ disputed' = [disputed EXCEPT ![n.deposit] = x]
      /\ status'   = [status EXCEPT ![n.deposit] = ReversedStatus(n, r, x)]
      /\ UNCHANGED <<credited, session, intent, read>>
  BY DEF Reverse, Refunds, Disputes
<1>2. /\ r \in Nat /\ x \in Nat /\ delta \in Nat
      /\ r + x <= Amount[n.deposit]
      /\ r + x = read[n].refunded + read[n].disputed + delta
  BY <1>1, ReverseWrites
<1>3. ReversedStatus(n, r, x) \in Statuses
  BY DEF ReversedStatus, Statuses
<1>4. status' \in [Deposits -> Statuses \cup {"NONE"}]
  BY <1>1, <1>3 DEF DepositsInv, RowTables
<1>5. OneAtATime => credited[n.deposit] \/ r + x = 0
  BY <1>1 DEF DepositsInv, ReadIsCurrent, Handled, DisputeTypes, RestoreTypes
<1>6. delta \in Int
  BY <1>2
<1> HIDE DEF r, x, delta
<1> QED  BY <1>1, <1>2, <1>4, <1>5, <1>6, ReaderWrites

LEMMA ApplyRestore ==
    ASSUME DepositsInv, NEW n \in Sent, Restore(n)
    PROVE  DepositsInv'
<1> DEFINE d == n.deposit
           r == read[n].refunded
           delta == - read[n].disputed
<1>0. d \in Deposits /\ Amount[d] \in Nat
  BY AmountAssumption DEF DepositsInv, StripeTables, Sent, Wire
<1>1. r \in Nat /\ read[n].disputed \in Nat
  BY DEF DepositsInv, HookTables, Readings
<1>2. /\ Handled(n, "read", "applied")
      /\ disputed' = [disputed EXCEPT ![d] = 0]
      /\ refunded' = refunded
      /\ status' = [status EXCEPT ![d] = RestoredStatus(n)]
      /\ UNCHANGED <<credited, session, intent, read>>
      /\ UNCHANGED <<hook, crashes, delivery, callVars, stripeVars>>
      /\ stage[n] = "read" /\ stage' = [stage EXCEPT ![n] = "applied"]
  BY DEF Restore, Handled
<1>3. net' = [net EXCEPT ![d] = @ - delta] /\ balance' = balance - delta
  <2>1. RowTables
    BY DEF DepositsInv
  <2>2. net[d] + read[n].disputed = net[d] - delta /\ balance + read[n].disputed = balance - delta
    BY <1>0, <1>1, <2>1 DEF RowTables
  <2> QED  BY <2>2 DEF Restore
<1>4. RestoredStatus(n) \in Statuses
  BY DEF RestoredStatus, Statuses
<1>5. RowTables
  BY DEF DepositsInv
<1>6. RowTables'
  BY <1>0, <1>1, <1>2, <1>3, <1>4, <1>5 DEF RowTables
<1>7. CASE OneAtATime
  <2>1. r = refunded[d]
    BY <1>2, <1>7 DEF DepositsInv, ReadIsCurrent
  <2>2. refunded' = [refunded EXCEPT ![d] = r]
    BY <1>2, <1>5, <2>1 DEF RowTables
  <2>3. r <= Amount[d] /\ (credited[d] \/ r = 0)
    <3>1. refunded[d] + disputed[d] <= Amount[d] /\ (~credited[d] => refunded[d] = 0)
      BY <1>0, <1>7 DEF DepositsInv, LedgerAgrees
    <3>2. refunded[d] \in Nat /\ disputed[d] \in Nat
      BY <1>0, <1>5 DEF RowTables
    <3> QED  BY <1>0, <2>1, <3>1, <3>2
  <2>4. /\ r + 0 = read[n].refunded + read[n].disputed + delta
        /\ delta \in Int /\ r + 0 = r
    BY <1>1
  <2>5. status' \in [Deposits -> Statuses \cup {"NONE"}]
    BY <1>6 DEF RowTables
  <2> HIDE DEF r, delta
  <2> QED  BY <1>1, <1>2, <1>3, <2>2, <2>3, <2>4, <2>5, ReaderWrites
<1>8. CASE ~ OneAtATime
  <2>1. /\ CallTables' /\ StripeTables' /\ HookTables'
        /\ NoticesAreMeant' /\ OneHandler' /\ ReadIsCurrent'
    <3>1. Busy(n)
      BY <1>2 DEF Busy
    <3>2. "applied" \in StageValues \ {"read"}
      BY DEF StageValues
    <3>3. /\ read' \in [Sent -> Readings] /\ hook' \in [Sent -> HookValues]
          /\ crashes' \in 0 .. MaxCrashes
      BY <1>2 DEF DepositsInv, HookTables
    <3> QED  BY <1>2, <3>1, <3>2, <3>3, HandlerMoves
  <2>2. LedgerAgrees'
    BY <1>2, <1>8 DEF LedgerAgrees, OneAtATime
  <2>3. CreditedExactlyOnce'
    <3>1. returned[d] # 0 \/ dispute[d] # "none"
      BY <1>2 DEF DepositsInv, NoticesAreMeant
    <3>2. \A e \in Deposits : e # d => net'[e] = net[e]
      BY <1>3, <1>5 DEF RowTables
    <3> QED  BY <1>2, <3>1, <3>2 DEF DepositsInv, CreditedExactlyOnce, stripeVars
  <2> QED  BY <1>6, <2>1, <2>2, <2>3 DEF DepositsInv
<1> QED  BY <1>7, <1>8

(* A credit refused, a row marked, a notice ignored, finished or abandoned.  *)
LEMMA ApplyOther ==
    ASSUME DepositsInv, NEW n \in Sent,
           SettleThrows(n) \/ Mark(n) \/ Ignore(n) \/ Finish(n) \/ Crash(n)
    PROVE  DepositsInv'
<1>0. /\ n.deposit \in Deposits
      /\ RowTables
      /\ hook \in [Sent -> HookValues] /\ read \in [Sent -> Readings]
      /\ crashes \in 0 .. MaxCrashes
  BY DEF DepositsInv, StripeTables, HookTables, Sent, Wire
<1>1. Nothing \in Readings
  BY DEF Nothing, Readings
<1>2. {"idle", "applied", "threw"} \subseteq StageValues \ {"read"}
  BY DEF StageValues
<1>3. CASE SettleThrows(n)
  <2>1. /\ stage[n] = "claimed" /\ stage' = [stage EXCEPT ![n] = "threw"]
        /\ UNCHANGED <<hook, crashes, delivery, callVars, stripeVars>>
        /\ UNCHANGED <<rowVars, moneyVars, read>>
    BY <1>3 DEF SettleThrows, Handled
  <2>2. Busy(n)
    BY <2>1 DEF Busy
  <2>3. RowTables' /\ UNCHANGED <<credited, refunded, disputed, net>>
    BY <1>0, <2>1 DEF RowTables, rowVars, moneyVars
  <2> QED  BY <1>0, <1>2, <2>1, <2>2, <2>3, IdleMoney
<1>4. CASE Mark(n)
  <2>1. /\ stage[n] = "claimed" /\ stage' = [stage EXCEPT ![n] = "applied"]
        /\ UNCHANGED <<hook, crashes, delivery, callVars, stripeVars>>
        /\ UNCHANGED <<credited, refunded, disputed, net, read>>
    BY <1>4 DEF Mark, Handled, moneyVars
  <2>2. Busy(n)
    BY <2>1 DEF Busy
  <2>3. NewStatus(n) \in Statuses
    BY <1>4 DEF Mark, NewStatus, Statuses
  <2>4. RowTables'
    BY <1>0, <1>4, <2>3 DEF Mark, RowTables, moneyVars
  <2> QED  BY <1>0, <1>2, <2>1, <2>2, <2>4, IdleMoney
<1>5. CASE Ignore(n)
  <2>1. /\ stage[n] \in {"claimed", "read"} /\ stage' = [stage EXCEPT ![n] = "applied"]
        /\ UNCHANGED <<hook, crashes, delivery, callVars, stripeVars>>
        /\ UNCHANGED <<rowVars, moneyVars, read>>
    BY <1>5 DEF Ignore, Handled
  <2>2. Busy(n)
    BY <2>1 DEF Busy
  <2>3. RowTables' /\ UNCHANGED <<credited, refunded, disputed, net>>
    BY <1>0, <2>1 DEF RowTables, rowVars, moneyVars
  <2> QED  BY <1>0, <1>2, <2>1, <2>2, <2>3, IdleMoney
<1>6. CASE Finish(n) \/ Crash(n)
  <2>1. /\ stage' = [stage EXCEPT ![n] = "idle"]
        /\ read' = [read EXCEPT ![n] = Nothing]
        /\ UNCHANGED <<delivery, rowVars, moneyVars, callVars, stripeVars>>
    BY <1>6 DEF Finish, Crash
  <2>2. Busy(n)
    BY <1>6 DEF Finish, Crash, Busy
  <2>3. RowTables' /\ UNCHANGED <<credited, refunded, disputed, net>>
    BY <1>0, <2>1 DEF RowTables, rowVars, moneyVars
  <2>4. read' \in [Sent -> Readings]
    BY <1>0, <1>1, <2>1
  <2>5. hook' \in [Sent -> HookValues]
    BY <1>0, <1>6 DEF Finish, Crash, HookValues
  <2>6. crashes' \in 0 .. MaxCrashes
    BY <1>0, <1>6, BoundAssumption DEF Finish, Crash
  <2> QED  BY <1>2, <2>1, <2>2, <2>3, <2>4, <2>5, <2>6, IdleMoney
<1> QED  BY <1>3, <1>4, <1>5, <1>6

LEMMA DepositsStep == DepositsInv /\ [Next]_vars => DepositsInv'
<1> SUFFICES ASSUME DepositsInv, [Next]_vars PROVE DepositsInv'
  OBVIOUS
<1>1. CASE \E c \in Callers : Call(c)
  BY <1>1, CallStep
<1>2. CASE \E d \in Deposits : Stripe(d)
  BY <1>2, StripeStep
<1>3. CASE \E n \in Sent : Claim(n) \/ Handle(n) \/ Crash(n)
  <2> PICK n \in Sent : Claim(n) \/ Handle(n) \/ Crash(n)
    BY <1>3
  <2>1. CASE Claim(n)
    BY <2>1, ClaimStep
  <2>2. CASE Settle(n)
    BY <2>2, ApplySettle
  <2>3. CASE Read(n)
    BY <2>3, ApplyRead
  <2>4. CASE Reverse(n)
    BY <2>4, ApplyReverse
  <2>5. CASE Restore(n)
    BY <2>5, ApplyRestore
  <2>6. CASE SettleThrows(n) \/ Mark(n) \/ Ignore(n) \/ Finish(n) \/ Crash(n)
    BY <2>6, ApplyOther
  <2> QED  BY <2>1, <2>2, <2>3, <2>4, <2>5, <2>6 DEF Handle, SettleFromEvent
<1>4. CASE UNCHANGED vars
  <2>1. Sent' = Sent
    BY <1>4 DEF vars, stripeVars, Sent
  <2>2. RowTables' /\ CallTables' /\ StripeTables' /\ HookTables'
    BY <1>4, <2>1 DEF DepositsInv, RowTables, CallTables, StripeTables, HookTables, vars,
                      rowVars, moneyVars, callVars, stripeVars, hookVars
  <2>3. NoticesAreMeant' /\ OneHandler' /\ ReadIsCurrent'
    BY <1>4, <2>1 DEF DepositsInv, NoticesAreMeant, OneHandler, ReadIsCurrent, OneAtATime, Busy,
                      vars, rowVars, stripeVars, hookVars
  <2>4. CreditedExactlyOnce' /\ LedgerAgrees'
    BY <1>4 DEF DepositsInv, CreditedExactlyOnce, LedgerAgrees, OneAtATime, vars, rowVars,
                moneyVars, stripeVars, hookVars
  <2> QED  BY <2>2, <2>3, <2>4 DEF DepositsInv
<1> QED  BY <1>1, <1>2, <1>3, <1>4 DEF Next

(* The inductive invariant of the deposit module.                            *)
THEOREM DepositsInvariance == Spec => []DepositsInv
<1>1. Init => DepositsInv
  BY DepositsInitially
<1>2. DepositsInv /\ [Next]_vars => DepositsInv'
  BY DepositsStep
<1> QED  BY <1>1, <1>2, PTL DEF Spec

(* However many settlement notices of a deposit are handled at the same      *)
(* time, whatever crashes and whatever is redelivered: as long as Stripe     *)
(* took nothing back, the deposit is worth its amount once or not at all.    *)
THEOREM DepositsCreditOnce == Spec => []CreditedExactlyOnce
<1>1. DepositsInv => CreditedExactlyOnce
  BY DEF DepositsInv
<1> QED  BY <1>1, DepositsInvariance, PTL

(* The row of a deposit says what the ledger rows add up to, and never takes *)
(* back more than was credited, in any order of notices handled one at a     *)
(* time (reverse, restoreDispute).                                           *)
THEOREM RowTellsLedger == Spec => [](TypeOK /\ LedgerAgrees)
<1>1. DepositsInv => TypeOK
  <2> SUFFICES ASSUME DepositsInv PROVE TypeOK
    OBVIOUS
  <2>1. \A n \in Sent : n \in Notices(n.deposit)
    <3> SUFFICES ASSUME NEW n \in Sent PROVE n \in Notices(n.deposit)
      OBVIOUS
    <3>1. n \in Wire
      BY DEF DepositsInv, StripeTables, Sent
    <3>2. Amount[n.deposit] \in Nat
      BY <3>1, AmountAssumption DEF Wire
    <3>3. /\ n = [deposit |-> n.deposit, type |-> n.type, total |-> n.total]
          /\ n.type \in Types /\ n.total \in Nat /\ n.total <= Amount[n.deposit]
      BY <3>1 DEF Wire
    <3> QED  BY <3>2, <3>3 DEF Notices
  <2> QED
    BY <2>1 DEF DepositsInv, RowTables, CallTables, StripeTables, HookTables, TypeOK,
                PcValues, CheckoutValues, HookValues, StageValues, Readings
<1>2. DepositsInv => LedgerAgrees
  BY DEF DepositsInv
<1> QED  BY <1>1, <1>2, DepositsInvariance, PTL

-----------------------------------------------------------------------------
(* Notices in order: what the row, the status and Stripe say of each other.  *)

Refunded == {"refunded"}
Taking   == Withdraws \cup Refunded
About(d, types) == {n \in Sent : n.deposit = d /\ n.type \in types}

(* What has been sent tells what has happened at Stripe, and all of it: each *)
(* payment and each won dispute twice.                                       *)
PaymentIsTold(d) ==
    /\ checkout[d] \in {"unpaid", "paid"} => session[d]
    /\ checkout[d] = "paid" => \E m, n \in About(d, SettleTypes) : m # n
    /\ returned[d] # 0 \/ dispute[d] # "none" => checkout[d] = "paid"
    /\ returned[d] <= Amount[d]
    /\ returned[d] # 0 => \E n \in About(d, Refunded) : n.total = returned[d]
    /\ dispute[d] \in {"open", "lost"} => About(d, DisputeTypes) # {}
    /\ dispute[d] = "won" => \E m, n \in About(d, RestoreTypes) : m # n

ToldIsTrue(d) ==
    /\ About(d, SettleTypes) # {} => checkout[d] = "paid"
    /\ \A n \in About(d, Refunded) : n.total # 0 /\ n.total <= returned[d]
    /\ \A n \in About(d, DisputeTypes) :
          /\ dispute[d] # "none" /\ n.total # 0
          /\ dispute[d] \in {"open", "lost"} => n.total = Amount[d] - returned[d]
    /\ \A m, n \in About(d, DisputeTypes) : m.total = n.total
    /\ About(d, RestoreTypes) # {} => dispute[d] = "won"

(* A payment is told before what is taken of it, a dispute before its end;   *)
(* and a refund that is told after a dispute, after its end as well.         *)
ToldInOrder(d) ==
    /\ \A m \in About(d, SettleTypes), n \in About(d, Taking) : Before(m, n)
    /\ \A m \in About(d, DisputeTypes), n \in About(d, RestoreTypes) : Before(m, n)
    /\ \A m \in About(d, Refunded), n \in About(d, DisputeTypes) :
          \/ Before(m, n) /\ m.total + n.total <= Amount[d]
          \/ /\ Before(n, m) /\ dispute[d] = "won"
             /\ \A k \in About(d, RestoreTypes) : Before(k, m)

StripeTells == \A d \in Deposits : PaymentIsTold(d) /\ ToldIsTrue(d) /\ ToldInOrder(d)

(* A notice that was ever claimed had all earlier ones answered.             *)
ClaimedInOrder ==
    /\ \A n \in Sent : Busy(n) => hook[n] = "RECEIVED"
    /\ delivery.inOrder => \A m, n \in Sent : hook[n] # "none" /\ Before(m, n) => Answered(m)

(* The handler has done what the notice asks for, or found it done.          *)
Told(n) == stage[n] = "applied" \/ hook[n] = "PROCESSED"
Begun(n) == hook[n] # "none"

Orderly(d) == OneAtATime /\ delivery.inOrder /\ d \notin reattached /\ AtMostOneLost(d)

Settled == {"SUCCEEDED", "PARTIALLY_REFUNDED", "REFUNDED", "DISPUTED"}
StatusFits(d) ==
    /\ credited[d] <=> status[d] \in Settled
    /\ disputed[d] # 0 <=> status[d] = "DISPUTED"
    /\ status[d] = "SUCCEEDED" => refunded[d] = 0
    /\ status[d] = "REFUNDED" => refunded[d] = Amount[d]

(* The row of a deposit whose notices come in order: what is refunded or     *)
(* disputed was told, what was told is refunded or disputed, and what a won  *)
(* dispute gave back is withheld no longer.                                  *)
RowFollows(d) ==
    /\ credited[d] => checkout[d] = "paid" /\ (d \in reattached \/ intent[d])
    /\ \A n \in About(d, SettleTypes) : Told(n) => credited[d]
    /\ Orderly(d) =>
          /\ StatusFits(d)
          /\ refunded[d] # 0 => \E n \in About(d, Refunded) : Begun(n) /\ n.total = refunded[d]
          /\ disputed[d] # 0 => \E n \in About(d, DisputeTypes) : Begun(n) /\ n.total = disputed[d]
          /\ \A n \in About(d, RestoreTypes) : Told(n) => disputed[d] = 0
          /\ \A n \in About(d, DisputeTypes) : Told(n) =>
                disputed[d] = n.total \/ \E k \in About(d, RestoreTypes) : Begun(k)
          /\ \A n \in About(d, Refunded) : Told(n) => n.total <= refunded[d]

RowsFollow == \A d \in Deposits : RowFollows(d)
BooksInv == DepositsInv /\ StripeTells /\ ClaimedInOrder /\ RowsFollow

-----------------------------------------------------------------------------
(* How sending orders the notices.                                           *)

Earlier(ns, j, k) == \E i, l \in DOMAIN ns : i < l /\ ns[i] = j /\ ns[l] = k
Listed(ns) == {ns[i] : i \in DOMAIN ns}

(* What is appended comes after all that is listed, and the order of what is *)
(* listed stays.                                                             *)
LEMMA NotedOrders ==
    ASSUME NEW ns \in Seq(Wire), NEW n \in Wire
    PROVE  /\ Noted(ns, n) \in Seq(Wire)
           /\ Listed(Noted(ns, n)) = Listed(ns) \cup {n}
           /\ \A j, k : Earlier(ns, j, k) => Earlier(Noted(ns, n), j, k)
           /\ \A j : \A k \in Listed(ns) : Earlier(Noted(ns, n), j, k) => Earlier(ns, j, k)
           /\ \A j \in Listed(ns) : n \notin Listed(ns) => Earlier(Noted(ns, n), j, n)
<1>1. Noted(ns, n) \in Seq(Wire) /\ Listed(Noted(ns, n)) = Listed(ns) \cup {n}
  BY NotedAdds DEF Listed
<1>2. CASE n \in Listed(ns)
  <2>1. Noted(ns, n) = ns
    BY <1>2 DEF Noted, Listed
  <2> QED
    BY <1>1, <1>2, <2>1
<1>3. CASE n \notin Listed(ns)
  <2>1. Noted(ns, n) = Append(ns, n)
    BY <1>3 DEF Noted, Listed
  <2> DEFINE new == Append(ns, n)
             len == Len(ns)
  <2>2. /\ len \in Nat /\ DOMAIN ns = 1 .. len /\ DOMAIN new = 1 .. (len + 1)
        /\ \A i \in 1 .. len : new[i] = ns[i]
        /\ new[len + 1] = n
    OBVIOUS
  <2>3. Noted(ns, n) = new
    BY <2>1
  <2> HIDE DEF new, len
  <2>4. \A j, k : Earlier(ns, j, k) => Earlier(new, j, k)
    <3> SUFFICES ASSUME NEW j, NEW k, Earlier(ns, j, k) PROVE Earlier(new, j, k)
      OBVIOUS
    <3>1. PICK i, l \in 1 .. len : i < l /\ ns[i] = j /\ ns[l] = k
      BY <2>2 DEF Earlier
    <3>2. i \in DOMAIN new /\ l \in DOMAIN new /\ new[i] = j /\ new[l] = k
      BY <2>2, <3>1
    <3> QED
      BY <3>1, <3>2 DEF Earlier
  <2>5. \A j : \A k \in Listed(ns) : Earlier(new, j, k) => Earlier(ns, j, k)
    <3> SUFFICES ASSUME NEW j, NEW k \in Listed(ns), Earlier(new, j, k) PROVE Earlier(ns, j, k)
      OBVIOUS
    <3>1. PICK i, l \in 1 .. (len + 1) : i < l /\ new[i] = j /\ new[l] = k
      BY <2>2 DEF Earlier
    <3>2. l # len + 1
      BY <1>3, <2>2, <3>1
    <3>3. i \in 1 .. len /\ l \in 1 .. len
      BY <2>2, <3>1, <3>2
    <3>4. ns[i] = j /\ ns[l] = k /\ i \in DOMAIN ns /\ l \in DOMAIN ns
      BY <2>2, <3>1, <3>3
    <3> QED
      BY <3>1, <3>4 DEF Earlier
  <2>6. \A j \in Listed(ns) : Earlier(new, j, n)
    <3> SUFFICES ASSUME NEW j \in Listed(ns) PROVE Earlier(new, j, n)
      OBVIOUS
    <3>1. PICK i \in 1 .. len : ns[i] = j
      BY <2>2 DEF Listed
    <3>2. i \in DOMAIN new /\ len + 1 \in DOMAIN new /\ i < len + 1 /\ new[i] = j
      BY <2>2, <3>1
    <3> QED
      BY <2>2, <3>2 DEF Earlier
  <2> QED
    BY <1>1, <2>3, <2>4, <2>5, <2>6
<1> QED
  BY <1>2, <1>3

LEMMA EmitOrders ==
    ASSUME StripeTables, NEW m \in Wire, NEW n \in Wire, Emit(m, n)
    PROVE  /\ \A j, k \in Sent : Before(j, k) => Before(j, k)'
           /\ \A j : \A k \in Sent : Before(j, k)' => Before(j, k)
           /\ \A j \in Sent, k \in {m, n} : k \notin Sent => Before(j, k)'
<1> DEFINE ms == Noted(sent, m)
<1>1. \A j, k : Before(j, k) <=> Earlier(sent, j, k)
  BY DEF Before, Earlier
<1>2. sent' = Noted(ms, n)
  BY DEF Emit
<1>3. \A j, k : Before(j, k)' <=> Earlier(Noted(ms, n), j, k)
  BY <1>2 DEF Before, Earlier
<1>4. sent \in Seq(Wire) /\ Sent = Listed(sent)
  BY DEF StripeTables, Sent, Listed
<1>5. /\ ms \in Seq(Wire) /\ Listed(ms) = Sent \cup {m}
      /\ \A j, k : Earlier(sent, j, k) => Earlier(ms, j, k)
      /\ \A j : \A k \in Sent : Earlier(ms, j, k) => Earlier(sent, j, k)
      /\ \A j \in Sent : m \notin Sent => Earlier(ms, j, m)
  BY <1>4, NotedOrders
<1> HIDE DEF ms
<1>6. /\ \A j, k : Earlier(ms, j, k) => Earlier(Noted(ms, n), j, k)
      /\ \A j : \A k \in Listed(ms) : Earlier(Noted(ms, n), j, k) => Earlier(ms, j, k)
      /\ \A j \in Listed(ms) : n \notin Listed(ms) => Earlier(Noted(ms, n), j, n)
  BY <1>5, NotedOrders
<1>7. \A j, k \in Sent : Before(j, k) => Before(j, k)'
  BY <1>1, <1>3, <1>5, <1>6
<1>8. \A j : \A k \in Sent : Before(j, k)' => Before(j, k)
  BY <1>1, <1>3, <1>5, <1>6
<1>9. ASSUME NEW j \in Sent, NEW k \in {m, n}, k \notin Sent PROVE Before(j, k)'
  <2>1. CASE k = m
    BY <1>3, <1>5, <1>6, <1>9, <2>1
  <2>2. CASE k # m
    <3>1. k = n /\ n \notin Listed(ms) /\ j \in Listed(ms)
      BY <1>5, <1>9, <2>2
    <3> QED
      BY <1>3, <1>6, <3>1
  <2> QED
    BY <2>1, <2>2
<1> QED
  BY <1>7, <1>8, <1>9

(* Both of a pair before n are in the list.                                  *)
LEMMA BeforeAreSent == \A j, k : Before(j, k) => j \in Sent /\ k \in Sent
BY DEF Before, Sent

-----------------------------------------------------------------------------
(* Events at Stripe.                                                         *)

(* What sending two notices of a deposit changes: those notices are about    *)
(* it, stand last, and nobody has begun them.                                *)
LEMMA EventFrame ==
    ASSUME DepositsInv, NEW m \in Wire, NEW n \in Wire, Emit(m, n)
    PROVE  /\ Sent' = Sent \cup {m, n}
           /\ \A e, types : About(e, types)'
                = About(e, types) \cup {k \in {m, n} : k.deposit = e /\ k.type \in types}
           /\ \A j, k \in Sent : Before(j, k) => Before(j, k)'
           /\ \A j : \A k \in Sent : Before(j, k)' => Before(j, k)
           /\ \A j \in Sent, k \in {m, n} : k \notin Sent => Before(j, k)'
           /\ \A k \in Sent : hook'[k] = hook[k] /\ stage'[k] = stage[k]
           /\ \A k \in Sent' : k \notin Sent => stage'[k] = "idle" /\ hook'[k] = "none"
           /\ delivery' = delivery
<1>1. StripeTables /\ HookTables
  BY DEF DepositsInv
<1>2. /\ Sent' = Sent \cup {m, n}
      /\ \A k \in Sent : hook'[k] = hook[k] /\ stage'[k] = stage[k]
      /\ \A k \in Sent' : k \notin Sent => stage'[k] = "idle" /\ hook'[k] = "none"
  BY <1>1, EmitAdds
<1>3. /\ \A j, k \in Sent : Before(j, k) => Before(j, k)'
      /\ \A j : \A k \in Sent : Before(j, k)' => Before(j, k)
      /\ \A j \in Sent, k \in {m, n} : k \notin Sent => Before(j, k)'
  BY <1>1, EmitOrders
<1>4. \A e, types : About(e, types)'
        = About(e, types) \cup {k \in {m, n} : k.deposit = e /\ k.type \in types}
  BY <1>2 DEF About
<1>5. delivery' = delivery
  BY DEF Emit
<1> QED
  BY <1>2, <1>3, <1>4, <1>5

(* Nobody has begun what was just sent: handlers and rows are as they were.  *)
LEMMA EventKeepsHandlers ==
    ASSUME BooksInv, NEW m \in Wire, NEW n \in Wire, Emit(m, n)
    PROVE  /\ ClaimedInOrder'
           /\ \A e : Orderly(e)' => (reattached' = reattached => Orderly(e))
           /\ \A k \in Sent' : Told(k)' => k \in Sent /\ Told(k)
           /\ \A k \in Sent : Begun(k) => Begun(k)'
<1>1. /\ Sent' = Sent \cup {m, n}
      /\ \A j : \A k \in Sent : Before(j, k)' => Before(j, k)
      /\ \A k \in Sent : hook'[k] = hook[k] /\ stage'[k] = stage[k]
      /\ \A k \in Sent' : k \notin Sent => stage'[k] = "idle" /\ hook'[k] = "none"
      /\ delivery' = delivery
  BY EventFrame DEF BooksInv
<1>2. ClaimedInOrder'
  <2>1. \A k \in Sent' : Busy(k)' => hook'[k] = "RECEIVED"
    BY <1>1 DEF BooksInv, ClaimedInOrder, Busy
  <2>2. ASSUME delivery.inOrder, NEW j \in Sent', NEW k \in Sent', hook'[k] # "none", Before(j, k)'
        PROVE  Answered(j)'
    <3>1. k \in Sent
      BY <1>1, <2>2
    <3>2. Before(j, k) /\ hook[k] # "none"
      BY <1>1, <2>2, <3>1
    <3>3. j \in Sent
      BY <3>2, BeforeAreSent
    <3>4. Answered(j)
      BY <2>2, <3>1, <3>2, <3>3 DEF BooksInv, ClaimedInOrder
    <3> QED
      BY <1>1, <3>3, <3>4 DEF Answered, Lost, Busy
  <2> QED
    BY <1>1, <2>1, <2>2 DEF ClaimedInOrder
<1>3. ASSUME NEW e, Orderly(e)', reattached' = reattached PROVE Orderly(e)
  <2>1. ASSUME NEW j \in Sent, NEW k \in Sent, j.deposit = e, k.deposit = e, Lost(j), Lost(k)
        PROVE  j = k
    <3>1. Lost(j)' /\ Lost(k)' /\ j \in Sent' /\ k \in Sent'
      BY <1>1, <2>1 DEF Lost, Busy
    <3> QED
      BY <1>3, <2>1, <3>1 DEF Orderly, AtMostOneLost
  <2> QED
    BY <1>1, <1>3, <2>1 DEF Orderly, AtMostOneLost, OneAtATime
<1>4. \A k \in Sent' : Told(k)' => k \in Sent /\ Told(k)
  BY <1>1 DEF Told
<1>5. \A k \in Sent : Begun(k) => Begun(k)'
  BY <1>1 DEF Begun
<1> QED
  BY <1>2, <1>3, <1>4, <1>5

LEMMA EventKeepsRows ==
    ASSUME BooksInv, NEW m \in Wire, NEW n \in Wire, Emit(m, n),
           UNCHANGED <<rowVars, reattached>>,
           \A e \in Deposits : checkout[e] = "paid" => checkout'[e] = "paid"
    PROVE  RowsFollow'
<1>1. /\ \A e : Orderly(e)' => Orderly(e)
      /\ \A k \in Sent' : Told(k)' => k \in Sent /\ Told(k)
      /\ \A k \in Sent : Begun(k) => Begun(k)'
  BY EventKeepsHandlers
<1>2. Sent' = Sent \cup {m, n}
  BY EventFrame DEF BooksInv
<1>3. /\ \A e, types : \A k \in About(e, types) : k \in About(e, types)' /\ k \in Sent
      /\ \A e, types : \A k \in About(e, types)' : Told(k)' => k \in About(e, types) /\ Told(k)
  BY <1>1, <1>2 DEF About
<1> SUFFICES ASSUME NEW e \in Deposits PROVE RowFollows(e)'
  BY DEF RowsFollow
<1>4. /\ credited' = credited /\ refunded' = refunded /\ disputed' = disputed
      /\ status' = status /\ intent' = intent /\ reattached' = reattached
  BY DEF rowVars
<1>5. RowFollows(e)
  BY DEF BooksInv, RowsFollow
<1>6. /\ credited'[e] => checkout'[e] = "paid" /\ (e \in reattached' \/ intent'[e])
      /\ \A k \in About(e, SettleTypes)' : Told(k)' => credited'[e]
  BY <1>3, <1>4, <1>5 DEF RowFollows
<1>7. ASSUME Orderly(e)'
      PROVE  /\ StatusFits(e)'
             /\ refunded'[e] # 0 => \E k \in About(e, Refunded)' : Begun(k)' /\ k.total = refunded'[e]
             /\ disputed'[e] # 0 => \E k \in About(e, DisputeTypes)' : Begun(k)' /\ k.total = disputed'[e]
             /\ \A k \in About(e, RestoreTypes)' : Told(k)' => disputed'[e] = 0
             /\ \A k \in About(e, DisputeTypes)' : Told(k)' =>
                   disputed'[e] = k.total \/ \E j \in About(e, RestoreTypes)' : Begun(j)'
             /\ \A k \in About(e, Refunded)' : Told(k)' => k.total <= refunded'[e]
  <2>1. /\ StatusFits(e)
        /\ refunded[e] # 0 => \E k \in About(e, Refunded) : Begun(k) /\ k.total = refunded[e]
        /\ disputed[e] # 0 => \E k \in About(e, DisputeTypes) : Begun(k) /\ k.total = disputed[e]
        /\ \A k \in About(e, RestoreTypes) : Told(k) => disputed[e] = 0
        /\ \A k \in About(e, DisputeTypes) : Told(k) =>
              disputed[e] = k.total \/ \E j \in About(e, RestoreTypes) : Begun(j)
        /\ \A k \in About(e, Refunded) : Told(k) => k.total <= refunded[e]
    BY <1>1, <1>5, <1>7 DEF RowFollows
  <2>2. StatusFits(e)'
    BY <1>4, <2>1 DEF StatusFits
  <2>3. /\ \A types : \A k \in About(e, types) : Begun(k) => k \in About(e, types)' /\ Begun(k)'
    BY <1>1, <1>3
  <2> QED
    BY <1>3, <1>4, <2>1, <2>2, <2>3
<1> QED
  BY <1>6, <1>7 DEF RowFollows

(* An event of one deposit says nothing of the others.                       *)
LEMMA OthersAreTold ==
    ASSUME BooksInv, NEW d \in Deposits, NEW m \in Wire, NEW n \in Wire, Emit(m, n),
           m.deposit = d, n.deposit = d, session' = session,
           \A e \in Deposits : e # d => /\ checkout'[e] = checkout[e]
                                        /\ returned'[e] = returned[e]
                                        /\ dispute'[e] = dispute[e],
           (PaymentIsTold(d) /\ ToldIsTrue(d) /\ ToldInOrder(d))'
    PROVE  StripeTells'
<1> SUFFICES ASSUME NEW e \in Deposits, e # d
             PROVE  (PaymentIsTold(e) /\ ToldIsTrue(e) /\ ToldInOrder(e))'
  BY DEF StripeTells
<1>1. /\ \A types : About(e, types)' = About(e, types) /\ About(e, types) \subseteq Sent
      /\ \A j, k \in Sent : Before(j, k) => Before(j, k)'
  <2>1. \A types : About(e, types)'
          = About(e, types) \cup {k \in {m, n} : k.deposit = e /\ k.type \in types}
    BY EventFrame DEF BooksInv
  <2>2. \A types : {k \in {m, n} : k.deposit = e /\ k.type \in types} = {}
    OBVIOUS
  <2> QED
    BY <2>1, <2>2, EventFrame DEF BooksInv, About
<1>2. PaymentIsTold(e) /\ ToldIsTrue(e) /\ ToldInOrder(e)
  BY DEF BooksInv, StripeTells
<1>3. PaymentIsTold(e)'
  BY <1>1, <1>2 DEF PaymentIsTold
<1>4. ToldIsTrue(e)'
  BY <1>1, <1>2 DEF ToldIsTrue
<1>5. ToldInOrder(e)'
  BY <1>1, <1>2 DEF ToldInOrder
<1> QED
  BY <1>3, <1>4, <1>5

(* A notice that tells of no money: the checkout was unpaid and stays so, or *)
(* an open dispute is lost.                                                  *)
LEMMA OtherEventTells ==
    ASSUME BooksInv, NEW d \in Deposits, NEW n \in Wire, Emit(n, n),
           n.deposit = d, n.type \in OtherTypes,
           session' = session, returned' = returned,
           \/ checkout[d] # "paid" /\ checkout'[d] # "paid" /\ dispute'[d] = dispute[d]
              /\ (checkout'[d] = "unpaid" => session[d])
           \/ checkout'[d] = checkout[d] /\ dispute[d] = "open" /\ dispute'[d] = "lost"
    PROVE  (PaymentIsTold(d) /\ ToldIsTrue(d) /\ ToldInOrder(d))'
<1>1. PaymentIsTold(d) /\ ToldIsTrue(d) /\ ToldInOrder(d)
  BY DEF BooksInv, StripeTells
<1>2. ASSUME NEW types \in {SettleTypes, Refunded, DisputeTypes, RestoreTypes, Taking}
      PROVE  About(d, types)' = About(d, types) /\ About(d, types) \subseteq Sent
  <2>1. About(d, types)'
          = About(d, types) \cup {k \in {n, n} : k.deposit = d /\ k.type \in types}
    BY EventFrame DEF BooksInv
  <2>2. n.type \notin types
    BY DEF OtherTypes, SettleTypes, Refunded, DisputeTypes, RestoreTypes, Taking, Withdraws
  <2> QED
    BY <2>1, <2>2 DEF About
<1>3. \A j, k \in Sent : Before(j, k) => Before(j, k)'
  BY EventFrame DEF BooksInv
<1>4. /\ About(d, SettleTypes)' = About(d, SettleTypes)
      /\ About(d, Refunded)' = About(d, Refunded)
      /\ About(d, DisputeTypes)' = About(d, DisputeTypes)
      /\ About(d, RestoreTypes)' = About(d, RestoreTypes)
      /\ About(d, Taking)' = About(d, Taking)
  BY <1>2
<1>5. PaymentIsTold(d)'
  BY <1>1, <1>4 DEF PaymentIsTold
<1>6. ToldIsTrue(d)'
  BY <1>1, <1>4 DEF ToldIsTrue
<1>7. ToldInOrder(d)'
  <2>1. \A j \in About(d, SettleTypes), k \in About(d, Taking) : Before(j, k)'
    BY <1>1, <1>2, <1>3 DEF ToldInOrder
  <2>2. \A j \in About(d, DisputeTypes), k \in About(d, RestoreTypes) : Before(j, k)'
    BY <1>1, <1>2, <1>3 DEF ToldInOrder
  <2>3. ASSUME NEW j \in About(d, Refunded), NEW k \in About(d, DisputeTypes)
        PROVE  \/ Before(j, k)' /\ j.total + k.total <= Amount[d]
               \/ /\ Before(k, j)' /\ dispute'[d] = "won"
                  /\ \A i \in About(d, RestoreTypes) : Before(i, j)'
    <3>1. \/ Before(j, k) /\ j.total + k.total <= Amount[d]
          \/ /\ Before(k, j) /\ dispute[d] = "won"
             /\ \A i \in About(d, RestoreTypes) : Before(i, j)
      BY <1>1, <2>3 DEF ToldInOrder
    <3>2. j \in Sent /\ k \in Sent /\ \A i \in About(d, RestoreTypes) : i \in Sent
      BY <1>2
    <3>3. dispute[d] = "won" => dispute'[d] = "won"
      OBVIOUS
    <3> QED
      BY <1>3, <3>1, <3>2, <3>3
  <2> QED
    BY <1>4, <2>1, <2>2, <2>3 DEF ToldInOrder
<1> QED
  BY <1>5, <1>6, <1>7

(* The payment: it is told twice, and nothing was taken of it before.        *)
LEMMA PaymentTells ==
    ASSUME BooksInv, NEW d \in Deposits, NEW m \in Wire, NEW n \in Wire, Emit(m, n),
           m # n, m.deposit = d, n.deposit = d, m.type \in SettleTypes, n.type \in SettleTypes,
           session' = session, session[d], returned' = returned, dispute' = dispute,
           checkout[d] # "paid", checkout'[d] = "paid"
    PROVE  (PaymentIsTold(d) /\ ToldIsTrue(d) /\ ToldInOrder(d))'
<1>1. PaymentIsTold(d) /\ ToldIsTrue(d)
  BY DEF BooksInv, StripeTells
<1>2. returned[d] = 0 /\ dispute[d] = "none"
  BY <1>1 DEF PaymentIsTold
<1>3. ASSUME NEW types \in {Refunded, DisputeTypes, RestoreTypes}
      PROVE  About(d, types)' = About(d, types)
  <2>1. About(d, types)'
          = About(d, types) \cup {k \in {m, n} : k.deposit = d /\ k.type \in types}
    BY EventFrame DEF BooksInv
  <2>2. m.type \notin types /\ n.type \notin types
    BY DEF SettleTypes, Refunded, DisputeTypes, RestoreTypes
  <2> QED
    BY <2>1, <2>2
<1>4. About(d, Refunded) = {} /\ About(d, DisputeTypes) = {} /\ About(d, RestoreTypes) = {}
  <2>1. \A k \in About(d, Refunded) : k.total \in Nat
    BY DEF About, BooksInv, DepositsInv, StripeTables, Sent, Wire
  <2> QED
    BY <1>1, <1>2, <2>1 DEF ToldIsTrue
<1>5. /\ About(d, Refunded)' = {} /\ About(d, DisputeTypes)' = {} /\ About(d, RestoreTypes)' = {}
  BY <1>3, <1>4
<1>6. About(d, Taking)' = {}
  BY <1>5 DEF About, Taking, Withdraws
<1>7. m \in About(d, SettleTypes)' /\ n \in About(d, SettleTypes)'
  <2>1. About(d, SettleTypes)'
          = About(d, SettleTypes) \cup {k \in {m, n} : k.deposit = d /\ k.type \in SettleTypes}
    BY EventFrame DEF BooksInv
  <2> QED
    BY <2>1
<1>8. PaymentIsTold(d)'
  BY <1>1, <1>2, <1>7 DEF PaymentIsTold
<1>9. ToldIsTrue(d)'
  BY <1>5 DEF ToldIsTrue
<1>10. ToldInOrder(d)'
  BY <1>5, <1>6 DEF ToldInOrder
<1> QED
  BY <1>8, <1>9, <1>10

LEMMA RefundTells ==
    ASSUME BooksInv, NEW d \in Deposits, NEW n \in Wire, Emit(n, n),
           n.deposit = d, n.type = "refunded", returned[d] < n.total,
           session' = session, checkout' = checkout, dispute' = dispute,
           checkout[d] = "paid", dispute[d] \in {"none", "won"}, returned'[d] = n.total
    PROVE  (PaymentIsTold(d) /\ ToldIsTrue(d) /\ ToldInOrder(d))'
<1> DEFINE total == n.total
<1>0. /\ total \in Nat /\ total <= Amount[d] /\ Amount[d] \in Nat /\ returned[d] \in Nat
      /\ \A k \in Sent : k.total \in Nat
  BY AmountAssumption DEF BooksInv, DepositsInv, StripeTables, Sent, Wire
<1>1. PaymentIsTold(d) /\ ToldIsTrue(d) /\ ToldInOrder(d)
  BY DEF BooksInv, StripeTells
<1>2. ASSUME NEW types \in {SettleTypes, DisputeTypes, RestoreTypes}
      PROVE  About(d, types)' = About(d, types)
  <2>1. About(d, types)'
          = About(d, types) \cup {k \in {n, n} : k.deposit = d /\ k.type \in types}
    BY EventFrame DEF BooksInv
  <2>2. n.type \notin types
    BY DEF SettleTypes, DisputeTypes, RestoreTypes
  <2> QED
    BY <2>1, <2>2
<1>3. /\ About(d, SettleTypes)' = About(d, SettleTypes)
      /\ About(d, DisputeTypes)' = About(d, DisputeTypes)
      /\ About(d, RestoreTypes)' = About(d, RestoreTypes)
  BY <1>2
<1>4. \A types : About(d, types) \subseteq Sent
  BY DEF About
<1>5. ASSUME NEW types \in {Refunded, Taking}
      PROVE  About(d, types)' = About(d, types) \cup {n}
  <2>1. About(d, types)'
          = About(d, types) \cup {k \in {n, n} : k.deposit = d /\ k.type \in types}
    BY EventFrame DEF BooksInv
  <2>2. n.type \in types
    BY DEF Refunded, Taking
  <2> QED
    BY <2>1, <2>2
<1>6. /\ About(d, Refunded)' = About(d, Refunded) \cup {n}
      /\ About(d, Taking)' = About(d, Taking) \cup {n}
  BY <1>5
<1>7. /\ \A j, k \in Sent : Before(j, k) => Before(j, k)'
      /\ \A j \in Sent, k \in {n} : k \notin Sent => Before(j, k)'
  BY EventFrame DEF BooksInv
<1>8. \A k \in About(d, Refunded) : k.total # 0 /\ k.total <= returned[d]
  BY <1>1 DEF ToldIsTrue
<1>9. n \notin Sent
  <2> SUFFICES ASSUME n \in Sent PROVE FALSE
    OBVIOUS
  <2>1. n \in About(d, Refunded)
    BY DEF About, Refunded
  <2> QED
    BY <1>0, <1>8, <2>1
<1>10. PaymentIsTold(d)'
  BY <1>0, <1>1, <1>3, <1>6 DEF PaymentIsTold
<1>11. ToldIsTrue(d)'
  <2>1. \A k \in About(d, Refunded)' : k.total # 0 /\ k.total <= returned'[d]
    BY <1>0, <1>4, <1>6, <1>8
  <2> QED
    BY <1>1, <1>3, <2>1 DEF ToldIsTrue
<1>12. ToldInOrder(d)'
  <2>1. \A j \in About(d, SettleTypes), k \in About(d, Taking)' : Before(j, k)'
    BY <1>1, <1>4, <1>6, <1>7, <1>9 DEF ToldInOrder
  <2>2. \A j \in About(d, DisputeTypes), k \in About(d, RestoreTypes) : Before(j, k)'
    BY <1>1, <1>4, <1>7 DEF ToldInOrder
  <2>3. ASSUME NEW j \in About(d, Refunded)', NEW k \in About(d, DisputeTypes)
        PROVE  \/ Before(j, k)' /\ j.total + k.total <= Amount[d]
               \/ /\ Before(k, j)' /\ dispute'[d] = "won"
                  /\ \A i \in About(d, RestoreTypes) : Before(i, j)'
    <3>1. k \in Sent /\ \A i \in About(d, RestoreTypes) : i \in Sent
      BY <1>4
    <3>2. CASE j \in About(d, Refunded)
      <4>1. \/ Before(j, k) /\ j.total + k.total <= Amount[d]
            \/ /\ Before(k, j) /\ dispute[d] = "won"
               /\ \A i \in About(d, RestoreTypes) : Before(i, j)
        BY <1>1, <2>3, <3>2 DEF ToldInOrder
      <4>2. j \in Sent
        BY <1>4, <3>2
      <4> QED
        BY <1>7, <3>1, <4>1, <4>2
    <3>3. CASE j = n
      <4>1. dispute[d] = "won"
        BY <1>1, <2>3 DEF ToldIsTrue
      <4> QED
        BY <1>7, <1>9, <3>1, <3>3, <4>1
    <3> QED
      BY <1>6, <3>2, <3>3
  <2> QED
    BY <1>3, <2>1, <2>2, <2>3 DEF ToldInOrder
<1> QED
  BY <1>10, <1>11, <1>12

LEMMA DisputeTells ==
    ASSUME BooksInv, NEW d \in Deposits, NEW m \in Wire, NEW n \in Wire, Emit(m, n),
           m.deposit = d, n.deposit = d, m.type \in DisputeTypes, n.type \in DisputeTypes,
           m.total = Amount[d] - returned[d], n.total = Amount[d] - returned[d], m.total > 0,
           session' = session, checkout' = checkout, returned' = returned,
           checkout[d] = "paid", dispute[d] = "none", dispute'[d] = "open"
    PROVE  (PaymentIsTold(d) /\ ToldIsTrue(d) /\ ToldInOrder(d))'
<1>0. /\ Amount[d] \in Nat /\ returned[d] \in Nat
      /\ \A k \in Sent : k.total \in Nat
  BY AmountAssumption DEF BooksInv, DepositsInv, StripeTables, Sent, Wire
<1>1. PaymentIsTold(d) /\ ToldIsTrue(d) /\ ToldInOrder(d)
  BY DEF BooksInv, StripeTells
<1>2. ASSUME NEW types \in {SettleTypes, Refunded, RestoreTypes}
      PROVE  About(d, types)' = About(d, types)
  <2>1. About(d, types)'
          = About(d, types) \cup {k \in {m, n} : k.deposit = d /\ k.type \in types}
    BY EventFrame DEF BooksInv
  <2>2. m.type \notin types /\ n.type \notin types
    BY DEF SettleTypes, Refunded, RestoreTypes, DisputeTypes
  <2> QED
    BY <2>1, <2>2
<1>3. /\ About(d, SettleTypes)' = About(d, SettleTypes)
      /\ About(d, Refunded)' = About(d, Refunded)
      /\ About(d, RestoreTypes)' = About(d, RestoreTypes)
  BY <1>2
<1>4. \A types : About(d, types) \subseteq Sent
  BY DEF About
<1>5. ASSUME NEW types \in {DisputeTypes, Taking}
      PROVE  About(d, types)' = About(d, types) \cup {m, n}
  <2>1. About(d, types)'
          = About(d, types) \cup {k \in {m, n} : k.deposit = d /\ k.type \in types}
    BY EventFrame DEF BooksInv
  <2>2. m.type \in types /\ n.type \in types
    BY DEF Taking, Withdraws
  <2> QED
    BY <2>1, <2>2
<1>6. About(d, DisputeTypes) = {} /\ About(d, RestoreTypes) = {}
  BY <1>1 DEF ToldIsTrue
<1>7. /\ About(d, DisputeTypes)' = {m, n}
      /\ About(d, Taking)' = About(d, Taking) \cup {m, n}
  BY <1>5, <1>6
<1>8. /\ \A j, k \in Sent : Before(j, k) => Before(j, k)'
      /\ \A j \in Sent, k \in {m, n} : k \notin Sent => Before(j, k)'
  BY EventFrame DEF BooksInv
<1>9. m \notin Sent /\ n \notin Sent
  BY <1>6 DEF About
<1>10. PaymentIsTold(d)'
  BY <1>1, <1>3, <1>7 DEF PaymentIsTold
<1>11. ToldIsTrue(d)'
  BY <1>0, <1>1, <1>3, <1>6, <1>7 DEF ToldIsTrue
<1>12. ToldInOrder(d)'
  <2>1. \A j \in About(d, SettleTypes), k \in About(d, Taking)' : Before(j, k)'
    BY <1>1, <1>4, <1>7, <1>8, <1>9 DEF ToldInOrder
  <2>2. \A j \in About(d, Refunded), k \in {m, n} : Before(j, k)' /\ j.total + k.total <= Amount[d]
    <3>1. \A j \in About(d, Refunded) : j.total <= returned[d] /\ j.total \in Nat /\ j \in Sent
      BY <1>0, <1>1, <1>4 DEF ToldIsTrue
    <3>2. \A j \in About(d, Refunded), k \in {m, n} : j.total + k.total <= Amount[d]
      BY <1>0, <3>1
    <3> QED
      BY <1>8, <1>9, <3>1, <3>2
  <2> QED
    BY <1>3, <1>6, <1>7, <2>1, <2>2 DEF ToldInOrder
<1> QED
  BY <1>10, <1>11, <1>12

LEMMA WonTells ==
    ASSUME BooksInv, NEW d \in Deposits, NEW m \in Wire, NEW n \in Wire, Emit(m, n),
           m # n, m.deposit = d, n.deposit = d, m.type \in RestoreTypes, n.type \in RestoreTypes,
           session' = session, checkout' = checkout, returned' = returned,
           dispute[d] = "open", dispute'[d] = "won"
    PROVE  (PaymentIsTold(d) /\ ToldIsTrue(d) /\ ToldInOrder(d))'
<1>1. PaymentIsTold(d) /\ ToldIsTrue(d) /\ ToldInOrder(d)
  BY DEF BooksInv, StripeTells
<1>2. ASSUME NEW types \in {SettleTypes, Refunded, DisputeTypes}
      PROVE  About(d, types)' = About(d, types)
  <2>1. About(d, types)'
          = About(d, types) \cup {k \in {m, n} : k.deposit = d /\ k.type \in types}
    BY EventFrame DEF BooksInv
  <2>2. m.type \notin types /\ n.type \notin types
    BY DEF SettleTypes, Refunded, RestoreTypes, DisputeTypes
  <2> QED
    BY <2>1, <2>2
<1>3. /\ About(d, SettleTypes)' = About(d, SettleTypes)
      /\ About(d, Refunded)' = About(d, Refunded)
      /\ About(d, DisputeTypes)' = About(d, DisputeTypes)
  BY <1>2
<1>4. \A types : About(d, types) \subseteq Sent
  BY DEF About
<1>5. ASSUME NEW types \in {RestoreTypes, Taking}
      PROVE  About(d, types)' = About(d, types) \cup {m, n}
  <2>1. About(d, types)'
          = About(d, types) \cup {k \in {m, n} : k.deposit = d /\ k.type \in types}
    BY EventFrame DEF BooksInv
  <2>2. m.type \in types /\ n.type \in types
    BY DEF Taking, Withdraws
  <2> QED
    BY <2>1, <2>2
<1>6. About(d, RestoreTypes) = {}
  BY <1>1 DEF ToldIsTrue
<1>7. /\ About(d, RestoreTypes)' = {m, n}
      /\ About(d, Taking)' = About(d, Taking) \cup {m, n}
  BY <1>5, <1>6
<1>8. /\ \A j, k \in Sent : Before(j, k) => Before(j, k)'
      /\ \A j \in Sent, k \in {m, n} : k \notin Sent => Before(j, k)'
  BY EventFrame DEF BooksInv
<1>9. m \notin Sent /\ n \notin Sent
  BY <1>6 DEF About
<1>10. PaymentIsTold(d)'
  BY <1>1, <1>3, <1>7 DEF PaymentIsTold
<1>11. ToldIsTrue(d)'
  BY <1>1, <1>3, <1>7 DEF ToldIsTrue
<1>12. ToldInOrder(d)'
  <2>1. \A j \in About(d, SettleTypes), k \in About(d, Taking)' : Before(j, k)'
    BY <1>1, <1>4, <1>7, <1>8, <1>9 DEF ToldInOrder
  <2>2. \A j \in About(d, DisputeTypes), k \in {m, n} : Before(j, k)'
    BY <1>4, <1>8, <1>9
  <2>3. \A j \in About(d, Refunded), k \in About(d, DisputeTypes) :
           Before(j, k)' /\ j.total + k.total <= Amount[d]
    BY <1>1, <1>4, <1>8 DEF ToldInOrder
  <2> QED
    BY <1>3, <1>7, <2>1, <2>2, <2>3 DEF ToldInOrder
<1> QED
  BY <1>10, <1>11, <1>12

(* Any event of a deposit that tells the truth of it keeps the books.        *)
LEMMA EventKeepsBooks ==
    ASSUME BooksInv, DepositsInv', NEW d \in Deposits, NEW m \in Wire, NEW n \in Wire, Emit(m, n),
           m.deposit = d, n.deposit = d, UNCHANGED <<rowVars, reattached>>,
           checkout[d] = "paid" => checkout'[d] = "paid",
           \A e \in Deposits : e # d => /\ checkout'[e] = checkout[e]
                                        /\ returned'[e] = returned[e]
                                        /\ dispute'[e] = dispute[e],
           (PaymentIsTold(d) /\ ToldIsTrue(d) /\ ToldInOrder(d))'
    PROVE  BooksInv'
<1>1. session' = session
  BY DEF rowVars
<1>2. StripeTells'
  BY <1>1, OthersAreTold
<1>3. ClaimedInOrder'
  BY EventKeepsHandlers
<1>4. \A e \in Deposits : checkout[e] = "paid" => checkout'[e] = "paid"
  OBVIOUS
<1>5. RowsFollow'
  BY <1>4, EventKeepsRows
<1> QED
  BY <1>2, <1>3, <1>5 DEF BooksInv

LEMMA StripeKeepsBooks ==
    ASSUME BooksInv, NEW d \in Deposits, Stripe(d)
    PROVE  BooksInv'
<1>0. DepositsInv'
  BY StripeStep DEF BooksInv
<1>1. RowTables /\ CallTables /\ StripeTables
  BY DEF BooksInv, DepositsInv
<1>2. Amount[d] \in Nat /\ Amount[d] # 0 /\ returned[d] \in Nat
  BY <1>1, AmountAssumption DEF StripeTables
<1>3. ASSUME NEW t \in Types, NEW a \in Nat, a <= Amount[d]
      PROVE  /\ Notice(d, t, a) \in Wire /\ Notice(d, t, a).type = t
             /\ Notice(d, t, a).deposit = d /\ Notice(d, t, a).total = a
  BY <1>3 DEF Notice, Wire
<1>4. /\ checkout \in [Deposits -> CheckoutValues] /\ returned \in [Deposits -> Nat]
      /\ dispute \in [Deposits -> {"none", "open", "won", "lost"}]
  BY <1>1 DEF StripeTables
<1>5. ASSUME NEW t \in OtherTypes, Emit(Notice(d, t, 0), Notice(d, t, 0)),
             UNCHANGED <<returned, dispute, rowVars, moneyVars, callVars>>,
             NEW to \in CheckoutValues \ {"paid"}, checkout[d] # "paid",
             checkout' = [checkout EXCEPT ![d] = to], to = "unpaid" => session[d]
      PROVE  BooksInv'
  <2> DEFINE n == Notice(d, t, 0)
  <2>1. n \in Wire /\ n.type = t /\ n.deposit = d
    BY <1>2, <1>3 DEF Types
  <2>2. Emit(n, n) /\ n.type \in OtherTypes
    BY <1>5, <2>1
  <2> HIDE DEF n
  <2>3. /\ checkout'[d] = to /\ \A e \in Deposits : e # d => checkout'[e] = checkout[e]
        /\ returned' = returned /\ dispute' = dispute /\ session' = session
        /\ UNCHANGED <<rowVars, reattached>>
    BY <1>4, <1>5 DEF rowVars, callVars
  <2>4. (PaymentIsTold(d) /\ ToldIsTrue(d) /\ ToldInOrder(d))'
    BY <1>5, <2>1, <2>2, <2>3, OtherEventTells
  <2> QED
    BY <1>0, <1>5, <2>1, <2>2, <2>3, <2>4, EventKeepsBooks
<1>6. ASSUME NEW t \in SettleTypes, NEW u \in SettleTypes, t # u, session[d],
             Emit(Notice(d, t, 0), Notice(d, u, 0)), checkout[d] # "paid",
             UNCHANGED <<returned, dispute, rowVars, moneyVars, callVars>>,
             checkout' = [checkout EXCEPT ![d] = "paid"]
      PROVE  BooksInv'
  <2> DEFINE m == Notice(d, t, 0)
             n == Notice(d, u, 0)
  <2>1. /\ m \in Wire /\ m.type = t /\ m.deposit = d
        /\ n \in Wire /\ n.type = u /\ n.deposit = d
    BY <1>2, <1>3 DEF Types
  <2>2. Emit(m, n) /\ m.type \in SettleTypes /\ n.type \in SettleTypes /\ m # n
    BY <1>6, <2>1
  <2> HIDE DEF m, n
  <2>3. /\ checkout'[d] = "paid" /\ \A e \in Deposits : e # d => checkout'[e] = checkout[e]
        /\ returned' = returned /\ dispute' = dispute /\ session' = session
        /\ UNCHANGED <<rowVars, reattached>>
    BY <1>4, <1>6 DEF rowVars, callVars
  <2>4. (PaymentIsTold(d) /\ ToldIsTrue(d) /\ ToldInOrder(d))'
    BY <1>6, <2>1, <2>2, <2>3, PaymentTells
  <2> QED
    BY <1>0, <2>1, <2>2, <2>3, <2>4, EventKeepsBooks
<1>7. CASE Pay(d)
  <2>1. "completed" # "intent_succeeded" /\ {"completed", "intent_succeeded"} \subseteq SettleTypes
    BY DEF SettleTypes
  <2> QED
    BY <1>6, <1>7, <2>1 DEF Pay, MoveCheckout
<1>8. CASE DelayedPaymentArrives(d)
  <2>1. "async_succeeded" # "intent_succeeded" /\ {"async_succeeded", "intent_succeeded"} \subseteq SettleTypes
    BY DEF SettleTypes
  <2>2. session[d]
    BY <1>8 DEF DelayedPaymentArrives, MoveCheckout, BooksInv, StripeTells, PaymentIsTold
  <2> QED
    BY <1>6, <1>8, <2>1, <2>2 DEF DelayedPaymentArrives, MoveCheckout
<1>9. {"unpaid", "open", "declined", "expired"} \subseteq CheckoutValues \ {"paid"}
  BY DEF CheckoutValues
<1>10. CASE PayLater(d)
  BY <1>5, <1>9, <1>10 DEF PayLater, MoveCheckout, EmitOne, OtherTypes
<1>11. CASE PaymentFails(d)
  BY <1>5, <1>9, <1>11 DEF PaymentFails, MoveCheckout, EmitOne, OtherTypes
<1>12. CASE SessionExpires(d)
  BY <1>5, <1>9, <1>12 DEF SessionExpires, MoveCheckout, EmitOne, OtherTypes
<1>13. CASE \E total \in 1 .. Amount[d] : RefundAtStripe(d, total)
  <2> PICK total \in 1 .. Amount[d] : RefundAtStripe(d, total)
    BY <1>13
  <2> DEFINE n == Notice(d, "refunded", total)
  <2>1. n \in Wire /\ n.type = "refunded" /\ n.deposit = d /\ n.total = total
    BY <1>2, <1>3 DEF Types
  <2>2. Emit(n, n)
    BY DEF RefundAtStripe, EmitOne
  <2> HIDE DEF n
  <2>3. /\ returned'[d] = total /\ \A e \in Deposits : e # d => returned'[e] = returned[e]
        /\ returned[d] < total /\ checkout[d] = "paid" /\ dispute[d] \in {"none", "won"}
        /\ checkout' = checkout /\ dispute' = dispute /\ session' = session
        /\ UNCHANGED <<rowVars, reattached>>
    BY <1>4 DEF RefundAtStripe, rowVars, callVars
  <2>4. (PaymentIsTold(d) /\ ToldIsTrue(d) /\ ToldInOrder(d))'
    BY <2>1, <2>2, <2>3, RefundTells
  <2> QED
    BY <1>0, <2>1, <2>2, <2>3, <2>4, EventKeepsBooks
<1>14. CASE DisputeAtStripe(d)
  <2> DEFINE total == Amount[d] - returned[d]
             m == Notice(d, "dispute_created", total)
             n == Notice(d, "funds_withdrawn", total)
  <2>0. total \in Nat /\ total <= Amount[d] /\ total > 0
    BY <1>2, <1>14 DEF DisputeAtStripe
  <2>1. /\ m \in Wire /\ m.type \in DisputeTypes /\ m.deposit = d /\ m.total = total
        /\ n \in Wire /\ n.type \in DisputeTypes /\ n.deposit = d /\ n.total = total
    <3>1. {"dispute_created", "funds_withdrawn"} \subseteq DisputeTypes /\ DisputeTypes \subseteq Types
      BY DEF DisputeTypes, Types
    <3> QED
      BY <1>3, <2>0, <3>1
  <2>2. Emit(m, n)
    BY <1>14 DEF DisputeAtStripe
  <2>3. /\ dispute'[d] = "open" /\ \A e \in Deposits : e # d => dispute'[e] = dispute[e]
        /\ dispute[d] = "none" /\ checkout[d] = "paid"
        /\ checkout' = checkout /\ returned' = returned /\ session' = session
        /\ UNCHANGED <<rowVars, reattached>>
    BY <1>4, <1>14 DEF DisputeAtStripe, rowVars, callVars
  <2>4. m.total = Amount[d] - returned[d] /\ n.total = Amount[d] - returned[d] /\ m.total > 0
    BY <2>0, <2>1
  <2> HIDE DEF m, n, total
  <2>5. (PaymentIsTold(d) /\ ToldIsTrue(d) /\ ToldInOrder(d))'
    BY <2>1, <2>2, <2>3, <2>4, DisputeTells
  <2> QED
    BY <1>0, <2>1, <2>2, <2>3, <2>5, EventKeepsBooks
<1>15. CASE DisputeCloses(d, "won")
  <2> DEFINE m == Notice(d, "closed_won", 0)
             n == Notice(d, "funds_reinstated", 0)
  <2>1. /\ m \in Wire /\ m.type \in RestoreTypes /\ m.deposit = d
        /\ n \in Wire /\ n.type \in RestoreTypes /\ n.deposit = d /\ m # n
    <3>1. {"closed_won", "funds_reinstated"} \subseteq RestoreTypes /\ RestoreTypes \subseteq Types
      BY DEF RestoreTypes, Types
    <3>2. m.type = "closed_won" /\ n.type = "funds_reinstated"
      BY DEF Notice
    <3> QED
      BY <1>2, <1>3, <3>1, <3>2
  <2>2. Emit(m, n)
    BY <1>15 DEF DisputeCloses
  <2> HIDE DEF m, n
  <2>3. /\ dispute'[d] = "won" /\ \A e \in Deposits : e # d => dispute'[e] = dispute[e]
        /\ dispute[d] = "open"
        /\ checkout' = checkout /\ returned' = returned /\ session' = session
        /\ UNCHANGED <<rowVars, reattached>>
    BY <1>4, <1>15 DEF DisputeCloses, rowVars, callVars
  <2>4. (PaymentIsTold(d) /\ ToldIsTrue(d) /\ ToldInOrder(d))'
    BY <2>1, <2>2, <2>3, WonTells
  <2> QED
    BY <1>0, <2>1, <2>2, <2>3, <2>4, EventKeepsBooks
<1>16. CASE DisputeCloses(d, "lost")
  <2> DEFINE n == Notice(d, "closed_lost", 0)
  <2>1. n \in Wire /\ n.type \in OtherTypes /\ n.deposit = d
    BY <1>2, <1>3 DEF OtherTypes, Types
  <2>2. Emit(n, n)
    BY <1>16 DEF DisputeCloses, EmitOne
  <2> HIDE DEF n
  <2>3. /\ dispute'[d] = "lost" /\ \A e \in Deposits : e # d => dispute'[e] = dispute[e]
        /\ dispute[d] = "open"
        /\ checkout' = checkout /\ returned' = returned /\ session' = session
        /\ UNCHANGED <<rowVars, reattached>>
    BY <1>4, <1>16 DEF DisputeCloses, rowVars, callVars
  <2>4. (PaymentIsTold(d) /\ ToldIsTrue(d) /\ ToldInOrder(d))'
    BY <2>1, <2>2, <2>3, OtherEventTells
  <2> QED
    BY <1>0, <2>1, <2>2, <2>3, <2>4, EventKeepsBooks
<1> QED
  BY <1>7, <1>8, <1>10, <1>11, <1>12, <1>13, <1>14, <1>15, <1>16 DEF Stripe

-----------------------------------------------------------------------------
(* Calls of the player.                                                      *)

(* A call hears no notice: it may open the checkout, and change the status   *)
(* of a deposit that is not credited.                                        *)
LEMMA CallKeepsBooks ==
    ASSUME BooksInv, DepositsInv',
           UNCHANGED <<credited, refunded, disputed, returned, dispute, sent, hook, stage, delivery>>,
           reattached \subseteq reattached',
           \A e \in Deposits :
              /\ checkout'[e] = checkout[e] \/ (checkout[e] = "none" /\ checkout'[e] = "open")
              /\ session[e] => session'[e]
              /\ e \in reattached' \/ (credited[e] /\ intent[e] => intent'[e])
              /\ \/ e \in reattached'
                 \/ status'[e] = status[e]
                 \/ ~ credited[e] /\ status'[e] \notin Settled
    PROVE  BooksInv'
<1>1. /\ \A e, types : About(e, types)' = About(e, types)
      /\ \A j, k : Before(j, k)' <=> Before(j, k)
      /\ \A k : (Told(k)' <=> Told(k)) /\ (Begun(k)' <=> Begun(k))
      /\ \A k : (Answered(k)' <=> Answered(k)) /\ (Lost(k)' <=> Lost(k)) /\ (Busy(k)' <=> Busy(k))
      /\ Sent' = Sent
  BY DEF About, Before, Told, Begun, Answered, Lost, Busy, Sent
<1>2. StripeTells'
  <2> SUFFICES ASSUME NEW e \in Deposits
               PROVE  (PaymentIsTold(e) /\ ToldIsTrue(e) /\ ToldInOrder(e))'
    BY DEF StripeTells
  <2>1. PaymentIsTold(e) /\ ToldIsTrue(e) /\ ToldInOrder(e)
    BY DEF BooksInv, StripeTells
  <2>2. PaymentIsTold(e)'
    BY <1>1, <2>1 DEF PaymentIsTold
  <2>3. ToldIsTrue(e)'
    BY <1>1, <2>1 DEF ToldIsTrue
  <2>4. ToldInOrder(e)'
    BY <1>1, <2>1 DEF ToldInOrder
  <2> QED
    BY <2>2, <2>3, <2>4
<1>3. ClaimedInOrder'
  BY <1>1 DEF BooksInv, ClaimedInOrder
<1>4. RowsFollow'
  <2> SUFFICES ASSUME NEW e \in Deposits PROVE RowFollows(e)'
    BY DEF RowsFollow
  <2>1. RowFollows(e)
    BY DEF BooksInv, RowsFollow
  <2>2. /\ credited'[e] => checkout'[e] = "paid" /\ (e \in reattached' \/ intent'[e])
        /\ \A k \in About(e, SettleTypes)' : Told(k)' => credited'[e]
    BY <1>1, <2>1 DEF RowFollows
  <2>3. Orderly(e)' => Orderly(e) /\ e \notin reattached'
    BY <1>1 DEF Orderly, OneAtATime, AtMostOneLost
  <2>4. Orderly(e)' => StatusFits(e)'
    <3> SUFFICES ASSUME Orderly(e)' PROVE StatusFits(e)'
      OBVIOUS
    <3>1. StatusFits(e) /\ e \notin reattached'
      BY <2>1, <2>3 DEF RowFollows
    <3>2. CASE status'[e] = status[e]
      BY <3>1, <3>2 DEF StatusFits
    <3>3. CASE ~ credited[e] /\ status'[e] \notin Settled
      BY <3>1, <3>3 DEF StatusFits, Settled
    <3> QED
      BY <3>1, <3>2, <3>3
  <2> QED
    BY <1>1, <2>1, <2>2, <2>3, <2>4 DEF RowFollows
<1> QED
  BY <1>2, <1>3, <1>4 DEF BooksInv

(* What a call leaves to show, for one deposit.                              *)
CallKeeps(e) ==
    /\ checkout'[e] = checkout[e] \/ (checkout[e] = "none" /\ checkout'[e] = "open")
    /\ session[e] => session'[e]
    /\ e \in reattached' \/ (credited[e] /\ intent[e] => intent'[e])
    /\ \/ e \in reattached'
       \/ status'[e] = status[e]
       \/ ~ credited[e] /\ status'[e] \notin Settled

LEMMA CallsKeepBooks ==
    ASSUME BooksInv, NEW c \in Callers, Call(c)
    PROVE  BooksInv'
<1>0. DepositsInv'
  BY CallStep DEF BooksInv
<1>1. RowTables /\ CallTables /\ StripeTables
  BY DEF BooksInv, DepositsInv
<1>2. /\ status \in [Deposits -> Statuses \cup {"NONE"}] /\ session \in [Deposits -> BOOLEAN]
      /\ intent \in [Deposits -> BOOLEAN] /\ checkout \in [Deposits -> CheckoutValues]
      /\ pc[c] # "idle" => job[c] \in Deposits
  BY <1>1 DEF RowTables, StripeTables, CallTables
<1>3. "NONE" \notin Settled /\ "CREATED" \notin Settled /\ "CHECKOUT_CREATED" \notin Settled
      /\ "CANCELED" \notin Settled
  BY DEF Settled
<1> DEFINE Quiet == UNCHANGED <<credited, refunded, disputed, returned, dispute, sent, hook, stage, delivery>>
<1>10. ASSUME Quiet, reattached \subseteq reattached', \A e \in Deposits : CallKeeps(e)
       PROVE  BooksInv'
  BY <1>0, <1>10, CallKeepsBooks DEF CallKeeps
<1>4. CASE \E d \in Deposits : Open(c, d)
  <2> PICK d \in Deposits : Open(c, d)
    BY <1>4
  <2>1. Quiet /\ UNCHANGED <<session, intent, checkout, reattached>>
    BY DEF Open, stripeVars, hookVars
  <2>2. ~ credited[d] /\ status' = [status EXCEPT ![d] = IF @ = "NONE" THEN "CREATED" ELSE @]
    BY DEF Open, BooksInv, RowsFollow, RowFollows, StripeTells, PaymentIsTold
  <2>3. ASSUME NEW e \in Deposits PROVE CallKeeps(e)
    <3>1. CASE e = d
      <4>1. status'[e] = status[e] \/ status'[e] = "CREATED"
        BY <1>2, <2>2, <3>1
      <4> QED
        BY <1>3, <2>1, <2>2, <3>1, <4>1 DEF CallKeeps
    <3>2. CASE e # d
      <4>1. status'[e] = status[e]
        BY <1>2, <2>2, <3>2
      <4> QED
        BY <2>1, <4>1 DEF CallKeeps
    <3> QED
      BY <3>1, <3>2
  <2> QED
    BY <1>10, <2>1, <2>3
<1>5. CASE (\E d \in Deposits : StartCancel(c, d)) \/ StripeFails(c) \/ ExpireRefused(c)
  <2>1. Quiet /\ UNCHANGED <<session, intent, checkout, status, reattached>>
    BY <1>5 DEF StartCancel, StripeFails, ExpireRefused, rowVars, stripeVars, hookVars
  <2>2. \A e \in Deposits : CallKeeps(e)
    BY <2>1 DEF CallKeeps
  <2> QED
    BY <1>10, <2>1, <2>2
<1>6. CASE StripeOpensSession(c)
  <2>1. Quiet /\ UNCHANGED <<session, intent, status, reattached>>
    BY <1>6 DEF StripeOpensSession, rowVars, hookVars
  <2>2. PICK d \in Deposits : checkout' = [checkout EXCEPT ![d] = IF @ = "none" THEN "open" ELSE @]
    BY <1>2, <1>6 DEF StripeOpensSession, Step
  <2>3. \A e \in Deposits : checkout'[e] = checkout[e] \/ (checkout[e] = "none" /\ checkout'[e] = "open")
    BY <1>2, <2>2
  <2>4. \A e \in Deposits : CallKeeps(e)
    BY <2>1, <2>3 DEF CallKeeps
  <2> QED
    BY <1>10, <2>1, <2>4
<1>7. CASE \E given \in BOOLEAN : AttachCheckout(c, given)
  <2> PICK given \in BOOLEAN : AttachCheckout(c, given)
    BY <1>7
  <2> DEFINE d == job[c]
  <2>1. d \in Deposits
    BY <1>2 DEF AttachCheckout, Return, Step
  <2>2. /\ Quiet /\ checkout' = checkout
        /\ session' = [session EXCEPT ![d] = TRUE]
        /\ intent'  = [intent EXCEPT ![d] = given]
        /\ status'  = [status EXCEPT ![d] = "CHECKOUT_CREATED"]
        /\ reattached' = IF session[d] THEN reattached \cup {d} ELSE reattached
    BY DEF AttachCheckout, stripeVars, hookVars
  <2> HIDE DEF d
  <2>3. d \in reattached' \/ ~ credited[d]
    BY <2>1, <2>2 DEF BooksInv, RowsFollow, RowFollows, StripeTells, PaymentIsTold
  <2>4. ASSUME NEW e \in Deposits PROVE CallKeeps(e)
    <3>1. CASE e = d
      <4>1. session'[e] /\ status'[e] = "CHECKOUT_CREATED"
        BY <1>2, <2>1, <2>2, <3>1
      <4> QED
        BY <1>3, <2>2, <2>3, <3>1, <4>1 DEF CallKeeps
    <3>2. CASE e # d
      <4>1. session'[e] = session[e] /\ status'[e] = status[e] /\ intent'[e] = intent[e]
        BY <1>2, <2>1, <2>2, <3>2
      <4> QED
        BY <2>2, <4>1 DEF CallKeeps
    <3> QED
      BY <3>1, <3>2
  <2>5. Quiet /\ reattached \subseteq reattached'
    BY <2>2
  <2> QED
    BY <1>10, <2>4, <2>5
<1>8. CASE MarkCanceled(c)
  <2>1. Quiet /\ UNCHANGED <<session, intent, checkout, reattached>>
    BY <1>8 DEF MarkCanceled, stripeVars, hookVars
  <2>2. PICK d \in Deposits : status' = [status EXCEPT ![d] = IF credited[d] THEN @ ELSE "CANCELED"]
    BY <1>2, <1>8 DEF MarkCanceled, CancelIt, Return, Step
  <2>3. \A e \in Deposits : status'[e] = status[e] \/ (~ credited[e] /\ status'[e] = "CANCELED")
    BY <1>2, <2>2
  <2>4. \A e \in Deposits : CallKeeps(e)
    BY <1>3, <2>1, <2>3 DEF CallKeeps
  <2> QED
    BY <1>10, <2>1, <2>4
<1>9. CASE ExpireSession(c)
  <2>1. PICK d \in Deposits : d = job[c]
    BY <1>2, <1>9 DEF ExpireSession, Step
  <2> DEFINE n == Notice(d, "expired", 0)
  <2>2. n \in Wire /\ n.type \in OtherTypes /\ n.deposit = d
    BY AmountAssumption DEF Notice, Wire, Types, OtherTypes
  <2>3. /\ Emit(n, n) /\ checkout' = [checkout EXCEPT ![d] = "expired"] /\ checkout[d] = "open"
        /\ returned' = returned /\ dispute' = dispute
        /\ UNCHANGED <<rowVars, reattached>>
    BY <1>9, <2>1 DEF ExpireSession, EmitOne, MoveCheckout
  <2> HIDE DEF n
  <2>4. /\ checkout'[d] = "expired" /\ session' = session
        /\ \A e \in Deposits : e # d => checkout'[e] = checkout[e]
    BY <1>2, <2>3 DEF rowVars
  <2>5. (PaymentIsTold(d) /\ ToldIsTrue(d) /\ ToldInOrder(d))'
    BY <2>2, <2>3, <2>4, OtherEventTells
  <2> QED
    BY <1>0, <2>2, <2>3, <2>4, <2>5, EventKeepsBooks
<1> QED
  BY <1>4, <1>5, <1>6, <1>7, <1>8, <1>9 DEF Call

-----------------------------------------------------------------------------
(* Steps of a handler.                                                       *)

(* Whoever's row and told notices stay as they are follows as before.        *)
LEMMA RowStays ==
    ASSUME NEW e \in Deposits, RowFollows(e),
           \A types : About(e, types)' = About(e, types),
           \A k \in Sent : k.deposit = e /\ Told(k)' => Told(k),
           \A k \in Sent : Begun(k) => Begun(k)',
           Orderly(e)' => Orderly(e),
           checkout' = checkout, reattached' = reattached,
           status'[e] = status[e], credited'[e] = credited[e], refunded'[e] = refunded[e],
           disputed'[e] = disputed[e], intent'[e] = intent[e]
    PROVE  RowFollows(e)'
<1>1. \A types : \A k \in About(e, types) : k \in Sent /\ k.deposit = e
  BY DEF About
<1>2. /\ credited'[e] => checkout'[e] = "paid" /\ (e \in reattached' \/ intent'[e])
      /\ \A k \in About(e, SettleTypes)' : Told(k)' => credited'[e]
  BY <1>1 DEF RowFollows
<1>3. ASSUME Orderly(e)'
      PROVE  /\ StatusFits(e)'
             /\ refunded'[e] # 0 => \E k \in About(e, Refunded)' : Begun(k)' /\ k.total = refunded'[e]
             /\ disputed'[e] # 0 => \E k \in About(e, DisputeTypes)' : Begun(k)' /\ k.total = disputed'[e]
             /\ \A k \in About(e, RestoreTypes)' : Told(k)' => disputed'[e] = 0
             /\ \A k \in About(e, DisputeTypes)' : Told(k)' =>
                   disputed'[e] = k.total \/ \E j \in About(e, RestoreTypes)' : Begun(j)'
             /\ \A k \in About(e, Refunded)' : Told(k)' => k.total <= refunded'[e]
  <2>1. /\ StatusFits(e)
        /\ refunded[e] # 0 => \E k \in About(e, Refunded) : Begun(k) /\ k.total = refunded[e]
        /\ disputed[e] # 0 => \E k \in About(e, DisputeTypes) : Begun(k) /\ k.total = disputed[e]
        /\ \A k \in About(e, RestoreTypes) : Told(k) => disputed[e] = 0
        /\ \A k \in About(e, DisputeTypes) : Told(k) =>
              disputed[e] = k.total \/ \E j \in About(e, RestoreTypes) : Begun(j)
        /\ \A k \in About(e, Refunded) : Told(k) => k.total <= refunded[e]
    BY <1>3 DEF RowFollows
  <2>2. StatusFits(e)'
    BY <2>1 DEF StatusFits
  <2>3. \A types : \A k \in About(e, types) : (Begun(k) => Begun(k)') /\ (Told(k)' => Told(k))
    BY <1>1
  <2> QED
    BY <2>1, <2>2, <2>3
<1> QED
  BY <1>2, <1>3 DEF RowFollows

(* What a handler leaves alone: the notices, their order and what Stripe     *)
(* says; the other handlers; and it answers no notice that it does not       *)
(* handle.                                                                   *)
LEMMA HandlerFrame ==
    ASSUME BooksInv, NEW n \in Sent, Busy(n), NEW to \in StageValues,
           stage' = [stage EXCEPT ![n] = to],
           \/ hook' = hook
           \/ /\ to = "idle"
              /\ \E h \in {"PROCESSED", "FAILED"} : hook' = [hook EXCEPT ![n] = h],
           UNCHANGED <<delivery, reattached, session, stripeVars>>
    PROVE  /\ Sent' = Sent
           /\ \A e, types : About(e, types)' = About(e, types)
           /\ \A k \in Sent \ {n} : Told(k)' <=> Told(k)
           /\ Told(n)' <=> to = "applied" \/ hook'[n] = "PROCESSED"
           /\ \A k \in Sent : Begun(k)' <=> Begun(k)
           /\ \A e : Orderly(e)' => Orderly(e)
           /\ StripeTells'
           /\ ClaimedInOrder'
<1>1. /\ checkout' = checkout /\ returned' = returned /\ dispute' = dispute /\ sent' = sent
      /\ reattached' = reattached /\ session' = session /\ delivery' = delivery
  BY DEF stripeVars
<1>2. Sent' = Sent /\ \A j, k : Before(j, k)' <=> Before(j, k)
  BY <1>1 DEF Sent, Before
<1>3. \A e, types : About(e, types)' = About(e, types)
  BY <1>2 DEF About
<1>4. stage \in [Sent -> StageValues] /\ hook \in [Sent -> HookValues]
  BY DEF BooksInv, DepositsInv, HookTables
<1>5. /\ \A k \in Sent : k # n => stage'[k] = stage[k] /\ hook'[k] = hook[k]
      /\ stage'[n] = to
      /\ hook'[n] = hook[n] \/ (to = "idle" /\ hook'[n] \in {"PROCESSED", "FAILED"})
  BY <1>4
<1>6. /\ hook[n] = "RECEIVED"
      /\ \A k \in Sent : Busy(k) => hook[k] = "RECEIVED"
  BY DEF BooksInv, ClaimedInOrder
<1>7. \A k \in Sent \ {n} : Told(k)' <=> Told(k)
  BY <1>5 DEF Told
<1>8. Told(n)' <=> to = "applied" \/ hook'[n] = "PROCESSED"
  BY <1>5 DEF Told
<1>9. \A k \in Sent : Begun(k)' <=> Begun(k)
  BY <1>5, <1>6 DEF Begun
<1>10. \A k \in Sent : (Lost(k) => Lost(k)') /\ (Answered(k) => Answered(k)')
  BY <1>5, <1>6 DEF Lost, Answered, Busy
<1>11. \A e : Orderly(e)' => Orderly(e)
  BY <1>1, <1>2, <1>10 DEF Orderly, OneAtATime, AtMostOneLost
<1>12. StripeTells'
  <2> SUFFICES ASSUME NEW e \in Deposits
               PROVE  (PaymentIsTold(e) /\ ToldIsTrue(e) /\ ToldInOrder(e))'
    BY DEF StripeTells
  <2>1. PaymentIsTold(e) /\ ToldIsTrue(e) /\ ToldInOrder(e)
    BY DEF BooksInv, StripeTells
  <2>2. PaymentIsTold(e)'
    BY <1>1, <1>3, <2>1 DEF PaymentIsTold
  <2>3. ToldIsTrue(e)'
    BY <1>1, <1>3, <2>1 DEF ToldIsTrue
  <2>4. ToldInOrder(e)'
    BY <1>1, <1>2, <1>3, <2>1 DEF ToldInOrder
  <2> QED
    BY <2>2, <2>3, <2>4
<1>13. ClaimedInOrder'
  <2>1. \A k \in Sent : Busy(k)' => hook'[k] = "RECEIVED"
    BY <1>5, <1>6 DEF Busy
  <2>2. ASSUME delivery.inOrder, NEW j \in Sent, NEW k \in Sent, hook'[k] # "none", Before(j, k)
        PROVE  Answered(j)'
    <3>1. hook[k] # "none"
      BY <1>5, <1>6, <2>2
    <3> QED
      BY <1>10, <2>2, <3>1 DEF BooksInv, ClaimedInOrder
  <2> QED
    BY <1>1, <1>2, <2>1, <2>2 DEF ClaimedInOrder
<1> QED
  BY <1>2, <1>3, <1>7, <1>8, <1>9, <1>11, <1>12, <1>13

(* A step of a handler keeps the books if it keeps those of its deposit.     *)
LEMMA HandlerKeepsBooks ==
    ASSUME BooksInv, DepositsInv', NEW n \in Sent, Busy(n), NEW to \in StageValues,
           stage' = [stage EXCEPT ![n] = to],
           \/ hook' = hook
           \/ /\ to = "idle"
              /\ \E h \in {"PROCESSED", "FAILED"} : hook' = [hook EXCEPT ![n] = h],
           UNCHANGED <<delivery, reattached, session, stripeVars>>,
           \A e \in Deposits : e # n.deposit =>
              /\ status'[e] = status[e] /\ credited'[e] = credited[e] /\ refunded'[e] = refunded[e]
              /\ disputed'[e] = disputed[e] /\ intent'[e] = intent[e],
           RowFollows(n.deposit)'
    PROVE  BooksInv'
<1>1. /\ Sent' = Sent
      /\ \A e, types : About(e, types)' = About(e, types)
      /\ \A k \in Sent \ {n} : Told(k)' <=> Told(k)
      /\ \A k \in Sent : Begun(k)' <=> Begun(k)
      /\ \A e : Orderly(e)' => Orderly(e)
      /\ StripeTells'
      /\ ClaimedInOrder'
  BY HandlerFrame
<1>2. RowsFollow'
  <2> SUFFICES ASSUME NEW e \in Deposits, e # n.deposit PROVE RowFollows(e)'
    BY DEF RowsFollow
  <2>1. RowFollows(e)
    BY DEF BooksInv, RowsFollow
  <2>2. \A k \in Sent : k.deposit = e /\ Told(k)' => Told(k)
    BY <1>1
  <2>3. checkout' = checkout /\ reattached' = reattached
    BY DEF stripeVars
  <2> QED
    BY <1>1, <2>1, <2>2, <2>3, RowStays
<1> QED
  BY <1>1, <1>2 DEF BooksInv

(* A step that writes no row and tells nobody anything new.                  *)
LEMMA SilentKeepsBooks ==
    ASSUME BooksInv, DepositsInv', NEW n \in Sent, Busy(n), NEW to \in StageValues,
           stage' = [stage EXCEPT ![n] = to],
           \/ hook' = hook
           \/ /\ to = "idle"
              /\ \E h \in {"PROCESSED", "FAILED"} : hook' = [hook EXCEPT ![n] = h],
           UNCHANGED <<delivery, reattached, rowVars, stripeVars>>,
           to = "applied" \/ hook'[n] = "PROCESSED" => Told(n)
    PROVE  BooksInv'
<1>0. n.deposit \in Deposits
  BY DEF BooksInv, DepositsInv, StripeTables, Sent, Wire
<1>1. /\ UNCHANGED <<status, credited, refunded, disputed, intent, session>>
      /\ UNCHANGED <<delivery, reattached, session, stripeVars>>
      /\ checkout' = checkout /\ reattached' = reattached
  BY DEF rowVars, stripeVars
<1>2. /\ \A e, types : About(e, types)' = About(e, types)
      /\ \A k \in Sent \ {n} : Told(k)' <=> Told(k)
      /\ Told(n)' <=> to = "applied" \/ hook'[n] = "PROCESSED"
      /\ \A k \in Sent : Begun(k)' <=> Begun(k)
      /\ \A e : Orderly(e)' => Orderly(e)
  BY <1>1, HandlerFrame
<1>3. \A k \in Sent : Told(k)' => Told(k)
  BY <1>2
<1>4. RowFollows(n.deposit)
  BY <1>0 DEF BooksInv, RowsFollow
<1>5. RowFollows(n.deposit)'
  BY <1>0, <1>1, <1>2, <1>3, <1>4, RowStays
<1> QED
  BY <1>1, <1>5, HandlerKeepsBooks

-----------------------------------------------------------------------------
(* What a handler may rely on when notices come in order, one at a time, and *)
(* at most one of the deposit's was lost.                                    *)

LEMMA InOrder ==
    ASSUME BooksInv, NEW d \in Deposits, Orderly(d), NEW n \in Sent, Busy(n)
    PROVE  /\ \A m \in Sent : Before(m, n) => Answered(m)
           /\ \A k \in Sent : Before(n, k) => ~ Begun(k)
           /\ \A j, k \in Sent : j # k /\ j.deposit = d /\ k.deposit = d
                                 /\ Before(j, n) /\ Before(k, n) => Told(j) \/ Told(k)
<1>1. hook[n] = "RECEIVED" /\ delivery.inOrder
  BY DEF BooksInv, ClaimedInOrder, Orderly
<1>2. \A j, k \in Sent : hook[k] # "none" /\ Before(j, k) => Answered(j)
  BY <1>1 DEF BooksInv, ClaimedInOrder
<1>3. \A m \in Sent : Before(m, n) => Answered(m)
  BY <1>1, <1>2
<1>4. ~ Answered(n)
  BY <1>1 DEF Answered, Lost
<1>5. \A k \in Sent : Before(n, k) => ~ Begun(k)
  BY <1>2, <1>4 DEF Begun
<1>6. ASSUME NEW j \in Sent, NEW k \in Sent, j # k, j.deposit = d, k.deposit = d,
             Before(j, n), Before(k, n)
      PROVE  Told(j) \/ Told(k)
  <2>1. ~ (Lost(j) /\ Lost(k))
    BY <1>6 DEF Orderly, AtMostOneLost
  <2>2. Answered(j) /\ Answered(k)
    BY <1>3, <1>6
  <2> QED
    BY <2>1, <2>2 DEF Answered, Told
<1> QED
  BY <1>3, <1>5, <1>6

(* A handler that is to take back, or give back, finds the deposit credited, *)
(* by its payment intent.                                                    *)
LEMMA TakingFindsCredit ==
    ASSUME BooksInv, NEW d \in Deposits, Orderly(d), NEW n \in About(d, Taking), Busy(n)
    PROVE  credited[d] /\ intent[d]
<1>1. n \in Sent /\ n.deposit = d /\ n.type \in Taking
  BY DEF About
<1>2. PaymentIsTold(d) /\ ToldInOrder(d) /\ RowFollows(d)
  BY DEF BooksInv, StripeTells, RowsFollow
<1>3. returned[d] # 0 \/ dispute[d] # "none"
  BY <1>1 DEF BooksInv, DepositsInv, NoticesAreMeant, Taking, Refunded
<1>4. PICK j, k \in About(d, SettleTypes) : j # k
  BY <1>2, <1>3 DEF PaymentIsTold
<1>5. Before(j, n) /\ Before(k, n)
  BY <1>2 DEF ToldInOrder
<1>6. j \in Sent /\ k \in Sent /\ j.deposit = d /\ k.deposit = d
  BY DEF About
<1>7. Told(j) \/ Told(k)
  BY <1>1, <1>4, <1>5, <1>6, InOrder
<1>8. credited[d]
  BY <1>2, <1>7 DEF RowFollows
<1> QED
  BY <1>2, <1>8 DEF RowFollows, Orderly

(* A refund comes before any dispute, or after its end.                      *)
LEMMA RefundFindsNoDispute ==
    ASSUME BooksInv, NEW d \in Deposits, Orderly(d), NEW n \in About(d, Refunded), Busy(n)
    PROVE  disputed[d] = 0
<1> SUFFICES ASSUME disputed[d] # 0 PROVE FALSE
  OBVIOUS
<1>1. PaymentIsTold(d) /\ ToldInOrder(d) /\ RowFollows(d)
  BY DEF BooksInv, StripeTells, RowsFollow
<1>2. \A types : \A k \in About(d, types) : k \in Sent /\ k.deposit = d
  BY DEF About
<1>3. PICK m \in About(d, DisputeTypes) : Begun(m)
  BY <1>1 DEF RowFollows
<1>4. CASE Before(n, m)
  BY <1>2, <1>3, <1>4, InOrder
<1>5. CASE dispute[d] = "won" /\ \A k \in About(d, RestoreTypes) : Before(k, n)
  <2>1. PICK j, k \in About(d, RestoreTypes) : j # k
    BY <1>1, <1>5 DEF PaymentIsTold
  <2>2. Told(j) \/ Told(k)
    BY <1>2, <1>5, <2>1, InOrder
  <2> QED
    BY <1>1, <2>2 DEF RowFollows
<1> QED
  BY <1>1, <1>4, <1>5 DEF ToldInOrder

(* A dispute is of what was not refunded, and none of it was given back yet. *)
LEMMA DisputeFindsRoom ==
    ASSUME BooksInv, NEW d \in Deposits, Orderly(d), NEW n \in About(d, DisputeTypes), Busy(n)
    PROVE  /\ n.total + refunded[d] <= Amount[d]
           /\ \A k \in About(d, RestoreTypes) : ~ Begun(k)
           /\ disputed[d] = 0 \/ disputed[d] = n.total
<1>1. ToldInOrder(d) /\ ToldIsTrue(d) /\ RowFollows(d)
  BY DEF BooksInv, StripeTells, RowsFollow
<1>2. \A types : \A k \in About(d, types) : k \in Sent /\ k.deposit = d
  BY DEF About
<1>3. n.total \in Nat /\ n.total <= Amount[d] /\ Amount[d] \in Nat /\ refunded[d] \in Nat
  BY <1>2, AmountAssumption DEF BooksInv, DepositsInv, StripeTables, RowTables, Sent, Wire
<1>4. n.total + refunded[d] <= Amount[d]
  <2>1. CASE refunded[d] = 0
    BY <1>3, <2>1
  <2>2. CASE refunded[d] # 0
    <3>1. PICK m \in About(d, Refunded) : Begun(m) /\ m.total = refunded[d]
      BY <1>1, <2>2 DEF RowFollows
    <3>2. ~ Before(n, m)
      BY <1>2, <3>1, InOrder
    <3>3. m.total + n.total <= Amount[d]
      BY <1>1, <3>2 DEF ToldInOrder
    <3> QED
      BY <1>3, <3>1, <3>3
  <2> QED
    BY <2>1, <2>2
<1>5. \A k \in About(d, RestoreTypes) : ~ Begun(k)
  BY <1>1, <1>2, InOrder DEF ToldInOrder
<1>6. disputed[d] = 0 \/ disputed[d] = n.total
  BY <1>1 DEF RowFollows, ToldIsTrue
<1> QED
  BY <1>4, <1>5, <1>6

-----------------------------------------------------------------------------
(* Each step of the handler.                                                 *)

(* Claiming: the notice is begun when all before it are answered.            *)
LEMMA ClaimKeepsBooks ==
    ASSUME BooksInv, NEW n \in Sent, Claim(n)
    PROVE  BooksInv'
<1>0. DepositsInv'
  BY ClaimStep DEF BooksInv
<1>1. /\ hook[n] \in {"none", "FAILED"} /\ ~ Busy(n)
      /\ delivery.inOrder => \A m \in Sent : Before(m, n) => Answered(m)
      /\ hook'  = [hook EXCEPT ![n] = "RECEIVED"]
      /\ stage' = [stage EXCEPT ![n] = "claimed"]
      /\ UNCHANGED <<delivery, rowVars, callVars, stripeVars>>
  BY DEF Claim
<1>2. /\ checkout' = checkout /\ returned' = returned /\ dispute' = dispute /\ sent' = sent
      /\ reattached' = reattached /\ delivery' = delivery
      /\ UNCHANGED <<status, credited, refunded, disputed, intent, session>>
  BY <1>1 DEF stripeVars, callVars, rowVars
<1>3. Sent' = Sent /\ \A j, k : Before(j, k)' <=> Before(j, k)
  BY <1>2 DEF Sent, Before
<1>4. \A e, types : About(e, types)' = About(e, types)
  BY <1>3 DEF About
<1>5. stage \in [Sent -> StageValues] /\ hook \in [Sent -> HookValues]
  BY DEF BooksInv, DepositsInv, HookTables
<1>6. /\ \A k \in Sent : k # n => stage'[k] = stage[k] /\ hook'[k] = hook[k]
      /\ stage'[n] = "claimed" /\ hook'[n] = "RECEIVED"
  BY <1>1, <1>5
<1>7. /\ \A k \in Sent : Told(k)' => Told(k)
      /\ \A k \in Sent : Begun(k) => Begun(k)'
      /\ \A k \in Sent : Lost(k)' <=> Lost(k)
      /\ \A k \in Sent : Answered(k) => Answered(k)'
      /\ ~ Answered(n)
  BY <1>1, <1>6 DEF Told, Begun, Lost, Answered, Busy
<1>8. \A e : Orderly(e)' => Orderly(e)
  BY <1>2, <1>3, <1>7 DEF Orderly, OneAtATime, AtMostOneLost
<1>9. StripeTells'
  <2> SUFFICES ASSUME NEW e \in Deposits
               PROVE  (PaymentIsTold(e) /\ ToldIsTrue(e) /\ ToldInOrder(e))'
    BY DEF StripeTells
  <2>1. PaymentIsTold(e) /\ ToldIsTrue(e) /\ ToldInOrder(e)
    BY DEF BooksInv, StripeTells
  <2>2. PaymentIsTold(e)'
    BY <1>2, <1>4, <2>1 DEF PaymentIsTold
  <2>3. ToldIsTrue(e)'
    BY <1>2, <1>4, <2>1 DEF ToldIsTrue
  <2>4. ToldInOrder(e)'
    BY <1>2, <1>3, <1>4, <2>1 DEF ToldInOrder
  <2> QED
    BY <2>2, <2>3, <2>4
<1>10. ClaimedInOrder'
  <2>1. \A k \in Sent : Busy(k)' => hook'[k] = "RECEIVED"
    BY <1>6 DEF BooksInv, ClaimedInOrder, Busy
  <2>2. ASSUME delivery.inOrder, NEW j \in Sent, NEW k \in Sent, hook'[k] # "none", Before(j, k)
        PROVE  Answered(j)'
    <3>1. CASE k = n
      BY <1>1, <1>7, <2>2, <3>1
    <3>2. CASE k # n
      <4>1. hook[k] # "none"
        BY <1>6, <2>2, <3>2
      <4> QED
        BY <1>7, <2>2, <4>1 DEF BooksInv, ClaimedInOrder
    <3> QED
      BY <3>1, <3>2
  <2> QED
    BY <1>2, <1>3, <2>1, <2>2 DEF ClaimedInOrder
<1>11. RowsFollow'
  <2> SUFFICES ASSUME NEW e \in Deposits PROVE RowFollows(e)'
    BY DEF RowsFollow
  <2>1. RowFollows(e)
    BY DEF BooksInv, RowsFollow
  <2> QED
    BY <1>2, <1>4, <1>7, <1>8, <2>1, RowStays
<1> QED
  BY <1>0, <1>9, <1>10, <1>11 DEF BooksInv

(* A credit refused, a read, and the end of a handler, good or bad.          *)
LEMMA SilentSteps ==
    ASSUME BooksInv, NEW n \in Sent, SettleThrows(n) \/ Read(n) \/ Finish(n) \/ Crash(n)
    PROVE  BooksInv'
<1>0. DepositsInv'
  BY ApplyOther, ApplyRead DEF BooksInv
<1>1. {"idle", "read", "threw"} \subseteq StageValues
  BY DEF StageValues
<1>2. UNCHANGED <<delivery, reattached, rowVars, stripeVars>>
  BY DEF SettleThrows, Read, Finish, Crash, Handled, callVars
<1>3. hook[n] = "RECEIVED" \/ ~ Busy(n)
  BY DEF BooksInv, ClaimedInOrder
<1>4. CASE SettleThrows(n)
  <2>1. /\ stage[n] = "claimed" /\ stage' = [stage EXCEPT ![n] = "threw"] /\ hook' = hook
    BY <1>4 DEF SettleThrows, Handled
  <2>2. Busy(n) /\ hook'[n] # "PROCESSED"
    BY <1>3, <2>1 DEF Busy
  <2> QED
    BY <1>0, <1>1, <1>2, <2>1, <2>2, SilentKeepsBooks
<1>5. CASE Read(n)
  <2>1. /\ stage[n] = "claimed" /\ stage' = [stage EXCEPT ![n] = "read"] /\ hook' = hook
    BY <1>5 DEF Read, Handled
  <2>2. Busy(n) /\ hook'[n] # "PROCESSED"
    BY <1>3, <2>1 DEF Busy
  <2> QED
    BY <1>0, <1>1, <1>2, <2>1, <2>2, SilentKeepsBooks
<1>6. CASE Crash(n)
  <2>1. Busy(n) /\ stage' = [stage EXCEPT ![n] = "idle"] /\ hook' = hook
    BY <1>6 DEF Crash
  <2>2. hook'[n] # "PROCESSED"
    BY <1>3, <2>1
  <2> QED
    BY <1>0, <1>1, <1>2, <2>1, <2>2, SilentKeepsBooks
<1>7. CASE Finish(n)
  <2>1. /\ stage[n] \in {"applied", "threw"} /\ stage' = [stage EXCEPT ![n] = "idle"]
        /\ hook' = [hook EXCEPT ![n] = IF stage[n] = "threw" THEN "FAILED" ELSE "PROCESSED"]
    BY <1>7 DEF Finish
  <2>2. hook \in [Sent -> HookValues]
    BY DEF BooksInv, DepositsInv, HookTables
  <2>3. hook'[n] = "PROCESSED" => Told(n)
    BY <2>1, <2>2 DEF Told
  <2>4. Busy(n)
    BY <2>1 DEF Busy
  <2>5. \E h \in {"PROCESSED", "FAILED"} : hook' = [hook EXCEPT ![n] = h]
    BY <2>1
  <2> QED
    BY <1>0, <1>1, <1>2, <2>1, <2>3, <2>4, <2>5, SilentKeepsBooks
<1> QED
  BY <1>4, <1>5, <1>6, <1>7

(* The row of the deposit, given what the handler of n wrote.                *)
LEMMA WroteOwnRow ==
    ASSUME BooksInv, DepositsInv', NEW n \in Sent, NEW d \in Deposits, d = n.deposit,
           Handled(n, "claimed", "applied") \/ Handled(n, "read", "applied"),
           session' = session,
           \A e \in Deposits : e # d =>
              /\ status'[e] = status[e] /\ credited'[e] = credited[e] /\ refunded'[e] = refunded[e]
              /\ disputed'[e] = disputed[e] /\ intent'[e] = intent[e],
           credited'[d] => checkout[d] = "paid" /\ (d \in reattached \/ intent'[d]),
           n.type \in SettleTypes \/ credited[d] => credited'[d],
           Orderly(d) =>
              /\ StatusFits(d)'
              /\ refunded'[d] # 0 => \E k \in About(d, Refunded) : Begun(k) /\ k.total = refunded'[d]
              /\ disputed'[d] # 0 => \E k \in About(d, DisputeTypes) : Begun(k) /\ k.total = disputed'[d]
              /\ \A k \in About(d, RestoreTypes) : Told(k) \/ k = n => disputed'[d] = 0
              /\ \A k \in About(d, DisputeTypes) : Told(k) \/ k = n =>
                    disputed'[d] = k.total \/ \E j \in About(d, RestoreTypes) : Begun(j)
              /\ \A k \in About(d, Refunded) : Told(k) \/ k = n => k.total <= refunded'[d]
    PROVE  BooksInv'
<1>1. /\ stage' = [stage EXCEPT ![n] = "applied"] /\ Busy(n)
      /\ UNCHANGED <<hook, delivery, callVars, stripeVars>>
  BY DEF Handled, Busy
<1>2. /\ hook' = hook /\ "applied" \in StageValues
      /\ UNCHANGED <<delivery, reattached, session, stripeVars>>
      /\ checkout' = checkout /\ reattached' = reattached
  BY <1>1 DEF callVars, stripeVars, StageValues
<1>3. /\ \A e, types : About(e, types)' = About(e, types)
      /\ \A k \in Sent \ {n} : Told(k)' <=> Told(k)
      /\ \A k \in Sent : Begun(k)' <=> Begun(k)
      /\ \A e : Orderly(e)' => Orderly(e)
  BY <1>1, <1>2, HandlerFrame
<1>4. \A types : \A k \in About(d, types) : k \in Sent /\ k.type \in types
  BY DEF About
<1>5. \A types : \A k \in About(d, types) : /\ (Told(k)' => Told(k) \/ k = n)
                                             /\ (Begun(k)' <=> Begun(k))
  BY <1>3, <1>4
<1>6. /\ credited'[d] => checkout'[d] = "paid" /\ (d \in reattached' \/ intent'[d])
      /\ \A k \in About(d, SettleTypes)' : Told(k)' => credited'[d]
  <2>1. \A k \in About(d, SettleTypes) : Told(k) => credited[d]
    BY DEF BooksInv, RowsFollow, RowFollows
  <2> QED
    BY <1>2, <1>3, <1>4, <1>5, <2>1
<1>8. ASSUME Orderly(d)'
      PROVE  /\ StatusFits(d)'
             /\ refunded'[d] # 0 => \E k \in About(d, Refunded)' : Begun(k)' /\ k.total = refunded'[d]
             /\ disputed'[d] # 0 => \E k \in About(d, DisputeTypes)' : Begun(k)' /\ k.total = disputed'[d]
             /\ \A k \in About(d, RestoreTypes)' : Told(k)' => disputed'[d] = 0
             /\ \A k \in About(d, DisputeTypes)' : Told(k)' =>
                   disputed'[d] = k.total \/ \E j \in About(d, RestoreTypes)' : Begun(j)'
             /\ \A k \in About(d, Refunded)' : Told(k)' => k.total <= refunded'[d]
  <2>1. Orderly(d)
    BY <1>3, <1>8
  <2>2. StatusFits(d)'
    BY <2>1
  <2>3. /\ About(d, Refunded)' = About(d, Refunded)
        /\ About(d, DisputeTypes)' = About(d, DisputeTypes)
        /\ About(d, RestoreTypes)' = About(d, RestoreTypes)
        /\ \A k \in Sent : (Told(k)' => Told(k) \/ k = n) /\ (Begun(k)' <=> Begun(k))
    BY <1>3
  <2>4. /\ refunded'[d] # 0 => \E k \in About(d, Refunded) : Begun(k) /\ k.total = refunded'[d]
        /\ disputed'[d] # 0 => \E k \in About(d, DisputeTypes) : Begun(k) /\ k.total = disputed'[d]
        /\ \A k \in About(d, RestoreTypes) : Told(k) \/ k = n => disputed'[d] = 0
        /\ \A k \in About(d, DisputeTypes) : Told(k) \/ k = n =>
              disputed'[d] = k.total \/ \E j \in About(d, RestoreTypes) : Begun(j)
        /\ \A k \in About(d, Refunded) : Told(k) \/ k = n => k.total <= refunded'[d]
    BY <2>1
  <2>5. \A types : About(d, types) \subseteq Sent
    BY DEF About
  <2>6. /\ refunded'[d] # 0 => \E k \in About(d, Refunded)' : Begun(k)' /\ k.total = refunded'[d]
        /\ disputed'[d] # 0 => \E k \in About(d, DisputeTypes)' : Begun(k)' /\ k.total = disputed'[d]
    BY <2>3, <2>4, <2>5
  <2>7. /\ \A k \in About(d, RestoreTypes)' : Told(k)' => disputed'[d] = 0
        /\ \A k \in About(d, Refunded)' : Told(k)' => k.total <= refunded'[d]
    BY <2>3, <2>4, <2>5
  <2>8. \A k \in About(d, DisputeTypes)' : Told(k)' =>
           disputed'[d] = k.total \/ \E j \in About(d, RestoreTypes)' : Begun(j)'
    BY <2>3, <2>4, <2>5
  <2> QED
    BY <2>2, <2>6, <2>7, <2>8
<1>7. RowFollows(d)'
  BY <1>6, <1>8 DEF RowFollows
<1> QED
  BY <1>1, <1>2, <1>7, HandlerKeepsBooks

(* The credit: nothing was taken back before, and nobody was told to.        *)
LEMMA SettleKeepsBooks ==
    ASSUME BooksInv, NEW n \in Sent, Settle(n)
    PROVE  BooksInv'
<1>0. DepositsInv'
  BY ApplySettle DEF BooksInv
<1>1. PICK d \in Deposits : d = n.deposit
  BY DEF BooksInv, DepositsInv, StripeTables, Sent, Wire
<1>2. RowTables /\ \A k \in Sent : k.total \in Nat
  BY DEF BooksInv, DepositsInv, StripeTables, Sent, Wire
<1>3. /\ n.type \in SettleTypes /\ ~ credited[d]
      /\ Handled(n, "claimed", "applied")
      /\ credited' = [credited EXCEPT ![d] = TRUE]
      /\ status'   = [status EXCEPT ![d] = "SUCCEEDED"]
      /\ intent'   = [intent EXCEPT ![d] = TRUE]
      /\ UNCHANGED <<refunded, disputed, session>>
  BY <1>1 DEF Settle
<1>4. /\ credited'[d] /\ status'[d] = "SUCCEEDED" /\ intent'[d]
      /\ refunded' = refunded /\ disputed' = disputed /\ session' = session
      /\ \A e \in Deposits : e # d =>
            /\ status'[e] = status[e] /\ credited'[e] = credited[e] /\ refunded'[e] = refunded[e]
            /\ disputed'[e] = disputed[e] /\ intent'[e] = intent[e]
  BY <1>2, <1>3 DEF RowTables
<1>5. checkout[d] = "paid"
  <2>1. n \in About(d, SettleTypes)
    BY <1>1, <1>3 DEF About
  <2> QED
    BY <2>1 DEF BooksInv, StripeTells, ToldIsTrue
<1>6. ASSUME Orderly(d)
      PROVE  /\ StatusFits(d)'
             /\ refunded'[d] # 0 => \E k \in About(d, Refunded) : Begun(k) /\ k.total = refunded'[d]
             /\ disputed'[d] # 0 => \E k \in About(d, DisputeTypes) : Begun(k) /\ k.total = disputed'[d]
             /\ \A k \in About(d, RestoreTypes) : Told(k) \/ k = n => disputed'[d] = 0
             /\ \A k \in About(d, DisputeTypes) : Told(k) \/ k = n =>
                   disputed'[d] = k.total \/ \E j \in About(d, RestoreTypes) : Begun(j)
             /\ \A k \in About(d, Refunded) : Told(k) \/ k = n => k.total <= refunded'[d]
  <2>1. refunded[d] = 0 /\ disputed[d] = 0
    BY <1>3, <1>6 DEF Orderly, BooksInv, DepositsInv, LedgerAgrees
  <2>2. /\ \A k \in About(d, RestoreTypes) : Told(k) => disputed[d] = 0
        /\ \A k \in About(d, DisputeTypes) : Told(k) =>
              disputed[d] = k.total \/ \E j \in About(d, RestoreTypes) : Begun(j)
        /\ \A k \in About(d, Refunded) : Told(k) => k.total <= refunded[d]
    BY <1>6 DEF BooksInv, RowsFollow, RowFollows
  <2>3. \A types \in {Refunded, DisputeTypes, RestoreTypes} : n \notin About(d, types)
    BY <1>3 DEF About, SettleTypes, Refunded, DisputeTypes, RestoreTypes
  <2>4. StatusFits(d)'
    BY <1>4, <2>1 DEF StatusFits, Settled
  <2>5. \A k \in About(d, RestoreTypes) : Told(k) \/ k = n => disputed'[d] = 0
    BY <1>4, <2>1
  <2>6. \A k \in About(d, DisputeTypes) : Told(k) \/ k = n =>
           disputed'[d] = k.total \/ \E j \in About(d, RestoreTypes) : Begun(j)
    BY <1>4, <2>2, <2>3
  <2>7. \A k \in About(d, Refunded) : Told(k) \/ k = n => k.total <= refunded'[d]
    BY <1>4, <2>2, <2>3
  <2> QED
    BY <1>4, <2>1, <2>4, <2>5, <2>6, <2>7
<1> QED
  BY <1>0, <1>1, <1>3, <1>4, <1>5, <1>6, WroteOwnRow

(* A status told of a payment that has not come: the row is not credited.    *)
LEMMA MarkKeepsBooks ==
    ASSUME BooksInv, NEW n \in Sent, Mark(n)
    PROVE  BooksInv'
<1>0. DepositsInv'
  BY ApplyOther DEF BooksInv
<1>1. PICK d \in Deposits : d = n.deposit
  BY DEF BooksInv, DepositsInv, StripeTables, Sent, Wire
<1>2. RowTables
  BY DEF BooksInv, DepositsInv
<1>3. /\ n.type \in {"completed_unpaid", "payment_failed", "expired"} /\ ~ credited[d]
      /\ Handled(n, "claimed", "applied")
      /\ status' = [status EXCEPT ![d] = NewStatus(n)]
      /\ intent' = [intent EXCEPT ![d] = @ \/ n.type = "completed_unpaid"]
      /\ UNCHANGED <<credited, refunded, disputed, session>>
  BY <1>1 DEF Mark
<1>4. /\ status'[d] \notin Settled
      /\ refunded' = refunded /\ disputed' = disputed /\ session' = session /\ credited' = credited
      /\ \A e \in Deposits : e # d => status'[e] = status[e] /\ intent'[e] = intent[e]
  <2>1. NewStatus(n) \notin Settled
    BY <1>3 DEF NewStatus, Settled
  <2> QED
    BY <1>2, <1>3, <2>1 DEF RowTables
<1>5. ASSUME Orderly(d)
      PROVE  /\ StatusFits(d)'
             /\ refunded'[d] # 0 => \E k \in About(d, Refunded) : Begun(k) /\ k.total = refunded'[d]
             /\ disputed'[d] # 0 => \E k \in About(d, DisputeTypes) : Begun(k) /\ k.total = disputed'[d]
             /\ \A k \in About(d, RestoreTypes) : Told(k) \/ k = n => disputed'[d] = 0
             /\ \A k \in About(d, DisputeTypes) : Told(k) \/ k = n =>
                   disputed'[d] = k.total \/ \E j \in About(d, RestoreTypes) : Begun(j)
             /\ \A k \in About(d, Refunded) : Told(k) \/ k = n => k.total <= refunded'[d]
  <2>1. refunded[d] = 0 /\ disputed[d] = 0
    BY <1>3, <1>5 DEF Orderly, BooksInv, DepositsInv, LedgerAgrees
  <2>2. /\ \A k \in About(d, DisputeTypes) : Told(k) =>
              disputed[d] = k.total \/ \E j \in About(d, RestoreTypes) : Begun(j)
        /\ \A k \in About(d, Refunded) : Told(k) => k.total <= refunded[d]
    BY <1>5 DEF BooksInv, RowsFollow, RowFollows
  <2>3. \A types \in {Refunded, DisputeTypes, RestoreTypes} : n \notin About(d, types)
    BY <1>3 DEF About, Refunded, DisputeTypes, RestoreTypes
  <2>4. StatusFits(d)'
    BY <1>3, <1>4, <2>1 DEF StatusFits, Settled
  <2>5. \A k \in About(d, RestoreTypes) : Told(k) \/ k = n => disputed'[d] = 0
    BY <1>4, <2>1
  <2>6. \A k \in About(d, DisputeTypes) : Told(k) \/ k = n =>
           disputed'[d] = k.total \/ \E j \in About(d, RestoreTypes) : Begun(j)
    BY <1>4, <2>2, <2>3
  <2>7. \A k \in About(d, Refunded) : Told(k) \/ k = n => k.total <= refunded'[d]
    BY <1>4, <2>2, <2>3
  <2> QED
    BY <1>4, <2>1, <2>4, <2>5, <2>6, <2>7
<1>6. n.type \notin SettleTypes
  BY <1>3 DEF SettleTypes
<1> QED
  BY <1>0, <1>1, <1>3, <1>4, <1>5, <1>6, WroteOwnRow

(* What reverse finds under OneAtATime is the row.                           *)
LEMMA ReadsItsRow ==
    ASSUME BooksInv, NEW d \in Deposits, Orderly(d), NEW n \in Sent, n.deposit = d,
           stage[n] = "read"
    PROVE  /\ read[n].refunded = refunded[d] /\ read[n].disputed = disputed[d]
           /\ n.type \notin RestoreTypes => credited[d]
  BY DEF Orderly, BooksInv, DepositsInv, ReadIsCurrent

(* A refund: the row takes the total told.                                   *)
LEMMA RefundKeepsBooks ==
    ASSUME BooksInv, NEW n \in Sent, Reverse(n), n.type = "refunded"
    PROVE  BooksInv'
<1>0. DepositsInv'
  BY ApplyReverse DEF BooksInv
<1>1. PICK d \in Deposits : d = n.deposit
  BY DEF BooksInv, DepositsInv, StripeTables, Sent, Wire
<1>2. RowTables /\ (\A k \in Sent : k.total \in Nat) /\ n.total <= Amount[d] /\ Amount[d] \in Nat
  BY <1>1, AmountAssumption DEF BooksInv, DepositsInv, StripeTables, Sent, Wire
<1>3. /\ Delta(n) >= 0 /\ Handled(n, "read", "applied") /\ stage[n] = "read" /\ Busy(n)
      /\ refunded' = [refunded EXCEPT ![d] = Capped(n)]
      /\ disputed' = [disputed EXCEPT ![d] = read[n].disputed]
      /\ status'   = [status EXCEPT ![d] = ReversedStatus(n, Capped(n), read[n].disputed)]
      /\ UNCHANGED <<credited, session, intent>>
  BY <1>1 DEF Reverse, Handled, Busy
<1>4. /\ refunded'[d] = Capped(n) /\ disputed'[d] = read[n].disputed
      /\ status'[d] = ReversedStatus(n, Capped(n), read[n].disputed)
      /\ credited' = credited /\ session' = session /\ intent' = intent
      /\ \A e \in Deposits : e # d =>
            /\ status'[e] = status[e] /\ refunded'[e] = refunded[e] /\ disputed'[e] = disputed[e]
  BY <1>2, <1>3 DEF RowTables
<1>5. n \in About(d, Refunded) /\ RowFollows(d)
  BY <1>1 DEF About, Refunded, BooksInv, RowsFollow
<1>6. ASSUME Orderly(d)
      PROVE  /\ StatusFits(d)'
             /\ refunded'[d] # 0 => \E k \in About(d, Refunded) : Begun(k) /\ k.total = refunded'[d]
             /\ disputed'[d] # 0 => \E k \in About(d, DisputeTypes) : Begun(k) /\ k.total = disputed'[d]
             /\ \A k \in About(d, RestoreTypes) : Told(k) \/ k = n => disputed'[d] = 0
             /\ \A k \in About(d, DisputeTypes) : Told(k) \/ k = n =>
                   disputed'[d] = k.total \/ \E j \in About(d, RestoreTypes) : Begun(j)
             /\ \A k \in About(d, Refunded) : Told(k) \/ k = n => k.total <= refunded'[d]
  <2>1. read[n].refunded = refunded[d] /\ read[n].disputed = disputed[d] /\ credited[d]
    BY <1>1, <1>3, <1>6, ReadsItsRow DEF RestoreTypes
  <2>2. disputed[d] = 0
    BY <1>3, <1>5, <1>6, RefundFindsNoDispute
  <2>3. Capped(n) = n.total
    BY <1>1, <1>2, <2>1, <2>2 DEF Capped, Least
  <2>4. refunded[d] <= n.total /\ refunded[d] \in Nat /\ n.total \in Nat
    BY <1>1, <1>2, <1>3, <2>1, <2>3 DEF Delta, Previous, RowTables
  <2>5. refunded'[d] = n.total /\ disputed'[d] = 0
    BY <1>4, <2>1, <2>2, <2>3
  <2>6. StatusFits(d)'
    <3>1. CASE n.total = Amount[d]
      <4>1. status'[d] = "REFUNDED"
        BY <1>1, <1>2, <1>4, <2>1, <2>2, <2>3, <3>1 DEF ReversedStatus
      <4> QED
        BY <1>4, <2>1, <2>5, <3>1, <4>1 DEF StatusFits, Settled
    <3>2. CASE n.total # Amount[d]
      <4>1. ~ (n.total + 0 >= Amount[d])
        BY <1>2, <2>4, <3>2
      <4>2. status'[d] = "PARTIALLY_REFUNDED"
        BY <1>1, <1>4, <2>1, <2>2, <2>3, <4>1 DEF ReversedStatus
      <4> QED
        BY <1>4, <2>1, <2>5, <4>2 DEF StatusFits, Settled
    <3> QED
      BY <3>1, <3>2
  <2>7. Begun(n)
    BY <1>3 DEF BooksInv, ClaimedInOrder, Begun
  <2>8. /\ \A k \in About(d, DisputeTypes) : Told(k) =>
              disputed[d] = k.total \/ \E j \in About(d, RestoreTypes) : Begun(j)
        /\ \A k \in About(d, Refunded) : Told(k) => k.total <= refunded[d]
        /\ \A k \in About(d, Refunded) : k.total \in Nat
    BY <1>2, <1>5, <1>6 DEF RowFollows, About
  <2>9. \A k \in About(d, DisputeTypes) : k # n
    BY DEF About, DisputeTypes
  <2>10. \A k \in About(d, Refunded) : Told(k) \/ k = n => k.total <= refunded'[d]
    BY <2>4, <2>5, <2>8
  <2>11. \A k \in About(d, DisputeTypes) : Told(k) \/ k = n =>
            disputed'[d] = k.total \/ \E j \in About(d, RestoreTypes) : Begun(j)
    BY <2>2, <2>5, <2>8, <2>9
  <2>12. \E k \in About(d, Refunded) : Begun(k) /\ k.total = refunded'[d]
    BY <1>5, <2>5, <2>7
  <2> QED
    BY <2>5, <2>6, <2>10, <2>11, <2>12
<1>7. credited'[d] => checkout[d] = "paid" /\ (d \in reattached \/ intent'[d])
  BY <1>4, <1>5 DEF RowFollows
<1>8. n.type \in SettleTypes \/ credited[d] => credited'[d]
  BY <1>4 DEF SettleTypes
<1> QED
  BY <1>0, <1>1, <1>3, <1>4, <1>6, <1>7, <1>8, WroteOwnRow

(* A dispute: the row withholds the total told.                              *)
LEMMA DisputeKeepsBooks ==
    ASSUME BooksInv, NEW n \in Sent, Reverse(n), n.type \in DisputeTypes
    PROVE  BooksInv'
<1>0. DepositsInv'
  BY ApplyReverse DEF BooksInv
<1>1. PICK d \in Deposits : d = n.deposit
  BY DEF BooksInv, DepositsInv, StripeTables, Sent, Wire
<1>2. RowTables /\ n.total \in Nat /\ Amount[d] \in Nat
  BY <1>1, AmountAssumption DEF BooksInv, DepositsInv, StripeTables, Sent, Wire
<1>3. n.type # "refunded" /\ n.type \notin SettleTypes /\ n.type \notin RestoreTypes
  BY DEF DisputeTypes, SettleTypes, RestoreTypes
<1>4. /\ Handled(n, "read", "applied") /\ stage[n] = "read" /\ Busy(n)
      /\ refunded' = [refunded EXCEPT ![d] = read[n].refunded]
      /\ disputed' = [disputed EXCEPT ![d] = Capped(n)]
      /\ status'   = [status EXCEPT ![d] = "DISPUTED"]
      /\ UNCHANGED <<credited, session, intent>>
  BY <1>1, <1>3 DEF Reverse, Handled, Busy, ReversedStatus
<1>5. /\ refunded'[d] = read[n].refunded /\ disputed'[d] = Capped(n) /\ status'[d] = "DISPUTED"
      /\ credited' = credited /\ session' = session /\ intent' = intent
      /\ \A e \in Deposits : e # d =>
            /\ status'[e] = status[e] /\ refunded'[e] = refunded[e] /\ disputed'[e] = disputed[e]
  BY <1>2, <1>4 DEF RowTables
<1>6. n \in About(d, DisputeTypes) /\ RowFollows(d) /\ ToldIsTrue(d)
  BY <1>1 DEF About, BooksInv, RowsFollow, StripeTells
<1>7. ASSUME Orderly(d)
      PROVE  /\ StatusFits(d)'
             /\ refunded'[d] # 0 => \E k \in About(d, Refunded) : Begun(k) /\ k.total = refunded'[d]
             /\ disputed'[d] # 0 => \E k \in About(d, DisputeTypes) : Begun(k) /\ k.total = disputed'[d]
             /\ \A k \in About(d, RestoreTypes) : Told(k) \/ k = n => disputed'[d] = 0
             /\ \A k \in About(d, DisputeTypes) : Told(k) \/ k = n =>
                   disputed'[d] = k.total \/ \E j \in About(d, RestoreTypes) : Begun(j)
             /\ \A k \in About(d, Refunded) : Told(k) \/ k = n => k.total <= refunded'[d]
  <2>1. read[n].refunded = refunded[d] /\ credited[d] /\ refunded[d] \in Nat
    BY <1>1, <1>2, <1>3, <1>4, <1>7, ReadsItsRow DEF RowTables
  <2>2. /\ n.total + refunded[d] <= Amount[d]
        /\ \A k \in About(d, RestoreTypes) : ~ Begun(k)
    BY <1>4, <1>6, <1>7, DisputeFindsRoom
  <2>3. Capped(n) = n.total
    BY <1>1, <1>2, <1>3, <2>1, <2>2 DEF Capped, Least
  <2>4. refunded'[d] = refunded[d] /\ disputed'[d] = n.total /\ n.total # 0
    BY <1>5, <1>6, <2>1, <2>3 DEF ToldIsTrue
  <2>5. StatusFits(d)'
    BY <1>5, <2>1, <2>4 DEF StatusFits, Settled
  <2>6. Begun(n)
    BY <1>4 DEF BooksInv, ClaimedInOrder, Begun
  <2>7. /\ refunded[d] # 0 => \E k \in About(d, Refunded) : Begun(k) /\ k.total = refunded[d]
        /\ \A k \in About(d, Refunded) : Told(k) => k.total <= refunded[d]
    BY <1>6, <1>7 DEF RowFollows
  <2>8. \A k \in About(d, RestoreTypes) : ~ Told(k) /\ k # n
    <3>1. \A k \in Sent : Told(k) => Begun(k)
      BY DEF BooksInv, ClaimedInOrder, Told, Begun, Busy
    <3> QED
      BY <1>3, <2>2, <3>1 DEF About
  <2>9. \A k \in About(d, Refunded) : k # n
    BY <1>3 DEF About, Refunded
  <2>10. \A k \in About(d, DisputeTypes) : k.total = n.total
    BY <1>6 DEF ToldIsTrue
  <2>11. \E k \in About(d, DisputeTypes) : Begun(k) /\ k.total = disputed'[d]
    BY <1>6, <2>4, <2>6
  <2>12. \A k \in About(d, Refunded) : Told(k) \/ k = n => k.total <= refunded'[d]
    BY <2>4, <2>7, <2>9
  <2>13. refunded'[d] # 0 => \E k \in About(d, Refunded) : Begun(k) /\ k.total = refunded'[d]
    BY <2>4, <2>7
  <2>14. \A k \in About(d, DisputeTypes) : disputed'[d] = k.total
    BY <2>4, <2>10
  <2> QED
    BY <2>5, <2>8, <2>11, <2>12, <2>13, <2>14
<1>8. credited'[d] => checkout[d] = "paid" /\ (d \in reattached \/ intent'[d])
  BY <1>5, <1>6 DEF RowFollows
<1>9. n.type \in SettleTypes \/ credited[d] => credited'[d]
  BY <1>3, <1>5
<1> QED
  BY <1>0, <1>1, <1>4, <1>5, <1>7, <1>8, <1>9, WroteOwnRow

(* A won dispute: what was withheld is given back.                           *)
LEMMA RestoreKeepsBooks ==
    ASSUME BooksInv, NEW n \in Sent, Restore(n)
    PROVE  BooksInv'
<1>0. DepositsInv'
  BY ApplyRestore DEF BooksInv
<1>1. PICK d \in Deposits : d = n.deposit
  BY DEF BooksInv, DepositsInv, StripeTables, Sent, Wire
<1>2. RowTables /\ Amount[d] \in Nat
  BY <1>1, AmountAssumption DEF BooksInv, DepositsInv
<1>3. n.type \in RestoreTypes /\ n.type \notin SettleTypes /\ n.type # "refunded"
      /\ n.type \notin DisputeTypes
  BY DEF Restore, Restores, RestoreTypes, SettleTypes, DisputeTypes
<1>4. /\ Handled(n, "read", "applied") /\ stage[n] = "read" /\ Busy(n)
      /\ disputed' = [disputed EXCEPT ![d] = 0]
      /\ status'   = [status EXCEPT ![d] = RestoredStatus(n)]
      /\ UNCHANGED <<credited, refunded, session, intent>>
  BY <1>1 DEF Restore, Handled, Busy
<1>5. /\ disputed'[d] = 0 /\ status'[d] = RestoredStatus(n)
      /\ credited' = credited /\ refunded' = refunded /\ session' = session /\ intent' = intent
      /\ \A e \in Deposits : e # d => status'[e] = status[e] /\ disputed'[e] = disputed[e]
  BY <1>2, <1>4 DEF RowTables
<1>6. n \in About(d, RestoreTypes) /\ n \in About(d, Taking) /\ RowFollows(d)
  BY <1>1, <1>3 DEF About, Taking, Withdraws, BooksInv, RowsFollow
<1>7. ASSUME Orderly(d)
      PROVE  /\ StatusFits(d)'
             /\ refunded'[d] # 0 => \E k \in About(d, Refunded) : Begun(k) /\ k.total = refunded'[d]
             /\ disputed'[d] # 0 => \E k \in About(d, DisputeTypes) : Begun(k) /\ k.total = disputed'[d]
             /\ \A k \in About(d, RestoreTypes) : Told(k) \/ k = n => disputed'[d] = 0
             /\ \A k \in About(d, DisputeTypes) : Told(k) \/ k = n =>
                   disputed'[d] = k.total \/ \E j \in About(d, RestoreTypes) : Begun(j)
             /\ \A k \in About(d, Refunded) : Told(k) \/ k = n => k.total <= refunded'[d]
  <2>1. read[n].refunded = refunded[d] /\ refunded[d] \in Nat
    BY <1>1, <1>2, <1>4, <1>7, ReadsItsRow DEF RowTables
  <2>2. credited[d]
    BY <1>4, <1>6, <1>7, TakingFindsCredit
  <2>3. refunded[d] <= Amount[d]
    <3>1. refunded[d] + disputed[d] <= Amount[d] /\ disputed[d] \in Nat
      BY <1>2, <1>7 DEF Orderly, BooksInv, DepositsInv, LedgerAgrees, RowTables
    <3> QED
      BY <1>2, <2>1, <3>1
  <2>4. StatusFits(d)'
    <3>1. CASE refunded[d] = 0
      <4>1. status'[d] = "SUCCEEDED"
        BY <1>5, <2>1, <3>1 DEF RestoredStatus
      <4> QED
        BY <1>5, <2>2, <3>1, <4>1 DEF StatusFits, Settled
    <3>2. CASE refunded[d] # 0 /\ refunded[d] = Amount[d]
      <4>1. status'[d] = "REFUNDED"
        BY <1>1, <1>2, <1>5, <2>1, <3>2 DEF RestoredStatus
      <4> QED
        BY <1>5, <2>2, <3>2, <4>1 DEF StatusFits, Settled
    <3>3. CASE refunded[d] # 0 /\ refunded[d] # Amount[d]
      <4>1. ~ (refunded[d] >= Amount[d])
        BY <1>2, <2>1, <2>3, <3>3
      <4>2. status'[d] = "PARTIALLY_REFUNDED"
        BY <1>1, <1>5, <2>1, <3>3, <4>1 DEF RestoredStatus
      <4> QED
        BY <1>5, <2>2, <4>2 DEF StatusFits, Settled
    <3> QED
      BY <3>1, <3>2, <3>3
  <2>5. Begun(n)
    BY <1>4 DEF BooksInv, ClaimedInOrder, Begun
  <2>6. /\ refunded[d] # 0 => \E k \in About(d, Refunded) : Begun(k) /\ k.total = refunded[d]
        /\ \A k \in About(d, Refunded) : Told(k) => k.total <= refunded[d]
    BY <1>6, <1>7 DEF RowFollows
  <2>7. \A k \in About(d, Refunded) : k # n
    BY <1>3 DEF About, Refunded
  <2>8. \A k \in About(d, Refunded) : Told(k) \/ k = n => k.total <= refunded'[d]
    BY <1>5, <2>6, <2>7
  <2>9. refunded'[d] # 0 => \E k \in About(d, Refunded) : Begun(k) /\ k.total = refunded'[d]
    BY <1>5, <2>6
  <2>10. \E j \in About(d, RestoreTypes) : Begun(j)
    BY <1>6, <2>5
  <2> QED
    BY <1>5, <2>4, <2>8, <2>9, <2>10
<1>8. credited'[d] => checkout[d] = "paid" /\ (d \in reattached \/ intent'[d])
  BY <1>5, <1>6 DEF RowFollows
<1>9. n.type \in SettleTypes \/ credited[d] => credited'[d]
  BY <1>3, <1>5
<1> QED
  BY <1>0, <1>1, <1>4, <1>5, <1>7, <1>8, <1>9, WroteOwnRow

(* A notice that asks for nothing any more: a payment already credited, or a *)
(* refund smaller than one already taken.  A dispute is never ignored.       *)
LEMMA IgnoreKeepsBooks ==
    ASSUME BooksInv, NEW n \in Sent, Ignore(n)
    PROVE  BooksInv'
<1>0. DepositsInv'
  BY ApplyOther DEF BooksInv
<1>1. PICK d \in Deposits : d = n.deposit
  BY DEF BooksInv, DepositsInv, StripeTables, Sent, Wire
<1>2. RowTables /\ n.total \in Nat /\ n.total <= Amount[d] /\ Amount[d] \in Nat
  BY <1>1, AmountAssumption DEF BooksInv, DepositsInv, StripeTables, Sent, Wire
<1>3. /\ Handled(n, "claimed", "applied") \/ Handled(n, "read", "applied")
      /\ Busy(n)
      /\ UNCHANGED <<status, credited, refunded, disputed, intent, session>>
  BY DEF Ignore, Handled, Busy, rowVars
<1>4. RowFollows(d)
  BY DEF BooksInv, RowsFollow
<1>5. n.type \in SettleTypes => credited[d]
  <2>1. CASE stage[n] = "claimed"
    BY <1>1, <2>1 DEF Ignore, Found, SettleTypes, DisputeTypes, RestoreTypes
  <2>2. CASE stage[n] = "read"
    BY <2>2 DEF Ignore, SettleTypes, DisputeTypes
  <2> QED
    BY <2>1, <2>2 DEF Ignore
<1>6. ASSUME Orderly(d), n \in About(d, Taking)
      PROVE  n.type = "refunded" /\ n.total <= refunded[d]
  <2>1. credited[d] /\ intent[d]
    BY <1>3, <1>6, TakingFindsCredit
  <2>2. n.type \in Taking
    BY <1>6 DEF About
  <2>3. /\ n.type \notin SettleTypes \cup {"completed_unpaid", "payment_failed", "expired"}
        /\ n.type # "closed_lost"
    BY <2>2 DEF Taking, Withdraws, Refunded, SettleTypes, DisputeTypes, RestoreTypes
  <2>4. stage[n] = "read" /\ n.type \in DisputeTypes \cup {"refunded"} /\ Delta(n) < 0
    BY <1>1, <2>1, <2>3 DEF Ignore, Found
  <2>5. read[n].refunded = refunded[d] /\ read[n].disputed = disputed[d]
    BY <1>1, <1>6, <2>4, ReadsItsRow
  <2>6. refunded[d] \in Nat /\ disputed[d] \in Nat
    BY <1>2 DEF RowTables
  <2>7. CASE n.type = "refunded"
    <3>1. n \in About(d, Refunded)
      BY <1>1, <2>7 DEF About, Refunded
    <3>2. disputed[d] = 0
      BY <1>3, <1>6, <3>1, RefundFindsNoDispute
    <3>3. Capped(n) = n.total
      BY <1>1, <1>2, <2>5, <2>7, <3>2 DEF Capped, Least
    <3>4. n.total - refunded[d] < 0
      BY <2>4, <2>5, <2>7, <3>3 DEF Delta, Previous
    <3> QED
      BY <1>2, <2>6, <2>7, <3>4
  <2>8. CASE n.type \in DisputeTypes
    <3>1. n \in About(d, DisputeTypes) /\ n.type # "refunded"
      BY <1>1, <2>8 DEF About, DisputeTypes
    <3>2. /\ n.total + refunded[d] <= Amount[d]
          /\ disputed[d] = 0 \/ disputed[d] = n.total
      BY <1>3, <1>6, <3>1, DisputeFindsRoom
    <3>3. Capped(n) = n.total
      BY <1>1, <1>2, <2>5, <2>6, <3>1, <3>2 DEF Capped, Least
    <3>4. n.total - disputed[d] < 0
      BY <2>4, <2>5, <3>1, <3>3 DEF Delta, Previous
    <3> QED
      BY <1>2, <2>6, <3>2, <3>4
  <2> QED
    BY <2>4, <2>7, <2>8
<1>7. ASSUME Orderly(d)
      PROVE  /\ StatusFits(d)'
             /\ refunded'[d] # 0 => \E k \in About(d, Refunded) : Begun(k) /\ k.total = refunded'[d]
             /\ disputed'[d] # 0 => \E k \in About(d, DisputeTypes) : Begun(k) /\ k.total = disputed'[d]
             /\ \A k \in About(d, RestoreTypes) : Told(k) \/ k = n => disputed'[d] = 0
             /\ \A k \in About(d, DisputeTypes) : Told(k) \/ k = n =>
                   disputed'[d] = k.total \/ \E j \in About(d, RestoreTypes) : Begun(j)
             /\ \A k \in About(d, Refunded) : Told(k) \/ k = n => k.total <= refunded'[d]
  <2>1. /\ StatusFits(d)
        /\ refunded[d] # 0 => \E k \in About(d, Refunded) : Begun(k) /\ k.total = refunded[d]
        /\ disputed[d] # 0 => \E k \in About(d, DisputeTypes) : Begun(k) /\ k.total = disputed[d]
        /\ \A k \in About(d, RestoreTypes) : Told(k) => disputed[d] = 0
        /\ \A k \in About(d, DisputeTypes) : Told(k) =>
              disputed[d] = k.total \/ \E j \in About(d, RestoreTypes) : Begun(j)
        /\ \A k \in About(d, Refunded) : Told(k) => k.total <= refunded[d]
    BY <1>4, <1>7 DEF RowFollows
  <2>2. /\ n \notin About(d, RestoreTypes) /\ n \notin About(d, DisputeTypes)
        /\ n \in About(d, Refunded) => n.total <= refunded[d]
    <3>1. CASE n \in About(d, Taking)
      BY <1>6, <1>7, <3>1 DEF About, RestoreTypes, DisputeTypes
    <3>2. CASE n \notin About(d, Taking)
      BY <3>2 DEF About, Taking, Withdraws
    <3> QED
      BY <3>1, <3>2
  <2>3. StatusFits(d)'
    BY <1>3, <2>1 DEF StatusFits
  <2>4. refunded' = refunded /\ disputed' = disputed
    BY <1>3
  <2>5. /\ \A k \in About(d, RestoreTypes) : Told(k) \/ k = n => disputed'[d] = 0
        /\ \A k \in About(d, DisputeTypes) : Told(k) \/ k = n =>
              disputed'[d] = k.total \/ \E j \in About(d, RestoreTypes) : Begun(j)
        /\ \A k \in About(d, Refunded) : Told(k) \/ k = n => k.total <= refunded'[d]
    BY <2>1, <2>2, <2>4
  <2> QED
    BY <2>1, <2>3, <2>4, <2>5
<1>8. credited'[d] => checkout[d] = "paid" /\ (d \in reattached \/ intent'[d])
  BY <1>3, <1>4 DEF RowFollows
<1>9. n.type \in SettleTypes \/ credited[d] => credited'[d]
  BY <1>3, <1>5
<1> QED
  BY <1>0, <1>1, <1>3, <1>7, <1>8, <1>9, WroteOwnRow

-----------------------------------------------------------------------------
LEMMA BooksInitially == Init => BooksInv
<1> SUFFICES ASSUME Init PROVE BooksInv
  OBVIOUS
<1>1. DepositsInv
  BY DepositsInitially
<1>2. Sent = {}
  BY DEF Init, Sent
<1>3. \A e, types : About(e, types) = {}
  BY <1>2 DEF About
<1>4. /\ \A d \in Deposits : /\ checkout[d] = "none" /\ returned[d] = 0 /\ dispute[d] = "none"
                             /\ status[d] = "NONE" /\ ~ credited[d]
                             /\ refunded[d] = 0 /\ disputed[d] = 0 /\ Amount[d] \in Nat /\ Amount[d] # 0
  BY AmountAssumption DEF Init
<1>5. StripeTells
  BY <1>3, <1>4 DEF StripeTells, PaymentIsTold, ToldIsTrue, ToldInOrder
<1>6. ClaimedInOrder
  BY <1>2 DEF ClaimedInOrder
<1>7. RowsFollow
  BY <1>3, <1>4 DEF RowsFollow, RowFollows, StatusFits, Settled
<1> QED
  BY <1>1, <1>5, <1>6, <1>7 DEF BooksInv

LEMMA BooksStep == BooksInv /\ [Next]_vars => BooksInv'
<1> SUFFICES ASSUME BooksInv, [Next]_vars PROVE BooksInv'
  OBVIOUS
<1>1. CASE \E c \in Callers : Call(c)
  BY <1>1, CallsKeepBooks
<1>2. CASE \E d \in Deposits : Stripe(d)
  BY <1>2, StripeKeepsBooks
<1>3. CASE \E n \in Sent : Claim(n) \/ Handle(n) \/ Crash(n)
  <2> PICK n \in Sent : Claim(n) \/ Handle(n) \/ Crash(n)
    BY <1>3
  <2>1. CASE Claim(n)
    BY <2>1, ClaimKeepsBooks
  <2>2. CASE SettleThrows(n) \/ Read(n) \/ Finish(n) \/ Crash(n)
    BY <2>2, SilentSteps
  <2>3. CASE Settle(n)
    BY <2>3, SettleKeepsBooks
  <2>4. CASE Mark(n)
    BY <2>4, MarkKeepsBooks
  <2>5. CASE Reverse(n)
    <3>1. n.type \in DisputeTypes \/ n.type = "refunded"
      BY <2>5 DEF Reverse
    <3> QED
      BY <2>5, <3>1, RefundKeepsBooks, DisputeKeepsBooks
  <2>6. CASE Restore(n)
    BY <2>6, RestoreKeepsBooks
  <2>7. CASE Ignore(n)
    BY <2>7, IgnoreKeepsBooks
  <2> QED
    BY <2>1, <2>2, <2>3, <2>4, <2>5, <2>6, <2>7 DEF Handle, SettleFromEvent
<1>4. CASE UNCHANGED vars
  <2>1. /\ UNCHANGED <<status, credited, refunded, disputed, session, intent>>
        /\ UNCHANGED <<returned, dispute, sent, hook, stage, delivery, checkout, reattached>>
    BY <1>4 DEF vars, rowVars, callVars, stripeVars, hookVars
  <2>2. \A e \in Deposits : CallKeeps(e)
    BY <2>1 DEF CallKeeps
  <2>3. DepositsInv'
    BY <1>4, DepositsStep DEF BooksInv
  <2>4. reattached \subseteq reattached'
    BY <2>1
  <2> QED
    BY <2>1, <2>2, <2>3, <2>4, CallKeepsBooks DEF CallKeeps
<1> QED  BY <1>1, <1>2, <1>3, <1>4 DEF Next

(* The notices of a deposit tell what happened to its payment, in the order  *)
(* it happened, and its row follows them.                                    *)
THEOREM BooksInvariance == Spec => []BooksInv
<1>1. Init => BooksInv
  BY BooksInitially
<1>2. BooksInv /\ [Next]_vars => BooksInv'
  BY BooksStep
<1> QED  BY <1>1, <1>2, PTL DEF Spec

(* Where every notice is acknowledged, the row holds what Stripe says of the *)
(* payment.                                                                  *)
LEMMA AcknowledgedMatches ==
    ASSUME BooksInv, OneAtATime, delivery.inOrder, NEW d \in Deposits \ reattached,
           Acknowledged(d)
    PROVE  net[d] = Worth(d)
<1>1. /\ \A types : \A k \in About(d, types) : Told(k) /\ k \in Sent
      /\ Orderly(d)
  BY DEF About, Acknowledged, Told, Orderly, AtMostOneLost, Lost
<1>2. PaymentIsTold(d) /\ ToldIsTrue(d) /\ RowFollows(d)
  BY DEF BooksInv, StripeTells, RowsFollow
<1>3. /\ net[d] = (IF credited[d] THEN Amount[d] ELSE 0) - refunded[d] - disputed[d]
      /\ ~credited[d] => refunded[d] = 0 /\ disputed[d] = 0
      /\ refunded[d] \in Nat /\ disputed[d] \in Nat /\ Amount[d] \in Nat /\ returned[d] \in Nat
  BY AmountAssumption DEF BooksInv, DepositsInv, LedgerAgrees, RowTables, StripeTables
<1>4. CASE checkout[d] # "paid"
  <2>1. ~ credited[d]
    BY <1>2, <1>4 DEF RowFollows
  <2> QED
    BY <1>3, <1>4, <2>1 DEF Worth
<1>5. CASE checkout[d] = "paid"
  <2>1. credited[d]
    <3>1. PICK k \in About(d, SettleTypes) : Told(k)
      BY <1>1, <1>2, <1>5 DEF PaymentIsTold
    <3> QED
      BY <1>2, <3>1 DEF RowFollows
  <2>2. \A k \in About(d, Refunded) : k.total <= refunded[d] /\ k.total \in Nat
    BY <1>1, <1>2 DEF RowFollows, BooksInv, DepositsInv, StripeTables, Sent, Wire
  <2>3. refunded[d] <= returned[d]
    <3>1. CASE refunded[d] = 0
      BY <1>3, <3>1
    <3>2. CASE refunded[d] # 0
      <4>1. PICK k \in About(d, Refunded) : k.total = refunded[d]
        BY <1>1, <1>2, <3>2 DEF RowFollows
      <4> QED
        BY <1>2, <4>1 DEF ToldIsTrue
    <3> QED
      BY <3>1, <3>2
  <2>4. returned[d] <= refunded[d]
    <3>1. CASE returned[d] = 0
      BY <1>3, <3>1
    <3>2. CASE returned[d] # 0
      <4>1. PICK k \in About(d, Refunded) : k.total = returned[d]
        BY <1>2, <3>2 DEF PaymentIsTold
      <4> QED
        BY <2>2, <4>1
    <3> QED
      BY <3>1, <3>2
  <2>5. refunded[d] = returned[d]
    BY <1>3, <2>3, <2>4
  <2>6. CASE dispute[d] \in {"open", "lost"}
    <3>1. PICK k \in About(d, DisputeTypes) : k.total = Amount[d] - returned[d]
      BY <1>2, <2>6 DEF PaymentIsTold, ToldIsTrue
    <3>2. About(d, RestoreTypes) = {}
      BY <1>2, <2>6 DEF ToldIsTrue
    <3>3. disputed[d] = Amount[d] - returned[d]
      BY <1>1, <1>2, <3>1, <3>2 DEF RowFollows
    <3>4. net[d] = 0
      BY <1>3, <2>1, <2>5, <3>3
    <3> QED
      BY <2>6, <3>4 DEF Worth
  <2>7. CASE dispute[d] = "won"
    <3>1. disputed[d] = 0
      BY <1>1, <1>2, <2>7 DEF PaymentIsTold, RowFollows
    <3> QED
      BY <1>3, <1>5, <2>1, <2>5, <2>7, <3>1 DEF Worth
  <2>8. CASE dispute[d] = "none"
    <3>1. disputed[d] = 0
      BY <1>1, <1>2, <2>8 DEF ToldIsTrue, RowFollows
    <3> QED
      BY <1>3, <1>5, <2>1, <2>5, <2>8, <3>1 DEF Worth
  <2>9. dispute[d] \in {"none", "open", "won", "lost"}
    BY DEF BooksInv, DepositsInv, StripeTables
  <2> QED
    BY <2>6, <2>7, <2>8, <2>9
<1> QED
  BY <1>4, <1>5

(* What the player sees, what the ledger holds and what Stripe moved are one *)
(* account of the deposit: while notices come in order and one at a time, an *)
(* acknowledged deposit is worth on the ledger what it is worth at Stripe,   *)
(* and its status tells what was taken of it (settle, reverse,               *)
(* restoreDispute, the marks, claimStripeWebhook), whatever is redelivered,  *)
(* refused, or interrupted.                                                  *)
THEOREM BooksAlwaysAgree == Spec => []BooksAgree
<1>1. BooksInv => BooksMatchStripe
  BY AcknowledgedMatches DEF BooksMatchStripe
<1>2. BooksInv => StatusTellsTheMoney
  <2> SUFFICES ASSUME BooksInv, OneAtATime, delivery.inOrder, NEW d \in Deposits \ reattached,
                      AtMostOneLost(d)
               PROVE  /\ credited[d] <=> status[d] \in {"SUCCEEDED", "PARTIALLY_REFUNDED", "REFUNDED", "DISPUTED"}
                      /\ disputed[d] > 0 <=> status[d] = "DISPUTED"
                      /\ status[d] = "SUCCEEDED" => refunded[d] = 0
                      /\ status[d] = "REFUNDED" => refunded[d] = Amount[d]
    BY DEF StatusTellsTheMoney
  <2>1. StatusFits(d)
    BY DEF BooksInv, RowsFollow, RowFollows, Orderly
  <2>2. disputed[d] \in Nat
    BY DEF BooksInv, DepositsInv, RowTables
  <2>3. disputed[d] > 0 <=> disputed[d] # 0
    BY <2>2
  <2> QED
    BY <2>1, <2>3 DEF StatusFits, Settled
<1> QED
  BY <1>1, <1>2, BooksInvariance, RowTellsLedger, PTL DEF BooksAgree
=============================================================================
