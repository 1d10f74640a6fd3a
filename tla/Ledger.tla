------------------------------- MODULE Ledger -------------------------------
(***************************************************************************)
(* Wallets and the ledger that explains them (transactions): every entry   *)
(* is a conditional UPDATE of the user's row, which stays locked until the *)
(* transaction ends, and a row with the balance before and after it, whose *)
(* reference, if it has one, is unique.  Entries come alone (an            *)
(* administrator's adjustment) or in batches, all or nothing.  The other   *)
(* modules take each transaction as one step; this one looks inside.  A    *)
(* script writes the ledger of accounts older than the ledger.             *)
(***************************************************************************)
EXTENDS Calls, LedgerOps, Sequences, FiniteSets
CONSTANTS Holders, Elders,     \* users; those who were there before the ledger
          OldFees,             \* references of the fees of the elders' registrations, never debited in the ledger
          FeeOf,               \* reference -> the user whose entry fee it is
          Batches,             \* sequences of entries [user, amount, ref] written in one transaction
          Openings,            \* the initial balances an administrator may type
          Clerks, Adjustments, MaxAdjustments     \* the amounts an administrator types, and how often
BatchEntries == UNION {{b[i] : i \in DOMAIN b} : b \in Batches}
ASSUME LedgerAssumption == /\ Elders \subseteq Holders /\ OldFees \subseteq DOMAIN FeeOf /\ IsFiniteSet(DOMAIN FeeOf)
                           /\ Openings \subseteq Nat /\ MaxAdjustments \in Nat /\ Adjustments \subseteq Int
                           /\ Batches \subseteq Seq(BatchEntries)
                           /\ \A e \in BatchEntries : e.user \in Holders /\ e.amount \in Int
                           /\ Free \notin Int \cup {"next", "examined", "reckoned"}
VARIABLES wallet,              \* User.balance, Free while there is no such user
          rows,                \* user -> the ledger, oldest first
          clerk,               \* transactions in progress
          script,              \* the backfill
          adjustments,
          opening              \* history: what the column held that no row tells
ledgerVars == <<wallet, rows, clerk, script, adjustments, opening>>

Idle == [todo |-> <<>>, view |-> <<>>, wrote |-> [u \in Holders |-> <<>>], updated |-> FALSE, on |-> FALSE]
Resting == [at |-> Free, seen |-> <<>>, left |-> {}, user |-> Free, fees |-> <<>>]
Users == {u \in Holders : wallet[u] # Free}
LedgerTypeOK ==
  /\ wallet \in [Holders -> Int \cup {Free}] /\ adjustments \in 0..MaxAdjustments
  /\ \A u \in Holders : \A i \in DOMAIN rows[u] : rows[u][i].after = rows[u][i].before + rows[u][i].amount
LedgerInit ==
  /\ opening \in [Holders -> Openings] /\ \A u \in Holders \ Elders : opening[u] = 0
  /\ wallet = [u \in Holders |-> IF u \in Elders THEN opening[u] ELSE Free]
  /\ rows = [u \in Holders |-> <<>>] /\ clerk = [c \in Clerks |-> Idle] /\ script = Resting /\ adjustments = 0

-----------------------------------------------------------------------------
(* Transactions. *)
InLedger(ref) == \E u \in Holders : \E i \in DOMAIN rows[u] : rows[u][i].ref = ref
Unseen(c, ref) == {d \in Clerks \ {c} : \E u \in Holders : \E i \in DOMAIN clerk[d].wrote[u] : clerk[d].wrote[u][i].ref = ref}
NoLocker(c, u) == {}    \* Mutation: the UPDATE does not wait
Locker(c, u) == {d \in Clerks \ {c} : u \in DOMAIN clerk[d].view}
Entry(c) == Head(clerk[c].todo)
Sees(c, u) == IF u \in DOMAIN clerk[c].view THEN clerk[c].view[u] ELSE wallet[u]
Rollback(c) == clerk' = [clerk EXCEPT ![c] = Idle] /\ UNCHANGED <<wallet, rows, script, adjustments, opening>>

\* UsersService.create: the initial balance is written into the column.
CreateUser == \E u \in Holders \ Users, initial \in Openings :
  /\ wallet' = [wallet EXCEPT ![u] = initial] /\ opening' = [opening EXCEPT ![u] = initial]
  /\ UNCHANGED <<rows, clerk, script, adjustments>>
\* recordMany, and the transactions that write an entry for each of several players.
RecordMany(c) == \E batch \in Batches :
  /\ ~clerk[c].on /\ \A i \in DOMAIN batch : batch[i].user \in Users
  /\ clerk' = [clerk EXCEPT ![c] = [Idle EXCEPT !.on = TRUE, !.todo = batch]]
  /\ UNCHANGED <<wallet, rows, script, adjustments, opening>>
\* What it read of the balance only decides the message.
AdjustBalance(c) == \E u \in Users, amount \in Adjustments :
  /\ ~clerk[c].on /\ adjustments < MaxAdjustments /\ wallet[u] + amount >= 0
  /\ clerk' = [clerk EXCEPT ![c] = [Idle EXCEPT !.on = TRUE, !.todo = <<[user |-> u, amount |-> amount, ref |-> Free]>>]]
  /\ adjustments' = adjustments + 1 /\ UNCHANGED <<wallet, rows, script, opening>>
\* The UPDATE: it waits for the row, and then sees it as it is.
UpdateBalance(c) == clerk[c].todo # <<>> /\ LET e == Entry(c) IN
  /\ ~clerk[c].updated /\ Locker(c, e.user) = {}
  /\ Recordable(Sees(c, e.user), e.amount)
  /\ clerk' = [clerk EXCEPT ![c].updated = TRUE, ![c].view =
       [u \in DOMAIN clerk[c].view \cup {e.user} |-> IF u = e.user THEN Sees(c, u) + e.amount ELSE clerk[c].view[u]]]
  /\ UNCHANGED <<wallet, rows, script, adjustments, opening>>
Insufficient(c) == clerk[c].todo # <<>> /\ LET e == Entry(c) IN
  /\ ~clerk[c].updated /\ Locker(c, e.user) = {} /\ ~Recordable(Sees(c, e.user), e.amount) /\ Rollback(c)
\* The row: the balance is read back under the lock, the one before derived from it.
InsertRow(c) == clerk[c].updated /\ LET e == Entry(c) IN
  /\ e.ref = Free \/ (Unseen(c, e.ref) = {} /\ ~InLedger(e.ref))
  /\ clerk' = [clerk EXCEPT ![c].updated = FALSE, ![c].todo = Tail(@), ![c].wrote[e.user] = Append(@,
       [user |-> e.user, ref |-> e.ref, amount |-> e.amount, after |-> clerk[c].view[e.user], before |-> clerk[c].view[e.user] - e.amount])]
  /\ UNCHANGED <<wallet, rows, script, adjustments, opening>>
Duplicate(c) == clerk[c].updated /\ Entry(c).ref # Free /\ InLedger(Entry(c).ref) /\ Rollback(c)
CommitRows(c) ==
  /\ clerk[c].on /\ clerk[c].todo = <<>>
  /\ wallet' = [u \in Holders |-> Sees(c, u)]
  /\ rows' = [u \in Holders |-> rows[u] \o clerk[c].wrote[u]]
  /\ clerk' = [clerk EXCEPT ![c] = Idle] /\ UNCHANGED <<script, adjustments, opening>>
\* The connection or the process is lost.
Lost(c) == clerk[c].on /\ Rollback(c)
Awaits(c) == IF clerk[c].todo = <<>> THEN {} ELSE IF clerk[c].updated THEN Unseen(c, Entry(c).ref) ELSE Locker(c, Entry(c).user)
BrokenCycle(c) == (\E d \in Awaits(c) : c \in Awaits(d)) /\ Rollback(c)

-----------------------------------------------------------------------------
(* backfillTransactions: it reads all balances first, then goes from user to user. *)
StartBackfill ==
  /\ script.at = Free /\ script' = [Resting EXCEPT !.at = "next", !.seen = [u \in Users |-> wallet[u]], !.left = Users]
  /\ UNCHANGED <<wallet, rows, clerk, adjustments, opening>>
Examine == \E u \in script.left :
  /\ script.at = "next"
  /\ script' = [script EXCEPT !.left = @ \ {u}, !.user = u, !.at = IF rows[u] = <<>> THEN "examined" ELSE "next"]
  /\ UNCHANGED <<wallet, rows, clerk, adjustments, opening>>
\* Registrations: those of old, and those whose fee was taken through the ledger; any order stands for that of time.
FeesOf(u) == {f \in DOMAIN FeeOf : FeeOf[f] = u /\ ((f \in OldFees /\ u \in Elders) \/ InLedger(f))}
FindRegistrations == LET fees == FeesOf(script.user) IN
  \E order \in [1..Cardinality(fees) -> fees] :
    /\ script.at = "examined" /\ fees = {order[i] : i \in DOMAIN order}
    /\ script' = [script EXCEPT !.at = "reckoned", !.fees = order]
    /\ UNCHANGED <<wallet, rows, clerk, adjustments, opening>>
\* What the account must have opened with, unless that is nothing, and then fee after fee, of one token each.
Reconciled(u, fees, amount) ==
  LET first == amount + Len(fees)
      Row(ref, before, change) == [user |-> u, ref |-> ref, amount |-> change, before |-> before, after |-> before + change]
      opens == IF first = 0 THEN <<>> ELSE <<Row("opening", 0, first)>>
  IN opens \o [i \in 1..Len(fees) |-> Row(fees[i], first + 1 - i, -1)]
WriteBackfill == LET u == script.user  taken == \E i \in DOMAIN script.fees : InLedger(script.fees[i]) \/ Unseen(Free, script.fees[i]) # {} IN
  /\ script.at = "reckoned" /\ UNCHANGED <<wallet, clerk, adjustments>>
  /\ IF taken THEN script' = Resting /\ UNCHANGED <<rows, opening>>
     ELSE /\ rows' = [rows EXCEPT ![u] = Reconciled(u, script.fees, script.seen[u]) \o @]
          /\ opening' = [opening EXCEPT ![u] = 0] /\ script' = [script EXCEPT !.at = "next", !.fees = <<>>]
EndBackfill ==
  /\ script.at = "next" /\ script.left = {} /\ script' = Resting
  /\ UNCHANGED <<wallet, rows, clerk, adjustments, opening>>

LedgerNext == CreateUser \/ StartBackfill \/ Examine \/ FindRegistrations \/ WriteBackfill \/ EndBackfill
  \/ \E c \in Clerks : \/ RecordMany(c) \/ AdjustBalance(c) \/ UpdateBalance(c) \/ Insufficient(c) \/ InsertRow(c)
                       \/ Duplicate(c) \/ CommitRows(c) \/ Lost(c) \/ BrokenCycle(c)
LedgerSpec == LedgerInit /\ [][LedgerNext]_ledgerVars

-----------------------------------------------------------------------------
(* Properties. *)

\* The rows of a wallet are an unbroken chain: each begins at the balance the one before it left, the first at
\* what the account held when it had no ledger, the last ends at the balance; and it is never overdrawn.
\* Whatever runs at once, batches, adjustments, repeats, the backfill or an end in the middle, nothing moves
\* the balance that no row tells.
LedgerChains == LedgerTypeOK /\ \A u \in Users :
  /\ wallet[u] = IF rows[u] = <<>> THEN opening[u] ELSE rows[u][Len(rows[u])].after
  /\ \A i \in DOMAIN rows[u] : rows[u][i].before = IF i = 1 THEN opening[u] ELSE rows[u][i - 1].after
  /\ wallet[u] >= 0

\* recordLedgerEntry is "THE ONLY FUNCTION IN THE CODEBASE THAT WRITES `User.balance`", so that what
\* verifyLedgerIntegrity compares agrees for every account made since: the balance is the sum of the rows.
Total(ledger) == LET t[i \in 0..Len(ledger)] == IF i = 0 THEN 0 ELSE t[i - 1] + ledger[i].amount IN t[Len(ledger)]
LedgerExplainsBalance == \A u \in Users \ Elders : wallet[u] = Total(rows[u])
=============================================================================
