-------------------------------- MODULE Orders --------------------------------
(***************************************************************************)
(* What a player buys with tokens: merchandise that is shipped and rewards *)
(* that are redeemed with a code.                                          *)
(*                                                                         *)
(* An order debits the wallet, takes a unit of stock and writes its row in *)
(* one transaction; the player may cancel it while it is pending;          *)
(* administrators ship, deliver and cancel shipments (also ones they made  *)
(* themselves, for which nobody paid) and fulfil redemptions.  The         *)
(* player's transactions claim the row in a conditional UPDATE and are one *)
(* action each.  The administrator's read the row without locking it,      *)
(* decide, and update it by its id alone: reading and writing are two      *)
(* actions.  All orders here belong to one player.                         *)
(***************************************************************************)
EXTENDS LedgerOps, Sums

CONSTANTS
    Claims,        \* the player's merchandise claims, one per requestId
    Gifts,         \* shipments an administrator creates
    Redemptions,   \* the player's reward orders, one per requestId
    Items,         \* merchandise variants and rewards
    Item,          \* the item an order is for
    Cost,          \* the tokens an order costs
    Stock,         \* the units of an item at the start
    Unlimited,     \* the rewards whose stock is null
    Opening,       \* the balance the player starts with
    MaxDebt,       \* bound on the tokens a chargeback takes
    Callers,       \* concurrent calls of the player's create
    Admins,        \* concurrent calls of shipments.update and fulfill
    NoOrder,       \* the job of an idle caller
    Overlaps       \* whether others may act in the middle of an Admins call

Bought == Claims \cup Redemptions
Shipments == Claims \cup Gifts
Orders == Bought \cup Gifts

ASSUME OrdersFinite        == IsFiniteSet(Orders)
ASSUME KindsAssumption     == /\ Claims \cap Gifts = {}
                              /\ Redemptions \cap Shipments = {}
ASSUME NoOrderAssumption   == NoOrder \notin Orders
ASSUME ItemAssumption      == Item \in [Orders -> Items]
ASSUME CostAssumption      == Cost \in [Orders -> Nat \ {0}]
ASSUME StockAssumption     == Stock \in [Items -> Nat] /\ Unlimited \subseteq Items
ASSUME BalanceAssumption   == Opening \in Nat /\ MaxDebt \in Nat
ASSUME OverlapsAssumption  == Overlaps \subseteq BOOLEAN

VARIABLES
    status,    \* Shipment.status or RewardRedemption.status; "NONE" before
    charges,   \* ledger rows {reward,merchandise}-purchase:{user}:{requestId}
    refunds,   \* ledger rows {reward,merchandise}-refund:{id}
    code,      \* the fulfilment whose code RewardDelivery holds
    expiry,    \* RewardRedemption.expiresAt: none, running or over
    stock,     \* MerchandiseVariant.stock, Reward.stock
    balance,   \* User.balance
    debt,      \* tokens a chargeback has taken
    pc, job,   \* the step and the order of each call
    goal,      \* the status an administrator's call asked for
    owed,      \* the read of that call says that a refund is due
    overlap    \* the regime of this behaviour, chosen once

rowVars   == <<status, charges, refunds, code, expiry>>
moneyVars == <<stock, balance, debt>>
callVars  == <<pc, job, goal, owed>>
orderVars == <<rowVars, moneyVars, callVars, overlap>>

ShipmentStatus == {"PENDING", "IN_TRANSIT", "DELIVERED", "CANCELLED"}
RedemptionStatus == {"PENDING_FULFILLMENT", "FULFILLED", "REDEEMED", "CANCELLED", "EXPIRED"}
Statuses == ShipmentStatus \cup RedemptionStatus \cup {"NONE"}

(* Where an administrator may move a shipment.                               *)
Allowed(s) == CASE s = "PENDING"    -> {"IN_TRANSIT", "CANCELLED"}
                [] s = "IN_TRANSIT" -> {"DELIVERED"}
                [] OTHER            -> {}

OrdersTypeOK ==
    /\ status  \in [Orders -> Statuses]
    /\ charges \in [Orders -> Nat]
    /\ refunds \in [Orders -> Nat]
    /\ code    \in [Redemptions -> Admins \cup {"none"}]
    /\ expiry  \in [Redemptions -> {"none", "running", "over"}]
    /\ stock   \in [Items -> Int]
    /\ balance \in Int
    /\ debt    \in 0 .. MaxDebt
    /\ pc      \in [Callers \cup Admins -> {"idle", "checked", "read"}]
    /\ job     \in [Callers \cup Admins -> Orders \cup {NoOrder}]
    /\ goal    \in [Admins -> Statuses]
    /\ owed    \in [Admins -> BOOLEAN]
    /\ overlap \in Overlaps

OrdersInit ==
    /\ status  = [o \in Orders |-> "NONE"]
    /\ charges = [o \in Orders |-> 0]
    /\ refunds = [o \in Orders |-> 0]
    /\ code    = [o \in Redemptions |-> "none"]
    /\ expiry  = [o \in Redemptions |-> "none"]
    /\ stock   = Stock
    /\ balance = Opening
    /\ debt    = 0
    /\ pc      = [c \in Callers \cup Admins |-> "idle"]
    /\ job     = [c \in Callers \cup Admins |-> NoOrder]
    /\ goal    = [a \in Admins |-> "NONE"]
    /\ owed    = [a \in Admins |-> FALSE]
    /\ overlap \in Overlaps
-----------------------------------------------------------------------------
(* Helpers.                                                                  *)

(* Without overlap nobody acts between an administrator's read and write.    *)
Undisturbed == overlap \/ \A a \in Admins : pc[a] = "idle"

Start(c, o, to) ==
    /\ pc[c] = "idle"
    /\ pc'  = [pc EXCEPT ![c] = to]
    /\ job' = [job EXCEPT ![c] = o]

Return(c, from) ==
    /\ pc[c] = from
    /\ pc'  = [pc EXCEPT ![c] = "idle"]
    /\ job' = [job EXCEPT ![c] = NoOrder]

(* The conditional decrement matches the item's row.                         *)
InStock(o) == Item[o] \in Unlimited \/ stock[Item[o]] > 0

AddStock(o, n) ==
    stock' = [stock EXCEPT ![Item[o]] = IF Item[o] \in Unlimited THEN @ ELSE @ + n]

PendingStatus(o) == IF o \in Redemptions THEN "PENDING_FULFILLMENT" ELSE "PENDING"
-----------------------------------------------------------------------------
(* The player.                                                               *)

(* create finds no row under the requestId of o.  (When it finds one it      *)
(* answers with it.)                                                         *)
StartCreate(c, o) ==
    /\ Undisturbed
    /\ status[o] = "NONE"
    /\ Start(c, o, "checked")
    /\ UNCHANGED <<goal, owed, rowVars, moneyVars, overlap>>

(* No row has been written under the requestId in the meantime: both the row *)
(* and the ledger reference are unique.                                      *)
Fresh(o) == status[o] = "NONE"

Create(c) ==
    LET o == job[c] IN
    /\ Undisturbed
    /\ Return(c, "checked")
    /\ Fresh(o) /\ Recordable(balance, -Cost[o]) /\ InStock(o)
    /\ status'  = [status EXCEPT ![o] = PendingStatus(o)]
    /\ charges' = [charges EXCEPT ![o] = @ + 1]
    /\ balance' = balance - Cost[o]
    /\ AddStock(o, -1)
    /\ UNCHANGED <<refunds, code, expiry, debt, goal, owed, overlap>>

(* Rolled back: the unique key, the balance or the stock refuses.            *)
CreateRefused(c) ==
    LET o == job[c] IN
    /\ Undisturbed
    /\ Return(c, "checked")
    /\ ~(Fresh(o) /\ Recordable(balance, -Cost[o]) /\ InStock(o))
    /\ UNCHANGED <<goal, owed, rowVars, moneyVars, overlap>>

(* The unique reference of the refund is free and the wallet takes a credit; *)
(* otherwise the transaction rolls back.                                     *)
Refundable(o) == refunds[o] = 0 /\ Recordable(balance, Cost[o])

Refund(o) ==
    /\ refunds' = [refunds EXCEPT ![o] = @ + 1]
    /\ balance' = balance + Cost[o]

NoRefund == UNCHANGED <<refunds, balance>>

(* cancelOwned, of a shipment (a gift too) or of a redemption.               *)
CancelOwned(o) ==
    /\ Undisturbed
    /\ status[o] = PendingStatus(o)
    /\ status' = [status EXCEPT ![o] = "CANCELLED"]
    /\ AddStock(o, 1)
    /\ IF charges[o] > 0 /\ refunds[o] = 0 THEN Refundable(o) /\ Refund(o) ELSE NoRefund
    /\ UNCHANGED <<charges, code, expiry, debt, callVars, overlap>>

(* markRedeemed: the player uses the code.                                   *)
Redeem(o) ==
    /\ Undisturbed
    /\ status[o] = "FULFILLED" /\ expiry[o] # "over"
    /\ status' = [status EXCEPT ![o] = "REDEEMED"]
    /\ UNCHANGED <<charges, refunds, code, expiry, moneyVars, callVars, overlap>>

(* expireOwned, when the player lists the redemptions.                       *)
ExpireOwned(o) ==
    /\ Undisturbed
    /\ status[o] = "FULFILLED" /\ expiry[o] = "over"
    /\ status' = [status EXCEPT ![o] = "EXPIRED"]
    /\ UNCHANGED <<charges, refunds, code, expiry, moneyVars, callVars, overlap>>

-----------------------------------------------------------------------------
(* The administrators.                                                       *)

(* ShipmentsService.create: the unit is taken, nobody pays.                  *)
CreateGift(o) ==
    /\ Undisturbed
    /\ status[o] = "NONE" /\ InStock(o)
    /\ status' = [status EXCEPT ![o] = "PENDING"]
    /\ AddStock(o, -1)
    /\ UNCHANGED <<charges, refunds, code, expiry, balance, debt, callVars, overlap>>

(* ShipmentsService.update reads the shipment and checks the move.           *)
ReadShipment(a, o, to) ==
    /\ Undisturbed
    /\ to \in Allowed(status[o])
    /\ Start(a, o, "read")
    /\ goal' = [goal EXCEPT ![a] = to]
    /\ owed' = [owed EXCEPT ![a] = charges[o] > 0 /\ refunds[o] = 0]
    /\ UNCHANGED <<rowVars, moneyVars, overlap>>

MoveShipment(a) ==
    LET o == job[a] IN
    /\ o \in Shipments /\ goal[a] # "CANCELLED"
    /\ Return(a, "read")
    /\ status' = [status EXCEPT ![o] = goal[a]]
    /\ UNCHANGED <<charges, refunds, code, expiry, moneyVars, goal, owed, overlap>>

(* Mutation: an administrator's cancellation forfeits the tokens.            *)
CancelAndForfeit(a) ==
    LET o == job[a] IN
    /\ o \in Shipments /\ goal[a] = "CANCELLED"
    /\ Return(a, "read")
    /\ status' = [status EXCEPT ![o] = "CANCELLED"]
    /\ AddStock(o, 1)
    /\ NoRefund
    /\ UNCHANGED <<charges, code, expiry, debt, goal, owed, overlap>>

(* A cancellation restocks and refunds as the read said.                     *)
CancelShipment(a) ==
    LET o == job[a] IN
    /\ o \in Shipments /\ goal[a] = "CANCELLED"
    /\ Return(a, "read")
    /\ status' = [status EXCEPT ![o] = "CANCELLED"]
    /\ AddStock(o, 1)
    /\ IF owed[a] THEN Refundable(o) /\ Refund(o) ELSE NoRefund
    /\ UNCHANGED <<charges, code, expiry, debt, goal, owed, overlap>>

(* Refused: the refund was recorded by somebody else, or the wallet is in    *)
(* debt.  The restock is rolled back with it.                                *)
CancelShipmentThrows(a) ==
    LET o == job[a] IN
    /\ o \in Shipments /\ goal[a] = "CANCELLED"
    /\ Return(a, "read")
    /\ owed[a] /\ ~Refundable(o)
    /\ UNCHANGED <<goal, owed, rowVars, moneyVars, overlap>>

(* fulfill reads the redemption; any other status is answered unchanged.     *)
FulfillableAgain(o) == status[o] \in {"PENDING_FULFILLMENT", "FULFILLED"}    \* Mutation
Fulfillable(o) == status[o] = "PENDING_FULFILLMENT"

ReadRedemption(a, o) ==
    /\ Undisturbed
    /\ Fulfillable(o)
    /\ Start(a, o, "read")
    /\ UNCHANGED <<goal, owed, rowVars, moneyVars, overlap>>

(* The delivery row and the redemption are overwritten; e tells whether the  *)
(* supplier's code expires.                                                  *)
Fulfill(a, e) ==
    LET o == job[a] IN
    /\ o \in Redemptions
    /\ Return(a, "read")
    /\ status' = [status EXCEPT ![o] = "FULFILLED"]
    /\ code'   = [code EXCEPT ![o] = a]
    /\ expiry' = [expiry EXCEPT ![o] = e]
    /\ UNCHANGED <<charges, refunds, moneyVars, goal, owed, overlap>>

-----------------------------------------------------------------------------
(* A code expires.                                                           *)
TimePasses(o) ==
    /\ expiry[o] = "running"
    /\ expiry' = [expiry EXCEPT ![o] = "over"]
    /\ UNCHANGED <<status, charges, refunds, code, moneyVars, callVars, overlap>>

(* A chargeback takes a token, below zero if need be.                        *)
Chargeback ==
    /\ debt < MaxDebt
    /\ debt' = debt + 1
    /\ balance' = balance - 1
    /\ UNCHANGED <<rowVars, stock, callVars, overlap>>

Player ==
    \/ \E c \in Callers, o \in Bought : StartCreate(c, o)
    \/ \E c \in Callers : Create(c) \/ CreateRefused(c)
    \/ \E o \in Orders : CancelOwned(o)
    \/ \E o \in Redemptions : Redeem(o) \/ ExpireOwned(o)

Administrator(a) ==
    \/ \E o \in Shipments, to \in ShipmentStatus : ReadShipment(a, o, to)
    \/ MoveShipment(a)
    \/ CancelShipment(a)
    \/ CancelShipmentThrows(a)
    \/ \E o \in Redemptions : ReadRedemption(a, o)
    \/ \E e \in {"none", "running"} : Fulfill(a, e)

OrdersNext ==
    \/ Player
    \/ \E o \in Gifts : CreateGift(o)
    \/ \E a \in Admins : Administrator(a)
    \/ \E o \in Redemptions : TimePasses(o)
    \/ Chargeback

OrdersSpec == OrdersInit /\ [][OrdersNext]_orderVars

-----------------------------------------------------------------------------
(* Properties.                                                               *)

(* An order whose unit and tokens are spent.                                 *)
Live(o) == status[o] \notin {"NONE", "CANCELLED"}

CostOf(S) == SumOver(Cost, S)

Spent == CostOf({o \in Bought : Live(o)})

Units(i) == Cardinality({o \in Orders : Item[o] = i /\ Live(o)})

(* However calls repeat and overlap, an order is charged once and refunded   *)
(* once at most, and nothing is refunded that was not charged (the unique    *)
(* references of recordLedgerEntry, cancelOwned, shipments.update).          *)
OneChargeOneRefund ==
    \A o \in Orders :
        /\ charges[o] = (IF o \in Bought /\ status[o] # "NONE" THEN 1 ELSE 0)
        /\ refunds[o] <= charges[o]

(* Charged and refunded once, the wallet lacks exactly the tokens of the     *)
(* live orders.  Overlapping                                                 *)
(* calls of administrators can break this, but only to the player's          *)
(* advantage: a player is never short of tokens.                             *)
WalletPaysForOrders ==
    /\ OneChargeOneRefund
    /\ balance >= Opening - debt - Spent
    /\ ~overlap => balance = Opening - debt - Spent

(* The stock lacks exactly the units of the live orders and is never below   *)
(* zero.  Overlapping calls can break the equation (a unit restocked twice,  *)
(* or restocked and shipped), but no unit is ever lost.                      *)
StockCoversOrders ==
    \A i \in Items \ Unlimited :
        /\ stock[i] >= 0
        /\ stock[i] + Units(i) >= Stock[i]
        /\ ~overlap => stock[i] + Units(i) = Stock[i]

(* Wallet and stock together: what the live orders took, and no more.        *)
OrdersAreBacked == OrdersTypeOK /\ WalletPaysForOrders /\ StockCoversOrders

(* Without overlap an order that is over stays over and the code a player    *)
(* may have used is never replaced (fulfill answers a repeated call with the *)
(* row it finds).                                                            *)
OverIsOver ==
    [][~overlap =>
         /\ \A o \in Orders :
              status[o] \in {"DELIVERED", "CANCELLED", "REDEEMED", "EXPIRED"}
              => status'[o] = status[o]
         /\ \A o \in Redemptions : code[o] # "none" => code'[o] = code[o]]_orderVars
=============================================================================
