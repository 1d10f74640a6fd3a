# Verification of BJ-Spades-API

TLA+ models of the BJ-Spades back end (NestJS over Prisma and PostgreSQL, 610 files): the flow of
player tokens (withdrawals, Stripe payouts and deposits, orders, entry fees, prizes, the ledger itself),
the tournament bracket with its disputes, the game of Spades, and the accounts, sessions, permissions,
pictures, settings and player features around them. TLC checks every module on small instances; for
all of them TLAPS proves the safety properties for every number of rows, players, amounts and concurrent
calls.

Contents: 1 the system, 2 modelling conventions, 3 modules, 4 runs, bounds and fairness,
5 what is proved, 6 where code and documents disagree, 7 what is not modelled, 8 plan.

## 1. The system

Every request is handled by an async function of a Node.js process; several processes may run. All
state is in PostgreSQL, but for pictures (files on disk) and two caches in each process (permissions,
settings). Transactions run at READ COMMITTED: a plain SELECT takes no lock, an UPDATE locks the rows it
changes until the end of its transaction and re-evaluates its WHERE clause on the newest committed row.
Two idioms follow, and the difference between them is where the hazards are:

* *claim*: `updateMany({ where: { id, status: expected } })`, or `SELECT ... FOR UPDATE` first.
  Concurrent callers are serialised; the loser sees count 0.
* *check, then act*: `findUnique`, decide in TypeScript, `update({ where: { id } })`. What was read
  may be stale when it is used.

| Component (src/src/modules) | State | Operations | Talks to | Correct when |
|---|---|---|---|---|
| transactions, player-wallet | `User.balance`, `Transaction` rows with unique references | `recordLedgerEntry` and its batch, adjustments, the backfill script | everything that moves tokens | the rows are a chain that ends at the balance; a reference is used once; a debit finds its tokens |
| payouts, player-withdrawals | `Payout`, `WithdrawalRequest`, reservation and prize rows | request, cancel, approve, process (claim, Stripe call, record), webhooks | Stripe transfers, ledger, settings (freeze), verification | tokens leave once: paid or back in the wallet, never both; nothing cancelled that may be at Stripe |
| payout-methods, Connect onboarding | payout accounts, `User.stripeConnectAccountId` and its status | connect, verify, disconnect, choose the default, onboard, account webhooks | Stripe, withdrawals | one default; paid only where Stripe has agreed |
| player-deposits, webhooks | `Deposit`, `WebhookEvent` | checkout, cancel, settle, reverse, restore | Stripe Checkout, ledger | a payment is credited once; the ledger follows refunds and disputes |
| player-rewards, player-merchandise, shipments | `RewardRedemption`, `RewardDelivery`, `Shipment`, stock | buy, cancel, fulfil, redeem, expire, ship | ledger, catalogue | one charge and at most one refund per order; stock covers orders; what is over stays over |
| merchandise, rewards | products, variants with SKUs, pictures | create with variants, add, rename, remove | storage | a product has all its variants; a SKU is one variant's |
| tournaments (entry) | `Tournament`, `TournamentRegistration`, fee and refund rows | register, withdraw, remove, edit, cancel, start | ledger, bracket | a place is paid, a lost place refunded, a cancelled tournament keeps nothing; one draw |
| tournament-progression | `TournamentTeam`, `GameMatch`, `TournamentPrizeAward`, settlement version | apply a result, settle, correct, release held prizes, disqualify | matches, disputes, ledger | prizes never exceed the pool; a held prize waits for a case; the bracket moves on |
| disputes | `Dispute` | clear, disqualify, retry | tournament-progression | a verdict is recorded once and carried out |
| matches, player-overview | `GameMatch.state`, seats, commands, events | bid, play, claim timeout, forfeit, reveal hand; achievements read from events | bracket | the rules of Spades; one event per version; an ended game stays ended; events tell the game |
| player-social | friendships, blocks, challenges | ask, answer, block, challenge, accept (pairs two teams), decline, cancel | matches | challenges seat nobody twice; a matched challenge names its game; a block parts |
| admins, auth, roles, permissions, security | admins, sessions, refresh tokens, roles | sign-in, rotation, revocation, role changes | guard's permission cache | somebody can administer; what is allowed follows the role; a revoked session is dead |
| users, registration webhooks | users, stored events | create, edit, suspend, activate, remove; deliver, store, retry | ledger (opening balance), payouts (eligibility) | one event one user; the last decision stands; removed stays removed |
| player-auth, player-profile | credentials, sessions, refresh tokens, one-use tickets | sign-up, sign-in (password, provider), rotate, reset | users | a ticket works once; a reset ends every session |
| player-animations, player-engagement, player-learning | entitlements, membership, notices, progress | buy, equip, subscribe, cancel, join, advance | ledger, tier | one purchase, what is worn is owned, progress never lost |
| storage | files, `MediaAsset` rows, the columns that show them | upload, replace, remove, sweep | every row with a picture | an asset has its file; what is shown is there |
| settings | the table, each process's copy, the copy of the retention | read, save, invalidate | all | a save is the one served |
| claims, verification, tax, treasury, sponsors, activity, dashboard, leaderboards, stripe, health, prisma | records and views | operators' editing, reports, I/O | | stored values and pure formulas |

What is hard: administrators and players act on one row at the same time; Stripe answers late, twice,
out of order or not at all; a handler dies between two commits; a wallet can fall below zero after a
chargeback and then refuses credits, which makes refunds, prizes and cancellations abort; a
tournament game, its tournament and a dispute are changed from three services; caches outlive what they
copy. PROJECT.json lists the main hazards, each at its line with the properties that watch it.

## 2. Modelling conventions

* One action is one committed transaction, one call to Stripe or one reaction of it. Where the code
  reads without a lock and uses the value later, reading and writing are two actions and anything may
  happen in between. Where the write repeats the condition in its WHERE clause, or the row is locked
  first, they are one. Where a transaction's own statements can meet another's (Ledger, Catalogue,
  PayoutMethods, Sessions) each statement is an action, and row locks are state.
* A deadlock that PostgreSQL resolves by aborting a transaction is the action not happening; where
  statements are actions it is an action of its own (`BrokenCycle`, `DeadlockAborts`, `DeadlockAborted`).
* Unique references (`refund:{t}:{user}:{attempt}` and the like) are membership tests or counters.
* Tokens are small integers. `LedgerOps` holds the floor rule of `recordLedgerEntry`; Ledger opens it up.
* *Regimes*: where the code keeps a promise only if callers do not overlap, a variable chosen in `Init`
  fixes the regime of a behaviour, so that one run shows what always holds and what holds only there:
  `delivery` (Deposits), `overlap` (Orders), `practice` (Entries, Staff), `prompt` (Bracket), `delayed`
  (Matches).
* *History*: where a call that read too early may overwrite a later decision, the promise has an
  exception, and a history variable names exactly the rows it covers (`overtaken`, `contested`, `late`,
  `slipped`, `unlooked`, `displaced`, `raced`, `crossed`, `stale`, `moved`, `undone`, `slept`, `reattached`). Properties are stated for all other
  rows; section 6 says what happens to those. A history variable is set by the overlap, not by the damage.
* *Parts*: modules that share no row are composed in one MC module whose variable `part` says which of
  them a behaviour exercises; the product of independent parts would show nothing more.
* Definitions whose comment begins `Mutation:` are deliberately wrong variants, used only to confirm
  that each property can fail.

## 3. Modules

Money:

**LedgerOps** - `Floor`, `Recordable`: the conditional UPDATE of `recordLedgerEntry`: a debit needs its
size, a credit needs a balance of at least zero (so a wallet in debt refuses credits).

**Ledger** - transactions.repository, transactions.service and the backfill script. A clerk's transaction
(`RecordMany`, `AdjustBalance`) locks one wallet after another (`UpdateBalance`), inserts a row with the
balance before and after (`InsertRow`), and commits; a repeat finds its reference (`Duplicate`), a
shortage, a loss or a lock cycle undoes everything. `script` is the backfill, which reads all balances first and
writes per user. `CreateUser` is the panel's, with its initial balance.

**Custody** - what the withdrawal system promises, in four actions (`Take`, `PayOut`, `GiveBack`,
`OtherUse`): the tokens of a request leave the wallet once, come back at most once, and what came back
is never paid.

**Payouts** - payouts.service, payouts.repository, player-withdrawals. Variables are the columns of
`Payout`, `WithdrawalRequest` and their ledger rows, the state of Stripe (`transfer`) and of its
notifications (`event`, `stage`), and the step of each concurrent `process` call (`pc`, `job`).
`process` is `StartProcess` (unlocked reads: freeze, verification), `ClaimForProcessing` (the claim,
with the 30-second recovery of stale claims), `TransferAccepted` / `TransferRefused` /
`TransferAnswerLost`, then `MarkPaid` or `ReleaseAfterFailure`; `Crash` may end it anywhere. Stripe
returns the same transfer for the same idempotency key. `ImplementsCustody` refines Custody: where a
request's tokens are is a function of the two records.

**Tracker** - EXTENDS Payouts: what is shown of a payout. Four more columns (`approvedAt`, `processedAt`,
`paidAt`, `blockerReason`), each written by the transaction that the change of `status` stands for (`Stamp`),
and the views as operators: `Rail`, `AdvanceAction`, `DistributionStatus`, `WithdrawalShown`, `Stats`,
`TrackerStats`. `ShownIsTrue` relates them to Stripe, to the wallet and to each other.

**PayoutMethods** - payout-methods and the Connect half of payouts.service, for one player. `setDefault`
is clear-then-set with row locks (`BeginClear`, `ClearOne`, `MakeDefault`); onboarding reads the user,
creates an account at Stripe, stores it and enters it among the destinations (`Onboard` ...
`SyncStripeDestination`); `mail` holds Stripe's verdicts in no order.

**Deposits** - player-deposits and the Stripe part of webhooks. `create` in steps (row, Stripe session,
attach), Stripe's notices (`sent`) delivered repeatedly, out of order and several at once, `settle` as
a claim, `reverse` and `restoreDispute` as an unlocked read and an absolute write.

**Orders** - player-rewards, player-merchandise, shipments. A purchase is one transaction (debit, stock,
row); an administrator's update or fulfilment is a read and a write by id.

**Catalogue** - a product created with all its variants in one transaction of inserts that wait on each
other's SKUs; `addVariant` reads its place, then inserts.

Tournaments and games:

**Entries** - tournaments.repository, tournaments.service, and `start` / `cancelUnstartable` of
tournament-progression. `cancelWithRefunds` is three steps (`CancelReadFees`, `CancelRefundFees`,
`CancelCommit` or `CancelAbort`) because it does not lock the tournament first; the edit form is
`EditRead` and `EditWrite`. `SmallestDraw` stands for the code's four players.

**Results** - EXTENDS Entries: a tournament older than the bracket, whose results an administrator submits.
`ReadResults` checks the sheet (places, pool, roster) without a lock, `SubmitResults` locks the tournament
and looks at its status only; `FileCase`, `Clear` and `TakeAwards` hold, release and take its prizes.

**Bracket** - the rest of tournament-progression, and disputes. Slots of a draw of `Rounds` rounds;
`ApplyCompletedMatch` advances, or settles the final (70/30, two players, rounding down, held while a
case is open); `CorrectResults` reverses the current version and pays the next; `Resolve` commits a
verdict, `ReleaseHeldAwards`, `DisqualifyPlayer` or `ReconcileNothing` carries it out in a second
transaction, `GiveUp` is the server dying in between. No code of the repository files a dispute;
`FileCase` is external.

**Spades** - spades.engine.ts as operators on a snapshot (a record): dealing, bidding with nil and blind
nil, legal cards, tricks, scores and bags, forfeits, timeouts. A function's throws are its `Can...`
operator. The numbers of `SPADES_RULES_V1` are constants. What the code writes as a `filter` or a `reduce` over
a list is a recursive function (`Filtered`, `TrickWinner`) or a sum (**Sums**), so that it can be proved about.

**Matches** - EXTENDS Spades: one game as matches.service runs it. `Commit` writes state and event;
`RevealRead` / `RevealWrite` is revealHand without a lock; `RulingRead` / `RulingWrite` /
`RulingAborts` is disqualifyPlayer's write to the game, which relies on the unique event sequence.

**Progress** - EXTENDS Matches: `analyzeMatch`, the second reader of a game, which replays its events
with a trick rule of its own; here it runs beside the game.

Players and administrators:

**Challenges** - player-social: friend requests, blocks, challenges, and acceptance under the advisory
lock, which pairs the two oldest accepted challenges of four free players; `CreateMatch` is the game
anybody may start beside it.

**Accounts** - users and registration webhooks, player sign-up and provider links: a delivered event is
stored, checked and turned into a user in separate steps, any of which may die, and may be retried.

**PlayerSessions** - player-auth for one player: sign-in by password or provider, rotation, sign-out,
reset links; **Sessions** - the same of the panel (auth, admins): two calls that revoke are transactions
of two statements, a rotation is claim, reread and issue, with the reuse grace.

**Routes** - what each controller's decorators ask (permission codes, guards), as data; **Staff** - EXTENDS
Routes: admins, roles, and the guard with its cache: `Arrive`, `ReadGrant`, `StoreGrant`, then a handler
whose check and write are two steps, then the eviction of cached grants.

**Engagement**, with **Animations** and **Lessons** that EXTEND it: notices, the early-access list and
membership; purchase, entitlement and wearing; progress through a lesson.

**Images** - storage and every handler with a picture: `Store` (file), `Register` (row), `Write` (the
column), `DeleteRow`, `DeleteFile`, failing at any of them, and the sweep `FindOrphan`.

**Settings** - the table, the copy, and the two sides of the await between reading and keeping it.

**Calls** - the mark of an idle call. **MC...** give the constants values; **MCDesk** composes Images,
Catalogue, PayoutMethods, Orders, Settings and Ledger, **MCSocial** Challenges, Animations and Lessons (and
so Engagement), **MCAccess** Staff and Sessions, **MCPlayers** Accounts and PlayerSessions, **MCMatches**
Progress.

The theorems are in eight modules that extend what they prove about: **Payouts_proofs** (Payouts, Tracker),
**Deposits_proofs**, **Entries_proofs** (Entries, Results), **Tournament_proofs** (Bracket), **Players_proofs** (Accounts,
PlayerSessions, the game they play: Spades, Matches, Progress, and their features: Challenges, Engagement, Animations, Lessons), **Access_proofs** (Staff, Sessions), **Desk_proofs** (Settings, Images, PayoutMethods, Ledger, Catalogue,
Orders) and **Sums_proofs**, lemmas about **Sums**, the sum of a function over a finite set. A component that a composition steps beside others has a specification of its own
(`SettingsSpec`, `ImagesSpec`, `MethodsSpec`, `OrdersSpec`, `SessionsSpec`, `StaffSpec`, `AccountsSpec`,
`PlayerSessionsSpec`, `LedgerSpec`, `CatalogueSpec`, `SocialSpec`, `EngagementSpec`, `AnimationsSpec`, `LessonsSpec`, and `ResultsSpec`, which covers Entries as well and either
kind of tournament, bracket or older), which the theorems are about; every step of a composition is one component's step with the
variables of the others unchanged, so what holds under the component's specification holds in the composition.

How they meet: Payouts, Deposits, Orders, Entries, Bracket and Animations each have the wallet as their own
variable, take a ledger entry as one step and represent the others by an action that moves it (`OtherEntry`,
`Chargeback`); Ledger shows that step's inside, Custody is the abstract view of one use of it. Matches is the
detailed view of what Bracket calls `EndMatch`; Entries ends where Bracket's `Init` begins; PayoutMethods
decides the eligibility that Payouts reads, Settings the freeze; Engagement's tier decides what Animations
lets a player wear and Lessons what he may begin.

## 4. Runs, bounds and fairness

| Run | Shows | Instance and why it is enough |
|---|---|---|
| payouts_race | the record of a withdrawal, of its payout, of the ledger and of Stripe agree, and what the pages show is true of them (`ShownIsTrue`); nothing released is paid; wallets are conserved; Custody is implemented | one withdrawal and one prize, two overlapping `process` calls, a debit by another feature that can take the wallet below zero. Two workers produce the stale recovery against a slow call, and the pairs approve/cancel/cancelOwned against it |
| payouts_lost_answer | violation: a payout is cancelled after Stripe accepted its transfer | the same instance |
| deposits | a payment is credited exactly once and, under fairness, eventually; ledger, status and Stripe agree when notices come one at a time (and in order) | one deposit of two tokens (so that partial refunds exist), starting in debt or clear, three delivery regimes, one crash; where notices keep their order, a second `create` of the same deposit overlaps the first and attaches its checkout late (`SecondRepeats`) |
| entries | a held place is paid, refunds return what was taken, no overbooking, one draw; results by hand: awards and wallets agree, one sheet decides (`ResultsStand`) | two players entering three times between them, two administrators, fees 0 and 1, sizes 1 and 2, one chargeback; or an older tournament of two players, pool 1, one dispute of it or of another tournament, two sheets at once |
| bracket | prizes within the pool, wallets hold the prizes, the prize shown is paid (`PrizesAreReal`); a disqualified player is not paid, a held prize has a reason (`WithheldForReason`); settled means decided, the bracket moves on (`BracketReachesItsEnd`) | four teams, pool 11 (odd shares), three cases (two on one player, one by match reference), two administrators, one correction, a debt of one |
| matches | cards, tricks and scores over whole hands, one event per version, the end of a game, reveals against blind nil, achievements read from the events | eight cards of three suits, two per hand, two hands, two shuffles; one sleeper, one peeker, one suspect; ties and two penalties at once occur. The replay runs in behaviours without reveals and rulings, which leave no event |
| access | a super administrator remains; what the guard answers follows the role; one token of a session rotates; a changed password ends the others | two administrators seeded and one to create, two roles, two clerks, three commits; one owner, two sessions, three tokens. Write skew needs two decisions, a stale grant one read, one change and one request after it |
| players | a stored event and its user agree; the last decision on a user stands; a reset ends sessions, tickets work once | one user and one to be made, one event delivered and retried by two workers; two sessions, three tokens, two tickets |
| social | challenges seat nobody twice; blocks part; a member keeps what he was given; what is worn is owned and paid; lessons in order | two friends, or four with the four challenges that can be paired two ways; two members, two addresses; three animations of one category; three sections |
| desk | pictures, variants, default account, destination, orders, settings, ledger chains | two calls at a time. Pictures: three assets, two faults, three pairs of the six kinds of row. Orders: a claim and a gift competing for the last unit, and a reward. Settings: the freeze and the one key that is copied elsewhere, three saves. Ledger: a fee, and two batches in opposite orders |
| desk_sweep | violation: the sweep deletes an administrator's avatar | the same |
| desk_opening | violation: an initial balance is in no ledger row | the same |

Every passing run is exhaustive. Symmetry is used for workers, administrators, callers, players of
Entries, assets of Images, and in Bracket for the two teams nobody accuses (the draw pairs them with each
other and corrections name them alike); never in a run with a liveness property. Bounds are constants and
guards: `MinBalance` and `MaxBalance` (Payouts), `MaxDebt` (a chargeback's size), `MaxCrashes`, `notices`
and `handlers` (Deposits), `MaxAttempts` and `MaxEntries` (Entries), the set `Requests` (Bracket's
corrections), `MaxHands` (Matches), `MaxChanges` (Staff), `MaxPassword` (Sessions), `MaxPlace` (Catalogue),
`MaxVerdicts` (PayoutMethods), `MaxSaves` (Settings), `MaxAdjustments` (Ledger), `Faults` (Images), and the
sets of ids (sessions, tokens, tickets, purchases, challenges, games), which run out. `CHECK_DEADLOCK FALSE`
everywhere: orders are finished, tournaments end and bounds are reached, and the code may then stop. In MCDesk
and MCSocial the operators `OnlyDefaults`, `OnlyOnboarding`, `TwoOfThem`, `FewEndings`, `PlayerOrVip` and
`NeighbourJoins` keep a part to the steps that one of its properties can tell apart, and in MCEntries `OlderBounds` does so for older
tournaments, whose edits and cancellations the other behaviours already interleave.

The instances are small because the state of each concurrent call multiplies them. Two callers show
every pairwise race; the invariants relate one row to its own ledger rows, so a third caller or a second
row adds states and no new pair of steps. What two rows share, the wallet and the stock, is in
every instance that has it (prize and withdrawal, claim and gift, two players of one tournament).

Fairness is assumed once, `Fairness` of Deposits (in `FairSpec`, and in `MCSpec`, which bounds the second caller): Stripe redelivers an unacknowledged notice
(`Deliver`, its documented retry policy) and a handler that does not die finishes (`Progress`). Death of
a handler is not excluded: at most `MaxCrashes` handlers die, and each leaves its event RECEIVED for
ever, so `PaidIsCredited` holds only because Stripe sends more than one settlement notice. Nothing else
in the code is driven by a scheduler: an abandoned game or an unapproved payout may wait for ever, and no
liveness is claimed for them. Bracket's `BracketReachesItsEnd` says instead, as an invariant, that a
tournament never waits for something no one can still do.

## 5. What is proved

A theorem is `XSpec => []P`, or an action property, for every value of the constants that the named ASSUMEs
admit. Every proof has one shape: an invariant `XInv`, which TLC has checked on the component's run, implies P, holds
initially, and is kept by every step, one lemma per action; the last step combines the three by PTL. `XInv` is P
with what P needs to be inductive, and that is where the argument lies:

**Payouts** (`Payouts_proofs`). `PayoutsInv` is
`TypeOK /\ RequestAndPayoutAgree /\ ReleasedIsNeverPaid /\ RecordMatchesTransfer /\ Bookkeeping`. None of the three
safety invariants is inductive alone. `cancelOwned` overwrites the payout's status unconditionally, so
`ReleasedIsNeverPaid` needs that a request under review has a payout under review (`RequestAndPayoutAgree`). A worker
that comes back from Stripe marks a payout it may no longer own, which is harmless only because its job has a
transfer (`Bookkeeping`, first part); a failed payout that is approved again is not paid because it keeps its
transfer id, which it has only when PAID or released (`Bookkeeping`, last part). Theorems: `TypeCorrect`,
`Agreement`, `NoPaymentAfterRelease`, `RecordIsTrue`; the action properties `CancelSafe` (`CancelOnlyAtRest`) and
`TransferKept` (`TransferIsRemembered`: an id is set once, and PAID is left only on the transfer's return, whose
notice exists only after `transfer` became "returned"); `Refinement` (`ImplementsCustody`: under the invariant
every step is a step of Custody or a stutter); and `Conserved` (`Conservation`), whose sums over withdrawals change at one
withdrawal per step: `SumPut` and `SumChange` of Sums_proofs say by how much.

**Tracker** (`Payouts_proofs`). `ShownAlwaysTrue` (`ShownIsTrue`). `TrackerInv` adds to `PayoutsInv` what the stamps say of
the status (`StampsFit`): `paidAt` is set exactly when the payout is PAID, `blockerReason` exactly when it is under review
or cancelled; a transfer id outside PAID means that the transfer came back; what is PROCESSING has `processedAt` and no
transfer id. A status moves only along the edges of `StatusMoves`, so each view needs to be looked at once per
edge and not once per handler. That the cards of two pages count the same payouts is a fact about sets of payouts; the
steps done on the rail are counted by `CountSteps`.

**Sums** (`Sums_proofs`). `SumOver` is the community modules' fold. The library's induction theorems cannot be
used (a predicate parameter), so each induction goes by a smallest counterexample: `SmallestSet` and
`SmallestNumber` from `WFMin`, then existence and uniqueness of the recursive function inside the fold, then what a
sum does when one point changes (`SumPut`, `SumChange`), when the set is parted (`SumSplit`), and that a sum over a part is
no more than the whole (`SumWithin`).

**Deposits** (`Deposits_proofs`). `CreditedExactlyOnce` under any number of settlement notices handled at once rests on the
claim of `creditedAt` alone, and on `NoticesAreMeant`: a notice that takes money back was sent only
after Stripe took some. `RowTellsLedger` adds, for notices handled one at a time (`OneHandler`), that what a handler read of
the row is still the row when it writes (`ReadIsCurrent`); this is exactly what fails with two handlers.
`BooksAlwaysAgree` (`BooksAgree`) needs the whole sequence of notices, and `BooksInv` says three things of it. The
notices tell what happened at Stripe, all of it and in its order (`StripeTells`): a payment before what is taken of it, a
dispute before its end, and a refund either before the dispute, both fitting into the amount, or after the dispute was won.
A notice ever claimed had all earlier ones answered (`ClaimedInOrder`). And the row follows the notices
(`RowsFollow`): what is refunded or disputed was told, what was told is refunded or disputed. A handler that dies
answers a notice without having acted on it; since Stripe tells of each payment and each won dispute twice, one such loss
per deposit changes nothing (`AtMostOneLost`; `TakingFindsCredit`, `RefundFindsNoDispute`, `DisputeFindsRoom` are what a
handler may rely on then). Two losses do, and so does a late `attachCheckout`; the property leaves out just those deposits (section 6).

**Orders** (`Desk_proofs`). `OrdersInv` keeps the records (`RowsAgree`, `CallsKnow`, `ReadsHold`: without
overlapping edits what an administrator's call read still holds), an exact account of the wallet and a bound for the
stock. `OrdersBacked` (`OrdersAreBacked`) and the action property `OverStays` (`OverIsOver`).

**Entries and results** (`Entries_proofs`). Both money invariants rest on one figure per player, `Held`: the wallet
plus the fees kept. Every registration and every refund leaves it as it is, whoever else is at work on the player, and
only chargebacks and prizes move it (`Accounted`). That it is a fee given back once and not twice is `CancelFits`: what a
withdrawal under way has refunded and not committed, nobody has given back, and whoever gets the fee of his own place is
marked to lose the place; two that would refund one player meet at his wallet's lock (`RefundsApart`). In
careful hands there is one change of the tournament at a time (`OneAtATime`) and what a call read of it still holds
(`ReadStillHolds`), so a place and its fee go together. `ResultsInv` adds the sheet: nothing is awarded before
COMPLETED (`NothingAwarded`), and a sheet names players of the roster it was drawn up for (`SheetFits`). Theorems: `ResultsInvariance`,
`EntriesAlwaysBacked` (`EntriesAreBacked`), `ResultsAlwaysStand` (`ResultsStand`), the action property `AlwaysDrawnOnce`
(`DrawnOnce`).

**Bracket** (`Tournament_proofs`), for a draw of any number of rounds. `PrizesInv` has the draw, the money and the settlement.
The draw (`DrawHolds`) needs no induction over its tree: that the two sides of a game differ follows from the round
below it, where no team wins twice, and that a running bracket has a game to end (`SomeGameIsPlayed`) from the earliest
round with a game that is not over. Money: only the current settlement's awards are held or paid
(`OnlyCurrent`), so all that is owed and credited is one award per player, and the shares of at most two places are
within the pool whatever the odd cents (`GivenWithinPool`); a wallet is what is paid now less what banks took
(`WalletsHold`), which is why a correction may take back from a wallet that is already empty. `ReasonsInv` is about verdicts
carried out at once: at most one is under way (`VerdictsFit`); a held prize has a case (`HeldForReason`); and a player
disqualified in time carries it in his team while the tournament runs, while after a final that his team lost his
award is neither paid nor held (`VerdictsCount`). The last needs that what a final awarded can only be taken back by a
correction, so that a tournament whose final was played has a settlement (`SettledInOrder`). Theorems: `PrizesInvariance`,
`BracketInvariance`, `PrizesAlwaysReal` (`PrizesAreReal`), `BracketAlwaysReachesItsEnd` (`BracketReachesItsEnd`),
`WithheldAlwaysForReason` (`WithheldForReason`).

**Accounts and sessions of players** (`Players_proofs`). `ResetsAreFinal` (`ResetIsFinal`) needs that a sign-in between
its session and its first token has that session to itself (otherwise a second live token could appear), and that a
ticket which has done something is consumed, and so is a reset under way counted once. `AccountsAlwaysAgree`
(`AccountsAgree`) needs `OneWorkerEach`: unless an event is contested, one call works on it, and only while it has no user.

**The game** (`Players_proofs`), for any deck, any shuffles of it, any number of hands and of calls under way. The rules
are functions from one snapshot to the next, so the argument is one lemma per function (`BidKept`, `PlayKept`,
`FinishKept`, `ForfeitKept`, `TimeoutKept`, `OpeningKept`): each takes a snapshot that is `GameKept` to another. `GameKept`
is stronger than the properties in four places. That no card is lost needs that none is twice in a hand, in two hands or on
the table (`CardsApart`) and that each seat holds a card less per trick taken, and one less if it has played to this one
(`HandsCounted`); the count over the deck then follows (`DeckAddsUp`). That the seat to play has not played, and that
after three cards the other three have, needs that the seats on the table are those just before the turn
(`TurnKept`, `PlayedBefore`). The winner is the best card because the fold over the trick keeps the best so far
(`BestStays`, `BestTakes`). A score less its bags is a multiple of a trick's points, as are every contract, nil and
penalty (`ScoreKept`). What `filter` keeps, and that the recursion has a solution at all, is proved from the least length
at which it would fail (`KeptExists`, `FilterKeeps`).
`TableInv` adds the server: the log is exactly the versions, and a version that a disqualification has read is the
current one when its write is let through, since every later number is taken (`RulingKeeps`). `RevealsPrompt`
is about reveals answered before their hand is over: what the row says, the player has seen. Theorems: `TableInvariance`,
`GameAlwaysByTheRules` (`GameByTheRules`), `EventsAlwaysTell` (`EventsTellTheGame`), the action property
`BlindNilAlwaysUnseen` (`PromptBlindNilUnseen`). `AchievementsAlwaysTell` (`AchievementsTellTheGame`) is about
`ProgressSpec`, whose steps are steps of the game (`WatchedIsGame`): the replay holds the engine's bids, tricks
and score (`ReplayFollows`), and its rule for a trick, though written another way, finds the engine's winner (`SameWinner`).

**Friends and challenges** (`Players_proofs`). `SocialAlwaysAgrees` (`SocialAgrees`). `SocialInv` says what each call under way
holds (`ThreadKnows`). An acceptance has looked for running games under the lock and writes under it, and one call at a time
holds it: until it writes, its challenge and the one it found can be matched (`Matchable`: without a game, their players in no
running game that challenges made), so the new game meets no other. `CreateMatch`, which asks nobody, makes a game that is not
`paired`, so it disturbs none of this. A call that looked for a block and has not written is marked late by the block, unless
there is none (`Unblocked`); whatever it then writes is for a pair in `unlooked`. That a game has four players is a
cardinality of two disjoint pairs (`TableOfTwoPairs`).

**Standing, wardrobe, lessons** (`Players_proofs`). `StandingAlwaysKept` (`StandingIsKept`): a call that joins the early-access
list as its row's owner still has a row, or was displaced (`JoinerKnows`); one that looks at a membership holds the tier of now
or is marked old (`LookerKnows`). `WardrobeAlwaysHeld` (`WardrobeIsHeld`): what was never given was never paid for nor worn
(`NothingUnowned`), and a call that puts something on takes off everything worn of its category, unless another's write
marked it (`DresserKnows`); the wallet's account is a sum that a purchase changes at one animation (`SumChange`).
`LessonsAlwaysInOrder` (`LessonsInOrder`): what a call read is the row of now or is marked old, and it goes at most one
section further than it read (`StudentKnows`); that the player was told stays, since no step takes a notice back (`NotesStay`).
The wardrobe and the lessons are proved beside every step of the membership, whose tier they read.

**Sessions, admins and roles of the panel** (`Access_proofs`). `TokensRotateOnce` (`OneLiveToken`), `OldPasswordsLeave`
(`PasswordEndsOthers`: `CallsFit` says that no call holds a later password than the row's). `NeverLockedOut` (`SuperAdminRemains`)
needs that a decision under way leaves somebody besides its target (`Spares`) and that no other is under way.
`GuardFollows` (`AccessFollowsRole`) needs that nothing is cached or about to be for an account that does not exist yet,
since its first grant is read then.

**Settings, pictures, payout accounts** (`Desk_proofs`). `SavesAreSeen` (`SaveIsSeen`): each call's reading is the table
unless it is marked late. `PicturesAreKept` (`PictureKept`): a picture in the making is its handler's alone
(`OwnPicture`), what a call is about to delete no row shows any longer (`OldPicture`), and a file goes
after its row (`RowGoesFirst`); no two rows show one picture. `OneDefaultAlways` (`OneDefault`): a call that clears
the other defaults has locked, will lock, or could not see every account that is connected (`ErrandKnows`), so when it sets
its own there is no other. `PaidAccountsAreVerified` (`PaidWhereVerified`): every verdict a call, the user's row or
the mail carries is one Stripe gave for that account (`StripeSide`).

**Ledger** (`Desk_proofs`). `LedgerIsAChain` (`LedgerChains`). `Chain(s, from, to)` says that the rows `s` lead from one
balance to another without a gap; lemmas: a chain grows by a row that begins where it ends, two that meet join, and what
the backfill writes for an account leads from nothing to what it read there. The invariant is about uncommitted work:
what a transaction has written of a wallet it has locked leads from the committed balance to the one it sees, less the
entry whose row it is still to insert (`ClerkFits`, `Untold`); no two transactions hold one wallet, so a commit disturbs
no other's chain. For the script, an account without rows still holds what was read of it (`ScriptKnows`), or the opening
row would begin at the wrong balance. No sum over the rows is needed: each row is tied to the one before it.

**Catalogue** (`Desk_proofs`). `VariantsAlwaysComplete` (`VariantsComplete`). What a transaction has inserted and not
committed no committed row has (`EditFits`) and no other transaction (`Apart`): the unique index makes the later insert
wait, so a commit adds names that are still free. A place read under the product's lock stays behind all others
until its row is committed, since the product is locked by one call at a time. That a product has as many
variants as were answered for is a cardinality; that their places are as many is `ColumnCount`, by a bijection.

**Assumptions.** Sums need finite sets (`FiniteAssumption`, `OrdersFinite`, `IsFiniteSet` of tickets, admins, corrections and, in `PlayersAssumption` of Entries, players): tables are finite.
Ids are positive or differ from the mark of none (`SessionsAssumption`, `PlayerSessionsAssumption`, `NoPayoutAssumption`,
`NoOrderAssumption`, and in Results `NothingAssumption` of a dispute), as database ids differ from null. `ImagesAssumption`, `MethodsAssumption`,
`SettingsAssumption` and `CatalogueAssumption`, those of the four features, and `LedgerAssumption` of the script, say that `Free`, the mark of an idle call, is none of the stages of a call, an artefact of the
models. `SettingsAssumption` also says that defaults are legal values, and `StaffAssumption` that the seed makes a super administrator, as the registry and the
seed do. `DrawAssumption` says what `start` makes sure of: a power of two of
teams, each drawn once, of two players each, nobody in two; `CasesAssumption` that cases are about players of the tournament,
`NobodyAssumption` that the marks of an idle call and of an open game are no case and no team. `DeckAssumption`: a card is a
suit and a natural rank, a shuffle holds each card of a deck of four hands. `RulesAssumption`: bonuses and penalties are
multiples of what a trick is worth (100, 200, 10 and 100 of 10 in `SPADES_RULES_V1`). TLC evaluates all of them.

**Only model-checked.** Liveness (`PaidIsCredited`): under fairness, out of the prover's reach, as are ENABLED and induction over
data. No module declares a RECURSIVE operator, so each can be proved about as it stands.

## 6. Where code and documents disagree

Three runs end in a counterexample to something the repository says of itself; PROJECT.json quotes it:
`CancelledWasNotSent`, `SweepSparesAvatars`, `LedgerExplainsBalance`. The following were met while modelling,
without a run of their own. Where a property has an exception for them, its name follows in brackets.

Withdrawals and payouts
* `payouts.service.ts:417` says an in-flight request must not pass a freeze; the freeze is read before the
  claim and not again.
* The rail's `currentStep` counts the steps done (`payout-tracker.serializer.ts:167`: "the furthest completed
  step"); it names another step when the recipient is no longer verified, or when the claim was given back by
  another call before `markPaid`. [`RailIsTrue`, by its premises]
* The sum readyToSend leaves out the method, which `payout.serializer.ts:74-76` says it shares with
  `isPayable`; neither looks at the freeze. A returned transfer approved again keeps its transfer id and is
  offered no action, and FAILED payouts count as owed although the tokens are back. [`ButtonsWork`,
  `CardsAddUp` name both]
* `payout-status.ts:22` calls PAID terminal; `markFailed` takes PAID to FAILED.
* A transfer.failed that arrives before `markPaid` has recorded the transfer id (`payouts.service.ts:762`) is
  acknowledged without effect, and the payout becomes PAID.
* `transactions.repository.ts:101-103` says a credit needs no floor; the floor of a credit is zero, and a
  wallet below zero refuses it. Refunds (`tournaments.repository.ts:844`: "the only way here is a
  vanished user"), prizes and deposit credits abort for a player in debt.
* Two onboardings can create two Stripe accounts and leave the destination row naming the abandoned one; a
  stale or reordered account.updated overwrites a newer one (the gate without its reference would pay there).
* `payout-methods.repository.ts:107-109`: a count that did not see an account connected meanwhile, or a clear
  that began before it, leaves two defaults. [`OneDefault`]
* `setVerified` may verify a reference that was replaced after it was read.

Deposits
* Two dispute notices at once both read the old sum and debit twice (`player-deposits.repository.ts:221`;
  the test at :467 of its spec expects once). [`BooksAgree`: one at a time]
* A late `funds_withdrawn` after a won dispute takes the tokens for good. [`BooksAgree`: in order]
* `attachCheckout` names only the id in its WHERE clause: the slower of two overlapping `create` calls overwrites
  SUCCEEDED, and the payment intent by which a dispute is found. [`BooksAgree`: `reattached`]
* `restoreDispute` does not look at `creditedAt`, and `isPositive` of a disputed amount of zero is true
  (`player-deposits.repository.ts:267-275`): when both settlement notices were lost with their handlers, a won
  dispute shows SUCCEEDED for a deposit that was never credited. When both notices of a won dispute were lost, a
  later refund writes over DISPUTED. [`BooksAgree`: `AtMostOneLost`]
* A webhook whose handler meets an unexpected fault "must surface as a 5xx so the sender retries", but the
  redelivery is answered DUPLICATE.

Orders, catalogue, storage
* `shipments.module.ts:395` and `player-rewards.repository.ts:274` overwrite a cancelled and refunded order
  with what an administrator's form had read. [`OrdersAreBacked`, `OverIsOver`: without overlap]
* Of two overlapping fulfilments the second replaces the stored code; both are answered OK.
* The comment "Stock is NEVER decremented" in merchandise is out of date; a generated SKU that collides under
  concurrency answers 409.
* `uploadAvatar`'s catch deletes the new asset after its commit if reading back fails [`PictureKept`];
  `deleteAsset`'s comment promises a sweep of files, and `findOrphans` reads only rows; it omits tax
  documents too. Recording a new tax file keeps an ACCEPTED status.

Tournaments, games
* The edit form may set CANCELLED without refunds (`tournaments.service.ts:225`) and `cancelWithRefunds` reads
  the registrations without a lock (`tournaments.repository.ts:815`), so that a place taken meanwhile keeps its
  fee in a cancelled tournament. [`EntriesAreBacked`: careful practice] The form may also set COMPLETED.
* `submitResults` checks pool and roster before the lock (`tournaments.service.ts:448-469`), so a player removed
  meanwhile is refunded and still paid; a stale edit form can put COMPLETED back to IN_PROGRESS and let a second
  sheet in [`OneSheetDecides`: careful practice]. The comment at :477-480 says it creates a payout and leaves
  balances alone; the repository credits the wallet. Any open dispute, of another tournament too, holds such a
  prize, nothing then releases it, and it is shown as won meanwhile. [`HeldForACase`]
* `removePlayer` works while the bracket runs (`tournaments.service.ts:375`): the player is refunded, the team
  plays on.
* A team disqualified between two games may win the next and be paid (`tournament-progression.service.ts:247`).
* A case with a match reference and no tournament id holds a prize and is never released
  (`disputes.service.ts:127`); the last open case of a running tournament sets `settledAt`
  (`tournament-progression.service.ts:524`).
* A late reveal lowers `revealedHandNumber` (`matches.service.ts:318`), and blind nil may be bid on a hand
  already shown. [`PromptBlindNilUnseen`: prompt reveals]
* `analyzeMatch` passes over timed-out turns, so achievements of such games are wrong.
  [`AchievementsTellTheGame`]

Players
* `MatchesService.create` never asks whether a player is already playing; `resolveChallenge` writes after an
  unlocked read and can overwrite MATCHED; an accepted challenge of a busy or blocked pair, waiting as the
  oldest, makes the other acceptances throw until it expires.
* Login verifies on the old password and opens its session after a reset has ended all [`ResetIsFinal`]; two
  live reset links claimed at once can deadlock; no code makes verifyEmail tokens.
* Suspend, activate and `attachCredential` write a status over one decided after they read
  [`StatusIsLastDecision`]; update edits a removed user; a retry by a missing event id creates the user; of
  two retries the loser marks the winner's event FAILED [`EventTellsTheUser`]; GHL's createEvent has no
  handling of a duplicate.
* `expiresAt` of a membership is never written; lowering the tier leaves it ACTIVE with the old one; a
  membership() that read before a cancellation resurrects it; a racing join takes an early-access address
  over. [`StandingIsKept`] Two concurrent equips leave two animations worn. [`WardrobeIsHeld`]
* Revisiting a completed lesson sets it IN_PROGRESS; a stale advance can null `completedAt` or lower
  `currentSection`; two starts reset it. [`LessonsInOrder`]

Administration
* The rails (`roles.service.ts:102`, `:52`, `admins.service.ts:264`, `:279`) are counts followed by updates:
  two deactivations at once, or an edit of the SUPER_ADMIN role's permissions or name, lock everybody out
  (`constants/roles.ts:2`: "must never be locked out"). [`SuperAdminRemains`: careful practice]
* A grant being read when its role changes is stored after the eviction (`admins.service.ts:206` says a
  change is immediate) and served until it expires. [`AccessFollowsRole`]
* A sign-in verified on the old password opens its session after `revokeAll` [`PasswordEndsOthers`];
  `admins.update` sets a password without ending any session.
* MODERATOR lacks users.view although roles.ts says "Can manage users"; settings.read and security.read guard
  no route.
* Settings: a load that read before a save stores its copy after invalidate, so that a freeze is not seen until
  the next write ("a save is visible on the next request", `settings.service.ts:48-52`; "an emergency stop
  that takes effect on the next restart is not an emergency stop", 153-155; `FreezeIsSeen` states it); a save
  that committed and lost its answer keeps the old copy; an unfreeze compared with an old copy changes nothing.
  [`SaveIsSeen`]

## 7. What is not modelled

Validation of single requests, formatting, list queries and filters, CSV, DTOs, the statistics and serializers
other than those of payouts, cryptography
(signatures, tokens, encrypted codes), the exchange with OAuth providers and e-mail gateways, logging. Within
modelled components: saved payment methods, entry tokens and the views of a game, duplicate creation of a
game, placements shown to players after a correction, an administrator's edit of a stock figure (an absolute
overwrite, in Orders' terms a new initial stock). The leaderboard is Elo in floating point and streaks over calendar
weeks: pure functions over real numbers, out of TLC's reach in any honest form. Claims review and identity
verification are one conditional write each. PROJECT.json names the status of each component and the reason.

Each property is checked within the regime or beside the history it names; nothing is claimed for more than
one process in Settings and Staff (each process has its own cache, and the code has no way to tell the others).

## 8. Plan

The modelling plan is done, and every safety property that a run checks is a theorem. What remains with TLC alone is
liveness.
