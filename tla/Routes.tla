------------------------------- MODULE Routes -------------------------------
(***************************************************************************)
(* Which request may reach which handler: one definition per controller,   *)
(* a table of what the route does to shared rows and what its decorators   *)
(* ask of the caller.  A route of the panel names permission codes         *)
(* (@RequirePermissions), and only authentication when it names none; a    *)
(* route of the players' site is @Public() to the panel's guards and names *)
(* a guard of its own: the player's session, and for a write the           *)
(* double-submitted token or the origin of the page.                       *)
(***************************************************************************)

PERMISSION_CODES == {"dashboard.view", "users.manage", "users.view", "tournaments.manage",
  "rewards.manage", "payouts.manage", "payouts.view", "admins.manage", "roles.manage",
  "activity.view", "security.manage", "security.read", "settings.manage", "settings.read"}

ManageCodes == {"users.manage", "tournaments.manage", "rewards.manage", "payouts.manage",
  "admins.manage", "roles.manage", "security.manage", "settings.manage"}

\* The seeded grants of the four system roles.
ROLE_PERMISSIONS ==
  [SUPER_ADMIN |-> PERMISSION_CODES,
   ADMIN       |-> PERMISSION_CODES \ {"admins.manage", "roles.manage", "security.manage"},
   MODERATOR   |-> {"dashboard.view", "users.manage", "tournaments.manage", "activity.view"},
   SUPPORT     |-> {"dashboard.view", "users.view", "payouts.view", "activity.view",
                    "settings.read", "security.read"}]

-----------------------------------------------------------------------------
Reads(area, ops, needs)  == {[area |-> area, does |-> "reads", op |-> o, needs |-> needs] : o \in ops}
Writes(area, ops, needs) == {[area |-> area, does |-> "writes", op |-> o, needs |-> needs] : o \in ops}

AdminsController == Writes("admins", {"create"}, {"admins.manage", "roles.manage"})
  \cup Reads("admins", {"list", "show"}, {"admins.manage"})
  \cup Writes("admins", {"edit", "remove", "activate", "deactivate"}, {"admins.manage"})
AdminRoleController == Writes("admins", {"changeRole"}, {"roles.manage"})
RolesController == Reads("roles", {"list", "show"}, {"roles.manage"})
  \cup Writes("roles", {"create", "update", "remove", "replacePermissions"}, {"roles.manage"})
PermissionsController == Reads("permissions", {"list"}, {"roles.manage"})
AuthController == Writes("auth", {"login", "refresh", "logout", "logoutAll", "updateProfile"}, {})
AuthSelfController == Reads("auth", {"me"}, {}) \cup Writes("auth", {"changePassword"}, {})
SecurityController == Reads("security", {"sessions", "stats", "alerts"}, {"security.manage"})
  \cup Writes("security", {"revokeSession", "revokeAllOtherSessions"}, {"security.manage"})

UsersReads == Reads("users", {"list", "stats", "export", "show", "balance"}, {"users.view"})
UsersWrites == Writes("users", {"create", "adjustBalance", "update", "suspend", "activate", "remove"}, {"users.manage"})
TournamentsReads == Reads("tournaments", {"list", "stats", "show", "registrations"}, {"tournaments.manage"})
TournamentsWrites == Writes("tournaments", {"create", "update", "cancel", "remove"}, {"tournaments.manage"})
TournamentsDesk == Writes("tournaments", {"register", "removePlayer", "submitResults", "correctResult"},
                          {"tournaments.manage"})
PayoutsReads == Reads("payouts", {"list", "stats", "export", "historyStats", "history", "tracker",
                                  "trackerStats", "tournaments", "prizeDistribution", "show"}, {"payouts.view"})
PayoutsWrites == Writes("payouts", {"onboard", "approve", "process", "cancel"}, {"payouts.manage"})
StripeWebhook == Writes("payouts", {"webhook"}, {"signature"})

\* The desks an operator reads with payouts.view and works with payouts.manage.
DeskReads(area, ops) == Reads(area, ops, {"payouts.view"})
DeskWrites(area, ops) == Writes(area, ops, {"payouts.manage"})
ClaimsController == DeskReads("claims", {"list", "stats", "show"}) \cup DeskWrites("claims", {"approve", "decline"})
DisputesController == DeskReads("disputes", {"list", "stats", "show"})
  \cup DeskWrites("disputes", {"clear", "disqualify"})
PayoutMethodsController == DeskReads("payout-methods", {"list"})
  \cup DeskWrites("payout-methods", {"connect", "default", "verify", "remove"})
SponsorsController == DeskReads("sponsors", {"list", "show"})
  \cup DeskWrites("sponsors", {"create", "update", "remove"})
ShipmentsController == DeskReads("shipments", {"list"}) \cup DeskWrites("shipments", {"create", "update"})
TaxController == DeskReads("tax", {"documents", "thresholds"}) \cup DeskWrites("tax", {"create", "update"})
TreasuryController == DeskReads("treasury", {"list"}) \cup DeskWrites("treasury", {"create", "update", "remove"})
VerificationController == DeskReads("verification", {"list", "stats"}) \cup DeskWrites("verification", {"set"})

RewardsController == Reads("rewards", {"list", "show"}, {"rewards.manage"})
  \cup Writes("rewards", {"create", "update", "remove"}, {"rewards.manage"})
RewardFulfilmentController == Writes("redemptions", {"fulfill"}, {"rewards.manage"})
MerchandiseReads == Reads("merchandise", {"list", "show"}, {"rewards.manage"})
  \cup Writes("merchandise", {"create", "update"}, {"rewards.manage"})
MerchandiseWrites == Writes("merchandise", {"remove", "addVariant", "updateVariant", "removeVariant"}, {"rewards.manage"})
SettingsController == Reads("settings", {"show"}, {"settings.manage"})
  \cup Writes("settings", {"update"}, {"settings.manage"})
ActivityController == Reads("activity", {"list", "recent"}, {"activity.view"})
DashboardController == Reads("dashboard", {"stats"}, {"dashboard.view"})
HealthController == Reads("health", {"check"}, {})
WebhooksController == Writes("webhooks", {"register"}, {"signature"}) \cup Writes("webhooks", {"ghl"}, {"token"})
  \cup Reads("webhooks", {"events"}, {"security.manage"}) \cup Writes("webhooks", {"retry"}, {"security.manage"})

StaffRoutes == UNION {AdminsController, AdminRoleController, RolesController, PermissionsController,
  AuthController, AuthSelfController, SecurityController, UsersReads, UsersWrites, TournamentsReads,
  TournamentsWrites, TournamentsDesk, PayoutsReads, PayoutsWrites, StripeWebhook, ClaimsController, DisputesController,
  PayoutMethodsController, SponsorsController, ShipmentsController, TaxController, TreasuryController,
  VerificationController, RewardsController, RewardFulfilmentController, MerchandiseReads, MerchandiseWrites,
  SettingsController, ActivityController, DashboardController, HealthController, WebhooksController}

-----------------------------------------------------------------------------
Looks(area, ops)  == Reads(area, ops, {"session"})
Acts(area, ops) == Writes(area, ops, {"session", "csrf"})

PlayerAuthController == Writes("player-auth", {"register", "verifyEmail", "login", "requestReset", "resetPassword"},
                               {"origin"})
  \cup Writes("player-auth", {"refresh", "logout"}, {"csrf"}) \cup Writes("player-auth", {"oauthStart"}, {})
PlayerIdentityController == Writes("player-auth", {"oauthCallback"}, {"state"}) \cup Looks("player-auth", {"me"})
PlayerProfileController == Looks("profile", {"show"}) \cup Acts("profile", {"update", "avatar"})
PlayerSocialController == Looks("social", {"friends", "requests", "challenge"})
  \cup Acts("social", {"heartbeat", "befriend", "accept", "decline", "unfriend", "block", "unblock",
                       "challenge", "acceptChallenge", "declineChallenge", "cancelChallenge"})
MatchesController == Looks("matches", {"list", "show", "events"})
  \cup Acts("matches", {"create", "join", "revealHand", "command"})
PlayerTournamentsController == Looks("entries", {"dashboard", "mine", "hosted", "show"})
  \cup Acts("entries", {"host", "register", "withdraw", "cancelHosted"})
PlayerDepositsController == Looks("deposits", {"list", "show", "methods"}) \cup Acts("deposits", {"create", "cancel"})
PlayerWithdrawalsController == Looks("withdrawals", {"destinations", "list", "show"})
  \cup Acts("withdrawals", {"onboard", "create", "cancel"})
PlayerMerchandiseController == Looks("orders", {"list", "shipments"}) \cup Acts("orders", {"order", "cancel"})
PlayerRewardsController == Looks("rewards", {"list", "redemptions", "show"})
  \cup Acts("rewards", {"create", "cancel", "redeem"})
PlayerWalletController == Looks("wallet", {"wallet", "transactions", "show"})
PlayerOverviewController == Looks("overview", {"overview", "stats", "achievements"})
LeaderboardController == Looks("leaderboards", {"list", "me"})
AnimationsController == Looks("animations", {"list", "mine"}) \cup Acts("animations", {"purchase", "equip"})
EngagementController == Looks("engagement", {"notifications", "preferences", "search", "funnel", "membership"})
  \cup Acts("engagement", {"readAll", "read", "prefer", "lead", "cancelMembership"})
LearningController == Looks("lessons", {"list", "show"}) \cup Acts("lessons", {"start", "progress"})

PlayerRoutes == UNION {PlayerAuthController, PlayerIdentityController, PlayerProfileController,
  PlayerSocialController, MatchesController, PlayerTournamentsController, PlayerDepositsController,
  PlayerWithdrawalsController, PlayerMerchandiseController, PlayerRewardsController, PlayerWalletController,
  PlayerOverviewController, LeaderboardController, AnimationsController, EngagementController, LearningController}

-----------------------------------------------------------------------------
\* What the guard asks of a caller of a route of the panel.
Needs(area, op) == (CHOOSE r \in StaffRoutes : r.area = area /\ r.op = op).needs
=============================================================================
