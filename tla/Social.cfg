SPECIFICATION Spec
CONSTANTS
  ann = ann  bob = bob  cal = cal  dee = dee  t1 = t1  t2 = t2  Free = Free
  Players = {ann, bob, cal, dee}
  Acquainted <- MCPairs
  ChallengeIds = {1, 2, 3, 4}
  GameIds = {1, 2}
  Threads = {t1, t2}
  Members = {ann, bob}
  e1 = e1  e2 = e2
  Addresses = {e1, e2}
  LeadRows = {1, 2}
  Tiers = {"PLAYER", "PREMIUM", "VIP"}
  Topics = {"welcome", "joined", "lesson"}
  Requests = {t1, t2}
  card = card  skin = skin  crown = crown
  Buyer = ann
  Catalog <- MCCatalog
  PurchaseIds = {1, 2}
  Wallet0 = 3
  Student = ann
  Sections = 3
  RequiredRank = 1
  Rank <- MCRank
  Versions = 2
SYMMETRY ThreadSymmetry
INVARIANTS SocialAgrees StandingIsKept WardrobeIsHeld LessonsInOrder
CHECK_DEADLOCK FALSE
