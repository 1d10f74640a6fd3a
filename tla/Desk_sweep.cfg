SPECIFICATION Spec
CONSTANTS
  k1 = k1  k2 = k2  Free = Free
  cup = cup  prize = prize  goods = goods  staff = staff  her = her  form = form  i1 = i1  i2 = i2  i3 = i3
  Shown = {cup, prize, goods, staff, her, form}
  Kind <- MCKind
  Assets = {i1, i2, i3}
  Handlers = {k1, k2}
  Faults = 2
  shirt = shirt  mug = mug
  Generated <- MCGenerated
  Typed = {"S", "M"}
  MaxPlace = 2
  Editors = {k1, k2}
  x1 = x1  x2 = x2  z = z
  Methods = {"STRIPE_CONNECT", "ZELLE", "CARD"}
  StripeAccounts = {x1, x2}
  Handles = {z}
  Tellers = {k1, k2}
  MaxVerdicts = 1
  claim = claim  gift = gift  reward = reward  card = card  a1 = a1  a2 = a2
  Claims = {claim}
  Gifts = {gift}
  Redemptions = {reward}
  Items = {shirt, card}
  Item <- MCItem
  Cost <- MCCost
  Stock <- OneOfEach
  Unlimited = {}
  Opening = 3
  MaxDebt = 1
  Callers = {k1, k2}
  Admins = {a1, a2}
  NoOrder = Free
  Overlaps = {TRUE, FALSE}
  Defaults <- MCDefaults
  Legal <- MCLegal
  Junk = "junk"
  Savers = {k1, k2}
  MaxSaves = 3
  him = him  fee = fee  oldfee = oldfee  win = win  won = won
  Holders = {her, him}
  Elders = {him}
  OldFees = {oldfee}
  FeeOf <- MCFeeOf
  Batches <- MCBatches
  Openings = {0, 1}
  Clerks = {k1, k2}
  Adjustments <- MCAdjustments
  MaxAdjustments = 1
PROPERTY SweepSparesAvatars
CHECK_DEADLOCK FALSE
