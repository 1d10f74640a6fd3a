SPECIFICATION Spec
CONSTANTS
  u1 = u1  u2 = u2  m1 = m1  m2 = m2  e1 = e1  w1 = w1  w2 = w2  Nobody = Nobody  NoEvent = NoEvent
  Users = {u1, u2}
  Emails = {m1, m2}
  Events = {e1}
  Workers = {w1, w2}
  AddressIn <- MCAddressIn
  FirstStatus <- MCFirstStatus
  PSessions = {1, 2}
  PTokens = {1, 2, 3}
  Tickets = {1, 2}
  Hands = {w1, w2}
SYMMETRY WorkerSymmetry
INVARIANTS AccountsAgree ResetIsFinal
CHECK_DEADLOCK FALSE
