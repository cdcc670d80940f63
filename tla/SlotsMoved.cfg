SPECIFICATION Spec
CONSTANTS
  NumSlots = 2
  Wallets = {w1, w2}
  Emails = {e1}
  Challenges = {c1}
  Requests = {r1, r2}
  None = None
  MaxNonces = 3
  c1 = c1
  e1 = e1
  r1 = r1
  r2 = r2
  w1 = w1
  w2 = w2
PROPERTY MovedFromSlotIsFree
