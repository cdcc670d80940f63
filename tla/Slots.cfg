SPECIFICATION SlotsSpec
CONSTANTS
  NumSlots = 2
  Wallets = {w1, w2}
  Emails = {e1, e2}
  Challenges = {c1, c2}
  Requests = {r1, r2}
  None = None
  MaxNonces = 3
  RivalNonces = 2
  OneWallet = w1
  OneEmail = e1
  OneLink = c1
  w1 = w1
  w2 = w2
  e1 = e1
  e2 = e2
  c1 = c1
  c2 = c2
  r1 = r1
  r2 = r2
SYMMETRY Symmetry
INVARIANT GrantsHoldSlots
INVARIANT OneSlotEach
PROPERTY ReservationKept
