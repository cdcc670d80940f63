SPECIFICATION Spec
CONSTANTS
  Accounts = {visitor, vault}
  Contracts = {vault}
  Tokens = {t1}
  Nonces = {n1, n2}
  Signers = {s1}
  Caps = {1, 2}
  NoOwner = NoOwner
  FirstOwner = vault
  FirstSigner = s1
  MaxDepth = 2
  MaxSigned = 3
  n1 = n1
  n2 = n2
  s1 = s1
  t1 = t1
  vault = vault
  visitor = visitor
SYMMETRY Symmetry
INVARIANT CapHeld
INVARIANT SupplyCountsClaims
INVARIANT BalancesAddUp
INVARIANT ClaimsSpendTheirNonce
PROPERTY PauseFreezes
PROPERTY CommittedForever
