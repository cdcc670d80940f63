SPECIFICATION HSpec
CONSTANTS
  Wallets = {u, v}
  Tokens = {a}
  EventTokens = {a}
  Zero = zero
  Runs = {r1}
  ChunkBlocks = 2
  MaxChunks = 2
  MaxTransfers = 2
  MaxBlocks = 2
  MaxItems = 1
  MaxAmount = 1
  Badge = a
INVARIANTS PassedOnIsNotShown
CHECK_DEADLOCK FALSE
