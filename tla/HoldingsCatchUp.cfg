SPECIFICATION FairHSpec
CONSTANTS
  Wallets = {u}
  Tokens = {a}
  EventTokens = {a}
  Zero = zero
  Runs = {r1, r2}
  ChunkBlocks = 2
  MaxChunks = 1
  MaxTransfers = 2
  MaxBlocks = 2
  MaxItems = 2
  MaxAmount = 1
  Badge = a
PROPERTIES PagesCatchUp
CHECK_DEADLOCK FALSE
