SPECIFICATION IndexingSpec
CONSTANTS
  Wallets = {u, v}
  Tokens = {a}
  EventTokens = {a}
  Zero = zero
  Runs = {r1, r2}
  ChunkBlocks = 2
  MaxChunks = 2
  MaxTransfers = 2
  MaxBlocks = 3
  MaxItems = 2
  MaxAmount = 1
  Badge = a
INVARIANTS OnlyFinalStored NothingSkipped IndexIsRight
PROPERTIES PublishesOwners CursorMovesForward
CHECK_DEADLOCK FALSE
