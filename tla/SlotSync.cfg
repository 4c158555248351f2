SPECIFICATION FairSpec
CONSTANTS
  Idx <- TwoIndices
  Descs <- Kinds
  None = None
  AckEpochs = 6
  Budgets <- AllBudgets
INVARIANTS QuietIsInSync
PROPERTIES Converges
CHECK_DEADLOCK FALSE
