SPECIFICATION StoreSpec
CONSTANTS
  m1 = m1  m2 = m2
  Meta = {m1, m2}
  FirstMeta = m1
  MaxVersion = 3
  MaxWrite = 3
  MaxFail = 1
  MaxCrash = 1
  MaxEdit = 1
  MaxPlanOp = 1
  MaxTurn = 1
  MayDelete = TRUE
INVARIANTS StoreTypeOK MetadataConverges DeletedStaysGone PromisesKept
CHECK_DEADLOCK FALSE
