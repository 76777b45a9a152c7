SPECIFICATION FairSaveSpec
CONSTANTS
  m1 = m1  m2 = m2
  Meta = {m1, m2}
  FirstMeta = m1
  MaxVersion = 3
  MaxWrite = 6
  MaxFail = 1
  MaxCrash = 1
INVARIANTS OneWriter PromisedIsSaved SavedOrUnderWay
PROPERTIES DurableSpec EventuallySaved
CHECK_DEADLOCK FALSE
