SPECIFICATION FairSpec
CONSTANTS
  t1 = t1
  t2 = t2
  k1 = k1
  k2 = k2
  Threads = {t1, t2}
  Keys = {k1, k2}
  Data = {d1}
  BIN_CAPACITY = 1
  Bins = {0}
  HashIdx <- OneBin
  Ops = {"UPDATE", "HASH_DELETE"}
  Writers <- AnyWriter
  CountMod = 2
  EMPTY_FLAG = EMPTY_FLAG
  OCCUPIED_FLAG = OCCUPIED_FLAG
  Absent = Absent
  Zero = Zero
PROPERTY Termination
