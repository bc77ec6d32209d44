SPECIFICATION Spec
CONSTANTS
  t1 = t1
  t2 = t2
  k1 = k1
  k2 = k2
  Threads = {t1, t2, t3}
  Keys = {k1, k2}
  Data = {d1}
  BIN_CAPACITY = 2
  Bins = {0}
  HashIdx <- OneBin
  Ops = {"INSERT", "NOCHECK", "HASH_QUERY", "HASH_DELETE"}
  Writers <- AnyWriter
  CountMod = 8
  EMPTY_FLAG = EMPTY_FLAG
  OCCUPIED_FLAG = OCCUPIED_FLAG
  Absent = Absent
  Zero = Zero
VIEW NoRet
SYMMETRY Symmetry
INVARIANTS TypeOK ExclusiveClaim CountExact
