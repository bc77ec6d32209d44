SPECIFICATION HSpec
CONSTANTS
  t1 = t1
  t2 = t2
  k1 = k1
  k2 = k2
  Threads = {t1, t2}
  Keys = {k1, k2, k3}
  Data = {d1, d2}
  BIN_CAPACITY = 2
  Bins = {0}
  HashIdx <- OneBin
  Ops = {"INSERT", "STRICT_UPDATE", "STRICT_INSERT", "NOCHECK", "HASH_DELETE", "HASH_QUERY"}
  Writers <- OneWriter
  CountMod = 8
  EMPTY_FLAG = EMPTY_FLAG
  OCCUPIED_FLAG = OCCUPIED_FLAG
  Absent = Absent
  Zero = Zero
INVARIANTS UniqueKey ValueOfKey WriterKnows
PROPERTIES ImplementsMap QuerySound
