SPECIFICATION Spec
CONSTANTS
  k1 = k1
  k2 = k2
  k3 = k3
  Keys = {k1, k2, k3}
  Values = {v1, v2}
  EMPTY_FLAG = EMPTY_FLAG
  Absent = Absent
  NULL = NULL
  HashOf <- Hashes
  BIN_CAPACITY = 2
  InitSize = 1
  MaxSize = 4
INVARIANTS TypeOK ExpansionKeeps RoomAtTarget CountKept
SYMMETRY Symmetry
