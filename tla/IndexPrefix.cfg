CONSTANTS
  KEY_LEN = 8
  BUF_LEN = 1
  Cap <- Caps
  Low <- Lows
  NULL = NULL
  EMPTY = EMPTY
  Keys <- EightKeys
  SpecialKeys = {special}
  special = special
  Types <- ByMedium
  Values <- OneTwo
  HashOf <- SumOfBytes
  BIN_CAPACITY = 1
  MAX_TREE_HASH_RATIO = 4
  INIT_SIZE = 1
  MaxSize = 2
  Together <- DeepWideOrSpecial
  Avoid = {"clashed", "redescended", "doubled", "null_root", "dangling"}
SPECIFICATION Spec
INVARIANT LookupLast
