CONSTANTS
  Pointers = {p1, p2}
  NULL = NULL
  InitSize = 1
  MaxSize = 8
  k1 = k1
  k2 = k2
  t1 = t1
  t2 = t2
  Threads = {t1, t2}
  Keys = {k1, k2}
  WORD = 3
  COUNTER_BITS = 7
  Width = 2
  BloomWidth = 32
  Depth = 4
  Seed = 1
  Random = 1
  ExtSeed = 1
  Murmur <- Words
  Murmur64 <- Bits
  MaxCalls = 3
SPECIFICATION UtilSpec
SYMMETRY Symmetry
INVARIANTS TypeOK InBounds EstimateBracket CountedSeen AnswerCounts NoFalseNegative
PROPERTY ImplementsFIFO
