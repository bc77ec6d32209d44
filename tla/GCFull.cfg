SPECIFICATION FairSpec
CONSTANTS Workers = {w1, w2}
          Leavers = {w1}
          Objects = {o1}
          NOENTRY = NOENTRY
          FREED = FREED
          NULL = NULL
PROPERTY FullReclaims
