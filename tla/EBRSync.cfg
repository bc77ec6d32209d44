SPECIFICATION FairSpec
CONSTANTS Workers = {w1, w2, w3}
          Leavers = {w1}
          NOENTRY = NOENTRY
          FREED = FREED
INVARIANTS TypeOK GracePeriod
PROPERTY SyncReturns
