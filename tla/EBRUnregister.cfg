SPECIFICATION Spec
CONSTANTS Workers = {w1, w2}
          Leavers = {w1}
          NOENTRY = NOENTRY
          FREED = FREED
INVARIANT GraceAlways
