SPECIFICATION Spec
CONSTANTS Workers = {w1, w2}
          Leavers = {w1}
          Objects = {o1, o2}
          NOENTRY = NOENTRY
          FREED = FREED
          NULL = NULL
SYMMETRY Symmetry
INVARIANTS TypeOK NoUseAfterFree StageEmpty HeldOnce
