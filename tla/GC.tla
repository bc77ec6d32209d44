--------------------------------- MODULE GC ---------------------------------
(***************************************************************************)
(* Garbage collection with epoch-based reclamation, src/src/gc.c: workers  *)
(* unlink objects from a shared structure and hand them to gc_limbo; the   *)
(* collector thread runs gc_cycle or gc_full, which stages the limbo list  *)
(* under the current epoch and frees the objects staged two epochs ago.    *)
(* The linked lists of entries are sets here, limbo with its head pointer, *)
(* which the compare-and-swap of gc_limbo tests.  The shared structure is  *)
(* the caller's: an object is linked, unlinked or free, and a worker may   *)
(* pick up a linked object inside a critical path and hold it to its end.  *)
(***************************************************************************)
EXTENDS EBR

CONSTANTS Objects, NULL

ASSUME ObjectAssumption == NULL \notin Objects

VARIABLES status,      \* object -> "free", "linked" or "unlinked"
          refs,        \* worker -> objects it holds pointers to
          ent,         \* worker -> the object its gc_limbo inserts, or NULL
          head,        \* worker -> the head that gc_limbo has read
          pushing,     \* workers between the read of the head and the swap
          limbo,       \* the objects on gc.limbo
          limbo_head,  \* gc.limbo
          epoch_list,  \* epoch -> objects on gc.epoch_list
          count,       \* epochs gc_cycle may still skip
          full         \* the collector runs gc_full

uservars  == <<status, refs>>
pushvars  == <<ent, head, pushing>>
limbovars == <<limbo, limbo_head>>
gcvars    == <<epoch_list, count, full>>
vars == <<ebrvars, uservars, pushvars, limbovars, gcvars>>

EBR_EPOCHS == 3

Init == /\ EBRInit
        /\ status = [o \in Objects |-> "free"]
        /\ refs = [w \in Workers |-> {}]
        /\ ent = [w \in Workers |-> NULL]
        /\ head = [w \in Workers |-> NULL]
        /\ pushing = {}
        /\ limbo = {} /\ limbo_head = NULL
        /\ epoch_list = [e \in Epochs |-> {}]
        /\ count = 0
        /\ full = FALSE
-----------------------------------------------------------------------------
(* The caller's structure. *)

Link(o) == /\ status[o] = "free"
           /\ status' = [status EXCEPT ![o] = "linked"]
           /\ UNCHANGED <<ebrvars, refs, pushvars, limbovars, gcvars>>

Acquire(w, o) == /\ Active(w) /\ ent[w] = NULL
                 /\ status[o] = "linked"
                 /\ refs' = [refs EXCEPT ![w] = @ \union {o}]
                 /\ UNCHANGED <<ebrvars, status, pushvars, limbovars, gcvars>>

(* The worker that unlinks an object calls gc_limbo, in a critical path or *)
(* outside of one.                                                         *)
Unlink(w, o) == /\ ent[w] = NULL /\ observed[w] = NOTHING
                /\ status[o] = "linked"
                /\ status' = [status EXCEPT ![o] = "unlinked"]
                /\ ent' = [ent EXCEPT ![w] = o]
                /\ UNCHANGED <<ebrvars, refs, head, pushing, limbovars, gcvars>>
-----------------------------------------------------------------------------
(* gc_limbo *)

LimboRead(w) == /\ ent[w] # NULL /\ w \notin pushing
                /\ head' = [head EXCEPT ![w] = limbo_head]
                /\ pushing' = pushing \union {w}
                /\ UNCHANGED <<ebrvars, uservars, ent, limbovars, gcvars>>

(* A mistake to catch: the head is stored without a comparison. *)
LimboStore(w) == /\ w \in pushing
                 /\ limbo' = {ent[w]} \union (IF limbo_head = head[w] THEN limbo ELSE {})
                 /\ limbo_head' = ent[w]
                 /\ ent' = [ent EXCEPT ![w] = NULL]
                 /\ head' = [head EXCEPT ![w] = NULL]
                 /\ pushing' = pushing \ {w}
                 /\ UNCHANGED <<ebrvars, uservars, gcvars>>

LimboSwap(w) == /\ w \in pushing /\ limbo_head = head[w]
                /\ limbo' = limbo \union {ent[w]}
                /\ limbo_head' = ent[w]
                /\ ent' = [ent EXCEPT ![w] = NULL]
                /\ head' = [head EXCEPT ![w] = NULL]
                /\ pushing' = pushing \ {w}
                /\ UNCHANGED <<ebrvars, uservars, gcvars>>

LimboRetry(w) == /\ w \in pushing /\ limbo_head # head[w]
                 /\ head' = [head EXCEPT ![w] = NULL]
                 /\ pushing' = pushing \ {w}
                 /\ UNCHANGED <<ebrvars, uservars, ent, limbovars, gcvars>>
-----------------------------------------------------------------------------
(* gc_register, gc_unregister, gc_crit_enter and gc_crit_exit *)

CritExit(w) == /\ Exit(w) /\ ent[w] = NULL
               /\ refs' = [refs EXCEPT ![w] = {}]
               /\ UNCHANGED <<status, pushvars, limbovars, gcvars>>

CritStore(w) == EnterStore(w) /\ UNCHANGED <<uservars, pushvars, limbovars, gcvars>>

Member(w) == /\ ent[w] = NULL
             /\ Register(w) \/ Unregister(w) \/ EnterLoad(w)
             /\ UNCHANGED <<uservars, pushvars, limbovars, gcvars>>
-----------------------------------------------------------------------------
(* gc_cycle and gc_full *)

CycleStart == /\ sync_pc = "idle"
              /\ full' \in BOOLEAN
              /\ count' = EBR_EPOCHS
              /\ Resume("load")
              /\ UNCHANGED <<uservars, pushvars, limbovars, epoch_list>>

GcSync == Sync /\ UNCHANGED <<uservars, pushvars, limbovars, gcvars>>

(* gc_cycle returns: to gc_full or to the caller. *)
CycleReturn == Resume(IF full THEN "check" ELSE "idle")

CycleBusy == /\ sync_pc = "busy"
             /\ CycleReturn
             /\ UNCHANGED <<uservars, pushvars, limbovars, gcvars>>

(* Mistakes to catch: the epochs that may be skipped are not limited; a    *)
(* reclaimed list is kept.                                                 *)
CycleNextUnlimited == /\ sync_pc = "reclaim"
                      /\ epoch_list[GcEpoch] = {}
                      /\ count' = count - 1
                      /\ Resume("load")
                      /\ UNCHANGED <<uservars, pushvars, limbovars, epoch_list, full>>

CycleReclaimKeeps == /\ sync_pc = "reclaim"
                     /\ epoch_list[GcEpoch] # {} \/ count = 0
                     /\ status' = [o \in Objects |-> IF o \in epoch_list[GcEpoch] THEN "free" ELSE status[o]]
                     /\ CycleReturn
                     /\ UNCHANGED <<refs, pushvars, limbovars, gcvars>>

CycleStage == /\ sync_pc = "new"
              /\ epoch_list' = [epoch_list EXCEPT ![StagingEpoch] = limbo]
              /\ limbo' = {} /\ limbo_head' = NULL
              /\ Resume("reclaim")
              /\ UNCHANGED <<uservars, pushvars, count, full>>

CycleNext == /\ sync_pc = "reclaim"
             /\ epoch_list[GcEpoch] = {} /\ count > 0
             /\ count' = count - 1
             /\ Resume("load")
             /\ UNCHANGED <<uservars, pushvars, limbovars, epoch_list, full>>

(* gc_default_reclaim frees the objects of a list. *)
Reclaimed(objs) == [o \in Objects |-> IF o \in objs THEN "free" ELSE status[o]]

CycleReclaim == /\ sync_pc = "reclaim"
                /\ epoch_list[GcEpoch] # {} \/ count = 0
                /\ status' = Reclaimed(epoch_list[GcEpoch])
                /\ epoch_list' = [epoch_list EXCEPT ![GcEpoch] = {}]
                /\ CycleReturn
                /\ UNCHANGED <<refs, pushvars, limbovars, count, full>>

(* A mistake to catch: gc_full does not look at limbo. *)
PendingStaged == \E e \in Epochs : epoch_list[e] # {}

Pending == limbo # {} \/ \E e \in Epochs : epoch_list[e] # {}

FullAgain == /\ sync_pc = "check" /\ Pending
             /\ count' = EBR_EPOCHS
             /\ Resume("load")
             /\ UNCHANGED <<uservars, pushvars, limbovars, epoch_list, full>>

FullDone == /\ sync_pc = "check" /\ ~Pending
            /\ full' = FALSE
            /\ Resume("idle")
            /\ UNCHANGED <<uservars, pushvars, limbovars, epoch_list, count>>

Collect == \/ GcSync \/ CycleBusy \/ CycleStage \/ CycleNext \/ CycleReclaim
           \/ FullAgain \/ FullDone
-----------------------------------------------------------------------------
Work(w) == \/ \E o \in Objects : Acquire(w, o) \/ Unlink(w, o)
           \/ LimboRead(w) \/ LimboSwap(w) \/ LimboRetry(w)
           \/ CritExit(w) \/ CritStore(w) \/ Member(w)

Next == \/ \E o \in Objects : Link(o)
        \/ \E w \in Workers : Work(w)
        \/ CycleStart
        \/ Collect

Spec == Init /\ [][Next]_vars

(* Critical paths are finite, ebr_enter runs to its end and the collector  *)
(* keeps running once it is called.  gc_limbo may retry for ever.          *)
FairSpec == /\ Spec
            /\ WF_vars(Collect)
            /\ \A w \in Workers : /\ WF_vars(CritExit(w)) /\ WF_vars(CritStore(w))
                                  /\ WF_vars(LimboRead(w) \/ LimboSwap(w) \/ LimboRetry(w))
-----------------------------------------------------------------------------
Statuses == {"free", "linked", "unlinked"}
SyncLabels == {"load", "first", "scan", "busy", "new"}
GcLabels == {"idle", "reclaim", "check"} \union SyncLabels

(* The types of the collector and of the workers. *)
TypeOK == /\ EBRTypeOK
          /\ sync_pc \in GcLabels
          /\ status \in [Objects -> Statuses]
          /\ refs \in [Workers -> SUBSET Objects]
          /\ ent \in [Workers -> Objects \union {NULL}]
          /\ head \in [Workers -> Objects \union {NULL}]
          /\ pushing \subseteq Workers
          /\ limbo \subseteq Objects
          /\ limbo_head \in Objects \union {NULL}
          /\ epoch_list \in [Epochs -> SUBSET Objects]
          /\ count \in 0 .. EBR_EPOCHS
          /\ full \in BOOLEAN

(* No object is freed while a worker that picked it up inside a critical   *)
(* path is still in that path (gc.c:161-170), also when the worker's       *)
(* ebr_enter stored an epoch that was stale by then, unless a worker       *)
(* unregistered while the scan of ebr_sync was at its entry.               *)
NoUseAfterFree == ~raced => \A w \in Workers : \A o \in refs[w] : status[o] # "free"

(* The assertion at gc.c:155: gc_cycle stages the limbo list under an      *)
(* epoch whose list was reclaimed, so no staged list is overwritten.       *)
StageEmpty == sync_pc = "new" => epoch_list[StagingEpoch] = {}

(* An object handed to gc_limbo is on exactly one list until it is freed:  *)
(* it is neither lost when the collector swaps limbo out under gc_limbo's  *)
(* compare-and-swap, nor freed twice (gc.c:129-132, 156).                  *)
HeldOnce == /\ \A o \in Objects :
                  (status[o] = "unlinked") <=>
                     \/ o \in limbo
                     \/ \E e \in Epochs : o \in epoch_list[e]
                     \/ \E w \in Workers : ent[w] = o
            /\ \A e \in Epochs : /\ limbo \intersect epoch_list[e] = {}
                                 /\ \A f \in Epochs \ {e} : epoch_list[e] \intersect epoch_list[f] = {}
            /\ \A w \in Workers : \A e \in Epochs : ent[w] \notin limbo \union epoch_list[e]

(* gc_full reclaims every object that is in limbo while it runs, unless    *)
(* its scan meets a freed entry (gc.c:195-206).                            *)
FullReclaims == \A o \in Objects :
                   (full /\ sync_pc # "idle" /\ o \in limbo) ~> (status[o] = "free" \/ raced)
=============================================================================
