-------------------------------- MODULE EBR --------------------------------
(***************************************************************************)
(* Epoch-based reclamation, src/src/ebr.c: workers that mark a critical    *)
(* path, and the synchroniser that announces new epochs.  The fences of    *)
(* ebr_enter, ebr_exit and ebr_sync order a worker's announcement before   *)
(* its loads and the synchroniser's writes before its scan, so the memory  *)
(* is sequentially consistent here.  ebr_enter loads the global epoch and  *)
(* stores it in two steps: the stored epoch may be stale by any number of  *)
(* epochs.  Callers of ebr_sync (EBRSync, GC) start it by setting sync_pc  *)
(* to "load" and take its answer at "busy" (false) or "new" (true).        *)
(***************************************************************************)
EXTENDS Integers

CONSTANTS Workers,  \* threads that may register
          Leavers,  \* those of them that may unregister again
          NOENTRY,  \* the NULL that ends ebr.list
          FREED     \* memory of an entry that was unregistered and freed

ASSUME WorkerAssumption == /\ Leavers \subseteq Workers
                           /\ NOENTRY \notin Workers /\ FREED \notin Workers
                           /\ NOENTRY # FREED

VARIABLES global_epoch,  \* ebr.global_epoch
          list,          \* workers on ebr.list
          local_epoch,   \* worker -> its announced epoch, INACTIVE without ACTIVE_FLAG
          observed,      \* worker -> epoch that ebr_enter has loaded and not yet stored
          sync_pc,       \* next step of the synchroniser
          epoch,         \* the epoch ebr_sync has loaded
          cur,           \* t, the list entry the scan of ebr_sync is at
          todo,          \* workers behind cur on the list
          raced          \* history: an entry was freed under a scan

ebrvars == <<global_epoch, list, local_epoch, observed, sync_pc, epoch, cur, todo, raced>>
syncvars == <<sync_pc, epoch, cur, todo>>

Epochs   == 0 .. 2
INACTIVE == 3
NOTHING  == 3

EBRInit == /\ global_epoch = 0
           /\ list = {}
           /\ local_epoch = [w \in Workers |-> INACTIVE]
           /\ observed = [w \in Workers |-> NOTHING]
           /\ sync_pc = "idle"
           /\ epoch = 0
           /\ cur = NOENTRY
           /\ todo = {}
           /\ raced = FALSE

Active(w) == local_epoch[w] # INACTIVE

(* A mistake to catch: the epoch before the current one is reclaimed. *)
GcEpochTooSoon == (global_epoch + 2) % 3

(* ebr_staging_epoch and ebr_gc_epoch *)
StagingEpoch == global_epoch
GcEpoch      == (global_epoch + 1) % 3
-----------------------------------------------------------------------------
Register(w) == /\ w \notin list
               /\ list' = list \union {w}
               /\ local_epoch' = [local_epoch EXCEPT ![w] = INACTIVE]
               /\ UNCHANGED <<global_epoch, observed, syncvars, raced>>

(* LIST_REMOVE mends the list for a scan that has not reached the entry;   *)
(* one that is at it is left with a pointer to freed memory.               *)
Unregister(w) == /\ w \in list /\ w \in Leavers
                 /\ ~Active(w) /\ observed[w] = NOTHING
                 /\ list' = list \ {w}
                 /\ todo' = todo \ {w}
                 /\ cur' = IF cur = w THEN FREED ELSE cur
                 /\ raced' = (raced \/ cur = w)
                 /\ UNCHANGED <<global_epoch, local_epoch, observed, sync_pc, epoch>>

EnterLoad(w) == /\ w \in list
                /\ ~Active(w) /\ observed[w] = NOTHING
                /\ observed' = [observed EXCEPT ![w] = global_epoch]
                /\ UNCHANGED <<global_epoch, list, local_epoch, syncvars, raced>>

EnterStore(w) == /\ observed[w] # NOTHING
                 /\ local_epoch' = [local_epoch EXCEPT ![w] = observed[w]]
                 /\ observed' = [observed EXCEPT ![w] = NOTHING]
                 /\ UNCHANGED <<global_epoch, list, syncvars, raced>>

(* A mistake to catch: the active flag stays set. *)
ExitStaysActive(w) == Active(w) /\ UNCHANGED ebrvars

Exit(w) == /\ Active(w)
           /\ local_epoch' = [local_epoch EXCEPT ![w] = INACTIVE]
           /\ UNCHANGED <<global_epoch, list, observed, syncvars, raced>>
-----------------------------------------------------------------------------
(* ebr_sync *)

SyncLoad == /\ sync_pc = "load"
            /\ epoch' = global_epoch
            /\ sync_pc' = "first"
            /\ UNCHANGED <<global_epoch, list, local_epoch, observed, cur, todo, raced>>

(* Go on with an entry of s; the order of the list does not matter. *)
Advance(s) == \/ /\ s = {}
                 /\ cur' = NOENTRY /\ todo' = {}
              \/ \E w \in s : cur' = w /\ todo' = s \ {w}

(* A worker that registers later goes in front of the scan. *)
SyncFirst == /\ sync_pc = "first"
             /\ Advance(list)
             /\ sync_pc' = "scan"
             /\ UNCHANGED <<global_epoch, list, local_epoch, observed, epoch, raced>>

SyncPass == /\ sync_pc = "scan" /\ cur \in Workers
            /\ local_epoch[cur] \in {INACTIVE, epoch}
            /\ Advance(todo)
            /\ UNCHANGED <<global_epoch, list, local_epoch, observed, sync_pc, epoch, raced>>

SyncBusy == /\ sync_pc = "scan" /\ cur \in Workers
            /\ local_epoch[cur] \notin {INACTIVE, epoch}
            /\ cur' = NOENTRY /\ todo' = {}
            /\ sync_pc' = "busy"
            /\ UNCHANGED <<global_epoch, list, local_epoch, observed, epoch, raced>>

(* The scan reads freed memory: the entry as it was left, inactive and     *)
(* linked to the rest of the list; or overwritten, so that the rest is     *)
(* lost or the worker looks active.                                        *)
SyncFreed == /\ sync_pc = "scan" /\ cur = FREED
             /\ \/ Advance(todo) /\ UNCHANGED sync_pc
                \/ Advance({}) /\ sync_pc' \in {"scan", "busy"}
             /\ UNCHANGED <<global_epoch, list, local_epoch, observed, epoch, raced>>

(* A mistake to catch: the epoch counter does not wrap. *)
SyncAnnounceUnwrapped == /\ sync_pc = "scan" /\ cur = NOENTRY
                         /\ global_epoch' = epoch + 1
                         /\ sync_pc' = "new"
                         /\ UNCHANGED <<list, local_epoch, observed, epoch, cur, todo, raced>>

SyncAnnounce == /\ sync_pc = "scan" /\ cur = NOENTRY
                /\ global_epoch' = (epoch + 1) % 3
                /\ sync_pc' = "new"
                /\ UNCHANGED <<list, local_epoch, observed, epoch, cur, todo, raced>>

Sync == \/ SyncLoad \/ SyncFirst \/ SyncPass \/ SyncBusy \/ SyncFreed \/ SyncAnnounce

(* The synchroniser goes on with the step l of its caller. *)
Resume(l) == /\ sync_pc' = l
             /\ UNCHANGED <<global_epoch, list, local_epoch, observed, epoch, cur, todo, raced>>
-----------------------------------------------------------------------------
EBRTypeOK == /\ global_epoch \in Epochs
             /\ list \subseteq Workers
             /\ local_epoch \in [Workers -> Epochs \union {INACTIVE}]
             /\ observed \in [Workers -> Epochs \union {NOTHING}]
             /\ epoch \in Epochs
             /\ cur \in Workers \union {NOENTRY, FREED}
             /\ todo \subseteq Workers
             /\ raced \in BOOLEAN
=============================================================================
