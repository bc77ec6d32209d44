------------------------------ MODULE EBRSync ------------------------------
(***************************************************************************)
(* ebr_full_sync (src/src/ebr.c 272-291): the caller waits until the epoch *)
(* in which it started is the one ready for reclamation, by which time     *)
(* every critical path that was running when it started has ended.         *)
(***************************************************************************)
EXTENDS EBR

VARIABLES target_epoch,  \* the epoch in which the call started
          inside         \* history: workers in a critical path since the call started

vars == <<ebrvars, target_epoch, inside>>

Init == EBRInit /\ target_epoch = 0 /\ inside = {}

FullSyncStart == /\ sync_pc = "idle"
                 /\ target_epoch' = StagingEpoch
                 /\ inside' = {w \in Workers : Active(w)}
                 /\ Resume("load")

(* ebr_sync returned false: back off and retry. *)
FullSyncRetry == /\ sync_pc = "busy"
                 /\ Resume("load")
                 /\ UNCHANGED <<target_epoch, inside>>

(* A mistake to catch: one announcement is taken to be enough. *)
FullSyncCheckOnce == /\ sync_pc = "new"
                     /\ Resume("idle")
                     /\ UNCHANGED <<target_epoch, inside>>

(* ebr_sync returned true with GcEpoch. *)
FullSyncCheck == /\ sync_pc = "new"
                 /\ Resume(IF GcEpoch = target_epoch THEN "idle" ELSE "load")
                 /\ UNCHANGED <<target_epoch, inside>>

WorkerExit(w) == /\ Exit(w)
                 /\ inside' = inside \ {w}
                 /\ UNCHANGED target_epoch

Work(w) == Register(w) \/ Unregister(w) \/ EnterLoad(w) \/ EnterStore(w)

Synchronise == \/ Sync /\ UNCHANGED <<target_epoch, inside>>
               \/ FullSyncRetry \/ FullSyncCheck

Next == \/ \E w \in Workers : \/ Work(w) /\ UNCHANGED <<target_epoch, inside>>
                              \/ WorkerExit(w)
        \/ FullSyncStart
        \/ Synchronise

Spec == Init /\ [][Next]_vars

(* Critical paths are finite, ebr_enter runs to its end, and the thread in *)
(* ebr_full_sync keeps running.                                            *)
FairSpec == /\ Spec
            /\ WF_vars(Synchronise)
            /\ \A w \in Workers : WF_vars(WorkerExit(w)) /\ WF_vars(EnterStore(w) /\ UNCHANGED <<target_epoch, inside>>)
-----------------------------------------------------------------------------
(* The types of EBR, and a target that is an epoch. *)
TypeOK == EBRTypeOK /\ target_epoch \in Epochs /\ inside \subseteq Workers

(* When ebr_full_sync returns, every critical path that was running when   *)
(* it was called has ended (ebr.c:236-241: two announcements exclude a     *)
(* worker that observed an older epoch, however stale its observation),    *)
(* unless a worker unregistered while the scan was at its entry.           *)
GracePeriod == sync_pc = "idle" /\ ~raced => inside = {}

(* The same without that exception, as the comment at ebr.c:240-241 has it. *)
GraceAlways == sync_pc = "idle" => inside = {}

(* ebr_full_sync returns, however often workers enter and leave critical   *)
(* paths, register and unregister, unless its scan meets a freed entry.    *)
SyncReturns == sync_pc # "idle" ~> sync_pc = "idle" \/ raced
=============================================================================
