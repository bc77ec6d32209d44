--------------------------- MODULE EBRSyncProofs ---------------------------
(***************************************************************************)
(* The grace period of ebr_full_sync, for any number of workers, as long   *)
(* as none unregisters while the scan is at its entry.  ebr_full_sync      *)
(* makes two announcements.  The first scan lets a worker that was inside  *)
(* pass only with the target epoch; the second, which looks for the next   *)
(* epoch, lets none of them pass.                                          *)
(***************************************************************************)
EXTENDS EBRSync, EBRProofs

Labels == {"idle", "load", "first", "scan", "busy", "new"}

(* The scan has yet to look at worker w. *)
Ahead(w) == w \in todo \/ cur = w

(* What holds of the workers that were inside, by the number of epochs     *)
(* announced since the call.                                               *)
Before == /\ global_epoch = target_epoch
          /\ sync_pc # "new"
          /\ sync_pc = "scan" => \A w \in inside : Ahead(w) \/ local_epoch[w] = target_epoch

Between == /\ global_epoch = (target_epoch + 1) % 3
           /\ \A w \in inside : local_epoch[w] = target_epoch
           /\ sync_pc = "scan" => \A w \in inside : Ahead(w)

After == /\ global_epoch = (target_epoch + 2) % 3
         /\ sync_pc = "new"
         /\ inside = {}

GraceInv == /\ EBRInv
            /\ sync_pc \in Labels
            /\ target_epoch \in Epochs
            /\ inside \subseteq Workers
            /\ \A w \in inside : Active(w)
            /\ raced \/ (IF sync_pc = "idle" THEN inside = {} ELSE Before \/ Between \/ After)

(* The inductive invariant holds initially. *)
LEMMA GraceInit == Init => GraceInv
BY InvInit DEF Init, GraceInv, EBRInit, Epochs, Labels

(* The steps of the workers keep it: a worker that was inside announces    *)
(* nothing new before it leaves.                                           *)
LEMMA GraceWork ==
  ASSUME GraceInv, NEW w \in Workers,
         \/ Work(w) /\ UNCHANGED <<target_epoch, inside>>
         \/ WorkerExit(w)
  PROVE  GraceInv'
<1>1. EBRInv' /\ sync_pc' = sync_pc
  BY WorkerInv, WorkerTypes DEF GraceInv, Work, WorkerExit, EBRInv
<1>2. UNCHANGED <<global_epoch, target_epoch, sync_pc>> /\ inside' \subseteq inside
  BY DEF Work, WorkerExit, Register, Unregister, EnterLoad, EnterStore, Exit, syncvars
<1>3. \A v \in inside' : /\ local_epoch'[v] = local_epoch[v]
                         /\ Ahead(v)' \/ ~Ahead(v)
  <2> USE DEF GraceInv, EBRInv, EBRTypeOK, Listed, Active, Ahead, syncvars
  <2>1. CASE Register(w) /\ UNCHANGED inside  BY <2>1 DEF Register
  <2>2. CASE EnterLoad(w) /\ UNCHANGED inside  BY <2>2 DEF EnterLoad
  <2>3. CASE EnterStore(w) /\ UNCHANGED inside  BY <2>3 DEF EnterStore
  <2>4. CASE Unregister(w) /\ UNCHANGED inside  BY <2>4 DEF Unregister
  <2>5. CASE WorkerExit(w)  BY <2>5 DEF WorkerExit, Exit
  <2>6. QED  BY <2>1, <2>2, <2>3, <2>4, <2>5 DEF Work
<1>4. raced => raced'
  BY WorkerRaced DEF GraceInv, EBRInv, Work, WorkerExit
<1>5. \A v \in inside' : Active(v)'
  BY <1>2, <1>3 DEF GraceInv, Active
<1>6. (Before => Before') /\ (Between => Between') /\ (After => After')
  BY <1>2, <1>3 DEF Before, Between, After
<1>7. QED
  BY <1>1, <1>2, <1>4, <1>5, <1>6 DEF GraceInv

(* The steps of ebr_sync keep it. *)
LEMMA GraceSync ==
  ASSUME GraceInv, Sync, UNCHANGED <<target_epoch, inside>>
  PROVE  GraceInv'
<1>1. EBRInv'  BY SyncInv DEF GraceInv
<1>2. UNCHANGED <<list, local_epoch, observed>>
  BY DEF Sync, SyncLoad, SyncFirst, SyncPass, SyncBusy, SyncFreed, SyncAnnounce
<1>3. sync_pc' \in Labels \ {"idle"}
  BY SyncTypes DEF GraceInv, EBRInv, Labels
<1>4. sync_pc # "idle" /\ sync_pc # "new"
  BY DEF Sync, SyncLoad, SyncFirst, SyncPass, SyncBusy, SyncFreed, SyncAnnounce
<1>5. raced' = raced
  BY DEF Sync, SyncLoad, SyncFirst, SyncPass, SyncBusy, SyncFreed, SyncAnnounce
<1>6. ASSUME ~raced PROVE Before' \/ Between' \/ After'
  <2>0. Before \/ Between
    BY <1>4, <1>6 DEF GraceInv, After
  <2> USE <1>2, <2>0 DEF Before, Between, Ahead
  <2>1. CASE SyncLoad  BY <2>1 DEF SyncLoad
  <2>2. CASE SyncFirst
    <3>1. \A w \in inside : w \in list
      BY DEF GraceInv, EBRInv, Listed
    <3>2. \A w \in list : cur' = w \/ w \in todo'
      BY <2>2 DEF SyncFirst, Advance
    <3>3. QED  BY <2>2, <3>1, <3>2 DEF SyncFirst
  <2>3. CASE SyncPass
    <3>1. local_epoch[cur] \in {INACTIVE, global_epoch}
      BY <2>3 DEF SyncPass, GraceInv, EBRInv, ScanInv
    <3>2. \A w \in todo : cur' = w \/ w \in todo'
      BY <2>3 DEF SyncPass, Advance
    <3>3. cur \in inside => local_epoch[cur] = global_epoch
      BY <3>1 DEF GraceInv, Active
    <3>4. CASE Before
      BY <2>3, <3>2, <3>3, <3>4 DEF SyncPass
    <3>5. CASE Between
      <4>1. cur \notin inside
        BY <3>3, <3>5, Clock DEF GraceInv
      <4>2. QED  BY <2>3, <3>2, <3>5, <4>1 DEF SyncPass
    <3>6. QED  BY <3>4, <3>5
  <2>4. CASE SyncBusy  BY <2>4 DEF SyncBusy
  <2>5. CASE SyncFreed  BY <1>6, <2>5 DEF SyncFreed, GraceInv, EBRInv, ScanInv
  <2>6. CASE SyncAnnounce
    <3>1. todo = {} /\ cur = NOENTRY /\ global_epoch' = (global_epoch + 1) % 3 /\ sync_pc' = "new"
      BY <2>6 DEF SyncAnnounce, GraceInv, EBRInv, ScanInv
    <3>2. \A w \in inside : ~Ahead(w)
      BY <3>1, WorkerAssumption DEF GraceInv
    <3>3. CASE Before
      BY <2>6, <3>1, <3>2, <3>3 DEF SyncAnnounce
    <3>4. CASE Between
      <4>1. inside = {}
        BY <2>6, <3>2, <3>4 DEF SyncAnnounce
      <4>2. global_epoch' = (target_epoch + 2) % 3
        BY <3>1, <3>4, Clock DEF GraceInv
      <4>3. QED  BY <3>1, <4>1, <4>2 DEF After
    <3>5. QED  BY <3>3, <3>4
  <2>7. QED  BY <2>1, <2>2, <2>3, <2>4, <2>5, <2>6 DEF Sync
<1>7. QED
  BY <1>1, <1>2, <1>3, <1>5, <1>6 DEF GraceInv, Active

(* The steps of ebr_full_sync itself keep it. *)
LEMMA GraceCaller ==
  ASSUME GraceInv, FullSyncStart \/ FullSyncRetry \/ FullSyncCheck
  PROVE  GraceInv'
<1> USE DEF GraceInv, Labels
<1>1. CASE FullSyncStart
  <2>1. EBRInv'  BY <1>1, ResumeInv DEF FullSyncStart
  <2>2. QED
    BY <1>1, <2>1 DEF FullSyncStart, Resume, StagingEpoch, Before, EBRInv, EBRTypeOK, Active
<1>2. CASE FullSyncRetry
  <2>1. EBRInv'  BY <1>2, ResumeInv DEF FullSyncRetry
  <2>2. QED
    BY <1>2, <2>1 DEF FullSyncRetry, Resume, Before, Between, After, Active
<1>3. CASE FullSyncCheck
  <2>1. GcEpoch = target_epoch => global_epoch = (target_epoch + 2) % 3
    BY Clock DEF GcEpoch, EBRInv, EBRTypeOK
  <2>2. global_epoch = (target_epoch + 2) % 3 => GcEpoch = target_epoch
    BY Clock DEF GcEpoch
  <2>3. raced \/ Between \/ After
    BY <1>3 DEF FullSyncCheck, Before
  <2>7. CASE raced
    <3>1. EBRInv'  BY <1>3, ResumeInv DEF FullSyncCheck
    <3>2. QED  BY <1>3, <2>7, <3>1 DEF FullSyncCheck, Resume, Active
  <2>4. CASE Between
    <3>1. GcEpoch # target_epoch
      BY <2>1, <2>4, Clock DEF Between
    <3>2. EBRInv' /\ sync_pc' = "load"
      BY <1>3, <3>1, ResumeInv DEF FullSyncCheck, Resume
    <3>3. QED
      BY <1>3, <2>4, <3>2 DEF FullSyncCheck, Resume, Between, Active
  <2>5. CASE After
    <3>1. EBRInv' /\ sync_pc' = "idle"
      BY <1>3, <2>2, <2>5, ResumeInv DEF FullSyncCheck, Resume, After
    <3>2. QED
      BY <1>3, <2>5, <3>1 DEF FullSyncCheck, Resume, After, Active
  <2>6. QED  BY <2>3, <2>4, <2>5, <2>7
<1>4. QED  BY <1>1, <1>2, <1>3

(* GraceInv is an invariant. *)
LEMMA GraceInvariant == Spec => []GraceInv
<1>1. GraceInv /\ [Next]_vars => GraceInv'
  <2> SUFFICES ASSUME GraceInv, [Next]_vars PROVE GraceInv'
    OBVIOUS
  <2>1. CASE Next
    BY <2>1, GraceWork, GraceSync, GraceCaller DEF Next, Synchronise
  <2>2. CASE UNCHANGED vars
    BY <2>2 DEF vars, ebrvars, GraceInv, EBRInv, EBRTypeOK, Listed, ScanInv, Active,
                Before, Between, After, Ahead
  <2>3. QED  BY <2>1, <2>2
<1>2. QED  BY GraceInit, <1>1, PTL DEF Spec

(* The epochs, the entries of the workers and the state of the scan have   *)
(* their types, for any number of workers, also when one unregisters while *)
(* the scan is at its entry.                                               *)
THEOREM SyncTyped == Spec => []TypeOK
<1>1. GraceInv => TypeOK
  BY DEF GraceInv, EBRInv, TypeOK
<1>2. QED  BY GraceInvariant, <1>1, PTL

(* ebr_full_sync waits for every critical path that was running when it    *)
(* was called (ebr.c:272-291), whatever the number of workers, as long as  *)
(* none unregisters while the scan is at its entry.                        *)
THEOREM Grace == Spec => []GracePeriod
<1>1. GraceInv => GracePeriod
  BY DEF GraceInv, GracePeriod
<1>2. QED  BY GraceInvariant, <1>1, PTL
=============================================================================
