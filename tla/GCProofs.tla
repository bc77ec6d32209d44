------------------------------ MODULE GCProofs ------------------------------
(***************************************************************************)
(* The collector never frees an object that a worker still holds, and      *)
(* never loses or doubly frees one, for any number of workers and objects. *)
(***************************************************************************)
EXTENDS GC, EBRProofs

-----------------------------------------------------------------------------
(* Bookkeeping: where the objects are.  It does not depend on the workers' *)
(* epochs and holds also while workers unregister.                         *)

Waiting == {"idle", "load", "first", "scan", "busy", "check"}

(* Between two announcements the list that comes next is empty. *)
ReclaimedNext == sync_pc \in Waiting => epoch_list[GcEpoch] = {}

(* ebr_sync announces the successor of the epoch that is current. *)
EpochLoaded == sync_pc \in {"first", "scan"} => epoch = global_epoch

(* Each object that is being handed over is handed over once. *)
OnePusher == /\ \A w, v \in Workers : ent[w] = ent[v] /\ ent[w] # NULL => w = v
             /\ \A w \in pushing : ent[w] # NULL

Book == TypeOK /\ EpochLoaded /\ ReclaimedNext /\ StageEmpty /\ HeldOnce /\ OnePusher

(* Book holds initially. *)
LEMMA BookInit == Init => Book
<1> SUFFICES ASSUME Init PROVE Book
  OBVIOUS
<1> USE ObjectAssumption DEF Init, EBRInit
<1>1. TypeOK
  <2>1. EBRTypeOK  BY InvInit DEF EBRInv
  <2>2. count \in 0 .. EBR_EPOCHS  BY DEF EBR_EPOCHS
  <2>3. full \in BOOLEAN  OBVIOUS
  <2>4. epoch_list \in [Epochs -> SUBSET Objects]  OBVIOUS
  <2>5. QED  BY <2>1, <2>2, <2>3, <2>4 DEF TypeOK, Statuses, GcLabels
<1>2. EpochLoaded /\ ReclaimedNext /\ StageEmpty
  BY Clock DEF EpochLoaded, ReclaimedNext, StageEmpty, GcEpoch, Epochs
<1>3. HeldOnce /\ OnePusher
  BY DEF HeldOnce, OnePusher
<1>4. QED  BY <1>1, <1>2, <1>3 DEF Book

(* The steps of the workers keep Book. *)
LEMMA BookWork ==
  ASSUME Book, NEW w \in Workers, Work(w)
  PROVE  Book'
<1> USE ObjectAssumption DEF Book, TypeOK, OnePusher, limbovars, gcvars, uservars, pushvars
<1>1. UNCHANGED <<epoch_list, count, full, global_epoch, sync_pc, epoch>>
  BY DEF Work, Acquire, Unlink, LimboRead, LimboSwap, LimboRetry, CritExit, CritStore, Member,
         Exit, EnterStore, Register, Unregister, EnterLoad, ebrvars, syncvars
<1>2. EBRTypeOK'
  <2>1. CASE UNCHANGED ebrvars  BY <2>1 DEF EBRTypeOK, ebrvars
  <2>2. CASE ~UNCHANGED ebrvars
    BY <2>2, WorkerTypes DEF Work, Acquire, Unlink, LimboRead, LimboSwap, LimboRetry, CritExit, CritStore, Member
  <2>3. QED  BY <2>1, <2>2
<1>3. EpochLoaded' /\ ReclaimedNext' /\ StageEmpty'
  BY <1>1 DEF EpochLoaded, ReclaimedNext, StageEmpty, GcEpoch, StagingEpoch
<1>4. CASE \E o \in Objects : Acquire(w, o)
  BY <1>1, <1>2, <1>3, <1>4 DEF Acquire, HeldOnce
<1>5. CASE \E o \in Objects : Unlink(w, o)
  BY <1>1, <1>2, <1>3, <1>5 DEF Unlink, HeldOnce, Statuses
<1>6. CASE LimboRead(w)
  BY <1>1, <1>2, <1>3, <1>6 DEF LimboRead, HeldOnce
<1>7. CASE LimboSwap(w)
  BY <1>1, <1>2, <1>3, <1>7 DEF LimboSwap, HeldOnce
<1>8. CASE LimboRetry(w)
  BY <1>1, <1>2, <1>3, <1>8 DEF LimboRetry, HeldOnce
<1>9. CASE CritExit(w)
  BY <1>1, <1>2, <1>3, <1>9 DEF CritExit, HeldOnce
<1>10. CASE CritStore(w) \/ Member(w)
  BY <1>1, <1>2, <1>3, <1>10 DEF CritStore, Member, HeldOnce
<1>11. QED  BY <1>4, <1>5, <1>6, <1>7, <1>8, <1>9, <1>10 DEF Work

(* A new object is on no list. *)
LEMMA BookLink ==
  ASSUME Book, NEW o \in Objects, Link(o)
  PROVE  Book'
<1> USE DEF Book, Link, ebrvars, limbovars, gcvars, pushvars
<1>1. TypeOK'
  BY DEF TypeOK, EBRTypeOK, Statuses
<1>2. EpochLoaded' /\ ReclaimedNext' /\ StageEmpty'
  BY DEF EpochLoaded, ReclaimedNext, StageEmpty, GcEpoch, StagingEpoch
<1>3. HeldOnce' /\ OnePusher'
  BY DEF HeldOnce, OnePusher, TypeOK
<1>4. QED  BY <1>1, <1>2, <1>3

(* The steps of ebr_sync keep Book: an announcement turns the list that    *)
(* was reclaimed last into the one that is staged next.                    *)
LEMMA BookSync ==
  ASSUME Book, GcSync
  PROVE  Book'
<1> USE DEF Book, GcSync, limbovars, gcvars, uservars, pushvars
<1>1. EBRTypeOK' /\ sync_pc' \in {"first", "scan", "busy", "new"}
  BY SyncTypes DEF TypeOK
<1>2. TypeOK'
  BY <1>1 DEF TypeOK, GcLabels, SyncLabels
<1>3. HeldOnce' /\ OnePusher'
  BY DEF HeldOnce, OnePusher
<1>4. EpochLoaded' /\ ReclaimedNext' /\ StageEmpty'
  <2> USE DEF EpochLoaded, ReclaimedNext, StageEmpty, GcEpoch, StagingEpoch, Waiting
  <2>1. CASE SyncLoad  BY <2>1 DEF SyncLoad
  <2>2. CASE SyncFirst  BY <2>2 DEF SyncFirst
  <2>3. CASE SyncPass  BY <2>3 DEF SyncPass
  <2>4. CASE SyncBusy  BY <2>4 DEF SyncBusy
  <2>5. CASE SyncFreed  BY <2>5 DEF SyncFreed
  <2>6. CASE SyncAnnounce  BY <2>6 DEF SyncAnnounce
  <2>7. QED  BY <2>1, <2>2, <2>3, <2>4, <2>5, <2>6 DEF Sync
<1>5. QED  BY <1>2, <1>3, <1>4

(* The steps of gc_cycle and gc_full keep Book. *)
LEMMA BookCycle ==
  ASSUME Book, CycleStart \/ CycleBusy \/ CycleStage \/ CycleNext \/ CycleReclaim \/ FullAgain \/ FullDone
  PROVE  Book'
<1> USE DEF Book, limbovars, uservars, pushvars, gcvars, EpochLoaded, Waiting
<1>1. UNCHANGED <<global_epoch, epoch, list, local_epoch, observed, cur, todo, raced>>
  BY DEF CycleStart, CycleBusy, CycleStage, CycleNext, CycleReclaim, FullAgain, FullDone, CycleReturn, Resume
<1>2. EBRTypeOK'
  BY <1>1 DEF EBRTypeOK, TypeOK
<1>3. GcEpoch \in Epochs /\ StagingEpoch \in Epochs /\ GcEpoch # StagingEpoch
  BY Clock DEF GcEpoch, StagingEpoch, TypeOK, EBRTypeOK
<1>4. GcEpoch' = GcEpoch /\ StagingEpoch' = StagingEpoch
  BY <1>1 DEF GcEpoch, StagingEpoch
<1>5. CASE CycleStart \/ CycleBusy \/ FullAgain \/ FullDone
  <2>1. UNCHANGED <<status, refs, ent, head, pushing, limbo, limbo_head, epoch_list>>
    BY <1>5 DEF CycleStart, CycleBusy, FullAgain, FullDone
  <2>2. sync_pc \in Waiting /\ sync_pc' \in {"idle", "load", "check"}
    BY <1>5 DEF CycleStart, CycleBusy, FullAgain, FullDone, CycleReturn, Resume
  <2>3. count' \in 0 .. EBR_EPOCHS
    BY <1>5 DEF CycleStart, CycleBusy, FullAgain, FullDone, TypeOK, EBR_EPOCHS
  <2>4. full' \in BOOLEAN
    BY <1>5 DEF CycleStart, CycleBusy, FullAgain, FullDone, TypeOK
  <2>5. QED
    BY <1>2, <1>4, <2>1, <2>2, <2>3, <2>4 DEF TypeOK, GcLabels, SyncLabels, ReclaimedNext, StageEmpty, HeldOnce, OnePusher
<1>6. CASE CycleStage
  <2>1. /\ epoch_list[StagingEpoch] = {}
        /\ epoch_list' = [epoch_list EXCEPT ![StagingEpoch] = limbo]
        /\ limbo' = {} /\ limbo_head' = NULL /\ sync_pc' = "reclaim"
    BY <1>6 DEF CycleStage, StageEmpty, Resume
  <2>2. UNCHANGED <<status, refs, ent, head, pushing, count, full>>
    BY <1>6 DEF CycleStage
  <2>3. TypeOK' /\ ReclaimedNext' /\ StageEmpty'
    BY <1>2, <1>3, <2>1, <2>2 DEF TypeOK, GcLabels, ReclaimedNext, StageEmpty
  <2>4. HeldOnce' /\ OnePusher'
    BY <1>3, <2>1, <2>2 DEF HeldOnce, OnePusher, TypeOK
  <2>5. QED  BY <2>1, <2>3, <2>4
<1>7. CASE CycleNext
  <2>1. /\ epoch_list[GcEpoch] = {} /\ count' \in 0 .. EBR_EPOCHS /\ sync_pc' = "load"
        /\ UNCHANGED <<status, refs, ent, head, pushing, limbo, limbo_head, epoch_list, full>>
    BY <1>7 DEF CycleNext, Resume, TypeOK, EBR_EPOCHS
  <2>2. QED
    BY <1>2, <1>4, <2>1 DEF TypeOK, GcLabels, SyncLabels, ReclaimedNext, StageEmpty, HeldOnce, OnePusher
<1>8. CASE CycleReclaim
  <2>1. /\ status' = [o \in Objects |-> IF o \in epoch_list[GcEpoch] THEN "free" ELSE status[o]]
        /\ epoch_list' = [epoch_list EXCEPT ![GcEpoch] = {}]
        /\ sync_pc' \in {"idle", "check"}
        /\ UNCHANGED <<refs, ent, head, pushing, limbo, limbo_head, count, full>>
    BY <1>8 DEF CycleReclaim, CycleReturn, Resume, Reclaimed
  <2>2. TypeOK' /\ ReclaimedNext' /\ StageEmpty'
    BY <1>2, <1>3, <1>4, <2>1 DEF TypeOK, GcLabels, Statuses, ReclaimedNext, StageEmpty
  <2>3. HeldOnce' /\ OnePusher'
    BY <1>3, <2>1, ObjectAssumption DEF HeldOnce, OnePusher, TypeOK
  <2>4. QED  BY <2>1, <2>2, <2>3
<1>9. QED  BY <1>5, <1>6, <1>7, <1>8

(* Book is inductive. *)
LEMMA BookStep == Book /\ [Next]_vars => Book'
<1> SUFFICES ASSUME Book, [Next]_vars PROVE Book'
  OBVIOUS
<1>1. CASE Next
  BY <1>1, BookWork, BookLink, BookSync, BookCycle DEF Next, Collect
<1>2. CASE UNCHANGED vars
  BY <1>2 DEF vars, ebrvars, uservars, pushvars, limbovars, gcvars, Book, TypeOK, EBRTypeOK, EpochLoaded,
              ReclaimedNext, StageEmpty, HeldOnce, OnePusher, GcEpoch, StagingEpoch
<1>3. QED  BY <1>1, <1>2

(* Book is an invariant, also while workers unregister under a scan. *)
LEMMA BookInvariant == Spec => []Book
  BY BookInit, BookStep, PTL DEF Spec

(* The types of the collector and of the workers, for any number of them.  *)
THEOREM CollectorTyped == Spec => []TypeOK
<1>1. Book => TypeOK
  BY DEF Book
<1>2. QED  BY BookInvariant, <1>1, PTL

(* The assertion of gc_cycle (gc.c:155) never fails, for any workers and   *)
(* objects: when an epoch is announced, the list it will stage over was    *)
(* reclaimed two announcements ago.                                        *)
THEOREM StagesOverEmpty == Spec => []StageEmpty
<1>1. Book => StageEmpty
  BY DEF Book
<1>2. QED  BY BookInvariant, <1>1, PTL

(* An object handed to gc_limbo is on exactly one list until it is freed   *)
(* once, however the pushes of gc_limbo and the swap of the collector      *)
(* interleave (gc.c:129-132, 156), for any workers and objects.            *)
THEOREM Bookkeeping == Spec => []HeldOnce
<1>1. Book => HeldOnce
  BY DEF Book
<1>2. QED  BY BookInvariant, <1>1, PTL
-----------------------------------------------------------------------------
(* Safety: an object is staged under an epoch e only when it is unlinked,  *)
(* so the workers that hold it were active before the scan that ends e.    *)
(* They pass that scan with e as their epoch, and so none of them passes   *)
(* the next one, after which the objects of e are freed.                   *)

PrevEpoch == (global_epoch + 2) % 3

(* Worker w holds an object that is staged under epoch e. *)
Holds(w, e) == refs[w] \intersect epoch_list[e] # {}

(* The scan has yet to look at worker w. *)
Ahead(w) == w \in todo \/ cur = w

HeldInside == \A w \in Workers : refs[w] # {} => Active(w)

Separated == \A w \in Workers : /\ ~Holds(w, GcEpoch)
                                /\ Holds(w, PrevEpoch) => local_epoch[w] = PrevEpoch

Scanned == sync_pc = "scan" =>
              \A w \in Workers : /\ Holds(w, StagingEpoch) => Ahead(w) \/ local_epoch[w] = StagingEpoch
                                 /\ Holds(w, PrevEpoch) => Ahead(w)

SafeInv == /\ Book /\ EBRInv
           /\ HeldInside /\ NoUseAfterFree
           /\ ~raced => Separated /\ Scanned

(* SafeInv holds initially. *)
LEMMA SafeInit == Init => SafeInv
<1> SUFFICES ASSUME Init PROVE SafeInv
  OBVIOUS
<1>1. Book /\ EBRInv
  BY BookInit, InvInit DEF Init
<1>2. \A w \in Workers : refs[w] = {}
  BY DEF Init
<1>3. HeldInside /\ Separated /\ Scanned /\ NoUseAfterFree
  BY <1>2 DEF HeldInside, Separated, Scanned, NoUseAfterFree, Holds
<1>4. QED  BY <1>1, <1>3 DEF SafeInv

(* SafeInv carries over a step that changes no staged object and no epoch, *)
(* forgets no race, and of the workers that hold objects changes only what *)
(* they hold.                                                              *)
LEMMA SafeFrame ==
  ASSUME SafeInv, Book', EBRInv', HeldInside', NoUseAfterFree',
         UNCHANGED <<global_epoch, epoch_list, sync_pc>>, raced => raced',
         \A w \in Workers : \A e \in Epochs : Holds(w, e)' => Holds(w, e),
         \A w \in Workers : refs'[w] # {} => /\ local_epoch'[w] = local_epoch[w]
                                             /\ Ahead(w) => Ahead(w)'
  PROVE  SafeInv'
<1>1. GcEpoch' = GcEpoch /\ PrevEpoch' = PrevEpoch /\ StagingEpoch' = StagingEpoch
  BY DEF GcEpoch, PrevEpoch, StagingEpoch
<1>2. GcEpoch \in Epochs /\ PrevEpoch \in Epochs /\ StagingEpoch \in Epochs
  BY Clock DEF GcEpoch, PrevEpoch, StagingEpoch, SafeInv, EBRInv, EBRTypeOK
<1>3. \A w \in Workers : \A e \in Epochs : Holds(w, e)' => refs'[w] # {}
  BY DEF Holds
<1>4. Separated => Separated'
  BY <1>1, <1>2, <1>3 DEF Separated
<1>5. Scanned => Scanned'
  BY <1>1, <1>2, <1>3 DEF Scanned
<1>6. QED  BY <1>4, <1>5 DEF SafeInv

(* The steps of the workers keep SafeInv: a staged object is unlinked, and *)
(* only a linked one can be picked up.                                     *)
LEMMA SafeWork ==
  ASSUME SafeInv, NEW w \in Workers, Work(w)
  PROVE  SafeInv'
<1> USE DEF limbovars, gcvars, uservars, pushvars
<1>1. Book'  BY BookWork DEF SafeInv
<1>2. EBRInv'
  <2>1. CASE UNCHANGED ebrvars
    BY <2>1 DEF SafeInv, EBRInv, EBRTypeOK, Listed, ScanInv, Active, ebrvars
  <2>2. CASE ~UNCHANGED ebrvars
    BY <2>2, WorkerInv DEF SafeInv, Work, Acquire, Unlink, LimboRead, LimboSwap, LimboRetry, CritExit, CritStore, Member
  <2>3. QED  BY <2>1, <2>2
<1>3. UNCHANGED <<global_epoch, epoch_list, sync_pc>>
  BY DEF Work, Acquire, Unlink, LimboRead, LimboSwap, LimboRetry, CritExit, CritStore, Member,
         Exit, EnterStore, Register, Unregister, EnterLoad, ebrvars, syncvars
<1>9. raced => raced'
  <2>1. CASE UNCHANGED ebrvars  BY <2>1 DEF ebrvars
  <2>2. CASE ~UNCHANGED ebrvars
    BY <2>2, WorkerRaced
    DEF SafeInv, EBRInv, Work, Acquire, Unlink, LimboRead, LimboSwap, LimboRetry, CritExit, CritStore, Member
  <2>3. QED  BY <2>1, <2>2
<1>4. refs \in [Workers -> SUBSET Objects] /\ local_epoch \in [Workers -> Epochs \union {INACTIVE}]
      /\ status \in [Objects -> Statuses]
  BY DEF SafeInv, Book, TypeOK, EBRTypeOK
<1>5. CASE \E o \in Objects : Acquire(w, o)
  <2>1. PICK o \in Objects : Acquire(w, o)
    BY <1>5
  <2>2. \A e \in Epochs : o \notin epoch_list[e]
    BY <2>1 DEF Acquire, SafeInv, Book, HeldOnce
  <2>3. \A v \in Workers : \A e \in Epochs : Holds(v, e)' => Holds(v, e)
    BY <1>3, <1>4, <2>1, <2>2 DEF Holds, Acquire
  <2>4. HeldInside' /\ NoUseAfterFree'
    BY <1>4, <2>1 DEF SafeInv, HeldInside, NoUseAfterFree, Acquire, Active, ebrvars
  <2>5. QED
    BY <1>1, <1>2, <1>3, <1>9, <2>1, <2>3, <2>4, SafeFrame DEF Acquire, Ahead, ebrvars
<1>6. CASE CritExit(w)
  <2>1. \A v \in Workers : /\ v # w => refs'[v] = refs[v] /\ local_epoch'[v] = local_epoch[v]
                           /\ v = w => refs'[v] = {}
    BY <1>4, <1>6 DEF CritExit, Exit
  <2>2. HeldInside' /\ NoUseAfterFree'
    BY <1>6, <1>9, <2>1 DEF SafeInv, HeldInside, NoUseAfterFree, Active, CritExit
  <2>3. \A v \in Workers : \A e \in Epochs : Holds(v, e)' => Holds(v, e)
    BY <1>3, <2>1 DEF Holds
  <2>4. QED
    BY <1>1, <1>2, <1>3, <1>6, <1>9, <2>1, <2>2, <2>3, SafeFrame DEF CritExit, Exit, Ahead, syncvars
<1>7. CASE ~CritExit(w) /\ ~\E o \in Objects : Acquire(w, o)
  <2>1. refs' = refs
    BY <1>7 DEF Work, Unlink, LimboRead, LimboSwap, LimboRetry, CritStore, Member
  <2>2. \A v \in Workers : Active(v) => /\ local_epoch'[v] = local_epoch[v]
                                        /\ Ahead(v) => Ahead(v)'
    <3> USE <1>4 DEF Active, Ahead, SafeInv, EBRInv, Listed, syncvars
    <3>1. CASE UNCHANGED ebrvars  BY <3>1 DEF ebrvars
    <3>2. CASE Register(w)  BY <3>2 DEF Register
    <3>3. CASE EnterLoad(w)  BY <3>3 DEF EnterLoad
    <3>4. CASE EnterStore(w)  BY <3>4 DEF EnterStore
    <3>5. CASE Unregister(w)  BY <3>5 DEF Unregister
    <3>6. QED
      BY <1>7, <3>1, <3>2, <3>3, <3>4, <3>5
      DEF Work, Unlink, LimboRead, LimboSwap, LimboRetry, CritStore, Member
  <2>3. \A o \in Objects : status[o] # "free" => status'[o] # "free"
    BY <1>4, <1>7 DEF Work, Unlink, LimboRead, LimboSwap, LimboRetry, CritStore, Member
  <2>4. HeldInside' /\ NoUseAfterFree'
    BY <1>4, <1>9, <2>1, <2>2, <2>3 DEF SafeInv, HeldInside, NoUseAfterFree, Active
  <2>5. QED
    BY <1>1, <1>2, <1>3, <1>9, <2>1, <2>2, <2>4, SafeFrame DEF Holds, SafeInv, HeldInside
<1>8. QED  BY <1>5, <1>6, <1>7

(* A new object keeps SafeInv. *)
LEMMA SafeLink ==
  ASSUME SafeInv, NEW o \in Objects, Link(o)
  PROVE  SafeInv'
<1> USE DEF Link, ebrvars, limbovars, gcvars, pushvars
<1>1. Book'  BY BookLink DEF SafeInv
<1>2. EBRInv'
  BY DEF SafeInv, EBRInv, EBRTypeOK, Listed, ScanInv, Active
<1>3. HeldInside' /\ NoUseAfterFree'
  BY DEF SafeInv, HeldInside, NoUseAfterFree, Active, Book, TypeOK
<1>4. QED  BY <1>1, <1>2, <1>3, SafeFrame DEF Holds, Ahead

(* The steps of ebr_sync keep SafeInv. *)
LEMMA SafeSync ==
  ASSUME SafeInv, GcSync
  PROVE  SafeInv'
<1> USE DEF GcSync, limbovars, gcvars, uservars, pushvars
<1>1. Book' /\ EBRInv'
  BY BookSync, SyncInv DEF SafeInv
<1>2. UNCHANGED <<list, local_epoch, observed, refs, status, epoch_list, raced>>
  BY DEF Sync, SyncLoad, SyncFirst, SyncPass, SyncBusy, SyncFreed, SyncAnnounce
<1>3. HeldInside' /\ NoUseAfterFree'
  BY <1>2 DEF SafeInv, HeldInside, NoUseAfterFree, Active
<1>4. global_epoch \in Epochs
  BY DEF SafeInv, EBRInv, EBRTypeOK
<1>5. \A w \in Workers : \A e : Holds(w, e) => Active(w) /\ w \in list
  BY DEF SafeInv, HeldInside, Holds, EBRInv, Listed
<1>7. ASSUME ~raced PROVE Separated' /\ Scanned'
  <2> USE <1>7
  <2>1. CASE SyncAnnounce
    <3>1. global_epoch' = (global_epoch + 1) % 3 /\ sync_pc = "scan" /\ sync_pc' = "new"
      BY <2>1 DEF SyncAnnounce, SafeInv, Book, EpochLoaded
    <3>2. \A w \in Workers : ~Ahead(w)
      BY <2>1, WorkerAssumption DEF SyncAnnounce, SafeInv, EBRInv, ScanInv, Ahead
    <3>3. GcEpoch' = PrevEpoch /\ PrevEpoch' = StagingEpoch
      BY <1>4, <3>1, Clock DEF GcEpoch, PrevEpoch, StagingEpoch
    <3>4. \A w \in Workers : ~Holds(w, PrevEpoch)
      BY <3>1, <3>2 DEF SafeInv, Scanned
    <3>5. \A w \in Workers : Holds(w, StagingEpoch) => local_epoch[w] = StagingEpoch
      BY <3>1, <3>2 DEF SafeInv, Scanned
    <3>6. QED
      BY <1>2, <3>1, <3>3, <3>4, <3>5 DEF Separated, Scanned, Holds
  <2>2. CASE ~SyncAnnounce
    <3>1. UNCHANGED global_epoch
      BY <2>2 DEF Sync, SyncLoad, SyncFirst, SyncPass, SyncBusy, SyncFreed
    <3>2. UNCHANGED <<GcEpoch, PrevEpoch, StagingEpoch>>
      BY <3>1 DEF GcEpoch, PrevEpoch, StagingEpoch
    <3>3. Separated'
      BY <1>2, <3>2 DEF SafeInv, Separated, Holds
    <3>4. CASE SyncFirst
      <4>1. \A w \in list : Ahead(w)'
        BY <3>4 DEF SyncFirst, Advance, Ahead
      <4>2. QED
        BY <1>2, <1>5, <3>2, <3>3, <4>1 DEF Scanned, Holds
    <3>5. CASE SyncPass
      <4>1. /\ sync_pc = "scan" /\ cur \in Workers
            /\ local_epoch[cur] \in {INACTIVE, StagingEpoch}
        BY <3>5 DEF SyncPass, SafeInv, Book, EpochLoaded, StagingEpoch
      <4>2. \A w \in todo : Ahead(w)'
        BY <3>5 DEF SyncPass, Advance, Ahead
      <4>3. \A e : Holds(cur, e) => local_epoch[cur] = StagingEpoch
        BY <1>5, <4>1 DEF Active
      <4>4. ~Holds(cur, PrevEpoch)
        BY <1>4, <4>1, <4>3, Clock DEF SafeInv, Separated, PrevEpoch, StagingEpoch
      <4>5. \A w \in Workers : /\ Holds(w, StagingEpoch) => Ahead(w)' \/ local_epoch[w] = StagingEpoch
                               /\ Holds(w, PrevEpoch) => Ahead(w)'
        BY <4>1, <4>2, <4>3, <4>4 DEF SafeInv, Scanned, Ahead
      <4>6. QED
        BY <1>2, <3>2, <3>3, <4>5 DEF Scanned, Holds
    <3>6. CASE SyncLoad \/ SyncBusy
      BY <3>3, <3>6 DEF SyncLoad, SyncBusy, Scanned
    <3>7. CASE SyncFreed
      BY <3>7 DEF SyncFreed, SafeInv, EBRInv, ScanInv
    <3>8. QED  BY <2>2, <3>4, <3>5, <3>6, <3>7 DEF Sync
  <2>3. QED  BY <2>1, <2>2
<1>8. QED  BY <1>1, <1>2, <1>3, <1>7 DEF SafeInv

(* The steps of gc_cycle and gc_full keep SafeInv: what is reclaimed is    *)
(* held by no worker.                                                      *)
LEMMA SafeCycle ==
  ASSUME SafeInv, CycleStart \/ CycleBusy \/ CycleStage \/ CycleNext \/ CycleReclaim \/ FullAgain \/ FullDone
  PROVE  SafeInv'
<1> USE DEF limbovars, uservars, pushvars, gcvars
<1>1. UNCHANGED <<global_epoch, epoch, list, local_epoch, observed, cur, todo, refs, raced>>
  BY DEF CycleStart, CycleBusy, CycleStage, CycleNext, CycleReclaim, FullAgain, FullDone, CycleReturn, Resume
<1>2. sync_pc' \notin {"first", "scan"}
  BY DEF CycleStart, CycleBusy, CycleStage, CycleNext, CycleReclaim, FullAgain, FullDone, CycleReturn, Resume
<1>3. Book' /\ EBRInv'
  BY <1>1, <1>2, BookCycle DEF SafeInv, EBRInv, EBRTypeOK, Listed, ScanInv, Active
<1>4. GcEpoch' = GcEpoch /\ PrevEpoch' = PrevEpoch
  BY <1>1 DEF GcEpoch, PrevEpoch
<1>5. /\ GcEpoch \in Epochs /\ PrevEpoch \in Epochs /\ StagingEpoch \in Epochs
      /\ StagingEpoch # GcEpoch /\ StagingEpoch # PrevEpoch /\ GcEpoch # PrevEpoch
  BY Clock DEF GcEpoch, PrevEpoch, StagingEpoch, SafeInv, EBRInv, EBRTypeOK
<1>6. HeldInside' /\ Scanned'
  BY <1>1, <1>2 DEF SafeInv, HeldInside, Scanned, Active
<1>7. Separated => Separated'
  <2>1. \A e \in {GcEpoch, PrevEpoch} : epoch_list'[e] \in {epoch_list[e], {}}
    BY <1>5 DEF CycleStart, CycleBusy, CycleStage, CycleNext, CycleReclaim, FullAgain, FullDone,
                SafeInv, Book, TypeOK
  <2>2. QED
    BY <1>1, <1>4, <2>1 DEF Separated, Holds
<1>8. NoUseAfterFree'
  <2> SUFFICES ASSUME ~raced PROVE NoUseAfterFree'
    BY <1>1 DEF NoUseAfterFree
  <2>1. CASE CycleReclaim
    <3>1. \A w \in Workers : \A o \in refs[w] : o \in Objects /\ o \notin epoch_list[GcEpoch]
      BY DEF SafeInv, Separated, Holds, Book, TypeOK
    <3>2. QED
      BY <1>1, <2>1, <3>1 DEF CycleReclaim, Reclaimed, NoUseAfterFree, SafeInv
  <2>2. CASE ~CycleReclaim
    BY <1>1, <2>2 DEF NoUseAfterFree, SafeInv, CycleStart, CycleBusy, CycleStage, CycleNext, FullAgain, FullDone
  <2>3. QED  BY <2>1, <2>2
<1>9. QED  BY <1>1, <1>3, <1>6, <1>7, <1>8 DEF SafeInv

(* No object is freed while a worker that picked it up is still in its     *)
(* critical path (gc.c:161-170), for any number of workers and objects, as *)
(* long as none unregisters while the scan of ebr_sync is at its entry.    *)
THEOREM Safe == Spec => []NoUseAfterFree
<1>1. SafeInv /\ [Next]_vars => SafeInv'
  <2> SUFFICES ASSUME SafeInv, [Next]_vars PROVE SafeInv'
    OBVIOUS
  <2>1. CASE Next
    BY <2>1, SafeWork, SafeLink, SafeSync, SafeCycle DEF Next, Collect
  <2>2. CASE UNCHANGED vars
    <3> USE <2>2 DEF vars, ebrvars, uservars, pushvars, limbovars, gcvars
    <3>1. Book'  BY BookStep DEF SafeInv
    <3>2. EBRInv' /\ HeldInside' /\ NoUseAfterFree'
      BY DEF SafeInv, EBRInv, EBRTypeOK, Listed, ScanInv, Active, HeldInside, NoUseAfterFree
    <3>3. QED  BY <3>1, <3>2, SafeFrame DEF Holds, Ahead
  <2>3. QED  BY <2>1, <2>2
<1>2. SafeInv => NoUseAfterFree
  BY DEF SafeInv
<1>3. QED  BY SafeInit, <1>1, <1>2, PTL DEF Spec
=============================================================================
