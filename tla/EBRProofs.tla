----------------------------- MODULE EBRProofs -----------------------------
(* Facts about EBR that the proofs about its callers share. *)
EXTENDS EBR, TLAPS

(* Epochs are a clock with three hours. *)
LEMMA Clock ==
  ASSUME NEW e \in Epochs
  PROVE  /\ (e + 1) % 3 \in Epochs /\ (e + 2) % 3 \in Epochs
         /\ (e + 1) % 3 # e /\ (e + 2) % 3 # e /\ (e + 1) % 3 # (e + 2) % 3
         /\ (((e + 1) % 3) + 1) % 3 = (e + 2) % 3
         /\ (((e + 1) % 3) + 2) % 3 = e
         /\ (((e + 2) % 3) + 1) % 3 = e
         /\ e # INACTIVE
         /\ \A f \in Epochs : f \in {e, (e + 1) % 3, (e + 2) % 3}
<1>1. e = 0 \/ e = 1 \/ e = 2
  BY DEF Epochs
<1>2. CASE e = 0  BY <1>2 DEF Epochs, INACTIVE
<1>3. CASE e = 1  BY <1>3 DEF Epochs, INACTIVE
<1>4. CASE e = 2  BY <1>4 DEF Epochs, INACTIVE
<1>5. QED  BY <1>1, <1>2, <1>3, <1>4

(* The steps of a worker keep the types of EBR. *)
LEMMA WorkerTypes ==
  ASSUME EBRTypeOK, NEW w \in Workers,
         Register(w) \/ Unregister(w) \/ EnterLoad(w) \/ EnterStore(w) \/ Exit(w)
  PROVE  EBRTypeOK' /\ sync_pc' = sync_pc
<1> USE DEF EBRTypeOK, ebrvars, syncvars, INACTIVE, NOTHING
<1>1. CASE Register(w)  BY <1>1 DEF Register
<1>2. CASE Unregister(w)  BY <1>2 DEF Unregister
<1>3. CASE EnterLoad(w)  BY <1>3 DEF EnterLoad
<1>4. CASE EnterStore(w)  BY <1>4 DEF EnterStore
<1>5. CASE Exit(w)  BY <1>5 DEF Exit
<1>6. QED  BY <1>1, <1>2, <1>3, <1>4, <1>5

(* The steps of ebr_sync keep the types of EBR. *)
LEMMA SyncTypes ==
  ASSUME EBRTypeOK, Sync
  PROVE  EBRTypeOK' /\ sync_pc' \in {"first", "scan", "busy", "new"}
<1> USE DEF EBRTypeOK, Advance
<1>1. CASE SyncLoad  BY <1>1 DEF SyncLoad
<1>2. CASE SyncFirst  BY <1>2 DEF SyncFirst
<1>3. CASE SyncPass  BY <1>3 DEF SyncPass
<1>4. CASE SyncBusy  BY <1>4 DEF SyncBusy
<1>5. CASE SyncFreed  BY <1>5 DEF SyncFreed
<1>6. CASE SyncAnnounce
  BY <1>6, Clock DEF SyncAnnounce
<1>7. QED  BY <1>1, <1>2, <1>3, <1>4, <1>5, <1>6 DEF Sync

(* A caller that goes on after ebr_sync touches sync_pc alone. *)
LEMMA ResumeTypes ==
  ASSUME EBRTypeOK, NEW l, Resume(l)
  PROVE  EBRTypeOK' /\ sync_pc' = l
BY DEF EBRTypeOK, Resume
-----------------------------------------------------------------------------
(* A worker that announced an epoch, or is about to, is on the list; it    *)
(* does not enter a critical path from inside one.                         *)
Listed == \A w \in Workers : /\ Active(w) \/ observed[w] # NOTHING => w \in list
                             /\ Active(w) => observed[w] = NOTHING

(* ebr_sync has loaded the global epoch, which it alone changes, and its   *)
(* scan is on a freed entry only after a race.                             *)
ScanInv == /\ sync_pc \in {"first", "scan"} => epoch = global_epoch
           /\ sync_pc = "scan" /\ cur = NOENTRY => todo = {}
           /\ cur = FREED => raced

EBRInv == EBRTypeOK /\ Listed /\ ScanInv

(* EBRInv holds initially. *)
LEMMA InvInit == EBRInit => EBRInv
<1> SUFFICES ASSUME EBRInit PROVE EBRInv
  OBVIOUS
<1>1. raced \in BOOLEAN  BY DEF EBRInit
<1>2. QED
  BY <1>1, WorkerAssumption DEF EBRInit, EBRInv, EBRTypeOK, Listed, ScanInv, Epochs, Active, INACTIVE, NOTHING

(* The steps of a worker keep EBRInv. *)
LEMMA WorkerInv ==
  ASSUME EBRInv, NEW w \in Workers,
         Register(w) \/ Unregister(w) \/ EnterLoad(w) \/ EnterStore(w) \/ Exit(w)
  PROVE  EBRInv'
<1>1. EBRTypeOK'  BY WorkerTypes DEF EBRInv
<1> USE DEF EBRInv, EBRTypeOK, Listed, ScanInv, Active, syncvars
<1>2. CASE Unregister(w)  BY <1>1, <1>2, WorkerAssumption DEF Unregister
<1>3. CASE Register(w)  BY <1>1, <1>3 DEF Register
<1>4. CASE EnterLoad(w)  BY <1>1, <1>4 DEF EnterLoad
<1>5. CASE EnterStore(w)  BY <1>1, <1>5 DEF EnterStore
<1>6. CASE Exit(w)  BY <1>1, <1>6 DEF Exit
<1>7. QED  BY <1>2, <1>3, <1>4, <1>5, <1>6

(* A race is not forgotten. *)
LEMMA WorkerRaced ==
  ASSUME EBRTypeOK, NEW w \in Workers,
         Register(w) \/ Unregister(w) \/ EnterLoad(w) \/ EnterStore(w) \/ Exit(w)
  PROVE  raced => raced'
<1>1. CASE Unregister(w)
  <2>1. raced' = (raced \/ cur = w)  BY <1>1 DEF Unregister
  <2>2. QED  BY <2>1
<1>2. CASE ~Unregister(w)
  BY <1>2 DEF Register, EnterLoad, EnterStore, Exit
<1>3. QED  BY <1>1, <1>2

(* The steps of ebr_sync keep EBRInv. *)
LEMMA SyncInv ==
  ASSUME EBRInv, Sync
  PROVE  EBRInv'
<1>1. EBRTypeOK'  BY SyncTypes DEF EBRInv
<1>2. UNCHANGED <<list, local_epoch, observed>>
  BY DEF Sync, SyncLoad, SyncFirst, SyncPass, SyncBusy, SyncFreed, SyncAnnounce
<1>3. Listed'
  BY <1>2 DEF EBRInv, Listed, Active
<1>4. ScanInv'
  <2> USE WorkerAssumption DEF EBRInv, EBRTypeOK, ScanInv, Advance
  <2>1. CASE SyncLoad  BY <2>1 DEF SyncLoad
  <2>2. CASE SyncFirst  BY <2>2 DEF SyncFirst
  <2>3. CASE SyncPass  BY <2>3 DEF SyncPass
  <2>4. CASE SyncBusy  BY <2>4 DEF SyncBusy
  <2>5. CASE SyncFreed  BY <2>5 DEF SyncFreed
  <2>6. CASE SyncAnnounce  BY <2>6 DEF SyncAnnounce
  <2>7. QED  BY <2>1, <2>2, <2>3, <2>4, <2>5, <2>6 DEF Sync
<1>5. QED  BY <1>1, <1>3, <1>4 DEF EBRInv

(* A caller keeps EBRInv when it goes on with a step outside the scan. *)
LEMMA ResumeInv ==
  ASSUME EBRInv, NEW l, Resume(l), l \notin {"first", "scan"}
  PROVE  EBRInv'
BY DEF EBRInv, EBRTypeOK, Listed, ScanInv, Active, Resume
=============================================================================
