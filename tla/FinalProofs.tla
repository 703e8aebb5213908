---------------------------- MODULE FinalProofs ----------------------------
(***************************************************************************)
(* Proofs about the parts of MC_Final and about their like, for every      *)
(* value of the constants.                                                 *)
(*                                                                         *)
(* What processes keep outside themselves: the files at Ark (ArkFiles,     *)
(* here Files) and the objects in COS (CosObjects, here Objects).  What is *)
(* given to a request is not deleted by the cleanup of another one, and    *)
(* what is stored is listed, so that a reaper finds it.  In both the lease *)
(* is what keeps it: who deletes holds it alone.                           *)
(*                                                                         *)
(* The timeline of an episode (Timeline, here Line): what an answer is     *)
(* made into leads through the media, so that each anchor is grounded for  *)
(* one step; and the frames that are drawn for a contact come after every  *)
(* contact before it.                                                      *)
(*                                                                         *)
(* The output shard of a batch (JsonlShard, here Shard): no row is lost by *)
(* runs that may die anywhere, nor by what they repair and replace.        *)
(***************************************************************************)
EXTENDS MC_Final, Sequences, FiniteSetTheorems, SequenceTheorems, TLAPS

CONSTANTS Object, ObjectReaperOf

VARIABLES oPc, reaping, manifest, bucket, oFaults

Objects == INSTANCE CosObjects WITH pc <- oPc, faults <- oFaults, ReaperOf <- ObjectReaperOf

-----------------------------------------------------------------------------
(* Files at Ark.                                                           *)

Shared == {"leased", "resolving", "uploading", "processing", "open"}
Exclusive == {"erasing", "erased"}

(* Who holds the lease exclusively holds it alone.                         *)
FilesLeaseHeld ==
  \A a \in Files!Actor : fPc[a] \in Exclusive =>
    /\ \A r \in Reference : fPc[r] \notin Shared
    /\ \A b \in Files!Actor \ {a} : fPc[b] \notin Exclusive

(* Who waits for the processing of the recorded file has one.              *)
Recorded == \A r \in Reference : fPc[r] = "processing" => record # 0

(* The file of an open reference is there.                                 *)
OpenIsActive == \A r \in Reference : fPc[r] = "open" => held[r] # 0 /\ file[held[r]] = "active"

FilesInv == Files!TypeOK /\ FilesLeaseHeld /\ Recorded /\ OpenIsActive

(* The invariant holds at first.                                           *)
LEMMA FilesStart == ASSUME Files!ArkFilesAssumption, Files!Init PROVE FilesInv
  <1>1. Files!TypeOK
    <2>1. seen \in [Reaper -> SUBSET Reference] /\ marker \subseteq Reference
      BY DEF Files!Init
    <2>2. /\ fPc \in [Files!Actor -> Files!ReferenceState \cup Files!ReaperState]
          /\ \A a \in Files!Actor : fPc[a] = "idle"
      BY DEF Files!Init, Files!ReferenceState, Files!ReaperState
    <2>3. \A a \in Files!Actor : fPc[a] \in Files!ReferenceState \cap Files!ReaperState
      BY <2>2 DEF Files!ReferenceState, Files!ReaperState
    <2>4. file \in [Files!Upload -> {"none", "processing", "active", "failed", "deleted", "gone"}]
      BY DEF Files!Init
    <2>5. held \in [Reference -> 0 .. MaxUploads] /\ record \in 0 .. MaxUploads
          /\ fFaults \in 0 .. MaxFaults
      BY DEF Files!Init, Files!ArkFilesAssumption
    <2> QED
      BY <2>1, <2>2, <2>3, <2>4, <2>5 DEF Files!Init, Files!TypeOK, Files!Actor
  <1>2. FilesLeaseHeld /\ Recorded /\ OpenIsActive
    BY DEF Files!Init, FilesLeaseHeld, Recorded, OpenIsActive, Files!Actor, Exclusive
  <1> QED
    BY <1>1, <1>2 DEF FilesInv

(* Every variable keeps its type.                                          *)
LEMMA FilesTypeStep ==
  ASSUME Files!ArkFilesAssumption, FilesInv, [Files!Next]_(Files!vars) PROVE Files!TypeOK'
  <1> USE DEF Files!ArkFilesAssumption, FilesInv, Files!TypeOK, Files!Actor, Files!Upload,
         Files!ReferenceState, Files!ReaperState, Files!Goto, Files!Fault,
              Files!provider, Files!cache, Files!history
  <1>1. ASSUME NEW r \in Reference,
               \/ Files!Acquire(r) \/ Files!Lock(r) \/ Files!Fail(r)
               \/ Files!Refresh(r) \/ Files!Close(r)
        PROVE  Files!TypeOK'
    <2>1. \E where \in {"leased", "resolving", "closing"} : Files!Goto(r, where)
      BY <1>1 DEF Files!Acquire, Files!Lock, Files!Fail, Files!Refresh, Files!Close
    <2>2. UNCHANGED <<held, file, old, lost, record, erased, marker, seen, fFaults, fCrashed, overtaken>>
      BY <1>1 DEF Files!Acquire, Files!Lock, Files!Fail, Files!Refresh, Files!Close
    <2> QED
      BY <2>1, <2>2
  <1>2. ASSUME NEW r \in Reference, Files!Reuse(r) \/ Files!Ready(r)
        PROVE  Files!TypeOK'
    <2>1. held' \in [Reference -> 0 .. MaxUploads] /\ Files!Goto(r, "open")
      BY <1>2 DEF Files!Reuse, Files!Ready
    <2> QED
      BY <1>2, <2>1 DEF Files!Reuse, Files!Ready
  <1>12. ASSUME NEW r \in Reference, Files!Look(r)
         PROVE  Files!TypeOK'
    <2>1. Files!Goto(r, "processing") \/ Files!Goto(r, "uploading")
      BY <1>12 DEF Files!Look
    <2> QED
      BY <1>12, <2>1 DEF Files!Look
  <1>13. ASSUME NEW r \in Reference, Files!Defer(r)
         PROVE  Files!TypeOK'
    BY <1>13 DEF Files!Defer
  <1>3. ASSUME NEW r \in Reference, Files!Send(r)
        PROVE  Files!TypeOK'
    <2>1. record' \in 0 .. MaxUploads
          /\ file' \in [Files!Upload -> {"none", "processing", "active", "failed", "deleted", "gone"}]
      BY <1>3 DEF Files!Send
    <2> QED
      BY <1>3, <2>1 DEF Files!Send
  <1>4. ASSUME NEW r \in Reference, Files!LoseSend(r)
        PROVE  Files!TypeOK'
    BY <1>4 DEF Files!LoseSend
  <1>8. ASSUME NEW a \in Files!Actor, Files!Claim(a) \/ Files!NothingToErase(a) \/ Files!Record(a)
        PROVE  Files!TypeOK'
    <2>1. \E where \in {"deferring", "judging", "erasing", "closed", "comparing"} :
            /\ Files!Goto(a, where)
            /\ a \in Reference => where \in Files!ReferenceState
            /\ a \in Reaper => where \in Files!ReaperState
      BY <1>8 DEF Files!Claim, Files!NothingToErase, Files!Record, Files!Missed
    <2>2. /\ erased' \in BOOLEAN
          /\ UNCHANGED <<held, file, old, lost, record, marker, seen, fFaults, fCrashed, overtaken>>
      BY <1>8 DEF Files!Claim, Files!NothingToErase, Files!Record
    <2> QED
      BY <2>1, <2>2
  <1>9. ASSUME NEW a \in Files!Actor, Files!Erase(a) \/ Files!EraseFails(a)
        PROVE  Files!TypeOK'
    <2>1. file' \in [Files!Upload -> {"none", "processing", "active", "failed", "deleted", "gone"}]
      BY <1>9 DEF Files!Erase, Files!EraseFails
    <2>2. \E where \in {"deferring", "judging", "erased"} :
            /\ Files!Goto(a, where)
            /\ a \in Reference => where \in Files!ReferenceState
            /\ a \in Reaper => where \in Files!ReaperState
      BY <1>9 DEF Files!Erase, Files!EraseFails, Files!Missed
    <2>3. /\ fFaults' \in 0 .. MaxFaults
          /\ UNCHANGED <<held, old, lost, record, erased, marker, seen, fCrashed, overtaken>>
      BY <1>9 DEF Files!Erase, Files!EraseFails
    <2> QED
      BY <2>1, <2>2, <2>3
  <1>10. ASSUME NEW p \in Reaper, Files!ReadMarker(p)
         PROVE  Files!TypeOK'
    BY <1>10 DEF Files!ReadMarker
  <1>11. ASSUME NEW p \in Reaper, Files!Judge(p) \/ Files!Compare(p) \/ Files!Unlink(p) \/ Files!Sleep(p)
         PROVE  Files!TypeOK'
    <2>1. CASE Files!Judge(p)
      BY <2>1 DEF Files!Judge
    <2>2. CASE Files!Compare(p)
      BY <2>2 DEF Files!Compare
    <2>3. CASE Files!Unlink(p)
      BY <2>3 DEF Files!Unlink
    <2>4. CASE Files!Sleep(p)
      BY <2>4 DEF Files!Sleep, Files!vars
    <2> QED
      BY <1>11, <2>1, <2>2, <2>3, <2>4
  <1>5. CASE \E p \in Reaper : Files!Crash(p)
    BY <1>5 DEF Files!Crash
  <1>6. ASSUME NEW u \in Files!Upload, Files!Process(u) \/ Files!Age(u) \/ Files!Expire(u)
        PROVE  Files!TypeOK'
    <2>1. file' \in [Files!Upload -> {"none", "processing", "active", "failed", "deleted", "gone"}]
      BY <1>6 DEF Files!Process, Files!Age, Files!Expire
    <2> QED
      BY <1>6, <2>1 DEF Files!Process, Files!Age, Files!Expire
  <1>7. CASE UNCHANGED Files!vars
    BY <1>7 DEF Files!vars
  <1> QED
    BY <1>1, <1>2, <1>3, <1>4, <1>5, <1>6, <1>7, <1>8, <1>9, <1>10, <1>11,
       <1>12, <1>13
    DEF Files!Next, Files!Use, Files!Resolve, Files!Reap, Files!CleanUp

(* The lease, the record and the file of an open reference.                *)
LEMMA FilesLeaseStep == ASSUME Files!ArkFilesAssumption, FilesInv, [Files!Next]_(Files!vars)
                   PROVE FilesLeaseHeld' /\ Recorded' /\ OpenIsActive'
  <1> USE DEF Files!ArkFilesAssumption, FilesInv, Files!TypeOK, Files!Actor, Files!Upload,
         Files!Goto, Files!Fault, Files!provider, Files!cache, Files!history,
              FilesLeaseHeld, Recorded, OpenIsActive, Shared, Exclusive
  <1>1. CASE \E r \in Reference : Files!Acquire(r)
    BY <1>1 DEF Files!Acquire, Files!LeaseExclusive
  <1>2. ASSUME NEW r \in Reference, Files!Lock(r) \/ Files!Fail(r)
        PROVE  FilesLeaseHeld' /\ Recorded' /\ OpenIsActive'
    <2>1. CASE Files!Lock(r)
      BY <2>1 DEF Files!Lock
    <2>2. CASE Files!Fail(r)
      BY <2>2 DEF Files!Fail
    <2> QED
      BY <1>2, <2>1, <2>2
  <1>12. ASSUME NEW r \in Reference, Files!Refresh(r) \/ Files!Close(r) \/ Files!Defer(r)
         PROVE  FilesLeaseHeld' /\ Recorded' /\ OpenIsActive'
    <2>1. CASE Files!Refresh(r)
      BY <2>1 DEF Files!Refresh
    <2>2. CASE Files!Close(r)
      BY <2>2 DEF Files!Close
    <2>3. CASE Files!Defer(r)
      BY <2>3 DEF Files!Defer
    <2> QED
      BY <1>12, <2>1, <2>2, <2>3
  <1>3. ASSUME NEW r \in Reference, Files!Reuse(r)
        PROVE  FilesLeaseHeld' /\ Recorded' /\ OpenIsActive'
    BY <1>3 DEF Files!Reuse, Files!Trusted
  <1>13. ASSUME NEW r \in Reference, Files!Look(r)
         PROVE  FilesLeaseHeld' /\ Recorded' /\ OpenIsActive'
    BY <1>13 DEF Files!Look, Files!Trusted
  <1>14. ASSUME NEW r \in Reference, Files!Ready(r)
         PROVE  FilesLeaseHeld' /\ Recorded' /\ OpenIsActive'
    BY <1>14 DEF Files!Ready
  <1>4. ASSUME NEW r \in Reference, Files!Send(r) \/ Files!LoseSend(r)
        PROVE  FilesLeaseHeld' /\ Recorded' /\ OpenIsActive'
    <2>1. PICK u \in Files!Upload : Files!IsNext(u) /\ file' = [file EXCEPT ![u] = "processing"]
      BY <1>4 DEF Files!Send, Files!LoseSend
    <2>2. \A s \in Reference : fPc[s] = "open" => held[s] # u
      BY <2>1 DEF Files!IsNext
    <2>3. OpenIsActive'
      BY <1>4, <2>1, <2>2 DEF Files!Send, Files!LoseSend
    <2>4. FilesLeaseHeld'
      BY <1>4 DEF Files!Send, Files!LoseSend
    <2>5. Recorded'
      BY <1>4 DEF Files!Send, Files!LoseSend
    <2> QED
      BY <2>3, <2>4, <2>5
  <1>5. CASE \E a \in Files!Actor : Files!Claim(a)
    BY <1>5 DEF Files!Claim, Files!Missed, Files!LeaseShared, Files!LeaseExclusive
  <1>6. ASSUME NEW a \in Files!Actor, Files!NothingToErase(a) \/ Files!Record(a)
        PROVE  FilesLeaseHeld' /\ Recorded' /\ OpenIsActive'
    <2>1. CASE Files!NothingToErase(a)
      BY <2>1 DEF Files!NothingToErase, Files!Missed
    <2>2. CASE Files!Record(a)
      BY <2>2 DEF Files!Record
    <2> QED
      BY <1>6, <2>1, <2>2
  <1>7. CASE \E a \in Files!Actor : Files!Erase(a) \/ Files!EraseFails(a)
    BY <1>7 DEF Files!Erase, Files!EraseFails, Files!Missed
  <1>8. ASSUME NEW p \in Reaper, Files!ReadMarker(p) \/ Files!Judge(p) \/ Files!Compare(p)
        PROVE  FilesLeaseHeld' /\ Recorded' /\ OpenIsActive'
    BY <1>8 DEF Files!ReadMarker, Files!Judge, Files!Compare
  <1>15. ASSUME NEW p \in Reaper, Files!Unlink(p) \/ Files!Sleep(p)
         PROVE  FilesLeaseHeld' /\ Recorded' /\ OpenIsActive'
    BY <1>15 DEF Files!Unlink, Files!Sleep, Files!vars
  <1>9. CASE \E p \in Reaper : Files!Crash(p)
    BY <1>9 DEF Files!Crash
  <1>10. CASE \E u \in Files!Upload : Files!Process(u) \/ Files!Age(u) \/ Files!Expire(u)
    BY <1>10 DEF Files!Process, Files!Age, Files!Expire
  <1>11. CASE UNCHANGED Files!vars
    BY <1>11 DEF Files!vars
  <1> QED
    BY <1>1, <1>2, <1>3, <1>4, <1>5, <1>6, <1>7, <1>8, <1>9, <1>10, <1>11,
       <1>12, <1>13, <1>14, <1>15
    DEF Files!Next, Files!Use, Files!Resolve, Files!Reap, Files!CleanUp

(* The inductive invariant of the files at Ark holds in every reachable    *)
(* state.                                                                  *)
THEOREM FilesInvariant == ASSUME Files!ArkFilesAssumption PROVE Files!Spec => []FilesInv
  <1>1. Files!Init => FilesInv
    BY FilesStart
  <1>2. FilesInv /\ [Files!Next]_(Files!vars) => FilesInv'
    BY FilesTypeStep, FilesLeaseStep DEF FilesInv
  <1> QED
    BY <1>1, <1>2, PTL DEF Files!Spec

(* Every variable of ArkFiles has its type.                                *)
THEOREM FilesTypes == ASSUME Files!ArkFilesAssumption PROVE Files!Spec => []Files!TypeOK
  <1>1. FilesInv => Files!TypeOK
    BY DEF FilesInv
  <1> QED
    BY FilesInvariant, <1>1, PTL

(* What a reference gives to its requests is never deleted by the cleanup  *)
(* of another request or process.                                          *)
THEOREM FileKept == ASSUME Files!ArkFilesAssumption PROVE Files!Spec => []LeaseProtects
  <1>1. FilesInv => LeaseProtects
    BY DEF FilesInv, OpenIsActive, LeaseProtects, Files!LeaseProtects
  <1> QED
    BY FilesInvariant, <1>1, PTL

(* A marker, in the file or as a reaper read it, is of a reference that    *)
(* has closed: nobody writes the same one again.                           *)
MarkersAreOld ==
  /\ \A r \in marker : fPc[r] = "closed"
  /\ \A p \in Reaper : \A r \in seen[p] : fPc[r] = "closed"

(* The recorded file is there and is to be deleted some day.               *)
Leftover == ~ fCrashed /\ ~ overtaken /\ record # 0 /\ ~ erased /\ Files!Live(record)

(* It has a reference that will see to it, or a marker that no reaper      *)
(* takes for the one whose file it has seen deleted.                       *)
Attended == \E r \in Reference : fPc[r] \notin {"idle", "closed"}
Marked == /\ marker # {}
          /\ \A p \in Reaper : fPc[p] \in {"comparing", "unlinking"} => marker # seen[p]

LeftoverIsKnown == Leftover => Attended \/ Marked

(* A step of any actor keeps both: an attending reference leaves with a    *)
(* marker of its own, and a marker is unlinked for an older file only.     *)
LEMMA AttendedStep ==
  ASSUME Files!ArkFilesAssumption, FilesInv, MarkersAreOld, LeftoverIsKnown,
         [Files!Next]_(Files!vars)
  PROVE  LeftoverIsKnown' /\ MarkersAreOld'
  <1> USE DEF Files!ArkFilesAssumption, FilesInv, Files!TypeOK, Files!Actor, Files!Upload,
         Files!ReferenceState, Files!ReaperState, Files!Goto, Files!Fault, Files!Live,
         Files!provider, Files!cache, Files!history,
         MarkersAreOld, Leftover, Attended, Marked, LeftoverIsKnown
  <1>1. ASSUME NEW r \in Reference, Files!Acquire(r)
        PROVE  LeftoverIsKnown' /\ MarkersAreOld'
    BY <1>1 DEF Files!Acquire
  <1>2. ASSUME NEW r \in Reference, Files!Lock(r) \/ Files!Reuse(r)
        PROVE  LeftoverIsKnown' /\ MarkersAreOld'
    <2>1. CASE Files!Lock(r)
      BY <2>1 DEF Files!Lock
    <2>2. CASE Files!Reuse(r)
      BY <2>2 DEF Files!Reuse
    <2> QED
      BY <1>2, <2>1, <2>2
  <1>3. ASSUME NEW r \in Reference, Files!Look(r)
        PROVE  LeftoverIsKnown' /\ MarkersAreOld'
    <2>1. fPc[r] = "resolving" /\ \E w \in {"processing", "uploading"} : Files!Goto(r, w)
      BY <1>3 DEF Files!Look
    <2>2. UNCHANGED <<held, Files!provider, Files!cache, marker, seen, fFaults, Files!history>>
      BY <1>3 DEF Files!Look
    <2> QED
      BY <2>1, <2>2
  <1>4. ASSUME NEW r \in Reference, Files!Send(r) \/ Files!LoseSend(r)
        PROVE  LeftoverIsKnown' /\ MarkersAreOld'
    <2>1. fPc[r] = "uploading" /\ \E w \in {"processing", "closing"} : Files!Goto(r, w)
      BY <1>4 DEF Files!Send, Files!LoseSend
    <2>2. UNCHANGED <<marker, seen>>
      BY <1>4 DEF Files!Send, Files!LoseSend
    <2>3. Attended'
      BY <2>1
    <2> QED
      BY <2>1, <2>2, <2>3
  <1>5. ASSUME NEW r \in Reference,
               Files!Ready(r) \/ Files!Fail(r) \/ Files!Refresh(r) \/ Files!Close(r)
        PROVE  LeftoverIsKnown' /\ MarkersAreOld'
    <2>1. /\ fPc[r] \in {"leased", "resolving", "uploading", "processing", "open"}
          /\ \E w \in {"leased", "open", "closing"} : Files!Goto(r, w)
      BY <1>5 DEF Files!Ready, Files!Fail, Files!Refresh, Files!Close
    <2>2. UNCHANGED <<marker, seen>>
      BY <1>5 DEF Files!Ready, Files!Fail, Files!Refresh, Files!Close
    <2>3. Attended'
      BY <2>1
    <2> QED
      BY <2>1, <2>2, <2>3
  <1>6. ASSUME NEW r \in Reference, Files!Defer(r)
        PROVE  LeftoverIsKnown' /\ MarkersAreOld'
    <2>1. /\ fPc[r] = "deferring" /\ marker' = {r} /\ seen' = seen
          /\ fPc' = [fPc EXCEPT ![r] = "closed"]
      BY <1>6 DEF Files!Defer
    <2>2. \A p \in Reaper : seen'[p] # {r}
      BY <2>1
    <2>3. Marked' /\ MarkersAreOld'
      BY <2>1, <2>2
    <2> QED
      BY <2>3
  <1>7. ASSUME NEW a \in Files!Actor, Files!Claim(a) \/ Files!NothingToErase(a)
        PROVE  LeftoverIsKnown' /\ MarkersAreOld'
    <2>1. /\ fPc[a] \in {"closing", "erasing"}
          /\ \E w \in {"deferring", "judging", "erasing"} : Files!Goto(a, w)
      BY <1>7 DEF Files!Claim, Files!NothingToErase, Files!Missed
    <2>2. UNCHANGED <<held, Files!provider, Files!cache, marker, seen, fFaults, Files!history>>
      BY <1>7 DEF Files!Claim, Files!NothingToErase
    <2> QED
      BY <2>1, <2>2
  <1>8. ASSUME NEW a \in Files!Actor, Files!Erase(a)
        PROVE  LeftoverIsKnown' /\ MarkersAreOld'
    <2>1. fPc[a] = "erasing" /\ Files!Goto(a, "erased") /\ file' = [file EXCEPT ![record] = "deleted"]
      BY <1>8 DEF Files!Erase
    <2>2. record # 0 /\ UNCHANGED <<Files!cache, marker, seen, Files!history>>
      BY <1>8 DEF Files!Erase
    <2>3. ~ Leftover'
      BY <2>1, <2>2
    <2> QED
      BY <2>1, <2>2, <2>3
  <1>9. ASSUME NEW a \in Files!Actor, Files!EraseFails(a)
        PROVE  LeftoverIsKnown' /\ MarkersAreOld'
    <2>1. fPc[a] = "erasing" /\ \E w \in {"deferring", "judging"} : Files!Goto(a, w)
      BY <1>9 DEF Files!EraseFails, Files!Missed
    <2>2. record # 0 /\ UNCHANGED <<Files!cache, marker, seen, Files!history>>
      BY <1>9 DEF Files!EraseFails
    <2>3. Leftover' => Leftover
      BY <1>9, <2>2 DEF Files!EraseFails
    <2>4. Attended => Attended'
      BY <2>1
    <2>5. Marked => Marked'
      BY <2>1, <2>2
    <2> QED
      BY <2>1, <2>2, <2>3, <2>4, <2>5
  <1>10. ASSUME NEW a \in Files!Actor, Files!Record(a)
         PROVE  LeftoverIsKnown' /\ MarkersAreOld'
    <2>1. fPc[a] = "erased" /\ \E w \in {"closed", "comparing"} : Files!Goto(a, w)
      BY <1>10 DEF Files!Record
    <2>2. erased' = TRUE /\ UNCHANGED <<marker, seen>>
      BY <1>10 DEF Files!Record
    <2> QED
      BY <2>1, <2>2
  <1>11. ASSUME NEW p \in Reaper, Files!ReadMarker(p) \/ Files!Judge(p)
         PROVE  LeftoverIsKnown' /\ MarkersAreOld'
    <2>1. Attended => Attended'
      BY <1>11 DEF Files!ReadMarker, Files!Judge
    <2>2. Leftover' => Leftover
      BY <1>11 DEF Files!ReadMarker, Files!Judge
    <2>3. Leftover /\ Marked => Marked'
      BY <1>11 DEF Files!ReadMarker, Files!Judge
    <2>4. MarkersAreOld'
      BY <1>11 DEF Files!ReadMarker, Files!Judge
    <2> QED
      BY <2>1, <2>2, <2>3, <2>4
  <1>12. ASSUME NEW p \in Reaper, Files!Compare(p) \/ Files!Unlink(p) \/ Files!Sleep(p)
         PROVE  LeftoverIsKnown' /\ MarkersAreOld'
    <2>1. Attended => Attended'
      BY <1>12 DEF Files!Compare, Files!Unlink, Files!Sleep, Files!vars
    <2>2. Leftover' => Leftover
      BY <1>12 DEF Files!Compare, Files!Unlink, Files!Sleep, Files!vars
    <2>3. Leftover' /\ Marked => Marked'
      BY <1>12 DEF Files!Compare, Files!Unlink, Files!Sleep, Files!vars
    <2>4. MarkersAreOld'
      BY <1>12 DEF Files!Compare, Files!Unlink, Files!Sleep, Files!vars
    <2> QED
      BY <2>1, <2>2, <2>3, <2>4
  <1>13. ASSUME NEW p \in Reaper, Files!Crash(p)
         PROVE  LeftoverIsKnown' /\ MarkersAreOld'
    BY <1>13 DEF Files!Crash
  <1>14. ASSUME NEW u \in Files!Upload, Files!Process(u) \/ Files!Age(u) \/ Files!Expire(u)
         PROVE  LeftoverIsKnown' /\ MarkersAreOld'
    <2>1. UNCHANGED <<fPc, Files!cache, marker, seen, Files!history>>
      BY <1>14 DEF Files!Process, Files!Age, Files!Expire
    <2>2. Leftover' => Leftover
      BY <1>14, <2>1 DEF Files!Process, Files!Age, Files!Expire
    <2> QED
      BY <2>1, <2>2
  <1>15. CASE UNCHANGED Files!vars
    BY <1>15 DEF Files!vars
  <1> QED
    BY <1>1, <1>2, <1>3, <1>4, <1>5, <1>6, <1>7, <1>8, <1>9, <1>10, <1>11,
       <1>12, <1>13, <1>14, <1>15
    DEF Files!Next, Files!Use, Files!Resolve, Files!Reap, Files!CleanUp

(* "Persist a missed cleanup so a transient lease never becomes a leak":   *)
(* for any number of requests and processes, when the last reference has   *)
(* closed and no process died, the file is deleted or a marker tells the   *)
(* reapers to, unless a marker was overtaken.                              *)
THEOREM NothingElseLeaks == ASSUME Files!ArkFilesAssumption PROVE Files!Spec => []NoOtherLeak
  <1>1. Files!Init => MarkersAreOld /\ LeftoverIsKnown
    BY DEF Files!Init, MarkersAreOld, LeftoverIsKnown, Leftover
  <1>2. FilesInv /\ MarkersAreOld /\ LeftoverIsKnown /\ [Files!Next]_(Files!vars)
          => MarkersAreOld' /\ LeftoverIsKnown'
    BY AttendedStep
  <1>3. LeftoverIsKnown => NoOtherLeak
    BY DEF LeftoverIsKnown, Leftover, Attended, Marked, NoOtherLeak, Files!NoOtherLeak, Files!NoLeak
  <1> QED
    BY <1>1, <1>2, <1>3, FilesInvariant, PTL DEF Files!Spec

-----------------------------------------------------------------------------
(* Objects in COS.                                                         *)

Deleting == {"claimed", "deleted"}

(* Who deletes an object holds its lease alone.                            *)
ObjectLeaseHeld ==
  \A p \in Reaper, o \in Object : reaping[p][o] \in Deleting =>
    oPc[o] = "closed" /\ \A q \in Reaper \ {p} : reaping[q][o] \notin Deleting

(* An object is listed while it is sent or used, and never before.         *)
ListedInTime ==
  \A o \in Object :
    /\ oPc[o] \in {"listed", "open"} => o \in manifest
    /\ oPc[o] \in {"idle", "leased"} =>
         o \notin manifest /\ \A p \in Reaper : reaping[p][o] = "idle"

(* "The durable manifest already makes this object recoverable by the      *)
(* cleanup reaper": no object is in the bucket without its manifest.       *)
SentIsListed == bucket \subseteq manifest

(* A manifest is removed only after its object.                            *)
DeletedIsGone ==
  \A p \in Reaper, o \in Object : reaping[p][o] = "deleted" => o \notin bucket

ObjectsInv ==
  /\ Objects!TypeOK /\ ObjectLeaseHeld /\ ListedInTime /\ SentIsListed /\ DeletedIsGone
  /\ Objects!OpenIsThere

(* The invariant holds at first.                                           *)
LEMMA ObjectsStart == ASSUME Objects!CosObjectsAssumption, Objects!Init PROVE ObjectsInv
  <1>1. Objects!TypeOK
    BY DEF Objects!Init, Objects!TypeOK, Objects!CosObjectsAssumption
  <1>2. ObjectLeaseHeld /\ ListedInTime
    BY DEF Objects!Init, ObjectLeaseHeld, ListedInTime, Deleting
  <1>3. SentIsListed /\ DeletedIsGone /\ Objects!OpenIsThere
    BY DEF Objects!Init, SentIsListed, DeletedIsGone, Objects!OpenIsThere
  <1> QED
    BY <1>1, <1>2, <1>3 DEF ObjectsInv

(* A step of the request that uploads o keeps the invariant.               *)
LEMMA ObjectPublished ==
  ASSUME Objects!CosObjectsAssumption, ObjectsInv, NEW o \in Object, Objects!Publish(o)
  PROVE  ObjectsInv'
  <1> USE DEF ObjectsInv, Objects!TypeOK, ObjectLeaseHeld, ListedInTime, SentIsListed,
         DeletedIsGone, Objects!OpenIsThere,
              Deleting, Objects!Goto, Objects!Fault, Objects!CosObjectsAssumption
  <1>1. CASE Objects!Acquire(o)
    BY <1>1 DEF Objects!Acquire
  <1>2. CASE Objects!List(o)
    BY <1>2 DEF Objects!List, Objects!Listed
  <1>3. CASE Objects!Send(o)
    BY <1>3 DEF Objects!Send
  <1>4. CASE Objects!SendFails(o)
    BY <1>4 DEF Objects!SendFails
  <1>5. CASE Objects!Close(o)
    BY <1>5 DEF Objects!Close
  <1> QED
    BY <1>1, <1>2, <1>3, <1>4, <1>5 DEF Objects!Publish

(* The deletion itself: the object is leased to the cleanup thread alone.  *)
LEMMA ObjectDeleted ==
  ASSUME ObjectsInv, NEW p \in Reaper, NEW o \in Object, Objects!Delete(p, o)
  PROVE  ObjectsInv'
  <1> USE DEF ObjectsInv, Objects!TypeOK, Objects!ReaperAt, Objects!Delete
  <1>1. Objects!TypeOK'
    OBVIOUS
  <1>2. ObjectLeaseHeld'
    BY DEF ObjectLeaseHeld, Deleting
  <1>3. ListedInTime'
    BY DEF ListedInTime
  <1>4. SentIsListed'
    BY DEF SentIsListed
  <1>5. DeletedIsGone'
    <2>1. bucket' \subseteq bucket
      OBVIOUS
    <2>2. ASSUME NEW q \in Reaper, NEW d \in Object, reaping'[q][d] = "deleted"
          PROVE  reaping[q][d] = "deleted" \/ d \notin bucket'
      BY <2>2
    <2> QED
      BY <2>1, <2>2 DEF DeletedIsGone
  <1>6. Objects!OpenIsThere'
    BY DEF Objects!OpenIsThere, ObjectLeaseHeld, Deleting
  <1> QED
    BY <1>1, <1>2, <1>3, <1>4, <1>5, <1>6

(* A step of a cleanup thread keeps the invariant.                         *)
LEMMA ObjectReaped ==
  ASSUME Objects!CosObjectsAssumption, ObjectsInv, NEW p \in Reaper, NEW o \in Object, Objects!Reap(p, o)
  PROVE  ObjectsInv'
  <1> USE DEF ObjectsInv, Objects!TypeOK, ObjectLeaseHeld, ListedInTime, SentIsListed,
         DeletedIsGone, Objects!OpenIsThere,
              Deleting, Objects!ReaperAt, Objects!Fault, Objects!CosObjectsAssumption
  <1>1. CASE Objects!Find(p, o)
    BY <1>1 DEF Objects!Find
  <1>2. CASE Objects!Claim(p, o)
    BY <1>2 DEF Objects!Claim, Objects!Leased
  <1>3. CASE Objects!Delete(p, o)
    BY <1>3, ObjectDeleted
  <1>4. CASE Objects!DeleteFails(p, o)
    BY <1>4 DEF Objects!DeleteFails
  <1>5. CASE Objects!Unlist(p, o)
    BY <1>5 DEF Objects!Unlist
  <1> QED
    BY <1>1, <1>2, <1>3, <1>4, <1>5 DEF Objects!Reap

(* The death of a process frees its leases and keeps the invariant.        *)
LEMMA ObjectCrash ==
  ASSUME Objects!CosObjectsAssumption, ObjectsInv, NEW p \in Reaper, Objects!Crash(p)
  PROVE  ObjectsInv'
  <1> USE DEF ObjectsInv
  <1>1. Objects!TypeOK'
    BY DEF Objects!Crash, Objects!Fault, Objects!TypeOK, Objects!CosObjectsAssumption
  <1>2. ObjectLeaseHeld'
    BY DEF Objects!Crash, Objects!TypeOK, ObjectLeaseHeld, Deleting
  <1>3. ListedInTime'
    BY DEF Objects!Crash, Objects!TypeOK, ListedInTime
  <1>4. SentIsListed' /\ DeletedIsGone' /\ Objects!OpenIsThere'
    BY DEF Objects!Crash, Objects!TypeOK, SentIsListed, DeletedIsGone, Objects!OpenIsThere
  <1> QED
    BY <1>1, <1>2, <1>3, <1>4

(* Every step keeps the invariant.                                         *)
LEMMA ObjectsStep ==
  ASSUME Objects!CosObjectsAssumption, ObjectsInv, [Objects!Next]_(Objects!vars) PROVE ObjectsInv'
  <1>1. CASE UNCHANGED Objects!vars
    BY <1>1
       DEF Objects!vars, ObjectsInv, Objects!TypeOK, ObjectLeaseHeld, ListedInTime,
              SentIsListed, DeletedIsGone, Objects!OpenIsThere
  <1> QED
    BY <1>1, ObjectPublished, ObjectReaped, ObjectCrash DEF Objects!Next, Objects!Sleep

(* Who uploads, who deletes and what is listed, in each state of an object *)
(* and in any number of processes.                                         *)
THEOREM ObjectsInvariant == ASSUME Objects!CosObjectsAssumption PROVE Objects!Spec => []ObjectsInv
  <1>1. Objects!Init => ObjectsInv
    BY ObjectsStart
  <1>2. ObjectsInv /\ [Objects!Next]_(Objects!vars) => ObjectsInv'
    BY ObjectsStep
  <1> QED
    BY <1>1, <1>2, PTL DEF Objects!Spec

(* The types of the variables.                                             *)
THEOREM ObjectTypes == ASSUME Objects!CosObjectsAssumption PROVE Objects!Spec => []Objects!TypeOK
  <1>1. ObjectsInv => Objects!TypeOK
    BY DEF ObjectsInv
  <1> QED
    BY <1>1, ObjectsInvariant, PTL

(* A signed URL in use leads to an object: no reaper of another process    *)
(* deletes it, and none that began before the object was sent.             *)
THEOREM ObjectKept == ASSUME Objects!CosObjectsAssumption PROVE Objects!Spec => []Objects!OpenIsThere
  <1>1. ObjectsInv => Objects!OpenIsThere
    BY DEF ObjectsInv
  <1> QED
    BY <1>1, ObjectsInvariant, PTL

(* Every object in the bucket is in a manifest, so a cleanup thread finds  *)
(* it after any failure or death.                                          *)
THEOREM ObjectListed == ASSUME Objects!CosObjectsAssumption PROVE Objects!Spec => []SentIsListed
  <1>1. ObjectsInv => SentIsListed
    BY DEF ObjectsInv
  <1> QED
    BY <1>1, ObjectsInvariant, PTL
-----------------------------------------------------------------------------
(* The timeline of an episode.                                             *)

(* The subtasks have integer times.                                        *)
StepsAreTimed == \A i \in DOMAIN steps : steps[i].from \in Int /\ steps[i].to \in Int

(* The maximum of a set of integers is the member that no other exceeds.   *)
LEMMA MaxIsLargest ==
  ASSUME NEW S \in SUBSET Int, NEW m \in S, \A k \in S : m >= k
  PROVE  Line!Max(S) \in S /\ \A k \in S : Line!Max(S) >= k
  BY DEF Line!Max

(* The minimum of a set of integers is the member that exceeds no other.   *)
LEMMA MinIsSmallest ==
  ASSUME NEW S \in SUBSET Int, NEW m \in S, \A k \in S : m <= k
  PROVE  Line!Min(S) \in S /\ \A k \in S : Line!Min(S) <= k
  BY DEF Line!Min

(* What frames are clamped and compared with are four numbers at most.     *)
LEMMA MaxOfFour ==
  ASSUME NEW a \in Int, NEW b \in Int, NEW c \in Int, NEW d \in Int
  PROVE  /\ Line!Max({a, b, c, d}) \in {a, b, c, d}
         /\ \A k \in {a, b, c, d} : Line!Max({a, b, c, d}) >= k
  <1>1. PICK m \in {a, b, c, d} : \A k \in {a, b, c, d} : m >= k
    OBVIOUS
  <1> QED
    BY <1>1, MaxIsLargest

(* The minimum of them.                                                    *)
LEMMA MinOfFour ==
  ASSUME NEW a \in Int, NEW b \in Int, NEW c \in Int, NEW d \in Int
  PROVE  /\ Line!Min({a, b, c, d}) \in {a, b, c, d}
         /\ \A k \in {a, b, c, d} : Line!Min({a, b, c, d}) <= k
  <1>1. PICK m \in {a, b, c, d} : \A k \in {a, b, c, d} : m <= k
    OBVIOUS
  <1> QED
    BY <1>1, MinIsSmallest

(* The same of two numbers.                                                *)
LEMMA TwoOfFour ==
  ASSUME NEW a \in Int, NEW b \in Int
  PROVE  /\ Line!Max({a, b}) \in {a, b} /\ Line!Max({a, b}) >= a /\ Line!Max({a, b}) >= b
         /\ Line!Min({a, b}) \in {a, b} /\ Line!Min({a, b}) <= a /\ Line!Min({a, b}) <= b
  <1>1. {a, b} = {a, b, a, b}
    OBVIOUS
  <1> QED
    BY <1>1, MaxOfFour, MinOfFour

(* A time and the frames on both sides of it.                              *)
LEMMA FrameDivision ==
  ASSUME Line!TimelineAssumption, NEW time \in Int
  PROVE  /\ time \div Frame \in Int
         /\ Frame * (time \div Frame) <= time /\ time < Frame * (time \div Frame) + Frame
         /\ Line!CeilDiv(time, Frame) \in Int
         /\ time <= Frame * Line!CeilDiv(time, Frame)
  <1>1. Frame \in Nat \ {0}
    BY DEF Line!TimelineAssumption
  <1>2. ASSUME NEW k \in Int
        PROVE  /\ k \div Frame \in Int
               /\ Frame * (k \div Frame) <= k /\ k < Frame * (k \div Frame) + Frame
    BY <1>1
  <1>3. PICK q \in Int : q = (- time) \div Frame
    BY <1>2
  <1>4. Frame * q <= - time /\ Line!CeilDiv(time, Frame) = - q
    BY <1>2, <1>3 DEF Line!CeilDiv
  <1>5. Frame * (- q) = - (Frame * q)
    BY <1>1
  <1> QED
    BY <1>1, <1>2, <1>4, <1>5

(* Numbers of frames and their times are ordered alike.                    *)
LEMMA FrameOrder ==
  ASSUME Line!TimelineAssumption, NEW m \in Int, NEW n \in Int
  PROVE  /\ m <= n => m * Frame <= n * Frame
         /\ m * Frame <= n * Frame => m <= n
         /\ m * Frame \in Int /\ (m + 1) * Frame = m * Frame + Frame
         /\ m * Frame = Frame * m
  <1>1. Frame \in Nat \ {0}
    BY DEF Line!TimelineAssumption
  <1>2. m + 1 <= n => (m + 1) * Frame <= n * Frame
    BY <1>1
  <1>3. n + 1 <= m => (n + 1) * Frame <= m * Frame
    BY <1>1
  <1>4. (m + 1) * Frame = m * Frame + Frame /\ (n + 1) * Frame = n * Frame + Frame
    BY <1>1
  <1> QED
    BY <1>1, <1>2, <1>3, <1>4

(* A number that is clamped to a video is one of its frames.               *)
LEMMA ClampIsBetween ==
  ASSUME NEW t \in Int, NEW top \in Nat
  PROVE  Line!Clamp(0, t, top) \in 0 .. top
  <1>1. /\ Line!Max({0, t}) \in {0, t} /\ Line!Max({0, t}) >= 0
    BY TwoOfFour
  <1>2. PICK high \in {0, t} : high = Line!Max({0, t}) /\ high >= 0
    BY <1>1
  <1>3. high \in Int
    OBVIOUS
  <1>4. Line!Min({top, high}) \in {top, high} /\ Line!Min({top, high}) <= top
    BY <1>3, TwoOfFour
  <1>5. Line!Min({top, high}) \in 0 .. top
    BY <1>2, <1>3, <1>4
  <1> QED
    BY <1>2, <1>5 DEF Line!Clamp

(* Of the frames around a time there is a first and a last.                *)
LEMMA AroundIsInterval ==
  ASSUME Line!TimelineAssumption, count \in Nat \ {0}, NEW t \in Int
  PROVE  Line!Min(Line!Around(t)) \in Int /\ Line!Max(Line!Around(t)) \in Int
  <1>0. Frame \in Nat \ {0} /\ Window \in Nat /\ count - 1 \in Nat
    BY DEF Line!TimelineAssumption
  <1>1. PICK top \in Nat : top = (count - 1) * Frame
    BY <1>0
  <1>2. PICK p \in 0 .. top : p = Line!Clamp(0, t, top)
    BY <1>1, ClampIsBetween
  <1>3. p - Window \in Int /\ p + Window \in Int /\ 0 <= p + Window
    BY <1>0, <1>2
  <1>4. PICK q \in Int : q = (p - Window) \div Frame /\ Frame * q <= p - Window
    BY <1>3, FrameDivision
  <1>5. PICK u \in Int : u = Line!CeilDiv(p + Window, Frame) /\ p + Window <= Frame * u
    BY <1>3, FrameDivision
  <1>6. q * Frame = Frame * q /\ u * Frame = Frame * u /\ 0 * Frame = 0
    BY <1>0
  <1>7. q * Frame <= (count - 1) * Frame /\ q * Frame <= u * Frame /\ 0 * Frame <= u * Frame
    BY <1>0, <1>1, <1>2, <1>4, <1>5, <1>6
  <1>8. q <= count - 1 /\ q <= u /\ 0 <= u
    BY <1>0, <1>7, FrameOrder
  <1>9. PICK lo \in {0, q} : lo = Line!Max({0, q})
    BY TwoOfFour
  <1>10. PICK hi \in {count - 1, u} : hi = Line!Min({count - 1, u})
    BY <1>0, TwoOfFour
  <1>11. lo \in Int /\ hi \in Int /\ lo <= hi
    BY <1>0, <1>8, <1>9, <1>10
  <1>12. Line!Around(t) = lo .. hi
    BY <1>1, <1>2, <1>4, <1>5, <1>9, <1>10 DEF Line!Around
  <1>13. (lo .. hi) \in SUBSET Int /\ lo \in lo .. hi /\ hi \in lo .. hi
    BY <1>11
  <1>14. (\A k \in lo .. hi : lo <= k) /\ (\A k \in lo .. hi : hi >= k)
    BY <1>11
  <1>15. Line!Min(lo .. hi) \in lo .. hi /\ Line!Max(lo .. hi) \in lo .. hi
    BY <1>13, <1>14, MaxIsLargest, MinIsSmallest
  <1> QED
    BY <1>12, <1>13, <1>15

(* What is offered of an interval are numbers.                             *)
LEMMA BoundedAreNumbers ==
  ASSUME Line!TimelineAssumption, NEW low \in Int, NEW high \in Int, NEW important,
         NEW f \in Line!BoundedIndices(low, high, important)
  PROVE  f \in Int
  <1> DEFINE priority == important \cap (low .. high)
             spread == Offered - Line!Cardinality(priority)
             chosen == priority \cup (IF spread = 1 THEN {low}
                        ELSE {low + Line!RoundDiv(i * (high - low), spread - 1) : i \in 0 .. spread - 1})
  <1>1. spread \in Int
    <2>1. IsFiniteSet(low .. high) /\ priority \in SUBSET (low .. high)
      BY FS_Interval
    <2>2. Cardinality(priority) \in Nat
      BY <2>1, FS_Subset, FS_CardinalityType
    <2>3. Offered \in Int
      BY DEF Line!TimelineAssumption
    <2> QED
      BY <2>2, <2>3 DEF Line!Cardinality, Cardinality
  <1>2. ASSUME NEW a \in Int, NEW b \in Nat \ {0} PROVE Line!RoundDiv(a, b) \in Int
    BY <1>2 DEF Line!RoundDiv
  <1> HIDE DEF spread
  <1>3. ASSUME ~ spread <= 0 PROVE chosen \in SUBSET Int
    <2>1. spread # 1 => spread - 1 \in Nat \ {0}
      BY <1>1, <1>3
    <2>2. ASSUME NEW i \in 0 .. spread - 1, spread # 1
          PROVE  low + Line!RoundDiv(i * (high - low), spread - 1) \in Int
      <3>1. i \in Int
        BY <1>1
      <3>2. i * (high - low) \in Int
        BY <3>1
      <3>3. Line!RoundDiv(i * (high - low), spread - 1) \in Int
        BY <1>2, <2>1, <2>2, <3>2
      <3> QED
        BY <3>3
    <2> QED
      BY <2>2
  <1> HIDE DEF chosen
  <1>4. \/ f \in low .. high
        \/ ~ spread <= 0 /\ f \in chosen
    BY DEF Line!BoundedIndices, Line!Smallest, spread, chosen
  <1> QED
    BY <1>3, <1>4

(* The frames that are offered for a contact are numbers.                  *)
LEMMA OfferedAreFrames ==
  ASSUME Line!TimelineAssumption, count \in Nat \ {0}, NEW t \in Int, NEW f \in Line!Candidates(t)
  PROVE  f \in Int
  <1>1. PICK important :
          f \in Line!BoundedIndices(Line!Min(Line!Around(t)), Line!Max(Line!Around(t)), important)
    BY DEF Line!Candidates
  <1> QED
    BY <1>1, AroundIsInterval, BoundedAreNumbers

(* Contacts name frames; their times are rounded by a tick at most; and    *)
(* some are latest, of all of them and of any part.                        *)
Placed == [step : DOMAIN steps, frame : Int, time : Int]

ContactsInv ==
  /\ contact # <<>> => tVideo /\ tPhase = "accepted"
  /\ tVideo => count \in Nat \ {0}
  /\ contact \in Seq(Placed)
  /\ \A d \in DOMAIN contact : contact[d].time \in {contact[d].frame * Frame - 1, contact[d].frame * Frame}
  /\ \A S \in SUBSET DOMAIN contact : S # {} =>
       \E d \in S : \A e \in S : contact[e].time <= contact[d].time

LineInv == ContactsInv /\ NoContactBetween

(* What is known of a contact once it is placed: numbers.                  *)
LEMMA ContactIsPlaced ==
  ASSUME ContactsInv, StepsAreTimed, NEW d \in DOMAIN contact
  PROVE  /\ contact[d].time \in Int /\ contact[d].frame \in Int
         /\ steps[contact[d].step].from \in Int /\ steps[contact[d].step].to \in Int
         /\ count \in Nat \ {0}
  <1>1. contact[d] \in Placed
    BY DEF ContactsInv
  <1>2. /\ contact[d].time \in Int /\ contact[d].frame \in Int
        /\ contact[d].step \in DOMAIN steps
    BY <1>1 DEF Placed
  <1>3. contact # <<>>
    OBVIOUS
  <1>4. count \in Nat \ {0}
    BY <1>3 DEF ContactsInv
  <1> QED
    BY <1>2, <1>4 DEF StepsAreTimed

(* A frame that is drawn for a contact is before it, shows no contact, and *)
(* is after the latest of the contacts before it.                          *)
LEMMA DrawnIsAfterLatest ==
  ASSUME Line!TimelineAssumption, ContactsInv, StepsAreTimed,
         NEW c \in DOMAIN contact, NEW f \in Line!Eligible(c)
  PROVE  /\ f \in Int /\ f < contact[c].frame
         /\ \A d \in DOMAIN contact : f # contact[d].frame
         /\ Line!Earlier(c) # {} =>
              \E d \in Line!Earlier(c) :
                /\ \A e \in Line!Earlier(c) : contact[e].time <= contact[d].time
                /\ f >= contact[d].time \div Frame + 1 /\ f >= contact[d].frame + 1
  <1> DEFINE s == steps[contact[c].step]
             time == contact[c].time
  <1>1. /\ s.from \in Int /\ s.to \in Int /\ time \in Int /\ contact[c].frame \in Int
        /\ count - 1 \in Int /\ Lookback \in Int /\ Gap \in Int
        /\ \A d \in DOMAIN contact : contact[d].time \in Int /\ contact[d].frame \in Int
    BY ContactIsPlaced DEF Line!TimelineAssumption
  <1>2. /\ f \in Line!FirstQuery(c) .. Line!LastQuery(c)
        /\ \A d \in DOMAIN contact : f # contact[d].frame
    BY DEF Line!Eligible
  <1>3. f <= contact[c].frame - 1
    <2>1. PICK a \in Int : a = (time - Gap) \div Frame
      BY <1>1, FrameDivision
    <2>2. PICK b \in Int : b = Line!CeilDiv(s.to, Frame)
      BY <1>1, FrameDivision
    <2>3. PICK n \in Int : n = count - 1
      BY <1>1
    <2>4. PICK m \in Int : m = contact[c].frame - 1
      BY <1>1
    <2>5. PICK e \in Int : e = b - 1
      OBVIOUS
    <2>6. Line!LastQuery(c) = Line!Min({n, m, a, e})
      BY <2>1, <2>2, <2>3, <2>4, <2>5 DEF Line!LastQuery
    <2>7. Line!Min({n, m, a, e}) \in {n, m, a, e} /\ Line!Min({n, m, a, e}) <= m
      BY MinOfFour
    <2>8. f <= m
      BY <1>2, <2>6, <2>7
    <2> QED
      BY <2>4, <2>8
  <1>4. ASSUME Line!Earlier(c) # {}
        PROVE  \E d \in Line!Earlier(c) :
                 /\ \A e \in Line!Earlier(c) : contact[e].time <= contact[d].time
                 /\ f >= contact[d].time \div Frame + 1 /\ f >= contact[d].frame + 1
    <2> DEFINE d == Line!Latest(Line!Earlier(c))
    <2>1. Line!Earlier(c) \in SUBSET DOMAIN contact
      BY DEF Line!Earlier
    <2>2. d \in Line!Earlier(c) /\ \A e \in Line!Earlier(c) : contact[e].time <= contact[d].time
      BY <1>4, <2>1 DEF ContactsInv, Line!Latest
    <2>3. contact[d].time \in Int /\ contact[d].frame + 1 \in Int
      BY <1>1, <2>1, <2>2
    <2>4. PICK v \in Int : v = contact[d].time \div Frame + 1
      BY <2>3, FrameDivision
    <2>5. PICK low \in Int : low = Line!Max({s.from, time - Lookback})
      <3>1. time - Lookback \in Int
        BY <1>1
      <3> QED
        BY <1>1, <3>1, TwoOfFour
    <2>6. PICK u \in Int : u = Line!CeilDiv(low, Frame)
      BY FrameDivision
    <2>7. PICK w \in Int : w = contact[d].frame + 1
      BY <2>3
    <2>8. Line!FirstQuery(c) = Line!Max({0, u} \cup {v, w})
      BY <1>4, <2>4, <2>5, <2>6, <2>7 DEF Line!FirstQuery
    <2>9. {0, u} \cup {v, w} = {0, u, v, w}
      OBVIOUS
    <2>10. /\ Line!Max({0, u, v, w}) \in {0, u, v, w}
           /\ Line!Max({0, u, v, w}) >= v /\ Line!Max({0, u, v, w}) >= w
      <3>1. 0 \in Int
        OBVIOUS
      <3>2. /\ Line!Max({0, u, v, w}) \in {0, u, v, w}
            /\ \A k \in {0, u, v, w} : Line!Max({0, u, v, w}) >= k
        BY <3>1, MaxOfFour, Zenon
      <3> QED
        BY <3>2
    <2>11. PICK first \in Int : first = Line!FirstQuery(c) /\ first >= v /\ first >= w
      BY <2>8, <2>9, <2>10
    <2>12. f >= v /\ f >= w
      BY <1>2, <2>11
    <2> QED
      BY <2>2, <2>4, <2>7, <2>12
  <1> QED
    BY <1>1, <1>2, <1>3, <1>4

(* So no contact lies between it and the one that it is drawn for.         *)
LEMMA DrawnIsNext ==
  ASSUME Line!TimelineAssumption, ContactsInv, StepsAreTimed,
         NEW c \in DOMAIN contact, NEW f \in Line!Eligible(c), NEW d \in DOMAIN contact
  PROVE  /\ ~ (f <= contact[d].frame /\ contact[d].frame < contact[c].frame)
         /\ ~ (f * Frame < contact[d].time /\ contact[d].time < contact[c].time - 1)
  <1>1. \A e \in DOMAIN contact :
          /\ contact[e].time \in Int /\ contact[e].frame \in Int
          /\ contact[e].time <= contact[e].frame * Frame
          /\ contact[e].frame * Frame - 1 <= contact[e].time
    <2> SUFFICES ASSUME NEW e \in DOMAIN contact
                 PROVE  /\ contact[e].time \in Int /\ contact[e].frame \in Int
                        /\ contact[e].time <= contact[e].frame * Frame
                        /\ contact[e].frame * Frame - 1 <= contact[e].time
      OBVIOUS
    <2>1. contact[e].time \in Int /\ contact[e].frame \in Int
      BY ContactIsPlaced
    <2>2. contact[e].frame * Frame \in Int
      BY <2>1, FrameOrder
    <2>3. contact[e].time = contact[e].frame * Frame - 1 \/ contact[e].time = contact[e].frame * Frame
      BY DEF ContactsInv
    <2> QED
      BY <2>1, <2>2, <2>3
  <1>2. Frame \in Nat /\ Frame > 2
    BY DEF Line!TimelineAssumption
  <1>3. f \in Int /\ f < contact[c].frame /\ f # contact[d].frame
    BY DrawnIsAfterLatest
  <1>4. ASSUME d \in Line!Earlier(c)
        PROVE  f > contact[d].frame /\ f * Frame > contact[d].time
    <2>1. PICK b \in DOMAIN contact :
            /\ contact[d].time <= contact[b].time
            /\ f >= contact[b].time \div Frame + 1 /\ f >= contact[b].frame + 1
      BY <1>4, DrawnIsAfterLatest DEF Line!Earlier
    <2>2. contact[b].frame >= contact[d].frame
      <3>1. SUFFICES ASSUME contact[b].frame + 1 <= contact[d].frame PROVE FALSE
        BY <1>1
      <3>2. /\ (contact[b].frame + 1) * Frame <= contact[d].frame * Frame
            /\ (contact[b].frame + 1) * Frame = contact[b].frame * Frame + Frame
            /\ contact[b].frame * Frame \in Int /\ contact[d].frame * Frame \in Int
        BY <1>1, <3>1, FrameOrder
      <3>3. /\ contact[b].time <= contact[b].frame * Frame
            /\ contact[d].frame * Frame - 1 <= contact[d].time
            /\ contact[b].time \in Int /\ contact[d].time \in Int
        BY <1>1
      <3> QED
        BY <1>2, <2>1, <3>2, <3>3
    <2>3. PICK q \in Int : q = contact[b].time \div Frame /\ contact[b].time < Frame * q + Frame
      BY <1>1, FrameDivision
    <2>4. (q + 1) * Frame <= f * Frame /\ (q + 1) * Frame = Frame * q + Frame
          /\ f * Frame \in Int
      <3>1. q + 1 <= f /\ q + 1 \in Int
        BY <1>3, <2>1, <2>3
      <3> QED
        BY <1>3, <3>1, FrameOrder
    <2>5. /\ contact[b].frame \in Int /\ contact[b].time \in Int
          /\ contact[d].frame \in Int /\ contact[d].time \in Int
      BY <1>1
    <2>6. PICK k \in Int : k = f * Frame /\ Frame * q + Frame <= k
      BY <2>4
    <2>7. f > contact[d].frame
      BY <1>3, <2>1, <2>2, <2>5
    <2>8. PICK m \in Int : m = Frame * q + Frame /\ contact[b].time < m /\ m <= k
      BY <1>2, <2>3, <2>6
    <2>9. k > contact[d].time
      BY <2>1, <2>5, <2>8
    <2> QED
      BY <2>6, <2>7, <2>9
  <1>5. ASSUME contact[d].frame < contact[c].frame PROVE d \in Line!Earlier(c)
    <2>1. contact[d].frame + 1 <= contact[c].frame
      BY <1>1, <1>5
    <2>2. /\ (contact[d].frame + 1) * Frame <= contact[c].frame * Frame
          /\ (contact[d].frame + 1) * Frame = contact[d].frame * Frame + Frame
          /\ contact[c].frame * Frame \in Int /\ contact[d].frame * Frame \in Int
      BY <1>1, <2>1, FrameOrder
    <2>3. /\ contact[d].time <= contact[d].frame * Frame
          /\ contact[c].frame * Frame - 1 <= contact[c].time
          /\ contact[c].time \in Int /\ contact[d].time \in Int
      BY <1>1
    <2>4. contact[d].time < contact[c].time - 1
      BY <1>2, <2>2, <2>3
    <2> QED
      BY <2>4 DEF Line!Earlier
  <1>6. contact[d].time < contact[c].time - 1 => d \in Line!Earlier(c)
    BY DEF Line!Earlier
  <1>7. f * Frame \in Int
    BY <1>3, FrameOrder
  <1> QED
    BY <1>1, <1>3, <1>4, <1>5, <1>6, <1>7

(* Another contact keeps what is said of the contacts.                     *)
LEMMA PlaceKeeps ==
  ASSUME Line!TimelineAssumption, ContactsInv, Line!Place
  PROVE  ContactsInv'
  <1>1. PICK i \in DOMAIN steps, t \in Time :
          \E f \in Line!Candidates(t), rounding \in {0, 1} :
            contact' = Append(contact, [step |-> i, frame |-> f, time |-> f * Frame - rounding])
    BY DEF Line!Place
  <1>2. PICK f \in Line!Candidates(t), rounding \in {0, 1} :
          contact' = Append(contact, [step |-> i, frame |-> f, time |-> f * Frame - rounding])
    BY <1>1
  <1>3. tVideo /\ tPhase = "accepted" /\ UNCHANGED <<tVideo, count, tPhase, steps>>
    BY DEF Line!Place
  <1>4. f \in Int
    <2>1. t \in Int /\ count \in Nat \ {0}
      BY <1>3 DEF Line!TimelineAssumption, ContactsInv
    <2> QED
      BY <2>1, OfferedAreFrames
  <1>5. f * Frame \in Int /\ f * Frame - rounding \in {f * Frame - 1, f * Frame}
    BY <1>4, FrameOrder
  <1>6. PICK new \in Placed : /\ contact' = Append(contact, new)
                              /\ new.time \in {new.frame * Frame - 1, new.frame * Frame}
    BY <1>2, <1>4, <1>5 DEF Placed
  <1>7. /\ contact \in Seq(Placed) /\ contact' \in Seq(Placed)
        /\ Len(contact') = Len(contact) + 1 /\ contact'[Len(contact) + 1] = new
        /\ \A d \in DOMAIN contact : contact'[d] = contact[d]
        /\ DOMAIN contact' = DOMAIN contact \cup {Len(contact) + 1}
    BY <1>6 DEF ContactsInv
  <1>8. Placed' = Placed
    BY <1>3 DEF Placed
  <1>9. \A d \in DOMAIN contact' : contact'[d].time \in Int
    <2>1. \A d \in DOMAIN contact' : contact'[d] \in Placed
      BY <1>7
    <2> QED
      BY <2>1 DEF Placed
  <1>10. ASSUME NEW S \in SUBSET DOMAIN contact', S # {}
         PROVE  \E d \in S : \A e \in S : contact'[e].time <= contact'[d].time
    <2> DEFINE n == Len(contact) + 1
               T == S \ {n}
    <2>1. T \in SUBSET DOMAIN contact
      BY <1>7
    <2>2. CASE T = {}
      <3>1. S = {n}
        BY <1>10, <2>2
      <3> QED
        BY <1>7, <1>9, <3>1
    <2>3. CASE T # {}
      <3>1. PICK d \in T : \A e \in T : contact[e].time <= contact[d].time
        BY <2>1, <2>3 DEF ContactsInv
      <3>2. \A e \in T : contact'[e].time <= contact'[d].time
        BY <1>7, <2>1, <3>1
      <3>3. CASE n \notin S
        <4>1. T = S
          BY <3>3
        <4> QED
          BY <3>1, <3>2, <4>1
      <3>4. CASE n \in S /\ contact'[n].time <= contact'[d].time
        BY <3>1, <3>2, <3>4
      <3>5. CASE n \in S /\ ~ (contact'[n].time <= contact'[d].time)
        <4>1. \A e \in T : contact'[e].time <= contact'[n].time
          BY <1>9, <3>1, <3>2, <3>5
        <4>2. contact'[n].time <= contact'[n].time
          BY <1>9, <3>5
        <4> QED
          BY <3>5, <4>1, <4>2
      <3> QED
        BY <3>3, <3>4, <3>5
    <2> QED
      BY <2>2, <2>3
  <1>11. \A d \in DOMAIN contact' :
           contact'[d].time \in {contact'[d].frame * Frame - 1, contact'[d].frame * Frame}
    BY <1>6, <1>7 DEF ContactsInv
  <1> QED
    BY <1>3, <1>7, <1>8, <1>10, <1>11 DEF ContactsInv

(* Every step keeps what is said of contacts and observations.             *)
LEMMA LineStep ==
  ASSUME Line!TimelineAssumption, LineInv, StepsAreTimed, [Line!Next]_(Line!vars)
  PROVE  LineInv'
  <1> USE DEF LineInv
  <1>1. CASE Line!AnswerLas \/ Line!AnswerOperator \/ Line!AnswerChunks \/ Line!Load \/ Line!Validate
    <2>1. /\ tPhase \in {"asked", "answered"}
          /\ UNCHANGED <<tVideo, count, contact, query>>
      BY <1>1 DEF Line!AnswerLas, Line!AnswerOperator, Line!AnswerChunks, Line!Load,
             Line!Validate, Line!Answered
    <2>2. contact = <<>> /\ contact' = <<>>
      BY <2>1 DEF ContactsInv
    <2>3. ContactsInv'
      BY <2>1, <2>2 DEF ContactsInv
    <2>4. NoContactBetween'
      BY <2>1 DEF NoContactBetween, Line!NoContactBetween
    <2> QED
      BY <2>3, <2>4
  <1>2. CASE Line!Place
    <2>1. query' = Line!NoQuery
      BY <1>2 DEF Line!Place
    <2> QED
      BY <1>2, <2>1, PlaceKeeps DEF NoContactBetween, Line!NoContactBetween
  <1>3. CASE Line!Observe
    <2>1. UNCHANGED <<tVideo, count, tPhase, steps, contact>>
      BY <1>3 DEF Line!Observe
    <2>2. PICK c \in DOMAIN contact : \E f \in Line!Eligible(c) : query' = [of |-> c, frame |-> f]
      BY <1>3 DEF Line!Observe
    <2>3. PICK f \in Line!Eligible(c) : query' = [of |-> c, frame |-> f]
      BY <2>2
    <2>4. query'.of = c /\ query'.frame = f
      BY <2>3
    <2>5. NoContactBetween'
      BY <2>1, <2>4, DrawnIsAfterLatest, DrawnIsNext DEF NoContactBetween, Line!NoContactBetween
    <2> QED
      BY <2>1, <2>5 DEF ContactsInv, Placed
  <1>4. CASE UNCHANGED Line!vars
    BY <1>4 DEF Line!vars, ContactsInv, Placed, NoContactBetween, Line!NoContactBetween
  <1> QED
    BY <1>1, <1>2, <1>3, <1>4 DEF Line!Next

-----------------------------------------------------------------------------
(* Among numbers there is a least one.                                     *)
LEMMA LeastNumber ==
  ASSUME NEW S \in SUBSET Nat, S # {}
  PROVE  \E m \in S : \A k \in S : m <= k
  <1> DEFINE T == {0 .. n : n \in S}
  <1>1. T \in SUBSET FiniteSubsetsOf(Nat) /\ T # {}
    <2>1. \A n \in S : 0 .. n \in SUBSET Nat /\ IsFiniteSet(0 .. n)
      BY FS_Interval
    <2> QED
      BY <2>1 DEF FiniteSubsetsOf
  <1>2. PICK t \in T : \A u \in T : ~ (<<u, t>> \in StrictSubsetOrdering(Nat))
    BY <1>1, FS_StrictSubsetOrderingWellFounded, WFMin, Zenon
  <1>3. PICK m \in S : t = 0 .. m
    OBVIOUS
  <1>4. ASSUME NEW k \in S PROVE m <= k
    <2>1. SUFFICES ASSUME k < m PROVE FALSE
      OBVIOUS
    <2>2. 0 .. k \in T /\ (0 .. k) \subseteq (0 .. m) /\ m \in 0 .. m /\ m \notin 0 .. k
      BY <2>1
    <2>3. <<0 .. k, t>> \in StrictSubsetOrdering(Nat)
      BY <1>3, <2>2 DEF StrictSubsetOrdering
    <2> QED
      BY <1>2, <2>2, <2>3
  <1> QED
    BY <1>4

(* What holds of 0, and of a number if of the one before it, holds of all. *)
LEMMA Numbers ==
  ASSUME NEW N \in Nat, NEW S \in SUBSET (0 .. N), 0 \in S,
         \A k \in 1 .. N : k - 1 \in S => k \in S
  PROVE  S = 0 .. N
  <1>1. SUFFICES ASSUME (0 .. N) \ S # {} PROVE FALSE
    OBVIOUS
  <1>2. PICK m \in (0 .. N) \ S : \A k \in (0 .. N) \ S : m <= k
    <2>1. (0 .. N) \ S \in SUBSET Nat
      OBVIOUS
    <2> DEFINE T == (0 .. N) \ S
    <2> HIDE DEF T
    <2>2. \E m \in T : \A k \in T : m <= k
      BY <1>1, <2>1, LeastNumber DEF T
    <2>3. QED BY <2>2 DEF T
  <1>3. m \in 1 .. N /\ m - 1 \in S
    BY <1>2
  <1>4. QED BY <1>2, <1>3

(* A function that is defined by recursion is what its equation says: at 0 *)
(* it is base, and step makes the next value of the one before.            *)
Iterates(N, V, base, step) ==
  \E f \in [0 .. N -> V] :
    f[0] = base /\ \A n \in 1 .. N : f[n] = step[<<n, f[n - 1]>>]

(* The values are found one after the other.                               *)
LEMMA Recursion ==
  ASSUME NEW N \in Nat, NEW V, NEW base \in V, NEW step \in [Nat \X V -> V]
  PROVE  Iterates(N, V, base, step)
  <1> DEFINE Follows(f, k) ==
               f \in [0 .. k -> V] /\ f[0] = base /\ \A n \in 1 .. k : f[n] = step[<<n, f[n - 1]>>]
             S == {k \in 0 .. N : \E f \in [0 .. k -> V] : Follows(f, k)}
  <1>1. 0 \in S
    <2> DEFINE g == [n \in 0 .. 0 |-> base]
    <2>1. g \in [0 .. 0 -> V] /\ Follows(g, 0)
      OBVIOUS
    <2> HIDE DEF Follows, g
    <2>2. 0 \in 0 .. N
      OBVIOUS
    <2>3. QED BY <2>1, <2>2
  <1>2. ASSUME NEW k \in 1 .. N, k - 1 \in S PROVE k \in S
    <2>1. PICK f \in [0 .. k - 1 -> V] : Follows(f, k - 1)
      BY <1>2
    <2> DEFINE last == step[<<k, f[k - 1]>>]
               g == [n \in 0 .. k |-> IF n = k THEN last ELSE f[n]]
    <2>2. k \in Nat /\ k \in 0 .. N /\ last \in V
      BY <1>2, <2>1
    <2>3. /\ f[0] = base /\ \A n \in 0 .. k - 1 : f[n] \in V
          /\ \A n \in 1 .. k - 1 : f[n] = step[<<n, f[n - 1]>>]
      BY <2>1, <2>2
    <2> HIDE DEF last
    <2>4. g \in [0 .. k -> V] /\ g[0] = base
      BY <1>2, <2>2, <2>3
    <2>5. /\ \A n \in 0 .. k - 1 : g[n] = f[n]
          /\ g[k] = last
      BY <2>2
    <2> HIDE DEF g
    <2>6. \A n \in 1 .. k : g[n] = step[<<n, g[n - 1]>>]
      <3>1. ASSUME NEW n \in 1 .. k - 1 PROVE g[n] = step[<<n, g[n - 1]>>]
        <4>1. n \in 0 .. k - 1 /\ n - 1 \in 0 .. k - 1
          BY <2>2
        <4>2. QED BY <2>3, <2>5, <4>1
      <3>2. g[k] = step[<<k, g[k - 1]>>]
        <4>1. k - 1 \in 0 .. k - 1
          BY <1>2
        <4>2. QED BY <2>5, <4>1 DEF last
      <3>3. \A n \in 1 .. k : n = k \/ n \in 1 .. k - 1
        BY <2>2
      <3>4. QED BY <3>1, <3>2, <3>3
    <2>7. Follows(g, k)
      BY <2>4, <2>6
    <2> HIDE DEF Follows
    <2>8. QED BY <2>2, <2>4, <2>7
  <1>3. N \in S
    <2>1. S \in SUBSET (0 .. N)
      OBVIOUS
    <2> HIDE DEF S
    <2>2. QED BY <1>1, <1>2, <2>1, Numbers
  <1>4. PICK f \in [0 .. N -> V] : Follows(f, N)
    BY <1>3
  <1> HIDE DEF S
  <1>5. QED BY <1>4 DEF Follows, Iterates

(* So there is a function that equals its recursive definition.            *)
Recurs(N, V, base, step, f) ==
  /\ f \in [0 .. N -> V]
  /\ f = [n \in 0 .. N |-> IF n = 0 THEN base ELSE step[<<n, f[n - 1]>>]]

(* So the function that is chosen by its definition satisfies it.          *)
LEMMA Recursive ==
  ASSUME NEW N \in Nat, NEW V, NEW base \in V, NEW step \in [Nat \X V -> V]
  PROVE  \E f : Recurs(N, V, base, step, f)
  <1>1. PICK f \in [0 .. N -> V] :
          f[0] = base /\ \A n \in 1 .. N : f[n] = step[<<n, f[n - 1]>>]
    <2>1. Iterates(N, V, base, step)
      BY Recursion
    <2>2. QED BY <2>1 DEF Iterates
  <1>2. \A n \in 0 .. N : f[n] = IF n = 0 THEN base ELSE step[<<n, f[n - 1]>>]
    <2>1. \A n \in 0 .. N : n = 0 \/ n \in 1 .. N
      OBVIOUS
    <2>2. QED BY <1>1, <2>1
  <1>3. f = [n \in 0 .. N |-> f[n]]
    BY <1>1
  <1>4. Recurs(N, V, base, step, f)
    BY <1>1, <1>2, <1>3 DEF Recurs
  <1>5. QED BY <1>4

-----------------------------------------------------------------------------
(* The steps of an episode, and lists of them: each step lasts, in a video *)
(* it lasts longer than nothing, and it starts where the one before it     *)
(* ends, give or take slack.                                               *)
Piece == [from : Int, to : Int, text : Text]

Lasts(p) == p.from <= p.to /\ (tVideo => p.from < p.to)
Meet(p, q, slack) == p.to - slack <= q.from /\ q.from <= p.to + slack

Runs(list, slack) ==
  /\ list \in Seq(Piece)
  /\ \A i \in 1 .. Len(list) : Lasts(list[i])
  /\ \A i \in 1 .. Len(list) - 1 : Meet(list[i], list[i + 1], slack)

(* They lead from the start of the media to end.                           *)
Chain(list, end) ==
  /\ Runs(list, 0) /\ Line!EndOf(list) = end
  /\ list # <<>> => list[1].from = 0

(* A sequence with something in it has a last element.                     *)
LEMMA LastOf ==
  ASSUME NEW S, NEW list \in Seq(S)
  PROVE  /\ Len(list) \in Nat
         /\ list = <<>> <=> Len(list) = 0
         /\ list # <<>> => Line!Last(list) = list[Len(list)] /\ Len(list) \in 1 .. Len(list)
                           /\ list[Len(list)] \in S
  <1>1. Len(list) \in Nat /\ (list = <<>> <=> Len(list) = 0)
    OBVIOUS
  <1>2. ASSUME list # <<>> PROVE Len(list) \in 1 .. Len(list) /\ list[Len(list)] \in S
    <2>1. Len(list) \in 1 .. Len(list)
      BY <1>1, <1>2
    <2>2. QED BY <2>1, ElementOfSeq
  <1>3. Line!Last(list) = list[Len(list)]
    BY DEF Line!Last
  <1>4. QED BY <1>1, <1>2, <1>3

(* What is appended comes last, and the rest stays.                        *)
LEMMA Appended ==
  ASSUME NEW S, NEW list \in Seq(S), NEW e \in S
  PROVE  /\ Append(list, e) \in Seq(S) /\ Len(Append(list, e)) = Len(list) + 1 /\ Append(list, e) # <<>>
         /\ Append(list, e)[Len(list) + 1] = e
         /\ \A i \in 1 .. Len(list) : Append(list, e)[i] = list[i]
  OBVIOUS

(* A piece that meets the last one may be added.                           *)
LEMMA RunsAppend ==
  ASSUME NEW slack \in Nat, NEW list, Runs(list, slack), NEW p \in Piece, Lasts(p),
         list # <<>> => Meet(list[Len(list)], p, slack)
  PROVE  Runs(Append(list, p), slack)
  <1> DEFINE z == Append(list, p)
  <1>1. list \in Seq(Piece) /\ Len(list) \in Nat
    BY DEF Runs
  <1>2. /\ z \in Seq(Piece) /\ Len(z) = Len(list) + 1 /\ z[Len(list) + 1] = p
        /\ \A i \in 1 .. Len(list) : z[i] = list[i]
    BY <1>1, Appended
  <1> HIDE DEF z
  <1>3. ASSUME NEW i \in 1 .. Len(z) PROVE Lasts(z[i])
    <2>1. i = Len(list) + 1 \/ i \in 1 .. Len(list)
      BY <1>1, <1>2
    <2>2. QED BY <1>2, <2>1 DEF Runs
  <1>4. ASSUME NEW i \in 1 .. Len(z) - 1 PROVE Meet(z[i], z[i + 1], slack)
    <2>1. CASE i = Len(list)
      <3>1. list # <<>> /\ z[i] = list[i] /\ z[i + 1] = p
        BY <1>1, <1>2, <2>1
      <3>2. QED BY <2>1, <3>1
    <2>2. CASE i # Len(list)
      <3>1. i \in 1 .. Len(list) - 1 /\ z[i] = list[i] /\ z[i + 1] = list[i + 1]
        BY <1>1, <1>2, <2>2
      <3>2. QED BY <3>1 DEF Runs
    <2>3. QED BY <2>1, <2>2
  <1>5. Runs(z, slack)
    BY <1>2, <1>3, <1>4 DEF Runs
  <1>6. QED BY <1>5 DEF z

(* The last piece may get another end.                                     *)
LEMMA WithEndFacts ==
  ASSUME NEW list \in Seq(Piece), list # <<>>, NEW end \in Int
  PROVE  LET z == Line!WithEnd(list, end)
             n == Len(list)
         IN  /\ z \in Seq(Piece) /\ Len(z) = n /\ z # <<>>
             /\ \A i \in 1 .. n - 1 : z[i] = list[i]
             /\ z[n].from = list[n].from /\ z[n].to = end /\ z[n].text = list[n].text
  <1> DEFINE n == Len(list)
             e == [list[n] EXCEPT !.to = end]
             z == [list EXCEPT ![n] = e]
  <1>1. n \in Nat /\ n \in 1 .. n /\ list[n] \in Piece
    BY LastOf
  <1>2. e \in Piece /\ e.from = list[n].from /\ e.to = end /\ e.text = list[n].text
    BY <1>1 DEF Piece
  <1> HIDE DEF e
  <1>3. z \in Seq(Piece) /\ Len(z) = n /\ z[n] = e /\ \A i \in 1 .. n - 1 : z[i] = list[i]
    BY <1>1, <1>2
  <1>4. Line!WithEnd(list, end) = z
    BY DEF Line!WithEnd, e
  <1> HIDE DEF z
  <1>5. z # <<>>
    BY <1>1, <1>3
  <1>6. QED BY <1>2, <1>3, <1>4, <1>5

(* So the last piece may end elsewhere, if it lasts.                       *)
LEMMA RunsWithEnd ==
  ASSUME NEW slack \in Nat, NEW list, Runs(list, slack), list # <<>>, NEW end \in Int,
         list[Len(list)].from <= end, tVideo => list[Len(list)].from < end
  PROVE  Runs(Line!WithEnd(list, end), slack)
  <1> DEFINE z == Line!WithEnd(list, end)
             n == Len(list)
  <1>1. list \in Seq(Piece)
    BY DEF Runs
  <1>2. /\ z \in Seq(Piece) /\ Len(z) = n /\ z # <<>>
        /\ \A i \in 1 .. n - 1 : z[i] = list[i]
        /\ z[n].from = list[n].from /\ z[n].to = end
    BY <1>1, WithEndFacts
  <1>3. n \in Nat
    BY <1>1
  <1> HIDE DEF z
  <1>4. ASSUME NEW i \in 1 .. Len(z) PROVE Lasts(z[i])
    <2>1. CASE i = n
      BY <1>2, <2>1 DEF Lasts
    <2>2. CASE i # n
      <3>1. i \in 1 .. n - 1 /\ i \in 1 .. n
        BY <1>2, <1>3, <2>2
      <3>2. QED BY <1>2, <3>1 DEF Runs
    <2>3. QED BY <2>1, <2>2
  <1>5. ASSUME NEW i \in 1 .. Len(z) - 1 PROVE Meet(z[i], z[i + 1], slack)
    <2>1. i \in 1 .. n - 1 /\ z[i] = list[i]
      BY <1>2
    <2>2. z[i + 1].from = list[i + 1].from
      <3>1. i + 1 = n \/ i + 1 \in 1 .. n - 1
        BY <1>3, <2>1
      <3>2. QED BY <1>2, <3>1
    <2>3. Meet(list[i], list[i + 1], slack)
      BY <2>1 DEF Runs
    <2>4. QED BY <2>1, <2>2, <2>3 DEF Meet
  <1>6. Runs(z, slack)
    BY <1>2, <1>4, <1>5 DEF Runs
  <1>7. QED BY <1>6 DEF z

(* What adds a step to the ones that have been made, or leaves it out.     *)
LEMMA ExtendedFacts ==
  ASSUME NEW list, NEW so \in Int, Chain(list, so), NEW end \in Int, NEW text \in Text, NEW slack \in Nat
  PROVE  /\ Line!Extended(list, end, text, slack) \in Seq(Piece)
         /\ \/ /\ Line!Extended(list, end, text, slack) = list
               /\ end < so \/ (tVideo /\ end <= so + slack)
            \/ /\ Chain(Line!Extended(list, end, text, slack), end)
               /\ Line!Extended(list, end, text, slack) # <<>> /\ so <= end
  <1> DEFINE p == Line!Step(so, end, text)
             z == Append(list, p)
  <1>1. list \in Seq(Piece) /\ Line!EndOf(list) = so
    BY DEF Chain, Runs
  <1>2. p \in Piece /\ p.from = so /\ p.to = end
    BY DEF Line!Step, Piece
  <1>3. Line!Extended(list, end, text, slack) = IF end < so \/ (tVideo /\ end <= so + slack) THEN list ELSE z
    BY <1>1 DEF Line!Extended
  <1>4. ASSUME ~ (end < so \/ (tVideo /\ end <= so + slack)) PROVE Chain(z, end) /\ z # <<>> /\ so <= end
    <2>1. Lasts(p) /\ so <= end
      BY <1>2, <1>4 DEF Lasts
    <2>2. list # <<>> => list[Len(list)] \in Piece /\ list[Len(list)].to = so /\ Lasts(list[Len(list)])
      <3>1. SUFFICES ASSUME list # <<>>
                     PROVE  list[Len(list)] \in Piece /\ list[Len(list)].to = so /\ Lasts(list[Len(list)])
        OBVIOUS
      <3>2. Line!Last(list) = list[Len(list)] /\ Len(list) \in 1 .. Len(list) /\ list[Len(list)] \in Piece
        BY <1>1, <3>1, LastOf
      <3>3. QED BY <1>1, <3>1, <3>2 DEF Line!EndOf, Chain, Runs
    <2>3. list # <<>> => Meet(list[Len(list)], p, 0)
      BY <1>2, <2>2 DEF Meet, Lasts, Piece
    <2>4. Runs(z, 0)
      BY <1>2, <2>1, <2>3, RunsAppend DEF Chain
    <2>5. /\ z \in Seq(Piece) /\ Len(z) = Len(list) + 1 /\ z[Len(list) + 1] = p /\ z # <<>>
          /\ \A i \in 1 .. Len(list) : z[i] = list[i]
      BY <1>1, <1>2, Appended
    <2> HIDE DEF z
    <2>6. Line!Last(z) = p
      BY <2>5, LastOf
    <2>7. Line!EndOf(z) = end
      BY <1>2, <2>5, <2>6 DEF Line!EndOf
    <2>8. z[1].from = 0
      <3>1. CASE list = <<>>
        <4>1. so = 0 /\ Len(list) = 0
          BY <1>1, <3>1 DEF Line!EndOf
        <4>2. QED BY <1>2, <2>5, <4>1
      <3>2. CASE list # <<>>
        <4>1. 1 \in 1 .. Len(list)
          BY <1>1, <3>2
        <4>2. QED BY <2>5, <3>2, <4>1 DEF Chain
      <3>3. QED BY <3>1, <3>2
    <2>9. QED BY <2>1, <2>4, <2>5, <2>7, <2>8 DEF Chain
  <1>5. z \in Seq(Piece)
    BY <1>1, <1>2
  <1> HIDE DEF z
  <1>6. CASE end < so \/ (tVideo /\ end <= so + slack)
    BY <1>1, <1>3, <1>6
  <1>7. CASE ~ (end < so \/ (tVideo /\ end <= so + slack))
    BY <1>3, <1>4, <1>5, <1>7
  <1>8. QED BY <1>6, <1>7

(* What can have been made of media that end at final.                     *)
Made(final) == {list \in Seq(Piece) : \E so \in 0 .. final : Chain(list, so)}

(* Nothing has been made at first.                                         *)
LEMMA NoSteps == ASSUME NEW final \in Nat PROVE <<>> \in Made(final)
  <1>1. Chain(<<>>, 0)
    BY DEF Chain, Runs, Line!EndOf
  <1>2. QED BY <1>1 DEF Made

(* What adds a step makes more of them, and at last all of them.           *)
LEMMA MadeOn ==
  ASSUME NEW final \in Nat, NEW list \in Made(final), NEW end \in 0 .. final, NEW text \in Text,
         NEW slack \in Nat
  PROVE  LET z == Line!Extended(list, end, text, slack)
         IN  /\ z \in Made(final)
             /\ end = final => /\ z = <<>> => tVideo /\ final <= slack
                               /\ slack = 0 => Chain(z, final)
  <1> DEFINE z == Line!Extended(list, end, text, slack)
  <1>1. PICK so \in 0 .. final : Chain(list, so)
    BY DEF Made
  <1>2. so \in Int /\ end \in Int
    OBVIOUS
  <1>3. /\ z \in Seq(Piece)
        /\ \/ z = list /\ (end < so \/ (tVideo /\ end <= so + slack))
           \/ Chain(z, end) /\ z # <<>> /\ so <= end
    BY <1>1, <1>2, ExtendedFacts
  <1> HIDE DEF z
  <1>4. z \in Made(final)
    BY <1>1, <1>3 DEF Made
  <1>5. ASSUME end = final PROVE (z = <<>> => tVideo /\ final <= slack) /\ (slack = 0 => Chain(z, final))
    <2>1. CASE z = list /\ (end < so \/ (tVideo /\ end <= so + slack))
      <3>1. tVideo /\ final <= so + slack
        BY <1>2, <1>5, <2>1
      <3>2. z = <<>> => so = 0
        BY <1>1, <2>1 DEF Chain, Line!EndOf
      <3>3. slack = 0 => so = final
        BY <3>1
      <3>4. QED BY <1>1, <2>1, <3>1, <3>2, <3>3
    <2>2. CASE Chain(z, end) /\ z # <<>>
      BY <1>5, <2>2
    <2>3. QED BY <1>3, <2>1, <2>2
  <1>6. QED BY <1>4, <1>5 DEF z

(* The last end is raised to the end of the media.                         *)
LEMMA ChainWithEnd ==
  ASSUME NEW list, NEW so \in Int, Chain(list, so), list # <<>>, NEW end \in Int, so <= end
  PROVE  Chain(Line!WithEnd(list, end), end) /\ Line!WithEnd(list, end) # <<>>
  <1> DEFINE z == Line!WithEnd(list, end)
             n == Len(list)
  <1>1. list \in Seq(Piece) /\ Runs(list, 0)
    BY DEF Chain, Runs
  <1>2. Line!Last(list) = list[n] /\ n \in 1 .. n /\ n \in Nat /\ list[n] \in Piece
    BY <1>1, LastOf
  <1>3. list[n].to = so /\ Lasts(list[n]) /\ list[1].from = 0
    BY <1>2 DEF Chain, Runs, Line!EndOf
  <1>4. list[n].from <= end /\ (tVideo => list[n].from < end)
    BY <1>2, <1>3 DEF Lasts, Piece
  <1>5. Runs(z, 0)
    BY <1>1, <1>4, RunsWithEnd
  <1>6. /\ z \in Seq(Piece) /\ Len(z) = n /\ z # <<>>
        /\ \A i \in 1 .. n - 1 : z[i] = list[i]
        /\ z[n].from = list[n].from /\ z[n].to = end
    BY <1>1, WithEndFacts
  <1> HIDE DEF z
  <1>7. Line!EndOf(z) = end
    BY <1>6, LastOf DEF Line!EndOf
  <1>8. z[1].from = 0
    <2>1. CASE n = 1
      BY <1>3, <1>6, <2>1
    <2>2. CASE n # 1
      <3>1. 1 \in 1 .. n - 1
        BY <1>2, <2>2
      <3>2. QED BY <1>3, <1>6, <3>1
    <2>3. QED BY <2>1, <2>2
  <1>9. Chain(z, end)
    BY <1>5, <1>7, <1>8 DEF Chain
  <1>10. QED BY <1>6, <1>9 DEF z

-----------------------------------------------------------------------------
(* vla_anno_to_subtasks: the answer of the operator leads through the      *)
(* media, if these last longer than the least step.                        *)
LEMMA OperatorChain ==
  ASSUME NEW final \in Nat, NEW answer \in Seq([at : Int, text : Text]), answer # <<>>
  PROVE  LET list == Line!OperatorSteps(answer, final)
         IN  /\ list # <<>> => Chain(list, final)
             /\ list = <<>> => tVideo /\ final <= 1
  <1> DEFINE N == Len(answer)
             end(k) == IF k = Len(answer) THEN final ELSE Line!Clamp(0, answer[k].at, final)
             D(f) == f = [k \in 0 .. Len(answer) |->
                            IF k = 0 THEN <<>> ELSE Line!Extended(f[k - 1], end(k), answer[k].text, 1)]
             V == Made(final)
             step == [v \in Nat \X V |->
                        IF v[1] \in 1 .. N THEN Line!Extended(v[2], end(v[1]), answer[v[1]].text, 1) ELSE <<>>]
  <1>1. N \in Nat /\ N > 0 /\ N \in 1 .. N /\ end(N) = final
    OBVIOUS
  <1>2. ASSUME NEW k \in 1 .. N PROVE end(k) \in 0 .. final /\ answer[k].text \in Text
    <2>1. answer[k] \in [at : Int, text : Text]
      BY <1>2, ElementOfSeq
    <2>2. answer[k].at \in Int /\ answer[k].text \in Text
      BY <2>1
    <2>3. Line!Clamp(0, answer[k].at, final) \in 0 .. final
      BY <2>2, ClampIsBetween
    <2>4. QED BY <2>2, <2>3
  <1> HIDE DEF end
  <1>3. ASSUME NEW list \in V, NEW k \in 1 .. N
        PROVE  /\ Line!Extended(list, end(k), answer[k].text, 1) \in V
               /\ k = N /\ Line!Extended(list, end(k), answer[k].text, 1) = <<>> => tVideo /\ final <= 1
    <2>1. end(k) \in 0 .. final /\ answer[k].text \in Text /\ 1 \in Nat
      BY <1>2
    <2>2. QED BY <1>1, <2>1, MadeOn
  <1>4. <<>> \in V
    BY NoSteps
  <1>5. step \in [Nat \X V -> V]
    <2>1. ASSUME NEW n \in Nat, NEW list \in V
          PROVE  (IF n \in 1 .. N THEN Line!Extended(list, end(n), answer[n].text, 1) ELSE <<>>) \in V
      BY <1>3, <1>4
    <2> HIDE DEF V
    <2>2. ASSUME NEW v \in Nat \X V
          PROVE  (IF v[1] \in 1 .. N THEN Line!Extended(v[2], end(v[1]), answer[v[1]].text, 1) ELSE <<>>) \in V
      <3>1. v[1] \in Nat /\ v[2] \in V
        OBVIOUS
      <3>2. QED BY <2>1, <3>1
    <2>3. QED BY <2>2
  <1>6. PICK f : Recurs(N, V, <<>>, step, f)
    <2> HIDE DEF step, V
    <2>1. QED BY <1>1, <1>4, <1>5, Recursive
  <1>7. D(f)
    <2> HIDE DEF V
    <2>1. ASSUME NEW n \in 0 .. N
          PROVE  f[n] = IF n = 0 THEN <<>> ELSE Line!Extended(f[n - 1], end(n), answer[n].text, 1)
      <3>1. CASE n = 0
        BY <1>6, <3>1 DEF Recurs
      <3>2. CASE n # 0
        <4>1. n \in 1 .. N /\ n \in Nat /\ n - 1 \in 0 .. N
          BY <1>1, <3>2
        <4>2. f[n - 1] \in V
          BY <1>6, <4>1 DEF Recurs
        <4>3. <<n, f[n - 1]>> \in Nat \X V
          BY <4>1, <4>2
        <4>4. f[n] = step[<<n, f[n - 1]>>]
          BY <1>6, <3>2 DEF Recurs
        <4>5. QED BY <3>2, <4>1, <4>3, <4>4
      <3>3. QED BY <3>1, <3>2
    <2>2. f = [n \in 0 .. N |-> f[n]]
      BY <1>6 DEF Recurs
    <2>3. QED BY <2>1, <2>2
  <1> DEFINE made == CHOOSE g : D(g)
  <1>8. D(made)
    BY <1>7
  <1>9. Line!OperatorSteps(answer, final) =
          IF made[N] = <<>> THEN <<>> ELSE Line!WithEnd(made[N], final)
    BY DEF Line!OperatorSteps, end
  <1> HIDE DEF made, step
  <1>10. /\ made[0] = <<>>
         /\ \A n \in 1 .. N : made[n] = Line!Extended(made[n - 1], end(n), answer[n].text, 1)
    <2>1. \A n \in 0 .. N :
            made[n] = IF n = 0 THEN <<>> ELSE Line!Extended(made[n - 1], end(n), answer[n].text, 1)
      BY <1>8
    <2>2. 0 \in 0 .. N /\ \A n \in 1 .. N : n \in 0 .. N /\ n # 0
      BY <1>1
    <2> HIDE DEF D, V
    <2>3. QED BY <2>1, <2>2
  <1>11. \A n \in 0 .. N : made[n] \in V
    <2> DEFINE S == {n \in 0 .. N : made[n] \in V}
    <2> HIDE DEF V
    <2>1. S \in SUBSET (0 .. N) /\ 0 \in S
      BY <1>1, <1>4, <1>10
    <2>2. ASSUME NEW n \in 1 .. N, n - 1 \in S PROVE n \in S
      BY <1>1, <1>3, <1>10, <2>2
    <2> HIDE DEF S
    <2>3. S = 0 .. N
      BY <1>1, <2>1, <2>2, Numbers
    <2>4. QED BY <2>3 DEF S
  <1>12. made[N] \in V /\ (made[N] = <<>> => tVideo /\ final <= 1)
    <2>1. N - 1 \in 0 .. N
      BY <1>1
    <2> HIDE DEF V
    <2>2. QED BY <1>1, <1>3, <1>10, <1>11, <2>1
  <1>13. CASE made[N] = <<>>
    BY <1>9, <1>12, <1>13
  <1>14. CASE made[N] # <<>>
    <2>1. PICK so \in 0 .. final : Chain(made[N], so)
      BY <1>12 DEF Made
    <2>2. so \in Int /\ final \in Int /\ so <= final
      OBVIOUS
    <2>3. Chain(Line!WithEnd(made[N], final), final) /\ Line!WithEnd(made[N], final) # <<>>
      BY <1>14, <2>1, <2>2, ChainWithEnd
    <2>4. QED BY <1>9, <1>14, <2>3
  <1>15. QED BY <1>13, <1>14

Segment(top) == [at : 0 .. top, text : Text]

(* Sorting keeps the segments: the ranks are all numbers of segments.      *)
LEMMA SortedFacts ==
  ASSUME NEW top \in Nat, NEW a \in Seq(Segment(top))
  PROVE  Line!Sorted(a) \in Seq(Segment(top)) /\ Len(Line!Sorted(a)) = Len(a)
  <1> DEFINE n == Len(a)
             below(i) == {j \in DOMAIN a : a[j].at < a[i].at \/ (a[j].at = a[i].at /\ j <= i)}
             rank(i) == Cardinality(below(i))
  <1>1. n \in Nat /\ DOMAIN a = 1 .. n
    OBVIOUS
  <1>2. \A i \in 1 .. n : a[i] \in Segment(top) /\ a[i].at \in Int
    <2>1. ASSUME NEW i \in 1 .. n PROVE a[i] \in Segment(top)
      BY ElementOfSeq
    <2>2. QED BY <2>1 DEF Segment
  <1>3. IsFiniteSet(1 .. n) /\ Cardinality(1 .. n) = n
    <2> HIDE DEF n
    <2>1. IsFiniteSet(1 .. n) /\ Cardinality(1 .. n) = IF 1 > n THEN 0 ELSE n - 1 + 1
      BY <1>1, FS_Interval
    <2>2. QED BY <1>1, <2>1
  <1>4. ASSUME NEW i \in 1 .. n
        PROVE  below(i) \in SUBSET (1 .. n) /\ IsFiniteSet(below(i)) /\ rank(i) \in 1 .. n
    <2>1. below(i) \in SUBSET (1 .. n) /\ i \in below(i)
      BY <1>1, <1>2
    <2> HIDE DEF below
    <2>2. IsFiniteSet(below(i)) /\ Cardinality(below(i)) \in Nat /\ Cardinality(below(i)) <= n
      BY <1>3, <2>1, FS_Subset, FS_CardinalityType
    <2>3. Cardinality(below(i)) # 0
      BY <2>1, <2>2, FS_EmptySet
    <2>4. QED BY <1>1, <2>1, <2>2, <2>3
  <1>5. ASSUME NEW i \in 1 .. n, NEW j \in 1 .. n, rank(i) = rank(j),
               a[i].at < a[j].at \/ (a[i].at = a[j].at /\ i < j)
        PROVE  FALSE
    <2>1. below(i) \in SUBSET below(j)
      <3>1. a[i].at \in Int /\ a[j].at \in Int /\ n \in Nat
        BY <1>1, <1>2
      <3>2. ASSUME NEW k \in below(i) PROVE k \in below(j)
        <4>1. k \in 1 .. n /\ (a[k].at < a[i].at \/ (a[k].at = a[i].at /\ k <= i))
          BY <1>1
        <4>2. a[k].at \in Int
          BY <1>2, <4>1
        <4>3. a[k].at < a[j].at \/ (a[k].at = a[j].at /\ k <= j)
          BY <1>5, <3>1, <4>1, <4>2
        <4>4. QED BY <1>1, <4>1, <4>3
      <3>3. QED BY <3>2
    <2>2. j \in below(j) /\ j \notin below(i)
      BY <1>1, <1>2, <1>5
    <2> HIDE DEF below
    <2>3. below(i) = below(j)
      BY <1>4, <1>5, <2>1, FS_Subset
    <2>4. QED BY <2>2, <2>3
  <1> HIDE DEF rank
  <1> DEFINE f == [i \in 1 .. n |-> rank(i)]
  <1>6. ASSUME NEW i \in 1 .. n, NEW j \in 1 .. n, rank(i) = rank(j) PROVE i = j
    <2>1. a[i].at \in Int /\ a[j].at \in Int /\ i \in Int /\ j \in Int
      BY <1>1, <1>2
    <2>2. i = j \/ a[i].at < a[j].at \/ (a[i].at = a[j].at /\ i < j)
                \/ a[j].at < a[i].at \/ (a[i].at = a[j].at /\ j < i)
      BY <2>1
    <2>3. QED BY <1>5, <1>6, <2>2
  <1>7. f \in Surjection(1 .. n, 1 .. n)
    <2>1. f \in [1 .. n -> 1 .. n] /\ \A i, j \in 1 .. n : f[i] = f[j] => i = j
      BY <1>4, <1>6
    <2>2. f \in Injection(1 .. n, 1 .. n)
      BY <2>1 DEF Injection, IsInjective
    <2>3. QED BY <1>3, <2>2, FS_Injection
  <1>8. ASSUME NEW k \in 1 .. n PROVE a[CHOOSE i \in DOMAIN a : rank(i) = k] \in Segment(top)
    <2>1. \E i \in DOMAIN a : rank(i) = k
      BY <1>1, <1>7 DEF Surjection
    <2>2. QED BY <1>1, <1>2, <2>1
  <1>9. Line!Sorted(a) = [k \in DOMAIN a |-> a[CHOOSE i \in DOMAIN a : rank(i) = k]]
    BY DEF Line!Sorted, rank, Line!Cardinality, Cardinality
  <1>10. Line!Sorted(a) \in [1 .. n -> Segment(top)]
    BY <1>1, <1>8, <1>9
  <1>11. QED BY <1>1, <1>10

(* What is kept of segments that start together is one of them, and        *)
(* something is kept.                                                      *)
LEMMA CollapsedFacts ==
  ASSUME NEW top \in Nat, NEW a \in Seq(Segment(top)), a # <<>>
  PROVE  Line!Collapsed(a) \in Seq(Segment(top)) /\ Line!Collapsed(a) # <<>>
  <1> DEFINE N == Len(a)
             V == Seq(Segment(top))
             more(so, k) == IF so # <<>> /\ a[k].at - Line!Last(so).at <= 1
                            THEN [so EXCEPT ![Len(so)] = a[k]] ELSE Append(so, a[k])
             D(f) == f = [k \in 0 .. Len(a) |-> IF k = 0 THEN <<>> ELSE more(f[k - 1], k)]
             step == [v \in Nat \X V |-> IF v[1] \in 1 .. N THEN more(v[2], v[1]) ELSE <<>>]
  <1>1. N \in Nat /\ N \in 1 .. N
    OBVIOUS
  <1>2. ASSUME NEW so \in V, NEW k \in 1 .. N PROVE more(so, k) \in V /\ more(so, k) # <<>>
    <2>1. a[k] \in Segment(top)
      BY ElementOfSeq
    <2>2. Append(so, a[k]) \in V /\ Append(so, a[k]) # <<>>
      BY <2>1
    <2>3. ASSUME so # <<>> PROVE [so EXCEPT ![Len(so)] = a[k]] \in V /\ [so EXCEPT ![Len(so)] = a[k]] # <<>>
      <3>1. Len(so) \in 1 .. Len(so)
        BY <2>3, LastOf
      <3>2. [so EXCEPT ![Len(so)] = a[k]] \in V /\ Len([so EXCEPT ![Len(so)] = a[k]]) = Len(so)
        BY <2>1, <3>1, ExceptSeq
      <3>3. QED BY <3>1, <3>2
    <2>4. QED BY <2>2, <2>3
  <1> HIDE DEF more
  <1>3. <<>> \in V
    OBVIOUS
  <1>4. step \in [Nat \X V -> V]
    <2> HIDE DEF V
    <2>1. ASSUME NEW v \in Nat \X V
          PROVE  (IF v[1] \in 1 .. N THEN more(v[2], v[1]) ELSE <<>>) \in V
      <3>1. v[1] \in Nat /\ v[2] \in V
        OBVIOUS
      <3>2. QED BY <1>2, <1>3, <3>1
    <2>2. QED BY <2>1
  <1>5. PICK f : Recurs(N, V, <<>>, step, f)
    <2> HIDE DEF step, V
    <2>1. QED BY <1>1, <1>3, <1>4, Recursive
  <1>6. D(f)
    <2> HIDE DEF V
    <2>1. ASSUME NEW n \in 0 .. N
          PROVE  f[n] = IF n = 0 THEN <<>> ELSE more(f[n - 1], n)
      <3>1. CASE n = 0
        BY <1>5, <3>1 DEF Recurs
      <3>2. CASE n # 0
        <4>1. n \in 1 .. N /\ n \in Nat /\ n - 1 \in 0 .. N
          BY <1>1, <3>2
        <4>2. <<n, f[n - 1]>> \in Nat \X V
          BY <1>5, <4>1 DEF Recurs
        <4>3. f[n] = step[<<n, f[n - 1]>>]
          BY <1>5, <3>2 DEF Recurs
        <4>4. QED BY <3>2, <4>1, <4>2, <4>3
      <3>3. QED BY <3>1, <3>2
    <2>2. f = [n \in 0 .. N |-> f[n]]
      BY <1>5 DEF Recurs
    <2>3. QED BY <2>1, <2>2
  <1> DEFINE kept == CHOOSE g : D(g)
  <1>7. D(kept)
    BY <1>6
  <1>8. Line!Collapsed(a) = kept[N]
    BY DEF Line!Collapsed, more
  <1> HIDE DEF kept, step
  <1>9. kept[0] = <<>> /\ \A n \in 1 .. N : kept[n] = more(kept[n - 1], n)
    BY <1>1, <1>7
  <1>10. \A n \in 0 .. N : kept[n] \in V
    <2> DEFINE S == {n \in 0 .. N : kept[n] \in V}
    <2> HIDE DEF V
    <2>1. S \in SUBSET (0 .. N) /\ 0 \in S
      BY <1>1, <1>3, <1>9
    <2>2. ASSUME NEW n \in 1 .. N, n - 1 \in S PROVE n \in S
      BY <1>1, <1>2, <1>9, <2>2
    <2> HIDE DEF S
    <2>3. S = 0 .. N
      BY <1>1, <2>1, <2>2, Numbers
    <2>4. QED BY <2>3 DEF S
  <1>11. kept[N] \in V /\ kept[N] # <<>>
    <2>1. N - 1 \in 0 .. N
      BY <1>1
    <2>2. QED BY <1>1, <1>2, <1>9, <1>10, <2>1
  <1>12. QED BY <1>8, <1>11

(* Something of at most so many parts is at most so many, also if rounded. *)
LEMMA RoundedDown ==
  ASSUME NEW b \in Nat \ {0}, NEW most \in Nat, NEW v \in 0 .. most * b
  PROVE  Line!RoundDiv(v, b) \in 0 .. most
  <1>1. PICK q \in Int, r \in Int : q = v \div b /\ r = v % b
    <2>1. v \in Int
      OBVIOUS
    <2>2. v \div b \in Int /\ v % b \in Int
      BY <2>1
    <2>3. QED BY <2>2
  <1>2. v \in Int /\ most * b \in Int /\ 0 <= v /\ v <= most * b
    OBVIOUS
  <1>3. v = b * q + r /\ 0 <= r /\ r < b
    BY <1>1, <1>2
  <1>4. q >= 0
    <2>1. SUFFICES ASSUME q + 1 <= 0 PROVE FALSE
      OBVIOUS
    <2>2. b * (q + 1) <= 0 /\ b * (q + 1) = b * q + b
      BY <2>1
    <2>3. b * q \in Int
      OBVIOUS
    <2>4. QED BY <1>2, <1>3, <2>2, <2>3
  <1>5. q <= most /\ (q = most => r = 0)
    <2>1. ASSUME most <= q PROVE q = most /\ r = 0
      <3>1. b * (q - most) = b * q - most * b /\ b * (q - most) \in Int
        OBVIOUS
      <3>2. b * (q - most) >= 0
        BY <2>1
      <3>3. b * (q - most) <= 0 /\ r = 0
        <4>1. b * q \in Int
          OBVIOUS
        <4>2. QED BY <1>2, <1>3, <3>1, <3>2, <4>1
      <3>4. q - most = 0
        BY <3>2, <3>3
      <3>5. QED BY <3>3, <3>4
    <2>2. QED BY <2>1
  <1>6. Line!RoundDiv(v, b) = IF 2 * r < b \/ (2 * r = b /\ q % 2 = 0) THEN q ELSE q + 1
    BY <1>1 DEF Line!RoundDiv
  <1>7. QED BY <1>3, <1>4, <1>5, <1>6

(* The media last, and end somewhere.                                      *)
LEMMA MediaLast ==
  ASSUME Line!TimelineAssumption, count \in Nat \ {0}
  PROVE  /\ Line!Duration \in Nat /\ Line!Duration > 2
         /\ Line!Final \in Nat /\ (tVideo => Line!Final = Line!Duration)
  <1>1. Frame \in Nat /\ Frame > 2
    BY DEF Line!TimelineAssumption
  <1>2. (count - 1) * Frame >= 0 /\ count * Frame = (count - 1) * Frame + Frame
        /\ (count - 1) * Frame \in Int
    BY <1>1
  <1>3. Line!Duration \in Nat /\ Line!Duration > 2
    BY <1>1, <1>2 DEF Line!Duration
  <1>4. QED BY <1>3 DEF Line!Final

(* The image where a segment starts is one of the images.                  *)
LEMMA BoundaryIsInside ==
  ASSUME Line!TimelineAssumption, count \in Nat \ {0}, NEW t \in 0 .. Line!Duration
  PROVE  Line!Boundary(t) \in 0 .. Line!Final
  <1> DEFINE D == Line!Duration
             F == Line!Final
  <1>1. D \in Nat /\ D > 2 /\ F \in Nat /\ (tVideo => F = D)
    BY MediaLast
  <1>2. t \in 0 .. D
    OBVIOUS
  <1>3. Line!Boundary(t) = IF tVideo THEN t ELSE Line!RoundDiv(F * t, D)
    BY DEF Line!Boundary
  <1> HIDE DEF D, F
  <1>4. F * t \in 0 .. F * D
    <2>1. F * t \in Int /\ F * D \in Int /\ t \in Int
      BY <1>1, <1>2
    <2>2. F * t >= 0 /\ F * (D - t) >= 0 /\ F * (D - t) = F * D - F * t
      BY <1>1, <1>2
    <2>3. QED BY <2>1, <2>2
  <1>5. D \in Nat \ {0}
    BY <1>1
  <1>6. Line!RoundDiv(F * t, D) \in 0 .. F
    BY <1>1, <1>4, <1>5, RoundedDown
  <1>7. QED BY <1>1, <1>2, <1>3, <1>6 DEF F

(* What has been made ends somewhere in the media.                         *)
LEMMA EndOfIsInt ==
  ASSUME NEW final \in Nat, NEW list \in Made(final) PROVE Line!EndOf(list) \in 0 .. final
  BY DEF Made, Chain

(* So does the later of two ends.                                          *)
LEMMA LargerOfTwo ==
  ASSUME NEW final \in Nat, NEW m \in 0 .. final, NEW n \in 0 .. final
  PROVE  Line!Max({m, n}) \in 0 .. final
  <1>1. m \in Int /\ n \in Int
    OBVIOUS
  <1>2. QED BY <1>1, TwoOfFour

(* normalize_segments: the answer of LAS leads through the media.          *)
LEMMA LasChain ==
  ASSUME Line!TimelineAssumption, count \in Nat \ {0},
         NEW answer \in Seq([at : Int, text : Text]), answer # <<>>
  PROVE  Chain(Line!LasSteps(answer), Line!Final) /\ Line!LasSteps(answer) # <<>>
  <1> DEFINE final == Line!Final
             clamped == [i \in DOMAIN answer |->
                           [answer[i] EXCEPT !.at = Line!Clamp(0, @, Line!Duration)]]
             s == Line!Collapsed(Line!Sorted(clamped))
             N == Len(s)
             V == Made(final)
             end(so, k) == IF k = N THEN final ELSE Line!Max({Line!EndOf(so), Line!Boundary(s[k + 1].at)})
             more(so, k) == Line!Extended(so, end(so, k), s[k].text, 0)
             D(f) == f = [k \in 0 .. Len(s) |-> IF k = 0 THEN <<>> ELSE more(f[k - 1], k)]
             step == [v \in Nat \X V |-> IF v[1] \in 1 .. N THEN more(v[2], v[1]) ELSE <<>>]
  <1>1. Line!Duration \in Nat /\ final \in Nat /\ Line!Duration > 2 /\ (tVideo => final = Line!Duration)
    BY MediaLast
  <1>2. s \in Seq(Segment(Line!Duration)) /\ s # <<>>
    <2>1. ASSUME NEW i \in 1 .. Len(answer)
          PROVE  [answer[i] EXCEPT !.at = Line!Clamp(0, @, Line!Duration)] \in Segment(Line!Duration)
      <3>1. answer[i] \in [at : Int, text : Text]
        BY ElementOfSeq
      <3>2. Line!Clamp(0, answer[i].at, Line!Duration) \in 0 .. Line!Duration
        BY <1>1, <3>1, ClampIsBetween
      <3>3. QED BY <3>1, <3>2 DEF Segment
    <2>2. DOMAIN answer = 1 .. Len(answer) /\ Len(answer) \in Nat \ {0}
      OBVIOUS
    <2>3. clamped \in [1 .. Len(answer) -> Segment(Line!Duration)]
      BY <2>1, <2>2
    <2> HIDE DEF clamped
    <2>4. clamped \in Seq(Segment(Line!Duration)) /\ Len(clamped) = Len(answer)
      BY <2>2, <2>3
    <2>5. Line!Sorted(clamped) \in Seq(Segment(Line!Duration)) /\ Len(Line!Sorted(clamped)) = Len(answer)
      BY <1>1, <2>4, SortedFacts
    <2>6. Line!Sorted(clamped) # <<>>
      BY <2>2, <2>5
    <2>7. QED BY <1>1, <2>5, <2>6, CollapsedFacts
  <1>3. Line!LasSteps(answer) =
          LET made[k \in 0 .. Len(s)] == IF k = 0 THEN <<>> ELSE more(made[k - 1], k)
          IN  made[Len(s)]
    BY DEF Line!LasSteps
  <1> HIDE DEF s
  <1>4. N \in Nat /\ N \in 1 .. N
    BY <1>2
  <1>5. ASSUME NEW so \in V, NEW k \in 1 .. N
        PROVE  more(so, k) \in V /\ (k = N => Chain(more(so, k), final) /\ more(so, k) # <<>>)
    <2>1. end(so, k) \in 0 .. final
      <3>1. CASE k = N
        BY <1>1, <3>1
      <3>2. CASE k # N
        <4>1. k + 1 \in 1 .. N
          BY <1>4, <3>2
        <4>2. s[k + 1] \in Segment(Line!Duration)
          BY <1>2, <4>1, ElementOfSeq
        <4>3. s[k + 1].at \in 0 .. Line!Duration
          BY <4>2 DEF Segment
        <4>4. Line!Boundary(s[k + 1].at) \in 0 .. final
          BY <4>3, BoundaryIsInside
        <4>5. Line!EndOf(so) \in 0 .. final
          BY <1>1, EndOfIsInt
        <4> HIDE DEF final
        <4>6. Line!Max({Line!EndOf(so), Line!Boundary(s[k + 1].at)}) \in 0 .. final
          BY <1>1, <4>4, <4>5, LargerOfTwo
        <4>7. QED BY <3>2, <4>6
      <3>3. QED BY <3>1, <3>2
    <2>2. s[k] \in Segment(Line!Duration)
      BY <1>2, ElementOfSeq
    <2>3. s[k].text \in Text /\ 0 \in Nat
      BY <2>2 DEF Segment
    <2>4. k = N => end(so, k) = final
      OBVIOUS
    <2> HIDE DEF end, final
    <2>5. /\ more(so, k) \in V
          /\ k = N => /\ Chain(more(so, k), final)
                      /\ more(so, k) = <<>> => tVideo /\ final <= 0
      BY <1>1, <2>1, <2>3, <2>4, MadeOn
    <2> HIDE DEF more, V
    <2>6. QED BY <1>1, <2>5
  <1> HIDE DEF final, more
  <1>6. <<>> \in V
    BY <1>1, NoSteps
  <1>7. step \in [Nat \X V -> V]
    <2> HIDE DEF V
    <2>1. ASSUME NEW v \in Nat \X V
          PROVE  (IF v[1] \in 1 .. N THEN more(v[2], v[1]) ELSE <<>>) \in V
      <3>1. v[1] \in Nat /\ v[2] \in V
        OBVIOUS
      <3>2. QED BY <1>5, <1>6, <3>1
    <2>2. QED BY <2>1
  <1>8. PICK f : Recurs(N, V, <<>>, step, f)
    <2> HIDE DEF step, V
    <2>1. QED BY <1>4, <1>6, <1>7, Recursive
  <1>9. D(f)
    <2> HIDE DEF V
    <2>1. ASSUME NEW n \in 0 .. N
          PROVE  f[n] = IF n = 0 THEN <<>> ELSE more(f[n - 1], n)
      <3>1. CASE n = 0
        BY <1>8, <3>1 DEF Recurs
      <3>2. CASE n # 0
        <4>1. n \in 1 .. N /\ n \in Nat /\ n - 1 \in 0 .. N
          BY <1>4, <3>2
        <4>2. <<n, f[n - 1]>> \in Nat \X V
          BY <1>8, <4>1 DEF Recurs
        <4>3. f[n] = step[<<n, f[n - 1]>>]
          BY <1>8, <3>2 DEF Recurs
        <4>4. QED BY <3>2, <4>1, <4>2, <4>3
      <3>3. QED BY <3>1, <3>2
    <2>2. f = [n \in 0 .. N |-> f[n]]
      BY <1>8 DEF Recurs
    <2>3. QED BY <2>1, <2>2
  <1> DEFINE made == CHOOSE g : D(g)
  <1>10. D(made)
    BY <1>9
  <1>11. Line!LasSteps(answer) = made[N]
    BY <1>3
  <1> HIDE DEF made, step
  <1>12. made[0] = <<>> /\ \A n \in 1 .. N : made[n] = more(made[n - 1], n)
    BY <1>4, <1>10
  <1>13. \A n \in 0 .. N : made[n] \in V
    <2> DEFINE S == {n \in 0 .. N : made[n] \in V}
    <2> HIDE DEF V
    <2>1. S \in SUBSET (0 .. N) /\ 0 \in S
      BY <1>4, <1>6, <1>12
    <2>2. ASSUME NEW n \in 1 .. N, n - 1 \in S PROVE n \in S
      BY <1>4, <1>5, <1>12, <2>2
    <2> HIDE DEF S
    <2>3. S = 0 .. N
      BY <1>4, <2>1, <2>2, Numbers
    <2>4. QED BY <2>3 DEF S
  <1>14. Chain(made[N], final) /\ made[N] # <<>>
    <2>1. N - 1 \in 0 .. N
      BY <1>4
    <2> HIDE DEF V
    <2>2. QED BY <1>4, <1>5, <1>12, <1>13, <2>1
  <1>15. QED BY <1>11, <1>14 DEF final

(* Steps that follow each other with the same text do not run back: the    *)
(* last of them ends after the first of them starts.                       *)
Forward(list) ==
  \A i, j \in 1 .. Len(list) :
    i <= j /\ (\A k \in i .. j : list[k].text = list[i].text) =>
      list[i].from <= list[j].to /\ (tVideo => list[i].from < list[j].to)

(* A step is added, or is one with the step before it.                     *)
JoinedTo(so, e) ==
  IF so # <<>> /\ Line!Last(so).text = e.text THEN Line!WithEnd(so, e.to) ELSE Append(so, e)

(* What is kept of the first n steps when equal neighbours are joined.     *)
Joins(list, slack, n, kept) ==
  /\ Runs(kept, slack) /\ (kept = <<>> <=> n = 0)
  /\ n > 0 => /\ kept[1].from = list[1].from /\ kept[Len(kept)].to = list[n].to
              /\ \E m \in 1 .. n : /\ kept[Len(kept)].from = list[m].from
                                   /\ \A k \in m .. n : list[k].text = kept[Len(kept)].text

(* The next step is added to what is kept, or joined with its last.        *)
LEMMA JoinOn ==
  ASSUME NEW slack \in Nat, NEW list, Runs(list, slack), Forward(list), NEW n \in 1 .. Len(list),
         NEW so, Joins(list, slack, n - 1, so)
  PROVE  Joins(list, slack, n, JoinedTo(so, list[n]))
  <1> DEFINE e == list[n]
             top == Len(so)
  <1>1. so \in Seq(Piece) /\ list \in Seq(Piece) /\ Len(list) \in Nat /\ Len(so) \in Nat
    BY DEF Joins, Runs
  <1>2. e \in Piece /\ Lasts(e) /\ e.to \in Int /\ n \in Nat /\ n > 0
    <2>1. e \in Piece /\ Lasts(e)
      BY <1>1, ElementOfSeq DEF Runs
    <2>2. QED BY <1>1, <2>1 DEF Piece
  <1>3. so # <<>> => /\ Line!Last(so) = so[top] /\ top \in 1 .. top /\ so[top] \in Piece
                     /\ n - 1 > 0 /\ n - 1 \in 1 .. Len(list) - 1
    BY <1>1, <1>2, LastOf DEF Joins
  <1> HIDE DEF e
  <1>4. CASE so # <<>> /\ Line!Last(so).text = e.text
    <2> DEFINE z == Line!WithEnd(so, e.to)
    <2>1. PICK m \in 1 .. n - 1 : /\ so[top].from = list[m].from
                                  /\ \A k \in m .. n - 1 : list[k].text = so[top].text
      BY <1>3, <1>4 DEF Joins
    <2>2. so[top].text = e.text /\ so[1].from = list[1].from
      BY <1>3, <1>4 DEF Joins
    <2>3. m \in 1 .. n /\ m \in 1 .. Len(list) /\ m <= n /\ m \in m .. n - 1
      BY <1>1, <1>2, <2>1
    <2>4. \A k \in m .. n : list[k].text = so[top].text
      <3>1. \A k \in m .. n : k = n \/ k \in m .. n - 1
        BY <1>2
      <3>2. QED BY <2>1, <2>2, <3>1 DEF e
    <2>5. \A k \in m .. n : list[k].text = list[m].text
      BY <2>3, <2>4
    <2>6. so[top].from <= e.to /\ (tVideo => so[top].from < e.to)
      BY <2>1, <2>3, <2>5 DEF Forward, e
    <2>7. Runs(z, slack)
      BY <1>2, <1>4, <2>6, RunsWithEnd DEF Joins
    <2>8. /\ z \in Seq(Piece) /\ Len(z) = top /\ z # <<>>
          /\ \A i \in 1 .. top - 1 : z[i] = so[i]
          /\ z[top].from = so[top].from /\ z[top].to = e.to /\ z[top].text = so[top].text
      BY <1>1, <1>2, <1>4, WithEndFacts
    <2> HIDE DEF z
    <2>9. z[1].from = list[1].from
      <3>1. top = 1 \/ 1 \in 1 .. top - 1
        <4> HIDE DEF top
        <4>1. top \in 1 .. top /\ top \in Nat
          BY <1>1, <1>3, <1>4
        <4>2. QED BY <4>1
      <3>2. QED BY <2>2, <2>8, <3>1
    <2>10. Joins(list, slack, n, z)
      BY <1>2, <2>1, <2>3, <2>4, <2>7, <2>8, <2>9 DEF Joins, e
    <2>11. QED BY <1>4, <2>10 DEF JoinedTo, z, e
  <1>5. CASE ~ (so # <<>> /\ Line!Last(so).text = e.text)
    <2> DEFINE z == Append(so, e)
    <2>1. so # <<>> => Meet(so[top], e, slack)
      <3>1. SUFFICES ASSUME so # <<>> PROVE Meet(so[top], e, slack)
        OBVIOUS
      <3>2. so[top].to = list[n - 1].to
        BY <1>3, <3>1 DEF Joins
      <3>3. Meet(list[n - 1], list[n - 1 + 1], slack) /\ n - 1 + 1 = n
        BY <1>2, <1>3, <3>1 DEF Runs
      <3>4. QED BY <3>2, <3>3 DEF Meet, e
    <2>2. Runs(z, slack)
      BY <1>2, <2>1, RunsAppend DEF Joins
    <2>3. /\ z \in Seq(Piece) /\ Len(z) = top + 1 /\ z # <<>> /\ z[top + 1] = e
          /\ \A i \in 1 .. top : z[i] = so[i]
      BY <1>1, <1>2, Appended
    <2> HIDE DEF z
    <2>4. z[1].from = list[1].from
      <3>1. CASE so = <<>>
        BY <1>1, <1>2, <2>3, <3>1 DEF Joins, e
      <3>2. CASE so # <<>>
        <4>1. 1 \in 1 .. top
          BY <1>3, <3>2
        <4>2. QED BY <1>3, <2>3, <3>2, <4>1 DEF Joins
      <3>3. QED BY <3>1, <3>2
    <2>5. n \in 1 .. n /\ (\A k \in n .. n : list[k].text = e.text) /\ e.from = list[n].from
      BY <1>2 DEF e
    <2>6. Joins(list, slack, n, z)
      BY <1>2, <2>2, <2>3, <2>4, <2>5 DEF Joins, e
    <2>7. QED BY <1>5, <2>6 DEF JoinedTo, z, e
  <1>6. QED BY <1>4, <1>5

(* Merged is what the steps are made into one by one.                      *)
LEMMA MergedMade ==
  ASSUME NEW list \in Seq(Piece)
  PROVE  \E kept : /\ Line!Merged(list) = kept[Len(list)] /\ kept[0] = <<>>
                   /\ \A n \in 0 .. Len(list) : kept[n] \in Seq(Piece)
                   /\ \A n \in 1 .. Len(list) : kept[n] = JoinedTo(kept[n - 1], list[n])
  <1> DEFINE N == Len(list)
             D(f) == f = [k \in 0 .. Len(list) |-> IF k = 0 THEN <<>> ELSE JoinedTo(f[k - 1], list[k])]
             step == [v \in Nat \X Seq(Piece) |-> IF v[1] \in 1 .. N THEN JoinedTo(v[2], list[v[1]]) ELSE <<>>]
  <1>1. N \in Nat
    OBVIOUS
  <1>2. ASSUME NEW so \in Seq(Piece), NEW k \in 1 .. N PROVE JoinedTo(so, list[k]) \in Seq(Piece)
    <2>1. list[k] \in Piece /\ list[k].to \in Int
      <3>1. list[k] \in Piece
        BY <1>1, ElementOfSeq
      <3>2. QED BY <3>1 DEF Piece
    <2>2. so # <<>> => Line!WithEnd(so, list[k].to) \in Seq(Piece)
      BY <2>1, WithEndFacts
    <2>3. Append(so, list[k]) \in Seq(Piece)
      BY <2>1
    <2>4. QED BY <2>2, <2>3 DEF JoinedTo
  <1>3. <<>> \in Seq(Piece)
    OBVIOUS
  <1>4. step \in [Nat \X Seq(Piece) -> Seq(Piece)]
    <2>1. ASSUME NEW v \in Nat \X Seq(Piece)
          PROVE  (IF v[1] \in 1 .. N THEN JoinedTo(v[2], list[v[1]]) ELSE <<>>) \in Seq(Piece)
      <3>1. v[1] \in Nat /\ v[2] \in Seq(Piece)
        OBVIOUS
      <3>2. QED BY <1>2, <1>3, <3>1
    <2>2. QED BY <2>1
  <1>5. PICK f : Recurs(N, Seq(Piece), <<>>, step, f)
    <2> HIDE DEF step
    <2>1. QED BY <1>1, <1>3, <1>4, Recursive
  <1>6. D(f)
    <2>1. ASSUME NEW n \in 0 .. N
          PROVE  f[n] = IF n = 0 THEN <<>> ELSE JoinedTo(f[n - 1], list[n])
      <3>1. CASE n = 0
        BY <1>5, <3>1 DEF Recurs
      <3>2. CASE n # 0
        <4>1. n \in 1 .. N /\ n \in Nat /\ n - 1 \in 0 .. N
          BY <1>1, <3>2
        <4>2. <<n, f[n - 1]>> \in Nat \X Seq(Piece)
          BY <1>5, <4>1 DEF Recurs
        <4>3. f[n] = step[<<n, f[n - 1]>>]
          BY <1>5, <3>2 DEF Recurs
        <4>4. QED BY <3>2, <4>1, <4>2, <4>3
      <3>3. QED BY <3>1, <3>2
    <2>2. f = [n \in 0 .. N |-> f[n]]
      BY <1>5 DEF Recurs
    <2>3. QED BY <2>1, <2>2
  <1> DEFINE kept == CHOOSE g : D(g)
  <1>7. D(kept)
    BY <1>6
  <1>8. Line!Merged(list) = kept[N]
    BY DEF Line!Merged, JoinedTo
  <1> HIDE DEF kept, step
  <1>9. kept[0] = <<>> /\ \A n \in 1 .. N : kept[n] = JoinedTo(kept[n - 1], list[n])
    BY <1>1, <1>7
  <1> DEFINE S == {n \in 0 .. N : kept[n] \in Seq(Piece)}
  <1>10. S = 0 .. N
    <2>1. S \in SUBSET (0 .. N) /\ 0 \in S
      <3>1. kept[0] \in Seq(Piece)
        <4> HIDE DEF D
        <4>1. QED BY <1>3, <1>9, Zenon
      <3>2. 0 \in 0 .. N
        BY <1>1
      <3>3. QED BY <3>1, <3>2
    <2>2. ASSUME NEW n \in 1 .. N, n - 1 \in S PROVE n \in S
      BY <1>1, <1>2, <1>9, <2>2
    <2> HIDE DEF S
    <2>3. QED BY <1>1, <2>1, <2>2, Numbers
  <1>11. QED BY <1>8, <1>9, <1>10

(* So what is left are steps.                                              *)
LEMMA MergedArePieces == ASSUME NEW list \in Seq(Piece) PROVE Line!Merged(list) \in Seq(Piece)
  <1>1. Len(list) \in 0 .. Len(list)
    OBVIOUS
  <1>2. QED BY <1>1, MergedMade

(* What is left when equal neighbours are joined leads the same way.       *)
LEMMA MergedFacts ==
  ASSUME NEW slack \in Nat, NEW list, Runs(list, slack), Forward(list), list # <<>>
  PROVE  LET z == Line!Merged(list)
         IN  /\ Runs(z, slack) /\ z # <<>>
             /\ z[1].from = list[1].from /\ z[Len(z)].to = list[Len(list)].to
  <1> DEFINE N == Len(list)
  <1>1. N \in Nat /\ N > 0 /\ list \in Seq(Piece)
    BY DEF Runs
  <1>2. PICK kept : /\ Line!Merged(list) = kept[N] /\ kept[0] = <<>>
                    /\ \A n \in 1 .. N : kept[n] = JoinedTo(kept[n - 1], list[n])
    BY <1>1, MergedMade
  <1>3. Joins(list, slack, 0, <<>>)
    BY DEF Joins, Runs
  <1> DEFINE S == {n \in 0 .. N : Joins(list, slack, n, kept[n])}
  <1>4. S = 0 .. N
    <2>1. S \in SUBSET (0 .. N) /\ 0 \in S
      BY <1>1, <1>2, <1>3
    <2>2. ASSUME NEW n \in 1 .. N, n - 1 \in S PROVE n \in S
      <3>1. Joins(list, slack, n - 1, kept[n - 1])
        BY <2>2
      <3>2. Joins(list, slack, n, kept[n])
        BY <1>2, <3>1, JoinOn
      <3>3. QED BY <1>1, <3>2
    <2> HIDE DEF S
    <2>3. QED BY <1>1, <2>1, <2>2, Numbers
  <1>5. Joins(list, slack, N, Line!Merged(list))
    <2>1. N \in S
      BY <1>1, <1>4
    <2>2. QED BY <1>2, <2>1
  <1>6. QED BY <1>1, <1>5 DEF Joins

(* Steps without slack are in the order of their times.                    *)
LEMMA RunsOrdered ==
  ASSUME NEW list, Runs(list, 0), NEW i \in 1 .. Len(list), NEW j \in 1 .. Len(list), i <= j
  PROVE  list[i].from <= list[j].from /\ list[i].to <= list[j].to
  <1> DEFINE N == Len(list)
             S == {k \in 0 .. N : k >= i => list[i].from <= list[k].from /\ list[i].to <= list[k].to}
  <1>1. list \in Seq(Piece) /\ N \in Nat
    BY DEF Runs
  <1>2. \A k \in 1 .. N : list[k].from \in Int /\ list[k].to \in Int /\ Lasts(list[k])
    <2>1. ASSUME NEW k \in 1 .. N PROVE list[k] \in Piece
      BY <1>1, ElementOfSeq
    <2>2. QED BY <2>1 DEF Piece, Runs
  <1> HIDE DEF N
  <1>3. S \in SUBSET (0 .. N) /\ 0 \in S
    <2>1. i \in Nat /\ i > 0
      BY DEF N
    <2>2. QED BY <1>1, <2>1
  <1>4. ASSUME NEW k \in 1 .. N, k - 1 \in S PROVE k \in S
    <2>1. CASE k < i
      BY <1>1, <2>1
    <2>2. CASE k = i
      BY <1>1, <1>2, <2>2
    <2>3. CASE k > i
      <3>1. k - 1 \in 1 .. N /\ k - 1 \in 1 .. N - 1 /\ k - 1 + 1 = k /\ k - 1 >= i
        BY <1>1, <2>3 DEF N
      <3>2. list[i].from <= list[k - 1].from /\ list[i].to <= list[k - 1].to
        BY <1>4, <3>1
      <3>3. Meet(list[k - 1], list[k], 0)
        BY <3>1 DEF Runs, N
      <3>4. list[i].from <= list[k].from /\ list[i].to <= list[k].to
        <4>1. /\ list[k - 1].from <= list[k - 1].to /\ list[k].from <= list[k].to
              /\ list[k].from = list[k - 1].to
          BY <1>2, <3>1, <3>3 DEF Lasts, Meet
        <4>2. i \in 1 .. N
          BY DEF N
        <4>3. QED BY <1>2, <3>1, <3>2, <4>1, <4>2
      <3>5. QED BY <3>4
    <2>4. k \in Int /\ i \in Int
      OBVIOUS
    <2>5. QED BY <2>1, <2>2, <2>3, <2>4
  <1>5. S = 0 .. N
    <2> HIDE DEF S
    <2>1. QED BY <1>1, <1>3, <1>4, Numbers
  <1>6. j \in S
    BY <1>1, <1>5 DEF N
  <1>7. QED BY <1>6

(* So they never run back.                                                 *)
LEMMA RunsForward == ASSUME NEW list, Runs(list, 0) PROVE Forward(list)
  <1>1. SUFFICES ASSUME NEW i \in 1 .. Len(list), NEW j \in 1 .. Len(list), i <= j
                 PROVE  list[i].from <= list[j].to /\ (tVideo => list[i].from < list[j].to)
    BY DEF Forward
  <1>2. list[i].from <= list[j].from
    BY <1>1, RunsOrdered
  <1>3. list[i] \in Piece /\ list[j] \in Piece /\ Lasts(list[j])
    BY ElementOfSeq DEF Runs
  <1>4. QED BY <1>2, <1>3 DEF Piece, Lasts

(* Steps, and others from where they end on.                               *)
LEMMA RunsConcat ==
  ASSUME NEW p, Runs(p, 0), NEW q, Runs(q, 0), q # <<>>, p # <<>> => p[Len(p)].to = q[1].from
  PROVE  LET z == p \o q
         IN  /\ Runs(z, 0) /\ z # <<>> /\ z[Len(z)] = q[Len(q)]
             /\ z[1] = IF p = <<>> THEN q[1] ELSE p[1]
  <1> DEFINE z == p \o q
             m == Len(p)
             n == Len(q)
  <1>1. p \in Seq(Piece) /\ q \in Seq(Piece) /\ m \in Nat /\ n \in Nat /\ n > 0 /\ (p = <<>> <=> m = 0)
    BY DEF Runs
  <1>2. /\ z \in Seq(Piece) /\ Len(z) = m + n
        /\ \A i \in 1 .. m + n : z[i] = IF i <= m THEN p[i] ELSE q[i - m]
    BY <1>1, ConcatProperties
  <1> HIDE DEF z
  <1>3. /\ \A i \in 1 .. m : Lasts(p[i])
        /\ \A i \in 1 .. n : Lasts(q[i]) /\ q[i] \in Piece
        /\ \A i \in 1 .. m - 1 : Meet(p[i], p[i + 1], 0)
        /\ \A i \in 1 .. n - 1 : Meet(q[i], q[i + 1], 0)
    BY <1>1, ElementOfSeq DEF Runs
  <1>4. m > 0 => p[m].to = q[1].from
    BY <1>1
  <1> HIDE DEF m, n
  <1>5. ASSUME NEW i \in 1 .. m + n PROVE Lasts(z[i])
    <2>1. CASE i <= m
      <3>1. i \in 1 .. m /\ z[i] = p[i]
        BY <1>1, <1>2, <2>1
      <3>2. QED BY <1>3, <3>1
    <2>2. CASE ~ i <= m
      <3>1. i - m \in 1 .. n
        BY <1>1, <2>2
      <3>2. QED BY <1>2, <1>3, <2>2, <3>1
    <2>3. QED BY <2>1, <2>2
  <1>6. ASSUME NEW i \in 1 .. m + n - 1 PROVE Meet(z[i], z[i + 1], 0)
    <2>1. i \in 1 .. m + n /\ i + 1 \in 1 .. m + n
      BY <1>1
    <2>2. CASE i < m
      <3>1. i \in 1 .. m - 1 /\ z[i] = p[i] /\ z[i + 1] = p[i + 1]
        BY <1>1, <1>2, <2>1, <2>2
      <3>2. QED BY <1>3, <3>1
    <2>3. CASE i = m
      <3>1. z[i] = p[m] /\ z[i + 1] = q[1]
        <4>1. ~ i + 1 <= m /\ (i + 1) - m = 1 /\ i <= m
          BY <1>1, <2>3
        <4>2. QED BY <1>2, <2>1, <2>3, <4>1
      <3>2. q[1].from \in Int /\ m > 0
        <4>1. 1 \in 1 .. n /\ m > 0
          BY <1>1, <2>3
        <4>2. q[1] \in Piece
          BY <1>3, <4>1
        <4>3. QED BY <4>1, <4>2 DEF Piece
      <3>3. QED BY <1>4, <3>1, <3>2 DEF Meet
    <2>4. CASE i > m
      <3>1. i - m \in 1 .. n - 1 /\ (i + 1) - m = i - m + 1 /\ ~ i <= m /\ ~ i + 1 <= m
        BY <1>1, <2>4
      <3>2. z[i] = q[i - m] /\ z[i + 1] = q[i - m + 1]
        <4>1. z[i] = q[i - m]
          BY <1>2, <2>1, <3>1
        <4>2. z[i + 1] = q[(i + 1) - m]
          BY <1>2, <2>1, <3>1
        <4>3. QED BY <3>1, <4>1, <4>2
      <3>3. QED BY <1>3, <3>1, <3>2
    <2>5. i \in Int /\ m \in Int
      BY <1>1
    <2>6. QED BY <2>2, <2>3, <2>4, <2>5
  <1>7. Runs(z, 0)
    <2>1. \A i \in 1 .. Len(z) : Lasts(z[i])
      BY <1>2, <1>5
    <2>2. ASSUME NEW i \in 1 .. Len(z) - 1 PROVE Meet(z[i], z[i + 1], 0)
      <3>1. i \in 1 .. m + n - 1
        BY <1>1, <1>2
      <3>2. QED BY <1>6, <3>1
    <2>3. QED BY <1>2, <2>1, <2>2 DEF Runs
  <1>8. z[m + n] = q[n] /\ z # <<>>
    <2>1. m + n \in 1 .. m + n /\ ~ m + n <= m /\ m + n - m = n
      BY <1>1
    <2>2. QED BY <1>1, <1>2, <2>1
  <1>9. z[1] = IF p = <<>> THEN q[1] ELSE p[1]
    <2>1. 1 \in 1 .. m + n /\ (m = 0 => ~ 1 <= m /\ 1 - m = 1) /\ (m # 0 => 1 <= m)
      BY <1>1
    <2>2. QED BY <1>1, <1>2, <2>1
  <1>10. QED BY <1>2, <1>7, <1>8, <1>9 DEF z, n

(* The steps of the second chunk, moved to where it starts.                *)
LEMMA MovedFacts ==
  ASSUME NEW list, Runs(list, 0), list # <<>>, NEW by \in Int
  PROVE  LET z == Line!Moved(list, by)
         IN  /\ Runs(z, 0) /\ z # <<>>
             /\ z[1].from = list[1].from + by /\ z[Len(z)].to = list[Len(list)].to + by
  <1> DEFINE z == Line!Moved(list, by)
             N == Len(list)
  <1>1. list \in Seq(Piece) /\ N \in Nat /\ N > 0 /\ DOMAIN list = 1 .. N
    BY DEF Runs
  <1>2. ASSUME NEW i \in 1 .. N
        PROVE  /\ z[i] \in Piece /\ z[i].from = list[i].from + by /\ z[i].to = list[i].to + by
               /\ list[i].from \in Int /\ list[i].to \in Int /\ Lasts(list[i])
    <2>1. list[i] \in Piece /\ Lasts(list[i])
      BY <1>1, ElementOfSeq DEF Runs
    <2>2. z[i] = [list[i] EXCEPT !.from = @ + by, !.to = @ + by]
      BY <1>1 DEF Line!Moved
    <2> HIDE DEF z
    <2> DEFINE e == list[i]
    <2>3. e \in Piece /\ z[i] = [e EXCEPT !.from = e.from + by, !.to = e.to + by]
      BY <2>1, <2>2
    <2> HIDE DEF e
    <2>4. e.from \in Int /\ e.to \in Int
      BY <2>3 DEF Piece
    <2>5. e.from + by \in Int /\ e.to + by \in Int
      BY <2>4
    <2>6. z[i] \in Piece /\ z[i].from = e.from + by /\ z[i].to = e.to + by
      BY <2>3, <2>5 DEF Piece
    <2>7. QED BY <2>1, <2>4, <2>6 DEF e
  <1>3. z \in Seq(Piece) /\ Len(z) = N
    <2>1. z = [i \in 1 .. N |-> z[i]]
      BY <1>1 DEF Line!Moved
    <2> HIDE DEF z
    <2>2. z \in [1 .. N -> Piece]
      BY <1>2, <2>1
    <2>3. QED BY <1>1, <2>2
  <1> HIDE DEF z, N
  <1>4. \A i \in 1 .. N : Lasts(z[i])
    BY <1>2 DEF Lasts
  <1>5. ASSUME NEW i \in 1 .. N - 1 PROVE Meet(z[i], z[i + 1], 0)
    <2>1. i \in 1 .. N /\ i + 1 \in 1 .. N
      BY <1>1
    <2>2. Meet(list[i], list[i + 1], 0)
      BY DEF Runs, N
    <2>3. QED BY <1>2, <2>1, <2>2 DEF Meet
  <1>6. Runs(z, 0)
    BY <1>3, <1>4, <1>5 DEF Runs
  <1>7. 1 \in 1 .. N /\ N \in 1 .. N /\ z # <<>>
    BY <1>1, <1>3
  <1>8. QED BY <1>2, <1>3, <1>6, <1>7 DEF z, N

(* Each step starts where the one before it ends, and the first at 0.      *)
LEMMA Straightened ==
  ASSUME NEW list, Runs(list, 0), list # <<>>, list[1].from >= 0
  PROVE  LET z == [i \in DOMAIN list |->
                     [list[i] EXCEPT !.from = IF i = 1 THEN 0 ELSE list[i - 1].to]]
         IN  Chain(z, list[Len(list)].to) /\ z # <<>>
  <1> DEFINE z == [i \in DOMAIN list |->
                     [list[i] EXCEPT !.from = IF i = 1 THEN 0 ELSE list[i - 1].to]]
             N == Len(list)
  <1>1. list \in Seq(Piece) /\ N \in Nat /\ N > 0 /\ DOMAIN list = 1 .. N
    BY DEF Runs
  <1>2. \A i \in 1 .. N : /\ list[i] \in Piece /\ Lasts(list[i])
                          /\ list[i].from \in Int /\ list[i].to \in Int
    <2>1. \A i \in 1 .. N : list[i] \in Piece
      BY <1>1, ElementOfSeq
    <2>2. QED BY <2>1 DEF Piece, Runs
  <1>3. ASSUME NEW i \in 1 .. N, i # 1 PROVE list[i].from = list[i - 1].to
    <2>1. i - 1 \in 1 .. Len(list) - 1 /\ i - 1 + 1 = i /\ i - 1 \in 1 .. N
      BY <1>1, <1>3
    <2>2. Meet(list[i - 1], list[i], 0)
      BY <2>1 DEF Runs
    <2>3. QED BY <1>2, <2>1, <2>2 DEF Meet
  <1>4. ASSUME NEW i \in 1 .. N
        PROVE  /\ z[i] \in Piece /\ z[i].to = list[i].to
               /\ z[i].from = IF i = 1 THEN 0 ELSE list[i].from
    <2> DEFINE from == IF i = 1 THEN 0 ELSE list[i - 1].to
    <2>1. z[i] = [list[i] EXCEPT !.from = from]
      BY <1>1
    <2>2. from = IF i = 1 THEN 0 ELSE list[i].from
      BY <1>3
    <2> HIDE DEF z, from
    <2>3. from \in Int
      BY <1>2, <2>2
    <2>4. QED BY <1>2, <2>1, <2>2, <2>3 DEF Piece
  <1>5. z \in Seq(Piece) /\ Len(z) = N
    <2>1. z = [i \in 1 .. N |-> z[i]]
      BY <1>1
    <2> HIDE DEF z
    <2>2. z \in [1 .. N -> Piece]
      BY <1>4, <2>1
    <2>3. QED BY <1>1, <2>2
  <1> HIDE DEF z, N
  <1>6. ASSUME NEW i \in 1 .. N PROVE Lasts(z[i])
    <2>1. z[i].from <= list[i].from
      BY <1>2, <1>4
    <2>2. QED BY <1>2, <1>4, <2>1 DEF Lasts
  <1>7. ASSUME NEW i \in 1 .. N - 1 PROVE Meet(z[i], z[i + 1], 0)
    <2>1. i \in 1 .. N /\ i + 1 \in 1 .. N /\ i + 1 # 1
      BY <1>1
    <2>2. Meet(list[i], list[i + 1], 0)
      BY DEF Runs, N
    <2>3. QED BY <1>4, <2>1, <2>2 DEF Meet
  <1>8. Runs(z, 0)
    BY <1>5, <1>6, <1>7 DEF Runs
  <1>9. z # <<>> /\ 1 \in 1 .. N /\ N \in 1 .. N
    BY <1>1, <1>5
  <1>10. Line!EndOf(z) = list[N].to
    <2>1. Line!Last(z) = z[N]
      BY <1>5, <1>9, LastOf
    <2>2. QED BY <1>4, <1>9, <2>1 DEF Line!EndOf
  <1>11. z[1].from = 0
    BY <1>4, <1>9
  <1>12. QED BY <1>8, <1>9, <1>10, <1>11 DEF Chain, z, N

(* An answer is a sequence of at least one segment.                        *)
LEMMA AnswersAre ==
  ASSUME Line!TimelineAssumption, NEW most \in Int, NEW a \in Line!Answers(most)
  PROVE  a \in Seq([at : Int, text : Text]) /\ a # <<>>
  <1>1. PICK n \in 1 .. most : a \in [1 .. n -> [at : Time, text : Text]]
    BY DEF Line!Answers
  <1>2. [at : Time, text : Text] \in SUBSET [at : Int, text : Text]
    BY DEF Line!TimelineAssumption
  <1>3. n \in Nat /\ n > 0
    OBVIOUS
  <1> DEFINE S == [at : Int, text : Text]
  <1>4. a \in [1 .. n -> S]
    BY <1>1, <1>2
  <1> HIDE DEF S
  <1>5. a \in Seq(S) /\ Len(a) = n
    BY <1>3, <1>4
  <1>6. QED BY <1>3, <1>5 DEF S

(* Two chunks are the halves of the media.                                 *)
LEMMA TwoChunks ==
  ASSUME Line!TimelineAssumption, count \in Nat \ {0}, Len(Line!Chunks) = 2
  PROVE  /\ Line!Chunks[1] \in Nat /\ Line!Chunks[1] > 0
         /\ Line!Chunks[2] \in Nat /\ Line!Chunks[2] > 1
         /\ Line!Chunks[2] + Line!Chunks[1] = Line!Duration
  <1> DEFINE D == Line!Duration
             n == Line!Max({2, Line!CeilDiv(D, Chunk)})
             parts == [k \in 1 .. n |-> IF k = n THEN D - (n - 1) * (D \div n) ELSE D \div n]
  <1>1. D \in Nat /\ D > 2 /\ Chunk \in Nat \ {0}
    BY MediaLast DEF Line!TimelineAssumption
  <1>2. Line!CeilDiv(D, Chunk) \in Int
    BY <1>1 DEF Line!CeilDiv
  <1>3. n \in Nat
    <2>1. PICK e \in Int : e = Line!CeilDiv(D, Chunk)
      BY <1>2
    <2>2. Line!Max({2, e}) \in {2, e} /\ Line!Max({2, e}) >= 2
      BY <2>1, TwoOfFour
    <2>3. QED BY <2>1, <2>2
  <1>4. Line!Chunks = IF D <= Chunk THEN <<D>> ELSE parts
    BY DEF Line!Chunks
  <1> HIDE DEF D, n
  <1>5. Line!Chunks = parts /\ n = 2
    <2>1. Len(<<D>>) = 1
      OBVIOUS
    <2>2. Len(parts) = n
      BY <1>3
    <2> HIDE DEF parts
    <2>3. Line!Chunks # <<D>>
      BY <2>1
    <2>4. QED BY <1>4, <2>2, <2>3
  <1>6. parts[1] = D \div 2 /\ parts[2] = D - (D \div 2)
    BY <1>1, <1>5
  <1>7. D \div 2 \in Nat /\ D \div 2 > 0 /\ D - (D \div 2) > 1
    BY <1>1
  <1>8. QED BY <1>1, <1>5, <1>6, <1>7 DEF D

(* merge_vla_chunk_results: the steps of two chunks lead through the       *)
(* media.                                                                  *)
LEMMA ChunksChain ==
  ASSUME Line!TimelineAssumption, count \in Nat \ {0}, Len(Line!Chunks) = 2,
         NEW a \in Seq([at : Int, text : Text]), a # <<>>,
         NEW b \in Seq([at : Int, text : Text]), b # <<>>
  PROVE  LET list == Line!ChunkSteps(Line!OperatorSteps(a, Line!Chunks[1]),
                                     Line!OperatorSteps(b, Line!Chunks[2]))
         IN  Chain(list, Line!Duration) /\ list # <<>>
  <1> DEFINE c == Line!Chunks[1]
             d == Line!Chunks[2]
             D == Line!Duration
             first == Line!OperatorSteps(a, c)
             second == Line!OperatorSteps(b, d)
             moved == Line!Moved(second, c)
             both == first \o moved
             all == Line!Merged(both)
             straight == [i \in DOMAIN all |->
                            [all[i] EXCEPT !.from = IF i = 1 THEN 0 ELSE all[i - 1].to]]
  <1>1. c \in Nat /\ c > 0 /\ d \in Nat /\ d > 1 /\ d + c = D
    BY TwoChunks
  <1>2. Line!ChunkSteps(first, second) = Line!WithEnd(straight, D)
    BY DEF Line!ChunkSteps
  <1> HIDE DEF c, d, D
  <1>3. first # <<>> => Chain(first, c)
    BY <1>1, OperatorChain
  <1>4. second # <<>> /\ Chain(second, d)
    <2>1. second = <<>> => d <= 1
      BY <1>1, OperatorChain
    <2>2. second # <<>> => Chain(second, d)
      BY <1>1, OperatorChain
    <2>3. QED BY <1>1, <2>1, <2>2
  <1> HIDE DEF first, second
  <1>5. second \in Seq(Piece) /\ second[1].from = 0 /\ second[Len(second)].to = d
    <2>1. second \in Seq(Piece)
      BY <1>4 DEF Chain, Runs
    <2>2. QED BY <1>4, <2>1, LastOf DEF Chain, Line!EndOf
  <1>6. Runs(moved, 0) /\ moved # <<>> /\ moved[1].from = c /\ moved[Len(moved)].to = D
    <2>1. /\ Runs(moved, 0) /\ moved # <<>>
          /\ moved[1].from = second[1].from + c /\ moved[Len(moved)].to = second[Len(second)].to + c
      <3>1. c \in Int
        BY <1>1
      <3>2. QED BY <1>4, <3>1, MovedFacts DEF Chain
    <2> HIDE DEF moved
    <2>2. QED BY <1>1, <1>5, <2>1
  <1> HIDE DEF moved
  <1>7. first # <<>> => Runs(first, 0) /\ first[1].from = 0 /\ first[Len(first)].to = c
    <2>1. SUFFICES ASSUME first # <<>>
                   PROVE  Runs(first, 0) /\ first[1].from = 0 /\ first[Len(first)].to = c
      OBVIOUS
    <2>2. first \in Seq(Piece)
      BY <1>3, <2>1 DEF Chain, Runs
    <2>3. QED BY <1>3, <2>1, <2>2, LastOf DEF Chain, Line!EndOf
  <1>8. first = <<>> => Runs(first, 0)
    BY DEF Runs
  <1>9. /\ Runs(both, 0) /\ both # <<>> /\ both[Len(both)] = moved[Len(moved)]
        /\ both[1] = IF first = <<>> THEN moved[1] ELSE first[1]
    BY <1>6, <1>7, <1>8, RunsConcat
  <1> HIDE DEF both
  <1>10. both[1].from >= 0 /\ both[Len(both)].to = D
    BY <1>1, <1>6, <1>7, <1>9
  <1>11. /\ Runs(all, 0) /\ all # <<>>
         /\ all[1].from = both[1].from /\ all[Len(all)].to = both[Len(both)].to
    <2>1. Forward(both) /\ 0 \in Nat
      BY <1>9, RunsForward
    <2>2. QED BY <1>9, <2>1, MergedFacts
  <1> HIDE DEF all
  <1>12. Chain(straight, D) /\ straight # <<>>
    <2>1. all[1].from >= 0
      BY <1>10, <1>11
    <2>2. QED BY <1>10, <1>11, <2>1, Straightened
  <1> HIDE DEF straight
  <1>13. D \in Int /\ D <= D
    BY <1>1
  <1>14. Chain(Line!WithEnd(straight, D), D) /\ Line!WithEnd(straight, D) # <<>>
    BY <1>12, <1>13, ChainWithEnd
  <1>15. QED BY <1>2, <1>14 DEF c, d, D, first, second

(* Steps that lead through the media are accepted.                         *)
LEMMA ChainIsValid ==
  ASSUME Line!TimelineAssumption, count \in Nat \ {0}, NEW list, Chain(list, Line!Final), list # <<>>
  PROVE  Line!Valid(list)
  <1> DEFINE N == Len(list)
  <1>1. /\ list \in Seq(Piece) /\ N \in Nat /\ N > 0 /\ DOMAIN list = 1 .. N
        /\ Runs(list, 0) /\ list[1].from = 0
    BY DEF Chain, Runs
  <1>2. \A i \in 1 .. N : /\ list[i] \in Piece /\ Lasts(list[i])
                          /\ list[i].from \in Int /\ list[i].to \in Int
    <2>1. \A i \in 1 .. N : list[i] \in Piece
      BY <1>1, ElementOfSeq
    <2>2. QED BY <1>1, <2>1 DEF Piece, Runs
  <1>3. Line!Slack \in Nat /\ Half \in Nat
    BY DEF Line!Slack, Line!TimelineAssumption
  <1>4. Line!Last(list) = list[N] /\ list[N].to = Line!Final
    BY <1>1, LastOf DEF Chain, Line!EndOf
  <1> HIDE DEF N
  <1>5. ASSUME NEW i \in 1 .. N
        PROVE  /\ list[i].from >= 0
               /\ list[i].from <= list[i].to /\ (tVideo => list[i].from # list[i].to)
               /\ i > 1 => Line!Near(list[i].from, list[i - 1].to, Line!Slack)
    <2>1. list[1].from <= list[i].from
      <3>1. 1 \in 1 .. Len(list) /\ i \in 1 .. Len(list) /\ 1 <= i
        BY <1>1 DEF N
      <3>2. QED BY <1>1, <3>1, RunsOrdered
    <2>2. list[i].from >= 0 /\ list[i].from <= list[i].to /\ (tVideo => list[i].from # list[i].to)
      BY <1>1, <1>2, <2>1 DEF Lasts
    <2>3. ASSUME i > 1 PROVE Line!Near(list[i].from, list[i - 1].to, Line!Slack)
      <3>1. i - 1 \in 1 .. Len(list) - 1 /\ i - 1 + 1 = i /\ i - 1 \in 1 .. N
        BY <1>1, <2>3 DEF N
      <3>2. Meet(list[i - 1], list[i], 0)
        BY <1>1, <3>1 DEF Runs
      <3>3. list[i].from - list[i - 1].to = 0
        BY <1>2, <3>1, <3>2 DEF Meet
      <3>4. QED BY <1>3, <3>3 DEF Line!Near
    <2>4. QED BY <2>2, <2>3
  <1>6. Line!Near(list[1].from, 0, Line!Slack)
    BY <1>1, <1>3 DEF Line!Near
  <1>7. Line!Near(Line!Last(list).to, Line!Final, IF tVideo THEN Half ELSE 0)
    <2>1. Line!Final \in Nat
      BY MediaLast
    <2>2. QED BY <1>3, <1>4, <2>1 DEF Line!Near
  <1>8. QED BY <1>1, <1>5, <1>6, <1>7 DEF Line!Valid

(* What is accepted leads through the media, give or take.                 *)
LEMMA ValidFacts ==
  ASSUME Line!TimelineAssumption, count \in Nat \ {0}, NEW list \in Seq(Piece), Line!Valid(list)
  PROVE  /\ Runs(list, Line!Slack) /\ list # <<>> /\ Line!Slack \in Nat
         /\ list[1].from <= Line!Slack
         /\ list[Len(list)].to >= Line!Final - (IF tVideo THEN Half ELSE 0)
  <1> DEFINE N == Len(list)
  <1>1. list # <<>> /\ N \in Nat /\ N > 0 /\ DOMAIN list = 1 .. N
    BY DEF Line!Valid
  <1>2. \A i \in 1 .. N : list[i] \in Piece /\ list[i].from \in Int /\ list[i].to \in Int
    <2>1. \A i \in 1 .. N : list[i] \in Piece
      BY ElementOfSeq
    <2>2. QED BY <2>1 DEF Piece
  <1>3. Line!Slack \in Nat /\ Half \in Nat /\ Line!Final \in Nat
    BY MediaLast DEF Line!Slack, Line!TimelineAssumption
  <1>4. Line!Last(list) = list[N]
    BY <1>1, LastOf
  <1>5. \A i \in 1 .. N :
          /\ list[i].from <= list[i].to /\ (tVideo => list[i].from # list[i].to)
          /\ i > 1 => Line!Near(list[i].from, list[i - 1].to, Line!Slack)
    BY <1>1 DEF Line!Valid
  <1> HIDE DEF N
  <1>6. \A i \in 1 .. N : Lasts(list[i])
    BY <1>2, <1>5 DEF Lasts
  <1>7. ASSUME NEW i \in 1 .. N - 1 PROVE Meet(list[i], list[i + 1], Line!Slack)
    <2>1. i \in 1 .. N /\ i + 1 \in 1 .. N /\ i + 1 > 1 /\ (i + 1) - 1 = i
      BY <1>1
    <2>2. Line!Near(list[i + 1].from, list[i].to, Line!Slack)
      BY <1>5, <2>1
    <2>3. list[i + 1].from \in Int /\ list[i].to \in Int
      BY <1>2, <2>1
    <2>4. list[i + 1].from - list[i].to \in - Line!Slack .. Line!Slack
      BY <2>1, <2>2 DEF Line!Near
    <2>5. QED BY <1>3, <2>3, <2>4 DEF Meet
  <1>8. Runs(list, Line!Slack)
    BY <1>6, <1>7 DEF Runs, N
  <1>9. list[1].from <= Line!Slack
    <2>1. Line!Near(list[1].from, 0, Line!Slack) /\ 1 \in 1 .. N
      BY <1>1 DEF Line!Valid
    <2>2. QED BY <1>2, <1>3, <2>1 DEF Line!Near
  <1>10. list[N].to >= Line!Final - (IF tVideo THEN Half ELSE 0)
    <2>1. Line!Near(list[N].to, Line!Final, IF tVideo THEN Half ELSE 0) /\ N \in 1 .. N
      BY <1>1, <1>4 DEF Line!Valid
    <2>2. QED BY <1>2, <1>3, <2>1 DEF Line!Near
  <1>11. QED BY <1>1, <1>3, <1>8, <1>9, <1>10 DEF N

(* A time that the steps reach is one of a step, or just before one.       *)
On(p, a) == p.from <= a /\ a < p.to

(* The first step that ends after a time contains it, or starts soon.      *)
LEMMA Covered ==
  ASSUME NEW slack \in Nat, NEW list, Runs(list, slack), list # <<>>, NEW a \in Int,
         list[1].from <= a + slack, a < list[Len(list)].to
  PROVE  \E i \in 1 .. Len(list) :
           On(list[i], a) \/ (a < list[i].from /\ list[i].from <= a + slack)
  <1> DEFINE N == Len(list)
             S == {i \in 1 .. N : a < list[i].to}
  <1>1. list \in Seq(Piece) /\ N \in Nat /\ N > 0
    BY DEF Runs
  <1>2. \A i \in 1 .. N : list[i].from \in Int /\ list[i].to \in Int
    <2>1. \A i \in 1 .. N : list[i] \in Piece
      BY <1>1, ElementOfSeq
    <2>2. QED BY <2>1 DEF Piece
  <1> HIDE DEF N
  <1>3. S \in SUBSET Nat /\ S # {}
    <2>1. N \in S
      BY <1>1 DEF N
    <2>2. QED BY <2>1
  <1>4. PICK i \in S : \A k \in S : i <= k
    <2> HIDE DEF S
    <2>1. QED BY <1>3, LeastNumber
  <1>5. i \in 1 .. N /\ a < list[i].to
    OBVIOUS
  <1>6. CASE list[i].from <= a
    BY <1>5, <1>6 DEF On, N
  <1>7. CASE ~ list[i].from <= a
    <2>1. list[i].from <= a + slack
      <3>1. CASE i = 1
        BY <3>1
      <3>2. CASE i # 1
        <4>1. i - 1 \in 1 .. N - 1 /\ i - 1 \in 1 .. N /\ (i - 1) + 1 = i /\ i - 1 < i
          BY <1>1, <1>5, <3>2
        <4>2. i - 1 \notin S
          BY <1>3, <1>4, <4>1
        <4>3. ~ a < list[i - 1].to
          BY <4>1, <4>2
        <4>4. Meet(list[i - 1], list[i], slack)
          BY <4>1 DEF Runs, N
        <4>5. list[i - 1].to \in Int /\ list[i].from \in Int
          BY <1>2, <1>5, <4>1
        <4>6. QED BY <4>3, <4>4, <4>5 DEF Meet
      <3>3. QED BY <3>1, <3>2
    <2>2. list[i].from \in Int
      BY <1>2, <1>5
    <2>3. QED BY <1>5, <1>7, <2>1, <2>2 DEF N
  <1>8. QED BY <1>6, <1>7

(* A time is one of two steps only at the start of a step.                 *)
LEMMA SharedAtSeam ==
  ASSUME NEW slack \in Nat, NEW list, Runs(list, slack), NEW a \in Int,
         NEW i \in 1 .. Len(list), NEW j \in 1 .. Len(list), i < j, On(list[i], a), On(list[j], a)
  PROVE  \E k \in 1 .. Len(list) : list[k].from <= a /\ a < list[k].from + slack
  <1> DEFINE N == Len(list)
             S == {k \in 1 .. N : i < k /\ list[k].from <= a}
  <1>1. list \in Seq(Piece) /\ N \in Nat
    BY DEF Runs
  <1>2. \A k \in 1 .. N : list[k].from \in Int /\ list[k].to \in Int /\ Lasts(list[k])
    <2>1. \A k \in 1 .. N : list[k] \in Piece
      BY <1>1, ElementOfSeq
    <2>2. QED BY <2>1 DEF Piece, Runs
  <1>3. S \in SUBSET Nat /\ S # {}
    <2>1. j \in S
      BY DEF On
    <2>2. QED BY <2>1
  <1>4. PICK k \in S : \A m \in S : k <= m
    <2> HIDE DEF S
    <2>1. QED BY <1>3, LeastNumber
  <1>5. k \in 1 .. N /\ i < k /\ list[k].from <= a /\ i \in 1 .. N
    OBVIOUS
  <1> HIDE DEF N
  <1>6. k - 1 \in 1 .. N - 1 /\ k - 1 \in 1 .. N /\ (k - 1) + 1 = k /\ k - 1 < k /\ i <= k - 1
    BY <1>1, <1>5
  <1>7. a < list[k - 1].to
    <2>1. CASE k - 1 = i
      BY <2>1 DEF On
    <2>2. CASE k - 1 # i
      <3>1. k - 1 \notin S
        BY <1>3, <1>4, <1>6
      <3>2. i < k - 1
        BY <1>5, <1>6, <2>2
      <3>3. ~ list[k - 1].from <= a
        BY <1>6, <3>1, <3>2
      <3>4. list[k - 1].from \in Int /\ list[k - 1].to \in Int /\ list[k - 1].from <= list[k - 1].to
        BY <1>2, <1>6 DEF Lasts
      <3>5. QED BY <3>3, <3>4
    <2>3. QED BY <2>1, <2>2
  <1>8. Meet(list[k - 1], list[k], slack)
    BY <1>6 DEF Runs, N
  <1>9. list[k - 1].to \in Int /\ list[k].from \in Int
    BY <1>2, <1>5, <1>6
  <1>10. a < list[k].from + slack
    <2>1. list[k - 1].to - slack <= list[k].from
      BY <1>8 DEF Meet
    <2> HIDE DEF S
    <2>2. QED BY <1>7, <1>9, <2>1
  <1>11. QED BY <1>5, <1>10 DEF N

(* So each time is one of exactly one step, or at a seam.                  *)
LEMMA OnceOrSeam ==
  ASSUME NEW slack \in Nat, NEW list, Runs(list, slack), list # <<>>, NEW a \in Int,
         list[1].from <= a + slack, a < list[Len(list)].to
  PROVE  \/ \E i \in 1 .. Len(list) : \A j \in 1 .. Len(list) : On(list[j], a) <=> i = j
         \/ slack > 0 /\ \E i \in 1 .. Len(list) : Line!Near(a, list[i].from, slack)
  <1> DEFINE N == Len(list)
  <1>1. list \in Seq(Piece) /\ N \in Nat
    BY DEF Runs
  <1>2. \A k \in 1 .. N : list[k].from \in Int
    <2>1. \A k \in 1 .. N : list[k] \in Piece
      BY <1>1, ElementOfSeq
    <2>2. QED BY <2>1 DEF Piece
  <1>3. PICK i \in 1 .. N : On(list[i], a) \/ (a < list[i].from /\ list[i].from <= a + slack)
    BY Covered
  <1> HIDE DEF N
  <1>4. ASSUME NEW k \in 1 .. N, a < list[k].from + slack, list[k].from <= a + slack,
               a < list[k].from \/ (list[k].from <= a /\ slack > 0)
        PROVE  slack > 0 /\ Line!Near(a, list[k].from, slack)
    <2>1. list[k].from \in Int
      BY <1>2
    <2>2. a - list[k].from \in - slack .. slack
      BY <1>4, <2>1
    <2>3. slack > 0
      BY <1>4, <2>1
    <2>4. QED BY <2>2, <2>3 DEF Line!Near
  <1>5. ASSUME a < list[i].from, list[i].from <= a + slack
        PROVE  slack > 0 /\ Line!Near(a, list[i].from, slack)
    <2>1. list[i].from \in Int
      BY <1>2
    <2>2. a < list[i].from + slack
      BY <1>5, <2>1
    <2>3. a - list[i].from \in - slack .. slack /\ slack > 0
      BY <1>5, <2>1
    <2>4. QED BY <2>3 DEF Line!Near
  <1>6. CASE On(list[i], a)
    <2>1. ASSUME NEW j \in 1 .. N, j # i, On(list[j], a)
          PROVE  \E k \in 1 .. N : slack > 0 /\ Line!Near(a, list[k].from, slack)
      <3>1. i < j \/ j < i
        BY <2>1
      <3>2. PICK k \in 1 .. N : list[k].from <= a /\ a < list[k].from + slack
        <4>1. CASE i < j
          BY <1>6, <2>1, <4>1, SharedAtSeam DEF N
        <4>2. CASE j < i
          BY <1>6, <2>1, <4>2, SharedAtSeam DEF N
        <4>3. QED BY <3>1, <4>1, <4>2
      <3>3. list[k].from \in Int
        BY <1>2
      <3>4. list[k].from <= a + slack /\ slack > 0
        BY <3>2, <3>3
      <3>5. slack > 0 /\ Line!Near(a, list[k].from, slack)
        BY <1>4, <3>2, <3>4
      <3>6. QED BY <3>5
    <2>2. CASE \E j \in 1 .. N : j # i /\ On(list[j], a)
      BY <2>1, <2>2 DEF N
    <2>3. CASE ~ \E j \in 1 .. N : j # i /\ On(list[j], a)
      BY <1>6, <2>3 DEF N
    <2>4. QED BY <2>2, <2>3
  <1>7. CASE ~ On(list[i], a)
    BY <1>3, <1>5, <1>7 DEF N
  <1>8. QED BY <1>6, <1>7

(* The image at a place is one of a step.                                  *)
LEMMA ImageCovered ==
  ASSUME NEW list, Runs(list, 0), list # <<>>, NEW a \in Int,
         list[1].from <= a, a <= list[Len(list)].to
  PROVE  \E i \in 1 .. Len(list) : list[i].from <= a /\ a <= list[i].to
  <1> DEFINE N == Len(list)
  <1>1. list \in Seq(Piece) /\ N \in Nat /\ N > 0
    BY DEF Runs
  <1>2. list[N].from \in Int /\ list[N].to \in Int /\ list[N].from <= list[N].to
    <2>1. N \in 1 .. N
      BY <1>1
    <2>2. list[N] \in Piece
      BY <1>1, <2>1, ElementOfSeq
    <2>3. QED BY <2>1, <2>2 DEF Piece, Runs, Lasts
  <1>3. CASE a = list[N].to
    BY <1>1, <1>2, <1>3
  <1>4. CASE a < list[N].to
    <2>1. 0 \in Nat /\ list[1].from <= a + 0
      OBVIOUS
    <2>2. PICK i \in 1 .. N : On(list[i], a) \/ (a < list[i].from /\ list[i].from <= a + 0)
      BY <1>4, <2>1, Covered
    <2>3. list[i] \in Piece
      BY <1>1, ElementOfSeq
    <2>4. QED BY <2>2, <2>3 DEF On, Piece
  <1>5. QED BY <1>2, <1>3, <1>4

(* Anchors are times of the media, and those before its end are its.       *)
LEMMA AnchorFacts ==
  ASSUME Line!TimelineAssumption, NEW D \in Nat, NEW end \in Int,
         NEW a \in Line!Anchors(Line!Min({D, end}))
  PROVE  a \in Nat /\ a < D /\ a < end /\ a \in Line!Anchors(end)
  <1> DEFINE low == Line!Min({D, end})
  <1>1. Half \in Nat /\ Half > 0
    BY DEF Line!TimelineAssumption
  <1>2. low \in Int /\ low <= D /\ low <= end
    <2>1. D \in Int
      OBVIOUS
    <2>2. Line!Min({D, end}) \in {D, end} /\ Line!Min({D, end}) <= D /\ Line!Min({D, end}) <= end
      BY <2>1, TwoOfFour
    <2>3. QED BY <2>1, <2>2
  <1> HIDE DEF low
  <1>3. PICK k \in 0 .. Line!CeilDiv(low, Half) : a = k * Half /\ a < low
    BY DEF Line!Anchors, low
  <1>4. k \in Nat /\ k * Half \in Nat
    BY <1>1
  <1>5. a \in Nat /\ a < D /\ a < end
    BY <1>2, <1>3, <1>4
  <1>6. k <= Line!CeilDiv(end, Half)
    <2>1. PICK q \in Int : q = (- end) \div Half
      BY <1>1
    <2>2. Half * q <= - end
      BY <1>1, <2>1
    <2>3. Line!CeilDiv(end, Half) = - q
      BY <2>1 DEF Line!CeilDiv
    <2>4. k <= - q
      <3>1. SUFFICES ASSUME - q + 1 <= k PROVE FALSE
        BY <1>4
      <3>2. (k + q) * Half >= Half /\ (k + q) * Half = k * Half + Half * q
        BY <1>1, <1>4, <3>1
      <3>3. Half * q \in Int /\ k * Half \in Int
        BY <1>1, <1>4
      <3>4. QED BY <1>1, <1>3, <1>5, <2>2, <3>2, <3>3
    <2>5. QED BY <2>3, <2>4
  <1>7. Line!CeilDiv(end, Half) \in Int
    BY <1>1 DEF Line!CeilDiv
  <1>8. k \in 0 .. Line!CeilDiv(end, Half)
    BY <1>4, <1>6, <1>7
  <1>9. QED BY <1>3, <1>5, <1>8 DEF Line!Anchors

(* The step that subtask_at_time finds is the only one.                    *)
LEMMA FoundByTime ==
  ASSUME tVideo, steps \in Seq(Piece), NEW a \in Int, NEW i \in 1 .. Len(steps),
         \A j \in 1 .. Len(steps) : On(steps[j], a) <=> i = j
  PROVE  Line!StepAt(a) = i
  <1> DEFINE on == {j \in DOMAIN steps : /\ steps[j].from <= a
                                         /\ \/ a < steps[j].to
                                            \/ a = steps[j].to /\ (tVideo => j = Len(steps))}
  <1>1. Len(steps) \in Nat /\ DOMAIN steps = 1 .. Len(steps)
    OBVIOUS
  <1>2. On(steps[i], a)
    OBVIOUS
  <1>3. i \in on
    BY <1>1, <1>2 DEF On
  <1>4. \A j \in on : i <= j
    <2>1. ASSUME NEW j \in on PROVE i <= j
      <3>1. j \in 1 .. Len(steps) /\ steps[j].from <= a /\ (a < steps[j].to \/ j = Len(steps))
        BY <1>1
      <3>2. CASE a < steps[j].to
        BY <3>1, <3>2 DEF On
      <3>3. CASE j = Len(steps)
        BY <1>1, <3>3
      <3>4. QED BY <3>1, <3>2, <3>3
    <2>2. QED BY <2>1
  <1>5. on \in SUBSET Int /\ on # {}
    BY <1>1, <1>3
  <1>6. Line!StepAt(a) = IF on = {} THEN 0 ELSE Line!Min(on)
    BY DEF Line!StepAt
  <1> HIDE DEF on
  <1>7. Line!Min(on) \in on /\ \A k \in on : Line!Min(on) <= k
    BY <1>3, <1>4, <1>5, MinIsSmallest
  <1>8. Line!Min(on) = i
    <2>1. i \in Int /\ Line!Min(on) \in Int
      BY <1>3, <1>5, <1>7
    <2>2. i <= Line!Min(on) /\ Line!Min(on) <= i
      BY <1>3, <1>4, <1>7
    <2>3. QED BY <2>1, <2>2
  <1>9. QED BY <1>5, <1>6, <1>8

(* An image that some step shows is found in one of its steps.             *)
LEMMA FoundByIndex ==
  ASSUME ~ tVideo, steps \in Seq(Piece), NEW a \in Int,
         \E i \in 1 .. Len(steps) : steps[i].from <= a /\ a <= steps[i].to
  PROVE  Line!StepAt(a) # 0 /\ a \in Line!ImagesOf(steps[Line!StepAt(a)])
  <1> DEFINE on == {j \in DOMAIN steps : /\ steps[j].from <= a
                                         /\ \/ a < steps[j].to
                                            \/ a = steps[j].to /\ (tVideo => j = Len(steps))}
  <1>1. Len(steps) \in Nat /\ DOMAIN steps = 1 .. Len(steps)
    OBVIOUS
  <1>2. \A i \in 1 .. Len(steps) : steps[i].from \in Int /\ steps[i].to \in Int
    <2>1. \A i \in 1 .. Len(steps) : steps[i] \in Piece
      BY ElementOfSeq
    <2>2. QED BY <2>1 DEF Piece
  <1>3. on = {i \in 1 .. Len(steps) : steps[i].from <= a /\ a <= steps[i].to}
    <2>1. \A i \in 1 .. Len(steps) : (a < steps[i].to \/ a = steps[i].to) <=> a <= steps[i].to
      BY <1>2
    <2>2. QED BY <1>1, <2>1
  <1>4. Line!StepAt(a) = IF on = {} THEN 0 ELSE Line!Min(on)
    BY DEF Line!StepAt
  <1> HIDE DEF on
  <1>5. on \in SUBSET Nat /\ on # {}
    BY <1>3
  <1>6. PICK m \in on : \A k \in on : m <= k
    BY <1>5, LeastNumber
  <1>7. Line!Min(on) \in on
    <2>1. on \in SUBSET Int
      BY <1>5
    <2>2. QED BY <1>6, <2>1, MinIsSmallest
  <1>8. Line!StepAt(a) \in on
    BY <1>4, <1>5, <1>7
  <1>9. Line!StepAt(a) \in 1 .. Len(steps)
    BY <1>3, <1>8
  <1>10. a \in Line!ImagesOf(steps[Line!StepAt(a)])
    BY <1>2, <1>3, <1>8, <1>9 DEF Line!ImagesOf
  <1>11. QED BY <1>9, <1>10

-----------------------------------------------------------------------------
(* What the subtasks are in each phase.                                    *)
TimeInv ==
  /\ count \in Nat \ {0} /\ tPhase \in {"asked", "answered", "accepted", "rejected"}
  /\ tPhase = "asked" => exact = TRUE /\ steps = <<>>
  /\ tPhase = "answered" => IF exact THEN Chain(steps, Line!Final) /\ steps # <<>> ELSE steps \in Loaded
  /\ tPhase = "accepted" => steps \in Seq(Piece)
  /\ tPhase = "rejected" => ~ exact /\ steps \in Loaded

(* What is accepted leads through the media: the steps of an answer do so  *)
(* exactly, those of an earlier result give or take.                       *)
Tolerance == IF exact THEN 0 ELSE Line!Slack
Rest == IF exact \/ ~ tVideo THEN 0 ELSE Half

Leads ==
  /\ Runs(steps, Tolerance) /\ steps # <<>> /\ steps[1].from <= Tolerance
  /\ steps[Len(steps)].to >= Line!Final - Rest

LeadInv == TimeInv /\ (tPhase = "accepted" => Leads)

(* The steps of an earlier result are steps.                               *)
LEMMA LoadedArePieces ==
  ASSUME Line!TimelineAssumption, NEW list \in Loaded PROVE list \in Seq(Piece)
  BY DEF Line!TimelineAssumption, Piece

(* So the subtasks have integer times.                                     *)
LEMMA TimedSteps == ASSUME Line!TimelineAssumption, TimeInv PROVE StepsAreTimed
  <1>1. steps \in Seq(Piece)
    <2>1. CASE tPhase = "asked"
      BY <2>1 DEF TimeInv
    <2>2. CASE tPhase = "answered"
      BY <2>2, LoadedArePieces DEF TimeInv, Chain, Runs
    <2>3. CASE tPhase = "accepted"
      BY <2>3 DEF TimeInv
    <2>4. CASE tPhase = "rejected"
      BY <2>4, LoadedArePieces DEF TimeInv
    <2>5. QED BY <2>1, <2>2, <2>3, <2>4 DEF TimeInv
  <1>2. ASSUME NEW i \in DOMAIN steps PROVE steps[i] \in Piece
    <2>1. i \in 1 .. Len(steps)
      BY <1>1
    <2>2. QED BY <1>1, <2>1, ElementOfSeq
  <1>3. QED BY <1>2 DEF Piece, StepsAreTimed

(* Validation accepts every answer, and joins what it accepts.             *)
LEMMA ValidateTimed ==
  ASSUME Line!TimelineAssumption, TimeInv, Line!Validate
  PROVE  TimeInv' /\ (Line!LoadedForward => LeadInv')
  <1>1. /\ tPhase = "answered" /\ UNCHANGED <<tVideo, count, exact>>
        /\ IF Line!Valid(steps) THEN tPhase' = "accepted" /\ steps' = Line!Merged(steps)
                                ELSE tPhase' = "rejected" /\ UNCHANGED steps
    BY DEF Line!Validate
  <1>2. count \in Nat \ {0}
    BY DEF TimeInv
  <1>3. Line!Final' = Line!Final /\ Tolerance' = Tolerance /\ Rest' = Rest /\ Line!Slack' = Line!Slack
    BY <1>1 DEF Line!Final, Line!Duration, Tolerance, Rest, Line!Slack
  <1>4. CASE ~ Line!Valid(steps)
    <2>1. ~ exact
      BY <1>1, <1>2, <1>4, ChainIsValid DEF TimeInv
    <2>2. QED BY <1>1, <1>2, <1>4, <2>1 DEF TimeInv, LeadInv
  <1>5. CASE Line!Valid(steps)
    <2>1. steps \in Seq(Piece)
      BY <1>1, LoadedArePieces DEF TimeInv, Chain, Runs
    <2>2. /\ Runs(steps, Line!Slack) /\ steps # <<>> /\ Line!Slack \in Nat
          /\ steps[1].from <= Line!Slack
          /\ steps[Len(steps)].to >= Line!Final - (IF tVideo THEN Half ELSE 0)
      BY <1>2, <1>5, <2>1, ValidFacts
    <2>3. Tolerance \in Nat
      BY <2>2 DEF Tolerance
    <2>4. Leads
      <3>1. CASE exact
        <4>1. Chain(steps, Line!Final)
          BY <1>1, <3>1 DEF TimeInv
        <4>2. steps[Len(steps)].to = Line!Final
          BY <2>1, <2>2, <4>1, LastOf DEF Chain, Line!EndOf
        <4>3. Line!Final \in Nat
          BY <1>2, MediaLast
        <4>4. QED BY <2>2, <3>1, <4>1, <4>2, <4>3 DEF Leads, Tolerance, Rest, Chain
      <3>2. CASE ~ exact
        BY <2>2, <3>2 DEF Leads, Tolerance, Rest
      <3>3. QED BY <3>1, <3>2
    <2>5. ASSUME Line!LoadedForward PROVE Forward(steps)
      <3>1. CASE Tolerance = 0
        BY <2>4, <3>1, RunsForward DEF Leads
      <3>2. CASE Tolerance # 0
        <4>1. tVideo /\ ~ exact
          BY <3>2 DEF Tolerance, Line!Slack
        <4>2. steps \in Loaded
          BY <1>1, <4>1 DEF TimeInv
        <4>3. \A i \in 1 .. Len(steps) : steps[i].from < steps[i].to
          BY <2>4, <4>1 DEF Leads, Runs, Lasts
        <4>4. ASSUME NEW i \in 1 .. Len(steps), NEW j \in 1 .. Len(steps), i <= j,
                     \A k \in i .. j : steps[k].text = steps[i].text
              PROVE  steps[i].from <= steps[j].to /\ steps[i].from < steps[j].to
          <5>1. steps[i].from < steps[j].to
            BY <2>5, <4>2, <4>3, <4>4 DEF Line!LoadedForward
          <5>2. steps[i] \in Piece /\ steps[j] \in Piece
            BY <2>1, ElementOfSeq
          <5>3. QED BY <5>1, <5>2 DEF Piece
        <4>5. QED BY <4>4 DEF Forward
      <3>3. QED BY <3>1, <3>2
    <2> DEFINE z == Line!Merged(steps)
    <2>6. z \in Seq(Piece)
      BY <2>1, MergedArePieces
    <2>7. steps' = z /\ tPhase' = "accepted"
      BY <1>1, <1>5
    <2>8. TimeInv'
      BY <1>1, <1>2, <2>6, <2>7 DEF TimeInv
    <2>9. ASSUME Line!LoadedForward PROVE Leads'
      <3>1. /\ Runs(z, Tolerance) /\ z # <<>>
            /\ z[1].from = steps[1].from /\ z[Len(z)].to = steps[Len(steps)].to
        BY <2>3, <2>4, <2>5, <2>9, MergedFacts DEF Leads
      <3> HIDE DEF z
      <3>2. Runs(steps, Tolerance)'
        BY <1>1, <1>3, <2>7, <3>1 DEF Runs, Lasts, Meet
      <3>3. (steps # <<>> /\ steps[1].from <= Tolerance /\ steps[Len(steps)].to >= Line!Final - Rest)'
        BY <1>3, <2>4, <2>7, <3>1 DEF Leads
      <3>4. QED BY <3>2, <3>3 DEF Leads
    <2>10. QED BY <2>8, <2>9 DEF LeadInv
  <1>6. QED BY <1>4, <1>5

(* At first there are no steps.                                            *)
LEMMA TimeStart == ASSUME Line!TimelineAssumption, Line!Init PROVE LeadInv
  <1>1. count \in Nat \ {0}
    BY DEF Line!Init, Line!TimelineAssumption
  <1>2. tPhase = "asked" /\ exact = TRUE /\ steps = <<>>
    BY DEF Line!Init
  <1>3. QED BY <1>1, <1>2 DEF TimeInv, LeadInv

(* What an answer is made into leads through the media.                    *)
LEMMA AnswerTimed ==
  ASSUME Line!TimelineAssumption, TimeInv,
         Line!AnswerLas \/ Line!AnswerOperator \/ Line!AnswerChunks
  PROVE  TimeInv' /\ LeadInv'
  <1>1. tPhase = "asked" /\ exact = TRUE /\ exact' = TRUE /\ tPhase' = "answered"
        /\ UNCHANGED <<tVideo, count>>
    BY DEF TimeInv, Line!AnswerLas, Line!AnswerOperator, Line!AnswerChunks, Line!Answered
  <1>2. count \in Nat \ {0} /\ MaxSegments \in Int /\ MaxSegments - 1 \in Int
    BY DEF TimeInv, Line!TimelineAssumption
  <1>3. PICK list : steps' = list /\ Chain(list, Line!Final) /\ list # <<>>
    <2>1. CASE Line!AnswerLas
      <3>1. PICK a \in Line!Answers(MaxSegments) : steps' = Line!LasSteps(a)
        BY <2>1 DEF Line!AnswerLas, Line!Answered
      <3>2. a \in Seq([at : Int, text : Text]) /\ a # <<>>
        BY <1>2, AnswersAre
      <3>3. QED BY <1>2, <3>1, <3>2, LasChain
    <2>2. CASE Line!AnswerOperator
      <3>1. PICK a \in Line!Answers(MaxSegments) : steps' = Line!OperatorSteps(a, Line!Final)
        BY <2>2 DEF Line!AnswerOperator, Line!Answered
      <3>2. a \in Seq([at : Int, text : Text]) /\ a # <<>>
        BY <1>2, AnswersAre
      <3>3. Line!Final \in Nat /\ (tVideo => Line!Final > 2)
        BY <1>2, MediaLast
      <3> DEFINE list == Line!OperatorSteps(a, Line!Final)
      <3>4. (list # <<>> => Chain(list, Line!Final)) /\ (list = <<>> => tVideo /\ Line!Final <= 1)
        BY <3>2, <3>3, OperatorChain
      <3> HIDE DEF list
      <3>5. list # <<>>
        BY <3>3, <3>4
      <3>6. QED BY <3>1, <3>4, <3>5 DEF list
    <2>3. CASE Line!AnswerChunks
      <3>1. tVideo /\ Len(Line!Chunks) = 2
        BY <2>3 DEF Line!AnswerChunks
      <3>2. PICK a \in Line!Answers(MaxSegments - 1), b \in Line!Answers(MaxSegments - 1) :
              steps' = Line!ChunkSteps(Line!OperatorSteps(a, Line!Chunks[1]),
                                       Line!OperatorSteps(b, Line!Chunks[2]))
        BY <2>3 DEF Line!AnswerChunks, Line!Answered
      <3>3. /\ a \in Seq([at : Int, text : Text]) /\ a # <<>>
            /\ b \in Seq([at : Int, text : Text]) /\ b # <<>>
        BY <1>2, AnswersAre
      <3> DEFINE list == Line!ChunkSteps(Line!OperatorSteps(a, Line!Chunks[1]),
                                         Line!OperatorSteps(b, Line!Chunks[2]))
      <3>4. Chain(list, Line!Duration) /\ list # <<>>
        BY <1>2, <3>1, <3>3, ChunksChain
      <3> HIDE DEF list
      <3>5. Line!Final = Line!Duration
        BY <1>2, <3>1, MediaLast
      <3>6. QED BY <3>2, <3>4, <3>5 DEF list
    <2>4. QED BY <2>1, <2>2, <2>3
  <1>4. Line!Final' = Line!Final
    BY <1>1 DEF Line!Final, Line!Duration
  <1>5. Chain(steps, Line!Final)'
    BY <1>1, <1>3, <1>4 DEF Chain, Runs, Lasts, Meet, Line!EndOf
  <1>6. (steps # <<>>)'
    BY <1>3
  <1>7. QED BY <1>1, <1>2, <1>5, <1>6 DEF TimeInv, LeadInv

(* Every step keeps what is said of the subtasks.                          *)
LEMMA TimeStep ==
  ASSUME Line!TimelineAssumption, TimeInv, [Line!Next]_(Line!vars)
  PROVE  TimeInv' /\ (Line!LoadedForward /\ LeadInv => LeadInv')
  <1>1. CASE Line!AnswerLas \/ Line!AnswerOperator \/ Line!AnswerChunks
    BY <1>1, AnswerTimed
  <1>2. CASE Line!Load
    <2>1. tPhase' = "answered" /\ steps' \in Loaded /\ exact' = FALSE /\ UNCHANGED count
      BY <1>2 DEF Line!Load, Line!Answered
    <2>2. QED BY <2>1 DEF TimeInv, LeadInv
  <1>3. CASE Line!Validate
    BY <1>3, ValidateTimed
  <1>4. CASE Line!Place \/ Line!Observe \/ UNCHANGED Line!vars
    <2>1. UNCHANGED <<tVideo, count, tPhase, exact, steps>>
      BY <1>4 DEF Line!Place, Line!Observe, Line!vars
    <2>2. Line!Final' = Line!Final /\ Tolerance' = Tolerance /\ Rest' = Rest
      BY <2>1 DEF Line!Final, Line!Duration, Tolerance, Rest, Line!Slack
    <2>3. Leads => Leads'
      BY <2>1, <2>2 DEF Leads, Runs, Lasts, Meet
    <2>4. Chain(steps, Line!Final) => Chain(steps, Line!Final)'
      BY <2>1, <2>2 DEF Chain, Runs, Lasts, Meet, Line!EndOf
    <2>5. QED BY <2>1, <2>3, <2>4 DEF TimeInv, LeadInv
  <1>5. QED BY <1>1, <1>2, <1>3, <1>4 DEF Line!Next

(* Steps that lead through the media take each anchor once, or at a seam.  *)
LEMMA LeadsAnchors ==
  ASSUME Line!TimelineAssumption, LeadInv, tPhase = "accepted", tVideo,
         NEW end \in Int, NEW a \in Line!Anchors(Line!Min({Line!Duration, end}))
  PROVE  \/ \E i \in DOMAIN steps :
              /\ i = Line!StepAt(a)
              /\ \A j \in DOMAIN steps : a \in Line!AnchorsOf(steps[j], end) <=> i = j
         \/ /\ ~ exact
            /\ \/ a >= Line!Duration - Half
               \/ \E i \in DOMAIN steps : Line!Near(a, steps[i].from, Seam)
  <1> DEFINE N == Len(steps)
  <1>1. Leads /\ count \in Nat \ {0}
    BY DEF TimeInv, LeadInv
  <1>2. /\ steps \in Seq(Piece) /\ N \in Nat /\ N > 0 /\ DOMAIN steps = 1 .. N
        /\ Runs(steps, Tolerance) /\ steps # <<>>
    BY <1>1 DEF Leads, Runs
  <1>3. Line!Duration \in Nat /\ Line!Final = Line!Duration
    BY <1>1, MediaLast
  <1>4. a \in Nat /\ a < Line!Duration /\ a < end /\ a \in Line!Anchors(end)
    BY <1>3, AnchorFacts
  <1>5. Tolerance \in Nat /\ (exact => Tolerance = 0 /\ Rest = 0) /\ (~ exact => Tolerance = Seam /\ Rest = Half)
        /\ Half \in Nat
    BY DEF Tolerance, Rest, Line!Slack, Line!TimelineAssumption
  <1>6. \A i \in 1 .. N : steps[i].from \in Int /\ steps[i].to \in Int
    <2>1. \A i \in 1 .. N : steps[i] \in Piece
      BY <1>2, ElementOfSeq
    <2>2. QED BY <2>1 DEF Piece
  <1>7. steps[1].from <= a + Tolerance
    <2>1. steps[1].from \in Int /\ steps[1].from <= Tolerance
      BY <1>1, <1>2, <1>6 DEF Leads
    <2>2. QED BY <1>4, <1>5, <2>1
  <1>8. \A j \in 1 .. N : a \in Line!AnchorsOf(steps[j], end) <=> On(steps[j], a)
    <2>1. ASSUME NEW j \in 1 .. N PROVE a \in Line!AnchorsOf(steps[j], end) <=> On(steps[j], a)
      <3>1. PICK to \in Int : to = steps[j].to
        BY <1>6
      <3>2. Line!Min({to, end}) \in {to, end} /\ Line!Min({to, end}) <= to /\ Line!Min({to, end}) <= end
        BY TwoOfFour
      <3>3. a < Line!Min({to, end}) <=> a < to
        BY <1>4, <3>2
      <3>4. QED BY <1>4, <3>1, <3>3 DEF Line!AnchorsOf, On
    <2>2. QED BY <2>1
  <1>9. CASE a >= steps[N].to
    <2>1. steps[N].to \in Int /\ steps[N].to >= Line!Final - Rest
      BY <1>1, <1>2, <1>6 DEF Leads
    <2>2. ~ exact
      BY <1>3, <1>4, <1>5, <1>9, <2>1
    <2>3. a >= Line!Duration - Half
      BY <1>3, <1>4, <1>5, <1>9, <2>1, <2>2
    <2>4. QED BY <2>2, <2>3
  <1>10. CASE a < steps[N].to
    <2>1. \/ \E i \in 1 .. Len(steps) : \A j \in 1 .. Len(steps) : On(steps[j], a) <=> i = j
          \/ Tolerance > 0 /\ \E i \in 1 .. Len(steps) : Line!Near(a, steps[i].from, Tolerance)
      <3>1. a \in Int
        BY <1>4
      <3>2. QED BY <1>2, <1>5, <1>7, <1>10, <3>1, OnceOrSeam
    <2>2. CASE \E i \in 1 .. Len(steps) : \A j \in 1 .. Len(steps) : On(steps[j], a) <=> i = j
      <3>1. PICK i \in 1 .. N : \A j \in 1 .. N : On(steps[j], a) <=> i = j
        BY <2>2
      <3>2. Line!StepAt(a) = i
        <4>1. a \in Int
          BY <1>4
        <4>2. QED BY <1>2, <3>1, <4>1, FoundByTime
      <3>3. QED BY <1>2, <1>8, <3>1, <3>2
    <2>3. CASE Tolerance > 0 /\ \E i \in 1 .. Len(steps) : Line!Near(a, steps[i].from, Tolerance)
      BY <1>2, <1>5, <2>3
    <2>4. QED BY <2>1, <2>2, <2>3
  <1>11. steps[N].to \in Int
    BY <1>2, <1>6
  <1>12. QED BY <1>4, <1>9, <1>10, <1>11

(* Steps that lead through the images take each of them.                   *)
LEMMA LeadsImages ==
  ASSUME Line!TimelineAssumption, LeadInv, tPhase = "accepted", ~ tVideo, NEW a \in 0 .. Line!Final
  PROVE  Line!StepAt(a) # 0 /\ a \in Line!ImagesOf(steps[Line!StepAt(a)])
  <1>1. Leads /\ count \in Nat \ {0} /\ Tolerance = 0 /\ Rest = 0
    BY DEF LeadInv, TimeInv, Tolerance, Rest, Line!Slack
  <1>2. /\ steps \in Seq(Piece) /\ Len(steps) \in Nat /\ Len(steps) > 0 /\ Runs(steps, 0) /\ steps # <<>>
    BY <1>1 DEF Leads, Runs
  <1>3. Line!Final \in Nat
    BY <1>1, MediaLast
  <1>4. steps[1] \in Piece /\ steps[Len(steps)] \in Piece
    <2>1. 1 \in 1 .. Len(steps) /\ Len(steps) \in 1 .. Len(steps)
      BY <1>2
    <2>2. QED BY <1>2, <2>1, ElementOfSeq
  <1>5. steps[1].from <= a /\ a <= steps[Len(steps)].to /\ a \in Int
    BY <1>1, <1>3, <1>4 DEF Leads, Piece
  <1>6. \E i \in 1 .. Len(steps) : steps[i].from <= a /\ a <= steps[i].to
    BY <1>2, <1>5, ImageCovered
  <1>7. QED BY <1>2, <1>5, <1>6, FoundByIndex

(* So each anchor is grounded once, or at a seam.                          *)
LEMMA TimeAnchors == ASSUME Line!TimelineAssumption, LeadInv PROVE EachAnchorOnce
  <1>1. exact => tPhase # "rejected"
    BY DEF LeadInv, TimeInv
  <1>2. ASSUME tPhase = "accepted", tVideo,
               NEW end \in {Line!Duration - Frame, Line!Duration, Line!Duration + Frame},
               NEW a \in Line!Anchors(Line!Min({Line!Duration, end}))
        PROVE  \/ \E i \in DOMAIN steps :
                    /\ i = Line!StepAt(a)
                    /\ \A j \in DOMAIN steps : a \in Line!AnchorsOf(steps[j], end) <=> i = j
               \/ /\ ~ exact
                  /\ \/ a >= Line!Duration - Half
                     \/ \E i \in DOMAIN steps : Line!Near(a, steps[i].from, Seam)
    <2>1. Line!Duration \in Int /\ Frame \in Int
      <3>1. count \in Nat \ {0} /\ Frame \in Int
        BY DEF LeadInv, TimeInv, Line!TimelineAssumption
      <3>2. QED BY <3>1, MediaLast
    <2>2. end \in Int
      BY <2>1
    <2>3. QED BY <1>2, <2>2, LeadsAnchors
  <1>3. ASSUME tPhase = "accepted", ~ tVideo, NEW a \in 0 .. Line!Final
        PROVE  Line!StepAt(a) # 0 /\ a \in Line!ImagesOf(steps[Line!StepAt(a)])
    BY <1>3, LeadsImages
  <1>4. QED BY <1>1, <1>2, <1>3 DEF EachAnchorOnce, Line!EachAnchorOnce

(* Grounding anchors: for all frame rates, anchors, answers and lengths of *)
(* media, what an answer is made into is accepted, and each anchor of the  *)
(* media is grounded for exactly one of its steps, that which              *)
(* subtask_at_time finds.  Of an earlier result whose steps of one text do *)
(* not run back, an anchor is left out or grounded twice only at a seam or *)
(* near the end.                                                           *)
THEOREM AnchorsGrounded ==
  ASSUME Line!TimelineAssumption, Line!LoadedForward
  PROVE  Line!Spec => []EachAnchorOnce
  <1>1. Line!Init => LeadInv
    BY TimeStart
  <1>2. LeadInv /\ [Line!Next]_(Line!vars) => LeadInv'
    <2>1. LeadInv => TimeInv
      BY DEF LeadInv
    <2>2. QED BY <2>1, TimeStep
  <1>3. LeadInv => EachAnchorOnce
    BY TimeAnchors
  <1>4. QED BY <1>1, <1>2, <1>3, PTL DEF Line!Spec

(* "Sample frames after the prior CPA contact and before the target        *)
(* contact": for all frame rates, windows, contacts and subtasks, no       *)
(* contact lies between an observation and the contact it announces.       *)
THEOREM NothingBetween ==
  ASSUME Line!TimelineAssumption
  PROVE  Line!Spec => []NoContactBetween
  <1>1. Line!Init => LineInv /\ TimeInv
    <2>1. SUFFICES ASSUME Line!Init PROVE LineInv /\ TimeInv
      OBVIOUS
    <2>2. contact = <<>> /\ query = Line!NoQuery
      BY <2>1 DEF Line!Init
    <2>3. tVideo => count \in Nat \ {0}
      BY <2>1 DEF Line!Init, Line!TimelineAssumption
    <2>4. TimeInv
      BY <2>1, TimeStart DEF LeadInv
    <2>5. QED BY <2>2, <2>3, <2>4 DEF LineInv, ContactsInv, NoContactBetween, Line!NoContactBetween
  <1>2. LineInv /\ TimeInv /\ [Line!Next]_(Line!vars) => (LineInv /\ TimeInv)'
    BY LineStep, TimedSteps, TimeStep
  <1>3. LineInv => NoContactBetween
    BY DEF LineInv
  <1>4. QED BY <1>1, <1>2, <1>3, PTL DEF Line!Spec

-----------------------------------------------------------------------------
(* The output shard of a batch.                                            *)

(* The lines that stay are numbered in their order, each number once.      *)
LineNumber(K, i) == Cardinality({j \in K : j <= i})

LEMMA LinesAreNumbered ==
  ASSUME NEW K \in SUBSET Nat, IsFiniteSet(K)
  PROVE  /\ Cardinality(K) \in Nat
         /\ \A i \in K : LineNumber(K, i) \in 1 .. Cardinality(K)
         /\ \A k \in 1 .. Cardinality(K) : \E i \in K : LineNumber(K, i) = k
         /\ \A i, j \in K : LineNumber(K, i) = LineNumber(K, j) => i = j
  <1> DEFINE upTo(i) == {j \in K : j <= i}
  <1>1. \A i : upTo(i) \in SUBSET K /\ IsFiniteSet(upTo(i)) /\ Cardinality(upTo(i)) \in Nat
    BY FS_Subset, FS_CardinalityType
  <1>2. Cardinality(K) \in Nat
    BY FS_CardinalityType
  <1>3. ASSUME NEW i \in K PROVE LineNumber(K, i) \in 1 .. Cardinality(K)
    <2>1. i \in upTo(i)
      OBVIOUS
    <2>2. Cardinality(upTo(i)) # 0
      BY <1>1, <2>1, FS_EmptySet
    <2>3. Cardinality(upTo(i)) <= Cardinality(K)
      BY <1>1, FS_Subset
    <2> QED
      BY <1>1, <1>2, <2>2, <2>3 DEF LineNumber
  <1>4. ASSUME NEW i \in K, NEW j \in K, i < j PROVE LineNumber(K, i) # LineNumber(K, j)
    <2>1. upTo(i) \in SUBSET upTo(j)
      <3>1. ASSUME NEW k \in upTo(i) PROVE k <= j
        <4>1. k \in Nat /\ k <= i /\ i \in Nat /\ j \in Nat
          OBVIOUS
        <4> QED
          BY <1>4, <4>1
      <3> QED
        BY <3>1
    <2>2. j \in upTo(j) /\ j \notin upTo(i)
      <3>1. i \in Nat /\ j \in Nat
        OBVIOUS
      <3> QED
        BY <1>4, <3>1
    <2>3. Cardinality(upTo(i)) # Cardinality(upTo(j))
      BY <1>1, <2>1, <2>2, FS_Subset
    <2> QED
      BY <2>3 DEF LineNumber
  <1>5. ASSUME NEW i \in K, NEW j \in K, LineNumber(K, i) = LineNumber(K, j) PROVE i = j
    <2>1. i \in Nat /\ j \in Nat
      OBVIOUS
    <2>2. i = j \/ i < j \/ j < i
      BY <2>1
    <2> QED
      BY <1>4, <1>5, <2>2
  <1>6. ASSUME NEW k \in 1 .. Cardinality(K) PROVE \E i \in K : LineNumber(K, i) = k
    <2> DEFINE f == [i \in K |-> LineNumber(K, i)]
               D == 1 .. Cardinality(K)
    <2>1. f \in [K -> D] /\ \A i, j \in K : f[i] = f[j] => i = j
      BY <1>3, <1>5
    <2>2. f \in Injection(K, D)
      BY <2>1 DEF Injection, IsInjective
    <2>3. IsFiniteSet(D) /\ Cardinality(D) = Cardinality(K)
      BY <1>2, FS_Interval
    <2>4. f \in Surjection(K, D)
      BY <2>2, <2>3, FS_Injection
    <2> QED
      BY <1>6, <2>4 DEF Surjection
  <1> QED
    BY <1>2, <1>3, <1>5, <1>6

(* A row: its episode, the number that tells rows apart, and how it was    *)
(* made.                                                                   *)
ShardRow == [uid : Uid, id : Nat, kind : {"current", "lite", "unreviewed", "foreign", "partial"}]

(* Lines have their end, but perhaps the last one.                         *)
Tidy(s) == \A i \in DOMAIN s : s[i].kind = "partial" => i = Len(s)

(* What is read from a tidy file: every line with its end, and no other.   *)
LEMMA ParsedOfTidy ==
  ASSUME NEW s \in Seq(ShardRow), Tidy(s)
  PROVE  /\ Shard!Range(s) = {s[i] : i \in DOMAIN s}
         /\ Shard!Parsed(s) = {s[i] : i \in {j \in DOMAIN s : s[j].kind # "partial"}}
         /\ Shard!Parsed(s) \in SUBSET ShardRow
  <1>1. Shard!Range(s) = {s[i] : i \in DOMAIN s}
    BY DEF Shard!Range
  <1>2. DOMAIN s = 1 .. Len(s) /\ Len(s) \in Nat /\ \A i \in DOMAIN s : s[i] \in ShardRow
    OBVIOUS
  <1>3. ASSUME NEW i \in DOMAIN s PROVE Shard!Whole(s, i) <=> s[i].kind # "partial"
    <2>1. i > 1 => i - 1 \in DOMAIN s /\ i - 1 # Len(s)
      BY <1>2
    <2> QED
      BY <2>1 DEF Shard!Whole, Tidy
  <1>4. {j \in DOMAIN s : Shard!Whole(s, j)} = {j \in DOMAIN s : s[j].kind # "partial"}
    BY <1>3
  <1> QED
    BY <1>1, <1>2, <1>4 DEF Shard!Parsed

(* A file of finitely many lines has finitely many rows.                   *)
LEMMA LinesAreFinite ==
  ASSUME NEW s \in Seq(ShardRow)
  PROVE  IsFiniteSet({s[i] : i \in DOMAIN s}) /\ {s[i] : i \in DOMAIN s} \subseteq ShardRow
  <1>1. DOMAIN s = 1 .. Len(s) /\ Len(s) \in Nat /\ \A i \in DOMAIN s : s[i] \in ShardRow
    OBVIOUS
  <1>2. IsFiniteSet(DOMAIN s)
    BY <1>1, FS_Interval
  <1>3. s \in Surjection(DOMAIN s, {s[i] : i \in DOMAIN s})
    BY <1>1 DEF Surjection
  <1> QED
    BY <1>1, <1>2, <1>3, FS_Surjection

(* The first compatible line of an episode stays, and only such lines.     *)
LEMMA AcceptedFacts ==
  ASSUME NEW s \in Seq(ShardRow)
  PROVE  /\ Shard!Accepted(s) \in Seq(ShardRow)
         /\ Len(Shard!Accepted(s)) <= Len(s)
         /\ Shard!Range(Shard!Accepted(s)) = {s[i] : i \in {j \in DOMAIN s : Shard!Stays(s, j)}}
         /\ \A i \in DOMAIN s : Shard!Compatible(s[i]) =>
              \E j \in DOMAIN s : Shard!Stays(s, j) /\ s[j].uid = s[i].uid
  <1> DEFINE K == {i \in DOMAIN s : Shard!Stays(s, i)}
             n == Cardinality(K)
             pick(k) == CHOOSE i \in K : LineNumber(K, i) = k
             t == [k \in 1 .. n |-> s[pick(k)]]
  <1>1. DOMAIN s = 1 .. Len(s) /\ Len(s) \in Nat /\ \A i \in DOMAIN s : s[i] \in ShardRow
    OBVIOUS
  <1>2. IsFiniteSet(1 .. Len(s)) /\ Cardinality(1 .. Len(s)) = Len(s) /\ K \in SUBSET (1 .. Len(s))
    BY <1>1, FS_Interval
  <1>3. IsFiniteSet(K) /\ n <= Len(s) /\ n \in Nat /\ K \in SUBSET Nat
    BY <1>2, FS_Subset, FS_CardinalityType
  <1>4. /\ \A i \in K : LineNumber(K, i) \in 1 .. n
        /\ \A k \in 1 .. n : \E i \in K : LineNumber(K, i) = k
        /\ \A i, j \in K : LineNumber(K, i) = LineNumber(K, j) => i = j
    BY <1>3, LinesAreNumbered
  <1>5. \A k \in 1 .. n : pick(k) \in K
    BY <1>4
  <1>6. \A i \in K : pick(LineNumber(K, i)) = i
    BY <1>4
  <1>7. Shard!Accepted(s) = t
    BY DEF Shard!Accepted, LineNumber, Shard!Cardinality, Cardinality
  <1> HIDE DEF pick
  <1>8. \A k \in 1 .. n : s[pick(k)] \in ShardRow
    BY <1>1, <1>5
  <1> HIDE DEF K, n
  <1>9. t \in Seq(ShardRow) /\ DOMAIN t = 1 .. n /\ Len(t) = n
    BY <1>3, <1>8
  <1>10. {t[k] : k \in 1 .. n} = {s[i] : i \in K}
    BY <1>4, <1>5, <1>6
  <1>11. ASSUME NEW i \in DOMAIN s, Shard!Compatible(s[i])
         PROVE  \E j \in DOMAIN s : Shard!Stays(s, j) /\ s[j].uid = s[i].uid
    <2> DEFINE S == {j \in DOMAIN s : Shard!Compatible(s[j]) /\ s[j].uid = s[i].uid}
    <2>1. S \in SUBSET Nat /\ S # {}
      BY <1>1, <1>11
    <2>2. PICK j \in S : \A k \in S : j <= k
      BY <2>1, LeastNumber
    <2>3. \A k \in 1 .. j - 1 : k \in DOMAIN s /\ ~ j <= k
      BY <1>1
    <2>4. Shard!Stays(s, j)
      BY <2>2, <2>3 DEF Shard!Stays
    <2> QED
      BY <2>4
  <1>12. Shard!Range(t) = {s[i] : i \in {j \in DOMAIN s : Shard!Stays(s, j)}}
    <2>1. Shard!Range(t) = {t[k] : k \in 1 .. n}
      BY <1>9 DEF Shard!Range
    <2> QED
      BY <1>10, <2>1 DEF K
  <1> HIDE DEF t
  <1> QED
    BY <1>3, <1>7, <1>9, <1>11, <1>12

(* The rows that a run finds in the files.                                 *)
ThereIn(files_) == UNION {Shard!Parsed(files_[f]) : f \in Shard!File}

(* Only the file that rows are appended to may have a partial line.        *)
RowsInOrder(files_) ==
  /\ files_ \in [Shard!File -> Seq(ShardRow)]
  /\ \A f \in Shard!File : Tidy(files_[f])
  /\ \A f \in Shard!File \ {"append"} : \A i \in DOMAIN files_[f] : files_[f][i].kind # "partial"

(* The types of the variables.                                             *)
ShardTypes ==
  /\ RowsInOrder(sRows) /\ todo \in Seq(Shard!File) /\ asking \in SUBSET Uid
  /\ sAcked \in SUBSET ShardRow /\ IsFiniteSet(sAcked)

(* The file of an episode has one row at most, of the episode.             *)
OwnRow == \A u \in Uid : Len(sRows[u]) <= 1 /\ \A i \in DOMAIN sRows[u] : sRows[u][i].uid = u

(* Rows are acknowledged once they can be read.                            *)
ThereIsAcked == ThereIn(sRows) \subseteq sAcked

(* A row that is written next has a number of its own.                     *)
Numbered == \A r \in sAcked : r.id <= Cardinality(sAcked) + 2

(* What is about to be replaced has been set aside.                        *)
SetAside ==
  /\ sPc = "backed" => todo # <<>> /\ Shard!Parsed(sRows[Head(todo)]) \subseteq evidence
  /\ sPc = "quarantined" => todo # <<>> /\ Shard!Rejected(sRows[Head(todo)]) \subseteq evidence

(* The file of its episode has a newer row, which every run accepts.       *)
Newer(r) ==
  \E i \in DOMAIN sRows[r.uid] : sRows[r.uid][i].id > r.id /\ sRows[r.uid][i].kind = "current"

(* A row that was written to its end is in a file, set aside, or           *)
(* replaced by a newer one.                                                *)
Kept == \A r \in sAcked : r \in ThereIn(sRows) \/ r \in evidence \/ Newer(r)
(* An annotated episode keeps a row that the next run accepts.             *)
Found ==
  \A r \in sAcked : Shard!Compatible(r) =>
    \E q \in ThereIn(sRows) : Shard!Compatible(q) /\ q.uid = r.uid

(* The inductive invariant.                                                *)
ShardInv == ShardTypes /\ OwnRow /\ ThereIsAcked /\ Numbered /\ SetAside /\ Kept /\ Found

(* Rows are found by the line they are in.                                 *)
LEMMA FoundByLine ==
  ASSUME NEW g, RowsInOrder(g)
  PROVE  \A r : r \in ThereIn(g) <=>
           \E f \in Shard!File : \E i \in DOMAIN g[f] : g[f][i] = r /\ r.kind # "partial"
  <1>1. \A f \in Shard!File :
          Shard!Parsed(g[f]) = {g[f][i] : i \in {j \in DOMAIN g[f] : g[f][j].kind # "partial"}}
    BY ParsedOfTidy DEF RowsInOrder
  <1> QED
    BY <1>1 DEF ThereIn

(* A file that is replaced.                                                *)
LEMMA FileChange ==
  ASSUME ShardTypes, NEW f \in Shard!File, NEW t \in Seq(ShardRow), Tidy(t),
         f # "append" => \A i \in DOMAIN t : t[i].kind # "partial",
         sRows' = [sRows EXCEPT ![f] = t]
  PROVE  /\ RowsInOrder(sRows')
         /\ sRows'[f] = t /\ \A g \in Shard!File \ {f} : sRows'[g] = sRows[g]
         /\ Shard!Parsed(t) \subseteq ThereIn(sRows')
         /\ \A r \in ThereIn(sRows) : r \in Shard!Parsed(sRows[f]) \/ r \in ThereIn(sRows')
         /\ \A r \in ThereIn(sRows') : r \in Shard!Parsed(t) \/ r \in ThereIn(sRows)
         /\ Shard!Parsed(sRows[f]) \subseteq ThereIn(sRows)
  <1>1. sRows \in [Shard!File -> Seq(ShardRow)]
    BY DEF ShardTypes, RowsInOrder
  <1>2. sRows'[f] = t /\ \A g \in Shard!File \ {f} : sRows'[g] = sRows[g]
    BY <1>1
  <1>3. sRows' \in [Shard!File -> Seq(ShardRow)]
    BY <1>1
  <1>4. \A g \in Shard!File : Tidy(sRows'[g])
    BY <1>2 DEF ShardTypes, RowsInOrder
  <1>5. RowsInOrder(sRows')
    BY <1>2, <1>3, <1>4 DEF ShardTypes, RowsInOrder
  <1> QED
    BY <1>2, <1>5 DEF ThereIn

(* No row is lost by a step that keeps, for each row, what is said of it.  *)
LEMMA RowsStep ==
  ASSUME Kept, Found, evidence \subseteq evidence',
         \A r \in sAcked : r \in ThereIn(sRows) =>
           r \in ThereIn(sRows') \/ r \in evidence' \/ Newer(r)',
         \A r \in sAcked : Newer(r) => Newer(r)',
         \A r \in sAcked' \ sAcked : r \in ThereIn(sRows'),
         \A q \in ThereIn(sRows) : Shard!Compatible(q) =>
           \E p \in ThereIn(sRows') : Shard!Compatible(p) /\ p.uid = q.uid
  PROVE  Kept' /\ Found'
  <1>1. Kept'
    BY DEF Kept
  <1>2. ASSUME NEW r \in sAcked', Shard!Compatible(r)
        PROVE  \E q \in ThereIn(sRows') : Shard!Compatible(q) /\ q.uid = r.uid
    BY <1>2 DEF Found
  <1> QED
    BY <1>1, <1>2 DEF Found

(* The partial line is the last one, and is no row.                        *)
LEMMA FrontFacts ==
  ASSUME NEW s \in Seq(ShardRow), Tidy(s), Shard!Ragged(s)
  PROVE  /\ Shard!Front(s) \in Seq(ShardRow)
         /\ \A i \in DOMAIN Shard!Front(s) : Shard!Front(s)[i].kind # "partial"
         /\ Shard!Parsed(Shard!Front(s)) = Shard!Parsed(s)
  <1> DEFINE t == Shard!Front(s)
  <1>1. /\ s # <<>> /\ Len(s) \in Nat \ {0} /\ s[Len(s)].kind = "partial"
        /\ DOMAIN s = 1 .. Len(s)
    BY DEF Shard!Ragged, Shard!Last
  <1>2. /\ t \in Seq(ShardRow) /\ Len(t) = Len(s) - 1 /\ DOMAIN t = 1 .. (Len(s) - 1)
        /\ \A i \in 1 .. (Len(s) - 1) : t[i] = s[i]
    BY <1>1 DEF Shard!Front
  <1> HIDE DEF t
  <1>3. \A i \in 1 .. (Len(s) - 1) : t[i].kind # "partial"
    BY <1>1, <1>2 DEF Tidy
  <1>4. Tidy(t)
    BY <1>2, <1>3 DEF Tidy
  <1>5. Shard!Parsed(t) = {t[i] : i \in {j \in DOMAIN t : t[j].kind # "partial"}}
    BY <1>2, <1>4, ParsedOfTidy
  <1>6. Shard!Parsed(s) = {s[i] : i \in {j \in DOMAIN s : s[j].kind # "partial"}}
    BY ParsedOfTidy
  <1>7. {j \in DOMAIN s : s[j].kind # "partial"} = {j \in DOMAIN t : t[j].kind # "partial"}
    BY <1>1, <1>2, <1>3
  <1>8. Shard!Parsed(t) = Shard!Parsed(s)
    BY <1>2, <1>5, <1>6, <1>7
  <1> QED
    BY <1>2, <1>3, <1>8 DEF t

(* A line that is added to whole ones.                                     *)
LEMMA AppendFacts ==
  ASSUME NEW s \in Seq(ShardRow), \A i \in DOMAIN s : s[i].kind # "partial", NEW r \in ShardRow
  PROVE  /\ Append(s, r) \in Seq(ShardRow) /\ Tidy(Append(s, r))
         /\ Shard!Parsed(s) \subseteq Shard!Parsed(Append(s, r))
         /\ r.kind # "partial" => r \in Shard!Parsed(Append(s, r))
         /\ Shard!Parsed(Append(s, r)) \subseteq
              Shard!Parsed(s) \cup (IF r.kind = "partial" THEN {} ELSE {r})
  <1> DEFINE t == Append(s, r)
  <1>1. Len(s) \in Nat /\ DOMAIN s = 1 .. Len(s)
    OBVIOUS
  <1>2. /\ t \in Seq(ShardRow) /\ DOMAIN t = 1 .. (Len(s) + 1) /\ Len(t) = Len(s) + 1
        /\ t[Len(s) + 1] = r /\ \A i \in DOMAIN s : t[i] = s[i]
    BY <1>1
  <1> HIDE DEF t
  <1>3. Tidy(t) /\ Tidy(s)
    BY <1>1, <1>2 DEF Tidy
  <1>4. Shard!Parsed(t) = {t[i] : i \in {j \in DOMAIN t : t[j].kind # "partial"}}
    BY <1>2, <1>3, ParsedOfTidy
  <1>5. Shard!Parsed(s) = {s[i] : i \in {j \in DOMAIN s : s[j].kind # "partial"}}
    BY <1>3, ParsedOfTidy
  <1>6. \A i \in DOMAIN t : i \in DOMAIN s \/ i = Len(s) + 1
    BY <1>1, <1>2
  <1>7. Shard!Parsed(t) \subseteq Shard!Parsed(s) \cup (IF r.kind = "partial" THEN {} ELSE {r})
    BY <1>2, <1>4, <1>5, <1>6
  <1> QED
    BY <1>1, <1>2, <1>3, <1>4, <1>5, <1>7 DEF t

(* What the first run begins with: two rows of earlier runs at most.       *)
LeftInOrder(g) ==
  /\ RowsInOrder(g)
  /\ \A u \in Uid : Len(g[u]) <= 1 /\ \A i \in DOMAIN g[u] : g[u][i].uid = u
  /\ \A f \in Shard!File : \A i \in DOMAIN g[f] : g[f][i].id <= 2
  /\ \E r, q : \A f \in Shard!File : \A i \in DOMAIN g[f] : g[f][i] \in {r, q}

(* Two files with one row each are left in order.                          *)
LEMMA TwoRows ==
  ASSUME NEW r \in ShardRow, NEW q \in ShardRow, r.id <= 2, q.id <= 2, r.kind # "partial",
         NEW g \in [Shard!File -> {<<>>, <<r>>, <<q>>, <<r, q>>}],
         q.kind = "partial" =>
           \A f \in Shard!File : g[f] = <<>> \/ g[f] = <<r>> \/ (f = "append" /\ g[f] = <<r, q>>),
         \A u \in Uid : g[u] = <<>> \/ (g[u] = <<r>> /\ r.uid = u) \/ (g[u] = <<q>> /\ q.uid = u)
  PROVE  LeftInOrder(g)
  <1>1. ASSUME NEW f \in Shard!File PROVE g[f] \in Seq(ShardRow) /\ Tidy(g[f])
    <2>1. /\ <<>> \in Seq(ShardRow) /\ <<r>> \in Seq(ShardRow)
          /\ <<q>> \in Seq(ShardRow) /\ <<r, q>> \in Seq(ShardRow)
      OBVIOUS
    <2>2. Tidy(<<>>) /\ Tidy(<<r>>) /\ Tidy(<<q>>) /\ Tidy(<<r, q>>)
      BY DEF Tidy
    <2> QED
      BY <2>1, <2>2
  <1>2. g \in [Shard!File -> Seq(ShardRow)]
    BY <1>1
  <1>3. \A f \in Shard!File \ {"append"} : \A i \in DOMAIN g[f] : g[f][i].kind # "partial"
    OBVIOUS
  <1>4. ASSUME NEW u \in Uid
        PROVE  Len(g[u]) <= 1 /\ \A i \in DOMAIN g[u] : g[u][i].uid = u
    <2>1. PICK s \in {<<>>, <<r>>, <<q>>} : g[u] = s /\ (s = <<r>> => r.uid = u) /\ (s = <<q>> => q.uid = u)
      OBVIOUS
    <2>2. Len(s) <= 1 /\ \A i \in DOMAIN s : s[i].uid = u
      BY <2>1
    <2> QED
      BY <2>1, <2>2, Zenon
  <1>5. \A f \in Shard!File : \A i \in DOMAIN g[f] : g[f][i] \in {r, q}
    OBVIOUS
  <1> QED
    BY <1>1, <1>2, <1>3, <1>4, <1>5 DEF LeftInOrder, RowsInOrder

(* Every state that earlier runs leave behind is left in order.            *)
LEMMA LeftFacts ==
  ASSUME Shard!JsonlShardAssumption, NEW g \in Shard!Left
  PROVE  LeftInOrder(g)
  <1>1. /\ \A r \in Shard!Rows(1) : r \in ShardRow /\ r.id <= 2 /\ r.kind # "partial"
        /\ \A r \in Shard!Rows(2) : r \in ShardRow /\ r.id <= 2 /\ r.kind # "partial"
        /\ \A u \in Uid : /\ Shard!Row(u, 2, "partial") \in ShardRow
                          /\ Shard!Row(u, 2, "partial").id <= 2
    BY DEF Shard!Rows, Shard!Row, Shard!Kinds, ShardRow
  <1>2. /\ Uid \subseteq Shard!File /\ "append" \in Shard!File /\ "pack" \in Shard!File
        /\ "append" \notin Uid /\ "pack" \notin Uid
    BY DEF Shard!JsonlShardAssumption, Shard!File
  <1>3. Shard!Empty = [f \in Shard!File |-> <<>>]
    BY DEF Shard!Empty
  <1>4. CASE g = Shard!Empty
    <2>1. /\ g \in [Shard!File -> Seq(ShardRow)] /\ \A f \in Shard!File : DOMAIN g[f] = {} /\ Len(g[f]) = 0
      BY <1>3, <1>4
    <2> QED
      BY <1>2, <2>1 DEF LeftInOrder, RowsInOrder, Tidy
  <1>5. ASSUME NEW r \in Shard!Rows(1), g = [Shard!Empty EXCEPT !["append"] = <<r>>]
        PROVE  LeftInOrder(g)
    BY <1>1, <1>2, <1>3, <1>5, TwoRows
  <1>6. ASSUME NEW r \in Shard!Rows(1), NEW q \in Shard!Rows(2),
               g = [Shard!Empty EXCEPT !["append"] = <<r, q>>]
        PROVE  LeftInOrder(g)
    BY <1>1, <1>2, <1>3, <1>6, TwoRows
  <1>7. ASSUME NEW r \in Shard!Rows(1), NEW u \in Uid,
               g = [Shard!Empty EXCEPT !["append"] = <<r, Shard!Row(u, 2, "partial")>>]
        PROVE  LeftInOrder(g)
    BY <1>1, <1>2, <1>3, <1>7, TwoRows
  <1>8. ASSUME NEW r \in Shard!Rows(1), g = [Shard!Empty EXCEPT ![r.uid] = <<r>>]
        PROVE  LeftInOrder(g)
    BY <1>1, <1>2, <1>3, <1>8, TwoRows DEF ShardRow
  <1>9. ASSUME NEW r \in Shard!Rows(1), NEW q \in Shard!Rows(2),
               g = [Shard!Empty EXCEPT !["append"] = <<r>>, ![q.uid] = <<q>>]
        PROVE  LeftInOrder(g)
    BY <1>1, <1>2, <1>3, <1>9, TwoRows DEF ShardRow
  <1>10. ASSUME NEW r \in Shard!Rows(1), NEW q \in Shard!Rows(2),
                g = [Shard!Empty EXCEPT !["pack"] = <<r, q>>]
         PROVE  LeftInOrder(g)
    BY <1>1, <1>2, <1>3, <1>10, TwoRows
  <1> QED
    BY <1>4, <1>5, <1>6, <1>7, <1>8, <1>9, <1>10 DEF Shard!Left

(* The invariant holds when the first run begins.                          *)
LEMMA ShardStarts == ASSUME Shard!JsonlShardAssumption, Shard!Init PROVE ShardInv
  <1>1. LeftInOrder(sRows) /\ RowsInOrder(sRows)
    BY LeftFacts DEF Shard!Init, LeftInOrder
  <1>2. sAcked = ThereIn(sRows) /\ sPc = "down" /\ todo = <<>> /\ asking = {}
    BY DEF Shard!Init, ThereIn
  <1>3. ASSUME NEW r \in sAcked PROVE r \in ShardRow /\ r.id <= 2
    <2>1. PICK f \in Shard!File : \E i \in DOMAIN sRows[f] : sRows[f][i] = r
      BY <1>1, <1>2, FoundByLine
    <2> QED
      BY <1>1, <2>1 DEF LeftInOrder, RowsInOrder
  <1>4. IsFiniteSet(sAcked)
    <2>1. PICK r, q : \A f \in Shard!File : \A i \in DOMAIN sRows[f] : sRows[f][i] \in {r, q}
      BY <1>1 DEF LeftInOrder
    <2>2. sAcked \in SUBSET {r, q}
      BY <1>1, <1>2, <2>1, FoundByLine
    <2>3. IsFiniteSet({r} \cup {q}) /\ {r, q} = {r} \cup {q}
      BY FS_Singleton, FS_AddElement
    <2> QED
      BY <2>2, <2>3, FS_Subset
  <1>5. Cardinality(sAcked) \in Nat
    BY <1>4, FS_CardinalityType
  <1>6. Numbered
    <2>1. \A r \in sAcked : r.id \in Nat
      BY <1>3 DEF ShardRow
    <2> QED
      BY <1>3, <1>5, <2>1 DEF Numbered
  <1>7. ShardTypes /\ OwnRow /\ ThereIsAcked /\ SetAside /\ Kept /\ Found
    BY <1>1, <1>2, <1>3, <1>4
    DEF ShardTypes, OwnRow, ThereIsAcked, SetAside, Kept, Found, LeftInOrder
  <1> QED
    BY <1>6, <1>7 DEF ShardInv

(* The files to be read are files, and every file with rows is among them. *)
LEMMA CandidatesAreFiles ==
  ASSUME Shard!JsonlShardAssumption, NEW i \in BOOLEAN, NEW k \in BOOLEAN
  PROVE  /\ Shard!Candidates(i, k) \in Seq(Shard!File)
         /\ ~ k => \A f \in Shard!File : sRows[f] # <<>> \/ f = "append" =>
              \E j \in DOMAIN Shard!Candidates(i, k) : Shard!Candidates(i, k)[j] = f
  <1> DEFINE F == Shard!RecordFiles
             n == Cardinality(F)
  <1>1. IsFiniteSet(Shard!File) /\ F \in SUBSET Shard!File
    <2>1. IsFiniteSet({"append"} \cup {"pack"}) /\ {"append", "pack"} = {"append"} \cup {"pack"}
      BY FS_Singleton, FS_AddElement
    <2>2. IsFiniteSet(Uid)
      BY DEF Shard!JsonlShardAssumption, Shard!IsFiniteSet, IsFiniteSet
    <2> QED
      BY <2>1, <2>2, FS_Union DEF Shard!File, Shard!RecordFiles
  <1>2. IsFiniteSet(F) /\ n \in Nat /\ ExistsBijection(1 .. n, F)
    BY <1>1, FS_Subset, FS_CardinalityType
  <1>3. PICK g \in [1 .. n -> F] : \A d, e \in 1 .. n : g[d] = g[e] => d = e
    BY <1>2 DEF ExistsBijection, Bijection, Injection, IsInjective
  <1>4. Shard!IsInjective(g)
    BY <1>3 DEF Shard!IsInjective
  <1>5. Shard!SetToSeq(F) \in [1 .. n -> F] /\ Shard!IsInjective(Shard!SetToSeq(F))
    BY <1>4 DEF Shard!SetToSeq, Shard!Cardinality, Cardinality
  <1>6. Shard!SetToSeq(F) \in Seq(Shard!File)
    BY <1>1, <1>2, <1>5
  <1>7. <<>> \in Seq(Shard!File) /\ <<"append">> \in Seq(Shard!File)
    BY DEF Shard!File
  <1>8. \A f \in F : \E d \in 1 .. n : Shard!SetToSeq(F)[d] = f
    <2>1. Shard!SetToSeq(F) \in Injection(1 .. n, F)
      BY <1>5 DEF Injection, IsInjective, Shard!IsInjective
    <2>2. IsFiniteSet(1 .. n) /\ Cardinality(1 .. n) = n
      BY <1>2, FS_Interval
    <2>3. Shard!SetToSeq(F) \in Surjection(1 .. n, F)
      BY <1>2, <2>1, <2>2, FS_Injection
    <2> QED
      BY <2>3 DEF Surjection
  <1>9. ASSUME ~ k, NEW f \in Shard!File, sRows[f] # <<>> \/ f = "append"
        PROVE  \E j \in DOMAIN Shard!Candidates(i, k) : Shard!Candidates(i, k)[j] = f
    <2> DEFINE s == Shard!SetToSeq(F)
               c == <<"append">> \o s
    <2>1. /\ Shard!Candidates(i, k) = c /\ s \in Seq(Shard!File) /\ Len(s) = n
          /\ DOMAIN c = 1 .. (n + 1) /\ c[1] = "append" /\ \A d \in 1 .. n : c[d + 1] = s[d]
      BY <1>2, <1>5, <1>6, <1>7, <1>9 DEF Shard!Candidates
    <2> HIDE DEF c
    <2>2. CASE f = "append"
      BY <1>2, <2>1, <2>2
    <2>3. CASE f # "append"
      <3>1. f \in F
        BY <1>9, <2>3 DEF Shard!RecordFiles
      <3>2. PICK d \in 1 .. n : s[d] = f
        BY <1>8, <3>1
      <3>3. d + 1 \in 1 .. (n + 1) /\ c[d + 1] = f
        BY <1>2, <2>1, <3>2
      <3> QED
        BY <2>1, <3>3
    <2> QED
      BY <2>2, <2>3
  <1>10. Shard!Candidates(i, k) \in Seq(Shard!File)
    BY <1>6, <1>7 DEF Shard!Candidates
  <1> QED
    BY <1>9, <1>10

(* The first file to be read is a file, and so are the others.             *)
LEMMA HeadAndTail ==
  ASSUME ShardTypes, todo # <<>>
  PROVE  Head(todo) \in Shard!File /\ Tail(todo) \in Seq(Shard!File)
  BY DEF ShardTypes

(* Steps that leave the rows alone.                                        *)
LEMMA QuietStep ==
  ASSUME ShardInv, UNCHANGED <<sRows, sAcked>>, evidence \subseteq evidence',
         todo' \in Seq(Shard!File), asking' \in SUBSET Uid, SetAside'
  PROVE  ShardInv'
  <1>1. ShardTypes' /\ OwnRow' /\ ThereIsAcked' /\ Numbered'
    BY DEF ShardInv, ShardTypes, OwnRow, ThereIsAcked, Numbered
  <1>2. Kept' /\ Found'
    BY DEF ShardInv, Kept, Found, Newer
  <1> QED
    BY <1>1, <1>2 DEF ShardInv

(* The partial line that a death left in the file is cut off.              *)
LEMMA RepairKeeps ==
  ASSUME Shard!JsonlShardAssumption, ShardInv, Shard!Repair
  PROVE  ShardInv'
  <1> DEFINE f == Head(todo)
             t == Shard!Front(sRows[f])
  <1>1. /\ todo # <<>> /\ sPc = "scan" /\ Shard!Ragged(sRows[f])
        /\ sRows' = [sRows EXCEPT ![f] = t]
        /\ UNCHANGED <<evidence, sAcked, sPc, todo, asking>>
    BY DEF Shard!Repair, Shard!Reading, Shard!file
  <1>2. ShardTypes /\ f \in Shard!File
    BY <1>1, HeadAndTail DEF ShardInv
  <1>3. sRows[f] \in Seq(ShardRow) /\ Tidy(sRows[f])
    BY <1>2 DEF ShardTypes, RowsInOrder
  <1>4. /\ t \in Seq(ShardRow) /\ (\A i \in DOMAIN t : t[i].kind # "partial")
        /\ Shard!Parsed(t) = Shard!Parsed(sRows[f])
    BY <1>1, <1>3, FrontFacts
  <1>5. f = "append"
    <2>1. Len(sRows[f]) \in DOMAIN sRows[f] /\ sRows[f][Len(sRows[f])].kind = "partial"
      BY <1>1, <1>3 DEF Shard!Ragged, Shard!Last
    <2> QED
      BY <1>2, <2>1 DEF ShardTypes, RowsInOrder
  <1> HIDE DEF t, f
  <1>6. Tidy(t)
    BY <1>4 DEF Tidy
  <1>7. /\ RowsInOrder(sRows')
        /\ \A g \in Shard!File \ {f} : sRows'[g] = sRows[g]
        /\ Shard!Parsed(t) \subseteq ThereIn(sRows')
        /\ \A r \in ThereIn(sRows) : r \in Shard!Parsed(sRows[f]) \/ r \in ThereIn(sRows')
        /\ \A r \in ThereIn(sRows') : r \in Shard!Parsed(t) \/ r \in ThereIn(sRows)
        /\ Shard!Parsed(sRows[f]) \subseteq ThereIn(sRows)
    BY <1>1, <1>2, <1>4, <1>6, FileChange
  <1>8. \A u \in Uid : u \in Shard!File /\ u # f /\ sRows'[u] = sRows[u]
    BY <1>5, <1>7 DEF Shard!JsonlShardAssumption, Shard!File
  <1>9. ThereIn(sRows) \subseteq ThereIn(sRows')
    BY <1>4, <1>7
  <1>10. \A r \in sAcked : Newer(r) => Newer(r)'
    BY <1>1, <1>2, <1>8 DEF Newer, ShardTypes, ShardRow
  <1>11. Kept' /\ Found'
    BY <1>1, <1>9, <1>10, RowsStep DEF ShardInv
  <1>12. ShardTypes' /\ OwnRow' /\ ThereIsAcked' /\ Numbered' /\ SetAside'
    BY <1>1, <1>4, <1>7, <1>8 DEF ShardInv, ShardTypes, OwnRow, ThereIsAcked, Numbered, SetAside
  <1> QED
    BY <1>11, <1>12 DEF ShardInv

(* GRD rows get their review: a copy of them has been set aside.           *)
LEMMA WriteReviewedKeeps ==
  ASSUME ShardInv, Shard!WriteReviewed
  PROVE  ShardInv'
  <1> DEFINE f == Head(todo)
             s == sRows[f]
             t == [i \in DOMAIN s |-> Shard!Reviewed(s[i])]
  <1>1. /\ todo # <<>> /\ sPc = "backed" /\ sPc' = "sanitize"
        /\ sRows' = [sRows EXCEPT ![f] = t]
        /\ sAcked' = sAcked \cup {Shard!Reviewed(r) : r \in Shard!Unreviewed(f)}
        /\ UNCHANGED <<evidence, todo, asking>>
    BY DEF Shard!WriteReviewed, Shard!Reading, Shard!file
  <1>2. ShardTypes /\ f \in Shard!File
    BY <1>1, HeadAndTail DEF ShardInv
  <1>3. s \in Seq(ShardRow) /\ Tidy(s) /\ DOMAIN s = 1 .. Len(s) /\ Len(s) \in Nat
    BY <1>2 DEF ShardTypes, RowsInOrder
  <1>4. \A r \in ShardRow : /\ Shard!Reviewed(r) \in ShardRow
                            /\ Shard!Reviewed(r).uid = r.uid /\ Shard!Reviewed(r).id = r.id
                            /\ Shard!Reviewed(r).kind = IF r.kind = "unreviewed" THEN "current" ELSE r.kind
    BY DEF Shard!Reviewed, ShardRow
  <1>5. \A i \in DOMAIN s : s[i] \in ShardRow
    BY <1>3
  <1>6. /\ t \in Seq(ShardRow) /\ Len(t) = Len(s) /\ DOMAIN t = DOMAIN s
        /\ \A i \in DOMAIN s : t[i] = Shard!Reviewed(s[i])
    BY <1>3, <1>4, <1>5
  <1>7. Shard!Parsed(s) \subseteq evidence
    BY <1>1 DEF ShardInv, SetAside
  <1> HIDE DEF t, f, s
  <1>8. Tidy(t) /\ (f # "append" => \A i \in DOMAIN t : t[i].kind # "partial")
    <2>1. \A i \in DOMAIN t : i \in DOMAIN s /\ (t[i].kind = "partial" => s[i].kind = "partial")
      BY <1>4, <1>5, <1>6
    <2>2. f # "append" => \A i \in DOMAIN s : s[i].kind # "partial"
      BY <1>2 DEF ShardTypes, RowsInOrder, s
    <2> QED
      BY <1>3, <1>6, <2>1, <2>2 DEF Tidy
  <1>9. /\ RowsInOrder(sRows') /\ sRows'[f] = t
        /\ \A g \in Shard!File \ {f} : sRows'[g] = sRows[g]
        /\ Shard!Parsed(t) \subseteq ThereIn(sRows')
        /\ \A r \in ThereIn(sRows) : r \in Shard!Parsed(s) \/ r \in ThereIn(sRows')
        /\ \A r \in ThereIn(sRows') : r \in Shard!Parsed(t) \/ r \in ThereIn(sRows)
        /\ Shard!Parsed(s) \subseteq ThereIn(sRows)
    BY <1>1, <1>2, <1>6, <1>8, FileChange DEF s
  <1>10. \A r \in Shard!Parsed(s) : Shard!Reviewed(r) \in Shard!Parsed(t) /\ r \in ShardRow
    <2>1. /\ Shard!Parsed(s) = {s[i] : i \in {j \in DOMAIN s : s[j].kind # "partial"}}
          /\ Shard!Parsed(t) = {t[i] : i \in {j \in DOMAIN t : t[j].kind # "partial"}}
      BY <1>3, <1>6, <1>8, ParsedOfTidy
    <2>2. \A i \in DOMAIN s : s[i].kind # "partial" => t[i].kind # "partial"
      BY <1>4, <1>5, <1>6
    <2> QED
      BY <1>5, <1>6, <2>1, <2>2
  <1>11. Shard!Unreviewed(f) \subseteq Shard!Parsed(s)
    BY DEF Shard!Unreviewed, s
  <1>12. Uid \subseteq Shard!File
    BY DEF Shard!File
  <1>13. ASSUME NEW r \in sAcked, Newer(r) PROVE Newer(r)'
    <2>1. r.uid \in Uid
      BY <1>2 DEF ShardTypes, ShardRow
    <2>2. PICK i \in DOMAIN sRows[r.uid] : sRows[r.uid][i].id > r.id /\ sRows[r.uid][i].kind = "current"
      BY <1>13 DEF Newer
    <2>3. CASE r.uid = f
      <3>1. i \in DOMAIN t /\ t[i].id > r.id /\ t[i].kind = "current"
        BY <1>4, <1>5, <1>6, <2>2, <2>3 DEF s
      <3> QED
        BY <1>9, <2>3, <3>1 DEF Newer
    <2>4. CASE r.uid # f
      BY <1>9, <1>12, <2>1, <2>2, <2>4 DEF Newer
    <2> QED
      BY <2>3, <2>4
  <1>14. ASSUME NEW q \in ThereIn(sRows), Shard!Compatible(q)
         PROVE  \E p \in ThereIn(sRows') : Shard!Compatible(p) /\ p.uid = q.uid
    <2>1. CASE q \in Shard!Parsed(s)
      <3>1. Shard!Compatible(Shard!Reviewed(q))
        BY <1>4, <1>10, <1>14, <2>1 DEF Shard!Compatible
      <3> QED
        BY <1>4, <1>9, <1>10, <2>1, <3>1
    <2>2. CASE q \notin Shard!Parsed(s)
      BY <1>9, <1>14, <2>2
    <2> QED
      BY <2>1, <2>2
  <1>15. /\ \A r \in sAcked' \ sAcked : r \in ThereIn(sRows')
         /\ \A r \in sAcked : r \in ThereIn(sRows) => r \in ThereIn(sRows') \/ r \in evidence'
    BY <1>1, <1>7, <1>9, <1>10, <1>11
  <1>16. Kept' /\ Found'
    BY <1>1, <1>13, <1>14, <1>15, RowsStep DEF ShardInv
  <1>17. Shard!Parsed(t) \subseteq sAcked'
    <2>1. ASSUME NEW r \in Shard!Parsed(t) PROVE r \in sAcked'
      <3>1. PICK i \in DOMAIN s : r = Shard!Reviewed(s[i]) /\ r.kind # "partial"
        BY <1>3, <1>6, <1>8, ParsedOfTidy
      <3>2. s[i] \in Shard!Parsed(s)
        BY <1>3, <1>4, <1>5, <3>1, ParsedOfTidy
      <3>3. CASE s[i].kind = "unreviewed"
        BY <1>1, <3>1, <3>2, <3>3 DEF Shard!Unreviewed, s
      <3>4. CASE s[i].kind # "unreviewed"
        <4>1. r = s[i]
          BY <3>1, <3>4 DEF Shard!Reviewed
        <4>2. s[i] \in sAcked
          BY <1>9, <3>2 DEF ShardInv, ThereIsAcked
        <4> QED
          BY <1>1, <4>1, <4>2
      <3> QED
        BY <3>3, <3>4
    <2> QED
      BY <2>1
  <1>18. sAcked' \in SUBSET ShardRow /\ IsFiniteSet(sAcked') /\ sAcked \subseteq sAcked'
    <2>1. {Shard!Reviewed(r) : r \in Shard!Unreviewed(f)} \subseteq {t[i] : i \in DOMAIN t}
      <3>1. ASSUME NEW r \in Shard!Unreviewed(f) PROVE \E i \in DOMAIN t : t[i] = Shard!Reviewed(r)
        <4>1. PICK i \in DOMAIN s : r = s[i]
          BY <1>3, <1>11, <3>1, ParsedOfTidy
        <4> QED
          BY <1>6, <4>1
      <3> QED
        BY <3>1
    <2>2. IsFiniteSet({t[i] : i \in DOMAIN t}) /\ {t[i] : i \in DOMAIN t} \subseteq ShardRow
      BY <1>6, LinesAreFinite
    <2>3. IsFiniteSet(sAcked \cup {t[i] : i \in DOMAIN t}) /\ sAcked \in SUBSET ShardRow
      BY <1>2, <2>2, FS_Union DEF ShardTypes
    <2>4. sAcked' \in SUBSET (sAcked \cup {t[i] : i \in DOMAIN t})
      BY <1>1, <2>1
    <2> QED
      BY <1>1, <2>2, <2>3, <2>4, FS_Subset
  <1>19. Cardinality(sAcked) \in Nat /\ Cardinality(sAcked') \in Nat
         /\ Cardinality(sAcked) <= Cardinality(sAcked')
    BY <1>2, <1>18, FS_Subset, FS_CardinalityType DEF ShardTypes
  <1>20. Numbered'
    <2>1. ASSUME NEW r \in sAcked' PROVE \E q \in sAcked : q.id = r.id
      <3>1. CASE r \notin sAcked
        <4>1. PICK q \in Shard!Unreviewed(f) : r = Shard!Reviewed(q)
          BY <1>1, <3>1
        <4>2. q \in sAcked /\ q \in ShardRow
          BY <1>9, <1>10, <1>11, <4>1 DEF ShardInv, ThereIsAcked
        <4> QED
          BY <1>4, <4>1, <4>2
      <3> QED
        BY <3>1
    <2>2. \A q \in sAcked : q.id \in Nat /\ q.id <= Cardinality(sAcked) + 2
      BY <1>2 DEF ShardInv, Numbered, ShardTypes, ShardRow
    <2> QED
      BY <1>19, <2>1, <2>2 DEF Numbered
  <1>21. OwnRow'
    <2>1. ASSUME NEW u \in Uid
          PROVE  Len(sRows'[u]) <= 1 /\ \A i \in DOMAIN sRows'[u] : sRows'[u][i].uid = u
      <3>1. Len(sRows[u]) <= 1 /\ \A i \in DOMAIN sRows[u] : sRows[u][i].uid = u
        BY DEF ShardInv, OwnRow
      <3>2. CASE u = f
        BY <1>4, <1>5, <1>6, <1>9, <3>1, <3>2 DEF s
      <3>3. CASE u # f
        BY <1>9, <1>12, <3>1, <3>3
      <3> QED
        BY <3>2, <3>3
    <2> QED
      BY <2>1 DEF OwnRow
  <1>22. ThereIsAcked'
    BY <1>1, <1>9, <1>17 DEF ShardInv, ThereIsAcked
  <1>23. ShardTypes' /\ SetAside'
    BY <1>1, <1>2, <1>9, <1>18 DEF ShardTypes, SetAside
  <1> QED
    BY <1>16, <1>20, <1>21, <1>22, <1>23 DEF ShardInv

(* The lines that do not stay have been set aside.                         *)
LEMMA ReplaceKeeps ==
  ASSUME ShardInv, Shard!Replace
  PROVE  ShardInv'
  <1> DEFINE f == Head(todo)
             s == sRows[f]
             t == Shard!Accepted(s)
  <1>1. /\ todo # <<>> /\ sPc = "quarantined" /\ sPc' = "scan" /\ todo' = Tail(todo)
        /\ sRows' = [sRows EXCEPT ![f] = t]
        /\ UNCHANGED <<evidence, sAcked, asking>>
    BY DEF Shard!Replace, Shard!Reading, Shard!file, Shard!NextFile
  <1>2. ShardTypes /\ f \in Shard!File /\ todo' \in Seq(Shard!File)
    BY <1>1, HeadAndTail DEF ShardInv
  <1>3. s \in Seq(ShardRow) /\ Tidy(s) /\ DOMAIN s = 1 .. Len(s) /\ Len(s) \in Nat
    BY <1>2 DEF ShardTypes, RowsInOrder
  <1>4. /\ t \in Seq(ShardRow) /\ Len(t) <= Len(s)
        /\ Shard!Range(t) = {s[i] : i \in {j \in DOMAIN s : Shard!Stays(s, j)}}
        /\ \A i \in DOMAIN s : Shard!Compatible(s[i]) =>
             \E j \in DOMAIN s : Shard!Stays(s, j) /\ s[j].uid = s[i].uid
    BY <1>3, AcceptedFacts
  <1>5. Shard!Range(s) \ Shard!Range(t) \subseteq evidence
    BY <1>1 DEF ShardInv, SetAside, Shard!Rejected
  <1> HIDE DEF t, f, s
  <1>6. \A j \in DOMAIN s : Shard!Stays(s, j) => Shard!Compatible(s[j])
    BY DEF Shard!Stays
  <1>7. \A i \in DOMAIN t : \E j \in DOMAIN s : t[i] = s[j] /\ Shard!Compatible(s[j])
    BY <1>4, <1>6 DEF Shard!Range
  <1>8. \A i \in DOMAIN t : t[i].kind # "partial"
    BY <1>7 DEF Shard!Compatible
  <1>9. Tidy(t)
    BY <1>8 DEF Tidy
  <1>10. /\ RowsInOrder(sRows') /\ sRows'[f] = t
         /\ \A g \in Shard!File \ {f} : sRows'[g] = sRows[g]
         /\ Shard!Parsed(t) \subseteq ThereIn(sRows')
         /\ \A r \in ThereIn(sRows) : r \in Shard!Parsed(s) \/ r \in ThereIn(sRows')
         /\ \A r \in ThereIn(sRows') : r \in Shard!Parsed(t) \/ r \in ThereIn(sRows)
         /\ Shard!Parsed(s) \subseteq ThereIn(sRows)
    BY <1>1, <1>2, <1>4, <1>8, <1>9, FileChange DEF s
  <1>11. /\ Shard!Range(s) = {s[i] : i \in DOMAIN s} /\ Shard!Range(t) = {t[i] : i \in DOMAIN t}
         /\ Shard!Parsed(s) = {s[i] : i \in {j \in DOMAIN s : s[j].kind # "partial"}}
         /\ Shard!Parsed(t) = {t[i] : i \in {j \in DOMAIN t : t[j].kind # "partial"}}
    BY <1>3, <1>4, <1>9, ParsedOfTidy
  <1>12. Shard!Parsed(t) = Shard!Range(t) /\ Shard!Parsed(t) \subseteq Shard!Parsed(s)
    BY <1>7, <1>8, <1>11
  <1>13. \A r \in sAcked : r \in ThereIn(sRows) => r \in ThereIn(sRows') \/ r \in evidence'
    BY <1>1, <1>5, <1>10, <1>11, <1>12
  <1>14. ASSUME NEW q \in ThereIn(sRows), Shard!Compatible(q)
         PROVE  \E p \in ThereIn(sRows') : Shard!Compatible(p) /\ p.uid = q.uid
    <2>1. CASE q \in Shard!Parsed(s)
      <3>1. PICK i \in DOMAIN s : q = s[i]
        BY <1>11, <2>1
      <3>2. PICK j \in DOMAIN s : Shard!Stays(s, j) /\ s[j].uid = q.uid
        BY <1>4, <1>14, <3>1
      <3>3. s[j] \in Shard!Range(t) /\ Shard!Compatible(s[j])
        BY <1>4, <1>6, <3>2
      <3> QED
        BY <1>10, <1>12, <3>2, <3>3
    <2>2. CASE q \notin Shard!Parsed(s)
      BY <1>10, <1>14, <2>2
    <2> QED
      BY <2>1, <2>2
  <1>15. Uid \subseteq Shard!File
    BY DEF Shard!File
  <1>16. ASSUME NEW r \in sAcked, Newer(r) PROVE Newer(r)'
    <2>1. r.uid \in Uid
      BY <1>2 DEF ShardTypes, ShardRow
    <2>2. PICK i \in DOMAIN sRows[r.uid] : sRows[r.uid][i].id > r.id /\ sRows[r.uid][i].kind = "current"
      BY <1>16 DEF Newer
    <2>3. CASE r.uid = f
      <3>1. i \in DOMAIN s /\ s[i].id > r.id /\ s[i].kind = "current" /\ Len(s) <= 1
        BY <2>1, <2>2, <2>3 DEF s, ShardInv, OwnRow
      <3>2. PICK j \in DOMAIN s : Shard!Stays(s, j)
        BY <1>4, <3>1 DEF Shard!Compatible
      <3>3. i = j
        BY <1>3, <3>1
      <3>4. s[i] \in Shard!Range(t)
        BY <1>4, <3>2, <3>3
      <3>5. PICK k \in DOMAIN t : t[k] = s[i]
        BY <1>11, <3>4
      <3> QED
        BY <1>1, <1>10, <2>3, <3>1, <3>5 DEF Newer
    <2>4. CASE r.uid # f
      BY <1>10, <1>15, <2>1, <2>2, <2>4 DEF Newer
    <2> QED
      BY <2>3, <2>4
  <1>17. Kept' /\ Found'
    BY <1>1, <1>13, <1>14, <1>16, RowsStep DEF ShardInv
  <1>18. OwnRow'
    <2>1. ASSUME NEW u \in Uid
          PROVE  Len(sRows'[u]) <= 1 /\ \A i \in DOMAIN sRows'[u] : sRows'[u][i].uid = u
      <3>1. Len(sRows[u]) <= 1 /\ \A i \in DOMAIN sRows[u] : sRows[u][i].uid = u
        BY DEF ShardInv, OwnRow
      <3>2. CASE u = f
        <4>1. Len(t) <= 1
          BY <1>3, <1>4, <3>1, <3>2 DEF s
        <4>2. \A i \in DOMAIN t : t[i].uid = u
          BY <1>7, <3>1, <3>2 DEF s
        <4> QED
          BY <1>10, <3>2, <4>1, <4>2
      <3>3. CASE u # f
        BY <1>10, <1>15, <3>1, <3>3
      <3> QED
        BY <3>2, <3>3
    <2> QED
      BY <2>1 DEF OwnRow
  <1>19. ShardTypes' /\ ThereIsAcked' /\ Numbered' /\ SetAside'
    BY <1>1, <1>2, <1>10, <1>12 DEF ShardInv, ShardTypes, ThereIsAcked, Numbered, SetAside
  <1> QED
    BY <1>17, <1>18, <1>19 DEF ShardInv

(* A new row: its number is larger than that of every row before it.       *)
LEMMA FreshFacts ==
  ASSUME ShardInv, NEW u \in Uid
  PROVE  /\ Shard!Fresh(u) \in ShardRow /\ Shard!Compatible(Shard!Fresh(u))
         /\ Shard!Fresh(u).uid = u /\ Shard!Fresh(u).kind = "current"
         /\ \A r \in sAcked : Shard!Fresh(u).id > r.id
         /\ IsFiniteSet(sAcked \cup {Shard!Fresh(u)})
         /\ \A r \in sAcked \cup {Shard!Fresh(u)} :
              r \in ShardRow /\ r.id <= Cardinality(sAcked \cup {Shard!Fresh(u)}) + 2
  <1> DEFINE n == Cardinality(sAcked)
  <1>1. IsFiniteSet(sAcked) /\ n \in Nat /\ sAcked \in SUBSET ShardRow
    BY FS_CardinalityType DEF ShardInv, ShardTypes
  <1>2. Shard!Fresh(u) = [uid |-> u, id |-> n + 3, kind |-> "current"]
    BY DEF Shard!Fresh, Shard!Row, Shard!Cardinality, Cardinality
  <1> HIDE DEF n
  <1>3. Shard!Fresh(u) \in ShardRow
    BY <1>1, <1>2 DEF ShardRow
  <1>4. \A r \in sAcked : r.id \in Nat /\ r.id <= n + 2 /\ r \in ShardRow
    BY <1>1 DEF ShardInv, Numbered, n, ShardRow
  <1>5. \A r \in sAcked : n + 3 > r.id
    BY <1>1, <1>4
  <1>6. Shard!Fresh(u) \notin sAcked
    BY <1>1, <1>2, <1>5
  <1>7. IsFiniteSet(sAcked \cup {Shard!Fresh(u)}) /\ Cardinality(sAcked \cup {Shard!Fresh(u)}) = n + 1
    BY <1>1, <1>6, FS_AddElement DEF n
  <1>8. \A r \in sAcked \cup {Shard!Fresh(u)} : r \in ShardRow /\ r.id <= n + 1 + 2
    BY <1>1, <1>2, <1>3, <1>4
  <1> QED
    BY <1>2, <1>3, <1>5, <1>7, <1>8 DEF Shard!Compatible

(* A new row replaces the file of its episode.                             *)
LEMMA CommitFileKeeps ==
  ASSUME ShardInv, NEW u \in Uid, Shard!CommitFile(u)
  PROVE  ShardInv'
  <1> DEFINE new == Shard!Fresh(u)
             t == <<new>>
  <1>1. /\ sRows' = [sRows EXCEPT ![u] = t] /\ sPc = "work"
        /\ sAcked' = sAcked \cup {new} /\ asking' = asking \ {u}
        /\ UNCHANGED <<evidence, sPc, todo>>
    BY DEF Shard!CommitFile, Shard!Committed
  <1>2. ShardTypes /\ u \in Shard!File
    BY DEF ShardInv, Shard!File
  <1>3. /\ new \in ShardRow /\ Shard!Compatible(new) /\ new.uid = u /\ new.kind = "current"
        /\ \A r \in sAcked : new.id > r.id
        /\ IsFiniteSet(sAcked \cup {new})
        /\ \A r \in sAcked \cup {new} : r \in ShardRow /\ r.id <= Cardinality(sAcked \cup {new}) + 2
    BY FreshFacts
  <1> HIDE DEF new
  <1>4. /\ t \in Seq(ShardRow) /\ Len(t) = 1 /\ t[1] = new /\ DOMAIN t = {1}
    BY <1>3
  <1> HIDE DEF t
  <1>5. Tidy(t) /\ \A i \in DOMAIN t : t[i].kind # "partial"
    BY <1>3, <1>4 DEF Tidy
  <1>6. /\ RowsInOrder(sRows') /\ sRows'[u] = t
        /\ \A g \in Shard!File \ {u} : sRows'[g] = sRows[g]
        /\ Shard!Parsed(t) \subseteq ThereIn(sRows')
        /\ \A r \in ThereIn(sRows) : r \in Shard!Parsed(sRows[u]) \/ r \in ThereIn(sRows')
        /\ \A r \in ThereIn(sRows') : r \in Shard!Parsed(t) \/ r \in ThereIn(sRows)
    BY <1>1, <1>2, <1>4, <1>5, FileChange
  <1>7. Shard!Parsed(t) = {new}
    BY <1>3, <1>4, <1>5, ParsedOfTidy
  <1>8. ASSUME NEW r \in Shard!Parsed(sRows[u]) PROVE r.uid = u
    <2>1. sRows[u] \in Seq(ShardRow) /\ Tidy(sRows[u])
      BY <1>2 DEF ShardTypes, RowsInOrder
    <2>2. PICK i \in DOMAIN sRows[u] : r = sRows[u][i]
      BY <1>8, <2>1, ParsedOfTidy
    <2> QED
      BY <2>2 DEF ShardInv, OwnRow
  <1>9. \A r \in sAcked : r.uid = u => Newer(r)'
    BY <1>1, <1>3, <1>4, <1>6 DEF Newer
  <1>10. Uid \subseteq Shard!File /\ \A r \in sAcked : r.uid \in Uid
    BY <1>2 DEF Shard!File, ShardTypes, ShardRow
  <1>11. \A r \in sAcked : Newer(r) => Newer(r)'
    BY <1>6, <1>9, <1>10 DEF Newer
  <1>12. \A r \in sAcked : r \in ThereIn(sRows) => r \in ThereIn(sRows') \/ Newer(r)'
    BY <1>6, <1>8, <1>9
  <1>13. \A q \in ThereIn(sRows) : Shard!Compatible(q) =>
           \E p \in ThereIn(sRows') : Shard!Compatible(p) /\ p.uid = q.uid
    BY <1>3, <1>6, <1>7, <1>8
  <1>14. \A r \in sAcked' \ sAcked : r \in ThereIn(sRows')
    BY <1>1, <1>6, <1>7
  <1>15. Kept' /\ Found'
    BY <1>1, <1>11, <1>12, <1>13, <1>14, RowsStep DEF ShardInv
  <1>16. OwnRow'
    <2>1. ASSUME NEW v \in Uid
          PROVE  Len(sRows'[v]) <= 1 /\ \A i \in DOMAIN sRows'[v] : sRows'[v][i].uid = v
      <3>1. CASE v = u
        <4>1. sRows'[v] = t /\ t[1].uid = u
          BY <1>3, <1>4, <1>6, <3>1
        <4>2. Len(t) <= 1 /\ \A i \in DOMAIN t : i = 1
          BY <1>4
        <4>3. \A i \in DOMAIN t : t[i].uid = v
          BY <3>1, <4>1, <4>2
        <4> QED
          BY <4>1, <4>2, <4>3, Zenon
      <3>2. CASE v # u
        <4>1. sRows'[v] = sRows[v]
          BY <1>6, <1>10, <3>2
        <4> QED
          BY <4>1 DEF ShardInv, OwnRow
      <3> QED
        BY <3>1, <3>2
    <2> QED
      BY <2>1 DEF OwnRow
  <1>17. ShardTypes' /\ ThereIsAcked' /\ Numbered' /\ SetAside'
    BY <1>1, <1>2, <1>3, <1>6, <1>7
    DEF ShardInv, ShardTypes, ThereIsAcked, Numbered, SetAside
  <1> QED
    BY <1>15, <1>16, <1>17 DEF ShardInv

(* The file then has whole lines and the one that was written last.        *)
LEMMA LineAppended ==
  ASSUME Shard!JsonlShardAssumption, ShardInv, NEW u \in Uid,
         Shard!AppendBegins(u) \/ Shard!AppendEnds(u)
  PROVE  \E r \in ShardRow, w \in Seq(ShardRow) :
           /\ \A i \in DOMAIN w : w[i].kind # "partial"
           /\ Shard!Parsed(w) = Shard!Parsed(sRows["append"])
           /\ sRows' = [sRows EXCEPT !["append"] = Append(w, r)]
           /\ \/ r.kind = "partial" /\ sAcked' = sAcked
              \/ r = Shard!Fresh(u) /\ sAcked' = sAcked \cup {r}
  <1> DEFINE s == sRows["append"]
  <1>1. "append" \in Shard!File
    BY DEF Shard!File
  <1>2. s \in Seq(ShardRow) /\ Tidy(s) /\ ShardTypes
    BY <1>1 DEF ShardInv, ShardTypes, RowsInOrder
  <1>3. CASE Shard!AppendBegins(u)
    <2>1. /\ ~ Shard!Ragged(s) /\ sAcked' = sAcked
          /\ sRows' = [sRows EXCEPT !["append"] = Append(s, Shard!Row(u, 0, "partial"))]
      BY <1>1, <1>2, <1>3 DEF Shard!AppendBegins, ShardTypes, RowsInOrder
    <2>2. Shard!Row(u, 0, "partial") \in ShardRow /\ Shard!Row(u, 0, "partial").kind = "partial"
      BY DEF Shard!Row, ShardRow
    <2>3. \A i \in DOMAIN s : s[i].kind # "partial"
      BY <1>2, <2>1 DEF Tidy, Shard!Ragged, Shard!Last
    <2> QED
      BY <1>2, <2>1, <2>2, <2>3
  <1>4. CASE Shard!AppendEnds(u)
    <2>1. /\ Shard!Ragged(s) /\ sAcked' = sAcked \cup {Shard!Fresh(u)}
          /\ sRows' = [sRows EXCEPT !["append"] = Append(Shard!Front(s), Shard!Fresh(u))]
      BY <1>1, <1>2, <1>4 DEF Shard!AppendEnds, Shard!Committed, ShardTypes, RowsInOrder
    <2> QED
      BY <1>2, <2>1, FrontFacts, FreshFacts
  <1> QED
    BY <1>3, <1>4

(* A line is begun, which is no row yet, or gets its end.                  *)
LEMMA AppendKeeps ==
  ASSUME Shard!JsonlShardAssumption, ShardInv, NEW u \in Uid,
         Shard!AppendBegins(u) \/ Shard!AppendEnds(u)
  PROVE  ShardInv'
  <1> DEFINE s == sRows["append"]
  <1>1. "append" \in Shard!File /\ Uid \subseteq Shard!File \ {"append"}
    BY DEF Shard!JsonlShardAssumption, Shard!File
  <1>2. s \in Seq(ShardRow) /\ Tidy(s) /\ ShardTypes
    BY <1>1 DEF ShardInv, ShardTypes, RowsInOrder
  <1>3. UNCHANGED <<evidence, sPc, todo>> /\ sPc = "work" /\ asking' \in SUBSET Uid
    BY <1>2 DEF Shard!AppendBegins, Shard!AppendEnds, Shard!Committed, ShardTypes
  <1>4. PICK r \in ShardRow, w \in Seq(ShardRow) :
          /\ \A i \in DOMAIN w : w[i].kind # "partial"
          /\ Shard!Parsed(w) = Shard!Parsed(s)
          /\ sRows' = [sRows EXCEPT !["append"] = Append(w, r)]
          /\ \/ r.kind = "partial" /\ sAcked' = sAcked
             \/ r = Shard!Fresh(u) /\ sAcked' = sAcked \cup {r}
    BY LineAppended
  <1> DEFINE t == Append(w, r)
  <1>5. /\ t \in Seq(ShardRow) /\ Tidy(t)
        /\ Shard!Parsed(w) \subseteq Shard!Parsed(t)
        /\ r.kind # "partial" => r \in Shard!Parsed(t)
    BY <1>4, AppendFacts
  <1>6. Shard!Parsed(t) \subseteq Shard!Parsed(s) \cup (IF r.kind = "partial" THEN {} ELSE {r})
    BY <1>4, AppendFacts
  <1> HIDE DEF t
  <1>7. sRows' = [sRows EXCEPT !["append"] = t]
    BY <1>4 DEF t
  <1>8. /\ RowsInOrder(sRows')
        /\ \A g \in Shard!File \ {"append"} : sRows'[g] = sRows[g]
        /\ Shard!Parsed(t) \subseteq ThereIn(sRows')
        /\ \A q \in ThereIn(sRows) : q \in Shard!Parsed(s) \/ q \in ThereIn(sRows')
        /\ \A q \in ThereIn(sRows') : q \in Shard!Parsed(t) \/ q \in ThereIn(sRows)
        /\ Shard!Parsed(s) \subseteq ThereIn(sRows)
    BY <1>1, <1>2, <1>5, <1>7, FileChange
  <1>9. ThereIn(sRows) \subseteq ThereIn(sRows')
    BY <1>4, <1>5, <1>8
  <1>10. \A v \in Uid : sRows'[v] = sRows[v]
    BY <1>1, <1>8
  <1>11. \A q \in sAcked : Newer(q) => Newer(q)'
    BY <1>2, <1>10 DEF Newer, ShardTypes, ShardRow
  <1>12. /\ Shard!Fresh(u) \in ShardRow /\ Shard!Fresh(u).kind = "current"
         /\ IsFiniteSet(sAcked \cup {Shard!Fresh(u)})
         /\ \A q \in sAcked \cup {Shard!Fresh(u)} :
              q \in ShardRow /\ q.id <= Cardinality(sAcked \cup {Shard!Fresh(u)}) + 2
    BY FreshFacts
  <1>13. \A q \in sAcked' \ sAcked : q \in ThereIn(sRows')
    <2>1. CASE r = Shard!Fresh(u) /\ sAcked' = sAcked \cup {r}
      <3>1. r.kind # "partial"
        BY <1>12, <2>1
      <3> QED
        BY <1>5, <1>8, <2>1, <3>1
    <2> QED
      BY <1>4, <2>1
  <1>14. Kept' /\ Found'
    BY <1>3, <1>9, <1>11, <1>13, RowsStep DEF ShardInv
  <1>15. Numbered' /\ sAcked' \in SUBSET ShardRow /\ IsFiniteSet(sAcked')
    BY <1>2, <1>4, <1>12 DEF ShardInv, Numbered, ShardTypes
  <1>16. ThereIsAcked'
    BY <1>4, <1>6, <1>8, <1>12 DEF ShardInv, ThereIsAcked
  <1>17. ShardTypes' /\ OwnRow' /\ SetAside'
    BY <1>2, <1>3, <1>8, <1>10, <1>15 DEF ShardInv, ShardTypes, OwnRow, SetAside
  <1> QED
    BY <1>14, <1>15, <1>16, <1>17 DEF ShardInv

(* Every step keeps the invariant.                                         *)
LEMMA ShardStep ==
  ASSUME Shard!JsonlShardAssumption, ShardInv, [Shard!Next]_(Shard!vars)
  PROVE  ShardInv'
  <1>1. ShardTypes /\ SetAside /\ <<>> \in Seq(Shard!File)
    BY DEF ShardInv
  <1>2. CASE Shard!Start
    <2>1. PICK i \in BOOLEAN, k \in BOOLEAN : todo' = Shard!Candidates(i, k)
      BY <1>2 DEF Shard!Start
    <2>2. todo' \in Seq(Shard!File)
      BY <2>1, CandidatesAreFiles
    <2> QED
      BY <1>1, <1>2, <2>2, QuietStep DEF Shard!Start, ShardTypes, SetAside
  <1>3. CASE Shard!Crash \/ Shard!Finish
    BY <1>1, <1>3, QuietStep DEF Shard!Crash, Shard!Finish, Shard!Forget, ShardTypes, SetAside
  <1>4. CASE Shard!Validate
    BY <1>1, <1>4, HeadAndTail, QuietStep
    DEF Shard!Validate, Shard!Reading, Shard!NextFile, ShardTypes, SetAside
  <1>5. CASE Shard!Examine \/ Shard!Open
    BY <1>1, <1>5, QuietStep DEF Shard!Examine, Shard!Open, Shard!Reading, ShardTypes, SetAside
  <1>6. CASE Shard!Backup
    BY <1>1, <1>6, QuietStep DEF Shard!Backup, Shard!Reading, Shard!file, ShardTypes, SetAside
  <1>7. CASE Shard!Sanitize
    BY <1>1, <1>7, HeadAndTail, QuietStep
    DEF Shard!Sanitize, Shard!Reading, Shard!NextFile, ShardTypes, SetAside
  <1>8. CASE Shard!Quarantine
    BY <1>1, <1>8, QuietStep DEF Shard!Quarantine, Shard!Reading, Shard!file, ShardTypes, SetAside
  <1>9. ASSUME NEW u \in Uid, Shard!Annotate(u) \/ Shard!Fail(u)
        PROVE  ShardInv'
    BY <1>1, <1>9, QuietStep DEF Shard!Annotate, Shard!Fail, ShardTypes, SetAside
  <1>10. CASE UNCHANGED Shard!vars
    BY <1>1, <1>10, QuietStep DEF Shard!vars, Shard!disk, Shard!flags, ShardTypes, SetAside
  <1> QED
    BY <1>2, <1>3, <1>4, <1>5, <1>6, <1>7, <1>8, <1>9, <1>10, RepairKeeps, WriteReviewedKeeps,
       ReplaceKeeps, CommitFileKeeps, AppendKeeps
    DEF Shard!Next

(* The inductive invariant of the output shard of a batch.                 *)
THEOREM ShardInvariant == ASSUME Shard!JsonlShardAssumption PROVE Shard!Spec => []ShardInv
  <1>1. Shard!Init => ShardInv
    BY ShardStarts
  <1>2. ShardInv /\ [Shard!Next]_(Shard!vars) => ShardInv'
    BY ShardStep
  <1> QED
    BY <1>1, <1>2, PTL DEF Shard!Spec

(* No row is lost: for any batch and any number of launches, whatever flags *)
(* they have and wherever they die, a row that was written to its end is   *)
(* in a file or was set aside, or a newer one has replaced the file of its *)
(* episode; and an annotated episode keeps a row that the next run accepts.*)
THEOREM NoRowLost == ASSUME Shard!JsonlShardAssumption PROVE Shard!Spec => []RowsKept
  <1>1. ShardInv => RowsKept
    <2> SUFFICES ASSUME ShardInv, NEW r \in sAcked
                 PROVE  /\ \/ r \in ThereIn(sRows) \cup evidence
                           \/ \E q \in Shard!Range(sRows[r.uid]) : q.id > r.id
                        /\ Shard!Compatible(r) => r.uid \in Shard!Uids(ThereIn(sRows))
      BY DEF RowsKept, Shard!RowsKept, ThereIn
    <2>1. Newer(r) => \E q \in Shard!Range(sRows[r.uid]) : q.id > r.id
      BY DEF Newer, Shard!Range
    <2> QED
      BY <2>1 DEF ShardInv, Kept, Found, Shard!Uids
  <1> QED
    BY <1>1, ShardInvariant, PTL

-----------------------------------------------------------------------------
(* What is read spares its episodes.                                       *)

(* The files that the run has still to read.                               *)
ToRead(f) == \E i \in DOMAIN todo : todo[i] = f

(* The rows of a file that count spare their episodes.                     *)
Spared(f) == \A r \in Shard!Counts(f) : Shard!Compatible(r) => r.uid \in done
PriorSpared == \A r \in prior : Shard!Compatible(r) => r.uid \in done

(* A run that annotates has read every file; one that reads has noted the  *)
(* rows of those it has read.                                              *)
ReadInv ==
  /\ sPc = "work" => todo = <<>>
  /\ sPc # "down" /\ resume => PriorSpared
  /\ sPc # "down" /\ ~ skip => \A f \in Shard!File : ToRead(f) \/ Spared(f)

(* A step keeps the invariant if every file is still to be read, or has no *)
(* rows that count but those it had or those that are noted.               *)
LEMMA ReadOn ==
  ASSUME ReadInv, sPc # "down", UNCHANGED <<prior, pool, resume, skip>>, done \subseteq done',
         sPc' = "work" => todo' = <<>>,
         \A f \in Shard!File :
           \/ ToRead(f)'
           \/ ~ ToRead(f) /\ sRows'[f] = sRows[f]
           \/ Spared(f)'
  PROVE  ReadInv'
  <1>1. resume' => PriorSpared'
    BY DEF ReadInv, PriorSpared
  <1>2. ASSUME ~ skip', NEW f \in Shard!File PROVE ToRead(f)' \/ Spared(f)'
    <2>1. CASE ~ ToRead(f) /\ sRows'[f] = sRows[f]
      <3>1. Spared(f)
        BY <1>2, <2>1 DEF ReadInv
      <3>2. Shard!Counts(f)' = Shard!Counts(f)
        BY <2>1 DEF Shard!Counts, Shard!HeaderRejects
      <3> QED
        BY <3>1, <3>2 DEF Spared
    <2> QED
      BY <1>2, <2>1
  <1> QED
    BY <1>1, <1>2 DEF ReadInv

(* When a file has been read, it is the only one not to be read any more.  *)
LEMMA OthersToRead ==
  ASSUME ShardTypes, todo # <<>>, todo' = Tail(todo), NEW f \in Shard!File, f # Head(todo), ToRead(f)
  PROVE  ToRead(f)'
  <1>1. PICK i \in DOMAIN todo : todo[i] = f
    BY DEF ToRead
  <1>2. /\ todo \in Seq(Shard!File) /\ Len(todo) \in Nat \ {0} /\ DOMAIN todo = 1 .. Len(todo)
        /\ Head(todo) = todo[1]
    BY DEF ShardTypes
  <1>3. /\ Tail(todo) \in Seq(Shard!File) /\ DOMAIN Tail(todo) = 1 .. (Len(todo) - 1)
        /\ \A j \in 1 .. (Len(todo) - 1) : Tail(todo)[j] = todo[j + 1]
    BY <1>2
  <1>4. i - 1 \in 1 .. (Len(todo) - 1)
    BY <1>1, <1>2
  <1> QED
    BY <1>1, <1>2, <1>3, <1>4 DEF ToRead

(* The first file to be read, which a step of the reading is about.        *)
LEMMA HeadIsToRead == ASSUME ShardTypes, todo # <<>>, UNCHANGED todo PROVE ToRead(Head(todo))'
  <1>1. 1 \in DOMAIN todo /\ todo[1] = Head(todo)
    BY DEF ShardTypes
  <1> QED
    BY <1>1 DEF ToRead

(* A run begins with the resume outputs, and with every file that has rows *)
(* to be read.                                                             *)
LEMMA StartReads ==
  ASSUME Shard!JsonlShardAssumption, ShardInv, Shard!Start
  PROVE  ReadInv'
  <1>1. PICK i, r, k \in BOOLEAN :
          /\ resume' = r /\ skip' = k /\ done' = IF r THEN Shard!Uids(prior) ELSE {}
          /\ todo' = Shard!Candidates(i, k) /\ prior' = prior /\ sRows' = sRows /\ sPc' = "scan"
    BY DEF Shard!Start, Shard!disk
  <1>2. resume' => PriorSpared'
    BY <1>1 DEF PriorSpared, Shard!Uids
  <1>3. ASSUME ~ skip', NEW f \in Shard!File, ~ ToRead(f)' PROVE Spared(f)'
    <2>1. sRows[f] = <<>>
      BY <1>1, <1>3, CandidatesAreFiles DEF ToRead
    <2>2. Shard!Parsed(<<>>) = {}
      BY DEF Shard!Parsed
    <2>3. Shard!Counts(f)' = {}
      BY <1>1, <2>1, <2>2 DEF Shard!Counts
    <2> QED
      BY <2>3 DEF Spared
  <1> QED
    BY <1>1, <1>2, <1>3 DEF ReadInv

(* A file that has been read: its rows are noted, in either way.           *)
LEMMA ReadingNotes ==
  ASSUME ShardInv, ReadInv, Shard!Validate \/ Shard!Sanitize \/ Shard!Replace
  PROVE  ReadInv'
  <1>1. /\ todo # <<>> /\ Head(todo) \in Shard!File /\ ShardTypes
        /\ UNCHANGED <<prior, pool, resume, skip>> /\ done \subseteq done'
        /\ sPc # "down" /\ sPc' # "work"
    BY HeadAndTail DEF ShardInv, Shard!Validate, Shard!Sanitize, Shard!Replace, Shard!Reading,
       Shard!NextFile, Shard!disk, Shard!flags
  <1> PICK f \in Shard!File : f = Head(todo)
    BY <1>1
  <1> DEFINE s == sRows[f]
  <1>2. s \in Seq(ShardRow) /\ Shard!Range(s) = {s[i] : i \in DOMAIN s} /\ Shard!Parsed(s) \subseteq Shard!Range(s)
    <2>1. s \in Seq(ShardRow) /\ Tidy(s)
      BY <1>1 DEF ShardTypes, RowsInOrder
    <2> QED
      BY <2>1, ParsedOfTidy
  <1>3. CASE todo' = todo /\ sRows' = sRows
    <2>1. ASSUME NEW g \in Shard!File PROVE ToRead(g)' <=> ToRead(g)
      BY <1>3 DEF ToRead
    <2> QED
      BY <1>1, <1>3, <2>1, ReadOn
  <1>4. CASE todo' = Tail(todo) /\ \A g \in Shard!File \ {f} : sRows'[g] = sRows[g]
    <2>1. Spared(f)'
      <3>1. CASE Shard!Validate
        <4>1. /\ sRows' = sRows /\ pool' /\ pool /\ done' = done \cup Shard!Validated(f)
          BY <3>1 DEF Shard!Validate, Shard!file, Shard!flags
        <4>2. Shard!Counts(f)' = Shard!Counts(f)
          BY <1>1, <4>1 DEF Shard!Counts, Shard!HeaderRejects
        <4>3. ASSUME NEW r \in Shard!Counts(f), Shard!Compatible(r) PROVE r.uid \in Shard!Validated(f)
          BY <4>1, <4>3 DEF Shard!Counts, Shard!Validated, Shard!Uids
        <4> QED
          BY <4>1, <4>2, <4>3 DEF Spared
      <3>2. CASE Shard!Sanitize \/ Shard!Replace
        <4>1. done' = done \cup Shard!Uids(Shard!Range(s))
          BY <1>1, <1>4, <3>2 DEF Shard!Sanitize, Shard!Replace, Shard!file, Shard!NextFile
        <4>2. Shard!Counts(f)' \subseteq Shard!Range(s)
          <5>1. Shard!Parsed(sRows'[f]) \subseteq Shard!Range(s)
            <6>1. CASE Shard!Sanitize
              BY <1>2, <6>1 DEF Shard!Sanitize
            <6>2. CASE Shard!Replace
              <7>1. sRows'[f] = Shard!Accepted(s)
                BY <1>1, <6>2 DEF Shard!Replace, Shard!file, ShardTypes, RowsInOrder
              <7>2. Shard!Parsed(Shard!Accepted(s)) \subseteq Shard!Range(Shard!Accepted(s))
                BY DEF Shard!Parsed, Shard!Range
              <7> QED
                BY <1>2, <7>1, <7>2, AcceptedFacts
            <6> QED
              BY <3>2, <6>1, <6>2
          <5> QED
            BY <5>1 DEF Shard!Counts
        <4> QED
          BY <4>1, <4>2 DEF Spared, Shard!Uids
      <3> QED
        BY <3>1, <3>2
    <2>2. ASSUME NEW g \in Shard!File \ {f} PROVE ToRead(g)' \/ (~ ToRead(g) /\ sRows'[g] = sRows[g])
      BY <1>1, <1>4, OthersToRead
    <2> QED
      BY <1>1, <2>1, <2>2, ReadOn
  <1> QED
    BY <1>1, <1>3, <1>4 DEF Shard!Validate, Shard!Sanitize, Shard!Replace, Shard!NextFile, Shard!file,
       ShardTypes, RowsInOrder

(* A file that is being read may change, the others do not.                *)
LEMMA ReadingChanges ==
  ASSUME ShardInv, ReadInv,
         Shard!Repair \/ Shard!Examine \/ Shard!Backup \/ Shard!WriteReviewed \/ Shard!Quarantine
  PROVE  ReadInv'
  <1>1. /\ todo # <<>> /\ todo' = todo /\ ShardTypes
        /\ UNCHANGED <<prior, pool, resume, skip, done>>
        /\ sPc # "down" /\ sPc' # "work"
        /\ \A g \in Shard!File \ {Head(todo)} : sRows'[g] = sRows[g]
    BY DEF ShardInv, Shard!Repair, Shard!Examine, Shard!Backup, Shard!WriteReviewed, Shard!Quarantine,
       Shard!Reading, Shard!disk, Shard!flags, Shard!file, ShardTypes, RowsInOrder
  <1>2. ToRead(Head(todo))'
    BY <1>1, HeadIsToRead
  <1>3. ASSUME NEW g \in Shard!File PROVE ToRead(g)' <=> ToRead(g)
    BY <1>1 DEF ToRead
  <1> QED
    BY <1>1, <1>2, <1>3, ReadOn

(* A row that is written notes its episode.                                *)
LEMMA WritingNotes ==
  ASSUME Shard!JsonlShardAssumption, ShardInv, ReadInv, NEW u \in Uid,
         Shard!CommitFile(u) \/ Shard!AppendBegins(u) \/ Shard!AppendEnds(u)
  PROVE  ReadInv'
  <1>1. /\ todo = <<>> /\ todo' = todo /\ UNCHANGED <<prior, pool, resume, skip>> /\ done \subseteq done'
        /\ sPc = "work" /\ ShardTypes
    BY DEF ShardInv, ReadInv, Shard!CommitFile, Shard!AppendBegins, Shard!AppendEnds, Shard!Committed,
       Shard!disk, Shard!flags
  <1>2. \A g \in Shard!File : ~ ToRead(g)
    BY <1>1 DEF ToRead
  <1>3. /\ Shard!Fresh(u) \in ShardRow /\ Shard!Fresh(u).uid = u /\ Shard!Fresh(u).kind = "current"
    BY FreshFacts
  <1>4. PICK f \in Shard!File :
          /\ \A g \in Shard!File \ {f} : sRows'[g] = sRows[g]
          /\ f # "append" => Shard!Parsed(sRows'[f]) \subseteq {Shard!Fresh(u)} /\ u \in done'
          /\ \A r \in Shard!Parsed(sRows'[f]) :
               r \in Shard!Parsed(sRows[f]) \/ (r = Shard!Fresh(u) /\ u \in done')
    <2>1. CASE Shard!CommitFile(u)
      <3> DEFINE t == <<Shard!Fresh(u)>>
      <3>1. u \in Shard!File /\ sRows' = [sRows EXCEPT ![u] = t] /\ u \in done'
        BY <2>1 DEF Shard!CommitFile, Shard!Committed, Shard!File
      <3>2. sRows'[u] = t /\ \A g \in Shard!File \ {u} : sRows'[g] = sRows[g]
        BY <1>1, <3>1 DEF ShardTypes, RowsInOrder
      <3>3. Shard!Parsed(t) \subseteq {Shard!Fresh(u)}
        BY DEF Shard!Parsed
      <3> QED
        BY <3>1, <3>2, <3>3
    <2>2. CASE Shard!AppendBegins(u) \/ Shard!AppendEnds(u)
      <3> DEFINE s == sRows["append"]
      <3>1. PICK r \in ShardRow, w \in Seq(ShardRow) :
              /\ \A i \in DOMAIN w : w[i].kind # "partial"
              /\ Shard!Parsed(w) = Shard!Parsed(s)
              /\ sRows' = [sRows EXCEPT !["append"] = Append(w, r)]
              /\ \/ r.kind = "partial" /\ sAcked' = sAcked
                 \/ r = Shard!Fresh(u) /\ sAcked' = sAcked \cup {r}
        BY <2>2, LineAppended
      <3>2. Shard!Parsed(Append(w, r)) \subseteq Shard!Parsed(s) \cup (IF r.kind = "partial" THEN {} ELSE {r})
        BY <3>1, AppendFacts
      <3>3. /\ "append" \in Shard!File /\ sRows'["append"] = Append(w, r)
            /\ \A g \in Shard!File \ {"append"} : sRows'[g] = sRows[g]
        BY <1>1, <3>1 DEF ShardTypes, RowsInOrder, Shard!File
      <3>4. ASSUME r.kind # "partial" PROVE r = Shard!Fresh(u) /\ u \in done'
        <4>1. r = Shard!Fresh(u) /\ sAcked' = sAcked \cup {r}
          BY <3>1, <3>4
        <4>2. r.id \in Nat /\ \A q \in sAcked : r.id > q.id
          BY <4>1, FreshFacts DEF ShardRow
        <4>3. sAcked' # sAcked
          BY <4>1, <4>2
        <4> QED
          BY <2>2, <4>1, <4>3 DEF Shard!AppendBegins, Shard!AppendEnds, Shard!Committed
      <3>5. ASSUME NEW q \in Shard!Parsed(sRows'["append"])
            PROVE  q \in Shard!Parsed(s) \/ (q = Shard!Fresh(u) /\ u \in done')
        BY <3>2, <3>3, <3>4
      <3> QED
        BY <3>3, <3>5
    <2> QED
      BY <2>1, <2>2
  <1>5. ASSUME NEW g \in Shard!File PROVE sRows'[g] = sRows[g] \/ skip \/ Spared(g)'
    <2>1. CASE g = f /\ ~ skip
      <3>1. Spared(f)
        BY <1>1, <1>2, <2>1 DEF ReadInv
      <3>2. ASSUME NEW r \in Shard!Counts(f)', Shard!Compatible(r) PROVE r.uid \in done'
        <4>1. r \in Shard!Parsed(sRows'[f])
          BY <3>2 DEF Shard!Counts
        <4>2. CASE r = Shard!Fresh(u) /\ u \in done'
          BY <1>3, <4>2
        <4>3. CASE f = "append" /\ r \in Shard!Parsed(sRows[f])
          <5>1. r \in Shard!Counts(f)
            BY <1>1, <3>2, <4>3 DEF Shard!Counts, Shard!HeaderRejects
          <5> QED
            BY <1>1, <3>1, <3>2, <5>1 DEF Spared
        <4>4. CASE f # "append" /\ r \in Shard!Parsed(sRows[f])
          <5>1. r = Shard!Fresh(u)
            BY <1>4, <4>1, <4>4
          <5> QED
            BY <1>3, <1>4, <4>4, <5>1
        <4> QED
          BY <1>4, <4>1, <4>2, <4>3, <4>4
      <3> QED
        BY <2>1, <3>2 DEF Spared
    <2> QED
      BY <1>4, <2>1
  <1>6. CASE skip
    BY <1>1, <1>6 DEF ReadInv, PriorSpared
  <1> QED
    BY <1>1, <1>2, <1>5, <1>6, ReadOn

(* Every step keeps the invariant of the reading.                          *)
LEMMA ReadStep ==
  ASSUME Shard!JsonlShardAssumption, ShardInv, ReadInv, [Shard!Next]_(Shard!vars)
  PROVE  ReadInv'
  <1>1. CASE Shard!Crash \/ Shard!Finish
    BY <1>1 DEF Shard!Crash, Shard!Finish, Shard!Forget, ReadInv
  <1>2. ASSUME sPc # "down", UNCHANGED <<sRows, prior, pool, resume, skip, todo, done>>,
               sPc' = "work" => todo' = <<>>
        PROVE  ReadInv'
    <2>1. ASSUME NEW g \in Shard!File PROVE ToRead(g)' <=> ToRead(g)
      BY <1>2 DEF ToRead
    <2> QED
      BY <1>2, <2>1, ReadOn
  <1>3. CASE Shard!Open
    BY <1>2, <1>3 DEF Shard!Open, Shard!disk, Shard!flags
  <1>4. ASSUME NEW u \in Uid, Shard!Annotate(u) \/ Shard!Fail(u)
        PROVE  ReadInv'
    BY <1>2, <1>4 DEF Shard!Annotate, Shard!Fail, Shard!disk, Shard!flags, ReadInv
  <1>5. CASE UNCHANGED Shard!vars
    <2>1. CASE sPc = "down"
      BY <1>5, <2>1 DEF Shard!vars, ReadInv
    <2> QED
      BY <1>2, <1>5, <2>1 DEF Shard!vars, Shard!disk, Shard!flags, ReadInv
  <1> QED
    BY <1>1, <1>3, <1>4, <1>5, StartReads, ReadingNotes, ReadingChanges, WritingNotes DEF Shard!Next

(* An episode is not annotated, and paid, again if a file that the run has *)
(* read, or a resume output, has a row for it that counts.                 *)
THEOREM AnnotatedOnce == ASSUME Shard!JsonlShardAssumption PROVE Shard!Spec => NotPaidAgain
  <1>1. Shard!Init => ReadInv
    BY DEF Shard!Init, ReadInv
  <1>2. ShardInv /\ ReadInv /\ [Shard!Next]_(Shard!vars) => ReadInv'
    BY ReadStep
  <1>3. ASSUME ShardInv, ReadInv, [Shard!Next]_(Shard!vars)
        PROVE  [(asking' \ asking) \cap Shard!Known = {}]_(Shard!vars)
    <2>1. SUFFICES ASSUME NEW v \in asking' \ asking, v \in Shard!Known PROVE FALSE
      OBVIOUS
    <2>2. PICK u \in Uid : Shard!Annotate(u)
      BY <1>3, <2>1 DEF Shard!Next, Shard!vars, Shard!Start, Shard!Crash, Shard!Repair, Shard!Validate,
         Shard!Examine, Shard!Backup, Shard!WriteReviewed, Shard!Sanitize, Shard!Quarantine, Shard!Replace,
         Shard!Open, Shard!Finish, Shard!Forget, Shard!Fail, Shard!CommitFile, Shard!AppendBegins,
         Shard!AppendEnds, Shard!Committed
    <2>3. v \notin done /\ sPc = "work" /\ todo = <<>>
      BY <1>3, <2>1, <2>2 DEF Shard!Annotate, ReadInv
    <2>4. CASE ~ skip /\ v \in Shard!Uids(UNION {Shard!Counts(f) : f \in Shard!File})
      <3>1. PICK f \in Shard!File : \E r \in Shard!Counts(f) : Shard!Compatible(r) /\ r.uid = v
        BY <2>4 DEF Shard!Uids
      <3> QED
        BY <1>3, <2>3, <2>4, <3>1 DEF ReadInv, ToRead, Spared
    <2>5. CASE resume /\ v \in Shard!Uids(prior)
      BY <1>3, <2>3, <2>5 DEF ReadInv, PriorSpared, Shard!Uids
    <2> QED
      BY <2>1, <2>4, <2>5 DEF Shard!Known, Shard!Uids
  <1> QED
    BY <1>1, <1>2, <1>3, ShardInvariant, PTL DEF Shard!Spec, NotPaidAgain, Shard!NotPaidAgain
=============================================================================
