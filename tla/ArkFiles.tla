------------------------------ MODULE ArkFiles ------------------------------
(***************************************************************************)
(* ArkFilePublisher and ArkFileReference of scripts/ark_file_transport.py: *)
(* media of one content that several requests of several processes share.  *)
(* The content has one record file, one lease file that its references     *)
(* hold shared and whoever deletes it holds exclusively, one lock file for *)
(* uploads, and one marker file for a cleanup that was missed.             *)
(*                                                                         *)
(* Uploads are numbered; 0 is no upload.  A marker is known by the         *)
(* reference that wrote it: each writes at most one.                       *)
(***************************************************************************)
EXTENDS Naturals, FiniteSets

CONSTANTS Reference,
          Reaper,      \* the cleanup threads, one in each process
          ReaperOf,    \* reference -> the reaper of its process
          MaxUploads,
          MaxFaults    \* lost uploads, failed deletions and crashes

ArkFilesAssumption ==
  /\ ReaperOf \in [Reference -> Reaper] /\ Reference \cap Reaper = {}
  /\ MaxUploads \in Nat /\ MaxFaults \in Nat

VARIABLES pc,      \* reference: "idle", "leased", "resolving", "uploading", "processing",
                   \* "open", "closing", "erasing", "erased", "deferring" or "closed";
                   \* reaper: "idle", "closing", "erasing", "erased", "judging",
                   \* "comparing" or "unlinking"
          held,    \* reference -> the upload it gives to requests
          file,    \* upload -> its file at the provider
          old,     \* uploads with less than 15 minutes to live
          record,  \* the upload in the record file
          erased,  \* the record says "deleted"
          marker,  \* {} or the marker in the file
          seen,    \* reaper -> the marker it read
          lost,    \* uploads whose answer was not heard
          faults,
          crashed,   \* a process died
          overtaken  \* a marker was unlinked that its reaper had not read

cache == <<record, erased>>
provider == <<file, old, lost>>
history == <<crashed, overtaken>>
vars == <<pc, held, provider, cache, marker, seen, faults, history>>

Actor == Reference \cup Reaper
Upload == 1 .. MaxUploads
Live(u) == file[u] \in {"processing", "active", "failed"}
LeaseSharedToResolve == \E r \in Reference :
                          pc[r] \in {"leased", "resolving", "uploading", "processing"}
LeaseShared == \E r \in Reference :
                 pc[r] \in {"leased", "resolving", "uploading", "processing", "open"}
LeaseExclusive == \E a \in Actor : pc[a] \in {"erasing", "erased"}
UploadLocked == \E r \in Reference : pc[r] \in {"resolving", "uploading", "processing"}

Init ==
  /\ pc = [a \in Actor |-> "idle"] /\ held = [r \in Reference |-> 0]
  /\ file = [u \in Upload |-> "none"] /\ old = {} /\ lost = {}
  /\ record = 0 /\ erased = FALSE /\ marker = {}
  /\ seen = [p \in Reaper |-> {}]
  /\ faults = 0 /\ crashed = FALSE /\ overtaken = FALSE

Goto(a, where) == pc' = [pc EXCEPT ![a] = where]
Fault == faults < MaxFaults /\ faults' = faults + 1

----------------------------------------------------------------------------
(* A reference leases the content before it looks for the record.          *)
Acquire(r) ==
  /\ pc[r] = "idle" /\ ~ LeaseExclusive /\ Goto(r, "leased")
  /\ UNCHANGED <<held, provider, cache, marker, seen, faults, history>>

Lock(r) ==
  /\ pc[r] = "leased" /\ ~ UploadLocked /\ Goto(r, "resolving")
  /\ UNCHANGED <<held, provider, cache, marker, seen, faults, history>>

Trusted == record # 0 /\ ~ erased /\ record \notin old

Reuse(r) ==
  /\ pc[r] = "resolving" /\ Trusted /\ file[record] = "active"
  /\ held' = [held EXCEPT ![r] = record] /\ Goto(r, "open")
  /\ UNCHANGED <<provider, cache, marker, seen, faults, history>>

(* The recorded file is being processed, or was and failed; or there is    *)
(* none that can be used.                                                  *)
Look(r) ==
  /\ pc[r] = "resolving"
  /\ IF Trusted /\ Live(record)
     THEN file[record] # "active" /\ Goto(r, "processing")
     ELSE Goto(r, "uploading")
  /\ UNCHANGED <<held, provider, cache, marker, seen, faults, history>>

IsNext(u) == file[u] = "none" /\ \A v \in Upload : v < u => file[v] # "none"

Send(r) ==
  /\ pc[r] = "uploading"
  /\ \E u \in Upload : /\ IsNext(u) /\ file' = [file EXCEPT ![u] = "processing"]
                       /\ record' = u
  /\ erased' = FALSE /\ Goto(r, "processing")
  /\ UNCHANGED <<held, old, lost, marker, seen, faults, history>>

LoseSend(r) ==
  /\ pc[r] = "uploading" /\ Fault
  /\ \E u \in Upload : /\ IsNext(u) /\ file' = [file EXCEPT ![u] = "processing"]
                       /\ lost' = lost \cup {u}
  /\ Goto(r, "closing") /\ UNCHANGED <<held, old, cache, marker, seen, history>>

Ready(r) ==
  /\ pc[r] = "processing" /\ file[record] = "active" /\ record \notin old
  /\ held' = [held EXCEPT ![r] = record] /\ Goto(r, "open")
  /\ UNCHANGED <<provider, cache, marker, seen, faults, history>>

(* A provider that stopped, an answer that is an error, a file that failed *)
(* or took too long: the reference is closed.                              *)
Fail(r) ==
  /\ pc[r] \in {"leased", "resolving", "uploading", "processing"} /\ Goto(r, "closing")
  /\ UNCHANGED <<held, provider, cache, marker, seen, faults, history>>

(* A later request resolves the reference again.                           *)
Refresh(r) ==
  /\ pc[r] = "open" /\ held[r] \in old /\ Goto(r, "leased")
  /\ UNCHANGED <<held, provider, cache, marker, seen, faults, history>>

Close(r) ==
  /\ pc[r] = "open" /\ Goto(r, "closing")
  /\ UNCHANGED <<held, provider, cache, marker, seen, faults, history>>

----------------------------------------------------------------------------
(* delete_unused, by a reference that closes and by a reaper.              *)
MissedSilently(a) == IF a \in Reference THEN "closed" ELSE "judging"
Missed(a) == IF a \in Reference THEN "deferring" ELSE "judging"

Claim(a) ==
  /\ pc[a] = "closing"
  /\ Goto(a, IF LeaseShared \/ LeaseExclusive THEN Missed(a) ELSE "erasing")
  /\ UNCHANGED <<held, provider, cache, marker, seen, faults, history>>

NothingToErase(a) ==
  /\ pc[a] = "erasing" /\ (record = 0 \/ erased) /\ Goto(a, Missed(a))
  /\ UNCHANGED <<held, provider, cache, marker, seen, faults, history>>

Erase(a) ==
  /\ pc[a] = "erasing" /\ record # 0 /\ ~ erased
  /\ file' = [file EXCEPT ![record] = "deleted"] /\ Goto(a, "erased")
  /\ UNCHANGED <<held, old, lost, cache, marker, seen, faults, history>>

EraseFails(a) ==
  /\ pc[a] = "erasing" /\ record # 0 /\ ~ erased /\ Fault
  /\ file' \in {file, [file EXCEPT ![record] = "deleted"]} /\ Goto(a, Missed(a))
  /\ UNCHANGED <<held, old, lost, cache, marker, seen, history>>

Record(a) ==
  /\ pc[a] = "erased" /\ erased' = TRUE
  /\ Goto(a, IF a \in Reference THEN "closed" ELSE "comparing")
  /\ UNCHANGED <<held, provider, record, marker, seen, faults, history>>

(* defer_cleanup.                                                          *)
Defer(r) ==
  /\ pc[r] = "deferring" /\ marker' = {r} /\ Goto(r, "closed")
  /\ UNCHANGED <<held, provider, cache, seen, faults, history>>

----------------------------------------------------------------------------
(* reap_pending.                                                           *)
ReadMarker(p) ==
  /\ pc[p] = "idle" /\ marker # {} /\ seen' = [seen EXCEPT ![p] = marker]
  /\ Goto(p, "closing")
  /\ UNCHANGED <<held, provider, cache, marker, faults, history>>

Judge(p) ==
  /\ pc[p] = "judging"
  /\ Goto(p, IF record = 0 \/ erased THEN "comparing" ELSE "idle")
  /\ UNCHANGED <<held, provider, cache, marker, seen, faults, history>>

Compare(p) ==
  /\ pc[p] = "comparing" /\ Goto(p, IF marker = seen[p] THEN "unlinking" ELSE "idle")
  /\ UNCHANGED <<held, provider, cache, marker, seen, faults, history>>

(* The reaper finds nothing.                                               *)
Sleep(p) == pc[p] = "idle" /\ marker = {} /\ UNCHANGED vars

Unlink(p) ==
  /\ pc[p] = "unlinking" /\ marker' = {} /\ Goto(p, "idle")
  /\ overtaken' = (overtaken \/ marker \notin {{}, seen[p]})
  /\ UNCHANGED <<held, provider, cache, seen, faults, crashed>>

----------------------------------------------------------------------------
(* The provider processes files, and forgets them when their time is up.   *)
Process(u) ==
  /\ file[u] = "processing"
  /\ file' \in {[file EXCEPT ![u] = "active"], [file EXCEPT ![u] = "failed"]}
  /\ UNCHANGED <<pc, held, old, lost, cache, marker, seen, faults, history>>

Age(u) ==
  /\ file[u] = "active" /\ u \notin old /\ old' = old \cup {u}
  /\ UNCHANGED <<pc, held, file, lost, cache, marker, seen, faults, history>>

(* Requests are over before a file expires: they take it 15 minutes early. *)
Expire(u) ==
  /\ u \in old /\ Live(u) /\ \A r \in Reference : pc[r] = "open" => held[r] # u
  /\ file' = [file EXCEPT ![u] = "gone"]
  /\ UNCHANGED <<pc, held, old, lost, cache, marker, seen, faults, history>>

(* A process dies and is launched again: its locks are free, its           *)
(* references are not closed.                                              *)
Crash(p) ==
  /\ Fault /\ crashed' = TRUE
  /\ pc' = [a \in Actor |-> IF a = p THEN "idle"
                            ELSE IF a \in Reference /\ pc[a] # "idle" /\ ReaperOf[a] = p
                                 THEN "closed" ELSE pc[a]]
  /\ UNCHANGED <<held, provider, cache, marker, seen, overtaken>>

----------------------------------------------------------------------------
Resolve(r) == \/ Lock(r) \/ Reuse(r) \/ Look(r) \/ Send(r) \/ LoseSend(r) \/ Ready(r) \/ Fail(r)
CleanUp(a) == \/ Claim(a) \/ NothingToErase(a) \/ Erase(a) \/ EraseFails(a) \/ Record(a)
Use(r) == Resolve(r) \/ Refresh(r) \/ Close(r) \/ CleanUp(r) \/ Defer(r)
Reap(p) == ReadMarker(p) \/ CleanUp(p) \/ Judge(p) \/ Compare(p) \/ Unlink(p)

Next == \/ \E r \in Reference : Acquire(r) \/ Use(r)
        \/ \E p \in Reaper : Reap(p) \/ Sleep(p) \/ Crash(p)
        \/ \E u \in Upload : Process(u) \/ Age(u) \/ Expire(u)

Spec == Init /\ [][Next]_vars

----------------------------------------------------------------------------
(* The types of the variables.                                             *)
ReferenceState == {"idle", "leased", "resolving", "uploading", "processing", "open",
                   "closing", "erasing", "erased", "deferring", "closed"}
ReaperState == {"idle", "closing", "erasing", "erased", "judging", "comparing", "unlinking"}

TypeOK ==
  /\ pc \in [Actor -> ReferenceState \cup ReaperState]
  /\ \A r \in Reference : pc[r] \in ReferenceState
  /\ \A p \in Reaper : pc[p] \in ReaperState
  /\ held \in [Reference -> 0 .. MaxUploads] /\ record \in 0 .. MaxUploads
  /\ file \in [Upload -> {"none", "processing", "active", "failed", "deleted", "gone"}]
  /\ old \subseteq Upload /\ lost \subseteq Upload /\ erased \in BOOLEAN
  /\ marker \subseteq Reference /\ seen \in [Reaper -> SUBSET Reference]
  /\ faults \in 0 .. MaxFaults /\ crashed \in BOOLEAN /\ overtaken \in BOOLEAN

(* "Delete only this cache's unleased temporary file": what a reference    *)
(* gives to its requests is never deleted by the cleanup of another        *)
(* request or process.                                                     *)
LeaseProtects == \A r \in Reference : pc[r] = "open" => file[held[r]] # "deleted"

(* "Persist a missed cleanup so a transient lease never becomes a leak":   *)
(* when the last reference is closed, and no process died, either the file *)
(* is deleted or a marker tells the reapers to.                            *)
NoLeak ==
  ~ crashed /\ record # 0 /\ ~ erased /\ Live(record)
  /\ (\A r \in Reference : pc[r] \in {"idle", "closed"})
    => marker # {}

(* The same, but for the marker of a reference that closed between a       *)
(* reaper's last look at the marker and its removal.                       *)
NoOtherLeak == overtaken \/ NoLeak
=============================================================================
