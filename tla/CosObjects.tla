----------------------------- MODULE CosObjects -----------------------------
(***************************************************************************)
(* CosImagePublisher and CosVideoPublisher of scripts/cos_ecot_images.py:  *)
(* every upload is an object of its own in a bucket, listed in a manifest  *)
(* file from before it is sent until after it is deleted, and leased by    *)
(* its reference.  The reapers of all processes that share the manifests   *)
(* delete what is listed and not leased.                                   *)
(***************************************************************************)
EXTENDS Naturals, FiniteSets

CONSTANTS Object,
          Reaper,   \* the cleanup threads, one in each process
          ReaperOf, \* object -> the reaper of the process that uploads it
          MaxFaults \* failed uploads and deletions, and crashes

CosObjectsAssumption == ReaperOf \in [Object -> Reaper] /\ MaxFaults \in Nat

VARIABLES pc,       \* object: "idle", "leased", "listed", "open" or "closed"
          reaping,  \* reaper -> object -> "idle", "found", "claimed" or "deleted"
          manifest, \* objects with a manifest file
          bucket,   \* objects in the bucket
          faults

vars == <<pc, reaping, manifest, bucket, faults>>

Init ==
  /\ pc = [o \in Object |-> "idle"]
  /\ reaping = [p \in Reaper |-> [o \in Object |-> "idle"]]
  /\ manifest = {} /\ bucket = {} /\ faults = 0

Fault == faults < MaxFaults /\ faults' = faults + 1
Goto(o, where) == pc' = [pc EXCEPT ![o] = where]
ReaperAt(p, o, where) == reaping' = [reaping EXCEPT ![p][o] = where]

Leased(o) == \/ pc[o] \in {"leased", "listed", "open"}
             \/ \E p \in Reaper : reaping[p][o] \in {"claimed", "deleted"}

----------------------------------------------------------------------------
(* published_bytes and publish.                                            *)
Acquire(o) ==
  /\ pc[o] = "idle" /\ Goto(o, "leased") /\ UNCHANGED <<reaping, manifest, bucket, faults>>

(* What the manifests list after the manifest of o was due.                *)
ListedLate(o) == manifest
Listed(o) == manifest \cup {o}

List(o) ==
  /\ pc[o] = "leased" /\ manifest' = Listed(o) /\ Goto(o, "listed")
  /\ UNCHANGED <<reaping, bucket, faults>>

Send(o) ==
  /\ pc[o] = "listed" /\ bucket' = bucket \cup {o} /\ Goto(o, "open")
  /\ UNCHANGED <<reaping, manifest, faults>>

(* The upload fails, or only its answer is lost.                           *)
SendFails(o) ==
  /\ pc[o] = "listed" /\ Fault /\ bucket' \in {bucket, bucket \cup {o}} /\ Goto(o, "closed")
  /\ UNCHANGED <<reaping, manifest>>

(* The request is over, or the provider was stopped before the upload.     *)
Close(o) ==
  /\ pc[o] \in {"leased", "listed", "open"} /\ Goto(o, "closed")
  /\ UNCHANGED <<reaping, manifest, bucket, faults>>

----------------------------------------------------------------------------
(* reap_pending and delete_owned: a listed object is claimed unless it is  *)
(* leased, and is still listed when it is deleted.                         *)
Find(p, o) ==
  /\ reaping[p][o] = "idle" /\ o \in manifest /\ ReaperAt(p, o, "found")
  /\ UNCHANGED <<pc, manifest, bucket, faults>>

Claim(p, o) ==
  /\ reaping[p][o] = "found" /\ ReaperAt(p, o, IF Leased(o) THEN "idle" ELSE "claimed")
  /\ UNCHANGED <<pc, manifest, bucket, faults>>

Delete(p, o) ==
  /\ reaping[p][o] = "claimed"
  /\ IF o \in manifest THEN bucket' = bucket \ {o} /\ ReaperAt(p, o, "deleted")
                       ELSE UNCHANGED bucket /\ ReaperAt(p, o, "idle")
  /\ UNCHANGED <<pc, manifest, faults>>

DeleteFails(p, o) ==
  /\ reaping[p][o] = "claimed" /\ o \in manifest /\ Fault
  /\ bucket' \in {bucket, bucket \ {o}} /\ ReaperAt(p, o, "idle")
  /\ UNCHANGED <<pc, manifest>>

Unlist(p, o) ==
  /\ reaping[p][o] = "deleted" /\ manifest' = manifest \ {o} /\ ReaperAt(p, o, "idle")
  /\ UNCHANGED <<pc, bucket, faults>>

(* A process dies and is launched again: its leases are free.              *)
Crash(p) ==
  /\ Fault
  /\ pc' = [o \in Object |-> IF ReaperOf[o] = p /\ pc[o] # "idle" THEN "closed" ELSE pc[o]]
  /\ reaping' = [reaping EXCEPT ![p] = [o \in Object |-> "idle"]]
  /\ UNCHANGED <<manifest, bucket>>

----------------------------------------------------------------------------
Publish(o) == Acquire(o) \/ List(o) \/ Send(o) \/ SendFails(o) \/ Close(o)
Reap(p, o) == Find(p, o) \/ Claim(p, o) \/ Delete(p, o) \/ DeleteFails(p, o) \/ Unlist(p, o)
Sleep == manifest = {} /\ UNCHANGED vars

Next == \/ \E o \in Object : Publish(o) \/ \E p \in Reaper : Reap(p, o)
        \/ (\E p \in Reaper : Crash(p)) \/ Sleep

Spec == Init /\ [][Next]_vars

(* References are closed when their request ends; the reapers are woken    *)
(* and look at everything within a few rounds.                             *)
Fairness == /\ \A o \in Object : WF_vars(Close(o))
            /\ \A p \in Reaper, o \in Object : WF_vars(Reap(p, o))
FairSpec == Spec /\ Fairness

----------------------------------------------------------------------------
(* The types of the variables.                                             *)
TypeOK ==
  /\ pc \in [Object -> {"idle", "leased", "listed", "open", "closed"}]
  /\ reaping \in [Reaper -> [Object -> {"idle", "found", "claimed", "deleted"}]]
  /\ manifest \subseteq Object /\ bucket \subseteq Object /\ faults \in 0 .. MaxFaults

(* A signed URL that is in use leads to an object, whatever the reapers of *)
(* other processes do.                                                     *)
OpenIsThere == \A o \in Object : pc[o] = "open" => o \in bucket

(* "The durable manifest already makes this object recoverable by the      *)
(* cleanup reaper": every object goes in the end, after failures and after *)
(* the death of the process that uploaded it.                              *)
ObjectGoes(o) == o \in bucket ~> o \notin bucket
=============================================================================
