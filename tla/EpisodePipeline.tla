--------------------------- MODULE EpisodePipeline ---------------------------
(***************************************************************************)
(* scripts/stage_pipeline.py under process_batch and                       *)
(* annotate_source_with_retries of scripts/annotate_videos.py: one lane    *)
(* per task annotates the episodes of a batch.  The lanes share the        *)
(* prepared media of an episode through counted leases.  An episode is     *)
(* annotated frame by frame; every answered frame is a unit of the job's   *)
(* checkpoint, and the units are cleared when the final record is durable. *)
(*                                                                         *)
(* A job is an episode in a lane.  Requests, media and publications may    *)
(* fail, the provider may end the run, and the process may crash: then the *)
(* units and final records remain, and the run starts again.               *)
(***************************************************************************)
EXTENDS Integers, FiniteSets

CONSTANTS Lane,       \* tasks
          Packed,     \* lanes that save their frames in one put_many: {"ecot"}
          Uid,        \* episodes of the batch
          Frame,      \* frames requested for an episode
          KeyOf,      \* lane -> frame -> its unit
          Workers, Prefetch, Preparers, MaxPending, \* limits of the pipeline
          Clips,      \* slots of the MediaPrefetchPool
          Attempts,   \* record_attempts
          MaxFaults, MaxCrashes \* bounds of the instance

ASSUME EpisodeAssumption ==
  /\ Packed \subseteq Lane
  /\ \A n \in {Workers, Prefetch, Preparers, Clips, Attempts} : n \in Nat \ {0}
  /\ IsFiniteSet(Lane) /\ IsFiniteSet(Uid) /\ MaxFaults \in Nat /\ MaxCrashes \in Nat

Job == Lane \X Uid
LaneOf(j) == j[1]
UidOf(j) == j[2]
Entry == 1 .. Cardinality(Lane) \* resource entries of one key that can coexist
Key == UNION {{KeyOf[l][f] : f \in Frame} : l \in Lane}
Answer == Frame \X (1 .. Attempts)
None == <<>>

VARIABLES
  lane,      \* lane -> "pass", "rest", "ended", "raised"
  stopped,   \* a lane has raised
  fatal,     \* the provider's stop file exists
  closed,    \* the pipeline admits no more jobs
  indexed,   \* episodes whose subtasks the upstream has published
  sealed,    \* the upstream is complete
  job,       \* job -> where it is, see JobState
  result,    \* job -> "none", "ok", "empty", "error", "fatal"
  entry,     \* uid -> its entry in the table of resources, 0 without
  held,      \* job -> the entry it leases, 0 without
  refs,      \* uid -> entry -> leases
  media,     \* uid -> entry -> state of its context
  attempt,   \* job -> attempt
  frame,     \* job -> frame -> where its thread is
  clips,     \* frames that hold a prefetch slot
  known,     \* job -> key -> unit in the checkpoint object
  unit,      \* job -> key -> unit on disk
  final,     \* job -> final records written
  completed, \* jobs in completed[task] of the batch
  faults, crashes

JobState == {"todo", "backlog", "deferred", "skipped", "leased", "ready", "begin",
             "work", "commit", "written", "release", "cleanup", "over", "reported"}
FrameState == {"idle", "asked", "answered", "locked", "stored", "saved", "failed"}

control == <<lane, stopped, closed>>
world == <<fatal, indexed, sealed>>
leases == <<entry, held, refs, media>>
work == <<attempt, frame, clips, known>>
disk == <<unit, final>>
vars == <<control, world, job, result, leases, work, disk, completed, faults, crashes>>

Pending(l) == {j \in Job : LaneOf(j) = l /\ job[j] \in
                {"leased", "ready", "begin", "work", "commit", "written", "release", "cleanup"}}
Running(l) == {j \in Job : LaneOf(j) = l /\ job[j] \in
                {"begin", "work", "commit", "written", "release", "cleanup"}}

(* process_batch, resume: what is durable is not annotated again.          *)
Fresh(done) == [j \in Job |-> IF j \in done THEN "skipped" ELSE "todo"]
Durable == {j \in Job : final[j] > 0}
Blank == [j \in Job |-> [k \in Key |-> None]]

LaneStart == [l \in Lane |-> "pass"]
NoResult == [j \in Job |-> "none"]
NoFrame == [j \in Job |-> [f \in Frame |-> "idle"]]
Zero(S) == [x \in S |-> 0]
PerEntry(v) == [u \in Uid |-> [e \in Entry |-> v]]

Init ==
  /\ lane = LaneStart /\ stopped = FALSE /\ closed = FALSE
  /\ fatal = FALSE /\ indexed = {} /\ sealed = FALSE
  /\ unit = Blank /\ final = Zero(Job)
  /\ job = Fresh({}) /\ completed = {} /\ result = NoResult
  /\ entry = Zero(Uid) /\ held = Zero(Job)
  /\ refs = PerEntry(0) /\ media = PerEntry("none")
  /\ attempt = Zero(Job) /\ frame = NoFrame /\ clips = {} /\ known = Blank
  /\ faults = 0 /\ crashes = 0

Fault == faults < MaxFaults /\ faults' = faults + 1

(* The process dies and is started again.                                  *)
Crash ==
  /\ crashes < MaxCrashes /\ ~fatal /\ crashes' = crashes + 1
  /\ lane' = LaneStart /\ stopped' = FALSE /\ closed' = FALSE
  /\ job' = Fresh(Durable) /\ completed' = Durable /\ result' = NoResult
  /\ entry' = Zero(Uid) /\ held' = Zero(Job)
  /\ refs' = PerEntry(0) /\ media' = PerEntry("none")
  /\ attempt' = Zero(Job) /\ frame' = NoFrame /\ clips' = {} /\ known' = Blank
  /\ UNCHANGED <<world, disk, faults>>

-----------------------------------------------------------------------------
(* run_prepared_jobs and run_lane: the thread of a lane.                   *)

InPass(l) == lane[l] = "pass" /\ ~stopped /\ ~fatal
Moved(j, state) == job' = [job EXCEPT ![j] = state]

(* ready: ecot needs no subtasks.                                          *)
Prepared(j) == LaneOf(j) \in Packed \/ UidOf(j) \in indexed \/ sealed

Pull(j) ==
  LET l == LaneOf(j)
  IN /\ InPass(l) /\ job[j] = "todo"
     /\ Cardinality(Pending(l) \cup {i \in Job : LaneOf(i) = l /\ job[i] \in {"backlog", "over"}})
          < MaxPending
     /\ Moved(j, IF Prepared(j) THEN "backlog" ELSE "deferred")
     /\ UNCHANGED <<control, world, result, leases, work, disk, completed, faults, crashes>>

(* try_submit: the job joins the entry of its key or creates one.          *)
TrySubmit(j) ==
  LET l == LaneOf(j)
      u == UidOf(j)
      e == IF entry[u] # 0 THEN entry[u]
           ELSE CHOOSE x \in Entry : media[u][x] \in {"none", "closed", "failed"} /\ refs[u][x] = 0
  IN /\ InPass(l) /\ job[j] = "backlog"
     /\ Cardinality(Pending(l)) < Workers + Prefetch
     /\ entry' = [entry EXCEPT ![u] = e]
     /\ held' = [held EXCEPT ![j] = e]
     /\ refs' = [refs EXCEPT ![u][e] = @ + 1]
     /\ media' = [media EXCEPT ![u][e] = IF entry[u] = 0 THEN "queued" ELSE @]
     /\ Moved(j, "leased")
     /\ UNCHANGED <<control, world, result, work, disk, completed, faults, crashes>>

(* finish of process_batch, for a future that is done.  The second commit  *)
(* finds the record written; recovery state goes after a durable result.   *)
Clears(j) == result[j] = "ok"

Report(j) ==
  LET l == LaneOf(j)
  IN /\ InPass(l) /\ job[j] = "over"
     /\ Moved(j, "reported")
     /\ IF result[j] = "fatal"
        THEN lane' = [lane EXCEPT ![l] = "raised"] /\ stopped' = TRUE
        ELSE UNCHANGED <<lane, stopped>>
     /\ unit' = IF Clears(j) THEN [unit EXCEPT ![j] = Blank[j]] ELSE unit
     /\ UNCHANGED <<closed, world, result, leases, work, final, completed, faults, crashes>>

Of(l) == {j \in Job : LaneOf(j) = l}

(* Deferred batches are visited again, with their failed records.          *)
NotRevisited(l) == FALSE \* mutant
Deferred(l) == \E j \in Of(l) : job[j] = "deferred"

PassEnds(l) ==
  /\ InPass(l) /\ \A j \in Of(l) : job[j] \in {"reported", "deferred", "skipped"}
  /\ lane' = [lane EXCEPT ![l] = IF Deferred(l) THEN "rest" ELSE "ended"]
  /\ UNCHANGED <<stopped, closed, world, job, result, leases, work, disk, completed,
                 faults, crashes>>

PassBegins(l) ==
  /\ lane[l] = "rest" /\ ~stopped /\ ~fatal
  /\ lane' = [lane EXCEPT ![l] = "pass"]
  /\ completed' = (completed \ Of(l)) \cup (Durable \cap Of(l))
  /\ job' = [j \in Job |-> IF LaneOf(j) = l THEN Fresh(Durable)[j] ELSE job[j]]
  /\ result' = [j \in Job |-> IF LaneOf(j) = l THEN "none" ELSE result[j]]
  /\ UNCHANGED <<stopped, closed, world, leases, work, disk, faults, crashes>>

(* check_pipeline.                                                         *)
LaneRaises(l) ==
  /\ lane[l] \in {"pass", "rest"} /\ (stopped \/ fatal)
  /\ lane' = [lane EXCEPT ![l] = "raised"] /\ stopped' = TRUE
  /\ UNCHANGED <<closed, world, job, result, leases, work, disk, completed, faults, crashes>>

LanesOver == \A l \in Lane : lane[l] \in {"ended", "raised"}

(* StagePipeline.__exit__: preparations not started are cancelled.         *)
Close ==
  /\ LanesOver /\ ~closed /\ closed' = TRUE
  /\ media' = [u \in Uid |-> [e \in Entry |->
                 IF media[u][e] = "queued" THEN "failed" ELSE media[u][e]]]
  /\ UNCHANGED <<lane, stopped, world, job, result, entry, held, refs, work, disk,
                 completed, faults, crashes>>

-----------------------------------------------------------------------------
(* Threads that prepare media, and leases.                                 *)

Preparing == {x \in Uid \X Entry : media[x[1]][x[2]] = "preparing"}

InitializeBegins(u, e) ==
  /\ media[u][e] = "queued" /\ Cardinality(Preparing) < Preparers
  /\ media' = [media EXCEPT ![u][e] = "preparing"]
  /\ UNCHANGED <<control, world, job, result, entry, held, refs, work, disk, completed,
                 faults, crashes>>

(* prepare raises when the run is stopped.                                 *)
InitializeEnds(u, e) ==
  /\ media[u][e] = "preparing"
  /\ \/ ~stopped /\ ~fatal /\ media' = [media EXCEPT ![u][e] = "open"] /\ UNCHANGED faults
     \/ media' = [media EXCEPT ![u][e] = "failed"]
        /\ IF stopped \/ fatal THEN UNCHANGED faults ELSE Fault
  /\ UNCHANGED <<control, world, job, result, entry, held, refs, work, disk, completed, crashes>>

MediaOf(j) == IF held[j] = 0 THEN "none" ELSE media[UidOf(j)][held[j]]

(* The callback of a lease: the error of a preparation reaches every job.  *)
Succeeded(j) == MediaOf(j) = "open" \* mutant
Over(j) == MediaOf(j) \in {"open", "failed"}

Ready(j) ==
  /\ job[j] = "leased" /\ Over(j)
  /\ IF MediaOf(j) = "open" THEN Moved(j, "ready") /\ UNCHANGED result
     ELSE Moved(j, "release") /\ result' = [result EXCEPT ![j] = "error"]
  /\ UNCHANGED <<control, world, leases, work, disk, completed, faults, crashes>>

(* execute, prepared_downstream: the run may have been stopped.            *)
Execute(j) ==
  /\ job[j] = "ready" /\ Cardinality(Running(LaneOf(j))) < Workers
  /\ IF stopped \/ fatal
     THEN Moved(j, "release") /\ result' = [result EXCEPT ![j] = "error"] /\ UNCHANGED attempt
     ELSE Moved(j, "begin") /\ attempt' = [attempt EXCEPT ![j] = 1] /\ UNCHANGED result
  /\ UNCHANGED <<control, world, leases, frame, clips, known, disk, completed, faults, crashes>>

AnyLease(j) == TRUE \* mutant
LastLease(j) == refs[UidOf(j)][held[j]] = 1

Release(j) ==
  LET u == UidOf(j)
      e == held[j]
      closes == LastLease(j) /\ media[u][e] = "open"
  IN /\ job[j] = "release"
     /\ refs' = [refs EXCEPT ![u][e] = @ - 1]
     /\ entry' = IF LastLease(j) THEN [entry EXCEPT ![u] = 0] ELSE entry
     /\ media' = IF closes THEN [media EXCEPT ![u][e] = "closing"] ELSE media
     /\ held' = IF closes THEN held ELSE [held EXCEPT ![j] = 0]
     /\ Moved(j, IF closes THEN "cleanup" ELSE "over")
     /\ UNCHANGED <<control, world, result, work, disk, completed, faults, crashes>>

(* Outside the lock: meanwhile another job may prepare the media anew.     *)
Cleanup(j) ==
  /\ job[j] = "cleanup"
  /\ media' = [media EXCEPT ![UidOf(j)][held[j]] = "closed"]
  /\ held' = [held EXCEPT ![j] = 0]
  /\ Moved(j, "over")
  /\ \/ UNCHANGED <<result, faults>>
     \/ Fault /\ result' = [result EXCEPT ![j] = IF @ \in {"ok", "empty"} THEN "error" ELSE @]
  /\ UNCHANGED <<control, world, entry, refs, work, disk, completed, crashes>>

-----------------------------------------------------------------------------
(* annotate_source_with_retries, annotate_source: the runner of a job.     *)

Ends(j, how) ==
  /\ Moved(j, "release") /\ result' = [result EXCEPT ![j] = how]

(* An exception other than a fatal one: sleep and try again.               *)
AttemptFails(j) ==
  IF attempt[j] < Attempts
  THEN Moved(j, "begin") /\ attempt' = [attempt EXCEPT ![j] = @ + 1] /\ UNCHANGED result
  ELSE Ends(j, "error") /\ UNCHANGED attempt

(* The checkpoint is loaded behind the barrier of the spool.               *)
Begin(j) ==
  /\ job[j] = "begin"
  /\ \/ j \in completed /\ Ends(j, "empty") /\ UNCHANGED <<attempt, frame, known>>
     \/ j \notin completed /\ fatal /\ Ends(j, "fatal") /\ UNCHANGED <<attempt, frame, known>>
     \/ /\ j \notin completed /\ ~fatal
        /\ stopped \/ (LaneOf(j) \notin Packed /\ UidOf(j) \notin indexed)
        /\ AttemptFails(j) /\ UNCHANGED <<frame, known>>
     \/ /\ j \notin completed /\ ~fatal /\ ~stopped
        /\ LaneOf(j) \in Packed \/ UidOf(j) \in indexed
        /\ Moved(j, "work") /\ known' = [known EXCEPT ![j] = unit[j]]
        /\ frame' = [frame EXCEPT ![j] = [f \in Frame |-> "idle"]]
        /\ UNCHANGED <<attempt, result>>
  /\ UNCHANGED <<control, world, leases, clips, disk, completed, faults, crashes>>

UnitOf(j, f) == KeyOf[LaneOf(j)][f]
At(j, f, state) == frame' = [frame EXCEPT ![j][f] = state]

(* A cached frame costs nothing; another one is asked for.  A grd frame    *)
(* prefetches its clip when a slot is free.                                *)
Ask(j, f) ==
  /\ job[j] = "work" /\ frame[j][f] = "idle"
  /\ IF known[j][UnitOf(j, f)] # None THEN At(j, f, "saved") /\ UNCHANGED clips
     ELSE /\ ~stopped /\ ~fatal /\ At(j, f, "asked")
          /\ clips' = IF LaneOf(j) \notin Packed /\ Cardinality(clips) < Clips
                      THEN clips \cup {<<j, f>>} ELSE clips
  /\ UNCHANGED <<control, world, job, result, leases, attempt, known, disk, completed,
                 faults, crashes>>

(* The request of a grd frame needs its clip: a slot is acquired now if it *)
(* was not prefetched, and is given back either way.                       *)
ClipThere(j, f) == LaneOf(j) \in Packed \/ <<j, f>> \in clips \/ Cardinality(clips) < Clips

(* annotate_ecot_frame: questions are repeated until an answer is valid.   *)
Answered(j, f) ==
  /\ frame[j][f] = "asked" /\ ClipThere(j, f)
  /\ At(j, f, "answered") /\ clips' = clips \ {<<j, f>>}
  /\ UNCHANGED <<control, world, job, result, leases, attempt, known, disk, completed,
                 faults, crashes>>

RequestFails(j, f) ==
  /\ frame[j][f] = "asked" /\ At(j, f, "failed") /\ clips' = clips \ {<<j, f>>}
  /\ \/ Fault /\ UNCHANGED fatal
     \/ Fault /\ fatal' = TRUE
     \/ (stopped \/ fatal) /\ UNCHANGED <<faults, fatal>>
  /\ UNCHANGED <<control, indexed, sealed, job, result, leases, attempt, known, disk,
                 completed, crashes>>

(* put_checkpoint_unit: a lock per key; the lock of the object is not held *)
(* while the unit is written.                                              *)
Saving(j, f) == frame[j][f] \in {"locked", "stored"}
NoKeyLock(j, f) == TRUE \* mutant
KeyFree(j, f) == \A g \in Frame : Saving(j, g) => UnitOf(j, g) # UnitOf(j, f)
Value(j, f) == <<f, attempt[j]>>

Put(j, f) ==
  /\ LaneOf(j) \notin Packed /\ frame[j][f] = "answered" /\ KeyFree(j, f)
  /\ At(j, f, IF known[j][UnitOf(j, f)] = None THEN "locked"
              ELSE IF known[j][UnitOf(j, f)] = Value(j, f) THEN "saved" ELSE "failed")
  /\ UNCHANGED <<control, world, job, result, leases, attempt, clips, known, disk, completed,
                 faults, crashes>>

Store(j, f) ==
  /\ frame[j][f] = "locked"
  /\ \/ /\ unit' = [unit EXCEPT ![j][UnitOf(j, f)] = Value(j, f)]
        /\ At(j, f, "stored") /\ UNCHANGED faults
     \/ Fault /\ At(j, f, "failed") /\ UNCHANGED unit
  /\ UNCHANGED <<control, world, job, result, leases, attempt, clips, known, final,
                 completed, crashes>>

Expose(j, f) ==
  /\ frame[j][f] = "stored" /\ At(j, f, "saved")
  /\ known' = [known EXCEPT ![j][UnitOf(j, f)] = Value(j, f)]
  /\ UNCHANGED <<control, world, job, result, leases, attempt, clips, disk, completed,
                 faults, crashes>>

(* annotate_ecot_source: when the requests are over, also after a failure  *)
(* of one of them, put_many makes every answer durable.                    *)
InFlight(j) == {f \in Frame : frame[j][f] \in {"asked", "locked", "stored"}
                              \/ (frame[j][f] = "answered" /\ LaneOf(j) \notin Packed)}
Answers(j) == {f \in Frame : frame[j][f] = "answered"}
Failed(j) == \E f \in Frame : frame[j][f] = "failed"

PutMany(j) ==
  /\ job[j] = "work" /\ LaneOf(j) \in Packed /\ Answers(j) # {} /\ InFlight(j) = {}
  /\ Failed(j) \/ stopped \/ fatal \/ \A f \in Frame : frame[j][f] # "idle"
  /\ \/ /\ unit' = [unit EXCEPT ![j] = [k \in Key |->
                      IF \E f \in Answers(j) : UnitOf(j, f) = k
                      THEN Value(j, CHOOSE f \in Answers(j) : UnitOf(j, f) = k) ELSE @[k]]]
        /\ known' = [known EXCEPT ![j] = unit'[j]]
        /\ frame' = [frame EXCEPT ![j] = [f \in Frame |->
                       IF f \in Answers(j) THEN "saved" ELSE @[f]]]
        /\ UNCHANGED faults
     \/ /\ Fault
        /\ frame' = [frame EXCEPT ![j] = [f \in Frame |->
                       IF f \in Answers(j) THEN "failed" ELSE @[f]]]
        /\ UNCHANGED <<unit, known>>
  /\ UNCHANGED <<control, world, job, result, leases, attempt, clips, final, completed, crashes>>

(* frame_executor: an attempt outlives its requests, whatever their fate.  *)
Drained(j) == InFlight(j) = {} /\ Answers(j) = {}

AttemptEnds(j) ==
  /\ job[j] = "work" /\ Drained(j)
  /\ \/ /\ \A f \in Frame : frame[j][f] = "saved"
        /\ Moved(j, "commit") /\ UNCHANGED <<result, attempt>>
     \/ /\ \E f \in Frame : frame[j][f] # "saved"
        /\ Failed(j) \/ stopped \/ fatal
        /\ IF fatal THEN Ends(j, "fatal") /\ UNCHANGED attempt ELSE AttemptFails(j)
  /\ UNCHANGED <<control, world, leases, frame, clips, known, disk, completed, faults, crashes>>

(* commit_stage: the final record is durable before it is completed.       *)
Commit(j) ==
  /\ job[j] = "commit"
  /\ \/ /\ final' = [final EXCEPT ![j] = @ + 1]
        /\ Moved(j, "written") /\ UNCHANGED <<result, attempt, faults>>
     \/ Fault /\ AttemptFails(j) /\ UNCHANGED final
  /\ UNCHANGED <<control, world, leases, frame, clips, known, unit, completed, crashes>>

Complete(j) ==
  /\ job[j] = "written" /\ completed' = completed \cup {j}
  /\ Ends(j, "ok")
  /\ UNCHANGED <<control, world, leases, work, disk, faults, crashes>>

-----------------------------------------------------------------------------
(* The upstream publishes subtasks and is complete at last.                *)
Publish ==
  /\ ~sealed /\ \E u \in Uid \ indexed : indexed' = indexed \cup {u}
  /\ UNCHANGED <<control, fatal, sealed, job, result, leases, work, disk, completed,
                 faults, crashes>>

Seal ==
  /\ ~sealed /\ sealed' = TRUE
  /\ UNCHANGED <<control, fatal, indexed, job, result, leases, work, disk, completed,
                 faults, crashes>>

Settled(j) == job[j] \in {"todo", "backlog", "deferred", "skipped", "over", "reported"}
Quiet == closed /\ \A j \in Job : Settled(j)
Exited == Quiet /\ UNCHANGED vars

Step ==
  \/ \E l \in Lane : PassEnds(l) \/ PassBegins(l) \/ LaneRaises(l)
  \/ Close
  \/ \E u \in Uid, e \in Entry : InitializeBegins(u, e) \/ InitializeEnds(u, e)
  \/ \E j \in Job :
       \/ Pull(j) \/ TrySubmit(j) \/ Report(j) \/ Ready(j) \/ Execute(j) \/ Release(j)
       \/ Cleanup(j) \/ Begin(j) \/ PutMany(j) \/ AttemptEnds(j) \/ Commit(j) \/ Complete(j)
       \/ \E f \in Frame : \/ Ask(j, f) \/ Answered(j, f) \/ RequestFails(j, f)
                           \/ Put(j, f) \/ Store(j, f) \/ Expose(j, f)

Next == Step \/ Publish \/ Seal \/ Crash \/ Exited

Spec == Init /\ [][Next]_vars

(* Threads run, requests end, and the upstream ends.                       *)
FairSpec == Spec /\ WF_vars(Step) /\ WF_vars(Seal)
-----------------------------------------------------------------------------
TypeOK ==
  /\ lane \in [Lane -> {"pass", "rest", "ended", "raised"}]
  /\ stopped \in BOOLEAN /\ fatal \in BOOLEAN /\ closed \in BOOLEAN /\ sealed \in BOOLEAN
  /\ indexed \subseteq Uid /\ completed \subseteq Job
  /\ job \in [Job -> JobState]
  /\ result \in [Job -> {"none", "ok", "empty", "error", "fatal"}]
  /\ entry \in [Uid -> Entry \cup {0}] /\ held \in [Job -> Entry \cup {0}]
  /\ refs \in [Uid -> [Entry -> Nat]]
  /\ media \in [Uid -> [Entry -> {"none", "queued", "preparing", "open", "failed",
                                  "closing", "closed"}]]
  /\ attempt \in [Job -> 0 .. Attempts] /\ frame \in [Job -> [Frame -> FrameState]]
  /\ clips \subseteq Job \X Frame
  /\ known \in [Job -> [Key -> Answer \cup {None}]]
  /\ unit \in [Job -> [Key -> Answer \cup {None}]]
  /\ final \in [Job -> Nat] /\ faults \in 0 .. MaxFaults /\ crashes \in 0 .. MaxCrashes

(* Shared media stays open while a job that may use it runs, also between  *)
(* its attempts, and nothing stays open that no job leases.                *)
MediaLeased ==
  /\ \A j \in Job : job[j] \in {"ready", "begin", "work", "commit", "written"}
                    => MediaOf(j) = "open"
  /\ \A u \in Uid, e \in Entry : media[u][e] \in {"queued", "preparing", "open", "closing"}
       => \E l \in Lane : held[<<l, u>>] = e

(* A unit that was paid for is neither replaced nor lost before the final  *)
(* record of its job is durable: not by a second request for the same key, *)
(* a failed attempt, a crash or a resume.                                  *)
PaidWorkKept ==
  [][\A j \in Job, k \in Key :
       unit[j][k] # None => unit'[j][k] = unit[j][k] \/ final[j] > 0]_vars

(* A lane that ends without raising leaves no episode behind: its record   *)
(* is durable, once, or its failure was reported.                          *)
EndedIsSettled ==
  \A j \in Job : lane[LaneOf(j)] = "ended" =>
    \/ final[j] = 1
    \/ job[j] = "reported" /\ result[j] = "error"

(* The run comes to an end, whatever fails: no job waits forever for its   *)
(* media, a lock, a slot or its subtasks.                                  *)
RunEnds == <>Quiet
=============================================================================
