------------------------------ MODULE LasSample ------------------------------
(***************************************************************************)
(* An episode's Subtask annotation by the LAS service: the vendored        *)
(* pipeline.py with the checkpoints of its steps, the client that          *)
(* scripts/request_parallel.py wraps around its billable tasks, the        *)
(* transport of scripts/las_transport.py, the quarantine of                *)
(* scripts/las_recovery.py and the signed video URL of                     *)
(* scripts/las_subtask.py.  The episode is retried until it is annotated;  *)
(* the process may die anywhere.                                           *)
(*                                                                         *)
(* Step 1 asks for the objects of the wrist view, the context is built     *)
(* from them, step 3 asks for the segments, step 4 rewrites them.  A       *)
(* request is a step, the URL and, in step 3, the objects of the prompt;   *)
(* it stands for the digest that names its journal.  Objects and answers   *)
(* are named by the task that gave them.                                   *)
(***************************************************************************)
EXTENDS Integers

CONSTANTS MaxTasks,  \* tasks of the instance
          Faulty,    \* the first tasks, which may fail or answer unparseably
          MaxUrls,   \* signed URLs of the video
          MaxFaults  \* deaths and failed calls

(* Asserted by the modules that instantiate this one.                      *)
SampleAssumption ==
  /\ MaxTasks \in Nat /\ Faulty \in Nat /\ Faulty < MaxTasks
  /\ MaxUrls \in Nat \ {0} /\ MaxFaults \in Nat

Task == 1 .. MaxTasks
Url == 1 .. MaxUrls
NoView == -1 \* the objects of an episode without a wrist view
Request == [step : {"step1"}, url : Url, objects : {0}]
           \cup [step : {"step3"}, url : Url, objects : Task \cup {NoView}]
NoTask == [task |-> 0, status |-> "none"]
NoRaw == [request |-> <<>>, task |-> 0]
NoAnnotation == [url |-> 0, objects |-> 0, segments |-> 0]

VARIABLES wrist,      \* has_wrist_view
          phase,      \* what the thread of the episode does
          step,       \* which step it is in
          video,      \* the URL of its request
          task,       \* the task it submitted or polls
          preserve,   \* preserve_downstream
          url,        \* the URL in the publication cache
          raw,        \* step -> <step>_raw.json
          objects,    \* objects.json, 0 if missing
          context,    \* objects in context.json, 0 if missing
          annotation, \* annotation.json
          final,      \* the annotation that postprocessed_annotation.json is of
          error,      \* the stage of error.json
          journal,    \* request -> task identity and status on disk
          remote,     \* task -> its state at the service
          request,    \* task -> its request
          posted,     \* tasks started at the service
          recorded,   \* tasks that a journal ever named
          faults

memory == <<phase, step, video, task, preserve>>
files == <<raw, objects, context, annotation, final, error>>
service == <<remote, request, posted>>
vars == <<wrist, memory, url, files, journal, service, recorded, faults>>

Init ==
  /\ wrist \in BOOLEAN
  /\ phase = "idle" /\ step = "step1" /\ video = 1 /\ task = 0 /\ preserve = FALSE
  /\ url = 1 /\ raw = [s \in {"step1", "step3"} |-> NoRaw]
  /\ objects = 0 /\ context = 0 /\ annotation = NoAnnotation /\ final = NoAnnotation
  /\ error = "none" /\ journal = [q \in Request |-> NoTask]
  /\ remote = [k \in Task |-> "none"] /\ request = [k \in Task |-> <<>>]
  /\ posted = 0 /\ recorded = {} /\ faults = 0

Fault == faults < MaxFaults /\ faults' = faults + 1
Go(where) == phase' = where /\ UNCHANGED <<step, video, task, preserve>>

Step1(v) == [step |-> "step1", url |-> v, objects |-> 0]
Step3(v, o) == [step |-> "step3", url |-> v, objects |-> o]

(* The request of the step the thread is in.                               *)
Asked == IF step = "step1" THEN Step1(video) ELSE Step3(video, context)
Operator == phase = "step" /\ (wrist \/ step = "step3")
Cached == raw[step].request = Asked
Matches(a, v) == a # NoAnnotation /\ a.url = v

(* An exception of a step: error.json names it, the sample has failed.     *)
Fail(stage) ==
  /\ error' = stage /\ Go("failed")
  /\ UNCHANGED <<url, raw, objects, context, annotation, final, journal, recorded>>

-----------------------------------------------------------------------------
(* resolve: the cached URL, or a new one if it would expire soon.          *)
Resolve(v) == v = url \/ (url < MaxUrls /\ v = url + 1)

Complete(v) ==
  /\ Matches(annotation, v) /\ final = annotation
  /\ IF wrist THEN objects # 0 /\ raw["step1"].request = Step1(v) ELSE objects = NoView
  /\ context # 0 /\ raw["step3"] # NoRaw /\ error = "none"

Begin ==
  /\ phase = "idle"
  /\ \E v \in Url : /\ Resolve(v) /\ url' = v /\ video' = v
                    /\ phase' = IF Complete(v) THEN "done" ELSE "step"
  /\ step' = "step1"
  /\ UNCHANGED <<task, preserve, files, journal, service, recorded, faults>>

(* What was derived from older objects.                                    *)
ForgetDownstream ==
  /\ raw' = [raw EXCEPT !["step3"] = NoRaw] /\ context' = 0
  /\ annotation' = NoAnnotation /\ final' = NoAnnotation

SkipStep1 ==
  /\ phase = "step" /\ step = "step1" /\ ~ wrist /\ Go("context")
  /\ objects' = NoView
  /\ IF objects # NoView THEN ForgetDownstream ELSE UNCHANGED <<raw, context, annotation, final>>
  /\ UNCHANGED <<url, error, journal, service, recorded, faults>>

(* Step 1 or 3 with a cached answer to the same request; the objects may   *)
(* be there already.                                                       *)
UseCached ==
  /\ Operator /\ Cached
  /\ Go(IF step = "step1" /\ objects # 0 THEN "context" ELSE "parse")
  /\ UNCHANGED <<url, files, journal, service, recorded, faults>>

(* submit_operator: a journal that has not failed is resumed, another one  *)
(* is moved aside before the request is sent.                              *)
OnlyCompleted(q) == journal[q].status = "completed" \* mutant
Reusable(q) == journal[q].status \in {"live", "completed"}

CallOperator ==
  /\ Operator /\ ~ Cached
  /\ preserve' = (step = "step1" /\ raw["step1"] = NoRaw /\ Matches(annotation, video))
  /\ IF Reusable(Asked)
     THEN phase' = "polling" /\ task' = journal[Asked].task /\ UNCHANGED journal
     ELSE /\ phase' = "posting" /\ task' = 0
          /\ journal' = [journal EXCEPT ![Asked] = NoTask]
  /\ UNCHANGED <<step, video, url, files, service, recorded, faults>>

StartTask ==
  /\ posted < MaxTasks /\ posted' = posted + 1
  /\ remote' = [remote EXCEPT ![posted'] = "running"]
  /\ request' = [request EXCEPT ![posted'] = Asked]

Accept ==
  /\ phase = "posting" /\ StartTask
  /\ task' = posted' /\ phase' = "accepted"
  /\ UNCHANGED <<step, video, preserve, url, files, journal, recorded, faults>>

(* The service accepts and the connection fails: post_json posts again.    *)
AcceptUnheard ==
  /\ phase = "posting" /\ posted + 1 < MaxTasks /\ StartTask /\ Fault
  /\ UNCHANGED <<memory, url, files, journal, recorded>>

(* post_json gives up, on a submission or on a poll; a task also outlasts  *)
(* poll_timeout.  The journal stays as it is.                              *)
CallFails ==
  /\ phase \in {"posting", "polling"} /\ Fault /\ Fail(step)
  /\ UNCHANGED service

RecordTask ==
  /\ phase = "accepted" /\ Go("polling")
  /\ journal' = [journal EXCEPT ![Asked] = [task |-> task, status |-> "live"]]
  /\ recorded' = recorded \cup {task}
  /\ UNCHANGED <<url, files, service, faults>>

(* poll_operator records the end of the task and returns or raises.        *)
PollCompleted ==
  /\ phase = "polling" /\ remote[task] \in {"good", "bad"}
  /\ journal' = [journal EXCEPT ![Asked] = [task |-> task, status |-> "completed"]]
  /\ Go(IF step = "step1" THEN "clear" ELSE "answered")
  /\ UNCHANGED <<url, files, service, recorded, faults>>

RecordFailure ==
  /\ phase = "polling" /\ remote[task] = "failed"
  /\ journal' = [journal EXCEPT ![Asked] = [task |-> task, status |-> "failed"]]
  /\ Go("raise")
  /\ UNCHANGED <<url, files, service, recorded, faults>>

RaiseFailure == phase = "raise" /\ Fail(step) /\ UNCHANGED <<service, faults>>

(* Before new objects are written.                                         *)
Kept == TRUE \* mutant
Preserved == preserve

ClearDownstream ==
  /\ phase = "clear" /\ Go("answered")
  /\ objects' = 0
  /\ IF Preserved THEN UNCHANGED <<raw, context, annotation, final>> ELSE ForgetDownstream
  /\ UNCHANGED <<url, error, journal, service, recorded, faults>>

WriteRaw ==
  /\ phase = "answered" /\ Go("parse")
  /\ raw' = [raw EXCEPT ![step] = [request |-> Asked, task |-> task]]
  /\ UNCHANGED <<url, objects, context, annotation, final, error, journal, service,
                 recorded, faults>>

Parse ==
  /\ phase = "parse" /\ remote[raw[step].task] = "good"
  /\ Go(IF step = "step1" THEN "context" ELSE "annotate")
  /\ objects' = IF step = "step1" THEN raw[step].task ELSE objects
  /\ UNCHANGED <<url, raw, context, annotation, final, error, journal, service,
                 recorded, faults>>

ParseFails ==
  /\ phase = "parse" /\ remote[raw[step].task] = "bad" /\ Fail(step)
  /\ UNCHANGED <<service, faults>>

(* A context is kept, whatever objects it was built from.                  *)
BuildContext ==
  /\ phase = "context" /\ phase' = "step" /\ step' = "step3"
  /\ context' = IF context = 0 THEN objects ELSE context
  /\ UNCHANGED <<video, task, preserve, url, raw, objects, annotation, final, error, journal,
                 service, recorded, faults>>

Annotate ==
  /\ phase = "annotate" /\ Go("rewrite")
  /\ annotation' = [url |-> video, objects |-> objects, segments |-> raw["step3"].task]
  /\ UNCHANGED <<url, raw, objects, context, final, error, journal, service, recorded, faults>>

Postprocess ==
  /\ phase = "rewrite" /\ Go("done")
  /\ final' = annotation /\ error' = "none"
  /\ UNCHANGED <<url, raw, objects, context, annotation, journal, service, recorded, faults>>

PostprocessFails == phase = "rewrite" /\ Fault /\ Fail("step4") /\ UNCHANGED service

(* on_failed_sample: an answer that really does not parse disables its     *)
(* journal, then its cache is moved aside; then the record is retried.     *)
Unparseable == error \in {"step1", "step3"} /\ raw[error] # NoRaw /\ remote[raw[error].task] = "bad"

NotMarked(q) == journal \* mutant
Marked(q) ==
  IF journal[q] = NoTask THEN journal ELSE [journal EXCEPT ![q].status = "failed"]

DisableTask ==
  /\ phase = "failed" /\ Unparseable /\ Go("quarantine")
  /\ journal' = Marked(raw[error].request)
  /\ UNCHANGED <<url, files, service, recorded, faults>>

Quarantine ==
  /\ phase = "quarantine" /\ Go("idle")
  /\ raw' = [raw EXCEPT ![error] = NoRaw]
  /\ UNCHANGED <<url, objects, context, annotation, final, error, journal, service,
                 recorded, faults>>

Retry ==
  /\ phase = "failed" /\ ~ Unparseable /\ Go("idle")
  /\ UNCHANGED <<url, files, journal, service, recorded, faults>>

(* The process dies; a later run annotates the episode, unless the record  *)
(* of a finished one was written.                                          *)
Crash ==
  /\ phase # "idle" /\ Fault
  /\ phase' = "idle" /\ step' = "step1" /\ task' = 0 /\ preserve' = FALSE
  /\ UNCHANGED <<video, url, files, journal, service, recorded>>

End(k) ==
  /\ remote[k] = "running"
  /\ \E r \in {"good", "bad", "failed"} : /\ k > Faulty => r = "good"
                                          /\ remote' = [remote EXCEPT ![k] = r]
  /\ UNCHANGED <<wrist, memory, url, files, journal, request, posted, recorded, faults>>

Done == phase = "done" /\ UNCHANGED vars

Steps ==
  \/ Begin \/ SkipStep1 \/ UseCached \/ CallOperator \/ Accept \/ RecordTask \/ PollCompleted
  \/ RecordFailure \/ RaiseFailure \/ ClearDownstream \/ WriteRaw \/ Parse \/ ParseFails
  \/ BuildContext \/ Annotate \/ Postprocess \/ DisableTask \/ Quarantine \/ Retry

Advance == Steps /\ UNCHANGED wrist

Disturb ==
  /\ AcceptUnheard \/ CallFails \/ PostprocessFails \/ Crash
  /\ UNCHANGED wrist

Next == Advance \/ Disturb \/ (\E k \in Task : End(k)) \/ Done

Spec == Init /\ [][Next]_vars

(* The thread goes on, and tasks end.                                      *)
FairSpec == Spec /\ WF_vars(Advance) /\ \A k \in Task : WF_vars(End(k))
-----------------------------------------------------------------------------
TypeOK ==
  /\ phase \in {"idle", "step", "posting", "accepted", "polling", "raise", "clear", "answered",
                "parse", "context", "annotate", "rewrite", "failed", "quarantine", "done"}
  /\ step \in {"step1", "step3"} /\ video \in Url /\ url \in Url
  /\ task \in Task \cup {0} /\ preserve \in BOOLEAN
  /\ \A s \in {"step1", "step3"} : raw[s].task \in Task \cup {0}
  /\ wrist \in BOOLEAN /\ {objects, context} \subseteq Task \cup {0, NoView}
  /\ error \in {"none", "step1", "step3", "step4"}
  /\ \A q \in Request : journal[q].status \in {"none", "live", "completed", "failed"}
  /\ remote \in [Task -> {"none", "running", "good", "bad", "failed"}]
  /\ posted \in Task \cup {0} /\ recorded \subseteq Task /\ faults \in 0 .. MaxFaults

(* A request whose task is on record and runs or has a usable answer is    *)
(* not submitted and paid for again, whatever failed or died since.        *)
NoSecondPurchase ==
  \A j, k \in recorded :
    j # k /\ request[j] = request[k] => ~ {remote[j], remote[k]} \subseteq {"running", "good"}

(* The annotation of a finished episode is of one piece: its segments were *)
(* asked for with the objects and the URL it names, in answers that parse, *)
(* and the rewritten one is of it, although each file survives on its own. *)
AnnotationConsistent ==
  phase = "done" =>
    /\ final = annotation
    /\ request[annotation.segments] = Step3(annotation.url, annotation.objects)
    /\ remote[annotation.segments] = "good"
    /\ IF wrist THEN /\ request[annotation.objects] = Step1(annotation.url)
                     /\ remote[annotation.objects] = "good"
                ELSE annotation.objects = NoView

(* The episode is annotated at last: neither an unparseable answer nor a   *)
(* failed task is reused for ever, wherever the process died.              *)
Annotated == phase = "idle" ~> phase = "done"
=============================================================================
