------------------------------ MODULE GrdWindows ------------------------------
(***************************************************************************)
(* The grounding stage of one record (downstream_result for 'grd' in       *)
(* scripts/annotate_videos.py, grd_inventory_review.py and                 *)
(* provider_content_rejection.py).  A job per window asks for an inventory *)
(* of the current frame, keeps it, asks which of its objects the future    *)
(* video manipulates first, keeps the item, and has the names reviewed.    *)
(* The names may be corrected, and the selected name with them.            *)
(*                                                                         *)
(* An inventory is the sequence of its objects' canonical names, so an     *)
(* object is its index.  The subtasks, and so the identity of the          *)
(* checkpoint, are those of the record.  The provider is DashScope, the    *)
(* only one whose refusal of a video is kept.  ensure_available is the     *)
(* cached check of AvailabilityCheck: for an interval it may miss a        *)
(* refusal, or raise that of another episode.                              *)
(***************************************************************************)
EXTENDS Integers, Sequences, FiniteSets

CONSTANTS Windows,  \* windows of the record
          Workers,  \* grd_workers
          Attempts, \* record_attempts of a run
          MaxRuns,  \* launches of the pipeline
          MaxFaults \* failures other than a refusal of this record's video

GrdAssumption ==
  /\ {Windows, Workers, MaxRuns} \subseteq Nat \ {0} /\ MaxFaults \in Nat
  /\ Attempts \in Nat /\ Attempts > MaxFaults

Window == 1 .. Windows
Inventory == {<<"cup">>, <<"cup", "cup">>, <<"cup", "mug">>}
Null == "null"

NoItem == [inventory |-> 0, objects |-> <<>>, first |-> Null]
NoJob == [at |-> "none", sent |-> FALSE, item |-> NoItem, objects |-> <<>>, first |-> Null,
          accepted |-> FALSE]

VARIABLES inventories, \* window -> its inventories so far
          kept,        \* window -> the question-1 unit of the checkpoint, or NoItem
          stored,      \* window -> the item in the checkpoint, or NoItem
          committed,   \* the frames of the record, <<>> before its commit
          rejected,    \* a saved rejection
          pc,
          attempt,
          runs,
          next,        \* the next window
          jobs,        \* window -> its job
          completed,   \* window -> its reviewed frame, or NoJob
          scope,       \* EpisodeContentScope.error_args is set
          raising,     \* what the attempt raises
          about,       \* the inventories a window's question 2 was about
          faults

disk == <<kept, stored, committed, rejected>>
main == <<attempt, runs, next, completed, raising>>
vars == <<inventories, disk, pc, main, jobs, scope, about, faults>>

Init ==
  /\ inventories = [w \in Window |-> 0]
  /\ kept = [w \in Window |-> NoItem] /\ stored = [w \in Window |-> NoItem]
  /\ committed = <<>> /\ rejected = FALSE
  /\ pc = "down" /\ attempt = 0 /\ runs = 0 /\ next = 1 /\ raising = "none"
  /\ jobs = [w \in Window |-> NoJob] /\ completed = [w \in Window |-> NoJob]
  /\ scope = FALSE /\ about = [w \in Window |-> {}] /\ faults = 0

Goto(where) == pc' = where

(* What dies with an attempt.                                              *)
Forget ==
  /\ next' = 1 /\ raising' = "none" /\ scope' = FALSE
  /\ jobs' = [w \in Window |-> NoJob] /\ completed' = [w \in Window |-> NoJob]

(* A launch; a saved rejection raises before the first attempt.            *)
Start ==
  /\ pc \in {"down", "over"} /\ runs < MaxRuns /\ runs' = runs + 1 /\ attempt' = 0
  /\ Goto(IF rejected THEN "over" ELSE "begin") /\ Forget
  /\ UNCHANGED <<inventories, disk, about, faults>>

Crash ==
  /\ pc \notin {"down", "over"} /\ runs < MaxRuns /\ Goto("down") /\ Forget
  /\ UNCHANGED <<inventories, disk, attempt, runs, about, faults>>

(* An attempt, unless the record is there already.                         *)
Begin ==
  /\ pc = "begin" /\ attempt' = attempt + 1
  /\ Goto(IF committed # <<>> THEN "over" ELSE "loop") /\ Forget
  /\ UNCHANGED <<inventories, disk, runs, about, faults>>

-----------------------------------------------------------------------------
(* The record's thread submits a job per window, at most twice the number  *)
(* of workers at a time.                                                   *)
Submitted == {w \in Window : jobs[w].at # "none"}
Full == Cardinality(Submitted) >= 2 * Workers

Raise(what) ==
  /\ raising' = what /\ Goto("drain")
  /\ jobs' = [w \in Window |-> IF jobs[w].at = "queued" THEN NoJob ELSE jobs[w]]

Submit ==
  /\ pc = "loop" /\ ~ Full /\ next <= Windows /\ next' = next + 1
  /\ jobs' = [jobs EXCEPT ![next] = [NoJob EXCEPT !.at = "queued", !.item = stored[next]]]
  /\ UNCHANGED <<inventories, disk, pc, attempt, runs, completed, scope, raising, about, faults>>

(* ensure_available raises in this thread too, or does not yet.            *)
LoopStops ==
  /\ pc = "loop" /\ scope /\ ~ Full /\ Raise("rejected")
  /\ UNCHANGED <<inventories, disk, attempt, runs, next, completed, scope, about, faults>>

(* A frame cannot be decoded, a window not be cut; or the check raises the *)
(* refusal of another episode.                                             *)
LoopFails ==
  /\ pc = "loop" /\ ~ Full /\ faults < MaxFaults /\ faults' = faults + 1
  /\ Raise("error") \/ Raise("rejected")
  /\ UNCHANGED <<inventories, disk, attempt, runs, next, completed, scope, about>>

LoopEnds ==
  /\ pc = "loop" /\ ~ Full /\ next > Windows /\ Goto("wait")
  /\ UNCHANGED <<inventories, disk, main, jobs, scope, about, faults>>

(* finish_grounding: a job that failed raises in the record's thread.      *)
Collect(w) ==
  /\ (pc = "loop" /\ Full) \/ pc = "wait"
  /\ \/ /\ jobs[w].at = "done"
        /\ completed' = [completed EXCEPT ![w] = jobs[w]]
        /\ jobs' = [jobs EXCEPT ![w] = NoJob]
        /\ UNCHANGED <<pc, raising>>
     \/ jobs[w].at \in {"error", "rejected"} /\ Raise(jobs[w].at) /\ UNCHANGED completed
  /\ UNCHANGED <<inventories, disk, attempt, runs, next, scope, about, faults>>

(* drain_content_jobs: what was not started is cancelled, the rest ends.   *)
Ended(w) == jobs[w].at \in {"none", "done", "error", "rejected"}

Drained ==
  /\ pc = "drain" /\ \A w \in Window : Ended(w)
  /\ Goto(IF raising = "rejected" THEN "reject" ELSE IF attempt < Attempts THEN "begin" ELSE "over")
  /\ UNCHANGED <<inventories, disk, main, jobs, scope, about, faults>>

(* The refusal is kept and not retried; a failure to keep it is fatal.     *)
SaveRejection ==
  /\ pc = "reject" /\ Goto("over")
  /\ \/ rejected' = TRUE /\ UNCHANGED faults
     \/ faults < MaxFaults /\ faults' = faults + 1 /\ UNCHANGED rejected
  /\ UNCHANGED <<inventories, kept, stored, committed, main, jobs, scope, about>>

(* partition_result; the checkpoint is cleared when the record is durable. *)
Commit ==
  /\ pc = "wait" /\ Submitted = {} /\ committed' = completed /\ Goto("finish")
  /\ UNCHANGED <<inventories, kept, stored, rejected, main, jobs, scope, about, faults>>

Clear ==
  /\ pc = "finish" /\ Goto("over")
  /\ kept' = [w \in Window |-> NoItem] /\ stored' = [w \in Window |-> NoItem]
  /\ UNCHANGED <<inventories, committed, rejected, main, jobs, scope, about, faults>>

-----------------------------------------------------------------------------
(* The jobs.  At an await only these change.                               *)
Set(w, job) == jobs' = [jobs EXCEPT ![w] = job]
Quiet == UNCHANGED <<inventories, disk, pc, main, scope, about, faults>>

(* The answered question gives way to the next step.                       *)
At(job, where) == [job EXCEPT !.at = where, !.sent = FALSE]

(* The review of an item: one object needs none.                           *)
Reviewing(job, item) ==
  [At(job, IF Len(item.objects) < 2 THEN "done" ELSE "language")
     EXCEPT !.item = item, !.objects = item.objects, !.first = item.first,
            !.accepted = (Len(item.objects) < 2)]

Running == {w \in Window : ~ Ended(w) /\ jobs[w].at # "queued"}

(* A stored item goes to the review, a kept inventory to question 2.       *)
Resumed(w) ==
  IF scope THEN At(jobs[w], "rejected")
  ELSE IF jobs[w].item # NoItem THEN Reviewing(jobs[w], jobs[w].item)
  ELSE IF kept[w] # NoItem THEN [At(jobs[w], "selection") EXCEPT !.item = kept[w]]
  ELSE At(jobs[w], "inventory")

StartJob(w) ==
  jobs[w].at = "queued" /\ Cardinality(Running) < Workers /\ Set(w, Resumed(w)) /\ Quiet

(* A question goes out, unless the check finds the video refused.          *)
Question == {"inventory", "selection", "language", "names", "again", "reselect"}

Ask(w) ==
  /\ jobs[w].at \in Question /\ ~ jobs[w].sent
  /\ \/ scope /\ Set(w, At(jobs[w], "rejected")) /\ UNCHANGED about
     \/ /\ Set(w, [jobs[w] EXCEPT !.sent = TRUE])
        /\ about' = [about EXCEPT ![w] =
             IF jobs[w].at = "selection" THEN @ \cup {jobs[w].item.inventory} ELSE @]
  /\ UNCHANGED <<inventories, disk, pc, main, scope, faults>>

Answered(w, stage) == jobs[w].at = stage /\ jobs[w].sent

(* put_inventory: question 1 is durable before question 2 is asked.        *)
ForgetsUnit(w, unit) == kept \* mutant
KeepsUnit(w, unit) == [kept EXCEPT ![w] = unit]

InventoryAnswered(w) ==
  /\ Answered(w, "inventory")
  /\ \E objects \in Inventory :
       LET unit == [inventory |-> inventories[w] + 1, objects |-> objects, first |-> Null]
       IN  /\ kept' = KeepsUnit(w, unit)
           /\ Set(w, [At(jobs[w], "selection") EXCEPT !.item = unit])
  /\ inventories' = [inventories EXCEPT ![w] = @ + 1]
  /\ UNCHANGED <<stored, committed, rejected, pc, main, scope, about, faults>>

(* validate_grd_first_object: a name of the inventory, or null.            *)
Names(objects) == {objects[i] : i \in DOMAIN objects}

SelectionAnswered(w) ==
  /\ Answered(w, "selection")
  /\ \E first \in Names(jobs[w].item.objects) \cup {Null} :
       LET item == [jobs[w].item EXCEPT !.first = first]
       IN  stored' = [stored EXCEPT ![w] = item] /\ Set(w, Reviewing(jobs[w], item))
  /\ UNCHANGED <<inventories, kept, committed, rejected, pc, main, scope, about, faults>>

(* language_review: identical names are ambiguous whatever it says.        *)
TrustsReview(objects) == BOOLEAN \* mutant
Distinguishable(objects) == IF objects[1] = objects[2] THEN {FALSE} ELSE BOOLEAN

LanguageReviewed(w) ==
  /\ Answered(w, "language")
  /\ \E accepted \in Distinguishable(jobs[w].objects) :
       Set(w, [At(jobs[w], IF accepted THEN "done" ELSE "names") EXCEPT !.accepted = accepted])
  /\ Quiet

(* validate_name_edits: new names, one of which was the other's, or none.  *)
Edits(objects) == {objects, <<objects[2], "left">>}

NamesCorrected(w) ==
  /\ Answered(w, "names")
  /\ \E objects \in Edits(jobs[w].objects) :
       Set(w, [At(jobs[w], "again") EXCEPT !.objects = objects])
  /\ Quiet

(* The selected name follows its object.  If it named several, nothing is  *)
(* selected among ambiguous names, and otherwise it is asked again.        *)
Denoted(objects, name) == {i \in DOMAIN objects : objects[i] = name}

Renamed(job) == job.objects[CHOOSE i \in Denoted(job.item.objects, job.item.first) : TRUE]

Reviewed(job, accepted) ==
  LET ended == [At(job, "done") EXCEPT !.accepted = accepted]
      several == Cardinality(Denoted(job.item.objects, job.item.first)) # 1
  IN  IF job.objects = job.item.objects \/ job.item.first = Null THEN ended
      ELSE IF ~ several THEN [ended EXCEPT !.first = Renamed(job)]
      ELSE IF ~ accepted THEN [ended EXCEPT !.first = Null]
      ELSE [ended EXCEPT !.at = "reselect"]

ReviewedAgain(w) ==
  /\ Answered(w, "again")
  /\ \E accepted \in Distinguishable(jobs[w].objects) : Set(w, Reviewed(jobs[w], accepted))
  /\ Quiet

Reselected(w) ==
  /\ Answered(w, "reselect")
  /\ \E first \in Names(jobs[w].objects) \cup {Null} :
       Set(w, [At(jobs[w], "done") EXCEPT !.first = first])
  /\ Quiet

(* The third malformed answer, a lost one, or a clip that cannot be cut;   *)
(* or the check raises the refusal of another episode.                     *)
JobFails(w) ==
  /\ jobs[w].at \in Question /\ faults < MaxFaults /\ faults' = faults + 1
  /\ \/ Set(w, At(jobs[w], "error"))
     \/ ~ jobs[w].sent /\ Set(w, At(jobs[w], "rejected"))
  /\ UNCHANGED <<inventories, disk, pc, main, scope, about>>

(* The provider refuses the input: reject_current_video.                   *)
Refused(w) ==
  /\ jobs[w].at \in Question /\ jobs[w].sent /\ scope' = TRUE /\ Set(w, At(jobs[w], "rejected"))
  /\ UNCHANGED <<inventories, disk, pc, main, about, faults>>

Job(w) ==
  \/ StartJob(w) \/ Ask(w) \/ InventoryAnswered(w) \/ SelectionAnswered(w) \/ LanguageReviewed(w)
  \/ NamesCorrected(w) \/ ReviewedAgain(w) \/ Reselected(w) \/ Refused(w)

Record ==
  \/ Begin \/ Submit \/ LoopStops \/ LoopEnds \/ Drained \/ SaveRejection \/ Commit \/ Clear
  \/ \E w \in Window : Collect(w)

Done == pc = "over" /\ UNCHANGED vars

Next == Start \/ Crash \/ Record \/ LoopFails \/ Done \/ \E w \in Window : Job(w) \/ JobFails(w)

(* The record's thread goes on, and every request is answered or fails.    *)
Spec == Init /\ [][Next]_vars /\ WF_vars(Record) /\ \A w \in Window : WF_vars(Job(w))
-----------------------------------------------------------------------------
TypeOK ==
  /\ \A w \in Window : /\ kept[w].inventory \in 0 .. inventories[w]
                       /\ stored[w].inventory \in 0 .. inventories[w]
                       /\ about[w] \subseteq 1 .. inventories[w]
                       /\ jobs[w].at \in Question \cup {"none", "queued", "done", "error", "rejected"}
                       /\ completed[w].at \in {"none", "done"}
  /\ committed = <<>> \/ DOMAIN committed = Window
  /\ pc \in {"down", "begin", "loop", "wait", "drain", "reject", "finish", "over"}
  /\ attempt \in 0 .. Attempts /\ runs \in 0 .. MaxRuns /\ next \in 1 .. Windows + 1
  /\ {rejected, scope} \subseteq BOOLEAN /\ faults \in 0 .. MaxFaults

(* Through failures and restarts question 2 of a window is asked about one *)
(* inventory only, the one that a committed record shows.                  *)
OneInventory ==
  /\ \A w \in Window : Cardinality(about[w]) <= 1
  /\ committed # <<>> => \A w \in Window : about[w] = {committed[w].item.inventory}

(* A committed record has a reviewed frame for every window.  The first    *)
(* object of a registered frame is one object of it and, if question 2     *)
(* named one object, that one, whatever its name has become.               *)
SelectionKept ==
  \A w \in DOMAIN committed :
    LET frame == committed[w]
        meant == Denoted(frame.item.objects, frame.item.first)
    IN  /\ frame.at = "done"
        /\ frame.accepted =>
             /\ frame.first # Null => Cardinality(Denoted(frame.objects, frame.first)) = 1
             /\ Cardinality(meant) = 1 => Denoted(frame.objects, frame.first) = meant
             /\ frame.item.first = Null => frame.first = Null

(* The stage ends with its record or a refusal, unless the process dies.   *)
GrdEnded == committed # <<>> \/ pc = "down" \/ (pc = "over" /\ raising = "rejected")
=============================================================================
