------------------------------- MODULE MC_Las -------------------------------
(***************************************************************************)
(* The LAS service is used through one of two clients: the customer        *)
(* operator (run_pipeline.sh, LasOperator) or the vendored pipeline under  *)
(* request_parallel.py (LasSample).  A deployment uses one; the initial    *)
(* state chooses, and the client it does not use has nothing to do.        *)
(***************************************************************************)
EXTENDS LasOperator

CONSTANTS MaxTasks, FaultyTasks, MaxUrls, MaxSampleFaults

VARIABLES wrist, phase, step, video, sTask, preserve, url, raw, sObjects, context, annotation,
          final, error, sJournal, sRemote, request, posted, recorded, sFaults

Sample == INSTANCE LasSample
  WITH Faulty <- FaultyTasks, MaxFaults <- MaxSampleFaults, task <- sTask, objects <- sObjects,
       journal <- sJournal, remote <- sRemote, faults <- sFaults

ASSUME SampleConstants == Sample!SampleAssumption

sample == <<wrist, phase, step, video, sTask, preserve, url, raw, sObjects, context, annotation,
            final, error, sJournal, sRemote, request, posted, recorded, sFaults>>

(* The states of a client without calls, and of one without an episode.    *)
OperatorUnused ==
  /\ pc = [c \in Caller |-> "answered"] /\ task = [c \in Caller |-> 0]
  /\ abandon = [c \in Caller |-> FALSE] /\ lock = {}
  /\ journal = NoJournal /\ fallback = NoJournal /\ marked = FALSE
  /\ stale = {} /\ mismatched = {} /\ setAside = {} /\ remote = [k \in Task |-> "none"]
  /\ byUrl = FALSE /\ mine = [c \in Caller |-> {}] /\ objects = {}
  /\ submits = 0 /\ unheard = {} /\ faults = 0

SampleUnused ==
  /\ phase = "unused" /\ wrist = FALSE /\ step = "step1" /\ video = 1 /\ sTask = 0
  /\ preserve = FALSE /\ url = 1 /\ raw = [s \in {"step1", "step3"} |-> Sample!NoRaw]
  /\ sObjects = 0 /\ context = 0 /\ annotation = Sample!NoAnnotation
  /\ final = Sample!NoAnnotation /\ error = "none"
  /\ sJournal = [q \in Sample!Request |-> Sample!NoTask]
  /\ sRemote = [k \in Sample!Task |-> "none"] /\ request = [k \in Sample!Task |-> <<>>]
  /\ posted = 0 /\ recorded = {} /\ sFaults = 0

(* The media of an earlier deployment's task is no concern of a request    *)
(* with a reference: its fallback journal is of a running task, or none.   *)
LasInit == \/ Init /\ (byUrl => remote[0] \in {"none", "running"}) /\ SampleUnused
           \/ OperatorUnused /\ Sample!Init

LasNext == \/ Next /\ UNCHANGED sample
           \/ phase # "unused" /\ Sample!Next /\ UNCHANGED vars

LasSpec ==
  /\ LasInit /\ [][LasNext]_<<vars, sample>>
  /\ Fairness
  /\ WF_sample(Sample!Advance) /\ \A k \in Sample!Task : WF_sample(Sample!End(k))

(* What LasSample states of its client (see there): no recorded task that  *)
(* runs or has answered is paid for again.                                 *)
NoSecondPurchase == Sample!NoSecondPurchase

(* The annotation of a finished episode is of one piece.                   *)
AnnotationConsistent == Sample!AnnotationConsistent

(* Either client comes to an end: every call of the operator is answered   *)
(* or raises, and every episode is annotated, whatever failed on the way.  *)
EitherClientEnds == EveryCallAnswered /\ Sample!Annotated
=============================================================================
