------------------------------ MODULE MC_Final ------------------------------
(***************************************************************************)
(* The parts that are checked without fairness, of which a specification   *)
(* starts one; the others have nothing to do.                              *)
(*                                                                         *)
(* The spool of final records (CheckpointSpool).  Or the output shard of a *)
(* batch over two launches (JsonlShard).  Or the records of files at Ark,  *)
(* with two references and their processes (ArkFiles).  Or the timeline of *)
(* an episode (Timeline).                                                  *)
(***************************************************************************)
EXTENDS MC_CheckpointSpool, Integers

CONSTANTS u1, u2, Uid, MaxAsked,
          f1, f2, q1, q2, Reference, Reaper, ReaperOf, MaxUploads, MaxFaults,
          MaxContacts, Text, MaxSegments, Time, Loaded, Frames, Images, Frame, Half, Seam,
          Chunk, Window, Offered, Lookback, Gap

-----------------------------------------------------------------------------
VARIABLES grd, sRows, evidence, prior, sAcked, immutable, pool, resume, skip, sPc, todo, done,
          asking, asked, sRuns

Shard == INSTANCE JsonlShard WITH rows <- sRows, acked <- sAcked, pc <- sPc, runs <- sRuns

ASSUME ShardConstants == Shard!JsonlShardAssumption

shard == <<grd, sRows, evidence, prior, sAcked, immutable, pool, resume, skip, sPc, todo, done,
           asking, asked, sRuns>>

ShardUnused ==
  /\ grd = FALSE /\ sRows = Shard!Empty /\ evidence = {} /\ prior = {} /\ sAcked = {}
  /\ immutable = FALSE /\ pool = FALSE /\ resume = FALSE /\ skip = FALSE
  /\ sPc = "unused" /\ todo = <<>> /\ done = {} /\ asking = {} /\ asked = 0 /\ sRuns = 0

-----------------------------------------------------------------------------
VARIABLES fPc, held, file, old, record, erased, marker, seen, lost, fFaults, fCrashed, overtaken

MCReaperOf == [r \in Reference |-> IF r = f1 THEN q1 ELSE q2]

Files == INSTANCE ArkFiles WITH pc <- fPc, faults <- fFaults, crashed <- fCrashed

ASSUME FilesConstants == Files!ArkFilesAssumption

files == <<fPc, held, file, old, record, erased, marker, seen, lost, fFaults, fCrashed, overtaken>>

FilesUnused ==
  /\ fPc = [a \in Reference \cup Reaper |-> "unused"] /\ held = [r \in Reference |-> 0]
  /\ file = [u \in 1 .. MaxUploads |-> "none"] /\ old = {} /\ lost = {} /\ record = 0
  /\ erased = FALSE /\ marker = {} /\ seen = [p \in Reaper |-> {}] /\ fFaults = 0
  /\ fCrashed = FALSE /\ overtaken = FALSE

-----------------------------------------------------------------------------
VARIABLES tVideo, count, tPhase, exact, steps, contact, query

(* Ticks: a frame lasts 3, anchors are 8 apart (neither divides the other) *)
(* and a chunk lasts 6 frames.                                             *)
MCTime == {-1, 0, 1, 8, 9, 13, 19}
MCLoaded ==
  {<<[from |-> a, to |-> b, text |-> t], [from |-> b + j, to |-> 18 + e, text |-> u]>> :
     a \in {0, 2}, b \in {7, 8, 9, 14}, j \in -2 .. 2, e \in {-8, 0, 9}, t \in Text, u \in Text}

Line == INSTANCE Timeline WITH video <- tVideo, phase <- tPhase

ASSUME TimelineConstants == Line!TimelineAssumption
ASSUME LoadedResults == Line!LoadedForward

timeline == <<tVideo, count, tPhase, exact, steps, contact, query>>

TimelineUnused ==
  /\ tVideo = FALSE /\ count = 0 /\ tPhase = "unused" /\ exact = TRUE /\ steps = <<>>
  /\ contact = <<>> /\ query = Line!NoQuery

-----------------------------------------------------------------------------
(* A shard after its last launch, and a timeline with nothing left to      *)
(* place or to observe, stay as they are.                                  *)
Rests ==
  /\ (sPc = "down" /\ sRuns = MaxRuns) \/ tPhase \in {"accepted", "rejected"}
  /\ UNCHANGED <<vars, shard, files, timeline>>

PartNext ==
  \/ Next /\ UNCHANGED <<shard, files, timeline>>
  \/ sPc # "unused" /\ Shard!Next /\ UNCHANGED <<vars, files, timeline>>
  \/ (\E r \in Reference : fPc[r] # "unused") /\ Files!Next /\ UNCHANGED <<vars, shard, timeline>>
  \/ tPhase # "unused" /\ Line!Next /\ UNCHANGED <<vars, shard, files>>
  \/ Rests

PartSpec ==
  /\ \/ Init /\ ShardUnused /\ FilesUnused /\ TimelineUnused
     \/ SpoolUnused /\ Shard!Init /\ FilesUnused /\ TimelineUnused
     \/ SpoolUnused /\ ShardUnused /\ Files!Init /\ TimelineUnused
     \/ SpoolUnused /\ ShardUnused /\ FilesUnused /\ Line!Init
  /\ [][PartNext]_<<vars, shard, files, timeline>>

(* What JsonlShard states of the rows and of the annotations.              *)
RowsKept == Shard!RowsKept
NotPaidAgain == Shard!NotPaidAgain

(* A file in use is not deleted, and a missed cleanup is marked (ArkFiles).*)
LeaseProtects == Files!LeaseProtects
NoOtherLeak == Files!NoOtherLeak

(* What Timeline states of the subtasks and of the observations.           *)
EachAnchorOnce == Line!EachAnchorOnce
NoContactBetween == Line!NoContactBetween
=============================================================================
