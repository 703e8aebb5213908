------------------------------ MODULE MC_Record ------------------------------
(***************************************************************************)
(* A record's downstream stages run in groups that share nothing but its   *)
(* media: {sta, cpa} (ContactStages) and {grd} (GrdWindows).  The initial  *)
(* state chooses the group; the other one has nothing to do.               *)
(***************************************************************************)
EXTENDS ContactStages

CONSTANTS Windows, Workers, Attempts, MaxGrdRuns

VARIABLES inventories, kept, stored, frames, rejected, stage, attempt, launches, next, jobs,
          completed, scope, raising, about, failures

grd == <<inventories, kept, stored, frames, rejected, stage, attempt, launches, next, jobs,
         completed, scope, raising, about, failures>>

Grd == INSTANCE GrdWindows
  WITH MaxRuns <- MaxGrdRuns, committed <- frames, pc <- stage, runs <- launches,
       faults <- failures

ASSUME GrdConstants == Grd!GrdAssumption

GrdUnused ==
  LET none == [w \in Grd!Window |-> Grd!NoItem]
      idle == [w \in Grd!Window |-> Grd!NoJob]
  IN  /\ stage = "unused" /\ inventories = [w \in Grd!Window |-> 0]
      /\ kept = none /\ stored = none /\ frames = <<>> /\ rejected = FALSE
      /\ attempt = 0 /\ launches = 0 /\ next = 1 /\ jobs = idle /\ completed = idle
      /\ scope = FALSE /\ raising = "none" /\ about = [w \in Grd!Window |-> {}] /\ failures = 0

ContactUnused ==
  /\ pc = "unused" /\ asked = <<>> /\ units = [t \in Task |-> {}]
  /\ committed = [t \in Task |-> NoRecord] /\ identity = [t \in Task |-> <<>>]
  /\ tracking = <<>> /\ complete = <<>> /\ tasks = {} /\ reuse = FALSE /\ runs = 0
  /\ needed = {} /\ lane = "sta" /\ cache = 0 /\ recovered = FALSE
  /\ invalid = FALSE /\ prefix = <<>> /\ item = <<>> /\ sta = 0 /\ faults = 0

RecordInit == \/ Init /\ GrdUnused
              \/ ContactUnused /\ Grd!Init

RecordNext == \/ pc # "unused" /\ Next /\ UNCHANGED grd
              \/ stage # "unused" /\ Grd!Next /\ UNCHANGED vars

RecordSpec ==
  /\ RecordInit /\ [][RecordNext]_<<vars, grd>>
  /\ WF_vars(Advance) /\ WF_grd(Grd!Record) /\ \A w \in Grd!Window : WF_grd(Grd!Job(w))

(* Question 2 of a window is asked about one inventory, through failures   *)
(* and restarts (GrdWindows).                                              *)
OneInventory == Grd!OneInventory

(* A registered frame names the object that was selected (GrdWindows).     *)
SelectionKept == Grd!SelectionKept

(* Each group ends, of contact stages or of GRD (RecordEnded, GrdEnded).   *)
GroupsEnd ==
  (pc = "begin" \/ stage = "begin") ~> (Grd!GrdEnded \/ (pc # "unused" /\ RecordEnded))
=============================================================================
