--------------------------- MODULE MC_LocalState ---------------------------
(***************************************************************************)
(* What processes keep outside themselves and have to get rid of, in two   *)
(* parts of which a specification starts one; the other has nothing to do. *)
(*                                                                         *)
(* The rows of the spool (CheckpointSpool).  Or the objects in COS and     *)
(* their manifests, one object of each of two processes (CosObjects).      *)
(***************************************************************************)
EXTENDS MC_CheckpointSpool

CONSTANTS o1, o2, q1, q2, Object, Reaper, MaxFaults

MCReaperOf == [o \in Object |-> IF o = o1 THEN q1 ELSE q2]

VARIABLES oPc, reaping, manifest, bucket, oFaults

Objects == INSTANCE CosObjects
  WITH pc <- oPc, faults <- oFaults, ReaperOf <- MCReaperOf

ASSUME ObjectsConstants == Objects!CosObjectsAssumption

objects == <<oPc, reaping, manifest, bucket, oFaults>>

ObjectsUnused ==
  /\ oPc = [o \in Object |-> "unused"] /\ reaping = [p \in Reaper |-> [o \in Object |-> "idle"]]
  /\ manifest = {} /\ bucket = {} /\ oFaults = 0

LocalNext ==
  \/ Next /\ UNCHANGED objects
  \/ (\E o \in Object : oPc[o] # "unused") /\ Objects!Next /\ UNCHANGED vars

LiveSpec == /\ \/ Init /\ ObjectsUnused
               \/ SpoolUnused /\ Objects!Init
            /\ [][LocalNext]_<<vars, objects>>
            /\ Fairness
            /\ \A o \in Object : WF_objects(Objects!Close(o))
            /\ \A p \in Reaper, o \in Object : WF_objects(Objects!Reap(p, o))

(* Every uploaded object goes (CosObjects): o2 is a second o1.             *)
ObjectGoes == Objects!ObjectGoes(o1)
=============================================================================
