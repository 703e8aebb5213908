------------------------ MODULE MC_CheckpointSpool ------------------------
(* Small instances of CheckpointSpool.                                     *)
EXTENDS CheckpointSpool, TLC

CONSTANTS p1, p2, w1, w2, a1, a2, b1, x, y

(* Two paths of one shard and one of another.                              *)
MCPath == {a1, a2, b1}
MCPathOfShard == {a1, a2}
MCShardOf == [p \in Path |-> IF p = b1 THEN "b" ELSE "a"]

Row(p, v) == [path |-> p, payload |-> v]

(* A pair of rows, overlapping calls, a body that conflicts with that of   *)
(* another call, and a row of another shard.                               *)
MCRequests == {{Row(a1, x), Row(a2, x)}, {Row(a1, y)}, {Row(b1, x)}}
MCRequestsOfShard == {{Row(a1, x), Row(a2, x)}, {Row(a2, x)}}

(* A spool that is not used: its process is never started.                *)
SpoolUnused ==
  /\ outbox = {} /\ ledger = {} /\ published = {} /\ cooling = {} /\ cloud = {}
  /\ mode = "down" /\ runs = MaxRuns /\ acked = {}
  /\ queue = {} /\ mirror = {} /\ known = {} /\ ready = {}
  /\ opc = "exited" /\ batch = {} /\ acks = {}
  /\ wpc = [w \in Worker |-> "dead"] /\ claim = [w \in Worker |-> {}]
  /\ outcome = [w \in Worker |-> "none"] /\ ppc = [p \in Producer |-> "idle"]
  /\ rows = [p \in Producer |-> {}] /\ left = [p \in Producer |-> {}]

ThreadSymmetry == Permutations(Worker) \cup Permutations(Producer)
=============================================================================
