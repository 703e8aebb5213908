-------------------------- MODULE CheckpointSpool --------------------------
(***************************************************************************)
(* The batched mode of scripts/checkpoint_spool.py: producers queue rows   *)
(* under one mutex and wait; a single owner thread (_commit_loop) commits  *)
(* batches to SQLite with the mutex released; cloud workers claim durable  *)
(* rows, write them as content-addressed packs (the pack writers of        *)
(* durable_jsonl.py) and hand the outcome back to the owner.               *)
(*                                                                         *)
(* A unit is a relative path with a payload.  Every dict keyed by path is  *)
(* the set of its rows.  Byte limits are not distinguished from the file   *)
(* limit, the batching delays from a wait of any length.                   *)
(***************************************************************************)
EXTENDS Naturals, FiniteSets

CONSTANTS
  Producer,      \* threads that call enqueue_many
  Worker,        \* checkpoint-sync-<i> threads
  Path, Payload, \* relative paths and record bodies
  ShardOf,       \* Path -> shard: the parent directory of a path
  Requests,      \* the row groups that producers hand to enqueue_many
  MaxFiles,      \* max_files
  LocalBatch,    \* local_batch_size (> 1: the batched mode)
  CloudBatch,    \* batch_size
  FinalRecords,  \* path_kind = 'final-record'
  MaxRuns        \* bound: how many times the process is started

Unit == [path : Path, payload : Payload]

Functional(rows) == \A u, v \in rows : u.path = v.path => u = v

ASSUME SpoolAssumption ==
  /\ Requests \subseteq {r \in SUBSET Unit : r # {} /\ IsFiniteSet(r) /\ Functional(r)}
  /\ MaxFiles \in Nat \ {0}
  /\ LocalBatch \in Nat \ {0, 1}
  /\ CloudBatch \in Nat \ {0}
  /\ FinalRecords \in BOOLEAN
  /\ MaxRuns \in Nat

VARIABLES
  \* the SQLite file and the cloud: they survive the process
  outbox,    \* jobs table
  ledger,    \* accepted table (final records only)
  published, \* published table (final records only)
  cooling,   \* groups of rows that failed together and whose retry_at is not due
  cloud,     \* packs written: a set of sets of units
  \* the process
  mode,      \* "down", "running" or "stopping"
  runs,      \* how often the process has started
  queue,     \* local_queue: units with an open commit ticket
  mirror,    \* self.jobs
  known,     \* self.accepted
  ready,     \* self.ready: rows of mirror that no worker has claimed
  opc,       \* owner: "idle", "open" (transaction), "committed", "failed", "exited"
  batch,     \* tickets of the owner's transaction
  acks,      \* workers whose cloud acknowledgement is in it
  wpc,       \* worker: "idle", "writing", "done", "acking" or "dead"
  claim,     \* worker -> claimed rows
  outcome,   \* worker -> "none", "ok" or "error"
  ppc,       \* producer: "idle", "trying" or "waiting"
  rows,      \* producer -> the rows of its call
  left,      \* producer -> the rows whose ticket it still waits for
  \* history
  acked      \* every row for which enqueue_many has returned normally

durable == <<outbox, ledger, published, cooling, cloud>>
index == <<queue, mirror, known, ready>>
owner == <<opc, batch, acks>>
workers == <<wpc, claim, outcome>>
producers == <<ppc, rows, left>>
vars == <<durable, mode, runs, index, owner, workers, producers, acked>>

(* Every table and index is keyed by path.                                 *)
SamePath(u, rs) == \E v \in rs : v.path = u.path

(* conflicting_checkpoint_spool_unit.                                      *)
Conflict(u, rs) == SamePath(u, rs) /\ u \notin rs

(* cloud_ack_queue: each cloud writer holds at most one completion.        *)
AckQueue == {w \in Worker : wpc[w] = "acking"}

(* active_writers: claims whose acknowledgement has not been applied.      *)
ActiveWriters == {w \in Worker : wpc[w] \in {"writing", "done", "acking"}}

Stored == UNION cloud

(* The first n of a set, or all of a smaller one; the order is left open.  *)
Fills(part, whole, n) ==
  \/ Cardinality(part) = n
  \/ part = whole /\ Cardinality(whole) <= n

Claimed(ws) == UNION {claim[w] : w \in ws}

CompletedOrNot(ws) == Claimed(ws)
Completed(ws) == Claimed({w \in ws : outcome[w] = "ok"})

Failed(ws) == {w \in ws : outcome[w] = "error"}

(* Rows that a worker may claim.                                           *)
Due == ready \ UNION cooling

Init ==
  /\ outbox = {} /\ ledger = {} /\ published = {} /\ cooling = {} /\ cloud = {}
  /\ mode = "down" /\ runs = 0
  /\ queue = {} /\ mirror = {} /\ known = {} /\ ready = {}
  /\ opc = "exited" /\ batch = {} /\ acks = {}
  /\ wpc = [w \in Worker |-> "dead"]
  /\ claim = [w \in Worker |-> {}]
  /\ outcome = [w \in Worker |-> "none"]
  /\ ppc = [p \in Producer |-> "idle"]
  /\ rows = [p \in Producer |-> {}]
  /\ left = [p \in Producer |-> {}]
  /\ acked = {}

-----------------------------------------------------------------------------
(* Producers: enqueue_many.                                                *)

Call(p) ==
  /\ mode # "down" /\ ppc[p] = "idle"
  /\ \E r \in Requests :
       /\ Cardinality(r) <= MaxFiles
       /\ rows' = [rows EXCEPT ![p] = r]
  /\ ppc' = [ppc EXCEPT ![p] = "trying"]
  /\ UNCHANGED <<durable, mode, runs, index, owner, workers, left, acked>>

(* The rows that the process has accepted, queued or mirrored.             *)
Indexed == known \cup queue \cup mirror

(* The rows of a call that no index knows.                                 *)
NewRowsOf(p, rs) == {u \in rows[p] : ~ SamePath(u, rs)}
NewRows(p) == NewRowsOf(p, Indexed)

(* A queued row shares the ticket of its first caller: duplicate callers   *)
(* wait, too.                                                              *)
TicketsOfNewRows(p) == NewRows(p)
Tickets(p) == NewRows(p) \cup (rows[p] \cap queue)

(* pending + queued + new <= max_files.                                    *)
FitsBesideMirror(p) == Cardinality(mirror) + Cardinality(NewRows(p)) <= MaxFiles
Fits(p) ==
  Cardinality(mirror) + Cardinality(queue) + Cardinality(NewRows(p)) <= MaxFiles

(* All the new rows of a call are queued in one go.                        *)
Admit(p) ==
  /\ ppc[p] = "trying" /\ mode = "running"
  /\ \A u \in rows[p] : ~ Conflict(u, Indexed)
  /\ Fits(p)
  /\ queue' = queue \cup NewRows(p)
  /\ left' = [left EXCEPT ![p] = Tickets(p)]
  /\ ppc' = [ppc EXCEPT ![p] = "waiting"]
  /\ UNCHANGED <<durable, mode, runs, mirror, known, ready, owner, workers,
                 rows, acked>>

(* enqueue_many raises: stopping, unhealthy (full disk, stalled cloud) or  *)
(* a payload that differs from the one its path already has.  The disk and *)
(* the clock may make it unhealthy at any time.                            *)
Refuse(p) ==
  /\ ppc[p] = "trying"
  /\ ppc' = [ppc EXCEPT ![p] = "idle"]
  /\ rows' = [rows EXCEPT ![p] = {}]
  /\ UNCHANGED <<durable, mode, runs, index, owner, workers, left, acked>>

(* The last ticket is set without an error: success is reported.           *)
Return(p) ==
  /\ ppc[p] = "waiting" /\ left[p] = {}
  /\ ppc' = [ppc EXCEPT ![p] = "idle"]
  /\ rows' = [rows EXCEPT ![p] = {}]
  /\ acked' = acked \cup rows[p]
  /\ UNCHANGED <<durable, mode, runs, index, owner, workers, left>>

ShardRows(s, rs) == {u \in rs : ShardOf[u.path] = s}

(* What flush_checkpoint waits for.                                        *)
BarrierOfMirror(s) == ShardRows(s, mirror) = {}
BarrierOpen(s) == ShardRows(s, queue) = {} /\ ShardRows(s, mirror) = {}

(* _fail_local_queue: every ticket still in the queue is set with an error *)
(* and its waiters raise.                                                  *)
FailLocalQueue ==
  LET failed == {p \in Producer : ppc[p] = "waiting" /\ left[p] # {}}
  IN  /\ queue' = {}
      /\ ppc' = [p \in Producer |-> IF p \in failed THEN "idle" ELSE ppc[p]]
      /\ rows' = [p \in Producer |-> IF p \in failed THEN {} ELSE rows[p]]
      /\ left' = [p \in Producer |-> {}]

-----------------------------------------------------------------------------
(* The owner: _commit_loop.                                                *)

(* Select a batch and all acknowledgements, then release the mutex.  The   *)
(* tickets stay in the queue: only this thread removes them.  The first    *)
(* LocalBatch tickets are taken; which ones these are is left open.        *)
OwnerBegin ==
  /\ opc = "idle" /\ mode # "down"
  /\ acks' = AckQueue
  /\ \/ /\ mode = "running"
        /\ \E b \in SUBSET queue :
             /\ Fills(b, queue, LocalBatch)
             /\ batch' = b
        /\ UNCHANGED <<queue, producers>>
     \/ /\ mode = "stopping"
        /\ batch' = {}
        /\ FailLocalQueue
  /\ batch' # {} \/ acks' # {}
  /\ opc' = "open"
  /\ UNCHANGED <<durable, mode, runs, mirror, known, ready, workers, acked>>

(* Nothing to acknowledge while stopping: fail the queue, and leave once   *)
(* no cloud write is running any more.                                     *)
OwnerDrain ==
  /\ opc = "idle" /\ mode = "stopping" /\ AckQueue = {}
  /\ queue # {} \/ ActiveWriters = {}
  /\ FailLocalQueue
  /\ opc' = IF ActiveWriters = {} THEN "exited" ELSE "idle"
  /\ UNCHANGED <<durable, mode, runs, mirror, known, ready, batch, acks,
                 workers, acked>>

(* _commit_database_batch: one FULL-synchronous transaction.  A row whose  *)
(* path is a primary key already would roll it back.                       *)
OwnerCommit ==
  LET completed == Completed(acks)
      accepted == IF FinalRecords THEN ledger \cup batch ELSE {}
  IN  /\ opc = "open"
      /\ \A u \in batch : ~ SamePath(u, outbox) /\ ~ SamePath(u, ledger)
      /\ outbox' = (outbox \cup batch) \ completed
      /\ ledger' = accepted
      /\ published' = published \cup (completed \cap accepted)
      /\ cooling' = cooling \cup {claim[w] : w \in Failed(acks)}
      /\ opc' = "committed"
      /\ UNCHANGED <<cloud, mode, runs, index, batch, acks, workers, producers,
                     acked>>

(* The tickets that producer p still waits for after a commit.             *)
WaitsForWholeCall(p) == IF left[p] \subseteq batch THEN {} ELSE left[p]
StillWaitsFor(p) == left[p] \ batch

(* The rows that become ready: new ones, and those of failed uploads.      *)
ScheduleNew == batch
Schedule == batch \cup Claimed(Failed(acks))

(* With the mutex again: the memory follows the transaction, and only then *)
(* the tickets and the acknowledged workers are notified.                  *)
OwnerPublish ==
  /\ opc = "committed"
  /\ queue' = queue \ batch
  /\ mirror' = (mirror \cup batch) \ Completed(acks)
  /\ known' = IF FinalRecords THEN known \cup batch ELSE {}
  /\ ready' = ready \cup Schedule
  /\ left' = [p \in Producer |-> StillWaitsFor(p)]
  /\ wpc' = [w \in Worker |-> IF w \in acks THEN "idle" ELSE wpc[w]]
  /\ claim' = [w \in Worker |-> IF w \in acks THEN {} ELSE claim[w]]
  /\ outcome' = [w \in Worker |-> IF w \in acks THEN "none" ELSE outcome[w]]
  /\ opc' = "idle" /\ batch' = {} /\ acks' = {}
  /\ UNCHANGED <<durable, mode, runs, ppc, rows, acked>>

(* check_health or SQLite raises before COMMIT: the spool fails stop.      *)
(* Everyone who waits for this thread is told, and the workers among them  *)
(* raise.  (Bound: only while the process may be started again.)           *)
OwnerFail ==
  /\ opc = "open" /\ runs < MaxRuns
  /\ opc' = "failed" /\ mode' = "stopping"
  /\ FailLocalQueue
  /\ batch' = {} /\ acks' = {}
  /\ wpc' = [w \in Worker |-> IF w \in AckQueue THEN "dead" ELSE wpc[w]]
  /\ UNCHANGED <<durable, runs, mirror, known, ready, claim, outcome, acked>>

-----------------------------------------------------------------------------
(* Cloud workers: _worker_loop.                                            *)

(* _claim_batch: some due row, and as many due rows of its shard as fit.   *)
WorkerClaim(w) ==
  /\ wpc[w] = "idle" /\ mode = "running"
  /\ \E first \in Due :
       LET shard == {u \in Due : ShardOf[u.path] = ShardOf[first.path]}
       IN  \E c \in SUBSET shard :
             /\ first \in c
             /\ Fills(c, shard, CloudBatch)
             /\ claim' = [claim EXCEPT ![w] = c]
             /\ ready' = ready \ c
  /\ wpc' = [wpc EXCEPT ![w] = "writing"]
  /\ UNCHANGED <<durable, mode, runs, queue, mirror, known, owner, outcome,
                 producers, acked>>

(* The pack is stored and the writer returns.                              *)
WriteOk(w) ==
  /\ wpc[w] = "writing"
  /\ cloud' = cloud \cup {claim[w]}
  /\ wpc' = [wpc EXCEPT ![w] = "done"]
  /\ outcome' = [outcome EXCEPT ![w] = "ok"]
  /\ UNCHANGED <<outbox, ledger, published, cooling, mode, runs, index, owner,
                 claim, producers, acked>>

(* The writer raises; a late failure may come after the pack was stored.   *)
WriteError(w) ==
  /\ wpc[w] = "writing"
  /\ cloud' \in {cloud, cloud \cup {claim[w]}}
  /\ wpc' = [wpc EXCEPT ![w] = "done"]
  /\ outcome' = [outcome EXCEPT ![w] = "error"]
  /\ UNCHANGED <<outbox, ledger, published, cooling, mode, runs, index, owner,
                 claim, producers, acked>>

(* Hand the outcome to the owner, or raise when it is gone.                *)
PostAck(w) ==
  /\ wpc[w] = "done"
  /\ wpc' = [wpc EXCEPT ![w] = IF opc = "failed" THEN "dead" ELSE "acking"]
  /\ UNCHANGED <<durable, mode, runs, index, owner, claim, outcome, producers,
                 acked>>

WorkerExit(w) ==
  /\ wpc[w] = "idle" /\ mode = "stopping"
  /\ wpc' = [wpc EXCEPT ![w] = "dead"]
  /\ UNCHANGED <<durable, mode, runs, index, owner, claim, outcome, producers,
                 acked>>

(* The common retry_at of rows that failed together passes.                *)
BackoffElapsed(group) ==
  /\ group \in cooling
  /\ cooling' = cooling \ {group}
  /\ UNCHANGED <<outbox, ledger, published, cloud, mode, runs, index, owner,
                 workers, producers, acked>>

-----------------------------------------------------------------------------
(* The process.                                                            *)

(* close: everything is drained, or its timeout has passed.                *)
Close ==
  /\ mode = "running" /\ runs < MaxRuns
  /\ mode' = "stopping"
  /\ UNCHANGED <<durable, runs, index, owner, workers, producers, acked>>

(* What the end of the process leaves of its memory.                       *)
LoseMemory ==
  /\ mode' = "down"
  /\ queue' = {} /\ mirror' = {} /\ known' = {} /\ ready' = {}
  /\ opc' = "exited" /\ batch' = {} /\ acks' = {}
  /\ wpc' = [w \in Worker |-> "dead"]
  /\ claim' = [w \in Worker |-> {}]
  /\ outcome' = [w \in Worker |-> "none"]
  /\ ppc' = [p \in Producer |-> "idle"]
  /\ rows' = [p \in Producer |-> {}]
  /\ left' = [p \in Producer |-> {}]
  /\ UNCHANGED <<durable, runs, acked>>

(* The process ends after close, its threads joined or not.                *)
Shutdown == mode = "stopping" /\ LoseMemory

(* The process dies at any step.  (Bound: only while it may start again.)  *)
Crash == mode = "running" /\ runs < MaxRuns /\ LoseMemory

(* The accepted table is completed from the jobs table, and an accepted    *)
(* row that the jobs table lacks counts as published.                      *)
LedgerAtStart ==
  IF FinalRecords THEN ledger \cup {u \in outbox : ~ SamePath(u, ledger)} ELSE {}
PublishedAtStart == published \cup {u \in LedgerAtStart : ~ SamePath(u, outbox)}

(* __init__ under the writer lock: the tables are migrated and the indexes *)
(* rebuilt from them.                                                      *)
Start ==
  /\ mode = "down" /\ runs < MaxRuns
  /\ runs' = runs + 1
  /\ mode' = "running"
  /\ ledger' = LedgerAtStart
  /\ published' = PublishedAtStart
  /\ known' = LedgerAtStart
  /\ mirror' = outbox /\ ready' = outbox
  /\ opc' = "idle"
  /\ wpc' = [w \in Worker |-> "idle"]
  /\ UNCHANGED <<outbox, cooling, cloud, queue, batch, acks, claim, outcome,
                 producers, acked>>

-----------------------------------------------------------------------------
OwnerNext == OwnerBegin \/ OwnerDrain \/ OwnerCommit \/ OwnerPublish

ProducerNext(p) == Call(p) \/ Admit(p) \/ Refuse(p) \/ Return(p)

WorkerNext(w) ==
  WorkerClaim(w) \/ WriteOk(w) \/ WriteError(w) \/ PostAck(w) \/ WorkerExit(w)

ProcessNext == Close \/ Shutdown \/ Crash \/ Start

Next ==
  \/ OwnerNext \/ OwnerFail
  \/ \E p \in Producer : ProducerNext(p)
  \/ \E w \in Worker : WorkerNext(w)
  \/ \E group \in cooling : BackoffElapsed(group)
  \/ ProcessNext

Spec == Init /\ [][Next]_vars

(* Threads are scheduled; the backoff is a clock; a process that has       *)
(* stopped is started again; and a row whose write is tried for ever is    *)
(* written at last (the cloud is not down for good).                       *)
Fairness ==
  /\ WF_vars(OwnerNext)
  /\ \A p \in Producer : WF_vars(Admit(p) \/ Refuse(p)) /\ WF_vars(Return(p))
  /\ \A w \in Worker :
       /\ WF_vars(WorkerClaim(w)) /\ WF_vars(WriteOk(w) \/ WriteError(w))
       /\ WF_vars(PostAck(w)) /\ WF_vars(WorkerExit(w))
  /\ \A group \in SUBSET Unit : WF_vars(BackoffElapsed(group))
  /\ \A u \in Unit : SF_vars(\E w \in Worker : u \in claim[w] /\ WriteOk(w))
  /\ WF_vars(Shutdown) /\ WF_vars(Start)

FairSpec == Spec /\ Fairness

-----------------------------------------------------------------------------
(* Properties.                                                             *)

(* The types, and the bookkeeping every other property builds on: a worker *)
(* has a claim exactly while it is an active writer.                       *)
TypeOK ==
  /\ outbox \subseteq Unit /\ ledger \subseteq Unit /\ published \subseteq Unit
  /\ cooling \subseteq SUBSET Unit /\ cloud \subseteq SUBSET Unit
  /\ mode \in {"down", "running", "stopping"} /\ runs \in Nat
  /\ queue \subseteq Unit /\ mirror \subseteq Unit
  /\ known \subseteq Unit /\ ready \subseteq Unit
  /\ opc \in {"idle", "open", "committed", "failed", "exited"}
  /\ batch \subseteq Unit /\ acks \subseteq Worker
  /\ wpc \in [Worker -> {"idle", "writing", "done", "acking", "dead"}]
  /\ claim \in [Worker -> SUBSET Unit]
  /\ outcome \in [Worker -> {"none", "ok", "error"}]
  /\ \A w \in Worker : wpc[w] # "dead" => (claim[w] # {} <=> w \in ActiveWriters)
  /\ ppc \in [Producer -> {"idle", "trying", "waiting"}]
  /\ rows \in [Producer -> SUBSET Unit]
  /\ left \in [Producer -> SUBSET Unit]
  /\ acked \subseteq Unit

(* "Acknowledgement means a FULL-synchronous local SQLite commit": a row   *)
(* for which enqueue_many returned is in the durable outbox, or left it    *)
(* because a pack in the cloud holds it; no crash, failed owner, failed    *)
(* upload or shared ticket makes an acknowledged row disappear.            *)
AckedIsDurable == acked \subseteq outbox \cup Stored

(* Downstream stages consume the publication ledger: what it lists is in   *)
(* the cloud, also when the ledger was completed at a restart from the     *)
(* rows that the outbox no longer holds.                                   *)
PublishedIsStored == published \subseteq Stored

(* Two workers never hold, and so never write, the same row at once, and a *)
(* row that is held is not offered for a second claim.                     *)
ExclusiveClaims ==
  /\ \A v, w \in ActiveWriters : v # w => claim[v] \cap claim[w] = {}
  /\ \A w \in ActiveWriters : claim[w] \cap ready = {}

(* Rows waiting for a commit, being committed and waiting for the cloud    *)
(* together never exceed max_files, although producers are admitted while  *)
(* the owner's transaction is open.                                        *)
Capacity == Cardinality(mirror \cup queue) <= MaxFiles

(* The owner's INSERT never meets a primary key that exists already; it    *)
(* would roll back and fail-stop the whole spool.                          *)
InsertsAreNew ==
  opc = "open" => \A u \in batch : ~ SamePath(u, outbox) /\ ~ SamePath(u, ledger)

(* "A read/delete barrier: never load stale cloud data or resurrect a      *)
(* unit": when flush_checkpoint returns, every acknowledged row of the     *)
(* shard is in the cloud, and no write that would bring a row of it back   *)
(* after a deletion is running or can still be started from the outbox.    *)
BarrierSound ==
  mode = "running" =>
    \A s \in {ShardOf[p] : p \in Path} : BarrierOpen(s) =>
      /\ ShardRows(s, acked) \subseteq Stored
      /\ \A w \in ActiveWriters : ShardRows(s, claim[w]) = {}
      /\ ShardRows(s, outbox) = {}

(* A final record path has one body in all the cloud's packs and tables,   *)
(* however often it was offered, retried and replayed.                     *)
OneBodyPerPath == FinalRecords => Functional(ledger \cup outbox \cup Stored)

(* Whoever waits for the owner is told when it ends: after a failure or an *)
(* orderly exit no producer waits for a ticket nobody will set and no      *)
(* worker for an acknowledgement nobody will apply.                        *)
NobodyStranded ==
  opc \in {"failed", "exited"} =>
    /\ \A p \in Producer : ppc[p] = "waiting" => left[p] = {}
    /\ AckQueue = {}

(* "A restart cannot forget a completed record and replay its (potentially *)
(* billable) inference": a final record that was accepted and has left the *)
(* outbox never enters it again, and acceptance is never forgotten.        *)
CompletedStaysCompleted ==
  [][FinalRecords => /\ ledger \subseteq ledger'
                     /\ outbox' \cap (ledger \ outbox) = {}]_vars

(* Every row of the outbox is delivered, through crashes, failed uploads   *)
(* and regrouped retries.                                                  *)
EventuallyStored == \A u \in Unit : u \in outbox ~> u \in Stored

(* No call of enqueue_many hangs: it succeeds or it raises.                *)
CallsEnd == \A p \in Producer : ppc[p] = "waiting" ~> ppc[p] = "idle"

(* The spool is a durable outbox.                                          *)
Outbox == INSTANCE DurableOutbox
            WITH promised <- acked, held <- outbox, delivered <- Stored

ImplementsOutbox == Outbox!Spec

(* scripts/audit_annotation_stage.py reports 'duplicate_input_uid' and     *)
(* 'unexpected_record_count' for a shard whose objects repeat a record.    *)
NoRecordStoredTwice == \A p, q \in cloud : p # q => p \cap q = {}

-----------------------------------------------------------------------------
(* The inductive invariant behind the safety properties.                   *)

(* The mirror is the jobs table, except between COMMIT and the publication *)
(* of its effects; a process that is down has no memory.                   *)
MirrorFollowsOutbox ==
  /\ mode = "down" => /\ opc = "exited" /\ queue = {} /\ mirror = {}
                      /\ known = {} /\ ready = {}
                      /\ \A w \in Worker : claim[w] = {}
  /\ mode # "down" =>
       outbox = IF opc = "committed" THEN (mirror \cup batch) \ Completed(acks)
                                     ELSE mirror

(* Tickets are for new paths, and the transaction is over some of them.    *)
QueueIsNew ==
  /\ batch \subseteq queue /\ acks \subseteq AckQueue
  /\ opc \notin {"open", "committed"} => batch = {} /\ acks = {}
  /\ Functional(queue)
  /\ \A u \in queue : ~ SamePath(u, mirror) /\ ~ SamePath(u, known)
  /\ opc \in {"failed", "exited"} => queue = {} /\ AckQueue = {} /\ mode # "running"
  /\ opc = "exited" => ActiveWriters = {}

(* A claim is a part of the mirror that nobody else has, and an upload     *)
(* that ended well left its rows in the cloud.                             *)
ClaimsAreExclusive ==
  /\ ready \subseteq mirror
  /\ \A w \in ActiveWriters : claim[w] \subseteq mirror
  /\ ExclusiveClaims
  /\ \A w \in Worker :
       wpc[w] \in {"done", "acking"} /\ outcome[w] = "ok" => claim[w] \subseteq Stored

(* A producer waits for queued rows only; its other rows are safe.         *)
TicketsAreQueued ==
  \A p \in Producer :
    /\ left[p] \subseteq queue /\ left[p] \subseteq rows[p]
    /\ Functional(rows[p])
    /\ ppc[p] # "waiting" => left[p] = {}
    /\ ppc[p] = "waiting" => rows[p] \ left[p] \subseteq outbox \cup Stored

(* The tables of final records and their image in memory agree.            *)
LedgerIsExact ==
  /\ ~ FinalRecords => ledger = {} /\ known = {} /\ published = {}
  /\ FinalRecords =>
       /\ Functional(ledger)
       /\ outbox \subseteq ledger /\ Stored \subseteq ledger
       /\ ledger \subseteq outbox \cup Stored
       /\ mirror \subseteq known
       /\ mode # "down" =>
            ledger = IF opc = "committed" THEN known \cup batch ELSE known

IndInv ==
  /\ TypeOK /\ AckedIsDurable /\ PublishedIsStored
  /\ MirrorFollowsOutbox /\ QueueIsNew /\ ClaimsAreExclusive
  /\ TicketsAreQueued /\ LedgerIsExact
=============================================================================
