# Verification of the VQA annotation pipeline

The repository annotates robot videos with large models: it cuts an input into
stages (Subtask, ECoT, GRD, STA, CPA), sends thousands of concurrent HTTP
requests to paid model services that throttle, stall and fail, and publishes
JSONL records to a slow cloud file system.  It has no tests.  What can go wrong
in ways nobody notices is its concurrency and recovery: the same work paid
twice, a record lost or mixed from two answers, a run that waits for ever.  That
is what these modules specify: TLA+ models checked with TLC on small instances,
and theorems proved with TLAPS for every value of the constants.

Every definition is written from the source under `src/`; `map` in
`PROJECT.json` names the lines it stands for.

## 1. The system

| Component | State it keeps | Operations | Hard behaviour |
|---|---|---|---|
| **Checkpoint spool** (`scripts/checkpoint_spool.py`) | SQLite tables `jobs`, `accepted`, `published`; in memory `local_queue`, `jobs`, `accepted`, `ready`, `active_writers`, `cloud_ack_queue` | `enqueue_many`, `_commit_loop` (one owner of the database), `_worker_loop`, `flush_checkpoint`, `close`, `__init__` as recovery | the mutex is released during a transaction; crash between commit and publication; fail-stop with waiters; retries |
| **Durable JSONL** (`scripts/durable_jsonl.py`) | packs in the cloud, a checkpoint index with key locks | `atomic_jsonl_records`, the batch writers, `put_checkpoint_unit` | a write that raises after `os.replace`; regrouped retries |
| **Output shards and resume** (`annotate_videos.py`, `resume_validation_pool.py`) | one JSONL file or a directory of immutable ones per task and batch | resume scan, quarantine, review of older rows, append | partial tails; a judgement by the first row; a crash in the middle of a repair |
| **Service circuit** (`scripts/recoverable_service_circuit.py`) | state, generation, failures, cooldown, a published view | `admit`, `finish`, `allows` | late results of older generations, lock-free reads, cancelled probes |
| **Paced dispatcher** (`scripts/paced_request_dispatcher.py`) | queue of tickets, generation, dispatcher and watchdog threads | `wait`, `_dispatch_loop`, `_watchdog_loop` | threads that die, stall and recover late; cancellation against grant |
| **Fair admission** (`scripts/fair_request_admission.py`) | memory reservations per lane, shared network slots, limits from a control file, the cached availability check | `reserve`, `admit`, `set_limit`, `__call__` | cancellation of granted tickets, shrinking limits, starvation between lanes, an interrupted leader |
| **API client** (`scripts/annotate_videos.py`) | pacer, circuits, retries, stop file | `request_json`, `attempt_admission`, `record_fatal` | takes circuit ticket, permit and network slot in turn, each of which may be stale when the next is there |
| **LAS customer operator** (`scripts/las_customer_ark_operator.py`) | journal files in two tiers, archives, marker files, media objects | `call`, `cached_call`, `_poll`, `_invalidate`, publication | a crash between a paid submission and its record; an old task that ends after it was given up |
| **LAS sample** (`third_party/doubao_las_annotation`, `las_subtask.py`, `las_transport.py`, `las_recovery.py`, `request_parallel.py`) | a file per step, a journal of tasks, a signed URL | `process_sample`, `call_operator`, quarantine, URL renewal | steps cached from different answers; a task under an expired URL |
| **Episode pipeline** (`scripts/stage_pipeline.py`, `annotate_videos.py`) | leases on shared media, bounded lanes, checkpoint units | `process_batch`, `run_lane`, `ready`, `finish`, `annotate_source_with_retries` | last release against a new lease; failing preparation; resume in the middle of an episode |
| **Contact stages** (`annotate_videos.py`, `cpa_downstream.py`, `contact_validation.py`, `sta_contact_reuse.py`) | a checkpoint of answers per task, final records of STA and CPA, `tracking.json`, `complete.json` | one lane per task, recovery of evidence, recheck, review, points, synchronisation | evidence that survives the answer it belongs to; tasks added by a later launch |
| **Grounding** (`annotate_videos.py`, `grd_inventory_review.py`, `provider_content_rejection.py`) | a checkpoint of inventories and items, refused videos | window jobs, name review, refusal | a selection by name while names are corrected; a refusal behind another failure |
| **CPA fleet controller** (`scripts/cpa_fleet_controller.py` and its scripts) | assignments, attempts, completion log | collect, charge, probe, rebalance, launch, save | late launches, unreachable nodes, a log ahead of the cloud |
| **Temporary files** (`ark_file_transport.py`, `cos_ecot_images.py`) | record, lease, lock and marker files; manifests | acquire, publish, close, reap | deletion against reuse by another process; lost answers |
| **Timeline** (`las_subtask.py`, `annotate_videos.py`) | - | normalisation, validation, anchors, contact frames, observations | tolerances, rounding and seams |
| Rate feedback, native gates, media pools, worker pools, prompts and geometry, STA/CPA generator, shell scripts | - | - | numeric or sequential code, or I/O around libraries |

How they interact.  A batch is annotated by one lane per task; the lanes share
prepared media and each keeps the answers of an episode in a checkpoint of its
own until the final record is durable.  `request_json` first asks whether the
provider and the episode are still to be served (the cached check), reserves
working memory, then for each HTTP attempt takes a circuit ticket, waits for the
pacer's permit, checks the ticket, takes a network slot, checks the ticket again
and sends; the result goes back to the circuit and the pacer.  Media reaches the
services through temporary files at Ark and COS that several requests share.  A
finished unit goes to the checkpoint spool and a finished record to the
final-record spool; both acknowledge after a local commit and replicate behind
the caller's back.  The CPA fleet runs many such processes on many nodes and
settles what each has stored.

What makes each part correct: acknowledged rows are neither lost nor billed
again (spool, shards, checkpoints, journals); a record is of one chain of
answers (contact stages, grounding, LAS sample); what is shared is there while
it is used and goes afterwards (media leases, Ark, COS); the circuit admits one
attempt while it is broken and never strands; capacity is neither leaked nor
exceeded and no lane starves; every call, record, unit and run ends.  The full
list of hazards, each with its source line and the properties that watch it, is
`hazards` in `PROJECT.json`.

## 2. Modules

Each section names what is easy to miss between model and code; what a variable
or action stands for is in the module's comments and in `map`.

### `CheckpointSpool`, with `DurableOutbox` as its specification

The batched mode (`local_batch_size > 1`), which both spools of the program use.

| Model | Code |
|---|---|
| `outbox`, `ledger`, `published` | tables `jobs`, `accepted`, `published`: they survive a crash |
| `cloud` | the packs `pack-<digest>.jsonl`, a set of sets of rows: a pack's name is its content |
| `cooling` | `retry_at`, common to the rows that failed together |
| `queue`, `mirror`, `known`, `ready` | `local_queue`, `self.jobs`, `self.accepted`, `self.ready` |
| `Call`, `Admit`, `Refuse`, `Return` | `enqueue_many` before its loop, in it, raising, after its tickets |
| `OwnerBegin`, `OwnerCommit`, `OwnerPublish` | the owner's step under the mutex, its transaction without the mutex, and the publication of the effects with the mutex again |
| `OwnerFail`, `OwnerDrain` | an exception before COMMIT; stopping |
| `WorkerClaim`, `WriteOk`, `WriteError`, `PostAck`, `WorkerExit` | `_worker_loop` |
| `Close`, `Shutdown`, `Crash`, `Start` | `close`, the end of the process, `__init__` with its migrations |

Dictionaries keyed by path are sets of rows (path, payload), so that a row and a
conflicting row of the same path are told apart.  Abstracted: byte limits (they
act like the file limit), batching delays (a wait of any length), the order
within a batch, metrics, health by wall clock (`Refuse` may happen at any time).

`DurableOutbox` says in three actions what the module docstring promises:
`Transact`, `Deliver`, `Promise`.  `ImplementsOutbox` is the refinement
`promised <- acked, held <- outbox, delivered <- Stored`.

### `JsonlShard`

The rows of one task (STA or GRD) and batch in their two layouts, read and
repaired by every launch.  A row is its episode, a number and what the run makes
of it: of this model, of the older accepted model, not yet reviewed, of another
model, or cut off.  The pool may answer, or give no answer, in which case the
main process examines the row; a failing review ends the run like a crash.  The
initial shard holds up to two rows, a pack and a partial tail, and an earlier
output may supply one row.

### `ServiceCircuit`

`fresh` is the set of callers whose ticket carries the newest generation; it
replaces the generation counter, which has no bound in the code and is only ever
compared for equality.  `Admit` and the first disjunct of `Respond` are the
lock-free reads of `_view`; `Finish` is `finish` under the lock, split as the
code is: cancelled, Retry-After (whatever its generation), stale, probe, closed.
`cooled` abstracts the clock against `until`.

### `Requests`, over `ServiceCircuit`

The attempts of requests to one model, in the configuration of the Ark and LAS
fleets.  `Circuit == INSTANCE ServiceCircuit WITH Caller <- Request`: its actions
are parts of the actions here, and one circuit attempt covers everything from
the ticket to the answer.  `Next` composes the circuit with the provider's
cooldown, the network slots, the classification of answers, `record_fatal` and
the stop file.  A request counts as sent from its last check on.  The permit of
the pacer is a wait of any length (`PacedDispatch`), the slot one of a set
(`FairAdmission`); the json-mode fallback, `http_limiter` and the rate-feedback
sample are left out, the age of the last success is free.

### `AvailabilityCheck`

Two `CachedAvailabilityCheck`s, one over the other, as the Ark and LAS fleet
builds them.  Request threads ask the client's (`ensure_available`).  The one
that refreshes it checks the content scope of its own episode and then asks the
admission's (`annotate_videos.py` 1592-1596), as threads that wait for memory or
a slot do directly; only the check behind that one looks at the stop file
(`check_request_provider`, 9771-9790).  The admission's cache is also kept recent
by a thread of its own (`refreshing`, the constant `Refresher`), which wants a
snapshot of a quarter of the interval and so may lead or follow a refresh at any
time, and which is gone for good once a `BaseException` ends its check.

`at[k][c]` says where thread c is in cache k: a leader of the client's is
`asking` there while it is a caller, a follower or the leader in the admission's.
`snapshot[k]` is `old` or what was published less than an interval ago, `found[k]`
what a check has returned that is about to be published.  `Release` clears
`pending` and wakes the followers in one step, as the `finally` block does under
the lock; `Expire` is the interval passing.  `Overdue` says that neither cache on
the way of a question vouches any more for the time before the stop.
`check_cancelled_or_provider`, which puts the cancellation of the pipeline in
front of the admission's cache, and configurations without `fair_network` are
left out.

### `PacedDispatch`

Request threads, up to `Dispatcher` dispatcher threads, one watchdog.  `latest`
is the holder of the newest generation; `due` and `quiet` abstract the two
deadlines.  A grant takes any non-empty prefix of the queue, since the cohort's
size depends on lateness and interval only.  `Crash` is the pacer's feedback
raising in the loop, `Stall` the thread that "can remain nominally alive while
its dispatch loop is no longer making progress", `Revive` its late recovery.
The watchdog's `returned` state is the moment between its `return` and the end
of its thread, when `is_alive()` still holds.

### `FairAdmission`

Memory queues and counters per lane (`MemoryReservations`), network queues and
counters (`FairNetworkSlots`), and `SetLimit` for the control file.  `NextLane`
is one turn of the loop of `_grant`, `NetGrants` the loop: a recursive function
of the number of turns.  The loop of the memory takes from the head what fits;
since weights are not negative that is the longest beginning of the queue that
fits as a whole (`MemGrants`, over the sums `Bytes`).  A request makes at most `MaxTries` HTTP attempts.

### `LasOperator`

One request of the customer operator, identified by its digest, called by
several processes over a local journal and a read-only fallback of an earlier
deployment.  The k-th submission may start task k; task 0 is the fallback's.  The
media of a request is its own (`~ byUrl`: the k-th submission publishes object k,
and whoever sees the task end deletes it) or a reference (`byUrl`, the ECoT-LAS
path): then `_video_url` resolves what `annotate_ecot_source` has published, the
operator's cleanup deletes nothing, and `Close` is `annotate_ecot_source`
deleting it when its requests have ended, whatever became of their tasks.
`mine[c]` are the tasks that were submitted with the reference c still holds.  A submission may be made and not heard of
(`unheard`), a task may be too old and be abandoned once (`stale`).  The name
under which media is published contains a fresh `uuid4`, so no two submissions
share an object.  `Wedged` names the one state from which a call cannot end: a
COMPLETED task without a final summary leaves a PENDING journal that is polled
for ever.

### `LasSample`

One episode through the vendored `process_sample`, with or without a wrist view,
the journal of tasks that `request_parallel.py` wraps around `call_operator`, the
quarantine of unparseable answers and the renewal of the signed URL.  A request
is a step, the URL and, in step 3, the objects in its prompt: what the digest is
made of.  An answer is named by the task that gave it, so a mixture shows.

### `EpisodePipeline`

One lane per task over `run_prepared_jobs`; a job is an episode in a lane.
Media is prepared once and leased (`StagePipeline`); an episode is annotated
frame by frame, each answered frame a unit of the job's checkpoint with its key
lock; the units are cleared when the record is durable.  `Crash` keeps units and
records.  The repetitions of ECoT validation are part of an answered or failed
frame.

### `ContactStages`

STA and CPA of one segment with one contact.  Answers are numbered, and
`asked[n]` says what the n-th was asked about; a checkpoint key holds exactly the
digests the code puts into it, which is what decides whether evidence of an
earlier answer is taken for that of a later one.  Asking and saving is one step.
The initial states are an empty checkpoint, the malformed chains that older
versions left, and an STA record that is committed already, with and without a
box.  `Crash` begins a new launch with any `--tasks` and any
`--cpa-reuse-sta-root`.

### `GrdWindows`

The window jobs of one record on a pool of workers.  An inventory is the sequence
of canonical names, so an object is its index and a corrected name keeps it.
Name reviews are not in the checkpoint and are asked again after a restart.

### `CpaFleet`

The controller cycle step by step, workers on slots of several nodes, the
collector and the cloud.  `ssh` may time out, a launch may take effect after its
timeout, a cycle may fail between any two steps, and an attempt may be charged
without a worker's end.  `known` are the slots whose worker the controller may
rely on; only their leases have to be disjoint.  `outran` records that a
`stage_written` line was taken for a stored unit (section 5).

### `ArkFiles`

The record, lease, lock and marker files of one content, references of several
processes, their reapers.  Uploads are numbered.  Expiry is `Age` (15 minutes
before) and `Expire`; a lost answer, an HTTP error and a failed processing are
`Fail`; local writes succeed.

### `CosObjects`

Every upload is an object with its manifest and lease; the reapers of all
processes go through the manifests.  Uploads that arrive after the client gave up
and lease files without a manifest are left out.

### `Timeline`

From the answer of a service to the frames that later stages use, in integer
ticks of 1e-6 s, the tolerance of the code's comparisons.  A frame lasts 3 ticks,
anchors lie 8 apart, so that neither divides the other; rounding of contact times
is free in both directions.  Contacts are those of a video.  Steps are gathered
one at a time, as the loops of the code do: `Extended` adds one from the end of
those before it, unless its own end is not behind that.  `Merged` joins equal
neighbours.

### MC modules

An MC module gives constants their values and, where several small parts ask
questions of the same kind, puts them side by side: the initial state chooses
one part, the others rest (`...Unused`).  The parts share nothing, so a run
checks each of them as if it were alone.

## 3. Runs

| Run | Instance | States | What it shows |
|---|---|---|---|
| `local_final` | final-record spool: 2 producers, 2 workers, 3 paths in 2 shards, 2 bodies, capacity 2, one restart | 1,411,000 in all | `AckedIsDurable`, `Capacity`, refinement of `DurableOutbox` |
| | output shard: 2 episodes, 2 launches, 2 annotations | | no row is lost by repairs or crashes (`RowsKept`), no episode with a row is annotated again (`NotPaidAgain`) |
| | Ark files: 2 references of 2 processes, 2 reapers, 2 uploads, 1 fault | | nothing in use is deleted (`LeaseProtects`), a missed cleanup is marked (`NoOtherLeak`) |
| | timeline: up to 3 segments, 2 contacts | | each anchor is grounded once, no contact lies between an observation and its contact |
| `local_live` | checkpoint spool: 2 producers, 1 worker, overlapping calls, one restart | 108,000 | `BarrierSound`; every row of the outbox is stored at last; no call hangs |
| | COS: 2 objects of 2 processes, 2 reapers, 2 faults | | every uploaded object is deleted at last |
| `circuit` | 3 callers, threshold 2 | 328,000 | one attempt while the circuit is broken, and it recovers |
| | 2 requests, 2 attempts, 1 slot, threshold 2 | | no request is sent with a revoked ticket, the provider is stopped only for failures that count, every request ends |
| | availability: 2 caches, 2 request threads of 2 episodes, the refresher, 1 mishap | | an overdue stop is seen by everybody, every question is answered |
| `admission` | dispatcher: 2 requests, 3 dispatchers, one crash or stall | 364,000 | every queued request is permitted unless a dispatcher is stuck |
| | slots: 5 requests of 2 lanes, 2 limits, one heavy request, 2 attempts | | nothing waits for free capacity, grd keeps its share, every kind of request is served |
| `las` | operator: 2 callers, 3 submissions, 1 faulty, 1 death, media of its own or a reference | 237,000 | one live billable task, media outlives its task (a reference: while its call lasts) |
| | sample: 7 tasks, 2 faulty, 2 URLs, 2 faults, with and without wrist | | recorded tasks are not bought again, the annotation is of one piece; with either client every call is answered and the episode annotated |
| `episodes` | 2 lanes, 1 episode, 2 frames, 2 attempts, 2 faults, 1 crash | 893,000 | media is open while used, paid units are kept, a lane ends only when its episodes are settled, the run ends |
| `record` | contact stages: 2 launches, 1 fault; initial states above | 1,000,000 | an item is of one chain of answers, a synchronised STA names CPA's contact, no saved answer is asked again |
| | grounding: 2 windows, 2 workers, 2 attempts, 2 launches | | one inventory per window, the selected object survives corrections; both groups end |
| `fleet` | 2 nodes (one of them new), 2 units, 2 attempts, 1 fault | 544,000 | leases are disjoint, completed means stored, every unit is settled |
| `spool_duplicate` | 1 producer, 1 worker | | finding 1 |
| `dispatch_unwatched` | as the dispatcher of `admission` | | finding 2 |
| `rejection_shared` | as the check of `circuit` | | finding 3 |
| `resume_rebilled` | 2 episodes, 1 launch | | finding 4 |

Every property of a passing run has a mutant: a definition of the model is
replaced by one with a plausible bug (a dropped guard, a missing reset, a swapped
order), and the run then finds the property violated (`mutants` in
`PROJECT.json`; the mutated forms stand before the definitions they replace).

**Bounds, and why they are enough.**  One restart (`MaxRuns = 2`, `MaxCrashes =
1`, `MaxGrdRuns = 2`): recovery is a function of what is durable, so a crash at
every point of the first run meets every durable content; a second crash starts
from such a content again.  The proofs need no bound.  Crashes and failures that
liveness has to survive are counted, so that it is not refuted by a process that
is never started again.

- *Spool.*  Two producers suffice for a shared ticket and for admission during an
  open transaction, two workers for a double claim; capacity 2 with requests of
  two rows makes the limit bite.
- *Circuit and requests.*  Three callers are a probe, a stale answer and a
  newcomer; two requests on one slot are one that waits with a ticket and one
  that revokes it.
- *Availability.*  Two request threads of two episodes, so that one may lead the
  client's cache while the other follows it or asks the admission's, and the
  refresher.  Intervals pass any number of times; one mishap: an interrupted
  check, a refused video, or an interval that passes while a thread is between
  being told of a snapshot and looking at it (`Hurries`), who then starts over.
- *Dispatcher.*  Three dispatchers are the newest, a replaced one that recovers
  late, and one that is starting; one fault, since after a replacement the system
  is in a state it can also reach without one.
- *Admission.*  Limits are scaled down (the control file admits 256 and more):
  ecot share 1 of http 2 or 3, ecot ceiling below and at the limit; three
  requests of one lane contend for two memory slots, one heavy.
- *LAS.*  Three submissions are the first, its resubmission and one after that;
  seven tasks pass through all steps with two repetitions; two URLs, since a
  renewed one differs from all tasks before.  With a reference the fallback
  journal is of a running task or missing: what else it may say does not depend on
  whose the media is.  The proofs have no such restriction.
- *Episodes.*  Two lanes of one episode are what leases and key locks are
  contended by; two frames, of which one may be kept and the other missing.
  `Workers + Prefetch`, `MaxPending` and `Preparers` do not bite with one
  episode.
- *Contact stages.*  One segment: the segments of a record share no unit.  One
  contact: keys hold the digest of their contact.
- *Fleet.*  One old and one new node; two units make partial leases; one fault,
  which may be a timed-out launch that takes effect later.
- *Ark, COS.*  Two references of two processes, so that either may be the last;
  two uploads, the one recorded and the one that replaces it.
- *Timeline.*  Chunks of six frames with a seam, anchors and frame times that do
  not divide each other; segment ends are drawn from all offsets around the
  tolerances.

`local_final` uses symmetry over the spool's producers and workers; it checks no
liveness.

**Deadlock** is checked in every passing run.  `resume_rebilled` ends with its
last launch and does not check it.

**Fairness.**  Threads that can take a step take it: weak fairness for each
thread, since locks are released and all waits have timeouts or notifications.
Every other assumption is one of these:

- Spool: a row whose write is tried again and again is written at last (strong
  fairness: the cloud is not down for good), and a process that stopped is
  started again (the launch scripts).  Nothing forces producers to call.
- Circuit: waiters poll every second, so one of them probes if probing is
  possible again and again, and a probe that is sent again and again succeeds at
  last (strong fairness: the model service recovers).  Failures, Retry-After
  answers and cancellations are not restricted.  For `Requests` weak fairness of
  each request and of the two clocks is enough, attempts being bounded by the
  code.
- Dispatcher: only threads that are not stuck are fair.
- Admission: weak fairness of each request, named by the change of its `pc`
  (`WF_pc(GoesOn(r))`); an HTTP attempt ends (client timeouts) and a request has
  at most `MaxTries` of them.
- Operator: a poll that is answered again and again brings the terminal status at
  last, and `flock` is granted at last to a caller for whom it is free again and
  again (strong fairness of `PollTerminal` and `Acquire`); a task at the service
  ends.
- Fleet: the controller's cycle is repeated, a worker stores or ends.
- COS and Ark: references are closed when their request ends, reapers are woken
  and look at everything.
- Record and sample: the thread of the record and each job go on; the faults are
  bounded, and a record is attempted more often than that (`Attempts >
  MaxFaults`).

## 4. Proofs

Eight modules hold theorems, checked by `tlapm` to the last leaf; `PROJECT.json`
lists the results.

| Module | Proves about |
|---|---|
| `CheckpointSpoolProofs` | the spool, and that it implements `DurableOutbox` |
| `ClientProofs` | circuit, requests and availability check, as parts of `MC_ServiceCircuit` |
| `PacedDispatchProofs` | the dispatcher, and the admission of requests as a part of `MC_FairAdmission` |
| `LasProofs` | operator and vendored pipeline, as parts of `MC_Las` |
| `EpisodePipelineProofs` | the episode pipeline |
| `RecordProofs` | the contact stages and the grounding of a record, the two groups of `MC_Record` |
| `CpaFleetProofs` | the fleet |
| `FinalProofs` | files at Ark, timeline and output shard, as parts of `MC_Final`, and the objects in COS |

Where an MC module holds several parts, its parts are instances (`Files`, `Line`,
`Shard`, ...), and a theorem is about `Files!Spec` or its like with the constants
of that instance left open.  The inductive invariant of a component is called
`IndInv` or `<Component>Inv`; there is a lemma per action or group of actions,
with one step per part of the invariant it can disturb.

**Spool.**  From `SpoolAssumption` (request groups are non-empty, finite and
name a path once, limits are positive).  Proved are durability, exact publication, exclusive
claims, that INSERT meets no existing key, one body per path, that nobody waits
for an owner that has ended, the flush barrier, the capacity, the action property
that a completed row stays completed, and the refinement.  `IndInv` adds what makes them
inductive:

- `MirrorFollowsOutbox`: memory equals the table, except between COMMIT and the
  publication, when they differ by exactly the transaction.  Every property
  that producers or the barrier conclude from memory rests on it.
- `QueueIsNew`: the tickets are for paths that no index knows, and the open
  transaction is a part of them.  This is why no INSERT fails.
- `ClaimsAreExclusive`: claims are disjoint parts of the mirror, outside
  `ready`, and a successful one is stored.  This is why rows may be dropped.
- `TicketsAreQueued`: a waiting producer's other rows are safe already.  This is
  why returning on the last ticket is sound, tickets shared with others included.
- `LedgerIsExact`: acceptance equals outbox and cloud together.  This is why a
  restart may conclude publication from absence.

`TransactionFacts` and `IndexIsSafe` collect what several lemmas need.
`Refinement` maps each action to a step of `DurableOutbox` or to a stutter
(`StepImplementsOutbox`).

`CapacityKept` needs an invariant of its own, `CapacityInv`: what waits in memory
fits, and so does the jobs table, which is what a restart will load.  `Admit` is
the one action that adds rows, and it compares |mirror| + |queue| + |new rows|
with the limit, which bounds their union; all other steps move rows between the
two sets or drop them.

**Circuit.**  `IndInv` says who holds a ticket of the newest generation in each
state: nobody while open, exactly the probe while half open, no probe while
closed.  That a half-open circuit has the attempt that will decide it, one
attempt while broken, the bound of the failure counter and closing by the probe
alone follow.

**Requests.**  `ClientImplementsCircuit` says that every step of the client is a
step of `ServiceCircuit` or leaves it alone, so that the theorems above hold of
the client.  `SlotsExact`: network slots are held by exactly the requests about
to be sent or under way, and never more of them than there are.  `RevokedNotSent`
rests on three facts: a ticket of the newest generation may go (`FreshMayGo`), a
request between its ticket and its answer has an attempt of the circuit
(`AttemptHeld`), and a revoked request has none of the newest generation
(`LateIsRevoked`).

**Stop of the provider.**  `StopDeserved` has to relate a counter that successes
reset to the requests that count against the provider.  A request under way may
be guilty now and succeed later, so the invariant counts only those that have
ended (`Blamed`), which is for good: the streak is at most their number
(`StreakIsBlamed`), and a request that stops the provider, or a stop that is set,
has a fatal answer or as many of them as configured behind it (`StoppingIsDue`,
`StopIsDue`).

**Availability.**  `CheckInv`: at most one thread leads each cache (`OneLeader`),
no thread is inside both caches but the leader of the client's that asks the
admission's (`OneDoor`).  While somebody is warned, the stop is set and neither cache
can come to vouch for the time before it: the admission's publishes only what was
read from the stop file since, the client's only what it was told by the
admission's (`WarnedIsOverdue`, for each cache the warned caller has yet to pass);
and a warned caller is on no way that ends without a look (`WarnedLooks`).  Hence
`StopIsSeen`, for any threads, interruptions and refreshes, with or without a
living refresher.

**Dispatcher.**  The types, `QueueHasDispatcher` (a non-empty queue has a newest
dispatcher that has not ended) and `TicketIsSomewhere` (each waiting request has
exactly one ticket) are inductive together, from `MaxFaults \in Nat` alone: for
any number of requests, dispatchers, crashes and stalls.  `AppendFacts`,
`CohortFacts` and `RemoveFacts` say what the three operations do to a queue of
distinct tickets; that the queue is free of repetitions is what makes a granted
ticket absent from it.  `EnsureThreadFacts` is the heart of `QueueIsServed`:
whoever fills the queue or ends a dispatcher calls it, or does so under the same
lock.

**Operator.**  `OneLiveTask`, `MediaOutlivesTask` and that a request is
resubmitted for its age at most once, for any number of callers, submissions and
faults.  The invariant says that who is between reading and writing the journal
holds the lock (`LockHeld`), that the journal names the task of its holder
(`JournalOfHolder`), that a live task is known to the journal, to an archive or
to the caller that just started it (`LiveIsKnown`), and in which order
submissions and the fallback come (`StartedInOrder`, `FallbackFirst`).  For the
media of a reference: a reference belongs to one call, its object exists and its
tasks are submissions that were made (`References`), so that `Close` deletes no
other call's.

**Sample.**  `NotPaidTwice` and `AnnotationOfOnePiece`, for any number of tasks,
URLs and faults.  The files of an episode are written by attempts that may end
anywhere, and a later one trusts what it finds; the invariant says what they may
hold.  `Journals`: a task that a journal ever named is still named, or is of no
use (it failed, or its answer does not parse).  `Caches`: a cached answer is one
of the task that its journal names.  `Derived`: the objects on disk are those of
the cached answer of step 1, and context and annotation are of these objects.
`Thread` says at each point what the thread knows of them; the steps that clear
files after a bad answer are why all three survive it.

**Episode pipeline.**  Three invariants, for any sets of lanes, episodes and
frames and any bounds.

- *Leases.*  `RefsCount`: the references of an entry are the number of jobs that
  hold it, less the one that cleans up.  `InTable`, `TableMedia` and `OneCloser`
  say that exactly the entries with references are in the table, that their media
  is not closed, and that one job closes what has left the table.  A job finds
  a free entry because there are more entries than jobs (a pigeonhole argument).
  `MediaStayLeased` follows.
- *Results.*  A job has one final record at most and none before its commit
  (`OneFinal`), and a job that is over has it or reports its failure
  (`ResultKnown`); `EndIsSettled` follows with `RestIsQuiet`.
- *Units.*  A key is saved by one thread, which holds its lock, and only while
  the job does not know it (`SavedApart`); the job knows every unit on disk but
  those just being exposed (`UnitsKnown`).  Hence the action property
  `PaidWorkIsKept`.

**Grounding.**  `OneInventoryAsked` and `SelectionIsKept`, for any number of
windows, workers, attempts and launches.  At each point of a job the invariant
says how its item, the one kept in the checkpoint and the one stored for the
window relate: what is kept and what is stored is what question 2 was asked
about (`AskedAbout`, `WindowKept`, `JobKept`), and every correction of names
leaves the selected object the one it was (`WellReviewed`).  A commit finds
every window done (`BeforeCommit`), and nothing moves after it.

**Contact stages.**  `CoherentItems`, `StaAgrees` and the action property
`NeverAskedTwice`, for any number of launches and faults, from every initial
state of the model: empty checkpoints, malformed evidence of an earlier version,
a committed STA.  An item is coherent only if what a stage finds in the
checkpoint is of the answers the item has so far, and the key it is found under
names these only in part.  The invariant `ContactInv` says what makes up for the
rest:

- `Right`: of which answers the one under a key is.  A plain key stands for what
  its checkpoint holds under the plain key of the stage before, a key with a
  digest for the answer of that digest, and the frame, points and box of a reuse
  for the STA record in the identity of the checkpoint.
- `OneValue` and `OnePlace`: a unit is never overwritten, and no paid answer
  stands in two places.  So a plain review and the plain frame after it are of
  one item, whoever put them there.
- `NoLoanWhereBad`: a review on loan is not in a checkpoint with a malformed
  proposal, so that a recovery never builds on it.  `NoFrameOfSeed`: a reuse of
  STA finds no frame of a CPA of its own.
- `AtStep`: at each stage the last answers of the item are those under the
  keys that the next stage derives from `prefix`.  `Purpose`: which records are
  still missing, and that the identity of the CPA checkpoint is the record that
  CPA reuses.
- `RecordsOf`: a committed item is coherent (`Good`), an STA that was made with
  CPA has CPA's contact, and so has a CPA that reused STA.

There is a lemma per action; `EvidenceGrows` and `EvidenceShrinks` are what most
of them need of the checkpoints, one for a unit that is put and one for a
checkpoint that is set aside or cleared.  `NeverAskedTwice` follows: an answer
held about the same thing would, by `Right` and `OnePlace`, be under the very key
that the stage has just found empty, or be malformed and recovered.

The theorems about a record's groups are about `RecordSpec`, the specification
that the run `record` checks.

**Admission.**  `NothingIsIdle` and the action property `ShareOfGrd`, for any
clients, weights, budgets and limits.

- `AdmissionInv`: a queue holds, once each, those who wait for its lane and hold
  nothing (`MemoryInv`, `NetworkInv`), and the counters count the holders; so a
  ticket that is removed was in the queue it is removed from, and every release
  takes one from a counter that counts it.
- The sums (`Bytes`) and the loop of `_grant` (`NetGrants`) are recursive
  functions.  That a function satisfies such equations (`Iterates`) is proved by
  `Recursion`, which like every claim about all turns uses the least
  counterexample (`Numbers`) in place of an induction.
- `AfterTurn` is the loop invariant: the grants of each lane do not exceed its
  queue, ecot stays within its share if grd is left waiting, and the loop turned
  on every turn or has found nobody to serve (`GrantsFacts`).
- `MemorySettles` and `NetworkSettles`: whatever queue and counters a step hands
  over, after the grants nothing free is waited for.  Each action is one of them
  or leaves the counters alone.

**Fleet.**  `LeasesApart`: the controller may have lost sight of a worker it
started, and its launch may take effect later, so disjoint assignments are not
inductive by themselves.  From its probe on it knows every active assignment
(`KnownIsLeased`), what they hold is excluded from what it offers
(`TakenIsExcluded`), and launches that are not saved yet are apart from both and
from each other (`LaunchedIsApart`: units are dealt to idle slots by rank).
`CompletedStored` needs that what a log names is in the outbox of its worker or
stored (`WrittenIsSafe`).

**Files at Ark.**  The file of an open reference is active or has expired, never
deleted (`FileKept`), because who deletes holds the lease alone
(`FilesLeaseHeld`), for any numbers of references, reapers, uploads and faults.
`NothingElseLeaks` is about absence: when nobody attends to a recorded file any
more, a marker is there that no reaper takes for an older one.  `MarkersAreOld`
orders what a reaper has seen and what is there; `LeftoverIsKnown` says that a
file left over has an attending reference or such a marker, and the last to
attend leaves the marker.

**Objects in COS.**  An object behind a signed URL in use is in the bucket
(`ObjectKept`), and an object in the bucket is listed (`ObjectListed`), so that a
reaper finds it after any failure.  The invariant says that an object is listed
from before it is sent until after it is deleted, and that who deletes holds its
lease alone.  That every object goes in the end rests on fairness and is left to
`local_live`.

**Timeline.**  `AnchorsGrounded` (`EachAnchorOnce`) and `NothingBetween`
(`NoContactBetween`), for all frame rates, anchors, chunks, windows, media,
answers and numbers of contacts.

- The steps made of an answer form a chain: each starts where the one before it
  ends, the first at 0, the last ends with the media (`Chain`).  `LasChain` and
  `OperatorChain` show it of the two kinds of answers: sorting and collapsing
  leave segments inside the media, and at least one (`SortedFacts`,
  `CollapsedFacts`), a boundary that is rounded to an image is inside too
  (`RoundedDown`), and `Extended` takes no step that would end before it starts.
  `ChunksChain` puts the chain of the second chunk behind that of the first.
- A chain is accepted (`ChainIsValid`) and stays one when equal neighbours are
  joined (`MergedFacts`).  Of any list that is accepted, `ValidFacts` bounds what
  consecutive steps may be apart.
- Each time before the end is on a step (`Covered`), the first one that ends
  after it, and on another one only within the tolerance of a seam
  (`SharedAtSeam`, `OnceOrSeam`); `AnchorFacts` goes from times to anchors,
  `FoundByTime` and `FoundByIndex` to the step that the lookup finds.
- `TimeInv` says which steps there can be in each phase, and `LeadInv` that
  accepted steps lead through the media, those of an answer exactly and those of
  an earlier result give or take; they are inductive.

Loops over the segments are recursive functions with the list made so far as
value.  That there is such a function is `Recursive`; what holds of every prefix
follows by `Numbers`, in which a least number without the property takes the
place of an induction.

`AnchorsGrounded` has a hypothesis about earlier results, `LoadedForward`: steps
of one text that follow each other end after the first of them starts.  The code
joins such steps and keeps the first start and the last end, and it checks the
joined steps no more.  Each step may begin up to 1e-4 s before the one before it
ends; steps of one text that are shorter than that can so drift back until the
joined step ends before it starts, and an anchor far from every seam is then
lost.  TLC finds this with a seam of 2 ticks, when a list of twelve steps of one
tick is among those that are loaded.  Steps that last longer than the tolerance
cannot drift back.

In `NothingBetween` a frame is drawn after the latest of the earlier contacts;
that there is a latest one of every set of contacts is a part of the invariant,
since the set may be any.  Rounding a time to a frame moves it by one tick at
most, and a frame lasts more than two.  `TimedSteps` gives the steps integer
times.

**Output shard.**  `NoRowLost` and the action property `AnnotatedOnce`, for any
finite batch and any number of launches, with any flags and any deaths.

- A row that a run can read was acknowledged (`ThereIsAcked`), rows that are
  written get a number above all others (`Numbered`), and a file of its own
  holds its own episode (`OwnRow`): so what replaces the file of an episode is
  newer (`Newer`, in `Kept`).
- What a review or a repair is about to replace has been set aside (`SetAside`).
- `Found`: the first compatible line of an episode stays.  There is a first one
  by `LeastNumber`; `LinesAreNumbered` and `AcceptedFacts` say that the lines
  that stay are those lines, in a file of their number.
- `ReadInv`: until every file is read, a file is still to be read or its rows
  that count spare their episodes; `CandidatesAreFiles` says that a launch lists
  every file that has rows.

`LeastNumber` is proved from the well-foundedness of the subsets of a finite set
(`FS_StrictSubsetOrderingWellFounded`); a least counterexample takes the place of
an induction.

**Assumptions.**  `CheckpointSpool`, `CpaFleet`, `EpisodePipeline`,
`PacedDispatch`, `ServiceCircuit`, `LasOperator` and `ContactStages` ASSUME
theirs.  Modules that appear as instances state theirs as an operator; the MC
modules ASSUME it of their values and the theorems take it as a hypothesis; so
with `LoadedForward`.

**Only model-checked.**

- All liveness (`Recovers`, `NobodyWaitsForEver`, `EventuallyStored`,
  `ObjectGoes`, `EachRequestStarts`, `EitherClientEnds`, `RunEnds`, `CallsEnd`,
  `GroupsEnd`, `EveryUnitSettled`): ENABLED is out of the prover's reach.

Every invariant that a passing run checks is stated by a theorem.

## 5. Findings

1. **A record can be stored twice** (`spool_duplicate`).  A pack is named by the
   digest of the rows that happen to be grouped.  When a pack was stored but its
   acknowledgement is lost in a crash, or its write raised after `os.replace`,
   its rows stay in the outbox; later rows may join them, and the regrouped pack
   has another name.  The first one remains.  No data is lost
   (`AckedIsDurable` holds, and one body per path), but the stage audit counts
   `duplicate_input_uid` and `unexpected_record_count`.
2. **A queue without a watchdog** (`dispatch_unwatched`).  `_watchdog_loop`
   returns on an empty queue, and its thread is alive for a moment after it
   released the lock; a request that queues in this moment finds `is_alive()`
   true and starts no watchdog.  If the dispatcher is stuck then and no other
   request arrives, nothing replaces it.  With the thread ending in the same
   step as the return, the property holds in the same instance.
3. **A refusal of one episode's video is raised in another's thread**
   (`rejection_shared`).  `ensure_available` shares its outcome for a second
   among all request threads, and the check begins with the content scope of the
   thread that refreshes it.  The other episode is then kept as refused.
   Conversely, a cached success hides an episode's own refusal for up to a second.
4. **An accepted STA row is annotated and paid again** (`resume_rebilled`).  With
   a resume validation pool, a file of its own is rejected when its first uid
   does not end with the requested model, before the rule that accepts rows of
   the older model is asked.

### Observations

Met while modelling.  The models contain each of them, and the properties are
stated so as to allow for them; none is a run of its own.

- *Contact stages.*  A review asked about a proposal on loan from the STA
  checkpoint is found again by a later CPA-only launch for a fresh proposal
  (`annotate_videos.py` 976-980 says that the reviews are separate).  An STA made
  after CPA was committed may name another contact than CPA
  (`README.md` 28).  A `tracking.json` or `complete.json` of another CPA result
  makes every attempt fail, as does a valid review without an interaction box,
  unless a reuse asks for one; `--cpa-reuse-sta-root` with STA and CPA both due
  fails before STA is made.  A valid verdict that was saved as an attempt is asked
  again if the process dies before the points unit is put.
- *CPA fleet.*  The collector takes a log line `stage_written` for a unit stored
  when the worker's status is at most 180 s old, so a completion can outrun its
  durability (`collect_active_cpa_ready.py` 3-9); `outran` marks it.
  `choose_tail_donor` intersects CPA units with STA units without stripping
  `:view=`.
- *Availability.*  The ages of the two caches add up: the client's may publish, as
  fresh, what the admission's learned almost an interval ago, so that a stop may go
  unseen for about two intervals and the checks under way, where comments speak of
  one second (`annotate_videos.py` 1507-1511, 9779-9785).  `Overdue` allows for it.
- *LAS operator.*  A COMPLETED task without a final summary is polled for ever
  (`Wedged`).  The ECoT-LAS requests of an episode share one uploaded video, which
  `annotate_ecot_source` deletes when they have ended (4796-4797).  After a poll
  timeout, or when it was abandoned as stale, a task may run on without its media;
  a later call resumes the journal of the one that timed out all the same, and "Keep uploaded media
  alive until the asynchronous task is terminal" (`las_customer_ark_operator.py`
  1253) holds of the operator's own objects only.  A process that dies leaves its
  reference undeleted.  `MediaOutlivesTask` holds a reference to the end of its
  call.
- *Ark.*  A marker that is renewed between a reaper's last comparison
  (`ark_file_transport.py` 133-134) and its `unlink` is lost (`overtaken`); this
  needs a failed deletion first.
- *Output shards.*  A pack is judged by its first row's uid; a line that is not
  JSON in a GRD shard with review makes `audit_shard` raise before it could be
  set aside; without `request_parallel` a uid that occurs twice in a batch is
  annotated twice.
- *Timeline.*  The ValueError for an intervening contact
  (`annotate_videos.py` 7316) cannot be reached.  Pairing reviews with proposals
  falls back on the position, so one STA proposal can be paired twice;
  `bounded_frame_indices` may drop the proposed frame when there are 24 or more
  boundary frames.
- *Grounding.*  A resumed inventory loses `filtered_objects`; a refusal in one
  window can be hidden by an earlier failure of another.
- *Sample.*  `post_json` repeats a billable POST after a network error; a task
  that was accepted and not yet recorded at a crash is paid again.

## 6. Not modelled, and why

- *Numeric code*: rate feedback and the pacer's rate control (control laws over
  real-valued intervals), geometry, boxes, SAM3 and the student clip.
- *Text*: prompts, parsing of answers, the validators of record contents
  (`validate_annotation_result_contract.py`: pure functions over JSON).
- *I/O around libraries*: clip pools, ffmpeg and client transports, small worker
  pools; `dashscope_temporary_video.py`, whose publication follows the pattern of
  the Ark and COS modules.
- *Alternatives*: the native gates (another implementation of `FairAdmission`'s
  protocol), the legacy admission classes and the legacy synchronous spool,
  `run_cosmos3_ark_ecot.py` (a script of its own over the same client).
- *Vendored generators, launch and monitoring scripts*: not part of the core.
- Of the modelled files: `pending_input_uids` (`checkpoint_spool.py` 225: it
  counts rows that are only queued, and if their transaction fails a resume scan
  has skipped them for that run), byte limits, metrics, `PublicationLimiter`,
  `http_limiter` and json-mode in the client, LAS `run_batch`, review videos,
  `--force`, `--stop-after` and a change of the wrist flag, two episodes of equal
  bytes that share a journal, tail-extra slots and the shard script's restart in
  the fleet, contacts of image sequences, the trusted scope and the reuse of ECoT
  of another provider on resume, rows that wait in a final-record spool during a
  resume.

`components` in `PROJECT.json` gives the state of each part.

## 7. Plan

What would add most, in this order:

1. A resume over the final-record spool: `JsonlShard` composed with
   `CheckpointSpool`, with `pending_input_uids`.
2. The temporary videos of DashScope and the coalesced state file of the rate
   feedback.
