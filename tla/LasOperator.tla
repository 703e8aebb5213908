----------------------------- MODULE LasOperator -----------------------------
(***************************************************************************)
(* scripts/las_customer_ark_operator.py: one request of the LAS operator,  *)
(* identified by the digest of its prompt and media, and the threads of    *)
(* several processes that call it.  A call submits a billable asynchronous *)
(* task, keeps its identity in a journal file and polls it; a later call   *)
(* resumes the journal.  The journal has two tiers: the local one, and a   *)
(* read-only fallback left by an earlier deployment.                       *)
(*                                                                         *)
(* The k-th submission may start task k; task 0 is the one the fallback    *)
(* journal names.  Its media is an object that the operator publishes for  *)
(* it, or, if the request names its video by a reference, the one that     *)
(* annotate_ecot_source published for all its requests and closes, that    *)
(* is, deletes, when they have ended.  A caller that fails calls again:    *)
(* the retries of request_json stay in that call, those of the record      *)
(* publish anew.                                                           *)
(***************************************************************************)
EXTENDS Integers, FiniteSets

CONSTANTS Caller,     \* threads, each in a process of its own
          MaxSubmits, \* submissions of the instance
          Faulty,     \* the first submissions, which may meet faults
          MaxFaults   \* callers that die

ASSUME OperatorAssumption ==
  MaxSubmits \in Nat /\ Faulty \in Nat /\ Faulty < MaxSubmits /\ MaxFaults \in Nat

Task == 0 .. MaxSubmits
NoJournal == [task |-> 0, status |-> "none"]
Journal == [task : Task, status : {"PENDING", "COMPLETED", "FAILED"}]

VARIABLES pc,         \* what the caller does
          task,       \* caller -> the task of its local `state'
          abandon,    \* caller -> abandon_if_stale of its _poll
          lock,       \* who holds the flock on <digest>.lock
          journal,    \* <digest>.json of the local tier
          fallback,   \* <digest>.json of the fallback tier
          marked,     \* <digest>.invalid-marker exists
          stale,      \* tasks of the .stale-pending archives
          mismatched, \* tasks of the .credential-mismatch archives
          setAside,   \* tasks of the .invalid archives
          remote,     \* task -> its state at the service
          byUrl,      \* the media of the request is a reference
          mine,       \* caller -> tasks submitted with its open reference
          objects,    \* tasks whose media exists
          submits,    \* submissions so far
          unheard,    \* tasks started at the service that no journal ever named
          faults

callers == <<pc, task, abandon, lock>>
archives == <<stale, mismatched, setAside>>
media == <<byUrl, mine, objects>>
service == <<remote, media, submits, unheard>>
vars == <<callers, journal, fallback, marked, archives, service, faults>>

(* Ends of a task: with a parseable text, with another text, or without.   *)
TerminalOrRunning == {"good", "bad", "failed", "running"} \* mutant
Terminal == {"good", "bad", "failed"}
Ended == Terminal \cup {"empty"}

(* A fallback journal, if there is one, names a task of this credential    *)
(* ("running" or ended) or of another one ("foreign").  The call that      *)
(* published a reference for it has closed it.                             *)
Init ==
  /\ pc = [c \in Caller |-> "idle"] /\ task = [c \in Caller |-> 0]
  /\ abandon = [c \in Caller |-> FALSE] /\ lock = {}
  /\ journal = NoJournal /\ marked = FALSE
  /\ stale = {} /\ mismatched = {} /\ setAside = {}
  /\ \E s \in Ended \cup {"running", "foreign", "none"} :
       /\ remote = [k \in Task |-> IF k = 0 THEN s ELSE "none"]
       /\ fallback \in IF s = "none" THEN {NoJournal} ELSE
            {[task |-> 0, status |-> st] : st \in
               {"PENDING"} \cup (CASE s \in {"good", "bad"} -> {"COMPLETED"}
                                   [] s = "failed" -> {"FAILED"} [] OTHER -> {})}
       /\ byUrl \in BOOLEAN /\ mine = [c \in Caller |-> {}]
       /\ objects = IF fallback.status = "PENDING" /\ ~ byUrl THEN {0} ELSE {}
  /\ submits = 0 /\ unheard = {} /\ faults = 0

(* _load_state: the fallback journal is promoted unless a marker forbids.  *)
Loaded == IF journal = NoJournal /\ ~marked THEN fallback ELSE journal

Goto(c, l) == pc' = [pc EXCEPT ![c] = l]

(* The service, the network and the callers meet no more faults once the   *)
(* faulty submissions are made.                                            *)
MayFail == submits <= Faulty

(* The call ends and is tried again.                                       *)
Raise(c) ==
  /\ Goto(c, "idle") /\ lock' = lock \ {c}
  /\ task' = [task EXCEPT ![c] = 0] /\ abandon' = [abandon EXCEPT ![c] = FALSE]

(* flock(LOCK_EX) returns.                                                 *)
Ignored == TRUE \* mutant
Free == lock = {}

(* A stale task may be abandoned once: no archive tells of an earlier time. *)
NeverAbandoned == stale = {}

(* cached_call: the lock is held only for the read.                        *)
CachedCall(c) ==
  /\ pc[c] = "idle" /\ Free
  /\ journal' = Loaded
  /\ \/ /\ Loaded.status = "COMPLETED"
        /\ task' = [task EXCEPT ![c] = Loaded.task] /\ Goto(c, "parse")
     \/ /\ Loaded.status # "COMPLETED"
        /\ Goto(c, "calling") /\ UNCHANGED task
  /\ UNCHANGED <<abandon, lock, fallback, marked, archives, service, faults>>

(* call, up to _poll or the submission: a failed journal is moved aside,   *)
(* an old one is polled, to be abandoned if it is stale and none was yet.  *)
CallBegin(c) ==
  /\ pc[c] = "calling" /\ Free
  /\ task' = [task EXCEPT ![c] = Loaded.task]
  /\ \/ /\ Loaded.status = "COMPLETED"
        /\ journal' = Loaded /\ Goto(c, "parse") /\ UNCHANGED <<abandon, lock>>
     \/ /\ Loaded.status \in {"none", "FAILED"}
        /\ journal' = NoJournal /\ Goto(c, "publish") /\ lock' = lock \cup {c}
        /\ UNCHANGED abandon
     \/ /\ Loaded.status = "PENDING"
        /\ journal' = Loaded /\ Goto(c, "polling") /\ lock' = lock \cup {c}
        /\ \E old \in BOOLEAN : abandon' = [abandon EXCEPT ![c] = old /\ NeverAbandoned]
  /\ UNCHANGED <<fallback, marked, archives, service, faults>>

(* The media that the operator published for a task is deleted by it; of a *)
(* reference it deletes nothing.                                           *)
Cleanup(k) == /\ objects' = IF byUrl THEN objects ELSE objects \ {k}
              /\ UNCHANGED <<byUrl, mine>>

(* _poll reads a terminal state: the media is deleted, and then the journal *)
(* is written.                                                             *)
PollTerminal(c) ==
  /\ pc[c] = "polling" /\ remote[task[c]] \in Terminal
  /\ Cleanup(task[c])
  /\ Goto(c, "recording")
  /\ UNCHANGED <<task, abandon, lock, journal, fallback, marked, archives,
                 remote, submits, unheard, faults>>

RecordTerminal(c) ==
  /\ pc[c] = "recording"
  /\ \/ /\ remote[task[c]] = "failed"
        /\ journal' = [task |-> task[c], status |-> "FAILED"]
        /\ Raise(c)
     \/ /\ remote[task[c]] # "failed"
        /\ journal' = [task |-> task[c], status |-> "COMPLETED"]
        /\ Goto(c, "parse") /\ lock' = lock \ {c}
        /\ abandon' = [abandon EXCEPT ![c] = FALSE] /\ UNCHANGED task
  /\ UNCHANGED <<fallback, marked, archives, service, faults>>

(* COMPLETED without a text: _poll raises and the journal stays as it was. *)
SummaryMissing(c) ==
  /\ pc[c] = "polling" /\ remote[task[c]] = "empty"
  /\ Raise(c)
  /\ UNCHANGED <<journal, fallback, marked, archives, service, faults>>

(* _poll gives up at its deadline: the task runs on, or polls fail.        *)
PollTimeout(c) ==
  /\ pc[c] = "polling" /\ remote[task[c]] # "foreign" /\ MayFail
  /\ Raise(c)
  /\ UNCHANGED <<journal, fallback, marked, archives, service, faults>>

(* A poll confirms that a stale task still runs: its journal is archived   *)
(* and the request submitted anew.  If another caller has moved the journal *)
(* meanwhile, os.replace raises.                                           *)
Abandon(c) ==
  /\ pc[c] = "polling" /\ abandon[c] /\ remote[task[c]] = "running"
  /\ \/ /\ journal = NoJournal
        /\ Raise(c) /\ UNCHANGED <<journal, stale>>
     \/ /\ journal # NoJournal
        /\ stale' = stale \cup {journal.task} /\ journal' = NoJournal
        /\ Goto(c, "publish") /\ UNCHANGED <<task, abandon, lock>>
  /\ UNCHANGED <<fallback, marked, mismatched, setAside, service, faults>>

(* A poll is refused (401): the task belongs to another credential.        *)
Mismatch(c) ==
  /\ pc[c] = "polling" /\ remote[task[c]] = "foreign"
  /\ mismatched' = mismatched \cup {task[c]}
  /\ journal' = NoJournal
  /\ Goto(c, "publish")
  /\ UNCHANGED <<task, abandon, lock, fallback, marked, stale, setAside, service, faults>>

(* publish with _cos_to_tos_fetch: the destination object may exist        *)
(* although Fetch was not acknowledged; HEAD decides, and a failure deletes *)
(* the object if it is known to exist.                                     *)
FetchResult ==
  LET run == [created : BOOLEAN, acked : BOOLEAN, seen : BOOLEAN,
              sized : BOOLEAN, deleted : BOOLEAN]
  IN {[ok |-> r.seen /\ r.sized,
       left |-> r.created /\ ((r.seen /\ r.sized) \/ ~((r.acked \/ r.seen) /\ r.deleted))]
      : r \in {q \in run : q.acked \/ q.seen => q.created}}

(* _video_url: a reference is resolved, and published nowhere.             *)
Outcome == IF byUrl THEN {[ok |-> b, left |-> b] : b \in BOOLEAN} ELSE FetchResult

Publish(c) ==
  /\ pc[c] = "publish" /\ submits < MaxSubmits
  /\ submits' = submits + 1
  /\ \E f \in Outcome :
       /\ f.ok \/ submits' <= Faulty
       /\ objects' = IF f.left THEN objects \cup {submits'} ELSE objects
       /\ mine' = IF byUrl /\ f.ok THEN [mine EXCEPT ![c] = @ \cup {submits'}] ELSE mine
       /\ \/ /\ f.ok
             /\ task' = [task EXCEPT ![c] = submits']
             /\ abandon' = [abandon EXCEPT ![c] = FALSE]
             /\ Goto(c, "submit") /\ UNCHANGED lock
          \/ ~f.ok /\ Raise(c)
  /\ UNCHANGED <<journal, fallback, marked, archives, remote, byUrl, unheard, faults>>

(* annotate_ecot_source ends when its requests have, whatever became of    *)
(* their tasks, and closes its reference.                                  *)
Close(c) ==
  /\ pc[c] \in {"idle", "answered"} /\ mine[c] # {}
  /\ objects' = objects \ mine[c] /\ mine' = [mine EXCEPT ![c] = {}]
  /\ UNCHANGED <<callers, journal, fallback, marked, archives, remote, byUrl, submits, unheard, faults>>

(* The answer of a submission: a task; or an error, before or after the    *)
(* service has started one, upon which the media is deleted.               *)
Submit(c) ==
  /\ pc[c] = "submit"
  /\ remote' = [remote EXCEPT ![task[c]] = "running"]
  /\ Goto(c, "accepted")
  /\ UNCHANGED <<task, abandon, lock, journal, fallback, marked, archives,
                 media, submits, unheard, faults>>

SubmitError(c) ==
  /\ pc[c] = "submit" /\ MayFail
  /\ \/ UNCHANGED <<remote, unheard>>
     \/ /\ remote' = [remote EXCEPT ![task[c]] = "running"]
        /\ unheard' = unheard \cup {task[c]}
  /\ Cleanup(task[c])
  /\ Raise(c)
  /\ UNCHANGED <<journal, fallback, marked, archives, submits, faults>>

RecordSubmission(c) ==
  /\ pc[c] = "accepted"
  /\ journal' = [task |-> task[c], status |-> "PENDING"]
  /\ Goto(c, "polling")
  /\ UNCHANGED <<task, abandon, lock, fallback, marked, archives, service, faults>>

(* The caller parses the text outside the lock; invalidate_last_completed  *)
(* moves whatever journal there is and then writes the marker.             *)
Accept(c) ==
  /\ pc[c] = "parse" /\ remote[task[c]] = "good"
  /\ Goto(c, "answered")
  /\ UNCHANGED <<task, abandon, lock, journal, fallback, marked, archives, service, faults>>

SetAside(c) ==
  /\ pc[c] = "parse" /\ remote[task[c]] = "bad"
  /\ setAside' = IF journal = NoJournal THEN setAside ELSE setAside \cup {journal.task}
  /\ journal' = NoJournal
  /\ Goto(c, "marking")
  /\ UNCHANGED <<task, abandon, lock, fallback, marked, stale, mismatched, service, faults>>

Mark(c) ==
  /\ pc[c] = "marking" /\ marked' = TRUE
  /\ Raise(c)
  /\ UNCHANGED <<journal, fallback, archives, service, faults>>

(* The process of a caller dies and is started again; the flock is gone,   *)
(* and nobody will close its reference.                                    *)
Die(c) ==
  /\ faults < MaxFaults /\ MayFail /\ pc[c] \notin {"idle", "answered"}
  /\ faults' = faults + 1
  /\ Raise(c) /\ mine' = [mine EXCEPT ![c] = {}]
  /\ unheard' = IF pc[c] = "accepted" THEN unheard \cup {task[c]} ELSE unheard
  /\ UNCHANGED <<journal, fallback, marked, archives, remote, byUrl, objects, submits>>

(* The service ends a task.                                                *)
End(k) ==
  /\ remote[k] = "running"
  /\ \E s \in IF k <= Faulty THEN Ended ELSE {"good"} :
       remote' = [remote EXCEPT ![k] = s]
  /\ UNCHANGED <<callers, journal, fallback, marked, archives, media, submits, unheard, faults>>

Acquire(c) == CachedCall(c) \/ CallBegin(c)

Step(c) ==
  \/ RecordTerminal(c) \/ SummaryMissing(c) \/ Mismatch(c)
  \/ Publish(c) \/ Submit(c) \/ RecordSubmission(c) \/ Accept(c)
  \/ SetAside(c) \/ Mark(c)

Done == (\A c \in Caller : pc[c] = "answered") /\ UNCHANGED vars

Next ==
  \/ \E c \in Caller : \/ Acquire(c) \/ Step(c) \/ PollTerminal(c) \/ PollTimeout(c) \/ Abandon(c)
                       \/ SubmitError(c) \/ Close(c) \/ Die(c)
  \/ \E k \in Task : End(k)
  \/ Done

Spec == Init /\ [][Next]_vars

(* Callers go on, tasks end, and a poll that is repeated for ever is       *)
(* answered at last; a free lock is not withheld from a caller for ever.   *)
Fairness ==
  /\ \A c \in Caller : WF_vars(Step(c)) /\ SF_vars(PollTerminal(c)) /\ SF_vars(Acquire(c))
  /\ \A k \in Task : WF_vars(End(k))

FairSpec == Spec /\ Fairness
-----------------------------------------------------------------------------
TypeOK ==
  /\ pc \in [Caller -> {"idle", "calling", "publish", "submit", "accepted", "polling",
                        "recording", "parse", "marking", "answered"}]
  /\ task \in [Caller -> Task] /\ abandon \in [Caller -> BOOLEAN]
  /\ lock \subseteq Caller
  /\ journal \in Journal \cup {NoJournal} /\ fallback \in Journal \cup {NoJournal}
  /\ marked \in BOOLEAN
  /\ stale \subseteq Task /\ mismatched \subseteq Task /\ setAside \subseteq Task
  /\ remote \in [Task -> Ended \cup {"none", "running", "foreign"}]
  /\ byUrl \in BOOLEAN /\ mine \in [Caller -> SUBSET Task]
  /\ objects \subseteq Task /\ submits \in Task /\ unheard \subseteq Task
  /\ faults \in 0 .. MaxFaults

(* Tasks that run although the code has given them up: archived with their *)
(* journal, or started by a submission whose answer nobody recorded.       *)
GivenUp == stale \cup mismatched \cup setAside \cup unheard

(* At most one billable task of a request runs at the service, apart from  *)
(* those given up: neither concurrent callers, nor restarts, nor the       *)
(* promotion of the fallback journal submit a request that is under way.   *)
OneLiveTask ==
  \A j, k \in Task :
    remote[j] = "running" /\ remote[k] = "running" /\ {j, k} \cap GivenUp = {} => j = k

(* The media of a running task exists: until the task is terminal, even if *)
(* its journal was archived, unless nobody heard of the task; a reference, *)
(* until the call that published it has ended (and then a task that is     *)
(* still polled may lose it, which README.md says under LAS operator).     *)
MediaOutlivesTask ==
  \A k \in Task : remote[k] = "running" =>
    \/ k \in objects
    \/ ~ byUrl /\ k \in unheard
    \/ byUrl /\ \A c \in Caller : k \notin mine[c]

(* A request is resubmitted because of its age once in its life, whatever  *)
(* process asks.                                                           *)
OneStaleResubmission == Cardinality(stale) <= 1

(* Every call ends with a parseable answer: an unparseable one is never    *)
(* reused for ever from either tier, and no one waits for ever at the lock. *)
(* The exception is a journal whose task ended without a text, which every *)
(* call polls and no call replaces.                                        *)
Wedged == journal.status = "PENDING" /\ remote[journal.task] = "empty"

EveryCallAnswered == \A c \in Caller : (pc[c] = "idle") ~> (pc[c] = "answered" \/ Wedged)
=============================================================================
