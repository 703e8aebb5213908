--------------------------- MODULE PacedDispatch ---------------------------
(***************************************************************************)
(* scripts/paced_request_dispatcher.py: request threads queue for a start  *)
(* permit; one dispatcher thread grants permits at the pacer's rate and    *)
(* then wakes the granted threads; one watchdog replaces a dispatcher that *)
(* no longer makes progress.                                               *)
(*                                                                         *)
(* Generations are compared with the newest one only: "latest" is the      *)
(* dispatcher that holds it.  Time is two flags: whether a permit is due,  *)
(* and whether five seconds have passed since a grant or a restart.  Each  *)
(* wait of a dispatcher has a timeout, so notify adds no behaviour.  The   *)
(* watchdog is started by a queued request and returns on an empty queue.  *)
(***************************************************************************)
EXTENDS Naturals, Sequences, SequencesExt

CONSTANTS Request,    \* request threads
          Dispatcher, \* bound: dispatcher threads alive at once
          MaxFaults   \* bound: crashed and stalled dispatchers

ASSUME DispatchAssumption == MaxFaults \in Nat

VARIABLES pc,       \* request: "idle" or "waiting" for its permit
          pending,  \* the queue of tickets
          granted,  \* waiting requests with ticket['granted']
          woken,    \* waiting requests whose event is set
          due,      \* pacer.next_start <= now
          quiet,    \* now - max(last_grant_at, last_restart_at) >= 5
          latest,   \* the dispatcher of the newest generation
          dpc,      \* dispatcher: "top", "idle", "notifying", "leaving", "dead"
          tickets,  \* dispatcher: granted tickets it has still to notify
          watchdog, \* "none", "watching", or "returned": not looking, is_alive()
          stuck,    \* dispatchers that are alive and make no progress
          faults

queue == <<pc, pending, granted, woken>>
threads == <<latest, dpc>>
vars == <<pc, pending, granted, woken, due, quiet, latest, dpc, tickets,
          watchdog, stuck, faults>>

Init ==
  /\ pc = [r \in Request |-> "idle"]
  /\ pending = <<>> /\ granted = {} /\ woken = {}
  /\ due = TRUE /\ quiet = TRUE
  /\ latest \in Dispatcher
  /\ dpc = [d \in Dispatcher |-> "dead"]
  /\ tickets = [d \in Dispatcher |-> {}]
  /\ watchdog = "none" /\ stuck = {} /\ faults = 0

(* _ensure_thread_unlocked: a dispatcher that is dead, or has let due      *)
(* permits lie for five seconds, is replaced by one of a new generation.   *)
Alive == dpc[latest] # "dead"
Stalled(q) == q # <<>> /\ due /\ quiet

Start(others) ==
  \E d \in Dispatcher :
    /\ others[d] = "dead"
    /\ dpc' = [others EXCEPT ![d] = "top"]
    /\ latest' = d
    /\ quiet' = FALSE

EnsureThread(q) ==
  IF Alive /\ ~ Stalled(q) THEN UNCHANGED <<threads, quiet>> ELSE Start(dpc)

(* _ensure_watchdog_unlocked.                                              *)
EnsureWatchdog == watchdog' = IF watchdog = "none" THEN "watching" ELSE watchdog

-----------------------------------------------------------------------------
(* Request threads                                                         *)

(* wait: a permit that is due, with no older waiter, is taken at once.     *)
ImmediateAhead(r) ==
  /\ pc[r] = "idle" /\ due
  /\ due' = FALSE
  /\ UNCHANGED <<queue, quiet, threads, tickets, watchdog, stuck, faults>>
Immediate(r) ==
  /\ pc[r] = "idle" /\ due /\ pending = <<>>
  /\ due' = FALSE
  /\ UNCHANGED <<queue, quiet, threads, tickets, watchdog, stuck, faults>>

(* wait: otherwise the request queues.                                     *)
Enqueue(r) ==
  /\ pc[r] = "idle" /\ (pending # <<>> \/ ~ due)
  /\ pc' = [pc EXCEPT ![r] = "waiting"]
  /\ pending' = Append(pending, r)
  /\ EnsureThread(pending')
  /\ EnsureWatchdog
  /\ UNCHANGED <<granted, woken, due, tickets, stuck, faults>>

(* The ticket is dropped; a dispatcher that still holds it wakes nobody.   *)
DropTicket(r) ==
  /\ pc' = [pc EXCEPT ![r] = "idle"]
  /\ granted' = granted \ {r} /\ woken' = woken \ {r}
  /\ tickets' = [d \in Dispatcher |-> tickets[d] \ {r}]

(* The event is set: the request starts.                                   *)
Observe(r) ==
  /\ pc[r] = "waiting" /\ r \in woken
  /\ DropTicket(r)
  /\ UNCHANGED <<pending, due, quiet, threads, watchdog, stuck, faults>>

(* The request's check raises.  Whether it was granted meanwhile is        *)
(* decided under the lock: a granted ticket is no longer in the queue.     *)
Cancel(r) ==
  /\ pc[r] = "waiting"
  /\ DropTicket(r)
  /\ IF r \in granted THEN UNCHANGED pending
     ELSE \E i \in 1 .. Len(pending) :
            pending[i] = r /\ pending' = RemoveAt(pending, i)
  /\ UNCHANGED <<due, quiet, threads, watchdog, stuck, faults>>

-----------------------------------------------------------------------------
(* The dispatcher                                                          *)

Goto(d, label) == dpc' = [dpc EXCEPT ![d] = label]
DispatcherOnly == UNCHANGED <<queue, due, quiet, latest, tickets, watchdog, stuck, faults>>

(* An older generation leaves, and so does a dispatcher that has waited a  *)
(* minute on an empty queue.                                               *)
Retire(d) ==
  /\ dpc[d] \in {"top", "idle"} /\ d # latest
  /\ Goto(d, "leaving") /\ DispatcherOnly

Rest(d) ==
  /\ dpc[d] = "top" /\ d = latest /\ pending = <<>>
  /\ Goto(d, "idle") /\ DispatcherOnly

IdleTimeout(d) ==
  /\ dpc[d] = "idle" /\ d = latest /\ pending = <<>>
  /\ Goto(d, "leaving") /\ DispatcherOnly

(* Work has come, but no permit is due yet.                                *)
Resume(d) ==
  /\ dpc[d] = "idle" /\ d = latest /\ pending # <<>> /\ ~ due
  /\ Goto(d, "top") /\ DispatcherOnly

(* The generation is compared at the top of the loop and again after the   *)
(* wait on an empty queue.                                                 *)
MayGrant(d) == dpc[d] \in {"top", "idle"} /\ d = latest

(* One locked step takes a cohort from the queue and marks it granted; how *)
(* large it may be depends on lateness and interval.                       *)
Grant(d) ==
  /\ MayGrant(d) /\ due
  /\ \E n \in 1 .. Len(pending) :
       LET cohort == {pending[i] : i \in 1 .. n}
       IN  /\ pending' = SubSeq(pending, n + 1, Len(pending))
           /\ granted' = granted \cup cohort
           /\ tickets' = [tickets EXCEPT ![d] = cohort]
  /\ Goto(d, "notifying")
  /\ due' = FALSE /\ quiet' = FALSE
  /\ UNCHANGED <<pc, woken, latest, watchdog, stuck, faults>>

(* ticket['event'].set(), outside the lock.                                *)
Notify(d) ==
  /\ dpc[d] = "notifying"
  /\ \/ /\ tickets[d] = {}
        /\ Goto(d, "top")
        /\ UNCHANGED <<woken, tickets>>
     \/ \E r \in tickets[d] :
          /\ woken' = woken \cup {r}
          /\ tickets' = [tickets EXCEPT ![d] = @ \ {r}]
          /\ UNCHANGED dpc
  /\ UNCHANGED <<pc, pending, granted, due, quiet, latest, watchdog, stuck, faults>>

(* The finally of _run: requests that queued after the loop was left get a *)
(* new dispatcher.                                                         *)
Leave(d) ==
  /\ dpc[d] = "leaving"
  /\ LET gone == [dpc EXCEPT ![d] = "dead"]
     IN  IF d = latest /\ pending # <<>>
         THEN Start(gone)
         ELSE dpc' = gone /\ UNCHANGED <<latest, quiet>>
  /\ UNCHANGED <<queue, due, tickets, watchdog, stuck, faults>>

(* The pacer's feedback raises inside the loop, before anything is taken   *)
(* from the queue.                                                         *)
Crash(d) ==
  /\ MayGrant(d) /\ pending # <<>> /\ faults < MaxFaults
  /\ Goto(d, "leaving")
  /\ faults' = faults + 1
  /\ UNCHANGED <<queue, due, quiet, latest, tickets, watchdog, stuck>>

(* "A Thread object can remain nominally alive while its dispatch loop is  *)
(* no longer making progress", and may recover late.                       *)
Stall(d) ==
  /\ dpc[d] # "dead" /\ faults < MaxFaults
  /\ stuck' = stuck \cup {d}
  /\ faults' = faults + 1
  /\ UNCHANGED <<queue, due, quiet, threads, tickets, watchdog>>

Revive(d) ==
  /\ d \in stuck
  /\ stuck' = stuck \ {d}
  /\ UNCHANGED <<queue, due, quiet, threads, tickets, watchdog, faults>>

DispatcherStep(d) ==
  /\ d \notin stuck
  /\ Retire(d) \/ Rest(d) \/ IdleTimeout(d) \/ Resume(d) \/ Grant(d) \/ Notify(d)
     \/ Leave(d) \/ Crash(d) \/ Stall(d)

-----------------------------------------------------------------------------
(* The watchdog, once a second.  Its thread is alive for a while after the *)
(* loop has returned.                                                      *)
WatchLook ==
  /\ watchdog = "watching"
  /\ IF pending = <<>>
     THEN watchdog' = "returned" /\ UNCHANGED <<threads, quiet>>
     ELSE EnsureThread(pending) /\ UNCHANGED watchdog
  /\ UNCHANGED <<queue, due, tickets, stuck, faults>>

WatchDies ==
  /\ watchdog = "returned"
  /\ watchdog' = "none"
  /\ UNCHANGED <<queue, due, quiet, threads, tickets, stuck, faults>>

(* The clock.                                                              *)
PermitDue ==
  /\ ~ due /\ due' = TRUE
  /\ UNCHANGED <<queue, quiet, threads, tickets, watchdog, stuck, faults>>

FiveSeconds ==
  /\ ~ quiet /\ quiet' = TRUE
  /\ UNCHANGED <<queue, due, threads, tickets, watchdog, stuck, faults>>

-----------------------------------------------------------------------------
Next ==
  \/ \E r \in Request : Immediate(r) \/ Enqueue(r) \/ Observe(r) \/ Cancel(r)
  \/ \E d \in Dispatcher : DispatcherStep(d) \/ Revive(d)
  \/ WatchLook \/ WatchDies
  \/ PermitDue \/ FiveSeconds

Spec == Init /\ [][Next]_vars

(* Every wait has a timeout and every lock is released: threads that are   *)
(* not stuck run, whichever of them holds the newest generation.           *)
Running(d) == d \notin stuck /\ (Retire(d) \/ Rest(d) \/ Notify(d) \/ Leave(d))
Fairness ==
  /\ \A r \in Request : WF_vars(Observe(r))
  /\ \A d \in Dispatcher : WF_vars(Running(d))
  /\ WF_vars(\E d \in Dispatcher : d \notin stuck /\ Grant(d))
  /\ WF_vars(WatchLook) /\ WF_vars(WatchDies)
  /\ WF_vars(PermitDue) /\ WF_vars(FiveSeconds)

FairSpec == Spec /\ Fairness

-----------------------------------------------------------------------------
TypeOK ==
  /\ pc \in [Request -> {"idle", "waiting"}]
  /\ pending \in Seq(Request)
  /\ granted \subseteq Request /\ woken \subseteq granted
  /\ due \in BOOLEAN /\ quiet \in BOOLEAN
  /\ latest \in Dispatcher
  /\ dpc \in [Dispatcher -> {"top", "idle", "notifying", "leaving", "dead"}]
  /\ tickets \in [Dispatcher -> SUBSET granted]
  /\ watchdog \in {"none", "watching", "returned"}
  /\ stuck \subseteq Dispatcher
  /\ faults \in 0 .. MaxFaults

(* "Pending waiters must recover even when the dispatcher exits            *)
(* unexpectedly and no new request arrives": while a ticket is queued, the *)
(* newest dispatcher has not passed its last look at the queue.            *)
QueueHasDispatcher == pending # <<>> => Alive

NoRepeats(q) == \A i, j \in 1 .. Len(q) : q[i] = q[j] => i = j
HeldByDispatcher(r) == \E d \in Dispatcher : dpc[d] = "notifying" /\ r \in tickets[d]

(* Each waiting request, and nobody else, has exactly one ticket, and that *)
(* is queued, or granted and known to the dispatcher that will wake it, or *)
(* woken: no order of grants, cancellations, replacements and late         *)
(* notifications loses a permit or leaves one behind.                      *)
TicketIsSomewhere ==
  /\ NoRepeats(pending)
  /\ \A r \in Request :
       /\ (pc[r] = "waiting") <=> (Contains(pending, r) \/ r \in granted)
       /\ ~ (Contains(pending, r) /\ r \in granted)
       /\ r \in granted => (HeldByDispatcher(r) \/ r \in woken)

(* "Generation checks make a late-recovering predecessor exit before it    *)
(* can grant again": two dispatchers never pace the same queue.            *)
OnlyNewestGrants ==
  [][\A d \in Dispatcher : dpc[d] # "notifying" /\ dpc'[d] = "notifying" => d = latest]_vars

(* A request in the queue, while no dispatcher is stuck.                   *)
Waits(r) == pc[r] = "waiting" /\ stuck = {}

(* The comment on the watchdog: "A single watchdog retains                 *)
(* dead/stalled-thread recovery".  A queue whose dispatcher is stuck gets  *)
(* another one.                                                            *)
StalledIsReplaced ==
  (pending # <<>> /\ latest \in stuck) ~> (pending = <<>> \/ latest \notin stuck)
=============================================================================
