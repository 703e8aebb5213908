--------------------------- MODULE ServiceCircuit ---------------------------
(***************************************************************************)
(* scripts/recoverable_service_circuit.py: the breaker in front of one     *)
(* model.  Attempts run under a ticket; service errors and timeouts open   *)
(* the circuit; after a cooldown one attempt, the probe, decides.          *)
(*                                                                         *)
(* A generation is compared with the newest one only and never comes back, *)
(* so instead of a number a ticket has a place in "fresh" while it is of   *)
(* the newest generation, and a new generation empties that set.  The      *)
(* clock is "cooled": whether self.until has passed.                       *)
(***************************************************************************)
EXTENDS Naturals

CONSTANTS Caller,    \* request threads in admit()
          Threshold  \* consecutive failures that open the circuit

ASSUME CircuitAssumption == Threshold \in Nat \ {0}

Result == {"success", "service_error", "retry_after", "transport_timeout",
           "other", "admission_cancelled"}

VARIABLES state,    \* "closed", "open" or "half_open"
          fresh,    \* callers whose ticket is of the newest generation
          failures, \* consecutive service failures
          cooled,   \* clock() >= until
          pc,       \* caller: "idle", "waiting", "attempt" or "finishing"
          probe,    \* caller: its ticket is the half-open one
          result    \* caller: the result that finish() is about to record

vars == <<state, fresh, failures, cooled, pc, probe, result>>

Init ==
  /\ state = "closed" /\ fresh = {} /\ failures = 0 /\ cooled = FALSE
  /\ pc = [c \in Caller |-> "idle"]
  /\ probe = [c \in Caller |-> FALSE]
  /\ result = [c \in Caller |-> "other"]

Holds(c) == pc[c] \in {"attempt", "finishing"}

(* allows: the ticket still permits an attempt that was not sent.          *)
Allows(c) == c \in fresh /\ (state = "closed" \/ (probe[c] /\ state = "half_open"))

(* The caller leaves with a ticket of the newest generation.               *)
Take(c, isProbe) ==
  /\ pc' = [pc EXCEPT ![c] = "attempt"]
  /\ probe' = [probe EXCEPT ![c] = isProbe]
  /\ fresh' = fresh \cup {c}

(* admit: one lock-free read of the published view.                        *)
Admit(c) ==
  /\ pc[c] = "idle"
  /\ \/ state = "closed" /\ Take(c, FALSE)
     \/ /\ state # "closed"
        /\ pc' = [pc EXCEPT ![c] = "waiting"]
        /\ UNCHANGED <<fresh, probe>>
  /\ UNCHANGED <<state, failures, cooled, result>>

(* _wait_for_recovery: the circuit has closed again.                       *)
WaitClosed(c) ==
  /\ pc[c] = "waiting" /\ state = "closed"
  /\ Take(c, FALSE)
  /\ UNCHANGED <<state, failures, cooled, result>>

(* _wait_for_recovery: the cooldown has passed, and this caller probes.    *)
ProbeAtAnyTime(c) ==
  /\ pc[c] = "waiting" /\ state # "closed" /\ cooled
  /\ state' = "half_open"
  /\ Take(c, TRUE)
  /\ UNCHANGED <<failures, cooled, result>>
WaitProbe(c) ==
  /\ pc[c] = "waiting" /\ state = "open" /\ cooled
  /\ state' = "half_open"
  /\ Take(c, TRUE)
  /\ UNCHANGED <<failures, cooled, result>>

(* The caller's own check raises while it waits.                           *)
GiveUp(c) ==
  /\ pc[c] = "waiting"
  /\ pc' = [pc EXCEPT ![c] = "idle"]
  /\ UNCHANGED <<state, fresh, failures, cooled, probe, result>>

Drop(c) ==
  /\ pc' = [pc EXCEPT ![c] = "idle"]
  /\ probe' = [probe EXCEPT ![c] = FALSE]
  /\ result' = [result EXCEPT ![c] = "other"]

(* finish without the lock: in a closed circuit some results change        *)
(* nothing.  All the others are recorded later, under the lock.            *)
NoEffect(c, r) ==
  /\ c \in fresh /\ ~ probe[c] /\ state = "closed"
  /\ r = "other" \/ (r = "success" /\ failures = 0)

Respond(c, r) ==
  /\ pc[c] = "attempt"
  /\ \/ NoEffect(c, r) /\ Drop(c) /\ fresh' = fresh \ {c}
     \/ /\ ~ NoEffect(c, r)
        /\ pc' = [pc EXCEPT ![c] = "finishing"]
        /\ result' = [result EXCEPT ![c] = r]
        /\ UNCHANGED <<fresh, probe>>
  /\ UNCHANGED <<state, failures, cooled>>

(* _open: a new generation, and a new cooldown.                            *)
Open == state' = "open" /\ fresh' = {} /\ cooled' = FALSE

(* The ticket is spent and nothing else happens.                           *)
Ignore(c) == fresh' = fresh \ {c} /\ UNCHANGED <<state, failures, cooled>>

(* A cancelled probe must reopen the circuit, a cancelled ticket does not  *)
(* count.                                                                  *)
ForgetCancelled(c) == result[c] = "admission_cancelled" /\ Ignore(c)
RecordCancelled(c) ==
  /\ result[c] = "admission_cancelled"
  /\ IF c \in fresh /\ probe[c] THEN Open /\ UNCHANGED failures ELSE Ignore(c)

(* A Retry-After opens the circuit whatever the ticket's generation.       *)
RecordRetryAfter(c) == result[c] = "retry_after" /\ Open /\ UNCHANGED failures

(* Results of an older generation are only counted.                        *)
Stale(c) == c \notin fresh

RecordStale(c) ==
  /\ result[c] \notin {"admission_cancelled", "retry_after"}
  /\ Stale(c) /\ Ignore(c)

RecordProbe(c) ==
  /\ result[c] \notin {"admission_cancelled", "retry_after"}
  /\ ~ Stale(c) /\ probe[c]
  /\ IF result[c] = "success"
     THEN state' = "closed" /\ failures' = 0 /\ fresh' = {} /\ UNCHANGED cooled
     ELSE Open /\ UNCHANGED failures

(* self.failures >= self.threshold after one more failure.                 *)
FailsNow == failures + 1 >= Threshold

RecordClosed(c) ==
  /\ result[c] \notin {"admission_cancelled", "retry_after"}
  /\ ~ Stale(c) /\ ~ probe[c]
  /\ CASE state = "closed" /\ result[c] = "success" ->
            failures' = 0 /\ fresh' = fresh \ {c} /\ UNCHANGED <<state, cooled>>
       [] state = "closed" /\ result[c] \in {"service_error", "transport_timeout"} ->
            /\ failures' = failures + 1
            /\ IF FailsNow THEN Open
               ELSE fresh' = fresh \ {c} /\ UNCHANGED <<state, cooled>>
       [] OTHER -> Ignore(c)

(* finish under the lock.                                                  *)
Finish(c) ==
  /\ pc[c] = "finishing"
  /\ Drop(c)
  /\ \/ RecordCancelled(c)
     \/ RecordRetryAfter(c)
     \/ RecordStale(c)
     \/ RecordProbe(c)
     \/ RecordClosed(c)

CooldownPasses ==
  /\ state = "open" /\ ~ cooled
  /\ cooled' = TRUE
  /\ UNCHANGED <<state, fresh, failures, pc, probe, result>>

Next ==
  \/ \E c \in Caller : \/ Admit(c) \/ WaitClosed(c) \/ WaitProbe(c) \/ GiveUp(c)
                       \/ \E r \in Result : Respond(c, r)
                       \/ Finish(c)
  \/ CooldownPasses

Spec == Init /\ [][Next]_vars

(* Clocks advance, attempts time out and callers keep coming.  Waiters     *)
(* poll every second and not every one's own check raises each time it     *)
(* could probe; a probe that is sent again and again succeeds once.        *)
Fairness ==
  /\ WF_vars(CooldownPasses)
  /\ \A c \in Caller : /\ WF_vars(Admit(c))
                       /\ WF_vars(\E r \in Result : Respond(c, r))
                       /\ WF_vars(Finish(c))
  /\ SF_vars(\E c \in Caller : WaitProbe(c))
  /\ SF_vars(\E c \in Caller : probe[c] /\ Respond(c, "success"))

FairSpec == Spec /\ Fairness

-----------------------------------------------------------------------------
TypeOK ==
  /\ state \in {"closed", "open", "half_open"}
  /\ fresh \subseteq Caller
  /\ failures \in 0 .. Threshold /\ cooled \in BOOLEAN
  /\ pc \in [Caller -> {"idle", "waiting", "attempt", "finishing"}]
  /\ probe \in [Caller -> BOOLEAN]
  /\ result \in [Caller -> Result]

(* "An interrupted half-open attempt must never strand the gate": whenever *)
(* the circuit is half open, an attempt whose result will decide it is     *)
(* running or being recorded, however late, stale or cancelled answers of  *)
(* earlier generations arrive.                                             *)
HalfOpenHasProbe ==
  state = "half_open" => \E c \in fresh : probe[c] /\ Holds(c)

(* "One bounded half-open inference attempt": while the circuit is not     *)
(* closed no two unsent attempts are still permitted, those admitted when  *)
(* it was closed included.                                                 *)
OneAttemptWhileBroken ==
  state # "closed" => \A c, d \in Caller : Allows(c) /\ Allows(d) => c = d

(* A closed circuit has counted fewer failures than its threshold, across  *)
(* recoveries, Retry-After openings and results recorded out of order.     *)
ClosedIsBelowThreshold == state = "closed" => failures < Threshold

(* Only the success of the current probe closes the circuit: no late       *)
(* success of an earlier generation does.                                  *)
OnlyProbeCloses ==
  [][state # "closed" /\ state' = "closed" =>
       \E c \in fresh : probe[c] /\ pc[c] = "finishing" /\ result[c] = "success"]_vars

(* A model that works again is used again: stale failures and Retry-After  *)
(* answers cannot keep the circuit open for ever.                          *)
Recovers == state # "closed" ~> state = "closed"

(* The inductive invariant: who holds a ticket of the newest generation,   *)
(* in each state of the circuit.                                           *)
TicketsFitState ==
  /\ \A c \in fresh : Holds(c)
  /\ state = "closed" => \A c \in fresh : ~ probe[c]
  /\ state = "open" => fresh = {}
  /\ state = "half_open" => \E c \in fresh : fresh = {c} /\ probe[c]

IndInv == TypeOK /\ TicketsFitState /\ ClosedIsBelowThreshold
=============================================================================
