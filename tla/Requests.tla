------------------------------ MODULE Requests ------------------------------
(***************************************************************************)
(* scripts/annotate_videos.py: the attempts of requests to one model, in   *)
(* the configuration of the Ark and LAS fleets: service circuit, paced     *)
(* dispatcher, fair network slots.  attempt_admission takes a ticket of    *)
(* the circuit, waits out the provider's cooldown and for a paced start,   *)
(* then for a slot, and checks the ticket in between; whoever finds it     *)
(* expired starts again at the circuit.  _request_json_serialized retries, *)
(* classifies the answers and may stop the provider for good.              *)
(*                                                                         *)
(* The circuit is the one of ServiceCircuit: its actions are parts of the  *)
(* actions here.  A request's `attempt' of the circuit covers everything   *)
(* from the ticket to the answer.                                          *)
(***************************************************************************)
EXTENDS Naturals, FiniteSets

CONSTANTS Request,     \* threads, each in one request_json
          Threshold,   \* of the circuit
          Slots,       \* network slots
          MaxAttempts, \* max_attempts of a request
          MaxFailures  \* max_consecutive_request_failures

RequestsAssumption ==
  Threshold \in Nat \ {0} /\ Slots \in Nat \ {0}
  /\ MaxAttempts \in Nat \ {0} /\ MaxFailures \in Nat \ {0}

VARIABLES state, fresh, failures, cooled, pc, probe, result, \* of the circuit
          phase,     \* request -> where it is
          answer,    \* request -> the answer of its running attempt
          tries,     \* request -> attempts that were answered
          throttled, \* request -> those with status 429
          transient, \* request -> those with a 5xx status or a timeout
          media,     \* request -> those whose signed media could not be fetched
          slots,     \* requests that hold a network slot
          cooldown,  \* cooldown_until is in the future
          streak,    \* request_failures
          stop,      \* the fatal stop file exists
          late       \* requests that took their slot with a revoked ticket

Circuit == INSTANCE ServiceCircuit WITH Caller <- Request

circuit == <<state, fresh, failures, cooled, pc, probe, result>>
counts == <<tries, throttled, transient, media>>
provider == <<cooldown, streak, stop>>
vars == <<circuit, phase, answer, counts, slots, provider, late>>

Ended == {"ok", "failed", "fatal"}
Unsent == {"cooling", "pacing", "permitted", "queued", "slot"}

Init ==
  /\ Circuit!Init
  /\ phase = [r \in Request |-> "gate"] /\ answer = [r \in Request |-> "none"]
  /\ tries = [r \in Request |-> 0] /\ throttled = [r \in Request |-> 0]
  /\ transient = [r \in Request |-> 0] /\ media = [r \in Request |-> 0]
  /\ slots = {} /\ cooldown = FALSE /\ streak = 0 /\ stop = FALSE /\ late = {}

Go(r, where) == phase' = [phase EXCEPT ![r] = where]

(* circuit.admit: at once in a closed circuit, else after a recovery or as *)
(* its probe.  The answer before has been recorded there by now.           *)
Gate(r) ==
  /\ phase[r] = "gate"
  /\ Circuit!Admit(r) \/ Circuit!WaitClosed(r) \/ Circuit!WaitProbe(r)
  /\ phase' = [phase EXCEPT ![r] = IF pc'[r] = "attempt" THEN "cooling" ELSE "gate"]
  /\ UNCHANGED <<answer, counts, slots, provider, late>>

(* wait_for_provider, before the paced start and between attempts.         *)
WaitForProvider(r) ==
  /\ ~ cooldown
  /\ \/ phase[r] = "cooling" /\ Go(r, "pacing")
     \/ phase[r] = "rest" /\ Go(r, "gate")
  /\ UNCHANGED <<circuit, answer, counts, slots, provider, late>>

(* check_ticket.                                                           *)
Admissible(r) == Circuit!Allows(r) /\ ~ cooldown

(* The dispatcher grants; its waiter checks before and after.              *)
Permit(r) ==
  /\ phase[r] = "pacing" /\ Go(r, "permitted")
  /\ UNCHANGED <<circuit, answer, counts, slots, provider, late>>

Queue(r) ==
  /\ phase[r] = "permitted" /\ Admissible(r) /\ Go(r, "queued")
  /\ UNCHANGED <<circuit, answer, counts, slots, provider, late>>

(* network: the wait for a slot does not look at the ticket.               *)
TakeSlot(r) ==
  /\ phase[r] = "queued" /\ Cardinality(slots) < Slots
  /\ slots' = slots \cup {r} /\ Go(r, "slot")
  /\ late' = IF Circuit!Allows(r) THEN late \ {r} ELSE late \cup {r}
  /\ UNCHANGED <<circuit, answer, counts, provider>>

(* The last check, and the HTTP attempt under way.                         *)
Unchecked(r) == TRUE \* mutant
LastCheck(r) == Admissible(r)

Send(r) ==
  /\ phase[r] = "slot" /\ LastCheck(r) /\ Go(r, "sent")
  /\ UNCHANGED <<circuit, answer, counts, slots, provider, late>>

(* The admission contexts are left in the reverse order, whatever raised.  *)
LeaveKeepingSlot(r, outcome) == Circuit!Respond(r, outcome) /\ UNCHANGED slots \* mutant
Leave(r, outcome) == Circuit!Respond(r, outcome) /\ slots' = slots \ {r}

(* ServiceAdmissionExpired: no attempt is spent; the request is back at    *)
(* the gate once the circuit has recorded the cancellation.                *)
Expire(r) ==
  /\ phase[r] \in {"pacing", "permitted", "slot"} /\ ~ Admissible(r)
  /\ Leave(r, "admission_cancelled") /\ Go(r, "gate")
  /\ UNCHANGED <<answer, counts, provider, late>>

(* What an attempt may meet, and what the circuit makes of it: a usable or *)
(* an unusable text, a dropped connection, a timeout, status 5xx or 429    *)
(* each with or without Retry-After, media that could not be fetched, a    *)
(* rejected request, and a closed account.                                 *)
Outcome == [ok |-> "success", unusable |-> "success", dropped |-> "other",
            timeout |-> "transport_timeout", error |-> "service_error",
            error_after |-> "retry_after", throttle |-> "other",
            throttle_after |-> "other", media |-> "other", rejected |-> "other",
            fatal |-> "other"]
Answers == DOMAIN Outcome

Receive(r) ==
  /\ phase[r] = "sent"
  /\ \E a \in Answers : /\ answer' = [answer EXCEPT ![r] = a]
                        /\ Leave(r, Outcome[a])
  /\ Go(r, "received")
  /\ UNCHANGED <<counts, provider, late>>

(* circuit.finish under its lock.                                          *)
Record(r) ==
  /\ Circuit!Finish(r)
  /\ UNCHANGED <<phase, answer, counts, slots, provider, late>>

(* The handlers of the attempt.  Of the rate limits only one with a        *)
(* Retry-After stops the others for a time.                                *)
CountIf(n, r, answers) == [n EXCEPT ![r] = IF answer[r] \in answers THEN @ + 1 ELSE @]

Settle(r) ==
  /\ phase[r] = "received" /\ pc[r] = "idle"
  /\ tries' = [tries EXCEPT ![r] = @ + 1]
  /\ throttled' = CountIf(throttled, r, {"throttle", "throttle_after"})
  /\ transient' = CountIf(transient, r, {"error", "error_after", "timeout"})
  /\ media' = CountIf(media, r, {"media"})
  /\ streak' = IF answer[r] = "ok" THEN 0 ELSE streak
  /\ stop' = (stop \/ answer[r] = "fatal")
  /\ cooldown' = (cooldown \/ answer[r] = "throttle_after")
  /\ Go(r, IF answer[r] \in {"ok", "fatal"} THEN answer[r]
           ELSE IF answer[r] = "rejected" \/ tries'[r] = MaxAttempts THEN "exhausted"
           ELSE "rest")
  /\ UNCHANGED <<circuit, answer, slots, late>>

(* Failures that leave the provider alone, when all attempts met them.     *)
OnlyThrottled(r) == throttled[r] = MaxAttempts \* mutant
Excused(r) ==
  \/ throttled[r] = MaxAttempts
  \/ transient[r] > 0 /\ transient[r] + throttled[r] = MaxAttempts
  \/ media[r] > 0 /\ media[r] + transient[r] + throttled[r] = MaxAttempts

(* A request that failed otherwise counts; if it completes the row, and    *)
(* the last success is old enough, its thread goes on to stop the provider *)
(* outside the lock.                                                       *)
GiveUp(r) ==
  /\ phase[r] = "exhausted"
  /\ \/ Excused(r) /\ Go(r, "failed") /\ UNCHANGED streak
     \/ /\ ~ Excused(r) /\ streak' = streak + 1
        /\ \/ Go(r, "failed")
           \/ streak' >= MaxFailures /\ Go(r, "stopping")
  /\ UNCHANGED <<circuit, answer, counts, slots, cooldown, stop, late>>

StopProvider(r) ==
  /\ phase[r] = "stopping"
  /\ stop' = TRUE /\ Go(r, "fatal")
  /\ UNCHANGED <<circuit, answer, counts, slots, cooldown, streak, late>>

(* ensure_available sees the stop file, in any of the waits, as late as    *)
(* its cache allows.                                                       *)
Abort(r) ==
  /\ stop /\ phase[r] \in Unsent \cup {"gate", "rest"}
  /\ \/ Leave(r, "other")
     \/ Circuit!GiveUp(r) /\ UNCHANGED slots
     \/ pc[r] = "idle" /\ UNCHANGED <<circuit, slots>>
  /\ Go(r, "fatal")
  /\ UNCHANGED <<answer, counts, provider, late>>

CircuitCools ==
  /\ Circuit!CooldownPasses
  /\ UNCHANGED <<phase, answer, counts, slots, provider, late>>

CooldownEnds ==
  /\ cooldown /\ cooldown' = FALSE
  /\ UNCHANGED <<circuit, phase, answer, counts, slots, streak, stop, late>>

AllEnded == \A r \in Request : phase[r] \in Ended /\ pc[r] = "idle"
Finished == AllEnded /\ UNCHANGED vars

Step(r) ==
  \/ Gate(r) \/ WaitForProvider(r) \/ Permit(r) \/ Queue(r) \/ TakeSlot(r) \/ Send(r)
  \/ Expire(r) \/ Receive(r) \/ Record(r) \/ Settle(r) \/ GiveUp(r) \/ StopProvider(r)
  \/ Abort(r)

Next == (\E r \in Request : Step(r)) \/ CircuitCools \/ CooldownEnds \/ Finished

Spec == Init /\ [][Next]_vars

(* Threads run, attempts end by their timeout, and time passes.  Nothing   *)
(* is assumed about the answers.                                           *)
FairSpec ==
  Spec /\ (\A r \in Request : WF_vars(Step(r))) /\ WF_vars(CircuitCools) /\ WF_vars(CooldownEnds)
-----------------------------------------------------------------------------
TypeOK ==
  /\ Circuit!TypeOK
  /\ phase \in [Request -> Ended \cup Unsent \cup {"gate", "sent", "received", "rest",
                                                   "exhausted", "stopping"}]
  /\ answer \in [Request -> Answers \cup {"none"}]
  /\ \A n \in {tries, throttled, transient, media} : n \in [Request -> 0 .. MaxAttempts]
  /\ slots \subseteq Request /\ late \subseteq Request
  /\ cooldown \in BOOLEAN /\ stop \in BOOLEAN /\ streak \in 0 .. Cardinality(Request)

(* "Recheck before consuming HTTP slots": a request whose ticket was       *)
(* revoked while it waited for the cooldown, its paced start or a slot is  *)
(* not sent, even if the circuit has closed again meanwhile.               *)
RevokedIsNotSent == \A r \in late : phase[r] # "sent"

(* "Transient throttling must not permanently stop independent models":    *)
(* the provider is stopped for good only after a fatal answer, or after as *)
(* many failed requests as configured, each of which met something other   *)
(* than throttling, service errors, timeouts and unfetchable media.        *)
Guilty(r) == tries[r] > throttled[r] + transient[r] + media[r] /\ answer[r] # "ok"
StopIsDeserved ==
  stop => \/ \E r \in Request : answer[r] = "fatal"
          \/ Cardinality({r \in Request : Guilty(r)}) >= MaxFailures

(* Every request ends, whatever the service answers: expired tickets,      *)
(* cancelled probes, cooldowns and slots never keep requests going round   *)
(* for ever, and none keeps what another one waits for.                    *)
RequestEnds(r) == <>(phase[r] \in Ended)
=============================================================================
