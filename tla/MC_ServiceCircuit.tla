------------------------- MODULE MC_ServiceCircuit -------------------------
(***************************************************************************)
(* What a request goes through in the API client, in three parts of which  *)
(* the initial state chooses one; the others have nothing to do.           *)
(*                                                                         *)
(* The circuit, with three callers that do as they like: a probe, a late   *)
(* answer of an older generation, and one that arrives meanwhile.  Or two  *)
(* requests with a circuit of their own and one network slot (Requests).   *)
(* Or the two caches of the availability check that all of them make, asked *)
(* by a thread of either of two episodes and by the thread that keeps the  *)
(* inner one recent (AvailabilityCheck).                                   *)
(***************************************************************************)
EXTENDS ServiceCircuit

CONSTANTS c1, c2, c3, r1, r2, v1, v2, Request, Slots, MaxAttempts, MaxFailures,
          Asker, Refresher, Episode, EpisodeOf, MaxMishaps

MCEpisodeOf == [c \in Asker |-> IF c = c1 THEN v1 ELSE v2]

VARIABLES rState, rFresh, rFailures, rCooled, rPc, rProbe, rResult, phase, answer, tries,
          throttled, transient, media, slots, cooldown, streak, rStop, late

VARIABLES at, snapshot, leader, found, stop, refused, rejected, warned, mishaps

Api == INSTANCE Requests
  WITH state <- rState, fresh <- rFresh, failures <- rFailures, cooled <- rCooled, pc <- rPc,
       probe <- rProbe, result <- rResult, stop <- rStop

Check == INSTANCE AvailabilityCheck WITH Caller <- Asker

ASSUME RequestsConstants == Api!RequestsAssumption
ASSUME AvailabilityConstants == Check!AvailabilityAssumption

api == <<rState, rFresh, rFailures, rCooled, rPc, rProbe, rResult, phase, answer, tries,
         throttled, transient, media, slots, cooldown, streak, rStop, late>>
availability ==
  <<at, snapshot, leader, found, stop, refused, rejected, warned, mishaps>>

(* Callers without a circuit or a check to ask, and requests that ended.   *)
CircuitUnused ==
  /\ state = "closed" /\ fresh = {} /\ failures = 0 /\ cooled = FALSE
  /\ pc = [c \in Caller |-> "unused"] /\ probe = [c \in Caller |-> FALSE]
  /\ result = [c \in Caller |-> "other"]

RequestsUnused ==
  LET none == [r \in Request |-> 0]
  IN  /\ Api!Circuit!Init
      /\ phase = [r \in Request |-> "ok"] /\ answer = [r \in Request |-> "none"]
      /\ tries = none /\ throttled = none /\ transient = none /\ media = none
      /\ slots = {} /\ cooldown = FALSE /\ streak = 0 /\ rStop = FALSE /\ late = {}

AvailabilityUnused ==
  /\ at = [k \in Check!Cache |-> [c \in Check!Thread |-> "unused"]]
  /\ snapshot = [k \in Check!Cache |-> "old"] /\ leader = [k \in Check!Cache |-> {}]
  /\ found = [k \in Check!Cache |-> "ok"] /\ stop = FALSE /\ refused = {} /\ rejected = {}
  /\ warned = {} /\ mishaps = 0

InUse == at["client"][Refresher] # "unused"

ClientInit == \/ Init /\ RequestsUnused /\ AvailabilityUnused
              \/ CircuitUnused /\ Api!Init /\ AvailabilityUnused
              \/ CircuitUnused /\ RequestsUnused /\ Check!Init

ClientNext == \/ Next /\ UNCHANGED <<api, availability>>
              \/ Api!Next /\ UNCHANGED <<vars, availability>>
              \/ InUse /\ Check!Next /\ UNCHANGED <<vars, api>>

ClientSpec ==
  /\ ClientInit /\ [][ClientNext]_<<vars, api, availability>> /\ Fairness
  /\ \A r \in Request : WF_api(Api!Step(r))
  /\ WF_api(Api!CircuitCools) /\ WF_api(Api!CooldownEnds)
  /\ \A c \in Check!Thread : WF_availability(Check!Step(c))

(* A request whose ticket was revoked is not sent (Requests).              *)
RevokedIsNotSent == Api!RevokedIsNotSent

(* The provider is stopped only for failures that count (Requests).        *)
StopIsDeserved == Api!StopIsDeserved

(* A stop that is overdue is seen (AvailabilityCheck).                     *)
StopIsSeen == Check!StopIsSeen

(* Every request ends, and so does every question about the availability   *)
(* (Requests, AvailabilityCheck): r2 is a second r1, and c1 and c2 differ  *)
(* in what they may find only.                                             *)
NobodyWaitsForEver == Api!RequestEnds(r1) /\ Check!CheckEnds(c2)

(* A saved refusal is of the episode's own video (AvailabilityCheck; it    *)
(* does not hold).                                                         *)
RejectionIsOwn == Check!RejectionIsOwn
=============================================================================
