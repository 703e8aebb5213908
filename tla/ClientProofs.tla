---------------------------- MODULE ClientProofs ----------------------------
(***************************************************************************)
(* Proofs about what a request goes through in the API client, for every   *)
(* value of the constants: the circuit (ServiceCircuit), the client that   *)
(* drives it (Requests, here Api) and the availability check               *)
(* (AvailabilityCheck, here Check).  The parts share nothing, and each     *)
(* theorem is about the specification of one of them.                      *)
(***************************************************************************)
EXTENDS MC_ServiceCircuit, FiniteSetTheorems, TLAPS

(* Every step that opens the circuit re-establishes the invariant, because *)
(* it invalidates every ticket.                                            *)
LEMMA OpenKeeps ==
  ASSUME IndInv, NEW c \in Caller, Drop(c), Open,
         failures' \in 0 .. Threshold
  PROVE  IndInv'
  BY DEF IndInv, TypeOK, TicketsFitState, ClosedIsBelowThreshold, Drop, Open, Holds, Result

(* A ticket that is spent without effect was not the probe's.              *)
LEMMA IgnoreKeeps ==
  ASSUME IndInv, NEW c \in Caller, Drop(c), Ignore(c), ~ (c \in fresh /\ probe[c])
  PROVE  IndInv'
  BY DEF IndInv, TypeOK, TicketsFitState, ClosedIsBelowThreshold, Drop, Ignore, Holds, Result

LEMMA FinishKeeps ==
  ASSUME IndInv, NEW c \in Caller, Finish(c)
  PROVE  IndInv'
<1>1. Drop(c)
  BY DEF Finish
<1>2. failures \in 0 .. Threshold
  BY DEF IndInv, TypeOK
<1>3. CASE RecordCancelled(c)
  BY <1>1, <1>2, <1>3, OpenKeeps, IgnoreKeeps DEF RecordCancelled
<1>4. CASE RecordRetryAfter(c)
  BY <1>1, <1>2, <1>4, OpenKeeps DEF RecordRetryAfter
<1>5. CASE RecordStale(c)
  BY <1>1, <1>5, IgnoreKeeps DEF RecordStale, Stale
<1>6. CASE RecordProbe(c)
  <2>1. CASE result[c] = "success"
    BY <1>1, <1>6, <2>1, CircuitAssumption
    DEF RecordProbe, IndInv, TypeOK, TicketsFitState, ClosedIsBelowThreshold, Drop, Holds, Result
  <2>2. CASE result[c] # "success"
    BY <1>1, <1>2, <1>6, <2>2, OpenKeeps DEF RecordProbe
  <2>3. QED BY <2>1, <2>2
<1>7. CASE RecordClosed(c)
  <2>1. ~ probe[c]
    BY <1>7 DEF RecordClosed
  <2>2. CASE state = "closed" /\ result[c] = "success"
    BY <1>1, <1>7, <2>1, <2>2, CircuitAssumption
    DEF RecordClosed, IndInv, TypeOK, TicketsFitState, ClosedIsBelowThreshold, Drop, Holds, Result
  <2>3. CASE /\ state = "closed"
             /\ result[c] \in {"service_error", "transport_timeout"}
    <3>1. failures' = failures + 1 /\ failures < Threshold
      BY <1>7, <2>3 DEF RecordClosed, IndInv, ClosedIsBelowThreshold
    <3>2. failures' \in 0 .. Threshold
      BY <1>2, <3>1, CircuitAssumption
    <3>3. CASE FailsNow
      BY <1>1, <1>7, <2>3, <3>2, <3>3, OpenKeeps DEF RecordClosed
    <3>4. CASE ~ FailsNow
      <4>1. fresh' = fresh \ {c} /\ UNCHANGED <<state, cooled>>
        BY <1>7, <2>3, <3>4 DEF RecordClosed
      <4>2. failures' < Threshold
        BY <1>2, <3>1, <3>4, CircuitAssumption DEF FailsNow
      <4>3. QED
        BY <1>1, <2>1, <2>3, <3>2, <4>1, <4>2
        DEF IndInv, TypeOK, TicketsFitState, ClosedIsBelowThreshold, Drop, Holds, Result
    <3>5. QED BY <3>3, <3>4
  <2>4. CASE ~ (/\ state = "closed"
                /\ result[c] \in {"success", "service_error", "transport_timeout"})
    BY <1>1, <1>7, <2>1, <2>4, IgnoreKeeps DEF RecordClosed
  <2>5. QED BY <2>2, <2>3, <2>4
<1>8. QED BY <1>3, <1>4, <1>5, <1>6, <1>7 DEF Finish

LEMMA TakeKeeps ==
  ASSUME IndInv, NEW c \in Caller, Admit(c) \/ WaitClosed(c) \/ WaitProbe(c)
  PROVE  IndInv'
<1>1. CASE Admit(c)
  BY <1>1 DEF Admit, Take, IndInv, TypeOK, TicketsFitState, ClosedIsBelowThreshold, Holds
<1>2. CASE WaitClosed(c)
  BY <1>2 DEF WaitClosed, Take, IndInv, TypeOK, TicketsFitState, ClosedIsBelowThreshold, Holds
<1>3. CASE WaitProbe(c)
  <2>1. fresh' = {c} /\ state' = "half_open" /\ pc'[c] = "attempt" /\ probe'[c] = TRUE
    BY <1>3 DEF WaitProbe, Take, IndInv, TypeOK, TicketsFitState
  <2>2. TicketsFitState'
    BY <2>1 DEF TicketsFitState, Holds
  <2>3. TypeOK' /\ ClosedIsBelowThreshold'
    BY <1>3, <2>1 DEF WaitProbe, Take, IndInv, TypeOK, ClosedIsBelowThreshold
  <2>4. QED BY <2>2, <2>3 DEF IndInv
<1>4. QED BY <1>1, <1>2, <1>3

LEMMA RespondKeeps ==
  ASSUME IndInv, NEW c \in Caller, NEW r \in Result, Respond(c, r)
  PROVE  IndInv'
<1>1. CASE NoEffect(c, r)
  <2>1. Drop(c) /\ Ignore(c) /\ ~ (c \in fresh /\ probe[c])
    BY <1>1 DEF Respond, NoEffect, Ignore
  <2>2. QED BY <2>1, IgnoreKeeps
<1>2. CASE ~ NoEffect(c, r)
  BY <1>2 DEF Respond, IndInv, TypeOK, TicketsFitState, ClosedIsBelowThreshold, Holds
<1>3. QED BY <1>1, <1>2

(* IndInv is inductive.                                                    *)
THEOREM CircuitInvariant == Spec => []IndInv
<1>1. Init => IndInv
  <2>. SUFFICES ASSUME Init PROVE IndInv
    OBVIOUS
  <2>1. failures \in 0 .. Threshold /\ failures < Threshold
    BY CircuitAssumption DEF Init
  <2>2. TypeOK
    BY <2>1 DEF Init, TypeOK, Result
  <2>3. TicketsFitState /\ ClosedIsBelowThreshold
    BY <2>1 DEF Init, TicketsFitState, ClosedIsBelowThreshold
  <2>4. QED BY <2>2, <2>3 DEF IndInv
<1>2. IndInv /\ [Next]_vars => IndInv'
  <2>. SUFFICES ASSUME IndInv, [Next]_vars PROVE IndInv'
    OBVIOUS
  <2>1. CASE UNCHANGED vars
    BY <2>1 DEF vars, IndInv, TypeOK, TicketsFitState, ClosedIsBelowThreshold, Holds
  <2>2. ASSUME NEW c \in Caller, Admit(c) \/ WaitClosed(c) \/ WaitProbe(c)
        PROVE  IndInv'
    BY <2>2, TakeKeeps
  <2>3. ASSUME NEW c \in Caller, GiveUp(c)
        PROVE  IndInv'
    BY <2>3 DEF GiveUp, IndInv, TypeOK, TicketsFitState, ClosedIsBelowThreshold, Holds
  <2>4. ASSUME NEW c \in Caller, NEW r \in Result, Respond(c, r)
        PROVE  IndInv'
    BY <2>4, RespondKeeps
  <2>5. ASSUME NEW c \in Caller, Finish(c)
        PROVE  IndInv'
    BY <2>5, FinishKeeps
  <2>6. CASE CooldownPasses
    BY <2>6 DEF CooldownPasses, IndInv, TypeOK, TicketsFitState, ClosedIsBelowThreshold, Holds
  <2>7. QED BY <2>1, <2>2, <2>3, <2>4, <2>5, <2>6 DEF Next
<1>3. QED BY <1>1, <1>2, PTL DEF Spec

(* The state has its type, and the counter of consecutive failures never   *)
(* passes the threshold.                                                   *)
THEOREM CircuitTypes == Spec => []TypeOK
<1>1. IndInv => TypeOK
  BY DEF IndInv
<1>2. QED BY <1>1, CircuitInvariant, PTL

(* A half-open circuit always has the attempt that will decide it.         *)
THEOREM GateNotStranded == Spec => []HalfOpenHasProbe
<1>1. IndInv => HalfOpenHasProbe
  BY DEF IndInv, TicketsFitState, HalfOpenHasProbe
<1>2. QED BY <1>1, CircuitInvariant, PTL

(* At most one unsent attempt is permitted while the model is unavailable. *)
THEOREM SingleProbe == Spec => []OneAttemptWhileBroken
<1>1. IndInv => OneAttemptWhileBroken
  BY DEF IndInv, TypeOK, TicketsFitState, OneAttemptWhileBroken, Allows
<1>2. QED BY <1>1, CircuitInvariant, PTL

(* A closed circuit has counted fewer failures than its threshold.         *)
THEOREM FailuresBounded == Spec => []ClosedIsBelowThreshold
<1>1. IndInv => ClosedIsBelowThreshold
  BY DEF IndInv
<1>2. QED BY <1>1, CircuitInvariant, PTL

(* Only a success of the current probe closes the circuit.                 *)
THEOREM ClosedByProbe == Spec => OnlyProbeCloses
<1>1. IndInv /\ [Next]_vars =>
        [state # "closed" /\ state' = "closed" =>
           \E c \in fresh : probe[c] /\ pc[c] = "finishing" /\ result[c] = "success"]_vars
  <2>. SUFFICES ASSUME IndInv, Next, state # "closed", state' = "closed"
                PROVE  \E c \in fresh :
                         probe[c] /\ pc[c] = "finishing" /\ result[c] = "success"
    OBVIOUS
  <2>1. PICK c \in Caller : Finish(c)
    BY DEF Next, Admit, WaitClosed, WaitProbe, GiveUp, Respond, CooldownPasses
  <2>2. RecordProbe(c) /\ result[c] = "success"
    BY <2>1 DEF Finish, RecordCancelled, RecordRetryAfter, RecordStale, RecordProbe,
                RecordClosed, Ignore, Open
  <2>3. QED BY <2>1, <2>2 DEF Finish, RecordProbe, Stale
<1>2. QED BY <1>1, CircuitInvariant, PTL DEF Spec, OnlyProbeCloses

-----------------------------------------------------------------------------
-----------------------------------------------------------------------------
(* The circuit.                                                            *)

(* What happens to the circuit when it is not left alone.                  *)
CircuitAction(r) ==
  \/ Api!Circuit!Admit(r) \/ Api!Circuit!WaitClosed(r) \/ Api!Circuit!WaitProbe(r) \/ Api!Circuit!GiveUp(r)
  \/ \E outcome \in Api!Circuit!Result : Api!Circuit!Respond(r, outcome)
  \/ Api!Circuit!Finish(r)

(* Every step of a request is one of the circuit, or leaves it alone.      *)
LEMMA StepOfCircuit ==
  ASSUME NEW r \in Request, Api!Step(r)
  PROVE  CircuitAction(r) \/ UNCHANGED Api!circuit
  <1>1. CASE Api!Gate(r) \/ Api!Record(r)
    BY <1>1 DEF Api!Gate, Api!Record, CircuitAction
  <1>2. CASE Api!WaitForProvider(r) \/ Api!Permit(r) \/ Api!Queue(r) \/ Api!TakeSlot(r) \/ Api!Send(r)
    BY <1>2 DEF Api!WaitForProvider, Api!Permit, Api!Queue, Api!TakeSlot, Api!Send
  <1>3. CASE Api!Settle(r) \/ Api!GiveUp(r) \/ Api!StopProvider(r)
    BY <1>3 DEF Api!Settle, Api!GiveUp, Api!StopProvider
  <1>4. CASE Api!Expire(r)
    BY <1>4 DEF Api!Expire, Api!Leave, CircuitAction, Api!Circuit!Result
  <1>5. CASE Api!Receive(r)
    <2>1. PICK a \in Api!Answers : Api!Leave(r, Api!Outcome[a])
      BY <1>5 DEF Api!Receive
    <2>2. Api!Outcome[a] \in Api!Circuit!Result
      BY DEF Api!Answers, Api!Outcome, Api!Circuit!Result
    <2> QED
      BY <2>1, <2>2 DEF Api!Leave, CircuitAction
  <1>6. CASE Api!Abort(r)
    BY <1>6 DEF Api!Abort, Api!Leave, CircuitAction, Api!Circuit!Result, Api!circuit
  <1> QED
    BY <1>1, <1>2, <1>3, <1>4, <1>5, <1>6 DEF Api!Step

(* Every step of the client is one of the circuit, or leaves it alone.     *)
LEMMA NextOfCircuit ==
  ASSUME [Api!Next]_(Api!vars)
  PROVE  \/ \E r \in Request : CircuitAction(r)
         \/ Api!Circuit!CooldownPasses
         \/ UNCHANGED Api!circuit
  BY StepOfCircuit DEF Api!Next, Api!CircuitCools, Api!CooldownEnds, Api!Finished, Api!vars

(* The API client uses the circuit as ServiceCircuit describes, with its   *)
(* requests as callers: what is proved there of the gate, the probe and    *)
(* the failure counter holds of the client.                                *)
THEOREM ClientImplementsCircuit == Api!Spec => Api!Circuit!Spec
  <1>1. Api!Init => Api!Circuit!Init
    BY DEF Api!Init
  <1>2. [Api!Next]_(Api!vars) => [Api!Circuit!Next]_(Api!Circuit!vars)
    BY NextOfCircuit DEF Api!Circuit!Next, Api!Circuit!vars, Api!circuit, CircuitAction
  <1> QED
    BY <1>1, <1>2, PTL DEF Api!Spec, Api!Circuit!Spec

-----------------------------------------------------------------------------
(* Slots and tickets.                                                      *)

Phases == Api!Ended \cup Api!Unsent \cup {"gate", "sent", "received", "rest", "exhausted", "stopping"}

Types ==
  /\ phase \in [Request -> Phases]
  /\ rPc \in [Request -> {"idle", "waiting", "attempt", "finishing"}]
  /\ rProbe \in [Request -> BOOLEAN]
  /\ rState \in {"closed", "open", "half_open"}

(* A ticket of the newest generation permits an attempt.                   *)
FreshMayGo ==
  /\ rState = "open" => rFresh = {}
  /\ rState = "half_open" => \A r \in rFresh : rProbe[r]

(* From its ticket to its answer a request is one attempt of the circuit.  *)
AttemptHeld == \A r \in Request : phase[r] \in Api!Unsent \cup {"sent"} => rPc[r] = "attempt"

(* Slots are held by those who took one and have not left it, no more than *)
(* there are.                                                              *)
SlotsHeld == slots = {r \in Request : phase[r] \in {"slot", "sent"}}
SlotsBounded == IsFiniteSet(slots) /\ Cardinality(slots) <= Slots

(* A ticket that was revoked stays so.                                     *)
LateIsRevoked == \A r \in late : phase[r] # "sent" /\ (phase[r] = "slot" => r \notin rFresh)

ClientInv ==
  /\ Types /\ FreshMayGo /\ AttemptHeld /\ SlotsHeld /\ SlotsBounded /\ LateIsRevoked
  /\ late \subseteq Request

(* The invariant holds at first.                                           *)
LEMMA ClientStarts == ASSUME Api!RequestsAssumption, Api!Init PROVE ClientInv
  <1>1. SlotsBounded
    BY FS_EmptySet DEF Api!Init, SlotsBounded, Api!RequestsAssumption
  <1>2. Types /\ FreshMayGo /\ AttemptHeld /\ SlotsHeld
    BY DEF Api!Init, Api!Circuit!Init, Types, Phases, FreshMayGo, AttemptHeld, SlotsHeld,
           Api!Unsent, Api!Ended
  <1> QED
    BY <1>1, <1>2 DEF ClientInv, Api!Init, LateIsRevoked

(* What an action of the circuit does to tickets: those of others are kept *)
(* or revoked, and a ticket is given only to a request without one.        *)
LEMMA CircuitFacts ==
  ASSUME Types, FreshMayGo, NEW r \in Request, CircuitAction(r)
  PROVE  /\ FreshMayGo'
         /\ rPc' \in [Request -> {"idle", "waiting", "attempt", "finishing"}]
         /\ rProbe' \in [Request -> BOOLEAN]
         /\ rState' \in {"closed", "open", "half_open"}
         /\ \A s \in Request \ {r} : rPc'[s] = rPc[s]
         /\ rFresh' \subseteq rFresh \cup {r}
         /\ rPc[r] \in {"attempt", "finishing"} => rFresh' \subseteq rFresh
  <1> USE DEF Types, FreshMayGo
  <1>1. CASE Api!Circuit!Admit(r) \/ Api!Circuit!WaitClosed(r)
    BY <1>1 DEF Api!Circuit!Admit, Api!Circuit!WaitClosed, Api!Circuit!Take
  <1>2. CASE Api!Circuit!WaitProbe(r) \/ Api!Circuit!GiveUp(r)
    BY <1>2 DEF Api!Circuit!WaitProbe, Api!Circuit!GiveUp, Api!Circuit!Take
  <1>3. ASSUME NEW outcome \in Api!Circuit!Result, Api!Circuit!Respond(r, outcome)
        PROVE  /\ FreshMayGo'
               /\ rPc' \in [Request -> {"idle", "waiting", "attempt", "finishing"}]
               /\ rProbe' \in [Request -> BOOLEAN]
               /\ rState' \in {"closed", "open", "half_open"}
               /\ \A s \in Request \ {r} : rPc'[s] = rPc[s]
               /\ rFresh' \subseteq rFresh
    <2>1. CASE Api!Circuit!Drop(r) /\ rFresh' = rFresh \ {r} /\ rState' = rState
      BY <2>1 DEF Api!Circuit!Drop
    <2>2. CASE rPc' = [rPc EXCEPT ![r] = "finishing"] /\ UNCHANGED <<rFresh, rProbe, rState>>
      BY <2>2
    <2> QED
      BY <1>3, <2>1, <2>2 DEF Api!Circuit!Respond
  <1>4. CASE Api!Circuit!Finish(r)
    <2>1. \/ rState' = "open" /\ rFresh' = {}
          \/ rState' = "closed" /\ rFresh' = {}
          \/ rState' = rState /\ rFresh' = rFresh \ {r}
      BY <1>4 DEF Api!Circuit!Finish, Api!Circuit!RecordCancelled, Api!Circuit!RecordRetryAfter,
                  Api!Circuit!RecordStale, Api!Circuit!RecordProbe, Api!Circuit!RecordClosed,
                  Api!Circuit!Open, Api!Circuit!Ignore
    <2>2. Api!Circuit!Drop(r)
      BY <1>4 DEF Api!Circuit!Finish
    <2> QED
      BY <2>1, <2>2 DEF Api!Circuit!Drop
  <1> QED
    BY <1>1, <1>2, <1>3, <1>4 DEF CircuitAction

(* Removing a request from the slots keeps their bound.                    *)
LEMMA SlotLeft ==
  ASSUME Api!RequestsAssumption, SlotsBounded, NEW r, slots' = slots \ {r} \/ slots' = slots
  PROVE  SlotsBounded'
  <1>1. slots' \in SUBSET slots
    OBVIOUS
  <1>2. IsFiniteSet(slots') /\ Cardinality(slots') <= Cardinality(slots)
    BY <1>1, FS_Subset DEF SlotsBounded
  <1>3. Cardinality(slots') \in Nat /\ Cardinality(slots) \in Nat
    BY <1>2, FS_CardinalityType DEF SlotsBounded
  <1> QED
    BY <1>2, <1>3 DEF SlotsBounded, Api!RequestsAssumption

(* A slot is taken only if one is free.                                    *)
LEMMA SlotTaken ==
  ASSUME Api!RequestsAssumption, SlotsBounded, NEW r, Cardinality(slots) < Slots, slots' = slots \cup {r}
  PROVE  SlotsBounded'
  <1>1. /\ IsFiniteSet(slots')
        /\ Cardinality(slots') = IF r \in slots THEN Cardinality(slots) ELSE Cardinality(slots) + 1
    BY FS_AddElement DEF SlotsBounded
  <1>2. Cardinality(slots) \in Nat
    BY FS_CardinalityType DEF SlotsBounded
  <1> QED
    BY <1>1, <1>2 DEF SlotsBounded, Api!RequestsAssumption

(* A step of a request keeps the invariant.                                *)
LEMMA RequestStep ==
  ASSUME Api!RequestsAssumption, ClientInv, NEW r \in Request, Api!Step(r)
  PROVE  ClientInv'
  <1> USE DEF ClientInv
  <1>1. /\ FreshMayGo'
        /\ rPc' \in [Request -> {"idle", "waiting", "attempt", "finishing"}]
        /\ rProbe' \in [Request -> BOOLEAN]
        /\ rState' \in {"closed", "open", "half_open"}
        /\ \A s \in Request \ {r} : rPc'[s] = rPc[s]
        /\ rFresh' \subseteq rFresh \cup {r}
        /\ rPc[r] \in {"attempt", "finishing"} => rFresh' \subseteq rFresh
    BY StepOfCircuit, CircuitFacts DEF Types, FreshMayGo, Api!circuit
  <1>2. /\ phase' \in [Request -> Phases]
        /\ \A s \in Request \ {r} : phase'[s] = phase[s]
    <2>1. (\E w \in Phases : Api!Go(r, w)) \/ phase' = phase
          \/ \E w \in Phases : phase' = [phase EXCEPT ![r] = w]
      BY DEF Api!Step, Api!Gate, Api!WaitForProvider, Api!Permit, Api!Queue, Api!TakeSlot,
             Api!Send, Api!Expire, Api!Receive, Api!Record,
             Api!Settle, Api!GiveUp, Api!StopProvider, Api!Abort, Api!Go, Phases, Api!Ended,
             Api!Unsent, Api!Answers
    <2> QED
      BY <2>1 DEF Api!Go, Types
  <1>3. Types'
    BY <1>1, <1>2 DEF Types
  <1>4. AttemptHeld'
    <2>1. phase'[r] \in Api!Unsent \cup {"sent"} => rPc'[r] = "attempt"
      <3> USE DEF Types, Phases, Api!Go, Api!Unsent, Api!Ended
      <3>1. CASE Api!Gate(r)
        BY <3>1 DEF Api!Gate
      <3>2. CASE Api!WaitForProvider(r) \/ Api!Permit(r) \/ Api!Queue(r) \/ Api!TakeSlot(r) \/ Api!Send(r)
        BY <3>2 DEF Api!WaitForProvider, Api!Permit, Api!Queue, Api!TakeSlot, Api!Send,
               AttemptHeld, Api!circuit
      <3>3. CASE \/ Api!Expire(r) \/ Api!Receive(r) \/ Api!Settle(r) \/ Api!GiveUp(r)
                 \/ Api!StopProvider(r) \/ Api!Abort(r)
        BY <3>3 DEF Api!Expire, Api!Receive, Api!Settle, Api!GiveUp, Api!StopProvider, Api!Abort
      <3>4. CASE Api!Record(r)
        BY <3>4 DEF Api!Record, Api!Circuit!Finish, AttemptHeld
      <3> QED
        BY <3>1, <3>2, <3>3, <3>4 DEF Api!Step
    <2> QED
      BY <1>1, <1>2, <2>1 DEF AttemptHeld
  <1>5. SlotsHeld' /\ SlotsBounded'
    <2>1. CASE Api!TakeSlot(r)
      <3>1. slots' = slots \cup {r} /\ phase'[r] = "slot"
        BY <2>1 DEF Api!TakeSlot, Api!Go, Types
      <3>2. Cardinality(slots) < Slots
        BY <2>1 DEF Api!TakeSlot, Api!Cardinality, Cardinality
      <3>3. SlotsBounded'
        BY <3>1, <3>2, SlotTaken
      <3> QED
        BY <1>2, <3>1, <3>3 DEF SlotsHeld
    <2>2. CASE ~ Api!TakeSlot(r)
      <3>1. \/ slots' = slots \ {r} /\ phase'[r] \notin {"slot", "sent"}
            \/ slots' = slots /\ (phase'[r] \in {"slot", "sent"} <=> phase[r] \in {"slot", "sent"})
        <4> USE DEF Types, Phases, Api!Go, Api!Unsent, Api!Ended
        <4>1. CASE \/ Api!Gate(r) \/ Api!WaitForProvider(r) \/ Api!Permit(r) \/ Api!Queue(r)
                   \/ Api!Send(r) \/ Api!Record(r)
          BY <4>1 DEF Api!Gate, Api!WaitForProvider, Api!Permit, Api!Queue, Api!Send, Api!Record
        <4>2. CASE Api!Settle(r) \/ Api!GiveUp(r) \/ Api!StopProvider(r)
          BY <4>2 DEF Api!Settle, Api!GiveUp, Api!StopProvider
        <4>3. CASE Api!Expire(r) \/ Api!Receive(r)
          BY <4>3 DEF Api!Expire, Api!Receive, Api!Leave
        <4>4. CASE Api!Abort(r)
          BY <4>4 DEF Api!Abort, Api!Leave, AttemptHeld, Api!Circuit!GiveUp
        <4> QED
          BY <2>2, <4>1, <4>2, <4>3, <4>4 DEF Api!Step
      <3>2. SlotsBounded'
        BY <3>1, SlotLeft
      <3> QED
        BY <1>2, <3>1, <3>2 DEF SlotsHeld
    <2> QED
      BY <2>1, <2>2
  <1>6. LateIsRevoked' /\ late' \subseteq Request
    <2>1. CASE Api!TakeSlot(r)
      <3>1. phase'[r] = "slot" /\ UNCHANGED <<rFresh, rState, rProbe>>
        BY <2>1 DEF Api!TakeSlot, Api!Go, Types, Api!circuit
      <3>2. late' = IF Api!Circuit!Allows(r) THEN late \ {r} ELSE late \cup {r}
        BY <2>1 DEF Api!TakeSlot
      <3>3. ~ Api!Circuit!Allows(r) => r \notin rFresh
        BY DEF Api!Circuit!Allows, Types, FreshMayGo
      <3> QED
        BY <1>2, <3>1, <3>2, <3>3 DEF LateIsRevoked
    <2>2. CASE ~ Api!TakeSlot(r)
      <3>1. UNCHANGED late
        BY <2>2 DEF Api!Step, Api!Gate, Api!WaitForProvider, Api!Permit, Api!Queue, Api!Send,
               Api!Expire, Api!Receive, Api!Record,
                    Api!Settle, Api!GiveUp, Api!StopProvider, Api!Abort
      <3>2. ASSUME r \in late PROVE phase'[r] # "sent" /\ (phase'[r] = "slot" => r \notin rFresh')
        <4> USE DEF Types, Phases, Api!Go, Api!Unsent, Api!Ended
        <4>1. CASE Api!Send(r)
          BY <3>2, <4>1 DEF Api!Send, Api!LastCheck, Api!Admissible, Api!Circuit!Allows,
                 LateIsRevoked
        <4>2. CASE Api!Record(r)
          BY <3>2, <4>2 DEF Api!Record, Api!Circuit!Finish, AttemptHeld, LateIsRevoked
        <4>3. CASE Api!Gate(r) \/ Api!WaitForProvider(r) \/ Api!Permit(r) \/ Api!Queue(r)
          BY <4>3 DEF Api!Gate, Api!WaitForProvider, Api!Permit, Api!Queue
        <4>4. CASE \/ Api!Expire(r) \/ Api!Receive(r) \/ Api!Settle(r) \/ Api!GiveUp(r)
                     \/ Api!StopProvider(r) \/ Api!Abort(r)
          BY <4>4 DEF Api!Expire, Api!Receive, Api!Settle, Api!GiveUp, Api!StopProvider, Api!Abort
        <4> QED
          BY <2>2, <4>1, <4>2, <4>3, <4>4 DEF Api!Step
      <3> QED
        BY <1>1, <1>2, <3>1, <3>2 DEF LateIsRevoked
    <2> QED
      BY <2>1, <2>2
  <1> QED
    BY <1>1, <1>3, <1>4, <1>5, <1>6

(* Every step keeps the invariant.                                         *)
LEMMA ClientStep == ASSUME Api!RequestsAssumption, ClientInv, [Api!Next]_(Api!vars) PROVE ClientInv'
  <1> USE DEF ClientInv, Types, FreshMayGo, AttemptHeld, SlotsHeld, SlotsBounded, LateIsRevoked,
         Api!circuit
  <1>1. CASE \E r \in Request : Api!Step(r)
    BY <1>1, RequestStep
  <1>2. CASE Api!CircuitCools
    BY <1>2 DEF Api!CircuitCools, Api!Circuit!CooldownPasses
  <1>3. CASE Api!CooldownEnds
    BY <1>3 DEF Api!CooldownEnds
  <1>4. CASE UNCHANGED Api!vars
    BY <1>4 DEF Api!vars
  <1> QED
    BY <1>1, <1>2, <1>3, <1>4 DEF Api!Next, Api!Finished

(* Who holds a ticket, a slot or a revoked ticket, in each phase of a      *)
(* request.                                                                *)
THEOREM RequestsInvariant == ASSUME Api!RequestsAssumption PROVE Api!Spec => []ClientInv
  <1>1. Api!Init => ClientInv
    BY ClientStarts
  <1>2. ClientInv /\ [Api!Next]_(Api!vars) => ClientInv'
    BY ClientStep
  <1> QED
    BY <1>1, <1>2, PTL DEF Api!Spec

(* "Recheck before consuming HTTP slots": however a ticket is revoked,     *)
(* between any two waits of its request, the request is not sent.          *)
THEOREM RevokedNotSent == ASSUME Api!RequestsAssumption PROVE Api!Spec => []RevokedIsNotSent
  <1>1. ClientInv => RevokedIsNotSent
    BY DEF ClientInv, LateIsRevoked, RevokedIsNotSent, Api!RevokedIsNotSent
  <1> QED
    BY <1>1, RequestsInvariant, PTL

(* The slots in use are those of requests that are about to be sent or     *)
(* under way, and no more than there are: an expired ticket, an abort or a *)
(* failed attempt leaks none.                                              *)
THEOREM SlotsExact == ASSUME Api!RequestsAssumption PROVE Api!Spec => [](SlotsHeld /\ SlotsBounded)
  <1>1. ClientInv => SlotsHeld /\ SlotsBounded
    BY DEF ClientInv
  <1> QED
    BY <1>1, RequestsInvariant, PTL

-----------------------------------------------------------------------------
(* Stopping the provider.                                                  *)

Bad(r) == throttled[r] + transient[r] + media[r]

StopTypes ==
  /\ phase \in [Request -> Phases] /\ answer \in [Request -> Api!Answers \cup {"none"}]
  /\ tries \in [Request -> Nat] /\ throttled \in [Request -> Nat]
  /\ transient \in [Request -> Nat] /\ media \in [Request -> Nat] /\ streak \in Nat

(* The attempts that leave the provider alone are some of those answered.  *)
CountsAdd == \A r \in Request : Bad(r) <= tries[r]

(* A request is given up for a rejection, or when its attempts are spent.  *)
SpentHasCause ==
  \A r \in Request : phase[r] = "exhausted" =>
    answer[r] # "ok" /\ (Api!Guilty(r) \/ tries[r] = MaxAttempts)

(* Nothing is asked after a fatal answer.                                  *)
FatalEnds == \A r \in Request : answer[r] = "fatal" => phase[r] \in {"received", "fatal"}

(* Requests that count against the provider, for good: while a request is  *)
(* under way it may be guilty now and succeed later.                       *)
Accused == {r \in Request : Api!Guilty(r)}
Blamed == {r \in Accused : phase[r] \in {"failed", "stopping", "fatal"}}

StreakIsBlamed == IsFiniteSet(Accused) /\ streak <= Cardinality(Blamed)

Due == Cardinality(Blamed) >= MaxFailures
StoppingIsDue == (\E r \in Request : phase[r] = "stopping") => Due
StopIsDue == rStop => (\E r \in Request : answer[r] = "fatal") \/ Due

StopInv ==
  /\ StopTypes /\ CountsAdd /\ SpentHasCause /\ FatalEnds
  /\ StreakIsBlamed /\ StoppingIsDue /\ StopIsDue

(* The invariant holds at first.                                           *)
LEMMA StopStarts == ASSUME Api!RequestsAssumption, Api!Init PROVE StopInv
  <1>1. StopTypes /\ CountsAdd /\ SpentHasCause /\ FatalEnds
    BY DEF Api!Init, StopTypes, Phases, CountsAdd, Bad, SpentHasCause, FatalEnds
  <1>2. Accused = {} /\ Blamed = {}
    BY DEF Api!Init, Accused, Blamed, Api!Guilty
  <1>3. StreakIsBlamed
    BY <1>2, FS_EmptySet DEF StreakIsBlamed, Api!Init
  <1>4. StoppingIsDue /\ StopIsDue
    BY DEF StoppingIsDue, StopIsDue, Api!Init
  <1> QED
    BY <1>1, <1>3, <1>4 DEF StopInv

(* A request that does not run keeps what it counted; the one that runs    *)
(* counts its answer once, at the end of an attempt.                       *)
Counted(r) == <<answer[r], tries[r], throttled[r], transient[r], media[r]>>

LEMMA StepCounts ==
  ASSUME StopInv, NEW r \in Request, Api!Step(r)
  PROVE  /\ \A s \in Request \ {r} : Counted(s)' = Counted(s) /\ phase'[s] = phase[s]
         /\ phase' \in [Request -> Phases] /\ answer' \in [Request -> Api!Answers \cup {"none"}]
         /\ tries' \in [Request -> Nat] /\ throttled' \in [Request -> Nat]
         /\ transient' \in [Request -> Nat] /\ media' \in [Request -> Nat]
  <1> USE DEF StopInv, StopTypes, Counted
  <1>1. CASE Api!Settle(r)
    BY <1>1 DEF Api!Settle, Api!Go, Api!CountIf, Phases, Api!Ended
  <1>2. CASE Api!Receive(r)
    BY <1>2 DEF Api!Receive, Api!Go, Phases, Api!counts
  <1>3. CASE ~ Api!Settle(r) /\ ~ Api!Receive(r)
    <2>1. UNCHANGED <<answer, Api!counts>>
      BY <1>3 DEF Api!Step, Api!Gate, Api!WaitForProvider, Api!Permit, Api!Queue, Api!TakeSlot,
             Api!Send, Api!Expire, Api!Record, Api!GiveUp, Api!StopProvider, Api!Abort
    <2>2. \/ \E w \in Phases : phase' = [phase EXCEPT ![r] = w]
          \/ phase' = phase
      BY <1>3 DEF Api!Step, Api!Gate, Api!WaitForProvider, Api!Permit, Api!Queue, Api!TakeSlot,
             Api!Send, Api!Expire, Api!Record, Api!GiveUp, Api!StopProvider, Api!Abort, Api!Go,
             Phases, Api!Ended, Api!Unsent
    <2> QED
      BY <2>1, <2>2 DEF Api!counts
  <1> QED
    BY <1>1, <1>2, <1>3

(* A request that has ended stays so, except that one that stops the       *)
(* provider goes on to do it.                                              *)
LEMMA EndedStays ==
  ASSUME StopInv, NEW r \in Request, Api!Step(r), phase[r] \in {"failed", "stopping", "fatal"}
  PROVE  /\ Counted(r)' = Counted(r)
         /\ phase'[r] = phase[r] \/ (phase[r] = "stopping" /\ phase'[r] = "fatal")
  BY DEF StopInv, StopTypes, Counted, Api!Step, Api!Gate, Api!WaitForProvider, Api!Permit,
         Api!Queue, Api!TakeSlot, Api!Send, Api!Expire, Api!Receive, Api!Record, Api!Settle,
         Api!GiveUp, Api!StopProvider, Api!Abort, Api!Go, Api!Unsent, Api!counts

(* Who is blamed remains so, and a step blames the request that runs at    *)
(* most.                                                                   *)
LEMMA BlameGrows ==
  ASSUME StopInv, NEW r \in Request, Api!Step(r)
  PROVE  /\ IsFiniteSet(Accused') /\ IsFiniteSet(Blamed) /\ IsFiniteSet(Blamed')
         /\ Blamed \subseteq Blamed' /\ Cardinality(Blamed) <= Cardinality(Blamed')
         /\ Cardinality(Blamed) \in Nat /\ Cardinality(Blamed') \in Nat
  <1>1. Accused' \in SUBSET (Accused \cup {r})
    BY StepCounts DEF Accused, Api!Guilty, Counted
  <1>2. IsFiniteSet(Accused \cup {r})
    BY FS_AddElement DEF StopInv, StreakIsBlamed
  <1>3. IsFiniteSet(Accused')
    BY <1>1, <1>2, FS_Subset
  <1>4. Blamed \in SUBSET Accused /\ Blamed' \in SUBSET (Accused')
    BY DEF Blamed
  <1>5. IsFiniteSet(Blamed) /\ IsFiniteSet(Blamed')
    BY <1>3, <1>4, FS_Subset DEF StopInv, StreakIsBlamed
  <1>6. ASSUME NEW s \in Blamed PROVE s \in Blamed'
    <2>1. s \in Request /\ Api!Guilty(s) /\ phase[s] \in {"failed", "stopping", "fatal"}
      BY <1>6 DEF Blamed, Accused
    <2>2. Counted(s)' = Counted(s) /\ phase'[s] \in {"failed", "stopping", "fatal"}
      BY <2>1, StepCounts, EndedStays
    <2> QED
      BY <2>1, <2>2 DEF Blamed, Accused, Api!Guilty, Counted
  <1>7. Blamed \in SUBSET (Blamed')
    BY <1>6
  <1> QED
    BY <1>3, <1>5, <1>7, FS_Subset, FS_CardinalityType

(* A failure that is not excused is the fault of its request.              *)
LEMMA UnexcusedIsGuilty ==
  ASSUME Api!RequestsAssumption, StopInv, NEW r \in Request, phase[r] = "exhausted",
         ~ Api!Excused(r)
  PROVE  Api!Guilty(r)
  <1>1. /\ tries[r] \in Nat /\ throttled[r] \in Nat /\ transient[r] \in Nat /\ media[r] \in Nat
        /\ MaxAttempts \in Nat
    BY DEF StopInv, StopTypes, Api!RequestsAssumption
  <1>2. throttled[r] + transient[r] + media[r] <= tries[r]
    BY DEF StopInv, CountsAdd, Bad
  <1>3. answer[r] # "ok" /\ (Api!Guilty(r) \/ tries[r] = MaxAttempts)
    BY DEF StopInv, SpentHasCause
  <1> QED
    BY <1>1, <1>2, <1>3 DEF Api!Excused, Api!Guilty

(* Its request was not blamed before.                                      *)
LEMMA GivenUpIsBlamed ==
  ASSUME Api!RequestsAssumption, StopInv, NEW r \in Request, Api!GiveUp(r), ~ Api!Excused(r)
  PROVE  Cardinality(Blamed') = Cardinality(Blamed) + 1
  <1>1. Api!Step(r)
    BY DEF Api!Step
  <1>2. phase[r] = "exhausted" /\ r \notin Blamed
    BY DEF Api!GiveUp, Blamed
  <1>3. Api!Guilty(r)
    BY <1>2, UnexcusedIsGuilty
  <1>4. UNCHANGED <<answer, Api!counts>>
        /\ \E w \in {"failed", "stopping"} : phase' = [phase EXCEPT ![r] = w]
    BY DEF Api!GiveUp, Api!Go
  <1>5. Blamed' = Blamed \cup {r}
    BY <1>3, <1>4 DEF Blamed, Accused, Api!Guilty, Api!counts, StopInv, StopTypes
  <1> QED
    BY <1>1, <1>2, <1>5, BlameGrows, FS_AddElement

(* The streak, and what follows from it.                                   *)
LEMMA StreakStep ==
  ASSUME Api!RequestsAssumption, StopInv, NEW r \in Request, Api!Step(r)
  PROVE  streak' \in Nat /\ StreakIsBlamed' /\ StoppingIsDue' /\ StopIsDue'
  <1> DEFINE Before == Cardinality(Blamed)
             Now == Cardinality(Blamed')
  <1>1. Before \in Nat /\ Now \in Nat /\ Before <= Now /\ IsFiniteSet(Accused')
    BY BlameGrows
  <1>2. streak \in Nat /\ streak <= Before /\ MaxFailures \in Nat
    BY DEF StopInv, StopTypes, StreakIsBlamed, Api!RequestsAssumption
  <1>3. Due => Due'
    BY <1>1, <1>2 DEF Due
  <1>4. \A s \in Request : answer[s] = "fatal" => answer'[s] = "fatal"
    <2>1. ASSUME answer[r] = "fatal" PROVE answer'[r] = "fatal"
      <3>1. phase[r] # "sent"
        BY <2>1 DEF StopInv, FatalEnds
      <3> QED
        BY <2>1, <3>1 DEF Api!Step, Api!Gate, Api!WaitForProvider, Api!Permit, Api!Queue,
             Api!TakeSlot, Api!Send, Api!Expire, Api!Receive, Api!Record, Api!Settle, Api!GiveUp,
             Api!StopProvider, Api!Abort
    <2> QED
      BY <2>1, StepCounts DEF Counted
  <1>5. CASE Api!GiveUp(r)
    <2>1. UNCHANGED <<answer, rStop>>
      BY <1>5 DEF Api!GiveUp
    <2>2. CASE Api!Excused(r)
      <3>1. UNCHANGED streak /\ Api!Go(r, "failed")
        BY <1>5, <2>2 DEF Api!GiveUp
      <3>2. \A s \in Request : phase'[s] = "stopping" => phase[s] = "stopping"
        BY <3>1 DEF Api!Go, StopInv, StopTypes
      <3> QED
        BY <1>1, <1>2, <1>3, <2>1, <3>1, <3>2
        DEF StreakIsBlamed, StoppingIsDue, StopIsDue, StopInv
    <2>3. CASE ~ Api!Excused(r)
      <3>1. Now = Before + 1
        BY <1>5, <2>3, GivenUpIsBlamed
      <3>2. /\ streak' = streak + 1
            /\ Api!Go(r, "failed") \/ (streak' >= MaxFailures /\ Api!Go(r, "stopping"))
        BY <1>5, <2>3 DEF Api!GiveUp
      <3>3. streak' \in Nat /\ streak' <= Now
        BY <1>1, <1>2, <3>1, <3>2
      <3>4. \A s \in Request : phase'[s] = "stopping" => phase[s] = "stopping" \/ Due'
        BY <1>1, <1>2, <3>2, <3>3 DEF Api!Go, StopInv, StopTypes, Due
      <3>5. StoppingIsDue'
        BY <1>3, <3>4 DEF StoppingIsDue, StopInv
      <3>6. StopIsDue'
        BY <1>3, <2>1 DEF StopIsDue, StopInv
      <3> QED
        BY <1>1, <3>3, <3>5, <3>6 DEF StreakIsBlamed
    <2> QED
      BY <2>2, <2>3
  <1>6. CASE ~ Api!GiveUp(r)
    <2>1. streak' \in {streak, 0}
      BY <1>6 DEF Api!Step, Api!Gate, Api!WaitForProvider, Api!Permit, Api!Queue, Api!TakeSlot,
             Api!Send, Api!Expire, Api!Receive, Api!Record, Api!Settle, Api!StopProvider,
             Api!Abort, Api!provider
    <2>2. \A s \in Request : phase'[s] = "stopping" => phase[s] = "stopping"
      <3>1. phase'[r] = "stopping" => phase[r] = "stopping"
        BY <1>6 DEF Api!Step, Api!Gate, Api!WaitForProvider, Api!Permit, Api!Queue,
             Api!TakeSlot, Api!Send, Api!Expire, Api!Receive, Api!Record, Api!Settle,
             Api!StopProvider, Api!Abort, Api!Go, StopInv, StopTypes
      <3> QED
        BY <3>1, StepCounts
    <2>3. rStop' => rStop \/ Due \/ \E s \in Request : answer[s] = "fatal"
      <3>1. CASE Api!Settle(r)
        BY <3>1 DEF Api!Settle
      <3>2. CASE Api!StopProvider(r)
        BY <3>2 DEF Api!StopProvider, StopInv, StoppingIsDue
      <3>3. CASE ~ Api!Settle(r) /\ ~ Api!StopProvider(r)
        BY <1>6, <3>3 DEF Api!Step, Api!Gate, Api!WaitForProvider, Api!Permit, Api!Queue,
             Api!TakeSlot, Api!Send, Api!Expire, Api!Receive, Api!Record, Api!Abort, Api!provider
      <3> QED
        BY <3>1, <3>2, <3>3
    <2>4. streak' \in Nat /\ StreakIsBlamed'
      BY <1>1, <1>2, <2>1 DEF StreakIsBlamed
    <2>5. StoppingIsDue'
      BY <1>3, <2>2 DEF StoppingIsDue, StopInv
    <2>6. StopIsDue'
      BY <1>3, <1>4, <2>3 DEF StopIsDue, StopInv
    <2> QED
      BY <2>4, <2>5, <2>6
  <1> QED
    BY <1>5, <1>6

(* What a request counts, and why it is given up.                          *)
LEMMA CountStep ==
  ASSUME Api!RequestsAssumption, StopInv, NEW r \in Request, Api!Step(r)
  PROVE  CountsAdd' /\ SpentHasCause' /\ FatalEnds'
  <1>1. \A s \in Request \ {r} : Counted(s)' = Counted(s) /\ phase'[s] = phase[s]
    BY StepCounts
  <1>2. ASSUME Bad(r)' <= tries'[r],
               phase'[r] = "exhausted" =>
                 answer'[r] # "ok" /\ (Api!Guilty(r)' \/ tries'[r] = MaxAttempts),
               answer'[r] = "fatal" => phase'[r] \in {"received", "fatal"}
        PROVE  CountsAdd' /\ SpentHasCause' /\ FatalEnds'
    <2>1. ASSUME NEW s \in Request, s # r
          PROVE  /\ answer'[s] = answer[s] /\ tries'[s] = tries[s] /\ phase'[s] = phase[s]
                 /\ Bad(s)' = Bad(s) /\ Api!Guilty(s)' = Api!Guilty(s)
      BY <1>1, <2>1 DEF Counted, Bad, Api!Guilty
    <2>2. CountsAdd'
      BY <1>2, <2>1 DEF CountsAdd, StopInv
    <2>3. SpentHasCause'
      BY <1>2, <2>1 DEF SpentHasCause, StopInv
    <2>4. FatalEnds'
      BY <1>2, <2>1 DEF FatalEnds, StopInv
    <2> QED
      BY <2>2, <2>3, <2>4
  <1>3. /\ Bad(r) <= tries[r]
        /\ phase[r] = "exhausted" => answer[r] # "ok" /\ (Api!Guilty(r) \/ tries[r] = MaxAttempts)
        /\ answer[r] = "fatal" => phase[r] \in {"received", "fatal"}
    BY DEF StopInv, CountsAdd, SpentHasCause, FatalEnds
  <1>4. CASE Api!Settle(r)
    <2>1. /\ tries[r] \in Nat /\ throttled[r] \in Nat /\ transient[r] \in Nat
          /\ media[r] \in Nat /\ answer' = answer
      BY <1>4 DEF Api!Settle, StopInv, StopTypes
    <2>2. /\ tries'[r] = tries[r] + 1
          /\ throttled'[r] = IF answer[r] \in {"throttle", "throttle_after"}
                             THEN throttled[r] + 1 ELSE throttled[r]
          /\ transient'[r] = IF answer[r] \in {"error", "error_after", "timeout"}
                             THEN transient[r] + 1 ELSE transient[r]
          /\ media'[r] = IF answer[r] = "media" THEN media[r] + 1 ELSE media[r]
      BY <1>4 DEF Api!Settle, Api!CountIf, StopInv, StopTypes
    <2>3. /\ answer[r] \in {"ok", "fatal"} => phase'[r] = answer[r]
          /\ answer[r] \notin {"ok", "fatal"} =>
               phase'[r] = IF answer[r] = "rejected" \/ tries'[r] = MaxAttempts
                           THEN "exhausted" ELSE "rest"
      BY <1>4 DEF Api!Settle, Api!Go, StopInv, StopTypes
    <2>4. Bad(r)' <= tries'[r] /\ (answer[r] = "rejected" => Bad(r)' < tries'[r])
      BY <1>3, <2>1, <2>2 DEF Bad
    <2>5. phase'[r] = "exhausted" =>
            answer'[r] # "ok" /\ (answer[r] = "rejected" \/ tries'[r] = MaxAttempts)
      BY <2>1, <2>3
    <2>6. answer[r] = "rejected" => Api!Guilty(r)'
      <3>1. tries'[r] \in Nat /\ Bad(r)' \in Nat
        BY <2>1, <2>2 DEF Bad
      <3> QED
        BY <2>1, <2>4, <3>1 DEF Api!Guilty, Bad
    <2>7. answer'[r] = "fatal" => phase'[r] = "fatal"
      BY <2>1, <2>3
    <2> QED
      BY <1>2, <2>4, <2>5, <2>6, <2>7
  <1>5. CASE Api!Receive(r)
    <2>1. UNCHANGED Api!counts /\ phase'[r] = "received"
      BY <1>5 DEF Api!Receive, Api!Go, StopInv, StopTypes
    <2> QED
      BY <1>2, <1>3, <2>1 DEF Bad, Api!counts
  <1>6. CASE ~ Api!Settle(r) /\ ~ Api!Receive(r)
    <2>1. UNCHANGED <<answer, Api!counts>>
      BY <1>6 DEF Api!Step, Api!Gate, Api!WaitForProvider, Api!Permit, Api!Queue, Api!TakeSlot,
             Api!Send, Api!Expire, Api!Record, Api!GiveUp, Api!StopProvider, Api!Abort
    <2>2. /\ phase'[r] = "exhausted" => phase[r] = "exhausted"
          /\ phase[r] \in {"received", "fatal"} => phase'[r] = phase[r]
      BY <1>6 DEF Api!Step, Api!Gate, Api!WaitForProvider, Api!Permit, Api!Queue, Api!TakeSlot,
             Api!Send, Api!Expire, Api!Record, Api!GiveUp, Api!StopProvider, Api!Abort, Api!Go,
             Api!Unsent, StopInv, StopTypes
    <2> QED
      BY <1>2, <1>3, <2>1, <2>2 DEF Bad, Api!counts, Api!Guilty
  <1> QED
    BY <1>4, <1>5, <1>6

(* Every step keeps the invariant.                                         *)
LEMMA StopStep == ASSUME Api!RequestsAssumption, StopInv, [Api!Next]_(Api!vars) PROVE StopInv'
  <1>1. ASSUME NEW r \in Request, Api!Step(r) PROVE StopInv'
    BY <1>1, StepCounts, StreakStep, CountStep DEF StopInv, StopTypes
  <1>2. CASE UNCHANGED <<phase, answer, Api!counts, streak, rStop>>
    BY <1>2 DEF Api!counts, StopInv, StopTypes, CountsAdd, Bad, SpentHasCause, FatalEnds,
           StreakIsBlamed, StoppingIsDue, StopIsDue, Due, Blamed, Accused, Api!Guilty
  <1> QED
    BY <1>1, <1>2
    DEF Api!Next, Api!CircuitCools, Api!CooldownEnds, Api!Finished, Api!vars, Api!provider

(* The streak counts requests that ended by their own fault.               *)
THEOREM StopInvariant == ASSUME Api!RequestsAssumption PROVE Api!Spec => []StopInv
  <1>1. Api!Init => StopInv
    BY StopStarts
  <1>2. StopInv /\ [Api!Next]_(Api!vars) => StopInv'
    BY StopStep
  <1> QED
    BY <1>1, <1>2, PTL DEF Api!Spec

(* "Transient throttling must not permanently stop independent models":    *)
(* for any number of requests, attempts and failures the provider is       *)
(* stopped for a fatal answer, or for as many requests as configured that  *)
(* met something else than an overloaded service or unfetchable media.     *)
THEOREM StopDeserved == ASSUME Api!RequestsAssumption PROVE Api!Spec => []StopIsDeserved
  <1>1. StopInv => StopIsDeserved
    <2> SUFFICES ASSUME StopInv, rStop, ~ \E r \in Request : answer[r] = "fatal"
                 PROVE  Cardinality(Accused) >= MaxFailures
      BY DEF StopIsDeserved, Api!StopIsDeserved, Accused, Api!Cardinality, Cardinality
    <2>1. Cardinality(Blamed) >= MaxFailures /\ IsFiniteSet(Accused)
      BY DEF StopInv, StopIsDue, Due, StreakIsBlamed
    <2>2. Blamed \in SUBSET Accused
      BY DEF Blamed
    <2>3. /\ Cardinality(Blamed) <= Cardinality(Accused)
          /\ Cardinality(Blamed) \in Nat /\ Cardinality(Accused) \in Nat
      BY <2>1, <2>2, FS_Subset, FS_CardinalityType
    <2> QED
      BY <2>1, <2>3 DEF Api!RequestsAssumption
  <1> QED
    BY <1>1, StopInvariant, PTL

-----------------------------------------------------------------------------
Verdicts == Episode \cup {"ok", "stopped"}

(* One refresh at a time in either cache, by the thread that set           *)
(* _pending_refresh.                                                       *)
OneLeader ==
  /\ snapshot \in [Check!Cache -> Verdicts \cup {"old"}] /\ found \in [Check!Cache -> Verdicts]
  /\ at \in [Check!Cache -> [Check!Thread -> Check!Places]]
  /\ leader \in [Check!Cache -> SUBSET Check!Thread]
  /\ \A k \in Check!Cache, c \in Check!Thread : c \in leader[k] <=> at[k][c] \in Check!Leading
  /\ \A k \in Check!Cache : \A c, d \in leader[k] : c = d

(* A thread asks at one door: it is inside the admission's cache on behalf *)
(* of the client's, or has nothing to do with that one.                    *)
OneDoor ==
  \A c \in Check!Thread :
    /\ at["client"][c] = "asking" => at["admission"][c] # "idle"
    /\ at["admission"][c] # "idle" => at["client"][c] \in {"idle", "asking"}
    /\ at["admission"][c] # "asking"
    /\ c = Refresher => at["client"][c] = "idle"

(* Once a stop is overdue on the way of a question it remains so.          *)
WarnedIsOverdue ==
  /\ warned \subseteq Asker /\ stop \in BOOLEAN
  /\ \A c \in warned : /\ Check!Overdue("admission")
                       /\ at["client"][c] # "idle" => Check!Overdue("client")

(* Who asked too late is not on a way that ends without a look.            *)
WarnedLooks ==
  \A c \in warned :
    /\ ~ Check!Idle(c)
    /\ \A k \in Check!Cache : at[k][c] \notin {"failing", "rejecting"}

CheckInv == OneLeader /\ OneDoor /\ WarnedIsOverdue /\ WarnedLooks

(* The invariant holds at first.                                           *)
LEMMA CheckStarts == ASSUME Check!AvailabilityAssumption, Check!Init PROVE CheckInv
  <1> USE DEF Check!Init, Check!Leading, Check!Places, Check!Cache
  <1>1. OneLeader
    BY DEF OneLeader, Verdicts
  <1>2. OneDoor
    BY DEF OneDoor
  <1>3. WarnedIsOverdue /\ WarnedLooks
    BY DEF WarnedIsOverdue, WarnedLooks
  <1> QED
    BY <1>1, <1>2, <1>3 DEF CheckInv

(* A thread moves on in a cache.                                           *)
LEMMA Moves ==
  ASSUME OneLeader, NEW k \in Check!Cache, NEW c \in Check!Thread, NEW where \in Check!Places,
         Check!Goto(k, c, where)
  PROVE  /\ at' \in [Check!Cache -> [Check!Thread -> Check!Places]] /\ at'[k][c] = where
         /\ \A j \in Check!Cache, d \in Check!Thread :
              ~ (j = k /\ d = c) => at'[j][d] = at[j][d]
  BY DEF OneLeader, Check!Goto

(* The leader of the client's cache goes on there when the admission's is  *)
(* done with it, and into the admission's before.                          *)
LEMMA Passes ==
  ASSUME OneLeader, NEW c \in Check!Thread,
         NEW outer \in Check!Places, NEW inner \in Check!Places,
         at' = [at EXCEPT !["client"][c] = outer, !["admission"][c] = inner]
  PROVE  /\ at' \in [Check!Cache -> [Check!Thread -> Check!Places]]
         /\ at'["client"][c] = outer /\ at'["admission"][c] = inner
         /\ \A j \in Check!Cache, d \in Check!Thread : d # c => at'[j][d] = at[j][d]
  BY DEF OneLeader, Check!Cache

(* A question is asked.                                                    *)
LEMMA AskKeeps ==
  ASSUME Check!AvailabilityAssumption, CheckInv, NEW k \in Check!Cache, NEW c \in Check!Thread,
         Check!Ask(k, c)
  PROVE  CheckInv'
  <1> USE DEF Check!Leading, Check!Places, Check!Cache
  <1>1. /\ at' \in [Check!Cache -> [Check!Thread -> Check!Places]] /\ at'[k][c] = "looking"
        /\ \A j \in Check!Cache, d \in Check!Thread : ~ (j = k /\ d = c) => at'[j][d] = at[j][d]
    BY Moves DEF Check!Ask, CheckInv
  <1>2. OneLeader' /\ OneDoor'
    BY <1>1 DEF Check!Ask, CheckInv, OneLeader, OneDoor, Check!Idle, Check!cache
  <1>3. \A j \in Check!Cache : Check!Overdue(j) => Check!Overdue(j)'
    BY <1>1 DEF Check!Ask, CheckInv, OneLeader, Check!Overdue, Check!NoneVouches, Check!cache, Check!world
  <1>4. WarnedIsOverdue' /\ WarnedLooks'
    <2>1. \A d \in warned' : d \in warned \/ (d = c /\ c \in Asker /\ Check!Overdue(k))
      BY DEF Check!Ask
    <2>2. c \notin warned
      BY DEF Check!Ask, CheckInv, WarnedLooks
    <2>3. Asker \subseteq Check!Thread
      BY DEF Check!Thread
    <2>4. Check!Overdue(k) => Check!Overdue("admission")
      BY DEF Check!Overdue
    <2> QED
      BY <1>1, <1>3, <2>1, <2>2, <2>3, <2>4
         DEF Check!Ask, CheckInv, WarnedIsOverdue, WarnedLooks, Check!Idle, Check!world
  <1> QED
    BY <1>2, <1>4 DEF CheckInv

(* A question is answered from a cache that holds a snapshot.              *)
LEMMA AnswerKeeps ==
  ASSUME Check!AvailabilityAssumption, CheckInv, NEW k \in Check!Cache, NEW c \in Check!Thread,
         at[k][c] \in {"looking", "locking"}, Check!Recent(k), Check!Answer(k, c),
         UNCHANGED <<snapshot, leader, Check!world>>
  PROVE  CheckInv'
  <1> USE DEF Check!Leading, Check!Places, Check!Cache
  <1>1. CASE k = "admission" /\ Check!AsksForClient(c)
    <2>1. at["client"][c] = "asking"
      BY <1>1 DEF Check!AsksForClient
    <2>2. /\ at' = [at EXCEPT !["client"][c] = "publishing", !["admission"][c] = "idle"]
          /\ found' = [found EXCEPT !["client"] = snapshot["admission"]] /\ warned' = warned
      BY <1>1 DEF Check!Answer
    <2>3. /\ at' \in [Check!Cache -> [Check!Thread -> Check!Places]]
          /\ at'["client"][c] = "publishing" /\ at'["admission"][c] = "idle"
          /\ \A j \in Check!Cache, d \in Check!Thread : d # c => at'[j][d] = at[j][d]
      BY <2>2, Passes DEF CheckInv
    <2>4. OneLeader' /\ OneDoor'
      <3>1. found' \in [Check!Cache -> Verdicts]
        BY <1>1, <2>2 DEF CheckInv, OneLeader, Check!Recent
      <3> QED
        BY <1>1, <2>1, <2>3, <3>1 DEF CheckInv, OneLeader, OneDoor
    <2>5. Check!NoneVouches("admission") => Check!NoneVouches("admission")'
      BY <1>1, <2>1, <2>2, <2>3 DEF CheckInv, OneLeader, Check!NoneVouches
    <2>6. Check!NoneVouches("admission") /\ Check!NoneVouches("client") => Check!NoneVouches("client")'
      <3>1. found'["client"] = snapshot["admission"]
        BY <2>2 DEF CheckInv, OneLeader
      <3>2. leader["client"] = {c}
        BY <2>1 DEF CheckInv, OneLeader
      <3>3. Check!NoneVouches("admission") => snapshot["admission"] # "ok"
        BY DEF Check!NoneVouches
      <3> QED
        BY <2>1, <3>1, <3>2, <3>3, <2>2 DEF Check!NoneVouches
    <2>7. WarnedIsOverdue'
      BY <2>1, <2>2, <2>3, <2>5, <2>6 DEF CheckInv, WarnedIsOverdue, Check!Overdue, Check!world, Check!Thread
    <2>8. WarnedLooks'
      BY <2>2, <2>3 DEF CheckInv, WarnedIsOverdue, WarnedLooks, Check!Idle, Check!Thread
    <2> QED
      BY <2>4, <2>7, <2>8 DEF CheckInv
  <1>2. CASE ~ (k = "admission" /\ Check!AsksForClient(c))
    <2>1. /\ Check!Goto(k, c, IF snapshot[k] \in Episode THEN "rejecting" ELSE "idle")
          /\ warned' = IF snapshot[k] = "ok" THEN warned ELSE warned \ {c}
          /\ found' = found
      BY <1>2 DEF Check!Answer
    <2> DEFINE where == IF snapshot[k] \in Episode THEN "rejecting" ELSE "idle"
    <2>2. /\ at' \in [Check!Cache -> [Check!Thread -> Check!Places]] /\ at'[k][c] = where
          /\ \A j \in Check!Cache, d \in Check!Thread : ~ (j = k /\ d = c) => at'[j][d] = at[j][d]
      <3>1. where \in Check!Places
        OBVIOUS
      <3> QED
        BY <2>1, <3>1, Moves DEF CheckInv
    <2>3. where \in {"idle", "rejecting"}
      OBVIOUS
    <2> HIDE DEF where
    <2>4. OneLeader'
      BY <2>1, <2>2, <2>3 DEF CheckInv, OneLeader
    <2>5. OneDoor'
      BY <1>2, <2>2, <2>3 DEF CheckInv, OneLeader, OneDoor, Check!AsksForClient
    <2>6. \A j \in Check!Cache : Check!NoneVouches(j) => Check!NoneVouches(j)'
      BY <2>1, <2>2, <2>3 DEF CheckInv, OneLeader, Check!NoneVouches
    <2>7. warned' \subseteq warned /\ c \notin warned'
      <3>1. c \in warned => Check!NoneVouches(k)
        BY DEF CheckInv, WarnedIsOverdue, Check!Overdue
      <3> QED
        BY <2>1, <3>1 DEF Check!NoneVouches
    <2>8. WarnedIsOverdue'
      BY <2>2, <2>6, <2>7 DEF CheckInv, WarnedIsOverdue, Check!Overdue, Check!world, Check!Thread
    <2>9. WarnedLooks'
      BY <2>2, <2>7 DEF CheckInv, WarnedIsOverdue, WarnedLooks, Check!Idle, Check!Thread
    <2> QED
      BY <2>4, <2>5, <2>8, <2>9 DEF CheckInv
  <1> QED
    BY <1>1, <1>2

(* A thread moves in one cache, from a place where it has no answer yet,   *)
(* and nothing else happens but that the leader may change.                *)
LEMMA MoveKeeps ==
  ASSUME Check!AvailabilityAssumption, CheckInv, NEW k \in Check!Cache, NEW c \in Check!Thread,
         NEW where \in Check!Places \ {"idle", "asking", "publishing", "rejecting"},
         at[k][c] \notin {"idle", "asking"}, Check!Goto(k, c, where),
         where = "failing" => c \notin warned',
         leader' \in {leader, [leader EXCEPT ![k] = {c}]},
         \A d \in Check!Thread : d \in leader'[k] <=> at'[k][d] \in Check!Leading,
         \A d, e \in leader'[k] : d = e,
         UNCHANGED <<snapshot, found, Check!world>>, warned' \subseteq warned
  PROVE  CheckInv'
  <1> USE DEF Check!Leading, Check!Places, Check!Cache
  <1>1. /\ at' \in [Check!Cache -> [Check!Thread -> Check!Places]] /\ at'[k][c] = where
        /\ \A j \in Check!Cache, d \in Check!Thread : ~ (j = k /\ d = c) => at'[j][d] = at[j][d]
    BY Moves DEF CheckInv
  <1>2. OneLeader'
    BY <1>1 DEF CheckInv, OneLeader
  <1>3. OneDoor'
    BY <1>1 DEF CheckInv, OneLeader, OneDoor
  <1>4. \A j \in Check!Cache : Check!NoneVouches(j) => Check!NoneVouches(j)'
    BY <1>1 DEF CheckInv, OneLeader, Check!NoneVouches
  <1>5. WarnedIsOverdue'
    BY <1>1, <1>4 DEF CheckInv, WarnedIsOverdue, Check!Overdue, Check!world, Check!Thread
  <1>6. WarnedLooks'
    BY <1>1 DEF CheckInv, WarnedIsOverdue, WarnedLooks, Check!Idle, Check!Thread
  <1> QED
    BY <1>2, <1>3, <1>5, <1>6 DEF CheckInv

(* A look, with or without the lock, and an interrupted check.             *)
LEMMA LookKeeps ==
  ASSUME Check!AvailabilityAssumption, CheckInv, NEW k \in Check!Cache, NEW c \in Check!Thread,
         Check!Look(k, c) \/ Check!Lock(k, c) \/ Check!Interrupt(k, c)
  PROVE  CheckInv'
  <1> USE DEF Check!Leading, Check!Places, Check!cache
  <1>1. CASE Check!Recent(k) /\ Check!Answer(k, c) /\ at[k][c] \in {"looking", "locking"}
             /\ UNCHANGED <<snapshot, leader, Check!world>>
    BY <1>1, AnswerKeeps
  <1>2. CASE Check!Look(k, c) /\ Check!Goto(k, c, "locking") /\ UNCHANGED <<found, warned>>
    <2>1. at'[k] = [at[k] EXCEPT ![c] = "locking"]
      BY <1>2 DEF Check!Goto, CheckInv, OneLeader
    <2>2. \A d \in Check!Thread : d \in leader'[k] <=> at'[k][d] \in Check!Leading
      BY <1>2, <2>1 DEF Check!Look, CheckInv, OneLeader
    <2>3. \A d, e \in leader'[k] : d = e
      BY <1>2 DEF Check!Look, CheckInv, OneLeader
    <2> QED
      BY <1>2, <2>2, <2>3, MoveKeeps DEF Check!Look
  <1>3. CASE /\ Check!Lock(k, c) /\ leader[k] = {} /\ leader' = [leader EXCEPT ![k] = {c}]
             /\ Check!Goto(k, c, "checking") /\ UNCHANGED <<found, warned>>
    <2>1. at'[k] = [at[k] EXCEPT ![c] = "checking"]
      BY <1>3 DEF Check!Goto, CheckInv, OneLeader
    <2>2. \A d \in Check!Thread : d \in leader'[k] <=> at'[k][d] \in Check!Leading
      BY <1>3, <2>1 DEF CheckInv, OneLeader
    <2>3. \A d, e \in leader'[k] : d = e
      BY <1>3 DEF CheckInv, OneLeader
    <2> QED
      BY <1>3, <2>2, <2>3, MoveKeeps DEF Check!Lock
  <1>4. CASE Check!Lock(k, c) /\ Check!Goto(k, c, "waiting") /\ UNCHANGED <<leader, found, warned>>
    <2>1. at'[k] = [at[k] EXCEPT ![c] = "waiting"]
      BY <1>4 DEF Check!Goto, CheckInv, OneLeader
    <2>2. \A d \in Check!Thread : d \in leader'[k] <=> at'[k][d] \in Check!Leading
      BY <1>4, <2>1 DEF Check!Lock, CheckInv, OneLeader
    <2>3. \A d, e \in leader'[k] : d = e
      BY <1>4 DEF CheckInv, OneLeader
    <2> QED
      BY <1>4, <2>2, <2>3, MoveKeeps DEF Check!Lock
  <1>5. CASE Check!Interrupt(k, c)
    <2>1. at'[k] = [at[k] EXCEPT ![c] = "failing"]
      BY <1>5 DEF Check!Interrupt, Check!Goto, CheckInv, OneLeader
    <2>2. \A d \in Check!Thread : d \in leader'[k] <=> at'[k][d] \in Check!Leading
      BY <1>5, <2>1 DEF Check!Interrupt, CheckInv, OneLeader
    <2>3. \A d, e \in leader'[k] : d = e
      BY <1>5 DEF Check!Interrupt, CheckInv, OneLeader
    <2> QED
      BY <1>5, <2>2, <2>3, MoveKeeps DEF Check!Interrupt
  <1> QED
    BY <1>1, <1>2, <1>3, <1>4, <1>5 DEF Check!Look, Check!Lock

(* A leader looks for itself: what it finds once the stop is there is not  *)
(* ok.                                                                     *)
LEMMA FindKeeps ==
  ASSUME Check!AvailabilityAssumption, CheckInv, NEW c \in Check!Thread,
         Check!CheckScope(c) \/ Check!CheckStop(c)
  PROVE  CheckInv'
  <1> USE DEF Check!Leading, Check!Places, Check!Cache
  <1>1. CASE /\ Check!CheckScope(c) /\ EpisodeOf[c] \notin refused
             /\ at' = [at EXCEPT !["client"][c] = "asking", !["admission"][c] = "looking"]
             /\ UNCHANGED found
    <2>1. /\ at' \in [Check!Cache -> [Check!Thread -> Check!Places]]
          /\ at'["client"][c] = "asking" /\ at'["admission"][c] = "looking"
          /\ \A j \in Check!Cache, d \in Check!Thread : d # c => at'[j][d] = at[j][d]
      BY <1>1, Passes DEF CheckInv
    <2>2. at["client"][c] = "checking" /\ at["admission"][c] = "idle"
      BY <1>1 DEF Check!CheckScope, CheckInv, OneDoor
    <2>3. OneLeader' /\ OneDoor'
      BY <1>1, <2>1, <2>2 DEF Check!CheckScope, CheckInv, OneLeader, OneDoor
    <2>4. \A j \in Check!Cache : Check!NoneVouches(j) => Check!NoneVouches(j)'
      BY <1>1, <2>1, <2>2 DEF Check!CheckScope, CheckInv, OneLeader, Check!NoneVouches
    <2>5. WarnedIsOverdue'
      BY <1>1, <2>1, <2>2, <2>4
         DEF Check!CheckScope, CheckInv, WarnedIsOverdue, Check!Overdue, Check!world, Check!Thread
    <2>6. WarnedLooks'
      BY <1>1, <2>1 DEF Check!CheckScope, CheckInv, WarnedIsOverdue, WarnedLooks, Check!Idle, Check!Thread
    <2> QED
      BY <2>3, <2>5, <2>6 DEF CheckInv
  <1>2. ASSUME NEW k \in Check!Cache, NEW what \in Verdicts, stop => what # "ok",
               at[k][c] = "checking", Check!Goto(k, c, "publishing"),
               found' = [found EXCEPT ![k] = what],
               UNCHANGED <<snapshot, leader, Check!world, warned>>
        PROVE  CheckInv'
    <2>1. /\ at' \in [Check!Cache -> [Check!Thread -> Check!Places]] /\ at'[k][c] = "publishing"
          /\ \A j \in Check!Cache, d \in Check!Thread : ~ (j = k /\ d = c) => at'[j][d] = at[j][d]
      BY <1>2, Moves DEF CheckInv
    <2>2. OneLeader' /\ OneDoor'
      BY <1>2, <2>1 DEF CheckInv, OneLeader, OneDoor
    <2>3. \A j \in Check!Cache : stop /\ Check!NoneVouches(j) => Check!NoneVouches(j)'
      BY <1>2, <2>1 DEF CheckInv, OneLeader, Check!NoneVouches
    <2>4. WarnedIsOverdue'
      BY <1>2, <2>1, <2>3 DEF CheckInv, WarnedIsOverdue, Check!Overdue, Check!world, Check!Thread
    <2>5. WarnedLooks'
      BY <1>2, <2>1 DEF CheckInv, WarnedIsOverdue, WarnedLooks, Check!Idle, Check!Thread
    <2> QED
      BY <2>2, <2>4, <2>5 DEF CheckInv
  <1>3. CASE Check!CheckScope(c) /\ EpisodeOf[c] \in refused /\ Check!Goto("client", c, "publishing")
             /\ found' = [found EXCEPT !["client"] = EpisodeOf[c]]
    <2>1. c \in Asker
      BY <1>3 DEF Check!CheckScope, CheckInv, OneDoor, Check!Thread
    <2>2. EpisodeOf[c] \in Verdicts /\ EpisodeOf[c] # "ok"
      BY <2>1 DEF Check!AvailabilityAssumption, Verdicts
    <2> QED
      BY <1>2, <1>3, <2>2 DEF Check!CheckScope
  <1>4. CASE Check!CheckStop(c)
    <2> DEFINE what == IF stop THEN "stopped" ELSE "ok"
    <2>1. what \in Verdicts /\ (stop => what # "ok")
      BY DEF Verdicts
    <2>2. found' = [found EXCEPT !["admission"] = what]
      BY <1>4 DEF Check!CheckStop
    <2> HIDE DEF what
    <2> QED
      BY <1>2, <1>4, <2>1, <2>2 DEF Check!CheckStop
  <1> QED
    BY <1>1, <1>3, <1>4 DEF Check!CheckScope

(* The leader publishes what it found.                                     *)
LEMMA PublishKeeps ==
  ASSUME Check!AvailabilityAssumption, CheckInv, NEW k \in Check!Cache, NEW c \in Check!Thread,
         Check!Publish(k, c)
  PROVE  CheckInv'
  <1> USE DEF Check!Leading, Check!Places, Check!Cache, Check!Publish
  <1>1. /\ at' \in [Check!Cache -> [Check!Thread -> Check!Places]] /\ at'[k][c] = "releasing"
        /\ \A j \in Check!Cache, d \in Check!Thread : ~ (j = k /\ d = c) => at'[j][d] = at[j][d]
    BY Moves DEF CheckInv
  <1>2. OneLeader'
    <2>1. snapshot' \in [Check!Cache -> Verdicts \cup {"old"}] /\ found' \in [Check!Cache -> Verdicts]
      BY DEF CheckInv, OneLeader, Verdicts
    <2> QED
      BY <1>1, <2>1 DEF CheckInv, OneLeader
  <1>3. OneDoor'
    BY <1>1 DEF CheckInv, OneLeader, OneDoor
  <1>4. \A j \in Check!Cache : Check!NoneVouches(j) => Check!NoneVouches(j)'
    <2>1. c \in leader[k]
      BY DEF CheckInv, OneLeader
    <2>2. \A j \in Check!Cache : snapshot'[j] = IF j = k THEN found[k] ELSE snapshot[j]
      BY DEF CheckInv, OneLeader
    <2>3. leader'[k] = {c}
      BY <2>1 DEF CheckInv, OneLeader
    <2> QED
      BY <1>1, <2>1, <2>2, <2>3 DEF CheckInv, OneLeader, Check!NoneVouches
  <1>5. WarnedIsOverdue'
    BY <1>1, <1>4 DEF CheckInv, WarnedIsOverdue, Check!Overdue, Check!world, Check!Thread
  <1>6. WarnedLooks'
    BY <1>1 DEF CheckInv, WarnedIsOverdue, WarnedLooks, Check!Idle, Check!Thread
  <1> QED
    BY <1>2, <1>3, <1>5, <1>6 DEF CheckInv

(* The refresh is over: everybody who relied on it looks again, but those  *)
(* whom the interrupt has ended.                                           *)
LEMMA ReleaseKeeps ==
  ASSUME Check!AvailabilityAssumption, CheckInv, NEW k \in Check!Cache, NEW c \in Check!Thread,
         Check!Release(k, c)
  PROVE  CheckInv'
  <1> USE DEF Check!Leading, Check!Places, Check!Cache
  <1>1. /\ DOMAIN at' = Check!Cache /\ \A j \in Check!Cache : DOMAIN at'[j] = Check!Thread
        /\ \A j \in Check!Cache, d \in Check!Thread :
             at'[j][d] = IF j = k /\ (d = c \/ at[k][d] = "waiting") THEN Check!Proceeds(k, c, d)
                         ELSE IF j # k /\ d = c /\ at[k][c] = "failing" /\ at["client"][c] = "asking"
                              THEN "failing" ELSE at[j][d]
    BY DEF Check!Release, Check!Awaited, Check!FailsClient, Check!AsksForClient
  <1>2. at' \in [Check!Cache -> [Check!Thread -> Check!Places]]
    BY <1>1 DEF Check!Proceeds, CheckInv, OneLeader, Check!Release
  <1>3. OneLeader'
    <2>1. leader[k] = {c}
      BY DEF Check!Release, CheckInv, OneLeader
    <2>2. \A d \in Check!Thread : at'[k][d] \notin Check!Leading
      BY <1>1, <2>1 DEF Check!Proceeds, CheckInv, OneLeader
    <2>3. \A j \in Check!Cache, d \in Check!Thread :
            j # k => (at'[j][d] \in Check!Leading <=> at[j][d] \in Check!Leading)
      BY <1>1, <2>1 DEF CheckInv, OneLeader, OneDoor
    <2> QED
      BY <1>2, <2>2, <2>3 DEF Check!Release, CheckInv, OneLeader
  <1>4. OneDoor'
    BY <1>1 DEF Check!Proceeds, CheckInv, OneLeader, OneDoor, Check!Release
  <1>5. \A j \in Check!Cache : Check!NoneVouches(j) => Check!NoneVouches(j)'
    BY <1>1 DEF Check!Proceeds, CheckInv, OneLeader, Check!Release, Check!NoneVouches
  <1>6. WarnedIsOverdue'
    BY <1>1, <1>5 DEF CheckInv, WarnedIsOverdue, WarnedLooks, Check!Overdue, Check!world, Check!Thread,
                      Check!Release, Check!Proceeds, OneDoor
  <1>7. WarnedLooks'
    BY <1>1 DEF CheckInv, WarnedIsOverdue, WarnedLooks, Check!Idle, Check!Thread, Check!Release,
                Check!Proceeds
  <1> QED
    BY <1>3, <1>4, <1>6, <1>7 DEF CheckInv

(* A refusal is kept.                                                      *)
LEMMA SaveKeeps ==
  ASSUME Check!AvailabilityAssumption, CheckInv, NEW c \in Check!Thread, Check!SaveRejection(c)
  PROVE  CheckInv'
  <1> USE DEF Check!Leading, Check!Places, Check!Cache, Check!SaveRejection, Check!cache, Check!world
  <1>1. /\ at' \in [Check!Cache -> [Check!Thread -> Check!Places]] /\ at'["client"][c] = "idle"
        /\ \A j \in Check!Cache, d \in Check!Thread :
             ~ (j = "client" /\ d = c) => at'[j][d] = at[j][d]
    BY Moves DEF CheckInv
  <1>2. OneLeader'
    BY <1>1 DEF CheckInv, OneLeader
  <1>3. OneDoor'
    BY <1>1 DEF CheckInv, OneLeader, OneDoor
  <1>4. \A j \in Check!Cache : Check!NoneVouches(j) => Check!NoneVouches(j)'
    BY <1>1 DEF CheckInv, OneLeader, Check!NoneVouches
  <1>5. WarnedIsOverdue' /\ WarnedLooks'
    BY <1>1, <1>4
       DEF CheckInv, WarnedIsOverdue, WarnedLooks, Check!Overdue, Check!Idle, Check!Thread
  <1> QED
    BY <1>2, <1>3, <1>5 DEF CheckInv

(* So does everything else that happens.                                   *)
LEMMA CheckStep ==
  ASSUME Check!AvailabilityAssumption, CheckInv, [Check!Next]_(Check!vars) PROVE CheckInv'
  <1>1. ASSUME NEW k \in Check!Cache, Check!Expire(k) PROVE CheckInv'
    <2> USE <1>1 DEF Check!Expire, Check!world
    <2>1. snapshot' \in [Check!Cache -> Verdicts \cup {"old"}]
      BY DEF CheckInv, OneLeader
    <2>2. OneLeader' /\ OneDoor'
      BY <2>1 DEF CheckInv, OneLeader, OneDoor
    <2>3. \A j \in Check!Cache : Check!NoneVouches(j) => Check!NoneVouches(j)'
      BY DEF CheckInv, OneLeader, Check!NoneVouches
    <2>4. WarnedIsOverdue' /\ WarnedLooks'
      BY <2>3 DEF CheckInv, WarnedIsOverdue, WarnedLooks, Check!Overdue, Check!Idle, Check!Cache
    <2> QED
      BY <2>2, <2>4 DEF CheckInv
  <1>2. CASE \/ Check!Stop \/ UNCHANGED Check!vars
             \/ \E e \in Episode : Check!Refuse(e)
    BY <1>2 DEF Check!Stop, Check!Refuse, Check!vars, Check!cache, Check!world, CheckInv, OneLeader,
         OneDoor, WarnedIsOverdue, WarnedLooks, Check!Overdue, Check!NoneVouches, Check!Idle
  <1>3. ASSUME NEW c \in Check!Thread, Check!Step(c) PROVE CheckInv'
    BY <1>3, LookKeeps, FindKeeps, PublishKeeps, ReleaseKeeps, SaveKeeps DEF Check!Step
  <1>4. ASSUME NEW c \in Check!Thread, NEW k \in Check!Cache, Check!Ask(k, c) \/ Check!Interrupt(k, c)
        PROVE  CheckInv'
    BY <1>4, AskKeeps, LookKeeps
  <1> QED
    BY <1>1, <1>2, <1>3, <1>4 DEF Check!Next

(* One thread refreshes a cache at a time, and on the way of a question    *)
(* that was asked too late there remains no verdict of before the stop in  *)
(* either cache, nor in a check that is being made.                        *)
THEOREM AvailabilityInvariant == ASSUME Check!AvailabilityAssumption PROVE Check!Spec => []CheckInv
  <1>1. Check!Init => CheckInv
    BY CheckStarts
  <1>2. CheckInv /\ [Check!Next]_(Check!vars) => CheckInv'
    BY CheckStep
  <1> QED
    BY <1>1, <1>2, PTL DEF Check!Spec

(* "Fatal markers still propagate promptly": no question that is asked     *)
(* when neither cache on its way vouches any more for the time before the  *)
(* stop ends with ok, for any number of threads and episodes, and however  *)
(* often either cache expires and is refreshed from the other.             *)
THEOREM StopSeen == ASSUME Check!AvailabilityAssumption PROVE Check!Spec => []StopIsSeen
  <1>1. CheckInv => StopIsSeen
    BY DEF CheckInv, WarnedLooks, StopIsSeen, Check!StopIsSeen
  <1> QED
    BY <1>1, AvailabilityInvariant, PTL
=============================================================================
