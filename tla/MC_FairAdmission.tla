-------------------------- MODULE MC_FairAdmission --------------------------
(***************************************************************************)
(* What a request waits for before it is sent, in two parts of which a     *)
(* specification starts one: a start permit (PacedDispatch), or memory and *)
(* a network slot (FairAdmission).                                         *)
(*                                                                         *)
(* Two requests and three dispatchers: the newest one, one that was        *)
(* replaced, and one that is starting.  Three ecot requests that contend   *)
(* for memory, one of them heavy, and two grd requests that do not; the    *)
(* limits are scaled down, with and without a ceiling for ecot.            *)
(***************************************************************************)
EXTENDS MC_PacedDispatch

CONSTANTS e1, e2, e3, g1, g2,
          Client, LaneOf, Inline, Weight, MemorySlots, Budget, Limits, MaxTries

MCLaneOf == [r \in Client |-> IF r \in {g1, g2} THEN "grd" ELSE "ecot"]
MCWeight == [r \in Client |-> IF r = e1 THEN 2 ELSE 1]
MCMemorySlots == [l \in {"ecot", "grd"} |-> 2]
MCBudget == [ecot |-> 2, grd |-> 1]
MCLimits == {[http |-> 2, ecot |-> 2], [http |-> 3, ecot |-> 1]}

VARIABLES aPc, tries, limit, memQueue, memHeld, memCount, memBytes, netQueue, netHeld, active, byLane,
          followed \* a request of each kind: e3 is a second e2, g2 a second g1

Admission == INSTANCE FairAdmission WITH pc <- aPc, Request <- Client

ASSUME AdmissionConstants == Admission!AdmissionAssumption

admission == <<aPc, tries, limit, memQueue, memHeld, memCount, memBytes, netQueue, netHeld, active, byLane>>

DispatchUnused ==
  /\ pc = [r \in Request |-> "unused"] /\ pending = <<>> /\ granted = {} /\ woken = {}
  /\ due = TRUE /\ quiet = TRUE /\ latest = d1 /\ dpc = [d \in Dispatcher |-> "dead"]
  /\ tickets = [d \in Dispatcher |-> {}] /\ watchdog = "none" /\ stuck = {} /\ faults = 0

AdmissionUnused ==
  /\ aPc = [r \in Client |-> "unused"] /\ tries = [r \in Client |-> 0] /\ limit = [http |-> 2, ecot |-> 2]
  /\ memQueue = [l \in {"ecot", "grd"} |-> <<>>] /\ memHeld = {} /\ netHeld = {} /\ active = 0
  /\ netQueue = memQueue /\ memCount = [l \in {"ecot", "grd"} |-> 0]
  /\ memBytes = memCount /\ byLane = memCount

StartNext ==
  \/ pc # [r \in Request |-> "unused"] /\ Next /\ UNCHANGED <<admission, followed>>
  \/ aPc # [r \in Client |-> "unused"] /\ Admission!Next /\ UNCHANGED <<vars, followed>>

StartSpec ==
  /\ \/ Init /\ AdmissionUnused /\ followed = e1
     \/ DispatchUnused /\ Admission!Init /\ followed \in {e1, e2, g1}
  /\ [][StartNext]_<<vars, admission, followed>>
  /\ Fairness /\ Admission!Fairness

(* What FairAdmission states of its queues (see there).                    *)
WorkConserving == Admission!WorkConserving
GrdShare == Admission!GrdShare

(* Nobody waits for ever: a queued request gets its permit, unless a       *)
(* dispatcher is stuck, whoever overtakes or replaces; and neither lane    *)
(* starves the other, nor light requests a heavy one in its memory queue.  *)
Waiting == Waits(r1) \/ Admission!Queued(followed)
EachRequestStarts == Waiting ~> ~ Waiting
=============================================================================
