--------------------------- MODULE FairAdmission ---------------------------
(***************************************************************************)
(* scripts/fair_request_admission.py: a request reserves working memory    *)
(* before it is serialized (one weighted FIFO per task lane), and each of  *)
(* its HTTP attempts takes a network slot (one FIFO per lane, grants shared *)
(* between the lanes).  Limits change while requests are admitted.         *)
(*                                                                         *)
(* A grant and the event that announces it are one step: the granting      *)
(* thread sets the event next, and only the ticket's owner acts on it.     *)
(***************************************************************************)
EXTENDS Integers, Sequences, FiniteSets, SequencesExt, FiniteSetsExt

CONSTANTS Request,     \* request threads
          LaneOf,      \* request -> "ecot" or "grd"
          Inline,      \* requests that carry media bytes and reserve memory
          Weight,      \* request -> working bytes it reserves
          MemorySlots, \* lane -> maximum of its MemoryReservations
          Budget,      \* lane -> byte budget of its MemoryReservations
          Limits,      \* records [http, ecot]: the limits set_limit may receive
          MaxTries     \* HTTP attempts of a request

Lane == {"ecot", "grd"}

AdmissionAssumption ==
  /\ LaneOf \in [Request -> Lane] /\ Inline \subseteq Request
  /\ Weight \in [Request -> Nat] /\ Budget \in [Lane -> Nat]
  /\ MemorySlots \in [Lane -> Nat]
  /\ \A r \in Inline : Weight[r] <= Budget[LaneOf[r]]
  /\ \A l \in Limits : l.http \in Nat \ {0} /\ l.ecot \in 1 .. l.http
  /\ MaxTries \in Nat \ {0}

VARIABLES pc,       \* request: "idle", "reserving", "ready", "asking", "sending"
          tries,    \* request -> attempts it has begun
          limit,    \* maximum and ecot_limit of the network slots
          memQueue, \* lane -> queue of memory tickets
          memHeld,  \* requests whose memory ticket is granted
          memCount, \* lane -> MemoryReservations.active
          memBytes, \* lane -> MemoryReservations.bytes
          netQueue, \* lane -> queue of network tickets
          netHeld,  \* requests whose network ticket is granted
          active,   \* FairNetworkSlots.active
          byLane    \* FairNetworkSlots.by_lane

memory == <<memQueue, memHeld, memCount, memBytes>>
network == <<limit, netQueue, netHeld, active, byLane>>
vars == <<pc, tries, memory, network>>

Init ==
  /\ pc = [r \in Request |-> "idle"] /\ tries = [r \in Request |-> 0]
  /\ limit \in Limits
  /\ memQueue = [l \in Lane |-> <<>>] /\ netQueue = [l \in Lane |-> <<>>]
  /\ memHeld = {} /\ netHeld = {}
  /\ memCount = [l \in Lane |-> 0] /\ memBytes = [l \in Lane |-> 0]
  /\ active = 0 /\ byLane = [l \in Lane |-> 0]

-----------------------------------------------------------------------------
(* Working memory                                                          *)

(* The working bytes of the first requests of a queue, by their number.    *)
Bytes(q) ==
  LET sum[n \in 0 .. Len(q)] == IF n = 0 THEN 0 ELSE sum[n - 1] + Weight[q[n]]
  IN  sum

(* MemoryReservations._grant: how many tickets it takes from the head of   *)
(* the queue, as many as fit.                                              *)
MemGrants(l, q, count, bytes) ==
  LET fits(n) == count + n <= MemorySlots[l] /\ bytes + Bytes(q)[n] <= Budget[l]
  IN  Max({0} \cup {n \in 1 .. Len(q) : fits(n)})

(* The first requests of a queue, and what waits behind them.              *)
First(q, n) == {q[i] : i \in 1 .. n}
Behind(q, n) == SubSeq(q, n + 1, Len(q))

(* The lane has queue q and counters as given, and grants.                 *)
MemSettle(l, q, held, count, bytes) ==
  LET n == MemGrants(l, q, count, bytes)
  IN  /\ memQueue' = [memQueue EXCEPT ![l] = Behind(q, n)]
      /\ memHeld' = held \cup First(q, n)
      /\ memCount' = [memCount EXCEPT ![l] = count + n]
      /\ memBytes' = [memBytes EXCEPT ![l] = bytes + Bytes(q)[n]]

(* reserve: media bytes wait for memory, references to uploaded media do   *)
(* not.                                                                    *)
Reserve(r) ==
  /\ pc[r] = "idle"
  /\ LET l == LaneOf[r]
     IN  IF r \in Inline
         THEN /\ pc' = [pc EXCEPT ![r] = "reserving"]
              /\ MemSettle(l, Append(memQueue[l], r), memHeld, memCount[l], memBytes[l])
         ELSE /\ pc' = [pc EXCEPT ![r] = "ready"]
              /\ UNCHANGED memory
  /\ UNCHANGED <<tries, network>>

Reserved(r) ==
  /\ pc[r] = "reserving" /\ r \in memHeld
  /\ pc' = [pc EXCEPT ![r] = "ready"]
  /\ UNCHANGED <<tries, memory, network>>

(* The finally of MemoryReservations.admit: the request is done, or its    *)
(* check raised while it waited, granted meanwhile or not.                 *)
UnreserveSilently(r) ==
  LET l == LaneOf[r]
  IN  IF r \in memHeld
      THEN MemSettle(l, memQueue[l], memHeld \ {r}, memCount[l] - 1, memBytes[l] - Weight[r])
      ELSE /\ memQueue' = [memQueue EXCEPT ![l] = RemoveFirst(@, r)]
           /\ UNCHANGED <<memHeld, memCount, memBytes>>
Unreserve(r) ==
  LET l == LaneOf[r]
  IN  IF r \in memHeld
      THEN MemSettle(l, memQueue[l], memHeld \ {r}, memCount[l] - 1, memBytes[l] - Weight[r])
      ELSE MemSettle(l, RemoveFirst(memQueue[l], r), memHeld, memCount[l], memBytes[l])

LeaveMemory(r) ==
  /\ pc[r] \in {"reserving", "ready"}
  /\ pc' = [pc EXCEPT ![r] = "idle"] /\ tries' = [tries EXCEPT ![r] = 0]
  /\ IF r \in Inline THEN Unreserve(r) ELSE UNCHANGED memory
  /\ UNCHANGED network

-----------------------------------------------------------------------------
(* Network slots                                                           *)

EcotCeiling(lim) == Min({lim.http, lim.ecot})
EcotShare(lim) == Max({1, lim.http \div 4})

(* FairNetworkSlots._grant, one turn of its loop: the lane served next, if *)
(* any.  ecot is served up to its ceiling, and while grd waits up to its   *)
(* share only.                                                             *)
NextLaneEcotFirst(lim, waiting, act, lanes) ==
  IF act >= lim.http THEN {}
  ELSE IF waiting["ecot"] > 0 /\ lanes["ecot"] < EcotCeiling(lim) THEN {"ecot"}
  ELSE {l \in {"grd"} : waiting[l] > 0}
NextLane(lim, waiting, act, lanes) ==
  IF act >= lim.http THEN {}
  ELSE IF waiting["ecot"] > 0 /\ lanes["ecot"] < EcotCeiling(lim)
          /\ (waiting["grd"] = 0 \/ lanes["ecot"] < EcotShare(lim))
  THEN {"ecot"}
  ELSE {l \in {"grd"} : waiting[l] > 0}

(* How many tickets each lane is granted once the loop has ended: it turns *)
(* at most lim.http times.                                                 *)
NetGrants(lim, q, act, lanes) ==
  LET grants[turn \in 0 .. lim.http] ==
        IF turn = 0 THEN [l \in Lane |-> 0]
        ELSE LET n == grants[turn - 1]
                 served == NextLane(lim, [l \in Lane |-> Len(q[l]) - n[l]],
                                    act + n["ecot"] + n["grd"],
                                    [l \in Lane |-> lanes[l] + n[l]])
             IN  [l \in Lane |-> IF l \in served THEN n[l] + 1 ELSE n[l]]
  IN  grants[lim.http]

(* The slots have this limit, queues and counters, and grant.              *)
NetSettle(lim, q, held, act, lanes) ==
  LET n == NetGrants(lim, q, act, lanes)
  IN  /\ limit' = lim
      /\ netQueue' = [l \in Lane |-> Behind(q[l], n[l])]
      /\ netHeld' = held \cup UNION {First(q[l], n[l]) : l \in Lane}
      /\ active' = act + n["ecot"] + n["grd"]
      /\ byLane' = [l \in Lane |-> lanes[l] + n[l]]

(* admit: one HTTP attempt asks for a slot; retries ask again.             *)
Ask(r) ==
  /\ pc[r] = "ready" /\ tries[r] < MaxTries
  /\ pc' = [pc EXCEPT ![r] = "asking"] /\ tries' = [tries EXCEPT ![r] = @ + 1]
  /\ NetSettle(limit, [netQueue EXCEPT ![LaneOf[r]] = Append(@, r)], netHeld, active, byLane)
  /\ UNCHANGED memory

Send(r) ==
  /\ pc[r] = "asking" /\ r \in netHeld
  /\ pc' = [pc EXCEPT ![r] = "sending"]
  /\ UNCHANGED <<tries, memory, network>>

(* _release: the attempt is over, or the check raised while it waited,     *)
(* granted meanwhile or not.                                               *)
Release(r) ==
  /\ pc[r] \in {"asking", "sending"}
  /\ pc' = [pc EXCEPT ![r] = "ready"]
  /\ IF r \in netHeld
     THEN NetSettle(limit, netQueue, netHeld \ {r}, active - 1,
                    [byLane EXCEPT ![LaneOf[r]] = @ - 1])
     ELSE NetSettle(limit, [netQueue EXCEPT ![LaneOf[r]] = RemoveFirst(@, r)],
                    netHeld, active, byLane)
  /\ UNCHANGED <<tries, memory>>

(* set_limit, from the control file: admitted requests are not cancelled.  *)
SetLimit ==
  /\ \E lim \in Limits \ {limit} : NetSettle(lim, netQueue, netHeld, active, byLane)
  /\ UNCHANGED <<pc, tries, memory>>

-----------------------------------------------------------------------------
Next ==
  \/ \E r \in Request : \/ Reserve(r) \/ Reserved(r) \/ LeaveMemory(r)
                        \/ Ask(r) \/ Send(r) \/ Release(r)
  \/ SetLimit

Spec == Init /\ [][Next]_vars

(* Attempts end by answer or timeout, a request tries again or gives up,   *)
(* and a granted ticket is noticed: the steps of Reserved, Send, LeaveMemory *)
(* and Release named by what they do to pc, which no other step does.      *)
GoesOn(r) ==
  \/ pc[r] = "reserving" /\ r \in memHeld /\ pc' = [pc EXCEPT ![r] = "ready"]
  \/ pc[r] = "asking" /\ r \in netHeld /\ pc' = [pc EXCEPT ![r] = "sending"]
  \/ pc[r] = "sending" /\ pc' = [pc EXCEPT ![r] = "ready"]
  \/ pc[r] = "ready" /\ pc' = [pc EXCEPT ![r] = "idle"]
Fairness == \A r \in Request : WF_pc(GoesOn(r))

FairSpec == Spec /\ Fairness

-----------------------------------------------------------------------------
TypeOK ==
  /\ pc \in [Request -> {"idle", "reserving", "ready", "asking", "sending"}]
  /\ tries \in [Request -> 0 .. MaxTries]
  /\ limit \in Limits
  /\ \A q \in {memQueue, netQueue} : q \in [Lane -> Seq(Request)]
  /\ memHeld \subseteq Inline /\ netHeld \subseteq Request
  /\ memCount \in [Lane -> Nat] /\ memBytes \in [Lane -> Nat]
  /\ active \in Nat /\ byLane \in [Lane -> Nat]

In(l, S) == {r \in S : LaneOf[r] = l}

(* Nothing waits for what is free: "either lane borrows all idle           *)
(* capacity", and the head of a memory queue waits only while it does not  *)
(* fit.  No cancellation or limit change leaves a grant undone.            *)
WorkConserving ==
  /\ active < limit.http =>
       /\ netQueue["grd"] = <<>>
       /\ netQueue["ecot"] # <<>> => byLane["ecot"] >= EcotCeiling(limit)
  /\ \A l \in Lane :
       memQueue[l] # <<>> => \/ memCount[l] = MemorySlots[l]
                             \/ memBytes[l] + Weight[Head(memQueue[l])] > Budget[l]

(* "When demand returns, new grants restore the shares": while a grd       *)
(* request is left waiting, ecot is granted nothing beyond its share.      *)
GrdShare ==
  [][netQueue'["grd"] # <<>> /\ In("ecot", netHeld' \ netHeld) # {}
       => byLane'["ecot"] <= EcotShare(limit')]_vars

(* A request in one of the queues.                                         *)
Queued(r) ==
  (pc[r] = "reserving" /\ r \notin memHeld) \/ (pc[r] = "asking" /\ r \notin netHeld)
=============================================================================
