------------------------ MODULE PacedDispatchProofs ------------------------
(***************************************************************************)
(* Proofs about PacedDispatch, for every number of request threads,        *)
(* dispatchers and faults.  The invariants of the runs are inductive       *)
(* together: a ticket is found again because a grant takes it from a queue *)
(* that holds it once, and a queue is served because every step that ends  *)
(* a dispatcher or fills the queue looks at the other.                     *)
(*                                                                         *)
(* Then about FairAdmission, as the instance Admission of MC_FairAdmission, *)
(* for all clients, weights and limits: what is free is granted before the *)
(* lock is released.  The recursive functions of the model come first.     *)
(***************************************************************************)
EXTENDS MC_FairAdmission, SequenceTheorems, FiniteSetTheorems, TLAPS

IndInv == TypeOK /\ QueueHasDispatcher /\ TicketIsSomewhere

(* The queue operations of the dispatcher, on a queue of distinct tickets. *)
LEMMA AppendFacts ==
  ASSUME NEW S, NEW q \in Seq(S), NEW r \in S
  PROVE  /\ Append(q, r) \in Seq(S) /\ Append(q, r) # <<>>
         /\ \A x : Contains(Append(q, r), x) <=> (Contains(q, x) \/ x = r)
         /\ NoRepeats(q) /\ ~ Contains(q, r) => NoRepeats(Append(q, r))
<1> DEFINE a == Append(q, r)
<1>1. /\ a \in Seq(S) /\ Len(a) = Len(q) + 1 /\ a # <<>>
      /\ \A i \in 1 .. Len(q) : a[i] = q[i]
      /\ a[Len(q) + 1] = r
  OBVIOUS
<1>2. Len(q) \in Nat
  OBVIOUS
<1> HIDE DEF a
<1>3. \A x : Contains(a, x) <=> (Contains(q, x) \/ x = r)
  BY <1>1, <1>2 DEF Contains
<1>4. NoRepeats(q) /\ ~ Contains(q, r) => NoRepeats(a)
  BY <1>1, <1>2 DEF Contains, NoRepeats
<1>5. QED BY <1>1, <1>3, <1>4 DEF a

LEMMA CohortFacts ==
  ASSUME NEW S, NEW q \in Seq(S), NEW n \in 1 .. Len(q), NoRepeats(q)
  PROVE  LET rest == SubSeq(q, n + 1, Len(q))
             cohort == {q[i] : i \in 1 .. n}
         IN  /\ rest \in Seq(S) /\ NoRepeats(rest) /\ cohort \subseteq S
             /\ \A x : Contains(rest, x) <=> (Contains(q, x) /\ x \notin cohort)
             /\ \A x \in cohort : Contains(q, x)
<1> DEFINE rest == SubSeq(q, n + 1, Len(q))
           cohort == {q[i] : i \in 1 .. n}
<1>1. Len(q) \in Nat /\ \A i \in 1 .. Len(q) : q[i] \in S
  OBVIOUS
<1>2. /\ rest \in Seq(S) /\ Len(rest) = Len(q) - n
      /\ \A i \in 1 .. Len(q) - n : rest[i] = q[n + i]
  BY <1>1, SubSeqProperties
<1> HIDE DEF rest
<1>3. NoRepeats(rest)
  <2>1. ASSUME NEW i \in 1 .. Len(q) - n, NEW j \in 1 .. Len(q) - n, rest[i] = rest[j]
        PROVE  i = j
    <3>1. n + i \in 1 .. Len(q) /\ n + j \in 1 .. Len(q) /\ q[n + i] = q[n + j]
      BY <1>1, <1>2, <2>1
    <3>2. n + i = n + j
      BY <3>1 DEF NoRepeats
    <3>3. QED BY <1>1, <3>2
  <2>2. QED BY <1>2, <2>1 DEF NoRepeats
<1>4. cohort \subseteq S /\ \A x \in cohort : Contains(q, x)
  BY <1>1 DEF Contains
<1>5. ASSUME NEW x, Contains(rest, x) PROVE Contains(q, x) /\ x \notin cohort
  <2>1. PICK i \in 1 .. Len(q) - n : rest[i] = x
    BY <1>2, <1>5 DEF Contains
  <2>2. n + i \in 1 .. Len(q) /\ q[n + i] = x
    BY <1>1, <1>2, <2>1
  <2>3. \A j \in 1 .. n : q[j] # x
    BY <1>1, <2>2 DEF NoRepeats
  <2>4. QED BY <2>2, <2>3 DEF Contains
<1>6. ASSUME NEW x, Contains(q, x), x \notin cohort PROVE Contains(rest, x)
  <2>1. PICK i \in 1 .. Len(q) : q[i] = x
    BY <1>6 DEF Contains
  <2>2. i > n
    BY <1>1, <1>6, <2>1
  <2>3. i - n \in 1 .. Len(rest) /\ rest[i - n] = x
    BY <1>1, <1>2, <2>1, <2>2
  <2>4. QED BY <2>3 DEF Contains
<1>7. QED BY <1>2, <1>3, <1>4, <1>5, <1>6 DEF rest

LEMMA RemoveFacts ==
  ASSUME NEW S, NEW q \in Seq(S), NEW i \in 1 .. Len(q), NoRepeats(q)
  PROVE  /\ RemoveAt(q, i) \in Seq(S) /\ NoRepeats(RemoveAt(q, i))
         /\ \A x : Contains(RemoveAt(q, i), x) <=> (Contains(q, x) /\ x # q[i])
<1> DEFINE front == SubSeq(q, 1, i - 1)
           back == SubSeq(q, i + 1, Len(q))
           rest == RemoveAt(q, i)
<1>1. Len(q) \in Nat /\ \A j \in 1 .. Len(q) : q[j] \in S
  OBVIOUS
<1>2. /\ front \in Seq(S) /\ Len(front) = i - 1
      /\ \A j \in 1 .. i - 1 : front[j] = q[j]
  BY <1>1, SubSeqProperties
<1>3. /\ back \in Seq(S) /\ Len(back) = Len(q) - i
      /\ \A j \in 1 .. Len(q) - i : back[j] = q[i + j]
  BY <1>1, SubSeqProperties
<1>4. rest = front \o back
  BY DEF RemoveAt
<1> HIDE DEF front, back, rest
<1>5. /\ rest \in Seq(S) /\ Len(rest) = Len(q) - 1
      /\ \A j \in 1 .. Len(q) - 1 : rest[j] = IF j < i THEN q[j] ELSE q[j + 1]
  <2>1. /\ rest \in Seq(S) /\ Len(rest) = Len(q) - 1
        /\ \A j \in 1 .. Len(q) - 1 :
             rest[j] = IF j <= i - 1 THEN front[j] ELSE back[j - (i - 1)]
    BY <1>1, <1>2, <1>3, <1>4, ConcatProperties
  <2>2. ASSUME NEW j \in 1 .. Len(q) - 1
        PROVE  rest[j] = IF j < i THEN q[j] ELSE q[j + 1]
    <3>1. CASE j < i
      <4>1. j \in 1 .. i - 1
        BY <1>1, <3>1
      <4>2. QED BY <1>1, <1>2, <2>1, <3>1, <4>1
    <3>2. CASE j >= i
      <4>1. j - (i - 1) \in 1 .. Len(q) - i /\ i + (j - (i - 1)) = j + 1
        BY <1>1, <3>2
      <4>2. back[j - (i - 1)] = q[j + 1]
        BY <1>3, <4>1
      <4>3. rest[j] = back[j - (i - 1)]
        BY <1>1, <2>1, <3>2
      <4>4. QED BY <1>1, <3>2, <4>2, <4>3
    <3>3. QED BY <1>1, <3>1, <3>2
  <2>3. QED BY <2>1, <2>2
<1>6. NoRepeats(rest)
  <2>1. ASSUME NEW j \in 1 .. Len(q) - 1, NEW k \in 1 .. Len(q) - 1, rest[j] = rest[k]
        PROVE  j = k
    <3> DEFINE at(m) == IF m < i THEN m ELSE m + 1
    <3>1. /\ at(j) \in 1 .. Len(q) /\ at(k) \in 1 .. Len(q)
          /\ rest[j] = q[at(j)] /\ rest[k] = q[at(k)]
      BY <1>1, <1>5
    <3>2. at(j) = at(k)
      BY <2>1, <3>1 DEF NoRepeats
    <3>3. QED BY <1>1, <3>2
  <2>2. QED BY <1>5, <2>1 DEF NoRepeats
<1>7. ASSUME NEW x, Contains(rest, x) PROVE Contains(q, x) /\ x # q[i]
  <2>1. PICK j \in 1 .. Len(q) - 1 : rest[j] = x
    BY <1>5, <1>7 DEF Contains
  <2>2. PICK k \in 1 .. Len(q) : k # i /\ q[k] = x
    BY <1>1, <1>5, <2>1
  <2>3. QED BY <2>2 DEF Contains, NoRepeats
<1>8. ASSUME NEW x, Contains(q, x), x # q[i] PROVE Contains(rest, x)
  <2>1. PICK k \in 1 .. Len(q) : q[k] = x /\ k # i
    BY <1>8 DEF Contains
  <2>2. CASE k < i
    BY <1>1, <1>5, <2>1, <2>2 DEF Contains
  <2>3. CASE k > i
    <3>1. k - 1 \in 1 .. Len(rest) /\ rest[k - 1] = x
      BY <1>1, <1>5, <2>1, <2>3
    <3>2. QED BY <3>1 DEF Contains
  <2>4. QED BY <1>1, <2>1, <2>2, <2>3
<1>9. QED BY <1>5, <1>6, <1>7, <1>8 DEF rest

-----------------------------------------------------------------------------
Label == {"top", "idle", "notifying", "leaving", "dead"}

(* A step of the threads alone keeps every ticket where it is, unless it   *)
(* makes a dispatcher stop notifying.                                      *)
LEMMA ThreadsKeepTickets ==
  ASSUME IndInv, UNCHANGED <<queue, tickets>>,
         \A d \in Dispatcher : dpc[d] = "notifying" => dpc'[d] = "notifying"
  PROVE  TicketIsSomewhere'
  BY DEF IndInv, TicketIsSomewhere, HeldByDispatcher, queue

(* A new dispatcher, in place of one that has ended.                       *)
LEMMA StartFacts ==
  ASSUME NEW others \in [Dispatcher -> Label], Start(others)
  PROVE  /\ latest' \in Dispatcher /\ dpc' \in [Dispatcher -> Label]
         /\ dpc'[latest'] = "top" /\ quiet' = FALSE
         /\ \A d \in Dispatcher : others[d] = "notifying" => dpc'[d] = "notifying"
  BY DEF Start, Label

(* After EnsureThread the newest dispatcher is alive, whatever the queue.  *)
LEMMA EnsureThreadFacts ==
  ASSUME IndInv, NEW q, EnsureThread(q)
  PROVE  /\ latest' \in Dispatcher /\ dpc' \in [Dispatcher -> Label]
         /\ dpc'[latest'] # "dead" /\ quiet' \in BOOLEAN
         /\ \A d \in Dispatcher : dpc[d] = "notifying" => dpc'[d] = "notifying"
<1>1. dpc \in [Dispatcher -> Label] /\ latest \in Dispatcher /\ quiet \in BOOLEAN
  BY DEF IndInv, TypeOK, Label
<1>2. CASE Alive /\ ~ Stalled(q)
  BY <1>1, <1>2 DEF EnsureThread, threads, Alive
<1>3. CASE ~ (Alive /\ ~ Stalled(q))
  BY <1>1, <1>3, StartFacts DEF EnsureThread
<1>4. QED BY <1>2, <1>3

(* The dispatcher goes on to a label at which it is alive, and nothing     *)
(* else changes.                                                           *)
LEMMA GotoKeeps ==
  ASSUME IndInv, NEW d \in Dispatcher, dpc[d] \in {"top", "idle"},
         NEW label \in {"top", "idle", "leaving"}, Goto(d, label),
         UNCHANGED <<queue, due, quiet, latest, tickets, watchdog, stuck>>,
         faults' \in 0 .. MaxFaults
  PROVE  IndInv'
<1>1. TypeOK'
  BY DEF IndInv, TypeOK, Goto, queue
<1>2. QueueHasDispatcher'
  BY DEF IndInv, TypeOK, QueueHasDispatcher, Alive, Goto, queue
<1>3. TicketIsSomewhere'
  BY ThreadsKeepTickets DEF IndInv, TypeOK, Goto
<1>4. QED BY <1>1, <1>2, <1>3 DEF IndInv

(* One step of a request thread.                                           *)
LEMMA EnqueueInv == ASSUME IndInv, NEW r \in Request, Enqueue(r) PROVE IndInv'
<1>1. /\ pending \in Seq(Request) /\ pending' = Append(pending, r)
      /\ ~ Contains(pending, r) /\ NoRepeats(pending)
  BY DEF IndInv, TypeOK, TicketIsSomewhere, Enqueue
<1>2. /\ pending' \in Seq(Request) /\ NoRepeats(pending')
      /\ \A x : Contains(pending', x) <=> (Contains(pending, x) \/ x = r)
  BY <1>1, AppendFacts
<1>3. /\ latest' \in Dispatcher /\ dpc' \in [Dispatcher -> Label]
      /\ dpc'[latest'] # "dead" /\ quiet' \in BOOLEAN
      /\ \A d \in Dispatcher : dpc[d] = "notifying" => dpc'[d] = "notifying"
  BY EnsureThreadFacts DEF Enqueue
<1>4. TypeOK'
  BY <1>2, <1>3 DEF IndInv, TypeOK, Enqueue, EnsureWatchdog, Label
<1>5. QueueHasDispatcher'
  BY <1>3 DEF QueueHasDispatcher, Alive
<1>6. TicketIsSomewhere'
  <2> SUFFICES ASSUME NEW s \in Request
               PROVE  /\ (pc'[s] = "waiting") <=> (Contains(pending', s) \/ s \in granted')
                      /\ ~ (Contains(pending', s) /\ s \in granted')
                      /\ s \in granted' => (HeldByDispatcher(s)' \/ s \in woken')
    BY <1>2 DEF TicketIsSomewhere
  <2>1. s \in granted' => HeldByDispatcher(s)' \/ s \in woken'
    BY <1>3 DEF IndInv, TicketIsSomewhere, HeldByDispatcher, Enqueue
  <2>2. QED BY <1>2, <2>1 DEF IndInv, TypeOK, TicketIsSomewhere, Enqueue
<1>7. QED BY <1>4, <1>5, <1>6 DEF IndInv

(* A ticket is dropped by its owner; of the others nothing changes.        *)
LEMMA DropKeeps ==
  ASSUME IndInv, NEW r \in Request, DropTicket(r),
         pending' \in Seq(Request), NoRepeats(pending'),
         \A x : Contains(pending', x) <=> (Contains(pending, x) /\ x # r),
         pending = <<>> => pending' = <<>>,
         UNCHANGED <<due, quiet, threads, watchdog, stuck, faults>>
  PROVE  IndInv'
<1>1. TypeOK'
  <2>1. tickets' \in [Dispatcher -> SUBSET granted']
    BY DEF IndInv, TypeOK, DropTicket
  <2>2. QED BY <2>1 DEF IndInv, TypeOK, DropTicket, threads
<1>2. QueueHasDispatcher'
  BY DEF IndInv, QueueHasDispatcher, Alive, threads
<1>3. TicketIsSomewhere'
  <2> SUFFICES ASSUME NEW s \in Request
               PROVE  /\ (pc'[s] = "waiting") <=> (Contains(pending', s) \/ s \in granted')
                      /\ ~ (Contains(pending', s) /\ s \in granted')
                      /\ s \in granted' => (HeldByDispatcher(s)' \/ s \in woken')
    BY DEF TicketIsSomewhere
  <2>1. CASE s = r
    BY <2>1 DEF IndInv, TypeOK, DropTicket
  <2>2. CASE s # r
    <3>1. HeldByDispatcher(s) => HeldByDispatcher(s)'
      BY <2>2 DEF IndInv, TypeOK, HeldByDispatcher, DropTicket, threads
    <3>2. QED BY <2>2, <3>1 DEF IndInv, TypeOK, TicketIsSomewhere, DropTicket
  <2>3. QED BY <2>1, <2>2
<1>4. QED BY <1>1, <1>2, <1>3 DEF IndInv

LEMMA ObserveInv == ASSUME IndInv, NEW r \in Request, Observe(r) PROVE IndInv'
<1>1. ~ Contains(pending, r)
  BY DEF IndInv, TypeOK, TicketIsSomewhere, Observe
<1>2. QED BY <1>1, DropKeeps DEF Observe, IndInv, TypeOK, TicketIsSomewhere

LEMMA CancelInv == ASSUME IndInv, NEW r \in Request, Cancel(r) PROVE IndInv'
<1>1. pending \in Seq(Request) /\ NoRepeats(pending)
  BY DEF IndInv, TypeOK, TicketIsSomewhere
<1>2. CASE r \in granted
  <2>1. ~ Contains(pending, r)
    BY <1>2 DEF IndInv, TicketIsSomewhere
  <2>2. QED BY <1>1, <1>2, <2>1, DropKeeps DEF Cancel
<1>3. CASE r \notin granted
  <2>1. PICK i \in 1 .. Len(pending) :
          pending[i] = r /\ pending' = RemoveAt(pending, i)
    BY <1>3 DEF Cancel
  <2>2. pending # <<>>
    BY <1>1, <2>1
  <2>3. QED BY <1>1, <2>1, <2>2, RemoveFacts, DropKeeps DEF Cancel
<1>4. QED BY <1>2, <1>3

(* One step of a dispatcher.                                               *)
LEMMA GrantInv == ASSUME IndInv, NEW d \in Dispatcher, Grant(d) PROVE IndInv'
<1>1. /\ pending \in Seq(Request) /\ NoRepeats(pending)
      /\ dpc[d] \in {"top", "idle"} /\ d = latest
  BY DEF IndInv, TypeOK, TicketIsSomewhere, Grant, MayGrant
<1>2. PICK n \in 1 .. Len(pending) :
        LET cohort == {pending[i] : i \in 1 .. n}
        IN  /\ pending' = SubSeq(pending, n + 1, Len(pending))
            /\ granted' = granted \cup cohort
            /\ tickets' = [tickets EXCEPT ![d] = cohort]
  BY DEF Grant
<1> DEFINE cohort == {pending[i] : i \in 1 .. n}
<1>3. /\ pending' \in Seq(Request) /\ NoRepeats(pending') /\ cohort \subseteq Request
      /\ \A x : Contains(pending', x) <=> (Contains(pending, x) /\ x \notin cohort)
      /\ \A x \in cohort : Contains(pending, x)
  BY <1>1, <1>2, CohortFacts
<1>4. granted' = granted \cup cohort /\ tickets' = [tickets EXCEPT ![d] = cohort]
  BY <1>2
<1> HIDE DEF cohort
<1>5. dpc' = [dpc EXCEPT ![d] = "notifying"]
  BY DEF Grant, Goto
<1>6. TypeOK'
  <2>1. tickets' \in [Dispatcher -> SUBSET granted']
    BY <1>4 DEF IndInv, TypeOK
  <2>2. QED BY <1>3, <1>4, <1>5, <2>1 DEF IndInv, TypeOK, Grant
<1>7. QueueHasDispatcher'
  BY <1>1, <1>5 DEF IndInv, TypeOK, QueueHasDispatcher, Alive, Grant
<1>8. TicketIsSomewhere'
  <2> SUFFICES ASSUME NEW s \in Request
               PROVE  /\ (pc'[s] = "waiting") <=> (Contains(pending', s) \/ s \in granted')
                      /\ ~ (Contains(pending', s) /\ s \in granted')
                      /\ s \in granted' => (HeldByDispatcher(s)' \/ s \in woken')
    BY <1>3 DEF TicketIsSomewhere
  <2>1. s \in cohort => HeldByDispatcher(s)'
    BY <1>4, <1>5 DEF IndInv, TypeOK, HeldByDispatcher
  <2>2. HeldByDispatcher(s) => HeldByDispatcher(s)'
    BY <1>1, <1>4, <1>5 DEF IndInv, TypeOK, HeldByDispatcher
  <2>3. QED BY <1>3, <1>4, <2>1, <2>2 DEF IndInv, TicketIsSomewhere, Grant
<1>9. QED BY <1>6, <1>7, <1>8 DEF IndInv

LEMMA NotifyInv == ASSUME IndInv, NEW d \in Dispatcher, Notify(d) PROVE IndInv'
<1>1. CASE tickets[d] = {} /\ Goto(d, "top") /\ UNCHANGED <<woken, tickets>>
  <2>1. TypeOK'
    BY <1>1 DEF IndInv, TypeOK, Notify, Goto
  <2>2. QueueHasDispatcher'
    BY <1>1 DEF IndInv, TypeOK, QueueHasDispatcher, Alive, Notify, Goto
  <2>3. \A s : HeldByDispatcher(s) => HeldByDispatcher(s)'
    BY <1>1 DEF IndInv, TypeOK, HeldByDispatcher, Goto
  <2>4. TicketIsSomewhere'
    BY <1>1, <2>3 DEF IndInv, TicketIsSomewhere, Notify
  <2>5. QED BY <2>1, <2>2, <2>4 DEF IndInv
<1>2. ASSUME NEW r \in tickets[d], woken' = woken \cup {r},
             tickets' = [tickets EXCEPT ![d] = @ \ {r}], UNCHANGED dpc
      PROVE  IndInv'
  <2>1. TypeOK'
    <3>1. r \in granted /\ tickets' \in [Dispatcher -> SUBSET granted]
      BY <1>2 DEF IndInv, TypeOK
    <3>2. QED BY <1>2, <3>1 DEF IndInv, TypeOK, Notify
  <2>2. QueueHasDispatcher'
    BY <1>2 DEF IndInv, QueueHasDispatcher, Alive, Notify
  <2>3. \A s : HeldByDispatcher(s) => HeldByDispatcher(s)' \/ s = r
    BY <1>2 DEF IndInv, TypeOK, HeldByDispatcher
  <2>4. TicketIsSomewhere'
    BY <1>2, <2>3 DEF IndInv, TicketIsSomewhere, Notify
  <2>5. QED BY <2>1, <2>2, <2>4 DEF IndInv
<1>3. QED BY <1>1, <1>2 DEF Notify

LEMMA LeaveInv == ASSUME IndInv, NEW d \in Dispatcher, Leave(d) PROVE IndInv'
<1> DEFINE gone == [dpc EXCEPT ![d] = "dead"]
<1>1. /\ gone \in [Dispatcher -> Label] /\ dpc[d] = "leaving" /\ latest \in Dispatcher
      /\ \A e \in Dispatcher : dpc[e] = "notifying" => gone[e] = "notifying"
      /\ UNCHANGED <<queue, due, tickets, watchdog, stuck, faults>>
  BY DEF IndInv, TypeOK, Leave, Label
<1>2. /\ latest' \in Dispatcher /\ dpc' \in [Dispatcher -> Label] /\ quiet' \in BOOLEAN
      /\ pending # <<>> => dpc'[latest'] # "dead"
      /\ \A e \in Dispatcher : dpc[e] = "notifying" => dpc'[e] = "notifying"
  <2>1. CASE d = latest /\ pending # <<>>
    <3>1. Start(gone)
      BY <2>1 DEF Leave
    <3> HIDE DEF gone
    <3>2. QED BY <1>1, <3>1, StartFacts
  <2>2. CASE ~ (d = latest /\ pending # <<>>)
    <3>1. dpc' = gone /\ UNCHANGED <<latest, quiet>>
      BY <2>2 DEF Leave
    <3>2. pending # <<>> => gone[latest] # "dead"
      BY <1>1, <2>2 DEF IndInv, TypeOK, QueueHasDispatcher, Alive
    <3>3. QED BY <1>1, <3>1, <3>2 DEF IndInv, TypeOK
  <2>3. QED BY <2>1, <2>2
<1>3. TypeOK'
  BY <1>1, <1>2 DEF IndInv, TypeOK, queue, Label
<1>4. QueueHasDispatcher'
  BY <1>1, <1>2 DEF QueueHasDispatcher, Alive, queue
<1>5. TicketIsSomewhere'
  BY <1>1, <1>2, ThreadsKeepTickets
<1>6. QED BY <1>3, <1>4, <1>5 DEF IndInv

(* A step that touches neither the tickets nor the threads.                *)
LEMMA QuietKeeps ==
  ASSUME IndInv, UNCHANGED <<queue, threads, tickets>>,
         due' \in BOOLEAN, quiet' \in BOOLEAN,
         watchdog' \in {"none", "watching", "returned"},
         stuck' \subseteq Dispatcher, faults' \in 0 .. MaxFaults
  PROVE  IndInv'
<1>1. TypeOK' /\ QueueHasDispatcher'
  BY DEF IndInv, TypeOK, QueueHasDispatcher, Alive, queue, threads
<1>2. TicketIsSomewhere'
  BY ThreadsKeepTickets DEF threads
<1>3. QED BY <1>1, <1>2 DEF IndInv

LEMMA DispatcherInv ==
  ASSUME DispatchAssumption, IndInv, NEW d \in Dispatcher, DispatcherStep(d)
  PROVE  IndInv'
<1>1. faults \in 0 .. MaxFaults /\ (faults < MaxFaults => faults + 1 \in 0 .. MaxFaults)
  BY DispatchAssumption DEF IndInv, TypeOK
<1>2. CASE Retire(d)
  BY <1>1, <1>2, GotoKeeps DEF Retire, DispatcherOnly
<1>3. CASE Rest(d)
  BY <1>1, <1>3, GotoKeeps DEF Rest, DispatcherOnly
<1>4. CASE IdleTimeout(d)
  BY <1>1, <1>4, GotoKeeps DEF IdleTimeout, DispatcherOnly
<1>5. CASE Resume(d)
  BY <1>1, <1>5, GotoKeeps DEF Resume, DispatcherOnly
<1>6. CASE Crash(d)
  BY <1>1, <1>6, GotoKeeps DEF Crash, MayGrant
<1>7. CASE Stall(d)
  BY <1>1, <1>7, QuietKeeps DEF Stall, IndInv, TypeOK
<1>8. QED
  BY <1>2, <1>3, <1>4, <1>5, <1>6, <1>7, GrantInv, NotifyInv, LeaveInv DEF DispatcherStep

(* One step of the watchdog.                                               *)
LEMMA WatchInv == ASSUME IndInv, WatchLook PROVE IndInv'
<1>1. CASE pending = <<>>
  BY <1>1, QuietKeeps DEF WatchLook, IndInv, TypeOK
<1>2. CASE pending # <<>>
  <2>1. EnsureThread(pending) /\ UNCHANGED <<queue, due, tickets, watchdog, stuck, faults>>
    BY <1>2 DEF WatchLook
  <2>2. TypeOK'
    BY <2>1, EnsureThreadFacts DEF IndInv, TypeOK, queue, Label
  <2>3. QueueHasDispatcher'
    BY <2>1, EnsureThreadFacts DEF QueueHasDispatcher, Alive
  <2>4. TicketIsSomewhere'
    BY <2>1, EnsureThreadFacts, ThreadsKeepTickets
  <2>5. QED BY <2>2, <2>3, <2>4 DEF IndInv
<1>3. QED BY <1>1, <1>2

LEMMA NextInv == ASSUME DispatchAssumption, IndInv, [Next]_vars PROVE IndInv'
<1>1. ASSUME NEW r \in Request, Immediate(r) PROVE IndInv'
  BY <1>1, QuietKeeps DEF Immediate, IndInv, TypeOK
<1>2. ASSUME NEW d \in Dispatcher, Revive(d) PROVE IndInv'
  BY <1>2, QuietKeeps DEF Revive, IndInv, TypeOK
<1>3. CASE WatchDies
  BY <1>3, QuietKeeps DEF WatchDies, IndInv, TypeOK
<1>4. CASE PermitDue
  BY <1>4, QuietKeeps DEF PermitDue, IndInv, TypeOK
<1>5. CASE FiveSeconds
  BY <1>5, QuietKeeps DEF FiveSeconds, IndInv, TypeOK
<1>6. CASE UNCHANGED vars
  BY <1>6, QuietKeeps DEF vars, queue, threads, IndInv, TypeOK
<1>7. QED
  BY <1>1, <1>2, <1>3, <1>4, <1>5, <1>6, EnqueueInv, ObserveInv, CancelInv,
     DispatcherInv, WatchInv
  DEF Next

-----------------------------------------------------------------------------
(* The invariants hold together in every reachable state.                  *)
THEOREM DispatchInvariant == Spec => []IndInv
<1>1. Init => IndInv
  <2> SUFFICES ASSUME Init PROVE IndInv
    OBVIOUS
  <2>1. TypeOK
    BY DispatchAssumption DEF Init, TypeOK
  <2>2. QueueHasDispatcher
    BY DEF Init, QueueHasDispatcher
  <2>3. TicketIsSomewhere
    BY DEF Init, TicketIsSomewhere, NoRepeats, Contains
  <2>4. QED BY <2>1, <2>2, <2>3 DEF IndInv
<1>2. IndInv /\ [Next]_vars => IndInv'
  BY NextInv, DispatchAssumption
<1>3. QED BY <1>1, <1>2, PTL DEF Spec

(* Every variable has its type: only granted tickets are woken or held by  *)
(* a dispatcher, and the queue holds requests.                             *)
THEOREM DispatchTypes == Spec => []TypeOK
<1>1. IndInv => TypeOK
  BY DEF IndInv
<1>2. QED BY <1>1, DispatchInvariant, PTL

(* A queue is never left without a live newest dispatcher, however         *)
(* dispatchers leave, crash and replace each other.                        *)
THEOREM QueueIsServed == Spec => []QueueHasDispatcher
<1>1. IndInv => QueueHasDispatcher
  BY DEF IndInv
<1>2. QED BY <1>1, DispatchInvariant, PTL

(* wait's tickets are neither lost nor left behind by any order of grants, *)
(* cancellations, replacements and late notifications.                     *)
THEOREM NoTicketLost == Spec => []TicketIsSomewhere
<1>1. IndInv => TicketIsSomewhere
  BY DEF IndInv
<1>2. QED BY <1>1, DispatchInvariant, PTL

(* A dispatcher that was replaced never grants again.                      *)
THEOREM PredecessorsDoNotGrant == Spec => OnlyNewestGrants
<1> DEFINE OK == \A d \in Dispatcher :
                   dpc[d] # "notifying" /\ dpc'[d] = "notifying" => d = latest
<1>1. IndInv /\ [Next]_vars => [OK]_vars
  <2> SUFFICES ASSUME IndInv, Next, NEW e \in Dispatcher,
                      dpc[e] # "notifying", dpc'[e] = "notifying"
               PROVE  e = latest
    OBVIOUS
  <2>1. dpc \in [Dispatcher -> Label]
    BY DEF IndInv, TypeOK, Label
  <2>2. \A others \in [Dispatcher -> Label] :
          Start(others) => dpc'[e] = others[e] \/ dpc'[e] = "top"
    BY DEF Start
  <2>3. ASSUME NEW q, EnsureThread(q) PROVE FALSE
    BY <2>1, <2>2, <2>3 DEF EnsureThread, threads
  <2>4. ASSUME NEW d \in Dispatcher, Leave(d) PROVE FALSE
    <3>1. [dpc EXCEPT ![d] = "dead"] \in [Dispatcher -> Label]
      BY <2>1 DEF Label
    <3>2. QED BY <2>1, <2>2, <2>4, <3>1 DEF Leave
  <2>5. ASSUME NEW d \in Dispatcher, DispatcherStep(d), ~ Leave(d) PROVE e = latest
    BY <2>1, <2>5
    DEF DispatcherStep, Retire, Rest, IdleTimeout, Resume, Grant, MayGrant, Notify, Crash,
        Stall, Goto, threads
  <2>6. CASE WatchLook
    BY <2>3, <2>6 DEF WatchLook, threads
  <2>7. ASSUME NEW r \in Request, Immediate(r) \/ Enqueue(r) \/ Observe(r) \/ Cancel(r)
        PROVE  FALSE
    BY <2>3, <2>7 DEF Immediate, Enqueue, Observe, Cancel, threads
  <2>8. QED
    BY <2>3, <2>4, <2>5, <2>6, <2>7
    DEF Next, Revive, WatchDies, PermitDue, FiveSeconds, threads
<1>2. QED BY <1>1, DispatchInvariant, PTL DEF Spec, OnlyNewestGrants
-----------------------------------------------------------------------------
(* Admission of requests (FairAdmission, as the instance Admission of      *)
(* MC_FairAdmission).                                                      *)

(* A set of natural numbers has a least one.                               *)
LEMMA LeastNumber ==
  ASSUME NEW S \in SUBSET Nat, S # {}
  PROVE  \E m \in S : \A k \in S : m <= k
<1> DEFINE T == {0 .. n : n \in S}
<1>1. T \in SUBSET FiniteSubsetsOf(Nat) /\ T # {}
  <2>1. \A n \in S : 0 .. n \in SUBSET Nat /\ IsFiniteSet(0 .. n)
    BY FS_Interval
  <2>2. QED BY <2>1 DEF FiniteSubsetsOf
<1>2. PICK t \in T : \A u \in T : ~ (<<u, t>> \in StrictSubsetOrdering(Nat))
  BY <1>1, FS_StrictSubsetOrderingWellFounded, WFMin, Zenon
<1>3. PICK m \in S : t = 0 .. m
  OBVIOUS
<1>4. ASSUME NEW k \in S, k < m PROVE FALSE
  <2>1. 0 .. k \in T /\ (0 .. k) \subseteq (0 .. m) /\ m \in 0 .. m /\ m \notin 0 .. k
    BY <1>4
  <2>2. <<0 .. k, t>> \in StrictSubsetOrdering(Nat)
    BY <1>3, <2>1 DEF StrictSubsetOrdering
  <2>3. QED BY <1>2, <2>1, <2>2
<1>5. QED BY <1>4

(* What holds of 0, and of a number if of the one before it, holds of all. *)
LEMMA Numbers ==
  ASSUME NEW N \in Nat, NEW S \in SUBSET (0 .. N), 0 \in S,
         \A k \in 1 .. N : k - 1 \in S => k \in S
  PROVE  S = 0 .. N
<1>1. SUFFICES ASSUME (0 .. N) \ S # {} PROVE FALSE
  OBVIOUS
<1>2. PICK m \in (0 .. N) \ S : \A k \in (0 .. N) \ S : m <= k
  <2>1. (0 .. N) \ S \in SUBSET Nat
    OBVIOUS
  <2> DEFINE T == (0 .. N) \ S
  <2> HIDE DEF T
  <2>2. \E m \in T : \A k \in T : m <= k
    BY <1>1, <2>1, LeastNumber DEF T
  <2>3. QED BY <2>2 DEF T
<1>3. m \in 1 .. N /\ m - 1 \in S
  BY <1>2
<1>4. QED BY <1>2, <1>3

(* A function that is defined by recursion is what its equation says: at 0 *)
(* it is base, and step makes the next value of the one before.            *)
Iterates(N, V, base, step) ==
  \E f \in [0 .. N -> V] :
    f[0] = base /\ \A n \in 1 .. N : f[n] = step[<<n, f[n - 1]>>]

LEMMA Recursion ==
  ASSUME NEW N \in Nat, NEW V, NEW base \in V, NEW step \in [Nat \X V -> V]
  PROVE  Iterates(N, V, base, step)
<1> DEFINE Follows(f, k) ==
             f \in [0 .. k -> V] /\ f[0] = base /\ \A n \in 1 .. k : f[n] = step[<<n, f[n - 1]>>]
           S == {k \in 0 .. N : \E f \in [0 .. k -> V] : Follows(f, k)}
<1>1. 0 \in S
  <2> DEFINE g == [n \in 0 .. 0 |-> base]
  <2>1. g \in [0 .. 0 -> V] /\ Follows(g, 0)
    OBVIOUS
  <2> HIDE DEF Follows, g
  <2>2. 0 \in 0 .. N
    OBVIOUS
  <2>3. QED BY <2>1, <2>2
<1>2. ASSUME NEW k \in 1 .. N, k - 1 \in S PROVE k \in S
  <2>1. PICK f \in [0 .. k - 1 -> V] : Follows(f, k - 1)
    BY <1>2
  <2> DEFINE last == step[<<k, f[k - 1]>>]
             g == [n \in 0 .. k |-> IF n = k THEN last ELSE f[n]]
  <2>2. k \in Nat /\ k \in 0 .. N /\ last \in V
    BY <1>2, <2>1
  <2>3. /\ f[0] = base /\ \A n \in 0 .. k - 1 : f[n] \in V
        /\ \A n \in 1 .. k - 1 : f[n] = step[<<n, f[n - 1]>>]
    BY <2>1, <2>2
  <2> HIDE DEF last
  <2>4. g \in [0 .. k -> V] /\ g[0] = base
    BY <1>2, <2>2, <2>3
  <2>5. /\ \A n \in 0 .. k - 1 : g[n] = f[n]
        /\ g[k] = last
    BY <2>2
  <2> HIDE DEF g
  <2>6. \A n \in 1 .. k : g[n] = step[<<n, g[n - 1]>>]
    <3>1. ASSUME NEW n \in 1 .. k - 1 PROVE g[n] = step[<<n, g[n - 1]>>]
      <4>1. n \in 0 .. k - 1 /\ n - 1 \in 0 .. k - 1
        BY <2>2
      <4>2. QED BY <2>3, <2>5, <4>1
    <3>2. g[k] = step[<<k, g[k - 1]>>]
      <4>1. k - 1 \in 0 .. k - 1
        BY <1>2
      <4>2. QED BY <2>5, <4>1 DEF last
    <3>3. \A n \in 1 .. k : n = k \/ n \in 1 .. k - 1
      BY <2>2
    <3>4. QED BY <3>1, <3>2, <3>3
  <2>7. Follows(g, k)
    BY <2>4, <2>6
  <2> HIDE DEF Follows
  <2>8. QED BY <2>2, <2>4, <2>7
<1>3. N \in S
  <2>1. S \in SUBSET (0 .. N)
    OBVIOUS
  <2> HIDE DEF S
  <2>2. QED BY <1>1, <1>2, <2>1, Numbers
<1>4. PICK f \in [0 .. N -> V] : Follows(f, N)
  BY <1>3
<1> HIDE DEF S
<1>5. QED BY <1>4 DEF Follows, Iterates

LEMMA BytesFacts ==
  ASSUME Admission!AdmissionAssumption, NEW q \in Seq(Client)
  PROVE  /\ Admission!Bytes(q) \in [0 .. Len(q) -> Nat]
         /\ Admission!Bytes(q)[0] = 0
         /\ \A n \in 1 .. Len(q) :
              Admission!Bytes(q)[n] = Admission!Bytes(q)[n - 1] + Weight[q[n]]
<1> DEFINE step == [x \in Nat \X Nat |-> x[2] + (IF x[1] \in 1 .. Len(q) THEN Weight[q[x[1]]] ELSE 0)]
           Sum(f) == f = [n \in 0 .. Len(q) |-> IF n = 0 THEN 0 ELSE f[n - 1] + Weight[q[n]]]
<1>1. Len(q) \in Nat /\ \A n \in 1 .. Len(q) : Weight[q[n]] \in Nat
  BY DEF Admission!AdmissionAssumption
<1>2. step \in [Nat \X Nat -> Nat]
  BY <1>1
<1> HIDE DEF step
<1>3. PICK f \in [0 .. Len(q) -> Nat] :
        f[0] = 0 /\ \A n \in 1 .. Len(q) : f[n] = step[<<n, f[n - 1]>>]
  <2>1. Iterates(Len(q), Nat, 0, step)
    BY <1>1, <1>2, Recursion
  <2>2. QED BY <2>1 DEF Iterates
<1>4. \A n \in 1 .. Len(q) : step[<<n, f[n - 1]>>] = f[n - 1] + Weight[q[n]]
  <2>1. f \in [0 .. Len(q) -> Nat]
    BY <1>3
  <2>2. ASSUME NEW n \in 1 .. Len(q) PROVE step[<<n, f[n - 1]>>] = f[n - 1] + Weight[q[n]]
    <3>1. n \in Nat /\ n - 1 \in 0 .. Len(q)
      BY <1>1
    <3>2. f[n - 1] \in Nat
      BY <2>1, <3>1
    <3>3. <<n, f[n - 1]>> \in Nat \X Nat
      BY <3>1, <3>2
    <3>4. QED BY <3>3 DEF step
  <2>3. QED BY <2>2
<1>5. Sum(f)
  <2>1. \A n \in 0 .. Len(q) : n = 0 \/ n \in 1 .. Len(q)
    BY <1>1
  <2>2. f = [n \in 0 .. Len(q) |-> f[n]]
    BY <1>3
  <2>3. \A n \in 0 .. Len(q) : f[n] = IF n = 0 THEN 0 ELSE f[n - 1] + Weight[q[n]]
    BY <1>3, <1>4, <2>1
  <2>4. QED BY <2>2, <2>3
<1>6. Admission!Bytes(q) = CHOOSE g : Sum(g)
  BY DEF Admission!Bytes
<1>7. Sum(Admission!Bytes(q))
  BY <1>5, <1>6
<1> DEFINE B == Admission!Bytes(q)
<1> HIDE DEF B, step
<1>8. /\ B = [n \in 0 .. Len(q) |-> IF n = 0 THEN 0 ELSE B[n - 1] + Weight[q[n]]]
  BY <1>7 DEF B
<1>9. B[0] = 0 /\ \A n \in 1 .. Len(q) : B[n] = B[n - 1] + Weight[q[n]]
  BY <1>1, <1>8
<1> DEFINE S == {n \in 0 .. Len(q) : B[n] \in Nat}
<1>10. S = 0 .. Len(q)
  <2>1. /\ S \in SUBSET (0 .. Len(q)) /\ 0 \in S
        /\ \A n \in 1 .. Len(q) : n - 1 \in S => n \in S
    <3>1. ASSUME NEW n \in 1 .. Len(q), n - 1 \in S PROVE n \in S
      <4>1. n \in 0 .. Len(q) /\ B[n - 1] \in Nat /\ B[n] = B[n - 1] + Weight[q[n]]
        BY <1>1, <1>9, <3>1
      <4>2. QED BY <1>1, <4>1
    <3>2. QED BY <1>1, <1>9, <3>1
  <2> HIDE DEF S
  <2>2. QED BY <1>1, <2>1, Numbers
<1>11. B \in [0 .. Len(q) -> Nat]
  BY <1>8, <1>10
<1>12. QED BY <1>9, <1>11 DEF B

(* One turn of the loop of _grant, for the grants n of the turns before.   *)
Served(lim, q, act, lanes, n) ==
  Admission!NextLane(lim, [l \in Admission!Lane |-> Len(q[l]) - n[l]],
                     act + n["ecot"] + n["grd"], [l \in Admission!Lane |-> lanes[l] + n[l]])
Turn(lim, q, act, lanes, n) ==
  [l \in Admission!Lane |-> IF l \in Served(lim, q, act, lanes, n) THEN n[l] + 1 ELSE n[l]]

(* The lane that is served has a request waiting.  Nobody is served if the *)
(* slots are taken, or if nobody waits but ecot at its ceiling.  Ecot is   *)
(* served below its share while grd waits.                                 *)
ServedWell(lim, q, act, lanes, n) ==
  LET served == Served(lim, q, act, lanes, n)
  IN  /\ served \in {{}, {"ecot"}, {"grd"}}
      /\ \A l \in served : Len(q[l]) > n[l]
      /\ served = {} => \/ act + n["ecot"] + n["grd"] >= lim.http
                        \/ /\ Len(q["grd"]) <= n["grd"]
                           /\ \/ Len(q["ecot"]) <= n["ecot"]
                              \/ lanes["ecot"] + n["ecot"] >= Admission!EcotCeiling(lim)
      /\ served = {"ecot"} => \/ Len(q["grd"]) <= n["grd"]
                              \/ lanes["ecot"] + n["ecot"] < Admission!EcotShare(lim)

LEMMA ServedFacts ==
  ASSUME Admission!AdmissionAssumption, NEW lim \in Limits,
         NEW q \in [Admission!Lane -> Seq(Client)], NEW act \in Nat,
         NEW lanes \in [Admission!Lane -> Int], NEW n \in [Admission!Lane -> Nat],
         \A l \in Admission!Lane : n[l] <= Len(q[l])
  PROVE  ServedWell(lim, q, act, lanes, n)
<1> DEFINE waiting == [l \in Admission!Lane |-> Len(q[l]) - n[l]]
           total == act + n["ecot"] + n["grd"]
           counts == [l \in Admission!Lane |-> lanes[l] + n[l]]
           served == Served(lim, q, act, lanes, n)
<1>1. /\ lim.http \in Nat /\ lim.http > 0 /\ lim.ecot \in 1 .. lim.http
      /\ \A l \in Admission!Lane : Len(q[l]) \in Nat /\ n[l] \in Nat /\ lanes[l] \in Int
      /\ "ecot" \in Admission!Lane /\ "grd" \in Admission!Lane
  BY DEF Admission!AdmissionAssumption, Admission!Lane
<1>2. Admission!EcotCeiling(lim) \in Int
  BY <1>1 DEF Admission!EcotCeiling, Admission!Min
<1>3. /\ waiting["ecot"] = Len(q["ecot"]) - n["ecot"] /\ waiting["grd"] = Len(q["grd"]) - n["grd"]
      /\ counts["ecot"] = lanes["ecot"] + n["ecot"] /\ total \in Nat
  BY <1>1
<1>4. served = Admission!NextLane(lim, waiting, total, counts)
  BY DEF Served
<1> HIDE DEF waiting, total, counts, served
<1> DEFINE good ==
             /\ served \in {{}, {"ecot"}, {"grd"}}
             /\ \A l \in served : Len(q[l]) > n[l]
             /\ served = {} => \/ total >= lim.http
                               \/ /\ Len(q["grd"]) <= n["grd"]
                                  /\ \/ Len(q["ecot"]) <= n["ecot"]
                                     \/ counts["ecot"] >= Admission!EcotCeiling(lim)
             /\ served = {"ecot"} => \/ Len(q["grd"]) <= n["grd"]
                                     \/ counts["ecot"] < Admission!EcotShare(lim)
<1>5. ASSUME total >= lim.http PROVE good
  <2>1. served = {}
    BY <1>4, <1>5 DEF Admission!NextLane
  <2>2. QED BY <1>5, <2>1
<1>6. ASSUME total < lim.http PROVE good
  <2> DEFINE first == /\ waiting["ecot"] > 0 /\ counts["ecot"] < Admission!EcotCeiling(lim)
                      /\ (waiting["grd"] = 0 \/ counts["ecot"] < Admission!EcotShare(lim))
             rest == {l \in {"grd"} : waiting[l] > 0}
  <2>1. served = IF first THEN {"ecot"} ELSE rest
    BY <1>1, <1>3, <1>4, <1>6 DEF Admission!NextLane
  <2>2. rest = IF waiting["grd"] > 0 THEN {"grd"} ELSE {}
    OBVIOUS
  <2>3. "ecot" # "grd" /\ {"ecot"} # {"grd"} /\ {"ecot"} # {} /\ {"grd"} # {}
    OBVIOUS
  <2>4. CASE first
    <3>1. served = {"ecot"} /\ waiting["ecot"] > 0
      BY <2>1, <2>4
    <3>2. waiting["grd"] = 0 \/ counts["ecot"] < Admission!EcotShare(lim)
      BY <2>4
    <3> HIDE DEF first, rest
    <3>3. QED BY <1>1, <1>3, <2>3, <3>1, <3>2
  <2>5. CASE ~ first /\ waiting["grd"] > 0
    <3>1. served = {"grd"}
      BY <2>1, <2>2, <2>5
    <3>2. Len(q["grd"]) > n["grd"]
      BY <1>1, <1>3, <2>5
    <3> HIDE DEF first, rest
    <3>3. QED BY <2>3, <3>1, <3>2
  <2>6. CASE ~ first /\ ~ waiting["grd"] > 0
    <3>1. served = {}
      BY <2>1, <2>2, <2>6
    <3>2. Len(q["grd"]) <= n["grd"]
      BY <1>1, <1>3, <2>6
    <3> waiting["grd"] = 0
      BY <1>1, <1>3, <3>2
    <3>3. \/ Len(q["ecot"]) <= n["ecot"]
          \/ counts["ecot"] >= Admission!EcotCeiling(lim)
      BY <1>1, <1>2, <1>3, <2>6
    <3> HIDE DEF first, rest
    <3>4. QED BY <2>3, <3>1, <3>2, <3>3
  <2>7. QED BY <2>4, <2>5, <2>6
<1>7. good
  BY <1>1, <1>3, <1>5, <1>6, SMTT(20)
<1>8. QED BY <1>3, <1>7 DEF ServedWell, served, total

(* What the loop keeps from turn to turn: it has granted one request per   *)
(* turn, or grants nobody any more; and while grd waits, what ecot got was *)
(* within its share.                                                       *)
AfterTurn(t, lim, q, act, lanes, n) ==
  /\ n \in [Admission!Lane -> Nat] /\ \A l \in Admission!Lane : n[l] <= Len(q[l])
  /\ n["ecot"] + n["grd"] = t \/ Served(lim, q, act, lanes, n) = {}
  /\ n["ecot"] > 0 /\ Len(q["grd"]) > n["grd"] =>
       lanes["ecot"] + n["ecot"] <= Admission!EcotShare(lim)

LEMMA TurnKeeps ==
  ASSUME Admission!AdmissionAssumption, NEW lim \in Limits,
         NEW q \in [Admission!Lane -> Seq(Client)], NEW act \in Nat,
         NEW lanes \in [Admission!Lane -> Int], NEW t \in Nat, NEW n,
         AfterTurn(t, lim, q, act, lanes, n)
  PROVE  AfterTurn(t + 1, lim, q, act, lanes, Turn(lim, q, act, lanes, n))
<1> DEFINE served == Served(lim, q, act, lanes, n)
           m == Turn(lim, q, act, lanes, n)
<1>1. /\ n \in [Admission!Lane -> Nat] /\ \A l \in Admission!Lane : n[l] <= Len(q[l])
      /\ n["ecot"] + n["grd"] = t \/ served = {}
      /\ n["ecot"] > 0 /\ Len(q["grd"]) > n["grd"] =>
           lanes["ecot"] + n["ecot"] <= Admission!EcotShare(lim)
  BY DEF AfterTurn
<1>2. /\ served \in {{}, {"ecot"}, {"grd"}} /\ \A l \in served : Len(q[l]) > n[l]
      /\ served = {"ecot"} => \/ Len(q["grd"]) <= n["grd"]
                              \/ lanes["ecot"] + n["ecot"] < Admission!EcotShare(lim)
  BY <1>1, ServedFacts DEF ServedWell
<1>3. m = [l \in Admission!Lane |-> IF l \in served THEN n[l] + 1 ELSE n[l]]
  BY DEF Turn
<1>4. /\ \A l \in Admission!Lane : Len(q[l]) \in Nat /\ n[l] \in Nat /\ lanes[l] \in Int
      /\ "ecot" \in Admission!Lane /\ "grd" \in Admission!Lane
      /\ Admission!Lane = {"ecot", "grd"} /\ "ecot" # "grd"
  BY <1>1 DEF Admission!Lane
<1>5. Admission!EcotShare(lim) \in Int
  <2>1. lim.http \in Nat /\ lim.http \div 4 \in Int
    BY DEF Admission!AdmissionAssumption
  <2> DEFINE quarter == lim.http \div 4
             Tops(x) == x \in {1, quarter} /\ \A y \in {1, quarter} : x >= y
  <2> HIDE DEF quarter
  <2>2. Tops(1) \/ Tops(quarter)
    BY <2>1 DEF quarter
  <2>3. Admission!EcotShare(lim) = CHOOSE x \in {1, quarter} : \A y \in {1, quarter} : x >= y
    BY DEF Admission!EcotShare, Admission!Max, quarter
  <2>4. Admission!EcotShare(lim) \in {1, quarter}
    BY <2>2, <2>3
  <2>5. QED BY <2>1, <2>4 DEF quarter
<1> HIDE DEF served, m
<1>6. m \in [Admission!Lane -> Nat] /\ \A l \in Admission!Lane : m[l] <= Len(q[l])
  BY <1>1, <1>2, <1>3, <1>4
<1>7. CASE served = {}
  <2>1. m = n
    BY <1>1, <1>3, <1>7
  <2>2. QED BY <1>1, <1>7, <2>1 DEF AfterTurn, served, m
<1>8. CASE served = {"ecot"}
  <2>1. m["ecot"] = n["ecot"] + 1 /\ m["grd"] = n["grd"]
    BY <1>3, <1>4, <1>8
  <2>2. m["ecot"] + m["grd"] = t + 1
    BY <1>1, <1>4, <1>8, <2>1
  <2>3. Len(q["grd"]) > m["grd"] => lanes["ecot"] + m["ecot"] <= Admission!EcotShare(lim)
    BY <1>2, <1>4, <1>5, <1>8, <2>1
  <2>4. QED BY <1>6, <2>2, <2>3 DEF AfterTurn, m
<1>9. CASE served = {"grd"}
  <2>1. m["ecot"] = n["ecot"] /\ m["grd"] = n["grd"] + 1
    BY <1>3, <1>4, <1>9
  <2>2. m["ecot"] + m["grd"] = t + 1
    BY <1>1, <1>4, <1>9, <2>1
  <2>3. m["ecot"] > 0 /\ Len(q["grd"]) > m["grd"] =>
          lanes["ecot"] + m["ecot"] <= Admission!EcotShare(lim)
    BY <1>1, <1>4, <1>5, <2>1
  <2>4. QED BY <1>6, <2>2, <2>3 DEF AfterTurn, m
<1>10. QED BY <1>2, <1>7, <1>8, <1>9

(* What the loop has granted when it ends.                                 *)
LEMMA GrantsFacts ==
  ASSUME Admission!AdmissionAssumption, NEW lim \in Limits,
         NEW q \in [Admission!Lane -> Seq(Client)], NEW act \in Nat,
         NEW lanes \in [Admission!Lane -> Int]
  PROVE  AfterTurn(lim.http, lim, q, act, lanes, Admission!NetGrants(lim, q, act, lanes))
<1> DEFINE Grants == [Admission!Lane -> Nat]
           none == [l \in Admission!Lane |-> 0]
           step == [x \in Nat \X Grants |-> Turn(lim, q, act, lanes, x[2])]
           Loop(g) == g = [turn \in 0 .. lim.http |->
                             IF turn = 0 THEN none
                             ELSE Turn(lim, q, act, lanes, g[turn - 1])]
<1>1. lim.http \in Nat /\ none \in Grants
  BY DEF Admission!AdmissionAssumption
<1>2. \A n \in Grants : Turn(lim, q, act, lanes, n) \in Grants
  BY DEF Turn
<1>3. step \in [Nat \X Grants -> Grants]
  BY <1>2
<1> HIDE DEF step, none, Grants
<1>4. PICK g \in [0 .. lim.http -> Grants] :
        g[0] = none /\ \A t \in 1 .. lim.http : g[t] = step[<<t, g[t - 1]>>]
  <2>1. Iterates(lim.http, Grants, none, step)
    BY <1>1, <1>3, Recursion
  <2>2. QED BY <2>1 DEF Iterates
<1>5. \A t \in 1 .. lim.http : g[t] = Turn(lim, q, act, lanes, g[t - 1])
  <2>1. g \in [0 .. lim.http -> Grants]
    BY <1>4
  <2>2. ASSUME NEW t \in 1 .. lim.http
        PROVE  step[<<t, g[t - 1]>>] = Turn(lim, q, act, lanes, g[t - 1])
    <3>1. t \in Nat /\ t - 1 \in 0 .. lim.http
      BY <1>1
    <3>2. <<t, g[t - 1]>> \in Nat \X Grants
      BY <2>1, <3>1
    <3>3. QED BY <3>2 DEF step
  <2>3. QED BY <1>4, <2>2
<1>6. Loop(g)
  <2>1. \A t \in 0 .. lim.http : t = 0 \/ t \in 1 .. lim.http
    BY <1>1
  <2>2. g = [t \in 0 .. lim.http |-> g[t]]
    BY <1>4
  <2>3. \A t \in 0 .. lim.http :
          g[t] = IF t = 0 THEN none ELSE Turn(lim, q, act, lanes, g[t - 1])
    BY <1>4, <1>5, <2>1
  <2>4. QED BY <2>2, <2>3
<1> DEFINE loop == CHOOSE h : Loop(h)
<1>7. Admission!NetGrants(lim, q, act, lanes) = loop[lim.http]
  BY DEF Admission!NetGrants, Turn, Served, none
<1>8. Loop(loop)
  BY <1>6
<1> HIDE DEF loop
<1>9. loop[0] = none /\ \A t \in 1 .. lim.http : loop[t] = Turn(lim, q, act, lanes, loop[t - 1])
  BY <1>1, <1>8
<1> DEFINE S == {t \in 0 .. lim.http : AfterTurn(t, lim, q, act, lanes, loop[t])}
<1>10. 0 \in S
  <2>1. \A l \in Admission!Lane : none[l] = 0 /\ Len(q[l]) \in Nat
    BY DEF none
  <2>2. "ecot" \in Admission!Lane /\ "grd" \in Admission!Lane
    BY DEF Admission!Lane
  <2>3. AfterTurn(0, lim, q, act, lanes, none)
    BY <1>1, <2>1, <2>2 DEF AfterTurn, Grants
  <2>4. QED BY <1>1, <1>9, <2>3
<1>11. ASSUME NEW t \in 1 .. lim.http, t - 1 \in S PROVE t \in S
  <2>1. t - 1 \in Nat /\ t \in 0 .. lim.http /\ (t - 1) + 1 = t
    BY <1>1
  <2>2. AfterTurn(t - 1, lim, q, act, lanes, loop[t - 1])
    BY <1>11
  <2>3. AfterTurn((t - 1) + 1, lim, q, act, lanes, Turn(lim, q, act, lanes, loop[t - 1]))
    BY <2>1, <2>2, TurnKeeps
  <2>4. QED BY <1>9, <2>1, <2>3
<1>12. S \in SUBSET (0 .. lim.http)
  OBVIOUS
<1>13. lim.http \in S
  <2> HIDE DEF S
  <2>1. S = 0 .. lim.http
    BY <1>1, <1>10, <1>11, <1>12, Numbers
  <2>2. QED BY <1>1, <2>1
<1>14. QED BY <1>7, <1>13

LEMMA GreatestNumber ==
  ASSUME NEW N \in Nat, NEW S \in SUBSET (0 .. N), 0 \in S
  PROVE  Admission!Max(S) \in S /\ \A k \in S : k <= Admission!Max(S)
<1> DEFINE B == {u \in 0 .. N : \A k \in S : k <= u}
<1>1. B \in SUBSET Nat /\ B # {}
  <2>1. N \in B
    OBVIOUS
  <2>2. QED BY <2>1
<1>2. PICK m \in B : \A u \in B : m <= u
  <2> HIDE DEF B
  <2>1. QED BY <1>1, LeastNumber
<1>3. m \in S
  <2>1. SUFFICES ASSUME m \notin S PROVE FALSE
    OBVIOUS
  <2>2. m # 0 /\ m - 1 \in 0 .. N /\ \A k \in S : k <= m - 1
    BY <1>2, <2>1
  <2>3. m - 1 \in B
    BY <2>2
  <2>4. QED BY <1>2, <2>3
<1>4. \A k \in S : m >= k
  BY <1>2
<1>5. \E x \in S : \A y \in S : x >= y
  BY <1>3, <1>4
<1>6. Admission!Max(S) \in S /\ \A k \in S : Admission!Max(S) >= k
  BY <1>5 DEF Admission!Max
<1>7. QED BY <1>6

(* As many requests are granted memory as fit, and no more.                *)
LEMMA MemGrantsFacts ==
  ASSUME Admission!AdmissionAssumption, NEW l \in Admission!Lane, NEW q \in Seq(Client),
         NEW count \in Int, NEW bytes \in Int,
         count <= MemorySlots[l], bytes <= Budget[l]
  PROVE  LET n == Admission!MemGrants(l, q, count, bytes)
             b == Admission!Bytes(q)[n]
         IN  /\ n \in 0 .. Len(q) /\ b \in Nat
             /\ count + n <= MemorySlots[l] /\ bytes + b <= Budget[l]
             /\ n < Len(q) => \/ count + n = MemorySlots[l]
                              \/ bytes + b + Weight[q[n + 1]] > Budget[l]
<1> DEFINE B == Admission!Bytes(q)
           n == Admission!MemGrants(l, q, count, bytes)
           fits(i) == count + i <= MemorySlots[l] /\ bytes + B[i] <= Budget[l]
           S == {0} \cup {i \in 1 .. Len(q) : fits(i)}
<1>1. /\ MemorySlots[l] \in Nat /\ Budget[l] \in Nat /\ Len(q) \in Nat
      /\ \A i \in 1 .. Len(q) : Weight[q[i]] \in Nat
  BY DEF Admission!AdmissionAssumption
<1>2. /\ \A i \in 0 .. Len(q) : B[i] \in Nat
      /\ B[0] = 0 /\ \A i \in 1 .. Len(q) : B[i] = B[i - 1] + Weight[q[i]]
  BY <1>1, BytesFacts
<1>3. n = Admission!Max(S)
  BY DEF Admission!MemGrants
<1> HIDE DEF B, n
<1>4. S \in SUBSET (0 .. Len(q)) /\ 0 \in S
  BY <1>1
<1>5. n \in S /\ \A i \in S : i <= n
  <2> HIDE DEF S
  <2>1. QED BY <1>1, <1>3, <1>4, GreatestNumber
<1>6. n \in 0 .. Len(q) /\ B[n] \in Nat /\ fits(n)
  BY <1>1, <1>2, <1>4, <1>5
<1>7. ASSUME n < Len(q)
      PROVE  count + n = MemorySlots[l] \/ bytes + B[n] + Weight[q[n + 1]] > Budget[l]
  <2>1. n + 1 \in 1 .. Len(q) /\ n + 1 \notin S
    BY <1>1, <1>5, <1>6, <1>7
  <2>2. ~ fits(n + 1)
    BY <2>1
  <2>3. B[n + 1] = B[n] + Weight[q[n + 1]] /\ Weight[q[n + 1]] \in Nat
    BY <1>1, <1>2, <1>6, <2>1
  <2>4. n \in Nat /\ B[n] \in Nat /\ count + n <= MemorySlots[l]
    BY <1>1, <1>6
  <2>5. \/ ~ count + (n + 1) <= MemorySlots[l]
        \/ ~ bytes + (B[n] + Weight[q[n + 1]]) <= Budget[l]
    BY <2>2, <2>3
  <2> DEFINE w == Weight[q[n + 1]]  b == B[n]  slots == MemorySlots[l]  budget == Budget[l]
  <2>6. w \in Nat /\ b \in Nat /\ slots \in Nat /\ budget \in Nat /\ count + n <= slots
    BY <1>1, <2>3, <2>4
  <2>7. ~ count + (n + 1) <= slots \/ ~ bytes + (b + w) <= budget
    BY <2>5
  <2> HIDE DEF w, b, slots, budget
  <2>8. count + n = slots \/ bytes + b + w > budget
    BY <2>4, <2>6, <2>7
  <2>9. QED BY <2>8 DEF w, b, slots, budget
<1>8. QED BY <1>6, <1>7 DEF B, n

(* Requests that leave a queue from its head.                              *)
LEMMA FirstFacts ==
  ASSUME NEW q \in Seq(Client), NEW n \in 0 .. Len(q), NoRepeats(q)
  PROVE  /\ Admission!Behind(q, n) \in Seq(Client) /\ NoRepeats(Admission!Behind(q, n))
         /\ Len(Admission!Behind(q, n)) = Len(q) - n
         /\ \A i \in 1 .. Len(q) - n : Admission!Behind(q, n)[i] = q[n + i]
         /\ \A c : Contains(Admission!Behind(q, n), c)
                     <=> (Contains(q, c) /\ c \notin Admission!First(q, n))
         /\ Admission!First(q, n) \subseteq Client
         /\ \A c \in Admission!First(q, n) : Contains(q, c)
         /\ IsFiniteSet(Admission!First(q, n)) /\ Cardinality(Admission!First(q, n)) = n
<1> DEFINE rest == Admission!Behind(q, n)
           first == Admission!First(q, n)
<1>1. Len(q) \in Nat /\ \A i \in 1 .. Len(q) : q[i] \in Client
  OBVIOUS
<1>2. rest = SubSeq(q, n + 1, Len(q)) /\ first = {q[i] : i \in 1 .. n}
  BY DEF Admission!Behind, Admission!First
<1>3. /\ rest \in Seq(Client) /\ Len(rest) = Len(q) - n
      /\ \A i \in 1 .. Len(q) - n : rest[i] = q[n + i]
  BY <1>1, <1>2, SubSeqProperties
<1> HIDE DEF rest, first
<1>4. /\ NoRepeats(rest) /\ first \subseteq Client
      /\ \A c \in first : Contains(q, c)
      /\ \A c : Contains(rest, c) <=> (Contains(q, c) /\ c \notin first)
  <2>1. CASE n = 0
    <3>1. first = {} /\ Len(rest) = Len(q) /\ \A i \in 1 .. Len(q) : rest[i] = q[i]
      BY <1>1, <1>2, <1>3, <2>1
    <3>2. QED BY <3>1 DEF NoRepeats, Contains
  <2>2. CASE n \in 1 .. Len(q)
    BY <1>2, <2>2, CohortFacts
  <2>3. QED BY <1>1, <2>1, <2>2
<1>5. IsFiniteSet(first) /\ Cardinality(first) = n
  <2> DEFINE at == [i \in 1 .. n |-> q[i]]
  <2>1. at \in Bijection(1 .. n, first)
    <3>1. at \in [1 .. n -> first]
      BY <1>2
    <3>2. \A i, j \in 1 .. n : at[i] = at[j] => i = j
      BY <1>1 DEF NoRepeats
    <3>3. \A c \in first : \E i \in 1 .. n : at[i] = c
      BY <1>2
    <3> HIDE DEF at
    <3>4. at \in Injection(1 .. n, first)
      BY <3>1, <3>2 DEF Injection, IsInjective
    <3>5. at \in Surjection(1 .. n, first)
      BY <3>1, <3>3 DEF Surjection
    <3>6. QED BY <3>4, <3>5 DEF Bijection
  <2>2. IsFiniteSet(1 .. n) /\ Cardinality(1 .. n) = n
    BY <1>1, FS_Interval
  <2>3. ExistsBijection(1 .. n, first)
    BY <2>1 DEF ExistsBijection
  <2>4. QED BY <2>2, <2>3, FS_Bijection
<1>6. QED BY <1>3, <1>4, <1>5 DEF rest, first

(* A request that leaves a queue from its middle.                          *)
LEMMA RemoveFirstFacts ==
  ASSUME NEW q \in Seq(Client), NEW r \in Client, NoRepeats(q), Contains(q, r)
  PROVE  /\ Admission!RemoveFirst(q, r) \in Seq(Client)
         /\ NoRepeats(Admission!RemoveFirst(q, r))
         /\ \A c : Contains(Admission!RemoveFirst(q, r), c) <=> (Contains(q, c) /\ c # r)
<1> DEFINE I == {i \in 1 .. Len(q) : q[i] = r}
<1>1. PICK k \in 1 .. Len(q) : q[k] = r
  BY DEF Contains
<1>2. I = {k}
  BY <1>1 DEF NoRepeats
<1>3. Admission!RemoveFirst(q, r) = Admission!RemoveAt(q, Admission!Min(I))
  BY <1>1, <1>2 DEF Admission!RemoveFirst, Admission!SelectInSeq
<1>4. Admission!Min(I) = k
  BY <1>2 DEF Admission!Min
<1>5. Admission!RemoveFirst(q, r) = RemoveAt(q, k)
  BY <1>3, <1>4 DEF Admission!RemoveAt, RemoveAt
<1>6. QED BY <1>1, <1>5, RemoveFacts

(* The memory of a lane: who waits for it is in the queue of its lane, and *)
(* who needs it and does not wait holds it.  The counters count who holds. *)
InMemQueue(l, c) == c \in Client /\ LaneOf[c] = l /\ aPc[c] = "reserving" /\ c \notin memHeld

MemoryInv ==
  /\ memQueue \in [Admission!Lane -> Seq(Client)] /\ memHeld \subseteq Inline /\ IsFiniteSet(memHeld)
  /\ memCount \in [Admission!Lane -> Int] /\ memBytes \in [Admission!Lane -> Int]
  /\ \A l \in Admission!Lane :
       /\ NoRepeats(memQueue[l]) /\ \A c : Contains(memQueue[l], c) <=> InMemQueue(l, c)
       /\ memCount[l] = Cardinality(Admission!In(l, memHeld))
       /\ memCount[l] <= MemorySlots[l] /\ memBytes[l] <= Budget[l]
  /\ \A c \in Client :
       /\ c \in memHeld => aPc[c] # "idle"
       /\ aPc[c] = "reserving" => c \in Inline
       /\ c \in Inline /\ aPc[c] \in {"ready", "asking", "sending"} => c \in memHeld

(* The second part of WorkConserving, and the first.                       *)
MemoryConserved ==
  \A l \in Admission!Lane :
    memQueue[l] # <<>> => \/ memCount[l] = MemorySlots[l]
                          \/ memBytes[l] + Weight[Head(memQueue[l])] > Budget[l]
NetworkConserved ==
  active < limit.http =>
    /\ netQueue["grd"] = <<>>
    /\ netQueue["ecot"] # <<>> => byLane["ecot"] >= Admission!EcotCeiling(limit)

(* The network slots: who asks and has none is in the queue of its lane,   *)
(* who sends has one, and the counters count who has one.                  *)
InNetQueue(l, c) == c \in Client /\ LaneOf[c] = l /\ aPc[c] = "asking" /\ c \notin netHeld

NetworkInv ==
  /\ limit \in Limits
  /\ netQueue \in [Admission!Lane -> Seq(Client)] /\ netHeld \subseteq Client /\ IsFiniteSet(netHeld)
  /\ active \in Int /\ byLane \in [Admission!Lane -> Int]
  /\ \A l \in Admission!Lane :
       /\ NoRepeats(netQueue[l]) /\ \A c : Contains(netQueue[l], c) <=> InNetQueue(l, c)
       /\ byLane[l] = Cardinality(Admission!In(l, netHeld))
  /\ active = byLane["ecot"] + byLane["grd"]
  /\ \A c \in Client : /\ c \in netHeld => aPc[c] \in {"asking", "sending"}
                       /\ aPc[c] = "sending" => c \in netHeld

Waypoint == {"idle", "reserving", "ready", "asking", "sending"}

AdmissionInv ==
  /\ aPc \in [Client -> Waypoint]
  /\ MemoryInv /\ MemoryConserved /\ NetworkInv /\ NetworkConserved

(* Requests of a lane that get what they wait for, or give it back.        *)
LEMMA InSize ==
  ASSUME NEW S, IsFiniteSet(S), NEW l
  PROVE  IsFiniteSet(Admission!In(l, S)) /\ Cardinality(Admission!In(l, S)) \in Nat
<1>1. Admission!In(l, S) \in SUBSET S
  BY DEF Admission!In
<1>2. QED BY <1>1, FS_Subset, FS_CardinalityType

LEMMA InGrows ==
  ASSUME NEW S, IsFiniteSet(S), NEW l, NEW T, IsFiniteSet(T), T \cap S = {},
         \A c \in T : LaneOf[c] = l
  PROVE  /\ IsFiniteSet(S \cup T)
         /\ Cardinality(Admission!In(l, S \cup T)) = Cardinality(Admission!In(l, S)) + Cardinality(T)
<1> DEFINE I == Admission!In(l, S)
<1>1. Admission!In(l, S \cup T) = I \cup T /\ I \cap T = {}
  BY DEF Admission!In
<1>2. IsFiniteSet(I) /\ Cardinality(I) \in Nat
  BY InSize
<1> HIDE DEF I
<1>3. IsFiniteSet(S \cup T)
  BY FS_Union
<1>4. Cardinality(I \cup T) = Cardinality(I) + Cardinality(T) - Cardinality(I \cap T)
  BY <1>2, FS_Union
<1>5. Cardinality(I \cap T) = 0
  BY <1>1, FS_EmptySet
<1>6. Cardinality(T) \in Nat
  BY FS_CardinalityType
<1>7. Cardinality(I \cup T) = Cardinality(I) + Cardinality(T)
  BY <1>2, <1>4, <1>5, <1>6
<1>8. QED BY <1>1, <1>3, <1>7 DEF I

LEMMA InIsApart ==
  ASSUME NEW S, NEW l, NEW T, \A c \in T : LaneOf[c] # l
  PROVE  Admission!In(l, S \cup T) = Admission!In(l, S) /\ Admission!In(l, S \ T) = Admission!In(l, S)
BY DEF Admission!In

LEMMA InShrinks ==
  ASSUME NEW S, IsFiniteSet(S), NEW l, NEW r \in S, LaneOf[r] = l
  PROVE  /\ IsFiniteSet(S \ {r})
         /\ Cardinality(Admission!In(l, S \ {r})) = Cardinality(Admission!In(l, S)) - 1
<1>1. IsFiniteSet(S \ {r})
  BY FS_RemoveElement
<1>2. Admission!In(l, S \ {r}) = Admission!In(l, S) \ {r} /\ r \in Admission!In(l, S)
  BY DEF Admission!In
<1>3. IsFiniteSet(Admission!In(l, S))
  BY InSize
<1>4. QED BY <1>1, <1>2, <1>3, FS_RemoveElement

(* A lane whose queue or counters changed settles: it grants what fits.    *)
LEMMA MemorySettles ==
  ASSUME Admission!AdmissionAssumption, MemoryInv, MemoryConserved,
         NEW l \in Admission!Lane, NEW q \in Seq(Client), NEW S, NEW count \in Int, NEW bytes \in Int,
         Admission!MemSettle(l, q, S, count, bytes),
         S \subseteq Inline, IsFiniteSet(S), NoRepeats(q),
         \A c : Contains(q, c) <=> c \in Client /\ LaneOf[c] = l /\ aPc'[c] = "reserving" /\ c \notin S,
         \A c \in Client : LaneOf[c] # l => aPc'[c] = aPc[c] /\ (c \in S <=> c \in memHeld),
         count = Cardinality(Admission!In(l, S)), count <= MemorySlots[l], bytes <= Budget[l],
         \A c \in Client :
           /\ c \in S => aPc'[c] # "idle"
           /\ aPc'[c] = "reserving" => c \in Inline
           /\ c \in Inline /\ aPc'[c] \in {"ready", "asking", "sending"} => c \in S
  PROVE  MemoryInv' /\ MemoryConserved'
<1> DEFINE n == Admission!MemGrants(l, q, count, bytes)
           b == Admission!Bytes(q)[n]
           first == Admission!First(q, n)
           rest == Admission!Behind(q, n)
<1>1. /\ n \in 0 .. Len(q) /\ b \in Nat /\ count + n <= MemorySlots[l] /\ bytes + b <= Budget[l]
      /\ n < Len(q) => \/ count + n = MemorySlots[l]
                       \/ bytes + b + Weight[q[n + 1]] > Budget[l]
  BY MemGrantsFacts
<1>2. /\ memQueue' = [memQueue EXCEPT ![l] = rest] /\ memHeld' = S \cup first
      /\ memCount' = [memCount EXCEPT ![l] = count + n]
      /\ memBytes' = [memBytes EXCEPT ![l] = bytes + b]
  BY DEF Admission!MemSettle
<1> HIDE DEF n
<1>3. /\ rest \in Seq(Client) /\ NoRepeats(rest) /\ Len(rest) = Len(q) - n
      /\ \A i \in 1 .. Len(q) - n : rest[i] = q[n + i]
      /\ \A c : Contains(rest, c) <=> (Contains(q, c) /\ c \notin first)
      /\ first \subseteq Client /\ \A c \in first : Contains(q, c)
  BY <1>1, FirstFacts, ZenonT(30)
<1>4. IsFiniteSet(first) /\ Cardinality(first) = n
  BY <1>1, FirstFacts
<1>5. /\ Inline \subseteq Client /\ LaneOf \in [Client -> Admission!Lane]
  BY DEF Admission!AdmissionAssumption
<1>6. /\ memQueue \in [Admission!Lane -> Seq(Client)]
      /\ memCount \in [Admission!Lane -> Int] /\ memBytes \in [Admission!Lane -> Int]
      /\ \A k \in Admission!Lane :
           /\ NoRepeats(memQueue[k]) /\ \A c : Contains(memQueue[k], c) <=> InMemQueue(k, c)
           /\ memCount[k] = Cardinality(Admission!In(k, memHeld))
           /\ memCount[k] <= MemorySlots[k] /\ memBytes[k] <= Budget[k]
  BY DEF MemoryInv
<1> HIDE DEF b, first, rest
<1>7. \A c \in first : c \in Client /\ LaneOf[c] = l /\ aPc'[c] = "reserving" /\ c \notin S
  BY <1>3
<1>8. /\ memQueue'[l] = rest /\ memCount'[l] = count + n /\ memBytes'[l] = bytes + b
      /\ \A k \in Admission!Lane \ {l} :
           memQueue'[k] = memQueue[k] /\ memCount'[k] = memCount[k] /\ memBytes'[k] = memBytes[k]
  BY <1>2, <1>6
<1>9. /\ memQueue' \in [Admission!Lane -> Seq(Client)] /\ memHeld' \subseteq Inline
      /\ memCount' \in [Admission!Lane -> Int] /\ memBytes' \in [Admission!Lane -> Int]
  BY <1>1, <1>2, <1>3, <1>6, <1>7
<1>10. first \cap S = {}
  BY <1>7
<1>11. IsFiniteSet(memHeld') /\ Cardinality(Admission!In(l, memHeld')) = count + n
  <2>1. \A c \in first : LaneOf[c] = l
    BY <1>7
  <2>2. QED BY <1>2, <1>4, <1>10, <2>1, InGrows
<1>12. ASSUME NEW k \in Admission!Lane \ {l}
       PROVE  Admission!In(k, memHeld') = Admission!In(k, memHeld)
  <2>1. \A c \in Client : LaneOf[c] = k => (c \in memHeld' <=> c \in memHeld)
    BY <1>2, <1>7
  <2>2. memHeld \subseteq Client /\ memHeld' \subseteq Client
    BY <1>5, <1>9 DEF MemoryInv
  <2>3. QED BY <2>1, <2>2 DEF Admission!In
<1>13. \A c : Contains(rest, c) <=> InMemQueue(l, c)'
  BY <1>2, <1>3 DEF InMemQueue
<1>14. ASSUME NEW k \in Admission!Lane \ {l}
       PROVE  \A c : Contains(memQueue'[k], c) <=> InMemQueue(k, c)'
  <2>1. \A c \in Client : LaneOf[c] = k => (c \in memHeld' <=> c \in memHeld)
    BY <1>2, <1>7
  <2>2. \A c \in Client : LaneOf[c] = k => aPc'[c] = aPc[c]
    OBVIOUS
  <2>3. \A c : InMemQueue(k, c)' <=> InMemQueue(k, c)
    BY <2>1, <2>2 DEF InMemQueue
  <2>4. QED BY <1>6, <1>8, <2>3
<1>15. \A k \in Admission!Lane :
         /\ NoRepeats(memQueue'[k]) /\ \A c : Contains(memQueue'[k], c) <=> InMemQueue(k, c)'
         /\ memCount'[k] = Cardinality(Admission!In(k, memHeld'))
         /\ memCount'[k] <= MemorySlots[k] /\ memBytes'[k] <= Budget[k]
  <2>1. ASSUME NEW k \in Admission!Lane \ {l}
        PROVE  /\ NoRepeats(memQueue'[k]) /\ \A c : Contains(memQueue'[k], c) <=> InMemQueue(k, c)'
               /\ memCount'[k] = Cardinality(Admission!In(k, memHeld'))
               /\ memCount'[k] <= MemorySlots[k] /\ memBytes'[k] <= Budget[k]
    BY <1>6, <1>8, <1>12, <1>14
  <2>2. /\ NoRepeats(memQueue'[l]) /\ \A c : Contains(memQueue'[l], c) <=> InMemQueue(l, c)'
        /\ memCount'[l] = Cardinality(Admission!In(l, memHeld'))
        /\ memCount'[l] <= MemorySlots[l] /\ memBytes'[l] <= Budget[l]
    BY <1>1, <1>3, <1>8, <1>11, <1>13
  <2>3. QED BY <2>1, <2>2
<1>16. \A c \in Client :
         /\ c \in memHeld' => aPc'[c] # "idle"
         /\ aPc'[c] = "reserving" => c \in Inline
         /\ c \in Inline /\ aPc'[c] \in {"ready", "asking", "sending"} => c \in memHeld'
  <2>1. \A c \in first : aPc'[c] = "reserving"
    BY <1>7
  <2>2. QED BY <1>2, <2>1
<1>17. MemoryInv'
  BY <1>9, <1>11, <1>15, <1>16 DEF MemoryInv, Admission!In
<1>18. MemoryConserved'
  <2>1. ASSUME memQueue'[l] # <<>>
        PROVE  \/ memCount'[l] = MemorySlots[l]
               \/ memBytes'[l] + Weight[Head(memQueue'[l])] > Budget[l]
    <3>1. Len(q) \in Nat /\ Len(rest) > 0
      BY <1>3, <1>8, <2>1
    <3>2. n < Len(q) /\ rest[1] = q[n + 1]
      BY <1>1, <1>3, <3>1
    <3>3. Head(rest) = rest[1]
      BY <1>3, <3>1
    <3>4. QED BY <1>1, <1>8, <3>2, <3>3
  <2>2. ASSUME NEW k \in Admission!Lane \ {l}, memQueue'[k] # <<>>
        PROVE  \/ memCount'[k] = MemorySlots[k]
               \/ memBytes'[k] + Weight[Head(memQueue'[k])] > Budget[k]
    BY <1>8, <2>2 DEF MemoryConserved
  <2>3. QED BY <2>1, <2>2 DEF MemoryConserved
<1>19. QED BY <1>17, <1>18

(* Ecot is granted nothing beyond its share while grd is left waiting.     *)
ShareKept ==
  netQueue'["grd"] # <<>> /\ Admission!In("ecot", netHeld' \ netHeld) # {}
    => byLane'["ecot"] <= Admission!EcotShare(limit')

(* What the slots need to know of queues and counters before they grant.   *)
Settling(lim, q, S, act, lanes) ==
  /\ lim \in Limits /\ q \in [Admission!Lane -> Seq(Client)]
  /\ S \subseteq Client /\ IsFiniteSet(S) /\ S \subseteq netHeld
  /\ act \in Int /\ lanes \in [Admission!Lane -> Int] /\ act = lanes["ecot"] + lanes["grd"]
  /\ \A l \in Admission!Lane :
       /\ NoRepeats(q[l]) /\ lanes[l] = Cardinality(Admission!In(l, S))
       /\ \A c : Contains(q[l], c)
                   <=> c \in Client /\ LaneOf[c] = l /\ aPc'[c] = "asking" /\ c \notin S
  /\ \A c \in Client : /\ c \in S => aPc'[c] \in {"asking", "sending"}
                       /\ aPc'[c] = "sending" => c \in S

(* The slots settle: they grant what is free.                              *)
LEMMA NetworkSettles ==
  ASSUME Admission!AdmissionAssumption, NEW lim, NEW q, NEW S, NEW act, NEW lanes,
         Settling(lim, q, S, act, lanes), Admission!NetSettle(lim, q, S, act, lanes)
  PROVE  NetworkInv' /\ NetworkConserved' /\ ShareKept
<1> SUFFICES ASSUME /\ lim \in Limits /\ q \in [Admission!Lane -> Seq(Client)]
                    /\ S \subseteq Client /\ IsFiniteSet(S) /\ S \subseteq netHeld
                    /\ act \in Int /\ lanes \in [Admission!Lane -> Int]
                    /\ act = lanes["ecot"] + lanes["grd"],
                    \A l \in Admission!Lane :
                      /\ NoRepeats(q[l]) /\ lanes[l] = Cardinality(Admission!In(l, S))
                      /\ \A c : Contains(q[l], c)
                            <=> c \in Client /\ LaneOf[c] = l /\ aPc'[c] = "asking" /\ c \notin S,
                    \A c \in Client : /\ c \in S => aPc'[c] \in {"asking", "sending"}
                                      /\ aPc'[c] = "sending" => c \in S
             PROVE  NetworkInv' /\ NetworkConserved' /\ ShareKept
  BY DEF Settling
<1> DEFINE n == Admission!NetGrants(lim, q, act, lanes)
           first == [l \in Admission!Lane |-> Admission!First(q[l], n[l])]
<1>1. /\ Admission!Lane = {"ecot", "grd"} /\ "ecot" # "grd"
      /\ "ecot" \in Admission!Lane /\ "grd" \in Admission!Lane
      /\ lim.http \in Nat
  BY DEF Admission!AdmissionAssumption, Admission!Lane
<1>2. act \in Nat /\ \A l \in Admission!Lane : lanes[l] \in Nat
  <2>1. \A l \in Admission!Lane : Cardinality(Admission!In(l, S)) \in Nat
    BY InSize
  <2>2. QED BY <1>1, <2>1
<1>3. AfterTurn(lim.http, lim, q, act, lanes, n)
  BY <1>2, GrantsFacts
<1>4. /\ limit' = lim
      /\ netQueue' = [l \in Admission!Lane |-> Admission!Behind(q[l], n[l])]
      /\ netHeld' = S \cup UNION {first[l] : l \in Admission!Lane}
      /\ active' = act + n["ecot"] + n["grd"]
      /\ byLane' = [l \in Admission!Lane |-> lanes[l] + n[l]]
  BY DEF Admission!NetSettle
<1> HIDE DEF n
<1>5. /\ n \in [Admission!Lane -> Nat] /\ \A l \in Admission!Lane : n[l] \in 0 .. Len(q[l])
      /\ n["ecot"] + n["grd"] = lim.http \/ Served(lim, q, act, lanes, n) = {}
      /\ n["ecot"] > 0 /\ Len(q["grd"]) > n["grd"] =>
           lanes["ecot"] + n["ecot"] <= Admission!EcotShare(lim)
  BY <1>1, <1>3 DEF AfterTurn
<1>6. \A l \in Admission!Lane :
        /\ netQueue'[l] = Admission!Behind(q[l], n[l]) /\ byLane'[l] = lanes[l] + n[l]
        /\ first[l] = Admission!First(q[l], n[l])
  BY <1>4
<1>7. ASSUME NEW l \in Admission!Lane
      PROVE  /\ netQueue'[l] \in Seq(Client) /\ NoRepeats(netQueue'[l])
             /\ Len(netQueue'[l]) = Len(q[l]) - n[l]
             /\ \A c : Contains(netQueue'[l], c) <=> (Contains(q[l], c) /\ c \notin first[l])
             /\ first[l] \subseteq Client /\ \A c \in first[l] : Contains(q[l], c)
             /\ IsFiniteSet(first[l]) /\ Cardinality(first[l]) = n[l]
  <2>1. q[l] \in Seq(Client) /\ n[l] \in 0 .. Len(q[l]) /\ NoRepeats(q[l])
    BY <1>5
  <2> HIDE DEF first
  <2>2. QED BY <1>6, <2>1, FirstFacts, SMTT(20)
<1> HIDE DEF first
<1>8. \A l \in Admission!Lane : \A c \in first[l] :
        c \in Client /\ LaneOf[c] = l /\ aPc'[c] = "asking" /\ c \notin S
  BY <1>7
<1>9. netHeld' = S \cup first["ecot"] \cup first["grd"]
  BY <1>1, <1>4
<1>10. /\ IsFiniteSet(netHeld')
       /\ \A l \in Admission!Lane :
            Cardinality(Admission!In(l, netHeld')) = lanes[l] + n[l]
  <2>1. IsFiniteSet(S \cup first["ecot"]) /\ IsFiniteSet(S \cup first["grd"])
    BY <1>1, <1>7, FS_Union
  <2>2. IsFiniteSet(netHeld')
    BY <1>1, <1>7, <1>9, <2>1, FS_Union
  <2>3. /\ first["ecot"] \cap S = {} /\ first["grd"] \cap S = {}
        /\ \A c \in first["ecot"] : LaneOf[c] = "ecot" /\ LaneOf[c] # "grd"
        /\ \A c \in first["grd"] : LaneOf[c] = "grd" /\ LaneOf[c] # "ecot"
    BY <1>1, <1>8
  <2>4. Cardinality(Admission!In("ecot", netHeld')) = lanes["ecot"] + n["ecot"]
    <3>1. Admission!In("ecot", (S \cup first["ecot"]) \cup first["grd"])
            = Admission!In("ecot", S \cup first["ecot"])
      BY <2>3 DEF Admission!In
    <3>2. Cardinality(Admission!In("ecot", S \cup first["ecot"]))
            = Cardinality(Admission!In("ecot", S)) + Cardinality(first["ecot"])
      <4>1. IsFiniteSet(first["ecot"])
        BY <1>1, <1>7
      <4>2. QED BY <2>3, <4>1, InGrows, SMTT(20)
    <3>3. QED BY <1>1, <1>7, <1>9, <3>1, <3>2
  <2>5. Cardinality(Admission!In("grd", netHeld')) = lanes["grd"] + n["grd"]
    <3>1. Admission!In("grd", (S \cup first["grd"]) \cup first["ecot"])
            = Admission!In("grd", S \cup first["grd"])
      BY <2>3 DEF Admission!In
    <3>2. Cardinality(Admission!In("grd", S \cup first["grd"]))
            = Cardinality(Admission!In("grd", S)) + Cardinality(first["grd"])
      <4>1. IsFiniteSet(first["grd"])
        BY <1>1, <1>7
      <4>2. QED BY <2>3, <4>1, InGrows, SMTT(20)
    <3>3. netHeld' = (S \cup first["grd"]) \cup first["ecot"]
      BY <1>9
    <3>4. QED BY <1>1, <1>7, <3>1, <3>2, <3>3
  <2>6. QED BY <1>1, <2>2, <2>4, <2>5
<1>11. ASSUME NEW l \in Admission!Lane
       PROVE  \A c : Contains(netQueue'[l], c) <=> InNetQueue(l, c)'
  <2>1. \A c \in Client : LaneOf[c] = l => (c \in netHeld' <=> c \in S \/ c \in first[l])
    BY <1>1, <1>8, <1>9
  <2>2. \A c : Contains(netQueue'[l], c)
                 <=> c \in Client /\ LaneOf[c] = l /\ aPc'[c] = "asking" /\ c \notin S /\ c \notin first[l]
    BY <1>7
  <2>3. QED BY <2>1, <2>2 DEF InNetQueue
<1>12. NetworkInv'
  <2>1. /\ limit' \in Limits /\ netQueue' \in [Admission!Lane -> Seq(Client)]
        /\ netHeld' \subseteq Client /\ active' \in Int /\ byLane' \in [Admission!Lane -> Int]
    <3>1. netQueue' = [l \in Admission!Lane |-> netQueue'[l]]
      BY <1>4
    <3>2. netQueue' \in [Admission!Lane -> Seq(Client)]
      BY <1>7, <3>1
    <3>3. netHeld' \subseteq Client
      BY <1>1, <1>8, <1>9
    <3>4. active' \in Int
      BY <1>1, <1>2, <1>4, <1>5
    <3>5. byLane' \in [Admission!Lane -> Int]
      <4>1. \A l \in Admission!Lane : lanes[l] + n[l] \in Int
        BY <1>2, <1>5
      <4>2. QED BY <1>4, <4>1
    <3>6. QED BY <1>4, <3>2, <3>3, <3>4, <3>5
  <2>2. active' = byLane'["ecot"] + byLane'["grd"]
    BY <1>1, <1>2, <1>4, <1>5
  <2>3. \A c \in Client : /\ c \in netHeld' => aPc'[c] \in {"asking", "sending"}
                          /\ aPc'[c] = "sending" => c \in netHeld'
    BY <1>1, <1>8, <1>9
  <2>4. \A l \in Admission!Lane : byLane'[l] = Cardinality(Admission!In(l, netHeld'))
    <3>1. \A l \in Admission!Lane : byLane'[l] = lanes[l] + n[l]
      BY <1>6
    <3>2. \A l \in Admission!Lane : Cardinality(Admission!In(l, netHeld')) = lanes[l] + n[l]
      BY <1>10
    <3>3. QED BY <3>1, <3>2, SMTT(20)
  <2>5. QED BY <1>7, <1>10, <1>11, <2>1, <2>2, <2>3, <2>4 DEF NetworkInv, Admission!In
<1>13. ASSUME NEW l \in Admission!Lane PROVE netQueue'[l] = <<>> <=> Len(q[l]) <= n[l]
  <2>1. Len(q[l]) \in Nat /\ n[l] \in 0 .. Len(q[l])
    BY <1>5
  <2>2. netQueue'[l] \in Seq(Client) /\ Len(netQueue'[l]) = Len(q[l]) - n[l]
    BY <1>7
  <2>3. QED BY <2>1, <2>2
<1>14. NetworkConserved'
  <2>1. CASE n["ecot"] + n["grd"] = lim.http
    <3>1. ~ active' < limit'.http
      BY <1>1, <1>2, <1>4, <1>5, <2>1
    <3>2. QED BY <3>1 DEF NetworkConserved
  <2>2. CASE Served(lim, q, act, lanes, n) = {}
    <3>1. \/ act + n["ecot"] + n["grd"] >= lim.http
          \/ /\ Len(q["grd"]) <= n["grd"]
             /\ \/ Len(q["ecot"]) <= n["ecot"]
                \/ lanes["ecot"] + n["ecot"] >= Admission!EcotCeiling(lim)
      <4>1. n \in [Admission!Lane -> Nat] /\ \A l \in Admission!Lane : n[l] <= Len(q[l])
        BY <1>5
      <4>2. act \in Nat /\ lanes \in [Admission!Lane -> Int]
        BY <1>2
      <4>3. ServedWell(lim, q, act, lanes, n)
        BY <4>1, <4>2, ServedFacts
      <4>4. QED BY <2>2, <4>3 DEF ServedWell
    <3>2. /\ netQueue'["grd"] = <<>> <=> Len(q["grd"]) <= n["grd"]
          /\ netQueue'["ecot"] = <<>> <=> Len(q["ecot"]) <= n["ecot"]
          /\ byLane'["ecot"] = lanes["ecot"] + n["ecot"]
      BY <1>1, <1>6, <1>13
    <3>3. active' \in Nat /\ active' = act + n["ecot"] + n["grd"] /\ limit' = lim
      <4>1. act \in Nat /\ n["ecot"] \in Nat /\ n["grd"] \in Nat
        BY <1>1, <1>2, <1>5
      <4>2. active' = act + n["ecot"] + n["grd"] /\ limit' = lim
        BY <1>4
      <4>3. QED BY <4>1, <4>2
    <3>4. CASE act + n["ecot"] + n["grd"] >= lim.http
      BY <1>1, <3>3, <3>4 DEF NetworkConserved
    <3>5. CASE /\ Len(q["grd"]) <= n["grd"]
               /\ \/ Len(q["ecot"]) <= n["ecot"]
                  \/ lanes["ecot"] + n["ecot"] >= Admission!EcotCeiling(lim)
      <4>1. Admission!EcotCeiling(limit)' = Admission!EcotCeiling(lim)
        BY <3>3 DEF Admission!EcotCeiling
      <4>2. QED BY <3>2, <3>5, <4>1 DEF NetworkConserved
    <3>6. QED BY <3>1, <3>4, <3>5
  <2>3. QED BY <1>5, <2>1, <2>2
<1>15. ShareKept
  <2>1. SUFFICES ASSUME netQueue'["grd"] # <<>>, Admission!In("ecot", netHeld' \ netHeld) # {}
                 PROVE  byLane'["ecot"] <= Admission!EcotShare(limit')
    BY DEF ShareKept
  <2>2. PICK c \in netHeld' \ netHeld : LaneOf[c] = "ecot"
    BY <2>1 DEF Admission!In
  <2>3. c \in first["ecot"]
    BY <1>1, <1>8, <1>9, <2>2
  <2>4. n["ecot"] > 0
    <3>1. n["ecot"] # 0
      BY <1>1, <1>7, <2>3, FS_EmptySet
    <3>2. QED BY <1>1, <1>5, <3>1
  <2>5. Len(q["grd"]) > n["grd"]
    BY <1>1, <1>5, <1>13, <2>1
  <2>6. QED BY <1>1, <1>4, <1>5, <1>6, <2>4, <2>5
<1>16. QED BY <1>12, <1>14, <1>15

(* A step that leaves the memory, or the slots, as they are.               *)
LEMMA MemoryKept ==
  ASSUME MemoryInv, MemoryConserved, UNCHANGED <<memQueue, memHeld, memCount, memBytes>>,
         \A c \in Client :
           /\ c \in memHeld => aPc'[c] # "idle"
           /\ aPc'[c] = "reserving" => aPc[c] = "reserving"
           /\ aPc[c] = "reserving" /\ c \notin memHeld => aPc'[c] = "reserving"
           /\ c \in Inline /\ aPc'[c] \in {"ready", "asking", "sending"} => c \in memHeld
  PROVE  MemoryInv' /\ MemoryConserved'
<1>1. \A l, c : InMemQueue(l, c)' <=> InMemQueue(l, c)
  BY DEF InMemQueue
<1>2. \A l : Admission!In(l, memHeld)' = Admission!In(l, memHeld)
  BY DEF Admission!In
<1>3. MemoryInv'
  BY <1>1, <1>2 DEF MemoryInv
<1>4. MemoryConserved'
  BY DEF MemoryConserved
<1>5. QED BY <1>3, <1>4

LEMMA NetworkKept ==
  ASSUME NetworkInv, NetworkConserved, UNCHANGED <<limit, netQueue, netHeld, active, byLane>>,
         \A c \in Client :
           \/ aPc'[c] = aPc[c] \/ {aPc[c], aPc'[c]} \cap {"asking", "sending"} = {}
           \/ c \in netHeld /\ aPc'[c] \in {"asking", "sending"}
  PROVE  NetworkInv' /\ NetworkConserved' /\ ShareKept
<1>1. \A c \in Client : c \notin netHeld => (aPc'[c] = "asking" <=> aPc[c] = "asking")
  OBVIOUS
<1>2. \A l, c : InNetQueue(l, c)' <=> InNetQueue(l, c)
  BY <1>1 DEF InNetQueue
<1>3. \A l : Admission!In(l, netHeld)' = Admission!In(l, netHeld)
  BY DEF Admission!In
<1>4. \A c \in Client : /\ c \in netHeld => aPc'[c] \in {"asking", "sending"}
                        /\ aPc'[c] = "sending" => c \in netHeld
  BY DEF NetworkInv
<1>5. NetworkInv'
  BY <1>2, <1>3, <1>4 DEF NetworkInv
<1>6. NetworkConserved'
  BY DEF NetworkConserved, Admission!EcotCeiling
<1>7. ShareKept
  BY DEF ShareKept, Admission!In
<1>8. QED BY <1>5, <1>6, <1>7

LEMMA AdmissionConstantFacts ==
  ASSUME Admission!AdmissionAssumption
  PROVE  /\ LaneOf \in [Client -> Admission!Lane] /\ Inline \subseteq Client
         /\ Admission!Lane = {"ecot", "grd"} /\ "ecot" # "grd"
BY DEF Admission!AdmissionAssumption, Admission!Lane

LEMMA ReserveStep ==
  ASSUME Admission!AdmissionAssumption, AdmissionInv, NEW r \in Client, Admission!Reserve(r)
  PROVE  AdmissionInv' /\ ShareKept
<1> DEFINE l == LaneOf[r]
<1>1. /\ aPc \in [Client -> Waypoint] /\ aPc[r] = "idle" /\ l \in Admission!Lane
      /\ MemoryInv /\ MemoryConserved /\ NetworkInv /\ NetworkConserved
      /\ UNCHANGED <<limit, netQueue, netHeld, active, byLane>>
  BY AdmissionConstantFacts DEF AdmissionInv, Admission!Reserve, Admission!network
<1>2. CASE r \in Inline
  <2>1. /\ aPc' = [aPc EXCEPT ![r] = "reserving"]
        /\ Admission!MemSettle(l, Append(memQueue[l], r), memHeld, memCount[l], memBytes[l])
    BY <1>2 DEF Admission!Reserve
  <2>2. aPc'[r] = "reserving" /\ \A c \in Client \ {r} : aPc'[c] = aPc[c]
    BY <1>1, <2>1
  <2>3. /\ memQueue[l] \in Seq(Client) /\ NoRepeats(memQueue[l]) /\ memHeld \subseteq Inline
        /\ \A c : Contains(memQueue[l], c) <=> InMemQueue(l, c)
        /\ memCount[l] \in Int /\ memBytes[l] \in Int /\ IsFiniteSet(memHeld)
        /\ memCount[l] = Cardinality(Admission!In(l, memHeld))
        /\ memCount[l] <= MemorySlots[l] /\ memBytes[l] <= Budget[l]
        /\ \A c \in Client :
             /\ c \in memHeld => aPc[c] # "idle"
             /\ aPc[c] = "reserving" => c \in Inline
             /\ c \in Inline /\ aPc[c] \in {"ready", "asking", "sending"} => c \in memHeld
    BY <1>1 DEF MemoryInv
  <2> DEFINE q == Append(memQueue[l], r)
  <2>4. ~ Contains(memQueue[l], r) /\ r \notin memHeld
    BY <1>1, <2>3 DEF InMemQueue
  <2>5. /\ q \in Seq(Client) /\ NoRepeats(q)
        /\ \A c : Contains(q, c) <=> (Contains(memQueue[l], c) \/ c = r)
    BY <2>3, <2>4, AppendFacts
  <2>6. \A c : Contains(q, c)
          <=> c \in Client /\ LaneOf[c] = l /\ aPc'[c] = "reserving" /\ c \notin memHeld
    BY <2>2, <2>3, <2>4, <2>5 DEF InMemQueue
  <2>7. /\ \A c \in Client : LaneOf[c] # l => aPc'[c] = aPc[c] /\ (c \in memHeld <=> c \in memHeld)
        /\ \A c \in Client :
             /\ c \in memHeld => aPc'[c] # "idle"
             /\ aPc'[c] = "reserving" => c \in Inline
             /\ c \in Inline /\ aPc'[c] \in {"ready", "asking", "sending"} => c \in memHeld
    BY <1>2, <2>2, <2>3
  <2> HIDE DEF q, l
  <2>8. MemoryInv' /\ MemoryConserved'
    BY <1>1, <2>1, <2>3, <2>5, <2>6, <2>7, MemorySettles DEF q
  <2>9. NetworkInv' /\ NetworkConserved' /\ ShareKept
    <3>1. \A c \in Client : aPc'[c] = aPc[c] \/ {aPc[c], aPc'[c]} \cap {"asking", "sending"} = {}
      BY <1>1, <2>2
    <3>2. QED BY <1>1, <3>1, NetworkKept
  <2>10. aPc' \in [Client -> Waypoint]
    BY <1>1, <2>1 DEF Waypoint
  <2>11. QED BY <2>8, <2>9, <2>10 DEF AdmissionInv
<1>3. CASE r \notin Inline
  <2>1. aPc' = [aPc EXCEPT ![r] = "ready"] /\ UNCHANGED <<memQueue, memHeld, memCount, memBytes>>
    BY <1>3 DEF Admission!Reserve, Admission!memory
  <2>2. aPc'[r] = "ready" /\ \A c \in Client \ {r} : aPc'[c] = aPc[c]
    BY <1>1, <2>1
  <2>3. MemoryInv' /\ MemoryConserved'
    <3>1. \A c \in Client :
            /\ c \in memHeld => aPc'[c] # "idle"
            /\ aPc'[c] = "reserving" => aPc[c] = "reserving"
            /\ aPc[c] = "reserving" /\ c \notin memHeld => aPc'[c] = "reserving"
            /\ c \in Inline /\ aPc'[c] \in {"ready", "asking", "sending"} => c \in memHeld
      BY <1>1, <1>3, <2>2 DEF MemoryInv
    <3>2. QED BY <1>1, <2>1, <3>1, MemoryKept
  <2>4. NetworkInv' /\ NetworkConserved' /\ ShareKept
    <3>1. \A c \in Client : aPc'[c] = aPc[c] \/ {aPc[c], aPc'[c]} \cap {"asking", "sending"} = {}
      BY <1>1, <2>2
    <3>2. QED BY <1>1, <3>1, NetworkKept
  <2>5. aPc' \in [Client -> Waypoint]
    BY <1>1, <2>1 DEF Waypoint
  <2>6. QED BY <2>3, <2>4, <2>5 DEF AdmissionInv
<1>4. QED BY <1>2, <1>3

(* Who notices a grant of memory or of a slot goes on with it.             *)
LEMMA NoticeStep ==
  ASSUME AdmissionInv, NEW r \in Client, Admission!Reserved(r) \/ Admission!Send(r)
  PROVE  AdmissionInv' /\ ShareKept
<1>1. /\ aPc \in [Client -> Waypoint]
      /\ MemoryInv /\ MemoryConserved /\ NetworkInv /\ NetworkConserved
  BY DEF AdmissionInv
<1>2. /\ UNCHANGED <<memQueue, memHeld, memCount, memBytes, limit, netQueue, netHeld, active, byLane>>
      /\ \/ aPc[r] = "reserving" /\ r \in memHeld /\ aPc' = [aPc EXCEPT ![r] = "ready"]
         \/ aPc[r] = "asking" /\ r \in netHeld /\ aPc' = [aPc EXCEPT ![r] = "sending"]
  BY DEF Admission!Reserved, Admission!Send, Admission!memory, Admission!network
<1>3. /\ \A c \in Client \ {r} : aPc'[c] = aPc[c]
      /\ \/ aPc[r] = "reserving" /\ r \in memHeld /\ aPc'[r] = "ready"
         \/ aPc[r] = "asking" /\ r \in netHeld /\ aPc'[r] = "sending"
      /\ aPc' \in [Client -> Waypoint]
  BY <1>1, <1>2 DEF Waypoint
<1>4. MemoryInv' /\ MemoryConserved'
  <2>1. \A c \in Client :
          /\ c \in memHeld => aPc'[c] # "idle"
          /\ aPc'[c] = "reserving" => aPc[c] = "reserving"
          /\ aPc[c] = "reserving" /\ c \notin memHeld => aPc'[c] = "reserving"
          /\ c \in Inline /\ aPc'[c] \in {"ready", "asking", "sending"} => c \in memHeld
    BY <1>1, <1>3 DEF MemoryInv
  <2>2. QED BY <1>1, <1>2, <2>1, MemoryKept
<1>5. NetworkInv' /\ NetworkConserved' /\ ShareKept
  <2>1. \A c \in Client :
          \/ aPc'[c] = aPc[c] \/ {aPc[c], aPc'[c]} \cap {"asking", "sending"} = {}
          \/ c \in netHeld /\ aPc'[c] \in {"asking", "sending"}
    BY <1>3
  <2>2. QED BY <1>1, <1>2, <2>1, NetworkKept
<1>6. QED BY <1>3, <1>4, <1>5 DEF AdmissionInv

LEMMA LeaveMemoryStep ==
  ASSUME Admission!AdmissionAssumption, AdmissionInv, NEW r \in Client, Admission!LeaveMemory(r)
  PROVE  AdmissionInv' /\ ShareKept
<1> DEFINE l == LaneOf[r]
<1>1. /\ aPc \in [Client -> Waypoint] /\ aPc[r] \in {"reserving", "ready"} /\ l \in Admission!Lane
      /\ MemoryInv /\ MemoryConserved /\ NetworkInv /\ NetworkConserved
      /\ UNCHANGED <<limit, netQueue, netHeld, active, byLane>>
      /\ aPc' = [aPc EXCEPT ![r] = "idle"]
  BY AdmissionConstantFacts DEF AdmissionInv, Admission!LeaveMemory, Admission!network
<1>2. /\ aPc'[r] = "idle" /\ \A c \in Client \ {r} : aPc'[c] = aPc[c]
      /\ aPc' \in [Client -> Waypoint]
  BY <1>1 DEF Waypoint
<1>3. NetworkInv' /\ NetworkConserved' /\ ShareKept
  <2>1. \A c \in Client : aPc'[c] = aPc[c] \/ {aPc[c], aPc'[c]} \cap {"asking", "sending"} = {}
    BY <1>1, <1>2
  <2>2. QED BY <1>1, <2>1, NetworkKept
<1>4. /\ memQueue[l] \in Seq(Client) /\ NoRepeats(memQueue[l]) /\ memHeld \subseteq Inline
      /\ \A c : Contains(memQueue[l], c) <=> InMemQueue(l, c)
      /\ memCount[l] \in Int /\ memBytes[l] \in Int /\ IsFiniteSet(memHeld)
      /\ memCount[l] = Cardinality(Admission!In(l, memHeld))
      /\ memCount[l] <= MemorySlots[l] /\ memBytes[l] <= Budget[l]
      /\ \A c \in Client :
           /\ c \in memHeld => aPc[c] # "idle"
           /\ aPc[c] = "reserving" => c \in Inline
           /\ c \in Inline /\ aPc[c] \in {"ready", "asking", "sending"} => c \in memHeld
  BY <1>1 DEF MemoryInv
<1>5. Weight[r] \in Nat
  BY DEF Admission!AdmissionAssumption
<1>6. MemoryInv' /\ MemoryConserved'
  <2>1. CASE r \in Inline /\ r \in memHeld
    <3>1. Admission!MemSettle(l, memQueue[l], memHeld \ {r}, memCount[l] - 1, memBytes[l] - Weight[r])
      BY <2>1 DEF Admission!LeaveMemory, Admission!Unreserve
    <3>2. /\ IsFiniteSet(memHeld \ {r})
          /\ memCount[l] - 1 = Cardinality(Admission!In(l, memHeld \ {r}))
      BY <1>4, <2>1, InShrinks
    <3>3. /\ memCount[l] - 1 \in Int /\ memBytes[l] - Weight[r] \in Int
          /\ memCount[l] - 1 <= MemorySlots[l] /\ memBytes[l] - Weight[r] <= Budget[l]
      <4>1. MemorySlots[l] \in Nat /\ Budget[l] \in Nat
        BY <1>1 DEF Admission!AdmissionAssumption
      <4>2. QED BY <1>4, <1>5, <4>1
    <3>4. \A c : Contains(memQueue[l], c)
            <=> c \in Client /\ LaneOf[c] = l /\ aPc'[c] = "reserving" /\ c \notin memHeld \ {r}
      BY <1>2, <1>4, <2>1 DEF InMemQueue
    <3>5. /\ \A c \in Client :
               LaneOf[c] # l => aPc'[c] = aPc[c] /\ (c \in memHeld \ {r} <=> c \in memHeld)
          /\ \A c \in Client :
               /\ c \in memHeld \ {r} => aPc'[c] # "idle"
               /\ aPc'[c] = "reserving" => c \in Inline
               /\ c \in Inline /\ aPc'[c] \in {"ready", "asking", "sending"} => c \in memHeld \ {r}
          /\ memHeld \ {r} \subseteq Inline
      BY <1>2, <1>4
    <3> DEFINE S == memHeld \ {r}  count == memCount[l] - 1  bytes == memBytes[l] - Weight[r]
    <3> HIDE DEF S, count, bytes, l
    <3>6. QED BY <1>1, <1>4, <3>1, <3>2, <3>3, <3>4, <3>5, MemorySettles DEF S, count, bytes
  <2>2. CASE r \in Inline /\ r \notin memHeld
    <3> DEFINE q == Admission!RemoveFirst(memQueue[l], r)
    <3>1. Admission!MemSettle(l, q, memHeld, memCount[l], memBytes[l])
      BY <2>2 DEF Admission!LeaveMemory, Admission!Unreserve
    <3>2. Contains(memQueue[l], r)
      BY <1>1, <1>4, <2>2 DEF InMemQueue
    <3>3. /\ q \in Seq(Client) /\ NoRepeats(q)
          /\ \A c : Contains(q, c) <=> (Contains(memQueue[l], c) /\ c # r)
      BY <1>4, <3>2, RemoveFirstFacts
    <3>4. \A c : Contains(q, c)
            <=> c \in Client /\ LaneOf[c] = l /\ aPc'[c] = "reserving" /\ c \notin memHeld
      BY <1>2, <1>4, <3>3 DEF InMemQueue
    <3>5. /\ \A c \in Client : LaneOf[c] # l => aPc'[c] = aPc[c] /\ (c \in memHeld <=> c \in memHeld)
          /\ \A c \in Client :
               /\ c \in memHeld => aPc'[c] # "idle"
               /\ aPc'[c] = "reserving" => c \in Inline
               /\ c \in Inline /\ aPc'[c] \in {"ready", "asking", "sending"} => c \in memHeld
      BY <1>2, <1>4, <2>2
    <3> HIDE DEF q, l
    <3>6. QED BY <1>1, <1>4, <3>1, <3>3, <3>4, <3>5, MemorySettles
  <2>3. CASE r \notin Inline
    <3>1. UNCHANGED <<memQueue, memHeld, memCount, memBytes>>
      BY <2>3 DEF Admission!LeaveMemory, Admission!memory
    <3>2. \A c \in Client :
            /\ c \in memHeld => aPc'[c] # "idle"
            /\ aPc'[c] = "reserving" => aPc[c] = "reserving"
            /\ aPc[c] = "reserving" /\ c \notin memHeld => aPc'[c] = "reserving"
            /\ c \in Inline /\ aPc'[c] \in {"ready", "asking", "sending"} => c \in memHeld
      BY <1>2, <1>4, <2>3
    <3>3. QED BY <1>1, <3>1, <3>2, MemoryKept
  <2>4. QED BY <2>1, <2>2, <2>3
<1>7. QED BY <1>2, <1>3, <1>6 DEF AdmissionInv

LEMMA AskStep ==
  ASSUME Admission!AdmissionAssumption, AdmissionInv, NEW r \in Client, Admission!Ask(r)
  PROVE  AdmissionInv' /\ ShareKept
<1> DEFINE l == LaneOf[r]
           q == [netQueue EXCEPT ![l] = Append(@, r)]
<1>1. /\ aPc \in [Client -> Waypoint] /\ aPc[r] = "ready" /\ l \in Admission!Lane
      /\ MemoryInv /\ MemoryConserved /\ NetworkInv
      /\ UNCHANGED <<memQueue, memHeld, memCount, memBytes>>
      /\ aPc' = [aPc EXCEPT ![r] = "asking"]
      /\ Admission!NetSettle(limit, q, netHeld, active, byLane)
  BY AdmissionConstantFacts DEF AdmissionInv, Admission!Ask, Admission!memory
<1>2. /\ aPc'[r] = "asking" /\ \A c \in Client \ {r} : aPc'[c] = aPc[c]
      /\ aPc' \in [Client -> Waypoint]
  BY <1>1 DEF Waypoint
<1>3. MemoryInv' /\ MemoryConserved'
  <2>1. \A c \in Client :
          /\ c \in memHeld => aPc'[c] # "idle"
          /\ aPc'[c] = "reserving" => aPc[c] = "reserving"
          /\ aPc[c] = "reserving" /\ c \notin memHeld => aPc'[c] = "reserving"
          /\ c \in Inline /\ aPc'[c] \in {"ready", "asking", "sending"} => c \in memHeld
    BY <1>1, <1>2 DEF MemoryInv
  <2>2. QED BY <1>1, <2>1, MemoryKept
<1>4. /\ limit \in Limits /\ netHeld \subseteq Client /\ IsFiniteSet(netHeld) /\ active \in Int
      /\ byLane \in [Admission!Lane -> Int] /\ active = byLane["ecot"] + byLane["grd"]
      /\ netQueue \in [Admission!Lane -> Seq(Client)]
      /\ \A k \in Admission!Lane :
           /\ NoRepeats(netQueue[k]) /\ \A c : Contains(netQueue[k], c) <=> InNetQueue(k, c)
           /\ byLane[k] = Cardinality(Admission!In(k, netHeld))
      /\ \A c \in Client : /\ c \in netHeld => aPc[c] \in {"asking", "sending"}
                           /\ aPc[c] = "sending" => c \in netHeld
  BY <1>1 DEF NetworkInv
<1>5. r \notin netHeld /\ ~ Contains(netQueue[l], r)
  BY <1>1, <1>4 DEF InNetQueue
<1>6. /\ Append(netQueue[l], r) \in Seq(Client) /\ NoRepeats(Append(netQueue[l], r))
      /\ \A c : Contains(Append(netQueue[l], r), c) <=> (Contains(netQueue[l], c) \/ c = r)
  BY <1>1, <1>4, <1>5, AppendFacts
<1>7. /\ q \in [Admission!Lane -> Seq(Client)] /\ q[l] = Append(netQueue[l], r)
      /\ \A k \in Admission!Lane \ {l} : q[k] = netQueue[k]
  BY <1>1, <1>4, <1>6
<1> HIDE DEF q
<1>8. ASSUME NEW k \in Admission!Lane
      PROVE  /\ NoRepeats(q[k])
             /\ \A c : Contains(q[k], c)
                         <=> c \in Client /\ LaneOf[c] = k /\ aPc'[c] = "asking" /\ c \notin netHeld
  <2>1. CASE k = l
    <3>1. \A c : InNetQueue(l, c) \/ c = r
                   <=> c \in Client /\ LaneOf[c] = l /\ aPc'[c] = "asking" /\ c \notin netHeld
      BY <1>2, <1>5 DEF InNetQueue
    <3>2. \A c : Contains(netQueue[l], c) <=> InNetQueue(l, c)
      BY <1>1, <1>4
    <3>3. NoRepeats(q[l]) /\ \A c : Contains(q[l], c) <=> (InNetQueue(l, c) \/ c = r)
      BY <1>6, <1>7, <3>2
    <3>4. QED BY <2>1, <3>1, <3>3
  <2>2. CASE k # l
    <3>1. \A c : InNetQueue(k, c)
                   <=> c \in Client /\ LaneOf[c] = k /\ aPc'[c] = "asking" /\ c \notin netHeld
      BY <1>2, <2>2 DEF InNetQueue
    <3>2. QED BY <1>4, <1>7, <2>2, <3>1
  <2>3. QED BY <2>1, <2>2
<1>9. \A c \in Client : /\ c \in netHeld => aPc'[c] \in {"asking", "sending"}
                        /\ aPc'[c] = "sending" => c \in netHeld
  BY <1>2, <1>4
<1>10. NetworkInv' /\ NetworkConserved' /\ ShareKept
  <2>1. Settling(limit, q, netHeld, active, byLane)
    BY <1>4, <1>7, <1>8, <1>9 DEF Settling
  <2>2. QED BY <1>1, <2>1, NetworkSettles
<1>11. QED BY <1>2, <1>3, <1>10 DEF AdmissionInv

LEMMA ReleaseStep ==
  ASSUME Admission!AdmissionAssumption, AdmissionInv, NEW r \in Client, Admission!Release(r)
  PROVE  AdmissionInv' /\ ShareKept
<1> DEFINE l == LaneOf[r]
<1>1. /\ aPc \in [Client -> Waypoint] /\ aPc[r] \in {"asking", "sending"} /\ l \in Admission!Lane
      /\ MemoryInv /\ MemoryConserved /\ NetworkInv
      /\ UNCHANGED <<memQueue, memHeld, memCount, memBytes>>
      /\ aPc' = [aPc EXCEPT ![r] = "ready"]
  BY AdmissionConstantFacts DEF AdmissionInv, Admission!Release, Admission!memory
<1>2. /\ aPc'[r] = "ready" /\ \A c \in Client \ {r} : aPc'[c] = aPc[c]
      /\ aPc' \in [Client -> Waypoint]
  BY <1>1 DEF Waypoint
<1>3. MemoryInv' /\ MemoryConserved'
  <2>1. \A c \in Client :
          /\ c \in memHeld => aPc'[c] # "idle"
          /\ aPc'[c] = "reserving" => aPc[c] = "reserving"
          /\ aPc[c] = "reserving" /\ c \notin memHeld => aPc'[c] = "reserving"
          /\ c \in Inline /\ aPc'[c] \in {"ready", "asking", "sending"} => c \in memHeld
    BY <1>1, <1>2 DEF MemoryInv
  <2>2. QED BY <1>1, <2>1, MemoryKept
<1>4. /\ limit \in Limits /\ netHeld \subseteq Client /\ IsFiniteSet(netHeld) /\ active \in Int
      /\ byLane \in [Admission!Lane -> Int] /\ active = byLane["ecot"] + byLane["grd"]
      /\ netQueue \in [Admission!Lane -> Seq(Client)]
      /\ \A k \in Admission!Lane :
           /\ NoRepeats(netQueue[k]) /\ \A c : Contains(netQueue[k], c) <=> InNetQueue(k, c)
           /\ byLane[k] = Cardinality(Admission!In(k, netHeld))
      /\ \A c \in Client : /\ c \in netHeld => aPc[c] \in {"asking", "sending"}
                           /\ aPc[c] = "sending" => c \in netHeld
  BY <1>1 DEF NetworkInv
<1>5. Admission!Lane = {"ecot", "grd"} /\ "ecot" # "grd"
  BY AdmissionConstantFacts
<1>6. NetworkInv' /\ NetworkConserved' /\ ShareKept
  <2>1. CASE r \in netHeld
    <3> DEFINE S == netHeld \ {r}
               lanes == [byLane EXCEPT ![l] = @ - 1]
    <3>1. Admission!NetSettle(limit, netQueue, S, active - 1, lanes)
      BY <2>1 DEF Admission!Release
    <3>2. /\ lanes \in [Admission!Lane -> Int] /\ lanes[l] = byLane[l] - 1
          /\ \A k \in Admission!Lane \ {l} : lanes[k] = byLane[k]
      BY <1>1, <1>4
    <3>3. S \subseteq Client /\ S \subseteq netHeld /\ IsFiniteSet(S)
      BY <1>4, FS_RemoveElement
    <3>4. ASSUME NEW k \in Admission!Lane PROVE lanes[k] = Cardinality(Admission!In(k, S))
      <4>1. CASE k = l
        <5>1. Cardinality(Admission!In(l, netHeld \ {r})) = Cardinality(Admission!In(l, netHeld)) - 1
          <6>1. IsFiniteSet(netHeld) /\ r \in netHeld /\ LaneOf[r] = l
            BY <1>4, <2>1
          <6> HIDE DEF l, S
          <6>2. QED BY <6>1, InShrinks
        <5>2. byLane[l] = Cardinality(Admission!In(l, netHeld))
          BY <1>1, <1>4
        <5>3. QED BY <3>2, <4>1, <5>1, <5>2
      <4>2. CASE k # l
        <5>1. Admission!In(k, S) = Admission!In(k, netHeld)
          BY <4>2 DEF Admission!In
        <5>2. QED BY <1>4, <3>2, <4>2, <5>1
      <4>3. QED BY <4>1, <4>2
    <3>5. ASSUME NEW k \in Admission!Lane
          PROVE  \A c : Contains(netQueue[k], c)
                          <=> c \in Client /\ LaneOf[c] = k /\ aPc'[c] = "asking" /\ c \notin S
      <4>1. \A c : InNetQueue(k, c)
                     <=> c \in Client /\ LaneOf[c] = k /\ aPc'[c] = "asking" /\ c \notin S
        BY <1>2, <2>1 DEF InNetQueue
      <4>2. QED BY <1>4, <4>1
    <3>6. active - 1 \in Int /\ active - 1 = lanes["ecot"] + lanes["grd"]
      <4>1. CASE l = "ecot"
        BY <1>4, <1>5, <3>2, <4>1
      <4>2. CASE l = "grd"
        BY <1>4, <1>5, <3>2, <4>2
      <4>3. QED BY <1>1, <1>5, <4>1, <4>2
    <3>7. \A c \in Client : /\ c \in S => aPc'[c] \in {"asking", "sending"}
                            /\ aPc'[c] = "sending" => c \in S
      BY <1>2, <1>4
    <3> DEFINE act == active - 1
    <3> HIDE DEF S, lanes, act
    <3>8. /\ Admission!NetSettle(limit, netQueue, S, act, lanes)
          /\ act \in Int /\ act = lanes["ecot"] + lanes["grd"]
      BY <3>1, <3>6 DEF act
    <3>9. Settling(limit, netQueue, S, act, lanes)
      BY <1>4, <3>2, <3>3, <3>4, <3>5, <3>7, <3>8 DEF Settling
    <3>10. QED BY <3>8, <3>9, NetworkSettles
  <2>2. CASE r \notin netHeld
    <3> DEFINE q == [netQueue EXCEPT ![l] = Admission!RemoveFirst(@, r)]
    <3>1. Admission!NetSettle(limit, q, netHeld, active, byLane)
      BY <2>2 DEF Admission!Release
    <3>2. Contains(netQueue[l], r)
      BY <1>1, <1>4, <2>2 DEF InNetQueue
    <3>3. /\ Admission!RemoveFirst(netQueue[l], r) \in Seq(Client)
          /\ NoRepeats(Admission!RemoveFirst(netQueue[l], r))
          /\ \A c : Contains(Admission!RemoveFirst(netQueue[l], r), c)
                      <=> (Contains(netQueue[l], c) /\ c # r)
      BY <1>1, <1>4, <3>2, RemoveFirstFacts
    <3>4. /\ q \in [Admission!Lane -> Seq(Client)] /\ q[l] = Admission!RemoveFirst(netQueue[l], r)
          /\ \A k \in Admission!Lane \ {l} : q[k] = netQueue[k]
      BY <1>1, <1>4, <3>3
    <3> HIDE DEF q
    <3>5. ASSUME NEW k \in Admission!Lane
          PROVE  /\ NoRepeats(q[k])
                 /\ \A c : Contains(q[k], c)
                      <=> c \in Client /\ LaneOf[c] = k /\ aPc'[c] = "asking" /\ c \notin netHeld
      <4>1. CASE k = l
        <5>1. \A c : InNetQueue(l, c) /\ c # r
                <=> c \in Client /\ LaneOf[c] = l /\ aPc'[c] = "asking" /\ c \notin netHeld
          BY <1>2 DEF InNetQueue
        <5>2. \A c : Contains(netQueue[l], c) <=> InNetQueue(l, c)
          BY <1>1, <1>4
        <5>3. NoRepeats(q[l]) /\ \A c : Contains(q[l], c) <=> (InNetQueue(l, c) /\ c # r)
          BY <3>3, <3>4, <5>2
        <5>4. QED BY <4>1, <5>1, <5>3
      <4>2. CASE k # l
        <5>1. \A c : InNetQueue(k, c)
                <=> c \in Client /\ LaneOf[c] = k /\ aPc'[c] = "asking" /\ c \notin netHeld
          BY <1>2, <4>2 DEF InNetQueue
        <5>2. QED BY <1>4, <3>4, <4>2, <5>1
      <4>3. QED BY <4>1, <4>2
    <3>6. \A c \in Client : /\ c \in netHeld => aPc'[c] \in {"asking", "sending"}
                            /\ aPc'[c] = "sending" => c \in netHeld
      BY <1>2, <1>4, <2>2
    <3>7. Settling(limit, q, netHeld, active, byLane)
      BY <1>4, <3>4, <3>5, <3>6 DEF Settling
    <3>8. QED BY <3>1, <3>7, NetworkSettles
  <2>3. QED BY <2>1, <2>2
<1>7. QED BY <1>2, <1>3, <1>6 DEF AdmissionInv

LEMMA SetLimitStep ==
  ASSUME Admission!AdmissionAssumption, AdmissionInv, Admission!SetLimit
  PROVE  AdmissionInv' /\ ShareKept
<1>1. /\ UNCHANGED <<aPc, memQueue, memHeld, memCount, memBytes>>
      /\ aPc \in [Client -> Waypoint] /\ MemoryInv /\ MemoryConserved /\ NetworkInv
  BY DEF AdmissionInv, Admission!SetLimit, Admission!memory
<1>2. PICK lim \in Limits : Admission!NetSettle(lim, netQueue, netHeld, active, byLane)
  BY DEF Admission!SetLimit
<1>3. MemoryInv' /\ MemoryConserved'
  BY <1>1, MemoryKept DEF MemoryInv
<1>4. NetworkInv' /\ NetworkConserved' /\ ShareKept
  <2>1. \A k \in Admission!Lane : \A c :
          Contains(netQueue[k], c)
            <=> c \in Client /\ LaneOf[c] = k /\ aPc'[c] = "asking" /\ c \notin netHeld
    BY <1>1 DEF NetworkInv, InNetQueue
  <2>2. Settling(lim, netQueue, netHeld, active, byLane)
    BY <1>1, <2>1 DEF NetworkInv, Settling
  <2>3. QED BY <1>2, <2>2, NetworkSettles
<1>5. QED BY <1>1, <1>3, <1>4 DEF AdmissionInv

LEMMA AdmissionStarts ==
  ASSUME Admission!AdmissionAssumption, Admission!Init
  PROVE  AdmissionInv
<1>1. \A S : S = {} => Cardinality(Admission!In("ecot", S)) = 0 /\ Cardinality(Admission!In("grd", S)) = 0
  BY FS_EmptySet DEF Admission!In
<1>2. /\ \A c : ~ Contains(<<>>, c)
      /\ NoRepeats(<<>>) /\ <<>> \in Seq(Client) /\ IsFiniteSet({})
  BY FS_EmptySet DEF Contains, NoRepeats
<1>3. \A k \in Admission!Lane : MemorySlots[k] \in Nat /\ Budget[k] \in Nat
  BY DEF Admission!AdmissionAssumption
<1>4. aPc = [c \in Client |-> "idle"] /\ aPc \in [Client -> Waypoint]
  BY DEF Admission!Init, Waypoint
<1>5. MemoryInv
  <2>1. \A k \in Admission!Lane : memQueue[k] = <<>> /\ memCount[k] = 0 /\ memBytes[k] = 0
    BY DEF Admission!Init
  <2>2. memHeld = {} /\ \A k \in Admission!Lane : Cardinality(Admission!In(k, memHeld)) = 0
    BY <1>1 DEF Admission!Init, Admission!Lane
  <2>3. \A k \in Admission!Lane : \A c : ~ InMemQueue(k, c)
    BY <1>4 DEF InMemQueue
  <2>4. /\ memQueue \in [Admission!Lane -> Seq(Client)] /\ memCount \in [Admission!Lane -> Int]
        /\ memBytes \in [Admission!Lane -> Int]
    BY <1>2 DEF Admission!Init
  <2>5. QED BY <1>2, <1>3, <1>4, <2>1, <2>2, <2>3, <2>4 DEF MemoryInv
<1>6. NetworkInv
  <2>1. \A k \in Admission!Lane : netQueue[k] = <<>> /\ byLane[k] = 0
    BY DEF Admission!Init
  <2>2. netHeld = {} /\ \A k \in Admission!Lane : Cardinality(Admission!In(k, netHeld)) = 0
    BY <1>1 DEF Admission!Init, Admission!Lane
  <2>3. \A k \in Admission!Lane : \A c : ~ InNetQueue(k, c)
    BY <1>4 DEF InNetQueue
  <2>4. /\ netQueue \in [Admission!Lane -> Seq(Client)] /\ byLane \in [Admission!Lane -> Int]
        /\ active = 0 /\ limit \in Limits
    BY <1>2 DEF Admission!Init
  <2>5. active = byLane["ecot"] + byLane["grd"]
    BY <2>1, <2>4 DEF Admission!Lane
  <2>6. QED BY <1>2, <1>4, <2>1, <2>2, <2>3, <2>4, <2>5 DEF NetworkInv
<1>7. MemoryConserved /\ NetworkConserved
  BY DEF Admission!Init, MemoryConserved, NetworkConserved, Admission!Lane
<1>8. QED BY <1>4, <1>5, <1>6, <1>7 DEF AdmissionInv

LEMMA AdmissionStep ==
  ASSUME Admission!AdmissionAssumption, AdmissionInv, [Admission!Next]_(Admission!vars)
  PROVE  AdmissionInv' /\ (ShareKept \/ UNCHANGED Admission!vars)
<1>1. ASSUME NEW r \in Client,
             \/ Admission!Reserve(r) \/ Admission!Reserved(r) \/ Admission!LeaveMemory(r)
             \/ Admission!Ask(r) \/ Admission!Send(r) \/ Admission!Release(r)
      PROVE  AdmissionInv' /\ ShareKept
  BY <1>1, ReserveStep, NoticeStep, LeaveMemoryStep, AskStep, ReleaseStep
<1>2. ASSUME Admission!SetLimit PROVE AdmissionInv' /\ ShareKept
  BY <1>2, SetLimitStep
<1>3. ASSUME UNCHANGED Admission!vars PROVE AdmissionInv'
  <2>1. UNCHANGED <<aPc, memQueue, memHeld, memCount, memBytes, limit, netQueue, netHeld, active, byLane>>
    BY <1>3 DEF Admission!vars, Admission!memory, Admission!network
  <2>2. /\ MemoryInv /\ MemoryConserved /\ NetworkInv /\ NetworkConserved
        /\ aPc \in [Client -> Waypoint]
    BY DEF AdmissionInv
  <2>3. MemoryInv' /\ MemoryConserved'
    BY <2>1, <2>2, MemoryKept DEF MemoryInv
  <2>4. NetworkInv' /\ NetworkConserved'
    BY <2>1, <2>2, NetworkKept
  <2>5. QED BY <2>1, <2>2, <2>3, <2>4 DEF AdmissionInv
<1>4. QED BY <1>1, <1>2, <1>3 DEF Admission!Next

(* The queues and counters of the admission are consistent in every state. *)
THEOREM AdmissionInvariant ==
  Admission!AdmissionAssumption => (Admission!Spec => []AdmissionInv)
<1>1. SUFFICES ASSUME Admission!AdmissionAssumption PROVE Admission!Spec => []AdmissionInv
  OBVIOUS
<1>2. Admission!Init => AdmissionInv
  BY <1>1, AdmissionStarts
<1>3. AdmissionInv /\ [Admission!Next]_(Admission!vars) => AdmissionInv'
  BY <1>1, AdmissionStep
<1>4. QED BY <1>2, <1>3, PTL DEF Admission!Spec

(* No capacity is left idle while a request waits that may have it.        *)
THEOREM NothingIsIdle ==
  Admission!AdmissionAssumption => (Admission!Spec => []WorkConserving)
<1>1. AdmissionInv => WorkConserving
  BY DEF AdmissionInv, MemoryConserved, NetworkConserved, WorkConserving, Admission!WorkConserving
<1>2. QED BY <1>1, AdmissionInvariant, PTL

(* While grd waits, ecot is granted nothing beyond its share.              *)
THEOREM ShareOfGrd ==
  Admission!AdmissionAssumption => (Admission!Spec => GrdShare)
<1>1. SUFFICES ASSUME Admission!AdmissionAssumption PROVE Admission!Spec => GrdShare
  OBVIOUS
<1>2. AdmissionInv /\ [Admission!Next]_(Admission!vars)
        => [netQueue'["grd"] # <<>> /\ Admission!In("ecot", netHeld' \ netHeld) # {}
              => byLane'["ecot"] <= Admission!EcotShare(limit')]_(Admission!vars)
  BY <1>1, AdmissionStep DEF ShareKept
<1>3. QED BY <1>1, <1>2, AdmissionInvariant, PTL DEF Admission!Spec, GrdShare, Admission!GrdShare

=============================================================================
