------------------------------ MODULE LasProofs ------------------------------
(***************************************************************************)
(* Proofs about the two clients of the LAS service: the customer operator  *)
(* (LasOperator), for any number of callers, submissions, faulty           *)
(* submissions and deaths, and the vendored pipeline (LasSample, as the    *)
(* instance Sample of MC_Las), for any number of tasks, URLs and faults.   *)
(*                                                                         *)
(* IndInv follows the one live task of the operator's request: from the    *)
(* fallback journal it may start in, over the caller that was told its     *)
(* identity, to the local journal.  SampleInv follows a request of the     *)
(* pipeline from its journal over the cached answer to the files derived   *)
(* from it.                                                                *)
(***************************************************************************)
EXTENDS MC_Las, FiniteSetTheorems, TLAPS

Inside == {"publish", "submit", "accepted", "polling", "recording"}

(* One caller is in the critical section, and it is the one with the lock. *)
LockHeld ==
  /\ \A c \in Caller : c \in lock <=> pc[c] \in Inside
  /\ \A c, d \in lock : c = d

(* Tasks are started in the order of the submissions.                      *)
StartedInOrder ==
  /\ \A k \in Task : k > submits => remote[k] = "none"
  /\ \A c \in Caller : pc[c] = "submit" =>
       /\ task[c] > 0 /\ task[c] <= submits
       /\ remote[task[c]] = "none" /\ (byUrl \/ task[c] \in objects) /\ ~ abandon[c]

(* What the caller in the critical section knows of the journal: the others *)
(* can only set it aside.                                                  *)
Pending(k) == [task |-> k, status |-> "PENDING"]
JournalOfHolder ==
  \A c \in Caller :
    /\ pc[c] \in {"publish", "submit", "accepted"} => journal = NoJournal
    /\ pc[c] \in {"polling", "recording"} => journal \in {NoJournal, Pending(task[c])}
    /\ pc[c] = "recording" => remote[task[c]] \in Terminal

(* A running task that was not given up is known.                          *)
LiveIsKnown ==
  \A k \in Task : remote[k] = "running" /\ k \notin GivenUp =>
    \/ journal = Pending(k)
    \/ \E c \in Caller : pc[c] = "accepted" /\ task[c] = k
    \/ k = 0 /\ journal = NoJournal

(* As long as the task of the fallback journal lives, the callers do no    *)
(* more than look at it.                                                   *)
FallbackFirst ==
  remote[0] = "running" /\ 0 \notin GivenUp =>
    /\ fallback = Pending(0) /\ ~ marked /\ submits = 0
    /\ journal \in {NoJournal, Pending(0)}
    /\ \A c \in Caller : pc[c] \in {"idle", "calling", "polling"}
                         /\ (pc[c] = "polling" => task[c] = 0)

(* Only a caller that saw no archive of a stale task may write one.        *)
StaleOnce ==
  /\ stale = {} \/ \E k \in Task : stale = {k}
  /\ \A c \in Caller : pc[c] = "polling" /\ abandon[c] => stale = {}
  /\ \A c \in Caller : pc[c] = "accepted" => ~ abandon[c]

(* A reference is of one call, and exists until this one closes it.        *)
References ==
  /\ \A c \in Caller : \A k \in mine[c] : byUrl /\ k \in objects /\ k <= submits
  /\ \A c, d \in Caller : c # d => mine[c] \cap mine[d] = {}

IndInv ==
  /\ TypeOK /\ LockHeld /\ StartedInOrder /\ JournalOfHolder
  /\ LiveIsKnown /\ FallbackFirst /\ StaleOnce /\ References /\ MediaOutlivesTask

-----------------------------------------------------------------------------
LEMMA TaskType == 0 \in Task /\ Task \subseteq Nat /\ MaxSubmits \in Task
  BY OperatorAssumption DEF Task

LEMMA LoadedType == TypeOK => Loaded \in Journal \cup {NoJournal}
  BY DEF TypeOK, Loaded

(* Callers outside touch at most the journal they promote.                *)
LEMMA RaiseTypes ==
  ASSUME TypeOK, NEW c \in Caller, Raise(c)
  PROVE  /\ pc' \in [Caller -> {"idle", "calling", "publish", "submit", "accepted", "polling",
                                 "recording", "parse", "marking", "answered"}]
         /\ task' \in [Caller -> Task] /\ abandon' \in [Caller -> BOOLEAN]
         /\ lock' \subseteq Caller
  BY TaskType DEF TypeOK, Raise, Goto

LEMMA MediaStays ==
  ASSUME IndInv, UNCHANGED <<remote, media, submits, unheard>>
  PROVE  References' /\ MediaOutlivesTask'
  BY DEF IndInv, References, MediaOutlivesTask, media

LEMMA CachedCallInv == ASSUME IndInv, NEW c \in Caller, CachedCall(c) PROVE IndInv'
<1>. USE TaskType, LoadedType DEF IndInv, TypeOK, CachedCall, Goto, archives, service, media, Free
<1>1. TypeOK'
  BY DEF Journal, NoJournal, Ended, Terminal
<1>2. LockHeld' /\ StartedInOrder'
  BY DEF Inside, LockHeld, StartedInOrder, JournalOfHolder, NoJournal
<1>3. JournalOfHolder'
  BY DEF Inside, LockHeld, JournalOfHolder, NoJournal, Journal, Pending, Loaded, StartedInOrder, Terminal
<1>4. LiveIsKnown'
  BY DEF Inside, LockHeld, StartedInOrder, JournalOfHolder, LiveIsKnown, FallbackFirst,
         GivenUp, Loaded, Pending, NoJournal, Terminal
<1>5. FallbackFirst'
  BY DEF FallbackFirst, GivenUp, Loaded, Pending, NoJournal, Terminal, StartedInOrder, JournalOfHolder
<1>6. StaleOnce'
  BY DEF Inside, LockHeld, StartedInOrder, StaleOnce, NeverAbandoned, Terminal
<1>7. References' /\ MediaOutlivesTask'
  BY DEF Inside, LockHeld, StartedInOrder, References, MediaOutlivesTask, Terminal
<1>8. QED BY <1>1, <1>2, <1>3, <1>4, <1>5, <1>6, <1>7 DEF IndInv

LEMMA CallBeginInv == ASSUME IndInv, NEW c \in Caller, CallBegin(c) PROVE IndInv'
<1>. USE TaskType, LoadedType DEF IndInv, TypeOK, CallBegin, Goto, archives, service, media, Free
<1>1. TypeOK'
  <2>1. /\ pc' \in [Caller -> {"idle", "calling", "publish", "submit", "accepted", "polling",
                             "recording", "parse", "marking", "answered"}]
        /\ task' \in [Caller -> Task] /\ abandon' \in [Caller -> BOOLEAN]
        /\ lock' \subseteq Caller
    <3>1. \A old \in BOOLEAN : (old /\ NeverAbandoned) \in BOOLEAN
      OBVIOUS
    <3>2. ASSUME NEW b \in BOOLEAN PROVE [abandon EXCEPT ![c] = b] \in [Caller -> BOOLEAN]
      OBVIOUS
    <3>3. abandon' \in [Caller -> BOOLEAN]
      <4>. HIDE DEF TypeOK, IndInv, Goto, Free
      <4>1. UNCHANGED abandon
            \/ \E old \in BOOLEAN : abandon' = [abandon EXCEPT ![c] = old /\ NeverAbandoned]
        BY Zenon
      <4>2. abandon \in [Caller -> BOOLEAN]
        BY DEF IndInv, TypeOK
      <4>3. QED BY <3>1, <3>2, <4>1, <4>2, Zenon
    <3>4. /\ \E l \in {"parse", "publish", "polling"} : Goto(c, l)
          /\ task' = [task EXCEPT ![c] = Loaded.task]
          /\ lock' = lock \/ lock' = lock \cup {c}
      <4>. HIDE DEF TypeOK, IndInv, Goto, Free
      <4>. QED BY Zenon
    <3>5. /\ task' \in [Caller -> Task] /\ lock' \subseteq Caller
          /\ pc' \in [Caller -> {"idle", "calling", "publish", "submit", "accepted", "polling",
                                  "recording", "parse", "marking", "answered"}]
      <4>. HIDE DEF CallBegin
      <4>. QED BY <3>4 DEF Journal, NoJournal
    <3>6. QED BY <3>3, <3>5, Zenon
  <2>2. /\ journal' \in Journal \cup {NoJournal} /\ fallback' \in Journal \cup {NoJournal}
        /\ marked' \in BOOLEAN
        /\ stale' \subseteq Task /\ mismatched' \subseteq Task /\ setAside' \subseteq Task
    BY DEF Journal, NoJournal
  <2>3. /\ remote' \in [Task -> Ended \cup {"none", "running", "foreign"}]
        /\ byUrl' \in BOOLEAN /\ mine' \in [Caller -> SUBSET Task]
        /\ objects' \subseteq Task /\ submits' \in Task /\ unheard' \subseteq Task
        /\ faults' \in 0 .. MaxFaults
    BY OperatorAssumption
  <2>4. QED BY <2>1, <2>2, <2>3 DEF TypeOK
<1>2. LockHeld' /\ StartedInOrder'
  BY DEF Inside, LockHeld, StartedInOrder, JournalOfHolder, NoJournal
<1>3. JournalOfHolder'
  BY DEF Inside, LockHeld, JournalOfHolder, NoJournal, Journal, Pending, Loaded, StartedInOrder, Terminal
<1>4. LiveIsKnown'
  BY DEF Inside, LockHeld, StartedInOrder, JournalOfHolder, LiveIsKnown, FallbackFirst,
         GivenUp, Loaded, Pending, NoJournal, Terminal
<1>5. FallbackFirst'
  BY DEF FallbackFirst, GivenUp, Loaded, Pending, NoJournal, Terminal, StartedInOrder, JournalOfHolder
<1>6. StaleOnce'
  <2>1. stale' = {} \/ \E k \in Task : stale' = {k}
    BY DEF StaleOnce, JournalOfHolder, Journal, NoJournal
  <2>2. ASSUME NEW d \in Caller, pc'[d] = "polling", abandon'[d] PROVE stale' = {}
    <3>1. CASE d = c
      BY <2>2, <3>1 DEF NeverAbandoned, StaleOnce
    <3>2. CASE d # c
      <4>1. pc[d] = "polling" /\ abandon[d] /\ UNCHANGED stale
        BY <2>2, <3>2
      <4>2. QED BY <4>1 DEF StaleOnce
    <3>3. QED BY <3>1, <3>2
  <2>3. ASSUME NEW d \in Caller, pc'[d] = "accepted" PROVE ~ abandon'[d]
    BY <2>3 DEF StaleOnce, StartedInOrder
  <2>4. QED BY <2>1, <2>2, <2>3 DEF StaleOnce
<1>7. References' /\ MediaOutlivesTask'
  BY DEF Inside, LockHeld, StartedInOrder, References, MediaOutlivesTask, Terminal
<1>8. QED BY <1>1, <1>2, <1>3, <1>4, <1>5, <1>6, <1>7 DEF IndInv

LEMMA PollTerminalInv == ASSUME IndInv, NEW c \in Caller, PollTerminal(c) PROVE IndInv'
<1>. USE TaskType, LoadedType DEF IndInv, TypeOK, PollTerminal, Cleanup, Goto, archives, service, media
<1>1. TypeOK'
  BY DEF Journal, NoJournal, Ended, Terminal
<1>2. LockHeld' /\ StartedInOrder'
  BY DEF Inside, LockHeld, StartedInOrder, JournalOfHolder, NoJournal
<1>3. JournalOfHolder'
  BY DEF Inside, LockHeld, JournalOfHolder, NoJournal, Journal, Pending, Loaded, StartedInOrder, Terminal
<1>4. LiveIsKnown'
  BY DEF Inside, LockHeld, StartedInOrder, JournalOfHolder, LiveIsKnown, FallbackFirst,
         GivenUp, Loaded, Pending, NoJournal, Terminal
<1>5. FallbackFirst'
  BY DEF FallbackFirst, GivenUp, Loaded, Pending, NoJournal, Terminal, StartedInOrder, JournalOfHolder
<1>6. StaleOnce'
  BY DEF Inside, LockHeld, StartedInOrder, StaleOnce, NeverAbandoned, Terminal
<1>7. References' /\ MediaOutlivesTask'
  BY DEF Inside, LockHeld, StartedInOrder, References, MediaOutlivesTask, Terminal
<1>8. QED BY <1>1, <1>2, <1>3, <1>4, <1>5, <1>6, <1>7 DEF IndInv

LEMMA RecordTerminalInv == ASSUME IndInv, NEW c \in Caller, RecordTerminal(c) PROVE IndInv'
<1>. USE TaskType, LoadedType DEF IndInv, TypeOK, RecordTerminal, Raise, Goto, archives, service, media
<1>1. TypeOK'
  <2>1. /\ pc' \in [Caller -> {"idle", "calling", "publish", "submit", "accepted", "polling",
                             "recording", "parse", "marking", "answered"}]
        /\ task' \in [Caller -> Task] /\ abandon' \in [Caller -> BOOLEAN]
        /\ lock' \subseteq Caller
    BY RaiseTypes
  <2>2. /\ journal' \in Journal \cup {NoJournal} /\ fallback' \in Journal \cup {NoJournal}
        /\ marked' \in BOOLEAN
        /\ stale' \subseteq Task /\ mismatched' \subseteq Task /\ setAside' \subseteq Task
    BY DEF Journal, NoJournal
  <2>3. /\ remote' \in [Task -> Ended \cup {"none", "running", "foreign"}]
        /\ byUrl' \in BOOLEAN /\ mine' \in [Caller -> SUBSET Task]
        /\ objects' \subseteq Task /\ submits' \in Task /\ unheard' \subseteq Task
        /\ faults' \in 0 .. MaxFaults
    BY OperatorAssumption
  <2>4. QED BY <2>1, <2>2, <2>3 DEF TypeOK
<1>2. LockHeld' /\ StartedInOrder'
  BY DEF Inside, LockHeld, StartedInOrder, JournalOfHolder, NoJournal
<1>3. JournalOfHolder'
  BY DEF Inside, LockHeld, JournalOfHolder, NoJournal, Journal, Pending, Loaded, StartedInOrder, Terminal
<1>4. LiveIsKnown'
  BY DEF Inside, LockHeld, StartedInOrder, JournalOfHolder, LiveIsKnown, FallbackFirst,
         GivenUp, Loaded, Pending, NoJournal, Terminal
<1>5. FallbackFirst'
  BY DEF FallbackFirst, GivenUp, Loaded, Pending, NoJournal, Terminal, StartedInOrder, JournalOfHolder
<1>6. StaleOnce'
  BY DEF Inside, LockHeld, StartedInOrder, StaleOnce, NeverAbandoned, Terminal
<1>7. References' /\ MediaOutlivesTask'
  BY DEF Inside, LockHeld, StartedInOrder, References, MediaOutlivesTask, Terminal
<1>8. QED BY <1>1, <1>2, <1>3, <1>4, <1>5, <1>6, <1>7 DEF IndInv

LEMMA PollEndsInv == ASSUME IndInv, NEW c \in Caller, SummaryMissing(c) \/ PollTimeout(c) PROVE IndInv'
<1>. USE TaskType, LoadedType DEF IndInv, TypeOK, SummaryMissing, PollTimeout, Raise, Goto, archives, service, media
<1>1. TypeOK'
  <2>1. /\ pc' \in [Caller -> {"idle", "calling", "publish", "submit", "accepted", "polling",
                             "recording", "parse", "marking", "answered"}]
        /\ task' \in [Caller -> Task] /\ abandon' \in [Caller -> BOOLEAN]
        /\ lock' \subseteq Caller
    BY RaiseTypes
  <2>2. /\ journal' \in Journal \cup {NoJournal} /\ fallback' \in Journal \cup {NoJournal}
        /\ marked' \in BOOLEAN
        /\ stale' \subseteq Task /\ mismatched' \subseteq Task /\ setAside' \subseteq Task
    OBVIOUS
  <2>3. /\ remote' \in [Task -> Ended \cup {"none", "running", "foreign"}]
        /\ byUrl' \in BOOLEAN /\ mine' \in [Caller -> SUBSET Task]
        /\ objects' \subseteq Task /\ submits' \in Task /\ unheard' \subseteq Task
        /\ faults' \in 0 .. MaxFaults
    OBVIOUS
  <2>4. QED BY <2>1, <2>2, <2>3 DEF TypeOK
<1>2. LockHeld' /\ StartedInOrder'
  BY DEF Inside, LockHeld, StartedInOrder, JournalOfHolder, NoJournal
<1>3. JournalOfHolder'
  BY DEF Inside, LockHeld, JournalOfHolder, NoJournal, Journal, Pending, Loaded, StartedInOrder, Terminal
<1>4. LiveIsKnown'
  BY DEF Inside, LockHeld, StartedInOrder, JournalOfHolder, LiveIsKnown, FallbackFirst,
         GivenUp, Loaded, Pending, NoJournal, Terminal
<1>5. FallbackFirst'
  BY DEF FallbackFirst, GivenUp, Loaded, Pending, NoJournal, Terminal, StartedInOrder, JournalOfHolder
<1>6. StaleOnce'
  <2>1. stale' = {} \/ \E k \in Task : stale' = {k}
    BY DEF StaleOnce, JournalOfHolder, Journal, NoJournal
  <2>2. ASSUME NEW d \in Caller, pc'[d] = "polling", abandon'[d] PROVE stale' = {}
    BY <2>2 DEF Inside, LockHeld, StartedInOrder, StaleOnce, NeverAbandoned
  <2>3. ASSUME NEW d \in Caller, pc'[d] = "accepted" PROVE ~ abandon'[d]
    BY <2>3 DEF StaleOnce, StartedInOrder
  <2>4. QED BY <2>1, <2>2, <2>3 DEF StaleOnce
<1>7. References' /\ MediaOutlivesTask'
  BY MediaStays
<1>8. QED BY <1>1, <1>2, <1>3, <1>4, <1>5, <1>6, <1>7 DEF IndInv

LEMMA AbandonInv == ASSUME IndInv, NEW c \in Caller, Abandon(c) PROVE IndInv'
<1>. USE TaskType, LoadedType DEF IndInv, TypeOK, Abandon, Raise, Goto, service, media
<1>1. TypeOK'
  BY RaiseTypes DEF Journal, NoJournal, Ended, Terminal
<1>2. LockHeld' /\ StartedInOrder'
  BY DEF Inside, LockHeld, StartedInOrder, JournalOfHolder, NoJournal
<1>3. JournalOfHolder'
  BY DEF Inside, LockHeld, JournalOfHolder, NoJournal, Journal, Pending, Loaded, StartedInOrder, Terminal
<1>4. LiveIsKnown'
  BY DEF Inside, LockHeld, StartedInOrder, JournalOfHolder, LiveIsKnown, FallbackFirst,
         GivenUp, Loaded, Pending, NoJournal, Terminal
<1>5. FallbackFirst'
  BY DEF FallbackFirst, GivenUp, Loaded, Pending, NoJournal, Terminal, StartedInOrder, JournalOfHolder
<1>6. StaleOnce'
  <2>1. stale' = {} \/ \E k \in Task : stale' = {k}
    <3>1. CASE stale' = stale
      BY <3>1 DEF StaleOnce
    <3>2. CASE stale' = stale \cup {journal.task} /\ journal # NoJournal
      <4>1. stale = {} /\ journal.task \in Task
        BY <3>2 DEF StaleOnce, Journal
      <4>2. QED BY <3>2, <4>1
    <3>3. QED BY <3>1, <3>2
  <2>2. ASSUME NEW d \in Caller, pc'[d] = "polling", abandon'[d] PROVE stale' = {}
    BY <2>2 DEF Inside, LockHeld, StartedInOrder, StaleOnce, NeverAbandoned
  <2>3. ASSUME NEW d \in Caller, pc'[d] = "accepted" PROVE ~ abandon'[d]
    BY <2>3 DEF StaleOnce, StartedInOrder
  <2>4. QED BY <2>1, <2>2, <2>3 DEF StaleOnce
<1>7. References' /\ MediaOutlivesTask'
  BY DEF Inside, LockHeld, StartedInOrder, References, MediaOutlivesTask, Terminal
<1>8. QED BY <1>1, <1>2, <1>3, <1>4, <1>5, <1>6, <1>7 DEF IndInv

LEMMA MismatchInv == ASSUME IndInv, NEW c \in Caller, Mismatch(c) PROVE IndInv'
<1>. USE TaskType, LoadedType DEF IndInv, TypeOK, Mismatch, Goto, service, media
<1>1. TypeOK'
  BY DEF Journal, NoJournal, Ended, Terminal
<1>2. LockHeld' /\ StartedInOrder'
  BY DEF Inside, LockHeld, StartedInOrder, JournalOfHolder, NoJournal
<1>3. JournalOfHolder'
  BY DEF Inside, LockHeld, JournalOfHolder, NoJournal, Journal, Pending, Loaded, StartedInOrder, Terminal
<1>4. LiveIsKnown'
  BY DEF Inside, LockHeld, StartedInOrder, JournalOfHolder, LiveIsKnown, FallbackFirst,
         GivenUp, Loaded, Pending, NoJournal, Terminal
<1>5. FallbackFirst'
  BY DEF FallbackFirst, GivenUp, Loaded, Pending, NoJournal, Terminal, StartedInOrder, JournalOfHolder
<1>6. StaleOnce'
  BY DEF Inside, LockHeld, StartedInOrder, StaleOnce, NeverAbandoned, Terminal
<1>7. References' /\ MediaOutlivesTask'
  BY DEF Inside, LockHeld, StartedInOrder, References, MediaOutlivesTask, Terminal
<1>8. QED BY <1>1, <1>2, <1>3, <1>4, <1>5, <1>6, <1>7 DEF IndInv

LEMMA SubmitInv == ASSUME IndInv, NEW c \in Caller, Submit(c) PROVE IndInv'
<1>. USE TaskType, LoadedType DEF IndInv, TypeOK, Submit, Goto, archives, media
<1>1. TypeOK'
  BY DEF Journal, NoJournal, Ended, Terminal
<1>2. LockHeld' /\ StartedInOrder'
  <2>1. LockHeld'
    BY DEF Inside, LockHeld
  <2>2. \A k \in Task : k > submits' => remote'[k] = "none"
    BY DEF StartedInOrder
  <2>3. ASSUME NEW d \in Caller, pc'[d] = "submit"
        PROVE  /\ task'[d] > 0 /\ task'[d] <= submits'
               /\ remote'[task'[d]] = "none" /\ (byUrl' \/ task'[d] \in objects') /\ ~ abandon'[d]
    BY <2>3 DEF StartedInOrder, LockHeld, Inside
  <2>4. QED BY <2>1, <2>2, <2>3 DEF StartedInOrder
<1>3. JournalOfHolder'
  BY DEF Inside, LockHeld, JournalOfHolder, NoJournal, Journal, Pending, Loaded, StartedInOrder, Terminal
<1>4. LiveIsKnown'
  BY DEF Inside, LockHeld, StartedInOrder, JournalOfHolder, LiveIsKnown, FallbackFirst,
         GivenUp, Loaded, Pending, NoJournal, Terminal
<1>5. FallbackFirst'
  BY DEF FallbackFirst, GivenUp, Loaded, Pending, NoJournal, Terminal, StartedInOrder, JournalOfHolder
<1>6. StaleOnce'
  BY DEF Inside, LockHeld, StartedInOrder, StaleOnce, NeverAbandoned, Terminal
<1>7. References' /\ MediaOutlivesTask'
  BY DEF Inside, LockHeld, StartedInOrder, References, MediaOutlivesTask, Terminal
<1>8. QED BY <1>1, <1>2, <1>3, <1>4, <1>5, <1>6, <1>7 DEF IndInv

LEMMA SubmitErrorInv == ASSUME IndInv, NEW c \in Caller, SubmitError(c) PROVE IndInv'
<1>. USE TaskType, LoadedType DEF IndInv, TypeOK, SubmitError, Cleanup, Raise, Goto, archives
<1>1. TypeOK'
  <2>1. /\ pc' \in [Caller -> {"idle", "calling", "publish", "submit", "accepted", "polling",
                             "recording", "parse", "marking", "answered"}]
        /\ task' \in [Caller -> Task] /\ abandon' \in [Caller -> BOOLEAN]
        /\ lock' \subseteq Caller
    BY RaiseTypes
  <2>2. /\ journal' \in Journal \cup {NoJournal} /\ fallback' \in Journal \cup {NoJournal}
        /\ marked' \in BOOLEAN
        /\ stale' \subseteq Task /\ mismatched' \subseteq Task /\ setAside' \subseteq Task
    BY DEF Journal, NoJournal
  <2>3. /\ remote' \in [Task -> Ended \cup {"none", "running", "foreign"}]
        /\ byUrl' \in BOOLEAN /\ mine' \in [Caller -> SUBSET Task]
        /\ objects' \subseteq Task /\ submits' \in Task /\ unheard' \subseteq Task
        /\ faults' \in 0 .. MaxFaults
    <3>1. task[c] \in Task
      OBVIOUS
    <3>2. remote' \in [Task -> Ended \cup {"none", "running", "foreign"}]
      BY <3>1 DEF Ended, Terminal
    <3>3. /\ byUrl' \in BOOLEAN /\ mine' \in [Caller -> SUBSET Task]
          /\ objects' \subseteq Task /\ submits' \in Task /\ unheard' \subseteq Task
      BY <3>1
    <3>4. faults' \in 0 .. MaxFaults
      BY OperatorAssumption
    <3>5. QED BY <3>2, <3>3, <3>4
  <2>4. QED BY <2>1, <2>2, <2>3 DEF TypeOK
<1>2. LockHeld' /\ StartedInOrder'
  <2>1. LockHeld'
    BY DEF Inside, LockHeld
  <2>2. \A k \in Task : k > submits' => remote'[k] = "none"
    BY DEF StartedInOrder
  <2>3. ASSUME NEW d \in Caller, pc'[d] = "submit"
        PROVE  /\ task'[d] > 0 /\ task'[d] <= submits'
               /\ remote'[task'[d]] = "none" /\ (byUrl' \/ task'[d] \in objects') /\ ~ abandon'[d]
    BY <2>3 DEF StartedInOrder, LockHeld, Inside
  <2>4. QED BY <2>1, <2>2, <2>3 DEF StartedInOrder
<1>3. JournalOfHolder'
  BY DEF Inside, LockHeld, JournalOfHolder, NoJournal, Journal, Pending, Loaded, StartedInOrder, Terminal
<1>4. LiveIsKnown'
  BY DEF Inside, LockHeld, StartedInOrder, JournalOfHolder, LiveIsKnown, FallbackFirst,
         GivenUp, Loaded, Pending, NoJournal, Terminal
<1>5. FallbackFirst'
  BY DEF FallbackFirst, GivenUp, Loaded, Pending, NoJournal, Terminal, StartedInOrder, JournalOfHolder
<1>6. StaleOnce'
  BY DEF Inside, LockHeld, StartedInOrder, StaleOnce, NeverAbandoned, Terminal
<1>7. References' /\ MediaOutlivesTask'
  BY DEF Inside, LockHeld, StartedInOrder, References, MediaOutlivesTask, Terminal
<1>8. QED BY <1>1, <1>2, <1>3, <1>4, <1>5, <1>6, <1>7 DEF IndInv

LEMMA RecordSubmissionInv == ASSUME IndInv, NEW c \in Caller, RecordSubmission(c) PROVE IndInv'
<1>. USE TaskType, LoadedType DEF IndInv, TypeOK, RecordSubmission, Goto, archives, service, media
<1>1. TypeOK'
  BY DEF Journal, NoJournal, Ended, Terminal
<1>2. LockHeld' /\ StartedInOrder'
  BY DEF Inside, LockHeld, StartedInOrder, JournalOfHolder, NoJournal
<1>3. JournalOfHolder'
  BY DEF Inside, LockHeld, JournalOfHolder, NoJournal, Journal, Pending, Loaded, StartedInOrder, Terminal
<1>4. LiveIsKnown'
  BY DEF Inside, LockHeld, StartedInOrder, JournalOfHolder, LiveIsKnown, FallbackFirst,
         GivenUp, Loaded, Pending, NoJournal, Terminal
<1>5. FallbackFirst'
  BY DEF FallbackFirst, GivenUp, Loaded, Pending, NoJournal, Terminal, StartedInOrder, JournalOfHolder
<1>6. StaleOnce'
  BY DEF Inside, LockHeld, StartedInOrder, StaleOnce, NeverAbandoned, Terminal
<1>7. References' /\ MediaOutlivesTask'
  BY DEF Inside, LockHeld, StartedInOrder, References, MediaOutlivesTask, Terminal
<1>8. QED BY <1>1, <1>2, <1>3, <1>4, <1>5, <1>6, <1>7 DEF IndInv

LEMMA AnswerInv == ASSUME IndInv, NEW c \in Caller, Accept(c) \/ SetAside(c) \/ Mark(c) PROVE IndInv'
<1>. USE TaskType, LoadedType DEF IndInv, TypeOK, Accept, SetAside, Mark, Raise, Goto, archives, service, media
<1>1. TypeOK'
  BY RaiseTypes DEF Journal, NoJournal, Ended, Terminal
<1>2. LockHeld' /\ StartedInOrder'
  BY DEF Inside, LockHeld, StartedInOrder, JournalOfHolder, NoJournal
<1>3. JournalOfHolder'
  BY DEF Inside, LockHeld, JournalOfHolder, NoJournal, Journal, Pending, Loaded, StartedInOrder, Terminal
<1>4. LiveIsKnown'
  BY DEF Inside, LockHeld, StartedInOrder, JournalOfHolder, LiveIsKnown, FallbackFirst,
         GivenUp, Loaded, Pending, NoJournal, Terminal
<1>5. FallbackFirst'
  BY DEF FallbackFirst, GivenUp, Loaded, Pending, NoJournal, Terminal, StartedInOrder, JournalOfHolder
<1>6. StaleOnce'
  <2>1. stale' = {} \/ \E k \in Task : stale' = {k}
    BY DEF StaleOnce, JournalOfHolder, Journal, NoJournal
  <2>2. ASSUME NEW d \in Caller, pc'[d] = "polling", abandon'[d] PROVE stale' = {}
    <3>1. stale' = stale
      OBVIOUS
    <3>2. pc[d] = "polling" /\ abandon[d]
      <4>1. CASE Accept(c)
        BY <2>2, <4>1
      <4>2. CASE SetAside(c)
        BY <2>2, <4>2
      <4>3. CASE Mark(c)
        BY <2>2, <4>3
      <4>4. QED BY <4>1, <4>2, <4>3
    <3>3. QED BY <3>1, <3>2 DEF StaleOnce
  <2>3. ASSUME NEW d \in Caller, pc'[d] = "accepted" PROVE ~ abandon'[d]
    BY <2>3 DEF StaleOnce, StartedInOrder
  <2>4. QED BY <2>1, <2>2, <2>3 DEF StaleOnce
<1>7. References' /\ MediaOutlivesTask'
  BY MediaStays
<1>8. QED BY <1>1, <1>2, <1>3, <1>4, <1>5, <1>6, <1>7 DEF IndInv

LEMMA DieInv == ASSUME IndInv, NEW c \in Caller, Die(c) PROVE IndInv'
<1>. USE TaskType, LoadedType DEF IndInv, TypeOK, Die, Raise, Goto, archives
<1>1. TypeOK'
  <2>1. /\ pc' \in [Caller -> {"idle", "calling", "publish", "submit", "accepted", "polling",
                             "recording", "parse", "marking", "answered"}]
        /\ task' \in [Caller -> Task] /\ abandon' \in [Caller -> BOOLEAN]
        /\ lock' \subseteq Caller
    BY RaiseTypes
  <2>2. /\ journal' \in Journal \cup {NoJournal} /\ fallback' \in Journal \cup {NoJournal}
        /\ marked' \in BOOLEAN
        /\ stale' \subseteq Task /\ mismatched' \subseteq Task /\ setAside' \subseteq Task
    BY DEF Journal, NoJournal
  <2>3. /\ remote' \in [Task -> Ended \cup {"none", "running", "foreign"}]
        /\ byUrl' \in BOOLEAN /\ mine' \in [Caller -> SUBSET Task]
        /\ objects' \subseteq Task /\ submits' \in Task /\ unheard' \subseteq Task
        /\ faults' \in 0 .. MaxFaults
    <3>1. task[c] \in Task
      OBVIOUS
    <3>2. remote' \in [Task -> Ended \cup {"none", "running", "foreign"}]
      BY <3>1 DEF Ended, Terminal
    <3>3. /\ byUrl' \in BOOLEAN /\ mine' \in [Caller -> SUBSET Task]
          /\ objects' \subseteq Task /\ submits' \in Task /\ unheard' \subseteq Task
      BY <3>1
    <3>4. faults' \in 0 .. MaxFaults
      BY OperatorAssumption
    <3>5. QED BY <3>2, <3>3, <3>4
  <2>4. QED BY <2>1, <2>2, <2>3 DEF TypeOK
<1>2. LockHeld' /\ StartedInOrder'
  BY DEF Inside, LockHeld, StartedInOrder, JournalOfHolder, NoJournal
<1>3. JournalOfHolder'
  BY DEF Inside, LockHeld, JournalOfHolder, NoJournal, Journal, Pending, Loaded, StartedInOrder, Terminal
<1>4. LiveIsKnown'
  BY DEF Inside, LockHeld, StartedInOrder, JournalOfHolder, LiveIsKnown, FallbackFirst,
         GivenUp, Loaded, Pending, NoJournal, Terminal
<1>5. FallbackFirst'
  BY DEF FallbackFirst, GivenUp, Loaded, Pending, NoJournal, Terminal, StartedInOrder, JournalOfHolder
<1>6. StaleOnce'
  BY DEF Inside, LockHeld, StartedInOrder, StaleOnce, NeverAbandoned, Terminal
<1>7. References' /\ MediaOutlivesTask'
  BY DEF Inside, LockHeld, StartedInOrder, References, MediaOutlivesTask, Terminal
<1>8. QED BY <1>1, <1>2, <1>3, <1>4, <1>5, <1>6, <1>7 DEF IndInv

(* Only an object that exists is published.                                *)
LEMMA OutcomeIsSound == \A f \in Outcome : f.ok \in BOOLEAN /\ (f.ok => f.left)
  BY DEF Outcome, FetchResult

LEMMA PublishInv == ASSUME IndInv, NEW c \in Caller, Publish(c) PROVE IndInv'
<1>. USE TaskType, LoadedType DEF IndInv, TypeOK
<1>1. /\ pc[c] = "publish" /\ submits' = submits + 1 /\ submits' \in Task
      /\ UNCHANGED <<journal, fallback, marked, archives, remote, byUrl, unheard, faults>>
  BY OperatorAssumption DEF Publish, Task
<1>2. /\ objects \subseteq objects' /\ objects' \subseteq Task
      /\ \/ /\ submits' \in objects' /\ lock' = lock /\ Goto(c, "submit")
            /\ task' = [task EXCEPT ![c] = submits']
            /\ abandon' = [abandon EXCEPT ![c] = FALSE]
            /\ mine' = IF byUrl THEN [mine EXCEPT ![c] = @ \cup {submits'}] ELSE mine
         \/ Raise(c) /\ UNCHANGED mine
  BY <1>1, OutcomeIsSound DEF Publish
<1>. HIDE DEF Publish
<1>. USE <1>1, <1>2 DEF archives
<1>3. TypeOK'
  <2>1. CASE Raise(c)
    BY <2>1, RaiseTypes
  <2>2. CASE ~ Raise(c)
    <3>1. /\ pc' = [pc EXCEPT ![c] = "submit"] /\ task' = [task EXCEPT ![c] = submits']
          /\ abandon' = [abandon EXCEPT ![c] = FALSE] /\ lock' = lock
      BY <2>2 DEF Goto
    <3>2. mine' \in [Caller -> SUBSET Task]
      BY <2>2
    <3>3. QED BY <3>1, <3>2
  <2>3. QED BY <2>1, <2>2
<1>4. LockHeld'
  BY DEF Inside, LockHeld, Raise, Goto
<1>5. StartedInOrder'
  <2>1. \A k \in Task : k > submits' => remote'[k] = "none"
    BY DEF StartedInOrder
  <2>2. remote[submits'] = "none"
    BY DEF StartedInOrder
  <2>3. ASSUME NEW d \in Caller, pc'[d] = "submit"
        PROVE  /\ task'[d] > 0 /\ task'[d] <= submits'
               /\ remote'[task'[d]] = "none" /\ (byUrl' \/ task'[d] \in objects') /\ ~ abandon'[d]
    BY <2>2, <2>3 DEF StartedInOrder, LockHeld, Inside, Raise, Goto
  <2>4. QED BY <2>1, <2>3 DEF StartedInOrder
<1>6. JournalOfHolder'
  BY DEF Inside, LockHeld, JournalOfHolder, Raise, Goto
<1>7. LiveIsKnown'
  BY DEF LiveIsKnown, GivenUp, Raise, Goto
<1>8. FallbackFirst'
  BY DEF FallbackFirst, GivenUp
<1>9. StaleOnce' /\ References'
  <2>1. StaleOnce'
    BY DEF StaleOnce, Raise, Goto
  <2>2. \A d \in Caller : submits' \notin mine[d]
                           /\ \A k \in mine[d] : k \in objects' /\ k <= submits'
    <3>1. submits \in Nat /\ \A d \in Caller : \A k \in mine[d] : k \in Nat
      OBVIOUS
    <3>2. QED BY <3>1 DEF References
  <2>3. CASE UNCHANGED mine
    <3>1. \A d \in Caller : \A k \in mine'[d] : k \in mine[d]
      BY <2>3
    <3>2. \A d \in Caller : \A k \in mine'[d] : byUrl' /\ k \in objects' /\ k <= submits'
      BY <2>2, <3>1 DEF References
    <3>3. \A d, e \in Caller : d # e => mine'[d] \cap mine'[e] = {}
      BY <2>3 DEF References
    <3>4. QED BY <2>1, <3>2, <3>3 DEF References
  <2>4. CASE byUrl /\ submits' \in objects' /\ mine' = [mine EXCEPT ![c] = @ \cup {submits'}]
    <3>1. \A d \in Caller : \A k \in mine'[d] : k \in mine[d] \/ (d = c /\ k = submits')
      BY <2>4
    <3>2. \A d \in Caller : \A k \in mine'[d] : byUrl' /\ k \in objects' /\ k <= submits'
      BY <2>2, <2>4, <3>1 DEF References
    <3>3. \A d, e \in Caller : d # e => mine'[d] \cap mine'[e] = {}
      <4>1. ASSUME NEW d \in Caller, NEW e \in Caller, d # e,
                   NEW k \in mine'[d], k \in mine'[e]
            PROVE  FALSE
        <5>1. submits' \notin mine[d] /\ submits' \notin mine[e]
          BY <2>2
        <5>2. k \in mine[d] /\ k \in mine[e]
          BY <3>1, <4>1, <5>1
        <5>3. mine[d] \cap mine[e] = {}
          BY <4>1 DEF References
        <5>4. QED BY <5>2, <5>3
      <4>2. QED BY <4>1
    <3>4. QED BY <2>1, <3>2, <3>3 DEF References
  <2>5. QED BY <2>1, <2>3, <2>4
<1>10. MediaOutlivesTask'
  BY DEF MediaOutlivesTask, StartedInOrder
<1>11. QED BY <1>3, <1>4, <1>5, <1>6, <1>7, <1>8, <1>9, <1>10 DEF IndInv

LEMMA CloseInv == ASSUME IndInv, NEW c \in Caller, Close(c) PROVE IndInv'
<1>. USE TaskType DEF IndInv, TypeOK, Close, callers, archives
<1>1. TypeOK' /\ References'
  BY DEF References
<1>2. LockHeld' /\ JournalOfHolder' /\ LiveIsKnown' /\ FallbackFirst' /\ StaleOnce'
  BY DEF LockHeld, JournalOfHolder, LiveIsKnown, FallbackFirst, StaleOnce, GivenUp
<1>3. StartedInOrder'
  BY DEF StartedInOrder, References
<1>4. MediaOutlivesTask'
  BY DEF MediaOutlivesTask, References
<1>5. QED BY <1>1, <1>2, <1>3, <1>4 DEF IndInv

LEMMA EndInv == ASSUME IndInv, NEW k \in Task, End(k) PROVE IndInv'
<1>. USE TaskType DEF IndInv, TypeOK, End, callers, archives, media
<1>1. TypeOK'
  BY DEF Ended, Terminal
<1>2. LockHeld' /\ StartedInOrder'
  BY DEF LockHeld, StartedInOrder
<1>3. JournalOfHolder'
  BY DEF JournalOfHolder, Ended, Terminal
<1>4. LiveIsKnown' /\ FallbackFirst'
  BY DEF LiveIsKnown, FallbackFirst, GivenUp, Ended, Terminal
<1>5. StaleOnce' /\ References' /\ MediaOutlivesTask'
  BY DEF StaleOnce, References, MediaOutlivesTask, Ended, Terminal
<1>6. QED BY <1>1, <1>2, <1>3, <1>4, <1>5 DEF IndInv

LEMMA InitInv == Init => IndInv
<1>. SUFFICES ASSUME Init PROVE IndInv
  OBVIOUS
<1>. USE TaskType
<1>1. PICK s \in Ended \cup {"running", "foreign", "none"} :
        /\ remote = [k \in Task |-> IF k = 0 THEN s ELSE "none"]
        /\ fallback \in IF s = "none" THEN {NoJournal} ELSE
             {[task |-> 0, status |-> st] : st \in
                {"PENDING"} \cup (CASE s \in {"good", "bad"} -> {"COMPLETED"}
                                    [] s = "failed" -> {"FAILED"} [] OTHER -> {})}
        /\ objects = IF fallback.status = "PENDING" /\ ~ byUrl THEN {0} ELSE {}
  BY DEF Init
<1>2. fallback \in Journal \cup {NoJournal} /\ (s = "running" => fallback = Pending(0))
  BY <1>1 DEF Journal, NoJournal, Pending, Ended, Terminal
<1>3. objects \subseteq Task /\ (s = "running" => byUrl \/ 0 \in objects)
      /\ byUrl \in BOOLEAN /\ mine = [c \in Caller |-> {}]
  BY <1>1, <1>2 DEF Init, Pending
<1>4. TypeOK
  <2>1. 0 \in 0 .. MaxFaults /\ 0 \in Task
    BY OperatorAssumption DEF Task
  <2>2. /\ pc \in [Caller -> {"idle", "calling", "publish", "submit", "accepted", "polling",
                               "recording", "parse", "marking", "answered"}]
        /\ task \in [Caller -> Task] /\ abandon \in [Caller -> BOOLEAN]
    BY <2>1 DEF Init
  <2>3. remote \in [Task -> Ended \cup {"none", "running", "foreign"}]
    BY <1>1
  <2>4. lock \subseteq Caller /\ stale \subseteq Task /\ mismatched \subseteq Task
        /\ setAside \subseteq Task /\ unheard \subseteq Task
    BY DEF Init
  <2>5. journal = NoJournal /\ marked = FALSE /\ submits = 0 /\ faults = 0
    BY DEF Init
  <2>6. QED BY <1>2, <1>3, <2>1, <2>2, <2>3, <2>4, <2>5 DEF TypeOK
<1>5. LockHeld /\ StartedInOrder /\ JournalOfHolder /\ StaleOnce
  BY <1>1 DEF Init, LockHeld, Inside, StartedInOrder, JournalOfHolder, StaleOnce
<1>6. LiveIsKnown /\ FallbackFirst /\ References /\ MediaOutlivesTask
  BY <1>1, <1>2, <1>3 DEF Init, LiveIsKnown, FallbackFirst, References, MediaOutlivesTask
<1>7. QED BY <1>4, <1>5, <1>6 DEF IndInv

(* IndInv is inductive.                                                    *)
THEOREM OperatorInvariant == Spec => []IndInv
<1>1. IndInv /\ [Next]_vars => IndInv'
  <2>. SUFFICES ASSUME IndInv, [Next]_vars PROVE IndInv'
    OBVIOUS
  <2>1. CASE UNCHANGED vars
    BY <2>1 DEF vars, callers, archives, service, IndInv, TypeOK, LockHeld, StartedInOrder,
         JournalOfHolder, LiveIsKnown, FallbackFirst, StaleOnce, References,
         MediaOutlivesTask, GivenUp, media
  <2>2. ASSUME NEW c \in Caller, Acquire(c) PROVE IndInv'
    BY <2>2, CachedCallInv, CallBeginInv DEF Acquire
  <2>3. ASSUME NEW c \in Caller, Step(c) PROVE IndInv'
    BY <2>3, RecordTerminalInv, PollEndsInv, MismatchInv, PublishInv, SubmitInv,
       RecordSubmissionInv, AnswerInv DEF Step
  <2>4. ASSUME NEW c \in Caller,
               \/ PollTerminal(c) \/ PollTimeout(c) \/ Abandon(c)
               \/ SubmitError(c) \/ Close(c) \/ Die(c)
        PROVE  IndInv'
    BY <2>4, PollTerminalInv, PollEndsInv, AbandonInv, SubmitErrorInv, CloseInv, DieInv
  <2>5. ASSUME NEW k \in Task, End(k) PROVE IndInv'
    BY <2>5, EndInv
  <2>6. QED BY <2>1, <2>2, <2>3, <2>4, <2>5 DEF Next, Done
<1>2. QED BY <1>1, InitInv, PTL DEF Spec

(* Every variable has its type.                                            *)
THEOREM OperatorTypes == Spec => []TypeOK
<1>1. IndInv => TypeOK
  BY DEF IndInv
<1>2. QED BY <1>1, OperatorInvariant, PTL

(* At most one task of the request runs, apart from those given up.        *)
THEOREM SingleLiveTask == Spec => []OneLiveTask
<1>1. IndInv => OneLiveTask
  <2>. SUFFICES ASSUME IndInv, NEW j \in Task, NEW k \in Task,
                       remote[j] = "running", remote[k] = "running", {j, k} \cap GivenUp = {}
                PROVE  j = k
    BY DEF OneLiveTask
  <2>1. j \notin GivenUp /\ k \notin GivenUp
    OBVIOUS
  <2>2. ASSUME NEW i \in Task, remote[i] = "running", 0 \notin GivenUp, remote[0] = "running"
        PROVE  i = 0
    BY <2>2, TaskType DEF IndInv, FallbackFirst, StartedInOrder
  <2>3. ASSUME NEW c \in Caller, pc[c] = "accepted", NEW d \in Caller, pc[d] = "accepted"
        PROVE  c = d
    BY <2>3 DEF IndInv, LockHeld, Inside
  <2>4. ASSUME NEW c \in Caller, pc[c] = "accepted" PROVE journal = NoJournal
    BY <2>4 DEF IndInv, JournalOfHolder
  <2>5. QED BY <2>1, <2>2, <2>3, <2>4 DEF IndInv, LiveIsKnown, Pending, NoJournal
<1>2. QED BY <1>1, OperatorInvariant, PTL

(* The media of a task that a journal named outlives the task.             *)
THEOREM MediaKept == Spec => []MediaOutlivesTask
<1>1. IndInv => MediaOutlivesTask
  BY DEF IndInv
<1>2. QED BY <1>1, OperatorInvariant, PTL

(* One resubmission because of age, over all callers, deaths and retries.  *)
THEOREM ResubmittedOnce == Spec => []OneStaleResubmission
<1>1. IndInv => OneStaleResubmission
  <2>. SUFFICES ASSUME IndInv PROVE Cardinality(stale) <= 1
    BY DEF OneStaleResubmission
  <2>1. CASE stale = {}
    BY <2>1, FS_EmptySet
  <2>2. ASSUME NEW k \in Task, stale = {k} PROVE Cardinality(stale) <= 1
    <3>1. Cardinality({k}) = 1
      BY FS_Singleton
    <3>2. QED BY <2>2, <3>1
  <2>3. QED BY <2>1, <2>2 DEF IndInv, StaleOnce
<1>2. QED BY <1>1, OperatorInvariant, PTL
-----------------------------------------------------------------------------
(* The vendored pipeline: what each point of its thread knows, and what    *)
(* the files that survive an earlier attempt may hold.                     *)
Steps == {"step1", "step3"}
Answered == {"good", "bad"}
Dead == {"failed", "bad"}

SampleTypes ==
  /\ step \in Steps /\ video \in Sample!Url /\ url \in Sample!Url
  /\ sTask \in Sample!Task \cup {0} /\ posted \in Sample!Task \cup {0}
  /\ raw \in [Steps -> [request : Sample!Request \cup {<<>>}, task : Sample!Task \cup {0}]]
  /\ {sObjects, context} \subseteq Sample!Task \cup {0, Sample!NoView}
  /\ sJournal \in [Sample!Request -> [task : Sample!Task \cup {0},
                                     status : {"none", "live", "completed", "failed"}]]
  /\ sRemote \in [Sample!Task -> {"none", "running", "good", "bad", "failed"}]
  /\ request \in [Sample!Task -> Sample!Request \cup {<<>>}]
  /\ recorded \subseteq Sample!Task

(* Tasks are started in order, each for a request.                         *)
Posted == \A k \in Sample!Task : k > posted => request[k] = <<>> /\ sRemote[k] = "none"

(* A journal names a task of its request, and every task that one ever     *)
(* named is still named or of no use.                                      *)
Journals ==
  /\ \A q \in Sample!Request :
       IF sJournal[q].status = "none" THEN sJournal[q].task = 0
       ELSE sJournal[q].task \in Sample!Task /\ request[sJournal[q].task] = q
  /\ \A q \in Sample!Request :
       sJournal[q].status = "failed" => sRemote[sJournal[q].task] \in Dead
  /\ \A k \in recorded :
       /\ request[k] \in Sample!Request
       /\ sJournal[request[k]].task = k \/ sRemote[k] \in Dead

(* A cached answer is one of the task that the journal of its request      *)
(* names.                                                                  *)
Caches ==
  \A s \in Steps : IF raw[s].task = 0 THEN raw[s] = Sample!NoRaw ELSE
    /\ raw[s].request \in Sample!Request /\ raw[s].request.step = s
    /\ request[raw[s].task] = raw[s].request /\ sRemote[raw[s].task] \in Answered
    /\ sJournal[raw[s].request].task = raw[s].task

(* The context and the annotation are of the objects on disk, and these of *)
(* the cached answer of step 1.                                            *)
Derived ==
  /\ context # 0 => context = sObjects
  /\ wrist /\ sObjects # 0 => raw["step1"].task = sObjects /\ sRemote[sObjects] = "good"
  /\ ~ wrist => sObjects \in {0, Sample!NoView}
  /\ annotation.segments # 0 =>
       /\ sObjects # 0 /\ annotation.objects = sObjects
       /\ annotation.segments \in Sample!Task
       /\ request[annotation.segments] = Sample!Step3(annotation.url, annotation.objects)
       /\ sRemote[annotation.segments] = "good"
       /\ wrist => raw["step1"].request = Sample!Step1(annotation.url)
  /\ annotation.segments = 0 => annotation = Sample!NoAnnotation

(* What the thread knows where it is.                                      *)
InStep == {"step", "posting", "accepted", "polling", "clear", "answered", "parse", "annotate"}
Thread ==
  /\ ~ preserve
  /\ phase \in InStep \ {"step"} => wrist \/ step = "step3"
  /\ phase = "context" \/ (phase \in InStep /\ step = "step3") =>
       sObjects # 0 /\ (wrist => raw["step1"].request = Sample!Step1(video))
  /\ phase \in InStep /\ step = "step3" => context # 0
  /\ phase \in {"posting", "accepted"} => sJournal[Sample!Asked].status = "none"
  /\ phase \in {"posting", "accepted", "polling", "clear", "answered"} =>
       raw[step].request # Sample!Asked
  /\ phase \in {"accepted", "polling", "clear", "answered"} =>
       sTask \in Sample!Task /\ request[sTask] = Sample!Asked
  /\ phase \in {"polling", "clear", "answered"} => sJournal[Sample!Asked].task = sTask
  /\ phase \in {"clear", "answered"} => sRemote[sTask] \in Answered
  /\ phase = "clear" => step = "step1"
  /\ phase = "answered" /\ step = "step1" =>
       sObjects = 0 /\ context = 0 /\ raw["step3"] = Sample!NoRaw /\ annotation.segments = 0
  /\ phase \in {"parse", "annotate"} => raw[step].task # 0 /\ raw[step].request = Sample!Asked
  /\ phase = "parse" /\ step = "step1" => sObjects = 0
  /\ phase = "annotate" => step = "step3" /\ sRemote[raw[step].task] = "good"
  /\ phase = "rewrite" => annotation.segments # 0
  /\ phase = "quarantine" => Sample!Unparseable
  /\ phase = "done" => annotation.segments # 0 /\ final = annotation

SampleInv == SampleTypes /\ Posted /\ Journals /\ Caches /\ Derived /\ Thread

-----------------------------------------------------------------------------
(* A request is a record, and no journal is without one.                   *)
LEMMA RequestType ==
  /\ <<>> \notin Sample!Request
  /\ \A v \in Sample!Url : /\ Sample!Step1(v) \in Sample!Request
                           /\ \A o \in Sample!Task \cup {Sample!NoView} : Sample!Step3(v, o) \in Sample!Request
  /\ \A v, o : Sample!Step1(v).step = "step1" /\ Sample!Step3(v, o).step = "step3"
  /\ \A v, o : Sample!Step3(v, o) # <<>>
  /\ 0 \notin Sample!Task /\ Sample!NoView \notin Sample!Task /\ Sample!NoView # 0
  <1>1. ASSUME NEW q \in Sample!Request PROVE q # <<>>
    <2>1. "step" \in DOMAIN q
      BY DEF Sample!Request
    <2>2. DOMAIN <<>> = {}
      OBVIOUS
    <2> QED
      BY <2>1, <2>2
  <1>2. ASSUME NEW v, NEW o PROVE Sample!Step3(v, o) # <<>>
    <2>1. "step" \in DOMAIN Sample!Step3(v, o)
      BY DEF Sample!Step3
    <2>2. DOMAIN <<>> = {}
      OBVIOUS
    <2> QED
      BY <2>1, <2>2
  <1> QED
    BY <1>1, <1>2 DEF Sample!Request, Sample!Step1, Sample!Step3, Sample!Task, Sample!NoView

(* The request of a step the thread is in.                                 *)
LEMMA AskedType ==
  ASSUME SampleTypes, Thread, phase \in InStep
  PROVE  Sample!Asked \in Sample!Request /\ Sample!Asked.step = step
  BY RequestType DEF SampleTypes, Thread, Sample!Asked, Steps

(* Whatever only the thread's memory changes.                              *)
LEMMA MemoryStep ==
  ASSUME SampleInv, UNCHANGED <<raw, sJournal, recorded, sRemote, request, posted>>
  PROVE  Posted' /\ Journals' /\ Caches'
  BY DEF SampleInv, Posted, Journals, Caches

(* A task that is started or ends leaves what is known of the others.      *)
LEMMA ServiceStep ==
  ASSUME SampleInv, UNCHANGED <<raw, sJournal, recorded, annotation, sObjects, context, wrist>>,
         \A k \in Sample!Task : request[k] \in Sample!Request => request'[k] = request[k],
         \A k \in Sample!Task : sRemote[k] \in Answered \cup Dead => sRemote'[k] = sRemote[k]
  PROVE  Journals' /\ Caches' /\ Derived'
  <1> USE DEF SampleInv, SampleTypes, Answered, Dead
  <1>1. Journals'
    <2>1. \A q \in Sample!Request : sJournal[q].task \in Sample!Task \cup {0}
      OBVIOUS
    <2> QED
      BY <2>1 DEF Journals
  <1>2. Caches'
    <2>1. \A s \in Steps : raw[s].task \in Sample!Task \cup {0}
      OBVIOUS
    <2> QED
      BY <2>1 DEF Caches
  <1>3. Derived'
    <2>1. wrist /\ sObjects # 0 => sObjects \in Sample!Task
      BY RequestType DEF Derived, Steps
    <2>2. annotation.segments # 0 => request[annotation.segments] \in Sample!Request
      BY RequestType DEF Derived
    <2> QED
      BY <2>1, <2>2 DEF Derived
  <1> QED
    BY <1>1, <1>2, <1>3

LEMMA BeginInv == ASSUME SampleInv, Sample!Begin, UNCHANGED wrist PROVE SampleInv'
  <1> USE DEF SampleInv, Sample!Begin, Sample!memory, Sample!files, Sample!service
  <1>1. Posted' /\ Journals' /\ Caches'
    BY MemoryStep
  <1>2. SampleTypes'
    BY DEF SampleTypes, Steps
  <1>3. Derived'
    BY DEF Derived
  <1>4. Thread'
    <2>1. PICK v \in Sample!Url : video' = v /\ phase' = IF Sample!Complete(v) THEN "done" ELSE "step"
      OBVIOUS
    <2>2. phase' = "done" => annotation.segments # 0 /\ final = annotation
      BY <2>1 DEF Sample!Complete, Sample!Matches, Derived
    <2> QED
      BY <2>1, <2>2 DEF Thread, InStep
  <1> QED
    BY <1>1, <1>2, <1>3, <1>4

LEMMA SkipStep1Inv == ASSUME SampleInv, Sample!SkipStep1, UNCHANGED wrist PROVE SampleInv'
  <1> USE DEF SampleInv, Sample!SkipStep1, Sample!Go, Sample!memory, Sample!files, Sample!service
  <1>1. SampleTypes' /\ Posted' /\ Journals' /\ Caches'
    <2>1. CASE sObjects = Sample!NoView
      BY <2>1 DEF SampleTypes, Posted, Journals, Caches
    <2>2. CASE sObjects # Sample!NoView
      BY <2>2 DEF SampleTypes, Posted, Journals, Caches, Sample!ForgetDownstream, Sample!NoRaw, Steps
    <2> QED
      BY <2>1, <2>2
  <1>2. Derived'
    <2>1. CASE sObjects = Sample!NoView
      BY <2>1 DEF Derived
    <2>2. CASE sObjects # Sample!NoView
      BY <2>2 DEF Derived, Sample!ForgetDownstream, Sample!NoAnnotation
    <2> QED
      BY <2>1, <2>2
  <1>3. Thread'
    BY RequestType DEF Thread, InStep
  <1> QED
    BY <1>1, <1>2, <1>3

LEMMA UseCachedInv == ASSUME SampleInv, Sample!UseCached, UNCHANGED wrist PROVE SampleInv'
  <1> USE DEF SampleInv, Sample!UseCached, Sample!Go, Sample!memory, Sample!files, Sample!service
  <1>1. Posted' /\ Journals' /\ Caches'
    BY MemoryStep
  <1>2. SampleTypes' /\ Derived'
    BY DEF SampleTypes, Derived
  <1>3. Sample!Asked' = Sample!Asked
    BY DEF Sample!Asked
  <1>4. raw[step].task # 0
    <2>1. Sample!Asked # <<>>
      BY AskedType, RequestType DEF Sample!Operator, InStep
    <2> QED
      BY <2>1 DEF Sample!Cached, Caches, Sample!NoRaw, SampleTypes
  <1>5. Thread'
    BY <1>3, <1>4 DEF Thread, InStep, Sample!Operator, Sample!Cached, Sample!Asked, SampleTypes, Steps
  <1> QED
    BY <1>1, <1>2, <1>5

LEMMA CallOperatorInv == ASSUME SampleInv, Sample!CallOperator, UNCHANGED wrist PROVE SampleInv'
  <1> USE DEF SampleInv, Sample!CallOperator, Sample!memory, Sample!files, Sample!service
  <1> DEFINE q == Sample!Asked
  <1>1. q \in Sample!Request /\ q.step = step
    BY AskedType DEF Sample!Operator, InStep
  <1>2. Sample!Asked' = q
    BY DEF Sample!Asked
  <1>3. ~ preserve'
    <2>1. SUFFICES ASSUME preserve' PROVE FALSE
      OBVIOUS
    <2>2. step = "step1" /\ raw["step1"] = Sample!NoRaw /\ Sample!Matches(annotation, video)
      BY <2>1
    <2>3. wrist /\ annotation.segments # 0
      BY <2>2 DEF Sample!Operator, Sample!Matches, Derived
    <2>4. raw["step1"].task # 0
      BY <2>3 DEF Derived
    <2> QED
      BY <2>2, <2>4 DEF Sample!NoRaw
  <1>4. sJournal[q].status \in {"none", "live", "completed", "failed"} /\ sJournal[q].task \in Sample!Task \cup {0}
    BY <1>1 DEF SampleTypes
  <1>5. Derived'
    BY DEF Derived
  <1> HIDE DEF q
  <1>6. CASE Sample!Reusable(q)
    <2>1. phase' = "polling" /\ sTask' = sJournal[q].task /\ UNCHANGED sJournal
      BY <1>6 DEF q
    <2>2. sTask' \in Sample!Task /\ request[sTask'] = q
      BY <1>1, <1>6, <2>1 DEF Journals, Sample!Reusable
    <2>3. Posted' /\ Journals' /\ Caches'
      BY <2>1, MemoryStep
    <2>4. SampleTypes'
      BY <2>1, <2>2 DEF SampleTypes
    <2>5. raw[step].request # q
      BY DEF q, Sample!Cached
    <2>6. Thread'
      BY <1>2, <1>3, <2>1, <2>2, <2>5 DEF Thread, InStep, Sample!Operator
    <2> QED
      BY <1>5, <2>3, <2>4, <2>6
  <1>7. CASE ~ Sample!Reusable(q)
    <2>1. phase' = "posting" /\ sTask' = 0 /\ sJournal' = [sJournal EXCEPT ![q] = Sample!NoTask]
      BY <1>7 DEF q
    <2>2. raw[step].request # q
      BY DEF q, Sample!Cached
    <2>3. Posted'
      BY DEF Posted
    <2>4. SampleTypes'
      BY <2>1, <1>1 DEF SampleTypes, Sample!NoTask
    <2>5. sJournal'[q].status = "none" /\ sJournal'[q].task = 0
      BY <2>1, <1>1 DEF SampleTypes, Sample!NoTask
    <2>6. Journals'
      <3>1. ASSUME NEW k \in recorded, request[k] = q, sJournal[q].task = k PROVE sRemote[k] \in Dead
        BY <3>1, <1>1, <1>4, <1>7, RequestType DEF Journals, Sample!Reusable, SampleTypes
      <3> QED
        BY <3>1, <2>1, <2>5 DEF Journals, SampleTypes
    <2>7. Caches'
      BY <1>1, <2>1, <2>2 DEF Caches, SampleTypes
    <2>8. Thread'
      BY <1>2, <1>3, <2>1, <2>2, <2>5 DEF Thread, InStep, Sample!Operator
    <2> QED
      BY <1>5, <2>3, <2>4, <2>6, <2>7, <2>8
  <1> QED
    BY <1>6, <1>7

(* A request starts the next task; a task ends.                            *)
LEMMA StartFacts ==
  ASSUME SampleInv, Sample!StartTask, Sample!Asked \in Sample!Request,
         UNCHANGED <<raw, sJournal, recorded, annotation, sObjects, context, wrist, step, video, url>>
  PROVE  /\ Posted' /\ Journals' /\ Caches' /\ Derived'
         /\ posted' \in Sample!Task /\ request'[posted'] = Sample!Asked
         /\ sRemote' \in [Sample!Task -> {"none", "running", "good", "bad", "failed"}]
         /\ request' \in [Sample!Task -> Sample!Request \cup {<<>>}]
         /\ \A k \in Sample!Task : sRemote[k] \in Answered \cup Dead => sRemote'[k] = sRemote[k]
  <1> USE DEF SampleInv, Sample!StartTask
  <1>1. posted \in Nat /\ MaxTasks \in Nat
    BY SampleConstants DEF SampleTypes, Sample!SampleAssumption, Sample!Task
  <1>2. posted' = posted + 1 /\ posted' \in Sample!Task
    BY <1>1 DEF Sample!Task
  <1>3. \A k \in Sample!Task : request[k] \in Sample!Request => request'[k] = request[k]
    BY <1>1, <1>2, RequestType DEF Posted, SampleTypes, Sample!Task
  <1>4. \A k \in Sample!Task : sRemote[k] \in Answered \cup Dead => sRemote'[k] = sRemote[k]
    BY <1>1, <1>2 DEF Posted, SampleTypes, Sample!Task, Answered, Dead
  <1>5. Journals' /\ Caches' /\ Derived'
    BY <1>3, <1>4, ServiceStep
  <1>6. Posted'
    BY <1>1, <1>2 DEF Posted, SampleTypes, Sample!Task
  <1> QED
    BY <1>2, <1>4, <1>5, <1>6 DEF SampleTypes

LEMMA AcceptInv ==
  ASSUME SampleInv, Sample!Accept \/ Sample!AcceptUnheard, UNCHANGED wrist
  PROVE  SampleInv'
  <1> USE DEF SampleInv, Sample!Accept, Sample!AcceptUnheard, Sample!memory, Sample!files, Sample!service
  <1>1. Sample!Asked \in Sample!Request
    BY AskedType DEF InStep
  <1>2. Sample!Asked' = Sample!Asked
    BY DEF Sample!Asked
  <1>3. /\ Posted' /\ Journals' /\ Caches' /\ Derived'
        /\ posted' \in Sample!Task /\ request'[posted'] = Sample!Asked
        /\ sRemote' \in [Sample!Task -> {"none", "running", "good", "bad", "failed"}]
        /\ request' \in [Sample!Task -> Sample!Request \cup {<<>>}]
    BY <1>1, StartFacts
  <1>4. SampleTypes'
    BY <1>3 DEF SampleTypes
  <1>5. Thread'
    BY <1>2, <1>3 DEF Thread, InStep
  <1> QED
    BY <1>3, <1>4, <1>5

LEMMA EndTaskInv == ASSUME SampleInv, NEW k \in Sample!Task, Sample!End(k) PROVE SampleInv'
  <1> USE DEF SampleInv, Sample!End, Sample!memory, Sample!files
  <1>1. \A m \in Sample!Task : sRemote[m] \in Answered \cup Dead => sRemote'[m] = sRemote[m]
    BY DEF SampleTypes, Answered, Dead
  <1>2. Journals' /\ Caches' /\ Derived'
    BY <1>1, ServiceStep
  <1>3. SampleTypes' /\ Posted'
    BY DEF SampleTypes, Posted
  <1>4. Sample!Asked' = Sample!Asked
    BY DEF Sample!Asked
  <1>6. Sample!Unparseable => Sample!Unparseable'
    <2>1. SUFFICES ASSUME Sample!Unparseable PROVE Sample!Unparseable'
      OBVIOUS
    <2>2. error \in Steps /\ raw[error].task \in Sample!Task /\ sRemote[raw[error].task] = "bad"
      BY <2>1 DEF Sample!Unparseable, Steps, SampleTypes, Caches
    <2> QED
      BY <1>1, <2>1, <2>2 DEF Sample!Unparseable, Dead
  <1>7. Thread'
    BY <1>1, <1>4, <1>6 DEF Thread, InStep, SampleTypes, Answered, Dead
  <1> QED
    BY <1>2, <1>3, <1>7

(* An attempt that ends leaves the files as they are.                      *)
LEMMA StopInv ==
  ASSUME SampleInv, phase' \in {"failed", "idle"}, step' \in {step, "step1"}, sTask' \in {sTask, 0},
         ~ preserve' \/ preserve' = preserve,
         UNCHANGED <<video, url, wrist, raw, sObjects, context, annotation, sJournal, sRemote, request,
                     posted, recorded>>
  PROVE  SampleInv'
  <1> USE DEF SampleInv
  <1>1. Posted' /\ Journals' /\ Caches'
    BY MemoryStep
  <1>2. SampleTypes' /\ Derived'
    BY DEF SampleTypes, Derived, Steps
  <1>3. Thread'
    BY DEF Thread, InStep
  <1> QED
    BY <1>1, <1>2, <1>3

LEMMA AttemptEndsInv ==
  ASSUME SampleInv, UNCHANGED wrist,
         \/ Sample!CallFails \/ Sample!RaiseFailure \/ Sample!ParseFails \/ Sample!PostprocessFails
         \/ Sample!Retry \/ Sample!Crash
  PROVE  SampleInv'
  <1> USE StopInv DEF Sample!memory, Sample!files, Sample!service, Sample!Fail, Sample!Go
  <1>1. CASE Sample!CallFails
    BY <1>1 DEF Sample!CallFails
  <1>2. CASE Sample!RaiseFailure
    BY <1>2 DEF Sample!RaiseFailure
  <1>3. CASE Sample!ParseFails
    BY <1>3 DEF Sample!ParseFails
  <1>4. CASE Sample!PostprocessFails
    BY <1>4 DEF Sample!PostprocessFails
  <1>5. CASE Sample!Retry
    BY <1>5 DEF Sample!Retry
  <1>6. CASE Sample!Crash
    BY <1>6 DEF Sample!Crash
  <1> QED
    BY <1>1, <1>2, <1>3, <1>4, <1>5, <1>6

LEMMA RecordTaskInv == ASSUME SampleInv, Sample!RecordTask, UNCHANGED wrist PROVE SampleInv'
  <1> USE DEF SampleInv, Sample!RecordTask, Sample!Go, Sample!memory, Sample!files, Sample!service
  <1> DEFINE q == Sample!Asked
  <1>1. q \in Sample!Request /\ q.step = step
    BY AskedType DEF InStep
  <1>2. Sample!Asked' = q
    BY DEF Sample!Asked
  <1>3. sTask \in Sample!Task /\ request[sTask] = q /\ sJournal[q].status = "none" /\ raw[step].request # q
    BY DEF Thread
  <1>4. sJournal' = [sJournal EXCEPT ![q] = [task |-> sTask, status |-> "live"]]
    OBVIOUS
  <1> HIDE DEF q
  <1>5. SampleTypes' /\ Posted' /\ Derived'
    BY <1>1, <1>3, <1>4 DEF SampleTypes, Posted, Derived
  <1>6. Journals'
    BY <1>1, <1>3, <1>4, RequestType DEF Journals, SampleTypes
  <1>7. Caches'
    BY <1>1, <1>3, <1>4 DEF Caches, SampleTypes
  <1>8. Thread'
    BY <1>1, <1>2, <1>3, <1>4 DEF Thread, InStep, SampleTypes
  <1> QED
    BY <1>5, <1>6, <1>7, <1>8

(* The end of a task is recorded in its journal.                           *)
LEMMA PollInv ==
  ASSUME SampleInv, Sample!PollCompleted \/ Sample!RecordFailure, UNCHANGED wrist
  PROVE  SampleInv'
  <1> USE DEF SampleInv, Sample!PollCompleted, Sample!RecordFailure, Sample!Go, Sample!memory,
              Sample!files, Sample!service
  <1> DEFINE q == Sample!Asked
  <1>1. q \in Sample!Request /\ q.step = step
    BY AskedType DEF InStep
  <1>2. Sample!Asked' = q
    BY DEF Sample!Asked
  <1>3. sTask \in Sample!Task /\ request[sTask] = q /\ sJournal[q].task = sTask /\ raw[step].request # q
    BY DEF Thread
  <1>4. PICK ended \in {"completed", "failed"} :
          /\ sJournal' = [sJournal EXCEPT ![q] = [task |-> sTask, status |-> ended]]
          /\ ended = "failed" => sRemote[sTask] = "failed" /\ phase' = "raise"
          /\ ended = "completed" => /\ sRemote[sTask] \in Answered
                                    /\ phase' = IF step = "step1" THEN "clear" ELSE "answered"
    BY DEF Answered
  <1> HIDE DEF q
  <1>5. SampleTypes' /\ Posted' /\ Derived'
    BY <1>1, <1>3, <1>4 DEF SampleTypes, Posted, Derived
  <1>6. Journals'
    BY <1>1, <1>3, <1>4, RequestType DEF Journals, SampleTypes, Dead
  <1>7. Caches'
    BY <1>1, <1>3, <1>4 DEF Caches, SampleTypes
  <1>8. sJournal'[q].task = sTask
    BY <1>1, <1>4 DEF SampleTypes
  <1>9. Thread'
    BY <1>1, <1>2, <1>3, <1>4, <1>8 DEF Thread, InStep, SampleTypes, Steps
  <1> QED
    BY <1>5, <1>6, <1>7, <1>9

(* A recovered request is not preserved: the objects go, and all that was  *)
(* derived from them.                                                      *)
LEMMA ClearInv == ASSUME SampleInv, Sample!ClearDownstream, UNCHANGED wrist PROVE SampleInv'
  <1> USE DEF SampleInv, Sample!ClearDownstream, Sample!Go, Sample!memory, Sample!files, Sample!service
  <1>1. /\ raw' = [raw EXCEPT !["step3"] = Sample!NoRaw] /\ context' = 0
        /\ annotation' = Sample!NoAnnotation /\ sObjects' = 0 /\ step = "step1" /\ wrist
    BY DEF Thread, InStep, Sample!Preserved, Sample!ForgetDownstream
  <1>2. Sample!Asked' = Sample!Asked
    BY <1>1 DEF Sample!Asked
  <1>3. SampleTypes' /\ Posted' /\ Journals'
    BY <1>1 DEF SampleTypes, Posted, Journals, Sample!NoRaw, Steps
  <1>4. Caches'
    BY <1>1 DEF Caches, SampleTypes, Sample!NoRaw, Steps
  <1>5. Derived'
    BY <1>1 DEF Derived, Sample!NoAnnotation
  <1>6. raw'["step1"] = raw["step1"] /\ raw'["step3"] = Sample!NoRaw
    BY <1>1 DEF SampleTypes, Steps
  <1>7. Thread'
    BY <1>1, <1>2, <1>6 DEF Thread, InStep, Sample!NoAnnotation
  <1> QED
    BY <1>3, <1>4, <1>5, <1>7

LEMMA WriteRawInv == ASSUME SampleInv, Sample!WriteRaw, UNCHANGED wrist PROVE SampleInv'
  <1> USE DEF SampleInv, Sample!WriteRaw, Sample!Go, Sample!memory, Sample!files, Sample!service
  <1> DEFINE q == Sample!Asked
  <1>1. q \in Sample!Request /\ q.step = step
    BY AskedType DEF InStep
  <1>2. Sample!Asked' = q
    BY DEF Sample!Asked
  <1>3. /\ sTask \in Sample!Task /\ request[sTask] = q /\ sJournal[q].task = sTask
        /\ sRemote[sTask] \in Answered
    BY DEF Thread
  <1>4. step \in Steps /\ sTask # 0
    BY <1>3, RequestType DEF SampleTypes
  <1>5. raw' = [raw EXCEPT ![step] = [request |-> q, task |-> sTask]]
    OBVIOUS
  <1> HIDE DEF q
  <1>6. SampleTypes' /\ Posted' /\ Journals'
    BY <1>1, <1>3, <1>4, <1>5 DEF SampleTypes, Posted, Journals
  <1>7. Caches'
    BY <1>1, <1>3, <1>4, <1>5 DEF Caches, SampleTypes
  <1>8. Derived'
    BY <1>4, <1>5 DEF Derived, Thread, SampleTypes, Steps
  <1>9. raw'[step].task # 0 /\ raw'[step].request = q
    BY <1>4, <1>5 DEF SampleTypes
  <1>10. step = "step3" => raw'["step1"] = raw["step1"]
    BY <1>5 DEF SampleTypes
  <1>11. Thread'
    BY <1>2, <1>4, <1>9, <1>10 DEF Thread, InStep, Steps
  <1> QED
    BY <1>6, <1>7, <1>8, <1>11

LEMMA ParseInv == ASSUME SampleInv, Sample!Parse, UNCHANGED wrist PROVE SampleInv'
  <1> USE DEF SampleInv, Sample!Parse, Sample!Go, Sample!memory, Sample!files, Sample!service
  <1>1. Posted' /\ Journals' /\ Caches'
    BY MemoryStep
  <1>2. Sample!Asked' = Sample!Asked
    BY DEF Sample!Asked
  <1>3. step \in Steps /\ raw[step].task \in Sample!Task /\ sRemote[raw[step].task] = "good"
        /\ raw[step].request = Sample!Asked
    BY DEF Thread, InStep, SampleTypes
  <1>4. CASE step = "step1"
    <2>1. /\ wrist /\ sObjects = 0 /\ sObjects' = raw["step1"].task /\ phase' = "context"
          /\ raw["step1"].request = Sample!Step1(video)
      BY <1>3, <1>4 DEF Thread, InStep, Sample!Asked
    <2>2. SampleTypes'
      BY <1>3, <1>4, <2>1 DEF SampleTypes
    <2>3. Derived'
      BY <1>3, <1>4, <2>1 DEF Derived
    <2>4. Thread'
      BY <1>3, <1>4, <2>1, RequestType DEF Thread, InStep
    <2> QED
      BY <1>1, <2>2, <2>3, <2>4
  <1>5. CASE step = "step3"
    <2>1. UNCHANGED sObjects /\ phase' = "annotate"
      BY <1>5
    <2>2. SampleTypes' /\ Derived'
      BY <2>1 DEF SampleTypes, Derived
    <2>3. Thread'
      BY <1>2, <1>3, <1>5, <2>1 DEF Thread, InStep
    <2> QED
      BY <1>1, <2>2, <2>3
  <1> QED
    BY <1>3, <1>4, <1>5 DEF Steps

LEMMA BuildContextInv == ASSUME SampleInv, Sample!BuildContext, UNCHANGED wrist PROVE SampleInv'
  <1> USE DEF SampleInv, Sample!BuildContext, Sample!files, Sample!service
  <1>1. Posted' /\ Journals' /\ Caches'
    BY MemoryStep
  <1>2. SampleTypes' /\ Derived'
    BY DEF SampleTypes, Derived, Steps
  <1>3. Thread'
    BY DEF Thread, InStep, Derived
  <1> QED
    BY <1>1, <1>2, <1>3

LEMMA AnnotateInv == ASSUME SampleInv, Sample!Annotate, UNCHANGED wrist PROVE SampleInv'
  <1> USE DEF SampleInv, Sample!Annotate, Sample!Go, Sample!service
  <1>1. SampleTypes' /\ Posted' /\ Journals' /\ Caches'
    BY MemoryStep DEF SampleTypes
  <1>2. /\ step = "step3" /\ sObjects # 0 /\ context = sObjects /\ raw["step3"].task \in Sample!Task
        /\ raw["step3"].request = Sample!Step3(video, sObjects) /\ sRemote[raw["step3"].task] = "good"
        /\ request[raw["step3"].task] = raw["step3"].request
        /\ wrist => raw["step1"].request = Sample!Step1(video)
    BY DEF Thread, InStep, Derived, Caches, Steps, SampleTypes, Sample!Asked
  <1>3. annotation' = [url |-> video, objects |-> sObjects, segments |-> raw["step3"].task]
    OBVIOUS
  <1>4. Derived'
    BY <1>2, <1>3, RequestType DEF Derived
  <1>5. Thread'
    BY <1>2, <1>3, RequestType DEF Thread, InStep
  <1> QED
    BY <1>1, <1>4, <1>5

LEMMA PostprocessInv == ASSUME SampleInv, Sample!Postprocess, UNCHANGED wrist PROVE SampleInv'
  <1> USE DEF SampleInv, Sample!Postprocess, Sample!Go, Sample!service
  <1>1. Posted' /\ Journals' /\ Caches'
    BY MemoryStep
  <1>2. SampleTypes' /\ Derived'
    BY DEF SampleTypes, Derived
  <1>3. Thread'
    BY DEF Thread, InStep
  <1> QED
    BY <1>1, <1>2, <1>3

(* An answer that does not parse.                                          *)
LEMMA UnparseableFacts ==
  ASSUME SampleInv, Sample!Unparseable
  PROVE  /\ error \in Steps /\ raw[error].task \in Sample!Task /\ raw[error].request \in Sample!Request
         /\ sRemote[raw[error].task] = "bad" /\ sJournal[raw[error].request].task = raw[error].task
  BY DEF Sample!Unparseable, SampleInv, SampleTypes, Caches, Steps

LEMMA DisableTaskInv == ASSUME SampleInv, Sample!DisableTask, UNCHANGED wrist PROVE SampleInv'
  <1> USE DEF SampleInv, Sample!DisableTask, Sample!Go, Sample!memory, Sample!files, Sample!service
  <1> DEFINE q == raw[error].request
  <1>1. /\ q \in Sample!Request /\ sJournal[q].task \in Sample!Task
        /\ sRemote[sJournal[q].task] = "bad" /\ sJournal[q].status # "none"
    BY UnparseableFacts, RequestType DEF Journals
  <1>2. sJournal' = [sJournal EXCEPT ![q].status = "failed"]
    BY <1>1 DEF Sample!Marked, Sample!NoTask
  <1> HIDE DEF q
  <1>3. SampleTypes' /\ Posted' /\ Derived'
    BY <1>1, <1>2 DEF SampleTypes, Posted, Derived
  <1>4. \A r \in Sample!Request : sJournal'[r].task = sJournal[r].task
    BY <1>1, <1>2 DEF SampleTypes
  <1>5. \A r \in Sample!Request : r # q => sJournal'[r] = sJournal[r]
    BY <1>1, <1>2 DEF SampleTypes
  <1>6. sJournal'[q].status = "failed"
    BY <1>1, <1>2 DEF SampleTypes
  <1>7. Journals'
    BY <1>1, <1>4, <1>5, <1>6 DEF Journals, Dead
  <1>8. Caches'
    BY <1>4 DEF Caches
  <1>9. Thread'
    BY DEF Thread, InStep, Sample!Unparseable
  <1> QED
    BY <1>3, <1>7, <1>8, <1>9

LEMMA QuarantineInv == ASSUME SampleInv, Sample!Quarantine, UNCHANGED wrist PROVE SampleInv'
  <1> USE DEF SampleInv, Sample!Quarantine, Sample!Go, Sample!memory, Sample!files, Sample!service
  <1>1. error \in Steps /\ sRemote[raw[error].task] = "bad"
    BY UnparseableFacts DEF Thread
  <1>2. raw' = [raw EXCEPT ![error] = Sample!NoRaw]
    OBVIOUS
  <1>3. SampleTypes' /\ Posted' /\ Journals' /\ Caches'
    BY <1>1, <1>2 DEF SampleTypes, Posted, Journals, Caches, Sample!NoRaw
  <1>4. CASE wrist /\ error = "step1"
    <2>1. sObjects = 0
      BY <1>1, <1>4 DEF Derived
    <2> QED
      BY <1>3, <2>1, <1>4 DEF Derived, Thread, InStep
  <1>5. CASE ~ (wrist /\ error = "step1")
    <2>1. wrist => raw'["step1"] = raw["step1"]
      BY <1>1, <1>2, <1>5 DEF SampleTypes, Steps
    <2>2. Derived'
      BY <2>1 DEF Derived
    <2>3. Thread'
      BY DEF Thread, InStep
    <2> QED
      BY <1>3, <2>2, <2>3
  <1> QED
    BY <1>4, <1>5

LEMMA SampleStarts == ASSUME Sample!Init PROVE SampleInv
  <1> USE DEF Sample!Init, SampleInv
  <1>1. SampleTypes /\ Posted
    BY SampleConstants DEF SampleTypes, Posted, Steps, Sample!Url, Sample!Task, Sample!SampleAssumption,
       Sample!NoRaw, Sample!NoTask
  <1>2. Journals /\ Caches /\ Derived
    BY DEF Journals, Caches, Derived, Sample!NoTask, Sample!NoRaw, Sample!NoAnnotation, Steps
  <1>3. Thread
    BY DEF Thread, InStep
  <1> QED
    BY <1>1, <1>2, <1>3

LEMMA SampleStep == ASSUME SampleInv, [Sample!Next]_(Sample!vars) PROVE SampleInv'
  <1>1. CASE Sample!Advance
    BY <1>1, BeginInv, SkipStep1Inv, UseCachedInv, CallOperatorInv, AcceptInv, RecordTaskInv, PollInv,
       AttemptEndsInv, ClearInv, WriteRawInv, ParseInv, BuildContextInv, AnnotateInv, PostprocessInv,
       DisableTaskInv, QuarantineInv DEF Sample!Advance, Sample!Steps
  <1>2. CASE Sample!Disturb
    BY <1>2, AcceptInv, AttemptEndsInv DEF Sample!Disturb
  <1>3. CASE \E k \in Sample!Task : Sample!End(k)
    BY <1>3, EndTaskInv
  <1>4. CASE UNCHANGED Sample!vars
    <2> USE <1>4 DEF Sample!vars, Sample!memory, Sample!files, Sample!service
    <2>1. Posted' /\ Journals' /\ Caches'
      BY MemoryStep
    <2>2. SampleTypes' /\ Derived'
      BY DEF SampleInv, SampleTypes, Derived
    <2>3. Thread'
      BY DEF SampleInv, Thread, Sample!Asked, Sample!Unparseable
    <2> QED
      BY <2>1, <2>2, <2>3 DEF SampleInv
  <1> QED
    BY <1>1, <1>2, <1>3, <1>4 DEF Sample!Next, Sample!Done

(* The journals, caches and derived files agree in every reachable state.  *)
THEOREM SampleInvariant == Sample!Spec => []SampleInv
  <1>1. Sample!Init => SampleInv
    BY SampleStarts
  <1>2. SampleInv /\ [Sample!Next]_(Sample!vars) => SampleInv'
    BY SampleStep
  <1> QED
    BY <1>1, <1>2, PTL DEF Sample!Spec

(* A request whose task is on record and runs or has a usable answer is    *)
(* not paid for again: every recorded task is the one its journal names,   *)
(* or of no use.                                                           *)
THEOREM NotPaidTwice == Sample!Spec => []NoSecondPurchase
  <1>1. SampleInv => NoSecondPurchase
    BY DEF SampleInv, Journals, Dead, NoSecondPurchase, Sample!NoSecondPurchase
  <1> QED
    BY <1>1, SampleInvariant, PTL

(* The annotation of a finished episode is of one piece, although each of  *)
(* its files survives on its own.                                          *)
THEOREM AnnotationOfOnePiece == Sample!Spec => []AnnotationConsistent
  <1>1. ASSUME SampleInv, phase = "done" PROVE AnnotationConsistent
    <2>1. annotation.segments # 0 /\ final = annotation
      BY <1>1 DEF SampleInv, Thread
    <2>2. wrist => /\ request[annotation.objects] = Sample!Step1(annotation.url)
                   /\ sRemote[annotation.objects] = "good"
      BY <1>1, <2>1 DEF SampleInv, Derived, Caches, Steps
    <2>3. ~ wrist => annotation.objects = Sample!NoView
      BY <1>1, <2>1 DEF SampleInv, Derived
    <2> QED
      BY <1>1, <2>1, <2>2, <2>3 DEF SampleInv, Derived, AnnotationConsistent, Sample!AnnotationConsistent
  <1>2. SampleInv => AnnotationConsistent
    BY <1>1 DEF AnnotationConsistent, Sample!AnnotationConsistent
  <1> QED
    BY <1>2, SampleInvariant, PTL
=============================================================================
