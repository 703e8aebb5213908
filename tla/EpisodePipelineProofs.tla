----------------------- MODULE EpisodePipelineProofs -----------------------
(***************************************************************************)
(* Proofs about EpisodePipeline, for any number of lanes, episodes,        *)
(* frames, workers, attempts, faults and crashes: the shared media of an   *)
(* episode stay open while they are used, a unit that was paid for is      *)
(* kept, and a lane that ends has settled its episodes.                    *)
(***************************************************************************)
EXTENDS EpisodePipeline, FiniteSetTheorems, TLAPS

-----------------------------------------------------------------------------
(* The invariant of the leases.                                            *)

(* A job holds an entry from its submission to the end of its release.     *)
Leasing == {"leased", "ready", "begin", "work", "commit", "written", "release", "cleanup"}
HeldWhileLeasing == \A j \in Job : held[j] # 0 <=> job[j] \in Leasing

(* The jobs that an entry counts: who cleans up has given its lease back.  *)
Holders(u, e) == {j \in Job : UidOf(j) = u /\ held[j] = e /\ job[j] # "cleanup"}
RefsCount == \A u \in Uid, e \in Entry : refs[u][e] = Cardinality(Holders(u, e))

(* Leased entries are the ones in the table.                               *)
InTable == \A u \in Uid, e \in Entry : refs[u][e] > 0 <=> entry[u] = e

(* An entry in the table is not closed; one that has left it is not open.  *)
TableMedia ==
  \A u \in Uid, e \in Entry :
    /\ entry[u] = e => media[u][e] \in {"queued", "preparing", "open", "failed"}
    /\ entry[u] # e => media[u][e] \in {"none", "failed", "closing", "closed"}

(* What a job finds its media in.                                          *)
JobMedia ==
  \A j \in Job :
    /\ job[j] \in {"ready", "begin", "work", "commit", "written"} => MediaOf(j) = "open"
    /\ job[j] = "release" => MediaOf(j) \in {"open", "failed"}
    /\ job[j] = "cleanup" => MediaOf(j) = "closing"

(* Media are closed by one job.                                            *)
OneCloser ==
  /\ \A i, j \in Job : /\ job[i] = "cleanup" /\ job[j] = "cleanup"
                       /\ UidOf(i) = UidOf(j) /\ held[i] = held[j]
                       => i = j
  /\ \A u \in Uid, e \in Entry : media[u][e] = "closing" =>
       \E j \in Job : UidOf(j) = u /\ held[j] = e /\ job[j] = "cleanup"

(* Between its passes a lane has no job under way.                         *)
RestIsQuiet ==
  \A j \in Job :
    /\ lane[LaneOf(j)] = "rest" => job[j] \in {"reported", "deferred", "skipped"}
    /\ lane[LaneOf(j)] = "ended" => job[j] \in {"reported", "skipped"}

LeaseInv ==
  /\ HeldWhileLeasing /\ RefsCount /\ InTable /\ TableMedia /\ JobMedia /\ OneCloser
  /\ RestIsQuiet

-----------------------------------------------------------------------------
(* The invariant of the results.                                           *)

(* One final record at most, and none before the commit.                   *)
OneFinal ==
  \A j \in Job :
    /\ final[j] \in {0, 1}
    /\ final[j] = 1 <=> (j \in completed \/ job[j] = "written")
    /\ job[j] \notin {"written", "release", "cleanup", "over", "reported", "skipped"}
         => final[j] = 0
    /\ job[j] = "skipped" => final[j] = 1

(* What a job that is over reports.                                        *)
ResultKnown ==
  \A j \in Job :
    /\ job[j] \in {"release", "cleanup", "over", "reported"}
         => result[j] \in {"ok", "error", "fatal"}
    /\ result[j] = "ok" => final[j] = 1
    /\ job[j] = "reported" /\ result[j] = "fatal" => lane[LaneOf(j)] = "raised"

SettleInv == OneFinal /\ ResultKnown

-----------------------------------------------------------------------------
(* The invariant of the units.                                             *)

(* No request outlives its attempt.                                        *)
AttemptIsAlone ==
  \A j \in Job, f \in Frame : job[j] # "work" => frame[j][f] \in {"idle", "saved", "failed"}

(* A key is saved by one thread, and only while the job does not know it.  *)
SavedApart ==
  \A j \in Job, f \in Frame : Saving(j, f) =>
    /\ known[j][UnitOf(j, f)] = None /\ LaneOf(j) \notin Packed
    /\ frame[j][f] = "stored" => unit[j][UnitOf(j, f)] = Value(j, f)
    /\ \A g \in Frame : Saving(j, g) /\ UnitOf(j, g) = UnitOf(j, f) => g = f

(* The job knows every unit on disk, save the ones just being exposed.     *)
UnitsKnown ==
  \A j \in Job, k \in Key : job[j] = "work" /\ unit[j][k] # known[j][k] =>
    \E f \in Frame : frame[j][f] = "stored" /\ UnitOf(j, f) = k

(* A packed lane asks only for what it does not know.                      *)
PackedUnknown ==
  \A j \in Job, f \in Frame :
    LaneOf(j) \in Packed /\ frame[j][f] \in {"asked", "answered"}
      => known[j][UnitOf(j, f)] = None

(* An attempt under way has a number.                                      *)
AttemptCounted == \A j \in Job : job[j] \in {"begin", "work", "commit"} => attempt[j] # 0

UnitInv == AttemptCounted /\ AttemptIsAlone /\ SavedApart /\ UnitsKnown /\ PackedUnknown

IndInv == TypeOK /\ LeaseInv /\ SettleInv /\ UnitInv

-----------------------------------------------------------------------------
(* Facts.                                                                  *)

(* A job is an episode in a lane.                                          *)
LEMMA JobFacts ==
  /\ \A j \in Job : LaneOf(j) \in Lane /\ UidOf(j) \in Uid /\ j = <<LaneOf(j), UidOf(j)>>
  /\ \A l \in Lane, u \in Uid : /\ <<l, u>> \in Job
                                /\ LaneOf(<<l, u>>) = l /\ UidOf(<<l, u>>) = u
  BY DEF Job, LaneOf, UidOf

(* The jobs of a batch, and those that lease an entry, are finite sets.    *)
LEMMA JobsAreFinite ==
  /\ IsFiniteSet(Job) /\ Cardinality(Lane) \in Nat
  /\ \A u, e : IsFiniteSet(Holders(u, e)) /\ Cardinality(Holders(u, e)) \in Nat
  <1>1. IsFiniteSet(Job)
    BY EpisodeAssumption, FS_Product DEF Job
  <1>2. \A u, e : IsFiniteSet(Holders(u, e))
    BY <1>1, FS_Subset DEF Holders
  <1> QED
    BY <1>1, <1>2, EpisodeAssumption, FS_CardinalityType

(* The limits of the pipeline and of the instance.                         *)
LEMMA Limits ==
  Attempts \in Nat /\ Attempts >= 1 /\ MaxFaults \in Nat /\ MaxCrashes \in Nat
  <1>1. Attempts \in Nat \ {0}
    BY EpisodeAssumption
  <1> QED
    BY <1>1, EpisodeAssumption

(* Changing one entry keeps the type of a table.                           *)
LEMMA NestedUpdate ==
  ASSUME NEW A, NEW B, NEW S, NEW f \in [A -> [B -> S]], NEW a \in A, NEW b \in B, NEW x \in S
  PROVE  [f EXCEPT ![a][b] = x] \in [A -> [B -> S]]
  OBVIOUS

(* The unit of a frame is a key of the checkpoint.                         *)
LEMMA UnitIsKey == \A j \in Job, f \in Frame : UnitOf(j, f) \in Key
  BY JobFacts DEF UnitOf, Key

(* No entry is 0, which stands for none.                                   *)
LEMMA EntryFacts == Entry \subseteq Nat /\ 0 \notin Entry
  BY JobsAreFinite DEF Entry

(* The values a unit can have.                                             *)
LEMMA ValueType ==
  ASSUME TypeOK, NEW j \in Job, NEW f \in Frame, attempt[j] # 0
  PROVE  Value(j, f) \in Answer
  BY EpisodeAssumption DEF TypeOK, Value, Answer

-----------------------------------------------------------------------------
(* What the steps leave alone.                                             *)

runs == <<lane, job, result, completed, final>>

(* The thread of a frame changes neither the job nor its leases.           *)
LEMMA FrameStep ==
  ASSUME NEW j \in Job, NEW f \in Frame,
         \/ Ask(j, f) \/ Answered(j, f) \/ RequestFails(j, f) \/ Put(j, f)
         \/ Store(j, f) \/ Expose(j, f)
  PROVE  UNCHANGED <<runs, leases, attempt>>
  BY DEF Ask, Answered, RequestFails, Put, Store, Expose, runs, control, disk, leases

(* Nor do the steps of the upstream and put_many.                          *)
LEMMA OtherStep ==
  ASSUME Publish \/ Seal \/ Exited \/ UNCHANGED vars \/ \E j \in Job : PutMany(j)
  PROVE  UNCHANGED <<runs, leases, attempt>>
  BY DEF Publish, Seal, Exited, PutMany, vars, runs, control, disk, leases, work

(* The runner of a job moves between its stages under its lease.           *)
LEMMA RunnerStep ==
  ASSUME NEW j \in Job, Begin(j) \/ AttemptEnds(j) \/ Commit(j) \/ Complete(j) \/ Execute(j)
  PROVE  /\ UNCHANGED <<lane, leases>>
         /\ job[j] \in {"ready", "begin", "work", "commit", "written"}
         /\ \E s \in {"begin", "work", "commit", "written", "release"} : Moved(j, s)
  BY DEF Begin, AttemptEnds, Commit, Complete, Execute, AttemptFails, Ends, control, leases

-----------------------------------------------------------------------------
(* Types.                                                                  *)

(* The initial values have their types, also after a crash.                *)
LEMMA BlankTypes ==
  /\ LaneStart \in [Lane -> {"pass", "rest", "ended", "raised"}]
  /\ \A done : Fresh(done) \in [Job -> JobState]
  /\ NoResult \in [Job -> {"none", "ok", "empty", "error", "fatal"}]
  /\ Zero(Uid) \in [Uid -> Entry \cup {0}] /\ Zero(Job) \in [Job -> Entry \cup {0}]
  /\ PerEntry(0) \in [Uid -> [Entry -> Nat]]
  /\ PerEntry("none") \in [Uid -> [Entry -> {"none", "queued", "preparing", "open", "failed",
                                             "closing", "closed"}]]
  /\ Zero(Job) \in [Job -> 0 .. Attempts] /\ Zero(Job) \in [Job -> Nat]
  /\ NoFrame \in [Job -> [Frame -> FrameState]]
  /\ Blank \in [Job -> [Key -> Answer \cup {None}]]
  <1>1. NoFrame \in [Job -> [Frame -> FrameState]]
    BY DEF NoFrame, FrameState
  <1>2. Zero(Job) \in [Job -> 0 .. Attempts] /\ Zero(Job) \in [Job -> Nat]
    BY EpisodeAssumption DEF Zero
  <1>3. PerEntry(0) \in [Uid -> [Entry -> Nat]]
    BY DEF PerEntry
  <1>4. PerEntry("none") \in [Uid -> [Entry -> {"none", "queued", "preparing", "open",
                                                "failed", "closing", "closed"}]]
    BY DEF PerEntry
  <1>5. \A done : Fresh(done) \in [Job -> JobState]
    BY DEF Fresh, JobState
  <1> QED
    BY <1>1, <1>2, <1>3, <1>4, <1>5 DEF LaneStart, NoResult, Zero, Blank

LEMMA TypeInit == ASSUME Init PROVE TypeOK
  <1>1. stopped \in BOOLEAN /\ fatal \in BOOLEAN /\ closed \in BOOLEAN /\ sealed \in BOOLEAN
    BY DEF Init
  <1>2. indexed \subseteq Uid /\ completed \subseteq Job /\ clips \subseteq Job \X Frame
    BY DEF Init
  <1>3. faults \in 0 .. MaxFaults /\ crashes \in 0 .. MaxCrashes
    BY Limits DEF Init
  <1> QED
    BY <1>1, <1>2, <1>3, BlankTypes DEF Init, TypeOK

(* The steps of the lanes keep the types.                                  *)
LEMMA LaneTypes ==
  ASSUME TypeOK, NEW l \in Lane, PassEnds(l) \/ PassBegins(l) \/ LaneRaises(l)
  PROVE  TypeOK'
  <1> USE DEF TypeOK, control, world, leases, work, disk
  <1>1. CASE PassEnds(l)
    BY <1>1 DEF PassEnds
  <1>2. CASE PassBegins(l)
    <2>1. job' \in [Job -> JobState]
      BY <1>2 DEF PassBegins, Fresh, JobState
    <2> QED
      BY <1>2, <2>1 DEF PassBegins, Durable
  <1>3. CASE LaneRaises(l)
    BY <1>3 DEF LaneRaises
  <1> QED
    BY <1>1, <1>2, <1>3

(* So does a crash.                                                        *)
LEMMA CrashTypes == ASSUME TypeOK, Crash PROVE TypeOK'
  <1>1. crashes' \in 0 .. MaxCrashes
    BY EpisodeAssumption DEF TypeOK, Crash
  <1> QED
    BY <1>1, BlankTypes DEF TypeOK, Crash, Durable, world, disk

(* The steps of the media keep the types.                                  *)
LEMMA MediaTypes ==
  ASSUME TypeOK, Close \/ \E u \in Uid, e \in Entry : InitializeBegins(u, e) \/ InitializeEnds(u, e)
  PROVE  TypeOK'
  <1> USE EpisodeAssumption DEF TypeOK, control, world, leases, work, disk
  <1>1. CASE Close
    BY <1>1 DEF Close
  <1>2. ASSUME NEW u \in Uid, NEW e \in Entry, InitializeBegins(u, e)
        PROVE  TypeOK'
    BY <1>2 DEF InitializeBegins
  <1>3. ASSUME NEW u \in Uid, NEW e \in Entry, InitializeEnds(u, e)
        PROVE  TypeOK'
    <2>1. media' \in [Uid -> [Entry -> {"none", "queued", "preparing", "open", "failed",
                                        "closing", "closed"}]]
      <3>1. \E x \in {"open", "failed"} : media' = [media EXCEPT ![u][e] = x]
        BY <1>3 DEF InitializeEnds
      <3> QED
        BY <3>1, NestedUpdate
    <2>2. faults' \in 0 .. MaxFaults
      BY <1>3 DEF InitializeEnds, Fault
    <2> QED
      BY <1>3, <2>1, <2>2 DEF InitializeEnds
  <1> QED
    BY <1>1, <1>2, <1>3

(* The entry that a submitted job joins: the one in the table, or a free   *)
(* one.                                                                    *)
Joins(j, e) ==
  LET u == UidOf(j)
  IN /\ entry[u] = e \/ (entry[u] = 0 /\ refs[u][e] = 0 /\ media[u][e] \in {"none", "closed", "failed"})
     /\ entry' = [entry EXCEPT ![u] = e]
     /\ held' = [held EXCEPT ![j] = e]
     /\ refs' = [refs EXCEPT ![u][e] = @ + 1]
     /\ media' = [media EXCEPT ![u][e] = IF entry[u] = 0 THEN "queued" ELSE @]

(* There are as many entries as lanes, and every entry that is not free is *)
(* held by the job of another lane: a submitted job finds one.             *)
LEMMA SubmitJoins ==
  ASSUME IndInv, NEW j \in Job, TrySubmit(j)
  PROVE  \E e \in Entry : Joins(j, e)
  <1> DEFINE u == UidOf(j)
             free(e) == media[u][e] \in {"none", "closed", "failed"} /\ refs[u][e] = 0
  <1> USE DEF IndInv, TypeOK, LeaseInv
  <1>1. u \in Uid /\ entry[u] \in Entry \cup {0}
    BY JobFacts
  <1>2. CASE entry[u] # 0
    <2>1. entry[u] \in Entry
      BY <1>1, <1>2
    <2> QED
      BY <1>2, <2>1 DEF TrySubmit, Joins
  <1>3. ASSUME entry[u] = 0, ~ \E e \in Entry : free(e)
        PROVE  FALSE
    <2>1. ASSUME NEW e \in Entry
          PROVE  \E l \in Lane \ {LaneOf(j)} : held[<<l, u>>] = e
      <3>1. entry[u] # e /\ refs[u][e] \in Nat
        BY <1>1, <1>3, EntryFacts
      <3>2. media[u][e] = "closing"
        BY <1>1, <1>3, <3>1 DEF TableMedia, InTable
      <3>3. PICK i \in Job : UidOf(i) = u /\ held[i] = e
        BY <1>1, <3>2 DEF OneCloser
      <3>4. held[j] = 0
        BY DEF TrySubmit, HeldWhileLeasing, Leasing
      <3>5. i # j
        BY <3>3, <3>4, EntryFacts
      <3> QED
        BY <3>3, <3>5, JobFacts
    <2> DEFINE other == [e \in Entry |-> CHOOSE l \in Lane \ {LaneOf(j)} : held[<<l, u>>] = e]
               rest == Lane \ {LaneOf(j)}
    <2>2. \A e \in Entry : other[e] \in rest /\ held[<<other[e], u>>] = e
      BY <2>1
    <2>3. other \in Injection(Entry, rest)
      BY <2>2 DEF Injection, IsInjective
    <2>4. IsFiniteSet(rest) /\ Cardinality(rest) = Cardinality(Lane) - 1
      BY JobFacts, EpisodeAssumption, FS_RemoveElement
    <2>5. Cardinality(Entry) = Cardinality(Lane)
      <3>1. Cardinality(Lane) \in Nat /\ Cardinality(Lane) # 0
        BY JobFacts, JobsAreFinite, EpisodeAssumption, FS_EmptySet
      <3> QED
        BY <3>1, FS_Interval DEF Entry
    <2>6. Cardinality(Entry) <= Cardinality(rest)
      <3> HIDE DEF other, rest
      <3> QED
        BY <2>3, <2>4, FS_Injection
    <2> QED
      BY <2>4, <2>5, <2>6, JobsAreFinite
  <1>4. CASE entry[u] = 0 /\ \E e \in Entry : free(e)
    <2> DEFINE x == CHOOSE e \in Entry : free(e)
    <2>1. x \in Entry /\ free(x)
      BY <1>4
    <2> HIDE DEF x
    <2>2. Joins(j, x)
      BY <1>4, <2>1 DEF TrySubmit, Joins, x
    <2> QED
      BY <2>1, <2>2
  <1> QED
    BY <1>2, <1>3, <1>4

(* A job that takes a lease finds an entry.                                *)
LEMMA JobTypes ==
  ASSUME IndInv, NEW j \in Job,
         \/ Pull(j) \/ TrySubmit(j) \/ Report(j) \/ Ready(j) \/ Release(j) \/ Cleanup(j)
  PROVE  TypeOK'
  <1> USE EpisodeAssumption, JobFacts
      DEF IndInv, TypeOK, control, world, leases, work, disk, Moved
  <1>0. \A x \in JobState : [job EXCEPT ![j] = x] \in [Job -> JobState]
    OBVIOUS
  <1>1. CASE Pull(j)
    BY <1>0, <1>1 DEF Pull, JobState
  <1>3. CASE Report(j)
    <2>1. job' \in [Job -> JobState]
      BY <1>0, <1>3 DEF Report, JobState
    <2>2. unit' \in [Job -> [Key -> Answer \cup {None}]]
      BY <1>3 DEF Report, Blank
    <2> QED
      BY <1>3, <2>1, <2>2 DEF Report
  <1>4. CASE Ready(j)
    <2>1. job' \in [Job -> JobState]
      <3>1. {"ready", "release"} \subseteq JobState
        BY DEF JobState
      <3>2. Moved(j, "ready") \/ Moved(j, "release")
        BY <1>4 DEF Ready
      <3> QED
        BY <1>0, <3>1, <3>2
    <2>2. result' \in [Job -> {"none", "ok", "empty", "error", "fatal"}]
      BY <1>4 DEF Ready
    <2> QED
      BY <1>4, <2>1, <2>2 DEF Ready
  <1>5. CASE Release(j)
    <2>1. job' \in [Job -> JobState]
      BY <1>0, <1>5 DEF Release, JobState
    <2>2. held[j] \in Entry /\ j \in Holders(UidOf(j), held[j])
      BY <1>5 DEF Release, LeaseInv, HeldWhileLeasing, Leasing, Holders
    <2>3. refs[UidOf(j)][held[j]] # 0
      BY <2>2, JobsAreFinite, FS_EmptySet DEF LeaseInv, RefsCount
    <2>4. refs' \in [Uid -> [Entry -> Nat]]
      <3>1. refs[UidOf(j)][held[j]] - 1 \in Nat
        BY <2>2, <2>3
      <3> QED
        BY <1>5, <2>2, <3>1, NestedUpdate DEF Release
    <2>5. entry' \in [Uid -> Entry \cup {0}] /\ held' \in [Job -> Entry \cup {0}]
      BY <1>5 DEF Release
    <2>6. media' \in [Uid -> [Entry -> {"none", "queued", "preparing", "open", "failed",
                                        "closing", "closed"}]]
      BY <1>5 DEF Release
    <2> QED
      BY <1>5, <2>1, <2>4, <2>5, <2>6 DEF Release
  <1>6. CASE Cleanup(j)
    <2>1. job' \in [Job -> JobState]
      BY <1>0, <1>6 DEF Cleanup, JobState
    <2>2. result' \in [Job -> {"none", "ok", "empty", "error", "fatal"}]
      BY <1>6 DEF Cleanup
    <2>3. faults' \in 0 .. MaxFaults
      BY <1>6 DEF Cleanup, Fault
    <2>4. held' \in [Job -> Entry \cup {0}]
      BY <1>6 DEF Cleanup
    <2>5. media' \in [Uid -> [Entry -> {"none", "queued", "preparing", "open", "failed",
                                        "closing", "closed"}]]
      BY <1>6 DEF Cleanup
    <2> QED
      BY <1>6, <2>1, <2>2, <2>3, <2>4, <2>5 DEF Cleanup
  <1>2. CASE TrySubmit(j)
    <2>1. job' \in [Job -> JobState]
      BY <1>0, <1>2 DEF TrySubmit, JobState
    <2>2. PICK e \in Entry : Joins(j, e)
      BY <1>2, SubmitJoins
    <2>3. refs' \in [Uid -> [Entry -> Nat]]
      BY <2>2 DEF Joins
    <2>4. entry' \in [Uid -> Entry \cup {0}] /\ held' \in [Job -> Entry \cup {0}]
      BY <2>2 DEF Joins
    <2>5. media' \in [Uid -> [Entry -> {"none", "queued", "preparing", "open", "failed",
                                        "closing", "closed"}]]
      BY <2>2 DEF Joins
    <2> QED
      BY <1>2, <2>1, <2>3, <2>4, <2>5 DEF TrySubmit
  <1> QED
    BY <1>1, <1>2, <1>3, <1>4, <1>5, <1>6

(* The steps of a runner keep the types.                                   *)
LEMMA RunnerTypes ==
  ASSUME TypeOK, NEW j \in Job,
         Begin(j) \/ AttemptEnds(j) \/ Commit(j) \/ Complete(j) \/ Execute(j)
  PROVE  TypeOK'
  <1>1. job' \in [Job -> JobState]
    <2>1. {"begin", "work", "commit", "written", "release"} \subseteq JobState
      BY DEF JobState
    <2>2. PICK s \in {"begin", "work", "commit", "written", "release"} : Moved(j, s)
      BY RunnerStep
    <2> QED
      BY <2>1, <2>2 DEF TypeOK, Moved
  <1>2. result' \in [Job -> {"none", "ok", "empty", "error", "fatal"}]
    <2>1. \/ UNCHANGED result
          \/ \E x \in {"ok", "empty", "error", "fatal"} : result' = [result EXCEPT ![j] = x]
      BY DEF Begin, AttemptEnds, Commit, Complete, Execute, AttemptFails, Ends
    <2> QED
      BY <2>1 DEF TypeOK
  <1>3. attempt' \in [Job -> 0 .. Attempts]
    <2>1. \/ UNCHANGED attempt
          \/ attempt[j] < Attempts /\ attempt' = [attempt EXCEPT ![j] = attempt[j] + 1]
          \/ attempt' = [attempt EXCEPT ![j] = 1]
      BY DEF Begin, AttemptEnds, Commit, Complete, Execute, AttemptFails, Ends, work
    <2>2. \A x \in 0 .. Attempts : [attempt EXCEPT ![j] = x] \in [Job -> 0 .. Attempts]
      BY DEF TypeOK
    <2>3. attempt[j] \in 0 .. Attempts /\ 1 \in 0 .. Attempts
      BY Limits DEF TypeOK
    <2>4. attempt[j] < Attempts => attempt[j] + 1 \in 0 .. Attempts
      BY <2>3, Limits
    <2> QED
      BY <2>1, <2>2, <2>3, <2>4 DEF TypeOK
  <1> USE <1>1, <1>2, <1>3 DEF TypeOK, control, world, leases, work, disk
  <1>4. CASE Begin(j)
    <2>1. frame' \in [Job -> [Frame -> FrameState]]
      <3>1. \/ UNCHANGED frame
            \/ frame' = [frame EXCEPT ![j] = [f \in Frame |-> "idle"]]
        BY <1>4 DEF Begin
      <3>2. [f \in Frame |-> "idle"] \in [Frame -> FrameState]
        BY DEF FrameState
      <3> QED
        BY <3>1, <3>2
    <2>2. known' \in [Job -> [Key -> Answer \cup {None}]]
      BY <1>4 DEF Begin
    <2> QED
      BY <1>4, <2>1, <2>2 DEF Begin
  <1>5. CASE AttemptEnds(j)
    BY <1>5 DEF AttemptEnds
  <1>6. CASE Commit(j)
    <2>1. final' \in [Job -> Nat]
      BY <1>6 DEF Commit
    <2>2. faults' \in 0 .. MaxFaults
      BY <1>6, EpisodeAssumption DEF Commit, Fault
    <2> QED
      BY <1>6, <2>1, <2>2 DEF Commit
  <1>7. CASE Complete(j)
    BY <1>7 DEF Complete
  <1>8. CASE Execute(j)
    BY <1>8 DEF Execute
  <1> QED
    BY <1>4, <1>5, <1>6, <1>7, <1>8

(* The steps of the threads of a job keep the types.                       *)
LEMMA FrameTypes ==
  ASSUME IndInv, NEW j \in Job, NEW f \in Frame,
         \/ Ask(j, f) \/ Answered(j, f) \/ RequestFails(j, f) \/ Put(j, f)
         \/ Store(j, f) \/ Expose(j, f)
  PROVE  TypeOK'
  <1>1. frame' \in [Job -> [Frame -> FrameState]]
    <2>1. \E x \in FrameState : frame' = [frame EXCEPT ![j][f] = x]
      BY DEF Ask, Answered, RequestFails, Put, Store, Expose, At, FrameState
    <2> QED
      BY <2>1 DEF IndInv, TypeOK
  <1>2. clips' \subseteq Job \X Frame
    BY DEF IndInv, TypeOK, Ask, Answered, RequestFails, Put, Store, Expose
  <1>3. faults' \in 0 .. MaxFaults
    <2>1. UNCHANGED faults \/ Fault
      BY DEF Ask, Answered, RequestFails, Put, Store, Expose
    <2> QED
      BY <2>1, EpisodeAssumption DEF IndInv, TypeOK, Fault
  <1>7. fatal' \in BOOLEAN
    BY DEF IndInv, TypeOK, Ask, Answered, RequestFails, Put, Store, Expose, world
  <1>4. Store(j, f) \/ Expose(j, f) => Value(j, f) \in Answer
    <2>1. frame[j][f] \in {"locked", "stored"} => attempt[j] # 0
      BY DEF IndInv, UnitInv, AttemptIsAlone, AttemptCounted
    <2> QED
      BY <2>1, ValueType DEF IndInv, Store, Expose
  <1>5. unit' \in [Job -> [Key -> Answer \cup {None}]]
    <2>1. UNCHANGED unit \/ (Store(j, f) /\ unit' = [unit EXCEPT ![j][UnitOf(j, f)] = Value(j, f)])
      BY DEF Ask, Answered, RequestFails, Put, Store, Expose, disk
    <2>2. UnitOf(j, f) \in Key /\ unit \in [Job -> [Key -> Answer \cup {None}]]
      BY UnitIsKey DEF IndInv, TypeOK
    <2>3. \A x \in Answer \cup {None} :
            [unit EXCEPT ![j][UnitOf(j, f)] = x] \in [Job -> [Key -> Answer \cup {None}]]
      BY <2>2, NestedUpdate
    <2> QED
      BY <1>4, <2>1, <2>2, <2>3
  <1>6. known' \in [Job -> [Key -> Answer \cup {None}]]
    <2>1. UNCHANGED known \/ (Expose(j, f) /\ known' = [known EXCEPT ![j][UnitOf(j, f)] = Value(j, f)])
      BY DEF Ask, Answered, RequestFails, Put, Store, Expose
    <2>2. UnitOf(j, f) \in Key /\ known \in [Job -> [Key -> Answer \cup {None}]]
      BY UnitIsKey DEF IndInv, TypeOK
    <2>3. \A x \in Answer \cup {None} :
            [known EXCEPT ![j][UnitOf(j, f)] = x] \in [Job -> [Key -> Answer \cup {None}]]
      BY <2>2, NestedUpdate
    <2> QED
      BY <1>4, <2>1, <2>2, <2>3
  <1> QED
    BY <1>1, <1>2, <1>3, <1>5, <1>6, <1>7
    DEF IndInv, TypeOK, Ask, Answered, RequestFails, Put, Store, Expose,
        control, world, leases, disk

(* So does put_many.                                                       *)
LEMMA PutManyTypes ==
  ASSUME IndInv, NEW j \in Job, PutMany(j)
  PROVE  TypeOK'
  <1> DEFINE saved == [k \in Key |-> IF \E f \in Answers(j) : UnitOf(j, f) = k
                                     THEN Value(j, CHOOSE f \in Answers(j) : UnitOf(j, f) = k)
                                     ELSE unit[j][k]]
  <1>1. saved \in [Key -> Answer \cup {None}]
    <2>1. attempt[j] # 0
      BY DEF PutMany, IndInv, UnitInv, AttemptCounted
    <2>2. ASSUME NEW k \in Key, \E f \in Answers(j) : UnitOf(j, f) = k
          PROVE  Value(j, CHOOSE f \in Answers(j) : UnitOf(j, f) = k) \in Answer
      BY <2>1, <2>2, ValueType DEF IndInv, Answers
    <2>3. \A k \in Key : unit[j][k] \in Answer \cup {None}
      BY DEF IndInv, TypeOK
    <2> QED
      BY <2>2, <2>3
  <1> USE DEF IndInv, TypeOK
  <1>2. unit' = [unit EXCEPT ![j] = saved] \/ UNCHANGED unit
    BY DEF PutMany
  <1>3. unit' \in [Job -> [Key -> Answer \cup {None}]]
    <2> HIDE DEF saved
    <2> QED
      BY <1>1, <1>2
  <1>4. known' \in [Job -> [Key -> Answer \cup {None}]]
    <2>1. known' = [known EXCEPT ![j] = unit'[j]] \/ UNCHANGED known
      BY DEF PutMany
    <2> QED
      BY <1>3, <2>1
  <1>5. frame' \in [Job -> [Frame -> FrameState]]
    <2>1. \E x \in {"saved", "failed"} :
            frame' = [frame EXCEPT ![j] = [f \in Frame |-> IF f \in Answers(j) THEN x
                                                           ELSE frame[j][f]]]
      BY DEF PutMany
    <2>2. {"saved", "failed"} \subseteq FrameState
      BY DEF FrameState
    <2> QED
      BY <2>1, <2>2
  <1>6. faults' \in 0 .. MaxFaults
    <2>1. UNCHANGED faults \/ Fault
      BY DEF PutMany
    <2> QED
      BY <2>1, EpisodeAssumption DEF Fault
  <1> QED
    BY <1>3, <1>4, <1>5, <1>6 DEF PutMany, control, world, leases

(* Every step keeps the types.                                             *)
LEMMA TypeStep == ASSUME IndInv, [Next]_vars PROVE TypeOK'
  <1>1. CASE Publish \/ Seal
    BY <1>1 DEF IndInv, TypeOK, Publish, Seal, control, world, leases, work, disk
  <1>2. CASE Exited \/ UNCHANGED vars
    BY <1>2 DEF IndInv, TypeOK, Exited, vars, control, world, leases, work, disk
  <1>3. CASE Crash
    BY <1>3, CrashTypes DEF IndInv
  <1>4. CASE Step
    BY <1>4, LaneTypes, MediaTypes, JobTypes, RunnerTypes, FrameTypes, PutManyTypes
    DEF Step, IndInv
  <1> QED
    BY <1>1, <1>2, <1>3, <1>4 DEF Next

-----------------------------------------------------------------------------
(* Leases.                                                                 *)

(* A counted lease is a positive number of holders.                        *)
LEMMA HolderCounts ==
  ASSUME IndInv, NEW j \in Job, held[j] # 0, job[j] # "cleanup"
  PROVE  /\ held[j] \in Entry /\ UidOf(j) \in Uid /\ j \in Holders(UidOf(j), held[j])
         /\ refs[UidOf(j)][held[j]] > 0 /\ entry[UidOf(j)] = held[j]
         /\ refs[UidOf(j)][held[j]] = 1 => Holders(UidOf(j), held[j]) = {j}
  <1> DEFINE u == UidOf(j)
             e == held[j]
  <1>1. e \in Entry /\ u \in Uid /\ j \in Holders(u, e)
    BY JobFacts DEF IndInv, TypeOK, Holders
  <1>2. refs[u][e] = Cardinality(Holders(u, e)) /\ refs[u][e] \in Nat
    BY <1>1 DEF IndInv, TypeOK, LeaseInv, RefsCount
  <1>3. refs[u][e] # 0
    BY <1>1, <1>2, JobsAreFinite, FS_EmptySet
  <1>4. refs[u][e] = 1 => Holders(u, e) = {j}
    <2>1. Cardinality(Holders(u, e)) = 1 => \E x : Holders(u, e) = {x}
      BY JobsAreFinite, FS_Singleton
    <2> QED
      BY <1>1, <1>2, <2>1
  <1>5. entry[u] = e
    BY <1>1, <1>2, <1>3 DEF IndInv, LeaseInv, InTable
  <1> QED
    BY <1>1, <1>2, <1>3, <1>4, <1>5

(* What concerns neither jobs nor leases.                                  *)
LEMMA LeaseIdle ==
  ASSUME LeaseInv, UNCHANGED <<lane, job, leases>>
  PROVE  LeaseInv'
  BY DEF LeaseInv, HeldWhileLeasing, RefsCount, Holders, InTable, TableMedia, JobMedia, MediaOf,
         OneCloser, RestIsQuiet, leases

(* A job that moves under its lease, or without one, changes no lease.     *)
LEMMA LeaseMove ==
  ASSUME IndInv, UNCHANGED leases, NEW j \in Job, NEW s \in JobState, Moved(j, s),
         s \in Leasing <=> job[j] \in Leasing, s # "cleanup", job[j] # "cleanup",
         s \in {"ready", "begin", "work", "commit", "written"} => MediaOf(j) = "open",
         s = "release" => MediaOf(j) \in {"open", "failed"},
         lane[LaneOf(j)] \notin {"rest", "ended"},
         \A l \in Lane : lane'[l] # lane[l] => lane'[l] = "raised"
  PROVE  LeaseInv'
  <1> USE DEF IndInv, LeaseInv, leases
  <1>1. job' = [job EXCEPT ![j] = s] /\ job \in [Job -> JobState]
    BY DEF Moved, TypeOK
  <1>2. HeldWhileLeasing'
    BY <1>1 DEF HeldWhileLeasing
  <1>3. \A u, e : Holders(u, e)' = Holders(u, e)
    BY <1>1 DEF Holders
  <1>4. RefsCount' /\ InTable' /\ TableMedia'
    BY <1>3 DEF RefsCount, InTable, TableMedia
  <1>5. JobMedia'
    BY <1>1 DEF JobMedia, MediaOf
  <1>6. OneCloser'
    BY <1>1 DEF OneCloser
  <1>7. RestIsQuiet'
    BY <1>1, JobFacts DEF RestIsQuiet
  <1> QED
    BY <1>2, <1>4, <1>5, <1>6, <1>7

(* Jobs move within their lanes.                                           *)
LEMMA LeaseMoves ==
  ASSUME IndInv, NEW j \in Job,
         \/ Pull(j) \/ Report(j) \/ Ready(j)
         \/ Begin(j) \/ AttemptEnds(j) \/ Commit(j) \/ Complete(j) \/ Execute(j)
  PROVE  LeaseInv'
  <1>1. \A t \in {"todo", "over", "leased", "ready", "begin", "work", "commit", "written"} :
          job[j] = t => lane[LaneOf(j)] \notin {"rest", "ended"}
    BY JobFacts DEF IndInv, LeaseInv, RestIsQuiet
  <1>2. CASE Pull(j)
    <2>1. PICK s \in {"backlog", "deferred"} : Moved(j, s)
      BY <1>2 DEF Pull
    <2> QED
      BY <1>1, <1>2, <2>1, LeaseMove DEF Pull, Leasing, JobState, control
  <1>3. CASE Report(j)
    <2>1. Moved(j, "reported") /\ UNCHANGED leases /\ job[j] = "over"
      BY <1>3 DEF Report
    <2>2. \A l \in Lane : lane'[l] # lane[l] => lane'[l] = "raised"
      BY <1>3 DEF Report, IndInv, TypeOK
    <2> QED
      BY <1>1, <2>1, <2>2, LeaseMove DEF Leasing, JobState
  <1>4. CASE Ready(j)
    <2>1. PICK s \in {"ready", "release"} : /\ Moved(j, s)
                                            /\ s = "ready" => MediaOf(j) = "open"
                                            /\ MediaOf(j) \in {"open", "failed"}
      BY <1>4 DEF Ready, Over
    <2>2. UNCHANGED <<leases, lane>> /\ job[j] = "leased"
      BY <1>4 DEF Ready, control
    <2>3. s \in JobState /\ s \in Leasing /\ job[j] \in Leasing /\ s # "cleanup"
      BY <2>2 DEF Leasing, JobState
    <2> QED
      BY <1>1, <2>1, <2>2, <2>3, LeaseMove
  <1>5. CASE Begin(j) \/ AttemptEnds(j) \/ Commit(j) \/ Complete(j) \/ Execute(j)
    <2>1. PICK s \in {"begin", "work", "commit", "written", "release"} : Moved(j, s)
      BY <1>5, RunnerStep
    <2>2. UNCHANGED <<leases, lane>> /\ job[j] \in {"ready", "begin", "work", "commit", "written"}
      BY <1>5, RunnerStep
    <2>3. MediaOf(j) = "open"
      BY <2>2 DEF IndInv, LeaseInv, JobMedia
    <2> QED
      BY <1>1, <2>1, <2>2, <2>3, LeaseMove DEF Leasing, JobState
  <1> QED
    BY <1>2, <1>3, <1>4, <1>5

(* A lane begins and ends its passes with all of its jobs at rest.         *)
LEMMA LeaseLanes ==
  ASSUME IndInv, NEW l \in Lane, PassEnds(l) \/ PassBegins(l) \/ LaneRaises(l)
  PROVE  LeaseInv'
  <1> USE DEF IndInv, LeaseInv, TypeOK
  <1>1. CASE PassEnds(l) \/ LaneRaises(l)
    <2>1. RestIsQuiet'
      BY <1>1, JobFacts DEF PassEnds, LaneRaises, RestIsQuiet, Of, Deferred
    <2> QED
      BY <1>1, <2>1
      DEF PassEnds, LaneRaises, HeldWhileLeasing, RefsCount, Holders, InTable, TableMedia,
          JobMedia, MediaOf, OneCloser, leases
  <1>2. CASE PassBegins(l)
    <2>1. \A j \in Job : job'[j] = job[j] \/ (LaneOf(j) = l /\ job'[j] \in {"todo", "skipped"})
      BY <1>2 DEF PassBegins, Fresh
    <2>2. \A j \in Job : LaneOf(j) = l => job[j] \notin Leasing
      BY <1>2 DEF PassBegins, RestIsQuiet, Leasing
    <2>3. \A j \in Job : job'[j] \in Leasing \/ job[j] \in Leasing => job'[j] = job[j]
      BY <2>1, <2>2 DEF Leasing
    <2>4. UNCHANGED leases
      BY <1>2 DEF PassBegins
    <2>5. HeldWhileLeasing'
      BY <2>3, <2>4 DEF HeldWhileLeasing, leases
    <2>6. \A u, e : e # 0 => Holders(u, e)' = Holders(u, e)
      BY <2>3, <2>4 DEF Holders, HeldWhileLeasing, Leasing, leases
    <2>7. RefsCount' /\ InTable' /\ TableMedia'
      BY <2>4, <2>6, EntryFacts DEF RefsCount, InTable, TableMedia, leases
    <2>8. JobMedia'
      BY <2>3, <2>4 DEF JobMedia, MediaOf, Leasing, leases
    <2>10. \A j \in Job : job'[j] = "cleanup" <=> job[j] = "cleanup"
      BY <2>3 DEF Leasing
    <2>11. OneCloser'
      BY <2>4, <2>10 DEF OneCloser, leases
    <2>9. RestIsQuiet'
      BY <1>2, <2>1, JobFacts DEF PassBegins, RestIsQuiet
    <2> QED
      BY <2>5, <2>7, <2>8, <2>9, <2>11
  <1> QED
    BY <1>1, <1>2

(* Preparation changes only media that jobs wait for.                      *)
LEMMA LeaseMedia ==
  ASSUME IndInv, Close \/ \E u \in Uid, e \in Entry : InitializeBegins(u, e) \/ InitializeEnds(u, e)
  PROVE  LeaseInv'
  <1> USE DEF IndInv, LeaseInv, TypeOK
  <1>1. UNCHANGED <<job, entry, held, refs>> /\ \A l \in Lane : lane'[l] = lane[l]
    BY DEF Close, InitializeBegins, InitializeEnds, control
  <1>2. \A u \in Uid, e \in Entry :
          \/ media'[u][e] = media[u][e]
          \/ /\ media[u][e] \in {"queued", "preparing"}
             /\ media'[u][e] \in {"preparing", "open", "failed"}
    <2>1. CASE Close
      BY <2>1 DEF Close
    <2>2. ASSUME NEW u \in Uid, NEW e \in Entry, InitializeBegins(u, e)
          PROVE  /\ media[u][e] = "queued"
                 /\ \A v \in Uid, x \in Entry : \/ media'[v][x] = media[v][x]
                                                \/ v = u /\ x = e /\ media'[v][x] = "preparing"
      BY <2>2 DEF InitializeBegins
    <2>3. ASSUME NEW u \in Uid, NEW e \in Entry, InitializeEnds(u, e)
          PROVE  /\ media[u][e] = "preparing"
                 /\ \A v \in Uid, x \in Entry : \/ media'[v][x] = media[v][x]
                                                \/ v = u /\ x = e /\ media'[v][x] \in {"open", "failed"}
      BY <2>3 DEF InitializeEnds
    <2> QED
      BY <2>1, <2>2, <2>3
  <1>3. HeldWhileLeasing' /\ RefsCount' /\ InTable' /\ RestIsQuiet'
    BY <1>1, JobFacts DEF HeldWhileLeasing, RefsCount, Holders, InTable, RestIsQuiet
  <1>4. TableMedia'
    BY <1>1, <1>2 DEF TableMedia
  <1>5. JobMedia'
    <2>1. ASSUME NEW j \in Job, MediaOf(j) \in {"open", "failed", "closing"}
          PROVE  MediaOf(j)' = MediaOf(j)
      <3>1. held[j] \in Entry /\ UidOf(j) \in Uid /\ MediaOf(j) = media[UidOf(j)][held[j]]
        BY <2>1, JobFacts DEF MediaOf
      <3>2. media'[UidOf(j)][held[j]] = media[UidOf(j)][held[j]]
        <4>1. media[UidOf(j)][held[j]] \in {"open", "failed", "closing"}
          BY <2>1, <3>1
        <4> QED
          BY <1>2, <3>1, <4>1
      <3> QED
        BY <1>1, <3>1, <3>2 DEF MediaOf
    <2> QED
      BY <1>1, <2>1 DEF JobMedia
  <1>6. OneCloser'
    <2>1. \A u \in Uid, e \in Entry : media'[u][e] = "closing" => media[u][e] = "closing"
      BY <1>2
    <2> QED
      BY <1>1, <2>1 DEF OneCloser
  <1> QED
    BY <1>3, <1>4, <1>5, <1>6

(* A submitted job takes one more lease of its entry.                      *)
LEMMA LeaseSubmit == ASSUME IndInv, NEW j \in Job, TrySubmit(j) PROVE LeaseInv'
  <1> USE DEF IndInv, LeaseInv, TypeOK
  <1> DEFINE u == UidOf(j)
  <1>1. PICK e \in Entry : Joins(j, e)
    BY SubmitJoins
  <1>2. /\ u \in Uid /\ e # 0 /\ held[j] = 0
        /\ job' = [job EXCEPT ![j] = "leased"] /\ held' = [held EXCEPT ![j] = e]
        /\ entry' = [entry EXCEPT ![u] = e] /\ job[j] = "backlog" /\ UNCHANGED lane
    BY <1>1, JobFacts, EntryFacts DEF TrySubmit, Joins, Moved, HeldWhileLeasing, Leasing, control
  <1>3. \A v \in Uid, x \in Entry : entry[v] = x <=> refs[v][x] > 0
    BY DEF InTable
  <1>4. \A v \in Uid, x \in Entry :
          /\ refs'[v][x] = IF v = u /\ x = e THEN refs[v][x] + 1 ELSE refs[v][x]
          /\ media'[v][x] = IF v = u /\ x = e /\ entry[u] = 0 THEN "queued" ELSE media[v][x]
    BY <1>1, <1>2 DEF Joins
  <1>5. entry[u] = e \/ (entry[u] = 0 /\ media[u][e] \in {"none", "closed", "failed"})
    BY <1>1 DEF Joins
  <1>6. HeldWhileLeasing'
    BY <1>2 DEF HeldWhileLeasing, Leasing
  <1>7. RefsCount'
    <2>1. ASSUME NEW v \in Uid, NEW x \in Entry, ~(v = u /\ x = e)
          PROVE  Holders(v, x)' = Holders(v, x)
      BY <1>2, <2>1, EntryFacts DEF Holders
    <2>2. Holders(u, e)' = Holders(u, e) \cup {j} /\ j \notin Holders(u, e)
      BY <1>2 DEF Holders
    <2>3. Cardinality(Holders(u, e)') = Cardinality(Holders(u, e)) + 1
      <3>1. IsFiniteSet(Holders(u, e))
        BY JobsAreFinite
      <3>2. Cardinality(Holders(u, e) \cup {j}) = Cardinality(Holders(u, e)) + 1
        BY <2>2, <3>1, FS_AddElement
      <3> QED
        BY <2>2, <3>2
    <2>4. refs'[u][e] = Cardinality(Holders(u, e)')
      BY <1>2, <1>4, <2>3 DEF RefsCount
    <2>5. ASSUME NEW v \in Uid, NEW x \in Entry, ~(v = u /\ x = e)
          PROVE  refs'[v][x] = Cardinality(Holders(v, x)')
      BY <1>4, <2>1, <2>5 DEF RefsCount
    <2> QED
      BY <2>4, <2>5 DEF RefsCount
  <1>8. InTable'
    BY <1>2, <1>3, <1>4, <1>5, EntryFacts DEF InTable
  <1>9. TableMedia'
    BY <1>2, <1>4, <1>5, EntryFacts DEF TableMedia
  <1>10. ASSUME NEW i \in Job, i # j, MediaOf(i) \in {"open", "failed", "closing"},
                job[i] \in Leasing \ {"leased"}
         PROVE  MediaOf(i)' = MediaOf(i)
    <2>1. held[i] \in Entry /\ UidOf(i) \in Uid /\ MediaOf(i) = media[UidOf(i)][held[i]]
      BY <1>10, JobFacts DEF MediaOf
    <2>2. CASE UidOf(i) = u /\ held[i] = e /\ entry[u] = 0
      <3>1. job[i] = "cleanup"
        BY <1>10, <2>1, <2>2, HolderCounts, EntryFacts
      <3>2. media[u][e] = "closing"
        BY <2>1, <2>2, <3>1 DEF JobMedia
      <3> QED
        BY <1>5, <2>2, <3>2, EntryFacts
    <2>3. CASE ~(UidOf(i) = u /\ held[i] = e /\ entry[u] = 0)
      BY <1>2, <1>4, <1>10, <2>1, <2>3 DEF MediaOf
    <2> QED
      BY <2>2, <2>3
  <1>11. JobMedia'
    BY <1>2, <1>10 DEF JobMedia, Leasing
  <1>12. OneCloser'
    <2>1. \A i \in Job : job'[i] = "cleanup" => i # j /\ job[i] = "cleanup" /\ held'[i] = held[i]
      BY <1>2
    <2>2. \A i \in Job : job[i] = "cleanup" => job'[i] = "cleanup" /\ held'[i] = held[i]
      BY <1>2
    <2>3. \A v \in Uid, x \in Entry : media'[v][x] = "closing" => media[v][x] = "closing"
      BY <1>4
    <2>4. ASSUME NEW i \in Job, NEW k \in Job, job'[i] = "cleanup", job'[k] = "cleanup",
                 UidOf(i) = UidOf(k), held'[i] = held'[k]
          PROVE  i = k
      BY <2>1, <2>4 DEF OneCloser
    <2>5. ASSUME NEW v \in Uid, NEW x \in Entry, media'[v][x] = "closing"
          PROVE  \E i \in Job : UidOf(i) = v /\ held'[i] = x /\ job'[i] = "cleanup"
      <3>1. PICK i \in Job : UidOf(i) = v /\ held[i] = x /\ job[i] = "cleanup"
        BY <2>3, <2>5 DEF OneCloser
      <3> QED
        BY <2>2, <3>1
    <2> QED
      BY <2>4, <2>5 DEF OneCloser
  <1>13. RestIsQuiet'
    BY <1>2, JobFacts DEF RestIsQuiet
  <1> QED
    BY <1>6, <1>7, <1>8, <1>9, <1>11, <1>12, <1>13

(* A released job gives its lease back; the last one closes the media.     *)
LEMMA LeaseRelease == ASSUME IndInv, NEW j \in Job, Release(j) PROVE LeaseInv'
  <1> USE DEF IndInv, LeaseInv, TypeOK
  <1>0. PICK e \in Entry : held[j] = e /\ job[j] = "release"
    BY DEF Release, HeldWhileLeasing, Leasing
  <1> DEFINE u == UidOf(j)
             last == refs[u][e] = 1
             closes == last /\ media[u][e] = "open"
  <1>1. /\ e \in Entry /\ u \in Uid /\ e # 0 /\ job[j] = "release"
        /\ job \in [Job -> JobState] /\ held \in [Job -> Entry \cup {0}]
        /\ entry[u] = e /\ refs[u][e] > 0 /\ refs[u][e] \in Nat
        /\ last => Holders(u, e) = {j}
        /\ media[u][e] \in {"open", "failed"}
    BY <1>0, EntryFacts, HolderCounts DEF JobMedia, MediaOf
  <1>2. /\ job' = [job EXCEPT ![j] = IF closes THEN "cleanup" ELSE "over"]
        /\ held' = IF closes THEN held ELSE [held EXCEPT ![j] = 0]
        /\ entry' = IF last THEN [entry EXCEPT ![u] = 0] ELSE entry
        /\ UNCHANGED lane
    BY <1>0 DEF Release, LastLease, Moved, control
  <1>3. \A v \in Uid, x \in Entry :
          /\ refs'[v][x] = IF v = u /\ x = e THEN refs[v][x] - 1 ELSE refs[v][x]
          /\ media'[v][x] = IF v = u /\ x = e /\ closes THEN "closing" ELSE media[v][x]
    BY <1>0, <1>1 DEF Release, LastLease
  <1>4. \A i \in Job \ {j} : job'[i] = job[i] /\ held'[i] = held[i]
    BY <1>1, <1>2
  <1> HIDE DEF closes, last, u
  <1>5. HeldWhileLeasing'
    <2>1. held'[j] # 0 <=> job'[j] \in Leasing
      BY <1>0, <1>1, <1>2 DEF Leasing
    <2> QED
      BY <1>4, <2>1 DEF HeldWhileLeasing
  <1>6. RefsCount'
    <2>1. ASSUME NEW v \in Uid, NEW x \in Entry, ~(v = u /\ x = e)
          PROVE  Holders(v, x)' = Holders(v, x)
      <3>1. \A i \in Job : i \in Holders(v, x)' <=> i \in Holders(v, x)
        BY <1>0, <1>1, <1>2, <1>4, <2>1, EntryFacts DEF Holders, u
      <3> QED
        BY <3>1 DEF Holders
    <2>2. Holders(u, e)' = Holders(u, e) \ {j} /\ j \in Holders(u, e)
      <3>1. j \in Holders(u, e)
        BY <1>0, <1>1 DEF Holders, u
      <3>2. job'[j] = "cleanup" \/ held'[j] = 0
        BY <1>1, <1>2
      <3>3. j \notin {i \in Job : UidOf(i) = u /\ held'[i] = e /\ job'[i] # "cleanup"}
        BY <1>1, <3>2
      <3>4. \A i \in Job : UidOf(i) = u /\ held'[i] = e /\ job'[i] # "cleanup"
                            <=> i \in Holders(u, e) \ {j}
        BY <1>4, <3>3 DEF Holders
      <3>5. {i \in Job : UidOf(i) = u /\ held'[i] = e /\ job'[i] # "cleanup"}
              = Holders(u, e) \ {j}
        BY <3>4 DEF Holders
      <3> QED
        BY <3>1, <3>5 DEF Holders
    <2>3. Cardinality(Holders(u, e)') = Cardinality(Holders(u, e)) - 1
      <3>1. Cardinality(Holders(u, e) \ {j}) = Cardinality(Holders(u, e)) - 1
        BY <2>2, JobsAreFinite, FS_RemoveElement
      <3> QED
        BY <2>2, <3>1
    <2> QED
      <3>1. refs'[u][e] = Cardinality(Holders(u, e)')
        BY <1>1, <1>3, <2>3 DEF RefsCount
      <3>2. ASSUME NEW v \in Uid, NEW x \in Entry, ~(v = u /\ x = e)
            PROVE  refs'[v][x] = Cardinality(Holders(v, x)')
        BY <1>3, <2>1, <3>2 DEF RefsCount
      <3> QED
        BY <3>1, <3>2 DEF RefsCount
  <1>7. InTable'
    BY <1>1, <1>2, <1>3, EntryFacts DEF InTable, last
  <1>8. TableMedia'
    BY <1>1, <1>2, <1>3, EntryFacts DEF TableMedia, closes, last
  <1>9. JobMedia'
    <2>1. ASSUME NEW i \in Job, i # j, MediaOf(i) \in {"open", "failed", "closing"},
                 job[i] \in Leasing \ {"leased"}
          PROVE  MediaOf(i)' = MediaOf(i)
      <3>1. held[i] \in Entry /\ UidOf(i) \in Uid /\ MediaOf(i) = media[UidOf(i)][held[i]]
        BY <2>1, JobFacts DEF MediaOf
      <3>2. ~(UidOf(i) = u /\ held[i] = e /\ closes)
        BY <1>1, <2>1, <3>1 DEF closes, Holders, JobMedia
      <3> QED
        BY <1>3, <1>4, <2>1, <3>1, <3>2 DEF MediaOf
    <2>2. job'[j] = "cleanup" => MediaOf(j)' = "closing"
      BY <1>0, <1>1, <1>2, <1>3 DEF MediaOf, u
    <2>3. job'[j] \in {"cleanup", "over"}
      BY <1>1, <1>2
    <2> QED
      BY <1>4, <2>1, <2>2, <2>3 DEF JobMedia, Leasing
  <1>10. OneCloser'
    <2>1. ASSUME NEW i \in Job, job[i] = "cleanup", UidOf(i) = u, held[i] = e
          PROVE  ~ closes
      BY <1>1, <2>1 DEF JobMedia, MediaOf, closes
    <2>2. job'[j] = "cleanup" <=> closes
      BY <1>1, <1>2
    <2>3. closes => held'[j] = e /\ UidOf(j) = u
      BY <1>0, <1>1, <1>2 DEF u
    <2>4. \A v \in Uid, x \in Entry : media'[v][x] = "closing" =>
            media[v][x] = "closing" \/ (v = u /\ x = e /\ closes)
      BY <1>3
    <2>5. ASSUME NEW i \in Job, NEW k \in Job, job'[i] = "cleanup", job'[k] = "cleanup",
                 UidOf(i) = UidOf(k), held'[i] = held'[k]
          PROVE  i = k
      <3>1. CASE i # j /\ k # j
        BY <1>4, <2>5, <3>1 DEF OneCloser
      <3>2. ASSUME NEW x \in Job \ {j}, job'[x] = "cleanup", job'[j] = "cleanup",
                   UidOf(x) = UidOf(j), held'[x] = held'[j]
            PROVE  FALSE
        BY <1>4, <2>1, <2>2, <2>3, <3>2
      <3> QED
        BY <2>5, <3>1, <3>2
    <2>6. ASSUME NEW v \in Uid, NEW x \in Entry, media'[v][x] = "closing"
          PROVE  \E i \in Job : UidOf(i) = v /\ held'[i] = x /\ job'[i] = "cleanup"
      <3>1. CASE v = u /\ x = e /\ closes
        BY <2>2, <2>3, <3>1
      <3>2. CASE media[v][x] = "closing"
        <4>1. PICK i \in Job : UidOf(i) = v /\ held[i] = x /\ job[i] = "cleanup"
          BY <3>2 DEF OneCloser
        <4> QED
          BY <1>1, <1>4, <4>1
      <3> QED
        BY <2>4, <2>6, <3>1, <3>2
    <2> QED
      BY <2>5, <2>6 DEF OneCloser
  <1>11. RestIsQuiet'
    BY <1>1, <1>2, <1>4, JobFacts DEF RestIsQuiet
  <1> QED
    BY <1>5, <1>6, <1>7, <1>8, <1>9, <1>10, <1>11

(* Cleaning up ends with the media closed.                                 *)
LEMMA LeaseCleanup == ASSUME IndInv, NEW j \in Job, Cleanup(j) PROVE LeaseInv'
  <1> USE DEF IndInv, LeaseInv, TypeOK
  <1> DEFINE u == UidOf(j)
             e == held[j]
  <1>1. /\ e \in Entry /\ u \in Uid /\ job[j] = "cleanup" /\ media[u][e] = "closing"
        /\ entry[u] # e /\ job \in [Job -> JobState] /\ held \in [Job -> Entry \cup {0}]
    <2>1. held[j] # 0 /\ job[j] = "cleanup"
      BY DEF Cleanup, HeldWhileLeasing, Leasing
    <2>2. e \in Entry /\ u \in Uid /\ media[u][e] = "closing"
      BY <2>1, JobFacts DEF JobMedia, MediaOf
    <2> QED
      BY <2>1, <2>2 DEF TableMedia
  <1>2. /\ job' = [job EXCEPT ![j] = "over"] /\ held' = [held EXCEPT ![j] = 0]
        /\ UNCHANGED <<lane, entry, refs>>
    BY DEF Cleanup, Moved, control
  <1>3. \A v \in Uid, x \in Entry :
          media'[v][x] = IF v = u /\ x = e THEN "closed" ELSE media[v][x]
    BY <1>1 DEF Cleanup
  <1>4. \A i \in Job \ {j} : job'[i] = job[i] /\ held'[i] = held[i]
    BY <1>1, <1>2
  <1>5. job'[j] = "over" /\ held'[j] = 0
    BY <1>1, <1>2
  <1> HIDE DEF u, e
  <1>6. HeldWhileLeasing'
    BY <1>4, <1>5 DEF HeldWhileLeasing, Leasing
  <1>7. RefsCount' /\ InTable'
    <2>1. ASSUME NEW v \in Uid, NEW x \in Entry
          PROVE  Holders(v, x)' = Holders(v, x)
      <3>1. \A i \in Job : i \in Holders(v, x)' <=> i \in Holders(v, x)
        BY <1>1, <1>4, <1>5, EntryFacts DEF Holders
      <3> QED
        BY <3>1 DEF Holders
    <2> QED
      BY <1>2, <2>1 DEF RefsCount, InTable
  <1>8. TableMedia'
    BY <1>1, <1>2, <1>3 DEF TableMedia
  <1>9. ASSUME NEW i \in Job, i # j, job[i] \in Leasing \ {"leased"}
        PROVE  MediaOf(i)' = MediaOf(i)
    <2>1. held[i] \in Entry /\ UidOf(i) \in Uid /\ MediaOf(i) = media[UidOf(i)][held[i]]
      BY <1>9, JobFacts DEF MediaOf, HeldWhileLeasing
    <2>2. ~(UidOf(i) = u /\ held[i] = e)
      BY <1>1, <1>9, <2>1 DEF JobMedia, OneCloser, Leasing, u, e
    <2> QED
      BY <1>3, <1>4, <1>9, <2>1, <2>2 DEF MediaOf
  <1>10. JobMedia'
    <2>1. ASSUME NEW i \in Job, i # j, job[i] \in Leasing \ {"leased"}
          PROVE  job'[i] = job[i] /\ MediaOf(i)' = MediaOf(i)
      BY <1>4, <1>9, <2>1
    <2>2. \A i \in Job : i = j \/ job'[i] = job[i]
      BY <1>4
    <2> QED
      BY <1>5, <2>1, <2>2 DEF JobMedia, Leasing
  <1>11. OneCloser'
    <2>1. \A i \in Job : job'[i] = "cleanup" => i # j /\ job[i] = "cleanup" /\ held'[i] = held[i]
      BY <1>4, <1>5
    <2>2. ASSUME NEW i \in Job, NEW k \in Job, job'[i] = "cleanup", job'[k] = "cleanup",
                 UidOf(i) = UidOf(k), held'[i] = held'[k]
          PROVE  i = k
      BY <2>1, <2>2 DEF OneCloser
    <2>3. ASSUME NEW v \in Uid, NEW x \in Entry, media'[v][x] = "closing"
          PROVE  \E i \in Job : UidOf(i) = v /\ held'[i] = x /\ job'[i] = "cleanup"
      <3>1. media[v][x] = "closing" /\ ~(v = u /\ x = e)
        BY <1>3, <2>3
      <3>2. PICK i \in Job : UidOf(i) = v /\ held[i] = x /\ job[i] = "cleanup"
        BY <3>1 DEF OneCloser
      <3> QED
        BY <1>4, <3>1, <3>2 DEF u, e
    <2> QED
      BY <2>2, <2>3 DEF OneCloser
  <1>12. RestIsQuiet'
    BY <1>1, <1>2, <1>4, JobFacts DEF RestIsQuiet
  <1> QED
    BY <1>6, <1>7, <1>8, <1>10, <1>11, <1>12

(* A crash forgets every lease.                                            *)
Restarted ==
  /\ lane = LaneStart /\ entry = Zero(Uid) /\ held = Zero(Job) /\ refs = PerEntry(0)
  /\ media = PerEntry("none") /\ job \in [Job -> {"todo", "skipped"}]

LEMMA LeaseBlank == Restarted => LeaseInv
  <1> SUFFICES ASSUME Restarted PROVE LeaseInv
    OBVIOUS
  <1> USE DEF Restarted
  <1>1. HeldWhileLeasing /\ InTable /\ TableMedia /\ JobMedia /\ OneCloser
    BY EntryFacts
    DEF HeldWhileLeasing, InTable, TableMedia, JobMedia, OneCloser, Zero, PerEntry, Leasing
  <1>2. RefsCount
    <2>1. \A u \in Uid, e \in Entry : Holders(u, e) = {}
      BY EntryFacts DEF Holders, Zero
    <2> QED
      BY <2>1, FS_EmptySet DEF RefsCount, PerEntry
  <1>3. RestIsQuiet
    BY JobFacts DEF RestIsQuiet, LaneStart
  <1> QED
    BY <1>1, <1>2, <1>3 DEF LeaseInv

(* Every step keeps the leases right.                                      *)
LEMMA LeaseStep == ASSUME IndInv, [Next]_vars PROVE LeaseInv'
  <1>1. CASE \/ Publish \/ Seal \/ Exited \/ UNCHANGED vars \/ \E j \in Job : PutMany(j)
    BY <1>1, OtherStep, LeaseIdle DEF runs, IndInv
  <1>2. ASSUME NEW j \in Job, NEW f \in Frame,
               \/ Ask(j, f) \/ Answered(j, f) \/ RequestFails(j, f) \/ Put(j, f)
               \/ Store(j, f) \/ Expose(j, f)
        PROVE  LeaseInv'
    BY <1>2, FrameStep, LeaseIdle DEF runs, IndInv
  <1>3. CASE Crash
    <2>1. job' \in [Job -> {"todo", "skipped"}]
      BY <1>3 DEF Crash, Fresh
    <2>2. /\ lane' = LaneStart /\ entry' = Zero(Uid) /\ held' = Zero(Job)
          /\ refs' = PerEntry(0) /\ media' = PerEntry("none")
      BY <1>3 DEF Crash
    <2>3. Restarted' => LeaseInv'
      BY LeaseBlank, PTL
    <2> QED
      BY <2>1, <2>2, <2>3 DEF Restarted, LaneStart, Zero, PerEntry
  <1> QED
    BY <1>1, <1>2, <1>3, LeaseMoves, LeaseLanes, LeaseMedia, LeaseSubmit, LeaseRelease,
       LeaseCleanup
    DEF Next, Step

-----------------------------------------------------------------------------
(* Results.                                                                *)

(* What changes no job, result or record.                                  *)
LEMMA SettleIdle == ASSUME SettleInv, UNCHANGED runs PROVE SettleInv'
  BY DEF SettleInv, OneFinal, ResultKnown, runs

(* A job that moves without a final record.                                *)
LEMMA SettleMove ==
  ASSUME IndInv, UNCHANGED <<final, completed>>, NEW j \in Job,
         NEW s \in JobState, Moved(j, s), s \notin {"written", "skipped"},
         job[j] \notin {"written", "skipped"},
         s \in {"release", "cleanup", "over", "reported"} \/ final[j] = 0,
         NEW r, result' = [result EXCEPT ![j] = r],
         s \in {"release", "cleanup", "over", "reported"} => r \in {"ok", "error", "fatal"},
         r = "ok" => final[j] = 1,
         \A l \in Lane : lane'[l] # lane[l] => lane'[l] = "raised",
         s = "reported" /\ r = "fatal" => lane'[LaneOf(j)] = "raised"
  PROVE  SettleInv'
  <1> USE DEF IndInv, TypeOK, SettleInv
  <1>1. job'[j] = s /\ result'[j] = r
    BY DEF Moved
  <1>2. \A i \in Job \ {j} : job'[i] = job[i] /\ result'[i] = result[i]
    BY DEF Moved
  <1>3. OneFinal'
    BY <1>1, <1>2 DEF OneFinal
  <1>4. ResultKnown'
    BY <1>1, <1>2, JobFacts DEF ResultKnown
  <1> QED
    BY <1>3, <1>4

(* Jobs are submitted, prepared, released and reported.                    *)
LEMMA SettleJobs ==
  ASSUME IndInv, NEW j \in Job,
         \/ Pull(j) \/ TrySubmit(j) \/ Report(j) \/ Ready(j) \/ Execute(j)
         \/ Release(j) \/ Cleanup(j)
  PROVE  SettleInv'
  <1> DEFINE Over4 == {"release", "cleanup", "over", "reported"}
  <1>1. /\ job[j] \in {"todo", "backlog", "leased", "ready"} => final[j] = 0
        /\ job[j] \in Over4 => result[j] \in {"ok", "error", "fatal"}
        /\ result[j] = "ok" => final[j] = 1
    BY DEF IndInv, SettleInv, OneFinal, ResultKnown
  <1>2. result = [result EXCEPT ![j] = result[j]]
    BY DEF IndInv, TypeOK
  <1>3. {"backlog", "deferred", "leased", "reported", "ready", "release", "begin", "cleanup",
         "over"} \subseteq JobState
    BY DEF JobState
  <1>4. CASE Pull(j) \/ TrySubmit(j)
    <2>1. PICK s \in {"backlog", "deferred", "leased"} : Moved(j, s)
      BY <1>4 DEF Pull, TrySubmit
    <2>2. job[j] \in {"todo", "backlog"} /\ UNCHANGED <<lane, result, final, completed>>
      BY <1>4 DEF Pull, TrySubmit, control, disk
    <2> QED
      BY <1>1, <1>2, <1>3, <2>1, <2>2, SettleMove
  <1>5. CASE Report(j)
    <2>1. Moved(j, "reported") /\ job[j] = "over" /\ UNCHANGED <<result, final, completed>>
      BY <1>5 DEF Report
    <2>2. /\ \A l \in Lane : lane'[l] # lane[l] => lane'[l] = "raised"
          /\ result[j] = "fatal" => lane'[LaneOf(j)] = "raised"
      BY <1>5, JobFacts DEF Report, IndInv, TypeOK
    <2> QED
      BY <1>1, <1>2, <1>3, <2>1, <2>2, SettleMove
  <1>6. CASE Ready(j) \/ Execute(j)
    <2>1. PICK s \in {"ready", "release", "begin"} : Moved(j, s)
      BY <1>6 DEF Ready, Execute
    <2>2. /\ job[j] \in {"leased", "ready"} /\ UNCHANGED <<lane, final, completed>>
      BY <1>6 DEF Ready, Execute, control, disk
    <2>3. PICK r \in {"error", result[j]} : /\ result' = [result EXCEPT ![j] = r]
                                            /\ s = "release" => r = "error"
      BY <1>2, <1>6, <2>1 DEF Ready, Execute, Moved, IndInv, TypeOK
    <2> QED
      BY <1>1, <1>3, <2>1, <2>2, <2>3, SettleMove
  <1>7. CASE Release(j) \/ Cleanup(j)
    <2>1. PICK s \in {"cleanup", "over"} : Moved(j, s)
      BY <1>7 DEF Release, Cleanup
    <2>2. /\ job[j] \in {"release", "cleanup"} /\ UNCHANGED <<lane, final, completed>>
      BY <1>7 DEF Release, Cleanup, control, disk
    <2>3. PICK r \in {"error", result[j]} : result' = [result EXCEPT ![j] = r]
      BY <1>2, <1>7 DEF Release, Cleanup
    <2> QED
      BY <1>1, <1>3, <2>1, <2>2, <2>3, SettleMove
  <1> QED
    BY <1>4, <1>5, <1>6, <1>7

(* The runner of a job writes one final record and then completes it.      *)
LEMMA SettleRunner ==
  ASSUME IndInv, NEW j \in Job, Begin(j) \/ AttemptEnds(j) \/ Commit(j) \/ Complete(j)
  PROVE  SettleInv'
  <1>1. /\ job[j] \in {"begin", "work", "commit"} => final[j] = 0 /\ j \notin completed
        /\ job[j] = "written" => final[j] = 1
        /\ result[j] = "ok" => final[j] = 1
    BY DEF IndInv, SettleInv, OneFinal, ResultKnown
  <1>2. result = [result EXCEPT ![j] = result[j]]
    BY DEF IndInv, TypeOK
  <1>3. {"begin", "work", "commit", "release"} \subseteq JobState
    BY DEF JobState
  <1>4. CASE (Begin(j) \/ AttemptEnds(j) \/ Commit(j)) /\ UNCHANGED final
    <2>1. job[j] \in {"begin", "work", "commit"} /\ UNCHANGED <<lane, completed>>
      BY <1>4 DEF Begin, AttemptEnds, Commit, control, disk
    <2>2. \E s \in {"begin", "work", "commit", "release"} : \E r \in {"error", "fatal", result[j]} :
            /\ Moved(j, s) /\ result' = [result EXCEPT ![j] = r]
            /\ s = "release" => r \in {"error", "fatal"}
      <3>1. CASE Begin(j)
        BY <1>1, <1>2, <3>1 DEF Begin, AttemptFails, Ends
      <3>2. CASE AttemptEnds(j)
        BY <1>2, <3>2 DEF AttemptEnds, AttemptFails, Ends
      <3>3. CASE Commit(j)
        <4>1. AttemptFails(j)
          BY <1>1, <1>4, <3>3 DEF Commit, IndInv, TypeOK
        <4> QED
          BY <1>2, <4>1 DEF AttemptFails, Ends
      <3> QED
        BY <1>4, <3>1, <3>2, <3>3
    <2>3. PICK s \in {"begin", "work", "commit", "release"}, r \in {"error", "fatal", result[j]} :
            /\ Moved(j, s) /\ result' = [result EXCEPT ![j] = r]
            /\ s = "release" => r \in {"error", "fatal"}
      BY <2>2
    <2> QED
      BY <1>1, <1>3, <1>4, <2>1, <2>3, SettleMove
  <1>5. CASE Commit(j) /\ final' # final
    <2>1. /\ final' = [final EXCEPT ![j] = final[j] + 1] /\ job' = [job EXCEPT ![j] = "written"]
          /\ job[j] = "commit" /\ UNCHANGED <<result, completed, lane>>
      BY <1>5 DEF Commit, Moved, control
    <2>2. OneFinal'
      BY <1>1, <2>1 DEF IndInv, TypeOK, SettleInv, OneFinal
    <2>3. ResultKnown'
      BY <1>1, <2>1 DEF IndInv, TypeOK, SettleInv, ResultKnown
    <2> QED
      BY <2>2, <2>3 DEF SettleInv
  <1>6. CASE Complete(j)
    <2>1. /\ completed' = completed \cup {j} /\ job' = [job EXCEPT ![j] = "release"]
          /\ job[j] = "written" /\ result' = [result EXCEPT ![j] = "ok"]
          /\ UNCHANGED <<final, lane>>
      BY <1>6 DEF Complete, Ends, Moved, control, disk
    <2>2. OneFinal'
      BY <1>1, <2>1 DEF IndInv, TypeOK, SettleInv, OneFinal
    <2>3. ResultKnown'
      BY <1>1, <2>1 DEF IndInv, TypeOK, SettleInv, ResultKnown
    <2> QED
      BY <2>2, <2>3 DEF SettleInv
  <1> QED
    BY <1>4, <1>5, <1>6 DEF Begin, AttemptEnds, disk

(* A pass that begins, or a run that starts again, takes what is durable   *)
(* for done.                                                               *)
LEMMA SettleLanes ==
  ASSUME IndInv, Crash \/ \E l \in Lane : PassEnds(l) \/ PassBegins(l) \/ LaneRaises(l)
  PROVE  SettleInv'
  <1> USE DEF IndInv, TypeOK, SettleInv
  <1>1. ASSUME NEW l \in Lane, PassEnds(l) \/ LaneRaises(l)
        PROVE  SettleInv'
    <2>1. UNCHANGED <<job, result, final, completed>>
      BY <1>1 DEF PassEnds, LaneRaises, disk
    <2>2. \A j \in Job : lane[LaneOf(j)] = "raised" => lane'[LaneOf(j)] = "raised"
      BY <1>1, JobFacts DEF PassEnds, LaneRaises, InPass
    <2> QED
      BY <2>1, <2>2 DEF OneFinal, ResultKnown
  <1>2. ASSUME NEW l \in Lane, PassBegins(l)
        PROVE  SettleInv'
    <2>1. /\ \A j \in Job : /\ LaneOf(j) = l => /\ job'[j] = Fresh(Durable)[j] /\ result'[j] = "none"
                                                /\ job[j] # "written"
                                                /\ j \in completed' <=> final[j] > 0
                            /\ LaneOf(j) # l => /\ job'[j] = job[j] /\ result'[j] = result[j]
                                                /\ j \in completed' <=> j \in completed
          /\ UNCHANGED final
      <3>1. \A j \in Job : LaneOf(j) = l => job[j] # "written"
        BY <1>2 DEF PassBegins, LeaseInv, RestIsQuiet
      <3> QED
        BY <1>2, <3>1 DEF PassBegins, Of, Durable, disk
    <2>2. \A j \in Job : lane[LaneOf(j)] = "raised" => lane'[LaneOf(j)] = "raised"
      BY <1>2, JobFacts DEF PassBegins
    <2>3. OneFinal'
      BY <2>1 DEF OneFinal, Fresh, Durable
    <2>4. ResultKnown'
      BY <2>1, <2>2 DEF ResultKnown, Fresh
    <2> QED
      BY <2>3, <2>4
  <1>3. CASE Crash
    <2>1. /\ \A j \in Job : job'[j] = Fresh(Durable)[j] /\ result'[j] = "none"
          /\ completed' = Durable /\ UNCHANGED final
      BY <1>3 DEF Crash, NoResult, Fresh, disk
    <2>2. OneFinal'
      BY <2>1 DEF OneFinal, Fresh, Durable
    <2>3. ResultKnown'
      BY <2>1 DEF ResultKnown, Fresh
    <2> QED
      BY <2>2, <2>3
  <1> QED
    BY <1>1, <1>2, <1>3

(* Every step keeps the results right.                                     *)
LEMMA SettleStep == ASSUME IndInv, [Next]_vars PROVE SettleInv'
  <1>1. CASE \/ Publish \/ Seal \/ Exited \/ UNCHANGED vars \/ \E j \in Job : PutMany(j)
    BY <1>1, OtherStep, SettleIdle DEF IndInv
  <1>2. ASSUME NEW j \in Job, NEW f \in Frame,
               \/ Ask(j, f) \/ Answered(j, f) \/ RequestFails(j, f) \/ Put(j, f)
               \/ Store(j, f) \/ Expose(j, f)
        PROVE  SettleInv'
    BY <1>2, FrameStep, SettleIdle DEF IndInv
  <1>3. CASE Close \/ \E u \in Uid, e \in Entry : InitializeBegins(u, e) \/ InitializeEnds(u, e)
    <2>1. UNCHANGED runs
      BY <1>3 DEF Close, InitializeBegins, InitializeEnds, runs, control, disk
    <2> QED
      BY <2>1, SettleIdle DEF IndInv
  <1> QED
    BY <1>1, <1>2, <1>3, SettleJobs, SettleRunner, SettleLanes DEF Next, Step

-----------------------------------------------------------------------------
(* Units.                                                                  *)

(* A job that is not at work, before and after, has no unit under way.     *)
LEMMA UnitRest ==
  ASSUME IndInv, UNCHANGED <<frame, known>>,
         \A j \in Job :
           \/ job'[j] = job[j] /\ unit'[j] = unit[j] /\ attempt'[j] = attempt[j]
           \/ /\ job[j] # "work" /\ job'[j] # "work"
              /\ job'[j] \in {"begin", "commit"} => attempt'[j] # 0
  PROVE  UnitInv'
  <1> USE DEF IndInv, UnitInv
  <1>1. AttemptCounted' /\ AttemptIsAlone'
    BY DEF AttemptCounted, AttemptIsAlone
  <1>2. SavedApart'
    BY DEF SavedApart, AttemptIsAlone, Saving, Value
  <1>3. UnitsKnown'
    BY DEF UnitsKnown
  <1>4. PackedUnknown'
    BY DEF PackedUnknown
  <1> QED
    BY <1>1, <1>2, <1>3, <1>4

(* Outside an attempt no unit is under way.                                *)
LEMMA UnitJobs ==
  ASSUME IndInv, NEW j \in Job,
         \/ Pull(j) \/ TrySubmit(j) \/ Report(j) \/ Ready(j) \/ Execute(j)
         \/ Release(j) \/ Cleanup(j) \/ Commit(j) \/ Complete(j)
  PROVE  UnitInv'
  <1> USE DEF IndInv, TypeOK
  <1>1. UNCHANGED <<frame, known>>
    BY DEF Pull, TrySubmit, Report, Ready, Execute, Release, Cleanup, Commit, Complete, work
  <1>2. \A i \in Job \ {j} : job'[i] = job[i] /\ attempt'[i] = attempt[i]
    BY DEF Pull, TrySubmit, Report, Ready, Execute, Release, Cleanup, Commit, Complete, work,
           Moved, AttemptFails, Ends
  <1>3. \A i \in Job \ {j} : unit'[i] = unit[i]
    BY DEF Pull, TrySubmit, Report, Ready, Execute, Release, Cleanup, Commit, Complete, disk
  <1>4. job[j] # "work"
    BY DEF Pull, TrySubmit, Report, Ready, Execute, Release, Cleanup, Commit, Complete
  <1>5. job'[j] # "work" /\ (job'[j] \in {"begin", "commit"} => attempt'[j] # 0)
    <2>1. CASE Commit(j) \/ Execute(j)
      BY <2>1, Limits DEF Commit, Execute, AttemptFails, Ends, Moved
    <2>2. CASE \/ Pull(j) \/ TrySubmit(j) \/ Report(j) \/ Ready(j)
               \/ Release(j) \/ Cleanup(j) \/ Complete(j)
      BY <2>2 DEF Pull, TrySubmit, Report, Ready, Release, Cleanup, Complete, Ends, Moved
    <2> QED
      BY <2>1, <2>2
  <1> QED
    BY <1>1, <1>2, <1>3, <1>4, <1>5, UnitRest

(* An attempt begins with what is on disk, and ends with its requests.     *)
LEMMA UnitAttempt ==
  ASSUME IndInv, NEW j \in Job, Begin(j) \/ AttemptEnds(j)
  PROVE  UnitInv'
  <1> USE DEF IndInv, TypeOK
  <1>1. CASE Begin(j) /\ job'[j] = "work"
    <2>1. /\ known' = [known EXCEPT ![j] = unit[j]] /\ UNCHANGED <<unit, attempt>>
          /\ frame' = [frame EXCEPT ![j] = [f \in Frame |-> "idle"]]
          /\ job' = [job EXCEPT ![j] = "work"] /\ job[j] = "begin"
      BY <1>1 DEF Begin, Moved, AttemptFails, Ends, disk
    <2> USE DEF UnitInv
    <2>2. AttemptCounted' /\ AttemptIsAlone'
      BY <2>1 DEF AttemptCounted, AttemptIsAlone
    <2>3. SavedApart'
      BY <2>1 DEF SavedApart, Saving, Value
    <2>4. UnitsKnown'
      BY <2>1 DEF UnitsKnown
    <2>5. PackedUnknown'
      BY <2>1 DEF PackedUnknown
    <2> QED
      BY <2>2, <2>3, <2>4, <2>5
  <1>2. CASE Begin(j) /\ job'[j] # "work"
    <2>1. UNCHANGED <<frame, known, unit>> /\ job[j] = "begin"
      BY <1>2 DEF Begin, Moved, disk
    <2>2. \A i \in Job \ {j} : job'[i] = job[i] /\ attempt'[i] = attempt[i]
      BY <1>2 DEF Begin, Moved, AttemptFails, Ends
    <2>3. attempt[j] # 0
      BY <2>1 DEF UnitInv, AttemptCounted
    <2>4. attempt'[j] # 0
      BY <1>2, <2>3, Limits DEF Begin, AttemptFails
    <2> QED
      BY <1>2, <2>1, <2>2, <2>4, UnitRest
  <1>3. CASE AttemptEnds(j)
    <2>1. UNCHANGED <<frame, known, unit>> /\ job[j] = "work" /\ Drained(j)
      BY <1>3 DEF AttemptEnds, disk
    <2>2. \A i \in Job \ {j} : job'[i] = job[i] /\ attempt'[i] = attempt[i]
      BY <1>3 DEF AttemptEnds, Moved, AttemptFails, Ends
    <2>3. job'[j] # "work" /\ (job'[j] \in {"begin", "commit"} => attempt'[j] # 0)
      <3>1. attempt[j] # 0
        BY <2>1 DEF UnitInv, AttemptCounted
      <3> QED
        BY <1>3, <3>1, Limits DEF AttemptEnds, AttemptFails, Moved, Ends
    <2>4. \A f \in Frame : frame[j][f] \in {"idle", "saved", "failed"}
      BY <2>1 DEF Drained, InFlight, Answers, FrameState
    <2> USE DEF UnitInv
    <2>5. AttemptCounted' /\ AttemptIsAlone'
      BY <2>1, <2>2, <2>3, <2>4 DEF AttemptCounted, AttemptIsAlone
    <2>6. SavedApart'
      <3>1. \A i \in Job, f \in Frame : Saving(i, f) => i # j
        BY <2>4 DEF Saving
      <3>2. \A i \in Job, f \in Frame : i # j => Value(i, f)' = Value(i, f)
        BY <2>2 DEF Value
      <3>3. ASSUME NEW i \in Job, NEW f \in Frame, Saving(i, f)
            PROVE  /\ known[i][UnitOf(i, f)] = None /\ LaneOf(i) \notin Packed
                   /\ frame[i][f] = "stored" => unit[i][UnitOf(i, f)] = Value(i, f)'
                   /\ \A g \in Frame : Saving(i, g) /\ UnitOf(i, g) = UnitOf(i, f) => g = f
        <4>1. Value(i, f)' = Value(i, f)
          BY <3>1, <3>2, <3>3
        <4> QED
          BY <3>3, <4>1 DEF SavedApart
      <3> QED
        BY <2>1, <3>3 DEF SavedApart, Saving
    <2>7. UnitsKnown'
      <3>1. \A i \in Job : job'[i] = "work" => job[i] = "work"
        BY <2>2, <2>3
      <3> QED
        BY <2>1, <3>1 DEF UnitsKnown
    <2>8. PackedUnknown'
      BY <2>1 DEF PackedUnknown
    <2> QED
      BY <2>5, <2>6, <2>7, <2>8
  <1> QED
    BY <1>1, <1>2, <1>3

(* A request changes no unit.                                              *)
LEMMA UnitRequests ==
  ASSUME IndInv, NEW j \in Job, NEW f \in Frame,
         Ask(j, f) \/ Answered(j, f) \/ RequestFails(j, f)
  PROVE  UnitInv'
  <1> USE DEF IndInv, TypeOK, UnitInv
  <1>1. UNCHANGED <<job, known, unit, attempt>>
    BY DEF Ask, Answered, RequestFails, disk
  <1>2. PICK s \in {"saved", "asked", "answered", "failed"} : frame' = [frame EXCEPT ![j][f] = s]
    BY DEF Ask, Answered, RequestFails, At
  <1>3. job[j] = "work" /\ frame[j][f] \in {"idle", "asked"}
    BY DEF Ask, Answered, RequestFails, AttemptIsAlone
  <1>4. s \in {"asked", "answered"} /\ LaneOf(j) \in Packed => known[j][UnitOf(j, f)] = None
    BY <1>2, <1>3 DEF Ask, Answered, RequestFails, At, PackedUnknown
  <1>5. \A i \in Job, g \in Frame : frame'[i][g] = IF i = j /\ g = f THEN s ELSE frame[i][g]
    BY <1>2
  <1>6. AttemptCounted' /\ AttemptIsAlone'
    <2>1. AttemptCounted'
      BY <1>1 DEF AttemptCounted
    <2>2. AttemptIsAlone'
      BY <1>1, <1>3, <1>5 DEF AttemptIsAlone
    <2> QED
      BY <2>1, <2>2
  <1>7. \A i \in Job, g \in Frame : /\ frame'[i][g] = "stored" <=> frame[i][g] = "stored"
                                    /\ frame'[i][g] = "locked" <=> frame[i][g] = "locked"
    BY <1>3, <1>5
  <1>8. SavedApart' /\ UnitsKnown'
    BY <1>1, <1>7 DEF SavedApart, UnitsKnown, Saving, Value
  <1>9. PackedUnknown'
    BY <1>1, <1>4, <1>5 DEF PackedUnknown
  <1> QED
    BY <1>6, <1>8, <1>9

(* put_checkpoint_unit locks the key, writes the unit and exposes it.      *)
LEMMA UnitSaves ==
  ASSUME IndInv, NEW j \in Job, NEW f \in Frame, Put(j, f) \/ Store(j, f) \/ Expose(j, f)
  PROVE  UnitInv'
  <1> DEFINE k == UnitOf(j, f)
  <1> USE DEF IndInv, TypeOK, UnitInv
  <1>1. UNCHANGED <<job, attempt>> /\ k \in Key
    BY UnitIsKey DEF Put, Store, Expose
  <1>2. PICK s \in {"locked", "saved", "failed", "stored"} : frame' = [frame EXCEPT ![j][f] = s]
    BY DEF Put, Store, Expose, At
  <1>3. \A i \in Job, g \in Frame : frame'[i][g] = IF i = j /\ g = f THEN s ELSE frame[i][g]
    BY <1>2
  <1>4. job[j] = "work"
    BY DEF Put, Store, Expose, AttemptIsAlone
  <1>5. AttemptCounted' /\ AttemptIsAlone'
    BY <1>1, <1>3, <1>4 DEF AttemptCounted, AttemptIsAlone
  <1>6. CASE Put(j, f)
    <2>1. /\ UNCHANGED <<known, unit>> /\ LaneOf(j) \notin Packed /\ frame[j][f] = "answered"
          /\ s \in {"locked", "saved", "failed"} /\ (s = "locked" => known[j][k] = None)
          /\ \A g \in Frame : Saving(j, g) => UnitOf(j, g) # k
      BY <1>2, <1>6 DEF Put, At, KeyFree, disk
    <2>2. SavedApart'
      <3>1. ASSUME NEW i \in Job, NEW g \in Frame, Saving(i, g)', ~(i = j /\ g = f)
            PROVE  /\ Saving(i, g) /\ frame'[i][g] = frame[i][g]
                   /\ \A h \in Frame : Saving(i, h)' /\ UnitOf(i, h) = UnitOf(i, g) => h = g
        BY <1>3, <2>1, <3>1 DEF SavedApart, Saving
      <3>2. Saving(j, f)' => /\ s = "locked"
                             /\ \A h \in Frame : Saving(j, h)' /\ UnitOf(j, h) = k => h = f
        BY <1>3, <2>1 DEF Saving
      <3>3. \A i \in Job, g \in Frame : Value(i, g)' = Value(i, g)
        BY <1>1 DEF Value
      <3> QED
        BY <1>3, <2>1, <3>1, <3>2, <3>3 DEF SavedApart
    <2>3. UnitsKnown'
      <3>1. \A i \in Job, g \in Frame : frame[i][g] = "stored" => frame'[i][g] = "stored"
        BY <1>3, <2>1
      <3> QED
        BY <1>1, <2>1, <3>1 DEF UnitsKnown
    <2>4. PackedUnknown'
      BY <1>1, <1>3, <2>1 DEF PackedUnknown
    <2> QED
      BY <1>5, <2>2, <2>3, <2>4
  <1>7. CASE Store(j, f)
    <2>1. /\ UNCHANGED known /\ frame[j][f] = "locked"
          /\ \/ unit' = [unit EXCEPT ![j][k] = Value(j, f)] /\ s = "stored"
             \/ UNCHANGED unit /\ s = "failed"
      BY <1>2, <1>7 DEF Store, At
    <2>2. \A i \in Job, x \in Key : ~(i = j /\ x = k) => unit'[i][x] = unit[i][x]
      BY <2>1
    <2>3. s = "stored" => unit'[j][k] = Value(j, f)
      BY <1>1, <2>1
    <2>4. /\ known[j][k] = None /\ LaneOf(j) \notin Packed
          /\ \A g \in Frame : Saving(j, g) /\ UnitOf(j, g) = k => g = f
      BY <2>1 DEF SavedApart, Saving
    <2>5. SavedApart'
      <3>1. ASSUME NEW i \in Job, NEW g \in Frame, Saving(i, g)', ~(i = j /\ g = f)
            PROVE  /\ Saving(i, g) /\ frame'[i][g] = frame[i][g] /\ ~(i = j /\ UnitOf(i, g) = k)
        BY <1>3, <2>4, <3>1 DEF Saving
      <3>2. ASSUME NEW i \in Job, NEW g \in Frame, Saving(i, g)', ~(i = j /\ g = f)
            PROVE  /\ known'[i][UnitOf(i, g)] = None /\ LaneOf(i) \notin Packed
                   /\ frame'[i][g] = "stored" => unit'[i][UnitOf(i, g)] = Value(i, g)'
                   /\ \A h \in Frame : Saving(i, h)' /\ UnitOf(i, h) = UnitOf(i, g) => h = g
        BY <1>1, <2>1, <2>2, <3>1, <3>2, UnitIsKey DEF SavedApart, Value
      <3>3. Saving(j, f)' => /\ known'[j][k] = None /\ LaneOf(j) \notin Packed
                             /\ frame'[j][f] = "stored" => unit'[j][k] = Value(j, f)'
                             /\ \A h \in Frame : Saving(j, h)' /\ UnitOf(j, h) = k => h = f
        BY <1>1, <1>3, <2>1, <2>3, <2>4 DEF Saving, Value
      <3> QED
        BY <3>2, <3>3 DEF SavedApart, Saving
    <2>6. UnitsKnown'
      <3>1. ASSUME NEW i \in Job, NEW x \in Key, job[i] = "work", unit'[i][x] # known[i][x]
            PROVE  \E g \in Frame : frame'[i][g] = "stored" /\ UnitOf(i, g) = x
        <4>1. CASE i = j /\ x = k /\ s = "stored"
          BY <1>3, <4>1
        <4>2. CASE unit'[i][x] = unit[i][x]
          <5>1. PICK g \in Frame : frame[i][g] = "stored" /\ UnitOf(i, g) = x
            BY <3>1, <4>2 DEF UnitsKnown
          <5> QED
            BY <1>3, <2>1, <5>1
        <4> QED
          BY <2>1, <2>2, <4>1, <4>2
      <3> QED
        BY <1>1, <2>1, <3>1 DEF UnitsKnown
    <2>7. PackedUnknown'
      <3>1. ASSUME NEW i \in Job, NEW g \in Frame, LaneOf(i) \in Packed
            PROVE  frame'[i][g] = frame[i][g]
        BY <1>3, <2>4, <3>1
      <3> QED
        BY <2>1, <3>1 DEF PackedUnknown
    <2> QED
      BY <1>5, <2>5, <2>6, <2>7
  <1>8. CASE Expose(j, f)
    <2>1. /\ UNCHANGED unit /\ frame[j][f] = "stored" /\ s = "saved"
          /\ known' = [known EXCEPT ![j][k] = Value(j, f)]
      BY <1>2, <1>8 DEF Expose, At, disk
    <2>2. /\ unit[j][k] = Value(j, f) /\ LaneOf(j) \notin Packed
          /\ \A g \in Frame : Saving(j, g) /\ UnitOf(j, g) = k => g = f
      BY <2>1 DEF SavedApart, Saving
    <2>3. \A i \in Job, x \in Key : known'[i][x] = IF i = j /\ x = k THEN Value(j, f) ELSE known[i][x]
      BY <2>1
    <2>4. SavedApart'
      <3>1. ASSUME NEW i \in Job, NEW g \in Frame, Saving(i, g)'
            PROVE  /\ Saving(i, g) /\ frame'[i][g] = frame[i][g] /\ ~(i = j /\ UnitOf(i, g) = k)
        <4>1. ~(i = j /\ g = f) /\ frame'[i][g] = frame[i][g]
          BY <1>3, <2>1, <3>1 DEF Saving
        <4>2. Saving(i, g)
          BY <3>1, <4>1 DEF Saving
        <4> QED
          BY <2>2, <4>1, <4>2
      <3> QED
        BY <1>1, <2>1, <2>3, <3>1, UnitIsKey DEF SavedApart, Value
    <2>5. UnitsKnown'
      <3>1. ASSUME NEW i \in Job, NEW x \in Key, job[i] = "work", unit[i][x] # known'[i][x]
            PROVE  \E g \in Frame : frame'[i][g] = "stored" /\ UnitOf(i, g) = x
        <4>1. ~(i = j /\ x = k) /\ unit[i][x] # known[i][x]
          BY <2>2, <2>3, <3>1
        <4>2. PICK g \in Frame : frame[i][g] = "stored" /\ UnitOf(i, g) = x
          BY <3>1, <4>1 DEF UnitsKnown
        <4> QED
          BY <1>3, <4>1, <4>2
      <3> QED
        BY <1>1, <2>1, <3>1 DEF UnitsKnown
    <2>6. PackedUnknown'
      BY <1>1, <1>3, <2>1, <2>2, <2>3, UnitIsKey DEF PackedUnknown
    <2> QED
      BY <1>5, <2>4, <2>5, <2>6
  <1> QED
    BY <1>6, <1>7, <1>8

(* put_many saves every answer at once.                                    *)
LEMMA UnitPutMany == ASSUME IndInv, NEW j \in Job, PutMany(j) PROVE UnitInv'
  <1> USE DEF IndInv, TypeOK, UnitInv
  <1>1. UNCHANGED <<job, attempt>> /\ job[j] = "work" /\ LaneOf(j) \in Packed /\ InFlight(j) = {}
    BY DEF PutMany
  <1>2. PICK s \in {"saved", "failed"} :
          frame' = [frame EXCEPT ![j] = [f \in Frame |-> IF f \in Answers(j) THEN s
                                                         ELSE frame[j][f]]]
    BY DEF PutMany
  <1>3. \A f \in Frame : frame'[j][f] \in {"idle", "saved", "failed"}
    BY <1>1, <1>2 DEF InFlight, Answers, FrameState
  <1>4. \A i \in Job \ {j} : frame'[i] = frame[i] /\ unit'[i] = unit[i] /\ known'[i] = known[i]
    BY DEF PutMany
  <1>5. unit'[j] = known'[j]
    <2>1. \A f \in Frame : frame[j][f] # "stored"
      BY <1>1 DEF InFlight
    <2>2. \A x \in Key : unit[j][x] = known[j][x]
      BY <1>1, <2>1 DEF UnitsKnown
    <2>3. unit[j] = known[j]
      BY <2>2
    <2> QED
      BY <2>3 DEF PutMany
  <1>6. AttemptCounted' /\ AttemptIsAlone'
    BY <1>1, <1>3, <1>4 DEF AttemptCounted, AttemptIsAlone
  <1>7. SavedApart'
    <2>1. \A f \in Frame : ~ Saving(j, f)'
      BY <1>3 DEF Saving
    <2>2. \A i \in Job \ {j}, f \in Frame : /\ Saving(i, f)' <=> Saving(i, f)
                                             /\ Value(i, f)' = Value(i, f)
      BY <1>1, <1>4 DEF Saving, Value
    <2> QED
      <3>1. ASSUME NEW i \in Job, NEW f \in Frame, Saving(i, f)'
            PROVE  /\ known'[i][UnitOf(i, f)] = None /\ LaneOf(i) \notin Packed
                   /\ frame'[i][f] = "stored" => unit'[i][UnitOf(i, f)] = Value(i, f)'
                   /\ \A g \in Frame : Saving(i, g)' /\ UnitOf(i, g) = UnitOf(i, f) => g = f
        <4>1. i # j /\ Saving(i, f) /\ Value(i, f)' = Value(i, f)
          BY <2>1, <2>2, <3>1
        <4>2. \A g \in Frame : Saving(i, g)' => Saving(i, g)
          BY <2>2, <4>1
        <4>3. frame'[i] = frame[i] /\ unit'[i] = unit[i] /\ known'[i] = known[i]
          BY <1>4, <4>1
        <4> QED
          BY <4>1, <4>2, <4>3 DEF SavedApart
      <3> QED
        BY <3>1 DEF SavedApart
  <1>8. UnitsKnown'
    <2>1. ASSUME NEW i \in Job, NEW x \in Key, job[i] = "work", unit'[i][x] # known'[i][x]
          PROVE  \E g \in Frame : frame'[i][g] = "stored" /\ UnitOf(i, g) = x
      <3>1. i # j /\ unit'[i] = unit[i] /\ known'[i] = known[i] /\ frame'[i] = frame[i]
        BY <1>4, <1>5, <2>1
      <3>2. PICK g \in Frame : frame[i][g] = "stored" /\ UnitOf(i, g) = x
        BY <2>1, <3>1 DEF UnitsKnown
      <3> QED
        BY <3>1, <3>2
    <2> QED
      BY <1>1, <2>1 DEF UnitsKnown
  <1>9. PackedUnknown'
    <2>1. ASSUME NEW i \in Job, NEW g \in Frame, LaneOf(i) \in Packed,
                 frame'[i][g] \in {"asked", "answered"}
          PROVE  known'[i][UnitOf(i, g)] = None
      <3>1. i # j
        BY <1>3, <2>1
      <3> QED
        BY <1>4, <2>1, <3>1 DEF PackedUnknown
    <2> QED
      BY <2>1 DEF PackedUnknown
  <1> QED
    BY <1>6, <1>7, <1>8, <1>9

(* Every step keeps the units right.                                       *)
LEMMA UnitStep == ASSUME IndInv, [Next]_vars PROVE UnitInv'
  <1> USE DEF IndInv, TypeOK
  <1>1. CASE Publish \/ Seal \/ Exited \/ UNCHANGED vars
    <2>1. UNCHANGED <<job, frame, known, unit, attempt>>
      BY <1>1 DEF Publish, Seal, Exited, vars, work, disk
    <2> QED
      BY <2>1, UnitRest
  <1>2. CASE Close \/ \E u \in Uid, e \in Entry : InitializeBegins(u, e) \/ InitializeEnds(u, e)
    <2>1. UNCHANGED <<job, frame, known, unit, attempt>>
      BY <1>2 DEF Close, InitializeBegins, InitializeEnds, work, disk
    <2> QED
      BY <2>1, UnitRest
  <1>3. ASSUME NEW l \in Lane, PassEnds(l) \/ PassBegins(l) \/ LaneRaises(l)
        PROVE  UnitInv'
    <2>1. UNCHANGED <<frame, known, unit, attempt>>
      BY <1>3 DEF PassEnds, PassBegins, LaneRaises, work, disk
    <2>2. \A i \in Job : job'[i] = job[i] \/ (job[i] # "work" /\ job'[i] \in {"todo", "skipped"})
      BY <1>3 DEF PassEnds, PassBegins, LaneRaises, Fresh, LeaseInv, RestIsQuiet
    <2> QED
      BY <2>1, <2>2, UnitRest
  <1>4. CASE Crash
    <2>1. /\ \A i \in Job : job'[i] \in {"todo", "skipped"}
          /\ \A i \in Job, f \in Frame : frame'[i][f] = "idle"
      BY <1>4 DEF Crash, Fresh, NoFrame
    <2> QED
      BY <2>1
      DEF UnitInv, AttemptCounted, AttemptIsAlone, SavedApart, Saving, UnitsKnown, PackedUnknown
  <1> QED
    BY <1>1, <1>2, <1>3, <1>4, UnitJobs, UnitAttempt, UnitRequests, UnitSaves, UnitPutMany
    DEF Next, Step

(* No unit is replaced or removed before the record of its job is durable. *)
Kept == \A j \in Job, k \in Key : unit[j][k] # None => unit'[j][k] = unit[j][k] \/ final[j] > 0

LEMMA KeptStep == ASSUME IndInv, [Next]_vars PROVE Kept
  <1> USE DEF IndInv, TypeOK, Kept
  <1>1. ASSUME NEW j \in Job, Report(j) PROVE Kept
    BY <1>1 DEF Report, Clears, SettleInv, ResultKnown
  <1>2. ASSUME NEW j \in Job, NEW f \in Frame, Store(j, f) PROVE Kept
    <2> DEFINE k == UnitOf(j, f)
    <2>1. Saving(j, f) /\ frame[j][f] = "locked" /\ job[j] = "work" /\ k \in Key
      BY <1>2, UnitIsKey DEF Store, Saving, UnitInv, AttemptIsAlone
    <2>2. \A g \in Frame : frame[j][g] = "stored" => UnitOf(j, g) # k
      BY <2>1 DEF UnitInv, SavedApart, Saving
    <2>3. unit[j][k] = None
      <3>1. known[j][k] = None
        BY <2>1 DEF UnitInv, SavedApart
      <3>2. unit[j][k] = known[j][k]
        BY <2>1, <2>2 DEF UnitInv, UnitsKnown
      <3> QED
        BY <3>1, <3>2
    <2>4. \A i \in Job, x \in Key : ~(i = j /\ x = k) => unit'[i][x] = unit[i][x]
      BY <1>2 DEF Store
    <2> QED
      BY <2>3, <2>4
  <1>3. ASSUME NEW j \in Job, PutMany(j) PROVE Kept
    <2>1. \A f \in Frame : frame[j][f] # "stored"
      BY <1>3 DEF PutMany, InFlight
    <2>2. \A k \in Key : unit[j][k] = known[j][k]
      BY <1>3, <2>1 DEF PutMany, UnitInv, UnitsKnown
    <2>3. \A f \in Answers(j) : unit[j][UnitOf(j, f)] = None
      BY <1>3, <2>2, UnitIsKey DEF PutMany, Answers, UnitInv, PackedUnknown
    <2>4. \A k \in Key : unit[j][k] # None => unit'[j][k] = unit[j][k]
      <3>1. ASSUME NEW k \in Key, ~ \E f \in Answers(j) : UnitOf(j, f) = k
            PROVE  unit'[j][k] = unit[j][k]
        <4> DEFINE saved ==
                     [x \in Key |-> IF \E f \in Answers(j) : UnitOf(j, f) = x
                                    THEN Value(j, CHOOSE f \in Answers(j) : UnitOf(j, f) = x)
                                    ELSE unit[j][x]]
        <4>1. unit' = [unit EXCEPT ![j] = saved] \/ UNCHANGED unit
          BY <1>3 DEF PutMany
        <4>2. saved[k] = unit[j][k]
          BY <3>1
        <4> HIDE DEF saved
        <4> QED
          BY <4>1, <4>2
      <3>2. ASSUME NEW k \in Key, unit[j][k] # None
            PROVE  ~ \E f \in Answers(j) : UnitOf(j, f) = k
        BY <2>3, <3>2
      <3> QED
        BY <3>1, <3>2
    <2>5. \A i \in Job \ {j} : unit'[i] = unit[i]
      BY <1>3 DEF PutMany
    <2> QED
      BY <2>4, <2>5
  <1>4. ASSUME UNCHANGED unit PROVE Kept
    BY <1>4
  <1>5. ASSUME NEW j \in Job,
               \/ Pull(j) \/ TrySubmit(j) \/ Ready(j) \/ Execute(j) \/ Release(j) \/ Cleanup(j)
               \/ Begin(j) \/ AttemptEnds(j) \/ Commit(j) \/ Complete(j)
        PROVE  UNCHANGED unit
    BY <1>5 DEF Pull, TrySubmit, Ready, Execute, Release, Cleanup, Begin, AttemptEnds, Commit,
                Complete, disk
  <1>6. ASSUME NEW j \in Job, NEW f \in Frame,
               Ask(j, f) \/ Answered(j, f) \/ RequestFails(j, f) \/ Put(j, f) \/ Expose(j, f)
        PROVE  UNCHANGED unit
    BY <1>6 DEF Ask, Answered, RequestFails, Put, Expose, disk
  <1>7. ASSUME \/ Publish \/ Seal \/ Crash \/ Exited \/ UNCHANGED vars \/ Close
               \/ \E u \in Uid, e \in Entry : InitializeBegins(u, e) \/ InitializeEnds(u, e)
               \/ \E l \in Lane : PassEnds(l) \/ PassBegins(l) \/ LaneRaises(l)
        PROVE  UNCHANGED unit
    BY <1>7 DEF Publish, Seal, Crash, Exited, vars, Close, InitializeBegins, InitializeEnds,
                PassEnds, PassBegins, LaneRaises, disk
  <1> QED
    BY <1>1, <1>2, <1>3, <1>4, <1>5, <1>6, <1>7 DEF Next, Step

-----------------------------------------------------------------------------
(* The theorems.                                                           *)

(* The inductive invariant of a run of episodes holds in every reachable   *)
(* state of process_batch and its pipeline, also after a crash.            *)
THEOREM EpisodeInvariant == Spec => []IndInv
  <1>1. Init => IndInv
    <2> SUFFICES ASSUME Init PROVE IndInv
      OBVIOUS
    <2>1. TypeOK
      BY TypeInit
    <2>2. LeaseInv
      <3>1. job \in [Job -> {"todo", "skipped"}]
        BY DEF Init, Fresh
      <3> QED
        BY <3>1, LeaseBlank DEF Init, Restarted
    <2>3. SettleInv
      BY DEF Init, Fresh, NoResult, Zero, SettleInv, OneFinal, ResultKnown
    <2>4. UnitInv
      BY DEF Init, Fresh, NoFrame, Blank, UnitInv, AttemptCounted, AttemptIsAlone, SavedApart,
             Saving, UnitsKnown, PackedUnknown
    <2> QED
      BY <2>1, <2>2, <2>3, <2>4 DEF IndInv
  <1>2. IndInv /\ [Next]_vars => IndInv'
    BY TypeStep, LeaseStep, SettleStep, UnitStep DEF IndInv
  <1> QED
    BY <1>1, <1>2, PTL DEF Spec

(* Every variable of a run keeps its type: no lease is given back that was *)
(* not taken, and a submitted job always finds a resource entry.           *)
THEOREM EpisodeTypes == Spec => []TypeOK
  BY EpisodeInvariant, PTL DEF IndInv

(* Shared media of stage_pipeline.py stay open while a job that may use    *)
(* them runs, between its attempts too, and nothing stays open that no job *)
(* leases.                                                                 *)
THEOREM MediaStayLeased == Spec => []MediaLeased
  <1>1. IndInv => MediaLeased
    <2> SUFFICES ASSUME IndInv PROVE MediaLeased
      OBVIOUS
    <2> USE DEF IndInv, LeaseInv
    <2>1. ASSUME NEW u \in Uid, NEW e \in Entry,
                 media[u][e] \in {"queued", "preparing", "open", "closing"}
          PROVE  \E j \in Job : UidOf(j) = u /\ held[j] = e
      <3>1. CASE media[u][e] = "closing"
        BY <3>1 DEF OneCloser
      <3>2. CASE media[u][e] # "closing"
        <4>1. refs[u][e] > 0
          BY <2>1, <3>2 DEF TableMedia, InTable
        <4>2. Holders(u, e) # {}
          BY <4>1, JobsAreFinite, FS_EmptySet DEF RefsCount
        <4> QED
          BY <4>2 DEF Holders
      <3> QED
        BY <3>1, <3>2
    <2>2. ASSUME NEW u \in Uid, NEW e \in Entry,
                 media[u][e] \in {"queued", "preparing", "open", "closing"}
          PROVE  \E l \in Lane : held[<<l, u>>] = e
      BY <2>1, <2>2, JobFacts
    <2> QED
      BY <2>2 DEF MediaLeased, JobMedia
  <1> QED
    BY <1>1, EpisodeInvariant, PTL

(* A lane that ends without raising leaves no episode of the batch behind. *)
THEOREM EndIsSettled == Spec => []EndedIsSettled
  <1>1. IndInv => EndedIsSettled
    BY JobFacts
    DEF IndInv, LeaseInv, RestIsQuiet, SettleInv, OneFinal, ResultKnown, EndedIsSettled
  <1> QED
    BY <1>1, EpisodeInvariant, PTL

(* put_checkpoint_unit and put_many replace no unit that was paid for, and *)
(* only a job with a durable record clears its units.                      *)
THEOREM PaidWorkIsKept == Spec => PaidWorkKept
  <1>1. IndInv /\ [Next]_vars => [Kept]_vars
    BY KeptStep
  <1> QED
    BY <1>1, EpisodeInvariant, PTL DEF Spec, PaidWorkKept, Kept
=============================================================================
