--------------------------- MODULE CpaFleetProofs ---------------------------
(***************************************************************************)
(* Proofs about CpaFleet, for any number of units, nodes, slots, attempts  *)
(* and faults: workers that the controller knows never annotate the same   *)
(* unit, and what counts as completed is stored.                           *)
(***************************************************************************)
EXTENDS CpaFleet, FiniteSetTheorems, TLAPS

-----------------------------------------------------------------------------
(* Ranks: how the controller deals out units to slots.                     *)

(* The layout of the fleet is a finite sequence.                           *)
LEMMA LayoutIsFinite == Len(Layout) \in Nat
  <1>1. Len(BaseNodes) \in Nat /\ Len(NewNodes) \in Nat
    BY FleetAssumption
  <1>2. ASSUME NEW nodes, NEW n \in Nat, Len(nodes) \in Nat
        PROVE  /\ Len(Repeated(nodes, n)) \in Nat
               /\ Repeated(nodes, n) \in Seq({Repeated(nodes, n)[i] : i \in 1 .. n * Len(nodes)})
    <2> DEFINE r == Repeated(nodes, n)
    <2>1. n * Len(nodes) \in Nat
      BY <1>2
    <2>2. r = [i \in 1 .. n * Len(nodes) |-> nodes[(i - 1) \div n + 1]]
      BY DEF Repeated
    <2> HIDE DEF r
    <2>3. r \in [1 .. n * Len(nodes) -> {r[i] : i \in 1 .. n * Len(nodes)}]
      BY <2>2
    <2> QED
      BY <2>1, <2>3 DEF r
  <1> QED
    BY <1>1, <1>2, FleetAssumption DEF Layout

(* The slots are an initial segment of the numbers.                        *)
LEMMA SlotType == Slot \subseteq Nat /\ IsFiniteSet(Slot)
  BY LayoutIsFinite, FS_Interval DEF Slot

(* Different elements of a finite set of numbers have different ranks.     *)
LEMMA RankIsInjective ==
  ASSUME NEW S \in SUBSET Nat, IsFiniteSet(S), NEW a \in S, NEW b \in S, a # b
  PROVE  Rank(S, a) # Rank(S, b)
  <1>1. ASSUME NEW c \in S, NEW d \in S, c < d
        PROVE  Rank(S, c) # Rank(S, d)
    <2> DEFINE below(e) == {x \in S : x < e}
    <2>1. ASSUME NEW x \in below(c) PROVE x \in below(d)
      <3>1. x \in Nat /\ c \in Nat /\ d \in Nat /\ x < c
        OBVIOUS
      <3> QED
        BY <1>1, <3>1
    <2>2. c \in below(d) /\ c \notin below(c)
      <3>1. c \in Nat
        OBVIOUS
      <3> QED
        BY <1>1, <3>1
    <2>3. below(c) \in SUBSET below(d) /\ c \in below(d) \ below(c)
      BY <2>1, <2>2
    <2>4. IsFiniteSet(below(d))
      BY FS_Subset
    <2>5. Cardinality(below(c)) # Cardinality(below(d))
      BY <2>3, <2>4, FS_Subset
    <2> QED
      BY <2>5 DEF Rank
  <1>2. a < b \/ b < a
    OBVIOUS
  <1> QED
    BY <1>1, <1>2

(* A generation leases each unit once, and only pending ones.              *)
LEMMA GenerationIsApart ==
  ASSUME active \subseteq Slot
  PROVE  /\ Generation \in [Slot -> SUBSET Pending]
         /\ \A s \in Slot : Generation[s] # {} => s \in Idle
         /\ \A s, t \in Slot : s # t => Generation[s] \cap Generation[t] = {}
  <1>1. Generation \in [Slot -> SUBSET Pending]
    BY DEF Generation, Mine
  <1>2. \A s \in Slot : Generation[s] # {} => s \in Chosen
    BY DEF Generation
  <1>3. Chosen \in SUBSET Slot /\ Chosen \subseteq Idle /\ IsFiniteSet(Chosen)
    <2>1. Chosen \subseteq Idle /\ Idle \subseteq Slot
      BY DEF Chosen, Idle
    <2> QED
      BY <2>1, SlotType, FS_Subset
  <1>4. ASSUME NEW s \in Slot, NEW t \in Slot, NEW u \in Generation[s] \cap Generation[t]
        PROVE  s = t
    <2>1. s \in Chosen /\ t \in Chosen
      BY <1>2, <1>4
    <2>2. u % Count = Rank(Chosen, s) /\ u % Count = Rank(Chosen, t)
      BY <1>4, <2>1 DEF Generation, Mine
    <2> QED
      BY <1>3, <2>1, <2>2, RankIsInjective, SlotType
  <1> QED
    BY <1>1, <1>2, <1>3, <1>4

-----------------------------------------------------------------------------
(* The invariant.                                                          *)

(* A worker the controller knows is alive and annotates units of its       *)
(* assignment.                                                             *)
KnownIsLeased ==
  \A s \in known : Live(s) /\ lease[s] \subseteq assignments[s]

(* From the probe on, the slots of known workers are taken, and what is    *)
(* assigned to slots that are taken is not leased again.                   *)
TakenIsExcluded ==
  phase \in {"build", "save"} => known \subseteq active /\ LeasedTo(active) \subseteq excluded

(* Launches that are not saved yet went to idle slots, with units that no  *)
(* taken slot nor another launch has.                                      *)
LaunchedIsApart ==
  \A s \in Slot : launched[s] # {} =>
    /\ phase = "save" /\ s \notin active /\ launched[s] \cap excluded = {}
    /\ \A t \in Slot \ {s} : launched[s] \cap launched[t] = {}

(* What a log names is in the outbox of its worker or stored, and what a   *)
(* ledger names is stored.                                                 *)
WrittenIsSafe ==
  /\ \A s \in Slot : written[s] \subseteq outbox[s] \cup cloud
  /\ ledger \subseteq cloud

IndInv ==
  /\ TypeOK /\ KnownIsLeased /\ TakenIsExcluded /\ LaunchedIsApart /\ WrittenIsSafe
  /\ LeasesDisjoint /\ CompletedIsStored

(* The invariant holds at first.                                           *)
LEMMA IndInit == ASSUME Init PROVE IndInv
  <1>1. TypeOK
    BY FleetAssumption DEF Init, TypeOK, Nothing, Leasing
  <1>2. KnownIsLeased /\ TakenIsExcluded /\ LaunchedIsApart /\ WrittenIsSafe
    BY DEF Init, KnownIsLeased, TakenIsExcluded, LaunchedIsApart, WrittenIsSafe, Nothing
  <1>3. LeasesDisjoint /\ CompletedIsStored
    BY DEF Init, LeasesDisjoint, CompletedIsStored
  <1> QED
    BY <1>1, <1>2, <1>3 DEF IndInv

(* An attempt is counted up to the maximum.                                *)
LEMMA ChargedType ==
  ASSUME TypeOK, NEW ended \in SUBSET Slot
  PROVE  Charged(ended) \in [Master -> 0 .. MaxAttempts]
  <1>1. ASSUME NEW u \in Master
        PROVE  Min({MaxAttempts, attempts[u] + Cardinality({s \in ended : u \in assignments[s]})})
                 \in 0 .. MaxAttempts
    <2> DEFINE n == Cardinality({s \in ended : u \in assignments[s]})
    <2>1. n \in Nat
      BY SlotType, FS_Subset, FS_CardinalityType
    <2>2. attempts[u] \in Nat /\ MaxAttempts \in Nat
      BY FleetAssumption DEF TypeOK
    <2> DEFINE m == attempts[u] + n
    <2>3. m \in Nat
      BY <2>1, <2>2
    <2> HIDE DEF m
    <2>4. \E x \in {MaxAttempts, m} : \A y \in {MaxAttempts, m} : x <= y
      BY <2>2, <2>3
    <2>5. Min({MaxAttempts, m}) \in {MaxAttempts, m} /\ Min({MaxAttempts, m}) <= MaxAttempts
      BY <2>4 DEF Min
    <2> QED
      BY <2>2, <2>3, <2>5 DEF m
  <1> QED
    BY <1>1 DEF Charged, TypeOK

(* What a worker leaves when it ends.                                      *)
LEMMA KillFacts ==
  ASSUME TypeOK, NEW s \in Slot, Kill(s)
  PROVE  /\ lease' \in Leasing /\ written' \in Leasing /\ outbox' \in Leasing
         /\ drained' \in [Slot -> BOOLEAN] /\ known' = known \ {s}
         /\ \A t \in Slot \ {s} : lease'[t] = lease[t]
         /\ \A t \in Slot : t # s => written'[t] = written[t] /\ outbox'[t] = outbox[t]
         /\ written'[s] = {}
  BY DEF Kill, Without, TypeOK, Leasing

(* Every variable keeps its type.                                          *)
LEMMA TypeStep == ASSUME IndInv, [Next]_vars PROVE TypeOK'
  <1> USE FleetAssumption
  <1>0. Nothing \in Leasing
    BY DEF Nothing, Leasing
  <1> USE DEF IndInv, TypeOK, control, files, workers
  <1>1. CASE Collect
    <2>1. UNION {Collectable(s) : s \in Slot} \subseteq Master
      BY DEF Collectable, Leasing
    <2>2. completed' \subseteq Master
      BY <1>1, <2>1 DEF Collect
    <2>3. outran' \subseteq Master
      BY <1>1, <2>1 DEF Collect
    <2>4. faults' \in 0 .. MaxFaults
      BY <1>1 DEF Collect, Fault, MayFail
    <2> QED
      BY <1>1, <2>2, <2>3, <2>4 DEF Collect
  <1>2. CASE Probe
    <2>1. active' \subseteq Slot
      BY <1>2 DEF Probe, Unreachable
    <2>2. attempts' \in [Master -> 0 .. MaxAttempts]
      BY <1>2, ChargedType DEF Probe
    <2>3. excluded' \subseteq Master
      BY <1>2, <2>1 DEF Probe, Quarantined, LeasedTo, Leasing
    <2>4. faults' \in 0 .. MaxFaults
      BY <1>2 DEF Probe, Fault, MayFail
    <2> QED
      BY <1>2, <2>1, <2>2, <2>3, <2>4 DEF Probe
  <1>3. CASE Rest
    <2>1. CASE UNCHANGED workers
      BY <1>0, <1>3, <2>1 DEF Rest
    <2>2. ASSUME NEW s \in Donors, Kill(s)
          PROVE  TypeOK'
      BY <1>0, <1>3, <2>2, KillFacts DEF Rest, Donors
    <2> QED
      BY <1>3, <2>1, <2>2 DEF Rest
  <1>4. CASE Launch
    <2>1. Generation \in Leasing
      BY GenerationIsApart DEF Pending, Leasing
    <2>2. launched' \in Leasing /\ late' \in Leasing
      BY <1>4, <2>1 DEF Launch, Leasing
    <2>3. lease' \in Leasing /\ written' \in Leasing /\ outbox' \in Leasing
      BY <1>4, <2>1 DEF Launch, Leasing
    <2>4. drained' \in [Slot -> BOOLEAN] /\ known' \subseteq known /\ faults' \in 0 .. MaxFaults
      BY <1>4 DEF Launch, Fault, MayFail
    <2> QED
      BY <1>4, <2>2, <2>3, <2>4 DEF Launch
  <1>5. CASE Save
    <2>1. assignments' \in Leasing
      BY <1>5 DEF Save, Leasing
    <2> QED
      BY <1>0, <1>5, <2>1 DEF Save
  <1>6. CASE CycleFails
    <2>1. faults' \in 0 .. MaxFaults /\ active' = {} /\ excluded' = {} /\ launched' = Nothing
      BY <1>6 DEF CycleFails, Fault, MayFail
    <2>2. UNCHANGED <<files, workers, sta, late, ledger, cloud, outran>>
      BY <1>6 DEF CycleFails
    <2>3. UNCHANGED <<late, ledger, cloud, outran, sta>> /\ phase' = "idle"
      BY <1>6 DEF CycleFails
    <2> QED
      BY <1>0, <2>1, <2>2, <2>3
  <1>7. CASE StaPublished
    BY <1>7 DEF StaPublished
  <1>8. ASSUME NEW s \in Slot, Write(s) \/ Store(s) \/ Heartbeat(s)
        PROVE  TypeOK'
    <2>1. CASE Write(s)
      <3>1. written' \in Leasing /\ outbox' \in Leasing
        BY <2>1 DEF Write, Leasing
      <3> QED
        BY <2>1, <3>1 DEF Write
    <2>2. CASE Store(s)
      <3>1. outbox' \in Leasing /\ cloud' \subseteq Master
        BY <2>2 DEF Store, Leasing
      <3> QED
        BY <2>2, <3>1 DEF Store
    <2>3. CASE Heartbeat(s)
      BY <2>3 DEF Heartbeat
    <2> QED
      BY <1>8, <2>1, <2>2, <2>3
  <1>9. ASSUME NEW s \in Slot, LateStart(s)
        PROVE  TypeOK'
    <2>1. lease' \in Leasing /\ late' \in Leasing /\ written' \in Leasing /\ outbox' \in Leasing
      BY <1>9 DEF LateStart, Without, Leasing
    <2> QED
      BY <1>9, <2>1 DEF LateStart
  <1>10. ASSUME NEW s \in Slot, Finish(s)
         PROVE  TypeOK'
    <2>1. ledger' \subseteq Master
      BY <1>10 DEF Finish, Leasing
    <2> QED
      BY <1>10, <2>1, KillFacts DEF Finish
  <1>11. ASSUME NEW s \in Slot, WorkerLost(s)
         PROVE  TypeOK'
    <2>1. faults' \in 0 .. MaxFaults
      BY <1>11 DEF WorkerLost, Fault, MayFail
    <2> QED
      BY <1>11, <2>1, KillFacts DEF WorkerLost
  <1>12. CASE UNCHANGED vars
    BY <1>12 DEF vars
  <1> QED
    BY <1>1, <1>2, <1>3, <1>4, <1>5, <1>6, <1>7, <1>8, <1>9, <1>10, <1>11, <1>12
    DEF Next, Cycle

(* No worker that is known loses its lease or gets another one, save by    *)
(* the controller's own write of the assignments.                          *)
LEMMA KnownOnlyShrinks ==
  ASSUME IndInv, [Next]_vars, ~ Save
  PROVE  known' \subseteq known /\ \A s \in known' : lease'[s] = lease[s]
  <1> USE DEF IndInv, TypeOK, Leasing, control, files, workers
  <1>1. CASE Collect \/ Probe
    BY <1>1 DEF Collect, Probe
  <1>2. CASE Rest
    <2>1. CASE UNCHANGED workers
      BY <2>1
    <2>2. ASSUME NEW s \in Donors, Kill(s)
          PROVE  known' \subseteq known /\ \A t \in known' : lease'[t] = lease[t]
      BY <2>2, KillFacts DEF Donors
    <2> QED
      BY <1>2, <2>1, <2>2 DEF Rest
  <1>3. CASE Launch
    BY <1>3 DEF Launch
  <1>4. CASE CycleFails \/ StaPublished
    BY <1>4 DEF CycleFails, StaPublished
  <1>5. ASSUME NEW s \in Slot, Write(s) \/ Store(s) \/ Heartbeat(s)
        PROVE  known' \subseteq known /\ \A t \in known' : lease'[t] = lease[t]
    BY <1>5 DEF Write, Store, Heartbeat
  <1>6. ASSUME NEW s \in Slot, Finish(s) \/ WorkerLost(s)
        PROVE  known' \subseteq known /\ \A t \in known' : lease'[t] = lease[t]
    BY <1>6, KillFacts DEF Finish, WorkerLost
  <1>7. ASSUME NEW s \in Slot, LateStart(s)
        PROVE  known' \subseteq known /\ \A t \in known' : lease'[t] = lease[t]
    BY <1>7 DEF LateStart
  <1>8. CASE UNCHANGED vars
    BY <1>8 DEF vars
  <1> QED
    BY <1>1, <1>2, <1>3, <1>4, <1>5, <1>6, <1>7, <1>8 DEF Next, Cycle

(* The assignments, and what the cycle knows, change by the cycle only.    *)
LEMMA CycleOnly ==
  ASSUME [Next]_vars, ~ Cycle, ~ CycleFails
  PROVE  UNCHANGED <<control, assignments, completed, outran>>
  BY DEF Next, StaPublished, Write, Store, Heartbeat, Finish, WorkerLost, LateStart,
         control, files, vars

(* Known workers keep to assignments that are apart.                       *)
LEMMA LeaseStep == ASSUME IndInv, [Next]_vars PROVE KnownIsLeased' /\ LeasesDisjoint'
  <1> USE DEF IndInv, TypeOK, Leasing, Live
  <1>1. CASE Save
    <2>1. lease' = lease /\ UNCHANGED Slot
      BY <1>1 DEF Save
    <2>2. ASSUME NEW s \in known
          PROVE  /\ launched[s] = {} /\ assignments'[s] = assignments[s]
                 /\ lease[s] \subseteq excluded
      BY <1>1, <2>2 DEF Save, TakenIsExcluded, LaunchedIsApart, KnownIsLeased, LeasedTo
    <2>3. ASSUME NEW s \in known', s \notin known
          PROVE  /\ s \in Slot /\ lease[s] # {} /\ lease[s] = launched[s]
                 /\ assignments'[s] = launched[s]
                 /\ lease[s] \cap excluded = {}
      BY <1>1, <2>3 DEF Save, LaunchedIsApart
    <2>4. KnownIsLeased'
      BY <2>1, <2>2, <2>3 DEF KnownIsLeased
    <2>5. ASSUME NEW s \in known', NEW t \in known', s # t
          PROVE  lease[s] \cap lease[t] = {}
      <3>1. CASE s \in known /\ t \in known
        BY <2>5, <3>1 DEF LeasesDisjoint
      <3>2. CASE s \notin known /\ t \notin known
        <4>1. launched[s] \cap launched[t] = {}
          BY <2>3, <2>5, <3>2 DEF LaunchedIsApart
        <4> QED
          BY <2>3, <3>2, <4>1
      <3>3. CASE s \in known /\ t \notin known
        BY <2>2, <2>3, <3>3
      <3>4. CASE s \notin known /\ t \in known
        BY <2>2, <2>3, <3>4
      <3> QED
        BY <3>1, <3>2, <3>3, <3>4
    <2> QED
      BY <2>1, <2>4, <2>5 DEF LeasesDisjoint
  <1>2. CASE ~ Save
    <2>1. known' \subseteq known /\ \A s \in known' : lease'[s] = lease[s]
      BY <1>2, KnownOnlyShrinks
    <2>2. assignments' = assignments
      BY <1>2, CycleOnly DEF Cycle, Collect, Probe, Rest, Launch, CycleFails, files
    <2> QED
      BY <2>1, <2>2 DEF KnownIsLeased, LeasesDisjoint
  <1> QED
    BY <1>1, <1>2

(* What the probe found stays excluded until the cycle ends.               *)
LEMMA TakenStep == ASSUME IndInv, [Next]_vars PROVE TakenIsExcluded'
  <1> USE DEF IndInv, TypeOK
  <1>1. CASE Probe
    <2>1. known' \subseteq active'
      BY <1>1 DEF Probe, KnownIsLeased, Unreachable, workers
    <2>2. LeasedTo(active)' \subseteq excluded'
      BY <1>1 DEF Probe, LeasedTo
    <2> QED
      BY <2>1, <2>2 DEF TakenIsExcluded
  <1>2. CASE Launch
    <2>1. known' \subseteq known
      BY <1>2 DEF Launch
    <2> QED
      BY <1>2, <2>1 DEF Launch, TakenIsExcluded, LeasedTo, files
  <1>3. CASE Collect \/ Rest \/ Save \/ CycleFails
    BY <1>3 DEF Collect, Rest, Save, CycleFails, TakenIsExcluded
  <1>4. CASE ~ Cycle /\ ~ CycleFails
    <2>1. known' \subseteq known
      BY <1>4, KnownOnlyShrinks DEF Cycle
    <2>2. UNCHANGED <<control, assignments>>
      BY <1>4, CycleOnly
    <2> QED
      BY <2>1, <2>2 DEF TakenIsExcluded, LeasedTo, control
  <1> QED
    BY <1>1, <1>2, <1>3, <1>4 DEF Cycle

(* A launch keeps to idle slots and to units nobody else has.              *)
LEMMA LaunchedStep == ASSUME IndInv, [Next]_vars PROVE LaunchedIsApart'
  <1> USE DEF IndInv, TypeOK
  <1>1. CASE Launch
    <2>1. \A s \in Slot : launched'[s] # {} => launched'[s] = Generation[s]
      BY <1>1 DEF Launch
    <2>2. \A s \in Slot : launched'[s] \subseteq Generation[s]
      BY <1>1 DEF Launch
    <2>3. \A s \in Slot : launched'[s] # {} => s \notin active /\ launched'[s] \cap excluded = {}
      BY <2>1, GenerationIsApart DEF Idle, Pending
    <2>4. \A s, t \in Slot : s # t => launched'[s] \cap launched'[t] = {}
      BY <2>2, GenerationIsApart
    <2> QED
      BY <1>1, <2>3, <2>4 DEF Launch, LaunchedIsApart
  <1>2. CASE Collect \/ Probe
    <2>1. \A s \in Slot : launched'[s] = {}
      BY <1>2 DEF Collect, Probe, LaunchedIsApart
    <2> QED
      BY <2>1 DEF LaunchedIsApart
  <1>3. CASE Rest \/ Save \/ CycleFails
    <2>1. \A s \in Slot : launched'[s] = {}
      BY <1>3 DEF Rest, Save, CycleFails, Nothing
    <2> QED
      BY <2>1 DEF LaunchedIsApart
  <1>4. CASE ~ Cycle /\ ~ CycleFails
    BY <1>4, CycleOnly DEF LaunchedIsApart, control
  <1> QED
    BY <1>1, <1>2, <1>3, <1>4 DEF Cycle

(* A unit leaves an outbox only into the cloud, or with its log; a ledger  *)
(* takes a log only when the outbox is empty.                              *)
LEMMA WrittenStep == ASSUME IndInv, [Next]_vars PROVE WrittenIsSafe' /\ cloud \subseteq cloud'
  <1> USE DEF IndInv, TypeOK, Leasing, WrittenIsSafe, control, files, workers
  <1>1. CASE Collect \/ Probe \/ Save \/ CycleFails \/ StaPublished
    BY <1>1 DEF Collect, Probe, Save, CycleFails, StaPublished
  <1>2. CASE Rest
    <2>1. CASE UNCHANGED workers
      BY <1>2, <2>1 DEF Rest
    <2>2. ASSUME NEW s \in Donors, Kill(s)
          PROVE  WrittenIsSafe' /\ cloud \subseteq cloud'
      BY <1>2, <2>2, KillFacts DEF Rest, Donors
    <2> QED
      BY <1>2, <2>1, <2>2 DEF Rest
  <1>3. CASE Launch
    BY <1>3 DEF Launch
  <1>4. ASSUME NEW s \in Slot, Write(s)
        PROVE  WrittenIsSafe' /\ cloud \subseteq cloud'
    BY <1>4 DEF Write
  <1>5. ASSUME NEW s \in Slot, Store(s)
        PROVE  WrittenIsSafe' /\ cloud \subseteq cloud'
    BY <1>5 DEF Store
  <1>6. ASSUME NEW s \in Slot, Heartbeat(s)
        PROVE  WrittenIsSafe' /\ cloud \subseteq cloud'
    BY <1>6 DEF Heartbeat
  <1>7. ASSUME NEW s \in Slot, Finish(s)
        PROVE  WrittenIsSafe' /\ cloud \subseteq cloud'
    BY <1>7, KillFacts DEF Finish
  <1>8. ASSUME NEW s \in Slot, WorkerLost(s)
        PROVE  WrittenIsSafe' /\ cloud \subseteq cloud'
    BY <1>8, KillFacts DEF WorkerLost
  <1>9. ASSUME NEW s \in Slot, LateStart(s)
        PROVE  WrittenIsSafe' /\ cloud \subseteq cloud'
    BY <1>9 DEF LateStart, Without
  <1>10. CASE UNCHANGED vars
    BY <1>10 DEF vars
  <1> QED
    BY <1>1, <1>2, <1>3, <1>4, <1>5, <1>6, <1>7, <1>8, <1>9, <1>10 DEF Next, Cycle

(* Only the collection completes units, and it takes each from a ledger or *)
(* from the log of a worker whose status vouched for it.                   *)
LEMMA CompletedStep == ASSUME IndInv, [Next]_vars PROVE CompletedIsStored'
  <1> USE DEF IndInv, TypeOK, Leasing
  <1>1. cloud \subseteq cloud'
    BY WrittenStep
  <1>2. CASE Collect
    <2>1. PICK lines \in SUBSET UNION {Collectable(s) : s \in Slot} :
            /\ outran' = outran \cup {u \in lines : \E s \in Slot : Fresh(s, u)}
            /\ completed' \subseteq completed \cup lines \cup ledger
      BY <1>2 DEF Collect
    <2>2. ASSUME NEW u \in lines
          PROVE  u \in cloud \cup outran'
      <3>1. PICK s \in Slot : u \in Collectable(s)
        OBVIOUS
      <3>2. u \in written[s] /\ drained[s]
        BY <3>1 DEF Collectable, Vouched
      <3>3. CASE u \in outbox[s]
        BY <2>1, <3>2, <3>3 DEF Fresh
      <3>4. CASE u \in cloud
        BY <3>4
      <3> QED
        BY <3>2, <3>3, <3>4 DEF WrittenIsSafe
    <2> QED
      BY <1>1, <2>1, <2>2 DEF CompletedIsStored, WrittenIsSafe
  <1>3. CASE ~ Collect
    <2>1. UNCHANGED <<completed, outran>>
      BY <1>3, CycleOnly DEF Cycle, Probe, Rest, Launch, Save, CycleFails, files
    <2> QED
      BY <1>1, <2>1 DEF CompletedIsStored
  <1> QED
    BY <1>2, <1>3

-----------------------------------------------------------------------------
(* The theorems.                                                           *)

(* The inductive invariant of the CPA fleet holds in every reachable state *)
(* of controller_cycle and its workers.                                    *)
THEOREM FleetInvariant == Spec => []IndInv
  <1>1. IndInv /\ [Next]_vars => IndInv'
    BY TypeStep, LeaseStep, TakenStep, LaunchedStep, WrittenStep, CompletedStep DEF IndInv
  <1> QED
    BY <1>1, IndInit, PTL DEF Spec

(* Every variable of the fleet keeps its type: attempts never exceed       *)
(* CPA_MAX_GENERATION_ATTEMPTS, leases are sets of master units.           *)
THEOREM FleetTypes == Spec => []TypeOK
  BY FleetInvariant, PTL DEF IndInv

(* Two workers the controller knows never annotate the same unit: whatever *)
(* node is down in active_cpa_slots, whatever launch of                    *)
(* deploy_and_launch_node is heard late or not at all.                     *)
THEOREM LeasesApart == Spec => []LeasesDisjoint
  BY FleetInvariant, PTL DEF IndInv

(* What completed-cpa-uids.txt names is stored, unless it was collected    *)
(* from a log line younger than the status that vouched for it.            *)
THEOREM CompletedStored == Spec => []CompletedIsStored
  BY FleetInvariant, PTL DEF IndInv
=============================================================================
