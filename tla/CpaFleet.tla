------------------------------ MODULE CpaFleet ------------------------------
(***************************************************************************)
(* scripts/cpa_fleet_controller.py with the scripts it drives: the CPA     *)
(* fleet.  Every cycle the controller collects completed units, probes     *)
(* which slots have a live worker, charges the units of workers that have  *)
(* ended, and leases what is pending to idle slots.  A worker annotates    *)
(* its lease: a unit is first written to the log and the local outbox, and *)
(* stored in the cloud later.                                              *)
(*                                                                         *)
(* ssh may time out, a launch may take effect long after its timeout, and  *)
(* a cycle may fail between any two steps.                                 *)
(***************************************************************************)
EXTENDS Integers, Sequences, FiniteSets, FiniteSetsExt

CONSTANTS Master,      \* CPA units of the master files, numbers in their order
          StaOf,       \* unit -> the STA record it needs (uid before ":view=")
          Views,       \* the units named "<STA record>:view=..."
          BaseNodes,   \* sequence of the historical nodes
          NewNodes,    \* sequence of the nodes added later
          BaseSlots, ExtraSlots, NewSlots, \* slots per node
          Target,      \* CPA_TARGET_UIDS_PER_SLOT
          PerSlot,     \* CPA_GENERATION_UIDS_PER_SLOT
          MaxAttempts, \* leases that may end without the unit before quarantine
          MinIdle, MinRemaining, \* thresholds of the tail rebalance
          MaxFaults    \* timeouts, failures and kills of the instance

ASSUME FleetAssumption ==
  /\ Master \subseteq Nat /\ IsFiniteSet(Master) /\ Views \subseteq Master
  /\ DOMAIN StaOf = Master
  /\ \A nodes \in {BaseNodes, NewNodes} : nodes \in Seq({nodes[i] : i \in DOMAIN nodes})
  /\ {BaseSlots, ExtraSlots, NewSlots, MinIdle, MinRemaining, MaxFaults} \subseteq Nat
  /\ {Target, PerSlot, MaxAttempts} \subseteq Nat \ {0}

(* The durable slot numbers: first the base slots of the historical nodes, *)
(* then their extra slots, then the slots of the new nodes.                *)
Repeated(nodes, n) == [i \in 1 .. n * Len(nodes) |-> nodes[(i - 1) \div n + 1]]

Layout == Repeated(BaseNodes, BaseSlots) \o Repeated(BaseNodes, ExtraSlots)
          \o Repeated(NewNodes, NewSlots)
Slot == 0 .. Len(Layout) - 1
NodeOf(s) == Layout[s + 1]
Node == {Layout[i] : i \in DOMAIN Layout}

VARIABLES
  phase,       \* of the cycle: "idle", "probe", "build", "save"
  sta,         \* STA records in the published ledgers of the STA nodes
  available,   \* available-sta-uids.txt
  completed,   \* completed-cpa-uids.txt
  attempts,    \* attempts.json
  assignments, \* slot-assignments.json: slot -> units of its file
  saved,       \* active-slots.json
  active,      \* slots found active in this cycle
  excluded,    \* excluded-cpa-uids.txt
  launched,    \* slot -> units, of the slots that survived the launch
  lease,       \* slot -> units of its live worker, {} without one
  late,        \* slot -> units of a launch that has not taken effect yet
  written,     \* slot -> units in the log of its worker
  outbox,      \* slot -> units its worker has not stored yet
  drained,     \* slot -> its last heartbeat told of an empty outbox
  known,       \* live slots whose launch was heard and saved (history)
  ledger,      \* units in the terminal ledgers of the nodes
  cloud,       \* units whose record is stored
  outran,      \* units collected from a log younger than the status (history)
  faults

control == <<phase, active, excluded, launched>>
files == <<available, completed, attempts, assignments, saved>>
workers == <<lease, written, outbox, drained, known>>
vars == <<control, files, workers, sta, late, ledger, cloud, outran, faults>>

Live(s) == lease[s] # {}
Nothing == [s \in Slot |-> {}]
Leasing == [Slot -> SUBSET Master]

(* main: the first assignments are the partitions of the audited seed, and *)
(* no worker runs.                                                         *)
Init ==
  /\ phase = "idle" /\ active = {} /\ excluded = {} /\ launched = Nothing
  /\ sta = {} /\ available = {} /\ completed = {}
  /\ attempts = [u \in Master |-> 0]
  /\ assignments = [s \in Slot |-> {u \in Master : u % Len(Layout) = s}]
  /\ saved = {}
  /\ lease = Nothing /\ written = Nothing /\ outbox = Nothing
  /\ drained = [s \in Slot |-> FALSE] /\ known = {}
  /\ late = Nothing /\ ledger = {} /\ cloud = {} /\ outran = {} /\ faults = 0

MayFail == faults < MaxFaults
Fault == MayFail /\ faults' = faults + 1

-----------------------------------------------------------------------------
(* The cycle.                                                              *)

(* collect_active_cpa_ready.py: the log of a live worker counts if its     *)
(* status tells of a drained outbox; the cursor may skip any of its lines. *)
AnyStatus(s) == TRUE \* mutant
Vouched(s) == drained[s]

(* Written after the heartbeat that told of a drained outbox.              *)
Fresh(s, u) == drained[s] /\ u \in outbox[s]

Collectable(s) == IF Live(s) /\ Vouched(s) THEN written[s] ELSE {}

(* All ledgers are read, or some node does not answer.                     *)
Collect ==
  /\ phase = "idle"
  /\ \E lines \in SUBSET UNION {Collectable(s) : s \in Slot} :
       /\ outran' = outran \cup {u \in lines : \E s \in Slot : Fresh(s, u)}
       /\ \/ completed' = completed \cup lines \cup ledger /\ UNCHANGED faults
          \/ completed' = completed \cup lines /\ Fault
  /\ available' = available \cup sta
  /\ phase' = "probe"
  /\ UNCHANGED <<active, excluded, launched, attempts, assignments, saved,
                 workers, sta, late, ledger, cloud>>

Uncharged(ended) == attempts \* mutant

(* record_finished_attempts: one attempt for every slot that was active,   *)
(* is no longer, and whose assignment names the unit.  Attempts beyond the *)
(* maximum are not told apart.                                             *)
Charged(ended) ==
  [u \in Master |->
    IF u \in completed \/ StaOf[u] \notin available THEN attempts[u]
    ELSE Min({MaxAttempts, attempts[u] + Cardinality({s \in ended : u \in assignments[s]})})]

Quarantined == {u \in Master : attempts[u] >= MaxAttempts /\ u \notin completed}

(* An active slot excludes the units of its assignment.                    *)
LeasedTo(slots) == UNION {assignments[s] : s \in slots}

(* active_cpa_slots: an unreachable node counts as fully active.           *)
CountedIdle(down) == {} \* mutant
Unreachable(down) == {s \in Slot : NodeOf(s) \in down}

Probe ==
  /\ phase = "probe"
  /\ \E down \in SUBSET Node :
       /\ IF down = {} THEN UNCHANGED faults ELSE Fault
       /\ active' = {s \in Slot : Live(s) /\ NodeOf(s) \notin down} \cup Unreachable(down)
  /\ UNCHANGED <<launched, available, completed, assignments, saved, workers,
                 sta, late, ledger, cloud, outran>>
  /\ attempts' = Charged(saved \ active')
  /\ excluded' = Quarantined' \cup LeasedTo(active')
  /\ phase' = "build"

Idle == Slot \ active
Pending == {u \in Master : u \notin completed \cup excluded /\ StaOf[u] \in available}

(* choose_generation_slots: evenly spread over the idle slots.             *)
Rank(S, e) == Cardinality({x \in S : x < e})
Count == Min({Cardinality(Idle), Max({1, (Cardinality(Pending) + Target - 1) \div Target})})
Chosen == {s \in Idle : \E i \in 0 .. Count - 1 :
                           Rank(Idle, s) = (i * Cardinality(Idle)) \div Count}

(* build_cpa_dynamic_generation.py: a unit goes to the slot of its hash    *)
(* (the unit itself here); each slot takes the first PerSlot of the file.  *)
Mine(s) == {u \in Pending : u % Count = Rank(Chosen, s)}
Generation ==
  [s \in Slot |-> IF s \notin Chosen THEN {}
                  ELSE {u \in Mine(s) : Rank(Mine(s), u) < PerSlot}]

(* choose_tail_donor: the active slot with most left of its assignment.    *)
(* It looks up the unit itself in available, so that views never count.    *)
Remaining(s) ==
  Cardinality({u \in assignments[s] \ Views : u \notin completed /\ StaOf[u] \in available})
Before(t, s) == Remaining(t) > Remaining(s) \/ (Remaining(t) = Remaining(s) /\ t > s)
Donors == {s \in active : Remaining(s) >= MinRemaining /\ ~ \E t \in active : Before(t, s)}

(* A worker ends without having reported: killed, or lost with its node.   *)
(* Its outbox goes with it.                                                *)
Without(s, f) == [f EXCEPT ![s] = {}]
Kill(s) ==
  /\ lease' = Without(s, lease) /\ written' = Without(s, written)
  /\ outbox' = Without(s, outbox)
  /\ drained' = [drained EXCEPT ![s] = FALSE] /\ known' = known \ {s}

(* Nothing to lease: the cycle ends, and a long lease may be released so   *)
(* that its remainder fills the idle slots (unless cooldown or ssh say no). *)
Rest ==
  /\ phase = "build" /\ (Idle = {} \/ Pending = {})
  /\ saved' = active
  /\ \/ UNCHANGED workers
     \/ /\ Pending = {} /\ Cardinality(Idle) >= MinIdle
        /\ \E s \in Donors : Kill(s)
  /\ phase' = "idle"
  /\ active' = {} /\ excluded' = {} /\ launched' = Nothing
  /\ UNCHANGED <<available, completed, attempts, assignments,
                 sta, late, ledger, cloud, outran, faults>>

(* deploy_and_launch_node, for all nodes.  A launched worker replaces any  *)
(* session of its slot.  It is up; or it never starts; or it starts late.  *)
(* The job of a node may fail after its launches.                          *)
Launch ==
  /\ phase = "build" /\ Idle # {} /\ Pending # {}
  /\ \E units \in {Generation}, down \in SUBSET Node :
     \E up \in SUBSET {s \in Slot : units[s] # {}} :
     \E belated \in SUBSET ({s \in Slot : units[s] # {}} \ up) :
       /\ LET heard == {s \in up : NodeOf(s) \notin down}
          IN /\ IF \A s \in Slot : units[s] # {} => s \in heard
                THEN down = {} /\ UNCHANGED faults ELSE Fault
             /\ launched' = [s \in Slot |-> IF s \in heard THEN units[s] ELSE {}]
       /\ lease' = [s \in Slot |-> IF s \in up THEN units[s] ELSE lease[s]]
       /\ written' = [s \in Slot |-> IF s \in up THEN {} ELSE written[s]]
       /\ outbox' = [s \in Slot |-> IF s \in up THEN {} ELSE outbox[s]]
       /\ drained' = [s \in Slot |-> s \notin up /\ drained[s]] /\ known' = known \ up
       /\ late' = [s \in Slot |-> IF s \in belated THEN units[s] ELSE late[s]]
  /\ phase' = "save"
  /\ UNCHANGED <<active, excluded, files, sta, ledger, cloud, outran>>

Save ==
  /\ phase = "save"
  /\ assignments' = [s \in Slot |-> IF launched[s] # {} THEN launched[s] ELSE assignments[s]]
  /\ saved' = active \cup {s \in Slot : launched[s] # {}}
  /\ known' = known \cup {s \in Slot : Live(s) /\ lease[s] = launched[s]}
  /\ phase' = "idle"
  /\ active' = {} /\ excluded' = {} /\ launched' = Nothing
  /\ UNCHANGED <<available, completed, attempts, lease, written, outbox,
                 drained, sta, late, ledger, cloud, outran, faults>>

(* controller_cycle raises, or the controller dies and is started again.   *)
CycleFails ==
  /\ phase # "idle" /\ Fault
  /\ phase' = "idle"
  /\ active' = {} /\ excluded' = {} /\ launched' = Nothing
  /\ UNCHANGED <<files, workers, sta, late, ledger, cloud, outran>>

-----------------------------------------------------------------------------
(* The world: STA records are published, workers work.                     *)

StaPublished ==
  /\ \E r \in {StaOf[u] : u \in Master} \ sta : sta' = sta \cup {r}
  /\ UNCHANGED <<control, files, workers, late, ledger, cloud, outran, faults>>

(* put_final_record, stage_written: the unit is in the log and the outbox. *)
Write(s) ==
  /\ \E u \in lease[s] \ written[s] :
       /\ written' = [written EXCEPT ![s] = @ \cup {u}]
       /\ outbox' = [outbox EXCEPT ![s] = @ \cup {u}]
  /\ UNCHANGED <<control, files, lease, drained, known, sta, late, ledger, cloud, outran,
                 faults>>

Store(s) ==
  /\ outbox[s] # {}
  /\ cloud' = cloud \cup outbox[s] /\ outbox' = [outbox EXCEPT ![s] = {}]
  /\ UNCHANGED <<control, files, lease, written, drained, known, sta,
                 late, ledger, outran, faults>>

(* request-parallel-status.json is rewritten every minute.                 *)
Heartbeat(s) ==
  /\ Live(s) /\ drained[s] # (outbox[s] = {})
  /\ drained' = [drained EXCEPT ![s] = outbox[s] = {}]
  /\ UNCHANGED <<control, files, lease, written, outbox, known, sta, late,
                 ledger, cloud, outran, faults>>

(* run_cpa_fleet_shard.sh: the worker has ended with its outbox drained,   *)
(* possibly with failed units; what its log names enters the ledger.       *)
Finish(s) ==
  /\ Live(s) /\ outbox[s] = {}
  /\ ledger' = ledger \cup written[s]
  /\ Kill(s)
  /\ UNCHANGED <<control, files, sta, late, cloud, outran, faults>>

(* The worker's node loses it.                                             *)
WorkerLost(s) ==
  /\ Live(s) /\ Fault
  /\ Kill(s)
  /\ UNCHANGED <<control, files, sta, late, ledger, cloud, outran>>

(* A launch that had timed out takes effect; it replaces the session.      *)
LateStart(s) ==
  /\ late[s] # {}
  /\ lease' = [lease EXCEPT ![s] = late[s]] /\ late' = [late EXCEPT ![s] = {}]
  /\ written' = Without(s, written) /\ outbox' = Without(s, outbox)
  /\ drained' = [drained EXCEPT ![s] = FALSE]
  /\ known' = known \ {s}
  /\ UNCHANGED <<control, files, sta, ledger, cloud, outran, faults>>

Cycle == Collect \/ Probe \/ Rest \/ Launch \/ Save

Next ==
  \/ Cycle \/ CycleFails \/ StaPublished
  \/ \E s \in Slot : \/ Write(s) \/ Store(s) \/ Heartbeat(s) \/ Finish(s)
                     \/ WorkerLost(s) \/ LateStart(s)

Spec == Init /\ [][Next]_vars

(* The controller cycles, and a worker stores what it wrote and ends.      *)
Fairness ==
  /\ WF_vars(Cycle)
  /\ \A s \in Slot : WF_vars(Store(s)) /\ WF_vars(Finish(s))

FairSpec == Spec /\ Fairness
-----------------------------------------------------------------------------
TypeOK ==
  /\ phase \in {"idle", "probe", "build", "save"}
  /\ available \subseteq sta /\ completed \subseteq Master /\ cloud \subseteq Master
  /\ attempts \in [Master -> 0 .. MaxAttempts]
  /\ saved \subseteq Slot /\ active \subseteq Slot /\ excluded \subseteq Master
  /\ ledger \subseteq Master /\ outran \subseteq Master
  /\ assignments \in Leasing /\ launched \in Leasing /\ lease \in Leasing
  /\ late \in Leasing /\ written \in Leasing /\ outbox \in Leasing
  /\ drained \in [Slot -> BOOLEAN] /\ known \subseteq Slot /\ faults \in 0 .. MaxFaults

(* Two workers the controller knows never annotate the same unit, whatever *)
(* nodes answered, workers died or cycles failed before.                   *)
LeasesDisjoint ==
  \A s, t \in known : s # t => lease[s] \cap lease[t] = {}

(* What counts as completed is stored, unless it was collected from a log  *)
(* line younger than the status that vouched for it.                       *)
CompletedIsStored == completed \subseteq cloud \cup outran

(* Every unit whose STA record is published is completed or quarantined at *)
(* last.                                                                   *)
EveryUnitSettled ==
  \A u \in Master : (StaOf[u] \in sta) ~> (u \in completed \/ u \in Quarantined)
=============================================================================
