----------------------- MODULE CheckpointSpoolProofs -----------------------
(* Proofs about CheckpointSpool for every number of producers, workers,    *)
(* paths and restarts.                                                     *)
EXTENDS CheckpointSpool, FiniteSetTheorems, TLAPS

USE DEF Unit

(* Rows of a set of claims, by membership.                                 *)
LEMMA CompletedMember ==
  \A ws, u : u \in Completed(ws) <=>
               \E w \in ws : outcome[w] = "ok" /\ u \in claim[w]
BY DEF Completed, Claimed

LEMMA FailedMember ==
  \A ws, u : u \in Claimed(Failed(ws)) <=>
               \E w \in ws : outcome[w] = "error" /\ u \in claim[w]
BY DEF Failed, Claimed

LEMMA StoredGrows ==
  ASSUME NEW c, cloud' = cloud \cup {c}
  PROVE  Stored' = Stored \cup c
BY DEF Stored

(* What the acknowledgements of a transaction stand for: completed rows    *)
(* are in the cloud, and the claims of different workers do not mix.       *)
LEMMA TransactionFacts ==
  ASSUME IndInv
  PROVE  /\ Completed(acks) \subseteq Stored
         /\ Completed(acks) \subseteq mirror
         /\ Claimed(Failed(acks)) \subseteq mirror
         /\ Completed(acks) \cap Claimed(Failed(acks)) = {}
         /\ Completed(acks) \cap ready = {}
         /\ batch \cap mirror = {}
         /\ \A w \in ActiveWriters \ acks :
              claim[w] \cap (Completed(acks) \cup Claimed(Failed(acks))) = {}
<1>1. acks \subseteq ActiveWriters /\ \A w \in acks : wpc[w] = "acking"
  BY DEF IndInv, QueueIsNew, AckQueue, ActiveWriters
<1>2. Completed(acks) \subseteq Stored
  BY <1>1, CompletedMember DEF IndInv, ClaimsAreExclusive, ActiveWriters
<1>3. /\ Completed(acks) \subseteq mirror
      /\ Claimed(Failed(acks)) \subseteq mirror
  BY <1>1, CompletedMember, FailedMember DEF IndInv, ClaimsAreExclusive
<1>4. Completed(acks) \cap Claimed(Failed(acks)) = {}
  BY <1>1, CompletedMember, FailedMember
     DEF IndInv, ClaimsAreExclusive, ExclusiveClaims
<1>5. Completed(acks) \cap ready = {}
  BY <1>1, CompletedMember DEF IndInv, ClaimsAreExclusive, ExclusiveClaims
<1>6. batch \cap mirror = {}
  BY DEF IndInv, QueueIsNew, SamePath
<1>7. \A w \in ActiveWriters \ acks :
        claim[w] \cap (Completed(acks) \cup Claimed(Failed(acks))) = {}
  BY <1>1, CompletedMember, FailedMember
     DEF IndInv, ClaimsAreExclusive, ExclusiveClaims
<1> QED
  BY <1>2, <1>3, <1>4, <1>5, <1>6, <1>7

(* Every row the indexes know is safe.                                     *)
LEMMA IndexIsSafe ==
  ASSUME IndInv
  PROVE  mirror \cup known \subseteq outbox \cup Stored
<1>1. mirror \subseteq outbox \cup Stored
  BY TransactionFacts DEF IndInv, MirrorFollowsOutbox
<1>2. known \subseteq outbox \cup Stored
  BY DEF IndInv, MirrorFollowsOutbox, LedgerIsExact
<1> QED
  BY <1>1, <1>2

(* The initial state.                                                      *)
LEMMA InitInv == Init => IndInv
<1> SUFFICES ASSUME Init PROVE IndInv
  OBVIOUS
<1>1. TypeOK
  BY DEF Init, TypeOK, ActiveWriters
<1>2. AckedIsDurable /\ PublishedIsStored /\ MirrorFollowsOutbox
  BY DEF Init, AckedIsDurable, PublishedIsStored, MirrorFollowsOutbox
<1>3. QueueIsNew
  BY DEF Init, QueueIsNew, AckQueue, ActiveWriters, Functional
<1>4. ClaimsAreExclusive
  BY DEF Init, ClaimsAreExclusive, ExclusiveClaims, ActiveWriters
<1>5. TicketsAreQueued
  BY DEF Init, TicketsAreQueued, Functional
<1>6. LedgerIsExact
  BY DEF Init, LedgerIsExact, Functional, Stored
<1> QED
  BY <1>1, <1>2, <1>3, <1>4, <1>5, <1>6 DEF IndInv

(* Steps that leave the durable state, the indexes, the owner and the      *)
(* workers alone: the producers' own steps.                                *)
LEMMA CallInv == ASSUME SpoolAssumption, IndInv, NEW p \in Producer, Call(p)
                 PROVE  IndInv'
<1> USE DEF Call, durable, index, owner, workers
<1>1. TypeOK'
  BY SpoolAssumption DEF IndInv, TypeOK, ActiveWriters
<1>2. AckedIsDurable' /\ PublishedIsStored'
  BY DEF IndInv, AckedIsDurable, PublishedIsStored, Stored
<1>3. MirrorFollowsOutbox'
  BY DEF IndInv, MirrorFollowsOutbox, Completed, Claimed
<1>4. QueueIsNew'
  BY DEF IndInv, QueueIsNew, AckQueue, ActiveWriters, Functional, SamePath
<1>5. ClaimsAreExclusive'
  BY DEF IndInv, ClaimsAreExclusive, ExclusiveClaims, ActiveWriters, Stored
<1>6. TicketsAreQueued'
  BY SpoolAssumption DEF IndInv, TypeOK, TicketsAreQueued, Functional, Stored
<1>7. LedgerIsExact'
  BY DEF IndInv, LedgerIsExact, Functional, Stored
<1> QED
  BY <1>1, <1>2, <1>3, <1>4, <1>5, <1>6, <1>7 DEF IndInv

LEMMA RefuseInv == ASSUME SpoolAssumption, IndInv, NEW p \in Producer, Refuse(p)
                   PROVE  IndInv'
<1> USE DEF Refuse, durable, index, owner, workers, producers
<1>1. TypeOK'
  BY SpoolAssumption DEF IndInv, TypeOK, ActiveWriters, AckQueue
<1>2. AckedIsDurable' /\ PublishedIsStored'
  BY DEF IndInv, TypeOK, AckedIsDurable, PublishedIsStored, Stored, TicketsAreQueued
<1>3. MirrorFollowsOutbox'
  BY DEF IndInv, TypeOK, MirrorFollowsOutbox, Completed, Claimed
<1>4. QueueIsNew'
  BY DEF IndInv, TypeOK, QueueIsNew, AckQueue, ActiveWriters, Functional, SamePath
<1>5. ClaimsAreExclusive'
  BY DEF IndInv, TypeOK, ClaimsAreExclusive, ExclusiveClaims, ActiveWriters, Stored
<1>6. TicketsAreQueued'
  BY DEF IndInv, TypeOK, TicketsAreQueued, Functional, Stored
<1>7. LedgerIsExact'
  BY DEF IndInv, TypeOK, LedgerIsExact, Functional, Stored
<1> QED
  BY <1>1, <1>2, <1>3, <1>4, <1>5, <1>6, <1>7 DEF IndInv

LEMMA ReturnInv == ASSUME SpoolAssumption, IndInv, NEW p \in Producer, Return(p)
                   PROVE  IndInv'
<1> USE DEF Return, durable, index, owner, workers, producers
<1>1. TypeOK'
  BY SpoolAssumption DEF IndInv, TypeOK, ActiveWriters, AckQueue
<1>2. AckedIsDurable' /\ PublishedIsStored'
  BY DEF IndInv, TypeOK, AckedIsDurable, PublishedIsStored, Stored, TicketsAreQueued
<1>3. MirrorFollowsOutbox'
  BY DEF IndInv, TypeOK, MirrorFollowsOutbox, Completed, Claimed
<1>4. QueueIsNew'
  BY DEF IndInv, TypeOK, QueueIsNew, AckQueue, ActiveWriters, Functional, SamePath
<1>5. ClaimsAreExclusive'
  BY DEF IndInv, TypeOK, ClaimsAreExclusive, ExclusiveClaims, ActiveWriters, Stored
<1>6. TicketsAreQueued'
  BY DEF IndInv, TypeOK, TicketsAreQueued, Functional, Stored
<1>7. LedgerIsExact'
  BY DEF IndInv, TypeOK, LedgerIsExact, Functional, Stored
<1> QED
  BY <1>1, <1>2, <1>3, <1>4, <1>5, <1>6, <1>7 DEF IndInv

LEMMA AdmitInv == ASSUME SpoolAssumption, IndInv, NEW p \in Producer, Admit(p)
                  PROVE  IndInv'
<1> USE DEF Admit, durable, index, owner, workers, producers, Indexed, NewRows, NewRowsOf, Tickets
<1>1. TypeOK'
  BY SpoolAssumption DEF IndInv, TypeOK, ActiveWriters, AckQueue
<1>2. AckedIsDurable' /\ PublishedIsStored'
  BY DEF IndInv, TypeOK, AckedIsDurable, PublishedIsStored, Stored, TicketsAreQueued
<1>3. MirrorFollowsOutbox'
  BY DEF IndInv, TypeOK, MirrorFollowsOutbox, Completed, Claimed
<1>4. QueueIsNew'
  <2>1. Functional(rows[p]) /\ queue' = queue \cup NewRows(p)
    BY DEF IndInv, TicketsAreQueued
  <2>2. Functional(queue')
    BY <2>1 DEF IndInv, QueueIsNew, Functional, SamePath
  <2>3. \A u \in queue' : ~ SamePath(u, mirror') /\ ~ SamePath(u, known')
    BY <2>1 DEF IndInv, QueueIsNew, SamePath
  <2> QED
    BY <2>1, <2>2, <2>3 DEF IndInv, QueueIsNew, AckQueue, ActiveWriters
<1>5. ClaimsAreExclusive'
  BY DEF IndInv, TypeOK, ClaimsAreExclusive, ExclusiveClaims, ActiveWriters, Stored
<1>6. TicketsAreQueued'
  <2>1. left'[p] = NewRows(p) \cup (rows[p] \cap queue) /\ queue' = queue \cup NewRows(p)
    BY DEF IndInv, TypeOK
  <2>2. rows[p] \ left'[p] \subseteq known \cup mirror
    BY <2>1 DEF SamePath, Conflict
  <2>3. rows'[p] \ left'[p] \subseteq outbox' \cup Stored'
    BY <2>2, IndexIsSafe DEF Stored
  <2>4. Stored' = Stored /\ rows' = rows /\ outbox' = outbox
    BY DEF Stored
  <2>5. \A q \in Producer \ {p} : left'[q] = left[q] /\ ppc'[q] = ppc[q]
    BY DEF IndInv, TypeOK
  <2>6. left'[p] \subseteq queue' /\ left'[p] \subseteq rows'[p] /\ ppc'[p] = "waiting"
    BY <2>1, <2>4 DEF IndInv, TypeOK
  <2> QED
    BY <2>1, <2>3, <2>4, <2>5, <2>6 DEF IndInv, TicketsAreQueued, Functional
<1>7. LedgerIsExact'
  BY DEF IndInv, TypeOK, LedgerIsExact, Functional, Stored
<1> QED
  BY <1>1, <1>2, <1>3, <1>4, <1>5, <1>6, <1>7 DEF IndInv

LEMMA OwnerBeginInv == ASSUME SpoolAssumption, IndInv, OwnerBegin
                       PROVE  IndInv'
<1> USE DEF OwnerBegin, durable, index, owner, workers, producers, FailLocalQueue
<1>1. TypeOK'
  <2>1. queue' \subseteq Unit /\ batch' \subseteq Unit /\ acks' \subseteq Worker
    BY DEF IndInv, TypeOK, AckQueue
  <2>2. /\ ppc' \in [Producer -> {"idle", "trying", "waiting"}]
        /\ rows' \in [Producer -> SUBSET Unit] /\ left' \in [Producer -> SUBSET Unit]
    BY DEF IndInv, TypeOK
  <2> QED
    BY <2>1, <2>2 DEF IndInv, TypeOK, ActiveWriters
<1>2. AckedIsDurable' /\ PublishedIsStored'
  BY DEF IndInv, TypeOK, AckedIsDurable, PublishedIsStored, Stored, TicketsAreQueued
<1>3. MirrorFollowsOutbox'
  BY DEF IndInv, TypeOK, MirrorFollowsOutbox, Completed, Claimed
<1>4. QueueIsNew'
  BY DEF IndInv, TypeOK, QueueIsNew, AckQueue, ActiveWriters, Functional, SamePath
<1>5. ClaimsAreExclusive'
  BY DEF IndInv, TypeOK, ClaimsAreExclusive, ExclusiveClaims, ActiveWriters, Stored
<1>6. TicketsAreQueued'
  BY DEF IndInv, TypeOK, TicketsAreQueued, Functional, Stored
<1>7. LedgerIsExact'
  BY DEF IndInv, TypeOK, LedgerIsExact, Functional, Stored
<1> QED
  BY <1>1, <1>2, <1>3, <1>4, <1>5, <1>6, <1>7 DEF IndInv

LEMMA OwnerDrainInv == ASSUME SpoolAssumption, IndInv, OwnerDrain
                       PROVE  IndInv'
<1> USE DEF OwnerDrain, durable, index, owner, workers, producers, FailLocalQueue
<1>1. TypeOK'
  BY SpoolAssumption DEF IndInv, TypeOK, ActiveWriters, AckQueue
<1>2. AckedIsDurable' /\ PublishedIsStored'
  BY DEF IndInv, TypeOK, AckedIsDurable, PublishedIsStored, Stored, TicketsAreQueued
<1>3. MirrorFollowsOutbox'
  BY DEF IndInv, TypeOK, MirrorFollowsOutbox, Completed, Claimed
<1>4. QueueIsNew'
  BY DEF IndInv, TypeOK, QueueIsNew, AckQueue, ActiveWriters, Functional, SamePath
<1>5. ClaimsAreExclusive'
  BY DEF IndInv, TypeOK, ClaimsAreExclusive, ExclusiveClaims, ActiveWriters, Stored
<1>6. TicketsAreQueued'
  BY DEF IndInv, TypeOK, TicketsAreQueued, Functional, Stored
<1>7. LedgerIsExact'
  BY DEF IndInv, TypeOK, LedgerIsExact, Functional, Stored
<1> QED
  BY <1>1, <1>2, <1>3, <1>4, <1>5, <1>6, <1>7 DEF IndInv

LEMMA OwnerCommitInv == ASSUME SpoolAssumption, IndInv, OwnerCommit
                        PROVE  IndInv'
<1> USE DEF OwnerCommit, durable, index, owner, workers, producers
<1>1. TypeOK'
  <2>1. Completed(acks) \subseteq Unit /\ {claim[w] : w \in Failed(acks)} \subseteq SUBSET Unit
    BY TransactionFacts DEF IndInv, TypeOK, Failed
  <2> QED
    BY <2>1 DEF IndInv, TypeOK, ActiveWriters
<1>2. AckedIsDurable' /\ PublishedIsStored'
  BY TransactionFacts DEF IndInv, AckedIsDurable, PublishedIsStored, Stored
<1>3. MirrorFollowsOutbox'
  BY DEF IndInv, TypeOK, MirrorFollowsOutbox, Completed, Claimed
<1>4. QueueIsNew'
  BY DEF IndInv, TypeOK, QueueIsNew, AckQueue, ActiveWriters, Functional, SamePath
<1>5. ClaimsAreExclusive'
  BY DEF IndInv, TypeOK, ClaimsAreExclusive, ExclusiveClaims, ActiveWriters, Stored
<1>6. TicketsAreQueued'
  BY TransactionFacts DEF IndInv, TypeOK, TicketsAreQueued, Functional, Stored
<1>7. LedgerIsExact'
  <2>1. Stored' = Stored
    BY DEF Stored
  <2>2. CASE FinalRecords
    <3>1. Functional(ledger')
      BY <2>2 DEF IndInv, LedgerIsExact, QueueIsNew, Functional, SamePath
    <3>2. /\ outbox' \subseteq ledger' /\ Stored' \subseteq ledger'
          /\ ledger' \subseteq outbox' \cup Stored'
      BY <2>1, <2>2, TransactionFacts DEF IndInv, LedgerIsExact
    <3>3. mirror' \subseteq known' /\ (mode' # "down" => ledger' = known' \cup batch')
      BY <2>2 DEF IndInv, LedgerIsExact
    <3> QED
      BY <2>2, <3>1, <3>2, <3>3 DEF LedgerIsExact
  <2>3. CASE ~ FinalRecords
    BY <2>3 DEF IndInv, LedgerIsExact
  <2> QED
    BY <2>2, <2>3
<1> QED
  BY <1>1, <1>2, <1>3, <1>4, <1>5, <1>6, <1>7 DEF IndInv

LEMMA OwnerPublishInv == ASSUME SpoolAssumption, IndInv, OwnerPublish
                         PROVE  IndInv'
<1> USE DEF OwnerPublish, durable, index, owner, workers, producers, StillWaitsFor, Schedule
<1>1. TypeOK'
  <2>1. Claimed(Failed(acks)) \subseteq Unit
    BY TransactionFacts DEF IndInv, TypeOK
  <2> QED
    BY <2>1 DEF IndInv, TypeOK, ActiveWriters, QueueIsNew, AckQueue
<1>2. AckedIsDurable' /\ PublishedIsStored'
  BY DEF IndInv, TypeOK, AckedIsDurable, PublishedIsStored, Stored, TicketsAreQueued
<1>3. MirrorFollowsOutbox'
  BY DEF IndInv, TypeOK, MirrorFollowsOutbox, Completed, Claimed
<1>4. QueueIsNew'
  BY DEF IndInv, TypeOK, QueueIsNew, AckQueue, ActiveWriters, Functional, SamePath
<1>5. ClaimsAreExclusive'
  <2>1. ActiveWriters' = ActiveWriters \ acks /\ Stored' = Stored
    BY DEF ActiveWriters, IndInv, TypeOK, Stored
  <2>2. \A v \in ActiveWriters \ acks : claim'[v] = claim[v]
    BY DEF ActiveWriters
  <2>3. ready' \subseteq mirror'
    BY TransactionFacts DEF IndInv, ClaimsAreExclusive
  <2>4. \A v \in ActiveWriters' : claim'[v] \subseteq mirror'
    BY <2>1, <2>2, TransactionFacts DEF IndInv, ClaimsAreExclusive
  <2>5. ExclusiveClaims'
    BY <2>1, <2>2, TransactionFacts DEF IndInv, ClaimsAreExclusive, ExclusiveClaims
  <2>6. \A v \in Worker : wpc'[v] \in {"done", "acking"} /\ outcome'[v] = "ok"
                            => claim'[v] \subseteq Stored'
    BY <2>1 DEF IndInv, ClaimsAreExclusive, TypeOK
  <2> QED
    BY <2>3, <2>4, <2>5, <2>6 DEF ClaimsAreExclusive
<1>6. TicketsAreQueued'
  <2>1. batch \subseteq outbox /\ Stored' = Stored
    BY TransactionFacts DEF IndInv, MirrorFollowsOutbox, Stored
  <2> QED
    BY <2>1 DEF IndInv, TypeOK, TicketsAreQueued, Functional
<1>7. LedgerIsExact'
  BY DEF IndInv, TypeOK, LedgerIsExact, Functional, Stored
<1> QED
  BY <1>1, <1>2, <1>3, <1>4, <1>5, <1>6, <1>7 DEF IndInv

LEMMA OwnerFailInv == ASSUME SpoolAssumption, IndInv, OwnerFail
                      PROVE  IndInv'
<1> USE DEF OwnerFail, durable, index, owner, workers, producers, FailLocalQueue
<1>1. TypeOK'
  BY SpoolAssumption DEF IndInv, TypeOK, ActiveWriters, AckQueue
<1>2. AckedIsDurable' /\ PublishedIsStored'
  BY DEF IndInv, TypeOK, AckedIsDurable, PublishedIsStored, Stored, TicketsAreQueued
<1>3. MirrorFollowsOutbox'
  BY DEF IndInv, TypeOK, MirrorFollowsOutbox, Completed, Claimed
<1>4. QueueIsNew'
  BY DEF IndInv, TypeOK, QueueIsNew, AckQueue, ActiveWriters, Functional, SamePath
<1>5. ClaimsAreExclusive'
  BY DEF IndInv, TypeOK, ClaimsAreExclusive, ExclusiveClaims, ActiveWriters, Stored
<1>6. TicketsAreQueued'
  BY DEF IndInv, TypeOK, TicketsAreQueued, Functional, Stored
<1>7. LedgerIsExact'
  BY DEF IndInv, MirrorFollowsOutbox, LedgerIsExact, Functional, Stored
<1> QED
  BY <1>1, <1>2, <1>3, <1>4, <1>5, <1>6, <1>7 DEF IndInv

LEMMA WorkerClaimInv == ASSUME SpoolAssumption, IndInv, NEW w \in Worker, WorkerClaim(w)
                        PROVE  IndInv'
<1> USE DEF WorkerClaim, durable, index, owner, workers, producers
<1>1. TypeOK'
  <2>1. PICK c \in SUBSET Due : /\ c # {} /\ ready' = ready \ c
                               /\ claim' = [claim EXCEPT ![w] = c]
    BY DEF Due
  <2>2. c \subseteq Unit
    BY <2>1 DEF Due, IndInv, TypeOK
  <2> QED
    BY <2>1, <2>2 DEF IndInv, TypeOK, ActiveWriters
<1>2. AckedIsDurable' /\ PublishedIsStored'
  BY DEF IndInv, TypeOK, AckedIsDurable, PublishedIsStored, Stored, TicketsAreQueued
<1>3. MirrorFollowsOutbox'
  <2>1. w \notin acks
    BY DEF IndInv, QueueIsNew, AckQueue
  <2>2. Completed(acks)' = Completed(acks)
    BY <2>1 DEF Completed, Claimed, IndInv, TypeOK
  <2> QED
    BY <2>2 DEF IndInv, MirrorFollowsOutbox
<1>4. QueueIsNew'
  BY DEF IndInv, TypeOK, QueueIsNew, AckQueue, ActiveWriters, Functional, SamePath
<1>5. ClaimsAreExclusive'
  <2>1. PICK c \in SUBSET ready : /\ ready' = ready \ c
                                 /\ claim' = [claim EXCEPT ![w] = c]
    BY DEF Due
  <2>2. ActiveWriters' = ActiveWriters \cup {w} /\ Stored' = Stored
    BY DEF ActiveWriters, IndInv, TypeOK, Stored
  <2>3. w \notin ActiveWriters /\ claim'[w] = c
        /\ \A v \in Worker \ {w} : claim'[v] = claim[v]
    BY <2>1 DEF ActiveWriters, IndInv, TypeOK
  <2>4. ready' \subseteq mirror' /\ \A v \in ActiveWriters' : claim'[v] \subseteq mirror'
    BY <2>1, <2>2, <2>3 DEF IndInv, ClaimsAreExclusive, ActiveWriters
  <2>5. ExclusiveClaims'
    BY <2>1, <2>2, <2>3 DEF IndInv, ClaimsAreExclusive, ExclusiveClaims, ActiveWriters
  <2>6. \A v \in Worker : wpc'[v] \in {"done", "acking"} /\ outcome'[v] = "ok"
                            => claim'[v] \subseteq Stored'
    BY <2>2, <2>3 DEF IndInv, ClaimsAreExclusive, TypeOK
  <2> QED
    BY <2>4, <2>5, <2>6 DEF ClaimsAreExclusive
<1>6. TicketsAreQueued'
  BY DEF IndInv, TypeOK, TicketsAreQueued, Functional, Stored
<1>7. LedgerIsExact'
  BY DEF IndInv, TypeOK, LedgerIsExact, Functional, Stored
<1> QED
  BY <1>1, <1>2, <1>3, <1>4, <1>5, <1>6, <1>7 DEF IndInv

LEMMA WriteOkInv == ASSUME SpoolAssumption, IndInv, NEW w \in Worker, WriteOk(w)
                    PROVE  IndInv'
<1> USE DEF WriteOk, durable, index, owner, workers, producers
<1>0. /\ Stored \subseteq Stored' /\ Stored' \subseteq Stored \cup claim[w]
      /\ claim[w] \subseteq mirror /\ mode # "down" /\ w \notin acks
  BY DEF Stored, IndInv, ClaimsAreExclusive, ActiveWriters, QueueIsNew, AckQueue,
         MirrorFollowsOutbox, TypeOK
<1>1. TypeOK'
  BY SpoolAssumption DEF IndInv, TypeOK, ActiveWriters, AckQueue
<1>2. AckedIsDurable' /\ PublishedIsStored'
  BY DEF IndInv, TypeOK, AckedIsDurable, PublishedIsStored, Stored, TicketsAreQueued
<1>3. MirrorFollowsOutbox'
  <2>1. Completed(acks)' = Completed(acks)
    BY <1>0 DEF Completed, Claimed, IndInv, TypeOK
  <2> QED
    BY <2>1 DEF IndInv, TypeOK, MirrorFollowsOutbox
<1>4. QueueIsNew'
  BY DEF IndInv, TypeOK, QueueIsNew, AckQueue, ActiveWriters, Functional, SamePath
<1>5. ClaimsAreExclusive'
  BY DEF IndInv, TypeOK, ClaimsAreExclusive, ExclusiveClaims, ActiveWriters, Stored
<1>6. TicketsAreQueued'
  BY DEF IndInv, TypeOK, TicketsAreQueued, Functional, Stored
<1>7. LedgerIsExact'
  <2>1. FinalRecords => claim[w] \subseteq ledger
    BY <1>0 DEF IndInv, LedgerIsExact
  <2> QED
    BY <1>0, <2>1 DEF IndInv, LedgerIsExact, Functional
<1> QED
  BY <1>1, <1>2, <1>3, <1>4, <1>5, <1>6, <1>7 DEF IndInv

LEMMA WriteErrorInv == ASSUME SpoolAssumption, IndInv, NEW w \in Worker, WriteError(w)
                       PROVE  IndInv'
<1> USE DEF WriteError, durable, index, owner, workers, producers
<1>0. /\ Stored \subseteq Stored' /\ Stored' \subseteq Stored \cup claim[w]
      /\ claim[w] \subseteq mirror /\ mode # "down" /\ w \notin acks
  BY DEF Stored, IndInv, ClaimsAreExclusive, ActiveWriters, QueueIsNew, AckQueue,
         MirrorFollowsOutbox, TypeOK
<1>1. TypeOK'
  BY SpoolAssumption DEF IndInv, TypeOK, ActiveWriters, AckQueue
<1>2. AckedIsDurable' /\ PublishedIsStored'
  BY DEF IndInv, TypeOK, AckedIsDurable, PublishedIsStored, Stored, TicketsAreQueued
<1>3. MirrorFollowsOutbox'
  <2>1. Completed(acks)' = Completed(acks)
    BY <1>0 DEF Completed, Claimed, IndInv, TypeOK
  <2> QED
    BY <2>1 DEF IndInv, TypeOK, MirrorFollowsOutbox
<1>4. QueueIsNew'
  BY DEF IndInv, TypeOK, QueueIsNew, AckQueue, ActiveWriters, Functional, SamePath
<1>5. ClaimsAreExclusive'
  BY DEF IndInv, TypeOK, ClaimsAreExclusive, ExclusiveClaims, ActiveWriters, Stored
<1>6. TicketsAreQueued'
  BY DEF IndInv, TypeOK, TicketsAreQueued, Functional, Stored
<1>7. LedgerIsExact'
  <2>1. FinalRecords => claim[w] \subseteq ledger
    BY <1>0 DEF IndInv, LedgerIsExact
  <2> QED
    BY <1>0, <2>1 DEF IndInv, LedgerIsExact, Functional
<1> QED
  BY <1>1, <1>2, <1>3, <1>4, <1>5, <1>6, <1>7 DEF IndInv

LEMMA PostAckInv == ASSUME SpoolAssumption, IndInv, NEW w \in Worker, PostAck(w)
                    PROVE  IndInv'
<1> USE DEF PostAck, durable, index, owner, workers, producers
<1>1. TypeOK'
  BY SpoolAssumption DEF IndInv, TypeOK, ActiveWriters, AckQueue
<1>2. AckedIsDurable' /\ PublishedIsStored'
  BY DEF IndInv, TypeOK, AckedIsDurable, PublishedIsStored, Stored, TicketsAreQueued
<1>3. MirrorFollowsOutbox'
  BY DEF IndInv, TypeOK, MirrorFollowsOutbox, Completed, Claimed
<1>4. QueueIsNew'
  BY DEF IndInv, TypeOK, QueueIsNew, AckQueue, ActiveWriters, Functional, SamePath
<1>5. ClaimsAreExclusive'
  BY DEF IndInv, TypeOK, ClaimsAreExclusive, ExclusiveClaims, ActiveWriters, Stored
<1>6. TicketsAreQueued'
  BY DEF IndInv, TypeOK, TicketsAreQueued, Functional, Stored
<1>7. LedgerIsExact'
  BY DEF IndInv, TypeOK, LedgerIsExact, Functional, Stored
<1> QED
  BY <1>1, <1>2, <1>3, <1>4, <1>5, <1>6, <1>7 DEF IndInv

LEMMA WorkerExitInv == ASSUME SpoolAssumption, IndInv, NEW w \in Worker, WorkerExit(w)
                       PROVE  IndInv'
<1> USE DEF WorkerExit, durable, index, owner, workers, producers
<1>1. TypeOK'
  BY SpoolAssumption DEF IndInv, TypeOK, ActiveWriters, AckQueue
<1>2. AckedIsDurable' /\ PublishedIsStored'
  BY DEF IndInv, TypeOK, AckedIsDurable, PublishedIsStored, Stored, TicketsAreQueued
<1>3. MirrorFollowsOutbox'
  BY DEF IndInv, TypeOK, MirrorFollowsOutbox, Completed, Claimed
<1>4. QueueIsNew'
  BY DEF IndInv, TypeOK, QueueIsNew, AckQueue, ActiveWriters, Functional, SamePath
<1>5. ClaimsAreExclusive'
  BY DEF IndInv, TypeOK, ClaimsAreExclusive, ExclusiveClaims, ActiveWriters, Stored
<1>6. TicketsAreQueued'
  BY DEF IndInv, TypeOK, TicketsAreQueued, Functional, Stored
<1>7. LedgerIsExact'
  BY DEF IndInv, TypeOK, LedgerIsExact, Functional, Stored
<1> QED
  BY <1>1, <1>2, <1>3, <1>4, <1>5, <1>6, <1>7 DEF IndInv

LEMMA BackoffElapsedInv == ASSUME SpoolAssumption, IndInv, NEW group \in cooling, BackoffElapsed(group)
                           PROVE  IndInv'
<1> USE DEF BackoffElapsed, durable, index, owner, workers, producers
<1>1. TypeOK'
  BY SpoolAssumption DEF IndInv, TypeOK, ActiveWriters, AckQueue
<1>2. AckedIsDurable' /\ PublishedIsStored'
  BY DEF IndInv, TypeOK, AckedIsDurable, PublishedIsStored, Stored, TicketsAreQueued
<1>3. MirrorFollowsOutbox'
  BY DEF IndInv, TypeOK, MirrorFollowsOutbox, Completed, Claimed
<1>4. QueueIsNew'
  BY DEF IndInv, TypeOK, QueueIsNew, AckQueue, ActiveWriters, Functional, SamePath
<1>5. ClaimsAreExclusive'
  BY DEF IndInv, TypeOK, ClaimsAreExclusive, ExclusiveClaims, ActiveWriters, Stored
<1>6. TicketsAreQueued'
  BY DEF IndInv, TypeOK, TicketsAreQueued, Functional, Stored
<1>7. LedgerIsExact'
  BY DEF IndInv, TypeOK, LedgerIsExact, Functional, Stored
<1> QED
  BY <1>1, <1>2, <1>3, <1>4, <1>5, <1>6, <1>7 DEF IndInv

LEMMA CloseInv == ASSUME SpoolAssumption, IndInv, Close
                  PROVE  IndInv'
<1> USE DEF Close, durable, index, owner, workers, producers
<1>1. TypeOK'
  BY SpoolAssumption DEF IndInv, TypeOK, ActiveWriters, AckQueue
<1>2. AckedIsDurable' /\ PublishedIsStored'
  BY DEF IndInv, TypeOK, AckedIsDurable, PublishedIsStored, Stored, TicketsAreQueued
<1>3. MirrorFollowsOutbox'
  BY DEF IndInv, TypeOK, MirrorFollowsOutbox, Completed, Claimed
<1>4. QueueIsNew'
  BY DEF IndInv, TypeOK, QueueIsNew, AckQueue, ActiveWriters, Functional, SamePath
<1>5. ClaimsAreExclusive'
  BY DEF IndInv, TypeOK, ClaimsAreExclusive, ExclusiveClaims, ActiveWriters, Stored
<1>6. TicketsAreQueued'
  BY DEF IndInv, TypeOK, TicketsAreQueued, Functional, Stored
<1>7. LedgerIsExact'
  BY DEF IndInv, TypeOK, LedgerIsExact, Functional, Stored
<1> QED
  BY <1>1, <1>2, <1>3, <1>4, <1>5, <1>6, <1>7 DEF IndInv

LEMMA LoseMemoryInv == ASSUME SpoolAssumption, IndInv, LoseMemory
                       PROVE  IndInv'
<1> USE DEF LoseMemory, durable, index, owner, workers, producers
<1>1. TypeOK'
  BY SpoolAssumption DEF IndInv, TypeOK, ActiveWriters, AckQueue
<1>2. AckedIsDurable' /\ PublishedIsStored'
  BY DEF IndInv, TypeOK, AckedIsDurable, PublishedIsStored, Stored, TicketsAreQueued
<1>3. MirrorFollowsOutbox'
  BY DEF IndInv, TypeOK, MirrorFollowsOutbox, Completed, Claimed
<1>4. QueueIsNew'
  BY DEF IndInv, TypeOK, QueueIsNew, AckQueue, ActiveWriters, Functional, SamePath
<1>5. ClaimsAreExclusive'
  BY DEF IndInv, TypeOK, ClaimsAreExclusive, ExclusiveClaims, ActiveWriters, Stored
<1>6. TicketsAreQueued'
  BY DEF IndInv, TypeOK, TicketsAreQueued, Functional, Stored
<1>7. LedgerIsExact'
  BY DEF IndInv, TypeOK, LedgerIsExact, Functional, Stored
<1> QED
  BY <1>1, <1>2, <1>3, <1>4, <1>5, <1>6, <1>7 DEF IndInv

LEMMA StartInv == ASSUME SpoolAssumption, IndInv, Start
                  PROVE  IndInv'
<1> USE DEF Start, durable, index, owner, workers, producers, LedgerAtStart, PublishedAtStart
<1>1. TypeOK'
  BY SpoolAssumption DEF IndInv, TypeOK, ActiveWriters, MirrorFollowsOutbox
<1>2. AckedIsDurable' /\ PublishedIsStored'
  <2>1. CASE FinalRecords
    BY <2>1 DEF IndInv, AckedIsDurable, PublishedIsStored, Stored, LedgerIsExact,
                SamePath
  <2>2. CASE ~ FinalRecords
    BY <2>2 DEF IndInv, AckedIsDurable, PublishedIsStored, Stored
  <2> QED
    BY <2>1, <2>2
<1>3. MirrorFollowsOutbox'
  BY DEF IndInv, TypeOK, MirrorFollowsOutbox, Completed, Claimed
<1>4. QueueIsNew'
  BY DEF IndInv, TypeOK, QueueIsNew, MirrorFollowsOutbox, AckQueue, ActiveWriters,
         Functional, SamePath
<1>5. ClaimsAreExclusive'
  BY DEF IndInv, TypeOK, ClaimsAreExclusive, ExclusiveClaims, ActiveWriters, Stored
<1>6. TicketsAreQueued'
  BY DEF IndInv, TypeOK, TicketsAreQueued, Functional, Stored
<1>7. LedgerIsExact'
  BY DEF IndInv, TypeOK, LedgerIsExact, Functional, Stored
<1> QED
  BY <1>1, <1>2, <1>3, <1>4, <1>5, <1>6, <1>7 DEF IndInv

LEMMA StutterInv == ASSUME IndInv, UNCHANGED vars PROVE IndInv'
<1> USE DEF vars, durable, index, owner, workers, producers
<1>1. TypeOK'
  BY DEF IndInv, TypeOK, ActiveWriters
<1>2. AckedIsDurable' /\ PublishedIsStored'
  BY DEF IndInv, AckedIsDurable, PublishedIsStored, Stored
<1>3. MirrorFollowsOutbox'
  BY DEF IndInv, MirrorFollowsOutbox, Completed, Claimed
<1>4. QueueIsNew'
  BY DEF IndInv, QueueIsNew, AckQueue, ActiveWriters, Functional, SamePath
<1>5. ClaimsAreExclusive'
  BY DEF IndInv, ClaimsAreExclusive, ExclusiveClaims, ActiveWriters, Stored
<1>6. TicketsAreQueued'
  BY DEF IndInv, TicketsAreQueued, Functional, Stored
<1>7. LedgerIsExact'
  BY DEF IndInv, LedgerIsExact, Functional, Stored
<1> QED
  BY <1>1, <1>2, <1>3, <1>4, <1>5, <1>6, <1>7 DEF IndInv

LEMMA NextInv == ASSUME SpoolAssumption, IndInv, [Next]_vars PROVE IndInv'
<1>1. CASE OwnerNext \/ OwnerFail
  BY <1>1, SpoolAssumption, OwnerBeginInv, OwnerDrainInv, OwnerCommitInv,
     OwnerPublishInv, OwnerFailInv DEF OwnerNext
<1>2. CASE \E p \in Producer : ProducerNext(p)
  BY <1>2, SpoolAssumption, CallInv, AdmitInv, RefuseInv, ReturnInv
     DEF ProducerNext
<1>3. CASE \E w \in Worker : WorkerNext(w)
  BY <1>3, SpoolAssumption, WorkerClaimInv, WriteOkInv, WriteErrorInv, PostAckInv,
     WorkerExitInv DEF WorkerNext
<1>4. CASE \E group \in cooling : BackoffElapsed(group)
  BY <1>4, SpoolAssumption, BackoffElapsedInv
<1>5. CASE ProcessNext
  BY <1>5, SpoolAssumption, CloseInv, LoseMemoryInv, StartInv
     DEF ProcessNext, Shutdown, Crash
<1>6. CASE UNCHANGED vars
  BY <1>6, StutterInv
<1> QED
  BY <1>1, <1>2, <1>3, <1>4, <1>5, <1>6 DEF Next

(* The invariant holds in every run of the spool.                          *)
THEOREM SpoolInvariant == Spec => []IndInv
<1>1. Init => IndInv
  BY InitInv
<1>2. IndInv /\ [Next]_vars => IndInv'
  BY NextInv, SpoolAssumption
<1> QED
  BY <1>1, <1>2, PTL DEF Spec

(* Variables keep their types, whatever the number of threads and runs.    *)
THEOREM TypeCorrect == Spec => []TypeOK
<1>1. IndInv => TypeOK
  BY DEF IndInv
<1> QED
  BY <1>1, SpoolInvariant, PTL

(* An acknowledged row is never lost: enqueue_many returns only for rows   *)
(* that SQLite or the cloud holds, through every crash and failure.        *)
THEOREM Durability == Spec => []AckedIsDurable
<1>1. IndInv => AckedIsDurable
  BY DEF IndInv
<1> QED
  BY <1>1, SpoolInvariant, PTL

(* The publication ledger that downstream stages read never runs ahead of  *)
(* the cloud.                                                              *)
THEOREM PublicationExact == Spec => []PublishedIsStored
<1>1. IndInv => PublishedIsStored
  BY DEF IndInv
<1> QED
  BY <1>1, SpoolInvariant, PTL

(* No two cloud writers ever hold the same row.                            *)
THEOREM ClaimExclusion == Spec => []ExclusiveClaims
<1>1. IndInv => ExclusiveClaims
  BY DEF IndInv, ClaimsAreExclusive
<1> QED
  BY <1>1, SpoolInvariant, PTL

(* The owner's INSERT never meets an existing primary key, so a legal call *)
(* sequence cannot fail-stop the spool.                                    *)
THEOREM NoKeyConflict == Spec => []InsertsAreNew
<1>1. ASSUME IndInv, opc = "open", NEW u \in batch
      PROVE  ~ SamePath(u, outbox) /\ ~ SamePath(u, ledger)
  <2>1. u \in queue /\ mode # "down"
    BY <1>1 DEF IndInv, QueueIsNew, MirrorFollowsOutbox
  <2>2. outbox = mirror
    BY <1>1, <2>1 DEF IndInv, MirrorFollowsOutbox
  <2>3. ledger = {} \/ ledger = known
    BY <1>1, <2>1 DEF IndInv, LedgerIsExact
  <2>4. ~ SamePath(u, mirror) /\ ~ SamePath(u, known)
    BY <1>1, <2>1 DEF IndInv, QueueIsNew
  <2>5. ~ SamePath(u, {})
    BY DEF SamePath
  <2> QED
    BY <2>2, <2>3, <2>4, <2>5
<1>2. IndInv => InsertsAreNew
  BY <1>1 DEF InsertsAreNew
<1> QED
  BY <1>2, SpoolInvariant, PTL

(* flush_checkpoint is a barrier: once no row of a shard is queued or      *)
(* mirrored, its acknowledged rows are in the cloud and no write of one is *)
(* running or can start.                                                   *)
THEOREM BarrierIsSound == Spec => []BarrierSound
<1>1. ASSUME IndInv, mode = "running", NEW s, BarrierOpen(s)
      PROVE  /\ ShardRows(s, acked) \subseteq Stored
             /\ \A w \in ActiveWriters : ShardRows(s, claim[w]) = {}
             /\ ShardRows(s, outbox) = {}
  <2>1. outbox \subseteq mirror \cup queue
    BY <1>1 DEF IndInv, MirrorFollowsOutbox, QueueIsNew
  <2>2. ShardRows(s, outbox) = {}
    BY <1>1, <2>1 DEF BarrierOpen, ShardRows
  <2>3. ShardRows(s, acked) \subseteq Stored
    BY <1>1, <2>2 DEF IndInv, AckedIsDurable, ShardRows
  <2>4. \A w \in ActiveWriters : ShardRows(s, claim[w]) = {}
    BY <1>1 DEF IndInv, ClaimsAreExclusive, BarrierOpen, ShardRows
  <2> QED
    BY <2>2, <2>3, <2>4
<1>2. IndInv => BarrierSound
  BY <1>1 DEF BarrierSound
<1> QED
  BY <1>2, SpoolInvariant, PTL

(* A final record path has one body in the tables and in the cloud.        *)
THEOREM OneBody == Spec => []OneBodyPerPath
<1>1. IndInv => OneBodyPerPath
  BY DEF IndInv, LedgerIsExact, OneBodyPerPath, Functional
<1> QED
  BY <1>1, SpoolInvariant, PTL

(* When the owner is gone nobody waits for it.                             *)
THEOREM NoWaiterStranded == Spec => []NobodyStranded
<1>1. IndInv => NobodyStranded
  BY DEF IndInv, NobodyStranded, QueueIsNew, TicketsAreQueued
<1> QED
  BY <1>1, SpoolInvariant, PTL

(* A final record that was accepted and has left the outbox never enters   *)
(* it again, and acceptance is never forgotten.                            *)
THEOREM CompletionIsFinal == Spec => CompletedStaysCompleted
<1> DEFINE Kept == FinalRecords => /\ ledger \subseteq ledger'
                                   /\ outbox' \cap (ledger \ outbox) = {}
<1>1. IndInv /\ InsertsAreNew /\ [Next]_vars => Kept
  <2> SUFFICES ASSUME IndInv, InsertsAreNew, [Next]_vars, FinalRecords PROVE Kept
    OBVIOUS
  <2>1. CASE OwnerCommit
    BY <2>1 DEF OwnerCommit, InsertsAreNew, SamePath
  <2>2. CASE Start
    BY <2>2 DEF Start, LedgerAtStart
  <2>3. CASE UNCHANGED <<outbox, ledger>>
    BY <2>3
  <2>4. OwnerCommit \/ Start \/ UNCHANGED <<outbox, ledger>>
    BY DEF Next, OwnerNext, OwnerBegin, OwnerDrain, OwnerPublish, OwnerFail,
           ProducerNext, Call, Admit, Refuse, Return, WorkerNext, WorkerClaim,
           WriteOk, WriteError, PostAck, WorkerExit, BackoffElapsed, ProcessNext,
           Close, Shutdown, Crash, LoseMemory, vars, durable
  <2> QED
    BY <2>1, <2>2, <2>3, <2>4
<1>2. IndInv /\ InsertsAreNew /\ [Next]_vars => [Kept]_vars
  BY <1>1
<1> QED
  BY <1>2, SpoolInvariant, NoKeyConflict, PTL DEF Spec, CompletedStaysCompleted

(* Every step of the spool is a step of the durable outbox, or none.       *)
LEMMA StepImplementsOutbox ==
  ASSUME IndInv, [Next]_vars
  PROVE  [Outbox!Next]_(Outbox!outboxVars)
<1> DEFINE Same == UNCHANGED <<acked, outbox, Stored>>
<1> USE DEF Outbox!Next, Outbox!outboxVars
<1>1. CASE OwnerCommit
  <2>1. batch \in SUBSET Unit /\ Completed(acks) \in SUBSET Stored
    BY TransactionFacts DEF IndInv, TypeOK
  <2>2. Outbox!Transact(batch, Completed(acks))
    BY <1>1, <2>1 DEF OwnerCommit, Outbox!Transact, Stored
  <2> QED
    BY <2>1, <2>2
<1>2. ASSUME NEW p \in Producer, Return(p)
      PROVE  \E r \in SUBSET (outbox \cup Stored) : Outbox!Promise(r)
  <2>1. rows[p] \in SUBSET (outbox \cup Stored)
    BY <1>2 DEF IndInv, TypeOK, TicketsAreQueued, Return
  <2>2. Outbox!Promise(rows[p])
    BY <1>2, <2>1 DEF Return, durable, Outbox!Promise, Stored
  <2> QED
    BY <2>1, <2>2
<1>3. ASSUME NEW w \in Worker, WriteOk(w) \/ WriteError(w)
      PROVE  Same \/ \E sent \in SUBSET outbox : Outbox!Deliver(sent)
  <2>1. w \in ActiveWriters \ acks
    BY <1>3 DEF WriteOk, WriteError, ActiveWriters, IndInv, TypeOK, QueueIsNew,
                AckQueue
  <2>2. claim[w] \in SUBSET outbox
    BY <2>1, TransactionFacts
       DEF IndInv, ClaimsAreExclusive, MirrorFollowsOutbox, QueueIsNew
  <2>3. CASE cloud' = cloud
    BY <1>3, <2>3 DEF WriteOk, WriteError, Stored
  <2>4. CASE cloud' = cloud \cup {claim[w]}
    <3>1. Stored' = Stored \cup claim[w]
      BY <2>4, StoredGrows
    <3>2. Outbox!Deliver(claim[w])
      BY <1>3, <2>2, <3>1 DEF WriteOk, WriteError, Outbox!Deliver
    <3> QED
      BY <2>2, <3>2
  <2> QED
    BY <1>3, <2>3, <2>4 DEF WriteOk, WriteError
<1>4. \/ OwnerCommit \/ Same
      \/ \E p \in Producer : Return(p)
      \/ \E w \in Worker : WriteOk(w) \/ WriteError(w)
  BY DEF Next, OwnerNext, OwnerBegin, OwnerDrain, OwnerPublish, OwnerFail,
         ProducerNext, Call, Admit, Refuse, WorkerNext, WorkerClaim, PostAck,
         WorkerExit, BackoffElapsed, ProcessNext, Close, Shutdown, Crash,
         LoseMemory, Start, vars, durable, Stored
<1> QED
  BY <1>1, <1>2, <1>3, <1>4

(* The spool implements the durable outbox: rows enter and leave the table *)
(* in transactions that drop only what the cloud holds, only durable rows  *)
(* are uploaded, and only safe rows are acknowledged.                      *)
THEOREM Refinement == Spec => ImplementsOutbox
<1>1. Init => Outbox!Init
  BY DEF Init, Outbox!Init, Stored
<1>2. IndInv /\ [Next]_vars => [Outbox!Next]_(Outbox!outboxVars)
  BY StepImplementsOutbox
<1> QED
  BY <1>1, <1>2, SpoolInvariant, PTL DEF Spec, ImplementsOutbox, Outbox!Spec

-----------------------------------------------------------------------------
(* The limit of the spool.                                                 *)

(* A finite set of at most MaxFiles rows.                                  *)
Small(rs) == IsFiniteSet(rs) /\ Cardinality(rs) <= MaxFiles

(* What a restart finds in the jobs table has to fit, too.                 *)
CapacityInv ==
  /\ Small(mirror \cup queue) /\ Small(outbox)
  /\ \A p \in Producer : IsFiniteSet(rows[p])

(* A part of a small set is small.                                         *)
LEMMA SmallPart ==
  ASSUME SpoolAssumption, NEW whole, NEW part, Small(whole), part \subseteq whole
  PROVE  Small(part)
  <1>1. IsFiniteSet(part) /\ Cardinality(part) <= Cardinality(whole)
    BY FS_Subset DEF Small
  <1>2. Cardinality(part) \in Nat /\ Cardinality(whole) \in Nat
    BY <1>1, FS_CardinalityType DEF Small
  <1> QED
    BY <1>1, <1>2 DEF Small, SpoolAssumption

(* Two finite sets have at most as many members together as one by one.    *)
LEMMA UnionBound ==
  ASSUME NEW S, NEW T, IsFiniteSet(S), IsFiniteSet(T)
  PROVE  /\ IsFiniteSet(S \cup T)
         /\ Cardinality(S) \in Nat /\ Cardinality(T) \in Nat /\ Cardinality(S \cup T) \in Nat
         /\ Cardinality(S \cup T) <= Cardinality(S) + Cardinality(T)
  <1>1. /\ IsFiniteSet(S \cup T)
        /\ Cardinality(S \cup T) = Cardinality(S) + Cardinality(T) - Cardinality(S \cap T)
    BY FS_Union
  <1>2. IsFiniteSet(S \cap T)
    BY FS_Subset
  <1>3. /\ Cardinality(S) \in Nat /\ Cardinality(T) \in Nat
        /\ Cardinality(S \cup T) \in Nat /\ Cardinality(S \cap T) \in Nat
    BY <1>1, <1>2, FS_CardinalityType
  <1> QED
    BY <1>1, <1>3

(* A call is admitted if its new rows fit beside all that wait.            *)
LEMMA AdmitFits ==
  ASSUME SpoolAssumption, CapacityInv, NEW p \in Producer, Admit(p)
  PROVE  Small(mirror' \cup queue')
  <1>1. IsFiniteSet(mirror) /\ IsFiniteSet(queue)
    BY FS_Subset DEF CapacityInv, Small
  <1>2. IsFiniteSet(NewRows(p))
    <2>1. NewRows(p) \subseteq rows[p]
      BY DEF NewRows, NewRowsOf
    <2> QED
      BY <2>1, FS_Subset DEF CapacityInv
  <1>3. mirror' \cup queue' = mirror \cup (queue \cup NewRows(p))
    BY DEF Admit
  <1>4. /\ IsFiniteSet(queue \cup NewRows(p))
        /\ Cardinality(queue) \in Nat /\ Cardinality(NewRows(p)) \in Nat
        /\ Cardinality(queue \cup NewRows(p)) \in Nat
        /\ Cardinality(queue \cup NewRows(p)) <= Cardinality(queue) + Cardinality(NewRows(p))
    BY <1>1, <1>2, UnionBound
  <1>5. /\ IsFiniteSet(mirror' \cup queue')
        /\ Cardinality(mirror) \in Nat /\ Cardinality(mirror' \cup queue') \in Nat
        /\ Cardinality(mirror' \cup queue') <= Cardinality(mirror) + Cardinality(queue \cup NewRows(p))
    BY <1>1, <1>3, <1>4, UnionBound
  <1>6. Cardinality(mirror) + Cardinality(queue) + Cardinality(NewRows(p)) <= MaxFiles
    BY DEF Admit, Fits
  <1> QED
    BY <1>4, <1>5, <1>6 DEF Small, SpoolAssumption

(* No other step of the spool makes what waits larger; a restart reads     *)
(* what waits from the jobs table.                                         *)
LEMMA WaitingShrinks ==
  ASSUME IndInv, [Next]_vars, \A p \in Producer : ~ Admit(p)
  PROVE  \/ mirror' \cup queue' \subseteq mirror \cup queue
         \/ mirror' \cup queue' = outbox
  <1> USE DEF index, owner, workers, producers, durable
  <1>1. CASE OwnerNext \/ OwnerFail
    <2>1. batch \subseteq queue
      BY DEF IndInv, QueueIsNew
    <2> QED
      BY <1>1, <2>1 DEF OwnerNext, OwnerBegin, OwnerDrain, OwnerCommit, OwnerPublish, OwnerFail, FailLocalQueue
  <1>2. CASE \E p \in Producer : ProducerNext(p)
    BY <1>2 DEF ProducerNext, Call, Refuse, Return
  <1>3. CASE \E w \in Worker : WorkerNext(w)
    BY <1>3 DEF WorkerNext, WorkerClaim, WriteOk, WriteError, PostAck, WorkerExit
  <1>4. CASE \E group \in cooling : BackoffElapsed(group)
    BY <1>4 DEF BackoffElapsed
  <1>5. CASE ProcessNext
    <2>1. CASE Start
      <3>1. queue = {}
        BY <2>1 DEF IndInv, MirrorFollowsOutbox, Start
      <3> QED
        BY <2>1, <3>1 DEF Start
    <2> QED
      BY <1>5, <2>1 DEF ProcessNext, Close, Shutdown, Crash, LoseMemory
  <1>6. CASE UNCHANGED vars
    BY <1>6 DEF vars
  <1> QED
    BY <1>1, <1>2, <1>3, <1>4, <1>5, <1>6 DEF Next

(* The jobs table grows by rows that waited for it.                        *)
LEMMA OutboxFollows ==
  ASSUME IndInv, [Next]_vars
  PROVE  outbox' \subseteq outbox \/ outbox' \subseteq mirror \cup queue
  <1> USE DEF index, owner, workers, producers, durable
  <1>1. CASE OwnerCommit
    <2>1. batch \subseteq queue
      BY DEF IndInv, QueueIsNew
    <2>2. outbox = mirror
      BY <1>1 DEF IndInv, MirrorFollowsOutbox, OwnerCommit
    <2> QED
      BY <1>1, <2>1, <2>2 DEF OwnerCommit
  <1>2. CASE ~ OwnerCommit
    BY <1>2 DEF Next, OwnerNext, OwnerBegin, OwnerDrain, OwnerPublish, OwnerFail,
           ProducerNext, Call, Admit, Refuse, Return, WorkerNext, WorkerClaim,
           WriteOk, WriteError, PostAck, WorkerExit, BackoffElapsed, ProcessNext,
           Close, Shutdown, Crash, LoseMemory, Start, vars
  <1> QED
    BY <1>1, <1>2

(* Calls are finite.                                                       *)
LEMMA RowsFinite ==
  ASSUME SpoolAssumption, IndInv, CapacityInv, [Next]_vars
  PROVE  \A p \in Producer : IsFiniteSet(rows'[p])
  <1> SUFFICES ASSUME NEW p \in Producer PROVE IsFiniteSet(rows'[p])
    OBVIOUS
  <1>1. rows'[p] = {} \/ rows'[p] = rows[p] \/ rows'[p] \in Requests
    <2>1. rows \in [Producer -> SUBSET Unit]
      BY DEF IndInv, TypeOK
    <2>2. CASE \E q \in Producer : ProducerNext(q)
      BY <2>1, <2>2 DEF ProducerNext, Call, Admit, Refuse, Return
    <2>3. CASE OwnerNext \/ OwnerFail
      BY <2>3 DEF OwnerNext, OwnerBegin, OwnerDrain, OwnerCommit, OwnerPublish, OwnerFail,
                  FailLocalQueue, producers
    <2>4. CASE ProcessNext
      BY <2>4 DEF ProcessNext, Close, Shutdown, Crash, LoseMemory, Start, producers
    <2>5. CASE \/ \E w \in Worker : WorkerNext(w)
               \/ \E group \in cooling : BackoffElapsed(group)
               \/ UNCHANGED vars
      BY <2>5 DEF WorkerNext, WorkerClaim, WriteOk, WriteError, PostAck, WorkerExit,
                  BackoffElapsed, producers, vars
    <2> QED
      BY <2>2, <2>3, <2>4, <2>5 DEF Next
  <1> QED
    BY <1>1, FS_EmptySet DEF CapacityInv, SpoolAssumption

(* The limit is kept by every step.                                        *)
LEMMA CapacityStep ==
  ASSUME SpoolAssumption, IndInv, CapacityInv, [Next]_vars
  PROVE  CapacityInv'
  <1>1. Small(mirror' \cup queue')
    <2>1. CASE \E p \in Producer : Admit(p)
      BY <2>1, AdmitFits
    <2>2. CASE \A p \in Producer : ~ Admit(p)
      BY <2>2, WaitingShrinks, SmallPart DEF CapacityInv
    <2> QED
      BY <2>1, <2>2
  <1>2. Small(outbox')
    BY OutboxFollows, SmallPart DEF CapacityInv
  <1>3. \A p \in Producer : IsFiniteSet(rows'[p])
    BY RowsFinite
  <1> QED
    BY <1>1, <1>2, <1>3 DEF CapacityInv, Small

(* Rows that wait for a commit, are being committed or wait for the cloud  *)
(* never exceed max_files, for any numbers of producers and workers.       *)
THEOREM CapacityKept == Spec => []Capacity
  <1>1. Init => CapacityInv
    <2>1. IsFiniteSet({}) /\ Cardinality({}) = 0
      BY FS_EmptySet
    <2> QED
      BY <2>1, SpoolAssumption DEF Init, CapacityInv, Small, SpoolAssumption
  <1>2. IndInv /\ CapacityInv /\ [Next]_vars => CapacityInv'
    BY CapacityStep, SpoolAssumption
  <1>3. CapacityInv => Capacity
    BY DEF CapacityInv, Small, Capacity
  <1> QED
    BY <1>1, <1>2, <1>3, SpoolInvariant, PTL DEF Spec
=============================================================================
