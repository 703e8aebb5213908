---------------------------- MODULE ContactStages ----------------------------
(***************************************************************************)
(* The contact stages of one record in scripts/annotate_videos.py: STA and *)
(* CPA, which belong to one dependency group.  A paid answer proposes a    *)
(* contact, another reviews it, others choose its frame, its points, the   *)
(* verdict on the points, and a box in an earlier frame.  Each answer is   *)
(* kept in the checkpoint of its task, so that a failed attempt, or a new  *)
(* run with other --tasks, goes on where it was.  A key names the answers  *)
(* that lead to it only where the code puts their digests into it.         *)
(*                                                                         *)
(* Answers are numbered; asked[n] says what the n-th was asked about.  The *)
(* item of a segment is the tuple of its answers: proposal, review, frame, *)
(* initial points, verdict.  One segment with one contact is modelled; the *)
(* segments of a record share no unit.                                     *)
(***************************************************************************)
EXTENDS Integers, Sequences, FiniteSets, SequencesExt

CONSTANTS MaxRuns,  \* launches of the pipeline
          MaxFaults \* exceptions of an attempt, and malformed verdicts

ASSUME StagesAssumption == MaxRuns \in Nat \ {0} /\ MaxFaults \in Nat

Task == {"sta", "cpa"}
NoRecord == [proposal |-> 0, item |-> <<>>, from |-> "none"]

VARIABLES asked,     \* the answers: unit, what it is of, what it says
          units,     \* task -> the units of its checkpoint
          identity,  \* task -> the STA record in the identity of its checkpoint
          committed, \* task -> its record
          tracking,  \* tracking.json of the student questions: the CPA result it is of
          complete,  \* complete.json, likewise
          tasks,     \* --tasks of the run
          reuse,     \* --cpa-reuse-sta-root is given
          runs,
          needed,    \* tasks of this attempt
          pc,
          lane,      \* "sta", "cpa", or "review": CPA without points for STA
          cache,     \* sta_cache, 0 if empty
          recovered, \* proposal_recovered
          invalid,   \* invalid_segment is not None
          prefix,    \* the digest in contact_prefix
          item,      \* the answers of the segment so far
          sta,       \* the proposal in records['sta']
          faults

student == <<tracking, complete>>
disk == <<units, identity, committed, student>>
run == <<tasks, reuse, runs>>
work == <<needed, lane, cache, recovered, invalid, prefix, item, sta>>
vars == <<asked, disk, run, pc, work, faults>>

(* Which checkpoint a lane uses, and the name of its segment.              *)
Checkpoint == IF lane = "cpa" THEN "cpa" ELSE "sta"
Segment == [sta |-> "segment:sta", cpa |-> "segment:cpa", review |-> "segment:review"][lane]

Unit(u, k, x) == [unit |-> u, key |-> k, value |-> x]
Saved(t, u, k) == {e.value : e \in {d \in units[t] : d.unit = u /\ d.key = k}}

(* put: a unit is written once; another value under its key raises.        *)
Put(t, e) ==
  /\ Saved(t, e.unit, e.key) \subseteq {e.value}
  /\ units' = [units EXCEPT ![t] = @ \cup {e}]

Malformed(n) == asked[n].says = "malformed"
Accepts(n) == asked[n].says \in {"yes", "unboxed"}
Goto(where) == pc' = where

(* Whether the proposal of the segment is on record in the checkpoint.     *)
OnRecord == Saved(Checkpoint, "proposal", <<>>) \cup Saved(Checkpoint, "proposal:recovered", <<>>)

(* A paid answer about the first answers of the item.                      *)
Answer(u, of, says) ==
  asked' = Append(asked, [unit |-> u, of |-> of, says |-> says,
                          loan |-> u = "review" /\ Head(of) \notin OnRecord])
Fresh == Len(asked) + 1

-----------------------------------------------------------------------------
(* Checkpoints of an earlier version may hold a malformed proposal or      *)
(* review, and what was derived from it.                                   *)
Legacy ==
  LET old(p, r) == <<[unit |-> "proposal", of |-> <<>>, says |-> p, loan |-> FALSE],
                     [unit |-> "review", of |-> <<1>>, says |-> r, loan |-> FALSE],
                     [unit |-> "frame", of |-> <<1, 2>>, says |-> "yes", loan |-> FALSE]>>
      kept(t, n) ==
        {Unit("proposal", <<>>, 1)}
        \cup (IF n > 1 THEN {Unit("review", <<>>, 2), Unit("frame", <<>>, 3)} ELSE {})
        \cup (IF n > 1 /\ t = "sta" THEN {Unit("segment:sta", <<>>, <<1>>)} ELSE {})
        \cup (IF n > 2 THEN {Unit("segment:review", <<>>, <<1, 2, 3>>)} ELSE {})
      none == [t \in Task |-> {}]
  IN  {[asked |-> <<>>, units |-> none]}
      \cup {[asked |-> old(v[1], v[2]), units |-> [none EXCEPT ![t] = kept(t, n)]] :
              v \in {<<"malformed", "yes">>, <<"malformed", "malformed">>, <<"yes", "malformed">>},
              t \in Task, n \in 1 .. 2}
      \cup {[asked |-> old(v[1], v[2]), units |-> [none EXCEPT !["sta"] = kept("sta", 3)]] :
              v \in {<<"malformed", "yes">>, <<"yes", "malformed">>}}

(* Or an earlier run has committed STA, with or without a valid box.       *)
Earlier ==
  {[asked |-> <<[unit |-> "proposal", of |-> <<>>, says |-> "yes", loan |-> FALSE],
                [unit |-> "review", of |-> <<1>>, says |-> says, loan |-> FALSE],
                [unit |-> "frame", of |-> <<1, 2>>, says |-> "yes", loan |-> FALSE]>>,
    sta |-> [proposal |-> 1, item |-> <<1, 2, 3>>, from |-> "review"]] : says \in {"yes", "unboxed"}}

Init ==
  /\ \/ /\ \E old \in Legacy : asked = old.asked /\ units = old.units
        /\ committed = [t \in Task |-> NoRecord]
     \/ /\ \E old \in Earlier : /\ asked = old.asked
                                 /\ committed = [sta |-> old.sta, cpa |-> NoRecord]
        /\ units = [t \in Task |-> {}]
  /\ identity = [t \in Task |-> <<>>]
  /\ tracking = <<>> /\ complete = <<>> /\ tasks = {} /\ reuse = FALSE /\ runs = 0
  /\ needed = {} /\ pc = "down" /\ lane = "sta" /\ cache = 0 /\ recovered = FALSE
  /\ invalid = FALSE /\ prefix = <<>> /\ item = <<>> /\ sta = 0 /\ faults = 0

(* The memory of an attempt goes with it.                                  *)
Forget ==
  /\ cache' = 0 /\ sta' = 0 /\ recovered' = FALSE /\ invalid' = FALSE
  /\ prefix' = <<>> /\ item' = <<>>
Unbind == Forget /\ needed' = {} /\ lane' = "sta"

(* A launch, with tasks of its own.                                        *)
Start ==
  /\ pc \in {"down", "over"} /\ runs < MaxRuns
  /\ runs' = runs + 1 /\ Goto("begin")
  /\ tasks' \in (SUBSET Task) \ {{}} /\ reuse' \in (IF "cpa" \in tasks' THEN BOOLEAN ELSE {FALSE})
  /\ UNCHANGED <<asked, disk, work, faults>>

Crash ==
  /\ pc \notin {"down", "over"} /\ runs < MaxRuns /\ Goto("down") /\ Unbind
  /\ UNCHANGED <<asked, disk, run, faults>>

(* An exception ends the attempt; annotate_source_with_retries retries.    *)
Raise == Goto("raised") /\ Unbind /\ UNCHANGED <<asked, disk, run, faults>>

Exception ==
  /\ pc \notin {"down", "over", "begin", "raised"} /\ faults < MaxFaults
  /\ faults' = faults + 1 /\ Goto("raised") /\ Unbind
  /\ UNCHANGED <<asked, disk, run>>

Retry == pc = "raised" /\ Goto("begin") /\ UNCHANGED <<asked, disk, run, work, faults>>

Remaining == {t \in tasks : committed[t] = NoRecord}

(* annotation_checkpoint_for: units of another identity are set aside.     *)
Wanted(t) == IF t = "cpa" /\ reuse THEN committed["sta"].item ELSE <<>>
Open(t) == IF identity[t] = Wanted(t) THEN units[t] ELSE {}

(* sta_contact_index.find fails without a committed STA record.            *)
Found == reuse /\ "cpa" \in Remaining => committed["sta"] # NoRecord

Begin ==
  /\ pc = "begin" /\ Remaining # {} /\ Found
  /\ needed' = Remaining
  /\ units' = [t \in Task |-> IF t \in Remaining THEN Open(t) ELSE units[t]]
  /\ identity' = [t \in Task |-> IF t \in Remaining THEN Wanted(t) ELSE identity[t]]
  /\ lane' = IF "sta" \in Remaining THEN "sta" ELSE "cpa"
  /\ Goto(IF lane' = "cpa" /\ reuse THEN "seed" ELSE "lookup")
  /\ Forget
  /\ UNCHANGED <<asked, committed, student, run, faults>>

NothingToDo == pc = "begin" /\ Remaining = {} /\ Goto("over")
               /\ UNCHANGED <<asked, disk, run, work, faults>>
NotFound == pc = "begin" /\ ~ Found /\ Raise

-----------------------------------------------------------------------------
(* annotate_contact_segment: a cached segment is used unless its evidence  *)
(* is malformed or a recovered proposal has replaced its proposal.         *)
Sound(x) == ~ Malformed(x[1]) /\ (Len(x) > 1 => ~ Malformed(x[2]))
Current(x) == Saved(Checkpoint, "proposal:recovered", <<>>) \subseteq {x[1]}
Usable(x) == Sound(x) /\ Current(x)

UseSegment(k) ==
  \E x \in Saved(Checkpoint, Segment, k) :
    /\ Usable(x) /\ item' = x /\ cache' = x[1] /\ Goto("made")
    /\ UNCHANGED <<asked, disk, run, needed, lane, recovered, invalid, prefix, sta, faults>>

Lookup == pc = "lookup" /\ UseSegment(<<>>)

LookupFails ==
  /\ pc = "lookup" /\ \A x \in Saved(Checkpoint, Segment, <<>>) : ~ Usable(x)
  /\ invalid' = (Saved(Checkpoint, Segment, <<>>) # {}) /\ Goto("propose")
  /\ UNCHANGED <<asked, disk, run, needed, lane, cache, recovered, prefix, item, sta, faults>>

(* checked_unit: the recovered answer, or else the first one, if valid.    *)
Valid(u, k) == {x \in Saved(Checkpoint, u, k) : ~ Malformed(x)}
Recovered == [proposal |-> "proposal:recovered", review |-> "review:recovered"]
Cached(u, k) == IF Valid(Recovered[u], k) # {} THEN Valid(Recovered[u], k) ELSE Valid(u, k)
BadEvidence(u, k) == {x \in Saved(Checkpoint, u, k) : Malformed(x)} # {}
Destination(u, k) == IF BadEvidence(u, k) THEN Recovered[u] ELSE u

(* request_contact_unit for the proposal: a cached one, the one of the STA *)
(* lane, which is not saved here, or a new one.                            *)
Proposed(p, r) ==
  /\ item' = <<p>> /\ cache' = p /\ recovered' = r
  /\ Goto(IF r \/ invalid THEN "recheck" ELSE "review")
  /\ UNCHANGED <<identity, committed, student, run, needed, lane, invalid, prefix, sta, faults>>

Propose ==
  /\ pc = "propose"
  /\ \/ \E p \in Cached("proposal", <<>>) :
          Proposed(p, BadEvidence("proposal", <<>>)) /\ UNCHANGED <<asked, units>>
     \/ /\ Cached("proposal", <<>>) = {} /\ ~ BadEvidence("proposal", <<>>) /\ cache # 0
        /\ Proposed(cache, FALSE) /\ UNCHANGED <<asked, units>>
     \/ /\ Cached("proposal", <<>>) = {} /\ (cache = 0 \/ BadEvidence("proposal", <<>>))
        /\ Answer("proposal", <<>>, "yes")
        /\ Put(Checkpoint, Unit(Destination("proposal", <<>>), <<>>, Fresh))
        /\ Proposed(Fresh, BadEvidence("proposal", <<>>))

(* A segment made after an earlier recovery.                               *)
Recheck == pc = "recheck" /\ UseSegment(item)

RecheckFails ==
  /\ pc = "recheck" /\ \A x \in Saved(Checkpoint, Segment, item) : ~ Usable(x)
  /\ Goto("review")
  /\ UNCHANGED <<asked, disk, run, work, faults>>

(* The review; its key names the proposal only if that was recovered.      *)
ReviewKeyPlain == <<>> \* mutant
ReviewKey == IF recovered THEN <<item[1]>> ELSE <<>>

Reviewed(r) ==
  /\ item' = Append(item, r)
  /\ prefix' = IF recovered \/ BadEvidence("review", ReviewKey) THEN <<r>> ELSE <<>>
  /\ UNCHANGED <<identity, committed, student, run, needed, lane, cache, recovered, invalid, sta, faults>>

Review ==
  /\ pc = "review" /\ lane # "sta"
  /\ \/ \E r \in Cached("review", ReviewKey) :
          /\ Reviewed(r) /\ Goto(IF Accepts(r) THEN "frame" ELSE "store")
          /\ UNCHANGED <<asked, units>>
     \/ /\ Cached("review", ReviewKey) = {}
        /\ \E says \in {"yes", "no", "unboxed"} :
             Answer("review", item, says) /\ Goto(IF says = "no" THEN "store" ELSE "frame")
        /\ Put(Checkpoint, Unit(Destination("review", ReviewKey), ReviewKey, Fresh))
        /\ Reviewed(Fresh)

(* The STA lane ends with the proposal.                                    *)
ProposalOnly ==
  /\ pc = "review" /\ lane = "sta" /\ Goto("store")
  /\ UNCHANGED <<asked, disk, run, work, faults>>

(* refine_contact_frames.                                                  *)
FrameChosen(f, accepted) ==
  /\ item' = Append(item, f)
  /\ Goto(IF ~ accepted \/ lane = "review" THEN "store" ELSE "points")
  /\ UNCHANGED <<identity, committed, student, run, needed, lane, cache, recovered, invalid, prefix, sta, faults>>

Frame ==
  /\ pc = "frame"
  /\ \/ \E f \in Saved(Checkpoint, "frame", prefix) :
          FrameChosen(f, Accepts(f)) /\ UNCHANGED <<asked, units>>
     \/ /\ Saved(Checkpoint, "frame", prefix) = {}
        /\ \E says \in {"yes", "no"} :
             Answer("frame", item, says) /\ FrameChosen(Fresh, says = "yes")
        /\ Put(Checkpoint, Unit("frame", prefix, Fresh))

-----------------------------------------------------------------------------
(* add_sam3_points: the points are kept before they are reviewed.  A box   *)
(* of the review that is none makes the crop fail, unless the reuse of STA *)
(* has asked for another.                                                  *)
Boxed == asked[item[2]].says = "yes" \/ reuse

PointsCached ==
  /\ pc = "points"
  /\ \E x \in Saved("cpa", "points", prefix) : item' = item \o x
  /\ Goto("store")
  /\ UNCHANGED <<asked, disk, run, needed, lane, cache, recovered, invalid, prefix, sta, faults>>

NoCrop == pc = "points" /\ Saved("cpa", "points", prefix) = {} /\ ~ Boxed /\ Raise

Points ==
  /\ pc = "points" /\ Saved("cpa", "points", prefix) = {} /\ Boxed
  /\ \/ /\ \E i \in Saved("cpa", "initial", prefix) : item' = Append(item, i)
        /\ UNCHANGED <<asked, units>>
     \/ /\ Saved("cpa", "initial", prefix) = {}
        /\ Answer("initial", item, "yes") /\ item' = Append(item, Fresh)
        /\ Put("cpa", Unit("initial", prefix, Fresh))
  /\ Goto("verdict")
  /\ UNCHANGED <<identity, committed, student, run, needed, lane, cache, recovered, invalid, prefix, sta, faults>>

(* review_contact_points: every answer is kept under an index of its own,  *)
(* which counts those of earlier processes.                                *)
AttemptIndexFromOne == 0 \* mutant
AttemptIndex == Cardinality({e \in units["cpa"] : e.unit = "attempt" /\ Front(e.key) = prefix})

Verdict ==
  /\ pc = "verdict"
  /\ \E says \in {"yes", "malformed"} :
       /\ Answer("verdict", item, says)
       /\ \/ says = "yes" /\ item' = Append(item, Fresh) /\ Goto("keep") /\ UNCHANGED faults
          \/ /\ says = "malformed" /\ faults < MaxFaults /\ faults' = faults + 1
             /\ UNCHANGED <<item, pc>>
  /\ Put("cpa", Unit("attempt", Append(prefix, AttemptIndex), Fresh))
  /\ UNCHANGED <<identity, committed, student, run, needed, lane, cache, recovered, invalid, prefix, sta>>

KeepPoints ==
  /\ pc = "keep" /\ Put("cpa", Unit("points", prefix, SubSeq(item, 4, 5))) /\ Goto("store")
  /\ UNCHANGED <<asked, identity, committed, student, run, work, faults>>

(* The segment is kept, under the proposal if that was recovered; the      *)
(* reuse of STA keeps none.                                                *)
Store ==
  /\ pc = "store" /\ Goto("made")
  /\ IF lane = "cpa" /\ reuse THEN UNCHANGED units
     ELSE Put(Checkpoint, Unit(Segment, IF recovered \/ invalid THEN <<item[1]>> ELSE <<>>, item))
  /\ UNCHANGED <<asked, identity, committed, student, run, work, faults>>

(* complete_cpa_from_sta_final: the contact of the committed STA record; a *)
(* box is asked for if its review gave none.                               *)
Seed ==
  LET contact == committed["sta"].item
  IN  /\ pc = "seed" /\ item' = contact /\ prefix' = contact
      /\ IF Len(contact) = 3 /\ Accepts(contact[3]) THEN
           /\ Goto("points")
           /\ IF asked[contact[2]].says = "unboxed" /\ Saved("cpa", "reuse_bbox", contact) = {}
              THEN /\ Answer("reuse_bbox", contact, "yes")
                   /\ Put("cpa", Unit("reuse_bbox", contact, Fresh))
              ELSE UNCHANGED <<asked, units>>
         ELSE Goto("store") /\ UNCHANGED <<asked, units>>
      /\ UNCHANGED <<identity, committed, student, run, needed, lane, cache, recovered, invalid, sta, faults>>

-----------------------------------------------------------------------------
(* A lane has its item: the STA lane is followed by CPA, with points or,   *)
(* if the run does not ask for them, without.                              *)
NextLane ==
  /\ pc = "made" /\ lane = "sta" /\ sta' = item[1]
  /\ lane' = IF "cpa" \in needed THEN "cpa" ELSE "review"
  /\ Goto("lookup") /\ recovered' = FALSE /\ invalid' = FALSE /\ prefix' = <<>> /\ item' = <<>>
  /\ UNCHANGED <<asked, disk, run, needed, cache, faults>>

ReviewMade ==
  /\ pc = "made" /\ lane = "review" /\ Goto("sync")
  /\ UNCHANGED <<asked, disk, run, work, faults>>

(* CpaDownstream.annotate: the points are tracked back into earlier frames *)
(* and the tracks reviewed, for the student's questions.  tracking.json    *)
(* and complete.json answer for one CPA result, and fail for another.      *)
Result == [item |-> item, reused |-> reuse]
HasContact == Len(item) >= 3 /\ Accepts(item[3])
Mismatched == \/ complete \notin {<<>>, <<Result>>}
              \/ complete = <<>> /\ HasContact /\ tracking \notin {<<>>, <<Result>>}

Track ==
  /\ pc = "made" /\ lane = "cpa" /\ complete = <<>> /\ HasContact /\ tracking = <<>>
  /\ tracking' = <<Result>>
  /\ UNCHANGED <<asked, units, identity, committed, complete, run, pc, work, faults>>

Student ==
  /\ pc = "made" /\ lane = "cpa" /\ ~ Mismatched
  /\ complete = <<>> /\ HasContact => tracking = <<Result>>
  /\ complete' = <<Result>> /\ Goto("commitCpa")
  /\ UNCHANGED <<asked, units, identity, committed, tracking, run, work, faults>>

StudentMismatch == pc = "made" /\ lane = "cpa" /\ Mismatched /\ Raise

CommitCpa ==
  /\ pc = "commitCpa"
  /\ committed' = [committed EXCEPT !["cpa"] =
       [proposal |-> item[1], item |-> item, from |-> IF reuse THEN "sta" ELSE "cpa"]]
  /\ Goto(IF "sta" \in needed THEN "sync" ELSE "finish")
  /\ UNCHANGED <<asked, units, identity, student, run, work, faults>>

(* The contact of an item: its answers up to the frame.                    *)
Contact(x) == SubSeq(x, 1, IF Len(x) < 3 THEN Len(x) ELSE 3)

(* sync_sta_record: the proposals of STA aligned to the final contacts of  *)
(* CPA, with boxes in earlier frames; the whole is kept under the digest   *)
(* of the CPA result.                                                      *)
FinalKeyOfSta == <<sta>> \* mutant
FinalKey == item

BoxKeyOfRun == <<runs, sta>> \o item \* mutant
BoxKey == <<sta>> \o item

AskBox ==
  /\ pc = "sync" /\ Saved("sta", "final", FinalKey) = {} /\ HasContact
  /\ Saved("sta", "box", BoxKey) = {}
  /\ Answer("box", <<sta>> \o item, "yes") /\ Put("sta", Unit("box", BoxKey, Fresh))
  /\ UNCHANGED <<identity, committed, student, run, pc, work, faults>>

KeepFinal ==
  /\ pc = "sync" /\ Saved("sta", "final", FinalKey) = {}
  /\ HasContact => Saved("sta", "box", BoxKey) # {}
  /\ Put("sta", Unit("final", FinalKey, Contact(item)))
  /\ UNCHANGED <<asked, identity, committed, student, run, pc, work, faults>>

CommitSta ==
  /\ pc = "sync"
  /\ \E x \in Saved("sta", "final", FinalKey) :
       committed' = [committed EXCEPT !["sta"] = [proposal |-> sta, item |-> x, from |-> lane]]
  /\ Goto("finish")
  /\ UNCHANGED <<asked, units, identity, student, run, work, faults>>

(* The records of the attempt are durable: their checkpoints are cleared.  *)
Finish ==
  /\ pc = "finish" /\ Goto("over") /\ Unbind
  /\ units' = [t \in Task |-> IF t \in needed THEN {} ELSE units[t]]
  /\ UNCHANGED <<asked, identity, committed, student, run, faults>>

Advance ==
  \/ Retry \/ Begin \/ NothingToDo \/ NotFound \/ Lookup \/ LookupFails \/ Propose
  \/ Recheck \/ RecheckFails \/ Review \/ ProposalOnly \/ Frame \/ PointsCached \/ NoCrop
  \/ Points \/ Verdict \/ KeepPoints \/ Store \/ Seed \/ NextLane \/ ReviewMade \/ Track \/ Student
  \/ StudentMismatch \/ CommitCpa \/ AskBox \/ KeepFinal \/ CommitSta \/ Finish

Done == pc = "over" /\ UNCHANGED vars

Next == Start \/ Advance \/ Crash \/ Exception \/ Done

Spec == Init /\ [][Next]_vars

(* A process that is not killed goes on.                                   *)
FairSpec == Spec /\ WF_vars(Advance)
-----------------------------------------------------------------------------
TypeOK ==
  /\ \A n \in DOMAIN asked : asked[n].says \in {"yes", "no", "unboxed", "malformed"}
  /\ DOMAIN units = Task /\ DOMAIN identity = Task /\ DOMAIN committed = Task
  /\ Len(tracking) <= 1 /\ Len(complete) <= 1 /\ tasks \subseteq Task /\ reuse \in BOOLEAN /\ runs \in 0 .. MaxRuns
  /\ needed \subseteq Task /\ lane \in {"sta", "cpa", "review"}
  /\ {cache, sta} \subseteq 0 .. Len(asked) /\ recovered \in BOOLEAN /\ invalid \in BOOLEAN
  /\ faults \in 0 .. MaxFaults

(* Every answer of a committed item was asked about the answers before it, *)
(* through retries, other runs, recoveries and the reuse of STA.  The      *)
(* review is exempt if its proposal was on loan from the STA lane: a later *)
(* run of CPA alone asks for another proposal and finds that review under  *)
(* the same key, although the checkpoint's docstring promises otherwise.   *)
Coherent(x) ==
  /\ \A n \in 3 .. Len(x) : Tail(asked[x[n]].of) = Tail(SubSeq(x, 1, n - 1))
  /\ Len(x) > 1 => asked[x[2]].of = <<x[1]>> \/ asked[x[2]].loan

ItemCoherent == \A t \in Task : Coherent(committed[t].item)

(* "Fail before writing if STA and CPA disagree on any final contact       *)
(* frame": STA and CPA name the same contact if one attempt made both, or  *)
(* if CPA reused STA.  It says nothing of an STA record that is made after *)
(* CPA was committed, or of a CPA that did not reuse a committed STA.      *)
StaMatchesCpa ==
  \A s, c \in {committed["sta"], committed["cpa"]} :
    /\ s = committed["sta"] /\ c = committed["cpa"] /\ s # NoRecord /\ c # NoRecord
    /\ s.from = "cpa" \/ c.from = "sta"
    => s.item = Contact(c.item)

(* What a checkpoint holds is not asked, and paid for, again.              *)
Answers(e) == IF e.unit = "points" THEN {e.value[2]}
              ELSE IF e.unit \in {"final", "segment:sta", "segment:cpa", "segment:review", "attempt"}
                   THEN {} ELSE {e.value}

Held == UNION {Answers(e) : e \in units[IF pc = "sync" THEN "sta" ELSE Checkpoint]}

NoAnswerTwice ==
  [][Len(asked') > Len(asked) =>
       LET new == Last(asked')
       IN  \A n \in Held :
             asked[n].unit = new.unit /\ asked[n].of = new.of => Malformed(n)]_vars

(* A run commits what it was asked for, except where every attempt fails:  *)
(* the files of the student questions are of another result, there is no   *)
(* STA record to reuse, or the review gave no box and CPA has committed    *)
(* nothing.                                                                *)
Wedged ==
  \/ ~ Found
  \/ pc = "points" /\ Saved("cpa", "points", prefix) = {} /\ ~ Boxed
  \/ pc = "made" /\ lane = "cpa" /\ Mismatched

RecordEnded == pc = "down" \/ Remaining = {} \/ Wedged
=============================================================================
