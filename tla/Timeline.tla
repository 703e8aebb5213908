------------------------------ MODULE Timeline ------------------------------
(***************************************************************************)
(* The timeline of an episode: how the answer of an annotation service     *)
(* becomes contiguous subtasks (normalize_segments of las_subtask.py,      *)
(* vla_anno_to_subtasks and the chunks of annotate_videos.py), what        *)
(* validate_subtasks accepts, and which frames the later stages take from  *)
(* it: grounding anchors, the exact frame of a contact, and the earlier    *)
(* frames that show where a contact is going to be.                        *)
(*                                                                         *)
(* Times are integers of a tick that is the tolerance of comparisons       *)
(* (1e-6 s); a frame lasts Frame ticks.  The steps of a video have times,  *)
(* those of an image sequence have the indices of their first and last     *)
(* image.  Contacts are those of a video.                                  *)
(***************************************************************************)
EXTENDS Integers, Sequences, SequencesExt, FiniteSetsExt

CONSTANTS MaxContacts, \* contacts of an episode
          Text,        \* descriptions of subtasks
          Time,        \* times that answers name
          MaxSegments, \* segments of an answer
          Loaded,      \* results of earlier runs: sequences of steps
          Frames,      \* numbers of frames of the videos
          Images,      \* numbers of images of the sequences
          Frame, Half, \* ticks of a frame, and between two anchors (2 FPS)
          Seam,        \* ticks by which consecutive steps may differ (1e-4 s)
          Chunk,       \* ticks of the longest chunk a service takes
          Window, Offered,  \* around a proposed contact: ticks, and frames offered
          Lookback, Gap     \* of observations before a contact

TimelineAssumption ==
  /\ Frame \in Nat /\ Frame > 2 /\ Half \in Nat \ {0} /\ Chunk \in Nat \ {0}
  /\ Time \subseteq Int /\ Frames \subseteq Nat \ {0} /\ Images \subseteq Nat \ {0}
  /\ Seam \in Nat /\ Window \in Nat /\ Offered \in Nat \ {0}
  /\ Lookback \in Nat /\ Gap \in Nat /\ MaxSegments \in Nat /\ MaxContacts \in Nat
  /\ Loaded \subseteq Seq([from : Int, to : Int, text : Text])

(* In an earlier result, steps of one text that follow each other end      *)
(* after the first of them starts: what they overlap by is less than what  *)
(* they last (an assumption of the theorem on anchors).                    *)
LoadedForward ==
  \A list \in Loaded :
    (\A i \in 1 .. Len(list) : list[i].from < list[i].to) =>
      \A i, j \in 1 .. Len(list) :
        i <= j /\ (\A k \in i .. j : list[k].text = list[i].text) => list[i].from < list[j].to

VARIABLES video,   \* the media are a video, and not images
          count,   \* frames of the video, or images
          phase,   \* "asked", "answered", "accepted" or "rejected"
          exact,   \* the steps are those of an answer, not of an earlier result
          steps,   \* the subtasks
          contact, \* the contacts with a final frame
          query    \* an observation that was drawn: its contact and its frame

vars == <<video, count, phase, exact, steps, contact, query>>

NoQuery == [of |-> 0, frame |-> -1]

Init ==
  /\ video \in BOOLEAN /\ count \in IF video THEN Frames ELSE Images
  /\ phase = "asked" /\ exact = TRUE /\ steps = <<>>
  /\ contact = <<>> /\ query = NoQuery

Duration == count * Frame
Final == IF video THEN Duration ELSE count - 1

CeilDiv(a, b) == - ((- a) \div b)
RoundDiv(a, b) ==  \* halves to even
  LET q == a \div b  r == 2 * (a % b)
  IN  IF r < b \/ (r = b /\ q % 2 = 0) THEN q ELSE q + 1
Clamp(low, x, high) == Min({high, Max({low, x})})

Answers(most) == UNION {[1 .. n -> [at : Time, text : Text]] : n \in 1 .. most}
Step(from, to, text) == [from |-> from, to |-> to, text |-> text]

----------------------------------------------------------------------------
(* normalize_segments: segments are known by their start, sorted, and the  *)
(* last of those that start together is kept; each ends where the next     *)
(* starts.                                                                 *)
Sorted(a) ==
  LET rank(i) == Cardinality({j \in DOMAIN a : a[j].at < a[i].at \/ (a[j].at = a[i].at /\ j <= i)})
  IN  [k \in DOMAIN a |-> a[CHOOSE i \in DOMAIN a : rank(i) = k]]

Collapsed(a) ==
  LET kept[k \in 0 .. Len(a)] ==
        IF k = 0 THEN <<>>
        ELSE LET so == kept[k - 1]
             IN  IF so # <<>> /\ a[k].at - Last(so).at <= 1
                 THEN [so EXCEPT ![Len(so)] = a[k]] ELSE Append(so, a[k])
  IN  kept[Len(a)]

Boundary(t) == IF video THEN t ELSE RoundDiv(Final * t, Duration)

(* The end of the steps so far; a step from there to another end, unless   *)
(* that is not behind it by more than slack.                               *)
EndOf(kept) == IF kept = <<>> THEN 0 ELSE Last(kept).to
Extended(kept, end, text, slack) ==
  IF end < EndOf(kept) \/ (video /\ end <= EndOf(kept) + slack)
  THEN kept ELSE Append(kept, Step(EndOf(kept), end, text))

LasSteps(answer) ==
  LET s == Collapsed(Sorted([i \in DOMAIN answer |->
                               [answer[i] EXCEPT !.at = Clamp(0, @, Duration)]]))
      made[k \in 0 .. Len(s)] ==
        IF k = 0 THEN <<>>
        ELSE LET so == made[k - 1]
                 end == IF k = Len(s) THEN Final ELSE Max({EndOf(so), Boundary(s[k + 1].at)})
             IN  Extended(so, end, s[k].text, 0)
  IN  made[Len(s)]

----------------------------------------------------------------------------
(* vla_anno_to_subtasks: segments are known by their end, in any order; an *)
(* end that does not advance is left out, the last one is the end of the   *)
(* media.                                                                  *)
WithEnd(kept, end) == [kept EXCEPT ![Len(kept)].to = end]

OperatorSteps(answer, final) ==
  LET end(k) == IF k = Len(answer) THEN final ELSE Clamp(0, answer[k].at, final)
      made[k \in 0 .. Len(answer)] ==
        IF k = 0 THEN <<>> ELSE Extended(made[k - 1], end(k), answer[k].text, 1)
      kept == made[Len(answer)]
  IN  IF kept = <<>> THEN <<>> ELSE WithEnd(kept, final)

(* vla_chunk_ranges: balanced chunks, the last one takes the rest.         *)
Chunks ==
  IF Duration <= Chunk THEN <<Duration>>
  ELSE LET n == Max({2, CeilDiv(Duration, Chunk)})
       IN  [k \in 1 .. n |-> IF k = n THEN Duration - (n - 1) * (Duration \div n)
                                      ELSE Duration \div n]

(* merge_vla_chunk_results, of two chunks: the steps of the second one are *)
(* moved to the time of the source; equal neighbours are one.              *)
Merged(list) ==
  LET kept[k \in 0 .. Len(list)] ==
        IF k = 0 THEN <<>>
        ELSE LET so == kept[k - 1]
             IN  IF so # <<>> /\ Last(so).text = list[k].text
                 THEN WithEnd(so, list[k].to) ELSE Append(so, list[k])
  IN  kept[Len(list)]

Moved(list, by) ==
  [i \in DOMAIN list |-> [list[i] EXCEPT !.from = @ + by, !.to = @ + by]]

ChunkSteps(first, second) ==
  LET all == Merged(first \o Moved(second, Chunks[1]))
  IN  WithEnd([i \in DOMAIN all |-> [all[i] EXCEPT !.from = IF i = 1 THEN 0 ELSE all[i - 1].to]],
              Duration)

----------------------------------------------------------------------------
(* validate_subtasks.                                                      *)
Near(x, y, by) == x - y \in - by .. by
Slack == IF video THEN Seam ELSE 0

Valid(list) ==
  /\ list # <<>>
  /\ \A i \in DOMAIN list :
       /\ list[i].from >= 0
       /\ list[i].from <= list[i].to /\ (video => list[i].from # list[i].to)
       /\ i > 1 => Near(list[i].from, list[i - 1].to, Slack)
  /\ Near(list[1].from, 0, Slack)
  /\ Near(Last(list).to, Final, IF video THEN Half ELSE 0)

----------------------------------------------------------------------------
(* grd_anchor_times and grd_media_windows: the frames that are grounded    *)
(* for a step, in media that last until end.                               *)
Anchors(end) == {a \in {k * Half : k \in 0 .. CeilDiv(end, Half)} : a < end}
AnchorsUpTo(s, end) == {a \in Anchors(end) : s.from <= a /\ a <= Min({s.to, end})}
AnchorsOf(s, end) == {a \in Anchors(end) : s.from <= a /\ a < Min({s.to, end})}
ImagesOf(s) == s.from .. s.to

(* subtask_at_time and subtask_at_media_index: the number of the step.     *)
StepAt(t) ==
  LET on == {i \in DOMAIN steps : /\ steps[i].from <= t
                                  /\ \/ t < steps[i].to
                                     \/ t = steps[i].to /\ (video => i = Len(steps))}
  IN  IF on = {} THEN 0 ELSE Min(on)

----------------------------------------------------------------------------
(* bounded_frame_indices: important frames and a uniform choice, filled up *)
(* from the start.                                                         *)
Smallest(S, n) == {x \in S : Cardinality({y \in S : y < x}) < n}

BoundedIndices(first, last, important) ==
  LET priority == important \cap (first .. last)
      spread == Offered - Cardinality(priority)
      uniform == IF spread = 1 THEN {first}
                 ELSE {first + RoundDiv(i * (last - first), spread - 1) : i \in 0 .. spread - 1}
      chosen == priority \cup uniform
  IN  IF last - first < Offered THEN first .. last
      ELSE IF spread <= 0 THEN Smallest(priority, Offered)
      ELSE chosen \cup Smallest((first .. last) \ chosen, Offered - Cardinality(chosen))

(* contact_frame_candidates: the frames around a proposed time, and on     *)
(* both sides of each boundary between them.                               *)
Around(t) ==
  LET p == Clamp(0, t, (count - 1) * Frame)
  IN  Max({0, (p - Window) \div Frame}) .. Min({count - 1, CeilDiv(p + Window, Frame)})

Candidates(t) ==
  LET first == Min(Around(t))  last == Max(Around(t))
      seams == {RoundDiv(steps[i].from, Frame) :
                  i \in {j \in DOMAIN steps : steps[j].from \in first * Frame .. last * Frame}}
      p == RoundDiv(Clamp(0, t, (count - 1) * Frame), Frame)
  IN  BoundedIndices(first, last, {p} \cup seams \cup {f - 1 : f \in seams})

----------------------------------------------------------------------------
(* sta_random_observation_frames: the frames before contact c, and after   *)
(* the contact before it, that may be asked about.                         *)
Earlier(c) == {d \in DOMAIN contact : contact[d].time < contact[c].time - 1}
Latest(S) == CHOOSE d \in S : \A e \in S : contact[e].time <= contact[d].time

FirstOfStep(c) ==
  Max({0, CeilDiv(Max({steps[contact[c].step].from, contact[c].time - Lookback}), Frame)})
FirstQuery(c) ==
  LET s == steps[contact[c].step]
      lower == Max({s.from, contact[c].time - Lookback})
      before == contact[Latest(Earlier(c))]
  IN  Max({0, CeilDiv(lower, Frame)}
            \cup IF Earlier(c) = {} THEN {} ELSE {before.time \div Frame + 1, before.frame + 1})

LastQuery(c) ==
  Min({count - 1, contact[c].frame - 1, (contact[c].time - Gap) \div Frame,
       CeilDiv(steps[contact[c].step].to, Frame) - 1})

Eligible(c) == (FirstQuery(c) .. LastQuery(c)) \ {contact[d].frame : d \in DOMAIN contact}

----------------------------------------------------------------------------
Answered(list) ==
  /\ phase' = "answered" /\ steps' = list /\ UNCHANGED <<video, count, contact, query>>

AnswerLas ==
  /\ phase = "asked" /\ \E a \in Answers(MaxSegments) : Answered(LasSteps(a)) /\ UNCHANGED exact

AnswerOperator ==
  /\ phase = "asked" /\ ~ (video /\ Len(Chunks) > 1)
  /\ \E a \in Answers(MaxSegments) : Answered(OperatorSteps(a, Final)) /\ UNCHANGED exact

AnswerChunks ==
  /\ phase = "asked" /\ video /\ Len(Chunks) = 2
  /\ \E a, b \in Answers(MaxSegments - 1) :
       Answered(ChunkSteps(OperatorSteps(a, Chunks[1]), OperatorSteps(b, Chunks[2])))
  /\ UNCHANGED exact

Load ==
  /\ phase = "asked" /\ \E list \in Loaded : Answered(list) /\ exact' = FALSE

(* validate_subtasks, which also joins equal neighbours.                   *)
Validate ==
  /\ phase = "answered"
  /\ IF Valid(steps) THEN phase' = "accepted" /\ steps' = Merged(steps)
                     ELSE phase' = "rejected" /\ UNCHANGED steps
  /\ UNCHANGED <<video, count, exact, contact, query>>

(* refine_contact_frames: one of the candidates is taken if it is in the   *)
(* segment of the contact.  Its time is rounded.                           *)
Place ==
  /\ phase = "accepted" /\ video /\ query = NoQuery /\ Len(contact) < MaxContacts
  /\ \E i \in DOMAIN steps, t \in Time : \E f \in Candidates(t), rounding \in {0, 1} :
       /\ StepAt(f * Frame) = i
       /\ contact' = Append(contact, [step |-> i, frame |-> f, time |-> f * Frame - rounding])
  /\ UNCHANGED <<video, count, phase, exact, steps, query>>

(* annotate_sta_random_observations, when all contacts are final: frames   *)
(* are drawn for each contact on its own, of which one is followed here.   *)
Observe ==
  /\ phase = "accepted" /\ query = NoQuery
  /\ \E c \in DOMAIN contact : \E f \in Eligible(c) : query' = [of |-> c, frame |-> f]
  /\ UNCHANGED <<video, count, phase, exact, steps, contact>>

Next == \/ AnswerLas \/ AnswerOperator \/ AnswerChunks \/ Load \/ Validate \/ Place \/ Observe

Spec == Init /\ [][Next]_vars

----------------------------------------------------------------------------
(* What an answer is made into is accepted; and each 2-FPS anchor of the   *)
(* media is grounded for exactly one step, that which subtask_at_time      *)
(* finds, also in another view of the episode that is some frames shorter  *)
(* or longer.  Of an earlier result that is accepted, an anchor is left    *)
(* out or grounded twice only at a seam or near the end.                   *)
EachAnchorOnce ==
  /\ exact => phase # "rejected"
  /\ phase = "accepted" =>
       IF video
       THEN \A end \in {Duration - Frame, Duration, Duration + Frame} :
            \A a \in Anchors(Min({Duration, end})) :
              \/ \E i \in DOMAIN steps :
                   /\ i = StepAt(a)
                   /\ \A j \in DOMAIN steps : a \in AnchorsOf(steps[j], end) <=> i = j
              \/ /\ ~ exact
                 /\ \/ a >= Duration - Half
                    \/ \E i \in DOMAIN steps : Near(a, steps[i].from, Seam)
       ELSE \A a \in 0 .. Final : StepAt(a) # 0 /\ a \in ImagesOf(steps[StepAt(a)])

(* "Sample frames after the prior CPA contact and before the target        *)
(* contact": no contact, of whatever segment and however its time was      *)
(* rounded, lies between an observation and the contact it announces, and  *)
(* the check of the code for that (in times) never fails.                  *)
NoContactBetween ==
  query # NoQuery =>
    LET c == contact[query.of]
    IN  /\ query.frame < c.frame
        /\ \A d \in DOMAIN contact :
             /\ ~ (query.frame <= contact[d].frame /\ contact[d].frame < c.frame)
             /\ ~ (query.frame * Frame < contact[d].time /\ contact[d].time < c.time - 1)
=============================================================================
