---------------------------- MODULE RecordProofs ----------------------------
(***************************************************************************)
(* Proofs about the downstream stages of a record.                         *)
(*                                                                         *)
(* Its grounding (GrdWindows, as the instance Grd of MC_Record), for any   *)
(* number of windows, workers, attempts, launches and faults.  A job that  *)
(* fails may leave its inventory or its item in the checkpoint; the        *)
(* invariant says at each point of the job that question 2 was asked about *)
(* that one.                                                               *)
(*                                                                         *)
(* Its contact stages (ContactStages), for any number of launches and      *)
(* faults.  A key of the checkpoint names answers only in part; the        *)
(* invariant says for every unit which answers the one under its key is of *)
(* (Right), and at each stage of an attempt how the item stands to them.   *)
(***************************************************************************)
EXTENDS MC_Record, FiniteSetTheorems, SequenceTheorems, TLAPS

Name == {"cup", "mug", "left"}
Pair == {<<"cup", "cup">>, <<"cup", "mug">>, <<"cup", "left">>, <<"mug", "left">>}
Objects == Pair \cup {<<>>, <<"cup">>}
Item == [inventory : Nat, objects : Objects, first : Name \cup {Grd!Null}]
Job == [at : Grd!Question \cup {"none", "queued", "done", "error", "rejected"}, sent : BOOLEAN,
        item : Item, objects : Objects, first : Name \cup {Grd!Null}, accepted : BOOLEAN]

GrdTypes ==
  /\ inventories \in [Grd!Window -> Nat] /\ about \in [Grd!Window -> SUBSET Nat]
  /\ kept \in [Grd!Window -> Item] /\ stored \in [Grd!Window -> Item]
  /\ jobs \in [Grd!Window -> Job] /\ completed \in [Grd!Window -> Job]
  /\ next \in Nat

(* The objects an item is of, and the one it selects, if any.              *)
Selecting(x) ==
  x.objects \in Grd!Inventory /\ x.first \in Grd!Names(x.objects) \cup {Grd!Null}

Single(objects, first) == \E i \in {1, 2} : Grd!Denoted(objects, first) = {i}
Distinct(objects) == objects \in Pair /\ objects[1] # objects[2]

(* A reviewed frame selects what question 2 selected.                      *)
KeepsSelection(job) ==
  job.accepted =>
    /\ job.first # Grd!Null => Single(job.objects, job.first)
    /\ Single(job.item.objects, job.item.first) =>
         Grd!Denoted(job.objects, job.first) = Grd!Denoted(job.item.objects, job.item.first)
    /\ job.item.first = Grd!Null => job.first = Grd!Null

(* What a job knows at each question of its review.                        *)
Reviewing == {"language", "names", "again", "reselect", "done"}
WellReviewed(job) ==
  /\ job.at \in Reviewing => Selecting(job.item)
  /\ job.at \in {"language", "names", "again", "reselect"} => job.item.objects \in Pair
  /\ job.at \in {"language", "names", "again"} => job.first = job.item.first
  /\ job.at \in {"language", "names"} => job.objects = job.item.objects
  /\ job.at \in {"again", "reselect"} => job.objects \in Grd!Edits(job.item.objects)
  /\ job.at = "reselect" => /\ Distinct(job.objects) /\ job.item.first # Grd!Null
                            /\ ~ Single(job.item.objects, job.item.first)
  /\ job.at = "done" => KeepsSelection(job)

(* Question 2 of the window was asked about the inventory of the item.     *)
AskedAbout(w, x) ==
  x.inventory # 0 /\ x.inventory = kept[w].inventory /\ about[w] = {x.inventory}

WindowKept(w) ==
  /\ about[w] \subseteq {kept[w].inventory} \ {0}
  /\ kept[w] # Grd!NoItem <=> kept[w].inventory # 0
  /\ kept[w].inventory # 0 => kept[w].objects \in Grd!Inventory
  /\ stored[w] # Grd!NoItem => Selecting(stored[w]) /\ AskedAbout(w, stored[w])
  /\ completed[w].at \in {"none", "done"}
  /\ completed[w].at = "done" => AskedAbout(w, completed[w].item)

JobKept(w) ==
  /\ jobs[w].at = "queued" => jobs[w].item = stored[w]
  /\ jobs[w].at = "inventory" => kept[w].inventory = 0
  /\ jobs[w].at = "selection" =>
       /\ jobs[w].item.inventory # 0 /\ jobs[w].item.inventory = kept[w].inventory
       /\ jobs[w].item.objects \in Grd!Inventory
       /\ jobs[w].sent => about[w] = {jobs[w].item.inventory}
  /\ jobs[w].at \in Reviewing => AskedAbout(w, jobs[w].item)

(* Before the commit every window of the attempt is at work or done;       *)
(* afterwards nothing moves.                                               *)
Attempted ==
  /\ stage \in {"loop", "wait"} => \A w \in Grd!Window :
       w < next => jobs[w].at # "none" \/ completed[w].at = "done"
  /\ stage = "wait" => next > Windows

BeforeCommit == frames = <<>> =>
  /\ \A w \in Grd!Window : WindowKept(w) /\ JobKept(w)
  /\ Attempted /\ stage # "finish"

AfterCommit == frames # <<>> =>
  /\ frames \in [Grd!Window -> Job] /\ stage \notin {"loop", "wait", "drain", "reject"}
  /\ \A w \in Grd!Window :
       /\ jobs[w].at = "none" /\ frames[w].at = "done" /\ WellReviewed(frames[w])
       /\ about[w] = {frames[w].item.inventory}

GrdInv ==
  /\ GrdTypes /\ BeforeCommit /\ AfterCommit
  /\ \A w \in Grd!Window : WellReviewed(jobs[w]) /\ WellReviewed(completed[w])

-----------------------------------------------------------------------------
(* Pairs of names, what they denote, and what the review makes of them.    *)
LEMMA PairFacts ==
  /\ \A o \in Pair : DOMAIN o = {1, 2} /\ Len(o) = 2 /\ o[1] \in Name /\ o[2] \in Name
  /\ DOMAIN <<"cup">> = {1} /\ Len(<<"cup">>) = 1 /\ <<"cup">>[1] = "cup"
  BY DEF Pair, Name

LEMMA InventoryFacts ==
  /\ Grd!Inventory \subseteq Pair \cup {<<"cup">>}
  /\ \A o \in Grd!Inventory : Len(o) < 2 => o = <<"cup">>
  /\ \A o \in Grd!Inventory : ~ (Len(o) < 2) => o \in Pair
  /\ \A o \in Grd!Inventory : Grd!Names(o) \subseteq Name
  BY PairFacts DEF Grd!Inventory, Grd!Names, Pair, Name

LEMMA NullFacts == \A o \in Objects : Grd!Denoted(o, Grd!Null) = {}
  <1>1. Grd!Null \notin Name
    BY DEF Grd!Null, Name
  <1>2. \A o \in Pair : Grd!Denoted(o, Grd!Null) = {}
    BY <1>1, PairFacts DEF Grd!Denoted
  <1>3. Grd!Denoted(<<"cup">>, Grd!Null) = {}
    BY <1>1, PairFacts DEF Grd!Denoted, Name
  <1>4. Grd!Denoted(<<>>, Grd!Null) = {}
    BY DEF Grd!Denoted
  <1> QED
    BY <1>2, <1>3, <1>4 DEF Objects

LEMMA SingleFacts ==
  /\ \A o \in Pair : \A x : Distinct(o) /\ x \in Grd!Names(o) => Single(o, x)
  /\ \A x \in Grd!Names(<<"cup">>) : Single(<<"cup">>, x)
  <1>1. ASSUME NEW o \in Pair, NEW x, Distinct(o), x \in Grd!Names(o) PROVE Single(o, x)
    BY <1>1, PairFacts DEF Single, Distinct, Grd!Names, Grd!Denoted
  <1>2. ASSUME NEW x \in Grd!Names(<<"cup">>) PROVE Single(<<"cup">>, x)
    BY PairFacts DEF Single, Grd!Names, Grd!Denoted
  <1> QED
    BY <1>1, <1>2

LEMMA SingleIsOne ==
  ASSUME NEW o \in Objects, NEW x
  PROVE  Cardinality(Grd!Denoted(o, x)) = 1 <=> Single(o, x)
  <1> DEFINE d == Grd!Denoted(o, x)
  <1>1. DOMAIN o \subseteq {1, 2}
    BY PairFacts DEF Objects
  <1>2. d \subseteq {1, 2}
    BY <1>1 DEF Grd!Denoted
  <1>3. d = {} \/ d = {1} \/ d = {2} \/ d = {1, 2}
    BY <1>2
  <1>4. Cardinality({}) = 0 /\ Cardinality({1}) = 1 /\ Cardinality({2}) = 1
    BY FS_EmptySet, FS_Singleton
  <1>5. Cardinality({1, 2}) = 2
    <2>1. {1, 2} = {1} \cup {2} /\ 2 \notin {1}
      OBVIOUS
    <2>2. Cardinality({1} \cup {2}) = Cardinality({1}) + 1
      BY <2>1, FS_Singleton, FS_AddElement
    <2> QED
      BY <1>4, <2>1, <2>2
  <1> HIDE DEF d
  <1>6. Cardinality(d) = 1 <=> \E i \in {1, 2} : d = {i}
    BY <1>3, <1>4, <1>5
  <1> QED
    BY <1>6 DEF d, Single

LEMMA EditFacts ==
  ASSUME NEW o \in Pair, o \in Grd!Inventory, NEW e \in Grd!Edits(o)
  PROVE  e \in Pair /\ (e = o \/ e[2] = "left")
  BY PairFacts DEF Pair, Grd!Inventory, Grd!Edits

(* What the review of one object, or of several, needs.                    *)
LEMMA ReviewingFacts ==
  ASSUME NEW job \in Job, NEW x \in Item, Selecting(x)
  PROVE  /\ Grd!Reviewing(job, x) \in Job /\ WellReviewed(Grd!Reviewing(job, x))
         /\ Grd!Reviewing(job, x).item = x /\ Grd!Reviewing(job, x).at \in Reviewing
  <1> DEFINE new == Grd!Reviewing(job, x)
  <1>1. PICK short \in BOOLEAN : short = (Len(x.objects) < 2)
    <2>1. (Len(x.objects) < 2) \in BOOLEAN
      OBVIOUS
    <2> QED
      BY <2>1, Zenon
  <1>2. /\ new \in Job /\ new.item = x /\ new.objects = x.objects /\ new.first = x.first
        /\ new.at = IF short THEN "done" ELSE "language"
    <2>1. new = [Grd!At(job, IF short THEN "done" ELSE "language") EXCEPT !.item = x,
                  !.objects = x.objects, !.first = x.first, !.accepted = short]
      BY <1>1, Zenon DEF Grd!Reviewing
    <2> QED
      BY <2>1 DEF Job, Item, Grd!At, Grd!Question
  <1>3. CASE short
    <2>1. x.objects = <<"cup">>
      BY <1>1, <1>3, InventoryFacts DEF Selecting
    <2>2. x.first # Grd!Null => Single(x.objects, x.first)
      BY <2>1, SingleFacts DEF Selecting
    <2> QED
      BY <1>2, <1>3, <2>2 DEF WellReviewed, KeepsSelection, Reviewing
  <1>4. CASE ~ short
    <2>1. x.objects \in Pair
      BY <1>1, <1>4, InventoryFacts DEF Selecting
    <2> QED
      BY <1>2, <1>4, <2>1 DEF WellReviewed, Reviewing
  <1> QED
    BY <1>2, <1>3, <1>4

(* A job step of one window.                                               *)
LEMMA WindowStep ==
  ASSUME GrdInv, NEW w \in Grd!Window, frames = <<>>, UNCHANGED <<frames, completed, next, stage>>,
         GrdTypes', jobs'[w].at # "none", WellReviewed(jobs'[w]), WindowKept(w)', JobKept(w)',
         \A v \in Grd!Window : v # w =>
           /\ jobs'[v] = jobs[v] /\ kept'[v] = kept[v]
           /\ stored'[v] = stored[v] /\ about'[v] = about[v]
  PROVE  GrdInv'
  <1>1. ASSUME NEW v \in Grd!Window, v # w PROVE WindowKept(v)' /\ JobKept(v)' /\ WellReviewed(jobs'[v])
    BY <1>1 DEF GrdInv, BeforeCommit, WindowKept, JobKept, AskedAbout
  <1>2. Attempted'
    BY DEF GrdInv, BeforeCommit, Attempted
  <1> QED
    BY <1>1, <1>2 DEF GrdInv, BeforeCommit, AfterCommit

(* A job works before the commit only.                                     *)
LEMMA JobWorks ==
  ASSUME GrdInv, NEW w \in Grd!Window, jobs[w].at # "none"
  PROVE  /\ frames = <<>> /\ WindowKept(w) /\ JobKept(w) /\ WellReviewed(jobs[w]) /\ jobs[w] \in Job
         /\ kept[w] \in Item /\ stored[w] \in Item /\ inventories[w] \in Nat /\ about[w] \subseteq Nat
  BY DEF GrdInv, GrdTypes, BeforeCommit, AfterCommit

(* A step that replaces the job alone.                                     *)
LEMMA JobStep ==
  ASSUME GrdInv, NEW w \in Grd!Window, jobs[w].at # "none", NEW new \in Job,
         jobs' = [jobs EXCEPT ![w] = new], new.at # "none", WellReviewed(new),
         UNCHANGED <<inventories, kept, stored, frames, stage, next, completed, about>>,
         new.at = "queued" => new.item = stored[w],
         new.at = "inventory" => kept[w].inventory = 0,
         new.at = "selection" => /\ new.item.inventory # 0 /\ new.item.inventory = kept[w].inventory
                                 /\ new.item.objects \in Grd!Inventory
                                 /\ new.sent => about[w] = {new.item.inventory},
         new.at \in Reviewing => AskedAbout(w, new.item)
  PROVE  GrdInv'
  <1>1. jobs' \in [Grd!Window -> Job] /\ jobs'[w] = new /\ \A v \in Grd!Window : v # w => jobs'[v] = jobs[v]
    BY DEF GrdInv, GrdTypes
  <1>2. GrdTypes'
    BY <1>1 DEF GrdInv, GrdTypes
  <1>3. WindowKept(w)' /\ JobKept(w)'
    BY <1>1, JobWorks DEF WindowKept, JobKept, AskedAbout
  <1> QED
    BY <1>1, <1>2, <1>3, JobWorks, WindowStep

(* What At changes of a job.                                               *)
LEMMA AtFacts ==
  ASSUME NEW job \in Job, NEW where \in Grd!Question \cup {"done", "error", "rejected"}
  PROVE  /\ Grd!At(job, where) \in Job /\ Grd!At(job, where).at = where
         /\ Grd!At(job, where).item = job.item /\ ~ Grd!At(job, where).sent
         /\ Grd!At(job, where) = [job EXCEPT !.at = where, !.sent = FALSE]
  BY DEF Job, Grd!At

LEMMA StartJobInv == ASSUME GrdInv, NEW w \in Grd!Window, Grd!StartJob(w) PROVE GrdInv'
  <1> USE DEF Grd!StartJob, Grd!Quiet, Grd!disk, Grd!main
  <1> DEFINE new == Grd!Resumed(w)
  <1>1. jobs[w].at = "queued" /\ jobs' = [jobs EXCEPT ![w] = new]
    BY DEF Grd!Set
  <1>2. jobs[w].item = stored[w] /\ jobs[w] \in Job /\ WindowKept(w)
    BY <1>1, JobWorks DEF JobKept
  <1>3. CASE scope
    <2>1. new = Grd!At(jobs[w], "rejected")
      BY <1>3 DEF Grd!Resumed
    <2>2. Grd!At(jobs[w], "rejected") \in Job /\ Grd!At(jobs[w], "rejected").at = "rejected"
      BY <1>2, AtFacts
    <2>3. new \in Job /\ new.at = "rejected"
      BY <2>1, <2>2
    <2> HIDE DEF new
    <2>4. WellReviewed(new)
      BY <2>3 DEF WellReviewed, Reviewing
    <2> QED
      BY <1>1, <2>3, <2>4, JobStep DEF Reviewing, Grd!Question
  <1>4. CASE ~ scope /\ stored[w] # Grd!NoItem
    <2>1. new = Grd!Reviewing(jobs[w], stored[w])
      BY <1>2, <1>4 DEF Grd!Resumed
    <2>2. Selecting(stored[w]) /\ AskedAbout(w, stored[w]) /\ stored[w] \in Item
      BY <1>1, <1>2, <1>4, JobWorks DEF WindowKept
    <2>3. new \in Job /\ WellReviewed(new) /\ new.item = stored[w] /\ new.at \in Reviewing
      BY <1>2, <2>1, <2>2, ReviewingFacts
    <2> HIDE DEF new
    <2> QED
      BY <1>1, <2>2, <2>3, JobStep DEF Reviewing
  <1>5. CASE ~ scope /\ stored[w] = Grd!NoItem /\ kept[w] # Grd!NoItem
    <2>1. new = [Grd!At(jobs[w], "selection") EXCEPT !.item = kept[w]]
      BY <1>2, <1>5 DEF Grd!Resumed
    <2>2. kept[w] \in Item
      BY <1>1, JobWorks
    <2>3. new \in Job /\ new.at = "selection" /\ new.item = kept[w] /\ ~ new.sent
      BY <1>2, <2>1, <2>2 DEF Job, Grd!At, Grd!Question
    <2> HIDE DEF new
    <2>4. WellReviewed(new)
      BY <2>3 DEF WellReviewed, Reviewing
    <2>5. kept[w].inventory # 0 /\ kept[w].objects \in Grd!Inventory
      BY <1>2, <1>5 DEF WindowKept
    <2> QED
      BY <1>1, <2>3, <2>4, <2>5, JobStep DEF Reviewing
  <1>6. CASE ~ scope /\ stored[w] = Grd!NoItem /\ kept[w] = Grd!NoItem
    <2>1. new = Grd!At(jobs[w], "inventory")
      BY <1>2, <1>6 DEF Grd!Resumed
    <2>2. Grd!At(jobs[w], "inventory") \in Job /\ Grd!At(jobs[w], "inventory").at = "inventory"
      BY <1>2, AtFacts DEF Grd!Question
    <2>3. new \in Job /\ new.at = "inventory"
      BY <2>1, <2>2
    <2> HIDE DEF new
    <2>4. WellReviewed(new)
      BY <2>3 DEF WellReviewed, Reviewing
    <2>5. kept[w].inventory = 0
      BY <1>6 DEF Grd!NoItem
    <2> QED
      BY <1>1, <2>3, <2>4, <2>5, JobStep DEF Reviewing
  <1> QED
    BY <1>3, <1>4, <1>5, <1>6

LEMMA AskInv == ASSUME GrdInv, NEW w \in Grd!Window, Grd!Ask(w) PROVE GrdInv'
  <1> USE DEF Grd!Ask, Grd!disk, Grd!main
  <1>0. jobs[w].at \in Grd!Question /\ ~ jobs[w].sent /\ jobs[w].at # "none"
    BY DEF Grd!Question
  <1>1. jobs[w] \in Job /\ WindowKept(w) /\ JobKept(w) /\ WellReviewed(jobs[w]) /\ frames = <<>>
    BY <1>0, JobWorks
  <1>2. CASE scope /\ Grd!Set(w, Grd!At(jobs[w], "rejected")) /\ UNCHANGED about
    <2> DEFINE new == Grd!At(jobs[w], "rejected")
    <2>1. jobs' = [jobs EXCEPT ![w] = new]
      BY <1>2 DEF Grd!Set
    <2>2. new \in Job /\ new.at = "rejected"
      BY <1>1, AtFacts
    <2> HIDE DEF new
    <2>3. WellReviewed(new)
      BY <2>2 DEF WellReviewed, Reviewing
    <2> QED
      BY <1>0, <1>2, <2>1, <2>2, <2>3, JobStep DEF Reviewing
  <1>3. CASE /\ Grd!Set(w, [jobs[w] EXCEPT !.sent = TRUE])
             /\ about' = [about EXCEPT ![w] =
                  IF jobs[w].at = "selection" THEN @ \cup {jobs[w].item.inventory} ELSE @]
    <2> DEFINE new == [jobs[w] EXCEPT !.sent = TRUE]
    <2>1. jobs' = [jobs EXCEPT ![w] = new]
      BY <1>3 DEF Grd!Set
    <2>2. /\ new \in Job /\ new.at = jobs[w].at /\ new.item = jobs[w].item /\ new.sent
          /\ new.objects = jobs[w].objects /\ new.first = jobs[w].first
          /\ new.accepted = jobs[w].accepted
      BY <1>1 DEF Job
    <2> HIDE DEF new
    <2>3. WellReviewed(new)
      BY <1>1, <2>2 DEF WellReviewed, KeepsSelection, Reviewing
    <2>4. /\ jobs' \in [Grd!Window -> Job] /\ jobs'[w] = new
          /\ \A v \in Grd!Window : v # w => jobs'[v] = jobs[v] /\ about'[v] = about[v]
      BY <1>3, <2>1, <2>2 DEF GrdInv, GrdTypes
    <2>5. jobs[w].item.inventory \in Nat
      BY <1>1 DEF Job, Item
    <2>6. GrdTypes'
      BY <1>3, <2>4, <2>5 DEF GrdInv, GrdTypes
    <2>7. about'[w] = IF jobs[w].at = "selection" THEN about[w] \cup {jobs[w].item.inventory} ELSE about[w]
      BY <1>3 DEF GrdInv, GrdTypes
    <2>8. CASE jobs[w].at = "selection"
      <3>1. about'[w] = {jobs[w].item.inventory} /\ about'[w] = {kept[w].inventory}
        BY <1>1, <2>7, <2>8 DEF WindowKept, JobKept
      <3>2. WindowKept(w)'
        BY <1>1, <2>8, <3>1 DEF WindowKept, JobKept, AskedAbout
      <3>3. JobKept(w)'
        BY <1>1, <2>2, <2>4, <2>8, <3>1 DEF JobKept, Reviewing
      <3> QED
        BY <1>0, <1>1, <2>2, <2>3, <2>4, <2>6, <3>2, <3>3, WindowStep
    <2>9. CASE jobs[w].at # "selection"
      <3>1. about'[w] = about[w]
        BY <2>7, <2>9
      <3>2. WindowKept(w)' /\ JobKept(w)'
        BY <1>1, <2>2, <2>4, <2>9, <3>1 DEF WindowKept, JobKept, AskedAbout
      <3> QED
        BY <1>0, <1>1, <2>2, <2>3, <2>4, <2>6, <3>2, WindowStep
    <2> QED
      BY <2>8, <2>9
  <1> QED
    BY <1>2, <1>3

(* Question 1 is answered when no inventory of the window is kept.         *)
LEMMA InventoryAnsweredInv == ASSUME GrdInv, NEW w \in Grd!Window, Grd!InventoryAnswered(w) PROVE GrdInv'
  <1> USE DEF Grd!InventoryAnswered, Grd!main
  <1>0. jobs[w].at = "inventory"
    BY DEF Grd!Answered
  <1>1. /\ jobs[w] \in Job /\ WindowKept(w) /\ JobKept(w) /\ frames = <<>> /\ inventories[w] \in Nat
        /\ kept[w].inventory = 0
    BY <1>0, JobWorks DEF JobKept
  <1>2. PICK objects \in Grd!Inventory :
          LET unit == [inventory |-> inventories[w] + 1, objects |-> objects, first |-> Grd!Null]
          IN  /\ kept' = Grd!KeepsUnit(w, unit)
              /\ Grd!Set(w, [Grd!At(jobs[w], "selection") EXCEPT !.item = unit])
    OBVIOUS
  <1> DEFINE unit == [inventory |-> inventories[w] + 1, objects |-> objects, first |-> Grd!Null]
             new == [Grd!At(jobs[w], "selection") EXCEPT !.item = unit]
  <1>3. kept' = [kept EXCEPT ![w] = unit] /\ jobs' = [jobs EXCEPT ![w] = new]
    BY <1>2 DEF Grd!KeepsUnit, Grd!Set
  <1>4. unit \in Item /\ unit.inventory # 0 /\ unit.objects \in Grd!Inventory
    BY <1>1, InventoryFacts DEF Item, Objects
  <1> HIDE DEF unit
  <1>5. new \in Job /\ new.at = "selection" /\ new.item = unit /\ ~ new.sent
    BY <1>1, <1>4 DEF Job, Grd!At, Grd!Question
  <1> HIDE DEF new
  <1>6. /\ jobs' \in [Grd!Window -> Job] /\ jobs'[w] = new /\ kept' \in [Grd!Window -> Item] /\ kept'[w] = unit
        /\ \A v \in Grd!Window : v # w => jobs'[v] = jobs[v] /\ kept'[v] = kept[v]
    BY <1>3, <1>4, <1>5 DEF GrdInv, GrdTypes
  <1>7. GrdTypes'
    <2>1. inventories' \in [Grd!Window -> Nat]
      BY <1>1 DEF GrdInv, GrdTypes
    <2> QED
      BY <1>6, <2>1 DEF GrdInv, GrdTypes
  <1>8. unit # Grd!NoItem
    BY <1>4 DEF Grd!NoItem
  <1>9. about[w] = {} /\ stored[w] = Grd!NoItem /\ completed[w].at # "done"
    BY <1>1 DEF WindowKept, AskedAbout
  <1>10. WindowKept(w)' /\ JobKept(w)'
    BY <1>1, <1>4, <1>5, <1>6, <1>8, <1>9 DEF WindowKept, JobKept, Reviewing
  <1>11. WellReviewed(new)
    BY <1>5 DEF WellReviewed, Reviewing
  <1> QED
    BY <1>1, <1>5, <1>6, <1>7, <1>10, <1>11, WindowStep DEF Grd!disk

LEMMA SelectionAnsweredInv == ASSUME GrdInv, NEW w \in Grd!Window, Grd!SelectionAnswered(w) PROVE GrdInv'
  <1> USE DEF Grd!SelectionAnswered, Grd!main
  <1>0. jobs[w].at = "selection" /\ jobs[w].sent
    BY DEF Grd!Answered
  <1>1. /\ jobs[w] \in Job /\ WindowKept(w) /\ JobKept(w) /\ frames = <<>>
        /\ jobs[w].item \in Item /\ jobs[w].item.objects \in Grd!Inventory
        /\ jobs[w].item.inventory # 0 /\ jobs[w].item.inventory = kept[w].inventory
        /\ about[w] = {jobs[w].item.inventory}
    BY <1>0, JobWorks DEF JobKept, Job
  <1>2. PICK first \in Grd!Names(jobs[w].item.objects) \cup {Grd!Null} :
          LET x == [jobs[w].item EXCEPT !.first = first]
          IN  stored' = [stored EXCEPT ![w] = x] /\ Grd!Set(w, Grd!Reviewing(jobs[w], x))
    OBVIOUS
  <1> DEFINE x == [jobs[w].item EXCEPT !.first = first]
             new == Grd!Reviewing(jobs[w], x)
  <1>3. stored' = [stored EXCEPT ![w] = x] /\ jobs' = [jobs EXCEPT ![w] = new]
    BY <1>2 DEF Grd!Set
  <1>4. first \in Name \cup {Grd!Null}
    BY <1>1, InventoryFacts
  <1>5. /\ x \in Item /\ x.first = first /\ x.objects = jobs[w].item.objects
        /\ x.inventory = jobs[w].item.inventory
    BY <1>1, <1>4 DEF Item
  <1> HIDE DEF x
  <1>6. Selecting(x)
    BY <1>1, <1>5 DEF Selecting
  <1>7. new \in Job /\ WellReviewed(new) /\ new.item = x /\ new.at \in Reviewing
    BY <1>1, <1>5, <1>6, ReviewingFacts
  <1> HIDE DEF new
  <1>8. /\ jobs' \in [Grd!Window -> Job] /\ jobs'[w] = new /\ stored' \in [Grd!Window -> Item] /\ stored'[w] = x
        /\ \A v \in Grd!Window : v # w => jobs'[v] = jobs[v] /\ stored'[v] = stored[v]
    BY <1>3, <1>5, <1>7 DEF GrdInv, GrdTypes
  <1>9. GrdTypes'
    BY <1>8 DEF GrdInv, GrdTypes
  <1>10. WindowKept(w)' /\ JobKept(w)'
    BY <1>1, <1>5, <1>6, <1>7, <1>8 DEF WindowKept, JobKept, AskedAbout, Reviewing
  <1>11. new.at # "none"
    BY <1>7 DEF Reviewing
  <1> QED
    BY <1>1, <1>7, <1>8, <1>9, <1>10, <1>11, WindowStep

LEMMA LanguageReviewedInv == ASSUME GrdInv, NEW w \in Grd!Window, Grd!LanguageReviewed(w) PROVE GrdInv'
  <1> USE DEF Grd!LanguageReviewed, Grd!Quiet, Grd!disk, Grd!main
  <1>0. jobs[w].at = "language"
    BY DEF Grd!Answered
  <1>1. /\ jobs[w] \in Job /\ JobKept(w) /\ Selecting(jobs[w].item) /\ jobs[w].item.objects \in Pair
        /\ jobs[w].objects = jobs[w].item.objects /\ jobs[w].first = jobs[w].item.first
        /\ AskedAbout(w, jobs[w].item)
    BY <1>0, JobWorks DEF JobKept, WellReviewed, Reviewing
  <1>2. PICK accepted \in Grd!Distinguishable(jobs[w].objects) :
          Grd!Set(w, [Grd!At(jobs[w], IF accepted THEN "done" ELSE "names") EXCEPT !.accepted = accepted])
    OBVIOUS
  <1> DEFINE new == [Grd!At(jobs[w], IF accepted THEN "done" ELSE "names") EXCEPT !.accepted = accepted]
  <1>3. jobs' = [jobs EXCEPT ![w] = new]
    BY <1>2 DEF Grd!Set
  <1>4. accepted \in BOOLEAN /\ (accepted => jobs[w].objects[1] # jobs[w].objects[2])
    BY DEF Grd!Distinguishable
  <1>5. /\ new \in Job /\ new.at = (IF accepted THEN "done" ELSE "names") /\ new.item = jobs[w].item
        /\ new.objects = jobs[w].objects /\ new.first = jobs[w].first /\ new.accepted = accepted
    BY <1>1, <1>4 DEF Job, Grd!At, Grd!Question
  <1> HIDE DEF new
  <1>6. accepted /\ new.first # Grd!Null => Single(new.objects, new.first)
    BY <1>1, <1>4, <1>5, SingleFacts DEF Selecting, Distinct
  <1>7. WellReviewed(new)
    BY <1>1, <1>5, <1>6 DEF WellReviewed, KeepsSelection, Reviewing
  <1>8. new.at \in {"done", "names"}
    BY <1>5
  <1> QED
    BY <1>0, <1>1, <1>3, <1>5, <1>7, <1>8, JobStep DEF Reviewing

LEMMA NamesCorrectedInv == ASSUME GrdInv, NEW w \in Grd!Window, Grd!NamesCorrected(w) PROVE GrdInv'
  <1> USE DEF Grd!NamesCorrected, Grd!Quiet, Grd!disk, Grd!main
  <1>0. jobs[w].at = "names"
    BY DEF Grd!Answered
  <1>1. /\ jobs[w] \in Job /\ JobKept(w) /\ Selecting(jobs[w].item) /\ jobs[w].item.objects \in Pair
        /\ jobs[w].objects = jobs[w].item.objects /\ jobs[w].first = jobs[w].item.first
        /\ AskedAbout(w, jobs[w].item)
    BY <1>0, JobWorks DEF JobKept, WellReviewed, Reviewing
  <1>2. PICK objects \in Grd!Edits(jobs[w].objects) :
          Grd!Set(w, [Grd!At(jobs[w], "again") EXCEPT !.objects = objects])
    OBVIOUS
  <1> DEFINE new == [Grd!At(jobs[w], "again") EXCEPT !.objects = objects]
  <1>3. jobs' = [jobs EXCEPT ![w] = new]
    BY <1>2 DEF Grd!Set
  <1>4. objects \in Pair
    BY <1>1, EditFacts DEF Selecting
  <1>5. /\ new \in Job /\ new.at = "again" /\ new.item = jobs[w].item
        /\ new.objects = objects /\ new.first = jobs[w].first
    BY <1>1, <1>4 DEF Job, Grd!At, Grd!Question, Objects
  <1> HIDE DEF new
  <1>6. WellReviewed(new)
    BY <1>1, <1>5 DEF WellReviewed, Reviewing
  <1> QED
    BY <1>0, <1>1, <1>3, <1>5, <1>6, JobStep DEF Reviewing

(* Renamed is the new name of the one object that was selected.            *)
LEMMA RenamedFacts ==
  ASSUME NEW job \in Job, Single(job.item.objects, job.item.first), Distinct(job.objects),
         job.item.objects \in Pair
  PROVE  /\ Grd!Renamed(job) \in Name
         /\ Grd!Denoted(job.objects, Grd!Renamed(job)) = Grd!Denoted(job.item.objects, job.item.first)
  <1>1. PICK i \in {1, 2} : Grd!Denoted(job.item.objects, job.item.first) = {i}
    BY DEF Single
  <1>2. Grd!Renamed(job) = job.objects[i]
    BY <1>1 DEF Grd!Renamed
  <1>3. DOMAIN job.objects = {1, 2} /\ job.objects[1] # job.objects[2] /\ job.objects[i] \in Name
    BY PairFacts DEF Distinct
  <1>4. Grd!Denoted(job.objects, job.objects[i]) = {i}
    BY <1>3 DEF Grd!Denoted
  <1> QED
    BY <1>1, <1>2, <1>3, <1>4

LEMMA ReviewedAgainInv == ASSUME GrdInv, NEW w \in Grd!Window, Grd!ReviewedAgain(w) PROVE GrdInv'
  <1> USE DEF Grd!ReviewedAgain, Grd!Quiet, Grd!disk, Grd!main
  <1> DEFINE job == jobs[w]
  <1>0. job.at = "again"
    BY DEF Grd!Answered
  <1>1. /\ job \in Job /\ JobKept(w) /\ Selecting(job.item) /\ job.item.objects \in Pair
        /\ job.objects \in Grd!Edits(job.item.objects) /\ job.first = job.item.first
        /\ AskedAbout(w, job.item)
    BY <1>0, JobWorks DEF JobKept, WellReviewed, Reviewing
  <1>2. PICK accepted \in Grd!Distinguishable(job.objects) :
          jobs' = [jobs EXCEPT ![w] = Grd!Reviewed(job, accepted)]
    BY DEF Grd!Set
  <1>3. accepted \in BOOLEAN /\ (accepted => job.objects[1] # job.objects[2]) /\ job.objects \in Pair
    BY <1>1, EditFacts DEF Grd!Distinguishable, Selecting
  <1> DEFINE ended == [Grd!At(job, "done") EXCEPT !.accepted = accepted]
             one == Single(job.item.objects, job.item.first)
  <1>4. /\ ended \in Job /\ ended.at = "done" /\ ended.item = job.item /\ ended.objects = job.objects
        /\ ended.first = job.item.first /\ ended.accepted = accepted
    BY <1>1, <1>3 DEF Job, Grd!At
  <1>5. Cardinality(Grd!Denoted(job.item.objects, job.item.first)) = 1 <=> one
    BY <1>1, SingleIsOne DEF Objects
  <1>6. PICK new : new = Grd!Reviewed(job, accepted)
    OBVIOUS
  <1>7. new = IF job.objects = job.item.objects \/ job.item.first = Grd!Null THEN ended
              ELSE IF one THEN [ended EXCEPT !.first = Grd!Renamed(job)]
              ELSE IF ~ accepted THEN [ended EXCEPT !.first = Grd!Null]
              ELSE [ended EXCEPT !.at = "reselect"]
    BY <1>5, <1>6 DEF Grd!Reviewed, Grd!Cardinality, Cardinality
  <1>8. accepted => Distinct(job.objects)
    BY <1>3 DEF Distinct
  <1> HIDE DEF ended, one
  <1>9. new \in Job /\ WellReviewed(new) /\ new.item = job.item /\ new.at \in {"done", "reselect"}
    <2>1. CASE job.objects = job.item.objects \/ job.item.first = Grd!Null
      <3>1. new = ended
        BY <1>7, <2>1
      <3>2. accepted /\ ended.first # Grd!Null => Single(ended.objects, ended.first)
        BY <1>1, <1>3, <1>4, <1>8, <2>1, SingleFacts DEF Selecting
      <3>3. ~ Single(job.item.objects, Grd!Null)
        BY <1>1, NullFacts DEF Single, Objects
      <3> QED
        BY <1>1, <1>4, <2>1, <3>1, <3>2, <3>3 DEF WellReviewed, KeepsSelection, Reviewing
    <2>2. CASE job.objects # job.item.objects /\ job.item.first # Grd!Null /\ one
      <3>1. new = [ended EXCEPT !.first = Grd!Renamed(job)]
        BY <1>7, <2>2
      <3>2. accepted => /\ Grd!Renamed(job) \in Name
                        /\ Grd!Denoted(job.objects, Grd!Renamed(job))
                             = Grd!Denoted(job.item.objects, job.item.first)
        BY <1>1, <1>8, <2>2, RenamedFacts DEF one
      <3>3. Grd!Renamed(job) \in Name
        <4>1. PICK i \in {1, 2} : Grd!Denoted(job.item.objects, job.item.first) = {i}
          BY <2>2 DEF one, Single
        <4>2. Grd!Renamed(job) = job.objects[i]
          BY <4>1 DEF Grd!Renamed
        <4> QED
          BY <1>3, <4>2, PairFacts
      <3>4. /\ new \in Job /\ new.at = "done" /\ new.item = job.item /\ new.objects = job.objects
            /\ new.first = Grd!Renamed(job) /\ new.accepted = accepted
        BY <1>4, <3>1, <3>3 DEF Job
      <3>5. KeepsSelection(new)
        BY <2>2, <3>2, <3>4 DEF KeepsSelection, one, Single
      <3> QED
        BY <1>1, <3>4, <3>5 DEF WellReviewed, Reviewing
    <2>3. CASE job.objects # job.item.objects /\ job.item.first # Grd!Null /\ ~ one /\ ~ accepted
      <3>1. new = [ended EXCEPT !.first = Grd!Null]
        BY <1>7, <2>3
      <3>2. new \in Job /\ new.at = "done" /\ new.item = job.item /\ ~ new.accepted
        BY <1>4, <2>3, <3>1 DEF Job
      <3> QED
        BY <1>1, <3>2 DEF WellReviewed, KeepsSelection, Reviewing
    <2>4. CASE job.objects # job.item.objects /\ job.item.first # Grd!Null /\ ~ one /\ accepted
      <3>1. new = [ended EXCEPT !.at = "reselect"]
        BY <1>7, <2>4
      <3>2. new \in Job /\ new.at = "reselect" /\ new.item = job.item /\ new.objects = job.objects
        BY <1>4, <3>1 DEF Job, Grd!Question
      <3> QED
        BY <1>1, <1>8, <2>4, <3>2 DEF WellReviewed, Reviewing, one
    <2> QED
      BY <1>3, <2>1, <2>2, <2>3, <2>4
  <1> HIDE DEF job
  <1> QED
    BY <1>0, <1>1, <1>2, <1>6, <1>9, JobStep DEF job, Reviewing

LEMMA ReselectedInv == ASSUME GrdInv, NEW w \in Grd!Window, Grd!Reselected(w) PROVE GrdInv'
  <1> USE DEF Grd!Reselected, Grd!Quiet, Grd!disk, Grd!main
  <1>0. jobs[w].at = "reselect"
    BY DEF Grd!Answered
  <1>1. /\ jobs[w] \in Job /\ Selecting(jobs[w].item) /\ Distinct(jobs[w].objects)
        /\ jobs[w].item.first # Grd!Null /\ ~ Single(jobs[w].item.objects, jobs[w].item.first)
        /\ AskedAbout(w, jobs[w].item)
    BY <1>0, JobWorks DEF JobKept, WellReviewed, Reviewing
  <1>2. PICK first \in Grd!Names(jobs[w].objects) \cup {Grd!Null} :
          jobs' = [jobs EXCEPT ![w] = [Grd!At(jobs[w], "done") EXCEPT !.first = first]]
    BY DEF Grd!Set
  <1> DEFINE new == [Grd!At(jobs[w], "done") EXCEPT !.first = first]
  <1>3. first \in Name \cup {Grd!Null}
    BY <1>1, PairFacts DEF Distinct, Grd!Names
  <1>4. /\ new \in Job /\ new.at = "done" /\ new.item = jobs[w].item /\ new.objects = jobs[w].objects
        /\ new.first = first
    BY <1>1, <1>3 DEF Job, Grd!At
  <1> HIDE DEF new
  <1>5. first # Grd!Null => Single(jobs[w].objects, first)
    BY <1>1, SingleFacts DEF Distinct
  <1>6. WellReviewed(new)
    BY <1>1, <1>4, <1>5 DEF WellReviewed, KeepsSelection, Reviewing
  <1> QED
    BY <1>0, <1>1, <1>2, <1>4, <1>6, JobStep DEF Reviewing, new

(* A question that fails, or is refused, ends the job.                     *)
LEMMA JobFailsInv ==
  ASSUME GrdInv, NEW w \in Grd!Window, Grd!JobFails(w) \/ Grd!Refused(w)
  PROVE  GrdInv'
  <1> USE DEF Grd!JobFails, Grd!Refused, Grd!disk, Grd!main
  <1>0. jobs[w].at \in Grd!Question
    OBVIOUS
  <1>1. jobs[w].at # "none"
    BY <1>0 DEF Grd!Question
  <1>2. jobs[w] \in Job
    BY <1>1, JobWorks
  <1>3. PICK where \in {"error", "rejected"} : jobs' = [jobs EXCEPT ![w] = Grd!At(jobs[w], where)]
    BY DEF Grd!Set
  <1>4. Grd!At(jobs[w], where) \in Job /\ Grd!At(jobs[w], where).at = where
    BY <1>2, AtFacts
  <1>5. WellReviewed(Grd!At(jobs[w], where))
    BY <1>4 DEF WellReviewed, Reviewing
  <1> QED
    BY <1>1, <1>3, <1>4, <1>5, JobStep DEF Reviewing

-----------------------------------------------------------------------------
(* The record's thread.  An attempt starts without jobs.                   *)
LEMMA NoJobFacts ==
  /\ Grd!NoItem \in Item /\ Grd!NoJob \in Job /\ WellReviewed(Grd!NoJob)
  /\ Grd!NoJob.at = "none" /\ Grd!NoItem.inventory = 0
  BY DEF Grd!NoItem, Grd!NoJob, Item, Job, Objects, WellReviewed, Reviewing

LEMMA ForgetInv ==
  ASSUME GrdInv, Grd!Forget, UNCHANGED <<inventories, kept, stored, frames, about>>,
         stage' \in {"down", "over", "begin", "loop"}, frames # <<>> => stage' # "loop"
  PROVE  GrdInv'
  <1> USE NoJobFacts DEF Grd!Forget
  <1>1. GrdTypes'
    BY DEF GrdInv, GrdTypes
  <1>2. \A w \in Grd!Window : /\ jobs'[w] = Grd!NoJob /\ completed'[w] = Grd!NoJob
                              /\ WellReviewed(jobs'[w]) /\ WellReviewed(completed'[w])
    OBVIOUS
  <1>3. BeforeCommit'
    <2>1. ASSUME frames = <<>>, NEW w \in Grd!Window PROVE WindowKept(w)' /\ JobKept(w)'
      BY <1>2, <2>1 DEF GrdInv, BeforeCommit, WindowKept, JobKept, AskedAbout, Reviewing
    <2>2. Attempted'
      <3>1. next' = 1 /\ stage' # "wait" /\ \A w \in Grd!Window : w >= 1
        BY DEF Grd!Window
      <3>2. \A w \in Grd!Window : w \in Int
        BY DEF Grd!Window
      <3> QED
        BY <3>1, <3>2 DEF Attempted
    <2> QED
      BY <2>1, <2>2 DEF BeforeCommit
  <1>4. AfterCommit'
    BY <1>2 DEF GrdInv, AfterCommit
  <1> QED
    BY <1>1, <1>2, <1>3, <1>4 DEF GrdInv

LEMMA LaunchInv == ASSUME GrdInv, Grd!Start \/ Grd!Crash \/ Grd!Begin PROVE GrdInv'
  <1>1. Grd!Forget /\ UNCHANGED <<inventories, kept, stored, frames, about>>
    BY DEF Grd!Start, Grd!Crash, Grd!Begin, Grd!disk
  <1>2. stage' \in {"down", "over", "begin", "loop"} /\ (frames # <<>> => stage' # "loop")
    BY DEF Grd!Start, Grd!Crash, Grd!Begin, Grd!Goto
  <1> QED
    BY <1>1, <1>2, ForgetInv

(* Before the commit the thread may collect, and cancel what it queued.    *)
LEMMA ThreadStep ==
  ASSUME GrdInv, frames = <<>>, UNCHANGED <<inventories, kept, stored, frames, about>>,
         jobs' \in [Grd!Window -> Job], completed' \in [Grd!Window -> Job], next' \in Nat,
         \A w \in Grd!Window : \/ jobs'[w] = jobs[w] \/ jobs'[w] = Grd!NoJob
                               \/ jobs'[w].at = "queued" /\ jobs'[w].item = stored[w],
         \A w \in Grd!Window : \/ completed'[w] = completed[w]
                               \/ completed'[w] = jobs[w] /\ jobs[w].at = "done",
         Attempted', stage' # "finish"
  PROVE  GrdInv'
  <1>1. GrdTypes'
    BY DEF GrdInv, GrdTypes
  <1>2. \A w \in Grd!Window : WellReviewed(jobs'[w])
    BY NoJobFacts DEF GrdInv, WellReviewed, Reviewing
  <1>3. \A w \in Grd!Window : WellReviewed(completed'[w])
    BY DEF GrdInv
  <1>4. ASSUME NEW w \in Grd!Window PROVE WindowKept(w)' /\ JobKept(w)'
    <2>1. WindowKept(w) /\ JobKept(w)
      BY DEF GrdInv, BeforeCommit
    <2>2. JobKept(w)'
      BY <2>1, NoJobFacts DEF JobKept, AskedAbout, Reviewing
    <2>3. WindowKept(w)'
      BY <2>1 DEF WindowKept, JobKept, AskedAbout, Reviewing
    <2> QED
      BY <2>2, <2>3
  <1> QED
    BY <1>1, <1>2, <1>3, <1>4 DEF GrdInv, BeforeCommit, AfterCommit

LEMMA RaiseFacts ==
  ASSUME GrdInv, NEW what, Grd!Raise(what)
  PROVE  /\ jobs' \in [Grd!Window -> Job] /\ stage' = "drain"
         /\ \A w \in Grd!Window : jobs'[w] = jobs[w] \/ jobs'[w] = Grd!NoJob
  BY NoJobFacts DEF Grd!Raise, Grd!Goto, GrdInv, GrdTypes

LEMMA SubmitInv == ASSUME GrdInv, Grd!Submit PROVE GrdInv'
  <1> USE DEF Grd!Submit, Grd!disk
  <1>1. frames = <<>> /\ Attempted
    BY DEF GrdInv, AfterCommit, BeforeCommit
  <1>2. Windows \in Nat /\ next \in Nat /\ next <= Windows /\ next' = next + 1
    BY GrdConstants DEF Grd!GrdAssumption, GrdInv, GrdTypes
  <1>3. PICK new : new = [Grd!NoJob EXCEPT !.at = "queued", !.item = stored[next]]
    OBVIOUS
  <1>4. jobs' = [jobs EXCEPT ![next] = new]
    BY <1>3
  <1>5. next \in Grd!Window => stored[next] \in Item
    BY DEF GrdInv, GrdTypes
  <1>6. next \in Grd!Window => new \in Job /\ new.at = "queued" /\ new.item = stored[next]
    BY <1>3, <1>5, NoJobFacts DEF Grd!NoJob, Job
  <1>7. /\ jobs' \in [Grd!Window -> Job] /\ completed' \in [Grd!Window -> Job]
        /\ \A w \in Grd!Window : jobs'[w] = IF w = next THEN new ELSE jobs[w]
    <2>1. jobs \in [Grd!Window -> Job] /\ completed \in [Grd!Window -> Job]
      BY DEF GrdInv, GrdTypes
    <2>2. completed' = completed
      OBVIOUS
    <2> HIDE DEF Grd!Submit
    <2> QED
      BY <1>4, <1>6, <2>1, <2>2
  <1>8. Attempted'
    BY <1>1, <1>2, <1>6, <1>7 DEF Attempted, Grd!Window
  <1> QED
    BY <1>1, <1>2, <1>6, <1>7, <1>8, ThreadStep

LEMMA LoopStopsInv == ASSUME GrdInv, Grd!LoopStops \/ Grd!LoopFails PROVE GrdInv'
  <1> USE DEF Grd!LoopStops, Grd!LoopFails, Grd!disk
  <1>1. frames = <<>> /\ completed \in [Grd!Window -> Job] /\ next \in Nat
    BY DEF GrdInv, AfterCommit, GrdTypes
  <1>2. /\ jobs' \in [Grd!Window -> Job] /\ stage' = "drain"
        /\ \A w \in Grd!Window : jobs'[w] = jobs[w] \/ jobs'[w] = Grd!NoJob
    BY RaiseFacts
  <1>3. Attempted'
    BY <1>2 DEF Attempted
  <1> QED
    BY <1>1, <1>2, <1>3, ThreadStep

(* Steps that only move the thread.                                        *)
LEMMA MoveInv == ASSUME GrdInv, Grd!LoopEnds \/ Grd!Drained \/ Grd!SaveRejection PROVE GrdInv'
  <1> USE DEF Grd!LoopEnds, Grd!Drained, Grd!SaveRejection, Grd!disk, Grd!main, Grd!Goto
  <1>1. /\ frames = <<>> /\ completed \in [Grd!Window -> Job] /\ jobs \in [Grd!Window -> Job]
        /\ next \in Nat /\ Attempted
    BY DEF GrdInv, AfterCommit, BeforeCommit, GrdTypes
  <1>2. UNCHANGED <<inventories, kept, stored, frames, about, jobs, completed, next>>
    OBVIOUS
  <1>3. Attempted' /\ stage' # "finish"
    BY <1>1, <1>2 DEF Attempted
  <1> QED
    BY <1>1, <1>2, <1>3, ThreadStep

LEMMA CollectInv == ASSUME GrdInv, NEW w \in Grd!Window, Grd!Collect(w) PROVE GrdInv'
  <1> USE DEF Grd!Collect, Grd!disk
  <1>1. /\ frames = <<>> /\ completed \in [Grd!Window -> Job] /\ jobs \in [Grd!Window -> Job]
        /\ next \in Nat /\ Attempted
    BY DEF GrdInv, AfterCommit, BeforeCommit, GrdTypes
  <1>2. CASE /\ jobs[w].at = "done"
             /\ completed' = [completed EXCEPT ![w] = jobs[w]]
             /\ jobs' = [jobs EXCEPT ![w] = Grd!NoJob] /\ UNCHANGED stage
    <2>1. /\ completed' \in [Grd!Window -> Job] /\ jobs' \in [Grd!Window -> Job]
          /\ completed'[w] = jobs[w] /\ jobs'[w] = Grd!NoJob
          /\ \A v \in Grd!Window : v # w => completed'[v] = completed[v] /\ jobs'[v] = jobs[v]
      BY <1>1, <1>2, NoJobFacts
    <2>2. Attempted'
      BY <1>1, <1>2, <2>1 DEF Attempted
    <2>3. stage' # "finish"
      BY <1>2
    <2> QED
      BY <1>1, <1>2, <2>1, <2>2, <2>3, ThreadStep
  <1>3. CASE Grd!Raise(jobs[w].at) /\ UNCHANGED completed
    <2>1. /\ jobs' \in [Grd!Window -> Job] /\ stage' = "drain"
          /\ \A v \in Grd!Window : jobs'[v] = jobs[v] \/ jobs'[v] = Grd!NoJob
      BY <1>3, RaiseFacts
    <2>2. Attempted'
      BY <2>1 DEF Attempted
    <2> QED
      BY <1>1, <1>3, <2>1, <2>2, ThreadStep
  <1> QED
    BY <1>2, <1>3

(* A commit finds a reviewed frame for every window.                       *)
LEMMA CommitInv == ASSUME GrdInv, Grd!Commit PROVE GrdInv'
  <1> USE DEF Grd!Commit, Grd!main, Grd!Goto
  <1>1. /\ frames = <<>> /\ completed \in [Grd!Window -> Job] /\ next > Windows /\ next \in Nat
        /\ Windows \in Nat \ {0}
    BY GrdConstants DEF GrdInv, AfterCommit, BeforeCommit, GrdTypes, Attempted, Grd!GrdAssumption
  <1>2. ASSUME NEW w \in Grd!Window
        PROVE  /\ jobs[w].at = "none" /\ completed[w].at = "done" /\ AskedAbout(w, completed[w].item)
    <2>1. jobs[w].at = "none"
      BY DEF Grd!Submitted
    <2>2. w < next
      BY <1>1 DEF Grd!Window
    <2> QED
      BY <1>1, <2>1, <2>2 DEF GrdInv, BeforeCommit, Attempted, WindowKept
  <1>3. frames' = completed /\ frames' # <<>>
    <2>1. 1 \in DOMAIN completed
      BY <1>1 DEF Grd!Window
    <2>2. DOMAIN <<>> = {}
      OBVIOUS
    <2> QED
      BY <2>1, <2>2
  <1>4. GrdTypes'
    BY DEF GrdInv, GrdTypes
  <1>5. AfterCommit'
    BY <1>1, <1>2, <1>3 DEF AfterCommit, GrdInv, AskedAbout
  <1> QED
    BY <1>3, <1>4, <1>5 DEF GrdInv, BeforeCommit

LEMMA ClearInv == ASSUME GrdInv, Grd!Clear PROVE GrdInv'
  <1> USE DEF Grd!Clear, Grd!main, Grd!Goto
  <1>1. frames # <<>>
    BY DEF GrdInv, BeforeCommit
  <1>2. GrdTypes'
    BY NoJobFacts DEF GrdInv, GrdTypes
  <1>3. AfterCommit'
    BY <1>1 DEF GrdInv, AfterCommit
  <1> QED
    BY <1>1, <1>2, <1>3 DEF GrdInv, BeforeCommit

LEMMA GrdStarts == ASSUME Grd!Init PROVE GrdInv
  <1> USE NoJobFacts DEF Grd!Init
  <1>1. GrdTypes
    BY DEF GrdTypes
  <1>2. \A w \in Grd!Window : WindowKept(w) /\ JobKept(w)
    BY DEF WindowKept, JobKept, Reviewing
  <1>3. Attempted
    BY DEF Attempted
  <1> QED
    BY <1>1, <1>2, <1>3 DEF GrdInv, BeforeCommit, AfterCommit

LEMMA GrdStep == ASSUME GrdInv, [Grd!Next]_(Grd!vars) PROVE GrdInv'
  <1>1. CASE Grd!Start \/ Grd!Crash
    BY <1>1, LaunchInv
  <1>2. CASE Grd!Record
    BY <1>2, LaunchInv, SubmitInv, LoopStopsInv, MoveInv, CommitInv, ClearInv, CollectInv DEF Grd!Record
  <1>3. CASE Grd!LoopFails
    BY <1>3, LoopStopsInv
  <1>4. CASE \E w \in Grd!Window : Grd!Job(w) \/ Grd!JobFails(w)
    BY <1>4, StartJobInv, AskInv, InventoryAnsweredInv, SelectionAnsweredInv, LanguageReviewedInv,
       NamesCorrectedInv, ReviewedAgainInv, ReselectedInv, JobFailsInv DEF Grd!Job
  <1>5. CASE UNCHANGED Grd!vars
    BY <1>5 DEF Grd!vars, Grd!disk, Grd!main, GrdInv, GrdTypes, BeforeCommit, AfterCommit, Attempted,
       WindowKept, JobKept, AskedAbout
  <1> QED
    BY <1>1, <1>2, <1>3, <1>4, <1>5 DEF Grd!Next, Grd!Done

LEMMA GrdIdle == ASSUME GrdUnused PROVE GrdInv
  <1> USE NoJobFacts DEF GrdUnused
  <1>1. GrdTypes
    BY DEF GrdTypes
  <1>2. \A w \in Grd!Window : WindowKept(w) /\ JobKept(w)
    BY DEF WindowKept, JobKept, Reviewing
  <1>3. Attempted
    BY DEF Attempted
  <1> QED
    BY <1>1, <1>2, <1>3 DEF GrdInv, BeforeCommit, AfterCommit

(* What is kept of a window agrees with what its job knows.                *)
THEOREM GrdInvariant == RecordSpec => []GrdInv
  <1>1. RecordInit => GrdInv
    BY GrdStarts, GrdIdle DEF RecordInit
  <1>2. ASSUME GrdInv, [RecordNext]_<<vars, grd>> PROVE GrdInv'
    <2>1. CASE Grd!Next
      BY <1>2, <2>1, GrdStep
    <2>2. CASE UNCHANGED grd
      <3>1. UNCHANGED Grd!vars
        BY <2>2 DEF grd, Grd!vars, Grd!disk, Grd!main
      <3> QED
        BY <1>2, <3>1, GrdStep
    <2> QED
      BY <1>2, <2>1, <2>2 DEF RecordNext
  <1> QED
    BY <1>1, <1>2, PTL DEF RecordSpec

(* Question 2 of a window is asked about one inventory, through failures   *)
(* and restarts, the one that a committed record shows.                    *)
THEOREM OneInventoryAsked == RecordSpec => []OneInventory
  <1>1. ASSUME GrdInv, NEW w \in Grd!Window PROVE Cardinality(about[w]) <= 1
    <2>1. PICK n : about[w] \subseteq {n}
      BY <1>1 DEF GrdInv, BeforeCommit, AfterCommit, WindowKept
    <2>2. about[w] = {} \/ about[w] = {n}
      BY <2>1
    <2> QED
      <3>1. Cardinality({}) = 0 /\ Cardinality({n}) = 1
        BY FS_EmptySet, FS_Singleton
      <3>2. Cardinality(about[w]) = 0 \/ Cardinality(about[w]) = 1
        BY <2>2, <3>1
      <3> QED
        BY <3>2
  <1>2. GrdInv => OneInventory
    BY <1>1 DEF OneInventory, Grd!OneInventory, GrdInv, AfterCommit, Grd!Cardinality, Cardinality
  <1> QED
    BY <1>2, GrdInvariant, PTL

(* The first object of a registered frame is the one that question 2       *)
(* selected, whatever its name has become.                                 *)
THEOREM SelectionIsKept == RecordSpec => []SelectionKept
  <1>1. ASSUME GrdInv, NEW w \in DOMAIN frames
        PROVE  LET frame == frames[w]
                   meant == Grd!Denoted(frame.item.objects, frame.item.first)
               IN  /\ frame.at = "done"
                   /\ frame.accepted =>
                        /\ frame.first # Grd!Null => Cardinality(Grd!Denoted(frame.objects, frame.first)) = 1
                        /\ Cardinality(meant) = 1 => Grd!Denoted(frame.objects, frame.first) = meant
                        /\ frame.item.first = Grd!Null => frame.first = Grd!Null
    <2>1. frames # <<>>
      BY DOMAIN <<>> = {}
    <2>2. w \in Grd!Window /\ frames[w] \in Job /\ frames[w].at = "done" /\ WellReviewed(frames[w])
      BY <1>1, <2>1 DEF GrdInv, AfterCommit
    <2>3. KeepsSelection(frames[w])
      BY <2>2 DEF WellReviewed
    <2>4. frames[w].objects \in Objects /\ frames[w].item.objects \in Objects
      BY <2>2 DEF Job, Item
    <2> QED
      BY <2>2, <2>3, <2>4, SingleIsOne DEF KeepsSelection
  <1>2. GrdInv => SelectionKept
    BY <1>1 DEF SelectionKept, Grd!SelectionKept, Grd!Cardinality, Cardinality
  <1> QED
    BY <1>2, GrdInvariant, PTL

-----------------------------------------------------------------------------
(* Contact stages: what the answers of an item say of each other, in the   *)
(* answers a.                                                              *)
Says == {"yes", "no", "unboxed", "malformed"}
Kinds == {"proposal", "review", "frame", "initial", "verdict", "reuse_bbox", "box"}
Asking == [unit : Kinds, of : Seq(Nat), says : Says, loan : BOOLEAN]

Good(a, x) ==
  /\ x \in Seq(1 .. Len(a)) /\ x # <<>>
  /\ \A n \in 3 .. Len(x) : Tail(a[x[n]].of) = Tail(SubSeq(x, 1, n - 1))
  /\ Len(x) > 1 => a[x[2]].of = <<x[1]>> \/ a[x[2]].loan

(* Answers are never forgotten.                                            *)
Extends(a, b) ==
  /\ Len(a) \in Nat /\ Len(b) \in Nat /\ Len(a) <= Len(b)
  /\ \A n \in 1 .. Len(a) : b[n] = a[n]

LEMMA GoodStays ==
  ASSUME NEW a, NEW b, NEW x, Good(a, x), Extends(a, b)
  PROVE  Good(b, x)
  <1>1. x \in Seq(1 .. Len(a)) /\ x \in Seq(1 .. Len(b)) /\ x # <<>>
    BY DEF Good, Extends
  <1>2. \A n \in 1 .. Len(x) : b[x[n]] = a[x[n]]
    BY <1>1 DEF Extends
  <1>3. Len(x) \in Nat /\ Len(x) > 0
    BY <1>1
  <1>4. ASSUME NEW n \in 3 .. Len(x) PROVE Tail(b[x[n]].of) = Tail(SubSeq(x, 1, n - 1))
    <2>1. b[x[n]] = a[x[n]]
      BY <1>2, <1>3
    <2>2. QED BY <2>1 DEF Good
  <1>5. Len(x) > 1 => b[x[2]].of = <<x[1]>> \/ b[x[2]].loan
    <2>1. Len(x) > 1 => b[x[2]] = a[x[2]]
      BY <1>2, <1>3
    <2>2. QED BY <2>1 DEF Good
  <1>6. QED BY <1>1, <1>4, <1>5 DEF Good

LEMMA FrontOfAppend ==
  ASSUME NEW S, NEW x \in Seq(S), NEW y \in S
  PROVE  /\ Append(x, y) \in Seq(S) /\ Append(x, y) # <<>> /\ Len(Append(x, y)) = Len(x) + 1
         /\ Append(x, y)[Len(x) + 1] = y /\ \A n \in 1 .. Len(x) : Append(x, y)[n] = x[n]
         /\ \A n \in 0 .. Len(x) : SubSeq(Append(x, y), 1, n) = SubSeq(x, 1, n)
         /\ SubSeq(x, 1, Len(x)) = x
  <1>1. Append(x, y) \in Seq(S) /\ Len(Append(x, y)) = Len(x) + 1 /\ Len(x) \in Nat
    OBVIOUS
  <1>2. \A n \in 0 .. Len(x) : SubSeq(Append(x, y), 1, n) = SubSeq(x, 1, n)
    <2>1. TAKE n \in 0 .. Len(x)
    <2> DEFINE s == SubSeq(Append(x, y), 1, n)
               r == SubSeq(x, 1, n)
    <2>2. s \in Seq(S) /\ Len(s) = n /\ \A i \in 1 .. n : s[i] = x[i]
      BY <1>1, SubSeqProperties
    <2>3. r \in Seq(S) /\ Len(r) = n /\ \A i \in 1 .. n : r[i] = x[i]
      BY <1>1, SubSeqProperties
    <2> HIDE DEF s, r
    <2>4. s = r
      BY <2>2, <2>3, SeqEqual
    <2>5. QED BY <2>4 DEF s, r
  <1>3. SubSeq(x, 1, Len(x)) = x
    <2> DEFINE r == SubSeq(x, 1, Len(x))
    <2>1. r \in Seq(S) /\ Len(r) = Len(x) /\ \A i \in 1 .. Len(x) : r[i] = x[i]
      BY <1>1, SubSeqProperties
    <2> HIDE DEF r
    <2>2. r = x
      BY <2>1, SeqEqual
    <2>3. QED BY <2>2 DEF r
  <1>4. QED BY <1>1, <1>2, <1>3

LEMMA GoodGrows ==
  ASSUME NEW a, NEW x, Good(a, x), Len(a) \in Nat, NEW y \in 1 .. Len(a),
         Len(x) = 1 => a[y].of = <<x[1]>> \/ a[y].loan,
         Len(x) > 1 => Tail(a[y].of) = Tail(x)
  PROVE  Good(a, Append(x, y))
  <1> DEFINE z == Append(x, y)
  <1>1. x \in Seq(1 .. Len(a)) /\ x # <<>> /\ Len(x) \in Nat /\ Len(x) > 0
    BY DEF Good
  <1>2. /\ z \in Seq(1 .. Len(a)) /\ z # <<>> /\ Len(z) = Len(x) + 1
        /\ z[Len(x) + 1] = y /\ \A n \in 1 .. Len(x) : z[n] = x[n]
        /\ \A n \in 0 .. Len(x) : SubSeq(z, 1, n) = SubSeq(x, 1, n)
        /\ SubSeq(x, 1, Len(x)) = x
    BY <1>1, FrontOfAppend
  <1> HIDE DEF z
  <1>3. ASSUME NEW n \in 3 .. Len(z) PROVE Tail(a[z[n]].of) = Tail(SubSeq(z, 1, n - 1))
    <2>1. n \in Nat /\ n - 1 \in 0 .. Len(x) /\ SubSeq(z, 1, n - 1) = SubSeq(x, 1, n - 1)
      BY <1>1, <1>2
    <2>2. CASE n = Len(z)
      <3>1. z[n] = y /\ SubSeq(x, 1, n - 1) = x
        BY <1>1, <1>2, <2>2
      <3>2. Len(x) > 1
        BY <1>1, <1>2, <2>2
      <3>3. Tail(a[y].of) = Tail(x)
        BY <3>2
      <3>4. QED BY <2>1, <3>1, <3>3
    <2>3. CASE n # Len(z)
      <3>1. n \in 3 .. Len(x) /\ z[n] = x[n]
        BY <1>1, <1>2, <2>1, <2>3
      <3>2. Tail(a[x[n]].of) = Tail(SubSeq(x, 1, n - 1))
        BY <3>1 DEF Good
      <3>3. QED BY <2>1, <3>1, <3>2
    <2>4. QED BY <2>2, <2>3
  <1>4. a[z[2]].of = <<z[1]>> \/ a[z[2]].loan
    <2>1. CASE Len(x) = 1
      BY <1>2, <2>1
    <2>2. CASE Len(x) > 1
      <3>1. z[1] = x[1] /\ z[2] = x[2]
        BY <1>1, <1>2, <2>2
      <3>2. QED BY <2>2, <3>1 DEF Good
    <2>3. Len(x) = 1 \/ Len(x) > 1
      <3> DEFINE len == Len(x)
      <3>1. len \in Nat /\ len > 0
        BY <1>1
      <3>2. ASSUME NEW m \in Nat, m > 0 PROVE m = 1 \/ m > 1
        BY <3>2
      <3> HIDE DEF len
      <3>3. len = 1 \/ len > 1
        BY <3>1, <3>2
      <3>4. QED BY <3>3 DEF len
    <2>4. QED BY <2>1, <2>2, <2>3
  <1>5. Good(a, z)
    BY <1>2, <1>3, <1>4 DEF Good
  <1>6. QED BY <1>5 DEF z

LEMMA GoodStarts ==
  ASSUME NEW a, Len(a) \in Nat, NEW p \in 1 .. Len(a)
  PROVE  Good(a, <<p>>) /\ Len(<<p>>) = 1 /\ <<p>>[1] = p
  BY DEF Good

LEMMA ContactFacts ==
  ASSUME NEW a, NEW x, Good(a, x)
  PROVE  /\ Good(a, Contact(x)) /\ Len(Contact(x)) < 4
         /\ Len(x) < 4 => Contact(x) = x
         /\ Len(x) > 2 => Contact(x) = SubSeq(x, 1, 3)
  <1> DEFINE m == IF Len(x) < 3 THEN Len(x) ELSE 3
             z == SubSeq(x, 1, m)
  <1>1. x \in Seq(1 .. Len(a)) /\ x # <<>> /\ Len(x) \in Nat /\ Len(x) > 0
    BY DEF Good
  <1>2. m \in 1 .. Len(x) /\ m < 4 /\ (Len(x) < 4 => m = Len(x)) /\ (Len(x) > 2 => m = 3)
    <2> DEFINE len == Len(x)
    <2>1. len \in Nat /\ len > 0 /\ m = IF len < 3 THEN len ELSE 3
      BY <1>1
    <2> HIDE DEF len, m
    <2>2. m \in 1 .. len /\ m < 4 /\ (len < 4 => m = len) /\ (len > 2 => m = 3)
      BY <2>1
    <2>3. QED BY <2>2 DEF len
  <1>3. Contact(x) = z
    BY DEF Contact
  <1>4. SubSeq(x, 1, Len(x)) = x
    <2> DEFINE r == SubSeq(x, 1, Len(x))
    <2>1. r \in Seq(1 .. Len(a)) /\ Len(r) = Len(x) /\ \A i \in 1 .. Len(x) : r[i] = x[i]
      BY <1>1, SubSeqProperties
    <2> HIDE DEF r
    <2>2. r = x
      BY <1>1, <2>1, SeqEqual
    <2>3. QED BY <2>2 DEF r
  <1> HIDE DEF m
  <1>5. z \in Seq(1 .. Len(a)) /\ Len(z) = m /\ \A i \in 1 .. m : z[i] = x[i]
    BY <1>1, <1>2, SubSeqProperties
  <1>6. ASSUME NEW n \in 1 .. m - 1 PROVE SubSeq(z, 1, n) = SubSeq(x, 1, n)
    <2> DEFINE s == SubSeq(z, 1, n)
               r == SubSeq(x, 1, n)
    <2> HIDE DEF z
    <2>1. s \in Seq(1 .. Len(a)) /\ Len(s) = n /\ \A i \in 1 .. n : s[i] = z[i]
      BY <1>2, <1>5, SubSeqProperties
    <2>2. r \in Seq(1 .. Len(a)) /\ Len(r) = n /\ \A i \in 1 .. n : r[i] = x[i]
      BY <1>1, <1>2, SubSeqProperties
    <2>3. \A i \in 1 .. n : s[i] = r[i]
      BY <1>2, <1>5, <2>1, <2>2
    <2> HIDE DEF s, r
    <2>4. s = r
      BY <2>1, <2>2, <2>3, SeqEqual
    <2>5. QED BY <2>4 DEF s, r
  <1> HIDE DEF z
  <1>7. Good(a, z)
    <2>1. \A n \in 3 .. Len(z) : Tail(a[z[n]].of) = Tail(SubSeq(z, 1, n - 1))
      <3>1. TAKE n \in 3 .. Len(z)
      <3>2. n \in 3 .. Len(x) /\ n - 1 \in 1 .. m - 1 /\ z[n] = x[n]
        BY <1>1, <1>2, <1>5
      <3>3. Tail(a[x[n]].of) = Tail(SubSeq(x, 1, n - 1))
        BY <3>2 DEF Good
      <3>4. QED BY <1>6, <3>2, <3>3
    <2>2. Len(z) > 1 => a[z[2]].of = <<z[1]>> \/ a[z[2]].loan
      <3>1. SUFFICES ASSUME Len(z) > 1 PROVE a[z[2]].of = <<z[1]>> \/ a[z[2]].loan
        OBVIOUS
      <3>2. z[1] = x[1] /\ z[2] = x[2] /\ Len(x) > 1
        BY <1>1, <1>2, <1>5, <3>1
      <3>3. QED BY <3>2 DEF Good
    <2>3. z # <<>>
      BY <1>2, <1>5
    <2>4. QED BY <1>5, <2>1, <2>2, <2>3 DEF Good
  <1>8. QED BY <1>2, <1>3, <1>4, <1>5, <1>7 DEF z

(* Checkpoint t of U has x under name u and key k.                         *)
Holds(U, t, u, k, x) == \E e \in U[t] : e.unit = u /\ e.key = k /\ e.value = x

ReviewUnit == {"review", "review:recovered"}
SegmentUnit == {"segment:sta", "segment:cpa", "segment:review"}
Paid == {"proposal", "proposal:recovered", "review", "review:recovered", "frame", "initial",
         "reuse_bbox", "box"}
Unpaid == {"points", "final", "attempt"} \cup SegmentUnit
Kind(u) == IF u = "proposal:recovered" THEN "proposal"
           ELSE IF u = "review:recovered" THEN "review" ELSE u

(* The proposal of the checkpoint is malformed, so that it is recovered.   *)
BadIn(a, U, t) == \E p : Holds(U, t, "proposal", <<>>, p) /\ a[p].says = "malformed"

(* A review that the key of a frame must name.                             *)
Aside(U, t, r) ==
  \E u \in ReviewUnit : \E k : Holds(U, t, u, k, r) /\ (u # "review" \/ k # <<>>)

(* Which answers the answer under a key is of.                             *)
RightReview(a, U, t, k, r) ==
  IF k = <<>> THEN a[r].loan \/ \E p : Holds(U, t, "proposal", <<>>, p) /\ a[r].of = <<p>>
  ELSE a[r].of = k /\ \E p : Holds(U, t, "proposal:recovered", <<>>, p) /\ k = <<p>>

RightFrame(a, U, t, k, f) ==
  \E r : /\ Tail(a[f].of) = <<r>>
         /\ IF k = <<>> THEN Holds(U, t, "review", <<>>, r) ELSE k = <<r>> /\ Aside(U, t, r)

RightInitial(a, U, seed, k, i) ==
  IF seed = <<>> THEN \E f : Holds(U, "cpa", "frame", k, f) /\ Tail(a[i].of) = Append(Tail(a[f].of), f)
  ELSE k = seed /\ a[i].of = seed

RightPoints(a, U, k, x) ==
  \E i : \E v \in 1 .. Len(a) :
    /\ Holds(U, "cpa", "initial", k, i) /\ x = <<i, v>>
    /\ a[v].unit = "verdict" /\ Tail(a[v].of) = Append(Tail(a[i].of), i)

Right(a, U, seed, t, u, k, x) ==
  /\ u \in Paid \cup Unpaid
  /\ u \in Paid => x \in 1 .. Len(a) /\ a[x].unit = Kind(u)
  /\ u \in {"proposal", "proposal:recovered"} => k = <<>>
  /\ u = "proposal:recovered" => BadIn(a, U, t) /\ a[x].says # "malformed"
  /\ u \in ReviewUnit => RightReview(a, U, t, k, x)
  /\ u = "review:recovered" => \E r : Holds(U, t, "review", k, r) /\ a[r].says = "malformed"
  /\ u = "frame" => RightFrame(a, U, t, k, x)
  /\ u = "initial" => t = "cpa" /\ RightInitial(a, U, seed, k, x)
  /\ u = "points" => t = "cpa" /\ RightPoints(a, U, k, x)
  /\ u \in SegmentUnit => Good(a, x)
  /\ u = "final" => x = Contact(k)
  /\ u \in {"box", "reuse_bbox"} => a[x].of = k

AllRight(a, U, seed) ==
  \A t \in Task : \A u, k, x : Holds(U, t, u, k, x) => Right(a, U, seed, t, u, k, x)
OneValue(U) ==
  \A t \in Task : \A u, k, x, y : Holds(U, t, u, k, x) /\ Holds(U, t, u, k, y) => x = y
OnePlace(U) ==
  \A t \in Task : \A u, v \in Paid : \A k, l, x :
    Holds(U, t, u, k, x) /\ Holds(U, t, v, l, x) => u = v /\ k = l
NoLoanWhereBad(a, U) ==
  \A t \in Task : \A u \in ReviewUnit : \A k, r :
    Holds(U, t, u, k, r) /\ a[r].loan => ~ BadIn(a, U, t)
NoFrameOfSeed(U, seed) == seed # <<>> => \A k, f : ~ Holds(U, "cpa", "frame", k, f)

Evidence(a, U, seed) ==
  /\ AllRight(a, U, seed) /\ OneValue(U) /\ OnePlace(U)
  /\ NoLoanWhereBad(a, U) /\ NoFrameOfSeed(U, seed)

Keeps(U, V, t) == \A u, k, x : Holds(U, t, u, k, x) => Holds(V, t, u, k, x)

LEMMA HeldAnswer ==
  ASSUME NEW a, NEW U, NEW seed, AllRight(a, U, seed), NEW t \in Task, NEW u \in Paid,
         NEW k, NEW x, Holds(U, t, u, k, x)
  PROVE  x \in 1 .. Len(a) /\ a[x].unit = Kind(u)
  BY DEF AllRight, Right

LEMMA PaidUnits ==
  /\ "proposal" \in Paid /\ "proposal:recovered" \in Paid /\ "review" \in Paid
  /\ "review:recovered" \in Paid /\ "frame" \in Paid /\ "initial" \in Paid
  /\ "box" \in Paid /\ "reuse_bbox" \in Paid /\ ReviewUnit \subseteq Paid
  BY DEF Paid, ReviewUnit

LEMMA BadStays ==
  ASSUME NEW a, NEW b, NEW U, NEW V, NEW seed, AllRight(a, U, seed), Extends(a, b),
         NEW t \in Task, Keeps(U, V, t), BadIn(a, U, t)
  PROVE  BadIn(b, V, t)
  <1>1. PICK p : Holds(U, t, "proposal", <<>>, p) /\ a[p].says = "malformed"
    BY DEF BadIn
  <1>2. p \in 1 .. Len(a)
    <2>1. QED BY <1>1, PaidUnits, HeldAnswer
  <1>3. Holds(V, t, "proposal", <<>>, p) /\ b[p].says = "malformed"
    BY <1>1, <1>2 DEF Keeps, Extends
  <1>4. QED BY <1>3 DEF BadIn

(* What is right stays right when answers and units are added.             *)
LEMMA RightStays ==
  ASSUME NEW a, NEW b, NEW U, NEW V, NEW seed, AllRight(a, U, seed), Extends(a, b),
         NEW t \in Task, Keeps(U, V, t), NEW u, NEW k, NEW x, Holds(U, t, u, k, x)
  PROVE  Right(b, V, seed, t, u, k, x)
  <1>1. Right(a, U, seed, t, u, k, x)
    BY DEF AllRight
  <1>2. \A w \in Paid : \A l, y : Holds(U, t, w, l, y) => y \in 1 .. Len(a) /\ b[y] = a[y]
    BY HeldAnswer DEF Extends
  <1>3. 1 .. Len(a) \subseteq 1 .. Len(b)
    BY DEF Extends
  <1>4. /\ "proposal" \in Paid /\ "proposal:recovered" \in Paid /\ "review" \in Paid /\ "frame" \in Paid
        /\ "initial" \in Paid /\ "box" \in Paid /\ "reuse_bbox" \in Paid /\ ReviewUnit \subseteq Paid
    BY PaidUnits
  <1>5. u \in Paid => x \in 1 .. Len(b) /\ b[x] = a[x]
    BY <1>2, <1>3
  <1>6. u = "proposal:recovered" => BadIn(b, V, t) /\ b[x].says # "malformed"
    BY <1>1, <1>4, <1>5, BadStays DEF Right
  <1>7. u \in ReviewUnit => RightReview(b, V, t, k, x)
    <2>1. SUFFICES ASSUME u \in ReviewUnit PROVE RightReview(b, V, t, k, x)
      OBVIOUS
    <2>2. RightReview(a, U, t, k, x) /\ b[x] = a[x]
      BY <1>1, <1>4, <1>5, <2>1 DEF Right
    <2>3. QED BY <2>2 DEF RightReview, Keeps
  <1>8. u = "review:recovered" => \E r : Holds(V, t, "review", k, r) /\ b[r].says = "malformed"
    <2>1. SUFFICES ASSUME u = "review:recovered"
                   PROVE \E r : Holds(V, t, "review", k, r) /\ b[r].says = "malformed"
      OBVIOUS
    <2>2. PICK r : Holds(U, t, "review", k, r) /\ a[r].says = "malformed"
      BY <1>1, <2>1 DEF Right
    <2>3. b[r] = a[r] /\ Holds(V, t, "review", k, r)
      BY <1>2, <1>4, <2>2 DEF Keeps
    <2>4. QED BY <2>2, <2>3
  <1>9. u = "frame" => RightFrame(b, V, t, k, x)
    <2>1. SUFFICES ASSUME u = "frame" PROVE RightFrame(b, V, t, k, x)
      OBVIOUS
    <2>2. RightFrame(a, U, t, k, x) /\ b[x] = a[x]
      BY <1>1, <1>4, <1>5, <2>1 DEF Right
    <2>3. \A r : Aside(U, t, r) => Aside(V, t, r)
      BY DEF Aside, Keeps
    <2>4. QED BY <2>2, <2>3 DEF RightFrame, Keeps
  <1>10. u = "initial" => t = "cpa" /\ RightInitial(b, V, seed, k, x)
    <2>1. SUFFICES ASSUME u = "initial" PROVE t = "cpa" /\ RightInitial(b, V, seed, k, x)
      OBVIOUS
    <2>2. t = "cpa" /\ RightInitial(a, U, seed, k, x) /\ b[x] = a[x]
      BY <1>1, <1>4, <1>5, <2>1 DEF Right
    <2>3. CASE seed = <<>>
      <3>1. PICK f : Holds(U, "cpa", "frame", k, f) /\ Tail(a[x].of) = Append(Tail(a[f].of), f)
        BY <2>2, <2>3 DEF RightInitial
      <3>2. b[f] = a[f] /\ Holds(V, "cpa", "frame", k, f)
        BY <1>2, <1>4, <2>2, <3>1 DEF Keeps
      <3>3. QED BY <2>2, <2>3, <3>1, <3>2 DEF RightInitial
    <2>4. CASE seed # <<>>
      BY <2>2, <2>4 DEF RightInitial
    <2>5. QED BY <2>3, <2>4
  <1>11. u = "points" => t = "cpa" /\ RightPoints(b, V, k, x)
    <2>1. SUFFICES ASSUME u = "points" PROVE t = "cpa" /\ RightPoints(b, V, k, x)
      OBVIOUS
    <2>2. t = "cpa" /\ RightPoints(a, U, k, x)
      BY <1>1, <2>1 DEF Right
    <2> DEFINE Is(i, v) == /\ Holds(U, "cpa", "initial", k, i) /\ x = <<i, v>>
                           /\ a[v].unit = "verdict" /\ Tail(a[v].of) = Append(Tail(a[i].of), i)
    <2>6. \E i : \E v \in 1 .. Len(a) : Is(i, v)
      BY <2>2 DEF RightPoints
    <2> HIDE DEF Is
    <2>7. PICK i : \E v \in 1 .. Len(a) : Is(i, v)
      BY <2>6
    <2>8. PICK v \in 1 .. Len(a) : Is(i, v)
      BY <2>7
    <2>3. /\ Holds(U, "cpa", "initial", k, i) /\ x = <<i, v>>
          /\ a[v].unit = "verdict" /\ Tail(a[v].of) = Append(Tail(a[i].of), i)
      BY <2>8 DEF Is
    <2>4. b[i] = a[i] /\ b[v] = a[v] /\ v \in 1 .. Len(b) /\ Holds(V, "cpa", "initial", k, i)
      BY <1>2, <1>3, <1>4, <2>2, <2>3 DEF Keeps, Extends
    <2>5. QED BY <2>2, <2>3, <2>4 DEF RightPoints
  <1>12. u \in SegmentUnit => Good(b, x)
    BY <1>1, GoodStays DEF Right
  <1>13. u \in {"box", "reuse_bbox"} => b[x].of = k
    BY <1>1, <1>4, <1>5 DEF Right
  <1>14. QED BY <1>1, <1>5, <1>6, <1>7, <1>8, <1>9, <1>10, <1>11, <1>12, <1>13 DEF Right

(* One unit more, with the answers it needs.                               *)
Adds(U, V, t, u, k, x) ==
  \A s \in Task : \A v, l, y :
    Holds(V, s, v, l, y) <=> Holds(U, s, v, l, y) \/ (s = t /\ v = u /\ l = k /\ y = x)

LEMMA EvidenceGrows ==
  ASSUME NEW a, NEW b, NEW U, NEW V, NEW seed, Evidence(a, U, seed), Extends(a, b),
         NEW t \in Task, NEW u, NEW k, NEW x, Adds(U, V, t, u, k, x),
         Right(b, V, seed, t, u, k, x),
         \A y : Holds(U, t, u, k, y) => y = x,
         u \in Paid => x \notin 1 .. Len(a),
         u \in ReviewUnit /\ b[x].loan => ~ BadIn(a, U, t),
         u = "proposal" => b[x].says # "malformed",
         u = "frame" /\ t = "cpa" => seed = <<>>
  PROVE  Evidence(b, V, seed)
  <1>1. AllRight(a, U, seed) /\ OneValue(U) /\ OnePlace(U) /\ NoLoanWhereBad(a, U) /\ NoFrameOfSeed(U, seed)
    BY DEF Evidence
  <1>2. \A s \in Task : Keeps(U, V, s)
    BY DEF Adds, Keeps
  <1>3. AllRight(b, V, seed)
    <2>1. ASSUME NEW s \in Task, NEW v, NEW l, NEW y, Holds(V, s, v, l, y)
          PROVE  Right(b, V, seed, s, v, l, y)
      <3>1. CASE Holds(U, s, v, l, y)
        BY <1>1, <1>2, <3>1, RightStays
      <3>2. CASE s = t /\ v = u /\ l = k /\ y = x
        BY <3>2
      <3>3. QED BY <2>1, <3>1, <3>2 DEF Adds
    <2>2. QED BY <2>1 DEF AllRight
  <1>4. OneValue(V)
    BY <1>1 DEF OneValue, Adds
  <1>5. \A s \in Task : \A v \in Paid : \A l, y : Holds(U, s, v, l, y) => y \in 1 .. Len(a)
    BY <1>1, HeldAnswer
  <1>6. OnePlace(V)
    <2>1. ASSUME NEW s \in Task, NEW v \in Paid, NEW w \in Paid, NEW l, NEW m, NEW y,
                 Holds(V, s, v, l, y), Holds(V, s, w, m, y)
          PROVE  v = w /\ l = m
      <3>1. CASE Holds(U, s, v, l, y) /\ Holds(U, s, w, m, y)
        BY <1>1, <3>1 DEF OnePlace
      <3>2. CASE ~ Holds(U, s, v, l, y) /\ ~ Holds(U, s, w, m, y)
        BY <2>1, <3>2 DEF Adds
      <3>3. CASE Holds(U, s, v, l, y) /\ ~ Holds(U, s, w, m, y)
        BY <1>5, <2>1, <3>3 DEF Adds
      <3>4. CASE ~ Holds(U, s, v, l, y) /\ Holds(U, s, w, m, y)
        BY <1>5, <2>1, <3>4 DEF Adds
      <3>5. QED BY <3>1, <3>2, <3>3, <3>4
    <2>2. QED BY <2>1 DEF OnePlace
  <1>7. ASSUME NEW s \in Task, ~ BadIn(a, U, s) PROVE ~ BadIn(b, V, s)
    <2>1. SUFFICES ASSUME NEW p, Holds(V, s, "proposal", <<>>, p), b[p].says = "malformed" PROVE FALSE
      BY DEF BadIn
    <2>2. Holds(U, s, "proposal", <<>>, p)
      BY <2>1 DEF Adds
    <2>3. p \in 1 .. Len(a)
      BY <1>5, <2>2 DEF Paid
    <2>4. b[p] = a[p]
      BY <2>3 DEF Extends
    <2>5. QED BY <1>7, <2>1, <2>2, <2>4 DEF BadIn
  <1>8. NoLoanWhereBad(b, V)
    <2>1. ASSUME NEW s \in Task, NEW v \in ReviewUnit, NEW l, NEW r, Holds(V, s, v, l, r), b[r].loan
          PROVE  ~ BadIn(b, V, s)
      <3>1. CASE Holds(U, s, v, l, r)
        <4>1. b[r] = a[r]
          BY <1>5, <3>1, PaidUnits DEF Extends
        <4>2. ~ BadIn(a, U, s)
          BY <1>1, <2>1, <3>1, <4>1 DEF NoLoanWhereBad
        <4>3. QED BY <1>7, <4>2
      <3>2. CASE s = t /\ v = u /\ l = k /\ r = x
        BY <1>7, <2>1, <3>2
      <3>3. QED BY <2>1, <3>1, <3>2 DEF Adds
    <2>2. QED BY <2>1 DEF NoLoanWhereBad
  <1>9. NoFrameOfSeed(V, seed)
    BY <1>1 DEF NoFrameOfSeed, Adds, Task
  <1>10. QED BY <1>3, <1>4, <1>6, <1>8, <1>9 DEF Evidence

(* Checkpoints that are cleared, or set aside.                             *)
LEMMA EvidenceShrinks ==
  ASSUME NEW a, NEW U, NEW V, NEW seed, NEW seed2, Evidence(a, U, seed),
         \A t \in Task : V[t] = U[t] \/ V[t] = {},
         V["cpa"] = U["cpa"] => seed2 = seed \/ V["cpa"] = {}
  PROVE  Evidence(a, V, seed2)
  <1>1. AllRight(a, U, seed) /\ OneValue(U) /\ OnePlace(U) /\ NoLoanWhereBad(a, U) /\ NoFrameOfSeed(U, seed)
    BY DEF Evidence
  <1>2. ASSUME NEW t \in Task
        PROVE  \/ \A u, k, x : Holds(V, t, u, k, x) <=> Holds(U, t, u, k, x)
               \/ \A u, k, x : ~ Holds(V, t, u, k, x)
    BY DEF Holds
  <1>3. seed2 = seed \/ \A u, k, x : ~ Holds(V, "cpa", u, k, x)
    BY DEF Holds, Task
  <1>4. ASSUME NEW t \in Task, NEW u, NEW k, NEW x, Holds(V, t, u, k, x)
        PROVE  Right(a, V, seed2, t, u, k, x)
    <2>1. \A v, l, y : Holds(V, t, v, l, y) <=> Holds(U, t, v, l, y)
      BY <1>2, <1>4
    <2>2. Right(a, U, seed, t, u, k, x)
      BY <1>1, <1>4, <2>1 DEF AllRight
    <2>3. BadIn(a, V, t) <=> BadIn(a, U, t)
      BY <2>1 DEF BadIn
    <2>4. RightReview(a, V, t, k, x) <=> RightReview(a, U, t, k, x)
      BY <2>1 DEF RightReview
    <2>5. RightFrame(a, V, t, k, x) <=> RightFrame(a, U, t, k, x)
      BY <2>1 DEF RightFrame, Aside
    <2>6. t = "cpa" => seed2 = seed
      BY <1>3, <1>4
    <2>7. t = "cpa" => (RightInitial(a, V, seed2, k, x) <=> RightInitial(a, U, seed, k, x))
      BY <2>1, <2>6 DEF RightInitial
    <2>8. t = "cpa" => (RightPoints(a, V, k, x) <=> RightPoints(a, U, k, x))
      BY <2>1 DEF RightPoints
    <2>9. QED BY <2>1, <2>2, <2>3, <2>4, <2>5, <2>7, <2>8 DEF Right
  <1>5. AllRight(a, V, seed2)
    BY <1>4 DEF AllRight
  <1>6. OneValue(V)
    BY <1>1, <1>2 DEF OneValue
  <1>7. OnePlace(V)
    BY <1>1, <1>2 DEF OnePlace
  <1>8. NoLoanWhereBad(a, V)
    BY <1>1, <1>2 DEF NoLoanWhereBad, BadIn
  <1>9. NoFrameOfSeed(V, seed2)
    <2>1. "cpa" \in Task
      BY DEF Task
    <2>2. QED BY <1>1, <1>2, <1>3, <2>1 DEF NoFrameOfSeed
  <1>10. QED BY <1>5, <1>6, <1>7, <1>8, <1>9 DEF Evidence

(* What the stage pc of an attempt knows of its item x, under prefix k.    *)
AtReview(a, U, t, again, x) ==
  /\ Len(x) = 1 /\ Good(a, x) /\ (again <=> BadIn(a, U, t))
  /\ ~ again => \A p : Holds(U, t, "proposal", <<>>, p) => p = x[1]
  /\ again => Holds(U, t, "proposal:recovered", <<>>, x[1])

AtFrame(a, U, t, k, x) ==
  /\ Len(x) = 2 /\ Good(a, x)
  /\ \/ k = <<x[2]>> /\ Aside(U, t, x[2])
     \/ k = <<>> /\ Holds(U, t, "review", <<>>, x[2])

AtPoints(a, U, seeded, k, x, len) ==
  /\ Len(x) = len /\ Good(a, x)
  /\ IF seeded THEN k = Contact(x) ELSE Holds(U, "cpa", "frame", k, x[3])
  /\ len > 3 => Holds(U, "cpa", "initial", k, x[4]) /\ \A y : ~ Holds(U, "cpa", "points", k, y)
  /\ len > 4 => a[x[5]].unit = "verdict"

AtStep ==
  /\ pc \in {"recheck", "review"} => AtReview(asked, units, Checkpoint, recovered, item)
  /\ pc = "frame" => lane # "sta" /\ AtFrame(asked, units, Checkpoint, prefix, item)
  /\ pc \in {"points", "verdict", "keep"} => lane = "cpa"
  /\ pc = "points" => AtPoints(asked, units, reuse, prefix, item, 3)
  /\ pc = "verdict" => AtPoints(asked, units, reuse, prefix, item, 4)
  /\ pc = "keep" => AtPoints(asked, units, reuse, prefix, item, 5)
  /\ pc \in {"store", "made", "commitCpa", "sync"} => Good(asked, item)

(* The records, and what STA and CPA owe each other.                       *)
RecordsOf(a, C) ==
  /\ \A t \in Task : C[t] # NoRecord => C[t].from # "none" /\ Good(a, C[t].item)
  /\ C["sta"] # NoRecord => Len(C["sta"].item) < 4
  /\ C["sta"] # NoRecord /\ C["sta"].from = "cpa" => C["cpa"] # NoRecord
  /\ C["cpa"] # NoRecord /\ C["cpa"].from = "sta" => C["sta"] # NoRecord
  /\ C["sta"] # NoRecord /\ C["cpa"] # NoRecord /\ (C["sta"].from = "cpa" \/ C["cpa"].from = "sta")
     => C["sta"].item = Contact(C["cpa"].item)

(* What an attempt is for.                                                 *)
Seeded == {"seed", "points", "verdict", "keep", "store", "made", "commitCpa"}
Working == Seeded \cup {"lookup", "propose", "recheck", "review", "frame"}

Purpose ==
  /\ pc \in Working =>
       /\ \A t \in needed : committed[t] = NoRecord
       /\ Checkpoint \in needed
       /\ lane = "sta" => ~ (reuse /\ "cpa" \in needed)
       /\ "cpa" \in needed => identity["cpa"] = IF reuse THEN committed["sta"].item ELSE <<>>
       /\ lane = "cpa" /\ reuse => /\ pc \in Seeded /\ committed["sta"] # NoRecord
                                   /\ pc # "seed" => Contact(item) = committed["sta"].item
  /\ pc = "seed" => lane = "cpa" /\ reuse
  /\ pc = "commitCpa" => lane = "cpa"
  /\ pc = "sync" => /\ committed["sta"] = NoRecord /\ lane \in {"cpa", "review"}
                    /\ lane = "cpa" => committed["cpa"] # NoRecord /\ committed["cpa"].item = item

ContactTypes ==
  /\ asked \in Seq(Asking)
  /\ DOMAIN units = Task /\ DOMAIN identity = Task /\ DOMAIN committed = Task
  /\ cache \in 0 .. Len(asked) /\ sta \in 0 .. Len(asked)
  /\ lane \in {"sta", "cpa", "review"} /\ recovered \in BOOLEAN /\ reuse \in BOOLEAN
  /\ tasks \subseteq Task

ContactInv ==
  /\ ContactTypes /\ Evidence(asked, units, identity["cpa"])
  /\ AtStep /\ RecordsOf(asked, committed) /\ Purpose

-----------------------------------------------------------------------------
LEMMA SavedHolds == ASSUME NEW t, NEW u, NEW k, NEW x PROVE x \in Saved(t, u, k) <=> Holds(units, t, u, k, x)
  BY DEF Saved, Holds

LEMMA PutAdds ==
  ASSUME NEW t \in Task, NEW u, NEW k, NEW x, DOMAIN units = Task, Put(t, Unit(u, k, x))
  PROVE  DOMAIN units' = Task /\ Adds(units, units', t, u, k, x)
         /\ \A y : Holds(units, t, u, k, y) => y = x
  <1>1. Unit(u, k, x).unit = u /\ Unit(u, k, x).key = k /\ Unit(u, k, x).value = x
    BY DEF Unit
  <1>2. DOMAIN units' = Task /\ \A s \in Task : units'[s] = IF s = t THEN units[s] \cup {Unit(u, k, x)} ELSE units[s]
    BY DEF Put
  <1>3. Saved(t, u, k) \subseteq {x}
    BY <1>1 DEF Put
  <1>4. Adds(units, units', t, u, k, x)
    BY <1>1, <1>2 DEF Adds, Holds
  <1>5. QED BY <1>2, <1>3, <1>4, SavedHolds

LEMMA AnswerAdds ==
  ASSUME asked \in Seq(Asking), NEW u \in Kinds, NEW of \in Seq(Nat), NEW says \in Says,
         Answer(u, of, says)
  PROVE  /\ asked' \in Seq(Asking) /\ Extends(asked, asked') /\ Len(asked') = Len(asked) + 1
         /\ Fresh \in 1 .. Len(asked') /\ Fresh \notin 1 .. Len(asked)
         /\ asked'[Fresh].unit = u /\ asked'[Fresh].of = of /\ asked'[Fresh].says = says
         /\ asked'[Fresh].loan <=> u = "review" /\ Head(of) \notin OnRecord
  <1> DEFINE q == [unit |-> u, of |-> of, says |-> says, loan |-> u = "review" /\ Head(of) \notin OnRecord]
  <1>1. q \in Asking
    BY DEF Asking
  <1>2. q.unit = u /\ q.of = of /\ q.says = says /\ (q.loan <=> u = "review" /\ Head(of) \notin OnRecord)
    OBVIOUS
  <1>3. asked' = Append(asked, q)
    BY DEF Answer
  <1> HIDE DEF q
  <1>4. Len(asked) \in Nat /\ asked' \in Seq(Asking) /\ Len(asked') = Len(asked) + 1
        /\ asked'[Len(asked) + 1] = q /\ \A n \in 1 .. Len(asked) : asked'[n] = asked[n]
    BY <1>1, <1>3
  <1>5. QED BY <1>2, <1>4 DEF Fresh, Extends

LEMMA SameAnswers ==
  ASSUME asked \in Seq(Asking) PROVE Extends(asked, asked) /\ Len(asked) \in Nat
  BY DEF Extends

LEMMA RecordsStay ==
  ASSUME NEW a, NEW b, NEW C, RecordsOf(a, C), Extends(a, b)
  PROVE  RecordsOf(b, C)
  BY GoodStays DEF RecordsOf

LEMMA GoodAnswers ==
  ASSUME NEW a, NEW x, Good(a, x), Len(a) \in Nat
  PROVE  x \in Seq(Nat) /\ Len(x) \in Nat /\ Len(x) > 0 /\ \A n \in 1 .. Len(x) : x[n] \in 1 .. Len(a)
  <1>1. x \in Seq(1 .. Len(a)) /\ x # <<>>
    BY DEF Good
  <1>2. QED BY <1>1

LEMMA ContactGrows ==
  ASSUME NEW a, NEW x, Good(a, x), Len(x) > 2, NEW y \in Nat, Len(a) \in Nat
  PROVE  Contact(Append(x, y)) = Contact(x)
  <1>1. x \in Seq(Nat) /\ Len(x) \in Nat
    BY GoodAnswers
  <1>2. Len(Append(x, y)) = Len(x) + 1 /\ \A n \in 0 .. Len(x) : SubSeq(Append(x, y), 1, n) = SubSeq(x, 1, n)
    BY <1>1, FrontOfAppend
  <1>3. ~ (Len(x) < 3) /\ ~ (Len(Append(x, y)) < 3) /\ 3 \in 0 .. Len(x)
    BY <1>1, <1>2
  <1>4. QED BY <1>2, <1>3 DEF Contact

LEMMA AppendLast ==
  ASSUME NEW x \in Seq(Nat), NEW y \in Nat
  PROVE  /\ Append(x, y) \in Seq(Nat) /\ Len(Append(x, y)) = Len(x) + 1
         /\ Append(x, y)[Len(x) + 1] = y /\ \A n \in 1 .. Len(x) : Append(x, y)[n] = x[n]
  OBVIOUS

LEMMA TailLast ==
  ASSUME NEW x \in Seq(Nat), NEW m \in 2 .. Len(x)
  PROVE  Tail(SubSeq(x, 1, m)) = Append(Tail(SubSeq(x, 1, m - 1)), x[m])
  <1>1. Len(x) \in Nat /\ m \in Nat /\ m - 1 \in Nat /\ m <= Len(x) /\ m > 1
    OBVIOUS
  <1> DEFINE z == SubSeq(x, 1, m)
             w == SubSeq(x, 1, m - 1)
  <1>2. z \in Seq(Nat) /\ Len(z) = m /\ \A i \in 1 .. m : z[i] = x[i]
    BY <1>1, SubSeqProperties
  <1>3. w \in Seq(Nat) /\ Len(w) = m - 1 /\ \A i \in 1 .. m - 1 : w[i] = x[i]
    BY <1>1, SubSeqProperties
  <1>4. x[m] \in Nat
    BY <1>1
  <1> HIDE DEF z, w
  <1>5. Tail(z) \in Seq(Nat) /\ Len(Tail(z)) = m - 1 /\ \A i \in 1 .. m - 1 : Tail(z)[i] = z[i + 1]
    BY <1>1, <1>2
  <1>6. Tail(w) \in Seq(Nat) /\ Len(Tail(w)) = m - 2 /\ \A i \in 1 .. m - 2 : Tail(w)[i] = w[i + 1]
    BY <1>1, <1>3
  <1> DEFINE l == Tail(z)
             r == Append(Tail(w), x[m])
  <1>7. r \in Seq(Nat) /\ Len(r) = m - 1 /\ r[m - 1] = x[m] /\ \A i \in 1 .. m - 2 : r[i] = w[i + 1]
    BY <1>1, <1>4, <1>6
  <1>8. ASSUME NEW i \in 1 .. m - 1 PROVE l[i] = r[i]
    <2>1. i \in Nat /\ i + 1 \in 1 .. m /\ (i # m - 1 => i \in 1 .. m - 2 /\ i + 1 \in 1 .. m - 1)
      BY <1>1
    <2>2. l[i] = z[i + 1] /\ z[i + 1] = x[i + 1]
      BY <1>2, <1>5, <2>1
    <2> HIDE DEF l, r
    <2>3. CASE i = m - 1
      <3>1. i + 1 = m /\ r[i] = x[m]
        BY <1>1, <1>7, <2>3
      <3>2. QED BY <2>2, <3>1
    <2>4. CASE i # m - 1
      BY <1>3, <1>7, <2>1, <2>2, <2>4
    <2>5. QED BY <2>3, <2>4
  <1>9. l \in Seq(Nat) /\ Len(l) = m - 1
    BY <1>5
  <1> HIDE DEF l, r
  <1>10. l = r
    BY <1>7, <1>8, <1>9, SeqEqual
  <1>11. QED BY <1>10 DEF l, r, z, w

LEMMA WholeOf ==
  ASSUME NEW x \in Seq(Nat) PROVE SubSeq(x, 1, Len(x)) = x
  <1> DEFINE r == SubSeq(x, 1, Len(x))
  <1>1. r \in Seq(Nat) /\ Len(r) = Len(x) /\ \A i \in 1 .. Len(x) : r[i] = x[i]
    BY SubSeqProperties
  <1> HIDE DEF r
  <1>2. r = x
    BY <1>1, SeqEqual
  <1>3. QED BY <1>2 DEF r

(* The last answer of an item is of the ones before it.                    *)
LEMMA LastAnswer ==
  ASSUME NEW a, NEW x, Good(a, x), Len(a) \in Nat, NEW m \in 3 .. Len(x)
  PROVE  Tail(SubSeq(x, 1, m)) = Append(Tail(a[x[m]].of), x[m])
  <1>1. x \in Seq(Nat) /\ Len(x) \in Nat
    BY GoodAnswers
  <1>2. m \in 2 .. Len(x)
    BY <1>1
  <1>3. Tail(SubSeq(x, 1, m)) = Append(Tail(SubSeq(x, 1, m - 1)), x[m])
    BY <1>1, <1>2, TailLast
  <1>4. Tail(a[x[m]].of) = Tail(SubSeq(x, 1, m - 1))
    BY DEF Good
  <1>5. QED BY <1>3, <1>4

(* The answers of an earlier version: a proposal, its review, a frame.     *)
Answered(p, r) ==
  <<[unit |-> "proposal", of |-> <<>>, says |-> p, loan |-> FALSE],
    [unit |-> "review", of |-> <<1>>, says |-> r, loan |-> FALSE],
    [unit |-> "frame", of |-> <<1, 2>>, says |-> "yes", loan |-> FALSE]>>

LEMMA AnsweredFacts ==
  ASSUME NEW p \in Says, NEW r \in Says
  PROVE  /\ Answered(p, r) \in Seq(Asking) /\ Len(Answered(p, r)) = 3
         /\ Good(Answered(p, r), <<1>>) /\ Good(Answered(p, r), <<1, 2, 3>>)
  <1> DEFINE a == Answered(p, r)
  <1>1. a \in Seq(Asking) /\ Len(a) = 3
    <2>1. /\ [unit |-> "proposal", of |-> <<>>, says |-> p, loan |-> FALSE] \in Asking
          /\ [unit |-> "review", of |-> <<1>>, says |-> r, loan |-> FALSE] \in Asking
          /\ [unit |-> "frame", of |-> <<1, 2>>, says |-> "yes", loan |-> FALSE] \in Asking
      BY DEF Asking, Kinds, Says
    <2>2. QED BY <2>1 DEF Answered
  <1>2. a[2].of = <<1>> /\ a[3].of = <<1, 2>>
    BY DEF Answered
  <1> HIDE DEF a
  <1>3. Good(a, <<1>>)
    <2>1. Len(a) \in Nat /\ 1 \in 1 .. Len(a)
      BY <1>1
    <2>2. QED BY <2>1, GoodStarts
  <1>4. Good(a, <<1, 2, 3>>)
    <2> DEFINE x == <<1, 2, 3>>
    <2>1. x \in Seq(1 .. 3) /\ x # <<>> /\ Len(x) = 3 /\ x[1] = 1 /\ x[2] = 2 /\ x[3] = 3
      OBVIOUS
    <2>2. SubSeq(x, 1, 2) = <<1, 2>>
      <3> DEFINE s == SubSeq(x, 1, 2)
                 r2 == <<1, 2>>
      <3>1. s \in Seq(1 .. 3) /\ Len(s) = 2 /\ \A i \in 1 .. 2 : s[i] = x[i]
        BY <2>1, SubSeqProperties
      <3>2. r2 \in Seq(1 .. 3) /\ Len(r2) = 2 /\ r2[1] = 1 /\ r2[2] = 2
        OBVIOUS
      <3> HIDE DEF s, r2, x
      <3>3. \A i \in 1 .. 2 : s[i] = r2[i]
        BY <2>1, <3>1, <3>2
      <3>4. s = r2
        BY <3>1, <3>2, <3>3, SeqEqual
      <3>5. QED BY <3>4 DEF s, r2
    <2> HIDE DEF x
    <2>3. \A n \in 3 .. Len(x) : Tail(a[x[n]].of) = Tail(SubSeq(x, 1, n - 1))
      <3>1. TAKE n \in 3 .. Len(x)
      <3>2. n = 3 /\ n - 1 = 2
        BY <2>1
      <3>3. QED BY <1>2, <2>1, <2>2, <3>2
    <2>4. Good(a, x)
      BY <1>1, <1>2, <2>1, <2>3 DEF Good
    <2>5. QED BY <2>4 DEF x
  <1>5. QED BY <1>1, <1>3, <1>4 DEF a

(* What an earlier version leaves is in order.                             *)
Old(U, t) ==
  \A s \in Task : \A u, k, x : Holds(U, s, u, k, x) =>
    /\ s = t /\ k = <<>>
    /\ \/ u = "proposal" /\ x = 1
       \/ u = "review" /\ x = 2 /\ Holds(U, t, "proposal", <<>>, 1)
       \/ u = "frame" /\ x = 3 /\ Holds(U, t, "review", <<>>, 2)
       \/ u = "segment:sta" /\ x = <<1>>
       \/ u = "segment:review" /\ x = <<1, 2, 3>>

LEMMA OldEvidence ==
  ASSUME NEW p \in Says, NEW r \in Says, NEW U, NEW t \in Task, Old(U, t)
  PROVE  Evidence(Answered(p, r), U, <<>>)
  <1> DEFINE a == Answered(p, r)
  <1>1. Len(a) = 3 /\ Good(a, <<1>>) /\ Good(a, <<1, 2, 3>>)
    BY AnsweredFacts
  <1>2. /\ a[1].unit = "proposal"
        /\ a[2].unit = "review" /\ a[2].of = <<1>> /\ ~ a[2].loan
        /\ a[3].unit = "frame" /\ Tail(a[3].of) = <<2>>
    <2>1. /\ a[1].unit = "proposal"
          /\ a[2].unit = "review" /\ a[2].of = <<1>> /\ ~ a[2].loan
          /\ a[3].unit = "frame" /\ a[3].of = <<1, 2>>
      BY DEF Answered
    <2> DEFINE y == Tail(<<1, 2>>)
               z == <<2>>
    <2>2. y \in Seq(Nat) /\ Len(y) = 1 /\ y[1] = 2
      OBVIOUS
    <2>3. z \in Seq(Nat) /\ Len(z) = 1 /\ z[1] = 2
      OBVIOUS
    <2> HIDE DEF y, z
    <2>4. y = z
      BY <2>2, <2>3, SeqEqual
    <2>5. QED BY <2>1, <2>4 DEF y, z
  <1> HIDE DEF a
  <1>3. ASSUME NEW s \in Task, NEW u, NEW k, NEW x, Holds(U, s, u, k, x)
        PROVE  Right(a, U, <<>>, s, u, k, x)
    <2>1. s = t /\ k = <<>>
      BY <1>3 DEF Old
    <2>2. CASE u = "proposal" /\ x = 1
      BY <1>1, <1>2, <2>1, <2>2 DEF Right, Paid, Unpaid, Kind, ReviewUnit, SegmentUnit
    <2>3. CASE u = "review" /\ x = 2 /\ Holds(U, t, "proposal", <<>>, 1)
      <3>1. RightReview(a, U, s, k, x)
        BY <1>2, <2>1, <2>3 DEF RightReview
      <3>2. QED BY <1>1, <1>2, <2>1, <2>3, <3>1 DEF Right, Paid, Unpaid, Kind, ReviewUnit, SegmentUnit
    <2>4. CASE u = "frame" /\ x = 3 /\ Holds(U, t, "review", <<>>, 2)
      <3>1. RightFrame(a, U, s, k, x)
        BY <1>2, <2>1, <2>4 DEF RightFrame
      <3>2. QED BY <1>1, <1>2, <2>1, <2>4, <3>1 DEF Right, Paid, Unpaid, Kind, ReviewUnit, SegmentUnit
    <2>5. CASE (u = "segment:sta" /\ x = <<1>>) \/ (u = "segment:review" /\ x = <<1, 2, 3>>)
      <3>1. Good(a, x) /\ u \in SegmentUnit /\ u \notin Paid /\ u \notin ReviewUnit
        BY <1>1, <2>5 DEF SegmentUnit, Paid, ReviewUnit
      <3>2. QED BY <2>5, <3>1 DEF Right, Unpaid
    <2>6. QED BY <1>3, <2>2, <2>3, <2>4, <2>5 DEF Old
  <1>4. AllRight(a, U, <<>>)
    BY <1>3 DEF AllRight
  <1>5. OneValue(U)
    <2>1. ASSUME NEW s \in Task, NEW u, NEW k, NEW x, NEW y, Holds(U, s, u, k, x), Holds(U, s, u, k, y)
          PROVE  x = y
      BY <2>1 DEF Old
    <2>2. QED BY <2>1 DEF OneValue
  <1>6. OnePlace(U)
    <2>1. ASSUME NEW s \in Task, NEW u \in Paid, NEW v \in Paid, NEW k, NEW l, NEW x,
                 Holds(U, s, u, k, x), Holds(U, s, v, l, x)
          PROVE  u = v /\ k = l
      <3>1. k = <<>> /\ l = <<>>
        BY <2>1 DEF Old
      <3>2. (u = "proposal" /\ x = 1) \/ (u = "review" /\ x = 2) \/ (u = "frame" /\ x = 3)
        BY <2>1 DEF Old, Paid
      <3>3. (v = "proposal" /\ x = 1) \/ (v = "review" /\ x = 2) \/ (v = "frame" /\ x = 3)
        BY <2>1 DEF Old, Paid
      <3>4. QED BY <3>1, <3>2, <3>3
    <2>2. QED BY <2>1 DEF OnePlace
  <1>7. NoLoanWhereBad(a, U)
    BY <1>2 DEF NoLoanWhereBad, Old, ReviewUnit
  <1>8. NoFrameOfSeed(U, <<>>)
    BY DEF NoFrameOfSeed
  <1>9. QED BY <1>4, <1>5, <1>6, <1>7, <1>8 DEF Evidence, a

LEMMA NoEvidence ==
  ASSUME NEW a, NEW U, \A t \in Task : U[t] = {}
  PROVE  Evidence(a, U, <<>>)
  <1>1. \A t \in Task : \A u, k, x : ~ Holds(U, t, u, k, x)
    BY DEF Holds
  <1>2. QED BY <1>1 DEF Evidence, AllRight, OneValue, OnePlace, NoLoanWhereBad, NoFrameOfSeed

LEMMA LegacyEvidence ==
  ASSUME NEW o \in Legacy
  PROVE  o.asked \in Seq(Asking) /\ DOMAIN o.units = Task /\ Evidence(o.asked, o.units, <<>>)
  <1> DEFINE left(t, n) ==
          {Unit("proposal", <<>>, 1)}
          \cup (IF n > 1 THEN {Unit("review", <<>>, 2), Unit("frame", <<>>, 3)} ELSE {})
          \cup (IF n > 1 /\ t = "sta" THEN {Unit("segment:sta", <<>>, <<1>>)} ELSE {})
          \cup (IF n > 2 THEN {Unit("segment:review", <<>>, <<1, 2, 3>>)} ELSE {})
        none == [t \in Task |-> {}]
  <1>1. \/ o = [asked |-> <<>>, units |-> none]
        \/ \E p, r \in Says : \E t \in Task : \E n \in 1 .. 3 :
             o = [asked |-> Answered(p, r), units |-> [none EXCEPT ![t] = left(t, n)]]
    BY SMTT(30) DEF Legacy, Answered, Says, Task
  <1>2. CASE o = [asked |-> <<>>, units |-> none]
    <2>1. o.asked = <<>> /\ DOMAIN o.units = Task /\ \A t \in Task : o.units[t] = {}
      BY <1>2
    <2>2. QED BY <2>1, NoEvidence
  <1>3. ASSUME NEW p \in Says, NEW r \in Says, NEW t \in Task, NEW n \in 1 .. 3,
               o = [asked |-> Answered(p, r), units |-> [none EXCEPT ![t] = left(t, n)]]
        PROVE  o.asked \in Seq(Asking) /\ DOMAIN o.units = Task /\ Evidence(o.asked, o.units, <<>>)
    <2>1. o.asked = Answered(p, r) /\ DOMAIN o.units = Task
          /\ o.units[t] = left(t, n) /\ \A s \in Task \ {t} : o.units[s] = {}
      BY <1>3
    <2>2. \A s \in Task : \A u, k, x : Holds(o.units, s, u, k, x) <=>
            /\ s = t /\ k = <<>>
            /\ \/ u = "proposal" /\ x = 1
               \/ n > 1 /\ u = "review" /\ x = 2
               \/ n > 1 /\ u = "frame" /\ x = 3
               \/ n > 1 /\ t = "sta" /\ u = "segment:sta" /\ x = <<1>>
               \/ n > 2 /\ u = "segment:review" /\ x = <<1, 2, 3>>
      <3>1. ASSUME NEW e PROVE e \in left(t, n) <=>
              \/ e = Unit("proposal", <<>>, 1)
              \/ n > 1 /\ e = Unit("review", <<>>, 2)
              \/ n > 1 /\ e = Unit("frame", <<>>, 3)
              \/ n > 1 /\ t = "sta" /\ e = Unit("segment:sta", <<>>, <<1>>)
              \/ n > 2 /\ e = Unit("segment:review", <<>>, <<1, 2, 3>>)
        OBVIOUS
      <3>2. \A u, k, x : Unit(u, k, x).unit = u /\ Unit(u, k, x).key = k /\ Unit(u, k, x).value = x
        BY DEF Unit
      <3> HIDE DEF left
      <3>3. ASSUME NEW u, NEW k, NEW x
            PROVE Holds(o.units, t, u, k, x) <=>
                    /\ k = <<>>
                    /\ \/ u = "proposal" /\ x = 1
                       \/ n > 1 /\ u = "review" /\ x = 2
                       \/ n > 1 /\ u = "frame" /\ x = 3
                       \/ n > 1 /\ t = "sta" /\ u = "segment:sta" /\ x = <<1>>
                       \/ n > 2 /\ u = "segment:review" /\ x = <<1, 2, 3>>
        BY <2>1, <3>1, <3>2 DEF Holds
      <3>4. \A s \in Task \ {t} : \A u, k, x : ~ Holds(o.units, s, u, k, x)
        BY <2>1 DEF Holds
      <3>5. QED BY <3>3, <3>4
    <2>3. Old(o.units, t)
      BY <2>2 DEF Old
    <2>4. QED BY <2>1, <2>3, OldEvidence, AnsweredFacts
  <1>4. QED BY <1>1, <1>2, <1>3

LEMMA ContactStarts == RecordInit => ContactInv
  <1>1. ASSUME ContactUnused PROVE ContactInv
    <2>1. Evidence(asked, units, identity["cpa"])
      BY <1>1, NoEvidence DEF ContactUnused, Task
    <2>2. RecordsOf(asked, committed)
      BY <1>1 DEF ContactUnused, RecordsOf, NoRecord, Task
    <2>3. ContactTypes
      <3>1. asked \in Seq(Asking) /\ Len(asked) = 0 /\ DOMAIN units = Task /\ DOMAIN identity = Task
            /\ DOMAIN committed = Task
        BY <1>1 DEF ContactUnused
      <3>2. cache = 0 /\ sta = 0 /\ lane = "sta" /\ recovered = FALSE /\ reuse = FALSE /\ tasks = {}
        BY <1>1 DEF ContactUnused
      <3>3. cache \in 0 .. Len(asked) /\ sta \in 0 .. Len(asked)
        BY <3>1, <3>2
      <3>4. QED BY <3>1, <3>2, <3>3 DEF ContactTypes
    <2>4. AtStep /\ Purpose
      BY <1>1 DEF ContactUnused, AtStep, Purpose, Working, Seeded
    <2>5. QED BY <2>1, <2>2, <2>3, <2>4 DEF ContactInv
  <1>2. ASSUME Init PROVE ContactInv
    <2>1. pc = "down" /\ identity = [t \in Task |-> <<>>] /\ cache = 0 /\ sta = 0 /\ lane = "sta"
          /\ recovered = FALSE /\ reuse = FALSE /\ tasks = {}
          /\ DOMAIN identity = Task
      BY <1>2 DEF Init
    <2>2. AtStep /\ Purpose
      BY <2>1 DEF AtStep, Purpose, Working, Seeded
    <2>3. CASE (\E o \in Legacy : asked = o.asked /\ units = o.units) /\ committed = [t \in Task |-> NoRecord]
      <3>1. asked \in Seq(Asking) /\ DOMAIN units = Task /\ Evidence(asked, units, <<>>)
        BY <2>3, LegacyEvidence
      <3>2. RecordsOf(asked, committed)
        BY <2>3 DEF RecordsOf, Task
      <3>3. ContactTypes
        <4>1. Len(asked) \in Nat /\ DOMAIN committed = Task
          BY <2>3, <3>1
        <4>2. cache \in 0 .. Len(asked) /\ sta \in 0 .. Len(asked)
          BY <2>1, <4>1
        <4>3. QED BY <2>1, <3>1, <4>1, <4>2 DEF ContactTypes
      <3>4. identity["cpa"] = <<>>
        BY <2>1 DEF Task
      <3>5. QED BY <2>2, <3>1, <3>2, <3>3, <3>4 DEF ContactInv
    <2>4. ASSUME NEW o \in Earlier, asked = o.asked, committed = [sta |-> o.sta, cpa |-> NoRecord],
                 units = [t \in Task |-> {}]
          PROVE  ContactInv
      <3>1. PICK says \in {"yes", "unboxed"} :
              o = [asked |-> Answered("yes", says), sta |-> [proposal |-> 1, item |-> <<1, 2, 3>>, from |-> "review"]]
        BY DEF Earlier, Answered
      <3>2. asked = Answered("yes", says) /\ o.sta = [proposal |-> 1, item |-> <<1, 2, 3>>, from |-> "review"]
        BY <2>4, <3>1
      <3>3. asked \in Seq(Asking) /\ Good(asked, <<1, 2, 3>>)
        BY <3>2, AnsweredFacts DEF Says
      <3>4. committed["sta"].item = <<1, 2, 3>> /\ committed["sta"].from = "review"
            /\ committed["cpa"] = NoRecord /\ DOMAIN committed = Task
        BY <2>4, <3>2 DEF Task
      <3>5. RecordsOf(asked, committed)
        BY <3>3, <3>4 DEF RecordsOf, NoRecord, Task
      <3>6. Evidence(asked, units, identity["cpa"])
        BY <2>1, <2>4, NoEvidence DEF Task
      <3>7. ContactTypes
        <4>1. Len(asked) \in Nat /\ DOMAIN units = Task
          BY <2>4, <3>3
        <4>2. cache \in 0 .. Len(asked) /\ sta \in 0 .. Len(asked)
          BY <2>1, <4>1
        <4>3. QED BY <2>1, <3>3, <3>4, <4>1, <4>2 DEF ContactTypes
      <3>8. QED BY <2>2, <3>5, <3>6, <3>7 DEF ContactInv
    <2>5. QED BY <1>2, <2>3, <2>4 DEF Init
  <1>3. QED BY <1>1, <1>2 DEF RecordInit

LEMMA QuietStep ==
  ASSUME ContactInv, UNCHANGED <<asked, units, identity, committed>>, reuse' \in BOOLEAN, tasks' \subseteq Task,
         cache' \in 0 .. Len(asked), sta' \in 0 .. Len(asked), lane' \in {"sta", "cpa", "review"},
         recovered' \in BOOLEAN, AtStep', Purpose'
  PROVE  ContactInv'
  <1>1. ContactTypes'
    BY DEF ContactInv, ContactTypes
  <1>2. Evidence(asked', units', identity'["cpa"]) /\ RecordsOf(asked', committed')
    BY DEF ContactInv
  <1>3. QED BY <1>1, <1>2 DEF ContactInv

LEMMA GrowingStep ==
  ASSUME ContactInv, UNCHANGED <<identity, committed, tasks, reuse>>, asked' \in Seq(Asking),
         Extends(asked, asked'), DOMAIN units' = Task, Evidence(asked', units', identity["cpa"]),
         cache' \in 0 .. Len(asked'), sta' = sta, lane' = lane,
         recovered' \in BOOLEAN, AtStep', Purpose'
  PROVE  ContactInv'
  <1>1. sta' \in 0 .. Len(asked')
    BY DEF ContactInv, ContactTypes, Extends
  <1>2. ContactTypes'
    BY <1>1 DEF ContactInv, ContactTypes
  <1>3. RecordsOf(asked', committed')
    BY RecordsStay DEF ContactInv
  <1>4. Evidence(asked', units', identity'["cpa"])
    OBVIOUS
  <1>5. QED BY <1>2, <1>3, <1>4 DEF ContactInv

(* An attempt goes on.                                                     *)
LEMMA Onward ==
  ASSUME Purpose, pc \in Working, pc' \in Working, pc' # "seed",
         UNCHANGED <<needed, committed, lane, identity, reuse>>,
         lane = "cpa" /\ reuse => pc' \in Seeded /\ Contact(item') = committed["sta"].item,
         pc' = "commitCpa" => lane = "cpa"
  PROVE  Purpose'
  <1>1. Checkpoint' = Checkpoint
    BY DEF Checkpoint
  <1>2. pc' # "sync"
    BY DEF Working, Seeded
  <1>3. QED BY <1>1, <1>2 DEF Purpose

LEMMA Unseeded ==
  ASSUME Purpose, pc \in Working \ Seeded
  PROVE  ~ (lane = "cpa" /\ reuse)
  BY DEF Purpose

LEMMA StepEnds ==
  ASSUME ContactInv, UNCHANGED <<asked, units, identity, committed, tasks, reuse>>, Unbind,
         pc' \in {"down", "raised"}
  PROVE  ContactInv'
  <1>1. AtStep' /\ Purpose'
    BY DEF AtStep, Purpose, Working, Seeded
  <1>2. cache' \in 0 .. Len(asked) /\ sta' \in 0 .. Len(asked) /\ lane' = "sta" /\ recovered' = FALSE
    BY SameAnswers DEF Unbind, Forget, ContactInv, ContactTypes
  <1>3. reuse' \in BOOLEAN /\ tasks' \subseteq Task
    BY DEF ContactInv, ContactTypes
  <1>4. QED BY <1>1, <1>2, <1>3, QuietStep

LEMMA Outside ==
  ASSUME ContactInv, UNCHANGED <<asked, units, identity, committed, cache, sta, lane, recovered>>,
         reuse' \in BOOLEAN, tasks' \subseteq Task, pc' \in {"begin", "over"}
  PROVE  ContactInv'
  <1>1. AtStep' /\ Purpose'
    BY DEF AtStep, Purpose, Working, Seeded
  <1>2. cache' \in 0 .. Len(asked) /\ sta' \in 0 .. Len(asked) /\ lane' \in {"sta", "cpa", "review"}
        /\ recovered' \in BOOLEAN
    BY DEF ContactInv, ContactTypes
  <1>3. QED BY <1>1, <1>2, QuietStep

LEMMA LaunchesAndEnds ==
  ASSUME ContactInv, Start \/ Crash \/ Exception \/ Retry \/ NothingToDo \/ NotFound \/ NoCrop
                     \/ StudentMismatch
  PROVE  ContactInv'
  <1>1. CASE Start
    <2>1. reuse' \in BOOLEAN /\ tasks' \subseteq Task
      BY <1>1 DEF Start
    <2>2. UNCHANGED <<asked, units, identity, committed, cache, sta, lane, recovered>> /\ pc' = "begin"
      BY <1>1 DEF Start, disk, work, Goto
    <2>3. QED BY <2>1, <2>2, Outside
  <1>2. CASE Crash \/ Exception \/ NotFound \/ NoCrop \/ StudentMismatch
    <2>1. UNCHANGED <<asked, units, identity, committed, tasks, reuse>> /\ Unbind /\ pc' \in {"down", "raised"}
      BY <1>2 DEF Crash, Exception, NotFound, NoCrop, StudentMismatch, Raise, Goto, disk, run
    <2>2. QED BY <2>1, StepEnds
  <1>3. CASE Retry \/ NothingToDo
    <2>1. UNCHANGED <<asked, units, identity, committed, cache, sta, lane, recovered, tasks, reuse>>
          /\ pc' \in {"begin", "over"}
      BY <1>3 DEF Retry, NothingToDo, Goto, disk, run, work
    <2>2. reuse' \in BOOLEAN /\ tasks' \subseteq Task
      BY <2>1 DEF ContactInv, ContactTypes
    <2>3. QED BY <2>1, <2>2, Outside
  <1>4. QED BY <1>1, <1>2, <1>3

LEMMA BeginStep == ASSUME ContactInv, Begin PROVE ContactInv'
  <1>1. ContactTypes /\ Evidence(asked, units, identity["cpa"]) /\ RecordsOf(asked, committed)
    BY DEF ContactInv
  <1>2. /\ pc = "begin" /\ Remaining # {} /\ Found /\ needed' = Remaining
        /\ UNCHANGED <<asked, committed, tasks, reuse>> /\ cache' = 0 /\ sta' = 0 /\ recovered' = FALSE
        /\ lane' = (IF "sta" \in Remaining THEN "sta" ELSE "cpa")
        /\ pc' = (IF lane' = "cpa" /\ reuse THEN "seed" ELSE "lookup")
    BY DEF Begin, Goto, Forget, run
  <1>3. /\ DOMAIN units' = Task /\ DOMAIN identity' = Task
        /\ \A t \in Task : units'[t] = IF t \in Remaining THEN Open(t) ELSE units[t]
        /\ \A t \in Task : identity'[t] = IF t \in Remaining THEN Wanted(t) ELSE identity[t]
    BY DEF Begin
  <1>4. Remaining \subseteq {"sta", "cpa"} /\ \A t \in Remaining : committed[t] = NoRecord
    <2>1. tasks \subseteq Task
      BY <1>1 DEF ContactTypes
    <2>2. QED BY <2>1 DEF Remaining, Task
  <1>5. Evidence(asked, units', identity'["cpa"])
    <2>1. \A t \in Task : units'[t] = units[t] \/ units'[t] = {}
      BY <1>3 DEF Open
    <2>2. units'["cpa"] = units["cpa"] => identity'["cpa"] = identity["cpa"] \/ units'["cpa"] = {}
      BY <1>3 DEF Open, Task
    <2>3. QED BY <1>1, <2>1, <2>2, EvidenceShrinks
  <1>6. cache' \in 0 .. Len(asked') /\ sta' \in 0 .. Len(asked')
    BY <1>1, <1>2, SameAnswers DEF ContactTypes
  <1>7. ContactTypes'
    BY <1>1, <1>2, <1>3, <1>6 DEF ContactTypes
  <1>8. AtStep'
    BY <1>2 DEF AtStep
  <1>9. Purpose'
    <2>1. lane' \in {"sta", "cpa"} /\ (lane' = "sta" <=> "sta" \in Remaining) /\ lane' \in Remaining
      BY <1>2, <1>4
    <2>2. Checkpoint' \in needed'
      BY <1>2, <2>1 DEF Checkpoint
    <2>3. reuse /\ "cpa" \in Remaining => committed["sta"] # NoRecord /\ "sta" \notin Remaining
      BY <1>2, <1>4 DEF Found
    <2>4. "cpa" \in Remaining => identity'["cpa"] = IF reuse THEN committed["sta"].item ELSE <<>>
      BY <1>3, <1>4 DEF Wanted, Task
    <2>5. pc' = "seed" => lane' = "cpa" /\ reuse
      BY <1>2
    <2>6. pc' \in {"seed", "lookup"} /\ (pc' = "lookup" => ~ (lane' = "cpa" /\ reuse))
      BY <1>2
    <2>7. lane' = "cpa" /\ reuse => committed["sta"] # NoRecord
      BY <2>1, <2>3
    <2>8. lane' = "sta" => ~ (reuse /\ "cpa" \in Remaining)
      BY <2>1, <2>3
    <2>9. QED BY <1>2, <1>4, <2>2, <2>4, <2>5, <2>6, <2>7, <2>8 DEF Purpose, Seeded
  <1>10. QED BY <1>1, <1>2, <1>5, <1>7, <1>8, <1>9 DEF ContactInv

LEMMA SegmentStep ==
  ASSUME ContactInv, pc \in Working \ Seeded, NEW k, UseSegment(k)
  PROVE  ContactInv'
  <1>1. PICK x \in Saved(Checkpoint, Segment, k) :
          /\ item' = x /\ cache' = x[1] /\ pc' = "made"
          /\ UNCHANGED <<asked, units, identity, committed, tasks, reuse, needed, lane, recovered, sta>>
    BY DEF UseSegment, Goto, disk, run
  <1>2. ContactTypes /\ Evidence(asked, units, identity["cpa"]) /\ Purpose
    BY DEF ContactInv
  <1>3. Checkpoint \in Task /\ Segment \in SegmentUnit
    BY <1>2 DEF Checkpoint, Task, Segment, SegmentUnit, ContactTypes
  <1>4. Good(asked, x)
    <2>1. Holds(units, Checkpoint, Segment, k, x)
      BY SavedHolds
    <2>2. QED BY <1>2, <1>3, <2>1 DEF Evidence, AllRight, Right
  <1>5. x[1] \in 0 .. Len(asked) /\ sta \in 0 .. Len(asked)
    <2>1. Len(asked) \in Nat /\ x[1] \in 1 .. Len(asked)
      BY <1>2, <1>4, SameAnswers, GoodAnswers DEF ContactTypes
    <2>2. QED BY <1>2, <2>1 DEF ContactTypes
  <1>6. AtStep'
    BY <1>1, <1>4 DEF AtStep
  <1>7. Purpose'
    <2>1. "made" \in Working /\ "made" \in Seeded
      BY DEF Working, Seeded
    <2>2. ~ (lane = "cpa" /\ reuse)
      BY <1>2, Unseeded
    <2>3. QED BY <1>1, <1>2, <2>1, <2>2, Onward
  <1>8. lane' \in {"sta", "cpa", "review"} /\ recovered' \in BOOLEAN /\ reuse' \in BOOLEAN /\ tasks' \subseteq Task
    BY <1>1, <1>2 DEF ContactTypes
  <1>9. QED BY <1>1, <1>5, <1>6, <1>7, <1>8, QuietStep

(* A step that only moves on to another stage.                             *)
LEMMA MovesOn ==
  ASSUME ContactInv, UNCHANGED <<asked, units, identity, committed, tasks, reuse, needed,
                                 cache, recovered, sta>>,
         lane' \in {"sta", "cpa", "review"}, AtStep', Purpose'
  PROVE  ContactInv'
  <1>1. cache' \in 0 .. Len(asked) /\ sta' \in 0 .. Len(asked)
        /\ recovered' \in BOOLEAN /\ reuse' \in BOOLEAN /\ tasks' \subseteq Task
    BY DEF ContactInv, ContactTypes
  <1>2. QED BY <1>1, QuietStep

LEMMA LookupSteps ==
  ASSUME ContactInv, Lookup \/ LookupFails \/ Recheck \/ RecheckFails \/ ProposalOnly
  PROVE  ContactInv'
  <1>1. CASE Lookup \/ Recheck
    <2>1. pc \in Working \ Seeded /\ (UseSegment(<<>>) \/ UseSegment(item))
      BY <1>1 DEF Lookup, Recheck, Working, Seeded
    <2>2. QED BY <2>1, SegmentStep
  <1>2. CASE LookupFails \/ RecheckFails \/ ProposalOnly
    <2>1. /\ UNCHANGED <<asked, units, identity, committed, tasks, reuse, needed,
                         cache, recovered, sta, item, lane, prefix>>
          /\ \/ pc = "lookup" /\ pc' = "propose"
             \/ pc = "recheck" /\ pc' = "review"
             \/ pc = "review" /\ pc' = "store" /\ lane = "sta"
      BY <1>2 DEF LookupFails, RecheckFails, ProposalOnly, Goto, disk, run, work
    <2>2. ContactTypes /\ AtStep /\ Purpose
      BY DEF ContactInv
    <2>3. pc \in Working \ Seeded /\ pc' \in Working /\ pc' # "seed" /\ pc' # "commitCpa"
      BY <2>1 DEF Working, Seeded
    <2>4. Purpose'
      BY <2>1, <2>2, <2>3, Unseeded, Onward
    <2>5. Checkpoint' = Checkpoint
      BY <2>1 DEF Checkpoint
    <2>6. AtStep'
      BY <2>1, <2>2, <2>5 DEF AtStep, AtReview
    <2>7. lane' \in {"sta", "cpa", "review"}
      BY <2>1, <2>2 DEF ContactTypes
    <2>8. QED BY <2>1, <2>4, <2>6, <2>7, MovesOn
  <1>3. QED BY <1>1, <1>2

LEMMA LaneSteps ==
  ASSUME ContactInv, NextLane \/ ReviewMade \/ Track \/ Student
  PROVE  ContactInv'
  <1>1. ContactTypes /\ AtStep /\ Purpose
    BY DEF ContactInv
  <1>2. CASE NextLane
    <2>1. /\ pc = "made" /\ lane = "sta" /\ sta' = item[1] /\ pc' = "lookup"
          /\ lane' = (IF "cpa" \in needed THEN "cpa" ELSE "review") /\ recovered' = FALSE
          /\ UNCHANGED <<asked, units, identity, committed, tasks, reuse, needed, cache>>
      BY <1>2 DEF NextLane, Goto, disk, run
    <2>2. AtStep'
      BY <2>1 DEF AtStep
    <2>3. Purpose'
      <3>1. "made" \in Working /\ "lookup" \in Working /\ "lookup" # "seed"
        BY DEF Working, Seeded
      <3>2. /\ \A t \in needed : committed[t] = NoRecord
            /\ "sta" \in needed
            /\ ~ (reuse /\ "cpa" \in needed)
            /\ "cpa" \in needed => identity["cpa"] = IF reuse THEN committed["sta"].item ELSE <<>>
        BY <1>1, <2>1, <3>1 DEF Purpose, Checkpoint
      <3>3. Checkpoint' \in needed /\ lane' # "sta" /\ ~ (lane' = "cpa" /\ reuse)
        BY <2>1, <3>2 DEF Checkpoint
      <3>4. QED BY <2>1, <3>2, <3>3 DEF Purpose
    <2>4. Good(asked, item)
      BY <1>1, <2>1 DEF AtStep
    <2>5. sta' \in 0 .. Len(asked)
      <3>1. Len(asked) \in Nat /\ item[1] \in 1 .. Len(asked)
        BY <1>1, <2>4, SameAnswers, GoodAnswers DEF ContactTypes
      <3>2. QED BY <2>1, <3>1
    <2>6. cache' \in 0 .. Len(asked) /\ lane' \in {"sta", "cpa", "review"} /\ recovered' \in BOOLEAN
          /\ reuse' \in BOOLEAN /\ tasks' \subseteq Task
      BY <1>1, <2>1 DEF ContactTypes
    <2>7. QED BY <2>1, <2>2, <2>3, <2>5, <2>6, QuietStep
  <1>3. CASE ReviewMade
    <2>1. /\ pc = "made" /\ lane = "review" /\ pc' = "sync"
          /\ UNCHANGED <<asked, units, identity, committed, tasks, reuse, needed,
                         cache, recovered, sta, item, lane, prefix>>
      BY <1>3 DEF ReviewMade, Goto, disk, run, work
    <2>2. "made" \in Working
      BY DEF Working, Seeded
    <2>3. committed["sta"] = NoRecord
      BY <1>1, <2>1, <2>2 DEF Purpose, Checkpoint
    <2>4. AtStep' /\ Purpose'
      BY <1>1, <2>1, <2>3 DEF AtStep, Purpose, Working, Seeded
    <2>5. QED BY <1>1, <2>1, <2>4, MovesOn DEF ContactTypes
  <1>4. CASE Track
    <2>1. /\ pc = "made" /\ UNCHANGED <<asked, units, identity, committed, tasks, reuse, needed, cache, recovered,
                                        sta, item, lane, prefix, pc>>
      BY <1>4 DEF Track, run, work
    <2>2. AtStep' /\ Purpose'
      BY <1>1, <2>1 DEF AtStep, Purpose, Checkpoint
    <2>3. QED BY <1>1, <2>1, <2>2, MovesOn DEF ContactTypes
  <1>5. CASE Student
    <2>1. /\ pc = "made" /\ lane = "cpa" /\ pc' = "commitCpa"
          /\ UNCHANGED <<asked, units, identity, committed, tasks, reuse, needed,
                         cache, recovered, sta, item, lane, prefix>>
      BY <1>5 DEF Student, Goto, run, work
    <2>2. "made" \in Working /\ "commitCpa" \in Working /\ "commitCpa" \in Seeded /\ "made" # "seed"
      BY DEF Working, Seeded
    <2>3. lane = "cpa" /\ reuse => Contact(item) = committed["sta"].item
      BY <1>1, <2>1, <2>2 DEF Purpose
    <2>4. Purpose'
      BY <1>1, <2>1, <2>2, <2>3, Onward
    <2>5. AtStep'
      BY <1>1, <2>1 DEF AtStep
    <2>6. QED BY <1>1, <2>1, <2>4, <2>5, MovesOn DEF ContactTypes
  <1>6. QED BY <1>2, <1>3, <1>4, <1>5

LEMMA CachedHolds ==
  ASSUME NEW u, NEW k, NEW x \in Cached(u, k)
  PROVE  /\ ~ Malformed(x)
         /\ Holds(units, Checkpoint, Recovered[u], k, x) \/ Holds(units, Checkpoint, u, k, x)
  <1>1. x \in Valid(Recovered[u], k) \/ x \in Valid(u, k)
    BY DEF Cached
  <1>2. QED BY <1>1, SavedHolds DEF Valid

LEMMA BadProposal ==
  ASSUME ContactInv
  PROVE  BadEvidence("proposal", <<>>) <=> BadIn(asked, units, Checkpoint)
  BY SavedHolds DEF BadEvidence, BadIn, Malformed

LEMMA ProposeStep == ASSUME ContactInv, Propose PROVE ContactInv'
  <1> DEFINE t == Checkpoint
             bad == BadEvidence("proposal", <<>>)
  <1>1. /\ ContactTypes /\ Evidence(asked, units, identity["cpa"]) /\ Purpose /\ AllRight(asked, units, identity["cpa"])
        /\ OneValue(units)
    BY DEF ContactInv, Evidence
  <1>2. t \in Task /\ Checkpoint' = t
    <2>1. lane' = lane
      BY DEF Propose, Proposed
    <2>2. QED BY <1>1, <2>1 DEF Checkpoint, Task, ContactTypes
  <1>3. bad \in BOOLEAN /\ (bad <=> BadIn(asked, units, t))
    BY BadProposal DEF BadEvidence
  <1>4. pc = "propose" /\ pc \in Working \ Seeded
    BY DEF Propose, Working, Seeded
  <1>5. Recovered["proposal"] = "proposal:recovered"
    BY DEF Recovered
  <1> HIDE DEF t, bad
  <1>6. ASSUME NEW p, NEW r, Proposed(p, r)
        PROVE  /\ item' = <<p>> /\ cache' = p /\ recovered' = r /\ pc' \in {"recheck", "review"}
               /\ UNCHANGED <<identity, committed, tasks, reuse, needed, lane, prefix, sta>>
    BY <1>6 DEF Proposed, Goto, run
  <1>7. ASSUME NEW p, NEW r, Proposed(p, r) PROVE Purpose'
    <2>1. pc' \in Working /\ pc' # "seed" /\ pc' # "commitCpa" /\ UNCHANGED <<needed, committed, lane, identity, reuse>>
      BY <1>6, <1>7 DEF Working
    <2>2. ~ (lane = "cpa" /\ reuse)
      BY <1>1, <1>4, Unseeded
    <2>3. QED BY <1>1, <1>4, <2>1, <2>2, Onward
  <1>8. ASSUME NEW p \in 1 .. Len(asked), Proposed(p, bad), UNCHANGED <<asked, units>>,
               ~ bad => \A q : Holds(units, t, "proposal", <<>>, q) => q = p,
               bad => Holds(units, t, "proposal:recovered", <<>>, p)
        PROVE  ContactInv'
    <2>1. /\ item' = <<p>> /\ cache' = p /\ recovered' = bad /\ pc' \in {"recheck", "review"}
          /\ UNCHANGED <<identity, committed, tasks, reuse, needed, lane, prefix, sta>>
      BY <1>6, <1>8
    <2>2. Good(asked, <<p>>) /\ Len(<<p>>) = 1 /\ <<p>>[1] = p /\ Len(asked) \in Nat
      BY <1>1, GoodStarts, SameAnswers DEF ContactTypes
    <2>3. AtReview(asked', units', Checkpoint', recovered', item')
      BY <1>2, <1>3, <1>8, <2>1, <2>2 DEF AtReview
    <2>4. AtStep'
      BY <2>1, <2>3 DEF AtStep
    <2>5. Purpose'
      BY <1>7, <1>8
    <2>6. cache' \in 0 .. Len(asked) /\ sta' \in 0 .. Len(asked) /\ lane' \in {"sta", "cpa", "review"}
          /\ recovered' \in BOOLEAN /\ reuse' \in BOOLEAN /\ tasks' \subseteq Task
      BY <1>1, <1>3, <1>8, <2>1, <2>2 DEF ContactTypes
    <2>7. QED BY <1>8, <2>1, <2>4, <2>5, <2>6, QuietStep
  <1>9. ASSUME NEW p \in Cached("proposal", <<>>), Proposed(p, bad), UNCHANGED <<asked, units>>
        PROVE  ContactInv'
    <2>1. ~ Malformed(p) /\ (Holds(units, t, "proposal:recovered", <<>>, p) \/ Holds(units, t, "proposal", <<>>, p))
      BY <1>5, CachedHolds DEF t
    <2>2. p \in 1 .. Len(asked)
      BY <1>1, <1>2, <2>1, PaidUnits, HeldAnswer
    <2>3. Holds(units, t, "proposal:recovered", <<>>, p) => bad
      BY <1>1, <1>2, <1>3 DEF AllRight, Right
    <2>4. Holds(units, t, "proposal", <<>>, p) => ~ bad
      <3>1. SUFFICES ASSUME Holds(units, t, "proposal", <<>>, p), BadIn(asked, units, t) PROVE FALSE
        BY <1>3
      <3>2. PICK q : Holds(units, t, "proposal", <<>>, q) /\ asked[q].says = "malformed"
        BY <3>1 DEF BadIn
      <3>3. q = p
        BY <1>1, <1>2, <3>1, <3>2 DEF OneValue
      <3>4. QED BY <2>1, <3>2, <3>3 DEF Malformed
    <2>5. ~ bad => \A q : Holds(units, t, "proposal", <<>>, q) => q = p
      BY <1>1, <1>2, <2>1, <2>3 DEF OneValue
    <2>6. bad => Holds(units, t, "proposal:recovered", <<>>, p)
      BY <2>1, <2>4
    <2>7. QED BY <1>8, <1>9, <2>2, <2>5, <2>6
  <1>10. ASSUME Cached("proposal", <<>>) = {}, ~ bad
         PROVE  \A q : ~ Holds(units, t, "proposal", <<>>, q)
    <2>1. SUFFICES ASSUME NEW q, Holds(units, t, "proposal", <<>>, q) PROVE FALSE
      OBVIOUS
    <2>2. q \in Saved(Checkpoint, "proposal", <<>>)
      BY <2>1, SavedHolds DEF t
    <2>3. ~ Malformed(q)
      BY <1>10, <2>2 DEF bad, BadEvidence
    <2>4. Valid("proposal", <<>>) # {}
      BY <2>2, <2>3 DEF Valid
    <2>5. QED BY <1>10, <2>4 DEF Cached
  <1>11. ASSUME Cached("proposal", <<>>) = {}, ~ bad, cache # 0, Proposed(cache, FALSE), UNCHANGED <<asked, units>>
         PROVE  ContactInv'
    <2>1. cache \in 1 .. Len(asked)
      BY <1>1, <1>11 DEF ContactTypes
    <2>2. bad = FALSE
      BY <1>3, <1>11
    <2>3. QED BY <1>8, <1>10, <1>11, <2>1, <2>2
  <1>12. ASSUME Cached("proposal", <<>>) = {}, Answer("proposal", <<>>, "yes"),
                Put(Checkpoint, Unit(Destination("proposal", <<>>), <<>>, Fresh)), Proposed(Fresh, bad)
         PROVE  ContactInv'
    <2> DEFINE u == Destination("proposal", <<>>)
    <2>1. /\ asked' \in Seq(Asking) /\ Extends(asked, asked') /\ Len(asked') = Len(asked) + 1
          /\ Fresh \in 1 .. Len(asked') /\ Fresh \notin 1 .. Len(asked)
          /\ asked'[Fresh].unit = "proposal" /\ asked'[Fresh].says = "yes"
      <3>1. "proposal" \in Kinds /\ "yes" \in Says /\ <<>> \in Seq(Nat)
        BY DEF Kinds, Says
      <3>2. QED BY <1>1, <1>12, <3>1, AnswerAdds DEF ContactTypes
    <2>2. DOMAIN units' = Task /\ Adds(units, units', t, u, <<>>, Fresh)
          /\ \A y : Holds(units, t, u, <<>>, y) => y = Fresh
      BY <1>1, <1>2, <1>12, PutAdds DEF t, ContactTypes
    <2>3. u = IF bad THEN "proposal:recovered" ELSE "proposal"
      BY <1>5 DEF bad, Destination
    <2> HIDE DEF u
    <2>4. Keeps(units, units', t) /\ Holds(units', t, u, <<>>, Fresh)
      BY <1>2, <2>2 DEF Adds, Keeps
    <2>5. u \in Paid /\ Kind(u) = "proposal" /\ u \notin ReviewUnit \cup SegmentUnit
          /\ u \notin {"review:recovered", "frame", "initial", "points", "final", "box", "reuse_bbox"}
      BY <2>3 DEF Paid, Kind, ReviewUnit, SegmentUnit
    <2>6. bad => BadIn(asked', units', t)
      BY <1>1, <1>2, <1>3, <2>1, <2>4, BadStays
    <2>7. Right(asked', units', identity["cpa"], t, u, <<>>, Fresh)
      BY <2>1, <2>3, <2>5, <2>6 DEF Right
    <2>8. Evidence(asked', units', identity["cpa"])
      BY <1>1, <1>2, <2>1, <2>2, <2>5, <2>7, EvidenceGrows
    <2>9. /\ item' = <<Fresh>> /\ cache' = Fresh /\ recovered' = bad /\ pc' \in {"recheck", "review"}
          /\ UNCHANGED <<identity, committed, tasks, reuse, needed, lane, prefix, sta>>
      BY <1>6, <1>12
    <2>10. Good(asked', <<Fresh>>) /\ Len(<<Fresh>>) = 1 /\ <<Fresh>>[1] = Fresh
      BY <2>1, GoodStarts DEF Extends
    <2>11. ~ bad => \A q : Holds(units', t, "proposal", <<>>, q) => q = Fresh
      BY <1>2, <1>10, <1>12, <2>2 DEF Adds
    <2>12. ~ bad => ~ BadIn(asked', units', t)
      BY <2>1, <2>11 DEF BadIn
    <2>13. bad => Holds(units', t, "proposal:recovered", <<>>, Fresh)
      BY <2>3, <2>4
    <2>14. AtReview(asked', units', Checkpoint', recovered', item')
      BY <1>2, <2>6, <2>9, <2>10, <2>11, <2>12, <2>13 DEF AtReview
    <2>15. AtStep'
      BY <2>9, <2>14 DEF AtStep
    <2>16. Purpose'
      BY <1>7, <1>12
    <2>17. cache' \in 0 .. Len(asked') /\ recovered' \in BOOLEAN
      BY <1>3, <2>1, <2>9
    <2>18. QED BY <2>1, <2>2, <2>8, <2>9, <2>15, <2>16, <2>17, GrowingStep
  <1>13. \/ \E p \in Cached("proposal", <<>>) : Proposed(p, bad) /\ UNCHANGED <<asked, units>>
         \/ Cached("proposal", <<>>) = {} /\ ~ bad /\ cache # 0 /\ Proposed(cache, FALSE) /\ UNCHANGED <<asked, units>>
         \/ /\ Cached("proposal", <<>>) = {} /\ Answer("proposal", <<>>, "yes")
            /\ Put(Checkpoint, Unit(Destination("proposal", <<>>), <<>>, Fresh)) /\ Proposed(Fresh, bad)
    BY DEF Propose, bad
  <1>14. QED BY <1>9, <1>11, <1>12, <1>13

(* The review that an item continues with is of its proposal.              *)
LEMMA ReviewOfItem ==
  ASSUME NEW a, NEW U, NEW seed, Evidence(a, U, seed), NEW t \in Task, NEW again, NEW x,
         AtReview(a, U, t, again, x), NEW u \in ReviewUnit, NEW r,
         Holds(U, t, u, IF again THEN <<x[1]>> ELSE <<>>, r)
  PROVE  a[r].of = <<x[1]>> \/ a[r].loan
  <1> DEFINE k == IF again THEN <<x[1]>> ELSE <<>>
  <1>1. RightReview(a, U, t, k, r)
    BY DEF Evidence, AllRight, Right
  <1>2. CASE again
    BY <1>1, <1>2 DEF RightReview
  <1>3. CASE ~ again
    <2>1. \A p : Holds(U, t, "proposal", <<>>, p) => p = x[1]
      BY <1>3 DEF AtReview
    <2>2. QED BY <1>1, <1>3, <2>1 DEF RightReview
  <1>4. QED BY <1>2, <1>3

LEMMA ReviewStep == ASSUME ContactInv, Review PROVE ContactInv'
  <1> DEFINE t == Checkpoint
             k == ReviewKey
             set == BadEvidence("review", ReviewKey)
  <1>1. /\ ContactTypes /\ Evidence(asked, units, identity["cpa"]) /\ Purpose /\ AllRight(asked, units, identity["cpa"])
        /\ OneValue(units) /\ Len(asked) \in Nat
    BY SameAnswers DEF ContactInv, Evidence, ContactTypes
  <1>2. t \in Task /\ Checkpoint' = t
    <2>1. lane' = lane
      BY DEF Review, Reviewed
    <2>2. QED BY <1>1, <2>1 DEF Checkpoint, Task, ContactTypes
  <1>3. pc = "review" /\ pc \in Working \ Seeded /\ lane # "sta"
    BY DEF Review, Working, Seeded
  <1>4. AtReview(asked, units, t, recovered, item)
    BY <1>3 DEF ContactInv, AtStep
  <1>5. k = (IF recovered THEN <<item[1]>> ELSE <<>>)
    BY DEF ReviewKey
  <1>6. Recovered["review"] = "review:recovered"
    BY DEF Recovered
  <1>7. /\ Good(asked, item) /\ Len(item) = 1 /\ item[1] \in 1 .. Len(asked) /\ item \in Seq(Nat)
    BY <1>1, <1>4, GoodAnswers DEF AtReview
  <1> HIDE DEF t, k, set
  <1>8. ASSUME NEW r, Reviewed(r)
        PROVE  /\ item' = Append(item, r) /\ prefix' = IF recovered \/ set THEN <<r>> ELSE <<>>
               /\ UNCHANGED <<identity, committed, tasks, reuse, needed, lane, cache, recovered, sta>>
    BY <1>8 DEF Reviewed, run, set
  <1>9. ASSUME NEW r, Reviewed(r), pc' \in {"frame", "store"} PROVE Purpose'
    <2>1. pc' \in Working /\ pc' # "seed" /\ pc' # "commitCpa" /\ UNCHANGED <<needed, committed, lane, identity, reuse>>
      BY <1>8, <1>9 DEF Working, Seeded
    <2>2. ~ (lane = "cpa" /\ reuse)
      BY <1>1, <1>3, Unseeded
    <2>3. QED BY <1>1, <1>3, <2>1, <2>2, Onward
  <1>10. ASSUME NEW a, NEW U, NEW u \in ReviewUnit, NEW r \in 1 .. Len(a), Good(a, item), Len(a) \in Nat,
                Holds(U, t, u, k, r), a[r].of = <<item[1]>> \/ a[r].loan,
                u = "review" /\ ~ recovered => ~ set,
                u # "review" => set
         PROVE  AtFrame(a, U, t, IF recovered \/ set THEN <<r>> ELSE <<>>, Append(item, r))
    <2> DEFINE x == Append(item, r)
               f == IF recovered \/ set THEN <<r>> ELSE <<>>
    <2>1. Good(a, x)
      <3>1. Len(item) = 1 => a[r].of = <<item[1]>> \/ a[r].loan
        BY <1>10
      <3>2. ~ (Len(item) > 1)
        BY <1>7
      <3>3. QED BY <1>10, <3>1, <3>2, GoodGrows
    <2>2. Len(x) = 2 /\ x[2] = r
      <3>1. r \in Nat
        BY <1>10
      <3>2. Len(Append(item, r)) = Len(item) + 1 /\ Append(item, r)[Len(item) + 1] = r
        BY <1>7, <3>1, AppendLast
      <3>3. QED BY <1>7, <3>2
    <2> HIDE DEF x
    <2>3. ASSUME recovered \/ set PROVE AtFrame(a, U, t, f, x)
      <3>1. u # "review" \/ k # <<>>
        BY <1>5, <1>10, <2>3
      <3>2. Aside(U, t, r)
        BY <1>10, <3>1 DEF Aside
      <3>3. QED BY <2>1, <2>2, <2>3, <3>2 DEF AtFrame
    <2>4. ASSUME ~ (recovered \/ set) PROVE AtFrame(a, U, t, f, x)
      <3>1. u = "review" /\ k = <<>>
        BY <1>5, <1>10, <2>4
      <3>2. Holds(U, t, "review", <<>>, r)
        BY <1>10, <3>1
      <3>3. QED BY <2>1, <2>2, <2>4, <3>2 DEF AtFrame
    <2>5. AtFrame(a, U, t, f, x)
      BY <2>3, <2>4
    <2>6. QED BY <2>5 DEF x
  <1>11. ASSUME NEW r \in Cached("review", k), Reviewed(r), pc' \in {"frame", "store"}, UNCHANGED <<asked, units>>
         PROVE  ContactInv'
    <2>1. PICK u \in {"review:recovered", "review"} : Holds(units, t, u, k, r)
      BY <1>6, CachedHolds DEF t
    <2>2. u \in ReviewUnit /\ u \in Paid
      BY <2>1, PaidUnits DEF ReviewUnit
    <2>3. r \in 1 .. Len(asked)
      BY <1>1, <1>2, <2>1, <2>2, HeldAnswer
    <2>4. asked[r].of = <<item[1]>> \/ asked[r].loan
      BY <1>1, <1>2, <1>4, <1>5, <2>1, <2>2, ReviewOfItem
    <2>5. \A q : Holds(units, t, "review", k, q) => q \in Saved(Checkpoint, "review", k)
      BY SavedHolds DEF t
    <2>6. u = "review" => ~ set
      <3>1. SUFFICES ASSUME u = "review", set PROVE FALSE
        OBVIOUS
      <3>2. PICK q : Holds(units, t, "review", k, q) /\ Malformed(q)
        BY <3>1, SavedHolds DEF set, BadEvidence, t, k
      <3>3. q = r
        BY <1>1, <1>2, <2>1, <3>1, <3>2 DEF OneValue
      <3>4. ~ Malformed(r)
        BY CachedHolds
      <3>5. QED BY <3>2, <3>3, <3>4
    <2>7. u # "review" => set
      <3>1. SUFFICES ASSUME u = "review:recovered" PROVE set
        BY <2>1
      <3>2. PICK q : Holds(units, t, "review", k, q) /\ asked[q].says = "malformed"
        BY <1>1, <1>2, <2>1, <3>1 DEF AllRight, Right
      <3>3. q \in Saved(Checkpoint, "review", k) /\ Malformed(q)
        BY <2>5, <3>2 DEF Malformed
      <3>4. QED BY <3>3 DEF set, BadEvidence, k
    <2>8. AtFrame(asked, units, t, IF recovered \/ set THEN <<r>> ELSE <<>>, Append(item, r))
      BY <1>1, <1>7, <1>10, <2>1, <2>2, <2>3, <2>4, <2>6, <2>7
    <2>9. item' = Append(item, r) /\ prefix' = (IF recovered \/ set THEN <<r>> ELSE <<>>)
          /\ UNCHANGED <<identity, committed, tasks, reuse, needed, lane, cache, recovered, sta>>
      BY <1>8, <1>11
    <2>10. AtStep'
      BY <1>2, <1>3, <1>11, <2>8, <2>9 DEF AtStep, AtFrame
    <2>11. Purpose'
      BY <1>9, <1>11
    <2>12. QED BY <1>1, <1>11, <2>9, <2>10, <2>11, MovesOn DEF ContactTypes
  <1>12. ASSUME NEW says \in {"yes", "no", "unboxed"}, Answer("review", item, says), Reviewed(Fresh),
                pc' \in {"frame", "store"}, Cached("review", k) = {},
                Put(Checkpoint, Unit(Destination("review", k), k, Fresh))
         PROVE  ContactInv'
    <2> DEFINE u == Destination("review", k)
    <2>1. /\ asked' \in Seq(Asking) /\ Extends(asked, asked') /\ Len(asked') = Len(asked) + 1
          /\ Fresh \in 1 .. Len(asked') /\ Fresh \notin 1 .. Len(asked)
          /\ asked'[Fresh].unit = "review" /\ asked'[Fresh].of = item
          /\ asked'[Fresh].loan <=> Head(item) \notin OnRecord
      <3>1. "review" \in Kinds /\ says \in Says
        BY DEF Kinds, Says
      <3>2. QED BY <1>1, <1>7, <1>12, <3>1, AnswerAdds DEF ContactTypes
    <2>2. DOMAIN units' = Task /\ Adds(units, units', t, u, k, Fresh)
          /\ \A y : Holds(units, t, u, k, y) => y = Fresh
      BY <1>1, <1>2, <1>12, PutAdds DEF t, ContactTypes
    <2>3. u = IF set THEN "review:recovered" ELSE "review"
      BY <1>6 DEF set, k, Destination
    <2> HIDE DEF u
    <2>4. Keeps(units, units', t) /\ Holds(units', t, u, k, Fresh)
      BY <1>2, <2>2 DEF Adds, Keeps
    <2>5. u \in Paid /\ Kind(u) = "review" /\ u \in ReviewUnit /\ u \notin SegmentUnit
          /\ u \notin {"proposal", "proposal:recovered", "frame", "initial", "points", "final", "box", "reuse_bbox"}
      BY <2>3 DEF Paid, Kind, ReviewUnit, SegmentUnit
    <2>6. Head(item) = item[1] /\ item = <<item[1]>>
      BY <1>7
    <2>7. asked'[Fresh].loan => ~ recovered
      <3>1. Holds(units, t, "proposal:recovered", <<>>, item[1]) => item[1] \in OnRecord
        BY SavedHolds DEF OnRecord, t
      <3>2. QED BY <1>4, <2>1, <2>6, <3>1 DEF AtReview
    <2>8. asked'[Fresh].loan => ~ BadIn(asked, units, t)
      BY <1>4, <2>7 DEF AtReview
    <2>9. RightReview(asked', units', t, k, Fresh)
      <3>1. CASE recovered
        <4>1. Holds(units', t, "proposal:recovered", <<>>, item[1])
          BY <1>4, <2>4, <3>1 DEF AtReview, Keeps
        <4>2. QED BY <1>5, <2>1, <2>6, <3>1, <4>1 DEF RightReview
      <3>2. CASE ~ recovered
        <4>1. SUFFICES ASSUME ~ asked'[Fresh].loan
                       PROVE  \E p : Holds(units', t, "proposal", <<>>, p) /\ asked'[Fresh].of = <<p>>
          BY <1>5, <3>2 DEF RightReview
        <4>2. item[1] \in OnRecord
          BY <2>1, <2>6, <4>1
        <4>3. ~ Holds(units, t, "proposal:recovered", <<>>, item[1])
          BY <1>1, <1>2, <1>4, <3>2 DEF AtReview, AllRight, Right
        <4>4. Holds(units, t, "proposal", <<>>, item[1])
          BY <4>2, <4>3, SavedHolds DEF OnRecord, t
        <4>5. QED BY <2>1, <2>4, <2>6, <4>4 DEF Keeps
      <3>3. QED BY <3>1, <3>2
    <2>10. u = "review:recovered" => \E r : Holds(units', t, "review", k, r) /\ asked'[r].says = "malformed"
      <3>1. SUFFICES ASSUME set PROVE \E r : Holds(units', t, "review", k, r) /\ asked'[r].says = "malformed"
        BY <2>3
      <3>2. PICK q : Holds(units, t, "review", k, q) /\ Malformed(q)
        BY <3>1, SavedHolds DEF set, BadEvidence, t, k
      <3>3. q \in 1 .. Len(asked)
        BY <1>1, <1>2, <3>2, PaidUnits, HeldAnswer
      <3>4. asked'[q] = asked[q] /\ Holds(units', t, "review", k, q)
        BY <2>1, <2>4, <3>2, <3>3 DEF Extends, Keeps
      <3>5. QED BY <3>2, <3>4 DEF Malformed
    <2>11. Right(asked', units', identity["cpa"], t, u, k, Fresh)
      BY <2>1, <2>5, <2>9, <2>10 DEF Right
    <2>12. Evidence(asked', units', identity["cpa"])
      BY <1>1, <1>2, <2>1, <2>2, <2>5, <2>8, <2>11, EvidenceGrows
    <2>13. Good(asked', item) /\ Len(asked') \in Nat
      BY <1>7, <2>1, GoodStays DEF Extends
    <2>14. AtFrame(asked', units', t, IF recovered \/ set THEN <<Fresh>> ELSE <<>>, Append(item, Fresh))
      BY <1>10, <2>1, <2>3, <2>4, <2>5, <2>6, <2>13
    <2>15. item' = Append(item, Fresh) /\ prefix' = (IF recovered \/ set THEN <<Fresh>> ELSE <<>>)
           /\ UNCHANGED <<identity, committed, tasks, reuse, needed, lane, cache, recovered, sta>>
      BY <1>8, <1>12
    <2>16. AtStep'
      BY <1>2, <1>3, <1>12, <2>14, <2>15 DEF AtStep, AtFrame
    <2>17. Purpose'
      BY <1>9, <1>12
    <2>18. cache' \in 0 .. Len(asked') /\ recovered' \in BOOLEAN
      BY <1>1, <2>1, <2>15 DEF ContactTypes
    <2>19. QED BY <2>1, <2>2, <2>12, <2>15, <2>16, <2>17, <2>18, GrowingStep
  <1>13. \/ \E r \in Cached("review", k) : Reviewed(r) /\ pc' \in {"frame", "store"} /\ UNCHANGED <<asked, units>>
         \/ /\ Cached("review", k) = {} /\ pc' \in {"frame", "store"} /\ Reviewed(Fresh)
            /\ \E says \in {"yes", "no", "unboxed"} : Answer("review", item, says)
            /\ Put(Checkpoint, Unit(Destination("review", k), k, Fresh))
    BY DEF Review, Goto, k
  <1>14. QED BY <1>11, <1>12, <1>13

LEMMA TailOfPair ==
  ASSUME NEW S, NEW x \in Seq(S), Len(x) = 2
  PROVE  Tail(x) = <<x[2]>>
  <1> DEFINE l == Tail(x)
             r == <<x[2]>>
  <1>1. l \in Seq(S) /\ Len(l) = 1 /\ \A i \in 1 .. 1 : l[i] = x[i + 1]
    <2>1. x # <<>>
      OBVIOUS
    <2>2. QED BY <2>1, HeadTailProperties
  <1>2. x[2] \in S
    <2>1. 2 \in 1 .. Len(x)
      OBVIOUS
    <2>2. QED BY <2>1, ElementOfSeq
  <1>3. r \in Seq(S) /\ Len(r) = 1 /\ r[1] = x[2]
    BY <1>2
  <1> HIDE DEF l, r
  <1>4. \A i \in 1 .. Len(l) : l[i] = r[i]
    BY <1>1, <1>3
  <1>5. l = r
    BY <1>1, <1>3, <1>4, SeqEqual
  <1>6. QED BY <1>5 DEF l, r

LEMMA NextAnswer ==
  ASSUME NEW a, NEW x, Good(a, x), Len(a) \in Nat, NEW y \in 1 .. Len(a), Len(x) > 1,
         Tail(a[y].of) = Tail(x)
  PROVE  /\ Good(a, Append(x, y)) /\ Len(Append(x, y)) = Len(x) + 1 /\ Append(x, y)[Len(x) + 1] = y
         /\ \A n \in 1 .. Len(x) : Append(x, y)[n] = x[n]
         /\ Len(x) > 2 => Contact(Append(x, y)) = Contact(x)
  <1>1. x \in Seq(Nat) /\ Len(x) \in Nat /\ y \in Nat
    BY GoodAnswers
  <1>2. Good(a, Append(x, y))
    <2> DEFINE len == Len(x)
    <2>3. len \in Nat /\ len > 1
      BY <1>1
    <2> HIDE DEF len
    <2>4. ~ (len = 1)
      BY <2>3
    <2>1. ~ (Len(x) = 1)
      BY <2>4 DEF len
    <2>2. QED BY <2>1, GoodGrows
  <1>3. Len(x) > 2 => Contact(Append(x, y)) = Contact(x)
    BY <1>1, ContactGrows
  <1>4. QED BY <1>1, <1>2, <1>3, AppendLast

(* The frame that an item continues with is of its review.                 *)
LEMMA FrameOfItem ==
  ASSUME NEW a, NEW U, NEW seed, Evidence(a, U, seed), NEW t \in Task, NEW k, NEW x,
         AtFrame(a, U, t, k, x), NEW f, Holds(U, t, "frame", k, f)
  PROVE  Tail(a[f].of) = <<x[2]>>
  <1>1. RightFrame(a, U, t, k, f) /\ OneValue(U)
    BY DEF Evidence, AllRight, Right
  <1>2. CASE k = <<>>
    <2>1. Holds(U, t, "review", <<>>, x[2])
      BY <1>2 DEF AtFrame
    <2>2. \A r : Holds(U, t, "review", <<>>, r) => r = x[2]
      BY <1>1, <2>1 DEF OneValue
    <2>3. QED BY <1>1, <1>2, <2>2 DEF RightFrame
  <1>3. CASE k # <<>>
    <2>1. k = <<x[2]>>
      BY <1>3 DEF AtFrame
    <2>2. PICK r : Tail(a[f].of) = <<r>> /\ k = <<r>>
      BY <1>1, <1>3 DEF RightFrame
    <2>3. QED BY <2>1, <2>2
  <1>4. QED BY <1>2, <1>3

LEMMA FrameStep == ASSUME ContactInv, Frame PROVE ContactInv'
  <1> DEFINE t == Checkpoint
  <1>1. /\ ContactTypes /\ Evidence(asked, units, identity["cpa"]) /\ Purpose /\ AllRight(asked, units, identity["cpa"])
        /\ Len(asked) \in Nat
    BY SameAnswers DEF ContactInv, Evidence, ContactTypes
  <1>2. t \in Task /\ Checkpoint' = t
    <2>1. lane' = lane
      BY DEF Frame, FrameChosen
    <2>2. QED BY <1>1, <2>1 DEF Checkpoint, Task, ContactTypes
  <1>3. pc = "frame" /\ pc \in Working \ Seeded
    BY DEF Frame, Working, Seeded
  <1>4. AtFrame(asked, units, t, prefix, item) /\ lane # "sta"
    BY <1>3 DEF ContactInv, AtStep
  <1>5. /\ Good(asked, item) /\ Len(item) = 2 /\ item \in Seq(Nat)
    BY <1>1, <1>4, GoodAnswers DEF AtFrame
  <1>6. Tail(item) = <<item[2]>>
    BY <1>5, TailOfPair
  <1>7. ~ (lane = "cpa" /\ reuse)
    BY <1>1, <1>3, Unseeded
  <1>8. t = "sta" \/ lane = "cpa"
    BY DEF Checkpoint
  <1> HIDE DEF t
  <1>9. ASSUME NEW f, NEW yes, FrameChosen(f, yes)
        PROVE  /\ item' = Append(item, f) /\ pc' \in {"store", "points"} /\ (lane = "review" => pc' = "store")
               /\ UNCHANGED <<identity, committed, tasks, reuse, needed, lane, cache, recovered, prefix, sta>>
    BY <1>9 DEF FrameChosen, Goto, run
  <1>10. ASSUME NEW f, NEW yes, FrameChosen(f, yes) PROVE Purpose'
    <2>1. pc' \in Working /\ pc' # "seed" /\ pc' # "commitCpa" /\ UNCHANGED <<needed, committed, lane, identity, reuse>>
      BY <1>9, <1>10 DEF Working, Seeded
    <2>2. QED BY <1>1, <1>3, <1>7, <2>1, Onward
  <1>11. ASSUME NEW f \in 1 .. Len(asked'), NEW yes, FrameChosen(f, yes), Len(asked') \in Nat, Good(asked', item),
                Tail(asked'[f].of) = Tail(item), Holds(units', t, "frame", prefix, f)
         PROVE  AtStep'
    <2>1. /\ item' = Append(item, f) /\ pc' \in {"store", "points"} /\ (lane = "review" => pc' = "store")
          /\ UNCHANGED <<identity, committed, tasks, reuse, needed, lane, cache, recovered, prefix, sta>>
      BY <1>9, <1>11
    <2>2. Good(asked', item') /\ Len(item') = 3 /\ item'[3] = f
      <3>1. Len(item) > 1
        BY <1>5
      <3>2. /\ Good(asked', Append(item, f)) /\ Len(Append(item, f)) = Len(item) + 1
            /\ Append(item, f)[Len(item) + 1] = f
        BY <1>11, <3>1, NextAnswer
      <3>3. QED BY <1>5, <2>1, <3>2
    <2>3. CASE pc' = "points"
      <3>1. lane = "cpa" /\ t = "cpa" /\ ~ reuse
        BY <1>1, <1>4, <1>7, <2>1, <2>3 DEF ContactTypes, t, Checkpoint
      <3>2. AtPoints(asked', units', reuse', prefix', item', 3)
        BY <1>11, <2>1, <2>2, <3>1 DEF AtPoints
      <3>3. QED BY <2>1, <2>3, <3>1, <3>2 DEF AtStep
    <2>4. CASE pc' = "store"
      BY <2>2, <2>4 DEF AtStep
    <2>5. QED BY <2>1, <2>3, <2>4
  <1>12. ASSUME NEW f \in Saved(Checkpoint, "frame", prefix), FrameChosen(f, Accepts(f)), UNCHANGED <<asked, units>>
         PROVE  ContactInv'
    <2>1. Holds(units, t, "frame", prefix, f)
      BY SavedHolds DEF t
    <2>2. f \in 1 .. Len(asked)
      BY <1>1, <1>2, <2>1, PaidUnits, HeldAnswer
    <2>3. Tail(asked[f].of) = Tail(item)
      <3>1. Tail(asked[f].of) = <<item[2]>>
        BY <1>1, <1>2, <1>4, <2>1, FrameOfItem
      <3>2. QED BY <1>6, <3>1
    <2>4. AtStep'
      BY <1>1, <1>5, <1>11, <1>12, <2>1, <2>2, <2>3
    <2>5. Purpose'
      BY <1>10, <1>12
    <2>6. UNCHANGED <<identity, committed, tasks, reuse, needed, lane, cache, recovered, prefix, sta>>
      BY <1>9, <1>12
    <2>7. QED BY <1>1, <1>12, <2>4, <2>5, <2>6, MovesOn DEF ContactTypes
  <1>13. ASSUME NEW says \in {"yes", "no"}, Answer("frame", item, says), FrameChosen(Fresh, says = "yes"),
                Put(Checkpoint, Unit("frame", prefix, Fresh))
         PROVE  ContactInv'
    <2>1. /\ asked' \in Seq(Asking) /\ Extends(asked, asked') /\ Len(asked') = Len(asked) + 1
          /\ Fresh \in 1 .. Len(asked') /\ Fresh \notin 1 .. Len(asked)
          /\ asked'[Fresh].unit = "frame" /\ asked'[Fresh].of = item
      <3>1. "frame" \in Kinds /\ says \in Says
        BY DEF Kinds, Says
      <3>2. QED BY <1>1, <1>5, <1>13, <3>1, AnswerAdds DEF ContactTypes
    <2>2. DOMAIN units' = Task /\ Adds(units, units', t, "frame", prefix, Fresh)
          /\ \A y : Holds(units, t, "frame", prefix, y) => y = Fresh
      BY <1>1, <1>2, <1>13, PutAdds DEF t, ContactTypes
    <2>3. Keeps(units, units', t) /\ Holds(units', t, "frame", prefix, Fresh)
      BY <1>2, <2>2 DEF Adds, Keeps
    <2>4. Kind("frame") = "frame" /\ "frame" \in Paid /\ "frame" \notin ReviewUnit \cup SegmentUnit
      BY DEF Kind, Paid, ReviewUnit, SegmentUnit
    <2>5. RightFrame(asked', units', t, prefix, Fresh)
      <3>1. Tail(asked'[Fresh].of) = <<item[2]>>
        BY <1>6, <2>1
      <3>2. CASE prefix = <<item[2]>> /\ Aside(units, t, item[2])
        <4>1. Aside(units', t, item[2])
          BY <2>3, <3>2 DEF Aside, Keeps
        <4>2. prefix # <<>>
          BY <3>2
        <4>3. QED BY <3>1, <3>2, <4>1, <4>2 DEF RightFrame
      <3>3. CASE prefix = <<>> /\ Holds(units, t, "review", <<>>, item[2])
        <4>1. Holds(units', t, "review", <<>>, item[2])
          BY <2>3, <3>3 DEF Keeps
        <4>2. QED BY <3>1, <3>3, <4>1 DEF RightFrame
      <3>4. QED BY <1>4, <3>2, <3>3 DEF AtFrame
    <2>6. Right(asked', units', identity["cpa"], t, "frame", prefix, Fresh)
      BY <2>1, <2>4, <2>5 DEF Right
    <2>7. t = "cpa" => identity["cpa"] = <<>>
      <3>1. SUFFICES ASSUME t = "cpa" PROVE identity["cpa"] = <<>>
        OBVIOUS
      <3>2. lane = "cpa" /\ ~ reuse
        BY <1>7, <1>8, <3>1
      <3>3. QED BY <1>1, <1>3, <3>1, <3>2 DEF Purpose, t
    <2>8. Evidence(asked', units', identity["cpa"])
      BY <1>1, <1>2, <2>1, <2>2, <2>4, <2>6, <2>7, EvidenceGrows
    <2>9. Good(asked', item) /\ Len(asked') \in Nat
      BY <1>5, <2>1, GoodStays DEF Extends
    <2>10. AtStep'
      BY <1>11, <1>13, <2>1, <2>3, <2>9
    <2>11. Purpose'
      BY <1>10, <1>13
    <2>12. UNCHANGED <<identity, committed, tasks, reuse, needed, lane, cache, recovered, prefix, sta>>
      BY <1>9, <1>13
    <2>13. cache' \in 0 .. Len(asked') /\ recovered' \in BOOLEAN
      BY <1>1, <2>1, <2>12 DEF ContactTypes
    <2>14. QED BY <2>1, <2>2, <2>8, <2>10, <2>11, <2>12, <2>13, GrowingStep
  <1>14. QED BY <1>12, <1>13 DEF Frame

(* The key of the points of an item: of reuse, the contact it was seeded   *)
(* with; otherwise the prefix of its frame.                                *)
SeedOf(seed, seeded, k) == IF seeded THEN seed = k /\ k # <<>> ELSE seed = <<>>

LEMMA InitialOfItem ==
  ASSUME NEW a, NEW U, NEW seed, Evidence(a, U, seed), NEW seeded, NEW k, NEW x, NEW len \in Nat,
         AtPoints(a, U, seeded, k, x, len), len > 2, SeedOf(seed, seeded, k), Len(a) \in Nat,
         NEW i, Holds(U, "cpa", "initial", k, i)
  PROVE  Tail(a[i].of) = Tail(SubSeq(x, 1, 3))
  <1>1. Good(a, x) /\ Len(x) = len /\ x \in Seq(Nat) /\ OneValue(U) /\ "cpa" \in Task
    BY GoodAnswers DEF AtPoints, Evidence, Task
  <1>2. RightInitial(a, U, seed, k, i)
    BY <1>1 DEF Evidence, AllRight, Right
  <1>3. CASE ~ seeded
    <2>1. seed = <<>>
      BY <1>3 DEF SeedOf
    <2>2. PICK f : Holds(U, "cpa", "frame", k, f) /\ Tail(a[i].of) = Append(Tail(a[f].of), f)
      BY <1>2, <2>1 DEF RightInitial
    <2>3. Holds(U, "cpa", "frame", k, x[3])
      BY <1>3 DEF AtPoints
    <2>4. f = x[3]
      BY <1>1, <2>2, <2>3 DEF OneValue
    <2>5. 3 \in 3 .. Len(x)
      BY <1>1
    <2>6. Tail(SubSeq(x, 1, 3)) = Append(Tail(a[x[3]].of), x[3])
      BY <1>1, <2>5, LastAnswer
    <2>7. QED BY <2>2, <2>4, <2>6
  <1>4. CASE seeded
    <2>1. seed = k /\ k # <<>> /\ k = Contact(x)
      BY <1>4 DEF SeedOf, AtPoints
    <2>2. a[i].of = Contact(x)
      BY <1>2, <2>1 DEF RightInitial
    <2>3. Contact(x) = SubSeq(x, 1, 3)
      BY <1>1, ContactFacts
    <2>4. QED BY <2>2, <2>3
  <1>5. QED BY <1>3, <1>4

LEMMA FrontOfItem ==
  ASSUME NEW a, NEW x, Good(a, x), Len(a) \in Nat, Len(x) = 3 PROVE SubSeq(x, 1, 3) = x /\ Contact(x) = x
  <1>1. x \in Seq(Nat)
    BY GoodAnswers
  <1>2. SubSeq(x, 1, Len(x)) = x
    BY <1>1, WholeOf
  <1>3. QED BY <1>2, ContactFacts

(* What holds while the points of an item are made.                        *)
LEMMA PointsFacts ==
  ASSUME ContactInv, pc \in {"points", "verdict", "keep"}
  PROVE  /\ lane = "cpa" /\ Checkpoint = "cpa" /\ pc \in Working /\ pc \in Seeded /\ "cpa" \in needed
         /\ SeedOf(identity["cpa"], reuse, prefix)
         /\ reuse => Contact(item) = committed["sta"].item
         /\ \E len \in {3, 4, 5} : AtPoints(asked, units, reuse, prefix, item, len)
  <1>1. AtStep /\ Purpose /\ Len(asked) \in Nat
    BY SameAnswers DEF ContactInv, ContactTypes
  <1>2. lane = "cpa" /\ \E len \in {3, 4, 5} : AtPoints(asked, units, reuse, prefix, item, len)
    BY <1>1 DEF AtStep
  <1>3. pc \in Working /\ pc \in Seeded /\ pc # "seed" /\ Checkpoint = "cpa"
    BY <1>2 DEF Working, Seeded, Checkpoint
  <1>4. /\ "cpa" \in needed /\ identity["cpa"] = (IF reuse THEN committed["sta"].item ELSE <<>>)
        /\ reuse => Contact(item) = committed["sta"].item
    BY <1>1, <1>2, <1>3 DEF Purpose
  <1>5. reuse => prefix = Contact(item) /\ Contact(item) # <<>>
    <2>1. PICK len \in {3, 4, 5} : AtPoints(asked, units, reuse, prefix, item, len)
      BY <1>2
    <2>2. Good(asked, item)
      BY <2>1 DEF AtPoints
    <2>3. Good(asked, Contact(item))
      BY <2>2, ContactFacts
    <2>4. QED BY <2>1, <2>3 DEF AtPoints, Good
  <1>6. QED BY <1>2, <1>3, <1>4, <1>5 DEF SeedOf

LEMMA AppendTwo ==
  ASSUME NEW S, NEW s \in Seq(S), NEW i \in S, NEW v \in S
  PROVE  s \o <<i, v>> = Append(Append(s, i), v)
  <1> DEFINE l == s \o <<i, v>>
             r == Append(Append(s, i), v)
  <1>1. l \in Seq(S) /\ Len(l) = Len(s) + 2 /\ \A n \in 1 .. Len(s) + 2 :
          l[n] = IF n = Len(s) + 1 THEN i ELSE IF n = Len(s) + 2 THEN v ELSE s[n]
    OBVIOUS
  <1>2. r \in Seq(S) /\ Len(r) = Len(s) + 2 /\ \A n \in 1 .. Len(s) + 2 :
          r[n] = IF n = Len(s) + 1 THEN i ELSE IF n = Len(s) + 2 THEN v ELSE s[n]
    OBVIOUS
  <1> HIDE DEF l, r
  <1>3. l = r
    BY <1>1, <1>2, SeqEqual
  <1>4. QED BY <1>3 DEF l, r

LEMMA TailGrows ==
  ASSUME NEW S, NEW x \in Seq(S), x # <<>>, NEW y \in S
  PROVE  Tail(Append(x, y)) = Append(Tail(x), y)
  <1> DEFINE z == Append(x, y)
             t == Tail(x)
  <1>1. Len(x) \in Nat /\ Len(x) > 0
    OBVIOUS
  <1>2. z \in Seq(S) /\ z # <<>> /\ Len(z) = Len(x) + 1 /\ z[Len(x) + 1] = y /\ \A n \in 1 .. Len(x) : z[n] = x[n]
    OBVIOUS
  <1>3. t \in Seq(S) /\ Len(t) = Len(x) - 1 /\ \A i \in 1 .. Len(t) : t[i] = x[i + 1]
    BY HeadTailProperties
  <1> HIDE DEF z, t
  <1> DEFINE l == Tail(z)
             r == Append(t, y)
  <1>4. l \in Seq(S) /\ Len(l) = Len(x) /\ \A i \in 1 .. Len(l) : l[i] = z[i + 1]
    BY <1>1, <1>2, HeadTailProperties
  <1>5. r \in Seq(S) /\ Len(r) = Len(t) + 1 /\ r[Len(t) + 1] = y /\ \A n \in 1 .. Len(t) : r[n] = t[n]
    BY <1>3
  <1> HIDE DEF l, r
  <1>6. ASSUME NEW i \in 1 .. Len(l) PROVE l[i] = r[i]
    <2>1. l[i] = z[i + 1]
      BY <1>4
    <2>2. CASE i = Len(x)
      BY <1>1, <1>2, <1>3, <1>5, <2>1, <2>2
    <2>3. CASE i # Len(x)
      <3>1. i \in 1 .. Len(t) /\ i + 1 \in 1 .. Len(x)
        BY <1>1, <1>3, <1>4, <2>3
      <3>2. QED BY <1>2, <1>3, <1>5, <2>1, <3>1
    <2>4. QED BY <2>2, <2>3
  <1>7. l = r
    BY <1>1, <1>3, <1>4, <1>5, <1>6, SeqEqual
  <1>8. QED BY <1>7 DEF l, r, z, t

LEMMA PointsCachedStep == ASSUME ContactInv, PointsCached PROVE ContactInv'
  <1>1. /\ ContactTypes /\ Evidence(asked, units, identity["cpa"]) /\ Purpose /\ AllRight(asked, units, identity["cpa"])
        /\ Len(asked) \in Nat
    BY SameAnswers DEF ContactInv, Evidence, ContactTypes
  <1>2. PICK x \in Saved("cpa", "points", prefix) :
          /\ item' = item \o x /\ pc = "points" /\ pc' = "store"
          /\ UNCHANGED <<asked, units, identity, committed, tasks, reuse, needed, lane, cache, recovered, prefix, sta>>
    BY DEF PointsCached, Goto, disk, run
  <1>3. AtPoints(asked, units, reuse, prefix, item, 3)
    BY <1>2 DEF ContactInv, AtStep
  <1>4. /\ lane = "cpa" /\ pc \in Working /\ pc \in Seeded
        /\ SeedOf(identity["cpa"], reuse, prefix) /\ (reuse => Contact(item) = committed["sta"].item)
    BY <1>2, PointsFacts
  <1>5. Good(asked, item) /\ Len(item) = 3 /\ item \in Seq(Nat) /\ SubSeq(item, 1, 3) = item
    BY <1>1, <1>3, GoodAnswers, FrontOfItem DEF AtPoints
  <1> DEFINE Is(i, v) == /\ Holds(units, "cpa", "initial", prefix, i) /\ x = <<i, v>>
                         /\ asked[v].unit = "verdict" /\ Tail(asked[v].of) = Append(Tail(asked[i].of), i)
  <1>6. \E i : \E v \in 1 .. Len(asked) : Is(i, v)
    <2>1. Holds(units, "cpa", "points", prefix, x) /\ "cpa" \in Task
      BY SavedHolds DEF Task
    <2>2. RightPoints(asked, units, prefix, x)
      BY <1>1, <2>1 DEF AllRight, Right
    <2>3. QED BY <2>2 DEF RightPoints
  <1> HIDE DEF Is
  <1>7. PICK i : \E v \in 1 .. Len(asked) : Is(i, v)
    BY <1>6
  <1>8. PICK v \in 1 .. Len(asked) : Is(i, v)
    BY <1>7
  <1>9. /\ Holds(units, "cpa", "initial", prefix, i) /\ x = <<i, v>>
        /\ Tail(asked[v].of) = Append(Tail(asked[i].of), i)
    BY <1>8 DEF Is
  <1>10. i \in 1 .. Len(asked)
    <2>1. "cpa" \in Task
      BY DEF Task
    <2>2. QED BY <1>1, <1>9, <2>1, PaidUnits, HeldAnswer
  <1>11. Tail(asked[i].of) = Tail(item)
    <2>1. Tail(asked[i].of) = Tail(SubSeq(item, 1, 3))
      BY <1>1, <1>3, <1>4, <1>9, InitialOfItem
    <2>2. QED BY <1>5, <2>1
  <1> DEFINE y == Append(item, i)
  <1>12. Good(asked, y) /\ Len(y) = 4 /\ Contact(y) = Contact(item)
    <2>1. Len(item) > 1 /\ Len(item) > 2
      BY <1>5
    <2>2. Good(asked, y) /\ Len(y) = Len(item) + 1 /\ (Len(item) > 2 => Contact(y) = Contact(item))
      BY <1>1, <1>5, <1>10, <1>11, <2>1, NextAnswer
    <2>3. QED BY <1>5, <2>1, <2>2
  <1>13. Tail(y) = Append(Tail(item), i)
    <2>1. item # <<>> /\ i \in Nat
      BY <1>5, <1>10 DEF Good
    <2>2. QED BY <1>5, <2>1, TailGrows
  <1> HIDE DEF y
  <1>14. Good(asked, Append(y, v)) /\ Contact(Append(y, v)) = Contact(y)
    <2>1. Len(y) > 1 /\ Len(y) > 2
      BY <1>12
    <2>2. Tail(asked[v].of) = Tail(y)
      BY <1>9, <1>11, <1>13
    <2>3. QED BY <1>1, <1>12, <2>1, <2>2, NextAnswer
  <1>15. item' = Append(y, v)
    <2>1. item \in Seq(Nat) /\ i \in Nat /\ v \in Nat
      BY <1>5, <1>10
    <2>2. item \o <<i, v>> = Append(Append(item, i), v)
      BY <2>1, AppendTwo
    <2>3. QED BY <1>2, <1>9, <2>2 DEF y
  <1>16. AtStep'
    BY <1>2, <1>14, <1>15 DEF AtStep
  <1>17. Purpose'
    <2>1. "store" \in Working /\ "store" \in Seeded /\ "store" # "seed" /\ "store" # "commitCpa"
      BY DEF Working, Seeded
    <2>2. lane = "cpa" /\ reuse => Contact(item') = committed["sta"].item
      BY <1>4, <1>12, <1>14, <1>15
    <2>3. QED BY <1>1, <1>2, <1>4, <2>1, <2>2, Onward
  <1>18. QED BY <1>1, <1>2, <1>16, <1>17, MovesOn DEF ContactTypes

(* The points of an item grow by one answer.                               *)
LEMMA PointsGrow ==
  ASSUME NEW a, NEW U, NEW seeded, NEW k, NEW x, NEW len \in Nat, len > 2,
         AtPoints(a, U, seeded, k, x, len),
         NEW y \in 1 .. Len(a), Tail(a[y].of) = Tail(x), Len(a) \in Nat,
         IF len = 3 THEN Holds(U, "cpa", "initial", k, y) ELSE a[y].unit = "verdict",
         \A z : ~ Holds(U, "cpa", "points", k, z)
  PROVE  AtPoints(a, U, seeded, k, Append(x, y), len + 1) /\ Contact(Append(x, y)) = Contact(x)
  <1>1. Good(a, x) /\ Len(x) = len /\ Len(x) > 1 /\ Len(x) > 2
    BY DEF AtPoints
  <1> DEFINE z == Append(x, y)
  <1>2. Good(a, z) /\ Len(z) = len + 1 /\ z[len + 1] = y /\ (\A n \in 1 .. len : z[n] = x[n])
        /\ Contact(z) = Contact(x)
    BY <1>1, NextAnswer
  <1> HIDE DEF z
  <1>3. z[3] = x[3] /\ (len > 3 => z[4] = x[4])
    BY <1>2
  <1>4. IF seeded THEN k = Contact(z) ELSE Holds(U, "cpa", "frame", k, z[3])
    BY <1>2, <1>3 DEF AtPoints
  <1>5. Holds(U, "cpa", "initial", k, z[4])
    <2>1. CASE len = 3
      BY <1>2, <2>1
    <2>2. CASE len # 3
      <3>1. len > 3
        BY <2>2
      <3>2. QED BY <1>3, <3>1 DEF AtPoints
    <2>3. QED BY <2>1, <2>2
  <1>6. len + 1 > 4 => a[z[5]].unit = "verdict"
    <2>1. CASE len = 4
      BY <1>2, <2>1
    <2>2. CASE len # 4
      <3>1. len + 1 > 4 => len > 4 /\ z[5] = x[5]
        BY <1>2, <2>2
      <3>2. QED BY <3>1 DEF AtPoints
    <2>3. QED BY <2>1, <2>2
  <1>7. AtPoints(a, U, seeded, k, z, len + 1)
    BY <1>2, <1>4, <1>5, <1>6 DEF AtPoints
  <1>8. QED BY <1>2, <1>7 DEF z

(* It stays so while other units are added.                                *)
LEMMA PointsStay ==
  ASSUME NEW a, NEW b, NEW U, NEW V, NEW seed, AllRight(a, U, seed), Extends(a, b), NEW seeded, NEW k, NEW x,
         NEW len \in Nat, len \in {3, 4, 5}, AtPoints(a, U, seeded, k, x, len), Keeps(U, V, "cpa"),
         len > 3 => \A y : ~ Holds(V, "cpa", "points", k, y)
  PROVE  AtPoints(b, V, seeded, k, x, len)
  <1>1. Good(b, x) /\ Good(a, x) /\ Len(x) = len
    BY GoodStays DEF AtPoints
  <1>2. len > 4 => b[x[5]] = a[x[5]]
    <2>1. SUFFICES ASSUME len > 4 PROVE b[x[5]] = a[x[5]]
      OBVIOUS
    <2>2. x[5] \in 1 .. Len(a)
      <3>1. Len(a) \in Nat /\ 5 \in 1 .. Len(x)
        BY <1>1, <2>1 DEF Extends
      <3>2. QED BY <1>1, <3>1, GoodAnswers
    <2>3. QED BY <2>2 DEF Extends
  <1>3. QED BY <1>1, <1>2 DEF AtPoints, Keeps

LEMMA PointsStep == ASSUME ContactInv, Points PROVE ContactInv'
  <1>1. /\ ContactTypes /\ Evidence(asked, units, identity["cpa"]) /\ Purpose /\ AllRight(asked, units, identity["cpa"])
        /\ Len(asked) \in Nat /\ "cpa" \in Task
    BY SameAnswers DEF ContactInv, Evidence, ContactTypes, Task
  <1>2. /\ pc = "points" /\ pc' = "verdict" /\ Saved("cpa", "points", prefix) = {}
        /\ UNCHANGED <<identity, committed, tasks, reuse, needed, lane, cache, recovered, prefix, sta>>
    BY DEF Points, Goto, run
  <1>3. AtPoints(asked, units, reuse, prefix, item, 3)
    BY <1>2 DEF ContactInv, AtStep
  <1>4. /\ lane = "cpa" /\ pc \in Working /\ pc \in Seeded
        /\ SeedOf(identity["cpa"], reuse, prefix) /\ (reuse => Contact(item) = committed["sta"].item)
    BY <1>2, PointsFacts
  <1>5. Good(asked, item) /\ Len(item) = 3 /\ item \in Seq(Nat) /\ SubSeq(item, 1, 3) = item /\ Contact(item) = item
    BY <1>1, <1>3, GoodAnswers, FrontOfItem DEF AtPoints
  <1>6. \A y : ~ Holds(units, "cpa", "points", prefix, y)
    BY <1>2, SavedHolds
  <1>7. ASSUME NEW i, item' = Append(item, i), Contact(item') = Contact(item),
               AtPoints(asked', units', reuse, prefix, item', 4)
        PROVE  AtStep' /\ Purpose'
    <2>1. AtStep'
      BY <1>2, <1>4, <1>7 DEF AtStep
    <2>2. "verdict" \in Working /\ "verdict" \in Seeded /\ "verdict" # "seed" /\ "verdict" # "commitCpa"
      BY DEF Working, Seeded
    <2>3. Purpose'
      BY <1>1, <1>2, <1>4, <1>7, <2>2, Onward
    <2>4. QED BY <2>1, <2>3
  <1>8. ASSUME NEW i \in Saved("cpa", "initial", prefix), item' = Append(item, i), UNCHANGED <<asked, units>>
        PROVE  ContactInv'
    <2>1. Holds(units, "cpa", "initial", prefix, i)
      BY SavedHolds
    <2>2. i \in 1 .. Len(asked)
      BY <1>1, <2>1, PaidUnits, HeldAnswer
    <2>3. Tail(asked[i].of) = Tail(item)
      <3>1. Tail(asked[i].of) = Tail(SubSeq(item, 1, 3))
        BY <1>1, <1>3, <1>4, <2>1, InitialOfItem
      <3>2. QED BY <1>5, <3>1
    <2>4. AtPoints(asked, units, reuse, prefix, Append(item, i), 3 + 1) /\ Contact(Append(item, i)) = Contact(item)
      BY <1>1, <1>3, <1>6, <2>1, <2>2, <2>3, PointsGrow
    <2>5. AtStep' /\ Purpose'
      BY <1>7, <1>8, <2>4
    <2>6. QED BY <1>1, <1>2, <1>8, <2>5, MovesOn DEF ContactTypes
  <1>9. ASSUME Saved("cpa", "initial", prefix) = {}, Answer("initial", item, "yes"), item' = Append(item, Fresh),
               Put("cpa", Unit("initial", prefix, Fresh))
        PROVE  ContactInv'
    <2>1. /\ asked' \in Seq(Asking) /\ Extends(asked, asked') /\ Len(asked') = Len(asked) + 1
          /\ Fresh \in 1 .. Len(asked') /\ Fresh \notin 1 .. Len(asked)
          /\ asked'[Fresh].unit = "initial" /\ asked'[Fresh].of = item
      <3>1. "initial" \in Kinds /\ "yes" \in Says
        BY DEF Kinds, Says
      <3>2. QED BY <1>1, <1>5, <1>9, <3>1, AnswerAdds DEF ContactTypes
    <2>2. DOMAIN units' = Task /\ Adds(units, units', "cpa", "initial", prefix, Fresh)
          /\ \A y : Holds(units, "cpa", "initial", prefix, y) => y = Fresh
      BY <1>1, <1>9, PutAdds DEF ContactTypes
    <2>3. Keeps(units, units', "cpa") /\ Holds(units', "cpa", "initial", prefix, Fresh)
          /\ \A y : ~ Holds(units', "cpa", "points", prefix, y)
      BY <1>1, <1>6, <2>2 DEF Adds, Keeps
    <2>4. Kind("initial") = "initial" /\ "initial" \in Paid /\ "initial" \notin ReviewUnit \cup SegmentUnit
      BY DEF Kind, Paid, ReviewUnit, SegmentUnit
    <2>5. RightInitial(asked', units', identity["cpa"], prefix, Fresh)
      <3>1. CASE ~ reuse
        <4>1. identity["cpa"] = <<>> /\ Holds(units, "cpa", "frame", prefix, item[3])
          BY <1>3, <1>4, <3>1 DEF SeedOf, AtPoints
        <4>2. 3 \in 3 .. Len(item)
          BY <1>5
        <4>3. Tail(item) = Append(Tail(asked[item[3]].of), item[3])
          BY <1>1, <1>5, <4>2, LastAnswer
        <4>4. item[3] \in 1 .. Len(asked)
          BY <1>1, <4>1, PaidUnits, HeldAnswer
        <4>5. asked'[item[3]] = asked[item[3]] /\ Holds(units', "cpa", "frame", prefix, item[3])
          BY <2>1, <2>3, <4>1, <4>4 DEF Extends, Keeps
        <4>6. QED BY <2>1, <4>1, <4>3, <4>5 DEF RightInitial
      <3>2. CASE reuse
        <4>1. identity["cpa"] = prefix /\ prefix # <<>> /\ prefix = item
          BY <1>3, <1>4, <1>5, <3>2 DEF SeedOf, AtPoints
        <4>2. QED BY <2>1, <4>1 DEF RightInitial
      <3>3. QED BY <3>1, <3>2
    <2>6. Right(asked', units', identity["cpa"], "cpa", "initial", prefix, Fresh)
      BY <2>1, <2>4, <2>5 DEF Right
    <2>7. Evidence(asked', units', identity["cpa"])
      BY <1>1, <2>1, <2>2, <2>4, <2>6, EvidenceGrows
    <2>8. AtPoints(asked', units', reuse, prefix, item, 3)
      BY <1>1, <1>3, <2>1, <2>3, PointsStay
    <2>9. Len(asked') \in Nat /\ Tail(asked'[Fresh].of) = Tail(item)
      BY <2>1 DEF Extends
    <2>10. /\ AtPoints(asked', units', reuse, prefix, Append(item, Fresh), 3 + 1)
           /\ Contact(Append(item, Fresh)) = Contact(item)
      BY <2>1, <2>3, <2>8, <2>9, PointsGrow
    <2>11. AtStep' /\ Purpose'
      BY <1>7, <1>9, <2>10
    <2>12. cache' \in 0 .. Len(asked') /\ recovered' \in BOOLEAN
      BY <1>1, <1>2, <2>1 DEF ContactTypes
    <2>13. QED BY <1>2, <2>1, <2>2, <2>7, <2>11, <2>12, GrowingStep
  <1>10. QED BY <1>8, <1>9 DEF Points

LEMMA VerdictStep == ASSUME ContactInv, Verdict PROVE ContactInv'
  <1>1. /\ ContactTypes /\ Evidence(asked, units, identity["cpa"]) /\ Purpose /\ AllRight(asked, units, identity["cpa"])
        /\ Len(asked) \in Nat /\ "cpa" \in Task
    BY SameAnswers DEF ContactInv, Evidence, ContactTypes, Task
  <1>2. pc = "verdict" /\ UNCHANGED <<identity, committed, tasks, reuse, needed, lane, cache, recovered, prefix, sta>>
    BY DEF Verdict, run
  <1>3. AtPoints(asked, units, reuse, prefix, item, 4)
    BY <1>2 DEF ContactInv, AtStep
  <1>4. /\ lane = "cpa" /\ pc \in Working /\ pc \in Seeded
        /\ SeedOf(identity["cpa"], reuse, prefix) /\ (reuse => Contact(item) = committed["sta"].item)
    BY <1>2, PointsFacts
  <1>5. Good(asked, item) /\ Len(item) = 4 /\ item \in Seq(Nat)
    BY <1>1, <1>3, GoodAnswers DEF AtPoints
  <1>6. PICK says \in {"yes", "malformed"} :
          /\ Answer("verdict", item, says)
          /\ \/ item' = Append(item, Fresh) /\ pc' = "keep"
             \/ UNCHANGED <<item, pc>>
    BY DEF Verdict, Goto
  <1> DEFINE k == Append(prefix, AttemptIndex)
  <1>7. Put("cpa", Unit("attempt", k, Fresh))
    BY DEF Verdict
  <1> HIDE DEF k
  <1>8. /\ asked' \in Seq(Asking) /\ Extends(asked, asked') /\ Len(asked') = Len(asked) + 1
        /\ Fresh \in 1 .. Len(asked') /\ Fresh \notin 1 .. Len(asked)
        /\ asked'[Fresh].unit = "verdict" /\ asked'[Fresh].of = item
    <2>1. "verdict" \in Kinds /\ says \in Says
      BY DEF Kinds, Says
    <2>2. QED BY <1>1, <1>5, <1>6, <2>1, AnswerAdds DEF ContactTypes
  <1>9. DOMAIN units' = Task /\ Adds(units, units', "cpa", "attempt", k, Fresh)
        /\ \A y : Holds(units, "cpa", "attempt", k, y) => y = Fresh
    BY <1>1, <1>7, PutAdds DEF ContactTypes
  <1>10. Keeps(units, units', "cpa") /\ \A y : ~ Holds(units', "cpa", "points", prefix, y)
    BY <1>1, <1>3, <1>9 DEF Adds, Keeps, AtPoints
  <1>11. "attempt" \notin Paid \cup ReviewUnit \cup SegmentUnit /\ "attempt" \in Unpaid
    BY DEF Paid, Unpaid, ReviewUnit, SegmentUnit
  <1>12. Right(asked', units', identity["cpa"], "cpa", "attempt", k, Fresh)
    BY <1>11 DEF Right
  <1>13. Evidence(asked', units', identity["cpa"])
    BY <1>1, <1>8, <1>9, <1>11, <1>12, EvidenceGrows
  <1>14. AtPoints(asked', units', reuse, prefix, item, 4)
    BY <1>1, <1>3, <1>8, <1>10, PointsStay
  <1>15. AtStep' /\ Purpose'
    <2>1. /\ "verdict" \in Working /\ "verdict" \in Seeded /\ "verdict" # "seed" /\ "verdict" # "commitCpa"
          /\ "keep" \in Working /\ "keep" \in Seeded /\ "keep" # "seed" /\ "keep" # "commitCpa"
      BY DEF Working, Seeded
    <2>2. CASE UNCHANGED <<item, pc>>
      <3>1. AtStep'
        BY <1>2, <1>4, <1>14, <2>2 DEF AtStep
      <3>2. Purpose'
        BY <1>1, <1>2, <1>4, <2>1, <2>2, Onward
      <3>3. QED BY <3>1, <3>2
    <2>3. CASE item' = Append(item, Fresh) /\ pc' = "keep"
      <3>1. /\ Len(asked') \in Nat /\ Fresh \in 1 .. Len(asked') /\ Tail(asked'[Fresh].of) = Tail(item)
            /\ asked'[Fresh].unit = "verdict" /\ 4 \in Nat /\ 4 > 2 /\ 4 # 3
        BY <1>8 DEF Extends
      <3>2. /\ AtPoints(asked', units', reuse, prefix, Append(item, Fresh), 4 + 1)
            /\ Contact(Append(item, Fresh)) = Contact(item)
        BY <1>10, <1>14, <3>1, PointsGrow
      <3>3. AtStep'
        BY <1>2, <1>4, <2>3, <3>2 DEF AtStep
      <3>4. Purpose'
        BY <1>1, <1>2, <1>4, <2>1, <2>3, <3>2, Onward
      <3>5. QED BY <3>3, <3>4
    <2>4. QED BY <1>6, <2>2, <2>3
  <1>16. cache' \in 0 .. Len(asked') /\ recovered' \in BOOLEAN
    BY <1>1, <1>2, <1>8 DEF ContactTypes
  <1>17. QED BY <1>2, <1>8, <1>9, <1>13, <1>15, <1>16, GrowingStep

LEMMA LastTwo ==
  ASSUME NEW S, NEW x \in Seq(S), Len(x) = 5
  PROVE  SubSeq(x, 4, 5) = <<x[4], x[5]>>
  <1> DEFINE l == SubSeq(x, 4, 5)
             r == <<x[4], x[5]>>
  <1>1. x[4] \in S /\ x[5] \in S
    <2>1. 4 \in 1 .. Len(x) /\ 5 \in 1 .. Len(x)
      OBVIOUS
    <2>2. QED BY <2>1, ElementOfSeq
  <1>2. l \in Seq(S) /\ Len(l) = 2 /\ \A i \in 1 .. 2 : l[i] = x[3 + i]
    BY SubSeqProperties
  <1>3. r \in Seq(S) /\ Len(r) = 2 /\ r[1] = x[4] /\ r[2] = x[5]
    BY <1>1
  <1> HIDE DEF l, r
  <1>4. \A i \in 1 .. Len(l) : l[i] = r[i]
    BY <1>2, <1>3
  <1>5. l = r
    BY <1>2, <1>3, <1>4, SeqEqual
  <1>6. QED BY <1>5 DEF l, r

LEMMA KeepPointsStep == ASSUME ContactInv, KeepPoints PROVE ContactInv'
  <1>1. /\ ContactTypes /\ Evidence(asked, units, identity["cpa"]) /\ Purpose /\ AllRight(asked, units, identity["cpa"])
        /\ Len(asked) \in Nat /\ "cpa" \in Task /\ asked \in Seq(Asking) /\ Extends(asked, asked)
    BY SameAnswers DEF ContactInv, Evidence, ContactTypes, Task
  <1>2. /\ pc = "keep" /\ pc' = "store" /\ Put("cpa", Unit("points", prefix, SubSeq(item, 4, 5)))
        /\ UNCHANGED <<asked, item, identity, committed, tasks, reuse, needed, lane, cache, recovered, prefix, sta>>
    BY DEF KeepPoints, Goto, run, work
  <1>3. AtPoints(asked, units, reuse, prefix, item, 5)
    BY <1>2 DEF ContactInv, AtStep
  <1>4. /\ lane = "cpa" /\ pc \in Working /\ pc \in Seeded /\ (reuse => Contact(item) = committed["sta"].item)
    BY <1>2, PointsFacts
  <1>5. Good(asked, item) /\ Len(item) = 5 /\ item \in Seq(1 .. Len(asked))
    BY <1>3 DEF AtPoints, Good
  <1> DEFINE x == SubSeq(item, 4, 5)
             i == item[4]
             v == item[5]
  <1>6. x = <<i, v>> /\ i \in 1 .. Len(asked) /\ v \in 1 .. Len(asked)
    BY <1>5, LastTwo, ElementOfSeq
  <1>7. DOMAIN units' = Task /\ Adds(units, units', "cpa", "points", prefix, x)
        /\ \A y : Holds(units, "cpa", "points", prefix, y) => y = x
    BY <1>1, <1>2, PutAdds DEF ContactTypes
  <1>8. Keeps(units, units', "cpa")
    BY <1>1, <1>7 DEF Adds, Keeps
  <1>9. Tail(asked[v].of) = Append(Tail(asked[i].of), i)
    <2>1. 4 \in 3 .. Len(item) /\ 5 \in 3 .. Len(item) /\ 5 - 1 = 4
      BY <1>5
    <2>2. Tail(asked[v].of) = Tail(SubSeq(item, 1, 4))
      BY <1>5, <2>1 DEF Good
    <2>3. Tail(SubSeq(item, 1, 4)) = Append(Tail(asked[i].of), i)
      BY <1>1, <1>5, <2>1, LastAnswer
    <2>4. QED BY <2>2, <2>3
  <1>10. Holds(units', "cpa", "initial", prefix, i) /\ asked[v].unit = "verdict"
    BY <1>3, <1>8 DEF AtPoints, Keeps
  <1>11. RightPoints(asked, units', prefix, x)
    BY <1>6, <1>9, <1>10 DEF RightPoints
  <1>12. "points" \notin Paid \cup ReviewUnit \cup SegmentUnit /\ "points" \in Unpaid
    BY DEF Paid, Unpaid, ReviewUnit, SegmentUnit
  <1> HIDE DEF x
  <1>13. Right(asked, units', identity["cpa"], "cpa", "points", prefix, x)
    BY <1>11, <1>12 DEF Right
  <1>14. Evidence(asked', units', identity["cpa"])
    <2>1. Evidence(asked, units', identity["cpa"])
      BY <1>1, <1>7, <1>12, <1>13, EvidenceGrows
    <2>2. QED BY <1>2, <2>1
  <1>15. AtStep'
    BY <1>2, <1>5 DEF AtStep
  <1>16. Purpose'
    <2>1. "store" \in Working /\ "store" \in Seeded /\ "store" # "seed" /\ "store" # "commitCpa"
      BY DEF Working, Seeded
    <2>2. QED BY <1>1, <1>2, <1>4, <2>1, Onward
  <1>17. cache' \in 0 .. Len(asked') /\ recovered' \in BOOLEAN /\ asked' \in Seq(Asking) /\ Extends(asked, asked')
    BY <1>1, <1>2 DEF ContactTypes
  <1>18. QED BY <1>2, <1>7, <1>14, <1>15, <1>16, <1>17, GrowingStep

LEMMA StoreStep == ASSUME ContactInv, Store PROVE ContactInv'
  <1>1. /\ ContactTypes /\ Evidence(asked, units, identity["cpa"]) /\ AtStep /\ Purpose
        /\ Len(asked) \in Nat /\ asked \in Seq(Asking) /\ Extends(asked, asked)
    BY SameAnswers DEF ContactInv, ContactTypes
  <1>2. /\ pc = "store" /\ pc' = "made"
        /\ UNCHANGED <<asked, item, identity, committed, tasks, reuse, needed, lane, cache, recovered, prefix, sta>>
    BY DEF Store, Goto, run, work
  <1>3. Good(asked, item)
    BY <1>1, <1>2 DEF AtStep
  <1>4. AtStep'
    BY <1>2, <1>3 DEF AtStep
  <1>5. "store" \in Working /\ "made" \in Working /\ "made" \in Seeded /\ "made" # "seed" /\ "made" # "commitCpa"
        /\ "store" # "seed"
    BY DEF Working, Seeded
  <1>6. Purpose'
    <2>1. lane = "cpa" /\ reuse => Contact(item) = committed["sta"].item
      BY <1>1, <1>2, <1>5 DEF Purpose
    <2>2. QED BY <1>1, <1>2, <1>5, <2>1, Onward
  <1>7. lane' \in {"sta", "cpa", "review"}
    BY <1>1, <1>2 DEF ContactTypes
  <1>8. CASE UNCHANGED units
    BY <1>2, <1>4, <1>6, <1>7, <1>8, MovesOn
  <1>9. ASSUME NEW k, Put(Checkpoint, Unit(Segment, k, item)) PROVE ContactInv'
    <2>1. Checkpoint \in Task /\ Segment \in SegmentUnit
      BY <1>1 DEF Checkpoint, Task, Segment, SegmentUnit, ContactTypes
    <2> DEFINE t == Checkpoint
               u == Segment
    <2>2. DOMAIN units' = Task /\ Adds(units, units', t, u, k, item)
          /\ \A y : Holds(units, t, u, k, y) => y = item
      BY <1>1, <1>9, <2>1, PutAdds DEF ContactTypes
    <2> HIDE DEF t, u
    <2>3. u \notin Paid \cup ReviewUnit /\ u \in Unpaid /\ u \in SegmentUnit
          /\ u \notin {"points", "final"}
      BY <2>1 DEF Paid, Unpaid, ReviewUnit, SegmentUnit, u
    <2>4. /\ "proposal" \in Paid /\ "proposal:recovered" \in Paid /\ "review:recovered" \in Paid /\ "frame" \in Paid
          /\ "initial" \in Paid /\ "box" \in Paid /\ "reuse_bbox" \in Paid
      BY PaidUnits
    <2>5. Right(asked, units', identity["cpa"], t, u, k, item)
      BY <1>3, <2>3, <2>4 DEF Right
    <2>6. Evidence(asked, units', identity["cpa"])
      <3>1. t \in Task /\ u \notin Paid /\ u \notin ReviewUnit /\ u # "proposal" /\ u # "frame"
        BY <2>1, <2>3, <2>4 DEF t
      <3>2. QED BY <1>1, <2>2, <2>5, <3>1, EvidenceGrows
    <2>7. Evidence(asked', units', identity["cpa"])
      BY <1>2, <2>6
    <2>8. cache' \in 0 .. Len(asked') /\ recovered' \in BOOLEAN /\ asked' \in Seq(Asking) /\ Extends(asked, asked')
      BY <1>1, <1>2 DEF ContactTypes
    <2>9. QED BY <1>2, <1>4, <1>6, <2>2, <2>7, <2>8, GrowingStep
  <1>10. QED BY <1>8, <1>9 DEF Store

LEMMA SeedStep == ASSUME ContactInv, Seed PROVE ContactInv'
  <1> DEFINE x == committed["sta"].item
  <1>1. /\ ContactTypes /\ Evidence(asked, units, identity["cpa"]) /\ Purpose /\ RecordsOf(asked, committed)
        /\ Len(asked) \in Nat /\ asked \in Seq(Asking) /\ Extends(asked, asked)
    BY SameAnswers DEF ContactInv, ContactTypes
  <1>2. /\ pc = "seed" /\ item' = x /\ prefix' = x
        /\ UNCHANGED <<identity, committed, tasks, reuse, needed, lane, cache, recovered, sta>>
    BY DEF Seed, run
  <1>3. \/ pc' = "store" /\ UNCHANGED <<asked, units>>
        \/ pc' = "points" /\ Len(x) = 3 /\ UNCHANGED <<asked, units>>
        \/ /\ pc' = "points" /\ Len(x) = 3
           /\ Answer("reuse_bbox", x, "yes") /\ Put("cpa", Unit("reuse_bbox", x, Fresh))
    BY DEF Seed, Goto
  <1>4. pc \in Working /\ lane = "cpa" /\ reuse /\ committed["sta"] # NoRecord /\ "cpa" \in Task /\ "sta" \in Task
    BY <1>1, <1>2 DEF Purpose, Working, Seeded, Task
  <1>5. Good(asked, x) /\ Len(x) < 4
    BY <1>1, <1>4 DEF RecordsOf
  <1>6. Contact(x) = x /\ x \in Seq(Nat)
    BY <1>1, <1>5, ContactFacts, GoodAnswers
  <1> HIDE DEF x
  <1>7. Purpose'
    <2>1. pc' \in Working /\ pc' \in Seeded /\ pc' # "seed" /\ pc' # "commitCpa"
      BY <1>3 DEF Working, Seeded
    <2>2. Contact(item') = committed["sta"].item
      BY <1>2, <1>6 DEF x
    <2>3. QED BY <1>1, <1>2, <1>4, <2>1, <2>2, Onward
  <1>8. ASSUME Good(asked', x) PROVE AtStep'
    <2>1. CASE pc' = "store"
      BY <1>2, <1>8, <2>1 DEF AtStep
    <2>2. CASE pc' = "points" /\ Len(x) = 3
      <3>1. AtPoints(asked', units', reuse', prefix', item', 3)
        BY <1>2, <1>4, <1>6, <1>8, <2>2 DEF AtPoints
      <3>2. lane' = "cpa"
        BY <1>2, <1>4
      <3>3. QED BY <2>2, <3>1, <3>2 DEF AtStep
    <2>3. QED BY <1>3, <2>1, <2>2
  <1>9. CASE UNCHANGED <<asked, units>>
    <2>1. AtStep'
      BY <1>5, <1>8, <1>9
    <2>2. cache' \in 0 .. Len(asked) /\ sta' \in 0 .. Len(asked) /\ lane' \in {"sta", "cpa", "review"}
          /\ recovered' \in BOOLEAN /\ reuse' \in BOOLEAN /\ tasks' \subseteq Task
      BY <1>1, <1>2 DEF ContactTypes
    <2>3. QED BY <1>2, <1>7, <1>9, <2>1, <2>2, QuietStep
  <1>10. CASE Answer("reuse_bbox", x, "yes") /\ Put("cpa", Unit("reuse_bbox", x, Fresh))
    <2>1. /\ asked' \in Seq(Asking) /\ Extends(asked, asked') /\ Len(asked') = Len(asked) + 1
          /\ Fresh \in 1 .. Len(asked') /\ Fresh \notin 1 .. Len(asked)
          /\ asked'[Fresh].unit = "reuse_bbox" /\ asked'[Fresh].of = x
      <3>1. "reuse_bbox" \in Kinds /\ "yes" \in Says
        BY DEF Kinds, Says
      <3>2. QED BY <1>1, <1>6, <1>10, <3>1, AnswerAdds
    <2>2. DOMAIN units' = Task /\ Adds(units, units', "cpa", "reuse_bbox", x, Fresh)
          /\ \A y : Holds(units, "cpa", "reuse_bbox", x, y) => y = Fresh
      BY <1>1, <1>4, <1>10, PutAdds DEF ContactTypes
    <2>3. Kind("reuse_bbox") = "reuse_bbox" /\ "reuse_bbox" \in Paid /\ "reuse_bbox" \notin ReviewUnit \cup SegmentUnit
      BY DEF Kind, Paid, ReviewUnit, SegmentUnit
    <2>4. Right(asked', units', identity["cpa"], "cpa", "reuse_bbox", x, Fresh)
      BY <2>1, <2>3 DEF Right
    <2>5. Evidence(asked', units', identity["cpa"])
      BY <1>1, <1>4, <2>1, <2>2, <2>3, <2>4, EvidenceGrows
    <2>6. AtStep'
      BY <1>5, <1>8, <2>1, GoodStays
    <2>7. cache' \in 0 .. Len(asked') /\ recovered' \in BOOLEAN
      BY <1>1, <1>2, <2>1 DEF ContactTypes
    <2>8. QED BY <1>2, <1>7, <2>1, <2>2, <2>5, <2>6, <2>7, GrowingStep
  <1>11. QED BY <1>3, <1>9, <1>10

LEMMA CommitCpaStep == ASSUME ContactInv, CommitCpa PROVE ContactInv'
  <1> DEFINE new == [proposal |-> item[1], item |-> item, from |-> IF reuse THEN "sta" ELSE "cpa"]
  <1>1. /\ ContactTypes /\ Evidence(asked, units, identity["cpa"]) /\ AtStep /\ Purpose /\ RecordsOf(asked, committed)
    BY DEF ContactInv
  <1>2. /\ pc = "commitCpa" /\ pc' = (IF "sta" \in needed THEN "sync" ELSE "finish")
        /\ committed' = [committed EXCEPT !["cpa"] = new]
        /\ UNCHANGED <<asked, units, identity, tasks, reuse, needed, cache, sta, lane, recovered, item>>
    BY DEF CommitCpa, Goto, run, work
  <1>3. DOMAIN committed' = Task /\ committed'["cpa"] = new /\ committed'["sta"] = committed["sta"]
    BY <1>1, <1>2 DEF ContactTypes, Task
  <1>4. new.item = item /\ new.from = (IF reuse THEN "sta" ELSE "cpa") /\ NoRecord.from = "none"
    BY DEF NoRecord
  <1> HIDE DEF new
  <1>5. new # NoRecord
    BY <1>4
  <1>6. Good(asked, item)
    BY <1>1, <1>2 DEF AtStep
  <1>7. /\ lane = "cpa" /\ "cpa" \in needed /\ \A t \in needed : committed[t] = NoRecord
        /\ reuse => committed["sta"] # NoRecord /\ Contact(item) = committed["sta"].item
    BY <1>1, <1>2 DEF Purpose, Working, Seeded, Checkpoint
  <1>8. committed["sta"] # NoRecord => committed["sta"].from # "cpa"
    BY <1>1, <1>7 DEF RecordsOf
  <1>9. RecordsOf(asked, committed')
    <2>1. ASSUME NEW t \in Task, committed'[t] # NoRecord
          PROVE  committed'[t].from # "none" /\ Good(asked, committed'[t].item)
      BY <1>1, <1>3, <1>4, <1>6, <2>1 DEF RecordsOf, Task
    <2>2. committed'["sta"] # NoRecord => Len(committed'["sta"].item) < 4
      BY <1>1, <1>3 DEF RecordsOf
    <2>3. committed'["cpa"].from = "sta" => reuse
      BY <1>3, <1>4
    <2>4. QED BY <1>3, <1>4, <1>5, <1>7, <1>8, <2>1, <2>2, <2>3 DEF RecordsOf
  <1>10. AtStep'
    BY <1>2, <1>6 DEF AtStep
  <1>11. Purpose'
    <2>1. "sta" \in needed => committed["sta"] = NoRecord
      BY <1>7
    <2>2. pc' \notin Working /\ pc' # "seed" /\ pc' # "commitCpa"
      BY <1>2 DEF Working, Seeded
    <2>3. QED BY <1>2, <1>3, <1>4, <1>5, <1>7, <2>1, <2>2 DEF Purpose
  <1>12. ContactTypes'
    BY <1>1, <1>2, <1>3 DEF ContactTypes
  <1>13. Evidence(asked', units', identity'["cpa"])
    BY <1>1, <1>2
  <1>14. QED BY <1>2, <1>9, <1>10, <1>11, <1>12, <1>13 DEF ContactInv

LEMMA CommitStaStep == ASSUME ContactInv, CommitSta PROVE ContactInv'
  <1>1. /\ ContactTypes /\ Evidence(asked, units, identity["cpa"]) /\ AtStep /\ Purpose /\ RecordsOf(asked, committed)
        /\ AllRight(asked, units, identity["cpa"]) /\ "sta" \in Task
    BY DEF ContactInv, Evidence, Task
  <1>2. PICK x \in Saved("sta", "final", FinalKey) :
          committed' = [committed EXCEPT !["sta"] = [proposal |-> sta, item |-> x, from |-> lane]]
    BY DEF CommitSta
  <1>3. /\ pc = "sync" /\ pc' = "finish"
        /\ UNCHANGED <<asked, units, identity, tasks, reuse, needed, cache, sta, lane, recovered, item>>
    BY DEF CommitSta, Goto, run, work
  <1> DEFINE new == [proposal |-> sta, item |-> x, from |-> lane]
  <1>4. DOMAIN committed' = Task /\ committed'["sta"] = new /\ committed'["cpa"] = committed["cpa"]
    BY <1>1, <1>2 DEF ContactTypes, Task
  <1>5. new.item = x /\ new.from = lane /\ NoRecord.from = "none"
    BY DEF NoRecord
  <1> HIDE DEF new
  <1>6. x = Contact(item)
    <2>1. Holds(units, "sta", "final", item, x)
      BY SavedHolds DEF FinalKey
    <2>2. QED BY <1>1, <2>1 DEF AllRight, Right
  <1>7. Good(asked, item)
    BY <1>1, <1>3 DEF AtStep
  <1>8. Good(asked, x) /\ Len(x) < 4
    BY <1>6, <1>7, ContactFacts
  <1>9. /\ committed["sta"] = NoRecord /\ lane \in {"cpa", "review"}
        /\ lane = "cpa" => committed["cpa"] # NoRecord /\ committed["cpa"].item = item
    BY <1>1, <1>3 DEF Purpose
  <1>10. new # NoRecord
    BY <1>5, <1>9
  <1>11. committed["cpa"] # NoRecord => committed["cpa"].from # "sta"
    BY <1>1, <1>9 DEF RecordsOf
  <1>12. RecordsOf(asked, committed')
    <2>1. ASSUME NEW t \in Task, committed'[t] # NoRecord
          PROVE  committed'[t].from # "none" /\ Good(asked, committed'[t].item)
      BY <1>1, <1>4, <1>5, <1>8, <1>9, <2>1 DEF RecordsOf, Task
    <2>2. QED BY <1>4, <1>5, <1>6, <1>8, <1>9, <1>10, <1>11, <2>1 DEF RecordsOf
  <1>13. AtStep' /\ Purpose'
    BY <1>3 DEF AtStep, Purpose, Working, Seeded
  <1>14. ContactTypes'
    BY <1>1, <1>3, <1>4 DEF ContactTypes
  <1>15. Evidence(asked', units', identity'["cpa"])
    BY <1>1, <1>3
  <1>16. QED BY <1>3, <1>12, <1>13, <1>14, <1>15 DEF ContactInv

LEMMA SyncAttempt ==
  ASSUME Purpose, pc = "sync", UNCHANGED <<pc, committed, lane, item>>
  PROVE  Purpose'
  BY DEF Purpose, Working, Seeded

LEMMA AskBoxStep == ASSUME ContactInv, AskBox PROVE ContactInv'
  <1>1. /\ ContactTypes /\ Evidence(asked, units, identity["cpa"]) /\ AtStep /\ Purpose
        /\ Len(asked) \in Nat /\ asked \in Seq(Asking) /\ "sta" \in Task
    BY SameAnswers DEF ContactInv, ContactTypes, Task
  <1> DEFINE k == <<sta>> \o item
  <1>2. /\ pc = "sync" /\ Answer("box", k, "yes") /\ Put("sta", Unit("box", k, Fresh))
        /\ UNCHANGED <<pc, identity, committed, tasks, reuse, needed, lane, cache, recovered, prefix, item, sta>>
    BY DEF AskBox, BoxKey, run, work
  <1>3. Good(asked, item)
    BY <1>1, <1>2 DEF AtStep
  <1>4. k \in Seq(Nat)
    <2>1. sta \in Nat
      BY <1>1 DEF ContactTypes
    <2>2. item \in Seq(Nat)
      BY <1>1, <1>3, GoodAnswers
    <2>3. QED BY <2>1, <2>2
  <1> HIDE DEF k
  <1>5. /\ asked' \in Seq(Asking) /\ Extends(asked, asked') /\ Len(asked') = Len(asked) + 1
        /\ Fresh \in 1 .. Len(asked') /\ Fresh \notin 1 .. Len(asked)
        /\ asked'[Fresh].unit = "box" /\ asked'[Fresh].of = k
    <2>1. "box" \in Kinds /\ "yes" \in Says
      BY DEF Kinds, Says
    <2>2. QED BY <1>1, <1>2, <1>4, <2>1, AnswerAdds
  <1>6. DOMAIN units' = Task /\ Adds(units, units', "sta", "box", k, Fresh)
        /\ \A y : Holds(units, "sta", "box", k, y) => y = Fresh
    BY <1>1, <1>2, PutAdds DEF ContactTypes
  <1>7. Kind("box") = "box" /\ "box" \in Paid /\ "box" \notin ReviewUnit \cup SegmentUnit
    BY DEF Kind, Paid, ReviewUnit, SegmentUnit
  <1>8. Right(asked', units', identity["cpa"], "sta", "box", k, Fresh)
    BY <1>5, <1>7 DEF Right
  <1>9. Evidence(asked', units', identity["cpa"])
    BY <1>1, <1>5, <1>6, <1>7, <1>8, EvidenceGrows
  <1>10. Good(asked', item')
    BY <1>2, <1>3, <1>5, GoodStays
  <1>11. AtStep'
    BY <1>2, <1>10 DEF AtStep
  <1>12. Purpose'
    BY <1>1, <1>2, SyncAttempt
  <1>13. cache' \in 0 .. Len(asked') /\ recovered' \in BOOLEAN
    BY <1>1, <1>2, <1>5 DEF ContactTypes
  <1>14. QED BY <1>2, <1>5, <1>6, <1>9, <1>11, <1>12, <1>13, GrowingStep

LEMMA KeepFinalStep == ASSUME ContactInv, KeepFinal PROVE ContactInv'
  <1>1. /\ ContactTypes /\ Evidence(asked, units, identity["cpa"]) /\ AtStep /\ Purpose
        /\ asked \in Seq(Asking) /\ Extends(asked, asked) /\ "sta" \in Task
    BY SameAnswers DEF ContactInv, ContactTypes, Task
  <1>2. /\ pc = "sync" /\ Put("sta", Unit("final", item, Contact(item)))
        /\ UNCHANGED <<asked, pc, identity, committed, tasks, reuse, needed, lane, cache, recovered, prefix, item, sta>>
    BY DEF KeepFinal, FinalKey, run, work
  <1>3. DOMAIN units' = Task /\ Adds(units, units', "sta", "final", item, Contact(item))
        /\ \A y : Holds(units, "sta", "final", item, y) => y = Contact(item)
    BY <1>1, <1>2, PutAdds DEF ContactTypes
  <1>4. "final" \notin Paid \cup ReviewUnit \cup SegmentUnit /\ "final" \in Unpaid
    BY DEF Paid, Unpaid, ReviewUnit, SegmentUnit
  <1>5. Right(asked, units', identity["cpa"], "sta", "final", item, Contact(item))
    BY <1>4 DEF Right
  <1>6. Evidence(asked, units', identity["cpa"])
    BY <1>1, <1>3, <1>4, <1>5, EvidenceGrows
  <1>7. Evidence(asked', units', identity["cpa"])
    BY <1>2, <1>6
  <1>8. AtStep'
    BY <1>1, <1>2 DEF AtStep
  <1>9. Purpose'
    BY <1>1, <1>2, SyncAttempt
  <1>10. cache' \in 0 .. Len(asked') /\ recovered' \in BOOLEAN /\ asked' \in Seq(Asking) /\ Extends(asked, asked')
    BY <1>1, <1>2 DEF ContactTypes
  <1>11. QED BY <1>2, <1>3, <1>7, <1>8, <1>9, <1>10, GrowingStep

LEMMA FinishStep == ASSUME ContactInv, Finish PROVE ContactInv'
  <1>1. /\ ContactTypes /\ Evidence(asked, units, identity["cpa"]) /\ RecordsOf(asked, committed) /\ Len(asked) \in Nat
    BY SameAnswers DEF ContactInv, ContactTypes
  <1>2. /\ pc' = "over" /\ units' = [t \in Task |-> IF t \in needed THEN {} ELSE units[t]]
        /\ UNCHANGED <<asked, identity, committed, tasks, reuse>>
        /\ cache' = 0 /\ sta' = 0 /\ lane' = "sta" /\ recovered' = FALSE
    BY DEF Finish, Goto, run, Unbind, Forget
  <1>3. AtStep' /\ Purpose'
    BY <1>2 DEF AtStep, Purpose, Working, Seeded
  <1>4. DOMAIN units' = Task /\ \A t \in Task : units'[t] = units[t] \/ units'[t] = {}
    BY <1>2
  <1>5. Evidence(asked, units', identity["cpa"])
    BY <1>1, <1>4, EvidenceShrinks
  <1>6. Evidence(asked', units', identity'["cpa"])
    BY <1>2, <1>5
  <1>7. cache' \in 0 .. Len(asked') /\ sta' \in 0 .. Len(asked')
    BY <1>1, <1>2
  <1>8. ContactTypes'
    BY <1>1, <1>2, <1>4, <1>7 DEF ContactTypes
  <1>9. QED BY <1>1, <1>2, <1>3, <1>6, <1>8 DEF ContactInv

LEMMA ContactStays ==
  ASSUME ContactInv, UNCHANGED vars PROVE ContactInv'
  <1>1. UNCHANGED <<asked, units, identity, committed, tasks, reuse, needed,
                    cache, recovered, sta, lane, prefix, item, pc>>
    BY DEF vars, disk, run, work
  <1>2. ContactTypes /\ AtStep /\ Purpose
    BY DEF ContactInv
  <1>3. Checkpoint' = Checkpoint
    BY <1>1 DEF Checkpoint
  <1>4. AtStep'
    BY <1>1, <1>2, <1>3 DEF AtStep
  <1>5. Purpose'
    BY <1>1, <1>2, <1>3 DEF Purpose
  <1>6. QED BY <1>1, <1>2, <1>4, <1>5, MovesOn DEF ContactTypes

LEMMA ContactStep ==
  ASSUME ContactInv, Next PROVE ContactInv'
  <1>1. CASE Advance
    BY <1>1, LaunchesAndEnds, BeginStep, LookupSteps, ProposeStep, ReviewStep, FrameStep, PointsCachedStep,
       PointsStep, VerdictStep, KeepPointsStep, StoreStep, SeedStep, LaneSteps, CommitCpaStep, AskBoxStep,
       KeepFinalStep, CommitStaStep, FinishStep DEF Advance
  <1>2. CASE Done
    BY <1>2, ContactStays DEF Done
  <1>3. QED BY <1>1, <1>2, LaunchesAndEnds DEF Next

(* Whatever launches, recoveries, crashes and the reuse of STA leave in    *)
(* the checkpoints, each unit answers what its key stands for, and an      *)
(* attempt is where those answers put it.                                  *)
THEOREM ContactInvariant == RecordSpec => []ContactInv
  <1>1. ASSUME ContactInv, [RecordNext]_<<vars, grd>> PROVE ContactInv'
    BY <1>1, ContactStep, ContactStays DEF RecordNext
  <1>2. QED BY <1>1, ContactStarts, PTL DEF RecordSpec

(* A committed item is of one chain of answers, except for a review whose  *)
(* proposal was on loan from the STA lane (annotate_contact_segment).      *)
THEOREM CoherentItems == RecordSpec => []ItemCoherent
  <1>1. ContactInv => ItemCoherent
    <2>1. SUFFICES ASSUME RecordsOf(asked, committed), NEW t \in Task PROVE Coherent(committed[t].item)
      BY DEF ItemCoherent, ContactInv
    <2>2. CASE committed[t] = NoRecord
      BY <2>2 DEF NoRecord, Coherent
    <2>3. CASE committed[t] # NoRecord
      BY <2>1, <2>3 DEF RecordsOf, Good, Coherent
    <2>4. QED BY <2>2, <2>3
  <1>2. QED BY <1>1, ContactInvariant, PTL

(* The records of STA and CPA name one contact, if one attempt made both   *)
(* or CPA reused STA (sync_sta_record, complete_cpa_from_sta_final).       *)
THEOREM StaAgrees == RecordSpec => []StaMatchesCpa
  <1>1. ContactInv => StaMatchesCpa
    BY DEF ContactInv, RecordsOf, StaMatchesCpa
  <1>2. QED BY <1>1, ContactInvariant, PTL

NotAgain ==
  Len(asked') > Len(asked) =>
    LET new == Last(asked')
    IN  \A n \in Held : asked[n].unit = new.unit /\ asked[n].of = new.of => Malformed(n)

HeldAt == IF pc = "sync" THEN "sta" ELSE Checkpoint

(* An answer of the checkpoint is kept under a unit of its kind, or it is  *)
(* the verdict of points.                                                  *)
LEMMA HeldKinds ==
  ASSUME ContactInv, NEW n \in Held
  PROVE  \/ \E u \in Paid : \E k : Holds(units, HeldAt, u, k, n) /\ asked[n].unit = Kind(u) /\ n \in 1 .. Len(asked)
         \/ \E k, x : Holds(units, HeldAt, "points", k, x) /\ n = x[2] /\ asked[n].unit = "verdict"
  <1>1. ContactTypes /\ AllRight(asked, units, identity["cpa"])
    BY DEF ContactInv, Evidence
  <1>2. HeldAt \in Task
    BY <1>1 DEF HeldAt, Checkpoint, ContactTypes, Task
  <1>3. PICK e \in units[HeldAt] : n \in Answers(e)
    BY DEF Held, HeldAt
  <1>4. Holds(units, HeldAt, e.unit, e.key, e.value)
    BY DEF Holds
  <1>5. Right(asked, units, identity["cpa"], HeldAt, e.unit, e.key, e.value)
    BY <1>1, <1>2, <1>4 DEF AllRight
  <1>6. e.unit \in Paid \cup Unpaid
    BY <1>5 DEF Right
  <1>7. CASE e.unit = "points"
    <2>1. n = e.value[2]
      BY <1>3, <1>7 DEF Answers
    <2>2. RightPoints(asked, units, e.key, e.value)
      BY <1>5, <1>7 DEF Right
    <2>3. \E v : asked[v].unit = "verdict" /\ v = e.value[2]
      BY <2>2 DEF RightPoints
    <2>4. QED BY <1>4, <1>7, <2>1, <2>3
  <1>8. CASE e.unit \in Unpaid \ {"points"}
    <2>1. Answers(e) = {}
      BY <1>8 DEF Answers, Unpaid, SegmentUnit
    <2>2. QED BY <1>3, <2>1
  <1>9. CASE e.unit \in Paid
    <2>1. Answers(e) = {e.value}
      BY <1>9 DEF Answers, Paid
    <2>2. n = e.value
      BY <1>3, <2>1
    <2>3. QED BY <1>1, <1>2, <1>4, <1>9, <2>2, HeldAnswer
  <1>10. QED BY <1>6, <1>7, <1>8, <1>9

LEMMA OnlyOnce ==
  ASSUME ContactInv, NEW u \in Kinds, NEW of \in Seq(Nat), NEW says \in Says, Answer(u, of, says),
         \A n \in Held : asked[n].unit = u /\ asked[n].of = of => Malformed(n)
  PROVE  NotAgain
  <1>1. asked \in Seq(Asking)
    BY DEF ContactInv, ContactTypes
  <1>2. /\ asked' \in Seq(Asking) /\ Len(asked') = Len(asked) + 1
        /\ asked'[Fresh].unit = u /\ asked'[Fresh].of = of
    BY <1>1, AnswerAdds
  <1>3. Last(asked') = asked'[Fresh]
    BY <1>2 DEF Last, Fresh
  <1>4. QED BY <1>2, <1>3 DEF NotAgain

LEMMA NothingAsked == ASSUME asked' = asked, asked \in Seq(Asking) PROVE NotAgain
  <1>1. ~ (Len(asked') > Len(asked))
    BY SameAnswers
  <1>2. QED BY <1>1 DEF NotAgain

LEMMA ProposeOnce == ASSUME ContactInv, Propose PROVE NotAgain
  <1>1. /\ ContactTypes /\ AllRight(asked, units, identity["cpa"])
    BY DEF ContactInv, Evidence
  <1>2. CASE asked' = asked
    BY <1>1, <1>2, NothingAsked DEF ContactTypes
  <1>3. CASE Cached("proposal", <<>>) = {} /\ Answer("proposal", <<>>, "yes")
    <2>1. HeldAt = Checkpoint /\ Checkpoint \in Task
      BY <1>1 DEF Propose, HeldAt, Checkpoint, ContactTypes, Task
    <2>2. Recovered["proposal"] = "proposal:recovered"
      BY DEF Recovered
    <2>3. ASSUME NEW n \in Held, asked[n].unit = "proposal" PROVE Malformed(n)
      <3>1. \E u \in Paid : \E k : Holds(units, Checkpoint, u, k, n) /\ Kind(u) = "proposal"
        BY <2>1, <2>3, HeldKinds
      <3>2. PICK u \in {"proposal", "proposal:recovered"} : \E k : Holds(units, Checkpoint, u, k, n)
        BY <3>1 DEF Kind, Paid
      <3>3. Holds(units, Checkpoint, u, <<>>, n)
        BY <1>1, <2>1, <3>2 DEF AllRight, Right
      <3>4. n \in Saved(Checkpoint, u, <<>>)
        BY <3>3, SavedHolds
      <3>5. Malformed(n) \/ n \in Valid(u, <<>>)
        BY <3>4 DEF Valid
      <3>6. Valid("proposal:recovered", <<>>) = {} /\ Valid("proposal", <<>>) = {}
        BY <1>3, <2>2 DEF Cached
      <3>7. QED BY <3>2, <3>5, <3>6
    <2>4. "proposal" \in Kinds /\ "yes" \in Says /\ <<>> \in Seq(Nat)
      BY DEF Kinds, Says
    <2>5. QED BY <1>3, <2>3, <2>4, OnlyOnce
  <1>4. QED BY <1>2, <1>3 DEF Propose

LEMMA ReviewOnce == ASSUME ContactInv, Review PROVE NotAgain
  <1>1. /\ ContactTypes /\ AllRight(asked, units, identity["cpa"]) /\ Evidence(asked, units, identity["cpa"])
        /\ OnePlace(units) /\ NoLoanWhereBad(asked, units) /\ Len(asked) \in Nat
    BY SameAnswers DEF ContactInv, Evidence, ContactTypes
  <1>2. CASE asked' = asked
    BY <1>1, <1>2, NothingAsked DEF ContactTypes
  <1>3. ASSUME Cached("review", ReviewKey) = {}, NEW says \in {"yes", "no", "unboxed"}, Answer("review", item, says)
        PROVE  NotAgain
    <2> DEFINE t == Checkpoint
    <2>1. HeldAt = t /\ t \in Task /\ pc = "review"
      BY <1>1 DEF Review, HeldAt, Checkpoint, ContactTypes, Task
    <2>2. Recovered["review"] = "review:recovered"
      BY DEF Recovered
    <2>3. AtReview(asked, units, t, recovered, item)
      BY <2>1 DEF ContactInv, AtStep
    <2>4. Good(asked, item) /\ Len(item) = 1 /\ item \in Seq(Nat)
      BY <1>1, <2>3, GoodAnswers DEF AtReview
    <2>5. item = <<item[1]>>
      BY <2>4
    <2>6. ReviewKey = (IF recovered THEN <<item[1]>> ELSE <<>>)
      BY DEF ReviewKey
    <2>7. ASSUME NEW n \in Held, asked[n].unit = "review", asked[n].of = item PROVE Malformed(n)
      <3>1. \E u \in Paid : \E k : Holds(units, t, u, k, n) /\ Kind(u) = "review"
        BY <2>1, <2>7, HeldKinds
      <3>2. PICK u \in ReviewUnit : \E k : Holds(units, t, u, k, n)
        BY <3>1 DEF Kind, Paid, ReviewUnit
      <3>3. PICK k : Holds(units, t, u, k, n)
        BY <3>2
      <3>4. RightReview(asked, units, t, k, n)
        BY <1>1, <2>1, <3>3 DEF AllRight, Right
      <3>5. k = ReviewKey
        <4>1. CASE k = <<>>
          <5>1. ~ recovered
            <6>1. CASE asked[n].loan
              <7>1. ~ BadIn(asked, units, t)
                BY <1>1, <2>1, <3>3, <6>1 DEF NoLoanWhereBad
              <7>2. QED BY <2>3, <7>1 DEF AtReview
            <6>2. CASE ~ asked[n].loan
              <7>1. PICK p : Holds(units, t, "proposal", <<>>, p) /\ asked[n].of = <<p>>
                BY <3>4, <4>1, <6>2 DEF RightReview
              <7>2. p = item[1]
                BY <2>5, <2>7, <7>1
              <7>3. SUFFICES ASSUME recovered PROVE FALSE
                OBVIOUS
              <7>4. Holds(units, t, "proposal:recovered", <<>>, item[1])
                BY <2>3, <7>3 DEF AtReview
              <7>5. QED BY <1>1, <2>1, <7>1, <7>2, <7>4, PaidUnits DEF OnePlace
            <6>3. QED BY <6>1, <6>2
          <5>2. QED BY <2>6, <4>1, <5>1
        <4>2. CASE k # <<>>
          <5>1. asked[n].of = k /\ \E p : Holds(units, t, "proposal:recovered", <<>>, p)
            BY <3>4, <4>2 DEF RightReview
          <5>2. BadIn(asked, units, t)
            BY <1>1, <2>1, <5>1 DEF AllRight, Right
          <5>3. recovered
            BY <2>3, <5>2 DEF AtReview
          <5>4. QED BY <2>5, <2>6, <2>7, <5>1, <5>3
        <4>3. QED BY <4>1, <4>2
      <3>6. n \in Saved(Checkpoint, u, ReviewKey)
        BY <3>3, <3>5, SavedHolds
      <3>7. Malformed(n) \/ n \in Valid(u, ReviewKey)
        BY <3>6 DEF Valid
      <3>8. Valid("review:recovered", ReviewKey) = {} /\ Valid("review", ReviewKey) = {}
        BY <1>3, <2>2 DEF Cached
      <3>9. QED BY <3>2, <3>7, <3>8 DEF ReviewUnit
    <2>8. "review" \in Kinds /\ says \in Says
      BY DEF Kinds, Says
    <2>9. QED BY <1>3, <2>4, <2>7, <2>8, OnlyOnce
  <1>4. QED BY <1>2, <1>3 DEF Review

LEMMA FrameOnce == ASSUME ContactInv, Frame PROVE NotAgain
  <1>1. /\ ContactTypes /\ AllRight(asked, units, identity["cpa"]) /\ Evidence(asked, units, identity["cpa"])
        /\ OnePlace(units) /\ Len(asked) \in Nat
    BY SameAnswers DEF ContactInv, Evidence, ContactTypes
  <1>2. CASE asked' = asked
    BY <1>1, <1>2, NothingAsked DEF ContactTypes
  <1>3. ASSUME Saved(Checkpoint, "frame", prefix) = {}, NEW says \in {"yes", "no"}, Answer("frame", item, says)
        PROVE  NotAgain
    <2> DEFINE t == Checkpoint
    <2>1. HeldAt = t /\ t \in Task /\ pc = "frame"
      BY <1>1 DEF Frame, HeldAt, Checkpoint, ContactTypes, Task
    <2>2. AtFrame(asked, units, t, prefix, item)
      BY <2>1 DEF ContactInv, AtStep
    <2>3. Good(asked, item) /\ Len(item) = 2 /\ item \in Seq(Nat)
      BY <1>1, <2>2, GoodAnswers DEF AtFrame
    <2>4. Tail(item) = <<item[2]>>
      BY <2>3, TailOfPair
    <2>5. \A u \in ReviewUnit : u \in Paid
      BY PaidUnits
    <2>6. ~ (Aside(units, t, item[2]) /\ Holds(units, t, "review", <<>>, item[2]))
      BY <1>1, <2>1, <2>5, PaidUnits DEF Aside, OnePlace
    <2>7. ASSUME NEW n \in Held, asked[n].unit = "frame", asked[n].of = item PROVE FALSE
      <3>1. \E u \in Paid : \E k : Holds(units, t, u, k, n) /\ Kind(u) = "frame"
        BY <2>1, <2>7, HeldKinds
      <3>2. PICK k : Holds(units, t, "frame", k, n)
        BY <3>1 DEF Kind, Paid
      <3>3. RightFrame(asked, units, t, k, n)
        BY <1>1, <2>1, <3>2 DEF AllRight, Right
      <3>4. PICK r : /\ Tail(asked[n].of) = <<r>>
                     /\ IF k = <<>> THEN Holds(units, t, "review", <<>>, r) ELSE k = <<r>> /\ Aside(units, t, r)
        BY <3>3 DEF RightFrame
      <3>5. r = item[2]
        BY <2>4, <2>7, <3>4
      <3>6. k = prefix
        BY <2>2, <2>6, <3>4, <3>5 DEF AtFrame
      <3>7. QED BY <1>3, <3>2, <3>6, SavedHolds
    <2>8. "frame" \in Kinds /\ says \in Says
      BY DEF Kinds, Says
    <2>9. QED BY <1>3, <2>3, <2>7, <2>8, OnlyOnce
  <1>4. QED BY <1>2, <1>3 DEF Frame

(* Two answers in one place of a sequence are the same.                    *)
LEMMA AppendsSame ==
  ASSUME NEW S, NEW s \in Seq(S), NEW t \in Seq(S), NEW x \in S, NEW y \in S, Append(s, x) = Append(t, y)
  PROVE  x = y
  <1>1. Len(Append(s, x)) = Len(s) + 1 /\ Len(Append(t, y)) = Len(t) + 1
    OBVIOUS
  <1>2. Len(s) = Len(t) /\ Len(s) \in Nat
    BY <1>1
  <1>3. Append(s, x)[Len(s) + 1] = x /\ Append(t, y)[Len(t) + 1] = y
    OBVIOUS
  <1>4. QED BY <1>2, <1>3

LEMMA AnswersOf ==
  ASSUME ContactInv, NEW n \in 1 .. Len(asked)
  PROVE  asked[n].of \in Seq(Nat) /\ (asked[n].of # <<>> => Tail(asked[n].of) \in Seq(Nat))
  <1>1. asked \in Seq(Asking)
    BY DEF ContactInv, ContactTypes
  <1>2. asked[n] \in Asking
    BY <1>1, ElementOfSeq
  <1>3. asked[n].of \in Seq(Nat)
    BY <1>2 DEF Asking
  <1>4. QED BY <1>3, HeadTailProperties

LEMMA FrameTail ==
  ASSUME ContactInv, NEW k, NEW f, Holds(units, "cpa", "frame", k, f)
  PROVE  f \in Nat /\ Tail(asked[f].of) \in Seq(Nat)
  <1>1. AllRight(asked, units, identity["cpa"]) /\ Len(asked) \in Nat /\ "cpa" \in Task
    BY SameAnswers DEF ContactInv, ContactTypes, Evidence, Task
  <1>2. RightFrame(asked, units, "cpa", k, f)
    BY <1>1 DEF AllRight, Right
  <1>3. f \in 1 .. Len(asked)
    BY <1>1, PaidUnits, HeldAnswer
  <1>4. PICK r : /\ Tail(asked[f].of) = <<r>>
                 /\ IF k = <<>> THEN Holds(units, "cpa", "review", <<>>, r) ELSE k = <<r>> /\ Aside(units, "cpa", r)
    BY <1>2 DEF RightFrame
  <1>5. \E u \in Paid : \E l : Holds(units, "cpa", u, l, r)
    <2>1. \A u \in ReviewUnit : u \in Paid
      BY PaidUnits
    <2>2. QED BY <1>4, <2>1, PaidUnits DEF Aside
  <1>6. r \in 1 .. Len(asked)
    BY <1>1, <1>5, HeldAnswer
  <1>7. r \in Nat /\ f \in Nat
    BY <1>1, <1>3, <1>6
  <1>8. <<r>> \in Seq(Nat)
    BY <1>7
  <1>9. Tail(asked[f].of) = <<r>>
    BY <1>4
  <1>10. QED BY <1>7, <1>8, <1>9

LEMMA InitialTail ==
  ASSUME ContactInv, NEW k, NEW i, Holds(units, "cpa", "initial", k, i)
  PROVE  i \in Nat /\ Tail(asked[i].of) \in Seq(Nat)
  <1>1. AllRight(asked, units, identity["cpa"]) /\ Len(asked) \in Nat /\ "cpa" \in Task
    BY SameAnswers DEF ContactInv, ContactTypes, Evidence, Task
  <1>2. RightInitial(asked, units, identity["cpa"], k, i)
    BY <1>1 DEF AllRight, Right
  <1>3. i \in 1 .. Len(asked)
    BY <1>1, PaidUnits, HeldAnswer
  <1>4. CASE identity["cpa"] = <<>>
    <2>1. PICK f : Holds(units, "cpa", "frame", k, f) /\ Tail(asked[i].of) = Append(Tail(asked[f].of), f)
      BY <1>2, <1>4 DEF RightInitial
    <2>2. f \in Nat /\ Tail(asked[f].of) \in Seq(Nat)
      BY <2>1, FrameTail
    <2>3. Append(Tail(asked[f].of), f) \in Seq(Nat)
      BY <2>2, AppendLast
    <2>4. i \in Nat
      BY <1>1, <1>3
    <2>5. Tail(asked[i].of) \in Seq(Nat)
      BY <2>1, <2>3
    <2>6. QED BY <2>4, <2>5
  <1>5. CASE identity["cpa"] # <<>>
    <2>1. asked[i].of # <<>>
      BY <1>2, <1>5 DEF RightInitial
    <2>2. QED BY <1>1, <1>3, <2>1, AnswersOf
  <1>6. QED BY <1>4, <1>5

LEMMA PointsOnce == ASSUME ContactInv, Points PROVE NotAgain
  <1>1. /\ ContactTypes /\ AllRight(asked, units, identity["cpa"]) /\ Evidence(asked, units, identity["cpa"])
        /\ OnePlace(units) /\ Len(asked) \in Nat /\ "cpa" \in Task
    BY SameAnswers DEF ContactInv, Evidence, ContactTypes, Task
  <1>2. CASE asked' = asked
    BY <1>1, <1>2, NothingAsked DEF ContactTypes
  <1>3. ASSUME Saved("cpa", "initial", prefix) = {}, Answer("initial", item, "yes") PROVE NotAgain
    <2>1. pc = "points"
      BY DEF Points
    <2>2. AtPoints(asked, units, reuse, prefix, item, 3)
      BY <2>1 DEF ContactInv, AtStep
    <2>3. Checkpoint = "cpa" /\ SeedOf(identity["cpa"], reuse, prefix)
      BY <2>1, PointsFacts
    <2>4. HeldAt = "cpa"
      BY <2>1, <2>3 DEF HeldAt
    <2>5. Good(asked, item) /\ Len(item) = 3 /\ item \in Seq(Nat) /\ SubSeq(item, 1, 3) = item
      BY <1>1, <2>2, GoodAnswers, FrontOfItem DEF AtPoints
    <2>6. ASSUME NEW n \in Held, asked[n].unit = "initial", asked[n].of = item PROVE FALSE
      <3>1. \E u \in Paid : \E k : Holds(units, "cpa", u, k, n) /\ Kind(u) = "initial"
        BY <2>4, <2>6, HeldKinds
      <3>2. PICK k : Holds(units, "cpa", "initial", k, n)
        BY <3>1 DEF Kind, Paid
      <3>3. RightInitial(asked, units, identity["cpa"], k, n)
        BY <1>1, <3>2 DEF AllRight, Right
      <3>4. k = prefix
        <4>1. CASE reuse
          BY <2>3, <3>3, <4>1 DEF SeedOf, RightInitial
        <4>2. CASE ~ reuse
          <5>1. identity["cpa"] = <<>> /\ Holds(units, "cpa", "frame", prefix, item[3])
            BY <2>2, <2>3, <4>2 DEF SeedOf, AtPoints
          <5>2. PICK f : Holds(units, "cpa", "frame", k, f) /\ Tail(asked[n].of) = Append(Tail(asked[f].of), f)
            BY <3>3, <5>1 DEF RightInitial
          <5>3. 3 \in 3 .. Len(item)
            BY <2>5
          <5>4. Tail(item) = Append(Tail(asked[item[3]].of), item[3])
            BY <1>1, <2>5, <5>3, LastAnswer
          <5>5. f \in 1 .. Len(asked) /\ item[3] \in 1 .. Len(asked)
            BY <1>1, <5>1, <5>2, PaidUnits, HeldAnswer
          <5>6. f = item[3]
            <6>1. /\ f \in Nat /\ Tail(asked[f].of) \in Seq(Nat)
                  /\ item[3] \in Nat /\ Tail(asked[item[3]].of) \in Seq(Nat)
              BY <5>1, <5>2, FrameTail
            <6>2. Append(Tail(asked[f].of), f) = Append(Tail(asked[item[3]].of), item[3])
              BY <2>6, <5>2, <5>4
            <6>3. QED BY <6>1, <6>2, AppendsSame
          <5>7. QED BY <1>1, <5>1, <5>2, <5>6, PaidUnits DEF OnePlace
        <4>3. QED BY <4>1, <4>2
      <3>5. QED BY <1>3, <3>2, <3>4, SavedHolds
    <2>7. "initial" \in Kinds /\ "yes" \in Says
      BY DEF Kinds, Says
    <2>8. QED BY <1>3, <2>5, <2>6, <2>7, OnlyOnce
  <1>4. QED BY <1>2, <1>3 DEF Points

LEMMA VerdictOnce == ASSUME ContactInv, Verdict PROVE NotAgain
  <1>1. /\ ContactTypes /\ AllRight(asked, units, identity["cpa"]) /\ Evidence(asked, units, identity["cpa"])
        /\ OnePlace(units) /\ Len(asked) \in Nat /\ "cpa" \in Task
    BY SameAnswers DEF ContactInv, Evidence, ContactTypes, Task
  <1>2. pc = "verdict"
    BY DEF Verdict
  <1>3. PICK says \in {"yes", "malformed"} : Answer("verdict", item, says)
    BY DEF Verdict
  <1>4. AtPoints(asked, units, reuse, prefix, item, 4)
    BY <1>2 DEF ContactInv, AtStep
  <1>5. HeldAt = "cpa"
    BY <1>2, PointsFacts DEF HeldAt
  <1>6. Good(asked, item) /\ Len(item) = 4 /\ item \in Seq(Nat)
    BY <1>1, <1>4, GoodAnswers DEF AtPoints
  <1>7. Tail(item) = Append(Tail(asked[item[4]].of), item[4])
    <2>1. 4 \in 3 .. Len(item) /\ SubSeq(item, 1, Len(item)) = item
      BY <1>6, WholeOf
    <2>2. Tail(SubSeq(item, 1, 4)) = Append(Tail(asked[item[4]].of), item[4])
      BY <1>1, <1>6, <2>1, LastAnswer
    <2>3. QED BY <1>6, <2>1, <2>2
  <1>8. Holds(units, "cpa", "initial", prefix, item[4]) /\ \A y : ~ Holds(units, "cpa", "points", prefix, y)
    BY <1>4 DEF AtPoints
  <1>9. ASSUME NEW n \in Held, asked[n].unit = "verdict", asked[n].of = item PROVE FALSE
    <2>1. \A u \in Paid : Kind(u) # "verdict"
      BY DEF Kind, Paid
    <2>2. PICK k, x : Holds(units, "cpa", "points", k, x) /\ n = x[2]
      BY <1>5, <1>9, <2>1, HeldKinds
    <2>3. RightPoints(asked, units, k, x)
      BY <1>1, <2>2 DEF AllRight, Right
    <2> DEFINE Is(i, v) == /\ Holds(units, "cpa", "initial", k, i) /\ x = <<i, v>>
                           /\ asked[v].unit = "verdict" /\ Tail(asked[v].of) = Append(Tail(asked[i].of), i)
    <2>4. \E i : \E v \in 1 .. Len(asked) : Is(i, v)
      BY <2>3 DEF RightPoints
    <2> HIDE DEF Is
    <2>5. PICK i : \E v \in 1 .. Len(asked) : Is(i, v)
      BY <2>4
    <2>6. PICK v \in 1 .. Len(asked) : Is(i, v)
      BY <2>5
    <2>7. /\ Holds(units, "cpa", "initial", k, i) /\ n = v
          /\ Tail(asked[v].of) = Append(Tail(asked[i].of), i)
      BY <2>2, <2>6 DEF Is
    <2>8. i = item[4]
      <3>1. /\ i \in Nat /\ Tail(asked[i].of) \in Seq(Nat)
            /\ item[4] \in Nat /\ Tail(asked[item[4]].of) \in Seq(Nat)
        BY <1>8, <2>7, InitialTail
      <3>2. Append(Tail(asked[i].of), i) = Append(Tail(asked[item[4]].of), item[4])
        BY <1>7, <1>9, <2>7
      <3>3. QED BY <3>1, <3>2, AppendsSame
    <2>9. k = prefix
      BY <1>1, <1>8, <2>7, <2>8, PaidUnits DEF OnePlace
    <2>10. QED BY <1>8, <2>2, <2>9
  <1>10. "verdict" \in Kinds /\ says \in Says
    BY DEF Kinds, Says
  <1>11. QED BY <1>3, <1>6, <1>9, <1>10, OnlyOnce

LEMMA BoxesOnce == ASSUME ContactInv, Seed \/ AskBox PROVE NotAgain
  <1>1. /\ ContactTypes /\ AllRight(asked, units, identity["cpa"]) /\ RecordsOf(asked, committed) /\ AtStep /\ Purpose
        /\ Len(asked) \in Nat
    BY SameAnswers DEF ContactInv, Evidence, ContactTypes
  <1>2. ASSUME NEW u \in {"box", "reuse_bbox"}, NEW k \in Seq(Nat), Answer(u, k, "yes"), Saved(HeldAt, u, k) = {}
        PROVE  NotAgain
    <2>1. HeldAt \in Task
      BY <1>1 DEF HeldAt, Checkpoint, ContactTypes, Task
    <2>2. ASSUME NEW n \in Held, asked[n].unit = u, asked[n].of = k PROVE FALSE
      <3>1. \E v \in Paid : \E l : Holds(units, HeldAt, v, l, n) /\ Kind(v) = u
        BY <2>2, HeldKinds
      <3>2. PICK l : Holds(units, HeldAt, u, l, n)
        BY <3>1 DEF Kind, Paid
      <3>3. l = k
        BY <1>1, <2>1, <2>2, <3>2 DEF AllRight, Right
      <3>4. QED BY <1>2, <3>2, <3>3, SavedHolds
    <2>3. u \in Kinds /\ "yes" \in Says
      BY DEF Kinds, Says
    <2>4. QED BY <1>2, <2>2, <2>3, OnlyOnce
  <1>3. CASE asked' = asked
    BY <1>1, <1>3, NothingAsked DEF ContactTypes
  <1>4. CASE Seed /\ asked' # asked
    <2> DEFINE x == committed["sta"].item
    <2>1. pc = "seed" /\ Answer("reuse_bbox", x, "yes") /\ Saved("cpa", "reuse_bbox", x) = {}
      BY <1>4 DEF Seed
    <2>2. HeldAt = "cpa" /\ committed["sta"] # NoRecord /\ "sta" \in Task
      BY <1>1, <2>1 DEF HeldAt, Checkpoint, Purpose, Working, Seeded, Task
    <2>3. Good(asked, x)
      BY <1>1, <2>2 DEF RecordsOf
    <2>4. x \in Seq(Nat)
      BY <1>1, <2>3, GoodAnswers
    <2>5. QED BY <1>2, <2>1, <2>2, <2>4
  <1>5. CASE AskBox
    <2> DEFINE k == <<sta>> \o item
    <2>1. pc = "sync" /\ Answer("box", k, "yes") /\ Saved("sta", "box", k) = {}
      BY <1>5 DEF AskBox, BoxKey
    <2>2. HeldAt = "sta" /\ Good(asked, item)
      BY <1>1, <2>1 DEF HeldAt, AtStep
    <2>3. k \in Seq(Nat)
      <3>1. item \in Seq(Nat) /\ sta \in Nat
        BY <1>1, <2>2, GoodAnswers DEF ContactTypes
      <3>2. QED BY <3>1
    <2>4. QED BY <1>2, <2>1, <2>2, <2>3
  <1>6. QED BY <1>3, <1>4, <1>5

LEMMA QuietActions ==
  ASSUME ContactInv,
         Start \/ Crash \/ Exception \/ Retry \/ Begin \/ NothingToDo \/ NotFound \/ Lookup \/ LookupFails
         \/ Recheck \/ RecheckFails \/ ProposalOnly \/ PointsCached \/ NoCrop \/ KeepPoints \/ Store \/ NextLane
         \/ ReviewMade \/ Track \/ Student \/ StudentMismatch \/ CommitCpa \/ KeepFinal \/ CommitSta \/ Finish
  PROVE  NotAgain
  <1>1. asked' = asked
    BY DEF Start, Crash, Exception, Retry, Begin, NothingToDo, NotFound, Lookup, LookupFails, Recheck, RecheckFails,
           UseSegment, ProposalOnly, PointsCached, NoCrop, KeepPoints, Store, NextLane, ReviewMade, Track, Student,
           StudentMismatch, CommitCpa, KeepFinal, CommitSta, Finish, Raise
  <1>2. QED BY <1>1, NothingAsked DEF ContactInv, ContactTypes

(* What the checkpoint in use holds an answer to is not asked again,       *)
(* unless that answer is malformed (request_contact_unit).                 *)
THEOREM NeverAskedTwice == RecordSpec => NoAnswerTwice
  <1>1. ASSUME ContactInv, [RecordNext]_<<vars, grd>> PROVE NotAgain \/ UNCHANGED vars
    <2>1. ASSUME Next PROVE NotAgain \/ UNCHANGED vars
      <3>1. CASE Done
        BY <3>1 DEF Done
      <3>2. CASE Start \/ Crash \/ Exception
        BY <1>1, <3>2, QuietActions
      <3>3. CASE Advance
        BY <1>1, <3>3, QuietActions, ProposeOnce, ReviewOnce, FrameOnce, PointsOnce, VerdictOnce, BoxesOnce DEF Advance
      <3>4. QED BY <2>1, <3>1, <3>2, <3>3 DEF Next
    <2>2. QED BY <1>1, <2>1 DEF RecordNext
  <1>2. QED BY <1>1, ContactInvariant, PTL DEF RecordSpec, NoAnswerTwice, NotAgain
=============================================================================
