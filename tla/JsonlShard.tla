----------------------------- MODULE JsonlShard -----------------------------
(***************************************************************************)
(* The output shard of one task and batch in scripts/annotate_videos.py,   *)
(* in its two layouts: rows appended to one file, or a file of its own per *)
(* episode, beside packs of an earlier version, in a directory .records.   *)
(* A run reads both layouts, with a process pool (resume_validation_pool)  *)
(* or by itself, keeps what is in order, sets the rest aside, and asks for *)
(* the episodes that are missing.                                          *)
(*                                                                         *)
(* A row is its episode, a number, and what the run makes of it: "current" *)
(* (of the model that it asks), "lite" (STA of a model that is accepted    *)
(* as well), "unreviewed" (GRD of a version without inventory review),     *)
(* "foreign" (of another model), "partial" (a line without its end).       *)
(* Final records that wait in a local spool are CheckpointSpool's.         *)
(***************************************************************************)
EXTENDS Naturals, Sequences, FiniteSets, SequencesExt

CONSTANTS Uid,      \* episodes of the batch
          MaxRuns,  \* launches of the program
          MaxAsked  \* annotations of all runs

JsonlShardAssumption ==
  /\ MaxRuns \in Nat \ {0} /\ MaxAsked \in Nat
  /\ {"append", "pack"} \cap Uid = {} /\ IsFiniteSet(Uid)

File == {"append", "pack"} \cup Uid

VARIABLES grd,      \* the task is GRD, otherwise STA
          rows,     \* file -> its lines; none if there is no file
          evidence, \* rows that were set aside, in files no run reads
          prior,    \* rows of the resume outputs
          acked,    \* rows that were written to their end
          immutable, pool, resume, skip, \* the flags of the run
          pc,       \* "down", "scan", "review", "backed", "sanitize", "quarantining",
           \* "quarantined" or "work"
          todo,     \* files to be read; Head(todo) is the one in work
          done,     \* completed[task]
          asking,   \* episodes in annotation
          asked,    \* annotations so far
          runs

disk == <<grd, prior>>
flags == <<immutable, pool, resume, skip>>
vars == <<disk, rows, evidence, acked, flags, pc, todo, done, asking, asked, runs>>

Row(u, n, kind) == [uid |-> u, id |-> n, kind |-> kind]

(* The lines that can be parsed: a line glued to a partial one cannot.     *)
Whole(s, i) == s[i].kind # "partial" /\ (i > 1 => s[i - 1].kind # "partial")
Parsed(s) == {s[i] : i \in {j \in DOMAIN s : Whole(s, j)}}
Ragged(s) == s # <<>> /\ Last(s).kind = "partial"

(* compatible_annotation_uid.                                              *)
Compatible(r) == r.kind \in {"current", "lite", "unreviewed"}
Uids(R) == {r.uid : r \in {q \in R : Compatible(q)}}

(* The kinds of rows that earlier versions may have left.                  *)
Kinds == {"current", "foreign", IF grd THEN "unreviewed" ELSE "lite"}
Rows(n) == {Row(u, n, kind) : u \in Uid, kind \in Kinds}
Empty == [f \in File |-> <<>>]

(* Two rows of earlier runs, and perhaps the start of a third.             *)
Left ==
  {Empty}
  \cup {[Empty EXCEPT !["append"] = <<r>>] : r \in Rows(1)}
  \cup {[Empty EXCEPT !["append"] = <<r, q>>] : r \in Rows(1), q \in Rows(2)}
  \cup {[Empty EXCEPT !["append"] = <<r, q>>] : r \in Rows(1), q \in {Row(u, 2, "partial") : u \in Uid}}
  \cup {[Empty EXCEPT ![r.uid] = <<r>>] : r \in Rows(1)}
  \cup {[Empty EXCEPT !["append"] = <<r>>, ![q.uid] = <<q>>] : r \in Rows(1), q \in Rows(2)}
  \cup {[Empty EXCEPT !["pack"] = p] : p \in {<<r, q>> : r \in Rows(1), q \in Rows(2)}}

Init ==
  /\ grd \in BOOLEAN /\ rows \in Left
  /\ prior \in {{}} \cup {{Row(u, 0, "current")} : u \in Uid}
  /\ acked = UNION {Parsed(rows[f]) : f \in File}
  /\ evidence = {} /\ asked = 0 /\ runs = 0
  /\ immutable = FALSE /\ pool = FALSE /\ resume = FALSE /\ skip = FALSE
  /\ pc = "down" /\ todo = <<>> /\ done = {} /\ asking = {}

Forget == pc' = "down" /\ todo' = <<>> /\ done' = {} /\ asking' = {}

-----------------------------------------------------------------------------
(* The files that a run reads: both layouts, whichever it writes.          *)
RecordFiles == {f \in File \ {"append"} : rows[f] # <<>>}
CandidatesOfMode(written, skipped) == \* mutant
  IF skipped THEN <<>> ELSE IF written THEN SetToSeq(RecordFiles) ELSE <<"append">>
Candidates(written, skipped) ==
  IF skipped THEN <<>> ELSE <<"append">> \o SetToSeq(RecordFiles)

(* A launch with flags of its own, as parse_args allows them.              *)
Start ==
  /\ pc = "down" /\ runs < MaxRuns
  /\ \E i, p, r, s \in BOOLEAN :
       /\ p => i /\ ~ s
       /\ s => i /\ r
       /\ immutable' = i /\ pool' = p /\ resume' = r /\ skip' = s
       /\ done' = IF r THEN Uids(prior) ELSE {}
       /\ todo' = Candidates(i, s)
  /\ pc' = "scan" /\ runs' = runs + 1
  /\ UNCHANGED <<disk, rows, evidence, acked, asking, asked>>

Crash ==
  /\ pc # "down" /\ Forget
  /\ UNCHANGED <<disk, rows, evidence, acked, flags, asked, runs>>

-----------------------------------------------------------------------------
file == Head(todo)
Reading(where) == pc = where /\ todo # <<>>
NextFile == pc' = "scan" /\ todo' = Tail(todo)

(* repair_partial_jsonl_tail: the partial line is kept elsewhere and cut.  *)
Repair ==
  /\ Reading("scan") /\ Ragged(rows[file])
  /\ rows' = [rows EXCEPT ![file] = Front(@)]
  /\ UNCHANGED <<disk, evidence, acked, flags, pc, todo, done, asking, asked, runs>>

(* fast_incompatible_immutable_record: the first row of a file in .records *)
(* decides for the file.                                                   *)
HeaderRejects(f) ==
  f # "append" /\ rows[f] # <<>> /\ Head(rows[f]).kind \in {"lite", "foreign"}

(* validate_current_file: rows that are not in order are ignored, the file *)
(* is not changed.                                                         *)
Validated(f) ==
  IF HeaderRejects(f) THEN {}
  ELSE Uids({r \in Parsed(rows[f]) : r.kind # "unreviewed"})

Validate ==
  /\ Reading("scan") /\ pool /\ ~ Ragged(rows[file])
  /\ done' = done \cup Validated(file) /\ NextFile
  /\ UNCHANGED <<disk, rows, evidence, acked, flags, asking, asked, runs>>

(* The pool gives no answer when the file changes, or cannot be read, while *)
(* it looks at it.                                                         *)
Examine ==
  /\ Reading("scan") /\ ~ Ragged(rows[file])
  /\ pc' = IF grd THEN "review" ELSE "sanitize"
  /\ UNCHANGED <<disk, rows, evidence, acked, flags, todo, done, asking, asked, runs>>

(* audit_shard: when every GRD row is reviewed, the file is copied and     *)
(* replaced; a review that fails ends the run.                             *)
Unreviewed(f) == {r \in Parsed(rows[f]) : r.kind = "unreviewed"}

Backup ==
  /\ Reading("review")
  /\ IF Unreviewed(file) = {} THEN pc' = "sanitize" /\ UNCHANGED evidence
     ELSE pc' = "backed" /\ evidence' = evidence \cup Parsed(rows[file])
  /\ UNCHANGED <<disk, rows, acked, flags, todo, done, asking, asked, runs>>

Reviewed(r) == IF r.kind = "unreviewed" THEN [r EXCEPT !.kind = "current"] ELSE r

WriteReviewed ==
  /\ Reading("backed") /\ pc' = "sanitize"
  /\ rows' = [rows EXCEPT ![file] = [i \in DOMAIN @ |-> Reviewed(@[i])]]
  /\ acked' = acked \cup {Reviewed(r) : r \in Unreviewed(file)}
  /\ UNCHANGED <<disk, evidence, flags, todo, done, asking, asked, runs>>

(* sanitize_annotation_jsonl: the first compatible row of an episode stays *)
(* and the other lines are set aside, before the file is replaced.         *)
StaysIfUnique(s, i) == \* mutant
  /\ Compatible(s[i])
  /\ \A j \in DOMAIN s \ {i} : s[j].uid = s[i].uid => ~ Compatible(s[j])
Stays(s, i) ==
  /\ Compatible(s[i])
  /\ \A j \in 1 .. i - 1 : s[j].uid = s[i].uid => ~ Compatible(s[j])
Accepted(s) ==
  LET staying == {i \in DOMAIN s : Stays(s, i)}
      line(i) == Cardinality({j \in staying : j <= i})
  IN  [k \in 1 .. Cardinality(staying) |-> s[CHOOSE i \in staying : line(i) = k]]
Rejected(s) == Range(s) \ Range(Accepted(s))

Sanitize ==
  /\ Reading("sanitize")
  /\ IF Rejected(rows[file]) = {}
     THEN NextFile /\ done' = done \cup Uids(Range(rows[file]))
     ELSE pc' = "quarantining" /\ UNCHANGED <<todo, done>>
  /\ UNCHANGED <<disk, rows, evidence, acked, flags, asking, asked, runs>>

Quarantine ==
  /\ Reading("quarantining") /\ pc' = "quarantined"
  /\ evidence' = evidence \cup Rejected(rows[file])
  /\ UNCHANGED <<disk, rows, acked, flags, todo, done, asking, asked, runs>>

Replace ==
  /\ Reading("quarantined") /\ NextFile
  /\ rows' = [rows EXCEPT ![file] = Accepted(@)]
  /\ done' = done \cup Uids(Range(rows[file]))
  /\ UNCHANGED <<disk, evidence, acked, flags, asking, asked, runs>>

-----------------------------------------------------------------------------
(* The files are read: annotation begins.                                  *)
Open ==
  /\ pc = "scan" /\ todo = <<>> /\ pc' = "work"
  /\ UNCHANGED <<disk, rows, evidence, acked, flags, todo, done, asking, asked, runs>>

Annotate(u) ==
  /\ pc = "work" /\ u \notin done \cup asking /\ asked < MaxAsked
  /\ asking' = asking \cup {u} /\ asked' = asked + 1
  /\ UNCHANGED <<disk, rows, evidence, acked, flags, pc, todo, done, runs>>

Fail(u) ==
  /\ pc = "work" /\ u \in asking /\ ~ Ragged(rows["append"]) /\ asking' = asking \ {u}
  /\ UNCHANGED <<disk, rows, evidence, acked, flags, pc, todo, done, asked, runs>>

(* commit_stage: a new row replaces the file of its episode, or is written *)
(* to the end of the file, one at a time.                                  *)
Fresh(u) == Row(u, Cardinality(acked) + 3, "current")

Committed(u) == acked' = acked \cup {Fresh(u)} /\ done' = done \cup {u} /\ asking' = asking \ {u}

CommitFile(u) ==
  /\ pc = "work" /\ immutable /\ u \in asking
  /\ rows' = [rows EXCEPT ![u] = <<Fresh(u)>>] /\ Committed(u)
  /\ UNCHANGED <<disk, evidence, flags, pc, todo, asked, runs>>

AppendBegins(u) ==
  /\ pc = "work" /\ ~ immutable /\ u \in asking /\ ~ Ragged(rows["append"])
  /\ rows' = [rows EXCEPT !["append"] = Append(@, Row(u, 0, "partial"))]
  /\ UNCHANGED <<disk, evidence, acked, flags, pc, todo, done, asking, asked, runs>>

AppendEnds(u) ==
  /\ pc = "work" /\ ~ immutable /\ u \in asking /\ Ragged(rows["append"])
  /\ Last(rows["append"]).uid = u
  /\ rows' = [rows EXCEPT !["append"] = Append(Front(@), Fresh(u))] /\ Committed(u)
  /\ UNCHANGED <<disk, evidence, flags, pc, todo, asked, runs>>

(* The batch is finished, with or without errors.                          *)
Finish ==
  /\ pc = "work" /\ asking = {} /\ Forget
  /\ UNCHANGED <<disk, rows, evidence, acked, flags, asked, runs>>

Next ==
  \/ Start \/ Crash \/ Repair \/ Validate \/ Examine \/ Backup \/ WriteReviewed
  \/ Sanitize \/ Quarantine \/ Replace \/ Open \/ Finish
  \/ \E u \in Uid : Annotate(u) \/ Fail(u) \/ CommitFile(u) \/ AppendBegins(u) \/ AppendEnds(u)

Spec == Init /\ [][Next]_vars
-----------------------------------------------------------------------------
TypeOK ==
  /\ grd \in BOOLEAN /\ DOMAIN rows = File /\ \A f \in File : {r.uid : r \in Range(rows[f])} \subseteq Uid
  /\ {immutable, pool, resume, skip} \subseteq BOOLEAN
  /\ Range(todo) \subseteq File /\ {done, asking} \subseteq SUBSET Uid
  /\ asked \in 0 .. MaxAsked /\ runs \in 0 .. MaxRuns

(* No row is lost, whenever the process dies: it is in a file or was set   *)
(* aside, unless a newer one has replaced the file of its episode; and an  *)
(* annotated episode keeps a row that the next run accepts.                *)
RowsKept ==
  LET there == UNION {Parsed(rows[f]) : f \in File}
  IN  \A r \in acked :
        /\ r \in there \cup evidence \/ \E q \in Range(rows[r.uid]) : q.id > r.id
        /\ Compatible(r) => r.uid \in Uids(there)

(* An episode is not annotated, and paid, again if a file that the run has *)
(* read or a resume output has a row for it.  Exempt are rows that the     *)
(* pool ignores: without review, or in a file whose first row is of        *)
(* another model.                                                          *)
Counts(f) == {r \in Parsed(rows[f]) : ~ (pool /\ (r.kind = "unreviewed" \/ HeaderRejects(f)))}
Known == Uids((IF skip THEN {} ELSE UNION {Counts(f) : f \in File})
              \cup (IF resume THEN prior ELSE {}))

NotPaidAgain == [][(asking' \ asking) \cap Known = {}]_vars

(* "Retain already-valid STA rows instead of billing the same episode      *)
(* again" (compatible_annotation_uid): an accepted row of the older model  *)
(* in a file that the run has read spares its episode.                     *)
Lite == UNION {{r.uid : r \in {q \in Parsed(rows[f]) : q.kind = "lite"}} : f \in File}

RetainedIsNotBilled == [][~ skip => (asking' \ asking) \cap Lite = {}]_vars
=============================================================================
