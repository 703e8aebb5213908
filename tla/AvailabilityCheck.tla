-------------------------- MODULE AvailabilityCheck --------------------------
(***************************************************************************)
(* CachedAvailabilityCheck of scripts/fair_request_admission.py, two of    *)
(* them, one over the other, as the fleet builds them.  The client's is    *)
(* asked by request threads: one of them checks the content scope of its   *)
(* own episode (scripts/provider_content_rejection.py) and then asks the   *)
(* admission's, for all who ask within the interval.  The admission's is   *)
(* also asked by threads that wait for memory or a slot, and is kept       *)
(* recent by a thread of its own, the refresher; only behind it is the     *)
(* stop file.                                                              *)
(*                                                                         *)
(* An episode's refusal is its name among the errors.                      *)
(***************************************************************************)
EXTENDS Naturals, FiniteSets

CONSTANTS Caller,       \* request threads
          Refresher,    \* the thread of refreshing()
          Episode,
          EpisodeOf,    \* caller -> the episode whose scope is active in it
          MaxMishaps    \* checks that a BaseException ends, late threads, refused videos

Thread == Caller \cup {Refresher}
Cache == {"client", "admission"}

AvailabilityAssumption ==
  /\ EpisodeOf \in [Caller -> Episode] /\ {"old", "ok", "stopped"} \cap Episode = {}
  /\ Refresher \notin Caller /\ MaxMishaps \in Nat

VARIABLES at,       \* cache -> thread: "idle", "looking", "locking", "checking", "asking"
                    \* (the other cache), "publishing", "releasing", "failing", "waiting",
                    \* "rejecting" or "ended"
          snapshot, \* cache -> _state: "old", or the error of less than an interval ago
          leader,   \* cache -> the thread that set _pending_refresh
          found,    \* cache -> what the leader's check raised
          stop,     \* the fatal stop file
          refused,  \* episodes with a video that the provider refused
          rejected, \* episodes with a saved rejection
          warned,   \* callers that asked when the stop was overdue, and were not told
          mishaps

cache == <<snapshot, leader, found>>
world == <<stop, refused>>
vars == <<at, cache, world, rejected, warned, mishaps>>

Init ==
  /\ at = [k \in Cache |-> [c \in Thread |-> "idle"]]
  /\ snapshot = [k \in Cache |-> "old"] /\ leader = [k \in Cache |-> {}]
  /\ found = [k \in Cache |-> "ok"]
  /\ stop = FALSE /\ refused = {} /\ rejected = {} /\ warned = {}
  /\ mishaps = 0

Goto(k, c, where) == at' = [at EXCEPT ![k][c] = where]
Idle(c) == \A k \in Cache : at[k][c] = "idle"
AsksForClient(c) == at["client"][c] = "asking"

(* Neither the snapshot nor a check that was made before the stop says ok. *)
NoneVouches(k) == /\ snapshot[k] # "ok"
                  /\ \A c \in leader[k] : at[k][c] = "publishing" => found[k] # "ok"

(* A question to the client's cache may go through both.                   *)
Overdue(k) == stop /\ NoneVouches("admission") /\ (k = "client" => NoneVouches("client"))

Ask(k, c) ==
  /\ Idle(c) /\ (c = Refresher => k = "admission") /\ Goto(k, c, "looking")
  /\ warned' = IF c \in Caller /\ Overdue(k) THEN warned \cup {c} ELSE warned
  /\ UNCHANGED <<cache, world, rejected, mishaps>>

(* A question is answered from the cache.  The leader of the client's has  *)
(* the outcome of its check so; a refusal ends the attempt of the caller's *)
(* episode, and is kept.                                                   *)
Answer(k, c) ==
  \/ /\ k = "admission" /\ AsksForClient(c)
     /\ at' = [at EXCEPT !["client"][c] = "publishing", ![k][c] = "idle"]
     /\ found' = [found EXCEPT !["client"] = snapshot[k]] /\ UNCHANGED warned
  \/ /\ ~ (k = "admission" /\ AsksForClient(c))
     /\ Goto(k, c, IF snapshot[k] \in Episode THEN "rejecting" ELSE "idle")
     /\ warned' = IF snapshot[k] = "ok" THEN warned ELSE warned \ {c}
     /\ UNCHANGED found

Recent(k) == snapshot[k] # "old"

(* The refresher wants a snapshot of a quarter of the interval.            *)
TooOld(k, c) == ~ Recent(k) \/ c = Refresher

(* _check: a look at the snapshot without a lock.                          *)
Look(k, c) ==
  /\ at[k][c] = "looking"
  /\ \/ Recent(k) /\ Answer(k, c)
     \/ TooOld(k, c) /\ Goto(k, c, "locking") /\ UNCHANGED <<found, warned>>
  /\ UNCHANGED <<snapshot, leader, world, rejected, mishaps>>

(* Another look under the lock; then the first one leads, the others wait. *)
Lock(k, c) ==
  /\ at[k][c] = "locking"
  /\ \/ Recent(k) /\ Answer(k, c) /\ UNCHANGED leader
     \/ /\ TooOld(k, c) /\ leader[k] = {} /\ leader' = [leader EXCEPT ![k] = {c}]
        /\ Goto(k, c, "checking") /\ UNCHANGED <<found, warned>>
     \/ /\ TooOld(k, c) /\ leader[k] # {}
        /\ Goto(k, c, "waiting") /\ UNCHANGED <<leader, found, warned>>
  /\ UNCHANGED <<snapshot, world, rejected, mishaps>>

(* _ensure_available_uncached: the scope of the leader's episode, and then *)
(* the other cache.                                                        *)
CheckScope(c) ==
  /\ at["client"][c] = "checking"
  /\ \/ /\ EpisodeOf[c] \in refused
        /\ Goto("client", c, "publishing")
        /\ found' = [found EXCEPT !["client"] = EpisodeOf[c]]
     \/ /\ EpisodeOf[c] \notin refused
        /\ at' = [at EXCEPT !["client"][c] = "asking", !["admission"][c] = "looking"]
        /\ UNCHANGED found
  /\ UNCHANGED <<snapshot, leader, world, rejected, warned, mishaps>>

(* check_request_provider.                                                 *)
CheckStop(c) ==
  /\ at["admission"][c] = "checking" /\ Goto("admission", c, "publishing")
  /\ found' = [found EXCEPT !["admission"] = IF stop THEN "stopped" ELSE "ok"]
  /\ UNCHANGED <<snapshot, leader, world, rejected, warned, mishaps>>

(* Only an Exception is a verdict.                                         *)
Interrupt(k, c) ==
  /\ at[k][c] = "checking" /\ mishaps < MaxMishaps /\ mishaps' = mishaps + 1
  /\ Goto(k, c, "failing") /\ warned' = warned \ {c}
  /\ UNCHANGED <<cache, world, rejected>>

Publish(k, c) ==
  /\ at[k][c] = "publishing" /\ Goto(k, c, "releasing") /\ found' = [found EXCEPT ![k] = "ok"]
  /\ snapshot' = [snapshot EXCEPT ![k] = found[k]]
  /\ UNCHANGED <<leader, world, rejected, warned, mishaps>>

(* The refresh is over, whatever ended it: those who wait look again, and  *)
(* so does the leader, unless it was interrupted.  Then the question ends, *)
(* and so does the refresher, or a refresh of the client's that asked.     *)
Awaited(k, d) == at[k][d] = "waiting"

Answered(k, c, d) == \* mutant
  IF d = c /\ at[k][c] = "releasing" THEN "looking" ELSE "idle"
Proceeds(k, c, d) ==
  IF d = c /\ at[k][c] = "failing" THEN IF c = Refresher THEN "ended" ELSE "idle" ELSE "looking"

FailsClient(k, c, j, d) == j # k /\ d = c /\ at[k][c] = "failing" /\ AsksForClient(c)

Release(k, c) ==
  /\ at[k][c] \in {"releasing", "failing"} /\ leader' = [leader EXCEPT ![k] = {}]
  /\ at' = [j \in Cache |-> [d \in Thread |->
              IF j = k /\ (d = c \/ Awaited(k, d)) THEN Proceeds(k, c, d)
              ELSE IF FailsClient(k, c, j, d) THEN "failing" ELSE at[j][d]]]
  /\ UNCHANGED <<snapshot, found, world, rejected, warned, mishaps>>

(* annotate_source_with_retries saves the refusal under its own record.    *)
SaveRejection(c) ==
  /\ at["client"][c] = "rejecting" /\ Goto("client", c, "idle")
  /\ rejected' = rejected \cup {EpisodeOf[c]}
  /\ UNCHANGED <<cache, world, warned, mishaps>>

-----------------------------------------------------------------------------
(* The interval passes.  Those who were told of a snapshot, and look at it, *)
(* are late then.                                                          *)
Hurries(k, c) == at[k][c] \in {"releasing", "looking"}

Expire(k) ==
  /\ Recent(k) /\ snapshot' = [snapshot EXCEPT ![k] = "old"]
  /\ \/ \E c \in Thread : Hurries(k, c) /\ mishaps < MaxMishaps /\ mishaps' = mishaps + 1
     \/ ~ (\E c \in Thread : Hurries(k, c)) /\ UNCHANGED mishaps
  /\ UNCHANGED <<at, leader, found, world, rejected, warned>>

(* The stop file appears, a video is refused.                              *)
Stop ==
  /\ ~ stop /\ stop' = TRUE
  /\ UNCHANGED <<at, cache, refused, rejected, warned, mishaps>>

Refuse(e) ==
  /\ e \notin refused /\ mishaps < MaxMishaps /\ mishaps' = mishaps + 1
  /\ refused' = refused \cup {e}
  /\ UNCHANGED <<at, cache, stop, rejected, warned>>

Step(c) == \/ \E k \in Cache : Look(k, c) \/ Lock(k, c) \/ Publish(k, c) \/ Release(k, c)
           \/ CheckScope(c) \/ CheckStop(c) \/ SaveRejection(c)

Next == \/ \E c \in Thread : Step(c) \/ \E k \in Cache : Ask(k, c) \/ Interrupt(k, c)
        \/ \E k \in Cache : Expire(k)
        \/ Stop \/ \E e \in Episode : Refuse(e)

(* Threads run, and a check ends.                                          *)
Spec == Init /\ [][Next]_vars /\ \A c \in Thread : WF_vars(Step(c))
-----------------------------------------------------------------------------
Leading == {"checking", "asking", "publishing", "releasing", "failing"}
Places == Leading \cup {"idle", "looking", "locking", "waiting", "rejecting", "ended"}

TypeOK ==
  /\ at \in [Cache -> [Thread -> Places]]
  /\ snapshot \in [Cache -> Episode \cup {"old", "ok", "stopped"}]
  /\ found \in [Cache -> Episode \cup {"ok", "stopped"}]
  /\ leader = [k \in Cache |-> {c \in Thread : at[k][c] \in Leading}]
  /\ \A k \in Cache : Cardinality(leader[k]) <= 1
  /\ stop \in BOOLEAN
  /\ {refused, rejected} \subseteq SUBSET Episode /\ warned \subseteq Caller
  /\ mishaps \in 0 .. MaxMishaps

(* "Fatal markers still propagate promptly": once neither cache on the way *)
(* of a question vouches for the time before the stop, the question is not *)
(* answered with ok, whichever check its asker waited for, and whoever is  *)
(* in the middle of refreshing one cache from the other.                   *)
StopIsSeen == \A c \in warned : ~ Idle(c)

(* Every question is answered, whatever interrupts the one who checks for  *)
(* all.                                                                    *)
CheckEnds(c) == (\E k \in Cache : at[k][c] = "looking") ~> Idle(c)

(* "Keep explicit input-video refusals scoped to an episode": an episode   *)
(* whose refusal is saved had a video refused.  It does not hold: what the *)
(* leader finds in its own scope is raised in the threads of all episodes. *)
RejectionIsOwn == rejected \subseteq refused
=============================================================================
