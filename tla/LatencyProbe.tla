---------------------------- MODULE LatencyProbe ----------------------------
(***************************************************************************)
(* One sample of SGImport_latency.measure (cbagent/collectors/             *)
(* sgimport_latency.py): the main thread fetches the Sync Gateway change   *)
(* feed's last sequence, then runs two threads of a ThreadPoolExecutor:    *)
(*   - the observer, check_longpoll_changefeed: a long-poll of _changes    *)
(*     since that sequence; t1 = time() after the response; if the key is *)
(*     not among the results it calls itself again with the same           *)
(*     last_sequence, and returns its own t1 whatever the inner call       *)
(*     returned;                                                           *)
(*   - the writer, insert_doc: upsert of the key into the Couchbase bucket *)
(*     and t0 = time() after the acknowledgment.                           *)
(* It joins both futures and reports (t1 - t0).                            *)
(*                                                                         *)
(* The environment: a background load writes other documents into the      *)
(* same bucket (Load), and Sync Gateway imports every bucket document into *)
(* its change feed, in some order, after it was written (Import).  Time is *)
(* an integer clock (Tick).  Python's recursion limit is RecLimit frames.   *)
(***************************************************************************)
EXTENDS Naturals, Integers, Sequences, FiniteSets, Functions

CONSTANTS
  Key,        \* "sgimport_" + uhex(): the probe's document key
  OtherKeys,  \* keys written by the concurrent load
  RecLimit,   \* frames of check_longpoll_changefeed before RecursionError
  MaxTime,    \* bound of the clock
  NoTime      \* None: a timestamp not taken yet

ASSUME KeyAssumption == Key \notin OtherKeys /\ IsFiniteSet(OtherKeys)
ASSUME BoundAssumption == RecLimit \in Nat \ {0} /\ MaxTime \in Nat
ASSUME NoTimeAssumption == NoTime \notin Int

VARIABLES
  bucket,     \* keys stored in the source bucket
  feed,       \* the _changes feed: feed[i] is the key of sequence i
  clock,      \* wall clock
  main,       \* main thread: "start", "anchored", "joining", "reported", "failed"
  lastSeq,    \* last_sequence returned by get_lastsequence
  writer,     \* insert_doc thread: "idle", "upserting", "acked", "done"
  observer,   \* check_longpoll_changefeed thread: "idle", "polling",
              \* "returned", "crashed" (RecursionError)
  depth,      \* rounds of check_longpoll_changefeed that missed the key
  t0,         \* value returned by insert_doc
  t1,         \* t1 of the outermost check_longpoll_changefeed frame
  result,     \* reported sgimport_latency, in clock units
  matchedAt   \* history: time of the response that contained the key

vars == <<bucket, feed, clock, main, lastSeq, writer, observer, depth,
          t0, t1, result, matchedAt>>

Keys == {Key} \cup OtherKeys

Time == 0 .. MaxTime

-----------------------------------------------------------------------------
Init ==
  /\ bucket = {}
  /\ feed = << >>
  /\ clock = 0
  /\ main = "start"
  /\ lastSeq = 0
  /\ writer = "idle"
  /\ observer = "idle"
  /\ depth = 0
  /\ t0 = NoTime
  /\ t1 = NoTime
  /\ result = NoTime
  /\ matchedAt = NoTime

(* get_lastsequence: a "normal" _changes request since 0, whose last_seq   *)
(* is the sequence of the latest change.                                   *)
GetLastSequence ==
  /\ main = "start"
  /\ lastSeq' = Len(feed)
  /\ main' = "anchored"
  /\ UNCHANGED <<bucket, feed, clock, writer, observer, depth, t0, t1,
                 result, matchedAt>>

(* Faulty variant: only the check_longpoll_changefeed future is submitted. *)
SubmitObserverOnly ==
  /\ main = "anchored"
  /\ main' = "joining"
  /\ observer' = "polling"
  /\ UNCHANGED <<bucket, feed, clock, lastSeq, writer, depth, t0, t1,
                 result, matchedAt>>

(* Faulty variant: the futures are submitted before get_lastsequence     *)
(* runs, which then anchors the cursor while the write is under way.      *)
SubmitBeforeAnchor ==
  /\ main = "start"
  /\ writer = "idle"
  /\ observer' = "polling"
  /\ writer' = "upserting"
  /\ UNCHANGED <<bucket, feed, clock, main, lastSeq, depth, t0, t1, result,
                 matchedAt>>

(* executor.submit of check_longpoll_changefeed, then of insert_doc.       *)
Submit ==
  /\ main = "anchored"
  /\ main' = "joining"
  /\ observer' = "polling"
  /\ writer' = "upserting"
  /\ UNCHANGED <<bucket, feed, clock, lastSeq, depth, t0, t1, result,
                 matchedAt>>

(* insert_doc: src_client.upsert(key, doc) returns once the bucket holds   *)
(* the document.                                                           *)
Upsert ==
  /\ writer = "upserting"
  /\ bucket' = bucket \cup {Key}
  /\ writer' = "acked"
  /\ UNCHANGED <<feed, clock, main, lastSeq, observer, depth, t0, t1,
                 result, matchedAt>>

(* insert_doc: print, then return time().                                  *)
WriterReturn ==
  /\ writer = "acked"
  /\ t0' = clock
  /\ writer' = "done"
  /\ UNCHANGED <<bucket, feed, clock, main, lastSeq, observer, depth, t1,
                 result, matchedAt>>

(* Faulty variant: the long-poll asks "since": last_sequence + 1.          *)
WindowAfterCursor == SubSeq(feed, lastSeq + 2, Len(feed))

(* The changes a long-poll "since": last_sequence returns: those with a    *)
(* sequence above it.                                                      *)
Window == SubSeq(feed, lastSeq + 1, Len(feed))

(* One frame of check_longpoll_changefeed.  The long-poll answers with the *)
(* changes since last_sequence (empty when the server's long-poll timeout  *)
(* expires first), or with an error status.  t1 = time() is taken in every *)
(* frame, but only the outermost frame's t1 reaches measure.  A 200 answer *)
(* without the key recurses with the same last_sequence; an answer with    *)
(* the key, or a non-200 answer, returns.                                  *)
Longpoll ==
  /\ observer = "polling"
  /\ t1' = IF depth = 0 THEN clock ELSE t1
  /\ \/ /\ Key \in Range(Window)
        /\ observer' = "returned"
        /\ matchedAt' = clock
        /\ UNCHANGED depth
     \/ /\ Key \notin Range(Window)
        /\ depth + 1 < RecLimit
        /\ depth' = depth + 1
        /\ UNCHANGED <<observer, matchedAt>>
     \/ /\ Key \notin Range(Window)
        /\ depth + 1 >= RecLimit
        /\ observer' = "crashed"
        /\ UNCHANGED <<depth, matchedAt>>
     \/ /\ observer' = "returned"
        /\ UNCHANGED <<depth, matchedAt>>
  /\ UNCHANGED <<bucket, feed, clock, main, lastSeq, writer, t0, result>>

(* Faulty variant: the observation time is read at join, after          *)
(* future1.result() returned, instead of in check_longpoll_changefeed.     *)
JoinAtReturn ==
  /\ main = "joining"
  /\ observer = "returned"
  /\ writer = "done"
  /\ result' = clock - t0
  /\ main' = "reported"
  /\ UNCHANGED <<bucket, feed, clock, lastSeq, writer, observer, depth, t0,
                 t1, matchedAt>>

(* t1, t0 = future1.result(), future2.result(); the latency is t1 - t0,  *)
(* which sample() appends to the store.                                   *)
Join ==
  /\ main = "joining"
  /\ observer = "returned"
  /\ writer = "done"
  /\ result' = t1 - t0
  /\ main' = "reported"
  /\ UNCHANGED <<bucket, feed, clock, lastSeq, writer, observer, depth, t0,
                 t1, matchedAt>>

(* future1.result() re-raises the observer's RecursionError.               *)
JoinFailed ==
  /\ main = "joining"
  /\ observer = "crashed"
  /\ main' = "failed"
  /\ UNCHANGED <<bucket, feed, clock, lastSeq, writer, observer, depth, t0,
                 t1, result, matchedAt>>

(* The concurrent load (SGImportLatencyTest.load under with_stats, which  *)
(* runs the collectors beside it) writes another document.                *)
Load ==
  /\ \E k \in OtherKeys \ bucket : bucket' = bucket \cup {k}
  /\ UNCHANGED <<feed, clock, main, lastSeq, writer, observer, depth, t0,
                 t1, result, matchedAt>>

(* Sync Gateway imports a bucket document into the change feed.            *)
Import ==
  /\ \E k \in bucket \ Range(feed) : feed' = Append(feed, k)
  /\ UNCHANGED <<bucket, clock, main, lastSeq, writer, observer, depth, t0,
                 t1, result, matchedAt>>

Tick ==
  /\ clock < MaxTime
  /\ clock' = clock + 1
  /\ UNCHANGED <<bucket, feed, main, lastSeq, writer, observer, depth, t0,
                 t1, result, matchedAt>>

Probe ==
  \/ GetLastSequence \/ Submit \/ Upsert \/ WriterReturn \/ Longpoll
  \/ Join \/ JoinFailed

Next == Probe \/ Load \/ Import \/ Tick

(* Each thread runs as long as it can, Sync Gateway eventually imports    *)
(* every document; the clock and the load need no fairness.               *)
Spec == Init /\ [][Next]_vars /\ WF_vars(Probe) /\ WF_vars(Import)

-----------------------------------------------------------------------------
(* Type invariant.                                                        *)
TypeOK ==
  /\ bucket \subseteq Keys
  /\ feed \in Seq(Keys)
  /\ clock \in Time
  /\ main \in {"start", "anchored", "joining", "reported", "failed"}
  /\ lastSeq \in Nat
  /\ writer \in {"idle", "upserting", "acked", "done"}
  /\ observer \in {"idle", "polling", "returned", "crashed"}
  /\ depth \in 0 .. (RecLimit - 1)
  /\ t0 \in Time \cup {NoTime}
  /\ t1 \in Time \cup {NoTime}
  /\ result \in (-MaxTime .. MaxTime) \cup {NoTime}
  /\ matchedAt \in Time \cup {NoTime}

(* The cursor is anchored before the write: while the observer polls,     *)
(* every change of the probe's key in the feed lies in the window its     *)
(* long-poll returns, so no answer can miss an imported key.              *)
KeyAlwaysInWindow ==
  observer = "polling" /\ Key \in Range(feed) => Key \in Range(Window)

(* measure always ends: it reports a sample or raises, once both threads  *)
(* have finished.                                                         *)
ProbeCompletes == <>(main \in {"reported", "failed"})

(* Spec 4.2: observation_confirmed_at is taken when the key is matched;   *)
(* the reported latency is the match time minus the write time.           *)
LatencyIsMatchDelay ==
  main = "reported" /\ matchedAt # NoTime => result = matchedAt - t0

(* Spec 8 asks latency >= 0 whenever the write completes before a match  *)
(* is possible; the code's t1 is taken by the outermost long-poll frame,  *)
(* which can answer before insert_doc takes t0.  What the code does        *)
(* guarantee: a reported latency never exceeds the delay between t0 and  *)
(* the response that contained the key, so it errs only low (and can go   *)
(* negative), never high.                                                  *)
LatencyNeverOverstated ==
  main = "reported" /\ matchedAt # NoTime => result <= matchedAt - t0

(* Spec section 7: a non-success answer of the feed is an InfraError and  *)
(* must fail the probe; a latency is only reported for a matched key.     *)
ReportOnlyAfterMatch ==
  main = "reported" => matchedAt # NoTime

(* Spec section 9: the observer is a bounded loop, not a recursion whose  *)
(* depth grows with every long-poll answer that lacks the key.            *)
NoRecursionExhaustion ==
  observer # "crashed"

-----------------------------------------------------------------------------
(* Refinement: one call of measure implements the race probe of spec 4.2 *)
(* (AbstractRaceProbe).  The cursor is anchored once main has left       *)
(* "start", the write is the probe key reaching the bucket, a match is    *)
(* the response that contained the key, and the probe ends when join()    *)
(* reports or re-raises.                                                   *)
Race == INSTANCE AbstractRaceProbe WITH
          anchored <- main # "start",
          written <- Key \in bucket,
          matched <- matchedAt # NoTime,
          finished <- main \in {"reported", "failed"}

(* measure fetches last_sequence before insert_doc can upsert the key,    *)
(* check_longpoll_changefeed matches only a key the writer has stored,    *)
(* and join() ends the sample once.                                        *)
RaceSpec == Race!Spec

=============================================================================
