------------------------- MODULE LatencyProbeProofs -------------------------
(***************************************************************************)
(* Proofs about one sample of SGImport_latency.measure, for every probe   *)
(* key, set of load keys, recursion limit and clock bound.                 *)
(***************************************************************************)
EXTENDS LatencyProbe, TLAPS

(* The inductive invariant.  Besides TypeOK it records why the cursor is  *)
(* anchored before the write (get_lastsequence runs before the futures    *)
(* are submitted, and the key is not in the bucket until insert_doc's      *)
(* upsert), that the feed only holds bucket documents, and that the       *)
(* timestamps join() subtracts have been taken, t1 by the first frame,   *)
(* no later than the frame that matched.                                   *)
IInv ==
  /\ TypeOK
  /\ Range(feed) \subseteq bucket
  /\ writer = "idle" => Key \notin bucket
  /\ main \in {"start", "anchored"} => writer = "idle" /\ observer = "idle"
  /\ main # "start" => /\ lastSeq <= Len(feed)
                       /\ \A i \in 1 .. lastSeq : feed[i] # Key
  /\ depth > 0 \/ observer \in {"returned", "crashed"} =>
        t1 \in Time /\ t1 <= clock
  /\ matchedAt # NoTime => t1 \in Time /\ t1 <= matchedAt
  /\ main = "reported" => /\ writer = "done" /\ observer = "returned"
                          /\ result = t1 - t0
  /\ writer = "done" => t0 \in Time
  /\ observer = "polling" => main = "joining"
  /\ observer \in {"idle", "polling"} => matchedAt = NoTime

USE KeyAssumption, BoundAssumption, NoTimeAssumption

-----------------------------------------------------------------------------
LEMMA InitIInv == Init => IInv
BY DEF Init, IInv, TypeOK, Range, Time

LEMMA GetLastSequenceIInv == IInv /\ GetLastSequence => IInv'
<1> SUFFICES ASSUME IInv, GetLastSequence PROVE IInv'
  OBVIOUS
<1>1. Key \notin bucket /\ Range(feed) \subseteq bucket
  BY DEF IInv, GetLastSequence
<1>2. \A i \in 1 .. Len(feed) : feed[i] # Key
  BY <1>1 DEF IInv, TypeOK, Range
<1>3. QED
  BY <1>2 DEF IInv, TypeOK, GetLastSequence

LEMMA SubmitIInv == IInv /\ Submit => IInv'
BY DEF IInv, TypeOK, Submit

LEMMA UpsertIInv == IInv /\ Upsert => IInv'
BY DEF IInv, TypeOK, Upsert, Keys

LEMMA WriterReturnIInv == IInv /\ WriterReturn => IInv'
BY DEF IInv, TypeOK, WriterReturn

LEMMA LongpollIInv == IInv /\ Longpoll => IInv'
<1> SUFFICES ASSUME IInv, Longpoll PROVE IInv'
  OBVIOUS
<1>1. t1' \in Time
  BY DEF IInv, TypeOK, Longpoll
<1>2. depth' \in 0 .. (RecLimit - 1)
  BY DEF IInv, TypeOK, Longpoll
<1>3. observer' \in {"polling", "returned", "crashed"}
        /\ (matchedAt' = clock \/ matchedAt' = matchedAt)
  BY DEF Longpoll
<1>4. t1' <= clock
  BY DEF IInv, TypeOK, Longpoll, Time
<1>5. matchedAt = NoTime /\ main = "joining"
  BY DEF IInv, Longpoll
<1>6. matchedAt' # NoTime => matchedAt' = clock
  BY <1>3, <1>5
<1>7. matchedAt' # NoTime => t1' <= matchedAt'
  BY <1>4, <1>6
<1>8. QED
  BY <1>1, <1>2, <1>3, <1>4, <1>5, <1>7 DEF IInv, TypeOK, Longpoll

LEMMA JoinIInv == IInv /\ Join => IInv'
<1> SUFFICES ASSUME IInv, Join PROVE IInv'
  OBVIOUS
<1>1. t1 \in Time /\ t0 \in Time
  BY DEF IInv, Join
<1>2. result' \in -MaxTime .. MaxTime
  BY <1>1 DEF Join, Time
<1>3. QED
  BY <1>2 DEF IInv, TypeOK, Join

LEMMA JoinFailedIInv == IInv /\ JoinFailed => IInv'
BY DEF IInv, TypeOK, JoinFailed

LEMMA LoadIInv == IInv /\ Load => IInv'
BY DEF IInv, TypeOK, Load, Keys

LEMMA ImportIInv == IInv /\ Import => IInv'
<1> SUFFICES ASSUME IInv, Import PROVE IInv'
  OBVIOUS
<1>1. PICK k \in bucket \ Range(feed) : feed' = Append(feed, k)
  BY DEF Import
<1>2. Range(feed') = Range(feed) \cup {k}
  BY <1>1 DEF IInv, TypeOK, Range
<1>3. feed' \in Seq(Keys)
  BY <1>1 DEF IInv, TypeOK
<1>4. main # "start" => \A i \in 1 .. lastSeq : feed'[i] = feed[i]
  BY <1>1 DEF IInv, TypeOK
<1>5. QED
  BY <1>1, <1>2, <1>3, <1>4 DEF IInv, TypeOK, Import

LEMMA TickIInv == IInv /\ Tick => IInv'
BY DEF IInv, TypeOK, Tick, Time

LEMMA StutterIInv == IInv /\ UNCHANGED vars => IInv'
BY DEF IInv, TypeOK, vars, Range

(* The invariant holds in every reachable state.                          *)
THEOREM IInvHolds == Spec => []IInv
<1>1. Init => IInv
  BY InitIInv
<1>2. IInv /\ [Next]_vars => IInv'
  BY GetLastSequenceIInv, SubmitIInv, UpsertIInv, WriterReturnIInv,
     LongpollIInv, JoinIInv, JoinFailedIInv, LoadIInv, ImportIInv,
     TickIInv, StutterIInv DEF Next, Probe
<1>3. QED
  BY <1>1, <1>2, PTL DEF Spec

(* Type correctness of measure's state: in particular join() only         *)
(* subtracts timestamps that were taken, and the recursion depth stays    *)
(* below Python's limit.                                                   *)
THEOREM TypeCorrect == Spec => []TypeOK
BY IInvHolds, PTL DEF IInv

(* The window lemma: once the cursor was read before the write, a long-   *)
(* poll "since" that cursor returns every change of the key in the feed.  *)
LEMMA WindowHoldsKey == IInv => KeyAlwaysInWindow
<1> SUFFICES ASSUME IInv, observer = "polling", Key \in Range(feed)
             PROVE Key \in Range(Window)
  BY DEF KeyAlwaysInWindow
<1>1. main # "start" /\ lastSeq <= Len(feed)
      /\ \A i \in 1 .. lastSeq : feed[i] # Key
  BY DEF IInv
<1>2. PICK i \in 1 .. Len(feed) : feed[i] = Key
  BY DEF IInv, TypeOK, Range
<1>3. i > lastSeq /\ lastSeq \in Nat
  BY <1>1, <1>2 DEF IInv, TypeOK
<1>4. Window[i - lastSeq] = Key /\ i - lastSeq \in DOMAIN Window
  BY <1>1, <1>2, <1>3 DEF IInv, TypeOK, Window
<1>5. QED
  BY <1>4 DEF Range

(* Spec 4.2 (cursor anchored before the write): check_longpoll_changefeed *)
(* never polls a window that has lost the probe's key, whatever the load  *)
(* and the order Sync Gateway imports in.                                 *)
THEOREM KeyAlwaysInWindowHolds == Spec => []KeyAlwaysInWindow
BY IInvHolds, WindowHoldsKey, PTL

(* A reported latency is t1 - t0 with t1 taken by the first long-poll     *)
(* frame, no later than the response that contained the key: measure      *)
(* never reports more than the delay from t0 to the match, for every      *)
(* interleaving of the two threads and every number of missed rounds.     *)
THEOREM LatencyNeverOverstatedHolds == Spec => []LatencyNeverOverstated
<1>1. IInv => LatencyNeverOverstated
  <2> SUFFICES ASSUME IInv, main = "reported", matchedAt # NoTime
               PROVE  result <= matchedAt - t0
    BY DEF LatencyNeverOverstated
  <2>1. t1 \in Time /\ t0 \in Time /\ matchedAt \in Time
    BY DEF IInv, TypeOK
  <2>2. result = t1 - t0 /\ t1 <= matchedAt
    BY DEF IInv
  <2>3. QED
    BY <2>1, <2>2 DEF Time
<1>2. QED
  BY <1>1, IInvHolds, PTL

-----------------------------------------------------------------------------
(* The keys a long-poll since the cursor returns are keys of the feed.    *)
LEMMA WindowInFeed ==
  ASSUME NEW f \in Seq(Keys), NEW c \in Nat, c <= Len(f)
  PROVE  Range(SubSeq(f, c + 1, Len(f))) \subseteq Range(f)
BY DEF Range

(* One step of measure or of its environment is a step of the race probe *)
(* of spec 4.2, or leaves its four observations alone.                    *)
LEMMA RaceStep == IInv /\ [Next]_vars => [Race!Next]_Race!rvars
<1> SUFFICES ASSUME IInv, [Next]_vars PROVE [Race!Next]_Race!rvars
  OBVIOUS
<1> USE DEF Race!rvars
<1>1. CASE GetLastSequence
  BY <1>1 DEF GetLastSequence, Race!Next, Race!Anchor
<1>2. CASE Submit
  BY <1>2 DEF Submit
<1>3. CASE Upsert
  <2>1. main # "start"
    BY <1>3 DEF IInv, Upsert
  <2>2. CASE Key \in bucket
    BY <1>3, <2>2 DEF Upsert
  <2>3. CASE Key \notin bucket
    BY <1>3, <2>1, <2>3 DEF Upsert, Race!Next, Race!Write
  <2>4. QED
    BY <2>2, <2>3
<1>4. CASE WriterReturn
  BY <1>4 DEF WriterReturn
<1>5. CASE Longpoll
  <2>1. main = "joining" /\ matchedAt = NoTime
    BY <1>5 DEF IInv, Longpoll
  <2>2. CASE Key \in Range(Window) /\ matchedAt' = clock
    <3>1. lastSeq \in Nat /\ lastSeq <= Len(feed) /\ feed \in Seq(Keys)
      BY <2>1 DEF IInv, TypeOK
    <3>2. Range(Window) \subseteq Range(feed)
      BY <3>1, WindowInFeed DEF Window
    <3>3. Key \in bucket
      BY <2>2, <3>2 DEF IInv
    <3>4. clock # NoTime
      BY DEF IInv, TypeOK, Time
    <3>5. QED
      BY <1>5, <2>1, <2>2, <3>3, <3>4 DEF Longpoll, Race!Next, Race!Observe
  <2>3. CASE matchedAt' = matchedAt
    BY <1>5, <2>3 DEF Longpoll
  <2>4. QED
    BY <1>5, <2>2, <2>3 DEF Longpoll
<1>6. CASE Join \/ JoinFailed
  BY <1>6 DEF Join, JoinFailed, Race!Next, Race!Finish
<1>7. CASE Load
  BY <1>7 DEF Load
<1>8. CASE Import \/ Tick \/ UNCHANGED vars
  BY <1>8 DEF Import, Tick, vars
<1>9. QED
  BY <1>1, <1>2, <1>3, <1>4, <1>5, <1>6, <1>7, <1>8 DEF Next, Probe

(* measure implements the race probe of spec 4.2 for every key, load and *)
(* recursion limit: get_lastsequence anchors the cursor before insert_doc *)
(* can store the key, check_longpoll_changefeed matches only a stored key *)
(* and only while the sample runs, and join() ends the sample once.       *)
THEOREM Implementation == Spec => RaceSpec
<1>1. Init => Race!Init
  BY DEF Init, Race!Init
<1>2. QED
  BY <1>1, RaceStep, IInvHolds, PTL DEF Spec, RaceSpec, Race!Spec

=============================================================================
