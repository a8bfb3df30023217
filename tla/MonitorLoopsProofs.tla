------------------------- MODULE MonitorLoopsProofs -------------------------
(***************************************************************************)
(* Proofs, for every value of the constants, that the Monitor loops as    *)
(* modelled in MonitorLoops keep their type, succeed only on a sample that *)
(* met their condition, declare a rebalance hung only if it stood still    *)
(* for longer than REBALANCE_TIMEOUT, and implement AbstractPoller.        *)
(***************************************************************************)
EXTENDS MonitorLoops, TLAPS

(* The inductive invariant.  SuccessOnlyOnGoodSample needs that a value   *)
(* meeting the condition was recorded in seenGood, that the connection     *)
(* count is a number, and, for wait_for_secindex_init_build, that the      *)
(* sticky Ready flags are those of the latest status answer and that the  *)
(* KeyError retries are not spent while it polls.  RebalanceHangOnlyIfStalled *)
(* needs that the server's progress changed no later than the loop saw it  *)
(* change, and the refinement that a rebalance returns only once it stopped. *)
IInv ==
  /\ TypeOK
  /\ Good(loop, last) => seenGood
  /\ loop = "num_connections" => last \in Answers
  /\ loop = "init_build" =>
       /\ last \subseteq built
       /\ answer # NoValue => answer = built
       /\ outcome = "polling" => attempt < KEYERROR_RETRIES
  /\ SuccessOnlyOnGoodSample
  /\ loop = "rebalance" =>
       /\ lastProgress <= answer
       /\ changedAt <= clock
       /\ answer = lastProgress => changedAt <= lastProgressTime
       /\ outcome = "ok" => ~isRunning
  /\ RebalanceHangOnlyIfStalled

(* monitor_rebalance's progress meets no loop condition.                  *)
LEMMA RebalanceNeverGood == \A v : ~Good("rebalance", v)
BY DEF Good

(* Every retry bound is positive.                                        *)
LEMMA BoundPositive == \A l : Bound(l) \in Nat \ {0}
BY RetryAssumption DEF Bound

LEMMA InitIInv == Init => IInv
<1> SUFFICES ASSUME Init PROVE IInv
  OBVIOUS
<1> USE RetryAssumption, AnswerAssumption
<1>1. loop \in AllLoops
  BY LoopsAssumption DEF Init
<1>2. answer \in AnswersOf(loop)
  <2>1. CASE loop = "init_build"
    <3>1. AnswersOf(loop) = StatusAnswers
      BY <2>1 DEF AnswersOf
    <3>2. {} \in StatusAnswers /\ NoValue \in StatusAnswers
      BY DEF StatusAnswers
    <3>3. answer \in {{}, NoValue}
      BY <2>1 DEF Init
    <3>4. QED
      BY <3>1, <3>2, <3>3
  <2>2. CASE loop # "init_build"
    BY <2>2 DEF Init
  <2>3. QED
    BY <2>1, <2>2
<1>3. attempt \in 0 .. Bound(loop)
  BY BoundPositive DEF Init, FirstAttempt
<1>4. last \in IF loop = "init_build" THEN SUBSET Indexes
                                     ELSE Answers \cup {-1, NoValue}
  <2>1. CASE loop = "num_connections"
    BY <1>2, <2>1 DEF Init, AnswersOf, KeyedLoops
  <2>2. CASE loop # "num_connections"
    BY <2>2 DEF Init, FirstValue, Answers
  <2>3. QED
    BY <2>1, <2>2
<1>5. seenGood \in BOOLEAN
  BY DEF Init, Good
<1>6. TypeOK
  <2>1. /\ running \in BOOLEAN /\ isRunning \in BOOLEAN /\ settled \in BOOLEAN
        /\ outcome \in {"polling", "ok", "failed"}
        /\ reported \in Answers \cup {-1, NoValue}
        /\ built \subseteq Indexes
    BY Zenon DEF Init
  <2>2. /\ clock \in Nat /\ lastProgress \in Answers
        /\ lastProgressTime \in Nat /\ changedAt \in Nat
    BY DEF Init, Answers
  <2>3. QED
    BY <1>1, <1>2, <1>3, <1>4, <1>5, <2>1, <2>2 DEF TypeOK
<1>7. loop = "rebalance" => ~Good(loop, last)
  BY RebalanceNeverGood
<1>8. loop = "num_connections" => last \in Answers
  <2> SUFFICES ASSUME loop = "num_connections" PROVE last \in Answers
    OBVIOUS
  <2>1. AnswersOf(loop) = Answers
    BY DEF AnswersOf, KeyedLoops
  <2>2. QED
    BY <1>2, <2>1 DEF Init
<1>9. Good(loop, last) => seenGood
  BY DEF Init
<1>10. loop = "init_build" =>
         /\ last \subseteq built
         /\ answer # NoValue => answer = built
         /\ outcome = "polling" => attempt < KEYERROR_RETRIES
  BY DEF Init, FirstValue, FirstAttempt
<1>11. loop = "rebalance" =>
         /\ lastProgress <= answer
         /\ changedAt <= clock
         /\ answer = lastProgress => changedAt <= lastProgressTime
         /\ outcome = "ok" => ~isRunning
  BY <1>2 DEF Init, AnswersOf, KeyedLoops, Answers
<1>12. QED
  BY <1>6, <1>8, <1>9, <1>10, <1>11 DEF Init, IInv, SuccessOnlyOnGoodSample,
     RebalanceHangOnlyIfStalled

(* One sample of a counted loop keeps the invariant.                      *)
LEMMA SampleIInv ==
  ASSUME NEW l \in CountedLoops, NEW v \in Answers \cup {-1, NoValue},
         IInv, Sample(l, Bound(l), v)
  PROVE  IInv'
<1> USE RetryAssumption, AnswerAssumption
<1>1. loop = l /\ l \notin {"init_build", "rebalance"}
  BY DEF Sample, CountedLoops
<1>2. answer \in Answers \cup {NoValue} /\ last' = answer
  <2>1. AnswersOf(l) \subseteq Answers \cup {NoValue}
    BY <1>1 DEF AnswersOf
  <2>2. answer \in AnswersOf(l)
    BY <1>1 DEF IInv, TypeOK
  <2>3. QED
    BY <2>1, <2>2 DEF Sample, Sampled
<1>10. l = "num_connections" => last' \in Answers
  <2>1. l = "num_connections" => AnswersOf(l) = Answers
    BY DEF AnswersOf, KeyedLoops
  <2>2. answer \in AnswersOf(l)
    BY <1>1 DEF IInv, TypeOK
  <2>3. QED
    BY <1>2, <2>1, <2>2
<1>3. attempt' \in 0 .. Bound(l)
  <2>1. attempt \in 0 .. Bound(l) /\ attempt < Bound(l) /\ Bound(l) \in Nat
    BY <1>1, BoundPositive DEF IInv, TypeOK, Sample
  <2>2. attempt' = attempt \/ attempt' = attempt + 1
    BY Zenon DEF Sample, Sampled
  <2>3. QED
    BY <2>1, <2>2
<1>4. /\ seenGood' \in BOOLEAN
      /\ outcome' \in {"polling", "ok", "failed"}
      /\ outcome' = "ok" => Good(l, answer)
  BY Zenon DEF IInv, TypeOK, Sample, Sampled
<1>5. reported' \in Answers \cup {-1, NoValue}
  BY DEF IInv, TypeOK, Sample
<1>6. UNCHANGED <<loop, answer, rebalanceVars>>
  BY DEF Sample
<1>7. TypeOK'
  BY <1>1, <1>2, <1>3, <1>4, <1>5, <1>6 DEF IInv, TypeOK, rebalanceVars
<1>8. Good(l, answer) => seenGood'
  BY Zenon DEF Sample, Sampled
<1>9. QED
  BY <1>1, <1>2, <1>4, <1>6, <1>7, <1>8, <1>10 DEF IInv, rebalanceVars,
     SuccessOnlyOnGoodSample, RebalanceHangOnlyIfStalled

(* The failure path of a counted loop keeps the invariant.                *)
LEMMA GiveUpIInv ==
  ASSUME NEW l \in CountedLoops, NEW b, NEW v \in Answers \cup {-1, NoValue},
         IInv, GiveUp(l, b, v)
  PROVE  IInv'
<1>1. loop = l /\ l \notin {"init_build", "rebalance"}
  BY DEF GiveUp, CountedLoops
<1>2. outcome' = "failed" /\ reported' = v
  BY DEF GiveUp
<1>3. UNCHANGED <<loop, answer, attempt, last, seenGood, rebalanceVars>>
  BY DEF GiveUp
<1>4. TypeOK'
  BY <1>2, <1>3 DEF IInv, TypeOK, rebalanceVars
<1>5. QED
  BY <1>1, <1>2, <1>3, <1>4 DEF IInv, rebalanceVars, SuccessOnlyOnGoodSample,
     RebalanceHangOnlyIfStalled

(* A sample of monitor_task, monitor_warmup or                            *)
(* wait_for_secindex_incr_build keeps the invariant, and so does the      *)
(* KeyError that ends the last one.                                       *)
LEMMA PollUntilIInv ==
  ASSUME NEW l \in UnboundedLoops \ {"init_build"}, IInv, PollUntil(l)
  PROVE  IInv'
<1> USE AnswerAssumption
<1>1. loop = l /\ l # "rebalance" /\ l # "init_build" /\ l # "num_connections"
  BY DEF PollUntil, UnboundedLoops
<1>2. answer \in Answers \cup {NoValue}
  <2>1. AnswersOf(l) \subseteq Answers \cup {NoValue}
    BY <1>1 DEF AnswersOf
  <2>2. answer \in AnswersOf(l)
    BY <1>1 DEF IInv, TypeOK
  <2>3. QED
    BY <2>1, <2>2
<1>3. UNCHANGED <<loop, answer, reported, rebalanceVars>>
  BY DEF PollUntil
<1>4. CASE answer # NoValue /\ SampledNoCount(Good(l, answer))
  <2>1. last' = answer /\ UNCHANGED attempt
    BY <1>4 DEF SampledNoCount
  <2>5. /\ seenGood' = (seenGood \/ Good(l, answer))
        /\ \/ Good(l, answer) /\ outcome' = "ok"
           \/ ~Good(l, answer) /\ outcome' = outcome
    BY <1>4 DEF SampledNoCount
  <2>6. seenGood \in BOOLEAN /\ outcome = "polling"
    BY <1>1 DEF IInv, TypeOK, PollUntil
  <2>2. /\ seenGood' \in BOOLEAN
        /\ outcome' \in {"polling", "ok", "failed"}
        /\ outcome' = "ok" => Good(l, answer)
        /\ Good(l, answer) => seenGood'
    BY <2>5, <2>6, Zenon
  <2>3. TypeOK'
    BY <1>1, <1>2, <1>3, <2>1, <2>2 DEF IInv, TypeOK, rebalanceVars
  <2>4. QED
    BY <1>1, <1>3, <2>1, <2>2, <2>3 DEF IInv, rebalanceVars,
       SuccessOnlyOnGoodSample, RebalanceHangOnlyIfStalled
<1>5. CASE answer = NoValue /\ outcome' = "failed"
           /\ UNCHANGED <<attempt, last, seenGood>>
  <2>1. TypeOK'
    BY <1>1, <1>3, <1>5 DEF IInv, TypeOK, rebalanceVars
  <2>2. QED
    BY <1>1, <1>3, <1>5, <2>1 DEF IInv, rebalanceVars,
       SuccessOnlyOnGoodSample, RebalanceHangOnlyIfStalled
<1>6. QED
  BY <1>4, <1>5 DEF PollUntil

(* One test of a `while not` poll keeps the invariant.                    *)
LEMMA WhileNotIInv ==
  ASSUME NEW l \in UnboundedLoops \ {"init_build"}, IInv, WhileNot(l)
  PROVE  IInv'
<1> USE AnswerAssumption
<1>1. loop = l /\ l # "rebalance" /\ l # "init_build" /\ l # "num_connections"
  BY DEF WhileNot, UnboundedLoops
<1>2. UNCHANGED <<loop, answer, attempt, reported, rebalanceVars>>
  BY DEF WhileNot
<1>3. answer \in AnswersOf(l)
  BY <1>1 DEF IInv, TypeOK
<1>4. CASE Good(l, last) /\ outcome' = "ok" /\ UNCHANGED <<last, seenGood>>
  BY <1>1, <1>2, <1>4 DEF IInv, TypeOK, rebalanceVars,
     SuccessOnlyOnGoodSample, RebalanceHangOnlyIfStalled
<1>5. CASE /\ ~Good(l, last) /\ answer # NoValue /\ last' = answer
           /\ seenGood' = (seenGood \/ Good(l, answer))
           /\ UNCHANGED outcome
  <2>1. answer \in Answers
    BY <1>1, <1>3, <1>5 DEF AnswersOf
  <2>2. seenGood' \in BOOLEAN /\ (Good(l, answer) => seenGood')
    BY <1>5, Zenon DEF IInv, TypeOK
  <2>3. TypeOK'
    BY <1>2, <1>5, <2>1, <2>2 DEF IInv, TypeOK, rebalanceVars
  <2>4. QED
    BY <1>1, <1>2, <1>5, <2>2, <2>3 DEF IInv, rebalanceVars,
       SuccessOnlyOnGoodSample, RebalanceHangOnlyIfStalled
<1>6. CASE ~Good(l, last) /\ outcome' = "failed" /\ UNCHANGED <<last, seenGood>>
  BY <1>1, <1>2, <1>6 DEF IInv, TypeOK, rebalanceVars,
     SuccessOnlyOnGoodSample, RebalanceHangOnlyIfStalled
<1>7. QED
  BY <1>4, <1>5, <1>6 DEF WhileNot

(* wait_for_num_connections' loop body keeps the invariant.               *)
LEMMA ConnectionsCheckIInv == IInv /\ ConnectionsCheck => IInv'
<1> SUFFICES ASSUME IInv, ConnectionsCheck PROVE IInv'
  OBVIOUS
<1> USE RetryAssumption, AnswerAssumption
<1>1. loop = "num_connections" /\ answer \in Answers
  <2>1. AnswersOf("num_connections") = Answers
    BY DEF AnswersOf, KeyedLoops
  <2>2. QED
    BY <2>1 DEF ConnectionsCheck, IInv, TypeOK
<1>2. attempt' \in 0 .. Bound(loop)
  BY <1>1 DEF ConnectionsCheck, IInv, TypeOK, Bound
<1>3. seenGood' \in BOOLEAN /\ (Good(loop, answer) => seenGood')
  BY Zenon DEF ConnectionsCheck, IInv, TypeOK
<1>4. UNCHANGED <<loop, answer, outcome, reported, rebalanceVars>>
  BY DEF ConnectionsCheck
<1>5. TypeOK'
  BY <1>1, <1>2, <1>3, <1>4 DEF ConnectionsCheck, IInv, TypeOK, rebalanceVars
<1>6. QED
  BY <1>1, <1>3, <1>4, <1>5 DEF ConnectionsCheck, IInv, rebalanceVars,
     SuccessOnlyOnGoodSample, RebalanceHangOnlyIfStalled

(* wait_for_num_connections' return keeps the invariant: True is returned *)
(* only when the loop left on the count, not on the retry bound.          *)
LEMMA ConnectionsReturnIInv == IInv /\ ConnectionsReturn => IInv'
<1> SUFFICES ASSUME IInv, ConnectionsReturn PROVE IInv'
  OBVIOUS
<1> USE RetryAssumption, AnswerAssumption
<1>1. loop = "num_connections" /\ last \in Answers
  BY DEF ConnectionsReturn, IInv
<1>2. attempt \in 0 .. MAX_RETRY
  BY <1>1 DEF IInv, TypeOK, Bound
<1>3. outcome' = "ok" => Good(loop, last)
  BY <1>1, <1>2 DEF ConnectionsReturn, Good, Answers
<1>4. UNCHANGED <<loop, answer, attempt, last, seenGood, reported, rebalanceVars>>
  BY DEF ConnectionsReturn
<1>5. outcome' \in {"ok", "failed"}
  BY DEF ConnectionsReturn
<1>6. TypeOK'
  BY <1>4, <1>5 DEF IInv, TypeOK, rebalanceVars
<1>7. QED
  BY <1>1, <1>3, <1>4, <1>5, <1>6 DEF IInv, rebalanceVars,
     SuccessOnlyOnGoodSample, RebalanceHangOnlyIfStalled

(* One iteration of monitor_rebalance keeps the invariant: a hang is      *)
(* declared only when the progress the loop remembers is the server's,    *)
(* and the server's last change is no later than the loop's last note.    *)
LEMMA RebalanceIterationIInv == IInv /\ RebalanceIteration => IInv'
<1> SUFFICES ASSUME IInv, RebalanceIteration PROVE IInv'
  OBVIOUS
<1> USE TimeAssumption, AnswerAssumption
<1> DEFINE now == clock + POLLING_INTERVAL
<1>1. loop = "rebalance" /\ answer \in Answers
  <2>1. AnswersOf("rebalance") = Answers
    BY DEF AnswersOf, KeyedLoops
  <2>2. QED
    BY <2>1 DEF RebalanceIteration, IInv, TypeOK
<1>2. /\ clock \in Nat /\ changedAt \in Nat /\ lastProgressTime \in Nat
      /\ lastProgress \in Answers
      /\ lastProgress <= answer /\ changedAt <= clock
      /\ answer = lastProgress => changedAt <= lastProgressTime
  BY <1>1 DEF IInv, TypeOK
<1>3. /\ clock' = now /\ isRunning' = running /\ last' = answer
      /\ UNCHANGED <<loop, answer, attempt, seenGood, reported, running,
                     changedAt, settled, built>>
  BY DEF RebalanceIteration
<1>4. running \in BOOLEAN /\ isRunning' \in BOOLEAN
  BY <1>3 DEF IInv, TypeOK
<1>5. ~Good(loop', last')
  BY <1>1, <1>3, RebalanceNeverGood
<1>6. CASE /\ answer = lastProgress
           /\ now - lastProgressTime > REBALANCE_TIMEOUT
           /\ outcome' = "failed"
           /\ UNCHANGED <<lastProgress, lastProgressTime>>
  BY <1>1, <1>2, <1>3, <1>4, <1>5, <1>6 DEF IInv, TypeOK, Answers,
     SuccessOnlyOnGoodSample, RebalanceHangOnlyIfStalled
<1>7. CASE /\ answer = lastProgress
           /\ now - lastProgressTime <= REBALANCE_TIMEOUT
           /\ outcome' = IF running THEN "polling" ELSE "ok"
           /\ UNCHANGED <<lastProgress, lastProgressTime>>
  <2>1. outcome' \in {"polling", "ok"} /\ (outcome' = "ok" => ~isRunning')
    BY <1>3, <1>4, <1>7, Zenon
  <2>2. QED
    BY <1>1, <1>2, <1>3, <1>4, <1>5, <1>7, <2>1 DEF IInv, TypeOK, Answers,
       SuccessOnlyOnGoodSample, RebalanceHangOnlyIfStalled
<1>8. CASE /\ answer # lastProgress
           /\ lastProgress' = answer
           /\ lastProgressTime' = now
           /\ outcome' = IF running THEN "polling" ELSE "ok"
  <2>1. outcome' \in {"polling", "ok"} /\ (outcome' = "ok" => ~isRunning')
    BY <1>3, <1>4, <1>8, Zenon
  <2>2. QED
    BY <1>1, <1>2, <1>3, <1>4, <1>5, <1>8, <2>1 DEF IInv, TypeOK, Answers,
       SuccessOnlyOnGoodSample, RebalanceHangOnlyIfStalled
<1>9. QED
  BY <1>6, <1>7, <1>8 DEF RebalanceIteration

(* One call of update_indexes_ready keeps the invariant: the Ready flags  *)
(* after a good answer are exactly that answer, and a KeyError either is  *)
(* retried below KEYERROR_RETRIES or ends the wait.                        *)
LEMMA InitBuildCheckIInv == IInv /\ InitBuildCheck => IInv'
<1> SUFFICES ASSUME IInv, InitBuildCheck PROVE IInv'
  OBVIOUS
<1> USE RetryAssumption, AnswerAssumption
<1>1. /\ loop = "init_build" /\ outcome = "polling"
      /\ last \subseteq built /\ built \subseteq Indexes
      /\ answer \in StatusAnswers
      /\ answer # NoValue => answer = built
      /\ attempt \in Nat /\ attempt < KEYERROR_RETRIES
  BY DEF InitBuildCheck, IInv, TypeOK, AnswersOf
<1>2. UNCHANGED <<loop, answer, reported, rebalanceVars>>
  BY DEF InitBuildCheck
<1>3. Bound(loop) = KEYERROR_RETRIES
  BY <1>1 DEF Bound
<1>4. CASE /\ answer # NoValue
           /\ last' = last \cup answer
           /\ seenGood' = (seenGood \/ Good(loop, answer))
           /\ attempt' = 0
           /\ UNCHANGED outcome
  <2>1. last' = answer /\ answer \subseteq Indexes
    BY <1>1, <1>4
  <2>2. seenGood' \in BOOLEAN /\ (Good(loop, answer) => seenGood')
    BY <1>4, Zenon DEF IInv, TypeOK
  <2>3. TypeOK'
    BY <1>1, <1>2, <1>3, <1>4, <2>1, <2>2 DEF IInv, TypeOK, rebalanceVars
  <2>4. QED
    BY <1>1, <1>2, <1>4, <2>1, <2>2, <2>3 DEF IInv, rebalanceVars,
       SuccessOnlyOnGoodSample, RebalanceHangOnlyIfStalled
<1>5. CASE /\ answer = NoValue
           /\ attempt' = attempt + 1
           /\ outcome' = IF attempt + 1 = KEYERROR_RETRIES THEN "failed"
                                                        ELSE outcome
           /\ UNCHANGED <<last, seenGood>>
  <2>1. /\ attempt' \in 0 .. KEYERROR_RETRIES
        /\ outcome' \in {"polling", "failed"}
        /\ outcome' = "polling" => attempt' < KEYERROR_RETRIES
    BY <1>1, <1>5
  <2>2. TypeOK'
    BY <1>1, <1>2, <1>3, <1>5, <2>1 DEF IInv, TypeOK, rebalanceVars
  <2>3. QED
    BY <1>1, <1>2, <1>5, <2>1, <2>2 DEF IInv, rebalanceVars,
       SuccessOnlyOnGoodSample, RebalanceHangOnlyIfStalled
<1>6. QED
  BY <1>4, <1>5 DEF InitBuildCheck

(* wait_for_secindex_init_build returns only with every flag set.         *)
LEMMA InitBuildDoneIInv == IInv /\ InitBuildDone => IInv'
<1> SUFFICES ASSUME IInv, InitBuildDone PROVE IInv'
  OBVIOUS
<1> USE AnswerAssumption
<1>1. loop = "init_build" /\ last = Indexes
  BY DEF InitBuildDone
<1>2. Good(loop, last)
  BY <1>1 DEF Good
<1>3. UNCHANGED <<loop, answer, attempt, last, seenGood, reported,
                  rebalanceVars>> /\ outcome' = "ok"
  BY DEF InitBuildDone
<1>4. TypeOK'
  BY <1>3 DEF IInv, TypeOK, rebalanceVars
<1>5. QED
  BY <1>1, <1>2, <1>3, <1>4 DEF IInv, rebalanceVars,
     SuccessOnlyOnGoodSample, RebalanceHangOnlyIfStalled

(* The server's moves keep the invariant.                                 *)
LEMMA ChangeIInv == IInv /\ Change => IInv'
<1> SUFFICES ASSUME IInv, Change PROVE IInv'
  OBVIOUS
<1>1. UNCHANGED <<loop, attempt, last, seenGood, outcome, reported,
                  rebalanceVars>> /\ answer' \in AnswersOf(loop)
  BY DEF Change
<1>2. loop # "init_build" /\ loop # "rebalance"
  BY DEF Change
<1>3. QED
  BY <1>1, <1>2 DEF IInv, TypeOK, rebalanceVars, SuccessOnlyOnGoodSample,
     RebalanceHangOnlyIfStalled

LEMMA BuildChangeIInv == IInv /\ BuildChange => IInv'
<1> SUFFICES ASSUME IInv, BuildChange PROVE IInv'
  OBVIOUS
<1>1. PICK b \in SUBSET Indexes :
        built \subseteq b /\ built' = b /\ answer' \in {b, NoValue}
  BY DEF BuildChange
<1>2. loop = "init_build"
      /\ UNCHANGED <<loop, attempt, last, seenGood, outcome, reported, clock,
                     running, isRunning, lastProgress, lastProgressTime,
                     changedAt, settled>>
  BY DEF BuildChange
<1>3. answer' \in AnswersOf(loop)
  BY <1>1, <1>2 DEF AnswersOf, StatusAnswers
<1>4. QED
  BY <1>1, <1>2, <1>3 DEF IInv, TypeOK, SuccessOnlyOnGoodSample,
     RebalanceHangOnlyIfStalled

LEMMA ProgressIInv == IInv /\ Progress => IInv'
<1> SUFFICES ASSUME IInv, Progress PROVE IInv'
  OBVIOUS
<1>1. loop = "rebalance" /\ answer \in Answers /\ answer < MaxAnswer
  BY DEF Progress, IInv, TypeOK, AnswersOf, KeyedLoops
<1>2. answer' = answer + 1 /\ changedAt' = clock
      /\ UNCHANGED <<loop, attempt, last, seenGood, outcome, reported, clock,
                     running, isRunning, lastProgress, lastProgressTime,
                     settled, built>>
  BY DEF Progress
<1>3. AnswersOf(loop') = Answers
  BY <1>1, <1>2 DEF AnswersOf, KeyedLoops
<1>4. /\ answer' \in Answers
      /\ lastProgress <= answer' /\ answer' # lastProgress
      /\ changedAt' <= clock
  BY <1>1, <1>2, AnswerAssumption DEF IInv, TypeOK, Answers
<1>5. TypeOK'
  BY <1>2, <1>3, <1>4 DEF IInv, TypeOK
<1>6. outcome = "polling"
  BY DEF Progress
<1>7. QED
  BY <1>1, <1>2, <1>4, <1>5, <1>6 DEF IInv, SuccessOnlyOnGoodSample,
     RebalanceHangOnlyIfStalled

LEMMA FinishIInv == IInv /\ Finish => IInv'
<1> SUFFICES ASSUME IInv, Finish PROVE IInv'
  OBVIOUS
<1>1. running' = FALSE
      /\ UNCHANGED <<loop, answer, attempt, last, seenGood, outcome, reported,
                     clock, isRunning, lastProgress, lastProgressTime,
                     changedAt, settled, built>>
  BY DEF Finish
<1>2. TypeOK'
  BY <1>1, Zenon DEF IInv, TypeOK
<1>3. QED
  BY <1>1, <1>2 DEF IInv, SuccessOnlyOnGoodSample, RebalanceHangOnlyIfStalled

LEMMA SettleIInv == IInv /\ Settle => IInv'
<1> SUFFICES ASSUME IInv, Settle PROVE IInv'
  OBVIOUS
<1>1. /\ loop \in UnboundedLoops /\ loop # "rebalance"
      /\ loop # "num_connections"
      /\ answer' \in AnswersOf(loop) /\ Good(loop, answer')
      /\ settled' = TRUE
      /\ built' = IF loop = "init_build" THEN Indexes ELSE built
      /\ UNCHANGED <<loop, attempt, last, seenGood, outcome, reported, clock,
                     running, isRunning, lastProgress, lastProgressTime,
                     changedAt>>
  BY DEF Settle, UnboundedLoops
<1>2. loop = "init_build" => answer' = Indexes /\ built' = Indexes
  BY <1>1 DEF Good
<1>3. TypeOK'
  BY <1>1 DEF IInv, TypeOK
<1>4. QED
  BY <1>1, <1>2, <1>3 DEF IInv, TypeOK, SuccessOnlyOnGoodSample,
     RebalanceHangOnlyIfStalled

LEMMA StutterIInv == IInv /\ UNCHANGED vars => IInv'
BY DEF IInv, TypeOK, vars, SuccessOnlyOnGoodSample, RebalanceHangOnlyIfStalled

(* A counted loop's sample or failure step is one of Sample(l, Bound(l),  *)
(* v) and GiveUp(l, b, v), with v of the reported type.                    *)
LEMMA CountedIInv ==
  ASSUME IInv,
         \/ NumItemsCheck \/ NodeHealthCheck \/ AnalyticsNodeCheck
         \/ RecoveryCheck \/ ServersCheck \/ BootstrapCheck \/ TimerEventCheck
         \/ NumItemsRaise \/ NodeHealthInterrupt \/ AnalyticsNodeInterrupt
         \/ RecoveryGiveUp \/ ServersInterrupt \/ BootstrapGiveUp
         \/ TimerEventGiveUp
  PROVE  IInv'
<1> USE AnswerAssumption
<1>1. CASE NumItemsCheck
  BY <1>1, SampleIInv DEF NumItemsCheck, Bound, CountedLoops
<1>2. CASE NodeHealthCheck
  BY <1>2, SampleIInv DEF NodeHealthCheck, Bound, CountedLoops
<1>3. CASE AnalyticsNodeCheck
  BY <1>3, SampleIInv DEF AnalyticsNodeCheck, Bound, CountedLoops
<1>4. CASE RecoveryCheck
  <2>1. loop = "recovery" /\ AnswersOf("recovery") = Answers \cup {NoValue}
    BY <1>4 DEF RecoveryCheck, Sample, AnswersOf, KeyedLoops
  <2>2. answer \in Answers \cup {-1, NoValue}
    BY <2>1 DEF IInv, TypeOK
  <2>3. QED
    BY <1>4, <2>2, SampleIInv DEF RecoveryCheck, Bound, CountedLoops
<1>5. CASE ServersCheck
  BY <1>5, SampleIInv DEF ServersCheck, Bound, CountedLoops
<1>6. CASE BootstrapCheck
  BY <1>6, SampleIInv DEF BootstrapCheck, Bound, CountedLoops
<1>7. CASE TimerEventCheck
  BY <1>7, SampleIInv DEF TimerEventCheck, Bound, CountedLoops
<1>8. CASE NumItemsRaise
  <2>1. loop = "num_items" /\ AnswersOf("num_items") = Answers
    BY <1>8 DEF NumItemsRaise, GiveUp, AnswersOf, KeyedLoops
  <2>2. answer \in Answers \cup {-1, NoValue}
    BY <2>1 DEF IInv, TypeOK
  <2>3. QED
    BY <1>8, <2>2, GiveUpIInv DEF NumItemsRaise, Bound, CountedLoops
<1>9. CASE NodeHealthInterrupt
  <2>1. loop = "node_health" /\ AnswersOf("node_health") = Answers
    BY <1>9 DEF NodeHealthInterrupt, GiveUp, AnswersOf, KeyedLoops
  <2>2. last \in Answers \cup {-1, NoValue}
    BY <2>1 DEF IInv, TypeOK
  <2>3. QED
    BY <1>9, <2>2, GiveUpIInv DEF NodeHealthInterrupt, Bound, CountedLoops
<1>10. CASE AnalyticsNodeInterrupt
  BY <1>10, GiveUpIInv DEF AnalyticsNodeInterrupt, Bound, CountedLoops
<1>11. CASE RecoveryGiveUp
  BY <1>11, GiveUpIInv DEF RecoveryGiveUp, Bound, CountedLoops
<1>12. CASE ServersInterrupt
  BY <1>12, GiveUpIInv DEF ServersInterrupt, Bound, CountedLoops
<1>13. CASE BootstrapGiveUp
  BY <1>13, GiveUpIInv DEF BootstrapGiveUp, Bound, CountedLoops
<1>14. CASE TimerEventGiveUp
  BY <1>14, GiveUpIInv DEF TimerEventGiveUp, Bound, CountedLoops
<1>15. QED
  BY <1>1, <1>2, <1>3, <1>4, <1>5, <1>6, <1>7, <1>8, <1>9, <1>10, <1>11,
     <1>12, <1>13, <1>14

(* A step of an unbounded poll is WhileNot(l) or PollUntil(l).            *)
LEMMA UnboundedIInv ==
  ASSUME IInv,
         \/ XdcrStartCheck \/ IndexingCheck \/ IndexStateCheck
         \/ FtsQueueCheck \/ FtsPersistCheck \/ ElasticQueueCheck
         \/ ElasticPersistCheck \/ TaskCheck \/ WarmupCheck \/ IncrBuildCheck
  PROVE  IInv'
<1>1. CASE XdcrStartCheck
  BY <1>1, WhileNotIInv DEF XdcrStartCheck, UnboundedLoops
<1>2. CASE IndexingCheck
  BY <1>2, WhileNotIInv DEF IndexingCheck, UnboundedLoops
<1>3. CASE IndexStateCheck
  BY <1>3, WhileNotIInv DEF IndexStateCheck, UnboundedLoops
<1>4. CASE FtsQueueCheck
  BY <1>4, WhileNotIInv DEF FtsQueueCheck, UnboundedLoops
<1>5. CASE FtsPersistCheck
  BY <1>5, WhileNotIInv DEF FtsPersistCheck, UnboundedLoops
<1>6. CASE ElasticQueueCheck
  BY <1>6, WhileNotIInv DEF ElasticQueueCheck, UnboundedLoops
<1>7. CASE ElasticPersistCheck
  BY <1>7, WhileNotIInv DEF ElasticPersistCheck, UnboundedLoops
<1>8. CASE TaskCheck
  BY <1>8, PollUntilIInv DEF TaskCheck, UnboundedLoops, KeyedLoops
<1>9. CASE WarmupCheck
  BY <1>9, PollUntilIInv DEF WarmupCheck, UnboundedLoops, KeyedLoops
<1>10. CASE IncrBuildCheck
  BY <1>10, PollUntilIInv DEF IncrBuildCheck, UnboundedLoops, KeyedLoops
<1>11. QED
  BY <1>1, <1>2, <1>3, <1>4, <1>5, <1>6, <1>7, <1>8, <1>9, <1>10

(* Every step keeps the invariant.                                        *)
LEMMA NextIInv == IInv /\ [Next]_vars => IInv'
<1> SUFFICES ASSUME IInv, [Next]_vars PROVE IInv'
  OBVIOUS
<1>1. CASE Monitor
  BY <1>1, CountedIInv, UnboundedIInv, ConnectionsCheckIInv,
     ConnectionsReturnIInv, RebalanceIterationIInv, InitBuildCheckIInv,
     InitBuildDoneIInv DEF Monitor
<1>2. QED
  BY <1>1, ChangeIInv, BuildChangeIInv, ProgressIInv, FinishIInv, SettleIInv,
     StutterIInv DEF Next

(* TypeOK, SuccessOnlyOnGoodSample and RebalanceHangOnlyIfStalled hold in *)
(* every reachable state of every Monitor loop, whatever the constants.   *)
THEOREM IInvHolds == Spec => []IInv
BY InitIInv, NextIInv, PTL DEF Spec

(* The Monitor loops keep their type.                                     *)
THEOREM TypeCorrect == Spec => []TypeOK
BY IInvHolds, PTL DEF IInv

(* A Monitor loop other than monitor_rebalance breaks, returns True or    *)
(* returns its stat only after a sample that met its condition, for every *)
(* retry bound: the off-by-one-prone counters of the counted loops and    *)
(* the sticky Ready flags of wait_for_secindex_init_build included.       *)
THEOREM SuccessOnlyOnGoodSampleHolds == Spec => []SuccessOnlyOnGoodSample
BY IInvHolds, PTL DEF IInv

(* monitor_rebalance declares a hang only if the server's progress stood  *)
(* still for longer than REBALANCE_TIMEOUT, whatever the timeout and the   *)
(* polling interval.                                                       *)
THEOREM RebalanceHangOnlyIfStalledHolds == Spec => []RebalanceHangOnlyIfStalled
BY IInvHolds, PTL DEF IInv

=============================================================================
