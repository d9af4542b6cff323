------------------------ MODULE CaptureSessionProofs ------------------------
(***************************************************************************)
(* Theorems about CaptureSession, for any number of frames, faults and     *)
(* concurrent stop requests.                                               *)
(***************************************************************************)
EXTENDS CaptureSession, TLAPS

Busy == {"joining", "inserting", "marking", "announcing"}

\* The pop gives the session to one request.
StoppedByOne ==
  /\ listed => ~stopped
  /\ \A h \in Stoppers : stop[h] \in Busy => stopped
  /\ \A h, k \in Stoppers : stop[h] \in Busy /\ stop[k] \in Busy => h = k

\* How far a request has come, and what it has done.
Progress ==
  \A h \in Stoppers :
    /\ stop[h] \in {"joining", "inserting"} => job = 0
    /\ stop[h] \in {"inserting", "marking", "announcing"} => loop = "ended" /\ persisted # 0
    /\ stop[h] \in {"marking", "announcing"} => job # 0
    /\ stop[h] = "announcing" => marker \/ faults > 0

\* After the stop the frames stay as they were counted.
Counted ==
  /\ job # 0 => stopped /\ persisted = job /\ loop = "ended"
  /\ faults = 0 => ~torn

Answered ==
  \A h \in Stoppers :
    /\ reply[h] = "nothing" => stopped /\ persisted = 0
    /\ reply[h] = "job" => job # 0 /\ (marker \/ faults > 0)
    /\ reply[h] = "error" => faults > 0

Inv ==
  /\ TypeOK
  /\ FramesAccounted
  /\ StoppedByOne
  /\ Progress
  /\ Counted
  /\ Answered

-----------------------------------------------------------------------------
LEMMA InitInv == Init => Inv
<1> USE CaptureAssumption DEF Init
<1>1. Init => TypeOK
  <2>1. Init => faults \in 0 .. MaxFaults /\ queue \in 0 .. QueueSize /\ accepted \in 0 .. MaxFrames
    OBVIOUS
  <2>2. Init => stop \in [Stoppers -> {"idle", "joining", "inserting", "marking", "announcing", "answered"}]
    OBVIOUS
  <2>3. Init => reply \in [Stoppers -> {"none", "job", "nothing", "unknown", "error"}]
    OBVIOUS
  <2>4. Init => /\ listed \in BOOLEAN /\ stopped \in BOOLEAN /\ torn \in BOOLEAN
                /\ idle \in BOOLEAN /\ marker \in BOOLEAN /\ up \in BOOLEAN
    OBVIOUS
  <2>5. Init => /\ dropped \in Nat /\ processed \in Nat /\ lost \in Nat
                /\ persisted \in Nat /\ job \in Nat
                /\ loop \in {"head", "waiting", "stepping", "ended"}
    OBVIOUS
  <2> QED BY <2>1, <2>2, <2>3, <2>4, <2>5 DEF TypeOK
<1>2. Init => FramesAccounted
  BY DEF FramesAccounted
<1>3. Init => StoppedByOne /\ Progress /\ Counted /\ Answered
  BY DEF StoppedByOne, Progress, Counted, Answered, Busy
<1> QED BY <1>1, <1>2, <1>3 DEF Inv

\* A frame is written whole, or its write is a fault.
LEMMA PersistCases ==
  ASSUME Persist
  PROVE  \/ persisted' = persisted + 1 /\ torn' = FALSE /\ faults' = faults
         \/ persisted' = persisted /\ torn' \in {torn, TRUE} /\ faults < MaxFaults /\ faults' = faults + 1
  BY DEF Persist, Fault

\* The variables keep their types.
LEMMA TypeStep ==
  ASSUME TypeOK, [Next]_vars
  PROVE  TypeOK'
<1> USE CaptureAssumption DEF TypeOK, diskVars, frameVars, stopVars
<1>1. CASE Push
  <2>1. listed' \in BOOLEAN /\ stopped' \in BOOLEAN /\ torn' \in BOOLEAN
         /\ idle' \in BOOLEAN /\ marker' \in BOOLEAN /\ up' \in BOOLEAN
    BY <1>1, PersistCases, Zenon DEF Push
  <2>2. persisted' \in Nat /\ faults' \in 0 .. MaxFaults
    <3>1. faults' = faults \/ (faults < MaxFaults /\ faults' = faults + 1)
      BY <1>1, PersistCases, Zenon DEF Push
    <3>2. persisted' = persisted \/ persisted' = persisted + 1
      BY <1>1, PersistCases, Zenon DEF Push
    <3> QED BY <3>1, <3>2
  <2>3. queue' \in 0 .. QueueSize /\ dropped' \in Nat /\ accepted' \in 0 .. MaxFrames
    BY <1>1 DEF Push, Enqueue
  <2> QED BY <1>1, <2>1, <2>2, <2>3 DEF Push
<1>2. CASE GoIdle
  BY <1>2 DEF GoIdle
<1>3. CASE LoopHead
  BY <1>3 DEF LoopHead
<1>4. CASE Take
  BY <1>4 DEF Take
<1>5. CASE TakeTimeout
  BY <1>5 DEF TakeTimeout
<1>6. CASE StepReturns
  BY <1>6 DEF StepReturns
<1>7. CASE StepRaises
  BY <1>7 DEF StepRaises
<1>8. CASE ApiDies
  <2>1. listed' \in BOOLEAN /\ stopped' \in BOOLEAN /\ torn' \in BOOLEAN
         /\ idle' \in BOOLEAN /\ marker' \in BOOLEAN /\ up' \in BOOLEAN
    BY <1>8 DEF ApiDies
  <2>2. faults' \in 0 .. MaxFaults
    BY <1>8 DEF ApiDies, Fault
  <2> QED BY <1>8, <2>1, <2>2 DEF ApiDies
<1>9. ASSUME NEW h \in Stoppers, StopPop(h) PROVE TypeOK'
  BY <1>9 DEF StopPop, Answer
<1>10. ASSUME NEW h \in Stoppers, Join(h) PROVE TypeOK'
  BY <1>10 DEF Join, Joined, Answer
<1>11. ASSUME NEW h \in Stoppers, JoinTimeout(h) PROVE TypeOK'
  BY <1>11 DEF JoinTimeout, Joined, Answer
<1>12. ASSUME NEW h \in Stoppers, InsertJob(h) PROVE TypeOK'
  BY <1>12 DEF InsertJob, Answer, Fault
<1>13. ASSUME NEW h \in Stoppers, WriteMarker(h) PROVE TypeOK'
  <2>1. listed' \in BOOLEAN /\ stopped' \in BOOLEAN /\ torn' \in BOOLEAN
         /\ idle' \in BOOLEAN /\ marker' \in BOOLEAN /\ up' \in BOOLEAN
    BY <1>13 DEF WriteMarker
  <2>2. faults' \in 0 .. MaxFaults
    BY <1>13 DEF WriteMarker, Fault
  <2>3. stop' \in [Stoppers -> {"idle", "joining", "inserting", "marking", "announcing", "answered"}]
    BY <1>13 DEF WriteMarker
  <2> QED BY <1>13, <2>1, <2>2, <2>3 DEF WriteMarker
<1>14. ASSUME NEW h \in Stoppers, Announce(h) PROVE TypeOK'
  BY <1>14 DEF Announce, Answer, Fault
<1>15. CASE UNCHANGED vars
  BY <1>15 DEF vars
<1> QED BY <1>1, <1>2, <1>3, <1>4, <1>5, <1>6, <1>7, <1>8, <1>9, <1>10, <1>11, <1>12, <1>13, <1>14, <1>15 DEF Next, LoopStep, StopStep

\* Every frame stays accounted for.
LEMMA AccountStep ==
  ASSUME TypeOK, FramesAccounted, [Next]_vars
  PROVE  FramesAccounted'
<1> USE CaptureAssumption DEF TypeOK, FramesAccounted, diskVars, frameVars, stopVars
<1>1. CASE Push
  BY <1>1 DEF Push, Persist, Enqueue, Fault
<1>2. CASE GoIdle
  BY <1>2 DEF GoIdle
<1>3. CASE LoopHead
  BY <1>3 DEF LoopHead
<1>4. CASE Take
  BY <1>4 DEF Take
<1>5. CASE TakeTimeout
  BY <1>5 DEF TakeTimeout
<1>6. CASE StepReturns
  BY <1>6 DEF StepReturns
<1>7. CASE StepRaises
  BY <1>7 DEF StepRaises
<1>8. CASE ApiDies
  BY <1>8 DEF ApiDies, Fault
<1>9. ASSUME NEW h \in Stoppers, StopPop(h) PROVE FramesAccounted'
  BY <1>9 DEF StopPop, Answer
<1>10. ASSUME NEW h \in Stoppers, Join(h) PROVE FramesAccounted'
  BY <1>10 DEF Join, Joined, Answer
<1>11. ASSUME NEW h \in Stoppers, JoinTimeout(h) PROVE FramesAccounted'
  BY <1>11 DEF JoinTimeout, Joined, Answer
<1>12. ASSUME NEW h \in Stoppers, InsertJob(h) PROVE FramesAccounted'
  BY <1>12 DEF InsertJob, Answer, Fault
<1>13. ASSUME NEW h \in Stoppers, WriteMarker(h) PROVE FramesAccounted'
  BY <1>13 DEF WriteMarker, Fault
<1>14. ASSUME NEW h \in Stoppers, Announce(h) PROVE FramesAccounted'
  BY <1>14 DEF Announce, Answer, Fault
<1>15. CASE UNCHANGED vars
  BY <1>15 DEF vars
<1> QED BY <1>1, <1>2, <1>3, <1>4, <1>5, <1>6, <1>7, <1>8, <1>9, <1>10, <1>11, <1>12, <1>13, <1>14, <1>15 DEF Next, LoopStep, StopStep

\* One request has the session.
LEMMA OneStep ==
  ASSUME TypeOK, StoppedByOne, Progress, Counted, Answered, [Next]_vars
  PROVE  StoppedByOne'
<1> USE CaptureAssumption DEF TypeOK, StoppedByOne, Busy, diskVars, frameVars, stopVars
<1>1. CASE Push
  BY <1>1 DEF Push, Persist, Enqueue, Fault
<1>2. CASE GoIdle
  BY <1>2 DEF GoIdle
<1>3. CASE LoopHead
  BY <1>3 DEF LoopHead
<1>4. CASE Take
  BY <1>4 DEF Take
<1>5. CASE TakeTimeout
  BY <1>5 DEF TakeTimeout
<1>6. CASE StepReturns
  BY <1>6 DEF StepReturns
<1>7. CASE StepRaises
  BY <1>7 DEF StepRaises
<1>8. CASE ApiDies
  BY <1>8 DEF ApiDies, Fault
<1>9. ASSUME NEW h \in Stoppers, StopPop(h) PROVE StoppedByOne'
  BY <1>9 DEF StopPop, Answer
<1>10. ASSUME NEW h \in Stoppers, Join(h) PROVE StoppedByOne'
  BY <1>10 DEF Join, Joined, Answer
<1>11. ASSUME NEW h \in Stoppers, JoinTimeout(h) PROVE StoppedByOne'
  BY <1>11 DEF JoinTimeout, Joined, Answer
<1>12. ASSUME NEW h \in Stoppers, InsertJob(h) PROVE StoppedByOne'
  BY <1>12 DEF InsertJob, Answer, Fault
<1>13. ASSUME NEW h \in Stoppers, WriteMarker(h) PROVE StoppedByOne'
  BY <1>13 DEF WriteMarker, Fault
<1>14. ASSUME NEW h \in Stoppers, Announce(h) PROVE StoppedByOne'
  BY <1>14 DEF Announce, Answer, Fault
<1>15. CASE UNCHANGED vars
  BY <1>15 DEF vars
<1> QED BY <1>1, <1>2, <1>3, <1>4, <1>5, <1>6, <1>7, <1>8, <1>9, <1>10, <1>11, <1>12, <1>13, <1>14, <1>15 DEF Next, LoopStep, StopStep

\* A request's progress stays true.
LEMMA ProgressStep ==
  ASSUME TypeOK, StoppedByOne, Progress, Counted, Answered, [Next]_vars
  PROVE  Progress'
<1> USE CaptureAssumption DEF TypeOK, StoppedByOne, Progress, Counted, Busy, diskVars, frameVars, stopVars
<1>1. CASE Push
  BY <1>1 DEF Push, Persist, Enqueue, Fault
<1>2. CASE GoIdle
  BY <1>2 DEF GoIdle
<1>3. CASE LoopHead
  BY <1>3 DEF LoopHead
<1>4. CASE Take
  BY <1>4 DEF Take
<1>5. CASE TakeTimeout
  BY <1>5 DEF TakeTimeout
<1>6. CASE StepReturns
  BY <1>6 DEF StepReturns
<1>7. CASE StepRaises
  BY <1>7 DEF StepRaises
<1>8. CASE ApiDies
  BY <1>8 DEF ApiDies, Fault
<1>9. ASSUME NEW h \in Stoppers, StopPop(h) PROVE Progress'
  BY <1>9 DEF StopPop, Answer
<1>10. ASSUME NEW h \in Stoppers, Join(h) PROVE Progress'
  BY <1>10 DEF Join, Joined, Answer
<1>11. ASSUME NEW h \in Stoppers, JoinTimeout(h) PROVE Progress'
  BY <1>11 DEF JoinTimeout, Joined, Answer
<1>12. ASSUME NEW h \in Stoppers, InsertJob(h) PROVE Progress'
  BY <1>12 DEF InsertJob, Answer, Fault
<1>13. ASSUME NEW h \in Stoppers, WriteMarker(h) PROVE Progress'
  BY <1>13 DEF WriteMarker, Fault
<1>14. ASSUME NEW h \in Stoppers, Announce(h) PROVE Progress'
  BY <1>14 DEF Announce, Answer, Fault
<1>15. CASE UNCHANGED vars
  BY <1>15 DEF vars
<1> QED BY <1>1, <1>2, <1>3, <1>4, <1>5, <1>6, <1>7, <1>8, <1>9, <1>10, <1>11, <1>12, <1>13, <1>14, <1>15 DEF Next, LoopStep, StopStep

\* The row's count stays true.
LEMMA CountedStep ==
  ASSUME TypeOK, StoppedByOne, Progress, Counted, Answered, [Next]_vars
  PROVE  Counted'
<1> USE CaptureAssumption DEF TypeOK, StoppedByOne, Progress, Counted, Busy, diskVars, frameVars, stopVars
<1>1. CASE Push
  <2>1. (faults' = faults /\ torn' = FALSE) \/ faults' = faults + 1
    BY <1>1, PersistCases, Zenon DEF Push
  <2>2. faults' = 0 => ~torn'
    BY <2>1
  <2>3. job' = 0
    BY <1>1 DEF Push
  <2> QED BY <2>2, <2>3
<1>2. CASE GoIdle
  BY <1>2 DEF GoIdle
<1>3. CASE LoopHead
  BY <1>3 DEF LoopHead
<1>4. CASE Take
  BY <1>4 DEF Take
<1>5. CASE TakeTimeout
  BY <1>5 DEF TakeTimeout
<1>6. CASE StepReturns
  BY <1>6 DEF StepReturns
<1>7. CASE StepRaises
  BY <1>7 DEF StepRaises
<1>8. CASE ApiDies
  BY <1>8 DEF ApiDies, Fault
<1>9. ASSUME NEW h \in Stoppers, StopPop(h) PROVE Counted'
  BY <1>9 DEF StopPop, Answer
<1>10. ASSUME NEW h \in Stoppers, Join(h) PROVE Counted'
  BY <1>10 DEF Join, Joined, Answer
<1>11. ASSUME NEW h \in Stoppers, JoinTimeout(h) PROVE Counted'
  BY <1>11 DEF JoinTimeout, Joined, Answer
<1>12. ASSUME NEW h \in Stoppers, InsertJob(h) PROVE Counted'
  BY <1>12 DEF InsertJob, Answer, Fault
<1>13. ASSUME NEW h \in Stoppers, WriteMarker(h) PROVE Counted'
  BY <1>13 DEF WriteMarker, Fault
<1>14. ASSUME NEW h \in Stoppers, Announce(h) PROVE Counted'
  BY <1>14 DEF Announce, Answer, Fault
<1>15. CASE UNCHANGED vars
  BY <1>15 DEF vars
<1> QED BY <1>1, <1>2, <1>3, <1>4, <1>5, <1>6, <1>7, <1>8, <1>9, <1>10, <1>11, <1>12, <1>13, <1>14, <1>15 DEF Next, LoopStep, StopStep

\* The answers stay true.
LEMMA AnsweredStep ==
  ASSUME TypeOK, StoppedByOne, Progress, Counted, Answered, [Next]_vars
  PROVE  Answered'
<1> USE CaptureAssumption DEF TypeOK, StoppedByOne, Progress, Counted, Answered, Busy, diskVars, frameVars, stopVars
<1>1. CASE Push
  <2>0. faults' = faults \/ faults' = faults + 1
    BY <1>1, PersistCases, Zenon DEF Push
  <2>1. faults > 0 => faults' > 0
    BY <2>0
  <2> QED BY <1>1, <2>1 DEF Push
<1>2. CASE GoIdle
  BY <1>2 DEF GoIdle
<1>3. CASE LoopHead
  BY <1>3 DEF LoopHead
<1>4. CASE Take
  BY <1>4 DEF Take
<1>5. CASE TakeTimeout
  BY <1>5 DEF TakeTimeout
<1>6. CASE StepReturns
  BY <1>6 DEF StepReturns
<1>7. CASE StepRaises
  BY <1>7 DEF StepRaises
<1>8. CASE ApiDies
  BY <1>8 DEF ApiDies, Fault
<1>9. ASSUME NEW h \in Stoppers, StopPop(h) PROVE Answered'
  BY <1>9 DEF StopPop, Answer
<1>10. ASSUME NEW h \in Stoppers, Join(h) PROVE Answered'
  BY <1>10 DEF Join, Joined, Answer
<1>11. ASSUME NEW h \in Stoppers, JoinTimeout(h) PROVE Answered'
  BY <1>11 DEF JoinTimeout, Joined, Answer
<1>12. ASSUME NEW h \in Stoppers, InsertJob(h) PROVE Answered'
  BY <1>12 DEF InsertJob, Answer, Fault
<1>13. ASSUME NEW h \in Stoppers, WriteMarker(h) PROVE Answered'
  BY <1>13 DEF WriteMarker, Fault
<1>14. ASSUME NEW h \in Stoppers, Announce(h) PROVE Answered'
  BY <1>14 DEF Announce, Answer, Fault
<1>15. CASE UNCHANGED vars
  BY <1>15 DEF vars
<1> QED BY <1>1, <1>2, <1>3, <1>4, <1>5, <1>6, <1>7, <1>8, <1>9, <1>10, <1>11, <1>12, <1>13, <1>14, <1>15 DEF Next, LoopStep, StopStep

LEMMA NextInv == Inv /\ [Next]_vars => Inv'
  BY TypeStep, AccountStep, OneStep, ProgressStep, CountedStep, AnsweredStep DEF Inv

THEOREM Invariance == Spec => []Inv
  BY InitInv, NextInv, PTL DEF Spec

-----------------------------------------------------------------------------
\* Type correctness of a capture session.
THEOREM TypeCorrect == Spec => []TypeOK
  BY Invariance, PTL DEF Inv

\* However many frames arrive and requests stop the session, and wherever a call
\* raises or the process dies: the row counts the frames on disk, and goes on to.
THEOREM FramesCounted == Spec => []JobSeesAll
<1>1. Inv => JobSeesAll
  BY DEF Inv, Counted, JobSeesAll, Files, TypeOK
<1> QED BY <1>1, Invariance, PTL

\* Every frame is accounted for, whatever the tracker and the stops do.
THEOREM Accounting == Spec => []FramesAccounted
  BY Invariance, PTL DEF Inv

\* The loop is over before the job exists, even if the tracker never returns.
THEOREM LoopEndsFirst == Spec => []QuietAfterJob
<1>1. Inv => QuietAfterJob
  BY DEF Inv, Counted, QuietAfterJob
<1> QED BY <1>1, Invariance, PTL

\* What concurrent stop requests are told is true, and stays true.
THEOREM StopsTellTheTruth == Spec => []AnswersTrue
<1>1. Inv => AnswersTrue
  BY DEF Inv, Counted, Answered, AnswersTrue, TypeOK
<1> QED BY <1>1, Invariance, PTL
=============================================================================
