---------------------------- MODULE MonogsStream ----------------------------
(***************************************************************************)
(* The live MonoGS session of a capture                                    *)
(* (worker/app/processors/gsplat/monogs_streaming.py): the capture's       *)
(* worker steps it with numbered frames, a bounded queue hands them to the *)
(* SLAM thread, which reads its dataset strictly in order, and finalize    *)
(* closes the dataset and joins the thread.  What the upstream frontend    *)
(* does with a frame is external.                                          *)
(***************************************************************************)
EXTENDS Integers, Sequences

CONSTANTS
  Sent,       \* frames the phone numbers: 0 .. Sent - 1
  QueueSize   \* _QUEUE_MAXSIZE

ASSUME StreamAssumption == Sent \in Nat /\ QueueSize \in Nat \ {0}

VARIABLES
  feed,   \* the session: where it is, the next frame's number, whether one was lost
  queue,  \* numbers of the queued frames, or Stop
  reader  \* the SLAM thread and its dataset

streamVars == <<feed, queue, reader>>

Stop == -1
Endless == 99

\* reader.length is len(dataset); have, the frames its dataset has cached.
StreamInit ==
  /\ feed = [at |-> "feeding", next |-> 0, gap |-> FALSE]
  /\ queue = <<>>
  /\ reader = [at |-> "asking", cur |-> 0, have |-> {}, completed |-> FALSE, length |-> Endless]

MaxSeen == IF reader.have = {} THEN -1
           ELSE CHOOSE f \in reader.have : \A g \in reader.have : g <= f

-----------------------------------------------------------------------------
(* The session *)

\* MonogsStreamingSession.step, unless the SLAM thread has died: a frame is
\* queued, or dropped once the queue has been full for its five seconds.
PushFrame ==
  /\ feed.at = "feeding" /\ feed.next < Sent /\ reader.at # "dead"
  /\ IF Len(queue) < QueueSize
       THEN queue' = Append(queue, feed.next) /\ feed' = [feed EXCEPT !.next = @ + 1]
       ELSE feed' = [feed EXCEPT !.next = @ + 1, !.gap = TRUE] /\ UNCHANGED queue
  /\ UNCHANGED reader

\* A frame the capture session dropped before it came here; its number is used.
SkipFrame ==
  /\ feed.at = "feeding" /\ feed.next < Sent
  /\ feed' = [feed EXCEPT !.next = @ + 1, !.gap = TRUE]
  /\ UNCHANGED <<queue, reader>>

\* finalize: complete() caps the dataset's length.
CloseDataset ==
  /\ feed.at = "feeding"
  /\ feed' = [feed EXCEPT !.at = "stopping"]
  /\ reader' = [reader EXCEPT !.completed = TRUE, !.length = IF MaxSeen + 1 > 1 THEN MaxSeen + 1 ELSE 1]
  /\ UNCHANGED queue

\* Mutant: no sentinel is queued.
CapOnly ==
  /\ feed.at = "stopping"
  /\ feed' = [feed EXCEPT !.at = "joining"]
  /\ UNCHANGED <<queue, reader>>

\* complete(), its put_nowait.
PutStop ==
  /\ feed.at = "stopping"
  /\ IF Len(queue) < QueueSize
       THEN queue' = Append(queue, Stop) /\ feed' = [feed EXCEPT !.at = "joining"]
       ELSE feed' = [feed EXCEPT !.at = "draining"] /\ UNCHANGED queue
  /\ UNCHANGED reader

\* The queue was full: one frame is taken out for the sentinel, unless the reader
\* has emptied it.
DrainOne ==
  /\ feed.at = "draining"
  /\ IF queue # <<>>
       THEN queue' = Append(Tail(queue), Stop) /\ feed' = [feed EXCEPT !.at = "joining", !.gap = TRUE]
       ELSE feed' = [feed EXCEPT !.at = "joining"] /\ UNCHANGED queue
  /\ UNCHANGED reader

\* The join returns, or its 300 seconds are over and the thread is left alone.
JoinEnds ==
  /\ feed.at = "joining"
  /\ feed' = [feed EXCEPT !.at = "finalised"]
  /\ UNCHANGED <<queue, reader>>

-----------------------------------------------------------------------------
(* The SLAM thread *)

\* The frontend's loop head: at len(dataset) it ends, and saves its splat.
NextFrame ==
  /\ reader.at = "asking"
  /\ reader' = [reader EXCEPT !.at = IF reader.cur >= reader.length THEN "saved" ELSE "getting"]
  /\ UNCHANGED <<feed, queue>>

\* __getitem__: one turn of its loop.  It has the frame, the dataset is complete
\* and the frame is beyond it, or the next item of the queue is taken.
GetItem ==
  /\ reader.at = "getting"
  /\ IF reader.cur \in reader.have
       THEN reader' = [reader EXCEPT !.at = "tracking"] /\ UNCHANGED queue
       ELSE IF reader.completed /\ reader.cur > MaxSeen
         THEN reader' = [reader EXCEPT !.at = "dead"] /\ UNCHANGED queue
         ELSE reader' = [reader EXCEPT !.at = "waiting"] /\ UNCHANGED queue
  /\ UNCHANGED feed

\* queue.get() returns.
TakeItem ==
  /\ reader.at = "waiting" /\ queue # <<>>
  /\ queue' = Tail(queue)
  /\ reader' =
       IF Head(queue) # Stop
         THEN [reader EXCEPT !.at = "getting", !.have = @ \cup {Head(queue)}]
         ELSE [reader EXCEPT !.completed = TRUE,
                             !.at = IF reader.cur > MaxSeen THEN "dead" ELSE "getting"]
  /\ UNCHANGED feed

\* The frame is tracked, or the tracker dies of it.
TrackFrame ==
  /\ reader.at = "tracking"
  /\ \/ reader' = [reader EXCEPT !.at = "asking", !.cur = @ + 1]
     \/ reader' = [reader EXCEPT !.at = "dead"]
  /\ UNCHANGED <<feed, queue>>

ReadStep == NextFrame \/ GetItem \/ TakeItem \/ TrackFrame

StreamNext == PushFrame \/ SkipFrame \/ CloseDataset \/ PutStop \/ DrainOne \/ JoinEnds \/ ReadStep

\* The SLAM thread runs, and tracking a frame ends.
StreamFairness == WF_streamVars(ReadStep)

StreamSpec == StreamInit /\ [][StreamNext]_streamVars /\ StreamFairness

-----------------------------------------------------------------------------
StreamTypeOK ==
  /\ feed.at \in {"feeding", "stopping", "draining", "joining", "finalised"}
  /\ reader.at \in {"asking", "getting", "waiting", "tracking", "saved", "dead"}
  /\ Len(queue) <= QueueSize

\* Once the session has closed the dataset and no frame was lost on the way, the
\* SLAM thread ends, so that finalize's join returns: it saves, or the sentinel
\* wakes it and it dies.
ReaderEnds == feed.at = "joining" /\ ~feed.gap ~> reader.at \in {"saved", "dead"}
=============================================================================
