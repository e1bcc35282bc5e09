----------------------------- MODULE FrameQueue -----------------------------
(***************************************************************************)
(* FrameQueue of crates/incomudon-audio: the bounded queue of whole frames *)
(* that drops the oldest one when it is full.  A frame is the number of    *)
(* the push_latest call that brought it.                                   *)
(***************************************************************************)
EXTENDS Integers, Sequences

CONSTANTS
  QueueCapacity,  \* given to FrameQueue::new, which asserts it is not zero
  MaxPushes       \* bound: calls of push_latest in a behaviour

ASSUME FrameQueueAssumption == QueueCapacity \in Nat \ {0} /\ MaxPushes \in Nat

VARIABLES
  frames,         \* the VecDeque
  droppedFrames,  \* dropped_frames
  framesIn,       \* history: calls of push_latest
  framesOut       \* history: the frames pop returned, in order

queueVars == <<frames, droppedFrames, framesIn, framesOut>>

\* The length compared one too late.
OverFull == Len(frames) > QueueCapacity

Full == Len(frames) = QueueCapacity

\* The oldest frames, as many as there are, and the new one.
PopBack(q) == SubSeq(q, 1, Len(q) - 1)

\* pop_front
PopFront(q) == Tail(q)

PushLatest ==
  /\ framesIn < MaxPushes
  /\ framesIn' = framesIn + 1
  /\ \/ /\ Full
        /\ frames' = Append(PopFront(frames), framesIn')
        /\ droppedFrames' = droppedFrames + 1
     \/ /\ ~Full
        /\ frames' = Append(frames, framesIn')
        /\ UNCHANGED droppedFrames
  /\ UNCHANGED framesOut

\* On an empty queue pop returns None and changes nothing.
Pop ==
  /\ frames # <<>>
  /\ frames' = Tail(frames)
  /\ framesOut' = Append(framesOut, Head(frames))
  /\ UNCHANGED <<droppedFrames, framesIn>>

QueueInit ==
  /\ frames = <<>>
  /\ droppedFrames = 0
  /\ framesIn = 0
  /\ framesOut = <<>>

\* Every push is made and every frame popped.
Over == framesIn = MaxPushes /\ frames = <<>> /\ UNCHANGED queueVars

QueueNext == PushLatest \/ Pop \/ Over

QueueSpec == QueueInit /\ [][QueueNext]_queueVars

-----------------------------------------------------------------------------
(* Properties *)

\* Every variable keeps to its type and the queue to its capacity.
QueueTypeOK ==
  /\ frames \in Seq(Nat \ {0}) /\ Len(frames) <= QueueCapacity
  /\ droppedFrames \in Nat
  /\ framesIn \in 0 .. MaxPushes
  /\ framesOut \in Seq(Nat \ {0})

\* "Queue overflow drops the oldest frame": the queue holds exactly the newest
\* frames that were not popped, hands them out in their order, and its count
\* of dropped frames accounts for every frame that is in neither.
QueueWindow ==
  INSTANCE LatestWindow WITH
    Capacity <- QueueCapacity,
    Batch <- 1,
    put <- framesIn,
    first <- framesIn - Len(frames) + 1,
    forgotten <- droppedFrames,
    out <- framesOut

QueueImplementsWindow == QueueWindow!Spec

=============================================================================
