-------------------------- MODULE AudioQueueProofs --------------------------
(***************************************************************************)
(* The two audio queues keep the promise of LatestWindow: FrameQueue for   *)
(* every capacity, the playback buffer for every frame length, capacity    *)
(* and pair of rates.                                                      *)
(***************************************************************************)
EXTENDS FrameQueue, Playback, SequenceTheorems, TLAPS

-----------------------------------------------------------------------------
(* Both *)

\* Forgetting the oldest: the loss is counted, and what came out is older still.
LEMMA OldestForgotten ==
  ASSUME NEW out, NEW n \in Nat, NEW lost \in Nat,
         NEW first \in Nat, NEW next \in Nat,
         \A i \in 1 .. n : out[i] \in Nat /\ out[i] < first,
         n + lost = first - 1, first <= next
  PROVE  /\ n + (lost + (next - first)) = next - 1
         /\ \A i \in 1 .. n : out[i] < next
<1>1. n + (lost + (next - first)) = next - 1
  OBVIOUS
<1>2. ASSUME NEW i \in 1 .. n PROVE out[i] < next
  <2>1. out[i] \in Nat /\ out[i] < first
    OBVIOUS
  <2> QED BY <2>1
<1> QED BY <1>1, <1>2

\* An item that comes out after earlier ones leaves them in their order.
LEMMA OutInOrder ==
  ASSUME NEW out \in Seq(Nat \ {0}), NEW first \in Nat \ {0},
         \A i, j \in 1 .. Len(out) : i < j => out[i] < out[j],
         \A i \in 1 .. Len(out) : out[i] < first
  PROVE  /\ Len(Append(out, first)) = Len(out) + 1
         /\ \A i, j \in 1 .. Len(Append(out, first)) :
              i < j => Append(out, first)[i] < Append(out, first)[j]
         /\ \A i \in 1 .. Len(Append(out, first)) : Append(out, first)[i] < first + 1
<1> DEFINE more == Append(out, first)
<1>1. /\ Len(out) \in Nat /\ Len(more) = Len(out) + 1
      /\ \A i \in 1 .. Len(out) : more[i] = out[i] /\ out[i] \in Nat
      /\ more[Len(out) + 1] = first
  BY LenProperties, AppendProperties, ElementOfSeq
<1> HIDE DEF more
<1>2. ASSUME NEW i \in 1 .. Len(more), NEW j \in 1 .. Len(more), i < j
      PROVE  more[i] < more[j]
  <2>1. i \in 1 .. Len(out)
    BY <1>1, <1>2
  <2>2. CASE j \in 1 .. Len(out)
    BY <1>1, <1>2, <2>1, <2>2
  <2>3. CASE j = Len(out) + 1
    BY <1>1, <2>1, <2>3
  <2> QED BY <1>1, <2>2, <2>3
<1>3. ASSUME NEW i \in 1 .. Len(more) PROVE more[i] < first + 1
  <2>1. CASE i \in 1 .. Len(out)
    BY <1>1, <2>1
  <2>2. CASE i = Len(out) + 1
    BY <1>1, <2>2
  <2> QED BY <1>1, <2>1, <2>2
<1> QED BY <1>1, <1>2, <1>3 DEF more

-----------------------------------------------------------------------------
(* FrameQueue *)

\* The queue holds the frames up to the newest one, without a gap.
QueueInv ==
  /\ frames \in Seq(Nat \ {0}) /\ Len(frames) <= QueueCapacity
  /\ framesIn \in 0 .. MaxPushes
  /\ droppedFrames \in Nat
  /\ framesOut \in Seq(Nat \ {0})
  /\ Len(frames) <= framesIn
  /\ \A i \in 1 .. Len(frames) : frames[i] = framesIn - Len(frames) + i

LEMMA QueueFacts ==
  ASSUME QueueInv
  PROVE  /\ QueueCapacity \in Nat \ {0} /\ MaxPushes \in Nat
         /\ Len(frames) \in Nat /\ framesIn \in Nat
         /\ frames # <<>> =>
              /\ Len(frames) > 0
              /\ Tail(frames) \in Seq(Nat \ {0})
              /\ Len(Tail(frames)) = Len(frames) - 1
              /\ \A i \in 1 .. Len(Tail(frames)) : Tail(frames)[i] = frames[i + 1]
              /\ Head(frames) = frames[1]
              /\ Head(frames) \in Nat \ {0}
BY HeadTailProperties, EmptySeq, LenProperties, FrameQueueAssumption DEF QueueInv

\* The frame a full queue keeps, and the one any queue is given.
LEMMA QueueGrows ==
  ASSUME QueueInv, NEW q \in Seq(Nat \ {0}), Len(q) < QueueCapacity,
         Len(q) <= framesIn,
         \A i \in 1 .. Len(q) : q[i] = framesIn - Len(q) + i
  PROVE  /\ Append(q, framesIn + 1) \in Seq(Nat \ {0})
         /\ Len(Append(q, framesIn + 1)) = Len(q) + 1
         /\ Len(q) \in Nat
         /\ \A i \in 1 .. Len(q) + 1 :
              Append(q, framesIn + 1)[i] = (framesIn + 1) - (Len(q) + 1) + i
<1>1. Len(q) \in Nat /\ framesIn \in Nat /\ framesIn + 1 \in Nat \ {0}
  BY LenProperties, QueueFacts
<1>2. /\ Append(q, framesIn + 1) \in Seq(Nat \ {0})
      /\ Len(Append(q, framesIn + 1)) = Len(q) + 1
      /\ \A i \in 1 .. Len(q) : Append(q, framesIn + 1)[i] = q[i]
      /\ Append(q, framesIn + 1)[Len(q) + 1] = framesIn + 1
  BY <1>1, AppendProperties
<1>3. ASSUME NEW i \in 1 .. Len(q) + 1
      PROVE  Append(q, framesIn + 1)[i] = (framesIn + 1) - (Len(q) + 1) + i
  <2>1. CASE i \in 1 .. Len(q)
    BY <1>1, <1>2, <2>1
  <2>2. CASE i = Len(q) + 1
    BY <1>1, <1>2, <2>2
  <2> QED BY <1>1, <2>1, <2>2
<1> QED BY <1>1, <1>2, <1>3

\* A push moves the window on by one frame, at the front as well if it is full.
LEMMA PushLatestRefined ==
  ASSUME QueueInv, PushLatest
  PROVE  QueueInv' /\ QueueWindow!Put
<1>0. QueueCapacity \in Nat \ {0} /\ Len(frames) \in Nat /\ framesIn \in Nat
  BY QueueFacts
<1>1. framesIn' = framesIn + 1 /\ framesIn' \in 0 .. MaxPushes /\ framesOut' = framesOut
  BY <1>0, QueueFacts DEF PushLatest
<1>2. CASE Full
  <2>1. frames # <<>>
    BY <1>0, <1>2 DEF Full
  <2>2. /\ Tail(frames) \in Seq(Nat \ {0}) /\ Len(Tail(frames)) = Len(frames) - 1
        /\ \A i \in 1 .. Len(Tail(frames)) :
             Tail(frames)[i] = framesIn - Len(Tail(frames)) + i
    BY <1>0, <2>1, QueueFacts DEF QueueInv
  <2>3. /\ frames' = Append(Tail(frames), framesIn + 1)
        /\ droppedFrames' = droppedFrames + 1
    BY <1>1, <1>2 DEF PushLatest, PopFront
  <2>4. Len(Tail(frames)) < QueueCapacity /\ Len(Tail(frames)) <= framesIn
    BY <1>0, <1>2, <2>2 DEF Full, QueueInv
  <2>5. /\ frames' \in Seq(Nat \ {0}) /\ Len(frames') = QueueCapacity
        /\ \A i \in 1 .. Len(frames') : frames'[i] = framesIn' - Len(frames') + i
    BY <1>0, <1>1, <1>2, <2>2, <2>3, <2>4, QueueGrows DEF Full
  <2>6. QueueInv'
    BY <1>0, <1>1, <1>2, <2>3, <2>5 DEF QueueInv, Full
  <2>7. QueueWindow!Put
    <3>1. framesIn - Len(frames) + 1 < framesIn + 1 - QueueCapacity + 1
      BY <1>0, <1>2 DEF Full
    <3>2. framesIn' - Len(frames') + 1 = framesIn + 1 - QueueCapacity + 1
      BY <1>0, <1>1, <2>5
    <3>3. droppedFrames' = droppedFrames + ((framesIn' - Len(frames') + 1)
                                              - (framesIn - Len(frames) + 1))
      BY <1>0, <1>2, <2>3, <3>2 DEF Full, QueueInv
    <3> QED BY <1>1, <3>1, <3>2, <3>3 DEF QueueWindow!Put, QueueWindow!OldestKept
  <2> QED BY <2>6, <2>7
<1>3. CASE ~Full
  <2>1. frames' = Append(frames, framesIn + 1) /\ droppedFrames' = droppedFrames
    BY <1>1, <1>3 DEF PushLatest
  <2>2. Len(frames) < QueueCapacity
    BY <1>0, <1>3 DEF Full, QueueInv
  <2>3. /\ frames' \in Seq(Nat \ {0}) /\ Len(frames') = Len(frames) + 1
        /\ \A i \in 1 .. Len(frames') : frames'[i] = framesIn' - Len(frames') + i
    <3>1. /\ frames \in Seq(Nat \ {0}) /\ Len(frames) <= framesIn
          /\ \A i \in 1 .. Len(frames) : frames[i] = framesIn - Len(frames) + i
      BY DEF QueueInv
    <3>2. /\ Append(frames, framesIn + 1) \in Seq(Nat \ {0})
          /\ Len(Append(frames, framesIn + 1)) = Len(frames) + 1
          /\ \A i \in 1 .. Len(frames) + 1 :
               Append(frames, framesIn + 1)[i] = (framesIn + 1) - (Len(frames) + 1) + i
      BY <2>2, <3>1, QueueGrows, Zenon
    <3> QED BY <1>0, <1>1, <2>1, <3>2
  <2>4. QueueInv'
    BY <1>0, <1>1, <2>1, <2>2, <2>3 DEF QueueInv
  <2>5. QueueWindow!Put
    <3>1. ~(framesIn - Len(frames) + 1 < framesIn + 1 - QueueCapacity + 1)
      BY <1>0, <2>2
    <3>2. framesIn' - Len(frames') + 1 = framesIn - Len(frames) + 1
      BY <1>0, <1>1, <2>3
    <3>3. droppedFrames' = droppedFrames + ((framesIn' - Len(frames') + 1)
                                              - (framesIn - Len(frames) + 1))
      BY <1>0, <2>1, <3>2 DEF QueueInv
    <3> QED BY <1>1, <3>1, <3>2, <3>3 DEF QueueWindow!Put, QueueWindow!OldestKept
  <2> QED BY <2>4, <2>5
<1> QED BY <1>2, <1>3

\* A pop takes the first frame of the window.
LEMMA PopRefined ==
  ASSUME QueueInv, Pop
  PROVE  QueueInv' /\ QueueWindow!Take
<1>1. /\ frames' = Tail(frames) /\ framesOut' = Append(framesOut, Head(frames))
      /\ UNCHANGED <<droppedFrames, framesIn>>
      /\ framesIn \in Nat
      /\ Len(frames) \in Nat /\ Len(frames) > 0
      /\ Tail(frames) \in Seq(Nat \ {0}) /\ Len(Tail(frames)) = Len(frames) - 1
      /\ \A i \in 1 .. Len(Tail(frames)) : Tail(frames)[i] = frames[i + 1]
      /\ Head(frames) = frames[1] /\ Head(frames) \in Nat \ {0}
  BY QueueFacts DEF Pop
<1>2. Head(frames) = framesIn - Len(frames) + 1
  BY <1>1 DEF QueueInv
<1>3. framesOut' \in Seq(Nat \ {0})
  BY <1>1, AppendProperties DEF QueueInv
<1>4. \A i \in 1 .. Len(frames') : frames'[i] = framesIn' - Len(frames') + i
  BY <1>1 DEF QueueInv
<1>5. QueueInv'
  BY <1>1, <1>3, <1>4, QueueFacts DEF QueueInv
<1>6. QueueWindow!Take
  BY <1>1, <1>2, QueueFacts DEF QueueWindow!Take, QueueInv
<1> QED BY <1>5, <1>6

\* The window invariant holds throughout.
LEMMA QueueInvHolds == QueueSpec => []QueueInv
<1>1. QueueInit => QueueInv
  <2>1. <<>> \in Seq(Nat \ {0}) /\ Len(<<>>) = 0
    BY EmptySeq
  <2> QED BY <2>1, FrameQueueAssumption DEF QueueInit, QueueInv
<1>2. QueueInv /\ [QueueNext]_queueVars => QueueInv'
  BY PushLatestRefined, PopRefined DEF QueueNext, Over, queueVars, QueueInv
<1> QED BY <1>1, <1>2, PTL DEF QueueSpec

\* Every variable keeps to its type and the queue to its capacity.
THEOREM QueueTypeCorrect == QueueSpec => []QueueTypeOK
<1>1. QueueInv => QueueTypeOK
  BY DEF QueueInv, QueueTypeOK
<1> QED BY <1>1, QueueInvHolds, PTL

\* The queue of whole frames implements the latest window, of any capacity: it
\* always holds the newest frames without a gap and accounts for the others.
THEOREM QueueIsWindow == QueueSpec => QueueImplementsWindow
<1>1. QueueInit => QueueWindow!Init
  <2>1. Len(<<>>) = 0
    BY EmptySeq
  <2> QED BY <2>1 DEF QueueInit, QueueWindow!Init
<1>2. QueueInv /\ [QueueNext]_queueVars => [QueueWindow!Next]_(QueueWindow!vars)
  <2> SUFFICES ASSUME QueueInv, [QueueNext]_queueVars PROVE [QueueWindow!Next]_(QueueWindow!vars)
    OBVIOUS
  <2>1. CASE PushLatest
    BY <2>1, PushLatestRefined DEF QueueWindow!Next
  <2>2. CASE Pop
    BY <2>2, PopRefined DEF QueueWindow!Next
  <2>3. CASE UNCHANGED queueVars
    BY <2>3 DEF queueVars, QueueWindow!vars
  <2> QED BY <2>1, <2>2, <2>3 DEF QueueNext, Over
<1> QED BY <1>1, <1>2, QueueInvHolds, PTL DEF QueueSpec, QueueImplementsWindow, QueueWindow!Spec

\* What that means for the queue's user: no frame is lost uncounted, none comes
\* out twice or before an older one, and no more than the capacity lie in it.
THEOREM QueueKeepsPromise == QueueSpec => []QueueWindow!Promise
<1>1. QueueInit => QueueWindow!Promise
  <2> SUFFICES ASSUME QueueInit PROVE QueueWindow!Promise
    OBVIOUS
  <2>1. Len(frames) = 0 /\ Len(framesOut) = 0 /\ framesIn = 0 /\ droppedFrames = 0
    BY EmptySeq DEF QueueInit
  <2> QED BY <2>1, FrameQueueAssumption DEF QueueWindow!Promise
<1>2. QueueInv /\ QueueWindow!Promise /\ [QueueNext]_queueVars => QueueWindow!Promise'
  <2> SUFFICES ASSUME QueueInv, QueueWindow!Promise, [QueueNext]_queueVars
               PROVE  QueueWindow!Promise'
    OBVIOUS
  <2> DEFINE first == framesIn - Len(frames) + 1
  <2>0. /\ QueueCapacity \in Nat \ {0} /\ Len(frames) \in Nat /\ framesIn \in Nat
        /\ Len(framesOut) \in Nat /\ droppedFrames \in Nat
        /\ first \in Nat \ {0} /\ framesOut \in Seq(Nat \ {0})
    BY QueueFacts, LenProperties DEF QueueInv
  <2>1. CASE PushLatest
    <3>1. QueueInv' /\ QueueWindow!Put
      BY <2>1, PushLatestRefined
    <3>2. Len(frames') <= QueueCapacity /\ Len(frames') \in Nat /\ framesIn' \in Nat
      BY <3>1, LenProperties DEF QueueInv
    <3>3. /\ framesOut' = framesOut /\ framesIn' = framesIn + 1
          /\ droppedFrames' = droppedFrames + (first' - first)
          /\ first <= first' /\ first' \in Nat
      BY <2>0, <3>1, <3>2 DEF QueueWindow!Put, QueueWindow!OldestKept
    <3>4. \A i \in 1 .. Len(framesOut) : framesOut[i] \in Nat
      BY <2>0, ElementOfSeq
    <3>5. /\ Len(framesOut) + droppedFrames = first - 1
          /\ \A i, j \in 1 .. Len(framesOut) : i < j => framesOut[i] < framesOut[j]
          /\ \A i \in 1 .. Len(framesOut) : framesOut[i] < first
      BY DEF QueueWindow!Promise
    <3>6. framesIn' - (framesIn' - Len(frames') + 1) + 1 <= QueueCapacity
      BY <2>0, <3>2
    <3>7. /\ Len(framesOut') + droppedFrames' = first' - 1
          /\ \A i \in 1 .. Len(framesOut') : framesOut'[i] < first'
      <4> HIDE DEF first
      <4>1. first \in Nat /\ \A i \in 1 .. Len(framesOut) : framesOut[i] \in Nat /\ framesOut[i] < first
        BY <2>0, <3>4, <3>5
      <4>2. /\ Len(framesOut) + (droppedFrames + (first' - first)) = first' - 1
            /\ \A i \in 1 .. Len(framesOut) : framesOut[i] < first'
        BY <2>0, <3>3, <3>5, <4>1, OldestForgotten
      <4> QED BY <3>3, <4>2
    <3> QED BY <3>3, <3>5, <3>6, <3>7 DEF QueueWindow!Promise
  <2>2. CASE Pop
    <3>1. QueueInv' /\ QueueWindow!Take
      BY <2>2, PopRefined
    <3>2. Len(frames') <= QueueCapacity /\ Len(frames') \in Nat /\ framesIn' \in Nat
      BY <3>1, LenProperties DEF QueueInv
    <3>3. /\ framesOut' = Append(framesOut, first) /\ first' = first + 1
          /\ framesIn' = framesIn /\ droppedFrames' = droppedFrames
      BY <3>1 DEF QueueWindow!Take
    <3>4. /\ \A i, j \in 1 .. Len(framesOut) : i < j => framesOut[i] < framesOut[j]
          /\ \A i \in 1 .. Len(framesOut) : framesOut[i] < first
      BY DEF QueueWindow!Promise
    <3> HIDE DEF first
    <3>5. /\ Len(framesOut') = Len(framesOut) + 1
          /\ \A i, j \in 1 .. Len(framesOut') : i < j => framesOut'[i] < framesOut'[j]
          /\ \A i \in 1 .. Len(framesOut') : framesOut'[i] < first'
      BY <2>0, <3>3, <3>4, OutInOrder, Zenon
    <3> USE DEF first
    <3>6. Len(framesOut') + droppedFrames' = first' - 1
      <4>1. Len(framesOut) + droppedFrames = first - 1
        BY DEF QueueWindow!Promise
      <4> HIDE DEF first
      <4> QED BY <2>0, <3>3, <3>5, <4>1
    <3> QED BY <3>2, <3>5, <3>6 DEF QueueWindow!Promise
  <2>3. CASE UNCHANGED queueVars
    BY <2>3 DEF queueVars, QueueWindow!Promise
  <2> QED BY <2>1, <2>2, <2>3 DEF QueueNext, Over
<1> QED BY <1>1, <1>2, QueueInvHolds, PTL DEF QueueSpec

-----------------------------------------------------------------------------
(* Playback *)

\* The buffer holds the samples up to the newest one, without a gap.
WindowInv ==
  /\ samples \in Seq(Nat \ {0}) /\ Len(samples) <= CapacitySamples
  /\ pushed \in Nat
  /\ droppedSamples \in Nat
  /\ popped \in Seq(Nat \ {0})
  /\ Len(samples) <= pushed
  /\ \A i \in 1 .. Len(samples) : samples[i] = pushed - Len(samples) + i

LEMMA BufferFacts ==
  ASSUME WindowInv
  PROVE  /\ FrameSamples \in Nat \ {0} /\ CapacitySamples \in Nat
         /\ FrameSamples <= CapacitySamples
         /\ Len(samples) \in Nat /\ Overflow \in Nat
         /\ Overflow <= Len(samples)
         /\ Len(samples) - Overflow + FrameSamples <= CapacitySamples
<1>1. FrameSamples \in Nat \ {0} /\ FrameCapacity \in Nat \ {0}
  BY PlaybackAssumption
<1>2. CapacitySamples \in Nat /\ FrameSamples <= CapacitySamples
  BY <1>1 DEF CapacitySamples
<1>3. Len(samples) \in Nat /\ Len(samples) <= CapacitySamples
  BY LenProperties DEF WindowInv
<1> QED BY <1>1, <1>2, <1>3 DEF Overflow

\* The samples kept when a frame comes in.
LEMMA SamplesKept ==
  ASSUME WindowInv, NEW n \in 0 .. Len(samples)
  PROVE  /\ WithoutOldest(n) \in Seq(Nat \ {0})
         /\ Len(WithoutOldest(n)) = Len(samples) - n
         /\ \A i \in 1 .. Len(samples) - n :
              WithoutOldest(n)[i] = pushed - (Len(samples) - n) + i
<1>1. /\ Len(samples) \in Nat /\ pushed \in Nat
      /\ \A i \in n + 1 .. Len(samples) : samples[i] \in Nat \ {0}
  BY LenProperties, ElementOfSeq DEF WindowInv
<1>2. /\ WithoutOldest(n) \in Seq(Nat \ {0})
      /\ Len(WithoutOldest(n)) = IF n + 1 <= Len(samples)
                                 THEN Len(samples) - (n + 1) + 1 ELSE 0
      /\ \A i \in 1 .. Len(samples) - (n + 1) + 1 :
           WithoutOldest(n)[i] = samples[n + 1 + i - 1]
  BY <1>1, SubSeqProperties DEF WithoutOldest
<1>3. Len(WithoutOldest(n)) = Len(samples) - n
  BY <1>1, <1>2
<1>4. ASSUME NEW i \in 1 .. Len(samples) - n
      PROVE  WithoutOldest(n)[i] = pushed - (Len(samples) - n) + i
  <2>1. WithoutOldest(n)[i] = samples[n + i] /\ n + i \in 1 .. Len(samples)
    BY <1>1, <1>2
  <2>2. samples[n + i] = pushed - Len(samples) + (n + i)
    BY <2>1 DEF WindowInv
  <2> QED BY <1>1, <2>1, <2>2
<1> QED BY <1>2, <1>3, <1>4

\* A frame moves the window on by its samples, and drops just enough.
LEMMA PushRefined ==
  ASSUME WindowInv, PushFrame
  PROVE  WindowInv' /\ Window!Put
<1> DEFINE batch == [i \in 1 .. FrameSamples |-> pushed + i]
           kept == WithoutOldest(Overflow)
           n == Len(samples) - Overflow
<1>0. /\ FrameSamples \in Nat \ {0} /\ CapacitySamples \in Nat
      /\ Len(samples) \in Nat /\ pushed \in Nat /\ droppedSamples \in Nat
      /\ Overflow \in 0 .. Len(samples)
      /\ n \in Nat /\ n + FrameSamples <= CapacitySamples /\ n <= pushed
      /\ n = Len(samples) - Overflow
  BY BufferFacts DEF WindowInv
<1>1. /\ samples' = kept \o batch
      /\ pushed' = pushed + FrameSamples /\ popped' = popped
      /\ droppedSamples' = droppedSamples + Overflow
  BY DEF PushFrame
<1>2. /\ kept \in Seq(Nat \ {0}) /\ Len(kept) = n
      /\ \A i \in 1 .. n : kept[i] = pushed - n + i
  BY <1>0, SamplesKept
<1>3. /\ batch \in Seq(Nat \ {0}) /\ Len(batch) = FrameSamples
      /\ \A i \in 1 .. FrameSamples : batch[i] = pushed + i
  <2>1. batch \in [1 .. FrameSamples -> Nat \ {0}]
    BY <1>0
  <2> QED BY <1>0, <2>1, SeqDef
<1> HIDE DEF batch, kept, n
<1>4. /\ samples' \in Seq(Nat \ {0}) /\ Len(samples') = n + FrameSamples
      /\ \A i \in 1 .. n + FrameSamples :
           samples'[i] = IF i <= n THEN kept[i] ELSE batch[i - n]
  <2>1. kept \in Seq(Nat \ {0}) /\ batch \in Seq(Nat \ {0})
    BY <1>2, <1>3
  <2>2. /\ kept \o batch \in Seq(Nat \ {0})
        /\ Len(kept \o batch) = Len(kept) + Len(batch)
        /\ \A i \in 1 .. Len(kept) + Len(batch) :
             (kept \o batch)[i] = IF i <= Len(kept) THEN kept[i] ELSE batch[i - Len(kept)]
    BY <2>1, ConcatProperties, Zenon
  <2>3. Len(kept) = n /\ Len(batch) = FrameSamples /\ samples' = kept \o batch
    BY <1>1, <1>2, <1>3
  <2> QED BY <2>2, <2>3
<1>5. \A i \in 1 .. Len(samples') : samples'[i] = pushed' - Len(samples') + i
  <2> SUFFICES ASSUME NEW i \in 1 .. n + FrameSamples
               PROVE  samples'[i] = pushed' - (n + FrameSamples) + i
    BY <1>4
  <2>1. pushed' - (n + FrameSamples) + i = pushed - n + i
    BY <1>0, <1>1
  <2>2. CASE i <= n
    BY <1>0, <1>2, <1>4, <2>1, <2>2
  <2>3. CASE ~(i <= n)
    <3>1. i - n \in 1 .. FrameSamples
      BY <1>0, <2>3
    <3>2. batch[i - n] = pushed + (i - n)
      BY <1>3, <3>1
    <3> QED BY <1>0, <1>4, <2>1, <2>3, <3>2
  <2> QED BY <2>2, <2>3
<1>6. WindowInv'
  <2>1. CapacitySamples' = CapacitySamples
    BY DEF CapacitySamples
  <2>2. popped' \in Seq(Nat \ {0})
    BY <1>1 DEF WindowInv
  <2>3. /\ Len(samples') <= CapacitySamples /\ Len(samples') <= pushed'
        /\ pushed' \in Nat /\ droppedSamples' \in Nat
    BY <1>0, <1>1, <1>4
  <2> QED BY <1>4, <1>5, <2>1, <2>2, <2>3 DEF WindowInv
<1>7. Window!Put
  <2> DEFINE first == pushed - Len(samples) + 1
             oldestKept == pushed + FrameSamples - CapacitySamples + 1
  <2>1. pushed' - Len(samples') + 1 = first + Overflow
    BY <1>0, <1>1, <1>4
  <2>2. first + Overflow = IF first < oldestKept THEN oldestKept ELSE first
    <3>1. CASE Len(samples) + FrameSamples - CapacitySamples > 0
      <4>1. Overflow = Len(samples) + FrameSamples - CapacitySamples
        BY <3>1 DEF Overflow
      <4>2. first < oldestKept /\ first + Overflow = oldestKept
        BY <1>0, <3>1, <4>1
      <4> QED BY <4>2
    <3>2. CASE ~(Len(samples) + FrameSamples - CapacitySamples > 0)
      <4>1. Overflow = 0
        BY <3>2 DEF Overflow
      <4>2. ~(first < oldestKept) /\ first + Overflow = first
        BY <1>0, <3>2, <4>1
      <4> QED BY <4>2
    <3> QED BY <3>1, <3>2
  <2>3. droppedSamples' = droppedSamples + ((pushed' - Len(samples') + 1) - first)
    <3>1. first \in Int /\ Overflow \in Int
      BY <1>0
    <3>2. (first + Overflow) - first = Overflow
      BY <3>1
    <3> QED BY <1>1, <2>1, <3>2
  <2> QED BY <1>1, <2>1, <2>2, <2>3
          DEF Window!Put, Window!OldestKept, CapacitySamples
<1> QED BY <1>6, <1>7

\* The device takes the first sample of the window, or finds it empty.
LEMMA OutputRefined ==
  ASSUME WindowInv, OutputSample
  PROVE  WindowInv' /\ (Window!Take \/ UNCHANGED Window!vars)
<1>1. CASE UNCHANGED <<samples, popped, droppedSamples, pushed>>
  BY <1>1 DEF WindowInv, Window!vars, CapacitySamples
<1>2. CASE /\ samples # <<>> /\ samples' = Tail(samples)
           /\ popped' = Append(popped, Head(samples))
           /\ UNCHANGED <<droppedSamples, pushed>>
  <2>1. /\ Len(samples) \in Nat /\ Len(samples) > 0 /\ CapacitySamples \in Nat
        /\ Tail(samples) \in Seq(Nat \ {0})
        /\ Len(Tail(samples)) = Len(samples) - 1
        /\ \A i \in 1 .. Len(Tail(samples)) : Tail(samples)[i] = samples[i + 1]
        /\ Head(samples) = samples[1] /\ Head(samples) \in Nat \ {0}
    BY <1>2, BufferFacts, HeadTailProperties, EmptySeq DEF WindowInv
  <2>2. pushed \in Nat /\ Head(samples) = pushed - Len(samples) + 1
    BY <2>1 DEF WindowInv
  <2>3. popped' \in Seq(Nat \ {0})
    BY <1>2, <2>1, AppendProperties DEF WindowInv
  <2>4. \A i \in 1 .. Len(samples') : samples'[i] = pushed' - Len(samples') + i
    BY <1>2, <2>1, <2>2 DEF WindowInv
  <2>5. WindowInv'
    BY <1>2, <2>1, <2>3, <2>4 DEF WindowInv, CapacitySamples
  <2>6. Window!Take
    BY <1>2, <2>1, <2>2 DEF Window!Take, WindowInv
  <2> QED BY <2>5, <2>6
<1> QED BY <1>1, <1>2 DEF OutputSample

\* The window invariant holds throughout.
LEMMA WindowHolds == Spec => []WindowInv
<1>1. Init => WindowInv
  <2>1. <<>> \in Seq(Nat \ {0}) /\ Len(<<>>) = 0
    BY EmptySeq
  <2>2. CapacitySamples \in Nat
    BY PlaybackAssumption DEF CapacitySamples
  <2> QED BY <2>1, <2>2 DEF Init, WindowInv
<1>2. WindowInv /\ [Next]_vars => WindowInv'
  <2>1. WindowInv /\ (OutputBegins \/ OutputEnds \/ UNCHANGED vars) => WindowInv'
    BY DEF OutputBegins, OutputEnds, vars, WindowInv, CapacitySamples
  <2> QED BY <2>1, PushRefined, OutputRefined DEF Next
<1> QED BY <1>1, <1>2, PTL DEF Spec

\* The output callback's own variables.
OutputTypeOK ==
  /\ lock \in {"free", "output"}
  /\ phase \in 0 .. PhaseLimit
  /\ current \in Nat

\* Every variable keeps to its type, and the buffer to its capacity; the phase
\* keeps under its limit for every pair of rates.
THEOREM TypeCorrect == Spec => []TypeOK
<1>1. Init => OutputTypeOK
  BY PlaybackAssumption DEF Init, OutputTypeOK, Silence
<1>2. WindowInv /\ OutputTypeOK /\ [Next]_vars => OutputTypeOK'
  <2> SUFFICES ASSUME WindowInv, OutputTypeOK, [Next]_vars PROVE OutputTypeOK'
    OBVIOUS
  <2>1. CASE OutputSample
    <3>1. Advanced \in 0 .. PhaseLimit
      BY PlaybackAssumption DEF Advanced, OutputTypeOK
    <3>2. phase' \in 0 .. PhaseLimit
      BY <2>1, <3>1, PlaybackAssumption DEF OutputSample
    <3>3. samples # <<>> => Head(samples) \in Nat
      BY HeadTailProperties DEF WindowInv
    <3>4. current' \in Nat
      BY <2>1, <3>3 DEF OutputSample, OutputTypeOK, Silence
    <3> QED BY <2>1, <3>2, <3>4 DEF OutputSample, OutputTypeOK
  <2>2. CASE PushFrame \/ OutputBegins \/ OutputEnds \/ UNCHANGED vars
    BY <2>2 DEF PushFrame, OutputBegins, OutputEnds, vars, OutputTypeOK
  <2> QED BY <2>1, <2>2 DEF Next
<1>3. WindowInv /\ OutputTypeOK => TypeOK
  BY DEF WindowInv, OutputTypeOK, TypeOK
<1> QED BY <1>1, <1>2, <1>3, WindowHolds, PTL DEF Spec

\* The playback buffer implements the latest window, whatever the frame length,
\* the capacity and the device's rate.
THEOREM BufferIsWindow == Spec => ImplementsWindow
<1>1. Init => Window!Init
  <2>1. Len(<<>>) = 0
    BY EmptySeq
  <2> QED BY <2>1 DEF Init, Window!Init
<1>2. WindowInv /\ [Next]_vars => [Window!Next]_(Window!vars)
  <2> SUFFICES ASSUME WindowInv, [Next]_vars PROVE [Window!Next]_(Window!vars)
    OBVIOUS
  <2>1. CASE PushFrame
    BY <2>1, PushRefined DEF Window!Next
  <2>2. CASE OutputSample
    BY <2>2, OutputRefined DEF Window!Next
  <2>3. CASE OutputBegins \/ OutputEnds \/ UNCHANGED vars
    BY <2>3
       DEF OutputBegins, OutputEnds, vars, CapacitySamples, Window!vars
  <2> QED BY <2>1, <2>2, <2>3 DEF Next
<1> QED BY <1>1, <1>2, WindowHolds, PTL DEF Spec, ImplementsWindow, Window!Spec

\* What that means for the listener: no sample is lost uncounted, none is played
\* twice or before an older one, and no more than the capacity wait.
THEOREM BufferKeepsPromise == Spec => []Window!Promise
<1>1. Init => Window!Promise
  <2> SUFFICES ASSUME Init PROVE Window!Promise
    OBVIOUS
  <2>1. Len(samples) = 0 /\ Len(popped) = 0 /\ pushed = 0 /\ droppedSamples = 0
    BY EmptySeq DEF Init
  <2>2. CapacitySamples \in Nat
    BY PlaybackAssumption DEF CapacitySamples
  <2> QED BY <2>1, <2>2 DEF Window!Promise
<1>2. WindowInv /\ Window!Promise /\ [Next]_vars => Window!Promise'
  <2> SUFFICES ASSUME WindowInv, Window!Promise, [Next]_vars PROVE Window!Promise'
    OBVIOUS
  <2> DEFINE first == pushed - Len(samples) + 1
  <2>0. /\ CapacitySamples \in Nat /\ Len(samples) \in Nat /\ pushed \in Nat
        /\ Len(popped) \in Nat /\ droppedSamples \in Nat
        /\ first \in Nat \ {0} /\ popped \in Seq(Nat \ {0})
        /\ CapacitySamples' = CapacitySamples
    BY BufferFacts, LenProperties DEF WindowInv, CapacitySamples
  <2>1. CASE PushFrame
    <3>1. WindowInv' /\ Window!Put
      BY <2>1, PushRefined
    <3>2. Len(samples') <= CapacitySamples /\ Len(samples') \in Nat /\ pushed' \in Nat
      BY <2>0, <3>1, LenProperties DEF WindowInv
    <3>3. /\ popped' = popped
          /\ droppedSamples' = droppedSamples + (first' - first)
          /\ first <= first' /\ first' \in Nat
      <4>1. /\ popped' = popped
            /\ droppedSamples' = droppedSamples + (first' - first)
            /\ first' = IF first < Window!OldestKept THEN Window!OldestKept ELSE first
        BY <3>1 DEF Window!Put
      <4>2. first' \in Int
        BY <3>2
      <4> HIDE DEF first
      <4> QED BY <2>0, <4>1, <4>2
    <3>4. \A i \in 1 .. Len(popped) : popped[i] \in Nat
      BY <2>0, ElementOfSeq
    <3>5. /\ Len(popped) + droppedSamples = first - 1
          /\ \A i, j \in 1 .. Len(popped) : i < j => popped[i] < popped[j]
          /\ \A i \in 1 .. Len(popped) : popped[i] < first
      BY DEF Window!Promise
    <3>6. pushed' - (pushed' - Len(samples') + 1) + 1 <= CapacitySamples'
      BY <2>0, <3>2
    <3>7. /\ Len(popped') + droppedSamples' = first' - 1
          /\ \A i \in 1 .. Len(popped') : popped'[i] < first'
      <4> HIDE DEF first
      <4>1. first \in Nat /\ \A i \in 1 .. Len(popped) : popped[i] \in Nat /\ popped[i] < first
        BY <2>0, <3>4, <3>5
      <4>2. /\ Len(popped) + (droppedSamples + (first' - first)) = first' - 1
            /\ \A i \in 1 .. Len(popped) : popped[i] < first'
        BY <2>0, <3>3, <3>5, <4>1, OldestForgotten
      <4> QED BY <3>3, <4>2
    <3> QED BY <3>3, <3>5, <3>6, <3>7 DEF Window!Promise
  <2>2. CASE OutputSample /\ Window!Take
    <3>1. WindowInv'
      BY <2>2, OutputRefined
    <3>2. Len(samples') <= CapacitySamples /\ Len(samples') \in Nat /\ pushed' \in Nat
      BY <2>0, <3>1, LenProperties DEF WindowInv
    <3>3. /\ popped' = Append(popped, first) /\ first' = first + 1
          /\ pushed' = pushed /\ droppedSamples' = droppedSamples
      BY <2>2 DEF Window!Take
    <3>4. /\ Len(popped) + droppedSamples = first - 1
          /\ \A i, j \in 1 .. Len(popped) : i < j => popped[i] < popped[j]
          /\ \A i \in 1 .. Len(popped) : popped[i] < first
      BY DEF Window!Promise
    <3>5. pushed' - (pushed' - Len(samples') + 1) + 1 <= CapacitySamples'
      BY <2>0, <3>2
    <3> HIDE DEF first
    <3>6. /\ Len(popped') = Len(popped) + 1
          /\ \A i, j \in 1 .. Len(popped') : i < j => popped'[i] < popped'[j]
          /\ \A i \in 1 .. Len(popped') : popped'[i] < first'
      BY <2>0, <3>3, <3>4, OutInOrder, Zenon
    <3>7. Len(popped') + droppedSamples' = first' - 1
      BY <2>0, <3>3, <3>4, <3>6
    <3> USE DEF first
    <3> QED BY <3>5, <3>6, <3>7 DEF Window!Promise
  <2>3. CASE OutputBegins \/ OutputEnds \/ UNCHANGED vars
    BY <2>0, <2>3 DEF OutputBegins, OutputEnds, vars, Window!Promise
  <2>4. CASE UNCHANGED Window!vars
    BY <2>0, <2>4 DEF Window!vars, Window!Promise
  <2> QED BY <2>1, <2>2, <2>3, <2>4, OutputRefined DEF Next
<1> QED BY <1>1, <1>2, WindowHolds, PTL DEF Spec

=============================================================================
