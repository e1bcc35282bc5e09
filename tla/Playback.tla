------------------------------ MODULE Playback ------------------------------
(***************************************************************************)
(* The loudspeaker path of the desktop client: the UI thread puts received *)
(* frames into the PlaybackBuffer, and the audio device's callback thread  *)
(* takes samples out at the device's rate.  A mutex guards the buffer; the *)
(* callback holds it for all the data it is asked for.                     *)
(*                                                                         *)
(* A sample is known by its number in the order of the pushes.             *)
(***************************************************************************)
EXTENDS Integers, Sequences

CONSTANTS
  PcmRate,         \* PCM_SAMPLE_RATE, 8000 in the code
  OutputRate,      \* the device's sample rate
  PhaseLimit,      \* u32::MAX, where the phase saturates
  FrameSamples,    \* PCM_FRAME_SAMPLES, 160 in the code
  FrameCapacity,   \* PLAYBACK_QUEUE_FRAMES, 12 in the code
  MaxFrames        \* bound: frames pushed in a behaviour

ASSUME PlaybackAssumption ==
  /\ PcmRate \in Nat \ {0}
  /\ OutputRate \in Nat \ {0}
  /\ PhaseLimit \in Nat /\ PhaseLimit >= OutputRate
  /\ FrameSamples \in Nat \ {0}
  /\ FrameCapacity \in Nat \ {0}
  /\ MaxFrames \in Nat

VARIABLES
  samples,         \* PlaybackBuffer.samples
  droppedSamples,  \* PlaybackBuffer.dropped_samples
  lock,            \* who holds the mutex between steps: "free" or "output"
  phase,           \* the output callback's resampling phase
  current,         \* the sample it repeats until the next, 0 for silence
  pushed,          \* history: samples pushed
  popped           \* history: samples popped, in order

vars == <<samples, droppedSamples, lock, phase, current, pushed, popped>>

CapacitySamples == FrameCapacity * FrameSamples
MaxSamples == MaxFrames * FrameSamples
Silence == 0

-----------------------------------------------------------------------------
(* The UI thread *)

\* The room not checked.
NoOverflow == 0

\* How many samples must go for a frame to fit.
Overflow ==
  LET excess == Len(samples) + FrameSamples - CapacitySamples IN
    IF excess > 0 THEN excess ELSE 0

\* So many popped off the back.
WithoutNewest(n) == SubSeq(samples, 1, Len(samples) - n)

\* So many popped off the front.
WithoutOldest(n) == SubSeq(samples, n + 1, Len(samples))

\* queue_playback_frame and push_pcm_frame, for a frame of the right length;
\* any other is refused and changes nothing.
PushFrame ==
  /\ lock = "free"
  /\ pushed < MaxSamples
  /\ pushed' = pushed + FrameSamples
  /\ samples' = WithoutOldest(Overflow) \o [i \in 1 .. FrameSamples |-> pushed + i]
  /\ droppedSamples' = droppedSamples + Overflow
  /\ UNCHANGED <<lock, phase, current, popped>>

-----------------------------------------------------------------------------
(* The output callback thread *)

OutputBegins ==
  /\ lock = "free"
  /\ lock' = "output"
  /\ UNCHANGED <<samples, droppedSamples, phase, current, pushed, popped>>

\* The phase begun afresh for every device frame.
Restarted == PcmRate

\* phase.saturating_add(PCM_SAMPLE_RATE)
Advanced == IF phase + PcmRate > PhaseLimit THEN PhaseLimit ELSE phase + PcmRate

\* One device frame: the sample held so far, or the next one, which is silence
\* when the buffer has run dry.
OutputSample ==
  /\ lock = "output"
  /\ \/ /\ Advanced < OutputRate
        /\ phase' = Advanced
        /\ UNCHANGED <<samples, current, popped>>
     \/ /\ Advanced >= OutputRate
        /\ phase' = Advanced - OutputRate
        /\ \/ /\ samples # <<>>
              /\ current' = Head(samples)
              /\ samples' = Tail(samples)
              /\ popped' = Append(popped, Head(samples))
           \/ /\ samples = <<>>
              /\ current' = Silence
              /\ UNCHANGED <<samples, popped>>
  /\ UNCHANGED <<droppedSamples, lock, pushed>>

OutputEnds ==
  /\ lock = "output"
  /\ lock' = "free"
  /\ UNCHANGED <<samples, droppedSamples, phase, current, pushed, popped>>

-----------------------------------------------------------------------------

Init ==
  /\ samples = <<>>
  /\ droppedSamples = 0
  /\ lock = "free"
  /\ phase = 0
  /\ current = Silence
  /\ pushed = 0
  /\ popped = <<>>

Next == PushFrame \/ OutputBegins \/ OutputSample \/ OutputEnds

Spec == Init /\ [][Next]_vars

\* The device goes on asking for data: it calls back, each call is for at
\* least one device frame and for finitely many.  Nothing obliges the relay to
\* bring frames.
Fairness ==
  /\ WF_vars(OutputBegins)
  /\ SF_vars(OutputSample)
  /\ WF_vars(OutputEnds)

FairSpec == Spec /\ Fairness

-----------------------------------------------------------------------------
(* Properties *)

\* Every variable keeps to its type, and the buffer to its capacity.
TypeOK ==
  /\ samples \in Seq(Nat \ {0}) /\ Len(samples) <= CapacitySamples
  /\ droppedSamples \in Nat
  /\ lock \in {"free", "output"}
  /\ phase \in 0 .. PhaseLimit
  /\ current \in Nat
  /\ pushed \in Nat
  /\ popped \in Seq(Nat \ {0})

\* "On overflow, old samples are removed so the output catches up": the buffer
\* holds exactly the newest samples that were not played, plays them in their
\* order, each once, never one that CapacitySamples newer ones follow, and its
\* count of dropped samples accounts for every other sample.
Window ==
  INSTANCE LatestWindow WITH
    Capacity <- CapacitySamples,
    Batch <- FrameSamples,
    put <- pushed,
    first <- pushed - Len(samples) + 1,
    forgotten <- droppedSamples,
    out <- popped

ImplementsWindow == Window!Spec

\* Speech that was queued does not stay behind: every sample is played or
\* dropped, whatever the ratio of the two rates.
SpeechMovesOn ==
  \A k \in 1 .. MaxSamples : (pushed >= k) ~> (pushed - Len(samples) >= k)

=============================================================================
