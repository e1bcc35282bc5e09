------------------------------- MODULE Capture -------------------------------
(***************************************************************************)
(* The microphone path of the desktop client: the audio device's callback  *)
(* thread resamples what it hears into PCM frames (CaptureFrameAssembler)  *)
(* and offers them to a bounded channel; the UI thread empties the channel *)
(* when PTT is pressed and, on every timer tick while PTT is active, hands *)
(* a few frames to the relay session.                                      *)
(*                                                                         *)
(* A sample is known by the number of the device sample it was made from,  *)
(* a frame by the first and the last of its samples.                       *)
(***************************************************************************)
EXTENDS Integers, Sequences

CONSTANTS
  PcmRate,         \* PCM_SAMPLE_RATE, 8000 in the code
  InputRate,       \* the device's sample rate
  PhaseLimit,      \* u32::MAX, where the phase saturates
  FrameSamples,    \* PCM_FRAME_SAMPLES, 160 in the code
  QueueCapacity,   \* CAPTURE_QUEUE_CAPACITY, 8 in the code
  FramesPerTick,   \* frames one timer tick takes at most, 4 in the code
  MaxHeard,        \* bound: device samples in a behaviour
  MaxPresses       \* bound: PTT presses in a behaviour

ASSUME CaptureAssumption ==
  /\ PcmRate \in Nat \ {0}
  /\ InputRate \in Nat \ {0}
  /\ FrameSamples \in Nat \ {0}
  /\ QueueCapacity \in Nat \ {0}
  /\ FramesPerTick \in Nat \ {0}
  /\ PhaseLimit \in Nat /\ PhaseLimit >= InputRate
  /\ MaxHeard \in Nat
  /\ MaxPresses \in Nat

VARIABLES
  heard,      \* device samples the callback was given so far
  phase,      \* CaptureFrameAssembler.phase
  frame,      \* CaptureFrameAssembler.frame: numbers of its samples
  mic,        \* the callback: "assembling" its data, or "offering" frames
  ready,      \* the complete frames it has still to offer
  queue,      \* the capture channel
  pttActive,  \* the flag ptt_active
  ui,         \* the UI thread: "idle", or inside a press or a tick
  budget,     \* frames the tick under way may still take
  presses,    \* presses so far
  pressedAt,  \* history: samples heard when PTT was last pressed
  emitted,    \* history: samples the assembler made
  stale,      \* history: frames some press found in the channel
  sent        \* history: frames handed to the session, in order

micVars == <<heard, phase, frame, mic, ready, emitted>>
uiVars == <<pttActive, ui, budget, presses, pressedAt, stale, sent>>
vars == <<micVars, uiVars, queue>>

Frame == [first : Nat \ {0}, last : Nat \ {0}]

-----------------------------------------------------------------------------
(* The callback thread *)

\* phase.saturating_add(PCM_SAMPLE_RATE)
Advanced == IF phase + PcmRate > PhaseLimit THEN PhaseLimit ELSE phase + PcmRate

\* The remainder thrown away after a sample.
Restarted == 0

\* The remainder carried over to the next sample.
Carried == Advanced - InputRate

\* A full frame not cleared once it was encoded.
KeptFrame(s) == s

\* self.frame.clear()
ClearedFrame(s) == <<>>

\* encode_pcm_frame of the samples of a full frame.
Framed(s) == [first |-> s[1], last |-> s[FrameSamples]]

\* The loop body of push_interleaved_f32, for one device sample.
HearSample ==
  /\ mic = "assembling"
  /\ heard < MaxHeard
  /\ heard' = heard + 1
  /\ \/ /\ Advanced < InputRate
        /\ phase' = Advanced
        /\ UNCHANGED <<frame, ready, emitted>>
     \/ /\ Advanced >= InputRate
        /\ phase' = Carried
        /\ emitted' = emitted + 1
        /\ LET longer == Append(frame, heard') IN
             IF Len(longer) = FrameSamples
             THEN frame' = ClearedFrame(longer) /\ ready' = Append(ready, Framed(longer))
             ELSE frame' = longer /\ UNCHANGED ready
  /\ UNCHANGED <<mic, uiVars, queue>>

\* The device's data ends, with frames completed from it.
DataEnds ==
  /\ mic = "assembling"
  /\ ready # <<>>
  /\ mic' = "offering"
  /\ UNCHANGED <<heard, phase, frame, ready, emitted, uiVars, queue>>

\* sender.try_send(frame), whose failure is ignored: a full channel keeps the
\* frames it has, not (as FrameQueue would) the newest.
OfferFrame ==
  /\ mic = "offering"
  /\ ready' = Tail(ready)
  /\ mic' = IF ready' = <<>> THEN "assembling" ELSE mic
  /\ \/ /\ Len(queue) < QueueCapacity
        /\ queue' = Append(queue, Head(ready))
     \/ /\ Len(queue) = QueueCapacity
        /\ UNCHANGED queue
  /\ UNCHANGED <<heard, phase, frame, emitted, uiVars>>

-----------------------------------------------------------------------------
(* The UI thread *)

\* ptt_pressed, once its early returns are behind it.
Press ==
  /\ ui = "idle"
  /\ presses < MaxPresses
  /\ presses' = presses + 1
  /\ ui' = "pressing"
  /\ pressedAt' = heard
  /\ stale' = stale \union {queue[i] : i \in DOMAIN queue}
  /\ UNCHANGED <<micVars, pttActive, budget, sent, queue>>

\* discard_capture_frames with one try_recv instead of a loop of them.
DiscardOne ==
  /\ ui = "pressing"
  /\ queue' = IF queue = <<>> THEN <<>> ELSE Tail(queue)
  /\ ui' = "requesting"
  /\ UNCHANGED <<micVars, pttActive, budget, presses, pressedAt, stale, sent>>

\* discard_capture_frames: try_recv until the channel is found empty.
Discard ==
  /\ ui = "pressing"
  /\ \/ /\ queue # <<>>
        /\ queue' = Tail(queue)
        /\ UNCHANGED ui
     \/ /\ queue = <<>>
        /\ ui' = "requesting"
        /\ UNCHANGED queue
  /\ UNCHANGED <<micVars, pttActive, budget, presses, pressedAt, stale, sent>>

\* CodecConfig and PttOn, accepted by the session; or refused, without a
\* session or by its full channel, which leaves the flag as it was.
Request ==
  /\ ui = "requesting"
  /\ ui' = "idle"
  /\ pttActive' \in {TRUE, pttActive}
  /\ UNCHANGED <<micVars, budget, presses, pressedAt, stale, sent, queue>>

\* ptt_released
Release ==
  /\ ui = "idle"
  /\ pttActive' = FALSE
  /\ UNCHANGED <<micVars, ui, budget, presses, pressedAt, stale, sent, queue>>

\* The timer fires; it does nothing here unless PTT is active.
Tick ==
  /\ ui = "idle"
  /\ pttActive
  /\ ui' = "ticking"
  /\ budget' = FramesPerTick
  /\ UNCHANGED <<micVars, pttActive, presses, pressedAt, stale, sent, queue>>

\* The channel read from the wrong end.
NewestFrame == queue[Len(queue)]

\* try_next_capture_frame
OldestFrame == Head(queue)

\* try_next_capture_frame and send_pcm_frame: the frame goes to the session,
\* or nowhere, without a session or with its command channel full.
TakeFrame ==
  /\ ui = "ticking"
  /\ budget > 0
  /\ queue # <<>>
  /\ queue' = Tail(queue)
  /\ budget' = budget - 1
  /\ \/ sent' = Append(sent, [frame |-> OldestFrame, pressedAt |-> pressedAt])
     \/ UNCHANGED sent
  /\ UNCHANGED <<micVars, pttActive, ui, presses, pressedAt, stale>>

\* The tick has taken as many as it may, or found the channel empty.
TickEnds ==
  /\ ui = "ticking"
  /\ budget = 0 \/ queue = <<>>
  /\ ui' = "idle"
  /\ budget' = 0
  /\ UNCHANGED <<micVars, pttActive, presses, pressedAt, stale, sent, queue>>

-----------------------------------------------------------------------------

Init ==
  /\ heard = 0
  /\ phase = 0
  /\ frame = <<>>
  /\ mic = "assembling"
  /\ ready = <<>>
  /\ queue = <<>>
  /\ pttActive = FALSE
  /\ ui = "idle"
  /\ budget = 0
  /\ presses = 0
  /\ pressedAt = 0
  /\ emitted = 0
  /\ stale = {}
  /\ sent = <<>>

Next ==
  \/ HearSample
  \/ DataEnds
  \/ OfferFrame
  \/ Press
  \/ Discard
  \/ Request
  \/ Release
  \/ Tick
  \/ TakeFrame
  \/ TickEnds

Spec == Init /\ [][Next]_vars

-----------------------------------------------------------------------------
(* Properties *)

\* Every variable keeps to its type, the channel to its capacity, and the
\* assembler to less than a frame ("without buffering more than one frame").
TypeOK ==
  /\ heard \in 0 .. MaxHeard
  /\ phase \in 0 .. PhaseLimit
  /\ frame \in Seq(1 .. MaxHeard) /\ Len(frame) < FrameSamples
  /\ mic \in {"assembling", "offering"}
  /\ ready \in Seq(Frame) /\ (mic = "offering" => ready # <<>>)
  /\ queue \in Seq(Frame) /\ Len(queue) <= QueueCapacity
  /\ pttActive \in BOOLEAN
  /\ ui \in {"idle", "pressing", "requesting", "ticking"}
  /\ budget \in 0 .. FramesPerTick
  /\ presses \in 0 .. MaxPresses
  /\ pressedAt \in 0 .. MaxHeard
  /\ emitted \in Nat
  /\ stale \subseteq Frame
  /\ sent \in Seq([frame : Frame, pressedAt : 0 .. MaxHeard])

\* The resampling neither drifts nor rounds away: of n device samples the
\* assembler makes the n-th part of the rates' quotient, rounded down, at
\* every moment and for every rate from PCM_SAMPLE_RATE up.
RateIsExact ==
  InputRate \in PcmRate .. PhaseLimit - PcmRate =>
    emitted = (PcmRate * heard) \div InputRate

\* A frame that lay in the channel when PTT was pressed is never transmitted,
\* however the discarding races with the callback that refills the channel.
StaleFramesAreDropped ==
  \A i \in DOMAIN sent : sent[i].frame \notin stale

\* What is transmitted is in the order it was spoken and says nothing twice,
\* whatever was dropped in between.
SpokenOrder ==
  \A i, j \in DOMAIN sent : i < j => sent[i].frame.last < sent[j].frame.first

\* discard_capture_frames: "Drops stale microphone frames collected while PTT
\* was inactive".  Then no transmitted frame ends before the press.
NothingFromBeforePress ==
  \A i \in DOMAIN sent : sent[i].frame.last > sent[i].pressedAt

=============================================================================
