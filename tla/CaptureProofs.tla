---------------------------- MODULE CaptureProofs ----------------------------
(***************************************************************************)
(* What is proved of Capture for every sample rate, frame length, capacity *)
(* and bound.                                                              *)
(***************************************************************************)
EXTENDS Capture, SequenceTheorems, TLAPS

-----------------------------------------------------------------------------
(* The rate *)

\* Division by a positive number has one quotient and one remainder.
LEMMA Quotient ==
  ASSUME NEW d \in Nat \ {0}, NEW q \in Nat, NEW r \in 0 .. d - 1, NEW n \in Nat,
         n = d * q + r
  PROVE  q = n \div d
<1> DEFINE p == n \div d
<1>1. p \in Int /\ d * p <= n /\ n < d * (p + 1)
  OBVIOUS
<1> HIDE DEF p
<1>2. ASSUME q < p PROVE FALSE
  <2>1. d * (q + 1) <= d * p
    BY <1>1, <1>2
  <2> QED BY <1>1, <2>1
<1>3. ASSUME p < q PROVE FALSE
  <2>1. d * (p + 1) <= d * q
    BY <1>1, <1>3
  <2> QED BY <1>1, <2>1
<1> QED BY <1>1, <1>2, <1>3 DEF p

\* Why the rate is exact: the phase is what the samples made so far leave over,
\* and it is always less than one of them is worth.
PhaseInv ==
  /\ heard \in Nat /\ emitted \in Nat /\ phase \in Nat
  /\ InputRate \in PcmRate .. PhaseLimit - PcmRate =>
       /\ phase < InputRate
       /\ PcmRate * heard = InputRate * emitted + phase

LEMMA PhaseStep == PhaseInv /\ [Next]_vars => PhaseInv'
<1> SUFFICES ASSUME PhaseInv, [Next]_vars PROVE PhaseInv'
  OBVIOUS
<1>0. /\ PcmRate \in Nat \ {0} /\ InputRate \in Nat \ {0}
      /\ PhaseLimit \in Nat /\ PhaseLimit >= InputRate
  BY CaptureAssumption
<1>1. CASE HearSample
  <2> DEFINE fits == InputRate \in PcmRate .. PhaseLimit - PcmRate
  <2>1. heard' = heard + 1 /\ Advanced \in Nat
    BY <1>0, <1>1 DEF HearSample, PhaseInv, Advanced
  <2>2. fits => Advanced = phase + PcmRate
    BY <1>0 DEF PhaseInv, Advanced
  <2>3. PcmRate * heard' = PcmRate * heard + PcmRate
    BY <1>0, <2>1 DEF PhaseInv
  <2>4. CASE Advanced < InputRate /\ phase' = Advanced /\ emitted' = emitted
    <3>1. fits => PcmRate * heard' = InputRate * emitted' + phase'
      BY <1>0, <2>2, <2>3, <2>4 DEF PhaseInv
    <3>2. heard' \in Nat /\ emitted' \in Nat /\ phase' \in Nat
      BY <2>1, <2>4 DEF PhaseInv
    <3>3. phase' < InputRate
      BY <2>4
    <3> QED BY <3>1, <3>2, <3>3 DEF PhaseInv
  <2>5. CASE Advanced >= InputRate /\ phase' = Carried /\ emitted' = emitted + 1
    <3>1. phase' \in Nat /\ emitted' \in Nat
      BY <1>0, <2>1, <2>5 DEF Carried, PhaseInv
    <3>2. fits => phase' = phase + PcmRate - InputRate
      BY <1>0, <2>2, <2>5 DEF Carried, PhaseInv
    <3>3. fits => phase' < InputRate
      BY <1>0, <3>2 DEF PhaseInv
    <3>4. InputRate * emitted' = InputRate * emitted + InputRate
      BY <1>0, <2>5 DEF PhaseInv
    <3>5. PcmRate * heard \in Int /\ InputRate * emitted \in Int
      BY <1>0 DEF PhaseInv
    <3>6. fits => PcmRate * heard' = InputRate * emitted' + phase'
      BY <1>0, <2>3, <3>2, <3>4, <3>5 DEF PhaseInv
    <3>7. heard' \in Nat
      BY <2>1 DEF PhaseInv
    <3> QED BY <3>1, <3>3, <3>6, <3>7 DEF PhaseInv
  <2> QED BY <1>1, <2>4, <2>5 DEF HearSample
<1>2. CASE UNCHANGED <<heard, phase, emitted>>
  BY <1>2 DEF PhaseInv
<1>3. CASE \/ DataEnds \/ OfferFrame \/ Press \/ Discard \/ Request
           \/ Release \/ Tick \/ TakeFrame \/ TickEnds \/ UNCHANGED vars
  BY <1>2, <1>3
     DEF DataEnds, OfferFrame, Press, Discard, Request, Release, Tick,
         TakeFrame, TickEnds, micVars, vars
<1> QED BY <1>1, <1>3 DEF Next

\* The resampler makes exactly the rounded-down share of samples, at every
\* moment of every recording and for every device rate the u32 phase can hold.
THEOREM ResamplerIsExact == Spec => []RateIsExact
<1>1. Init => PhaseInv
  BY CaptureAssumption DEF Init, PhaseInv
<1>2. PhaseInv => RateIsExact
  <2> SUFFICES ASSUME PhaseInv, InputRate \in PcmRate .. PhaseLimit - PcmRate
               PROVE  emitted = (PcmRate * heard) \div InputRate
    BY DEF RateIsExact
  <2>1. /\ phase \in 0 .. InputRate - 1 /\ emitted \in Nat
        /\ PcmRate * heard \in Nat
        /\ PcmRate * heard = InputRate * emitted + phase
    BY CaptureAssumption DEF PhaseInv
  <2> QED BY <2>1, Quotient, CaptureAssumption
<1> QED BY <1>1, <1>2, PhaseStep, PTL DEF Spec

-----------------------------------------------------------------------------
(* Type correctness *)

\* What the assembler does with a sample that it makes of the present one.
LEMMA SampleMade ==
  ASSUME TypeOK, HearSample
  PROVE  /\ heard' = heard + 1 /\ heard' \in 1 .. MaxHeard
         /\ Append(frame, heard') \in Seq(1 .. MaxHeard)
         /\ Len(Append(frame, heard')) = Len(frame) + 1
         /\ Len(frame) \in Nat /\ Len(frame) < FrameSamples
         /\ \A k \in 1 .. Len(frame) : Append(frame, heard')[k] = frame[k]
         /\ Append(frame, heard')[Len(frame) + 1] = heard'
<1>1. /\ heard' = heard + 1 /\ heard' \in 1 .. MaxHeard
      /\ frame \in Seq(1 .. MaxHeard) /\ Len(frame) < FrameSamples
  BY CaptureAssumption DEF TypeOK, HearSample
<1> QED BY <1>1, AppendProperties, LenProperties

\* A full frame starts and ends with samples of it.
LEMMA FramedType ==
  ASSUME TypeOK, HearSample, Len(Append(frame, heard')) = FrameSamples
  PROVE  Framed(Append(frame, heard')) \in Frame
<1> DEFINE longer == Append(frame, heard')
<1>1. longer \in Seq(1 .. MaxHeard) /\ Len(longer) = FrameSamples
  BY SampleMade
<1>2. 1 \in 1 .. Len(longer) /\ FrameSamples \in 1 .. Len(longer)
  BY <1>1, CaptureAssumption
<1>3. longer[1] \in 1 .. MaxHeard /\ longer[FrameSamples] \in 1 .. MaxHeard
  BY <1>1, <1>2, ElementOfSeq
<1> QED BY <1>3, CaptureAssumption DEF Framed, Frame

LEMMA TypeInit == Init => TypeOK
<1>1. \A S : <<>> \in Seq(S)
  BY EmptySeq
<1>2. Len(<<>>) = 0
  OBVIOUS
<1>3. CASE Init
  <2>1. /\ 0 \in 0 .. MaxHeard /\ 0 \in 0 .. PhaseLimit
        /\ 0 \in 0 .. FramesPerTick /\ 0 \in 0 .. MaxPresses
        /\ 0 < FrameSamples /\ 0 <= QueueCapacity
    BY CaptureAssumption
  <2> QED BY <1>1, <1>2, <1>3, <2>1 DEF Init, TypeOK
<1> QED BY <1>3

LEMMA TypeNext == TypeOK /\ [Next]_vars => TypeOK'
<1> SUFFICES ASSUME TypeOK, [Next]_vars PROVE TypeOK'
  OBVIOUS
<1>0. /\ PcmRate \in Nat \ {0} /\ InputRate \in Nat \ {0}
      /\ FrameSamples \in Nat \ {0} /\ QueueCapacity \in Nat \ {0}
      /\ FramesPerTick \in Nat \ {0} /\ PhaseLimit \in Nat
      /\ MaxHeard \in Nat /\ MaxPresses \in Nat
  BY CaptureAssumption
<1>1. CASE HearSample
  <2>1. Advanced \in 0 .. PhaseLimit
    BY <1>0 DEF TypeOK, Advanced
  <2>2. phase' \in 0 .. PhaseLimit /\ emitted' \in Nat
    BY <1>0, <1>1, <2>1, CaptureAssumption DEF TypeOK, HearSample, Carried
  <2>3. heard' \in 0 .. MaxHeard
    BY <1>1, SampleMade
  <2>4. /\ frame' \in Seq(1 .. MaxHeard) /\ Len(frame') < FrameSamples
        /\ ready' \in Seq(Frame) /\ mic' = mic
        /\ ready # <<>> => ready' # <<>>
    <3> DEFINE longer == Append(frame, heard')
    <3>1. CASE frame' = frame /\ ready' = ready
      BY <1>1, <3>1 DEF TypeOK, HearSample
    <3>2. CASE /\ Len(longer) = FrameSamples
               /\ frame' = <<>> /\ ready' = Append(ready, Framed(longer))
      <4>1. Framed(longer) \in Frame
        BY <1>1, <3>2, FramedType
      <4>2. ready' \in Seq(Frame) /\ Len(ready') = Len(ready) + 1 /\ Len(ready) \in Nat
        BY <3>2, <4>1, AppendProperties, LenProperties DEF TypeOK
      <4>3. ready' # <<>>
        BY <4>2, EmptySeq
      <4>4. frame' \in Seq(1 .. MaxHeard) /\ Len(frame') < FrameSamples
        BY <1>0, <3>2, EmptySeq
      <4> QED BY <1>1, <4>2, <4>3, <4>4 DEF HearSample
    <3>3. CASE Len(longer) # FrameSamples /\ frame' = longer /\ ready' = ready
      <4>1. /\ longer \in Seq(1 .. MaxHeard) /\ Len(longer) = Len(frame) + 1
            /\ Len(frame) \in Nat /\ Len(frame) < FrameSamples
        BY <1>1, SampleMade
      <4>2. Len(frame') < FrameSamples
        BY <1>0, <3>3, <4>1
      <4> QED BY <1>1, <3>3, <4>1, <4>2 DEF TypeOK, HearSample
    <3> QED BY <1>1, <3>1, <3>2, <3>3 DEF HearSample, ClearedFrame
  <2>5. UNCHANGED <<mic, uiVars, queue>>
    BY <1>1 DEF HearSample
  <2>6. mic' = "offering" => ready' # <<>>
    BY <2>4 DEF TypeOK
  <2> QED BY <1>0, <2>2, <2>3, <2>4, <2>5, <2>6 DEF TypeOK, uiVars
<1>2. CASE DataEnds
  BY <1>2 DEF TypeOK, DataEnds, uiVars
<1>3. CASE OfferFrame
  <2>1. Head(ready) \in Frame /\ Tail(ready) \in Seq(Frame)
    BY <1>3, HeadTailProperties DEF TypeOK, OfferFrame
  <2>2. queue' \in Seq(Frame) /\ Len(queue') <= QueueCapacity
    <3>1. CASE Len(queue) < QueueCapacity /\ queue' = Append(queue, Head(ready))
      BY <1>0, <2>1, <3>1, AppendProperties, LenProperties DEF TypeOK
    <3>2. CASE UNCHANGED queue
      BY <3>2 DEF TypeOK
    <3> QED BY <1>3, <3>1, <3>2 DEF OfferFrame
  <2> QED BY <1>3, <2>1, <2>2 DEF TypeOK, OfferFrame, uiVars
<1>4. CASE Press
  <2>1. stale' \subseteq Frame
    <3>1. \A i \in DOMAIN queue : queue[i] \in Frame
      BY LenProperties, ElementOfSeq DEF TypeOK
    <3> QED BY <1>4, <3>1 DEF Press, TypeOK
  <2> QED BY <1>0, <1>4, <2>1 DEF TypeOK, Press, micVars
<1>5. CASE Discard
  <2>1. queue' \in Seq(Frame) /\ Len(queue') <= QueueCapacity
    <3>1. queue \in Seq(Frame) /\ Len(queue) \in Nat /\ Len(queue) <= QueueCapacity
      BY LenProperties DEF TypeOK
    <3>2. CASE queue' = queue
      BY <3>1, <3>2
    <3>3. CASE queue # <<>> /\ queue' = Tail(queue)
      <4>1. Tail(queue) \in Seq(Frame) /\ Len(Tail(queue)) = Len(queue) - 1
        BY <3>1, <3>3, HeadTailProperties
      <4> QED BY <1>0, <3>1, <3>3, <4>1
    <3>4. \/ queue # <<>> /\ queue' = Tail(queue)
          \/ queue' = queue
      BY <1>5 DEF Discard
    <3> QED BY <3>2, <3>3, <3>4
  <2> QED BY <1>5, <2>1 DEF TypeOK, Discard, micVars
<1>6. CASE Request \/ Release \/ Tick \/ TickEnds
  <2>1. pttActive' \in BOOLEAN
    <3>1. pttActive' = TRUE \/ pttActive' = pttActive \/ pttActive' = FALSE
      BY <1>6, Zenon DEF Request, Release, Tick, TickEnds
    <3> QED BY <3>1, Zenon DEF TypeOK
  <2>3. /\ ui' \in {"idle", "pressing", "requesting", "ticking"}
        /\ budget' \in 0 .. FramesPerTick
    <3>1. ui' \in {"idle", "ticking"} \/ ui' = ui
      BY <1>6 DEF Request, Release, Tick, TickEnds
    <3>2. budget' \in {0, FramesPerTick, budget}
      BY <1>6 DEF Request, Release, Tick, TickEnds
    <3> QED BY <1>0, <3>1, <3>2 DEF TypeOK
  <2>2. UNCHANGED <<micVars, presses, pressedAt, stale, sent, queue>>
    BY <1>6 DEF Request, Release, Tick, TickEnds
  <2> QED BY <2>1, <2>2, <2>3 DEF TypeOK, micVars
<1>7. CASE TakeFrame
  <2>1. /\ Head(queue) \in Frame /\ Tail(queue) \in Seq(Frame)
        /\ Len(Tail(queue)) <= QueueCapacity
    BY <1>0, <1>7, HeadTailProperties, LenProperties DEF TypeOK, TakeFrame
  <2>2. sent' \in Seq([frame : Frame, pressedAt : 0 .. MaxHeard])
    <3>1. [frame |-> OldestFrame, pressedAt |-> pressedAt]
            \in [frame : Frame, pressedAt : 0 .. MaxHeard]
      BY <2>1 DEF OldestFrame, TypeOK
    <3>2. sent \in Seq([frame : Frame, pressedAt : 0 .. MaxHeard])
      BY DEF TypeOK
    <3>3. CASE sent' = sent
      BY <3>2, <3>3
    <3>4. CASE sent' = Append(sent, [frame |-> OldestFrame, pressedAt |-> pressedAt])
      BY <3>1, <3>2, <3>4, AppendProperties
    <3> QED BY <1>7, <3>3, <3>4 DEF TakeFrame
  <2>3. budget' \in 0 .. FramesPerTick
    BY <1>0, <1>7 DEF TakeFrame, TypeOK
  <2> QED BY <1>7, <2>1, <2>2, <2>3 DEF TypeOK, TakeFrame, micVars
<1>8. CASE UNCHANGED vars
  BY <1>8 DEF TypeOK, vars, micVars, uiVars
<1> QED BY <1>1, <1>2, <1>3, <1>4, <1>5, <1>6, <1>7, <1>8 DEF Next

\* Every variable keeps to its type; the assembler never buffers a whole frame
\* and the channel never more than its capacity.
THEOREM TypeCorrect == Spec => []TypeOK
BY TypeInit, TypeNext, PTL DEF Spec

-----------------------------------------------------------------------------
(* The order of the frames *)

Elements(q) == {q[i] : i \in 1 .. Len(q)}

\* Every frame of S ends before any of T starts.
Before(S, T) == \A f \in S, g \in T : f.last < g.first

InOrder(q) == \A i, j \in 1 .. Len(q) : i < j => q[i].last < q[j].first

LEMMA ElementsOf ==
  ASSUME NEW T, NEW q \in Seq(T)
  PROVE  /\ Elements(q) = {q[i] : i \in DOMAIN q}
         /\ Elements(q) \subseteq T
BY LenProperties, ElementOfSeq DEF Elements

\* A frame that no earlier one overlaps keeps a queue in order.
LEMMA Enqueued ==
  ASSUME NEW q \in Seq(Frame), NEW f \in Frame,
         InOrder(q), Before(Elements(q), {f})
  PROVE  /\ InOrder(Append(q, f))
         /\ Elements(Append(q, f)) = Elements(q) \union {f}
<1>1. /\ Len(q) \in Nat /\ Len(Append(q, f)) = Len(q) + 1
      /\ \A i \in 1 .. Len(q) : Append(q, f)[i] = q[i]
      /\ Append(q, f)[Len(q) + 1] = f
  BY AppendProperties, LenProperties
<1>2. 1 .. Len(q) + 1 = 1 .. Len(q) \union {Len(q) + 1}
  BY <1>1
<1>3. Elements(Append(q, f)) = Elements(q) \union {f}
  BY <1>1, <1>2 DEF Elements
<1>4. ASSUME NEW i \in 1 .. Len(q) + 1, NEW j \in 1 .. Len(q) + 1, i < j
      PROVE  Append(q, f)[i].last < Append(q, f)[j].first
  <2>1. i \in 1 .. Len(q)
    BY <1>1, <1>4
  <2>2. Append(q, f)[i] = q[i] /\ q[i] \in Elements(q)
    BY <1>1, <2>1 DEF Elements
  <2>3. CASE j \in 1 .. Len(q)
    BY <1>1, <1>4, <2>1, <2>2, <2>3 DEF InOrder
  <2>4. CASE j = Len(q) + 1
    BY <1>1, <2>2, <2>4 DEF Before
  <2> QED BY <1>1, <2>3, <2>4
<1> QED BY <1>1, <1>3, <1>4 DEF InOrder

\* What is left of an ordered queue comes after its head.
LEMMA Dequeued ==
  ASSUME NEW q \in Seq(Frame), q # <<>>, InOrder(q)
  PROVE  /\ InOrder(Tail(q))
         /\ Elements(Tail(q)) \subseteq Elements(q)
         /\ Head(q) \in Elements(q)
         /\ Before({Head(q)}, Elements(Tail(q)))
<1>1. /\ Len(q) \in Nat \ {0} /\ Len(Tail(q)) = Len(q) - 1
      /\ \A i \in 1 .. Len(Tail(q)) : Tail(q)[i] = q[i + 1]
      /\ Head(q) = q[1]
  BY HeadTailProperties, EmptySeq, LenProperties
<1>2. \A i \in 1 .. Len(Tail(q)) : i + 1 \in 1 .. Len(q) /\ 1 < i + 1
  BY <1>1
<1>3. InOrder(Tail(q))
  <2> SUFFICES ASSUME NEW i \in 1 .. Len(Tail(q)), NEW j \in 1 .. Len(Tail(q)),
                      i < j
               PROVE  Tail(q)[i].last < Tail(q)[j].first
    BY DEF InOrder
  <2>1. i + 1 < j + 1
    BY <1>1
  <2> QED BY <1>1, <1>2, <2>1 DEF InOrder
<1>4. Elements(Tail(q)) \subseteq Elements(q)
  BY <1>1, <1>2 DEF Elements
<1>5. Head(q) \in Elements(q)
  BY <1>1 DEF Elements
<1>6. Before({Head(q)}, Elements(Tail(q)))
  <2>1. \A i \in 1 .. Len(Tail(q)) : q[1].last < q[i + 1].first
    BY <1>1, <1>2 DEF InOrder
  <2> QED BY <1>1, <2>1 DEF Before, Elements
<1> QED BY <1>3, <1>4, <1>5, <1>6

\* The frames handed to the session, and all that have left the callback.
Spoken == {sent[i].frame : i \in 1 .. Len(sent)}
Past == Spoken \union Elements(queue) \union stale

\* The samples the assembler holds are in order and not from the future.
SamplesInOrder ==
  /\ \A j, k \in 1 .. Len(frame) : j < k => frame[j] < frame[k]
  /\ \A k \in 1 .. Len(frame) : frame[k] <= heard

\* A complete frame is over, and over before the samples the assembler holds.
Complete(f) ==
  /\ f.first <= f.last
  /\ f.last <= heard
  /\ \A k \in 1 .. Len(frame) : f.last < frame[k]

\* SpokenOrder is not inductive: it needs the order of everything upstream of
\* the session, from the channel back to the assembler.
OrderInv ==
  /\ SamplesInOrder
  /\ \A f \in Past \union Elements(ready) : Complete(f)
  /\ InOrder(ready)
  /\ Before(Past, Elements(ready))
  /\ InOrder(queue)
  /\ Before(Spoken, Elements(queue))
  /\ SpokenOrder

\* StaleFramesAreDropped is not inductive: once the channel was found empty, no
\* stale frame may be in it either.
StaleInv ==
  /\ Spoken \intersect stale = {}
  /\ ui # "pressing" => Elements(queue) \intersect stale = {}

LEMMA Typed ==
  ASSUME TypeOK
  PROVE  /\ Elements(queue) \subseteq Frame /\ Elements(ready) \subseteq Frame
         /\ Spoken \subseteq Frame /\ Past \subseteq Frame
<1>1. Elements(queue) \subseteq Frame /\ Elements(ready) \subseteq Frame
  BY ElementsOf DEF TypeOK
<1>2. \A i \in 1 .. Len(sent) : sent[i] \in [frame : Frame, pressedAt : 0 .. MaxHeard]
  BY ElementOfSeq DEF TypeOK
<1>3. Spoken \subseteq Frame
  BY <1>2 DEF Spoken
<1> QED BY <1>1, <1>3 DEF Past, TypeOK

\* A sample joins the frame being assembled, or completes it.
LEMMA OrderOfHearing ==
  ASSUME TypeOK, OrderInv, HearSample
  PROVE  OrderInv'
<1> DEFINE longer == Append(frame, heard')
<1>1. /\ heard \in Nat /\ heard' = heard + 1
      /\ UNCHANGED <<Past, Spoken, queue, sent>>
      /\ Past \union Elements(ready) \subseteq Frame
  BY Typed DEF HearSample, TypeOK, Past, Spoken, Elements, uiVars
<1>2. /\ longer \in Seq(1 .. MaxHeard) /\ Len(longer) = Len(frame) + 1
      /\ Len(frame) \in Nat
      /\ \A k \in 1 .. Len(frame) : longer[k] = frame[k] /\ frame[k] \in Nat
      /\ longer[Len(frame) + 1] = heard'
  <2>1. \A k \in 1 .. Len(frame) : frame[k] \in 1 .. MaxHeard
    BY ElementOfSeq DEF TypeOK
  <2>2. 1 .. MaxHeard \subseteq Nat
    BY CaptureAssumption
  <2> QED BY <2>1, <2>2, SampleMade
<1>3. /\ \A j, k \in 1 .. Len(longer) : j < k => longer[j] < longer[k]
      /\ \A k \in 1 .. Len(longer) : longer[k] <= heard'
  <2>1. \A k \in 1 .. Len(longer) : k \in 1 .. Len(frame) \/ k = Len(frame) + 1
    BY <1>2
  <2>2. \A k \in 1 .. Len(frame) : longer[k] <= heard
    BY <1>2 DEF OrderInv, SamplesInOrder
  <2>3. ASSUME NEW j \in 1 .. Len(longer), NEW k \in 1 .. Len(longer), j < k
        PROVE  longer[j] < longer[k]
    <3>1. j \in 1 .. Len(frame)
      BY <1>2, <2>3
    <3>2. CASE k \in 1 .. Len(frame)
      BY <1>2, <2>3, <3>1, <3>2 DEF OrderInv, SamplesInOrder
    <3>3. CASE k = Len(frame) + 1
      BY <1>1, <1>2, <2>2, <3>1, <3>3
    <3> QED BY <2>1, <3>2, <3>3
  <2>4. \A k \in 1 .. Len(longer) : longer[k] <= heard'
    BY <1>1, <1>2, <2>1, <2>2
  <2> QED BY <2>3, <2>4
<1>4. ASSUME NEW f \in Past \union Elements(ready)
      PROVE  /\ f.first <= f.last /\ f.last <= heard'
             /\ \A k \in 1 .. Len(longer) : f.last < longer[k]
             /\ \A k \in 1 .. Len(frame) : f.last < frame[k]
  <2>1. Complete(f)
    BY DEF OrderInv
  <2>2. f.first \in Nat /\ f.last \in Nat
    BY <1>1 DEF Frame
  <2>3. f.last <= heard'
    BY <1>1, <2>1, <2>2 DEF Complete
  <2>4. ASSUME NEW k \in 1 .. Len(longer) PROVE f.last < longer[k]
    <3>1. CASE k \in 1 .. Len(frame)
      BY <1>2, <2>1, <3>1 DEF Complete
    <3>2. CASE k = Len(frame) + 1
      BY <1>1, <1>2, <2>1, <2>2, <3>2 DEF Complete
    <3> QED BY <1>2, <3>1, <3>2
  <2> QED BY <2>1, <2>3, <2>4 DEF Complete
<1>5. CASE frame' = frame /\ ready' = ready
  <2>1. SamplesInOrder'
    BY <1>1, <1>2, <1>5 DEF OrderInv, SamplesInOrder
  <2>2. \A f \in (Past \union Elements(ready))' : Complete(f)'
    BY <1>1, <1>4, <1>5 DEF Complete
  <2> QED BY <1>1, <1>5, <2>1, <2>2 DEF OrderInv, SpokenOrder
<1>6. CASE frame' = longer /\ ready' = ready
  <2>1. SamplesInOrder'
    BY <1>3, <1>6 DEF SamplesInOrder
  <2>2. \A f \in (Past \union Elements(ready))' : Complete(f)'
    BY <1>1, <1>4, <1>6 DEF Complete
  <2> QED BY <1>1, <1>6, <2>1, <2>2 DEF OrderInv, SpokenOrder
<1>7. CASE /\ Len(longer) = FrameSamples /\ frame' = <<>>
           /\ ready' = Append(ready, Framed(longer))
  <2> DEFINE g == Framed(longer)
  <2>1. g \in Frame
    BY <1>7, FramedType
  <2>2. 1 \in 1 .. Len(longer) /\ FrameSamples \in 1 .. Len(longer)
    BY <1>2, <1>7, CaptureAssumption
  <2>3. /\ g.first = longer[1] /\ g.last = longer[FrameSamples]
        /\ longer[1] \in Nat /\ longer[FrameSamples] \in Nat
    BY <2>1, <2>2 DEF Framed, Frame
  <2>4. g.first <= g.last /\ g.last <= heard'
    BY <1>2, <1>3, <1>7, <2>2, <2>3
  <2>5. Before(Past \union Elements(ready), {g})
    BY <1>4, <2>2, <2>3 DEF Before
  <2>6. InOrder(ready') /\ Elements(ready') = Elements(ready) \union {g}
    <3>1. Before(Elements(ready), {g}) /\ InOrder(ready) /\ ready \in Seq(Frame)
      BY <2>5 DEF Before, OrderInv, TypeOK
    <3> QED BY <1>7, <2>1, <3>1, Enqueued
  <2>7. SamplesInOrder'
    BY <1>7 DEF SamplesInOrder
  <2>8. \A f \in (Past \union Elements(ready))' : Complete(f)'
    <3>1. \A f \in Past \union Elements(ready) \union {g} :
            f.first <= f.last /\ f.last <= heard'
      BY <1>4, <2>4
    <3>2. Len(frame') = 0
      BY <1>7
    <3> QED BY <1>1, <2>6, <3>1, <3>2 DEF Complete
  <2>9. Before(Past, Elements(ready) \union {g})
    BY <2>5 DEF Before, OrderInv
  <2> QED BY <1>1, <2>6, <2>7, <2>8, <2>9 DEF OrderInv, SpokenOrder
<1> QED BY <1>5, <1>6, <1>7 DEF HearSample, ClearedFrame

\* Frames that only move downstream, or are lost on the way, stay complete.
LEMMA StillComplete ==
  ASSUME OrderInv, UNCHANGED <<heard, frame>>,
         (Past \union Elements(ready))' \subseteq Past \union Elements(ready)
  PROVE  /\ SamplesInOrder'
         /\ \A f \in (Past \union Elements(ready))' : Complete(f)'
<1>1. SamplesInOrder'
  BY DEF OrderInv, SamplesInOrder
<1>2. \A f \in Past \union Elements(ready) : Complete(f)'
  BY DEF OrderInv, Complete
<1> QED BY <1>1, <1>2

\* The callback moves its oldest frame to the channel, or loses it.
LEMMA OrderOfOffering ==
  ASSUME TypeOK, OrderInv, OfferFrame
  PROVE  OrderInv'
<1> DEFINE f == Head(ready)
<1>1. /\ ready \in Seq(Frame) /\ ready # <<>> /\ queue \in Seq(Frame)
      /\ ready' = Tail(ready) /\ UNCHANGED <<heard, frame, sent, stale, Spoken>>
      /\ f \in Frame
  BY HeadTailProperties DEF OfferFrame, TypeOK, uiVars, Spoken
<1>2. /\ InOrder(ready') /\ Elements(ready') \subseteq Elements(ready)
      /\ f \in Elements(ready) /\ Before({f}, Elements(ready'))
  BY <1>1, Dequeued DEF OrderInv
<1>3. /\ InOrder(queue')
      /\ \/ Elements(queue') = Elements(queue) \union {f}
         \/ Elements(queue') = Elements(queue)
  <2>1. CASE queue' = Append(queue, f)
    <3>1. Before(Elements(queue), {f})
      BY <1>2 DEF OrderInv, Before, Past
    <3> QED BY <1>1, <2>1, <3>1, Enqueued DEF OrderInv
  <2>2. CASE queue' = queue
    BY <2>2 DEF OrderInv
  <2> QED BY <2>1, <2>2 DEF OfferFrame
<1>4. Past' \subseteq Past \union {f}
  BY <1>1, <1>3 DEF Past
<1>5. Before(Past', Elements(ready'))
  BY <1>2, <1>4 DEF Before, OrderInv
<1>6. Before(Spoken, Elements(queue'))
  BY <1>2, <1>3 DEF Before, OrderInv, Past
<1>7. /\ SamplesInOrder'
      /\ \A g \in (Past \union Elements(ready))' : Complete(g)'
  BY <1>1, <1>2, <1>4, StillComplete
<1> QED BY <1>1, <1>2, <1>3, <1>5, <1>6, <1>7 DEF OrderInv, SpokenOrder

\* The UI thread takes the oldest frame out of the channel, and hands it to the
\* session or not.
LEMMA OrderOfTaking ==
  ASSUME TypeOK, OrderInv, queue # <<>>, queue' = Tail(queue),
         UNCHANGED <<heard, frame, ready, stale>>,
         \/ UNCHANGED sent
         \/ sent' = Append(sent, [frame |-> Head(queue), pressedAt |-> pressedAt])
  PROVE  OrderInv' /\ Spoken' \subseteq Spoken \union {Head(queue)}
<1> DEFINE f == Head(queue)
<1>1. queue \in Seq(Frame) /\ InOrder(queue) /\ f \in Frame
  BY HeadTailProperties DEF TypeOK, OrderInv
<1>2. /\ InOrder(queue') /\ Elements(queue') \subseteq Elements(queue)
      /\ f \in Elements(queue) /\ Before({f}, Elements(queue'))
  BY <1>1, Dequeued
<1>3. SpokenOrder' /\ Spoken' \subseteq Spoken \union {f}
  <2>1. CASE UNCHANGED sent
    BY <2>1 DEF OrderInv, SpokenOrder, Spoken
  <2>2. CASE sent' = Append(sent, [frame |-> f, pressedAt |-> pressedAt])
    <3> DEFINE r == [frame |-> f, pressedAt |-> pressedAt]
               T == [frame : Frame, pressedAt : 0 .. MaxHeard]
    <3>1. r \in T /\ sent \in Seq(T) /\ r.frame = f
      BY <1>1 DEF TypeOK
    <3> HIDE DEF r, T
    <3>2. /\ Len(sent) \in Nat /\ Len(Append(sent, r)) = Len(sent) + 1
          /\ \A i \in 1 .. Len(sent) : Append(sent, r)[i] = sent[i]
          /\ Append(sent, r)[Len(sent) + 1] = r
          /\ DOMAIN Append(sent, r) = 1 .. Len(sent) + 1
          /\ DOMAIN sent = 1 .. Len(sent)
      BY <3>1, AppendProperties, LenProperties
    <3>3. /\ Len(sent') = Len(sent) + 1 /\ DOMAIN sent' = 1 .. Len(sent) + 1
          /\ \A i \in 1 .. Len(sent) : sent'[i] = sent[i]
          /\ sent'[Len(sent) + 1].frame = f
      BY <2>2, <3>1, <3>2 DEF r
    <3>4. \A i \in 1 .. Len(sent) + 1 : i \in 1 .. Len(sent) \/ i = Len(sent) + 1
      BY <3>2
    <3>5. \A i \in 1 .. Len(sent) : sent[i].frame.last < f.first
      BY <1>2 DEF OrderInv, Before, Spoken
    <3>6. ASSUME NEW i \in 1 .. Len(sent) + 1, NEW j \in 1 .. Len(sent) + 1, i < j
          PROVE  sent'[i].frame.last < sent'[j].frame.first
      <4>1. i \in 1 .. Len(sent)
        BY <3>2, <3>6
      <4>2. CASE j \in 1 .. Len(sent)
        BY <3>2, <3>3, <3>6, <4>1, <4>2 DEF OrderInv, SpokenOrder
      <4>3. CASE j = Len(sent) + 1
        BY <3>3, <3>5, <4>1, <4>3
      <4> QED BY <3>4, <4>2, <4>3
    <3>7. SpokenOrder'
      BY <3>3, <3>6 DEF SpokenOrder
    <3>8. Spoken' \subseteq Spoken \union {f}
      BY <3>3, <3>4 DEF Spoken
    <3> QED BY <3>7, <3>8
  <2> QED BY <2>1, <2>2
<1>4. Past' \subseteq Past
  BY <1>2, <1>3 DEF Past
<1>5. Before(Spoken', Elements(queue'))
  BY <1>2, <1>3 DEF Before, OrderInv
<1>6. Before(Past', Elements(ready'))
  BY <1>4 DEF Before, OrderInv
<1>7. /\ SamplesInOrder'
      /\ \A g \in (Past \union Elements(ready))' : Complete(g)'
  BY <1>4, StillComplete
<1> QED BY <1>2, <1>3, <1>5, <1>6, <1>7 DEF OrderInv

LEMMA OrderStep == TypeOK /\ OrderInv /\ [Next]_vars => OrderInv'
<1> SUFFICES ASSUME TypeOK, OrderInv, [Next]_vars PROVE OrderInv'
  OBVIOUS
<1>1. CASE HearSample
  BY <1>1, OrderOfHearing
<1>2. CASE OfferFrame
  BY <1>2, OrderOfOffering
<1>3. CASE TakeFrame
  BY <1>3, OrderOfTaking DEF TakeFrame, OldestFrame, micVars
<1>4. CASE Discard /\ queue' # queue
  BY <1>4, OrderOfTaking DEF Discard, micVars
<1>5. CASE /\ UNCHANGED <<heard, frame, ready, queue, sent>>
           /\ stale' \subseteq stale \union Elements(queue)
  <2>1. UNCHANGED <<Spoken, Elements(queue), Elements(ready)>> /\ Past' \subseteq Past
    BY <1>5 DEF Spoken, Past, Elements
  <2>2. /\ SamplesInOrder'
        /\ \A g \in (Past \union Elements(ready))' : Complete(g)'
    BY <1>5, <2>1, StillComplete
  <2>3. Before(Past', Elements(ready))
    BY <2>1 DEF OrderInv, Before
  <2> QED BY <1>5, <2>1, <2>2, <2>3 DEF OrderInv, SpokenOrder
<1>6. CASE Press
  <2>1. stale' = stale \union Elements(queue)
    BY <1>6, ElementsOf DEF Press, TypeOK
  <2> QED BY <1>5, <1>6, <2>1 DEF Press, micVars
<1>7. CASE \/ DataEnds \/ Request \/ Release \/ Tick \/ TickEnds
           \/ (Discard /\ queue' = queue) \/ UNCHANGED vars
  BY <1>5, <1>7
     DEF DataEnds, Request, Release, Tick, TickEnds, Discard, micVars, uiVars, vars
<1> QED BY <1>1, <1>2, <1>3, <1>4, <1>6, <1>7 DEF Next

\* Frames are transmitted in the order they were spoken, none twice, however
\* many were dropped on the way, for every rate, frame length and capacity.
THEOREM FramesStayInOrder == Spec => []SpokenOrder
<1>1. Init => OrderInv
  BY DEF Init, OrderInv, SamplesInOrder, Past, Spoken, Elements, InOrder,
         Before, SpokenOrder
<1>2. OrderInv => SpokenOrder
  BY DEF OrderInv
<1> QED BY <1>1, <1>2, TypeCorrect, OrderStep, PTL DEF Spec

-----------------------------------------------------------------------------
(* Stale frames *)

LEMMA StaleStep == TypeOK /\ OrderInv /\ StaleInv /\ [Next]_vars => StaleInv'
<1> SUFFICES ASSUME TypeOK, OrderInv, StaleInv, [Next]_vars PROVE StaleInv'
  OBVIOUS
\* A frame is not before itself.
<1>0. \A f \in Past \union Elements(ready) : ~(f.last < f.first)
  <2>1. \A f \in Past \union Elements(ready) : f \in Frame /\ f.first <= f.last
    BY Typed DEF OrderInv, Complete
  <2> QED BY <2>1 DEF Frame
<1>1. CASE OfferFrame
  <2>1. /\ Head(ready) \in Elements(ready) /\ UNCHANGED <<Spoken, stale, ui>>
        /\ ready # <<>> /\ ready \in Seq(Frame) /\ Head(ready) \in Frame
    BY <1>1, Dequeued, HeadTailProperties
       DEF OfferFrame, OrderInv, TypeOK, uiVars, Spoken
  <2>2. Head(ready) \notin stale
    BY <1>0, <2>1 DEF OrderInv, Before, Past
  <2>3. Elements(queue') \subseteq Elements(queue) \union {Head(ready)}
    <3>1. CASE queue' = Append(queue, Head(ready))
      <4>1. queue \in Seq(Frame) /\ InOrder(queue)
        BY DEF TypeOK, OrderInv
      <4>2. Before(Elements(queue), {Head(ready)})
        BY <2>1 DEF OrderInv, Before, Past
      <4> QED BY <2>1, <3>1, <4>1, <4>2, Enqueued
    <3>2. CASE queue' = queue
      BY <3>2
    <3> QED BY <1>1, <3>1, <3>2 DEF OfferFrame
  <2> QED BY <2>1, <2>2, <2>3 DEF StaleInv
<1>2. CASE Press
  <2>1. stale' = stale \union Elements(queue) /\ ui' = "pressing" /\ Spoken' = Spoken
    BY <1>2, ElementsOf DEF Press, TypeOK, Spoken
  <2>2. Spoken \intersect Elements(queue) = {}
    BY <1>0 DEF OrderInv, Before, Past
  <2> QED BY <2>1, <2>2 DEF StaleInv
<1>3. CASE Discard
  <2>1. UNCHANGED <<Spoken, stale>>
    BY <1>3 DEF Discard, Spoken
  <2>2. CASE ui' = ui
    BY <1>3, <2>1, <2>2 DEF StaleInv, Discard
  <2>3. CASE queue' = queue /\ queue = <<>>
    BY <2>1, <2>3 DEF StaleInv, Elements
  <2> QED BY <1>3, <2>2, <2>3 DEF Discard
<1>4. CASE TakeFrame
  <2>1. /\ Spoken' \subseteq Spoken \union {Head(queue)}
        /\ Elements(queue') \subseteq Elements(queue) /\ Head(queue) \in Elements(queue)
    BY <1>4, OrderOfTaking, Dequeued
       DEF TakeFrame, OldestFrame, micVars, TypeOK, OrderInv
  <2>2. Elements(queue) \intersect stale = {} /\ UNCHANGED stale
    BY <1>4 DEF TakeFrame, StaleInv
  <2> QED BY <2>1, <2>2 DEF StaleInv
<1>5. CASE HearSample \/ DataEnds \/ Request \/ Release \/ Tick \/ TickEnds
           \/ UNCHANGED vars
  <2>1. UNCHANGED <<stale, sent, queue>> /\ (ui' # "pressing" => ui # "pressing")
    BY <1>5
       DEF HearSample, DataEnds, Request, Release, Tick, TickEnds, uiVars, micVars, vars
  <2> QED BY <2>1 DEF StaleInv, Spoken, Elements
<1> QED BY <1>1, <1>2, <1>3, <1>4, <1>5 DEF Next

\* However the discarding races with the callback, no frame that a press found
\* in the channel is ever transmitted.
THEOREM StaleNeverSent == Spec => []StaleFramesAreDropped
<1>1. Init => OrderInv /\ StaleInv
  BY DEF Init, OrderInv, StaleInv, SamplesInOrder, Past, Spoken, Elements,
         InOrder, Before, SpokenOrder
<1>2. TypeOK /\ StaleInv => StaleFramesAreDropped
  BY LenProperties DEF TypeOK, StaleInv, StaleFramesAreDropped, Spoken
<1> QED BY <1>1, <1>2, TypeCorrect, OrderStep, StaleStep, PTL DEF Spec

=============================================================================
