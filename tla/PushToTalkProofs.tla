--------------------------- MODULE PushToTalkProofs ---------------------------
(***************************************************************************)
(* Theorems about PushToTalk, for any senders, capacities and bounds.      *)
(***************************************************************************)
EXTENDS PushToTalk, TLAPS

AnOp == [op : {"Control", "Pcm"}, id : Nat \ {0}]
APacket == [kind : {"Join", "Leave", "Keepalive", "Control", "Audio"}, id : Nat]

\* The parts of the type invariant: the session's RelayStream and what it was
\* asked; its event channel; and everything else.
LinkTypes ==
  /\ phase \in {"fresh", "joined", "left"}
  /\ closing \in BOOLEAN
  /\ accepted \in Seq(AnOp)
  /\ Len(accepted) <= MaxCalls
  /\ settled \in 0 .. Len(accepted)
  /\ keepalives \in 0 .. MaxTurns
  /\ stream \in Seq(APacket)

AskedTypes ==
  /\ asked \in Seq(Ask)
  /\ Len(asked) = Len(accepted)

EventTypes ==
  /\ events \in Seq(Event)
  /\ Len(events) <= EventCapacity

UiTypes ==
  /\ ui \in Ui
  /\ held \in BOOLEAN
  /\ pttActive \in BOOLEAN
  /\ budget \in 0 .. FramesPerTick
  /\ sessions \in 0 .. MaxSessions
  /\ slot \in 0 .. MaxSessions
  /\ heard \in 0 .. MaxTurns
  /\ status \in Status
  /\ talker \in Senders \union {NoOne}
  /\ profile \in [sender : Senders, mute : BOOLEAN]
  /\ opened \in Senders
  /\ talk \in 0 .. MaxSessions
  /\ refused \in BOOLEAN
  /\ relayTalker \in Senders \union {NoOne}
  /\ missed \in BOOLEAN
  /\ renamed \in BOOLEAN
  /\ misheard \in BOOLEAN

LEMMA TypeParts == TypeOK <=> LinkTypes /\ AskedTypes /\ EventTypes /\ UiTypes
BY DEF TypeOK, LinkTypes, AskedTypes, EventTypes, UiTypes, AnOp, APacket

-----------------------------------------------------------------------------
(* Sequences *)

\* The last element of an appended sequence, and the others.
LEMMA AppendedAt ==
  ASSUME NEW S, NEW s \in Seq(S), NEW e \in S
  PROVE  /\ Append(s, e) \in Seq(S)
         /\ Len(Append(s, e)) = Len(s) + 1
         /\ \A i \in 1 .. Len(s) : Append(s, e)[i] = s[i]
         /\ Append(s, e)[Len(s) + 1] = e
OBVIOUS

\* What a taken element leaves behind.
LEMMA TakenFrom ==
  ASSUME NEW S, NEW s \in Seq(S), s # <<>>
  PROVE  /\ Head(s) \in S
         /\ Head(s) = s[1]
         /\ Tail(s) \in Seq(S)
         /\ Len(s) \in Nat \ {0}
         /\ Len(Tail(s)) = Len(s) - 1
         /\ \A i \in 1 .. Len(s) - 1 : Tail(s)[i] = s[i + 1]
OBVIOUS

\* Offering events to the channel keeps what is in it, and adds a beginning of
\* what is offered, within the capacity.
LEMMA OfferedEvents ==
  ASSUME EventTypes, NEW es \in Seq(Event)
  PROVE  /\ Offered(es) \in Seq(Event)
         /\ Len(Offered(es)) <= EventCapacity
         /\ Len(events) <= Len(Offered(es))
         /\ Len(Offered(es)) <= Len(events) + Len(es)
         /\ Len(Offered(es)) < Len(events) + Len(es) => Len(Offered(es)) = EventCapacity
         /\ \A i \in 1 .. Len(events) : Offered(es)[i] = events[i]
         /\ \A i \in 1 .. Len(Offered(es)) - Len(events) :
              Offered(es)[Len(events) + i] = es[i]
<1> DEFINE all == events \o es
<1>1. /\ all \in Seq(Event)
      /\ Len(all) = Len(events) + Len(es)
      /\ \A i \in 1 .. Len(events) : all[i] = events[i]
      /\ \A i \in 1 .. Len(es) : all[Len(events) + i] = es[i]
  BY DEF EventTypes
<1>2. /\ Len(events) \in Nat
      /\ Len(es) \in Nat
      /\ EventCapacity \in Nat
  BY ControlAssumption DEF EventTypes
<1>3. Offered(es) = IF Len(all) <= EventCapacity THEN all
                    ELSE SubSeq(all, 1, EventCapacity)
  BY DEF Offered
<1> HIDE DEF all
<1>4. CASE Len(all) <= EventCapacity
  BY <1>1, <1>2, <1>3, <1>4
<1>5. CASE ~(Len(all) <= EventCapacity)
  <2>1. /\ SubSeq(all, 1, EventCapacity) \in Seq(Event)
        /\ Len(SubSeq(all, 1, EventCapacity)) = EventCapacity
        /\ \A i \in 1 .. EventCapacity : SubSeq(all, 1, EventCapacity)[i] = all[i]
    BY <1>1, <1>2, <1>5
  <2>2. Offered(es) = SubSeq(all, 1, EventCapacity)
    BY <1>3, <1>5
  <2>3. Len(events) <= EventCapacity
    BY DEF EventTypes
  <2> QED
    BY <2>1, <2>2, <2>3, <1>1, <1>2, <1>5
<1> QED
  BY <1>4, <1>5

LEMMA Notifications ==
  /\ \A k \in {"Connected", "Notice", "Other"} :
       Notification(k) \in Event /\ ~Shows(Notification(k))
  /\ Outcome \in {Notification("Notice"), Notification("Other")}
BY DEF Notification, Event, Shows, Outcome

\* What the worker says of its own doing is no Grant and no Release.
LEMMA OwnEvents ==
  ASSUME NEW o \in {Notification("Notice"), Notification("Other")},
         NEW es, es = <<Notification("Connected"), o>> \/ es = <<o>> \/ es = <<>>
  PROVE  es \in Seq(Event) /\ \A i \in 1 .. Len(es) : ~Shows(es[i])
<1>1. o \in Event /\ ~Shows(o)
  BY Notifications
<1>2. Notification("Connected") \in Event /\ ~Shows(Notification("Connected"))
  BY Notifications
<1>3. CASE es = <<Notification("Connected"), o>>
  BY <1>1, <1>2, <1>3
<1>4. CASE es = <<o>>
  BY <1>1, <1>4
<1>5. CASE es = <<>>
  BY <1>5
<1> QED
  BY <1>3, <1>4, <1>5

-----------------------------------------------------------------------------
(* Steps of the session's stream *)

\* The command channel and the bound on calls let through what they should.
LEMMA AcceptTypes ==
  ASSUME LinkTypes, NEW op \in {"Control", "Pcm"}, Link!Accept(op)
  PROVE  LinkTypes' /\ Len(accepted') = Len(accepted) + 1
<1> DEFINE new == [op |-> op, id |-> Len(accepted) + 1]
<1>1. Len(accepted) \in Nat
  BY DEF LinkTypes
<1>2. new \in AnOp
  BY <1>1 DEF AnOp
<1>3. accepted' = Append(accepted, new)
  BY DEF Link!Accept
<1> HIDE DEF new
<1>4. /\ accepted' \in Seq(AnOp)
      /\ Len(accepted') = Len(accepted) + 1
  BY <1>2, <1>3, AppendedAt DEF LinkTypes
<1>5. Len(accepted) < MaxCalls
  BY DEF Link!Accept
<1>6. UNCHANGED <<phase, closing, settled, keepalives, stream>>
  BY DEF Link!Accept
<1>7. Len(accepted') <= MaxCalls
  BY <1>1, <1>4, <1>5, ControlAssumption DEF ControlAssumption
<1>8. settled' \in 0 .. Len(accepted')
  BY <1>1, <1>4, <1>6 DEF LinkTypes
<1> QED
  BY <1>4, <1>6, <1>7, <1>8 DEF LinkTypes

LEMMA EmitTypes ==
  ASSUME stream \in Seq(APacket), NEW kind \in {"Join", "Leave", "Keepalive", "Control", "Audio"},
         NEW id \in Nat, Link!Emit(kind, id)
  PROVE  stream' \in Seq(APacket)
<1>1. [kind |-> kind, id |-> id] \in APacket
  BY DEF APacket
<1> QED
  BY <1>1, AppendedAt DEF Link!Emit

\* The worker's own steps.
LEMMA WorkerTypes ==
  ASSUME LinkTypes, Link!Join \/ Link!Settle \/ Link!Keepalive \/ Link!Leave
  PROVE  LinkTypes' /\ UNCHANGED <<accepted, closing>>
<1>1. CASE Link!Join
  <2>1. Link!Emit("Join", 0)
    BY <1>1 DEF Link!Join
  <2>2. stream' \in Seq(APacket)
    BY <2>1, EmitTypes DEF LinkTypes
  <2> QED
    BY <1>1, <2>2 DEF Link!Join, LinkTypes
<1>2. CASE Link!Settle
  <2> DEFINE c == accepted[settled + 1]
  <2>1. settled + 1 \in 1 .. Len(accepted)
    BY <1>2 DEF Link!Settle, LinkTypes
  <2>2. c \in AnOp
    BY <2>1 DEF LinkTypes
  <2>3. Link!Emit(Link!KindOf(c.op), c.id)
    BY <1>2 DEF Link!Settle
  <2>4. /\ Link!KindOf(c.op) \in {"Join", "Leave", "Keepalive", "Control", "Audio"}
        /\ c.id \in Nat
    BY <2>2 DEF AnOp, Link!KindOf
  <2> HIDE DEF c
  <2>5. stream' \in Seq(APacket)
    BY <2>3, <2>4, EmitTypes DEF LinkTypes
  <2>6. settled' \in 0 .. Len(accepted')
    BY <1>2, <2>1 DEF Link!Settle, LinkTypes
  <2>7. UNCHANGED <<phase, closing, accepted, keepalives>>
    BY <1>2 DEF Link!Settle
  <2> QED
    BY <2>5, <2>6, <2>7 DEF LinkTypes
<1>3. CASE Link!Keepalive
  <2>1. Link!Emit("Keepalive", 0)
    BY <1>3 DEF Link!Keepalive
  <2>2. stream' \in Seq(APacket)
    BY <2>1, EmitTypes DEF LinkTypes
  <2>3. keepalives' \in 0 .. MaxTurns
    BY <1>3, ControlAssumption DEF Link!Keepalive, LinkTypes, ControlAssumption
  <2> QED
    BY <1>3, <2>2, <2>3 DEF Link!Keepalive, LinkTypes
<1>4. CASE Link!Leave
  <2>1. Link!Emit("Leave", 0)
    BY <1>4 DEF Link!Leave
  <2>2. stream' \in Seq(APacket)
    BY <2>1, EmitTypes DEF LinkTypes
  <2> QED
    BY <1>4, <2>2 DEF Link!Leave, LinkTypes
<1> QED
  BY <1>1, <1>2, <1>3, <1>4

\* A command that is submitted is the last that was asked.
LEMMA SubmitTypes ==
  ASSUME LinkTypes, AskedTypes, NEW op \in {"Control", "Pcm"}, NEW what \in Ask,
         Submit(op, what)
  PROVE  /\ LinkTypes' /\ AskedTypes'
         /\ UNCHANGED <<phase, closing>>
         /\ Len(asked') = Len(asked) + 1
         /\ \A i \in 1 .. Len(asked) : asked'[i] = asked[i]
         /\ asked'[Len(asked) + 1] = what
<1>1. Link!Accept(op) /\ asked' = Append(asked, what)
  BY DEF Submit
<1>2. LinkTypes' /\ Len(accepted') = Len(accepted) + 1
  BY <1>1, AcceptTypes
<1>3. /\ asked' \in Seq(Ask)
      /\ Len(asked') = Len(asked) + 1
      /\ \A i \in 1 .. Len(asked) : asked'[i] = asked[i]
      /\ asked'[Len(asked) + 1] = what
  BY <1>1, AppendedAt DEF AskedTypes
<1>4. UNCHANGED <<phase, closing>>
  BY <1>1 DEF Link!Accept
<1> QED
  BY <1>2, <1>3, <1>4 DEF AskedTypes

LEMMA EmptyOf ==
  ASSUME NEW S
  PROVE  <<>> \in Seq(S) /\ Len(<<>>) = 0
OBVIOUS

-----------------------------------------------------------------------------
(* Types *)

\* A submitting step, or none: what it does to the session's types.
LEMMA SilentTypes ==
  ASSUME LinkTypes, AskedTypes, UNCHANGED calls
  PROVE  LinkTypes' /\ AskedTypes'
BY DEF LinkTypes, AskedTypes, calls, link

LEMMA QuietInbox ==
  ASSUME EventTypes, UNCHANGED events
  PROVE  EventTypes'
BY DEF EventTypes

LEMMA WorkerOffersTypes ==
  ASSUME EventTypes, NEW es \in Seq(Event), WorkerOffers(es)
  PROVE  EventTypes'
<1>1. events' = events \/ events' = Offered(es)
  BY DEF WorkerOffers
<1> QED
  BY <1>1, OfferedEvents DEF EventTypes

\* What the worker offers of its own doing is well typed.
LEMMA WorkerOwnTypes ==
  ASSUME EventTypes, WorkerJoins \/ WorkerSends \/ WorkerLeaves
  PROVE  EventTypes'
<1>1. PICK o \in {Notification("Notice"), Notification("Other")} : o = Outcome
  BY Notifications
<1>2. CASE WorkerJoins
  <2>1. WorkerOffers(<<Notification("Connected"), o>>)
    BY <1>1, <1>2 DEF WorkerJoins
  <2> QED
    BY <2>1, OwnEvents, WorkerOffersTypes
<1>3. CASE WorkerSends
  <2>1. WorkerOffers(<<o>>)
    BY <1>1, <1>3 DEF WorkerSends
  <2> QED
    BY <2>1, OwnEvents, WorkerOffersTypes
<1>4. CASE WorkerLeaves
  <2>1. WorkerOffers(<<>>)
    BY <1>4 DEF WorkerLeaves
  <2> QED
    BY <2>1, OwnEvents, WorkerOffersTypes
<1> QED
  BY <1>2, <1>3, <1>4

\* Every variable keeps to its type.
THEOREM TypeCorrect == Spec => []TypeOK
<1>1. Init => TypeOK
  <2> SUFFICES ASSUME Init PROVE TypeOK
    OBVIOUS
  <2>1. LinkTypes
    BY EmptyOf, ControlAssumption DEF Init, LinkTypes, ControlAssumption
  <2>2. AskedTypes
    BY EmptyOf DEF Init, AskedTypes
  <2>3. EventTypes
    BY EmptyOf, ControlAssumption DEF Init, EventTypes, ControlAssumption
  <2>4. UiTypes
    <3>1. /\ budget \in 0 .. FramesPerTick
          /\ sessions \in 0 .. MaxSessions
          /\ slot \in 0 .. MaxSessions
          /\ heard \in 0 .. MaxTurns
          /\ talk \in 0 .. MaxSessions
      BY ControlAssumption DEF Init, ControlAssumption
    <3> QED
      BY <3>1 DEF Init, UiTypes, Ui, Status
  <2> QED
    BY <2>1, <2>2, <2>3, <2>4, TypeParts
<1>2. TypeOK /\ [Next]_vars => TypeOK'
  <2> SUFFICES ASSUME TypeOK, [Next]_vars PROVE TypeOK'
    OBVIOUS
  <2>t. LinkTypes /\ AskedTypes /\ EventTypes /\ UiTypes
    BY TypeParts
  <2>s. SUFFICES LinkTypes' /\ AskedTypes' /\ EventTypes' /\ UiTypes'
    BY DEF TypeOK, LinkTypes, AskedTypes, EventTypes, UiTypes, AnOp, APacket
  <2>1. CASE Press
    <3>1. UNCHANGED calls /\ UNCHANGED events
      BY <2>1 DEF Press, inbox
    <3>2. UiTypes'
      <4>1. talk' \in 0 .. MaxSessions
        BY <2>1, ControlAssumption DEF Press, ControlAssumption
      <4> QED
        BY <2>t, <2>1, <4>1, ZenonT(60)
        DEF Press, UiTypes, Ui, Status, Notice, display, slots, inbox, store
    <3> QED
      BY <3>1, <3>2, <2>t, SilentTypes, QuietInbox
  <2>2. CASE SendCodecConfig
    <3>1. LinkTypes' /\ AskedTypes'
      BY <2>t, <2>2, SubmitTypes, SilentTypes DEF SendCodecConfig, Ask
    <3>2. UNCHANGED events
      BY <2>2 DEF SendCodecConfig, inbox
    <3>3. UiTypes'
      BY <2>t, <2>2, ZenonT(60)
      DEF SendCodecConfig, UiTypes, Ui, Status, Notice, Goto, display, slots, button, inbox, store
    <3> QED
      BY <3>1, <3>2, <3>3, <2>t, QuietInbox
  <2>3. CASE SendPttOn
    <3>1. LinkTypes' /\ AskedTypes'
      BY <2>t, <2>3, SubmitTypes, SilentTypes DEF SendPttOn, Ask
    <3>2. UNCHANGED events
      BY <2>3 DEF SendPttOn, inbox
    <3>3. UiTypes'
      BY <2>t, <2>3 DEF SendPttOn, UiTypes, Ui, Status, Notice, Goto, display, slots, inbox, store
    <3> QED
      BY <3>1, <3>2, <3>3, <2>t, QuietInbox
  <2>4. CASE Release
    <3>1. LinkTypes' /\ AskedTypes'
      BY <2>t, <2>4, SubmitTypes, SilentTypes DEF Release, EndTalk, Ask
    <3>2. UNCHANGED events
      BY <2>4 DEF Release, inbox
    <3>3. UiTypes'
      BY <2>t, <2>4 DEF Release, ClearPtt, UiTypes, Ui, Status, Notice, display, slots, inbox, store
    <3> QED
      BY <3>1, <3>2, <3>3, <2>t, QuietInbox
  <2>5. CASE Connect
    <3>1. CASE UNCHANGED <<slots, calls, inbox>>
      <4>1. UNCHANGED calls /\ UNCHANGED events
        BY <3>1 DEF inbox
      <4>2. UiTypes'
        BY <2>t, <2>5, <3>1 DEF Connect, UiTypes, Ui, Status, Notice, slots, inbox, NewInbox
      <4> QED
        BY <4>1, <4>2, <2>t, SilentTypes, QuietInbox
    <3>2. CASE NewSession /\ NewInbox /\ slot' = sessions' /\ sessions < MaxSessions
                 /\ sessions' = sessions + 1 /\ opened' = profile.sender
                 /\ status' = "Connecting" /\ UNCHANGED talker
                 /\ refused' \in BOOLEAN /\ renamed' \in BOOLEAN /\ misheard' \in BOOLEAN
      <4>1. LinkTypes' /\ AskedTypes'
        <5>1. /\ accepted' = <<>> /\ stream' = <<>> /\ asked' = <<>>
              /\ settled' = 0 /\ keepalives' = 0
              /\ phase' = "fresh" /\ closing' = FALSE
          BY <3>2 DEF NewSession
        <5>2. /\ accepted' \in Seq(AnOp) /\ stream' \in Seq(APacket) /\ asked' \in Seq(Ask)
              /\ Len(accepted') = 0 /\ Len(asked') = 0
          BY <5>1, EmptyOf
        <5>3. settled' \in 0 .. Len(accepted') /\ keepalives' \in 0 .. MaxTurns
              /\ Len(accepted') <= MaxCalls
          BY <5>1, <5>2, ControlAssumption DEF ControlAssumption
        <5> QED
          BY <5>1, <5>2, <5>3 DEF LinkTypes, AskedTypes
      <4>2. EventTypes'
        BY <3>2, EmptyOf, ControlAssumption DEF NewInbox, EventTypes, ControlAssumption
      <4>3. UiTypes'
        <5>1. /\ sessions' \in 0 .. MaxSessions
              /\ slot' \in 0 .. MaxSessions
          BY <2>t, <3>2, ControlAssumption DEF UiTypes, ControlAssumption
        <5>2. heard' \in 0 .. MaxTurns /\ relayTalker' = NoOne /\ missed' = FALSE
          BY <3>2, ControlAssumption DEF NewInbox, ControlAssumption
        <5>3. UNCHANGED <<ui, held, pttActive, talk, budget, profile>>
          BY <2>5 DEF Connect
        <5>4. opened' \in Senders
          BY <2>t, <3>2 DEF UiTypes
        <5>5. status' \in Status /\ UNCHANGED talker
          BY <3>2 DEF Status
        <5> QED
          BY <2>t, <3>2, <5>1, <5>2, <5>3, <5>4, <5>5 DEF UiTypes
      <4> QED
        BY <4>1, <4>2, <4>3
    <3> QED
      BY <2>5, <3>1, <3>2 DEF Connect, NewInbox
  <2>6. ASSUME NEW to \in {"joining", "quitting"}, Disconnect(to)
        PROVE  LinkTypes' /\ AskedTypes' /\ EventTypes' /\ UiTypes'
    <3>1. LinkTypes' /\ AskedTypes'
      BY <2>t, <2>6 DEF Disconnect, Link!Close, link, LinkTypes, AskedTypes
    <3>2. EventTypes'
      BY <2>6, EmptyOf, ControlAssumption
      DEF Disconnect, NewInbox, EventTypes, ControlAssumption
    <3>3. /\ heard' \in 0 .. MaxTurns /\ relayTalker' = NoOne /\ missed' = FALSE
          /\ renamed' = FALSE /\ misheard' = FALSE
          /\ slot' \in 0 .. MaxSessions
      BY <2>6, ControlAssumption DEF Disconnect, NewInbox, ControlAssumption
    <3>4. UNCHANGED <<budget, sessions, opened, button, display, profile>>
      BY <2>6 DEF Disconnect
    <3>5. ui' \in Ui
      BY <2>6 DEF Disconnect, Goto, Ui
    <3>6. UiTypes'
      BY <2>t, <3>3, <3>4, <3>5 DEF UiTypes, button, display
    <3> QED
      BY <3>1, <3>2, <3>6
  <2>7. CASE SaveProfile
    <3>1. UNCHANGED calls /\ UNCHANGED events
      BY <2>7 DEF SaveProfile, inbox
    <3>2. UiTypes'
      BY <2>t, <2>7 DEF SaveProfile, UiTypes, display, slots, button, inbox
    <3> QED
      BY <3>1, <3>2, <2>t, SilentTypes, QuietInbox
  <2>8. CASE TimerFires
    <3>1. UNCHANGED calls /\ UNCHANGED events
      BY <2>8 DEF TimerFires, inbox
    <3>2. UiTypes'
      BY <2>t, <2>8, ControlAssumption
      DEF TimerFires, UiTypes, Ui, slots, button, display, inbox, store, ControlAssumption
    <3> QED
      BY <3>1, <3>2, <2>t, SilentTypes, QuietInbox
  <2>9. CASE DisconnectEnds
    <3>1. UNCHANGED calls /\ UNCHANGED events
      BY <2>9 DEF DisconnectEnds, inbox
    <3>2. UiTypes'
      BY <2>t, <2>9, ZenonT(60)
      DEF DisconnectEnds, ShowDisconnected, Goto, UiTypes, Ui, Status, slots, button, display, inbox, store
    <3> QED
      BY <3>1, <3>2, <2>t, SilentTypes, QuietInbox
  <2>10. CASE SendFrame
    <3>1. LinkTypes' /\ AskedTypes'
      <4>1. (IF talk = slot THEN "Frame" ELSE "OldFrame") \in Ask
        BY DEF Ask
      <4> QED
        BY <4>1, <2>t, <2>10, SubmitTypes, SilentTypes DEF SendFrame
    <3>2. UNCHANGED events
      BY <2>10 DEF SendFrame, inbox
    <3>3. UiTypes'
      BY <2>t, <2>10, ControlAssumption
      DEF SendFrame, UiTypes, slots, button, display, inbox, store, ControlAssumption
    <3> QED
      BY <3>1, <3>2, <3>3, <2>t, QuietInbox
  <2>11. CASE FramesEnd
    <3>1. UNCHANGED calls /\ UNCHANGED events
      BY <2>11 DEF FramesEnd, inbox
    <3>2. UiTypes'
      BY <2>t, <2>11, ControlAssumption
      DEF FramesEnd, Goto, UiTypes, Ui, slots, button, display, inbox, store, ControlAssumption
    <3> QED
      BY <3>1, <3>2, <2>t, SilentTypes, QuietInbox
  <2>12. CASE HandleEvent
    <3>1. UNCHANGED calls /\ events' = Tail(events) /\ events # <<>>
      BY <2>12 DEF HandleEvent
    <3>2. Head(events) \in Event
      BY <3>1, <2>t, TakenFrom DEF EventTypes
    <3>3. EventTypes'
      <4>1. /\ Tail(events) \in Seq(Event)
            /\ Len(events) \in Nat
            /\ Len(Tail(events)) = Len(events) - 1
            /\ Len(events) <= EventCapacity
            /\ EventCapacity \in Nat
        BY <3>1, <2>t, TakenFrom, ControlAssumption DEF EventTypes, ControlAssumption
      <4>2. Len(Tail(events)) <= EventCapacity
        BY <4>1
      <4> QED
        BY <3>1, <4>1, <4>2 DEF EventTypes
    <3>4. talker' \in Senders \union {NoOne}
      <4>1. talker' = Shown(Head(events))
        BY <2>12 DEF HandleEvent
      <4> QED
        BY <4>1, <3>2, <2>t DEF Shown, Event, UiTypes
    <3>5. status' \in Status
      BY <2>t, <2>12 DEF HandleEvent, UiTypes, Status
    <3>6. misheard' \in BOOLEAN
      BY <2>t, <2>12, Zenon DEF HandleEvent, UiTypes
    <3>7. UiTypes'
      BY <2>t, <2>12, <3>4, <3>5, <3>6 DEF HandleEvent, UiTypes, slots, button
    <3> QED
      BY <3>1, <3>3, <3>7, <2>t, SilentTypes
  <2>13. CASE TimerEnds
    <3>1. UNCHANGED calls /\ UNCHANGED events
      BY <2>13 DEF TimerEnds, inbox
    <3>2. UiTypes'
      BY <2>t, <2>13 DEF TimerEnds, Goto, UiTypes, Ui, slots, button, display, inbox, store
    <3> QED
      BY <3>1, <3>2, <2>t, SilentTypes, QuietInbox
  <2>14. CASE WorkerJoins \/ WorkerSends \/ WorkerLeaves
    <3>1. /\ Link!Join \/ Link!Settle \/ Link!Keepalive \/ Link!Leave
          /\ UNCHANGED asked
      BY <2>14 DEF WorkerJoins, WorkerSends, WorkerLeaves, WorkerOffers
    <3>2. LinkTypes' /\ UNCHANGED accepted
      BY <3>1, <2>t, WorkerTypes
    <3>3. AskedTypes'
      BY <3>1, <3>2, <2>t DEF AskedTypes
    <3>4. EventTypes'
      BY <2>14, <2>t, WorkerOwnTypes
    <3>5. UNCHANGED slots
      BY <2>14 DEF WorkerJoins, WorkerSends, WorkerLeaves, WorkerOffers
    <3>6. UiTypes'
      BY <2>t, <2>14, <3>5
      DEF WorkerJoins, WorkerSends, WorkerLeaves, WorkerOffers, UiTypes, slots, button, display, store
    <3> QED
      BY <3>2, <3>3, <3>4, <3>6
  <2>15. CASE WorkerReceives
    <3>1. PICK e \in Event : /\ events' = Offered(<<e>>)
                             /\ relayTalker' = (IF Shows(e) THEN e.sender ELSE relayTalker)
                             /\ missed' = (missed \/ (Shows(e) /\ events' = events))
      BY <2>15 DEF WorkerReceives
    <3>2. <<e>> \in Seq(Event)
      OBVIOUS
    <3>3. EventTypes'
      BY <3>1, <3>2, <2>t, OfferedEvents DEF EventTypes
    <3>4. relayTalker' \in Senders \union {NoOne}
      BY <3>1, <2>t DEF Event, UiTypes
    <3>5. missed' \in BOOLEAN
      BY <3>1, <2>t, Zenon DEF UiTypes
    <3>6. heard' \in 0 .. MaxTurns
      BY <2>15, <2>t, ControlAssumption DEF WorkerReceives, UiTypes, LinkTypes, ControlAssumption
    <3>7. UiTypes'
      BY <2>t, <2>15, <3>4, <3>5, <3>6
      DEF WorkerReceives, UiTypes, slots, button, display, store
    <3>8. UNCHANGED calls
      BY <2>15 DEF WorkerReceives
    <3> QED
      BY <3>3, <3>7, <3>8, <2>t, SilentTypes
  <2>16. CASE UNCHANGED vars
    <3>1. UNCHANGED calls /\ UNCHANGED events
      BY <2>16 DEF vars, inbox
    <3>2. UiTypes'
      BY <2>t, <2>16 DEF vars, UiTypes, slots, button, display, inbox, store
    <3> QED
      BY <3>1, <3>2, <2>t, SilentTypes, QuietInbox
  <2> QED
    BY <2>1, <2>2, <2>3, <2>4, <2>5, <2>6, <2>7, <2>8, <2>9, <2>10, <2>11, <2>12,
       <2>13, <2>14, <2>15, <2>16
    DEF Next, User, Handler, Worker, Over
<1> QED
  BY <1>1, <1>2, PTL DEF Spec

-----------------------------------------------------------------------------
(* One worker at a time *)

\* Where the UI thread may be, and the flags that go with it.
UiInv ==
  /\ ui \in {"joining", "quitting", "gone"} => slot = 0
  /\ ui \in {"config", "ptt_on"} => held /\ ~pttActive
  /\ ui = "send" => pttActive
  /\ pttActive => held /\ talk # 0
  /\ slot # 0 => slot = sessions
  /\ talk <= sessions

LEMMA UiInvHolds == Spec => []UiInv
<1> USE DEF UiInv
<1>1. Init => UiInv
  BY DEF Init
<1>2. TypeOK /\ UiInv /\ [Next]_vars => UiInv'
  <2> SUFFICES ASSUME TypeOK, UiInv, [Next]_vars PROVE UiInv'
    OBVIOUS
  <2> USE DEF slots, button
  <2>t. sessions \in Nat /\ slot \in Nat /\ talk \in Nat /\ held \in BOOLEAN /\ pttActive \in BOOLEAN
    BY ControlAssumption DEF TypeOK, ControlAssumption
  <2>1. CASE Press
    BY <2>1, <2>t DEF Press, Notice, slots, button
  <2>2. CASE SendCodecConfig
    BY <2>2, <2>t DEF SendCodecConfig, Submit, Link!Accept, Goto, Notice, slots, button
  <2>3. CASE SendPttOn
    <3>1. ui = "ptt_on" /\ ui' = "idle" /\ UNCHANGED <<held, sessions, slot>>
      BY <2>3 DEF SendPttOn, Goto, slots
    <3>2. CASE slot # 0 /\ talk' = slot
      BY <3>1, <3>2, <2>t
    <3>3. CASE UNCHANGED <<pttActive, talk>>
      BY <3>1, <3>3, <2>t
    <3> QED
      BY <2>3, <3>2, <3>3 DEF SendPttOn, CanSubmit
  <2>4. CASE Release
    BY <2>4, <2>t DEF Release, EndTalk, Submit, Link!Accept, ClearPtt, Notice, slots, button
  <2>5. CASE Connect
    BY <2>5, <2>t DEF Connect, NewSession, NewInbox, Notice, slots, button
  <2>6. ASSUME NEW to \in {"joining", "quitting"}, Disconnect(to) PROVE UiInv'
    BY <2>6, <2>t DEF Disconnect, Link!Close, Goto, slots, button
  <2>7. CASE SaveProfile
    BY <2>7, <2>t DEF SaveProfile, slots, button
  <2>8. CASE TimerFires
    BY <2>8, <2>t DEF TimerFires, slots, button
  <2>9. CASE DisconnectEnds
    BY <2>9, <2>t DEF DisconnectEnds, Joined, ShowDisconnected, Goto, slots, button
  <2>10. CASE SendFrame
    BY <2>10, <2>t DEF SendFrame, Submit, Link!Accept, slots, button
  <2>11. CASE FramesEnd
    BY <2>11, <2>t DEF FramesEnd, Goto, slots, button
  <2>12. CASE HandleEvent
    BY <2>12, <2>t DEF HandleEvent, slots, button
  <2>13. CASE TimerEnds
    BY <2>13, <2>t DEF TimerEnds, Goto, slots, button
  <2>14. CASE WorkerJoins \/ WorkerSends \/ WorkerLeaves
    BY <2>14, <2>t DEF WorkerJoins, WorkerSends, WorkerLeaves, WorkerOffers, slots, button
  <2>15. CASE WorkerReceives
    BY <2>15, <2>t DEF WorkerReceives, slots, button
  <2>16. CASE UNCHANGED vars
    BY <2>16, <2>t DEF vars, slots, button
  <2> QED
    BY <2>1, <2>2, <2>3, <2>4, <2>5, <2>6, <2>7, <2>8, <2>9, <2>10, <2>11, <2>12,
       <2>13, <2>14, <2>15, <2>16
    DEF Next, User, Handler, Worker, Over
<1> QED
  BY <1>1, <1>2, TypeCorrect, PTL DEF Spec

\* A worker runs only while its session is in the slot, or while the UI thread
\* waits for it to leave (on_connect_relay, on_disconnect_relay, end of main).
THEOREM OnlyOneWorker == Spec => []OneWorker
<1>1. Init => OneWorker
  BY DEF Init, OneWorker
<1>2. TypeOK /\ UiInv /\ OneWorker /\ [Next]_vars => OneWorker'
  <2> SUFFICES ASSUME TypeOK, UiInv, OneWorker, [Next]_vars PROVE OneWorker'
    OBVIOUS
  <2> USE DEF UiInv, OneWorker, slots, calls, link
  <2>t. sessions \in Nat /\ slot \in Nat /\ closing \in BOOLEAN
    BY ControlAssumption DEF TypeOK, ControlAssumption
  <2>1. CASE Press
    BY <2>1, <2>t DEF Press, Notice, slots, calls, link
  <2>2. CASE SendCodecConfig
    BY <2>2, <2>t DEF SendCodecConfig, Submit, Link!Accept, Goto, Notice, slots, calls, link
  <2>3. CASE SendPttOn
    <3>1. UNCHANGED <<phase, closing>>
      BY <2>3 DEF SendPttOn, Submit, Link!Accept, calls, link
    <3> QED
      BY <2>3, <3>1 DEF SendPttOn, Goto, slots
  <2>4. CASE Release
    BY <2>4, <2>t DEF Release, EndTalk, Submit, Link!Accept, ClearPtt, Notice, slots, calls, link
  <2>5. CASE Connect
    BY <2>5, <2>t DEF Connect, NewSession
  <2>6. ASSUME NEW to \in {"joining", "quitting"}, Disconnect(to) PROVE OneWorker'
    BY <2>6, <2>t DEF Disconnect, Link!Close, Goto, slots, calls, link
  <2>7. CASE SaveProfile
    BY <2>7, <2>t DEF SaveProfile, slots, calls, link
  <2>8. CASE TimerFires
    BY <2>8, <2>t DEF TimerFires, slots, calls, link
  <2>9. CASE DisconnectEnds
    BY <2>9, <2>t DEF DisconnectEnds, Joined, ShowDisconnected, Goto, slots, calls, link
  <2>10. CASE SendFrame
    BY <2>10, <2>t DEF SendFrame, Submit, Link!Accept, slots, calls, link
  <2>11. CASE FramesEnd
    BY <2>11, <2>t DEF FramesEnd, Goto, slots, calls, link
  <2>12. CASE HandleEvent
    BY <2>12, <2>t DEF HandleEvent, slots, calls, link
  <2>13. CASE TimerEnds
    BY <2>13, <2>t DEF TimerEnds, Goto, slots, calls, link
  <2>14. CASE WorkerJoins \/ WorkerSends \/ WorkerLeaves
    BY <2>14, <2>t DEF WorkerJoins, WorkerSends, WorkerLeaves, WorkerOffers, Link!Join,
       Link!Settle, Link!Keepalive, Link!Leave
  <2>15. CASE WorkerReceives
    BY <2>15, <2>t DEF WorkerReceives, slots, calls, link
  <2>16. CASE UNCHANGED vars
    BY <2>16, <2>t DEF vars, slots, calls, link
  <2> QED
    BY <2>1, <2>2, <2>3, <2>4, <2>5, <2>6, <2>7, <2>8, <2>9, <2>10, <2>11, <2>12,
       <2>13, <2>14, <2>15, <2>16
    DEF Next, User, Handler, Worker, Over
<1> QED
  BY <1>1, <1>2, TypeCorrect, UiInvHolds, PTL DEF Spec

-----------------------------------------------------------------------------
(* The window *)

\* The labels agree with the slot, except inside Disconnect.
THEOREM LabelsAreRight == Spec => []LabelsMatchSession
<1>1. Init => LabelsMatchSession
  BY DEF Init, LabelsMatchSession
<1>2. TypeOK /\ UiInv /\ LabelsMatchSession /\ [Next]_vars => LabelsMatchSession'
  <2> SUFFICES ASSUME TypeOK, UiInv, LabelsMatchSession, [Next]_vars
               PROVE  LabelsMatchSession'
    OBVIOUS
  <2>t. sessions \in Nat
    BY ControlAssumption DEF TypeOK, ControlAssumption
  <2> USE DEF UiInv, LabelsMatchSession, slots, display
  <2>1. CASE Press
    BY <2>1 DEF Press, Notice, slots, display
  <2>2. CASE SendCodecConfig
    BY <2>2 DEF SendCodecConfig, Submit, Link!Accept, Goto, Notice, slots, display
  <2>3. CASE SendPttOn
    BY <2>3 DEF SendPttOn, CanSubmit, Goto, Notice
  <2>4. CASE Release
    BY <2>4 DEF Release, Notice, CanSubmit, slots, display
  <2>5. CASE Connect
    BY <2>5, <2>t DEF Connect, Notice, slots, display
  <2>6. ASSUME NEW to \in {"joining", "quitting"}, Disconnect(to) PROVE LabelsMatchSession'
    BY <2>6 DEF Disconnect, Link!Close, Goto, slots, display
  <2>7. CASE SaveProfile
    BY <2>7 DEF SaveProfile, slots, display
  <2>8. CASE TimerFires
    BY <2>8 DEF TimerFires, slots, display
  <2>9. CASE DisconnectEnds
    BY <2>9 DEF DisconnectEnds, Joined, ShowDisconnected, Goto, slots, display
  <2>10. CASE SendFrame
    BY <2>10 DEF SendFrame, Submit, Link!Accept, slots, display
  <2>11. CASE FramesEnd
    BY <2>11 DEF FramesEnd, Goto, slots, display
  <2>12. CASE HandleEvent
    BY <2>12 DEF HandleEvent, slots
  <2>13. CASE TimerEnds
    BY <2>13 DEF TimerEnds, Goto, slots, display
  <2>14. CASE WorkerJoins \/ WorkerSends \/ WorkerLeaves
    BY <2>14 DEF WorkerJoins, WorkerSends, WorkerLeaves, WorkerOffers, slots, display
  <2>15. CASE WorkerReceives
    BY <2>15 DEF WorkerReceives, slots, display
  <2>16. CASE UNCHANGED vars
    BY <2>16 DEF vars, slots, display
  <2> QED
    BY <2>1, <2>2, <2>3, <2>4, <2>5, <2>6, <2>7, <2>8, <2>9, <2>10, <2>11, <2>12,
       <2>13, <2>14, <2>15, <2>16
    DEF Next, User, Handler, Worker, Over
<1> QED
  BY <1>1, <1>2, TypeCorrect, UiInvHolds, PTL DEF Spec

\* The sender of the stored profile is the session's, until it is changed.
RenamedInv == slot # 0 /\ profile.sender # opened => renamed

\* Mute-self mutes the user's own frames only, unless the profile was given
\* another sender while the session was open.
THEOREM MuteMutesOneself == Spec => []MuteIsOneself
<1>1. Init => RenamedInv /\ MuteIsOneself
  BY DEF Init, RenamedInv, MuteIsOneself
<1>2. RenamedInv /\ MuteIsOneself /\ [Next]_vars => (RenamedInv /\ MuteIsOneself)'
  <2> SUFFICES ASSUME RenamedInv, MuteIsOneself, [Next]_vars
               PROVE  (RenamedInv /\ MuteIsOneself)'
    OBVIOUS
  <2> USE DEF RenamedInv, MuteIsOneself, slots, store
  <2>1. CASE Press
    BY <2>1 DEF Press, Notice, slots, store
  <2>2. CASE SendCodecConfig
    BY <2>2 DEF SendCodecConfig, Submit, Link!Accept, Goto, Notice, slots, store
  <2>3. CASE SendPttOn
    BY <2>3 DEF SendPttOn, Submit, Link!Accept, CanSubmit, Goto, Notice, slots, store
  <2>4. CASE Release
    BY <2>4 DEF Release, EndTalk, Submit, Link!Accept, ClearPtt, Notice, slots, store
  <2>5. CASE Connect
    BY <2>5 DEF Connect, NewSession, NewInbox, Notice, slots, store
  <2>6. ASSUME NEW to \in {"joining", "quitting"}, Disconnect(to) PROVE (RenamedInv /\ MuteIsOneself)'
    BY <2>6 DEF Disconnect, NewInbox
  <2>7. CASE SaveProfile
    <3>1. PICK s \in Senders, m \in BOOLEAN :
            /\ profile' = [sender |-> s, mute |-> m]
            /\ renamed' = (renamed \/ (slot # 0 /\ s # opened))
      BY <2>7, Zenon DEF SaveProfile
    <3>2. profile'.sender = s
      BY <3>1
    <3>3. UNCHANGED <<slot, opened, misheard>>
      BY <2>7 DEF SaveProfile
    <3> QED
      BY <3>1, <3>2, <3>3, Zenon
  <2>8. CASE TimerFires
    BY <2>8 DEF TimerFires, slots, store
  <2>9. CASE DisconnectEnds
    BY <2>9 DEF DisconnectEnds, Joined, ShowDisconnected, Goto, slots, store
  <2>10. CASE SendFrame
    BY <2>10 DEF SendFrame, Submit, Link!Accept, slots, store
  <2>11. CASE FramesEnd
    BY <2>11 DEF FramesEnd, Goto, slots, store
  <2>12. CASE HandleEvent
    BY <2>12, Zenon DEF HandleEvent, Mutes
  <2>13. CASE TimerEnds
    BY <2>13 DEF TimerEnds, Goto, slots, store
  <2>14. CASE WorkerJoins \/ WorkerSends \/ WorkerLeaves
    BY <2>14 DEF WorkerJoins, WorkerSends, WorkerLeaves, WorkerOffers, slots, store
  <2>15. CASE WorkerReceives
    BY <2>15 DEF WorkerReceives, slots, store
  <2>16. CASE UNCHANGED vars
    BY <2>16 DEF vars, slots, store
  <2> QED
    BY <2>1, <2>2, <2>3, <2>4, <2>5, <2>6, <2>7, <2>8, <2>9, <2>10, <2>11, <2>12,
       <2>13, <2>14, <2>15, <2>16
    DEF Next, User, Handler, Worker, Over
<1> QED
  BY <1>1, <1>2, PTL DEF Spec

-----------------------------------------------------------------------------
(* What a session is asked for *)

Announced(s) ==
  \A j \in 1 .. Len(s) :
    /\ s[j] = "PttOn" => j > 1 /\ s[j - 1] = "CodecConfig"
    /\ s[j] = "Frame" => j > 1 /\ s[j - 1] \in {"PttOn", "Frame"}
    /\ s[j] = "OldFrame" => \A i \in 1 .. j - 1 : s[i] = "OldFrame"

AllOld(s) == \A i \in 1 .. Len(s) : s[i] = "OldFrame"

\* What may be asked for next.
MayFollow(s, what) ==
  \/ what \in {"CodecConfig", "PttOff"}
  \/ what = "PttOn" /\ Len(s) > 0 /\ s[Len(s)] = "CodecConfig"
  \/ what = "Frame" /\ Len(s) > 0 /\ s[Len(s)] \in {"PttOn", "Frame"}
  \/ what = "OldFrame" /\ AllOld(s)

\* Where a talk and a press stand in what the session was asked for.
AskedInv ==
  /\ Announced(asked)
  /\ ui = "ptt_on" => Len(asked) > 0 /\ asked[Len(asked)] = "CodecConfig"
  /\ (pttActive /\ slot # 0 /\ talk = slot) =>
       Len(asked) > 0 /\ asked[Len(asked)] \in {"PttOn", "Frame"}
  /\ (pttActive /\ slot # 0 /\ talk # slot) => AllOld(asked)

LEMMA NextAnnounced ==
  ASSUME NEW s \in Seq(Ask), NEW t \in Seq(Ask), NEW what \in Ask,
         Announced(s), MayFollow(s, what),
         Len(t) = Len(s) + 1,
         \A i \in 1 .. Len(s) : t[i] = s[i],
         t[Len(s) + 1] = what
  PROVE  /\ Announced(t)
         /\ Len(t) > 0
         /\ t[Len(t)] = what
         /\ AllOld(s) /\ what = "OldFrame" => AllOld(t)
<1>1. Len(s) \in Nat /\ Len(t) \in Nat
  OBVIOUS
<1>2. AllOld(s) /\ what = "OldFrame" => AllOld(t)
  BY <1>1 DEF AllOld
<1>3. ASSUME NEW j \in 1 .. Len(t)
      PROVE  /\ t[j] = "PttOn" => j > 1 /\ t[j - 1] = "CodecConfig"
             /\ t[j] = "Frame" => j > 1 /\ t[j - 1] \in {"PttOn", "Frame"}
             /\ t[j] = "OldFrame" => \A i \in 1 .. j - 1 : t[i] = "OldFrame"
  <2>1. CASE j \in 1 .. Len(s)
    <3>1. t[j] = s[j] /\ \A i \in 1 .. j - 1 : t[i] = s[i]
      BY <1>1, <2>1
    <3>2. /\ s[j] = "PttOn" => j > 1 /\ s[j - 1] = "CodecConfig"
          /\ s[j] = "Frame" => j > 1 /\ s[j - 1] \in {"PttOn", "Frame"}
          /\ s[j] = "OldFrame" => \A i \in 1 .. j - 1 : s[i] = "OldFrame"
      BY <2>1 DEF Announced
    <3> QED
      BY <3>1, <3>2, <2>1, <1>1
  <2>2. CASE j = Len(s) + 1
    <3>1. t[j] = what /\ \A i \in 1 .. j - 1 : t[i] = s[i]
      BY <1>1, <2>2
    <3> QED
      BY <3>1, <2>2, <1>1 DEF MayFollow, AllOld
  <2> QED
    BY <2>1, <2>2, <1>1
<1>4. Announced(t)
  BY <1>3, Zenon DEF Announced
<1> QED
  BY <1>1, <1>2, <1>4

\* A submitted command that may come next keeps what the session is asked for
\* in order, and is its last one.
LEMMA SubmitAnnounced ==
  ASSUME TypeOK, AskedInv, NEW op \in {"Control", "Pcm"}, NEW what \in Ask,
         Submit(op, what), MayFollow(asked, what)
  PROVE  /\ Announced(asked')
         /\ Len(asked') > 0
         /\ asked'[Len(asked')] = what
         /\ AllOld(asked) /\ what = "OldFrame" => AllOld(asked')
<1>1. LinkTypes /\ AskedTypes
  BY TypeParts
<1>2. /\ AskedTypes'
      /\ Len(asked') = Len(asked) + 1
      /\ \A i \in 1 .. Len(asked) : asked'[i] = asked[i]
      /\ asked'[Len(asked) + 1] = what
  BY <1>1, SubmitTypes
<1>3. asked \in Seq(Ask) /\ asked' \in Seq(Ask) /\ Announced(asked)
  BY <1>1, <1>2 DEF AskedTypes, AskedInv
<1> QED
  BY <1>2, <1>3, NextAnnounced

\* However full the channel and whenever the timer fires, the frames of a talk
\* that a session accepted follow its CodecConfig and PttOn; the frames a session
\* has no PttOn for, which the code sends after a reconnect with the button held,
\* are of a talk accepted before, go on only while the button is down, and come
\* before the session's first PTT control (on_ptt_pressed, on_ptt_released,
\* on_disconnect_relay, the timer).
THEOREM UnannouncedAudioIsHeldOver == Spec => []AudioIsAnnounced
<1>1. Init => AskedInv
  <2> SUFFICES ASSUME Init PROVE AskedInv
    OBVIOUS
  <2>1. asked = <<>> /\ ui = "idle" /\ slot = 0
    BY DEF Init
  <2> QED
    BY <2>1 DEF AskedInv, Announced
<1>2. TypeOK /\ UiInv /\ AskedInv /\ [Next]_vars => AskedInv'
  <2> SUFFICES ASSUME TypeOK, UiInv, AskedInv, [Next]_vars PROVE AskedInv'
    OBVIOUS
  <2>0. ASSUME UNCHANGED asked,
               ui' = "ptt_on" => ui = "ptt_on",
               slot' # 0 => slot' = slot,
               pttActive' => pttActive,
               talk' = talk
        PROVE  AskedInv'
    <3>1. Announced(asked') <=> Announced(asked)
      BY <2>0
    <3>2. AllOld(asked') <=> AllOld(asked)
      BY <2>0
    <3> QED
      BY <2>0, <3>1, <3>2 DEF AskedInv
  <2>1. CASE Press
    <3>1. ~pttActive /\ UNCHANGED <<pttActive, asked>> /\ ui' # "ptt_on"
      BY <2>1 DEF Press, UiInv, calls
    <3>2. Announced(asked') <=> Announced(asked)
      BY <3>1
    <3> QED
      BY <3>1, <3>2 DEF AskedInv
  <2>2. CASE SendCodecConfig
    <3>1. CASE Submit("Control", "CodecConfig")
      <4>1. Announced(asked') /\ Len(asked') > 0 /\ asked'[Len(asked')] = "CodecConfig"
        BY <3>1, SubmitAnnounced DEF MayFollow, Ask
      <4>2. ~pttActive'
        BY <2>2 DEF SendCodecConfig, Goto, UiInv, button
      <4> QED
        BY <4>1, <4>2 DEF AskedInv
    <3>2. CASE ui' = "idle" /\ UNCHANGED calls
      BY <2>2, <2>0, <3>2 DEF SendCodecConfig, calls, slots, button
    <3> QED
      BY <2>2, <3>1, <3>2 DEF SendCodecConfig, Goto
  <2>3. CASE SendPttOn
    <3>1. CASE Submit("Control", "PttOn") /\ talk' = slot
      <4>1. MayFollow(asked, "PttOn")
        BY <2>3 DEF SendPttOn, Goto, AskedInv, MayFollow
      <4>2. Announced(asked') /\ Len(asked') > 0 /\ asked'[Len(asked')] = "PttOn"
        BY <3>1, <4>1, SubmitAnnounced DEF Ask
      <4>3. ui' = "idle" /\ slot' = slot
        BY <2>3 DEF SendPttOn, Goto, slots
      <4> QED
        BY <3>1, <4>2, <4>3 DEF AskedInv
    <3>2. CASE UNCHANGED <<calls, pttActive, talk>>
      BY <2>3, <2>0, <3>2 DEF SendPttOn, Goto, calls, slots
    <3> QED
      BY <2>3, <3>1, <3>2 DEF SendPttOn
  <2>4. CASE Release
    <3>1. CASE EndTalk
      <4>1. Announced(asked')
        BY <3>1, SubmitAnnounced DEF EndTalk, MayFollow, Ask
      <4>2. ui' = "idle" /\ ~pttActive'
        BY <2>4 DEF Release, ClearPtt
      <4> QED
        BY <4>1, <4>2 DEF AskedInv
    <3>2. CASE UNCHANGED calls
      BY <2>4, <2>0, <3>2 DEF Release, ClearPtt, calls, slots
    <3> QED
      BY <2>4, <3>1, <3>2 DEF Release
  <2>5. CASE Connect
    <3>1. CASE UNCHANGED <<slots, calls>>
      BY <2>5, <2>0, <3>1 DEF Connect, slots, calls
    <3>2. CASE NewSession /\ slot' = sessions' /\ sessions' = sessions + 1
      <4>1. asked' = <<>>
        BY <3>2 DEF NewSession
      <4>2. Announced(asked') /\ AllOld(asked')
        BY <4>1 DEF Announced, AllOld
      <4>3. talk' # slot'
        <5>1. sessions \in Nat /\ talk \in Nat
          BY ControlAssumption DEF TypeOK, ControlAssumption
        <5>2. talk' = talk /\ talk <= sessions
          BY <2>5 DEF Connect, UiInv
        <5> QED
          BY <3>2, <5>1, <5>2
      <4>4. ui' = "idle"
        BY <2>5 DEF Connect
      <4> QED
        BY <4>2, <4>3, <4>4 DEF AskedInv
    <3> QED
      BY <2>5, <3>1, <3>2 DEF Connect
  <2>6. ASSUME NEW to \in {"joining", "quitting"}, Disconnect(to) PROVE AskedInv'
    BY <2>6, <2>0 DEF Disconnect, Goto, button, slots
  <2>7. CASE SaveProfile
    BY <2>7, <2>0 DEF SaveProfile, slots, button, calls
  <2>8. CASE TimerFires
    BY <2>8, <2>0 DEF TimerFires, slots, button, calls
  <2>9. CASE DisconnectEnds
    BY <2>9, <2>0 DEF DisconnectEnds, Goto, slots, button, calls
  <2>10. CASE SendFrame
    <3>1. CASE Submit("Pcm", IF talk = slot THEN "Frame" ELSE "OldFrame") /\ CanSubmit
      <4>1. pttActive /\ slot # 0
        BY <2>10, <3>1 DEF SendFrame, CanSubmit, UiInv
      <4>2. /\ ui' # "ptt_on"
            /\ UNCHANGED <<slot, talk, pttActive>>
        BY <2>10 DEF SendFrame, slots, button
      <4>3. CASE talk = slot
        <5>1. Submit("Pcm", "Frame") /\ MayFollow(asked, "Frame")
          BY <3>1, <4>1, <4>3 DEF AskedInv, MayFollow
        <5>2. Announced(asked') /\ Len(asked') > 0 /\ asked'[Len(asked')] = "Frame"
          BY <5>1, SubmitAnnounced DEF Ask
        <5> QED
          BY <5>2, <4>2, <4>3 DEF AskedInv
      <4>4. CASE talk # slot
        <5>1. Submit("Pcm", "OldFrame") /\ MayFollow(asked, "OldFrame") /\ AllOld(asked)
          BY <3>1, <4>1, <4>4 DEF AskedInv, MayFollow
        <5>2. Announced(asked') /\ AllOld(asked')
          BY <5>1, SubmitAnnounced DEF Ask
        <5> QED
          BY <5>2, <4>2, <4>4 DEF AskedInv
      <4> QED
        BY <4>3, <4>4
    <3>2. CASE UNCHANGED calls
      BY <2>10, <2>0, <3>2 DEF SendFrame, calls, slots, button
    <3> QED
      BY <2>10, <3>1, <3>2 DEF SendFrame
  <2>11. CASE FramesEnd
    BY <2>11, <2>0 DEF FramesEnd, Goto, slots, button, calls
  <2>12. CASE HandleEvent
    BY <2>12, <2>0 DEF HandleEvent, slots, button, calls
  <2>13. CASE TimerEnds
    BY <2>13, <2>0 DEF TimerEnds, Goto, slots, button, calls
  <2>14. CASE WorkerJoins \/ WorkerSends \/ WorkerLeaves
    <3>1. UNCHANGED <<asked, ui, button>>
      BY <2>14 DEF WorkerJoins, WorkerSends, WorkerLeaves, WorkerOffers
    <3>2. UNCHANGED slots
      BY <2>14 DEF WorkerJoins, WorkerSends, WorkerLeaves, WorkerOffers
    <3> QED
      BY <3>1, <3>2, <2>0 DEF slots, button
  <2>15. CASE WorkerReceives
    BY <2>15, <2>0 DEF WorkerReceives, slots, button, calls
  <2>16. CASE UNCHANGED vars
    BY <2>16, <2>0 DEF vars, slots, button, calls
  <2> QED
    BY <2>1, <2>2, <2>3, <2>4, <2>5, <2>6, <2>7, <2>8, <2>9, <2>10, <2>11, <2>12,
       <2>13, <2>14, <2>15, <2>16
    DEF Next, User, Handler, Worker, Over
<1>3. UiInv /\ AskedInv => AudioIsAnnounced
  BY DEF UiInv, AskedInv, Announced, AudioIsAnnounced
<1> QED
  BY <1>1, <1>2, <1>3, TypeCorrect, UiInvHolds, PTL DEF Spec

-----------------------------------------------------------------------------
(* The talker on display *)

\* A talker t on display, the events es still to be read and the talker r that
\* the relay last named are in step.
InStep(es, t, r) ==
  /\ (\A i \in 1 .. Len(es) : ~Shows(es[i])) => t = r
  /\ \A i \in 1 .. Len(es) :
       (Shows(es[i]) /\ \A j \in i + 1 .. Len(es) : ~Shows(es[j])) => es[i].sender = r

TalkerInv == (slot # 0 /\ ~missed) => InStep(events, talker, relayTalker)

\* Other events behind those to be read change nothing.
LEMMA QuietGrowth ==
  ASSUME NEW es \in Seq(Event), NEW fs \in Seq(Event), NEW t, NEW r,
         InStep(es, t, r), Len(es) <= Len(fs),
         \A i \in 1 .. Len(es) : fs[i] = es[i],
         \A i \in Len(es) + 1 .. Len(fs) : ~Shows(fs[i])
  PROVE  InStep(fs, t, r)
<1>1. Len(es) \in Nat /\ Len(fs) \in Nat
  OBVIOUS
<1>2. (\A i \in 1 .. Len(fs) : ~Shows(fs[i])) => t = r
  <2> SUFFICES ASSUME \A i \in 1 .. Len(fs) : ~Shows(fs[i]) PROVE t = r
    OBVIOUS
  <2>1. \A i \in 1 .. Len(es) : i \in 1 .. Len(fs) /\ fs[i] = es[i]
    BY <1>1
  <2>2. \A i \in 1 .. Len(es) : ~Shows(es[i])
    BY <2>1
  <2> QED
    BY <2>2, Zenon DEF InStep
<1>3. ASSUME NEW i \in 1 .. Len(fs), Shows(fs[i]),
             \A j \in i + 1 .. Len(fs) : ~Shows(fs[j])
      PROVE  fs[i].sender = r
  <2>1. i \in 1 .. Len(es)
    BY <1>1, <1>3
  <2>2. fs[i] = es[i]
    BY <2>1
  <2>3. \A j \in i + 1 .. Len(es) : j \in i + 1 .. Len(fs) /\ fs[j] = es[j]
    BY <1>1, <2>1
  <2>4. \A j \in i + 1 .. Len(es) : ~Shows(es[j])
    BY <1>3, <2>3
  <2>5. Shows(es[i])
    BY <1>3, <2>2
  <2>6. es[i].sender = r
    BY <2>1, <2>4, <2>5, Zenon DEF InStep
  <2> QED
    BY <2>2, <2>6
<1> QED
  BY <1>2, <1>3, Zenon DEF InStep

\* A Grant or a Release behind them names the talker.
LEMMA ShownGrowth ==
  ASSUME NEW es \in Seq(Event), NEW fs \in Seq(Event), NEW t, NEW e \in Event,
         Shows(e), Len(fs) = Len(es) + 1, fs[Len(es) + 1] = e
  PROVE  InStep(fs, t, e.sender)
<1>1. Len(es) \in Nat /\ Len(fs) \in Nat
  OBVIOUS
<1>2. ~(\A i \in 1 .. Len(fs) : ~Shows(fs[i]))
  <2>1. Len(es) + 1 \in 1 .. Len(fs) /\ Shows(fs[Len(es) + 1])
    BY <1>1
  <2> QED
    BY <2>1
<1>3. ASSUME NEW i \in 1 .. Len(fs), Shows(fs[i]),
             \A j \in i + 1 .. Len(fs) : ~Shows(fs[j])
      PROVE  fs[i].sender = e.sender
  <2>1. CASE i = Len(es) + 1
    BY <2>1
  <2>2. CASE i # Len(es) + 1
    <3>1. Len(es) + 1 \in i + 1 .. Len(fs)
      BY <1>1, <2>2
    <3>2. Shows(fs[Len(es) + 1])
      OBVIOUS
    <3> QED
      BY <3>1, <3>2, <1>3
  <2> QED
    BY <2>1, <2>2
<1> QED
  BY <1>2, <1>3, Zenon DEF InStep

\* Reading the first of them.
LEMMA ReadInStep ==
  ASSUME events \in Seq(Event), events # <<>>, NEW r, InStep(events, talker, r)
  PROVE  InStep(Tail(events), Shown(Head(events)), r)
<1> DEFINE e == Head(events)
           fs == Tail(events)
<1>1. /\ e \in Event /\ e = events[1]
      /\ fs \in Seq(Event)
      /\ Len(events) \in Nat \ {0}
      /\ Len(fs) = Len(events) - 1
      /\ \A i \in 1 .. Len(events) - 1 : fs[i] = events[i + 1]
  BY TakenFrom
<1>2. Shows(e) => Shown(e) = e.sender
  BY <1>1 DEF Shows, Shown, Event
<1>3. ~Shows(e) => Shown(e) = talker
  BY <1>1 DEF Shows, Shown
<1> HIDE DEF e, fs
<1>4. ASSUME \A i \in 1 .. Len(fs) : ~Shows(fs[i]) PROVE Shown(e) = r
  <2>1. ASSUME NEW j \in 2 .. Len(events) PROVE ~Shows(events[j])
    <3>1. j - 1 \in 1 .. Len(fs) /\ fs[j - 1] = events[j]
      BY <1>1, <2>1
    <3> QED
      BY <3>1, <1>4
  <2>2. CASE Shows(e)
    <3>1. 1 \in 1 .. Len(events) /\ Shows(events[1])
      BY <1>1, <2>2
    <3>2. \A j \in 1 + 1 .. Len(events) : ~Shows(events[j])
      BY <2>1
    <3>3. events[1].sender = r
      BY <3>1, <3>2, Zenon DEF InStep
    <3> QED
      BY <3>3, <1>1, <1>2, <2>2
  <2>3. CASE ~Shows(e)
    <3>1. \A j \in 1 .. Len(events) : ~Shows(events[j])
      <4> SUFFICES ASSUME NEW j \in 1 .. Len(events) PROVE ~Shows(events[j])
        OBVIOUS
      <4>1. CASE j = 1
        BY <4>1, <1>1, <2>3
      <4>2. CASE j # 1
        <5>1. j \in 2 .. Len(events)
          BY <4>2, <1>1
        <5> QED
          BY <5>1, <2>1
      <4> QED
        BY <4>1, <4>2
    <3>2. talker = r
      BY <3>1, Zenon DEF InStep
    <3> QED
      BY <3>2, <1>3, <2>3
  <2> QED
    BY <2>2, <2>3
<1>5. ASSUME NEW i \in 1 .. Len(fs), Shows(fs[i]),
             \A j \in i + 1 .. Len(fs) : ~Shows(fs[j])
      PROVE  fs[i].sender = r
  <2> DEFINE k == i + 1
  <2>1. k \in 1 .. Len(events) /\ fs[i] = events[k]
    BY <1>1
  <2>2. ASSUME NEW j \in k + 1 .. Len(events) PROVE ~Shows(events[j])
    <3>1. j - 1 \in i + 1 .. Len(fs) /\ fs[j - 1] = events[j]
      BY <1>1, <2>2
    <3> QED
      BY <3>1, <1>5
  <2>3. Shows(events[k])
    BY <1>5, <2>1
  <2> HIDE DEF k
  <2>4. events[k].sender = r
    BY <2>1, <2>2, <2>3, Zenon DEF InStep
  <2> QED
    BY <2>1, <2>4
<1>6. InStep(fs, Shown(e), r)
  BY <1>4, <1>5, Zenon DEF InStep
<1> QED
  BY <1>6 DEF e, fs

\* What the worker says of its own doing leaves them in step.
LEMMA WorkerInStep ==
  ASSUME EventTypes, slot # 0, NEW r, InStep(events, talker, r),
         WorkerJoins \/ WorkerSends \/ WorkerLeaves
  PROVE  InStep(events', talker, r)
<1>1. PICK o \in {Notification("Notice"), Notification("Other")} : o = Outcome
  BY Notifications
<1>2. PICK es : /\ es = <<Notification("Connected"), o>> \/ es = <<o>> \/ es = <<>>
                /\ WorkerOffers(es)
  BY <1>1 DEF WorkerJoins, WorkerSends, WorkerLeaves
<1>3. es \in Seq(Event) /\ \A i \in 1 .. Len(es) : ~Shows(es[i])
  BY <1>2, OwnEvents
<1>4. events' = Offered(es)
  BY <1>2 DEF WorkerOffers
<1>5. PICK fs : fs = Offered(es)
  OBVIOUS
<1>6. /\ fs \in Seq(Event)
      /\ Len(events) <= Len(fs)
      /\ Len(fs) <= Len(events) + Len(es)
      /\ \A i \in 1 .. Len(events) : fs[i] = events[i]
      /\ \A i \in 1 .. Len(fs) - Len(events) : fs[Len(events) + i] = es[i]
  BY <1>3, <1>5, OfferedEvents
<1>7. events \in Seq(Event) /\ Len(events) \in Nat /\ Len(fs) \in Nat /\ Len(es) \in Nat
  BY <1>3, <1>6 DEF EventTypes
<1>8. ASSUME NEW i \in Len(events) + 1 .. Len(fs) PROVE ~Shows(fs[i])
  <2> DEFINE k == i - Len(events)
  <2>1. /\ k \in 1 .. Len(fs) - Len(events)
        /\ k \in 1 .. Len(es)
        /\ Len(events) + k = i
    BY <1>6, <1>7
  <2> HIDE DEF k
  <2>2. fs[i] = es[k]
    BY <2>1, <1>6
  <2> QED
    BY <2>1, <2>2, <1>3
<1>9. InStep(fs, talker, r)
  BY <1>6, <1>7, <1>8, QuietGrowth
<1> QED
  BY <1>4, <1>5, <1>9

\* The talker on display is the relay's, once what was heard has been read, if
\* none of it was lost (update_talker_from_packet, on_disconnect_relay).
THEOREM TalkerStaysCurrent == Spec => []TalkerIsCurrent
<1>1. Init => TalkerInv
  BY DEF Init, TalkerInv
<1>2. TypeOK /\ UiInv /\ LabelsMatchSession /\ TalkerInv /\ [Next]_vars => TalkerInv'
  <2> SUFFICES ASSUME TypeOK, UiInv, LabelsMatchSession, TalkerInv, [Next]_vars
               PROVE  TalkerInv'
    OBVIOUS
  <2>t. EventTypes
    BY TypeParts
  <2>0. ASSUME UNCHANGED inbox, slot' # 0 => slot' = slot /\ talker' = talker
        PROVE  TalkerInv'
    <3>1. UNCHANGED <<events, relayTalker, missed>>
      BY <2>0 DEF inbox
    <3> QED
      BY <2>0, <3>1 DEF TalkerInv
  <2>1. CASE Press
    BY <2>1, <2>0 DEF Press, Notice, slots, display
  <2>2. CASE SendCodecConfig
    BY <2>2, <2>0 DEF SendCodecConfig, Notice, slots, display
  <2>3. CASE SendPttOn
    BY <2>3, <2>0 DEF SendPttOn, Notice, slots
  <2>4. CASE Release
    BY <2>4, <2>0 DEF Release, Notice, slots, display
  <2>5. CASE Connect
    <3>1. CASE UNCHANGED <<slots, inbox>> /\ Notice
      BY <3>1, <2>0 DEF Notice, slots
    <3>2. CASE slot = 0 /\ NewInbox /\ UNCHANGED talker
      <4>1. events' = <<>> /\ relayTalker' = NoOne
        BY <3>2 DEF NewInbox
      <4>2. talker' = NoOne
        BY <2>5, <3>2 DEF Connect, LabelsMatchSession
      <4>3. InStep(events', talker', relayTalker')
        BY <4>1, <4>2 DEF InStep
      <4> QED
        BY <4>3 DEF TalkerInv
    <3> QED
      BY <2>5, <3>1, <3>2 DEF Connect
  <2>6. ASSUME NEW to \in {"joining", "quitting"}, Disconnect(to) PROVE TalkerInv'
    BY <2>6, <2>0 DEF Disconnect, TalkerInv
  <2>7. CASE SaveProfile
    BY <2>7, <2>0 DEF SaveProfile, slots, display
  <2>8. CASE TimerFires
    BY <2>8, <2>0 DEF TimerFires, slots, display
  <2>9. CASE DisconnectEnds
    BY <2>9, <2>0 DEF DisconnectEnds, Goto, UiInv, slots, display
  <2>10. CASE SendFrame
    BY <2>10, <2>0 DEF SendFrame, slots, display
  <2>11. CASE FramesEnd
    BY <2>11, <2>0 DEF FramesEnd, slots, display
  <2>12. CASE HandleEvent
    <3>1. /\ events # <<>>
          /\ events' = Tail(events)
          /\ talker' = Shown(Head(events))
          /\ UNCHANGED <<relayTalker, missed>>
      BY <2>12 DEF HandleEvent
    <3>2. UNCHANGED slot
      BY <2>12 DEF HandleEvent, slots
    <3>3. ASSUME slot # 0, ~missed
          PROVE  InStep(Tail(events), Shown(Head(events)), relayTalker)
      BY <2>t, <3>1, <3>3, ReadInStep DEF EventTypes, TalkerInv
    <3> QED
      BY <3>1, <3>2, <3>3 DEF TalkerInv
  <2>13. CASE TimerEnds
    BY <2>13, <2>0 DEF TimerEnds, slots, display
  <2>14. CASE WorkerJoins \/ WorkerSends \/ WorkerLeaves
    <3>1. UNCHANGED <<slots, talker, relayTalker, missed>>
      BY <2>14 DEF WorkerJoins, WorkerSends, WorkerLeaves, WorkerOffers, display
    <3>2. UNCHANGED slot
      BY <3>1 DEF slots
    <3>3. ASSUME slot # 0, ~missed
          PROVE  InStep(events', talker, relayTalker)
      BY <2>14, <2>t, <3>3, WorkerInStep DEF TalkerInv
    <3> QED
      BY <3>1, <3>2, <3>3 DEF TalkerInv
  <2>15. CASE WorkerReceives
    <3>1. UNCHANGED <<slots, talker>>
      BY <2>15 DEF WorkerReceives, display
    <3>2. UNCHANGED slot
      BY <3>1 DEF slots
    <3>3. PICK e \in Event : /\ events' = Offered(<<e>>)
                             /\ relayTalker' = (IF Shows(e) THEN e.sender ELSE relayTalker)
                             /\ missed' = (missed \/ (Shows(e) /\ events' = events))
      BY <2>15 DEF WorkerReceives
    <3>4. SUFFICES ASSUME slot # 0, ~missed, ~missed'
                   PROVE  InStep(events', talker, relayTalker')
      BY <3>1, <3>2, <3>3 DEF TalkerInv
    <3>5. PICK fs : fs = Offered(<<e>>)
      OBVIOUS
    <3>6. <<e>> \in Seq(Event) /\ Len(<<e>>) = 1 /\ <<e>>[1] = e
      OBVIOUS
    <3>7. /\ fs \in Seq(Event)
          /\ Len(events) <= Len(fs)
          /\ Len(fs) <= Len(events) + 1
          /\ \A i \in 1 .. Len(events) : fs[i] = events[i]
          /\ \A i \in 1 .. Len(fs) - Len(events) : fs[Len(events) + i] = <<e>>[i]
      BY <2>t, <3>5, <3>6, OfferedEvents
    <3>8. events \in Seq(Event) /\ Len(events) \in Nat /\ Len(fs) \in Nat
      BY <2>t, <3>7 DEF EventTypes
    <3>9. Len(fs) = Len(events) \/ Len(fs) = Len(events) + 1
      BY <3>7, <3>8
    <3>10. Len(fs) = Len(events) + 1 => fs[Len(events) + 1] = e
      BY <3>6, <3>7, <3>8
    <3>11. InStep(events, talker, relayTalker)
      BY <3>4 DEF TalkerInv
    <3>12. CASE Shows(e)
      <4>1. fs # events
        BY <3>3, <3>4, <3>5, <3>12
      <4>2. Len(fs) = Len(events) + 1
        <5> SUFFICES ASSUME Len(fs) = Len(events) PROVE FALSE
          BY <3>9
        <5>1. fs = events
          BY <3>7, <3>8
        <5> QED
          BY <4>1, <5>1
      <4>3. InStep(fs, talker, e.sender)
        BY <3>7, <3>8, <3>10, <3>12, <4>2, ShownGrowth
      <4> QED
        BY <3>3, <3>5, <3>12, <4>3
    <3>13. CASE ~Shows(e)
      <4>1. ASSUME NEW i \in Len(events) + 1 .. Len(fs) PROVE ~Shows(fs[i])
        <5>1. Len(fs) = Len(events) + 1 /\ i = Len(events) + 1
          BY <3>8, <3>9
        <5> QED
          BY <5>1, <3>10, <3>13
      <4>2. InStep(fs, talker, relayTalker)
        BY <3>7, <3>8, <3>11, <4>1, QuietGrowth
      <4> QED
        BY <3>3, <3>5, <3>13, <4>2
    <3> QED
      BY <3>12, <3>13
  <2>16. CASE UNCHANGED vars
    BY <2>16, <2>0 DEF vars, slots, display
  <2> QED
    BY <2>1, <2>2, <2>3, <2>4, <2>5, <2>6, <2>7, <2>8, <2>9, <2>10, <2>11, <2>12,
       <2>13, <2>14, <2>15, <2>16
    DEF Next, User, Handler, Worker, Over
<1>3. TalkerInv => TalkerIsCurrent
  <2> SUFFICES ASSUME TalkerInv, slot # 0, ~missed,
                      \A i \in 1 .. Len(events) : ~Shows(events[i])
               PROVE  talker = relayTalker
    BY DEF TalkerIsCurrent
  <2> QED
    BY DEF TalkerInv, InStep
<1> QED
  BY <1>1, <1>2, <1>3, TypeCorrect, UiInvHolds, LabelsAreRight, PTL DEF Spec

-----------------------------------------------------------------------------
(* The end of a talk *)

Ended(s) ==
  \A k \in 1 .. Len(s) :
    s[k] = "PttOn" => \E j \in k + 1 .. Len(s) : s[j] = "PttOff"

\* With the button up, every PttOn has a PttOff behind it, or the last one was
\* refused.
EndedInv == (slot # 0 /\ ~held /\ ~refused) => Ended(asked)

\* A relay is left in a talk only by a PttOff that was refused, is not handled
\* yet, or was lost (on_ptt_released).
THEOREM OnlyLossLeavesATalk == Spec => []StuckTalkIsLoss
<1>1. Init => EndedInv
  BY DEF Init, EndedInv
<1>2. TypeOK /\ UiInv /\ EndedInv /\ [Next]_vars => EndedInv'
  <2> SUFFICES ASSUME TypeOK, UiInv, EndedInv, [Next]_vars PROVE EndedInv'
    OBVIOUS
  <2>t. held \in BOOLEAN /\ refused \in BOOLEAN
    BY DEF TypeOK
  <2>0. ASSUME UNCHANGED <<asked, refused>>, slot' # 0 => slot' = slot, held' = held
        PROVE  EndedInv'
    <3>1. Ended(asked') <=> Ended(asked)
      BY <2>0
    <3> QED
      BY <2>0, <3>1 DEF EndedInv
  <2>b. ASSUME held' PROVE EndedInv'
    BY <2>b DEF EndedInv
  <2>1. CASE Press
    BY <2>1, <2>b DEF Press
  <2>2. CASE SendCodecConfig
    <3>1. held'
      BY <2>2 DEF SendCodecConfig, Goto, UiInv, button
    <3> QED
      BY <3>1, <2>b
  <2>3. CASE SendPttOn
    <3>1. held'
      BY <2>3 DEF SendPttOn, Goto, UiInv
    <3> QED
      BY <3>1, <2>b
  <2>4. CASE Release
    <3>1. CASE EndTalk
      <4>1. LinkTypes /\ AskedTypes
        BY TypeParts
      <4>2. PICK s : s = asked'
        OBVIOUS
      <4>3. /\ Len(s) = Len(asked) + 1
            /\ s[Len(asked) + 1] = "PttOff"
            /\ \A i \in 1 .. Len(asked) : s[i] = asked[i]
            /\ Len(asked) \in Nat
        BY <3>1, <4>1, <4>2, SubmitTypes DEF EndTalk, Ask, AskedTypes
      <4>4. ASSUME NEW k \in 1 .. Len(s), s[k] = "PttOn"
            PROVE  \E j \in k + 1 .. Len(s) : s[j] = "PttOff"
        <5>1. Len(asked) + 1 \in k + 1 .. Len(s)
          BY <4>3, <4>4
        <5> QED
          BY <4>3, <5>1
      <4>5. Ended(s)
        BY <4>4 DEF Ended
      <4> QED
        BY <4>2, <4>5 DEF EndedInv
    <3>2. CASE refused'
      BY <3>2 DEF EndedInv
    <3>3. CASE slot = 0
      <4>1. slot' = 0
        BY <2>4, <3>3 DEF Release, slots
      <4> QED
        BY <4>1 DEF EndedInv
    <3> QED
      BY <2>4, <3>1, <3>2, <3>3 DEF Release
  <2>5. CASE Connect
    <3>1. CASE UNCHANGED <<slots, calls, refused>>
      BY <2>5, <2>0, <3>1 DEF Connect, slots, calls
    <3>2. CASE NewSession
      <4>1. asked' = <<>>
        BY <3>2 DEF NewSession
      <4>2. Ended(asked')
        BY <4>1 DEF Ended
      <4> QED
        BY <4>2 DEF EndedInv
    <3> QED
      BY <2>5, <3>1, <3>2 DEF Connect
  <2>6. ASSUME NEW to \in {"joining", "quitting"}, Disconnect(to) PROVE EndedInv'
    BY <2>6, <2>0 DEF Disconnect, button
  <2>7. CASE SaveProfile
    BY <2>7, <2>0 DEF SaveProfile, slots, button, calls
  <2>8. CASE TimerFires
    BY <2>8, <2>0 DEF TimerFires, slots, button, calls
  <2>9. CASE DisconnectEnds
    BY <2>9, <2>0 DEF DisconnectEnds, slots, button, calls
  <2>10. CASE SendFrame
    <3>1. held'
      BY <2>10 DEF SendFrame, UiInv, button
    <3> QED
      BY <3>1, <2>b
  <2>11. CASE FramesEnd
    BY <2>11, <2>0 DEF FramesEnd, slots, button, calls
  <2>12. CASE HandleEvent
    BY <2>12, <2>0 DEF HandleEvent, slots, button, calls
  <2>13. CASE TimerEnds
    BY <2>13, <2>0 DEF TimerEnds, slots, button, calls
  <2>14. CASE WorkerJoins \/ WorkerSends \/ WorkerLeaves
    <3>1. UNCHANGED <<slots, asked, button>>
      BY <2>14 DEF WorkerJoins, WorkerSends, WorkerLeaves, WorkerOffers
    <3> QED
      BY <3>1, <2>0 DEF slots, button
  <2>15. CASE WorkerReceives
    BY <2>15, <2>0 DEF WorkerReceives, slots, button, calls
  <2>16. CASE UNCHANGED vars
    BY <2>16, <2>0 DEF vars, slots, button, calls
  <2> QED
    BY <2>1, <2>2, <2>3, <2>4, <2>5, <2>6, <2>7, <2>8, <2>9, <2>10, <2>11, <2>12,
       <2>13, <2>14, <2>15, <2>16
    DEF Next, User, Handler, Worker, Over
<1>3. EndedInv => StuckTalkIsLoss
  <2> SUFFICES ASSUME EndedInv, slot # 0, ~held, ~refused,
                      NEW k \in 1 .. Len(asked), RelayHolds(k)
               PROVE  \E j \in k + 1 .. Len(asked) : asked[j] = "PttOff"
    BY DEF StuckTalkIsLoss
  <2>1. asked[k] = "PttOn"
    BY DEF RelayHolds
  <2> QED
    BY <2>1 DEF EndedInv, Ended
<1> QED
  BY <1>1, <1>2, <1>3, TypeCorrect, UiInvHolds, PTL DEF Spec

=============================================================================
