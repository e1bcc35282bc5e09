------------------------- MODULE RelaySessionProofs -------------------------
(***************************************************************************)
(* Proofs about RelaySession, for every capacity, modulus and bound.       *)
(***************************************************************************)
EXTENDS RelaySession, SequenceTheorems, TLAPS

-----------------------------------------------------------------------------
(* Type correctness *)

\* A bounded channel stays well typed and within its bound when an event is
\* offered to it.
LEMMA OfferType ==
  ASSUME NEW q \in Seq(Event), Len(q) <= EventCapacity, NEW e \in Event
  PROVE  /\ Offer(q, e) \in Seq(Event)
         /\ Len(Offer(q, e)) <= EventCapacity
<1>1. CASE Len(q) < EventCapacity
  BY <1>1, AppendProperties, LenProperties, SessionAssumption DEF Offer
<1>2. CASE ~(Len(q) < EventCapacity)
  BY <1>2 DEF Offer
<1> QED BY <1>1, <1>2

\* A wrapping counter keeps its range.
LEMMA WrapType ==
  ASSUME NEW m \in Nat \ {0}, NEW x \in 0 .. m - 1
  PROVE  WrappingIncrement(x, m) \in 0 .. m - 1
BY DEF WrappingIncrement

\* What sending a well-formed packet leaves behind is well typed.
LEMMA SendPacketType ==
  ASSUME TypeOK, NEW p \in Packet,
         NEW q \in Seq(Event), Len(q) <= EventCapacity, SendPacket(p, q)
  PROVE  /\ wire' \in Seq(Packet)
         /\ events' \in Seq(Event)
         /\ Len(events') <= EventCapacity
<1>1. "Sent" \in Event /\ "IoError" \in Event
  BY DEF Event
<1>2. wire \in Seq(Packet)
  BY DEF TypeOK
<1>3. Append(wire, p) \in Seq(Packet)
  BY <1>2, AppendProperties
<1>4. /\ wire' = wire \/ wire' = Append(wire, p)
      /\ events' = Offer(q, "Sent") \/ events' = Offer(q, "IoError")
  BY DEF SendPacket
<1>5. events' \in Seq(Event) /\ Len(events') <= EventCapacity
  BY <1>1, <1>4, OfferType
<1> QED BY <1>2, <1>3, <1>4, <1>5

\* The packets the worker builds are well formed.
LEMMA PacketTypes ==
  ASSUME TypeOK, NEW id \in Nat
  PROVE  /\ \A kind \in PacketKind : StampedPacket(kind, id) \in Packet
         /\ AudioPacket(id) \in Packet
         /\ RawPacket(id) \in Packet
<1> USE SessionAssumption DEF TypeOK, Packet, PacketKind
<1>1. \A kind \in PacketKind : StampedPacket(kind, id) \in Packet
  BY DEF StampedPacket
<1>2. AudioPacket(id) \in Packet
  BY DEF AudioPacket
<1>3. RawPacket(id) \in Packet
  BY DEF RawPacket
<1> QED BY <1>1, <1>2, <1>3

\* A control packet of the worker's keeps the types of all it writes.
LEMMA SendControlType ==
  ASSUME TypeOK, NEW id \in Nat, NEW kind \in PacketKind,
         NEW q \in Seq(Event), Len(q) <= EventCapacity,
         SendControl(kind, id, q)
  PROVE  /\ wire' \in Seq(Packet)
         /\ events' \in Seq(Event) /\ Len(events') <= EventCapacity
         /\ sequence' \in 0 .. SeqModulus - 1
         /\ issued' \in Nat
         /\ UNCHANGED <<audioSequence, nonce, frames>>
<1>1. StampedPacket(kind, id) \in Packet
  BY PacketTypes
<1>2. SendPacket(StampedPacket(kind, id), q)
  BY DEF SendControl
<1>3. /\ wire' \in Seq(Packet)
      /\ events' \in Seq(Event) /\ Len(events') <= EventCapacity
  BY <1>1, <1>2, SendPacketType
<1>4. sequence' \in 0 .. SeqModulus - 1 /\ issued' \in Nat
  BY WrapType, SessionAssumption DEF SendControl, AdvanceSequence, TypeOK
<1> QED BY <1>3, <1>4 DEF SendControl

\* So does the handler of any command.
LEMMA HandleCommandType ==
  ASSUME TypeOK, NEW c \in Command, HandleCommand(c)
  PROVE  /\ wire' \in Seq(Packet)
         /\ events' \in Seq(Event) /\ Len(events') <= EventCapacity
         /\ sequence' \in 0 .. SeqModulus - 1
         /\ audioSequence' \in 0 .. SeqModulus - 1
         /\ nonce' \in 0 .. NonceModulus - 1
         /\ issued' \in Nat /\ frames' \in Nat /\ settled' \in Nat
<1> c.id \in Nat
  BY DEF Command
<1> events \in Seq(Event) /\ Len(events) <= EventCapacity /\ wire \in Seq(Packet)
  BY DEF TypeOK
<1>0. "IoError" \in Event /\ "Control" \in PacketKind
  BY DEF Event, PacketKind
<1>1. settled' \in Nat
  BY DEF HandleCommand, TypeOK
<1>2. CASE SendRaw(c)
  <2>1. /\ wire' \in Seq(Packet)
        /\ events' \in Seq(Event) /\ Len(events') <= EventCapacity
    BY <1>0, <1>2, PacketTypes, SendPacketType, OfferType DEF SendRaw
  <2> QED BY <1>1, <1>2, <2>1 DEF SendRaw, counters, TypeOK
<1>3. CASE SendPcm(c)
  <2>1. /\ wire' \in Seq(Packet)
        /\ events' \in Seq(Event) /\ Len(events') <= EventCapacity
    BY <1>0, <1>3, PacketTypes, SendPacketType, OfferType DEF SendPcm
  <2>2. /\ sequence' \in 0 .. SeqModulus - 1
        /\ audioSequence' \in 0 .. SeqModulus - 1
        /\ issued' \in Nat /\ frames' \in Nat
    <3>1. CASE UNCHANGED counters
      BY <3>1 DEF counters, TypeOK
    <3>2. CASE /\ AdvanceSequence
               /\ audioSequence' = WrappingIncrement(audioSequence, SeqModulus)
               /\ frames' = frames + 1
      BY <3>2, WrapType, SessionAssumption DEF AdvanceSequence, TypeOK
    <3> QED BY <1>3, <3>1, <3>2 DEF SendPcm
  <2>3. nonce' \in 0 .. NonceModulus - 1
    BY <1>3, WrapType, SessionAssumption
       DEF SendPcm, AdvanceNonce, counters, TypeOK
  <2> QED BY <1>1, <2>1, <2>2, <2>3
<1>4. CASE SendControl("Control", c.id, events)
  BY <1>0, <1>1, <1>4, SendControlType DEF TypeOK
<1> QED BY <1>2, <1>3, <1>4 DEF HandleCommand

\* The channel hands over a command that some caller submitted, and keeps the
\* others.
LEMMA CommandTaken ==
  ASSUME TypeOK, commands # <<>>
  PROVE  /\ Head(commands) # Disconnect => Head(commands) \in Command
         /\ Tail(commands) \in Seq(Command \union {Disconnect})
         /\ Len(Tail(commands)) <= CommandCapacity
<1>1. commands \in Seq(Command \union {Disconnect})
  BY DEF TypeOK
<1>2. /\ Head(commands) \in Command \union {Disconnect}
      /\ Tail(commands) \in Seq(Command \union {Disconnect})
      /\ Len(Tail(commands)) = Len(commands) - 1
  BY <1>1, HeadTailProperties
<1> QED BY <1>1, <1>2, LenProperties, SessionAssumption DEF TypeOK

LEMMA TypeInit == Init => TypeOK
BY EmptySeq, SessionAssumption
   DEF Init, TypeOK, Handle, WorkerPc

LEMMA TypeNext == TypeOK /\ [Next]_vars => TypeOK'
<1> SUFFICES ASSUME TypeOK, [Next]_vars PROVE TypeOK'
  OBVIOUS
<1> USE SessionAssumption
<1>1. CASE WorkerStart
  <2>1. Offer(events, "Connected") \in Seq(Event)
        /\ Len(Offer(events, "Connected")) <= EventCapacity
    BY OfferType DEF TypeOK, Event
  <2>2. SendControl("Join", 0, Offer(events, "Connected"))
    BY <1>1 DEF WorkerStart
  <2>3. "Join" \in PacketKind
    BY DEF PacketKind
  <2> QED BY <1>1, <2>1, <2>2, <2>3, SendControlType
          DEF WorkerStart, Goto, TypeOK, WorkerPc, owner
<1>2. CASE LoopTop
  BY <1>2 DEF LoopTop, OnlyPcMoves, owner, shared, outcome, counters,
              TypeOK, WorkerPc
<1>3. CASE TakeCommand
  <2>1. Head(commands) \in Command /\ HandleCommand(Head(commands))
    BY <1>3, CommandTaken DEF TakeCommand, TakeOldest
  <2>2. /\ commands' \in Seq(Command \union {Disconnect})
        /\ Len(commands') <= CommandCapacity
    BY <1>3, CommandTaken DEF TakeCommand
  <2> QED BY <1>3, <2>1, <2>2, HandleCommandType
          DEF TakeCommand, TypeOK, WorkerPc, owner
<1>4. CASE TakeDisconnect
  <2>1. /\ commands' \in Seq(Command \union {Disconnect})
        /\ Len(commands') <= CommandCapacity
    BY <1>4, CommandTaken DEF TakeDisconnect
  <2> QED BY <1>4, <2>1
          DEF TakeDisconnect, owner, outcome, counters, TypeOK, WorkerPc
<1>5. CASE ChannelEmpty
  BY <1>5 DEF ChannelEmpty, Goto, OnlyPcMoves, owner, shared, outcome,
              counters, TypeOK, WorkerPc
<1>6. CASE CheckRunning
  BY <1>6 DEF CheckRunning, OnlyPcMoves, owner, shared, outcome, counters,
              TypeOK, WorkerPc
<1>7. CASE KeepaliveDue
  <2>1. SendControl("Keepalive", 0, events) /\ "Keepalive" \in PacketKind
    BY <1>7 DEF KeepaliveDue, PacketKind
  <2>2. keepalives' \in 0 .. MaxKeepalives
    BY <1>7 DEF KeepaliveDue, TypeOK
  <2>3. events \in Seq(Event) /\ Len(events) <= EventCapacity
    BY DEF TypeOK
  <2> QED BY <1>7, <2>1, <2>2, <2>3, SendControlType
          DEF KeepaliveDue, Goto, owner, TypeOK, WorkerPc
<1>8. CASE KeepaliveNotDue
  BY <1>8 DEF KeepaliveNotDue, Goto, OnlyPcMoves, owner, shared, outcome,
              counters, TypeOK, WorkerPc
<1>9. CASE ReadDatagram
  <2>1. events' \in Seq(Event) /\ Len(events') <= EventCapacity
    BY <1>9, OfferType DEF ReadDatagram, TypeOK, Event
  <2> QED BY <1>9, <2>1
          DEF ReadDatagram, Goto, owner, outcome, counters, TypeOK, WorkerPc
<1>10. CASE ReadTimeout
  BY <1>10 DEF ReadTimeout, Goto, OnlyPcMoves, owner, shared, outcome,
               counters, TypeOK, WorkerPc
<1>11. CASE WorkerLeave
  <2>1. {"Sent", "IoError", "Stopped"} \subseteq Event
    BY DEF Event
  <2>2. events \in Seq(Event) /\ Len(events) <= EventCapacity
    BY DEF TypeOK
  <2>3. ASSUME NEW e \in {"Sent", "IoError"}
        PROVE  /\ ThenStopped(e) \in Seq(Event)
               /\ Len(ThenStopped(e)) <= EventCapacity
    <3>1. /\ Offer(events, e) \in Seq(Event)
          /\ Len(Offer(events, e)) <= EventCapacity
      BY <2>1, <2>2, OfferType
    <3> QED BY <2>1, <3>1, OfferType DEF ThenStopped
  <2>4. StampedPacket("Leave", 0) \in Packet
    BY PacketTypes DEF PacketKind
  <2>5. wire' \in Seq(Packet)
    <3>1. wire \in Seq(Packet)
      BY DEF TypeOK
    <3>2. Append(wire, StampedPacket("Leave", 0)) \in Seq(Packet)
      BY <2>4, <3>1, AppendProperties
    <3> QED BY <1>11, <3>1, <3>2 DEF WorkerLeave
  <2>6. sequence' \in 0 .. SeqModulus - 1 /\ issued' \in Nat
    BY <1>11, WrapType DEF WorkerLeave, AdvanceSequence, TypeOK
  <2>7. events' \in Seq(Event) /\ Len(events') <= EventCapacity
    BY <1>11, <2>3 DEF WorkerLeave
  <2> QED BY <1>11, <2>5, <2>6, <2>7
          DEF WorkerLeave, Goto, owner, TypeOK, WorkerPc
<1>12. ASSUME NEW op \in Ops, Submit(op) PROVE TypeOK'
  <2> DEFINE c == [op |-> op, id |-> Len(accepted) + 1]
  <2>1. c \in Command
    BY LenProperties DEF Command, TypeOK
  <2>2. accepted' \in Seq(Command)
    BY <1>12, <2>1, AppendProperties DEF Submit, TypeOK
  <2>3. /\ commands' \in Seq(Command \union {Disconnect})
        /\ Len(commands') <= CommandCapacity
    BY <1>12, <2>1, AppendProperties, LenProperties DEF Submit, TypeOK
  <2> QED BY <1>12, <2>2, <2>3 DEF Submit, outcome, counters, TypeOK
<1>13. CASE TryNextEvent
  <2>1. events' \in Seq(Event) /\ Len(events') <= EventCapacity
    BY <1>13, HeadTailProperties, LenProperties DEF TryNextEvent, TypeOK
  <2> QED BY <1>13, <2>1 DEF TryNextEvent, owner, outcome, counters, TypeOK
<1>14. CASE DisconnectSwap
  BY <1>14 DEF DisconnectSwap, outcome, counters, TypeOK, Handle
<1>15. CASE DisconnectPush
  <2>1. /\ commands' \in Seq(Command \union {Disconnect})
        /\ Len(commands') <= CommandCapacity
    BY <1>15, AppendProperties, LenProperties DEF DisconnectPush, TypeOK
  <2> QED BY <1>15, <2>1 DEF DisconnectPush, outcome, counters, TypeOK, Handle
<1>16. CASE JoinWorker
  BY <1>16 DEF JoinWorker, shared, outcome, counters, TypeOK, Handle
<1>17. CASE UNCHANGED vars
  BY <1>17 DEF vars, owner, shared, outcome, counters, TypeOK
<1> QED BY <1>1, <1>2, <1>3, <1>4, <1>5, <1>6, <1>7, <1>8, <1>9, <1>10, <1>11,
           <1>12, <1>13, <1>14, <1>15, <1>16, <1>17
        DEF Next, Worker, WorkerAlone, Owner, Over

\* In every reachable state each variable is well typed and both channels are
\* within their capacities, for every capacity: no caller and no relay makes
\* the session hold more (try_send on both sync_channels).
THEOREM TypeCorrect == Spec => []TypeOK
BY TypeInit, TypeNext, PTL DEF Spec

-----------------------------------------------------------------------------
(* The worker stops only when asked, and takes the commands in order *)

\* The flag mirrors the owner; the worker is past its loop only after it fell.
FlagInv ==
  /\ running <=> handle = "open"
  /\ pc \in {"leave", "done"} => handle # "open"
  /\ handle = "closed" => pc = "done"

\* The channel holds the accepted commands not yet settled, in order, and
\* behind them perhaps one Disconnect, which only a disconnect() puts there.
QueueInv ==
  /\ settled <= Len(accepted)
  /\ \A i \in 1 .. Len(accepted) : accepted[i].id = i
  /\ \A i \in 1 .. Len(commands) :
       IF settled + i <= Len(accepted)
       THEN commands[i] = accepted[settled + i]
       ELSE /\ settled + i = Len(accepted) + 1
            /\ commands[i] = Disconnect
            /\ handle \in {"joining", "closed"}
  /\ Len(commands) >= Len(accepted) - settled

\* What TakeOldest finds: the first unsettled command, or else the Disconnect,
\* and then nothing is left behind it.
LEMMA Oldest ==
  ASSUME TypeOK, QueueInv, commands # <<>>
  PROVE  /\ Head(commands) # Disconnect =>
              /\ settled < Len(accepted)
              /\ Head(commands) = accepted[settled + 1]
         /\ Head(commands) = Disconnect =>
              /\ settled = Len(accepted)
              /\ Len(commands) = 1
              /\ handle \in {"joining", "closed"}
<1> DEFINE S == Command \union {Disconnect}
<1>1. commands \in Seq(S) /\ accepted \in Seq(Command) /\ settled \in Nat
  BY DEF TypeOK
<1>2. Len(commands) \in Nat /\ Len(commands) >= 1 /\ Len(accepted) \in Nat
  BY <1>1, EmptySeq, LenProperties
<1>3. Head(commands) = commands[1]
  BY <1>1, <1>2
<1>4. 1 \in 1 .. Len(commands)
  BY <1>2
<1>5. CASE settled + 1 <= Len(accepted)
  <2>1. Head(commands) = accepted[settled + 1]
    BY <1>1, <1>3, <1>4, <1>5 DEF QueueInv
  <2>2. accepted[settled + 1] \in Command
    BY <1>1, <1>2, <1>5, ElementOfSeq
  <2>3. Disconnect \notin Command
    BY DEF Disconnect, Command
  <2> QED BY <1>1, <1>2, <1>5, <2>1, <2>2, <2>3
<1>6. CASE ~(settled + 1 <= Len(accepted))
  <2>1. /\ settled + 1 = Len(accepted) + 1
        /\ commands[1] = Disconnect
        /\ handle \in {"joining", "closed"}
    BY <1>1, <1>4, <1>6 DEF QueueInv
  <2>2. Len(commands) = 1
    <3> SUFFICES ASSUME Len(commands) # 1 PROVE FALSE
      OBVIOUS
    <3>1. 2 \in 1 .. Len(commands)
      BY <1>2
    <3> QED BY <1>1, <1>2, <2>1, <3>1 DEF QueueInv
  <2> QED BY <1>1, <1>2, <1>3, <2>1, <2>2
<1> QED BY <1>5, <1>6

LEMMA FlagStep == TypeOK /\ QueueInv /\ FlagInv /\ [Next]_vars => FlagInv'
<1> SUFFICES ASSUME TypeOK, QueueInv, FlagInv, [Next]_vars PROVE FlagInv'
  OBVIOUS
<1> USE DEF FlagInv, Goto, OnlyPcMoves, owner, shared
<1>1. CASE WorkerStart
  BY <1>1 DEF WorkerStart
<1>2. CASE LoopTop
  BY <1>2 DEF LoopTop
<1>3. CASE TakeCommand
  BY <1>3 DEF TakeCommand
<1>4. CASE TakeDisconnect
  <2>1. handle \in {"joining", "closed"}
    BY <1>4, Oldest DEF TakeDisconnect, TakeOldest
  <2> QED BY <1>4, <2>1 DEF TakeDisconnect
<1>5. CASE ChannelEmpty
  BY <1>5 DEF ChannelEmpty
<1>6. CASE CheckRunning
  BY <1>6 DEF CheckRunning
<1>7. CASE KeepaliveDue
  BY <1>7 DEF KeepaliveDue
<1>8. CASE KeepaliveNotDue
  BY <1>8 DEF KeepaliveNotDue
<1>9. CASE ReadDatagram
  BY <1>9 DEF ReadDatagram
<1>10. CASE ReadTimeout
  BY <1>10 DEF ReadTimeout
<1>11. CASE WorkerLeave
  BY <1>11 DEF WorkerLeave
<1>12. ASSUME NEW op \in Ops, Submit(op) PROVE FlagInv'
  BY <1>12 DEF Submit
<1>13. CASE TryNextEvent
  BY <1>13 DEF TryNextEvent
<1>14. CASE DisconnectSwap
  BY <1>14 DEF DisconnectSwap
<1>15. CASE DisconnectPush
  BY <1>15 DEF DisconnectPush
<1>16. CASE JoinWorker
  BY <1>16 DEF JoinWorker
<1>17. CASE UNCHANGED vars
  BY <1>17 DEF vars
<1> QED BY <1>1, <1>2, <1>3, <1>4, <1>5, <1>6, <1>7, <1>8, <1>9, <1>10, <1>11,
           <1>12, <1>13, <1>14, <1>15, <1>16, <1>17
        DEF Next, Worker, WorkerAlone, Owner, Over

LEMMA QueueStep == TypeOK /\ QueueInv /\ FlagInv /\ [Next]_vars => QueueInv'
<1> SUFFICES ASSUME TypeOK, QueueInv, FlagInv, [Next]_vars PROVE QueueInv'
  OBVIOUS
<1> DEFINE S == Command \union {Disconnect}
<1>a. /\ commands \in Seq(S) /\ accepted \in Seq(Command) /\ settled \in Nat
      /\ Len(commands) \in Nat /\ Len(accepted) \in Nat
  BY LenProperties DEF TypeOK
<1>b. ASSUME UNCHANGED <<commands, accepted, settled>>,
             handle' = handle \/ handle \notin {"joining", "closed"}
                              \/ handle' \in {"joining", "closed"}
      PROVE  QueueInv'
  BY <1>b DEF QueueInv
<1>1. CASE TakeCommand
  <2>1. /\ settled < Len(accepted)
        /\ Head(commands) = accepted[settled + 1]
    BY <1>1, Oldest DEF TakeCommand, TakeOldest
  <2>2. /\ commands' = Tail(commands) /\ settled' = settled + 1
        /\ accepted' = accepted /\ handle' = handle /\ commands # <<>>
    BY <1>1 DEF TakeCommand, HandleCommand, owner
  <2>3. /\ Len(commands') = Len(commands) - 1
        /\ \A i \in 1 .. Len(commands') : commands'[i] = commands[i + 1]
    BY <1>a, <2>2, HeadTailProperties
  <2>4. ASSUME NEW i \in 1 .. Len(commands')
        PROVE  /\ i + 1 \in 1 .. Len(commands)
               /\ settled' + i = settled + (i + 1)
    BY <1>a, <2>2, <2>3
  <2> QED BY <1>a, <2>1, <2>2, <2>3, <2>4 DEF QueueInv
<1>2. CASE TakeDisconnect
  <2>1. settled = Len(accepted) /\ Len(commands) = 1
    BY <1>2, Oldest DEF TakeDisconnect, TakeOldest
  <2>2. /\ commands' = Tail(commands) /\ commands # <<>>
        /\ UNCHANGED <<accepted, settled, handle>>
    BY <1>2 DEF TakeDisconnect, owner, outcome
  <2>3. Len(commands') = 0
    BY <1>a, <2>1, <2>2, HeadTailProperties
  <2> QED BY <1>a, <2>1, <2>2, <2>3 DEF QueueInv
<1>3. ASSUME NEW op \in Ops, Submit(op) PROVE QueueInv'
  <2> DEFINE c == [op |-> op, id |-> Len(accepted) + 1]
  <2>1. /\ commands' = Append(commands, c)
        /\ accepted' = Append(accepted, c)
        /\ UNCHANGED <<handle, settled>> /\ handle = "open"
    BY <1>3 DEF Submit, outcome
  <2>2. c \in Command
    BY <1>a, SessionAssumption DEF Command
  <2>3. /\ Len(commands') = Len(commands) + 1
        /\ \A i \in 1 .. Len(commands) : commands'[i] = commands[i]
        /\ commands'[Len(commands) + 1] = c
    BY <1>a, <2>1, <2>2, AppendProperties
  <2>4. /\ Len(accepted') = Len(accepted) + 1
        /\ \A i \in 1 .. Len(accepted) : accepted'[i] = accepted[i]
        /\ accepted'[Len(accepted) + 1] = c
    BY <1>a, <2>1, <2>2, AppendProperties
  <2>5. Len(commands) = Len(accepted) - settled
    <3> SUFFICES ASSUME Len(commands) # Len(accepted) - settled PROVE FALSE
      OBVIOUS
    <3>1. /\ Len(commands) \in 1 .. Len(commands)
          /\ ~(settled + Len(commands) <= Len(accepted))
      BY <1>a DEF QueueInv
    <3> QED BY <1>a, <2>1, <3>1 DEF QueueInv
  <2>6. \A i \in 1 .. Len(accepted') : accepted'[i].id = i
    <3> SUFFICES ASSUME NEW i \in 1 .. Len(accepted') PROVE accepted'[i].id = i
      OBVIOUS
    <3>1. CASE i = Len(accepted) + 1
      BY <2>4, <3>1
    <3>2. CASE i # Len(accepted) + 1
      <4>1. i \in 1 .. Len(accepted)
        BY <1>a, <2>4, <3>2
      <4> QED BY <2>4, <4>1 DEF QueueInv
    <3> QED BY <3>1, <3>2
  <2>7. ASSUME NEW i \in 1 .. Len(commands')
        PROVE  /\ settled' + i <= Len(accepted')
               /\ commands'[i] = accepted'[settled' + i]
    <3>1. CASE i = Len(commands) + 1
      BY <1>a, <2>1, <2>3, <2>4, <2>5, <3>1
    <3>2. CASE i # Len(commands) + 1
      <4>1. i \in 1 .. Len(commands) /\ settled + i \in 1 .. Len(accepted)
        BY <1>a, <2>3, <2>5, <3>2
      <4> QED BY <1>a, <2>1, <2>3, <2>4, <4>1 DEF QueueInv
    <3> QED BY <3>1, <3>2
  <2>8. settled' <= Len(accepted') /\ Len(commands') >= Len(accepted') - settled'
    BY <1>a, <2>1, <2>3, <2>4, <2>5 DEF QueueInv
  <2> QED BY <2>6, <2>7, <2>8 DEF QueueInv
<1>4. CASE DisconnectPush
  <2>1. CASE commands' = commands
    BY <1>4, <1>b, <2>1 DEF DisconnectPush, outcome
  <2>2. CASE commands' = Append(commands, Disconnect)
    <3>1. /\ UNCHANGED <<accepted, settled>>
          /\ handle = "swapped" /\ handle' = "joining"
      BY <1>4 DEF DisconnectPush, outcome
    <3>2. /\ Len(commands') = Len(commands) + 1
          /\ \A i \in 1 .. Len(commands) : commands'[i] = commands[i]
          /\ commands'[Len(commands) + 1] = Disconnect
      BY <1>a, <2>2, AppendProperties
    <3>3. Len(commands) = Len(accepted) - settled
      <4> SUFFICES ASSUME Len(commands) # Len(accepted) - settled PROVE FALSE
        OBVIOUS
      <4>1. /\ Len(commands) \in 1 .. Len(commands)
            /\ ~(settled + Len(commands) <= Len(accepted))
        BY <1>a DEF QueueInv
      <4> QED BY <1>a, <3>1, <4>1 DEF QueueInv
    <3>4. ASSUME NEW i \in 1 .. Len(commands')
          PROVE  IF settled' + i <= Len(accepted')
                 THEN commands'[i] = accepted'[settled' + i]
                 ELSE /\ settled' + i = Len(accepted') + 1
                      /\ commands'[i] = Disconnect
                      /\ handle' \in {"joining", "closed"}
      <4>1. CASE i = Len(commands) + 1
        BY <1>a, <3>1, <3>2, <3>3, <4>1
      <4>2. CASE i # Len(commands) + 1
        <5>1. i \in 1 .. Len(commands) /\ settled + i <= Len(accepted)
          BY <1>a, <3>2, <3>3, <4>2
        <5> QED BY <3>1, <3>2, <5>1 DEF QueueInv
      <4> QED BY <4>1, <4>2
    <3>5. Len(commands') >= Len(accepted') - settled'
      BY <1>a, <3>1, <3>2, <3>3
    <3>6. /\ settled' <= Len(accepted')
          /\ \A i \in 1 .. Len(accepted') : accepted'[i].id = i
      BY <3>1 DEF QueueInv
    <3> QED BY <3>4, <3>5, <3>6 DEF QueueInv
  <2> QED BY <1>4, <2>1, <2>2 DEF DisconnectPush
<1>5. CASE DisconnectSwap
  BY <1>5, <1>b DEF DisconnectSwap, outcome
<1>6. CASE JoinWorker
  BY <1>6, <1>b DEF JoinWorker, shared, outcome
<1>7. CASE \/ WorkerStart \/ LoopTop \/ ChannelEmpty \/ CheckRunning
           \/ KeepaliveDue \/ KeepaliveNotDue \/ ReadDatagram \/ ReadTimeout
           \/ WorkerLeave \/ TryNextEvent \/ UNCHANGED vars
  BY <1>7, <1>b
     DEF WorkerStart, LoopTop, ChannelEmpty, CheckRunning, KeepaliveDue,
         KeepaliveNotDue, ReadDatagram, ReadTimeout, WorkerLeave,
         TryNextEvent, OnlyPcMoves, owner, shared, outcome, vars
<1> QED BY <1>1, <1>2, <1>3, <1>4, <1>5, <1>6, <1>7
        DEF Next, Worker, WorkerAlone, Owner, Over

\* Whatever the socket returns and whoever calls, the worker has not left its
\* loop while the handle is open, and a disconnect() that returned has joined
\* it.  The flag and the channel together show it: the flag falls only in
\* disconnect(), and only disconnect() queues a Disconnect.
THEOREM WorkerStopsOnlyWhenAsked == Spec => []StopsOnlyWhenAsked
<1>1. Init => QueueInv /\ FlagInv
  BY DEF Init, QueueInv, FlagInv
<1>2. FlagInv => StopsOnlyWhenAsked
  BY DEF FlagInv, StopsOnlyWhenAsked
<1> QED BY <1>1, <1>2, TypeCorrect, FlagStep, QueueStep, PTL DEF Spec

-----------------------------------------------------------------------------
(* Numbers and nonces *)

\* The worker's counter x, d steps behind y, is d + 1 behind once y advances.
LEMMA AheadStep ==
  ASSUME NEW m \in Nat \ {0}, NEW x \in 0 .. m - 1, NEW y \in 0 .. m - 1,
         Ahead(x, y, m) + 1 < m
  PROVE  Ahead(x, WrappingIncrement(y, m), m) = Ahead(x, y, m) + 1
<1>1. CASE y + 1 = m
  BY <1>1 DEF Ahead, WrappingIncrement
<1>2. CASE y + 1 # m
  BY <1>2 DEF Ahead, WrappingIncrement
<1> QED BY <1>1, <1>2

\* A number just handed out is one behind the counter.
LEMMA AheadOne ==
  ASSUME NEW m \in Nat \ {0}, NEW y \in 0 .. m - 1, 1 < m
  PROVE  Ahead(y, WrappingIncrement(y, m), m) = 1
BY DEF Ahead, WrappingIncrement

\* What a step of the session does to the wire and to the numbers: nothing but
\* perhaps a caller's own packet; or one packet number is handed out, and
\* perhaps one packet sent that bears it; or the same with an audio frame,
\* which takes an audio number and, if frames are sealed, the nonce as well.
SendsAtMost(S) == wire' = wire \/ \E p \in S : wire' = Append(wire, p)

ControlPackets ==
  {p \in Packet : /\ p.kind \notin {"Raw", "Audio"}
                  /\ p.seq = sequence /\ p.n = issued}

AudioPackets ==
  {p \in Packet : /\ p.kind = "Audio"
                  /\ p.seq = sequence /\ p.n = issued
                  /\ p.f = frames
                  /\ encryption = "AesGcmV2" => p.nonce = nonce}

NoNumbers ==
  /\ UNCHANGED <<sequence, issued, nonce, frames>>
  /\ SendsAtMost({p \in Packet : p.kind = "Raw"})

ControlNumbers ==
  /\ AdvanceSequence
  /\ UNCHANGED <<nonce, frames>>
  /\ SendsAtMost(ControlPackets)

AudioNumbers ==
  /\ AdvanceSequence
  /\ frames' = frames + 1
  /\ encryption = "AesGcmV2" => AdvanceNonce
  /\ SendsAtMost(AudioPackets)

StepOfNumbers ==
  /\ UNCHANGED encryption
  /\ NoNumbers \/ ControlNumbers \/ AudioNumbers

LEMMA ControlSent ==
  ASSUME TypeOK, NEW kind \in PacketKind \ {"Raw", "Audio"}, NEW id \in Nat,
         NEW q, SendControl(kind, id, q)
  PROVE  ControlNumbers
<1>1. StampedPacket(kind, id) \in ControlPackets
  BY PacketTypes DEF ControlPackets, StampedPacket
<1> QED BY <1>1 DEF SendControl, SendPacket, ControlNumbers, SendsAtMost

LEMMA CommandHandled ==
  ASSUME TypeOK, NEW c \in Command, HandleCommand(c)
  PROVE  NoNumbers \/ ControlNumbers \/ AudioNumbers
<1>0. c.id \in Nat
  BY DEF Command
<1>1. CASE SendRaw(c)
  <2>1. RawPacket(c.id) \in {p \in Packet : p.kind = "Raw"}
    BY <1>0, PacketTypes DEF RawPacket
  <2> QED BY <1>1, <2>1 DEF SendRaw, SendPacket, NoNumbers, SendsAtMost, counters
<1>2. CASE SendPcm(c)
  <2>1. AudioPacket(c.id) \in AudioPackets
    BY <1>0, PacketTypes DEF AudioPackets, AudioPacket
  <2>2. CASE c.op = "BadPcm"
    BY <1>2, <2>2 DEF SendPcm, NoNumbers, SendsAtMost, counters
  <2>3. CASE c.op = "Pcm"
    BY <1>2, <2>1, <2>3
       DEF SendPcm, SendPacket, AudioNumbers, SendsAtMost, AdvanceSequence
  <2> QED BY <1>2, <2>2, <2>3 DEF SendPcm
<1>3. CASE SendControl("Control", c.id, events)
  BY <1>0, <1>3, ControlSent DEF PacketKind
<1> QED BY <1>1, <1>2, <1>3 DEF HandleCommand

LEMMA NumbersOfStep == TypeOK /\ [Next]_vars => StepOfNumbers
<1> SUFFICES ASSUME TypeOK, [Next]_vars PROVE StepOfNumbers
  OBVIOUS
<1> USE DEF StepOfNumbers
<1>1. CASE WorkerStart
  <2>1. SendControl("Join", 0, Offer(events, "Connected"))
    BY <1>1 DEF WorkerStart
  <2> QED BY <1>1, <2>1, ControlSent DEF WorkerStart, PacketKind, owner
<1>2. CASE TakeCommand
  <2>1. Head(commands) \in Command
    BY <1>2, CommandTaken DEF TakeCommand, TakeOldest
  <2> QED BY <1>2, <2>1, CommandHandled DEF TakeCommand, TakeOldest, owner
<1>3. CASE KeepaliveDue
  <2>1. SendControl("Keepalive", 0, events)
    BY <1>3 DEF KeepaliveDue
  <2> QED BY <1>3, <2>1, ControlSent DEF KeepaliveDue, PacketKind, owner
<1>4. CASE WorkerLeave
  <2>1. StampedPacket("Leave", 0) \in ControlPackets
    BY PacketTypes DEF ControlPackets, StampedPacket, PacketKind
  <2> QED BY <1>4, <2>1
          DEF WorkerLeave, ControlNumbers, SendsAtMost, owner
<1>5. CASE UNCHANGED <<encryption, outcome>>
  BY <1>5 DEF outcome, counters, NoNumbers, SendsAtMost
<1>6. CASE \/ LoopTop \/ ChannelEmpty \/ CheckRunning \/ KeepaliveNotDue
           \/ ReadDatagram \/ ReadTimeout \/ TakeDisconnect
           \/ \E op \in Ops : Submit(op)
           \/ TryNextEvent \/ DisconnectSwap \/ DisconnectPush \/ JoinWorker
           \/ UNCHANGED vars
  BY <1>5, <1>6
     DEF LoopTop, ChannelEmpty, CheckRunning, KeepaliveNotDue, ReadDatagram,
         ReadTimeout, TakeDisconnect, Submit, TryNextEvent, DisconnectSwap,
         DisconnectPush, JoinWorker, OnlyPcMoves, owner, vars
<1> QED BY <1>1, <1>2, <1>3, <1>4, <1>6 DEF Next, Worker, WorkerAlone, Owner, Over

\* Whatever is sent comes last on the wire.
LEMMA SentLast ==
  ASSUME TypeOK, NEW S \in SUBSET Packet, SendsAtMost(S)
  PROVE  /\ Len(wire) \in Nat /\ Len(wire') \in Nat
         /\ \A i \in 1 .. Len(wire) : wire'[i] = wire[i] /\ wire[i] \in Packet
         /\ \A i \in 1 .. Len(wire') :
              i \in 1 .. Len(wire) \/ (i = Len(wire) + 1 /\ wire'[i] \in S)
<1>1. wire \in Seq(Packet) /\ Len(wire) \in Nat
  BY LenProperties DEF TypeOK
<1>2. \A i \in 1 .. Len(wire) : wire[i] \in Packet
  BY <1>1, ElementOfSeq
<1>3. CASE wire' = wire
  <2>1. Len(wire') = Len(wire) /\ \A i \in 1 .. Len(wire) : wire'[i] = wire[i]
    BY <1>3
  <2> QED BY <1>1, <1>2, <2>1
<1>4. ASSUME NEW p \in S, wire' = Append(wire, p)
      PROVE  /\ Len(wire') = Len(wire) + 1
             /\ \A i \in 1 .. Len(wire) : wire'[i] = wire[i]
             /\ wire'[Len(wire) + 1] = p
  <2>1. p \in Packet
    OBVIOUS
  <2> QED BY <1>1, <1>4, <2>1, AppendProperties
<1>5. ASSUME NEW p \in S, wire' = Append(wire, p), NEW i \in 1 .. Len(wire')
      PROVE  i \in 1 .. Len(wire) \/ (i = Len(wire) + 1 /\ wire'[i] \in S)
  <2>1. /\ Len(wire') = Len(wire) + 1 /\ wire'[Len(wire) + 1] \in S
    BY <1>4, <1>5
  <2> QED BY <1>1, <2>1
<1>6. ASSUME NEW p \in S, wire' = Append(wire, p)
      PROVE  Len(wire') \in Nat
  BY <1>1, <1>4, <1>6
<1>7. CASE \E p \in S : wire' = Append(wire, p)
  BY <1>1, <1>2, <1>4, <1>5, <1>6, <1>7
<1> QED BY <1>3, <1>7 DEF SendsAtMost

\* The number x was the n-th handed out of a counter that is now y, after so
\* many in total: y is ahead of x by as many as were handed out since, as long
\* as that is less than a wrap.
Behind(n, x, total, y, m) ==
  /\ n < total
  /\ total - n < m => Ahead(x, y, m) = total - n

\* A number handed out before falls one further behind.
LEMMA BehindStep ==
  ASSUME NEW m \in Nat \ {0}, NEW n \in Nat, NEW total \in Nat,
         NEW x \in 0 .. m - 1, NEW y \in 0 .. m - 1, Behind(n, x, total, y, m)
  PROVE  Behind(n, x, total + 1, WrappingIncrement(y, m), m)
<1>1. ASSUME (total + 1) - n < m
      PROVE  Ahead(x, WrappingIncrement(y, m), m) = (total + 1) - n
  <2>1. Ahead(x, y, m) = total - n
    BY <1>1 DEF Behind
  <2>2. Ahead(x, y, m) + 1 < m
    BY <1>1, <2>1
  <2>3. Ahead(x, WrappingIncrement(y, m), m) = Ahead(x, y, m) + 1
    BY <2>2, AheadStep
  <2> QED BY <2>1, <2>3
<1> QED BY <1>1 DEF Behind

\* A number being handed out is one behind.
LEMMA BehindNew ==
  ASSUME NEW m \in Nat \ {0}, NEW total \in Nat, NEW y \in 0 .. m - 1
  PROVE  Behind(total, y, total + 1, WrappingIncrement(y, m), m)
<1>1. 1 < m => Ahead(y, WrappingIncrement(y, m), m) = 1
  BY AheadOne
<1> QED BY <1>1 DEF Behind

\* The strengthening that makes OneOrderedStream inductive.
StampInv ==
  \A i \in 1 .. Len(wire) :
    Stamped(wire[i]) =>
      Behind(wire[i].n, wire[i].seq, issued, sequence, SeqModulus)

LEMMA StampStep ==
  TypeOK /\ StampInv /\ OneOrderedStream /\ [Next]_vars
    => StampInv' /\ OneOrderedStream'
<1> SUFFICES ASSUME TypeOK, StampInv, OneOrderedStream, [Next]_vars
             PROVE  StampInv' /\ OneOrderedStream'
  OBVIOUS
<1> DEFINE Fresh == {p \in Packet : p.n = issued /\ p.seq = sequence}
<1>0. /\ SeqModulus \in Nat \ {0} /\ issued \in Nat
      /\ sequence \in 0 .. SeqModulus - 1
      /\ \A p \in Packet : p.n \in Nat /\ p.seq \in 0 .. SeqModulus - 1
  BY SessionAssumption DEF TypeOK, Packet
<1>1. CASE NoNumbers
  <2> DEFINE S == {p \in Packet : p.kind = "Raw"}
  <2>1. SendsAtMost(S) /\ UNCHANGED <<sequence, issued>>
    BY <1>1 DEF NoNumbers
  <2>2. /\ Len(wire) \in Nat /\ Len(wire') \in Nat
        /\ \A i \in 1 .. Len(wire) : wire'[i] = wire[i]
        /\ \A i \in 1 .. Len(wire') :
             i \in 1 .. Len(wire) \/ (i = Len(wire) + 1 /\ wire'[i] \in S)
    BY <2>1, SentLast
  <2>3. \A i \in 1 .. Len(wire') : Stamped(wire'[i]) => i \in 1 .. Len(wire)
    BY <2>2 DEF Stamped
  <2>4. StampInv'
    BY <2>1, <2>2, <2>3 DEF StampInv, Stamped
  <2>5. OneOrderedStream'
    BY <2>2, <2>3 DEF OneOrderedStream, Stamped
  <2> QED BY <2>4, <2>5
<1>2. CASE AdvanceSequence /\ SendsAtMost(Fresh)
  <2>1. /\ Len(wire) \in Nat /\ Len(wire') \in Nat
        /\ \A i \in 1 .. Len(wire) : wire'[i] = wire[i] /\ wire[i] \in Packet
        /\ \A i \in 1 .. Len(wire') :
             i \in 1 .. Len(wire) \/ (i = Len(wire) + 1 /\ wire'[i] \in Fresh)
    BY <1>2, SentLast
  <2>2. /\ issued' = issued + 1
        /\ sequence' = WrappingIncrement(sequence, SeqModulus)
    BY <1>2 DEF AdvanceSequence
  <2>3. ASSUME NEW i \in 1 .. Len(wire'), Stamped(wire'[i])
        PROVE  Behind(wire'[i].n, wire'[i].seq, issued', sequence', SeqModulus)
    <3>1. CASE i \in 1 .. Len(wire)
      <4>1. wire[i] \in Packet /\ wire'[i] = wire[i]
        BY <2>1, <3>1
      <4>2. Behind(wire[i].n, wire[i].seq, issued, sequence, SeqModulus)
        BY <2>3, <3>1, <4>1 DEF StampInv, Stamped
      <4> QED BY <1>0, <2>2, <4>1, <4>2, BehindStep
    <3>2. CASE wire'[i] \in Fresh
      BY <1>0, <2>2, <3>2, BehindNew
    <3> QED BY <2>1, <3>1, <3>2
  <2>4. StampInv'
    BY <2>3 DEF StampInv, Stamped
  <2>5. ASSUME NEW i \in 1 .. Len(wire'), NEW j \in 1 .. Len(wire'), i < j,
               Stamped(wire'[i]), Stamped(wire'[j])
        PROVE  /\ wire'[i].n < wire'[j].n
               /\ wire'[j].n - wire'[i].n < SeqModulus =>
                    Ahead(wire'[i].seq, wire'[j].seq, SeqModulus)
                      = wire'[j].n - wire'[i].n
    <3>1. i \in 1 .. Len(wire)
      BY <2>1, <2>5
    <3>2. wire'[i] = wire[i] /\ Stamped(wire[i])
      BY <2>1, <2>5, <3>1
    <3>3. CASE j \in 1 .. Len(wire)
      <4>1. wire'[j] = wire[j] /\ Stamped(wire[j])
        BY <2>1, <2>5, <3>3
      <4> QED BY <2>5, <3>1, <3>2, <3>3, <4>1 DEF OneOrderedStream
    <3>4. CASE wire'[j] \in Fresh
      <4>1. Behind(wire[i].n, wire[i].seq, issued, sequence, SeqModulus)
        BY <3>1, <3>2 DEF StampInv
      <4> QED BY <3>2, <3>4, <4>1 DEF Behind
    <3> QED BY <2>1, <3>3, <3>4
  <2>6. OneOrderedStream'
    BY <2>5 DEF OneOrderedStream, Stamped
  <2> QED BY <2>4, <2>6
<1>3. ControlNumbers => AdvanceSequence /\ SendsAtMost(Fresh)
  BY DEF ControlNumbers, ControlPackets, SendsAtMost
<1>4. AudioNumbers => AdvanceSequence /\ SendsAtMost(Fresh)
  BY DEF AudioNumbers, AudioPackets, SendsAtMost
<1> QED BY <1>1, <1>2, <1>3, <1>4, NumbersOfStep DEF StepOfNumbers

\* Control, keepalive, media and leave packets form one ordered stream, for a
\* sequence number of any width, however many sends fail in between.
THEOREM StreamIsOrdered == Spec => []OneOrderedStream
<1>1. Init => StampInv /\ OneOrderedStream
  BY DEF Init, StampInv, OneOrderedStream
<1> QED BY <1>1, TypeCorrect, StampStep, PTL DEF Spec

\* NonceNeverReused is not inductive: the counter may not come back to a nonce
\* still in reach, and two sealed frames are as far apart as their nonces.
NonceInv ==
  \A i \in 1 .. Len(wire) :
    Sealed(wire[i]) =>
      Behind(wire[i].f, wire[i].nonce, frames, nonce, NonceModulus)

NoncesInOrder ==
  \A i, j \in 1 .. Len(wire) :
    (i < j /\ Sealed(wire[i]) /\ Sealed(wire[j])) =>
      /\ wire[i].f < wire[j].f
      /\ wire[j].f - wire[i].f < NonceModulus =>
           Ahead(wire[i].nonce, wire[j].nonce, NonceModulus)
             = wire[j].f - wire[i].f

\* A step that seals nothing leaves the sealed frames as they were.
LEMMA NothingSealed ==
  ASSUME TypeOK, NonceInv, NoncesInOrder, NEW S \in SUBSET Packet,
         SendsAtMost(S), UNCHANGED encryption,
         encryption # "AesGcmV2" \/ (\A p \in S : p.kind # "Audio"),
         encryption = "AesGcmV2" => UNCHANGED <<nonce, frames>>
  PROVE  NonceInv' /\ NoncesInOrder'
<1>1. CASE encryption # "AesGcmV2"
  BY <1>1 DEF NonceInv, NoncesInOrder, Sealed
<1>2. CASE encryption = "AesGcmV2"
  <2>1. /\ Len(wire) \in Nat /\ Len(wire') \in Nat
        /\ \A i \in 1 .. Len(wire) : wire'[i] = wire[i]
        /\ \A i \in 1 .. Len(wire') :
             i \in 1 .. Len(wire) \/ (i = Len(wire) + 1 /\ wire'[i] \in S)
    BY SentLast
  <2>2. \A i \in 1 .. Len(wire') : wire'[i].kind = "Audio" => i \in 1 .. Len(wire)
    BY <1>2, <2>1
  <2>3. NonceInv'
    BY <1>2, <2>1, <2>2 DEF NonceInv, Sealed
  <2>4. NoncesInOrder'
    BY <2>1, <2>2 DEF NoncesInOrder, Sealed
  <2> QED BY <2>3, <2>4
<1> QED BY <1>1, <1>2

\* Sealing a frame uses the counter's nonce and moves the counter on.
LEMMA FrameSealed ==
  ASSUME TypeOK, NonceInv, NoncesInOrder, AudioNumbers,
         UNCHANGED encryption, encryption = "AesGcmV2"
  PROVE  NonceInv' /\ NoncesInOrder'
<1> DEFINE Fresh == {p \in Packet : p.f = frames /\ p.nonce = nonce}
<1>0. /\ NonceModulus \in Nat \ {0} /\ frames \in Nat
      /\ nonce \in 0 .. NonceModulus - 1
      /\ \A p \in Packet : p.f \in Nat /\ p.nonce \in 0 .. NonceModulus - 1
  BY SessionAssumption DEF TypeOK, Packet
<1>1. SendsAtMost(Fresh)
  BY DEF AudioNumbers, AudioPackets, SendsAtMost
<1>2. /\ Len(wire) \in Nat /\ Len(wire') \in Nat
      /\ \A i \in 1 .. Len(wire) : wire'[i] = wire[i] /\ wire[i] \in Packet
      /\ \A i \in 1 .. Len(wire') :
           i \in 1 .. Len(wire) \/ (i = Len(wire) + 1 /\ wire'[i] \in Fresh)
  BY <1>1, SentLast
<1>3. /\ frames' = frames + 1
      /\ nonce' = WrappingIncrement(nonce, NonceModulus)
  BY DEF AudioNumbers, AdvanceNonce
<1>4. ASSUME NEW i \in 1 .. Len(wire'), wire'[i].kind = "Audio"
      PROVE  Behind(wire'[i].f, wire'[i].nonce, frames', nonce', NonceModulus)
  <2>1. CASE i \in 1 .. Len(wire)
    <3>1. wire[i] \in Packet /\ wire'[i] = wire[i]
      BY <1>2, <2>1
    <3>2. Behind(wire[i].f, wire[i].nonce, frames, nonce, NonceModulus)
      BY <1>4, <2>1, <3>1 DEF NonceInv, Sealed
    <3> QED BY <1>0, <1>3, <3>1, <3>2, BehindStep
  <2>2. CASE wire'[i] \in Fresh
    BY <1>0, <1>3, <2>2, BehindNew
  <2> QED BY <1>2, <2>1, <2>2
<1>5. ASSUME NEW i \in 1 .. Len(wire'), NEW j \in 1 .. Len(wire'), i < j,
             wire'[i].kind = "Audio", wire'[j].kind = "Audio"
      PROVE  /\ wire'[i].f < wire'[j].f
             /\ wire'[j].f - wire'[i].f < NonceModulus =>
                  Ahead(wire'[i].nonce, wire'[j].nonce, NonceModulus)
                    = wire'[j].f - wire'[i].f
  <2>1. i \in 1 .. Len(wire)
    BY <1>2, <1>5
  <2>2. wire'[i] = wire[i] /\ Sealed(wire[i])
    BY <1>2, <1>5, <2>1 DEF Sealed
  <2>3. CASE j \in 1 .. Len(wire)
    <3>1. wire'[j] = wire[j] /\ Sealed(wire[j])
      BY <1>2, <1>5, <2>3 DEF Sealed
    <3> QED BY <1>5, <2>1, <2>2, <2>3, <3>1 DEF NoncesInOrder
  <2>4. CASE wire'[j] \in Fresh
    <3>1. Behind(wire[i].f, wire[i].nonce, frames, nonce, NonceModulus)
      BY <2>1, <2>2 DEF NonceInv
    <3> QED BY <2>2, <2>4, <3>1 DEF Behind
  <2> QED BY <1>2, <2>3, <2>4
<1>6. NonceInv'
  BY <1>4 DEF NonceInv, Sealed
<1>7. NoncesInOrder'
  BY <1>5 DEF NoncesInOrder, Sealed
<1> QED BY <1>6, <1>7

LEMMA NonceStep ==
  TypeOK /\ NonceInv /\ NoncesInOrder /\ [Next]_vars
    => NonceInv' /\ NoncesInOrder'
<1> SUFFICES ASSUME TypeOK, NonceInv, NoncesInOrder, [Next]_vars
             PROVE  NonceInv' /\ NoncesInOrder'
  OBVIOUS
<1>0. StepOfNumbers
  BY NumbersOfStep
<1>1. CASE NoNumbers
  <2> DEFINE S == {p \in Packet : p.kind = "Raw"}
  <2>1. SendsAtMost(S) /\ UNCHANGED <<nonce, frames>> /\ UNCHANGED encryption
    BY <1>0, <1>1 DEF NoNumbers, StepOfNumbers
  <2>2. S \in SUBSET Packet /\ \A p \in S : p.kind # "Audio"
    OBVIOUS
  <2> HIDE DEF S
  <2> QED BY <2>1, <2>2, NothingSealed
<1>2. CASE ControlNumbers
  <2>1. /\ SendsAtMost(ControlPackets)
        /\ UNCHANGED <<nonce, frames>> /\ UNCHANGED encryption
    BY <1>0, <1>2 DEF ControlNumbers, StepOfNumbers
  <2>2. ControlPackets \in SUBSET Packet /\ \A p \in ControlPackets : p.kind # "Audio"
    BY DEF ControlPackets
  <2> QED BY <2>1, <2>2, NothingSealed
<1>3. CASE AudioNumbers /\ encryption = "AesGcmV2"
  BY <1>0, <1>3, FrameSealed DEF StepOfNumbers
<1>4. CASE AudioNumbers /\ encryption # "AesGcmV2"
  <2>1. SendsAtMost(AudioPackets) /\ UNCHANGED encryption
    BY <1>0, <1>4 DEF AudioNumbers, StepOfNumbers
  <2>2. AudioPackets \in SUBSET Packet
    BY DEF AudioPackets
  <2> QED BY <1>4, <2>1, <2>2, NothingSealed
<1> QED BY <1>0, <1>1, <1>2, <1>3, <1>4 DEF StepOfNumbers

\* Frames whose nonces are apart by less than a wrap have different nonces.
LEMMA NoncesDiffer == TypeOK /\ NoncesInOrder => NonceNeverReused
<1> SUFFICES ASSUME TypeOK, NoncesInOrder,
                    NEW i \in 1 .. Len(wire), NEW j \in 1 .. Len(wire),
                    i < j, Sealed(wire[i]), Sealed(wire[j]),
                    wire[j].f - wire[i].f < NonceModulus
             PROVE  wire[i].nonce # wire[j].nonce
  BY DEF NonceNeverReused
<1>1. wire[i] \in Packet /\ wire[j] \in Packet
  BY ElementOfSeq DEF TypeOK
<1>2. /\ wire[i].f \in Nat /\ wire[j].f \in Nat
      /\ wire[i].nonce \in 0 .. NonceModulus - 1
  BY <1>1 DEF Packet
<1>3. /\ wire[i].f < wire[j].f
      /\ Ahead(wire[i].nonce, wire[j].nonce, NonceModulus) = wire[j].f - wire[i].f
  BY DEF NoncesInOrder
<1>4. Ahead(wire[i].nonce, wire[i].nonce, NonceModulus) = 0
  BY <1>2, SessionAssumption DEF Ahead
<1> QED BY <1>2, <1>3, <1>4

\* No two frames of a session are sealed under one nonce before all nonces have
\* been used, whatever the random start and the width of the counter.
THEOREM NoncesAreFresh == Spec => []NonceNeverReused
<1>1. Init => NonceInv /\ NoncesInOrder
  BY DEF Init, NonceInv, NoncesInOrder
<1> QED BY <1>1, TypeCorrect, NonceStep, NoncesDiffer, PTL DEF Spec

-----------------------------------------------------------------------------
(* The session implements the stream *)

\* What the relay sees of the packets, as the instance Stream has it.
StreamOf(w) == [i \in DOMAIN w |-> [kind |-> w[i].kind, id |-> w[i].id]]

LEMMA StreamGrows ==
  ASSUME NEW w \in Seq(Packet), NEW p \in Packet
  PROVE  StreamOf(Append(w, p))
           = Append(StreamOf(w), [kind |-> p.kind, id |-> p.id])
<1> DEFINE Seen == [kind : PacketKind, id : Nat]
           seen == [kind |-> p.kind, id |-> p.id]
<1>1. /\ Append(w, p) \in Seq(Packet) /\ Len(Append(w, p)) = Len(w) + 1
      /\ \A i \in 1 .. Len(w) : Append(w, p)[i] = w[i] /\ w[i] \in Packet
      /\ Append(w, p)[Len(w) + 1] = p
      /\ Len(w) \in Nat /\ DOMAIN w = 1 .. Len(w)
  BY AppendProperties, LenProperties, ElementOfSeq
<1>2. ASSUME NEW v \in Seq(Packet)
      PROVE  /\ StreamOf(v) \in Seq(Seen) /\ Len(StreamOf(v)) = Len(v)
             /\ \A i \in 1 .. Len(v) :
                  StreamOf(v)[i] = [kind |-> v[i].kind, id |-> v[i].id]
  <2>1. /\ Len(v) \in Nat /\ DOMAIN v = 1 .. Len(v)
        /\ \A i \in 1 .. Len(v) : v[i] \in Packet
    BY <1>2, LenProperties, ElementOfSeq
  <2>2. StreamOf(v) \in [1 .. Len(v) -> Seen]
    BY <2>1 DEF StreamOf, Packet
  <2>3. StreamOf(v) \in Seq(Seen)
    <3> HIDE DEF Seen
    <3> QED BY <2>1, <2>2, SeqDef
  <2>4. DOMAIN StreamOf(v) = 1 .. Len(v)
    BY <2>1 DEF StreamOf
  <2>5. Len(StreamOf(v)) = Len(v)
    BY <2>1, <2>3, <2>4, LenProperties
  <2> QED BY <2>1, <2>3, <2>5 DEF StreamOf
<1>3. seen \in Seen
  BY DEF Packet
<1> HIDE DEF Seen, seen
<1>4. /\ Append(StreamOf(w), seen) \in Seq(Seen)
      /\ Len(Append(StreamOf(w), seen)) = Len(w) + 1
      /\ \A i \in 1 .. Len(w) : Append(StreamOf(w), seen)[i] = StreamOf(w)[i]
      /\ Append(StreamOf(w), seen)[Len(w) + 1] = seen
  BY <1>1, <1>2, <1>3, AppendProperties
<1>5. /\ StreamOf(Append(w, p)) \in Seq(Seen)
      /\ Len(StreamOf(Append(w, p))) = Len(w) + 1
      /\ \A i \in 1 .. Len(w) + 1 : StreamOf(Append(w, p))[i]
           = [kind |-> Append(w, p)[i].kind, id |-> Append(w, p)[i].id]
  BY <1>1, <1>2
<1>6. ASSUME NEW i \in 1 .. Len(w) + 1
      PROVE  StreamOf(Append(w, p))[i] = Append(StreamOf(w), seen)[i]
  <2>1. CASE i \in 1 .. Len(w)
    <3>1. StreamOf(w)[i] = [kind |-> w[i].kind, id |-> w[i].id]
      BY <1>2, <2>1
    <3>2. Append(w, p)[i] = w[i] /\ Append(StreamOf(w), seen)[i] = StreamOf(w)[i]
      BY <1>1, <1>4, <2>1
    <3>3. StreamOf(Append(w, p))[i] = [kind |-> w[i].kind, id |-> w[i].id]
      BY <1>5, <1>6, <3>2
    <3> QED BY <3>1, <3>2, <3>3
  <2>2. CASE i = Len(w) + 1
    <3>1. StreamOf(Append(w, p))[i] = [kind |-> p.kind, id |-> p.id]
      BY <1>1, <1>5, <1>6, <2>2
    <3> QED BY <1>4, <2>2, <3>1 DEF seen
  <2>3. i \in 1 .. Len(w) \/ i = Len(w) + 1
    BY <1>1
  <2> QED BY <2>1, <2>2, <2>3
<1>7. StreamOf(Append(w, p)) = Append(StreamOf(w), seen)
  BY <1>4, <1>5, <1>6, SeqEqual
<1> QED BY <1>7 DEF seen

KindAsked(op) == Stream!KindOf(op)
Emits(kind, id) == Stream!Emit(kind, id)

\* A packet sent or lost is an Emit of the stream.
LEMMA Emitted ==
  ASSUME TypeOK, NEW p \in Packet, wire' = wire \/ wire' = Append(wire, p)
  PROVE  Emits(p.kind, p.id)
<1>1. CASE wire' = wire
  BY <1>1 DEF Emits, Stream!Emit
<1>2. CASE wire' = Append(wire, p)
  <2>1. StreamOf(Append(wire, p)) = Append(StreamOf(wire), [kind |-> p.kind, id |-> p.id])
    BY StreamGrows DEF TypeOK
  <2>2. StreamOf(wire') = Append(StreamOf(wire), [kind |-> p.kind, id |-> p.id])
    BY <1>2, <2>1
  <2> QED BY <2>2 DEF Emits, Stream!Emit, StreamOf
<1> QED BY <1>1, <1>2

LEMMA ControlEmitted ==
  ASSUME TypeOK, NEW kind \in PacketKind, NEW id \in Nat, NEW q,
         SendControl(kind, id, q)
  PROVE  Emits(kind, id)
<1>1. StampedPacket(kind, id) \in Packet
  BY PacketTypes
<1>2. StampedPacket(kind, id).kind = kind /\ StampedPacket(kind, id).id = id
  BY DEF StampedPacket
<1>3. wire' = wire \/ wire' = Append(wire, StampedPacket(kind, id))
  BY DEF SendControl, SendPacket
<1> QED BY <1>1, <1>2, <1>3, Emitted

\* Handling a command is a Settle: a packet of the kind it asks for, or none.
LEMMA CommandEmitted ==
  ASSUME TypeOK, NEW c \in Command, HandleCommand(c)
  PROVE  Emits(KindAsked(c.op), c.id)
<1>0. c.id \in Nat
  BY DEF Command
<1>1. CASE SendRaw(c)
  <2>1. /\ RawPacket(c.id) \in Packet
        /\ RawPacket(c.id).kind = "Raw" /\ RawPacket(c.id).id = c.id
    BY <1>0, PacketTypes DEF RawPacket
  <2>2. wire' = wire \/ wire' = Append(wire, RawPacket(c.id))
    BY <1>1 DEF SendRaw, SendPacket
  <2>3. KindAsked(c.op) = "Raw"
    BY <1>1 DEF SendRaw, KindAsked, Stream!KindOf
  <2> QED BY <2>1, <2>2, <2>3, Emitted
<1>2. CASE SendPcm(c)
  <2>1. /\ AudioPacket(c.id) \in Packet
        /\ AudioPacket(c.id).kind = "Audio" /\ AudioPacket(c.id).id = c.id
    BY <1>0, PacketTypes DEF AudioPacket
  <2>2. wire' = wire \/ wire' = Append(wire, AudioPacket(c.id))
    BY <1>2 DEF SendPcm, SendPacket
  <2>3. KindAsked(c.op) = "Audio"
    BY <1>2 DEF SendPcm, KindAsked, Stream!KindOf
  <2> QED BY <2>1, <2>2, <2>3, Emitted
<1>3. CASE c.op = "Control" /\ SendControl("Control", c.id, events)
  <2>1. KindAsked(c.op) = "Control"
    BY <1>3 DEF KindAsked, Stream!KindOf
  <2> QED BY <1>0, <1>3, <2>1, ControlEmitted DEF PacketKind
<1> QED BY <1>1, <1>2, <1>3 DEF HandleCommand

LEMMA StreamStep ==
  TypeOK /\ QueueInv /\ FlagInv /\ [Next]_vars => [Stream!Next]_(Stream!vars)
<1> SUFFICES ASSUME TypeOK, QueueInv, FlagInv, [Next]_vars
             PROVE  [Stream!Next]_(Stream!vars)
  OBVIOUS
<1>1. CASE WorkerStart
  <2>1. Emits("Join", 0)
    <3>1. SendControl("Join", 0, Offer(events, "Connected"))
      BY <1>1 DEF WorkerStart
    <3> QED BY <3>1, ControlEmitted DEF PacketKind
  <2> QED BY <1>1, <2>1 DEF WorkerStart, Goto, owner, Emits, Stream!Join, Stream!Next
<1>2. CASE TakeCommand
  <2>1. /\ Head(commands) \in Command /\ HandleCommand(Head(commands))
        /\ settled < Len(accepted) /\ Head(commands) = accepted[settled + 1]
    BY <1>2, CommandTaken, Oldest DEF TakeCommand, TakeOldest
  <2> PICK c \in Command : c = accepted[settled + 1] /\ HandleCommand(c)
    BY <2>1
  <2>2. Emits(KindAsked(c.op), c.id)
    BY CommandEmitted
  <2>3. settled' = settled + 1
    BY <2>1 DEF HandleCommand
  <2>4. Stream!Settle
    BY <1>2, <2>1, <2>2, <2>3
       DEF TakeCommand, owner, Emits, KindAsked, Stream!Settle, Stream!Emit
  <2> QED BY <2>4 DEF Stream!Next
<1>3. CASE KeepaliveDue
  <2>1. Emits("Keepalive", 0)
    <3>1. SendControl("Keepalive", 0, events)
      BY <1>3 DEF KeepaliveDue
    <3> QED BY <3>1, ControlEmitted DEF PacketKind
  <2> QED BY <1>3, <2>1
          DEF KeepaliveDue, Goto, owner, Emits, Stream!Keepalive, Stream!Next
<1>4. CASE WorkerLeave
  <2>1. Emits("Leave", 0)
    <3>1. /\ StampedPacket("Leave", 0) \in Packet
          /\ StampedPacket("Leave", 0).kind = "Leave"
          /\ StampedPacket("Leave", 0).id = 0
      BY PacketTypes DEF PacketKind, StampedPacket
    <3>2. wire' = wire \/ wire' = Append(wire, StampedPacket("Leave", 0))
      BY <1>4 DEF WorkerLeave
    <3> QED BY <3>1, <3>2, Emitted
  <2>2. handle # "open"
    BY <1>4 DEF WorkerLeave, Goto, FlagInv
  <2> QED BY <1>4, <2>1, <2>2
          DEF WorkerLeave, Goto, owner, Emits, Stream!Leave, Stream!Next
<1>5. ASSUME NEW op \in Ops, Submit(op)
      PROVE  Stream!Accept(op)
  BY <1>5 DEF Submit, outcome, Stream!Accept
<1>6. CASE DisconnectSwap
  BY <1>6 DEF DisconnectSwap, outcome, Stream!Close, Stream!Next
<1>7. CASE /\ UNCHANGED <<accepted, settled, keepalives, wire>>
           /\ (handle' = "open") = (handle = "open")
           /\ (pc' = "start") = (pc = "start")
           /\ (pc' = "done") = (pc = "done")
  BY <1>7 DEF Stream!vars
<1>8. CASE \/ LoopTop \/ ChannelEmpty \/ CheckRunning \/ KeepaliveNotDue
           \/ ReadDatagram \/ ReadTimeout \/ TakeDisconnect
           \/ TryNextEvent \/ DisconnectPush \/ JoinWorker \/ UNCHANGED vars
  BY <1>7, <1>8
     DEF LoopTop, ChannelEmpty, CheckRunning, KeepaliveNotDue, ReadDatagram,
         ReadTimeout, TakeDisconnect, TryNextEvent, DisconnectPush, JoinWorker,
         OnlyPcMoves, Goto, owner, outcome, vars
<1> QED BY <1>1, <1>2, <1>3, <1>4, <1>5, <1>6, <1>8
        DEF Next, Worker, WorkerAlone, Owner, Over, Stream!Next

\* The session, with its two threads and channels, implements the stream it
\* promises the relay, for every capacity and whatever the socket loses.
THEOREM SessionIsStream == Spec => ImplementsStream
<1>1. Init => QueueInv /\ FlagInv
  BY DEF Init, QueueInv, FlagInv
<1>2. Init => Stream!Init
  BY DEF Init, Stream!Init
<1> QED BY <1>1, <1>2, TypeCorrect, FlagStep, QueueStep, StreamStep, PTL
        DEF Spec, ImplementsStream, Stream!Spec

-----------------------------------------------------------------------------
(* What the relay can rely on *)

\* What the relay sees of a packet.
Seen == [kind : PacketKind, id : Nat]

\* Stream!Promise, as a formula about any values of what it speaks of.
Kept(ph, own, acc, done, str) ==
  /\ ph = "fresh" => str = <<>>
  /\ \A i \in 1 .. Len(str) :
       /\ str[i].kind = "Join" => i = 1
       /\ str[i].kind = "Leave" => i = Len(str) /\ ph = "left" /\ own # "open"
       /\ IF str[i].id = 0
          THEN str[i].kind \in {"Join", "Keepalive", "Leave"}
          ELSE /\ str[i].id \in 1 .. done
               /\ str[i].kind = KindAsked(acc[str[i].id].op)
  /\ \A i, j \in 1 .. Len(str) :
       (i < j /\ str[i].id # 0 /\ str[j].id # 0) => str[i].id < str[j].id

\* The instance's phase.
Phase(place) ==
  CASE place = "start" -> "fresh"
    [] place = "done" -> "left"
    [] OTHER -> "joined"

LEMMA PromiseIsKept ==
  Stream!Promise <=> Kept(Phase(pc), handle, accepted, settled, StreamOf(wire))
BY DEF Stream!Promise, Kept, Phase, StreamOf, KindAsked

\* Time goes on and nothing is sent.
LEMMA KeptInSilence ==
  ASSUME NEW ph, NEW ph2, NEW own, NEW own2,
         NEW acc, NEW acc2, NEW done \in Nat, NEW done2 \in Nat,
         NEW str \in Seq(Seen),
         Kept(ph, own, acc, done, str),
         ph2 = "fresh" => ph = "fresh", ph = "left" => ph2 = "left",
         own # "open" => own2 # "open",
         done <= done2, \A i \in 1 .. done : acc2[i] = acc[i]
  PROVE  Kept(ph2, own2, acc2, done2, str)
BY DEF Kept

\* A packet of the worker's own is sent in its place.
LEMMA KeptWithOwn ==
  ASSUME NEW ph, NEW ph2, NEW own, NEW own2, NEW acc, NEW done \in Nat,
         NEW str \in Seq(Seen), NEW p \in Seen,
         Kept(ph, own, acc, done, str), ph # "left", ph2 # "fresh",
         own # "open" => own2 # "open",
         p.id = 0,
         \/ p.kind = "Join" /\ str = <<>>
         \/ p.kind = "Keepalive"
         \/ p.kind = "Leave" /\ ph2 = "left" /\ own # "open"
  PROVE  Kept(ph2, own2, acc, done, Append(str, p))
<1>1. /\ Len(str) \in Nat /\ Len(Append(str, p)) = Len(str) + 1
      /\ \A i \in 1 .. Len(str) : Append(str, p)[i] = str[i] /\ str[i] \in Seen
      /\ Append(str, p)[Len(str) + 1] = p
  BY AppendProperties, LenProperties, ElementOfSeq
<1>2. \A i \in 1 .. Len(str) + 1 : i \in 1 .. Len(str) \/ i = Len(str) + 1
  BY <1>1
<1>3. str = <<>> => Len(str) = 0
  BY EmptySeq
<1> DEFINE long == Append(str, p)
<1> HIDE DEF long
<1>4. ASSUME NEW i \in 1 .. Len(long)
      PROVE  /\ long[i].kind = "Join" => i = 1
             /\ long[i].kind = "Leave" => i = Len(long) /\ ph2 = "left" /\ own2 # "open"
             /\ IF long[i].id = 0
                THEN long[i].kind \in {"Join", "Keepalive", "Leave"}
                ELSE /\ long[i].id \in 1 .. done
                     /\ long[i].kind = KindAsked(acc[long[i].id].op)
  <2>1. CASE i \in 1 .. Len(str)
    BY <1>1, <2>1 DEF Kept, long
  <2>2. CASE i = Len(str) + 1
    BY <1>1, <1>3, <2>2 DEF long
  <2> QED BY <1>1, <1>2, <2>1, <2>2 DEF long
<1>5. ASSUME NEW i \in 1 .. Len(long), NEW j \in 1 .. Len(long), i < j,
             long[i].id # 0, long[j].id # 0
      PROVE  long[i].id < long[j].id
  BY <1>1, <1>2, <1>5 DEF Kept, long
<1> QED BY <1>4, <1>5 DEF Kept, long

\* The packet of the next command is sent.
LEMMA KeptWithCommand ==
  ASSUME NEW ph, NEW own, NEW own2, NEW acc, NEW done \in Nat,
         NEW str \in Seq(Seen), NEW p \in Seen,
         Kept(ph, own, acc, done, str), ph # "left", ph # "fresh",
         own # "open" => own2 # "open",
         p.id = done + 1, p.kind = KindAsked(acc[p.id].op),
         p.kind \notin {"Join", "Leave"}
  PROVE  Kept(ph, own2, acc, done + 1, Append(str, p))
<1>1. /\ Len(str) \in Nat /\ Len(Append(str, p)) = Len(str) + 1
      /\ \A i \in 1 .. Len(str) : Append(str, p)[i] = str[i] /\ str[i] \in Seen
      /\ Append(str, p)[Len(str) + 1] = p
  BY AppendProperties, LenProperties, ElementOfSeq
<1>2. \A i \in 1 .. Len(str) + 1 : i \in 1 .. Len(str) \/ i = Len(str) + 1
  BY <1>1
<1> DEFINE long == Append(str, p)
<1> HIDE DEF long
<1>4. ASSUME NEW i \in 1 .. Len(long)
      PROVE  /\ long[i].kind = "Join" => i = 1
             /\ long[i].kind = "Leave" => i = Len(long) /\ ph = "left" /\ own2 # "open"
             /\ IF long[i].id = 0
                THEN long[i].kind \in {"Join", "Keepalive", "Leave"}
                ELSE /\ long[i].id \in 1 .. done + 1
                     /\ long[i].kind = KindAsked(acc[long[i].id].op)
  <2>1. CASE i \in 1 .. Len(str)
    BY <1>1, <2>1 DEF Kept, long, Seen
  <2>2. CASE i = Len(str) + 1
    BY <1>1, <2>2 DEF long
  <2> QED BY <1>1, <1>2, <2>1, <2>2 DEF long
<1>5. ASSUME NEW i \in 1 .. Len(long), NEW j \in 1 .. Len(long), i < j,
             long[i].id # 0, long[j].id # 0
      PROVE  long[i].id < long[j].id
  <2>1. i \in 1 .. Len(str)
    BY <1>1, <1>2, <1>5 DEF long
  <2>2. CASE j \in 1 .. Len(str)
    BY <1>1, <1>5, <2>1, <2>2 DEF Kept, long
  <2>3. CASE j = Len(str) + 1
    <3>1. long[i].id \in 1 .. done /\ long[j].id = done + 1
      BY <1>1, <1>5, <2>1, <2>3 DEF Kept, long
    <3> QED BY <3>1
  <2> QED BY <1>1, <1>2, <2>2, <2>3 DEF long
<1> QED BY <1>4, <1>5 DEF Kept, long

\* The promise, kept by the session.
KeptNow == Kept(Phase(pc), handle, accepted, settled, StreamOf(wire))

\* What is sent is a sequence, and grows by what Emit says.
LEMMA StreamType ==
  ASSUME TypeOK PROVE StreamOf(wire) \in Seq(Seen)
<1>1. /\ wire \in Seq(Packet) /\ Len(wire) \in Nat /\ DOMAIN wire = 1 .. Len(wire)
      /\ \A i \in 1 .. Len(wire) : wire[i] \in Packet
  BY LenProperties, ElementOfSeq DEF TypeOK
<1>2. StreamOf(wire) \in [1 .. Len(wire) -> Seen]
  BY <1>1 DEF StreamOf, Packet, Seen
<1> QED BY <1>1, <1>2, SeqDef

LEMMA EmitGrows ==
  ASSUME NEW kind, NEW id, Emits(kind, id)
  PROVE  \/ StreamOf(wire') = Append(StreamOf(wire), [kind |-> kind, id |-> id])
         \/ StreamOf(wire') = StreamOf(wire)
BY DEF Emits, Stream!Emit, StreamOf

LEMMA PhaseIs ==
  /\ Phase(pc) = "fresh" <=> pc = "start"
  /\ Phase(pc) = "left" <=> pc = "done"
  /\ Phase(pc) = "joined" <=> pc \notin {"start", "done"}
BY DEF Phase

LEMMA PromiseStep ==
  TypeOK /\ QueueInv /\ FlagInv /\ KeptNow /\ [Next]_vars => KeptNow'
<1> SUFFICES ASSUME TypeOK, QueueInv, FlagInv, KeptNow, [Next]_vars PROVE KeptNow'
  OBVIOUS
<1> DEFINE str == StreamOf(wire)
<1>0. /\ str \in Seq(Seen) /\ settled \in Nat
      /\ Kept(Phase(pc), handle, accepted, settled, str)
      /\ accepted \in Seq(Command) /\ settled <= Len(accepted)
  BY StreamType DEF TypeOK, QueueInv, KeptNow
<1>1. [Stream!Next]_(Stream!vars)
  BY StreamStep
<1> HIDE DEF str
<1>2. ASSUME NEW op \in Ops, Stream!Accept(op)
      PROVE  KeptNow'
  <2>1. /\ Phase(pc') = Phase(pc) /\ settled' = settled
        /\ handle # "open" => handle' # "open"
        /\ str' = str
        /\ accepted' = Append(accepted, [op |-> op, id |-> Len(accepted) + 1])
    BY <1>2 DEF Stream!Accept, Phase, StreamOf, str
  <2>2. \A i \in 1 .. settled : accepted'[i] = accepted[i]
    <3>1. Len(accepted) \in Nat
      BY <1>0, LenProperties
    <3>2. [op |-> op, id |-> Len(accepted) + 1] \in Command
      BY <3>1, SessionAssumption DEF Command
    <3>3. \A i \in 1 .. Len(accepted) : accepted'[i] = accepted[i]
      BY <1>0, <2>1, <3>2, AppendProperties
    <3> QED BY <1>0, <3>1, <3>3
  <2>3. settled <= settled /\ (handle # "open" => handle' # "open")
    BY <1>0, <2>1
  <2>4. Kept(Phase(pc), handle', accepted', settled, str)
    BY <1>0, <2>2, <2>3, KeptInSilence, Zenon
  <2> QED BY <2>1, <2>4 DEF KeptNow, str
<1>3. CASE Stream!Close
  <2>1. /\ Phase(pc') = Phase(pc) /\ handle' # "open" /\ settled' = settled
        /\ str' = str /\ accepted' = accepted
    BY <1>3 DEF Stream!Close, Phase, StreamOf, str
  <2>2. Kept(Phase(pc), handle', accepted, settled, str)
    BY <1>0, <2>1, KeptInSilence
  <2> QED BY <2>1, <2>2 DEF KeptNow, str
<1>4. CASE Stream!Join \/ Stream!Keepalive \/ Stream!Leave
  <2>1. /\ (handle # "open" => handle' # "open")
        /\ settled' = settled /\ accepted' = accepted
        /\ Phase(pc) # "left" /\ Phase(pc') # "fresh"
        /\ \E kind \in {"Join", "Keepalive", "Leave"} :
             /\ Emits(kind, 0)
             /\ kind = "Join" => Phase(pc) = "fresh"
             /\ kind = "Leave" => Phase(pc') = "left" /\ handle # "open"
    BY <1>4
       DEF Stream!Join, Stream!Keepalive, Stream!Leave, Phase, Emits
  <2> PICK kind \in {"Join", "Keepalive", "Leave"} :
             /\ Emits(kind, 0)
             /\ kind = "Join" => Phase(pc) = "fresh"
             /\ kind = "Leave" => Phase(pc') = "left" /\ handle # "open"
    BY <2>1
  <2> DEFINE p == [kind |-> kind, id |-> 0]
  <2>2. p \in Seen /\ p.id = 0 /\ p.kind = kind
    BY DEF Seen, PacketKind
  <2>3. str' = Append(str, p) \/ str' = str
    BY EmitGrows DEF str
  <2>4. kind = "Join" => str = <<>>
    BY <1>0 DEF Kept
  <2> HIDE DEF p
  <2>5. CASE str' = Append(str, p)
    <3>1. Kept(Phase(pc'), handle', accepted, settled, Append(str, p))
      BY <1>0, <2>1, <2>2, <2>4, KeptWithOwn
    <3> QED BY <2>1, <2>5, <3>1 DEF KeptNow, str
  <2>6. CASE str' = str
    <3>1. Kept(Phase(pc'), handle', accepted, settled, str)
      BY <1>0, <2>1, KeptInSilence
    <3> QED BY <2>1, <2>6, <3>1 DEF KeptNow, str
  <2> QED BY <2>3, <2>5, <2>6
<1>5. CASE Stream!Settle
  <2>1. /\ (handle # "open" => handle' # "open")
        /\ settled' = settled + 1 /\ accepted' = accepted
        /\ Phase(pc) = "joined" /\ Phase(pc') = Phase(pc)
        /\ settled < Len(accepted)
    BY <1>5 DEF Stream!Settle, Phase
  <2>2. accepted[settled + 1] \in Command /\ accepted[settled + 1].id = settled + 1
    BY <1>0, <2>1, ElementOfSeq DEF QueueInv
  <2> DEFINE c == accepted[settled + 1]
             p == [kind |-> KindAsked(c.op), id |-> c.id]
  <2>3. KindAsked(c.op) \in {"Control", "Audio", "Raw"}
    BY <2>2 DEF Command, Op, KindAsked, Stream!KindOf
  <2>4. /\ p \in Seen /\ p.id = settled + 1 /\ p.kind = KindAsked(accepted[p.id].op)
        /\ p.kind \notin {"Join", "Leave"}
    BY <1>0, <2>2, <2>3 DEF Seen, PacketKind
  <2>5. str' = Append(str, p) \/ str' = str
    BY <1>5 DEF Stream!Settle, Stream!Emit, StreamOf, KindAsked, str
  <2> HIDE DEF p
  <2>6. CASE str' = Append(str, p)
    <3>1. Kept(Phase(pc), handle', accepted, settled + 1, Append(str, p))
      BY <1>0, <2>1, <2>4, KeptWithCommand
    <3> QED BY <2>1, <2>6, <3>1 DEF KeptNow, str
  <2>7. CASE str' = str
    <3>1. Kept(Phase(pc), handle', accepted, settled + 1, str)
      BY <1>0, <2>1, KeptInSilence
    <3> QED BY <2>1, <2>7, <3>1 DEF KeptNow, str
  <2> QED BY <2>5, <2>6, <2>7
<1>6. CASE UNCHANGED Stream!vars
  <2>1. /\ Phase(pc') = Phase(pc) /\ (handle # "open" => handle' # "open")
        /\ settled' = settled /\ str' = str /\ accepted' = accepted
    BY <1>6 DEF Stream!vars, Phase, StreamOf, str
  <2>2. Kept(Phase(pc), handle', accepted, settled, str)
    BY <1>0, <2>1, KeptInSilence
  <2> QED BY <2>1, <2>2 DEF KeptNow, str
<1> QED BY <1>1, <1>2, <1>3, <1>4, <1>5, <1>6 DEF Stream!Next

\* The relay hears a Join first, a Leave only last and only if asked for, and
\* in between the accepted commands in their order, once each, and keepalives;
\* whatever the capacities, and whichever packets the socket lost.
THEOREM SessionKeepsPromise == Spec => []Stream!Promise
<1>1. Init => QueueInv /\ FlagInv
  BY DEF Init, QueueInv, FlagInv
<1>2. Init => KeptNow
  BY DEF Init, KeptNow, Kept, StreamOf
<1>3. KeptNow => Stream!Promise
  BY PromiseIsKept DEF KeptNow
<1> QED BY <1>1, <1>2, <1>3, TypeCorrect, FlagStep, QueueStep, PromiseStep, PTL
        DEF Spec

-----------------------------------------------------------------------------
(* The frame of the events *)

\* The events of a session that has not stopped.
Unfinished(q) ==
  \A i \in 1 .. Len(q) : (q[i] = "Connected" => i = 1) /\ q[i] # "Stopped"

\* EventsAreFramed is not inductive: nothing may precede the first event.
EventInv ==
  /\ pc = "start" => events = <<>>
  /\ EventsAreFramed

LEMMA OfferedLast ==
  ASSUME NEW q \in Seq(Event), NEW e \in Event
  PROVE  /\ Offer(q, e) \in Seq(Event) /\ Len(q) \in Nat
         /\ \/ Offer(q, e) = q
            \/ /\ Len(Offer(q, e)) = Len(q) + 1
               /\ \A i \in 1 .. Len(q) : Offer(q, e)[i] = q[i]
               /\ Offer(q, e)[Len(q) + 1] = e
BY AppendProperties, LenProperties DEF Offer

LEMMA OfferUnfinished ==
  ASSUME NEW q \in Seq(Event), NEW e \in Event \ {"Connected", "Stopped"},
         Unfinished(q)
  PROVE  Offer(q, e) \in Seq(Event) /\ Unfinished(Offer(q, e))
<1>1. /\ Offer(q, e) \in Seq(Event) /\ Len(q) \in Nat
      /\ \/ Offer(q, e) = q
         \/ /\ Len(Offer(q, e)) = Len(q) + 1
            /\ \A i \in 1 .. Len(q) : Offer(q, e)[i] = q[i]
            /\ Offer(q, e)[Len(q) + 1] = e
  BY OfferedLast
<1>2. \A i \in 1 .. Len(q) + 1 : i \in 1 .. Len(q) \/ i = Len(q) + 1
  BY <1>1
<1> QED BY <1>1, <1>2 DEF Unfinished

\* What a step of the worker other than its first and last does to the events.
Outcomes == Event \ {"Connected", "Stopped"}

LEMMA CommandOffers ==
  ASSUME NEW c, HandleCommand(c)
  PROVE  \E e \in Outcomes : events' = Offer(events, e)
BY DEF HandleCommand, SendRaw, SendPcm, SendControl, SendPacket, Outcomes, Event

LEMMA EventStep == TypeOK /\ EventInv /\ [Next]_vars => EventInv'
<1> SUFFICES ASSUME TypeOK, EventInv, [Next]_vars PROVE EventInv'
  OBVIOUS
<1>0. events \in Seq(Event) /\ (pc # "done" => Unfinished(events))
  BY DEF TypeOK, EventInv, EventsAreFramed, Unfinished
<1>1. CASE WorkerStart
  <2>1. /\ pc' = "loop" /\ events = <<>>
        /\ \E e \in Outcomes : events' = Offer(Offer(<<>>, "Connected"), e)
    BY <1>1 DEF WorkerStart, Goto, SendControl, SendPacket, EventInv, Outcomes, Event
  <2>2. Offer(<<>>, "Connected") \in Seq(Event) /\ Unfinished(Offer(<<>>, "Connected"))
    <3>1. <<>> \in Seq(Event) /\ Len(<<>>) = 0 /\ "Connected" \in Event
      BY EmptySeq DEF Event
    <3>2. ASSUME NEW z \in Seq(Event), Len(z) = 0
          PROVE  /\ Offer(z, "Connected") \in Seq(Event)
                 /\ Unfinished(Offer(z, "Connected"))
      <4> DEFINE q == Offer(z, "Connected")
      <4>1. /\ q \in Seq(Event) /\ Len(z) \in Nat
            /\ q = z \/ (Len(q) = Len(z) + 1 /\ q[Len(z) + 1] = "Connected")
        BY <3>1, OfferedLast
      <4> HIDE DEF q
      <4>2. CASE q = z
        BY <3>2, <4>1, <4>2 DEF Unfinished, q
      <4>3. CASE Len(q) = Len(z) + 1 /\ q[Len(z) + 1] = "Connected"
        <5>1. Len(q) = 1 /\ q[1] = "Connected"
          BY <3>2, <4>3
        <5>2. Unfinished(q)
          BY <5>1 DEF Unfinished
        <5> QED BY <4>1, <5>2 DEF q
      <4> QED BY <4>1, <4>2, <4>3
    <3> QED BY <3>1, <3>2
  <2>3. Unfinished(events')
    BY <2>1, <2>2, OfferUnfinished DEF Outcomes
  <2> QED BY <2>1, <2>3 DEF EventInv, EventsAreFramed, Unfinished
<1>2. CASE /\ pc # "done" /\ pc' # "start"
           /\ \E e \in Outcomes : events' = Offer(events, e)
  <2>1. Unfinished(events')
    BY <1>0, <1>2, OfferUnfinished DEF Outcomes
  <2> QED BY <1>2, <2>1 DEF EventInv, EventsAreFramed, Unfinished
<1>3. CASE WorkerLeave
  <2> PICK e \in Outcomes : events' = Offer(Offer(events, e), "Stopped")
    BY <1>3 DEF WorkerLeave, ThenStopped, Outcomes, Event
  <2> DEFINE q == Offer(events, e)
  <2>1. pc' = "done" /\ pc # "done"
    BY <1>3 DEF WorkerLeave, Goto
  <2>2. q \in Seq(Event) /\ Unfinished(q)
    BY <1>0, <2>1, OfferUnfinished DEF Outcomes
  <2> HIDE DEF q
  <2>3. /\ Len(q) \in Nat
        /\ \/ Offer(q, "Stopped") = q
           \/ /\ Len(Offer(q, "Stopped")) = Len(q) + 1
              /\ \A i \in 1 .. Len(q) : Offer(q, "Stopped")[i] = q[i]
              /\ Offer(q, "Stopped")[Len(q) + 1] = "Stopped"
    BY <2>2, OfferedLast DEF Event
  <2>4. events' = Offer(q, "Stopped")
    BY DEF q
  <2>5. CASE events' = q
    BY <2>1, <2>2, <2>5 DEF EventInv, EventsAreFramed, Unfinished
  <2>6. CASE /\ Len(events') = Len(q) + 1
             /\ \A i \in 1 .. Len(q) : events'[i] = q[i]
             /\ events'[Len(q) + 1] = "Stopped"
    <3>1. \A i \in 1 .. Len(q) + 1 : i \in 1 .. Len(q) \/ i = Len(q) + 1
      BY <2>3
    <3> QED BY <2>1, <2>2, <2>6, <3>1 DEF EventInv, EventsAreFramed, Unfinished
  <2> QED BY <2>3, <2>4, <2>5, <2>6
<1>4. CASE TryNextEvent
  <2>1. /\ events # <<>> /\ events' = Tail(events) /\ pc' = pc
        /\ Len(events) \in Nat /\ Len(events') = Len(events) - 1
        /\ \A i \in 1 .. Len(events') : events'[i] = events[i + 1]
    BY <1>0, <1>4, HeadTailProperties, LenProperties DEF TryNextEvent
  <2>2. \A i \in 1 .. Len(events') : i + 1 \in 1 .. Len(events) /\ i + 1 # 1
    BY <2>1
  <2>3. ASSUME NEW i \in 1 .. Len(events')
        PROVE  /\ events'[i] # "Connected"
               /\ events'[i] = "Stopped" => i = Len(events') /\ pc' = "done"
    <3> DEFINE k == i + 1
    <3>1. events'[i] = events[k] /\ k \in 1 .. Len(events) /\ k # 1
      BY <2>1, <2>2
    <3>2. events[k] # "Connected"
          /\ (events[k] = "Stopped" => k = Len(events) /\ pc = "done")
      BY <3>1 DEF EventInv, EventsAreFramed
    <3>3. k = Len(events) => i = Len(events')
      <4>1. Len(events) \in Nat /\ Len(events') = Len(events) - 1 /\ i \in Nat
        BY <2>1
      <4> QED BY <4>1
    <3> QED BY <2>1, <3>1, <3>2, <3>3
  <2> QED BY <2>1, <2>3 DEF EventInv, EventsAreFramed
<1>5. CASE UNCHANGED <<events, pc>>
  BY <1>5 DEF EventInv, EventsAreFramed
<1>6. CASE UNCHANGED events /\ pc \notin {"start", "done"} /\ pc' # "start"
  BY <1>6 DEF EventInv, EventsAreFramed
<1>7. CASE TakeCommand \/ KeepaliveDue \/ ReadDatagram
  <2>1. pc # "done" /\ pc' # "start"
    BY <1>7 DEF TakeCommand, KeepaliveDue, ReadDatagram, Goto
  <2>2. \E e \in Outcomes : events' = Offer(events, e)
    <3>1. CASE TakeCommand
      BY <3>1, CommandOffers DEF TakeCommand
    <3>2. CASE KeepaliveDue \/ ReadDatagram
      BY <3>2 DEF KeepaliveDue, SendControl, SendPacket, ReadDatagram, Outcomes, Event
    <3> QED BY <1>7, <3>1, <3>2
  <2> QED BY <1>2, <2>1, <2>2
<1>8. CASE \/ LoopTop \/ ChannelEmpty \/ CheckRunning \/ KeepaliveNotDue
           \/ ReadTimeout \/ TakeDisconnect
  BY <1>6, <1>8
     DEF LoopTop, ChannelEmpty, CheckRunning, KeepaliveNotDue, ReadTimeout,
         TakeDisconnect, OnlyPcMoves, Goto, shared
<1>9. CASE \/ \E op \in Ops : Submit(op)
           \/ DisconnectSwap \/ DisconnectPush \/ JoinWorker \/ UNCHANGED vars
  BY <1>5, <1>9
     DEF Submit, DisconnectSwap, DisconnectPush, JoinWorker, shared, vars
<1> QED BY <1>1, <1>3, <1>4, <1>7, <1>8, <1>9
        DEF Next, Worker, WorkerAlone, Owner, Over

\* The owner reads Connected first and Stopped last, however small the event
\* channel and however much of what lies between is lost.
THEOREM EventsFramed == Spec => []EventsAreFramed
<1>1. Init => EventInv
  BY DEF Init, EventInv, EventsAreFramed
<1>2. EventInv => EventsAreFramed
  BY DEF EventInv
<1> QED BY <1>1, <1>2, TypeCorrect, EventStep, PTL DEF Spec

-----------------------------------------------------------------------------
(* A disconnect gets on *)

\* The places of the worker and how far each is from the end.
LEMMA StepsFromPlace ==
  /\ StepsFrom("done") = 0 /\ StepsFrom("leave") = 1
  /\ StepsFrom("loop") = 2 /\ StepsFrom("check") = 2
  /\ StepsFrom("start") = 3 /\ StepsFrom("drain") = 3 /\ StepsFrom("read") = 3
  /\ StepsFrom("recv") = 4 /\ StepsFrom("keepalive") = 4
BY DEF StepsFrom

\* The part of StepsLeft that the owner's push of Disconnect turns into another.
ToPush == IF handle = "swapped" THEN 1 ELSE 0

LEMMA StepsInRange == \A place \in WorkerPc : StepsFrom(place) \in 0 .. 4
BY StepsFromPlace DEF WorkerPc

LEMMA StepsLeftSplit ==
  ASSUME TypeOK
  PROVE  /\ StepsLeft = StepsFrom(pc) + Len(commands) + ToPush
         /\ StepsFrom(pc) \in 0 .. 4
         /\ Len(commands) \in Nat /\ Len(commands) <= CommandCapacity
         /\ ToPush \in 0 .. 1
<1>1. StepsFrom(pc) \in 0 .. 4
  BY StepsInRange DEF TypeOK
<1>2. Len(commands) \in Nat /\ Len(commands) <= CommandCapacity
  BY LenProperties DEF TypeOK
<1>3. StepsLeft = StepsFrom(pc) + Len(commands) + ToPush
  BY DEF StepsLeft, ToPush
<1>4. ToPush \in 0 .. 1
  BY DEF ToPush
<1> QED BY <1>1, <1>2, <1>3, <1>4

\* A step of the worker with the flag down leads to a place nearer the end, or
\* takes a command and leads no farther away.
LEMMA WorkerGetsOn ==
  ASSUME TypeOK, FlagInv, handle # "open", Worker
  PROVE  /\ handle' = handle
         /\ \/ commands' = commands /\ StepsFrom(pc') < StepsFrom(pc)
            \/ /\ commands # <<>> /\ commands' = Tail(commands)
               /\ StepsFrom(pc') <= StepsFrom(pc)
<1> USE StepsFromPlace DEF Goto, OnlyPcMoves, owner, shared
<1>0. ~running
  BY DEF FlagInv
<1>1. CASE WorkerStart
  BY <1>1 DEF WorkerStart
<1>2. CASE LoopTop
  BY <1>0, <1>2 DEF LoopTop
<1>3. CASE TakeCommand
  BY <1>3 DEF TakeCommand
<1>4. CASE TakeDisconnect
  BY <1>4 DEF TakeDisconnect
<1>5. CASE ChannelEmpty
  BY <1>5 DEF ChannelEmpty
<1>6. CASE CheckRunning
  BY <1>0, <1>6 DEF CheckRunning
<1>7. CASE KeepaliveDue
  BY <1>7 DEF KeepaliveDue
<1>8. CASE KeepaliveNotDue
  BY <1>8 DEF KeepaliveNotDue
<1>9. CASE ReadDatagram
  BY <1>9 DEF ReadDatagram
<1>10. CASE ReadTimeout
  BY <1>10 DEF ReadTimeout
<1>11. CASE WorkerLeave
  BY <1>11 DEF WorkerLeave
<1> QED BY <1>1, <1>2, <1>3, <1>4, <1>5, <1>6, <1>7, <1>8, <1>9, <1>10, <1>11
        DEF Worker, WorkerAlone

\* The owner takes it no farther away: what it pushes was counted before.
LEMMA OwnerAddsNothing ==
  ASSUME TypeOK, handle # "open", Owner \/ UNCHANGED vars
  PROVE  /\ pc' = pc
         /\ Len(commands') + ToPush' <= Len(commands) + ToPush
<1>0. commands \in Seq(Command \union {Disconnect}) /\ Len(commands) \in Nat
  BY LenProperties DEF TypeOK
<1>1. CASE DisconnectPush
  <2>1. /\ pc' = pc /\ ToPush = 1 /\ ToPush' = 0
        /\ commands' = commands \/ commands' = Append(commands, Disconnect)
    BY <1>1 DEF DisconnectPush, ToPush
  <2>2. Len(Append(commands, Disconnect)) = Len(commands) + 1
    BY <1>0, AppendProperties
  <2> QED BY <1>0, <2>1, <2>2
<1>2. CASE UNCHANGED <<pc, commands, handle>>
  BY <1>0, <1>2 DEF ToPush
<1>3. CASE JoinWorker
  BY <1>0, <1>3 DEF JoinWorker, shared, ToPush
<1>4. CASE TryNextEvent \/ UNCHANGED vars
  BY <1>2, <1>4 DEF TryNextEvent, owner, shared, vars
<1> QED BY <1>1, <1>3, <1>4 DEF Owner, Submit, DisconnectSwap

\* Sums of what is left.
LEMMA LessLeft ==
  ASSUME NEW a \in 0 .. 4, NEW b \in Nat, NEW c \in 0 .. 1,
         NEW a2 \in 0 .. 4, NEW b2 \in Nat, NEW c2 \in 0 .. 1
  PROVE  /\ (a2 + b2 < a + b /\ c2 = c) =>
              a2 + b2 + c2 <= a + b + c /\ a2 + b2 + c2 < a + b + c
         /\ (a2 = a /\ b2 + c2 <= b + c) => a2 + b2 + c2 <= a + b + c
OBVIOUS

\* A step nearer, or one command less.
LEMMA FewerLeft ==
  ASSUME NEW a \in 0 .. 4, NEW b \in Nat, NEW a2 \in 0 .. 4, NEW b2 \in Nat,
         (b2 = b /\ a2 < a) \/ (b2 = b - 1 /\ a2 <= a)
  PROVE  a2 + b2 < a + b
OBVIOUS

LEMMA DisconnectStep ==
  TypeOK /\ TypeOK' /\ FlagInv /\ [Next]_vars
    => (handle # "open" => /\ StepsLeft' <= StepsLeft
                           /\ Worker => StepsLeft' < StepsLeft)
<1> SUFFICES ASSUME TypeOK, TypeOK', FlagInv, [Next]_vars, handle # "open"
             PROVE  StepsLeft' <= StepsLeft /\ (Worker => StepsLeft' < StepsLeft)
  OBVIOUS
<1>1. /\ StepsLeft = StepsFrom(pc) + Len(commands) + ToPush
      /\ StepsFrom(pc) \in 0 .. 4 /\ Len(commands) \in Nat /\ ToPush \in 0 .. 1
  BY StepsLeftSplit
<1>2. /\ StepsLeft' = StepsFrom(pc') + Len(commands') + ToPush'
      /\ StepsFrom(pc') \in 0 .. 4 /\ Len(commands') \in Nat /\ ToPush' \in 0 .. 1
  <2>1. StepsLeft' = StepsFrom(pc') + Len(commands') + ToPush'
    BY DEF StepsLeft, ToPush
  <2>2. StepsFrom(pc') \in 0 .. 4
    BY StepsInRange DEF TypeOK
  <2>3. Len(commands') \in Nat
    BY LenProperties DEF TypeOK
  <2>4. ToPush' \in 0 .. 1
    BY DEF ToPush
  <2> QED BY <2>1, <2>2, <2>3, <2>4
<1>3. CASE Worker
  <2>1. ToPush' = ToPush
    BY <1>3, WorkerGetsOn DEF ToPush
  <2>2. StepsFrom(pc') + Len(commands') < StepsFrom(pc) + Len(commands)
    <3>1. \/ Len(commands') = Len(commands) /\ StepsFrom(pc') < StepsFrom(pc)
          \/ Len(commands') = Len(commands) - 1 /\ StepsFrom(pc') <= StepsFrom(pc)
      BY <1>3, WorkerGetsOn, HeadTailProperties DEF TypeOK
    <3> QED BY <1>1, <1>2, <3>1, FewerLeft
  <2>3. StepsLeft' < StepsLeft /\ StepsLeft' <= StepsLeft
    BY <1>1, <1>2, <2>1, <2>2, LessLeft
  <2> QED BY <2>3
<1>4. CASE ~Worker
  <2>1. /\ pc' = pc
        /\ Len(commands') + ToPush' <= Len(commands) + ToPush
    BY <1>4, OwnerAddsNothing DEF Next, Over
  <2>2. StepsFrom(pc') = StepsFrom(pc)
    BY <2>1
  <2>3. StepsLeft' <= StepsLeft
    BY <1>1, <1>2, <2>1, <2>2, LessLeft
  <2> QED BY <1>4, <2>3
<1> QED BY <1>3, <1>4

\* Once disconnect() has cleared the flag every step of the worker brings the
\* join nearer, whatever the capacities, what is queued and what the relay
\* sends; with the next theorem, a disconnect() waits for a bounded number of
\* steps.
THEOREM DisconnectGetsOn == Spec => DisconnectProgresses
<1>1. Init => FlagInv /\ QueueInv
  BY DEF Init, FlagInv, QueueInv
<1>2. TypeOK /\ TypeOK' /\ FlagInv /\ [Next]_vars
        => [handle # "open" => /\ StepsLeft' <= StepsLeft
                               /\ Worker => StepsLeft' < StepsLeft]_vars
  BY DisconnectStep
<1> QED BY <1>1, <1>2, TypeCorrect, FlagStep, QueueStep, PTL
        DEF Spec, DisconnectProgresses

\* At no time has a disconnect() more than the capacity of the command channel
\* and five steps to wait for.
THEOREM WaitIsBounded == Spec => [](StepsLeft \in 0 .. CommandCapacity + 5)
<1>1. TypeOK => StepsLeft \in 0 .. CommandCapacity + 5
  <2> SUFFICES ASSUME TypeOK PROVE StepsLeft \in 0 .. CommandCapacity + 5
    OBVIOUS
  <2>1. /\ StepsLeft = StepsFrom(pc) + Len(commands) + ToPush
        /\ StepsFrom(pc) \in 0 .. 4 /\ ToPush \in 0 .. 1
        /\ Len(commands) \in Nat /\ Len(commands) <= CommandCapacity
    BY StepsLeftSplit
  <2>2. CommandCapacity \in Nat
    BY SessionAssumption
  <2> QED BY <2>1, <2>2
<1> QED BY <1>1, TypeCorrect, PTL

=============================================================================
