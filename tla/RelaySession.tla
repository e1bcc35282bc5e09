---------------------------- MODULE RelaySession ----------------------------
(***************************************************************************)
(* One relay session of crates/incomudon-transport: the owner's handle     *)
(* (RelaySession), the worker thread (run_worker), the bounded command and *)
(* event channels between them, the shared running flag, and the UDP       *)
(* socket the worker alone uses.                                           *)
(*                                                                         *)
(* The two threads interleave at their accesses to what they share: the    *)
(* two channels and the flag.  Taking a command and handling it is one     *)
(* step, since the handler touches only the socket and the counters, which *)
(* are the worker's own, and offers an event at its end.                   *)
(*                                                                         *)
(* A command or a packet carries no bytes.  A command is its operation and *)
(* its place in the order of acceptance; a packet is its kind, the command *)
(* it comes from and the numbers stamped on it.                            *)
(***************************************************************************)
EXTENDS Integers, Sequences

\* RelayCommand: BadRaw is a Send whose header_len does not fit its variant,
\* so that Packet::encode refuses it; BadPcm is a frame that is not 320 bytes.
Op == {"Raw", "BadRaw", "Pcm", "BadPcm", "Control"}

CONSTANTS
  Ops,               \* the operations this owner uses
  CommandCapacity,   \* DEFAULT_COMMAND_CAPACITY, 64 in the code
  EventCapacity,     \* DEFAULT_EVENT_CAPACITY, 128 in the code; at least the
                     \* two events of WorkerStart, offered in one step
  SeqModulus,        \* values of a u16, 2^16 in the code
  NonceModulus,      \* values of a u64, 2^64 in the code
  MaxCalls,          \* bound: commands accepted in a behaviour
  MaxKeepalives      \* bound: keepalives that fall due in a behaviour

ASSUME SessionAssumption ==
  /\ Ops \subseteq Op
  /\ CommandCapacity \in Nat \ {0}
  /\ EventCapacity \in Nat \ {0, 1}
  /\ SeqModulus \in Nat \ {0}
  /\ NonceModulus \in Nat \ {0}
  /\ MaxCalls \in Nat
  /\ MaxKeepalives \in Nat

VARIABLES
  encryption,      \* config.encryption, fixed when the session is opened
  handle,          \* where the owner is: "open", inside disconnect(), "closed"
  running,         \* the AtomicBool the two threads share
  commands,        \* the command channel
  events,          \* the event channel
  pc,              \* where the worker is in run_worker
  sequence,        \* the worker's u16 packet sequence number
  audioSequence,   \* MediaState.audio_sequence
  nonce,           \* MediaState.nonce
  keepalives,      \* keepalives that fell due so far
  accepted,        \* history: the commands try_send took, in order
  settled,         \* history: how many of them the worker has handled
  issued,          \* history: sequence numbers handed out
  frames,          \* history: audio sequence numbers handed out
  wire             \* history: the packets socket.send took, in order

shared == <<running, commands, events>>
counters == <<sequence, audioSequence, nonce, issued, frames>>
outcome == <<counters, keepalives, settled, wire>>  \* of the worker's work
owner == <<encryption, handle, accepted>>           \* no worker step writes it
vars == <<owner, shared, pc, outcome>>

OnlyPcMoves == UNCHANGED <<owner, shared, outcome>>

-----------------------------------------------------------------------------
(* Values *)

Encryption == {"AesGcmV2", "AesGcmV1", "None"}

Command == [op : Op, id : Nat \ {0}]
Disconnect == [op |-> "Disconnect", id |-> 0]

Event == {"Connected", "Sent", "Received", "PcmReceived",
          "ReceiveRejected", "IoError", "Stopped"}

\* id is the command the packet comes from, 0 for the worker's own; seq is
\* header.sequence, aseq the audio number inside the payload, nonce that of the
\* security header.  History: n and f count the packet and audio numbers given
\* out before it.
PacketKind == {"Join", "Keepalive", "Leave", "Control", "Audio", "Raw"}
Packet == [kind : PacketKind, id : Nat, seq : 0 .. SeqModulus - 1,
           aseq : 0 .. SeqModulus - 1, nonce : 0 .. NonceModulus - 1,
           n : Nat, f : Nat]

Handle == {"open", "swapped", "joining", "closed"}
WorkerPc == {"start", "loop", "recv", "drain", "check", "keepalive", "read",
             "leave", "done"}

\* The worker gives every packet but a caller's own its sequence number.
Stamped(p) == p.kind # "Raw"
Sealed(p) == p.kind = "Audio" /\ encryption = "AesGcmV2"

-----------------------------------------------------------------------------
(* Helpers *)

\* The same with the wrap forgotten: the counter sticks at its maximum.
SaturatingIncrement(x, modulus) == IF x + 1 = modulus THEN x ELSE x + 1

\* wrapping_add(1) of an unsigned integer with that many values.
WrappingIncrement(x, modulus) == IF x + 1 = modulus THEN 0 ELSE x + 1

\* The channel grown instead of bounded.
OfferUnbounded(q, e) == Append(q, e)

\* events.try_send: a full channel loses the new event, never blocks.
Offer(q, e) == IF Len(q) < EventCapacity THEN Append(q, e) ELSE q

\* The next command, taken from the wrong end.
TakeNewest(q) == q[Len(q)]

\* The next command of a non-empty channel.
TakeOldest(q) == Head(q)

StampedPacket(kind, id) ==
  [kind |-> kind, id |-> id, seq |-> sequence, aseq |-> 0, nonce |-> 0,
   n |-> issued, f |-> 0]

AudioPacket(id) ==
  [kind |-> "Audio", id |-> id, seq |-> sequence, aseq |-> audioSequence,
   nonce |-> IF encryption = "AesGcmV2" THEN nonce ELSE 0,
   n |-> issued, f |-> frames]

\* Its sequence number is the caller's; the worker does not look at it.
RawPacket(id) ==
  [kind |-> "Raw", id |-> id, seq |-> 0, aseq |-> 0, nonce |-> 0,
   n |-> 0, f |-> 0]

\* send_packet, with q the events offered before it: the socket takes the
\* packet, or fails (a connected UDP socket reports an unreachable port so).
SendPacket(p, q) ==
  \/ /\ wire' = Append(wire, p)
     /\ events' = Offer(q, "Sent")
  \/ /\ UNCHANGED wire
     /\ events' = Offer(q, "IoError")

AdvanceSequence ==
  /\ sequence' = WrappingIncrement(sequence, SeqModulus)
  /\ issued' = issued + 1

\* send_control: the sequence number is spent even if the send then fails.
SendControl(kind, id, q) ==
  /\ AdvanceSequence
  /\ SendPacket(StampedPacket(kind, id), q)
  /\ UNCHANGED <<audioSequence, nonce, frames>>


\* The media nonce left where it was.
KeepNonce == nonce' = nonce

\* media.nonce after a frame was given the present one.
AdvanceNonce == nonce' = WrappingIncrement(nonce, NonceModulus)

\* send_pcm.  A frame of the wrong length costs nothing.  Any other spends an
\* audio and a packet sequence number; under AES-GCM v1, which has no media
\* key, they are spent on a frame that is then not sent.  Sealing a 322-byte
\* frame under a 32-byte key cannot fail, so that error path has no step.
SendPcm(c) ==
  \/ /\ c.op = "BadPcm"
     /\ events' = Offer(events, "IoError")
     /\ UNCHANGED <<counters, wire>>
  \/ /\ c.op = "Pcm"
     /\ AdvanceSequence
     /\ audioSequence' = WrappingIncrement(audioSequence, SeqModulus)
     /\ frames' = frames + 1
     /\ \/ /\ encryption = "None"
           /\ UNCHANGED nonce
           /\ SendPacket(AudioPacket(c.id), events)
        \/ /\ encryption = "AesGcmV2"
           /\ AdvanceNonce
           /\ SendPacket(AudioPacket(c.id), events)
        \/ /\ encryption = "AesGcmV1"
           /\ events' = Offer(events, "IoError")
           /\ UNCHANGED <<nonce, wire>>

\* send_packet of a caller's own packet, which encode may refuse.
SendRaw(c) ==
  /\ \/ c.op = "Raw" /\ SendPacket(RawPacket(c.id), events)
     \/ c.op = "BadRaw" /\ events' = Offer(events, "IoError") /\ UNCHANGED wire
  /\ UNCHANGED counters

\* The arms for the three data-carrying commands, the same in both matches.
HandleCommand(c) ==
  /\ \/ SendRaw(c)
     \/ SendPcm(c)
     \/ c.op = "Control" /\ SendControl("Control", c.id, events)
  /\ settled' = settled + 1

-----------------------------------------------------------------------------
(* The worker thread *)

Goto(from, to) == pc = from /\ pc' = to

WorkerStart ==
  /\ Goto("start", "loop")
  /\ SendControl("Join", 0, Offer(events, "Connected"))
  /\ UNCHANGED <<owner, running, commands, keepalives, settled>>

\* while running.load(..)
LoopTop ==
  /\ pc = "loop"
  /\ pc' = IF running THEN "recv" ELSE "leave"
  /\ OnlyPcMoves

\* recv_timeout in the loop, then try_recv until the channel is empty.
TakeCommand ==
  /\ pc \in {"recv", "drain"}
  /\ commands # <<>>
  /\ TakeOldest(commands) # Disconnect
  /\ HandleCommand(TakeOldest(commands))
  /\ commands' = Tail(commands)
  /\ pc' = "drain"
  /\ UNCHANGED <<owner, running, keepalives>>

\* The outer match breaks out of the loop; the inner one clears the flag and
\* breaks to the check after it.
TakeDisconnect ==
  /\ pc \in {"recv", "drain"}
  /\ commands # <<>>
  /\ TakeOldest(commands) = Disconnect
  /\ commands' = Tail(commands)
  /\ \/ pc = "recv" /\ pc' = "leave" /\ UNCHANGED running
     \/ pc = "drain" /\ pc' = "check" /\ running' = FALSE
  /\ UNCHANGED <<owner, events, outcome>>

\* RecvTimeoutError::Timeout, and TryRecvError::Empty.  Disconnected cannot
\* be returned: the owner drops the sender after it has joined the worker.
ChannelEmpty ==
  /\ commands = <<>>
  /\ \/ Goto("recv", "drain")
     \/ Goto("drain", "check")
  /\ OnlyPcMoves

\* The flag looked at only at the top of the loop.
DoNotCheck ==
  /\ Goto("check", "keepalive")
  /\ OnlyPcMoves

\* if !running.load(..) { break }
CheckRunning ==
  /\ pc = "check"
  /\ pc' = IF running THEN "keepalive" ELSE "leave"
  /\ OnlyPcMoves

KeepaliveDue ==
  /\ keepalives < MaxKeepalives
  /\ Goto("keepalive", "read")
  /\ keepalives' = keepalives + 1
  /\ SendControl("Keepalive", 0, events)
  /\ UNCHANGED <<owner, running, commands, settled>>

KeepaliveNotDue ==
  /\ Goto("keepalive", "read")
  /\ OnlyPcMoves

\* A worker that gives up on the first socket error.
ReadDatagramOrDie ==
  /\ pc = "read"
  /\ \E e \in {"PcmReceived", "Received", "ReceiveRejected", "IoError"} :
       /\ events' = Offer(events, e)
       /\ pc' = IF e = "IoError" THEN "leave" ELSE "loop"
  /\ UNCHANGED <<owner, running, commands, outcome>>

\* socket.recv: an audio frame, any other packet, a datagram that does not
\* decode, or an error other than the poll interval running out.
ReadDatagram ==
  /\ Goto("read", "loop")
  /\ \E e \in {"PcmReceived", "Received", "ReceiveRejected", "IoError"} :
       events' = Offer(events, e)
  /\ UNCHANGED <<owner, running, commands, outcome>>

\* A socket without the read timeout waits for the relay.
ReadForever == FALSE

\* WouldBlock or TimedOut after READ_POLL_INTERVAL.
ReadTimeout ==
  /\ Goto("read", "loop")
  /\ OnlyPcMoves

\* Stopped announced before the Leave is sent.
StoppedThen(e) == Offer(Offer(events, "Stopped"), e)

\* The outcome of the Leave, then Stopped.
ThenStopped(e) == Offer(Offer(events, e), "Stopped")

\* After the loop.  The thread then ends and drops its ends of the channels.
WorkerLeave ==
  /\ Goto("leave", "done")
  /\ AdvanceSequence
  /\ \/ /\ wire' = Append(wire, StampedPacket("Leave", 0))
        /\ events' = ThenStopped("Sent")
     \/ /\ UNCHANGED wire
        /\ events' = ThenStopped("IoError")
  /\ UNCHANGED <<owner, running, commands, audioSequence, nonce, frames,
                 keepalives, settled>>

\* What the worker does by itself, whatever the relay sends.
WorkerAlone ==
  \/ WorkerStart
  \/ LoopTop
  \/ TakeCommand
  \/ TakeDisconnect
  \/ ChannelEmpty
  \/ CheckRunning
  \/ KeepaliveDue
  \/ KeepaliveNotDue
  \/ ReadTimeout
  \/ WorkerLeave

Worker == WorkerAlone \/ ReadDatagram

-----------------------------------------------------------------------------
(* The owner *)

\* send, send_control, send_pcm_frame when try_send takes the command.  A full
\* channel, or a worker that has ended, returns an error and changes nothing.
Submit(op) ==
  /\ handle = "open"
  /\ pc # "done"
  /\ Len(accepted) < MaxCalls
  /\ Len(commands) < CommandCapacity
  /\ LET c == [op |-> op, id |-> Len(accepted) + 1] IN
       /\ commands' = Append(commands, c)
       /\ accepted' = Append(accepted, c)
  /\ UNCHANGED <<encryption, handle, running, events, pc, outcome>>

\* Possible until the handle is dropped; disconnect() itself reads no event.
TryNextEvent ==
  /\ handle \in {"open", "closed"}
  /\ events # <<>>
  /\ events' = Tail(events)
  /\ UNCHANGED <<owner, running, commands, pc, outcome>>

\* A disconnect() that looks at the flag without clearing it.
DisconnectLoad ==
  /\ handle = "open"
  /\ handle' = IF running THEN "swapped" ELSE "closed"
  /\ UNCHANGED <<encryption, accepted, shared, pc, outcome>>

\* disconnect(), also from Drop: running.swap(false), and an early return that
\* joins nobody if the flag was already down.
DisconnectSwap ==
  /\ handle = "open"
  /\ handle' = IF running THEN "swapped" ELSE "closed"
  /\ running' = FALSE
  /\ UNCHANGED <<encryption, accepted, commands, events, pc, outcome>>

\* try_send(Disconnect), whose failure is ignored.
DisconnectPush ==
  /\ handle = "swapped"
  /\ handle' = "joining"
  /\ commands' = IF pc # "done" /\ Len(commands) < CommandCapacity
                 THEN Append(commands, Disconnect) ELSE commands
  /\ UNCHANGED <<encryption, accepted, running, events, pc, outcome>>

JoinWorker ==
  /\ handle = "joining"
  /\ pc = "done"
  /\ handle' = "closed"
  /\ UNCHANGED <<encryption, accepted, shared, pc, outcome>>

Owner ==
  \/ \E op \in Ops : Submit(op)
  \/ TryNextEvent
  \/ DisconnectSwap
  \/ DisconnectPush
  \/ JoinWorker

-----------------------------------------------------------------------------

\* RelaySession::connect has spawned the worker, which has not run yet.  The
\* media nonce starts anywhere.
Init ==
  /\ encryption \in Encryption
  /\ handle = "open"
  /\ running = TRUE
  /\ commands = <<>>
  /\ events = <<>>
  /\ pc = "start"
  /\ sequence = 0
  /\ audioSequence = 0
  /\ nonce \in 0 .. NonceModulus - 1
  /\ keepalives = 0
  /\ accepted = <<>>
  /\ settled = 0
  /\ issued = 0
  /\ frames = 0
  /\ wire = <<>>

\* The session is closed and every event read: nothing is left to do.
Over ==
  /\ handle = "closed"
  /\ pc = "done"
  /\ events = <<>>
  /\ UNCHANGED vars

Next == Worker \/ Owner \/ Over

Spec == Init /\ [][Next]_vars

\* The worker is a thread none of whose calls blocks for ever (the channel
\* waits a millisecond, the socket 100), and an owner inside disconnect() runs
\* on.  Nothing obliges the relay to send, nor the owner to call, to read
\* events or to disconnect.
Fairness ==
  /\ WF_vars(WorkerAlone)
  /\ WF_vars(DisconnectPush)
  /\ WF_vars(JoinWorker)

FairSpec == Spec /\ Fairness

-----------------------------------------------------------------------------
(* Properties *)

\* Every variable keeps to its type, and both channels to their capacity,
\* whoever stalls (lib.rs: "Commands are bounded so a stalled relay cannot
\* make the client retain unbounded stale control or media packets").
TypeOK ==
  /\ encryption \in Encryption
  /\ handle \in Handle
  /\ running \in BOOLEAN
  /\ commands \in Seq(Command \union {Disconnect})
  /\ Len(commands) <= CommandCapacity
  /\ events \in Seq(Event)
  /\ Len(events) <= EventCapacity
  /\ pc \in WorkerPc
  /\ sequence \in 0 .. SeqModulus - 1
  /\ audioSequence \in 0 .. SeqModulus - 1
  /\ nonce \in 0 .. NonceModulus - 1
  /\ keepalives \in 0 .. MaxKeepalives
  /\ accepted \in Seq(Command)
  /\ settled \in Nat
  /\ issued \in Nat
  /\ frames \in Nat
  /\ wire \in Seq(Packet)

\* Distance from x up to y on a counter that wraps at that modulus.
Ahead(x, y, modulus) == IF x <= y THEN y - x ELSE y - x + modulus

\* Control, keepalive and media packets share one ordered stream (the comment
\* on send_control): along the wire, sequence numbers advance by exactly as
\* many as the worker handed out in between, modulo the width of the field, so
\* any two packets less than a wrap apart can be put back in order.
OneOrderedStream ==
  \A i, j \in 1 .. Len(wire) :
    (i < j /\ Stamped(wire[i]) /\ Stamped(wire[j])) =>
      /\ wire[i].n < wire[j].n
      /\ wire[j].n - wire[i].n < SeqModulus =>
           Ahead(wire[i].seq, wire[j].seq, SeqModulus) = wire[j].n - wire[i].n

\* No two frames a session seals are given the same nonce, until as many
\* frames as there are nonces have gone by, wherever the random start lies and
\* whichever frames were lost to socket errors (MediaState, send_pcm).
NonceNeverReused ==
  \A i, j \in 1 .. Len(wire) :
    (/\ i < j
     /\ Sealed(wire[i]) /\ Sealed(wire[j])
     /\ wire[j].f - wire[i].f < NonceModulus) => wire[i].nonce # wire[j].nonce

\* The worker never stops on its own: whatever the socket returns, it has not
\* left its loop while the owner has not disconnected.  Hence an owner that
\* holds an open handle holds a working session, and one whose disconnect()
\* has returned has really joined the worker.
StopsOnlyWhenAsked ==
  /\ handle = "open" => pc \notin {"leave", "done"}
  /\ handle = "closed" => pc = "done"

\* The owner reads Connected before any other event, and nothing after
\* Stopped, which says that the Leave is behind it (run_worker).
EventsAreFramed ==
  \A i \in 1 .. Len(events) :
    /\ events[i] = "Connected" => i = 1
    /\ events[i] = "Stopped" => i = Len(events) /\ pc = "done"

\* disconnect() returns: the join in it cannot wait for ever, although the
\* Disconnect command is lost when the channel is full, and although nobody
\* reads the events the worker still offers.
DisconnectReturns == (handle # "open") ~> (handle = "closed")

\* The steps from a place in run_worker to its end when the flag is down and
\* the channel is empty.
StepsFrom(place) ==
  CASE place = "done" -> 0
    [] place = "leave" -> 1
    [] place \in {"loop", "check"} -> 2
    [] place \in {"start", "drain", "read"} -> 3
    [] place \in {"recv", "keepalive"} -> 4

\* What a disconnect() may still have to wait for: those steps, one for every
\* command the worker may take, and one for a Disconnect not pushed yet.
StepsLeft ==
  StepsFrom(pc) + Len(commands) + (IF handle = "swapped" THEN 1 ELSE 0)

\* Once disconnect() has cleared the flag, every step of the worker brings it
\* nearer to its end and no step takes it back: it is never sent round the loop
\* again, neither by commands nor by datagrams, and so ends after as many steps
\* as there are places in the command channel, and five.
DisconnectProgresses ==
  [][handle # "open" => /\ StepsLeft' <= StepsLeft
                        /\ Worker => StepsLeft' < StepsLeft]_vars

\* A command that was accepted is handled, unless the owner disconnects.
AcceptedIsSettled ==
  \A k \in 1 .. MaxCalls :
    (Len(accepted) >= k) ~> (settled >= k \/ handle # "open")

\* The session implements the stream it promises the relay.
Stream ==
  INSTANCE RelayStream WITH
    phase <- CASE pc = "start" -> "fresh"
               [] pc = "done" -> "left"
               [] OTHER -> "joined",
    closing <- handle # "open",
    stream <- [i \in DOMAIN wire |-> [kind |-> wire[i].kind, id |-> wire[i].id]]

\* What the relay is sent is a Join, the accepted commands in their order and
\* at most once each, keepalives, and one Leave that ends it and that only a
\* disconnect brings about.
ImplementsStream == Stream!Spec

=============================================================================
