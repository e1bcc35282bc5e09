---------------------------- MODULE WorkerClock -----------------------------
(***************************************************************************)
(* The time a session's worker takes (run_worker of the transport crate).  *)
(* One thread waits for commands, sends keepalives and reads the socket,   *)
(* in turn; how late a keepalive may be, how long an accepted command lies *)
(* in the channel, and how long disconnect() keeps the UI thread in join,  *)
(* follow from what each turn may wait.                                    *)
(*                                                                         *)
(* A unit is a millisecond in the code.  Time passes only where the worker *)
(* waits or works through commands; the rest of the pass takes none.  The  *)
(* clocks are relative, so time itself needs no bound.                     *)
(***************************************************************************)
EXTENDS Integers

CONSTANTS
  KeepaliveInterval,  \* config.keepalive_interval, 10000 in the code
  RecvWait,           \* of commands.recv_timeout, 1 in the code
  DrainTime,          \* the commands of one pass are handled within it; the
                      \* code drains until the channel is empty
  ReadWait            \* READ_POLL_INTERVAL, 100 in the code

ASSUME ClockAssumption ==
  /\ KeepaliveInterval \in Nat \ {0}
  /\ RecvWait \in Nat
  /\ DrainTime \in Nat
  /\ ReadWait \in Nat

VARIABLES
  pc,        \* where the worker is, as in RelaySession
  spent,     \* time since it got there
  age,       \* last_keepalive.elapsed()
  running,   \* the shared flag
  owed,      \* a command, any one of those accepted, is in the channel
  delay,     \* time since it was accepted, 0 if there is none
  queued,    \* a Disconnect command is in the channel
  waited     \* time since disconnect() was entered, 0 before

command == <<owed, delay>>
vars == <<pc, spent, age, running, command, queued, waited>>

\* What the worker may spend there.
Limit(p) ==
  CASE p = "recv" -> RecvWait
    [] p = "drain" -> DrainTime
    [] p = "read" -> ReadWait
    [] OTHER -> 0

Goto(from, to) ==
  /\ pc = from
  /\ pc' = to
  /\ spent' = 0

\* recv_timeout returns at once when there is something to receive.
TimePasses ==
  /\ spent < Limit(pc)
  /\ pc = "recv" => ~owed /\ ~queued
  /\ spent' = spent + 1
  /\ age' = age + 1
  /\ delay' = IF owed THEN delay + 1 ELSE 0
  /\ waited' = IF running THEN 0 ELSE waited + 1
  /\ UNCHANGED <<pc, running, owed, queued>>

\* send, send_control or send_pcm_frame; the other commands of the channel,
\* before this one or after it, are not told apart.
Accept ==
  /\ running
  /\ ~owed
  /\ owed' = TRUE
  /\ delay' = 0
  /\ UNCHANGED <<pc, spent, age, running, queued, waited>>

Taken == owed' = FALSE /\ delay' = 0

\* while running.load(..)
LoopTop ==
  /\ Goto("loop", IF running THEN "recv" ELSE "left")
  /\ UNCHANGED <<age, running, command, queued, waited>>

\* A command ends the wait, this one or one before it, or the timeout does;
\* Disconnect ends the loop if nothing is queued before it.
RecvEnds ==
  /\ \/ Goto("recv", "drain") /\ (Taken \/ UNCHANGED command)
     \/ Goto("recv", "left") /\ queued /\ ~owed /\ UNCHANGED command
  /\ UNCHANGED <<age, running, queued, waited>>

\* The drain comes to the command.
Drain ==
  /\ pc = "drain"
  /\ owed
  /\ Taken
  /\ UNCHANGED <<pc, spent, age, running, queued, waited>>

\* A worker that begins a new pass whenever it had commands to handle.
CommandsFirst ==
  /\ ~owed
  /\ \/ Goto("drain", "check")
     \/ Goto("drain", "loop")
  /\ UNCHANGED <<age, running, command, queued, waited>>

\* A drain that stops after so many commands, the rest left to the next pass.
DrainSome ==
  /\ Goto("drain", "check")
  /\ UNCHANGED <<age, running, command, queued, waited>>

\* The channel is empty.  Taking Disconnect clears a flag that is clear.
DrainEnds ==
  /\ ~owed
  /\ Goto("drain", "check")
  /\ UNCHANGED <<age, running, command, queued, waited>>

\* The check left out, the flag being read at the top of the loop.
NoCheck ==
  /\ Goto("check", "keepalive")
  /\ UNCHANGED <<age, running, command, queued, waited>>

CheckRunning ==
  /\ Goto("check", IF running THEN "keepalive" ELSE "left")
  /\ UNCHANGED <<age, running, command, queued, waited>>

Keepalive ==
  /\ Goto("keepalive", "read")
  /\ age' = IF age >= KeepaliveInterval THEN 0 ELSE age
  /\ UNCHANGED <<running, command, queued, waited>>

\* A datagram, an error, or the end of the poll interval.
ReadEnds ==
  /\ Goto("read", "loop")
  /\ UNCHANGED <<age, running, command, queued, waited>>

\* disconnect() clears the flag and offers a Disconnect, which may not fit.
Disconnect ==
  /\ running
  /\ running' = FALSE
  /\ queued' \in BOOLEAN
  /\ waited' = 0
  /\ UNCHANGED <<pc, spent, age, command>>

\* The worker has left, and its owner knows.
Over == pc = "left" /\ UNCHANGED vars

\* The Join has been sent.
Init ==
  /\ pc = "loop"
  /\ spent = 0
  /\ age = 0
  /\ running = TRUE
  /\ owed = FALSE
  /\ delay = 0
  /\ queued = FALSE
  /\ waited = 0

Next ==
  \/ TimePasses
  \/ Accept
  \/ LoopTop
  \/ RecvEnds
  \/ Drain
  \/ DrainEnds
  \/ CheckRunning
  \/ Keepalive
  \/ ReadEnds
  \/ Disconnect
  \/ Over

Spec == Init /\ [][Next]_vars

-----------------------------------------------------------------------------
(* Properties *)

PassTime == ReadWait + RecvWait + DrainTime

\* However the waits fall, the relay hears from a session again within the
\* keepalive interval and one pass of the loop: a keepalive that is found not
\* yet due is looked at again after one pass.
KeepaliveInTime == age < KeepaliveInterval + PassTime

\* A command waits for the one thread that also reads the socket, but for no
\* more than one read and one drain: what came too late for this pass's drain is
\* received at once in the next, or drained there with all that came before it.
CommandIsPrompt == owed => delay <= ReadWait + DrainTime

\* disconnect() keeps the UI thread for one wait of the worker, not more,
\* whether or not the Disconnect fitted into the channel: the flag is read
\* between the two waits.
DisconnectIsPrompt ==
  waited <= ReadWait \/ waited <= RecvWait + DrainTime

=============================================================================
