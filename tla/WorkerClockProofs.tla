-------------------------- MODULE WorkerClockProofs --------------------------
(***************************************************************************)
(* Theorems about WorkerClock, for waits and intervals of any length.      *)
(***************************************************************************)
EXTENDS WorkerClock, TLAPS

\* How long ago a keepalive can have been found not yet due: in ReadEnds and
\* the waits after it, the clock is ahead of the interval by them alone.
AgeInv ==
  /\ pc = "read" => age < KeepaliveInterval + spent
  /\ pc = "loop" => age < KeepaliveInterval + ReadWait
  /\ pc = "recv" => age < KeepaliveInterval + ReadWait + spent
  /\ pc = "drain" => age < KeepaliveInterval + ReadWait + RecvWait + spent
  /\ age < KeepaliveInterval + PassTime

\* Whoever passes a look at the flag passes it with the flag up.
WaitInv ==
  /\ running => waited = 0
  /\ pc = "keepalive" => waited = 0
  /\ pc \in {"read", "recv"} => waited <= spent
  /\ pc = "drain" => waited <= RecvWait + spent
  /\ pc = "loop" => waited <= ReadWait
  /\ pc = "check" => waited <= RecvWait + DrainTime
  /\ waited <= ReadWait \/ waited <= RecvWait + DrainTime

\* A command may lie in the channel through one read, up to the end of the next
\* drain: where the worker is says how much of that can have passed.
CommandInv ==
  owed =>
    CASE pc \in {"loop", "recv"} -> delay <= ReadWait
      [] pc = "drain" -> delay <= ReadWait + spent
      [] pc = "read" -> delay <= spent
      [] pc \in {"check", "keepalive"} -> delay = 0
      [] OTHER -> delay <= ReadWait

\* No wait takes more than its limit, and the clocks count.
ClockTypes ==
  /\ pc \in {"loop", "recv", "drain", "check", "keepalive", "read", "left"}
  /\ spent \in 0 .. Limit(pc)
  /\ age \in Nat
  /\ running \in BOOLEAN
  /\ owed \in BOOLEAN
  /\ delay \in Nat
  /\ queued \in BOOLEAN
  /\ waited \in Nat

LEMMA ClocksCount == Spec => []ClockTypes
<1>1. Init => ClockTypes
  <2> SUFFICES ASSUME Init PROVE ClockTypes
    OBVIOUS
  <2>1. Limit(pc) = 0
    BY DEF Limit, Init
  <2>2. spent \in 0 .. Limit(pc)
    BY <2>1 DEF Init
  <2> QED
    BY <2>2 DEF Init, ClockTypes
<1>2. ClockTypes /\ [Next]_vars => ClockTypes'
  <2> SUFFICES ASSUME ClockTypes, [Next]_vars PROVE ClockTypes'
    OBVIOUS
  <2> USE ClockAssumption DEF ClockTypes, Limit
  <2>1. CASE TimePasses
    BY <2>1 DEF TimePasses
  <2>2. CASE LoopTop
    BY <2>2 DEF LoopTop, Goto, command
  <2>3. CASE RecvEnds
    <3>1. CASE Goto("recv", "drain") /\ Taken
      <4>1. owed' \in BOOLEAN /\ delay' \in Nat
        BY <3>1 DEF Taken
      <4>2. pc' = "drain" /\ spent' = 0 /\ UNCHANGED <<age, running, queued, waited>>
        BY <2>3, <3>1 DEF RecvEnds, Goto
      <4> QED
        BY <4>1, <4>2
    <3>2. CASE Goto("recv", "drain") /\ UNCHANGED command
      BY <2>3, <3>2 DEF RecvEnds, Goto, command
    <3>3. CASE Goto("recv", "left") /\ ~owed /\ UNCHANGED command
      BY <2>3, <3>3 DEF RecvEnds, Goto, command
    <3> QED
      BY <2>3, <3>1, <3>2, <3>3 DEF RecvEnds
  <2>4. CASE DrainEnds
    BY <2>4 DEF DrainEnds, Goto, command
  <2>5. CASE CheckRunning
    BY <2>5 DEF CheckRunning, Goto, command
  <2>6. CASE Keepalive
    BY <2>6 DEF Keepalive, Goto, command
  <2>7. CASE ReadEnds
    BY <2>7 DEF ReadEnds, Goto, command
  <2>8. CASE Disconnect
    BY <2>8 DEF Disconnect, command
  <2>9. CASE UNCHANGED vars
    BY <2>9 DEF vars, command
  <2>10. CASE Accept
    BY <2>10 DEF Accept
  <2>11. CASE Drain
    BY <2>11 DEF Drain, Taken
  <2> QED
    BY <2>1, <2>2, <2>3, <2>4, <2>5, <2>6, <2>7, <2>8, <2>9, <2>10, <2>11
    DEF Next, Over
<1> QED
  BY <1>1, <1>2, PTL DEF Spec

\* However the waits fall, the gap between two keepalives stays under the
\* interval and one pass of the loop.
THEOREM KeepalivesAreInTime == Spec => []KeepaliveInTime
<1>1. Init => AgeInv
  BY ClockAssumption DEF Init, AgeInv, PassTime
<1>2. ClockTypes /\ AgeInv /\ [Next]_vars => AgeInv'
  <2> SUFFICES ASSUME ClockTypes, AgeInv, [Next]_vars PROVE AgeInv'
    OBVIOUS
  <2> USE ClockAssumption DEF ClockTypes, Limit, AgeInv, PassTime
  <2>1. CASE TimePasses
    BY <2>1 DEF TimePasses
  <2>2. CASE LoopTop
    BY <2>2 DEF LoopTop, Goto, command
  <2>3. CASE RecvEnds
    <3>1. CASE Goto("recv", "drain") /\ Taken
      BY <2>3, <3>1 DEF RecvEnds, Taken, Goto
    <3>2. CASE Goto("recv", "drain") /\ UNCHANGED command
      BY <2>3, <3>2 DEF RecvEnds, Goto, command
    <3>3. CASE Goto("recv", "left") /\ ~owed /\ UNCHANGED command
      BY <2>3, <3>3 DEF RecvEnds, Goto, command
    <3> QED
      BY <2>3, <3>1, <3>2, <3>3 DEF RecvEnds
  <2>4. CASE DrainEnds
    BY <2>4 DEF DrainEnds, Goto, command
  <2>5. CASE CheckRunning
    BY <2>5 DEF CheckRunning, Goto, command
  <2>6. CASE Keepalive
    BY <2>6 DEF Keepalive, Goto, command
  <2>7. CASE ReadEnds
    BY <2>7 DEF ReadEnds, Goto, command
  <2>8. CASE Disconnect
    BY <2>8 DEF Disconnect, command
  <2>9. CASE UNCHANGED vars
    BY <2>9 DEF vars, command
  <2>10. CASE Accept
    BY <2>10 DEF Accept
  <2>11. CASE Drain
    BY <2>11 DEF Drain, Taken
  <2> QED
    BY <2>1, <2>2, <2>3, <2>4, <2>5, <2>6, <2>7, <2>8, <2>9, <2>10, <2>11
    DEF Next, Over
<1>3. AgeInv => KeepaliveInTime
  BY DEF AgeInv, KeepaliveInTime
<1> QED
  BY <1>1, <1>2, <1>3, ClocksCount, PTL DEF Spec

\* An accepted command is taken from the channel within one read and one drain.
THEOREM CommandsArePrompt == Spec => []CommandIsPrompt
<1>1. Init => CommandInv
  BY ClockAssumption DEF Init, CommandInv
<1>2. ClockTypes /\ CommandInv /\ [Next]_vars => CommandInv'
  <2> SUFFICES ASSUME ClockTypes, CommandInv, [Next]_vars PROVE CommandInv'
    OBVIOUS
  <2> USE ClockAssumption DEF ClockTypes, Limit, CommandInv
  <2>1. CASE TimePasses
    BY <2>1 DEF TimePasses
  <2>2. CASE LoopTop
    BY <2>2 DEF LoopTop, Goto, command
  <2>3. CASE RecvEnds
    <3>1. CASE Goto("recv", "drain") /\ Taken
      BY <2>3, <3>1 DEF RecvEnds, Taken, Goto
    <3>2. CASE Goto("recv", "drain") /\ UNCHANGED command
      BY <2>3, <3>2 DEF RecvEnds, Goto, command
    <3>3. CASE Goto("recv", "left") /\ ~owed /\ UNCHANGED command
      BY <2>3, <3>3 DEF RecvEnds, Goto, command
    <3> QED
      BY <2>3, <3>1, <3>2, <3>3 DEF RecvEnds
  <2>4. CASE DrainEnds
    BY <2>4 DEF DrainEnds, Goto, command
  <2>5. CASE CheckRunning
    BY <2>5 DEF CheckRunning, Goto, command
  <2>6. CASE Keepalive
    BY <2>6 DEF Keepalive, Goto, command
  <2>7. CASE ReadEnds
    BY <2>7 DEF ReadEnds, Goto, command
  <2>8. CASE Disconnect
    BY <2>8 DEF Disconnect, command
  <2>9. CASE UNCHANGED vars
    BY <2>9 DEF vars, command
  <2>10. CASE Accept
    BY <2>10 DEF Accept
  <2>11. CASE Drain
    BY <2>11 DEF Drain, Taken
  <2> QED
    BY <2>1, <2>2, <2>3, <2>4, <2>5, <2>6, <2>7, <2>8, <2>9, <2>10, <2>11
    DEF Next, Over
<1>3. ClockTypes /\ CommandInv => CommandIsPrompt
  BY ClockAssumption DEF ClockTypes, Limit, CommandInv, CommandIsPrompt
<1> QED
  BY <1>1, <1>2, <1>3, ClocksCount, PTL DEF Spec

\* disconnect() keeps the UI thread for one wait of the worker at most.
THEOREM DisconnectsArePrompt == Spec => []DisconnectIsPrompt
<1>1. Init => WaitInv
  BY ClockAssumption DEF Init, WaitInv
<1>2. ClockTypes /\ WaitInv /\ [Next]_vars => WaitInv'
  <2> SUFFICES ASSUME ClockTypes, WaitInv, [Next]_vars PROVE WaitInv'
    OBVIOUS
  <2> USE ClockAssumption DEF ClockTypes, Limit, WaitInv
  <2>1. CASE TimePasses
    BY <2>1 DEF TimePasses
  <2>2. CASE LoopTop
    BY <2>2 DEF LoopTop, Goto, command
  <2>3. CASE RecvEnds
    <3>1. CASE Goto("recv", "drain") /\ Taken
      BY <2>3, <3>1 DEF RecvEnds, Taken, Goto
    <3>2. CASE Goto("recv", "drain") /\ UNCHANGED command
      BY <2>3, <3>2 DEF RecvEnds, Goto, command
    <3>3. CASE Goto("recv", "left") /\ ~owed /\ UNCHANGED command
      BY <2>3, <3>3 DEF RecvEnds, Goto, command
    <3> QED
      BY <2>3, <3>1, <3>2, <3>3 DEF RecvEnds
  <2>4. CASE DrainEnds
    BY <2>4 DEF DrainEnds, Goto, command
  <2>5. CASE CheckRunning
    BY <2>5 DEF CheckRunning, Goto, command
  <2>6. CASE Keepalive
    BY <2>6 DEF Keepalive, Goto, command
  <2>7. CASE ReadEnds
    BY <2>7 DEF ReadEnds, Goto, command
  <2>8. CASE Disconnect
    BY <2>8 DEF Disconnect, command
  <2>9. CASE UNCHANGED vars
    BY <2>9 DEF vars, command
  <2>10. CASE Accept
    BY <2>10 DEF Accept
  <2>11. CASE Drain
    BY <2>11 DEF Drain, Taken
  <2> QED
    BY <2>1, <2>2, <2>3, <2>4, <2>5, <2>6, <2>7, <2>8, <2>9, <2>10, <2>11
    DEF Next, Over
<1>3. WaitInv => DisconnectIsPrompt
  BY DEF WaitInv, DisconnectIsPrompt
<1> QED
  BY <1>1, <1>2, <1>3, ClocksCount, PTL DEF Spec

=============================================================================
