---------------------------- MODULE RelayStream ----------------------------
(***************************************************************************)
(* What one relay session promises, with neither threads nor queues: the   *)
(* owner has commands accepted until it asks for the end, and the relay    *)
(* sees a Join, then the accepted commands in the order of their           *)
(* acceptance, each at most once, with keepalives in between, then a Leave *)
(* and nothing more.  The session leaves only after it was asked to.  It   *)
(* does not promise that a command accepted before the end is sent: an     *)
(* error may lose its packet, and leaving cuts off what is still pending.  *)
(*                                                                         *)
(* RelaySession implements this module; see Stream!Spec there.             *)
(***************************************************************************)
EXTENDS Naturals, Sequences

CONSTANTS
  Ops,            \* what a command may ask for
  MaxCalls,       \* bound: commands accepted in a behaviour
  MaxKeepalives   \* bound: keepalives sent in a behaviour

VARIABLES
  phase,          \* "fresh", then "joined", then "left"
  closing,        \* the owner has asked for the end
  accepted,       \* the commands accepted so far, in order
  settled,        \* how many of them are dealt with
  keepalives,     \* how many keepalives were due
  stream          \* what the relay was sent: records [kind, id]

vars == <<phase, closing, accepted, settled, keepalives, stream>>

\* The kind of packet the command asks for.
KindOf(op) ==
  CASE op \in {"Control"} -> "Control"
    [] op \in {"Pcm", "BadPcm"} -> "Audio"
    [] op \in {"Raw", "BadRaw"} -> "Raw"

\* A packet is sent, or is lost to an error before it reaches the network.
Emit(kind, id) ==
  \/ stream' = Append(stream, [kind |-> kind, id |-> id])
  \/ UNCHANGED stream

Init ==
  /\ phase = "fresh"
  /\ closing = FALSE
  /\ accepted = <<>>
  /\ settled = 0
  /\ keepalives = 0
  /\ stream = <<>>

Accept(op) ==
  /\ ~closing
  /\ phase # "left"
  /\ Len(accepted) < MaxCalls
  /\ accepted' = Append(accepted, [op |-> op, id |-> Len(accepted) + 1])
  /\ UNCHANGED <<phase, closing, settled, keepalives, stream>>

Close ==
  /\ ~closing
  /\ closing' = TRUE
  /\ UNCHANGED <<phase, accepted, settled, keepalives, stream>>

Join ==
  /\ phase = "fresh"
  /\ phase' = "joined"
  /\ Emit("Join", 0)
  /\ UNCHANGED <<closing, accepted, settled, keepalives>>

Settle ==
  /\ phase = "joined"
  /\ settled < Len(accepted)
  /\ settled' = settled + 1
  /\ LET c == accepted[settled + 1] IN Emit(KindOf(c.op), c.id)
  /\ UNCHANGED <<phase, closing, accepted, keepalives>>

Keepalive ==
  /\ phase = "joined"
  /\ keepalives < MaxKeepalives
  /\ keepalives' = keepalives + 1
  /\ Emit("Keepalive", 0)
  /\ UNCHANGED <<phase, closing, accepted, settled>>

Leave ==
  /\ phase = "joined"
  /\ closing
  /\ phase' = "left"
  /\ Emit("Leave", 0)
  /\ UNCHANGED <<closing, accepted, settled, keepalives>>

Next ==
  \/ \E op \in Ops : Accept(op)
  \/ Close
  \/ Join
  \/ Settle
  \/ Keepalive
  \/ Leave

Spec == Init /\ [][Next]_vars

\* What that comes to for the relay, in terms of what it was sent alone: a Join
\* comes first and once, a Leave only last, after which nothing comes, and only
\* when the end was asked for; every other packet that is not a keepalive is
\* what an accepted command asks for, in the order of acceptance, once each.
Promise ==
  /\ phase = "fresh" => stream = <<>>
  /\ \A i \in 1 .. Len(stream) :
       /\ stream[i].kind = "Join" => i = 1
       /\ stream[i].kind = "Leave" => i = Len(stream) /\ phase = "left" /\ closing
       /\ IF stream[i].id = 0
          THEN stream[i].kind \in {"Join", "Keepalive", "Leave"}
          ELSE /\ stream[i].id \in 1 .. settled
               /\ stream[i].kind = KindOf(accepted[stream[i].id].op)
  /\ \A i, j \in 1 .. Len(stream) :
       (i < j /\ stream[i].id # 0 /\ stream[j].id # 0)
         => stream[i].id < stream[j].id

=============================================================================
