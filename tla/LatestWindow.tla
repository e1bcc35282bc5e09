---------------------------- MODULE LatestWindow ----------------------------
(***************************************************************************)
(* What a real-time audio queue promises: items come out in the order they *)
(* went in, none twice; when more go in than it can hold it forgets the    *)
(* oldest and counts them, so that what comes out is always one of the     *)
(* last Capacity items that went in.                                       *)
(*                                                                         *)
(* The items are numbered from 1 as they go in.  The queue holds those     *)
(* from first to put, and nothing else.                                    *)
(***************************************************************************)
EXTENDS Integers, Sequences

CONSTANTS
  Capacity,   \* items the queue can hold
  Batch       \* items that go in at a time

VARIABLES
  put,        \* the item that went in last
  first,      \* the oldest item still held
  forgotten,  \* how many were forgotten
  out         \* the items that came out, in order

vars == <<put, first, forgotten, out>>

Init ==
  /\ put = 0
  /\ first = 1
  /\ forgotten = 0
  /\ out = <<>>

\* The oldest item that may stay once the next batch is in.
OldestKept == put + Batch - Capacity + 1

Put ==
  /\ put' = put + Batch
  /\ first' = IF first < OldestKept THEN OldestKept ELSE first
  /\ forgotten' = forgotten + (first' - first)
  /\ UNCHANGED out

Take ==
  /\ first <= put
  /\ first' = first + 1
  /\ out' = Append(out, first)
  /\ UNCHANGED <<put, forgotten>>

Next == Put \/ Take

Spec == Init /\ [][Next]_vars

-----------------------------------------------------------------------------
(* Properties *)

\* The promise in the plain words of a user of the queue: at most Capacity
\* items lie in it, every item that went in lies in it, came out or was counted
\* as forgotten, and what came out came in the order it went in, none twice.
Promise ==
  /\ put - first + 1 <= Capacity
  /\ Len(out) + forgotten = first - 1
  /\ \A i, j \in 1 .. Len(out) : i < j => out[i] < out[j]
  /\ \A i \in 1 .. Len(out) : out[i] < first

=============================================================================
