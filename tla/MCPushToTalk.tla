---------------------------- MODULE MCPushToTalk ----------------------------
(* PushToTalk among senders that only their names tell apart. *)
EXTENDS PushToTalk, TLC

MCSymmetry == Permutations(Senders)

=============================================================================
