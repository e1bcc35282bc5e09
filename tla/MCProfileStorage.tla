-------------------------- MODULE MCProfileStorage --------------------------
(* ProfileStorage on files that hold a few profiles, valid and not. *)
EXTENDS ProfileStorage

MCFoundProfiles ==
  {[name |-> "home", codec |-> "Opus", bitrate |-> "positive"],
   [name |-> "away", codec |-> "Pcm", bitrate |-> "none"],
   [name |-> "away", codec |-> "Pcm", bitrate |-> "positive"],
   [name |-> "", codec |-> "Opus", bitrate |-> "zero"]}

=============================================================================
