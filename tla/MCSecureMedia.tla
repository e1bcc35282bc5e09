--------------------------- MODULE MCSecureMedia ----------------------------
(* SecureMedia on the notations that normalize_password tells apart.        *)
EXTENDS SecureMedia

W == [word |-> "w", padded |-> FALSE]

MCPasswords ==
  {[form |-> "blank", padded |-> TRUE],
   [form |-> "hex", padded |-> TRUE, value |-> Zeros],
   [form |-> "hex", padded |-> FALSE, value |-> W],
   [form |-> "text", padded |-> FALSE, word |-> "w"],
   [form |-> "text", padded |-> TRUE, word |-> "w"]}

=============================================================================
