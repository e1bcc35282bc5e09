---------------------------- MODULE SecureMedia -----------------------------
(***************************************************************************)
(* Speech from client to client: media_key, send_pcm and decode_pcm of the *)
(* transport crate over the crypto crate, with a relay and a network that  *)
(* lose, repeat, reorder, misdirect and damage datagrams.                  *)
(*                                                                         *)
(* Ciphers are symbolic.  A digest is the text it was made from, a key is  *)
(* the pair it was derived from, and a sealed text opens under the key,    *)
(* the nonce and the additional data it was sealed with, and no other.     *)
(* Counters are RelaySession's matter: here the n-th frame of a client     *)
(* bears n in every field that counts.                                     *)
(***************************************************************************)
EXTENDS PacketLayout

CONSTANTS
  Clients,       \* each is its own sender ID
  Channels,
  Passwords,
  Modes,         \* the encryption modes in use
  HeaderLens,    \* what header_len may be turned into
  Cuts,          \* how many bytes may be cut off
  MaxFrames,     \* bound: frames a client speaks
  MaxDamages     \* bound: datagrams damaged

Encryption == {"AesGcmV2", "AesGcmV1", "None"}
Words == {"w", "x"}

\* 32 bytes: the digest of a text as typed, or 32 zeros.
Secret == [word : Words \union {"zeros"}, padded : BOOLEAN]
Zeros == [word |-> "zeros", padded |-> FALSE]

\* What a password may look like: nothing but blanks; 64 hex digits, perhaps
\* marked sha256: or with blanks around them; or any other text, with blanks
\* around it or not.
Password == [form : {"blank"}, padded : BOOLEAN] \union
            [form : {"hex"}, padded : BOOLEAN, value : Secret] \union
            [form : {"text"}, padded : BOOLEAN, word : Words]

ASSUME MediaAssumption ==
  /\ Passwords \subseteq Password
  /\ Modes \subseteq Encryption
  /\ HeaderLens \subseteq Word
  /\ Cuts \subseteq Nat \ {0}
  /\ MaxFrames \in Nat
  /\ MaxDamages \in Nat

VARIABLES
  conf,      \* each client's RelayConfig
  spoken,    \* frames each client has handed to its session
  net,       \* the datagrams of all clients; none is ever used up
  damages,   \* how many were damaged
  heard      \* the last PcmReceived: to whom, from whom, what

vars == <<conf, spoken, net, damages, heard>>

-----------------------------------------------------------------------------
(* Keys *)

\* A normalize_password that takes digits for text, another one.
NormalizeAsText(p) ==
  CASE p.form = "blank" -> Zeros
    [] p.form = "hex" -> [p.value EXCEPT !.padded = ~@]
    [] p.form = "text" -> [word |-> p.word, padded |-> p.padded]

\* normalize_password.  Blanks around the digits are trimmed; what is hashed
\* as text is hashed with its blanks.
NormalizePassword(p) ==
  CASE p.form = "blank" -> Zeros
    [] p.form = "hex" -> p.value
    [] p.form = "text" -> [word |-> p.word, padded |-> p.padded]

NoKey == <<>>

\* media_key: derive_password_key, then derive_aes_gcm_v2_key.
MediaKey(c) ==
  IF conf[c].mode = "AesGcmV2"
  THEN <<NormalizePassword(conf[c].password), conf[c].channel>>
  ELSE NoKey

\* The sender left out.
AadWithoutSender(d) == <<d.type, d.headerLen, d.channel, d.seq, d.flag, d.nonce>>

\* The header and the security header, whose key ID is always the same, as
\* PacketLayout's Aad lays them out.
AadOf(d) == <<d.type, d.headerLen, d.channel, d.sender, d.seq, d.flag, d.nonce>>

\* decrypt_aes_gcm_v2 of the datagram's payload and tag
Opens(key, d) ==
  /\ d.body.key = key
  /\ d.body.nonce = d.nonce
  /\ d.body.aad = AadOf(d)

-----------------------------------------------------------------------------
(* Sending *)

Audio == 1
Control == 2
FrameText == 322      \* an audio sequence number and a frame

\* What a payload holds; one that was not sealed bears NoKey, and one that is
\* no frame has the frame <<>>.
NoSpeech == [key |-> NoKey, nonce |-> 0, aad |-> <<>>, frame |-> <<>>]

\* origin, the client it comes from, and damaged are known to nobody.
Datagram(c, type, headerLen, flag, n) ==
  [type |-> type, headerLen |-> headerLen, channel |-> conf[c].channel,
   sender |-> c, seq |-> n, flag |-> flag, nonce |-> n, length |-> headerLen,
   body |-> NoSpeech, origin |-> c, damaged |-> FALSE]

Clear(c, n) ==
  [Datagram(c, Audio, FIXED_HEADER_LEN, FALSE, n) EXCEPT
    !.length = FIXED_HEADER_LEN + FrameText,
    !.body.frame = <<c, n>>]

Sealed(c, n) ==
  LET d == Datagram(c, Audio, SECURED_HEADER_LEN, TRUE, n)
  IN  [d EXCEPT
        !.length = SECURED_HEADER_LEN + FrameText + AUTH_TAG_LEN,
        !.body = [key |-> MediaKey(c), nonce |-> n, aad |-> AadOf(d),
                  frame |-> <<c, n>>]]

\* A frame sent in the clear when there is no key to seal it with.
SealedOrClear(c, n) == {IF MediaKey(c) = NoKey THEN Clear(c, n) ELSE Sealed(c, n)}

\* send_pcm: the datagram of the n-th frame, if there is one.
PcmDatagram(c, n) ==
  CASE conf[c].mode = "None" -> {Clear(c, n)}
    [] conf[c].mode = "AesGcmV2" -> {Sealed(c, n)}
    [] conf[c].mode = "AesGcmV1" -> {}

\* The worker sends a frame, or the socket loses it.
Speak(c) ==
  /\ spoken[c] < MaxFrames
  /\ spoken' = [spoken EXCEPT ![c] = @ + 1]
  /\ net' \in {net, net \union PcmDatagram(c, spoken'[c])}
  /\ UNCHANGED <<conf, damages, heard>>

\* send_control: secured framing without a tag, unless the mode is None.
ControlDatagram(c) ==
  IF conf[c].mode = "None"
  THEN Datagram(c, Control, FIXED_HEADER_LEN, FALSE, 0)
  ELSE [Datagram(c, Control, SECURED_HEADER_LEN, FALSE, 0) EXCEPT
         !.length = SECURED_HEADER_LEN + AUTH_TAG_LEN]

SendControl(c) ==
  /\ net' = net \union {ControlDatagram(c)}
  /\ UNCHANGED <<conf, spoken, damages, heard>>

\* On the way one field is changed, or the end is cut off.
Damaged(d) ==
  {[d EXCEPT !.damaged = TRUE, !.type = t] : t \in {Audio, Control, 16}} \union
  {[d EXCEPT !.damaged = TRUE, !.headerLen = l] : l \in HeaderLens} \union
  {[d EXCEPT !.damaged = TRUE, !.channel = x] : x \in Channels} \union
  {[d EXCEPT !.damaged = TRUE, !.sender = c] : c \in Clients} \union
  {[d EXCEPT !.damaged = TRUE, !.flag = ~d.flag],
   [d EXCEPT !.damaged = TRUE, !.seq = @ + 1],
   [d EXCEPT !.damaged = TRUE, !.nonce = @ + 1],
   [d EXCEPT !.damaged = TRUE, !.body = NoSpeech]} \union
  {[d EXCEPT !.damaged = TRUE, !.body = NoSpeech, !.length = @ - n] :
     n \in Cuts \intersect 1 .. d.length}

\* A datagram is damaged once at most.
Damage(d) ==
  /\ ~d.damaged
  /\ damages < MaxDamages
  /\ damages' = damages + 1
  /\ \E e \in Damaged(d) : net' = net \union {e}
  /\ UNCHANGED <<conf, spoken, heard>>

-----------------------------------------------------------------------------
(* Receiving *)

\* What Packet::decode makes of it.
Decoded(d) == Refusal(PROTOCOL_VERSION, d.type, d.headerLen, d.length) = "none"
Secured(d) == d.headerLen >= SECURED_HEADER_LEN
PayloadLength(d) ==
  d.length - d.headerLen - IF Secured(d) THEN AUTH_TAG_LEN ELSE 0

\* decode_pcm without its last check.
DecodesAnyLength(c, d) ==
  /\ Decoded(d)
  /\ d.type = Audio
  /\ Secured(d) => d.flag /\ MediaKey(c) # NoKey /\ Opens(MediaKey(c), d)

\* decode_pcm: the datagram is a frame that client c can play.
DecodesPcm(c, d) ==
  /\ Decoded(d)
  /\ d.type = Audio
  /\ Secured(d) => d.flag /\ MediaKey(c) # NoKey /\ Opens(MediaKey(c), d)
  /\ PayloadLength(d) = FrameText

\* The frame in it; <<>> for what is no speech, such as a sealed text played
\* as it is.
Speech(d) ==
  IF Secured(d) \/ d.body.key = NoKey THEN d.body.frame ELSE <<>>

\* The worker of c reads it: PcmReceived, or another event.  Nothing is
\* remembered of what was read before.
Read(c, d) ==
  /\ heard' = IF DecodesPcm(c, d)
              THEN {[by |-> c, from |-> d.sender, frame |-> Speech(d),
                     secured |-> Secured(d), origin |-> d.origin]}
              ELSE heard
  /\ UNCHANGED <<conf, spoken, net, damages>>

Init ==
  /\ conf \in [Clients -> [mode : Modes, channel : Channels, password : Passwords]]
  /\ spoken = [c \in Clients |-> 0]
  /\ net = {}
  /\ damages = 0
  /\ heard = {}

Next ==
  \/ \E c \in Clients : Speak(c) \/ SendControl(c)
  \/ \E d \in net : Damage(d)
  \/ \E c \in Clients, d \in net : Read(c, d)

Spec == Init /\ [][Next]_vars

-----------------------------------------------------------------------------
(* Properties *)

\* The passwords are two ways of writing one secret: the reference for
\* normalize_password.
SameSecret(p, q) ==
  LET Denotes(a, b) ==    \* a in digits, b in words or blanks
        /\ a.form = "hex"
        /\ \/ b.form = "blank" /\ a.value = Zeros
           \/ b.form = "text" /\ a.value = [word |-> b.word, padded |-> b.padded]
           \/ b.form = "hex" /\ a.value = b.value
  IN  \/ p = q
      \/ p.form = "blank" /\ q.form = "blank"
      \/ Denotes(p, q)
      \/ Denotes(q, p)

SameGroup(b, c) ==
  /\ conf[b].mode = "AesGcmV2" /\ conf[c].mode = "AesGcmV2"
  /\ conf[b].channel = conf[c].channel
  /\ SameSecret(conf[b].password, conf[c].password)

\* Whoever should hear a frame does, and nobody else: an undamaged frame is
\* played, however often, late or out of order it comes, by the clients of the
\* speaker's channel whose password denotes the speaker's secret, in whatever
\* notation (normalize_password, media_key, decode_pcm); a frame sent under
\* EncryptionMode::None is played by all.
GroupHears ==
  \A c \in Clients, d \in net :
    (d.type = Audio /\ ~d.damaged) =>
      (DecodesPcm(c, d) <=> conf[d.origin].mode = "None" \/ SameGroup(c, d.origin))

\* What is played as a sealed frame is a whole frame that the client it is
\* credited to spoke, in the listener's group, whatever happened on the way.
SealedIsGenuine ==
  \A h \in heard :
    h.secured =>
      /\ h.from = h.origin
      /\ h.frame \in {h.from} \X (1 .. spoken[h.from])
      /\ SameGroup(h.by, h.from)

\* A sealed frame whose header was damaged is never played as if it were in
\* the clear: what is played unsealed was sent so, by a client whose encryption
\* is None, and it was a frame.
SealedNeverPlayedAsIs ==
  \A h \in heard : ~h.secured => conf[h.origin].mode = "None"

\* Speech leaves a client in the clear only if its profile says so: a client
\* without a key to seal with stays silent (send_pcm).
NeverInTheClear ==
  \A d \in net :
    (d.body.frame # <<>> /\ d.body.key = NoKey) => conf[d.origin].mode = "None"

=============================================================================
