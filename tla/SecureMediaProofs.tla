------------------------- MODULE SecureMediaProofs --------------------------
(***************************************************************************)
(* What SecureMedia promises holds for any clients, channels, passwords,   *)
(* any number of frames, any number of damaged datagrams, any header_len   *)
(* that damage leaves and any cut.                                         *)
(***************************************************************************)
EXTENDS SecureMedia, TLAPS

-----------------------------------------------------------------------------
(* Passwords and keys *)

\* normalize_password gives two passwords one digest exactly if they are two
\* ways of writing one secret.
LEMMA SameDigest ==
  ASSUME NEW p \in Password, NEW q \in Password
  PROVE  NormalizePassword(p) = NormalizePassword(q) <=> SameSecret(p, q)
<1> DEFINE Typed(s) == [word |-> s.word, padded |-> s.padded]
<1>1. ASSUME NEW s \in Password, s.form = "text"
      PROVE  s.word \in Words /\ s.padded \in BOOLEAN /\ Typed(s) # Zeros
  BY <1>1 DEF Password, Words, Zeros
<1>2. \A s \in Password : s.form \in {"blank", "hex", "text"}
  BY DEF Password
<1>3. CASE p.form = "blank"
  BY <1>1, <1>2, <1>3 DEF NormalizePassword, SameSecret
<1>4. CASE p.form = "hex"
  BY <1>1, <1>2, <1>4 DEF NormalizePassword, SameSecret
<1>5. CASE p.form = "text"
  <2>1. CASE q.form = "text"
    <3>1. ASSUME Typed(p) = Typed(q) PROVE p = q
      <4>1. p.word = q.word /\ p.padded = q.padded
        BY <3>1
      <4> QED BY <1>5, <2>1, <4>1 DEF Password
    <3> QED BY <1>5, <2>1, <3>1 DEF NormalizePassword, SameSecret
  <2>2. CASE q.form # "text"
    BY <1>1, <1>2, <1>5, <2>2 DEF NormalizePassword, SameSecret
  <2> QED BY <2>1, <2>2
<1> QED BY <1>2, <1>3, <1>4, <1>5

ConfOK ==
  conf \in [Clients -> [mode : Modes, channel : Channels, password : Passwords]]

\* Two clients hold one key exactly if they are in one group.
LEMMA SameKey ==
  ASSUME ConfOK, NEW b \in Clients, NEW c \in Clients
  PROVE  (MediaKey(b) # NoKey /\ MediaKey(b) = MediaKey(c)) <=> SameGroup(b, c)
<1>1. conf[b].password \in Password /\ conf[c].password \in Password
  BY MediaAssumption DEF ConfOK
<1>2. NormalizePassword(conf[b].password) = NormalizePassword(conf[c].password)
        <=> SameSecret(conf[b].password, conf[c].password)
  BY <1>1, SameDigest
<1>3. \A x, y : <<x, y>> # <<>>
  OBVIOUS
<1>4. \A x, y, u, v : <<x, y>> = <<u, v>> <=> x = u /\ y = v
  OBVIOUS
<1> QED BY <1>2, <1>3, <1>4 DEF MediaKey, SameGroup, NoKey

-----------------------------------------------------------------------------
(* Datagrams *)

Fields == {"type", "headerLen", "channel", "sender", "seq", "flag", "nonce", "length",
           "body", "origin", "damaged"}

\* Where one additional data fits, the header it was made of fits.
LEMMA AadTells ==
  ASSUME NEW d, NEW e, AadOf(d) = AadOf(e)
  PROVE  d.headerLen = e.headerLen /\ d.sender = e.sender /\ d.nonce = e.nonce
BY DEF AadOf

LEMMA ClearFields ==
  ASSUME NEW c, NEW n, NEW d, d = Clear(c, n)
  PROVE  /\ d.type = Audio /\ d.headerLen = 16 /\ d.length = 338 /\ ~d.flag
         /\ d.sender = c /\ d.origin = c /\ ~d.damaged
         /\ d.body.key = NoKey /\ d.body.frame = <<c, n>>
         /\ DOMAIN d = Fields
BY DEF Fields, Clear, Datagram, NoSpeech, FIXED_HEADER_LEN, FrameText

LEMMA SealedFields ==
  ASSUME NEW c, NEW n, NEW d, d = Sealed(c, n)
  PROVE  /\ d.type = Audio /\ d.headerLen = 28 /\ d.length = 366 /\ d.flag
         /\ d.sender = c /\ d.origin = c /\ ~d.damaged /\ d.nonce = n
         /\ d.body.key = MediaKey(c) /\ d.body.nonce = n
         /\ d.body.aad = AadOf(d) /\ d.body.frame = <<c, n>>
         /\ DOMAIN d = Fields
<1> DEFINE plain == Datagram(c, Audio, SECURED_HEADER_LEN, TRUE, n)
           sealed == [key |-> MediaKey(c), nonce |-> n, aad |-> AadOf(plain),
                      frame |-> <<c, n>>]
<1>1. d = [plain EXCEPT !.length = 366, !.body = sealed]
  BY DEF Sealed, SECURED_HEADER_LEN, FrameText, AUTH_TAG_LEN
<1> HIDE DEF sealed
<1>2. /\ d.type = Audio /\ d.headerLen = 28 /\ d.length = 366 /\ d.flag
      /\ d.sender = c /\ d.origin = c /\ ~d.damaged /\ d.nonce = n
      /\ d.body = sealed /\ DOMAIN d = Fields
  BY <1>1 DEF Fields, Datagram, SECURED_HEADER_LEN
<1>3. AadOf(d) = AadOf(plain)
  BY <1>1 DEF AadOf, Datagram
<1>4. /\ sealed.key = MediaKey(c) /\ sealed.nonce = n
      /\ sealed.aad = AadOf(plain) /\ sealed.frame = <<c, n>>
  BY DEF sealed
<1> QED BY <1>2, <1>3, <1>4

LEMMA ControlFields ==
  ASSUME NEW c, NEW d, d = ControlDatagram(c)
  PROVE  /\ d.type = Control /\ d.headerLen \in {16, 28}
         /\ d.length = IF d.headerLen = 16 THEN 16 ELSE 44
         /\ ~d.flag /\ d.origin = c /\ ~d.damaged
         /\ d.body = NoSpeech /\ DOMAIN d = Fields
BY DEF Fields, ControlDatagram, Datagram, SECURED_HEADER_LEN, FIXED_HEADER_LEN, AUTH_TAG_LEN

\* What damage leaves as it was: all but one field, or all but body and length.
LEMMA DamagedFields ==
  ASSUME NEW d, NEW e \in Damaged(d), DOMAIN d = Fields
  PROVE  /\ e.damaged /\ e.origin = d.origin
         /\ e.body = d.body \/ e.body = NoSpeech
         /\ \/ /\ e.body = NoSpeech /\ e.type = d.type
               /\ e.headerLen = d.headerLen /\ (e.flag <=> d.flag)
            \/ /\ e.length = d.length /\ e.type = d.type
               /\ e.headerLen \in Word /\ (e.flag <=> d.flag)
            \/ /\ e.length = d.length /\ e.headerLen = d.headerLen
<1>1. CASE \E t : e = [d EXCEPT !.damaged = TRUE, !.type = t]
  BY <1>1 DEF Fields
<1>2. CASE \E l \in HeaderLens : e = [d EXCEPT !.damaged = TRUE, !.headerLen = l]
  BY <1>2, MediaAssumption DEF Fields
<1>3. CASE \E x : e = [d EXCEPT !.damaged = TRUE, !.channel = x]
  BY <1>3 DEF Fields
<1>4. CASE \E c : e = [d EXCEPT !.damaged = TRUE, !.sender = c]
  BY <1>4 DEF Fields
<1>5. CASE e = [d EXCEPT !.damaged = TRUE, !.flag = ~d.flag]
  BY <1>5 DEF Fields
<1>6. CASE e = [d EXCEPT !.damaged = TRUE, !.seq = @ + 1]
  BY <1>6 DEF Fields
<1>7. CASE e = [d EXCEPT !.damaged = TRUE, !.nonce = @ + 1]
  BY <1>7 DEF Fields
<1>8. CASE e = [d EXCEPT !.damaged = TRUE, !.body = NoSpeech]
  BY <1>8 DEF Fields
<1>9. CASE \E n : e = [d EXCEPT !.damaged = TRUE, !.body = NoSpeech, !.length = @ - n]
  BY <1>9 DEF Fields
<1> QED BY <1>1, <1>2, <1>3, <1>4, <1>5, <1>6, <1>7, <1>8, <1>9 DEF Damaged

-----------------------------------------------------------------------------
(* What a client makes of a datagram *)

\* A frame sent in the clear is played by everybody, as such.
LEMMA ClearIsHeard ==
  ASSUME NEW c, NEW n, NEW b, NEW d, d = Clear(c, n)
  PROVE  DecodesPcm(b, d)
<1>1. d.type = Audio /\ d.headerLen = 16 /\ d.length = 338
  BY ClearFields
<1>2. ~Secured(d) /\ PayloadLength(d) = FrameText
  BY <1>1 DEF Secured, SECURED_HEADER_LEN, PayloadLength, FrameText
<1>3. Decoded(d)
  BY <1>1 DEF Decoded, Refusal, PROTOCOL_VERSION, PacketType, Audio, SECURED_HEADER_LEN,
              LEGACY_HEADER_LEN, FIXED_HEADER_LEN
<1> QED BY <1>1, <1>2, <1>3 DEF DecodesPcm

\* A sealed frame is played by whoever holds its key.
LEMMA SealedIsHeard ==
  ASSUME NEW c, NEW n, NEW b, NEW d, d = Sealed(c, n)
  PROVE  DecodesPcm(b, d) <=> MediaKey(b) # NoKey /\ MediaKey(b) = MediaKey(c)
<1>1. /\ d.type = Audio /\ d.headerLen = 28 /\ d.length = 366 /\ d.flag
      /\ d.nonce = n /\ d.body.key = MediaKey(c) /\ d.body.nonce = n
      /\ d.body.aad = AadOf(d)
  BY SealedFields
<1>2. Secured(d) /\ PayloadLength(d) = FrameText
  BY <1>1 DEF Secured, SECURED_HEADER_LEN, PayloadLength, FrameText, AUTH_TAG_LEN
<1>3. Decoded(d)
  BY <1>1 DEF Decoded, Refusal, PROTOCOL_VERSION, PacketType, Audio, SECURED_HEADER_LEN,
              LEGACY_HEADER_LEN, FIXED_HEADER_LEN, AUTH_TAG_LEN
<1>4. Opens(MediaKey(b), d) <=> MediaKey(b) = MediaKey(c)
  BY <1>1 DEF Opens
<1> QED BY <1>1, <1>2, <1>3, <1>4 DEF DecodesPcm

\* No damage makes a frame sent in the clear pass for a sealed one.
LEMMA ClearStaysClear ==
  ASSUME NEW c, NEW n, NEW b, NEW d, d = Clear(c, n),
         NEW e, e = d \/ e \in Damaged(d), DecodesPcm(b, e)
  PROVE  ~Secured(e)
<1>1. /\ d.headerLen = 16 /\ d.length = 338 /\ ~d.flag /\ DOMAIN d = Fields
  BY ClearFields
<1>2. e.headerLen = 16 \/ ~e.flag
  BY <1>1, DamagedFields
<1> QED BY <1>2 DEF DecodesPcm, Secured, SECURED_HEADER_LEN

\* A sealed frame taken for an unsealed one is too long for a frame.
LEMMA ShortHeader ==
  ASSUME NEW h \in Word, ~(h >= 28)
  PROVE  366 - h # 322 /\ 366 - h - 0 = 366 - h
<1>1. h \in Int
  BY DEF Word
<1> QED BY <1>1

\* Whatever happened to a sealed frame, whoever plays it opened it: it is
\* credited to its sender and comes under the listener's own key.
LEMMA SealedStaysSealed ==
  ASSUME NEW c, NEW n, NEW b, NEW d, d = Sealed(c, n),
         NEW e, e = d \/ e \in Damaged(d), DecodesPcm(b, e)
  PROVE  /\ Secured(e) /\ e.sender = c /\ Speech(e) = <<c, n>>
         /\ MediaKey(b) # NoKey /\ MediaKey(b) = MediaKey(c)
<1>1. /\ d.headerLen = 28 /\ d.length = 366 /\ d.flag /\ d.sender = c
      /\ d.body.key = MediaKey(c) /\ d.body.aad = AadOf(d)
      /\ d.body.frame = <<c, n>> /\ DOMAIN d = Fields
  BY SealedFields
<1>2. /\ e.body = d.body \/ e.body = NoSpeech
      /\ e.headerLen = 28 \/ (e.length = 366 /\ e.headerLen \in Word)
  BY <1>1, DamagedFields
<1>3. Secured(e)
  <2>1. CASE e.headerLen = 28
    BY <2>1 DEF Secured, SECURED_HEADER_LEN
  <2>2. CASE e.length = 366 /\ e.headerLen \in Word /\ ~Secured(e)
    <3>1. ~(e.headerLen >= 28)
      BY <2>2, Zenon DEF Secured, SECURED_HEADER_LEN
    <3>2. 366 - e.headerLen # 322 /\ 366 - e.headerLen - 0 = 366 - e.headerLen
      BY <2>2, <3>1, ShortHeader
    <3>3. PayloadLength(e) = 366 - e.headerLen
      BY <2>2, <3>2 DEF PayloadLength
    <3> QED BY <3>2, <3>3 DEF DecodesPcm, FrameText
  <2> QED BY <1>2, <2>1, <2>2
<1>4. MediaKey(b) # NoKey /\ Opens(MediaKey(b), e)
  BY <1>3 DEF DecodesPcm
<1>5. e.body = d.body
  BY <1>2, <1>4 DEF Opens, NoSpeech
<1>6. AadOf(e) = AadOf(d)
  BY <1>1, <1>4, <1>5 DEF Opens
<1>7. e.sender = c
  BY <1>1, <1>6, AadTells
<1> QED BY <1>1, <1>3, <1>4, <1>5, <1>7 DEF Opens, Speech

\* No damage turns a control packet into speech.
LEMMA ControlIsNotHeard ==
  ASSUME NEW c, NEW b, NEW d, d = ControlDatagram(c), NEW e, e = d \/ e \in Damaged(d)
  PROVE  ~DecodesPcm(b, e)
<1>1. /\ d.type = Control /\ d.headerLen \in {16, 28}
      /\ d.length = IF d.headerLen = 16 THEN 16 ELSE 44
      /\ ~d.flag /\ DOMAIN d = Fields
  BY ControlFields
<1>2. e.type = Control \/ (e.length = d.length /\ e.headerLen = d.headerLen)
  BY <1>1, DamagedFields
<1>3. CASE e.type = Control
  BY <1>3 DEF DecodesPcm, Audio, Control
<1>4. CASE e.length = d.length /\ e.headerLen = d.headerLen
  <2>1. PayloadLength(e) = 0
    BY <1>1, <1>4 DEF PayloadLength, Secured, SECURED_HEADER_LEN, AUTH_TAG_LEN
  <2> QED BY <2>1 DEF DecodesPcm, FrameText
<1> QED BY <1>2, <1>3, <1>4

-----------------------------------------------------------------------------
(* The invariant *)

\* A client sent it, as it is.
Sent(d) ==
  \E c \in Clients :
    \/ d = ControlDatagram(c)
    \/ \E n \in 1 .. spoken[c] : d \in PcmDatagram(c, n)

\* Nothing is on the way but what was sent, and what damage made of that.
NetInv ==
  /\ ConfOK
  /\ spoken \in [Clients -> Nat]
  /\ \A e \in net : Sent(e) \/ \E d \in net : Sent(d) /\ e \in Damaged(d)

HeardInv ==
  /\ \A h \in heard : h.by \in Clients /\ h.origin \in Clients
  /\ SealedIsGenuine
  /\ SealedNeverPlayedAsIs

\* A frame on its way is clear or sealed, as its sender's mode has it.
LEMMA SentFrame ==
  ASSUME ConfOK, NEW c \in Clients, NEW n, NEW d \in PcmDatagram(c, n)
  PROVE  \/ conf[c].mode = "None" /\ d = Clear(c, n)
         \/ conf[c].mode = "AesGcmV2" /\ d = Sealed(c, n)
BY MediaAssumption DEF ConfOK, PcmDatagram, Encryption

\* What was sent before is sent after.
LEMMA StillSent ==
  ASSUME spoken \in [Clients -> Nat], spoken' \in [Clients -> Nat], conf' = conf,
         \A c \in Clients : spoken[c] <= spoken'[c],
         NEW d, Sent(d)
  PROVE  Sent(d)'
<1>1. PICK c \in Clients :
        \/ d = ControlDatagram(c)
        \/ \E n \in 1 .. spoken[c] : d \in PcmDatagram(c, n)
  BY DEF Sent
<1>2. CASE d = ControlDatagram(c)
  BY <1>1, <1>2 DEF Sent, ControlDatagram, Datagram
<1>3. CASE \E n \in 1 .. spoken[c] : d \in PcmDatagram(c, n)
  <2>1. PICK n \in 1 .. spoken[c] : d \in PcmDatagram(c, n)
    BY <1>3
  <2>2. n \in 1 .. spoken'[c]
    BY <2>1
  <2>3. d \in PcmDatagram(c, n)'
    BY <2>1 DEF PcmDatagram, Clear, Sealed, Datagram, MediaKey
  <2> QED BY <2>2, <2>3 DEF Sent
<1> QED BY <1>1, <1>2, <1>3

\* A datagram that no damage touched is one that was sent.
LEMMA OnlySentIsWhole ==
  ASSUME NetInv, NEW d \in net, ~d.damaged
  PROVE  Sent(d)
<1>1. SUFFICES ASSUME NEW o \in net, Sent(o), d \in Damaged(o) PROVE FALSE
  BY DEF NetInv
<1>2. DOMAIN o = Fields
  <2>1. PICK c \in Clients :
          \/ o = ControlDatagram(c)
          \/ \E n \in 1 .. spoken[c] : o \in PcmDatagram(c, n)
    BY <1>1 DEF Sent
  <2>2. ConfOK
    BY DEF NetInv
  <2> QED BY <2>1, <2>2, SentFrame, ClearFields, SealedFields, ControlFields
<1> QED BY <1>1, <1>2, DamagedFields

\* A step that only adds what is sent, or what damage makes of it.
LEMMA NetGrows ==
  ASSUME NetInv, conf' = conf, spoken' \in [Clients -> Nat],
         \A c \in Clients : spoken[c] <= spoken'[c],
         net \subseteq net',
         \A e \in net' : \/ e \in net
                         \/ Sent(e)'
                         \/ \E d \in net : Sent(d) /\ e \in Damaged(d)
  PROVE  NetInv'
<1>1. ASSUME NEW d, Sent(d) PROVE Sent(d)'
  BY <1>1, StillSent DEF NetInv
<1>2. ASSUME NEW e \in net'
      PROVE  Sent(e)' \/ \E d \in net' : Sent(d)' /\ e \in Damaged(d)
  <2>1. CASE Sent(e)'
    BY <2>1
  <2>2. CASE ~Sent(e)'
    <3>1. PICK d \in net : Sent(d) /\ e \in Damaged(d)
      BY <1>1, <2>2 DEF NetInv
    <3> QED BY <1>1, <3>1
  <2> QED BY <2>1, <2>2
<1>3. ConfOK'
  BY DEF NetInv, ConfOK
<1> QED BY <1>2, <1>3 DEF NetInv

LEMMA NetStep == NetInv /\ [Next]_vars => NetInv'
<1> SUFFICES ASSUME NetInv, [Next]_vars PROVE NetInv'
  OBVIOUS
<1>0. /\ spoken \in [Clients -> Nat]
      /\ \A c \in Clients : spoken[c] <= spoken[c]
  BY DEF NetInv
<1>1. ASSUME NEW c \in Clients, Speak(c) PROVE NetInv'
  <2>1. /\ conf' = conf /\ spoken' \in [Clients -> Nat]
        /\ \A b \in Clients : spoken[b] <= spoken'[b]
        /\ spoken'[c] \in 1 .. spoken'[c]
    BY <1>1 DEF Speak, NetInv
  <2>2. ASSUME NEW d \in PcmDatagram(c, spoken'[c]) PROVE Sent(d)'
    <3>1. d \in PcmDatagram(c, spoken[c])'
      BY <2>1, <2>2 DEF PcmDatagram, Clear, Sealed, Datagram, MediaKey
    <3> QED BY <2>1, <3>1 DEF Sent
  <2>3. net \subseteq net' /\ \A e \in net' : e \in net \/ Sent(e)'
    BY <1>1, <2>2 DEF Speak
  <2> QED BY <2>1, <2>3, NetGrows
<1>2. ASSUME NEW c \in Clients, SendControl(c) PROVE NetInv'
  <2>1. /\ UNCHANGED <<conf, spoken>>
        /\ net \subseteq net' /\ \A e \in net' : e \in net \/ e = ControlDatagram(c)
    BY <1>2 DEF SendControl
  <2>2. ControlDatagram(c) = ControlDatagram(c)'
    BY <2>1 DEF ControlDatagram, Datagram
  <2>3. \A e \in net' : e \in net \/ Sent(e)'
    BY <2>1, <2>2 DEF Sent
  <2> QED BY <1>0, <2>1, <2>3, NetGrows
<1>3. ASSUME NEW d \in net, Damage(d) PROVE NetInv'
  <2>1. /\ UNCHANGED <<conf, spoken>> /\ ~d.damaged
        /\ \E e \in Damaged(d) : net' = net \union {e}
    BY <1>3 DEF Damage
  <2>2. Sent(d)
    BY <2>1, OnlySentIsWhole
  <2> QED BY <1>0, <2>1, <2>2, NetGrows
<1>4. ASSUME NEW c \in Clients, NEW d \in net, Read(c, d) PROVE NetInv'
  <2>1. UNCHANGED <<conf, spoken, net>>
    BY <1>4 DEF Read
  <2> QED BY <1>0, <2>1, NetGrows
<1>5. CASE UNCHANGED vars
  <2>1. UNCHANGED <<conf, spoken, net>>
    BY <1>5 DEF vars
  <2> QED BY <1>0, <2>1, NetGrows
<1> QED BY <1>1, <1>2, <1>3, <1>4, <1>5 DEF Next

\* What a client plays is a whole frame of its group, or one that was sent in
\* the clear.
LEMMA PlayedIsSent ==
  ASSUME NetInv, NEW b \in Clients, NEW e \in net, DecodesPcm(b, e)
  PROVE  /\ e.origin \in Clients
         /\ Secured(e) => /\ e.sender = e.origin
                          /\ Speech(e) \in {e.sender} \X (1 .. spoken[e.sender])
                          /\ SameGroup(b, e.sender)
         /\ ~Secured(e) => conf[e.origin].mode = "None"
<1>0. ConfOK
  BY DEF NetInv
<1>1. PICK d \in net : Sent(d) /\ (e = d \/ e \in Damaged(d))
  BY DEF NetInv
<1>2. PICK c \in Clients :
        \/ d = ControlDatagram(c)
        \/ \E n \in 1 .. spoken[c] : d \in PcmDatagram(c, n)
  BY <1>1 DEF Sent
<1>3. PICK n \in 1 .. spoken[c] : d \in PcmDatagram(c, n)
  BY <1>1, <1>2, ControlIsNotHeard
<1>4. CASE conf[c].mode = "None" /\ d = Clear(c, n)
  <2>1. d.origin = c /\ DOMAIN d = Fields
    BY <1>4, ClearFields
  <2>2. e.origin = c
    BY <1>1, <2>1, DamagedFields
  <2>3. ~Secured(e)
    BY <1>1, <1>4, ClearStaysClear
  <2> QED BY <1>4, <2>2, <2>3
<1>5. CASE conf[c].mode = "AesGcmV2" /\ d = Sealed(c, n)
  <2>1. d.origin = c /\ DOMAIN d = Fields
    BY <1>5, SealedFields
  <2>2. e.origin = c
    BY <1>1, <2>1, DamagedFields
  <2>3. /\ Secured(e) /\ e.sender = c /\ Speech(e) = <<c, n>>
        /\ MediaKey(b) # NoKey /\ MediaKey(b) = MediaKey(c)
    BY <1>1, <1>5, SealedStaysSealed
  <2>4. SameGroup(b, c)
    BY <1>0, <2>3, SameKey
  <2> QED BY <1>3, <2>2, <2>3, <2>4
<1> QED BY <1>0, <1>3, <1>4, <1>5, SentFrame

LEMMA HeardStep == NetInv /\ HeardInv /\ [Next]_vars => HeardInv'
<1> SUFFICES ASSUME NetInv, HeardInv, [Next]_vars PROVE HeardInv'
  OBVIOUS
<1>1. ASSUME heard' = heard, conf' = conf, spoken' \in [Clients -> Nat],
             \A c \in Clients : spoken[c] <= spoken'[c]
      PROVE  HeardInv'
  <2>1. ASSUME NEW h \in heard, h.secured
        PROVE  /\ h.from = h.origin
               /\ h.frame \in {h.from} \X (1 .. spoken'[h.from])
               /\ SameGroup(h.by, h.from)'
    <3>1. /\ h.from = h.origin /\ h.from \in Clients
          /\ h.frame \in {h.from} \X (1 .. spoken[h.from])
          /\ SameGroup(h.by, h.from)
      BY <2>1 DEF HeardInv, SealedIsGenuine
    <3>2. 1 .. spoken[h.from] \subseteq 1 .. spoken'[h.from]
      BY <1>1, <3>1 DEF NetInv
    <3>3. SameGroup(h.by, h.from)'
      BY <1>1, <3>1 DEF SameGroup
    <3> QED BY <3>1, <3>2, <3>3
  <2>2. \A h \in heard : h.by \in Clients /\ h.origin \in Clients
    BY DEF HeardInv
  <2>3. SealedIsGenuine'
    BY <1>1, <2>1 DEF SealedIsGenuine
  <2>4. SealedNeverPlayedAsIs'
    BY <1>1 DEF HeardInv, SealedNeverPlayedAsIs
  <2> QED BY <1>1, <2>2, <2>3, <2>4 DEF HeardInv
<1>2. /\ spoken \in [Clients -> Nat]
      /\ \A c \in Clients : spoken[c] <= spoken[c]
  BY DEF NetInv
<1>3. ASSUME NEW c \in Clients, Speak(c) PROVE HeardInv'
  BY <1>1, <1>3 DEF Speak, NetInv
<1>4. ASSUME NEW c \in Clients, SendControl(c) PROVE HeardInv'
  BY <1>1, <1>2, <1>4 DEF SendControl
<1>5. ASSUME NEW d \in net, Damage(d) PROVE HeardInv'
  BY <1>1, <1>2, <1>5 DEF Damage
<1>6. ASSUME NEW c \in Clients, NEW d \in net, Read(c, d) PROVE HeardInv'
  <2>1. CASE ~DecodesPcm(c, d)
    BY <1>1, <1>2, <1>6, <2>1 DEF Read
  <2>2. CASE DecodesPcm(c, d)
    <3> DEFINE h == [by |-> c, from |-> d.sender, frame |-> Speech(d),
                     secured |-> Secured(d), origin |-> d.origin]
    <3>1. heard' = {h} /\ UNCHANGED <<conf, spoken>>
      BY <1>6, <2>2 DEF Read
    <3>2. /\ d.origin \in Clients
          /\ Secured(d) => /\ d.sender = d.origin
                           /\ Speech(d) \in {d.sender} \X (1 .. spoken[d.sender])
                           /\ SameGroup(c, d.sender)
          /\ ~Secured(d) => conf[d.origin].mode = "None"
      BY <2>2, PlayedIsSent
    <3>3. /\ h.by = c /\ h.from = d.sender /\ h.frame = Speech(d)
          /\ h.secured = Secured(d) /\ h.origin = d.origin
      OBVIOUS
    <3> HIDE DEF h
    <3>4. h.secured => /\ h.from = h.origin
                       /\ h.frame \in {h.from} \X (1 .. spoken'[h.from])
                       /\ SameGroup(h.by, h.from)'
      BY <3>1, <3>2, <3>3 DEF SameGroup
    <3>5. ~h.secured => conf'[h.origin].mode = "None"
      BY <3>1, <3>2, <3>3
    <3> QED BY <3>1, <3>2, <3>3, <3>4, <3>5
            DEF HeardInv, SealedIsGenuine, SealedNeverPlayedAsIs
  <2> QED BY <2>1, <2>2
<1>7. CASE UNCHANGED vars
  BY <1>1, <1>2, <1>7 DEF vars
<1> QED BY <1>3, <1>4, <1>5, <1>6, <1>7 DEF Next

LEMMA MediaInv == Spec => [](NetInv /\ HeardInv)
<1>1. Init => NetInv /\ HeardInv
  BY DEF Init, NetInv, ConfOK, HeardInv, SealedIsGenuine, SealedNeverPlayedAsIs
<1> QED BY <1>1, NetStep, HeardStep, PTL DEF Spec

-----------------------------------------------------------------------------
(* Theorems *)

\* What is played as a sealed frame was spoken, whole, by the client it is
\* credited to, in the listener's group: decode_pcm checks the whole header.
THEOREM SealedFramesAreGenuine == Spec => []SealedIsGenuine
<1>1. HeardInv => SealedIsGenuine
  BY DEF HeardInv
<1> QED BY <1>1, MediaInv, PTL

\* No header_len and no cut makes a sealed frame pass for one sent in the
\* clear: decode_pcm's check of the payload's length.
THEOREM SealedNeverSoundsAsIs == Spec => []SealedNeverPlayedAsIs
<1>1. HeardInv => SealedNeverPlayedAsIs
  BY DEF HeardInv
<1> QED BY <1>1, MediaInv, PTL

\* Whoever has the speaker's channel and secret plays an undamaged frame, and
\* nobody else does, in whatever notation the passwords are: normalize_password.
THEOREM TheGroupHears == Spec => []GroupHears
<1>1. NetInv => GroupHears
  <2> SUFFICES ASSUME NetInv, NEW b \in Clients, NEW d \in net,
                      d.type = Audio, ~d.damaged
               PROVE  DecodesPcm(b, d) <=>
                        conf[d.origin].mode = "None" \/ SameGroup(b, d.origin)
    BY DEF GroupHears
  <2>0. ConfOK
    BY DEF NetInv
  <2>1. PICK c \in Clients :
          \/ d = ControlDatagram(c)
          \/ \E n \in 1 .. spoken[c] : d \in PcmDatagram(c, n)
    BY OnlySentIsWhole DEF Sent
  <2>2. d # ControlDatagram(c)
    BY ControlFields DEF Audio, Control
  <2>3. PICK n \in 1 .. spoken[c] : d \in PcmDatagram(c, n)
    BY <2>1, <2>2
  <2>4. CASE conf[c].mode = "None" /\ d = Clear(c, n)
    <3>1. d.origin = c /\ DecodesPcm(b, d)
      BY <2>4, ClearFields, ClearIsHeard
    <3> QED BY <2>4, <3>1
  <2>5. CASE conf[c].mode = "AesGcmV2" /\ d = Sealed(c, n)
    <3>1. d.origin = c
      BY <2>5, SealedFields
    <3>2. DecodesPcm(b, d) <=> SameGroup(b, c)
      BY <2>0, <2>5, SealedIsHeard, SameKey
    <3> QED BY <2>5, <3>1, <3>2
  <2> QED BY <2>0, <2>3, <2>4, <2>5, SentFrame
<1> QED BY <1>1, MediaInv, PTL

\* Speech is on its way unsealed only if its sender's profile says so: send_pcm
\* sends nothing where it has no key.
THEOREM NoSpeechInTheClear == Spec => []NeverInTheClear
<1>1. NetInv => NeverInTheClear
  <2> SUFFICES ASSUME NetInv, NEW e \in net, e.body.frame # <<>>, e.body.key = NoKey
               PROVE  conf[e.origin].mode = "None"
    BY DEF NeverInTheClear
  <2>0. ConfOK
    BY DEF NetInv
  <2>1. PICK d \in net : Sent(d) /\ (e = d \/ e \in Damaged(d))
    BY DEF NetInv
  <2>2. PICK c \in Clients :
          \/ d = ControlDatagram(c)
          \/ \E n \in 1 .. spoken[c] : d \in PcmDatagram(c, n)
    BY <2>1 DEF Sent
  <2>3. e.body # NoSpeech
    BY DEF NoSpeech
  <2>4. CASE d = ControlDatagram(c)
    <3>1. d.body = NoSpeech /\ DOMAIN d = Fields
      BY <2>4, ControlFields
    <3> QED BY <2>1, <2>3, <3>1, DamagedFields
  <2>5. CASE \E n \in 1 .. spoken[c] : d \in PcmDatagram(c, n)
    <3>1. PICK n \in 1 .. spoken[c] : d \in PcmDatagram(c, n)
      BY <2>5
    <3>2. CASE conf[c].mode = "None" /\ d = Clear(c, n)
      <4>1. d.origin = c /\ DOMAIN d = Fields
        BY <3>2, ClearFields
      <4>2. e.origin = c
        BY <2>1, <4>1, DamagedFields
      <4> QED BY <3>2, <4>2
    <3>3. CASE conf[c].mode = "AesGcmV2" /\ d = Sealed(c, n)
      <4>1. d.body.key = MediaKey(c) /\ DOMAIN d = Fields
        BY <3>3, SealedFields
      <4>2. e.body = d.body
        BY <2>1, <2>3, <4>1, DamagedFields
      <4>3. MediaKey(c) # NoKey
        BY <3>3 DEF MediaKey, NoKey
      <4> QED BY <4>1, <4>2, <4>3
    <3> QED BY <2>0, <3>1, <3>2, <3>3, SentFrame
  <2> QED BY <2>2, <2>4, <2>5
<1> QED BY <1>1, MediaInv, PTL

=============================================================================
