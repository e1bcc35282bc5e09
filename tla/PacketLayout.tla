---------------------------- MODULE PacketLayout ----------------------------
(***************************************************************************)
(* The framing of crates/incomudon-protocol: headers and packets as bytes, *)
(* and back.                                                               *)
(*                                                                         *)
(* An identifier, a sequence number or a nonce is never calculated with    *)
(* here: it stands as its digits in base 256, most significant first, the  *)
(* bytes that to_be_bytes lays out.  header_len is a number, since lengths *)
(* are compared with it.                                                   *)
(***************************************************************************)
EXTENDS Integers, Sequences

PROTOCOL_VERSION == 1
LEGACY_HEADER_LEN == 14
FIXED_HEADER_LEN == 16
SECURED_HEADER_LEN == 28       \* with the 12 bytes of the security header
AUTH_TAG_LEN == 16

U8_MAX == 255
U16_MAX == 65535
Byte == 0 .. U8_MAX
Word == 0 .. U16_MAX
PacketType == 1 .. 15
Digits(n) == [1 .. n -> Byte]

Header == [version : Byte, type : PacketType, len : Word,
           channel : Digits(4), sender : Digits(4), sequence : Digits(2),
           flags : Digits(2)]

PlainPacket == [kind : {"Plain"}, header : Header, payload : Seq(Byte)]
SecuredPacket == [kind : {"Secured"}, header : Header, nonce : Digits(8),
                  key : Digits(4), payload : Seq(Byte), tag : Digits(16)]

From(b, i) == SubSeq(b, i, Len(b))

\* flags & FLAG_AES_GCM_V2 != 0
HasFlag(h) == h.flags[2] % 2 = 1

-----------------------------------------------------------------------------
(* Encoding *)

\* PacketHeader::encode that always writes the flags.
LongHeader(h) ==
  <<h.version, h.type, h.len \div 256, h.len % 256,
    h.channel[1], h.channel[2], h.channel[3], h.channel[4],
    h.sender[1], h.sender[2], h.sender[3], h.sender[4],
    h.sequence[1], h.sequence[2], h.flags[1], h.flags[2]>>

\* PacketHeader::encode
EncodeHeader(h) ==
  <<h.version, h.type, h.len \div 256, h.len % 256,
    h.channel[1], h.channel[2], h.channel[3], h.channel[4],
    h.sender[1], h.sender[2], h.sender[3], h.sender[4],
    h.sequence[1], h.sequence[2]>>
  \o IF h.len = LEGACY_HEADER_LEN THEN <<>> ELSE <<h.flags[1], h.flags[2]>>

\* Packet::encode refuses a header_len that does not fit the variant.
Encodable(p) ==
  \/ p.kind = "Plain" /\ p.header.len \in {LEGACY_HEADER_LEN, FIXED_HEADER_LEN}
  \/ p.kind = "Secured" /\ p.header.len = SECURED_HEADER_LEN

Encode(p) ==
  EncodeHeader(p.header) \o
    IF p.kind = "Plain" THEN p.payload
                        ELSE p.nonce \o p.key \o p.payload \o p.tag

\* Packet::aad of a Secured packet; only those with the flag have one.
Aad(p) == EncodeHeader(p.header) \o p.nonce \o p.key

-----------------------------------------------------------------------------
(* Decoding *)

HeaderLen(b) == b[3] * 256 + b[4]

\* The length of the tag forgotten.
RefusalWithoutTag(version, type, headerLen, length) ==
  IF version # PROTOCOL_VERSION THEN "UnsupportedVersion"
  ELSE IF headerLen # LEGACY_HEADER_LEN /\ headerLen < FIXED_HEADER_LEN
    THEN "UnsupportedHeaderLength"
  ELSE IF length < headerLen THEN "InvalidPacketLength"
  ELSE IF type \notin PacketType THEN "UnsupportedPacketType"
  ELSE "none"

\* A type taken as it comes.
RefusalOfNoType(version, type, headerLen, length) ==
  IF version # PROTOCOL_VERSION THEN "UnsupportedVersion"
  ELSE IF headerLen # LEGACY_HEADER_LEN /\ headerLen < FIXED_HEADER_LEN
    THEN "UnsupportedHeaderLength"
  ELSE IF \/ length < headerLen
          \/ headerLen >= SECURED_HEADER_LEN /\ length < headerLen + AUTH_TAG_LEN
    THEN "InvalidPacketLength"
  ELSE "none"

\* The error of Packet::decode for a datagram of at least 14 bytes with that
\* version, type and header_len, in the order of the checks; or "none".
Refusal(version, type, headerLen, length) ==
  IF version # PROTOCOL_VERSION THEN "UnsupportedVersion"
  ELSE IF headerLen # LEGACY_HEADER_LEN /\ headerLen < FIXED_HEADER_LEN
    THEN "UnsupportedHeaderLength"
  ELSE IF length < headerLen THEN "InvalidPacketLength"
  ELSE IF type \notin PacketType THEN "UnsupportedPacketType"
  ELSE IF headerLen >= SECURED_HEADER_LEN /\ length < headerLen + AUTH_TAG_LEN
    THEN "InvalidPacketLength"
  ELSE "none"

DecodeError(b) ==
  IF Len(b) < LEGACY_HEADER_LEN THEN "PacketTooShort"
  ELSE Refusal(b[1], b[2], HeaderLen(b), Len(b))

\* PacketHeader::decode
DecodeHeader(b) ==
  [version |-> b[1], type |-> b[2], len |-> HeaderLen(b),
   channel |-> <<b[5], b[6], b[7], b[8]>>,
   sender |-> <<b[9], b[10], b[11], b[12]>>,
   sequence |-> <<b[13], b[14]>>,
   flags |-> IF HeaderLen(b) = LEGACY_HEADER_LEN THEN <<0, 0>>
                                                ELSE <<b[15], b[16]>>]

\* The security header looked for at the end of the header, not after the
\* fixed part.
SecurityFromEnd(b) == HeaderLen(b) - 12

\* Where the security header starts, less one.
SecurityStart(b) == FIXED_HEADER_LEN

\* Packet::decode of a datagram without error.  A header may be longer than
\* what is known of it; the rest is skipped.
Decode(b) ==
  LET h == DecodeHeader(b)
      s == SecurityStart(b)
  IN  IF h.len < SECURED_HEADER_LEN
      THEN [kind |-> "Plain", header |-> h, payload |-> From(b, h.len + 1)]
      ELSE [kind |-> "Secured", header |-> h,
            nonce |-> SubSeq(b, s + 1, s + 8), key |-> SubSeq(b, s + 9, s + 12),
            payload |-> SubSeq(b, h.len + 1, Len(b) - AUTH_TAG_LEN),
            tag |-> From(b, Len(b) - AUTH_TAG_LEN + 1)]

=============================================================================
