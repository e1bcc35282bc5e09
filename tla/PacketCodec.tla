---------------------------- MODULE PacketCodec -----------------------------
(***************************************************************************)
(* Datagrams between a client and the relay, byte by byte: a packet is     *)
(* encoded and sent, or a datagram of the relay's comes in, and run_worker *)
(* decodes it or rejects it.                                               *)
(***************************************************************************)
EXTENDS PacketLayout

CONSTANTS
  Nothing,     \* no packet, no datagram
  Packets,     \* packets a client may be asked to send
  Datagrams    \* datagrams that may come in

ASSUME CodecAssumption ==
  /\ Packets \subseteq PlainPacket \union SecuredPacket
  /\ Datagrams \subseteq Seq(Byte)
  /\ Nothing \notin Seq(Byte) \union PlainPacket \union SecuredPacket

VARIABLES
  sent,    \* the packet that was encoded, Nothing for a datagram of the relay's
  wire,    \* the datagram
  got      \* what it was decoded to

vars == <<sent, wire, got>>

Rejection == [kind : {"Rejected"},
              error : {"PacketTooShort", "UnsupportedVersion",
                       "UnsupportedHeaderLength", "InvalidPacketLength",
                       "UnsupportedPacketType"}]

\* send_packet; a packet that does not encode is not sent.
Send(p) ==
  /\ wire = Nothing
  /\ Encodable(p)
  /\ sent' = p
  /\ wire' = Encode(p)
  /\ UNCHANGED got

Arrive(d) ==
  /\ wire = Nothing
  /\ wire' = d
  /\ UNCHANGED <<sent, got>>

\* The worker's socket.recv, decoded: Received or ReceiveRejected.
Receive ==
  /\ wire # Nothing
  /\ got = Nothing
  /\ got' = IF DecodeError(wire) = "none" THEN Decode(wire)
            ELSE [kind |-> "Rejected", error |-> DecodeError(wire)]
  /\ UNCHANGED <<sent, wire>>

\* The next one.
Forget ==
  /\ got # Nothing
  /\ sent' = Nothing
  /\ wire' = Nothing
  /\ got' = Nothing

Init ==
  /\ sent = Nothing
  /\ wire = Nothing
  /\ got = Nothing

Next ==
  \/ \E p \in Packets : Send(p)
  \/ \E d \in Datagrams : Arrive(d)
  \/ Receive
  \/ Forget

Spec == Init /\ [][Next]_vars

-----------------------------------------------------------------------------
(* Properties *)

\* What was read is a packet, well typed in every field, or an error; nothing
\* is read past the end of a datagram.
TypeOK ==
  /\ sent \in PlainPacket \union SecuredPacket \union {Nothing}
  /\ wire \in Seq(Byte) \union {Nothing}
  /\ got \in PlainPacket \union SecuredPacket \union Rejection \union {Nothing}

Accepted == got # Nothing /\ got.kind # "Rejected"

\* A packet of this version that is sent is read as it was sent, every field
\* of it; a legacy header alone loses its flags (Packet::encode, then decode).
SentIsRead ==
  (sent # Nothing /\ got # Nothing /\ sent.header.version = PROTOCOL_VERSION) =>
    got = IF sent.header.len = LEGACY_HEADER_LEN
          THEN [sent EXCEPT !.header.flags = <<0, 0>>]
          ELSE sent

\* Decoding loses nothing: any datagram read either encodes to just the bytes
\* it was, or has a header of a length that encode refuses to write.
ReadEncodesBack ==
  Accepted =>
    IF Encodable(got) THEN Encode(got) = wire
    ELSE got.header.len \notin {LEGACY_HEADER_LEN, FIXED_HEADER_LEN,
                                SECURED_HEADER_LEN}

\* Both ends authenticate the same bytes: the additional data of a secured
\* packet are the first 28 bytes of its datagram, however long its header says
\* it is, and the rest of the datagram after the header is payload and tag.
AadIsOnTheWire ==
  (Accepted /\ got.kind = "Secured") =>
    /\ Aad(got) = SubSeq(wire, 1, SECURED_HEADER_LEN)
    /\ got.payload \o got.tag = From(wire, got.header.len + 1)

=============================================================================
