------------------------- MODULE PacketCodecProofs --------------------------
(***************************************************************************)
(* Theorems about PacketCodec: any packet, any datagram, of any length.    *)
(***************************************************************************)
EXTENDS PacketCodec, SequenceTheorems, TLAPS

-----------------------------------------------------------------------------
(* Slices of a sequence of bytes *)

LEMMA SliceFacts ==
  ASSUME NEW b \in Seq(Byte), NEW i \in Nat \ {0}, NEW j \in 0 .. Len(b),
         i <= j + 1
  PROVE  /\ SubSeq(b, i, j) \in Seq(Byte)
         /\ Len(SubSeq(b, i, j)) = j - i + 1
         /\ \A k \in 1 .. j - i + 1 : SubSeq(b, i, j)[k] = b[i + k - 1]
<1>1. \A k \in i .. j : b[k] \in Byte
  BY ElementOfSeq, LenProperties
<1>2. /\ SubSeq(b, i, j) \in Seq(Byte)
      /\ Len(SubSeq(b, i, j)) = IF i <= j THEN j - i + 1 ELSE 0
      /\ \A k \in 1 .. j - i + 1 : SubSeq(b, i, j)[k] = b[i + k - 1]
  BY <1>1, LenProperties, SubSeqProperties
<1> QED
  BY <1>2, LenProperties

\* Two slices that meet are one.
LEMMA SlicesJoin ==
  ASSUME NEW b \in Seq(Byte), NEW i \in Nat \ {0}, NEW j \in Nat,
         NEW k \in 0 .. Len(b), i <= j + 1, j <= k
  PROVE  SubSeq(b, i, j) \o SubSeq(b, j + 1, k) = SubSeq(b, i, k)
<1> DEFINE x == SubSeq(b, i, j)
           y == SubSeq(b, j + 1, k)
           z == SubSeq(b, i, k)
<1>0. Len(b) \in Nat /\ j \in 0 .. Len(b) /\ j + 1 \in Nat \ {0}
  BY LenProperties
<1>1. /\ x \in Seq(Byte) /\ Len(x) = j - i + 1
      /\ \A n \in 1 .. j - i + 1 : x[n] = b[i + n - 1]
  BY <1>0, SliceFacts
<1>2. /\ y \in Seq(Byte) /\ Len(y) = k - (j + 1) + 1
      /\ \A n \in 1 .. k - (j + 1) + 1 : y[n] = b[j + 1 + n - 1]
  BY <1>0, SliceFacts
<1>3. /\ z \in Seq(Byte) /\ Len(z) = k - i + 1
      /\ \A n \in 1 .. k - i + 1 : z[n] = b[i + n - 1]
  BY <1>0, SliceFacts
<1> HIDE DEF x, y, z
<1>4. /\ x \o y \in Seq(Byte) /\ Len(x \o y) = Len(x) + Len(y)
      /\ \A n \in 1 .. Len(x) + Len(y) :
           (x \o y)[n] = IF n <= Len(x) THEN x[n] ELSE y[n - Len(x)]
  BY <1>1, <1>2, ConcatProperties
<1>5. Len(x \o y) = Len(z)
  BY <1>0, <1>1, <1>2, <1>3, <1>4
<1>6. ASSUME NEW n \in 1 .. Len(x \o y) PROVE (x \o y)[n] = z[n]
  <2>0. n \in 1 .. k - i + 1 /\ Len(x) + Len(y) = k - i + 1
    BY <1>0, <1>1, <1>2, <1>4
  <2>1. CASE n <= Len(x)
    <3>1. n \in 1 .. j - i + 1
      BY <1>0, <1>1, <2>0, <2>1
    <3> QED
      BY <1>1, <1>3, <1>4, <2>0, <2>1, <3>1
  <2>2. CASE ~(n <= Len(x))
    <3>1. n - Len(x) \in 1 .. k - (j + 1) + 1
      BY <1>0, <1>1, <2>0, <2>2
    <3>2. j + 1 + (n - Len(x)) - 1 = i + n - 1
      BY <1>0, <1>1, <2>0
    <3> QED
      BY <1>2, <1>3, <1>4, <2>0, <2>2, <3>1, <3>2
  <2> QED
    BY <2>1, <2>2
<1>7. x \o y = z
  BY <1>3, <1>4, <1>5, <1>6, SeqEqual
<1> QED
  BY <1>7 DEF x, y, z

\* What was appended is sliced off again.
LEMMA SliceOfJoined ==
  ASSUME NEW x \in Seq(Byte), NEW y \in Seq(Byte), NEW z \in Seq(Byte)
  PROVE  SubSeq(x \o y \o z, Len(x) + 1, Len(x) + Len(y)) = y
<1> DEFINE b == x \o y \o z
           i == Len(x) + 1
           j == Len(x) + Len(y)
<1>1. Len(x) \in Nat /\ Len(y) \in Nat /\ Len(z) \in Nat
  BY LenProperties
<1>2. /\ x \o y \in Seq(Byte) /\ Len(x \o y) = Len(x) + Len(y)
      /\ \A n \in 1 .. Len(x) + Len(y) :
           (x \o y)[n] = IF n <= Len(x) THEN x[n] ELSE y[n - Len(x)]
  BY ConcatProperties
<1>3. /\ b \in Seq(Byte) /\ Len(b) = Len(x) + Len(y) + Len(z)
      /\ \A n \in 1 .. Len(x \o y) + Len(z) :
           b[n] = IF n <= Len(x \o y) THEN (x \o y)[n] ELSE z[n - Len(x \o y)]
  BY <1>2, ConcatProperties
<1> HIDE DEF b
<1>4. ASSUME NEW n \in 1 .. Len(y) PROVE b[Len(x) + n] = y[n]
  <2>1. Len(x) + n \in 1 .. Len(x) + Len(y) /\ ~(Len(x) + n <= Len(x))
         /\ Len(x) + n - Len(x) = n
    BY <1>1
  <2>2. b[Len(x) + n] = (x \o y)[Len(x) + n]
    BY <1>1, <1>2, <1>3, <2>1
  <2> QED
    BY <1>2, <2>1, <2>2
<1>5. /\ SubSeq(b, i, j) \in Seq(Byte) /\ Len(SubSeq(b, i, j)) = j - i + 1
      /\ \A k \in 1 .. j - i + 1 : SubSeq(b, i, j)[k] = b[i + k - 1]
  BY <1>1, <1>3, SliceFacts
<1>6. j - i + 1 = Len(y)
  BY <1>1
<1>7. ASSUME NEW k \in 1 .. Len(y) PROVE SubSeq(b, i, j)[k] = y[k]
  <2>1. i + k - 1 = Len(x) + k
    BY <1>1
  <2> QED
    BY <1>4, <1>5, <1>6, <2>1
<1>8. SubSeq(b, i, j) = y
  BY <1>5, <1>6, <1>7, SeqEqual
<1> QED
  BY <1>8 DEF b

LEMMA JoinType ==
  ASSUME NEW x \in Seq(Byte), NEW y \in Seq(Byte)
  PROVE  x \o y \in Seq(Byte) /\ Len(x \o y) = Len(x) + Len(y)
BY ConcatProperties

LEMMA JoinAssociates ==
  ASSUME NEW x \in Seq(Byte), NEW y \in Seq(Byte), NEW z \in Seq(Byte)
  PROVE  (x \o y) \o z = x \o (y \o z)
BY ConcatAssociative

LEMMA JoinNothing ==
  ASSUME NEW x \in Seq(Byte)
  PROVE  x \o <<>> = x /\ <<>> \in Seq(Byte)
BY ConcatEmptySeq, EmptySeq

-----------------------------------------------------------------------------
(* The header *)

\* The bounds of a byte and a word.
LEMMA ByteBounds ==
  /\ \A n \in Int : n \in Byte <=> (0 <= n /\ n <= 255)
  /\ \A n \in Byte : n \in Nat
<1>1. U8_MAX = 255
  BY DEF U8_MAX
<1>2. U8_MAX \in Int
  BY <1>1
<1>3. \A n \in Int : n \in Byte <=> (0 <= n /\ n <= U8_MAX)
  BY <1>2 DEF Byte
<1>4. \A n \in Byte : n \in Nat
  BY <1>2 DEF Byte
<1> QED
  BY <1>1, <1>3, <1>4

LEMMA WordBounds ==
  /\ \A n \in Int : n \in Word <=> (0 <= n /\ n <= 65535)
  /\ \A n \in Word : n \in Nat
<1>1. U16_MAX = 65535
  BY DEF U16_MAX
<1>2. U16_MAX \in Int
  BY <1>1
<1>3. \A n \in Int : n \in Word <=> (0 <= n /\ n <= U16_MAX)
  BY <1>2 DEF Word
<1>4. \A n \in Word : n \in Nat
  BY <1>2 DEF Word
<1> QED
  BY <1>1, <1>3, <1>4

\* A word is laid out in two bytes, and read back.
LEMMA SplitWord ==
  ASSUME NEW n \in Word, NEW q, NEW r, q = n \div 256, r = n % 256
  PROVE  q \in Byte /\ r \in Byte /\ q * 256 + r = n
<1>1. n \in Int /\ 0 <= n /\ n <= 65535
  BY WordBounds
<1>2. q \in Int /\ r \in Int
  BY <1>1
<1>3. q * 256 + r = n /\ q <= 255 /\ 0 <= q /\ r <= 255 /\ 0 <= r
  BY <1>1, <1>2
<1> QED
  BY <1>2, <1>3, ByteBounds

LEMMA JoinWord ==
  ASSUME NEW a \in Byte, NEW c \in Byte
  PROVE  /\ a * 256 + c \in Word
         /\ (a * 256 + c) \div 256 = a /\ (a * 256 + c) % 256 = c
<1>1. a \in Int /\ 0 <= a /\ a <= 255 /\ c \in Int /\ 0 <= c /\ c <= 255
  BY ByteBounds
<1>2. a * 256 + c \in Word
  BY <1>1, WordBounds
<1>3. (a * 256 + c) \div 256 = a
  BY <1>1
<1>4. (a * 256 + c) % 256 = c
  BY <1>1
<1> QED
  BY <1>2, <1>3, <1>4

\* The bytes every header begins with.
Fixed(h) ==
  <<h.version, h.type, h.len \div 256, h.len % 256,
    h.channel[1], h.channel[2], h.channel[3], h.channel[4],
    h.sender[1], h.sender[2], h.sender[3], h.sender[4],
    h.sequence[1], h.sequence[2]>>

Flags(h) ==
  IF h.len = LEGACY_HEADER_LEN THEN <<>> ELSE <<h.flags[1], h.flags[2]>>

LEMMA HeaderIsFixedAndFlags ==
  ASSUME NEW h PROVE EncodeHeader(h) = Fixed(h) \o Flags(h)
BY DEF EncodeHeader, Fixed, Flags

LEMMA HeaderFields ==
  ASSUME NEW h \in Header
  PROVE  /\ h.version \in Byte /\ h.type \in Byte /\ h.len \in Word
         /\ h.channel \in Digits(4) /\ h.sender \in Digits(4)
         /\ h.sequence \in Digits(2) /\ h.flags \in Digits(2)
         /\ h = [version |-> h.version, type |-> h.type, len |-> h.len,
                 channel |-> h.channel, sender |-> h.sender,
                 sequence |-> h.sequence, flags |-> h.flags]
<1>1. \A t \in PacketType : t \in Byte
  BY ByteBounds DEF PacketType
<1>2. h.type \in PacketType
  BY DEF Header
<1>3. h.version \in Byte /\ h.len \in Word
  BY DEF Header
<1>4. /\ h.channel \in Digits(4) /\ h.sender \in Digits(4)
      /\ h.sequence \in Digits(2) /\ h.flags \in Digits(2)
  BY DEF Header
<1>5. h = [version |-> h.version, type |-> h.type, len |-> h.len,
           channel |-> h.channel, sender |-> h.sender,
           sequence |-> h.sequence, flags |-> h.flags]
  BY DEF Header
<1> QED
  BY <1>1, <1>2, <1>3, <1>4, <1>5

LEMMA DigitsAreBytes ==
  /\ \A d \in Digits(4) : /\ d[1] \in Byte /\ d[2] \in Byte
                          /\ d[3] \in Byte /\ d[4] \in Byte
  /\ \A d \in Digits(2) : d[1] \in Byte /\ d[2] \in Byte
BY DEF Digits

LEMMA FixedBytes ==
  ASSUME NEW h \in Header
  PROVE  /\ Fixed(h) \in Seq(Byte) /\ Len(Fixed(h)) = 14
         /\ Fixed(h)[1] = h.version /\ Fixed(h)[2] = h.type
         /\ Fixed(h)[3] = h.len \div 256 /\ Fixed(h)[4] = h.len % 256
         /\ Fixed(h)[5] = h.channel[1] /\ Fixed(h)[6] = h.channel[2]
         /\ Fixed(h)[7] = h.channel[3] /\ Fixed(h)[8] = h.channel[4]
         /\ Fixed(h)[9] = h.sender[1] /\ Fixed(h)[10] = h.sender[2]
         /\ Fixed(h)[11] = h.sender[3] /\ Fixed(h)[12] = h.sender[4]
         /\ Fixed(h)[13] = h.sequence[1] /\ Fixed(h)[14] = h.sequence[2]
<1>1. h.len \div 256 \in Byte /\ h.len % 256 \in Byte
  BY HeaderFields, SplitWord
<1>2. h.version \in Byte /\ h.type \in Byte
  BY HeaderFields
<1>3. /\ h.channel[1] \in Byte /\ h.channel[2] \in Byte
      /\ h.channel[3] \in Byte /\ h.channel[4] \in Byte
      /\ h.sender[1] \in Byte /\ h.sender[2] \in Byte
      /\ h.sender[3] \in Byte /\ h.sender[4] \in Byte
      /\ h.sequence[1] \in Byte /\ h.sequence[2] \in Byte
  BY HeaderFields, DigitsAreBytes
<1>4. Fixed(h) \in Seq(Byte)
  BY <1>1, <1>2, <1>3 DEF Fixed
<1> QED
  BY <1>4 DEF Fixed

LEMMA FlagBytes ==
  ASSUME NEW h \in Header
  PROVE  /\ Flags(h) \in Seq(Byte)
         /\ h.len = LEGACY_HEADER_LEN => Len(Flags(h)) = 0
         /\ h.len # LEGACY_HEADER_LEN =>
              /\ Len(Flags(h)) = 2
              /\ Flags(h)[1] = h.flags[1] /\ Flags(h)[2] = h.flags[2]
<1>1. h.flags[1] \in Byte /\ h.flags[2] \in Byte
  BY HeaderFields, DigitsAreBytes
<1> QED
  BY <1>1 DEF Flags

LEMMA HeaderBytes ==
  ASSUME NEW h \in Header
  PROVE  /\ EncodeHeader(h) \in Seq(Byte)
         /\ Len(EncodeHeader(h)) = IF h.len = LEGACY_HEADER_LEN THEN 14 ELSE 16
         /\ \A i \in 1 .. 14 : EncodeHeader(h)[i] = Fixed(h)[i]
         /\ h.len # LEGACY_HEADER_LEN =>
              EncodeHeader(h)[15] = h.flags[1] /\ EncodeHeader(h)[16] = h.flags[2]
<1> DEFINE x == Fixed(h)
           y == Flags(h)
<1>1. x \in Seq(Byte) /\ Len(x) = 14
  BY FixedBytes
<1>2. /\ y \in Seq(Byte)
      /\ h.len = LEGACY_HEADER_LEN => Len(y) = 0
      /\ h.len # LEGACY_HEADER_LEN =>
           Len(y) = 2 /\ y[1] = h.flags[1] /\ y[2] = h.flags[2]
  BY FlagBytes
<1> HIDE DEF x, y
<1>3. /\ x \o y \in Seq(Byte) /\ Len(x \o y) = Len(x) + Len(y)
      /\ \A n \in 1 .. Len(x) + Len(y) :
           (x \o y)[n] = IF n <= Len(x) THEN x[n] ELSE y[n - Len(x)]
  BY <1>1, <1>2, ConcatProperties
<1>4. Len(x \o y) = IF h.len = LEGACY_HEADER_LEN THEN 14 ELSE 16
  BY <1>1, <1>2, <1>3
<1>5. \A n \in 1 .. 14 : (x \o y)[n] = x[n]
  BY <1>1, <1>2, <1>3
<1>6. h.len # LEGACY_HEADER_LEN =>
        (x \o y)[15] = y[1] /\ (x \o y)[16] = y[2]
  BY <1>1, <1>2, <1>3
<1>7. EncodeHeader(h) = x \o y
  BY HeaderIsFixedAndFlags DEF x, y
<1> QED
  BY <1>2, <1>3, <1>4, <1>5, <1>6, <1>7 DEF x

\* A digit string is the tuple of its digits.
LEMMA DigitsAreATuple ==
  /\ \A d \in Digits(4) : d = <<d[1], d[2], d[3], d[4]>>
  /\ \A d \in Digits(2) : d = <<d[1], d[2]>>
BY DEF Digits

LEMMA TuplesAreDigits ==
  /\ \A a, b, c, d \in Byte : <<a, b, c, d>> \in Digits(4)
  /\ \A a, b \in Byte : <<a, b>> \in Digits(2)
BY DEF Digits

\* What DecodeHeader makes of at least as many bytes as it reads.
LEMMA DecodedHeader ==
  ASSUME NEW b \in Seq(Byte), Len(b) >= 14, b[2] \in PacketType,
         HeaderLen(b) # LEGACY_HEADER_LEN => Len(b) >= 16
  PROVE  DecodeHeader(b) \in Header /\ DecodeHeader(b).len = HeaderLen(b)
<1>1. Len(b) \in Nat /\ \A i \in 1 .. Len(b) : b[i] \in Byte
  BY LenProperties, ElementOfSeq
<1>2. \A i \in 1 .. 14 : b[i] \in Byte
  BY <1>1
<1>3. HeaderLen(b) \in Word
  <2>1. b[3] \in Byte /\ b[4] \in Byte
    BY <1>2
  <2> QED
    BY <2>1, JoinWord DEF HeaderLen
<1>4. HeaderLen(b) # LEGACY_HEADER_LEN => b[15] \in Byte /\ b[16] \in Byte
  BY <1>1
<1>5. DecodeHeader(b).flags \in Digits(2)
  <2>1. 0 \in Byte
    BY ByteBounds
  <2>2. CASE HeaderLen(b) = LEGACY_HEADER_LEN
    BY <2>1, <2>2, TuplesAreDigits DEF DecodeHeader
  <2>3. CASE HeaderLen(b) # LEGACY_HEADER_LEN
    BY <1>4, <2>3, TuplesAreDigits DEF DecodeHeader
  <2> QED
    BY <2>2, <2>3
<1>6. DecodeHeader(b).channel \in Digits(4) /\ DecodeHeader(b).sender \in Digits(4)
       /\ DecodeHeader(b).sequence \in Digits(2)
  <2>1. /\ b[5] \in Byte /\ b[6] \in Byte /\ b[7] \in Byte /\ b[8] \in Byte
        /\ b[9] \in Byte /\ b[10] \in Byte /\ b[11] \in Byte /\ b[12] \in Byte
        /\ b[13] \in Byte /\ b[14] \in Byte
    BY <1>2
  <2>2. /\ DecodeHeader(b).channel = <<b[5], b[6], b[7], b[8]>>
        /\ DecodeHeader(b).sender = <<b[9], b[10], b[11], b[12]>>
        /\ DecodeHeader(b).sequence = <<b[13], b[14]>>
    BY DEF DecodeHeader
  <2>3. <<b[5], b[6], b[7], b[8]>> \in Digits(4)
    BY <2>1, TuplesAreDigits
  <2>4. <<b[9], b[10], b[11], b[12]>> \in Digits(4)
    BY <2>1, TuplesAreDigits
  <2>5. <<b[13], b[14]>> \in Digits(2)
    BY <2>1, TuplesAreDigits
  <2> QED
    BY <2>2, <2>3, <2>4, <2>5
<1>7. /\ DecodeHeader(b).version \in Byte
      /\ DecodeHeader(b).type \in PacketType
      /\ DecodeHeader(b).len = HeaderLen(b)
  BY <1>2 DEF DecodeHeader
<1>8. \A v \in Byte, t \in PacketType, n \in Word, c \in Digits(4),
         d \in Digits(4), q \in Digits(2), f \in Digits(2) :
        [version |-> v, type |-> t, len |-> n, channel |-> c, sender |-> d,
         sequence |-> q, flags |-> f] \in Header
  BY DEF Header
<1>9. DecodeHeader(b) =
        [version |-> DecodeHeader(b).version, type |-> DecodeHeader(b).type,
         len |-> DecodeHeader(b).len, channel |-> DecodeHeader(b).channel,
         sender |-> DecodeHeader(b).sender,
         sequence |-> DecodeHeader(b).sequence, flags |-> DecodeHeader(b).flags]
  BY DEF DecodeHeader
<1> QED
  BY <1>3, <1>5, <1>6, <1>7, <1>8, <1>9

\* A header read is the header written, but for the flags of a legacy one.
LEMMA HeaderRead ==
  ASSUME NEW h \in Header, NEW b \in Seq(Byte),
         Len(b) >= Len(EncodeHeader(h)),
         \A i \in 1 .. Len(EncodeHeader(h)) : b[i] = EncodeHeader(h)[i]
  PROVE  /\ HeaderLen(b) = h.len
         /\ DecodeHeader(b) = IF h.len = LEGACY_HEADER_LEN
                              THEN [h EXCEPT !.flags = <<0, 0>>] ELSE h
<1> DEFINE e == EncodeHeader(h)
           x == Fixed(h)
<1>0. /\ Len(e) = IF h.len = LEGACY_HEADER_LEN THEN 14 ELSE 16
      /\ \A i \in 1 .. 14 : e[i] = x[i]
      /\ h.len # LEGACY_HEADER_LEN => e[15] = h.flags[1] /\ e[16] = h.flags[2]
      /\ \A i \in 1 .. Len(e) : b[i] = e[i]
  BY HeaderBytes
<1> HIDE DEF e, x
<1>1. \A i \in 1 .. 14 : b[i] = x[i]
  BY <1>0, SMTT(30)
<1>2. h.len # LEGACY_HEADER_LEN => b[15] = h.flags[1] /\ b[16] = h.flags[2]
  BY <1>0, SMTT(30)
<1>3. /\ b[1] = h.version /\ b[2] = h.type
      /\ b[3] = h.len \div 256 /\ b[4] = h.len % 256
      /\ b[5] = h.channel[1] /\ b[6] = h.channel[2]
      /\ b[7] = h.channel[3] /\ b[8] = h.channel[4]
      /\ b[9] = h.sender[1] /\ b[10] = h.sender[2]
      /\ b[11] = h.sender[3] /\ b[12] = h.sender[4]
      /\ b[13] = h.sequence[1] /\ b[14] = h.sequence[2]
  <2>1. /\ x[1] = h.version /\ x[2] = h.type
        /\ x[3] = h.len \div 256 /\ x[4] = h.len % 256
        /\ x[5] = h.channel[1] /\ x[6] = h.channel[2]
        /\ x[7] = h.channel[3] /\ x[8] = h.channel[4]
        /\ x[9] = h.sender[1] /\ x[10] = h.sender[2]
        /\ x[11] = h.sender[3] /\ x[12] = h.sender[4]
        /\ x[13] = h.sequence[1] /\ x[14] = h.sequence[2]
    BY FixedBytes DEF x
  <2> QED
    BY <1>1, <2>1
<1>4. HeaderLen(b) = h.len
  <2>1. b[3] = h.len \div 256 /\ b[4] = h.len % 256
    BY <1>3
  <2>2. b[3] * 256 + b[4] = h.len
    BY <2>1, HeaderFields, SplitWord
  <2> QED
    BY <2>2 DEF HeaderLen
<1>5. /\ <<b[5], b[6], b[7], b[8]>> = h.channel
      /\ <<b[9], b[10], b[11], b[12]>> = h.sender
      /\ <<b[13], b[14]>> = h.sequence
      /\ h.len # LEGACY_HEADER_LEN => <<b[15], b[16]>> = h.flags
  <2>1. /\ h.channel = <<h.channel[1], h.channel[2], h.channel[3], h.channel[4]>>
        /\ h.sender = <<h.sender[1], h.sender[2], h.sender[3], h.sender[4]>>
        /\ h.sequence = <<h.sequence[1], h.sequence[2]>>
        /\ h.flags = <<h.flags[1], h.flags[2]>>
    BY HeaderFields, DigitsAreATuple
  <2> QED
    BY <1>2, <1>3, <2>1
<1>6. h = [version |-> h.version, type |-> h.type, len |-> h.len,
           channel |-> h.channel, sender |-> h.sender,
           sequence |-> h.sequence, flags |-> h.flags]
  BY HeaderFields
<1>7. DecodeHeader(b) =
        [version |-> h.version, type |-> h.type, len |-> h.len,
         channel |-> h.channel, sender |-> h.sender, sequence |-> h.sequence,
         flags |-> IF h.len = LEGACY_HEADER_LEN THEN <<0, 0>> ELSE h.flags]
  BY <1>3, <1>4, <1>5 DEF DecodeHeader
<1> QED
  BY <1>4, <1>6, <1>7

\* A header written is the bytes that were read.
LEMMA HeaderWritten ==
  ASSUME NEW b \in Seq(Byte), Len(b) >= 14, b[2] \in PacketType,
         HeaderLen(b) # LEGACY_HEADER_LEN => Len(b) >= 16
  PROVE  EncodeHeader(DecodeHeader(b)) =
           SubSeq(b, 1, IF HeaderLen(b) = LEGACY_HEADER_LEN THEN 14 ELSE 16)
<1> DEFINE h == DecodeHeader(b)
           n == IF HeaderLen(b) = LEGACY_HEADER_LEN THEN 14 ELSE 16
           e == EncodeHeader(h)
           s == SubSeq(b, 1, n)
<1>1. h \in Header /\ h.len = HeaderLen(b)
  BY DecodedHeader
<1>2. Len(b) \in Nat /\ n \in 0 .. Len(b) /\ n \in {14, 16}
  BY LenProperties
<1>3. b[3] \in Byte /\ b[4] \in Byte
  BY <1>2, ElementOfSeq
<1>4. h.len \div 256 = b[3] /\ h.len % 256 = b[4]
  <2>1. h.len = b[3] * 256 + b[4]
    BY <1>1 DEF HeaderLen
  <2> HIDE DEF h
  <2> QED
    BY <1>3, <2>1, JoinWord
<1>5. /\ h.version = b[1] /\ h.type = b[2]
      /\ h.channel[1] = b[5] /\ h.channel[2] = b[6]
      /\ h.channel[3] = b[7] /\ h.channel[4] = b[8]
      /\ h.sender[1] = b[9] /\ h.sender[2] = b[10]
      /\ h.sender[3] = b[11] /\ h.sender[4] = b[12]
      /\ h.sequence[1] = b[13] /\ h.sequence[2] = b[14]
      /\ HeaderLen(b) # LEGACY_HEADER_LEN =>
           h.flags[1] = b[15] /\ h.flags[2] = b[16]
  BY DEF DecodeHeader
<1>6. /\ e \in Seq(Byte) /\ Len(e) = n
      /\ \A i \in 1 .. 14 : e[i] = Fixed(h)[i]
      /\ n = 16 => e[15] = h.flags[1] /\ e[16] = h.flags[2]
  BY <1>1, HeaderBytes
<1>7. /\ s \in Seq(Byte) /\ Len(s) = n
      /\ \A i \in 1 .. n : s[i] = b[i]
  <2>1. /\ s \in Seq(Byte) /\ Len(s) = n - 1 + 1
        /\ \A i \in 1 .. n - 1 + 1 : s[i] = b[1 + i - 1]
    BY <1>2, SliceFacts
  <2>2. n - 1 + 1 = n /\ \A i \in 1 .. n : 1 + i - 1 = i
    BY <1>2
  <2> QED
    BY <2>1, <2>2
<1>8. n = 16 => h.flags[1] = b[15] /\ h.flags[2] = b[16]
  BY <1>5
<1> HIDE DEF h, n, e, s
<1>9. \A i \in 1 .. 14 : e[i] = b[i]
  <2> DEFINE x == Fixed(h)
  <2>1. /\ x[1] = h.version /\ x[2] = h.type
        /\ x[3] = h.len \div 256 /\ x[4] = h.len % 256
        /\ x[5] = h.channel[1] /\ x[6] = h.channel[2]
        /\ x[7] = h.channel[3] /\ x[8] = h.channel[4]
        /\ x[9] = h.sender[1] /\ x[10] = h.sender[2]
        /\ x[11] = h.sender[3] /\ x[12] = h.sender[4]
        /\ x[13] = h.sequence[1] /\ x[14] = h.sequence[2]
    BY <1>1, FixedBytes, SMTT(30)
  <2> HIDE DEF x
  <2>2. /\ x[1] = b[1] /\ x[2] = b[2] /\ x[3] = b[3] /\ x[4] = b[4]
        /\ x[5] = b[5] /\ x[6] = b[6] /\ x[7] = b[7] /\ x[8] = b[8]
        /\ x[9] = b[9] /\ x[10] = b[10] /\ x[11] = b[11] /\ x[12] = b[12]
        /\ x[13] = b[13] /\ x[14] = b[14]
    BY <1>4, <1>5, <2>1
  <2>3. \A i \in 1 .. 14 : x[i] = b[i]
    <3> SUFFICES ASSUME NEW i \in 1 .. 14 PROVE x[i] = b[i]
      OBVIOUS
    <3>1. \/ i = 1 \/ i = 2 \/ i = 3 \/ i = 4 \/ i = 5 \/ i = 6 \/ i = 7
          \/ i = 8 \/ i = 9 \/ i = 10 \/ i = 11 \/ i = 12 \/ i = 13 \/ i = 14
      OBVIOUS
    <3> QED
      BY <2>2, <3>1
  <2>4. \A i \in 1 .. 14 : e[i] = x[i]
    BY <1>6 DEF x
  <2> QED
    BY <2>3, <2>4
<1>10. \A i \in 1 .. n : e[i] = b[i]
  <2> SUFFICES ASSUME NEW i \in 1 .. n PROVE e[i] = b[i]
    OBVIOUS
  <2>1. i \in 1 .. 14 \/ (n = 16 /\ i \in {15, 16})
    BY <1>2
  <2> QED
    BY <1>6, <1>8, <1>9, <2>1
<1>11. e = s
  BY <1>6, <1>7, <1>10, SeqEqual
<1> QED
  BY <1>11 DEF h, n, e, s

-----------------------------------------------------------------------------
(* Packets *)

\* The numbers the lengths are compared with.
LEMMA Lengths ==
  /\ LEGACY_HEADER_LEN = 14 /\ FIXED_HEADER_LEN = 16
  /\ SECURED_HEADER_LEN = 28 /\ AUTH_TAG_LEN = 16
BY DEF LEGACY_HEADER_LEN, FIXED_HEADER_LEN, SECURED_HEADER_LEN, AUTH_TAG_LEN

LEMMA DigitsAreASequence ==
  ASSUME NEW n \in Nat, NEW d \in Digits(n)
  PROVE  d \in Seq(Byte) /\ Len(d) = n
BY SeqDef DEF Digits

LEMMA SequenceIsDigits ==
  ASSUME NEW d \in Seq(Byte)
  PROVE  d \in Digits(Len(d))
BY LenProperties DEF Digits

\* What a datagram without an error has.
LEMMA NoError ==
  ASSUME NEW b \in Seq(Byte), DecodeError(b) = "none"
  PROVE  /\ b[1] = PROTOCOL_VERSION /\ b[2] \in PacketType
         /\ HeaderLen(b) \in Nat
         /\ HeaderLen(b) = 14 \/ HeaderLen(b) >= 16
         /\ Len(b) \in Nat /\ Len(b) >= 14 /\ Len(b) >= HeaderLen(b)
         /\ HeaderLen(b) >= 28 => Len(b) >= HeaderLen(b) + 16
         /\ DecodeHeader(b) \in Header /\ DecodeHeader(b).len = HeaderLen(b)
<1>1. Len(b) \in Nat
  BY LenProperties
<1>2. ~(Len(b) < 14) /\ Refusal(b[1], b[2], HeaderLen(b), Len(b)) = "none"
  BY Lengths DEF DecodeError
<1>3. b[3] \in Byte /\ b[4] \in Byte
  BY <1>1, <1>2, ElementOfSeq
<1>4. HeaderLen(b) \in Word
  BY <1>3, JoinWord DEF HeaderLen
<1>5. HeaderLen(b) \in Nat
  BY <1>4, WordBounds
<1>6. /\ b[1] = PROTOCOL_VERSION /\ b[2] \in PacketType
      /\ HeaderLen(b) = 14 \/ ~(HeaderLen(b) < 16)
      /\ ~(Len(b) < HeaderLen(b))
      /\ HeaderLen(b) >= 28 => ~(Len(b) < HeaderLen(b) + 16)
  BY <1>2, Lengths DEF Refusal
<1>7. /\ Len(b) >= 14 /\ Len(b) >= HeaderLen(b)
      /\ HeaderLen(b) = 14 \/ HeaderLen(b) >= 16
      /\ HeaderLen(b) >= 28 => Len(b) >= HeaderLen(b) + 16
  BY <1>1, <1>2, <1>5, <1>6
<1>8. DecodeHeader(b) \in Header /\ DecodeHeader(b).len = HeaderLen(b)
  BY <1>5, <1>6, <1>7, DecodedHeader, Lengths
<1> QED
  BY <1>1, <1>5, <1>6, <1>7, <1>8

\* Where the tag begins, for a length l and a header length k.
LEMMA TagBounds ==
  ASSUME NEW l \in Nat, NEW k \in Nat, k >= 28, l >= k + 16, NEW n, n = l - 16
  PROVE  n \in Nat /\ n \in 0 .. l /\ n + 1 \in Nat \ {0} /\ k + 1 \in Nat \ {0}
         /\ k + 1 <= n + 1 /\ l - (n + 1) + 1 = 16 /\ n + 1 <= l + 1
         /\ l \in 0 .. l /\ 24 \in 0 .. l /\ 28 \in 0 .. l
OBVIOUS

\* The parts of a datagram with a security header.
LEMMA SecuredParts ==
  ASSUME NEW b \in Seq(Byte), DecodeError(b) = "none", HeaderLen(b) >= 28,
         NEW n, n = Len(b) - 16
  PROVE  /\ SubSeq(b, 17, 24) \in Digits(8) /\ SubSeq(b, 25, 28) \in Digits(4)
         /\ SubSeq(b, HeaderLen(b) + 1, n) \in Seq(Byte)
         /\ SubSeq(b, n + 1, Len(b)) \in Digits(16)
<1>1. Len(b) \in Nat /\ HeaderLen(b) \in Nat /\ Len(b) >= HeaderLen(b) + 16
  BY NoError
<1>2. n \in Nat /\ n \in 0 .. Len(b) /\ n + 1 \in Nat \ {0}
       /\ HeaderLen(b) + 1 \in Nat \ {0} /\ HeaderLen(b) + 1 <= n + 1
       /\ Len(b) - (n + 1) + 1 = 16 /\ n + 1 <= Len(b) + 1 /\ Len(b) \in 0 .. Len(b)
       /\ 24 \in 0 .. Len(b) /\ 28 \in 0 .. Len(b)
  <2>1. PICK l \in Nat : l = Len(b)
    BY <1>1
  <2>2. PICK k \in Nat : k = HeaderLen(b)
    BY <1>1
  <2>3. n = l - 16 /\ k >= 28 /\ l >= k + 16
    BY <1>1, <2>1, <2>2
  <2>4. n \in Nat /\ n \in 0 .. l /\ n + 1 \in Nat \ {0} /\ k + 1 \in Nat \ {0}
         /\ k + 1 <= n + 1 /\ l - (n + 1) + 1 = 16 /\ n + 1 <= l + 1
         /\ l \in 0 .. l /\ 24 \in 0 .. l /\ 28 \in 0 .. l
    BY <2>3, TagBounds
  <2> QED
    BY <2>1, <2>2, <2>4
<1>3. /\ 17 \in Nat \ {0} /\ 17 <= 24 + 1 /\ 24 - 17 + 1 = 8
      /\ 25 \in Nat \ {0} /\ 25 <= 28 + 1 /\ 28 - 25 + 1 = 4
  OBVIOUS
<1>4. SubSeq(b, 17, 24) \in Seq(Byte) /\ Len(SubSeq(b, 17, 24)) = 24 - 17 + 1
  BY <1>2, <1>3, SliceFacts
<1>5. SubSeq(b, 25, 28) \in Seq(Byte) /\ Len(SubSeq(b, 25, 28)) = 28 - 25 + 1
  BY <1>2, <1>3, SliceFacts
<1>6. SubSeq(b, HeaderLen(b) + 1, n) \in Seq(Byte)
  BY <1>2, SliceFacts
<1>7. SubSeq(b, n + 1, Len(b)) \in Seq(Byte) /\ Len(SubSeq(b, n + 1, Len(b))) = 16
  BY <1>2, SliceFacts
<1> QED
  BY <1>3, <1>4, <1>5, <1>6, <1>7, SequenceIsDigits

\* What Decode makes of either kind.
LEMMA DecodePlain ==
  ASSUME NEW b \in Seq(Byte), DecodeError(b) = "none", HeaderLen(b) < 28
  PROVE  /\ Decode(b) = [kind |-> "Plain", header |-> DecodeHeader(b),
                         payload |-> SubSeq(b, HeaderLen(b) + 1, Len(b))]
         /\ Decode(b) \in PlainPacket
<1> DEFINE h == DecodeHeader(b)
<1>1. h \in Header /\ h.len = HeaderLen(b) /\ HeaderLen(b) \in Nat
       /\ Len(b) \in Nat /\ Len(b) >= HeaderLen(b)
  BY NoError
<1>2. h.len < SECURED_HEADER_LEN
  BY <1>1, Lengths
<1>3. Decode(b) = [kind |-> "Plain", header |-> h,
                   payload |-> SubSeq(b, HeaderLen(b) + 1, Len(b))]
  BY <1>1, <1>2 DEF Decode, From
<1>4. SubSeq(b, HeaderLen(b) + 1, Len(b)) \in Seq(Byte)
  <2>1. HeaderLen(b) + 1 \in Nat \ {0} /\ Len(b) \in 0 .. Len(b)
         /\ HeaderLen(b) + 1 <= Len(b) + 1
    BY <1>1
  <2> QED
    BY <2>1, SliceFacts
<1> HIDE DEF h
<1> QED
  BY <1>1, <1>3, <1>4 DEF PlainPacket, h

LEMMA DecodeSecured ==
  ASSUME NEW b \in Seq(Byte), DecodeError(b) = "none", HeaderLen(b) >= 28,
         NEW n, n = Len(b) - 16
  PROVE  /\ Decode(b) = [kind |-> "Secured", header |-> DecodeHeader(b),
                         nonce |-> SubSeq(b, 17, 24), key |-> SubSeq(b, 25, 28),
                         payload |-> SubSeq(b, HeaderLen(b) + 1, n),
                         tag |-> SubSeq(b, n + 1, Len(b))]
         /\ Decode(b) \in SecuredPacket
<1> DEFINE h == DecodeHeader(b)
<1>1. h \in Header /\ h.len = HeaderLen(b) /\ HeaderLen(b) \in Nat
  BY NoError
<1>2. ~(h.len < SECURED_HEADER_LEN)
  BY <1>1, Lengths
<1>3. SecurityStart(b) = 16 /\ 16 + 1 = 17 /\ 16 + 8 = 24 /\ 16 + 9 = 25
       /\ 16 + 12 = 28 /\ AUTH_TAG_LEN = 16
  BY Lengths DEF SecurityStart
<1>4. Decode(b) = [kind |-> "Secured", header |-> h,
                   nonce |-> SubSeq(b, 17, 24), key |-> SubSeq(b, 25, 28),
                   payload |-> SubSeq(b, HeaderLen(b) + 1, n),
                   tag |-> SubSeq(b, n + 1, Len(b))]
  BY <1>1, <1>2, <1>3 DEF Decode, From
<1>5. /\ SubSeq(b, 17, 24) \in Digits(8) /\ SubSeq(b, 25, 28) \in Digits(4)
      /\ SubSeq(b, HeaderLen(b) + 1, n) \in Seq(Byte)
      /\ SubSeq(b, n + 1, Len(b)) \in Digits(16)
  BY SecuredParts
<1> DEFINE u == SubSeq(b, 17, 24)
           v == SubSeq(b, 25, 28)
           y == SubSeq(b, HeaderLen(b) + 1, n)
           z == SubSeq(b, n + 1, Len(b))
<1> HIDE DEF h, u, v, y, z
<1>6. [kind |-> "Secured", header |-> h, nonce |-> u, key |-> v,
       payload |-> y, tag |-> z] \in SecuredPacket
  BY <1>1, <1>5 DEF SecuredPacket, u, v, y, z
<1>7. Decode(b) \in SecuredPacket
  BY <1>4, <1>6 DEF u, v, y, z
<1> QED
  BY <1>4, <1>7 DEF h

-----------------------------------------------------------------------------
(* Back and forth *)

\* The header of a datagram without an error, written again.
LEMMA HeaderAgain ==
  ASSUME NEW b \in Seq(Byte), DecodeError(b) = "none", NEW n,
         n = IF HeaderLen(b) = 14 THEN 14 ELSE 16
  PROVE  /\ EncodeHeader(DecodeHeader(b)) = SubSeq(b, 1, n)
         /\ n <= Len(b) /\ n <= HeaderLen(b)
<1>1. /\ Len(b) \in Nat /\ Len(b) >= 14 /\ b[2] \in PacketType
      /\ HeaderLen(b) \in Nat /\ Len(b) >= HeaderLen(b)
      /\ HeaderLen(b) = 14 \/ HeaderLen(b) >= 16
  BY NoError
<1>2. HeaderLen(b) # LEGACY_HEADER_LEN => Len(b) >= 16
  BY <1>1, Lengths
<1>3. EncodeHeader(DecodeHeader(b)) =
        SubSeq(b, 1, IF HeaderLen(b) = LEGACY_HEADER_LEN THEN 14 ELSE 16)
  BY <1>1, <1>2, HeaderWritten
<1>4. n = IF HeaderLen(b) = LEGACY_HEADER_LEN THEN 14 ELSE 16
  BY Lengths
<1>5. EncodeHeader(DecodeHeader(b)) = SubSeq(b, 1, n)
  BY <1>3, <1>4
<1> QED
  BY <1>1, <1>5

LEMMA PlainReadWritten ==
  ASSUME NEW b \in Seq(Byte), DecodeError(b) = "none", HeaderLen(b) \in {14, 16}
  PROVE  Encode(Decode(b)) = b
<1> DEFINE n == HeaderLen(b)
<1>1. Len(b) \in Nat /\ n <= Len(b) /\ n \in {14, 16}
  BY NoError
<1>2. n < 28 /\ n = IF n = 14 THEN 14 ELSE 16
  BY <1>1
<1>3. Decode(b) = [kind |-> "Plain", header |-> DecodeHeader(b),
                   payload |-> SubSeq(b, n + 1, Len(b))]
  BY <1>2, DecodePlain
<1>4. Encode(Decode(b)) = EncodeHeader(DecodeHeader(b)) \o SubSeq(b, n + 1, Len(b))
  <2> DEFINE p == Decode(b)
             y == SubSeq(b, n + 1, Len(b))
             h == DecodeHeader(b)
  <2>1. p = [kind |-> "Plain", header |-> h, payload |-> y]
    BY <1>3
  <2> HIDE DEF p, y, h
  <2>2. p.kind = "Plain" /\ p.header = h /\ p.payload = y
    BY <2>1
  <2>3. Encode(p) = EncodeHeader(h) \o y
    BY <2>2 DEF Encode
  <2> QED
    BY <2>3 DEF p, y, h
<1>5. EncodeHeader(DecodeHeader(b)) = SubSeq(b, 1, n)
  BY <1>2, HeaderAgain
<1>6. SubSeq(b, 1, n) \o SubSeq(b, n + 1, Len(b)) = SubSeq(b, 1, Len(b))
  <2>1. n \in Nat /\ 1 \in Nat \ {0} /\ Len(b) \in 0 .. Len(b) /\ 1 <= n + 1
    BY <1>1
  <2> HIDE DEF n
  <2> QED
    BY <1>1, <2>1, SlicesJoin
<1> QED
  BY <1>4, <1>5, <1>6, SubSeqFull

\* The first 28 bytes of a secured packet.
LEMMA AadReadWritten ==
  ASSUME NEW b \in Seq(Byte), DecodeError(b) = "none", HeaderLen(b) >= 28
  PROVE  Aad(Decode(b)) = SubSeq(b, 1, 28)
<1> DEFINE n == Len(b) - 16
<1>1. Len(b) \in Nat /\ HeaderLen(b) \in Nat /\ Len(b) >= HeaderLen(b) + 16
  BY NoError
<1>2. Decode(b) = [kind |-> "Secured", header |-> DecodeHeader(b),
                   nonce |-> SubSeq(b, 17, 24), key |-> SubSeq(b, 25, 28),
                   payload |-> SubSeq(b, HeaderLen(b) + 1, n),
                   tag |-> SubSeq(b, n + 1, Len(b))]
  BY DecodeSecured
<1>3. Aad(Decode(b)) =
        EncodeHeader(DecodeHeader(b)) \o SubSeq(b, 17, 24) \o SubSeq(b, 25, 28)
  <2> DEFINE p == Decode(b)
  <2>1. /\ p.header = DecodeHeader(b)
        /\ p.nonce = SubSeq(b, 17, 24) /\ p.key = SubSeq(b, 25, 28)
    BY <1>2
  <2> HIDE DEF p
  <2>2. Aad(p) = EncodeHeader(p.header) \o p.nonce \o p.key
    BY DEF Aad
  <2> QED
    BY <2>1, <2>2 DEF p
<1>4. EncodeHeader(DecodeHeader(b)) = SubSeq(b, 1, 16)
  <2>1. 16 = IF HeaderLen(b) = 14 THEN 14 ELSE 16
    BY <1>1
  <2> QED
    BY <2>1, HeaderAgain
<1>5. 24 \in 0 .. Len(b) /\ 28 \in 0 .. Len(b)
  BY <1>1
<1>6. SubSeq(b, 1, 16) \o SubSeq(b, 16 + 1, 24) = SubSeq(b, 1, 24)
  <2>1. 1 \in Nat \ {0} /\ 16 \in Nat /\ 1 <= 16 + 1 /\ 16 <= 24
    OBVIOUS
  <2> QED
    BY <1>5, <2>1, SlicesJoin
<1>7. SubSeq(b, 1, 24) \o SubSeq(b, 24 + 1, 28) = SubSeq(b, 1, 28)
  <2>1. 1 \in Nat \ {0} /\ 24 \in Nat /\ 1 <= 24 + 1 /\ 24 <= 28
    OBVIOUS
  <2> QED
    BY <1>5, <2>1, SlicesJoin
<1>8. 16 + 1 = 17 /\ 24 + 1 = 25
  OBVIOUS
<1> QED
  BY <1>3, <1>4, <1>6, <1>7, <1>8

\* Payload and tag of a secured packet.
LEMMA RestRead ==
  ASSUME NEW b \in Seq(Byte), DecodeError(b) = "none", HeaderLen(b) >= 28
  PROVE  Decode(b).payload \o Decode(b).tag = SubSeq(b, HeaderLen(b) + 1, Len(b))
<1> DEFINE n == Len(b) - 16
           m == HeaderLen(b) + 1
<1>1. Len(b) \in Nat /\ HeaderLen(b) \in Nat /\ Len(b) >= HeaderLen(b) + 16
  BY NoError
<1>2. Decode(b).payload = SubSeq(b, m, n) /\ Decode(b).tag = SubSeq(b, n + 1, Len(b))
  <2> DEFINE p == Decode(b)
             h == DecodeHeader(b)
             u == SubSeq(b, 17, 24)
             v == SubSeq(b, 25, 28)
             y == SubSeq(b, m, n)
             z == SubSeq(b, n + 1, Len(b))
  <2>1. p = [kind |-> "Secured", header |-> h, nonce |-> u, key |-> v,
             payload |-> y, tag |-> z]
    BY DecodeSecured
  <2> HIDE DEF p, h, u, v, y, z
  <2>2. p.payload = y /\ p.tag = z
    BY <2>1
  <2> QED
    BY <2>2 DEF p, y, z
<1>3. m \in Nat \ {0} /\ n \in Nat /\ Len(b) \in 0 .. Len(b) /\ m <= n + 1
       /\ n <= Len(b)
  BY <1>1
<1> HIDE DEF n, m
<1>4. SubSeq(b, m, n) \o SubSeq(b, n + 1, Len(b)) = SubSeq(b, m, Len(b))
  BY <1>3, SlicesJoin
<1> QED
  BY <1>2, <1>4 DEF m

LEMMA SecuredReadWritten ==
  ASSUME NEW b \in Seq(Byte), DecodeError(b) = "none", HeaderLen(b) = 28
  PROVE  Encode(Decode(b)) = b
<1> DEFINE p == Decode(b)
           e == EncodeHeader(p.header)
<1>1. Len(b) \in Nat /\ HeaderLen(b) >= 28 /\ Len(b) >= 28
  BY NoError
<1>2. p \in SecuredPacket
  BY <1>1, DecodeSecured
<1> HIDE DEF p
<1>3. Encode(p) = e \o (p.nonce \o p.key \o p.payload \o p.tag)
  BY <1>2 DEF Encode, SecuredPacket
<1>4. Aad(p) = e \o p.nonce \o p.key
  BY DEF Aad
<1>5. p.header \in Header /\ p.nonce \in Digits(8) /\ p.key \in Digits(4)
       /\ p.payload \in Seq(Byte) /\ p.tag \in Digits(16)
  BY <1>2 DEF SecuredPacket
<1>6. e \in Seq(Byte)
  BY <1>5, HeaderBytes
<1>7. p.nonce \in Seq(Byte) /\ p.key \in Seq(Byte) /\ p.tag \in Seq(Byte)
  BY <1>5, DigitsAreASequence
<1> HIDE DEF e
<1>8. Encode(p) = Aad(p) \o (p.payload \o p.tag)
  <2>1. \A x, y \in Seq(Byte) : x \o y \in Seq(Byte)
    BY ConcatProperties
  <2>2. \A x, y, z \in Seq(Byte) : (x \o y) \o z = x \o (y \o z)
    <3> SUFFICES ASSUME NEW x \in Seq(Byte), NEW y \in Seq(Byte), NEW z \in Seq(Byte)
                 PROVE  (x \o y) \o z = x \o (y \o z)
      OBVIOUS
    <3> QED
      BY ConcatAssociative, SMTT(60)
  <2>3. (p.nonce \o p.key) \in Seq(Byte) /\ e \o p.nonce \in Seq(Byte)
         /\ p.payload \o p.tag \in Seq(Byte)
    BY <1>5, <1>6, <1>7, <2>1
  <2>4. p.nonce \o p.key \o p.payload \o p.tag
          = (p.nonce \o p.key) \o (p.payload \o p.tag)
    <3> DEFINE x == p.nonce \o p.key
               y == p.payload
               z == p.tag
    <3>1. x \in Seq(Byte) /\ y \in Seq(Byte) /\ z \in Seq(Byte)
      BY <1>5, <1>7, <2>3
    <3> HIDE DEF x, y, z
    <3>2. (x \o y) \o z = x \o (y \o z)
      BY <2>2, <3>1, SMTT(30)
    <3> QED
      BY <3>2 DEF x, y, z
  <2>5. e \o ((p.nonce \o p.key) \o (p.payload \o p.tag))
          = (e \o (p.nonce \o p.key)) \o (p.payload \o p.tag)
    BY <1>6, <2>2, <2>3
  <2>6. e \o (p.nonce \o p.key) = e \o p.nonce \o p.key
    BY <1>6, <1>7, <2>2
  <2> QED
    BY <1>3, <1>4, <2>4, <2>5, <2>6
<1>9. Aad(p) = SubSeq(b, 1, 28) /\ p.payload \o p.tag = SubSeq(b, 28 + 1, Len(b))
  BY <1>1, AadReadWritten, RestRead DEF p
<1>10. SubSeq(b, 1, 28) \o SubSeq(b, 28 + 1, Len(b)) = SubSeq(b, 1, Len(b))
  <2>1. 1 \in Nat \ {0} /\ 28 \in Nat /\ 1 <= 28 + 1 /\ 28 <= Len(b)
         /\ Len(b) \in 0 .. Len(b)
    BY <1>1
  <2> QED
    BY <2>1, SlicesJoin
<1> QED
  BY <1>8, <1>9, <1>10, SubSeqFull DEF p

-----------------------------------------------------------------------------
(* Forth and back *)

LEMMA FirstBytes ==
  ASSUME NEW h \in Header
  PROVE  /\ EncodeHeader(h)[1] = h.version /\ EncodeHeader(h)[2] = h.type
         /\ Len(EncodeHeader(h)) >= 14
<1> DEFINE e == EncodeHeader(h)
<1>1. Fixed(h)[1] = h.version /\ Fixed(h)[2] = h.type
  BY FixedBytes
<1>2. /\ Len(e) = IF h.len = LEGACY_HEADER_LEN THEN 14 ELSE 16
      /\ \A i \in 1 .. 14 : e[i] = Fixed(h)[i]
  BY HeaderBytes
<1> HIDE DEF e
<1>3. Len(e) >= 14
  BY <1>2
<1>4. e[1] = Fixed(h)[1] /\ e[2] = Fixed(h)[2]
  BY <1>2
<1> QED
  BY <1>1, <1>3, <1>4 DEF e

\* The bytes of an encoded packet begin with its header.
LEMMA BeginsWithHeader ==
  ASSUME NEW h \in Header, NEW y \in Seq(Byte), NEW b, b = EncodeHeader(h) \o y
  PROVE  /\ b \in Seq(Byte) /\ Len(b) = Len(EncodeHeader(h)) + Len(y)
         /\ HeaderLen(b) = h.len
         /\ DecodeHeader(b) = IF h.len = LEGACY_HEADER_LEN
                              THEN [h EXCEPT !.flags = <<0, 0>>] ELSE h
         /\ b[1] = h.version /\ b[2] = h.type
<1> DEFINE e == EncodeHeader(h)
<1>1. e \in Seq(Byte) /\ Len(e) \in Nat /\ Len(y) \in Nat
  BY HeaderBytes, LenProperties
<1>2. /\ b \in Seq(Byte) /\ Len(b) = Len(e) + Len(y)
      /\ \A i \in 1 .. Len(e) + Len(y) :
           b[i] = IF i <= Len(e) THEN e[i] ELSE y[i - Len(e)]
  BY <1>1, ConcatProperties
<1> HIDE DEF e
<1>3. Len(b) >= Len(e) /\ \A i \in 1 .. Len(e) : b[i] = e[i]
  BY <1>1, <1>2
<1>4. /\ HeaderLen(b) = h.len
      /\ DecodeHeader(b) = IF h.len = LEGACY_HEADER_LEN
                           THEN [h EXCEPT !.flags = <<0, 0>>] ELSE h
  BY <1>2, <1>3, HeaderRead DEF e
<1>5. e[1] = h.version /\ e[2] = h.type /\ Len(e) >= 14
  BY FirstBytes DEF e
<1>6. b[1] = h.version /\ b[2] = h.type
  <2>1. 1 \in 1 .. Len(e) /\ 2 \in 1 .. Len(e)
    BY <1>1, <1>5
  <2>2. b[1] = e[1] /\ b[2] = e[2]
    BY <1>3, <2>1
  <2> QED
    BY <1>5, <2>2
<1> QED
  BY <1>2, <1>4, <1>6 DEF e

LEMMA PlainWrittenRead ==
  ASSUME NEW p \in PlainPacket, Encodable(p), NEW b, b = Encode(p),
         p.header.version = PROTOCOL_VERSION
  PROVE  /\ DecodeError(b) = "none"
         /\ Decode(b) = IF p.header.len = LEGACY_HEADER_LEN
                        THEN [p EXCEPT !.header.flags = <<0, 0>>] ELSE p
<1> DEFINE h == p.header
           y == p.payload
           e == EncodeHeader(h)
           g == DecodeHeader(b)
<1>1. /\ h \in Header /\ y \in Seq(Byte) /\ p.kind = "Plain"
      /\ p = [kind |-> "Plain", header |-> h, payload |-> y]
  BY DEF PlainPacket
<1>2. h.len \in {14, 16} /\ h.type \in PacketType /\ h.version = PROTOCOL_VERSION
  BY <1>1, Lengths DEF Encodable, Header
<1>3. b = e \o y
  BY <1>1 DEF Encode
<1> HIDE DEF h, y
<1>4. /\ e \in Seq(Byte) /\ Len(e) = h.len
  BY <1>1, <1>2, HeaderBytes, Lengths
<1>5. /\ b \in Seq(Byte) /\ Len(b) = h.len + Len(y) /\ HeaderLen(b) = h.len
      /\ g = IF h.len = LEGACY_HEADER_LEN THEN [h EXCEPT !.flags = <<0, 0>>] ELSE h
      /\ b[1] = h.version /\ b[2] = h.type
  <2>1. /\ b \in Seq(Byte) /\ Len(b) = Len(e) + Len(y) /\ HeaderLen(b) = h.len
        /\ g = IF h.len = LEGACY_HEADER_LEN
               THEN [h EXCEPT !.flags = <<0, 0>>] ELSE h
        /\ b[1] = h.version /\ b[2] = h.type
    BY <1>1, <1>3, BeginsWithHeader
  <2> HIDE DEF e, g
  <2> QED
    BY <1>4, <2>1
<1>6. Len(y) \in Nat
  BY <1>1, LenProperties
<1> HIDE DEF e, g
<1>7. DecodeError(b) = "none"
  BY <1>2, <1>5, <1>6, Lengths DEF DecodeError, Refusal
<1>8. SubSeq(b, h.len + 1, Len(b)) = y
  <2>1. e \o y \o <<>> = b /\ <<>> \in Seq(Byte)
    BY <1>3, <1>5, JoinNothing
  <2>2. SubSeq(e \o y \o <<>>, Len(e) + 1, Len(e) + Len(y)) = y
    BY <1>1, <1>4, <2>1, SliceOfJoined
  <2> QED
    BY <1>4, <1>5, <2>1, <2>2
<1>9. HeaderLen(b) < 28
  BY <1>2, <1>5
<1>10. Decode(b) = [kind |-> "Plain", header |-> g, payload |-> y]
  BY <1>5, <1>7, <1>8, <1>9, DecodePlain DEF g
<1>11. [p EXCEPT !.header.flags = <<0, 0>>]
         = [kind |-> "Plain", header |-> [h EXCEPT !.flags = <<0, 0>>], payload |-> y]
  BY <1>1 DEF h
<1> QED
  BY <1>1, <1>5, <1>7, <1>10, <1>11 DEF h

LEMMA SecuredWrittenRead ==
  ASSUME NEW p \in SecuredPacket, Encodable(p), NEW b, b = Encode(p),
         p.header.version = PROTOCOL_VERSION
  PROVE  DecodeError(b) = "none" /\ Decode(b) = p
<1> DEFINE h == p.header
           e == EncodeHeader(h)
           u == p.nonce
           v == p.key
           y == p.payload
           z == p.tag
           uv == u \o v
           uvy == uv \o y
           rest == uvy \o z
           yz == y \o z
           vyz == v \o yz
<1>1. /\ h \in Header /\ u \in Digits(8) /\ v \in Digits(4) /\ y \in Seq(Byte)
      /\ z \in Digits(16) /\ p.kind = "Secured"
  BY DEF SecuredPacket
<1>2. p = [kind |-> "Secured", header |-> h, nonce |-> u, key |-> v,
           payload |-> y, tag |-> z]
  BY DEF SecuredPacket
<1>3. h.len = 28 /\ h.type \in PacketType /\ h.version = PROTOCOL_VERSION
  BY <1>1, Lengths DEF Encodable, Header
<1>4. b = e \o rest
  BY <1>1 DEF Encode
<1>5. /\ e \in Seq(Byte) /\ Len(e) = 16
  <2> HIDE DEF h
  <2>1. /\ e \in Seq(Byte)
        /\ Len(e) = IF h.len = LEGACY_HEADER_LEN THEN 14 ELSE 16
    BY <1>1, HeaderBytes
  <2> HIDE DEF e
  <2> QED
    BY <1>3, <2>1, Lengths
<1>6. /\ u \in Seq(Byte) /\ Len(u) = 8 /\ v \in Seq(Byte) /\ Len(v) = 4
      /\ z \in Seq(Byte) /\ Len(z) = 16 /\ Len(y) \in Nat
  BY <1>1, DigitsAreASequence, LenProperties
<1> HIDE DEF h, e, u, v, y, z, uv, uvy, rest, yz, vyz
<1>7. uv \in Seq(Byte) /\ Len(uv) = 12 /\ yz \in Seq(Byte)
  <2>1. uv \in Seq(Byte) /\ Len(uv) = Len(u) + Len(v)
    BY <1>6, JoinType, Zenon DEF uv
  <2>2. yz \in Seq(Byte)
    BY <1>1, <1>6, JoinType, Zenon DEF yz
  <2> QED
    BY <1>6, <2>1, <2>2
<1>8. uvy \in Seq(Byte) /\ Len(uvy) = 12 + Len(y) /\ vyz \in Seq(Byte)
  <2>1. uvy \in Seq(Byte) /\ Len(uvy) = Len(uv) + Len(y)
    BY <1>1, <1>7, JoinType, Zenon DEF uvy
  <2>2. vyz \in Seq(Byte)
    BY <1>6, <1>7, JoinType, Zenon DEF vyz
  <2> QED
    BY <1>6, <1>7, <2>1, <2>2
<1>9. rest \in Seq(Byte) /\ Len(rest) = 28 + Len(y)
  <2>1. rest \in Seq(Byte) /\ Len(rest) = Len(uvy) + Len(z)
    BY <1>6, <1>8, JoinType, Zenon DEF rest
  <2> QED
    BY <1>6, <1>8, <2>1
<1>10. /\ e \o u \in Seq(Byte) /\ Len(e \o u) = 24
       /\ e \o uv \in Seq(Byte) /\ Len(e \o uv) = 28
  <2>1. e \o u \in Seq(Byte) /\ Len(e \o u) = Len(e) + Len(u)
    BY <1>5, <1>6, JoinType, Zenon
  <2>2. e \o uv \in Seq(Byte) /\ Len(e \o uv) = Len(e) + Len(uv)
    BY <1>5, <1>7, JoinType, Zenon
  <2> QED
    BY <1>5, <1>6, <1>7, <2>1, <2>2
<1>11. e \o uvy \in Seq(Byte) /\ Len(e \o uvy) = 28 + Len(y)
  <2>1. e \o uvy \in Seq(Byte) /\ Len(e \o uvy) = Len(e) + Len(uvy)
    BY <1>5, <1>8, JoinType, Zenon
  <2> QED
    BY <1>5, <1>6, <1>8, <2>1
<1>12. rest = uv \o yz
  <2>1. (uv \o y) \o z = uv \o (y \o z)
    <3>1. uv \in Seq(Byte) /\ y \in Seq(Byte) /\ z \in Seq(Byte)
      BY <1>1, <1>6, <1>7
    <3> QED
      BY <3>1, JoinAssociates
  <2> QED
    BY <2>1 DEF rest, uvy, yz
<1>13. rest = u \o vyz
  BY <1>6, <1>7, <1>12, JoinAssociates, ZenonT(40) DEF uv, vyz
<1>14. b = e \o u \o vyz
  BY <1>4, <1>5, <1>6, <1>8, <1>13, JoinAssociates
<1>15. b = (e \o u) \o v \o yz
  <2> DEFINE eu == e \o u
  <2>1. eu \in Seq(Byte)
    BY <1>10
  <2> HIDE DEF eu
  <2>2. (eu \o v) \o yz = eu \o (v \o yz)
    BY <1>6, <1>7, <2>1, JoinAssociates, ZenonT(40)
  <2> QED
    BY <1>14, <2>2 DEF eu, vyz
<1>16. b = (e \o uvy) \o z \o <<>> /\ b = (e \o uv) \o y \o z
  <2>1. b = (e \o uvy) \o z
    BY <1>4, <1>5, <1>6, <1>8, JoinAssociates DEF rest
  <2>2. e \o uvy = (e \o uv) \o y
    BY <1>1, <1>5, <1>7, JoinAssociates DEF uvy
  <2>3. (e \o uvy) \o z \in Seq(Byte)
    BY <1>6, <1>11, JoinType
  <2> QED
    BY <2>1, <2>2, <2>3, JoinNothing
<1>17. /\ b \in Seq(Byte) /\ Len(b) = 44 + Len(y) /\ HeaderLen(b) = 28
       /\ DecodeHeader(b) = h /\ b[1] = h.version /\ b[2] = h.type
  <2>1. /\ b \in Seq(Byte) /\ Len(b) = Len(e) + Len(rest) /\ HeaderLen(b) = h.len
        /\ DecodeHeader(b) = IF h.len = LEGACY_HEADER_LEN
                             THEN [h EXCEPT !.flags = <<0, 0>>] ELSE h
        /\ b[1] = h.version /\ b[2] = h.type
    BY <1>1, <1>4, <1>9, BeginsWithHeader DEF e
  <2> QED
    BY <1>3, <1>5, <1>6, <1>9, <2>1, Lengths
<1>18. DecodeError(b) = "none"
  BY <1>3, <1>6, <1>17, Lengths DEF DecodeError, Refusal
<1>19. SubSeq(b, 17, 24) = u
  <2>1. SubSeq(e \o u \o vyz, Len(e) + 1, Len(e) + Len(u)) = u
    BY <1>5, <1>6, <1>8, SliceOfJoined
  <2>2. Len(e) + 1 = 17 /\ Len(e) + Len(u) = 24
    BY <1>5, <1>6
  <2> QED
    BY <1>14, <2>1, <2>2
<1>20. SubSeq(b, 25, 28) = v
  <2> DEFINE eu == e \o u
  <2>1. eu \in Seq(Byte) /\ Len(eu) + 1 = 25 /\ Len(eu) + Len(v) = 28
    BY <1>6, <1>10
  <2>2. b = eu \o v \o yz
    BY <1>15
  <2> HIDE DEF eu
  <2>3. SubSeq(eu \o v \o yz, Len(eu) + 1, Len(eu) + Len(v)) = v
    BY <1>6, <1>7, <2>1, SliceOfJoined
  <2> QED
    BY <2>1, <2>2, <2>3
<1>21. SubSeq(b, 29, 28 + Len(y)) = y
  <2> DEFINE x == e \o uv
  <2>1. x \in Seq(Byte) /\ Len(x) + 1 = 29 /\ Len(x) + Len(y) = 28 + Len(y)
    BY <1>6, <1>10
  <2>2. b = x \o y \o z
    BY <1>16
  <2> HIDE DEF x
  <2>3. SubSeq(x \o y \o z, Len(x) + 1, Len(x) + Len(y)) = y
    BY <1>1, <1>6, <2>1, SliceOfJoined
  <2> QED
    BY <2>1, <2>2, <2>3
<1>22. SubSeq(b, 28 + Len(y) + 1, Len(b)) = z
  <2> DEFINE x == e \o uvy
  <2>1. /\ x \in Seq(Byte) /\ Len(x) + 1 = 28 + Len(y) + 1
        /\ Len(x) + Len(z) = Len(b)
    BY <1>6, <1>11, <1>17
  <2>2. b = x \o z \o <<>> /\ <<>> \in Seq(Byte)
    BY <1>1, <1>16, JoinNothing
  <2> HIDE DEF x
  <2>3. SubSeq(x \o z \o <<>>, Len(x) + 1, Len(x) + Len(z)) = z
    BY <1>6, <2>1, <2>2, SliceOfJoined
  <2> QED
    BY <2>1, <2>2, <2>3
<1>23. Decode(b) = [kind |-> "Secured", header |-> h, nonce |-> u, key |-> v,
                    payload |-> y, tag |-> z]
  <2>1. 28 + Len(y) = Len(b) - 16 /\ HeaderLen(b) >= 28 /\ HeaderLen(b) + 1 = 29
    BY <1>6, <1>17
  <2>2. Decode(b) = [kind |-> "Secured", header |-> DecodeHeader(b),
                     nonce |-> SubSeq(b, 17, 24), key |-> SubSeq(b, 25, 28),
                     payload |-> SubSeq(b, HeaderLen(b) + 1, 28 + Len(y)),
                     tag |-> SubSeq(b, 28 + Len(y) + 1, Len(b))]
    BY <1>17, <1>18, <2>1, DecodeSecured
  <2> QED
    BY <1>17, <1>19, <1>20, <1>21, <1>22, <2>1, <2>2
<1> QED
  BY <1>2, <1>18, <1>23

-----------------------------------------------------------------------------
(* The state machine *)

Packet == PlainPacket \union SecuredPacket

\* What the worker makes of a datagram.
Outcome(b) ==
  IF DecodeError(b) = "none" THEN Decode(b)
  ELSE [kind |-> "Rejected", error |-> DecodeError(b)]

\* What was sent is on the wire, and what was read is what is on the wire.
CodecInv ==
  /\ sent # Nothing => sent \in Packet /\ Encodable(sent) /\ wire = Encode(sent)
  /\ wire # Nothing => wire \in Seq(Byte)
  /\ got # Nothing => wire # Nothing /\ got = Outcome(wire)

LEMMA EncodeIsBytes ==
  ASSUME NEW p \in Packet
  PROVE  Encode(p) \in Seq(Byte)
<1>1. ASSUME NEW h \in Header PROVE EncodeHeader(h) \in Seq(Byte)
  BY HeaderBytes
<1>2. CASE p \in PlainPacket
  <2>1. p.kind = "Plain" /\ p.header \in Header /\ p.payload \in Seq(Byte)
    BY <1>2 DEF PlainPacket
  <2>2. Encode(p) = EncodeHeader(p.header) \o p.payload
    BY <2>1 DEF Encode
  <2> QED
    BY <1>1, <2>1, <2>2, JoinType
<1>3. CASE p \in SecuredPacket
  <2> DEFINE u == p.nonce
             v == p.key
             y == p.payload
             z == p.tag
             e == EncodeHeader(p.header)
  <2>1. /\ p.kind = "Secured" /\ p.header \in Header /\ u \in Digits(8)
        /\ v \in Digits(4) /\ y \in Seq(Byte) /\ z \in Digits(16)
    BY <1>3 DEF SecuredPacket
  <2>2. Encode(p) = e \o (u \o v \o y \o z)
    BY <2>1 DEF Encode
  <2>3. u \in Seq(Byte) /\ v \in Seq(Byte) /\ z \in Seq(Byte) /\ e \in Seq(Byte)
    BY <1>1, <2>1, DigitsAreASequence
  <2> HIDE DEF u, v, y, z, e
  <2>4. u \o v \in Seq(Byte)
    BY <2>3, JoinType
  <2>5. u \o v \o y \in Seq(Byte)
    BY <2>1, <2>4, JoinType
  <2>6. u \o v \o y \o z \in Seq(Byte)
    BY <2>3, <2>5, JoinType
  <2>7. e \o (u \o v \o y \o z) \in Seq(Byte)
    BY <2>3, <2>6, JoinType
  <2> QED
    BY <2>2, <2>7
<1> QED
  BY <1>2, <1>3 DEF Packet

\* Reading ends in a packet or in one of the errors.
LEMMA OutcomeType ==
  ASSUME NEW b \in Seq(Byte)
  PROVE  /\ DecodeError(b) = "none" => Outcome(b) \in Packet
         /\ DecodeError(b) # "none" => Outcome(b) \in Rejection
<1>1. ASSUME DecodeError(b) = "none" PROVE Outcome(b) \in Packet
  <2>1. HeaderLen(b) \in Nat
    BY <1>1, NoError
  <2>2. CASE HeaderLen(b) < 28
    BY <1>1, <2>2, DecodePlain DEF Outcome, Packet
  <2>3. CASE HeaderLen(b) >= 28
    BY <1>1, <2>3, DecodeSecured DEF Outcome, Packet
  <2> QED
    BY <2>1, <2>2, <2>3
<1>2. DecodeError(b) \in {"PacketTooShort", "UnsupportedVersion",
        "UnsupportedHeaderLength", "InvalidPacketLength", "UnsupportedPacketType",
        "none"}
  BY DEF DecodeError, Refusal
<1> QED
  BY <1>1, <1>2 DEF Outcome, Rejection

LEMMA NothingIsNoPacket ==
  /\ \A p \in Packet : p # Nothing
  /\ \A b \in Seq(Byte) : b # Nothing
BY CodecAssumption DEF Packet

LEMMA CodecHolds == Spec => []CodecInv
<1>1. Init => CodecInv
  BY DEF Init, CodecInv
<1>2. CodecInv /\ [Next]_vars => CodecInv'
  <2> SUFFICES ASSUME CodecInv, [Next]_vars PROVE CodecInv'
    OBVIOUS
  <2>1. ASSUME NEW p \in Packets, Send(p) PROVE CodecInv'
    <3>1. p \in Packet
      BY CodecAssumption DEF Packet
    <3>2. /\ sent' = p /\ Encodable(p) /\ wire' = Encode(p)
          /\ wire = Nothing /\ got' = got
      BY <2>1 DEF Send
    <3>3. Encode(p) \in Seq(Byte)
      BY <3>1, EncodeIsBytes
    <3>4. got = Nothing
      BY <3>2 DEF CodecInv
    <3> QED
      BY <3>1, <3>2, <3>3, <3>4 DEF CodecInv
  <2>2. ASSUME NEW d \in Datagrams, Arrive(d) PROVE CodecInv'
    <3>1. d \in Seq(Byte)
      BY CodecAssumption
    <3>2. wire = Nothing /\ wire' = d /\ sent' = sent /\ got' = got
      BY <2>2 DEF Arrive
    <3>3. got = Nothing
      BY <3>2 DEF CodecInv
    <3>4. sent = Nothing
      BY <3>2, EncodeIsBytes, NothingIsNoPacket DEF CodecInv
    <3> QED
      BY <3>1, <3>2, <3>3, <3>4 DEF CodecInv
  <2>3. CASE Receive
    BY <2>3 DEF Receive, CodecInv, Outcome
  <2>4. CASE Forget
    BY <2>4 DEF Forget, CodecInv
  <2>5. CASE UNCHANGED vars
    BY <2>5 DEF vars, CodecInv
  <2> QED
    BY <2>1, <2>2, <2>3, <2>4, <2>5 DEF Next
<1> QED
  BY <1>1, <1>2, PTL DEF Spec

\* A datagram of any length is read to a well-typed packet or to an error.
THEOREM TypeCorrect == Spec => []TypeOK
<1>1. CodecInv => TypeOK
  <2> SUFFICES ASSUME CodecInv PROVE TypeOK
    OBVIOUS
  <2>1. got # Nothing => got \in Packet \/ got \in Rejection
    BY OutcomeType DEF CodecInv
  <2> QED
    BY <2>1 DEF CodecInv, TypeOK, Packet
<1> QED
  BY <1>1, CodecHolds, PTL

\* What was accepted is what the datagram holds.
LEMMA AcceptedIsDecoded ==
  ASSUME CodecInv, Accepted
  PROVE  /\ wire \in Seq(Byte) /\ DecodeError(wire) = "none" /\ got = Decode(wire)
<1>1. wire \in Seq(Byte) /\ got = Outcome(wire) /\ got.kind # "Rejected"
  BY DEF CodecInv, Accepted
<1>2. DecodeError(wire) = "none"
  BY <1>1 DEF Outcome
<1> QED
  BY <1>1, <1>2 DEF Outcome

\* Every packet of this version, of any content and length, is read as sent.
THEOREM SentPacketsAreRead == Spec => []SentIsRead
<1>1. CodecInv => SentIsRead
  <2> SUFFICES ASSUME CodecInv, sent # Nothing, got # Nothing,
                      sent.header.version = PROTOCOL_VERSION
               PROVE  got = IF sent.header.len = LEGACY_HEADER_LEN
                            THEN [sent EXCEPT !.header.flags = <<0, 0>>]
                            ELSE sent
    BY DEF SentIsRead
  <2>1. /\ sent \in Packet /\ Encodable(sent) /\ wire = Encode(sent)
        /\ got = Outcome(wire)
    BY DEF CodecInv
  <2>2. CASE sent \in PlainPacket
    BY <2>1, <2>2, PlainWrittenRead DEF Outcome
  <2>3. CASE sent \in SecuredPacket
    <3>1. DecodeError(wire) = "none" /\ Decode(wire) = sent
      BY <2>1, <2>3, SecuredWrittenRead
    <3>2. sent.header.len # LEGACY_HEADER_LEN
      BY <2>1, <2>3, Lengths DEF Encodable, SecuredPacket
    <3> QED
      BY <2>1, <3>1, <3>2 DEF Outcome
  <2> QED
    BY <2>1, <2>2, <2>3 DEF Packet
<1> QED
  BY <1>1, CodecHolds, PTL

\* Decoding loses no byte of any datagram whose header length encode writes.
THEOREM ReadPacketsEncodeBack == Spec => []ReadEncodesBack
<1>1. CodecInv => ReadEncodesBack
  <2> SUFFICES ASSUME CodecInv, Accepted
               PROVE  IF Encodable(got) THEN Encode(got) = wire
                      ELSE got.header.len \notin {LEGACY_HEADER_LEN,
                             FIXED_HEADER_LEN, SECURED_HEADER_LEN}
    BY DEF ReadEncodesBack
  <2>1. wire \in Seq(Byte) /\ DecodeError(wire) = "none" /\ got = Decode(wire)
    BY AcceptedIsDecoded
  <2>2. HeaderLen(wire) \in Nat /\ DecodeHeader(wire).len = HeaderLen(wire)
    BY <2>1, NoError
  <2>3. CASE HeaderLen(wire) < 28
    <3>1. got.kind = "Plain" /\ got.header = DecodeHeader(wire)
      BY <2>1, <2>3, DecodePlain
    <3>2. Encodable(got) <=> HeaderLen(wire) \in {14, 16}
      BY <2>2, <3>1, Lengths DEF Encodable
    <3> QED
      BY <2>1, <2>2, <2>3, <3>1, <3>2, PlainReadWritten, Lengths
  <2>4. CASE HeaderLen(wire) >= 28
    <3>1. got.kind = "Secured" /\ got.header = DecodeHeader(wire)
      <4>1. got.header = DecodeHeader(wire)
        BY <2>1, <2>4, DecodeSecured
      <4>2. got \in SecuredPacket
        BY <2>1, <2>4, DecodeSecured
      <4> QED
        BY <4>1, <4>2 DEF SecuredPacket
    <3>2. Encodable(got) <=> HeaderLen(wire) = 28
      BY <2>2, <3>1, Lengths DEF Encodable
    <3> QED
      BY <2>1, <2>2, <2>4, <3>1, <3>2, SecuredReadWritten, Lengths
  <2> QED
    BY <2>2, <2>3, <2>4
<1> QED
  BY <1>1, CodecHolds, PTL

\* Both ends authenticate the first 28 bytes, however long header and payload.
THEOREM AadStaysOnTheWire == Spec => []AadIsOnTheWire
<1>1. CodecInv => AadIsOnTheWire
  <2> SUFFICES ASSUME CodecInv, Accepted, got.kind = "Secured"
               PROVE  /\ Aad(got) = SubSeq(wire, 1, SECURED_HEADER_LEN)
                      /\ got.payload \o got.tag = From(wire, got.header.len + 1)
    BY DEF AadIsOnTheWire
  <2>1. wire \in Seq(Byte) /\ DecodeError(wire) = "none" /\ got = Decode(wire)
    BY AcceptedIsDecoded
  <2>2. HeaderLen(wire) \in Nat /\ DecodeHeader(wire).len = HeaderLen(wire)
    BY <2>1, NoError
  <2>3. HeaderLen(wire) >= 28
    <3>1. HeaderLen(wire) < 28 => got.kind = "Plain"
      BY <2>1, DecodePlain
    <3> QED
      BY <2>2, <3>1
  <2>4. got.header = DecodeHeader(wire)
    BY <2>1, <2>3, DecodeSecured
  <2>5. Aad(got) = SubSeq(wire, 1, 28)
    BY <2>1, <2>3, AadReadWritten
  <2>6. got.payload \o got.tag = SubSeq(wire, HeaderLen(wire) + 1, Len(wire))
    BY <2>1, <2>3, RestRead
  <2> QED
    BY <2>2, <2>4, <2>5, <2>6, Lengths DEF From
<1> QED
  BY <1>1, CodecHolds, PTL

\* The additional data say all of both headers of a packet.
LEMMA AadParts ==
  ASSUME NEW p \in SecuredPacket, p.header.len # LEGACY_HEADER_LEN, NEW b, b = Aad(p)
  PROVE  /\ DecodeHeader(b) = p.header
         /\ SubSeq(b, 17, 24) = p.nonce /\ SubSeq(b, 25, 28) = p.key
<1> DEFINE h == p.header
           e == EncodeHeader(h)
           u == p.nonce
           v == p.key
           uv == u \o v
           eu == e \o u
<1>1. h \in Header /\ u \in Digits(8) /\ v \in Digits(4)
  BY DEF SecuredPacket
<1>2. e \in Seq(Byte) /\ Len(e) = 16
  <2> HIDE DEF h
  <2>1. /\ e \in Seq(Byte)
        /\ Len(e) = IF h.len = LEGACY_HEADER_LEN THEN 14 ELSE 16
    BY <1>1, HeaderBytes
  <2>2. h.len # LEGACY_HEADER_LEN
    BY DEF h
  <2> HIDE DEF e
  <2> QED
    BY <2>1, <2>2
<1>3. u \in Seq(Byte) /\ Len(u) = 8 /\ v \in Seq(Byte) /\ Len(v) = 4
  BY <1>1, DigitsAreASequence
<1>4. b = eu \o v /\ h.len # LEGACY_HEADER_LEN
  BY DEF Aad
<1> HIDE DEF h, e, u, v, uv, eu
<1>5. eu \in Seq(Byte) /\ Len(eu) = 24
  <2>1. eu \in Seq(Byte) /\ Len(eu) = Len(e) + Len(u)
    BY <1>2, <1>3, JoinType, Zenon DEF eu
  <2> QED
    BY <1>2, <1>3, <2>1
<1>6. uv \in Seq(Byte)
  BY <1>3, JoinType, Zenon DEF uv
<1>7. b = e \o uv
  BY <1>2, <1>3, <1>4, JoinAssociates DEF eu, uv
<1>8. DecodeHeader(b) = h
  <2>1. DecodeHeader(b) = IF h.len = LEGACY_HEADER_LEN
                          THEN [h EXCEPT !.flags = <<0, 0>>] ELSE h
    BY <1>1, <1>6, <1>7, BeginsWithHeader DEF e
  <2> QED
    BY <1>4, <2>1
<1>9. SubSeq(b, 17, 24) = u
  <2>1. SubSeq(e \o u \o v, Len(e) + 1, Len(e) + Len(u)) = u
    BY <1>2, <1>3, SliceOfJoined
  <2>2. Len(e) + 1 = 17 /\ Len(e) + Len(u) = 24
    BY <1>2, <1>3
  <2> QED
    BY <1>4, <2>1, <2>2 DEF eu
<1>10. SubSeq(b, 25, 28) = v
  <2>1. b \in Seq(Byte)
    BY <1>3, <1>4, <1>5, JoinType
  <2>2. b = eu \o v \o <<>> /\ <<>> \in Seq(Byte)
    BY <1>4, <2>1, JoinNothing
  <2>3. SubSeq(eu \o v \o <<>>, Len(eu) + 1, Len(eu) + Len(v)) = v
    BY <1>3, <1>5, <2>2, SliceOfJoined
  <2>4. Len(eu) + 1 = 25 /\ Len(eu) + Len(v) = 28
    BY <1>3, <1>5
  <2> QED
    BY <2>2, <2>3, <2>4
<1> QED
  BY <1>8, <1>9, <1>10 DEF h, u, v

\* Packet::aad tells any two secured packets apart that differ in a field of
\* the header or of the security header: no two of them authenticate the same
\* bytes, which is why SecureMedia may take the fields for the bytes.
THEOREM AadTellsPacketsApart ==
  ASSUME NEW p \in SecuredPacket, NEW q \in SecuredPacket,
         p.header.len >= SECURED_HEADER_LEN, q.header.len >= SECURED_HEADER_LEN,
         Aad(p) = Aad(q)
  PROVE  p.header = q.header /\ p.nonce = q.nonce /\ p.key = q.key
<1>1. p.header.len # LEGACY_HEADER_LEN /\ q.header.len # LEGACY_HEADER_LEN
  BY Lengths
<1> QED
  BY <1>1, AadParts

=============================================================================
