--------------------------- MODULE HrzrCodecProofs --------------------------
(* Theorems about HrzrCodec: every value of every field.                   *)
EXTENDS HrzrCodec, TLAPS

(* The bytes of a word put together from two bytes.                        *)
LEMMA Bytes ==
  ASSUME NEW a \in Byte, NEW b \in Byte
  PROVE  /\ a + 256 * b \in Word
         /\ FirstByte(a + 256 * b) = a
         /\ SecondByte(a + 256 * b) = b
<1>1. (a + 256 * b) % 256 = a /\ (a + 256 * b) \div 256 = b
  BY SMT DEF Byte
<1>2. \A w \in Int : w \in Word <=> 0 =< w /\ w =< 65535
  BY Z3 DEF Word
<1>3. a + 256 * b \in Int /\ 0 =< a + 256 * b /\ a + 256 * b =< 65535
  BY SMT DEF Byte
<1>5. a + 256 * b \in Word
  BY <1>2, <1>3
<1> QED
  BY <1>1, <1>5, Zenon DEF FirstByte, SecondByte

(* The halves of a byte put together from two nibbles.                     *)
LEMMA Halves ==
  ASSUME NEW a \in Nibble, NEW b \in Nibble
  PROVE  /\ 16 * a + b \in Byte
         /\ (16 * a + b) \div 16 = a
         /\ (16 * a + b) % 16 = b
  BY SMT DEF Nibble, Byte

(* Masking a nibble leaves a nibble whose bit 2 is not set.                *)
LEMMA Masked ==
  ASSUME NEW n \in Nibble
  PROVE  /\ WithoutBit2(n) \in {0, 1, 4, 5, 8, 9, 12, 13}
         /\ WithoutBit2(n) = 0 <=> n \in {0, 2}
         /\ WithoutBit2(n) = 1 <=> n \in {1, 3}
         /\ WithoutBit2(n) = 4 <=> n \in {4, 6}
         /\ WithoutBit2(n) = 5 <=> n \in {5, 7}
         /\ WithoutBit2(n) = 8 <=> n \in {8, 10}
         /\ WithoutBit2(n) = 9 <=> n \in {9, 11}
  BY SMT DEF Nibble, WithoutBit2

(* What the switch over the control bits makes of a masked nibble.         *)
LEMMA Matched ==
  ASSUME NEW m \in {0, 1, 4, 5, 8, 9, 12, 13}
  PROVE  /\ MatchControl(m) \in PacketType \cup {Unmatched}
         /\ MatchControl(m) = "DATA" <=> m = 0
         /\ MatchControl(m) = "METADATA" <=> m = 5
         /\ MatchControl(m) = Unmatched <=> m = 9
  BY SMT DEF MatchControl, PacketType, Unmatched

-----------------------------------------------------------------------------
(* The parser reads back the headers the device writes, all of them.       *)
THEOREM DeviceHeaders ==
  \A c \in Nibble, n \in SequenceNumber : HeaderReadBack(c, n)
<1> SUFFICES ASSUME NEW c \in Nibble, NEW n \in SequenceNumber
             PROVE  HeaderReadBack(c, n)
  OBVIOUS
<1> DEFINE hi == n \div 256
           lo == n % 256
           w == DeviceWord(c, n)
<1>1. hi \in Nibble /\ lo \in Byte /\ n = 256 * hi + lo
  BY SMT DEF SequenceNumber, Nibble, Byte
<1>2. /\ 16 * c + hi \in Byte
      /\ (16 * c + hi) \div 16 = c /\ (16 * c + hi) % 16 = hi
  BY <1>1, Halves
<1>3. FirstByte(w) = 16 * c + hi /\ SecondByte(w) = lo
  BY <1>1, <1>2, Bytes DEF DeviceWord
<1>4. GetSequenceNumberFromHeader(w) = n
  BY <1>1, <1>2, <1>3 DEF GetSequenceNumberFromHeader
<1>5. GetControlFromHeader(w) = MatchControl(WithoutBit2(c))
  BY <1>2, <1>3 DEF GetControlFromHeader
<1>6. /\ GetControlFromHeader(w) = "DATA" <=> c \in {0, 2}
      /\ GetControlFromHeader(w) = "METADATA" <=> c \in {5, 7}
  BY <1>5, Masked, Matched
<1> QED
  BY <1>4, <1>6, Zenon DEF HeaderReadBack

(* getControlFromHeader throws for the control bits 10x1, and for no       *)
(* other header, whatever its length, number and receiver.                 *)
THEOREM ThrowsExactly ==
  \A w \in Word :
    /\ GetControlFromHeader(w) \in PacketType \cup {Unmatched}
    /\ GetControlFromHeader(w) = Unmatched <=> FirstByte(w) \div 16 \in {9, 11}
<1> SUFFICES ASSUME NEW w \in Word
             PROVE  /\ GetControlFromHeader(w) \in PacketType \cup {Unmatched}
                    /\ GetControlFromHeader(w) = Unmatched
                         <=> FirstByte(w) \div 16 \in {9, 11}
  OBVIOUS
<1>1. FirstByte(w) \div 16 \in Nibble
  BY SMT DEF Word, FirstByte, Nibble
<1> QED
  BY <1>1, Masked, Matched DEF GetControlFromHeader

(* Of a packet of HrzrUdpTransmitter the parser takes bits 4, 6 and 7 of   *)
(* the number for the control bits: it is read as DATA only if they are    *)
(* clear, and its number is read right only if the number's two bytes are  *)
(* equal and below 16.                                                     *)
THEOREM TransmitterHeaders ==
  \A n \in SequenceNumber :
    LET w == TransmitterWord(n)
        low == n % 256
    IN  /\ GetControlFromHeader(w) = "DATA" <=> low \in 0 .. 15 \cup 32 .. 47
        /\ GetControlFromHeader(w) = Unmatched
             <=> low \in 144 .. 159 \cup 176 .. 191
        /\ GetSequenceNumberFromHeader(w) = n <=> n \div 256 = low /\ low < 16
<1> SUFFICES
      ASSUME NEW n \in SequenceNumber
      PROVE  LET low == n % 256
             IN  /\ GetControlFromHeader(n) = "DATA"
                      <=> low \in 0 .. 15 \cup 32 .. 47
                 /\ GetControlFromHeader(n) = Unmatched
                      <=> low \in 144 .. 159 \cup 176 .. 191
                 /\ GetSequenceNumberFromHeader(n) = n
                      <=> n \div 256 = low /\ low < 16
  BY DEF TransmitterWord
<1> DEFINE low == n % 256
           high == n \div 256
<1>1. low \in Byte /\ high \in Nibble /\ n = 256 * high + low
  BY SMT DEF SequenceNumber, Byte, Nibble
<1>2. low \div 16 \in Nibble
  BY <1>1, SMT DEF Byte, Nibble
<1>3. GetControlFromHeader(n) = MatchControl(WithoutBit2(low \div 16))
  BY DEF GetControlFromHeader, FirstByte
<1>4. GetControlFromHeader(n) = "DATA" <=> low \div 16 \in {0, 2}
  BY <1>2, <1>3, Masked, Matched
<1>5. GetControlFromHeader(n) = Unmatched <=> low \div 16 \in {9, 11}
  BY <1>2, <1>3, Masked, Matched
<1>6. low \div 16 \in {0, 2} <=> low \in 0 .. 15 \cup 32 .. 47
  BY <1>1, SMT DEF Byte
<1>7. low \div 16 \in {9, 11} <=> low \in 144 .. 159 \cup 176 .. 191
  BY <1>1, SMT DEF Byte
<1>8. GetSequenceNumberFromHeader(n) = 256 * (low % 16) + high
  BY DEF GetSequenceNumberFromHeader, FirstByte, SecondByte
<1>9. 256 * (low % 16) + high = 256 * high + low <=> high = low /\ low < 16
  BY <1>1, SMT DEF Byte, Nibble
<1>10. GetSequenceNumberFromHeader(n) = n <=> high = low /\ low < 16
  BY <1>1, <1>8, <1>9, Zenon
<1> HIDE DEF low, high
<1> QED
  BY <1>4, <1>5, <1>6, <1>7, <1>10, Zenon DEF low, high

(* The parser reads back the fields of metadata, all of them.              *)
THEOREM MetadataFields ==
  \A v \in Nibble, t \in Nibble, k \in 0 .. 3, padding \in 0 .. 63 :
    MetadataReadBack(v, t, k, padding)
<1> SUFFICES ASSUME NEW v \in Nibble, NEW t \in Nibble, NEW k \in 0 .. 3,
                    NEW padding \in 0 .. 63
             PROVE  MetadataReadBack(v, t, k, padding)
  OBVIOUS
<1> DEFINE w == MetadataWord(v, t, k, padding)
<1>1. /\ 16 * v + t \in Byte
      /\ (16 * v + t) \div 16 = v /\ (16 * v + t) % 16 = t
  BY Halves
<1>2. 64 * k + padding \in Byte /\ (64 * k + padding) \div 64 = k
  BY SMT DEF Byte
<1>3. FirstByte(w) = 16 * v + t /\ SecondByte(w) = 64 * k + padding
  BY <1>1, <1>2, Bytes DEF MetadataWord
<1>4. GetVersion(w) = v
  BY <1>1, <1>3 DEF GetVersion
<1> DEFINE raw == WithoutBit2(t)
<1>5. GetTimeSyncSource(w) = CASE raw = 0 -> "NO_TIME_SYNC"
                               [] raw = 9 -> "GPS"
                               [] raw = 8 -> "GPS_NO_SYNC"
                               [] raw = 5 -> "NETWORK"
                               [] raw = 4 -> "NETWORK_NO_SYNC"
                               [] OTHER   -> "UNKNOWN_TIME"
  BY <1>1, <1>3 DEF GetTimeSyncSource
<1>6. /\ GetTimeSyncSource(w) = "NO_TIME_SYNC" <=> raw = 0
      /\ GetTimeSyncSource(w) \in {"GPS", "GPS_NO_SYNC"} <=> raw \in {8, 9}
      /\ GetTimeSyncSource(w) \in {"NETWORK", "NETWORK_NO_SYNC"} <=> raw \in {4, 5}
      /\ GetTimeSyncSource(w) \in {"GPS", "NETWORK"} => raw \in {5, 9}
  <2> HIDE DEF raw
  <2> QED
    BY <1>5, SMT
<1>7. /\ raw = 0 <=> t \in {0, 2}
      /\ raw \in {8, 9} <=> t \in 8 .. 11
      /\ raw \in {4, 5} <=> t \in 4 .. 7
      /\ raw \in {5, 9} => t % 2 = 1
  BY SMT DEF Nibble, WithoutBit2
<1>8. GetClockSyncSource(w) = CASE k = 0 -> "INTERNAL_CLOCK"
                                [] k = 2 -> "EXTERNAL_CLOCK"
                                [] OTHER -> "UNKNOWN_CLOCK"
  BY <1>2, <1>3 DEF GetClockSyncSource
<1>9. /\ GetClockSyncSource(w) = "INTERNAL_CLOCK" <=> k = 0
      /\ GetClockSyncSource(w) = "EXTERNAL_CLOCK" <=> k = 2
  BY <1>8, SMT
<1> QED
  BY <1>4, <1>6, <1>7, <1>9, Zenon DEF MetadataReadBack
=============================================================================
