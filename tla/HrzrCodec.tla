----------------------------- MODULE HrzrCodec ------------------------------
(***************************************************************************)
(* The bit fields of HRZR headers and metadata: how HrzrHeaderParser and   *)
(* HrzrMetadataParser read them, how the MSR4 (README.md:199-236, 345-450) *)
(* and HrzrUdpTransmitter write them.                                      *)
(*                                                                         *)
(* A parser loads the first eight bytes of a packet as one integer and     *)
(* looks at the lower two of them only.  These are a word here, as the     *)
(* little-endian program reads it: the byte that was sent first is the     *)
(* low one.  A nibble is a number below 16 whose bit 8 is the bit the      *)
(* README numbers 0.                                                       *)
(***************************************************************************)
EXTENDS Integers

Nibble == 0 .. 15
Byte == 0 .. 255
Word == 0 .. 65535
SequenceNumber == 0 .. 4095

(* The packet types of HrzrHeaderParser, and what stands for its exception *)
(* InvalidHrzrHeader.                                                      *)
PacketType == {"DATA", "DATA_END_OF_BURST", "FLOW_CONTROL", "COMMAND",
               "COMMAND_RESPONSE", "COMMAND_RESPONSE_ERROR", "METADATA"}
Unmatched == "UNMATCHED"

FirstByte(w) == w % 256
SecondByte(w) == w \div 256

(* Nibble n without the bit the README numbers 2: n & 0xD.                 *)
WithoutBit2(n) == 4 * (n \div 4) + (n % 2)

-----------------------------------------------------------------------------
(* HrzrHeaderParser                                                        *)

(* The switch over the masked control bits.                                *)
MatchControl(c) ==
  CASE c = 0  -> "DATA"
    [] c = 1  -> "DATA_END_OF_BURST"
    [] c = 4  -> "FLOW_CONTROL"
    [] c = 8  -> "COMMAND"
    [] c = 12 -> "COMMAND_RESPONSE"
    [] c = 13 -> "COMMAND_RESPONSE_ERROR"
    [] c = 5  -> "METADATA"
    [] OTHER  -> Unmatched

(* A mistake to detect: the lower half of the byte is taken for control.   *)
GetControlOfLowerHalf(w) == MatchControl(WithoutBit2(FirstByte(w) % 16))

GetControlFromHeader(w) == MatchControl(WithoutBit2(FirstByte(w) \div 16))

(* & 0xFF0F, then ntohs.                                                   *)
GetSequenceNumberFromHeader(w) ==
  256 * (FirstByte(w) % 16) + SecondByte(w)

-----------------------------------------------------------------------------
(* HrzrMetadataParser                                                      *)

GetVersion(w) == FirstByte(w) \div 16

GetTimeSyncSource(w) ==
  LET raw == WithoutBit2(FirstByte(w) % 16)
  IN  CASE raw = 0 -> "NO_TIME_SYNC"
        [] raw = 9 -> "GPS"
        [] raw = 8 -> "GPS_NO_SYNC"
        [] raw = 5 -> "NETWORK"
        [] raw = 4 -> "NETWORK_NO_SYNC"
        [] OTHER   -> "UNKNOWN_TIME"

GetClockSyncSource(w) ==
  LET raw == SecondByte(w) \div 64
  IN  CASE raw = 0 -> "INTERNAL_CLOCK"
        [] raw = 2 -> "EXTERNAL_CLOCK"
        [] OTHER   -> "UNKNOWN_CLOCK"

-----------------------------------------------------------------------------
(* The senders                                                             *)

(* The layout of README.md:199-205: control, then the number, the most     *)
(* significant bits first.                                                 *)
DeviceWord(c, n) ==
  (16 * c + n \div 256) + 256 * (n % 256)

(* HrzrUdpTransmitter: (control << 12) | the number, control being 0, stored   *)
(* in the byte order of the host.                                          *)
TransmitterWord(n) == n

(* The layout of README.md:352-362.                                        *)
MetadataWord(v, t, k, padding) ==
  (16 * v + t) + 256 * (64 * k + padding)

-----------------------------------------------------------------------------
(* The parser reads back what the device writes into the header of a       *)
(* packet with control nibble c and number n: the number whole, the type   *)
(* that README.md:210-236 gives the control bits, bit 2 of them being of   *)
(* no account.                                                             *)
HeaderReadBack(c, n) ==
  LET w == DeviceWord(c, n)
      type == GetControlFromHeader(w)
  IN  /\ GetSequenceNumberFromHeader(w) = n
      /\ type = "DATA" <=> c \in {0, 2}
      /\ type = "METADATA" <=> c \in {5, 7}

(* So it is with the fields of metadata, README.md:383-450, version v,     *)
(* time source t, clock source k.  A time source that is synchronized has  *)
(* bit 3 set, a clock source is read whatever follows it.                  *)
MetadataReadBack(v, t, k, padding) ==
  LET w == MetadataWord(v, t, k, padding)
      time == GetTimeSyncSource(w)
      clock == GetClockSyncSource(w)
  IN  /\ GetVersion(w) = v
      /\ time = "NO_TIME_SYNC" <=> t \in {0, 2}
      /\ time \in {"GPS", "GPS_NO_SYNC"} <=> t \in 8 .. 11
      /\ time \in {"NETWORK", "NETWORK_NO_SYNC"} <=> t \in 4 .. 7
      /\ time \in {"GPS", "NETWORK"} => t % 2 = 1
      /\ clock = "INTERNAL_CLOCK" <=> k = 0
      /\ clock = "EXTERNAL_CLOCK" <=> k = 2
=============================================================================
