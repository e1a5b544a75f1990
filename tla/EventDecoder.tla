---------------------------- MODULE EventDecoder ----------------------------
(***************************************************************************)
(* src/mesytec-mcpd/mcpd_core.h, decode_event() and the 48 bit words, and  *)
(* histogrammers.h/.cc: where the words of an event are in a packet, which *)
(* bits of it mean what, and which bins it counts in.                      *)
(*                                                                         *)
(* Functions only, no state; the device id and the header's time, which    *)
(* decode_event() copies and adds, are left out.  Numbers of 48 bits are   *)
(* beyond TLC, so what these functions promise is proved, in               *)
(* EventDecoderProofs, not checked on an instance.  The powers of          *)
(* two are written out, for the provers.                                   *)
(***************************************************************************)
EXTENDS PacketIO, Integers

\* The values of an unsigned number with n of them.
Below(n) == {k \in Nat : k < n}

Word == Below(65536)

\* to_48bit_value() and from_48bit_value().
Value48 == Below(281474976710656)

To48bit(w) == w[1] + 65536 * w[2] + 4294967296 * w[3]

From48bit(v) == << v % 65536, (v \div 65536) % 65536, (v \div 4294967296) % 65536 >>
-----------------------------------------------------------------------------
(* Events in a packet.                                                     *)

\* get_event_count().
EventCount(rp) == DataLength(rp) \div 3

\* The indices of the data words of event number n; get_event() throws if the
\* last one is not below the data length.
EventWords(n) == 3 * n .. 3 * n + 2

\* The data words that the source delivered.
DeliveredWords(rp) == 0 .. (rp.bytes - 2 * DataPacketHeaderWords) \div 2 - 1
-----------------------------------------------------------------------------
(* decode_event().  A field is what is left of the shift, modulo its size. *)

Field(event, shift, size) == (event \div shift) % size

Timestamp(event) == event % 524288                           \* 19 bits at 0

TypeBit(event) == Field(event, 140737488355328, 2)           \* 1 bit at 47

NeutronFields(event) ==
    [mpsdId |-> Field(event, 17592186044416, 8),             \* 3 bits at 44
     channel |-> Field(event, 549755813888, 32),             \* 5 bits at 39
     amplitude |-> Field(event, 536870912, 1024),            \* 10 bits at 29
     position |-> Field(event, 524288, 1024)]                \* 10 bits at 19

TriggerFields(event) ==
    [triggerId |-> Field(event, 17592186044416, 8),          \* 3 bits at 44
     dataId |-> Field(event, 1099511627776, 16),             \* 4 bits at 40
     value |-> Field(event, 524288, 2097152)]                \* 21 bits at 19

MdllFields(event) ==
    [amplitude |-> Field(event, 549755813888, 256),          \* 8 bits at 39
     xPos |-> Field(event, 524288, 1024),                    \* 10 bits at 19
     yPos |-> Field(event, 536870912, 1024)]                 \* 10 bits at 29

\* The outer packet tells the two kinds of neutron apart.
EventType(event, isMdll) ==
    IF TypeBit(event) = 1 THEN "Trigger" ELSE IF isMdll THEN "MdllNeutron" ELSE "Neutron"

Fields(event, isMdll) ==
    CASE EventType(event, isMdll) = "Neutron" -> NeutronFields(event)
      [] EventType(event, isMdll) = "Trigger" -> TriggerFields(event)
      [] EventType(event, isMdll) = "MdllNeutron" -> MdllFields(event)

DecodeEvent(event, isMdll) ==
    [type |-> EventType(event, isMdll), fields |-> Fields(event, isMdll),
     time |-> Timestamp(event)]
-----------------------------------------------------------------------------
(* Bins of the histograms, as indices into their vectors.                  *)

MpsdCount == 8
ChannelCount == 32
Bins == 1024
MdllAmplitudeBins == 256

\* McpdHistograms::index().
Index(mpsdId, channel, bin) == (mpsdId * ChannelCount + channel) * Bins + bin

\* The bins that fill() increments for a neutron event of an MCPD and of an MDLL.
McpdBins(event) ==
    LET f == NeutronFields(event)
    IN  [amplitude |-> Index(f.mpsdId, f.channel, f.amplitude),
         position |-> Index(f.mpsdId, f.channel, f.position)]

MdllBins(event) ==
    LET f == MdllFields(event)
    IN  [amplitude |-> f.amplitude, x |-> f.xPos, y |-> f.yPos, xy |-> f.yPos * Bins + f.xPos]
=============================================================================
