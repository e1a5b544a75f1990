------------------------- MODULE EventDecoderProofs -------------------------
(***************************************************************************)
(* What the functions of EventDecoder promise, for every packet and every  *)
(* value of 48 bits.                                                       *)
(***************************************************************************)
EXTENDS EventDecoder, TLAPS

\* Conversion to 48 bits and back loses nothing, in both directions:
\* to_48bit_value() and from_48bit_value() of mcpd_core.h.
THEOREM ValuesRoundTrip ==
    /\ \A a, b, c \in Word : /\ To48bit(<<a, b, c>>) \in Value48
                             /\ From48bit(To48bit(<<a, b, c>>)) = <<a, b, c>>
    /\ \A v \in Value48 : /\ From48bit(v) \in Word \X Word \X Word
                          /\ To48bit(From48bit(v)) = v
<1>1. ASSUME NEW a \in Word, NEW b \in Word, NEW c \in Word
      PROVE  /\ To48bit(<<a, b, c>>) \in Value48
             /\ From48bit(To48bit(<<a, b, c>>)) = <<a, b, c>>
  <2> DEFINE v == a + 65536 * b + 4294967296 * c
  <2>1. v \in Value48
    BY SMT DEF Word, Below, Value48
  <2>2. v % 65536 = a /\ (v \div 65536) % 65536 = b /\ (v \div 4294967296) % 65536 = c
    BY SMTT(30) DEF Word, Below
  <2>3. To48bit(<<a, b, c>>) = v
    BY SMT DEF To48bit
  <2> HIDE DEF v
  <2> QED BY SMT, <2>1, <2>2, <2>3 DEF From48bit
<1>2. ASSUME NEW v \in Value48
      PROVE  /\ From48bit(v) \in Word \X Word \X Word
             /\ To48bit(From48bit(v)) = v
  <2>1. /\ v % 65536 \in Word /\ (v \div 65536) % 65536 \in Word
        /\ (v \div 4294967296) % 65536 \in Word
    BY SMT DEF Value48, Below, Word
  <2>2. (v % 65536) + 65536 * ((v \div 65536) % 65536) + 4294967296 * ((v \div 4294967296) % 65536) = v
    BY SMTT(30) DEF Value48, Below
  <2> QED BY SMT, <2>1, <2>2 DEF From48bit, To48bit
<1> QED BY SMT, <1>1, <1>2

\* No event of a valid packet is outside of the packet, and get_event() does not
\* throw for it; if the header has its usual length, every word was delivered:
\* is_valid_data_packet() of packet_io.cc and get_event() of mcpd_core.h.
THEOREM EventsAreInPacket ==
    ASSUME NEW rp \in [bytes : Nat, bufferLength : Word, headerLength : Word],
           rp.bytes <= DataPacketBytes, IsValidDataPacket(rp),
           NEW n \in Nat, n < EventCount(rp)
    PROVE  /\ EventWords(n) \subseteq 0 .. DataLength(rp) - 1
           /\ EventWords(n) \subseteq 0 .. DataPacketMaxDataWords - 1
           /\ rp.headerLength >= DataPacketHeaderWords => EventWords(n) \subseteq DeliveredWords(rp)
<1>1. /\ rp.bytes \in Nat /\ rp.bufferLength \in Nat /\ rp.headerLength \in Nat
      /\ rp.bytes >= 42 /\ 2 * rp.bufferLength <= rp.bytes
      /\ rp.headerLength <= rp.bufferLength
      /\ DataLength(rp) = rp.bufferLength - rp.headerLength
      /\ DataLength(rp) <= 715
  BY SMT DEF IsValidDataPacket, DataLength, Word, Below, DataPacketBytes, DataPacketHeaderWords,
         DataPacketMaxDataWords
<1>2. DataLength(rp) \in Nat
  BY SMT, <1>1
<1>3. 3 * n + 2 < DataLength(rp)
  BY SMT, <1>2 DEF EventCount
<1>4. EventWords(n) \subseteq 0 .. DataLength(rp) - 1
  BY SMT, <1>2, <1>3 DEF EventWords
<1>5. EventWords(n) \subseteq 0 .. DataPacketMaxDataWords - 1
  BY SMT, <1>1, <1>2, <1>3 DEF EventWords, DataPacketMaxDataWords
<1>6. ASSUME rp.headerLength >= DataPacketHeaderWords
      PROVE  EventWords(n) \subseteq DeliveredWords(rp)
  <2>1. DataLength(rp) <= (rp.bytes - 42) \div 2
    BY SMT, <1>1, <1>6 DEF DataPacketHeaderWords
  <2> QED BY SMT, <1>1, <1>2, <1>3, <2>1 DEF EventWords, DeliveredWords, DataPacketHeaderWords
<1> QED BY SMT, <1>4, <1>5, <1>6
-----------------------------------------------------------------------------
\* Every value fits the C++ type of its field in DecodedEvent (mcpd_core.h).
THEOREM FieldsFitTheirTypes ==
    ASSUME NEW event \in Value48
    PROVE  /\ NeutronFields(event) \in [mpsdId : Below(8), channel : Below(32),
                                        amplitude : Below(1024), position : Below(1024)]
           /\ TriggerFields(event) \in [triggerId : Below(8), dataId : Below(16), value : Below(2097152)]
           /\ MdllFields(event) \in [amplitude : Below(256), xPos : Below(1024), yPos : Below(1024)]
           /\ TypeBit(event) \in Below(2)
           /\ Timestamp(event) \in Below(524288)
<1>1. NeutronFields(event) \in [mpsdId : Below(8), channel : Below(32),
                                amplitude : Below(1024), position : Below(1024)]
  BY SMT DEF Value48, Below, Field, NeutronFields
<1>2. TriggerFields(event) \in [triggerId : Below(8), dataId : Below(16), value : Below(2097152)]
  BY SMT DEF Value48, Below, Field, TriggerFields
<1>3. MdllFields(event) \in [amplitude : Below(256), xPos : Below(1024), yPos : Below(1024)]
  BY SMT DEF Value48, Below, Field, MdllFields
<1>4. TypeBit(event) \in Below(2) /\ Timestamp(event) \in Below(524288)
  BY SMT DEF Value48, Below, Field, TypeBit, Timestamp
<1> QED BY SMT, <1>1, <1>2, <1>3, <1>4

\* An event is the sum of its fields at their places, for each of the layouts.
LEMMA NeutronIsItsFields ==
    ASSUME NEW event \in Value48
    PROVE  event = TypeBit(event) * 140737488355328
                   + NeutronFields(event).mpsdId * 17592186044416
                   + NeutronFields(event).channel * 549755813888
                   + NeutronFields(event).amplitude * 536870912
                   + NeutronFields(event).position * 524288
                   + Timestamp(event)
<1> DEFINE q1 == event \div 524288
           q2 == event \div 536870912
           q3 == event \div 549755813888
           q4 == event \div 17592186044416
           position == NeutronFields(event).position
           amplitude == NeutronFields(event).amplitude
           channel == NeutronFields(event).channel
           mpsdId == NeutronFields(event).mpsdId
           type == TypeBit(event)
           timestamp == Timestamp(event)
<1>1. event \in Nat /\ event < 281474976710656
  BY SMT DEF Value48, Below
<1>2. timestamp \in Nat /\ event = q1 * 524288 + timestamp
  BY SMT, <1>1 DEF Field, Timestamp
<1>3. q1 \in Nat /\ position \in Nat /\ q1 = q2 * 1024 + position
  BY SMT, <1>1 DEF Field, NeutronFields
<1>4. q2 \in Nat /\ amplitude \in Nat /\ q2 = q3 * 1024 + amplitude
  BY SMT, <1>1 DEF Field, NeutronFields
<1>5. q3 \in Nat /\ channel \in Nat /\ q3 = q4 * 32 + channel
  BY SMT, <1>1 DEF Field, NeutronFields
<1>6. q4 \in Nat /\ mpsdId \in Nat /\ type \in Nat /\ q4 = type * 8 + mpsdId
  BY SMT, <1>1 DEF Field, NeutronFields, TypeBit
<1> HIDE DEF q1, q2, q3, q4, position, amplitude, channel, mpsdId, type, timestamp
<1>7. event = type * 140737488355328 + mpsdId * 17592186044416 + channel * 549755813888
              + amplitude * 536870912 + position * 524288 + timestamp
  BY SMT, <1>1, <1>2, <1>3, <1>4, <1>5, <1>6
<1> QED BY SMT, <1>7 DEF position, amplitude, channel, mpsdId, type, timestamp

LEMMA TriggerIsItsFields ==
    ASSUME NEW event \in Value48
    PROVE  event = TypeBit(event) * 140737488355328
                   + TriggerFields(event).triggerId * 17592186044416
                   + TriggerFields(event).dataId * 1099511627776
                   + TriggerFields(event).value * 524288
                   + Timestamp(event)
BY SMTT(60) DEF Value48, Below, Field, TypeBit, TriggerFields, Timestamp

LEMMA MdllIsItsFields ==
    ASSUME NEW event \in Value48
    PROVE  event = TypeBit(event) * 140737488355328
                   + MdllFields(event).amplitude * 549755813888
                   + MdllFields(event).yPos * 536870912
                   + MdllFields(event).xPos * 524288
                   + Timestamp(event)
BY SMTT(60) DEF Value48, Below, Field, TypeBit, MdllFields, Timestamp

\* Decoding loses nothing: in packets of one kind, two events with the same type,
\* fields and time are the same 48 bits, so no two fields of decode_event() overlap
\* and no bit is left out.
THEOREM DecodingIsLossless ==
    ASSUME NEW e1 \in Value48, NEW e2 \in Value48, NEW isMdll \in BOOLEAN,
           DecodeEvent(e1, isMdll) = DecodeEvent(e2, isMdll)
    PROVE  e1 = e2
<1>1. /\ EventType(e1, isMdll) = EventType(e2, isMdll)
      /\ Timestamp(e1) = Timestamp(e2)
      /\ Fields(e1, isMdll) = Fields(e2, isMdll)
  BY SMT DEF DecodeEvent
<1>2. TypeBit(e1) = TypeBit(e2)
  <2>1. TypeBit(e1) \in {0, 1} /\ TypeBit(e2) \in {0, 1}
    BY SMT, FieldsFitTheirTypes DEF Below
  <2> QED BY SMT, <1>1, <2>1 DEF EventType
<1>3. CASE EventType(e1, isMdll) = "Neutron"
  <2>1. NeutronFields(e1) = NeutronFields(e2)
    BY SMT, <1>1, <1>3 DEF Fields
  <2> QED BY SMT, <1>1, <1>2, <2>1, NeutronIsItsFields
<1>4. CASE EventType(e1, isMdll) = "Trigger"
  <2>1. TriggerFields(e1) = TriggerFields(e2)
    BY SMT, <1>1, <1>4 DEF Fields
  <2> QED BY SMT, <1>1, <1>2, <2>1, TriggerIsItsFields
<1>5. CASE EventType(e1, isMdll) = "MdllNeutron"
  <2>1. MdllFields(e1) = MdllFields(e2)
    BY SMT, <1>1, <1>5 DEF Fields
  <2> QED BY SMT, <1>1, <1>2, <2>1, MdllIsItsFields
<1> QED BY SMT, <1>3, <1>4, <1>5 DEF EventType
-----------------------------------------------------------------------------
\* Every bin that fill() increments is inside its histogram, whatever the device
\* sends: the vectors of McpdHistograms and MdllHistograms.
THEOREM BinsAreInRange ==
    ASSUME NEW event \in Value48
    PROVE  /\ McpdBins(event) \in [amplitude : Below(MpsdCount * ChannelCount * Bins),
                                   position : Below(MpsdCount * ChannelCount * Bins)]
           /\ MdllBins(event) \in [amplitude : Below(MdllAmplitudeBins), x : Below(Bins),
                                   y : Below(Bins), xy : Below(Bins * Bins)]
<1> DEFINE f == NeutronFields(event)
           g == MdllFields(event)
<1>1. /\ f.mpsdId \in Below(8) /\ f.channel \in Below(32)
      /\ f.amplitude \in Below(1024) /\ f.position \in Below(1024)
  BY SMT, FieldsFitTheirTypes
<1>2. g.amplitude \in Below(256) /\ g.xPos \in Below(1024) /\ g.yPos \in Below(1024)
  BY SMT, FieldsFitTheirTypes
<1> HIDE DEF f, g
<1>3. \A m \in Below(8), c \in Below(32), b \in Below(1024) :
        Index(m, c, b) \in Below(MpsdCount * ChannelCount * Bins)
  BY SMT DEF Index, MpsdCount, ChannelCount, Bins, Below
<1>4. McpdBins(event) = [amplitude |-> Index(f.mpsdId, f.channel, f.amplitude),
                         position |-> Index(f.mpsdId, f.channel, f.position)]
  BY SMT DEF McpdBins, f
<1>5. MdllBins(event) = [amplitude |-> g.amplitude, x |-> g.xPos, y |-> g.yPos,
                         xy |-> g.yPos * Bins + g.xPos]
  BY SMT DEF MdllBins, g
<1>6. g.yPos * Bins + g.xPos \in Below(Bins * Bins)
  BY SMT, <1>2 DEF Bins, Below
<1> QED BY SMT, <1>1, <1>2, <1>3, <1>4, <1>5, <1>6 DEF Bins, MdllAmplitudeBins

\* No two channels share a bin, and no two places of an MDLL: McpdHistograms::index()
\* and the xy histogram.
THEOREM BinsAreDistinct ==
    /\ \A m1, m2 \in Below(8), c1, c2 \in Below(32), b1, b2 \in Below(1024) :
         Index(m1, c1, b1) = Index(m2, c2, b2) => m1 = m2 /\ c1 = c2 /\ b1 = b2
    /\ \A x1, x2, y1, y2 \in Below(1024) :
         y1 * Bins + x1 = y2 * Bins + x2 => x1 = x2 /\ y1 = y2
BY SMTT(30) DEF Index, ChannelCount, Bins, Below
=============================================================================
