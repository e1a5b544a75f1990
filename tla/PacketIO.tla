------------------------------ MODULE PacketIO ------------------------------
(***************************************************************************)
(* The packets of src/mesytec-mcpd/packet_io.h, reduced to the fields the  *)
(* readout decides on: the length words of the header and the number of    *)
(* bytes the source delivered.  The payload is a tag that tells two        *)
(* packets apart.                                                          *)
(***************************************************************************)
EXTENDS Naturals

DataPacketHeaderWords == 21
DataPacketMaxDataWords == 715

\* sizeof(DataPacket): 16 bit header words followed by the data array.
DataPacketBytes == 2 * (DataPacketHeaderWords + DataPacketMaxDataWords)

\* get_data_length() of a packet whose header fits its buffer.
DataLength(rp) == rp.bufferLength - rp.headerLength

\* is_valid_data_packet(): the length fields against the bytes delivered.
IsValidDataPacket(rp) ==
    /\ rp.bytes >= 2 * DataPacketHeaderWords
    /\ 2 * rp.bufferLength <= rp.bytes
    /\ rp.headerLength <= rp.bufferLength
    /\ DataLength(rp) <= DataPacketMaxDataWords

\* Mutation: read() does not set the byte count.
FromListfileWithoutBytes(rp) == [rp EXCEPT !.bytes = 0]

\* What ListfilePacketSource::read() hands out for a packet that the writer
\* stored: records have one size, so the byte count of the datagram is gone.
FromListfile(rp) == [rp EXCEPT !.bytes = DataPacketBytes]
=============================================================================
