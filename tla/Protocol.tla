------------------------------ MODULE Protocol ------------------------------
(***************************************************************************)
(* The wire protocol (protocol.go, binary_data.go).                        *)
(*                                                                         *)
(* A message on the wire is a sequence: a header of one item per field     *)
(* (16 bytes in the code) and the bytes of the payload.  Decoding yields   *)
(* the message as <<m>>, or <<>> for any of its errors.  ChecksumIEEE is   *)
(* taken to tell all payloads apart: it is the payload itself.             *)
(***************************************************************************)
EXTENDS Integers, Sequences

CONSTANTS
    MaximumPayloadSize,     \* 8 KiB in the code
    LastSensorType          \* the highest known id of a sensor type

ASSUME ProtocolAssumption == MaximumPayloadSize \in Nat /\ LastSensorType \in 0..254

MessageMagic == "magic"
MessageTypeSensorData == 1
MessageHeaderSize == 5
SensorRecordSize == 4
SENSOR_ID_UNKNOWN == 0

ToSensorType(id) == IF id > LastSensorType THEN SENSOR_ID_UNKNOWN ELSE id

(* Three bytes, the lowest first, in two's complement.                     *)
ReadInt24(b) ==
    LET unsigned == b[1] + 256 * b[2] + 65536 * b[3]
    IN IF unsigned < 8388608 THEN unsigned ELSE unsigned - 16777216

ChecksumIEEE(payload) == payload

DecodeHeader(data) ==
    LET header == [Magic |-> data[1], Type |-> data[2], PayloadLength |-> data[3],
                   MAC |-> data[4], Checksum |-> data[5]]
    IN IF header.Magic # MessageMagic \/ header.PayloadLength > MaximumPayloadSize
       THEN <<>> ELSE <<header>>

Record(payload, i) ==
    LET at == SensorRecordSize * (i - 1) IN
    [SensorType |-> ToSensorType(payload[at + 1]), Value |-> ReadInt24(SubSeq(payload, at + 2, at + 4))]

DecodeMessage(header, payload) ==
    IF \/ Len(payload) # header.PayloadLength
       \/ header.Type # MessageTypeSensorData
       \/ header.PayloadLength % SensorRecordSize # 0
       \/ ChecksumIEEE(payload) # header.Checksum
    THEN <<>>
    ELSE <<[MAC |-> header.MAC, Sensors |-> [i \in 1..(Len(payload) \div SensorRecordSize) |-> Record(payload, i)]]>>

DecodeDatagram(datagram) ==
    IF Len(datagram) < MessageHeaderSize THEN <<>> ELSE
    LET header == DecodeHeader(SubSeq(datagram, 1, MessageHeaderSize))
        payload == SubSeq(datagram, MessageHeaderSize + 1, Len(datagram))
    IN IF header = <<>> \/ Len(payload) # header[1].PayloadLength
       THEN <<>> ELSE DecodeMessage(header[1], payload)

(* The wire message as <<w>>, or <<>> for an error.                        *)
EncodeMessage(messageType, mac, payload) ==
    IF \/ Len(payload) > MaximumPayloadSize
       \/ messageType # MessageTypeSensorData
       \/ Len(payload) % SensorRecordSize # 0
    THEN <<>>
    ELSE <<<<MessageMagic, messageType, Len(payload), mac, ChecksumIEEE(payload)>> \o payload>>
=============================================================================
