-------------------------------- MODULE Scatter --------------------------------
(***************************************************************************)
(* The frames of a transfer (buffer/scatter.rs), as operators on the state *)
(* of a Scatter, and the data lengths that CAN frames can have             *)
(* (emcyphal-driver/frame.rs). The payload of a frame is given by the      *)
(* interval of the transfer's data, the number of padding bytes and the    *)
(* interval of the CRC that it has, in this order.                         *)
(***************************************************************************)
EXTENDS Integers, Sequences, FiniteSetsExt

CONSTANT NoPart     (* no payload, or no frame at all                       *)

CrcLength  == 2
TailLength == 1

MtuLength == [Classic |-> 8, Fd |-> 64]

CeilTo(step, value) == ((value + step - 1) \div step) * step

NewCeil(value) ==
    IF value < 8 THEN value
    ELSE IF value < 24 THEN CeilTo(4, value)
    ELSE IF value < 32 THEN CeilTo(8, value)
    ELSE IF value <= 64 THEN CeilTo(16, value)
    ELSE 0  \* None

NewFloor(value) ==
    IF value < 8 THEN value
    ELSE IF value < 24 THEN (value \div 4) * 4
    ELSE IF value < 32 THEN (value \div 8) * 8
    ELSE IF value < 64 THEN (value \div 16) * 16
    ELSE 64

\* DataLength::new and Data::new: the lengths there are.
IsDataLength(value) == NewFloor(value) = value

\* The code of a data length, and what is read from it: classic frames end at 8.
LongLengths == << 12, 16, 20, 24, 32, 48, 64 >>

MakeDlc(length) ==
    IF length <= 8 THEN length
    ELSE 8 + CHOOSE i \in DOMAIN LongLengths : LongLengths[i] = length

ToDataLength(dlc, fd) ==
    IF dlc <= 8 THEN dlc ELSE IF fd THEN LongLengths[dlc - 8] ELSE 8

-----------------------------------------------------------------------------
NewScatter(transfer_id, data_length) ==
    [transfer_id |-> transfer_id, data_length |-> data_length, offset |-> 0,
     toggle |-> TRUE]

IsExhausted(s) == s.offset = s.data_length + CrcLength

Residual(s) == s.data_length + CrcLength - s.offset

\* What the CRC covers besides the data is crc_pad bytes of padding.
Payload(from, to, pad, crc, crc_pad) ==
    [from |-> from, to |-> to, pad |-> pad, crc |-> crc, crc_pad |-> crc_pad]

\* Mutant: the padding is taken from behind the data in the buffer.
MutantSinglePayload(s, length) ==
    IF length = 0 THEN NoPart ELSE Payload(0, length, 0, {}, 0)

SinglePayload(s, length) ==
    IF length = 0 THEN NoPart
    ELSE Payload(0, s.data_length, length - s.data_length, {}, 0)

\* Data first, then as much of the CRC as fits.
FullSegment(s, length) ==
    Payload(Min({s.offset, s.data_length}), Min({s.offset + length, s.data_length}), 0,
            {i \in 0 .. CrcLength - 1 :
                s.data_length + i \in s.offset .. s.offset + length - 1}, 0)

\* Mutant: the CRC does not cover the padding.
MutantPaddedSegment(s, length) ==
    Payload(s.offset, s.data_length, length - Residual(s), 0 .. CrcLength - 1, 0)

\* The rest of the data, padding, and a CRC that covers both.
PaddedSegment(s, length) ==
    Payload(s.offset, s.data_length, length - Residual(s), 0 .. CrcLength - 1,
            length - Residual(s))

Data(s, length, sot, eot, part) ==
    [length |-> length, sot |-> sot, eot |-> eot, toggle |-> s.toggle,
     transfer_id |-> s.transfer_id, part |-> part]

\* What fetch_frame_data returns, and the Scatter it leaves; panicked is an
\* assertion that fails.
Returned(s, data, panicked) == [scatter |-> s, data |-> data, panicked |-> panicked]

FetchSingleFrame(s) ==
    LET length == NewCeil(s.data_length + TailLength)
    IN  Returned([s EXCEPT !.offset = s.data_length + CrcLength],
                Data(s, length, TRUE, TRUE, SinglePayload(s, length - TailLength)),
                FALSE)

\* Padding can only be put in before the first byte of the CRC is sent.
FetchNextFrame(s, max_payload_length) ==
    LET length  == NewCeil(Min({Residual(s), max_payload_length}) + TailLength)
        payload == length - TailLength
        padded  == Residual(s) < payload
        end     == s.offset + Min({payload, Residual(s)})
    IN  Returned([s EXCEPT !.offset = end, !.toggle = ~ @],
                Data(s, length, s.offset = 0, end = s.data_length + CrcLength,
                     IF padded THEN PaddedSegment(s, payload)
                               ELSE FullSegment(s, payload)),
                padded /\ (s.offset > s.data_length \/ payload < CrcLength))

FetchFrameData(s, mtu) ==
    LET max_payload_length == MtuLength[mtu] - TailLength
    IN  IF s.offset = 0 /\ s.data_length <= max_payload_length
        THEN FetchSingleFrame(s)
        ELSE IF Residual(s) = 0 THEN Returned(s, NoPart, FALSE)
        ELSE FetchNextFrame(s, max_payload_length)

-----------------------------------------------------------------------------
\* The CRC of a sequence of payloads is right if they are all of one transfer and
\* have its data, the padding and the CRC of both without a gap: what else has the
\* right CRC by chance is left out.
CrcMatches(parts) ==
    LET part == [i \in DOMAIN parts |-> parts[i].part]
        last == part[Len(parts)]
    IN  /\ \A i \in DOMAIN parts : parts[i].of = parts[1].of
        /\ part[1].from = 0 /\ last.to = parts[1].data_length
        /\ \A i \in DOMAIN parts \ {1} :
                /\ part[i].from = part[i - 1].to
                /\ part[i - 1].pad = 0
        /\ UNION {part[i].crc : i \in DOMAIN parts} = 0 .. CrcLength - 1
        /\ \A i, j \in DOMAIN parts : i < j =>
                \A b \in part[i].crc, c \in part[j].crc : b < c
        /\ last.crc_pad = last.pad

=============================================================================
