------------------------------- MODULE Codec --------------------------------
(***************************************************************************)
(* Requests and responses as datagrams (Message.h, and the Java client's   *)
(* own packing).  A datagram is a sequence of bytes, numbers go first byte *)
(* first, and a negative number goes as its two's complement; a byte has   *)
(* Base values.  An optional field is a sequence of no or one value.       *)
(***************************************************************************)
EXTENDS Integers, Sequences

CONSTANTS
  Base,         \* values of a byte (256)
  BufferSize    \* room for a datagram, at the server and at a client (1024)

ASSUME CodecAssumption ==
  /\ Base \in Nat /\ Base % 2 = 0 /\ Base > 6
  /\ BufferSize \in Nat /\ BufferSize >= 15

Byte == 0..(Base - 1)

QUERY == 1
BOOK == 2
CHANGE == 3
MONITOR == 4
EXTEND == 5
CANCEL == 6

-----------------------------------------------------------------------------
(* Numbers.                                                                *)

(* How many values a number of so many bytes has.                          *)
Power[size \in 0..4] == IF size = 0 THEN 1 ELSE Base * Power[size - 1]

Put(size, v) == [i \in 1..size |-> (v \div Power[size - i]) % Base]

Unsigned(bytes) ==
  LET value[i \in 0..Len(bytes)] == IF i = 0 THEN 0 ELSE value[i - 1] * Base + bytes[i]
  IN  value[Len(bytes)]

Signed(bytes) ==
  IF bytes[1] < Base \div 2 THEN Unsigned(bytes)
  ELSE Unsigned(bytes) - Power[Len(bytes)]

(* The size bytes that follow the first offset ones.                       *)
Bytes(buffer, offset, size) == SubSeq(buffer, offset + 1, offset + size)

(* What a receive leaves of a datagram.                                    *)
Received(bytes) == SubSeq(bytes, 1, IF Len(bytes) < BufferSize THEN Len(bytes) ELSE BufferSize)

-----------------------------------------------------------------------------
(* Requests.                                                               *)

Optional(S) == {field \in Seq(S) : Len(field) <= 1}

(* RequestMessage: minutes fill four bytes, the other numbers are cut when *)
(* they are packed; an operation has no fields but its own.                *)
Request ==
  {r \in [requestId       : Nat,
          operation       : QUERY..CANCEL,
          facilityName    : Seq(Byte),
          day             : Int,
          startTime       : Int,
          endTime         : Int,
          bookingId       : Optional(Int),
          offsetMinutes   : Optional((-(Power[4] \div 2))..(Power[4] \div 2 - 1)),
          monitorInterval : Optional(Int)] :
     /\ r.operation \notin {CHANGE, EXTEND, CANCEL} => r.bookingId = << >>
     /\ r.operation \notin {CHANGE, EXTEND} => r.offsetMinutes = << >>
     /\ r.operation # MONITOR => r.monitorInterval = << >>}

Fields(r) ==
  Put(4, r.requestId) \o Put(1, r.operation)
    \o Put(2, Len(r.facilityName)) \o r.facilityName
    \o Put(1, r.day) \o Put(2, r.startTime) \o Put(2, r.endTime)

(* RequestMessage::marshal: an extra field that is not there is left out.  *)
Marshal(r) ==
  Fields(r) \o
    CASE r.operation = CANCEL /\ r.bookingId # << >> -> Put(4, r.bookingId[1])
      [] r.operation \in {CHANGE, EXTEND} /\ r.bookingId # << >> /\ r.offsetMinutes # << >> ->
           Put(4, r.bookingId[1]) \o Put(4, r.offsetMinutes[1])
      [] r.operation = MONITOR /\ r.monitorInterval # << >> -> Put(4, r.monitorInterval[1])
      [] OTHER -> << >>

(* The client's one variable for the interval, the minutes or the ID.      *)
ExtraField(r) ==
  CASE r.operation \in {CHANGE, EXTEND} -> r.offsetMinutes[1]
    [] r.operation = MONITOR -> r.monitorInterval[1]
    [] r.operation = CANCEL -> r.bookingId[1]

(* The client's packing, of a request with the fields its menu asks for.   *)
ClientMarshal(r) ==
  Fields(r) \o
    CASE r.operation \in {CHANGE, EXTEND} -> Put(4, r.bookingId[1]) \o Put(4, ExtraField(r))
      [] r.operation \in {MONITOR, CANCEL} -> Put(4, ExtraField(r))
      [] OTHER -> << >>

NameLength(buffer) == Unsigned(Bytes(buffer, 5, 2))

(* Mutant: <= where the code has <.                                        *)
Readable_Strict(buffer) == Len(buffer) > 15 /\ 7 + NameLength(buffer) <= Len(buffer)

(* The checks whose failure throws.  The first lets 15 bytes pass, where a *)
(* request without a name has 12.                                          *)
Readable(buffer) == Len(buffer) >= 15 /\ 7 + NameLength(buffer) <= Len(buffer)

(* Mutant: the two extra fields read in the other order.                   *)
Unmarshal_Swapped(buffer, junk) ==
  LET named  == 7 + NameLength(buffer)
      memory == buffer \o junk
      op     == buffer[5]
      Fits(size) == named + 5 + size <= Len(buffer)
      two    == op \in {CHANGE, EXTEND} /\ Fits(8)
  IN  [requestId       |-> Unsigned(Bytes(buffer, 0, 4)),
       operation       |-> op,
       facilityName    |-> Bytes(buffer, 7, NameLength(buffer)),
       day             |-> Unsigned(Bytes(memory, named, 1)),
       startTime       |-> Unsigned(Bytes(memory, named + 1, 2)),
       endTime         |-> Unsigned(Bytes(memory, named + 3, 2)),
       bookingId       |-> IF two THEN <<Unsigned(Bytes(buffer, named + 9, 4))>>
                           ELSE IF op = CANCEL /\ Fits(4)
                           THEN <<Unsigned(Bytes(buffer, named + 5, 4))>> ELSE << >>,
       offsetMinutes   |-> IF two THEN <<Signed(Bytes(buffer, named + 5, 4))>> ELSE << >>,
       monitorInterval |-> IF op = MONITOR /\ Fits(4)
                           THEN <<Unsigned(Bytes(buffer, named + 5, 4))>> ELSE << >>]

(* RequestMessage::unmarshal of a readable buffer.  Day and times are read *)
(* unchecked: behind the end of the buffer is junk.                        *)
Unmarshal(buffer, junk) ==
  LET named  == 7 + NameLength(buffer)
      memory == buffer \o junk
      op     == buffer[5]
      Fits(size) == named + 5 + size <= Len(buffer)
      one    == op \in {CANCEL, MONITOR} /\ Fits(4)
      two    == op \in {CHANGE, EXTEND} /\ Fits(8)
      extra  == Bytes(buffer, named + 5, 4)
  IN  [requestId       |-> Unsigned(Bytes(buffer, 0, 4)),
       operation       |-> op,
       facilityName    |-> Bytes(buffer, 7, NameLength(buffer)),
       day             |-> Unsigned(Bytes(memory, named, 1)),
       startTime       |-> Unsigned(Bytes(memory, named + 1, 2)),
       endTime         |-> Unsigned(Bytes(memory, named + 3, 2)),
       bookingId       |-> IF two \/ (one /\ op = CANCEL) THEN <<Unsigned(extra)>> ELSE << >>,
       offsetMinutes   |-> IF two THEN <<Signed(Bytes(buffer, named + 9, 4))>> ELSE << >>,
       monitorInterval |-> IF one /\ op = MONITOR THEN <<Unsigned(extra)>> ELSE << >>]

-----------------------------------------------------------------------------
(* Responses.                                                              *)

(* Mutant: the length is that of the datagram.                             *)
MarshalResponse_Whole(r) ==
  Put(4, r.requestId) \o Put(1, r.status) \o Put(2, 7 + Len(r.message)) \o r.message

(* ResponseMessage::marshal.                                               *)
MarshalResponse(r) ==
  Put(4, r.requestId) \o Put(1, r.status) \o Put(2, Len(r.message)) \o r.message

(* What ResponseMessage::unmarshal and the client check, or trip over: the *)
(* client takes the length for a signed number.                            *)
ReadableResponse(buffer, length) ==
  Len(buffer) >= 7 /\ length >= 0 /\ 7 + length <= Len(buffer)

UnmarshalResponse(buffer) ==
  [requestId |-> Unsigned(Bytes(buffer, 0, 4)),
   status    |-> buffer[5],
   message   |-> Bytes(buffer, 7, Unsigned(Bytes(buffer, 5, 2)))]
=============================================================================
