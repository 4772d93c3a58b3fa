----------------------------- MODULE DnsFormat -----------------------------
(***************************************************************************)
(* What both Lambdas take for granted about the bytes of a DNS response.   *)
(* Offsets count from 0.  The sizes are those of the protocol when a       *)
(* number has two bytes (Width = 2) and an address four; the model checker *)
(* works with shorter numbers and addresses.                               *)
(***************************************************************************)
EXTENDS Integers, Sequences

CONSTANTS
    Messages,       \* the datagrams that may arrive
    Width,          \* the bytes of a 16-bit number
    AddressSize,    \* the bytes of an address
    QueryId         \* the id of the query

Octet == 0..255

ASSUME MessagesAssumption == Messages \subseteq Seq(Octet)
ASSUME SizesAssumption == Width \in {1, 2} /\ AddressSize \in Nat

VARIABLE message    \* the datagram recvfrom returned

Size == Len(message)
Byte(o) == message[o + 1]
Number(o) == IF Width = 1 THEN Byte(o) ELSE 256 * Byte(o) + Byte(o + 1)

HeaderSize   == 6 * Width
QuestionSize == 2 * Width
RecordSize   == 5 * Width

HeaderIsFine == Size >= HeaderSize /\ Number(0) = QueryId
Rcode     == Number(Width) % 16
Questions == Number(2 * Width)
Entries   == Questions + Number(3 * Width)

\* A name is a run of labels up to a zero or a pointer.
IsPointer(o) == Byte(o) >= 192
EndsName(o)  == Byte(o) = 0 \/ IsPointer(o)
AfterName(o) == IF IsPointer(o) THEN o + 2 ELSE o + 1
AfterLabel(o) == o + 1 + Byte(o)

\* The record whose type, class, time to live and length start at o.
DataOf(o)      == o + RecordSize
AfterRecord(o) == DataOf(o) + Number(o + 4 * Width)
IsOfType(t, o) == Number(o) = t /\ Number(o + Width) = 1
IsAddress(o)   == IsOfType(1, o) /\ Number(o + 4 * Width) = AddressSize
AddressOf(o)   == SubSeq(message, DataOf(o) + 1, AfterRecord(o))
=============================================================================
