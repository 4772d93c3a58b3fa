------------------------- MODULE DnsMessage_proofs --------------------------
(***************************************************************************)
(* Proofs about the two DNS parsers, for every message, of any length and  *)
(* content, and every bound on the pointers.                               *)
(***************************************************************************)
EXTENDS DnsMessage, WellFoundedInduction, TLAPS

(***************************************************************************)
(* Facts about the format.                                                 *)
(***************************************************************************)

LEMMA OctetIsNat == \A b \in Octet : b \in Nat /\ b % 64 \in Nat
  BY DEF Octet

LEMMA ByteIs ==
  ASSUME message \in Seq(Octet), NEW o \in Nat, o < Size
  PROVE  Byte(o) \in Octet
<1>1. o + 1 \in 1..Len(message)
  BY DEF Size
<1>2. message[o + 1] \in Octet
  BY <1>1
<1> QED
  BY <1>2 DEF Byte

LEMMA NumberIs ==
  ASSUME message \in Seq(Octet), NEW o \in Nat, o + Width <= Size
  PROVE  Number(o) \in Nat
<1>1. Size \in Nat
  BY DEF Size
<1>2. Byte(o) \in Nat
  <2>1. o < Size
    BY <1>1, SizesAssumption
  <2>2. Byte(o) \in Octet
    BY <2>1, ByteIs
  <2> QED
    BY <2>2, OctetIsNat
<1>3. CASE Width = 1
  BY <1>2, <1>3 DEF Number
<1>4. CASE Width = 2
  <2>1. o + 1 \in Nat /\ o + 1 < Size
    BY <1>1, <1>4
  <2>2. Byte(o + 1) \in Octet
    BY <2>1, ByteIs
  <2>3. Number(o) = 256 * Byte(o) + Byte(o + 1)
    BY <1>4 DEF Number
  <2> QED
    BY <1>2, <2>2, <2>3, OctetIsNat
<1> QED
  BY <1>3, <1>4, SizesAssumption

LEMMA Sizes ==
  /\ Width \in Nat \ {0}
  /\ HeaderSize \in Nat /\ QuestionSize \in Nat /\ RecordSize \in Nat
  /\ HeaderSize = 6 * Width /\ RecordSize = 5 * Width
  BY SizesAssumption DEF HeaderSize, QuestionSize, RecordSize

LEMMA HeaderIs ==
  ASSUME message \in Seq(Octet), HeaderIsFine
  PROVE  /\ Questions \in Nat /\ Entries \in Nat /\ Questions <= Entries
         /\ Size \in Nat /\ HeaderSize <= Size
<1>1. Size \in Nat /\ HeaderSize <= Size
  BY Sizes DEF Size, HeaderIsFine
<1>2. Number(2 * Width) \in Nat
  BY <1>1, Sizes, NumberIs
<1>3. Number(3 * Width) \in Nat
  BY <1>1, Sizes, NumberIs
<1> QED
  BY <1>1, <1>2, <1>3 DEF Questions, Entries

LEMMA RecordIs ==
  ASSUME message \in Seq(Octet), NEW r \in Nat, DataOf(r) <= Size
  PROVE  /\ DataOf(r) \in Nat /\ AfterRecord(r) \in Nat
         /\ DataOf(r) <= AfterRecord(r) /\ r <= DataOf(r)
<1>1. Size \in Nat /\ r + 5 * Width <= Size
  BY Sizes DEF Size, DataOf
<1>2. Number(r + 4 * Width) \in Nat
  <2>1. r + 4 * Width \in Nat /\ r + 4 * Width + Width <= Size
    BY <1>1, Sizes
  <2> QED
    BY <2>1, NumberIs
<1> QED
  BY <1>1, <1>2, Sizes DEF DataOf, AfterRecord

-----------------------------------------------------------------------------
(***************************************************************************)
(* The invariant: what each parser knows of where it is.                   *)
(***************************************************************************)

\* The pointer the detector's name ends with, once it has jumped.
Jumped == /\ resume # 0 => resume - 2 \in Nat
          /\ reading = "name" /\ resume # 0 =>
               entry < Entries /\ resume - 2 < Size /\ IsPointer(resume - 2)

Framed ==
    /\ reading = "header" => entry = 0 /\ offset = 0 /\ resume = 0 /\ addresses = {}
    /\ reading \in {"name", "cname", "returned"} => HeaderIsFine /\ Rcode = 0
    /\ reading = "cname" => Questions <= entry /\ entry < Entries
    /\ skipping = "header" => skipEntry = 0 /\ skipOffset = 0 /\ answers = {}
    /\ skipping = "name" => HeaderIsFine /\ Rcode = 0

IInv == TypeOK /\ Jumped /\ Framed

USE DEF nameVars, readVars, skipVars, Ended

LEMMA InitInv ==
  ASSUME Init
  PROVE  IInv
<1>1. message \in Seq(Octet)
  BY MessagesAssumption DEF Init
<1>2. 0 \in 0..Size /\ 0 \in 0..MaxJumps
  BY <1>1, JumpsAssumption DEF Size
<1> QED
  BY <1>1, <1>2 DEF Init, IInv, TypeOK, Jumped, Framed

\* What is read of the message stays: only the message matters to it.
LEMMA Same ==
  ASSUME message' = message
  PROVE  /\ Size' = Size /\ HeaderIsFine' = HeaderIsFine /\ Rcode' = Rcode
         /\ Questions' = Questions /\ Entries' = Entries
  BY DEF Size, HeaderIsFine, Rcode, Questions, Entries, HeaderSize, Number, Byte

LEMMA SkipKeepsInv ==
  ASSUME IInv, Skip, UNCHANGED <<message, readVars>>
  PROVE  IInv'
<1> USE DEF IInv, Skip
<1>1. message \in Seq(Octet) /\ Size \in Nat
  BY DEF TypeOK, Size
<1>2. skipOffset' \in Nat /\ skipEntry' \in Nat /\ skipping' \in {"header", "name"} \cup Ended
  <2>1. CASE SkipHeader
    BY <2>1, Sizes DEF SkipHeader, SkipRaise, TypeOK
  <2>2. CASE SkipBehind \/ ReturnSkipped
    BY <2>2 DEF SkipBehind, ReturnSkipped, SkipRaise, TypeOK
  <2>3. CASE SkipLabel
    <3>1. Byte(skipOffset) \in Octet /\ skipOffset \in Nat
      BY <1>1, <2>3, ByteIs DEF SkipLabel, TypeOK
    <3>2. AfterLabel(skipOffset) \in Nat
      BY <3>1, OctetIsNat DEF AfterLabel
    <3> QED
      BY <2>3, <3>2 DEF SkipLabel, TypeOK
  <2>4. CASE SkipQuestion
    BY <2>4, Sizes DEF SkipQuestion, AfterName, TypeOK
  <2>5. CASE SkipAnswer
    <3>1. Skipped \in Nat
      BY DEF Skipped, AfterName, TypeOK
    <3>2. SkippedIsFine => AfterRecord(Skipped) \in Nat
      BY <1>1, <3>1, RecordIs DEF SkippedIsFine
    <3> QED
      BY <2>5, <3>2 DEF SkipAnswer, SkipRaise, TypeOK
  <2> QED
    BY <2>1, <2>2, <2>3, <2>4, <2>5
<1>3. TypeOK'
  BY <1>2, Same DEF TypeOK
<1>4. Jumped'
  BY Same DEF Jumped, IsPointer, Byte
<1>5. skipping' # "header" /\ (skipping' = "name" => HeaderIsFine /\ Rcode = 0)
  BY DEF Framed, SkipHeader, SkipBehind, SkipLabel, SkipQuestion, SkipAnswer,
         ReturnSkipped, SkipRaise, Skips
<1>6. Framed'
  BY <1>5, Same DEF Framed
<1> QED
  BY <1>3, <1>4, <1>6

\* Where a name the detector has read is followed by what comes next.
LEMMA BehindIs ==
  ASSUME IInv, NameIsRead
  PROVE  Behind \in Nat /\ Behind <= Size
<1>1. offset \in 0..Size /\ resume \in 0..Size /\ Size \in Nat /\ offset < Size
  BY DEF IInv, TypeOK, NameIsRead, NameIsFine, Size
<1> QED
  BY <1>1 DEF Behind

LEMMA ReadKeepsInv ==
  ASSUME IInv, Read, UNCHANGED <<message, skipVars>>
  PROVE  IInv'
<1> USE DEF IInv
<1>1. message \in Seq(Octet) /\ Size \in Nat
  BY DEF TypeOK, Size
<1>2. ASSUME reading' \in {"name", "cname"} \cup Ended,
             offset' \in 0..Size, resume' \in 0..Size, after' \in 0..Size,
             jumps' \in 0..MaxJumps, entry' \in Nat,
             reading' \in {"name", "cname", "returned"} => HeaderIsFine /\ Rcode = 0,
             reading' = "cname" => Questions <= entry' /\ entry' < Entries,
             resume' # 0 => resume' - 2 \in Nat,
             reading' = "name" /\ resume' # 0 =>
               entry' < Entries /\ resume' - 2 < Size /\ IsPointer(resume' - 2)
      PROVE  IInv'
  <2>1. TypeOK'
    BY <1>2, Same DEF TypeOK
  <2>2. Jumped'
    BY <1>2, Same DEF Jumped, IsPointer, Byte
  <2>3. Framed'
    BY <1>2, Same DEF Framed
  <2> QED
    BY <2>1, <2>2, <2>3
<1>3. ASSUME Raise
      PROVE  IInv'
  BY <1>2, <1>3 DEF Raise, TypeOK, Jumped
<1>4. CASE ReadHeader
  <2>1. CASE HeaderIsFine /\ Rcode = 0 /\ reading' = "name" /\ offset' = HeaderSize
             /\ UNCHANGED <<resume, jumps, after, entry, addresses>> /\ reading = "header"
    <3>1. HeaderSize \in 0..Size
      BY <1>1, <2>1, HeaderIs, Sizes
    <3> QED
      BY <1>2, <2>1, <3>1 DEF TypeOK, Framed
  <2> QED
    BY <1>3, <1>4, <2>1 DEF ReadHeader
<1>5. InName => HeaderIsFine /\ Rcode = 0 /\ entry < Entries /\ Entries \in Nat
  BY <1>1, HeaderIs DEF InName, Framed
<1>6. NameIsFine => Byte(offset) \in Octet /\ offset \in Nat /\ offset < Size
  BY <1>1, ByteIs DEF NameIsFine, TypeOK
<1>7. CASE FollowPointer
  <2> USE <1>7 DEF FollowPointer
  <2>1. offset + 2 <= Size /\ Pointer \in Nat /\ Pointer < Size /\ jumps + 1 \in 0..MaxJumps
    <3>1. offset + 1 < Size /\ Pointer < Size /\ jumps < MaxJumps
      BY DEF NameIsFine, PointerIsFine, FewJumps
    <3>2. Byte(offset + 1) \in Octet
      <4>1. offset + 1 \in Nat
        BY <1>6
      <4> QED
        BY <1>1, <3>1, <4>1, ByteIs
    <3>3. Byte(offset) % 64 \in Nat
      BY <1>6, OctetIsNat
    <3>4. Pointer \in Nat
      BY <3>2, <3>3, OctetIsNat DEF Pointer
    <3> QED
      BY <1>1, <1>6, <3>1, <3>4, JumpsAssumption DEF TypeOK
  <2>2. resume' \in 0..Size
    BY <1>1, <1>6, <2>1 DEF TypeOK
  <2>3. /\ resume' # 0 => resume' - 2 \in Nat
        /\ reading' = "name" /\ resume' # 0 =>
             entry' < Entries /\ resume' - 2 < Size /\ IsPointer(resume' - 2)
    <3>1. CASE resume = 0
      <4>1. resume' - 2 = offset
        BY <1>6, <3>1
      <4> QED
        BY <1>5, <1>6, <4>1
    <3>2. CASE resume # 0
      BY <3>2 DEF Jumped
    <3> QED
      BY <3>1, <3>2
  <2> QED
    BY <1>1, <1>2, <1>5, <2>1, <2>2, <2>3 DEF TypeOK, Framed, InName
<1>8. CASE ReadLabel
  <2> USE <1>8 DEF ReadLabel
  <2>1. AfterLabel(offset) \in 0..Size
    <3>1. AfterLabel(offset) <= Size
      BY DEF NameIsFine, LabelIsFine, EndsName
    <3>2. AfterLabel(offset) \in Nat
      BY <1>6, OctetIsNat DEF AfterLabel
    <3> QED
      BY <1>1, <3>1, <3>2
  <2>2. /\ resume' # 0 => resume' - 2 \in Nat
        /\ reading' = "name" /\ resume' # 0 =>
             entry' < Entries /\ resume' - 2 < Size /\ IsPointer(resume' - 2)
    BY DEF Jumped
  <2> QED
    BY <1>2, <1>5, <2>1, <2>2 DEF TypeOK, Framed, InName
<1>9. ASSUME NEW o \in 0..Size, PassEntry(o), UNCHANGED after, InName
      PROVE  IInv'
  BY <1>2, <1>5, <1>9, JumpsAssumption, <1>1 DEF PassEntry, GoTo, TypeOK
<1>10. CASE ReadQuestion
  <2>1. Behind + QuestionSize <= Size => Behind + QuestionSize \in 0..Size
    BY <1>1, <1>10, BehindIs, Sizes DEF ReadQuestion
  <2> QED
    BY <1>1, <1>3, <1>9, <1>10, <2>1, BehindIs, Sizes DEF ReadQuestion, NameIsRead
<1>11. CASE ReadAnswer
  <2>1. RecordIsFine => DataOf(Behind) \in 0..Size /\ AfterRecord(Behind) \in 0..Size
    BY <1>1, <1>11, BehindIs, RecordIs DEF ReadAnswer, RecordIsFine
  <2>2. CASE /\ RecordIsFine /\ reading' = "cname" /\ GoTo(DataOf(Behind))
             /\ after' = AfterRecord(Behind) /\ entry' = entry
    <3>1. Questions <= entry /\ reading = "name" /\ InName
      BY <1>11 DEF ReadAnswer, NameIsRead, TypeOK
    <3> QED
      BY <1>2, <1>5, <2>1, <2>2, <3>1, <1>1, JumpsAssumption DEF GoTo, TypeOK
  <2> QED
    BY <1>3, <1>9, <1>11, <2>1, <2>2 DEF ReadAnswer, NameIsRead
<1>12. CASE ReadCname
  BY <1>9, <1>12 DEF ReadCname, NameIsRead, TypeOK
<1>13. CASE ReturnRead
  BY <1>2, <1>13 DEF ReturnRead, TypeOK, Jumped, Framed
<1>14. CASE NameRaises
  BY <1>3, <1>14 DEF NameRaises
<1> QED
  BY <1>4, <1>7, <1>8, <1>10, <1>11, <1>12, <1>13, <1>14 DEF Read

LEMMA Invariance == Spec => []IInv
<1>1. ASSUME IInv, [Next]_vars
      PROVE  IInv'
  <2>1. CASE UNCHANGED vars
    BY <1>1, <2>1, Same DEF vars, IInv, TypeOK, Jumped, Framed, IsPointer, Byte
  <2> QED
    BY <1>1, <2>1, ReadKeepsInv, SkipKeepsInv DEF Next
<1> QED
  BY InitInv, <1>1, PTL DEF Spec

-----------------------------------------------------------------------------
\* The detector reads no byte behind the end of any message, and follows at most
\* MaxJumps pointers for a name.
THEOREM TypeCorrect == Spec => []TypeOK
<1>1. IInv => TypeOK
  BY DEF IInv
<1> QED
  BY Invariance, <1>1, PTL

\* Every step of the detector's parser brings it nearer to its end, in every message:
\* a pointer is counted, and nothing else leads back.
THEOREM NoMessageIsReadForEver == Spec => ReadingProgresses
<1>1. ASSUME IInv, [Next]_vars, ~UNCHANGED readVars
      PROVE  \/ reading' \in Ended
             \/ entry' > entry
             \/ /\ entry' = entry
                /\ \/ Stage(reading') > Stage(reading)
                   \/ /\ reading' = reading
                      /\ jumps' > jumps \/ (jumps' = jumps /\ offset' > offset)
  <2> USE DEF IInv
  <2>1. Read /\ UNCHANGED message
    BY <1>1 DEF Next, vars
  <2>2. jumps \in Nat /\ entry \in Nat /\ offset \in Nat
    BY <1>1 DEF TypeOK
  <2>3. CASE ReadHeader
    BY <2>3 DEF ReadHeader, Raise, Stage
  <2>4. CASE NameRaises
    BY <2>4 DEF NameRaises, Raise
  <2>5. CASE FollowPointer
    BY <2>2, <2>5 DEF FollowPointer
  <2>6. CASE ReadLabel
    <3>1. Byte(offset) \in Octet
      BY <1>1, <2>2, <2>6, ByteIs DEF ReadLabel, NameIsFine, TypeOK
    <3>2. AfterLabel(offset) > offset
      BY <2>2, <3>1, OctetIsNat DEF AfterLabel
    <3> QED
      BY <2>6, <3>2 DEF ReadLabel
  <2>7. CASE ReadQuestion
    BY <2>2, <2>7 DEF ReadQuestion, Raise, PassEntry
  <2>8. CASE ReadAnswer
    <3>1. Stage("cname") > Stage("name")
      BY DEF Stage
    <3> QED
      BY <2>2, <2>8, <3>1 DEF ReadAnswer, Raise, PassEntry
  <2>9. CASE ReadCname
    BY <2>2, <2>9 DEF ReadCname, PassEntry
  <2>10. CASE ReturnRead
    BY <2>10 DEF ReturnRead
  <2> QED
    BY <2>1, <2>3, <2>4, <2>5, <2>6, <2>7, <2>8, <2>9, <2>10 DEF Read
<1>2. IInv /\ [Next]_vars =>
        [ \/ reading' \in Ended
          \/ entry' > entry
          \/ /\ entry' = entry
             /\ \/ Stage(reading') > Stage(reading)
                \/ /\ reading' = reading
                   /\ jumps' > jumps \/ (jumps' = jumps /\ offset' > offset)
        ]_readVars
  BY <1>1
<1> QED
  BY Invariance, <1>2, PTL DEF Spec, ReadingProgresses

\* Every step of the generator's parser ends it, leaves the header or moves on in the
\* message, and it never steps on from behind the end: skip_dns_name follows no pointer
\* and parse_a_records never goes back.
SkippingProgresses ==
    [][ \/ skipping' \in Ended
        \/ skipping = "header" /\ skipping' = "name"
        \/ /\ skipping = "name" /\ skipping' = "name"
           /\ skipOffset < Size /\ skipOffset' > skipOffset
      ]_skipVars

\* The generator's parser, too, gets nearer to its end with every step, in at most one
\* step for each byte of any message, though it counts nothing.
THEOREM NoMessageIsSkippedForEver == Spec => SkippingProgresses
<1>1. ASSUME IInv, [Next]_vars, ~UNCHANGED skipVars
      PROVE  \/ skipping' \in Ended
             \/ skipping = "header" /\ skipping' = "name"
             \/ /\ skipping = "name" /\ skipping' = "name"
                /\ skipOffset < Size /\ skipOffset' > skipOffset
  <2> USE DEF IInv
  <2>1. Skip /\ UNCHANGED message
    BY <1>1 DEF Next, vars
  <2>2. skipOffset \in Nat /\ message \in Seq(Octet) /\ Size \in Nat
    BY <1>1 DEF TypeOK, Size
  <2>3. CASE SkipHeader
    BY <2>3 DEF SkipHeader, SkipRaise
  <2>4. CASE SkipBehind
    BY <2>4 DEF SkipBehind, SkipRaise
  <2>5. CASE SkipLabel
    <3>1. Byte(skipOffset) \in Octet
      BY <2>2, <2>5, ByteIs DEF SkipLabel
    <3>2. AfterLabel(skipOffset) > skipOffset
      BY <2>2, <3>1, OctetIsNat DEF AfterLabel
    <3> QED
      BY <2>5, <3>2 DEF SkipLabel, Skips
  <2>6. AfterName(skipOffset) \in Nat /\ AfterName(skipOffset) > skipOffset
    BY <2>2 DEF AfterName
  <2>7. CASE SkipQuestion
    <3>1. skipOffset' > skipOffset
      BY <2>2, <2>6, <2>7, Sizes DEF SkipQuestion
    <3> QED
      BY <2>7, <3>1 DEF SkipQuestion, Skips
  <2>8. CASE SkipAnswer
    <3>1. CASE SkippedIsFine /\ skipOffset' = AfterRecord(Skipped)
      <4>1. Skipped \in Nat /\ Skipped > skipOffset /\ DataOf(Skipped) <= Size
        BY <2>6, <3>1 DEF Skipped, SkippedIsFine
      <4>2. /\ DataOf(Skipped) \in Nat /\ AfterRecord(Skipped) \in Nat
            /\ DataOf(Skipped) <= AfterRecord(Skipped) /\ Skipped <= DataOf(Skipped)
        BY <2>2, <4>1, RecordIs
      <4>3. skipOffset' > skipOffset
        BY <2>2, <3>1, <4>1, <4>2
      <4> QED
        BY <2>8, <4>3 DEF SkipAnswer, Skips, SkipRaise
    <3> QED
      BY <2>8, <3>1 DEF SkipAnswer, SkipRaise
  <2>9. CASE ReturnSkipped
    BY <2>9 DEF ReturnSkipped
  <2> QED
    BY <2>1, <2>3, <2>4, <2>5, <2>7, <2>8, <2>9 DEF Skip
<1>2. IInv /\ [Next]_vars =>
        [ \/ skipping' \in Ended
          \/ skipping = "header" /\ skipping' = "name"
          \/ /\ skipping = "name" /\ skipping' = "name"
             /\ skipOffset < Size /\ skipOffset' > skipOffset
        ]_skipVars
  BY <1>1
<1> QED
  BY Invariance, <1>2, PTL DEF Spec, SkippingProgresses

-----------------------------------------------------------------------------
(***************************************************************************)
(* Both parsers implement the walk over the entries.                       *)
(***************************************************************************)

\* The two instances know the same format.
LEMMA ReaderFormat ==
  /\ Reader!Octet = Octet /\ Reader!Size = Size /\ Reader!HeaderSize = HeaderSize
  /\ Reader!QuestionSize = QuestionSize
  /\ Reader!HeaderIsFine = HeaderIsFine /\ Reader!Rcode = Rcode
  /\ Reader!Questions = Questions /\ Reader!Entries = Entries
  /\ \A o : /\ Reader!EndsName(o) = EndsName(o) /\ Reader!AfterName(o) = AfterName(o)
            /\ Reader!AfterLabel(o) = AfterLabel(o) /\ Reader!DataOf(o) = DataOf(o)
            /\ Reader!AfterRecord(o) = AfterRecord(o)
            /\ Reader!IsAddress(o) = IsAddress(o) /\ Reader!AddressOf(o) = AddressOf(o)
  BY DEF Reader!Octet, Octet, Reader!Size, Reader!HeaderSize, Reader!QuestionSize, Reader!HeaderIsFine,
         Reader!Rcode, Reader!Questions, Reader!Entries, Reader!EndsName,
         Reader!AfterName, Reader!AfterLabel, Reader!DataOf, Reader!AfterRecord,
         Reader!IsAddress, Reader!AddressOf, Reader!Number, Reader!Byte,
         Reader!IsPointer, Reader!RecordSize, Reader!IsOfType,
         Size, HeaderSize, QuestionSize, HeaderIsFine, Rcode, Questions, Entries,
         EndsName, AfterName, AfterLabel, DataOf, AfterRecord, IsAddress, AddressOf,
         Number, Byte, IsPointer, RecordSize, IsOfType

LEMMA SkipperFormat ==
  /\ Skipper!Octet = Octet /\ Skipper!Size = Size /\ Skipper!HeaderSize = HeaderSize
  /\ Skipper!QuestionSize = QuestionSize
  /\ Skipper!HeaderIsFine = HeaderIsFine /\ Skipper!Rcode = Rcode
  /\ Skipper!Questions = Questions /\ Skipper!Entries = Entries
  /\ \A o : /\ Skipper!EndsName(o) = EndsName(o) /\ Skipper!AfterName(o) = AfterName(o)
            /\ Skipper!AfterLabel(o) = AfterLabel(o) /\ Skipper!DataOf(o) = DataOf(o)
            /\ Skipper!AfterRecord(o) = AfterRecord(o)
            /\ Skipper!IsAddress(o) = IsAddress(o) /\ Skipper!AddressOf(o) = AddressOf(o)
  BY DEF Skipper!Octet, Octet, Skipper!Size, Skipper!HeaderSize, Skipper!QuestionSize, Skipper!HeaderIsFine,
         Skipper!Rcode, Skipper!Questions, Skipper!Entries, Skipper!EndsName,
         Skipper!AfterName, Skipper!AfterLabel, Skipper!DataOf, Skipper!AfterRecord,
         Skipper!IsAddress, Skipper!AddressOf, Skipper!Number, Skipper!Byte,
         Skipper!IsPointer, Skipper!RecordSize, Skipper!IsOfType,
         Size, HeaderSize, QuestionSize, HeaderIsFine, Rcode, Questions, Entries,
         EndsName, AfterName, AfterLabel, DataOf, AfterRecord, IsAddress, AddressOf,
         Number, Byte, IsPointer, RecordSize, IsOfType

\* Every step of skip_dns_name and parse_a_records is one of the walk.
LEMMA SkipWalks ==
  ASSUME IInv, [Next]_vars
  PROVE  [Skipper!Next /\ UNCHANGED message]_<<message, Skipper!walkVars>>
<1> USE DEF Skipper!walkVars, SkipperAt
<1>1. CASE ~Skip
  BY <1>1 DEF Next, vars
<1>2. CASE Skip /\ UNCHANGED message
  <2> USE <1>2, SkipperFormat
  <2>1. skipOffset \in Nat /\ skipEntry \in Nat
    BY DEF IInv, TypeOK
  <2>2. CASE SkipRaise /\ skipping \notin Ended
    BY <2>1, <2>2 DEF SkipRaise, Skipper!Next, Skipper!GiveUp
  <2>3. CASE SkipHeader
    BY <2>2, <2>3 DEF SkipHeader, Skipper!Next, Skipper!PassHeader
  <2>4. CASE SkipBehind
    BY <2>2, <2>4 DEF SkipBehind, Skips
  <2>5. CASE SkipLabel
    BY <2>5 DEF SkipLabel, Skips, Skipper!Next, Skipper!PassLabel, Skipper!InEntry
  <2>6. CASE SkipQuestion
    BY <2>6 DEF SkipQuestion, Skips, Skipper!Next, Skipper!PassQuestion, Skipper!InEntry
  <2>7. CASE SkipAnswer
    BY <2>2, <2>7 DEF SkipAnswer, SkippedIsFine, Skipped, Skips,
                      Skipper!Next, Skipper!PassAnswer, Skipper!InEntry
  <2>8. CASE ReturnSkipped
    BY <2>8 DEF ReturnSkipped, Skipper!Next, Skipper!Return
  <2> QED
    BY <2>3, <2>4, <2>5, <2>6, <2>7, <2>8 DEF Skip
<1> QED
  BY <1>1, <1>2 DEF Next, vars

\* The generator's parser implements the walk over the entries.
THEOREM GeneratorImplementsWalk == Spec => SkipperWalks
<1> USE DEF Skipper!walkVars, SkipperAt
<1>1. Init => Skipper!Init
  BY MessagesAssumption, SkipperFormat DEF Init, Skipper!Init
<1> QED
  BY <1>1, SkipWalks, Invariance, PTL DEF Spec, SkipperWalks, Skipper!Spec

\* Pointers, loops of them and the cnames change nothing in the detector's walk: the
\* name is over at its first pointer and the record at its length.
LEMMA ReadWalks ==
  ASSUME IInv, [Next]_vars
  PROVE  [Reader!Next /\ UNCHANGED message]_<<message, Reader!walkVars>>
<1> USE DEF Reader!walkVars
<1>1. CASE ~Read
  BY <1>1 DEF Next, vars, ReaderAt, ReaderOffset, ReaderEntry
<1>2. CASE Read /\ UNCHANGED message
  <2> USE <1>2, ReaderFormat
  <2>0. /\ message \in Seq(Octet) /\ Size \in Nat
        /\ offset \in Nat /\ entry \in Nat /\ resume \in Nat /\ after \in Nat
    BY DEF IInv, TypeOK, Size
  <2>1. CASE Raise /\ reading \notin Ended
    <3>1. ReaderAt \notin {"returned", "raised"} /\ ReaderAt' = "raised"
      BY <2>1 DEF Raise, ReaderAt
    <3>2. ReaderOffset' \in Nat /\ ReaderEntry' \in Nat
      <4>1. offset' = offset /\ resume' = resume /\ entry' = entry /\ reading' = "raised"
        BY <2>1 DEF Raise
      <4>2. resume # 0 => resume - 2 \in Nat
        BY <2>1 DEF IInv, Jumped, Framed
      <4> QED
        BY <2>0, <4>1, <4>2 DEF ReaderOffset, ReaderEntry
    <3> QED
      BY <2>1, <3>1, <3>2 DEF Raise, Reader!Next, Reader!GiveUp
  <2>2. ASSUME reading = "name", NameIsRead
        PROVE  /\ ReaderAt = "entries" /\ ReaderEntry = entry
               /\ entry < Entries
               /\ ReaderOffset < Size /\ EndsName(ReaderOffset)
               /\ AfterName(ReaderOffset) = Behind
    <3>1. entry < Entries /\ offset < Size /\ Byte(offset) = 0 /\ ~IsPointer(offset)
      BY <2>2 DEF NameIsRead, InName, NameIsFine, IsPointer
    <3>2. CASE resume = 0
      BY <2>2, <3>1, <3>2 DEF ReaderAt, ReaderEntry, ReaderOffset, EndsName, AfterName,
                              Behind
    <3>3. CASE resume # 0
      <4>1. resume - 2 < Size /\ IsPointer(resume - 2) /\ resume - 2 + 2 = resume
        BY <2>0, <2>2, <3>3 DEF IInv, Jumped
      <4> QED
        BY <2>2, <3>1, <3>3, <4>1 DEF ReaderAt, ReaderEntry, ReaderOffset, EndsName,
                                      AfterName, Behind
    <3> QED
      BY <3>2, <3>3
  <2>3. ASSUME NEW o, PassEntry(o)
        PROVE  ReaderAt' = "entries" /\ ReaderEntry' = entry + 1 /\ ReaderOffset' = o
    BY <2>3 DEF PassEntry, GoTo, ReaderAt, ReaderEntry, ReaderOffset
  <2>4. CASE ReadHeader
    <3>1. CASE HeaderIsFine /\ Rcode = 0 /\ reading' = "name" /\ offset' = HeaderSize
               /\ UNCHANGED <<resume, jumps, after, entry, addresses>>
      <4>1. ReaderAt = "header" /\ ReaderEntry = entry
        BY <2>4 DEF ReadHeader, ReaderAt, ReaderEntry
      <4>2. resume = 0
        BY <2>4 DEF IInv, Framed, ReadHeader
      <4>3. ReaderAt' = "entries" /\ ReaderEntry' = entry /\ ReaderOffset' = HeaderSize
        BY <3>1, <4>2 DEF ReaderAt, ReaderEntry, ReaderOffset
      <4> QED
        BY <3>1, <4>1, <4>3 DEF Reader!Next, Reader!PassHeader
    <3> QED
      BY <2>1, <2>4, <3>1 DEF ReadHeader
  <2>5. CASE NameRaises
    BY <2>1, <2>5 DEF NameRaises, InName
  <2>6. CASE FollowPointer
    <3>1. ReaderAt' = ReaderAt /\ ReaderEntry' = ReaderEntry
      BY <2>6 DEF FollowPointer, ReaderAt, ReaderEntry
    <3>2. ReaderOffset' = ReaderOffset
      <4>1. reading' = reading /\ after' = after
        BY <2>6 DEF FollowPointer
      <4>2. CASE resume = 0
        <5>1. resume' # 0 /\ resume' - 2 = offset
          BY <2>0, <2>6, <4>2 DEF FollowPointer
        <5> QED
          BY <4>1, <4>2, <5>1 DEF ReaderOffset
      <4>3. CASE resume # 0
        BY <2>6, <4>1, <4>3 DEF FollowPointer, ReaderOffset
      <4> QED
        BY <4>2, <4>3
    <3> QED
      BY <2>6, <3>1, <3>2 DEF FollowPointer
  <2>7. CASE ReadLabel
    <3>1. /\ ReaderAt' = ReaderAt /\ ReaderEntry' = ReaderEntry
          /\ addresses' = addresses
      BY <2>7 DEF ReadLabel, ReaderAt, ReaderEntry
    <3>2. CASE reading = "name" /\ resume = 0
      <4>1. /\ ReaderAt = "entries" /\ ReaderEntry < Entries /\ ReaderOffset = offset
            /\ ReaderOffset' = AfterLabel(offset) /\ offset < Size
        BY <2>7, <3>2 DEF ReadLabel, ReaderAt, ReaderEntry, ReaderOffset, InName, NameIsFine
      <4> QED
        BY <2>7, <3>1, <4>1 DEF ReadLabel, Reader!Next, Reader!PassLabel, Reader!InEntry
    <3>3. CASE ~(reading = "name" /\ resume = 0)
      <4>1. ReaderOffset' = ReaderOffset
        BY <2>7, <3>3 DEF ReadLabel, ReaderOffset, InName
      <4> QED
        BY <3>1, <4>1
    <3> QED
      BY <3>2, <3>3
  <2>8. CASE ReadQuestion
    <3>1. reading = "name" /\ NameIsRead /\ entry < Questions
      BY <2>8 DEF ReadQuestion
    <3>2. CASE PassEntry(Behind + QuestionSize) /\ UNCHANGED <<after, addresses>>
      BY <2>2, <2>3, <3>1, <3>2 DEF Reader!Next, Reader!PassQuestion, Reader!InEntry
    <3> QED
      BY <2>1, <2>8, <3>1, <3>2 DEF ReadQuestion
  <2>9. CASE ReadAnswer
    <3>1. reading = "name" /\ NameIsRead /\ entry >= Questions
      BY <2>9 DEF ReadAnswer
    <3>2. ASSUME RecordIsFine,
                 ReaderAt' = "entries", ReaderEntry' = entry + 1,
                 ReaderOffset' = AfterRecord(Behind),
                 addresses' = addresses \cup
                   (IF IsAddress(Behind) THEN {AddressOf(Behind)} ELSE {})
          PROVE  Reader!PassAnswer
      BY <2>2, <3>1, <3>2 DEF RecordIsFine, Reader!PassAnswer, Reader!InEntry
    <3>3. CASE RecordIsFine /\ IsAddress(Behind)
               /\ addresses' = addresses \cup {AddressOf(Behind)}
               /\ PassEntry(AfterRecord(Behind))
      BY <2>3, <3>2, <3>3 DEF Reader!Next
    <3>4. CASE RecordIsFine /\ IsOfType(5, Behind) /\ reading' = "cname"
               /\ after' = AfterRecord(Behind) /\ UNCHANGED <<entry, addresses>>
      <4>1. ~IsAddress(Behind)
        BY <3>4 DEF IsAddress, IsOfType
      <4>2. ReaderAt' = "entries" /\ ReaderEntry' = entry + 1
            /\ ReaderOffset' = AfterRecord(Behind)
        BY <3>4 DEF ReaderAt, ReaderEntry, ReaderOffset
      <4> QED
        BY <3>2, <3>4, <4>1, <4>2 DEF Reader!Next
    <3>5. CASE RecordIsFine /\ ~IsAddress(Behind)
               /\ PassEntry(AfterRecord(Behind)) /\ UNCHANGED addresses
      BY <2>3, <3>2, <3>5 DEF Reader!Next
    <3> QED
      BY <2>1, <2>9, <3>1, <3>3, <3>4, <3>5 DEF ReadAnswer
  <2>10. CASE ReadCname
    <3>1. ReaderAt = "entries" /\ ReaderEntry = entry + 1 /\ ReaderOffset = after
      BY <2>10 DEF ReadCname, ReaderAt, ReaderEntry, ReaderOffset
    <3> QED
      BY <2>3, <2>10, <3>1 DEF ReadCname
  <2>11. CASE ReturnRead
    <3>1. resume = 0
      BY <2>0, <2>11 DEF IInv, Jumped, ReturnRead
    <3>2. /\ ReaderAt = "entries" /\ ReaderEntry = entry /\ ReaderOffset = offset
          /\ ReaderAt' = "returned" /\ ReaderEntry' = entry /\ ReaderOffset' = offset
      BY <2>11, <3>1 DEF ReturnRead, ReaderAt, ReaderEntry, ReaderOffset
    <3> QED
      BY <2>11, <3>2 DEF ReturnRead, Reader!Next, Reader!Return
  <2> QED
    BY <2>4, <2>5, <2>6, <2>7, <2>8, <2>9, <2>10, <2>11 DEF Read
<1> QED
  BY <1>1, <1>2 DEF Next, vars

\* The detector's parser implements the walk over the entries.
THEOREM DetectorImplementsWalk == Spec => ReaderWalks
<1> USE DEF Reader!walkVars
<1>1. Init => Reader!Init
  BY MessagesAssumption, ReaderFormat DEF Init, Reader!Init, ReaderAt, ReaderOffset, ReaderEntry
<1> QED
  BY <1>1, ReadWalks, Invariance, PTL DEF Spec, ReaderWalks, Reader!Spec

-----------------------------------------------------------------------------
(***************************************************************************)
(* Two walks over one message agree: a walk is a path of positions, each   *)
(* the only successor of the one before, so two paths never part.          *)
(***************************************************************************)

\* A position is <<offset, entry, addresses>>.
CanGo(p) ==
    /\ p[1] < Size /\ p[2] < Entries
    /\ EndsName(p[1]) /\ p[2] >= Questions =>
         /\ DataOf(AfterName(p[1])) <= Size
         /\ IsAddress(AfterName(p[1])) => AfterRecord(AfterName(p[1])) <= Size

Successor(p) ==
    IF ~EndsName(p[1]) THEN <<AfterLabel(p[1]), p[2], p[3]>>
    ELSE IF p[2] < Questions THEN <<AfterName(p[1]) + QuestionSize, p[2] + 1, p[3]>>
    ELSE <<AfterRecord(AfterName(p[1])), p[2] + 1,
           p[3] \cup (IF IsAddress(AfterName(p[1]))
                        THEN {AddressOf(AfterName(p[1]))} ELSE {})>>

Path(f, n) == /\ f[0] = <<HeaderSize, 0, {}>>
              /\ \A i \in 0..(n - 1) : CanGo(f[i]) /\ f[i + 1] = Successor(f[i])

Reached(p) == \E n \in Nat : \E f : Path(f, n) /\ f[n] = p

LEMMA PathsAgree ==
  ASSUME NEW f, NEW n \in Nat, Path(f, n), NEW g, NEW m \in Nat, Path(g, m),
         NEW i \in Nat, i <= n, i <= m
  PROVE  f[i] = g[i]
<1> DEFINE S == {j \in Nat : j <= n /\ j <= m /\ f[j] # g[j]}
<1> SUFFICES ASSUME S # {}
             PROVE  FALSE
  OBVIOUS
<1> DEFINE R == {ss \in Nat \X Nat : ss[1] < ss[2]}
<1>1. IsWellFoundedOn(R, Nat)
  BY NatLessThanWellFounded, Zenon DEF OpToRel
<1>2. PICK k \in S : \A j \in S : ~(<<j, k>> \in R)
  BY <1>1, WFMin, Zenon
<1>3. k # 0
  BY DEF Path
<1>4. k - 1 \in Nat /\ k - 1 <= n /\ k - 1 <= m /\ <<k - 1, k>> \in R
  BY <1>3
<1>5. f[k - 1] = g[k - 1]
  BY <1>2, <1>4
<1>6. f[k] = Successor(f[k - 1]) /\ g[k] = Successor(g[k - 1])
  BY <1>4 DEF Path
<1> QED
  BY <1>5, <1>6

\* If two walks are where neither can go on, or one is and the other has passed all
\* entries, they are in the same place.
LEMMA EndsAgree ==
  ASSUME NEW p, NEW q, Reached(p), Reached(q), ~CanGo(p), ~CanGo(q)
  PROVE  p = q
<1>1. PICK n \in Nat : \E f : Path(f, n) /\ f[n] = p
  BY DEF Reached
<1>2. PICK f : Path(f, n) /\ f[n] = p
  BY <1>1
<1>3. PICK m \in Nat : \E g : Path(g, m) /\ g[m] = q
  BY DEF Reached
<1>4. PICK g : Path(g, m) /\ g[m] = q
  BY <1>3
<1>5. CASE n < m
  <2>1. CanGo(g[n])
    BY <1>4, <1>5 DEF Path
  <2>2. f[n] = g[n]
    BY <1>2, <1>4, <1>5, PathsAgree
  <2> QED
    BY <1>2, <2>1, <2>2
<1>6. CASE m < n
  <2>1. CanGo(f[m])
    BY <1>2, <1>6 DEF Path
  <2>2. f[m] = g[m]
    BY <1>2, <1>4, <1>6, PathsAgree
  <2> QED
    BY <1>4, <2>1, <2>2
<1>7. CASE n = m
  BY <1>2, <1>4, <1>7, PathsAgree
<1> QED
  BY <1>5, <1>6, <1>7

LEMMA StartsThere == Reached(<<HeaderSize, 0, {}>>)
<1> DEFINE f == [i \in 0..0 |-> <<HeaderSize, 0, {}>>]
<1>1. Path(f, 0) /\ f[0] = <<HeaderSize, 0, {}>>
  BY DEF Path
<1> HIDE DEF f
<1> QED
  BY <1>1 DEF Reached

LEMMA GoesOn ==
  ASSUME NEW p, Reached(p), CanGo(p)
  PROVE  Reached(Successor(p))
<1>1. PICK n \in Nat : \E f : Path(f, n) /\ f[n] = p
  BY DEF Reached
<1>2. PICK f : Path(f, n) /\ f[n] = p
  BY <1>1
<1>3. PICK m \in Nat : m = n + 1
  OBVIOUS
<1> DEFINE g == [i \in 0..m |-> IF i = m THEN Successor(p) ELSE f[i]]
<1>4. g[m] = Successor(p) /\ g[0] = <<HeaderSize, 0, {}>>
  BY <1>2, <1>3 DEF Path
<1>5. ASSUME NEW i \in 0..(m - 1)
      PROVE  CanGo(g[i]) /\ g[i + 1] = Successor(g[i])
  <2>1. g[i] = f[i] /\ i \in Nat
    BY <1>3
  <2>2. CASE i = n
    BY <1>2, <1>3, <1>4, <2>1, <2>2
  <2>3. CASE i # n
    <3>1. i \in 0..(n - 1) /\ g[i + 1] = f[i + 1]
      BY <1>3, <2>3
    <3> QED
      BY <1>2, <2>1, <3>1 DEF Path
  <2> QED
    BY <2>2, <2>3
<1> HIDE DEF g
<1>6. Path(g, m)
  BY <1>4, <1>5 DEF Path
<1> QED
  BY <1>3, <1>4, <1>6 DEF Reached

\* The message stays, and with it what is reached in it.
LEMMA StaysReached ==
  ASSUME message' = message
  PROVE  \A p : (Reached(p)' <=> Reached(p)) /\ (CanGo(p)' <=> CanGo(p))
<1>1. /\ Size' = Size /\ HeaderSize' = HeaderSize /\ Entries' = Entries
      /\ Questions' = Questions
  BY Same DEF HeaderSize
<1>2. \A o : /\ EndsName(o)' <=> EndsName(o)
             /\ AfterName(o)' = AfterName(o) /\ AfterLabel(o)' = AfterLabel(o)
             /\ DataOf(o)' = DataOf(o) /\ AfterRecord(o)' = AfterRecord(o)
             /\ IsAddress(o)' <=> IsAddress(o)
             /\ AddressOf(o)' = AddressOf(o)
  BY DEF EndsName, IsPointer, AfterName, AfterLabel, DataOf, AfterRecord,
         RecordSize, IsAddress, IsOfType, AddressOf, Number, Byte
<1>3. \A p : CanGo(p)' <=> CanGo(p)
  BY <1>1, <1>2 DEF CanGo
<1>4. \A p : Successor(p)' = Successor(p)
  BY <1>1, <1>2 DEF Successor, QuestionSize
<1>5. \A f, n : Path(f, n)' <=> Path(f, n)
  BY <1>1, <1>3, <1>4 DEF Path
<1>6. \A p : Reached(p)' <=> Reached(p)
  BY <1>5 DEF Reached
<1> QED
  BY <1>3, <1>6

-----------------------------------------------------------------------------
ReaderPosition == <<ReaderOffset, ReaderEntry, addresses>>
SkipperPosition == <<skipOffset, skipEntry, answers>>

\* Where the parsers are in the walk, and why the generator's has raised.
ReaderWalked ==
    /\ ReaderAt \in {"entries", "returned"} => Reached(ReaderPosition)
    /\ ReaderAt = "returned" => ReaderEntry = Entries
SkipperWalked ==
    /\ SkipperAt \in {"entries", "returned"} /\ Rcode = 0 => Reached(SkipperPosition)
    /\ SkipperAt = "returned" /\ Rcode = 0 => skipEntry = Entries
    /\ SkipperAt = "raised" => \/ ~HeaderIsFine
                               \/ /\ Reached(SkipperPosition) /\ ~CanGo(SkipperPosition)
                                  /\ skipEntry < Entries

LEMMA ReadStaysWalked ==
  ASSUME IInv, ReaderWalked, Read, UNCHANGED <<message, skipVars>>
  PROVE  ReaderWalked'
<1> DEFINE p == ReaderPosition
           q == <<ReaderOffset', ReaderEntry', addresses'>>
<1>1. message' = message /\ Entries' = Entries
  BY Same
<1>2. \/ Reader!Next
      \/ UNCHANGED <<ReaderAt, ReaderOffset, ReaderEntry, addresses>>
  BY ReadWalks DEF Next, Reader!walkVars
<1>3. /\ ReaderAt' \in {"entries", "returned"} => Reached(q)
      /\ ReaderAt' = "returned" => ReaderEntry' = Entries
  <2> USE ReaderFormat
  <2>1. CASE UNCHANGED <<ReaderAt, ReaderOffset, ReaderEntry, addresses>>
    BY <2>1 DEF ReaderWalked, ReaderPosition
  <2>2. CASE Reader!PassHeader
    <3>1. reading = "header" /\ entry = 0 /\ addresses = {}
      BY <2>2 DEF Reader!PassHeader, ReaderAt, IInv, TypeOK, Framed
    <3>2. ReaderEntry = 0
      BY <3>1 DEF ReaderEntry
    <3>3. q = <<HeaderSize, 0, {}>>
      BY <2>2, <3>1, <3>2 DEF Reader!PassHeader
    <3>4. ReaderAt' # "returned"
      BY <3>1, ReadKeepsInv DEF ReaderAt, Read, ReadHeader, Raise, NameRaises, InName,
         FollowPointer, ReadLabel, ReadQuestion, ReadAnswer, ReadCname, ReturnRead
    <3> QED
      BY <3>3, <3>4, StartsThere
  <2>3. CASE Reader!PassLabel \/ Reader!PassQuestion \/ Reader!PassAnswer
    <3>1. Reached(p) /\ ReaderAt' = "entries"
      BY <2>3 DEF Reader!PassLabel, Reader!PassQuestion, Reader!PassAnswer,
                  Reader!InEntry, ReaderWalked
    <3>2. CanGo(p) /\ q = Successor(p)
      <4>1. CASE Reader!PassLabel
        BY <4>1 DEF Reader!PassLabel, Reader!InEntry, CanGo, Successor, ReaderPosition
      <4>2. CASE Reader!PassQuestion
        <5>1. ~(ReaderEntry >= Questions)
          BY <4>2, HeaderIs DEF Reader!PassQuestion, Reader!InEntry, IInv, TypeOK, Framed,
                                ReaderAt, ReaderEntry
        <5> QED
          BY <4>2, <5>1 DEF Reader!PassQuestion, Reader!InEntry, CanGo, Successor,
                            ReaderPosition
      <4>3. CASE Reader!PassAnswer
        <5>1. ~(ReaderEntry < Questions)
          BY <4>3, HeaderIs DEF Reader!PassAnswer, Reader!InEntry, IInv, TypeOK, Framed,
                                ReaderAt, ReaderEntry
        <5> QED
          BY <4>3, <5>1 DEF Reader!PassAnswer, Reader!InEntry, CanGo, Successor,
                            ReaderPosition
      <4> QED
        BY <2>3, <4>1, <4>2, <4>3
    <3> QED
      BY <3>1, <3>2, GoesOn
  <2>4. CASE Reader!Return
    BY <2>4 DEF Reader!Return, ReaderWalked, ReaderPosition
  <2>5. CASE Reader!GiveUp
    BY <2>5 DEF Reader!GiveUp
  <2> QED
    BY <1>2, <2>1, <2>2, <2>3, <2>4, <2>5 DEF Reader!Next
<1>4. PICK c : c = q
  OBVIOUS
<1>5. ReaderPosition' = c
  BY <1>4 DEF ReaderPosition
<1>6. ReaderAt' \in {"entries", "returned"} => Reached(c)'
  BY <1>1, <1>3, <1>4, StaysReached
<1>7. ReaderAt' \in {"entries", "returned"} => Reached(ReaderPosition)'
  BY <1>5, <1>6
<1> QED
  BY <1>1, <1>3, <1>7 DEF ReaderWalked

LEMMA SkipStaysWalked ==
  ASSUME IInv, SkipperWalked, Skip, UNCHANGED <<message, readVars>>
  PROVE  SkipperWalked'
<1> DEFINE p == SkipperPosition
           q == <<skipOffset', skipEntry', answers'>>
<1>1. /\ message' = message /\ Entries' = Entries /\ Rcode' = Rcode
      /\ (HeaderIsFine' <=> HeaderIsFine)
  BY Same
<1>2. skipping = "name" => /\ Rcode = 0 /\ Reached(p)
                           /\ Questions \in Nat /\ skipEntry \in Nat
  BY HeaderIs DEF IInv, Framed, TypeOK, SkipperWalked, SkipperAt
<1>3. /\ SkipperAt' \in {"entries", "returned"} /\ Rcode = 0 => Reached(q)
      /\ SkipperAt' = "returned" /\ Rcode = 0 => skipEntry' = Entries
      /\ SkipperAt' = "raised" =>
           ~HeaderIsFine \/ (Reached(q) /\ ~CanGo(q) /\ skipEntry' < Entries)
  <2>1. CASE SkipHeader
    <3>1. CASE HeaderIsFine
      <4>1. q = <<HeaderSize, 0, {}>>
        BY <2>1, <3>1 DEF SkipHeader, IInv, Framed
      <4>2. SkipperAt' = (IF Rcode = 0 THEN "entries" ELSE "returned")
        BY <2>1, <3>1 DEF SkipHeader, SkipperAt
      <4> QED
        BY <4>1, <4>2, StartsThere
    <3>2. CASE ~HeaderIsFine
      BY <2>1, <3>2 DEF SkipHeader, SkipRaise, SkipperAt
    <3> QED
      BY <3>1, <3>2
  <2>2. CASE SkipBehind
    <3>1. q = p /\ ~CanGo(p) /\ skipEntry < Entries /\ SkipperAt' = "raised"
      <4>1. Size \in Nat /\ skipOffset \in Nat
        BY DEF IInv, TypeOK, Size
      <4> QED
        BY <2>2, <4>1 DEF SkipBehind, Skips, SkipRaise, SkipperAt, SkipperPosition, CanGo
    <3> QED
      BY <1>2, <2>2, <3>1 DEF SkipBehind, Skips, SkipRaise
  <2>3. CASE SkipLabel \/ SkipQuestion \/ (SkipAnswer /\ SkippedIsFine)
    <3>1. Reached(p) /\ SkipperAt' = "entries"
      BY <1>2, <2>3 DEF SkipLabel, SkipQuestion, SkipAnswer, SkipRaise, Skips, SkipperAt
    <3>2. CanGo(p) /\ q = Successor(p)
      <4>1. CASE SkipLabel
        BY <4>1 DEF SkipLabel, Skips, CanGo, Successor, SkipperPosition
      <4>2. CASE SkipQuestion
        <5>1. ~(skipEntry >= Questions)
          BY <1>2, <4>2 DEF SkipQuestion, Skips
        <5> QED
          BY <4>2, <5>1 DEF SkipQuestion, Skips, CanGo, Successor, SkipperPosition
      <4>3. CASE SkipAnswer /\ SkippedIsFine
        <5>1. ~(skipEntry < Questions)
          BY <1>2, <4>3 DEF SkipAnswer, Skips
        <5> QED
          BY <4>3, <5>1 DEF SkipAnswer, SkippedIsFine, Skipped, Skips, CanGo, Successor,
                            SkipperPosition
      <4> QED
        BY <2>3, <4>1, <4>2, <4>3
    <3> QED
      BY <3>1, <3>2, GoesOn
  <2>4. CASE SkipAnswer /\ ~SkippedIsFine
    <3>1. q = p /\ ~CanGo(p) /\ skipEntry < Entries /\ SkipperAt' = "raised"
      BY <2>4 DEF SkipAnswer, SkippedIsFine, Skipped, Skips, SkipRaise, SkipperAt,
                  SkipperPosition, CanGo
    <3> QED
      BY <1>2, <2>4, <3>1 DEF SkipAnswer, Skips, SkipRaise
  <2>5. CASE ReturnSkipped
    BY <1>2, <2>5 DEF ReturnSkipped, SkipperAt, SkipperPosition
  <2> QED
    BY <2>1, <2>2, <2>3, <2>4, <2>5 DEF Skip
<1> HIDE DEF p
<1>4. PICK c : c = q
  OBVIOUS
<1>5. SkipperPosition' = c
  BY <1>4 DEF SkipperPosition
<1>6. (Reached(c)' <=> Reached(c)) /\ (CanGo(c)' <=> CanGo(c))
  BY <1>1, StaysReached
<1>7. /\ SkipperAt' \in {"entries", "returned"} /\ Rcode = 0 => Reached(SkipperPosition)'
      /\ SkipperAt' = "raised" =>
           \/ ~HeaderIsFine
           \/ Reached(SkipperPosition)' /\ ~CanGo(SkipperPosition)' /\ skipEntry' < Entries
  BY <1>3, <1>4, <1>5, <1>6
<1> QED
  BY <1>1, <1>3, <1>7 DEF SkipperWalked

\* What one parser does leaves the other where it is.
LEMMA WalkedStays ==
  ASSUME message' = message
  PROVE  /\ ReaderWalked /\ UNCHANGED readVars => ReaderWalked'
         /\ SkipperWalked /\ UNCHANGED skipVars => SkipperWalked'
<1>1. /\ Entries' = Entries /\ Rcode' = Rcode /\ (HeaderIsFine' <=> HeaderIsFine)
  BY Same
<1>2. PICK r : r = ReaderPosition
  OBVIOUS
<1>3. PICK s : s = SkipperPosition
  OBVIOUS
<1>4. /\ Reached(r)' <=> Reached(r)
      /\ Reached(s)' <=> Reached(s)
      /\ CanGo(s)' <=> CanGo(s)
  BY StaysReached
<1>5. UNCHANGED readVars =>
        /\ ReaderPosition' = r /\ ReaderAt' = ReaderAt /\ ReaderEntry' = ReaderEntry
  BY <1>2 DEF ReaderPosition, ReaderAt, ReaderEntry, ReaderOffset
<1>6. UNCHANGED skipVars => SkipperPosition' = s /\ SkipperAt' = SkipperAt
  BY <1>3 DEF SkipperPosition, SkipperAt
<1> QED
  BY <1>1, <1>2, <1>3, <1>4, <1>5, <1>6 DEF ReaderWalked, SkipperWalked

\* For every message whatsoever: what the detector's parser accepts, the generator's
\* accepts, and it finds the same addresses in it.
THEOREM ParsersAgree == Spec => []AgreeOnRecords
<1> DEFINE I == IInv /\ ReaderWalked /\ SkipperWalked
<1>1. Init => I
  BY InitInv DEF Init, ReaderWalked, SkipperWalked, ReaderAt, SkipperAt
<1>2. ASSUME I, [Next]_vars
      PROVE  I'
  <2>1. CASE Read /\ UNCHANGED <<message, skipVars>>
    BY <1>2, <2>1, ReadKeepsInv, ReadStaysWalked, WalkedStays
  <2>2. CASE Skip /\ UNCHANGED <<message, readVars>>
    BY <1>2, <2>2, SkipKeepsInv, SkipStaysWalked, WalkedStays
  <2>3. CASE UNCHANGED vars
    <3>1. IInv'
      BY <1>2, <2>3, Same DEF vars, IInv, TypeOK, Jumped, Framed, IsPointer, Byte
    <3> QED
      BY <1>2, <2>3, <3>1, WalkedStays DEF vars
  <2> QED
    BY <1>2, <2>1, <2>2, <2>3 DEF Next
<1>3. I => AgreeOnRecords
  <2> SUFFICES ASSUME I, reading = "returned", skipping \in Ended
               PROVE  skipping = "returned" /\ answers = addresses
    BY DEF AgreeOnRecords
  <2>1. HeaderIsFine /\ Rcode = 0 /\ Entries \in Nat
    BY HeaderIs DEF IInv, Framed, TypeOK
  <2>2. Reached(ReaderPosition) /\ ~CanGo(ReaderPosition) /\ ReaderEntry = Entries
    BY <2>1 DEF ReaderWalked, ReaderAt, CanGo, ReaderPosition
  <2>3. /\ Reached(SkipperPosition) /\ ~CanGo(SkipperPosition)
        /\ skipping = "raised" => skipEntry < Entries
    BY <2>1 DEF SkipperWalked, SkipperAt, CanGo, SkipperPosition
  <2>4. ReaderPosition = SkipperPosition
    BY <2>2, <2>3, EndsAgree
  <2> QED
    BY <2>1, <2>2, <2>3, <2>4 DEF ReaderPosition, SkipperPosition
<1> QED
  BY <1>1, <1>2, <1>3, PTL DEF Spec
=============================================================================
