---------------------------- MODULE DnsMessage -----------------------------
(***************************************************************************)
(* One DNS response in the hands of the two parsers: the detector's        *)
(* parse_dns_response with read_dns_name, which follows pointers and       *)
(* checks every bound, and the generator's parse_a_records with            *)
(* skip_dns_name, which leaves both to Python.  They share nothing but the *)
(* message; their steps, one iteration of a loop each, interleave freely.  *)
(* The cnames the detector returns are left out, the reading of them not.  *)
(***************************************************************************)
EXTENDS DnsFormat

CONSTANT MaxJumps    \* read_dns_name: the pointers it follows

ASSUME JumpsAssumption == MaxJumps \in Nat

VARIABLES
    \* the detector's parser
    reading,      \* "header", "name", "cname", "returned" or "raised"
    offset,       \* the byte it reads
    resume,       \* read_dns_name: original_offset once it has jumped, else 0
    jumps,        \* read_dns_name: jumps
    after,        \* the end of the record whose cname it reads
    entry,        \* the questions and answers it is done with
    addresses,    \* the addresses it has found
    \* the generator's parser
    skipping,     \* "header", "name", "returned" or "raised"
    skipOffset,
    skipEntry,
    answers

nameVars == <<offset, resume, jumps, after>>
readVars == <<reading, nameVars, entry, addresses>>
skipVars == <<skipping, skipOffset, skipEntry, answers>>
vars == <<message, readVars, skipVars>>

Ended == {"returned", "raised"}

Init == /\ message \in Messages
        /\ reading = "header" /\ offset = 0 /\ entry = 0 /\ addresses = {}
        /\ resume = 0 /\ jumps = 0 /\ after = 0
        /\ skipping = "header" /\ skipOffset = 0 /\ skipEntry = 0 /\ answers = {}

-----------------------------------------------------------------------------
(* The detector.                                                           *)

Raise == reading' = "raised" /\ UNCHANGED <<nameVars, entry, addresses>>

ReadHeader ==
    /\ reading = "header"
    /\ \/ ~(HeaderIsFine /\ Rcode = 0) /\ Raise
       \/ /\ HeaderIsFine /\ Rcode = 0
          /\ reading' = "name"
          /\ offset' = HeaderSize
          /\ UNCHANGED <<resume, jumps, after, entry, addresses>>

InName == reading = "cname" \/ (reading = "name" /\ entry < Entries)
Pointer == (Byte(offset) % 64) * 256 + Byte(offset + 1)

FewJumps == jumps < MaxJumps
PointerIsFine == offset + 1 < Size /\ Pointer < Size /\ FewJumps
LabelIsFine == /\ AfterLabel(offset) <= Size
               /\ \A o \in offset + 1 .. AfterLabel(offset) - 1 : Byte(o) < 128
NameIsFine == /\ offset < Size
              /\ IF IsPointer(offset) THEN PointerIsFine ELSE LabelIsFine

NameRaises == InName /\ ~NameIsFine /\ Raise

FollowUncounted ==
    /\ InName /\ NameIsFine
    /\ IsPointer(offset)
    /\ offset' = Pointer
    /\ resume' = (IF resume = 0 THEN offset + 2 ELSE resume)
    /\ UNCHANGED <<reading, jumps, after, entry, addresses>>
FollowPointer ==
    /\ InName /\ NameIsFine
    /\ IsPointer(offset)
    /\ offset' = Pointer
    /\ resume' = (IF resume = 0 THEN offset + 2 ELSE resume)
    /\ jumps' = jumps + 1
    /\ UNCHANGED <<reading, after, entry, addresses>>

ReadLabel ==
    /\ InName /\ NameIsFine
    /\ ~EndsName(offset)
    /\ offset' = AfterLabel(offset)
    /\ UNCHANGED <<reading, resume, jumps, after, entry, addresses>>

\* The name has been read: what follows it is behind the first pointer.
NameIsRead == InName /\ NameIsFine /\ Byte(offset) = 0
BehindTheTarget == offset + 1
Behind == IF resume = 0 THEN offset + 1 ELSE resume

GoTo(o) == /\ offset' = o
           /\ resume' = 0 /\ jumps' = 0
PassEntry(o) == /\ GoTo(o)
                /\ entry' = entry + 1
                /\ reading' = "name"

ReadQuestion ==
    /\ reading = "name" /\ NameIsRead
    /\ entry < Questions
    /\ IF Behind + QuestionSize > Size
         THEN Raise
         ELSE PassEntry(Behind + QuestionSize) /\ UNCHANGED <<after, addresses>>

RecordStartsFine == DataOf(Behind) <= Size
RecordIsFine == DataOf(Behind) <= Size /\ AfterRecord(Behind) <= Size
ReadAnswer ==
    /\ reading = "name" /\ NameIsRead
    /\ entry >= Questions
    /\ \/ ~RecordIsFine /\ Raise
       \/ /\ RecordIsFine /\ IsAddress(Behind)
          /\ addresses' = addresses \cup {AddressOf(Behind)}
          /\ PassEntry(AfterRecord(Behind))
          /\ UNCHANGED after
       \/ /\ RecordIsFine /\ IsOfType(5, Behind)
          /\ reading' = "cname"
          /\ GoTo(DataOf(Behind))
          /\ after' = AfterRecord(Behind)
          /\ UNCHANGED <<entry, addresses>>
       \/ /\ RecordIsFine /\ ~IsAddress(Behind) /\ ~IsOfType(5, Behind)
          /\ PassEntry(AfterRecord(Behind))
          /\ UNCHANGED <<after, addresses>>

ReadCnameAndOn ==
    /\ reading = "cname" /\ NameIsRead
    /\ PassEntry(Behind)
    /\ UNCHANGED <<after, addresses>>
ReadCname ==
    /\ reading = "cname" /\ NameIsRead
    /\ PassEntry(after)
    /\ UNCHANGED <<after, addresses>>

ReturnRead ==
    /\ reading = "name" /\ entry = Entries
    /\ reading' = "returned"
    /\ UNCHANGED <<nameVars, entry, addresses>>

Read == \/ ReadHeader \/ NameRaises \/ FollowPointer \/ ReadLabel
        \/ ReadQuestion \/ ReadAnswer \/ ReadCname \/ ReturnRead

-----------------------------------------------------------------------------
(* The generator.  A byte behind the end is an IndexError, a slice that is *)
(* too short a struct.error or, for an address, an OSError.                *)

SkipRaise == skipping' = "raised" /\ UNCHANGED <<skipOffset, skipEntry, answers>>

SkipHeader ==
    /\ skipping = "header"
    /\ \/ ~HeaderIsFine /\ SkipRaise
       \/ /\ HeaderIsFine
          /\ IF Rcode = 0 THEN skipping' = "name" ELSE skipping' = "returned"
          /\ skipOffset' = HeaderSize
          /\ UNCHANGED <<skipEntry, answers>>

Skips == skipping = "name" /\ skipEntry < Entries
SkipBehind == Skips /\ skipOffset >= Size /\ SkipRaise

SkipLabel ==
    /\ Skips /\ skipOffset < Size
    /\ ~EndsName(skipOffset)
    /\ skipOffset' = AfterLabel(skipOffset)
    /\ UNCHANGED <<skipping, skipEntry, answers>>

SkipQuestion ==
    /\ Skips /\ skipOffset < Size
    /\ EndsName(skipOffset)
    /\ skipEntry < Questions
    /\ skipOffset' = AfterName(skipOffset) + QuestionSize
    /\ skipEntry' = skipEntry + 1
    /\ UNCHANGED <<skipping, answers>>

BehindTheFirstByte == skipOffset + 1
Skipped == AfterName(skipOffset)
SkippedIsFine == /\ DataOf(Skipped) <= Size
                 /\ IsAddress(Skipped) => AfterRecord(Skipped) <= Size
SkipAnswer ==
    /\ Skips /\ skipOffset < Size
    /\ EndsName(skipOffset)
    /\ skipEntry >= Questions
    /\ \/ ~SkippedIsFine /\ SkipRaise
       \/ /\ SkippedIsFine
          /\ skipOffset' = AfterRecord(Skipped)
          /\ answers' = answers \cup
                          (IF IsAddress(Skipped) THEN {AddressOf(Skipped)} ELSE {})
          /\ skipEntry' = skipEntry + 1
          /\ UNCHANGED skipping

ReturnSkipped ==
    /\ skipping = "name" /\ skipEntry = Entries
    /\ skipping' = "returned"
    /\ UNCHANGED <<skipOffset, skipEntry, answers>>

Skip == \/ SkipHeader \/ SkipBehind \/ SkipLabel
        \/ SkipQuestion \/ SkipAnswer \/ ReturnSkipped

-----------------------------------------------------------------------------
Next == \/ Read /\ UNCHANGED <<message, skipVars>>
        \/ Skip /\ UNCHANGED <<message, readVars>>

Spec == Init /\ [][Next]_vars

\* A Lambda that has a message goes on parsing it.
FairSpec == Spec /\ WF_vars(Read /\ UNCHANGED <<message, skipVars>>)
                 /\ WF_vars(Skip /\ UNCHANGED <<message, readVars>>)

-----------------------------------------------------------------------------
(* Properties                                                              *)

\* The variables stay in their domains: the detector never reads behind the end, and
\* never follows more pointers than it may.
TypeOK ==
    /\ message \in Seq(Octet)
    /\ reading \in {"header", "name", "cname"} \cup Ended
    /\ offset \in 0..Size /\ resume \in 0..Size /\ after \in 0..Size
    /\ jumps \in 0..MaxJumps
    /\ entry \in Nat
    /\ skipping \in {"header", "name"} \cup Ended
    /\ skipOffset \in Nat /\ skipEntry \in Nat

\* A response the detector's parser accepts, the generator's accepts too, and both take
\* the same addresses from it, whatever the names and pointers in it.
AgreeOnRecords ==
    reading = "returned" /\ skipping \in Ended =>
        skipping = "returned" /\ answers = addresses

Stage(where) == IF where = "header" THEN 0 ELSE IF where = "name" THEN 1 ELSE 2

\* Every step ends a parser, passes an entry, begins the cname of one, follows one more
\* of the bounded pointers or moves on in the message: no response, not one whose
\* pointers lead back to themselves, is parsed for ever.
ReadingProgresses ==
    [][ \/ reading' \in Ended
        \/ entry' > entry
        \/ /\ entry' = entry
           /\ \/ Stage(reading') > Stage(reading)
              \/ /\ reading' = reading
                 /\ jumps' > jumps \/ (jumps' = jumps /\ offset' > offset)
      ]_readVars

\* Both parsers are done with every response.
ParsingEnds == <>(reading \in Ended) /\ <>(skipping \in Ended)

\* Each parser walks over the entries as DnsWalk says; the walk of the detector is at
\* the first pointer while that is followed, and behind the record while its cname is
\* read.
ReaderAt == IF reading \in {"name", "cname"} THEN "entries" ELSE reading
ReaderOffset == IF reading = "cname" THEN after
                ELSE IF resume # 0 THEN resume - 2 ELSE offset
ReaderEntry == IF reading = "cname" THEN entry + 1 ELSE entry
Reader == INSTANCE DnsWalk WITH at <- ReaderAt, offset <- ReaderOffset,
                                entry <- ReaderEntry
SkipperAt == IF skipping = "name" THEN "entries" ELSE skipping
Skipper == INSTANCE DnsWalk WITH at <- SkipperAt, offset <- skipOffset,
                                 entry <- skipEntry, addresses <- answers
ReaderWalks == Reader!Spec
SkipperWalks == Skipper!Spec
=============================================================================
