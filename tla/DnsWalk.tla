------------------------------ MODULE DnsWalk ------------------------------
(***************************************************************************)
(* What the DNS parser of either Lambda promises: it walks over the        *)
(* entries of the response in order, takes from each answer the address it *)
(* holds, and at any point may give up.  Pointers are where a name ends,   *)
(* and where they lead is no matter of the walk.  Both parsers are shown   *)
(* to implement it: two that return have taken the same addresses.         *)
(***************************************************************************)
EXTENDS DnsFormat

VARIABLES
    at,          \* "header", "entries", "returned" or "raised"
    offset,      \* the byte the walk is at
    entry,       \* the questions and answers it has passed
    addresses    \* the addresses of the answers it has passed

walkVars == <<at, offset, entry, addresses>>

Init == /\ message \in Seq(Octet)
        /\ at = "header" /\ offset = 0 /\ entry = 0 /\ addresses = {}

PassHeader == /\ at = "header"
              /\ HeaderIsFine
              /\ IF Rcode = 0 THEN at' = "entries" ELSE at' = "returned"
              /\ offset' = HeaderSize
              /\ UNCHANGED <<entry, addresses>>

InEntry == at = "entries" /\ entry < Entries /\ offset < Size

PassLabel == /\ InEntry
             /\ ~EndsName(offset)
             /\ offset' = AfterLabel(offset)
             /\ UNCHANGED <<at, entry, addresses>>

PassQuestion == /\ InEntry
                /\ EndsName(offset)
                /\ entry < Questions
                /\ offset' = AfterName(offset) + QuestionSize
                /\ entry' = entry + 1
                /\ UNCHANGED <<at, addresses>>

PassAnswer == /\ InEntry
              /\ EndsName(offset)
              /\ entry >= Questions
              /\ LET record == AfterName(offset)
                 IN  /\ DataOf(record) <= Size
                     /\ IsAddress(record) => AfterRecord(record) <= Size
                     /\ offset' = AfterRecord(record)
                     /\ addresses' = addresses \cup
                                       (IF IsAddress(record) THEN {AddressOf(record)} ELSE {})
              /\ entry' = entry + 1
              /\ UNCHANGED at

Return == /\ at = "entries"
          /\ entry = Entries
          /\ at' = "returned"
          /\ UNCHANGED <<offset, entry, addresses>>

\* Where a parser was when it gave up is forgotten.
GiveUp == /\ at \notin {"returned", "raised"}
          /\ at' = "raised"
          /\ offset' \in Nat /\ entry' \in Nat
          /\ UNCHANGED addresses

Next == \/ PassHeader \/ PassLabel \/ PassQuestion \/ PassAnswer \/ Return \/ GiveUp

Spec == Init /\ [][Next /\ UNCHANGED message]_<<message, walkVars>>
=============================================================================
