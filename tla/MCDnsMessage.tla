--------------------------- MODULE MCDnsMessage ----------------------------
(* Responses with numbers and addresses of one byte: every name of up to     *)
(* three bytes out of labels, zeros and pointers - to the header, to the     *)
(* first entry and so to themselves, to another pointer, and out of range -  *)
(* in an only entry, shorter ones behind a first entry, records of every     *)
(* kind of interest, and all of it also cut off.                             *)
EXTENDS DnsMessage

Strings(S, n) == UNION {[1..k -> S] : k \in 0..n}
Bodies(S, T) == {s \o t : s \in S, t \in T}

\* A body begins at byte 6.
Pieces == {0, 1, 6, 192}
MCNames == Strings(Pieces, 3)
SecondNames == Strings({0, 6, 192}, 2)
FirstNames == {<<0>>, <<192, 0>>, <<192, 6>>, <<1, 6, 0>>, <<1, 192, 0>>, <<192, 192>>}

\* An answer of type t, class c and with the data d.
Answer(t, c, d) == <<t, c, 0, 0, Len(d)>> \o d
Rest == {Answer(1, 1, <<6>>), Answer(1, 0, <<6>>), Answer(1, 1, <<6, 6>>),
         Answer(5, 1, <<0>>), Answer(5, 1, <<192, 6>>), Answer(5, 1, <<192, 14>>)}
FirstRest == {Answer(1, 1, <<0>>), Answer(5, 1, <<0, 6>>), Answer(5, 1, <<192, 14>>)}

Header(id, flags, questions, count) == <<id, flags, questions, count, 0, 0>>
After(first) == Bodies(first, Bodies(SecondNames, Rest))
One == Bodies({Header(0, 0, 0, 1)}, Bodies(MCNames, Rest))
Two == Bodies({Header(0, 0, 1, 1)}, After(Bodies(FirstNames, {<<1, 1>>})))
       \cup Bodies({Header(0, 0, 0, 2)}, After(Bodies({<<0>>, <<1, 6, 0>>}, FirstRest)))
Others == {Header(1, 0, 0, 0), Header(0, 3, 0, 0), Header(0, 0, 0, 0), <<0>>}
Cut(m, n) == SubSeq(m, 1, Len(m) - n)
MCMessages == {Cut(m, n) : m \in One, n \in 0..7} \cup Two
              \cup {Cut(m, 1) : m \in Two} \cup Others
=============================================================================
