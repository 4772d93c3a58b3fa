--------------------------- MODULE MCSniDetector ---------------------------
(* Instances of SniDetector: three names and two addresses; zones with a     *)
(* direct answer, a CNAME chain, a chain longer than MaxDepth, a loop,       *)
(* rotating and empty answers, and resolvers that disagree.                  *)
EXTENDS SniDetector

A(addresses) == [addresses |-> addresses, cnames |-> {}]
C(targets)   == [addresses |-> {}, cnames |-> targets]
Everyone(table) == [r \in Asked |-> table]

MCNames == {"a", "b", "c"}
MCAddresses == {"x", "y"}
MCReliable == {1}
MCNone == {}

Chain == [n \in MCNames |-> CASE n = "a" -> {C({"b"})}
                              [] n = "b" -> {C({"c"})}
                              [] n = "c" -> {A({"x"})}]
Loop == [n \in MCNames |-> CASE n = "a" -> {C({"b"})}
                             [] n = "b" -> {C({"a", "invalid"})}
                             [] n = "c" -> {A({"y"})}]
Rotating == [n \in MCNames |-> CASE n = "a" -> {A({"x"}), A({"x", "y"}), C({"c"})}
                                 [] n = "b" -> {C({"c"}), C({"a"})}
                                 [] n = "c" -> {A({"x"}), A({})}]
Split == [n \in MCNames |-> CASE n = "a" -> {A({"x"}), A({})}
                              [] n = "b" -> {C({"a"})}
                              [] n = "c" -> {A({"y"})}]
Direct == [n \in MCNames |-> {A({"x"})}]
Fans == [n \in MCNames |-> CASE n = "a" -> {C({"b", "c"})}
                             [] n = "b" -> {A({})}
                             [] n = "c" -> {A({"x", "y"})}]

MCZones == {Everyone(Chain), Everyone(Loop), Everyone(Rotating), Everyone(Fans), Everyone(Split),
            [r \in Asked |-> IF r = 1 THEN Chain ELSE Loop]}
MCDirect == {Everyone(Direct)}

Message(sni, dst) == [sni |-> sni, dst |-> dst]
Data(events) == [control |-> FALSE, events |-> events]

MCBatches == {Data(<<Message("a", "x"), Message("b", "y")>>),
              Data(<<Message("c", "x"), Message("invalid", "x"), Message("a", "x")>>),
              [control |-> TRUE, events |-> <<>>]}
MCTwoEvents == {Data(<<Message("a", "x"), Message("b", "x")>>)}
=============================================================================
