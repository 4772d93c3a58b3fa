---------------------------- MODULE MCHttpGuard ----------------------------
(* An instance of HttpGuard: a policy in strict mode and one in audit mode   *)
(* with different hosts, one that does not load; a reliable and an           *)
(* unreliable resolver; answers that rotate, a chain as long as the depth    *)
(* allows, one that is one longer, and a loop.                               *)
EXTENDS HttpGuard

MCNames == {"a", "b", "c", "d"}
MCAddresses == {1, 2}

MCPolicies ==
    {[allowed |-> {"a", "b", "c"}, servers |-> <<"good", "flaky">>, queries |-> 1,
      mode |-> "strict"],
     [allowed |-> {"a", "d"}, servers |-> <<"flaky", "good">>, queries |-> 2,
      mode |-> "audit"],
     [allowed |-> {"a"}, servers |-> <<>>, queries |-> 1, mode |-> "strict"]}

Request(hosts, absolute) ==
    [line |-> TRUE, connect |-> FALSE, hosts |-> hosts, absolute |-> absolute]
MCRequests ==
    {Request(<<h>>, NoName) : h \in MCNames} \cup
    {Request(<<"a">>, "a"), Request(<<"a">>, "b"), Request(<<>>, NoName),
     Request(<<"a", "b">>, NoName), Request(<<NoName>>, NoName),
     [Request(<<>>, NoName) EXCEPT !.connect = TRUE],
     [Request(<<>>, NoName) EXCEPT !.line = FALSE]}

A(addresses) == [addresses |-> addresses, cname |-> NoName]
C(cname) == [addresses |-> {}, cname |-> cname]

\* a leads to c by one CNAME, b by two, d to itself or, if it rotates, to 2.
MCZone == [s \in {"good", "flaky"} |->
    [n \in MCNames |->
        CASE n = "a" -> IF s = "good" THEN {C("c")} ELSE {A({2}), A({})}
          [] n = "b" -> {C("a")}
          [] n = "c" -> {A({1}), A({1, 2})}
          [] n = "d" -> IF s = "good" THEN {C("d")} ELSE {C("d"), A({2})}]]
MCReliable == {"good"}
=============================================================================
