-------------------------- MODULE HttpGuard_proofs --------------------------
(***************************************************************************)
(* Proofs about the HTTP Host guard, for every policy, request, zone and   *)
(* number of resolvers, while the policy changes under the connection.     *)
(***************************************************************************)
EXTENDS HttpGuard, WellFoundedInduction, TLAPS

(***************************************************************************)
(* Facts about the data.                                                   *)
(***************************************************************************)

LEMMA SmallestIsThere ==
  ASSUME NEW S \in SUBSET Nat, S # {}
  PROVE  Smallest(S) \in S
<1> DEFINE R == {ss \in Nat \X Nat : ss[1] < ss[2]}
<1>1. IsWellFoundedOn(R, Nat)
  BY NatLessThanWellFounded, Zenon DEF OpToRel
<1>2. PICK m \in S : \A n \in S : ~(<<n, m>> \in R)
  BY <1>1, WFMin, Zenon
<1>3. \A n \in S : ~(n < m)
  <2> SUFFICES ASSUME NEW n \in S, n < m
               PROVE  FALSE
    OBVIOUS
  <2>1. n \in Nat /\ m \in Nat
    OBVIOUS
  <2>2. <<n, m>> \in R
    BY <2>1
  <2> QED
    BY <1>2, <2>2
<1>4. \A n \in S : m <= n
  BY <1>3
<1> QED
  BY <1>4 DEF Smallest

LEMMA HostIsAName ==
  ASSUME request \in Requests, NamesOneHost(request)
  PROVE  Host \in Names
<1>1. request.hosts \in Seq(Names \cup {NoName})
  BY RequestsAssumption
<1> QED
  BY <1>1 DEF NamesOneHost, Host

LEMMA PolicyServers ==
  ASSUME NEW p \in Policies, NEW i \in 1..Len(p.servers)
  PROVE  p.servers[i] \in DOMAIN Zone
  BY PoliciesAssumption

LEMMA ChainLeads ==
  ASSUME NEW s, NEW h, NEW n, NEW d, NEW chain \in [0..d -> Names],
         chain[0] = h, chain[d] = n,
         \A i \in 0..(d - 1) : \E b \in Zone[s][chain[i]] :
           b.addresses = {} /\ b.cname = chain[i + 1]
  PROVE  LeadsTo(s, h, n, d)
  BY DEF LeadsTo

LEMMA LeadsToItself ==
  ASSUME NEW s, NEW h \in Names
  PROVE  LeadsTo(s, h, h, 0)
<1> DEFINE chain == [i \in 0..0 |-> h]
<1>1. /\ chain \in [0..0 -> Names] /\ chain[0] = h
      /\ \A i \in 0..(0 - 1) : \E a \in Zone[s][chain[i]] :
           a.addresses = {} /\ a.cname = chain[i + 1]
  OBVIOUS
<1> HIDE DEF chain
<1> QED
  BY <1>1 DEF LeadsTo

LEMMA LeadsFurther ==
  ASSUME NEW s, NEW h, NEW n, NEW d \in Nat, LeadsTo(s, h, n, d),
         NEW ans \in Zone[s][n], ans.addresses = {}, ans.cname \in Names,
         NEW e, e = d + 1
  PROVE  LeadsTo(s, h, ans.cname, e)
<1>1. PICK chain \in [0..d -> Names] :
        /\ chain[0] = h /\ chain[d] = n
        /\ \A i \in 0..(d - 1) : \E b \in Zone[s][chain[i]] :
             b.addresses = {} /\ b.cname = chain[i + 1]
  BY DEF LeadsTo
<1> DEFINE longer == [i \in 0..e |-> IF i = e THEN ans.cname ELSE chain[i]]
<1>2. longer \in [0..e -> Names] /\ longer[0] = h /\ longer[e] = ans.cname
  BY <1>1
<1>3. ASSUME NEW i \in 0..(e - 1)
      PROVE  \E b \in Zone[s][longer[i]] : b.addresses = {} /\ b.cname = longer[i + 1]
  <2>1. CASE i = d
    <3>1. longer[i] = n /\ longer[i + 1] = ans.cname
      BY <1>1, <2>1
    <3> QED
      BY <3>1
  <2>2. CASE i # d
    <3>1. i \in 0..(d - 1) /\ longer[i] = chain[i] /\ longer[i + 1] = chain[i + 1]
      BY <2>2
    <3> QED
      BY <1>1, <3>1
  <2> QED
    BY <2>1, <2>2
<1> HIDE DEF longer
<1> QED
  BY <1>2, <1>3, ChainLeads

-----------------------------------------------------------------------------
(***************************************************************************)
(* The invariant: what the connection knows in each phase.                 *)
(***************************************************************************)

Beyond == {"peek", "lookup", "decide", "forwarded"}

\* The policy in use loads, and the request in use names an allowed host.
Checked ==
    /\ phase \in Beyond => Loads(pol)
    /\ phase \in {"lookup", "decide", "forwarded"} =>
         NamesOneHost(request) /\ Host \in conf.allowed
    /\ phase \in {"new", "accepted", "peek"} =>
         resolved = {} /\ server = 1 /\ query = 1 /\ depth = 0
    /\ phase \notin {"forwarded", "closed"} => decision = "undecided" /\ ~logged

\* The name looked up is where the server asked led to from the host.
Chained ==
    phase = "lookup" =>
        /\ name \in Names
        /\ LeadsTo(Server, Host, name, depth)
        /\ Server \in Reliable /\ AlwaysTells(Server, Host, dst) => depth <= MaxDepth

\* Every address resolved was told by a server of the policy.
Told == \A ad \in resolved : \E s \in Asked : Tells(s, Host, ad)

\* The servers the loop is done with.
Done(i) == \/ phase \in {"decide", "forwarded"}
           \/ phase = "lookup" /\ (i < server \/ (i = server /\ query > 1))
Found ==
    \A i \in 1..Len(pol.servers) :
        Done(i) /\ pol.servers[i] \in Reliable /\ AlwaysTells(pol.servers[i], Host, dst)
          => dst \in resolved

Passed ==
    /\ phase = "forwarded" => /\ target \in resolved
                              /\ dst \notin resolved => logged /\ pol.mode = "audit"
    /\ decision \in {"resolver_query_failed", "mismatch"} \/ logged =>
         \A s \in Asked \cap Reliable : ~AlwaysTells(s, Host, dst)

\* As long as the window has stayed closed, the connection's configuration is on disk.
Coherent ==
    /\ Window!Coherent
    /\ phase = "accepted" /\ ~wasOpen => ~open /\ conf = onDisk
    /\ MixesOnlyDuringRefresh

IInv == TypeOK /\ Checked /\ Chained /\ Told /\ Found /\ Passed /\ Coherent

USE DEF windowVars, loopVars, searchVars, inputVars, outputVars

LEMMA InitInv ==
  ASSUME Init
  PROVE  IInv
<1> USE DEF Init, Window!Init
<1>1. TypeOK
  <2>1. 0 \in 0..(MaxDepth + 1)
    BY DepthAssumption
  <2>2. decision \in Decisions
    BY DEF Decisions
  <2>3. onDisk \in Policies /\ inWorkers \in Policies /\ open \in BOOLEAN
    OBVIOUS
  <2>4. phase = "new" /\ conf \in Policies /\ pol \in Policies /\ request \in Requests
    OBVIOUS
  <2>5. /\ server = 1 /\ query = 1 /\ name = NoName /\ depth = 0 /\ resolved = {}
        /\ dst = 0 /\ target = 0
    OBVIOUS
  <2>6. logged \in BOOLEAN /\ wasOpen \in BOOLEAN
    OBVIOUS
  <2> HIDE DEF Init, Window!Init
  <2> QED
    BY <2>1, <2>2, <2>3, <2>4, <2>5, <2>6 DEF TypeOK
<1>2. Checked /\ Chained /\ Told
  BY DEF Checked, Beyond, Chained, Told
<1>3. Found /\ Passed
  BY DEF Found, Done, Passed
<1>4. Coherent
  BY DEF Coherent, MixesOnlyDuringRefresh
<1> QED
  BY <1>1, <1>2, <1>3, <1>4 DEF IInv

-----------------------------------------------------------------------------
(***************************************************************************)
(* The steps.                                                              *)
(***************************************************************************)

LEMMA RefreshKeepsInv ==
  ASSUME IInv, Refresh
  PROVE  IInv'
<1> USE DEF IInv, Refresh
<1>1. /\ onDisk' \in Policies /\ inWorkers' \in Policies /\ open' \in BOOLEAN
      /\ open \/ open'
      /\ Window!Coherent'
  BY DEF Window!Next, Window!Coherent
<1>2. wasOpen' \in BOOLEAN
  BY DEF TypeOK
<1>3. TypeOK'
  BY <1>1, <1>2 DEF TypeOK
<1>4. Checked'
  BY DEF Checked, Beyond, Host
<1>5. Chained' /\ Told'
  BY DEF Chained, Told, Server, Host, Asked
<1>6. Found' /\ Passed'
  BY DEF Found, Done, Passed, Host, Asked
<1>7. Coherent'
  <2>1. ASSUME phase' = "accepted", ~wasOpen'
        PROVE  FALSE
    BY <1>1, <2>1 DEF Coherent
  <2>2. MixesOnlyDuringRefresh'
    BY DEF Coherent, MixesOnlyDuringRefresh
  <2> QED
    BY <1>1, <2>1, <2>2 DEF Coherent
<1> QED
  BY <1>3, <1>4, <1>5, <1>6, <1>7

LEMMA AcceptKeepsInv ==
  ASSUME IInv, Accept
  PROVE  IInv'
<1> USE DEF IInv, Accept
<1>1. TypeOK'
  BY DEF TypeOK
<1>2. Checked' /\ Chained' /\ Told'
  BY DEF Checked, Beyond, Chained, Told
<1>3. Found' /\ Passed'
  BY DEF Found, Done, Passed, Checked
<1>4. Coherent'
  BY DEF Coherent, Window!Coherent, MixesOnlyDuringRefresh
<1> QED
  BY <1>1, <1>2, <1>3, <1>4

\* What is read of the policy is what is on disk at that moment.
LEMMA LoadKeepsInv ==
  ASSUME IInv, LoadFails \/ NoDestination \/ Load
  PROVE  IInv'
<1> USE DEF IInv, LoadFails, NoDestination, Load, Close
<1>1. TypeOK'
  BY DEF TypeOK, Decisions
<1>2. Checked' /\ Chained' /\ Told'
  BY DEF Checked, Beyond, Chained, Told
<1>3. Found' /\ Passed'
  BY DEF Found, Done, Passed, Checked
<1>4. Coherent'
  BY DEF Coherent, Window!Coherent, MixesOnlyDuringRefresh
<1> QED
  BY <1>1, <1>2, <1>3, <1>4

LEMMA RefusalKeepsInv ==
  ASSUME IInv, PeekFails \/ Refuse \/ Deny \/ LuaRaises
  PROVE  IInv'
<1> USE DEF IInv, PeekFails, Refuse, Deny, LuaRaises, Close
<1>1. TypeOK'
  BY DEF TypeOK, Decisions
<1>2. Checked' /\ Chained' /\ Told'
  BY DEF Checked, Beyond, Chained, Told, Host, Asked
<1>3. Found' /\ Passed'
  BY DEF Found, Done, Passed, Checked
<1>4. Coherent'
  BY DEF Coherent, Window!Coherent, MixesOnlyDuringRefresh
<1> QED
  BY <1>1, <1>2, <1>3, <1>4

LEMMA BeginLookupsKeepsInv ==
  ASSUME IInv, BeginLookups
  PROVE  IInv'
<1> USE DEF IInv, BeginLookups
<1>1. /\ Host \in Names /\ Host' = Host
      /\ 1 \in 1..Len(pol.servers) /\ 1 <= pol.queries
      /\ resolved = {} /\ server = 1 /\ query = 1 /\ depth = 0
      /\ decision = "undecided" /\ ~logged
  <2>1. Host \in Names /\ Host' = Host
    BY HostIsAName DEF TypeOK, Host
  <2>2. Loads(pol) /\ pol.servers \in Seq(DOMAIN Zone)
    BY PoliciesAssumption DEF TypeOK, Checked, Beyond
  <2>3. 1 \in 1..Len(pol.servers) /\ 1 <= pol.queries
    BY <2>2 DEF Loads
  <2> QED
    BY <2>1, <2>3 DEF Checked
<1>2. TypeOK'
  BY <1>1 DEF TypeOK
<1>3. Checked' /\ Told'
  BY <1>1 DEF Checked, Beyond, Told, Allowed
<1>4. Chained'
  <2>1. LeadsTo(Server', Host, Host, 0)
    BY <1>1, LeadsToItself
  <2>2. name' = Host' /\ depth' = 0 /\ 0 <= MaxDepth
    BY <1>1, DepthAssumption
  <2> QED
    BY <1>1, <2>1, <2>2 DEF Chained
<1>5. Found'
  BY <1>1 DEF Found, Done
<1>6. Passed'
  BY <1>1 DEF Passed
<1>7. Coherent'
  BY DEF Coherent, Window!Coherent, MixesOnlyDuringRefresh
<1> QED
  BY <1>2, <1>3, <1>4, <1>5, <1>6, <1>7

\* The loop goes on soundly if the query that ends has found the destination
\* whenever it had to, and has found nothing but what its server tells.
LEMMA NextLookupKeepsInv ==
  ASSUME IInv, phase = "lookup", NextLookup,
         UNCHANGED <<windowVars, inputVars, outputVars, wasOpen>>,
         resolved \subseteq resolved', resolved' \subseteq Addresses,
         Server \in Reliable /\ AlwaysTells(Server, Host, dst) => dst \in resolved',
         \A ad \in resolved' : ad \in resolved \/ Tells(Server, Host, ad)
  PROVE  IInv'
<1> USE DEF IInv, NextLookup
<1>1. /\ Host \in Names /\ Host' = Host /\ Asked' = Asked
      /\ server \in 1..Len(pol.servers) /\ query \in 1..pol.queries
      /\ Len(pol.servers) \in Nat /\ pol.queries \in Nat
      /\ decision = "undecided" /\ ~logged
  <2>1. Host \in Names /\ Host' = Host
    BY HostIsAName DEF TypeOK, Checked, Host
  <2>2. pol.servers \in Seq(DOMAIN Zone) /\ pol.queries \in Nat
    BY PoliciesAssumption DEF TypeOK
  <2>3. server \in 1..Len(pol.servers) /\ query \in 1..pol.queries
    BY <2>2 DEF TypeOK
  <2> QED
    BY <2>1, <2>2, <2>3 DEF Checked, Asked
<1>2. \/ /\ phase' = "lookup" /\ server' = server /\ query' = query + 1
         /\ query < pol.queries
      \/ /\ phase' = "lookup" /\ server' = server + 1 /\ query' = 1
         /\ server < Len(pol.servers)
      \/ phase' = "decide" /\ server' = server /\ query' = 1 /\ server = Len(pol.servers)
  BY <1>1
<1>3. server' \in 1..Len(pol.servers) /\ query' \in 1..pol.queries
  BY <1>1, <1>2
<1>4. TypeOK'
  <2>1. phase' \in {"new", "accepted", "peek", "lookup", "decide", "forwarded", "closed"}
    BY <1>2
  <2>2. depth' \in 0..(MaxDepth + 1)
    BY DepthAssumption
  <2>3. server' \in Nat \ {0} /\ query' \in Nat \ {0}
    BY <1>1, <1>3
  <2>4. server' <= Len(pol'.servers) /\ query' <= pol'.queries
    BY <1>3
  <2>5. name' \in Names \cup {NoName}
    BY <1>1
  <2> QED
    BY <2>1, <2>2, <2>3, <2>4, <2>5 DEF TypeOK
<1>5. Checked'
  BY <1>1, <1>2 DEF Checked, Beyond
<1>6. Chained'
  <2>1. LeadsTo(Server', Host, Host, 0)
    BY <1>1, LeadsToItself
  <2>2. name' = Host' /\ depth' = 0 /\ 0 <= MaxDepth
    BY <1>1, DepthAssumption
  <2> QED
    BY <1>1, <2>1, <2>2 DEF Chained
<1>7. Told'
  <2>1. Server \in Asked
    BY <1>1 DEF Server, Asked
  <2> QED
    BY <1>1, <2>1 DEF Told
<1>8. Found'
  <2> SUFFICES ASSUME NEW i \in 1..Len(pol.servers), Done(i)',
                      pol.servers[i] \in Reliable,
                      AlwaysTells(pol.servers[i], Host, dst)
               PROVE  dst \in resolved'
    BY <1>1 DEF Found
  <2>1. Done(i) \/ i = server
    BY <1>1, <1>2 DEF Done
  <2>2. CASE Done(i)
    BY <2>2 DEF Found
  <2>3. CASE i = server
    BY <2>3 DEF Server
  <2> QED
    BY <2>1, <2>2, <2>3
<1>9. Passed'
  BY <1>1, <1>2 DEF Passed
<1>10. Coherent'
  BY <1>2 DEF Coherent, Window!Coherent, MixesOnlyDuringRefresh
<1> QED
  BY <1>4, <1>5, <1>6, <1>7, <1>8, <1>9, <1>10

LEMMA LookupKeepsInv ==
  ASSUME IInv, Lookup
  PROVE  IInv'
<1> USE DEF IInv
<1>1. phase = "lookup" /\ Host \in Names /\ Server \in DOMAIN Zone
  <2>1. phase = "lookup"
    BY DEF Lookup, DepthExceeded, QueryFails, GetAnswer
  <2>2. Host \in Names
    BY <2>1, HostIsAName DEF TypeOK, Checked
  <2>3. pol.servers \in Seq(DOMAIN Zone)
    BY PoliciesAssumption DEF TypeOK
  <2>4. Server \in DOMAIN Zone
    BY <2>1, <2>3 DEF TypeOK, Server
  <2> QED
    BY <2>1, <2>2, <2>4
<1>2. CASE DepthExceeded
  <2>1. ~(Server \in Reliable /\ AlwaysTells(Server, Host, dst))
    BY <1>1, <1>2, DepthAssumption DEF DepthExceeded, TooDeep, Chained, TypeOK
  <2> QED
    BY <1>1, <1>2, <2>1, NextLookupKeepsInv DEF DepthExceeded, TypeOK
<1>3. CASE QueryFails
  BY <1>1, <1>3, NextLookupKeepsInv DEF QueryFails, AfterFailure, TypeOK
<1>4. CASE GetAnswer
  <2>1. PICK ans \in Zone[Server][name] : GetAddresses(ans) \/ FollowCname(ans)
    BY <1>4 DEF GetAnswer
  <2>2. /\ name \in Names /\ LeadsTo(Server, Host, name, depth)
        /\ depth \in 0..MaxDepth
        /\ ans.addresses \subseteq Addresses /\ ans.cname \in Names \cup {NoName}
        /\ UNCHANGED <<windowVars, inputVars, outputVars, wasOpen>>
    <3>1. name \in Names /\ LeadsTo(Server, Host, name, depth)
      BY <1>1 DEF Chained
    <3>2. depth \in 0..MaxDepth
      BY <1>4, DepthAssumption DEF GetAnswer, TooDeep, TypeOK
    <3>3. ans.addresses \subseteq Addresses /\ ans.cname \in Names \cup {NoName}
      BY <1>1, <3>1, ZoneAssumption
    <3> QED
      BY <1>4, <3>1, <3>2, <3>3 DEF GetAnswer
  <2>3. AlwaysTells(Server, Host, dst) =>
          \/ dst \in ans.addresses
          \/ ans.addresses = {} /\ ans.cname # NoName /\ depth < MaxDepth
    BY <2>2 DEF AlwaysTells
  <2>4. CASE GetAddresses(ans)
    <3>1. \A ad \in ans.addresses : Tells(Server, Host, ad)
      BY <2>2 DEF Tells
    <3>2. AlwaysTells(Server, Host, dst) => dst \in resolved'
      BY <2>3, <2>4 DEF GetAddresses
    <3>3. \A ad \in resolved' : ad \in resolved \/ Tells(Server, Host, ad)
      BY <2>4, <3>1 DEF GetAddresses
    <3>4. NextLookup /\ resolved \subseteq resolved' /\ resolved' \subseteq Addresses
      BY <2>2, <2>4 DEF GetAddresses, TypeOK
    <3> QED
      BY <1>1, <2>2, <3>2, <3>3, <3>4, NextLookupKeepsInv
  <2>5. CASE FollowCname(ans)
    <3> USE <2>5 DEF FollowCname
    <3>1. /\ phase' = "lookup" /\ name' = ans.cname /\ name' \in Names
          /\ Host' = Host /\ Server' = Server /\ Asked' = Asked
      BY <1>1, <2>2 DEF Host, Server, Asked
    <3>2. TypeOK'
      <4>1. depth' \in 0..(MaxDepth + 1)
        BY <2>2, DepthAssumption
      <4> QED
        BY <1>1, <2>2, <3>1, <4>1 DEF TypeOK
    <3>3. Checked'
      BY <1>1, <2>2, <3>1 DEF Checked, Beyond
    <3>4. Chained'
      <4>1. LeadsTo(Server, Host, ans.cname, depth')
        BY <2>2, <3>1, LeadsFurther
      <4>2. AlwaysTells(Server, Host, dst) => depth' <= MaxDepth
        BY <2>2, <2>3, DepthAssumption
      <4> QED
        BY <2>2, <3>1, <4>1, <4>2 DEF Chained
    <3>5. Told' /\ Found'
      BY <1>1, <2>2, <3>1 DEF Told, Found, Done
    <3>6. Passed'
      BY <1>1, <2>2, <3>1 DEF Passed, Checked
    <3>7. Coherent'
      BY <1>1, <2>2 DEF Coherent, Window!Coherent, MixesOnlyDuringRefresh
    <3> QED
      BY <3>2, <3>3, <3>4, <3>5, <3>6, <3>7
  <2> QED
    BY <2>1, <2>4, <2>5
<1> QED
  BY <1>2, <1>3, <1>4 DEF Lookup

LEMMA DecideKeepsInv ==
  ASSUME IInv, Decide
  PROVE  IInv'
<1> USE DEF IInv, Decide, NothingResolved, DropMismatch, Forward, Close
<1>1. phase = "decide" /\ phase' \in {"forwarded", "closed"}
  OBVIOUS
<1>2. UNCHANGED <<windowVars, inputVars, searchVars, wasOpen>>
  OBVIOUS
<1>3. Host' = Host /\ Asked' = Asked
  BY <1>2 DEF Host, Asked
<1>4. dst \notin resolved => \A s \in Asked \cap Reliable : ~AlwaysTells(s, Host, dst)
  BY <1>1 DEF Found, Done, Asked
<1>5. Forward => target' \in resolved
  <2>1. resolved \in SUBSET Nat
    BY NamesAssumption DEF TypeOK
  <2> QED
    BY <2>1, SmallestIsThere
<1>6. logged' \in BOOLEAN
  BY Zenon DEF TypeOK, Mismatch
<1>7. TypeOK'
  BY <1>1, <1>2, <1>5, <1>6 DEF TypeOK, Decisions
<1>8. Checked' /\ Chained'
  BY <1>1, <1>2, <1>3 DEF Checked, Beyond, Chained
<1>9. Told' /\ Found'
  BY <1>1, <1>2, <1>3 DEF Told, Found, Done
<1>10. Passed'
  <2>1. CASE NothingResolved
    BY <1>1, <1>2, <1>3, <1>4, <2>1 DEF Passed, Checked
  <2>2. CASE DropMismatch
    BY <1>1, <1>2, <1>3, <1>4, <2>2 DEF Passed, Mismatch
  <2>3. CASE Forward
    <3>1. CASE Mismatch
      <4>1. logged' = TRUE
        BY <2>3, <3>1, Zenon
      <4>2. pol.mode = "audit"
        BY <1>1, <2>3, <3>1 DEF Enforced, Checked, Beyond, Loads
      <4> QED
        BY <1>2, <1>3, <1>4, <1>5, <2>3, <3>1, <4>1, <4>2 DEF Passed, Mismatch
    <3>2. CASE ~Mismatch
      <4>1. ~logged'
        BY <2>3, <3>2, Zenon
      <4> QED
        BY <1>2, <1>5, <2>3, <3>2, <4>1 DEF Passed, Mismatch
    <3> QED
      BY <3>1, <3>2
  <2> QED
    BY <2>1, <2>2, <2>3
<1>11. Coherent'
  BY <1>1, <1>2 DEF Coherent, Window!Coherent, MixesOnlyDuringRefresh
<1> QED
  BY <1>7, <1>8, <1>9, <1>10, <1>11

LEMMA StutterKeepsInv ==
  ASSUME IInv, UNCHANGED vars
  PROVE  IInv'
<1> USE DEF IInv, vars
<1>1. Host' = Host /\ Server' = Server /\ Asked' = Asked
  BY DEF Host, Server, Asked
<1>2. TypeOK' /\ Checked'
  BY <1>1 DEF TypeOK, Checked, Beyond
<1>3. Chained' /\ Told' /\ Found'
  BY <1>1 DEF Chained, Told, Found, Done
<1>4. Passed' /\ Coherent'
  BY <1>1 DEF Passed, Coherent, Window!Coherent, MixesOnlyDuringRefresh
<1> QED
  BY <1>2, <1>3, <1>4

LEMMA Invariance == Spec => []IInv
<1>1. IInv /\ [Next]_vars => IInv'
  <2> SUFFICES ASSUME IInv, [Next]_vars
               PROVE  IInv'
    OBVIOUS
  <2>1. CASE Refresh
    BY <2>1, RefreshKeepsInv
  <2>2. CASE Accept
    BY <2>2, AcceptKeepsInv
  <2>3. CASE Handle \/ LuaRaises
    BY <2>3, LoadKeepsInv, RefusalKeepsInv, BeginLookupsKeepsInv, LookupKeepsInv,
       DecideKeepsInv DEF Handle
  <2>4. CASE UNCHANGED vars
    BY <2>4, StutterKeepsInv
  <2> QED
    BY <2>1, <2>2, <2>3, <2>4 DEF Next
<1> QED
  BY InitInv, <1>1, PTL DEF Spec

-----------------------------------------------------------------------------
\* The variables stay in their domains, however the files change.
THEOREM TypeCorrect == Spec => []TypeOK
<1>1. IInv => TypeOK
  BY DEF IInv
<1> QED
  BY Invariance, <1>1, PTL

\* Whatever the client names as its destination, what is forwarded goes to an address
\* a resolver of the policy gave for the one host of the request.
THEOREM OnlyToTheHost == Spec => []ForwardsToItsHost
<1>1. IInv => ForwardsToItsHost
  BY DEF IInv, Checked, Passed, Told, NamesOneHost, Host, ForwardsToItsHost
<1> QED
  BY Invariance, <1>1, PTL

\* For any resolvers, chains and depth, a forwarded connection whose destination no
\* resolver gave was let through by an audit policy and logged.
THEOREM SpoofingCaught == Spec => []SpoofedIsCaught
<1>1. IInv => SpoofedIsCaught
  BY DEF IInv, Passed, Told, SpoofedIsCaught
<1> QED
  BY Invariance, <1>1, PTL

\* One reliable resolver that always tells the destination is enough, at any place
\* among any number of failing ones.
THEOREM GenuineServed == Spec => []GenuineGetsThrough
<1>1. IInv => GenuineGetsThrough
  BY DEF IInv, Passed, GenuineGetsThrough
<1> QED
  BY Invariance, <1>1, PTL

\* A connection judged by two policies loaded while the files were changing.
THEOREM MixedOnlyInTheWindow == Spec => []MixesOnlyDuringRefresh
<1>1. IInv => MixesOnlyDuringRefresh
  BY DEF IInv, Coherent
<1> QED
  BY Invariance, <1>1, PTL

-----------------------------------------------------------------------------
(***************************************************************************)
(* Why every connection ends.                                              *)
(***************************************************************************)

Stage == CASE phase = "new" -> 0 [] phase = "accepted" -> 1 [] phase = "peek" -> 2
           [] phase = "lookup" -> 3 [] phase = "decide" -> 4 [] OTHER -> 5

\* A connection goes to a later stage or, among its lookups, to a later server of its
\* policy, a later query of this server or one CNAME deeper; TypeOK bounds all three.
GetsOn == \/ Stage' > Stage
          \/ /\ Stage' = Stage
             /\ \/ server' > server
                \/ server' = server /\ query' > query
                \/ server' = server /\ query' = query /\ depth' > depth

Connection == <<phase, inputVars, searchVars, outputVars>>

\* No step of the handler goes back, whatever the resolvers fail to answer and wherever
\* their CNAMEs lead, a refresh does not touch a connection, and a verdict is final.
ConnectionGetsOn == [][UNCHANGED Connection \/ GetsOn]_vars

\* Every step of the handler brings the connection nearer to its verdict: what
\* EveryConnectionEnds needs besides fairness.
THEOREM ConnectionsOnlyGetOn == Spec => ConnectionGetsOn
<1>1. ASSUME TypeOK, [Next]_vars
      PROVE  UNCHANGED Connection \/ GetsOn
  <2>0. server \in Nat /\ query \in Nat /\ depth \in Nat
    BY <1>1, DepthAssumption DEF TypeOK
  <2>1. CASE Refresh \/ UNCHANGED vars
    BY <2>1 DEF Refresh, vars, Connection
  <2>2. CASE Accept
    BY <2>2 DEF Accept, GetsOn, Stage
  <2>3. CASE LoadFails \/ NoDestination \/ Load
    BY <2>3 DEF LoadFails, NoDestination, Load, Close, GetsOn, Stage
  <2>4. CASE PeekFails \/ Refuse \/ Deny \/ BeginLookups \/ LuaRaises
    BY <2>4 DEF PeekFails, Refuse, Deny, BeginLookups, LuaRaises, Close, GetsOn, Stage
  <2>5. CASE Lookup
    <3>1. phase = "lookup" /\ Stage = 3
      BY <2>5 DEF Lookup, DepthExceeded, QueryFails, GetAnswer, Stage
    <3>2. CASE NextLookup
      <4>1. CASE query < pol.queries
        <5>1. query' = query + 1 /\ server' = server /\ phase' = phase
          BY <3>2, <4>1 DEF NextLookup
        <5>2. Stage' = Stage
          BY <5>1 DEF Stage
        <5> QED BY <2>0, <5>1, <5>2 DEF GetsOn
      <4>2. CASE ~(query < pol.queries) /\ server < Len(pol.servers)
        <5>1. server' = server + 1 /\ phase' = phase
          BY <3>2, <4>2 DEF NextLookup
        <5>2. Stage' = Stage
          BY <5>1 DEF Stage
        <5> QED BY <2>0, <5>1, <5>2 DEF GetsOn
      <4>3. CASE ~(query < pol.queries) /\ ~(server < Len(pol.servers))
        <5>1. phase' = "decide"
          BY <3>2, <4>3 DEF NextLookup
        <5>2. Stage' = 4
          BY <5>1 DEF Stage
        <5> QED BY <3>1, <5>2 DEF GetsOn
      <4> QED BY <4>1, <4>2, <4>3
    <3>3. ASSUME NEW a, FollowCname(a) PROVE GetsOn
      <4>1. depth' = depth + 1 /\ UNCHANGED <<server, query, phase>>
        BY <3>3 DEF FollowCname
      <4>2. Stage' = Stage
        BY <4>1 DEF Stage
      <4> QED BY <2>0, <4>1, <4>2 DEF GetsOn
    <3> QED
      BY <2>5, <3>2, <3>3
      DEF Lookup, DepthExceeded, QueryFails, AfterFailure, GetAnswer, GetAddresses
  <2>6. CASE Decide
    BY <2>6 DEF Decide, NothingResolved, DropMismatch, Forward, Close, GetsOn, Stage
  <2> QED BY <1>1, <2>1, <2>2, <2>3, <2>4, <2>5, <2>6 DEF Next, Handle
<1>2. TypeOK /\ [Next]_vars => [UNCHANGED Connection \/ GetsOn]_vars
  BY <1>1
<1> QED
  BY <1>2, TypeCorrect, PTL DEF Spec, ConnectionGetsOn
=============================================================================
