----------------------------- MODULE HttpGuard -----------------------------
(***************************************************************************)
(* The HTTP Host guard (assets/nginx/lua/check_http_host.lua, run by the   *)
(* port-8081 listener of nginx.conf.template), for one connection, while   *)
(* the refresher may change the policy under it: the allowlist is that of  *)
(* the worker that accepted the connection, the resolvers and the mode are *)
(* read from disk a moment later, and the client's header and every DNS    *)
(* answer are waited for.                                                  *)
(*                                                                         *)
(* A policy is the content of both: [allowed, servers, queries, mode].  A  *)
(* file that cannot be read is a policy without servers.  Addresses are    *)
(* numbers, ordered as table.sort orders the strings; 0 is no address.     *)
(***************************************************************************)
EXTENDS Integers, Sequences

CONSTANTS
    Names,          \* host names, and the names CNAMEs lead to
    Addresses,      \* IPv4 addresses
    Policies,       \* the policies that may be on disk or in the workers
    Requests,       \* the requests a client may send
    Zone,           \* server -> name -> the answers it may give
    Reliable,       \* the servers whose every query is answered
    MaxDepth        \* MAX_CNAME_DEPTH

NoName == "no_name"

ASSUME NamesAssumption == NoName \notin Names /\ Addresses \subseteq Nat \ {0}
ASSUME PoliciesAssumption ==
    \A p \in Policies : /\ p.allowed \subseteq Names
                        /\ p.servers \in Seq(DOMAIN Zone)
                        /\ p.queries \in Nat
ASSUME RequestsAssumption ==
    \A r \in Requests : /\ r.hosts \in Seq(Names \cup {NoName})
                        /\ r.absolute \in Names \cup {NoName}
ASSUME ZoneAssumption ==
    \A s \in DOMAIN Zone : \A n \in Names : \A a \in Zone[s][n] :
        a.addresses \subseteq Addresses /\ a.cname \in Names \cup {NoName}
ASSUME DepthAssumption == MaxDepth \in Nat

VARIABLES
    onDisk,      \* the policy in proxy_runtime_policy.lua
    inWorkers,   \* the policy of the workers that accept connections
    open,        \* is a refresh, a reload or a start of nginx under way?
    phase,       \* where the connection is
    conf,        \* the configuration of the worker that accepted it
    pol,         \* the policy it read from disk
    dst,         \* original_dst's address, 0 if there is none
    request,     \* the request the client sent
    server,      \* resolve_host_addresses: the index in nameservers
    query,       \* resolve_host_addresses: which of queries_per_host
    name,        \* query_a_records: hostname
    depth,       \* query_a_records: depth
    resolved,    \* the addresses resolved so far
    decision,    \* $http_proxy_decision
    target,      \* $http_proxy_target, 0 if empty
    logged,      \* has http_host_mismatch been logged?
    wasOpen      \* history: was the window open between accept and load?

windowVars == <<onDisk, inWorkers, open>>
loopVars   == <<server, query, name, depth>>
searchVars == <<loopVars, resolved>>
inputVars  == <<conf, pol, dst, request>>
outputVars == <<decision, target, logged>>
vars == <<windowVars, phase, inputVars, searchVars, outputVars, wasOpen>>

Window == INSTANCE PolicyWindow WITH Contents <- Policies

Decisions == {"undecided", "allow", "runtime_policy_load_failed", "lua_exception",
              "bad_original_dst", "http_header_peek_failed", "drop_no_sni",
              "http_request_parse_failed", "deny_allowlist",
              "resolver_query_failed", "mismatch"}

Init == /\ Window!Init
        /\ phase = "new"
        /\ conf \in Policies /\ conf = inWorkers
        /\ pol = conf
        /\ dst = 0
        /\ request \in Requests
        /\ server = 1 /\ query = 1 /\ name = NoName /\ depth = 0 /\ resolved = {}
        /\ decision = "undecided" /\ target = 0 /\ logged = FALSE
        /\ wasOpen = FALSE

-----------------------------------------------------------------------------
(* The pure parts.                                                         *)

\* load_runtime_policy accepts what the file returns.
Loads(p) == p.servers # <<>> /\ p.queries \in 1..16 /\ p.mode \in {"strict", "audit"}

\* parse_http_request: what a request needs to name one host.  A Host header that
\* normalize_host refuses is NoName.
LacksHost(r) == r.line /\ ~r.connect /\ r.hosts = <<>>
NamesOneHost(r) == /\ r.line /\ ~r.connect
                   /\ Len(r.hosts) = 1 /\ r.hosts[1] # NoName
                   /\ r.absolute \in {NoName, r.hosts[1]}
Host == request.hosts[1]

\* The name server of the lookup under way.
Server == pol.servers[server]

AnyDepth == FALSE
TooDeep == depth > MaxDepth

Smallest(S) == CHOOSE a \in S : \A b \in S : a <= b

-----------------------------------------------------------------------------
(* One connection.                                                         *)

Accept == /\ phase = "new"
          /\ phase' = "accepted"
          /\ conf' = inWorkers
          /\ dst' \in Addresses \cup {0}
          /\ wasOpen' = open
          /\ UNCHANGED <<windowVars, pol, request, searchVars, outputVars>>

\* fail_internal, fail_quiet and what follows a lua_exception.
Close(why) == /\ phase' = "closed"
              /\ decision' = why
              /\ UNCHANGED <<target, logged>>

LoadFails == /\ phase = "accepted"
             /\ ~Loads(onDisk)
             /\ pol' = onDisk
             /\ \/ Close("runtime_policy_load_failed")
                \/ Close("lua_exception")
             /\ UNCHANGED <<windowVars, conf, dst, request, searchVars, wasOpen>>

NoDestination == /\ phase = "accepted"
                 /\ Loads(onDisk)
                 /\ dst = 0
                 /\ pol' = onDisk
                 /\ Close("bad_original_dst")
                 /\ UNCHANGED <<windowVars, conf, dst, request, searchVars, wasOpen>>

Load == /\ phase = "accepted"
        /\ Loads(onDisk)
        /\ dst # 0
        /\ pol' = onDisk
        /\ phase' = "peek"
        /\ UNCHANGED <<windowVars, conf, dst, request, searchVars, outputVars, wasOpen>>

\* The client sends nothing, or too much, or goes away.
PeekFails == /\ phase = "peek"
             /\ Close("http_header_peek_failed")
             /\ UNCHANGED <<windowVars, inputVars, searchVars, wasOpen>>

Refuse == /\ phase = "peek"
          /\ ~NamesOneHost(request)
          /\ Close(IF LacksHost(request)
                     THEN "drop_no_sni" ELSE "http_request_parse_failed")
          /\ UNCHANGED <<windowVars, inputVars, searchVars, wasOpen>>

\* $http_host_allowed, a map of the configuration.
AllowedOnDisk == Host \in pol.allowed
Allowed == Host \in conf.allowed

Deny == /\ phase = "peek"
        /\ NamesOneHost(request)
        /\ ~Allowed
        /\ Close("deny_allowlist")
        /\ UNCHANGED <<windowVars, inputVars, searchVars, wasOpen>>

BeginLookups == /\ phase = "peek"
                /\ NamesOneHost(request)
                /\ Allowed
                /\ phase' = "lookup"
                /\ name' = Host
                /\ UNCHANGED <<server, query, depth>>
                /\ UNCHANGED <<windowVars, inputVars, resolved, outputVars, wasOpen>>

\* query_a_records has returned: each server is asked queries_per_host times.
GiveUp == phase' = "decide" /\ UNCHANGED loopVars
NextLookup ==
    /\ name' = Host
    /\ depth' = 0
    /\ IF query < pol.queries
         THEN query' = query + 1 /\ UNCHANGED <<server, phase>>
         ELSE /\ query' = 1
              /\ IF server < Len(pol.servers)
                   THEN server' = server + 1 /\ UNCHANGED phase
                   ELSE phase' = "decide" /\ UNCHANGED server

DepthExceeded == /\ phase = "lookup"
                 /\ TooDeep
                 /\ NextLookup
                 /\ UNCHANGED <<windowVars, inputVars, resolved, outputVars, wasOpen>>

AfterFailureGiveUp == GiveUp
AfterFailure == NextLookup

\* No answer after the retransmissions, or an error code.
QueryFails == /\ phase = "lookup"
              /\ ~TooDeep
              /\ Server \notin Reliable
              /\ AfterFailure
              /\ UNCHANGED <<windowVars, inputVars, resolved, outputVars, wasOpen>>

\* The addresses of an answer end the lookup; without any, its first CNAME goes on.
GetAddresses(a) == /\ a.addresses # {} \/ a.cname = NoName
                   /\ resolved' = resolved \cup a.addresses
                   /\ NextLookup

FollowSameDepth(a) == /\ a.addresses = {} /\ a.cname # NoName
                      /\ name' = a.cname
                      /\ UNCHANGED <<depth, server, query, resolved, phase>>
FollowCname(a) == /\ a.addresses = {} /\ a.cname # NoName
                  /\ name' = a.cname
                  /\ depth' = depth + 1
                  /\ UNCHANGED <<server, query, resolved, phase>>

GetAnswer == /\ phase = "lookup"
             /\ ~TooDeep
             /\ \E a \in Zone[Server][name] : GetAddresses(a) \/ FollowCname(a)
             /\ UNCHANGED <<windowVars, inputVars, outputVars, wasOpen>>

NothingResolved == /\ phase = "decide"
                   /\ resolved = {}
                   /\ Close("resolver_query_failed")
                   /\ UNCHANGED <<windowVars, inputVars, searchVars, wasOpen>>

EnforcedByWorker == conf.mode = "strict"
Enforced == pol.mode = "strict"
Mismatch == dst \notin resolved

\* The mismatch is logged in both modes and ends the connection in strict mode.
DropMismatch == /\ phase = "decide"
                /\ resolved # {}
                /\ Mismatch
                /\ Enforced
                /\ phase' = "closed"
                /\ decision' = "mismatch"
                /\ logged' = TRUE
                /\ UNCHANGED <<windowVars, inputVars, searchVars, target, wasOpen>>

\* proxy_pass to the first of the sorted addresses, whatever dst is.
Forward == /\ phase = "decide"
           /\ resolved # {}
           /\ ~(Mismatch /\ Enforced)
           /\ phase' = "forwarded"
           /\ decision' = "allow"
           /\ target' = Smallest(resolved)
           /\ logged' = Mismatch
           /\ UNCHANGED <<windowVars, inputVars, searchVars, wasOpen>>

\* Whatever the handler is at, an error that Lua raises is caught and ends the
\* connection; LoadFails has those of the policy file.
LuaRaises == /\ phase \in {"peek", "lookup", "decide"}
             /\ Close("lua_exception")
             /\ UNCHANGED <<windowVars, inputVars, searchVars, wasOpen>>

\* The refresher, nginx's master and systemd.
Refresh == /\ Window!Next
           /\ IF phase = "accepted" /\ open' THEN wasOpen' = TRUE
                                            ELSE UNCHANGED wasOpen
           /\ UNCHANGED <<phase, inputVars, searchVars, outputVars>>

-----------------------------------------------------------------------------
Lookup == DepthExceeded \/ QueryFails \/ GetAnswer
Decide == NothingResolved \/ DropMismatch \/ Forward
Handle == \/ LoadFails \/ NoDestination \/ Load
          \/ PeekFails \/ Refuse \/ Deny \/ BeginLookups
          \/ Lookup \/ Decide

Next == Accept \/ Handle \/ LuaRaises \/ Refresh

Spec == Init /\ [][Next]_vars

\* Nothing has to be raised: nginx runs the handler on whenever what it waits for is
\* there, and every wait ends: the cosocket's, the resolver's timeout of 1.5 s with
\* its retransmissions.
FairSpec == Spec /\ WF_vars(Handle)

-----------------------------------------------------------------------------
(* Properties                                                              *)

\* Where a server may lead from a host in d CNAMEs, and to which addresses.
LeadsTo(s, h, n, d) ==
    \E chain \in [0..d -> Names] :
        /\ chain[0] = h /\ chain[d] = n
        /\ \A i \in 0..(d - 1) : \E a \in Zone[s][chain[i]] :
             a.addresses = {} /\ a.cname = chain[i + 1]

Tells(s, h, address) ==
    \E n \in Names, d \in 0..MaxDepth :
        LeadsTo(s, h, n, d) /\ \E a \in Zone[s][n] : address \in a.addresses

\* Whatever the server answers, it leads to this address within MaxDepth CNAMEs.
AlwaysTells(s, h, address) ==
    \A n \in Names, d \in 0..MaxDepth : LeadsTo(s, h, n, d) =>
        \A a \in Zone[s][n] :
            \/ address \in a.addresses
            \/ a.addresses = {} /\ a.cname # NoName /\ d < MaxDepth

Asked == {pol.servers[i] : i \in 1..Len(pol.servers)}

\* The variables stay in their domains, and no name deeper than MAX_CNAME_DEPTH is
\* more than looked at.
TypeOK ==
    /\ onDisk \in Policies /\ inWorkers \in Policies /\ open \in BOOLEAN
    /\ phase \in {"new", "accepted", "peek", "lookup", "decide", "forwarded", "closed"}
    /\ conf \in Policies /\ pol \in Policies
    /\ dst \in Addresses \cup {0}
    /\ request \in Requests
    /\ server \in Nat \ {0} /\ query \in Nat \ {0}
    /\ phase = "lookup" => server <= Len(pol.servers) /\ query <= pol.queries
    /\ name \in Names \cup {NoName}
    /\ depth \in 0..(MaxDepth + 1)
    /\ resolved \subseteq Addresses
    /\ decision \in Decisions
    /\ target \in Addresses \cup {0}
    /\ logged \in BOOLEAN /\ wasOpen \in BOOLEAN

\* What is forwarded named one host, in its only Host header and in an absolute
\* target, the worker's allowlist has it, and it goes to an address a resolver of the
\* policy gave for this very host, whatever the client's destination was.
ForwardsToItsHost ==
    phase = "forwarded" =>
        /\ Len(request.hosts) = 1 /\ ~request.connect
        /\ request.absolute \in {NoName, Host}
        /\ Host \in conf.allowed
        /\ \E s \in Asked : Tells(s, Host, target)

\* Under a strict policy a connection is forwarded only if its original destination
\* is an address a resolver gave for its host; under an audit policy it is forwarded
\* without that only with the mismatch logged.
SpoofedIsCaught ==
    phase = "forwarded" /\ (\A s \in Asked : ~Tells(s, Host, dst)) =>
        pol.mode = "audit" /\ logged

\* A connection whose destination is what some reliable resolver of the policy tells
\* in every answer is neither dropped nor logged as a mismatch, whatever the other
\* resolvers fail to answer or tell.
GenuineGetsThrough ==
    decision \in {"resolver_query_failed", "mismatch"} \/ logged =>
        \A s \in Asked \cap Reliable : ~AlwaysTells(s, Host, dst)

\* A connection is judged by the allowlist of one policy and the resolvers and mode of
\* another only if the files were changing between its accept and its load.
MixesOnlyDuringRefresh ==
    phase \notin {"new", "accepted"} /\ pol # conf => wasOpen

\* Every connection is decided, also when CNAMEs lead back to where they came from.
EveryConnectionEnds ==
    phase = "accepted" ~> phase \in {"forwarded", "closed"}
=============================================================================
