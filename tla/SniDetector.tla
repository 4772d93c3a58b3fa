---------------------------- MODULE SniDetector ----------------------------
(***************************************************************************)
(* The SNI-spoofing detector Lambda (lambda/sni_spoofing_detector/         *)
(* handler.py) on one batch of observations: its delivery at least once,   *)
(* the loop over the events, the search through CNAMEs for the SNI's       *)
(* addresses, the alert and its metric, and the Lambda's time limit.       *)
(*                                                                         *)
(* Time is counted in DNS timeouts: a query that times out costs one of    *)
(* the Budget that fits into the time limit, everything else costs none.   *)
(* The queue of the search holds names in order of depth; its order among  *)
(* names of one depth is left open, which makes it a set of pairs and the  *)
(* code's seen set, which drops the second of two equal pairs, its union.  *)
(***************************************************************************)
EXTENDS Naturals, Sequences

CONSTANTS
    Names,          \* host names canonicalize_sni accepts
    Addresses,      \* IPv4 addresses
    Resolvers,      \* number of DNS_RESOLVERS, asked in order
    Reliable,       \* the resolvers whose queries never fail
    Batches,        \* the batches that may arrive
    Zones,          \* what the resolvers may answer
    MaxDepth,       \* MAX_CNAME_DEPTH
    Budget,         \* DNS timeouts that fit into the Lambda's time limit
    MaxSends,       \* requests the SDK makes for one put_metric_data
    MaxAttempts,    \* bound: deliveries of the batch
    MayCrash        \* may an invocation end without a reason of its own?

\* "invalid" stands for what validation turns down: a message that is not JSON,
\* an SNI or a CNAME that is no host name, a missing or IPv6 destination.
Events == [sni : Names \cup {"invalid"}, dst : Addresses \cup {"invalid"}]
Answer == [addresses : SUBSET Addresses, cnames : SUBSET (Names \cup {"invalid"})]
Asked  == 1..Resolvers

ASSUME NamesAssumption == "invalid" \notin Names \cup Addresses
ASSUME ResolversAssumption == Resolvers \in Nat /\ Reliable \subseteq Asked
ASSUME BatchesAssumption == Batches \subseteq [control : BOOLEAN, events : Seq(Events)]
ASSUME ZonesAssumption ==
    /\ Zones \subseteq [Asked -> [Names -> SUBSET Answer]]
    /\ \A zone \in Zones, r \in Reliable, n \in Names : zone[r][n] # {}
ASSUME LimitsAssumption ==
    /\ MaxDepth \in Nat
    /\ Budget \in Nat
    /\ MaxSends \in Nat \ {0}
    /\ MaxAttempts \in Nat
    /\ MayCrash \in BOOLEAN

VARIABLES
    batch,      \* the batch CloudWatch Logs delivers
    zone,       \* resolver -> name -> the answers it may give
    attempt,    \* deliveries so far
    phase,      \* where the handler is
    at,         \* the event it is at
    outcome,    \* event -> what process_log_event returned in this delivery
    pending,    \* the search's queue of <<name, depth>>
    looking,    \* the pair taken from it
    asked,      \* how many resolvers were asked for it
    resolved,   \* addresses found
    cnames,     \* CNAME targets found
    spent,      \* DNS timeouts of this delivery
    printed,    \* event -> alerts printed, in all deliveries
    counted,    \* event -> points of the metric it caused, in all deliveries
    sends       \* requests of this put_metric_data that were not answered

inputs == <<batch, zone>>
search == <<pending, looking, asked, resolved, cnames>>
alarms == <<printed, counted, sends>>
vars == <<inputs, attempt, phase, at, outcome, search, spent, alarms>>

Working  == {"next", "pop", "query", "verdict", "publish"}
Phases   == Working \cup {"idle", "done", "failed"}
Outcomes == {"none", "processed", "alerts", "skipped"}

Index == 1..Len(batch.events)
Event == batch.events[at]

\* validate_observation
Valid(e) == e.sni # "invalid" /\ e.dst # "invalid"

Init == /\ batch \in Batches
        /\ zone \in Zones
        /\ attempt = 0
        /\ phase = "idle"
        /\ at = 1
        /\ outcome = [i \in Index |-> "none"]
        /\ pending = {}
        /\ looking = <<>>
        /\ asked = 0
        /\ resolved = {}
        /\ cnames = {}
        /\ spent = 0
        /\ printed = [i \in Index |-> 0]
        /\ counted = [i \in Index |-> 0]
        /\ sends = 0

-----------------------------------------------------------------------------
(* Delivery: external.  A failed invocation is tried again, and a batch    *)
(* that was handled may still be delivered once more.                      *)

Invoke == /\ attempt < MaxAttempts
          /\ attempt' = attempt + 1
          /\ phase' = "next"
          /\ at' = 1
          /\ outcome' = [i \in Index |-> "none"]
          /\ spent' = 0
          /\ UNCHANGED <<inputs, search, alarms>>

Deliver   == phase \in {"idle", "failed"} /\ Invoke
Redeliver == phase = "done" /\ Invoke

\* The time limit, or the end of the Lambda's sandbox.
TimeIsUp == spent = Budget
Dies == /\ phase \in Working
        /\ MayCrash
        /\ phase' = "failed"
        /\ UNCHANGED <<inputs, attempt, at, outcome, search, spent, alarms>>

-----------------------------------------------------------------------------
(* lambda_handler and process_log_event.                                   *)

\* process_log_event returns, and the loop takes the next event.
Decide(result) == /\ outcome' = [outcome EXCEPT ![at] = result]
                  /\ at' = at + 1
                  /\ phase' = "next"

Return == /\ phase = "next"
          /\ batch.control \/ at > Len(batch.events)
          /\ phase' = "done"
          /\ UNCHANGED <<inputs, attempt, at, outcome, search, spent, alarms>>

AtEvent == phase = "next" /\ ~batch.control /\ at \in Index

SkipInvalid == /\ AtEvent
               /\ ~Valid(Event)
               /\ Decide("skipped")
               /\ UNCHANGED <<inputs, attempt, search, spent, alarms>>

\* The locals of resolve_a_records.
KeptResolved == resolved
NewResolved == {}

BeginSearch == /\ AtEvent
               /\ Valid(Event)
               /\ pending' = {<<Event.sni, 0>>}
               /\ looking' = <<>>
               /\ asked' = 0
               /\ resolved' = NewResolved
               /\ cnames' = {}
               /\ phase' = "pop"
               /\ UNCHANGED <<inputs, attempt, at, outcome, spent, alarms>>

-----------------------------------------------------------------------------
(* resolve_a_records.                                                      *)

Front(pair) == pair \in pending /\ \A other \in pending : pair[2] <= other[2]
NotRemoved(pair) == pending
Removed(pair) == pending \ {pair}

AnyDepth(pair) == FALSE
TooDeepByOne(pair) == pair[2] >= MaxDepth
TooDeep(pair) == pair[2] > MaxDepth

SkipDeepName == /\ phase = "pop"
                /\ \E pair \in pending : /\ Front(pair)
                                         /\ TooDeep(pair)
                                         /\ pending' = Removed(pair)
                /\ UNCHANGED <<inputs, attempt, phase, at, outcome, looking, asked,
                               resolved, cnames, spent, alarms>>

TakeName == /\ phase = "pop"
            /\ \E pair \in pending : /\ Front(pair)
                                     /\ ~TooDeep(pair)
                                     /\ pending' = Removed(pair)
                                     /\ looking' = pair
            /\ asked' = 0
            /\ cnames' = {}
            /\ phase' = "query"
            /\ UNCHANGED <<inputs, attempt, at, outcome, resolved, spent, alarms>>

\* The next resolver's query: it answers, or it fails at once (a response code, a
\* malformed or foreign answer), or it times out.
Ask(r) == /\ phase = "query"
          /\ r = asked + 1
          /\ r \in Asked
          /\ asked' = r

GetAnswer == /\ \E r \in Asked :
                  /\ Ask(r)
                  /\ \E answer \in zone[r][looking[1]] :
                       /\ resolved' = resolved \cup answer.addresses
                       /\ cnames' = cnames \cup answer.cnames
             /\ UNCHANGED <<inputs, attempt, phase, at, outcome, pending, looking,
                            spent, alarms>>

QueryFails == /\ \E r \in Asked \ Reliable : Ask(r)
              /\ UNCHANGED <<inputs, attempt, phase, at, outcome, pending, looking,
                             resolved, cnames, spent, alarms>>

QueryTimesOut == /\ \E r \in Asked \ Reliable : Ask(r)
                 /\ ~TimeIsUp
                 /\ spent' = spent + 1
                 /\ UNCHANGED <<inputs, attempt, phase, at, outcome, pending,
                                looking, resolved, cnames, alarms>>

\* A query that would time out when the limit is reached: the Lambda is ended.
TimeRunsOut == /\ phase = "query"
               /\ asked + 1 \in Asked \ Reliable
               /\ TimeIsUp
               /\ phase' = "failed"
               /\ UNCHANGED <<inputs, attempt, at, outcome, search, spent, alarms>>

AllAsked == phase = "query" /\ asked = Resolvers

Found == /\ AllAsked
         /\ resolved # {}
         /\ phase' = "verdict"
         /\ UNCHANGED <<inputs, attempt, at, outcome, search, spent, alarms>>

\* canonicalize_sni on every target; depth + 1.
FollowCnames == /\ AllAsked
                /\ resolved = {}
                /\ pending' = pending \cup
                     {<<target, looking[2] + 1>> : target \in cnames \cap Names}
                /\ phase' = "pop"
                /\ UNCHANGED <<inputs, attempt, at, outcome, looking, asked,
                               resolved, cnames, spent, alarms>>

NothingFound == /\ phase = "pop"
                /\ pending = {}
                /\ Decide("skipped")
                /\ UNCHANGED <<inputs, attempt, search, spent, alarms>>

-----------------------------------------------------------------------------
(* The verdict, the alert and its metric.                                  *)

Matches == /\ phase = "verdict"
           /\ Event.dst \in resolved
           /\ Decide("processed")
           /\ UNCHANGED <<inputs, attempt, search, spent, alarms>>

PrintAlert == /\ phase = "verdict"
              /\ Event.dst \notin resolved
              /\ printed' = [printed EXCEPT ![at] = @ + 1]
              /\ phase' = "publish"
              /\ sends' = 0
              /\ UNCHANGED <<inputs, attempt, at, outcome, search, spent, counted>>

\* One request of put_metric_data is answered, and so the call returns.
Count == counted' = [counted EXCEPT ![at] = @ + 1]
PublishMetric == /\ phase = "publish"
                 /\ sends < MaxSends
                 /\ Count
                 /\ Decide("alerts")
                 /\ UNCHANGED <<inputs, attempt, search, spent, printed, sends>>

\* The answer is lost, or an error the SDK takes for a passing one: it sends the request
\* again, and the first may have counted.
AnswerLost == /\ phase = "publish"
              /\ sends < MaxSends
              /\ sends' = sends + 1
              /\ Count \/ UNCHANGED counted
              /\ UNCHANGED <<inputs, attempt, phase, at, outcome, search, spent, printed>>

\* "Metric delivery must not poison the batch."
AfterFailedPublishRetry == phase' = "next" /\ UNCHANGED <<outcome, at>>
AfterFailedPublish == Decide("alerts")

\* The call raises: the request is refused, or the SDK gives up.  Not every request it
\* made need have failed.
PublishFails == /\ phase = "publish"
                /\ AfterFailedPublish
                /\ UNCHANGED <<inputs, attempt, search, spent, alarms>>

-----------------------------------------------------------------------------
Search == \/ SkipDeepName \/ TakeName \/ GetAnswer \/ QueryFails \/ QueryTimesOut
          \/ TimeRunsOut \/ Found \/ FollowCnames \/ NothingFound
Handle == \/ Return \/ SkipInvalid \/ BeginSearch
          \/ Matches \/ PrintAlert \/ PublishMetric \/ AnswerLost \/ PublishFails

Next == Deliver \/ Redeliver \/ Dies \/ Search \/ Handle

Spec == Init /\ [][Next]_vars

\* An invocation runs until it ends, and a failed one is tried again.
FairSpec == Spec /\ WF_vars(Search \/ Handle) /\ WF_vars(Deliver)

-----------------------------------------------------------------------------
(* Properties                                                              *)

\* The variables stay in their domains; the search never goes deeper than one
\* beyond MAX_CNAME_DEPTH and never waits longer than the time limit.
TypeOK ==
    /\ batch \in Batches
    /\ zone \in Zones
    /\ attempt \in 0..MaxAttempts
    /\ phase \in Phases
    /\ at \in 1..Len(batch.events) + 1
    /\ phase \in Working \ {"next"} => at \in Index /\ Valid(Event)
    /\ outcome \in [Index -> Outcomes]
    /\ pending \subseteq Names \X (0..MaxDepth + 1)
    /\ phase = "query" => looking \in Names \X (0..MaxDepth)
    /\ asked \in 0..Resolvers
    /\ resolved \subseteq Addresses
    /\ cnames \subseteq Names \cup {"invalid"}
    /\ spent \in 0..Budget
    /\ printed \in [Index -> Nat]
    /\ counted \in [Index -> Nat]
    /\ sends \in 0..MaxSends

\* A set of names the search for n cannot leave, whatever the resolvers answer.
Family(S, n) ==
    /\ n \in S
    /\ \A m \in S, r \in Asked : \A answer \in zone[r][m] : answer.cnames \cap Names \subseteq S

\* Whenever a resolver has addresses for one of the names, dst is among them.
EveryAnswerHas(S, dst) == \A m \in S, r \in Asked : \A answer \in zone[r][m] :
                              answer.addresses = {} \/ dst \in answer.addresses

\* No resolver ever has dst among the addresses of one of the names.
NoAnswerHas(S, dst) == \A m \in S, r \in Asked : \A answer \in zone[r][m] :
                           dst \notin answer.addresses

Genuine(e) == Valid(e) /\ \E S \in SUBSET Names : Family(S, e.sni) /\ EveryAnswerHas(S, e.dst)
Spoofed(e) == Valid(e) /\ \E S \in SUBSET Names : Family(S, e.sni) /\ NoAnswerHas(S, e.dst)

\* rank says over how many CNAMEs at most resolver r leads from a name to addresses.
Ranks(rank, r) == \A m \in Names : rank[m] <= MaxDepth =>
    \A answer \in zone[r][m] :
        \/ answer.addresses # {}
        \/ \E target \in answer.cnames \cap Names : rank[target] < rank[m]

LeadsToAddresses(r, n) ==
    \E rank \in [Names -> 0..MaxDepth + 1] : rank[n] <= MaxDepth /\ Ranks(rank, r)

MustAlert(e) == Spoofed(e) /\ \E r \in Reliable : LeadsToAddresses(r, e.sni)

\* A genuine destination never raises an alert: not when resolvers fail or time out,
\* not after other events of the batch, not in a repeated delivery.
GenuineIsNotReported ==
    \A i \in Index : Genuine(batch.events[i]) => printed[i] = 0

\* When a delivery is handled, every spoofed destination in it has raised an alert if
\* one resolver that does not fail leads to addresses at all.
SpoofingIsReported ==
    phase = "done" /\ ~batch.control => \A i \in Index :
        MustAlert(batch.events[i]) => outcome[i] = "alerts" /\ printed[i] > 0

\* An event alerts at most once per delivery, also when its metric could not be
\* published.  The metric may say more: the SDK repeats a request whose answer was lost,
\* and each of them may count, but no alert counts more often than that.
OncePerDelivery == \A i \in Index :
    /\ printed[i] <= attempt
    /\ counted[i] <= MaxSends * printed[i]

\* Every delivery ends, whatever CNAME loops the resolvers answer with.
EveryDeliveryEnds == phase \in Working ~> phase \in {"done", "failed"}

-----------------------------------------------------------------------------
(* What the repository's documents say; the run that checks it finds it    *)
(* violated.                                                               *)

\* docs/override-async-alert-proxy.md:87-89: timeouts and bad events do not make the
\* whole batch fail.
BatchIsHandled == ~(phase = "failed" /\ attempt = MaxAttempts)
=============================================================================
