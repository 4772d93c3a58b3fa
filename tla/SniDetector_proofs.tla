------------------------ MODULE SniDetector_proofs ------------------------
(***************************************************************************)
(* Proofs about the SNI-spoofing detector, for any batches, any answers of *)
(* any number of resolvers, any CNAME depth, time limit and number of      *)
(* deliveries.                                                             *)
(***************************************************************************)
EXTENDS SniDetector, FiniteSetTheorems, TLAPS

\* The events of a batch are a sequence of events.
LEMMA BatchTyped ==
    ASSUME batch \in Batches
    PROVE  /\ batch.control \in BOOLEAN
           /\ Len(batch.events) \in Nat
           /\ \A i \in Index : batch.events[i] \in Events
<1>1. batch.control \in BOOLEAN /\ batch.events \in Seq(Events)
  BY BatchesAssumption
<1> QED BY <1>1 DEF Index

\* A valid event names a host and an address.
LEMMA ValidEvent ==
    ASSUME batch \in Batches, NEW i \in Index, Valid(batch.events[i])
    PROVE  batch.events[i].sni \in Names /\ batch.events[i].dst \in Addresses
BY BatchTyped DEF Events, Valid

\* An answer holds addresses and CNAME targets.
LEMMA AnswerTyped ==
    ASSUME zone \in Zones, NEW r \in Asked, NEW n \in Names, NEW answer \in zone[r][n]
    PROVE  answer.addresses \subseteq Addresses /\ answer.cnames \subseteq Names \cup {"invalid"}
<1>1. zone \in [Asked -> [Names -> SUBSET Answer]]
  BY ZonesAssumption
<1>2. answer \in Answer
  BY <1>1
<1> QED BY <1>2 DEF Answer

(***************************************************************************)
(* Type correctness.                                                       *)
(***************************************************************************)

\* Every state of the detector is well typed; in particular the search never goes
\* deeper than MAX_CNAME_DEPTH allows.
THEOREM TypeCorrect == Spec => []TypeOK
<1> USE LimitsAssumption, ResolversAssumption
<1>1. Init => TypeOK
  <2> SUFFICES ASSUME Init PROVE TypeOK
    OBVIOUS
  <2>1. batch \in Batches /\ zone \in Zones
    BY DEF Init
  <2>2. Len(batch.events) \in Nat
    BY <2>1, BatchTyped
  <2> QED BY <2>1, <2>2 DEF Init, TypeOK, Phases, Working, Outcomes, Index
<1>2. TypeOK /\ [Next]_vars => TypeOK'
  <2> SUFFICES ASSUME TypeOK, [Next]_vars PROVE TypeOK'
    OBVIOUS
  <2>0. /\ batch \in Batches /\ zone \in Zones
        /\ Len(batch.events) \in Nat
        /\ batch.control \in BOOLEAN
        /\ \A i \in Index : batch.events[i] \in Events
    BY BatchTyped DEF TypeOK
  <2> USE <2>0 DEF TypeOK, Phases, Working, Outcomes, Index, inputs, search, alarms
  <2>1. CASE Deliver
    BY <2>1 DEF Deliver, Invoke
  <2>2. CASE Redeliver
    BY <2>2 DEF Redeliver, Invoke
  <2>3. CASE Dies
    BY <2>3 DEF Dies
  <2>4. CASE Search
    <3>1. CASE SkipDeepName
      BY <3>1 DEF SkipDeepName, Removed, Event
    <3>2. CASE TakeName
      <4>1. PICK pair \in pending : ~TooDeep(pair) /\ pending' = Removed(pair) /\ looking' = pair
        BY <3>2 DEF TakeName
      <4>2. pair \in Names \X (0..MaxDepth)
        BY <4>1 DEF TooDeep
      <4> QED BY <3>2, <4>1, <4>2 DEF TakeName, Removed, Event
    <3>3. CASE GetAnswer
      <4>0. PICK r \in Asked : /\ Ask(r)
                               /\ \E answer \in zone[r][looking[1]] :
                                    /\ resolved' = resolved \cup answer.addresses
                                    /\ cnames' = cnames \cup answer.cnames
        BY <3>3 DEF GetAnswer
      <4>1. PICK answer \in zone[r][looking[1]] :
                /\ resolved' = resolved \cup answer.addresses
                /\ cnames' = cnames \cup answer.cnames
        BY <4>0
      <4>2. looking[1] \in Names
        BY <4>0 DEF Ask
      <4>3. answer.addresses \subseteq Addresses /\ answer.cnames \subseteq Names \cup {"invalid"}
        BY <4>2, AnswerTyped
      <4>4. resolved' \subseteq Addresses /\ cnames' \subseteq Names \cup {"invalid"}
        BY <4>1, <4>3
      <4>5. asked' \in 0..Resolvers /\ phase = "query"
        BY <4>0 DEF Ask, Asked
      <4>6. UNCHANGED <<inputs, attempt, phase, at, outcome, pending, looking,
                        spent, alarms>>
        BY <3>3 DEF GetAnswer
      <4> QED BY <4>4, <4>5, <4>6 DEF Event
    <3>4. CASE QueryFails
      <4>1. asked' \in 0..Resolvers /\ phase = "query"
        BY <3>4 DEF QueryFails, Ask, Asked
      <4> QED BY <3>4, <4>1 DEF QueryFails, Event
    <3>5. CASE QueryTimesOut
      <4>1. asked' \in 0..Resolvers /\ spent' \in 0..Budget /\ phase = "query"
        BY <3>5 DEF QueryTimesOut, Ask, Asked, TimeIsUp
      <4> QED BY <3>5, <4>1 DEF QueryTimesOut, Event
    <3>6. CASE TimeRunsOut
      BY <3>6 DEF TimeRunsOut
    <3>7. CASE Found
      BY <3>7 DEF Found, AllAsked, Event
    <3>8. CASE FollowCnames
      <4>1. looking[2] + 1 \in 0..MaxDepth + 1
        BY <3>8 DEF FollowCnames, AllAsked
      <4>2. pending' \subseteq Names \X (0..MaxDepth + 1)
        BY <3>8, <4>1 DEF FollowCnames
      <4> QED BY <3>8, <4>2 DEF FollowCnames, AllAsked, Event
    <3>9. CASE NothingFound
      BY <3>9 DEF NothingFound, Decide
    <3> QED BY <2>4, <3>1, <3>2, <3>3, <3>4, <3>5, <3>6, <3>7, <3>8, <3>9 DEF Search
  <2>5. CASE Handle
    <3>1. CASE Return
      BY <3>1 DEF Return
    <3>2. CASE SkipInvalid
      BY <3>2 DEF SkipInvalid, AtEvent, Decide
    <3>3. CASE BeginSearch
      <4>1. Event.sni \in Names
        BY <3>3, ValidEvent DEF BeginSearch, AtEvent, Event
      <4>2. <<Event.sni, 0>> \in Names \X (0..MaxDepth + 1)
        BY <4>1
      <4>3. pending' \subseteq Names \X (0..MaxDepth + 1)
        BY <3>3, <4>2 DEF BeginSearch
      <4>4. at \in Index /\ Valid(Event)
        BY <3>3 DEF BeginSearch, AtEvent
      <4>5. (at \in Index /\ Valid(Event))'
        BY <3>3, <4>4 DEF BeginSearch, Event
      <4>6. /\ UNCHANGED <<batch, zone, attempt, at, outcome, spent, printed, counted, sends>>
            /\ phase' = "pop"
            /\ asked' = 0
            /\ resolved' = {}
            /\ cnames' = {}
        BY <3>3 DEF BeginSearch, NewResolved
      <4> QED BY <4>3, <4>5, <4>6
    <3>4. CASE Matches
      BY <3>4 DEF Matches, Decide
    <3>5. CASE PrintAlert
      <4>1. at \in Index /\ printed' \in [Index -> Nat]
        BY <3>5 DEF PrintAlert
      <4> QED BY <3>5, <4>1 DEF PrintAlert, Event
    <3>6. CASE PublishMetric
      <4>1. at \in Index
        BY <3>6 DEF PublishMetric
      <4>2. counted' \in [Index -> Nat] /\ outcome' \in [Index -> Outcomes]
        <5>1. counted' = [counted EXCEPT ![at] = @ + 1]
          BY <3>6 DEF PublishMetric, Count
        <5>2. outcome' = [outcome EXCEPT ![at] = "alerts"]
          BY <3>6 DEF PublishMetric, Decide
        <5>3. counted \in [Index -> Nat] /\ outcome \in [Index -> Outcomes]
          OBVIOUS
        <5> QED BY <4>1, <5>1, <5>2, <5>3
      <4>3. /\ UNCHANGED <<batch, zone, attempt, pending, looking, asked, resolved,
                          cnames, spent, printed, sends>>
            /\ at' = at + 1
            /\ phase' = "next"
        BY <3>6 DEF PublishMetric, Decide
      <4> QED BY <4>1, <4>2, <4>3
    <3>7. CASE PublishFails
      <4>1. phase = "publish" /\ at \in Index
        BY <3>7 DEF PublishFails
      <4>2. outcome' = [outcome EXCEPT ![at] = "alerts"]
        BY <3>7 DEF PublishFails, AfterFailedPublish, Decide
      <4>3. outcome' \in [Index -> Outcomes]
        BY <4>1, <4>2
      <4>4. /\ UNCHANGED <<batch, zone, attempt, pending, looking, asked, resolved,
                          cnames, spent, printed, counted, sends>>
            /\ at' = at + 1
            /\ phase' = "next"
        BY <3>7 DEF PublishFails, AfterFailedPublish, Decide
      <4> QED BY <4>1, <4>3, <4>4
    <3>8. CASE AnswerLost
      <4>1. sends' \in 0..MaxSends /\ counted' \in [Index -> Nat]
        BY <3>8 DEF AnswerLost, Count
      <4> QED BY <3>8, <4>1 DEF AnswerLost, Event
    <3> QED BY <2>5, <3>1, <3>2, <3>3, <3>4, <3>5, <3>6, <3>7, <3>8 DEF Handle
  <2>6. CASE UNCHANGED vars
    BY <2>6 DEF vars, Event
  <2> QED BY <2>1, <2>2, <2>3, <2>4, <2>5, <2>6 DEF Next
<1> QED BY <1>1, <1>2, PTL DEF Spec

(***************************************************************************)
(* Alerts and the metric, over all deliveries.                             *)
(***************************************************************************)

\* Why OncePerDelivery holds: the events this delivery has yet to judge have alerted
\* in earlier deliveries only, and an alert whose metric is being published has counted
\* as often as its requests were not answered.
CountInv ==
    /\ OncePerDelivery
    /\ phase \in Working => \A i \in Index :
          i > at \/ (i = at /\ phase # "publish") => printed[i] < attempt
    /\ phase = "publish" => /\ printed[at] > 0
                            /\ counted[at] <= MaxSends * (printed[at] - 1) + sends

\* What one alert may add to the metric.
LEMMA OneAlertMore ==
    ASSUME NEW p \in Nat
    PROVE  /\ MaxSends * p \in Nat
           /\ MaxSends * (p + 1) = MaxSends * p + MaxSends
           /\ p > 0 => MaxSends * p = MaxSends * (p - 1) + MaxSends
BY LimitsAssumption

LEMMA CountInvStep == TypeOK /\ CountInv /\ [Next]_vars => CountInv'
<1> SUFFICES ASSUME TypeOK, CountInv, [Next]_vars PROVE CountInv'
  OBVIOUS
<1>0. /\ Len(batch.events) \in Nat
      /\ attempt \in Nat /\ at \in Nat
      /\ printed \in [Index -> Nat] /\ counted \in [Index -> Nat]
      /\ sends \in 0..MaxSends /\ MaxSends \in Nat \ {0}
      /\ phase \in {"pop", "query", "verdict", "publish"} => at \in Index
  BY BatchTyped, LimitsAssumption DEF TypeOK, Working
<1> USE <1>0 DEF CountInv, OncePerDelivery, Index, Working, inputs, search, alarms
<1>1. CASE Deliver \/ Redeliver
  <2>1. /\ UNCHANGED <<batch, printed, counted>>
        /\ attempt' = attempt + 1
        /\ phase' = "next"
    BY <1>1 DEF Deliver, Redeliver, Invoke
  <2>2. \A i \in Index : printed[i] < attempt'
    BY <2>1
  <2> QED BY <2>1, <2>2
<1>2. CASE Dies
  BY <1>2 DEF Dies
<1>3. CASE SkipDeepName \/ TakeName \/ GetAnswer \/ QueryFails \/ QueryTimesOut
           \/ TimeRunsOut \/ Found \/ FollowCnames
  <2>1. /\ UNCHANGED <<batch, attempt, at, printed, counted>>
        /\ phase \in {"pop", "query"}
        /\ phase' \in {"pop", "query", "verdict", "failed"}
    BY <1>3 DEF SkipDeepName, TakeName, GetAnswer, QueryFails, QueryTimesOut,
                TimeRunsOut, Found, FollowCnames, AllAsked, Ask
  <2> QED BY <2>1
<1>4. CASE NothingFound
  BY <1>4 DEF NothingFound, Decide
<1>5. CASE Return
  BY <1>5 DEF Return
<1>6. CASE SkipInvalid
  BY <1>6 DEF SkipInvalid, AtEvent, Decide
<1>7. CASE BeginSearch
  BY <1>7 DEF BeginSearch, AtEvent
<1>8. CASE Matches
  BY <1>8 DEF Matches, Decide
<1>9. CASE PrintAlert
  <2>1. /\ UNCHANGED <<batch, attempt, at, counted>>
        /\ phase = "verdict" /\ phase' = "publish" /\ sends' = 0
        /\ printed' = [printed EXCEPT ![at] = @ + 1]
    BY <1>9 DEF PrintAlert
  <2>2. printed[at] < attempt /\ at \in Index
    BY <2>1
  <2>3. \A i \in Index : printed'[i] = IF i = at THEN printed[i] + 1 ELSE printed[i]
    BY <2>1
  <2>4. counted[at] <= MaxSends * printed[at] /\ printed[at] \in Nat /\ counted[at] \in Nat
    BY <2>2
  <2>5. /\ MaxSends * printed[at] \in Nat
        /\ MaxSends * (printed[at] + 1) = MaxSends * printed[at] + MaxSends
    BY <2>4, OneAlertMore
  <2>6. counted[at] <= MaxSends * (printed[at] + 1)
    BY <2>4, <2>5
  <2>7. OncePerDelivery'
    <3> SUFFICES ASSUME NEW i \in Index
                 PROVE  printed'[i] <= attempt /\ counted[i] <= MaxSends * printed'[i]
      BY <2>1
    <3>1. CASE i = at
      <4>1. printed'[i] = printed[at] + 1
        BY <2>3, <3>1
      <4> QED BY <1>0, <2>2, <2>4, <2>6, <3>1, <4>1
    <3>2. CASE i # at
      <4>1. printed'[i] = printed[i]
        BY <2>3, <3>2
      <4> QED BY <4>1
    <3> QED BY <3>1, <3>2
  <2>8. printed'[at] > 0 /\ printed'[at] - 1 = printed[at]
    <3>1. printed'[at] = printed[at] + 1
      BY <2>2, <2>3
    <3> QED BY <2>4, <3>1
  <2>9. counted'[at] <= MaxSends * (printed'[at] - 1) + sends'
    BY <2>1, <2>4, <2>5, <2>8
  <2> QED BY <2>1, <2>2, <2>3, <2>7, <2>8, <2>9
<1>10. CASE PublishMetric \/ AnswerLost
  <2>1. /\ UNCHANGED <<batch, attempt, printed>>
        /\ phase = "publish" /\ at \in Index /\ sends < MaxSends
        /\ Count \/ UNCHANGED counted
    BY <1>10 DEF PublishMetric, AnswerLost
  <2>2. /\ \A i \in Index : i # at => counted'[i] = counted[i]
        /\ counted'[at] \in Nat /\ counted'[at] <= counted[at] + 1
    <3>1. CASE Count
      <4>1. counted' = [counted EXCEPT ![at] = @ + 1] /\ counted[at] \in Nat
        BY <2>1, <3>1 DEF Count
      <4>2. counted'[at] = counted[at] + 1
        BY <2>1, <4>1
      <4> QED BY <2>1, <4>1, <4>2
    <3>2. CASE UNCHANGED counted
      <4>1. counted[at] \in Nat
        BY <2>1
      <4> QED BY <3>2, <4>1
    <3> QED BY <2>1, <3>1, <3>2
  <2>3. /\ printed[at] > 0 /\ printed[at] \in Nat /\ counted[at] \in Nat
        /\ counted[at] <= MaxSends * (printed[at] - 1) + sends
    BY <2>1
  <2>4. /\ MaxSends * (printed[at] - 1) \in Nat
        /\ MaxSends * printed[at] = MaxSends * (printed[at] - 1) + MaxSends
    <3>1. printed[at] - 1 \in Nat
      BY <2>3
    <3> QED BY <2>3, <3>1, OneAlertMore
  <2>5. counted'[at] <= MaxSends * (printed[at] - 1) + (sends + 1)
    <3> DEFINE q == MaxSends * (printed[at] - 1)
    <3>1. /\ q \in Nat /\ sends \in Nat
          /\ counted[at] \in Nat /\ counted[at] <= q + sends
          /\ counted'[at] \in Nat /\ counted'[at] <= counted[at] + 1
      BY <1>0, <2>2, <2>3, <2>4
    <3> HIDE DEF q
    <3>2. counted'[at] <= q + (sends + 1)
      BY <3>1
    <3> QED BY <3>2 DEF q
  <2>6. counted'[at] <= MaxSends * printed[at]
    BY <2>1, <2>2, <2>4, <2>5
  <2>7. OncePerDelivery'
    BY <2>1, <2>2, <2>6
  <2>8. CASE PublishMetric
    <3>1. phase' = "next" /\ at' = at + 1
      BY <2>8 DEF PublishMetric, Decide
    <3> QED BY <2>1, <2>7, <3>1
  <2>9. CASE AnswerLost
    <3>1. phase' = phase /\ at' = at /\ sends' = sends + 1
      BY <2>9 DEF AnswerLost
    <3> QED BY <2>1, <2>3, <2>5, <2>7, <3>1
  <2> QED BY <1>10, <2>8, <2>9
<1>11. CASE PublishFails
  BY <1>11 DEF PublishFails, AfterFailedPublish, Decide
<1>12. CASE UNCHANGED vars
  BY <1>12 DEF vars
<1> QED BY <1>1, <1>2, <1>3, <1>4, <1>5, <1>6, <1>7, <1>8, <1>9, <1>10, <1>11, <1>12
        DEF Next, Search, Handle

\* However often a batch is delivered, an event alerts at most once per delivery, and
\* however often the SDK repeats its metric, it counts at most MaxSends times per alert.
THEOREM AlertsOncePerDelivery == Spec => []OncePerDelivery
<1>1. Init => CountInv
  <2>1. MaxSends * 0 = 0
    BY LimitsAssumption
  <2> QED BY <2>1, BatchTyped DEF Init, CountInv, OncePerDelivery, Index, Working
<1>2. CountInv => OncePerDelivery
  BY DEF CountInv
<1> QED BY <1>1, <1>2, CountInvStep, TypeCorrect, PTL DEF Spec

(***************************************************************************)
(* Genuine destinations.                                                   *)
(***************************************************************************)

\* Why GenuineIsNotReported holds: the search for the event's SNI stays within every
\* set of names closed under CNAMEs, so what it has found comes from answers for them.
\* In particular nothing found for an earlier event is left.
StaysWithin(S) ==
    /\ phase \in {"pop", "query"} => \A pair \in pending : pair[1] \in S
    /\ phase = "query" => looking[1] \in S /\ cnames \cap Names \subseteq S
    /\ EveryAnswerHas(S, Event.dst) => resolved = {} \/ Event.dst \in resolved
    /\ NoAnswerHas(S, Event.dst) => Event.dst \notin resolved

SearchInv ==
    /\ phase \in {"pop", "query", "verdict"} =>
         \A S \in SUBSET Names : Family(S, Event.sni) => StaysWithin(S)
    /\ phase = "verdict" => resolved # {}

LEMMA SearchInvStep == TypeOK /\ SearchInv /\ [Next]_vars => SearchInv'
<1> SUFFICES ASSUME TypeOK, SearchInv, [Next]_vars PROVE SearchInv'
  OBVIOUS
<1> USE DEF inputs, search, alarms
<1>1. CASE BeginSearch
  <2>1. /\ UNCHANGED <<batch, zone, at>>
        /\ phase' = "pop"
        /\ pending' = {<<Event.sni, 0>>}
        /\ resolved' = {}
    BY <1>1 DEF BeginSearch, NewResolved
  <2> QED BY <2>1 DEF SearchInv, StaysWithin, Family, Event
<1>2. CASE SkipDeepName \/ TakeName \/ GetAnswer \/ QueryFails \/ QueryTimesOut
           \/ Found \/ FollowCnames
  <2>0. /\ UNCHANGED <<batch, zone, at>>
        /\ phase \in {"pop", "query"}
        /\ phase' = "verdict" => resolved' # {}
    BY <1>2 DEF SkipDeepName, TakeName, GetAnswer, QueryFails, QueryTimesOut, Found,
                FollowCnames, AllAsked, Ask
  <2> SUFFICES ASSUME NEW S \in SUBSET Names, Family(S, Event.sni)'
               PROVE  StaysWithin(S)'
    BY <2>0 DEF SearchInv
  <2>1. /\ Family(S, Event.sni)
        /\ StaysWithin(S)
        /\ EveryAnswerHas(S, Event.dst)' <=> EveryAnswerHas(S, Event.dst)
        /\ NoAnswerHas(S, Event.dst)' <=> NoAnswerHas(S, Event.dst)
        /\ Event' = Event
    BY <2>0 DEF SearchInv, Family, Event, EveryAnswerHas, NoAnswerHas
  <2>2. CASE SkipDeepName
    BY <2>1, <2>2 DEF SkipDeepName, Removed, StaysWithin
  <2>3. CASE TakeName
    BY <2>1, <2>3 DEF TakeName, Front, Removed, StaysWithin
  <2>4. CASE GetAnswer
    <3>0. PICK r \in Asked : /\ Ask(r)
                             /\ \E answer \in zone[r][looking[1]] :
                                  /\ resolved' = resolved \cup answer.addresses
                                  /\ cnames' = cnames \cup answer.cnames
      BY <2>4 DEF GetAnswer
    <3>1. PICK answer \in zone[r][looking[1]] :
              /\ resolved' = resolved \cup answer.addresses
              /\ cnames' = cnames \cup answer.cnames
      BY <3>0
    <3>2. looking[1] \in S
      BY <2>1, <3>0 DEF Ask, StaysWithin
    <3>3. answer.cnames \cap Names \subseteq S
      BY <2>1, <3>2 DEF Family
    <3>4. EveryAnswerHas(S, Event.dst) =>
            answer.addresses = {} \/ Event.dst \in answer.addresses
      BY <3>2 DEF EveryAnswerHas
    <3>5. NoAnswerHas(S, Event.dst) => Event.dst \notin answer.addresses
      BY <3>2 DEF NoAnswerHas
    <3> QED BY <2>1, <2>4, <3>0, <3>1, <3>2, <3>3, <3>4, <3>5 DEF GetAnswer, Ask, StaysWithin
  <2>5. CASE QueryFails \/ QueryTimesOut
    <3>1. UNCHANGED <<phase, pending, looking, resolved, cnames>>
      BY <2>5 DEF QueryFails, QueryTimesOut
    <3> QED BY <2>1, <3>1 DEF StaysWithin
  <2>6. CASE Found
    BY <2>1, <2>6 DEF Found, AllAsked, StaysWithin
  <2>7. CASE FollowCnames
    BY <2>1, <2>7 DEF FollowCnames, AllAsked, StaysWithin
  <2> QED BY <1>2, <2>2, <2>3, <2>4, <2>5, <2>6, <2>7
<1>3. CASE UNCHANGED vars
  BY <1>3 DEF vars, SearchInv, StaysWithin, Family, EveryAnswerHas,
                   NoAnswerHas, Event
<1>4. CASE Deliver \/ Redeliver \/ Dies \/ TimeRunsOut \/ NothingFound \/ (Handle /\ ~BeginSearch)
  <2>1. phase' \notin {"pop", "query", "verdict"}
    BY <1>4 DEF Deliver, Redeliver, Invoke, Dies, TimeRunsOut, NothingFound, Handle,
                Return, SkipInvalid, Matches, PrintAlert, PublishMetric, AnswerLost, PublishFails,
                AfterFailedPublish, Decide
  <2> QED BY <2>1 DEF SearchInv
<1> QED BY <1>1, <1>2, <1>3, <1>4 DEF Next, Search

\* Whatever the other events of the batch are, whichever resolvers fail or time out,
\* and however often it is delivered: a genuine destination raises no alert.
THEOREM GenuineNeverReported == Spec => []GenuineIsNotReported
<1>1. Init => SearchInv /\ GenuineIsNotReported
  BY DEF Init, SearchInv, GenuineIsNotReported
<1>2. TypeOK /\ SearchInv /\ GenuineIsNotReported /\ [Next]_vars => GenuineIsNotReported'
  <2> SUFFICES ASSUME TypeOK, SearchInv, GenuineIsNotReported, [Next]_vars
               PROVE  GenuineIsNotReported'
    OBVIOUS
  <2> USE DEF inputs, search, alarms
  <2>1. CASE PrintAlert
    <3>1. /\ UNCHANGED <<batch, zone, at>>
          /\ phase = "verdict"
          /\ Event.dst \notin resolved
          /\ printed' = [printed EXCEPT ![at] = @ + 1]
      BY <2>1 DEF PrintAlert
    <3>2. at \in Index /\ printed \in [Index -> Nat]
      BY <3>1 DEF TypeOK, Working
    <3>3. ~Genuine(Event)
      BY <3>1 DEF SearchInv, StaysWithin, Genuine
    <3>4. ASSUME NEW i \in Index, Genuine(batch.events[i])
          PROVE  printed'[i] = 0
      BY <3>1, <3>2, <3>3, <3>4 DEF GenuineIsNotReported, Event
    <3> QED BY <3>1, <3>4 DEF GenuineIsNotReported, Genuine, Family, EveryAnswerHas, Index
  <2>2. CASE UNCHANGED <<batch, zone, printed>>
    BY <2>2 DEF GenuineIsNotReported, Genuine, Family, EveryAnswerHas, Index
  <2>3. PrintAlert \/ UNCHANGED <<batch, zone, printed>>
    BY DEF Next, vars, Deliver, Redeliver, Invoke, Dies, Search, Handle, Return, SkipInvalid,
           BeginSearch, SkipDeepName, TakeName, GetAnswer, QueryFails, QueryTimesOut,
           TimeRunsOut, Found, FollowCnames, NothingFound, Matches, PublishMetric,
           AnswerLost, PublishFails
  <2> QED BY <2>1, <2>2, <2>3
<1> QED BY <1>1, <1>2, SearchInvStep, TypeCorrect, PTL DEF Spec

(***************************************************************************)
(* Spoofed destinations.                                                   *)
(***************************************************************************)

\* Why a search does not miss addresses a reliable resolver leads to: a name from which
\* they are still within reach of MAX_CNAME_DEPTH is queued, or is being looked up and
\* either that resolver has yet to be asked or it has answered with such a name.
InReach(rank, r) ==
    \/ \E pair \in pending : pair[2] + rank[pair[1]] <= MaxDepth
    \/ /\ phase = "query"
       /\ looking[2] + rank[looking[1]] <= MaxDepth
       /\ asked < r \/ \E target \in cnames \cap Names : rank[target] < rank[looking[1]]

ReachInv ==
    /\ phase = "pop" => resolved = {}
    /\ phase \in {"pop", "query"} /\ resolved = {} =>
         \A r \in Reliable, rank \in [Names -> 0..MaxDepth + 1] :
             Ranks(rank, r) /\ rank[Event.sni] <= MaxDepth => InReach(rank, r)

LEMMA ReachInvStep == TypeOK /\ ReachInv /\ [Next]_vars => ReachInv'
<1> SUFFICES ASSUME TypeOK, ReachInv, [Next]_vars PROVE ReachInv'
  OBVIOUS
<1> USE LimitsAssumption, ResolversAssumption DEF inputs, search, alarms
<1>1. CASE BeginSearch
  <2>1. /\ UNCHANGED <<batch, zone, at>>
        /\ phase' = "pop"
        /\ pending' = {<<Event.sni, 0>>}
        /\ resolved' = {}
        /\ Event.sni \in Names
    BY <1>1, ValidEvent DEF BeginSearch, NewResolved, AtEvent, Event, TypeOK
  <2>2. ASSUME NEW rank \in [Names -> 0..MaxDepth + 1], rank[Event.sni] <= MaxDepth
        PROVE  \E pair \in pending' : pair[2] + rank[pair[1]] <= MaxDepth
    <3>1. 0 + rank[Event.sni] <= MaxDepth
      BY <2>1, <2>2
    <3> QED BY <2>1, <3>1
  <2> QED BY <2>1, <2>2 DEF ReachInv, InReach, Event
<1>2. CASE SkipDeepName \/ TakeName \/ GetAnswer \/ QueryFails \/ QueryTimesOut \/ FollowCnames
  <2>0. /\ UNCHANGED <<batch, zone, at>>
        /\ phase \in {"pop", "query"}
        /\ phase' = "pop" => resolved' = {}
        /\ resolved' = {} => resolved = {}
    BY <1>2 DEF SkipDeepName, TakeName, GetAnswer, QueryFails, QueryTimesOut,
                FollowCnames, AllAsked, Ask, ReachInv
  <2> SUFFICES ASSUME resolved' = {},
                      NEW r \in Reliable, NEW rank \in [Names -> 0..MaxDepth + 1],
                      Ranks(rank, r)', (rank[Event.sni] <= MaxDepth)'
               PROVE  InReach(rank, r)'
    BY <2>0 DEF ReachInv
  <2>1. /\ Ranks(rank, r)
        /\ InReach(rank, r)
        /\ resolved = {}
        /\ r \in 1..Resolvers
    BY <2>0 DEF ReachInv, Ranks, Event, Asked
  <2>2. /\ pending \subseteq Names \X (0..MaxDepth + 1)
        /\ phase = "query" => looking \in Names \X (0..MaxDepth)
        /\ asked \in 0..Resolvers
    BY DEF TypeOK
  <2>3. CASE SkipDeepName
    <3>1. PICK pair \in pending : pair[2] > MaxDepth /\ pending' = pending \ {pair}
      BY <2>3 DEF SkipDeepName, Removed, TooDeep
    <3>2. PICK near \in pending : near[2] + rank[near[1]] <= MaxDepth
      BY <2>1, <2>3 DEF SkipDeepName, InReach
    <3>3. near # pair
      <4>1. near[1] \in Names /\ near[2] \in 0..MaxDepth + 1
        BY <2>2, <3>2
      <4> QED BY <3>1, <3>2, <4>1
    <3> QED BY <3>1, <3>2, <3>3 DEF InReach
  <2>4. CASE TakeName
    <3>1. PICK pair \in pending : pending' = pending \ {pair} /\ looking' = pair
      BY <2>4 DEF TakeName, Removed
    <3>2. PICK near \in pending : near[2] + rank[near[1]] <= MaxDepth
      BY <2>1, <2>4 DEF TakeName, InReach
    <3>3. asked' < r /\ phase' = "query"
      BY <2>1, <2>4 DEF TakeName
    <3> QED BY <3>1, <3>2, <3>3 DEF InReach
  <2>5. CASE GetAnswer
    <3>0. PICK s \in Asked : /\ Ask(s)
                             /\ \E answer \in zone[s][looking[1]] :
                                  /\ resolved' = resolved \cup answer.addresses
                                  /\ cnames' = cnames \cup answer.cnames
      BY <2>5 DEF GetAnswer
    <3>1. PICK answer \in zone[s][looking[1]] :
              /\ resolved' = resolved \cup answer.addresses
              /\ cnames' = cnames \cup answer.cnames
      BY <3>0
    <3>2. /\ phase = "query" /\ phase' = "query"
          /\ asked' = asked + 1 /\ s = asked + 1
          /\ UNCHANGED <<pending, looking>>
      BY <2>5, <3>0 DEF GetAnswer, Ask
    <3>3. CASE \E pair \in pending : pair[2] + rank[pair[1]] <= MaxDepth
      BY <3>2, <3>3 DEF InReach
    <3>4. CASE \E target \in cnames \cap Names : rank[target] < rank[looking[1]]
      BY <2>1, <3>1, <3>2, <3>4 DEF InReach
    <3>5. CASE /\ looking[2] + rank[looking[1]] <= MaxDepth
               /\ asked < r
      <4>1. CASE s = r
        <5>1. looking[1] \in Names /\ looking[2] \in 0..MaxDepth
          BY <2>2, <3>2
        <5>2. rank[looking[1]] <= MaxDepth
          BY <3>5, <5>1
        <5>3. answer.addresses = {}
          BY <3>1
        <5>4. \E target \in answer.cnames \cap Names : rank[target] < rank[looking[1]]
          BY <2>1, <3>1, <4>1, <5>1, <5>2, <5>3 DEF Ranks
        <5> QED BY <3>1, <3>2, <3>5, <5>4 DEF InReach
      <4>2. CASE s # r
        <5>1. asked' < r
          BY <2>1, <2>2, <3>2, <3>5, <4>2
        <5> QED BY <3>2, <3>5, <5>1 DEF InReach
      <4> QED BY <4>1, <4>2
    <3> QED BY <2>1, <3>3, <3>4, <3>5 DEF InReach
  <2>6. CASE QueryFails \/ QueryTimesOut
    <3>1. /\ \E s \in Asked \ Reliable : Ask(s)
          /\ UNCHANGED <<phase, pending, looking, cnames>>
      BY <2>6 DEF QueryFails, QueryTimesOut
    <3>2. asked < r => asked' < r
      BY <2>1, <2>2, <3>1 DEF Ask, Asked
    <3> QED BY <2>1, <3>1, <3>2 DEF InReach
  <2>7. CASE FollowCnames
    <3>1. /\ phase = "query" /\ asked = Resolvers
          /\ pending' = pending \cup
               {<<target, looking[2] + 1>> : target \in cnames \cap Names}
      BY <2>7 DEF FollowCnames, AllAsked
    <3>2. ~(asked < r)
      BY <2>1, <3>1
    <3>3. CASE \E pair \in pending : pair[2] + rank[pair[1]] <= MaxDepth
      BY <3>1, <3>3 DEF InReach
    <3>4. CASE /\ looking[2] + rank[looking[1]] <= MaxDepth
               /\ \E target \in cnames \cap Names : rank[target] < rank[looking[1]]
      <4>1. PICK target \in cnames \cap Names : rank[target] < rank[looking[1]]
        BY <3>4
      <4>2. looking[1] \in Names /\ looking[2] \in 0..MaxDepth
        BY <2>2, <3>1
      <4>3. looking[2] + 1 + rank[target] <= MaxDepth
        BY <3>4, <4>1, <4>2
      <4>4. <<target, looking[2] + 1>> \in pending'
        BY <3>1
      <4> QED BY <4>3, <4>4 DEF InReach
    <3> QED BY <2>1, <3>2, <3>3, <3>4 DEF InReach
  <2> QED BY <1>2, <2>3, <2>4, <2>5, <2>6, <2>7
<1>3. CASE UNCHANGED vars
  BY <1>3 DEF vars, ReachInv, InReach, Ranks, Event
<1>4. CASE Deliver \/ Redeliver \/ Dies \/ TimeRunsOut \/ Found \/ NothingFound
           \/ (Handle /\ ~BeginSearch)
  <2>1. phase' \notin {"pop", "query"}
    BY <1>4 DEF Deliver, Redeliver, Invoke, Dies, TimeRunsOut, Found, NothingFound, Handle,
                Return, SkipInvalid, Matches, PrintAlert, PublishMetric, AnswerLost, PublishFails,
                AfterFailedPublish, Decide
  <2> QED BY <2>1 DEF ReachInv
<1> QED BY <1>1, <1>2, <1>3, <1>4 DEF Next, Search

\* Every event the loop has passed has alerted if it had to.
Judged(i) == MustAlert(batch.events[i]) => outcome[i] = "alerts" /\ printed[i] > 0

ReportInv ==
    /\ phase \in Working => \A i \in Index : i < at => Judged(i)
    /\ phase = "publish" => printed[at] > 0
    /\ SpoofingIsReported

\* Whether an event must alert depends on the batch and the resolvers alone.
LEMMA MustAlertStable ==
    ASSUME UNCHANGED inputs, NEW i \in Index
    PROVE  MustAlert(batch.events[i])' <=> MustAlert(batch.events[i])
BY DEF inputs, MustAlert, Spoofed, Family, NoAnswerHas, LeadsToAddresses, Ranks

\* A search that comes to an end without addresses had none to find, and one whose
\* addresses contain the destination did not have to alert.
LEMMA NothingMissed ==
    ASSUME TypeOK, SearchInv, ReachInv, at \in Index, MustAlert(Event)
    PROVE  /\ ~NothingFound
           /\ phase = "verdict" => Event.dst \notin resolved
<1>1. ASSUME NothingFound PROVE FALSE
  <2>1. PICK r \in Reliable, rank \in [Names -> 0..MaxDepth + 1] :
            rank[Event.sni] <= MaxDepth /\ Ranks(rank, r)
    BY DEF MustAlert, LeadsToAddresses
  <2>2. InReach(rank, r)
    BY <1>1, <2>1 DEF NothingFound, ReachInv
  <2> QED BY <1>1, <2>2 DEF InReach, NothingFound
<1>2. ASSUME phase = "verdict" PROVE Event.dst \notin resolved
  BY <1>2 DEF MustAlert, Spoofed, SearchInv, StaysWithin
<1> QED BY <1>1, <1>2

LEMMA ReportInvStep ==
    TypeOK /\ SearchInv /\ ReachInv /\ ReportInv /\ [Next]_vars => ReportInv'
<1> SUFFICES ASSUME TypeOK, SearchInv, ReachInv, ReportInv, [Next]_vars PROVE ReportInv'
  OBVIOUS
<1>0. /\ Len(batch.events) \in Nat
      /\ at \in 1..Len(batch.events) + 1
      /\ phase \in {"pop", "query", "verdict", "publish"} => at \in Index
      /\ printed \in [Index -> Nat] /\ outcome \in [Index -> Outcomes]
      /\ phase \in Phases
  BY BatchTyped DEF TypeOK, Working
<1>1. UNCHANGED inputs /\ Index' = Index
  BY DEF Next, vars, inputs, Index, Deliver, Redeliver, Invoke, Dies, Search, Handle, Return,
         SkipInvalid, BeginSearch, SkipDeepName, TakeName, GetAnswer, QueryFails,
         QueryTimesOut, TimeRunsOut, Found, FollowCnames, NothingFound, Matches,
         PrintAlert, PublishMetric, AnswerLost, PublishFails
<1>2. \A i \in Index : MustAlert(batch.events[i])' <=> MustAlert(batch.events[i])
  BY <1>1, MustAlertStable
<1> USE DEF inputs, search, alarms
<1>3. CASE Deliver \/ Redeliver
  <2>1. at' = 1 /\ phase' = "next"
    BY <1>3 DEF Deliver, Redeliver, Invoke
  <2> QED BY <1>1, <2>1 DEF ReportInv, SpoofingIsReported, Index
<1>4. CASE Dies \/ TimeRunsOut
  <2>1. phase' = "failed"
    BY <1>4 DEF Dies, TimeRunsOut
  <2> QED BY <2>1 DEF ReportInv, SpoofingIsReported, Working
<1>5. CASE Return
  <2>1. /\ phase = "next" /\ phase' = "done"
        /\ batch.control \/ at > Len(batch.events)
        /\ UNCHANGED <<batch, outcome, printed>>
    BY <1>5 DEF Return
  <2>2. ~batch.control => \A i \in Index : Judged(i)
    BY <1>0, <2>1 DEF ReportInv, Working, Index
  <2> QED BY <1>1, <1>2, <2>1, <2>2 DEF ReportInv, SpoofingIsReported, Working, Judged
<1>6. CASE \/ BeginSearch \/ SkipDeepName \/ TakeName \/ GetAnswer \/ QueryFails
           \/ QueryTimesOut \/ Found \/ FollowCnames
  <2>1. /\ UNCHANGED <<at, outcome, printed>>
        /\ phase \in Working
        /\ phase' \in {"pop", "query", "verdict"}
    BY <1>6 DEF BeginSearch, AtEvent, SkipDeepName, TakeName, GetAnswer, QueryFails,
                QueryTimesOut, Found, FollowCnames, AllAsked, Ask, Working
  <2> QED BY <1>1, <1>2, <2>1 DEF ReportInv, SpoofingIsReported, Judged
<1>7. CASE PrintAlert
  <2>1. /\ UNCHANGED <<at, outcome>>
        /\ phase = "verdict" /\ phase' = "publish"
        /\ printed' = [printed EXCEPT ![at] = @ + 1]
        /\ at \in Index
    BY <1>0, <1>7 DEF PrintAlert
  <2>2. printed'[at] > 0 /\ \A i \in Index : i < at => printed'[i] = printed[i]
    BY <1>0, <2>1 DEF Index
  <2> QED BY <1>1, <1>2, <2>1, <2>2 DEF ReportInv, SpoofingIsReported, Judged, Working
<1>8. CASE SkipInvalid \/ NothingFound \/ Matches \/ PublishMetric \/ PublishFails
  <2>1. PICK result \in Outcomes : Decide(result) /\ (result = "alerts" <=> phase = "publish")
    BY <1>8 DEF SkipInvalid, AtEvent, NothingFound, Matches, PublishMetric, PublishFails,
                AfterFailedPublish, Outcomes
  <2>2. at \in Index /\ phase \in Working /\ UNCHANGED printed
    BY <1>0, <1>8 DEF SkipInvalid, AtEvent, NothingFound, Matches, PublishMetric,
                      PublishFails, Working
  <2>3. /\ phase' = "next" /\ at' = at + 1
        /\ outcome' = [outcome EXCEPT ![at] = result]
    BY <2>1 DEF Decide
  <2>4. MustAlert(Event) => phase = "publish"
    <3>1. CASE SkipInvalid
      BY <3>1 DEF SkipInvalid, MustAlert, Spoofed
    <3>2. CASE NothingFound \/ Matches
      BY <2>2, <3>2, NothingMissed DEF Matches
    <3>3. CASE PublishMetric \/ PublishFails
      BY <3>3 DEF PublishMetric, PublishFails
    <3> QED BY <1>8, <3>1, <3>2, <3>3
  <2>5. ASSUME NEW i \in Index, i < at + 1, MustAlert(batch.events[i])
        PROVE  outcome'[i] = "alerts" /\ printed[i] > 0
    <3>1. CASE i = at
      BY <1>0, <2>1, <2>2, <2>3, <2>4, <2>5, <3>1 DEF ReportInv, Event
    <3>2. CASE i < at
      BY <1>0, <2>2, <2>3, <2>5, <3>2 DEF ReportInv, Judged, Index
    <3> QED BY <1>0, <2>5, <3>1, <3>2 DEF Index
  <2> QED BY <1>1, <1>2, <2>2, <2>3, <2>5 DEF ReportInv, SpoofingIsReported, Judged
<1>9. CASE AnswerLost \/ UNCHANGED vars
  <2>1. UNCHANGED <<phase, at, outcome, printed>>
    BY <1>9 DEF AnswerLost, vars
  <2> QED BY <1>1, <1>2, <2>1 DEF inputs, ReportInv, SpoofingIsReported, Judged
<1> QED BY <1>3, <1>4, <1>5, <1>6, <1>7, <1>8, <1>9 DEF Next, Search, Handle

\* Whatever fails or loops elsewhere: a handled batch has alerted for each spoofed
\* destination whose name a reliable resolver leads to addresses.
THEOREM SpoofingAlwaysReported == Spec => []SpoofingIsReported
<1>1. Init => SearchInv /\ ReachInv /\ ReportInv
  BY DEF Init, SearchInv, ReachInv, ReportInv, SpoofingIsReported, Working
<1>2. ReportInv => SpoofingIsReported
  BY DEF ReportInv
<1> QED BY <1>1, <1>2, SearchInvStep, ReachInvStep, ReportInvStep, TypeCorrect, PTL DEF Spec

(***************************************************************************)
(* The order of the search, and why every delivery ends.                   *)
(***************************************************************************)

\* The depth the search is at.
Level == IF looking = <<>> THEN 0 ELSE looking[2]

LEMMA NoPairIsEmpty == ASSUME NEW pair \in Names \X (0..MaxDepth) PROVE pair # <<>>
<1>1. Len(pair) = 2 /\ Len(<<>>) = 0
  OBVIOUS
<1> QED BY <1>1

\* The queue holds names of this depth and the next one only, and the name that is being
\* looked up has left it.
LevelInv ==
    phase \in {"pop", "query"} =>
        /\ looking = <<>> \/ looking \in Names \X (0..MaxDepth)
        /\ phase = "query" => looking # <<>> /\ looking \notin pending
        /\ \A pair \in pending : pair[2] \in {Level, Level + 1}

LEMMA LevelTyped ==
    ASSUME TypeOK, LevelInv, phase \in {"pop", "query"}
    PROVE  Level \in 0..MaxDepth
BY LimitsAssumption DEF LevelInv, Level

LEMMA LevelInvStep == TypeOK /\ LevelInv /\ [Next]_vars => LevelInv'
<1> SUFFICES ASSUME TypeOK, LevelInv, [Next]_vars, phase' \in {"pop", "query"}
             PROVE  LevelInv'
  BY DEF LevelInv
<1>1. CASE SkipDeepName
  <2>1. phase = "pop" /\ UNCHANGED <<phase, looking>> /\ pending' \subseteq pending
    BY <1>1 DEF SkipDeepName, Removed
  <2> QED BY <2>1 DEF LevelInv, Level
<1>2. CASE TakeName
  <2>1. PICK pair \in pending : /\ Front(pair) /\ ~TooDeep(pair)
                                /\ pending' = pending \ {pair} /\ looking' = pair
    BY <1>2 DEF TakeName, Removed
  <2>2. phase = "pop" /\ phase' = "query"
    BY <1>2 DEF TakeName
  <2>3. pair \in Names \X (0..MaxDepth)
    <3>1. pair \in Names \X (0..MaxDepth + 1)
      BY DEF TypeOK
    <3> QED BY <2>1, <3>1, LimitsAssumption DEF TooDeep
  <2>4. pair # <<>> /\ Level' = pair[2]
    BY <2>1, <2>3, NoPairIsEmpty DEF Level
  <2>5. /\ Level \in Nat /\ pair[2] \in {Level, Level + 1}
        /\ \A other \in pending : other[2] \in {Level, Level + 1} /\ pair[2] <= other[2]
    BY <2>1, <2>2, LevelTyped DEF LevelInv, Front
  <2>6. \A other \in pending' : other[2] \in {Level', Level' + 1}
    BY <2>1, <2>4, <2>5
  <2> QED BY <2>1, <2>2, <2>3, <2>4, <2>6 DEF LevelInv
<1>3. CASE GetAnswer \/ QueryFails \/ QueryTimesOut
  BY <1>3 DEF GetAnswer, QueryFails, QueryTimesOut, LevelInv, Level
<1>4. CASE FollowCnames
  <2>1. /\ phase = "query" /\ looking' = looking /\ phase' = "pop"
        /\ pending' = pending \cup {<<target, looking[2] + 1>> : target \in cnames \cap Names}
    BY <1>4 DEF FollowCnames, AllAsked
  <2>2. /\ looking \in Names \X (0..MaxDepth) /\ Level = looking[2] /\ Level' = Level
        /\ \A pair \in pending : pair[2] \in {Level, Level + 1}
    BY <2>1 DEF LevelInv, Level
  <2>3. \A pair \in pending' : pair[2] \in {Level, Level + 1}
    BY <2>1, <2>2
  <2> QED BY <2>1, <2>2, <2>3 DEF LevelInv
<1>5. CASE BeginSearch
  <2>1. phase' = "pop" /\ looking' = <<>> /\ pending' = {<<Event.sni, 0>>}
    BY <1>5 DEF BeginSearch
  <2>2. Level' = 0
    BY <2>1 DEF Level
  <2> QED BY <2>1, <2>2 DEF LevelInv
<1>6. CASE UNCHANGED vars
  BY <1>6 DEF vars, search, LevelInv, Level
<1>7. CASE \/ Deliver \/ Redeliver \/ Dies \/ TimeRunsOut \/ Found \/ NothingFound
           \/ (Handle /\ ~BeginSearch)
  BY <1>7 DEF Deliver, Redeliver, Invoke, Dies, TimeRunsOut, Found, NothingFound, Handle,
              Return, SkipInvalid, Matches, PrintAlert, PublishMetric, AnswerLost, PublishFails,
              AfterFailedPublish, Decide
<1> QED BY <1>1, <1>2, <1>3, <1>4, <1>5, <1>6, <1>7 DEF Next, Search

LEMMA LevelInvHolds == Spec => []LevelInv
<1>1. Init => LevelInv
  BY DEF Init, LevelInv
<1> QED BY <1>1, LevelInvStep, TypeCorrect, PTL DEF Spec

\* How far the handler is with an event.
Stage == CASE phase = "next" -> 0 [] phase \in {"pop", "query"} -> 1
           [] phase = "verdict" -> 2 [] OTHER -> 3

\* What the search has yet to look up, or has yet to look up to the end.
Unexplored == pending \cup (IF phase = "query" THEN {looking} ELSE {})

\* The search asks the next resolver, takes a name, or replaces a name by deeper ones.
SearchGetsOn ==
    \/ Unexplored' = Unexplored /\ phase' = phase /\ asked' > asked
    \/ Unexplored' = Unexplored /\ phase = "pop" /\ phase' = "query"
    \/ \E pair \in Unexplored : /\ pair \notin Unexplored'
                                /\ \A new \in Unexplored' \ Unexplored : new[2] > pair[2]

\* The handler ends, goes to a later event, or to a later stage of this one, its search
\* gets on, or the SDK uses up one more request; only a new delivery begins anew.
GetsOn ==
    \/ attempt' > attempt
    \/ /\ attempt' = attempt /\ phase \in Working
       /\ \/ phase' \in {"done", "failed"}
          \/ phase' \in Working /\ at' > at
          \/ phase' \in Working /\ at' = at /\ Stage' > Stage
          \/ Stage = 1 /\ Stage' = 1 /\ at' = at /\ SearchGetsOn
          \/ Stage = 3 /\ Stage' = 3 /\ at' = at /\ sends' > sends /\ sends' <= MaxSends

\* No step of a delivery goes back, whatever CNAMEs the resolvers answer with: a name is
\* replaced by finitely many names of greater depth, and TypeOK bounds the depth.
DeliveryGetsOn == [][GetsOn]_vars

\* Every step of the handler brings the delivery nearer to its end: what
\* EveryDeliveryEnds needs besides fairness.
THEOREM DeliveriesOnlyGetOn == Spec => DeliveryGetsOn
<1>1. ASSUME TypeOK, LevelInv, Next
      PROVE  GetsOn
  <2>0. /\ attempt \in Nat /\ at \in Nat /\ asked \in Nat
        /\ phase = "query" => looking \in Names \X (0..MaxDepth)
        /\ phase \in Working \/ phase \in {"idle", "done", "failed"}
    BY <1>1, BatchTyped, LimitsAssumption, ResolversAssumption DEF TypeOK, Phases
  <2>1. CASE Deliver \/ Redeliver
    BY <2>0, <2>1 DEF Deliver, Redeliver, Invoke, GetsOn
  <2>2. CASE Dies \/ TimeRunsOut \/ Return
    BY <2>2 DEF Dies, TimeRunsOut, Return, GetsOn, Working
  <2>3. CASE SkipInvalid \/ NothingFound \/ Matches \/ PublishMetric \/ PublishFails
    BY <2>0, <2>3
    DEF SkipInvalid, AtEvent, NothingFound, Matches, PublishMetric, PublishFails,
        AfterFailedPublish, Decide, GetsOn, Working
  <2>4. CASE BeginSearch \/ Found \/ PrintAlert
    BY <2>4 DEF BeginSearch, AtEvent, Found, AllAsked, PrintAlert, GetsOn, Working, Stage
  <2>5. CASE GetAnswer \/ QueryFails \/ QueryTimesOut
    <3>1. /\ phase = "query" /\ asked' = asked + 1
          /\ UNCHANGED <<attempt, phase, at, pending, looking>>
      BY <2>5 DEF GetAnswer, QueryFails, QueryTimesOut, Ask
    <3>2. Unexplored' = Unexplored /\ Stage = 1 /\ Stage' = 1
      BY <3>1 DEF Unexplored, Stage
    <3> QED BY <2>0, <3>1, <3>2 DEF GetsOn, SearchGetsOn, Working
  <2>6. CASE TakeName
    <3>1. PICK pair \in pending : pending' = pending \ {pair} /\ looking' = pair
      BY <2>6 DEF TakeName, Removed
    <3>2. phase = "pop" /\ phase' = "query" /\ UNCHANGED <<attempt, at>>
      BY <2>6 DEF TakeName
    <3>3. Unexplored' = Unexplored /\ Stage = 1 /\ Stage' = 1
      BY <3>1, <3>2 DEF Unexplored, Stage
    <3> QED BY <3>2, <3>3 DEF GetsOn, SearchGetsOn, Working
  <2>7. CASE SkipDeepName
    <3>1. PICK pair \in pending : pending' = pending \ {pair}
      BY <2>7 DEF SkipDeepName, Removed
    <3>2. phase = "pop" /\ UNCHANGED <<phase, attempt, at>>
      BY <2>7 DEF SkipDeepName
    <3>3. Unexplored = pending /\ Unexplored' = pending \ {pair} /\ Stage = 1 /\ Stage' = 1
      BY <3>1, <3>2 DEF Unexplored, Stage
    <3> QED BY <3>1, <3>2, <3>3 DEF GetsOn, SearchGetsOn, Working
  <2>8. CASE FollowCnames
    <3>1. /\ phase = "query" /\ phase' = "pop" /\ UNCHANGED <<attempt, at>>
          /\ pending' = pending \cup
               {<<target, looking[2] + 1>> : target \in cnames \cap Names}
      BY <2>8 DEF FollowCnames, AllAsked
    <3>2. /\ Unexplored = pending \cup {looking} /\ Unexplored' = pending'
          /\ Stage = 1 /\ Stage' = 1
      BY <3>1 DEF Unexplored, Stage
    <3>3. looking \notin pending /\ looking[2] \in Nat
      BY <1>1, <2>0, <3>1 DEF LevelInv
    <3>4. \A new \in pending' \ pending : new[2] = looking[2] + 1
      BY <3>1
    <3>5. looking \notin pending'
      BY <3>3, <3>4
    <3>6. SearchGetsOn
      <4>1. looking \in Unexplored /\ looking \notin Unexplored'
        BY <3>2, <3>5
      <4>2. \A new \in Unexplored' \ Unexplored : new[2] > looking[2]
        BY <3>2, <3>3, <3>4
      <4> QED BY <4>1, <4>2 DEF SearchGetsOn
    <3> QED BY <3>1, <3>2, <3>6 DEF GetsOn, Working
  <2>9. CASE AnswerLost
    <3>1. /\ phase = "publish" /\ UNCHANGED <<phase, attempt, at>>
          /\ sends < MaxSends /\ sends' = sends + 1
      BY <2>9 DEF AnswerLost
    <3>2. sends \in Nat /\ MaxSends \in Nat /\ Stage = 3 /\ Stage' = 3
      BY <1>1, <3>1, LimitsAssumption DEF TypeOK, Stage
    <3> QED BY <3>1, <3>2 DEF GetsOn, Working
  <2> QED
    BY <1>1, <2>1, <2>2, <2>3, <2>4, <2>5, <2>6, <2>7, <2>8, <2>9 DEF Next, Search, Handle
<1>2. TypeOK /\ LevelInv /\ [Next]_vars => [GetsOn]_vars
  BY <1>1
<1> QED
  BY <1>2, TypeCorrect, LevelInvHolds, PTL DEF Spec, DeliveryGetsOn

(***************************************************************************)
(* How much time is enough.                                                *)
(***************************************************************************)

\* The resolvers whose queries may time out, and the time-outs an event may cost: one of
\* each for every name at every depth.
Flaky == Asked \ Reliable
EventTimeouts == (Cardinality(Names) * (MaxDepth + 1)) * Cardinality(Flaky)

\* Names the search may still take: those queued at its depth, and at each depth below
\* all of them.
AtLevel == {n \in Names : <<n, Level>> \in pending}
Takes == Cardinality(AtLevel) + Cardinality(Names) * (MaxDepth - Level)

ToAsk == {r \in Flaky : r > asked}
EventsBehind == (Len(batch.events) - at) * EventTimeouts

\* What this delivery has spent and may still spend fits into the time limit.
TimeInv ==
    /\ phase \in {"idle", "done"} \cup Working
    /\ phase = "next" => spent + EventsBehind + EventTimeouts <= Budget
    /\ phase = "pop" => spent + EventsBehind + Takes * Cardinality(Flaky) <= Budget
    /\ phase = "query" =>
         spent + EventsBehind + Takes * Cardinality(Flaky) + Cardinality(ToAsk) <= Budget
    /\ phase \in {"verdict", "publish"} => spent + EventsBehind <= Budget

LEMMA Flakies == IsFiniteSet(Flaky) /\ Cardinality(Flaky) \in Nat
<1>1. IsFiniteSet(Asked)
  BY ResolversAssumption, FS_Interval DEF Asked
<1> QED BY <1>1, FS_Subset, FS_CardinalityType DEF Flaky

LEMMA EventTimeoutsTyped ==
    ASSUME IsFiniteSet(Names) PROVE Cardinality(Names) \in Nat /\ EventTimeouts \in Nat
<1>1. Cardinality(Names) \in Nat
  BY FS_CardinalityType
<1>2. Cardinality(Names) * (MaxDepth + 1) \in Nat
  BY <1>1, LimitsAssumption
<1> QED BY <1>1, <1>2, Flakies DEF EventTimeouts

\* Each name taken leaves time for asking every resolver.
LEMMA OneLess ==
    ASSUME NEW a \in Nat, NEW b \in Nat, NEW c \in Nat, a + 1 <= b
    PROVE  a * c + c <= b * c
<1>1. (a + 1) * c = a * c + c
  OBVIOUS
<1>2. PICK d \in Nat : b = a + 1 + d
  BY b - a - 1 \in Nat
<1>3. b * c = (a + 1) * c + d * c
  BY <1>2
<1>4. d * c \in Nat
  OBVIOUS
<1>5. a * c \in Nat /\ b * c \in Nat
  OBVIOUS
<1> QED BY <1>1, <1>3, <1>4, <1>5

LEMMA TakesTyped ==
    ASSUME IsFiniteSet(Names), TypeOK, LevelInv, phase \in {"pop", "query"}
    PROVE  /\ IsFiniteSet(AtLevel) /\ Cardinality(AtLevel) \in Nat
           /\ Cardinality(AtLevel) <= Cardinality(Names)
           /\ Cardinality(Names) * (MaxDepth - Level) \in Nat
           /\ Takes \in Nat
<1>1. IsFiniteSet(AtLevel) /\ Cardinality(AtLevel) <= Cardinality(Names)
  BY FS_Subset DEF AtLevel
<1>2. Cardinality(AtLevel) \in Nat /\ Cardinality(Names) \in Nat
  BY <1>1, FS_CardinalityType
<1>3. MaxDepth - Level \in Nat
  BY LevelTyped, LimitsAssumption
<1>4. Cardinality(Names) * (MaxDepth - Level) \in Nat
  BY <1>2, <1>3
<1> QED BY <1>1, <1>2, <1>4 DEF Takes

\* A search begins with one name out of all.
LEMMA FirstTake ==
    ASSUME IsFiniteSet(Names), TypeOK, BeginSearch
    PROVE  Takes' * Cardinality(Flaky) \in Nat /\ Takes' * Cardinality(Flaky) <= EventTimeouts
<1>1. pending' = {<<Event.sni, 0>>} /\ looking' = <<>> /\ Event.sni \in Names
  BY ValidEvent DEF BeginSearch, AtEvent, Event, TypeOK
<1>2. Level' = 0 /\ AtLevel' = {Event.sni}
  BY <1>1 DEF Level, AtLevel
<1>3. Cardinality(AtLevel') = 1
  BY <1>2, FS_Singleton
<1>4. Cardinality(Names) \in Nat /\ Cardinality(Names) # 0
  BY <1>1, FS_CardinalityType, FS_EmptySet
<1> DEFINE s == Cardinality(Names)
<1>5. Takes' = 1 + s * MaxDepth
  BY <1>2, <1>3, LimitsAssumption DEF Takes
<1>6. s * MaxDepth \in Nat
  BY <1>4, LimitsAssumption
<1>7. s * (MaxDepth + 1) = s * MaxDepth + s
  BY <1>4, LimitsAssumption
<1>8. 1 + s * MaxDepth <= s * (MaxDepth + 1) /\ s * (MaxDepth + 1) \in Nat
  BY <1>4, <1>6, <1>7
<1> HIDE DEF s
<1>9. ASSUME NEW a \in Nat, NEW b \in Nat, NEW c \in Nat, a <= b PROVE a * c <= b * c
  <2>1. PICK d \in Nat : b = a + d
    BY <1>9, b - a \in Nat
  <2>2. b * c = a * c + d * c /\ d * c \in Nat /\ a * c \in Nat
    BY <2>1
  <2> QED BY <2>2
<1>10. 1 + s * MaxDepth \in Nat
  BY <1>6
<1>11. Takes' * Cardinality(Flaky) <= (s * (MaxDepth + 1)) * Cardinality(Flaky)
  BY <1>5, <1>8, <1>9, <1>10, Flakies
<1>12. Takes' * Cardinality(Flaky) \in Nat
  <2>1. ASSUME NEW a \in Nat, NEW b \in Nat PROVE a * b \in Nat
    OBVIOUS
  <2> QED BY <1>5, <1>10, <2>1, Flakies
<1> QED BY <1>11, <1>12 DEF EventTimeouts, s

\* Each name taken is one less, also when it is the first of the next depth.
LEMMA NextTake ==
    ASSUME IsFiniteSet(Names), TypeOK, LevelInv, TakeName
    PROVE  Takes' \in Nat /\ Takes' + 1 <= Takes
<1>1. PICK pair \in pending : /\ Front(pair) /\ ~TooDeep(pair)
                              /\ pending' = pending \ {pair} /\ looking' = pair
  BY DEF TakeName, Removed
<1>2. phase = "pop" /\ phase' = "query"
  BY DEF TakeName
<1>3. pair \in Names \X (0..MaxDepth)
  <2>1. pair \in Names \X (0..MaxDepth + 1)
    BY DEF TypeOK
  <2> QED BY <1>1, <2>1, LimitsAssumption DEF TooDeep
<1>4. pair # <<>> /\ Level' = pair[2] /\ pair = <<pair[1], pair[2]>> /\ pair[1] \in Names
  BY <1>1, <1>3, NoPairIsEmpty DEF Level
<1>5. /\ Level \in 0..MaxDepth /\ pair[2] \in 0..MaxDepth
      /\ pair[2] \in {Level, Level + 1}
      /\ \A other \in pending : pair[2] <= other[2]
  BY <1>1, <1>2, <1>3, LevelTyped DEF LevelInv, Front
<1>6. AtLevel' = {n \in Names : <<n, pair[2]>> \in pending} \ {pair[1]}
  BY <1>1, <1>4 DEF AtLevel
<1>7. /\ IsFiniteSet(AtLevel) /\ Cardinality(AtLevel) \in Nat
      /\ Cardinality(Names) \in Nat
      /\ Cardinality(Names) * (MaxDepth - Level) \in Nat
  BY <1>2, TakesTyped, FS_CardinalityType
<1>8. CASE pair[2] = Level
  <2>1. AtLevel' = AtLevel \ {pair[1]} /\ pair[1] \in AtLevel
    BY <1>1, <1>4, <1>6, <1>8 DEF AtLevel
  <2>2. /\ Cardinality(AtLevel') = Cardinality(AtLevel) - 1
        /\ Cardinality(AtLevel') \in Nat
    BY <1>7, <2>1, FS_RemoveElement, FS_CardinalityType
  <2>3. Level' = Level
    BY <1>4, <1>8
  <2> QED BY <1>7, <2>2, <2>3 DEF Takes
<1>9. CASE pair[2] = Level + 1
  <2>1. AtLevel' \subseteq Names \ {pair[1]}
    BY <1>6
  <2>2. /\ IsFiniteSet(Names \ {pair[1]})
        /\ Cardinality(Names \ {pair[1]}) = Cardinality(Names) - 1
    BY <1>4, FS_RemoveElement
  <2>3. Cardinality(AtLevel') <= Cardinality(Names) - 1 /\ Cardinality(AtLevel') \in Nat
    BY <2>1, <2>2, FS_Subset, FS_CardinalityType
  <2>4. MaxDepth - Level \in Nat /\ MaxDepth - Level' = (MaxDepth - Level) - 1
    BY <1>4, <1>5, <1>9, LimitsAssumption
  <2>5. Cardinality(Names) * ((MaxDepth - Level) - 1)
          = Cardinality(Names) * (MaxDepth - Level) - Cardinality(Names)
    BY <1>7, <2>4
  <2>6. Takes' = Cardinality(AtLevel') + Cardinality(Names) * (MaxDepth - Level)
                   - Cardinality(Names)
    BY <1>7, <2>3, <2>4, <2>5 DEF Takes
  <2>7. Cardinality(Names) * (MaxDepth - Level') \in Nat
    <3>1. ASSUME NEW a \in Nat, NEW b \in Nat PROVE a * b \in Nat
      OBVIOUS
    <3>2. MaxDepth - Level' \in Nat
      BY <1>4, <1>5, LimitsAssumption
    <3> QED BY <1>7, <3>1, <3>2
  <2>8. Takes' \in Nat
    BY <2>3, <2>7 DEF Takes
  <2> QED BY <1>7, <2>3, <2>6, <2>8 DEF Takes
<1> QED BY <1>5, <1>8, <1>9

\* Following CNAMEs or skipping a name that is too deep changes nothing at this depth.
LEMMA SameTakes ==
    ASSUME TypeOK, LevelInv, SkipDeepName \/ FollowCnames
    PROVE  Takes' = Takes
<1>1. UNCHANGED looking /\ phase \in {"pop", "query"}
  BY DEF SkipDeepName, FollowCnames, AllAsked
<1>2. Level' = Level /\ Level \in 0..MaxDepth
  BY <1>1, LevelTyped DEF Level
<1>3. \A n \in Names : <<n, Level>> \in pending' <=> <<n, Level>> \in pending
  <2>1. CASE SkipDeepName
    <3>1. PICK pair \in pending : TooDeep(pair) /\ pending' = pending \ {pair}
      BY <2>1 DEF SkipDeepName, Removed
    <3>2. pair[2] # Level
      BY <1>2, <3>1, LimitsAssumption DEF TooDeep
    <3>3. \A n \in Names : <<n, Level>> # pair
      BY <3>2
    <3> QED BY <3>1, <3>3
  <2>2. CASE FollowCnames
    <3>1. /\ phase = "query"
          /\ pending' = pending \cup
               {<<target, looking[2] + 1>> : target \in cnames \cap Names}
      BY <2>2 DEF FollowCnames, AllAsked
    <3>2. Level = looking[2]
      BY <3>1 DEF LevelInv, Level
    <3> QED BY <1>2, <3>1, <3>2
  <2> QED BY <2>1, <2>2
<1>4. AtLevel' = AtLevel
  BY <1>2, <1>3 DEF AtLevel
<1> QED BY <1>2, <1>4 DEF Takes

\* The next event.
LEMMA NextEvent ==
    ASSUME TypeOK, IsFiniteSet(Names), at \in Index, at' = at + 1, UNCHANGED batch
    PROVE  EventsBehind' + EventTimeouts = EventsBehind /\ EventsBehind \in Nat
<1>1. Len(batch.events) - at \in Nat /\ EventTimeouts \in Nat
  BY BatchTyped, EventTimeoutsTyped DEF TypeOK, Index
<1> DEFINE k == Len(batch.events) - at
<1>2. Len(batch.events) - (at + 1) = k - 1
  BY BatchTyped DEF TypeOK, Index
<1>3. EventsBehind' = (k - 1) * EventTimeouts /\ EventsBehind = k * EventTimeouts
  BY <1>2 DEF EventsBehind, EventTimeouts
<1> HIDE DEF k
<1>4. ASSUME NEW a \in Int, NEW b \in Nat PROVE (a - 1) * b + b = a * b
  OBVIOUS
<1>5. k \in Nat
  BY <1>1 DEF k
<1> QED BY <1>1, <1>3, <1>4, <1>5

\* The deliveries that the theorem is about: none is cut off for a reason of its own (the
\* answers and put_metric_data with its repeated requests take no time that matters), and
\* the time limit has room for the time-outs of a batch.
EnoughTime ==
    /\ ~MayCrash /\ IsFiniteSet(Names)
    /\ \A b \in Batches : Len(b.events) * EventTimeouts <= Budget

LEMMA TimeInvStep ==
    ASSUME EnoughTime, TypeOK, LevelInv, TimeInv, [Next]_vars
    PROVE  TimeInv'
<1>0. /\ IsFiniteSet(Names) /\ ~MayCrash /\ Budget \in Nat /\ spent \in Nat
      /\ EventTimeouts \in Nat /\ Cardinality(Flaky) \in Nat
      /\ Len(batch.events) \in Nat /\ at \in 1..Len(batch.events) + 1
      /\ phase \in {"pop", "query", "verdict", "publish"} => at \in Index
  <2>1. /\ Len(batch.events) \in Nat /\ at \in 1..Len(batch.events) + 1
        /\ phase \in {"pop", "query", "verdict", "publish"} => at \in Index
        /\ spent \in Nat
    BY BatchTyped, LimitsAssumption DEF TypeOK, Working
  <2>2. IsFiniteSet(Names) /\ ~MayCrash /\ Budget \in Nat
    BY LimitsAssumption DEF EnoughTime
  <2> QED BY <2>1, <2>2, EventTimeoutsTyped, Flakies
<1>1. ASSUME UNCHANGED <<batch, at>> PROVE EventsBehind' = EventsBehind
  BY <1>1 DEF EventsBehind, EventTimeouts
<1>2. phase \in {"pop", "query", "verdict", "publish"} => EventsBehind \in Nat
  <2>1. ASSUME NEW a \in Nat, NEW b \in Nat PROVE a * b \in Nat
    OBVIOUS
  <2>2. at \in Index => Len(batch.events) - at \in Nat
    BY <1>0 DEF Index
  <2> QED BY <1>0, <2>1, <2>2 DEF EventsBehind
<1>3. ASSUME phase \in {"pop", "query"} PROVE Takes * Cardinality(Flaky) \in Nat
  <2>1. Takes \in Nat
    BY <1>0, <1>3, TakesTyped
  <2> QED BY <1>0, <2>1
<1>4. /\ IsFiniteSet(ToAsk) /\ Cardinality(ToAsk) \in Nat
  BY Flakies, FS_Subset, FS_CardinalityType DEF ToAsk
<1>5. CASE Deliver \/ Redeliver
  <2>1. phase' = "next" /\ at' = 1 /\ spent' = 0 /\ batch' = batch
    BY <1>5 DEF Deliver, Redeliver, Invoke, inputs
  <2>2. Len(batch.events) * EventTimeouts <= Budget
    BY DEF EnoughTime, TypeOK
  <2>3. EventsBehind' + EventTimeouts = Len(batch.events) * EventTimeouts
    <3>1. EventsBehind' = (Len(batch.events) - 1) * EventTimeouts
      BY <2>1 DEF EventsBehind, EventTimeouts
    <3>2. ASSUME NEW a \in Int, NEW b \in Nat PROVE (a - 1) * b + b = a * b
      OBVIOUS
    <3> QED BY <1>0, <3>1, <3>2
  <2>4. spent' + EventsBehind' + EventTimeouts <= Budget
    <3>1. EventsBehind' \in Int
      <4>1. ASSUME NEW a \in Int, NEW b \in Nat PROVE a * b \in Int
        OBVIOUS
      <4>2. EventsBehind' = (Len(batch.events) - 1) * EventTimeouts
        BY <2>1 DEF EventsBehind, EventTimeouts
      <4> QED BY <1>0, <4>1, <4>2
    <3>2. EventsBehind' + EventTimeouts <= Budget
      BY <2>2, <2>3
    <3>3. spent' = 0 /\ EventTimeouts \in Nat /\ Budget \in Nat
      BY <1>0, <2>1
    <3>4. ASSUME NEW a \in Int, NEW b \in Nat, NEW c \in Nat, a + b <= c PROVE 0 + a + b <= c
      BY <3>4
    <3> QED BY <3>1, <3>2, <3>3, <3>4
  <2> QED BY <2>1, <2>4 DEF TimeInv, Working
<1>6. CASE Dies \/ Return \/ Found \/ PrintAlert \/ UNCHANGED vars
  <2>1. UNCHANGED <<batch, at, spent>> /\ EventsBehind' = EventsBehind
    BY <1>1, <1>6
    DEF Dies, Return, Found, PrintAlert, vars, inputs
  <2>2. CASE UNCHANGED vars
    <3>1. /\ Takes' = Takes /\ ToAsk' = ToAsk /\ phase' = phase
      BY <2>2 DEF Takes, AtLevel, Level, ToAsk, vars, search
    <3> QED BY <2>1, <3>1 DEF TimeInv
  <2>3. CASE Return
    BY <2>3 DEF Return, TimeInv, Working
  <2>4. CASE Found \/ PrintAlert
    <3>1. \/ phase = "query" /\ phase' = "verdict"
          \/ phase = "verdict" /\ phase' = "publish"
      BY <2>4 DEF Found, AllAsked, PrintAlert
    <3> QED BY <1>0, <1>2, <1>3, <1>4, <2>1, <3>1 DEF TimeInv, Working
  <2> QED BY <1>0, <1>6, <2>2, <2>3, <2>4 DEF Dies
<1>7. CASE SkipInvalid \/ NothingFound \/ Matches \/ PublishMetric \/ PublishFails
  <2>1. /\ UNCHANGED <<batch, spent>> /\ at' = at + 1 /\ phase' = "next"
        /\ phase \in {"next", "pop", "verdict", "publish"}
        /\ at \in Index
    BY <1>0, <1>7
    DEF SkipInvalid, AtEvent, NothingFound, Matches, PublishMetric, PublishFails,
        AfterFailedPublish, Decide, inputs
  <2>2. EventsBehind' + EventTimeouts = EventsBehind
    BY <1>0, <2>1, NextEvent
  <2>3. spent + EventsBehind <= Budget
    <3>1. EventsBehind \in Nat
      BY <1>0, <2>1, NextEvent
    <3>2. CASE phase = "next"
      <4>1. spent + EventsBehind + EventTimeouts <= Budget
        BY <3>2 DEF TimeInv
      <4> QED BY <1>0, <3>1, <4>1
    <3>3. CASE phase = "pop"
      <4>1. spent + EventsBehind + Takes * Cardinality(Flaky) <= Budget
        BY <3>3 DEF TimeInv
      <4> QED BY <1>0, <1>3, <3>1, <3>3, <4>1
    <3>4. CASE phase \in {"verdict", "publish"}
      BY <3>4 DEF TimeInv
    <3> QED BY <2>1, <3>2, <3>3, <3>4
  <2>4. spent' + EventsBehind' + EventTimeouts <= Budget
    <3>1. EventsBehind' \in Int
      <4>1. ASSUME NEW a \in Int, NEW b \in Nat PROVE a * b \in Int
        OBVIOUS
      <4>2. EventsBehind' = (Len(batch.events) - (at + 1)) * EventTimeouts
        BY <2>1 DEF EventsBehind, EventTimeouts
      <4> QED BY <1>0, <4>1, <4>2
    <3>2. spent' = spent /\ spent \in Nat /\ EventTimeouts \in Nat
      BY <1>0, <2>1
    <3> QED BY <2>2, <2>3, <3>1, <3>2
  <2> QED BY <2>1, <2>4 DEF TimeInv, Working
<1>8. CASE BeginSearch
  <2>1. phase = "next" /\ phase' = "pop" /\ UNCHANGED <<batch, at, spent>>
    BY <1>8 DEF BeginSearch, AtEvent, inputs
  <2>2. /\ Takes' * Cardinality(Flaky) \in Nat
        /\ Takes' * Cardinality(Flaky) <= EventTimeouts
    BY <1>0, <1>8, FirstTake
  <2>3. EventsBehind' = EventsBehind /\ EventsBehind \in Int
    <3>1. ASSUME NEW a \in Int, NEW b \in Nat PROVE a * b \in Int
      OBVIOUS
    <3> QED BY <1>0, <1>1, <2>1, <3>1 DEF EventsBehind
  <2>4. spent + EventsBehind + EventTimeouts <= Budget
    BY <2>1 DEF TimeInv
  <2>5. spent' + EventsBehind' + Takes' * Cardinality(Flaky) <= Budget
    BY <1>0, <2>1, <2>2, <2>3, <2>4
  <2> QED BY <2>1, <2>5 DEF TimeInv, Working
<1>9. CASE SkipDeepName \/ FollowCnames
  <2>1. /\ phase \in {"pop", "query"} /\ phase' = "pop"
        /\ UNCHANGED <<batch, at, spent>>
    BY <1>9 DEF SkipDeepName, FollowCnames, AllAsked, inputs
  <2>2. Takes' = Takes /\ EventsBehind' = EventsBehind
    BY <1>1, <1>9, <2>1, SameTakes
  <2> QED BY <1>0, <1>2, <1>3, <1>4, <2>1, <2>2 DEF TimeInv, Working
<1>10. CASE TakeName
  <2>1. /\ phase = "pop" /\ phase' = "query" /\ asked' = 0
        /\ UNCHANGED <<batch, at, spent>>
    BY <1>10 DEF TakeName, inputs
  <2>2. Takes' * Cardinality(Flaky) + Cardinality(Flaky) <= Takes * Cardinality(Flaky)
    <3>1. Takes' \in Nat /\ Takes \in Nat /\ Takes' + 1 <= Takes
      <4>1. Takes \in Nat
        BY <1>0, <2>1, TakesTyped
      <4> QED BY <1>0, <1>10, <4>1, NextTake
    <3> QED BY <1>0, <3>1, OneLess
  <2>3. ToAsk' = Flaky
    BY <2>1 DEF ToAsk, Flaky, Asked
  <2>4. EventsBehind' = EventsBehind
    BY <1>1, <2>1
  <2>5. Takes' * Cardinality(Flaky) \in Nat
    <3>1. Takes' \in Nat
      BY <1>0, <1>10, NextTake
    <3> QED BY <1>0, <3>1
  <2> QED BY <1>0, <1>2, <1>3, <2>1, <2>2, <2>3, <2>4, <2>5 DEF TimeInv, Working
<1>11. CASE GetAnswer \/ QueryFails \/ QueryTimesOut
  <2>1. /\ phase = "query" /\ phase' = "query" /\ asked' = asked + 1
        /\ UNCHANGED <<batch, at, pending, looking>>
    BY <1>11 DEF GetAnswer, QueryFails, QueryTimesOut, Ask, inputs
  <2>2. Takes' = Takes /\ EventsBehind' = EventsBehind
    BY <1>1, <2>1 DEF Takes, AtLevel, Level
  <2>3. asked \in Nat
    BY ResolversAssumption DEF TypeOK
  <2>4. CASE spent' = spent
    <3>1. ToAsk' \subseteq ToAsk
      BY <2>1, <2>3, ResolversAssumption DEF ToAsk, Flaky, Asked
    <3>2. Cardinality(ToAsk') <= Cardinality(ToAsk) /\ Cardinality(ToAsk') \in Nat
      BY <1>4, <3>1, FS_Subset, FS_CardinalityType
    <3> QED BY <1>0, <1>2, <1>3, <1>4, <2>1, <2>2, <2>4, <3>2 DEF TimeInv, Working
  <2>5. CASE QueryTimesOut
    <3>1. spent' = spent + 1 /\ asked + 1 \in Flaky
      BY <2>5 DEF QueryTimesOut, Ask, Flaky
    <3>2. ToAsk' = ToAsk \ {asked + 1} /\ asked + 1 \in ToAsk
      BY <2>1, <2>3, <3>1, ResolversAssumption DEF ToAsk, Flaky, Asked
    <3>3. Cardinality(ToAsk') = Cardinality(ToAsk) - 1
      BY <1>4, <3>2, FS_RemoveElement
    <3> QED BY <1>0, <1>2, <1>3, <1>4, <2>1, <2>2, <3>1, <3>3 DEF TimeInv, Working
  <2> QED BY <1>11, <2>4, <2>5 DEF GetAnswer, QueryFails
<1>12. CASE AnswerLost
  <2>1. phase = "publish" /\ UNCHANGED <<phase, batch, at, spent>>
    BY <1>12 DEF AnswerLost, inputs
  <2> QED BY <1>1, <2>1 DEF TimeInv, Working
<1>13. ~TimeRunsOut
  <2> SUFFICES ASSUME TimeRunsOut PROVE FALSE
    OBVIOUS
  <2>1. phase = "query" /\ asked + 1 \in Flaky /\ spent = Budget
    BY DEF TimeRunsOut, Flaky, TimeIsUp
  <2>2. asked + 1 \in ToAsk
    BY <2>1, ResolversAssumption DEF ToAsk, TypeOK
  <2>3. Cardinality(ToAsk) # 0
    BY <1>4, <2>2, FS_EmptySet
  <2> QED BY <1>0, <1>2, <1>3, <1>4, <2>1, <2>3 DEF TimeInv
<1> QED
  BY <1>5, <1>6, <1>7, <1>8, <1>9, <1>10, <1>11, <1>12, <1>13
  DEF Next, Search, Handle

\* docs/override-async-alert-proxy.md:87-89 holds where the time limit has room for the
\* time-outs of a batch, one of every unreliable resolver for every name at every depth:
\* then no delivery fails, whatever the events and the answers are.
THEOREM HandledInTime == ASSUME EnoughTime PROVE Spec => []BatchIsHandled
<1>1. Init => TimeInv
  BY DEF Init, TimeInv
<1>2. TypeOK /\ LevelInv /\ TimeInv /\ [Next]_vars => TimeInv'
  BY TimeInvStep
<1>3. TimeInv => BatchIsHandled
  BY DEF TimeInv, Working, BatchIsHandled
<1> QED
  BY <1>1, <1>2, <1>3, TypeCorrect, LevelInvHolds, PTL DEF Spec
=============================================================================
