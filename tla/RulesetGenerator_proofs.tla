----------------------- MODULE RulesetGenerator_proofs -----------------------
(***************************************************************************)
(* Proofs about the ruleset generator, for any number of FQDNs, any number *)
(* of concurrent invocations, any capacities and any sets of answers.      *)
(***************************************************************************)
EXTENDS RulesetGenerator, FiniteSetTheorems, WellFoundedInduction, TLAPS

(***************************************************************************)
(* Facts about the data.                                                   *)
(***************************************************************************)

\* Addresses are positive numbers.
LEMMA AddressesAreNumbers == Addresses \subseteq Nat \ {0}
BY AnswersAssumption DEF Addresses

\* A set of numbers that is not empty has a smallest one.
LEMMA Smallest ==
    ASSUME NEW S \in SUBSET Nat, S # {}
    PROVE  \E m \in S : \A n \in S : m <= n
<1> DEFINE R == {ss \in Nat \X Nat : ss[1] < ss[2]}
<1>1. IsWellFoundedOn(R, Nat)
  BY NatLessThanWellFounded, Zenon DEF OpToRel
<1>2. PICK m \in S : \A n \in S : ~(<<n, m>> \in R)
  BY <1>1, WFMin, Zenon
<1>3. \A n \in S : ~(n < m)
  BY <1>2
<1> QED BY <1>3

\* Truncation to MaxAddresses keeps only resolved addresses, and at least one.
LEMMA TruncatedKeeps ==
    ASSUME NEW answer \in Resolutions
    PROVE  Truncated(answer) \in SUBSET Addresses /\ Truncated(answer) # {}
<1>1. answer \in SUBSET Addresses /\ answer # {}
  <2>1. PICK got \in [Sources -> Answers] :
          got["platform"] # {} /\ answer = UNION {got[s] : s \in Sources}
    BY DEF Resolutions
  <2>2. \A s \in Sources : got[s] \in SUBSET Addresses
    BY <2>1 DEF Addresses
  <2>3. got["platform"] \subseteq answer
    BY <2>1 DEF Sources
  <2> QED BY <2>1, <2>2, <2>3
<1>2. PICK m \in answer : \A n \in answer : m <= n
  BY <1>1, AddressesAreNumbers, Smallest
<1>3. {b \in answer : b <= m} = {m}
  <2>1. \A b \in answer : b <= m <=> b = m
    BY <1>1, <1>2, AddressesAreNumbers
  <2> QED BY <2>1
<1>4. Cardinality({b \in answer : b <= m}) = 1
  BY <1>3, FS_Singleton
<1>5. m \in Truncated(answer)
  BY <1>4, SizeAssumption DEF Truncated
<1> QED BY <1>1, <1>5 DEF Truncated

\* A function updated with a value of its range keeps its type.
LEMMA UpdateTyped ==
    ASSUME NEW D, NEW R, NEW f \in [D -> R], NEW d, NEW e \in R
    PROVE  [f EXCEPT ![d] = e] \in [D -> R]
OBVIOUS

\* What the earlier invocation left is what it resolved.
LEMMA InitResults ==
    ASSUME Init
    PROVE  \E old \in [Lists -> SUBSET Addresses] :
             /\ \A l \in Lists : old[l] # {} /\ Cardinality(old[l]) <= Capacity[l]
             /\ entries = IF Earlier = {} THEN [l \in Lists |-> {}] ELSE old
             /\ desired = [v \in Invocations |->
                             IF v \in Earlier THEN old ELSE [l \in Lists |-> {}]]
             /\ entries \in [Lists -> SUBSET Addresses]
             /\ desired \in [Invocations -> [Lists -> SUBSET Addresses]]
<1>1. PICK old \in [Lists -> {Truncated(answer) : answer \in Resolutions}] :
        /\ \A l \in Lists : Cardinality(old[l]) <= Capacity[l]
        /\ entries = IF Earlier = {} THEN [l \in Lists |-> {}] ELSE old
        /\ desired = [v \in Invocations |->
                        IF v \in Earlier THEN old ELSE [l \in Lists |-> {}]]
  BY DEF Init
<1>2. \A l \in Lists : old[l] \in SUBSET Addresses /\ old[l] # {}
  BY TruncatedKeeps
<1>3. old \in [Lists -> SUBSET Addresses]
  BY <1>2
<1> QED BY <1>1, <1>2, <1>3

(***************************************************************************)
(* Type correctness.                                                       *)
(***************************************************************************)

\* Every state of the generator is well typed.
THEOREM TypeCorrect == Spec => []TypeOK
<1> USE SizeAssumption DEF Lists
<1>1. Init => TypeOK
  <2> SUFFICES ASSUME Init PROVE TypeOK
    OBVIOUS
  <2>1. /\ entries \in [Lists -> SUBSET Addresses]
        /\ desired \in [Invocations -> [Lists -> SUBSET Addresses]]
    BY InitResults, Zenon
  <2> QED BY <2>1 DEF Init, TypeOK, Phases, Reasons
<1>2. TypeOK /\ [Next]_vars => TypeOK'
  <2> SUFFICES ASSUME TypeOK, [Next]_vars PROVE TypeOK'
    OBVIOUS
  <2> USE DEF TypeOK, Phases, Reasons, listVars, sinceVars, historyVars
  <2>1. ASSUME NEW v \in Invocations, Start(v) PROVE TypeOK'
    BY <2>1 DEF Start
  <2>2. ASSUME NEW v \in Invocations, NEW r \in Reasons, Fail(v, r) PROVE TypeOK'
    BY <2>2 DEF Fail, Leave, Forget
  <2>3. ASSUME NEW v \in Invocations, Resolve(v) PROVE TypeOK'
    <3>1. PICK answer \in Resolutions :
            desired' = [desired EXCEPT ![v][at[v]] = Truncated(answer)]
      BY <2>3 DEF Resolve
    <3>2. Truncated(answer) \in SUBSET Addresses
      BY TruncatedKeeps
    <3>3. desired' \in [Invocations -> [Lists -> SUBSET Addresses]]
      BY <3>1, <3>2
    <3>4. passes' \in [Invocations -> Nat]
      <4> DEFINE rank == Cardinality({w \in Invocations : passes[w] # 0})
      <4>1. rank \in Nat
        BY InvocationsAssumption, FS_Subset, FS_CardinalityType
      <4>2. passes' = passes \/ passes' = [passes EXCEPT ![v] = 1 + rank]
        BY <2>3 DEF Resolve
      <4>3. 1 + rank \in Nat /\ passes \in [Invocations -> Nat]
        BY <4>1
      <4> HIDE DEF rank, TypeOK
      <4> QED BY <4>2, <4>3, UpdateTyped
    <3>5. at' \in [Invocations -> Lists] /\ phase' \in [Invocations -> Phases]
      <4>1. CASE PassComplete(v)
        <5>1. phase' = [phase EXCEPT ![v] = "describe"] /\ at' = [at EXCEPT ![v] = 1]
          BY <2>3, <4>1 DEF Resolve
        <5> QED BY <5>1
      <4>2. CASE ~PassComplete(v)
        <5>1. at[v] + 1 \in Lists
          BY <4>2 DEF PassComplete
        <5>2. at' = [at EXCEPT ![v] = at[v] + 1] /\ UNCHANGED phase
          BY <2>3, <4>2 DEF Resolve
        <5> QED BY <5>1, <5>2
      <4> QED BY <4>1, <4>2
    <3> QED BY <2>3, <3>3, <3>4, <3>5 DEF Resolve
  <2>4. ASSUME NEW v \in Invocations, Describe(v) PROVE TypeOK'
    BY <2>4 DEF Describe
  <2>5. ASSUME NEW v \in Invocations, ReadStep(v) PROVE TypeOK'
    <3>1. Unread(v) \in SUBSET (Addresses \cap Nat)
      BY AddressesAreNumbers DEF Unread
    <3>2. CASE ReadEmptyPage(v)
      BY <3>2 DEF ReadEmptyPage
    <3>3. CASE ReadPage(v)
      <4>1. PICK last \in Unread(v) :
              /\ read' = [read EXCEPT ![v] = @ \cup {a \in Unread(v) : a <= last}]
              /\ IF \E a \in Unread(v) : a > last
                   THEN token' = [token EXCEPT ![v] = last] /\ UNCHANGED phase
                   ELSE phase' = [phase EXCEPT ![v] = "modify"] /\ UNCHANGED token
        BY <3>3 DEF ReadPage
      <4>2. read' \in [Invocations -> SUBSET Addresses]
        BY <3>1, <4>1
      <4>3. token' \in [Invocations -> Nat] /\ phase' \in [Invocations -> Phases]
        <5>1. token[v] \in Nat /\ last \in Nat
          BY <3>1
        <5>2. CASE token' = [token EXCEPT ![v] = last] /\ UNCHANGED phase
          BY <5>1, <5>2
        <5>3. CASE phase' = [phase EXCEPT ![v] = "modify"] /\ UNCHANGED token
          BY <5>3
        <5> QED BY <4>1, <5>2, <5>3
      <4> QED BY <3>3, <4>2, <4>3 DEF ReadPage
    <3> QED BY <2>5, <3>2, <3>3 DEF ReadStep
  <2>6. ASSUME NEW v \in Invocations, NextList(v)
        PROVE  phase' \in [Invocations -> Phases] /\ at' \in [Invocations -> Lists]
    <3>1. CASE at[v] = N
      BY <2>6, <3>1 DEF NextList
    <3>2. CASE at[v] # N
      <4>1. at[v] + 1 \in Lists
        BY <3>2
      <4>2. /\ phase' = [phase EXCEPT ![v] = "describe"]
            /\ at' = [at EXCEPT ![v] = at[v] + 1]
        BY <2>6, <3>2 DEF NextList
      <4> QED BY <4>1, <4>2
    <3> QED BY <3>1, <3>2
  <2>7. ASSUME NEW v \in Invocations, KeepEntries(v) PROVE TypeOK'
    BY <2>6, <2>7 DEF KeepEntries, Leave, Forget
  <2>8. ASSUME NEW v \in Invocations, Accept(v), Watch(at[v])
        PROVE  /\ entries' \in [Lists -> SUBSET Addresses]
               /\ version' \in [Lists -> Nat \ {0}]
               /\ busy' \in [Lists -> BOOLEAN]
               /\ published' \in [Invocations -> SUBSET Lists]
               /\ UNCHANGED <<desired, why, passes>>
               /\ ever' \in [Invocations -> SUBSET Addresses]
               /\ always' \in [Invocations -> SUBSET Addresses]
    <3>1. entries' \in [Lists -> SUBSET Addresses]
      BY <2>8 DEF Accept, Removals, Additions
    <3>2. /\ version' \in [Lists -> Nat \ {0}]
          /\ busy' \in [Lists -> BOOLEAN]
          /\ published' \in [Invocations -> SUBSET Lists]
          /\ UNCHANGED <<desired, why, passes>>
      <4>1. /\ version' = [version EXCEPT ![at[v]] = @ + 1]
            /\ busy' = [busy EXCEPT ![at[v]] = TRUE]
            /\ published' = [published EXCEPT ![v] = @ \cup {at[v]}]
            /\ UNCHANGED <<desired, why, passes>>
        BY <2>8 DEF Accept
      <4>2. at[v] \in Lists
        OBVIOUS
      <4> QED BY <4>1, <4>2
    <3>3. /\ ever' \in [Invocations -> SUBSET Addresses]
          /\ always' \in [Invocations -> SUBSET Addresses]
      BY <2>8, <3>1 DEF Watch
    <3> QED BY <3>1, <3>2, <3>3
  <2>11. ASSUME NEW v \in Invocations, Modify(v) PROVE TypeOK'
    BY <2>6, <2>8, <2>11 DEF Modify, Leave
  <2>12. ASSUME NEW v \in Invocations, AnswerLost(v) PROVE TypeOK'
    BY <2>8, <2>12 DEF AnswerLost
  <2>9. ASSUME NEW l \in Lists, Settle(l) PROVE TypeOK'
    BY <2>9 DEF Settle
  <2>10. CASE UNCHANGED vars
    BY <2>10 DEF vars
  <2> QED
    BY <2>1, <2>2, <2>3, <2>4, <2>5, <2>7, <2>9, <2>10, <2>11, <2>12
    DEF Next, Progress, ResolveStep, DescribeStep, ModifyStep, ResolveFails,
        CapacityExceeded, ModifyConflicts, Dies
<1> QED BY <1>1, <1>2, PTL DEF Spec

(***************************************************************************)
(* What an accepted request changes, whether its answer arrives or not.    *)
(***************************************************************************)

LEMMA AcceptEffects ==
    ASSUME TypeOK, NEW v \in Invocations, Modify(v) \/ AnswerLost(v)
    PROVE  /\ Accept(v)
           /\ phase[v] = "modify" /\ at[v] \in Lists /\ VersionIsCurrent(v)
           /\ UNCHANGED <<desired, why, passes>>
           /\ published'[v] = published[v] \cup {at[v]}
           /\ version'[at[v]] = version[at[v]] + 1
           /\ entries'[at[v]] = (entries[at[v]] \ Removals(v)) \cup Additions(v)
           /\ \A l \in Lists \ {at[v]} : /\ version'[l] = version[l]
                                         /\ busy'[l] = busy[l]
                                         /\ entries'[l] = entries[l]
           /\ \A w \in Invocations \ {v} : /\ published'[w] = published[w]
                                            /\ phase'[w] = phase[w]
                                            /\ at'[w] = at[w]
                                            /\ seen'[w] = seen[w]
                                            /\ read'[w] = read[w]
                                            /\ token'[w] = token[w]
<1>1. Accept(v) /\ at[v] \in Lists
  BY DEF Modify, AnswerLost, TypeOK
<1>2. /\ published'[v] = published[v] \cup {at[v]}
      /\ version'[at[v]] = version[at[v]] + 1
      /\ entries'[at[v]] = (entries[at[v]] \ Removals(v)) \cup Additions(v)
      /\ \A l \in Lists \ {at[v]} : /\ version'[l] = version[l]
                                    /\ busy'[l] = busy[l]
                                    /\ entries'[l] = entries[l]
      /\ \A w \in Invocations \ {v} : published'[w] = published[w]
  BY <1>1 DEF Accept, TypeOK
<1>3. \A w \in Invocations \ {v} : /\ phase'[w] = phase[w]
                                   /\ at'[w] = at[w]
                                   /\ seen'[w] = seen[w]
                                   /\ read'[w] = read[w]
                                   /\ token'[w] = token[w]
  BY DEF Modify, AnswerLost, Leave, NextList, TypeOK
<1> QED BY <1>1, <1>2, <1>3 DEF Accept

(***************************************************************************)
(* What an invocation knows of its list.                                   *)
(***************************************************************************)

\* As long as nobody modified the list since describe_prefix_list, the pages read so
\* far are its entries up to the token, and in the end all of them.
ReadOK(v) ==
    /\ phase[v] \in {"read", "modify"} => seen[v] <= version[at[v]]
    /\ phase[v] = "read" /\ seen[v] = version[at[v]] =>
         read[v] = {a \in entries[at[v]] : a <= token[v]}
    /\ phase[v] = "modify" /\ seen[v] = version[at[v]] => read[v] = entries[at[v]]

ReadInv == \A v \in Invocations : ReadOK(v)

\* What the types say of one invocation.
LEMMA Types ==
    ASSUME TypeOK, NEW v \in Invocations
    PROVE  /\ at[v] \in Lists
           /\ version[at[v]] \in Nat
           /\ seen[v] \in Nat
           /\ token[v] \in Nat
           /\ entries[at[v]] \in SUBSET Nat
           /\ read[v] \in SUBSET Addresses
           /\ 0 \notin entries[at[v]]
BY AddressesAreNumbers DEF TypeOK

\* A step that leaves what v looks at unchanged keeps ReadOK(v).
LEMMA ReadFrame ==
    ASSUME NEW v \in Invocations, ReadOK(v),
           phase'[v] = phase[v], at'[v] = at[v], seen'[v] = seen[v],
           read'[v] = read[v], token'[v] = token[v],
           version'[at[v]] = version[at[v]], entries'[at[v]] = entries[at[v]]
    PROVE  ReadOK(v)'
BY DEF ReadOK

\* An invocation that is neither reading nor about to modify claims nothing.
LEMMA ReadIdle ==
    ASSUME NEW v \in Invocations, phase'[v] \notin {"read", "modify"}
    PROVE  ReadOK(v)'
BY DEF ReadOK

LEMMA ReadInvStep == TypeOK /\ ReadInv /\ [Next]_vars => ReadInv'
<1> SUFFICES ASSUME TypeOK, ReadInv, [Next]_vars, NEW w \in Invocations
             PROVE  ReadOK(w)'
  BY DEF ReadInv
<1>0. ReadOK(w)
  BY DEF ReadInv
<1>1. ASSUME NEW v \in Invocations, Start(v) \/ Resolve(v) PROVE ReadOK(w)'
  <2>1. CASE w = v
    <3>1. phase'[v] \notin {"read", "modify"}
      BY <1>1 DEF Start, Resolve, TypeOK
    <3> QED BY <2>1, <3>1, ReadIdle
  <2>2. CASE w # v
    BY <1>0, <1>1, <2>2, ReadFrame DEF Start, Resolve, TypeOK, listVars
  <2> QED BY <2>1, <2>2
<1>2. ASSUME NEW v \in Invocations, NEW r, Fail(v, r) PROVE ReadOK(w)'
  <2>1. CASE w = v
    <3>1. phase'[v] \notin {"read", "modify"}
      BY <1>2 DEF Fail, TypeOK
    <3> QED BY <2>1, <3>1, ReadIdle
  <2>2. CASE w # v
    BY <1>0, <1>2, <2>2, ReadFrame DEF Fail, Leave, TypeOK, listVars
  <2> QED BY <2>1, <2>2
<1>3. ASSUME NEW v \in Invocations, Describe(v) PROVE ReadOK(w)'
  <2>1. CASE w = v
    <3>1. /\ phase'[v] = "read" /\ at'[v] = at[v] /\ seen'[v] = version[at[v]]
          /\ read'[v] = {} /\ token'[v] = 0
          /\ version' = version /\ entries' = entries
      BY <1>3 DEF Describe, TypeOK, listVars
    <3>2. {a \in entries[at[v]] : a <= 0} = {}
      BY Types
    <3> QED BY <2>1, <3>1, <3>2, Types DEF ReadOK
  <2>2. CASE w # v
    BY <1>0, <1>3, <2>2, ReadFrame DEF Describe, TypeOK, listVars
  <2> QED BY <2>1, <2>2
<1>4. ASSUME NEW v \in Invocations, ReadEmptyPage(v) PROVE ReadOK(w)'
  <2>1. CASE w = v
    <3>1. /\ phase[v] = "read" /\ phase'[v] = "modify" /\ at'[v] = at[v]
          /\ seen'[v] = seen[v] /\ read'[v] = read[v]
          /\ version' = version /\ entries' = entries
      BY <1>4 DEF ReadEmptyPage, TypeOK, listVars
    <3>2. {a \in entries[at[v]] : a <= token[v]} = entries[at[v]]
      BY <1>4, Types DEF ReadEmptyPage, Unread
    <3> QED BY <1>0, <2>1, <3>1, <3>2 DEF ReadOK
  <2>2. CASE w # v
    BY <1>0, <1>4, <2>2, ReadFrame DEF ReadEmptyPage, TypeOK, listVars
  <2> QED BY <2>1, <2>2
<1>5. ASSUME NEW v \in Invocations, ReadPage(v) PROVE ReadOK(w)'
  <2>1. CASE w = v
    <3> DEFINE E == entries[at[v]]
    <3>1. /\ phase[v] = "read" /\ at'[v] = at[v] /\ seen'[v] = seen[v]
          /\ version' = version /\ entries' = entries
      BY <1>5 DEF ReadPage, TypeOK, listVars
    <3>2. PICK last \in Unread(v) :
            /\ read'[v] = read[v] \cup {a \in Unread(v) : a <= last}
            /\ IF \E a \in Unread(v) : a > last
                 THEN token'[v] = last /\ phase'[v] = "read"
                 ELSE phase'[v] = "modify" /\ token'[v] = token[v]
      BY <1>5, <3>1 DEF ReadPage, TypeOK
    <3>3. last \in Nat /\ token[v] < last
      BY Types DEF Unread
    <3>4. {a \in E : a <= token[v]} \cup {a \in Unread(v) : a <= last}
            = {a \in E : a <= last}
      <4>1. \A a \in E : a <= last <=> a <= token[v] \/ (a > token[v] /\ a <= last)
        BY <3>3, Types
      <4> QED BY <4>1 DEF Unread
    <3>5. (\A a \in Unread(v) : ~(a > last)) => {a \in E : a <= last} = E
      <4> SUFFICES ASSUME \A a \in Unread(v) : ~(a > last)
                   PROVE  \A a \in E : a <= last
        OBVIOUS
      <4> QED BY <3>3, Types DEF Unread
    <3>6. seen[v] <= version[at[v]]
      BY <1>0, <2>1, <3>1 DEF ReadOK
    <3>7. seen[v] = version[at[v]] => read[v] = {a \in E : a <= token[v]}
      BY <1>0, <2>1, <3>1 DEF ReadOK
    <3>8. CASE \E a \in Unread(v) : a > last
      BY <2>1, <3>1, <3>2, <3>4, <3>6, <3>7, <3>8 DEF ReadOK
    <3>9. CASE ~\E a \in Unread(v) : a > last
      BY <2>1, <3>1, <3>2, <3>4, <3>5, <3>6, <3>7, <3>9 DEF ReadOK
    <3> QED BY <3>8, <3>9
  <2>2. CASE w # v
    BY <1>0, <1>5, <2>2, ReadFrame DEF ReadPage, TypeOK, listVars
  <2> QED BY <2>1, <2>2
<1>6. ASSUME NEW v \in Invocations, KeepEntries(v) PROVE ReadOK(w)'
  <2>1. CASE w = v
    <3>1. phase'[v] \notin {"read", "modify"}
      BY <1>6 DEF KeepEntries, NextList, TypeOK
    <3> QED BY <2>1, <3>1, ReadIdle
  <2>2. CASE w # v
    BY <1>0, <1>6, <2>2, ReadFrame DEF KeepEntries, Leave, NextList, TypeOK, listVars
  <2> QED BY <2>1, <2>2
<1>7. ASSUME NEW v \in Invocations, Modify(v) \/ AnswerLost(v) PROVE ReadOK(w)'
  <2>1. CASE w = v /\ Modify(v)
    <3>1. phase'[v] \notin {"read", "modify"}
      BY <2>1, AcceptEffects DEF Modify, NextList, TypeOK
    <3> QED BY <2>1, <3>1, ReadIdle
  <2>2. CASE ~(w = v /\ Modify(v))
    <3>1. /\ phase'[w] = phase[w] /\ at'[w] = at[w] /\ seen'[w] = seen[w]
          /\ read'[w] = read[w] /\ token'[w] = token[w]
      BY <1>7, <2>2, AcceptEffects DEF AnswerLost
    <3>2. CASE at[w] = at[v]
      <4>1. version'[at[w]] = version[at[w]] + 1
        BY <1>7, <3>2, AcceptEffects
      <4> QED BY <1>0, <3>1, <4>1, Types DEF ReadOK
    <3>3. CASE at[w] # at[v]
      <4>1. version'[at[w]] = version[at[w]] /\ entries'[at[w]] = entries[at[w]]
        BY <1>7, <3>3, AcceptEffects, Types
      <4> QED BY <1>0, <3>1, <4>1, ReadFrame
    <3> QED BY <3>2, <3>3
  <2> QED BY <2>1, <2>2
<1>8. ASSUME NEW l \in Lists, Settle(l) PROVE ReadOK(w)'
  BY <1>0, <1>8, ReadFrame DEF Settle
<1>9. CASE UNCHANGED vars
  BY <1>0, <1>9, ReadFrame DEF vars, listVars
<1> QED
  BY <1>1, <1>2, <1>3, <1>4, <1>5, <1>6, <1>7, <1>8, <1>9
  DEF Next, Progress, ResolveStep, DescribeStep, ReadStep, ModifyStep, ResolveFails,
      CapacityExceeded, ModifyConflicts, Dies

LEMMA ReadInvHolds == Spec => []ReadInv
<1>1. Init => ReadInv
  BY DEF Init, ReadInv, ReadOK
<1> QED BY <1>1, ReadInvStep, TypeCorrect, PTL DEF Spec

\* Whatever the interleaving and the paging, a request EC2 accepts is exact.
THEOREM AcceptedRequestsAreExact == Spec => []AcceptedIsExact
<1>1. TypeOK /\ ReadInv => AcceptedIsExact
  <2> SUFFICES ASSUME TypeOK, ReadInv, NEW v \in Invocations, phase[v] = "modify",
                      VersionIsCurrent(v)
               PROVE  /\ Removals(v) \subseteq entries[at[v]]
                      /\ Additions(v) \cap entries[at[v]] = {}
                      /\ (entries[at[v]] \ Removals(v)) \cup Additions(v)
                           = desired[v][at[v]]
    BY DEF AcceptedIsExact
  <2>1. read[v] = entries[at[v]]
    BY DEF ReadInv, ReadOK, VersionIsCurrent
  <2> QED BY <2>1 DEF Removals, Additions
<1> QED BY <1>1, TypeCorrect, ReadInvHolds, PTL

(***************************************************************************)
(* What an invocation has resolved and published.                          *)
(***************************************************************************)

\* Nothing is published before every FQDN is resolved; then the lists are published
\* in order, and a list that is read is large enough.
PassOK(v) ==
    /\ phase[v] = "idle" => at[v] = 1
    /\ phase[v] \in {"idle", "resolve"} => published[v] = {}
    /\ phase[v] = "resolve" => \A k \in Lists : k < at[v] => desired[v][k] # {}
    /\ phase[v] \in {"describe", "read", "modify"} =>
         /\ \A k \in Lists : desired[v][k] # {}
         /\ \A k \in published[v] : k < at[v] \/ (phase[v] = "modify" /\ k = at[v])
    /\ published[v] # {} => \A k \in Lists : desired[v][k] # {}
    /\ phase[v] \in {"read", "modify"} =>
         Cardinality(desired[v][at[v]]) <= Capacity[at[v]]

PassInv == \A v \in Invocations : PassOK(v)

LEMMA PassFrame ==
    ASSUME NEW v \in Invocations, PassOK(v),
           phase'[v] = phase[v], at'[v] = at[v], desired'[v] = desired[v],
           published'[v] = published[v]
    PROVE  PassOK(v)'
BY DEF PassOK

\* Moving on to the next list, after this one was published or left as it is.
LEMMA PassNextList ==
    ASSUME TypeOK, NEW v \in Invocations, PassOK(v), phase[v] = "modify", NextList(v),
           desired' = desired, published'[v] \subseteq published[v] \cup {at[v]}
    PROVE  PassOK(v)'
<1>1. \A k \in Lists : desired[v][k] # {}
  BY DEF PassOK
<1>2. CASE at[v] = N
  BY <1>1, <1>2 DEF NextList, PassOK, TypeOK
<1>3. CASE at[v] # N
  <2>1. phase'[v] = "describe" /\ at'[v] = at[v] + 1
    BY <1>3 DEF NextList, TypeOK
  <2>2. \A k \in published'[v] : k < at[v] + 1
    <3>1. /\ at[v] \in Nat
          /\ published[v] \subseteq Nat
          /\ \A k \in published[v] : k <= at[v]
      <4>1. at[v] \in Nat /\ published[v] \subseteq Nat
        BY DEF TypeOK, Lists
      <4>2. \A k \in published[v] : k < at[v] \/ k = at[v]
        BY DEF PassOK
      <4> QED BY <4>1, <4>2
    <3>2. \A k \in published'[v] : k \in published[v] \/ k = at[v]
      OBVIOUS
    <3> QED BY <3>1, <3>2
  <2> QED BY <1>1, <2>1, <2>2 DEF PassOK
<1> QED BY <1>2, <1>3

LEMMA PassInvStep == TypeOK /\ PassInv /\ [Next]_vars => PassInv'
<1> SUFFICES ASSUME TypeOK, PassInv, [Next]_vars, NEW w \in Invocations
             PROVE  PassOK(w)'
  BY DEF PassInv
<1>0. PassOK(w)
  BY DEF PassInv
<1>1. ASSUME NEW v \in Invocations, Start(v) PROVE PassOK(w)'
  <2>1. CASE w = v
    <3>1. phase[v] = "idle" /\ phase'[v] = "resolve" /\ UNCHANGED <<at, published>>
      BY <1>1 DEF Start, TypeOK, historyVars
    <3> QED BY <1>0, <2>1, <3>1, SizeAssumption DEF PassOK, Lists
  <2>2. CASE w # v
    BY <1>0, <1>1, <2>2, PassFrame DEF Start, TypeOK, historyVars
  <2> QED BY <2>1, <2>2
<1>2. ASSUME NEW v \in Invocations, NEW r, Fail(v, r) PROVE PassOK(w)'
  <2>1. CASE w = v
    <3>1. phase'[v] = "failed" /\ UNCHANGED <<at, desired, published>>
      BY <1>2 DEF Fail, TypeOK
    <3> QED BY <1>0, <2>1, <3>1 DEF PassOK
  <2>2. CASE w # v
    BY <1>0, <1>2, <2>2, PassFrame DEF Fail, TypeOK
  <2> QED BY <2>1, <2>2
<1>3. ASSUME NEW v \in Invocations, Resolve(v) PROVE PassOK(w)'
  <2>1. CASE w = v
    <3>1. PICK answer \in Resolutions :
            desired' = [desired EXCEPT ![v][at[v]] = Truncated(answer)]
      BY <1>3 DEF Resolve
    <3>2. Truncated(answer) # {} /\ at[v] \in Lists
      BY TruncatedKeeps, Types
    <3>3. /\ desired'[v][at[v]] # {}
          /\ \A k \in Lists : k # at[v] => desired'[v][k] = desired[v][k]
      BY <3>1, <3>2 DEF TypeOK
    <3>4. published'[v] = {} /\ \A k \in Lists : k < at[v] => desired[v][k] # {}
      BY <1>0, <1>3, <2>1 DEF Resolve, PassOK
    <3>5. CASE at[v] = N
      <4>1. phase'[v] = "describe" /\ at'[v] = 1
        BY <1>3, <3>5 DEF Resolve, PassComplete, TypeOK
      <4>2. \A k \in Lists : desired'[v][k] # {}
        BY <3>3, <3>4, <3>5, SizeAssumption DEF Lists
      <4> QED BY <2>1, <3>4, <4>1, <4>2 DEF PassOK
    <3>6. CASE at[v] # N
      <4>1. phase'[v] = "resolve" /\ at'[v] = at[v] + 1
        BY <1>3, <3>6 DEF Resolve, PassComplete, TypeOK
      <4>2. \A k \in Lists : k < at[v] + 1 => desired'[v][k] # {}
        BY <3>2, <3>3, <3>4, SizeAssumption DEF Lists
      <4> QED BY <2>1, <3>4, <4>1, <4>2 DEF PassOK
    <3> QED BY <3>5, <3>6
  <2>2. CASE w # v
    <3>1. desired'[w] = desired[w]
      BY <1>3, <2>2 DEF Resolve, TypeOK
    <3>2. phase'[w] = phase[w] /\ at'[w] = at[w] /\ published' = published
      BY <1>3, <2>2 DEF Resolve, TypeOK
    <3> QED BY <1>0, <3>1, <3>2, PassFrame
  <2> QED BY <2>1, <2>2
<1>4. ASSUME NEW v \in Invocations, Describe(v) PROVE PassOK(w)'
  <2>1. CASE w = v
    <3>1. /\ phase[v] = "describe" /\ phase'[v] = "read"
          /\ UNCHANGED <<at, desired, published>>
          /\ Cardinality(desired[v][at[v]]) <= Capacity[at[v]]
      BY <1>4 DEF Describe, FitsCapacity, TypeOK, historyVars
    <3> QED BY <1>0, <2>1, <3>1 DEF PassOK
  <2>2. CASE w # v
    BY <1>0, <1>4, <2>2, PassFrame DEF Describe, TypeOK, historyVars
  <2> QED BY <2>1, <2>2
<1>5. ASSUME NEW v \in Invocations, ReadStep(v) PROVE PassOK(w)'
  <2>1. CASE w = v
    <3>1. /\ phase[v] = "read" /\ phase'[v] \in {"read", "modify"}
          /\ UNCHANGED <<at, desired, published>>
      BY <1>5 DEF ReadStep, ReadEmptyPage, ReadPage, TypeOK, historyVars
    <3> QED BY <1>0, <2>1, <3>1 DEF PassOK
  <2>2. CASE w # v
    BY <1>0, <1>5, <2>2, PassFrame
    DEF ReadStep, ReadEmptyPage, ReadPage, TypeOK, historyVars
  <2> QED BY <2>1, <2>2
<1>6. ASSUME NEW v \in Invocations, KeepEntries(v) PROVE PassOK(w)'
  <2>1. CASE w = v
    BY <1>0, <1>6, <2>1, PassNextList DEF KeepEntries, historyVars
  <2>2. CASE w # v
    BY <1>0, <1>6, <2>2, PassFrame DEF KeepEntries, NextList, TypeOK, historyVars
  <2> QED BY <2>1, <2>2
<1>7. ASSUME NEW v \in Invocations, Modify(v) \/ AnswerLost(v) PROVE PassOK(w)'
  <2>0. /\ phase[v] = "modify" /\ desired' = desired
        /\ published' = [published EXCEPT ![v] = @ \cup {at[v]}]
    BY <1>7 DEF Modify, AnswerLost, Accept
  <2>1. CASE w = v
    <3>1. published'[v] \subseteq published[v] \cup {at[v]}
      BY <2>0 DEF TypeOK
    <3>2. CASE Modify(v)
      BY <1>0, <2>0, <2>1, <3>1, <3>2, PassNextList DEF Modify
    <3>3. CASE AnswerLost(v)
      BY <1>0, <2>0, <2>1, <3>1, <3>3 DEF AnswerLost, PassOK
    <3> QED BY <1>7, <3>2, <3>3
  <2>2. CASE w # v
    <3>1. phase'[w] = phase[w] /\ at'[w] = at[w] /\ published'[w] = published[w]
      BY <1>7, <2>0, <2>2 DEF Modify, AnswerLost, NextList, TypeOK
    <3> QED BY <1>0, <2>0, <3>1, PassFrame
  <2> QED BY <2>1, <2>2
<1>8. ASSUME NEW l \in Lists, Settle(l) PROVE PassOK(w)'
  BY <1>0, <1>8, PassFrame DEF Settle, historyVars
<1>9. CASE UNCHANGED vars
  BY <1>0, <1>9, PassFrame DEF vars, historyVars
<1> QED
  BY <1>1, <1>2, <1>3, <1>4, <1>5, <1>6, <1>7, <1>8, <1>9
  DEF Next, Progress, ResolveStep, DescribeStep, ModifyStep, ResolveFails,
      CapacityExceeded, ModifyConflicts, Dies

LEMMA PassInvHolds == Spec => []PassInv
<1>1. Init => PassInv
  <2> SUFFICES ASSUME Init, NEW v \in Invocations PROVE PassOK(v)
    BY DEF PassInv
  <2>1. v \in Earlier => \A k \in Lists : desired[v][k] # {}
    BY InitResults
  <2> QED BY <2>1 DEF Init, PassOK
<1> QED BY <1>1, PassInvStep, TypeCorrect, PTL DEF Spec

\* Lists are modified in the order of FQDNS, each at most once by an invocation, and
\* only by one that resolved every FQDN.
THEOREM OrderedPublication == Spec => PublishesInOrder
<1>1. TypeOK /\ PassInv /\ [Next]_vars =>
        [\A v \in Invocations : \A l \in published'[v] \ published[v] :
           /\ \A k \in published[v] : k < l
           /\ \A k \in Lists : desired[v][k] # {}]_vars
  <2> SUFFICES ASSUME TypeOK, PassInv, Next, NEW w \in Invocations,
                      NEW l \in published'[w] \ published[w]
               PROVE  /\ \A k \in published[w] : k < l
                      /\ \A k \in Lists : desired[w][k] # {}
    OBVIOUS
  <2>1. ASSUME NEW v \in Invocations, Modify(v) \/ AnswerLost(v)
        PROVE  v = w /\ l = at[v] /\ phase[v] = "modify"
    BY <2>1, AcceptEffects
  <2>2. ASSUME NEW v \in Invocations, ~Modify(v), Start(v) \/ Progress(v) \/ Dies(v)
        PROVE  published' = published
    BY <2>2 DEF Start, Progress, ResolveStep, Resolve, ResolveFails, DescribeStep,
                Describe, CapacityExceeded, ReadStep, ReadEmptyPage, ReadPage,
                ModifyStep, KeepEntries, ModifyConflicts, Dies, Fail, historyVars
  <2>3. ASSUME NEW k \in Lists, Settle(k) PROVE published' = published
    BY <2>3 DEF Settle, historyVars
  <2>4. l = at[w] /\ phase[w] = "modify"
    BY <2>1, <2>2, <2>3 DEF Next
  <2> QED BY <2>4 DEF PassInv, PassOK
<1> QED BY <1>1, TypeCorrect, PassInvHolds, PTL DEF Spec, PublishesInOrder

(***************************************************************************)
(* What the lists hold.                                                    *)
(***************************************************************************)

\* A step keeps HoldsOnePass: an accepted request replaces the entries by its
\* sender's, and a sender never changes what it resolved once it has published.
LEMMA HoldsOnePassStep ==
    ASSUME TypeOK, TypeOK', ReadInv, PassInv, PassInv', HoldsOnePass, [Next]_vars
    PROVE  HoldsOnePass'
<1>1. ASSUME NEW l \in Lists, NEW w \in Invocations, entries'[l] = entries[l],
             entries[l] # {}, l \in published[w], entries[l] = desired[w][l],
             \A k \in Lists : desired[w][k] # {}, Cardinality(entries[l]) <= Capacity[l],
             published[w] \subseteq published'[w], desired'[w] = desired[w]
      PROVE  \E v \in Invocations :
               /\ l \in published'[v]
               /\ entries'[l] = desired'[v][l]
               /\ \A k \in Lists : desired'[v][k] # {}
               /\ Cardinality(entries'[l]) <= Capacity[l]
  BY <1>1
<1>2. ASSUME entries' = entries, published' = published,
             \A w \in Invocations : published[w] # {} => desired'[w] = desired[w]
      PROVE  HoldsOnePass'
  BY <1>1, <1>2 DEF HoldsOnePass
<1>3. ASSUME NEW v \in Invocations, Resolve(v) PROVE HoldsOnePass'
  <2>1. published[v] = {}
    BY <1>3 DEF Resolve, PassInv, PassOK
  <2>2. \A w \in Invocations : published[w] # {} => desired'[w] = desired[w]
    BY <1>3, <2>1 DEF Resolve, TypeOK
  <2> QED BY <1>2, <1>3, <2>2 DEF Resolve, listVars
<1>4. ASSUME NEW v \in Invocations, Modify(v) \/ AnswerLost(v) PROVE HoldsOnePass'
  <2>1. /\ phase[v] = "modify" /\ at[v] \in Lists /\ desired' = desired
        /\ VersionIsCurrent(v)
    BY <1>4, AcceptEffects
  <2>2. read[v] = entries[at[v]]
    BY <2>1 DEF ReadInv, ReadOK, VersionIsCurrent
  <2>3. (entries[at[v]] \ Removals(v)) \cup Additions(v) = desired[v][at[v]]
    BY <2>2 DEF Removals, Additions
  <2>4. /\ entries'[at[v]] = desired[v][at[v]]
        /\ \A l \in Lists \ {at[v]} : entries'[l] = entries[l]
    BY <1>4, <2>3, AcceptEffects
  <2>5. /\ at[v] \in published'[v]
        /\ \A w \in Invocations : published[w] \subseteq published'[w]
    BY <1>4, AcceptEffects
  <2>6. /\ \A k \in Lists : desired[v][k] # {}
        /\ Cardinality(desired[v][at[v]]) <= Capacity[at[v]]
    BY <2>1 DEF PassInv, PassOK
  <2> SUFFICES ASSUME NEW l \in Lists, entries'[l] # {}
               PROVE  \E w \in Invocations :
                        /\ l \in published'[w]
                        /\ entries'[l] = desired'[w][l]
                        /\ \A k \in Lists : desired'[w][k] # {}
                        /\ Cardinality(entries'[l]) <= Capacity[l]
    BY DEF HoldsOnePass
  <2>7. CASE l = at[v]
    BY <2>1, <2>4, <2>5, <2>6, <2>7
  <2>8. CASE l # at[v]
    <3>1. entries'[l] = entries[l]
      BY <2>4, <2>8
    <3>2. PICK w \in Invocations :
            /\ l \in published[w]
            /\ entries[l] = desired[w][l]
            /\ \A k \in Lists : desired[w][k] # {}
            /\ Cardinality(entries[l]) <= Capacity[l]
      BY <3>1 DEF HoldsOnePass
    <3>3. published[w] \subseteq published'[w] /\ desired'[w] = desired[w]
      BY <2>1, <2>5
    <3> QED BY <1>1, <3>1, <3>2, <3>3
  <2> QED BY <2>7, <2>8
<1>5. ASSUME NEW v \in Invocations, ~Resolve(v), ~Modify(v),
             Start(v) \/ Progress(v) \/ Dies(v)
      PROVE  HoldsOnePass'
  BY <1>2, <1>5
  DEF Start, Progress, ResolveStep, ResolveFails, DescribeStep, Describe,
      CapacityExceeded, ReadStep, ReadEmptyPage, ReadPage, ModifyStep, KeepEntries,
      ModifyConflicts, Dies, Fail, listVars, historyVars
<1>6. CASE (\E l \in Lists : Settle(l)) \/ UNCHANGED vars
  BY <1>2, <1>6 DEF Settle, vars, listVars, historyVars
<1> QED BY <1>3, <1>4, <1>5, <1>6 DEF Next

\* Under any interleaving of any number of invocations, a list never holds a mixture:
\* always one complete pass's answer for its own FQDN, within its capacity.
THEOREM ListsHoldOnePass == Spec => []HoldsOnePass
<1>1. Init => HoldsOnePass
  <2> SUFFICES ASSUME Init, Earlier # {} PROVE HoldsOnePass
    BY DEF Init, HoldsOnePass
  <2>1. PICK w \in Earlier : TRUE
    OBVIOUS
  <2>2. /\ w \in Invocations
        /\ \A l \in Lists :
             /\ l \in published[w]
             /\ entries[l] = desired[w][l]
             /\ desired[w][l] # {}
             /\ Cardinality(entries[l]) <= Capacity[l]
    <3>1. w \in Invocations /\ published[w] = Lists
      BY <2>1, InvocationsAssumption DEF Init
    <3> QED BY <3>1, <2>1, InitResults
  <2> QED BY <2>2 DEF HoldsOnePass
<1>2. /\ TypeOK /\ TypeOK' /\ ReadInv /\ PassInv /\ PassInv' /\ HoldsOnePass
      /\ [Next]_vars
      => HoldsOnePass'
  BY HoldsOnePassStep
<1> QED BY <1>1, <1>2, TypeCorrect, ReadInvHolds, PassInvHolds, PTL DEF Spec

(***************************************************************************)
(* Who wins a conflict.                                                    *)
(***************************************************************************)

\* An invocation other than the earlier one has modified the list v works on.
Beaten(v) == \E w \in Invocations \ Earlier : at[v] \in published[w]

ConflictOK(v) ==
    /\ phase[v] \in {"read", "modify"} /\ (seen[v] # version[at[v]] \/ busy[at[v]])
         => Beaten(v)
    /\ why[v] = "conflict" => phase[v] = "failed" /\ Beaten(v)

ConflictInv ==
    /\ \A l \in Lists : busy[l] => \E w \in Invocations \ Earlier : l \in published[w]
    /\ \A v \in Invocations : ConflictOK(v)

\* Publications are never forgotten, so neither is who was beaten.
LEMMA BeatenStays ==
    ASSUME NEW v \in Invocations, Beaten(v), at'[v] = at[v],
           \A w \in Invocations : published[w] \subseteq published'[w]
    PROVE  Beaten(v)'
BY DEF Beaten

LEMMA ConflictFrame ==
    ASSUME NEW v \in Invocations, ConflictOK(v),
           phase'[v] = phase[v], at'[v] = at[v], seen'[v] = seen[v], why'[v] = why[v],
           version'[at[v]] = version[at[v]], busy'[at[v]] => busy[at[v]],
           \A w \in Invocations : published[w] \subseteq published'[w]
    PROVE  ConflictOK(v)'
BY BeatenStays DEF ConflictOK

\* The earlier invocation does nothing any more.
EarlierIsOver == \A v \in Earlier : phase[v] = "done"

LEMMA EarlierStaysOver == Spec => []EarlierIsOver
<1>1. Init => EarlierIsOver
  BY InvocationsAssumption DEF Init, EarlierIsOver
<1>2. TypeOK /\ EarlierIsOver /\ [Next]_vars => EarlierIsOver'
  <2> SUFFICES ASSUME TypeOK, EarlierIsOver, [Next]_vars, NEW w \in Earlier
               PROVE  phase'[w] = "done"
    BY DEF EarlierIsOver
  <2>1. w \in Invocations /\ phase[w] = "done"
    BY InvocationsAssumption DEF EarlierIsOver
  <2>2. ASSUME NEW v \in Invocations, Modify(v) \/ AnswerLost(v)
        PROVE  phase'[w] = "done"
    BY <2>1, <2>2, AcceptEffects
  <2>3. ASSUME NEW v \in Invocations, ~Modify(v), Start(v) \/ Progress(v) \/ Dies(v)
        PROVE  phase'[w] = "done"
    BY <2>1, <2>3
    DEF Start, Progress, ResolveStep, Resolve, ResolveFails, DescribeStep, Describe,
        CapacityExceeded, ReadStep, ReadEmptyPage, ReadPage, ModifyStep, KeepEntries,
        ModifyConflicts, NextList, Dies, Fail, TypeOK
  <2>4. CASE (\E l \in Lists : Settle(l)) \/ UNCHANGED vars
    BY <2>1, <2>4 DEF Settle, vars
  <2> QED BY <2>2, <2>3, <2>4 DEF Next
<1> QED BY <1>1, <1>2, TypeCorrect, PTL DEF Spec

LEMMA ConflictInvStep ==
    ASSUME TypeOK, EarlierIsOver, ConflictInv, [Next]_vars
    PROVE  ConflictInv'
<1>1. ASSUME NEW w \in Invocations PROVE ConflictOK(w)
  BY DEF ConflictInv
<1>2. ASSUME NEW v \in Invocations, Start(v) \/ Resolve(v) \/ KeepEntries(v)
      PROVE  ConflictInv'
  <2>1. /\ UNCHANGED <<version, busy, why, published>>
        /\ phase'[v] \notin {"read", "modify"}
        /\ phase[v] # "failed"
        /\ \A w \in Invocations \ {v} :
             phase'[w] = phase[w] /\ at'[w] = at[w] /\ seen'[w] = seen[w]
    BY <1>2
    DEF Start, Resolve, KeepEntries, Leave, NextList, TypeOK, listVars, historyVars
  <2>2. ConflictOK(v)'
    BY <1>1, <2>1 DEF ConflictOK
  <2>3. \A w \in Invocations \ {v} : ConflictOK(w)'
    BY <1>1, <2>1, ConflictFrame
  <2> QED BY <2>1, <2>2, <2>3 DEF ConflictInv
<1>3. ASSUME NEW v \in Invocations, Describe(v) PROVE ConflictInv'
  <2>1. /\ UNCHANGED <<version, busy, at, why, published>>
        /\ phase[v] = "describe" /\ phase'[v] = "read"
        /\ seen'[v] = version[at[v]]
        /\ \A w \in Invocations \ {v} : phase'[w] = phase[w] /\ seen'[w] = seen[w]
    BY <1>3 DEF Describe, TypeOK, listVars, historyVars
  <2>2. at[v] \in Lists
    BY Types
  <2>3. busy[at[v]] => Beaten(v)
    BY <2>2 DEF ConflictInv, Beaten
  <2>4. ConflictOK(v)'
    BY <1>1, <2>1, <2>3 DEF ConflictOK, Beaten
  <2>5. \A w \in Invocations \ {v} : ConflictOK(w)'
    BY <1>1, <2>1, ConflictFrame
  <2> QED BY <2>1, <2>4, <2>5 DEF ConflictInv
<1>4. ASSUME NEW v \in Invocations, ReadStep(v) PROVE ConflictInv'
  <2>1. /\ UNCHANGED <<version, busy, at, seen, why, published>>
        /\ phase[v] = "read" /\ phase'[v] \in {"read", "modify"}
        /\ \A w \in Invocations \ {v} : phase'[w] = phase[w]
    BY <1>4 DEF ReadStep, ReadEmptyPage, ReadPage, TypeOK, listVars, historyVars
  <2>2. ConflictOK(v)'
    BY <1>1, <2>1 DEF ConflictOK, Beaten
  <2>3. \A w \in Invocations \ {v} : ConflictOK(w)'
    BY <1>1, <2>1, ConflictFrame
  <2> QED BY <2>1, <2>2, <2>3 DEF ConflictInv
<1>5. ASSUME NEW v \in Invocations, Modify(v) \/ AnswerLost(v) PROVE ConflictInv'
  <2>1. /\ v \in Invocations \ Earlier
        /\ at[v] \in Lists /\ phase[v] = "modify" /\ why' = why
        /\ phase'[v] # "failed" \/ phase'[v] = phase[v]
    BY <1>5, AcceptEffects DEF EarlierIsOver, Modify, AnswerLost, NextList, TypeOK
  <2>2. /\ at[v] \in published'[v]
        /\ \A w \in Invocations : published[w] \subseteq published'[w]
        /\ \A l \in Lists \ {at[v]} : version'[l] = version[l] /\ busy'[l] = busy[l]
    BY <1>5, AcceptEffects
  <2>3. ConflictOK(v)'
    <3>1. why'[v] # "conflict"
      BY <1>1, <2>1 DEF ConflictOK
    <3>2. CASE Modify(v)
      BY <2>1, <3>1, <3>2 DEF Modify, NextList, TypeOK, ConflictOK
    <3>3. CASE AnswerLost(v)
      <4>1. at'[v] = at[v]
        BY <3>3 DEF AnswerLost
      <4> QED BY <2>1, <2>2, <3>1, <4>1 DEF Beaten, ConflictOK
    <3> QED BY <1>5, <3>2, <3>3
  <2>4. ASSUME NEW w \in Invocations \ {v} PROVE ConflictOK(w)'
    <3>0. /\ phase'[w] = phase[w] /\ at'[w] = at[w] /\ seen'[w] = seen[w]
          /\ at[w] \in Lists
      BY <1>5, AcceptEffects, Types
    <3>1. CASE at[w] = at[v]
      <4>1. Beaten(w)'
        BY <2>1, <2>2, <3>0, <3>1 DEF Beaten
      <4> QED BY <1>1, <2>1, <3>0, <4>1 DEF ConflictOK
    <3>2. CASE at[w] # at[v]
      BY <1>1, <2>1, <2>2, <3>0, <3>2, ConflictFrame
    <3> QED BY <3>1, <3>2
  <2>5. \A l \in Lists : busy'[l] => \E w \in Invocations \ Earlier : l \in published'[w]
    BY <2>1, <2>2 DEF ConflictInv
  <2> QED BY <2>3, <2>4, <2>5 DEF ConflictInv
<1>6. ASSUME NEW v \in Invocations, NEW r, Fail(v, r),
             r = "conflict" => phase[v] = "modify" /\ ~VersionIsCurrent(v)
      PROVE  ConflictInv'
  <2>1. /\ UNCHANGED <<version, busy, at, published>>
        /\ phase'[v] = "failed" /\ why'[v] = r
        /\ \A w \in Invocations \ {v} :
             phase'[w] = phase[w] /\ why'[w] = why[w] /\ seen'[w] = seen[w]
    BY <1>6 DEF Fail, Leave, TypeOK, listVars
  <2>2. r = "conflict" => Beaten(v)
    BY <1>1, <1>6 DEF ConflictOK, VersionIsCurrent
  <2>3. ConflictOK(v)'
    BY <2>1, <2>2 DEF ConflictOK, Beaten
  <2>4. \A w \in Invocations \ {v} : ConflictOK(w)'
    BY <1>1, <2>1, ConflictFrame
  <2> QED BY <2>1, <2>3, <2>4 DEF ConflictInv
<1>7. ASSUME NEW k \in Lists, Settle(k) PROVE ConflictInv'
  <2>1. /\ UNCHANGED <<version, phase, at, seen, why, published>>
        /\ \A l \in Lists : busy'[l] => busy[l]
    BY <1>7 DEF Settle, TypeOK, historyVars
  <2>2. \A w \in Invocations : ConflictOK(w)'
    BY <1>1, <2>1, ConflictFrame, Types
  <2> QED BY <2>1, <2>2 DEF ConflictInv
<1>8. CASE UNCHANGED vars
  <2>1. UNCHANGED <<version, busy, phase, at, seen, why, published>>
    BY <1>8 DEF vars, listVars, historyVars
  <2>2. \A w \in Invocations : ConflictOK(w)'
    BY <1>1, <2>1, ConflictFrame
  <2> QED BY <2>1, <2>2 DEF ConflictInv
<1> QED
  BY <1>2, <1>3, <1>4, <1>5, <1>6, <1>7, <1>8
  DEF Next, Progress, ResolveStep, DescribeStep, ModifyStep, ResolveFails,
      CapacityExceeded, ModifyConflicts, Dies

\* The optimistic lock is not lost to nobody: behind every conflict there is an
\* invocation that modified the same list.
THEOREM ConflictsHaveWinners == Spec => []ConflictHasWinner
<1>1. Init => ConflictInv
  BY DEF Init, ConflictInv, ConflictOK
<1>2. TypeOK /\ EarlierIsOver /\ ConflictInv /\ [Next]_vars => ConflictInv'
  BY ConflictInvStep
<1>3. ConflictInv => ConflictHasWinner
  BY DEF ConflictInv, ConflictOK, Beaten, ConflictHasWinner
<1> QED BY <1>1, <1>2, <1>3, TypeCorrect, EarlierStaysOver, PTL DEF Spec

(***************************************************************************)
(* What the early return may be decided on.                                *)
(***************************************************************************)

\* The pages read so far lie between what the list held all the time, up to the token,
\* and what it held at some time.
SinceOK(v) ==
    /\ phase[v] = "read" =>
         /\ read[v] \subseteq ever[v] /\ entries[at[v]] \subseteq ever[v]
         /\ always[v] \subseteq entries[at[v]]
         /\ \A a \in always[v] : a <= token[v] => a \in read[v]
    /\ phase[v] = "modify" => read[v] \subseteq ever[v] /\ always[v] \subseteq read[v]

SinceInv == \A v \in Invocations : SinceOK(v)

LEMMA SinceFrame ==
    ASSUME NEW v \in Invocations, SinceOK(v),
           phase'[v] = phase[v], at'[v] = at[v], read'[v] = read[v],
           token'[v] = token[v], entries'[at[v]] = entries[at[v]],
           ever'[v] = ever[v], always'[v] = always[v]
    PROVE  SinceOK(v)'
BY DEF SinceOK

LEMMA SinceIdle ==
    ASSUME NEW v \in Invocations, phase'[v] \notin {"read", "modify"}
    PROVE  SinceOK(v)'
BY DEF SinceOK

LEMMA SinceInvStep == TypeOK /\ SinceInv /\ [Next]_vars => SinceInv'
<1> SUFFICES ASSUME TypeOK, SinceInv, [Next]_vars, NEW w \in Invocations
             PROVE  SinceOK(w)'
  BY DEF SinceInv
<1>0. SinceOK(w)
  BY DEF SinceInv
<1>1. ASSUME NEW v \in Invocations,
             Start(v) \/ Resolve(v) \/ KeepEntries(v) \/ (\E r \in Reasons : Fail(v, r))
      PROVE  SinceOK(w)'
  <2>1. CASE w = v
    <3>1. phase'[v] \notin {"read", "modify"}
      BY <1>1 DEF Start, Resolve, KeepEntries, NextList, Fail, TypeOK
    <3> QED BY <2>1, <3>1, SinceIdle
  <2>2. CASE w # v
    BY <1>0, <1>1, <2>2, SinceFrame
    DEF Start, Resolve, KeepEntries, NextList, Leave, Forget, Fail, TypeOK, listVars,
        sinceVars
  <2> QED BY <2>1, <2>2
<1>2. ASSUME NEW v \in Invocations, Describe(v) PROVE SinceOK(w)'
  <2>1. CASE w = v
    <3>1. /\ phase'[v] = "read" /\ at'[v] = at[v] /\ entries' = entries
          /\ read'[v] = {} /\ token'[v] = 0
          /\ ever'[v] = entries[at[v]] /\ always'[v] = entries[at[v]]
      BY <1>2 DEF Describe, TypeOK, listVars
    <3>2. \A a \in entries[at[v]] : ~(a <= 0)
      BY Types
    <3> QED BY <2>1, <3>1, <3>2 DEF SinceOK
  <2>2. CASE w # v
    BY <1>0, <1>2, <2>2, SinceFrame DEF Describe, TypeOK, listVars
  <2> QED BY <2>1, <2>2
<1>3. ASSUME NEW v \in Invocations, ReadStep(v) PROVE SinceOK(w)'
  <2>1. CASE w = v
    <3>1. /\ phase[v] = "read" /\ at'[v] = at[v] /\ entries' = entries
          /\ ever' = ever /\ always' = always
      BY <1>3 DEF ReadStep, ReadEmptyPage, ReadPage, TypeOK, listVars, sinceVars
    <3>2. /\ read[v] \subseteq ever[v] /\ entries[at[v]] \subseteq ever[v]
          /\ always[v] \subseteq entries[at[v]]
          /\ \A a \in always[v] : a <= token[v] => a \in read[v]
      BY <1>0, <2>1, <3>1 DEF SinceOK
    <3>3. CASE ReadEmptyPage(v)
      <4>1. phase'[v] = "modify" /\ read' = read
        BY <3>3 DEF ReadEmptyPage, TypeOK
      <4>2. \A a \in entries[at[v]] : a <= token[v]
        BY <3>3, Types DEF ReadEmptyPage, Unread
      <4> QED BY <2>1, <3>1, <3>2, <4>1, <4>2 DEF SinceOK
    <3>4. CASE ReadPage(v)
      <4>1. PICK last \in Unread(v) :
              /\ read'[v] = read[v] \cup {a \in Unread(v) : a <= last}
              /\ IF \E a \in Unread(v) : a > last
                   THEN token'[v] = last /\ phase'[v] = "read"
                   ELSE phase'[v] = "modify"
        BY <3>1, <3>4 DEF ReadPage, TypeOK
      <4>2. Unread(v) \subseteq entries[at[v]]
        BY DEF Unread
      <4>3. \A a \in always[v] : a <= last => a \in read'[v]
        BY <3>2, <4>1, Types DEF Unread
      <4>4. (\A a \in Unread(v) : ~(a > last)) => \A a \in always[v] : a <= last
        BY <3>2, <4>1, Types DEF Unread
      <4>5. read'[v] \subseteq ever[v]
        BY <3>2, <4>1, <4>2
      <4>6. CASE \E a \in Unread(v) : a > last
        BY <2>1, <3>1, <3>2, <4>1, <4>3, <4>5, <4>6 DEF SinceOK
      <4>7. CASE ~\E a \in Unread(v) : a > last
        BY <2>1, <3>1, <4>1, <4>3, <4>4, <4>5, <4>7 DEF SinceOK
      <4> QED BY <4>6, <4>7
    <3> QED BY <1>3, <3>3, <3>4 DEF ReadStep
  <2>2. CASE w # v
    BY <1>0, <1>3, <2>2, SinceFrame
    DEF ReadStep, ReadEmptyPage, ReadPage, TypeOK, listVars, sinceVars
  <2> QED BY <2>1, <2>2
<1>4. ASSUME NEW v \in Invocations, Modify(v) \/ AnswerLost(v) PROVE SinceOK(w)'
  <2>1. CASE w = v /\ Modify(v)
    <3>1. phase'[v] \notin {"read", "modify"}
      BY <2>1, AcceptEffects DEF Modify, NextList, TypeOK
    <3> QED BY <2>1, <3>1, SinceIdle
  <2>2. CASE ~(w = v /\ Modify(v)) /\ phase[w] \in {"read", "modify"}
    <3>1. /\ phase'[w] = phase[w] /\ at'[w] = at[w]
          /\ read'[w] = read[w] /\ token'[w] = token[w]
      BY <1>4, <2>2, AcceptEffects DEF AnswerLost
    <3>2. Watch(at[v])
      BY <1>4 DEF Modify, AnswerLost
    <3>3. CASE at[w] = at[v]
      <4>1. /\ ever'[w] = ever[w] \cup entries'[at[w]]
            /\ always'[w] = always[w] \cap entries'[at[w]]
        BY <2>2, <3>1, <3>2, <3>3 DEF Watch
      <4> QED BY <1>0, <3>1, <4>1 DEF SinceOK
    <3>4. CASE at[w] # at[v]
      <4>1. ever'[w] = ever[w] /\ always'[w] = always[w]
        BY <2>2, <3>1, <3>2, <3>4 DEF Watch
      <4>2. entries'[at[w]] = entries[at[w]]
        BY <1>4, <3>4, AcceptEffects, Types
      <4> QED BY <1>0, <3>1, <4>1, <4>2, SinceFrame
    <3> QED BY <3>3, <3>4
  <2>3. CASE w # v /\ phase[w] \notin {"read", "modify"}
    BY <1>4, <2>3, AcceptEffects, SinceIdle
  <2>4. phase[v] = "modify"
    BY <1>4, AcceptEffects
  <2> QED BY <1>4, <2>1, <2>2, <2>3, <2>4
<1>5. CASE (\E l \in Lists : Settle(l)) \/ UNCHANGED vars
  BY <1>0, <1>5, SinceFrame DEF Settle, vars, listVars, sinceVars
<1> QED
  BY <1>1, <1>2, <1>3, <1>4, <1>5
  DEF Next, Progress, ResolveStep, DescribeStep, ModifyStep, ResolveFails,
      CapacityExceeded, ModifyConflicts, Dies, Reasons

\* The early return, which no version guards, never keeps an address that was in the
\* list at no time of the reading, nor overlooks one that was there all the time.
THEOREM KeptEntriesWereThere == Spec => []KeptWasThere
<1>1. Init => SinceInv
  BY DEF Init, SinceInv, SinceOK
<1>2. TypeOK /\ SinceInv => KeptWasThere
  <2> SUFFICES ASSUME TypeOK, SinceInv, NEW v \in Invocations, phase[v] = "modify",
                      NothingToDo(v)
               PROVE  /\ always[v] \subseteq desired[v][at[v]]
                      /\ desired[v][at[v]] \subseteq ever[v]
    BY DEF KeptWasThere
  <2>1. read[v] = desired[v][at[v]]
    BY DEF NothingToDo, Removals, Additions
  <2> QED BY <2>1 DEF SinceInv, SinceOK
<1> QED BY <1>1, <1>2, SinceInvStep, TypeCorrect, PTL DEF Spec

(***************************************************************************)
(* A request is accepted once, though the SDK may send it again.           *)
(***************************************************************************)

\* The request whose answer was lost raised the version beyond the one it names.
LostOK(v) == phase[v] = "modify" /\ at[v] \in published[v] => seen[v] < version[at[v]]

LostInv == \A v \in Invocations : LostOK(v)

\* Versions never go back.
LEMMA LostFrame ==
    ASSUME TypeOK, NEW v \in Invocations, LostOK(v),
           phase'[v] = phase[v], at'[v] = at[v], seen'[v] = seen[v],
           published'[v] = published[v],
           \/ version'[at[v]] = version[at[v]]
           \/ version'[at[v]] = version[at[v]] + 1
    PROVE  LostOK(v)'
BY Types DEF LostOK

LEMMA LostInvStep == TypeOK /\ PassInv /\ LostInv /\ [Next]_vars => LostInv'
<1> SUFFICES ASSUME TypeOK, PassInv, LostInv, [Next]_vars, NEW w \in Invocations
             PROVE  LostOK(w)'
  BY DEF LostInv
<1>0. LostOK(w) /\ PassOK(w)
  BY DEF LostInv, PassInv
<1>1. ASSUME NEW v \in Invocations, \/ Start(v) \/ Resolve(v) \/ Describe(v)
                                   \/ KeepEntries(v)
      PROVE  LostOK(w)'
  <2>1. CASE w = v
    <3>1. phase'[v] # "modify"
      BY <1>1 DEF Start, Resolve, Describe, KeepEntries, NextList, TypeOK
    <3> QED BY <2>1, <3>1 DEF LostOK
  <2>2. CASE w # v
    BY <1>0, <1>1, <2>2, LostFrame
    DEF Start, Resolve, Describe, KeepEntries, Leave, NextList, TypeOK, listVars,
        historyVars
  <2> QED BY <2>1, <2>2
<1>2. ASSUME NEW v \in Invocations, NEW r, Fail(v, r) PROVE LostOK(w)'
  <2>1. CASE w = v
    BY <1>2, <2>1 DEF Fail, TypeOK, LostOK
  <2>2. CASE w # v
    BY <1>0, <1>2, <2>2, LostFrame DEF Fail, Leave, TypeOK, listVars
  <2> QED BY <2>1, <2>2
<1>3. ASSUME NEW v \in Invocations, ReadStep(v) PROVE LostOK(w)'
  <2>1. CASE w = v
    <3>1. phase[v] = "read" /\ UNCHANGED <<at, published>> /\ at[v] \in Nat
      BY <1>3 DEF ReadStep, ReadEmptyPage, ReadPage, historyVars, TypeOK, Lists
    <3> QED BY <1>0, <2>1, <3>1 DEF PassOK, LostOK
  <2>2. CASE w # v
    BY <1>0, <1>3, <2>2, LostFrame
    DEF ReadStep, ReadEmptyPage, ReadPage, TypeOK, listVars, historyVars
  <2> QED BY <2>1, <2>2
<1>4. ASSUME NEW v \in Invocations, Modify(v) \/ AnswerLost(v) PROVE LostOK(w)'
  <2>0. version'[at[w]] = version[at[w]] \/ version'[at[w]] = version[at[w]] + 1
    BY <1>4, AcceptEffects, Types
  <2>1. CASE w = v /\ Modify(v)
    BY <2>1, AcceptEffects DEF Modify, NextList, TypeOK, LostOK
  <2>2. CASE w = v /\ AnswerLost(v)
    <3>1. /\ seen[v] = version[at[v]] /\ version'[at[v]] = version[at[v]] + 1
          /\ UNCHANGED <<phase, at, seen>>
      BY <2>2, AcceptEffects DEF VersionIsCurrent, AnswerLost
    <3> QED BY <2>2, <3>1, Types DEF LostOK
  <2>3. CASE w # v
    <3>1. /\ phase'[w] = phase[w] /\ at'[w] = at[w] /\ seen'[w] = seen[w]
          /\ published'[w] = published[w]
      BY <1>4, <2>3, AcceptEffects
    <3> QED BY <1>0, <2>0, <3>1, LostFrame
  <2> QED BY <1>4, <2>1, <2>2, <2>3
<1>5. CASE (\E l \in Lists : Settle(l)) \/ UNCHANGED vars
  BY <1>0, <1>5, LostFrame DEF Settle, vars, listVars, historyVars
<1> QED
  BY <1>1, <1>2, <1>3, <1>4, <1>5
  DEF Next, Progress, ResolveStep, DescribeStep, ModifyStep, ResolveFails,
      CapacityExceeded, ModifyConflicts, Dies

LEMMA LostInvHolds == Spec => []LostInv
<1>1. Init => LostInv
  BY DEF Init, LostInv, LostOK
<1> QED BY <1>1, LostInvStep, TypeCorrect, PassInvHolds, PTL DEF Spec

\* A request that was accepted and is sent again, because its answer was lost, is refused:
\* modify_managed_prefix_list is idempotent by its CurrentVersion, and an invocation
\* modifies each list at most once.
RepetitionIsRefused ==
    \A v \in Invocations : phase[v] = "modify" /\ at[v] \in published[v] => ~VersionIsCurrent(v)

\* No repetition of a request is ever accepted.
THEOREM RepetitionsAreRefused == Spec => []RepetitionIsRefused
<1>1. TypeOK /\ LostInv => RepetitionIsRefused
  BY Types DEF LostInv, LostOK, RepetitionIsRefused, VersionIsCurrent
<1> QED BY <1>1, TypeCorrect, LostInvHolds, PTL

(***************************************************************************)
(* The refinement of PrefixLists.                                          *)
(***************************************************************************)

\* A pass has a rank from its last resolution on.
RankOK(v) == /\ phase[v] = "resolve" => passes[v] = 0
             /\ phase[v] \in {"describe", "read", "modify"} => passes[v] # 0
             /\ passes[v] # 0 => \A k \in Lists : desired[v][k] # {}
             /\ phase[v] = "idle" => passes[v] = 0

RankInv == \A v \in Invocations : RankOK(v)

\* How many passes are complete.
Ranked == {w \in Invocations : passes[w] # 0}

LEMMA RankedIsFinite == IsFiniteSet(Ranked) /\ Cardinality(Ranked) \in Nat
BY InvocationsAssumption, FS_Subset, FS_CardinalityType DEF Ranked

\* What a step of the resolution loop does.
LEMMA ResolveEffects ==
    ASSUME TypeOK, PassInv, NEW v \in Invocations, Resolve(v)
    PROVE  /\ UNCHANGED <<entries, version, published>>
           /\ \A w \in Invocations \ {v} : /\ desired'[w] = desired[w]
                                           /\ passes'[w] = passes[w]
                                           /\ phase'[w] = phase[w]
                                           /\ at'[w] = at[w]
           /\ \/ /\ ~PassComplete(v)
                 /\ phase'[v] = "resolve" /\ at'[v] = at[v] + 1
                 /\ passes'[v] = passes[v]
              \/ /\ PassComplete(v)
                 /\ phase'[v] = "describe" /\ at'[v] = 1
                 /\ passes'[v] = 1 + Cardinality(Ranked)
                 /\ \A k \in Lists : desired'[v][k] # {}
<1>1. /\ UNCHANGED <<entries, version, published>>
      /\ \A w \in Invocations \ {v} : /\ desired'[w] = desired[w]
                                      /\ passes'[w] = passes[w]
                                      /\ phase'[w] = phase[w]
                                      /\ at'[w] = at[w]
  BY DEF Resolve, listVars, TypeOK
<1>2. CASE ~PassComplete(v)
  BY <1>1, <1>2 DEF Resolve, TypeOK
<1>3. CASE PassComplete(v)
  <2>1. /\ phase'[v] = "describe" /\ at'[v] = 1
        /\ passes'[v] = 1 + Cardinality(Ranked)
    BY <1>3 DEF Resolve, Ranked, TypeOK
  <2>2. PICK answer \in Resolutions :
          desired' = [desired EXCEPT ![v][at[v]] = Truncated(answer)]
    BY DEF Resolve
  <2>3. Truncated(answer) # {} /\ at[v] \in Lists
    BY TruncatedKeeps, Types
  <2>4. /\ desired'[v][at[v]] # {}
        /\ \A k \in Lists : k # at[v] => desired'[v][k] = desired[v][k]
    BY <2>2, <2>3 DEF TypeOK
  <2>5. \A k \in Lists : k < at[v] => desired[v][k] # {}
    BY DEF Resolve, PassInv, PassOK
  <2>6. \A k \in Lists : desired'[v][k] # {}
    BY <1>3, <2>4, <2>5, SizeAssumption DEF PassComplete, Lists
  <2> QED BY <1>1, <1>3, <2>1, <2>6
<1> QED BY <1>1, <1>2, <1>3

LEMMA RankFrame ==
    ASSUME NEW v \in Invocations, RankOK(v), desired'[v] = desired[v], passes'[v] = passes[v],
           \/ phase'[v] = phase[v]
           \/ phase'[v] \in {"done", "failed"}
           \/ phase[v] = "idle" /\ phase'[v] = "resolve"
           \/ /\ phase[v] \in {"describe", "read", "modify"}
              /\ phase'[v] \in {"describe", "read", "modify"}
    PROVE  RankOK(v)'
BY DEF RankOK

LEMMA RankInvStep == TypeOK /\ PassInv /\ RankInv /\ [Next]_vars => RankInv'
<1> SUFFICES ASSUME TypeOK, PassInv, RankInv, [Next]_vars, NEW w \in Invocations
             PROVE  RankOK(w)'
  BY DEF RankInv
<1>0. RankOK(w)
  BY DEF RankInv
<1>1. ASSUME NEW v \in Invocations, Resolve(v) PROVE RankOK(w)'
  <2>1. CASE w = v
    <3>1. phase[v] = "resolve"
      BY <1>1 DEF Resolve
    <3> QED BY <1>0, <1>1, <2>1, <3>1, ResolveEffects, RankedIsFinite DEF RankOK
  <2>2. CASE w # v
    BY <1>0, <1>1, <2>2, ResolveEffects, RankFrame
  <2> QED BY <2>1, <2>2
<1>2. ASSUME NEW v \in Invocations, Start(v) \/ Describe(v) \/ ReadStep(v) \/ KeepEntries(v)
      PROVE  RankOK(w)'
  BY <1>0, <1>2, RankFrame
  DEF Start, Describe, ReadStep, ReadEmptyPage, ReadPage, KeepEntries, NextList, TypeOK,
      historyVars
<1>3. ASSUME NEW v \in Invocations, NEW r, Fail(v, r) PROVE RankOK(w)'
  BY <1>0, <1>3, RankFrame DEF Fail, TypeOK
<1>4. ASSUME NEW v \in Invocations, Modify(v) \/ AnswerLost(v) PROVE RankOK(w)'
  <2>1. phase[v] = "modify" /\ UNCHANGED <<desired, passes>>
    BY <1>4, AcceptEffects
  <2>2. phase'[w] = phase[w] \/ (w = v /\ phase'[w] \in {"done", "describe"})
    BY <1>4 DEF Modify, AnswerLost, NextList, TypeOK
  <2> QED BY <1>0, <2>1, <2>2, RankFrame
<1>5. CASE (\E l \in Lists : Settle(l)) \/ UNCHANGED vars
  BY <1>0, <1>5, RankFrame DEF Settle, vars, listVars, historyVars
<1> QED
  BY <1>1, <1>2, <1>3, <1>4, <1>5
  DEF Next, Progress, ResolveStep, DescribeStep, ModifyStep, ResolveFails,
      CapacityExceeded, ModifyConflicts, Dies

LEMMA RankInvHolds == Spec => []RankInv
<1>1. Init => RankInv
  <2> SUFFICES ASSUME Init, NEW v \in Invocations PROVE RankOK(v)
    BY DEF RankInv
  <2>1. v \in Earlier => \A k \in Lists : desired[v][k] # {}
    BY InitResults
  <2> QED BY <2>1 DEF Init, RankOK
<1> QED BY <1>1, RankInvStep, TypeCorrect, PassInvHolds, PTL DEF Spec

\* An accepted request leaves the list as its sender wants it, and no other changed.
LEMMA AcceptReplaces ==
    ASSUME TypeOK, ReadInv, NEW v \in Invocations, Modify(v) \/ AnswerLost(v)
    PROVE  entries' = [entries EXCEPT ![at[v]] = desired[v][at[v]]]
<1>1. read[v] = entries[at[v]]
  BY AcceptEffects DEF ReadInv, ReadOK, VersionIsCurrent
<1>2. (entries[at[v]] \ Removals(v)) \cup Additions(v) = desired[v][at[v]]
  BY <1>1 DEF Removals, Additions
<1>3. entries' = [entries EXCEPT ![at[v]] = (@ \ Removals(v)) \cup Additions(v)]
  BY DEF Modify, AnswerLost, Accept
<1>4. entries' = [entries EXCEPT ![at[v]] = (entries[at[v]] \ Removals(v)) \cup Additions(v)]
  BY <1>3
<1> QED BY <1>2, <1>4

\* What the store sees of the results.
Results == [v \in Invocations |-> IF passes[v] = 0 THEN [l \in Lists |-> {}] ELSE desired[v]]

\* A step of the generator is a step of PrefixLists: the last resolution of a pass makes
\* its result known, an accepted request publishes one list, and nothing else is visible.
LEMMA StepRefines ==
    ASSUME TypeOK, TypeOK', ReadInv, PassInv, RankInv, RankInv', RepetitionIsRefused,
           [Next]_vars
    PROVE  [Store!Next]_(Store!listsVars)
<1> USE DEF Store!listsVars
<1>1. ASSUME NEW v \in Invocations, Resolve(v)
      PROVE  Store!Next \/ UNCHANGED Store!listsVars
  <2>1. passes[v] = 0
    BY <1>1 DEF Resolve, RankInv, RankOK
  <2>2. \A w \in Invocations \ {v} : Results'[w] = Results[w]
    BY <1>1, ResolveEffects DEF Results
  <2>3. CASE ~PassComplete(v)
    <3>1. passes'[v] = 0
      BY <1>1, <2>1, <2>3, ResolveEffects DEF PassComplete, TypeOK
    <3>2. Results' = Results
      BY <2>1, <2>2, <3>1 DEF Results
    <3> QED BY <1>1, <3>2, ResolveEffects DEF Results
  <2>4. CASE PassComplete(v)
    <3>1. passes'[v] # 0 /\ \A k \in Lists : desired'[v][k] # {}
      BY <1>1, <2>4, ResolveEffects, RankedIsFinite
    <3>2. desired'[v] \in Store!Complete
      <4>1. desired'[v] \in [Lists -> SUBSET Addresses]
        BY DEF TypeOK
      <4> QED BY <3>1, <4>1 DEF Store!Complete
    <3>3. Results[v] = Store!Nothing
      BY <2>1 DEF Results, Store!Nothing
    <3>4. Results' = [Results EXCEPT ![v] = desired'[v]]
      BY <2>2, <3>1 DEF Results
    <3>5. Store!Resolve(v)
      BY <1>1, <3>2, <3>3, <3>4, ResolveEffects DEF Results, Store!Resolve
    <3> QED BY <3>5 DEF Store!Next
  <2> QED BY <2>3, <2>4
<1>2. ASSUME NEW v \in Invocations, Modify(v) \/ AnswerLost(v) PROVE Store!Next
  <2> DEFINE l == at[v]
  <2>1. /\ l \in Lists /\ phase[v] = "modify" /\ VersionIsCurrent(v)
        /\ UNCHANGED <<desired, passes>>
    BY <1>2, AcceptEffects
  <2>2. passes[v] # 0 /\ \A k \in Lists : desired[v][k] # {}
    BY <2>1 DEF RankInv, RankOK
  <2>3. Results[v] = desired[v] /\ Results' = Results
    BY <2>1, <2>2 DEF Results
  <2>4. Results[v] # Store!Nothing
    BY <2>1, <2>2, <2>3 DEF Store!Nothing
  <2>5. \A k \in published[v] : k < l
    <3>1. l \notin published[v]
      BY <2>1 DEF RepetitionIsRefused
    <3> QED BY <2>1, <3>1 DEF PassInv, PassOK
  <2>6. Cardinality(Results[v][l]) <= Capacity[l]
    BY <2>1, <2>3 DEF PassInv, PassOK
  <2>7. entries' = [entries EXCEPT ![l] = Results[v][l]]
    BY <1>2, <2>3, AcceptReplaces
  <2>8. published' = [published EXCEPT ![v] = @ \cup {l}]
    BY <1>2 DEF Modify, AnswerLost, Accept
  <2>9. Store!Publish(v, l)
    <3>1. ~(Results[v] = Store!Nothing)
      BY <2>4
    <3>2. published' = [published EXCEPT ![v] = published[v] \cup {l}]
      BY <2>8
    <3>3. Store!Cardinality(Results[v][l]) <= Capacity[l]
      BY <2>6, Zenon DEF Cardinality, Store!Cardinality
    <3> QED BY <2>3, <2>5, <2>7, <3>1, <3>2, <3>3 DEF Results, Store!Publish
  <2> QED BY <2>1, <2>9 DEF Store!Next
<1>3. ASSUME NEW v \in Invocations, ~Resolve(v), ~Modify(v),
             Start(v) \/ Progress(v) \/ Dies(v)
      PROVE  UNCHANGED Store!listsVars
  BY <1>3
  DEF Start, Progress, ResolveStep, ResolveFails, DescribeStep, Describe,
      CapacityExceeded, ReadStep, ReadEmptyPage, ReadPage, ModifyStep, KeepEntries,
      ModifyConflicts, Dies, Fail, listVars, historyVars
<1>4. CASE (\E l \in Lists : Settle(l)) \/ UNCHANGED vars
  BY <1>4 DEF Settle, vars, listVars, historyVars
<1> QED BY <1>1, <1>2, <1>3, <1>4 DEF Next

\* Any number of invocations that read pages, send differences and repeat requests are
\* publishers that replace whole lists, in order and each list once.
THEOREM Refinement == Spec => ImplementsLists
<1>1. Init /\ TypeOK /\ RankInv => Store!Init
  <2> SUFFICES ASSUME Init, TypeOK, RankInv PROVE Store!Init
    OBVIOUS
  <2>1. Results \in [Invocations -> Store!Complete \cup {Store!Nothing}]
    <3> SUFFICES ASSUME NEW v \in Invocations, passes[v] # 0
                 PROVE  desired[v] \in Store!Complete
      BY DEF Results, Store!Nothing
    <3>1. desired[v] \in [Lists -> SUBSET Addresses]
      BY DEF TypeOK
    <3> QED BY <3>1 DEF RankInv, RankOK, Store!Complete
  <2>2. ASSUME NEW l \in Lists, entries[l] # {}
        PROVE  \E v \in Invocations : l \in published[v] /\ entries[l] = Results[v][l]
    <3>1. PICK v \in Earlier : TRUE
      BY <2>2 DEF Init
    <3>2. v \in Invocations /\ published[v] = Lists /\ passes[v] = 1
      BY <3>1, InvocationsAssumption DEF Init
    <3>3. entries[l] = desired[v][l]
      BY <3>1, <3>2, InitResults
    <3> QED BY <3>2, <3>3 DEF Results
  <2> QED BY <2>1, <2>2 DEF TypeOK, Results, Store!Init
<1>2. /\ TypeOK /\ TypeOK' /\ ReadInv /\ PassInv /\ RankInv /\ RankInv'
      /\ RepetitionIsRefused /\ [Next]_vars
      => [Store!Next]_(Store!listsVars)
  BY StepRefines
<1> QED
  BY <1>1, <1>2, TypeCorrect, ReadInvHolds, PassInvHolds, RankInvHolds,
     RepetitionsAreRefused, PTL
  DEF Spec, ImplementsLists, Store!Spec

(***************************************************************************)
(* The latest result, when publications do not overlap.                    *)
(***************************************************************************)

\* Between the end of its pass and its own end, an invocation is publishing.
Publishing(v) == phase[v] \in {"describe", "read", "modify"}

\* What nothing in the code or its Terraform provides: one publication at a time.
OneAtATime == \A v, w \in Invocations : Publishing(v) /\ Publishing(w) => v = w

\* Who publishes has the highest rank, and the lists behind it hold what it wants.
AloneOK(v) ==
    Publishing(v) =>
        /\ \A w \in Invocations \ {v} : passes[w] < passes[v]
        /\ \A l \in Lists : l < at[v] => entries[l] = desired[v][l]
        /\ phase[v] = "read" => seen[v] = version[at[v]]
        /\ phase[v] = "modify" => seen[v] = version[at[v]] \/ ~NothingToDo(v)

RanksOK == \A v \in Invocations : passes[v] <= Cardinality(Ranked)

\* When nobody is publishing and nobody has failed, the lists hold the latest result.
LastOK ==
    (\A v \in Invocations : ~Publishing(v) /\ phase[v] # "failed") =>
        \A v \in Invocations : phase[v] = "done" /\ Latest(v) => entries = desired[v]

SerialInv == RanksOK /\ (\A v \in Invocations : AloneOK(v)) /\ LastOK

LEMMA RanksStep ==
    ASSUME TypeOK, PassInv, RankInv, RanksOK,
           \/ \E v \in Invocations : Resolve(v)
           \/ UNCHANGED passes
    PROVE  RanksOK'
<1>1. CASE UNCHANGED passes
  BY <1>1 DEF RanksOK, Ranked
<1>2. ASSUME NEW v \in Invocations, Resolve(v), passes' # passes PROVE RanksOK'
  <2>1. /\ passes[v] = 0 /\ passes'[v] = 1 + Cardinality(Ranked)
        /\ \A w \in Invocations \ {v} : passes'[w] = passes[w]
    <3>1. passes[v] = 0
      BY <1>2 DEF Resolve, RankInv, RankOK
    <3> QED BY <1>2, <3>1 DEF Resolve, Ranked, TypeOK
  <2>2. Ranked' = Ranked \cup {v} /\ v \notin Ranked
    BY <2>1, RankedIsFinite DEF Ranked
  <2>3. Cardinality(Ranked') = Cardinality(Ranked) + 1
    BY <2>2, RankedIsFinite, FS_AddElement
  <2>4. \A w \in Invocations : passes[w] \in Nat
    BY DEF TypeOK
  <2> QED BY <2>1, <2>3, <2>4, RankedIsFinite DEF RanksOK
<1> QED BY <1>1, <1>2

\* Nothing changes that v relies on.
LEMMA AloneFrame ==
    ASSUME NEW v \in Invocations, AloneOK(v), UNCHANGED <<entries, version, passes>>,
           phase'[v] = phase[v], at'[v] = at[v], desired'[v] = desired[v],
           seen'[v] = seen[v], read'[v] = read[v]
    PROVE  AloneOK(v)'
BY DEF AloneOK, Publishing, NothingToDo, Removals, Additions

\* The list at[v] is as v wants it, and v goes on or is done.
LEMMA ListFinished ==
    ASSUME TypeOK, TypeOK', NEW v \in Invocations, AloneOK(v), phase[v] = "modify",
           NextList(v), UNCHANGED <<desired, passes>>,
           entries' = [entries EXCEPT ![at[v]] = desired[v][at[v]]]
    PROVE  AloneOK(v)' /\ (phase'[v] = "done" => entries' = desired'[v])
<1>1. /\ at[v] \in Lists
      /\ entries'[at[v]] = desired[v][at[v]]
      /\ \A l \in Lists : l < at[v] => entries'[l] = desired[v][l]
  <2>1. at[v] \in Lists /\ \A l \in Lists : l < at[v] => entries[l] = desired[v][l]
    BY Types DEF AloneOK, Publishing
  <2> QED BY <2>1 DEF TypeOK, Lists
<1>2. CASE at[v] = N
  <2>1. phase'[v] = "done"
    BY <1>2 DEF NextList, TypeOK
  <2>2. \A l \in Lists : entries'[l] = desired'[v][l]
    BY <1>1, <1>2, SizeAssumption DEF Lists
  <2>3. entries' = desired'[v]
    BY <2>2 DEF TypeOK
  <2> QED BY <2>1, <2>3 DEF AloneOK, Publishing
<1>3. CASE at[v] # N
  <2>1. phase'[v] = "describe" /\ at'[v] = at[v] + 1
    BY <1>3 DEF NextList, TypeOK
  <2>2. \A l \in Lists : l < at'[v] => entries'[l] = desired'[v][l]
    BY <1>1, <2>1 DEF Lists
  <2>3. \A w \in Invocations \ {v} : passes'[w] < passes'[v]
    BY DEF AloneOK, Publishing
  <2> QED BY <2>1, <2>2, <2>3 DEF AloneOK
<1> QED BY <1>2, <1>3

LEMMA SerialInvStep ==
    TypeOK /\ TypeOK' /\ PassInv /\ ReadInv /\ RankInv /\ OneAtATime /\ OneAtATime' /\
    SerialInv /\ [Next]_vars => SerialInv'
<1> SUFFICES ASSUME TypeOK, TypeOK', PassInv, ReadInv, RankInv, OneAtATime, OneAtATime',
                    SerialInv, [Next]_vars
             PROVE  SerialInv'
  OBVIOUS
<1>0. RanksOK /\ LastOK /\ \A w \in Invocations : AloneOK(w)
  BY DEF SerialInv
<1>1. ASSUME NEW v \in Invocations, Resolve(v) PROVE SerialInv'
  <2>0. phase[v] = "resolve" /\ UNCHANGED <<entries, version, seen, read>>
    BY <1>1 DEF Resolve, listVars
  <2>1. RanksOK'
    BY <1>0, <1>1, RanksStep
  <2>2. CASE ~PassComplete(v)
    <3>1. phase' = phase /\ UNCHANGED passes
      BY <1>1, <2>2 DEF Resolve
    <3>2. ASSUME NEW w \in Invocations PROVE AloneOK(w)'
      <4>1. CASE w = v
        BY <2>0, <3>1, <4>1 DEF AloneOK, Publishing
      <4>2. CASE w # v
        BY <1>0, <1>1, <2>0, <3>1, <4>2, ResolveEffects, AloneFrame
      <4> QED BY <4>1, <4>2
    <3>3. LastOK'
      BY <1>0, <1>1, <2>0, <3>1, ResolveEffects DEF LastOK, Publishing, Latest
    <3> QED BY <2>1, <3>2, <3>3 DEF SerialInv
  <2>3. CASE PassComplete(v)
    <3>1. /\ phase'[v] = "describe" /\ at'[v] = 1
          /\ passes'[v] = 1 + Cardinality(Ranked)
          /\ \A w \in Invocations \ {v} : passes'[w] = passes[w]
      BY <1>1, <2>3, ResolveEffects
    <3>2. ASSUME NEW w \in Invocations PROVE AloneOK(w)'
      <4>1. CASE w = v
        <5>1. \A u \in Invocations \ {v} : passes'[u] < passes'[v]
          BY <1>0, <3>1, RankedIsFinite DEF RanksOK, TypeOK
        <5>2. \A l \in Lists : ~(l < 1)
          BY DEF Lists
        <5> QED BY <3>1, <4>1, <5>1, <5>2 DEF AloneOK
      <4>2. CASE w # v
        BY <3>1, <4>2 DEF OneAtATime, AloneOK, Publishing
      <4> QED BY <4>1, <4>2
    <3>3. LastOK'
      BY <3>1 DEF LastOK, Publishing
    <3> QED BY <2>1, <3>2, <3>3 DEF SerialInv
  <2> QED BY <2>2, <2>3
<1>2. ASSUME NEW v \in Invocations, NEW r, Fail(v, r) PROVE SerialInv'
  <2>1. /\ phase'[v] = "failed" /\ UNCHANGED <<entries, version, at, desired, passes>>
        /\ \A w \in Invocations \ {v} : /\ phase'[w] = phase[w] /\ seen'[w] = seen[w]
                                        /\ read'[w] = read[w]
    BY <1>2 DEF Fail, Leave, listVars, TypeOK
  <2>2. ASSUME NEW w \in Invocations PROVE AloneOK(w)'
    <3>1. CASE w = v
      BY <2>1, <3>1 DEF AloneOK, Publishing
    <3>2. CASE w # v
      BY <1>0, <2>1, <3>2, AloneFrame
    <3> QED BY <3>1, <3>2
  <2>3. LastOK'
    BY <2>1 DEF LastOK
  <2> QED BY <1>0, <2>1, <2>2, <2>3, RanksStep DEF SerialInv
<1>3. ASSUME NEW v \in Invocations, Describe(v) \/ ReadStep(v) PROVE SerialInv'
  <2>1. /\ UNCHANGED <<entries, version, at, desired, passes>>
        /\ phase'[v] \in {"read", "modify"}
        /\ phase[v] = "describe" => phase'[v] = "read" /\ seen'[v] = version[at[v]]
        /\ phase[v] # "describe" => phase[v] = "read" /\ seen'[v] = seen[v]
        /\ \A w \in Invocations \ {v} : /\ phase'[w] = phase[w] /\ seen'[w] = seen[w]
                                        /\ read'[w] = read[w]
    BY <1>3 DEF Describe, ReadStep, ReadEmptyPage, ReadPage, listVars, historyVars, TypeOK
  <2>2. Publishing(v) /\ phase[v] \in {"describe", "read"}
    BY <1>3, <2>1 DEF Describe, ReadStep, ReadEmptyPage, ReadPage, Publishing
  <2>3. ASSUME NEW w \in Invocations PROVE AloneOK(w)'
    <3>1. CASE w = v
      BY <1>0, <2>1, <2>2, <3>1 DEF AloneOK
    <3>2. CASE w # v
      BY <1>0, <2>1, <3>2, AloneFrame
    <3> QED BY <3>1, <3>2
  <2>4. LastOK'
    BY <2>1 DEF LastOK, Publishing
  <2> QED BY <1>0, <2>1, <2>3, <2>4, RanksStep DEF SerialInv
<1>4. ASSUME NEW v \in Invocations, KeepEntries(v) \/ Modify(v) PROVE SerialInv'
  <2>1. /\ phase[v] = "modify" /\ NextList(v) /\ UNCHANGED <<desired, passes>>
        /\ at[v] \in Lists
    BY <1>4, AcceptEffects, Types DEF KeepEntries, Modify, historyVars
  <2>2. entries' = [entries EXCEPT ![at[v]] = desired[v][at[v]]]
    <3>1. CASE KeepEntries(v)
      <4>1. NothingToDo(v) /\ entries' = entries
        BY <3>1 DEF KeepEntries, listVars
      <4>2. seen[v] = version[at[v]]
        BY <1>0, <2>1, <4>1 DEF AloneOK, Publishing
      <4>3. read[v] = entries[at[v]]
        BY <2>1, <4>2 DEF ReadInv, ReadOK
      <4>4. entries[at[v]] = desired[v][at[v]]
        BY <4>1, <4>3 DEF NothingToDo, Removals, Additions
      <4> QED BY <4>1, <4>4 DEF TypeOK
    <3>2. CASE Modify(v)
      BY <3>2, AcceptReplaces
    <3> QED BY <1>4, <3>1, <3>2
  <2>3. AloneOK(v)' /\ (phase'[v] = "done" => entries' = desired'[v])
    BY <1>0, <2>1, <2>2, ListFinished
  <2>4. \A w \in Invocations \ {v} : ~Publishing(w) /\ phase'[w] = phase[w]
    BY <2>1 DEF OneAtATime, Publishing, NextList, TypeOK
  <2>5. \A w \in Invocations : AloneOK(w)'
    BY <2>3, <2>4 DEF AloneOK, Publishing
  <2>6. LastOK'
    <3> SUFFICES ASSUME ~Publishing(v)', NEW w \in Invocations, phase'[w] = "done",
                        Latest(w)'
                 PROVE  entries' = desired'[w]
      BY DEF LastOK
    <3>1. phase'[v] = "done"
      BY <2>1 DEF NextList, Publishing, TypeOK
    <3>2. w = v
      <4> SUFFICES ASSUME w # v PROVE FALSE
        OBVIOUS
      <4>1. passes[w] < passes[v]
        BY <1>0, <2>1 DEF AloneOK, Publishing
      <4>2. passes[v] <= passes[w]
        BY <2>1 DEF Latest
      <4> QED BY <4>1, <4>2 DEF TypeOK
    <3> QED BY <2>3, <3>1, <3>2
  <2> QED BY <1>0, <2>1, <2>5, <2>6, RanksStep DEF SerialInv
<1>5. ASSUME NEW v \in Invocations, AnswerLost(v) PROVE SerialInv'
  <2>1. /\ phase[v] = "modify" /\ ~NothingToDo(v) /\ at[v] \in Lists
        /\ UNCHANGED <<desired, passes, phase, at, seen, read>>
        /\ \A l \in Lists \ {at[v]} : entries'[l] = entries[l]
    BY <1>5, AcceptEffects DEF AnswerLost, Accept
  <2>2. ~NothingToDo(v)'
    BY <2>1 DEF NothingToDo, Removals, Additions
  <2>3. \A l \in Lists : l < at[v] => entries'[l] = entries[l]
    BY <2>1 DEF Lists
  <2>4. AloneOK(v)'
    BY <1>0, <2>1, <2>2, <2>3 DEF AloneOK, Publishing
  <2>5. \A w \in Invocations : AloneOK(w)'
    BY <2>1, <2>4 DEF OneAtATime, AloneOK, Publishing
  <2>6. LastOK'
    BY <2>1 DEF LastOK, Publishing
  <2> QED BY <1>0, <2>1, <2>5, <2>6, RanksStep DEF SerialInv
<1>6. ASSUME \/ \E v \in Invocations : Start(v)
             \/ \E l \in Lists : Settle(l)
             \/ UNCHANGED vars
      PROVE  SerialInv'
  <2>1. UNCHANGED <<entries, version, at, desired, seen, read, passes>>
    BY <1>6 DEF Start, Settle, vars, listVars, historyVars
  <2>2. \A w \in Invocations : \/ phase'[w] = phase[w]
                               \/ phase[w] = "idle" /\ phase'[w] = "resolve"
    BY <1>6 DEF Start, Settle, vars, TypeOK
  <2>3. \A w \in Invocations : AloneOK(w)'
    BY <1>0, <2>1, <2>2, AloneFrame DEF AloneOK, Publishing
  <2>4. LastOK'
    BY <1>0, <2>1, <2>2 DEF LastOK, Publishing, Latest
  <2> QED BY <1>0, <2>1, <2>3, <2>4, RanksStep DEF SerialInv
<1> QED
  BY <1>1, <1>2, <1>3, <1>4, <1>5, <1>6
  DEF Next, Progress, ResolveStep, DescribeStep, ModifyStep, ResolveFails,
      CapacityExceeded, ModifyConflicts, Dies

\* docs/lambda-ip-fallback-tasks.md:72 holds if no two invocations publish at a time
\* (they may resolve at a time): once all have ended well, every list holds the result of
\* the pass that was completed last, whatever pages were read, answers lost and lists
\* still settling in between.
THEOREM LatestUnlessOverlap == Spec /\ []OneAtATime => []LatestResultStays
<1>1. Init => SerialInv
  <2> SUFFICES ASSUME Init PROVE SerialInv
    OBVIOUS
  <2>1. \A v \in Invocations : ~Publishing(v)
    BY DEF Init, Publishing
  <2>2. LastOK
    <3>1. ASSUME NEW v \in Earlier PROVE entries = desired[v]
      BY <3>1, InitResults, InvocationsAssumption
    <3> QED BY <3>1 DEF LastOK, Init
  <2>3. RanksOK
    <3>1. Ranked = Earlier
      BY InvocationsAssumption DEF Init, Ranked
    <3>2. Earlier # {} => Cardinality(Ranked) # 0
      BY <3>1, RankedIsFinite, FS_EmptySet
    <3> QED BY <3>2, RankedIsFinite DEF Init, RanksOK
  <2> QED BY <2>1, <2>2, <2>3 DEF SerialInv, AloneOK
<1>2. SerialInv => LatestResultStays
  BY DEF SerialInv, LastOK, LatestResultStays, Publishing
<1> QED
  BY <1>1, <1>2, SerialInvStep, TypeCorrect, PassInvHolds, ReadInvHolds, RankInvHolds,
     PTL
  DEF Spec

(***************************************************************************)
(* What a failed invocation has touched, and why every invocation ends.    *)
(***************************************************************************)

\* The true part of docs/lambda-ip-fallback-tasks.md:43-44 and :73: an invocation that
\* failed in its resolution has modified no list, one that failed for the size of a list
\* has not modified this list, and no list behind the one it failed at is modified.
StopsThere(v) ==
    phase[v] = "failed" =>
        /\ why[v] = "resolve" => published[v] = {}
        /\ why[v] = "capacity" => at[v] \notin published[v]
        /\ \A l \in published[v] : l <= at[v]

FailureStopsThere == \A v \in Invocations : StopsThere(v)

LEMMA FailureStep == TypeOK /\ PassInv /\ FailureStopsThere /\ [Next]_vars => FailureStopsThere'
<1> SUFFICES ASSUME TypeOK, PassInv, FailureStopsThere, [Next]_vars, NEW w \in Invocations
             PROVE  StopsThere(w)'
  BY DEF FailureStopsThere
<1>0. at[w] \in Nat /\ published[w] \subseteq Nat /\ PassOK(w) /\ StopsThere(w)
  BY DEF PassInv, TypeOK, Lists, FailureStopsThere
<1>1. ASSUME NEW v \in Invocations, NEW r \in Reasons, Fail(v, r),
             phase[v] \in {"resolve", "describe", "read", "modify"},
             r = "resolve" => phase[v] = "resolve",
             r = "capacity" => phase[v] = "describe"
      PROVE  StopsThere(w)'
  <2>1. UNCHANGED <<at, published>>
    BY <1>1 DEF Fail
  <2>2. CASE w = v
    <3>1. phase'[w] = "failed" /\ why'[w] = r
      BY <1>1, <2>2 DEF Fail, TypeOK
    <3>2. r = "resolve" => published[w] = {}
      BY <1>0, <1>1, <2>2 DEF PassOK
    <3>3. r = "capacity" => at[w] \notin published[w]
      BY <1>0, <1>1, <2>2 DEF PassOK
    <3>4. \A l \in published[w] : l <= at[w]
      BY <1>0, <1>1, <2>2 DEF PassOK
    <3> QED BY <2>1, <3>1, <3>2, <3>3, <3>4 DEF StopsThere
  <2>3. CASE w # v
    <3>1. phase'[w] = phase[w] /\ why'[w] = why[w]
      BY <1>1, <2>3 DEF Fail, TypeOK
    <3> QED BY <1>0, <2>1, <3>1 DEF StopsThere
  <2> QED BY <2>2, <2>3
<1>2. ASSUME NEW v \in Invocations,
             \/ Start(v) \/ Resolve(v) \/ Describe(v) \/ ReadStep(v) \/ KeepEntries(v)
             \/ Modify(v) \/ AnswerLost(v)
      PROVE  StopsThere(w)'
  <2>1. CASE w = v
    <3>1. phase'[v] # "failed"
      BY <1>2, AcceptEffects
      DEF Start, Resolve, Describe, ReadStep, ReadEmptyPage, ReadPage, KeepEntries, Modify,
          AnswerLost, NextList, TypeOK
    <3> QED BY <2>1, <3>1 DEF StopsThere
  <2>2. CASE w # v
    <3>1. why' = why
      BY <1>2, AcceptEffects
      DEF Start, Resolve, Describe, ReadStep, ReadEmptyPage, ReadPage, KeepEntries,
          historyVars
    <3>2. phase'[w] = phase[w] /\ at'[w] = at[w] /\ published'[w] = published[w]
      BY <1>2, <2>2, AcceptEffects
      DEF Start, Resolve, Describe, ReadStep, ReadEmptyPage, ReadPage, KeepEntries,
          NextList, historyVars, TypeOK
    <3> QED BY <1>0, <3>1, <3>2 DEF StopsThere
  <2> QED BY <2>1, <2>2
<1>3. CASE (\E l \in Lists : Settle(l)) \/ UNCHANGED vars
  BY <1>0, <1>3 DEF Settle, vars, historyVars, StopsThere
<1> QED
  BY <1>1, <1>2, <1>3
  DEF Next, Progress, ResolveStep, DescribeStep, ModifyStep, ResolveFails,
      CapacityExceeded, ModifyConflicts, Dies, Reasons

\* A failure leaves untouched what it can: all lists when the resolution fails, otherwise
\* every list behind the one the invocation failed at.
THEOREM FailuresStopThere == Spec => []FailureStopsThere
<1>1. Init => FailureStopsThere
  BY DEF Init, FailureStopsThere, StopsThere
<1> QED BY <1>1, FailureStep, TypeCorrect, PassInvHolds, PTL DEF Spec

\* How far an invocation is: in its life, and at one list.
Stage(v) == IF phase[v] = "idle" THEN 0 ELSE IF phase[v] = "resolve" THEN 1
            ELSE IF Publishing(v) THEN 2 ELSE 3
Call(v) == IF phase[v] = "modify" THEN 2 ELSE IF phase[v] = "read" THEN 1 ELSE 0

\* It goes to a later stage, to a later FQDN, to the next call, to a later page, or
\* publishes a list it had not published.
GetsOn(v) ==
    \/ Stage(v)' > Stage(v)
    \/ Stage(v)' = Stage(v) /\ at'[v] > at[v]
    \/ /\ Stage(v)' = Stage(v) /\ at'[v] = at[v]
       /\ \/ Call(v)' > Call(v)
          \/ Call(v)' = Call(v) /\ token'[v] > token[v]
          \/ /\ Call(v)' = Call(v) /\ token'[v] = token[v]
             /\ published'[v] = published[v] \cup {at[v]} /\ at[v] \notin published[v]

Locals(v) == <<phase[v], at[v], token[v], published[v], desired[v], seen[v], read[v],
               passes[v], why[v]>>

\* No step of an invocation goes back, and no step of another one sets it back: the
\* resolution loop, replace_prefix_list_entries and get_all_prefix_list_entries only go
\* forward, also when pages are empty or the lists change in between.
InvocationsGetOn ==
    [][\A v \in Invocations : UNCHANGED Locals(v) \/ GetsOn(v)]_vars

\* Every step of an invocation brings it nearer to its end, for any number of lists and
\* pages: what EveryInvocationEnds needs besides fairness.
THEOREM InvocationsOnlyGetOn == Spec => InvocationsGetOn
<1>1. ASSUME TypeOK, PassInv, RepetitionIsRefused, [Next]_vars, NEW w \in Invocations
      PROVE  UNCHANGED Locals(w) \/ GetsOn(w)
  <2>0. at[w] \in Nat /\ token[w] \in Nat /\ N \in Nat
    BY <1>1, Types, SizeAssumption DEF Lists
  <2>1. ASSUME NEW v \in Invocations, NEW r, Fail(v, r),
               phase[v] \in {"resolve", "describe", "read", "modify"}
        PROVE  UNCHANGED Locals(w) \/ GetsOn(w)
    <3>1. CASE w = v
      <4>1. phase'[w] = "failed"
        BY <1>1, <2>1, <3>1 DEF Fail, TypeOK
      <4> QED BY <2>1, <3>1, <4>1 DEF GetsOn, Stage, Publishing
    <3>2. CASE w # v
      BY <1>1, <2>1, <3>2 DEF Fail, Leave, Locals, TypeOK
    <3> QED BY <3>1, <3>2
  <2>2. ASSUME NEW v \in Invocations, Start(v) PROVE UNCHANGED Locals(w) \/ GetsOn(w)
    <3>1. CASE w = v
      <4>1. phase[w] = "idle" /\ phase'[w] = "resolve"
        BY <1>1, <2>2, <3>1 DEF Start, TypeOK
      <4> QED BY <4>1 DEF GetsOn, Stage
    <3>2. CASE w # v
      BY <1>1, <2>2, <3>2 DEF Start, Locals, historyVars, TypeOK
    <3> QED BY <3>1, <3>2
  <2>3. ASSUME NEW v \in Invocations, Resolve(v) PROVE UNCHANGED Locals(w) \/ GetsOn(w)
    <3>0. phase[v] = "resolve" /\ UNCHANGED <<token, seen, read, why, published>>
      BY <2>3 DEF Resolve
    <3>1. CASE w = v
      <4>1. \/ phase'[w] = "resolve" /\ at'[w] = at[w] + 1
            \/ phase'[w] = "describe"
        BY <1>1, <2>3, <3>1, ResolveEffects
      <4>2. Stage(w) = 1 /\ (phase'[w] = "resolve" => Stage(w)' = 1)
            /\ (phase'[w] = "describe" => Stage(w)' = 2)
        BY <3>0, <3>1 DEF Stage, Publishing
      <4> QED BY <2>0, <4>1, <4>2 DEF GetsOn
    <3>2. CASE w # v
      BY <1>1, <2>3, <3>0, <3>2, ResolveEffects DEF Locals
    <3> QED BY <3>1, <3>2
  <2>4. ASSUME NEW v \in Invocations, Describe(v) PROVE UNCHANGED Locals(w) \/ GetsOn(w)
    <3>1. CASE w = v
      <4>1. phase[w] = "describe" /\ phase'[w] = "read" /\ at' = at
        BY <1>1, <2>4, <3>1 DEF Describe, TypeOK
      <4> QED BY <4>1 DEF GetsOn, Stage, Publishing, Call
    <3>2. CASE w # v
      BY <1>1, <2>4, <3>2 DEF Describe, Locals, historyVars, TypeOK
    <3> QED BY <3>1, <3>2
  <2>5. ASSUME NEW v \in Invocations, ReadStep(v) PROVE UNCHANGED Locals(w) \/ GetsOn(w)
    <3>1. CASE w = v
      <4>1. /\ phase[w] = "read" /\ at' = at
            /\ phase'[w] = "modify" \/ (phase'[w] = "read" /\ token'[w] \in Unread(w))
        BY <1>1, <2>5, <3>1 DEF ReadStep, ReadEmptyPage, ReadPage, TypeOK
      <4>2. token'[w] \in Unread(w) => token'[w] > token[w]
        BY DEF Unread
      <4> QED BY <4>1, <4>2 DEF GetsOn, Stage, Publishing, Call
    <3>2. CASE w # v
      BY <1>1, <2>5, <3>2
      DEF ReadStep, ReadEmptyPage, ReadPage, Locals, historyVars, TypeOK
    <3> QED BY <3>1, <3>2
  <2>6. ASSUME NEW v \in Invocations, KeepEntries(v) \/ Modify(v)
        PROVE  UNCHANGED Locals(w) \/ GetsOn(w)
    <3>0. /\ phase[v] = "modify" /\ NextList(v) /\ Leave(v)
          /\ UNCHANGED <<desired, passes, why>>
      BY <1>1, <2>6, AcceptEffects DEF KeepEntries, Modify, historyVars
    <3>1. CASE w = v
      <4>1. \/ phase'[w] = "done"
            \/ phase'[w] = "describe" /\ at'[w] = at[w] + 1
        BY <1>1, <3>0, <3>1 DEF NextList, TypeOK
      <4>2. Stage(w) = 2 /\ (phase'[w] = "done" => Stage(w)' = 3)
            /\ (phase'[w] = "describe" => Stage(w)' = 2)
        BY <3>0, <3>1 DEF Stage, Publishing
      <4> QED BY <2>0, <4>1, <4>2 DEF GetsOn
    <3>2. CASE w # v
      <4>1. phase'[w] = phase[w] /\ at'[w] = at[w]
        BY <1>1, <3>0, <3>2 DEF NextList, TypeOK
      <4>2. published'[w] = published[w]
        BY <1>1, <2>6, <3>2, AcceptEffects DEF KeepEntries, historyVars
      <4> QED BY <1>1, <3>0, <3>2, <4>1, <4>2 DEF Leave, Locals, TypeOK
    <3> QED BY <3>1, <3>2
  <2>7. ASSUME NEW v \in Invocations, AnswerLost(v) PROVE UNCHANGED Locals(w) \/ GetsOn(w)
    <3>0. /\ phase[v] = "modify" /\ VersionIsCurrent(v)
          /\ published'[v] = published[v] \cup {at[v]}
          /\ UNCHANGED <<phase, at, seen, read, token, desired, passes, why>>
      BY <1>1, <2>7, AcceptEffects DEF AnswerLost
    <3>1. CASE w = v
      <4>1. at[w] \notin published[w]
        BY <1>1, <3>0, <3>1 DEF RepetitionIsRefused
      <4> QED BY <3>0, <3>1, <4>1 DEF GetsOn, Stage, Publishing, Call
    <3>2. CASE w # v
      BY <1>1, <2>7, <3>0, <3>2, AcceptEffects DEF Locals
    <3> QED BY <3>1, <3>2
  <2>8. CASE (\E l \in Lists : Settle(l)) \/ UNCHANGED vars
    BY <2>8 DEF Settle, vars, historyVars, Locals
  <2> QED
    BY <1>1, <2>1, <2>2, <2>3, <2>4, <2>5, <2>6, <2>7, <2>8
    DEF Next, Progress, ResolveStep, DescribeStep, ModifyStep, ResolveFails,
        CapacityExceeded, ModifyConflicts, Dies
<1>2. TypeOK /\ PassInv /\ RepetitionIsRefused /\ [Next]_vars
      => [\A v \in Invocations : UNCHANGED Locals(v) \/ GetsOn(v)]_vars
  BY <1>1
<1> QED
  BY <1>2, TypeCorrect, PassInvHolds, RepetitionsAreRefused, PTL
  DEF Spec, InvocationsGetOn
=============================================================================
