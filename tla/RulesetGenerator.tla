-------------------------- MODULE RulesetGenerator --------------------------
(***************************************************************************)
(* The ruleset-generator Lambda (lambda/ruleset_generator/handler.py):     *)
(* concurrent invocations (the schedule, manual invokes and the retries of *)
(* asynchronous ones) that first resolve every FQDN and then replace the   *)
(* entries of one managed prefix list per FQDN, under EC2's version check. *)
(*                                                                         *)
(* FQDNs are numbered in the order of the FQDNS variable and FQDN i owns   *)
(* prefix list i.  An address stands for its /32 entry; addresses are      *)
(* numbers, ordered as sorted() orders the strings.  The EC2 side is what  *)
(* the handler and benchmark/lambda_bench/run.py rely on: a modification   *)
(* is accepted at once, with a new version, and the list then refuses      *)
(* further ones until it has settled.  The SDK sends a request whose       *)
(* answer was lost again, as it is.                                        *)
(***************************************************************************)
EXTENDS Integers, FiniteSets

CONSTANTS
    N,              \* number of FQDNs
    Invocations,    \* the invocations that may happen
    Earlier,        \* the one among them, if any, that has ended well before the others
    Answers,        \* the sets of addresses one resolver may answer
    MaxAddresses,   \* MAX_ADDRESSES_PER_FQDN
    Capacity        \* MaxEntries of each list

Lists == 1..N

ASSUME SizeAssumption == N \in Nat \ {0} /\ MaxAddresses \in Nat \ {0}
ASSUME InvocationsAssumption == IsFiniteSet(Invocations) /\ Earlier \subseteq Invocations
ASSUME AnswersAssumption ==
    \A a \in Answers : a \subseteq Nat \ {0} /\ IsFiniteSet(a)
ASSUME CapacityAssumption == Capacity \in [Lists -> Nat]

Addresses == UNION Answers
Sources == {"platform", "cloudflare", "google"}

VARIABLES
    entries,     \* list -> the entries it holds
    version,     \* list -> its version
    busy,        \* list -> is a modification settling?
    phase,       \* invocation -> where it is
    at,          \* invocation -> the FQDN it works on
    desired,     \* invocation -> FQDN -> the entries it wants, {} before that
    seen,        \* invocation -> the version describe_prefix_list returned
    read,        \* invocation -> the entries read so far
    token,       \* invocation -> the last address of the pages read so far
    ever,        \* history: invocation -> what its list held at some time since then
    always,      \* history: invocation -> what its list held all the time since then
    why,         \* history: invocation -> why it failed
    published,   \* history: invocation -> the lists it modified
    passes       \* history: invocation -> rank of its resolution pass, 0 before

listVars    == <<entries, version, busy>>
sinceVars   == <<ever, always>>
historyVars == <<why, published, passes>>
vars == <<listVars, phase, at, desired, seen, read, token, sinceVars, historyVars>>

Phases == {"idle", "resolve", "describe", "read", "modify", "done", "failed"}
Reasons == {"none", "resolve", "capacity", "conflict", "died"}

-----------------------------------------------------------------------------
(* What is resolved, and what the lists hold at the beginning.             *)

\* The answers of the platform's, Cloudflare's and Google's resolver put together.
\* getaddrinfo raises when it has no address, while an error code of a public
\* resolver counts as an empty answer (parse_a_records).
Resolutions == {UNION {got[s] : s \in Sources} :
                  got \in {g \in [Sources -> Answers] : g["platform"] # {}}}

\* ips[:MAX_ADDRESSES_PER_FQDN] of the sorted addresses.
Truncated(answer) ==
    {a \in answer : Cardinality({b \in answer : b <= a}) <= MaxAddresses}

\* The lists are created empty; where an earlier invocation has ended well, they hold
\* what it resolved.
Init ==
    \E old \in [Lists -> {Truncated(answer) : answer \in Resolutions}] :
        /\ \A l \in Lists : Cardinality(old[l]) <= Capacity[l]
        /\ entries = IF Earlier = {} THEN [l \in Lists |-> {}] ELSE old
        /\ desired = [v \in Invocations |->
                        IF v \in Earlier THEN old ELSE [l \in Lists |-> {}]]
        /\ phase = [v \in Invocations |-> IF v \in Earlier THEN "done" ELSE "idle"]
        /\ published = [v \in Invocations |-> IF v \in Earlier THEN Lists ELSE {}]
        /\ passes = [v \in Invocations |-> IF v \in Earlier THEN 1 ELSE 0]
        /\ version = [l \in Lists |-> 1]
        /\ busy = [l \in Lists |-> FALSE]
        /\ at = [v \in Invocations |-> 1]
        /\ seen = [v \in Invocations |-> 0]
        /\ read = [v \in Invocations |-> {}]
        /\ token = [v \in Invocations |-> 0]
        /\ ever = [v \in Invocations |-> {}]
        /\ always = [v \in Invocations |-> {}]
        /\ why = [v \in Invocations |-> "none"]

Removals(v) == read[v] \ desired[v][at[v]]
Additions(v) == desired[v][at[v]] \ read[v]
NothingEither(v) == Removals(v) = {} \/ Additions(v) = {}
NothingToDo(v) == Removals(v) = {} /\ Additions(v) = {}

-----------------------------------------------------------------------------
(* One invocation.                                                         *)

Start(v) == /\ phase[v] = "idle"
            /\ phase' = [phase EXCEPT ![v] = "resolve"]
            /\ UNCHANGED <<listVars, at, desired, seen, read, token, sinceVars,
                           historyVars>>

\* The local variables of replace_one_prefix_list are gone when it returns or raises.
Leave(v) == /\ read' = [read EXCEPT ![v] = {}]
            /\ token' = [token EXCEPT ![v] = 0]
            /\ seen' = [seen EXCEPT ![v] = 0]

Forget(v) == /\ ever' = [ever EXCEPT ![v] = {}]
             /\ always' = [always EXCEPT ![v] = {}]

Fail(v, reason) == /\ phase' = [phase EXCEPT ![v] = "failed"]
                   /\ why' = [why EXCEPT ![v] = reason]
                   /\ Leave(v)
                   /\ Forget(v)
                   /\ UNCHANGED <<listVars, at, desired, published, passes>>

\* Has the pass resolved every FQDN with this one?
PassNeedsOne(v) == TRUE
PassComplete(v) == at[v] = N

\* One FQDN has been resolved; after the last one the publication begins.
Resolve(v) ==
    /\ phase[v] = "resolve"
    /\ \E answer \in Resolutions :
         desired' = [desired EXCEPT ![v][at[v]] = Truncated(answer)]
    /\ IF PassComplete(v)
         THEN /\ phase' = [phase EXCEPT ![v] = "describe"]
              /\ at' = [at EXCEPT ![v] = 1]
              /\ passes' = [passes EXCEPT ![v] = 1 + Cardinality(
                              {w \in Invocations : passes[w] # 0})]
         ELSE /\ at' = [at EXCEPT ![v] = @ + 1]
              /\ UNCHANGED <<phase, passes>>
    /\ UNCHANGED <<listVars, seen, read, token, sinceVars, why, published>>

\* A resolver times out or answers nonsense, getaddrinfo has no address, or the FQDN
\* has no prefix list.
ResolveFails(v) == phase[v] = "resolve" /\ Fail(v, "resolve")

\* describe_managed_prefix_lists, then the capacity check.
FitsCapacity(v) == Cardinality(desired[v][at[v]]) <= Capacity[at[v]]

Describe(v) == /\ phase[v] = "describe"
               /\ FitsCapacity(v)
               /\ seen' = [seen EXCEPT ![v] = version[at[v]]]
               /\ read' = [read EXCEPT ![v] = {}]
               /\ token' = [token EXCEPT ![v] = 0]
               /\ phase' = [phase EXCEPT ![v] = "read"]
               /\ ever' = [ever EXCEPT ![v] = entries[at[v]]]
               /\ always' = [always EXCEPT ![v] = entries[at[v]]]
               /\ UNCHANGED <<listVars, at, desired, historyVars>>

CapacityExceeded(v) == /\ phase[v] = "describe"
                       /\ ~FitsCapacity(v)
                       /\ Fail(v, "capacity")

\* get_managed_prefix_list_entries answers some first part of what lies beyond the
\* token, with a new token if it left something out.
Unread(v) == {a \in entries[at[v]] : a > token[v]}

ReadEmptyPage(v) == /\ phase[v] = "read"
                    /\ Unread(v) = {}
                    /\ phase' = [phase EXCEPT ![v] = "modify"]
                    /\ UNCHANGED <<listVars, at, desired, seen, read, token,
                                   sinceVars, historyVars>>

ReadPage(v) ==
    /\ phase[v] = "read"
    /\ \E last \in Unread(v) :
         /\ read' = [read EXCEPT ![v] = @ \cup {a \in Unread(v) : a <= last}]
         /\ IF \E a \in Unread(v) : a > last
              THEN /\ token' = [token EXCEPT ![v] = last]
                   /\ UNCHANGED phase
              ELSE /\ phase' = [phase EXCEPT ![v] = "modify"]
                   /\ UNCHANGED token
    /\ UNCHANGED <<listVars, at, desired, seen, sinceVars, historyVars>>

\* The loop of replace_prefix_list_entries goes on to the next FQDN.
NextListPastEnd(v) == /\ phase' = [phase EXCEPT ![v] = "describe"]
                      /\ at' = [at EXCEPT ![v] = @ + 1]
NextList(v) == IF at[v] = N THEN /\ phase' = [phase EXCEPT ![v] = "done"]
                                 /\ UNCHANGED at
                            ELSE /\ phase' = [phase EXCEPT ![v] = "describe"]
                                 /\ at' = [at EXCEPT ![v] = @ + 1]

KeepEntries(v) == /\ phase[v] = "modify"
                  /\ NothingToDo(v)
                  /\ NextList(v)
                  /\ Leave(v)
                  /\ Forget(v)
                  /\ UNCHANGED <<listVars, desired, historyVars>>

\* modify_managed_prefix_list: EC2 takes the request if CurrentVersion is current and
\* the list has settled, and applies the removals and additions.
VersionIgnored(v) == ~busy[at[v]]
VersionOffByOne(v) == seen[v] + 1 = version[at[v]] /\ ~busy[at[v]]
VersionIsCurrent(v) == seen[v] = version[at[v]] /\ ~busy[at[v]]

\* What the step at list l adds to the histories of those who go on reading.
Watch(l) ==
    LET reads(w) == phase'[w] \in {"read", "modify"}
    IN  /\ ever' = [w \in Invocations |->
                      IF ~reads(w) THEN {}
                      ELSE IF at[w] = l THEN ever[w] \cup entries'[l] ELSE ever[w]]
        /\ always' = [w \in Invocations |->
                        IF ~reads(w) THEN {}
                        ELSE IF at[w] = l THEN always[w] \cap entries'[l] ELSE always[w]]

Accept(v) ==
    /\ phase[v] = "modify"
    /\ ~NothingToDo(v)
    /\ VersionIsCurrent(v)
    /\ entries' = [entries EXCEPT ![at[v]] = (@ \ Removals(v)) \cup Additions(v)]
    /\ version' = [version EXCEPT ![at[v]] = @ + 1]
    /\ busy' = [busy EXCEPT ![at[v]] = TRUE]
    /\ published' = [published EXCEPT ![v] = @ \cup {at[v]}]
    /\ UNCHANGED <<desired, why, passes>>

Modify(v) == Accept(v) /\ NextList(v) /\ Leave(v) /\ Watch(at[v])

\* The answer to an accepted request is lost: the SDK repeats the request, which the
\* version check can only refuse (ModifyConflicts).
AnswerLost(v) == /\ Accept(v)
                 /\ UNCHANGED <<phase, at, seen, read, token>>
                 /\ Watch(at[v])

\* PrefixListVersionMismatch or IncorrectState: nothing catches it.
RetriesConflict(v) == /\ phase[v] = "modify"
                      /\ ~NothingToDo(v)
                      /\ ~VersionIsCurrent(v)
                      /\ phase' = [phase EXCEPT ![v] = "describe"]
                      /\ UNCHANGED <<listVars, at, desired, seen, read, token,
                                     sinceVars, historyVars>>
ModifyConflicts(v) == /\ phase[v] = "modify"
                      /\ ~NothingToDo(v)
                      /\ ~VersionIsCurrent(v)
                      /\ Fail(v, "conflict")

\* The Lambda's timeout, or an error of the EC2 API.
Dies(v) == /\ phase[v] \in {"describe", "read", "modify"}
           /\ Fail(v, "died")

\* EC2 finishes propagating a modification.  It may also end one as failed; nothing
\* here says what the list holds then, and this outcome is left out.
Settle(l) == /\ busy[l]
             /\ busy' = [busy EXCEPT ![l] = FALSE]
             /\ UNCHANGED <<entries, version, phase, at, desired, seen, read, token,
                            sinceVars, historyVars>>

-----------------------------------------------------------------------------
ResolveStep(v) == Resolve(v) \/ ResolveFails(v)
DescribeStep(v) == Describe(v) \/ CapacityExceeded(v)
ReadStep(v) == ReadEmptyPage(v) \/ ReadPage(v)
ModifyStep(v) == KeepEntries(v) \/ Modify(v) \/ ModifyConflicts(v)

Progress(v) == ResolveStep(v) \/ DescribeStep(v) \/ ReadStep(v) \/ ModifyStep(v)

Next == \/ \E v \in Invocations : Start(v) \/ Progress(v) \/ AnswerLost(v) \/ Dies(v)
        \/ \E l \in Lists : Settle(l)

Spec == Init /\ [][Next]_vars

\* Every invocation runs on its own thread of control, and every call returns.
FairSpec == Spec /\ \A v \in Invocations : WF_vars(Progress(v))

-----------------------------------------------------------------------------
(* Properties                                                              *)

\* The variables stay in their domains.
TypeOK ==
    /\ entries \in [Lists -> SUBSET Addresses]
    /\ version \in [Lists -> Nat \ {0}]
    /\ busy \in [Lists -> BOOLEAN]
    /\ phase \in [Invocations -> Phases]
    /\ at \in [Invocations -> Lists]
    /\ desired \in [Invocations -> [Lists -> SUBSET Addresses]]
    /\ seen \in [Invocations -> Nat]
    /\ read \in [Invocations -> SUBSET Addresses]
    /\ token \in [Invocations -> Nat]
    /\ ever \in [Invocations -> SUBSET Addresses]
    /\ always \in [Invocations -> SUBSET Addresses]
    /\ why \in [Invocations -> Reasons]
    /\ published \in [Invocations -> SUBSET Lists]
    /\ passes \in [Invocations -> Nat]

\* A request EC2 is about to accept is exact, however many invocations have published
\* or read pages in between: it removes only entries the list has, adds only entries
\* it does not have, and leaves what its sender resolved (replace_one_prefix_list and
\* its CurrentVersion).
AcceptedIsExact ==
    \A v \in Invocations :
        phase[v] = "modify" /\ VersionIsCurrent(v) =>
            /\ Removals(v) \subseteq entries[at[v]]
            /\ Additions(v) \cap entries[at[v]] = {}
            /\ (entries[at[v]] \ Removals(v)) \cup Additions(v) = desired[v][at[v]]

\* A list that is not empty any more holds, entirely and nothing else, what one
\* invocation resolved for this list's FQDN, in a pass that resolved every FQDN, and
\* it fits the list: never a mixture of two passes, a partial pass or another FQDN's
\* addresses (lambda_handler, replace_prefix_list_entries).
HoldsOnePass ==
    \A l \in Lists : entries[l] # {} =>
        \E v \in Invocations :
            /\ l \in published[v]
            /\ entries[l] = desired[v][l]
            /\ \A k \in Lists : desired[v][k] # {}
            /\ Cardinality(entries[l]) <= Capacity[l]

\* An invocation that returns early (replace_one_prefix_list) because it sees nothing
\* to change may have read its pages while others modified the list, and no version
\* guards it.  Still each address it wants was in the list at some time of the reading,
\* and no other address stayed in the list all the time.
KeptWasThere ==
    \A v \in Invocations : phase[v] = "modify" /\ NothingToDo(v) =>
        always[v] \subseteq desired[v][at[v]] /\ desired[v][at[v]] \subseteq ever[v]

\* An invocation fails with a conflict only at a list that was modified since the
\* earlier invocation: by another one, or by itself when the answer was lost and the
\* SDK's repetition was refused.  Nobody fails with a conflict that nobody won.
ConflictHasWinner ==
    \A v \in Invocations : why[v] = "conflict" =>
        \E w \in Invocations \ Earlier : at[v] \in published[w]

\* An invocation modifies the lists in the order of FQDNS, each at most once, and none
\* before its pass has resolved every FQDN (lambda_handler's first loop).
PublishesInOrder ==
    [][\A v \in Invocations : \A l \in published'[v] \ published[v] :
         /\ \A k \in published[v] : k < l
         /\ \A k \in Lists : desired[v][k] # {}]_vars

\* The generator as PrefixLists: its paged reading, the differences it sends and the
\* version check make each publication one replacement of a whole list, and the SDK's
\* repetition of a request none.
Store == INSTANCE PrefixLists WITH
    Publishers <- Invocations,
    held <- entries,
    results <- [v \in Invocations |->
                  IF passes[v] = 0 THEN [l \in Lists |-> {}] ELSE desired[v]],
    done <- published
ImplementsLists == Store!Spec

\* Every invocation that started ends, also when the lists change between two pages
\* of get_all_prefix_list_entries.
EveryInvocationEnds ==
    \A v \in Invocations : phase[v] = "resolve" ~> phase[v] \in {"done", "failed"}

-----------------------------------------------------------------------------
(* What the repository's documents say; the runs that check these find     *)
(* them violated.                                                          *)

\* docs/lambda-ip-fallback-tasks.md:73 and :43-44: an invocation that fails, in its
\* resolution or in any publish step, has left all existing entries untouched.
UntouchedOnFailure ==
    \A v \in Invocations : phase[v] = "failed" => published[v] = {}

\* docs/lambda-ip-fallback-tasks.md:72: the lists have been replaced with the latest
\* complete successful result, when every invocation so far has ended well.
Latest(v) == \A w \in Invocations : passes[w] <= passes[v]
LatestResultStays ==
    (\A v \in Invocations : phase[v] \in {"idle", "done"}) =>
        \A v \in Invocations : phase[v] = "done" /\ Latest(v) => entries = desired[v]
=============================================================================
