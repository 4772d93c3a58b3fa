---------------------------- MODULE PrefixLists ----------------------------
(***************************************************************************)
(* What the ruleset generator promises to the firewall rules that read its *)
(* prefix lists, seen from outside: invocations come by a result for all   *)
(* lists or by none, and publish it list by list, in order and each list   *)
(* once; a list changes in one step from one result to another, however    *)
(* many requests, pages and versions lie behind that.  RulesetGenerator is *)
(* shown to implement it.                                                  *)
(***************************************************************************)
EXTENDS Integers, FiniteSets

CONSTANTS
    Lists,         \* the lists, in the order of FQDNS
    Publishers,    \* the invocations
    Addresses,     \* what a list may hold
    Capacity       \* list -> its MaxEntries

VARIABLES
    held,          \* list -> what it holds
    results,       \* publisher -> what it has resolved for each list
    done           \* publisher -> the lists it has published

listsVars == <<held, results, done>>

Nothing == [l \in Lists |-> {}]
Complete == [Lists -> (SUBSET Addresses) \ {{}}]

Init == /\ held \in [Lists -> SUBSET Addresses]
        /\ results \in [Publishers -> Complete \cup {Nothing}]
        /\ done \in [Publishers -> SUBSET Lists]
        /\ \A l \in Lists : held[l] = {} \/ \E p \in Publishers :
             l \in done[p] /\ held[l] = results[p][l]

Resolve(p) == /\ results[p] = Nothing
              /\ \E r \in Complete : results' = [results EXCEPT ![p] = r]
              /\ UNCHANGED <<held, done>>

Publish(p, l) == /\ results[p] # Nothing
                 /\ \A k \in done[p] : k < l
                 /\ Cardinality(results[p][l]) <= Capacity[l]
                 /\ held' = [held EXCEPT ![l] = results[p][l]]
                 /\ done' = [done EXCEPT ![p] = @ \cup {l}]
                 /\ UNCHANGED results

Next == \E p \in Publishers : Resolve(p) \/ \E l \in Lists : Publish(p, l)

Spec == Init /\ [][Next]_listsVars
=============================================================================
