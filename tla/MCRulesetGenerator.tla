------------------------- MODULE MCRulesetGenerator -------------------------
(* Instances of RulesetGenerator: two FQDNs, and resolutions that are       *)
(* disjoint, overlap or are longer than MAX_ADDRESSES_PER_FQDN.  A list may  *)
(* turn from {2, 3} into {3} between two pages, which then read like what it *)
(* no longer holds, or into {1, 2}, which leaves the next page empty.  The   *)
(* second list is smaller than what an invocation may want to put into it.   *)
EXTENDS RulesetGenerator

CONSTANTS v0, v1, v2

MCNone == {}
MCFirst == {v0}
MCTwo == {v1, v2}
MCThree == {v0, v1, v2}
MCAnswers == {{}, {3}, {2, 3}, {1, 2}}
MCCapacity == <<2, 1>>
MCRoomy == <<2, 2>>
=============================================================================
