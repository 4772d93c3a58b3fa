-------------------------- MODULE MCPolicyRefresh --------------------------
(* Model values for PolicyRefresh: two policies nginx accepts, one whose     *)
(* allowlist it rejects and one whose resolver line it rejects.              *)
EXTENDS PolicyRefresh

CONSTANTS p1, p2, badAllow, badResolver

MCPolicies == {p1, p2, badAllow, badResolver}
MCThreePolicies == {p1, p2, badAllow}
MCOneGood == {p1, badAllow}
MCNone == {}
MCBadAllowlist == {badAllow}
MCBadResolver == {badResolver}
=============================================================================
