------------------------------- MODULE MCEngine -------------------------------
(* A small instance of Engine: dom0 and one guest, two sizes, and two        *)
(* policies, one open below, the other with its floor above its ceiling and  *)
(* no cooldown.                                                              *)
EXTENDS Engine

MCPolicies == {Policy(None, 1, 3), Policy(2, 1, None)}
=============================================================================
