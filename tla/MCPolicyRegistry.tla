-------------------------- MODULE MCPolicyRegistry --------------------------
(* An asyncio process and one behind the synchronous facade.               *)
EXTENDS PolicyRegistry

CONSTANTS p1, p2, a1, a2

MCWrapped == {<<p1, a1>>}
MCKinds == <<"scope", "budget">>

=============================================================================
