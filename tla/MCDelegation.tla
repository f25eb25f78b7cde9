---------------------------- MODULE MCDelegation ----------------------------
(* Two agents of one platform, one customer, and one account of its own.      *)
EXTENDS Mercatus

CONSTANTS a1, a2, k1, k2, c1, m1, m2, h1, h2, n1, r1, none

MCAgentIds == {a1, a2}
MCKeys     == {k1, k2}
MCMandates == {m1, m2}
MCCalls    == {h1, h2}
MCConsents == {c1}
MCPayKeys  == {n1}
MCRefs     == {r1}
MCLimits   == {1}
MCTransactions == {}
Symmetry   == Permutations(MCKeys) \cup Permutations(MCAgentIds) \cup Permutations(MCMandates) \cup Permutations(MCCalls)
=============================================================================
