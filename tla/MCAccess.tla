------------------------------ MODULE MCAccess ------------------------------
(* Who is let in, and as whom: customers at the app, with a phone or a        *)
(* passkey, and platforms and their agents at Mercatus, with secrets, tokens  *)
(* and keys.  The two doors have nothing in common, so a behaviour is that of *)
(* one of them, whichever it is.  Here: a customer with two phones and a      *)
(* passkey at most, two requests at once; an agent that may have three keys   *)
(* in its life, changed by two transactions at once, of a platform that       *)
(* changes its secret twice.                                                  *)
EXTENDS Identity, OAuth

VARIABLE door

vars == <<identityVars, agentVars, oauthVars, door>>

Init == InitIdentity /\ InitAccess /\ door \in {"app", "mercatus"}

Next ==
    \/ door = "app" /\ NextIdentity /\ UNCHANGED <<agentVars, oauthVars, door>>
    \/ door = "mercatus" /\ NextAccess /\ UNCHANGED <<identityVars, door>>

Spec == Init /\ [][Next]_vars

-----------------------------------------------------------------------------
CONSTANTS ana, d1, d2, p1, pay, c1, c2, a1, k1, k2, k3, s1, s2

MCCustomers    == {ana}
MCDevices      == {d1, d2}
MCCredentials  == {p1}
MCOperations   == {pay}
MCCalls        == {c1, c2}
MCAgentIds     == {a1}
MCKeys         == {k1, k2, k3}
MCTransactions == {s1, s2}
MCScopes       == {pay}
Symmetry       == Permutations(MCCalls) \cup Permutations(MCDevices)
                  \cup Permutations(MCKeys) \cup Permutations(MCTransactions)
=============================================================================
