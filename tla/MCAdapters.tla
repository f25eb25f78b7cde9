----------------------------- MODULE MCAdapters -----------------------------
(* The two adapters that carry money in and out of the bank over one core:    *)
(* purchases with a card, and transfers through the payment rails.  They post *)
(* under keys of their own and keep books of their own; what they share, the  *)
(* balances of the customers, others spend as well (Spend).  A behaviour is   *)
(* therefore that of one of them, whichever it is.  Here: a purchase the      *)
(* merchant may charge for less, for as much or for more than was held, and   *)
(* two transfers and an incoming credit, of a customer who can pay for one of *)
(* each; two requests at once.                                                *)
EXTENDS Cards, Rails

VARIABLE adapter   \* the one whose requests arrive

vars == <<core, cardVars, railVars, adapter>>

Init == InitCards /\ InitRails /\ adapter \in {"cards", "rails"}

Next ==
    \/ adapter = "cards" /\ NextCards /\ UNCHANGED <<railVars, adapter>>
    \/ adapter = "rails" /\ NextRails /\ UNCHANGED <<cardVars, adapter>>

Spec == Init /\ [][Next]_vars

-----------------------------------------------------------------------------
CONSTANTS acc, other, p1, t1, t2, i1, hold, settle, extra, nostro, transit, c1, c2

MCHolders   == {acc, other}
MCHouse     == {hold, settle, extra, nostro, transit}
MCFunds     == (acc :> 2) @@ (other :> 0)
MCPurchases == {p1}
MCAccountOf == (p1 :> acc)
MCAmount    == (p1 :> 2)
MCFinals    == {1, 2, 3}
MCTransfers == {t1, t2}
MCFrom      == (t1 :> acc) @@ (t2 :> acc)
MCSending   == (t1 :> 2) @@ (t2 :> 1)
MCNotices   == {i1}
MCIncoming  == (i1 :> 1)
MCCalls     == {c1, c2}
MCSenders   == {c1, c2}
Symmetry    == Permutations(MCCalls)
=============================================================================
