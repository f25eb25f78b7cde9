----------------------------- MODULE MCChannel -----------------------------
(* A small channel: a customer with an account in soles, one in dollars and a *)
(* line of credit, somebody to pay, and a few requests in flight, whichever   *)
(* they are; or somebody who opens the first of these.                        *)
EXTENDS Channel

CONSTANTS soles, dollars, friend, cc, p1, p2, pen, usd, h1, h2, q1, n1, n2, a1, a2, f1, f2, v1, v2, r1, r2, me, you, child, f0, till

MCHolders   == {soles, dollars, friend, cc, p1, p2}
MCHouse     == {pen, usd, till}
MCFunds     == [a \in MCHolders |-> CASE a = soles -> 3 [] a = cc -> 1 [] OTHER -> 0]
MCOwn       == {soles, dollars}
MCPocketIds == {p1, p2}
MCCurrency  == [a \in MCHolders |-> IF a = dollars THEN "USD" ELSE "PEN"]
MCPosition  == [USD |-> usd, PEN |-> pen]
MCCalls     == {h1, h2}
MCOrders    == {n1, n2}
MCPocketOrders == {n1}
MCCardOrders   == {n1}
MCQuotes    == {q1}
MCApplications == {a1, a2}
MCPhones    == {f1, f2}
MCCustomers == {soles, friend}
MCVerifications == {v1, v2}
MCFairFor   == 1..30
MCCodes     == {r1, r2}
MCReferences == {f0}
MCApplicants == {me, you, child}
MCRefused    == {child}
Symmetry    == Permutations(MCCalls) \cup Permutations(MCApplications)
               \cup Permutations(MCVerifications) \cup Permutations(MCPocketIds)

(* What the calculations of the channel are looked at for: every series and   *)
(* every situation up to a size.                                              *)
MCSeries    == [1..5 -> 0..3]
CardsDue    == {[due |-> d, minimum |-> 1, total |-> t, reserved |-> r] :
                    d \in -1..4, t \in {2, 3}, r \in {0, 1, 4}}
MCSituations == [balance : -1..5, out : 0..6, back : {0, 1}, history : {2}, income : 0..5,
                 due : CardsDue \cup {NoCard}]
=============================================================================
