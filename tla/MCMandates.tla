----------------------------- MODULE MCMandates -----------------------------
(* A customer with a pocket grants two mandates over the main account, from    *)
(* which two payments go to a merchant, direct or delegated, while money is    *)
(* moved out of the pocket.                                                    *)
EXTENDS Mandates, TLC

CONSTANTS main, pocket, shop, cash, holds, k1, k2, t1, m1, m2, none

MCCustomers == {main, pocket, shop}
MCInternals == {cash, holds}
MCFamily    == [a \in MCCustomers |-> IF a = pocket THEN main ELSE a]
MCOpening   == [a \in MCCustomers |-> CASE a = main -> 2 [] a = pocket -> 1 [] OTHER -> 0]
MCMaxBalance     == [a \in MCCustomers |-> 3]
MCMaxTransaction == [a \in MCCustomers |-> 2]

MCCommands ==
    {[payer |-> main, payee |-> shop, amount |-> 1, ttl |-> 2],
     [payer |-> main, payee |-> shop, amount |-> 2, ttl |-> 1]}

MCMovements ==
    {[kind |-> "pocket_transfer", from |-> pocket, to |-> main, amount |-> 1],
     [kind |-> "transfer", from |-> shop, to |-> cash, amount |-> 1]}

MCGrants ==
    {[account |-> main, perOperation |-> 2, total |-> 2, life |-> 2],
     [account |-> main, perOperation |-> 1, total |-> 1, life |-> 1]}

(* The mandates are alike, and so are the payments.                            *)
AllAlike == Permutations({m1, m2}) \cup Permutations({k1, k2})
=============================================================================
