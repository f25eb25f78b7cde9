-------------------------- MODULE MCLedgerSessions --------------------------
(* Two sessions over an account with a pocket and a shop: crossed transfers,   *)
(* deposits to both members of the family, a movement that empties the pocket. *)
EXTENDS LedgerSessions, TLC

CONSTANTS main, pocket, shop, cash, t1, t2, s1, s2

MCCustomers == {main, pocket, shop}
MCInternals == {cash}
MCFamily    == [a \in MCCustomers |-> IF a = pocket THEN main ELSE a]
MCOpening   == [a \in MCCustomers |-> IF a = pocket THEN 1 ELSE IF a = main THEN 1 ELSE 2]
MCMaxBalance     == [a \in MCCustomers |-> 3]
MCMaxTransaction == [a \in MCCustomers |-> 1]
MCRank == (cash :> 1) @@ (main :> 2) @@ (shop :> 3) @@ (pocket :> 4)

MCMovements ==
    {[kind |-> "pocket_transfer", from |-> pocket, to |-> main, amount |-> 1],
     [kind |-> "transfer", from |-> main, to |-> shop, amount |-> 1],
     [kind |-> "transfer", from |-> shop, to |-> main, amount |-> 1],
     [kind |-> "transfer", from |-> main, to |-> cash, amount |-> 1],
     [kind |-> "transfer", from |-> cash, to |-> main, amount |-> 1],
     [kind |-> "transfer", from |-> cash, to |-> pocket, amount |-> 1]}
=============================================================================
