------------------------------ MODULE MCSweeper ------------------------------
(* The end of a payment.  Either the sweeper and an RPC give back what expires *)
(* -- two holds on a capped family of accounts and a pocket that may close,    *)
(* where releases fail -- or an integration captures, refunds and asks over    *)
(* HTTP for one of the payments while the sweeper goes by: two calls, each     *)
(* repeated once.                                                              *)
EXTENDS Sweeper, PaymentCalls

CONSTANTS main, pocket, shop, cash, holds, k1, k2, t1, process, rpc

VARIABLE scene

vars == <<sweeperVars, call, scene>>

MCInit == SweeperInit /\ CallsInit /\ scene \in {"sweeping", "calling"}

(* One payment, captured by a third call or swept when it expires, and a       *)
(* transfer that may leave no room for it in an account.                       *)
OnePayment ==
    \/ /\ UNCHANGED <<batch, crashes>>
       /\ \/ Tick
          \/ \E c \in Commands : Authorize(k1, c)
          \/ Capture(k1)
          \/ \E m \in Movements : Move(t1, m) /\ UNCHANGED <<auth, now>>
    \/ Select(process) \/ ReleaseNext(process)

MCNext ==
    \/ scene = "sweeping" /\ SweeperNext /\ UNCHANGED <<call, scene>>
    \/ scene = "calling" /\ OnePayment /\ UNCHANGED <<call, scene>>
    \/ /\ scene = "calling" /\ UNCHANGED <<batch, crashes, scene>>
       /\ \E c \in Calls : NextCall(c)

(* As in SweeperSpec: nobody else has to do anything.                          *)
Sweeps(s, A) == (s = process \/ scene = "sweeping") /\ A /\ UNCHANGED <<call, scene>>

Fair(s) == WF_vars(Sweeps(s, Select(s))) /\ WF_vars(Sweeps(s, ReleaseNext(s)))

MCSpec == MCInit /\ [][MCNext]_vars /\ Fair(process) /\ Fair(rpc)

-----------------------------------------------------------------------------
MCCustomers == {main, pocket, shop}
MCInternals == {cash, holds}
MCFamily    == [a \in MCCustomers |-> IF a = pocket THEN main ELSE a]
MCOpening   == [a \in MCCustomers |-> CASE a = main -> 2 [] a = pocket -> 1 [] a = shop -> 0]
MCMaxBalance     == [a \in MCCustomers |-> IF a = shop THEN 2 ELSE 3]
MCMaxTransaction == [a \in MCCustomers |-> 2]

MCCommands ==
    {[payer |-> pocket, payee |-> shop, amount |-> 1, ttl |-> 1],
     [payer |-> main, payee |-> shop, amount |-> 2, ttl |-> 1]}

MCMovements == [kind : {"transfer"}, from : {cash}, to : {main, shop}, amount : {1}]
=============================================================================
