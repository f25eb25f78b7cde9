------------------------------- MODULE Escrow -------------------------------
(* What an authorization promises its two parties, with no ledger, no status   *)
(* and no retry in sight: the money set aside is paid before the deadline or    *)
(* returned after it, never both, and only what was paid can be given back.     *)
EXTENDS Integers

CONSTANTS Keys  \* one escrow each

VARIABLES stage, amount, back, deadline, clock

escrowVars == <<stage, amount, back, deadline, clock>>

Init ==
    /\ stage = [k \in Keys |-> "none"]
    /\ amount = [k \in Keys |-> 0]
    /\ back = [k \in Keys |-> 0]
    /\ deadline = [k \in Keys |-> 0]
    /\ clock = 0

(* Time never runs backwards.                                                  *)
Wait ==
    /\ clock' > clock
    /\ UNCHANGED <<stage, amount, back, deadline>>

SetAside(k) ==
    /\ stage[k] = "none"
    /\ stage' = [stage EXCEPT ![k] = "held"]
    /\ amount'[k] > 0
    /\ amount' = [amount EXCEPT ![k] = amount'[k]]
    /\ deadline'[k] > clock
    /\ deadline' = [deadline EXCEPT ![k] = deadline'[k]]
    /\ UNCHANGED <<back, clock>>

Pay(k) ==
    /\ stage[k] = "held"
    /\ clock < deadline[k]
    /\ stage' = [stage EXCEPT ![k] = "paid"]
    /\ UNCHANGED <<amount, back, deadline, clock>>

Return(k) ==
    /\ stage[k] = "held"
    /\ clock >= deadline[k]
    /\ stage' = [stage EXCEPT ![k] = "returned"]
    /\ UNCHANGED <<amount, back, deadline, clock>>

GiveBack(k) ==
    /\ stage[k] = "paid"
    /\ back'[k] > back[k]
    /\ back'[k] <= amount[k]
    /\ back' = [back EXCEPT ![k] = back'[k]]
    /\ UNCHANGED <<stage, amount, deadline, clock>>

Next ==
    \/ Wait
    \/ \E k \in Keys : SetAside(k) \/ Pay(k) \/ Return(k) \/ GiveBack(k)

Spec == Init /\ [][Next]_escrowVars
=============================================================================
