---------------------------- MODULE MCBackground ----------------------------
(* What the core does on its own while nobody asks: the relay, which puts the *)
(* outbox on the bus, and the sweeper's care of credit lines.  They have      *)
(* nothing in common but being always on, so a behaviour is one or the other. *)
(* Here: one relay and four events of postings on three accounts, the middle  *)
(* one sharing an account with each; and a card over five days, two instants  *)
(* to a day, with two days from cut to cut and one to pay, where interest     *)
(* comes to a unit at least.                                                  *)
EXTENDS Relay, CreditCycle

VARIABLE part

vars == <<relayVars, cycleVars, part>>

Init == RelayInit /\ InitCycle /\ part \in {"relay", "credit"}

Relaying(A)  == part = "relay" /\ A /\ UNCHANGED <<cycleVars, part>>
Crediting(A) == part = "credit" /\ A /\ UNCHANGED <<relayVars, part>>

Next == Relaying(RelayNext) \/ Crediting(NextCycle)

(* Relay::run loops for ever, and the bus takes what it is given in the end.  *)
(* The sweeper's loop reviews every line, and a cut that has begun ends.      *)
Fairness ==
    /\ \A r \in Relays : /\ WF_vars(Relaying(Select(r)))
                         /\ WF_vars(Relaying(\E i \in Ids : Publish(r, i)))
                         /\ WF_vars(Relaying(Mark(r)))
    /\ WF_vars(Crediting(review_all))
    /\ WF_vars(Crediting(WriteReview("sweeper")))
    /\ WF_vars(Crediting(close_cycle \/ CutFails))

Spec == Init /\ [][Next]_vars /\ Fairness

CONSTANTS a, b, c

MCTouches == {{a, b}, {b, c}, {c}}
=============================================================================
