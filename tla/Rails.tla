------------------------------- MODULE Rails -------------------------------
(* The payment rails adapter, adapters/rails.  Money going out is first moved *)
(* to a transit account, then ordered from the rail, and last settled or      *)
(* given back by what the rail answers; a request may die or lose an answer   *)
(* between any two of these, and is repeated with the same transfer id, also  *)
(* while the first is still running.  Money coming in is announced by the     *)
(* rail as often as it likes.                                                 *)
EXTENDS CoreClient

CONSTANTS
    Transfers,    \* transfer ids
    From,         \* [Transfers -> Holders]
    Sending,       \* [Transfers -> Nat \ {0}]
    Notices,      \* the rail's ids of incoming credits
    Incoming,     \* [Notices -> Nat \ {0}]
    Nostro, InTransit,   \* the adapter's internal accounts
    Senders         \* requests running at once

ASSUME RailsAssumption ==
    /\ From \in [Transfers -> Holders] /\ Sending \in [Transfers -> Nat \ {0}]
    /\ Incoming \in [Notices -> Nat \ {0}]
    /\ {Nostro, InTransit} \subseteq House /\ Nostro # InTransit

VARIABLES
    sends,     \* [Senders -> where its SendOutbound stands]
    order,     \* the rail's book: [Transfers -> unknown, received, accepted or rejected]
    told,      \* [Transfers -> the statuses callers were given]
    ours,      \* the account behind the incoming alias, or "nobody"
    acked      \* the credits the rail knows we took

railVars == <<sends, order, told, ours, acked>>

AtRest == [at |-> "idle"]
ReserveKey(t) == <<"out-reserve", t>>
SettleKey(t)  == <<"out-settle", t>>
GiveBackKey(t) == <<"out-reverse", t>>
InboundKey(i) == <<"in", i>>

InitRails ==
    /\ core = << >> /\ sends = [c \in Senders |-> AtRest]
    /\ order = [t \in Transfers |-> "unknown"] /\ told = [t \in Transfers |-> {}]
    /\ ours \in Holders \cup {"nobody"} /\ acked = {}

Proceed(c, t, step) == sends' = [sends EXCEPT ![c] = [at |-> step, transfer |-> t]]

Answer(c, t, status) ==
    /\ sends' = [sends EXCEPT ![c] = AtRest]
    /\ told' = [told EXCEPT ![t] = @ \cup {status}]

-----------------------------------------------------------------------------
(* SendOutbound, up to the reservation.  The destination is asked of the rail *)
(* first; an alias it does not know ends the request with nothing moved.      *)
SendOutbound(c, t) ==
    /\ sends[c] = AtRest
    /\ \E got \in Answers :
        /\ Post(ReserveKey(t), Moves(From[t], InTransit, Sending[t]), got)
        /\ IF Ok(got) THEN Proceed(c, t, "send") /\ UNCHANGED told
           ELSE Answer(c, t, "error")
    /\ UNCHANGED <<order, ours, acked>>

(* The order leaves for the rail, which knows it by its transfer id.          *)
Send(c) ==
    LET t == sends[c].transfer IN
    /\ sends[c].at = "send" /\ Proceed(c, t, "wait")
    /\ order' = IF order[t] = "unknown" THEN [order EXCEPT ![t] = "received"] ELSE order
    /\ UNCHANGED <<core, told, ours, acked>>

(* Slip: a rail that does not answer is taken for a refusal.                 *)
AnsweredOrRefused(c) ==
    LET t == sends[c].transfer IN
    /\ sends[c].at = "wait"
    /\ \/ order[t] = "accepted" /\ Proceed(c, t, "settle")
       \/ Proceed(c, t, "reverse")
    /\ UNCHANGED <<core, order, told, ours, acked>>

Answered(c) ==
    LET t == sends[c].transfer IN
    /\ sends[c].at = "wait"
    /\ \/ order[t] = "accepted" /\ Proceed(c, t, "settle") /\ UNCHANGED told
       \/ order[t] = "rejected" /\ Proceed(c, t, "reverse") /\ UNCHANGED told
       \/ Answer(c, t, "in_transit")    \* ErrUnavailable, whatever the rail did
    /\ UNCHANGED <<core, order, ours, acked>>

Settle(c) ==
    LET t == sends[c].transfer IN
    /\ sends[c].at = "settle"
    /\ \E got \in Answers :
        /\ Post(SettleKey(t), Moves(InTransit, Nostro, Sending[t]), got)
        /\ Answer(c, t, IF Ok(got) THEN "settled" ELSE "in_transit")
    /\ UNCHANGED <<order, ours, acked>>

GiveBack(c) ==
    LET t == sends[c].transfer IN
    /\ sends[c].at = "reverse"
    /\ \E got \in Answers :
        /\ Post(GiveBackKey(t), Moves(InTransit, From[t], Sending[t]), got)
        /\ Answer(c, t, IF Ok(got) THEN "reversed" ELSE "error")
    /\ UNCHANGED <<order, ours, acked>>

Die(c) ==
    /\ sends[c] # AtRest /\ sends' = [sends EXCEPT ![c] = AtRest]
    /\ UNCHANGED <<core, order, told, ours, acked>>

-----------------------------------------------------------------------------
(* The rail takes its decision on an order whenever it gets to it, perhaps    *)
(* long after the caller gave up waiting, and it takes it once.               *)
RailDecides(t) ==
    /\ order[t] = "received"
    /\ \E verdict \in {"accepted", "rejected"} : order' = [order EXCEPT ![t] = verdict]
    /\ UNCHANGED <<core, sends, told, ours, acked>>

(* A credit is announced, any number of times and in any order.               *)
HandleInboundCredit(i) ==
    /\ ours \in Holders
    /\ \E got \in Answers :
        /\ Post(InboundKey(i), Moves(Nostro, ours, Incoming[i]), got)
        /\ acked' = IF Ok(got) THEN acked \cup {i} ELSE acked
    /\ UNCHANGED <<sends, order, told, ours>>

(* The alias moves to another account, or stops being ours.                   *)
AliasMoves == ours' \in (Holders \cup {"nobody"}) \ {ours}
              /\ UNCHANGED <<core, sends, order, told, acked>>

NextRails ==
    \/ \E c \in Senders, t \in Transfers : SendOutbound(c, t)
    \/ \E c \in Senders : Send(c) \/ Answered(c) \/ Settle(c) \/ GiveBack(c) \/ Die(c)
    \/ \E t \in Transfers : RailDecides(t)
    \/ \E i \in Notices : HandleInboundCredit(i)
    \/ AliasMoves

RailsSpec == InitRails /\ [][NextRails]_<<core, railVars>>

-----------------------------------------------------------------------------
Gone(t)  == SettleKey(t) \in DOMAIN core
Given(t) == GiveBackKey(t) \in DOMAIN core

(* The limbo is exact: a transfer keeps its money in transit from the         *)
(* reservation until it is settled or given back, never both; money is given  *)
(* back only if the rail refused it and leaves only if the rail took it, and  *)
(* what a caller was told of the end is in the ledger.                        *)
LimboIsExact ==
    \A t \in Transfers :
        LET keys == {ReserveKey(t), SettleKey(t), GiveBackKey(t)} \cap DOMAIN core IN
        /\ Gained(InTransit, keys) =
             IF ReserveKey(t) \in keys /\ ~Gone(t) /\ ~Given(t) THEN Sending[t] ELSE 0
        /\ Gone(t)  => order[t] = "accepted"
        /\ Given(t) => order[t] = "rejected"
        /\ "settled"  \in told[t] => Gone(t)
        /\ "reversed" \in told[t] => Given(t)

(* What the rail sent us reaches one account once, even if the alias changed  *)
(* hands between two announcements of the same credit.                        *)
CreditedOnce ==
    \A i \in acked :
        /\ InboundKey(i) \in DOMAIN core
        /\ Cardinality(DOMAIN core[InboundKey(i)] \cap Holders) = 1
        /\ \E a \in Holders : Gained(a, {InboundKey(i)}) = Incoming[i]

(* What the rails move is counted exactly once both ways: nothing is settled  *)
(* and given back, lost in transit or credited twice, however requests race,  *)
(* are repeated or die between their calls (SendOutbound,                     *)
(* HandleInboundCredit).                                                      *)
RailsKeepCount == LimboIsExact /\ CreditedOnce
=============================================================================
