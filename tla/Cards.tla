------------------------------- MODULE Cards -------------------------------
(* The card adapter, adapters/cards: a purchase is a row of its own table and *)
(* up to two postings of the core, and the two are written in separate calls. *)
(* Every call of the network is a handler that reads the row, posts, and      *)
(* marks the row, and may die between any two of them.  The network repeats   *)
(* a message, also while the first is still being handled.                    *)
EXTENDS CoreClient

CONSTANTS
    Purchases,     \* network transaction ids
    AccountOf,     \* [Purchases -> Holders]: the account of the card used
    Amount,        \* [Purchases -> Nat \ {0}]: what is authorized
    Finals,        \* amounts a merchant may end up charging
    AuthHold, Settlement, Overage,   \* the programme's internal accounts
    Calls,         \* handlers running at once
    MaxSpend       \* other purchases the customers make, each of 1

ASSUME CardsAssumption ==
    /\ AccountOf \in [Purchases -> Holders]
    /\ Amount \in [Purchases -> Nat \ {0}]
    /\ Finals \subseteq Nat \ {0}
    /\ {AuthHold, Settlement, Overage} \subseteq House
    /\ Cardinality({AuthHold, Settlement, Overage}) = 3
    /\ MaxSpend \in Nat

VARIABLES
    rows,      \* cards.authorizations: [Purchases -> Row or NoRow]
    frozen,    \* the card's status in the directory
    call,      \* [Calls -> what the handler is about to do]
    network,   \* [Purchases -> what the network has been told or is asking]
    final,     \* [Purchases -> what the merchant charges, 0 before the clearing]
    early      \* purchases approved while their row had no hold written in it

cardVars == <<rows, frozen, call, network, final, early>>

Row   == [status : {"none", "held", "cleared", "reversed"},
          held : BOOLEAN,            \* hold_transaction_id IS NOT NULL
          final : Nat, overage : Nat]
NoRow == [status |-> "none", held |-> FALSE, final |-> 0, overage |-> 0]
Idle  == [at |-> "idle"]

AuthKey(n)    == <<"auth", n>>
ClearKey(n)   == <<"clear", n>>
ReverseKey(n) == <<"reverse", n>>

(* The statements of store.go.  All but the first are unconditional: they     *)
(* look neither at the status they overwrite nor at whether a row was found.  *)
Update(n, row)       == IF rows[n] = NoRow THEN rows ELSE [rows EXCEPT ![n] = row]
reserve(n)           == [rows EXCEPT ![n] = [NoRow EXCEPT !.status = "held"]]
markHeld(n)          == Update(n, [rows[n] EXCEPT !.held = TRUE])
drop(n)              == IF rows[n].held THEN rows ELSE [rows EXCEPT ![n] = NoRow]
markCleared(n, f, o) == Update(n, [rows[n] EXCEPT !.status = "cleared",
                                                  !.final = f, !.overage = o])
markReversed(n)      == Update(n, [rows[n] EXCEPT !.status = "reversed"])

InitCards ==
    /\ core = << >> /\ rows = [n \in Purchases |-> NoRow] /\ frozen = FALSE
    /\ call = [c \in Calls |-> Idle]
    /\ network = [n \in Purchases |-> "unanswered"]
    /\ final = [n \in Purchases |-> 0] /\ early = {}

Goto(c, n, step) == call' = [call EXCEPT ![c] = [at |-> step, purchase |-> n]]
Return(c) == call' = [call EXCEPT ![c] = Idle]

(* The answer the network gets to an authorization.                           *)
Tell(n, approved) ==
    /\ network' = IF approved /\ network[n] = "unanswered"
                  THEN [network EXCEPT ![n] = "approved"] ELSE network
    /\ early' = IF approved /\ ~rows'[n].held THEN early \cup {n} ELSE early

-----------------------------------------------------------------------------
(* Service.Authorize up to the row: a frozen or cancelled card is declined;   *)
(* the row is reserved as held before any money is, and a repetition is       *)
(* answered from the row it finds.                                            *)
Authorize(c, n) ==
    /\ call[c] = Idle /\ ~frozen
    /\ IF rows[n] = NoRow
       THEN /\ rows' = reserve(n)
            /\ Goto(c, n, "hold")
            /\ UNCHANGED <<network, early>>
       ELSE /\ UNCHANGED <<rows, call>>
            /\ Tell(n, rows[n].status \in {"held", "cleared"})
    /\ UNCHANGED <<core, frozen, final>>

(* Slip: an answer that never came is taken for a yes.                       *)
PostHoldHoping(c) ==
    LET n == call[c].purchase IN
    /\ call[c].at = "hold"
    /\ \E got \in Answers :
        /\ Post(AuthKey(n), Moves(AccountOf[n], AuthHold, Amount[n]), got)
        /\ Goto(c, n, IF Ok(got) \/ got = "unavailable" THEN "mark held" ELSE "drop")
    /\ UNCHANGED <<rows, frozen, network, final, early>>

PostHold(c) ==
    LET n == call[c].purchase IN
    /\ call[c].at = "hold"
    /\ \E got \in Answers :
        /\ Post(AuthKey(n), Moves(AccountOf[n], AuthHold, Amount[n]), got)
        /\ Goto(c, n, IF Ok(got) THEN "mark held" ELSE "drop")
    /\ UNCHANGED <<rows, frozen, network, final, early>>

MarkHeld(c) ==
    LET n == call[c].purchase IN
    /\ call[c].at = "mark held"
    /\ rows' = markHeld(n)
    /\ Tell(n, TRUE) /\ Return(c)
    /\ UNCHANGED <<core, frozen, final>>

(* The row goes if no hold was written in it, whatever its status.            *)
Drop(c) ==
    LET n == call[c].purchase IN
    /\ call[c].at = "drop"
    /\ rows' = drop(n)
    /\ Return(c)
    /\ UNCHANGED <<core, frozen, network, final, early>>

-----------------------------------------------------------------------------
(* Service.Clear.  What the merchant charges beyond the hold is taken from    *)
(* the account, or advanced by the bank when the account does not have it.    *)
Clear(c, n) ==
    /\ call[c] = Idle /\ network[n] \in {"clearing", "settled"} /\ final[n] > 0
    /\ \/ rows[n].status = "held" /\ Goto(c, n, "clear") /\ UNCHANGED network
       \/ /\ rows[n].status = "cleared"
          /\ network' = [network EXCEPT ![n] = "settled"] /\ UNCHANGED call
    /\ UNCHANGED <<core, rows, frozen, final, early>>

ClearEntries(n, payer) ==
    LET over == final[n] - Amount[n]
        third == IF over < 0 THEN {AccountOf[n]} ELSE IF over > 0 THEN {payer} ELSE {}
    IN  [a \in {AuthHold, Settlement} \cup third |->
            IF a = AuthHold THEN -Amount[n] ELSE IF a = Settlement THEN final[n] ELSE -over]

PostClear(c) ==
    LET n == call[c].purchase IN
    /\ call[c].at = "clear"
    /\ \E got \in Answers :
        /\ Post(ClearKey(n), ClearEntries(n, AccountOf[n]), got)
        /\ IF Ok(got) THEN Goto(c, n, "mark cleared")
           ELSE IF got = "insufficient" /\ final[n] > Amount[n] THEN Goto(c, n, "absorb")
           ELSE Return(c)
    /\ UNCHANGED <<rows, frozen, network, final, early>>

PostAbsorbed(c) ==
    LET n == call[c].purchase IN
    /\ call[c].at = "absorb"
    /\ \E got \in Answers :
        /\ Post(ClearKey(n), ClearEntries(n, Overage), got)
        /\ IF Ok(got) THEN Goto(c, n, "mark absorbed") ELSE Return(c)
    /\ UNCHANGED <<rows, frozen, network, final, early>>

MarkCleared(c) ==
    LET n == call[c].purchase IN
    /\ call[c].at \in {"mark cleared", "mark absorbed"}
    /\ rows' = markCleared(n, final[n],
                 IF call[c].at = "mark absorbed" THEN final[n] - Amount[n] ELSE 0)
    /\ network' = [network EXCEPT ![n] = "settled"]
    /\ Return(c)
    /\ UNCHANGED <<core, frozen, final, early>>

-----------------------------------------------------------------------------
(* Slip: a purchase that was charged is reversed as well.                    *)
ReverseCleared(c, n) ==
    /\ call[c] = Idle /\ network[n] \in {"reversing", "settled"}
    /\ rows[n].status \in {"held", "cleared"} /\ Goto(c, n, "reverse")
    /\ UNCHANGED <<core, rows, frozen, network, final, early>>

Reverse(c, n) ==
    /\ call[c] = Idle /\ network[n] \in {"reversing", "settled"}
    /\ \/ rows[n].status = "held" /\ Goto(c, n, "reverse") /\ UNCHANGED network
       \/ /\ rows[n].status = "reversed"
          /\ network' = [network EXCEPT ![n] = "settled"] /\ UNCHANGED call
    /\ UNCHANGED <<core, rows, frozen, final, early>>

PostReverse(c) ==
    LET n == call[c].purchase IN
    /\ call[c].at = "reverse"
    /\ \E got \in Answers :
        /\ Post(ReverseKey(n), Moves(AuthHold, AccountOf[n], Amount[n]), got)
        /\ IF Ok(got) THEN Goto(c, n, "mark reversed") ELSE Return(c)
    /\ UNCHANGED <<rows, frozen, network, final, early>>

MarkReversed(c) ==
    LET n == call[c].purchase IN
    /\ call[c].at = "mark reversed"
    /\ rows' = markReversed(n)
    /\ network' = [network EXCEPT ![n] = "settled"]
    /\ Return(c)
    /\ UNCHANGED <<core, frozen, final, early>>

-----------------------------------------------------------------------------
(* The network: after an approval the merchant charges some amount or gives   *)
(* the purchase up, and the network repeats that until it is answered.  Once  *)
(* it has settled one way, a late message may still ask for the other.        *)
Decide(n) ==
    /\ network[n] = "approved"
    /\ \/ \E f \in Finals : /\ final' = [final EXCEPT ![n] = f]
                            /\ network' = [network EXCEPT ![n] = "clearing"]
       \/ network' = [network EXCEPT ![n] = "reversing"] /\ UNCHANGED final
    /\ UNCHANGED <<core, rows, frozen, call, early>>

LateCharge(n) ==
    /\ network[n] = "settled" /\ final[n] = 0
    /\ \E f \in Finals : final' = [final EXCEPT ![n] = f]
    /\ UNCHANGED <<core, rows, frozen, call, network, early>>

(* The customer spends elsewhere, or freezes the card.                        *)
Spend(a, i) ==
    /\ Reply(<<"spend", a, i>>, Moves(a, Settlement, 1)) = "posted"
    /\ core' = Posted(<<"spend", a, i>>, Moves(a, Settlement, 1))
    /\ UNCHANGED <<rows, frozen, call, network, final, early>>

Freeze == frozen' = ~frozen /\ UNCHANGED <<core, rows, call, network, final, early>>

(* The process dies, or the network's deadline cancels the call.              *)
Crash(c) == call[c] # Idle /\ Return(c)
            /\ UNCHANGED <<core, rows, frozen, network, final, early>>

NextCards ==
    \/ \E c \in Calls, n \in Purchases : Authorize(c, n) \/ Clear(c, n) \/ Reverse(c, n)
    \/ \E c \in Calls : \/ PostHold(c) \/ MarkHeld(c) \/ Drop(c)
                        \/ PostClear(c) \/ PostAbsorbed(c) \/ MarkCleared(c)
                        \/ PostReverse(c) \/ MarkReversed(c) \/ Crash(c)
    \/ \E n \in Purchases : Decide(n) \/ LateCharge(n)
    \/ \E a \in Holders, i \in 1..MaxSpend : Spend(a, i)
    \/ Freeze

CardsSpec == InitCards /\ [][NextCards]_<<core, cardVars>>

-----------------------------------------------------------------------------
PurchaseKeys(n) == {AuthKey(n), ClearKey(n), ReverseKey(n)} \cap DOMAIN core

(* The issuer's table never says more than the ledger did: a row with a hold  *)
(* has it posted; a cleared row's amounts are those of the clearing posted,   *)
(* the overage being what the bank advanced; a reversed row was given back.   *)
RowsTellLedger ==
    \A n \in Purchases :
        /\ rows[n].held => AuthKey(n) \in DOMAIN core
        /\ rows[n].status = "cleared" =>
            /\ ClearKey(n) \in DOMAIN core
            /\ core[ClearKey(n)][Settlement] = rows[n].final
            /\ rows[n].overage = -Gained(Overage, {ClearKey(n)})
        /\ rows[n].status = "reversed" => ReverseKey(n) \in DOMAIN core

(* However often the network repeats itself and wherever a handler dies, what *)
(* the programme holds for a purchase is its amount or nothing -- unless the  *)
(* purchase was approved by a repetition, before its hold was known.          *)
ReleasedOnce ==
    \A n \in Purchases \ early : Gained(AuthHold, PurchaseKeys(n)) \in {0, Amount[n]}

(* The rows of the card programme say no more than the ledger has, and a hold *)
(* is let go once (Authorize, Clear, Reverse, over the core's ledger).        *)
PurchasesAddUp == RowsTellLedger /\ ReleasedOnce
=============================================================================
