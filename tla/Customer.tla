------------------------------ MODULE Customer ------------------------------
(* One customer of the app, what is theirs in the core, and the transfers     *)
(* they order, handleTransfer of services/bff: the control layer says whether *)
(* one goes on, the core moves the money, and what was done is traced         *)
(* afterwards without the answer depending on it.                             *)
EXTENDS CoreClient, Control

CONSTANTS
    Own,         \* the customer's accounts
    PocketIds,   \* accounts the core would open as pockets of theirs
    CurrencyOf,  \* [Holders -> currencies]
    Orders,      \* idempotency keys the app makes for transfers
    Amounts      \* what it asks to transfer

ASSUME CustomerAssumption ==
    /\ Own \cap PocketIds = {} /\ Own \cup PocketIds \subseteq Holders
    /\ Amounts \subseteq Int

(* A handler dies where it stands, with no more trace than it has left.       *)
Crash(h) == call[h] # Idle /\ Return(h)

-----------------------------------------------------------------------------
transferTerms == [at : {"authorize"}, key : {<<"transfer", n>> : n \in Orders},
                  from : Own, to : Holders, amount : Amounts]

handleTransfer(h, t) ==
    /\ t \in transferTerms /\ t.amount > 0
    /\ t.from # t.to /\ CurrencyOf[t.from] = CurrencyOf[t.to]
    /\ Start(h, t)
    /\ UNCHANGED <<core, controlVars>>

transferOperation(t) ==
    [kind |-> "holder", by |-> You, action |-> "transfer", amount |-> t.amount, to |-> t.to,
     operation |-> <<t.key, t.from, t.to, t.amount>>, grant |-> NoGrant]

AuthorizeTransfer(h) ==
    /\ call[h].at \in {"authorize", "confirm"}
    /\ Ask(h, transferOperation(call[h]), "post")
    /\ UNCHANGED <<core, executions, payees>>

PostTransfer(h) ==
    LET t == call[h] IN
    /\ t.at = "post"
    /\ \E got \in Answers :
          /\ Post(t.key, Moves(t.from, t.to, t.amount), got)
          /\ IF Ok(got) THEN Goto(h, [t EXCEPT !.at = "trace"]) ELSE Return(h)
    /\ UNCHANGED controlVars

(* Control.Executed and Payees.Remember, each of which may fail on its own.   *)
TraceTransfer(h) ==
    LET t == call[h] IN
    /\ t.at = "trace"
    /\ Executed(t.key, You) /\ Remember(t.to)
    /\ Return(h)
    /\ UNCHANGED <<core, decisions, challenges>>

NextTransfers ==
    \E h \in Calls : \/ \E t \in transferTerms : handleTransfer(h, t)
                     \/ AuthorizeTransfer(h) \/ PostTransfer(h) \/ TraceTransfer(h)

-----------------------------------------------------------------------------
Moved == {k \in DOMAIN core : k[1] = "transfer"}
Payer(k) == CHOOSE a \in DOMAIN core[k] : core[k][a] < 0
Payee(k) == CHOOSE a \in DOMAIN core[k] : core[k][a] > 0

WasDecided(k, outcomes) ==
    Decided(<<k, Payer(k), Payee(k), core[k][Payee(k)]>>, You, outcomes)

(* Every transfer in the ledger was decided on with exactly its terms, however *)
(* its calls raced and were repeated; the large ones were confirmed with the   *)
(* phone, and so was some transfer to each account ever paid: nobody is paid   *)
(* for the first time on the strength of the session alone (authorizeOperation *)
(* before Post, Remember after it).                                            *)
TransfersWereAuthorized ==
    \A k \in Moved :
        /\ WasDecided(k, {"allow", "confirmed"})
        /\ core[k][Payee(k)] >= AmountThreshold => WasDecided(k, {"confirmed"})
        /\ \E first \in Moved : Payee(first) = Payee(k) /\ WasDecided(first, {"confirmed"})
=============================================================================
