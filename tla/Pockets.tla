------------------------------- MODULE Pockets -------------------------------
(* Pockets of the customer's main account, services/pockets: child accounts   *)
(* of the core, with what each is for in a table of the service.  The two are *)
(* not written together.                                                      *)
EXTENDS Customer

CONSTANTS
    Main,         \* the account pockets are opened in
    MaxPockets,   \* pockets.MaxPockets
    PocketOrders  \* idempotency keys of deposits and withdrawals

ASSUME PocketsAssumption == Main \in Own /\ MaxPockets \in Nat

VARIABLES
    pockets,      \* [PocketIds -> status of the child account in the core]
    purposes      \* pockets.pockets: pocket -> purpose, at most one of them "card"

pocketVars == <<pockets, purposes>>

InitPockets == pockets = [p \in PocketIds |-> "none"] /\ purposes = << >>

Purposes == {"card", "general"}
Listed == {p \in PocketIds : pockets[p] = "open"}
PurposeOf(p) == IF p \in DOMAIN purposes THEN purposes[p] ELSE "general"
CardPocket == {p \in Listed : PurposeOf(p) = "card"}

(* Open goes by the pockets there are when it begins.                         *)
Open(purpose) == /\ Cardinality(Listed) < MaxPockets
                 /\ purpose = "card" => CardPocket = {}

handleOpenPocket(h, purpose) ==
    /\ Open(purpose)
    /\ Start(h, [at |-> "open_pocket", purpose |-> purpose])
    /\ UNCHANGED <<core, pocketVars>>

(* A new code every time: a call that is repeated opens another pocket.       *)
OpenPocket(h, p) ==
    /\ call[h].at = "open_pocket" /\ pockets[p] = "none"
    /\ pockets' = [pockets EXCEPT ![p] = "open"]
    /\ \/ Goto(h, [at |-> "insert_pocket", purpose |-> call[h].purpose, pocket |-> p])
       \/ Return(h)
    /\ UNCHANGED <<core, purposes>>

(* Slip: nothing keeps the card to one pocket.                               *)
NeverTaken(purpose) == FALSE

Taken(purpose) == purpose = "card" /\ \E p \in DOMAIN purposes : purposes[p] = "card"

(* The row, a duplicate of the card's, or an error that leaves the pocket     *)
(* open and its row written or not.                                           *)
InsertPocket(h) ==
    LET t == call[h]
        after == IF Taken(t.purpose) THEN purposes ELSE Insert(purposes, t.pocket, t.purpose)
    IN
    /\ t.at = "insert_pocket"
    /\ \/ purposes' = after
          /\ IF Taken(t.purpose) THEN Goto(h, [t EXCEPT !.at = "undo_pocket"]) ELSE Return(h)
       \/ purposes' \in {purposes, after} /\ Return(h)
    /\ UNCHANGED <<core, pockets>>

(* The core closes an empty pocket and no other; what may slip in while it    *)
(* does is LedgerSessions' business.                                          *)
Closed(p) == IF Balance(p) = 0 THEN [pockets EXCEPT ![p] = "closed"] ELSE pockets

UndoOpen(h) ==
    /\ call[h].at = "undo_pocket"
    /\ pockets' \in {pockets, Closed(call[h].pocket)}
    /\ Return(h)
    /\ UNCHANGED <<core, purposes>>

owned(p) == pockets[p] = "open"

handlePocketMove(h, p, n, in, x) ==
    /\ owned(p) /\ x > 0
    /\ Start(h, [at |-> "move_pocket", key |-> <<"pocket", p, n>>, amount |-> x,
                 from |-> IF in THEN Main ELSE p, to |-> IF in THEN p ELSE Main])
    /\ UNCHANGED <<core, pocketVars>>

PostPocketMove(h) ==
    LET t == call[h]
        closed == \E p \in {t.from, t.to} \cap PocketIds : pockets[p] = "closed"
    IN
    /\ t.at = "move_pocket"
    /\ IF closed /\ t.key \notin DOMAIN core THEN UNCHANGED core
       ELSE \E got \in Answers : MovePocket(t.key, t.from, t.to, t.amount, got)
    /\ Return(h)
    /\ UNCHANGED pocketVars

(* The balance is read, moved out under the one key a pocket closes with, the *)
(* account closed and its row deleted: four calls, any of which may be last.  *)
handleClosePocket(h, p) ==
    /\ owned(p)
    /\ Start(h, [at |-> IF Balance(p) > 0 THEN "empty_pocket" ELSE "close_pocket",
                 pocket |-> p, amount |-> Balance(p)])
    /\ UNCHANGED <<core, pocketVars>>

EmptyPocket(h) ==
    LET t == call[h] IN
    /\ t.at = "empty_pocket"
    /\ IF pockets[t.pocket] = "closed" /\ <<"close", t.pocket>> \notin DOMAIN core
       THEN UNCHANGED core /\ Return(h)
       ELSE \E got \in Answers :
               /\ MovePocket(<<"close", t.pocket>>, t.pocket, Main, t.amount, got)
               /\ IF Ok(got) THEN Goto(h, [t EXCEPT !.at = "close_pocket"]) ELSE Return(h)
    /\ UNCHANGED pocketVars

ClosePocket(h) ==
    LET t == call[h] IN
    /\ t.at = "close_pocket"
    /\ pockets' \in {pockets, Closed(t.pocket)}
    /\ \/ pockets'[t.pocket] = "closed" /\ Goto(h, [t EXCEPT !.at = "delete_pocket"])
       \/ Return(h)
    /\ UNCHANGED <<core, purposes>>

DeletePocket(h) ==
    LET p == call[h].pocket IN
    /\ call[h].at = "delete_pocket"
    /\ purposes' \in {purposes, [q \in DOMAIN purposes \ {p} |-> purposes[q]]}
    /\ Return(h)
    /\ UNCHANGED <<core, pockets>>

NextPockets ==
    \E h \in Calls :
        \/ \E purpose \in Purposes : handleOpenPocket(h, purpose)
        \/ \E p \in PocketIds :
              \/ OpenPocket(h, p) \/ handleClosePocket(h, p)
              \/ \E n \in PocketOrders, in \in BOOLEAN, x \in 1..2 : handlePocketMove(h, p, n, in, x)
        \/ InsertPocket(h) \/ UndoOpen(h) \/ PostPocketMove(h)
        \/ EmptyPocket(h) \/ ClosePocket(h) \/ DeletePocket(h)

-----------------------------------------------------------------------------
(* One pocket pays the card, however many were opened for it at once, and so  *)
(* the reserve the forecast counts is one (CardPocket, idx_pockets_card).     *)
OneCardPocket == Cardinality(CardPocket) <= 1
=============================================================================
