------------------------------ MODULE Mandates ------------------------------
(* Payment mandates, core/src/mandates.rs with core/migrations/0007: a holder  *)
(* lets an integration pay from one account, up to a cap per operation and in  *)
(* total, until it expires or is revoked.  What a mandate has consumed is not  *)
(* stored: it is derived from the authorizations linked to it.  authorize, the *)
(* operation on both, runs in one transaction that locks the mandate's row.    *)
EXTENDS Authorizations

CONSTANTS
    MandateIds,  \* ids of payment_mandates rows
    NoMandate,   \* an authorization without a row in authorization_mandates
    Grants       \* what holders grant: [account, perOperation, total, life]

ASSUME MandatesAssumption ==
    /\ NoMandate \notin MandateIds
    /\ \A g \in Grants : /\ g.account \in Customers
                         /\ g.perOperation \in Nat \ {0}  \* a huge value is NULL
                         /\ g.total \in Nat \ {0}         \* likewise
                         /\ g.life \in Nat \ {0}

VARIABLES
    mandate,  \* the payment_mandates table
    link      \* the authorization_mandates table: the mandate of each key

mandateVars == <<posted, balance, closed, auth, now, mandate, link>>

Ungranted == [status |-> "ABSENT", account |-> Holds,
              perOperation |-> 0, total |-> 0, expires |-> 0]

LinkedTo(m) == {k \in Keys : link[k] = m}

(* Slip: a released hold still counts.                                         *)
CommitsReleased(k) == auth[k].amount - auth[k].refunded

(* The view mandate_consumption.                                               *)
Commits(k) == IF auth[k].status = "RELEASED" THEN 0
              ELSE auth[k].amount - auth[k].refunded
Consumed(m) == SumFunction([k \in LinkedTo(m) |-> Commits(k)])

(* check_usable: neither revoked nor past its expiry.                          *)
Usable(m) == mandate[m].status = "ACTIVE" /\ mandate[m].expires > now

-----------------------------------------------------------------------------
MandateInit ==
    /\ Init
    /\ mandate = [m \in MandateIds |-> Ungranted]
    /\ link = [k \in Keys |-> NoMandate]

Grant(m, g) ==
    /\ mandate[m].status = "ABSENT"
    /\ g.account \notin closed
    /\ mandate' = [mandate EXCEPT ![m] =
                     [status |-> "ACTIVE", account |-> g.account,
                      perOperation |-> g.perOperation, total |-> g.total,
                      expires |-> now + g.life]]
    /\ UNCHANGED <<authVars, link>>

Revoke(m) ==
    /\ mandate[m].status = "ACTIVE"
    /\ mandate' = [mandate EXCEPT ![m].status = "REVOKED"]
    /\ UNCHANGED <<authVars, link>>

(* Slips: the total cap is held against this payment alone, the cap per        *)
(* operation is not looked at, a dead mandate pays.                            *)
AllowsTotalOfOne(m, c) ==
    /\ Usable(m)
    /\ mandate[m].account = c.payer
    /\ c.amount <= mandate[m].perOperation
    /\ c.amount <= mandate[m].total

AllowsDead(m, c) ==
    /\ mandate[m].status # "ABSENT"
    /\ mandate[m].account = c.payer
    /\ c.amount <= mandate[m].perOperation
    /\ c.amount <= mandate[m].total - Consumed(m)

(* What authorize asks of the mandate, before it looks at the idempotency key. *)
Allows(m, c) ==
    /\ Usable(m)
    /\ mandate[m].account = c.payer
    /\ c.amount <= mandate[m].perOperation
    /\ c.amount <= mandate[m].total - Consumed(m)

(* authorize: a new hold, or the replay of an earlier one with the same content. *)
(* Both record the link; ON CONFLICT leaves the link that was there.             *)
PayUnderMandate(m, k, c) ==
    /\ Allows(m, c)
    /\ \/ Authorize(k, c)
       \/ Exists(k) /\ SameCommand(k, c) /\ UNCHANGED authVars
    /\ link' = [link EXCEPT ![k] = IF @ = NoMandate THEN m ELSE @]
    /\ UNCHANGED mandate

MandateNext ==
    \/ AuthNext /\ UNCHANGED <<mandate, link>>
    \/ \E m \in MandateIds :
          \/ \E g \in Grants : Grant(m, g)
          \/ Revoke(m)
          \/ \E k \in Keys, c \in Commands : PayUnderMandate(m, k, c)

MandateSpec == MandateInit /\ [][MandateNext]_mandateVars

-----------------------------------------------------------------------------
(* The type invariant.                                                         *)
MandatesTypeOK ==
    /\ mandate \in [MandateIds -> [status : {"ABSENT", "ACTIVE", "REVOKED"},
                                   account : Accounts, perOperation : Nat,
                                   total : Nat, expires : Nat]]
    /\ \A m \in MandateIds :
          mandate[m].status # "ABSENT" => mandate[m].account \in Customers
    /\ link \in [Keys -> MandateIds \cup {NoMandate}]

(* What is committed under a mandate never exceeds what its holder granted, in  *)
(* whatever order payments, replays under another mandate, captures, refunds    *)
(* and releases come: each of them moves the derived consumption.               *)
CapRespected == \A m \in MandateIds : Consumed(m) <= mandate[m].total

Sum(kind, keys) == Total({p \in posted : p.kind = kind /\ p.ref \in keys})

(* The derived consumption is the holder's money still out under the mandate, as *)
(* the ledger has it: held, less what was released and what was refunded.        *)
ConsumptionIsMoneyOut ==
    \A m \in MandateIds :
        Consumed(m) = Sum("authorization_hold", LinkedTo(m))
                      - Sum("authorization_release", LinkedTo(m))
                      - Sum("authorization_refund", LinkedTo(m))

(* A linked authorization pays from the mandate's account, within its cap per     *)
(* operation, even if it was first made without the mandate and linked by a retry. *)
LinksWithinGrant ==
    \A k \in Keys : link[k] # NoMandate =>
        LET m == mandate[link[k]] IN
        /\ m.status # "ABSENT"
        /\ auth[k].payer = m.account
        /\ auth[k].amount <= m.perOperation

(* Once revoked or expired, a mandate takes on no payment, and what was held under *)
(* it, which can still be captured, only ever frees some of the cap.               *)
DeadMandatesShrink ==
    [][\A m \in MandateIds : ~Usable(m) =>
          /\ LinkedTo(m)' = LinkedTo(m)
          /\ \A k \in LinkedTo(m) : Commits(k)' <= Commits(k)]_mandateVars
=============================================================================
