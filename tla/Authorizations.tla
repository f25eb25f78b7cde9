--------------------------- MODULE Authorizations ---------------------------
(* Authorizations, core/src/authorizations.rs with core/migrations/0006: money *)
(* is held for a payee, then captured, or released back to the payer; what was *)
(* captured can be refunded in parts.  Every operation is one database         *)
(* transaction under SELECT ... FOR UPDATE of the authorization's row, in      *)
(* which the posting and the change of status commit together.                 *)
EXTENDS Posting

CONSTANTS
    Keys,      \* idempotency keys; a key is also the id of the row it creates
    Commands,  \* what clients ask for: [payer, payee, amount, ttl]
    Holds,     \* the liability account where held money waits
    MaxTime    \* bound on the clock

ASSUME AuthorizationsAssumption ==
    /\ Holds \in Internals
    /\ MaxTime \in Nat
    /\ \A c \in Commands : /\ c.payer \in Customers /\ c.payee \in Customers
                           /\ c.payer # c.payee       \* validate
                           /\ c.amount \in Nat \ {0}
                           /\ c.ttl \in Nat \ {0}
    /\ \A m \in Movements : Holds \notin {m.from, m.to}

VARIABLES
    auth,  \* the authorizations table
    now    \* Utc::now()

authVars == <<posted, balance, closed, auth, now>>

Live     == {"AUTHORIZED"}
Captured == {"CAPTURED", "PARTIALLY_REFUNDED", "REFUNDED"}
Statuses == {"ABSENT", "RELEASED"} \cup Live \cup Captured

(* A key that has no row yet.                                                  *)
Absent == [status |-> "ABSENT", payer |-> Holds, payee |-> Holds,
           amount |-> 0, refunded |-> 0, expires |-> 0]

Exists(k) == auth[k].status # "ABSENT"

HoldOf(k, c) == [kind |-> "authorization_hold", ref |-> k, seq |-> 0,
                 from |-> c.payer, to |-> Holds, amount |-> c.amount]
(* Slip: a capture charges the payer again instead of the hold.                *)
CaptureOfPayer(k) == [kind |-> "authorization_capture", ref |-> k, seq |-> 0,
                      from |-> auth[k].payer, to |-> auth[k].payee,
                      amount |-> auth[k].amount]

CaptureOf(k) == [kind |-> "authorization_capture", ref |-> k, seq |-> 0,
                 from |-> Holds, to |-> auth[k].payee, amount |-> auth[k].amount]
ReleaseOf(k) == [kind |-> "authorization_release", ref |-> k, seq |-> 0,
                 from |-> Holds, to |-> auth[k].payer, amount |-> auth[k].amount]

(* Slip: one key for all the refunds of an authorization.                      *)
RefundOfOneKey(k, x) == [kind |-> "authorization_refund", ref |-> k, seq |-> 0,
                         from |-> auth[k].payee, to |-> auth[k].payer, amount |-> x]

RefundOf(k, x) == [kind |-> "authorization_refund", ref |-> k,
                   seq |-> auth[k].refunded,
                   from |-> auth[k].payee, to |-> auth[k].payer, amount |-> x]

(* command_hash covers accounts, amount and currency, not the ttl.             *)
SameCommand(k, c) ==
    /\ auth[k].payer = c.payer
    /\ auth[k].payee = c.payee
    /\ auth[k].amount = c.amount

-----------------------------------------------------------------------------
Init ==
    /\ LedgerInit
    /\ auth = [k \in Keys |-> Absent]
    /\ now = 0

Tick ==
    /\ now < MaxTime
    /\ now' = now + 1
    /\ UNCHANGED <<ledgerVars, auth>>

(* authorize_in_tx past the idempotency check: both accounts are operative,    *)
(* the hold is posted and the row inserted.                                    *)
Authorize(k, c) ==
    /\ ~Exists(k)
    /\ {c.payer, c.payee} \cap closed = {}
    /\ Post(HoldOf(k, c))
    /\ auth' = [auth EXCEPT ![k] =
                  [status |-> "AUTHORIZED", payer |-> c.payer, payee |-> c.payee,
                   amount |-> c.amount, refunded |-> 0, expires |-> now + c.ttl]]
    /\ UNCHANGED <<closed, now>>

(* Slip: whatever has been authorized is captured again.                       *)
CaptureAnyStatus(k) ==
    /\ Exists(k)
    /\ auth[k].expires > now
    /\ Post(CaptureOf(k))
    /\ auth' = [auth EXCEPT ![k].status = "CAPTURED"]
    /\ UNCHANGED <<closed, now>>

(* Slip: at the very instant it expires, a hold is still captured.             *)
CaptureAtExpiry(k) ==
    /\ auth[k].status = "AUTHORIZED"
    /\ auth[k].expires >= now
    /\ Post(CaptureOf(k))
    /\ auth' = [auth EXCEPT ![k].status = "CAPTURED"]
    /\ UNCHANGED <<closed, now>>

(* capture: a live hold that has not expired.  A captured one is answered as   *)
(* it stands, a released or expired one is an error: neither is a step.        *)
Capture(k) ==
    /\ auth[k].status = "AUTHORIZED"
    /\ auth[k].expires > now
    /\ Post(CaptureOf(k))
    /\ auth' = [auth EXCEPT ![k].status = "CAPTURED"]
    /\ UNCHANGED <<closed, now>>

Refundable(k) == auth[k].amount - auth[k].refunded

(* refund of x, the remainder when the client names no amount.                 *)
Refund(k, x) ==
    /\ auth[k].status \in {"CAPTURED", "PARTIALLY_REFUNDED"}
    /\ x > 0
    /\ x <= Refundable(k)
    /\ Post(RefundOf(k, x))
    /\ auth' = [auth EXCEPT
                  ![k].refunded = @ + x,
                  ![k].status = IF x = Refundable(k) THEN "REFUNDED"
                                ELSE "PARTIALLY_REFUNDED"]
    /\ UNCHANGED <<closed, now>>

(* release: any live hold; the handler itself asks nothing of the expiry.      *)
Release(k) ==
    /\ auth[k].status = "AUTHORIZED"
    /\ Post(ReleaseOf(k))
    /\ auth' = [auth EXCEPT ![k].status = "RELEASED"]
    /\ UNCHANGED <<closed, now>>

(* What release_expired selects.  No other caller of release exists, and an     *)
(* authorization that has expired stays expired.                               *)
Expired(k) == auth[k].status = "AUTHORIZED" /\ auth[k].expires <= now

Amounts(k) == 1 .. auth[k].amount

AuthNext ==
    \/ Tick
    \/ LedgerNext /\ UNCHANGED <<auth, now>>
    \/ \E k \in Keys :
          \/ \E c \in Commands : Authorize(k, c)
          \/ Capture(k)
          \/ \E x \in Amounts(k) : Refund(k, x)
          \/ Expired(k) /\ Release(k)

Spec == Init /\ [][AuthNext]_authVars
-----------------------------------------------------------------------------
Postings(kinds) ==
    [kind : kinds, ref : Keys \cup MovementKeys, seq : Nat,
     from : Accounts, to : Accounts, amount : Nat \ {0}]

AuthKinds == {"authorization_hold", "authorization_capture",
              "authorization_release", "authorization_refund"}

(* The type invariant.                                                         *)
TypeOK ==
    /\ posted \subseteq Postings(AuthKinds \cup {"transfer", "pocket_transfer"})
    /\ balance \in [Accounts -> Int]
    /\ closed \subseteq Pockets
    /\ auth \in [Keys -> [status : Statuses, payer : Accounts, payee : Accounts,
                          amount : Nat, refunded : Nat, expires : Nat]]
    /\ now \in Nat

Has(kind, k) == \E p \in posted : p.kind = kind /\ p.ref = k

StatusMatches(k) ==
    /\ Has("authorization_hold", k) <=> Exists(k)
    /\ Has("authorization_capture", k) <=> auth[k].status \in Captured
    /\ Has("authorization_release", k) <=> auth[k].status = "RELEASED"
    /\ Has("authorization_refund", k) <=>
          auth[k].status \in {"PARTIALLY_REFUNDED", "REFUNDED"}
    /\ \A p \in posted :
          p.ref = k /\ p.kind \in AuthKinds \ {"authorization_refund"} =>
             p.amount = auth[k].amount

(* Exactly-once settlement.  The status of an authorization says which postings *)
(* the append-only ledger holds for it, each of the whole amount: a capture and  *)
(* a release of one hold can never both exist, whatever order captures, retries  *)
(* and the sweeper come in.                                                      *)
StatusMatchesLedger == \A k \in Keys : StatusMatches(k)

RefundsOf(k) == {p \in posted : p.kind = "authorization_refund" /\ p.ref = k}

Chained(k) ==
    /\ auth[k].refunded <= auth[k].amount
    /\ auth[k].status = "REFUNDED" <=> Exists(k) /\ auth[k].refunded = auth[k].amount
    /\ auth[k].refunded > 0 => \E p \in RefundsOf(k) : p.seq = 0
    /\ \A p \in RefundsOf(k) :
          \/ p.seq + p.amount = auth[k].refunded
          \/ /\ p.seq + p.amount < auth[k].refunded
             /\ \E q \in RefundsOf(k) : q.seq = p.seq + p.amount

(* The refunds of an authorization form a chain: each starts at the sum the      *)
(* earlier ones gave back, and the last one ends at refunded_micros, which never *)
(* exceeds the amount captured.  A refund replayed or lost would break it.       *)
RefundsChain == \A k \in Keys : Chained(k)

LiveHolds == {k \in Keys : auth[k].status = "AUTHORIZED"}

(* The holds account owes exactly the live authorizations: money held is never   *)
(* spent twice and none of it is left behind.                                    *)
HoldsCoverLive ==
    balance[Holds] = SumFunction([k \in LiveHolds |-> auth[k].amount])

(* Where the money of k is, read off the ledger alone.                          *)
Stage(k) ==
    IF Has("authorization_release", k) THEN "returned"
    ELSE IF Has("authorization_capture", k) THEN "paid"
    ELSE IF Has("authorization_hold", k) THEN "held"
    ELSE "none"

E == INSTANCE Escrow WITH
        stage    <- [k \in Keys |-> Stage(k)],
        amount   <- [k \in Keys |-> auth[k].amount],
        back     <- [k \in Keys |-> auth[k].refunded],
        deadline <- [k \in Keys |-> auth[k].expires],
        clock    <- now

(* The postings of every authorization keep the promise of Escrow: paid before   *)
(* the expiry or returned after it, once, and refunded no further than paid.     *)
KeepsEscrow == E!Spec
=============================================================================
