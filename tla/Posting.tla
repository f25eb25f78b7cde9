------------------------------ MODULE Posting ------------------------------
(* The committed state of the core's ledger, core/src/posting.rs with the      *)
(* triggers of core/migrations/0001, 0002 and 0012: postings under unique      *)
(* idempotency keys, the balances they materialise, the limits checked when a  *)
(* transaction commits, and pockets, which are child accounts that can close.  *)
(*                                                                             *)
(* A posting here has two entries, a debit of `from` and a credit of `to`, as  *)
(* every posting of the authorizations, the mandates and the pockets has.  A   *)
(* balance is credits minus debits: the natural balance of every liability     *)
(* (customer accounts and the holds account), its negation for cash.           *)
(* One step is one database transaction that commits; one that fails changes   *)
(* nothing and is no step.  What the row locks have to do for that to be sound *)
(* is the subject of LedgerSessions.                                           *)
EXTENDS Integers, FiniteSets, Functions

CONSTANTS
    Customers,       \* customer accounts and their pockets
    Internals,       \* the bank's own accounts, which may be overdrawn
    Family,          \* [Customers -> Customers]: an account's parent, or itself
    Opening,         \* [Customers -> Nat]: balance before the first modelled posting
    MaxBalance,      \* per family: products.max_balance_micros (a huge value is NULL)
    MaxTransaction,  \* per family: products.max_transaction_micros
    Movements,       \* the transfers customers ask for: [kind, from, to, amount]
    MovementKeys     \* the idempotency keys they use

Accounts == Customers \cup Internals
Pockets  == {a \in Customers : Family[a] # a}

ASSUME PostingAssumption ==
    /\ Customers \cap Internals = {}
    /\ Family \in [Customers -> Customers]
    /\ \A a \in Customers : Family[Family[a]] = Family[a]  \* no pockets of pockets
    /\ Opening \in [Customers -> Nat]
    /\ MaxBalance \in [Customers -> Nat]
    /\ MaxTransaction \in [Customers -> Nat]
    /\ \A m \in Movements : /\ m.kind \in {"transfer", "pocket_transfer"}
                            /\ m.from \in Accounts /\ m.to \in Accounts
                            /\ m.from # m.to
                            /\ m.amount \in Nat \ {0}

VARIABLES
    posted,   \* the ledger_transactions table: a set of postings
    balance,  \* the account_balances table
    closed    \* the pockets whose account is CLOSED

ledgerVars == <<posted, balance, closed>>

-----------------------------------------------------------------------------
(* An idempotency key is a prefix, the id it is built from and, for refunds,  *)
(* the amount refunded before: "auth-refund-{id}-{refunded}".                 *)
SameKey(p, q) == p.kind = q.kind /\ p.ref = q.ref /\ p.seq = q.seq

KeyUsed(p) == \E q \in posted : SameKey(p, q)

Moved(p) == [balance EXCEPT ![p.from] = @ - p.amount, ![p.to] = @ + p.amount]

(* An account and its pockets.                                                 *)
Members(f) == {a \in Customers : Family[a] = f}

FamilyBalance(bal, f) == SumFunction(Restrict(bal, Members(f)))

(* check_account_limits, for each of the two entries of the posting.          *)
WithinLimits(p, after) ==
    \A a \in {p.from, p.to} \cap Customers :
        /\ after[a] >= 0
        /\ FamilyBalance(after, Family[a]) <= MaxBalance[Family[a]]
        /\ p.kind # "pocket_transfer" => p.amount <= MaxTransaction[Family[a]]

(* A pocket_transfer stays in one family (AB013).                             *)
StaysInFamily(p) ==
    p.kind = "pocket_transfer" =>
        /\ {p.from, p.to} \subseteq Customers
        /\ Family[p.from] = Family[p.to]

Replays(p) == p \in posted

Accepted(p) ==
    /\ ~KeyUsed(p)
    /\ {p.from, p.to} \cap closed = {}
    /\ StaysInFamily(p)
    /\ WithinLimits(p, Moved(p))

(* post_in_tx followed by the commit of its caller succeeds: a new key whose   *)
(* posting passes every trigger, or a key already posted with the same         *)
(* content.  A used key with other content is an IdempotencyConflict.          *)
CanPost(p) == Replays(p) \/ Accepted(p)

Post(p) ==
    /\ CanPost(p)
    /\ posted' = posted \cup {p}
    /\ balance' = IF Replays(p) THEN balance ELSE Moved(p)

-----------------------------------------------------------------------------
LedgerInit ==
    /\ posted = {}
    /\ balance = [a \in Accounts |-> IF a \in Customers THEN Opening[a] ELSE 0]
    /\ closed = {}

(* PostTransaction from a client: a deposit, a payment or a pocket movement.   *)
Move(key, m) ==
    /\ Post([kind |-> m.kind, ref |-> key, seq |-> 0,
             from |-> m.from, to |-> m.to, amount |-> m.amount])
    /\ UNCHANGED closed

(* close_pocket: an empty pocket, whatever is still held on its behalf.        *)
ClosePocket(a) ==
    /\ a \in Pockets
    /\ balance[a] = 0
    /\ closed' = closed \cup {a}
    /\ UNCHANGED <<posted, balance>>

LedgerNext ==
    \/ \E key \in MovementKeys, m \in Movements : Move(key, m)
    \/ \E a \in Accounts : ClosePocket(a)

-----------------------------------------------------------------------------
Total(P)   == SumFunction([p \in P |-> p.amount])
Credits(a) == Total({p \in posted : p.to = a})
Debits(a)  == Total({p \in posted : p.from = a})

(* The materialised balance of every account is the projection of its entries *)
(* (account_balance_projection, 0002): an idempotent replay of a posting that  *)
(* moved the balance again would part them.                                    *)
BalanceIsProjection ==
    \A a \in Accounts :
        balance[a] = (IF a \in Customers THEN Opening[a] ELSE 0)
                     + Credits(a) - Debits(a)
=============================================================================
