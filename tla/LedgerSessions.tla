---------------------------- MODULE LedgerSessions ----------------------------
(* How database sessions come to commit the postings of module Posting: the    *)
(* statements of post_in_tx (core/src/posting.rs) and close_pocket             *)
(* (core/src/accounts.rs) interleaved under READ COMMITTED.  A row of          *)
(* account_balances is locked by the first UPDATE until its session ends;      *)
(* deferred triggers run at COMMIT; what a session reads without a lock is what *)
(* was committed when it read.                                                  *)
EXTENDS Posting, Sequences

CONSTANTS
    Sessions,  \* connections of the core's pool, each serving one request
    Rank       \* the place of each account in the order of ids

ASSUME SessionsAssumption ==
    /\ IsFiniteSet(Accounts)
    /\ Rank \in [Accounts -> 1 .. Cardinality(Accounts)]
    /\ \A a, b \in Accounts : Rank[a] = Rank[b] => a = b

VARIABLE session

sessionVars == <<posted, balance, closed, session>>

None == [kind |-> "none"]
Idle == [pc |-> "idle", posting |-> None, todo |-> <<>>, locked |-> {}]

PostingOf(key, m) == [kind |-> m.kind, ref |-> key, seq |-> 0,
                      from |-> m.from, to |-> m.to, amount |-> m.amount]
Requests == {PostingOf(key, m) : key \in MovementKeys, m \in Movements}

(* Slip: the entries are inserted in the order the request gives them.          *)
Unsorted(p) == <<p.from, p.to>>

(* insert_entries sorts by account, so every session locks rows in one order.   *)
InOrder(p) == IF Rank[p.from] < Rank[p.to] THEN <<p.from, p.to>> ELSE <<p.to, p.from>>

(* Sessions that have inserted a ledger_transactions row and not ended.         *)
HoldsKey(s) == session[s].pc \in {"entry", "update", "check", "commit"}

KeyHolders(s) ==
    {t \in Sessions \ {s} : /\ HoldsKey(t)
                            /\ SameKey(session[t].posting, session[s].posting)}
RowHolders(s, a) == {t \in Sessions \ {s} : a \in session[t].locked}

-----------------------------------------------------------------------------
SessionsInit ==
    /\ LedgerInit
    /\ session = [s \in Sessions |-> Idle]

End(s) == session' = [session EXCEPT ![s] = Idle]

Begin(s, p) ==
    /\ session[s].pc = "idle"
    /\ session' = [session EXCEPT ![s].pc = "key", ![s].posting = p]
    /\ UNCHANGED ledgerVars

(* Slips: the session does not wait for the one that holds the key; it does not *)
(* see that the key is taken.                                                   *)
InsertNoWait(s) ==
    LET p == session[s].posting IN
    /\ session[s].pc = "key"
    /\ ~KeyUsed(p)
    /\ session' = [session EXCEPT ![s].pc = "entry", ![s].todo = InOrder(p)]
    /\ UNCHANGED ledgerVars

InsertAgain(s) ==
    LET p == session[s].posting IN
    /\ session[s].pc = "key"
    /\ KeyHolders(s) = {}
    /\ session' = [session EXCEPT ![s].pc = "entry", ![s].todo = InOrder(p)]
    /\ UNCHANGED ledgerVars

(* INSERT ... ON CONFLICT DO NOTHING waits for the session that holds the key.  *)
InsertTransaction(s) ==
    LET p == session[s].posting IN
    /\ session[s].pc = "key"
    /\ KeyHolders(s) = {}
    /\ ~KeyUsed(p)
    /\ session' = [session EXCEPT ![s].pc = "entry", ![s].todo = InOrder(p)]
    /\ UNCHANGED ledgerVars

(* The key is taken: the original is returned, or the conflict reported.        *)
FindByKey(s) ==
    /\ session[s].pc = "key"
    /\ KeyHolders(s) = {}
    /\ KeyUsed(session[s].posting)
    /\ End(s)
    /\ UNCHANGED ledgerVars

(* ledger_check_entry_account, BEFORE INSERT: an unlocked read of the status.   *)
CheckEntry(s) ==
    /\ session[s].pc = "entry"
    /\ \/ /\ Head(session[s].todo) \notin closed
          /\ session' = [session EXCEPT ![s].pc = "update"]
       \/ /\ Head(session[s].todo) \in closed
          /\ End(s)
    /\ UNCHANGED ledgerVars

(* Slip: the UPDATE takes no lock.                                              *)
ApplyEntryUnlocked(s) ==
    LET a == Head(session[s].todo) IN
    /\ session[s].pc = "update"
    /\ session' = [session EXCEPT
                     ![s].todo = Tail(@),
                     ![s].locked = @ \cup {a},
                     ![s].pc = IF Len(session[s].todo) = 1 THEN "check" ELSE "entry"]
    /\ UNCHANGED ledgerVars

(* apply_entry_to_balance, AFTER INSERT: the UPDATE waits for the row's lock.   *)
ApplyEntry(s) ==
    LET a == Head(session[s].todo) IN
    /\ session[s].pc = "update"
    /\ RowHolders(s, a) = {}
    /\ session' = [session EXCEPT
                     ![s].todo = Tail(@),
                     ![s].locked = @ \cup {a},
                     ![s].pc = IF Len(session[s].todo) = 1 THEN "check" ELSE "entry"]
    /\ UNCHANGED ledgerVars

(* check_account_limits, when COMMIT runs the deferred triggers.                *)
CheckLimits(s) ==
    LET p == session[s].posting IN
    /\ session[s].pc = "check"
    /\ \/ /\ StaysInFamily(p) /\ WithinLimits(p, Moved(p))
          /\ session' = [session EXCEPT ![s].pc = "commit"]
       \/ /\ ~(StaysInFamily(p) /\ WithinLimits(p, Moved(p)))
          /\ End(s)
    /\ UNCHANGED ledgerVars

Commit(s) ==
    LET p == session[s].posting IN
    /\ session[s].pc = "commit"
    /\ posted' = posted \cup {p}
    /\ balance' = Moved(p)
    /\ End(s)
    /\ UNCHANGED closed

(* Slips: the balance is read without FOR UPDATE; the account is no pocket.     *)
LockPocketUnlocked(s, a) ==
    /\ session[s].pc = "idle"
    /\ a \in Pockets
    /\ balance[a] = 0
    /\ session' = [session EXCEPT ![s].pc = "close", ![s].locked = {a}]
    /\ UNCHANGED ledgerVars

(* close_pocket: SELECT ... FOR UPDATE OF the balance row, which must be zero.  *)
LockPocket(s, a) ==
    /\ session[s].pc = "idle"
    /\ a \in Pockets
    /\ RowHolders(s, a) = {}
    /\ balance[a] = 0
    /\ session' = [session EXCEPT ![s].pc = "close", ![s].locked = {a}]
    /\ UNCHANGED ledgerVars

CommitClose(s) ==
    /\ session[s].pc = "close"
    /\ closed' = closed \cup session[s].locked
    /\ End(s)
    /\ UNCHANGED <<posted, balance>>

(* The process dies, the connection is lost, a statement is refused.            *)
Rollback(s) ==
    /\ session[s].pc # "idle"
    /\ End(s)
    /\ UNCHANGED ledgerVars

SessionsNext ==
    \E s \in Sessions :
        \/ \E p \in Requests : Begin(s, p)
        \/ InsertTransaction(s) \/ FindByKey(s)
        \/ CheckEntry(s) \/ ApplyEntry(s)
        \/ CheckLimits(s) \/ Commit(s)
        \/ \E a \in Accounts : LockPocket(s, a)
        \/ CommitClose(s)
        \/ Rollback(s)

SessionsSpec == SessionsInit /\ [][SessionsNext]_sessionVars
-----------------------------------------------------------------------------
SessionRecords ==
    [pc : {"idle", "key", "entry", "update", "check", "commit", "close"},
     posting : Requests \cup {None},
     todo : Seq(Accounts),
     locked : SUBSET Accounts]

(* The type invariant.                                                          *)
SessionsTypeOK ==
    /\ posted \subseteq Requests
    /\ balance \in [Accounts -> Int]
    /\ closed \subseteq Pockets
    /\ session \in [Sessions -> SessionRecords]

(* Whatever sessions do at once, no customer's account is overdrawn: the check  *)
(* runs on a balance nobody else can change before the commit.                  *)
NoOverdraft == \A a \in Customers : balance[a] >= 0

(* One idempotency key is one posting, even when two sessions serve it at once.  *)
OncePerKey == \A p, q \in posted : SameKey(p, q) => p = q

Blocked(s) ==
    \/ session[s].pc = "key" /\ KeyHolders(s) # {}
    \/ session[s].pc = "update" /\ RowHolders(s, Head(session[s].todo)) # {}

(* Locks are taken in one order (insert_entries), so of the sessions at work one *)
(* can always go on: crossed transfers never wait for each other in a circle.   *)
SomeoneProceeds ==
    LET busy == {s \in Sessions : session[s].pc # "idle"} IN
    busy # {} => \E s \in busy : ~Blocked(s)

Alone(a) == a \in Customers => Members(Family[a]) = {a}

(* For accounts without pockets a commit is exactly one atomic step of Posting,   *)
(* and a pocket closes as there: the sessions are serializable.  For an account   *)
(* with pockets the commit may rest on a sibling's balance or a status that has   *)
(* changed since it was read.                                                     *)
CommitsAreAtomic ==
    [][\/ LedgerNext
       \/ \E p \in Requests :
             /\ ~Alone(p.from) \/ ~Alone(p.to)
             /\ ~KeyUsed(p)
             /\ posted' = posted \cup {p} /\ balance' = Moved(p)
             /\ UNCHANGED closed]_ledgerVars
=============================================================================
