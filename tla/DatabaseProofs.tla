---------------------------- MODULE DatabaseProofs ----------------------------
(* Proofs about what the core leaves to its database: the sessions that post      *)
(* under row locks (LedgerSessions), the relay that reads the outbox (Relay), and *)
(* the statements of a card, which are read from what has committed (CreditCycle).*)
EXTENDS LedgerSessions, Relay, CreditCycle, Sums, FiniteSetTheorems, TLAPS

(******************************************************************************)
(* LedgerSessions: for any number of sessions, accounts, keys and movements,  *)
(* row locks keep every customer's balance from going negative, and taking    *)
(* them in one order keeps sessions from waiting in a circle.                 *)
(******************************************************************************)
Working == {"entry", "update", "check", "commit"}

First(p)  == IF Rank[p.from] < Rank[p.to] THEN p.from ELSE p.to
Second(p) == IF Rank[p.from] < Rank[p.to] THEN p.to ELSE p.from

(* What the check of the deferred triggers is still worth at the commit: for an *)
(* account alone in its family every limit, for any customer's its balance.     *)
StillWithin(p) ==
    \A a \in {p.from, p.to} \cap Customers :
        /\ Moved(p)[a] >= 0
        /\ Alone(a) => FamilyBalance(Moved(p), Family[a]) <= MaxBalance[Family[a]]
        /\ p.kind # "pocket_transfer" => p.amount <= MaxTransaction[Family[a]]

(* How far a session is, and which rows it has locked by then.                  *)
Standing(s) ==
    LET pc == session[s].pc
        p == session[s].posting
        todo == session[s].todo
        locked == session[s].locked IN
    /\ pc \in {"idle", "key"} => locked = {}
    /\ pc = "key" => p \in Requests
    /\ pc \in Working => p \in Requests /\ ~KeyUsed(p)
    /\ pc \in {"entry", "update"} =>
          \/ todo = <<First(p), Second(p)>> /\ locked = {}
          \/ todo = <<Second(p)>> /\ locked = {First(p)}
    /\ pc \in {"check", "commit"} => locked = {p.from, p.to}
    /\ pc = "commit" => StaysInFamily(p) /\ StillWithin(p)
    /\ pc = "close" => \E a \in Pockets : locked = {a} /\ balance[a] = 0

Apart(s, t) ==
    /\ session[s].locked \cap session[t].locked = {}
    /\ HoldsKey(s) /\ HoldsKey(t) => ~SameKey(session[s].posting, session[t].posting)

(* The inductive invariant.                                                     *)
SInv ==
    /\ SessionsTypeOK
    /\ NoOverdraft
    /\ OncePerKey
    /\ \A s \in Sessions : Standing(s)
    /\ \A s, t \in Sessions : s # t => Apart(s, t)

-------------------------------------------------------------------------------
(* The postings asked for are well formed.                                      *)
LEMMA RequestType ==
    ASSUME NEW p \in Requests
    PROVE  /\ p.from \in Accounts /\ p.to \in Accounts /\ p.from # p.to
           /\ p.amount \in Nat /\ p.seq = 0 /\ p.ref \in MovementKeys
           /\ \E m \in Movements : p = PostingOf(p.ref, m)
BY PostingAssumption DEF Requests, PostingOf

(* The accounts of a posting in the order its entries are inserted.             *)
LEMMA Ordered ==
    ASSUME NEW p \in Requests
    PROVE  /\ InOrder(p) = <<First(p), Second(p)>>
           /\ {First(p), Second(p)} = {p.from, p.to}
           /\ First(p) \in Accounts /\ Second(p) \in Accounts
           /\ First(p) # Second(p)
           /\ Rank[First(p)] < Rank[Second(p)]
           /\ InOrder(p) \in Seq(Accounts) /\ <<Second(p)>> \in Seq(Accounts)
<1>1. p.from \in Accounts /\ p.to \in Accounts /\ p.from # p.to
  BY RequestType
<1>2. Rank[p.from] \in Int /\ Rank[p.to] \in Int /\ Rank[p.from] # Rank[p.to]
  BY <1>1, SessionsAssumption, FS_CardinalityType
<1>3. /\ InOrder(p) = <<First(p), Second(p)>>
      /\ {First(p), Second(p)} = {p.from, p.to}
      /\ First(p) \in Accounts /\ Second(p) \in Accounts
      /\ First(p) # Second(p)
      /\ Rank[First(p)] < Rank[Second(p)]
  BY <1>1, <1>2 DEF InOrder, First, Second
<1>4. \A a, b \in Accounts : <<a, b>> \in Seq(Accounts) /\ <<b>> \in Seq(Accounts)
  OBVIOUS
<1> QED BY <1>3, <1>4

(* The initial states satisfy the invariant.                                    *)
LEMMA InitSInv ==
    ASSUME SessionsInit PROVE SInv
<1> USE DEF SessionsInit, LedgerInit, Idle
<1>1. SessionsTypeOK
  BY PostingAssumption DEF SessionsTypeOK, SessionRecords, Accounts
<1>2. NoOverdraft
  BY PostingAssumption DEF NoOverdraft, Accounts
<1>3. OncePerKey
  BY DEF OncePerKey
<1>4. \A s \in Sessions : Standing(s)
  BY DEF Standing, Working
<1>5. \A s, t \in Sessions : s # t => Apart(s, t)
  BY DEF Apart, HoldsKey
<1> QED BY <1>1, <1>2, <1>3, <1>4, <1>5 DEF SInv

(* A step of one session that leaves the ledger alone.                          *)
LEMMA QuietStep ==
    ASSUME SInv, NEW s \in Sessions, UNCHANGED ledgerVars,
           NEW r \in SessionRecords, session' = [session EXCEPT ![s] = r],
           Standing(s)',
           \A t \in Sessions \ {s} : Apart(s, t)'
    PROVE  SInv'
<1>1. /\ session'[s] = r
      /\ \A t \in Sessions \ {s} : session'[t] = session[t]
      /\ UNCHANGED <<posted, balance, closed>>
  BY DEF SInv, SessionsTypeOK, ledgerVars
<1>2. SessionsTypeOK'
  BY <1>1 DEF SInv, SessionsTypeOK
<1>3. NoOverdraft' /\ OncePerKey'
  BY <1>1 DEF SInv, NoOverdraft, OncePerKey
<1>4. ASSUME NEW t \in Sessions \ {s} PROVE Standing(t)'
  <2>1. Standing(t) /\ session'[t] = session[t]
    BY <1>1, <1>4 DEF SInv
  <2> QED BY <1>1, <2>1, ZenonT(60) DEF Standing, KeyUsed, StillWithin, StaysInFamily, Moved
<1>5. ASSUME NEW t \in Sessions, NEW u \in Sessions, t # u PROVE Apart(t, u)'
  <2>1. CASE t # s /\ u # s
    BY <1>1, <1>5, <2>1 DEF SInv, Apart, HoldsKey
  <2>2. CASE t = s
    BY <1>5, <2>2
  <2>3. CASE u = s
    BY <1>5, <2>3 DEF Apart, SameKey
  <2> QED BY <2>1, <2>2, <2>3
<1> QED BY <1>2, <1>3, <1>4, <1>5 DEF SInv

(* A session that ends holds nothing.                                           *)
LEMMA EndStep ==
    ASSUME SInv, NEW s \in Sessions, End(s), UNCHANGED ledgerVars
    PROVE  SInv'
<1>1. Idle \in SessionRecords
  BY DEF Idle, SessionRecords
<1>2. session' = [session EXCEPT ![s] = Idle] /\ session'[s] = Idle
  BY DEF End, SInv, SessionsTypeOK
<1>3. Standing(s)'
  BY <1>2 DEF Standing, Idle, Working
<1>4. \A t \in Sessions \ {s} : Apart(s, t)'
  BY <1>2 DEF Apart, HoldsKey, Idle
<1> QED BY <1>1, <1>2, <1>3, <1>4, QuietStep

(* A request arrives.                                                           *)
LEMMA BeginStep ==
    ASSUME SInv, NEW s \in Sessions, NEW p \in Requests, Begin(s, p)
    PROVE  SInv'
<1> DEFINE r == [session[s] EXCEPT !.pc = "key", !.posting = p]
<1>1. session[s] \in SessionRecords /\ session[s].pc = "idle" /\ UNCHANGED ledgerVars
  BY DEF Begin, SInv, SessionsTypeOK
<1>2. r \in SessionRecords
  BY <1>1 DEF SessionRecords
<1>3. session' = [session EXCEPT ![s] = r] /\ session'[s] = r
  BY DEF Begin, SInv, SessionsTypeOK
<1>4. r.pc = "key" /\ r.posting = p /\ r.locked = {}
  <2>1. session[s].locked = {}
    BY <1>1 DEF SInv, Standing
  <2> QED BY <1>1, <2>1 DEF SessionRecords
<1> HIDE DEF r
<1>5. Standing(s)'
  BY <1>3, <1>4 DEF Standing, Working
<1>6. \A t \in Sessions \ {s} : Apart(s, t)'
  BY <1>3, <1>4 DEF Apart, HoldsKey
<1> QED BY <1>1, <1>2, <1>3, <1>5, <1>6, QuietStep

(* The key is taken: nobody else holds it, nobody has posted it.                *)
LEMMA InsertStep ==
    ASSUME SInv, NEW s \in Sessions, InsertTransaction(s)
    PROVE  SInv'
<1>1. /\ session[s] \in SessionRecords /\ session[s].pc = "key" /\ UNCHANGED ledgerVars
      /\ KeyHolders(s) = {} /\ ~KeyUsed(session[s].posting)
  BY DEF InsertTransaction, SInv, SessionsTypeOK
<1>2. PICK p \in Requests : p = session[s].posting
  BY <1>1 DEF SInv, Standing
<1>3. session[s].locked = {} /\ ~KeyUsed(p) /\ ~KeyUsed(p)'
  BY <1>1, <1>2 DEF SInv, Standing, KeyUsed, ledgerVars
<1>4. InOrder(p) = <<First(p), Second(p)>> /\ InOrder(p) \in Seq(Accounts)
  BY Ordered
<1> DEFINE r == [session[s] EXCEPT !.pc = "entry", !.todo = InOrder(p)]
<1>5. r \in SessionRecords
  BY <1>1, <1>4 DEF SessionRecords
<1>6. session' = [session EXCEPT ![s] = r] /\ session'[s] = r
  BY <1>2 DEF InsertTransaction, SInv, SessionsTypeOK
<1>7. r.pc = "entry" /\ r.posting = p /\ r.locked = {} /\ r.todo = <<First(p), Second(p)>>
  BY <1>1, <1>2, <1>3, <1>4 DEF SessionRecords
<1>8. \A t \in Sessions \ {s} : HoldsKey(t) => ~SameKey(p, session[t].posting)
  BY <1>1, <1>2 DEF KeyHolders, SameKey
<1>9. \A t \in Sessions \ {s} : session'[t] = session[t]
  BY <1>6
<1> HIDE DEF r
<1>10. Standing(s)'
  BY <1>3, <1>6, <1>7 DEF Standing, Working, KeyUsed
<1>11. \A t \in Sessions \ {s} : Apart(s, t)'
  BY <1>6, <1>7, <1>8, <1>9 DEF Apart, HoldsKey
<1> QED BY <1>1, <1>5, <1>6, <1>10, <1>11, QuietStep

(* A step that keeps the posting of a working session and locks nothing new.    *)
LEMMA WorkStep ==
    ASSUME SInv, NEW s \in Sessions, UNCHANGED ledgerVars, HoldsKey(s),
           NEW r \in SessionRecords, session' = [session EXCEPT ![s] = r],
           r.posting = session[s].posting, Standing(s)',
           \A t \in Sessions \ {s} : r.locked \cap session[t].locked = {}
    PROVE  SInv'
<1>1. session'[s] = r /\ \A t \in Sessions \ {s} : session'[t] = session[t]
  BY DEF SInv, SessionsTypeOK
<1>2. \A t \in Sessions \ {s} : Apart(s, t)'
  BY <1>1 DEF SInv, Apart, HoldsKey
<1> QED BY <1>2, QuietStep

(* The account of the next entry is not closed, or the session ends.            *)
LEMMA CheckEntryStep ==
    ASSUME SInv, NEW s \in Sessions, CheckEntry(s)
    PROVE  SInv'
<1>1. CASE End(s)
  BY <1>1, EndStep DEF CheckEntry
<1>2. CASE session' = [session EXCEPT ![s].pc = "update"]
  <2> DEFINE r == [session[s] EXCEPT !.pc = "update"]
  <2>1. session[s] \in SessionRecords /\ session[s].pc = "entry" /\ UNCHANGED ledgerVars
    BY DEF CheckEntry, SInv, SessionsTypeOK
  <2>2. r \in SessionRecords /\ session' = [session EXCEPT ![s] = r]
    BY <1>2, <2>1 DEF SessionRecords, SInv, SessionsTypeOK
  <2>3. /\ r.pc = "update" /\ r.posting = session[s].posting
        /\ r.todo = session[s].todo /\ r.locked = session[s].locked
    BY <2>1 DEF SessionRecords
  <2> HIDE DEF r
  <2>4. session'[s] = r
    BY <2>2 DEF SInv, SessionsTypeOK
  <2>5. Standing(s)'
    <3>1. Standing(s)
      BY DEF SInv
    <3> QED BY <2>1, <2>3, <2>4, <3>1 DEF Standing, Working, KeyUsed, ledgerVars
  <2>6. \A t \in Sessions \ {s} : r.locked \cap session[t].locked = {}
    BY <2>3 DEF SInv, Apart
  <2> QED BY <2>1, <2>2, <2>3, <2>5, <2>6, WorkStep DEF HoldsKey
<1> QED BY <1>1, <1>2 DEF CheckEntry

(* The row of the next entry is locked: nobody else has it.                     *)
LEMMA ApplyEntryStep ==
    ASSUME SInv, NEW s \in Sessions, ApplyEntry(s)
    PROVE  SInv'
<1>1. /\ session[s] \in SessionRecords /\ session[s].pc = "update"
      /\ UNCHANGED ledgerVars /\ RowHolders(s, Head(session[s].todo)) = {}
  BY DEF ApplyEntry, SInv, SessionsTypeOK
<1>2. PICK p \in Requests : p = session[s].posting
  BY <1>1 DEF SInv, Standing, Working
<1>3. /\ {First(p), Second(p)} = {p.from, p.to}
      /\ First(p) \in Accounts /\ Second(p) \in Accounts
  BY Ordered
<1> DEFINE a == Head(session[s].todo)
           r == [session[s] EXCEPT
                   !.todo = Tail(@),
                   !.locked = @ \cup {a},
                   !.pc = IF Len(session[s].todo) = 1 THEN "check" ELSE "entry"]
<1>4. session' = [session EXCEPT ![s] = r]
  BY DEF ApplyEntry, SInv, SessionsTypeOK
<1>5. session'[s] = r
  BY <1>4 DEF SInv, SessionsTypeOK
<1>6. ~KeyUsed(p)'
  BY <1>1, <1>2 DEF SInv, Standing, Working, KeyUsed, ledgerVars
<1>7. \A t \in Sessions \ {s} : (session[s].locked \cup {a}) \cap session[t].locked = {}
  BY <1>1 DEF RowHolders, SInv, Apart
<1>8. CASE session[s].todo = <<First(p), Second(p)>> /\ session[s].locked = {}
  <2>1. a = First(p) /\ Tail(session[s].todo) = <<Second(p)>> /\ Len(session[s].todo) = 2
    BY <1>8
  <2>2. r \in SessionRecords
    <3>0. <<>> \in Seq(Accounts)
      OBVIOUS
    <3>1. a \in Accounts /\ Tail(session[s].todo) \in Seq(Accounts)
      BY <1>3, <2>1, <3>0, Ordered
    <3> HIDE DEF a
    <3> QED BY <1>1, <3>1 DEF SessionRecords
  <2>3. /\ r.pc = "entry" /\ r.posting = p /\ r.todo = <<Second(p)>>
        /\ r.locked = {First(p)}
    BY <1>1, <1>2, <1>8, <2>1 DEF SessionRecords
  <2>4. \A t \in Sessions \ {s} : r.locked \cap session[t].locked = {}
    BY <1>7, <1>8, <2>1, <2>3
  <2> HIDE DEF r
  <2>5. Standing(s)'
    BY <1>5, <1>6, <2>3 DEF Standing, Working, KeyUsed
  <2> QED BY <1>1, <1>2, <1>4, <2>2, <2>3, <2>4, <2>5, WorkStep DEF HoldsKey
<1>9. CASE session[s].todo = <<Second(p)>> /\ session[s].locked = {First(p)}
  <2>1. a = Second(p) /\ Tail(session[s].todo) = <<>> /\ Len(session[s].todo) = 1
    BY <1>9
  <2>2. r \in SessionRecords
    <3>0. <<>> \in Seq(Accounts)
      OBVIOUS
    <3>1. a \in Accounts /\ Tail(session[s].todo) \in Seq(Accounts)
      BY <1>3, <2>1, <3>0, Ordered
    <3> HIDE DEF a
    <3> QED BY <1>1, <3>1 DEF SessionRecords
  <2>3. r.pc = "check" /\ r.posting = p /\ r.locked = {p.from, p.to}
    BY <1>1, <1>2, <1>3, <1>9, <2>1 DEF SessionRecords
  <2>4. \A t \in Sessions \ {s} : r.locked \cap session[t].locked = {}
    BY <1>3, <1>7, <1>9, <2>1, <2>3
  <2> HIDE DEF r
  <2>5. Standing(s)'
    BY <1>5, <1>6, <2>3 DEF Standing, Working, KeyUsed
  <2> QED BY <1>1, <1>2, <1>4, <2>2, <2>3, <2>4, <2>5, WorkStep DEF HoldsKey
<1> QED BY <1>1, <1>2, <1>8, <1>9 DEF SInv, Standing

(* The deferred triggers find every limit kept, or the session ends.            *)
LEMMA CheckLimitsStep ==
    ASSUME SInv, NEW s \in Sessions, CheckLimits(s)
    PROVE  SInv'
<1>1. CASE End(s)
  BY <1>1, EndStep DEF CheckLimits
<1>2. CASE /\ StaysInFamily(session[s].posting)
           /\ WithinLimits(session[s].posting, Moved(session[s].posting))
           /\ session' = [session EXCEPT ![s].pc = "commit"]
  <2>1. session[s] \in SessionRecords /\ session[s].pc = "check" /\ UNCHANGED ledgerVars
    BY DEF CheckLimits, SInv, SessionsTypeOK
  <2>2. PICK p \in Requests : p = session[s].posting
    BY <2>1 DEF SInv, Standing, Working
  <2> DEFINE r == [session[s] EXCEPT !.pc = "commit"]
  <2>3. r \in SessionRecords /\ session' = [session EXCEPT ![s] = r]
    BY <1>2, <2>1 DEF SessionRecords, SInv, SessionsTypeOK
  <2>4. /\ r.pc = "commit" /\ r.posting = p /\ r.locked = session[s].locked
    BY <2>1, <2>2 DEF SessionRecords
  <2> HIDE DEF r
  <2>5. session'[s] = r
    BY <2>3 DEF SInv, SessionsTypeOK
  <2>6. StaysInFamily(p) /\ StillWithin(p)
    BY <1>2, <2>2 DEF WithinLimits, StillWithin
  <2>7. StillWithin(p)'
    BY <2>1, <2>6 DEF StillWithin, Moved, ledgerVars
  <2>8. Standing(s)'
    <3>1. ~KeyUsed(p)' /\ r.locked = {p.from, p.to}
      BY <2>1, <2>2, <2>4 DEF SInv, Standing, Working, KeyUsed, ledgerVars
    <3> QED BY <2>4, <2>5, <2>6, <2>7, <3>1
            DEF Standing, Working, KeyUsed, StillWithin, StaysInFamily, Moved
  <2>9. \A t \in Sessions \ {s} : r.locked \cap session[t].locked = {}
    BY <2>4 DEF SInv, Apart
  <2> QED BY <2>1, <2>2, <2>3, <2>4, <2>8, <2>9, WorkStep DEF HoldsKey
<1> QED BY <1>1, <1>2 DEF CheckLimits

(* close_pocket locks the row of an empty pocket.                               *)
LEMMA LockPocketStep ==
    ASSUME SInv, NEW s \in Sessions, NEW a \in Accounts, LockPocket(s, a)
    PROVE  SInv'
<1> DEFINE r == [session[s] EXCEPT !.pc = "close", !.locked = {a}]
<1>1. /\ session[s] \in SessionRecords /\ UNCHANGED ledgerVars
      /\ a \in Pockets /\ RowHolders(s, a) = {} /\ balance[a] = 0
  BY DEF LockPocket, SInv, SessionsTypeOK
<1>2. r \in SessionRecords /\ r.pc = "close" /\ r.locked = {a}
  BY <1>1 DEF SessionRecords
<1>3. session' = [session EXCEPT ![s] = r] /\ session'[s] = r
  BY DEF LockPocket, SInv, SessionsTypeOK
<1> HIDE DEF r
<1>4. Standing(s)'
  BY <1>1, <1>2, <1>3 DEF Standing, Working, ledgerVars
<1>5. \A t \in Sessions \ {s} : Apart(s, t)'
  <2>1. \A t \in Sessions \ {s} : session'[t] = session[t] /\ a \notin session[t].locked
    BY <1>1, <1>3 DEF RowHolders
  <2> QED BY <1>2, <1>3, <2>1 DEF Apart, HoldsKey
<1> QED BY <1>1, <1>2, <1>3, <1>4, <1>5, QuietStep

(* What a session has checked is not disturbed by a posting to other accounts.   *)
LEMMA Untouched ==
    ASSUME balance \in [Accounts -> Int],
           NEW p \in Requests, NEW q \in Requests,
           {p.from, p.to} \cap {q.from, q.to} = {},
           balance' = Moved(p), StillWithin(q)
    PROVE  StillWithin(q)'
<1>1. /\ p.from \in Accounts /\ p.to \in Accounts /\ q.from \in Accounts /\ q.to \in Accounts
      /\ q.amount \in Int
  BY RequestType
<1>2. balance' \in [Accounts -> Int]
  BY <1>1, RequestType DEF Moved
<1>3. \A a \in {q.from, q.to} : balance'[a] = balance[a]
  BY <1>1 DEF Moved
<1>4. \A a \in {q.from, q.to} : Moved(q)'[a] = Moved(q)[a]
  BY <1>1, <1>2, <1>3 DEF Moved
<1>5. ASSUME NEW a \in {q.from, q.to} \cap Customers, Alone(a)
      PROVE  FamilyBalance(Moved(q), Family[a])' = FamilyBalance(Moved(q), Family[a])
  <2>1. Members(Family[a]) = {a}
    BY <1>5 DEF Alone
  <2>2. Restrict(Moved(q)', {a}) = Restrict(Moved(q), {a})
    BY <1>4, <1>5 DEF Restrict
  <2> QED BY <2>1, <2>2 DEF FamilyBalance, Members
<1> QED BY <1>4, <1>5 DEF StillWithin, Alone, Members

(* The commit of a posting: its accounts are locked, its key is held.            *)
LEMMA CommitStep ==
    ASSUME SInv, NEW s \in Sessions, Commit(s)
    PROVE  SInv'
<1>1. session[s].pc = "commit" /\ HoldsKey(s)
  BY DEF Commit, HoldsKey
<1>2. PICK p \in Requests : p = session[s].posting
  BY <1>1 DEF SInv, Standing, Working
<1>3. /\ ~KeyUsed(p) /\ session[s].locked = {p.from, p.to} /\ StillWithin(p)
  BY <1>1, <1>2 DEF SInv, Standing, Working
<1>4. /\ posted' = posted \cup {p} /\ balance' = Moved(p) /\ closed' = closed
      /\ session' = [session EXCEPT ![s] = Idle]
  BY <1>2 DEF Commit, End
<1>5. session'[s] = Idle /\ \A t \in Sessions \ {s} : session'[t] = session[t]
  BY <1>4 DEF SInv, SessionsTypeOK
<1>6. p.from \in Accounts /\ p.to \in Accounts /\ p.amount \in Int
  BY RequestType
<1>7. balance \in [Accounts -> Int]
  BY DEF SInv, SessionsTypeOK
<1>8. SessionsTypeOK'
  <2>1. balance' \in [Accounts -> Int]
    BY <1>4, <1>6, <1>7 DEF Moved
  <2>2. Idle \in SessionRecords
    BY DEF Idle, SessionRecords
  <2> QED BY <1>4, <2>1, <2>2 DEF SInv, SessionsTypeOK
<1>9. NoOverdraft'
  <2> SUFFICES ASSUME NEW a \in Customers PROVE balance'[a] >= 0
    BY DEF NoOverdraft
  <2>1. CASE a \in {p.from, p.to}
    BY <1>3, <1>4, <2>1 DEF StillWithin
  <2>2. CASE a \notin {p.from, p.to}
    <3>1. balance'[a] = balance[a]
      BY <1>4, <1>6, <1>7, <2>2 DEF Moved, Accounts
    <3> QED BY <3>1 DEF SInv, NoOverdraft
  <2> QED BY <2>1, <2>2
<1>10. OncePerKey'
  BY <1>3, <1>4 DEF SInv, OncePerKey, KeyUsed, SameKey
<1>11. ASSUME NEW t \in Sessions \ {s} PROVE Standing(t)'
  <2>1. session'[t] = session[t] /\ Standing(t) /\ Apart(s, t)
    BY <1>5 DEF SInv
  <2>2. session[t].locked \cap {p.from, p.to} = {}
    BY <1>3, <2>1 DEF Apart
  <2>3. session[t].pc \in Working => ~KeyUsed(session[t].posting)'
    <3>1. SUFFICES ASSUME session[t].pc \in Working
                   PROVE  ~KeyUsed(session[t].posting)'
      OBVIOUS
    <3>2. PICK q \in Requests : q = session[t].posting
      BY <2>1, <3>1 DEF Standing
    <3>3. ~KeyUsed(q) /\ ~SameKey(p, q)
      BY <1>1, <1>2, <2>1, <3>1, <3>2 DEF Standing, Apart, HoldsKey, Working
    <3>4. ~KeyUsed(q)'
      BY <1>4, <3>3 DEF KeyUsed, SameKey
    <3> QED BY <2>1, <3>2, <3>4 DEF KeyUsed
  <2>4. session[t].pc = "commit" => StillWithin(session[t].posting)'
    <3>1. SUFFICES ASSUME session[t].pc = "commit"
                   PROVE  StillWithin(session[t].posting)'
      OBVIOUS
    <3>2. PICK q \in Requests : q = session[t].posting
      BY <2>1, <3>1 DEF Standing, Working
    <3>3. StillWithin(q) /\ {p.from, p.to} \cap {q.from, q.to} = {}
      BY <2>1, <2>2, <3>1, <3>2 DEF Standing
    <3>4. StillWithin(q)'
      BY <1>4, <1>7, <3>3, Untouched
    <3> QED BY <2>1, <3>2, <3>4 DEF StillWithin, Moved
  <2>5. session[t].pc = "close" =>
           \E a \in Pockets : session[t].locked = {a} /\ balance'[a] = 0
    <3>1. SUFFICES ASSUME session[t].pc = "close"
                   PROVE  \E a \in Pockets : session[t].locked = {a} /\ balance'[a] = 0
      OBVIOUS
    <3>2. PICK a \in Pockets : session[t].locked = {a} /\ balance[a] = 0
      BY <2>1, <3>1 DEF Standing
    <3>3. balance'[a] = balance[a]
      BY <1>4, <1>6, <1>7, <2>2, <3>2 DEF Moved, Pockets, Accounts
    <3> QED BY <3>2, <3>3
  <2> QED BY <2>1, <2>3, <2>4, <2>5 DEF Standing, StaysInFamily
<1>12. Standing(s)'
  BY <1>5 DEF Standing, Idle, Working
<1>13. ASSUME NEW t \in Sessions, NEW u \in Sessions, t # u PROVE Apart(t, u)'
  <2>1. CASE t # s /\ u # s
    BY <1>5, <1>13, <2>1 DEF SInv, Apart, HoldsKey
  <2>2. CASE t = s \/ u = s
    BY <1>5, <2>2 DEF Apart, HoldsKey, Idle
  <2> QED BY <2>1, <2>2
<1> QED BY <1>8, <1>9, <1>10, <1>11, <1>12, <1>13 DEF SInv

(* The commit of a close: only the status of the pocket changes.                 *)
LEMMA CommitCloseStep ==
    ASSUME SInv, NEW s \in Sessions, CommitClose(s)
    PROVE  SInv'
<1>1. /\ UNCHANGED <<posted, balance>> /\ closed' = closed \cup session[s].locked
      /\ session' = [session EXCEPT ![s] = Idle] /\ session[s].locked \subseteq Pockets
  BY DEF CommitClose, End, SInv, Standing
<1>2. session'[s] = Idle /\ \A t \in Sessions \ {s} : session'[t] = session[t]
  BY <1>1 DEF SInv, SessionsTypeOK
<1>3. SessionsTypeOK'
  <2>1. Idle \in SessionRecords
    BY DEF Idle, SessionRecords
  <2> QED BY <1>1, <2>1 DEF SInv, SessionsTypeOK
<1>4. NoOverdraft' /\ OncePerKey'
  BY <1>1 DEF SInv, NoOverdraft, OncePerKey
<1>5. ASSUME NEW t \in Sessions \ {s} PROVE Standing(t)'
  <2>1. Standing(t) /\ session'[t] = session[t]
    BY <1>2 DEF SInv
  <2> QED BY <1>1, <2>1 DEF Standing, KeyUsed, StillWithin, StaysInFamily, Moved
<1>6. Standing(s)'
  BY <1>2 DEF Standing, Idle, Working
<1>7. \A t, u \in Sessions : t # u => Apart(t, u)'
  BY <1>2 DEF SInv, Apart, HoldsKey, Idle
<1> QED BY <1>3, <1>4, <1>5, <1>6, <1>7 DEF SInv

(* Every step preserves the invariant.                                           *)
LEMMA NextSInv ==
    ASSUME SInv, [SessionsNext]_sessionVars PROVE SInv'
<1>1. ASSUME NEW s \in Sessions, NEW p \in Requests, Begin(s, p) PROVE SInv'
  BY <1>1, BeginStep
<1>2. ASSUME NEW s \in Sessions, InsertTransaction(s) PROVE SInv'
  BY <1>2, InsertStep
<1>3. ASSUME NEW s \in Sessions, FindByKey(s) \/ Rollback(s) PROVE SInv'
  BY <1>3, EndStep DEF FindByKey, Rollback
<1>4. ASSUME NEW s \in Sessions, CheckEntry(s) PROVE SInv'
  BY <1>4, CheckEntryStep
<1>5. ASSUME NEW s \in Sessions, ApplyEntry(s) PROVE SInv'
  BY <1>5, ApplyEntryStep
<1>6. ASSUME NEW s \in Sessions, CheckLimits(s) PROVE SInv'
  BY <1>6, CheckLimitsStep
<1>7. ASSUME NEW s \in Sessions, Commit(s) PROVE SInv'
  BY <1>7, CommitStep
<1>8. ASSUME NEW s \in Sessions, NEW a \in Accounts, LockPocket(s, a) PROVE SInv'
  BY <1>8, LockPocketStep
<1>9. ASSUME NEW s \in Sessions, CommitClose(s) PROVE SInv'
  BY <1>9, CommitCloseStep
<1>10. CASE UNCHANGED sessionVars
  <2>1. UNCHANGED <<posted, balance, closed, session>>
    BY <1>10 DEF sessionVars
  <2>2. SessionsTypeOK' /\ NoOverdraft' /\ OncePerKey'
    BY <2>1 DEF SInv, SessionsTypeOK, NoOverdraft, OncePerKey
  <2>3. \A s \in Sessions : Standing(s)'
    BY <2>1, ZenonT(60) DEF SInv, Standing, KeyUsed, StillWithin, StaysInFamily, Moved
  <2>4. \A s, t \in Sessions : s # t => Apart(s, t)'
    BY <2>1 DEF SInv, Apart, HoldsKey
  <2> QED BY <2>2, <2>3, <2>4 DEF SInv
<1> QED BY <1>1, <1>2, <1>3, <1>4, <1>5, <1>6, <1>7, <1>8, <1>9, <1>10 DEF SessionsNext

(* The inductive invariant holds in every reachable state.                       *)
THEOREM SessionsInvariant == SessionsSpec => []SInv
BY InitSInv, NextSInv, PTL DEF SessionsSpec

(* However many sessions post at once, no customer's account is overdrawn.       *)
THEOREM NeverOverdrawn == SessionsSpec => []NoOverdraft
BY SessionsInvariant, PTL DEF SInv

(* However many sessions serve one idempotency key, it is posted once.           *)
THEOREM PostedOnce == SessionsSpec => []OncePerKey
BY SessionsInvariant, PTL DEF SInv

-------------------------------------------------------------------------------
(* Of the sessions that wait for a row, the one whose row comes last in the order *)
(* of accounts waits for a session that does not wait.                            *)
LEMMA NoCircle == SInv => SomeoneProceeds
<1> DEFINE busy == {s \in Sessions : session[s].pc # "idle"}
           waiting == {s \in busy : session[s].pc = "update"}
           toGo(s) == Cardinality(Accounts) - Rank[Head(session[s].todo)]
<1> SUFFICES ASSUME SInv, busy # {}, \A s \in busy : Blocked(s)
             PROVE  FALSE
  BY DEF SomeoneProceeds
<1>1. waiting # {}
  <2>1. PICK s \in busy : TRUE
    OBVIOUS
  <2>2. CASE session[s].pc = "update"
    BY <2>2
  <2>3. CASE session[s].pc = "key" /\ KeyHolders(s) # {}
    <3>1. PICK t \in Sessions : HoldsKey(t)
      BY <2>3 DEF KeyHolders
    <3>2. t \in busy /\ Blocked(t)
      BY <3>1 DEF HoldsKey
    <3> QED BY <3>1, <3>2 DEF HoldsKey, Blocked
  <2> QED BY <2>1, <2>2, <2>3 DEF Blocked
<1>2. ASSUME NEW s \in waiting
      PROVE  \E p \in Requests :
                \/ Head(session[s].todo) = First(p) /\ session[s].locked = {}
                \/ Head(session[s].todo) = Second(p) /\ session[s].locked = {First(p)}
  BY DEF SInv, Standing, Working
<1>3. \A s \in waiting : /\ Head(session[s].todo) \in Accounts
                         /\ Rank[Head(session[s].todo)] \in 1 .. Cardinality(Accounts)
                         /\ toGo(s) \in Nat
  <2>1. \A s \in waiting : Head(session[s].todo) \in Accounts
    BY <1>2, Ordered
  <2>2. Cardinality(Accounts) \in Nat
    BY SessionsAssumption, FS_CardinalityType
  <2> QED BY <2>1, <2>2, SessionsAssumption
<1>4. PICK s \in waiting : \A t \in waiting : toGo(s) <= toGo(t)
  <2> DEFINE T == {toGo(t) : t \in waiting}
  <2>1. T \in SUBSET Nat /\ T # {}
    BY <1>1, <1>3
  <2>2. PICK n \in T : \A m \in T : n <= m
    BY <2>1, LeastNatural
  <2> QED BY <2>2
<1>5. PICK u \in Sessions : Head(session[s].todo) \in session[u].locked
  BY DEF Blocked, RowHolders
<1>6. u \in waiting
  <2>1. u \in busy /\ Blocked(u)
    BY <1>5 DEF SInv, Standing
  <2>2. session[u].pc # "key"
    BY <1>5 DEF SInv, Standing
  <2> QED BY <2>1, <2>2 DEF Blocked
<1>7. PICK p \in Requests : Head(session[u].todo) = Second(p) /\ session[u].locked = {First(p)}
  BY <1>2, <1>5, <1>6
<1>8. Rank[Head(session[s].todo)] < Rank[Head(session[u].todo)]
  BY <1>5, <1>7, Ordered
<1>9. toGo(u) < toGo(s)
  <2>1. Cardinality(Accounts) \in Int
    BY SessionsAssumption, FS_CardinalityType
  <2> QED BY <1>3, <1>6, <1>8, <2>1
<1> QED BY <1>3, <1>4, <1>6, <1>9

(* Sessions never wait for each other in a circle: of those at work, one can      *)
(* always take its next step.                                                     *)
THEOREM DeadlockFree == SessionsSpec => []SomeoneProceeds
BY SessionsInvariant, NoCircle, PTL

-------------------------------------------------------------------------------
(* An account that closes has an account it is a pocket of.                       *)
LEMMA AloneStaysOpen ==
    ASSUME SInv, NEW a \in Accounts, Alone(a)
    PROVE  a \notin closed
<1> SUFFICES ASSUME a \in Pockets PROVE FALSE
  BY DEF SInv, SessionsTypeOK
<1>1. a \in Customers /\ Family[a] # a /\ Family[a] \in Customers
  BY PostingAssumption DEF Pockets
<1>2. Family[a] \in Members(Family[a])
  BY <1>1, PostingAssumption DEF Members
<1> QED BY <1>1, <1>2 DEF Alone

(* The commit of a session is the atomic posting of module Posting.               *)
LEMMA CommitIsMove ==
    ASSUME SInv, NEW s \in Sessions, Commit(s)
    PROVE  \/ LedgerNext
           \/ \E p \in Requests :
                 /\ ~Alone(p.from) \/ ~Alone(p.to)
                 /\ ~KeyUsed(p)
                 /\ posted' = posted \cup {p} /\ balance' = Moved(p)
                 /\ UNCHANGED closed
<1>1. session[s].pc = "commit"
  BY DEF Commit
<1>2. PICK p \in Requests : p = session[s].posting
  BY <1>1 DEF SInv, Standing, Working
<1>3. /\ ~KeyUsed(p) /\ StaysInFamily(p) /\ StillWithin(p)
      /\ posted' = posted \cup {p} /\ balance' = Moved(p) /\ UNCHANGED closed
  BY <1>1, <1>2 DEF SInv, Standing, Working, Commit
<1>4. CASE Alone(p.from) /\ Alone(p.to)
  <2>1. p.from \in Accounts /\ p.to \in Accounts
    BY RequestType
  <2>2. {p.from, p.to} \cap closed = {}
    BY <1>4, <2>1, AloneStaysOpen
  <2>3. WithinLimits(p, Moved(p))
    BY <1>3, <1>4 DEF WithinLimits, StillWithin
  <2>4. CanPost(p) /\ ~Replays(p)
    BY <1>3, <2>2, <2>3 DEF CanPost, Accepted, Replays, KeyUsed, SameKey
  <2>5. Post(p) /\ UNCHANGED closed
    BY <1>3, <2>4 DEF Post
  <2>6. PICK key \in MovementKeys, m \in Movements : p = PostingOf(key, m)
    BY DEF Requests
  <2>7. Move(key, m)
    BY <2>5, <2>6 DEF Move, PostingOf
  <2> QED BY <2>7 DEF LedgerNext
<1> QED BY <1>3, <1>4

(* Serializability: every step of the sessions is, on what is committed, an atomic *)
(* step of Posting, for accounts that share no limit with others.                  *)
THEOREM Serializable == SessionsSpec => CommitsAreAtomic
<1> DEFINE A == \/ LedgerNext
                \/ \E p \in Requests :
                      /\ ~Alone(p.from) \/ ~Alone(p.to)
                      /\ ~KeyUsed(p)
                      /\ posted' = posted \cup {p} /\ balance' = Moved(p)
                      /\ UNCHANGED closed
<1>1. SInv /\ [SessionsNext]_sessionVars => [A]_ledgerVars
  <2> SUFFICES ASSUME SInv, [SessionsNext]_sessionVars PROVE [A]_ledgerVars
    OBVIOUS
  <2>1. ASSUME NEW s \in Sessions, Commit(s) PROVE A
    BY <2>1, CommitIsMove
  <2>2. ASSUME NEW s \in Sessions, CommitClose(s) PROVE A
    <3>1. session[s].pc = "close"
      BY <2>2 DEF CommitClose
    <3>2. PICK a \in Pockets : session[s].locked = {a} /\ balance[a] = 0
      BY <3>1 DEF SInv, Standing
    <3>3. ClosePocket(a) /\ a \in Accounts
      BY <2>2, <3>2 DEF CommitClose, ClosePocket, Pockets, Accounts
    <3> QED BY <3>3 DEF LedgerNext
  <2>3. ASSUME NEW s \in Sessions,
               \/ \E p \in Requests : Begin(s, p)
               \/ InsertTransaction(s) \/ FindByKey(s) \/ CheckEntry(s)
               \/ ApplyEntry(s) \/ CheckLimits(s) \/ Rollback(s)
               \/ \E a \in Accounts : LockPocket(s, a)
        PROVE  UNCHANGED ledgerVars
    BY <2>3 DEF Begin, InsertTransaction, FindByKey, CheckEntry, ApplyEntry,
                CheckLimits, Rollback, LockPocket
  <2>4. CASE UNCHANGED sessionVars
    BY <2>4 DEF sessionVars, ledgerVars
  <2> HIDE DEF A
  <2> QED BY <2>1, <2>2, <2>3, <2>4 DEF SessionsNext
<1> QED BY <1>1, SessionsInvariant, PTL DEF SessionsSpec, CommitsAreAtomic

-------------------------------------------------------------------------------
(* Only a commit moves money.                                                    *)
LEMMA OnlyCommitPosts ==
    ASSUME SessionsNext, ~\E s \in Sessions : Commit(s)
    PROVE  UNCHANGED <<posted, balance>>
BY DEF SessionsNext, Begin, InsertTransaction, FindByKey, CheckEntry, ApplyEntry, CheckLimits,
       LockPocket, CommitClose, Rollback, ledgerVars

(* A commit adds its posting to the entries and to the balances alike.           *)
LEMMA CommitProjects ==
    ASSUME SInv, IsFiniteSet(posted), BalanceIsProjection, NEW s \in Sessions, Commit(s)
    PROVE  IsFiniteSet(posted)' /\ BalanceIsProjection'
<1> DEFINE p == session[s].posting
<1>1. /\ p \in Requests /\ ~KeyUsed(p) /\ posted' = posted \cup {p} /\ balance' = Moved(p)
  BY DEF Commit, SInv, Standing, Working, HoldsKey
<1> HIDE DEF p
<1>2. p \notin posted /\ p.amount \in Int /\ p.from \in Accounts /\ p.to \in Accounts
  BY <1>1, RequestType DEF KeyUsed, SameKey
<1>3. \A q \in posted : q.amount \in Int
  BY RequestType DEF SInv, SessionsTypeOK
<1>4. IsFiniteSet(posted)'
  BY <1>1, FS_AddElement
<1>5. ASSUME NEW a \in Accounts
      PROVE  balance'[a] = (IF a \in Customers THEN Opening[a] ELSE 0)
                           + Credits(a)' - Debits(a)'
  <2> DEFINE C == {q \in posted : q.to = a}
             D == {q \in posted : q.from = a}
  <2>1. /\ IsFiniteSet(C) /\ p \notin C /\ \A q \in C : q.amount \in Int
        /\ IsFiniteSet(D) /\ p \notin D /\ \A q \in D : q.amount \in Int
    BY <1>2, <1>3, FS_Subset
  <2>2. /\ {q \in posted' : q.to = a} = IF p.to = a THEN C \cup {p} ELSE C
        /\ {q \in posted' : q.from = a} = IF p.from = a THEN D \cup {p} ELSE D
    BY <1>1
  <2>3. /\ Credits(a) = Total(C) /\ Credits(a)' = IF p.to = a THEN Total(C \cup {p}) ELSE Total(C)
        /\ Debits(a) = Total(D) /\ Debits(a)' = IF p.from = a THEN Total(D \cup {p}) ELSE Total(D)
    BY <2>2 DEF Credits, Debits, Total
  <2> HIDE DEF C, D
  <2>4. /\ Total(C) \in Int /\ Total(C \cup {p}) = p.amount + Total(C)
        /\ Total(D) \in Int /\ Total(D \cup {p}) = p.amount + Total(D)
    BY <1>2, <2>1, AmountsType, AmountsWith DEF Total
  <2>5. balance'[a] = balance[a] - (IF p.from = a THEN p.amount ELSE 0)
                      + (IF p.to = a THEN p.amount ELSE 0)
    <3>1. balance \in [Accounts -> Int]
      BY DEF SInv, SessionsTypeOK
    <3>2. balance' = [balance EXCEPT ![p.from] = @ - p.amount, ![p.to] = @ + p.amount]
      BY <1>1 DEF Moved
    <3>3. p.from # p.to
      BY <1>1, RequestType
    <3> QED BY <1>2, <3>1, <3>2, <3>3
  <2>6. balance[a] = (IF a \in Customers THEN Opening[a] ELSE 0) + Credits(a) - Debits(a)
    BY DEF BalanceIsProjection
  <2>7. a \in Customers => Opening[a] \in Int
    BY PostingAssumption
  <2> QED BY <1>2, <2>3, <2>4, <2>5, <2>6, <2>7
<1> QED BY <1>4, <1>5 DEF BalanceIsProjection

(* Whatever the sessions do at once, the balance of every account is what its     *)
(* entries come to: no replay and no second session moves it again.               *)
THEOREM BalancesProject == SessionsSpec => []BalanceIsProjection
<1> DEFINE Agree == IsFiniteSet(posted) /\ BalanceIsProjection
<1>1. SessionsInit => Agree
  <2> SUFFICES ASSUME SessionsInit PROVE Agree
    OBVIOUS
  <2>1. posted = {} /\ \A a \in Accounts : balance[a] = IF a \in Customers THEN Opening[a] ELSE 0
    BY DEF SessionsInit, LedgerInit
  <2>2. \A a : Credits(a) = 0 /\ Debits(a) = 0
    BY <2>1, SumNone DEF Credits, Debits, Total
  <2> QED BY <2>1, <2>2, FS_EmptySet, PostingAssumption DEF BalanceIsProjection
<1>2. SInv /\ Agree /\ [SessionsNext]_sessionVars => Agree'
  <2> SUFFICES ASSUME SInv, Agree, [SessionsNext]_sessionVars PROVE Agree'
    OBVIOUS
  <2>1. CASE \E s \in Sessions : Commit(s)
    BY <2>1, CommitProjects
  <2>2. CASE UNCHANGED <<posted, balance>>
    BY <2>2 DEF BalanceIsProjection, Credits, Debits
  <2> QED BY <2>1, <2>2, OnlyCommitPosts DEF sessionVars
<1> HIDE DEF Agree
<1>3. SessionsSpec => []Agree
  BY <1>1, <1>2, SessionsInvariant, PTL DEF SessionsSpec
<1> QED BY <1>3, PTL DEF Agree

(******************************************************************************)
(* Relay: with one relay process, as it is deployed, for any number of        *)
(* events, any accounts, any size of batch and any number of failures, the    *)
(* outbox may be read by id although ids are not given in the order of        *)
(* commits.                                                                   *)
(******************************************************************************)
(* Ids are handed out one by one, and an event that shares an account with an   *)
(* earlier one was written after the transaction of that one had ended, because *)
(* it waited for the balance of the account.                                    *)
WrittenInTurn ==
    \A i, j \in Ids : j < i /\ row[i].fate # "free" =>
        /\ row[j].fate # "free"
        /\ Sharing(j, i) => row[j].fate # "open"

(* A pass has locked all that goes before what it has locked, and gives up the  *)
(* whole rest of its batch or nothing.                                          *)
PassesAreWhole ==
    \A r \in Relays :
        /\ relay[r].locked \subseteq Committed \ published
        /\ relay[r].done \subseteq Range(seen)
        /\ relay[r].todo # {} => relay[r].locked = relay[r].todo \cup relay[r].done
        /\ \A i \in relay[r].locked, j \in Committed :
              j < i /\ Sharing(j, i) => j \in published \cup relay[r].locked

(* The inductive invariant.                                                     *)
RInv == RelayTypeOK /\ MarkedWereDelivered /\ WrittenInTurn /\ PassesAreWhole /\ AccountsInOrder

-------------------------------------------------------------------------------
(* LIMIT takes the first rows: what it leaves is younger than what it takes.    *)
LEMMA LeastIsFirst ==
    ASSUME NEW S, S \subseteq Ids, NEW n \in Nat
    PROVE  /\ Least(n, S) \subseteq S
           /\ \A i \in Least(n, S), j \in S : j < i => j \in Least(n, S)
<1>1. Least(n, S) \subseteq S
  BY DEF Least
<1>2. ASSUME NEW i \in Least(n, S), NEW j \in S, j < i PROVE j \in Least(n, S)
  <2> DEFINE Before(k) == {l \in S : l < k}
  <2>1. IsFiniteSet(Before(i))
    <3>1. IsFiniteSet(Ids)
      BY FS_Interval, RelayAssumption DEF Ids
    <3> QED BY <3>1, FS_Subset
  <2>2. Before(j) \subseteq Before(i)
    <3>1. Ids \subseteq Nat
      BY RelayAssumption DEF Ids
    <3>2. i \in Nat /\ j \in Nat /\ S \subseteq Nat
      BY <1>1, <1>2, <3>1
    <3>3. ASSUME NEW l \in S, l < j PROVE l < i
      BY <1>2, <3>2, <3>3
    <3> QED BY <3>3
  <2>3. Cardinality(Before(j)) <= Cardinality(Before(i)) /\ IsFiniteSet(Before(j))
    BY <2>1, <2>2, FS_Subset
  <2>4. Cardinality(Before(i)) \in Nat /\ Cardinality(Before(j)) \in Nat
    BY <2>1, <2>3, FS_CardinalityType
  <2>5. Cardinality(Before(i)) < n
    BY <1>2 DEF Least
  <2>6. Cardinality(Before(j)) < n
    BY <2>3, <2>4, <2>5
  <2> QED BY <1>2, <2>6 DEF Least
<1> QED BY <1>1, <1>2

(* What a delivery leaves, if all that goes before the event is there.          *)
LEMMA DeliveryKeepsOrder ==
    ASSUME RInv, NEW i \in Committed, Deliver(i), UNCHANGED row,
           \A j \in Committed : j < i /\ Sharing(j, i) => j \in Range(seen)
    PROVE  /\ seen' \in Seq(Ids)
           /\ Range(seen') = Range(seen) \cup {i}
           /\ AccountsInOrder'
<1>1. seen \in Seq(Ids) /\ i \in Ids /\ Committed' = Committed
  BY DEF RInv, RelayTypeOK, Committed
<1>2. \A a, b : Sharing(a, b)' <=> Sharing(a, b)
  BY DEF Sharing
<1>3. CASE i \in Range(seen)
  <2>1. seen' = seen
    BY <1>3 DEF Deliver
  <2>2. AccountsInOrder'
    BY <1>1, <1>2, <2>1 DEF RInv, AccountsInOrder
  <2> QED BY <1>1, <1>3, <2>1, <2>2
<1>4. CASE i \notin Range(seen)
  <2>1. seen' = Append(seen, i)
    BY <1>4 DEF Deliver
  <2>2. /\ seen' \in Seq(Ids) /\ Len(seen') = Len(seen) + 1 /\ Len(seen) \in Nat
        /\ seen'[Len(seen) + 1] = i /\ \A n \in 1 .. Len(seen) : seen'[n] = seen[n]
        /\ DOMAIN seen = 1 .. Len(seen) /\ DOMAIN seen' = 1 .. Len(seen) + 1
    BY <1>1, <2>1
  <2>3. Range(seen') = Range(seen) \cup {i}
    BY <2>2 DEF Range
  <2>4. ASSUME NEW n \in 1 .. Len(seen'), NEW j \in Committed, j < seen'[n], Sharing(j, seen'[n])
        PROVE  \E m \in 1 .. n - 1 : seen'[m] = j
    <3>1. CASE n = Len(seen) + 1
      <4>1. j \in Range(seen)
        BY <2>2, <2>4, <3>1
      <4>2. PICK m \in 1 .. Len(seen) : seen[m] = j
        BY <2>2, <4>1 DEF Range
      <4> QED BY <2>2, <3>1, <4>2
    <3>2. CASE n # Len(seen) + 1
      <4>1. n \in 1 .. Len(seen) /\ seen'[n] = seen[n]
        BY <2>2, <3>2
      <4>2. PICK m \in 1 .. n - 1 : seen[m] = j
        BY <2>4, <4>1 DEF RInv, AccountsInOrder
      <4> QED BY <2>2, <4>1, <4>2
    <3> QED BY <3>1, <3>2
  <2>5. AccountsInOrder'
    BY <1>1, <1>2, <2>4 DEF AccountsInOrder
  <2> QED BY <2>2, <2>3, <2>5
<1> QED BY <1>3, <1>4

(* What goes before the first event of what a pass has yet to publish, is out.  *)
LEMMA FirstIsDue ==
    ASSUME RInv, NEW r \in Relays, NEW i \in Ids, IsFirst(i, r)
    PROVE  /\ i \in Committed /\ i \in relay[r].locked
           /\ \A j \in Committed : j < i /\ Sharing(j, i) => j \in Range(seen)
<1>1. /\ relay[r].locked \subseteq Committed \ published
      /\ relay[r].locked = relay[r].todo \cup relay[r].done
      /\ relay[r].done \subseteq Range(seen)
      /\ i \in relay[r].todo /\ \A j \in relay[r].todo : i <= j
  BY DEF IsFirst, RInv, PassesAreWhole
<1>2. ASSUME NEW j \in Committed, j < i, Sharing(j, i) PROVE j \in Range(seen)
  <2>1. j \in published \cup relay[r].locked
    BY <1>1, <1>2 DEF RInv, PassesAreWhole
  <2>2. j \notin relay[r].todo
    BY <1>1, <1>2 DEF Ids, Committed
  <2> QED BY <1>1, <2>1, <2>2 DEF RInv, MarkedWereDelivered
<1> QED BY <1>1, <1>2

LEMMA InitInv == RelayInit => RInv
<1> SUFFICES ASSUME RelayInit PROVE RInv
  OBVIOUS
<1>1. seen = <<>> /\ Range(seen) = {} /\ Len(seen) = 0 /\ Committed = {} /\ published = {}
  BY DEF RelayInit, Range, Committed, Free
<1>2. RelayTypeOK
  BY <1>1 DEF RelayInit, RelayTypeOK, Free, Resting
<1>3. WrittenInTurn
  BY DEF RelayInit, WrittenInTurn, Free
<1>4. PassesAreWhole
  BY <1>1 DEF RelayInit, PassesAreWhole, Resting
<1>5. MarkedWereDelivered /\ AccountsInOrder
  BY <1>1 DEF MarkedWereDelivered, AccountsInOrder
<1> QED BY <1>2, <1>3, <1>4, <1>5 DEF RInv

LEMMA SeenCommitted ==
    ASSUME RInv PROVE \A n \in 1 .. Len(seen) : seen[n] \in Committed
<1>1. seen \in Seq(Ids) /\ Range(seen) \subseteq Committed
  BY DEF RInv, RelayTypeOK, MarkedWereDelivered
<1>2. DOMAIN seen = 1 .. Len(seen)
  BY <1>1
<1>3. \A n \in 1 .. Len(seen) : seen[n] \in Range(seen)
  BY <1>2 DEF Range
<1> QED BY <1>1, <1>3

(* The transactions: a new event waits for those it shares an account with, and  *)
(* one that commits goes before none that is on its way.                         *)
LEMMA EmitKeeps ==
    ASSUME RInv, NEW i \in Ids, NEW accounts \in Touches, Emit(i, accounts)
    PROVE  RInv'
<1> DEFINE New == [fate |-> "open", touches |-> accounts]
<1>1. /\ row \in [Ids -> [fate : {"free", "open", "committed", "rolled back"},
                          touches : Touches \cup {{}}]]
      /\ row[i].fate = "free" /\ row' = [row EXCEPT ![i] = New]
      /\ row'[i] = New /\ \A j \in Ids \ {i} : row'[j] = row[j]
      /\ UNCHANGED <<published, relay, seen, failures>>
  BY DEF RInv, RelayTypeOK, Emit
<1>2. Committed' = Committed /\ i \notin Committed /\ Range(seen)' = Range(seen)
  BY <1>1 DEF Committed, Range
<1>3. \A a, b \in Ids \ {i} : Sharing(a, b)' <=> Sharing(a, b)
  BY <1>1 DEF Sharing
<1>4. \A n \in 1 .. Len(seen) : seen[n] \in Committed
  BY SeenCommitted
<1>5. RelayTypeOK'
  BY <1>1, <1>2 DEF RInv, RelayTypeOK
<1>6. MarkedWereDelivered'
  BY <1>1, <1>2 DEF RInv, MarkedWereDelivered
<1>7. WrittenInTurn'
  <2> SUFFICES ASSUME NEW a \in Ids, NEW b \in Ids, b < a, row'[a].fate # "free"
               PROVE  row'[b].fate # "free" /\ (Sharing(b, a)' => row'[b].fate # "open")
    BY DEF WrittenInTurn
  <2>1. CASE a = i
    <3>1. b \in 1 .. i - 1 /\ b # i
      BY <2>1 DEF Ids
    <3>2. row[b].fate # "free" /\ (row[b].fate = "open" => row[b].touches \cap accounts = {})
      BY <3>1 DEF Emit
    <3>3. Sharing(b, a)' <=> row[b].touches \cap accounts # {}
      BY <1>1, <2>1, <3>1 DEF Sharing
    <3> QED BY <1>1, <3>1, <3>2, <3>3
  <2>2. CASE b = i /\ a # i
    BY <1>1, <2>2 DEF RInv, WrittenInTurn
  <2>3. CASE a # i /\ b # i
    BY <1>1, <1>3, <2>3 DEF RInv, WrittenInTurn
  <2> QED BY <2>1, <2>2, <2>3
<1>8. PassesAreWhole'
  <2> SUFFICES ASSUME NEW r \in Relays PROVE
        /\ relay[r].locked \subseteq Committed \ published
        /\ relay[r].done \subseteq Range(seen)
        /\ relay[r].todo # {} => relay[r].locked = relay[r].todo \cup relay[r].done
        /\ \A k \in relay[r].locked, j \in Committed :
              j < k /\ Sharing(j, k)' => j \in published \cup relay[r].locked
    BY <1>1, <1>2 DEF PassesAreWhole
  <2>1. relay[r].locked \subseteq Ids \ {i} /\ Committed \subseteq Ids \ {i}
    BY <1>2 DEF RInv, PassesAreWhole, Committed
  <2> QED BY <1>3, <2>1 DEF RInv, PassesAreWhole
<1>9. AccountsInOrder'
  <2>1. Committed \subseteq Ids \ {i}
    BY <1>2 DEF Committed
  <2>2. \A n \in 1 .. Len(seen), j \in Committed :
           Sharing(j, seen[n])' <=> Sharing(j, seen[n])
    BY <1>1, <1>3, <1>4, <2>1
  <2>3. \A n \in 1 .. Len(seen), j \in Committed :
           j < seen[n] /\ Sharing(j, seen[n]) => \E m \in 1 .. n - 1 : seen[m] = j
    BY DEF RInv, AccountsInOrder
  <2>4. Len(seen') = Len(seen) /\ seen' = seen
    BY <1>1
  <2> QED BY <1>2, <2>2, <2>3, <2>4 DEF AccountsInOrder
<1> QED BY <1>5, <1>6, <1>7, <1>8, <1>9 DEF RInv

LEMMA EndKeeps ==
    ASSUME RInv, NEW i \in Ids, NEW fate \in {"committed", "rolled back"}, EndTransaction(i, fate)
    PROVE  RInv'
<1>1. /\ row \in [Ids -> [fate : {"free", "open", "committed", "rolled back"},
                          touches : Touches \cup {{}}]]
      /\ row[i].fate = "open" /\ row' = [row EXCEPT ![i].fate = fate]
      /\ row'[i].fate = fate /\ row'[i].touches = row[i].touches
      /\ \A j \in Ids \ {i} : row'[j] = row[j]
      /\ UNCHANGED <<published, relay, seen, failures>>
  BY DEF RInv, RelayTypeOK, EndTransaction
<1>2. /\ Committed \subseteq Committed' /\ Committed' \subseteq Committed \cup {i}
      /\ i \notin Committed /\ Range(seen)' = Range(seen)
  BY <1>1, ZenonT(60) DEF Committed, Range
<1>3. \A a, b \in Ids : Sharing(a, b)' <=> Sharing(a, b)
  BY <1>1 DEF Sharing
<1>4. \A k \in Committed : ~(i < k /\ Sharing(i, k))
  BY <1>1 DEF RInv, WrittenInTurn, Committed
<1>5. \A n \in 1 .. Len(seen) : seen[n] \in Committed
  BY SeenCommitted
<1>6. RelayTypeOK'
  <2>1. row' \in [Ids -> [fate : {"free", "open", "committed", "rolled back"},
                          touches : Touches \cup {{}}]]
    BY <1>1
  <2> QED BY <1>1, <1>2, <2>1 DEF RInv, RelayTypeOK
<1>7. MarkedWereDelivered'
  BY <1>1, <1>2 DEF RInv, MarkedWereDelivered
<1>8. WrittenInTurn'
  BY <1>1, <1>3 DEF RInv, WrittenInTurn
<1>9. PassesAreWhole'
  <2> SUFFICES ASSUME NEW r \in Relays PROVE
        /\ relay[r].locked \subseteq Committed' \ published
        /\ relay[r].done \subseteq Range(seen)
        /\ relay[r].todo # {} => relay[r].locked = relay[r].todo \cup relay[r].done
        /\ \A k \in relay[r].locked, j \in Committed' :
              j < k /\ Sharing(j, k)' => j \in published \cup relay[r].locked
    BY <1>1, <1>2 DEF PassesAreWhole
  <2>1. relay[r].locked \subseteq Committed /\ Committed \subseteq Ids /\ Committed' \subseteq Ids
    BY DEF RInv, PassesAreWhole, Committed
  <2> QED BY <1>2, <1>3, <1>4, <2>1 DEF RInv, PassesAreWhole
<1>10. AccountsInOrder'
  <2>1. Committed' \subseteq Ids /\ Committed \subseteq Ids
    BY DEF Committed
  <2>2. \A n \in 1 .. Len(seen), j \in Committed' :
           Sharing(j, seen[n])' <=> Sharing(j, seen[n])
    BY <1>1, <1>3, <1>5, <2>1
  <2>3. \A n \in 1 .. Len(seen), j \in Committed :
           j < seen[n] /\ Sharing(j, seen[n]) => \E m \in 1 .. n - 1 : seen[m] = j
    BY DEF RInv, AccountsInOrder
  <2>4. \A n \in 1 .. Len(seen) : ~(i < seen[n] /\ Sharing(i, seen[n]))
    BY <1>4, <1>5
  <2>5. Len(seen') = Len(seen) /\ seen' = seen
    BY <1>1
  <2>6. ASSUME NEW n \in 1 .. Len(seen), NEW j \in Committed', j < seen[n], Sharing(j, seen[n])'
        PROVE  \E m \in 1 .. n - 1 : seen[m] = j
    <3>1. Sharing(j, seen[n])
      BY <2>2, <2>6
    <3>2. j # i
      BY <2>4, <2>6, <3>1
    <3> QED BY <1>2, <2>3, <2>6, <3>1, <3>2
  <2> QED BY <2>5, <2>6 DEF AccountsInOrder
<1> QED BY <1>6, <1>7, <1>8, <1>9, <1>10 DEF RInv

(* What the relay does, alone: a pass leaves the rows as they are.               *)
LEMMA SelectKeeps ==
    ASSUME RInv, NEW r \in Relays, Relays = {r}, Select(r)
    PROVE  RInv'
<1> DEFINE first == Least(BatchSize, Pending(r))
<1>1. /\ relay \in [Relays -> [busy : BOOLEAN, locked : SUBSET Ids, todo : SUBSET Ids, done : SUBSET Ids]]
      /\ relay[r] = Resting
      /\ UNCHANGED <<row, published, seen, failures>>
      /\ relay' = [relay EXCEPT ![r] = Pass(first)]
  BY DEF RInv, RelayTypeOK, Select
<1>2. Pending(r) = Committed \ published /\ Pending(r) \subseteq Ids
  BY <1>1 DEF Pending, Resting, Committed
<1>3. first \subseteq Pending(r) /\ \A i \in first, j \in Pending(r) : j < i => j \in first
  BY <1>2, LeastIsFirst, RelayAssumption
<1>4. relay'[r] = [busy |-> TRUE, locked |-> first, todo |-> first, done |-> {}]
  BY <1>1 DEF Pass
<1>5. Committed' = Committed /\ Range(seen)' = Range(seen) /\ \A a, b : Sharing(a, b)' <=> Sharing(a, b)
  BY <1>1 DEF Committed, Range, Sharing
<1>6. RelayTypeOK'
  <2>1. Pass(first) \in [busy : BOOLEAN, locked : SUBSET Ids, todo : SUBSET Ids, done : SUBSET Ids]
    BY <1>2, <1>3 DEF Pass
  <2>2. relay' \in [Relays -> [busy : BOOLEAN, locked : SUBSET Ids, todo : SUBSET Ids, done : SUBSET Ids]]
    BY <1>1, <2>1
  <2>3. \A q \in Relays : relay'[q] = relay'[r]
    OBVIOUS
  <2> HIDE DEF first
  <2>4. \A q \in Relays : /\ ~relay'[q].busy => relay'[q] = Resting
                          /\ relay'[q].todo \cup relay'[q].done \subseteq relay'[q].locked
                          /\ relay'[q].todo \cap relay'[q].done = {}
    BY <1>4, <2>3
  <2> QED BY <1>1, <1>5, <2>2, <2>4 DEF RInv, RelayTypeOK
<1>7. MarkedWereDelivered' /\ WrittenInTurn'
  BY <1>1, <1>5 DEF RInv, MarkedWereDelivered, WrittenInTurn
<1>8. PassesAreWhole'
  <2> HIDE DEF first
  <2> QED BY <1>1, <1>2, <1>3, <1>4, <1>5 DEF PassesAreWhole
<1>9. AccountsInOrder'
  BY <1>1, <1>5 DEF RInv, AccountsInOrder
<1> QED BY <1>6, <1>7, <1>8, <1>9 DEF RInv

LEMMA PublishKeeps ==
    ASSUME RInv, NEW r \in Relays, Relays = {r}, NEW i \in Ids, Publish(r, i)
    PROVE  RInv'
<1>1. /\ relay \in [Relays -> [busy : BOOLEAN, locked : SUBSET Ids, todo : SUBSET Ids, done : SUBSET Ids]]
      /\ IsFirst(i, r) /\ Deliver(i)
      /\ UNCHANGED <<row, published, failures>>
      /\ relay' = [relay EXCEPT ![r].todo = @ \ {i}, ![r].done = @ \cup {i}]
  BY DEF RInv, RelayTypeOK, Publish
<1>2. /\ i \in Committed /\ i \in relay[r].locked
      /\ \A j \in Committed : j < i /\ Sharing(j, i) => j \in Range(seen)
  BY <1>1, FirstIsDue
<1>3. seen' \in Seq(Ids) /\ Range(seen') = Range(seen) \cup {i} /\ AccountsInOrder'
  BY <1>1, <1>2, DeliveryKeepsOrder
<1>4. /\ relay'[r].todo = relay[r].todo \ {i} /\ relay'[r].done = relay[r].done \cup {i}
      /\ relay'[r].locked = relay[r].locked /\ relay'[r].busy = relay[r].busy
      /\ relay' \in [Relays -> [busy : BOOLEAN, locked : SUBSET Ids, todo : SUBSET Ids, done : SUBSET Ids]]
  BY <1>1, ZenonT(60)
<1>5. Committed' = Committed /\ \A a, b : Sharing(a, b)' <=> Sharing(a, b)
  BY <1>1 DEF Committed, Sharing
<1>6. i \in relay[r].todo /\ relay[r].busy
  <2>1. ~relay[r].busy => relay[r] = Resting
    BY DEF RInv, RelayTypeOK
  <2>2. relay[r] = Resting => relay[r].todo = {}
    BY DEF Resting
  <2>3. i \in relay[r].todo
    BY <1>1 DEF IsFirst
  <2> QED BY <2>1, <2>2, <2>3
<1>7. RelayTypeOK'
  BY <1>1, <1>2, <1>3, <1>4, <1>5, <1>6 DEF RInv, RelayTypeOK
<1>8. MarkedWereDelivered' /\ WrittenInTurn'
  BY <1>1, <1>2, <1>3, <1>5 DEF RInv, MarkedWereDelivered, WrittenInTurn
<1>9. PassesAreWhole'
  BY <1>1, <1>2, <1>3, <1>4, <1>5, <1>6 DEF RInv, PassesAreWhole
<1> QED BY <1>3, <1>7, <1>8, <1>9 DEF RInv

(* A failure gives up the rest of the batch, delivered or not.                   *)
LEMMA FailureKeeps ==
    ASSUME RInv, NEW r \in Relays, Relays = {r}, NEW i \in Ids, PublishFails(r, i)
    PROVE  RInv'
<1>1. /\ relay \in [Relays -> [busy : BOOLEAN, locked : SUBSET Ids, todo : SUBSET Ids, done : SUBSET Ids]]
      /\ IsFirst(i, r) /\ (Deliver(i) \/ UNCHANGED seen)
      /\ UNCHANGED <<row, published>>
      /\ relay' = [relay EXCEPT ![r].todo = {}]
  BY DEF RInv, RelayTypeOK, PublishFails
<1>2. /\ i \in Committed /\ i \in relay[r].locked
      /\ \A j \in Committed : j < i /\ Sharing(j, i) => j \in Range(seen)
  BY <1>1, FirstIsDue
<1>3. Committed' = Committed /\ \A a, b : Sharing(a, b)' <=> Sharing(a, b)
  BY <1>1 DEF Committed, Sharing
<1>4. /\ seen' \in Seq(Ids) /\ AccountsInOrder'
      /\ Range(seen) \subseteq Range(seen') /\ Range(seen') \subseteq Range(seen) \cup {i}
  <2>1. CASE Deliver(i)
    BY <1>1, <1>2, <2>1, DeliveryKeepsOrder
  <2>2. CASE UNCHANGED seen
    <3>1. seen \in Seq(Ids) /\ AccountsInOrder /\ seen' = seen
      BY <2>2 DEF RInv, RelayTypeOK
    <3>2. AccountsInOrder'
      BY <1>3, <3>1 DEF AccountsInOrder
    <3> QED BY <3>1, <3>2
  <2> QED BY <1>1, <2>1, <2>2
<1>5. /\ relay'[r].todo = {} /\ relay'[r].done = relay[r].done
      /\ relay'[r].locked = relay[r].locked /\ relay'[r].busy = relay[r].busy
      /\ relay' \in [Relays -> [busy : BOOLEAN, locked : SUBSET Ids, todo : SUBSET Ids, done : SUBSET Ids]]
  BY <1>1
<1>6. i \in relay[r].todo /\ relay[r].busy
  <2>1. ~relay[r].busy => relay[r] = Resting
    BY DEF RInv, RelayTypeOK
  <2>2. relay[r] = Resting => relay[r].todo = {}
    BY DEF Resting
  <2>3. i \in relay[r].todo
    BY <1>1 DEF IsFirst
  <2> QED BY <2>1, <2>2, <2>3
<1>7. RelayTypeOK'
  BY <1>1, <1>3, <1>4, <1>5, <1>6 DEF RInv, RelayTypeOK
<1>8. MarkedWereDelivered' /\ WrittenInTurn'
  BY <1>1, <1>2, <1>3, <1>4 DEF RInv, MarkedWereDelivered, WrittenInTurn
<1>9. PassesAreWhole'
  BY <1>1, <1>3, <1>4, <1>5 DEF RInv, PassesAreWhole
<1> QED BY <1>4, <1>7, <1>8, <1>9 DEF RInv

(* The end of a pass, by its commit or by its death.                             *)
LEMMA EndOfPassKeeps ==
    ASSUME RInv, NEW r \in Relays, Relays = {r},
           relay' = [relay EXCEPT ![r] = Resting], UNCHANGED <<row, seen>>,
           published \subseteq published', published' \subseteq published \cup relay[r].done
    PROVE  RInv'
<1>1. relay' \in [Relays -> [busy : BOOLEAN, locked : SUBSET Ids, todo : SUBSET Ids, done : SUBSET Ids]]
  BY DEF RInv, RelayTypeOK, Resting
<1>2. relay'[r] = Resting
  BY DEF RInv, RelayTypeOK
<1>3. /\ Committed' = Committed /\ Range(seen)' = Range(seen)
      /\ \A a, b : Sharing(a, b)' <=> Sharing(a, b)
  BY DEF Committed, Range, Sharing
<1>4. relay[r].done \subseteq Range(seen) /\ relay[r].done \subseteq Committed
  BY DEF RInv, PassesAreWhole, MarkedWereDelivered
<1>5. RelayTypeOK'
  BY <1>1, <1>2, <1>3, <1>4 DEF RInv, RelayTypeOK, Resting
<1>6. MarkedWereDelivered' /\ WrittenInTurn'
  BY <1>3, <1>4 DEF RInv, MarkedWereDelivered, WrittenInTurn
<1>7. PassesAreWhole'
  BY <1>2 DEF PassesAreWhole, Resting
<1>8. AccountsInOrder'
  BY <1>3 DEF RInv, AccountsInOrder
<1> QED BY <1>5, <1>6, <1>7, <1>8 DEF RInv

LEMMA NextInv ==
    ASSUME RInv, \E r : Relays = {r}, [RelayNext]_relayVars
    PROVE  RInv'
<1>1. PICK r : Relays = {r}
  OBVIOUS
<1>2. ASSUME NEW i \in Ids, NEW accounts \in Touches, Emit(i, accounts) PROVE RInv'
  BY <1>2, EmitKeeps
<1>3. ASSUME NEW i \in Ids, NEW fate \in {"committed", "rolled back"}, EndTransaction(i, fate)
      PROVE  RInv'
  BY <1>3, EndKeeps
<1>4. CASE Select(r)
  BY <1>1, <1>4, SelectKeeps
<1>5. ASSUME NEW i \in Ids, Publish(r, i) PROVE RInv'
  BY <1>1, <1>5, PublishKeeps
<1>6. ASSUME NEW i \in Ids, PublishFails(r, i) PROVE RInv'
  BY <1>1, <1>6, FailureKeeps
<1>7. CASE Mark(r)
  BY <1>1, <1>7, EndOfPassKeeps DEF Mark
<1>8. CASE Crash(r)
  BY <1>1, <1>8, EndOfPassKeeps DEF Crash
<1>9. CASE UNCHANGED relayVars
  <2>1. UNCHANGED <<row, published, relay, seen>>
    BY <1>9 DEF relayVars
  <2>2. /\ Committed' = Committed /\ Range(seen)' = Range(seen)
        /\ \A a, b : Sharing(a, b)' <=> Sharing(a, b)
    BY <2>1 DEF Committed, Range, Sharing
  <2>3. RelayTypeOK'
    BY <2>1, <2>2 DEF RInv, RelayTypeOK
  <2>4. MarkedWereDelivered' /\ WrittenInTurn'
    BY <2>1, <2>2 DEF RInv, MarkedWereDelivered, WrittenInTurn
  <2>5. PassesAreWhole'
    BY <2>1, <2>2 DEF RInv, PassesAreWhole
  <2>6. AccountsInOrder'
    BY <2>1, <2>2 DEF RInv, AccountsInOrder
  <2> QED BY <2>3, <2>4, <2>5, <2>6 DEF RInv
<1> QED BY <1>1, <1>2, <1>3, <1>4, <1>5, <1>6, <1>7, <1>8, <1>9 DEF RelayNext

-------------------------------------------------------------------------------
(* With one relay, the events of every account reach the consumers in the order *)
(* their postings committed in, and nothing is marked that did not get there    *)
(* (OutboxRelay::run_once, emit_posted_event).                                  *)
THEOREM RelayInvariant ==
    ASSUME \E r : Relays = {r}
    PROVE  RelaySpec => []RInv
<1>1. RInv /\ [RelayNext]_relayVars => RInv'
  BY NextInv
<1> QED BY InitInv, <1>1, PTL DEF RelaySpec

(* AccountsInOrder for any number of events, accounts and failures.             *)
THEOREM OneRelayKeepsOrder ==
    ASSUME \E r : Relays = {r}
    PROVE  RelaySpec => []AccountsInOrder
<1>1. RInv => AccountsInOrder
  BY DEF RInv
<1> QED BY RelayInvariant, <1>1, PTL

(* MarkedWereDelivered, wherever a pass is cut short.                           *)
THEOREM NothingMarkedIsLost ==
    ASSUME \E r : Relays = {r}
    PROVE  RelaySpec => []MarkedWereDelivered
<1>1. RInv => MarkedWereDelivered
  BY DEF RInv
<1> QED BY RelayInvariant, <1>1, PTL

(******************************************************************************)
(* CreditCycle: for any limit, terms and amounts, and any number of payments, *)
(* cuts and reviews, if nothing is in flight when a cut reads (Straddle).     *)
(******************************************************************************)
Entries    == [at : Nat, kind : {"draw", "pay", "interest"}, amount : Nat \ {0}]
Postings   == {e \in Entries : e.kind # "interest"}
Statements == [end : Nat, due : Nat, closing : Int, interest : Nat, minimum : Nat]

CycleTypeOK ==
    /\ instant \in Nat
    /\ IsFiniteSet(entries) /\ entries \subseteq Entries
    /\ flying # Nothing => flying \in Postings
    /\ statements \in Seq(Statements)
    /\ cut # Nothing =>
          /\ cut.at \in Nat /\ cut.end \in Nat /\ cut.due \in Nat /\ cut.closing \in Int
          /\ cut.interest \in Nat /\ cut.minimum \in Nat

(* Nothing is posted at an instant that something else has, and what is in       *)
(* flight began after the last statement and after the cut that is under way.    *)
Timing ==
    /\ PeriodStart < instant
    /\ \A i \in DOMAIN statements : statements[i].end <= PeriodStart
    /\ \A e \in entries : e.at < instant
    /\ flying # Nothing => /\ PeriodStart < flying.at /\ flying.at < instant
                           /\ \A e \in entries : e.at # flying.at
    /\ cut # Nothing => /\ PeriodStart < cut.end /\ cut.end < cut.at /\ cut.at < instant
                        /\ \A e \in entries : e.at # cut.at
                        /\ flying # Nothing => cut.at < flying.at

(* What the use of the card and its payments have come to since an instant.      *)
Since(i) == {e \in entries : e.at > i /\ e.kind # "interest"}
Carried  == IF statements = << >> THEN 0 ELSE LastStatement.closing

InTime(s) == {e \in entries : s.end < e.at /\ Day(e.at) <= s.due}

(* Of a statement and the one after it: interest is for who had not paid.        *)
Charged(before, end, interest) ==
    Day(end) > before.due => (interest > 0 <=> Posted({"pay"}, InTime(before)) < before.closing)

Modest(s) == s.minimum > 0 => s.minimum <= s.closing
OnTerms(s) == s.due = Day(s.end) + PaymentDays

(* The inductive invariant: what the entries leave outstanding is what the last  *)
(* statement closed with and what came since, also while a cut that has read     *)
(* still has to be written.                                                      *)
CycleInv ==
    /\ CycleTypeOK
    /\ Timing
    /\ Outstanding(entries) = Carried + Outstanding(Since(PeriodStart))
    /\ cut # Nothing => Outstanding(entries) + cut.interest = cut.closing + Outstanding(Since(cut.end))
    /\ \A i \in 2..Len(statements) : Charged(statements[i - 1], statements[i].end, statements[i].interest)
    /\ cut # Nothing /\ statements # << >> => Charged(LastStatement, cut.end, cut.interest)
    /\ \A i \in DOMAIN statements : Modest(statements[i]) /\ OnTerms(statements[i])
    /\ cut # Nothing => Modest(cut) /\ OnTerms(cut)

-------------------------------------------------------------------------------
LEMMA MaxIsLast ==
    ASSUME NEW n \in Nat, NEW S \in SUBSET (1..n), n \in S
    PROVE  Max(S) = n
<1>1. \A y \in S : n >= y
  OBVIOUS
<1>2. ASSUME NEW x \in S, \A y \in S : x >= y PROVE x = n
  <2>1. x >= n /\ x <= n /\ x \in Int
    BY <1>2
  <2> QED BY <2>1
<1> QED BY <1>1, <1>2 DEF Max

LEMMA WholeDays ==
    ASSUME NEW i \in Int, NEW p \in Nat \ {0}
    PROVE  i \div p \in Int /\ p * (i \div p) <= i /\ i < p * (i \div p) + p
OBVIOUS

LEMMA DayBounds ==
    ASSUME NEW i \in Int
    PROVE  Day(i) \in Int /\ PerDay * Day(i) <= i /\ i < PerDay * Day(i) + PerDay
BY WholeDays, CreditCycleAssumption DEF Day

(* Days are whole: what is in a later day is later.                              *)
LEMMA DaysPass ==
    ASSUME NEW i \in Int, NEW j \in Int, Day(i) < Day(j)
    PROVE  i < j
<1> PICK a : a = Day(i)
  OBVIOUS
<1> PICK b : b = Day(j)
  OBVIOUS
<1>1. a \in Int /\ b \in Int /\ i < PerDay * a + PerDay /\ PerDay * b <= j /\ PerDay \in Nat \ {0}
  BY DayBounds, CreditCycleAssumption
<1>2. a + 1 <= b
  BY <1>1
<1>3. PerDay * (a + 1) = PerDay * a + PerDay
  BY <1>1
<1>4. PerDay * (a + 1) <= PerDay * b
  BY <1>1, <1>2
<1> QED BY <1>1, <1>3, <1>4

LEMMA DayNat == ASSUME NEW i \in Nat PROVE Day(i) \in Nat
<1>1. CASE Day(i) \in Nat
  BY <1>1
<1>2. CASE Day(i) \notin Nat
  <2> PICK a : a = Day(i)
    OBVIOUS
  <2>1. a \in Int /\ a < 0 /\ i < PerDay * a + PerDay /\ PerDay \in Nat \ {0}
    BY <1>2, DayBounds, CreditCycleAssumption
  <2>2. PerDay * a <= PerDay * (-1)
    BY <2>1
  <2> QED BY <2>1, <2>2
<1> QED BY <1>1, <1>2

(* Two days on, at least one day has passed.                                     *)
LEMMA ADayPassed ==
    ASSUME NEW i \in Int, NEW j \in Int, Day(i) + 1 < Day(j)
    PROVE  (j - i) \div PerDay >= 1 /\ (j - i) \div PerDay \in Nat
<1> PICK a : a = Day(i)
  OBVIOUS
<1> PICK b : b = Day(j)
  OBVIOUS
<1>1. a \in Int /\ b \in Int /\ i < PerDay * a + PerDay /\ PerDay * b <= j /\ PerDay \in Nat \ {0}
  BY DayBounds, CreditCycleAssumption
<1>2. a + 2 <= b
  BY <1>1
<1>3. PerDay * (a + 2) = PerDay * a + PerDay + PerDay
  BY <1>1
<1>4. PerDay * (a + 2) <= PerDay * b
  BY <1>1, <1>2
<1>5. j - i \in Int /\ PerDay < j - i
  BY <1>1, <1>3, <1>4
<1> PICK d : d = (j - i) \div PerDay
  OBVIOUS
<1>6. d = Day(j - i)
  BY DEF Day
<1>7. d \in Nat /\ j - i < PerDay * d + PerDay
  BY <1>5, <1>6, DayNat, DayBounds, CreditCycleAssumption
<1>8. d # 0
  BY <1>5, <1>7, CreditCycleAssumption
<1> QED BY <1>7, <1>8

-------------------------------------------------------------------------------
LEMMA PostedNat ==
    ASSUME NEW K, NEW S, IsFiniteSet(S), S \subseteq Entries
    PROVE  Posted(K, S) \in Nat
<1> DEFINE T == {e \in S : e.kind \in K}
           f == [e \in T |-> e.amount]
<1>1. IsFiniteSet(T)
  BY FS_Subset
<1>2. f \in [T -> Nat]
  BY DEF Entries
<1> HIDE DEF T, f
<1>3. SumFunction(f) \in Nat
  BY <1>1, <1>2, SumNat
<1> QED BY <1>3 DEF Posted, T, f

(* An entry more adds its amount, if it is of one of the kinds that are added.   *)
LEMMA PostedWith ==
    ASSUME NEW K, NEW S, IsFiniteSet(S), S \subseteq Entries, NEW e \in Entries, e \notin S
    PROVE  Posted(K, S \cup {e}) = Posted(K, S) + (IF e.kind \in K THEN e.amount ELSE 0)
<1> DEFINE T == {x \in S : x.kind \in K}
           U == {x \in S \cup {e} : x.kind \in K}
<1>1. IsFiniteSet(T) /\ \A x \in T : x.amount \in Int
  BY FS_Subset DEF Entries
<1>2. e.amount \in Int /\ Posted(K, S) \in Int
  BY PostedNat DEF Entries
<1>3. CASE e.kind \in K
  <2>1. U = T \cup {e} /\ e \notin T
    BY <1>3
  <2> HIDE DEF T, U
  <2>2. SumFunction([x \in U |-> x.amount]) = e.amount + SumFunction([x \in T |-> x.amount])
    BY <1>1, <1>2, <2>1, AmountsWith
  <2>3. Posted(K, S \cup {e}) = e.amount + Posted(K, S)
    BY <2>2 DEF Posted, T, U
  <2> QED BY <1>2, <1>3, <2>3
<1>4. CASE e.kind \notin K
  <2>1. U = T
    BY <1>4
  <2>2. Posted(K, S \cup {e}) = Posted(K, S)
    BY <2>1 DEF Posted
  <2> QED BY <1>2, <1>4, <2>2
<1> QED BY <1>3, <1>4

LEMMA OutstandingInt ==
    ASSUME NEW S, IsFiniteSet(S), S \subseteq Entries
    PROVE  Outstanding(S) \in Int
BY PostedNat DEF Outstanding

Effect(e) == IF e.kind = "pay" THEN -e.amount ELSE e.amount

LEMMA OutstandingWith ==
    ASSUME NEW S, IsFiniteSet(S), S \subseteq Entries, NEW e \in Entries, e \notin S
    PROVE  Outstanding(S \cup {e}) = Outstanding(S) + Effect(e)
<1>1. /\ Posted({"draw", "interest"}, S) \in Nat /\ Posted({"pay"}, S) \in Nat
      /\ e.amount \in Nat /\ e.kind \in {"draw", "pay", "interest"}
  BY PostedNat DEF Entries
<1>2. /\ Posted({"draw", "interest"}, S \cup {e}) =
            Posted({"draw", "interest"}, S) + (IF e.kind \in {"draw", "interest"} THEN e.amount ELSE 0)
      /\ Posted({"pay"}, S \cup {e}) = Posted({"pay"}, S) + (IF e.kind \in {"pay"} THEN e.amount ELSE 0)
  BY PostedWith
<1>3. CASE e.kind = "pay"
  BY <1>1, <1>2, <1>3 DEF Outstanding, Effect
<1>4. CASE e.kind # "pay"
  BY <1>1, <1>2, <1>4 DEF Outstanding, Effect
<1> QED BY <1>3, <1>4

LEMMA InterestBySign ==
    ASSUME NEW x \in Int, NEW d \in Int
    PROVE  /\ interest_for(x, d) \in Nat
           /\ interest_for(x, d) > 0 <=> (x > 0 /\ d > 0)
<1>1. CASE x <= 0 \/ d <= 0
  BY <1>1 DEF interest_for
<1>2. CASE x > 0 /\ d > 0
  <2>1. x * d \in Nat
    BY <1>2
  <2>2. (x * d) \div Slow \in Nat
    BY <2>1, CreditCycleAssumption
  <2> HIDE DEF interest_for
  <2>3. \A q \in Nat : Max({1, q}) \in Nat /\ Max({1, q}) > 0
    BY MaxOfTwo
  <2>4. interest_for(x, d) = Max({1, (x * d) \div Slow})
    BY <1>2 DEF interest_for
  <2> QED BY <1>2, <2>2, <2>3, <2>4
<1> QED BY <1>1, <1>2

LEMMA MinimumIsModest ==
    ASSUME NEW closing \in Int, NEW interest \in Nat
    PROVE  /\ minimum_payment(closing, interest) \in Nat
           /\ minimum_payment(closing, interest) > 0 => minimum_payment(closing, interest) <= closing
<1>1. CASE closing <= 0
  BY <1>1 DEF minimum_payment
<1>2. CASE closing > 0
  <2>1. closing + Share - 1 \in Nat /\ Share \in Nat \ {0} /\ Floor \in Nat
    BY <1>2, CreditCycleAssumption
  <2>2. (closing + Share - 1) \div Share \in Nat
    BY <2>1
  <2>3. PICK m : m = Max({Floor, interest + (closing + Share - 1) \div Share})
    OBVIOUS
  <2>4. m \in Nat
    BY <2>1, <2>2, <2>3, MaxOfTwo
  <2>5. minimum_payment(closing, interest) = Min({closing, m})
    BY <1>2, <2>3 DEF minimum_payment
  <2> QED BY <1>2, <2>4, <2>5, MinOfTwo
<1> QED BY <1>1, <1>2

-------------------------------------------------------------------------------
LEMMA LastIs ==
    ASSUME CycleInv, statements # << >>
    PROVE  /\ LastStatement \in Statements /\ PeriodStart = LastStatement.end /\ Carried = LastStatement.closing
           /\ Modest(LastStatement) /\ OnTerms(LastStatement)
           /\ Len(statements) \in DOMAIN statements
<1>1. statements \in Seq(Statements)
  BY DEF CycleInv, CycleTypeOK
<1>2. Len(statements) \in DOMAIN statements /\ LastStatement \in Statements
  BY <1>1 DEF LastStatement
<1>3. Modest(LastStatement) /\ OnTerms(LastStatement)
  BY <1>2 DEF CycleInv, LastStatement
<1> QED BY <1>2, <1>3 DEF PeriodStart, Carried

LEMMA PeriodStartInt == ASSUME CycleInv PROVE PeriodStart \in Int /\ Carried \in Int
<1>1. CASE statements = << >>
  BY <1>1 DEF PeriodStart, Carried
<1>2. CASE statements # << >>
  BY <1>2, LastIs DEF Statements
<1> QED BY <1>1, <1>2

LEMMA InitCycleInv == ASSUME InitCycle PROVE CycleInv
<1> USE DEF InitCycle
<1>1. CycleTypeOK
  BY FS_EmptySet DEF CycleTypeOK
<1>2. Timing
  BY DEF Timing, PeriodStart
<1>3. Outstanding(entries) = Carried + Outstanding(Since(PeriodStart))
  <2>1. entries = {} /\ Since(PeriodStart) = {} /\ Carried = 0
    BY DEF Since, Carried
  <2>2. Outstanding({}) \in Int
    BY OutstandingInt, FS_EmptySet
  <2> QED BY <2>1, <2>2
<1> QED BY <1>1, <1>2, <1>3 DEF CycleInv

(* Time goes by, something is begun or given up: nothing is accounted for yet.   *)
LEMMA NothingPosted ==
    ASSUME CycleInv, UNCHANGED <<entries, statements>>, cut' \in {cut, Nothing},
           instant' \in Nat, instant <= instant',
           \/ flying' \in {flying, Nothing}
           \/ flying' \in Postings /\ flying'.at = instant /\ instant < instant'
    PROVE  CycleInv'
<1>1. /\ PeriodStart' = PeriodStart /\ LastStatement' = LastStatement /\ Carried' = Carried
      /\ \A i : Since(i)' = Since(i)
      /\ \A s : InTime(s)' = InTime(s)
  BY DEF PeriodStart, LastStatement, Carried, Since, InTime
<1>2. CycleTypeOK'
  BY DEF CycleInv, CycleTypeOK
<1>3. Timing'
  BY <1>1, PeriodStartInt DEF CycleInv, CycleTypeOK, Timing, Entries, Postings
<1>4. \A b, e, x : Charged(b, e, x)' <=> Charged(b, e, x)
  BY <1>1 DEF Charged
<1>5. /\ Outstanding(entries)' = Carried' + Outstanding(Since(PeriodStart))'
      /\ cut' # Nothing => Outstanding(entries)' + cut'.interest = cut'.closing + Outstanding(Since(cut.end))'
  BY <1>1 DEF CycleInv
<1>6. /\ \A i \in 2..Len(statements') : Charged(statements[i - 1], statements[i].end, statements[i].interest)'
      /\ cut' # Nothing /\ statements' # << >> => Charged(LastStatement, cut.end, cut.interest)'
  BY <1>1, <1>4 DEF CycleInv
<1>7. /\ \A i \in DOMAIN statements' : Modest(statements[i])' /\ OnTerms(statements[i])'
      /\ cut' # Nothing => Modest(cut)' /\ OnTerms(cut)'
  BY DEF CycleInv, Modest, OnTerms
<1> QED BY <1>2, <1>3, <1>5, <1>6, <1>7 DEF CycleInv

(* What commits began after the last statement, and after the cut: it is in       *)
(* time for neither, and is part of what came since.                             *)
LEMMA PostingCommits ==
    ASSUME CycleInv, flying # Nothing, entries' = entries \cup {flying}, flying' = Nothing,
           UNCHANGED <<instant, statements, cut>>
    PROVE  CycleInv'
<1> PICK e : e = flying
  OBVIOUS
<1>1. /\ e \in Entries /\ e.kind # "interest" /\ e.at \in Nat /\ e \notin entries /\ entries' = entries \cup {e}
      /\ IsFiniteSet(entries) /\ entries \subseteq Entries
      /\ PeriodStart < e.at /\ e.at < instant
      /\ cut # Nothing => cut.end \in Nat /\ cut.at \in Nat /\ cut.end < cut.at /\ cut.at < e.at
  BY DEF CycleInv, CycleTypeOK, Timing, Postings, Entries
<1>2. PeriodStart' = PeriodStart /\ LastStatement' = LastStatement /\ Carried' = Carried
  BY DEF PeriodStart, LastStatement, Carried
<1>3. CycleTypeOK'
  BY <1>1, FS_AddElement DEF CycleInv, CycleTypeOK
<1>4. Timing'
  BY <1>1, <1>2 DEF CycleInv, Timing
<1>5. Outstanding(entries)' = Outstanding(entries) + Effect(e) /\ Outstanding(entries) \in Int /\ Effect(e) \in Int
  BY <1>1, OutstandingWith, OutstandingInt DEF Effect, Entries
<1>6. \A i : i < e.at => /\ Outstanding(Since(i)) \in Int
                         /\ Outstanding(Since(i))' = Outstanding(Since(i)) + Effect(e)
  <2> TAKE i
  <2> HAVE i < e.at
  <2>1. Since(i)' = Since(i) \cup {e} /\ Since(i) \subseteq entries
    BY <1>1 DEF Since
  <2>2. IsFiniteSet(Since(i)) /\ Since(i) \subseteq Entries /\ e \notin Since(i)
    BY <1>1, <2>1, FS_Subset
  <2> QED BY <1>1, <2>1, <2>2, OutstandingWith, OutstandingInt
<1>7. Outstanding(entries)' = Carried' + Outstanding(Since(PeriodStart))'
  BY <1>1, <1>2, <1>5, <1>6, PeriodStartInt DEF CycleInv
<1>8. cut' # Nothing => Outstanding(entries)' + cut'.interest = cut'.closing + Outstanding(Since(cut.end))'
  <2> HAVE cut' # Nothing
  <2>1. cut' = cut /\ cut # Nothing /\ cut.interest \in Int /\ cut.closing \in Int /\ cut.end < e.at
    BY <1>1 DEF CycleInv, CycleTypeOK
  <2>2. Outstanding(entries) + cut.interest = cut.closing + Outstanding(Since(cut.end))
    BY <2>1 DEF CycleInv
  <2>3. Outstanding(Since(cut.end))' = Outstanding(Since(cut.end)) + Effect(e) /\ Outstanding(Since(cut.end)) \in Int
    BY <1>6, <2>1
  <2> QED BY <1>5, <2>1, <2>2, <2>3
<1>9. ASSUME NEW b \in Statements, NEW i \in Nat, i < e.at, NEW x, Charged(b, i, x) PROVE Charged(b, i, x)'
  <2>1. CASE Day(i) > b.due
    <3>1. Day(i) \in Nat /\ Day(e.at) \in Nat /\ b.due \in Nat
      BY <1>1, DayNat DEF Statements
    <3>2. ~(Day(e.at) < Day(i))
      BY <1>1, <1>9, DaysPass
    <3>3. ~(Day(e.at) <= b.due)
      BY <2>1, <3>1, <3>2
    <3>4. InTime(b)' = InTime(b)
      BY <1>1, <3>3 DEF InTime
    <3> QED BY <1>9, <3>4 DEF Charged
  <2>2. CASE ~(Day(i) > b.due)
    BY <2>2 DEF Charged
  <2> QED BY <2>1, <2>2
<1>10. \A i \in 2..Len(statements') : Charged(statements[i - 1], statements[i].end, statements[i].interest)'
  <2> TAKE i \in 2..Len(statements')
  <2>1. /\ i - 1 \in DOMAIN statements /\ i \in DOMAIN statements
        /\ statements[i - 1] \in Statements /\ statements[i] \in Statements
    BY DEF CycleInv, CycleTypeOK
  <2>2. statements[i].end \in Nat /\ statements[i].end <= PeriodStart
    BY <2>1 DEF CycleInv, Timing, Statements
  <2>3. Charged(statements[i - 1], statements[i].end, statements[i].interest)
    BY DEF CycleInv
  <2>4. PICK b \in Statements : b = statements[i - 1]
    BY <2>1
  <2>5. PICK n \in Nat : n = statements[i].end /\ n < e.at
    BY <1>1, <2>2, PeriodStartInt
  <2> PICK x : x = statements[i].interest
    OBVIOUS
  <2>6. Charged(b, n, x)'
    BY <1>9, <2>3, <2>4, <2>5
  <2> QED BY <2>4, <2>5, <2>6 DEF Charged, InTime
<1>11. cut' # Nothing /\ statements' # << >> => Charged(LastStatement, cut.end, cut.interest)'
  <2> HAVE cut' # Nothing /\ statements' # << >>
  <2>1. cut # Nothing /\ statements # << >> /\ LastStatement \in Statements /\ cut.end \in Nat /\ cut.end < e.at
    BY <1>1, LastIs
  <2>2. PICK b \in Statements, n \in Nat : b = LastStatement /\ n = cut.end
    BY <2>1
  <2> PICK x : x = cut.interest
    OBVIOUS
  <2>3. Charged(b, n, x)
    BY <2>1, <2>2 DEF CycleInv
  <2>4. Charged(b, n, x)'
    BY <1>9, <2>1, <2>2, <2>3
  <2> QED BY <1>2, <2>2, <2>4 DEF Charged, InTime
<1>12. /\ \A i \in DOMAIN statements' : Modest(statements[i])' /\ OnTerms(statements[i])'
       /\ cut' # Nothing => Modest(cut)' /\ OnTerms(cut)'
  BY DEF CycleInv, Modest, OnTerms
<1> QED BY <1>3, <1>4, <1>7, <1>8, <1>10, <1>11, <1>12 DEF CycleInv

(* A cut reads when nothing is in flight, so all there is, is before it.         *)
LEMMA CutReads ==
    ASSUME CycleInv, ~Straddle, ReadCycle
    PROVE  CycleInv'
<1> PICK days : days = (instant - PeriodStart) \div PerDay
  OBVIOUS
<1> PICK interest : interest = IF statements = << >> THEN 0 ELSE interest_for(Unpaid(LastStatement), days)
  OBVIOUS
<1> PICK closing : closing = Carried + Charges(Between(PeriodStart, instant)) + interest
                                     - Posted({"pay"}, Between(PeriodStart, instant))
  OBVIOUS
<1>1. /\ cut = Nothing /\ flying = Nothing /\ PeriodStart < instant
      /\ cut' = [at |-> instant + 1, end |-> instant, interest |-> interest, closing |-> closing,
                 minimum |-> minimum_payment(closing, interest), due |-> Day(instant) + PaymentDays]
      /\ instant' = instant + 2 /\ UNCHANGED <<flying, entries, statements>>
  BY DEF ReadCycle, Carried
<1>2. /\ instant \in Nat /\ IsFiniteSet(entries) /\ entries \subseteq Entries
      /\ \A e \in entries : e.at \in Nat /\ e.at < instant
  BY DEF CycleInv, CycleTypeOK, Timing, Entries
<1>3. PeriodStart \in Int /\ Carried \in Int /\ Day(instant) \in Nat /\ PaymentDays \in Nat \ {0}
  BY <1>2, PeriodStartInt, DayNat, CreditCycleAssumption
<1>4. days \in Int
  BY <1>2, <1>3, WholeDays, CreditCycleAssumption
<1>5. \A s \in Statements : /\ PaidBy(s) = Posted({"pay"}, InTime(s)) /\ PaidBy(s) \in Nat
                            /\ Unpaid(s) \in Int /\ (Unpaid(s) > 0 <=> PaidBy(s) < s.closing)
  <2> TAKE s \in Statements
  <2>1. PaidBy(s) = Posted({"pay"}, InTime(s))
    BY DEF PaidBy, InTime
  <2>2. IsFiniteSet(InTime(s)) /\ InTime(s) \subseteq Entries
    BY <1>2, FS_Subset DEF InTime
  <2>3. PaidBy(s) \in Nat /\ s.closing \in Int
    BY <2>1, <2>2, PostedNat DEF Statements
  <2>4. Unpaid(s) = IF 0 >= s.closing - PaidBy(s) THEN 0 ELSE s.closing - PaidBy(s)
    BY <2>3, MaxOfTwo DEF Unpaid
  <2> QED BY <2>1, <2>3, <2>4
<1>6. interest \in Nat
  <2>1. CASE statements = << >>
    BY <2>1
  <2>2. CASE statements # << >>
    BY <2>2, <1>4, <1>5, LastIs, InterestBySign
  <2> QED BY <2>1, <2>2
<1>7. Outstanding(entries) + interest = closing /\ closing \in Int
  <2> DEFINE moved == Between(PeriodStart, instant)
             since == Since(PeriodStart)
  <2>1. {e \in moved : e.kind \in {"draw"}} = {e \in since : e.kind \in {"draw", "interest"}}
    BY <1>2 DEF Between, Since, Entries
  <2>2. {e \in moved : e.kind \in {"pay"}} = {e \in since : e.kind \in {"pay"}}
    BY <1>2 DEF Between, Since, Entries
  <2>3. Charges(moved) = Posted({"draw", "interest"}, since) /\ Posted({"pay"}, moved) = Posted({"pay"}, since)
    BY <2>1, <2>2 DEF Charges, Posted
  <2>4. IsFiniteSet(since) /\ since \subseteq Entries
    BY <1>2, FS_Subset DEF Since
  <2>5. Posted({"draw", "interest"}, since) \in Nat /\ Posted({"pay"}, since) \in Nat
    BY <2>4, PostedNat
  <2>6. Outstanding(entries) = Carried + Posted({"draw", "interest"}, since) - Posted({"pay"}, since)
    BY <1>3, <2>5 DEF CycleInv, Outstanding
  <2> QED BY <1>3, <1>6, <2>3, <2>5, <2>6
<1>8. /\ minimum_payment(closing, interest) \in Nat
      /\ minimum_payment(closing, interest) > 0 => minimum_payment(closing, interest) <= closing
  BY <1>6, <1>7, MinimumIsModest
<1>9. /\ cut'.at = instant + 1 /\ cut'.end = instant /\ cut'.interest = interest /\ cut'.closing = closing
      /\ cut'.minimum = minimum_payment(closing, interest) /\ cut'.due = Day(instant) + PaymentDays
  BY <1>1
<1>10. CycleTypeOK'
  BY <1>1, <1>2, <1>3, <1>6, <1>7, <1>8, <1>9 DEF CycleInv, CycleTypeOK
<1>11. Timing'
  <2>1. PeriodStart' = PeriodStart
    BY <1>1 DEF PeriodStart, LastStatement
  <2> QED BY <1>1, <1>2, <1>3, <1>9, <2>1 DEF CycleInv, Timing
<1>12. Outstanding(entries)' = Carried' + Outstanding(Since(PeriodStart))'
  BY <1>1 DEF CycleInv, Carried, Since, PeriodStart, LastStatement
<1>13. Outstanding(entries)' + cut'.interest = cut'.closing + Outstanding(Since(cut.end))'
  <2>1. Since(cut.end)' = {}
    BY <1>1, <1>2, <1>9 DEF Since
  <2>2. Outstanding({}) = 0
    <3>1. \A K : {e \in {} : e.kind \in K} = {}
      OBVIOUS
    <3>2. \A K : Posted(K, {}) = 0
      BY <3>1, SumNone DEF Posted
    <3> QED BY <3>2 DEF Outstanding
  <2>3. Outstanding(Since(cut.end))' = 0
    BY <2>1, <2>2
  <2>4. Outstanding(entries)' = Outstanding(entries)
    BY <1>1
  <2> QED BY <1>7, <1>9, <2>3, <2>4
<1>14. \A i \in 2..Len(statements') : Charged(statements[i - 1], statements[i].end, statements[i].interest)'
  BY <1>1 DEF CycleInv, Charged, InTime
<1>15. statements' # << >> => Charged(LastStatement, cut.end, cut.interest)'
  <2> HAVE statements' # << >>
  <2>1. statements # << >> /\ LastStatement \in Statements /\ OnTerms(LastStatement)
        /\ PeriodStart = LastStatement.end
    BY <1>1, LastIs
  <2>2. ASSUME Day(instant) > LastStatement.due
        PROVE  interest > 0 <=> Posted({"pay"}, InTime(LastStatement)) < LastStatement.closing
    <3>1. Day(PeriodStart) + 1 < Day(instant)
      <4>1. Day(PeriodStart) \in Int
        BY <1>3, DayBounds
      <4> QED BY <1>3, <2>1, <2>2, <4>1 DEF OnTerms
    <3>2. days >= 1
      BY <1>2, <1>3, <3>1, ADayPassed
    <3>3. PICK u \in Int : u = Unpaid(LastStatement)
      BY <1>5, <2>1
    <3>4. interest = interest_for(u, days)
      BY <2>1, <3>3
    <3>5. interest > 0 <=> (u > 0 /\ days > 0)
      BY ONLY <1>4, <3>3, <3>4, InterestBySign
    <3> QED BY <1>4, <1>5, <2>1, <3>2, <3>3, <3>5
  <2>3. Charged(LastStatement, instant, interest)
    BY <2>2 DEF Charged
  <2> QED BY <1>1, <1>9, <2>3 DEF Charged, InTime, LastStatement
<1>16. /\ \A i \in DOMAIN statements' : Modest(statements[i])' /\ OnTerms(statements[i])'
       /\ Modest(cut)' /\ OnTerms(cut)'
  BY <1>1, <1>8, <1>9 DEF CycleInv, Modest, OnTerms
<1> QED BY <1>10, <1>11, <1>12, <1>13, <1>14, <1>15, <1>16 DEF CycleInv

(* The interest of a cut is owed once its statement says so, and is no use of    *)
(* the card.                                                                     *)
LEMMA CutCommits ==
    ASSUME CycleInv, close_cycle
    PROVE  CycleInv'
<1> PICK e : e = [at |-> cut.at, kind |-> "interest", amount |-> cut.interest]
  OBVIOUS
<1> PICK s : s = [end |-> cut.end, due |-> cut.due, closing |-> cut.closing,
                  interest |-> cut.interest, minimum |-> cut.minimum]
  OBVIOUS
<1>1. /\ cut # Nothing /\ cut' = Nothing /\ UNCHANGED <<instant, flying>>
      /\ entries' = IF cut.interest > 0 THEN entries \cup {e} ELSE entries
      /\ statements' = Append(statements, s)
  BY DEF close_cycle
<1>2. /\ s \in Statements /\ instant \in Nat /\ statements \in Seq(Statements)
      /\ IsFiniteSet(entries) /\ entries \subseteq Entries
      /\ cut.at \in Nat /\ cut.interest \in Nat /\ cut.end \in Nat /\ cut.closing \in Int
      /\ s.end = cut.end /\ s.due = cut.due /\ s.closing = cut.closing
      /\ s.interest = cut.interest /\ s.minimum = cut.minimum
  BY <1>1 DEF CycleInv, CycleTypeOK, Statements
<1>3. /\ PeriodStart < cut.end /\ cut.end < cut.at /\ cut.at < instant
      /\ \A x \in entries : x.at # cut.at
      /\ flying # Nothing => cut.at < flying.at
  BY <1>1 DEF CycleInv, Timing
<1>4. cut.interest > 0 => e \in Entries /\ e \notin entries /\ e.at = cut.at
  BY <1>2, <1>3 DEF Entries
<1>5. /\ statements' \in Seq(Statements) /\ statements' # << >> /\ Len(statements') = Len(statements) + 1
      /\ statements'[Len(statements')] = s
      /\ \A i \in DOMAIN statements : i \in DOMAIN statements' /\ statements'[i] = statements[i]
      /\ \A i \in DOMAIN statements' : i \in DOMAIN statements \/ i = Len(statements) + 1
      /\ Len(statements) \in Nat /\ DOMAIN statements = 1..Len(statements)
  BY <1>1, <1>2
<1>6. LastStatement' = s /\ PeriodStart' = cut.end /\ Carried' = cut.closing
  BY <1>2, <1>5 DEF LastStatement, PeriodStart, Carried
<1>7. IsFiniteSet(entries') /\ entries' \subseteq Entries
  BY <1>1, <1>2, <1>4, FS_AddElement
<1>8. CycleTypeOK'
  BY <1>1, <1>2, <1>5, <1>7 DEF CycleInv, CycleTypeOK
<1>9. Timing'
  <2>1. PeriodStart' < instant'
    BY <1>1, <1>2, <1>3, <1>6
  <2>2. \A i \in DOMAIN statements' : statements'[i].end <= PeriodStart'
    <3> TAKE i \in DOMAIN statements'
    <3>1. CASE i \in DOMAIN statements
      <4>1. statements[i] \in Statements
        BY <1>2, <3>1
      <4>2. statements[i].end <= PeriodStart /\ statements[i].end \in Nat
        BY <3>1, <4>1 DEF CycleInv, Timing, Statements
      <4> QED BY <1>2, <1>3, <1>5, <1>6, <3>1, <4>2, PeriodStartInt
    <3>2. CASE i = Len(statements) + 1
      BY <1>2, <1>5, <1>6, <3>2
    <3> QED BY <1>5, <3>1, <3>2
  <2>3. \A x \in entries' : x.at < instant'
    BY <1>1, <1>3, <1>4 DEF CycleInv, Timing
  <2>4. flying' # Nothing => /\ PeriodStart' < flying'.at /\ flying'.at < instant'
                             /\ \A x \in entries' : x.at # flying'.at
    <3> HAVE flying' # Nothing
    <3>1. flying' = flying /\ flying # Nothing /\ flying.at \in Nat /\ flying.at < instant /\ cut.at < flying.at
      BY <1>1, <1>3 DEF CycleInv, CycleTypeOK, Timing, Postings, Entries
    <3>2. \A x \in entries' : x.at # flying.at
      BY <1>1, <1>2, <1>4, <3>1 DEF CycleInv, Timing
    <3> QED BY <1>1, <1>2, <1>3, <1>6, <3>1, <3>2
  <2> QED BY <1>1, <2>1, <2>2, <2>3, <2>4 DEF Timing
<1>10. /\ Outstanding(entries)' = Outstanding(entries) + cut.interest
       /\ Outstanding(entries) \in Int
  <2>1. CASE cut.interest > 0
    <3>1. Outstanding(entries \cup {e}) = Outstanding(entries) + Effect(e)
      BY <1>2, <1>4, <2>1, OutstandingWith
    <3>2. Effect(e) = cut.interest
      BY DEF Effect
    <3> QED BY <1>1, <1>2, <2>1, <3>1, <3>2, OutstandingInt
  <2>2. CASE ~(cut.interest > 0)
    BY <1>1, <1>2, <2>2, OutstandingInt
  <2> QED BY <2>1, <2>2
<1>11. \A i : Since(i)' = Since(i)
  BY <1>1 DEF Since
<1>12. Outstanding(entries)' = Carried' + Outstanding(Since(PeriodStart))'
  <2>1. Outstanding(entries) + cut.interest = cut.closing + Outstanding(Since(cut.end))
    BY <1>1 DEF CycleInv
  <2>2. Since(PeriodStart)' = Since(cut.end)
    BY <1>1, <1>6 DEF Since
  <2> QED BY <1>6, <1>10, <2>1, <2>2
<1>13. \A b, i, x : Charged(b, i, x)' <=> Charged(b, i, x)
  <2>1. \A b : {y \in InTime(b)' : y.kind \in {"pay"}} = {y \in InTime(b) : y.kind \in {"pay"}}
    BY <1>1 DEF InTime
  <2>2. \A b : Posted({"pay"}, InTime(b))' = Posted({"pay"}, InTime(b))
    BY <2>1 DEF Posted
  <2> QED BY <2>2 DEF Charged
<1>14. \A i \in 2..Len(statements') : Charged(statements[i - 1], statements[i].end, statements[i].interest)'
  <2> TAKE i \in 2..Len(statements')
  <2> PICK b, n, x : b = statements'[i - 1] /\ n = statements'[i].end /\ x = statements'[i].interest
    OBVIOUS
  <2>1. Charged(b, n, x)
    <3>1. CASE i \in DOMAIN statements
      <4>1. i - 1 \in DOMAIN statements /\ i \in 2..Len(statements)
        BY <1>5, <3>1
      <4>2. b = statements[i - 1] /\ n = statements[i].end /\ x = statements[i].interest
        BY <1>5, <3>1, <4>1
      <4> QED BY <4>1, <4>2 DEF CycleInv
    <3>2. CASE i = Len(statements) + 1
      <4>1. statements # << >> /\ i - 1 = Len(statements) /\ Len(statements) \in DOMAIN statements
        BY <1>2, <1>5, <3>2
      <4>2. b = LastStatement /\ n = cut.end /\ x = cut.interest
        BY <1>2, <1>5, <3>2, <4>1 DEF LastStatement
      <4> QED BY <1>1, <4>1, <4>2 DEF CycleInv
    <3> QED BY <1>5, <3>1, <3>2
  <2>2. Charged(b, n, x)'
    BY <1>13, <2>1
  <2> QED BY <2>2 DEF Charged, InTime
<1>15. \A i \in DOMAIN statements' : Modest(statements[i])' /\ OnTerms(statements[i])'
  <2> TAKE i \in DOMAIN statements'
  <2>1. CASE i \in DOMAIN statements
    BY <1>5, <2>1 DEF CycleInv, Modest, OnTerms
  <2>2. CASE i = Len(statements) + 1
    BY <1>1, <1>2, <1>5, <2>2 DEF CycleInv, Modest, OnTerms
  <2> QED BY <1>5, <2>1, <2>2
<1> QED BY <1>1, <1>8, <1>9, <1>12, <1>14, <1>15 DEF CycleInv

LEMMA CycleInvNext ==
    ASSUME CycleInv, ~Straddle, [NextCycle]_cycleVars
    PROVE  CycleInv'
<1>1. instant \in Nat
  BY DEF CycleInv, CycleTypeOK
<1>2. ASSUME NEW kind \in {"draw", "pay"}, NEW x \in Amounts, BeginPosting(kind, x) PROVE CycleInv'
  <2>1. flying' \in Postings /\ flying'.at = instant
    <3>1. x \in Nat \ {0}
      BY CreditCycleAssumption
    <3> QED BY <1>1, <1>2, <3>1 DEF BeginPosting, Postings, Entries
  <2> QED BY <1>1, <1>2, <2>1, NothingPosted DEF BeginPosting
<1>3. CASE CommitPosting
  BY <1>3, PostingCommits DEF CommitPosting
<1>4. CASE RejectPosting \/ TimePasses \/ CutFails \/ UNCHANGED cycleVars
  BY <1>1, <1>4, NothingPosted DEF RejectPosting, TimePasses, CutFails, cycleVars
<1>5. CASE cut_due \/ CloseCycleNow
  BY <1>5, CutReads DEF cut_due, CloseCycleNow
<1>6. CASE close_cycle
  BY <1>6, CutCommits
<1>7. CASE review_all \/ ReviewPaid \/ PassDueDate
  BY <1>1, <1>7, NothingPosted DEF review_all, ReviewPaid, PassDueDate
<1>8. ASSUME NEW r \in DOMAIN review, WriteReview(r) PROVE CycleInv'
  BY <1>1, <1>8, NothingPosted DEF WriteReview
<1> QED BY <1>2, <1>3, <1>4, <1>5, <1>6, <1>7, <1>8 DEF NextCycle

(* What CycleInv says holds for ever, whenever a payment commits, a cut fails or *)
(* one is made ahead of its day (close_cycle).                                   *)
THEOREM CycleInvariant == ASSUME ~Straddle PROVE CycleSpec => []CycleInv
<1>1. InitCycle => CycleInv
  BY InitCycleInv
<1>2. CycleInv /\ [NextCycle]_cycleVars => CycleInv'
  BY CycleInvNext
<1> QED BY <1>1, <1>2, PTL DEF CycleSpec

LEMMA DebtAccounted == ASSUME CycleInv PROVE AccountForTheDebt
<1>1. ASSUME statements # << >>
      PROVE  LET since == {e \in entries : e.at > LastStatement.end /\ e.kind # "interest"} IN
             Outstanding(entries) = LastStatement.closing + Outstanding(since)
  BY <1>1, LastIs DEF CycleInv, Since
<1>2. ASSUME NEW i \in 2..Len(statements)
      PROVE  LET before == statements[i - 1]
                 inTime == {e \in entries : before.end < e.at /\ Day(e.at) <= before.due}
             IN Day(statements[i].end) > before.due =>
                    (statements[i].interest > 0 <=> Posted({"pay"}, inTime) < before.closing)
  BY DEF CycleInv, Charged, InTime
<1> QED BY <1>1, <1>2 DEF AccountForTheDebt

LEMMA ArrearsAgreed == ASSUME CycleInv PROVE AgreeOnArrears
<1> SUFFICES ASSUME statements # << >> PROVE AgreeOnArrears
  BY DEF AgreeOnArrears
<1> PICK s : s = LastStatement
  OBVIOUS
<1> PICK paid : paid = PaidSinceCut(s)
  OBVIOUS
<1> PICK today : today = Day(instant)
  OBVIOUS
<1> PICK local : local = Day(instant - Lag)
  OBVIOUS
<1>1. /\ s \in Statements /\ s.closing \in Int /\ s.minimum \in Nat /\ s.due \in Nat /\ Modest(s)
      /\ Len(statements) \in DOMAIN statements /\ s = statements[Len(statements)]
  BY LastIs DEF Statements, LastStatement
<1>2. paid \in Nat
  <2>1. IsFiniteSet(entries) /\ entries \subseteq Entries
    BY DEF CycleInv, CycleTypeOK
  <2>2. IsFiniteSet({e \in entries : e.at > s.end}) /\ {e \in entries : e.at > s.end} \subseteq Entries
    BY <2>1, FS_Subset
  <2> QED BY <2>2, PostedNat DEF PaidSinceCut
<1>3. today \in Int /\ local \in Int /\ local <= today
  <2>1. instant \in Int /\ instant - Lag \in Int /\ instant - Lag <= instant
    BY CreditCycleAssumption DEF CycleInv, CycleTypeOK
  <2>2. today \in Int /\ local \in Int
    BY <2>1, DayBounds
  <2>3. ~(today < local)
    BY <2>1, DaysPass
  <2> QED BY <2>2, <2>3
<1>4. ASSUME s.due < today PROVE Behind(today) <=> paid < s.minimum
  <2>1. statements \in Seq(Statements) /\ DOMAIN statements = 1..Len(statements) /\ Len(statements) \in Nat
    BY DEF CycleInv, CycleTypeOK
  <2> DEFINE due == Overdue(today)
  <2>2. Len(statements) \in due /\ due \subseteq 1..Len(statements)
    BY <1>1, <1>4, <2>1 DEF Overdue
  <2> HIDE DEF due
  <2>3. Max(due) = Len(statements)
    BY <2>1, <2>2, MaxIsLast
  <2>4. Behind(today) <=> due # {} /\ PaidSinceCut(statements[Max(due)]) < statements[Max(due)].minimum
    BY DEF Behind, due
  <2> QED BY <1>1, <2>2, <2>3, <2>4
<1>5. PICK left : left = Max({0, s.minimum - paid})
  OBVIOUS
<1>6. left \in Nat /\ (left > 0 <=> paid < s.minimum)
  <2>1. PICK d \in Int : d = s.minimum - paid
    BY <1>1, <1>2
  <2>2. left = IF 0 >= d THEN 0 ELSE d
    BY <1>5, <2>1, MaxOfTwo
  <2>3. d > 0 <=> paid < s.minimum
    BY ONLY <1>1, <1>2, <2>1
  <2>4. CASE 0 >= d
    BY <2>1, <2>2, <2>3, <2>4
  <2>5. CASE ~(0 >= d)
    BY <2>1, <2>2, <2>3, <2>5
  <2> QED BY <2>4, <2>5
<1>7. PICK overdue \in BOOLEAN : overdue <=> s.due < local /\ left > 0
  OBVIOUS
<1>8. /\ s.closing <= paid \/ (s.due < local /\ left = 0) => cardDue(s, local) = NothingDue
      /\ ~(s.closing <= paid \/ (s.due < local /\ left = 0)) =>
            cardDue(s, local).minimum = left /\ cardDue(s, local).overdue = overdue
      /\ NothingDue.overdue = FALSE
  <2>1. cardDue(s, local) = IF s.closing <= paid \/ (s.due < local /\ left = 0) THEN NothingDue
                            ELSE [total |-> s.closing - paid, minimum |-> left, overdue |-> overdue]
    BY <1>5, <1>7 DEF cardDue
  <2> QED BY <2>1 DEF NothingDue
<1>9. CASE paid >= s.closing
  <2>1. toStatement(s, today) = "paid"
    BY <1>1, <1>2, <1>9 DEF toStatement
  <2>2. cardDue(s, local) = NothingDue
    BY <1>1, <1>2, <1>8, <1>9
  <2>3. ~(paid < s.minimum)
    BY <1>1, <1>2, <1>9 DEF Modest
  <2> QED BY <1>4, <1>8, <2>1, <2>2, <2>3 DEF AgreeOnArrears
<1>10. CASE paid < s.closing /\ paid >= s.minimum
  <2>1. toStatement(s, today) = "minimum_paid"
    BY <1>1, <1>2, <1>10 DEF toStatement
  <2>2. left = 0 /\ ~overdue
    BY <1>1, <1>2, <1>6, <1>7, <1>10
  <2>4. ~cardDue(s, local).overdue
    BY <1>8, <2>2
  <2>3. ~(paid < s.minimum)
    BY <1>1, <1>2, <1>10
  <2> QED BY <1>4, <2>1, <2>3, <2>4 DEF AgreeOnArrears
<1>11. CASE paid < s.closing /\ paid < s.minimum
  <2>0. left > 0 /\ ~(s.closing <= paid \/ (s.due < local /\ left = 0))
    BY <1>1, <1>2, <1>6, <1>11
  <2>1. left > 0 /\ cardDue(s, local).minimum = left /\ (cardDue(s, local).overdue <=> s.due < local)
    BY <1>7, <1>8, <2>0
  <2>2. toStatement(s, today) = IF today > s.due THEN "past_due" ELSE "pending"
    BY <1>1, <1>2, <1>3, <1>11 DEF toStatement
  <2>3. CASE today > s.due
    BY <1>1, <1>3, <1>4, <1>11, <2>1, <2>2, <2>3 DEF AgreeOnArrears
  <2>4. CASE ~(today > s.due)
    BY <1>1, <1>3, <1>11, <2>1, <2>2, <2>4 DEF AgreeOnArrears
  <2> QED BY <2>3, <2>4
<1> QED BY <1>1, <1>2, <1>9, <1>10, <1>11

(* The last closing and what was posted since are what is owed, interest is for  *)
(* who had not paid whole in time, and the core, the customer's screen and the   *)
(* forecast agree on arrears (close_cycle; review; toStatement; cardDue).        *)
THEOREM StatementsAlwaysTell == ASSUME ~Straddle PROVE CycleSpec => []StatementsTellTheDebt
<1>1. CycleInv => StatementsTellTheDebt
  BY DebtAccounted, ArrearsAgreed DEF StatementsTellTheDebt
<1> QED BY <1>1, CycleInvariant, PTL

===============================================================================
