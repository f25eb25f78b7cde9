---------------------------- MODULE PaymentsProofs ----------------------------
(* Proofs about authorizations, for every set of accounts, keys, commands and     *)
(* movements, every limit and an unbounded ledger (Authorizations), and about     *)
(* what surrounds one, for any payments: the sweeper that expires them (Sweeper), *)
(* the mandates they are made under (Mandates), and the calls integrations make   *)
(* about them (PaymentCalls).                                                     *)
EXTENDS Sweeper, Mandates, PaymentCalls, Sums, TLAPS

(******************************************************************************)
(* Authorizations: what is held is what is live, and the stored balances are  *)
(* the ledger's.                                                              *)
(******************************************************************************)
AllKinds == AuthKinds \cup {"transfer", "pocket_transfer"}

(* What the columns of one row have to do with each other.                     *)
RowAgrees(k) ==
    /\ Exists(k) => /\ auth[k].amount > 0
                    /\ auth[k].payer \in Customers
                    /\ auth[k].payee \in Customers
    /\ ~Exists(k) => auth[k].amount = 0
    /\ auth[k].status \in {"ABSENT", "AUTHORIZED", "CAPTURED", "RELEASED"} =>
          auth[k].refunded = 0
    /\ auth[k].status = "PARTIALLY_REFUNDED" =>
          auth[k].refunded > 0 /\ auth[k].refunded < auth[k].amount
    /\ auth[k].status = "REFUNDED" => auth[k].refunded = auth[k].amount

RowsAgree == \A k \in Keys : RowAgrees(k)

(* The inductive invariant: without the columns of the row, the ledger's view of *)
(* a refund could not be compared with the status it leaves.                     *)
IInv == TypeOK /\ RowsAgree /\ StatusMatchesLedger /\ RefundsChain

-------------------------------------------------------------------------------
(* A posting keeps the types of the ledger.                                     *)
LEMMA PostTypes ==
    ASSUME TypeOK, NEW p \in Postings(AllKinds), Post(p)
    PROVE  /\ posted' \subseteq Postings(AllKinds)
           /\ balance' \in [Accounts -> Int]
<1>1. posted' \subseteq Postings(AllKinds)
  BY DEF Post, TypeOK, AllKinds
<1>2. p.from \in Accounts /\ p.to \in Accounts /\ p.amount \in Int
  BY DEF Postings
<1>3. Moved(p) \in [Accounts -> Int]
  BY <1>2 DEF Moved, TypeOK
<1>4. balance' \in [Accounts -> Int]
  BY <1>3 DEF Post, TypeOK
<1> QED BY <1>1, <1>4

(* After a posting the ledger holds exactly that posting more.                  *)
LEMMA PostHas ==
    ASSUME NEW p, Post(p), NEW kind, NEW k
    PROVE  Has(kind, k)' <=> Has(kind, k) \/ (p.kind = kind /\ p.ref = k)
BY DEF Post, Has

(* The initial states satisfy the invariant.                                    *)
LEMMA InitIInv ==
    ASSUME Init PROVE IInv
<1> USE PostingAssumption, AuthorizationsAssumption
<1>1. balance \in [Accounts -> Int]
  BY DEF Init, LedgerInit, Accounts
<1>2. \A k \in Keys : auth[k] = Absent
  BY DEF Init
<1>3. Absent \in [status : Statuses, payer : Accounts, payee : Accounts,
                  amount : Nat, refunded : Nat, expires : Nat]
  BY DEF Absent, Statuses, Accounts
<1>4. TypeOK
  BY <1>1, <1>3 DEF Init, LedgerInit, TypeOK
<1>5. RowsAgree
  BY <1>2 DEF RowsAgree, RowAgrees, Exists, Absent
<1>6. StatusMatchesLedger
  BY <1>2 DEF Init, LedgerInit, StatusMatchesLedger, StatusMatches, Has, Exists, Absent, Captured
<1>7. RefundsChain
  BY <1>2 DEF Init, LedgerInit, RefundsChain, Chained, RefundsOf, Exists, Absent
<1> QED BY <1>4, <1>5, <1>6, <1>7 DEF IInv

(* A step that posts at most one posting p, of the key k, and leaves the rows of *)
(* the other keys alone leaves what is known of them alone.                      *)
LEMMA OthersKept ==
    ASSUME IInv, NEW p, NEW k,
           posted' = posted \cup {p}, p.ref = k \/ p.kind \notin AuthKinds,
           NEW j \in Keys, j # k \/ p.kind \notin AuthKinds, auth'[j] = auth[j]
    PROVE  RowAgrees(j)' /\ StatusMatches(j)' /\ Chained(j)'
<1>1. RowAgrees(j)'
  BY DEF IInv, RowsAgree, RowAgrees, Exists
<1>2. \A kind \in AuthKinds : Has(kind, j)' <=> Has(kind, j)
  BY DEF Has
<1>3. StatusMatches(j)'
  <2>1. Exists(j)' <=> Exists(j)
    BY DEF Exists
  <2>2. \A q \in posted' : q.ref = j /\ q.kind \in AuthKinds => q \in posted
    OBVIOUS
  <2> QED BY <1>2, <2>1, <2>2 DEF IInv, StatusMatchesLedger, StatusMatches, AuthKinds
<1>4. Chained(j)'
  <2>1. RefundsOf(j)' = RefundsOf(j)
    BY DEF RefundsOf, AuthKinds
  <2> QED BY <2>1 DEF IInv, RefundsChain, Chained, Exists
<1> QED BY <1>1, <1>3, <1>4

(* A posting that is not of an authorization disturbs nothing but the balances.  *)
LEMMA LedgerStep ==
    ASSUME IInv, LedgerNext, UNCHANGED <<auth, now>>
    PROVE  IInv'
<1>1. CASE \E key \in MovementKeys, m \in Movements : Move(key, m)
  <2>1. PICK key \in MovementKeys, m \in Movements : Move(key, m)
    BY <1>1
  <2> DEFINE p == [kind |-> m.kind, ref |-> key, seq |-> 0,
                   from |-> m.from, to |-> m.to, amount |-> m.amount]
  <2>2. p \in Postings(AllKinds) /\ p.kind \notin AuthKinds
    BY PostingAssumption DEF Postings, AllKinds, AuthKinds
  <2>3. Post(p) /\ UNCHANGED closed
    BY <2>1 DEF Move
  <2> HIDE DEF p
  <2>4. TypeOK'
    BY <2>2, <2>3, PostTypes DEF IInv, TypeOK, AllKinds
  <2>5. posted' = posted \cup {p}
    BY <2>3 DEF Post
  <2>6. \A j \in Keys : RowAgrees(j)' /\ StatusMatches(j)' /\ Chained(j)'
    BY <2>2, <2>5, OthersKept
  <2> QED BY <2>4, <2>6 DEF IInv, RowsAgree, StatusMatchesLedger, RefundsChain
<1>2. CASE \E a \in Accounts : ClosePocket(a)
  <2>1. UNCHANGED <<posted, balance>> /\ closed' \subseteq Pockets
    BY <1>2 DEF ClosePocket, IInv, TypeOK
  <2>2. TypeOK'
    BY <2>1 DEF IInv, TypeOK
  <2>3. \A j \in Keys : RowAgrees(j)' /\ StatusMatches(j)' /\ Chained(j)'
    BY <2>1 DEF IInv, RowsAgree, RowAgrees, StatusMatchesLedger, StatusMatches,
                RefundsChain, Chained, RefundsOf, Has, Exists
  <2> QED BY <2>2, <2>3 DEF IInv, RowsAgree, StatusMatchesLedger, RefundsChain
<1> QED BY <1>1, <1>2 DEF LedgerNext

(* The passage of time.                                                          *)
LEMMA TickStep ==
    ASSUME IInv, Tick PROVE IInv'
<1>1. UNCHANGED <<posted, balance, closed, auth>> /\ now' = now + 1
  BY DEF Tick, ledgerVars
<1>2. TypeOK'
  <2>1. now' \in Nat
    BY <1>1 DEF IInv, TypeOK
  <2> QED BY <1>1, <2>1 DEF IInv, TypeOK
<1>3. \A j \in Keys : RowAgrees(j)' /\ StatusMatches(j)' /\ Chained(j)'
  BY <1>1 DEF IInv, RowsAgree, RowAgrees, StatusMatchesLedger, StatusMatches,
              RefundsChain, Chained, RefundsOf, Has, Exists
<1> QED BY <1>2, <1>3 DEF IInv, RowsAgree, StatusMatchesLedger, RefundsChain

(* A new row under a hold: nothing was posted for the key before.                *)
LEMMA AuthorizeStep ==
    ASSUME IInv, NEW k \in Keys, NEW c \in Commands, Authorize(k, c)
    PROVE  IInv'
<1> DEFINE p == HoldOf(k, c)
<1>1. /\ p.kind = "authorization_hold" /\ p.ref = k /\ p.amount = c.amount
      /\ p \in Postings(AllKinds)
  BY AuthorizationsAssumption DEF HoldOf, Postings, AllKinds, AuthKinds, Accounts
<1>2. /\ Post(p) /\ UNCHANGED <<closed, now>> /\ ~Exists(k)
      /\ posted' = posted \cup {p}
  BY DEF Authorize, Post
<1> HIDE DEF p
<1>3. /\ \A j \in Keys \ {k} : auth'[j] = auth[j]
      /\ auth'[k] = [status |-> "AUTHORIZED", payer |-> c.payer, payee |-> c.payee,
                     amount |-> c.amount, refunded |-> 0, expires |-> now + c.ttl]
  BY DEF Authorize, IInv, TypeOK
<1>4. auth' \in [Keys -> [status : Statuses, payer : Accounts, payee : Accounts,
                          amount : Nat, refunded : Nat, expires : Nat]]
  <2>1. auth'[k] \in [status : Statuses, payer : Accounts, payee : Accounts,
                      amount : Nat, refunded : Nat, expires : Nat]
    BY <1>3, AuthorizationsAssumption DEF Statuses, Live, Accounts, IInv, TypeOK
  <2> QED BY <2>1 DEF Authorize, IInv, TypeOK
<1>5. TypeOK'
  BY <1>1, <1>2, <1>4, PostTypes DEF IInv, TypeOK, AllKinds
<1>6. \A kind : Has(kind, k)' <=> Has(kind, k) \/ kind = "authorization_hold"
  BY <1>1, <1>2, PostHas
<1>7. \A kind \in AuthKinds : ~Has(kind, k)
  BY <1>2 DEF IInv, StatusMatchesLedger, StatusMatches, Exists, Captured, AuthKinds
<1>8. RowAgrees(k)'
  BY <1>3, AuthorizationsAssumption DEF RowAgrees, Exists
<1>9. StatusMatches(k)'
  <2>1. \A q \in posted' : q.ref = k /\ q.kind \in AuthKinds => q = p
    BY <1>2, <1>7 DEF Has
  <2> QED BY <1>1, <1>3, <1>6, <1>7, <2>1 DEF StatusMatches, Exists, Captured, AuthKinds
<1>10. Chained(k)'
  <2>1. RefundsOf(k)' = {}
    BY <1>1, <1>2, <1>7 DEF RefundsOf, Has, AuthKinds
  <2> QED BY <1>3, <2>1, AuthorizationsAssumption DEF Chained, Exists
<1>11. \A j \in Keys \ {k} : RowAgrees(j)' /\ StatusMatches(j)' /\ Chained(j)'
  BY <1>1, <1>2, <1>3, OthersKept
<1> QED BY <1>5, <1>8, <1>9, <1>10, <1>11
        DEF IInv, RowsAgree, StatusMatchesLedger, RefundsChain

(* A capture posts the hold to the payee, once.                                   *)
LEMMA CaptureStep ==
    ASSUME IInv, NEW k \in Keys, Capture(k)
    PROVE  IInv'
<1> DEFINE p == CaptureOf(k)
<1>1. /\ Post(p) /\ UNCHANGED <<closed, now>> /\ auth[k].status = "AUTHORIZED"
      /\ posted' = posted \cup {p}
  BY DEF Capture, Post
<1>2. /\ p.kind = "authorization_capture" /\ p.ref = k /\ p.amount = auth[k].amount
      /\ p \in Postings(AllKinds)
  BY <1>1, AuthorizationsAssumption
     DEF CaptureOf, Postings, AllKinds, AuthKinds, Accounts, IInv, TypeOK, RowsAgree,
         RowAgrees, Exists
<1> HIDE DEF p
<1>3. /\ \A j \in Keys \ {k} : auth'[j] = auth[j]
      /\ auth'[k] = [auth[k] EXCEPT !.status = "CAPTURED"]
  BY DEF Capture, IInv, TypeOK
<1>4. auth' \in [Keys -> [status : Statuses, payer : Accounts, payee : Accounts,
                          amount : Nat, refunded : Nat, expires : Nat]]
  BY DEF Capture, IInv, TypeOK, Statuses, Captured
<1>5. TypeOK'
  BY <1>1, <1>2, <1>4, PostTypes DEF IInv, TypeOK, AllKinds
<1>6. /\ auth'[k].status = "CAPTURED" /\ auth'[k].amount = auth[k].amount
      /\ auth'[k].payer = auth[k].payer /\ auth'[k].payee = auth[k].payee
      /\ auth'[k].refunded = auth[k].refunded /\ auth[k].refunded = 0
      /\ auth[k].amount \in Nat /\ auth[k].amount > 0
  BY <1>1, <1>3 DEF IInv, TypeOK, RowsAgree, RowAgrees, Exists
<1>7. \A kd : Has(kd, k)' <=> Has(kd, k) \/ kd = "authorization_capture"
  BY <1>1, <1>2, PostHas
<1>8. /\ Has("authorization_hold", k) /\ ~Has("authorization_capture", k)
      /\ ~Has("authorization_release", k) /\ ~Has("authorization_refund", k)
  BY <1>1 DEF IInv, StatusMatchesLedger, StatusMatches, Exists, Captured
<1>9. RowAgrees(k)'
  BY <1>1, <1>6 DEF IInv, RowsAgree, RowAgrees, Exists
<1>10. StatusMatches(k)'
  <2>1. \A q \in posted' :
           q.ref = k /\ q.kind \in AuthKinds \ {"authorization_refund"} =>
              q.amount = auth'[k].amount
    BY <1>1, <1>2, <1>6 DEF IInv, StatusMatchesLedger, StatusMatches
  <2> QED BY <1>6, <1>7, <1>8, <2>1 DEF StatusMatches, Exists, Captured
<1>11. Chained(k)'
  <2>1. RefundsOf(k)' = {}
    BY <1>1, <1>2, <1>8 DEF RefundsOf, Has
  <2> QED BY <1>6, <2>1 DEF Chained, Exists
<1>12. \A j \in Keys \ {k} : RowAgrees(j)' /\ StatusMatches(j)' /\ Chained(j)'
  BY <1>1, <1>2, <1>3, OthersKept
<1> QED BY <1>5, <1>9, <1>10, <1>11, <1>12
        DEF IInv, RowsAgree, StatusMatchesLedger, RefundsChain

(* A release posts the hold back to the payer, once.                              *)
LEMMA ReleaseStep ==
    ASSUME IInv, NEW k \in Keys, Release(k)
    PROVE  IInv'
<1> DEFINE p == ReleaseOf(k)
<1>1. /\ Post(p) /\ UNCHANGED <<closed, now>> /\ auth[k].status = "AUTHORIZED"
      /\ posted' = posted \cup {p}
  BY DEF Release, Post
<1>2. /\ p.kind = "authorization_release" /\ p.ref = k /\ p.amount = auth[k].amount
      /\ p \in Postings(AllKinds)
  BY <1>1, AuthorizationsAssumption
     DEF ReleaseOf, Postings, AllKinds, AuthKinds, Accounts, IInv, TypeOK, RowsAgree,
         RowAgrees, Exists
<1> HIDE DEF p
<1>3. /\ \A j \in Keys \ {k} : auth'[j] = auth[j]
      /\ auth'[k] = [auth[k] EXCEPT !.status = "RELEASED"]
  BY DEF Release, IInv, TypeOK
<1>4. auth' \in [Keys -> [status : Statuses, payer : Accounts, payee : Accounts,
                          amount : Nat, refunded : Nat, expires : Nat]]
  BY DEF Release, IInv, TypeOK, Statuses, Captured
<1>5. TypeOK'
  BY <1>1, <1>2, <1>4, PostTypes DEF IInv, TypeOK, AllKinds
<1>6. /\ auth'[k].status = "RELEASED" /\ auth'[k].amount = auth[k].amount
      /\ auth'[k].payer = auth[k].payer /\ auth'[k].payee = auth[k].payee
      /\ auth'[k].refunded = auth[k].refunded /\ auth[k].refunded = 0
      /\ auth[k].amount \in Nat /\ auth[k].amount > 0
  BY <1>1, <1>3 DEF IInv, TypeOK, RowsAgree, RowAgrees, Exists
<1>7. \A kd : Has(kd, k)' <=> Has(kd, k) \/ kd = "authorization_release"
  BY <1>1, <1>2, PostHas
<1>8. /\ Has("authorization_hold", k) /\ ~Has("authorization_capture", k)
      /\ ~Has("authorization_release", k) /\ ~Has("authorization_refund", k)
  BY <1>1 DEF IInv, StatusMatchesLedger, StatusMatches, Exists, Captured
<1>9. RowAgrees(k)'
  BY <1>1, <1>6 DEF IInv, RowsAgree, RowAgrees, Exists
<1>10. StatusMatches(k)'
  <2>1. \A q \in posted' :
           q.ref = k /\ q.kind \in AuthKinds \ {"authorization_refund"} =>
              q.amount = auth'[k].amount
    BY <1>1, <1>2, <1>6 DEF IInv, StatusMatchesLedger, StatusMatches
  <2> QED BY <1>6, <1>7, <1>8, <2>1 DEF StatusMatches, Exists, Captured
<1>11. Chained(k)'
  <2>1. RefundsOf(k)' = {}
    BY <1>1, <1>2, <1>8 DEF RefundsOf, Has
  <2> QED BY <1>6, <2>1 DEF Chained, Exists
<1>12. \A j \in Keys \ {k} : RowAgrees(j)' /\ StatusMatches(j)' /\ Chained(j)'
  BY <1>1, <1>2, <1>3, OthersKept
<1> QED BY <1>5, <1>9, <1>10, <1>11, <1>12
        DEF IInv, RowsAgree, StatusMatchesLedger, RefundsChain

(* A refund appends one link to the chain of refunds; it is never a replay of an *)
(* earlier one, because every earlier link starts below refunded_micros.          *)
LEMMA RefundStep ==
    ASSUME IInv, NEW k \in Keys, NEW x \in Amounts(k), Refund(k, x)
    PROVE  IInv'
<1> DEFINE p == RefundOf(k, x)
<1>1. /\ Post(p) /\ UNCHANGED <<closed, now>>
      /\ auth[k].status \in {"CAPTURED", "PARTIALLY_REFUNDED"}
      /\ posted' = posted \cup {p}
  BY DEF Refund, Post
<1>2. /\ auth[k].amount \in Nat /\ auth[k].refunded \in Nat
      /\ auth[k].payer \in Accounts /\ auth[k].payee \in Accounts
      /\ auth[k].amount > 0
      /\ x \in Nat /\ x > 0 /\ auth[k].refunded + x <= auth[k].amount
      /\ x = Refundable(k) <=> auth[k].refunded + x = auth[k].amount
  BY <1>1 DEF IInv, TypeOK, RowsAgree, RowAgrees, Exists, Refund, Refundable, Amounts
<1>3. /\ p.kind = "authorization_refund" /\ p.ref = k /\ p.amount = x
      /\ p.seq = auth[k].refunded
      /\ p \in Postings(AllKinds)
  BY <1>2 DEF RefundOf, Postings, AllKinds, AuthKinds
<1> HIDE DEF p
<1>4. /\ \A j \in Keys \ {k} : auth'[j] = auth[j]
      /\ auth'[k].refunded = auth[k].refunded + x
      /\ auth'[k].status = IF x = Refundable(k) THEN "REFUNDED" ELSE "PARTIALLY_REFUNDED"
      /\ auth'[k].amount = auth[k].amount
      /\ auth'[k].payer = auth[k].payer /\ auth'[k].payee = auth[k].payee
  BY DEF Refund, IInv, TypeOK
<1>5. auth' \in [Keys -> [status : Statuses, payer : Accounts, payee : Accounts,
                          amount : Nat, refunded : Nat, expires : Nat]]
  <2> DEFINE st == IF x = Refundable(k) THEN "REFUNDED" ELSE "PARTIALLY_REFUNDED"
             sum == auth[k].refunded + x
  <2>1. sum \in Nat /\ st \in Statuses
    BY <1>2 DEF Statuses, Captured
  <2>2. auth' = [auth EXCEPT ![k].refunded = sum, ![k].status = st]
    BY DEF Refund
  <2> HIDE DEF st, sum
  <2> QED BY <2>1, <2>2 DEF IInv, TypeOK
<1>6. TypeOK'
  BY <1>1, <1>3, <1>5, PostTypes DEF IInv, TypeOK, AllKinds
<1>7. \A kd : Has(kd, k)' <=> Has(kd, k) \/ kd = "authorization_refund"
  BY <1>1, <1>3, PostHas
<1>8. RowAgrees(k)'
  BY <1>1, <1>2, <1>4 DEF IInv, RowsAgree, RowAgrees, Exists
<1>9. StatusMatches(k)'
  <2>1. \A q \in posted' :
           q.ref = k /\ q.kind \in AuthKinds \ {"authorization_refund"} =>
              q.amount = auth'[k].amount
    BY <1>1, <1>3, <1>4 DEF IInv, StatusMatchesLedger, StatusMatches
  <2>2. /\ Has("authorization_hold", k) /\ Has("authorization_capture", k)
        /\ ~Has("authorization_release", k)
    BY <1>1 DEF IInv, StatusMatchesLedger, StatusMatches, Exists, Captured
  <2> QED BY <1>4, <1>7, <2>1, <2>2 DEF StatusMatches, Exists, Captured
<1>10. Chained(k)'
  <2>1. RefundsOf(k)' = RefundsOf(k) \cup {p}
    BY <1>1, <1>3 DEF RefundsOf
  <2>2. Chained(k)
    BY DEF IInv, RefundsChain
  <2>3. \A q \in RefundsOf(k) : q.seq \in Nat /\ q.amount \in Nat
    BY DEF RefundsOf, IInv, TypeOK, Postings
  <2>4. \E q \in RefundsOf(k)' : q.seq = 0
    <3>1. CASE auth[k].refunded = 0
      BY <1>3, <2>1, <3>1
    <3>2. CASE auth[k].refunded > 0
      BY <2>1, <2>2, <3>2 DEF Chained
    <3> QED BY <1>2, <3>1, <3>2
  <2>5. \A q \in RefundsOf(k) :
           /\ q.seq + q.amount < auth[k].refunded + x
           /\ \E r \in RefundsOf(k)' : r.seq = q.seq + q.amount
    <3> SUFFICES ASSUME NEW q \in RefundsOf(k)
                 PROVE  /\ q.seq + q.amount < auth[k].refunded + x
                        /\ \E r \in RefundsOf(k)' : r.seq = q.seq + q.amount
      OBVIOUS
    <3>1. CASE q.seq + q.amount = auth[k].refunded
      BY <1>2, <1>3, <2>1, <3>1
    <3>2. CASE /\ q.seq + q.amount < auth[k].refunded
               /\ \E r \in RefundsOf(k) : r.seq = q.seq + q.amount
      BY <1>2, <2>1, <2>3, <3>2
    <3> QED BY <2>2, <3>1, <3>2 DEF Chained
  <2>6. p.seq + p.amount = auth'[k].refunded
    BY <1>3, <1>4
  <2>7. /\ auth'[k].refunded <= auth'[k].amount
        /\ auth'[k].status = "REFUNDED" <=> auth'[k].refunded = auth'[k].amount
        /\ Exists(k)'
    BY <1>2, <1>4 DEF Exists
  <2> QED BY <1>4, <2>1, <2>4, <2>5, <2>6, <2>7 DEF Chained
<1>11. \A j \in Keys \ {k} : RowAgrees(j)' /\ StatusMatches(j)' /\ Chained(j)'
  BY <1>1, <1>3, <1>4, OthersKept
<1> QED BY <1>6, <1>8, <1>9, <1>10, <1>11
        DEF IInv, RowsAgree, StatusMatchesLedger, RefundsChain

(* Every step preserves the invariant.                                            *)
LEMMA NextIInv ==
    ASSUME IInv, [AuthNext]_authVars PROVE IInv'
<1>1. CASE Tick
  BY <1>1, TickStep
<1>2. CASE LedgerNext /\ UNCHANGED <<auth, now>>
  BY <1>2, LedgerStep
<1>3. ASSUME NEW k \in Keys, NEW c \in Commands, Authorize(k, c) PROVE IInv'
  BY <1>3, AuthorizeStep
<1>4. ASSUME NEW k \in Keys, Capture(k) PROVE IInv'
  BY <1>4, CaptureStep
<1>5. ASSUME NEW k \in Keys, NEW x \in Amounts(k), Refund(k, x) PROVE IInv'
  BY <1>5, RefundStep
<1>6. ASSUME NEW k \in Keys, Release(k) PROVE IInv'
  BY <1>6, ReleaseStep
<1>7. CASE UNCHANGED authVars
  <2>1. UNCHANGED <<posted, balance, closed, auth, now>>
    BY <1>7 DEF authVars
  <2>2. TypeOK'
    BY <2>1 DEF IInv, TypeOK
  <2>3. RowsAgree' /\ StatusMatchesLedger' /\ RefundsChain'
    BY <2>1 DEF IInv, RowsAgree, RowAgrees, StatusMatchesLedger, StatusMatches,
                RefundsChain, Chained, RefundsOf, Has, Exists
  <2> QED BY <2>2, <2>3 DEF IInv
<1> QED BY <1>1, <1>2, <1>3, <1>4, <1>5, <1>6, <1>7 DEF AuthNext

(* The inductive invariant holds in every reachable state.                         *)
THEOREM Invariant == Spec => []IInv
BY InitIInv, NextIInv, PTL DEF Spec

(* Values stay in their types: amounts posted are positive, balances are whole,    *)
(* and only pockets ever close.                                                    *)
THEOREM TypeCorrect == Spec => []TypeOK
BY Invariant, PTL DEF IInv

(* An authorization is settled exactly once: its status and the postings of the    *)
(* append-only ledger always agree.                                                *)
THEOREM SettledOnce == Spec => []StatusMatchesLedger
BY Invariant, PTL DEF IInv

(* Refunds never give back more than was captured, and the ledger's refunds chain  *)
(* up to exactly what the authorization says was refunded.                          *)
THEOREM RefundsAddUp == Spec => []RefundsChain
BY Invariant, PTL DEF IInv

-------------------------------------------------------------------------------
(* What the ledger says of an authorization, given its status.                     *)
StageOfStatus(status) ==
    IF status = "ABSENT" THEN "none"
    ELSE IF status = "AUTHORIZED" THEN "held"
    ELSE IF status = "RELEASED" THEN "returned"
    ELSE "paid"

StagesAgree == [k \in Keys |-> Stage(k)] = [k \in Keys |-> StageOfStatus(auth[k].status)]

(* The stage read off the ledger is the one the status stands for.                 *)
LEMMA StageAgrees == IInv => StagesAgree
<1> SUFFICES ASSUME IInv, NEW k \in Keys
             PROVE  Stage(k) = StageOfStatus(auth[k].status)
  BY DEF StagesAgree
<1>1. StatusMatches(k)
  BY DEF IInv, StatusMatchesLedger
<1>2. auth[k].status \in Statuses
  BY DEF IInv, TypeOK
<1> QED BY <1>1, <1>2
        DEF StatusMatches, Stage, StageOfStatus, Statuses, Live, Captured, Exists

(* The initial states are initial states of Escrow.                                *)
LEMMA EscrowInit == Init => E!Init
<1> SUFFICES ASSUME Init PROVE E!Init
  OBVIOUS
<1>1. \A k \in Keys : auth[k] = Absent
  BY DEF Init
<1>2. \A k \in Keys : Stage(k) = "none"
  BY DEF Init, LedgerInit, Stage, Has
<1> QED BY <1>1, <1>2 DEF E!Init, Init, Absent

(* Every step is a step of Escrow, or leaves it alone.                             *)
LEMMA EscrowNext ==
    ASSUME IInv, IInv', StagesAgree, StagesAgree', [AuthNext]_authVars
    PROVE  [E!Next]_(E!escrowVars)
<1> DEFINE stage == [k \in Keys |-> Stage(k)]
           amount == [k \in Keys |-> auth[k].amount]
           back == [k \in Keys |-> auth[k].refunded]
           deadline == [k \in Keys |-> auth[k].expires]
<1>1. stage = [k \in Keys |-> StageOfStatus(auth[k].status)]
  BY DEF StagesAgree
<1>2. stage' = [k \in Keys |-> StageOfStatus(auth'[k].status)]
  BY DEF StagesAgree
<1>3. ASSUME UNCHANGED auth PROVE UNCHANGED <<stage, amount, back, deadline>>
  BY <1>1, <1>2, <1>3
<1>4. CASE Tick
  <2>1. UNCHANGED auth /\ now' = now + 1 /\ now \in Nat
    BY <1>4 DEF Tick, IInv, TypeOK
  <2>2. now' > now
    BY <2>1
  <2>3. E!Wait
    BY <1>3, <2>1, <2>2 DEF E!Wait
  <2> QED BY <2>3 DEF E!Next
<1>5. CASE LedgerNext /\ UNCHANGED <<auth, now>>
  BY <1>3, <1>5 DEF E!escrowVars
<1>6. ASSUME NEW k \in Keys, NEW c \in Commands, Authorize(k, c) PROVE E!SetAside(k)
  <2>1. /\ auth' = [auth EXCEPT ![k] =
                      [status |-> "AUTHORIZED", payer |-> c.payer, payee |-> c.payee,
                       amount |-> c.amount, refunded |-> 0, expires |-> now + c.ttl]]
        /\ now' = now /\ auth[k].status = "ABSENT"
    BY <1>6 DEF Authorize, Exists
  <2>2. auth[k].refunded = 0
    BY <2>1 DEF IInv, RowsAgree, RowAgrees, Exists
  <2>3. c.amount > 0 /\ now + c.ttl > now
    BY AuthorizationsAssumption DEF IInv, TypeOK
  <2>4. auth \in [Keys -> [status : Statuses, payer : Accounts, payee : Accounts,
                           amount : Nat, refunded : Nat, expires : Nat]]
    BY DEF IInv, TypeOK
  <2>5. stage[k] = "none" /\ stage' = [stage EXCEPT ![k] = "held"]
    BY <1>1, <1>2, <2>1, <2>4 DEF StageOfStatus
  <2>6. amount' = [amount EXCEPT ![k] = amount'[k]] /\ amount'[k] > 0
    BY <2>1, <2>3, <2>4
  <2>7. deadline' = [deadline EXCEPT ![k] = deadline'[k]] /\ deadline'[k] > now
    BY <2>1, <2>3, <2>4
  <2>8. back' = back
    BY <2>1, <2>2, <2>4
  <2> QED BY <2>1, <2>5, <2>6, <2>7, <2>8 DEF E!SetAside
<1>7. ASSUME NEW k \in Keys, Capture(k) PROVE E!Pay(k)
  <2>1. /\ auth' = [auth EXCEPT ![k].status = "CAPTURED"] /\ now' = now
        /\ auth[k].status = "AUTHORIZED" /\ now < auth[k].expires
    BY <1>7 DEF Capture, IInv, TypeOK
  <2>2. stage[k] = "held" /\ stage' = [stage EXCEPT ![k] = "paid"]
    <3>1. DOMAIN auth = Keys /\ \A j \in Keys : DOMAIN auth[j] =
             {"status", "payer", "payee", "amount", "refunded", "expires"}
      BY DEF IInv, TypeOK
    <3>2. /\ \A j \in Keys \ {k} : auth'[j] = auth[j]
          /\ auth'[k].status = "CAPTURED"
      BY <2>1, <3>1
    <3>3. /\ StageOfStatus(auth[k].status) = "held"
          /\ \A j \in Keys : StageOfStatus(auth'[j].status) =
                IF j = k THEN "paid" ELSE StageOfStatus(auth[j].status)
      BY <2>1, <3>2 DEF StageOfStatus
    <3> QED BY <1>1, <1>2, <3>3
  <2>3. UNCHANGED <<amount, back, deadline>>
    BY <2>1 DEF IInv, TypeOK
  <2> QED BY <2>1, <2>2, <2>3 DEF E!Pay
<1>8. ASSUME NEW k \in Keys, NEW x \in Amounts(k), Refund(k, x) PROVE E!GiveBack(k)
  <2>1. /\ auth' = [auth EXCEPT ![k].refunded = @ + x,
                                ![k].status = IF x = Refundable(k) THEN "REFUNDED"
                                              ELSE "PARTIALLY_REFUNDED"]
        /\ now' = now /\ auth[k].status \in {"CAPTURED", "PARTIALLY_REFUNDED"}
    BY <1>8 DEF Refund
  <2>2. stage[k] = "paid" /\ stage' = stage
    BY <1>1, <1>2, <2>1 DEF StageOfStatus, IInv, TypeOK
  <2>3. UNCHANGED <<amount, deadline>>
    BY <2>1 DEF IInv, TypeOK
  <2>4. /\ back' = [back EXCEPT ![k] = back'[k]]
        /\ back'[k] = back[k] + x
    BY <2>1 DEF IInv, TypeOK
  <2>5. back'[k] > back[k] /\ back'[k] <= amount[k]
    BY <1>8, <2>4 DEF Refund, Refundable, IInv, TypeOK, Amounts
  <2> QED BY <2>1, <2>2, <2>3, <2>4, <2>5 DEF E!GiveBack
<1>9. ASSUME NEW k \in Keys, Expired(k), Release(k) PROVE E!Return(k)
  <2>1. /\ auth' = [auth EXCEPT ![k].status = "RELEASED"] /\ now' = now
        /\ auth[k].status = "AUTHORIZED" /\ now >= auth[k].expires
    BY <1>9 DEF Release, Expired, IInv, TypeOK
  <2>2. stage[k] = "held" /\ stage' = [stage EXCEPT ![k] = "returned"]
    <3>1. DOMAIN auth = Keys /\ \A j \in Keys : DOMAIN auth[j] =
             {"status", "payer", "payee", "amount", "refunded", "expires"}
      BY DEF IInv, TypeOK
    <3>2. /\ \A j \in Keys \ {k} : auth'[j] = auth[j]
          /\ auth'[k].status = "RELEASED"
      BY <2>1, <3>1
    <3>3. /\ StageOfStatus(auth[k].status) = "held"
          /\ \A j \in Keys : StageOfStatus(auth'[j].status) =
                IF j = k THEN "returned" ELSE StageOfStatus(auth[j].status)
      BY <2>1, <3>2 DEF StageOfStatus
    <3> QED BY <1>1, <1>2, <3>3
  <2>3. UNCHANGED <<amount, back, deadline>>
    BY <2>1 DEF IInv, TypeOK
  <2> QED BY <2>1, <2>2, <2>3 DEF E!Return
<1>10. CASE UNCHANGED authVars
  BY <1>3, <1>10 DEF authVars, E!escrowVars
<1> HIDE DEF stage, amount, back, deadline
<1> QED BY <1>4, <1>5, <1>6, <1>7, <1>8, <1>9, <1>10 DEF AuthNext, E!Next

(* The authorizations implement Escrow: what the ledger holds for each of them is  *)
(* set aside once, then paid before its expiry or returned after it, never both,   *)
(* and given back no further than it was paid.                                     *)
THEOREM ImplementsEscrow == Spec => KeepsEscrow
<1>1. IInv /\ [AuthNext]_authVars => [E!Next]_(E!escrowVars)
  <2>1. IInv => StagesAgree
    BY StageAgrees
  <2>2. IInv' => StagesAgree'
    BY StageAgrees, PTL
  <2> QED BY <2>1, <2>2, NextIInv, EscrowNext
<1> QED BY <1>1, Invariant, EscrowInit, PTL DEF Spec, KeepsEscrow, E!Spec

-------------------------------------------------------------------------------
(* What the balances have to do with the postings and the live holds; both are  *)
(* finite, because one step adds at most one to either.                          *)
BalancesAgree ==
    /\ IsFiniteSet(posted) /\ IsFiniteSet(LiveHolds)
    /\ BalanceIsProjection
    /\ HoldsCoverLive

(* A posting that is no replay adds its amount to the credits of one account and *)
(* to the debits of another.                                                     *)
LEMMA CreditsAndDebits ==
    ASSUME IsFiniteSet(posted), \A q \in posted : q.amount \in Int, NEW a,
           NEW p, p \notin posted, p.amount \in Int, posted' = posted \cup {p}
    PROVE  /\ Credits(a) \in Int /\ Debits(a) \in Int
           /\ Credits(a)' = Credits(a) + (IF p.to = a THEN p.amount ELSE 0)
           /\ Debits(a)' = Debits(a) + (IF p.from = a THEN p.amount ELSE 0)
<1> DEFINE C == {q \in posted : q.to = a}
           D == {q \in posted : q.from = a}
<1>1. /\ IsFiniteSet(C) /\ p \notin C /\ \A q \in C : q.amount \in Int
      /\ IsFiniteSet(D) /\ p \notin D /\ \A q \in D : q.amount \in Int
  BY FS_Subset
<1>2. Credits(a) = Total(C) /\ Debits(a) = Total(D)
  BY DEF Credits, Debits
<1>3. Total(C) \in Int /\ Total(D) \in Int
  BY <1>1, AmountsType DEF Total
<1>4. Credits(a)' = IF p.to = a THEN Total(C \cup {p}) ELSE Total(C)
  <2>1. {q \in posted' : q.to = a} = IF p.to = a THEN C \cup {p} ELSE C
    OBVIOUS
  <2> QED BY <2>1 DEF Credits, Total
<1>5. Debits(a)' = IF p.from = a THEN Total(D \cup {p}) ELSE Total(D)
  <2>1. {q \in posted' : q.from = a} = IF p.from = a THEN D \cup {p} ELSE D
    OBVIOUS
  <2> QED BY <2>1 DEF Debits, Total
<1> HIDE DEF C, D
<1>6. Total(C \cup {p}) = p.amount + Total(C) /\ Total(D \cup {p}) = p.amount + Total(D)
  BY <1>1, AmountsWith DEF Total
<1> QED BY <1>2, <1>3, <1>4, <1>5, <1>6

(* A posting keeps every balance the projection of the entries, whether it is    *)
(* new or a replay.                                                              *)
LEMMA PostProjects ==
    ASSUME TypeOK, IsFiniteSet(posted), BalanceIsProjection,
           NEW p \in Postings(AllKinds), Post(p)
    PROVE  IsFiniteSet(posted)' /\ BalanceIsProjection'
<1>1. CASE p \in posted
  <2>1. posted' = posted /\ balance' = balance
    BY <1>1 DEF Post, Replays
  <2> QED BY <2>1 DEF BalanceIsProjection, Credits, Debits
<1>2. CASE p \notin posted
  <2>1. posted' = posted \cup {p} /\ balance' = Moved(p)
    BY <1>2 DEF Post, Replays
  <2>2. /\ p.from \in Accounts /\ p.to \in Accounts /\ p.amount \in Int
        /\ \A q \in posted : q.amount \in Int
    BY DEF Postings, TypeOK
  <2>3. IsFiniteSet(posted)'
    BY <2>1, FS_AddElement
  <2>4. ASSUME NEW a \in Accounts
        PROVE  balance'[a] = (IF a \in Customers THEN Opening[a] ELSE 0)
                             + Credits(a)' - Debits(a)'
    <3>1. /\ Credits(a) \in Int /\ Debits(a) \in Int
          /\ Credits(a)' = Credits(a) + (IF p.to = a THEN p.amount ELSE 0)
          /\ Debits(a)' = Debits(a) + (IF p.from = a THEN p.amount ELSE 0)
      BY <1>2, <2>1, <2>2, CreditsAndDebits
    <3>2. balance'[a] = balance[a] - (IF p.from = a THEN p.amount ELSE 0)
                        + (IF p.to = a THEN p.amount ELSE 0)
      BY <2>1, <2>2 DEF Moved, TypeOK
    <3>3. balance[a] = (IF a \in Customers THEN Opening[a] ELSE 0) + Credits(a) - Debits(a)
      BY DEF BalanceIsProjection
    <3>4. a \in Customers => Opening[a] \in Int
      BY PostingAssumption
    <3> QED BY <2>2, <3>1, <3>2, <3>3, <3>4
  <2> QED BY <2>3, <2>4 DEF BalanceIsProjection
<1> QED BY <1>1, <1>2

(* The initial states.                                                           *)
LEMMA InitBalancesAgree ==
    ASSUME Init PROVE BalancesAgree
<1>1. posted = {} /\ LiveHolds = {}
  BY DEF Init, LedgerInit, LiveHolds, Absent
<1>2. IsFiniteSet(posted) /\ IsFiniteSet(LiveHolds)
  BY <1>1, FS_EmptySet
<1>3. \A a : Credits(a) = 0 /\ Debits(a) = 0
  BY <1>1, SumNone DEF Credits, Debits, Total
<1>4. BalanceIsProjection
  BY <1>3, PostingAssumption DEF BalanceIsProjection, Init, LedgerInit
<1>5. balance[Holds] = 0
  BY PostingAssumption, AuthorizationsAssumption DEF Init, LedgerInit, Accounts
<1>6. HoldsCoverLive
  BY <1>1, <1>5, SumNone DEF HoldsCoverLive
<1> QED BY <1>2, <1>4, <1>6 DEF BalancesAgree

(* A posting that leaves the holds account and the live holds alone.             *)
LEMMA HoldsUntouched ==
    ASSUME IInv, BalancesAgree, NEW p \in Postings(AllKinds), Post(p),
           Holds \notin {p.from, p.to}, LiveHolds' = LiveHolds,
           \A j \in LiveHolds : auth'[j].amount = auth[j].amount
    PROVE  BalancesAgree'
<1>1. IsFiniteSet(posted)' /\ BalanceIsProjection'
  BY PostProjects DEF IInv, BalancesAgree
<1>2. balance'[Holds] = balance[Holds]
  <2>1. Holds \in Accounts
    BY AuthorizationsAssumption DEF Accounts
  <2> QED BY <2>1 DEF Post, Moved, IInv, TypeOK
<1>3. [k \in LiveHolds' |-> auth'[k].amount] = [k \in LiveHolds |-> auth[k].amount]
  OBVIOUS
<1>4. HoldsCoverLive'
  BY <1>2, <1>3 DEF HoldsCoverLive, BalancesAgree
<1> QED BY <1>1, <1>4 DEF BalancesAgree

(* A capture or a release, x, takes one live hold and its money.                 *)
LEMMA HoldSettled ==
    ASSUME IInv, BalancesAgree, NEW p \in Postings(AllKinds), Post(p), p \notin posted,
           NEW k \in LiveHolds, p.from = Holds, p.to # Holds, p.amount = auth[k].amount,
           LiveHolds' = LiveHolds \ {k},
           \A j \in LiveHolds \ {k} : auth'[j].amount = auth[j].amount
    PROVE  BalancesAgree'
<1> DEFINE f == [j \in LiveHolds |-> auth[j].amount]
           e == [j \in LiveHolds \ {k} |-> auth[j].amount]
<1>1. IsFiniteSet(posted)' /\ BalanceIsProjection'
  BY PostProjects DEF IInv, BalancesAgree
<1>2. IsFiniteSet(LiveHolds)'
  BY FS_RemoveElement DEF BalancesAgree
<1>3. Holds \in Accounts /\ balance[Holds] \in Int /\ p.to \in Accounts /\ p.amount \in Int
  BY AuthorizationsAssumption DEF Accounts, IInv, TypeOK, Postings
<1>4. balance'[Holds] = balance[Holds] - p.amount
  BY <1>3 DEF Post, Replays, Moved, IInv, TypeOK
<1>5. f \in [LiveHolds -> Int] /\ e \in [LiveHolds \ {k} -> Int]
  BY DEF LiveHolds, IInv, TypeOK
<1>6. SumFunction(f) = f[k] + SumFunction(e)
  <2>1. IsFiniteSet(LiveHolds) /\ k \in LiveHolds /\ \A j \in LiveHolds \ {k} : e[j] = f[j]
    BY DEF BalancesAgree
  <2> HIDE DEF f, e
  <2> DEFINE S == LiveHolds
  <2>2. /\ IsFiniteSet(S) /\ k \in S /\ f \in [S -> Int] /\ e \in [S \ {k} -> Int]
        /\ \A j \in S \ {k} : e[j] = f[j]
    BY <1>5, <2>1
  <2> HIDE DEF S
  <2> QED BY ONLY <2>2, SumApart
<1>7. SumFunction(e) \in Int
  BY <1>2, <1>5, SumType
<1>8. [j \in LiveHolds' |-> auth'[j].amount] = e
  OBVIOUS
<1>9. f[k] = p.amount /\ balance[Holds] = SumFunction(f)
  BY DEF BalancesAgree, HoldsCoverLive
<1> HIDE DEF f, e
<1>10. HoldsCoverLive'
  BY <1>3, <1>4, <1>6, <1>7, <1>8, <1>9 DEF HoldsCoverLive
<1> QED BY <1>1, <1>2, <1>10 DEF BalancesAgree

(* A hold adds itself and its money.                                             *)
LEMMA AuthorizeBalances ==
    ASSUME IInv, BalancesAgree, NEW k \in Keys, NEW c \in Commands, Authorize(k, c)
    PROVE  BalancesAgree'
<1> DEFINE p == HoldOf(k, c)
           f == [j \in LiveHolds' |-> auth'[j].amount]
           e == [j \in LiveHolds |-> auth[j].amount]
<1>1. /\ p \in Postings(AllKinds) /\ p.kind = "authorization_hold" /\ p.ref = k
      /\ p.to = Holds /\ p.from \in Customers /\ p.amount = c.amount
  BY AuthorizationsAssumption DEF HoldOf, Postings, AllKinds, AuthKinds, Accounts
<1>2. Post(p) /\ ~Exists(k)
  BY DEF Authorize
<1>3. p \notin posted
  BY <1>1, <1>2 DEF IInv, StatusMatchesLedger, StatusMatches, Has
<1>4. /\ k \notin LiveHolds /\ LiveHolds' = LiveHolds \cup {k}
      /\ auth'[k].amount = c.amount /\ \A j \in LiveHolds : auth'[j] = auth[j]
  BY <1>2 DEF Authorize, LiveHolds, Exists, IInv, TypeOK
<1> HIDE DEF p
<1>5. IsFiniteSet(posted)' /\ BalanceIsProjection'
  BY <1>1, <1>2, PostProjects DEF IInv, BalancesAgree
<1>6. IsFiniteSet(LiveHolds)'
  BY <1>4, FS_AddElement DEF BalancesAgree
<1>7. /\ Holds \in Accounts /\ Holds # p.from /\ balance[Holds] \in Int /\ p.amount \in Int
      /\ p.from \in Accounts
  BY <1>1, PostingAssumption, AuthorizationsAssumption DEF Accounts, IInv, TypeOK, Postings
<1>8. balance'[Holds] = balance[Holds] + p.amount
  BY <1>1, <1>2, <1>3, <1>7 DEF Post, Replays, Moved, IInv, TypeOK
<1>9. f \in [LiveHolds' -> Int] /\ e \in [LiveHolds' \ {k} -> Int]
  <2>1. LiveHolds = LiveHolds' \ {k} /\ \A j \in LiveHolds : auth[j].amount \in Int
    BY <1>4 DEF LiveHolds, IInv, TypeOK
  <2> QED BY <1>1, <1>4, <1>7, <2>1
<1>10. k \in LiveHolds' /\ f[k] = p.amount /\ \A j \in LiveHolds' \ {k} : e[j] = f[j]
  BY <1>1, <1>4
<1>11. IsFiniteSet(LiveHolds' \ {k}) /\ balance[Holds] = SumFunction(e)
  BY <1>4 DEF BalancesAgree, HoldsCoverLive
<1>12. balance'[Holds] = SumFunction(f)
  <2> HIDE DEF f, e
  <2>1. SumFunction(f) = f[k] + SumFunction(e)
    BY <1>6, <1>9, <1>10, SumApart
  <2>2. SumFunction(e) \in Int
    BY <1>9, <1>11, SumType
  <2> QED BY <1>7, <1>8, <1>10, <1>11, <2>1, <2>2
<1> QED BY <1>5, <1>6, <1>12 DEF BalancesAgree, HoldsCoverLive

LEMMA CaptureBalances ==
    ASSUME IInv, BalancesAgree, NEW k \in Keys, Capture(k) PROVE BalancesAgree'
<1> DEFINE p == CaptureOf(k)
<1>1. auth[k].status = "AUTHORIZED" /\ Post(p) /\ k \in LiveHolds
  BY DEF Capture, LiveHolds
<1>2. /\ auth[k].payee \in Customers /\ auth[k].amount \in Nat \ {0}
  BY <1>1 DEF IInv, TypeOK, RowsAgree, RowAgrees, Exists
<1>3. /\ p \in Postings(AllKinds) /\ p.from = Holds /\ p.to # Holds /\ p.amount = auth[k].amount
  BY <1>2, PostingAssumption, AuthorizationsAssumption
     DEF CaptureOf, Postings, AllKinds, AuthKinds, Accounts
<1>4. p \notin posted
  BY <1>1 DEF CaptureOf, IInv, StatusMatchesLedger, StatusMatches, Has, Captured
<1>5. LiveHolds' = LiveHolds \ {k} /\ \A j \in LiveHolds \ {k} : auth'[j].amount = auth[j].amount
  BY DEF Capture, LiveHolds, IInv, TypeOK
<1> HIDE DEF p
<1> QED BY <1>1, <1>3, <1>4, <1>5, HoldSettled

LEMMA ReleaseBalances ==
    ASSUME IInv, BalancesAgree, NEW k \in Keys, Release(k) PROVE BalancesAgree'
<1> DEFINE p == ReleaseOf(k)
<1>1. auth[k].status = "AUTHORIZED" /\ Post(p) /\ k \in LiveHolds
  BY DEF Release, LiveHolds
<1>2. /\ auth[k].payer \in Customers /\ auth[k].amount \in Nat \ {0}
  BY <1>1 DEF IInv, TypeOK, RowsAgree, RowAgrees, Exists
<1>3. /\ p \in Postings(AllKinds) /\ p.from = Holds /\ p.to # Holds /\ p.amount = auth[k].amount
  BY <1>2, PostingAssumption, AuthorizationsAssumption
     DEF ReleaseOf, Postings, AllKinds, AuthKinds, Accounts
<1>4. p \notin posted
  BY <1>1 DEF ReleaseOf, IInv, StatusMatchesLedger, StatusMatches, Has, Captured
<1>5. LiveHolds' = LiveHolds \ {k} /\ \A j \in LiveHolds \ {k} : auth'[j].amount = auth[j].amount
  BY DEF Release, LiveHolds, IInv, TypeOK
<1> HIDE DEF p
<1> QED BY <1>1, <1>3, <1>4, <1>5, HoldSettled

(* A refund is between the payee and the payer.                                  *)
LEMMA RefundBalances ==
    ASSUME IInv, BalancesAgree, NEW k \in Keys, NEW x \in Amounts(k), Refund(k, x)
    PROVE  BalancesAgree'
<1> DEFINE p == RefundOf(k, x)
<1>1. auth[k].status \in {"CAPTURED", "PARTIALLY_REFUNDED"} /\ Post(p) /\ x > 0
  BY DEF Refund
<1>2. /\ auth[k].payee \in Customers /\ auth[k].payer \in Customers
      /\ x \in Nat \ {0} /\ auth[k].refunded \in Nat
  BY <1>1 DEF IInv, TypeOK, RowsAgree, RowAgrees, Exists, Amounts
<1>3. p \in Postings(AllKinds) /\ Holds \notin {p.from, p.to}
  BY <1>2, PostingAssumption, AuthorizationsAssumption
     DEF RefundOf, Postings, AllKinds, AuthKinds, Accounts
<1>4. LiveHolds' = LiveHolds /\ \A j \in LiveHolds : auth'[j].amount = auth[j].amount
  BY <1>1 DEF Refund, LiveHolds, IInv, TypeOK
<1> HIDE DEF p
<1> QED BY <1>1, <1>3, <1>4, HoldsUntouched

(* What customers move themselves never touches the holds account.               *)
LEMMA MoveBalances ==
    ASSUME IInv, BalancesAgree, NEW key \in MovementKeys, NEW m \in Movements,
           Move(key, m), UNCHANGED <<auth, now>>
    PROVE  BalancesAgree'
<1> DEFINE p == [kind |-> m.kind, ref |-> key, seq |-> 0,
                 from |-> m.from, to |-> m.to, amount |-> m.amount]
<1>1. p \in Postings(AllKinds) /\ Holds \notin {p.from, p.to}
  BY PostingAssumption, AuthorizationsAssumption DEF Postings, AllKinds
<1>2. Post(p)
  BY DEF Move
<1>3. LiveHolds' = LiveHolds /\ \A j \in LiveHolds : auth'[j].amount = auth[j].amount
  BY DEF LiveHolds
<1> HIDE DEF p
<1> QED BY <1>1, <1>2, <1>3, HoldsUntouched

(* Every step preserves the agreement of balances, postings and holds.           *)
LEMMA NextBalancesAgree ==
    ASSUME IInv, BalancesAgree, [AuthNext]_authVars PROVE BalancesAgree'
<1>1. ASSUME UNCHANGED <<posted, balance, auth>> PROVE BalancesAgree'
  BY <1>1 DEF BalancesAgree, LiveHolds, BalanceIsProjection, Credits, Debits, HoldsCoverLive
<1>2. CASE Tick \/ UNCHANGED authVars
  BY <1>1, <1>2 DEF Tick, ledgerVars, authVars
<1>3. CASE LedgerNext /\ UNCHANGED <<auth, now>>
  <2>1. CASE \E key \in MovementKeys, m \in Movements : Move(key, m)
    BY <1>3, <2>1, MoveBalances
  <2>2. CASE \E a \in Accounts : ClosePocket(a)
    BY <1>1, <1>3, <2>2 DEF ClosePocket
  <2> QED BY <1>3, <2>1, <2>2 DEF LedgerNext
<1>4. ASSUME NEW k \in Keys, NEW c \in Commands, Authorize(k, c) PROVE BalancesAgree'
  BY <1>4, AuthorizeBalances
<1>5. ASSUME NEW k \in Keys, Capture(k) \/ Release(k) PROVE BalancesAgree'
  BY <1>5, CaptureBalances, ReleaseBalances
<1>6. ASSUME NEW k \in Keys, NEW x \in Amounts(k), Refund(k, x) PROVE BalancesAgree'
  BY <1>6, RefundBalances
<1> QED BY <1>2, <1>3, <1>4, <1>5, <1>6 DEF AuthNext

(* Every balance is what its entries come to, whatever is replayed, and the holds  *)
(* account owes exactly the authorizations that are still live.                    *)
THEOREM LedgerAgrees == Spec => [](BalanceIsProjection /\ HoldsCoverLive)
<1>1. IInv /\ BalancesAgree /\ [AuthNext]_authVars => IInv' /\ BalancesAgree'
  BY NextIInv, NextBalancesAgree
<1>2. Init => IInv /\ BalancesAgree
  BY InitIInv, InitBalancesAgree
<1>3. BalancesAgree => BalanceIsProjection /\ HoldsCoverLive
  BY DEF BalancesAgree
<1> QED BY <1>1, <1>2, <1>3, PTL DEF Spec

-------------------------------------------------------------------------------
(* A row, once there, keeps its accounts, its amount and its expiry; what was     *)
(* refunded only grows, and neither a release nor an expiry is taken back.        *)
LEMMA RowGoesOn ==
    ASSUME IInv, [AuthNext]_authVars, NEW k \in Keys, Exists(k)
    PROVE  /\ Exists(k)' /\ auth'[k].payer = auth[k].payer /\ auth'[k].payee = auth[k].payee
           /\ auth'[k].amount = auth[k].amount /\ auth'[k].expires = auth[k].expires
           /\ auth'[k].refunded >= auth[k].refunded /\ now' >= now
           /\ auth[k].status = "RELEASED" => auth'[k].status = "RELEASED"
           /\ Expired(k) => auth'[k].status \in {"AUTHORIZED", "RELEASED"}
           /\ auth[k].status \in Captured => auth'[k].status \in Captured
<1> DEFINE GoesOn ==
           /\ Exists(k)' /\ auth'[k].payer = auth[k].payer /\ auth'[k].payee = auth[k].payee
           /\ auth'[k].amount = auth[k].amount /\ auth'[k].expires = auth[k].expires
           /\ auth'[k].refunded >= auth[k].refunded /\ now' >= now
           /\ auth[k].status = "RELEASED" => auth'[k].status = "RELEASED"
           /\ Expired(k) => auth'[k].status \in {"AUTHORIZED", "RELEASED"}
           /\ auth[k].status \in Captured => auth'[k].status \in Captured
<1>1. /\ auth \in [Keys -> [status : Statuses, payer : Accounts, payee : Accounts,
                            amount : Nat, refunded : Nat, expires : Nat]]
      /\ auth[k].expires \in Nat /\ auth[k].refunded \in Nat /\ now \in Nat
  BY DEF IInv, TypeOK
<1>2. ASSUME auth'[k] = auth[k], now' = now \/ now' = now + 1 PROVE GoesOn
  BY <1>1, <1>2 DEF Exists, Expired
<1>3. ASSUME Tick \/ (LedgerNext /\ UNCHANGED <<auth, now>>) \/ UNCHANGED authVars
      PROVE  GoesOn
  <2>1. auth' = auth /\ (now' = now \/ now' = now + 1)
    BY <1>3 DEF Tick, authVars
  <2> QED BY <1>2, <2>1
<1>4. ASSUME NEW j \in Keys, NEW c \in Commands, Authorize(j, c) PROVE GoesOn
  <2>1. j # k /\ now' = now
    BY <1>4 DEF Authorize
  <2>2. auth'[k] = auth[k]
    BY <1>1, <1>4, <2>1 DEF Authorize
  <2> QED BY <1>2, <2>1, <2>2
<1>5. ASSUME NEW j \in Keys, Capture(j) PROVE GoesOn
  <2>1. /\ auth[j].status = "AUTHORIZED" /\ auth[j].expires > now /\ now' = now
        /\ auth' = [auth EXCEPT ![j].status = "CAPTURED"]
    BY <1>5 DEF Capture
  <2>2. CASE j = k
    BY <1>1, <2>1, <2>2 DEF Exists, Expired, Captured
  <2>3. CASE j # k
    BY <1>1, <1>2, <2>1, <2>3
  <2> QED BY <2>2, <2>3
<1>6. ASSUME NEW j \in Keys, NEW x \in Amounts(j), Refund(j, x) PROVE GoesOn
  <2>1. now' = now /\ x \in Nat
    BY <1>1, <1>6 DEF Refund, Amounts
  <2>2. CASE j # k
    BY <1>1, <1>2, <1>6, <2>1, <2>2 DEF Refund
  <2>3. CASE j = k
    <3>1. /\ auth'[k].refunded = auth[k].refunded + x
          /\ auth'[k].status \in {"REFUNDED", "PARTIALLY_REFUNDED"}
          /\ auth'[k].amount = auth[k].amount /\ auth'[k].expires = auth[k].expires
          /\ auth'[k].payer = auth[k].payer /\ auth'[k].payee = auth[k].payee
          /\ auth[k].status \in {"CAPTURED", "PARTIALLY_REFUNDED"}
      BY <1>1, <1>6, <2>3 DEF Refund
    <3> QED BY <1>1, <2>1, <3>1 DEF Exists, Expired, Captured
  <2> QED BY <2>2, <2>3
<1>7. ASSUME NEW j \in Keys, Release(j) PROVE GoesOn
  <2>1. /\ auth[j].status = "AUTHORIZED" /\ now' = now
        /\ auth' = [auth EXCEPT ![j].status = "RELEASED"]
    BY <1>7 DEF Release
  <2>2. CASE j = k
    BY <1>1, <2>1, <2>2 DEF Exists, Expired, Captured
  <2>3. CASE j # k
    BY <1>1, <1>2, <2>1, <2>3
  <2> QED BY <2>2, <2>3
<1> HIDE DEF GoesOn
<1>8. GoesOn
  BY <1>3, <1>4, <1>5, <1>6, <1>7 DEF AuthNext
<1> QED BY <1>8 DEF GoesOn

(******************************************************************************)
(* Sweeper: for any number of sweepers, any batch limit and any number of     *)
(* crashes, a pass that works from a list read long ago does nothing an       *)
(* authorization does not allow.                                              *)
(******************************************************************************)
(* Too late to be captured, for good.                                           *)
Overdue(k) == auth[k].expires <= now /\ auth[k].status \in {"AUTHORIZED", "RELEASED"}

(* The inductive invariant.                                                     *)
BInv == IInv /\ SweeperTypeOK /\ BatchesHaveExpired

-------------------------------------------------------------------------------
(* No step of an authorization makes an overdue one anything else.              *)
LEMMA OverdueStays ==
    ASSUME IInv, [AuthNext]_authVars, NEW k \in Keys, Overdue(k)
    PROVE  Overdue(k)'
<1>1. auth[k].expires \in Nat /\ now \in Nat /\ now' \in Nat
  BY NextIInv DEF IInv, TypeOK
<1>2. /\ Exists(k) /\ auth'[k].expires = auth[k].expires /\ now' >= now
      /\ auth[k].status = "RELEASED" => auth'[k].status = "RELEASED"
      /\ Expired(k) => auth'[k].status \in {"AUTHORIZED", "RELEASED"}
  BY RowGoesOn DEF Overdue, Exists
<1> QED BY <1>1, <1>2 DEF Overdue, Expired

(* Every step of the sweeper is a step of the authorizations: a hold in a batch   *)
(* has expired, so releasing it needs no second look at the clock.               *)
LEMMA SweeperStepIsAuthStep ==
    ASSUME BInv, [SweeperNext]_sweeperVars
    PROVE  [AuthNext]_authVars
<1>1. CASE Tick \/ (LedgerNext /\ UNCHANGED <<auth, now>>)
  BY <1>1 DEF AuthNext
<1>2. ASSUME NEW k \in Keys,
             \/ \E c \in Commands : Authorize(k, c)
             \/ Capture(k)
             \/ \E x \in Amounts(k) : Refund(k, x)
      PROVE  AuthNext
  BY <1>2 DEF AuthNext
<1>3. ASSUME NEW s \in Sweepers, Select(s) \/ Crash(s) PROVE UNCHANGED authVars
  BY <1>3 DEF Select, Crash
<1>4. ASSUME NEW s \in Sweepers, ReleaseNext(s) PROVE [AuthNext]_authVars
  <2> DEFINE k == Head(batch[s])
  <2>1. batch[s] \in Seq(Keys) /\ batch[s] # <<>>
    BY <1>4 DEF ReleaseNext, BInv, SweeperTypeOK
  <2>2. k \in Keys /\ k \in Range(batch[s])
    BY <2>1 DEF Range
  <2>3. auth[k].expires <= now
    BY <2>2 DEF BInv, BatchesHaveExpired
  <2>4. Release(k) \/ UNCHANGED authVars
    BY <1>4 DEF ReleaseNext
  <2>5. Release(k) => Expired(k)
    BY <2>3 DEF Release, Expired
  <2> HIDE DEF k
  <2> QED BY <2>2, <2>4, <2>5 DEF AuthNext
<1>5. CASE UNCHANGED sweeperVars
  BY <1>5 DEF sweeperVars, authVars
<1> HIDE DEF AuthNext
<1> QED BY <1>1, <1>2, <1>3, <1>4, <1>5 DEF SweeperNext

(* The initial states satisfy the invariant.                                     *)
LEMMA InitBInv ==
    ASSUME SweeperInit PROVE BInv
<1>1. IInv
  BY InitIInv DEF SweeperInit
<1>2. SweeperTypeOK /\ BatchesHaveExpired
  BY <1>1, SweeperAssumption DEF SweeperInit, SweeperTypeOK, BatchesHaveExpired, Range, IInv
<1> QED BY <1>1, <1>2 DEF BInv

(* Every step preserves the invariant.                                           *)
LEMMA NextBInv ==
    ASSUME BInv, [SweeperNext]_sweeperVars PROVE BInv'
<1>1. [AuthNext]_authVars
  BY SweeperStepIsAuthStep
<1>2. IInv /\ IInv'
  BY <1>1, NextIInv DEF BInv
<1>3. \A k \in Keys : Overdue(k) => Overdue(k)'
  BY <1>1, <1>2, OverdueStays
<1>4. TypeOK'
  BY <1>2 DEF IInv
<1>5. \A s \in Sweepers : /\ batch[s] \in Seq(Keys)
                        /\ \A k \in Range(batch[s]) : k \in Keys /\ Overdue(k)
  BY DEF BInv, SweeperTypeOK, BatchesHaveExpired, Overdue, Range
<1>6. ASSUME NEW s \in Sweepers, NEW q \in Seq(Keys),
             \A k \in Range(q) : Overdue(k)',
             batch' = [batch EXCEPT ![s] = q], crashes' \in 0 .. MaxCrashes
      PROVE  BInv'
  <2>1. SweeperTypeOK'
    BY <1>4, <1>6 DEF BInv, SweeperTypeOK
  <2>2. \A t \in Sweepers : \A k \in Range(batch'[t]) : Overdue(k)'
    BY <1>3, <1>5, <1>6 DEF BInv, SweeperTypeOK
  <2> QED BY <1>2, <2>1, <2>2 DEF BInv, BatchesHaveExpired, Overdue
<1>7. CASE UNCHANGED <<batch, crashes>>
  <2>1. SweeperTypeOK'
    BY <1>4, <1>7 DEF BInv, SweeperTypeOK
  <2>2. \A t \in Sweepers : \A k \in Range(batch'[t]) : Overdue(k)'
    BY <1>3, <1>5, <1>7
  <2> QED BY <1>2, <2>1, <2>2 DEF BInv, BatchesHaveExpired, Overdue
<1>8. ASSUME NEW s \in Sweepers, Select(s) PROVE BInv'
  <2>1. PICK q \in SeqOf(ExpiredKeys, Min({BatchLimit, Cardinality(ExpiredKeys)})) :
            OldestFirst(q) /\ batch' = [batch EXCEPT ![s] = q]
    BY <1>8 DEF Select
  <2>2. q \in Seq(Keys) /\ Range(q) \subseteq ExpiredKeys
    <3>1. ExpiredKeys \subseteq Keys
      BY DEF ExpiredKeys
    <3>2. PICK m \in Nat : q \in [1 .. m -> ExpiredKeys]
      BY <2>1 DEF SeqOf
    <3> QED BY <3>1, <3>2, <2>1 DEF OldestFirst
  <2>3. \A k \in Range(q) : Overdue(k)'
    <3>1. \A k \in Range(q) : k \in Keys /\ Overdue(k)
      BY <2>2 DEF ExpiredKeys, Expired, Overdue
    <3> QED BY <1>3, <3>1
  <2>4. crashes' \in 0 .. MaxCrashes
    BY <1>8 DEF Select, BInv, SweeperTypeOK
  <2> QED BY <1>6, <2>1, <2>2, <2>3, <2>4
<1>9. ASSUME NEW s \in Sweepers, ReleaseNext(s) PROVE BInv'
  <2>1. /\ batch' = [batch EXCEPT ![s] = Tail(batch[s])] /\ batch[s] # <<>>
        /\ crashes' \in 0 .. MaxCrashes
    BY <1>9 DEF ReleaseNext, BInv, SweeperTypeOK
  <2>2. Tail(batch[s]) \in Seq(Keys) /\ Range(Tail(batch[s])) \subseteq Range(batch[s])
    BY <1>5, <2>1 DEF Range
  <2> QED BY <1>3, <1>5, <1>6, <2>1, <2>2
<1>10. ASSUME NEW s \in Sweepers, Crash(s) PROVE BInv'
  <2>1. batch' = [batch EXCEPT ![s] = <<>>] /\ crashes' \in 0 .. MaxCrashes
    BY <1>10, SweeperAssumption DEF Crash, BInv, SweeperTypeOK
  <2>2. <<>> \in Seq(Keys) /\ Range(<<>>) = {}
    BY DEF Range
  <2> QED BY <1>6, <2>1, <2>2
<1>11. CASE UNCHANGED sweeperVars
  BY <1>7, <1>11 DEF sweeperVars
<1> QED BY <1>7, <1>8, <1>9, <1>10, <1>11 DEF SweeperNext

(* The inductive invariant holds in every reachable state.                       *)
THEOREM SweeperInvariant == SweeperSpec => []BInv
BY InitBInv, NextBInv, PTL DEF SweeperSpec

(* What a sweeper holds in its batch has expired and cannot be captured any more, *)
(* however long ago it was read.                                                  *)
THEOREM BatchesStayExpired == SweeperSpec => []BatchesHaveExpired
BY SweeperInvariant, PTL DEF BInv

(* Overlapping, stale and interrupted passes keep the promise of Escrow: no hold   *)
(* is released before its expiry, none twice, none that was paid.                  *)
THEOREM SweeperImplementsEscrow == SweeperSpec => SweepKeepsEscrow
<1>1. BInv /\ BInv' /\ [SweeperNext]_sweeperVars => [E!Next]_(E!escrowVars)
  <2>1. IInv => StagesAgree
    BY StageAgrees
  <2>2. IInv' => StagesAgree'
    BY StageAgrees, PTL
  <2> QED BY <2>1, <2>2, SweeperStepIsAuthStep, EscrowNext DEF BInv
<1>2. SweeperInit => E!Init
  BY EscrowInit DEF SweeperInit
<1> QED BY <1>1, <1>2, SweeperInvariant, PTL DEF SweeperSpec, SweepKeepsEscrow, E!Spec

(******************************************************************************)
(* Mandates: for any mandates, grants and payments.                           *)
(******************************************************************************)
MandateRecords == [status : {"ABSENT", "ACTIVE", "REVOKED"}, account : Accounts,
                   perOperation : Nat, total : Nat, expires : Nat]

WithinGrant(k) ==
    link[k] # NoMandate =>
        /\ Exists(k)
        /\ mandate[link[k]].status # "ABSENT"
        /\ auth[k].payer = mandate[link[k]].account
        /\ auth[k].amount <= mandate[link[k]].perOperation

(* The inductive invariant: a link is only to an authorization there is, which    *)
(* from then on keeps its payer and its amount.                                  *)
MInv == IInv /\ MandatesTypeOK /\ \A k \in Keys : WithinGrant(k)

-------------------------------------------------------------------------------
(* A row, once there, keeps its payer and its amount, and commits no more than    *)
(* it did.                                                                       *)
LEMMA RowKept ==
    ASSUME IInv, [AuthNext]_authVars, NEW k \in Keys, Exists(k)
    PROVE  /\ Exists(k)' /\ auth'[k].payer = auth[k].payer
           /\ auth'[k].payee = auth[k].payee /\ auth'[k].amount = auth[k].amount
           /\ Commits(k)' <= Commits(k)
<1>1. /\ auth[k].amount \in Nat /\ auth[k].refunded \in Nat /\ auth[k].refunded <= auth[k].amount
      /\ auth'[k].amount \in Nat /\ auth'[k].refunded \in Nat
      /\ auth'[k].refunded <= auth'[k].amount
  BY NextIInv DEF IInv, TypeOK, RefundsChain, Chained
<1>2. /\ Exists(k)' /\ auth'[k].payer = auth[k].payer
      /\ auth'[k].payee = auth[k].payee /\ auth'[k].amount = auth[k].amount
      /\ auth'[k].refunded >= auth[k].refunded
      /\ auth[k].status = "RELEASED" => auth'[k].status = "RELEASED"
  BY RowGoesOn
<1> QED BY <1>1, <1>2 DEF Exists, Commits

(* On the authorizations, a step of the mandates is one of theirs or none.        *)
LEMMA MandateStepIsAuthStep ==
    ASSUME [MandateNext]_mandateVars PROVE [AuthNext]_authVars
<1>1. ASSUME NEW m \in MandateIds, NEW k \in Keys, NEW c \in Commands,
             PayUnderMandate(m, k, c)
      PROVE  [AuthNext]_authVars
  BY <1>1 DEF PayUnderMandate, AuthNext
<1>2. ASSUME NEW m \in MandateIds, Revoke(m) \/ \E g \in Grants : Grant(m, g)
      PROVE  UNCHANGED authVars
  BY <1>2 DEF Revoke, Grant
<1>3. CASE UNCHANGED mandateVars
  BY <1>3 DEF mandateVars, authVars
<1> QED BY <1>1, <1>2, <1>3 DEF MandateNext

(* The initial states satisfy the invariant.                                      *)
LEMMA InitMInv ==
    ASSUME MandateInit PROVE MInv
<1>1. IInv
  BY InitIInv DEF MandateInit
<1>2. Ungranted \in MandateRecords
  BY AuthorizationsAssumption DEF Ungranted, MandateRecords, Accounts
<1>3. MandatesTypeOK
  BY <1>2 DEF MandateInit, MandatesTypeOK, MandateRecords, Ungranted
<1>4. \A k \in Keys : WithinGrant(k)
  BY DEF MandateInit, WithinGrant
<1> QED BY <1>1, <1>3, <1>4 DEF MInv

(* A grant gives a new mandate its terms; nothing is linked to it yet.            *)
LEMMA GrantStep ==
    ASSUME MInv, NEW m \in MandateIds, NEW g \in Grants, Grant(m, g), IInv'
    PROVE  MInv'
<1>1. /\ mandate[m].status = "ABSENT" /\ UNCHANGED <<posted, balance, closed, auth, now, link>>
      /\ mandate \in [MandateIds -> MandateRecords] /\ link \in [Keys -> MandateIds \cup {NoMandate}]
      /\ now \in Nat
  BY DEF Grant, authVars, MInv, MandatesTypeOK, MandateRecords, IInv, TypeOK
<1>2. /\ \A j \in MandateIds \ {m} : mandate'[j] = mandate[j]
      /\ mandate'[m].account = g.account
  BY <1>1 DEF Grant
<1>3. g.account \in Customers /\ g.perOperation \in Nat /\ g.total \in Nat /\ g.life \in Nat
  BY MandatesAssumption
<1>4. mandate' \in [MandateIds -> MandateRecords]
  BY <1>1, <1>3 DEF Grant, MandateRecords, Accounts
<1>5. MandatesTypeOK'
  BY <1>1, <1>2, <1>3, <1>4 DEF MandatesTypeOK, MandateRecords, MInv
<1>6. \A k \in Keys : WithinGrant(k)'
  BY <1>1, <1>2 DEF MInv, WithinGrant, Exists
<1> QED BY <1>5, <1>6 DEF MInv

(* A revocation changes the status and nothing else.                              *)
LEMMA RevokeStep ==
    ASSUME MInv, NEW m \in MandateIds, Revoke(m), IInv'
    PROVE  MInv'
<1>1. /\ mandate[m].status = "ACTIVE" /\ UNCHANGED <<posted, balance, closed, auth, now, link>>
      /\ mandate \in [MandateIds -> MandateRecords] /\ link \in [Keys -> MandateIds \cup {NoMandate}]
  BY DEF Revoke, authVars, MInv, MandatesTypeOK, MandateRecords
<1>2. /\ \A j \in MandateIds \ {m} : mandate'[j] = mandate[j]
      /\ mandate'[m].status = "REVOKED"
      /\ mandate'[m].account = mandate[m].account
      /\ mandate'[m].perOperation = mandate[m].perOperation
  BY <1>1 DEF Revoke, MandateRecords
<1>3. mandate' \in [MandateIds -> MandateRecords]
  BY <1>1 DEF Revoke, MandateRecords
<1>4. MandatesTypeOK'
  BY <1>1, <1>2, <1>3 DEF MandatesTypeOK, MandateRecords, MInv
<1>5. \A k \in Keys : WithinGrant(k)'
  BY <1>1, <1>2 DEF MInv, WithinGrant, Exists
<1> QED BY <1>4, <1>5 DEF MInv

(* A payment links an authorization the mandate allows: a new one, or one with    *)
(* the same accounts and amount.                                                  *)
LEMMA PayStep ==
    ASSUME MInv, NEW m \in MandateIds, NEW k \in Keys, NEW c \in Commands,
           PayUnderMandate(m, k, c), IInv', [AuthNext]_authVars
    PROVE  MInv'
<1>1. /\ UNCHANGED mandate /\ link \in [Keys -> MandateIds \cup {NoMandate}]
      /\ link' = [link EXCEPT ![k] = IF link[k] = NoMandate THEN m ELSE link[k]]
  BY DEF PayUnderMandate, MInv, MandatesTypeOK
<1>2. MandatesTypeOK'
  BY <1>1 DEF MInv, MandatesTypeOK
<1>3. /\ mandate[m].status # "ABSENT" /\ mandate[m].account = c.payer
      /\ c.amount <= mandate[m].perOperation
  BY DEF PayUnderMandate, Allows, Usable
<1>4. Exists(k)' /\ auth'[k].payer = c.payer /\ auth'[k].amount = c.amount
  <2>1. CASE Authorize(k, c)
    <3>1. auth \in [Keys -> [status : Statuses, payer : Accounts, payee : Accounts,
                             amount : Nat, refunded : Nat, expires : Nat]]
      BY DEF MInv, IInv, TypeOK
    <3> QED BY <2>1, <3>1 DEF Authorize, Exists
  <2>2. CASE Exists(k) /\ SameCommand(k, c) /\ UNCHANGED authVars
    BY <2>2 DEF SameCommand, Exists, authVars
  <2> QED BY <2>1, <2>2 DEF PayUnderMandate
<1>5. \A j \in Keys : link[j] # NoMandate => WithinGrant(j)'
  <2> SUFFICES ASSUME NEW j \in Keys, link[j] # NoMandate PROVE WithinGrant(j)'
    OBVIOUS
  <2>1. WithinGrant(j) /\ Exists(j) /\ IInv
    BY DEF MInv, WithinGrant
  <2>2. Exists(j)' /\ auth'[j].payer = auth[j].payer /\ auth'[j].amount = auth[j].amount
    BY <2>1, RowKept
  <2>3. link'[j] = link[j]
    BY <1>1
  <2> QED BY <1>1, <2>1, <2>2, <2>3 DEF WithinGrant
<1>6. link[k] = NoMandate => WithinGrant(k)'
  BY <1>1, <1>3, <1>4 DEF WithinGrant
<1>7. \A j \in Keys \ {k} : link[j] = NoMandate => WithinGrant(j)'
  BY <1>1 DEF WithinGrant
<1> QED BY <1>2, <1>5, <1>6, <1>7 DEF MInv

(* Every step preserves the invariant.                                            *)
LEMMA NextMInv ==
    ASSUME MInv, [MandateNext]_mandateVars PROVE MInv'
<1>1. [AuthNext]_authVars /\ IInv /\ IInv'
  BY MandateStepIsAuthStep, NextIInv DEF MInv
<1>2. CASE UNCHANGED <<mandate, link>>
  <2>1. MandatesTypeOK'
    BY <1>2 DEF MInv, MandatesTypeOK
  <2>2. ASSUME NEW k \in Keys PROVE WithinGrant(k)'
    <3>1. CASE link[k] = NoMandate
      BY <1>2, <3>1 DEF WithinGrant
    <3>2. CASE link[k] # NoMandate
      <4>1. WithinGrant(k) /\ Exists(k)
        BY <3>2 DEF MInv, WithinGrant
      <4>2. Exists(k)' /\ auth'[k].payer = auth[k].payer /\ auth'[k].amount = auth[k].amount
        BY <1>1, <4>1, RowKept
      <4> QED BY <1>2, <4>1, <4>2 DEF WithinGrant
    <3> QED BY <3>1, <3>2
  <2> QED BY <1>1, <2>1, <2>2 DEF MInv
<1>3. ASSUME NEW m \in MandateIds, NEW g \in Grants, Grant(m, g) PROVE MInv'
  BY <1>1, <1>3, GrantStep
<1>4. ASSUME NEW m \in MandateIds, Revoke(m) PROVE MInv'
  BY <1>1, <1>4, RevokeStep
<1>5. ASSUME NEW m \in MandateIds, NEW k \in Keys, NEW c \in Commands,
             PayUnderMandate(m, k, c)
      PROVE  MInv'
  BY <1>1, <1>5, PayStep
<1>6. CASE UNCHANGED mandateVars
  BY <1>2, <1>6 DEF mandateVars
<1> QED BY <1>2, <1>3, <1>4, <1>5, <1>6 DEF MandateNext

(* The inductive invariant holds in every reachable state.                        *)
THEOREM MandatesInvariant == MandateSpec => []MInv
BY InitMInv, NextMInv, PTL DEF MandateSpec

(* Whatever is linked to a mandate, by a payment or by a retry, pays from its      *)
(* account and keeps to its cap per operation.                                     *)
THEOREM LinksKeepToGrant == MandateSpec => []LinksWithinGrant
<1>1. MInv => LinksWithinGrant
  BY DEF MInv, WithinGrant, LinksWithinGrant
<1> QED BY <1>1, MandatesInvariant, PTL

(* A mandate that was revoked or has expired takes on no payment, and its          *)
(* consumption only falls.                                                         *)
THEOREM DeadMandatesOnlyShrink == MandateSpec => DeadMandatesShrink
<1> DEFINE A == \A m \in MandateIds : ~Usable(m) =>
                    /\ LinkedTo(m)' = LinkedTo(m)
                    /\ \A k \in LinkedTo(m) : Commits(k)' <= Commits(k)
<1>1. MInv /\ [MandateNext]_mandateVars => [A]_mandateVars
  <2> SUFFICES ASSUME MInv, MandateNext, NEW m \in MandateIds, ~Usable(m)
               PROVE  /\ LinkedTo(m)' = LinkedTo(m)
                      /\ \A k \in LinkedTo(m) : Commits(k)' <= Commits(k)
    OBVIOUS
  <2>1. [AuthNext]_authVars /\ IInv
    BY MandateStepIsAuthStep DEF MInv
  <2>2. \A k \in LinkedTo(m) : Commits(k)' <= Commits(k)
    <3> SUFFICES ASSUME NEW k \in LinkedTo(m) PROVE Commits(k)' <= Commits(k)
      OBVIOUS
    <3>1. k \in Keys /\ Exists(k)
      BY MandatesAssumption DEF LinkedTo, MInv, WithinGrant
    <3> QED BY <2>1, <3>1, RowKept
  <2>3. LinkedTo(m)' = LinkedTo(m)
    <3>1. CASE UNCHANGED link
      BY <3>1 DEF LinkedTo
    <3>2. ASSUME NEW n \in MandateIds, NEW k \in Keys, NEW c \in Commands,
                 PayUnderMandate(n, k, c)
          PROVE  LinkedTo(m)' = LinkedTo(m)
      <4>1. n # m
        BY <3>2 DEF PayUnderMandate, Allows
      <4>2. /\ link \in [Keys -> MandateIds \cup {NoMandate}]
            /\ link' = [link EXCEPT ![k] = IF link[k] = NoMandate THEN n ELSE link[k]]
        BY <3>2 DEF PayUnderMandate, MInv, MandatesTypeOK
      <4> QED BY <4>1, <4>2, MandatesAssumption DEF LinkedTo
    <3>3. ASSUME NEW n \in MandateIds, Revoke(n) \/ \E g \in Grants : Grant(n, g)
          PROVE  UNCHANGED link
      BY <3>3 DEF Revoke, Grant
    <3> QED BY <3>1, <3>2, <3>3 DEF MandateNext
  <2> QED BY <2>2, <2>3
<1> QED BY <1>1, MandatesInvariant, PTL DEF MandateSpec, DeadMandatesShrink

(* Payments under mandates keep the promise of Escrow like any other.               *)
THEOREM MandatesImplementEscrow == MandateSpec => KeepsEscrow
<1>1. MInv /\ MInv' /\ [MandateNext]_mandateVars => [E!Next]_(E!escrowVars)
  <2>1. IInv => StagesAgree
    BY StageAgrees
  <2>2. IInv' => StagesAgree'
    BY StageAgrees, PTL
  <2> QED BY <2>1, <2>2, MandateStepIsAuthStep, EscrowNext DEF MInv
<1>2. MandateInit => E!Init
  BY EscrowInit DEF MandateInit
<1> QED BY <1>1, <1>2, MandatesInvariant, PTL DEF MandateSpec, KeepsEscrow, E!Spec

-------------------------------------------------------------------------------
SettlingKinds == {"authorization_hold", "authorization_release", "authorization_refund"}

(* What one key commits, told by its postings.                                   *)
KeyOut(k) == Commits(k) = Sum("authorization_hold", {k})
                          - Sum("authorization_release", {k})
                          - Sum("authorization_refund", {k})

(* What is committed under the mandates: the cap, and every key on its own; the   *)
(* sums are over finite sets because a payment links one key.                     *)
CapsKept ==
    /\ \A k \in Keys : KeyOut(k)
    /\ \A m \in MandateIds : IsFiniteSet(LinkedTo(m)) /\ Consumed(m) <= mandate[m].total

-------------------------------------------------------------------------------
LEMMA SumIsInt ==
    ASSUME TypeOK, IsFiniteSet(posted), NEW kind, NEW K
    PROVE  Sum(kind, K) \in Int
<1> DEFINE P == {p \in posted : p.kind = kind /\ p.ref \in K}
<1>1. IsFiniteSet(P) /\ \A p \in P : p.amount \in Int
  BY FS_Subset DEF TypeOK, Postings
<1> HIDE DEF P
<1>2. Total(P) \in Int
  BY <1>1, AmountsType DEF Total
<1> QED BY <1>2 DEF Sum, P

(* A posting adds its amount to the sums it is part of, unless it is a replay.    *)
LEMMA SumAfterPost ==
    ASSUME TypeOK, IsFiniteSet(posted), NEW p \in Postings(AllKinds), p \notin posted,
           posted' = posted \cup {p}, NEW CONSTANT kind, NEW CONSTANT K
    PROVE  Sum(kind, K)' = Sum(kind, K) + (IF p.kind = kind /\ p.ref \in K THEN p.amount ELSE 0)
<1> DEFINE P == {q \in posted : q.kind = kind /\ q.ref \in K}
<1>1. /\ IsFiniteSet(P) /\ p \notin P /\ p.amount \in Int /\ \A q \in P : q.amount \in Int
  BY FS_Subset DEF TypeOK, Postings
<1>2. {q \in posted' : q.kind = kind /\ q.ref \in K} =
         IF p.kind = kind /\ p.ref \in K THEN P \cup {p} ELSE P
  OBVIOUS
<1>3. Sum(kind, K)' = IF p.kind = kind /\ p.ref \in K THEN Total(P \cup {p}) ELSE Total(P)
  BY <1>2 DEF Sum, Total
<1>4. Sum(kind, K) = Total(P)
  BY DEF Sum
<1> HIDE DEF P
<1>5. Total(P \cup {p}) = p.amount + Total(P) /\ Total(P) \in Int
  BY <1>1, AmountsWith, AmountsType DEF Total
<1> QED BY <1>1, <1>3, <1>4, <1>5

(* The sum over the keys of a set is the sum of what each of them adds.           *)
LEMMA SumKeyByKey ==
    ASSUME TypeOK, IsFiniteSet(posted), NEW kind, NEW K, IsFiniteSet(K)
    PROVE  Sum(kind, K) = SumFunction([k \in K |-> Sum(kind, {k})])
<1> DEFINE P == {p \in posted : p.kind = kind /\ p.ref \in K}
           f == [p \in P |-> p.amount]
           g == [p \in P |-> p.ref]
<1>1. IsFiniteSet(P) /\ f \in [P -> Int] /\ g \in [P -> K]
  BY FS_Subset DEF TypeOK, Postings
<1>2. ASSUME NEW k \in K PROVE Part(f, g, P, k) = Sum(kind, {k})
  <2> DEFINE R == {p \in P : g[p] = k}
             e == [p \in R |-> p.amount]
  <2>1. R = {p \in posted : p.kind = kind /\ p.ref \in {k}}
    OBVIOUS
  <2>2. IsFiniteSet(R) /\ \A p \in R : f[p] = e[p]
    BY <1>1, FS_Subset
  <2>3. DOMAIN e = R
    OBVIOUS
  <2> HIDE DEF e, f
  <2>4. SumFunctionOnSet(f, R) = SumFunctionOnSet(e, R)
    BY <2>2, SumAgree
  <2>5. SumFunctionOnSet(e, R) = SumFunction(e)
    BY <2>3 DEF SumFunction
  <2> QED BY <2>1, <2>4, <2>5 DEF Part, Sum, Total, e
<1>3. Parts(f, g, P, K) = [k \in K |-> Sum(kind, {k})]
  BY <1>2 DEF Parts
<1>4. Sum(kind, K) = SumFunction(f)
  BY DEF Sum, Total
<1> HIDE DEF P, f, g
<1>5. SumFunction(f) = SumFunction(Parts(f, g, P, K))
  BY <1>1, SumByParts
<1> QED BY <1>3, <1>4, <1>5

(* The consumption of a mandate is the money still out under it.                  *)
LEMMA ConsumptionByKeys ==
    ASSUME TypeOK, IsFiniteSet(posted), \A k \in Keys : KeyOut(k),
           NEW m \in MandateIds, IsFiniteSet(LinkedTo(m))
    PROVE  Consumed(m) = Sum("authorization_hold", LinkedTo(m))
                         - Sum("authorization_release", LinkedTo(m))
                         - Sum("authorization_refund", LinkedTo(m))
<1> DEFINE S == LinkedTo(m)
           out == [k \in S |-> Commits(k)]
           hold == [k \in S |-> Sum("authorization_hold", {k})]
           released == [k \in S |-> Sum("authorization_release", {k})]
           refunded == [k \in S |-> Sum("authorization_refund", {k})]
           back == [k \in S |-> released[k] + refunded[k]]
<1>1. S \subseteq Keys /\ IsFiniteSet(S)
  BY DEF LinkedTo
<1>2. \A kind, K : Sum(kind, K) \in Int
  BY SumIsInt
<1>3. \A k \in S : Commits(k) \in Int
  BY <1>1 DEF Commits, TypeOK
<1>4. /\ out \in [S -> Int] /\ hold \in [S -> Int] /\ released \in [S -> Int]
      /\ refunded \in [S -> Int] /\ back \in [S -> Int]
  BY <1>2, <1>3
<1>5. /\ \A k \in S : back[k] = released[k] + refunded[k]
      /\ \A k \in S : hold[k] = out[k] + back[k]
  <2>1. \A k \in S : Commits(k) = hold[k] - released[k] - refunded[k]
    BY <1>1 DEF KeyOut
  <2>2. \A k \in S : hold[k] \in Int /\ released[k] \in Int /\ refunded[k] \in Int
    BY <1>2
  <2> QED BY <1>3, <2>1, <2>2
<1>6. /\ Consumed(m) = SumFunction(out)
      /\ Sum("authorization_hold", S) = SumFunction(hold)
      /\ Sum("authorization_release", S) = SumFunction(released)
      /\ Sum("authorization_refund", S) = SumFunction(refunded)
  BY <1>1, SumKeyByKey DEF Consumed
<1> HIDE DEF S, out, hold, released, refunded, back
<1>7. SumFunction(hold) = SumFunction(out) + SumFunction(back)
  BY <1>1, <1>4, <1>5, SumPlus
<1>8. SumFunction(back) = SumFunction(released) + SumFunction(refunded)
  BY <1>1, <1>4, <1>5, SumPlus
<1>9. SumFunction(out) \in Int /\ SumFunction(released) \in Int /\ SumFunction(refunded) \in Int
  BY <1>1, <1>4, SumType
<1> QED BY <1>6, <1>7, <1>8, <1>9 DEF S

-------------------------------------------------------------------------------
(* A posting of another key, or of no authorization, tells a key nothing.         *)
LEMMA KeyOutKept ==
    ASSUME IInv, IsFiniteSet(posted), NEW p \in Postings(AllKinds), Post(p),
           NEW k \in Keys, KeyOut(k), p.ref # k \/ p.kind \notin SettlingKinds,
           Commits(k)' = Commits(k)
    PROVE  KeyOut(k)'
<1>1. ASSUME NEW kind \in SettlingKinds PROVE Sum(kind, {k})' = Sum(kind, {k})
  <2>1. CASE p \in posted
    <3>1. posted' = posted
      BY <2>1 DEF Post
    <3> QED BY <3>1 DEF Sum, Total
  <2>2. CASE p \notin posted
    <3>1. posted' = posted \cup {p} /\ ~(p.kind = kind /\ p.ref \in {k})
      BY <1>1 DEF Post
    <3>2. Sum(kind, {k})' = Sum(kind, {k}) + 0
      BY <2>2, <3>1, SumAfterPost DEF IInv
    <3>3. Sum(kind, {k}) \in Int
      BY SumIsInt DEF IInv
    <3> QED BY <3>2, <3>3
  <2> QED BY <2>1, <2>2
<1> QED BY <1>1 DEF KeyOut, SettlingKinds

(* A posting of the key itself, and new: it counts once.                          *)
LEMMA KeyOutPosted ==
    ASSUME IInv, IsFiniteSet(posted), NEW p \in Postings(AllKinds), Post(p), p \notin posted,
           NEW k \in Keys, KeyOut(k), p.ref = k, p.kind \in SettlingKinds,
           Commits(k)' = IF p.kind = "authorization_hold" THEN Commits(k) + p.amount
                         ELSE Commits(k) - p.amount
    PROVE  KeyOut(k)'
<1>1. /\ posted' = posted \cup {p} /\ p.amount \in Int
  BY DEF Post, Postings
<1>2. \A kind \in SettlingKinds :
         /\ Sum(kind, {k})' = Sum(kind, {k}) + (IF p.kind = kind THEN p.amount ELSE 0)
         /\ Sum(kind, {k}) \in Int
  <2> TAKE kind \in SettlingKinds
  <2>1. Sum(kind, {k}) \in Int
    BY SumIsInt DEF IInv
  <2>2. Sum(kind, {k})' = Sum(kind, {k}) + (IF p.kind = kind /\ p.ref \in {k} THEN p.amount ELSE 0)
    BY <1>1, SumAfterPost DEF IInv
  <2> QED BY <2>1, <2>2
<1>3. Commits(k) = Sum("authorization_hold", {k}) - Sum("authorization_release", {k})
                   - Sum("authorization_refund", {k})
  BY DEF KeyOut
<1> QED BY <1>1, <1>2, <1>3 DEF KeyOut, SettlingKinds

(* On every key, a step of the authorizations keeps the account of its money.      *)
LEMMA KeysKept ==
    ASSUME IInv, IsFiniteSet(posted), \A k \in Keys : KeyOut(k), [AuthNext]_authVars
    PROVE  \A k \in Keys : KeyOut(k)'
<1> SUFFICES ASSUME NEW k \in Keys PROVE KeyOut(k)'
  OBVIOUS
<1>0. /\ auth \in [Keys -> [status : Statuses, payer : Accounts, payee : Accounts,
                            amount : Nat, refunded : Nat, expires : Nat]]
      /\ RowAgrees(k) /\ StatusMatches(k) /\ Chained(k)
  BY DEF IInv, TypeOK, RowsAgree, StatusMatchesLedger, RefundsChain
<1>1. ASSUME UNCHANGED <<posted, auth>> PROVE KeyOut(k)'
  BY <1>1 DEF KeyOut, Commits, Sum, Total
<1>2. CASE Tick \/ UNCHANGED authVars
  BY <1>1, <1>2 DEF Tick, ledgerVars, authVars
<1>3. CASE LedgerNext /\ UNCHANGED <<auth, now>>
  <2>1. ASSUME NEW key \in MovementKeys, NEW m \in Movements, Move(key, m) PROVE KeyOut(k)'
    <3> DEFINE p == [kind |-> m.kind, ref |-> key, seq |-> 0,
                     from |-> m.from, to |-> m.to, amount |-> m.amount]
    <3>1. p \in Postings(AllKinds) /\ p.kind \notin SettlingKinds
      BY PostingAssumption DEF Postings, AllKinds, SettlingKinds
    <3>2. Post(p) /\ Commits(k)' = Commits(k)
      BY <1>3, <2>1 DEF Move, Commits
    <3> HIDE DEF p
    <3> QED BY <3>1, <3>2, KeyOutKept
  <2>2. CASE \E a \in Accounts : ClosePocket(a)
    BY <1>1, <1>3, <2>2 DEF ClosePocket
  <2> QED BY <1>3, <2>1, <2>2 DEF LedgerNext
<1>4. ASSUME NEW j \in Keys, NEW c \in Commands, Authorize(j, c) PROVE KeyOut(k)'
  <2> DEFINE p == HoldOf(j, c)
  <2>1. /\ p \in Postings(AllKinds) /\ p.kind = "authorization_hold" /\ p.ref = j
        /\ p.amount = c.amount /\ c.amount \in Nat
    BY AuthorizationsAssumption DEF HoldOf, Postings, AllKinds, AuthKinds, Accounts
  <2>2. Post(p) /\ ~Exists(j)
    BY <1>4 DEF Authorize
  <2>3. j # k => auth'[k] = auth[k]
    BY <1>0, <1>4 DEF Authorize
  <2>4. j = k => p \notin posted
    BY <1>0, <2>1, <2>2 DEF StatusMatches, Has
  <2>5. j = k => Commits(k) = 0 /\ Commits(k)' = c.amount
    BY <1>0, <1>4, <2>1, <2>2 DEF Authorize, Commits, Exists, RowAgrees
  <2> HIDE DEF p
  <2>6. CASE j # k
    BY <2>1, <2>2, <2>3, <2>6, KeyOutKept DEF Commits
  <2>7. CASE j = k
    BY <2>1, <2>2, <2>4, <2>5, <2>7, KeyOutPosted DEF SettlingKinds
  <2> QED BY <2>6, <2>7
<1>5. ASSUME NEW j \in Keys, Capture(j) PROVE KeyOut(k)'
  <2> DEFINE p == CaptureOf(j)
  <2>1. Post(p) /\ auth[j].status = "AUTHORIZED"
    BY <1>5 DEF Capture
  <2>2. p \in Postings(AllKinds) /\ p.kind \notin SettlingKinds
    BY <2>1, AuthorizationsAssumption
       DEF CaptureOf, Postings, AllKinds, AuthKinds, Accounts, SettlingKinds, IInv, TypeOK,
           RowsAgree, RowAgrees, Exists
  <2>3. Commits(k)' = Commits(k)
    BY <1>0, <1>5 DEF Capture, Commits
  <2> HIDE DEF p
  <2> QED BY <2>1, <2>2, <2>3, KeyOutKept
<1>6. ASSUME NEW j \in Keys, NEW x \in Amounts(j), Refund(j, x) PROVE KeyOut(k)'
  <2> DEFINE p == RefundOf(j, x)
  <2>1. Post(p) /\ auth[j].status \in {"CAPTURED", "PARTIALLY_REFUNDED"}
    BY <1>6 DEF Refund
  <2>2. x \in Nat \ {0}
    BY <1>0 DEF Amounts
  <2>3. p \in Postings(AllKinds) /\ p.kind = "authorization_refund" /\ p.ref = j /\ p.amount = x
    BY <1>0, <2>2 DEF RefundOf, Postings, AllKinds, AuthKinds
  <2>4. j # k => auth'[k] = auth[k]
    BY <1>0, <1>6 DEF Refund
  <2>5. j = k => p \notin posted
    <3> SUFFICES ASSUME j = k, p \in posted PROVE FALSE
      OBVIOUS
    <3>1. p \in RefundsOf(k) /\ p.seq = auth[k].refunded /\ p.amount \in Nat \ {0}
      BY <2>2, <2>3 DEF RefundsOf, RefundOf
    <3>2. auth[k].refunded \in Nat
      BY <1>0
    <3> QED BY <1>0, <3>1, <3>2 DEF Chained
  <2>6. j = k => Commits(k)' = Commits(k) - x
    <3> SUFFICES ASSUME j = k PROVE Commits(k)' = Commits(k) - x
      OBVIOUS
    <3>1. /\ auth'[k].refunded = auth[k].refunded + x /\ auth'[k].amount = auth[k].amount
          /\ auth'[k].status \in {"REFUNDED", "PARTIALLY_REFUNDED"}
          /\ auth[k].amount \in Nat /\ auth[k].refunded \in Nat
      BY <1>0, <1>6 DEF Refund
    <3> QED BY <2>1, <2>2, <3>1 DEF Commits
  <2> HIDE DEF p
  <2>7. CASE j # k
    BY <2>1, <2>3, <2>4, <2>7, KeyOutKept DEF Commits
  <2>8. CASE j = k
    BY <2>1, <2>3, <2>5, <2>6, <2>8, KeyOutPosted DEF SettlingKinds
  <2> QED BY <2>7, <2>8
<1>7. ASSUME NEW j \in Keys, Release(j) PROVE KeyOut(k)'
  <2> DEFINE p == ReleaseOf(j)
  <2>1. Post(p) /\ auth[j].status = "AUTHORIZED"
    BY <1>7 DEF Release
  <2>2. /\ p \in Postings(AllKinds) /\ p.kind = "authorization_release" /\ p.ref = j
        /\ p.amount = auth[j].amount
    BY <2>1, AuthorizationsAssumption
       DEF ReleaseOf, Postings, AllKinds, AuthKinds, Accounts, IInv, TypeOK,
           RowsAgree, RowAgrees, Exists
  <2>3. j # k => auth'[k] = auth[k]
    BY <1>0, <1>7 DEF Release
  <2>4. j = k => p \notin posted
    BY <1>0, <2>1, <2>2 DEF StatusMatches, Has
  <2>5. j = k => Commits(k) = auth[k].amount /\ Commits(k)' = 0 /\ auth[k].amount \in Nat
    BY <1>0, <1>7, <2>1 DEF Release, Commits, RowAgrees
  <2> HIDE DEF p
  <2>6. CASE j # k
    BY <2>1, <2>2, <2>3, <2>6, KeyOutKept DEF Commits
  <2>7. CASE j = k
    BY <2>1, <2>2, <2>4, <2>5, <2>7, KeyOutPosted DEF SettlingKinds
  <2> QED BY <2>6, <2>7
<1> QED BY <1>2, <1>3, <1>4, <1>5, <1>6, <1>7 DEF AuthNext

-------------------------------------------------------------------------------
(* What is linked only shrinks: neither does the consumption grow.                *)
LEMMA ConsumptionShrinks ==
    ASSUME MInv, IInv', [AuthNext]_authVars, NEW m \in MandateIds, IsFiniteSet(LinkedTo(m)),
           LinkedTo(m)' = LinkedTo(m)
    PROVE  Consumed(m)' <= Consumed(m)
<1> DEFINE S == LinkedTo(m)
           f == [k \in S |-> Commits(k)']
           e == [k \in S |-> Commits(k)]
<1>1. \A k \in S : Commits(k) \in Int /\ Commits(k)' \in Int /\ Commits(k)' <= Commits(k)
  <2> TAKE k \in S
  <2>1. k \in Keys /\ Exists(k)
    BY MandatesAssumption DEF LinkedTo, MInv, WithinGrant
  <2>2. Commits(k) \in Int /\ Commits(k)' \in Int
    BY <2>1 DEF Commits, MInv, IInv, TypeOK
  <2>3. Commits(k)' <= Commits(k)
    BY <2>1, RowKept DEF MInv
  <2> QED BY <2>2, <2>3
<1>2. f \in [S -> Int] /\ e \in [S -> Int] /\ \A k \in S : f[k] <= e[k]
  BY <1>1
<1>3. Consumed(m)' = SumFunction(f) /\ Consumed(m) = SumFunction(e)
  BY DEF Consumed
<1>4. IsFiniteSet(S)
  OBVIOUS
<1> HIDE DEF S, f, e
<1>5. SumFunction(f) <= SumFunction(e)
  BY <1>2, <1>4, SumMonotone
<1> QED BY <1>3, <1>5

(* A payment that links a key consumes no more than it asks for.                  *)
LEMMA ConsumptionGrows ==
    ASSUME MInv, IInv', [AuthNext]_authVars, NEW m \in MandateIds, IsFiniteSet(LinkedTo(m)),
           NEW k \in Keys, k \notin LinkedTo(m), LinkedTo(m)' = LinkedTo(m) \cup {k},
           NEW x \in Nat, Commits(k)' <= x
    PROVE  IsFiniteSet(LinkedTo(m))' /\ Consumed(m)' <= Consumed(m) + x
<1> DEFINE S == LinkedTo(m) \cup {k}
           f == [j \in S |-> Commits(j)']
           e == [j \in S |-> IF j = k THEN x ELSE Commits(j)]
           r == [j \in LinkedTo(m) |-> Commits(j)]
<1>1. IsFiniteSet(S) /\ k \in S /\ LinkedTo(m) = S \ {k}
  BY FS_AddElement
<1>2. \A j \in S : Commits(j)' \in Int /\ e[j] \in Int /\ Commits(j)' <= e[j]
  <2> TAKE j \in S
  <2>1. j \in Keys
    BY DEF LinkedTo
  <2>2. Commits(j) \in Int /\ Commits(j)' \in Int
    BY <2>1 DEF Commits, MInv, IInv, TypeOK
  <2>3. ASSUME j # k PROVE Commits(j)' <= Commits(j)
    <3>1. j \in Keys /\ Exists(j)
      BY <2>3, MandatesAssumption DEF LinkedTo, MInv, WithinGrant
    <3> QED BY <3>1, RowKept DEF MInv
  <2> QED BY <2>2, <2>3
<1>3. f \in [S -> Int] /\ e \in [S -> Int] /\ \A j \in S : f[j] <= e[j]
  BY <1>2
<1>4. r \in [S \ {k} -> Int] /\ (\A j \in S \ {k} : r[j] = e[j]) /\ e[k] = x
  <2>1. \A j \in LinkedTo(m) : e[j] = Commits(j)
    OBVIOUS
  <2> QED BY <1>1, <1>2, <2>1
<1>5. Consumed(m)' = SumFunction(f) /\ Consumed(m) = SumFunction(r)
  BY DEF Consumed
<1>6. IsFiniteSet(LinkedTo(m))'
  BY <1>1
<1> HIDE DEF S, f, e, r
<1>7. SumFunction(f) <= SumFunction(e)
  BY <1>1, <1>3, SumMonotone
<1>8. SumFunction(e) = e[k] + SumFunction(r)
  BY <1>1, <1>3, <1>4, SumApart
<1>9. SumFunction(r) \in Int /\ SumFunction(f) \in Int
  <2>1. IsFiniteSet(S \ {k})
    BY <1>1
  <2> QED BY <1>1, <1>3, <1>4, <2>1, SumType
<1> QED BY <1>4, <1>5, <1>6, <1>7, <1>8, <1>9

(* The consumption of a mandate is an integer, before and after a step.            *)
ConsumptionTyped == \A m \in MandateIds : IsFiniteSet(LinkedTo(m)) => Consumed(m) \in Int

LEMMA ConsumedType == TypeOK => ConsumptionTyped
<1> SUFFICES ASSUME TypeOK, NEW m \in MandateIds, IsFiniteSet(LinkedTo(m))
             PROVE  Consumed(m) \in Int
  BY DEF ConsumptionTyped
<1> DEFINE e == [k \in LinkedTo(m) |-> Commits(k)]
<1>1. e \in [LinkedTo(m) -> Int]
  BY DEF LinkedTo, Commits, TypeOK
<1> HIDE DEF e
<1>2. SumFunction(e) \in Int
  BY <1>1, SumType
<1> QED BY <1>2 DEF Consumed, e

LEMMA ConsumedTypeNext == TypeOK' => ConsumptionTyped'
BY ConsumedType, PTL

(* A payment stays within the cap, of this mandate and of every other.            *)
LEMMA PayKeepsCaps ==
    ASSUME MInv, IInv', [AuthNext]_authVars, CapsKept,
           NEW n \in MandateIds, NEW k \in Keys, NEW c \in Commands, PayUnderMandate(n, k, c),
           NEW m \in MandateIds
    PROVE  IsFiniteSet(LinkedTo(m))' /\ Consumed(m)' <= mandate'[m].total
<1>1. /\ UNCHANGED mandate /\ link \in [Keys -> MandateIds \cup {NoMandate}]
      /\ link' = [link EXCEPT ![k] = IF link[k] = NoMandate THEN n ELSE link[k]]
      /\ mandate[m].total \in Nat
  BY DEF PayUnderMandate, MInv, MandatesTypeOK
<1>2. IsFiniteSet(LinkedTo(m)) /\ Consumed(m) <= mandate[m].total /\ Consumed(m) \in Int
  BY ConsumedType DEF ConsumptionTyped, CapsKept, MInv, IInv
<1>3. CASE link[k] = NoMandate /\ m = n
  <2>1. k \notin LinkedTo(m) /\ LinkedTo(m)' = LinkedTo(m) \cup {k}
    BY <1>1, <1>3, MandatesAssumption DEF LinkedTo
  <2>2. c.amount \in Nat /\ c.amount <= mandate[m].total - Consumed(m)
    BY <1>3, AuthorizationsAssumption DEF PayUnderMandate, Allows
  <2>3. Commits(k)' <= c.amount
    <3>1. auth'[k].amount = c.amount
      <4>1. CASE Authorize(k, c)
        BY <4>1 DEF Authorize, MInv, IInv, TypeOK
      <4>2. CASE SameCommand(k, c) /\ UNCHANGED authVars
        BY <4>2 DEF SameCommand, authVars
      <4> QED BY <4>1, <4>2 DEF PayUnderMandate
    <3>2. auth'[k].amount \in Nat /\ auth'[k].refunded \in Nat
      BY DEF IInv, TypeOK
    <3> QED BY <3>1, <3>2 DEF Commits
  <2>4. IsFiniteSet(LinkedTo(m))' /\ Consumed(m)' <= Consumed(m) + c.amount
    BY <1>2, <2>1, <2>2, <2>3, ConsumptionGrows
  <2>5. Consumed(m)' \in Int
    BY <2>4, ConsumedTypeNext DEF ConsumptionTyped, IInv
  <2> QED BY <1>1, <1>2, <2>2, <2>4, <2>5
<1>4. CASE ~(link[k] = NoMandate /\ m = n)
  <2>1. LinkedTo(m)' = LinkedTo(m)
    BY <1>1, <1>4, MandatesAssumption DEF LinkedTo
  <2>2. Consumed(m)' <= Consumed(m)
    BY <1>2, <2>1, ConsumptionShrinks
  <2>3. IsFiniteSet(LinkedTo(m))'
    BY <1>2, <2>1
  <2>4. Consumed(m)' \in Int
    BY <2>3, ConsumedTypeNext DEF ConsumptionTyped, IInv
  <2> QED BY <1>1, <1>2, <2>2, <2>3, <2>4
<1> QED BY <1>3, <1>4

(* The initial states: nothing is committed, and nothing was posted.               *)
LEMMA InitCapsKept ==
    ASSUME MandateInit PROVE CapsKept
<1>1. /\ posted = {} /\ \A k \in Keys : auth[k] = Absent /\ link[k] = NoMandate
      /\ \A m \in MandateIds : mandate[m].total = 0
  BY DEF MandateInit, Init, LedgerInit, Ungranted
<1>2. \A kind, K : Sum(kind, K) = 0
  BY <1>1, SumNone DEF Sum, Total
<1>3. \A k \in Keys : KeyOut(k)
  BY <1>1, <1>2 DEF KeyOut, Commits, Absent
<1>4. ASSUME NEW m \in MandateIds PROVE IsFiniteSet(LinkedTo(m)) /\ Consumed(m) <= mandate[m].total
  <2>1. LinkedTo(m) = {}
    BY <1>1, MandatesAssumption DEF LinkedTo
  <2>2. Consumed(m) = 0
    BY <2>1, SumNone DEF Consumed
  <2> QED BY <1>1, <2>1, <2>2, FS_EmptySet
<1> QED BY <1>3, <1>4 DEF CapsKept

(* Every step keeps the caps and the account of every key.                         *)
LEMMA NextCapsKept ==
    ASSUME MInv, IInv', IsFiniteSet(posted), CapsKept, [MandateNext]_mandateVars
    PROVE  CapsKept'
<1>1. [AuthNext]_authVars /\ IInv
  BY MandateStepIsAuthStep DEF MInv
<1>2. \A k \in Keys : KeyOut(k)'
  BY <1>1, KeysKept DEF CapsKept
<1> SUFFICES ASSUME NEW m \in MandateIds
             PROVE  IsFiniteSet(LinkedTo(m))' /\ Consumed(m)' <= mandate'[m].total
  BY <1>2 DEF CapsKept
<1>3. /\ IsFiniteSet(LinkedTo(m)) /\ Consumed(m) <= mandate[m].total /\ Consumed(m) \in Int
      /\ mandate[m].total \in Nat
  BY <1>1, ConsumedType DEF ConsumptionTyped, CapsKept, IInv, MInv, MandatesTypeOK
<1>4. ASSUME UNCHANGED link, mandate'[m].total = mandate[m].total
      PROVE  IsFiniteSet(LinkedTo(m))' /\ Consumed(m)' <= mandate'[m].total
  <2>1. LinkedTo(m)' = LinkedTo(m)
    BY <1>4 DEF LinkedTo
  <2>2. Consumed(m)' <= Consumed(m)
    BY <1>1, <1>3, <2>1, ConsumptionShrinks
  <2>3. IsFiniteSet(LinkedTo(m))'
    BY <1>3, <2>1
  <2>4. Consumed(m)' \in Int
    BY <2>3, ConsumedTypeNext DEF ConsumptionTyped, IInv
  <2> QED BY <1>3, <1>4, <2>2, <2>3, <2>4
<1>5. CASE (AuthNext /\ UNCHANGED <<mandate, link>>) \/ UNCHANGED mandateVars
  BY <1>4, <1>5 DEF mandateVars
<1>6. ASSUME NEW n \in MandateIds, NEW g \in Grants, Grant(n, g)
      PROVE  IsFiniteSet(LinkedTo(m))' /\ Consumed(m)' <= mandate'[m].total
  <2>1. UNCHANGED link /\ mandate[n].status = "ABSENT"
    BY <1>6 DEF Grant
  <2>2. CASE n # m
    BY <1>4, <1>6, <2>1, <2>2 DEF Grant, MInv, MandatesTypeOK
  <2>3. CASE n = m
    <3>1. LinkedTo(m) = {} /\ LinkedTo(m)' = {}
      BY <2>1, <2>3, MandatesAssumption DEF LinkedTo, MInv, WithinGrant
    <3>2. Consumed(m)' = 0
      BY <3>1, SumNone DEF Consumed
    <3>3. mandate'[m].total = g.total /\ g.total \in Nat
      BY <1>6, <2>3, MandatesAssumption DEF Grant, MInv, MandatesTypeOK
    <3> QED BY <3>1, <3>2, <3>3, FS_EmptySet
  <2> QED BY <2>2, <2>3
<1>7. ASSUME NEW n \in MandateIds, Revoke(n)
      PROVE  IsFiniteSet(LinkedTo(m))' /\ Consumed(m)' <= mandate'[m].total
  <2>1. UNCHANGED link /\ mandate'[m].total = mandate[m].total
    BY <1>7 DEF Revoke, MInv, MandatesTypeOK
  <2> QED BY <1>4, <2>1
<1>8. ASSUME NEW n \in MandateIds, NEW k \in Keys, NEW c \in Commands, PayUnderMandate(n, k, c)
      PROVE  IsFiniteSet(LinkedTo(m))' /\ Consumed(m)' <= mandate'[m].total
  BY <1>1, <1>8, PayKeepsCaps
<1> QED BY <1>5, <1>6, <1>7, <1>8 DEF MandateNext

LEMMA CapsAndConsumption ==
    MandateSpec => [](CapRespected /\ ConsumptionIsMoneyOut)
<1> DEFINE All == MInv /\ BalancesAgree /\ CapsKept
<1>1. MandateInit => All
  BY InitMInv, InitBalancesAgree, InitCapsKept DEF MandateInit
<1>2. All /\ [MandateNext]_mandateVars => All'
  <2> SUFFICES ASSUME All, [MandateNext]_mandateVars PROVE All'
    OBVIOUS
  <2>1. MInv' /\ IInv'
    BY NextMInv DEF MInv
  <2>2. BalancesAgree'
    BY MandateStepIsAuthStep, NextBalancesAgree DEF MInv
  <2>3. CapsKept'
    BY <2>1, NextCapsKept DEF BalancesAgree
  <2> QED BY <2>1, <2>2, <2>3
<1>3. All => CapRespected /\ ConsumptionIsMoneyOut
  <2> SUFFICES ASSUME All PROVE CapRespected /\ ConsumptionIsMoneyOut
    OBVIOUS
  <2>1. TypeOK /\ IsFiniteSet(posted) /\ (\A k \in Keys : KeyOut(k))
        /\ \A m \in MandateIds : IsFiniteSet(LinkedTo(m))
    BY DEF MInv, IInv, BalancesAgree, CapsKept
  <2>2. ConsumptionIsMoneyOut
    BY <2>1, ConsumptionByKeys DEF ConsumptionIsMoneyOut
  <2> QED BY <2>2 DEF CapRespected, CapsKept
<1> HIDE DEF All
<1> QED BY <1>1, <1>2, <1>3, PTL DEF MandateSpec

(* No mandate pays out more than its holder granted (authorize).                   *)
THEOREM MandatesKeepCaps == MandateSpec => []CapRespected
BY CapsAndConsumption, PTL

(* What a mandate has consumed, which a view works out from the authorizations, is *)
(* the money that the ledger says is still out under it (mandate_consumption).     *)
THEOREM ConsumptionIsInTheLedger == MandateSpec => []ConsumptionIsMoneyOut
BY CapsAndConsumption, PTL

(******************************************************************************)
(* PaymentCalls: for any calls of any number of integrations, whatever answer *)
(* is lost and whatever is asked again.                                       *)
(******************************************************************************)
CallFields(r) ==
    r \in [at : {"idle", "asked", "resolved", "answered"}, op : {"get", "capture", "refund"},
           key : {r.key}, want : Nat, before : Nat, moved : Nat, retries : Nat,
           answer : {r.answer}, said : {r.said}]

(* What was told to an integration, in terms of the row it was told about: the    *)
(* row will not take it back.                                                     *)
Told(c) ==
    LET r == call[c] a == auth[r.key] IN
    r.at = "answered" =>
        /\ r.op = "capture" /\ r.answer = "ok" => a.status \in Captured
        /\ r.answer \in {"not_capturable", "authorization_expired"} =>
              a.status = "RELEASED" \/ Expired(r.key)
        /\ r.op = "refund" /\ r.answer = "ok" =>
              /\ Exists(r.key) /\ r.said[2] \in Int
              /\ r.said[2] + r.said[3] = a.amount /\ r.said[2] <= a.refunded
              /\ r.retries = 0 => r.said[1] >= r.moved

(* What a call knows while it is on its way: a first attempt moved nothing yet,   *)
(* and what it read of the refunds is no more than there are.                     *)
OnItsWay(c) ==
    LET r == call[c] IN
    /\ CallFields(r)
    /\ r.at # "idle" => r.key \in Keys
    /\ r.at # "answered" /\ r.retries = 0 => r.moved = 0
    /\ r.at = "resolved" => Exists(r.key) /\ r.before <= auth[r.key].refunded

CallsInv ==
    /\ call = [c \in Calls |-> call[c]]
    /\ \A c \in Calls : OnItsWay(c) /\ Told(c)

(* Whatever happens to the payments, a call that does not move stays right.       *)
LEMMA CallStands ==
    ASSUME IInv, [AuthNext]_authVars, NEW c \in Calls, OnItsWay(c), Told(c), call'[c] = call[c]
    PROVE  OnItsWay(c)' /\ Told(c)'
<1> DEFINE r == call[c]
           k == r.key
<1>1. r.at # "idle" => k \in Keys
  BY DEF OnItsWay
<1>2. CASE r.at = "idle"
  BY <1>2 DEF OnItsWay, Told
<1>3. CASE r.at # "idle" /\ ~Exists(k)
  <2>1. r.at # "resolved"
    BY <1>3 DEF OnItsWay
  <2>2. OnItsWay(c)'
    BY <2>1 DEF OnItsWay
  <2>3. r.at = "answered" => /\ ~(r.op = "capture" /\ r.answer = "ok")
                             /\ r.answer \notin {"not_capturable", "authorization_expired"}
                             /\ ~(r.op = "refund" /\ r.answer = "ok")
    BY <1>3 DEF Told, Exists, Captured, Expired
  <2> QED BY <2>2, <2>3 DEF Told
<1>4. CASE r.at # "idle" /\ Exists(k)
  <2>1. /\ Exists(k)' /\ auth'[k].amount = auth[k].amount /\ auth'[k].expires = auth[k].expires
        /\ auth'[k].refunded >= auth[k].refunded /\ now' >= now
        /\ auth[k].status = "RELEASED" => auth'[k].status = "RELEASED"
        /\ Expired(k) => auth'[k].status \in {"AUTHORIZED", "RELEASED"}
        /\ auth[k].status \in Captured => auth'[k].status \in Captured
    BY <1>1, <1>4, RowGoesOn
  <2>2. auth[k].refunded \in Nat /\ auth[k].expires \in Nat /\ now \in Nat
    BY <1>1, <1>4 DEF IInv, TypeOK
  <2>3. IInv'
    BY NextIInv
  <2>4. auth'[k].refunded \in Nat /\ now' \in Nat
    BY <1>1, <1>4, <2>3 DEF IInv, TypeOK
  <2>5. OnItsWay(c)'
    <3>1. r.before \in Nat
      BY DEF OnItsWay, CallFields
    <3> QED BY <2>1, <2>2, <2>4, <3>1 DEF OnItsWay
  <2>6. auth[k].status = "RELEASED" \/ Expired(k)
           => auth'[k].status = "RELEASED" \/ Expired(k)'
    BY <2>1, <2>2, <2>4 DEF Expired
  <2>7. r.at = "answered" /\ r.op = "refund" /\ r.answer = "ok"
           => r.said[2] \in Int /\ r.said[2] <= auth'[k].refunded
    BY <2>1, <2>2, <2>4 DEF Told
  <2>8. Told(c)'
    BY <2>1, <2>6, <2>7 DEF Told
  <2> QED BY <2>5, <2>8
<1> QED BY <1>2, <1>3, <1>4

(* A call's row is changed on its own.                                            *)
LEMMA CallUpdate ==
    ASSUME CallsInv, NEW c \in Calls, NEW r, call' = [call EXCEPT ![c] = r]
    PROVE  /\ call' = [d \in Calls |-> call'[d]] /\ call'[c] = r
           /\ \A d \in Calls \ {c} : call'[d] = call[d]
<1>1. DOMAIN call = Calls
  BY DEF CallsInv
<1>2. DOMAIN call' = Calls /\ call' = [d \in DOMAIN call |-> call'[d]]
  BY <1>1
<1> QED BY <1>1, <1>2

LEMMA AnsweredFields ==
    ASSUME NEW c \in Calls, CallFields(call[c]), NEW answer, NEW said
    PROVE  LET r == Answered(c, answer, said) IN
           /\ CallFields(r) /\ r.at = "answered" /\ r.op = call[c].op /\ r.key = call[c].key
           /\ r.retries = call[c].retries /\ r.moved = call[c].moved
           /\ r.answer = answer /\ r.said = said
BY DEF CallFields, Answered

(* An answer, or none, ends the attempt; nothing else about the call changes.     *)
LEMMA ConcludesCall ==
    ASSUME CallsInv, NEW c \in Calls, NEW op, NEW answer, NEW said, Concludes(c, op, answer, said)
    PROVE  /\ call' = [d \in Calls |-> call'[d]] /\ \A d \in Calls \ {c} : call'[d] = call[d]
           /\ call[c].at = "resolved" /\ call[c].op = op /\ call'[c].at = "answered"
           /\ call'[c].op = op /\ call'[c].key = call[c].key /\ call'[c].retries = call[c].retries
           /\ call'[c].moved = call[c].moved /\ CallFields(call'[c])
           /\ \/ call'[c].answer = answer /\ call'[c].said = said
              \/ call'[c].answer = "none"
<1>1. CallFields(call[c]) /\ call[c].at = "resolved" /\ call[c].op = op
  BY DEF CallsInv, OnItsWay, Concludes
<1>2. PICK a, s : /\ call' = [call EXCEPT ![c] = Answered(c, a, s)]
                  /\ (a = answer /\ s = said) \/ a = "none"
  BY DEF Concludes
<1> DEFINE r == Answered(c, a, s)
<1>3. /\ CallFields(r) /\ r.at = "answered" /\ r.op = call[c].op /\ r.key = call[c].key
      /\ r.retries = call[c].retries /\ r.moved = call[c].moved /\ r.answer = a /\ r.said = s
  BY <1>1, AnsweredFields
<1>4. call' = [call EXCEPT ![c] = r]
  BY <1>2
<1> HIDE DEF r
<1>5. /\ call' = [d \in Calls |-> call'[d]] /\ call'[c] = r
      /\ \A d \in Calls \ {c} : call'[d] = call[d]
  BY <1>4, CallUpdate
<1> QED BY <1>1, <1>2, <1>3, <1>5

(* One call moves and is right afterwards: then all of them are.                  *)
LEMMA OneCallMoves ==
    ASSUME IInv, [AuthNext]_authVars, CallsInv, NEW c \in Calls,
           call' = [d \in Calls |-> call'[d]], \A d \in Calls \ {c} : call'[d] = call[d],
           OnItsWay(c)', Told(c)'
    PROVE  CallsInv'
<1>1. ASSUME NEW d \in Calls \ {c} PROVE OnItsWay(d)' /\ Told(d)'
  BY <1>1, CallStands DEF CallsInv
<1> QED BY <1>1 DEF CallsInv

LEMMA CaptureAnswers ==
    ASSUME IInv, CallsInv, NEW c \in Calls, handleCapture(c), [AuthNext]_authVars
    PROVE  CallsInv'
<1> DEFINE k == call[c].key
<1>1. PICK answer, said : Concludes(c, "capture", answer, said)
  BY DEF handleCapture
<1>2. /\ call[c].at = "resolved" /\ call'[c].at = "answered" /\ call'[c].op = "capture"
      /\ call'[c].key = k /\ CallFields(call'[c])
      /\ call' = [d \in Calls |-> call'[d]] /\ \A d \in Calls \ {c} : call'[d] = call[d]
  BY <1>1, ConcludesCall
<1>3. k \in Keys
  BY <1>2 DEF CallsInv, OnItsWay
<1>4. OnItsWay(c)'
  BY <1>2, <1>3 DEF OnItsWay
<1>5. Told(c)'
  <2>1. CASE Capture(k) /\ Concludes(c, "capture", "ok", << >>)
    <3>1. auth'[k].status = "CAPTURED"
      BY <1>3, <2>1 DEF Capture, IInv, TypeOK
    <3>2. call'[c].answer \in {"ok", "none"}
      BY <2>1, ConcludesCall
    <3> QED BY <1>2, <3>1, <3>2 DEF Told, Captured
  <2>2. CASE UNCHANGED authVars /\ auth[k].status \in Captured /\ Concludes(c, "capture", "ok", << >>)
    <3>1. call'[c].answer \in {"ok", "none"}
      BY <2>2, ConcludesCall
    <3> QED BY <1>2, <2>2, <3>1 DEF Told, authVars
  <2>3. CASE UNCHANGED authVars /\ auth[k].status = "RELEASED"
             /\ Concludes(c, "capture", "not_capturable", << >>)
    <3>1. call'[c].answer \in {"not_capturable", "none"}
      BY <2>3, ConcludesCall
    <3> QED BY <1>2, <2>3, <3>1 DEF Told, authVars
  <2>4. CASE UNCHANGED authVars /\ Expired(k)
             /\ Concludes(c, "capture", "authorization_expired", << >>)
    <3>1. call'[c].answer \in {"authorization_expired", "none"}
      BY <2>4, ConcludesCall
    <3> QED BY <1>2, <2>4, <3>1 DEF Told, authVars, Expired
  <2>5. CASE Concludes(c, "capture", "rejected", << >>)
    <3>1. call'[c].answer \in {"rejected", "none"}
      BY <2>5, ConcludesCall
    <3> QED BY <1>2, <3>1 DEF Told
  <2> QED BY <2>1, <2>2, <2>3, <2>4, <2>5 DEF handleCapture
<1> QED BY <1>2, <1>4, <1>5, OneCallMoves

(* What a refund of x tells: with n given back by then, what is left is the rest. *)
LEMMA RefundedSays ==
    ASSUME NEW c, NEW x \in Int, auth[call[c].key].refunded \in Int,
           NEW n \in Int, n = auth[call[c].key].refunded + x,
           NEW amount \in Int, amount = auth[call[c].key].amount,
           NEW before \in Int, before = call[c].before
    PROVE  LET said == Refunded(c, x) IN
           said[1] = n - before /\ said[2] = n /\ said[2] + said[3] = amount
<1>1. Refunded(c, x)[1] = n - before
  <2>1. Refunded(c, x)[1] = auth[call[c].key].refunded + (x - before)
    BY DEF Refunded
  <2> QED BY <2>1
<1>2. Refunded(c, x)[2] = n
  BY DEF Refunded
<1>3. Refunded(c, x)[3] = amount - n
  BY DEF Refunded
<1>4. n + (amount - n) = amount
  OBVIOUS
<1> QED BY <1>1, <1>2, <1>3, <1>4

(* A refund: what is told of it is what the core had refunded when it answered.   *)
LEMMA RefundAnswers ==
    ASSUME IInv, CallsInv, NEW c \in Calls, handleRefund(c), [AuthNext]_authVars
    PROVE  CallsInv'
<1> DEFINE k == call[c].key
           x == Amount(c)
           r == call[c]
<1>1. /\ r.op = "refund" /\ r.at = "resolved" /\ CallFields(r) /\ k \in Keys /\ Exists(k)
      /\ r.before <= auth[k].refunded /\ (r.retries = 0 => r.moved = 0)
      /\ r.before \in Nat /\ r.moved \in Nat
  BY DEF handleRefund, CallsInv, OnItsWay, CallFields
<1>2. /\ auth[k].refunded \in Nat /\ auth[k].amount \in Nat
      /\ auth \in [Keys -> [status : Statuses, payer : Accounts, payee : Accounts,
                            amount : Nat, refunded : Nat, expires : Nat]]
  BY <1>1 DEF IInv, TypeOK
<1>3. ASSUME Refund(k, x), NEW reply \in {Answered(c, "ok", Refunded(c, x)), Answered(c, "none", << >>)},
             call' = [call EXCEPT ![c] = [reply EXCEPT !.moved = @ + x]]
      PROVE  CallsInv'
  <2>1. x \in Int /\ x > 0
    <3>1. r.want \in Nat
      BY <1>1 DEF CallFields
    <3>2. x = IF r.want = 0 THEN auth[k].amount - auth[k].refunded ELSE r.want
      BY DEF Amount, Refundable
    <3>3. x > 0
      BY <1>3 DEF Refund
    <3> QED BY ONLY <1>2, <3>1, <3>2, <3>3
  <2>2. /\ auth'[k].refunded = auth[k].refunded + x /\ auth'[k].amount = auth[k].amount
        /\ auth'[k].status # "ABSENT"
    BY <1>1, <1>2, <1>3 DEF Refund
  <2>3. /\ CallFields(reply) /\ reply.at = "answered" /\ reply.op = "refund" /\ reply.key = k
        /\ reply.retries = r.retries /\ reply.moved = r.moved /\ reply.answer \in {"ok", "none"}
        /\ reply.answer = "ok" => reply.said = Refunded(c, x)
    BY <1>1, <1>3, AnsweredFields
  <2> DEFINE new == [reply EXCEPT !.moved = @ + x]
  <2>4. /\ new.at = "answered" /\ new.op = "refund" /\ new.key = k /\ CallFields(new)
        /\ new.retries = r.retries /\ new.moved = r.moved + x /\ new.answer \in {"ok", "none"}
        /\ new.answer = "ok" => new.said = Refunded(c, x)
    BY <1>1, <2>1, <2>3 DEF CallFields
  <2>5. call'[c] = new /\ call' = [d \in Calls |-> call'[d]]
        /\ \A d \in Calls \ {c} : call'[d] = call[d]
    BY <1>3, CallUpdate
  <2> HIDE DEF new
  <2>6. OnItsWay(c)'
    BY <1>1, <2>4, <2>5 DEF OnItsWay
  <2> DEFINE n == auth[k].refunded + x
             amount == auth[k].amount
  <2>7. /\ n \in Int /\ n = auth'[k].refunded /\ n = auth[call[c].key].refunded + x
        /\ amount \in Int /\ amount = auth[call[c].key].amount /\ r.before \in Int
        /\ auth[call[c].key].refunded \in Int
        /\ r.retries = 0 => n - r.before >= r.moved + x
    BY <1>1, <1>2, <2>1, <2>2
  <2> HIDE DEF n, amount, x
  <2>8. LET said == Refunded(c, x) IN
        said[1] = n - call[c].before /\ said[2] = n /\ said[2] + said[3] = amount
    BY <2>1, <2>7, RefundedSays, SMTT(20)
  <2>9. n <= auth'[k].refunded /\ auth'[k].amount = amount
    BY <2>2, <2>7 DEF amount
  <2>10. new.answer = "ok" =>
            /\ new.said[2] \in Int /\ new.said[2] <= auth'[k].refunded
            /\ new.said[2] + new.said[3] = auth'[k].amount
            /\ new.retries = 0 => new.said[1] >= new.moved
    BY <2>4, <2>7, <2>8, <2>9
  <2>11. Told(c)'
    BY <2>2, <2>4, <2>5, <2>10 DEF Told, Exists
  <2> QED BY <2>5, <2>6, <2>11, OneCallMoves
<1>4. ASSUME UNCHANGED authVars, NEW answer, NEW said, Concludes(c, "refund", answer, said),
             answer = "ok" => said = Refunded(c, 0),
             answer \notin {"not_capturable", "authorization_expired"}
      PROVE  CallsInv'
  <2>1. /\ call'[c].at = "answered" /\ call'[c].op = "refund"
        /\ call'[c].key = k /\ CallFields(call'[c]) /\ call'[c].moved = r.moved
        /\ call'[c].retries = r.retries
        /\ call'[c].answer = "ok" => call'[c].said = Refunded(c, 0)
        /\ call'[c].answer \notin {"not_capturable", "authorization_expired"}
        /\ call' = [d \in Calls |-> call'[d]] /\ \A d \in Calls \ {c} : call'[d] = call[d]
    BY <1>4, ConcludesCall
  <2>2. OnItsWay(c)'
    BY <1>1, <2>1 DEF OnItsWay
  <2> DEFINE n == auth[k].refunded
             amount == auth[k].amount
  <2>3. auth' = auth
    BY <1>4 DEF authVars
  <2>4. /\ n \in Int /\ n <= auth[k].refunded /\ n = auth[call[c].key].refunded + 0
        /\ amount \in Int /\ amount = auth[call[c].key].amount /\ r.before \in Int
        /\ auth[call[c].key].refunded \in Int
        /\ r.retries = 0 => n - r.before >= r.moved
    BY <1>1, <1>2
  <2> HIDE DEF n, amount
  <2>5. LET told == Refunded(c, 0) IN
        told[1] = n - call[c].before /\ told[2] = n /\ told[2] + told[3] = amount
    BY <2>4, RefundedSays
  <2>6. call'[c].answer = "ok" =>
            /\ call'[c].said[2] \in Int /\ call'[c].said[2] <= auth[k].refunded
            /\ call'[c].said[2] + call'[c].said[3] = auth[k].amount
            /\ r.retries = 0 => call'[c].said[1] >= call'[c].moved
    BY <2>1, <2>4, <2>5 DEF amount
  <2>7. Told(c)'
    BY <1>1, <2>1, <2>3, <2>6 DEF Told, Exists
  <2> QED BY <2>1, <2>2, <2>7, OneCallMoves
<1> QED BY <1>3, <1>4 DEF handleRefund

LEMMA OtherSteps ==
    ASSUME IInv, CallsInv, NEW c \in Calls, UNCHANGED authVars,
           \/ \E op \in {"capture", "refund", "get"}, k \in Keys : \E x \in 0 .. auth[k].amount :
                 Ask(c, op, k, x)
           \/ Resolve(c) \/ handleGet(c) \/ Retry(c)
    PROVE  CallsInv'
<1>1. ASSUME NEW r, call' = [call EXCEPT ![c] = r], CallFields(r),
             r.at # "idle" => r.key \in Keys,
             r.at # "answered" /\ r.retries = 0 => r.moved = 0,
             r.at = "resolved" => Exists(r.key) /\ r.before <= auth[r.key].refunded,
             r.at = "answered" => r.op = "get" \/ r.answer = "authorization_not_found",
             r.answer \notin {"not_capturable", "authorization_expired"} \/ r.at # "answered"
      PROVE  CallsInv'
  <2>1. /\ call'[c] = r /\ call' = [d \in Calls |-> call'[d]]
        /\ \A d \in Calls \ {c} : call'[d] = call[d]
    BY <1>1, CallUpdate
  <2>2. OnItsWay(c)' /\ Told(c)'
    BY <1>1, <2>1 DEF OnItsWay, Told, authVars, Exists
  <2> QED BY <2>1, <2>2, OneCallMoves
<1>2. OnItsWay(c) /\ CallFields(call[c])
  BY DEF CallsInv, OnItsWay
<1>3. ASSUME NEW op \in {"capture", "refund", "get"}, NEW k \in Keys, NEW x \in 0 .. auth[k].amount,
             Ask(c, op, k, x)
      PROVE  CallsInv'
  <2> DEFINE r == [Idle EXCEPT !.at = "asked", !.op = op, !.key = k, !.want = x]
  <2>1. x \in Nat
    BY DEF IInv, TypeOK
  <2>2. /\ CallFields(r) /\ r.at = "asked" /\ r.key = k /\ r.moved = 0
    BY <2>1 DEF Idle, CallFields
  <2>3. call' = [call EXCEPT ![c] = r]
    BY <1>3 DEF Ask, Goes
  <2> HIDE DEF r
  <2> QED BY <1>1, <2>2, <2>3
<1>4. CASE Resolve(c)
  <2>1. call[c].at = "asked" /\ call[c].key \in Keys
    BY <1>2, <1>4 DEF Resolve, Goes, OnItsWay
  <2>2. CASE Owned(call[c].key)
    <3> DEFINE r == [call[c] EXCEPT !.at = "resolved", !.before = auth[call[c].key].refunded]
    <3>1. auth[call[c].key].refunded \in Nat
      BY <2>1 DEF IInv, TypeOK
    <3>2. /\ CallFields(r) /\ r.at = "resolved" /\ r.key = call[c].key
          /\ r.before = auth[call[c].key].refunded
          /\ r.retries = call[c].retries /\ r.moved = call[c].moved
      BY <1>2, <3>1 DEF CallFields
    <3>3. call' = [call EXCEPT ![c] = r]
      BY <1>4, <2>2 DEF Resolve, Goes
    <3> HIDE DEF r
    <3>4. call[c].retries = 0 => call[c].moved = 0
      BY <1>2, <2>1 DEF OnItsWay
    <3>5. Exists(call[c].key)
      BY <2>2 DEF Owned
    <3>6. r.before <= auth[r.key].refunded
      BY <3>1, <3>2
    <3>7. /\ r.at # "idle" => r.key \in Keys
          /\ r.at # "answered" /\ r.retries = 0 => r.moved = 0
          /\ r.at = "resolved" => Exists(r.key) /\ r.before <= auth[r.key].refunded
          /\ r.at # "answered"
      BY <2>1, <3>2, <3>4, <3>5, <3>6
    <3> QED BY <1>1, <3>2, <3>3, <3>7
  <2>3. CASE ~Owned(call[c].key)
    <3> DEFINE r == [call[c] EXCEPT !.at = "answered", !.answer = "authorization_not_found"]
    <3>1. /\ CallFields(r) /\ r.at = "answered" /\ r.key = call[c].key
          /\ r.answer = "authorization_not_found"
      BY <1>2 DEF CallFields
    <3>2. call' = [call EXCEPT ![c] = r]
      BY <1>4, <2>3 DEF Resolve, Goes
    <3> HIDE DEF r
    <3>3. r.answer \notin {"not_capturable", "authorization_expired"}
      BY <3>1
    <3>4. (r.at # "idle" => r.key \in Keys) /\ r.at # "resolved"
      BY <2>1, <3>1
    <3>5. /\ r.at # "answered" /\ r.retries = 0 => r.moved = 0
          /\ r.at = "answered" => r.op = "get" \/ r.answer = "authorization_not_found"
      BY <3>1
    <3> QED BY <1>1, <3>1, <3>2, <3>3, <3>4, <3>5
  <2> QED BY <2>2, <2>3
<1>5. CASE handleGet(c)
  <2>1. call[c].at = "asked" /\ call[c].op = "get" /\ call[c].key \in Keys
    BY <1>2, <1>5 DEF handleGet, OnItsWay
  <2> PICK answer \in {"ok", "mismatch"} : \E said : call' = [call EXCEPT ![c] = Answered(c, answer, said)]
    BY <1>5 DEF handleGet, Goes
  <2>2. PICK said : call' = [call EXCEPT ![c] = Answered(c, answer, said)]
    OBVIOUS
  <2> DEFINE r == Answered(c, answer, said)
  <2>3. CallFields(r) /\ r.at = "answered" /\ r.op = "get" /\ r.key = call[c].key /\ r.answer = answer
    BY <1>2, <2>1, AnsweredFields
  <2> HIDE DEF r
  <2> QED BY <1>1, <2>1, <2>2, <2>3 DEF r
<1>6. CASE Retry(c)
  <2> DEFINE r == [call[c] EXCEPT !.at = "asked", !.retries = @ + 1]
  <2>1. call' = [call EXCEPT ![c] = r] /\ call[c].at = "answered"
    BY <1>6 DEF Retry, Goes
  <2>2. CallFields(r) /\ r.at = "asked" /\ r.key = call[c].key /\ r.retries # 0
    <3>1. call[c].retries \in Nat
      BY <1>2 DEF CallFields
    <3>2. r.at = "asked" /\ r.key = call[c].key /\ r.retries = call[c].retries + 1
      BY <1>2 DEF CallFields
    <3>3. CallFields(r)
      <4>1. call[c].retries + 1 \in Nat
        BY <3>1
      <4> QED BY <1>2, <4>1 DEF CallFields
    <3> QED BY <3>1, <3>2, <3>3
  <2> HIDE DEF r
  <2> QED BY <1>1, <1>2, <2>1, <2>2 DEF OnItsWay
<1> QED BY <1>3, <1>4, <1>5, <1>6

LEMMA InitCallsInv == ASSUME CallsInit PROVE CallsInv
BY DEF CallsInit, CallsInv, OnItsWay, Told, CallFields, Idle

(* A step of a call is a step of the payments, or leaves them alone.              *)
LEMMA CallsStepIsAuthStep ==
    ASSUME IInv, CallsInv, [CallsNext]_callVars PROVE [AuthNext]_authVars
<1>1. ASSUME NEW c \in Calls, NextCall(c) PROVE [AuthNext]_authVars
  <2>1. CallFields(call[c]) /\ (call[c].at = "resolved" => call[c].key \in Keys)
    BY DEF CallsInv, OnItsWay
  <2>2. CASE handleCapture(c)
    <3>1. call[c].key \in Keys
      BY <2>1, <2>2 DEF handleCapture, Concludes
    <3> QED BY <2>2, <3>1 DEF handleCapture, AuthNext
  <2>3. CASE handleRefund(c)
    <3>1. call[c].key \in Keys
      BY <2>1, <2>3 DEF handleRefund
    <3>2. auth[call[c].key].amount \in Nat /\ auth[call[c].key].refunded \in Nat
      BY <3>1 DEF IInv, TypeOK
    <3>3. Refund(call[c].key, Amount(c)) => Amount(c) \in Amounts(call[c].key)
      <4>1. call[c].want \in Nat
        BY <2>1 DEF CallFields
      <4>2. Amount(c) \in Int
        BY <3>2, <4>1 DEF Amount, Refundable
      <4>3. ASSUME Refund(call[c].key, Amount(c))
            PROVE  Amount(c) > 0 /\ Amount(c) <= auth[call[c].key].amount - auth[call[c].key].refunded
        BY <4>3 DEF Refund, Refundable
      <4>4. \A n \in Int, a, d \in Nat : n > 0 /\ n <= a - d => n \in 1 .. a
        OBVIOUS
      <4> QED BY <3>2, <4>2, <4>3, <4>4 DEF Amounts
    <3> QED BY <2>3, <3>1, <3>3 DEF handleRefund, AuthNext
  <2>4. CASE ~handleCapture(c) /\ ~handleRefund(c)
    BY <1>1, <2>4 DEF NextCall, Ask, Resolve, handleGet, Retry, Goes
  <2> QED BY <2>2, <2>3, <2>4
<1>2. CASE UNCHANGED callVars
  BY <1>2 DEF callVars, authVars
<1> QED BY <1>1, <1>2 DEF CallsNext

LEMMA NextCallsInv ==
    ASSUME IInv, CallsInv, [CallsNext]_callVars PROVE CallsInv'
<1>1. [AuthNext]_authVars
  BY CallsStepIsAuthStep
<1>2. ASSUME UNCHANGED call PROVE CallsInv'
  BY <1>1, <1>2, CallStands DEF CallsInv
<1>3. ASSUME NEW c \in Calls, NextCall(c) PROVE CallsInv'
  <2>1. CASE handleCapture(c)
    BY <1>1, <2>1, CaptureAnswers
  <2>2. CASE handleRefund(c)
    BY <1>1, <2>2, RefundAnswers
  <2>3. CASE ~handleCapture(c) /\ ~handleRefund(c)
    <3>1. UNCHANGED authVars
      BY <1>3, <2>3 DEF NextCall, Ask, Resolve, handleGet, Retry, Goes
    <3> QED BY <1>3, <2>3, <3>1, OtherSteps DEF NextCall
  <2> QED BY <2>1, <2>2, <2>3
<1> QED BY <1>2, <1>3 DEF CallsNext, callVars

(* What an integration was told of a payment stays true, whoever captures, refunds *)
(* or sweeps it later.                                                             *)
THEOREM ToldForGood == CallsSpec => []AnswersStand
<1>1. IInv /\ CallsInv /\ [CallsNext]_callVars => IInv' /\ CallsInv'
  BY CallsStepIsAuthStep, NextIInv, NextCallsInv
<1>2. IInv /\ CallsInv => AnswersStand
  <2> SUFFICES ASSUME IInv, CallsInv, NEW c \in Calls, call[c].at = "answered"
               PROVE  LET k == call[c].key IN
                      /\ call[c].op = "capture" /\ call[c].answer = "ok"
                            => Has("authorization_capture", k)
                      /\ call[c].answer \in {"not_capturable", "authorization_expired"}
                            => ~Has("authorization_capture", k)
                      /\ call[c].op = "refund" /\ call[c].answer = "ok" =>
                            /\ call[c].said[2] + call[c].said[3] = auth[k].amount
                            /\ call[c].said[2] <= auth[k].refunded
                            /\ call[c].retries = 0 => call[c].said[1] >= call[c].moved
    BY DEF AnswersStand
  <2>1. Told(c) /\ call[c].key \in Keys
    BY DEF CallsInv, OnItsWay
  <2>2. Has("authorization_capture", call[c].key) <=> auth[call[c].key].status \in Captured
    BY <2>1 DEF IInv, StatusMatchesLedger, StatusMatches
  <2> QED BY <2>1, <2>2 DEF Told, Expired, Captured
<1>3. Init /\ CallsInit => IInv /\ CallsInv
  BY InitIInv, InitCallsInv
<1> QED BY <1>1, <1>2, <1>3, PTL DEF CallsSpec
===============================================================================
