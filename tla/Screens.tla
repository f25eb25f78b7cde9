------------------------------ MODULE Screens ------------------------------
(* What the app says of an account, services/bff/handlers.go and              *)
(* movement_detail.go: its home, its movements page by page, the task a       *)
(* payment was part of; and what the risk engine observes in it               *)
(* (services/credit/service.go).  Each is put together from several reads of  *)
(* the core, while the ledger goes on.  An amount is negative when it leaves  *)
(* the account.                                                               *)
EXTENDS Integers, FiniteSets, SequencesExt

CONSTANTS
    Payments,      \* authorizations of one agent for one task
    Mandated,      \* those made under a mandate
    Sizes,         \* what is moved
    PageSize,
    ScanPages,     \* pages the risk engine reads at most
    Window,        \* ids up to this are older than what it evaluates
    TaskLimit,     \* payments of a task that are shown
    MaxMovements   \* bound on the ids allocated

NoPayment == "no payment"
NoCursor  == 0
Unknown   == -1

ASSUME ScreensAssumption ==
    /\ NoPayment \notin Payments /\ Mandated \subseteq Payments /\ Sizes \subseteq Nat \ {0}
    /\ {PageSize, ScanPages, TaskLimit} \subseteq Nat \ {0}
    /\ {Window, MaxMovements} \subseteq Nat

VARIABLES
    movements,     \* committed ledger_entries of the account: [id, kind, amount, payment]
    posting,       \* those of transactions that have not committed
    nextId,        \* the next id of the sequence
    payments,      \* the authorizations, and how much of each was refunded
    bought,        \* agents.payment_intents, oldest first
    screen,        \* what has been read so far
    began,         \* movements and what was out for each payment when the reading began
    balances       \* the balances there have been since

screenVars == <<movements, posting, nextId, payments, bought, screen, began, balances>>
ledgerVars == <<movements, posting, nextId, payments, bought>>

Total(S) == SumFunction([m \in S |-> m.amount])
Balance  == Total(movements)

\* Slip: what was let go unpaid still counts.
SpentOnPaper(p) == payments[p].amount - payments[p].refunded

\* A payment past its expiry is seen as expired, whether or not it was released.
Spent(p) ==
    IF payments[p].status \in {"none", "released", "expired"} THEN 0
    ELSE payments[p].amount - payments[p].refunded

\* What is out of the account for a payment.
Out(p) == -Total({m \in movements : m.payment = p})

InitScreens ==
    /\ movements = {} /\ posting = {} /\ nextId = 1
    /\ payments = [p \in Payments |-> [status |-> "none", amount |-> 0, refunded |-> 0]]
    /\ bought = << >>
    /\ screen = [what |-> "nothing"]
    /\ began = [movements |-> {}, out |-> [p \in Payments |-> 0]] /\ balances = {}

-----------------------------------------------------------------------------
(* The ledger: a transaction takes its id when it inserts the entry, and is   *)
(* seen when it commits, not always in that order.  The row of a payment is   *)
(* locked by who changes it.                                                  *)
Insert(kind, x, p) ==
    /\ nextId <= MaxMovements
    /\ p # NoPayment => \A m \in posting : m.payment # p
    /\ posting' = posting \cup {[id |-> nextId, kind |-> kind, amount |-> x, payment |-> p]}
    /\ nextId' = nextId + 1
    /\ UNCHANGED <<movements, payments, bought, screen, began, balances>>

Move == \E kind \in {"transfer", "pocket_transfer"}, x \in Sizes, sign \in {1, -1} :
            Insert(kind, sign * x, NoPayment)

Hold(p) == payments[p].status = "none" /\ \E x \in Sizes : Insert("authorization_hold", -x, p)

Release(p) ==
    /\ payments[p].status \in {"authorized", "expired"}
    /\ Insert("authorization_release", payments[p].amount, p)

Refund(p) ==
    /\ payments[p].status \in {"captured", "partially_refunded"}
    /\ \E x \in 1..(payments[p].amount - payments[p].refunded) : Insert("authorization_refund", x, p)

Changed(p, m) ==
    LET a == payments[p] IN
    CASE m.kind = "authorization_hold"    -> [a EXCEPT !.status = "authorized", !.amount = -m.amount]
      [] m.kind = "authorization_release" -> [a EXCEPT !.status = "released"]
      [] m.kind = "authorization_refund"  ->
            [a EXCEPT !.refunded = @ + m.amount,
                      !.status = IF a.refunded + m.amount = a.amount THEN "refunded" ELSE "partially_refunded"]

Commit(m) ==
    /\ Balance + m.amount >= 0
    /\ movements' = movements \cup {m} /\ posting' = posting \ {m}
    /\ payments' = IF m.payment = NoPayment THEN payments
                   ELSE [payments EXCEPT ![m.payment] = Changed(m.payment, m)]
    /\ balances' = IF screen.what = "home" THEN balances \cup {Balance + m.amount} ELSE balances
    /\ UNCHANGED <<nextId, bought, screen, began>>

RollBack(m) ==
    /\ posting' = posting \ {m}
    /\ UNCHANGED <<movements, nextId, payments, bought, screen, began, balances>>

\* Captured by the shop: nothing moves in this account.
Becomes(p, status) ==
    /\ payments[p].status = "authorized" /\ \A m \in posting : m.payment # p
    /\ payments' = [payments EXCEPT ![p].status = status]
    /\ UNCHANGED <<movements, posting, nextId, bought, screen, began, balances>>

\* RecordIntent comes after the payment, and may not come at all.
RecordPurchase(p) ==
    /\ payments[p].status # "none" /\ p \in Mandated \ ToSet(bought)
    /\ bought' = Append(bought, p)
    /\ UNCHANGED <<movements, posting, nextId, payments, screen, began, balances>>

NextLedger ==
    \/ Move
    \/ \E p \in Payments : Hold(p) \/ Release(p) \/ Refund(p) \/ RecordPurchase(p)
    \/ \E p \in Payments, status \in {"captured", "expired"} : Becomes(p, status)
    \/ \E m \in posting : Commit(m) \/ RollBack(m)

-----------------------------------------------------------------------------
(* The core's statement: newest first, from an id down, one more than asked   *)
(* for to know whether there is a page left.                                  *)
FirstOf(n, rows) == SubSeq(rows, 1, Min({n, Len(rows)}))

NewestFirst(S) ==
    [i \in 1..Cardinality(S) |-> CHOOSE m \in S : Cardinality({n \in S : n.id >= m.id}) = i]

list_entries(limit, before) ==
    FirstOf(limit, NewestFirst({m \in movements : before = NoCursor \/ m.id < before}))

\* Slip: the page goes on from the entry that was only there to be counted.
ListMovementsFromTheExtra(limit, cursor) ==
    LET found == list_entries(limit + 1, cursor) IN
    [movements |-> FirstOf(limit, found),
     next      |-> IF Len(found) > limit THEN Last(found).id ELSE NoCursor]

ListMovements(limit, cursor) ==
    LET found == list_entries(limit + 1, cursor)
        page  == FirstOf(limit, found)
    IN [movements |-> page, next |-> IF Len(found) > limit THEN Last(page).id ELSE NoCursor]

(* Holds made under a mandate are told by the platform, and by what the agent *)
(* bought.  Either question may go unanswered: then less is told.             *)
LookupHolds(page) ==
    {m.payment : m \in {n \in ToSet(page) : n.kind = "authorization_hold"}} \cap Mandated
IntentsFor(ps)    == ps \cap ToSet(bought)

toMovementsJSON(page, platforms, purchases) ==
    [i \in DOMAIN page |->
        LET held(ps) == page[i].kind = "authorization_hold" /\ page[i].payment \in ps IN
        [movement |-> page[i],
         told     |-> CASE held(purchases)             -> "purchase"
                        [] held(platforms \ purchases) -> "platform"
                        [] OTHER                       -> "movement"]]

Shown(page) ==
    LET held == LookupHolds(page) IN
    {toMovementsJSON(page, {}, {}), toMovementsJSON(page, held, {}),
     toMovementsJSON(page, held, IntentsFor(held))}

-----------------------------------------------------------------------------
Begun == [movements |-> movements, out |-> [p \in Payments |-> Out(p)]]

Opens(what) ==
    /\ screen.what = "nothing"
    /\ screen' = what /\ began' = Begun
    /\ balances' = IF what.what = "home" THEN {Balance} ELSE {}

Reads(what) == screen.what = what /\ UNCHANGED <<ledgerVars, began, balances>>

(* Home: get_balance reads the balance kept and then the one the entries add  *)
(* up to, and the screen is refused when they differ; then the first page,    *)
(* then what is held, which is left out when it cannot be known.  Any of them *)
(* may fail.                                                                  *)
ReadBalance == Opens([what |-> "home", step |-> "balance", balance |-> Balance]) /\ UNCHANGED ledgerVars

Consistent(balance) == balance = Balance

ReadProjected ==
    /\ Reads("home") /\ screen.step = "balance"
    /\ screen' = [screen EXCEPT !.step = IF Consistent(screen.balance) THEN "agreed" ELSE "unavailable"]

ListLatest ==
    /\ Reads("home") /\ screen.step = "agreed"
    /\ \E rows \in Shown(ListMovements(PageSize, NoCursor).movements) :
          screen' = [what |-> "home", step |-> "listed", balance |-> screen.balance, rows |-> rows]

SummarizeLiveHolds ==
    LET live == {p \in Payments : payments[p].status \in {"authorized", "expired"}} IN
    SumFunction([p \in live |-> payments[p].amount])

liveHolds ==
    /\ Reads("home") /\ screen.step = "listed"
    /\ \E retained \in {SummarizeLiveHolds, Unknown} :
          screen' = [what |-> "home", step |-> "shown", balance |-> screen.balance,
                     rows |-> screen.rows, retained |-> retained]

HomeFails ==
    /\ Reads("home") /\ screen.step \in {"balance", "agreed"}
    /\ screen' = [screen EXCEPT !.step = "unavailable"]

(* The movements, a page at a time for as long as the customer goes on.       *)
handleMovements ==
    \/ /\ Opens([what |-> "movements", rows |-> << >>, cursor |-> NoCursor, more |-> TRUE])
       /\ UNCHANGED ledgerVars
    \/ /\ Reads("movements") /\ screen.more
       /\ LET page == ListMovements(PageSize, screen.cursor) IN
          \E rows \in Shown(page.movements) :
             screen' = [screen EXCEPT !.rows = @ \o rows, !.cursor = page.next,
                                      !.more = page.next # NoCursor]

(* What the risk engine observes: pages until one is older than what it       *)
(* evaluates; going in and out of a pocket is neither income nor spending.    *)
Observable(page) ==
    NewestFirst({m \in ToSet(page) : m.id > Window /\ m.kind # "pocket_transfer"})

Observe ==
    \/ /\ Opens([what |-> "risk", seen |-> << >>, cursor |-> NoCursor, page |-> 0, more |-> TRUE])
       /\ UNCHANGED ledgerVars
    \/ /\ Reads("risk") /\ screen.more
       /\ LET page == ListMovements(PageSize, screen.cursor) IN
          screen' = [screen EXCEPT !.seen = @ \o Observable(page.movements), !.cursor = page.next,
                                   !.page = @ + 1,
                                   !.more = /\ page.next # NoCursor /\ screen.page + 1 < ScanPages
                                            /\ \A m \in ToSet(page.movements) : m.id > Window]

(* The detail of a payment with an intent: those of its task, asked one after *)
(* the other; one that cannot be read is left out, and one alone is no task.  *)
TaskPayments == FirstOf(TaskLimit, bought)

taskOf(p) ==
    /\ Opens([what |-> "task", this |-> p, left |-> TaskPayments, counted |-> {}, total |-> 0])
    /\ p \in ToSet(bought) /\ Len(TaskPayments) >= 2
    /\ UNCHANGED ledgerVars

GetAuthorization ==
    /\ Reads("task") /\ screen.left # << >>
    /\ screen' = [screen EXCEPT !.left = Tail(@), !.counted = @ \cup {Head(screen.left)},
                                !.total = @ + Spent(Head(screen.left))]

LeftOut ==
    /\ Reads("task") /\ screen.left # << >>
    /\ screen' = [screen EXCEPT !.left = Tail(@)]

NextScreens ==
    \/ NextLedger
    \/ ReadBalance \/ ReadProjected \/ ListLatest \/ liveHolds \/ HomeFails
    \/ handleMovements \/ Observe
    \/ \E p \in Payments : taskOf(p)
    \/ GetAuthorization \/ LeftOut

ScreensSpec == InitScreens /\ [][NextScreens]_screenVars

Alike == Permutations(Mandated)

-----------------------------------------------------------------------------
Newest(rows) == \A i, j \in DOMAIN rows : i < j => rows[i].id > rows[j].id
Rows         == [i \in DOMAIN screen.rows |-> screen.rows[i].movement]
Labels       == \A i \in DOMAIN screen.rows : screen.rows[i].told # "movement" =>
                    /\ screen.rows[i].movement.kind = "authorization_hold"
                    /\ screen.rows[i].movement.payment \in Mandated
                    /\ screen.rows[i].told = "purchase" => screen.rows[i].movement.payment \in ToSet(bought)

(* Home never states a balance the account did not have while it was read,    *)
(* and a first page that is not full has every movement behind that balance.  *)
HomeTells ==
    screen.what = "home" /\ screen.step = "shown" =>
        /\ screen.balance \in balances /\ Newest(Rows) /\ Labels
        /\ Len(screen.rows) < PageSize => began.movements \subseteq ToSet(Rows)

(* Whoever goes through the pages sees each movement there was at the         *)
(* beginning once, newest first, whatever is posted meanwhile.                *)
PagesTell ==
    screen.what = "movements" =>
        /\ Newest(Rows) /\ Labels
        /\ ~screen.more => began.movements \subseteq ToSet(Rows)

(* The risk engine sees every movement of the account there was, unless there *)
(* are more pages than it reads, and never a pocket.                          *)
RiskTells ==
    screen.what = "risk" =>
        /\ Newest(screen.seen) /\ \A m \in ToSet(screen.seen) : m.kind # "pocket_transfer"
        /\ ~screen.more /\ (screen.cursor = NoCursor \/ screen.page < ScanPages) =>
              {m \in began.movements : m.id > Window /\ m.kind # "pocket_transfer"} \subseteq ToSet(screen.seen)

(* A task is said to have cost no more than was out of the account for it     *)
(* when it was opened, and no less than is, but for what has expired and      *)
(* comes back, whatever is refunded or let go meanwhile.                      *)
TaskTells ==
    screen.what = "task" =>
        LET due == {p \in screen.counted : payments[p].status # "expired"} IN
        /\ screen.total <= SumFunction([p \in screen.counted |-> began.out[p]])
        /\ screen.total >= SumFunction([p \in due |-> Out(p)])

(* What a screen or the risk engine is told, over several reads, agrees with  *)
(* a ledger that was: at the opening of the screen, or between then and now   *)
(* (handleHome; handleMovements; movements; taskOf).                          *)
ScreensTellTheLedger == HomeTells /\ PagesTell /\ RiskTells /\ TaskTells
=============================================================================
