----------------------------- MODULE CreditCycle -----------------------------
(* The cycle of a credit card, core/src/credit_cycle.rs over the tables of    *)
(* core/migrations/0010 and 0011, with who calls it: the sweeper, which cuts  *)
(* on the day of the cycle and reviews arrears every hour; a payment, which   *)
(* has the line reviewed; and the sandbox, where nobody can wait for a month. *)
(* A posting carries the instant its transaction began and is seen when it    *)
(* commits.  Instants are numbered one by one, PerDay to a day.               *)
EXTENDS Integers, Sequences, FiniteSets, FiniteSetsExt

CONSTANTS
    Limit,         \* limit_micros
    Amounts,       \* what is drawn and paid
    Cycle,         \* days from a day of cut to the next
    PaymentDays,   \* payment_days
    Floor,         \* min_payment_floor_micros
    Share,         \* one part in Share of the closing is the minimum
    Slow,          \* one part in Slow is the interest of a day
    PerDay,
    Lag,           \* by how much the forecast's calendar, Lima's, is behind the core's
    Straddle,      \* whether a posting may be in flight when a cut reads
    MaxInstant,    \* bound on time
    MaxPostings    \* bound on what is drawn and paid

ASSUME CreditCycleAssumption ==
    /\ {Limit, Cycle, PaymentDays, Share, Slow, PerDay} \subseteq Nat \ {0}
    /\ {Floor, MaxInstant, MaxPostings} \subseteq Nat /\ Lag \in 0..PerDay /\ Amounts \subseteq Nat \ {0}

VARIABLES
    instant,
    standing,     \* credit_lines.status: active or blocked
    entries,      \* committed entries of the line's account: [at, kind, amount]
    flying,       \* the posting that has begun and not committed
    statements,   \* credit_statements, by period_end
    cut,          \* what a cut that has not committed has worked out
    review        \* what each reviewer has read

cycleVars == <<instant, standing, entries, flying, statements, cut, review>>

Nothing == [at |-> -1]
Asked == [at |-> 0]
Day(i) == i \div PerDay

Posted(kinds, S) == SumFunction([e \in {e \in S : e.kind \in kinds} |-> e.amount])
Between(i, j) == {e \in entries : i < e.at /\ e.at <= j}
Outstanding(S) == Posted({"draw", "interest"}, S) - Posted({"pay"}, S)

InitCycle ==
    /\ instant = 0 /\ standing = "active" /\ entries = {} /\ flying = Nothing
    /\ statements = << >> /\ cut = Nothing
    /\ review = [r \in {"sweeper", "channel"} |-> Nothing]

-----------------------------------------------------------------------------
(* Using and paying the card: a posting begins, and commits if the trigger on *)
(* the line's account lets it.                                                *)
BeginPosting(kind, x) ==
    /\ flying = Nothing /\ instant < MaxInstant
    /\ Cardinality({e \in entries : e.kind # "interest"}) < MaxPostings
    /\ flying' = [at |-> instant, kind |-> kind, amount |-> x]
    /\ instant' = instant + 1
    /\ UNCHANGED <<standing, entries, statements, cut, review>>

check_account_limits(e) ==
    LET owed == Outstanding(entries \cup {e}) IN
    /\ owed >= 0
    /\ e.kind = "draw" => standing = "active" /\ owed <= Limit

(* Once paid, the channel has the line reviewed, or fails to.                 *)
CommitPosting ==
    /\ flying # Nothing /\ check_account_limits(flying)
    /\ entries' = entries \cup {flying}
    /\ IF flying.kind = "pay" /\ review["channel"] = Nothing
       THEN review' \in {review, [review EXCEPT !["channel"] = Asked]}
       ELSE UNCHANGED review
    /\ flying' = Nothing
    /\ UNCHANGED <<instant, standing, statements, cut>>

RejectPosting ==
    /\ flying # Nothing /\ ~check_account_limits(flying)
    /\ flying' = Nothing
    /\ UNCHANGED <<instant, standing, entries, statements, cut, review>>

TimePasses ==
    /\ instant < MaxInstant /\ instant' = instant + 1
    /\ UNCHANGED <<standing, entries, flying, statements, cut, review>>

-----------------------------------------------------------------------------
(* interest_for, whose power is a product here: none for nothing unpaid or    *)
(* for less than a day.                                                       *)
interest_for(unpaid, days) ==
    IF unpaid <= 0 \/ days <= 0 THEN 0 ELSE Max({1, (unpaid * days) \div Slow})

minimum_payment(closing, interest) ==
    IF closing <= 0 THEN 0
    ELSE Min({closing, Max({Floor, interest + (closing + Share - 1) \div Share})})

LastStatement == statements[Len(statements)]
PeriodStart == IF statements = << >> THEN -1 ELSE LastStatement.end

PaidBy(s) == Posted({"pay"}, {e \in entries : s.end < e.at /\ Day(e.at) <= s.due})
Unpaid(s) == Max({0, s.closing - PaidBy(s)})

(* Slip: the interest of earlier periods is billed again as use of the card. *)
ChargesOfAll(S) == Posted({"draw", "interest"}, S)

(* Interest has a line of its own in the statement that charged it.           *)
Charges(S) == Posted({"draw"}, S)

(* close_cycle locks the line, which is its last statement, and works out the *)
(* next one from what has committed.                                          *)
ReadCycle ==
    LET moved    == Between(PeriodStart, instant)
        opening  == IF statements = << >> THEN 0 ELSE LastStatement.closing
        days     == (instant - PeriodStart) \div PerDay
        interest == IF statements = << >> THEN 0 ELSE interest_for(Unpaid(LastStatement), days)
        closing  == opening + Charges(moved) + interest - Posted({"pay"}, moved)
    IN
    /\ cut = Nothing /\ instant > PeriodStart /\ instant + 1 < MaxInstant
    /\ Straddle \/ flying = Nothing
    /\ cut' = [at |-> instant + 1, end |-> instant, interest |-> interest, closing |-> closing,
               minimum |-> minimum_payment(closing, interest), due |-> Day(instant) + PaymentDays]
    /\ instant' = instant + 2
    /\ UNCHANGED <<standing, entries, flying, statements, review>>

(* cut_due: on the day of the cycle, unless there is a statement of today.    *)
cut_due ==
    /\ Day(instant) > 0 /\ Day(instant) % Cycle = 0
    /\ \A i \in DOMAIN statements : Day(statements[i].end) # Day(instant)
    /\ ReadCycle

(* The sandbox cuts whenever it is asked to.                                  *)
CloseCycleNow == ReadCycle

(* Interest and statement commit together, or neither does.                   *)
close_cycle ==
    /\ cut # Nothing
    /\ entries' = IF cut.interest > 0
                  THEN entries \cup {[at |-> cut.at, kind |-> "interest", amount |-> cut.interest]}
                  ELSE entries
    /\ statements' = Append(statements, [end |-> cut.end, due |-> cut.due, closing |-> cut.closing,
                                         interest |-> cut.interest, minimum |-> cut.minimum])
    /\ cut' = Nothing
    /\ UNCHANGED <<instant, standing, flying, review>>

CutFails ==
    /\ cut # Nothing /\ cut' = Nothing
    /\ UNCHANGED <<instant, standing, entries, flying, statements, review>>

-----------------------------------------------------------------------------
PaidSinceCut(s) == Posted({"pay"}, {e \in entries : e.at > s.end})

Overdue(today) == {i \in DOMAIN statements : statements[i].due < today}

(* The last statement that is overdue says whether the line is in arrears.    *)
Behind(today) ==
    LET due == Overdue(today) IN
    due # {} /\ PaidSinceCut(statements[Max(due)]) < statements[Max(due)].minimum

(* review reads the statements, and writes the status in another statement.   *)
ReadReview(r, today) ==
    review' = [review EXCEPT ![r] = [behind |-> Behind(today)]]

Blocks(behind) == IF behind THEN "blocked" ELSE "active"

(* Slip: a review only ever blocks.                                          *)
WriteReviewIfBehind(r) ==
    /\ "behind" \in DOMAIN review[r] /\ cut = Nothing
    /\ standing' = IF review[r].behind THEN "blocked" ELSE standing
    /\ review' = [review EXCEPT ![r] = Nothing]
    /\ UNCHANGED <<instant, entries, flying, statements, cut>>

(* The update waits for a cut, which holds the row.                           *)
WriteReview(r) ==
    /\ "behind" \in DOMAIN review[r] /\ cut = Nothing
    /\ standing' = Blocks(review[r].behind)
    /\ review' = [review EXCEPT ![r] = Nothing]
    /\ UNCHANGED <<instant, entries, flying, statements, cut>>

review_all ==
    /\ statements # << >> /\ review["sweeper"] = Nothing
    /\ ReadReview("sweeper", Day(instant))
    /\ UNCHANGED <<instant, standing, entries, flying, statements, cut>>

ReviewPaid ==
    /\ review["channel"] # Nothing /\ "behind" \notin DOMAIN review["channel"]
    /\ ReadReview("channel", Day(instant))
    /\ UNCHANGED <<instant, standing, entries, flying, statements, cut>>

(* As if the last statement had become due already.                           *)
PassDueDate ==
    /\ statements # << >> /\ review["channel"] = Nothing
    /\ ReadReview("channel", LastStatement.due + 1)
    /\ UNCHANGED <<instant, standing, entries, flying, statements, cut>>

NextCycle ==
    \/ \E kind \in {"draw", "pay"}, x \in Amounts : BeginPosting(kind, x)
    \/ CommitPosting \/ RejectPosting \/ TimePasses
    \/ cut_due \/ CloseCycleNow \/ close_cycle \/ CutFails
    \/ review_all \/ ReviewPaid \/ PassDueDate
    \/ \E r \in DOMAIN review : WriteReview(r)

CycleSpec == InitCycle /\ [][NextCycle]_cycleVars

-----------------------------------------------------------------------------
(* What is said of a statement: to the customer, and to the forecast.         *)
toStatement(s, today) ==
    LET paid == PaidSinceCut(s) IN
    CASE paid >= s.closing -> "paid"
      [] paid < s.closing /\ paid >= s.minimum -> "minimum_paid"
      [] paid < s.closing /\ paid < s.minimum /\ today > s.due -> "past_due"
      [] OTHER -> "pending"

NothingDue == [total |-> 0, minimum |-> 0, overdue |-> FALSE]

cardDue(s, today) ==
    LET paid    == PaidSinceCut(s)
        minimum == Max({0, s.minimum - paid})
    IN IF s.closing <= paid \/ (s.due < today /\ minimum = 0) THEN NothingDue
       ELSE [total |-> s.closing - paid, minimum |-> minimum, overdue |-> s.due < today /\ minimum > 0]

(* The statements account for the debt: the last closing and what was posted  *)
(* since are what is owed; and once a due date has gone by, interest is       *)
(* charged for that statement to who had not paid it whole by then, and only  *)
(* to them.                                                                   *)
AccountForTheDebt ==
    /\ statements # << >> =>
          LET since == {e \in entries : e.at > LastStatement.end /\ e.kind # "interest"} IN
          Outstanding(entries) = LastStatement.closing + Outstanding(since)
    /\ \A i \in 2..Len(statements) :
          LET before == statements[i - 1]
              inTime == {e \in entries : before.end < e.at /\ Day(e.at) <= before.due}
          IN Day(statements[i].end) > before.due =>
                 (statements[i].interest > 0 <=> Posted({"pay"}, inTime) < before.closing)

(* The customer, the forecast and the core, which work it out each on their   *)
(* own, agree on who is in arrears and on what is still to be paid in time,   *)
(* but for the hours in which the forecast's day is the one before.           *)
AgreeOnArrears ==
    statements # << >> =>
        LET today == Day(instant)
            local == Day(instant - Lag)
            shown == toStatement(LastStatement, today)
            due   == cardDue(LastStatement, local)
        IN /\ due.overdue => shown = "past_due"
           /\ shown = "past_due" => due.overdue \/ (local < today /\ due.minimum > 0)
           /\ LastStatement.due < today => (Behind(today) <=> shown = "past_due")
           /\ shown = "pending" => due.minimum > 0 /\ ~due.overdue
           /\ shown = "paid" => due = NothingDue

(* Every posting on the card is on one statement and interest is charged on    *)
(* what was unpaid when due; and the core, the service and the forecast say    *)
(* the same of arrears (close_cycle; review; toStatement; cardDue).            *)
StatementsTellTheDebt == AccountForTheDebt /\ AgreeOnArrears

(* The line ends up blocked or usable as the statements say, however the       *)
(* reviews of the sweeper and of the payments cross: who has paid the minimum  *)
(* is not left without a card, nor who has not, with one (review, review_all). *)
CaughtUpInTheEnd == []<>(standing = Blocks(Behind(Day(instant))))
=============================================================================
