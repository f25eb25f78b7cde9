------------------------------ MODULE Forecast ------------------------------
(* Whether the money lasts until the next income, services/forecast: a pure   *)
(* projection of the balance, day by day, and what the customer is offered    *)
(* when it does not.  Days are counted from today; the projection stops the   *)
(* day before `until`.                                                        *)
EXTENDS Integers, FiniteSetsExt

CONSTANTS
    DefaultHorizon,   \* days projected when no income is expected
    SpendWindow,      \* days of history that count
    TightDays,        \* days of spending that make a balance tight
    Situations        \* balances, spending, income and cards that are looked at

(* A card has due, minimum, total and reserved; NoCard is one that is not due. *)
NoCard == [due |-> 0, minimum |-> 0, total |-> 0, reserved |-> 0]

ASSUME ForecastAssumption ==
    /\ {DefaultHorizon, SpendWindow, TightDays} \subseteq Nat \ {0}
    /\ Situations \subseteq [balance : Int, out : Nat, back : Nat, history : Nat, income : Int,
                            due : [due : Int, minimum : Nat, total : Nat, reserved : Nat]]

Positive(x) == IF x < 0 THEN 0 ELSE x

fromAccount(card, minimum) ==
    Positive((IF minimum THEN card.minimum ELSE card.total) - card.reserved)

(* dailySpend, of what went out and what came back of it.                     *)
dailySpend(out, back, history) ==
    Positive(out - back) \div Max({1, Min({history, SpendWindow})})

Until(income) == IF income > 0 THEN income ELSE DefaultHorizon
spendDays(until) == Positive(until - 1)

(* The balance at the end of a day: what was due before today is paid today.  *)
OnDay(day, balance, daily, card, minimum) ==
    balance - daily * day - (IF Max({card.due, 0}) <= day THEN fromAccount(card, minimum) ELSE 0)

walk(balance, daily, until, card, minimum) ==
    Min({balance} \cup {OnDay(d, balance, daily, card, minimum) : d \in 0..spendDays(until)})

InTime(card, until) == IF card # NoCard /\ card.due < until THEN card ELSE NoCard

Status(lowest, daily) ==
    IF lowest < 0 THEN "deficit" ELSE IF lowest < TightDays * daily THEN "tight" ELSE "ok"

Cause(balance, daily, until, card) ==
    IF card # NoCard /\ walk(balance, daily, until, NoCard, FALSE) >= 0
       /\ walk(balance, daily, until, card, FALSE) < walk(balance, daily, until, NoCard, FALSE)
    THEN "card" ELSE "spending"

(* Slip: the card counts by its minimum where it is to be paid whole.         *)
CommittedAtLeast(card) == fromAccount(card, TRUE)

(* What the card takes from the account before the next income.               *)
Committed(card) == fromAccount(card, FALSE)

options(balance, daily, until, card) ==
    LET minimum   == walk(balance, daily, until, card, TRUE)
        committed == Committed(card)
        days      == spendDays(until)
        limit     == (balance - committed) \div days
        ofCard == IF card = NoCard THEN {}
                  ELSE IF minimum >= 0 THEN {[kind |-> "pay_minimum", amount |-> card.minimum]}
                  ELSE {[kind |-> "add_funds", amount |-> -minimum]}
        ofSpending == IF days > 0 /\ balance >= committed
                      THEN IF limit < daily THEN {[kind |-> "spend_cap", amount |-> limit]} ELSE {}
                      ELSE {}
    IN IF card = NoCard /\ ofSpending = {}
       THEN {[kind |-> "add_funds", amount |-> -walk(balance, daily, until, card, FALSE)]}
       ELSE ofCard \cup ofSpending

-----------------------------------------------------------------------------
(* Whoever would run short is offered something, and whatever they are offered *)
(* is enough: doing it leaves no day below zero.  The card is the cause only   *)
(* when without it they would not run short (Project, options, walk).          *)
Following(o, balance, daily, until, card) ==
    CASE o.kind = "pay_minimum" -> walk(balance, daily, until, card, TRUE)
      [] o.kind = "add_funds"   -> walk(balance + o.amount, daily, until, card, TRUE)
      [] o.kind = "spend_cap"   -> walk(balance, o.amount, until, card, FALSE)

HelpfulOptions ==
    \A s \in Situations :
        LET balance == s.balance
            until   == Until(s.income)
            card    == InTime(s.due, until)
            daily   == dailySpend(s.out, s.back, s.history)
            offered == options(balance, daily, until, card)
        IN Status(walk(balance, daily, until, card, FALSE), daily) = "deficit" =>
              /\ offered # {}
              /\ \A o \in offered : Following(o, balance, daily, until, card) >= 0
              /\ Cause(balance, daily, until, card) = "card"
                    => Status(walk(balance, daily, until, NoCard, FALSE), daily) # "deficit"
=============================================================================
