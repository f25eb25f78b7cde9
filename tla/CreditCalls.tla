---------------------------- MODULE CreditCalls ----------------------------
(* The customer's credit card, services/credit: an application is assessed,   *)
(* filed, and if approved opens a line in the core, which is an account that  *)
(* owes; using and paying the line are postings.  The core keeps one line per *)
(* customer and its limit, and blocks and unblocks it by its statements       *)
(* (both external here).                                                      *)
EXTENDS Customer

CONSTANTS
    Applications,   \* applications the service files
    CardOrders,     \* idempotency keys of draws and payments
    CardAccount,    \* the account a line is opened with; its Funds are the limit
    CardAmounts     \* what is drawn and paid

ASSUME CreditAssumption == CardAccount \in Holders \ (Own \cup PocketIds)

VARIABLES
    line,           \* the line in the core
    applications,   \* credit.applications
    toldLine        \* applications answered as approved, with a card

creditVars == <<line, applications, toldLine>>

NoLine == [status |-> "none"]
NotFiled == [outcome |-> "none"]
Outcomes == {"approved", "needs_more_history", "declined"}

InitCredit ==
    /\ line = NoLine /\ applications = [a \in Applications |-> NotFiled] /\ toldLine = {}

-----------------------------------------------------------------------------
(* Apply: nobody has two lines, and a recent refusal is the answer again.     *)
recentDecision == {a \in Applications : applications[a].outcome \in Outcomes \ {"approved"}
                                        /\ applications[a].recent}

handleCreditApplication(h) ==
    /\ line = NoLine /\ recentDecision = {}
    /\ Start(h, [at |-> "assess"])
    /\ UNCHANGED <<creditVars, core, controlVars>>

(* The engine of risk says what it says; its decision is filed whatever it is. *)
FileApplication(h, a) ==
    /\ call[h].at = "assess" /\ applications[a] = NotFiled
    /\ \E outcome \in Outcomes :
          /\ applications' = [applications EXCEPT ![a] =
                                 [outcome |-> outcome, recent |-> TRUE, linked |-> FALSE]]
          /\ IF outcome = "approved"
             THEN Goto(h, [at |-> "open_line", application |-> a]) \/ Return(h)
             ELSE Return(h)
    /\ UNCHANGED <<line, toldLine, core, controlVars>>

Opened(a) == [status |-> "active", ref |-> a]

(* Slip: a line that exists already is taken for the one asked for.          *)
OpenOrFindCreditLine(h) ==
    LET t == call[h] IN
    /\ t.at = "open_line"
    /\ line' \in {line, IF line = NoLine THEN Opened(t.application) ELSE line}
    /\ \/ line' # NoLine /\ Goto(h, [t EXCEPT !.at = "link_line"])
       \/ Return(h)
    /\ UNCHANGED <<applications, toldLine, core, controlVars>>

OpenCreditLine(h) ==
    LET t == call[h] IN
    /\ t.at = "open_line"
    /\ line' \in {line, IF line = NoLine THEN Opened(t.application) ELSE line}
    /\ \/ line = NoLine /\ line' # NoLine /\ Goto(h, [t EXCEPT !.at = "link_line"])
       \/ Return(h)
    /\ UNCHANGED <<applications, toldLine, core, controlVars>>

LinkLine(h) ==
    LET a == call[h].application
        after == [applications EXCEPT ![a].linked = TRUE]
    IN
    /\ call[h].at = "link_line"
    /\ \/ applications' = after /\ toldLine' = toldLine \cup {a}
       \/ applications' \in {applications, after} /\ UNCHANGED toldLine
    /\ Return(h)
    /\ UNCHANGED <<line, core, controlVars>>

(* The cooldown after a refusal goes by.                                      *)
CoolDown(a) ==
    /\ a \in recentDecision
    /\ applications' = [applications EXCEPT ![a].recent = FALSE]
    /\ UNCHANGED <<line, toldLine, core, controlVars, handlerVars>>

-----------------------------------------------------------------------------
(* Draw and Pay: one posting each, which the core may refuse: no debt beyond  *)
(* the limit, none below zero, and no use of a line that is blocked.          *)
Debt == Funds[CardAccount] - Balance(CardAccount)

PostOnLine(key, entries, got) ==
    IF key \notin DOMAIN core /\ \/ entries[CardAccount] > Debt
                                 \/ entries[CardAccount] < 0 /\ line.status # "active"
    THEN got \in {"insufficient", "unavailable"} /\ UNCHANGED core
    ELSE Post(key, entries, got)

creditMove(h, account, draw, n, x) ==
    /\ line # NoLine /\ account \in Own /\ CurrencyOf[account] = CurrencyOf[CardAccount] /\ x > 0
    /\ Start(h, [at |-> IF draw THEN "draw" ELSE "pay", account |-> account, key |-> n, amount |-> x])
    /\ UNCHANGED <<creditVars, core, controlVars>>

Draw(h) ==
    LET t == call[h] IN
    /\ t.at = "draw"
    /\ \E got \in Answers :
          PostOnLine(<<"draw", t.key>>, Debit(CardAccount, t.amount) @@ Credit(t.account, t.amount), got)
    /\ Return(h)
    /\ UNCHANGED <<creditVars, controlVars>>

(* A payment has the line reviewed, and does not mind if it is not.           *)
Pay(h) ==
    LET t == call[h] IN
    /\ t.at = "pay"
    /\ \E got \in Answers :
          /\ PostOnLine(<<"pay", t.key>>, Debit(t.account, t.amount) @@ Credit(CardAccount, t.amount), got)
          /\ IF Ok(got) THEN line' \in {line, [line EXCEPT !.status = "active"]} ELSE UNCHANGED line
    /\ Return(h)
    /\ UNCHANGED <<applications, toldLine, controlVars>>

ReviewCreditLine ==
    /\ line.status = "active" /\ Debt > 0
    /\ line' = [line EXCEPT !.status = "blocked"]
    /\ UNCHANGED <<applications, toldLine, core, controlVars, handlerVars>>

NextCredit ==
    \/ \E h \in Calls :
          \/ handleCreditApplication(h) \/ OpenCreditLine(h) \/ LinkLine(h) \/ Draw(h) \/ Pay(h)
          \/ \E a \in Applications : FileApplication(h, a)
          \/ \E account \in Own, draw \in BOOLEAN, n \in CardOrders, x \in CardAmounts :
                creditMove(h, account, draw, n, x)
    \/ \E a \in Applications : CoolDown(a)
    \/ ReviewCreditLine

-----------------------------------------------------------------------------
(* A line points at the decision that granted it, which approved it, and      *)
(* whoever was told their application got a card has that application's line,  *)
(* also when two of them were approved at once or an answer of the core was    *)
(* lost (OpenCreditLine, ErrAlreadyExists).                                    *)
LinesWereApproved ==
    /\ line # NoLine => applications[line.ref].outcome = "approved"
    /\ \A a \in Applications :
          a \in toldLine \/ (applications[a] # NotFiled /\ applications[a].linked)
             => line # NoLine /\ line.ref = a
=============================================================================
