# A verification project for the banking core and its services

This directory holds TLA+ models of the parts of the repository where money, a
permission or a decision can go wrong through *order*: several requests at once, a retry,
a crash between two statements, an answer that is lost, a process that reads now and acts
later. The models are checked by TLC on small instances; most of what they promise is also
proved by TLAPS, for every number of accounts, keys, sessions, requests and every amount.

Contents: 1. the system; 2. what can go wrong; 3. the modules and the code they
stand for; 4. the runs; 5. the proofs; 6. disagreements between code and
documentation; 7. what is not modelled; 8. the plan.

`PROJECT.json` maps every definition to the lines it models and lists the hazards at
their lines. To reproduce a run: `tlc -config MCSweeper.cfg MCSweeper`; a proof:
`tlapm PaymentsProofs.tla`.

## 1. The system

### The core (Rust, PostgreSQL; `src/core`)

| component | state | operations | talks to |
|---|---|---|---|
| **Ledger posting** (`posting.rs`, migrations 0001, 0002) | `ledger_transactions`, `ledger_entries` (append-only), `account_balances` | `post`, `post_in_tx`; triggers check the account when an entry is inserted, update the balance, and check balance and limits at COMMIT | called by every other part of the core, inside their transaction |
| **Accounts and pockets** (`accounts.rs`, 0012) | `accounts` (type, status, product, parent) | open, open_pocket, close_pocket, pocket transfers, statement of movements | the ledger's triggers read it |
| **Authorizations** (`authorizations.rs`, 0006) | `authorizations`, `authorization_refunds` | authorize, capture, refund, release | posts hold, capture, release and refund |
| **Sweeper** (`bin/sweeper.rs`) | none of its own; a batch in memory | `release_expired` every 30 s; the credit ticker | authorizations, credit cycle |
| **Payment mandates** (`mandates.rs`, 0007) | `payment_mandates`, `authorization_mandates`; consumption is a view | grant, revoke, authorize under a mandate | `authorize_in_tx` in one transaction |
| **Outbox and relay** (`outbox.rs`, `bin/relay.rs`, `kafka.rs`, 0003) | `outbox` rows, `published_at` | write (in the posting's transaction), `run_once`, `run` | the bus |
| **Credit lines and statements** (`credit.rs`, `credit_cycle.rs`, 0010, 0011) | `credit_lines`, `credit_statements` | open, charge, cut, interest, arrears | ledger; called by the sweeper, the service and the sandbox |
| **gRPC surface** (`grpc.rs`) | none | conversions, codes and reasons of errors, `get_balance` | clients |
| **Reconciliation** (`reconciliation.rs`) | reports | balance against entries, suspense accounts | reads the ledger |

### The services and adapters (Go)

None of them shares a transaction with the core: each has tables of its own, and what
binds the two are idempotency keys and the order of calls.

| component | state | operations | what is hard |
|---|---|---|---|
| **Cards adapter** (`adapters/cards`) | `card_authorizations` | Authorize, Clear, Reverse | two stores; the network repeats and loses messages |
| **Rails adapter** (`adapters/rails`) | none; keys derived from the transfer | SendOutbound, HandleInboundCredit | ambiguous outcome of an external rail |
| **Mercatus API** (`services/mercatus`) | none | pay, capture, refund, accounts, agents, consent requests | integrations retry; five stores on the way of a payment |
| **Consent** (`oauth/consent.go`, `bff/consent.go`) | `consent_requests` | request, approve, reject, revoke | granted in the core and approved in another store |
| **Agents** (`services/agents`) | agents, keys, intents, bound accounts | register, rotate, revoke, verify a signature | overlapping rotations |
| **OAuth** (`services/oauth`) | clients, linked accounts; signing keys | token, rotate secret, rotate signing key | windows in which two secrets are good |
| **Devices, passkeys, sessions** | phones, passkeys, challenges, sessions | enrol, log in, confirm, remove | statements with nothing around them |
| **Spending control and step-up** (`services/control`, `stepup`) | decisions, executions, known payees | Decide, Confirmed, Executed | a decision that is acted on later |
| **BFF** (`services/bff`) | none | transfers, pockets, exchange, card, openings, screens | several calls per request |
| **Pockets, exchange, credit applications, aliases, receipts** | small tables beside the core | one module each | check, call the core, then record |
| **Onboarding** (`services/onboarding`) | `applications`, `application_steps` | Submit, Resume, ApproveManually, RejectManually | a pipeline of statements without a transaction |
| **Forecast, rate limiting** | buckets in memory | pure calculations | edges of days, zero and fractions |
| **Go client of the core** (`clients/go/coreclient`) | none | translation of answers and errors | a lost answer says nothing |
| KYC providers, card network, rail, Kafka | external | | idempotent by reference, or at least once |

Python (`risk`), Dart (`app`) and TypeScript (`backoffice`) are a scoring model and
two user interfaces.

### What makes each component correct

* *Ledger*: one posting per idempotency key; the materialised balance is the sum of the
  entries; no customer's account is overdrawn; a committed transaction is one step;
  crossed transfers cannot deadlock.
* *Authorizations*: held money is paid or returned, once; refunds add up to
  `refunded_micros` and never exceed the payment; the holds account owes the live holds;
  whoever was told of a capture, a release or a refund was told the truth.
* *Sweeper*: releases only what has expired, whatever it read earlier; in the end
  releases everything the ledger lets go of.
* *Mandates*: what is committed never exceeds what was granted; a dead mandate takes on
  nothing more; each is the one a customer confirmed, at its terms, and pays for the agent
  it was given to.
* *Relay*: nothing is marked that is not on the bus; every committed event gets there;
  the events of one account in order.
* *Credit cycle*: every posting is on one statement; interest is charged on what was
  unpaid when due; the status of a line is in the end the one its statements call for.
* *Cards and rails*: what their rows call held or settled is what the ledger has; a hold
  and a transfer in transit are let go once.
* *Access*: a challenge works once; guesses are bounded; what was taken away (a phone, a
  key, a secret, an agent) opens nothing any more.
* *Channel*: every transfer is one that was decided on with exactly its terms; one card
  pocket; conversions execute once; lines follow approvals; a number points to who proved
  it last; a receipt stands; one form gives one file, one paid check and one account.
* *Onboarding*: an automatic decision rests on the checks on file; one person, one
  automatic approval.

## 2. What can go wrong

`PROJECT.json` lists 40 hazards, each at its line, with the properties that would catch it
going wrong. By kind: requests that **interleave** between a check and the act that rests
on it (nearly every service: cards, rails, consent, enrolment, transfers, aliases,
receipts); **retries** of what was already done, with a key derived from state (refunds) or a
fixed key (closing a pocket, a transfer repeated after its reversal); **crashes** between two stores
(a mandate and its request, a row and its hold, a step and its status); **stale reads** (a
batch of the sweeper, a refund's total, a home put together from several reads); **order**
(ids that are not given in the order of commits: the outbox, the statement of movements);
**liveness** (`LIMIT` over rows that never go away, a message the bus refuses, a review that
overwrites a newer one); **numeric edges** (rounding of an exchange, a bucket's fraction, a
balance of zero on the day of a due date). Hazards no property covers carry a note: they
are behaviours no document says a word about, deployments with two relays, and the
calendar.

## 3. The modules and the code they stand for

```
core       Posting ── LedgerSessions                      MCLedgerSessions
             └ Authorizations ─┬ Mandates                 MCMandates
                 │ (Escrow)    ├ Sweeper ┐
                 │             └ PaymentCalls             MCSweeper
           Relay, CreditCycle                             MCBackground
           Screens (reads of the core)                    Screens

services   CoreClient ─┬ Cards, Rails                     MCAdapters
                       └ Customer (+ Control) ── Pockets, FX, CreditCalls,
                         Receipts, Arrivals; Aliases,
                         Forecast ── Channel                               MCChannel
           Identity;  Agents ── OAuth                     MCAccess
           Control + Agents ── Consents ── Mercatus (+ Answers)            MCDelegation
           Onboarding                                     MCOnboarding
```

An arrow to the right is `EXTENDS`; the last column is the module TLC runs. `Authorizations`
takes `Escrow` with `INSTANCE ... WITH`. Proofs are in modules of their own, `...Proofs`, one
for each group of components that meet; `Sums` has what they need to know of sums.

### Conventions

* One action is one database transaction in the core, where every operation runs in one,
  and one *statement or call* in the services, where none does. A handler is a record that
  says which step comes next (`at`) and what it has read so far; other handlers run
  between any two of its steps, and `Crash` ends it where it stands.
* A call of the core from a service has three outcomes: done and answered, refused, or
  *done or not done and not answered*.
* A retry is the same input given again, which may happen at any time: keys, references and
  transfer ids come from sets small enough to repeat. (`PaymentCalls` alone remembers who
  repeats what, to speak of answers.)
* Definitions marked **Slip** are no part of any specification: they are the mistakes a
  programmer might have made in the definition that follows, and `PROJECT.json` ("mutants")
  says which property notices which.
* The specification of a component is `Init`, one action per operation, and a next-state
  relation that lists them. Module `MC...` chooses constants and, where several independent
  components share a run, adds one variable (`scene`, `part`, `stage`) that picks one of them
  for the whole behaviour, so that a run is the union and not the product.

Abstractions used throughout: one currency, except in `FX` and `Arrivals`; amounts are
small naturals and the width of a 64-bit micro is not modelled; a limit that is NULL is a
limit out of reach; accounts beside the ledger exist from the start, and the status FROZEN,
which nothing in the code sets, is left out; the database and the processes share a clock;
an idempotency key carries the prefix of what it is for, as the code's keys do.

### The core

**Posting** is the committed ledger. `Post` is `post_in_tx` up to its COMMIT: a key that is
known replays its posting if the fingerprint is equal and is a conflict otherwise, and a
new one appends two entries, moves two balances and must satisfy what the triggers check
(active account, transaction cap, overdraft, cap of the family). `Move` is a posting by any
client and `ClosePocket` is `close_pocket`. `BalanceIsProjection` ties `account_balances` to
the entries.

**LedgerSessions** is the same at the grain of statements, under READ COMMITTED:
`InsertTransaction` (which waits for whoever inserts the same key) or `FindByKey`, `CheckEntry` and
`ApplyEntry` (the trigger reads the account, then updates the balance and keeps its row
lock), `CheckLimits` (deferred), `Commit`, `Rollback`, and `LockPocket` and `CommitClose` for a
closing. `CommitsAreAtomic` says that what commits is a step of `Posting`: this is what makes
it right for every other module to take a transaction for a step.

**Authorizations** has `Authorize`, `Capture`, `Refund` and `Release`, each a transaction under
`SELECT ... FOR UPDATE` with its posting in it, and the replay each answers a repeated call
with. The posting of a refund has a key made of the sum refunded before it. **Escrow** is what
is promised with no ledger in sight: stages *none*, *held*, *paid*, *returned*; the refinement
`KeepsEscrow` reads the stage off the *postings*, not off the status column.

**Mandates** adds `authorize` under a mandate in the order of the code: lock and check the
mandate, then `authorize_in_tx`, then the link with `ON CONFLICT DO NOTHING`. Consumption is
an operator over the linked authorizations, as the view is.

**Sweeper**: `Select` reads a batch of identifiers, `ReleaseNext` gives the first of them a
transaction of its own or leaves it if that fails, `Crash` forgets the batch. Process and RPC
run passes at once. **PaymentCalls** are captures, refunds and questions as HTTP handlers:
each reads the authorization first (`Resolve`), then asks, and its answer may be lost
(`Retry`).

**Relay**: a row of the outbox gets its id when it is written and is seen when its
transaction ends; `Select` takes the oldest unpublished rows that nobody has locked
(`SKIP LOCKED`), `Publish` one by one, `Mark` commits. The bus may refuse, or take a message
and fail all the same; the relay may die anywhere.

**CreditCycle**: postings begin at an instant and commit at a later one; the cut reads
what was posted since the last (`ReadCycle`) and then posts the interest and files the
statement with its minimum and due date (`close_cycle`); `review`
reads the payments in one statement and writes the status in another, and may be at work in
the sweeper, after a payment and in the sandbox at once. What the service (`toStatement`) and
the forecast (`cardDue`) say of the same line are operators here, compared with the core.

**Screens** are the reads: `home`, `movements` page by page, the detail of a task, and what the
risk engine observes, each in the several calls it takes, while postings commit out of the
order of their ids.

### Services and adapters

**CoreClient** is the core as seen through the Go client: keys that move money once, no
customer below zero, answers that do not arrive. **Answers** follows each error of the core
through three tables of codes to an HTTP status; it is calculation without state.

**Cards** and **Rails** are the adapters call by call. Their comments name the calls: *row, hold,
answer*; *read, post, mark*; *reserve, order, settle or give back*.

**Identity** has the three tables of `devices`, `passkeys` and `sessions`, and a handler that
goes through the statements of the service in their order: read the ticket, consume it with
an UPDATE that succeeds once, check the signature or the PIN, count a failure, read the
device, open the session. **Agents** and **OAuth** have the rotations: keys changed in
transactions that lock the agent's row *after* taking their time, a secret and its
predecessor, the signing key and the tokens out.

**Control** is `Decide`, `Confirmed` and `Executed` and the records they leave; `Customer` has
`handleTransfer` in front of it. **Consents** carries a request through the app and the core
and undoes the mandate when somebody else came first. **Mercatus** pays with signed requests:
agent, key, permission, control, core, intent, in that order and in separate calls.

**Pockets, FX, CreditCalls, Aliases, Receipts** each keep a table beside the core and are
modelled alike: check, call, record, with the compensations there are. **Arrivals** is the form
of the opening, the second account and the sandbox's payee, and the token bucket, which is
what stands before people nobody knows yet. **Channel** composes these with `Customer`: their
handlers run at once over one core and one table of calls, and `stage` says whether the
behaviour is of somebody who arrives or of a customer. **Forecast** is calculation over a
projection, and so is the bucket of `Arrivals`: what is said of them is said of every series of
calls in `Series` and every situation in `Situations`. A row written with `ON CONFLICT DO
NOTHING` is `Insert` everywhere (`Control`).

**Onboarding** has every statement of `Submit`, `Resume` and the analyst's two decisions;
`Workers` are requests, several of them for one application. A provider's verdict for a
reference is fixed, since asking again returns the check that was paid for.

## 4. The runs

| run | instance | shows | distinct states |
|---|---|---|---|
| `mandates` | 2 mandates, 2 payments, 3 commands, a pocket; clock to 2 | exactly-once settlement, chains of refunds, what the holds account owes, caps, dead mandates, **refinement of Escrow** | 656 000 |
| `sweeper` | *sweeping*: 2 sweepers, batch of 2, 2 holds, a family at its cap and a pocket that closes, one crash; *calling*: 2 calls, each repeated once | what integrations are told stands; every hold the ledger lets go of goes back (**liveness**) | 253 000 |
| `ledger_sessions` | 2 sessions, 2 keys, account with a pocket, shop, cash | no overdraft, one posting per key, no deadlock, **serializability** | 123 000 |
| `background` | one relay, 4 events on 3 accounts, batch of 2, 2 failures; a card over 5 days, 2 cuts, 3 postings | order of events, every event delivered, statements that add up, status that catches up (**liveness**) | 342 000 |
| `onboarding` | 2 applications with one document, 2 requests | the file sustains the decision; one automatic approval per person | 2 908 000 |
| `adapters` | one purchase (hold of 2, charge of 1, 2 or 3); 2 transfers and an incoming one; 2 handlers | books no fuller than the ledger; let go once | 200 000 |
| `access` | 2 phones, a passkey, 2 requests, 2 tickets, 2 sessions, 2 guesses; 3 keys and 2 transactions; 2 rotations | tickets once, guesses bounded, nothing opens to what was taken away, rotations end | 513 000 |
| `delegation` | 2 agents, 2 keys, one request, 2 mandates, 2 handlers of 5 | mandates as confirmed, paid by the right agent; answers keep | 1 273 000 |
| `channel` | 2 handlers at once, 3 in a behaviour, over each of the customer's services; or one form, two applicants and one who is refused | transfers decided on, one card pocket, fair exchanges, approved lines, aliases, receipts, arrivals; bucket and forecast over all small inputs | 447 000 |
| `screens` | 3 payments, 4 movements, pages of 2 | screens agree with a ledger that was | 4 049 000 |
| `refund_retry` | as `sweeper` | **violation**: a refund repeated after a lost answer moves the money twice | |
| `review_bypassed` | as `onboarding` | **violation**: an account opened without the analyst it waited for | |

Every property of a passing run has a mutant: a slip in one definition of the model, as a
bug in the code might be, under which TLC finds that property violated.

*Why the bounds are enough.* Two of everything that competes (sessions, sweepers, requests,
handlers, rotations) makes each check-then-act race happen; a third adds orders, not kinds.
Where the number itself matters, the bound is above it: a guess limit of 2 with two requests
past it, a batch of 2 with 2 holds, pages of 2 over 4 movements, a hold of 2 charged for
less and for more, four events so that one can be skipped between two that are published.
Clocks go one past the last deadline. `sweeper` needs a batch with room for the hold that
cannot be released: with less, the code starves the others (section 6). The proofs
(section 5) lift these bounds where they were the doubt.

*Fairness.* Sweeper, relay and the credit ticker are loops that run for ever in processes the
deployment restarts; fairness is asked of their steps and of nothing else: reading a batch,
releasing the next of it, reading, publishing and marking rows, reviewing lines, writing a
review, ending a cut that has begun. Fairness of `Publish` says the bus takes a message in the
end. No client, analyst, customer or integration has to do anything.

*Deadlock* is checked where a behaviour never has to end: `ledger_sessions`, `onboarding`,
`adapters`, `access`. Elsewhere a clock or a bound on handlers ends it, and the flag is off.

*Symmetry* is declared over sets no operator orders, in runs whose properties are invariants
or steps that do not tell the members apart; never with liveness.

*Types.* The runs have no type invariant; the inductive invariants of section 5 contain them.

## 5. The proofs

| module | theorem | states | by |
|---|---|---|---|
| `PaymentsProofs` | `TypeCorrect`, `SettledOnce`, `RefundsAddUp`, `ImplementsEscrow` | `TypeOK`, `StatusMatchesLedger`, `RefundsChain`, `KeepsEscrow` | `IInv` |
| | `LedgerAgrees` | `BalanceIsProjection`, `HoldsCoverLive` | `BalancesAgree`, over `IInv` |
| | `BatchesStayExpired`, `SweeperImplementsEscrow` | `BatchesHaveExpired`, `SweepKeepsEscrow` | `BInv`, over `IInv` |
| | `LinksKeepToGrant`, `DeadMandatesOnlyShrink`, `MandatesImplementEscrow` | `LinksWithinGrant`, `DeadMandatesShrink`, `KeepsEscrow` | `MInv`, over `IInv` |
| | `MandatesKeepCaps`, `ConsumptionIsInTheLedger` | `CapRespected`, `ConsumptionIsMoneyOut` | `CapsKept`, over `MInv` |
| | `ToldForGood` | `AnswersStand` | `CallsInv`, over `IInv` |
| `DatabaseProofs` | `NeverOverdrawn`, `PostedOnce`, `DeadlockFree`, `Serializable`, `BalancesProject` | `NoOverdraft`, `OncePerKey`, `SomeoneProceeds`, `CommitsAreAtomic`, `BalanceIsProjection` | `SInv` |
| | `OneRelayKeepsOrder`, `NothingMarkedIsLost` | `AccountsInOrder`, `MarkedWereDelivered` | `RInv` |
| | `StatementsAlwaysTell` | `StatementsTellTheDebt` | `CycleInv` |
| `PlatformProofs` | `MandatesAsConfirmed`, `OnlyTheGrantedAgentPays`, `PlatformsCanRely` | `GrantedAsConfirmed`, `PaidByTheGrantedAgent`, `AnswersHold` | `DInv`; the tables of codes |
| | `NoMandateUnaccounted` | `LiveMandatesAccountedFor` | itself, over `DInv` |
| | `RotationsEnd` | `RotationsTakeEffect` | `KInv` and `OInv` |
| `ChannelProofs` | `NothingMovesUnasked`, `OneCardPocketAlways`, `ExchangesStayFair`, `LinesAreApproved`, `ReceiptsAlwaysStand`, `AliasesAlwaysFollow`, `ArrivalsStayOne` | `TransfersWereAuthorized`, `OneCardPocket`, `ExchangesAreFair`, `LinesWereApproved`, `ReceiptsStand`, `AliasesFollowProofs`, `ArrivalsKeepToOne` | `ChannelInv` and `ArrivalPart` |
| | `WindowsAlwaysBounded`, `OptionsAlwaysHelp` | `WindowsAreBounded`, `OptionsHelp` | calculation |
| `AppProofs` | `FilesSustainDecisions`, `OnePersonOneApproval` | `FileSustainsDecision`, `OneApprovedByItself` | `OInv` |
| | `TicketsWorkOnceAlways`, `GuessesAreBounded`, `WhatIsTakenAwayStaysAway` | `TicketsWorkOnce`, `GuessesBounded`, `TakenAwayStaysAway` | `DInv` |
| | `ScreensAlwaysTell` | `ScreensTellTheLedger` | `ScreensInv` |
| `AdaptersProofs` | `RailsCountOnce` | `RailsKeepCount` | `RailInv` |
| | `PurchasesAlwaysAddUp` | `PurchasesAddUp` | `CardInv` |
| `Sums` | lemmas only | what `SumFunction` and `SumFunctionOnSet` of finite sets obey | |

They hold for every value of the constants the modules assume, the bounds on the clock and on
the counters included: any number of accounts, keys, sessions, sweepers, mandates, handlers,
agents, phones, forms and events. The assumptions are named `...Assumption` in the module
that declares the constants. They say what the code and its migrations fix: that accounts of
customers and of the house differ, amounts are positive, a lock order is an order, references and
mandates are told apart (`MercatusAssumption`), the units of a rate are positive and the
spread is less than the whole (`FXAssumption`), the word for no number is no number
(`AliasesAssumption`), and requests and forms are finitely many (`ArrivalsAssumption`). Two
theorems have a hypothesis of their own, named below: one relay, and `~Straddle`.
What an exchange is fair *for* is the constant `FairFor`: 1 to 30 in the run, any positive
rates and amounts in the proof. `Series` and `Situations` are of the same kind: all series of five
calls up to 3 ticks apart, and all small balances, in the run; in the proof any set of sequences of
naturals, for a bucket of any size and rate (`LimiterAssumption`), and any set of integer balances
and incomes, natural spending and cards due on any day (`ForecastAssumption`).

The arguments:

* **Sums.** The library's `SumFunctionOnSet` is a recursion over the set that is left to be
  added, in an order `CHOOSE` takes. That the recursion has a solution, that the order does not
  matter, and that a term more adds that term, would be an induction over finite sets; it is
  made here by taking the *least* cardinality at which the fact could fail, which
  `NatLessThanWellFounded` provides with no operator to instantiate. `HoldsCoverLive`,
  `CapRespected`, `ConsumptionIsMoneyOut` and both `BalanceIsProjection` rest on it.
* **Authorizations.** That a capture and a release never both exist is not inductive: it needs
  that the status says *exactly* which postings exist (`IInv`), and that the payer and the payee
  of a row are what its postings moved between. `RefundsChain` needs the chain: each refund's
  key is the sum before it, so the next one's key is free. The refinement goes action by
  action; a replay is a stutter, since the postings do not change. For the balances
  (`BalancesAgree`) a step adds at most one posting and one live hold: the sums over both are
  finite, and each kind of posting moves the two of them together.
* **Mandates.** Every row that is linked was authorized from the mandate's account within its cap
  per operation, also if a retry linked it. What is committed cannot grow under a dead
  mandate because the guard looks at the clock and the status before anything else. The cap
  (`CapsKept`) goes key by key: what one key commits is what its postings moved out (`KeyOut`),
  a step changes this for one key only, no capture, refund or release raises it, and a new
  payment is the one term that is added, after the check.
* **Sweeper.** A batch may be arbitrarily old, and stays right because an expired hold can only
  leave AUTHORIZED, never return to it, and cannot be captured any more.
* **Calls.** An answer is about a row that goes on changing, so `Told` says of each answer what
  the row cannot take back: a capture stays captured; *too late* stays so because the clock does
  not go back; a sum refunded only grows. `OnItsWay` says what a call on its way has read.
* **Sessions.** `SInv`: a balance that is locked is locked by one session, a session holds
  what it has applied and only that, and from its check to its commit what it checked
  cannot change. Overdraft, serializability and the balances follow. Freedom from deadlock
  takes, of the sessions that wait, one that holds the highest row: nobody it waits for can be
  waiting. Families are the exception the code makes (section 6).
* **Relay.** Assumes *one* relay, as deployed. An event that shares an account with an earlier one
  was written after that one's transaction had ended, because it waited for the balance row;
  hence a pass that takes rows by id takes an account's in order, and when the bus refuses one
  the pass gives up the rest.
* **Statements of a card.** Assumes that nothing is in flight when a cut reads (`~Straddle`,
  which section 6 explains). `CycleInv`: what the entries leave outstanding is what the last
  statement closed with and what came since, also while a cut has read and not written. It
  rests on `Timing`: each entry has an instant of its own, and what is in flight began after the last
  cut. For the interest, a day and a debt of a unit or more make an interest of one
  at least; who had paid whole in time cannot come to owe that statement again.
* **Delegation.** `DInv` says of each handler what it may rely on between two calls (`Stands`):
  one about to grant was confirmed at those terms, one about to pay was decided on for this
  agent and permission. `Onward` says what no step takes back (the terms of a request, a payment,
  a binding), and makes what a handler relies on survive the others. A mandate that lives is in
  its request, in the hands of the handler that made it (`Holding`), or lost.
* **Rotations.** Adding a key locks the agent's row, so whoever inserts knows every key without
  an end (`KInv`): there is one. A token remembers the secret it was bought with, which was good
  when it was (`OInv`).
* **Channel.** All the app's handlers share one core and one table of calls. Each part has an
  invariant of its own (`CInv` transfers, `OneCardRow`, `FInv` exchange, `LInv` the line,
  `RcInv` receipts, `AInv` aliases, `ArInv` arrivals), and two lemmas keep them apart: a part
  moves its own handlers (`Within`) and posts under its own keys (`Growing`). What a part knows
  of the core stays true because the core only grows. *Transfers*: a handler past the decision
  is one a decision was recorded for, with its very terms, and confirmed if it is large or goes
  to somebody new. *Exchange*: exact arithmetic over quotients; there and back is no more than
  the start because each truncation goes against the customer. *Aliases*: the directory is
  the set of claims that nothing later displaced. *Arrivals*: for each form and currency, the
  accounts there are plus the requests still to open one never exceed the crowd counted for it.
* **Identity.** A consumed ticket belongs to one request at most (`TicketsSpentOnce`). The wrong
  guesses counted on a locked phone plus the requests already past the lock stay below the
  limit plus the number of requests (`GuessesCounted`). For what is taken away: every step
  that could let somebody in needs a request that saw the key before it went, or reads it.
* **Onboarding.** A decision rests on steps on file that nobody rewrites; of two files of one
  person the one filed later sees the other when it looks for it.
* **Screens.** A page goes on exactly where the last one ended, so the pages are one list, newest
  first, that lacks nothing above its cursor of what there was at the opening (`PagesRead`,
  `RiskRead`): what commits later with a smaller id was not there. A list sorted by id is taken
  by rank, which needs ids to be unique (`LedgerInv`). What is out of the account for a payment is
  what its row says, and only grows smaller once the payment is made; so what a task counts
  for it, at any later time, lies between what was out and what is, unless it expired
  (`CountedFor`), and so do the sums.
* **Rails.** Of each transfer `RailInv` says which postings there are and as what they stand, and
  that a request past its reservation is on the way the rail decided (`OnItsWay`). The decision
  is final and the ledger grows, so a step answers only for what it adds (`RailInvKept`). Money
  in transit is then a sum of two terms at most.
* **Cards.** A purchase at a time (`PurchaseInv`): what is entered under its keys, what each call
  may rely on where it stands (`Relies`), what its row tells, and that it goes one way
  (`OneWay`): of charging and reversing nothing is begun of the other, unless it was approved
  early. Neither the rows' statements nor the postings see to that; the network does, which
  asks for one thing until it is answered, and the row's status, once the first is marked.
  `AsideStays` keeps every other purchase right, `MovedKeeps` says what a call has to answer for.
* **Answers.** A finite calculation, which is proved by names: each error has a reason in the
  vocabulary of its channel, a reason there is its own translation (`TranslatedAs`), and what
  has none, or was lost, is `Unavailable` and ends as 503 (`Statuses`).
* **The bucket.** `Bucket` is a recursion over the calls; that it has a solution is shown as for
  the sums, by the least length at which it could fail (`RecursionSolved`). Over a stretch of
  calls an account is kept (`StretchBounded`): what was let through and what is left is no more
  than a full bucket and what has trickled in, call by call, again by the least call at which it
  could fail. That waiting helps (`WaitingHelps`) is the division in `Wait`, which rounds up.
* **The forecast.** The lowest day is a minimum over a set with a lower bound (`WalkIs`). Money that
  is added shifts every day alike (`FundsAdd`); a cap is what is left after the card divided by
  the days there are, so it lasts (`CapIsEnough`); each option is one of the three.

Every invariant and every action property of the passing runs is stated by one of these theorems.
*Only model-checked* is liveness (`ExpiredGoBack`, `Delivered`, `CaughtUpInTheEnd`): it needs
ENABLED, which is out of these provers' reach. Neither is there an induction principle the
provers can be given a predicate for; wherever a fact about a recursion or a finite set is
needed for every input, the proof takes the least one that would fail.

## 6. Disagreements between code and documentation

Two have a run that ends in a counterexample:

* `refund_retry`: the key of a refund is made of the sum refunded so far
  (`core/src/authorizations.rs:343`), so one that is repeated after a lost answer is a new
  refund. The contract calls `refund` idempotent by nature.
* `review_bypassed`: `advance` (`services/onboarding/service.go:124`) stops for approved and
  rejected only; an application in manual review that is submitted again opens its account.

The others were met while modelling. The models do what the code does, and the properties
that would be broken make the exception named here:

| where | what the code does | where it shows |
|---|---|---|
| `core/src/mandates.rs:303` | the retry of a payment that used up its mandate, or whose mandate died, is refused and not answered with the payment | order of the checks in `Mandates` |
| `core/src/authorizations.rs:417` | holds that cannot be released fill the batch and keep younger ones from ever being released | `ExpiredGoBack` needs room in the batch |
| `core/migrations/0012_pockets.sql:114` | the family's cap is checked on balances that are not locked | `CommitsAreAtomic` exempts families |
| `core/src/accounts.rs:136` | a deposit that waited for the closing of a pocket credits a closed pocket | the same |
| `adapters/cards/store.go:65` | a repeated authorization is approved before its hold is known | `early` in `Cards` |
| `services/bff/access.go:187` | two removals at once leave no way in | `Identity` has both calls |
| `services/devices/store.go:103` | two first enrolments at once both succeed | `Identity` |
| `services/agents/agents.go:203` | adding a key prolongs keys that were about to end | `RotationsTakeEffect` counts from the last rotation |
| `services/oauth/store.go:94` | a second rotation within the window ends the first window at once | the window is bounded from above only |
| `services/fx/fx.go:179` | a conversion whose mark was lost is refused as expired when retried late | `FX` keeps the answers of marked ones |
| `core/src/credit_cycle.rs:155` | a posting in flight at a cut is on no statement | no posting in flight across a cut in the run (`Straddle`) |
| `core/src/credit_cycle.rs:353` | a line whose cut failed waits a whole cycle, not a day | `CutFails` |
| `core/src/accounts.rs:302` | a movement that commits late is on no page | pages are held to what had committed at their opening |
| `services/mercatus/handlers.go:527` | two refunds at once are each told both | `AnswersStand` bounds the figure from below |

`PROJECT.json` quotes the sentence each one is at odds with.

## 7. What is not modelled

* *Reconciliation* writes reports nothing reads; what it audits is `BalanceIsProjection`.
* *gRPC handlers* beside the errors and `get_balance`: conversions in front of what is
  modelled. *Model, money, products, telemetry, pool*: types, formats, a catalogue, plumbing.
* *What is external*: KYC providers, card network, rail, bus, WebAuthn and PostgreSQL itself
  are there by what the code relies on: one verdict per reference, one decision per transfer,
  at least once, one use of a signature, the locks and the visibility of READ COMMITTED.
* *Cryptography and parsing*: that a signature verifies or a field is well formed is an input.
* *Calendars*: months have one length and a day one zone but for the hours in which Lima is a
  day behind (`Lag`). *Widths*: no sum comes near 64 bits.
* *Generated stubs* (`clients/go/corev1`), the demonstration, the risk model, the user
  interfaces, contracts and deployment. Lists and queries that are a single read.
* More than one relay, a bus that refuses a message for ever: what the code does then is told
  under "hazards"; nothing promises otherwise.

## 8. The plan

The order was: ledger and authorizations, what moves them (mandates, sweeper, calls), the
sessions that justify taking a transaction for a step, the relay, onboarding, then the
services by the weight of what they decide: cards and rails, the way in, delegation, the
channel, the screens. All of it is in place. What is left, in order:

1. `LedgerSessions` with families, once the code locks what it checks.
2. `CreditCycle` with postings that straddle a cut, once a cut reads what has committed.
