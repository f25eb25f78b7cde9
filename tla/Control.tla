------------------------------ MODULE Control ------------------------------
(* The layer every sensitive operation asks first, services/control, and the  *)
(* transfer policy it consults, services/stepup.  What it decides is written  *)
(* down before the operation goes on, and what was done points back to it.    *)
(* HTTP handlers ask it, several at once.  Each remembers what it has read    *)
(* and where it stands between two calls of other parts, which is where       *)
(* others get in.                                                             *)
EXTENDS Naturals, FiniteSets, TLC

CONSTANTS
    Calls,             \* handlers running at once
    MaxCalls,          \* bound on the handlers of a behaviour
    AmountThreshold    \* stepup.Policy: from here on a transfer is confirmed

ASSUME ControlAssumption == MaxCalls \in Nat /\ AmountThreshold \in Nat

VARIABLES
    call,         \* [Calls -> handler]
    asked,        \* handlers started so far
    decisions,    \* control.decisions: [operation, by, outcome]
    executions,   \* control.executions: transaction -> who it was authorized for
    payees,       \* identity.known_payees of the customer
    challenges    \* operations the phone was asked to confirm and has not

handlerVars == <<call, asked>>
controlVars == <<decisions, executions, payees, challenges>>

Idle == [at |-> "idle"]

InitHandlers == call = [h \in Calls |-> Idle] /\ asked = 0

Start(h, next) == /\ call[h] = Idle /\ asked < MaxCalls /\ asked' = asked + 1
                  /\ call' = [call EXCEPT ![h] = next]
Goto(h, next)  == call' = [call EXCEPT ![h] = next] /\ asked' = asked
Return(h)      == Goto(h, Idle)
At(h, step)    == call[h].at = step

(* A handler that makes one change and calls nobody else in between.          *)
Serve == asked < MaxCalls /\ asked' = asked + 1 /\ call' = call

-----------------------------------------------------------------------------

You == "holder"   \* the customer's phone, as the actor of a decision

InitControl == decisions = {} /\ executions = << >> /\ payees = {} /\ challenges = {}

LevelHuman == 4
LevelOf == [transfer |-> 3, mandate_payment |-> 3, grant_permission |-> LevelHuman]

(* A request has kind, by, action, amount, to, operation and, for a delegate, *)
(* the grant it acts under, or NoGrant.                                       *)
NoGrant == [revoked |-> TRUE, level |-> 0, actions |-> {}, remaining |-> 0]

Required(r) == r.amount >= AmountThreshold \/ r.to \notin payees

forHolder(r) ==
    IF LevelOf[r.action] = LevelHuman \/ (r.action = "transfer" /\ Required(r))
    THEN "confirm" ELSE "allow"

(* A delegate is allowed what its grant covers, and never what is for people. *)
Covers(grant, r) ==
    /\ ~grant.revoked /\ r.action \in grant.actions
    /\ grant.level >= LevelOf[r.action] /\ r.amount <= grant.remaining

forDelegate(r) ==
    IF LevelOf[r.action] < LevelHuman /\ Covers(r.grant, r) THEN "allow" ELSE "deny"

evaluate(r) ==
    IF r.action \notin DOMAIN LevelOf THEN "deny"
    ELSE IF r.kind = "holder" THEN forHolder(r) ELSE forDelegate(r)

record(r, outcome) == decisions \cup {[operation |-> r.operation, by |-> r.by, outcome |-> outcome]}

(* Decide and Confirmed end in the record, or in an error that stops their    *)
(* caller with the record written or not.                                     *)
Decide(r, got) ==
    \/ got = evaluate(r) /\ decisions' = record(r, got)
    \/ got = "error"     /\ decisions' \in {decisions, record(r, evaluate(r))}

Confirmed(r, ok, got) ==
    LET after == record(r, IF ok THEN "confirmed" ELSE "rejected") IN
    \/ got = "ok"    /\ decisions' = after
    \/ got = "error" /\ decisions' \in {decisions, after}

(* A row more in a table, unless its key is taken (ON CONFLICT DO NOTHING).   *)
Insert(table, key, row) ==
    [k \in DOMAIN table \cup {key} |-> IF k \in DOMAIN table THEN table[k] ELSE row]

(* Its callers go on whether it was written or not.                           *)
Executed(t, by) ==
    executions' \in {executions, Insert(executions, t, by)}

Remember(account) == payees' \in {payees, payees \cup {account}}

-----------------------------------------------------------------------------
(* authorizeOperation of services/bff, for a session of a phone: go on,       *)
(* confirm -- the request carries the confirmation asked for earlier -- or    *)
(* stop, with a challenge to be answered if one could be issued.              *)
authorizeOperation(r, next) ==
    \E got \in {"allow", "deny", "confirm", "error"} :
        /\ Decide(r, got)
        /\ \/ got = "allow"   /\ next = "go"   /\ UNCHANGED challenges
           \/ got = "confirm" /\ next = "stop"
                              /\ challenges' \in {challenges, challenges \cup {r.operation}}
           \/ got = "confirm" /\ next = "confirm" /\ r.operation \in challenges
                              /\ UNCHANGED challenges
           \/ got \in {"deny", "error"} /\ next = "stop" /\ UNCHANGED challenges

(* Slip: it goes on though the confirmation could not be written down.       *)
verifyAndGoOn(r, next) ==
    /\ challenges' = challenges \ {r.operation}
    /\ \E right \in BOOLEAN, got \in {"ok", "error"} :
          LET ok == right /\ r.operation \in challenges IN
          Confirmed(r, ok, got) /\ next = IF ok THEN "go" ELSE "stop"

(* verifyConfirmation: the challenge is used up whether the answer is right   *)
(* or not, and the operation waits for the record of it.                      *)
verifyConfirmation(r, next) ==
    /\ challenges' = challenges \ {r.operation}
    /\ \E right \in BOOLEAN, got \in {"ok", "error"} :
          LET ok == right /\ r.operation \in challenges IN
          /\ Confirmed(r, ok, got)
          /\ next = IF ok /\ got = "ok" THEN "go" ELSE "stop"

(* A handler asks the layer for r, and goes on to its next step if it may.    *)
Ask(h, r, then) ==
    \E next \in {"go", "confirm", "stop"} :
        /\ \/ At(h, "authorize") /\ authorizeOperation(r, next)
           \/ At(h, "confirm") /\ verifyConfirmation(r, next)
        /\ CASE next = "go"      -> Goto(h, [call[h] EXCEPT !.at = then])
             [] next = "confirm" -> Goto(h, [call[h] EXCEPT !.at = "confirm"])
             [] next = "stop"    -> Return(h)

Decided(operation, by, outcomes) ==
    \E d \in decisions : d.operation = operation /\ d.by = by /\ d.outcome \in outcomes
=============================================================================
