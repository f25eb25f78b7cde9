---------------------------- MODULE PaymentCalls ----------------------------
(* A payment once it is authorized, as an integration carries it on over HTTP *)
(* (services/mercatus/handlers.go): captures, refunds and questions, each of  *)
(* which reads the authorization before it asks the core to change it.  Who   *)
(* gets no answer asks again, for the same payment and the same amount.       *)
EXTENDS Authorizations

CONSTANTS
    Calls,      \* what integrations want done
    Own,        \* the accounts of the integration that calls
    MaxRetries  \* bound on the repetitions of one call

VARIABLE call

callVars == <<posted, balance, closed, auth, now, call>>

Idle == [at |-> "idle", op |-> "get", key |-> CHOOSE k \in Keys : TRUE, want |-> 0,
         before |-> 0, moved |-> 0, retries |-> 0, answer |-> "none", said |-> << >>]

CallsInit == call = [c \in Calls |-> Idle]

Goes(c, from, to) == call[c].at = from /\ call' = [call EXCEPT ![c] = to] /\ UNCHANGED authVars

\* No amount, or 0, is for all that is left.
Ask(c, op, k, x) ==
    /\ op = "refund" \/ x = 0
    /\ Goes(c, "idle", [Idle EXCEPT !.at = "asked", !.op = op, !.key = k, !.want = x])

(* resolveOwnedAuthorization: a payment between others is as good as none.    *)
Owned(k) == Exists(k) /\ {auth[k].payer, auth[k].payee} \cap Own # {}

Resolve(c) ==
    LET k == call[c].key IN
    Goes(c, "asked", IF Owned(k)
                     THEN [call[c] EXCEPT !.at = "resolved", !.before = auth[k].refunded]
                     ELSE [call[c] EXCEPT !.at = "answered", !.answer = "authorization_not_found"])

(* The core changes the payment or does not, and the answer arrives or not.   *)
Answered(c, answer, said) ==
    [call[c] EXCEPT !.at = "answered", !.answer = answer, !.said = said]

Concludes(c, op, answer, said) ==
    /\ call[c].at = "resolved" /\ call[c].op = op
    /\ call' \in {[call EXCEPT ![c] = Answered(c, answer, said)],
                  [call EXCEPT ![c] = Answered(c, "none", << >>)]}

(* handleCapture: done, done already, too late, or refused by the ledger.     *)
handleCapture(c) ==
    LET k == call[c].key IN
    \/ Capture(k) /\ Concludes(c, "capture", "ok", << >>)
    \/ /\ UNCHANGED authVars
       /\ \/ auth[k].status \in Captured /\ Concludes(c, "capture", "ok", << >>)
          \/ auth[k].status = "RELEASED" /\ Concludes(c, "capture", "not_capturable", << >>)
          \/ Expired(k) /\ Concludes(c, "capture", "authorization_expired", << >>)
          \/ /\ auth[k].status = "AUTHORIZED" /\ ~Expired(k) /\ ~CanPost(CaptureOf(k))
             /\ Concludes(c, "capture", "rejected", << >>)

Amount(c) == IF call[c].want = 0 THEN Refundable(call[c].key) ELSE call[c].want

\* What this refund gave back, as told, is what is given back now and was not
\* when the payment was read; then all that was given back, and what is left.
Refunded(c, x) ==
    LET a == auth[call[c].key] IN
    <<a.refunded + x - call[c].before, a.refunded + x, a.amount - (a.refunded + x)>>

(* handleRefund: money moves, all of it had been given back, there is nothing *)
(* to give back, or not so much.                                              *)
handleRefund(c) ==
    LET k == call[c].key
        x == Amount(c)
    IN
    /\ call[c].op = "refund" /\ call[c].at = "resolved"
    /\ \/ /\ Refund(k, x)
          /\ \E reply \in {Answered(c, "ok", Refunded(c, x)), Answered(c, "none", << >>)} :
                call' = [call EXCEPT ![c] = [reply EXCEPT !.moved = @ + x]]
       \/ /\ UNCHANGED authVars
          /\ \/ auth[k].status = "REFUNDED" /\ Concludes(c, "refund", "ok", Refunded(c, 0))
             \/ /\ auth[k].status \in {"AUTHORIZED", "RELEASED"}
                /\ Concludes(c, "refund", "nothing_to_refund", << >>)
             \/ /\ auth[k].status \in {"CAPTURED", "PARTIALLY_REFUNDED"} /\ x > Refundable(k)
                /\ Concludes(c, "refund", "refund_exceeds_capture", << >>)
             \/ /\ auth[k].status \in {"CAPTURED", "PARTIALLY_REFUNDED"} /\ x <= Refundable(k)
                /\ ~CanPost(RefundOf(k, x)) /\ Concludes(c, "refund", "rejected", << >>)

(* statusName of what was resolved, which is expired as soon as it is late.   *)
Observed(k) == IF Expired(k) THEN "EXPIRED" ELSE auth[k].status

(* handleGet, to which the seller may say what they expect to find.           *)
handleGet(c) ==
    LET k == call[c].key IN
    /\ call[c].at = "asked" /\ call[c].op = "get" /\ Owned(k)
    /\ \/ Goes(c, "asked", Answered(c, "ok", <<Observed(k), auth[k].payee>>))
       \/ Goes(c, "asked", Answered(c, "mismatch", << >>))

(* No answer came, and the integration asks again.                            *)
Retry(c) ==
    /\ call[c].answer = "none" /\ call[c].retries < MaxRetries
    /\ Goes(c, "answered", [call[c] EXCEPT !.at = "asked", !.retries = @ + 1])

NextCall(c) ==
    \/ \E op \in {"capture", "refund", "get"}, k \in Keys : \E x \in 0 .. auth[k].amount : Ask(c, op, k, x)
    \/ call[c].op # "get" /\ Resolve(c)
    \/ handleCapture(c) \/ handleRefund(c) \/ handleGet(c) \/ Retry(c)

(* The calls beside everything else that happens to the payments.             *)
CallsNext == (AuthNext /\ UNCHANGED call) \/ \E c \in Calls : NextCall(c)

CallsSpec == Init /\ CallsInit /\ [][CallsNext]_callVars

-----------------------------------------------------------------------------
(* An integration can act on what it was told, whoever else captures, refunds *)
(* or sweeps: told it was captured, the money is the shop's; told it was too  *)
(* late, it never will be; told how much was given back, no less was by this  *)
(* call, and what is said to be left is all there is left.                    *)
AnswersStand ==
    \A c \in Calls : LET k == call[c].key IN
        call[c].at = "answered" =>
            /\ call[c].op = "capture" /\ call[c].answer = "ok" => Has("authorization_capture", k)
            /\ call[c].answer \in {"not_capturable", "authorization_expired"} =>
                  ~Has("authorization_capture", k)
            /\ call[c].op = "refund" /\ call[c].answer = "ok" =>
                  /\ call[c].said[2] + call[c].said[3] = auth[k].amount
                  /\ call[c].said[2] <= auth[k].refunded
                  /\ call[c].retries = 0 => call[c].said[1] >= call[c].moved

(* Repeating one refund moves its amount once: "capture y refund son          *)
(* idempotentes por naturaleza" (contracts/openapi/mercatus-v1.yaml:114).     *)
RefundMovesOnce ==
    \A c \in Calls : call[c].want > 0 => call[c].moved <= call[c].want
=============================================================================
