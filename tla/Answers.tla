------------------------------ MODULE Answers ------------------------------
(* What becomes of an error of the core on its way to whoever asked: a status *)
(* and a reason over gRPC (core/src/grpc.rs), an error value in the client    *)
(* (clients/go/coreclient) and a status over HTTP (services/mercatus and      *)
(* services/bff).  Three vocabularies of reasons travel under one key.        *)
EXTENDS Naturals

(* to_status, auth_to_status and mandate_to_status: each error of the core    *)
(* with its code and its reason.  "Unspecified" is a reason no table has.     *)
PostingErrors ==
    {<<"InvalidArgument", "Invalid">>, <<"Aborted", "IdempotencyConflict">>,
     <<"AlreadyExists", "AlreadyExists">>, <<"Unavailable", "Unspecified">>}
    \cup {"FailedPrecondition"} \X
         {"InsufficientFunds", "BalanceCapExceeded", "TransactionCapExceeded",
          "CreditLimitExceeded", "CreditLineInactive", "Overpayment"}

AuthorizationErrors ==
    {<<"InvalidArgument", "CurrencyMismatch">>, <<"InvalidArgument", "Invalid">>,
     <<"Aborted", "IdempotencyConflict">>, <<"NotFound", "AuthorizationNotFound">>,
     <<"NotFound", "AccountNotFound">>, <<"Internal", "Unspecified">>}
    \cup {"FailedPrecondition"} \X
         {"AccountNotOperative", "AuthorizationExpired", "InvalidState"}
    \cup PostingErrors

MandateErrors ==
    {<<"NotFound", "MandateNotFound">>, <<"FailedPrecondition", "MandateLimitExceeded">>}
    \cup {"PermissionDenied"} \X {"MandateRevoked", "MandateExpired", "MandateAccountNotCovered"}
    \cup AuthorizationErrors

(* What the transport says when the answer does not arrive.                   *)
Lost == {"Unavailable", "DeadlineExceeded", "Canceled"} \X {"Unspecified"}

-----------------------------------------------------------------------------
(* The client: the reason if the vocabulary at hand has it, the code if not.  *)
(* An error is named by its reason; sentinelForCode has names of its own.     *)
PostingReasons       == {e[2] : e \in PostingErrors} \ {"Unspecified"}
AuthorizationReasons == {e[2] : e \in AuthorizationErrors} \ {"Unspecified"}
MandateReasons       == {e[2] : e \in MandateErrors} \ {"Unspecified"}

(* Slip: what is not known is taken for a refusal.                           *)
sentinelOrInvalid(code) ==
    CASE code = "NotFound"      -> "NotFound"
      [] code = "Aborted"       -> "IdempotencyConflict"
      [] code = "AlreadyExists" -> "AlreadyExists"
      [] OTHER                  -> "Invalid"

sentinelForCode(code) ==
    CASE code = "NotFound"      -> "NotFound"
      [] code = "Aborted"       -> "IdempotencyConflict"
      [] code = "AlreadyExists" -> "AlreadyExists"
      [] code \in {"InvalidArgument", "FailedPrecondition"} -> "Invalid"
      [] OTHER                  -> "Unavailable"

Sentinel(e, reasons) == IF e[2] \in reasons THEN e[2] ELSE sentinelForCode(e[1])
translate(e)              == Sentinel(e, PostingReasons)
translateAuthorization(e) == Sentinel(e, AuthorizationReasons)
translateMandate(e)       == Sentinel(e, MandateReasons)

Retryable(error) == error = "Unavailable"

-----------------------------------------------------------------------------
(* The statuses of Mercatus and of the app's channel.                         *)
coreError(error) ==
    CASE error = "InsufficientFunds" -> 402
      [] error = "AccountNotOperative" -> 403
      [] error \in {"AccountNotFound", "AuthorizationNotFound"} -> 404
      [] error \in {"AuthorizationExpired", "IdempotencyConflict", "InvalidState"} -> 409
      [] error \in {"CurrencyMismatch", "BalanceCapExceeded", "TransactionCapExceeded"} -> 422
      [] error = "Invalid" -> 400
      [] error = "Unavailable" -> 503
      [] OTHER -> 500

mandateError(error) ==
    CASE error = "MandateNotFound" -> 404
      [] error \in {"MandateRevoked", "MandateExpired", "MandateAccountNotCovered"} -> 403
      [] error = "MandateLimitExceeded" -> 422
      [] OTHER -> coreError(error)

writeCoreError(error) ==
    CASE error = "NotFound" -> 404
      [] error \in {"InsufficientFunds", "BalanceCapExceeded", "TransactionCapExceeded",
                    "CreditLimitExceeded", "CreditLineInactive", "Overpayment"} -> 422
      [] error = "IdempotencyConflict" -> 409
      [] error = "Invalid" -> 400
      [] OTHER -> 503

(* Who asks, what the core may refuse, and what they are answered.            *)
Answered(e, channel) ==
    CASE channel = "mandate"       -> mandateError(translateMandate(e))
      [] channel = "authorization" -> coreError(translateAuthorization(e))
      [] channel = "posting"       -> writeCoreError(translate(e))

Errors == [mandate |-> MandateErrors, authorization |-> AuthorizationErrors, posting |-> PostingErrors]

(* Refusals that say the payment is not made and will not be, and the ones    *)
(* whose words the channel it came through does not have.                     *)
Refusals(channel) == {e \in Errors[channel] : e[2] # "Unspecified"}
Wordless(channel) == IF channel = "posting" THEN {"AlreadyExists"}
                  ELSE {"AlreadyExists", "CreditLimitExceeded", "CreditLineInactive", "Overpayment"}

(* Nobody is told that a payment was refused when it may have been made: an   *)
(* outcome nobody knows is answered as a failure of the bank, and is the only *)
(* one to be retried; a refusal is answered as the asker's, with one status   *)
(* for what the holder's money lacks and another for what the permission does *)
(* (translate, sentinelForTrailer, coreError, mandateError, writeCoreError).  *)
AnswersMatch ==
    \A channel \in DOMAIN Errors :
        /\ \A e \in Errors[channel] \cup Lost : e[2] = "Unspecified" => Answered(e, channel) >= 500
        /\ \A e \in Refusals(channel) : e[2] \notin Wordless(channel) => Answered(e, channel) < 500
        /\ \A e \in Errors[channel] : Answered(e, channel) = 503 /\ e[2] \notin Wordless(channel)
               => Retryable(translateMandate(e))
        /\ \A e, f \in Refusals(channel) : e[2] = "InsufficientFunds" /\ f[2] = "MandateLimitExceeded"
               => Answered(e, channel) # Answered(f, channel)
=============================================================================
