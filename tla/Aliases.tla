------------------------------ MODULE Aliases ------------------------------
(* The directory of phones, services/aliases: to whose account goes what is   *)
(* sent to a number.  Each operation is one transaction, and a verification's *)
(* row is locked while its code is compared.                                  *)
EXTENDS Control, Sequences

CONSTANTS
    Customers,       \* customers of the bank
    Phones,          \* numbers
    Verifications,   \* codes that are sent
    MaxAttempts      \* maxAttempts

ASSUME AliasesAssumption == "none" \notin Phones /\ MaxAttempts \in Nat

VARIABLES
    aliases,         \* identity.phone_aliases: phone -> customer
    verifications,   \* identity.phone_verifications
    claims           \* who proved or let go of what, in order

aliasVars == <<aliases, verifications, claims>>

NoVerification == [customer |-> "none"]

InitAliases ==
    aliases = << >> /\ verifications = [v \in Verifications |-> NoVerification] /\ claims = << >>

StartVerification(v, c, f) ==
    /\ Serve /\ verifications[v] = NoVerification
    /\ verifications' = [verifications EXCEPT ![v] =
           [customer |-> c, phone |-> f, attempts |-> 0, consumed |-> FALSE, late |-> FALSE]]
    /\ UNCHANGED <<aliases, claims>>

ExpireVerification(v) ==
    /\ verifications[v] # NoVerification /\ ~verifications[v].late
    /\ verifications' = [verifications EXCEPT ![v].late = TRUE]
    /\ UNCHANGED <<aliases, claims, handlerVars>>

(* Slip: a number that is taken stays where it was.                          *)
registerIfFree(c, f) ==
    LET others == [g \in {g \in DOMAIN aliases : aliases[g] # c} |-> aliases[g]] IN
    /\ aliases' = others @@ (f :> c)
    /\ claims' = Append(claims, [phone |-> f, customer |-> c])

(* register: the customer's other numbers go, and the number goes to them.    *)
register(c, f) ==
    /\ aliases' = [g \in {f} \cup {g \in DOMAIN aliases : aliases[g] # c} |->
                      IF g = f THEN c ELSE aliases[g]]
    /\ claims' = Append(claims, [phone |-> f, customer |-> c])

Verifiable(v) == /\ verifications[v] # NoVerification /\ ~verifications[v].late
                 /\ ~verifications[v].consumed /\ verifications[v].attempts < MaxAttempts

VerifyRight(v) ==
    /\ Serve /\ Verifiable(v)
    /\ verifications' = [verifications EXCEPT ![v].consumed = TRUE]
    /\ register(verifications[v].customer, verifications[v].phone)

VerifyWrong(v) ==
    /\ Verifiable(v)
    /\ verifications' = [verifications EXCEPT ![v].attempts = @ + 1]
    /\ UNCHANGED <<aliases, claims, handlerVars>>

(* The sandbox's test payee, which was seen to have none.                     *)
RegisterVerified(c, f) ==
    /\ Serve /\ register(c, f)
    /\ UNCHANGED verifications

Remove(c) ==
    /\ Serve /\ \E f \in DOMAIN aliases : aliases[f] = c
    /\ aliases' = [f \in {f \in DOMAIN aliases : aliases[f] # c} |-> aliases[f]]
    /\ claims' = Append(claims, [phone |-> "none", customer |-> c])
    /\ UNCHANGED verifications

NextAliases ==
    \/ \E v \in Verifications : \/ \E c \in Customers, f \in Phones : StartVerification(v, c, f)
                                \/ ExpireVerification(v) \/ VerifyRight(v) \/ VerifyWrong(v)
    \/ \E c \in Customers : Remove(c) \/ \E f \in Phones : RegisterVerified(c, f)

-----------------------------------------------------------------------------
(* A number leads to the customer who last proved it, unless they have proved *)
(* another or removed it since, and then to nobody; and no code stood for      *)
(* more wrong guesses than the limit (register, Verify, Remove).               *)
Stands(i) ==
    /\ claims[i].phone \in Phones
    /\ \A j \in i + 1..Len(claims) :
          claims[j].phone # claims[i].phone /\ claims[j].customer # claims[i].customer

AliasesFollowProofs ==
    /\ {[phone |-> f, customer |-> aliases[f]] : f \in DOMAIN aliases}
          = {claims[i] : i \in {i \in DOMAIN claims : Stands(i)}}
    /\ \A v \in Verifications : verifications[v] # NoVerification => verifications[v].attempts <= MaxAttempts
=============================================================================
