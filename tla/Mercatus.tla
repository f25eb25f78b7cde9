------------------------------ MODULE Mercatus ------------------------------
(* The platform's side, services/mercatus: its agents open accounts of their  *)
(* own and pay, from those or under the permissions of Consents, with signed  *)
(* requests that carry an intent.  A payment is one call of the core between  *)
(* several of other stores, and the platform repeats it when it is not        *)
(* answered.  The core holds the money (Mandates is about it); here it says   *)
(* yes once to a key, and under a mandate only while that is in force.        *)
EXTENDS Consents, Answers

CONSTANTS
    PayKeys,   \* idempotency keys of payments
    Refs       \* owner references of sub-accounts

\* A payment names a mandate or an account, each in a field of its own.
ASSUME MercatusAssumption == Refs \cap Mandates = {}

VARIABLES
    paid,      \* authorizations of the core: key -> [mandate, payer, signer of the first call]
    intents,   \* agents.payment_intents: key -> agent
    answered,  \* keys whose payment was answered with success
    opened,    \* accounts of the core, by the code made of the reference
    linked,    \* oauth.client_accounts
    funded,    \* accounts with their initial balance
    bound,     \* agents.accounts: reference -> agent
    owners     \* [ref, agent] openings answered with success

payVars  == <<paid, intents, answered>>
openVars == <<opened, linked, funded, bound, owners>>
vars     == <<agentVars, controlVars, consentVars, handlerVars, payVars, openVars>>

Init ==
    /\ InitAgents /\ InitControl /\ InitHandlers /\ InitConsents
    /\ paid = << >> /\ intents = << >> /\ answered = {}
    /\ opened = {} /\ linked = {} /\ funded = {} /\ bound = << >> /\ owners = {}

-----------------------------------------------------------------------------
(* Signed now, with a key in force of an agent of the platform that is.       *)
verifyAgentSignature(k) == Verify(k, now)

handleAuthorize(h, k, n, payer) ==
    /\ verifyAgentSignature(k)
    /\ Start(h, [at |-> "resolve", signer |-> keys[k].agent, key |-> n, payer |-> payer, usable |-> FALSE])
    /\ UNCHANGED <<agentVars, controlVars, consentVars, payVars, openVars>>

(* resolveMandate reads the mandate, which must be the platform's and one it  *)
(* knows of; resolveOwnedAccount asks for an account that is linked.          *)
resolveMandate(h) ==
    LET t == call[h] IN
    /\ t.at = "resolve"
    /\ \/ t.payer \in told /\ Goto(h, [t EXCEPT !.at = "scope", !.usable = mandates[t.payer].status = "active"])
       \/ t.payer \in linked /\ Goto(h, [t EXCEPT !.at = "scope"])
       \/ t.payer \notin told \cup linked /\ Return(h)
    /\ UNCHANGED <<agentVars, controlVars, consentVars, payVars, openVars>>

(* Slip: the consent of a mandate is not found.                              *)
NoConsentForMandate(m) == {}

(* checkAgentScope: the agent of the consent the mandate came from, if any    *)
(* did; or the one the paying account is bound to.                            *)
ConsentForMandate(m) == {c \in Consents : consents[c].status = "APPROVED" /\ consents[c].mandate = m}

checkAgentScope(h) ==
    LET t == call[h] IN
    /\ t.at = "scope"
    /\ IF t.payer \in Mandates
       THEN IF \A c \in ConsentForMandate(t.payer) : consents[c].agent = t.signer
            THEN Goto(h, [t EXCEPT !.at = "decide"]) ELSE Return(h)
       ELSE IF t.payer \in DOMAIN bound /\ bound[t.payer] = t.signer
            THEN Goto(h, [t EXCEPT !.at = "pay"]) ELSE Return(h)
    /\ UNCHANGED <<agentVars, controlVars, consentVars, payVars, openVars>>

(* decideMandatePayment judges by the mandate as it was read.                 *)
decideMandatePayment(h) ==
    LET t == call[h]
        r == [kind |-> "agent", by |-> t.signer, action |-> "mandate_payment", amount |-> 1,
              to |-> "shop", operation |-> <<"pay", t.key, t.payer>>,
              grant |-> [revoked |-> ~t.usable, level |-> 3, actions |-> {"mandate_payment"},
                         remaining |-> 1]]
    IN
    /\ t.at = "decide"
    /\ \E got \in {"allow", "deny", "error"} :
          Decide(r, got) /\ IF got = "allow" THEN Goto(h, [t EXCEPT !.at = "pay"]) ELSE Return(h)
    /\ UNCHANGED <<agentVars, executions, payees, challenges, consentVars, payVars, openVars>>

(* The core: the authorization of the key if its content is the same -- the   *)
(* mandate is not part of it --, a new one, or a refusal.                     *)
PayerOf(p) == IF p \in Mandates THEN "customer" ELSE p
CoreReply(t) ==
    IF t.key \in DOMAIN paid
    THEN IF PayerOf(paid[t.key].payer) = PayerOf(t.payer) THEN "replayed" ELSE "conflict"
    ELSE IF t.payer \in Mandates => mandates[t.payer].status = "active" THEN "created" ELSE "refused"
AfterPay(t) == IF CoreReply(t) = "created"
               THEN Insert(paid, t.key, [payer |-> t.payer, signer |-> t.signer]) ELSE paid

AuthorizeUnderMandate(h) ==
    LET t == call[h] IN
    /\ t.at = "pay"
    /\ \/ /\ paid' = AfterPay(t)
          /\ IF CoreReply(t) \in {"created", "replayed"}
             THEN Goto(h, [t EXCEPT !.at = "intent"]) ELSE Return(h)
       \/ paid' \in {paid, AfterPay(t)} /\ Return(h)
    /\ UNCHANGED <<agentVars, controlVars, consentVars, intents, answered, openVars>>

(* The payment is linked to its authorization, which may fail, and its intent *)
(* is written, or the answer is that the call be repeated.                    *)
RecordIntent(h) ==
    LET t == call[h]
        after == Insert(intents, t.key, t.signer)
    IN
    /\ t.at = "intent"
    /\ IF t.payer \in Mandates THEN Executed(t.key, t.signer) ELSE UNCHANGED executions
    /\ \/ intents' = after /\ answered' = answered \cup {[key |-> t.key, agent |-> t.signer]}
       \/ intents' \in {intents, after} /\ UNCHANGED answered
    /\ Return(h)
    /\ UNCHANGED <<agentVars, decisions, payees, challenges, consentVars, paid, openVars>>

-----------------------------------------------------------------------------
(* handleOpenAccount: what FindAccount finds is only bound; otherwise the     *)
(* account is opened under its code, or found under it, linked and funded.    *)
handleOpenAccount(h, r, a) ==
    /\ Start(h, [at |-> IF r \in linked THEN "bind" ELSE "open", ref |-> r, agent |-> a])
    /\ UNCHANGED <<agentVars, controlVars, consentVars, payVars, openVars>>

OpenCustomerAccount(h) ==
    LET t == call[h] IN
    /\ t.at = "open"
    /\ \/ opened' = opened \cup {t.ref} /\ Goto(h, [t EXCEPT !.at = "link"])
       \/ opened' \in {opened, opened \cup {t.ref}} /\ Return(h)
    /\ UNCHANGED <<agentVars, controlVars, consentVars, payVars, linked, funded, bound, owners>>

(* The reference is unique: of two that link it at once the second fails.     *)
LinkAccount(h) ==
    LET t == call[h] IN
    /\ t.at = "link"
    /\ \/ linked' = linked \cup {t.ref} /\ Goto(h, [t EXCEPT !.at = "fund"])
       \/ linked' \in {linked, linked \cup {t.ref}} /\ Return(h)
    /\ UNCHANGED <<agentVars, controlVars, consentVars, payVars, opened, funded, bound, owners>>

fundSandboxAccount(h) ==
    LET t == call[h] IN
    /\ t.at = "fund"
    /\ \/ funded' = funded \cup {t.ref} /\ Goto(h, [t EXCEPT !.at = "bind"])
       \/ funded' \in {funded, funded \cup {t.ref}} /\ Return(h)
    /\ UNCHANGED <<agentVars, controlVars, consentVars, payVars, opened, linked, bound, owners>>

(* Slip: the last agent takes the account.                                   *)
BoundToTheLast(r, a) == (r :> a) @@ bound

(* The first agent keeps the account.                                         *)
Bound(r, a) == Insert(bound, r, a)

bindAccountAgent(h) ==
    LET t == call[h] IN
    /\ t.at = "bind"
    /\ IF t.agent \in known \ revoked /\ Bound(t.ref, t.agent)[t.ref] = t.agent
       THEN /\ bound' = Bound(t.ref, t.agent)
            /\ owners' \in {owners, owners \cup {[ref |-> t.ref, agent |-> t.agent]}}
       ELSE UNCHANGED <<bound, owners>>
    /\ Return(h)
    /\ UNCHANGED <<agentVars, controlVars, consentVars, payVars, opened, linked, funded>>

-----------------------------------------------------------------------------
Elsewhere == UNCHANGED <<controlVars, consentVars, handlerVars>>

Next ==
    \/ NextConsents /\ UNCHANGED <<payVars, openVars>>
    \/ \E a \in AgentIds : \/ \E k \in Keys : Register(a, k) /\ Elsewhere /\ UNCHANGED <<payVars, openVars>>
                           \/ Revoke(a) /\ Elsewhere /\ UNCHANGED <<payVars, openVars>>
    \/ \E h \in Calls :
          \/ \E k \in Keys, n \in PayKeys, p \in Mandates \cup Refs : handleAuthorize(h, k, n, p)
          \/ resolveMandate(h) \/ checkAgentScope(h) \/ decideMandatePayment(h)
          \/ AuthorizeUnderMandate(h) \/ RecordIntent(h)
          \/ \E r \in Refs, a \in AgentIds : handleOpenAccount(h, r, a)
          \/ OpenCustomerAccount(h) \/ LinkAccount(h) \/ fundSandboxAccount(h) \/ bindAccountAgent(h)

Spec == Init /\ [][Next]_vars

-----------------------------------------------------------------------------
(* Money leaves under a permission only for the agent it was given to, at the *)
(* terms it was decided on, and leaves an agent's account only for the agent  *)
(* that has it (verifyAgentSignature, checkAgentScope, decideMandatePayment). *)
PaidByTheGrantedAgent ==
    \A n \in DOMAIN paid :
        LET p == paid[n].payer  a == paid[n].signer IN
        IF p \in Mandates
        THEN /\ consents[mandates[p].consent].agent = a
             /\ Decided(<<"pay", n, p>>, a, {"allow"})
        ELSE bound[p] = a

(* An answer is kept: who was told a payment was made finds the payment, and  *)
(* an intent under it; who was told an account is theirs finds it open,       *)
(* linked and bound to them, whoever else asked (RecordIntent, BindAccount).  *)
AnswersAreKept ==
    /\ \A x \in answered : x.key \in DOMAIN paid \cap DOMAIN intents
    /\ \A x \in owners : x.ref \in opened \cap linked /\ bound[x.ref] = x.agent

(* Of the answers of the core a client is told what they mean, and what they  *)
(* were told stays so (translate, coreError; RecordIntent, BindAccount).      *)
AnswersHold == AnswersMatch /\ AnswersAreKept
=============================================================================
