------------------------------ MODULE Consents ------------------------------
(* How a permission comes to be: the platform asks (services/mercatus), the   *)
(* customer answers in the app (services/bff), the request is a row of        *)
(* services/oauth and the mandate one of the core.  No transaction spans the  *)
(* two, and a handler may die between any two of its calls.  The customer's   *)
(* session is that of a phone, and the control layer is configured.           *)
EXTENDS Agents, Control

CONSTANTS
    Consents,    \* requests the platform makes
    Mandates,    \* mandates the core can grant
    Limits,      \* limits that are asked for and granted
    NoLimit      \* a limit left out

ASSUME ConsentsAssumption == Limits \subseteq Nat /\ NoLimit \notin Limits

VARIABLES
    consents,    \* oauth.consent_requests
    mandates,    \* mandates of the core
    told,        \* mandates the platform has heard of
    lost         \* mandates whose grant nobody carried to an end

consentVars == <<consents, mandates, told, lost>>

NoConsent == [status |-> "none"]
NoMandate == [status |-> "none"]

InitConsents ==
    /\ consents = [c \in Consents |-> NoConsent] /\ mandates = [m \in Mandates |-> NoMandate]
    /\ told = {} /\ lost = {}

ObservedStatus(c) == IF consents[c].status = "PENDING" /\ consents[c].late THEN "EXPIRED"
                     ELSE consents[c].status

(* Slip: a limit left out is within any limit.                               *)
exceedsIfGiven(granted, requested) ==
    requested # NoLimit /\ granted # NoLimit /\ granted > requested

exceeds(granted, requested) ==
    requested # NoLimit /\ (granted = NoLimit \/ granted > requested)

CheckGrantable(c, limit) == ObservedStatus(c) = "PENDING" /\ ~exceeds(limit, consents[c].limit)

-----------------------------------------------------------------------------
(* The platform asks for an agent it has just looked up, and later asks what  *)
(* came of it; an hour passes.                                                *)
handleCreateConsentRequest(h, a, limit) ==
    /\ a \in known \ revoked
    /\ Start(h, [at |-> "new", agent |-> a, limit |-> limit])
    /\ UNCHANGED <<consentVars, controlVars, agentVars>>

NewConsentRequest(h, c) ==
    /\ call[h].at = "new" /\ consents[c] = NoConsent
    /\ consents' = [consents EXCEPT ![c] =
           [status |-> "PENDING", late |-> FALSE, agent |-> call[h].agent, limit |-> call[h].limit,
            mandate |-> NoMandate]]
    /\ Return(h)
    /\ UNCHANGED <<mandates, told, lost, controlVars, agentVars>>

Pass(c) ==
    /\ consents[c].status = "PENDING" /\ ~consents[c].late
    /\ consents' = [consents EXCEPT ![c].late = TRUE]
    /\ UNCHANGED <<mandates, told, lost, handlerVars, controlVars, agentVars>>

handleGetConsentRequest(c) ==
    /\ ObservedStatus(c) = "APPROVED"
    /\ told' = told \cup {consents[c].mandate}
    /\ UNCHANGED <<consents, mandates, lost, handlerVars, controlVars, agentVars>>

-----------------------------------------------------------------------------
(* handleApproveConsent reads the request once, at its beginning.             *)
handleApproveConsent(h, c, limit) ==
    /\ CheckGrantable(c, limit)
    /\ Start(h, [at |-> "authorize", consent |-> c, limit |-> limit, mandate |-> NoMandate])
    /\ UNCHANGED <<consentVars, controlVars, agentVars>>

grantOperation(t) ==
    [kind |-> "holder", by |-> You, action |-> "grant_permission", amount |-> 0,
     to |-> "platform", operation |-> <<"grant", t.consent, t.limit>>, grant |-> NoGrant]

AuthorizeGrant(h) ==
    /\ call[h].at \in {"authorize", "confirm"}
    /\ Ask(h, grantOperation(call[h]), "grant")
    /\ UNCHANGED <<consentVars, executions, payees, agentVars>>

(* core.GrantMandate: granted, or granted and the answer lost, or neither.    *)
GrantMandate(h, m) ==
    LET t == call[h] IN
    /\ t.at = "grant"
    /\ \/ /\ mandates[m] = NoMandate
          /\ mandates' = [mandates EXCEPT ![m] = [status |-> "active", consent |-> t.consent,
                                                  limit |-> t.limit]]
          /\ \/ Goto(h, [t EXCEPT !.at = "approve", !.mandate = m]) /\ UNCHANGED lost
             \/ Return(h) /\ lost' = lost \cup {m}
       \/ Return(h) /\ UNCHANGED <<mandates, lost>>
    /\ UNCHANGED <<consents, told, controlVars, agentVars>>

(* Slip: who comes second leaves without undoing the mandate.                *)
ApproveOrLeave(h) ==
    LET t == call[h]
        pending == consents[t.consent].status = "PENDING"
    IN
    /\ t.at = "approve"
    /\ consents' = [consents EXCEPT ![t.consent] =
                       IF pending THEN [@ EXCEPT !.status = "APPROVED", !.mandate = t.mandate] ELSE @]
    /\ Return(h)
    /\ UNCHANGED <<mandates, told, lost, controlVars, agentVars>>

(* The request is still PENDING or the mandate goes, also when the answer of  *)
(* the update is all that was lost.                                           *)
ApproveConsentRequest(h) ==
    LET t == call[h]
        pending == consents[t.consent].status = "PENDING"
        approved == [consents EXCEPT ![t.consent] =
                        IF pending THEN [@ EXCEPT !.status = "APPROVED", !.mandate = t.mandate]
                        ELSE @]
    IN
    /\ t.at = "approve"
    /\ \/ consents' = approved /\ IF pending THEN Return(h) ELSE Goto(h, [t EXCEPT !.at = "undo"])
       \/ consents' \in {consents, approved} /\ Goto(h, [t EXCEPT !.at = "undo"])
    /\ UNCHANGED <<mandates, told, lost, controlVars, agentVars>>

Revoked(m) == [mandates EXCEPT ![m].status = "revoked"]

(* RevokeMandate(mandate, "rollback"), whose failure is only logged.          *)
RollbackMandate(h) ==
    LET m == call[h].mandate IN
    /\ call[h].at = "undo"
    /\ \/ mandates' = Revoked(m) /\ UNCHANGED lost
       \/ UNCHANGED mandates /\ lost' = lost \cup {m}
    /\ Return(h)
    /\ UNCHANGED <<consents, told, controlVars, agentVars>>

handleRejectConsent(c) ==
    /\ consents[c].status = "PENDING"
    /\ consents' = [consents EXCEPT ![c].status = "REJECTED"]
    /\ UNCHANGED <<mandates, told, lost, handlerVars, controlVars, agentVars>>

(* The customer sees every mandate of the core in the list, and can end it.   *)
handleRevokeMandate(m) ==
    /\ mandates[m].status = "active"
    /\ mandates' = Revoked(m)
    /\ UNCHANGED <<consents, told, lost, handlerVars, controlVars, agentVars>>

(* A handler dies where it stands.                                            *)
Crash(h) ==
    /\ call[h] # Idle /\ Return(h)
    /\ lost' = IF call[h].at \in {"approve", "undo"} THEN lost \cup {call[h].mandate} ELSE lost
    /\ UNCHANGED <<consents, mandates, told, controlVars, agentVars>>

NextConsents ==
    \/ \E h \in Calls, limit \in Limits \cup {NoLimit} :
          \/ \E a \in AgentIds : handleCreateConsentRequest(h, a, limit)
          \/ \E c \in Consents : handleApproveConsent(h, c, limit)
    \/ \E h \in Calls : \/ \E c \in Consents : NewConsentRequest(h, c)
                        \/ AuthorizeGrant(h)
                        \/ \E m \in Mandates : GrantMandate(h, m)
                        \/ ApproveConsentRequest(h) \/ RollbackMandate(h) \/ Crash(h)
    \/ \E c \in Consents : Pass(c) \/ handleGetConsentRequest(c) \/ handleRejectConsent(c)
    \/ \E m \in Mandates : handleRevokeMandate(m)

-----------------------------------------------------------------------------
(* A request gives life to one permission: every active mandate is the one    *)
(* its request was approved with, or its handler is still at work, or it was  *)
(* lost with its handler (bff/consent.go:196, the mandate that is undone).    *)
LiveMandatesAccountedFor ==
    \A m \in Mandates : mandates[m].status = "active" =>
        LET c == mandates[m].consent IN
        \/ consents[c].status = "APPROVED" /\ consents[c].mandate = m
        \/ \E h \in Calls : call[h].at \in {"approve", "undo"} /\ call[h].mandate = m
        \/ m \in lost

Within(granted, requested) ==
    requested # NoLimit => granted \in Limits /\ granted <= requested

(* A mandate, however many requests raced for it, is within what was asked,   *)
(* and the customer confirmed those very terms with the phone (CheckGrantable, *)
(* authorizeOperation, GrantMandate).                                         *)
GrantedAsConfirmed ==
    \A m \in Mandates : mandates[m] # NoMandate =>
        /\ Within(mandates[m].limit, consents[mandates[m].consent].limit)
        /\ Decided(<<"grant", mandates[m].consent, mandates[m].limit>>, You, {"confirmed"})
=============================================================================
