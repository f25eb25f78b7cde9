------------------------------ MODULE Identity ------------------------------
(* How a person gets into the app: services/devices, services/passkeys and    *)
(* services/sessions, with the handlers of the bff in front of them.  A       *)
(* handler is a few statements over three tables with nothing around them, so *)
(* it is modelled statement by statement, several at a time, and any of them  *)
(* may die between two.                                                       *)
EXTENDS Naturals, Sequences, FiniteSets, SequencesExt

CONSTANTS
    Customers, Devices, Credentials,
    Operations,       \* what a customer may be asked to sign
    MaxPINAttempts,
    MaxTickets,       \* bound: challenges and ceremonies issued
    MaxSessions,      \* bound: sessions opened
    Calls             \* requests running at once

ASSUME IdentityAssumption ==
    /\ MaxPINAttempts \in Nat \ {0} /\ MaxTickets \in Nat /\ MaxSessions \in Nat
    /\ Devices \cap Credentials = {} /\ IsFiniteSet(Devices) /\ IsFiniteSet(Calls)

VARIABLES
    devices,      \* identity.devices: device -> [owner, locked, revoked, fails]
    passkeys,     \* identity.passkeys: credential -> its owner
    tickets,      \* device_challenges and ceremonies, in the order issued
    sessions,     \* app_sessions, in the order opened
    enrollable,   \* customers approved within the enrolment window
    call,         \* [Calls -> the handler running and what it has read]
    accepted      \* [tickets -> how many times what it was issued for was done]

identityVars == <<devices, passkeys, tickets, sessions, enrollable, call, accepted>>
tables == <<devices, passkeys, tickets, sessions, enrollable, accepted>>

Idle == [at |-> "idle"]
NewDevice(who) == [owner |-> who, locked |-> FALSE, revoked |-> FALSE, fails |-> 0]
PhonesOf(who) == {d \in DOMAIN devices : devices[d].owner = who}
PasskeysOf(who) == {k \in DOMAIN passkeys : passkeys[k] = who}
list(who) == {d \in PhonesOf(who) : ~devices[d].revoked}

(* People who have just been approved, and people enrolled some time ago.     *)
InitIdentity ==
    /\ \E old \in SUBSET Customers, d \in Devices, k \in Credentials :
        /\ enrollable = Customers \ old
        /\ devices  = [x \in IF old = {} THEN {} ELSE {d} |-> NewDevice(CHOOSE who \in old : TRUE)]
        /\ passkeys = [x \in IF old = {} THEN {} ELSE {k} |-> CHOOSE who \in old : TRUE]
    /\ tickets = << >> /\ sessions = << >> /\ accepted = << >>
    /\ call = [c \in Calls |-> Idle]

Goto(c, next) == call' = [call EXCEPT ![c] = next]
Return(c)     == Goto(c, Idle)
At(c, step)   == call[c].at = step

-----------------------------------------------------------------------------
(* Sessions: Store.Open, Resolve, Revoke and RevokeDevice.                    *)
Open(who, factor, ref) ==
    /\ Len(sessions) < MaxSessions
    /\ sessions' = Append(sessions, [customer |-> who, factor |-> factor,
                                     ref |-> ref, live |-> TRUE])

Resolve(token) == token \in DOMAIN sessions /\ sessions[token].live

RevokeDevice(ref) ==
    sessions' = [t \in DOMAIN sessions |->
                    [sessions[t] EXCEPT !.live = @ /\ sessions[t].ref # ref]]

(* requireAuth with a SessionAuthenticator: who is asking.                    *)
Authenticated(who) == \E t \in DOMAIN sessions : Resolve(t) /\ sessions[t].customer = who

handleLogout(token) ==
    /\ Resolve(token)
    /\ sessions' = [sessions EXCEPT ![token].live = FALSE]
    /\ UNCHANGED <<devices, passkeys, tickets, enrollable, call, accepted>>

-----------------------------------------------------------------------------
(* Tickets: a challenge for one purpose, or a ceremony of one kind.           *)
Ticket(purpose, device, who, op) ==
    [purpose |-> purpose, device |-> device, customer |-> who, op |-> op, usable |-> TRUE]

IssueTicket(ticket) ==
    /\ Len(tickets) < MaxTickets
    /\ tickets' = Append(tickets, ticket) /\ accepted' = Append(accepted, 0)
    /\ UNCHANGED <<devices, passkeys, sessions, enrollable, call>>

(* consumeChallenge leaves a challenge of another purpose as it was;          *)
(* consumeCeremony spends it all the same.                                    *)
consumeChallenge(n, purpose) ==
    tickets' = IF tickets[n].usable /\ tickets[n].purpose = purpose
               THEN [tickets EXCEPT ![n].usable = FALSE] ELSE tickets

consumeCeremony(n) == tickets' = [tickets EXCEPT ![n].usable = FALSE]

(* Slip: a ticket that has been used is not noticed.                         *)
ConsumedAgain(n, purposes) == tickets[n].purpose \in purposes

Consumed(n, purposes) == tickets[n].usable /\ tickets[n].purpose \in purposes

IsChallenge(n) == tickets[n].purpose \in {"register", "login", "confirm"}

Lapse(n) ==
    /\ tickets[n].usable /\ tickets' = [tickets EXCEPT ![n].usable = FALSE]
    /\ UNCHANGED <<devices, passkeys, sessions, enrollable, call, accepted>>

Accept(n) == accepted' = [accepted EXCEPT ![n] = @ + 1]

(* Slip: a revoked phone is not told from the others.                        *)
usableForEver(d) == d \in DOMAIN devices /\ ~devices[d].locked

usable(d) == d \in DOMAIN devices /\ ~devices[d].revoked /\ ~devices[d].locked

BeginRegistration == IssueTicket(Ticket("register", "none", "none", "none"))
BeginLogin(d) == usable(d) /\ IssueTicket(Ticket("login", d, "none", "none"))
BeginConfirmation(d, op) == usable(d) /\ IssueTicket(Ticket("confirm", d, "none", op))

BeginEnrollment(who) ==
    /\ who \in enrollable /\ PasskeysOf(who) = {}
    /\ IssueTicket(Ticket("enrollment", "none", who, "none"))
BeginAddDevice(who) ==
    /\ Authenticated(who) /\ PasskeysOf(who) # {}
    /\ IssueTicket(Ticket("add_device", "none", who, "none"))
BeginPasskeyLogin == IssueTicket(Ticket("passkey_login", "none", "none", "none"))

-----------------------------------------------------------------------------
(* Linking a phone, with a session or with the reference of the onboarding.   *)
AddDevice(c, n, who) ==
    Authenticated(who) /\ Goto(c, [at |-> "register", ticket |-> n, who |-> who, first |-> FALSE])
EnrollWithReference(c, n, who) ==
    who \in enrollable /\ Goto(c, [at |-> "register", ticket |-> n, who |-> who, first |-> TRUE])

handleDeviceRegistration(c, n, who) ==
    /\ At(c, "idle") /\ IsChallenge(n)
    /\ \/ AddDevice(c, n, who) \/ EnrollWithReference(c, n, who)
    /\ UNCHANGED tables

(* The signatures may be those of the two keys, or not.                       *)
register(c) ==
    /\ At(c, "register")
    /\ consumeChallenge(call[c].ticket, "register")
    /\ \/ /\ Consumed(call[c].ticket, {"register"})
          /\ Goto(c, [call[c] EXCEPT !.at = "insert device"])
       \/ Return(c)
    /\ UNCHANGED <<devices, passkeys, sessions, enrollable, accepted>>

(* An INSERT ... WHERE NOT EXISTS looks at the committed rows when it starts  *)
(* and its own row is there for others when it ends.                          *)
InsertSees(c) ==
    /\ call[c].at \in {"insert device", "insert passkey"}
    /\ IF call[c].first /\ (IF At(c, "insert device") THEN PhonesOf(call[c].who)
                            ELSE PasskeysOf(call[c].who)) # {}
       THEN Return(c)
       ELSE Goto(c, [call[c] EXCEPT !.at = IF @ = "insert device" THEN "device row" ELSE "passkey row"])
    /\ UNCHANGED tables

insertDevice(c) ==
    /\ At(c, "device row")
    /\ \E d \in Devices \ DOMAIN devices :
        /\ devices' = [x \in DOMAIN devices \cup {d} |->
                           IF x = d THEN NewDevice(call[c].who) ELSE devices[x]]
        /\ Goto(c, [at |-> "open", who |-> call[c].who, factor |-> "device_biometric", ref |-> d])
    /\ Accept(call[c].ticket)
    /\ UNCHANGED <<passkeys, tickets, sessions, enrollable>>

-----------------------------------------------------------------------------
(* Entering with a phone, and confirming an operation with it.  The phone is  *)
(* read again after its challenge is consumed.                                *)
loginDevice(n) == Consumed(n, {"login"}) /\ usable(tickets[n].device)

ownDevice(who, d) == d \in PhonesOf(who)

(* The signature is the phone's, and its PIN is still to be looked at; or it  *)
(* is not, and the challenge is spent.                                        *)
Signed(c, n, method, then) ==
    Goto(c, [at |-> IF method = "pin" THEN "pin" ELSE "used", ticket |-> n,
             device |-> tickets[n].device, then |-> then, factor |-> method])

LoginWithBiometrics(c, n) == loginDevice(n) /\ Signed(c, n, "biometric", "open")
LoginWithPIN(c, n)        == loginDevice(n) /\ Signed(c, n, "pin", "open")

handleDeviceLogin(c, n) ==
    /\ At(c, "idle") /\ IsChallenge(n)
    /\ consumeChallenge(n, "login")
    /\ LoginWithBiometrics(c, n) \/ LoginWithPIN(c, n) \/ Return(c)
    /\ UNCHANGED <<devices, passkeys, sessions, enrollable, accepted>>

Confirm(c, who, d, n, op) ==
    /\ At(c, "idle") /\ IsChallenge(n)
    /\ consumeChallenge(n, "confirm")
    /\ \/ /\ Consumed(n, {"confirm"}) /\ tickets[n].device = d /\ tickets[n].op = op
          /\ ownDevice(who, d) /\ usable(d)
          /\ \E method \in {"biometric", "pin"} : Signed(c, n, method, "confirmed")
       \/ Return(c)
    /\ UNCHANGED <<devices, passkeys, sessions, enrollable, accepted>>

(* Slip: the lock falls one guess too late.                                  *)
failPINLate(d) ==
    devices' = [devices EXCEPT ![d].fails = @ + 1,
                               ![d].locked = @ \/ devices[d].fails + 1 > MaxPINAttempts]

(* failPIN: the count goes up and, at the limit, the lock falls.              *)
failPIN(d) ==
    devices' = [devices EXCEPT ![d].fails = @ + 1,
                               ![d].locked = @ \/ devices[d].fails + 1 >= MaxPINAttempts]

checkPIN(c) ==
    /\ At(c, "pin")
    /\ \/ Goto(c, [call[c] EXCEPT !.at = "used"]) /\ UNCHANGED devices
       \/ failPIN(call[c].device) /\ Return(c)
    /\ UNCHANGED <<passkeys, tickets, sessions, enrollable, accepted>>

markUsed(c) ==
    LET d == call[c].device IN
    /\ At(c, "used")
    /\ devices' = [devices EXCEPT ![d].fails = 0]
    /\ Accept(call[c].ticket)
    /\ IF call[c].then = "confirmed" THEN Return(c)
       ELSE Goto(c, [at |-> "open", who |-> devices[d].owner, factor |-> call[c].factor, ref |-> d])
    /\ UNCHANGED <<passkeys, tickets, sessions, enrollable>>

OpenSession(c) ==
    /\ At(c, "open")
    /\ Open(call[c].who, call[c].factor, call[c].ref)
    /\ Return(c)
    /\ UNCHANGED <<devices, passkeys, tickets, enrollable, accepted>>

-----------------------------------------------------------------------------
(* Passkeys.                                                                  *)
FinishRegistration(c, n) ==
    /\ At(c, "idle") /\ ~IsChallenge(n)
    /\ consumeCeremony(n)
    /\ \/ /\ Consumed(n, {"enrollment", "add_device"})
          /\ Goto(c, [at |-> "insert passkey", ticket |-> n, who |-> tickets[n].customer,
                      first |-> tickets[n].purpose = "enrollment"])
       \/ Return(c)
    /\ UNCHANGED <<devices, passkeys, sessions, enrollable, accepted>>

(* ON CONFLICT (credential_id) DO NOTHING: a known credential is refused.     *)
insertPasskey(c) ==
    /\ At(c, "passkey row")
    /\ \E k \in Credentials :
        IF k \in DOMAIN passkeys THEN Return(c) /\ UNCHANGED <<passkeys, accepted>>
        ELSE /\ passkeys' = [x \in DOMAIN passkeys \cup {k} |->
                                 IF x = k THEN call[c].who ELSE passkeys[x]]
             /\ Goto(c, [at |-> "open", who |-> call[c].who, factor |-> "passkey", ref |-> k])
             /\ Accept(call[c].ticket)
    /\ UNCHANGED <<devices, tickets, sessions, enrollable>>

passkeyByCredential(k) == k \in DOMAIN passkeys

FinishLogin(c, n, k) ==
    /\ At(c, "idle") /\ ~IsChallenge(n)
    /\ consumeCeremony(n)
    /\ \/ /\ Consumed(n, {"passkey_login"}) /\ passkeyByCredential(k)
          /\ Goto(c, [at |-> "open", who |-> passkeys[k], factor |-> "passkey", ref |-> k])
          /\ Accept(n)
       \/ Return(c) /\ UNCHANGED accepted       \* not verified, unknown or cloned
    /\ UNCHANGED <<devices, passkeys, sessions, enrollable>>

-----------------------------------------------------------------------------
(* Taking a way in away.  lastWayIn counts phones and passkeys, one list      *)
(* after the other, and the row goes afterwards.                              *)
handleRevokeDevice(c, who, d) ==
    /\ At(c, "idle") /\ Authenticated(who) /\ d \in list(who)
    /\ Goto(c, [at |-> "count phones", who |-> who, ref |-> d, ways |-> 0])
    /\ UNCHANGED tables

handleRemovePasskey(c, who, k) ==
    /\ At(c, "idle") /\ Authenticated(who)
    /\ Goto(c, [at |-> "count phones", who |-> who, ref |-> k, ways |-> 0])
    /\ UNCHANGED tables

CountPhones(c) ==
    /\ At(c, "count phones")
    /\ Goto(c, [call[c] EXCEPT !.at = "count passkeys", !.ways = Cardinality(list(call[c].who))])
    /\ UNCHANGED tables

lastWayIn(c) == call[c].ways + Cardinality(PasskeysOf(call[c].who)) <= 1

CountPasskeys(c) ==
    /\ At(c, "count passkeys")
    /\ IF lastWayIn(c) THEN Return(c) ELSE Goto(c, [call[c] EXCEPT !.at = "take away"])
    /\ UNCHANGED tables

(* revoke and remove: nothing is closed if there was nothing to take away.    *)
revoke(c) ==
    LET d == call[c].ref IN
    /\ At(c, "take away") /\ d \in Devices
    /\ IF d \in list(call[c].who)
       THEN devices' = [devices EXCEPT ![d].revoked = TRUE] /\ Goto(c, [call[c] EXCEPT !.at = "close"])
       ELSE Return(c) /\ UNCHANGED devices
    /\ UNCHANGED <<passkeys, tickets, sessions, enrollable, accepted>>

remove(c) ==
    LET k == call[c].ref IN
    /\ At(c, "take away") /\ k \in Credentials
    /\ IF k \in PasskeysOf(call[c].who)
       THEN /\ passkeys' = [x \in DOMAIN passkeys \ {k} |-> passkeys[x]]
            /\ Goto(c, [call[c] EXCEPT !.at = "close"])
       ELSE Return(c) /\ UNCHANGED passkeys
    /\ UNCHANGED <<devices, tickets, sessions, enrollable, accepted>>

CloseSessions(c) ==
    /\ At(c, "close") /\ RevokeDevice(call[c].ref) /\ Return(c)
    /\ UNCHANGED <<devices, passkeys, tickets, enrollable, accepted>>

-----------------------------------------------------------------------------
WindowCloses(who) ==
    /\ who \in enrollable /\ enrollable' = enrollable \ {who}
    /\ UNCHANGED <<devices, passkeys, tickets, sessions, call, accepted>>

Crash(c) == ~At(c, "idle") /\ Return(c) /\ UNCHANGED tables

Begin ==
    \/ BeginRegistration \/ BeginPasskeyLogin
    \/ \E d \in Devices : BeginLogin(d) \/ \E op \in Operations : BeginConfirmation(d, op)
    \/ \E who \in Customers : BeginEnrollment(who) \/ BeginAddDevice(who)

Request(c) ==
    \/ \E n \in DOMAIN tickets :
        \/ \E who \in Customers : handleDeviceRegistration(c, n, who)
        \/ handleDeviceLogin(c, n)
        \/ \E who \in Customers, d \in Devices, op \in Operations : Confirm(c, who, d, n, op)
        \/ FinishRegistration(c, n)
        \/ \E k \in Credentials : FinishLogin(c, n, k)
    \/ \E who \in Customers : \/ \E d \in Devices : handleRevokeDevice(c, who, d)
                              \/ \E k \in Credentials : handleRemovePasskey(c, who, k)

Step(c) ==
    \/ register(c) \/ InsertSees(c) \/ insertDevice(c) \/ insertPasskey(c)
    \/ checkPIN(c) \/ markUsed(c) \/ OpenSession(c)
    \/ CountPhones(c) \/ CountPasskeys(c) \/ revoke(c) \/ remove(c) \/ CloseSessions(c)

NextIdentity ==
    \/ Begin
    \/ \E c \in Calls : Request(c) \/ Step(c) \/ Crash(c)
    \/ \E n \in DOMAIN tickets : Lapse(n)
    \/ \E t \in DOMAIN sessions : handleLogout(t)
    \/ \E who \in Customers : WindowCloses(who)

-----------------------------------------------------------------------------
(* A challenge or a ceremony is good for one thing once, however many         *)
(* requests present it at the same time (consumeChallenge, consumeCeremony).  *)
TicketsWorkOnce == \A n \in DOMAIN accepted : accepted[n] <= 1

(* Wrong PINs lock the phone, and what concurrent attempts can add to the     *)
(* limit is no more than one for each request already past the lock (failPIN, *)
(* checkPIN).  An entry by other means does not unlock it.                    *)
GuessesBounded ==
    \A d \in DOMAIN devices :
        /\ devices[d].fails >= MaxPINAttempts => devices[d].locked
        /\ devices[d].fails < MaxPINAttempts + Cardinality(Calls)

Gone(ref) == IF ref \in Devices THEN ref \in DOMAIN devices /\ devices[ref].revoked
             ELSE ref \in Credentials /\ ref \notin DOMAIN passkeys

(* Requests that still believe what they read of a way in.                    *)
Entering(ref) ==
    \E c \in Calls : \/ At(c, "open") /\ call[c].ref = ref
                     \/ call[c].at \in {"pin", "used"} /\ call[c].device = ref

LiveFrom(ref) == {t \in DOMAIN sessions : sessions[t].ref = ref /\ sessions[t].live}

(* Once a phone or a passkey is taken away and no request that saw it is      *)
(* still running, no request enters with it again, so nothing opens a session *)
(* from it and nobody adds to the ones it had (Revoke, Remove, loginDevice).  *)
TakenAwayStaysAway ==
    [][\A ref \in Devices \cup Credentials :
          Gone(ref) /\ Gone(ref)' /\ ~Entering(ref)
              => ~Entering(ref)' /\ LiveFrom(ref)' \subseteq LiveFrom(ref)]_identityVars
=============================================================================
