---------------------------- MODULE PlatformProofs ----------------------------
(* Proofs about what platforms and their agents may do: the permissions they are  *)
(* given and what they pay (Mercatus, with Consents, Control and Agents), and the *)
(* secrets, tokens and keys they come in with (OAuth, with Agents).               *)
EXTENDS Mercatus, OAuth, FiniteSetTheorems, TLAPS

(******************************************************************************)
(* Mercatus: for any number of handlers, agents, keys, requests, mandates,    *)
(* accounts and payments, wherever a handler dies and whatever call is not    *)
(* answered.                                                                  *)
(******************************************************************************)
Terms == Limits \cup {NoLimit}

Requests ==
    [status : {"PENDING", "APPROVED", "REJECTED"}, late : BOOLEAN, agent : AgentIds,
     limit : Terms, mandate : Mandates \cup {NoMandate}]

Permissions == [status : {"active", "revoked"}, consent : Consents, limit : Terms]

Asking   == [at : {"new"}, agent : AgentIds, limit : Terms]
Granting == [at : {"authorize", "confirm", "grant", "approve", "undo"}, consent : Consents,
             limit : Terms, mandate : Mandates \cup {NoMandate}]
Paying   == [at : {"resolve", "scope", "decide", "pay", "intent"}, signer : AgentIds,
             key : PayKeys, payer : Mandates \cup Refs, usable : BOOLEAN]
Opening  == [at : {"open", "link", "fund", "bind"}, ref : Refs, agent : AgentIds]

Handlers == {Idle} \cup Asking \cup Granting \cup Paying \cup Opening

TablesTypeOK ==
    /\ consents \in [Consents -> Requests \cup {NoConsent}]
    /\ mandates \in [Mandates -> Permissions \cup {NoMandate}]
    /\ linked \subseteq Refs /\ told \subseteq Mandates

AsConfirmed(m) ==
    /\ Within(mandates[m].limit, consents[mandates[m].consent].limit)
    /\ Decided(<<"grant", mandates[m].consent, mandates[m].limit>>, You, {"confirmed"})

(* The permission an agent pays under is one it was given.                        *)
GivenTo(m, a) ==
    /\ mandates[m] # NoMandate
    /\ consents[mandates[m].consent] # NoConsent
    /\ consents[mandates[m].consent].agent = a

PaidFor(n, p, a) ==
    IF p \in Mandates THEN GivenTo(p, a) /\ Decided(<<"pay", n, p>>, a, {"allow"})
    ELSE p \in DOMAIN bound /\ bound[p] = a

(* What a handler may rely on between two calls, by where it stands.              *)
Stands(t) ==
    /\ t.at \in {"authorize", "confirm", "grant"} =>
          /\ consents[t.consent] # NoConsent /\ Within(t.limit, consents[t.consent].limit)
          /\ t.at = "grant" => Decided(<<"grant", t.consent, t.limit>>, You, {"confirmed"})
    /\ t.at \in {"approve", "undo"} =>
          /\ t.mandate \in Mandates /\ mandates[t.mandate] # NoMandate
          /\ mandates[t.mandate].consent = t.consent
    /\ t.at = "scope" => t.payer \in told \cup linked
    /\ t.at = "decide" => t.payer \in Mandates /\ GivenTo(t.payer, t.signer)
    /\ t.at = "pay" => PaidFor(t.key, t.payer, t.signer)
    /\ t.at = "intent" => t.key \in DOMAIN paid
    /\ t.at \in {"link", "fund", "bind"} => t.ref \in opened
    /\ t.at \in {"fund", "bind"} => t.ref \in linked

(* The inductive invariant.  Of the tables: a mandate is within a request that    *)
(* there is, and that request, if approved, is so with a mandate made for it,     *)
(* which is all the platform can have heard of.                                   *)
MandatesFit ==
    \A m \in Mandates : mandates[m] # NoMandate =>
        consents[mandates[m].consent] # NoConsent /\ AsConfirmed(m)

ApprovalsFit ==
    \A c \in Consents : consents[c].status = "APPROVED" =>
        LET m == consents[c].mandate IN
        m \in Mandates /\ mandates[m] # NoMandate /\ mandates[m].consent = c

ToldOfApproved ==
    \A m \in told : \E c \in Consents : consents[c].status = "APPROVED" /\ consents[c].mandate = m

PaymentsFit == \A n \in DOMAIN paid : PaidFor(n, paid[n].payer, paid[n].signer)

AccountsFit ==
    /\ linked \subseteq opened
    /\ \A x \in answered : x.key \in DOMAIN paid \cap DOMAIN intents
    /\ \A x \in owners : x.ref \in opened \cap linked /\ x.ref \in DOMAIN bound /\ bound[x.ref] = x.agent

Tables == /\ TablesTypeOK /\ MandatesFit /\ ApprovalsFit /\ ToldOfApproved
          /\ PaymentsFit /\ AccountsFit

DInv == Tables /\ call \in [Calls -> Handlers] /\ \A h \in Calls : Stands(call[h])

tableVars == <<decisions, consents, mandates, told, paid, intents, answered,
               opened, linked, bound, owners>>

-------------------------------------------------------------------------------
(* What no step takes back.                                                       *)
Onward ==
    /\ decisions \subseteq decisions'
    /\ \A c \in Consents : consents[c] # NoConsent =>
          /\ consents'[c] # NoConsent
          /\ consents'[c].agent = consents[c].agent /\ consents'[c].limit = consents[c].limit
          /\ consents[c].status = "APPROVED" => consents'[c] = consents[c]
    /\ \A m \in Mandates : mandates[m] # NoMandate =>
          /\ mandates'[m] # NoMandate
          /\ mandates'[m].consent = mandates[m].consent /\ mandates'[m].limit = mandates[m].limit
    /\ told \subseteq told' /\ opened \subseteq opened' /\ linked \subseteq linked'
    /\ DOMAIN paid \subseteq DOMAIN paid' /\ DOMAIN intents \subseteq DOMAIN intents'
    /\ \A n \in DOMAIN paid : paid'[n] = paid[n]
    /\ DOMAIN bound \subseteq DOMAIN bound' /\ \A r \in DOMAIN bound : bound'[r] = bound[r]

LEMMA OnwardDecided ==
    ASSUME Onward, NEW o, NEW by, NEW s, Decided(o, by, s) PROVE Decided(o, by, s)'
BY DEF Onward, Decided

LEMMA OnwardGiven ==
    ASSUME TablesTypeOK, Onward, NEW m \in Mandates, NEW a, GivenTo(m, a)
    PROVE  GivenTo(m, a)'
<1>1. mandates[m].consent \in Consents
  BY DEF GivenTo, TablesTypeOK, Permissions
<1> QED BY <1>1 DEF GivenTo, Onward

LEMMA OnwardPaid ==
    ASSUME TablesTypeOK, Onward, NEW n, NEW p, NEW a, PaidFor(n, p, a)
    PROVE  PaidFor(n, p, a)'
<1>1. CASE p \in Mandates
  BY <1>1, OnwardDecided, OnwardGiven DEF PaidFor
<1>2. CASE p \notin Mandates
  BY <1>2 DEF PaidFor, Onward
<1> QED BY <1>1, <1>2

LEMMA OnwardStands ==
    ASSUME TablesTypeOK, Onward, NEW t \in Handlers, Stands(t)
    PROVE  Stands(t)'
<1>1. t.at \in {"authorize", "confirm", "grant", "approve", "undo"} => t \in Granting
  BY DEF Handlers, Idle, Asking, Granting, Paying, Opening
<1>2. t.at \in {"authorize", "confirm", "grant"} =>
          /\ consents'[t.consent] # NoConsent /\ Within(t.limit, consents'[t.consent].limit)
  BY <1>1 DEF Stands, Onward, Granting, Within
<1>3. t.at = "grant" => Decided(<<"grant", t.consent, t.limit>>, You, {"confirmed"})'
  BY OnwardDecided DEF Stands
<1>4. t.at \in {"approve", "undo"} =>
          /\ t.mandate \in Mandates /\ mandates'[t.mandate] # NoMandate
          /\ mandates'[t.mandate].consent = t.consent
  BY DEF Stands, Onward
<1>5. t.at = "decide" => t.payer \in Mandates /\ GivenTo(t.payer, t.signer)'
  BY OnwardGiven DEF Stands
<1>6. t.at = "pay" => PaidFor(t.key, t.payer, t.signer)'
  BY OnwardPaid DEF Stands
<1>7. /\ t.at = "scope" => t.payer \in told' \cup linked'
      /\ t.at = "intent" => t.key \in DOMAIN paid'
      /\ t.at \in {"link", "fund", "bind"} => t.ref \in opened'
      /\ t.at \in {"fund", "bind"} => t.ref \in linked'
  BY DEF Stands, Onward
<1> QED BY <1>2, <1>3, <1>4, <1>5, <1>6, <1>7 DEF Stands

(* The tables stay right if what is new in them is.                               *)
LEMMA TablesOnward ==
    ASSUME Tables, Onward, TablesTypeOK', AccountsFit',
           \A m \in Mandates : mandates[m] = NoMandate /\ mandates'[m] # NoMandate =>
               consents'[mandates'[m].consent] # NoConsent /\ AsConfirmed(m)',
           \A c \in Consents : consents[c].status # "APPROVED" /\ consents'[c].status = "APPROVED" =>
               LET m == consents'[c].mandate IN
               m \in Mandates /\ mandates'[m] # NoMandate /\ mandates'[m].consent = c,
           \A m \in told' \ told :
               \E c \in Consents : consents'[c].status = "APPROVED" /\ consents'[c].mandate = m,
           \A n \in DOMAIN paid' \ DOMAIN paid : PaidFor(n, paid[n].payer, paid[n].signer)'
    PROVE  Tables'
<1>1. TablesTypeOK
  BY DEF Tables
<1>2. MandatesFit'
  <2>1. ASSUME NEW m \in Mandates, mandates[m] # NoMandate
        PROVE  consents'[mandates'[m].consent] # NoConsent /\ AsConfirmed(m)'
    <3>1. mandates[m].consent \in Consents /\ consents[mandates[m].consent] # NoConsent
      BY <1>1, <2>1 DEF Tables, MandatesFit, TablesTypeOK, Permissions
    <3>2. mandates'[m].consent = mandates[m].consent /\ mandates'[m].limit = mandates[m].limit
      BY <2>1 DEF Onward
    <3>3. /\ consents'[mandates[m].consent] # NoConsent
          /\ consents'[mandates[m].consent].limit = consents[mandates[m].consent].limit
      BY <3>1 DEF Onward
    <3>4. AsConfirmed(m)
      BY <2>1 DEF Tables, MandatesFit
    <3>5. Decided(<<"grant", mandates[m].consent, mandates[m].limit>>, You, {"confirmed"})'
      BY <3>2, <3>4, OnwardDecided DEF AsConfirmed
    <3> QED BY <3>2, <3>3, <3>4, <3>5 DEF AsConfirmed
  <2> QED BY <2>1 DEF MandatesFit
<1>3. ApprovalsFit'
  <2>1. ASSUME NEW c \in Consents, consents[c].status = "APPROVED", consents[c] # NoConsent
        PROVE  LET m == consents'[c].mandate IN
               m \in Mandates /\ mandates'[m] # NoMandate /\ mandates'[m].consent = c
    BY <2>1 DEF Tables, ApprovalsFit, Onward
  <2>2. \A c \in Consents : consents[c].status = "APPROVED" => consents[c] # NoConsent
    BY DEF NoConsent
  <2> QED BY <2>1, <2>2 DEF ApprovalsFit
<1>4. ToldOfApproved'
  <2>1. ASSUME NEW m \in told
        PROVE  \E c \in Consents : consents'[c].status = "APPROVED" /\ consents'[c].mandate = m
    <3>1. PICK c \in Consents : consents[c].status = "APPROVED" /\ consents[c].mandate = m
      BY DEF Tables, ToldOfApproved
    <3>2. consents'[c] = consents[c]
      BY <3>1 DEF Onward, NoConsent
    <3> QED BY <3>1, <3>2
  <2> QED BY <2>1 DEF ToldOfApproved
<1>5. PaymentsFit'
  <2>1. ASSUME NEW n \in DOMAIN paid PROVE PaidFor(n, paid[n].payer, paid[n].signer)'
    <3>1. PaidFor(n, paid[n].payer, paid[n].signer) /\ paid'[n] = paid[n]
      BY DEF Tables, PaymentsFit, Onward
    <3>2. PICK p, a : p = paid[n].payer /\ a = paid[n].signer
      OBVIOUS
    <3>3. PaidFor(n, p, a)'
      BY <1>1, <3>1, <3>2, OnwardPaid
    <3> QED BY <3>1, <3>2, <3>3
  <2> QED BY <2>1 DEF PaymentsFit
<1> QED BY <1>2, <1>3, <1>4, <1>5 DEF Tables

(* One handler moves, and what it relies on afterwards is so.                     *)
LEMMA HandlerMoves ==
    ASSUME DInv, Onward, Tables', NEW h \in Calls, NEW t \in Handlers,
           call' = [call EXCEPT ![h] = t], Stands(t)'
    PROVE  DInv'
<1>1. call' \in [Calls -> Handlers] /\ call'[h] = t /\ \A g \in Calls \ {h} : call'[g] = call[g]
  BY DEF DInv
<1>2. ASSUME NEW g \in Calls \ {h} PROVE Stands(call[g])'
  <2>1. PICK u \in Handlers : u = call[g]
    BY DEF DInv
  <2>2. Stands(u) /\ TablesTypeOK /\ call'[g] = u
    BY <1>1, <2>1 DEF DInv, Tables
  <2>3. Stands(u)'
    BY <2>2, OnwardStands
  <2> QED BY <2>2, <2>3
<1>3. Stands(call[h])'
  BY <1>1
<1> QED BY <1>1, <1>2, <1>3 DEF DInv

LEMMA NobodyMoves ==
    ASSUME DInv, Onward, Tables', call' = call PROVE DInv'
<1>1. ASSUME NEW g \in Calls PROVE Stands(call[g])'
  <2>1. PICK u \in Handlers : u = call[g]
    BY DEF DInv
  <2>2. Stands(u) /\ TablesTypeOK /\ call'[g] = u
    BY <2>1 DEF DInv, Tables
  <2>3. Stands(u)'
    BY <2>2, OnwardStands
  <2> QED BY <2>2, <2>3
<1> QED BY <1>1 DEF DInv

LEMMA NothingWritten ==
    ASSUME DInv, UNCHANGED tableVars PROVE Onward /\ Tables'
<1>1. Tables
  BY DEF DInv
<1>2. Tables'
  BY <1>1 DEF tableVars, Tables, TablesTypeOK, MandatesFit, ApprovalsFit, ToldOfApproved,
              PaymentsFit, AccountsFit, AsConfirmed, Decided, PaidFor, GivenTo
<1>3. Onward
  BY DEF tableVars, Onward
<1> QED BY <1>2, <1>3

LEMMA OnlyMoves ==
    ASSUME DInv, UNCHANGED tableVars, NEW h \in Calls, NEW t \in Handlers,
           call' = [call EXCEPT ![h] = t], Stands(t)
    PROVE  DInv'
BY NothingWritten, HandlerMoves, OnwardStands DEF DInv, Tables

LEMMA IdleStands == Idle \in Handlers /\ Stands(Idle) /\ Stands(Idle)'
BY DEF Handlers, Stands, Idle

LEMMA OnlyReturns ==
    ASSUME DInv, UNCHANGED tableVars, NEW h \in Calls, Return(h) PROVE DInv'
BY OnlyMoves, IdleStands DEF Return, Goto

-------------------------------------------------------------------------------
(* What a handler that is at a step carries.                                      *)
LEMMA CarriesTerms ==
    ASSUME DInv, NEW h \in Calls, call[h].at \in {"authorize", "confirm", "grant", "approve", "undo"}
    PROVE  \E t \in Granting : t = call[h] /\ Stands(t)
<1>1. call[h] \in Handlers /\ Stands(call[h])
  BY DEF DInv
<1> QED BY <1>1 DEF Handlers, Idle, Asking, Granting, Paying, Opening

LEMMA CarriesPayment ==
    ASSUME DInv, NEW h \in Calls, call[h].at \in {"resolve", "scope", "decide", "pay", "intent"}
    PROVE  \E t \in Paying : t = call[h] /\ Stands(t)
<1>1. call[h] \in Handlers /\ Stands(call[h])
  BY DEF DInv
<1> QED BY <1>1 DEF Handlers, Idle, Asking, Granting, Paying, Opening

LEMMA CarriesAccount ==
    ASSUME DInv, NEW h \in Calls, call[h].at \in {"open", "link", "fund", "bind"}
    PROVE  \E t \in Opening : t = call[h] /\ Stands(t)
<1>1. call[h] \in Handlers /\ Stands(call[h])
  BY DEF DInv
<1> QED BY <1>1 DEF Handlers, Idle, Asking, Granting, Paying, Opening

-------------------------------------------------------------------------------
(* Consents.                                                                      *)
Outside == UNCHANGED <<payVars, openVars>>

LEMMA CreateKeeps ==
    ASSUME DInv, Outside, NEW h \in Calls, NEW a \in AgentIds, NEW limit \in Terms,
           handleCreateConsentRequest(h, a, limit)
    PROVE  DInv'
<1>1. PICK t : t = [at |-> "new", agent |-> a, limit |-> limit]
  OBVIOUS
<1>2. t \in Handlers /\ Stands(t)
  BY <1>1 DEF Handlers, Asking, Stands
<1>3. call' = [call EXCEPT ![h] = t] /\ UNCHANGED tableVars
  BY <1>1 DEF handleCreateConsentRequest, Start, tableVars, consentVars, controlVars, Outside,
              payVars, openVars
<1> QED BY <1>2, <1>3, OnlyMoves

LEMMA ApproveStarts ==
    ASSUME DInv, Outside, NEW h \in Calls, NEW c \in Consents, NEW limit \in Terms,
           handleApproveConsent(h, c, limit)
    PROVE  DInv'
<1>1. PICK t : t = [at |-> "authorize", consent |-> c, limit |-> limit, mandate |-> NoMandate]
  OBVIOUS
<1>2. consents[c] \in Requests \cup {NoConsent} /\ consents[c] # NoConsent
  BY DEF DInv, Tables, TablesTypeOK, handleApproveConsent, CheckGrantable, ObservedStatus, NoConsent
<1>3. Within(limit, consents[c].limit)
  <2>1. consents[c].limit \in Terms
    BY <1>2 DEF Requests
  <2>2. consents[c].limit # NoLimit => limit # NoLimit /\ ~(limit > consents[c].limit)
    BY DEF handleApproveConsent, CheckGrantable, exceeds
  <2>3. consents[c].limit # NoLimit => limit \in Limits /\ limit \in Nat /\ consents[c].limit \in Nat
    BY <2>1, <2>2, ConsentsAssumption DEF Terms
  <2> QED BY <2>2, <2>3 DEF Within
<1>4. t \in Handlers /\ Stands(t)
  BY <1>1, <1>2, <1>3 DEF Handlers, Granting, Stands
<1>5. call' = [call EXCEPT ![h] = t] /\ UNCHANGED tableVars
  BY <1>1 DEF handleApproveConsent, Start, tableVars, consentVars, controlVars, Outside,
              payVars, openVars
<1> QED BY <1>4, <1>5, OnlyMoves

(* Only the requests change, and none but a new or a pending one.                 *)
LEMMA RequestsChange ==
    ASSUME DInv, Outside, UNCHANGED <<decisions, mandates>>, told' \subseteq told,
           NEW c \in Consents, NEW r \in Requests, consents' = [consents EXCEPT ![c] = r],
           told' = told,
           consents[c] # NoConsent =>
               /\ r.agent = consents[c].agent /\ r.limit = consents[c].limit
               /\ consents[c].status # "APPROVED",
           r.status = "APPROVED" =>
               /\ r.mandate \in Mandates /\ mandates[r.mandate] # NoMandate
               /\ mandates[r.mandate].consent = c
    PROVE  Onward /\ Tables'
<1>1. Tables /\ TablesTypeOK
  BY DEF DInv, Tables
<1>2. r # NoConsent /\ consents'[c] = r /\ \A d \in Consents \ {c} : consents'[d] = consents[d]
  BY <1>1 DEF TablesTypeOK, Requests, NoConsent
<1>3. UNCHANGED <<paid, intents, answered, opened, linked, bound, owners>>
  BY DEF Outside, payVars, openVars
<1>4. Onward
  BY <1>2, <1>3 DEF Onward
<1>5. TablesTypeOK' /\ AccountsFit'
  BY <1>1, <1>3 DEF Tables, TablesTypeOK, AccountsFit
<1>6. \A d \in Consents : consents[d].status # "APPROVED" /\ consents'[d].status = "APPROVED" =>
          LET m == consents'[d].mandate IN
          m \in Mandates /\ mandates'[m] # NoMandate /\ mandates'[m].consent = d
  BY <1>2
<1> QED BY <1>1, <1>3, <1>4, <1>5, <1>6, TablesOnward

LEMMA NewRequestKeeps ==
    ASSUME DInv, Outside, NEW h \in Calls, NEW c \in Consents, NewConsentRequest(h, c)
    PROVE  DInv'
<1>1. call[h] \in Asking
  <2>1. call[h].at = "new" /\ call[h] \in Handlers
    BY DEF DInv, NewConsentRequest
  <2> QED BY <2>1 DEF Handlers, Idle, Asking, Granting, Paying, Opening
<1>2. PICK r : r = [status |-> "PENDING", late |-> FALSE, agent |-> call[h].agent,
                    limit |-> call[h].limit, mandate |-> NoMandate]
  OBVIOUS
<1>3. r \in Requests /\ r.status # "APPROVED"
  BY <1>1, <1>2 DEF Requests, Asking
<1>4. /\ consents[c] = NoConsent /\ consents' = [consents EXCEPT ![c] = r]
      /\ UNCHANGED <<decisions, mandates, told>> /\ call' = [call EXCEPT ![h] = Idle]
  BY <1>2 DEF NewConsentRequest, controlVars, Return, Goto
<1>5. Onward /\ Tables'
  BY <1>3, <1>4, RequestsChange
<1> QED BY <1>4, <1>5, HandlerMoves, IdleStands

LEMMA RequestRow ==
    ASSUME DInv, NEW c \in Consents, consents[c].status = "PENDING"
    PROVE  consents[c] \in Requests /\ consents[c] # NoConsent
BY DEF DInv, Tables, TablesTypeOK, NoConsent

LEMMA PassKeeps ==
    ASSUME DInv, Outside, NEW c \in Consents, Pass(c) \/ handleRejectConsent(c) PROVE DInv'
<1>1. consents[c].status = "PENDING" /\ consents[c] \in Requests
  BY RequestRow DEF Pass, handleRejectConsent
<1>2. PICK r : /\ r \in {[consents[c] EXCEPT !.late = TRUE], [consents[c] EXCEPT !.status = "REJECTED"]}
               /\ consents' = [consents EXCEPT ![c] = r]
  BY DEF Pass, handleRejectConsent
<1>3. /\ r \in Requests /\ r.status # "APPROVED"
      /\ r.agent = consents[c].agent /\ r.limit = consents[c].limit
  BY <1>1, <1>2 DEF Requests
<1>4. UNCHANGED <<decisions, mandates, told, call>>
  BY DEF Pass, handleRejectConsent, controlVars, handlerVars
<1>5. Onward /\ Tables'
  BY <1>1, <1>2, <1>3, <1>4, RequestsChange
<1> QED BY <1>4, <1>5, NobodyMoves

LEMMA HearsKeeps ==
    ASSUME DInv, Outside, NEW c \in Consents, handleGetConsentRequest(c) PROVE DInv'
<1>1. /\ consents[c].status = "APPROVED" /\ told' = told \cup {consents[c].mandate}
      /\ UNCHANGED <<decisions, consents, mandates, call, paid, intents, answered, opened,
                     linked, bound, owners>>
  BY DEF handleGetConsentRequest, ObservedStatus, controlVars, handlerVars, Outside, payVars, openVars
<1>2. Tables /\ TablesTypeOK /\ consents[c].mandate \in Mandates
  BY <1>1 DEF DInv, Tables, ApprovalsFit
<1>3. Onward /\ TablesTypeOK' /\ AccountsFit'
  BY <1>1, <1>2 DEF Onward, Tables, TablesTypeOK, AccountsFit
<1>4. Tables'
  BY <1>1, <1>2, <1>3, TablesOnward
<1> QED BY <1>1, <1>3, <1>4, NobodyMoves

(* A decision more.                                                               *)
LEMMA DecisionsGrow ==
    ASSUME DInv, decisions \subseteq decisions',
           UNCHANGED <<consents, mandates, told, paid, intents, answered, opened, linked, bound, owners>>
    PROVE  Onward /\ Tables'
<1>1. Tables /\ TablesTypeOK
  BY DEF DInv, Tables
<1>2. Onward /\ TablesTypeOK' /\ AccountsFit'
  BY <1>1 DEF Onward, Tables, TablesTypeOK, AccountsFit
<1> QED BY <1>1, <1>2, TablesOnward

LEMMA RecordDecides ==
    ASSUME NEW o, NEW by, NEW x,
           decisions' = decisions \cup {[operation |-> o, by |-> by, outcome |-> x]}
    PROVE  Decided(o, by, {x})'
<1>1. [operation |-> o, by |-> by, outcome |-> x] \in decisions'
  OBVIOUS
<1> QED BY <1>1 DEF Decided

LEMMA AuthorizeKeeps ==
    ASSUME DInv, Outside, NEW h \in Calls, AuthorizeGrant(h) PROVE DInv'
<1>1. PICK t \in Granting : t = call[h] /\ Stands(t)
  BY CarriesTerms DEF AuthorizeGrant
<1> DEFINE r == grantOperation(call[h])
           o == <<"grant", t.consent, t.limit>>
<1>2. r.operation = o /\ r.by = You /\ evaluate(r) = "confirm"
  BY <1>1 DEF grantOperation, evaluate, forHolder, LevelOf, LevelHuman
<1>3. UNCHANGED <<consents, mandates, told, paid, intents, answered, opened, linked, bound, owners>>
  BY DEF AuthorizeGrant, consentVars, Outside, payVars, openVars
<1>4. PICK next \in {"go", "confirm", "stop"} :
          /\ \/ authorizeOperation(r, next)
             \/ verifyConfirmation(r, next)
          /\ CASE next = "go"      -> Goto(h, [call[h] EXCEPT !.at = "grant"])
               [] next = "confirm" -> Goto(h, [call[h] EXCEPT !.at = "confirm"])
               [] next = "stop"    -> Return(h)
  BY DEF AuthorizeGrant, Ask
<1> HIDE DEF r
<1>5. decisions \subseteq decisions'
  BY <1>4 DEF authorizeOperation, Decide, verifyConfirmation, Confirmed, record
<1>6. Onward /\ Tables'
  BY <1>3, <1>5, DecisionsGrow
<1>7. CASE next = "go"
  <2>1. decisions' = record(r, "confirmed")
    BY <1>2, <1>4, <1>7 DEF authorizeOperation, Decide, verifyConfirmation, Confirmed
  <2>2. Decided(o, You, {"confirmed"})'
    BY <1>2, <2>1, RecordDecides DEF record
  <2>3. PICK u : u = [t EXCEPT !.at = "grant"]
    OBVIOUS
  <2>4. /\ u \in Handlers /\ u.at = "grant" /\ u.consent = t.consent /\ u.limit = t.limit
        /\ call' = [call EXCEPT ![h] = u]
    BY <1>1, <1>4, <1>7, <2>3 DEF Granting, Handlers, Goto
  <2>5. consents'[t.consent] # NoConsent /\ Within(t.limit, consents'[t.consent].limit)
    BY <1>1, <1>3 DEF Stands, AuthorizeGrant
  <2>6. Stands(u)'
    BY <2>2, <2>4, <2>5 DEF Stands
  <2> QED BY <1>6, <2>4, <2>6, HandlerMoves
<1>8. CASE next = "confirm"
  <2>1. PICK u : u = [t EXCEPT !.at = "confirm"]
    OBVIOUS
  <2>2. /\ u \in Handlers /\ u.at = "confirm" /\ u.consent = t.consent /\ u.limit = t.limit
        /\ call' = [call EXCEPT ![h] = u]
    BY <1>1, <1>4, <1>8, <2>1 DEF Granting, Handlers, Goto
  <2>3. consents'[t.consent] # NoConsent /\ Within(t.limit, consents'[t.consent].limit)
    BY <1>1, <1>3 DEF Stands, AuthorizeGrant
  <2>4. Stands(u)'
    BY <2>2, <2>3 DEF Stands
  <2> QED BY <1>6, <2>2, <2>4, HandlerMoves
<1>9. CASE next = "stop"
  BY <1>4, <1>6, <1>9, HandlerMoves, IdleStands DEF Return, Goto
<1> QED BY <1>7, <1>8, <1>9

(* One mandate changes: it is new, as confirmed, or keeps its terms.              *)
LEMMA MandateChanges ==
    ASSUME DInv, Outside, UNCHANGED <<decisions, consents, told>>,
           NEW m \in Mandates, NEW p \in Permissions, mandates' = [mandates EXCEPT ![m] = p],
           mandates[m] # NoMandate => p.consent = mandates[m].consent /\ p.limit = mandates[m].limit,
           mandates[m] = NoMandate =>
               /\ consents[p.consent] # NoConsent /\ Within(p.limit, consents[p.consent].limit)
               /\ Decided(<<"grant", p.consent, p.limit>>, You, {"confirmed"})
    PROVE  Onward /\ Tables'
<1>1. Tables /\ TablesTypeOK
  BY DEF DInv, Tables
<1>2. p # NoMandate /\ mandates'[m] = p /\ \A n \in Mandates \ {m} : mandates'[n] = mandates[n]
  BY <1>1 DEF TablesTypeOK, Permissions, NoMandate
<1>3. UNCHANGED <<paid, intents, answered, opened, linked, bound, owners>>
  BY DEF Outside, payVars, openVars
<1>4. Onward
  BY <1>2, <1>3 DEF Onward
<1>5. TablesTypeOK' /\ AccountsFit'
  BY <1>1, <1>3 DEF Tables, TablesTypeOK, AccountsFit
<1>6. ASSUME mandates[m] = NoMandate
      PROVE  consents'[mandates'[m].consent] # NoConsent /\ AsConfirmed(m)'
  BY <1>2, <1>6 DEF AsConfirmed, Decided
<1>7. \A n \in Mandates : mandates[n] = NoMandate /\ mandates'[n] # NoMandate =>
          consents'[mandates'[n].consent] # NoConsent /\ AsConfirmed(n)'
  BY <1>2, <1>6
<1> QED BY <1>1, <1>3, <1>4, <1>5, <1>7, TablesOnward

LEMMA GrantKeeps ==
    ASSUME DInv, Outside, NEW h \in Calls, NEW m \in Mandates, GrantMandate(h, m) PROVE DInv'
<1>1. PICK t \in Granting : t = call[h] /\ Stands(t)
  BY CarriesTerms DEF GrantMandate
<1>2. t.at = "grant" /\ UNCHANGED <<decisions, consents, told>>
  BY <1>1 DEF GrantMandate, controlVars
<1>3. ASSUME mandates[m] = NoMandate,
             mandates' = [mandates EXCEPT ![m] = [status |-> "active", consent |-> t.consent,
                                                  limit |-> t.limit]]
      PROVE  Onward /\ Tables' /\ mandates'[m] # NoMandate /\ mandates'[m].consent = t.consent
  <2>1. PICK p : p = [status |-> "active", consent |-> t.consent, limit |-> t.limit]
    OBVIOUS
  <2>2. p \in Permissions /\ p.consent = t.consent /\ p.limit = t.limit
    BY <2>1 DEF Permissions, Granting
  <2>3. /\ consents[p.consent] # NoConsent /\ Within(p.limit, consents[p.consent].limit)
        /\ Decided(<<"grant", p.consent, p.limit>>, You, {"confirmed"})
    BY <1>1, <1>2, <2>2 DEF Stands
  <2>4. Onward /\ Tables'
    BY <1>2, <1>3, <2>1, <2>2, <2>3, MandateChanges
  <2>5. mandates'[m] = p /\ p # NoMandate
    BY <1>3, <2>1 DEF DInv, Tables, TablesTypeOK, NoMandate
  <2> QED BY <2>2, <2>4, <2>5
<1>4. CASE /\ mandates[m] = NoMandate
           /\ mandates' = [mandates EXCEPT ![m] = [status |-> "active", consent |-> t.consent,
                                                   limit |-> t.limit]]
           /\ Goto(h, [t EXCEPT !.at = "approve", !.mandate = m])
  <2>1. PICK u : u = [t EXCEPT !.at = "approve", !.mandate = m]
    OBVIOUS
  <2>2. /\ u \in Handlers /\ u.at = "approve" /\ u.consent = t.consent /\ u.mandate = m
        /\ call' = [call EXCEPT ![h] = u]
    BY <1>1, <1>4, <2>1 DEF Granting, Handlers, Goto
  <2>3. Stands(u)'
    BY <1>3, <1>4, <2>2 DEF Stands
  <2> QED BY <1>3, <1>4, <2>2, <2>3, HandlerMoves
<1>5. CASE /\ mandates[m] = NoMandate
           /\ mandates' = [mandates EXCEPT ![m] = [status |-> "active", consent |-> t.consent,
                                                   limit |-> t.limit]]
           /\ Return(h)
  BY <1>3, <1>5, HandlerMoves, IdleStands DEF Return, Goto
<1>6. CASE UNCHANGED mandates /\ Return(h)
  <2>1. UNCHANGED tableVars
    BY <1>2, <1>6 DEF Outside, payVars, openVars, tableVars
  <2> QED BY <1>6, <2>1, OnlyReturns
<1> QED BY <1>1, <1>4, <1>5, <1>6 DEF GrantMandate

LEMMA ApproveKeeps ==
    ASSUME DInv, Outside, NEW h \in Calls, ApproveConsentRequest(h) PROVE DInv'
<1>1. PICK t \in Granting : t = call[h] /\ Stands(t)
  BY CarriesTerms DEF ApproveConsentRequest
<1>2. t.at = "approve" /\ UNCHANGED <<decisions, mandates, told>>
  BY <1>1 DEF ApproveConsentRequest, controlVars
<1>3. /\ t.consent \in Consents /\ t.mandate \in Mandates /\ mandates[t.mandate] # NoMandate
      /\ mandates[t.mandate].consent = t.consent
  BY <1>1, <1>2 DEF Granting, Stands
<1>4. \/ consents' = consents
      \/ /\ consents[t.consent].status = "PENDING"
         /\ consents' = [consents EXCEPT ![t.consent] =
                            [consents[t.consent] EXCEPT !.status = "APPROVED", !.mandate = t.mandate]]
  <2>1. consents \in [Consents -> Requests \cup {NoConsent}]
    BY DEF DInv, Tables, TablesTypeOK
  <2> QED BY <1>1, <1>3, <2>1 DEF ApproveConsentRequest
<1>5. Onward /\ Tables'
  <2>1. CASE consents' = consents
    BY <1>2, <2>1, NothingWritten DEF Outside, payVars, openVars, tableVars
  <2>2. CASE consents' # consents
    <3>1. PICK r : r = [consents[t.consent] EXCEPT !.status = "APPROVED", !.mandate = t.mandate]
      OBVIOUS
    <3>2. consents[t.consent] \in Requests /\ consents[t.consent].status = "PENDING"
      BY <1>3, <1>4, <2>2, RequestRow
    <3>3. /\ r \in Requests /\ r.mandate = t.mandate
          /\ r.agent = consents[t.consent].agent /\ r.limit = consents[t.consent].limit
      BY <1>3, <3>1, <3>2 DEF Requests
    <3>4. consents' = [consents EXCEPT ![t.consent] = r]
      BY <1>4, <2>2, <3>1
    <3> QED BY <1>2, <1>3, <3>2, <3>3, <3>4, RequestsChange
  <2> QED BY <2>1, <2>2
<1>6. CASE Return(h)
  BY <1>5, <1>6, HandlerMoves, IdleStands DEF Return, Goto
<1>7. CASE Goto(h, [call[h] EXCEPT !.at = "undo"])
  <2>1. PICK u : u = [t EXCEPT !.at = "undo"]
    OBVIOUS
  <2>2. /\ u \in Handlers /\ u.at = "undo" /\ u.consent = t.consent /\ u.mandate = t.mandate
        /\ call' = [call EXCEPT ![h] = u]
    BY <1>1, <1>7, <2>1 DEF Granting, Handlers, Goto
  <2>3. Stands(u)'
    BY <1>2, <1>3, <2>2 DEF Stands
  <2> QED BY <1>5, <2>2, <2>3, HandlerMoves
<1> QED BY <1>6, <1>7 DEF ApproveConsentRequest

LEMMA EndsMandate ==
    ASSUME DInv, Outside, UNCHANGED <<decisions, consents, told>>,
           NEW m \in Mandates, mandates[m] # NoMandate, mandates' = Revoked(m)
    PROVE  Onward /\ Tables'
<1>1. mandates[m] \in Permissions
  BY DEF DInv, Tables, TablesTypeOK
<1>2. PICK p : p = [mandates[m] EXCEPT !.status = "revoked"]
  OBVIOUS
<1>3. p \in Permissions /\ p.consent = mandates[m].consent /\ p.limit = mandates[m].limit
  BY <1>1, <1>2 DEF Permissions
<1>4. mandates' = [mandates EXCEPT ![m] = p]
  BY <1>2 DEF Revoked, DInv, Tables, TablesTypeOK
<1> QED BY <1>3, <1>4, MandateChanges

LEMMA UndoKeeps ==
    ASSUME DInv, Outside, NEW h \in Calls, RollbackMandate(h) PROVE DInv'
<1>1. PICK t \in Granting : t = call[h] /\ Stands(t)
  BY CarriesTerms DEF RollbackMandate
<1>2. /\ t.mandate \in Mandates /\ mandates[t.mandate] # NoMandate /\ Return(h)
      /\ UNCHANGED <<decisions, consents, told>>
      /\ mandates' = Revoked(t.mandate) \/ mandates' = mandates
  BY <1>1 DEF RollbackMandate, controlVars, Stands
<1>3. Onward /\ Tables'
  <2>1. CASE mandates' = mandates
    BY <1>2, <2>1, NothingWritten DEF Outside, payVars, openVars, tableVars
  <2> QED BY <1>2, <2>1, EndsMandate
<1> QED BY <1>2, <1>3, HandlerMoves, IdleStands DEF Return, Goto

LEMMA RevokeKeeps ==
    ASSUME DInv, Outside, NEW m \in Mandates, handleRevokeMandate(m) PROVE DInv'
<1>1. /\ mandates[m] # NoMandate /\ mandates' = Revoked(m)
      /\ UNCHANGED <<decisions, consents, told, call>>
  BY DEF handleRevokeMandate, controlVars, handlerVars, NoMandate
<1> QED BY <1>1, EndsMandate, NobodyMoves

LEMMA CrashKeeps ==
    ASSUME DInv, Outside, NEW h \in Calls, Crash(h) PROVE DInv'
<1>1. Return(h) /\ UNCHANGED tableVars
  BY DEF Crash, controlVars, Outside, payVars, openVars, tableVars
<1> QED BY <1>1, OnlyReturns

LEMMA ConsentsKeep ==
    ASSUME DInv, Outside, NextConsents PROVE DInv'
BY CreateKeeps, ApproveStarts, NewRequestKeeps, AuthorizeKeeps, GrantKeeps, ApproveKeeps,
   UndoKeeps, CrashKeeps, PassKeeps, HearsKeeps, RevokeKeeps DEF NextConsents, Terms

-------------------------------------------------------------------------------
(* Payments.                                                                      *)
LEMMA PaymentStarts ==
    ASSUME DInv, NEW h \in Calls, NEW k \in Keys, NEW n \in PayKeys, NEW p \in Mandates \cup Refs,
           handleAuthorize(h, k, n, p)
    PROVE  DInv'
<1>1. keys[k].agent \in AgentIds
  BY DEF handleAuthorize, verifyAgentSignature, Verify, KeyForSignature, Valid, ValidAt
<1>2. PICK t : t = [at |-> "resolve", signer |-> keys[k].agent, key |-> n, payer |-> p, usable |-> FALSE]
  OBVIOUS
<1>3. t \in Handlers /\ Stands(t)
  BY <1>1, <1>2 DEF Handlers, Paying, Stands
<1>4. call' = [call EXCEPT ![h] = t] /\ UNCHANGED tableVars
  BY <1>2 DEF handleAuthorize, Start, tableVars, consentVars, controlVars, payVars, openVars
<1> QED BY <1>3, <1>4, OnlyMoves

LEMMA ResolveKeeps ==
    ASSUME DInv, NEW h \in Calls, resolveMandate(h) PROVE DInv'
<1>1. PICK t \in Paying : t = call[h] /\ Stands(t)
  BY CarriesPayment DEF resolveMandate
<1>2. UNCHANGED tableVars
  BY DEF resolveMandate, tableVars, consentVars, controlVars, payVars, openVars
<1>3. CASE t.payer \in told \cup linked /\ ~Return(h)
  <2>1. PICK u : /\ u \in {[t EXCEPT !.at = "scope", !.usable = mandates[t.payer].status = "active"],
                          [t EXCEPT !.at = "scope"]}
                 /\ call' = [call EXCEPT ![h] = u]
    BY <1>1, <1>3 DEF resolveMandate, Goto
  <2>2. u \in Handlers /\ u.at = "scope" /\ u.payer = t.payer
    BY <2>1 DEF Paying, Handlers
  <2>3. Stands(u)
    BY <1>3, <2>2 DEF Stands
  <2> QED BY <1>2, <2>1, <2>2, <2>3, OnlyMoves
<1>4. CASE Return(h)
  BY <1>2, <1>4, OnlyReturns
<1> QED BY <1>1, <1>3, <1>4 DEF resolveMandate

(* The consent the platform heard of is that of the mandate, and names the agent. *)
LEMMA ScopeKeeps ==
    ASSUME DInv, NEW h \in Calls, checkAgentScope(h) PROVE DInv'
<1>1. PICK t \in Paying : t = call[h] /\ Stands(t)
  BY CarriesPayment DEF checkAgentScope
<1>2. UNCHANGED tableVars
  BY DEF checkAgentScope, tableVars, consentVars, controlVars, payVars, openVars
<1>3. t.at = "scope" /\ t.payer \in told \cup linked
  BY <1>1 DEF checkAgentScope, Stands
<1>4. CASE Return(h)
  BY <1>2, <1>4, OnlyReturns
<1>5. CASE /\ t.payer \in Mandates
           /\ \A c \in ConsentForMandate(t.payer) : consents[c].agent = t.signer
           /\ Goto(h, [t EXCEPT !.at = "decide"])
  <2>1. t.payer \in told
    BY <1>3, <1>5, MercatusAssumption DEF DInv, Tables, TablesTypeOK
  <2>2. PICK c \in Consents : consents[c].status = "APPROVED" /\ consents[c].mandate = t.payer
    BY <2>1 DEF DInv, Tables, ToldOfApproved
  <2>3. mandates[t.payer] # NoMandate /\ mandates[t.payer].consent = c
    BY <2>2 DEF DInv, Tables, ApprovalsFit
  <2>4. consents[c].agent = t.signer /\ consents[c] # NoConsent
    BY <1>5, <2>2 DEF ConsentForMandate, NoConsent
  <2>5. PICK u : u = [t EXCEPT !.at = "decide"]
    OBVIOUS
  <2>6. /\ u \in Handlers /\ u.at = "decide" /\ u.payer = t.payer /\ u.signer = t.signer
        /\ call' = [call EXCEPT ![h] = u]
    BY <1>1, <1>5, <2>5 DEF Paying, Handlers, Goto
  <2>7. Stands(u)
    BY <1>5, <2>3, <2>4, <2>6 DEF Stands, GivenTo
  <2> QED BY <1>2, <2>6, <2>7, OnlyMoves
<1>6. CASE /\ t.payer \notin Mandates /\ t.payer \in DOMAIN bound /\ bound[t.payer] = t.signer
           /\ Goto(h, [t EXCEPT !.at = "pay"])
  <2>1. PICK u : u = [t EXCEPT !.at = "pay"]
    OBVIOUS
  <2>2. /\ u \in Handlers /\ u.at = "pay" /\ u.payer = t.payer /\ u.signer = t.signer
        /\ call' = [call EXCEPT ![h] = u]
    BY <1>1, <1>6, <2>1 DEF Paying, Handlers, Goto
  <2>3. Stands(u)
    BY <1>6, <2>2 DEF Stands, PaidFor
  <2> QED BY <1>2, <2>2, <2>3, OnlyMoves
<1> QED BY <1>1, <1>4, <1>5, <1>6 DEF checkAgentScope

LEMMA DecideKeeps ==
    ASSUME DInv, NEW h \in Calls, decideMandatePayment(h) PROVE DInv'
<1>1. PICK t \in Paying : t = call[h] /\ Stands(t)
  BY CarriesPayment DEF decideMandatePayment
<1> DEFINE o == <<"pay", t.key, t.payer>>
<1>2. PICK r, got :
          /\ r.operation = o /\ r.by = t.signer
          /\ Decide(r, got) /\ IF got = "allow" THEN Goto(h, [t EXCEPT !.at = "pay"]) ELSE Return(h)
  BY <1>1 DEF decideMandatePayment
<1>3. decisions \subseteq decisions'
  BY <1>2 DEF Decide, record
<1>4. UNCHANGED <<consents, mandates, told, paid, intents, answered, opened, linked, bound, owners>>
  BY DEF decideMandatePayment, consentVars, payVars, openVars
<1>5. Onward /\ Tables'
  BY <1>3, <1>4, DecisionsGrow
<1>6. CASE got = "allow"
  <2>1. decisions' = decisions \cup {[operation |-> o, by |-> t.signer, outcome |-> "allow"]}
    BY <1>2, <1>6 DEF Decide, record
  <2>2. Decided(o, t.signer, {"allow"})'
    BY <2>1, RecordDecides
  <2>3. t.payer \in Mandates /\ GivenTo(t.payer, t.signer)'
    BY <1>1, <1>5, OnwardGiven DEF DInv, Tables, Stands, decideMandatePayment
  <2>4. PICK u : u = [t EXCEPT !.at = "pay"]
    OBVIOUS
  <2>5. /\ u \in Handlers /\ u.at = "pay" /\ u.payer = t.payer /\ u.signer = t.signer /\ u.key = t.key
        /\ call' = [call EXCEPT ![h] = u]
    BY <1>1, <1>2, <1>6, <2>4 DEF Paying, Handlers, Goto
  <2>6. Stands(u)'
    BY <2>2, <2>3, <2>5 DEF Stands, PaidFor
  <2> QED BY <1>5, <2>5, <2>6, HandlerMoves
<1>7. CASE got # "allow"
  BY <1>2, <1>5, <1>7, HandlerMoves, IdleStands DEF Return, Goto
<1> QED BY <1>6, <1>7

LEMMA PayKeeps ==
    ASSUME DInv, NEW h \in Calls, AuthorizeUnderMandate(h) PROVE DInv'
<1>1. PICK t \in Paying : t = call[h] /\ Stands(t)
  BY CarriesPayment DEF AuthorizeUnderMandate
<1>2. t.at = "pay" /\ PaidFor(t.key, t.payer, t.signer)
  BY <1>1 DEF AuthorizeUnderMandate, Stands
<1>3. UNCHANGED <<decisions, consents, mandates, told, intents, answered, opened, linked, bound, owners>>
  BY DEF AuthorizeUnderMandate, controlVars, consentVars, openVars
<1>4. \/ paid' = paid
      \/ t.key \notin DOMAIN paid /\ paid' = Insert(paid, t.key, [payer |-> t.payer, signer |-> t.signer])
  BY <1>1 DEF AuthorizeUnderMandate, AfterPay, CoreReply
<1>5. Onward /\ Tables'
  <2>1. CASE paid' = paid
    BY <1>3, <2>1, NothingWritten DEF tableVars
  <2>2. CASE /\ t.key \notin DOMAIN paid
             /\ paid' = Insert(paid, t.key, [payer |-> t.payer, signer |-> t.signer])
    <3>1. /\ DOMAIN paid' = DOMAIN paid \cup {t.key} /\ \A n \in DOMAIN paid : paid'[n] = paid[n]
          /\ paid'[t.key] = [payer |-> t.payer, signer |-> t.signer]
      BY <2>2 DEF Insert
    <3>2. Tables /\ TablesTypeOK
      BY DEF DInv, Tables
    <3>3. Onward /\ TablesTypeOK' /\ AccountsFit'
      BY <1>3, <3>1, <3>2 DEF Onward, Tables, TablesTypeOK, AccountsFit
    <3>4. PaidFor(t.key, t.payer, t.signer)'
      BY <1>2, <3>2, <3>3, OnwardPaid
    <3>5. \A n \in DOMAIN paid' \ DOMAIN paid : PaidFor(n, paid[n].payer, paid[n].signer)'
      BY <3>1, <3>4
    <3> QED BY <1>3, <3>2, <3>3, <3>5, TablesOnward
  <2> QED BY <1>4, <2>1, <2>2
<1>6. CASE Return(h)
  BY <1>5, <1>6, HandlerMoves, IdleStands DEF Return, Goto
<1>7. CASE paid' = AfterPay(t) /\ CoreReply(t) \in {"created", "replayed"} /\ Goto(h, [t EXCEPT !.at = "intent"])
  <2>1. t.key \in DOMAIN paid'
    BY <1>7 DEF AfterPay, CoreReply, Insert
  <2>2. PICK u : u = [t EXCEPT !.at = "intent"]
    OBVIOUS
  <2>3. u \in Handlers /\ u.at = "intent" /\ u.key = t.key /\ call' = [call EXCEPT ![h] = u]
    BY <1>1, <1>7, <2>2 DEF Paying, Handlers, Goto
  <2>4. Stands(u)'
    BY <2>1, <2>3 DEF Stands
  <2> QED BY <1>5, <2>3, <2>4, HandlerMoves
<1> QED BY <1>1, <1>6, <1>7 DEF AuthorizeUnderMandate

LEMMA IntentKeeps ==
    ASSUME DInv, NEW h \in Calls, RecordIntent(h) PROVE DInv'
<1>1. PICK t \in Paying : t = call[h] /\ Stands(t)
  BY CarriesPayment DEF RecordIntent
<1>2. t.key \in DOMAIN paid
  BY <1>1 DEF RecordIntent, Stands
<1>3. /\ Return(h)
      /\ UNCHANGED <<decisions, consents, mandates, told, paid, opened, linked, bound, owners>>
      /\ \/ /\ intents' = Insert(intents, t.key, t.signer)
            /\ answered' = answered \cup {[key |-> t.key, agent |-> t.signer]}
         \/ intents' \in {intents, Insert(intents, t.key, t.signer)} /\ answered' = answered
  BY <1>1 DEF RecordIntent, consentVars, openVars
<1>4. DOMAIN Insert(intents, t.key, t.signer) = DOMAIN intents \cup {t.key}
  BY DEF Insert
<1>5. Tables /\ TablesTypeOK
  BY DEF DInv, Tables
<1>6. Onward /\ TablesTypeOK' /\ AccountsFit'
  BY <1>2, <1>3, <1>4, <1>5 DEF Onward, Tables, TablesTypeOK, AccountsFit
<1>7. Tables'
  BY <1>3, <1>5, <1>6, TablesOnward
<1> QED BY <1>3, <1>6, <1>7, HandlerMoves, IdleStands DEF Return, Goto

-------------------------------------------------------------------------------
(* Accounts of agents.                                                            *)
LEMMA OpeningStarts ==
    ASSUME DInv, NEW h \in Calls, NEW r \in Refs, NEW a \in AgentIds, handleOpenAccount(h, r, a)
    PROVE  DInv'
<1>1. PICK t : t = [at |-> IF r \in linked THEN "bind" ELSE "open", ref |-> r, agent |-> a]
  OBVIOUS
<1>2. t \in Handlers /\ t.at \in {"bind", "open"} /\ t.ref = r /\ (t.at = "bind" => r \in linked)
  BY <1>1 DEF Handlers, Opening
<1>3. Stands(t)
  BY <1>2 DEF Stands, DInv, Tables, AccountsFit
<1>4. call' = [call EXCEPT ![h] = t] /\ UNCHANGED tableVars
  BY <1>1 DEF handleOpenAccount, Start, tableVars, consentVars, controlVars, payVars, openVars
<1> QED BY <1>2, <1>3, <1>4, OnlyMoves

(* Accounts are opened and linked, in this order.                                 *)
LEMMA AccountsGrow ==
    ASSUME DInv, UNCHANGED <<decisions, consents, mandates, told, paid, intents, answered, bound, owners>>,
           opened \subseteq opened', linked \subseteq linked', linked' \subseteq opened',
           linked' \subseteq Refs
    PROVE  Onward /\ Tables'
<1>1. Tables /\ TablesTypeOK
  BY DEF DInv, Tables
<1>2. Onward /\ TablesTypeOK' /\ AccountsFit'
  BY <1>1 DEF Onward, Tables, TablesTypeOK, AccountsFit
<1> QED BY <1>1, <1>2, TablesOnward

LEMMA OpenStepsKeep ==
    ASSUME DInv, NEW h \in Calls, OpenCustomerAccount(h) \/ LinkAccount(h) \/ fundSandboxAccount(h)
    PROVE  DInv'
<1>1. PICK t \in Opening : t = call[h] /\ Stands(t)
  BY CarriesAccount DEF OpenCustomerAccount, LinkAccount, fundSandboxAccount
<1>2. PICK next \in {"link", "fund", "bind"} :
          /\ \/ t.at = "open" /\ next = "link" /\ opened' \in {opened, opened \cup {t.ref}} /\ linked' = linked
             \/ t.at = "link" /\ next = "fund" /\ linked' \in {linked, linked \cup {t.ref}} /\ opened' = opened
             \/ t.at = "fund" /\ next = "bind" /\ UNCHANGED <<opened, linked>>
          /\ \/ Return(h)
             \/ /\ Goto(h, [t EXCEPT !.at = next])
                /\ next = "link" => t.ref \in opened'
                /\ next = "fund" => t.ref \in linked'
  BY <1>1 DEF OpenCustomerAccount, LinkAccount, fundSandboxAccount
<1>3. UNCHANGED <<decisions, consents, mandates, told, paid, intents, answered, bound, owners>>
  BY DEF OpenCustomerAccount, LinkAccount, fundSandboxAccount, controlVars, consentVars, payVars
<1>4. Onward /\ Tables'
  <2>1. t.ref \in Refs /\ linked \subseteq Refs /\ linked \subseteq opened
    BY DEF Opening, DInv, Tables, TablesTypeOK, AccountsFit
  <2>2. t.at = "link" => t.ref \in opened
    BY <1>1 DEF Stands
  <2>3. opened \subseteq opened' /\ linked \subseteq linked' /\ linked' \subseteq opened' /\ linked' \subseteq Refs
    BY <1>2, <2>1, <2>2
  <2> QED BY <1>3, <2>3, AccountsGrow
<1>5. CASE Return(h)
  BY <1>4, <1>5, HandlerMoves, IdleStands DEF Return, Goto
<1>6. CASE ~Return(h)
  <2>1. PICK u : u = [t EXCEPT !.at = next]
    OBVIOUS
  <2>2. u \in Handlers /\ u.at = next /\ u.ref = t.ref /\ call' = [call EXCEPT ![h] = u]
    BY <1>1, <1>2, <1>6, <2>1 DEF Opening, Handlers, Goto
  <2>3. t.ref \in opened' /\ (next \in {"fund", "bind"} => t.ref \in linked')
    BY <1>1, <1>2, <1>6 DEF Stands
  <2>4. Stands(u)'
    BY <1>2, <2>2, <2>3 DEF Stands
  <2> QED BY <1>4, <2>2, <2>4, HandlerMoves
<1> QED BY <1>5, <1>6

LEMMA BindKeeps ==
    ASSUME DInv, NEW h \in Calls, bindAccountAgent(h) PROVE DInv'
<1>1. PICK t \in Opening : t = call[h] /\ Stands(t)
  BY CarriesAccount DEF bindAccountAgent
<1>2. t.ref \in opened \cap linked
  BY <1>1 DEF bindAccountAgent, Stands
<1>3. /\ Return(h)
      /\ UNCHANGED <<decisions, consents, mandates, told, paid, intents, answered, opened, linked>>
      /\ \/ UNCHANGED <<bound, owners>>
         \/ /\ Bound(t.ref, t.agent)[t.ref] = t.agent /\ bound' = Bound(t.ref, t.agent)
            /\ owners' \in {owners, owners \cup {[ref |-> t.ref, agent |-> t.agent]}}
  BY <1>1 DEF bindAccountAgent, controlVars, consentVars, payVars
<1>4. Onward /\ Tables'
  <2>1. CASE UNCHANGED <<bound, owners>>
    BY <1>3, <2>1, NothingWritten DEF tableVars
  <2>2. CASE /\ Bound(t.ref, t.agent)[t.ref] = t.agent /\ bound' = Bound(t.ref, t.agent)
             /\ owners' \in {owners, owners \cup {[ref |-> t.ref, agent |-> t.agent]}}
    <3>1. /\ DOMAIN bound' = DOMAIN bound \cup {t.ref} /\ bound'[t.ref] = t.agent
          /\ \A x \in DOMAIN bound : bound'[x] = bound[x]
      BY <2>2 DEF Bound, Insert
    <3>2. Tables /\ TablesTypeOK
      BY DEF DInv, Tables
    <3>3. Onward /\ TablesTypeOK'
      BY <1>3, <3>1, <3>2 DEF Onward, TablesTypeOK
    <3>4. AccountsFit'
      BY <1>2, <1>3, <2>2, <3>1, <3>2 DEF Tables, AccountsFit
    <3> QED BY <1>3, <3>2, <3>3, <3>4, TablesOnward
  <2> QED BY <1>3, <2>1, <2>2
<1> QED BY <1>3, <1>4, HandlerMoves, IdleStands DEF Return, Goto

-------------------------------------------------------------------------------
LEMMA InitDInv == Init => DInv
BY DEF Init, InitAgents, InitControl, InitHandlers, InitConsents, DInv, Tables, TablesTypeOK,
       MandatesFit, ApprovalsFit, ToldOfApproved, PaymentsFit, AccountsFit, Stands, Handlers, Idle,
       NoMandate, NoConsent

LEMMA NextDInv == ASSUME DInv, [Next]_vars PROVE DInv'
<1>1. CASE NextConsents /\ UNCHANGED <<payVars, openVars>>
  BY <1>1, ConsentsKeep DEF Outside
<1>2. CASE UNCHANGED vars
  BY <1>2, NothingWritten, NobodyMoves
     DEF vars, tableVars, handlerVars, controlVars, consentVars, payVars, openVars
<1>3. ASSUME NEW a \in AgentIds,
             Elsewhere /\ UNCHANGED <<payVars, openVars>>
      PROVE  DInv'
  BY <1>3, NothingWritten, NobodyMoves
     DEF Elsewhere, tableVars, handlerVars, controlVars, consentVars, payVars, openVars
<1> QED
  BY <1>1, <1>2, <1>3, PaymentStarts, ResolveKeeps, ScopeKeeps, DecideKeeps, PayKeeps, IntentKeeps,
     OpeningStarts, OpenStepsKeep, BindKeeps DEF Next

(* The inductive invariant of permissions and of what is paid under them: every   *)
(* handler finds what it read still so, because no store takes anything back.     *)
THEOREM DelegationInvariant == Spec => []DInv
BY InitDInv, NextDInv, PTL DEF Spec

(* A mandate is within what was asked and as the customer confirmed it with the   *)
(* phone, however many requests raced for it (bff/consent.go).                    *)
THEOREM MandatesAsConfirmed == Spec => []GrantedAsConfirmed
<1>1. DInv => GrantedAsConfirmed
  BY DEF DInv, Tables, MandatesFit, AsConfirmed, GrantedAsConfirmed
<1> QED BY <1>1, DelegationInvariant, PTL

(* Nobody but the agent a permission was given to moves money under it, nor       *)
(* anyone but the agent that has it the money of an account (mercatus/agents.go). *)
THEOREM OnlyTheGrantedAgentPays == Spec => []PaidByTheGrantedAgent
<1>1. DInv => PaidByTheGrantedAgent
  BY DEF DInv, Tables, PaymentsFit, PaidFor, GivenTo, PaidByTheGrantedAgent
<1> QED BY <1>1, DelegationInvariant, PTL

-------------------------------------------------------------------------------
(* What the core may say, for each of the three vocabularies.                    *)
PostingWords == {"Invalid", "IdempotencyConflict", "AlreadyExists", "InsufficientFunds", "BalanceCapExceeded",
                 "TransactionCapExceeded", "CreditLimitExceeded", "CreditLineInactive", "Overpayment"}
AuthorizationWords == PostingWords \cup
                {"CurrencyMismatch", "AuthorizationNotFound", "AccountNotFound", "AccountNotOperative",
                 "AuthorizationExpired", "InvalidState"}
MandateWords == AuthorizationWords \cup
                {"MandateNotFound", "MandateLimitExceeded", "MandateRevoked", "MandateExpired",
                 "MandateAccountNotCovered"}
Nowhere == {"Unavailable", "Internal", "DeadlineExceeded", "Canceled"}

Says(e, words) == e[2] \in words \/ (e[2] = "Unspecified" /\ e[1] \in Nowhere)

(* Each error of the core has a reason of its vocabulary, or says that nobody    *)
(* knows.                                                                        *)
LEMMA WordsOfErrors ==
    /\ \A e \in PostingErrors : Says(e, PostingWords)
    /\ \A e \in AuthorizationErrors : Says(e, AuthorizationWords)
    /\ \A e \in MandateErrors : Says(e, MandateWords)
    /\ \A e \in Lost : e[2] = "Unspecified" /\ e[1] \in Nowhere
<1>0. \A c, w : <<c, w>>[2] = w
  OBVIOUS
<1>1. \A e \in PostingErrors : Says(e, PostingWords)
  <2> TAKE e \in PostingErrors
  <2>1. CASE e = <<"Unavailable", "Unspecified">>
    BY <2>1 DEF Says, Nowhere
  <2>2. ASSUME NEW c, NEW w \in PostingWords, e = <<c, w>> PROVE Says(e, PostingWords)
    BY <2>2, <1>0 DEF Says
  <2>3. PostingErrors = {<<"InvalidArgument", "Invalid">>, <<"Aborted", "IdempotencyConflict">>,
                         <<"AlreadyExists", "AlreadyExists">>, <<"Unavailable", "Unspecified">>}
                  \cup {<<"FailedPrecondition", w>> : w \in {"InsufficientFunds", "BalanceCapExceeded",
                          "TransactionCapExceeded", "CreditLimitExceeded", "CreditLineInactive", "Overpayment"}}
    BY DEF PostingErrors
  <2>4. \/ e = <<"Unavailable", "Unspecified">>
        \/ \E c : \E w \in PostingWords : e = <<c, w>>
    BY <2>3 DEF PostingWords
  <2> QED BY <2>1, <2>2, <2>4
<1>2. \A e \in AuthorizationErrors : Says(e, AuthorizationWords)
  <2> TAKE e \in AuthorizationErrors
  <2>1. CASE e = <<"Internal", "Unspecified">>
    BY <2>1 DEF Says, Nowhere
  <2>2. ASSUME NEW c, NEW w \in AuthorizationWords, e = <<c, w>> PROVE Says(e, AuthorizationWords)
    BY <2>2, <1>0 DEF Says
  <2>3. AuthorizationErrors =
            {<<"InvalidArgument", "CurrencyMismatch">>, <<"InvalidArgument", "Invalid">>,
             <<"Aborted", "IdempotencyConflict">>, <<"NotFound", "AuthorizationNotFound">>,
             <<"NotFound", "AccountNotFound">>, <<"Internal", "Unspecified">>}
            \cup {<<"FailedPrecondition", w>> : w \in {"AccountNotOperative", "AuthorizationExpired", "InvalidState"}}
            \cup PostingErrors
    BY DEF AuthorizationErrors
  <2>4. \/ e = <<"Internal", "Unspecified">> \/ e \in PostingErrors
        \/ \E c : \E w \in AuthorizationWords : e = <<c, w>>
    BY <2>3 DEF AuthorizationWords, PostingWords
  <2>5. CASE e \in PostingErrors
    BY <1>1, <2>5 DEF Says, AuthorizationWords
  <2> QED BY <2>1, <2>2, <2>4, <2>5
<1>3. \A e \in MandateErrors : Says(e, MandateWords)
  <2> TAKE e \in MandateErrors
  <2>1. ASSUME NEW c, NEW w \in MandateWords, e = <<c, w>> PROVE Says(e, MandateWords)
    BY <2>1, <1>0 DEF Says
  <2>2. MandateErrors =
            {<<"NotFound", "MandateNotFound">>, <<"FailedPrecondition", "MandateLimitExceeded">>}
            \cup {<<"PermissionDenied", w>> : w \in {"MandateRevoked", "MandateExpired", "MandateAccountNotCovered"}}
            \cup AuthorizationErrors
    BY DEF MandateErrors
  <2>3. e \in AuthorizationErrors \/ \E c : \E w \in MandateWords : e = <<c, w>>
    BY <2>2 DEF MandateWords
  <2>4. CASE e \in AuthorizationErrors
    BY <1>2, <2>4 DEF Says, MandateWords
  <2> QED BY <2>1, <2>3, <2>4
<1>4. \A e \in Lost : e[2] = "Unspecified" /\ e[1] \in Nowhere
  BY DEF Lost, Nowhere
<1> QED BY <1>1, <1>2, <1>3, <1>4

(* A reason is its own name in the vocabulary it comes from, and who finds none  *)
(* knows nothing.                                                                *)
LEMMA TranslatedAs ==
    /\ \A e \in PostingErrors \cup Lost : translate(e) = IF e[2] = "Unspecified" THEN "Unavailable" ELSE e[2]
    /\ \A e \in AuthorizationErrors \cup Lost :
          translateAuthorization(e) = IF e[2] = "Unspecified" THEN "Unavailable" ELSE e[2]
    /\ \A e \in MandateErrors \cup Lost : translateMandate(e) = IF e[2] = "Unspecified" THEN "Unavailable" ELSE e[2]
<1>1. \A code \in Nowhere : sentinelForCode(code) = "Unavailable"
  BY DEF Nowhere, sentinelForCode
<1>2. ASSUME NEW errors, NEW words, \A e \in errors : Says(e, words), "Unspecified" \notin words,
             NEW e \in errors \cup Lost
      PROVE  Sentinel(e, {x[2] : x \in errors} \ {"Unspecified"}) = IF e[2] = "Unspecified" THEN "Unavailable" ELSE e[2]
  <2>1. CASE e[2] = "Unspecified"
    <3>1. e[1] \in Nowhere
      BY <1>2, <2>1, WordsOfErrors DEF Says
    <3> QED BY <1>1, <2>1, <3>1 DEF Sentinel
  <2>2. CASE e[2] # "Unspecified"
    <3>1. e \in errors
      BY <2>2, WordsOfErrors
    <3> QED BY <2>2, <3>1 DEF Sentinel
  <2> QED BY <2>1, <2>2
<1>3. "Unspecified" \notin MandateWords /\ PostingWords \subseteq AuthorizationWords /\ AuthorizationWords \subseteq MandateWords
  BY DEF PostingWords, AuthorizationWords, MandateWords
<1>4. \A e \in PostingErrors \cup Lost : translate(e) = IF e[2] = "Unspecified" THEN "Unavailable" ELSE e[2]
  BY <1>2, <1>3, WordsOfErrors DEF translate, PostingReasons
<1>5. \A e \in AuthorizationErrors \cup Lost :
         translateAuthorization(e) = IF e[2] = "Unspecified" THEN "Unavailable" ELSE e[2]
  BY <1>2, <1>3, WordsOfErrors DEF translateAuthorization, AuthorizationReasons
<1>6. \A e \in MandateErrors \cup Lost : translateMandate(e) = IF e[2] = "Unspecified" THEN "Unavailable" ELSE e[2]
  BY <1>2, <1>3, WordsOfErrors DEF translateMandate, MandateReasons
<1> QED BY <1>4, <1>5, <1>6

(* A reason ends in a status below 500 but where its channel has no word for it, *)
(* and what nobody knows in 503.                                                 *)
LEMMA Statuses ==
    /\ \A w \in PostingWords : w \notin Wordless("posting") => writeCoreError(w) \in Nat /\ writeCoreError(w) < 500
    /\ \A w \in AuthorizationWords : w \notin Wordless("authorization") => coreError(w) \in Nat /\ coreError(w) < 500
    /\ \A w \in MandateWords : w \notin Wordless("mandate") => mandateError(w) \in Nat /\ mandateError(w) < 500
    /\ writeCoreError("Unavailable") = 503 /\ coreError("Unavailable") = 503 /\ mandateError("Unavailable") = 503
    /\ mandateError("InsufficientFunds") = 402 /\ mandateError("MandateLimitExceeded") = 422
    /\ "MandateLimitExceeded" \notin AuthorizationWords /\ "MandateLimitExceeded" \notin PostingWords
<1>1. \A w \in PostingWords : w \notin Wordless("posting") => writeCoreError(w) \in Nat /\ writeCoreError(w) < 500
  BY DEF PostingWords, Wordless, writeCoreError
<1>2. \A w \in AuthorizationWords : w \notin Wordless("authorization") => coreError(w) \in Nat /\ coreError(w) < 500
  BY DEF AuthorizationWords, PostingWords, Wordless, coreError
<1>3. \A w \in MandateWords : w \notin Wordless("mandate") => mandateError(w) \in Nat /\ mandateError(w) < 500
  <2> TAKE w \in MandateWords
  <2>1. CASE w \in AuthorizationWords
    <3>1. mandateError(w) = coreError(w)
      BY <2>1 DEF AuthorizationWords, PostingWords, mandateError
    <3>2. Wordless("mandate") = Wordless("authorization")
      BY DEF Wordless
    <3> QED BY <1>2, <2>1, <3>1, <3>2
  <2>2. CASE w \notin AuthorizationWords
    BY <2>2 DEF MandateWords, mandateError
  <2> QED BY <2>1, <2>2
<1>4. writeCoreError("Unavailable") = 503 /\ coreError("Unavailable") = 503 /\ mandateError("Unavailable") = 503
  BY DEF writeCoreError, coreError, mandateError
<1>5. mandateError("InsufficientFunds") = 402 /\ mandateError("MandateLimitExceeded") = 422
  BY DEF coreError, mandateError
<1>6. "MandateLimitExceeded" \notin AuthorizationWords /\ "MandateLimitExceeded" \notin PostingWords
  BY DEF AuthorizationWords, PostingWords
<1> QED BY <1>1, <1>2, <1>3, <1>4, <1>5, <1>6

(* Of every error the core may give, the channel it is asked through says what   *)
(* it means.                                                                     *)
LEMMA AnswersAlwaysMatch == AnswersMatch
<1> DEFINE Fine(channel) ==
        /\ \A e \in Errors[channel] \cup Lost : e[2] = "Unspecified" => Answered(e, channel) = 503
        /\ \A e \in Refusals(channel) : e[2] \notin Wordless(channel) =>
              Answered(e, channel) \in Nat /\ Answered(e, channel) < 500
        /\ \A e, f \in Refusals(channel) : e[2] = "InsufficientFunds" /\ f[2] = "MandateLimitExceeded"
               => Answered(e, channel) # Answered(f, channel)
<1>1. Fine("posting")
  <2>1. \A e \in PostingErrors \cup Lost : Answered(e, "posting") = writeCoreError(translate(e))
    BY DEF Answered
  <2>2. Errors["posting"] = PostingErrors /\ Refusals("posting") = {e \in PostingErrors : e[2] # "Unspecified"}
    BY DEF Errors, Refusals
  <2>3. \A e \in PostingErrors : e[2] # "Unspecified" => e[2] \in PostingWords
    BY WordsOfErrors DEF Says
  <2> QED BY <2>1, <2>2, <2>3, TranslatedAs, Statuses
<1>2. Fine("authorization")
  <2>1. \A e \in AuthorizationErrors \cup Lost : Answered(e, "authorization") = coreError(translateAuthorization(e))
    BY DEF Answered
  <2>2. /\ Errors["authorization"] = AuthorizationErrors
        /\ Refusals("authorization") = {e \in AuthorizationErrors : e[2] # "Unspecified"}
    BY DEF Errors, Refusals
  <2>3. \A e \in AuthorizationErrors : e[2] # "Unspecified" => e[2] \in AuthorizationWords
    BY WordsOfErrors DEF Says
  <2> QED BY <2>1, <2>2, <2>3, TranslatedAs, Statuses
<1>3. Fine("mandate")
  <2>1. \A e \in MandateErrors \cup Lost : Answered(e, "mandate") = mandateError(translateMandate(e))
    BY DEF Answered
  <2>2. Errors["mandate"] = MandateErrors /\ Refusals("mandate") = {e \in MandateErrors : e[2] # "Unspecified"}
    BY DEF Errors, Refusals
  <2>3. \A e \in MandateErrors : e[2] # "Unspecified" => e[2] \in MandateWords
    BY WordsOfErrors DEF Says
  <2> QED BY <2>1, <2>2, <2>3, TranslatedAs, Statuses
<1>4. DOMAIN Errors = {"mandate", "authorization", "posting"} /\ \A c \in DOMAIN Errors : Errors[c] \subseteq MandateErrors
  BY DEF Errors, MandateErrors, AuthorizationErrors
<1>5. \A c \in DOMAIN Errors : Fine(c)
  BY <1>1, <1>2, <1>3, <1>4
<1>6. ASSUME NEW c \in DOMAIN Errors, NEW e \in Errors[c], Answered(e, c) = 503, e[2] \notin Wordless(c)
      PROVE  Retryable(translateMandate(e))
  <2>1. e[2] = "Unspecified"
    BY <1>5, <1>6 DEF Refusals
  <2>2. translateMandate(e) = "Unavailable"
    BY <1>4, <1>6, <2>1, TranslatedAs
  <2> QED BY <2>2 DEF Retryable
<1>7. ASSUME NEW c \in DOMAIN Errors, NEW e \in Errors[c] \cup Lost, e[2] = "Unspecified"
      PROVE  Answered(e, c) >= 500
  <2>1. Answered(e, c) = 503
    BY <1>5, <1>7
  <2> QED BY <2>1
<1> QED BY <1>5, <1>6, <1>7 DEF AnswersMatch

(* What a platform was told of an error of the core is what it means, and stays  *)
(* so: a payment that was answered is found, with its intent, and an account     *)
(* stays with the agent that was told it was theirs.                             *)
THEOREM PlatformsCanRely == Spec => []AnswersHold
<1>1. DInv => AnswersHold
  BY AnswersAlwaysMatch DEF DInv, Tables, AccountsFit, AnswersAreKept, AnswersHold
<1> QED BY <1>1, DelegationInvariant, PTL

-------------------------------------------------------------------------------
(* No mandate is alive that nobody answers for.                                   *)
Holding(g, m) == call[g].at \in {"approve", "undo"} /\ call[g].mandate = m

Settled(m) ==
    \/ m \in lost \/ mandates[m].status # "active"
    \/ /\ consents[mandates[m].consent].status = "APPROVED"
       /\ consents[mandates[m].consent].mandate = m

LEMMA LiveAgain ==
    ASSUME DInv, LiveMandatesAccountedFor, lost \subseteq lost',
           \A c \in Consents : consents[c].status = "APPROVED" => consents'[c] = consents[c],
           \A m \in Mandates : mandates'[m].status = "active" =>
               \/ mandates[m].status = "active" /\ mandates'[m].consent = mandates[m].consent
               \/ Settled(m)' \/ \E g \in Calls : Holding(g, m)',
           \A g \in Calls, m \in Mandates : Holding(g, m) => Holding(g, m)' \/ Settled(m)'
    PROVE  LiveMandatesAccountedFor'
<1> SUFFICES ASSUME NEW m \in Mandates, mandates'[m].status = "active"
             PROVE  Settled(m)' \/ \E g \in Calls : Holding(g, m)'
  BY DEF LiveMandatesAccountedFor, Settled, Holding
<1>1. CASE mandates[m].status = "active" /\ mandates'[m].consent = mandates[m].consent
  <2>1. Settled(m) \/ \E g \in Calls : Holding(g, m)
    <3>1. \/ /\ consents[mandates[m].consent].status = "APPROVED"
             /\ consents[mandates[m].consent].mandate = m
          \/ \E h \in Calls : call[h].at \in {"approve", "undo"} /\ call[h].mandate = m
          \/ m \in lost
      BY <1>1 DEF LiveMandatesAccountedFor
    <3> QED BY <3>1 DEF Settled, Holding
  <2>2. mandates[m].consent \in Consents
    <3>1. mandates[m] \in Permissions \cup {NoMandate}
      BY DEF DInv, Tables, TablesTypeOK
    <3> QED BY <1>1, <3>1 DEF Permissions, NoMandate
  <2>3. ASSUME Settled(m) PROVE Settled(m)'
    <3>1. CASE m \in lost
      BY <3>1 DEF Settled
    <3>2. CASE /\ consents[mandates[m].consent].status = "APPROVED"
               /\ consents[mandates[m].consent].mandate = m
      <4>1. consents'[mandates[m].consent] = consents[mandates[m].consent]
        BY <2>2, <3>2
      <4> QED BY <1>1, <3>2, <4>1 DEF Settled
    <3> QED BY <1>1, <2>3, <3>1, <3>2 DEF Settled
  <2> QED BY <2>1, <2>3
<1> QED BY <1>1

(* What other handlers do concerns no mandate that waits for its approval.        *)
LEMMA LiveElsewhere ==
    ASSUME DInv, LiveMandatesAccountedFor, UNCHANGED consentVars,
           \A g \in Calls : call[g].at \in {"approve", "undo"} => call'[g] = call[g]
    PROVE  LiveMandatesAccountedFor'
BY DEF LiveMandatesAccountedFor, consentVars

LEMMA HandlerAt ==
    ASSUME DInv, NEW h \in Calls, NEW t, call' = [call EXCEPT ![h] = t],
           call[h].at \notin {"approve", "undo"}
    PROVE  \A g \in Calls : call[g].at \in {"approve", "undo"} => call'[g] = call[g]
BY DEF DInv

LEMMA MovesOn ==
    ASSUME DInv, NEW h \in Calls, \/ \E t : Goto(h, t) \/ Start(h, t)
                                  \/ Return(h),
           call[h].at \notin {"approve", "undo"}
    PROVE  \A g \in Calls : call[g].at \in {"approve", "undo"} => call'[g] = call[g]
BY HandlerAt DEF Goto, Start, Return

LEMMA ConsentsKeepLive ==
    ASSUME DInv, LiveMandatesAccountedFor, NextConsents PROVE LiveMandatesAccountedFor'
<1>1. /\ consents \in [Consents -> Requests \cup {NoConsent}]
      /\ mandates \in [Mandates -> Permissions \cup {NoMandate}]
      /\ call \in [Calls -> Handlers]
  BY DEF DInv, Tables, TablesTypeOK
<1>2. ASSUME NEW h \in Calls, NEW limit \in Terms,
             \/ \E a \in AgentIds : handleCreateConsentRequest(h, a, limit)
             \/ \E c \in Consents : handleApproveConsent(h, c, limit)
             \/ AuthorizeGrant(h)
      PROVE  LiveMandatesAccountedFor'
  <2>1. /\ UNCHANGED consentVars /\ call[h].at \notin {"approve", "undo"}
        /\ (\E t : Goto(h, t) \/ Start(h, t)) \/ Return(h)
    BY <1>2 DEF handleCreateConsentRequest, handleApproveConsent, AuthorizeGrant, Start, Ask, Idle
  <2> QED BY <2>1, MovesOn, LiveElsewhere
<1>3. ASSUME NEW c \in Consents,
             Pass(c) \/ handleRejectConsent(c) \/ handleGetConsentRequest(c)
      PROVE  LiveMandatesAccountedFor'
  <2>1. UNCHANGED <<mandates, lost, call>>
    BY <1>3 DEF Pass, handleRejectConsent, handleGetConsentRequest, handlerVars
  <2>2. \A d \in Consents : consents[d].status = "APPROVED" => consents'[d] = consents[d]
    BY <1>1, <1>3 DEF Pass, handleRejectConsent, handleGetConsentRequest
  <2> QED BY <2>1, <2>2, LiveAgain DEF Holding
<1>4. ASSUME NEW h \in Calls, NEW c \in Consents, NewConsentRequest(h, c)
      PROVE  LiveMandatesAccountedFor'
  <2>1. UNCHANGED <<mandates, lost>> /\ call[h].at = "new" /\ call' = [call EXCEPT ![h] = Idle]
    BY <1>4 DEF NewConsentRequest, Return, Goto
  <2>2. \A d \in Consents : consents[d].status = "APPROVED" => consents'[d] = consents[d]
    BY <1>1, <1>4 DEF NewConsentRequest, NoConsent
  <2>3. \A g \in Calls, m \in Mandates : Holding(g, m) => Holding(g, m)'
    BY <1>1, <2>1 DEF Holding
  <2> QED BY <2>1, <2>2, <2>3, LiveAgain
<1>5. ASSUME NEW h \in Calls, NEW m \in Mandates, GrantMandate(h, m)
      PROVE  LiveMandatesAccountedFor'
  <2>1. call[h].at = "grant" /\ UNCHANGED consents /\ lost \subseteq lost'
    BY <1>5 DEF GrantMandate
  <2>2. call[h] \in Granting
    BY <1>1, <2>1 DEF Handlers, Idle, Asking, Granting, Paying, Opening
  <2>3. \A g \in Calls, n \in Mandates : Holding(g, n) => Holding(g, n)'
    BY <1>1, <1>5, <2>1 DEF Holding, GrantMandate, Goto, Return
  <2>4. \/ UNCHANGED mandates
        \/ /\ \A n \in Mandates \ {m} : mandates'[n] = mandates[n]
           /\ m \in lost' \/ Holding(h, m)'
    <3>1. CASE Goto(h, [call[h] EXCEPT !.at = "approve", !.mandate = m])
      <4>1. call'[h] = [call[h] EXCEPT !.at = "approve", !.mandate = m]
        BY <1>1, <3>1 DEF Goto
      <4>2. call'[h].at = "approve" /\ call'[h].mandate = m
        BY <2>2, <4>1 DEF Granting
      <4>3. Holding(h, m)'
        BY <4>2 DEF Holding
      <4> QED BY <1>1, <1>5, <4>3 DEF GrantMandate
    <3>2. CASE ~Goto(h, [call[h] EXCEPT !.at = "approve", !.mandate = m])
      BY <1>1, <1>5, <3>2 DEF GrantMandate
    <3> QED BY <3>1, <3>2
  <2>5. \A n \in Mandates : mandates'[n].status = "active" =>
            \/ mandates[n].status = "active" /\ mandates'[n].consent = mandates[n].consent
            \/ Settled(n)' \/ \E g \in Calls : Holding(g, n)'
    <3>1. ASSUME m \in lost' PROVE Settled(m)'
      BY <3>1 DEF Settled
    <3>2. CASE UNCHANGED mandates
      BY <3>2
    <3>3. CASE /\ \A n \in Mandates \ {m} : mandates'[n] = mandates[n]
               /\ m \in lost' \/ Holding(h, m)'
      BY <3>1, <3>3
    <3> QED BY <2>4, <3>2, <3>3
  <2> QED BY <2>1, <2>3, <2>5, LiveAgain
<1>6. ASSUME NEW h \in Calls, ApproveConsentRequest(h) PROVE LiveMandatesAccountedFor'
  <2>1. PICK t \in Granting : t = call[h] /\ Stands(t)
    BY <1>6, CarriesTerms DEF ApproveConsentRequest
  <2>2. /\ UNCHANGED <<mandates, lost>> /\ t.mandate \in Mandates
        /\ mandates[t.mandate].consent = t.consent /\ t.consent \in Consents
    BY <1>6, <2>1 DEF ApproveConsentRequest, Stands, Granting
  <2>3. \A d \in Consents : consents[d].status = "APPROVED" => consents'[d] = consents[d]
    BY <1>1, <1>6, <2>1, <2>2 DEF ApproveConsentRequest
  <2>4. \/ /\ consents[t.consent].status = "PENDING" /\ Return(h)
           /\ consents' = [consents EXCEPT ![t.consent] =
                              [@ EXCEPT !.status = "APPROVED", !.mandate = t.mandate]]
        \/ Goto(h, [t EXCEPT !.at = "undo"])
    BY <1>6, <2>1 DEF ApproveConsentRequest
  <2>5. Holding(h, t.mandate)' \/ Settled(t.mandate)'
    <3>1. CASE Goto(h, [t EXCEPT !.at = "undo"])
      BY <1>1, <3>1 DEF Holding, Goto, Granting
    <3>2. CASE /\ consents[t.consent].status = "PENDING"
               /\ consents' = [consents EXCEPT ![t.consent] =
                                  [@ EXCEPT !.status = "APPROVED", !.mandate = t.mandate]]
      <4>1. consents[t.consent] \in Requests
        BY <2>2, <3>2, RequestRow
      <4>2. consents'[t.consent].status = "APPROVED" /\ consents'[t.consent].mandate = t.mandate
        BY <1>1, <2>2, <3>2, <4>1 DEF Requests
      <4> QED BY <2>2, <4>2 DEF Settled
    <3> QED BY <2>4, <3>1, <3>2
  <2>6. \A g \in Calls \ {h} : call'[g] = call[g]
    BY <1>1, <2>4 DEF Goto, Return
  <2>7. \A g \in Calls, m \in Mandates : Holding(g, m) => Holding(g, m)' \/ Settled(m)'
    BY <2>1, <2>5, <2>6 DEF Holding
  <2> QED BY <2>2, <2>3, <2>7, LiveAgain
<1>7. ASSUME NEW h \in Calls, RollbackMandate(h) \/ Crash(h) PROVE LiveMandatesAccountedFor'
  <2>1. call' = [call EXCEPT ![h] = Idle] /\ UNCHANGED consents /\ lost \subseteq lost'
    BY <1>7 DEF RollbackMandate, Crash, Return, Goto
  <2>2. ASSUME NEW m \in Mandates, Holding(h, m) PROVE Settled(m)'
    <3>1. call[h].at \in {"approve", "undo"} /\ call[h].mandate = m
      BY <2>2 DEF Holding
    <3>2. CASE m \in lost'
      BY <3>2 DEF Settled
    <3>3. CASE mandates' = Revoked(m)
      <4>1. mandates'[m] = [mandates[m] EXCEPT !.status = "revoked"]
        BY <1>1, <3>3 DEF Revoked
      <4>2. mandates[m] \in Permissions \cup {NoMandate}
        BY <1>1
      <4>3. mandates'[m].status = "revoked"
        BY <4>1, <4>2 DEF Permissions, NoMandate
      <4> QED BY <4>3 DEF Settled
    <3> QED BY <1>7, <3>1, <3>2, <3>3 DEF RollbackMandate, Crash
  <2>3. \A m \in Mandates : mandates'[m].status = "active" =>
            mandates[m].status = "active" /\ mandates'[m].consent = mandates[m].consent
    <3>1. CASE UNCHANGED mandates
      BY <3>1
    <3>2. CASE RollbackMandate(h)
      <4>1. PICK t \in Granting : t = call[h] /\ Stands(t)
        BY <3>2, CarriesTerms DEF RollbackMandate
      <4>2. mandates[t.mandate] \in Permissions /\ t.mandate \in Mandates
        BY <1>1, <3>2, <4>1 DEF RollbackMandate, Stands
      <4> QED BY <1>1, <3>2, <4>1, <4>2 DEF RollbackMandate, Revoked, Permissions
    <3> QED BY <1>7, <3>1, <3>2 DEF Crash
  <2>4. \A g \in Calls \ {h} : call'[g] = call[g]
    BY <1>1, <2>1
  <2>5. \A g \in Calls, m \in Mandates : Holding(g, m) => Holding(g, m)' \/ Settled(m)'
    BY <2>2, <2>4 DEF Holding
  <2> QED BY <2>1, <2>3, <2>5, LiveAgain
<1>8. ASSUME NEW m \in Mandates, handleRevokeMandate(m) PROVE LiveMandatesAccountedFor'
  <2>1. UNCHANGED <<consents, lost, call>> /\ mandates' = Revoked(m) /\ mandates[m].status = "active"
    BY <1>8 DEF handleRevokeMandate, handlerVars
  <2>2. mandates[m] \in Permissions
    BY <1>1, <2>1 DEF NoMandate
  <2>3. \A n \in Mandates : mandates'[n].status = "active" =>
            mandates[n].status = "active" /\ mandates'[n].consent = mandates[n].consent
    BY <1>1, <2>1, <2>2 DEF Revoked, Permissions
  <2> QED BY <2>1, <2>3, LiveAgain DEF Holding
<1> QED BY <1>2, <1>3, <1>4, <1>5, <1>6, <1>7, <1>8 DEF NextConsents, Terms

LEMMA NextLive ==
    ASSUME DInv, LiveMandatesAccountedFor, [Next]_vars PROVE LiveMandatesAccountedFor'
<1>1. CASE NextConsents
  BY <1>1, ConsentsKeepLive
<1>2. ASSUME UNCHANGED <<consentVars, call>> PROVE LiveMandatesAccountedFor'
  BY <1>2, LiveElsewhere
<1>3. ASSUME NEW h \in Calls,
             \/ \E k \in Keys, n \in PayKeys, p \in Mandates \cup Refs : handleAuthorize(h, k, n, p)
             \/ resolveMandate(h) \/ checkAgentScope(h) \/ decideMandatePayment(h)
             \/ AuthorizeUnderMandate(h) \/ RecordIntent(h)
             \/ \E r \in Refs, a \in AgentIds : handleOpenAccount(h, r, a)
             \/ OpenCustomerAccount(h) \/ LinkAccount(h) \/ fundSandboxAccount(h) \/ bindAccountAgent(h)
      PROVE  LiveMandatesAccountedFor'
  <2>1. /\ UNCHANGED consentVars /\ call[h].at \notin {"approve", "undo"}
        /\ (\E t : Goto(h, t) \/ Start(h, t)) \/ Return(h)
    BY <1>3 DEF handleAuthorize, resolveMandate, checkAgentScope, decideMandatePayment,
                AuthorizeUnderMandate, RecordIntent, handleOpenAccount, OpenCustomerAccount,
                LinkAccount, fundSandboxAccount, bindAccountAgent, Start, Idle
  <2> QED BY <2>1, MovesOn, LiveElsewhere
<1> QED BY <1>1, <1>2, <1>3 DEF Next, vars, handlerVars, Elsewhere

(* Of the mandates two services make together without a transaction, each that is *)
(* in force is the approved one of its request, in the hands of a handler, or one *)
(* whose handler could not carry it to an end (bff/consent.go).                   *)
THEOREM NoMandateUnaccounted == Spec => []LiveMandatesAccountedFor
<1>1. Init => LiveMandatesAccountedFor
  BY DEF Init, InitConsents, LiveMandatesAccountedFor, NoMandate
<1> QED BY <1>1, NextLive, InitDInv, NextDInv, PTL DEF Spec

(******************************************************************************)
(* OAuth and Agents: for any agents, keys, transactions and scopes, and any   *)
(* number of rotations.                                                       *)
(******************************************************************************)
KeyRows == [agent : AgentIds \cup {"none"}, expires : Nat, retired : BOOLEAN]

Adding    == [at : {"adding", "retiring"}, agent : AgentIds, now : 0 .. MaxTime]
Inserting == [at : {"insert"}, agent : AgentIds, now : 0 .. MaxTime, old : SUBSET Keys]
Retiring  == [at : {"retire"}, agent : AgentIds, now : 0 .. MaxTime, key : Keys]

AgentsTypeOK ==
    /\ keys \in [Keys -> KeyRows] /\ known \subseteq AgentIds /\ now \in 0 .. MaxTime
    /\ tx \in [Transactions -> {NoTx} \cup Adding \cup Inserting \cup Retiring]

Endless(a) == {k \in KeysOf(a) : ~keys[k].retired /\ keys[k].expires = Never}

(* Who has locked an agent is alone with it, and knows all its endless keys when  *)
(* it inserts one.                                                                *)
KInv ==
    /\ AgentsTypeOK
    /\ \A k \in Keys : keys[k] # NoKey => keys[k].agent \in known
    /\ \A s \in Transactions : tx[s] # NoTx => tx[s].agent \in known
    /\ \A s, u \in Transactions : tx[s] # NoTx /\ tx[u] # NoTx /\ tx[s].agent = tx[u].agent => s = u
    /\ \A s \in Transactions : tx[s].at = "insert" =>
          Endless(tx[s].agent) \subseteq tx[s].old /\ \A k \in tx[s].old : keys[k] # NoKey
    /\ \A s \in Transactions : tx[s].at = "retire" => keys[tx[s].key] # NoKey
    /\ \A a \in AgentIds : \A k, l \in Endless(a) : k = l

(* A token was bought with a secret that was good, and does not live longer.      *)
Tokens == [secret : Nat, scopes : SUBSET Scopes, key : Nat, expires : Nat]

OInv ==
    /\ now \in Nat /\ issued \in Seq(Nat) /\ signing \in Nat /\ tokens \subseteq Tokens
    /\ \A i \in 1 .. Len(issued) : issued[i] <= now
    /\ \A t \in tokens :
          /\ t.secret \in 1 .. Len(issued) /\ t.expires <= now + TokenTTL
          /\ t.secret < Len(issued) =>
                t.expires <= issued[t.secret + 1] + SecretGraceWindow + TokenTTL

LEMMA NeverIsFar == Never \in Nat /\ \A t \in 0 .. MaxTime : t < Never /\ t + RotationWindow # Never
  /\ t + RotationWindow \in Nat
BY AgentsAssumption DEF Never

LEMMA EndlessIsAKey ==
    ASSUME AgentsTypeOK, NEW a, NEW k \in Endless(a)
    PROVE  k \in Keys /\ keys[k] # NoKey /\ keys[k].agent = a /\ ~keys[k].retired /\ keys[k].expires = Never
BY NeverIsFar, AgentsAssumption DEF Endless, KeysOf, NoKey, Never

LEMMA Rows ==
    ASSUME KInv
    PROVE  /\ keys \in [Keys -> KeyRows] /\ known \subseteq AgentIds /\ now \in 0 .. MaxTime
           /\ tx \in [Transactions -> {NoTx} \cup Adding \cup Inserting \cup Retiring]
           /\ \A s \in Transactions : tx[s].at = "insert" => tx[s] \in Inserting
           /\ \A s \in Transactions : tx[s].at = "retire" => tx[s] \in Retiring
           /\ \A s \in Transactions : tx[s].at \in {"adding", "retiring"} => tx[s] \in Adding
<1>1. AgentsTypeOK
  BY DEF KInv
<1> QED BY <1>1 DEF AgentsTypeOK, Adding, Inserting, Retiring, NoTx

(* A transaction that goes on or ends, and makes no key endless, leaves all well. *)
LEMMA KeysOnlyEnd ==
    ASSUME KInv, AgentsTypeOK', known' = known, NEW s \in Transactions, NEW t,
           tx' = [tx EXCEPT ![s] = t],
           t # NoTx => tx[s] # NoTx /\ t.agent = tx[s].agent,
           t.at = "insert" => Endless(tx[s].agent) \subseteq t.old /\ \A k \in t.old : keys[k] # NoKey,
           t.at = "retire" => t.key \in Keys /\ keys[t.key] # NoKey,
           \A k \in Keys : keys[k] # NoKey => keys'[k] # NoKey,
           \A k \in Keys : keys'[k] # NoKey => keys'[k].agent \in known,
           \A a \in AgentIds : Endless(a)' \subseteq Endless(a)
    PROVE  KInv'
<1>1. tx'[s] = t /\ \A u \in Transactions \ {s} : tx'[u] = tx[u]
  BY Rows
<1>2. \A u \in Transactions : tx'[u] # NoTx => tx[u] # NoTx /\ tx'[u].agent = tx[u].agent
  BY <1>1
<1>3. ASSUME NEW u \in Transactions, tx'[u].at = "insert"
      PROVE  Endless(tx[u].agent)' \subseteq tx'[u].old /\ \A k \in tx'[u].old : keys'[k] # NoKey
  <2>1. tx'[u] # NoTx /\ tx'[u] \in Inserting
    BY <1>3 DEF NoTx, AgentsTypeOK, Adding, Retiring, Inserting
  <2>2. PICK a \in AgentIds : a = tx[u].agent /\ a = tx'[u].agent
    BY <1>2, <2>1 DEF Inserting
  <2>3. Endless(a) \subseteq tx'[u].old /\ \A k \in tx'[u].old : keys[k] # NoKey
    BY <1>1, <1>3, <2>2 DEF KInv
  <2>4. tx'[u].old \subseteq Keys
    BY <2>1 DEF Inserting
  <2>5. Endless(a)' \subseteq Endless(a)
    OBVIOUS
  <2> QED BY <2>2, <2>3, <2>4, <2>5
<1>4. ASSUME NEW u \in Transactions, tx'[u].at = "retire" PROVE keys'[tx'[u].key] # NoKey
  BY <1>1, <1>4, Rows DEF KInv, Retiring
<1>5. \A u \in Transactions : tx'[u] # NoTx => tx'[u].agent \in known'
  BY <1>2 DEF KInv
<1>6. \A u, v \in Transactions :
          tx'[u] # NoTx /\ tx'[v] # NoTx /\ tx'[u].agent = tx'[v].agent => u = v
  BY <1>2 DEF KInv
<1>7. \A a \in AgentIds : \A k, l \in Endless(a)' : k = l
  BY DEF KInv
<1> QED BY <1>3, <1>4, <1>5, <1>6, <1>7 DEF KInv

LEMMA CurrentIsAKey ==
    ASSUME AgentsTypeOK, NEW a, NEW t \in Nat, NEW k \in Current(a, t)
    PROVE  k \in Keys /\ keys[k] # NoKey /\ keys[k].agent = a
BY DEF Current, KeysOf, ValidAt, NoKey

LEMMA LockKeeps ==
    ASSUME KInv, NEW s \in Transactions, NEW a \in AgentIds, BeginAddKey(s, a) \/ BeginRetireKey(s, a)
    PROVE  KInv'
<1>1. PICK t \in Adding :
          /\ t.agent = a /\ tx' = [tx EXCEPT ![s] = t] /\ t.at # "insert" /\ t # NoTx
  BY Rows DEF BeginAddKey, BeginRetireKey, lockLiveAgent, Adding, NoTx
<1>2. /\ tx[s] = NoTx /\ a \in known /\ UNCHANGED <<keys, known, now>>
      /\ \A u \in Transactions : tx[u] # NoTx => tx[u].agent # a
  BY DEF BeginAddKey, BeginRetireKey, lockLiveAgent, Locked
<1>3. tx'[s] = t /\ \A u \in Transactions \ {s} : tx'[u] = tx[u]
  BY <1>1, Rows
<1>4. AgentsTypeOK'
  BY <1>1, <1>2, Rows DEF AgentsTypeOK
<1>5. \A b \in AgentIds : Endless(b)' = Endless(b)
  BY <1>2 DEF Endless, KeysOf
<1>6. \A u \in Transactions : tx'[u].at = "insert" => Endless(tx[u].agent)' \subseteq tx'[u].old
  BY <1>1, <1>2, <1>3 DEF KInv, Endless, KeysOf
<1>7. \A u \in Transactions : tx'[u].at \in {"insert", "retire"} => tx'[u] = tx[u]
  BY <1>1, <1>3 DEF Adding
<1> QED BY <1>1, <1>2, <1>3, <1>4, <1>5, <1>6, <1>7 DEF KInv

LEMMA ExpireKeeps ==
    ASSUME KInv, NEW s \in Transactions, ExpireKeys(s) PROVE KInv'
<1>1. tx[s] \in Adding /\ UNCHANGED <<keys, known, now>>
  BY Rows DEF ExpireKeys
<1>2. PICK t : t = [at |-> "insert", agent |-> tx[s].agent, now |-> tx[s].now,
                    old |-> Current(tx[s].agent, tx[s].now)]
  OBVIOUS
<1>3. t \in Inserting /\ tx' = [tx EXCEPT ![s] = t] /\ t # NoTx
  BY <1>1, <1>2 DEF ExpireKeys, Inserting, Adding, Current, KeysOf, NoTx
<1>4. Endless(tx[s].agent) \subseteq t.old
  <2>1. tx[s].agent \in AgentIds /\ tx[s].now < Never
    BY <1>1, NeverIsFar DEF Adding
  <2> QED BY <1>2, <2>1 DEF Endless, Current, ValidAt, KeysOf
<1>5. AgentsTypeOK'
  BY <1>1, <1>3, Rows DEF AgentsTypeOK
<1>6. tx'[s] = t /\ tx[s] # NoTx /\ t.agent = tx[s].agent /\ \A u \in Transactions \ {s} : tx'[u] = tx[u]
  BY <1>1, <1>2, <1>3, Rows DEF Adding, NoTx
<1>7. \A b \in AgentIds : Endless(b)' \subseteq Endless(b)
  BY <1>1 DEF Endless, KeysOf
<1>8. \A k \in t.old : keys[k] # NoKey
  BY <1>1, <1>2, CurrentIsAKey DEF KInv, Adding
<1>9. t.at # "retire"
  BY <1>2
<1>10. /\ \A k \in Keys : keys[k] # NoKey => keys'[k] # NoKey
       /\ \A k \in Keys : keys'[k] # NoKey => keys'[k].agent \in known
  BY <1>1 DEF KInv
<1> QED BY <1>1, <1>3, <1>4, <1>5, <1>6, <1>7, <1>8, <1>9, <1>10, KeysOnlyEnd

LEMMA EndsTransaction ==
    ASSUME KInv, NEW s \in Transactions, UNCHANGED <<keys, known, now>>,
           NEW t \in {NoTx} \cup Retiring, tx' = [tx EXCEPT ![s] = t],
           t # NoTx => tx[s] # NoTx /\ t.agent = tx[s].agent /\ keys[t.key] # NoKey
    PROVE  KInv'
<1>1. AgentsTypeOK'
  BY Rows DEF AgentsTypeOK
<1>2. tx'[s] = t /\ t.at # "insert" /\ \A u \in Transactions \ {s} : tx'[u] = tx[u]
  BY Rows DEF Retiring, NoTx
<1>3. \A b \in AgentIds : Endless(b)' \subseteq Endless(b)
  BY DEF Endless, KeysOf
<1>4. t.at = "retire" => t.key \in Keys /\ keys[t.key] # NoKey
  BY DEF Retiring, NoTx
<1>5. /\ \A k \in Keys : keys[k] # NoKey => keys'[k] # NoKey
      /\ \A k \in Keys : keys'[k] # NoKey => keys'[k].agent \in known
  BY DEF KInv
<1> QED BY <1>1, <1>2, <1>3, <1>4, <1>5, KeysOnlyEnd

LEMMA CountKeeps ==
    ASSUME KInv, NEW s \in Transactions, NEW k \in Keys, CountKeys(s, k) PROVE KInv'
<1>1. tx[s] \in Adding /\ UNCHANGED <<keys, known, now>>
  BY Rows DEF CountKeys
<1>2. CASE k \in Current(tx[s].agent, tx[s].now) /\ Current(tx[s].agent, tx[s].now) \ {k} # {}
  <2>1. PICK t : t = [at |-> "retire", agent |-> tx[s].agent, now |-> tx[s].now, key |-> k]
    OBVIOUS
  <2>2. t \in Retiring /\ t.agent = tx[s].agent /\ t.key = k /\ tx' = [tx EXCEPT ![s] = t]
    BY <1>1, <1>2, <2>1 DEF CountKeys, Adding, Retiring
  <2>3. keys[k] # NoKey
    BY <1>1, <1>2 DEF Current, ValidAt, NoKey, Adding
  <2>4. tx[s] # NoTx
    BY <1>1 DEF Adding, NoTx
  <2> QED BY <1>1, <2>2, <2>3, <2>4, EndsTransaction
<1>3. CASE ~(k \in Current(tx[s].agent, tx[s].now) /\ Current(tx[s].agent, tx[s].now) \ {k} # {})
  BY <1>1, <1>3, EndsTransaction DEF CountKeys
<1> QED BY <1>2, <1>3

LEMMA RetireKeeps ==
    ASSUME KInv, NEW s \in Transactions, RetireKey(s) PROVE KInv'
<1>1. tx[s] \in Retiring /\ UNCHANGED <<known, now>>
  BY Rows DEF RetireKey
<1>2. PICK k \in Keys : k = tx[s].key
  BY <1>1 DEF Retiring
<1>3. /\ keys' = [keys EXCEPT ![k].retired = TRUE] /\ tx' = [tx EXCEPT ![s] = NoTx]
  BY <1>2 DEF RetireKey
<1>4. AgentsTypeOK'
  BY <1>1, <1>3, Rows DEF AgentsTypeOK, KeyRows
<1>5. /\ \A l \in Keys \ {k} : keys'[l] = keys[l]
      /\ keys'[k].agent = keys[k].agent /\ keys'[k].retired
  BY <1>3, Rows DEF KeyRows
<1>6. \A b \in AgentIds : Endless(b)' \subseteq Endless(b)
  BY <1>5 DEF Endless, KeysOf
<1>7. keys[k] # NoKey /\ \A l \in Keys : keys[l] # NoKey => keys'[l] # NoKey
  BY <1>2, <1>5 DEF KInv, RetireKey, NoKey
<1>8. \A u \in Transactions : tx'[u] # NoTx => tx'[u] = tx[u]
  BY <1>3, Rows
<1>9. \A l \in Keys : keys'[l] # NoKey => keys'[l].agent \in known
  BY <1>5, <1>7 DEF KInv
<1>10. NoTx.at # "insert" /\ NoTx.at # "retire"
  BY DEF NoTx
<1> QED BY <1>1, <1>3, <1>4, <1>6, <1>7, <1>9, <1>10, KeysOnlyEnd

(* A new key has an agent of its own, or every other endless one got its end.     *)
LEMMA AddKeeps ==
    ASSUME KInv, NEW s \in Transactions, NEW k \in Keys, AddKey(s, k) PROVE KInv'
<1>1. tx[s] \in Inserting /\ UNCHANGED <<known, now>> /\ tx' = [tx EXCEPT ![s] = NoTx] /\ keys[k] = NoKey
  BY Rows DEF AddKey
<1>2. PICK t \in Inserting : t = tx[s]
  BY <1>1
<1>3. /\ t.agent \in AgentIds /\ t.agent \in known /\ t.old \subseteq Keys
      /\ t.now + RotationWindow # Never /\ t.now + RotationWindow \in Nat /\ t.now + RotationWindow # 0
  <2>1. t.now \in 0 .. MaxTime /\ t.now + RotationWindow # 0
    BY AgentsAssumption DEF Inserting
  <2>2. t.agent \in known /\ t.agent \in AgentIds /\ t.old \subseteq Keys
    BY <1>2 DEF KInv, Inserting, NoTx
  <2> QED BY <2>1, <2>2, NeverIsFar
<1>4. keys' = [x \in Keys |-> IF x \in t.old THEN [keys[x] EXCEPT !.expires = t.now + RotationWindow]
                              ELSE insertKey(k, t.agent)[x]]
  BY <1>2 DEF AddKey
<1>5. ASSUME NEW x \in Keys
      PROVE  \/ x \in t.old /\ keys'[x] = [keys[x] EXCEPT !.expires = t.now + RotationWindow]
             \/ x \notin t.old /\ x = k /\ keys'[x] = [agent |-> t.agent, expires |-> Never, retired |-> FALSE]
             \/ x \notin t.old /\ x # k /\ keys'[x] = keys[x]
  BY <1>4, Rows DEF insertKey
<1>6. \A x \in Keys :
          /\ keys'[x] \in KeyRows
          /\ x \in t.old => keys'[x].agent = keys[x].agent /\ keys'[x].expires # Never /\ keys'[x] # NoKey
          /\ x \notin t.old /\ x = k =>
                keys'[x].agent = t.agent /\ keys'[x].expires = Never /\ ~keys'[x].retired /\ keys'[x] # NoKey
          /\ x \notin t.old /\ x # k => keys'[x] = keys[x]
  <2> SUFFICES ASSUME NEW x \in Keys
               PROVE  /\ keys'[x] \in KeyRows
                      /\ x \in t.old => /\ keys'[x].agent = keys[x].agent
                                        /\ keys'[x].expires # Never /\ keys'[x] # NoKey
                      /\ x \notin t.old /\ x = k =>
                            /\ keys'[x].agent = t.agent /\ keys'[x].expires = Never
                            /\ ~keys'[x].retired /\ keys'[x] # NoKey
                      /\ x \notin t.old /\ x # k => keys'[x] = keys[x]
    OBVIOUS
  <2>1. keys[x] \in KeyRows /\ Never \in Nat /\ Never # 0
    BY Rows, NeverIsFar, AgentsAssumption DEF Never
  <2>2. CASE x \in t.old
    <3>1. keys'[x] = [keys[x] EXCEPT !.expires = t.now + RotationWindow]
      BY <1>5, <2>2
    <3>2. keys'[x] \in KeyRows /\ keys'[x].agent = keys[x].agent
          /\ keys'[x].expires = t.now + RotationWindow
      BY <1>3, <2>1, <3>1 DEF KeyRows
    <3>3. keys'[x] # NoKey
      BY <1>3, <3>2 DEF NoKey
    <3> QED BY <1>3, <2>2, <3>2, <3>3
  <2>3. CASE x \notin t.old /\ x = k
    <3>1. keys'[x] = [agent |-> t.agent, expires |-> Never, retired |-> FALSE]
      BY <1>5, <2>3
    <3> QED BY <1>3, <2>1, <2>3, <3>1 DEF KeyRows, NoKey
  <2>4. CASE x \notin t.old /\ x # k
    BY <1>5, <2>1, <2>4
  <2> QED BY <2>2, <2>3, <2>4
<1>7. AgentsTypeOK'
  <2>1. keys' \in [Keys -> KeyRows]
    BY <1>4, <1>6
  <2> QED BY <1>1, <2>1, Rows DEF AgentsTypeOK
<1>8. ASSUME NEW x \in Keys, keys'[x] # NoKey PROVE keys'[x].agent \in known'
  <2>1. CASE x \in t.old
    <3>1. keys[x] # NoKey
      <4>1. tx[s].at = "insert"
        BY <1>1 DEF Inserting
      <4> QED BY <1>2, <2>1, <4>1 DEF KInv
    <3> QED BY <1>1, <1>6, <2>1, <3>1 DEF KInv
  <2>2. CASE x \notin t.old /\ x = k
    BY <1>1, <1>3, <1>6, <2>2
  <2>3. CASE x \notin t.old /\ x # k
    BY <1>1, <1>6, <1>8, <2>3 DEF KInv
  <2> QED BY <2>1, <2>2, <2>3
<1>9. \A u \in Transactions : tx'[u] # NoTx => u # s /\ tx'[u] = tx[u]
  BY <1>1, Rows
<1>10. Endless(t.agent)' \subseteq {k}
  <2> SUFFICES ASSUME NEW x \in Endless(t.agent)' PROVE x = k
    OBVIOUS
  <2>1. x \in Keys /\ keys'[x].agent = t.agent /\ ~keys'[x].retired /\ keys'[x].expires = Never
    BY DEF Endless, KeysOf
  <2>2. x \notin t.old
    BY <1>6, <2>1
  <2>3. x # k => x \in Endless(t.agent)
    BY <1>6, <2>1, <2>2 DEF Endless, KeysOf
  <2>4. Endless(t.agent) \subseteq t.old
    BY <1>2 DEF KInv, Inserting
  <2> QED BY <2>2, <2>3, <2>4
<1>11. \A b \in AgentIds \ {t.agent} : Endless(b)' \subseteq Endless(b)
  <2> SUFFICES ASSUME NEW b \in AgentIds \ {t.agent}, NEW x \in Endless(b)' PROVE x \in Endless(b)
    OBVIOUS
  <2>1. x \in Keys /\ keys'[x].agent = b /\ ~keys'[x].retired /\ keys'[x].expires = Never
    BY DEF Endless, KeysOf
  <2>2. x \notin t.old /\ x # k
    BY <1>6, <2>1
  <2> QED BY <1>6, <2>1, <2>2 DEF Endless, KeysOf
<1>12. ASSUME NEW u \in Transactions, tx'[u].at = "insert"
       PROVE  Endless(tx[u].agent)' \subseteq tx'[u].old /\ \A x \in tx'[u].old : keys'[x] # NoKey
  <2>1. tx'[u] = tx[u] /\ u # s /\ tx[u] # NoTx
    BY <1>9, <1>12 DEF NoTx
  <2>2. PICK b \in AgentIds : b = tx[u].agent /\ b # t.agent
    BY <1>2, <2>1 DEF KInv, AgentsTypeOK, Inserting, NoTx
  <2>3. Endless(b) \subseteq tx[u].old
    BY <1>12, <2>1, <2>2 DEF KInv
  <2>4. tx[u].old \subseteq Keys /\ \A x \in tx[u].old : keys[x] # NoKey
    BY <1>12, <2>1, Rows DEF KInv, Inserting
  <2>5. \A x \in tx[u].old : keys'[x] # NoKey
    BY <1>1, <1>6, <2>4
  <2> QED BY <1>11, <2>1, <2>2, <2>3, <2>5
<1>13. \A b \in AgentIds : \A x, y \in Endless(b)' : x = y
  BY <1>10, <1>11 DEF KInv
<1>14. \A u \in Transactions : tx'[u].at = "retire" => keys'[tx'[u].key] # NoKey
  <2> SUFFICES ASSUME NEW u \in Transactions, tx'[u].at = "retire" PROVE keys'[tx'[u].key] # NoKey
    OBVIOUS
  <2>1. tx'[u] = tx[u] /\ tx[u] \in Retiring /\ keys[tx[u].key] # NoKey
    BY <1>9, Rows DEF NoTx, KInv
  <2>2. tx[u].key \in Keys
    BY <2>1 DEF Retiring
  <2> QED BY <1>6, <2>1, <2>2
<1>15. \A u \in Transactions : tx'[u] # NoTx => tx'[u].agent \in known'
  BY <1>1, <1>9 DEF KInv
<1>16. \A u, v \in Transactions :
          tx'[u] # NoTx /\ tx'[v] # NoTx /\ tx'[u].agent = tx'[v].agent => u = v
  BY <1>9 DEF KInv
<1> QED BY <1>7, <1>8, <1>12, <1>13, <1>14, <1>15, <1>16 DEF KInv

LEMMA RegisterKeeps ==
    ASSUME KInv, NEW a \in AgentIds, NEW k \in Keys, Register(a, k) PROVE KInv'
<1>1. /\ a \notin known /\ keys[k] = NoKey /\ known' = known \cup {a} /\ UNCHANGED <<now, tx>>
      /\ keys' = [keys EXCEPT ![k] = [agent |-> a, expires |-> Never, retired |-> FALSE]]
  BY DEF Register, insertKey
<1>2. PICK r : r = [agent |-> a, expires |-> Never, retired |-> FALSE]
  OBVIOUS
<1>3. r \in KeyRows /\ r.agent = a /\ keys'[k] = r /\ \A l \in Keys \ {k} : keys'[l] = keys[l]
  BY <1>1, <1>2, Rows, NeverIsFar DEF KeyRows
<1>4. AgentsTypeOK'
  BY <1>1, <1>3, Rows DEF AgentsTypeOK
<1>5. Endless(a)' \subseteq {k}
  BY <1>1, <1>3, NeverIsFar, AgentsAssumption DEF Endless, KeysOf, KInv, NoKey, Never
<1>6. \A b \in AgentIds \ {a} : Endless(b)' \subseteq Endless(b)
  BY <1>3 DEF Endless, KeysOf
<1>7. ASSUME NEW u \in Transactions, tx[u].at = "insert" PROVE Endless(tx[u].agent)' \subseteq tx[u].old
  <2>1. PICK b \in AgentIds : b = tx[u].agent /\ b # a
    BY <1>1, <1>7 DEF KInv, AgentsTypeOK, NoTx
  <2>2. Endless(b)' \subseteq Endless(b) /\ Endless(b) \subseteq tx[u].old
    BY <1>6, <1>7, <2>1 DEF KInv
  <2> QED BY <1>1, <2>1, <2>2
<1>8. \A u \in Transactions : tx[u].at = "retire" => keys'[tx[u].key] # NoKey
  BY <1>1, <1>3, Rows DEF KInv, Retiring
<1>9. \A b \in AgentIds : \A x, y \in Endless(b)' : x = y
  BY <1>5, <1>6 DEF KInv
<1>10. \A l \in Keys : keys'[l] # NoKey => keys'[l].agent \in known'
  BY <1>1, <1>3 DEF KInv
<1> QED BY <1>1, <1>4, <1>7, <1>8, <1>9, <1>10 DEF KInv

LEMMA NextKInv == ASSUME KInv, [NextAccess]_accessVars PROVE KInv'
<1>1. ASSUME UNCHANGED <<keys, known, tx>>, now' \in 0 .. MaxTime PROVE KInv'
  BY <1>1 DEF KInv, AgentsTypeOK, Endless, KeysOf
<1>2. CASE Tick
  <2>1. now' \in 0 .. MaxTime
    BY <1>2, Rows, AgentsAssumption DEF Tick
  <2> QED BY <1>1, <1>2, <2>1 DEF Tick
<1>3. ASSUME NEW a \in AgentIds, Revoke(a) PROVE KInv'
  BY <1>1, <1>3, Rows DEF Revoke
<1>4. ASSUME NEW s \in Transactions, Rollback(s) PROVE KInv'
  BY <1>4, EndsTransaction DEF Rollback
<1>5. CASE UNCHANGED agentVars
  BY <1>1, <1>5, Rows DEF agentVars
<1>6. CASE NextAgents
  BY <1>3, <1>4, <1>6, RegisterKeeps, LockKeeps, ExpireKeeps, RetireKeeps, AddKeeps, CountKeeps
     DEF NextAgents
<1> QED BY <1>2, <1>5, <1>6 DEF NextAccess, accessVars

(* A token bought a moment ago lives as long as one can; a secret that was        *)
(* replaced sold its last one before its grace was over.                          *)
LEMMA NextOInv == ASSUME KInv, OInv, [NextAccess]_accessVars PROVE OInv'
<1> DEFINE grace == SecretGraceWindow + TokenTTL
<1>1. /\ now \in Nat /\ now' \in Nat /\ now <= now'
  <2>1. ASSUME NextAgents PROVE now' = now
    BY <2>1 DEF NextAgents, Register, Revoke, BeginAddKey, BeginRetireKey, lockLiveAgent, ExpireKeys,
                RetireKey, Rollback, AddKey, CountKeys
  <2>2. now' = now \/ now' = now + 1
    BY <2>1 DEF NextAccess, accessVars, agentVars, Tick
  <2> QED BY <2>2 DEF OInv
<1>2. ASSUME UNCHANGED <<issued, tokens>>, signing' \in Nat PROVE OInv'
  <2>1. \A t \in tokens : t.expires <= now' + TokenTTL
    BY <1>1, OAuthAssumption DEF OInv, Tokens
  <2>2. \A i \in 1 .. Len(issued) : issued[i] <= now'
    BY <1>1 DEF OInv
  <2> QED BY <1>1, <1>2, <2>1, <2>2 DEF OInv
<1>3. CASE RotateSecret
  <2>1. issued' = Append(issued, now) /\ UNCHANGED <<tokens, signing>> /\ issued \in Seq(Nat)
    BY <1>3 DEF RotateSecret, OInv
  <2> DEFINE n == Len(issued)
  <2>2. /\ issued' \in Seq(Nat) /\ Len(issued') = n + 1 /\ issued'[n + 1] = now
        /\ \A i \in 1 .. n : issued'[i] = issued[i] /\ n \in Nat
    BY <1>1, <2>1
  <2>3. ASSUME NEW i \in 1 .. Len(issued') PROVE issued'[i] <= now'
    <3>1. CASE i = n + 1
      BY <1>1, <2>2, <3>1
    <3>2. CASE i # n + 1
      <4>1. i \in 1 .. n /\ issued'[i] = issued[i]
        BY <2>2, <3>2
      <4>2. issued[i] \in Nat /\ issued[i] <= now
        BY <2>1, <4>1 DEF OInv
      <4> QED BY <1>1, <4>1, <4>2
    <3> QED BY <3>1, <3>2
  <2>4. ASSUME NEW t \in tokens
        PROVE  /\ t.secret \in 1 .. Len(issued') /\ t.expires <= now' + TokenTTL
               /\ t.secret < Len(issued') =>
                     t.expires <= issued'[t.secret + 1] + SecretGraceWindow + TokenTTL
    <3>1. /\ t.secret \in 1 .. n /\ t.expires <= now + TokenTTL /\ t.expires \in Nat
          /\ t.secret < n => t.expires <= issued[t.secret + 1] + SecretGraceWindow + TokenTTL
      BY DEF OInv, Tokens
    <3>2. /\ t.secret \in 1 .. n + 1
          /\ t.secret <= n
      BY ONLY <2>2, <3>1
    <3>3. t.expires <= now' + TokenTTL
      BY ONLY <1>1, <3>1, OAuthAssumption
    <3>4. CASE t.secret = n
      <4>1. issued'[t.secret + 1] = now
        BY ONLY <2>2, <3>4
      <4>2. t.expires <= now + SecretGraceWindow + TokenTTL
        BY ONLY <1>1, <3>1, OAuthAssumption
      <4> QED BY ONLY <2>2, <3>2, <3>3, <4>1, <4>2
    <3>5. CASE t.secret < n
      <4>1. issued'[t.secret + 1] = issued[t.secret + 1]
        BY ONLY <2>2, <3>1, <3>5, SMTT(20)
      <4> QED BY ONLY <2>2, <3>1, <3>2, <3>3, <3>5, <4>1
    <3> QED BY <2>2, <3>1, <3>4, <3>5
  <2> QED BY <1>1, <2>1, <2>2, <2>3, <2>4 DEF OInv
<1>4. ASSUME NEW n \in DOMAIN issued, Token(n), UNCHANGED agentVars PROVE OInv'
  <2>1. PICK requested \in SUBSET (Scopes \cup {"other"}), granted \in SUBSET Scopes :
            tokens' = tokens \cup {Issue(n, granted)}
    BY <1>4 DEF Token
  <2>2. PICK t : t = Issue(n, granted)
    OBVIOUS
  <2>3. /\ UNCHANGED <<issued, signing, now>> /\ issued \in Seq(Nat) /\ n \in 1 .. Len(issued)
        /\ signing \in Nat
    BY <1>4 DEF Token, agentVars, OInv
  <2>4. t \in Tokens /\ t.secret = n /\ t.expires = now + TokenTTL
    BY <1>1, <2>2, <2>3, OAuthAssumption DEF Issue, Tokens
  <2>5. n < Len(issued) => now <= issued[n + 1] + SecretGraceWindow /\ issued[n + 1] \in Nat
    BY <1>4, <2>3 DEF Token, Authenticate, secretMatches
  <2>6. /\ t.secret \in 1 .. Len(issued) /\ t.expires <= now + TokenTTL
        /\ t.secret < Len(issued) =>
              t.expires <= issued[t.secret + 1] + SecretGraceWindow + TokenTTL
    BY <1>1, <2>3, <2>4, <2>5, OAuthAssumption
  <2> QED BY <2>1, <2>2, <2>3, <2>4, <2>6 DEF OInv
<1>5. CASE RotateSigningKey
  BY <1>2, <1>5 DEF RotateSigningKey, OInv
<1>6. CASE Deactivate \/ UNCHANGED oauthVars
  BY <1>2, <1>6 DEF Deactivate, OInv, oauthVars
<1> QED BY <1>3, <1>4, <1>5, <1>6 DEF NextAccess, NextOAuth, accessVars

LEMMA InitAccessInv == InitAccess => KInv /\ OInv
BY AgentsAssumption, OAuthAssumption
   DEF InitAccess, InitAgents, InitOAuth, KInv, OInv, AgentsTypeOK, KeyRows, NoKey, NoTx,
       Endless, KeysOf, Never

(* Of two overlapping changes of an agent's keys the second ends what the first   *)
(* added, and a secret that was replaced, with all it bought, is worth nothing    *)
(* once its time is over (agents.go, oauth/store.go).                             *)
THEOREM RotationsEnd == AccessSpec => []RotationsTakeEffect
<1>1. KInv => OneFreshKey
  <2> SUFFICES ASSUME KInv, NEW a \in known PROVE Cardinality(Endless(a)) <= 1
    BY DEF OneFreshKey, Endless
  <2>1. a \in AgentIds /\ \A k, l \in Endless(a) : k = l
    BY DEF KInv, AgentsTypeOK
  <2>2. CASE Endless(a) = {}
    BY <2>2, FS_EmptySet
  <2>3. CASE Endless(a) # {}
    <3>1. PICK k : Endless(a) = {k}
      BY <2>1, <2>3
    <3>2. Cardinality({k}) = 1
      BY FS_Singleton
    <3> QED BY <3>1, <3>2
  <2> QED BY <2>2, <2>3
<1>2. OInv => OldSecretsFadeOut
  <2> SUFFICES ASSUME OInv, NEW t \in tokens, NEW scope, MayDo(t, scope)
               PROVE  /\ t.secret < Len(issued) =>
                            now < issued[t.secret + 1] + SecretGraceWindow + TokenTTL
                      /\ scope \in Scopes
    BY DEF OldSecretsFadeOut
  <2>1. t \in Tokens /\ now \in Nat /\ issued \in Seq(Nat) /\ t.secret \in 1 .. Len(issued)
    BY DEF OInv
  <2>2. now < t.expires /\ scope \in t.scopes
    BY DEF MayDo, Admits, HasScope
  <2>3. ASSUME t.secret < Len(issued) PROVE now < issued[t.secret + 1] + SecretGraceWindow + TokenTTL
    <3>1. issued[t.secret + 1] \in Nat /\ t.expires \in Nat
      BY <2>1, <2>3 DEF Tokens
    <3>2. t.expires <= issued[t.secret + 1] + SecretGraceWindow + TokenTTL
      BY <2>3 DEF OInv
    <3>3. SecretGraceWindow \in Nat /\ TokenTTL \in Nat
      BY OAuthAssumption
    <3>4. now \in Nat /\ now < t.expires
      BY <2>1, <2>2
    <3> QED BY ONLY <3>1, <3>2, <3>3, <3>4
  <2> QED BY <2>1, <2>2, <2>3 DEF Tokens
<1> QED BY <1>1, <1>2, InitAccessInv, NextKInv, NextOInv, PTL DEF AccessSpec, RotationsTakeEffect
===============================================================================
