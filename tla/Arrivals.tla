------------------------------ MODULE Arrivals ------------------------------
(* How a customer comes to have accounts, services/bff: the form of the       *)
(* opening, sent again by the device under the reference it keeps; a second   *)
(* account, in another currency; and the test payee of the sandbox.  Each is  *)
(* several calls to a store, a provider and the core, made over again by      *)
(* whoever got no answer.  Module Onboarding has what a file goes through;    *)
(* here it is verified, decided on by that alone, and its account opened.     *)
EXTENDS Customer, Sequences

CONSTANTS
    Forms,        \* references the devices generate
    Applicants,   \* the data of the form, as sameApplicant compares it
    Refused,      \* those a malformed document, name or date, or their age, rules out
    Currencies,   \* of the second account; the first is in soles
    Cash          \* the sandbox's cash account

First == "PEN"

ASSUME ArrivalsAssumption ==
    IsFiniteSet(Calls) /\ IsFiniteSet(Forms) /\ Currencies \cap {First, "file"} = {}

VARIABLES
    files,        \* onboarding.applications, by external reference
    provider,     \* verdicts paid for, by the reference the provider was given
    accounts,     \* accounts of the core: their code, owner and currency
    toldDoor,     \* what was answered
    crowd         \* the most requests that were at the same thing at once

arrivalVars == <<files, provider, accounts, toldDoor, crowd>>

NoFile == [status |-> "none"]
Verdicts == {"approved", "manual_review", "rejected"}
Wants == Forms \X ({"file"} \cup Currencies)

InitArrivals ==
    /\ files = [r \in Forms |-> NoFile] /\ provider = << >> /\ accounts = {}
    /\ toldDoor = {} /\ crowd = [w \in Wants |-> 0]

(* A new UUID: no other handler draws the same.                               *)
Fresh == asked + 1

(* Slip: a code for each attempt, so that none finds the account of another.  *)
NewCode(t) == <<"ONB", t.reference, t.id>>

(* The account's code is derived from the reference.                          *)
AccountCode(t) == <<"ONB", t.reference>>

InFlight(w) == Cardinality({h \in Calls : "want" \in DOMAIN call[h] /\ call[h].want = w})

Begin(h, next) ==
    LET w == next.want IN
    /\ Start(h, next)
    /\ crowd' = [crowd EXCEPT ![w] = IF InFlight(w) < @ THEN @ ELSE InFlight(w) + 1]

Tell(answer) == toldDoor' = toldDoor \cup {answer}

(* toOnboardingResponse: the account is named once it is open.                *)
toOnboardingResponse(r, sent, file) ==
    [reference |-> r, sent |-> sent, applicant |-> file.applicant, status |-> file.status,
     account |-> IF file.status = "approved" THEN file.account ELSE << >>]

-----------------------------------------------------------------------------
validateApplicant(applicant) == applicant \notin Refused

sameApplicant(file, applicant) == file.applicant = applicant

(* handleSubmitOnboarding: a reference that was used with other data ends it, *)
(* as far as was known when the file was looked for.                          *)
handleSubmitOnboarding(h, r, applicant) ==
    /\ validateApplicant(applicant)
    /\ files[r] # NoFile => sameApplicant(files[r], applicant)
    /\ Begin(h, [at |-> "create", reference |-> r, sent |-> applicant, id |-> Fresh,
                 want |-> <<r, "file">>])
    /\ UNCHANGED <<files, provider, accounts, toldDoor>>

(* Store.Create gives the file there is, its own or that of whoever was first; *)
(* advance goes on with what the file has not been through.                   *)
Create(h) ==
    LET t == call[h]
        file == IF files[t.reference] # NoFile THEN files[t.reference]
                ELSE [status |-> "in_progress", applicant |-> t.sent, id |-> t.id,
                      verdict |-> "none", account |-> << >>]
    IN
    /\ At(h, "create")
    /\ files' = [files EXCEPT ![t.reference] = file]
    /\ IF file.status \in {"approved", "rejected"}
       THEN Return(h) /\ Tell(toOnboardingResponse(t.reference, t.sent, file))
       ELSE /\ Goto(h, [t EXCEPT !.at = IF file.verdict = "none" THEN "verify" ELSE "open"])
            /\ UNCHANGED toldDoor
    /\ UNCHANGED <<provider, accounts, crowd>>

(* Slip: a reference for each request.                                       *)
requestRef(t) == t.id

(* providerRef: that of the file.                                             *)
providerRef(t) == files[t.reference].id

(* Verify, Screen: what was asked before is answered again and not paid for;  *)
(* or the provider does not answer and the request ends.                      *)
Verify(h) ==
    LET t == call[h] IN
    /\ At(h, "verify")
    /\ \/ /\ IF providerRef(t) \in DOMAIN provider THEN UNCHANGED provider
             ELSE \E v \in Verdicts : provider' = Insert(provider, providerRef(t), v)
          /\ Goto(h, [t EXCEPT !.at = "decide"])
       \/ Return(h) /\ UNCHANGED provider
    /\ UNCHANGED <<files, accounts, toldDoor, crowd>>

DecideFile(h) ==
    LET t == call[h]
        v == provider[providerRef(t)]
        file == [files[t.reference] EXCEPT !.verdict = v,
                    !.status = IF v = "approved" THEN @ ELSE v]
    IN
    /\ At(h, "decide")
    /\ files' = [files EXCEPT ![t.reference] = file]
    /\ IF v = "approved" THEN Goto(h, [t EXCEPT !.at = "open"]) /\ UNCHANGED toldDoor
       ELSE Return(h) /\ Tell(toOnboardingResponse(t.reference, t.sent, file))
    /\ UNCHANGED <<provider, accounts, crowd>>

(* OpenCustomerAccount: no two accounts have one code.                        *)
WithAccount(code, owner, currency) ==
    IF \E a \in accounts : a.code = code THEN accounts
    ELSE accounts \cup {[code |-> code, owner |-> owner, currency |-> currency]}

(* openAccount: what exists already is taken; no answer ends the request.     *)
openAccount(h) ==
    LET t == call[h] IN
    /\ At(h, "open")
    /\ accounts' \in {accounts, WithAccount(AccountCode(t), files[t.reference].id, First)}
    /\ \/ \E a \in accounts' : a.code = AccountCode(t) /\ Goto(h, [t EXCEPT !.at = "set"])
       \/ Return(h)
    /\ UNCHANGED <<files, provider, toldDoor, crowd>>

SetAccount(h) ==
    LET t == call[h]
        file == [files[t.reference] EXCEPT !.account = AccountCode(t), !.status = "approved"]
    IN
    /\ At(h, "set") /\ Return(h)
    /\ files' = [files EXCEPT ![t.reference] = file]
    /\ Tell(toOnboardingResponse(t.reference, t.sent, file))
    /\ UNCHANGED <<provider, accounts, crowd>>

handleOnboardingStatus(r) ==
    /\ files[r] # NoFile /\ Serve
    /\ Tell(toOnboardingResponse(r, files[r].applicant, files[r]))
    /\ UNCHANGED <<files, provider, accounts, crowd>>

-----------------------------------------------------------------------------
OwnedBy(c) == {a \in accounts : a.owner = c}

(* handleOpenAccount: the customer's accounts are listed; one in the currency *)
(* or none at all ends it.                                                    *)
handleOpenAccount(h, r, currency) ==
    /\ files[r] # NoFile /\ OwnedBy(files[r].id) # {}
    /\ \A a \in OwnedBy(files[r].id) : a.currency # currency
    /\ Begin(h, [at |-> "open_another", owner |-> files[r].id, currency |-> currency,
                 code |-> <<"ACC", Fresh>>, want |-> <<r, currency>>])
    /\ UNCHANGED <<files, provider, accounts, toldDoor>>

(* The product is there or is made; the account's code is new.                *)
OpenAnother(h) ==
    LET t == call[h] IN
    /\ At(h, "open_another") /\ Return(h)
    /\ accounts' \in {accounts, WithAccount(t.code, t.owner, t.currency)}
    /\ UNCHANGED <<files, provider, toldDoor, crowd>>

-----------------------------------------------------------------------------
(* handleSandboxFunds: each request is money of its own, also a repeated one. *)
handleSandboxFunds(h, a) ==
    /\ \/ /\ Start(h, [at |-> "payee", account |-> a, id |-> Fresh])
          /\ Post(<<"sandbox-funds", Fresh>>, Moves(Cash, a, 1), "posted")
       \/ /\ Serve
          /\ Post(<<"sandbox-funds", Fresh>>, Moves(Cash, a, 1), "unavailable")
    /\ UNCHANGED arrivalVars

PayeeCode(t) == <<"PAYEE", t.account>>

(* Slip: whoever asked is told of the payee they would have made.             *)
tellOwnPayee(h) ==
    LET t == call[h] IN
    /\ At(h, "payee") /\ Return(h)
    /\ accounts' \in {accounts, WithAccount(PayeeCode(t), t.id, CurrencyOf[t.account])}
    /\ Tell([payee |-> t.account, owner |-> t.id])
    /\ UNCHANGED <<files, provider, crowd>>

(* testPayee: looked for, made if it was missing, and looked for again when   *)
(* somebody else made it meanwhile.  An answer that is lost ends the request.  *)
testPayee(h) ==
    LET t == call[h] IN
    /\ At(h, "payee") /\ Return(h)
    /\ accounts' \in {accounts, WithAccount(PayeeCode(t), t.id, CurrencyOf[t.account])}
    /\ \/ \E a \in accounts' : a.code = PayeeCode(t) /\ Tell([payee |-> t.account, owner |-> a.owner])
       \/ UNCHANGED toldDoor
    /\ UNCHANGED <<files, provider, crowd>>

NextDoor ==
    /\ \/ \E h \in Calls, r \in Forms :
             \/ \E who \in Applicants : handleSubmitOnboarding(h, r, who)
             \/ \E c \in Currencies : handleOpenAccount(h, r, c)
       \/ \E r \in Forms : handleOnboardingStatus(r)
       \/ \E h \in Calls : \/ Create(h) \/ Verify(h) \/ DecideFile(h) \/ openAccount(h)
                           \/ SetAccount(h) \/ OpenAnother(h) \/ testPayee(h)
    /\ UNCHANGED core

NextArrivals ==
    \/ NextDoor
    \/ \E h \in Calls, a \in Own : handleSandboxFunds(h, a)

-----------------------------------------------------------------------------
(* However a form, an account or a payee is asked for again, after answers    *)
(* that were lost and requests that died: a file has one account in soles, it *)
(* is the one that was answered, and its checks were paid for once; an answer *)
(* is about who sent the form, unless another first form was on its way; a    *)
(* customer has no more accounts in a currency than were being opened at once; *)
(* and an account has one test payee.                                         *)
ArrivalsKeepToOne ==
    /\ \A t \in {t \in toldDoor : "reference" \in DOMAIN t} :
          /\ t.applicant = files[t.reference].applicant
          /\ t.status = "approved" => t.account = files[t.reference].account
          /\ t.sent # t.applicant => crowd[<<t.reference, "file">>] > 1
    /\ Cardinality(DOMAIN provider) <= Cardinality({r \in Forms : files[r] # NoFile})
    /\ \A r \in {r \in Forms : files[r] # NoFile} :
          LET held(c) == Cardinality({a \in OwnedBy(files[r].id) : a.currency = c}) IN
          held(First) <= 1 /\ \A c \in Currencies : held(c) <= crowd[<<r, c>>]
    /\ \A s, t \in {t \in toldDoor : "payee" \in DOMAIN t} : s.payee = t.payee => s.owner = t.owner

-----------------------------------------------------------------------------
(* The token bucket in front of the form, and of the other doors that anybody *)
(* may knock at, services/ratelimit: a function of the times it is asked at.  *)
(* Time is in ticks, a token in pieces: the code's floats, exactly.           *)
CONSTANTS
    Burst,    \* tokens of a full bucket
    Rate,     \* pieces that a tick adds
    Pieces,   \* pieces of a token
    Ticks,    \* ticks of a second
    Series    \* series of calls that are looked at: for each the ticks since the one before

ASSUME LimiterAssumption ==
    {Burst, Rate, Pieces, Ticks} \subseteq Nat \ {0} /\ Series \subseteq Seq(Nat)

Least(a, b) == IF a < b THEN a ELSE b

(* Slip: a bucket nobody asks of fills without end.                          *)
FilledWithoutEnd(tokens, elapsed) == tokens + elapsed * Rate

(* Allow: what has trickled in since the last time, and a token if there is   *)
(* one.                                                                       *)
Filled(tokens, elapsed) == Least(Burst * Pieces, tokens + elapsed * Rate)
Allowed(tokens) == tokens >= Pieces
Left(tokens) == IF Allowed(tokens) THEN tokens - Pieces ELSE tokens

(* How long to wait, in ticks, and what the handlers say of it in seconds.    *)
Wait(tokens) == ((Pieces - tokens) \div Rate) + 1
RetryAfter(tokens) == (Wait(tokens) \div Ticks) + 1

(* The bucket after each of a series of calls, given the time between them;   *)
(* one that has never been asked for is full.                                 *)
Bucket(gaps) ==
    LET b[i \in 0..Len(gaps)] ==
            IF i = 0 THEN [full |-> Burst * Pieces, left |-> Burst * Pieces]
            ELSE LET full == Filled(b[i - 1].left, gaps[i]) IN [full |-> full, left |-> Left(full)]
    IN b

(* However the calls are spaced, no stretch of them lets more through than a  *)
(* full bucket and what trickles in meanwhile; and who is told to wait, waits *)
(* and finds a token, if nobody took it (Allow, the Retry-After of            *)
(* tooManyRequests and its like).                                             *)
Elapsed(gaps, i, j) ==
    LET sum[k \in i..j] == IF k = i THEN 0 ELSE sum[k - 1] + gaps[k] IN sum[j]

BoundedWindows ==
    \A gaps \in Series :
        LET b == Bucket(gaps) IN
        /\ \A i, j \in DOMAIN gaps : i <= j =>
              Cardinality({k \in i..j : Allowed(b[k].full)}) * Pieces
                 <= Burst * Pieces + Elapsed(gaps, i, j) * Rate
        /\ \A k \in DOMAIN gaps : ~Allowed(b[k].full) =>
              /\ Allowed(Filled(b[k].left, Wait(b[k].full)))
              /\ Allowed(Filled(b[k].left, RetryAfter(b[k].full) * Ticks))
=============================================================================
