---------------------------- MODULE ChannelProofs ----------------------------
(* Proofs about the app's channel, for any number of handlers, orders, accounts, *)
(* amounts, quotes, codes and people: however its parts race over one core and   *)
(* one layer of control, die, lose answers and are asked again.                  *)
EXTENDS Channel, Sums

(* What the handlers of each part may be at, and the kinds of keys they post     *)
(* under.                                                                        *)
TransferSteps == {"authorize", "confirm", "post", "trace"}
PocketSteps   == {"open_pocket", "insert_pocket", "undo_pocket", "move_pocket",
                  "empty_pocket", "close_pocket", "delete_pocket"}
FXSteps       == {"convert", "link"}
CreditSteps   == {"assess", "open_line", "link_line", "draw", "pay"}
ReceiptSteps  == {"insert_receipt", "find_receipt"}
ArrivalSteps  == {"create", "verify", "decide", "open", "set", "open_another", "payee"}

(* A handler has a place, and who moves pockets has a key for it.                *)
Handlers ==
    /\ DOMAIN call = Calls
    /\ \A h \in Calls : "at" \in DOMAIN call[h]
    /\ \A h \in Calls : call[h].at = "move_pocket" => call[h].key[1] = "pocket"

(* A step of a part moves its own handlers, and posts under its own keys.        *)
Within(steps)  == \A h \in Calls : call'[h] = call[h] \/ call'[h].at \in steps \cup {"idle"}
Growing(kinds) ==
    \/ core' = core
    \/ \E k, entries :
          /\ k \notin DOMAIN core /\ k[1] \in kinds
          /\ core' = [j \in DOMAIN core \cup {k} |-> IF j = k THEN entries ELSE core[j]]

LEMMA IdleIs == Idle.at = "idle" /\ "at" \in DOMAIN Idle
BY DEF Idle

LEMMA OneMoves ==
    ASSUME Handlers, NEW h \in Calls, NEW t, call' = [call EXCEPT ![h] = t],
           "at" \in DOMAIN t, NEW steps, t.at \in steps \cup {"idle"},
           t.at = "move_pocket" => t.key[1] = "pocket"
    PROVE  Handlers' /\ Within(steps)
BY DEF Handlers, Within

LEMMA GoesOn ==
    ASSUME Handlers, NEW h \in Calls, NEW at, Goto(h, [call[h] EXCEPT !.at = at]),
           at # "move_pocket", NEW steps, at \in steps \cup {"idle"}
    PROVE  Handlers' /\ Within(steps)
<1> PICK t : t = [call[h] EXCEPT !.at = at]
  OBVIOUS
<1>1. "at" \in DOMAIN t /\ t.at = at
  BY DEF Handlers
<1> QED BY <1>1, OneMoves DEF Goto

LEMMA EndsHere ==
    ASSUME Handlers, NEW h \in Calls, Return(h), NEW steps
    PROVE  Handlers' /\ Within(steps)
BY IdleIs, OneMoves DEF Return, Goto

LEMMA PostGrows ==
    ASSUME NEW key, NEW entries, NEW got, Post(key, entries, got), NEW kinds, key[1] \in kinds
    PROVE  Growing(kinds)
BY DEF Post, Posted, Reply, Growing

LEMMA LedgerGrows ==
    ASSUME NEW kinds, Growing(kinds)
    PROVE  /\ \A k \in DOMAIN core : k \in DOMAIN core' /\ core'[k] = core[k]
           /\ \A k \in DOMAIN core' : k \in DOMAIN core \/ k[1] \in kinds
BY DEF Growing

LEMMA TransfersWithin ==
    ASSUME Handlers, NextTransfers PROVE Handlers' /\ Within(TransferSteps)
<1>1. ASSUME NEW h \in Calls, NEW t \in transferTerms, handleTransfer(h, t)
      PROVE  Handlers' /\ Within(TransferSteps)
  <2>1. "at" \in DOMAIN t /\ t.at = "authorize"
    BY DEF transferTerms
  <2> QED BY <1>1, <2>1, OneMoves DEF handleTransfer, Start, TransferSteps
<1>2. ASSUME NEW h \in Calls, AuthorizeTransfer(h) PROVE Handlers' /\ Within(TransferSteps)
  <2>1. \/ Goto(h, [call[h] EXCEPT !.at = "post"])
        \/ Goto(h, [call[h] EXCEPT !.at = "confirm"])
        \/ Return(h)
    BY <1>2 DEF AuthorizeTransfer, Ask
  <2> QED BY <2>1, GoesOn, EndsHere DEF TransferSteps
<1>3. ASSUME NEW h \in Calls, PostTransfer(h) PROVE Handlers' /\ Within(TransferSteps)
  <2>1. Goto(h, [call[h] EXCEPT !.at = "trace"]) \/ Return(h)
    BY <1>3 DEF PostTransfer
  <2> QED BY <2>1, GoesOn, EndsHere DEF TransferSteps
<1>4. ASSUME NEW h \in Calls, TraceTransfer(h) PROVE Handlers' /\ Within(TransferSteps)
  BY <1>4, EndsHere DEF TraceTransfer
<1> QED BY <1>1, <1>2, <1>3, <1>4 DEF NextTransfers

LEMMA PocketsWithin ==
    ASSUME Handlers, NextPockets
    PROVE  Handlers' /\ Within(PocketSteps) /\ Growing({"pocket", "close"})
<1> DEFINE Fine == Handlers' /\ Within(PocketSteps)
<1>1. ASSUME NEW h \in Calls, NEW purpose \in Purposes, handleOpenPocket(h, purpose)
      PROVE  Fine /\ core' = core
  <2> PICK t : t = [at |-> "open_pocket", purpose |-> purpose]
    OBVIOUS
  <2>1. "at" \in DOMAIN t /\ t.at = "open_pocket" /\ call' = [call EXCEPT ![h] = t]
    BY <1>1 DEF handleOpenPocket, Start
  <2> QED BY <1>1, <2>1, OneMoves DEF handleOpenPocket, PocketSteps
<1>2. ASSUME NEW h \in Calls, NEW p \in PocketIds, OpenPocket(h, p) PROVE Fine /\ core' = core
  <2> PICK t : t = [at |-> "insert_pocket", purpose |-> call[h].purpose, pocket |-> p]
    OBVIOUS
  <2>1. "at" \in DOMAIN t /\ t.at = "insert_pocket" /\ (Goto(h, t) \/ Return(h)) /\ core' = core
    BY <1>2 DEF OpenPocket
  <2> QED BY <2>1, OneMoves, EndsHere DEF Goto, PocketSteps
<1>3. ASSUME NEW h \in Calls, NEW p \in PocketIds, handleClosePocket(h, p) PROVE Fine /\ core' = core
  <2> PICK t : t = [at |-> IF Balance(p) > 0 THEN "empty_pocket" ELSE "close_pocket",
                    pocket |-> p, amount |-> Balance(p)]
    OBVIOUS
  <2>1. "at" \in DOMAIN t /\ t.at \in {"empty_pocket", "close_pocket"}
    OBVIOUS
  <2> QED BY <1>3, <2>1, OneMoves DEF handleClosePocket, Start, PocketSteps
<1>4. ASSUME NEW h \in Calls, NEW p \in PocketIds, NEW n \in PocketOrders, NEW in \in BOOLEAN,
             NEW x \in 1..2, handlePocketMove(h, p, n, in, x)
      PROVE  Fine /\ core' = core
  <2> PICK t : t = [at |-> "move_pocket", key |-> <<"pocket", p, n>>, amount |-> x,
                    from |-> IF in THEN Main ELSE p, to |-> IF in THEN p ELSE Main]
    OBVIOUS
  <2>1. "at" \in DOMAIN t /\ t.at = "move_pocket" /\ t.key[1] = "pocket"
    OBVIOUS
  <2> QED BY <1>4, <2>1, OneMoves DEF handlePocketMove, Start, PocketSteps
<1>5. ASSUME NEW h \in Calls, InsertPocket(h) PROVE Fine /\ core' = core
  <2>1. (Goto(h, [call[h] EXCEPT !.at = "undo_pocket"]) \/ Return(h)) /\ core' = core
    BY <1>5 DEF InsertPocket
  <2> QED BY <2>1, GoesOn, EndsHere DEF PocketSteps
<1>6. ASSUME NEW h \in Calls, UndoOpen(h) \/ DeletePocket(h) PROVE Fine /\ core' = core
  BY <1>6, EndsHere DEF UndoOpen, DeletePocket
<1>7. ASSUME NEW h \in Calls, PostPocketMove(h) PROVE Fine /\ Growing({"pocket", "close"})
  <2>1. call[h].key[1] \in {"pocket", "close"}
    BY <1>7 DEF PostPocketMove, Handlers
  <2>2. \/ UNCHANGED core
        \/ \E entries, got : Post(call[h].key, entries, got)
    BY <1>7 DEF PostPocketMove, MovePocket
  <2>3. Return(h)
    BY <1>7 DEF PostPocketMove
  <2>4. Fine
    BY <2>3, EndsHere
  <2>5. UNCHANGED core => Growing({"pocket", "close"})
    BY DEF Growing
  <2> QED BY <2>1, <2>2, <2>4, <2>5, PostGrows
<1>8. ASSUME NEW h \in Calls, EmptyPocket(h) PROVE Fine /\ Growing({"pocket", "close"})
  <2>1. \/ UNCHANGED core
        \/ \E entries, got : Post(<<"close", call[h].pocket>>, entries, got)
    BY <1>8 DEF EmptyPocket, MovePocket
  <2>2. <<"close", call[h].pocket>>[1] \in {"pocket", "close"}
    OBVIOUS
  <2>3. Goto(h, [call[h] EXCEPT !.at = "close_pocket"]) \/ Return(h)
    BY <1>8 DEF EmptyPocket
  <2>4. Fine
    BY <2>3, GoesOn, EndsHere DEF PocketSteps
  <2>5. UNCHANGED core => Growing({"pocket", "close"})
    BY DEF Growing
  <2> HIDE DEF Fine
  <2> QED BY <2>1, <2>2, <2>4, <2>5, PostGrows
<1>9. ASSUME NEW h \in Calls, ClosePocket(h) PROVE Fine /\ core' = core
  <2>1. (Goto(h, [call[h] EXCEPT !.at = "delete_pocket"]) \/ Return(h)) /\ core' = core
    BY <1>9 DEF ClosePocket
  <2> QED BY <2>1, GoesOn, EndsHere DEF PocketSteps
<1> HIDE DEF Fine
<1>10. Fine /\ (core' = core \/ Growing({"pocket", "close"}))
  BY <1>1, <1>2, <1>3, <1>4, <1>5, <1>6, <1>7, <1>8, <1>9 DEF NextPockets
<1> QED BY <1>10 DEF Fine, Growing

LEMMA FXWithin ==
    ASSUME Handlers, NextFX PROVE Handlers' /\ Within(FXSteps) /\ Growing({"fx"})
<1> DEFINE Fine == Handlers' /\ Within(FXSteps)
<1>1. ASSUME UNCHANGED <<core, handlerVars>> PROVE Fine /\ core' = core
  BY <1>1 DEF handlerVars, Handlers, Within
<1>2. ASSUME NEW h \in Calls, NEW q \in Quotes, handleFXConvert(h, q) PROVE Fine /\ core' = core
  <2> PICK t : t = [at |-> "convert", quote |-> q]
    OBVIOUS
  <2>1. "at" \in DOMAIN t /\ t.at = "convert"
    OBVIOUS
  <2> QED BY <1>2, <2>1, OneMoves DEF handleFXConvert, Start, FXSteps
<1>3. ASSUME NEW h \in Calls, PostConversion(h) PROVE Fine /\ Growing({"fx"})
  <2>1. \E entries, got : Post(<<"fx", call[h].quote>>, entries, got)
    BY <1>3 DEF PostConversion
  <2>2. <<"fx", call[h].quote>>[1] \in {"fx"}
    OBVIOUS
  <2>3. Goto(h, [call[h] EXCEPT !.at = "link"]) \/ Return(h)
    BY <1>3 DEF PostConversion
  <2>4. Fine
    BY <2>3, GoesOn, EndsHere DEF FXSteps
  <2> HIDE DEF Fine
  <2> QED BY <2>1, <2>2, <2>4, PostGrows
<1>4. ASSUME NEW h \in Calls, LinkConversion(h) PROVE Fine /\ core' = core
  BY <1>4, EndsHere DEF LinkConversion
<1>5. ASSUME NEW q \in Quotes,
             \/ \E from, to \in Own, x \in FXAmounts, r \in References : handleFXQuote(q, from, to, x, r)
             \/ ExpireQuote(q)
      PROVE  Fine /\ core' = core
  BY <1>1, <1>5 DEF handleFXQuote, ExpireQuote
<1> HIDE DEF Fine
<1>6. Fine /\ (core' = core \/ Growing({"fx"}))
  BY <1>2, <1>3, <1>4, <1>5 DEF NextFX
<1> QED BY <1>6 DEF Fine, Growing

LEMMA CreditWithin ==
    ASSUME Handlers, NextCredit PROVE Handlers' /\ Within(CreditSteps) /\ Growing({"draw", "pay"})
<1> DEFINE Fine == Handlers' /\ Within(CreditSteps)
<1>1. ASSUME UNCHANGED <<core, handlerVars>> PROVE Fine /\ core' = core
  BY <1>1 DEF handlerVars, Handlers, Within
<1>2. ASSUME NEW h \in Calls, handleCreditApplication(h) PROVE Fine /\ core' = core
  <2> PICK t : t = [at |-> "assess"]
    OBVIOUS
  <2>1. "at" \in DOMAIN t /\ t.at = "assess"
    OBVIOUS
  <2> QED BY <1>2, <2>1, OneMoves DEF handleCreditApplication, Start, CreditSteps
<1>3. ASSUME NEW h \in Calls, NEW a \in Applications, FileApplication(h, a) PROVE Fine /\ core' = core
  <2> PICK t : t = [at |-> "open_line", application |-> a]
    OBVIOUS
  <2>1. "at" \in DOMAIN t /\ t.at = "open_line"
    OBVIOUS
  <2> QED BY <1>3, <2>1, OneMoves, EndsHere DEF FileApplication, Goto, CreditSteps
<1>4. ASSUME NEW h \in Calls, OpenCreditLine(h) \/ LinkLine(h) PROVE Fine /\ core' = core
  <2>1. (Goto(h, [call[h] EXCEPT !.at = "link_line"]) \/ Return(h)) /\ core' = core
    BY <1>4 DEF OpenCreditLine, LinkLine
  <2> QED BY <2>1, GoesOn, EndsHere DEF CreditSteps
<1>5. ASSUME NEW h \in Calls, NEW account \in Own, NEW draw \in BOOLEAN, NEW n \in CardOrders,
             NEW x \in CardAmounts, creditMove(h, account, draw, n, x)
      PROVE  Fine /\ core' = core
  <2> PICK t : t = [at |-> IF draw THEN "draw" ELSE "pay", account |-> account, key |-> n, amount |-> x]
    OBVIOUS
  <2>1. "at" \in DOMAIN t /\ t.at \in {"draw", "pay"}
    OBVIOUS
  <2> QED BY <1>5, <2>1, OneMoves DEF creditMove, Start, CreditSteps
<1>6. ASSUME NEW h \in Calls, Draw(h) \/ Pay(h) PROVE Fine /\ Growing({"draw", "pay"})
  <2>1. \E kind \in {"draw", "pay"} : \E entries, got : PostOnLine(<<kind, call[h].key>>, entries, got)
    BY <1>6 DEF Draw, Pay
  <2> PICK kind \in {"draw", "pay"} : \E entries, got : PostOnLine(<<kind, call[h].key>>, entries, got)
    BY <2>1
  <2>2. PICK entries, got : PostOnLine(<<kind, call[h].key>>, entries, got)
    OBVIOUS
  <2>3. <<kind, call[h].key>>[1] \in {"draw", "pay"}
    OBVIOUS
  <2>4. UNCHANGED core \/ Post(<<kind, call[h].key>>, entries, got)
    BY <2>2 DEF PostOnLine
  <2>5. UNCHANGED core => Growing({"draw", "pay"})
    BY DEF Growing
  <2>6. Fine
    BY <1>6, EndsHere DEF Draw, Pay
  <2> HIDE DEF Fine
  <2> QED BY <2>3, <2>4, <2>5, <2>6, PostGrows
<1>7. ASSUME ReviewCreditLine \/ \E a \in Applications : CoolDown(a) PROVE Fine /\ core' = core
  BY <1>1, <1>7 DEF ReviewCreditLine, CoolDown
<1> HIDE DEF Fine
<1>8. Fine /\ (core' = core \/ Growing({"draw", "pay"}))
  BY <1>2, <1>3, <1>4, <1>5, <1>6, <1>7 DEF NextCredit
<1> QED BY <1>8 DEF Fine, Growing

LEMMA AliasesWithin == ASSUME Handlers, NextAliases PROVE Handlers' /\ Within({})
<1>1. call' = call
  BY DEF NextAliases, StartVerification, ExpireVerification, VerifyRight, VerifyWrong,
         Remove, RegisterVerified, Serve, handlerVars
<1> QED BY <1>1 DEF Handlers, Within

LEMMA ReceiptsWithin ==
    ASSUME Handlers, NextReceipts PROVE Handlers' /\ Within(ReceiptSteps) /\ core' = core
<1>1. ASSUME NEW h \in Calls, NEW k, NEW account, handleIssueReceipt(h, k, account)
      PROVE  Handlers' /\ Within(ReceiptSteps) /\ core' = core
  <2> PICK t : t = [at |-> "insert_receipt", movement |-> <<k, account>>]
    OBVIOUS
  <2>1. "at" \in DOMAIN t /\ t.at = "insert_receipt"
    OBVIOUS
  <2> QED BY <1>1, <2>1, OneMoves DEF handleIssueReceipt, Start, ReceiptSteps
<1>2. ASSUME NEW h \in Calls, NEW code, InsertReceipt(h, code)
      PROVE  Handlers' /\ Within(ReceiptSteps) /\ core' = core
  <2>1. (Goto(h, [call[h] EXCEPT !.at = "find_receipt"]) \/ Return(h)) /\ core' = core
    BY <1>2 DEF InsertReceipt
  <2> QED BY <2>1, GoesOn, EndsHere DEF ReceiptSteps
<1>3. ASSUME NEW h \in Calls, FindReceipt(h)
      PROVE  Handlers' /\ Within(ReceiptSteps) /\ core' = core
  BY <1>3, EndsHere DEF FindReceipt
<1> QED BY <1>1, <1>2, <1>3 DEF NextReceipts

LEMMA ArrivalsWithin ==
    ASSUME Handlers, NextArrivals
    PROVE  Handlers' /\ Within(ArrivalSteps) /\ Growing({"sandbox-funds"})
<1> DEFINE Fine == Handlers' /\ Within(ArrivalSteps)
<1>1. ASSUME call' = call PROVE Fine
  BY <1>1 DEF Handlers, Within
<1>2. ASSUME NEW h \in Calls, NEW r, NEW who, handleSubmitOnboarding(h, r, who) PROVE Fine
  <2> PICK t : t = [at |-> "create", reference |-> r, sent |-> who, id |-> Fresh, want |-> <<r, "file">>]
    OBVIOUS
  <2>1. "at" \in DOMAIN t /\ t.at = "create"
    OBVIOUS
  <2> QED BY <1>2, <2>1, OneMoves DEF handleSubmitOnboarding, Begin, Start, ArrivalSteps
<1>3. ASSUME NEW h \in Calls, NEW r, NEW c, handleOpenAccount(h, r, c) PROVE Fine
  <2> PICK t : t = [at |-> "open_another", owner |-> files[r].id, currency |-> c,
                    code |-> <<"ACC", Fresh>>, want |-> <<r, c>>]
    OBVIOUS
  <2>1. "at" \in DOMAIN t /\ t.at = "open_another"
    OBVIOUS
  <2> QED BY <1>3, <2>1, OneMoves DEF handleOpenAccount, Begin, Start, ArrivalSteps
<1>4. ASSUME NEW h \in Calls, Create(h) \/ Verify(h) \/ DecideFile(h) \/ openAccount(h) PROVE Fine
  <2>1. \/ \E at \in {"verify", "open", "decide", "set"} : Goto(h, [call[h] EXCEPT !.at = at])
        \/ Return(h)
    BY <1>4 DEF Create, Verify, DecideFile, openAccount
  <2> QED BY <2>1, GoesOn, EndsHere DEF ArrivalSteps
<1>5. ASSUME NEW h \in Calls, SetAccount(h) \/ OpenAnother(h) \/ testPayee(h) PROVE Fine
  BY <1>5, EndsHere DEF SetAccount, OpenAnother, testPayee
<1>6. ASSUME NEW r, handleOnboardingStatus(r) PROVE Fine
  BY <1>1, <1>6 DEF handleOnboardingStatus, Serve
<1>7. ASSUME NEW h \in Calls, NEW a, handleSandboxFunds(h, a) PROVE Fine /\ Growing({"sandbox-funds"})
  <2> PICK t : t = [at |-> "payee", account |-> a, id |-> Fresh]
    OBVIOUS
  <2>1. "at" \in DOMAIN t /\ t.at = "payee"
    OBVIOUS
  <2>2. Start(h, t) \/ Serve
    BY <1>7 DEF handleSandboxFunds
  <2>3. Fine
    BY <1>1, <2>1, <2>2, OneMoves DEF Start, Serve, ArrivalSteps
  <2>4. \E got : Post(<<"sandbox-funds", Fresh>>, Moves(Cash, a, 1), got)
    BY <1>7 DEF handleSandboxFunds
  <2>5. <<"sandbox-funds", Fresh>>[1] \in {"sandbox-funds"}
    OBVIOUS
  <2> HIDE DEF Fine
  <2> QED BY <2>3, <2>4, <2>5, PostGrows
<1> HIDE DEF Fine
<1>8. NextDoor => Fine
  BY <1>2, <1>3, <1>4, <1>5, <1>6 DEF NextDoor
<1>9. NextDoor => core' = core
  BY DEF NextDoor
<1>10. Fine /\ (core' = core \/ Growing({"sandbox-funds"}))
  BY <1>7, <1>8, <1>9 DEF NextArrivals
<1> QED BY <1>10 DEF Fine, Growing

LEMMA CrashWithin == ASSUME Handlers, NEW h \in Calls, Crash(h) PROVE Handlers' /\ Within({})
BY EndsHere DEF Crash

-------------------------------------------------------------------------------
(* Transfers.                                                                    *)
(* What a handler of a transfer may be doing.                                    *)
Request ==
    {t \in [at : {"authorize", "confirm", "post", "trace"}, key : {<<"transfer", n>> : n \in Orders},
            from : Own, to : Holders, amount : Amounts] : t.amount > 0 /\ t.from # t.to}

Operation(t) == <<t.key, t.from, t.to, t.amount>>
Entries(t)   == Moves(t.from, t.to, t.amount)

(* A handler that has been let through has been decided on, and confirmed if   *)
(* what it moves is large or goes where nothing has gone.                       *)
LetThrough ==
    \A h \in Calls : call[h].at \in {"post", "trace"} =>
        /\ Decided(Operation(call[h]), You, {"allow", "confirmed"})
        /\ call[h].amount >= AmountThreshold \/ call[h].to \notin payees
              => Decided(Operation(call[h]), You, {"confirmed"})

TracedIsPosted ==
    \A h \in Calls : call[h].at = "trace" =>
        call[h].key \in DOMAIN core /\ core[call[h].key] = Entries(call[h])

PostedByRequest == \A k \in Moved : \E t \in Request : core[k] = Entries(t) /\ t.key = k

(* Only who was paid, and confirmed by the phone, is known.                     *)
KnownWerePaid == \A a \in payees : \E k \in Moved : Payee(k) = a /\ WasDecided(k, {"confirmed"})

(* The inductive invariant.                                                     *)
CInv == /\ \A h \in Calls : call[h].at \in TransferSteps => call[h] \in Request
        /\ LetThrough /\ TracedIsPosted /\ PostedByRequest /\ KnownWerePaid
        /\ TransfersWereAuthorized

(* The payer and the payee can be read off the entries of a transfer.           *)
LEMMA EntriesTellTerms ==
    ASSUME NEW k, NEW t \in Request, core[k] = Entries(t)
    PROVE  Payer(k) = t.from /\ Payee(k) = t.to /\ core[k][Payee(k)] = t.amount
<1>1. t.amount \in Int /\ t.amount > 0 /\ t.from # t.to
  BY CustomerAssumption DEF Request
<1>2. /\ DOMAIN core[k] = {t.from, t.to}
      /\ core[k][t.from] = -t.amount /\ core[k][t.to] = t.amount
  BY <1>1 DEF Entries, Moves
<1>3. core[k][t.from] < 0 /\ ~(core[k][t.to] < 0) /\ ~(core[k][t.from] > 0) /\ core[k][t.to] > 0
  BY <1>1, <1>2
<1>4. Payer(k) = t.from
  BY <1>2, <1>3 DEF Payer
<1>5. Payee(k) = t.to
  BY <1>2, <1>3 DEF Payee
<1> QED BY <1>2, <1>4, <1>5

LEMMA TransferWasDecided ==
    ASSUME NEW k, NEW t \in Request, core[k] = Entries(t), t.key = k, NEW outcomes
    PROVE  WasDecided(k, outcomes) <=> Decided(Operation(t), You, outcomes)
BY EntriesTellTerms DEF WasDecided, Operation

(* Decisions are never taken back.                                              *)
LEMMA DecidedStays ==
    ASSUME decisions \subseteq decisions', NEW operation, NEW outcomes,
           Decided(operation, You, outcomes)
    PROVE  Decided(operation, You, outcomes)'
BY DEF Decided

(* Reading the ledger later, with the transfers that were there.                *)
LEMMA OldTransfersStay ==
    ASSUME CInv, decisions \subseteq decisions', NEW k \in Moved,
           k \in DOMAIN core', core'[k] = core[k]
    PROVE  /\ k \in Moved' /\ Payee(k)' = Payee(k) /\ core'[k][Payee(k)'] = core[k][Payee(k)]
           /\ \A outcomes : WasDecided(k, outcomes) => WasDecided(k, outcomes)'
<1>1. k \in Moved'
  BY DEF Moved
<1>2. Payee(k)' = Payee(k) /\ Payer(k)' = Payer(k)
  BY DEF Payee, Payer
<1> QED BY <1>1, <1>2 DEF WasDecided, Decided

(* What is said of the ledger outlives every step that posts no transfer and    *)
(* makes nobody known.                                                          *)
LEMMA LedgerStays ==
    ASSUME CInv, decisions \subseteq decisions', payees' = payees, DOMAIN core \subseteq DOMAIN core',
           \A k \in DOMAIN core : core'[k] = core[k], Moved' = Moved
    PROVE  PostedByRequest' /\ KnownWerePaid' /\ TransfersWereAuthorized'
<1>1. \A k \in Moved : k \in DOMAIN core /\ k \in DOMAIN core' /\ core'[k] = core[k]
  BY DEF Moved
<1>2. \A k \in Moved : /\ Payee(k)' = Payee(k) /\ core'[k][Payee(k)'] = core[k][Payee(k)]
                       /\ \A outcomes : WasDecided(k, outcomes) => WasDecided(k, outcomes)'
  BY <1>1, OldTransfersStay
<1>3. PostedByRequest'
  BY <1>1 DEF CInv, PostedByRequest, Entries
<1>4. KnownWerePaid'
  BY <1>2 DEF CInv, KnownWerePaid
<1>5. TransfersWereAuthorized'
  BY <1>2 DEF CInv, TransfersWereAuthorized
<1> QED BY <1>3, <1>4, <1>5

LEMMA InitCInv == Init => CInv
<1> SUFFICES ASSUME Init PROVE CInv
  OBVIOUS
<1>1. call = [h \in Calls |-> Idle] /\ DOMAIN core = {} /\ payees = {}
  BY DEF Init, InitHandlers, InitControl
<1>2. \A h \in Calls : call[h].at = "idle"
  BY <1>1 DEF Idle
<1>3. Moved = {}
  BY <1>1 DEF Moved
<1> QED BY <1>1, <1>2, <1>3 DEF CInv, LetThrough, TracedIsPosted, PostedByRequest, KnownWerePaid,
                                TransfersWereAuthorized, TransferSteps

(* A step that posts no transfer and makes nobody known, of whichever part, or of *)
(* a handler that begins, or ends, and has promised nothing yet.                  *)
LEMMA OtherStepKeeps ==
    ASSUME CInv, Moved' = Moved, \A k \in DOMAIN core : k \in DOMAIN core' /\ core'[k] = core[k],
           payees' = payees, decisions \subseteq decisions',
           \A g \in Calls :
             call'[g] = call[g] \/ call'[g].at \notin TransferSteps
             \/ (call'[g] \in Request /\ call'[g].at \notin {"post", "trace"})
    PROVE  CInv'
<1>1. PostedByRequest' /\ KnownWerePaid' /\ TransfersWereAuthorized'
  BY LedgerStays
<1>2. \A g \in Calls : call'[g].at \in TransferSteps => call'[g] \in Request
  BY DEF CInv
<1>3. \A g \in Calls : call'[g].at \in {"post", "trace"} => call'[g] = call[g]
  BY DEF TransferSteps
<1>4. LetThrough'
  BY <1>3, DecidedStays DEF CInv, LetThrough
<1>5. TracedIsPosted'
  BY <1>3 DEF CInv, TracedIsPosted
<1> QED BY <1>1, <1>2, <1>4, <1>5 DEF CInv

LEMMA AuthorizeKeeps ==
    ASSUME Handlers, CInv, NEW h \in Calls, AuthorizeTransfer(h)
    PROVE  CInv'
<1> DEFINE t == call[h]
           r == transferOperation(t)
<1>1. /\ t \in Request /\ t.at \in {"authorize", "confirm"}
      /\ Ask(h, r, "post") /\ UNCHANGED <<core, executions, payees>>
  <2>1. t \in Request /\ t.at \in {"authorize", "confirm"}
    BY DEF CInv, AuthorizeTransfer, TransferSteps
  <2> QED BY <2>1 DEF AuthorizeTransfer
<1>2. /\ r.kind = "holder" /\ r.by = You /\ r.action = "transfer" /\ r.amount = t.amount
      /\ r.to = t.to /\ r.operation = Operation(t)
  BY DEF transferOperation, Operation
<1> HIDE DEF r
<1>3. PICK next \in {"go", "confirm", "stop"} :
         /\ \/ At(h, "authorize") /\ authorizeOperation(r, next)
            \/ At(h, "confirm") /\ verifyConfirmation(r, next)
         /\ CASE next = "go"      -> Goto(h, [call[h] EXCEPT !.at = "post"])
              [] next = "confirm" -> Goto(h, [call[h] EXCEPT !.at = "confirm"])
              [] next = "stop"    -> Return(h)
  BY <1>1 DEF Ask
<1>4. decisions \subseteq decisions'
  BY <1>3 DEF authorizeOperation, Decide, verifyConfirmation, Confirmed, record
<1>5. CASE next = "go"
  <2> PICK o : o = Operation(t)
    OBVIOUS
  <2>1. /\ Decided(o, You, {"allow", "confirmed"})'
        /\ t.amount >= AmountThreshold \/ t.to \notin payees => Decided(o, You, {"confirmed"})'
    <3>1. CASE authorizeOperation(r, next)
      <4>1. Decide(r, "allow")
        BY <1>5, <3>1 DEF authorizeOperation
      <4>2. evaluate(r) = "allow" /\ decisions' = record(r, "allow")
        BY <4>1 DEF Decide
      <4>3. r.action \in DOMAIN LevelOf
        BY <1>2 DEF LevelOf
      <4>4. forHolder(r) = "allow"
        BY <1>2, <4>2, <4>3 DEF evaluate
      <4>5. ~Required(r)
        BY <1>2, <4>4 DEF forHolder
      <4>6. ~(t.amount >= AmountThreshold) /\ t.to \in payees
        BY <1>2, <4>5 DEF Required
      <4>7. [operation |-> o, by |-> You, outcome |-> "allow"] \in decisions'
        BY <1>2, <4>2 DEF record
      <4> QED BY <4>6, <4>7 DEF Decided
    <3>2. CASE verifyConfirmation(r, next)
      <4>1. Confirmed(r, TRUE, "ok")
        BY <1>5, <3>2 DEF verifyConfirmation
      <4>2. decisions' = record(r, "confirmed")
        BY <4>1 DEF Confirmed
      <4>3. [operation |-> o, by |-> You, outcome |-> "confirmed"] \in decisions'
        BY <1>2, <4>2 DEF record
      <4> QED BY <4>3 DEF Decided
    <3> QED BY <1>3, <3>1, <3>2
  <2>2. call' = [call EXCEPT ![h] = [t EXCEPT !.at = "post"]]
    BY <1>3, <1>5 DEF Goto
  <2>3. /\ call'[h] = [t EXCEPT !.at = "post"] /\ \A g \in Calls \ {h} : call'[g] = call[g]
        /\ \A g \in Calls : call'[g].at \in TransferSteps => call'[g] \in Request
    <3>1. [t EXCEPT !.at = "post"] \in Request
      BY <1>1 DEF Request
    <3>2. call'[h] = [t EXCEPT !.at = "post"] /\ \A g \in Calls \ {h} : call'[g] = call[g]
      BY <2>2 DEF Handlers
    <3> QED BY <3>1, <3>2 DEF CInv
  <2>4. Operation(call[h])' = o /\ call'[h].amount = t.amount /\ call'[h].to = t.to
        /\ call'[h].at = "post"
    BY <1>1, <2>3 DEF Operation, Request
  <2>5. LetThrough'
    <3>1. ASSUME NEW g \in Calls \ {h}, call'[g].at \in {"post", "trace"}
          PROVE  /\ Decided(Operation(call[g]), You, {"allow", "confirmed"})'
                 /\ call'[g].amount >= AmountThreshold \/ call'[g].to \notin payees'
                       => Decided(Operation(call[g]), You, {"confirmed"})'
      BY <1>1, <1>4, <2>3, <3>1, DecidedStays DEF CInv, LetThrough
    <3> QED BY <1>1, <2>1, <2>4, <3>1 DEF LetThrough
  <2>6. TracedIsPosted'
    BY <1>1, <2>3, <2>4, ZenonT(60) DEF CInv, TracedIsPosted, Entries
  <2>7. PostedByRequest' /\ KnownWerePaid' /\ TransfersWereAuthorized'
    BY <1>1, <1>4, LedgerStays DEF Moved
  <2> QED BY <2>3, <2>5, <2>6, <2>7 DEF CInv
<1>6. CASE next \in {"confirm", "stop"}
  <2>1. PICK to \in {Idle, [t EXCEPT !.at = "confirm"]} : call' = [call EXCEPT ![h] = to]
    BY <1>3, <1>6 DEF Goto, Return
  <2>2. (to \in Request /\ to.at \notin {"post", "trace"}) \/ to.at \notin TransferSteps
    BY <1>1 DEF Idle, Request, TransferSteps
  <2>3. \A g \in Calls : call'[g] = call[g] \/ call'[g] = to
    BY <2>1 DEF Handlers
  <2>4. Moved' = Moved /\ \A k \in DOMAIN core : k \in DOMAIN core' /\ core'[k] = core[k]
    BY <1>1 DEF Moved
  <2>5. \A g \in Calls :
             call'[g] = call[g] \/ call'[g].at \notin TransferSteps
             \/ (call'[g] \in Request /\ call'[g].at \notin {"post", "trace"})
    BY <2>2, <2>3
  <2> QED BY <1>1, <1>4, <2>4, <2>5, OtherStepKeeps
<1> QED BY <1>3, <1>5, <1>6

(* A posting is made once and under its key, whoever hears of it.                *)
LEMMA PostOutcome ==
    ASSUME NEW t \in Request, NEW got \in Answers, Post(t.key, Entries(t), got)
    PROVE  /\ \/ core' = core
              \/ /\ t.key \notin DOMAIN core
                 /\ core' = [k \in DOMAIN core \cup {t.key} |-> IF k = t.key THEN Entries(t) ELSE core[k]]
           /\ Ok(got) => t.key \in DOMAIN core' /\ core'[t.key] = Entries(t)
<1>1. Reply(t.key, Entries(t)) = "posted" => t.key \notin DOMAIN core
  BY DEF Reply
<1>2. Reply(t.key, Entries(t)) = "replayed" => t.key \in DOMAIN core /\ core[t.key] = Entries(t)
  BY DEF Reply
<1>3. core' \in {core, Posted(t.key, Entries(t))}
  BY DEF Post
<1>4. Ok(got) => got = Reply(t.key, Entries(t)) /\ core' = Posted(t.key, Entries(t))
  BY DEF Post, Ok
<1> HIDE DEF Entries
<1> QED BY <1>1, <1>2, <1>3, <1>4 DEF Posted, Ok

(* A new transfer was decided on by the handler that posts it; if its payee was  *)
(* known, somebody was confirmed to pay them before, and else it was this one.   *)
LEMMA NewTransferKeeps ==
    ASSUME CInv, NEW t \in Request, t.key \notin DOMAIN core,
           core' = [k \in DOMAIN core \cup {t.key} |-> IF k = t.key THEN Entries(t) ELSE core[k]],
           UNCHANGED <<decisions, payees>>,
           Decided(Operation(t), You, {"allow", "confirmed"}),
           t.amount >= AmountThreshold \/ t.to \notin payees => Decided(Operation(t), You, {"confirmed"})
    PROVE  PostedByRequest' /\ KnownWerePaid' /\ TransfersWereAuthorized'
<1> DEFINE new == t.key
<1>1. /\ new \in DOMAIN core' /\ core'[new] = Entries(t)
      /\ \A k \in Moved : k \in DOMAIN core' /\ core'[k] = core[k]
  BY DEF Moved
<1>2. Moved' = Moved \cup {new}
  BY DEF Moved, Request
<1>3. \A k \in Moved : /\ Payee(k)' = Payee(k) /\ core'[k][Payee(k)'] = core[k][Payee(k)]
                       /\ \A outcomes : WasDecided(k, outcomes) => WasDecided(k, outcomes)'
  BY <1>1, OldTransfersStay
<1>4. /\ Payer(new)' = t.from /\ Payee(new)' = t.to /\ core'[new][Payee(new)'] = t.amount
  <2>1. t.amount \in Int /\ t.amount > 0 /\ t.from # t.to
    BY CustomerAssumption DEF Request
  <2>2. /\ DOMAIN core'[new] = {t.from, t.to}
        /\ core'[new][t.from] = -t.amount /\ core'[new][t.to] = t.amount
    BY <1>1, <2>1 DEF Entries, Moves
  <2>3. /\ core'[new][t.from] < 0 /\ ~(core'[new][t.to] < 0)
        /\ ~(core'[new][t.from] > 0) /\ core'[new][t.to] > 0
    BY <2>1, <2>2
  <2>4. Payer(new)' = t.from
    BY <2>2, <2>3 DEF Payer
  <2>5. Payee(new)' = t.to
    BY <2>2, <2>3 DEF Payee
  <2> QED BY <2>2, <2>4, <2>5
<1>5. /\ WasDecided(new, {"allow", "confirmed"})'
      /\ t.amount >= AmountThreshold \/ t.to \notin payees => WasDecided(new, {"confirmed"})'
  BY <1>4 DEF WasDecided, Decided, Operation
<1>6. PostedByRequest'
  <2>1. \A k \in Moved : \E u \in Request : core'[k] = Entries(u) /\ u.key = k
    BY <1>1 DEF CInv, PostedByRequest
  <2> QED BY <1>1, <1>2, <2>1 DEF PostedByRequest
<1>7. KnownWerePaid'
  BY <1>2, <1>3 DEF CInv, KnownWerePaid
<1>8. \E first \in Moved' : Payee(first)' = t.to /\ WasDecided(first, {"confirmed"})'
  BY <1>2, <1>4, <1>5, <1>7 DEF KnownWerePaid
<1>9. TransfersWereAuthorized'
  <2>1. \A k \in Moved :
           /\ WasDecided(k, {"allow", "confirmed"})'
           /\ core'[k][Payee(k)'] >= AmountThreshold => WasDecided(k, {"confirmed"})'
           /\ \E first \in Moved' : Payee(first)' = Payee(k)' /\ WasDecided(first, {"confirmed"})'
    <3> SUFFICES ASSUME NEW k \in Moved
                 PROVE  /\ WasDecided(k, {"allow", "confirmed"})'
                        /\ core'[k][Payee(k)'] >= AmountThreshold => WasDecided(k, {"confirmed"})'
                        /\ \E first \in Moved' : Payee(first)' = Payee(k)' /\ WasDecided(first, {"confirmed"})'
      OBVIOUS
    <3>1. /\ WasDecided(k, {"allow", "confirmed"})
          /\ core[k][Payee(k)] >= AmountThreshold => WasDecided(k, {"confirmed"})
      BY DEF CInv, TransfersWereAuthorized
    <3>2. PICK first \in Moved : Payee(first) = Payee(k) /\ WasDecided(first, {"confirmed"})
      BY DEF CInv, TransfersWereAuthorized
    <3>3. first \in Moved' /\ Payee(first)' = Payee(k)' /\ WasDecided(first, {"confirmed"})'
      BY <1>2, <1>3, <3>2
    <3> QED BY <1>3, <3>1, <3>3
  <2> QED BY <1>2, <1>4, <1>5, <1>8, <2>1 DEF TransfersWereAuthorized
<1> QED BY <1>6, <1>7, <1>9

LEMMA PostKeeps ==
    ASSUME Handlers, CInv, NEW h \in Calls, PostTransfer(h)
    PROVE  CInv'
<1> DEFINE t == call[h]
<1>1. t \in Request /\ t.at = "post"
  BY DEF CInv, PostTransfer, TransferSteps
<1>2. PICK got \in Answers :
         /\ Post(t.key, Entries(t), got)
         /\ IF Ok(got) THEN Goto(h, [t EXCEPT !.at = "trace"]) ELSE Return(h)
  BY DEF PostTransfer, Entries
<1>3. UNCHANGED <<decisions, payees>>
  BY DEF PostTransfer, controlVars
<1>4. /\ Decided(Operation(t), You, {"allow", "confirmed"})
      /\ t.amount >= AmountThreshold \/ t.to \notin payees => Decided(Operation(t), You, {"confirmed"})
  BY <1>1 DEF CInv, LetThrough
<1>5. /\ \/ core' = core
         \/ /\ t.key \notin DOMAIN core
            /\ core' = [k \in DOMAIN core \cup {t.key} |-> IF k = t.key THEN Entries(t) ELSE core[k]]
      /\ Ok(got) => t.key \in DOMAIN core' /\ core'[t.key] = Entries(t)
  BY <1>1, <1>2, PostOutcome
<1>6. \A k \in DOMAIN core : k \in DOMAIN core' /\ core'[k] = core[k]
  BY <1>5
<1>7. PostedByRequest' /\ KnownWerePaid' /\ TransfersWereAuthorized'
  <2>1. CASE core' = core
    BY <1>3, <2>1, LedgerStays DEF Moved
  <2>2. CASE core' # core
    BY <1>1, <1>3, <1>4, <1>5, <2>2, NewTransferKeeps
  <2> QED BY <2>1, <2>2
<1>8. PICK next \in {Idle, [t EXCEPT !.at = "trace"]} :
         call' = [call EXCEPT ![h] = next] /\ (next # Idle => Ok(got))
  BY <1>2 DEF Goto, Return
<1>9. /\ next \in Request \/ next.at \notin TransferSteps
      /\ next.at = "trace" => /\ Operation(next) = Operation(t) /\ Entries(next) = Entries(t)
                              /\ next.key = t.key /\ next.amount = t.amount /\ next.to = t.to
      /\ next.at \in {"post", "trace"} => next.at = "trace" /\ Ok(got)
  BY <1>1, <1>8 DEF Idle, Request, Operation, Entries, TransferSteps
<1>10. /\ call'[h] = next /\ \A g \in Calls \ {h} : call'[g] = call[g]
       /\ \A g \in Calls : call'[g].at \in TransferSteps => call'[g] \in Request
  <2>1. call'[h] = next /\ \A g \in Calls \ {h} : call'[g] = call[g]
    BY <1>8 DEF Handlers
  <2> QED BY <1>9, <2>1 DEF CInv
<1>11. LetThrough'
  <2>1. \A o, outcomes : Decided(o, You, outcomes) => Decided(o, You, outcomes)'
    BY <1>3 DEF Decided
  <2>2. \A g \in Calls \ {h} : call'[g].at \in {"post", "trace"} =>
           /\ Decided(Operation(call[g]), You, {"allow", "confirmed"})
           /\ call[g].amount >= AmountThreshold \/ call[g].to \notin payees
                 => Decided(Operation(call[g]), You, {"confirmed"})
    BY <1>10 DEF CInv, LetThrough
  <2>3. call'[h].at \in {"post", "trace"} => Operation(call[h])' = Operation(t)
    BY <1>9, <1>10 DEF Operation
  <2> QED BY <1>3, <1>4, <1>9, <1>10, <2>1, <2>2, <2>3 DEF LetThrough, Operation
<1>12. TracedIsPosted'
  <2>1. \A g \in Calls \ {h} : call'[g].at = "trace" =>
           call'[g].key \in DOMAIN core' /\ core'[call'[g].key] = Entries(call'[g])
    <3>1. \A g \in Calls \ {h} : call'[g].at = "trace" =>
             call[g].key \in DOMAIN core /\ core[call[g].key] = Entries(call[g])
      BY <1>10 DEF CInv, TracedIsPosted
    <3> QED BY <1>6, <1>10, <3>1
  <2>2. call'[h].at = "trace" =>
           call'[h].key \in DOMAIN core' /\ core'[call'[h].key] = Entries(call'[h])
    BY <1>5, <1>9, <1>10
  <2> QED BY <2>1, <2>2 DEF TracedIsPosted
<1> QED BY <1>7, <1>10, <1>11, <1>12 DEF CInv

(* Who is remembered has just been paid, and so somebody was confirmed to pay    *)
(* them.                                                                         *)
LEMMA TraceKeeps ==
    ASSUME Handlers, CInv, NEW h \in Calls, TraceTransfer(h)
    PROVE  CInv'
<1> DEFINE t == call[h]
<1>1. t \in Request /\ t.at = "trace"
  BY DEF CInv, TraceTransfer, TransferSteps
<1>2. /\ payees' \in {payees, payees \cup {t.to}} /\ call' = [call EXCEPT ![h] = Idle]
      /\ core' = core /\ decisions' = decisions
  BY DEF TraceTransfer, Remember, Return, Goto
<1>3. \A k : /\ Payee(k)' = Payee(k)
            /\ \A outcomes : WasDecided(k, outcomes)' <=> WasDecided(k, outcomes)
  <2>1. \A k : Payee(k)' = Payee(k) /\ Payer(k)' = Payer(k)
    BY <1>2 DEF Payee, Payer
  <2> QED BY <1>2, <2>1 DEF WasDecided, Decided
<1>4. Moved' = Moved
  BY <1>2 DEF Moved
<1>5. \E k \in Moved : Payee(k) = t.to /\ WasDecided(k, {"confirmed"})
  <2>1. t.key \in Moved /\ core[t.key] = Entries(t)
    BY <1>1 DEF CInv, TracedIsPosted, Moved, Request
  <2>2. Payee(t.key) = t.to
    BY <1>1, <2>1, EntriesTellTerms
  <2> QED BY <2>1, <2>2 DEF CInv, TransfersWereAuthorized
<1>6. KnownWerePaid'
  BY <1>2, <1>3, <1>4, <1>5 DEF CInv, KnownWerePaid
<1>7. PostedByRequest' /\ TransfersWereAuthorized'
  BY <1>2, <1>3, <1>4 DEF CInv, PostedByRequest, TransfersWereAuthorized, Entries
<1>8. /\ \A g \in Calls : call'[g].at \in TransferSteps => call'[g] \in Request
      /\ \A g \in Calls : call'[g].at \in {"post", "trace"} => call'[g] = call[g]
  <2>1. \A g \in Calls : call'[g] = call[g] \/ call'[g] = Idle
    BY <1>2 DEF Handlers
  <2> QED BY <2>1 DEF CInv, Idle, TransferSteps
<1>9. LetThrough' /\ TracedIsPosted'
  <2>1. LetThrough'
    BY <1>2, <1>8, DecidedStays DEF CInv, LetThrough
  <2> QED BY <1>2, <1>8, <2>1 DEF CInv, TracedIsPosted
<1> QED BY <1>6, <1>7, <1>8, <1>9 DEF CInv

(* The other parts post under keys of other kinds, and leave its handlers alone. *)
LEMMA ElsewhereKeepsC ==
    ASSUME CInv, NEW steps, NEW kinds, Within(steps), Growing(kinds), "transfer" \notin kinds,
           (steps \cup {"idle"}) \cap TransferSteps = {}, UNCHANGED <<decisions, payees>>
    PROVE  CInv'
<1>1. /\ \A k \in DOMAIN core : k \in DOMAIN core' /\ core'[k] = core[k]
      /\ \A k \in DOMAIN core' : k \in DOMAIN core \/ k[1] \in kinds
  BY LedgerGrows
<1>2. Moved' = Moved
  BY <1>1 DEF Moved
<1>3. \A g \in Calls : call'[g] = call[g] \/ call'[g].at \notin TransferSteps
  BY DEF Within
<1>4. payees' = payees /\ decisions \subseteq decisions'
  OBVIOUS
<1> QED BY <1>1, <1>2, <1>3, <1>4, OtherStepKeeps

LEMMA TransfersKeepC == ASSUME Handlers, CInv, NextTransfers PROVE CInv'
<1>1. ASSUME NEW h \in Calls, NEW t \in transferTerms, handleTransfer(h, t) PROVE CInv'
  <2>1. t \in Request /\ t.at = "authorize" /\ call' = [call EXCEPT ![h] = t]
    BY <1>1 DEF handleTransfer, transferTerms, Request, Start
  <2>2. UNCHANGED <<core, decisions, payees>>
    BY <1>1 DEF handleTransfer, controlVars
  <2>3. \A g \in Calls : call'[g] = call[g] \/ call'[g] = t
    BY <2>1 DEF Handlers
  <2>4. Moved' = Moved /\ \A k \in DOMAIN core : k \in DOMAIN core' /\ core'[k] = core[k]
    BY <2>2 DEF Moved
  <2>5. \A g \in Calls :
             call'[g] = call[g] \/ call'[g].at \notin TransferSteps
             \/ (call'[g] \in Request /\ call'[g].at \notin {"post", "trace"})
    BY <2>1, <2>3
  <2> QED BY <2>2, <2>4, <2>5, OtherStepKeeps
<1> QED BY <1>1, AuthorizeKeeps, PostKeeps, TraceKeeps DEF NextTransfers

LEMMA TransfersGrow ==
    ASSUME Handlers, CInv, NextTransfers PROVE Growing({"transfer"})
<1>1. ASSUME NEW h \in Calls, PostTransfer(h) PROVE Growing({"transfer"})
  <2>1. \E entries, got : Post(call[h].key, entries, got)
    BY <1>1 DEF PostTransfer
  <2>2. call[h].key[1] = "transfer"
    BY <1>1 DEF PostTransfer, CInv, Request, TransferSteps
  <2> QED BY <2>1, <2>2, PostGrows
<1>2. ASSUME core' = core PROVE Growing({"transfer"})
  BY <1>2 DEF Growing
<1> QED BY <1>1, <1>2 DEF NextTransfers, handleTransfer, AuthorizeTransfer, TraceTransfer

-------------------------------------------------------------------------------
(* Pockets: the index that lets in one row with the card is all it takes, since  *)
(* a pocket without a row does not count as the card's.                          *)
OneCardRow ==
    \A p, q \in DOMAIN purposes : purposes[p] = "card" /\ purposes[q] = "card" => p = q

LEMMA PocketsKeepRows == ASSUME OneCardRow, NextPockets PROVE OneCardRow'
<1>1. ASSUME UNCHANGED purposes PROVE OneCardRow'
  BY <1>1 DEF OneCardRow
<1>2. ASSUME NEW h \in Calls, InsertPocket(h) PROVE OneCardRow'
  <2> PICK t : t = call[h]
    OBVIOUS
  <2>1. purposes' = purposes \/ (~Taken(t.purpose) /\ purposes' = Insert(purposes, t.pocket, t.purpose))
    BY <1>2 DEF InsertPocket
  <2>2. ASSUME ~Taken(t.purpose), purposes' = Insert(purposes, t.pocket, t.purpose) PROVE OneCardRow'
    BY <2>2 DEF OneCardRow, Taken, Insert
  <2> QED BY <1>1, <2>1, <2>2
<1>3. ASSUME NEW h \in Calls, DeletePocket(h) PROVE OneCardRow'
  BY <1>3 DEF DeletePocket, OneCardRow
<1>4. \/ UNCHANGED purposes
      \/ \E h \in Calls : InsertPocket(h) \/ DeletePocket(h)
  BY DEF NextPockets, handleOpenPocket, OpenPocket, handleClosePocket, handlePocketMove, UndoOpen,
         PostPocketMove, EmptyPocket, ClosePocket, pocketVars
<1> QED BY <1>1, <1>2, <1>3, <1>4

LEMMA OneRowOnePocket == OneCardRow => OneCardPocket
<1> SUFFICES ASSUME OneCardRow PROVE OneCardPocket
  OBVIOUS
<1>1. \A p \in CardPocket : p \in DOMAIN purposes /\ purposes[p] = "card"
  BY DEF CardPocket, PurposeOf
<1>2. CASE CardPocket = {}
  BY <1>2, FS_EmptySet DEF OneCardPocket
<1>3. CASE CardPocket # {}
  <2>1. PICK p : p \in CardPocket
    BY <1>3
  <2>2. CardPocket = {p}
    BY <1>1, <2>1 DEF OneCardRow
  <2>3. Cardinality(CardPocket) = 1
    BY <2>2, FS_Singleton
  <2> QED BY <2>3 DEF OneCardPocket
<1> QED BY <1>2, <1>3

-------------------------------------------------------------------------------
(* Exchange: a posting at a quote's amounts is the only one under its key.       *)
Quoted(q) == {"from", "to", "gives", "receives", "late", "transaction"} = DOMAIN quotes[q]
Converted(q) == <<"fx", q>> \in DOMAIN core /\ core[<<"fx", q>>] = ConversionOf(quotes[q])

FInv ==
    /\ DOMAIN quotes = Quotes /\ \A q \in Quotes : quotes[q] = NoQuote \/ Quoted(q)
    /\ \A h \in Calls : call[h].at \in FXSteps =>
          "quote" \in DOMAIN call[h] /\ call[h].quote \in Quotes /\ Quoted(call[h].quote)
    /\ \A h \in Calls : call[h].at = "link" => Converted(call[h].quote)
    /\ \A q \in converted : q \in Quotes /\ Quoted(q) /\ quotes[q].transaction /\ Converted(q)

LEMMA NoQuoteIsNone == \A q : Quoted(q) => quotes[q] # NoQuote
BY DEF Quoted, NoQuote

(* A quote keeps its amounts whatever else is said of it.                        *)
SameTerms(q) ==
    /\ quotes'[q].from = quotes[q].from /\ quotes'[q].to = quotes[q].to
    /\ quotes'[q].gives = quotes[q].gives /\ quotes'[q].receives = quotes[q].receives
    /\ DOMAIN quotes'[q] = DOMAIN quotes[q]
    /\ quotes[q].transaction => quotes'[q].transaction

LEMMA SameConversion ==
    ASSUME NEW q, SameTerms(q), \A k \in DOMAIN core : k \in DOMAIN core' /\ core'[k] = core[k]
    PROVE  /\ Quoted(q) => Quoted(q)'
           /\ Converted(q) => Converted(q)'
<1>1. ConversionOf(quotes[q])' = ConversionOf(quotes[q])
  BY DEF ConversionOf, SameTerms
<1> QED BY <1>1 DEF Converted, Quoted, SameTerms

LEMMA FXStands ==
    ASSUME FInv, \A k \in DOMAIN core : k \in DOMAIN core' /\ core'[k] = core[k],
           DOMAIN quotes' = Quotes,
           \A q \in Quotes : SameTerms(q) \/ (quotes[q] = NoQuote /\ Quoted(q)'),
           \A q \in Quotes : quotes'[q] = NoQuote \/ Quoted(q)',
           \A g \in Calls :
               call'[g] = call[g] \/ call'[g].at \notin FXSteps
               \/ \E q \in Quotes : "quote" \in DOMAIN call'[g] /\ call'[g].quote = q /\ Quoted(q)
                                    /\ (call'[g].at = "link" => Converted(q)'),
           \A q \in converted' : q \in converted \/ (q \in Quotes /\ Quoted(q)' /\ quotes'[q].transaction /\ Converted(q)')
    PROVE  FInv'
<1>1. \A q \in Quotes : Quoted(q) => SameTerms(q) /\ Quoted(q)'
  BY NoQuoteIsNone, SameConversion
<1>2. \A q \in Quotes : Quoted(q) /\ Converted(q) => Converted(q)'
  BY NoQuoteIsNone, SameConversion
<1>3. ASSUME NEW g \in Calls, call'[g].at \in FXSteps
      PROVE  /\ "quote" \in DOMAIN call'[g] /\ call'[g].quote \in Quotes /\ Quoted(call[g].quote)'
             /\ call'[g].at = "link" => Converted(call[g].quote)'
  <2>1. PICK q \in Quotes : q = call'[g].quote /\ Quoted(q) /\ "quote" \in DOMAIN call'[g]
    BY <1>3 DEF FInv
  <2>2. call'[g].at = "link" => Converted(q) \/ Converted(q)'
    BY <1>3, <2>1 DEF FInv
  <2>3. Quoted(q)' /\ (call'[g].at = "link" => Converted(q)')
    BY <1>1, <1>2, <2>1, <2>2
  <2> QED BY <2>1, <2>3 DEF Quoted, Converted
<1>4. \A q \in converted' : q \in Quotes /\ Quoted(q)' /\ quotes'[q].transaction /\ Converted(q)'
  BY <1>1, <1>2 DEF FInv, SameTerms
<1>5. \A g \in Calls : call'[g].at = "link" => call'[g].at \in FXSteps
  BY DEF FXSteps
<1> QED BY <1>3, <1>4, <1>5 DEF FInv

LEMMA ElsewhereKeepsF ==
    ASSUME FInv, NEW steps, NEW kinds, Within(steps), Growing(kinds),
           (steps \cup {"idle"}) \cap FXSteps = {}, UNCHANGED fxVars
    PROVE  FInv'
<1>1. \A k \in DOMAIN core : k \in DOMAIN core' /\ core'[k] = core[k]
  BY LedgerGrows
<1>2. quotes' = quotes /\ converted' = converted
  BY DEF fxVars
<1>3. \A q \in Quotes : SameTerms(q)
  BY <1>2 DEF SameTerms
<1>4. \A g \in Calls : call'[g] = call[g] \/ call'[g].at \notin FXSteps
  BY DEF Within
<1>5. DOMAIN quotes' = Quotes /\ \A q \in Quotes : quotes'[q] = NoQuote \/ Quoted(q)'
  BY <1>2 DEF FInv, Quoted
<1> QED BY <1>1, <1>2, <1>3, <1>4, <1>5, FXStands

LEMMA PostedAs ==
    ASSUME NEW key, NEW entries, NEW got, Post(key, entries, got)
    PROVE  Ok(got) => key \in DOMAIN core' /\ core'[key] = entries
BY DEF Post, Posted, Reply, Ok

LEMMA FXKeeps == ASSUME Handlers, FInv, NextFX PROVE FInv'
<1>1. \A k \in DOMAIN core : k \in DOMAIN core' /\ core'[k] = core[k]
  BY FXWithin, LedgerGrows
<1>2. ASSUME NEW h \in Calls, \E q \in Quotes : handleFXConvert(h, q) PROVE FInv'
  <2>1. PICK q \in Quotes : handleFXConvert(h, q)
    BY <1>2
  <2>2. Quoted(q) /\ UNCHANGED <<quotes, converted>>
    BY <2>1 DEF handleFXConvert, FInv, fxVars
  <2>3. \A g \in Calls : call'[g] = call[g] \/ (call'[g].at = "convert" /\ call'[g].quote = q /\ "quote" \in DOMAIN call'[g])
    BY <2>1 DEF handleFXConvert, Start, Handlers
  <2>4. \A p \in Quotes : SameTerms(p)
    BY <2>2 DEF SameTerms
  <2>5. DOMAIN quotes' = Quotes /\ \A p \in Quotes : quotes'[p] = NoQuote \/ Quoted(p)'
    BY <2>2 DEF FInv, Quoted
  <2> QED BY <1>1, <2>2, <2>3, <2>4, <2>5, FXStands
<1>3. ASSUME NEW h \in Calls, PostConversion(h) PROVE FInv'
  <2>1. PICK q \in Quotes : q = call[h].quote /\ Quoted(q) /\ "quote" \in DOMAIN call[h]
    BY <1>3 DEF PostConversion, FInv, FXSteps
  <2>2. PICK got : /\ Post(<<"fx", q>>, ConversionOf(quotes[q]), got)
                   /\ IF Ok(got) THEN Goto(h, [call[h] EXCEPT !.at = "link"]) ELSE Return(h)
    BY <1>3, <2>1 DEF PostConversion
  <2>3. UNCHANGED <<quotes, converted>>
    BY <1>3 DEF PostConversion, fxVars
  <2>4. Ok(got) => Converted(q)'
    <3>1. ConversionOf(quotes[q])' = ConversionOf(quotes[q])
      BY <2>3 DEF ConversionOf
    <3> QED BY <2>2, <3>1, PostedAs DEF Converted
  <2>5. PICK t : /\ call' = [call EXCEPT ![h] = t]
                 /\ \/ t.at = "idle"
                    \/ t.quote = q /\ "quote" \in DOMAIN t /\ Ok(got)
    <3> PICK t : t = [call[h] EXCEPT !.at = "link"]
      OBVIOUS
    <3>1. t.quote = q /\ "quote" \in DOMAIN t
      BY <2>1
    <3> QED BY <2>2, <3>1, IdleIs DEF Goto, Return
  <2>6. \A g \in Calls : call'[g] = call[g] \/ call'[g] = t
    BY <2>5 DEF Handlers
  <2>7. \A p \in Quotes : SameTerms(p)
    BY <2>3 DEF SameTerms
  <2>8. DOMAIN quotes' = Quotes /\ \A p \in Quotes : quotes'[p] = NoQuote \/ Quoted(p)'
    BY <2>3 DEF FInv, Quoted
  <2>9. "idle" \notin FXSteps
    BY DEF FXSteps
  <2> QED BY <1>1, <2>1, <2>3, <2>4, <2>5, <2>6, <2>7, <2>8, <2>9, FXStands
<1>4. ASSUME NEW h \in Calls, LinkConversion(h) PROVE FInv'
  <2>1. PICK q \in Quotes : q = call[h].quote /\ Quoted(q) /\ Converted(q)
    BY <1>4 DEF LinkConversion, FInv, FXSteps
  <2>2. /\ quotes' \in {quotes, [quotes EXCEPT ![q].transaction = TRUE]}
        /\ \/ converted' = converted
           \/ quotes' = [quotes EXCEPT ![q].transaction = TRUE] /\ converted' = converted \cup {q}
        /\ Return(h)
    BY <1>4, <2>1 DEF LinkConversion
  <2>3. \A p \in Quotes : SameTerms(p)
    BY <2>1, <2>2 DEF SameTerms, Quoted, FInv
  <2>4. \A g \in Calls : call'[g] = call[g] \/ call'[g].at \notin FXSteps
    BY <2>2, IdleIs DEF Return, Goto, Handlers, FXSteps
  <2>5. DOMAIN quotes' = Quotes
    BY <2>2 DEF FInv
  <2>6. \A p \in Quotes : quotes'[p] = NoQuote \/ Quoted(p)'
    BY <2>1, <2>2, <2>3 DEF FInv, Quoted, SameTerms
  <2>7. Quoted(q)' /\ Converted(q)'
    BY <1>1, <2>1, <2>3, SameConversion
  <2>8. q \in converted' => q \in converted \/ quotes'[q].transaction
    BY <2>1, <2>2 DEF FInv, Quoted
  <2> QED BY <1>1, <2>2, <2>3, <2>4, <2>5, <2>6, <2>7, <2>8, FXStands
<1>5. ASSUME NEW q \in Quotes, NEW r,
             /\ quotes' = [quotes EXCEPT ![q] = r] /\ UNCHANGED <<converted, call>>
             /\ \/ quotes[q] = NoQuote /\ DOMAIN r = {"from", "to", "gives", "receives", "late", "transaction"}
                \/ r = [quotes[q] EXCEPT !.late = TRUE] /\ Quoted(q)
      PROVE  FInv'
  <2>1. DOMAIN quotes' = Quotes /\ quotes'[q] = r /\ \A p \in Quotes \ {q} : quotes'[p] = quotes[p]
    BY <1>5 DEF FInv
  <2>2. \A p \in Quotes \ {q} : SameTerms(p)
    BY <2>1 DEF SameTerms
  <2>3. SameTerms(q) \/ (quotes[q] = NoQuote /\ Quoted(q)')
    BY <1>5, <2>1 DEF SameTerms, Quoted
  <2>4. \A p \in Quotes : quotes'[p] = NoQuote \/ Quoted(p)'
    BY <1>5, <2>1, <2>3 DEF FInv, Quoted, SameTerms
  <2> QED BY <1>1, <1>5, <2>1, <2>2, <2>3, <2>4, FXStands
<1>6. ASSUME NEW q \in Quotes, NEW from \in Own, NEW to \in Own, NEW x \in FXAmounts,
             NEW reference \in References, handleFXQuote(q, from, to, x, reference)
      PROVE  FInv'
  <2> PICK r : r = [from |-> from, to |-> to, gives |-> x,
                    receives |-> ToMicros(CurrencyOf[from], reference, x),
                    late |-> FALSE, transaction |-> FALSE]
    OBVIOUS
  <2>1. DOMAIN r = {"from", "to", "gives", "receives", "late", "transaction"}
    OBVIOUS
  <2> QED BY <1>5, <1>6, <2>1 DEF handleFXQuote, handlerVars
<1>7. ASSUME NEW q \in Quotes, ExpireQuote(q) PROVE FInv'
  <2> PICK r : r = [quotes[q] EXCEPT !.late = TRUE]
    OBVIOUS
  <2>1. Quoted(q) /\ quotes' = [quotes EXCEPT ![q] = r] /\ UNCHANGED <<converted, call>>
    BY <1>7 DEF ExpireQuote, FInv, handlerVars
  <2> QED BY <1>5, <2>1
<1> QED BY <1>2, <1>3, <1>4, <1>6, <1>7 DEF NextFX

-------------------------------------------------------------------------------
(* Exchange in whole numbers, for every rate, amount, spread and rounding.       *)
LEMMA Quotient ==
    ASSUME NEW a \in Nat, NEW b \in Nat \ {0}
    PROVE  a \div b \in Nat /\ b * (a \div b) <= a /\ a < b * (a \div b) + b
OBVIOUS

LEMMA TimesGrows ==
    ASSUME NEW a \in Nat, NEW b \in Nat, NEW c \in Nat, a <= b
    PROVE  a * c <= b * c /\ a * c \in Nat /\ a * c = c * a
OBVIOUS

LEMMA QuotientLeast ==
    ASSUME NEW a \in Nat, NEW b \in Nat \ {0}, NEW q \in Nat, b * q <= a
    PROVE  q <= a \div b
<1> PICK d : d = a \div b
  OBVIOUS
<1>1. d \in Nat /\ a < b * d + b
  BY Quotient
<1>2. b * d + b = b * (d + 1)
  BY <1>1
<1>3. ASSUME d + 1 <= q PROVE FALSE
  <2>1. b * (d + 1) <= b * q
    BY <1>1, <1>3, TimesGrows
  <2> QED BY <1>1, <1>2, <2>1
<1> QED BY <1>1, <1>3

(* Of more by no more there is no less.                                          *)
LEMMA QuotientGrows ==
    ASSUME NEW a \in Nat, NEW b \in Nat, NEW c \in Nat \ {0}, NEW d \in Nat \ {0}, a <= b, d <= c
    PROVE  a \div c <= b \div d
<1> PICK q : q = a \div c
  OBVIOUS
<1>1. q \in Nat /\ c * q <= a
  BY Quotient
<1>2. d * q <= c * q /\ d * q \in Nat /\ c * q \in Nat
  BY <1>1, TimesGrows
<1>3. d * q <= b
  BY <1>1, <1>2
<1> QED BY <1>1, <1>3, QuotientLeast

(* There and back: what is bought at p and sold at no more than p.               *)
LEMMA ThereAndBack ==
    ASSUME NEW x \in Nat, NEW u \in Nat \ {0}, NEW p \in Nat \ {0}, NEW n \in Nat \ {0}, u <= p,
           NEW t \in Nat
    PROVE  /\ t <= (x * u) \div n => (t * n) \div p <= x
           /\ t <= (x * n) \div p => (t * u) \div n <= x
<1>1. ASSUME t <= (x * u) \div n PROVE (t * n) \div p <= x
  <2>1. x * u \in Nat /\ x * u <= x * p /\ x * p \in Nat
    BY TimesGrows
  <2> PICK q : q = (x * u) \div n
    OBVIOUS
  <2>2. q \in Nat /\ n * q <= x * u
    BY <2>1, Quotient
  <2>3. t * n <= q * n /\ q * n = n * q /\ t * n \in Nat /\ n * q \in Nat
    BY <1>1, <2>2, TimesGrows
  <2>4. t * n <= x * p
    BY <2>1, <2>2, <2>3
  <2> PICK b : b = (t * n) \div p
    OBVIOUS
  <2>5. b \in Nat /\ p * b <= t * n
    BY <2>3, Quotient
  <2>6. p * b <= p * x /\ p * b \in Nat /\ p * x \in Nat
    BY <2>1, <2>3, <2>4, <2>5, TimesGrows
  <2>7. (p * x) \div p = x
    OBVIOUS
  <2>8. p * b <= p * x => b <= (p * x) \div p
    BY <2>5, <2>6, QuotientLeast
  <2> QED BY <2>6, <2>7, <2>8
<1>2. ASSUME t <= (x * n) \div p PROVE (t * u) \div n <= x
  <2> PICK q : q = (x * n) \div p
    OBVIOUS
  <2>1. x * n \in Nat /\ q \in Nat /\ p * q <= x * n
    BY TimesGrows, Quotient
  <2>2. t * u <= q * u /\ t * u \in Nat /\ q * u \in Nat
    BY <1>2, <2>1, TimesGrows
  <2>3. u * q <= p * q /\ u * q = q * u /\ p * q \in Nat
    BY <2>1, TimesGrows
  <2>4. t * u <= x * n
    BY <2>1, <2>2, <2>3
  <2> PICK b : b = (t * u) \div n
    OBVIOUS
  <2>5. b \in Nat /\ n * b <= t * u
    BY <2>2, Quotient
  <2>6. n * b <= n * x /\ n * b \in Nat /\ n * x \in Nat
    BY <2>1, <2>2, <2>4, <2>5, TimesGrows
  <2>7. (n * x) \div n = x
    OBVIOUS
  <2>8. n * b <= n * x => b <= (n * x) \div n
    BY <2>5, <2>6, QuotientLeast
  <2> QED BY <2>6, <2>7, <2>8
<1> QED BY <1>1, <1>2

LEMMA RatesBracket ==
    ASSUME NEW r \in Nat \ {0}
    PROVE  /\ AppliedRate("USD", r) \in Nat /\ AppliedRate("USD", r) <= r
           /\ AppliedRate("PEN", r) \in Nat /\ r <= AppliedRate("PEN", r)
<1>1. Whole \in Nat \ {0} /\ Whole - Spread \in Nat /\ Whole - Spread <= Whole
      /\ Whole + Spread \in Nat /\ Whole <= Whole + Spread
  BY FXAssumption
<1> PICK a, b, d : a = r * (Whole - Spread) /\ b = r * Whole /\ d = r * (Whole + Spread)
  OBVIOUS
<1>2. a \in Nat /\ b \in Nat /\ d \in Nat /\ a <= b /\ b <= d
  BY <1>1, TimesGrows
<1>3. b \div Whole = r
  BY <1>1
<1>4. a \div Whole <= b \div Whole
  BY <1>1, <1>2, QuotientGrows
<1>5. b \div Whole <= d \div Whole
  BY <1>1, <1>2, QuotientGrows
<1>6. a \div Whole \in Nat /\ d \div Whole \in Nat
  BY <1>1, <1>2, Quotient
<1> QED BY <1>3, <1>4, <1>5, <1>6 DEF AppliedRate

LEMMA Rounded ==
    ASSUME NEW t \in Nat PROVE t - (t % Cent) \in Nat /\ t - (t % Cent) <= t
<1>1. Cent \in Nat \ {0}
  BY FXAssumption
<1>2. t % Cent \in Nat /\ t % Cent <= t
  BY <1>1
<1> QED BY <1>2

(* No change is a loss to the bank, and none and its reverse a gain.             *)
LEMMA FairAlways ==
    ASSUME NEW r \in Nat \ {0}, NEW x \in Nat \ {0}, NEW c \in {"USD", "PEN"}
    PROVE  Fair(c, r, x)
<1> SUFFICES ASSUME AppliedRate("USD", r) > 0
             PROVE  /\ CostMicros(c, r, x) >= 0
                    /\ ToMicros(IF c = "USD" THEN "PEN" ELSE "USD", r, ToMicros(c, r, x)) <= x
  BY DEF Fair
<1> PICK u, p : u = AppliedRate("USD", r) /\ p = AppliedRate("PEN", r)
  OBVIOUS
<1>1. u \in Nat \ {0} /\ u <= r /\ p \in Nat \ {0} /\ r <= p /\ u <= p /\ One \in Nat \ {0}
  BY RatesBracket, FXAssumption
<1>2. /\ (x * u) \div One \in Nat /\ (x * r) \div One \in Nat
      /\ (x * u) \div One <= (x * r) \div One
  <2> PICK a, b : a = x * u /\ b = x * r
    OBVIOUS
  <2>1. a \in Nat /\ b \in Nat /\ a <= b
    BY <1>1, TimesGrows
  <2>2. a \div One <= b \div One
    <3> One \in Nat \ {0} /\ One <= One
      BY <1>1
    <3> QED BY <2>1, QuotientGrows
  <2>3. a \div One \in Nat /\ b \div One \in Nat
    BY <1>1, <2>1, Quotient
  <2> QED BY <2>2, <2>3
<1>3. /\ (x * One) \div p \in Nat /\ (x * One) \div r \in Nat
      /\ (x * One) \div p <= (x * One) \div r
  <2> PICK a : a = x * One
    OBVIOUS
  <2>1. a \in Nat
    BY <1>1, TimesGrows
  <2>2. a \div p <= a \div r
    <3> a <= a /\ p \in Nat \ {0} /\ r \in Nat \ {0} /\ r <= p
      BY <1>1, <2>1
    <3> QED BY <2>1, QuotientGrows
  <2>3. a \div p \in Nat /\ a \div r \in Nat
    BY <1>1, <2>1, Quotient
  <2> QED BY <2>2, <2>3
<1>4. CASE c = "USD"
  <2> PICK y : y = (x * u) \div One
    OBVIOUS
  <2> PICK t : t = y - (y % Cent)
    OBVIOUS
  <2>1. y \in Nat /\ t \in Nat /\ t <= y
    BY <1>2, Rounded
  <2>2. ToMicros(c, r, x) = t
    BY <1>4 DEF ToMicros, Change, mulDiv
  <2>3. CostMicros(c, r, x) = (x * r) \div One - t
    BY <1>4, <2>2 DEF CostMicros, Change, mulDiv
  <2> PICK z : z = (t * One) \div p
    OBVIOUS
  <2>4. z \in Nat /\ z <= x
    BY <1>1, <2>1, ThereAndBack, TimesGrows, Quotient
  <2>5. ToMicros("PEN", r, t) = z - (z % Cent)
    BY DEF ToMicros, Change, mulDiv
  <2>6. z - (z % Cent) <= z /\ z - (z % Cent) \in Nat
    BY <2>4, Rounded
  <2> QED BY <1>2, <1>4, <2>1, <2>2, <2>3, <2>4, <2>5, <2>6
<1>5. CASE c = "PEN"
  <2> PICK y : y = (x * One) \div p
    OBVIOUS
  <2> PICK t : t = y - (y % Cent)
    OBVIOUS
  <2>1. y \in Nat /\ t \in Nat /\ t <= y
    BY <1>3, Rounded
  <2>2. ToMicros(c, r, x) = t
    BY <1>5 DEF ToMicros, Change, mulDiv
  <2>3. CostMicros(c, r, x) = (x * One) \div r - t
    BY <1>5, <2>2 DEF CostMicros, Change, mulDiv
  <2> PICK z : z = (t * u) \div One
    OBVIOUS
  <2>4. z \in Nat /\ z <= x
    BY <1>1, <2>1, ThereAndBack, TimesGrows, Quotient
  <2>5. ToMicros("USD", r, t) = z - (z % Cent)
    BY DEF ToMicros, Change, mulDiv
  <2>6. z - (z % Cent) <= z /\ z - (z % Cent) \in Nat
    BY <2>4, Rounded
  <2> QED BY <1>3, <1>5, <2>1, <2>2, <2>3, <2>4, <2>5, <2>6
<1> QED BY <1>4, <1>5

-------------------------------------------------------------------------------
(* Credit: whoever opens or links a line does so for an application that was     *)
(* approved, and nobody finds a line that was opened for another.                *)
Filings == [outcome : Outcomes, recent : BOOLEAN, linked : BOOLEAN]
Lines   == [status : {"active", "blocked"}, ref : Applications]

CreditTypeOK == /\ applications \in [Applications -> {NotFiled} \cup Filings]
                /\ line \in {NoLine} \cup Lines /\ toldLine \subseteq Applications

Approved(a) == applications[a].outcome = "approved"
HasLine(a)  == line # NoLine /\ line.ref = a

LInv ==
    /\ CreditTypeOK
    /\ line # NoLine => Approved(line.ref)
    /\ \A h \in Calls : call[h].at \in {"open_line", "link_line"} =>
          "application" \in DOMAIN call[h] /\ call[h].application \in Applications /\ Approved(call[h].application)
    /\ \A h \in Calls : call[h].at = "link_line" => HasLine(call[h].application)
    /\ \A h \in Calls : call[h].at \in {"draw", "pay"} => line # NoLine
    /\ \A a \in Applications :
          a \in toldLine \/ (applications[a] # NotFiled /\ applications[a].linked) => HasLine(a)

LEMMA LineIsLine == CreditTypeOK => (line # NoLine => line \in Lines)
                                  /\ \A a \in Applications : Approved(a) => applications[a] \in Filings
BY DEF CreditTypeOK, Approved, NotFiled

LEMMA LInvMeansApproved == LInv => LinesWereApproved
BY DEF LInv, LinesWereApproved, Approved, HasLine

(* A line once opened keeps its application, and an approval is final.           *)
LEMMA CreditStands ==
    ASSUME LInv, CreditTypeOK',
           \A a \in Applications : Approved(a) => Approved(a)',
           line # NoLine => line' # NoLine /\ line'.ref = line.ref,
           line' # NoLine => line # NoLine \/ Approved(line.ref)',
           \A g \in Calls :
               call'[g] = call[g] \/ call'[g].at \notin CreditSteps \/ call'[g].at = "assess"
               \/ (call'[g].at \in {"draw", "pay"} /\ line' # NoLine)
               \/ \E a \in Applications : /\ "application" \in DOMAIN call'[g] /\ call'[g].application = a
                                         /\ Approved(a)' /\ call'[g].at \in {"open_line", "link_line"}
                                         /\ (call'[g].at = "link_line" => HasLine(a)'),
           \A a \in Applications :
               a \in toldLine' \/ (applications'[a] # NotFiled /\ applications'[a].linked) =>
                   \/ HasLine(a)'
                   \/ a \in toldLine \/ (applications[a] # NotFiled /\ applications[a].linked)
    PROVE  LInv'
<1>1. \A a \in Applications : HasLine(a) => HasLine(a)'
  BY DEF HasLine
<1>2. line' # NoLine => Approved(line.ref)'
  <2>1. CASE line # NoLine
    <3>1. PICK a \in Applications : a = line.ref /\ Approved(a)
      BY <2>1, LineIsLine DEF LInv, Lines
    <3>2. Approved(a)' /\ line'.ref = a
      BY <2>1, <3>1
    <3> QED BY <3>2 DEF Approved
  <2>2. CASE line = NoLine
    BY <2>2 DEF Approved
  <2> QED BY <2>1, <2>2
<1>3. ASSUME NEW g \in Calls, call'[g].at \in {"open_line", "link_line"}
      PROVE  /\ "application" \in DOMAIN call'[g] /\ call'[g].application \in Applications
             /\ Approved(call[g].application)'
             /\ call'[g].at = "link_line" => HasLine(call[g].application)'
  <2>1. PICK a \in Applications : /\ "application" \in DOMAIN call'[g] /\ call'[g].application = a
                                 /\ Approved(a)' /\ (call'[g].at = "link_line" => HasLine(a)')
    <3>1. CASE call'[g] = call[g]
      <4>1. PICK a \in Applications : a = call[g].application /\ Approved(a) /\ "application" \in DOMAIN call[g]
                                       /\ (call[g].at = "link_line" => HasLine(a))
        BY <1>3, <3>1 DEF LInv
      <4> QED BY <1>1, <3>1, <4>1
    <3>2. CASE call'[g] # call[g]
      BY <1>3, <3>2 DEF CreditSteps
    <3> QED BY <3>1, <3>2
  <2> QED BY <2>1 DEF Approved, HasLine
<1>4. \A g \in Calls : call'[g].at \in {"draw", "pay"} => line' # NoLine
  BY DEF LInv, CreditSteps
<1>5. \A a \in Applications :
          a \in toldLine' \/ (applications'[a] # NotFiled /\ applications'[a].linked) => HasLine(a)'
  BY <1>1 DEF LInv
<1> QED BY <1>2, <1>3, <1>4, <1>5 DEF LInv

LEMMA ElsewhereKeepsL ==
    ASSUME LInv, NEW steps, Within(steps), (steps \cup {"idle"}) \cap CreditSteps = {}, UNCHANGED creditVars
    PROVE  LInv'
<1>1. line' = line /\ applications' = applications /\ toldLine' = toldLine
  BY DEF creditVars
<1>2. CreditTypeOK' /\ \A a \in Applications : Approved(a) => Approved(a)'
  BY <1>1 DEF LInv, CreditTypeOK, Approved
<1>3. \A g \in Calls : call'[g] = call[g] \/ call'[g].at \notin CreditSteps
  BY DEF Within
<1> QED BY <1>1, <1>2, <1>3, CreditStands

LEMMA CreditKeeps == ASSUME Handlers, LInv, NextCredit PROVE LInv'
<1>1. CreditTypeOK
  BY DEF LInv
<1>2. ASSUME NEW h \in Calls, handleCreditApplication(h) PROVE LInv'
  <2>1. UNCHANGED <<line, applications, toldLine>>
    BY <1>2 DEF handleCreditApplication, creditVars
  <2>2. \A g \in Calls : call'[g] = call[g] \/ call'[g].at = "assess"
    BY <1>2 DEF handleCreditApplication, Start, Handlers
  <2>3. CreditTypeOK' /\ \A a \in Applications : Approved(a) => Approved(a)'
    BY <1>1, <2>1 DEF CreditTypeOK, Approved
  <2> QED BY <2>1, <2>2, <2>3, CreditStands
<1>3. ASSUME NEW h \in Calls, NEW a \in Applications, FileApplication(h, a) PROVE LInv'
  <2>1. PICK outcome \in Outcomes :
          /\ applications' = [applications EXCEPT ![a] = [outcome |-> outcome, recent |-> TRUE, linked |-> FALSE]]
          /\ IF outcome = "approved"
             THEN Goto(h, [at |-> "open_line", application |-> a]) \/ Return(h)
             ELSE Return(h)
    BY <1>3 DEF FileApplication
  <2>2. applications[a] = NotFiled /\ UNCHANGED <<line, toldLine>>
    BY <1>3 DEF FileApplication
  <2>3. PICK r : r = [outcome |-> outcome, recent |-> TRUE, linked |-> FALSE]
    OBVIOUS
  <2>4. /\ r \in Filings /\ r.outcome = outcome /\ ~r.linked
        /\ applications'[a] = r /\ \A b \in Applications \ {a} : applications'[b] = applications[b]
        /\ applications' \in [Applications -> {NotFiled} \cup Filings]
    BY <1>1, <2>1, <2>3 DEF CreditTypeOK, Filings
  <2>5. CreditTypeOK' /\ \A b \in Applications : Approved(b) => Approved(b)'
    BY <1>1, <2>2, <2>4 DEF CreditTypeOK, Approved, NotFiled
  <2>6. \A g \in Calls :
            call'[g] = call[g] \/ call'[g].at = "idle"
            \/ ("application" \in DOMAIN call'[g] /\ call'[g].application = a /\ outcome = "approved"
                /\ call'[g].at = "open_line")
    <3> PICK t : t = [at |-> "open_line", application |-> a]
      OBVIOUS
    <3>1. t.at = "open_line" /\ t.application = a /\ "application" \in DOMAIN t
      OBVIOUS
    <3> QED BY <2>1, <3>1, IdleIs DEF Goto, Return, Handlers
  <2>7. outcome = "approved" => Approved(a)'
    BY <2>4 DEF Approved
  <2>8. "idle" \notin CreditSteps
    BY DEF CreditSteps
  <2> QED BY <2>2, <2>4, <2>5, <2>6, <2>7, <2>8, CreditStands
<1>4. ASSUME NEW h \in Calls, OpenCreditLine(h) PROVE LInv'
  <2>1. PICK a \in Applications : a = call[h].application /\ Approved(a) /\ "application" \in DOMAIN call[h]
    BY <1>4 DEF OpenCreditLine, LInv
  <2>2. /\ line' \in {line, IF line = NoLine THEN Opened(a) ELSE line}
        /\ \/ line = NoLine /\ line' # NoLine /\ Goto(h, [call[h] EXCEPT !.at = "link_line"])
           \/ Return(h)
        /\ UNCHANGED <<applications, toldLine>>
    BY <1>4, <2>1 DEF OpenCreditLine
  <2>3. Opened(a) \in Lines /\ Opened(a).ref = a
    BY DEF Opened, Lines
  <2>4. CreditTypeOK' /\ \A b \in Applications : Approved(b) => Approved(b)'
    BY <1>1, <2>2, <2>3 DEF CreditTypeOK, Approved
  <2>5. PICK t : t = [call[h] EXCEPT !.at = "link_line"]
    OBVIOUS
  <2>6. t.at = "link_line" /\ t.application = a /\ "application" \in DOMAIN t
    BY <2>1, <2>5 DEF Handlers
  <2>7. \A g \in Calls :
            call'[g] = call[g] \/ call'[g].at = "idle"
            \/ (call'[g] = t /\ line = NoLine /\ line' # NoLine)
    BY <2>2, <2>5, IdleIs DEF Goto, Return, Handlers
  <2>8. line = NoLine /\ line' # NoLine => HasLine(a)' /\ Approved(line.ref)'
    BY <2>1, <2>2, <2>3 DEF HasLine, Approved
  <2>9. Approved(a)'
    BY <2>1, <2>4
  <2>10. "idle" \notin CreditSteps
    BY DEF CreditSteps
  <2>11. line # NoLine => line' = line
    BY <2>2
  <2> QED BY <2>2, <2>4, <2>6, <2>7, <2>8, <2>9, <2>10, <2>11, CreditStands
<1>5. ASSUME NEW h \in Calls, LinkLine(h) PROVE LInv'
  <2>1. PICK a \in Applications : a = call[h].application /\ Approved(a) /\ HasLine(a)
    BY <1>5 DEF LinkLine, LInv
  <2>2. /\ applications' \in {applications, [applications EXCEPT ![a].linked = TRUE]}
        /\ toldLine' \in {toldLine, toldLine \cup {a}}
        /\ Return(h) /\ line' = line
    BY <1>5, <2>1 DEF LinkLine
  <2>3. applications[a] \in Filings
    BY <1>1, <2>1, LineIsLine
  <2>4. /\ \A b \in Applications \ {a} : applications'[b] = applications[b]
        /\ applications'[a].outcome = applications[a].outcome
        /\ applications' \in [Applications -> {NotFiled} \cup Filings]
    BY <1>1, <2>2, <2>3, ZenonT(60) DEF CreditTypeOK, Filings
  <2>5. CreditTypeOK' /\ \A b \in Applications : Approved(b) => Approved(b)'
    BY <1>1, <2>2, <2>4 DEF CreditTypeOK, Approved
  <2>6. \A g \in Calls : call'[g] = call[g] \/ call'[g].at \notin CreditSteps
    BY <2>2, IdleIs DEF Goto, Return, Handlers, CreditSteps
  <2>7. HasLine(a)'
    BY <2>1, <2>2 DEF HasLine
  <2> QED BY <2>2, <2>4, <2>5, <2>6, <2>7, CreditStands DEF LInv
<1>6. ASSUME UNCHANGED <<applications, toldLine>>,
             \/ line' = line
             \/ line # NoLine /\ line' = [line EXCEPT !.status = "active"]
             \/ line # NoLine /\ line' = [line EXCEPT !.status = "blocked"],
             \A g \in Calls : \/ call'[g] = call[g] \/ call'[g].at \notin CreditSteps
      PROVE  LInv'
  <2>1. (line # NoLine => line' \in Lines /\ line'.ref = line.ref) /\ (line = NoLine => line' = NoLine)
    BY <1>1, <1>6, LineIsLine DEF Lines
  <2>2. CreditTypeOK' /\ \A b \in Applications : Approved(b) => Approved(b)'
    BY <1>1, <1>6, <2>1 DEF CreditTypeOK, Approved
  <2>3. line # NoLine => line' # NoLine
    BY <2>1 DEF Lines, NoLine
  <2> QED BY <1>6, <2>1, <2>2, <2>3, CreditStands
<1>7. ASSUME NEW h \in Calls, Draw(h) \/ Pay(h) PROVE LInv'
  <2>1. line # NoLine
    BY <1>7 DEF Draw, Pay, LInv
  <2>2. \A g \in Calls : call'[g] = call[g] \/ call'[g].at \notin CreditSteps
    BY <1>7, IdleIs DEF Draw, Pay, Goto, Return, Handlers, CreditSteps
  <2>3. UNCHANGED <<applications, toldLine>> /\ line' \in {line, [line EXCEPT !.status = "active"]}
    BY <1>7 DEF Draw, Pay, creditVars
  <2> QED BY <1>6, <2>1, <2>2, <2>3
<1>8. ASSUME NEW h \in Calls, NEW account \in Own, NEW draw \in BOOLEAN, NEW n \in CardOrders,
             NEW x \in CardAmounts, creditMove(h, account, draw, n, x)
      PROVE  LInv'
  <2>1. PICK t : t = [at |-> IF draw THEN "draw" ELSE "pay", account |-> account, key |-> n, amount |-> x]
    OBVIOUS
  <2>2. t.at \in {"draw", "pay"}
    BY <2>1
  <2>3. line # NoLine /\ UNCHANGED <<line, applications, toldLine>>
    BY <1>8 DEF creditMove, creditVars
  <2>4. \A g \in Calls : call'[g] = call[g] \/ (call'[g].at \in {"draw", "pay"} /\ line' # NoLine)
    BY <1>8, <2>1, <2>2, <2>3 DEF creditMove, Start, Handlers
  <2>5. CreditTypeOK' /\ \A b \in Applications : Approved(b) => Approved(b)'
    BY <1>1, <2>3 DEF CreditTypeOK, Approved
  <2> QED BY <2>3, <2>4, <2>5, CreditStands
<1>9. ASSUME NEW a \in Applications, CoolDown(a) PROVE LInv'
  <2>1. applications[a] \in Filings /\ ~Approved(a) /\ applications' = [applications EXCEPT ![a].recent = FALSE]
    BY <1>1, <1>9 DEF CoolDown, recentDecision, CreditTypeOK, Outcomes, NotFiled, Approved
  <2>2. /\ \A b \in Applications \ {a} : applications'[b] = applications[b]
        /\ applications'[a].linked = applications[a].linked
        /\ applications' \in [Applications -> {NotFiled} \cup Filings]
    BY <1>1, <2>1 DEF CreditTypeOK, Filings
  <2>3. UNCHANGED <<line, toldLine, call>>
    BY <1>9 DEF CoolDown, handlerVars
  <2>4. CreditTypeOK' /\ \A b \in Applications : Approved(b) => Approved(b)'
    BY <1>1, <2>1, <2>2, <2>3 DEF CreditTypeOK, Approved
  <2>5. applications[a] # NotFiled
    BY <2>1 DEF Filings, NotFiled
  <2> QED BY <2>2, <2>3, <2>4, <2>5, CreditStands
<1>10. CASE ReviewCreditLine
  <2>1. line # NoLine
    BY <1>10 DEF ReviewCreditLine, NoLine
  <2> QED BY <1>6, <1>10, <2>1 DEF ReviewCreditLine, handlerVars
<1> QED BY <1>2, <1>3, <1>4, <1>5, <1>7, <1>8, <1>9, <1>10 DEF NextCredit

-------------------------------------------------------------------------------
(* Receipts: one code for a movement, and a snapshot that the ledger, which only *)
(* grows, keeps true.                                                            *)
InLedger(m) == m[1] \in DOMAIN core

RcInv ==
    /\ \A h \in Calls : call[h].at \in ReceiptSteps =>
          "movement" \in DOMAIN call[h] /\ InLedger(call[h].movement)
    /\ \A code \in DOMAIN receipts :
          \E m : InLedger(m) /\ receipts[code] = Snapshot(m)
    /\ \A c, d \in DOMAIN receipts : receipts[c].movement = receipts[d].movement => c = d
    /\ \A x \in handed : x[2] \in DOMAIN receipts /\ receipts[x[2]].movement = x[1]

LEMMA SnapshotSays == \A m : Snapshot(m).movement = m
BY DEF Snapshot

LEMMA SnapshotStays ==
    ASSUME \A k \in DOMAIN core : k \in DOMAIN core' /\ core'[k] = core[k], NEW m, InLedger(m)
    PROVE  InLedger(m)' /\ Snapshot(m)' = Snapshot(m)
BY DEF InLedger, Snapshot

LEMMA RcInvMeansStand == RcInv => ReceiptsStand
<1> SUFFICES ASSUME RcInv, NEW x \in handed
             PROVE  /\ x[2] \in DOMAIN receipts /\ receipts[x[2]] = Snapshot(x[1])
                    /\ \A y \in handed : x[1] = y[1] <=> x[2] = y[2]
  BY DEF ReceiptsStand
<1>1. x[2] \in DOMAIN receipts /\ receipts[x[2]].movement = x[1]
  BY DEF RcInv
<1>2. PICK m : receipts[x[2]] = Snapshot(m)
  BY <1>1 DEF RcInv
<1>3. m = x[1]
  BY <1>1, <1>2, SnapshotSays
<1>4. \A y \in handed : x[1] = y[1] <=> x[2] = y[2]
  BY <1>1 DEF RcInv
<1> QED BY <1>1, <1>2, <1>3, <1>4

LEMMA ReceiptsStay ==
    ASSUME RcInv, \A k \in DOMAIN core : k \in DOMAIN core' /\ core'[k] = core[k],
           \A g \in Calls :
               call'[g] = call[g] \/ call'[g].at \notin ReceiptSteps
               \/ \E m : "movement" \in DOMAIN call'[g] /\ call'[g].movement = m /\ InLedger(m),
           \A c \in DOMAIN receipts : c \in DOMAIN receipts' /\ receipts'[c] = receipts[c],
           \A c \in DOMAIN receipts' : c \in DOMAIN receipts
               \/ \E m : InLedger(m) /\ receipts'[c] = Snapshot(m) /\ Issued(m) = {},
           \A c, d \in DOMAIN receipts' : c \in DOMAIN receipts \/ d \in DOMAIN receipts \/ c = d,
           \A x \in handed' : x \in handed \/ (x[2] \in DOMAIN receipts /\ receipts[x[2]].movement = x[1])
    PROVE  RcInv'
<1>1. ASSUME NEW g \in Calls, call'[g].at \in ReceiptSteps
      PROVE  "movement" \in DOMAIN call'[g] /\ InLedger(call[g].movement)'
  <2>1. \E m : "movement" \in DOMAIN call'[g] /\ call'[g].movement = m /\ InLedger(m)
    BY <1>1 DEF RcInv
  <2>2. PICK m : "movement" \in DOMAIN call'[g] /\ call'[g].movement = m /\ InLedger(m)
    BY <2>1
  <2>3. InLedger(m)'
    BY <2>2, SnapshotStays
  <2> QED BY <2>2, <2>3 DEF InLedger
<1>2. ASSUME NEW code \in DOMAIN receipts' PROVE \E m : InLedger(m)' /\ receipts'[code] = Snapshot(m)'
  <2>1. PICK m : InLedger(m) /\ receipts'[code] = Snapshot(m)
    BY DEF RcInv
  <2> QED BY <2>1, SnapshotStays
<1>3. ASSUME NEW c \in DOMAIN receipts', NEW d \in DOMAIN receipts',
             receipts'[c].movement = receipts'[d].movement
      PROVE  c = d
  <2>1. ASSUME NEW e \in DOMAIN receipts', NEW b \in DOMAIN receipts, e \notin DOMAIN receipts
        PROVE  receipts'[e].movement # receipts'[b].movement
    <3>1. PICK m : receipts'[e] = Snapshot(m) /\ Issued(m) = {}
      BY <2>1
    <3>2. receipts'[e].movement = m /\ receipts[b].movement # m
      BY <3>1, SnapshotSays DEF Issued
    <3> QED BY <3>2
  <2>2. CASE c \in DOMAIN receipts /\ d \in DOMAIN receipts
    BY <1>3, <2>2 DEF RcInv
  <2>3. CASE c \notin DOMAIN receipts \/ d \notin DOMAIN receipts
    BY <1>3, <2>1, <2>3
  <2> QED BY <2>2, <2>3
<1>4. \A x \in handed' : x[2] \in DOMAIN receipts' /\ receipts'[x[2]].movement = x[1]
  BY DEF RcInv
<1> QED BY <1>1, <1>2, <1>3, <1>4 DEF RcInv

LEMMA ElsewhereKeepsRc ==
    ASSUME RcInv, NEW steps, NEW kinds, Within(steps), Growing(kinds),
           (steps \cup {"idle"}) \cap ReceiptSteps = {}, UNCHANGED receiptVars
    PROVE  RcInv'
<1>1. \A k \in DOMAIN core : k \in DOMAIN core' /\ core'[k] = core[k]
  BY LedgerGrows
<1>2. receipts' = receipts /\ handed' = handed
  BY DEF receiptVars
<1>3. \A g \in Calls : call'[g] = call[g] \/ call'[g].at \notin ReceiptSteps
  BY DEF Within
<1> QED BY <1>1, <1>2, <1>3, ReceiptsStay

LEMMA ReceiptsKeep == ASSUME Handlers, RcInv, NextReceipts PROVE RcInv'
<1>1. \A k \in DOMAIN core : k \in DOMAIN core' /\ core'[k] = core[k]
  BY ReceiptsWithin
<1>2. ASSUME NEW h \in Calls, NEW k \in DOMAIN core, NEW account \in Own, handleIssueReceipt(h, k, account)
      PROVE  RcInv'
  <2>1. PICK t : t = [at |-> "insert_receipt", movement |-> <<k, account>>]
    OBVIOUS
  <2>2. "movement" \in DOMAIN t /\ t.movement = <<k, account>> /\ InLedger(<<k, account>>)
    BY <2>1 DEF InLedger
  <2>3. \A g \in Calls : call'[g] = call[g] \/ call'[g] = t
    BY <1>2, <2>1 DEF handleIssueReceipt, Start, Handlers
  <2>4. UNCHANGED <<receipts, handed>>
    BY <1>2 DEF handleIssueReceipt, receiptVars
  <2> QED BY <1>1, <2>2, <2>3, <2>4, ReceiptsStay
<1>3. ASSUME NEW h \in Calls, NEW code \in Codes, InsertReceipt(h, code) PROVE RcInv'
  <2>1. PICK m : m = call[h].movement /\ InLedger(m) /\ "movement" \in DOMAIN call[h]
    BY <1>3 DEF InsertReceipt, RcInv, ReceiptSteps
  <2>2. PICK t : t = [call[h] EXCEPT !.at = "find_receipt"]
    OBVIOUS
  <2>3. "movement" \in DOMAIN t /\ t.movement = m
    BY <2>1, <2>2
  <2>4. \A g \in Calls : call'[g] = call[g] \/ call'[g] = t \/ call'[g].at = "idle"
    BY <1>3, <2>2, IdleIs DEF InsertReceipt, Goto, Return, Handlers
  <2>5. \/ receipts' = receipts
        \/ Issued(m) = {} /\ code \notin DOMAIN receipts /\ receipts' = Insert(receipts, code, Snapshot(m))
    BY <1>3, <2>1 DEF InsertReceipt
  <2>6. /\ \A c \in DOMAIN receipts : c \in DOMAIN receipts' /\ receipts'[c] = receipts[c]
        /\ \A c \in DOMAIN receipts' : c \in DOMAIN receipts \/ (c = code /\ receipts'[c] = Snapshot(m) /\ Issued(m) = {})
    BY <2>5 DEF Insert
  <2>7. handed' = handed /\ "idle" \notin ReceiptSteps
    BY <1>3 DEF InsertReceipt, ReceiptSteps
  <2> QED BY <1>1, <2>1, <2>3, <2>4, <2>6, <2>7, ReceiptsStay
<1>4. ASSUME NEW h \in Calls, FindReceipt(h) PROVE RcInv'
  <2>1. PICK m : m = call[h].movement
    OBVIOUS
  <2>2. PICK code \in Issued(m) : handed' \in {handed, handed \cup {<<m, code>>}}
    BY <1>4, <2>1 DEF FindReceipt
  <2>3. code \in DOMAIN receipts /\ receipts[code].movement = m
    BY <2>2 DEF Issued
  <2>4. \A x \in handed' : x \in handed \/ (x[2] \in DOMAIN receipts /\ receipts[x[2]].movement = x[1])
    BY <2>2, <2>3
  <2>5. \A g \in Calls : call'[g] = call[g] \/ call'[g].at \notin ReceiptSteps
    BY <1>4, IdleIs DEF FindReceipt, Goto, Return, Handlers, ReceiptSteps
  <2>6. receipts' = receipts
    BY <1>4 DEF FindReceipt
  <2> QED BY <1>1, <2>4, <2>5, <2>6, ReceiptsStay
<1> QED BY <1>2, <1>3, <1>4 DEF NextReceipts

-------------------------------------------------------------------------------
(* Aliases: the directory is what the claims that stand say.                     *)
ClaimRows == [phone : Phones \cup {"none"}, customer : Customers]
CodeRows  == [customer : Customers, phone : Phones, attempts : 0 .. MaxAttempts, consumed : BOOLEAN, late : BOOLEAN]

Claimed(f, c) == \E i \in DOMAIN claims : Stands(i) /\ claims[i] = [phone |-> f, customer |-> c]

AInv ==
    /\ claims \in Seq(ClaimRows) /\ verifications \in [Verifications -> {NoVerification} \cup CodeRows]
    /\ DOMAIN aliases \subseteq Phones
    /\ \A f, c : (f \in DOMAIN aliases /\ aliases[f] = c) <=> Claimed(f, c)

LEMMA AInvMeansFollow == AInv => AliasesFollowProofs
<1> SUFFICES ASSUME AInv PROVE AliasesFollowProofs
  OBVIOUS
<1>1. \A i \in DOMAIN claims : claims[i] \in ClaimRows
  BY DEF AInv
<1>2. \A i \in DOMAIN claims : claims[i] = [phone |-> claims[i].phone, customer |-> claims[i].customer]
  BY <1>1 DEF ClaimRows
<1>3. ASSUME NEW f \in DOMAIN aliases
      PROVE  [phone |-> f, customer |-> aliases[f]] \in {claims[i] : i \in {i \in DOMAIN claims : Stands(i)}}
  BY DEF AInv, Claimed
<1>4. ASSUME NEW i \in DOMAIN claims, Stands(i)
      PROVE  claims[i] \in {[phone |-> f, customer |-> aliases[f]] : f \in DOMAIN aliases}
  <2>1. Claimed(claims[i].phone, claims[i].customer)
    BY <1>2, <1>4 DEF Claimed
  <2>2. claims[i].phone \in DOMAIN aliases /\ aliases[claims[i].phone] = claims[i].customer
    BY <2>1 DEF AInv
  <2> QED BY <1>2, <2>2
<1>5. \A v \in Verifications : verifications[v] # NoVerification => verifications[v].attempts <= MaxAttempts
  BY AliasesAssumption DEF AInv, CodeRows
<1> QED BY <1>3, <1>4, <1>5 DEF AliasesFollowProofs

(* A claim takes the place of those of its phone and of those of its customer.   *)
LEMMA Claims ==
    ASSUME AInv, NEW f \in Phones \cup {"none"}, NEW c \in Customers,
           claims' = Append(claims, [phone |-> f, customer |-> c])
    PROVE  /\ claims' \in Seq(ClaimRows)
           /\ \A g, d : Claimed(g, d)' <=> (Claimed(g, d) /\ g # f /\ d # c)
                                           \/ (f \in Phones /\ g = f /\ d = c)
<1> PICK n \in Nat : n = Len(claims)
  BY DEF AInv
<1>1. /\ DOMAIN claims = 1 .. n /\ DOMAIN claims' = 1 .. n + 1 /\ Len(claims') = n + 1
      /\ claims' \in Seq(ClaimRows)
      /\ claims'[n + 1] = [phone |-> f, customer |-> c] /\ \A i \in 1 .. n : claims'[i] = claims[i]
  <2>1. [phone |-> f, customer |-> c] \in ClaimRows
    BY DEF ClaimRows
  <2> QED BY <2>1 DEF AInv
<1>2. claims'[n + 1].phone = f /\ claims'[n + 1].customer = c
  BY <1>1
<1>3. \A i \in 1 .. n : Stands(i)' <=> Stands(i) /\ claims[i].phone # f /\ claims[i].customer # c
  BY <1>1, <1>2 DEF Stands
<1>4. Stands(n + 1)' <=> f \in Phones
  BY <1>1, <1>2 DEF Stands
<1>5. ASSUME NEW g, NEW d, Claimed(g, d)'
      PROVE  (Claimed(g, d) /\ g # f /\ d # c) \/ (f \in Phones /\ g = f /\ d = c)
  <2>1. PICK i \in 1 .. n + 1 : Stands(i)' /\ claims'[i] = [phone |-> g, customer |-> d]
    BY <1>1, <1>5 DEF Claimed
  <2>2. CASE i = n + 1
    BY <1>1, <1>4, <2>1, <2>2
  <2>3. CASE i \in 1 .. n
    BY <1>1, <1>3, <2>1, <2>3 DEF Claimed
  <2> QED BY <1>1, <2>2, <2>3
<1>6. ASSUME NEW g, NEW d, Claimed(g, d), g # f, d # c PROVE Claimed(g, d)'
  <2>1. PICK i \in 1 .. n : Stands(i) /\ claims[i] = [phone |-> g, customer |-> d]
    BY <1>1, <1>6 DEF Claimed
  <2>2. Stands(i)' /\ claims'[i] = [phone |-> g, customer |-> d] /\ i \in DOMAIN claims'
    BY <1>1, <1>3, <1>6, <2>1
  <2> QED BY <2>2 DEF Claimed
<1>7. ASSUME f \in Phones PROVE Claimed(f, c)'
  <2>1. n + 1 \in DOMAIN claims'
    BY <1>1
  <2> QED BY <1>1, <1>4, <1>7, <2>1 DEF Claimed
<1> QED BY <1>1, <1>5, <1>6, <1>7

LEMMA AliasesKeep == ASSUME AInv, NextAliases PROVE AInv'
<1>1. ASSUME UNCHANGED <<aliases, claims>>, verifications' \in [Verifications -> {NoVerification} \cup CodeRows]
      PROVE  AInv'
  <2>1. \A f, c : Claimed(f, c)' <=> Claimed(f, c)
    BY <1>1 DEF Claimed, Stands
  <2> QED BY <1>1, <2>1 DEF AInv
<1>2. ASSUME NEW f \in Phones, NEW c \in Customers, register(c, f),
             verifications' \in [Verifications -> {NoVerification} \cup CodeRows]
      PROVE  AInv'
  <2>1. /\ claims' \in Seq(ClaimRows)
        /\ \A g, d : Claimed(g, d)' <=> (Claimed(g, d) /\ g # f /\ d # c) \/ (g = f /\ d = c)
    BY <1>2, Claims DEF register
  <2>2. /\ DOMAIN aliases' = {f} \cup {g \in DOMAIN aliases : aliases[g] # c}
        /\ \A g \in DOMAIN aliases' : aliases'[g] = IF g = f THEN c ELSE aliases[g]
    BY <1>2 DEF register
  <2>3. \A g, d : (g \in DOMAIN aliases' /\ aliases'[g] = d) <=>
            (g \in DOMAIN aliases /\ aliases[g] = d /\ g # f /\ d # c) \/ (g = f /\ d = c)
    BY <2>2
  <2>4. DOMAIN aliases' \subseteq Phones
    BY <2>2 DEF AInv
  <2> QED BY <1>2, <2>1, <2>3, <2>4 DEF AInv
<1>3. ASSUME NEW c \in Customers, Remove(c) PROVE AInv'
  <2>1. /\ claims' \in Seq(ClaimRows)
        /\ \A g, d : Claimed(g, d)' <=> (Claimed(g, d) /\ g # "none" /\ d # c)
    BY <1>3, Claims, AliasesAssumption DEF Remove
  <2>2. /\ DOMAIN aliases' = {g \in DOMAIN aliases : aliases[g] # c}
        /\ \A g \in DOMAIN aliases' : aliases'[g] = aliases[g]
    BY <1>3 DEF Remove
  <2>3. "none" \notin DOMAIN aliases
    BY AliasesAssumption DEF AInv
  <2> QED BY <1>3, <2>1, <2>2, <2>3 DEF AInv, Remove
<1>4. ASSUME NEW v \in Verifications, verifications[v] # NoVerification PROVE verifications[v] \in CodeRows
  BY <1>4 DEF AInv
<1>5. ASSUME NEW v \in Verifications, NEW c \in Customers, NEW f \in Phones, StartVerification(v, c, f)
      PROVE  AInv'
  <2>1. [customer |-> c, phone |-> f, attempts |-> 0, consumed |-> FALSE, late |-> FALSE] \in CodeRows
    BY AliasesAssumption DEF CodeRows
  <2> QED BY <1>1, <1>5, <2>1 DEF StartVerification, AInv
<1>6. ASSUME NEW v \in Verifications, ExpireVerification(v) PROVE AInv'
  <2>1. [verifications[v] EXCEPT !.late = TRUE] \in CodeRows
    BY <1>4, <1>6 DEF ExpireVerification, CodeRows
  <2> QED BY <1>1, <1>6, <2>1 DEF ExpireVerification, AInv
<1>7. ASSUME NEW v \in Verifications, VerifyWrong(v) PROVE AInv'
  <2>1. verifications[v] \in CodeRows /\ verifications[v].attempts < MaxAttempts
    BY <1>4, <1>7 DEF VerifyWrong, Verifiable
  <2>2. [verifications[v] EXCEPT !.attempts = @ + 1] \in CodeRows
    BY <2>1, AliasesAssumption DEF CodeRows
  <2> QED BY <1>1, <1>7, <2>2 DEF VerifyWrong, AInv
<1>8. ASSUME NEW v \in Verifications, VerifyRight(v) PROVE AInv'
  <2>1. verifications[v] \in CodeRows
    BY <1>4, <1>8 DEF VerifyRight, Verifiable
  <2>2. /\ verifications[v].customer \in Customers /\ verifications[v].phone \in Phones
        /\ [verifications[v] EXCEPT !.consumed = TRUE] \in CodeRows
    BY <2>1 DEF CodeRows
  <2>3. verifications' \in [Verifications -> {NoVerification} \cup CodeRows]
    BY <1>8, <2>2 DEF VerifyRight, AInv
  <2> QED BY <1>2, <1>8, <2>2, <2>3 DEF VerifyRight
<1>9. ASSUME NEW c \in Customers, NEW f \in Phones, RegisterVerified(c, f) PROVE AInv'
  BY <1>2, <1>9 DEF RegisterVerified, AInv
<1> QED BY <1>3, <1>5, <1>6, <1>7, <1>8, <1>9 DEF NextAliases

-------------------------------------------------------------------------------
(* Arrivals: what each request may still do is counted against what it found     *)
(* when it began, so that requests that overlap are as many as were at it.       *)
SubmitSteps == {"create", "verify", "decide", "open", "set"}
Filed == {r \in Forms : files[r] # NoFile}
Onb(r) == <<"ONB", r>>

Submits(t) ==
    /\ DOMAIN t = {"at", "reference", "sent", "id", "want"} /\ t.at \in SubmitSteps
    /\ t.reference \in Forms /\ t.want = <<t.reference, "file">> /\ t.id \in 1..asked
    /\ t.at # "create" => t.reference \in Filed

OpensAnother(t) ==
    /\ DOMAIN t = {"at", "owner", "currency", "code", "want"} /\ t.at = "open_another"
    /\ \E r \in Filed, c \in Currencies : t.want = <<r, c>> /\ t.owner = files[r].id /\ t.currency = c

SeeksPayee(t) == DOMAIN t = {"at", "account", "id"} /\ t.at = "payee" /\ t.id \in 1..asked

Arriving(t) == t = Idle \/ Submits(t) \/ OpensAnother(t) \/ SeeksPayee(t)

(* A request that found no file, and whoever's it turns out to be.               *)
Rivals(t) ==
    t.at \in SubmitSteps /\ t.reference \in Filed /\ files[t.reference].applicant # t.sent
        => crowd[<<t.reference, "file">>] > 1

HandlersOK ==
    /\ asked \in Nat /\ DOMAIN call = Calls
    /\ \A h \in Calls : \E t : t = call[h] /\ Arriving(t) /\ Rivals(t)

FilesOK ==
    /\ DOMAIN files = Forms
    /\ \A r \in Filed : /\ DOMAIN files[r] = {"status", "applicant", "id", "verdict", "account"}
                        /\ files[r].id \in 1..asked
                        /\ files[r].status = "approved" => files[r].account = Onb(r)
    /\ \A r, s \in Filed : files[r].id = files[s].id => r = s

AccountsOK ==
    /\ IsFiniteSet(accounts)
    /\ \A a \in accounts : a.owner \in 1..asked
    /\ \A a, b \in accounts : a.code = b.code => a = b
    /\ \A a \in accounts, r \in Filed : a.owner = files[r].id /\ a.currency = First => a.code = Onb(r)

(* The identifiers that requests drew and have not used are nobody's.            *)
Drew(h) == call[h].at \in {"create", "payee"}
IdsOK ==
    /\ \A h \in Calls : Drew(h) => \A r \in Filed : files[r].id # call[h].id
    /\ \A h \in Calls : call[h].at = "create" => \A a \in accounts : a.owner # call[h].id
    /\ \A g, h \in Calls : Drew(g) /\ Drew(h) /\ call[g].id = call[h].id => g = h

Held(r, c) == {a \in OwnedBy(files[r].id) : a.currency = c}
CrowdOK ==
    /\ crowd \in [Wants -> Nat] /\ \A w \in Wants : InFlight(w) <= crowd[w]
    /\ \A r \in Filed, c \in Currencies :
          Cardinality(Held(r, c)) + InFlight(<<r, c>>) <= crowd[<<r, c>>]

Told(t) ==
    /\ "reference" \in DOMAIN t =>
          /\ t.reference \in Filed /\ t.applicant = files[t.reference].applicant
          /\ t.status = "approved" =>
                t.account = Onb(t.reference) /\ files[t.reference].account = Onb(t.reference)
          /\ t.sent # t.applicant => crowd[<<t.reference, "file">>] > 1
    /\ "payee" \in DOMAIN t =>
          \E a \in accounts : a.code = <<"PAYEE", t.payee>> /\ a.owner = t.owner
ToldOK == \A t \in toldDoor : Told(t)

ProviderOK == \A i \in DOMAIN provider : \E r \in Filed : i = files[r].id

ArInv == HandlersOK /\ FilesOK /\ AccountsOK /\ IdsOK /\ CrowdOK /\ ToldOK /\ ProviderOK

LEMMA IdleWants == Idle.at = "idle" /\ DOMAIN Idle = {"at"} /\ "want" \notin DOMAIN Idle
BY DEF Idle

LEMMA InitArrives == Init => ArInv
<1> SUFFICES ASSUME Init PROVE ArInv
  OBVIOUS
<1>1. \A h \in Calls : call[h] = Idle
  BY DEF Init, InitHandlers
<1>2. Filed = {} /\ DOMAIN files = Forms /\ accounts = {} /\ toldDoor = {} /\ DOMAIN provider = {}
      /\ crowd = [w \in Wants |-> 0] /\ asked = 0 /\ DOMAIN call = Calls
  BY DEF Init, InitArrivals, InitHandlers, Filed
<1>3. ~("idle" \in SubmitSteps)
  BY DEF SubmitSteps
<1>4. HandlersOK
  BY <1>1, <1>2, <1>3, IdleWants DEF HandlersOK, Arriving, Rivals
<1>5. \A w : InFlight(w) = 0
  <2> TAKE w
  <2>1. {h \in Calls : "want" \in DOMAIN call[h] /\ call[h].want = w} = {}
    BY <1>1, IdleWants
  <2> QED BY <2>1, FS_EmptySet DEF InFlight
<1>6. CrowdOK
  BY <1>2, <1>5 DEF CrowdOK
<1>7. AccountsOK
  BY <1>2, FS_EmptySet DEF AccountsOK
<1> QED BY <1>1, <1>2, <1>4, <1>6, <1>7, IdleWants DEF ArInv, FilesOK, IdsOK, Drew, ToldOK, ProviderOK

(* How many are at a thing, as requests begin, go on and end.                    *)
Wanting(w) == {h \in Calls : "want" \in DOMAIN call[h] /\ call[h].want = w}

LEMMA FlightsCount == \A w : IsFiniteSet(Wanting(w)) /\ InFlight(w) = Cardinality(Wanting(w)) /\ InFlight(w) \in Nat
<1> TAKE w
<1>1. Wanting(w) \in SUBSET Calls
  BY DEF Wanting
<1>2. IsFiniteSet(Wanting(w))
  BY <1>1, FS_Subset, ArrivalsAssumption
<1>3. InFlight(w) = Cardinality(Wanting(w))
  BY DEF InFlight, Wanting
<1> QED BY <1>2, <1>3, FS_CardinalityType

LEMMA FlightsCountNext ==
    \A w : IsFiniteSet(Wanting(w)') /\ InFlight(w)' = Cardinality(Wanting(w)') /\ InFlight(w)' \in Nat
<1> TAKE w
<1>1. Wanting(w)' \in SUBSET Calls
  BY DEF Wanting
<1>2. IsFiniteSet(Wanting(w)')
  BY <1>1, FS_Subset, ArrivalsAssumption
<1>3. InFlight(w)' = Cardinality(Wanting(w)')
  BY DEF InFlight, Wanting
<1> QED BY <1>2, <1>3, FS_CardinalityType

(* Nobody wants what they did not.                                               *)
LEMMA FewerFlights ==
    ASSUME \A g \in Calls : call'[g] = call[g] \/ "want" \notin DOMAIN call'[g]
                            \/ ("want" \in DOMAIN call[g] /\ call'[g].want = call[g].want),
           NEW w
    PROVE  InFlight(w)' <= InFlight(w)
<1>1. Wanting(w)' \in SUBSET Wanting(w)
  BY DEF Wanting
<1>2. Cardinality(Wanting(w)') <= Cardinality(Wanting(w))
  BY <1>1, FlightsCount, FS_Subset
<1> QED BY <1>2, FlightsCount, FlightsCountNext

LEMMA FlightEnds ==
    ASSUME DOMAIN call = Calls, NEW h \in Calls, Return(h), "want" \in DOMAIN call[h],
           NEW w, call[h].want = w
    PROVE  InFlight(w)' = InFlight(w) - 1
<1>1. \A g \in Calls : call'[g] = IF g = h THEN Idle ELSE call[g]
  BY DEF Return, Goto
<1>2. Wanting(w)' = Wanting(w) \ {h} /\ h \in Wanting(w)
  BY <1>1, IdleWants DEF Wanting
<1> QED BY <1>2, FlightsCount, FlightsCountNext, FS_RemoveElement

LEMMA FlightBegins ==
    ASSUME DOMAIN call = Calls, NEW h \in Calls, NEW t, Start(h, t), "want" \in DOMAIN t
    PROVE  /\ InFlight(t.want)' = InFlight(t.want) + 1
           /\ \A w : w # t.want => InFlight(w)' = InFlight(w)
<1>1. \A g \in Calls : call'[g] = IF g = h THEN t ELSE call[g]
  BY DEF Start
<1>2. call[h] = Idle
  BY DEF Start
<1>3. Wanting(t.want)' = Wanting(t.want) \cup {h} /\ h \notin Wanting(t.want)
  BY <1>1, <1>2, IdleWants DEF Wanting
<1>4. ASSUME NEW w, w # t.want PROVE InFlight(w)' = InFlight(w)
  <2>1. Wanting(w)' = Wanting(w)
    BY <1>1, <1>2, <1>4, IdleWants DEF Wanting
  <2> QED BY <2>1, FlightsCount, FlightsCountNext
<1> QED BY <1>3, <1>4, FlightsCount, FlightsCountNext, FS_AddElement

(* Two at a thing.                                                               *)
LEMMA TwoFlights ==
    ASSUME NEW g \in Calls, NEW h \in Calls, g # h, NEW w,
           "want" \in DOMAIN call[g], "want" \in DOMAIN call[h], call[g].want = w, call[h].want = w
    PROVE  InFlight(w) > 1
<1>1. {g, h} \in SUBSET Wanting(w)
  BY DEF Wanting
<1>2. Cardinality({g, h}) = 2
  <2>1. {g, h} = {g} \cup {h} /\ h \notin {g}
    OBVIOUS
  <2>2. IsFiniteSet({g}) /\ Cardinality({g}) = 1
    BY FS_Singleton
  <2>3. Cardinality({g} \cup {h}) = Cardinality({g}) + 1
    BY <2>1, <2>2, FS_AddElement
  <2> QED BY <2>1, <2>2, <2>3
<1> QED BY <1>1, <1>2, FlightsCount, FS_Subset

(* What has been said stays true: files keep their applicant and their account,  *)
(* accounts stay, and crowds only grow.                                          *)
Onward ==
    /\ asked' \in Nat /\ asked <= asked' /\ DOMAIN call' = Calls
    /\ \A r \in Filed : /\ r \in Filed' /\ files'[r].id = files[r].id
                        /\ files'[r].applicant = files[r].applicant
                        /\ files[r].account = Onb(r) => files'[r].account = Onb(r)
    /\ accounts \subseteq accounts'
    /\ crowd' \in [Wants -> Nat] /\ \A w \in Wants : crowd[w] <= crowd'[w]

LEMMA ArrivingStays ==
    ASSUME ArInv, Onward, NEW t, Arriving(t)
    PROVE  Arriving(t)'
<1>1. asked \in Nat /\ asked' \in Nat /\ asked <= asked' /\ 1..asked \subseteq 1..asked'
  BY DEF ArInv, HandlersOK, Onward
<1>2. Submits(t) => Submits(t)'
  BY <1>1 DEF Submits, Onward
<1>3. OpensAnother(t) => OpensAnother(t)'
  BY DEF OpensAnother, Onward
<1>4. SeeksPayee(t) => SeeksPayee(t)'
  BY <1>1 DEF SeeksPayee
<1> QED BY <1>2, <1>3, <1>4 DEF Arriving

LEMMA FiledWants ==
    \A r \in Forms : <<r, "file">> \in Wants /\ \A c \in Currencies : <<r, c>> \in Wants
BY DEF Wants

LEMMA ToldStays == ASSUME ArInv, Onward, NEW t, Told(t) PROVE Told(t)'
<1>1. ASSUME "reference" \in DOMAIN t
      PROVE  /\ t.reference \in Filed' /\ t.applicant = files'[t.reference].applicant
             /\ t.status = "approved" =>
                   t.account = Onb(t.reference) /\ files'[t.reference].account = Onb(t.reference)
             /\ t.sent # t.applicant => crowd'[<<t.reference, "file">>] > 1
  <2>1. t.reference \in Filed /\ t.reference \in Forms
    BY <1>1 DEF Told, Filed
  <2>2. <<t.reference, "file">> \in Wants /\ crowd \in [Wants -> Nat]
    BY <2>1, FiledWants DEF ArInv, CrowdOK
  <2>3. t.sent # t.applicant => crowd'[<<t.reference, "file">>] > 1
    BY <1>1, <2>2 DEF Told, Onward
  <2> QED BY <1>1, <2>1, <2>3 DEF Told, Onward
<1>2. "payee" \in DOMAIN t => \E a \in accounts' : a.code = <<"PAYEE", t.payee>> /\ a.owner = t.owner
  BY DEF Told, Onward
<1> QED BY <1>1, <1>2 DEF Told, Onb

LEMMA ArInvMeansOne == ArInv => ArrivalsKeepToOne
<1> SUFFICES ASSUME ArInv PROVE ArrivalsKeepToOne
  OBVIOUS
<1>1. ASSUME NEW t \in toldDoor, "reference" \in DOMAIN t
      PROVE  /\ t.applicant = files[t.reference].applicant
             /\ t.status = "approved" => t.account = files[t.reference].account
             /\ t.sent # t.applicant => crowd[<<t.reference, "file">>] > 1
  BY <1>1 DEF ArInv, ToldOK, Told
<1>2. Cardinality(DOMAIN provider) <= Cardinality(Filed)
  <2> DEFINE id == [r \in Filed |-> files[r].id]
             ids == {files[r].id : r \in Filed}
  <2>1. IsFiniteSet(Filed)
    BY ArrivalsAssumption, FS_Subset DEF Filed
  <2>2. id \in Surjection(Filed, ids)
    BY DEF Surjection
  <2>3. IsFiniteSet(ids) /\ Cardinality(ids) <= Cardinality(Filed)
    <3> HIDE DEF id, ids
    <3> QED BY <2>1, <2>2, FS_Surjection
  <2>4. DOMAIN provider \in SUBSET ids
    BY DEF ArInv, ProviderOK
  <2>5. Cardinality(DOMAIN provider) <= Cardinality(ids) /\ Cardinality(ids) \in Nat
    <3> HIDE DEF ids
    <3> QED BY <2>3, <2>4, FS_Subset, FS_CardinalityType
  <2>6. Cardinality(Filed) \in Nat /\ Cardinality(DOMAIN provider) \in Nat
    <3> HIDE DEF ids
    <3> QED BY <2>1, <2>3, <2>4, FS_Subset, FS_CardinalityType
  <2> HIDE DEF ids
  <2> QED BY <2>3, <2>5, <2>6
<1>3. ASSUME NEW r \in Filed
      PROVE  /\ Cardinality(Held(r, First)) <= 1
             /\ \A c \in Currencies : Cardinality(Held(r, c)) <= crowd[<<r, c>>]
  <2>1. Cardinality(Held(r, First)) <= 1
    <3>1. \A a, b \in Held(r, First) : a = b
      BY <1>3 DEF ArInv, AccountsOK, Held, OwnedBy
    <3>2. CASE Held(r, First) = {}
      BY <3>2, FS_EmptySet
    <3>3. CASE Held(r, First) # {}
      <4>1. PICK a : a \in Held(r, First)
        BY <3>3
      <4>2. Held(r, First) = {a}
        BY <3>1, <4>1
      <4>3. Cardinality({a}) = 1
        BY FS_Singleton
      <4> QED BY <4>2, <4>3
    <3> QED BY <3>2, <3>3
  <2>2. ASSUME NEW c \in Currencies PROVE Cardinality(Held(r, c)) <= crowd[<<r, c>>]
    <3>1. Held(r, c) \in SUBSET accounts
      BY DEF Held, OwnedBy
    <3>2. Cardinality(Held(r, c)) \in Nat
      BY <3>1, FS_Subset, FS_CardinalityType DEF ArInv, AccountsOK
    <3>3. <<r, c>> \in Wants
      BY FiledWants DEF Filed
    <3>4. crowd[<<r, c>>] \in Nat /\ Cardinality(Held(r, c)) + InFlight(<<r, c>>) <= crowd[<<r, c>>]
      BY <3>3 DEF ArInv, CrowdOK
    <3> QED BY <3>2, <3>4, FlightsCount
  <2> QED BY <2>1, <2>2
<1>4. ASSUME NEW s \in toldDoor, NEW t \in toldDoor, "payee" \in DOMAIN s, "payee" \in DOMAIN t,
             s.payee = t.payee
      PROVE  s.owner = t.owner
  <2>1. PICK a \in accounts : a.code = <<"PAYEE", s.payee>> /\ a.owner = s.owner
    BY <1>4 DEF ArInv, ToldOK, Told
  <2>2. PICK b \in accounts : b.code = <<"PAYEE", t.payee>> /\ b.owner = t.owner
    BY <1>4 DEF ArInv, ToldOK, Told
  <2>3. a.code = b.code
    BY <1>4, <2>1, <2>2
  <2>4. a = b
    BY <2>3 DEF ArInv, AccountsOK
  <2> QED BY <2>1, <2>2, <2>4
<1> QED BY <1>1, <1>2, <1>3, <1>4 DEF ArrivalsKeepToOne, Filed, Held

(* A step with which requests go on or end, and none begins.                     *)
Continues(g) ==
    \/ call'[g] = call[g]
    \/ call'[g] = Idle
    \/ \E s, t : /\ s = call[g] /\ t = call'[g] /\ Submits(s) /\ Submits(t)' /\ t.at # "create"
                 /\ t.reference = s.reference /\ t.sent = s.sent

(* A file is made by a request of its form, for whom that said.                  *)
Made(r) == \E h \in Calls : \E s :
    /\ s = call[h] /\ Submits(s) /\ s.at = "create" /\ call'[h] # s
    /\ s.reference = r /\ files'[r].id = s.id /\ files'[r].applicant = s.sent

Owned(a) == \/ \E r \in Filed : a.owner = files[r].id
            \/ \E h \in Calls : call[h].at = "payee" /\ a.owner = call[h].id

LEMMA HandlersStay ==
    ASSUME ArInv, Onward, \A g \in Calls : Continues(g), \A r \in Filed' : r \in Filed \/ Made(r)
    PROVE  HandlersOK'
<1> SUFFICES ASSUME NEW g \in Calls
             PROVE  \E t : t = call'[g] /\ Arriving(t)' /\ Rivals(t)'
  BY DEF HandlersOK, Onward
<1> PICK s : s = call[g] /\ Arriving(s) /\ Rivals(s)
  BY DEF ArInv, HandlersOK
<1> PICK t : t = call'[g]
  OBVIOUS
<1>1. Arriving(t)'
  BY ArrivingStays DEF Continues, Arriving
<1>2. ASSUME t.at \in SubmitSteps
      PROVE  Submits(s) /\ s.at \in SubmitSteps /\ t.reference = s.reference /\ t.sent = s.sent
  <2>1. s.at \in SubmitSteps => Submits(s)
    BY IdleWants DEF Arriving, Submits, OpensAnother, SeeksPayee, SubmitSteps
  <2>2. ~(Idle.at \in SubmitSteps)
    BY IdleWants DEF SubmitSteps
  <2> QED BY <1>2, <2>1, <2>2 DEF Continues, Submits
<1>3. ASSUME t.at \in SubmitSteps, t.reference \in Filed', files'[t.reference].applicant # t.sent
      PROVE  crowd'[<<t.reference, "file">>] > 1
  <2> PICK r : r = t.reference
    OBVIOUS
  <2>1. r \in Forms /\ <<r, "file">> \in Wants /\ crowd \in [Wants -> Nat]
    BY <1>3, FiledWants DEF ArInv, CrowdOK, Filed
  <2>2. crowd[<<r, "file">>] \in Nat /\ crowd'[<<r, "file">>] \in Nat
        /\ crowd[<<r, "file">>] <= crowd'[<<r, "file">>]
    BY <2>1 DEF Onward
  <2>3. Submits(s) /\ s.reference = r /\ s.sent = t.sent /\ s.at \in SubmitSteps
    BY <1>2, <1>3
  <2>4. CASE r \in Filed
    <3>1. files[r].applicant # s.sent
      BY <1>3, <2>3, <2>4 DEF Onward
    <3>2. crowd[<<r, "file">>] > 1
      BY <2>3, <2>4, <3>1 DEF Rivals
    <3> QED BY <2>2, <3>2
  <2>5. CASE r \notin Filed
    <3> PICK h \in Calls : \E u : /\ u = call[h] /\ Submits(u) /\ u.reference = r
                                  /\ files'[r].applicant = u.sent
      BY <1>3, <2>5 DEF Made
    <3>1. PICK u : u = call[h] /\ Submits(u) /\ u.reference = r /\ files'[r].applicant = u.sent
      OBVIOUS
    <3>2. h # g
      BY <1>3, <2>3, <3>1
    <3>3. InFlight(<<r, "file">>) > 1
      BY <2>3, <3>1, <3>2, TwoFlights DEF Submits
    <3>4. InFlight(<<r, "file">>) <= crowd[<<r, "file">>]
      BY <2>1 DEF ArInv, CrowdOK
    <3> QED BY <2>2, <3>3, <3>4, FlightsCount
  <2> QED BY <2>4, <2>5
<1>4. Rivals(t)'
  BY <1>3 DEF Rivals
<1> QED BY <1>1, <1>4

LEMMA IdsStay ==
    ASSUME ArInv, Onward, \A g \in Calls : Continues(g), \A r \in Filed' : r \in Filed \/ Made(r),
           \A a \in accounts' : a \in accounts \/ Owned(a)
    PROVE  IdsOK'
<1>1. \A g \in Calls : Drew(g)' => call'[g] = call[g] /\ Drew(g)
  BY IdleWants DEF Continues, Drew, Submits, SubmitSteps
<1>2. ASSUME NEW g \in Calls, Drew(g)', NEW r \in Filed' PROVE files'[r].id # call'[g].id
  <2>1. CASE r \in Filed
    BY <1>1, <1>2, <2>1 DEF Onward, ArInv, IdsOK
  <2>2. CASE r \notin Filed
    <3>1. PICK h \in Calls : Drew(h) /\ call'[h] # call[h] /\ files'[r].id = call[h].id
      BY <2>2 DEF Made, Drew
    <3>2. h # g
      BY <1>1, <1>2, <3>1
    <3> QED BY <1>1, <1>2, <3>1, <3>2 DEF ArInv, IdsOK
  <2> QED BY <2>1, <2>2
<1>3. ASSUME NEW g \in Calls, call'[g].at = "create", NEW a \in accounts' PROVE a.owner # call'[g].id
  <2>1. Drew(g)'
    BY <1>3 DEF Drew
  <2>2. call'[g] = call[g] /\ Drew(g)
    BY <1>1, <2>1
  <2>3. CASE a \in accounts
    BY <1>3, <2>2, <2>3 DEF ArInv, IdsOK
  <2>4. CASE a \notin accounts
    <3>1. Owned(a)
      BY <2>4
    <3> QED BY <1>3, <2>2, <3>1 DEF Owned, ArInv, IdsOK, Drew
  <2> QED BY <2>3, <2>4
<1>4. ASSUME NEW g \in Calls, NEW h \in Calls, Drew(g)', Drew(h)', call'[g].id = call'[h].id PROVE g = h
  BY <1>1, <1>4 DEF ArInv, IdsOK
<1> QED BY <1>2, <1>3, <1>4 DEF IdsOK

LEMMA FlightsContinue ==
    ASSUME ArInv, \A g \in Calls : Continues(g), NEW w
    PROVE  InFlight(w)' <= InFlight(w)
<1>1. \A g \in Calls : call'[g] = call[g] \/ "want" \notin DOMAIN call'[g]
                       \/ ("want" \in DOMAIN call[g] /\ call'[g].want = call[g].want)
  BY IdleWants DEF Continues, Submits
<1> QED BY <1>1, FewerFlights

(* A step of the files.                                                          *)
LEMMA FilesStep ==
    ASSUME ArInv, Onward, \A g \in Calls : Continues(g), \A r \in Filed' : r \in Filed \/ Made(r),
           UNCHANGED <<accounts, crowd>>, FilesOK', ToldOK', ProviderOK'
    PROVE  ArInv'
<1>1. HandlersOK' /\ IdsOK'
  BY HandlersStay, IdsStay
<1>2. ASSUME NEW r \in Filed', r \notin Filed PROVE \A a \in accounts : a.owner # files'[r].id
  BY <1>2 DEF Made, ArInv, IdsOK
<1>3. 1..asked \subseteq 1..asked'
  BY DEF ArInv, HandlersOK, Onward
<1>4. AccountsOK'
  BY <1>2, <1>3 DEF ArInv, AccountsOK, Onward, Onb
<1>5. ASSUME NEW r \in Filed', NEW c \in Currencies
      PROVE  Cardinality(Held(r, c)') + InFlight(<<r, c>>)' <= crowd'[<<r, c>>]
  <2>1. <<r, c>> \in Wants /\ crowd[<<r, c>>] \in Nat /\ InFlight(<<r, c>>) <= crowd[<<r, c>>]
    BY FiledWants DEF ArInv, CrowdOK, Filed
  <2>2. InFlight(<<r, c>>)' <= InFlight(<<r, c>>)
    BY FlightsContinue
  <2>3. CASE r \in Filed
    <3>1. Held(r, c)' = Held(r, c)
      BY <2>3 DEF Held, OwnedBy, Onward
    <3>2. Cardinality(Held(r, c)) + InFlight(<<r, c>>) <= crowd[<<r, c>>]
      BY <2>3 DEF ArInv, CrowdOK
    <3>3. Held(r, c) \in SUBSET accounts
      BY DEF Held, OwnedBy
    <3>4. Cardinality(Held(r, c)) \in Nat
      BY <3>3, FS_Subset, FS_CardinalityType DEF ArInv, AccountsOK
    <3> QED BY <2>1, <2>2, <3>1, <3>2, <3>4, FlightsCount, FlightsCountNext
  <2>4. CASE r \notin Filed
    <3>1. Held(r, c)' = {}
      BY <1>2, <2>4 DEF Held, OwnedBy
    <3>2. Cardinality(Held(r, c)') = 0
      BY <3>1, FS_EmptySet
    <3> QED BY <2>1, <2>2, <3>2, FlightsCount, FlightsCountNext
  <2> QED BY <2>3, <2>4
<1>6. \A w \in Wants : InFlight(w)' <= crowd'[w]
  <2> TAKE w \in Wants
  <2>1. InFlight(w)' <= InFlight(w) /\ InFlight(w) <= crowd[w] /\ crowd[w] \in Nat
    BY FlightsContinue DEF ArInv, CrowdOK
  <2> QED BY <2>1, FlightsCount, FlightsCountNext
<1>7. CrowdOK'
  BY <1>5, <1>6 DEF CrowdOK, Onward
<1> QED BY <1>1, <1>4, <1>7 DEF ArInv

LEMMA QuietOnward ==
    ASSUME ArInv, UNCHANGED <<files, crowd>>, accounts \subseteq accounts', DOMAIN call' = Calls,
           asked' = asked \/ asked' = asked + 1
    PROVE  Onward
<1>1. asked \in Nat /\ crowd \in [Wants -> Nat]
  BY DEF ArInv, HandlersOK, CrowdOK
<1>2. asked' \in Nat /\ asked <= asked' /\ crowd' \in [Wants -> Nat] /\ \A w \in Wants : crowd[w] <= crowd'[w]
  BY <1>1
<1>3. \A r \in Filed : r \in Filed'
  BY DEF Filed
<1> QED BY <1>2, <1>3 DEF Onward

LEMMA AccountsGrow ==
    ASSUME NEW code, NEW owner, NEW currency, accounts' \in {accounts, WithAccount(code, owner, currency)}
    PROVE  /\ accounts \subseteq accounts'
           /\ \A a \in accounts' : a \in accounts \/ (a.code = code /\ a.owner = owner)
BY DEF WithAccount

(* Whose an account may be.                                                      *)
Another(h, owner, currency) ==
    /\ Return(h)
    /\ \E r \in Filed, c \in Currencies :
          /\ \E t : t = call[h] /\ "want" \in DOMAIN t /\ t.want = <<r, c>>
          /\ owner = files[r].id /\ currency = c

LEMMA AccountsStep ==
    ASSUME ArInv, Onward, \A g \in Calls : Continues(g), UNCHANGED <<files, provider, crowd>>, ToldOK',
           NEW code, NEW owner \in 1..asked', NEW currency,
           accounts' \in {accounts, WithAccount(code, owner, currency)},
           \/ currency = First /\ \E r \in Filed : code = Onb(r) /\ owner = files[r].id
           \/ \E h \in Calls : call[h].at = "payee" /\ owner = call[h].id
           \/ \E h \in Calls : Another(h, owner, currency)
    PROVE  ArInv'
<1> PICK new : new = [code |-> code, owner |-> owner, currency |-> currency]
  OBVIOUS
<1> new.code = code /\ new.owner = owner /\ new.currency = currency
  OBVIOUS
<1> accounts' = accounts \/ (accounts' = accounts \cup {new} /\ \A a \in accounts : a.code # code)
  BY DEF WithAccount
<1>1. Filed' = Filed
  BY DEF Filed
<1>2. Owned(new)
  BY DEF Owned, Another
<1>3. HandlersOK' /\ IdsOK'
  BY <1>1, <1>2, HandlersStay, IdsStay
<1>4. 1..asked \subseteq 1..asked'
  BY DEF ArInv, HandlersOK, Onward
<1>5. FilesOK'
  BY <1>1, <1>4 DEF ArInv, FilesOK, Onb
<1>6. ProviderOK'
  BY <1>1 DEF ArInv, ProviderOK
<1>7. \A r \in Filed : new.owner = files[r].id /\ new.currency = First => new.code = Onb(r)
  <2> TAKE r \in Filed
  <2>1. CASE currency = First /\ \E s \in Filed : code = Onb(s) /\ owner = files[s].id
    BY <2>1 DEF ArInv, FilesOK
  <2>2. CASE \E h \in Calls : call[h].at = "payee" /\ owner = call[h].id
    BY <2>2 DEF ArInv, IdsOK, Drew
  <2>3. CASE \E h \in Calls : Another(h, owner, currency)
    BY <2>3, ArrivalsAssumption DEF Another
  <2> QED BY <2>1, <2>2, <2>3
<1>8. AccountsOK'
  <2>1. IsFiniteSet(accounts')
    BY FS_AddElement DEF ArInv, AccountsOK
  <2>2. \A a \in accounts' : a.owner \in 1..asked'
    BY <1>4 DEF ArInv, AccountsOK
  <2>3. \A a, b \in accounts' : a.code = b.code => a = b
    BY DEF ArInv, AccountsOK
  <2>4. \A a \in accounts', r \in Filed' : a.owner = files'[r].id /\ a.currency = First => a.code = Onb(r)
    BY <1>1, <1>7 DEF ArInv, AccountsOK
  <2> QED BY <2>1, <2>2, <2>3, <2>4 DEF AccountsOK, Onb
<1>9. ASSUME NEW r \in Filed', NEW c \in Currencies
      PROVE  Cardinality(Held(r, c)') + InFlight(<<r, c>>)' <= crowd'[<<r, c>>]
  <2>1. /\ <<r, c>> \in Wants /\ crowd[<<r, c>>] \in Nat
        /\ Cardinality(Held(r, c)) + InFlight(<<r, c>>) <= crowd[<<r, c>>]
    BY <1>1, <1>9, FiledWants DEF ArInv, CrowdOK, Filed
  <2>2. InFlight(<<r, c>>)' <= InFlight(<<r, c>>)
    BY FlightsContinue
  <2>3. Held(r, c) \in SUBSET accounts
    BY DEF Held, OwnedBy
  <2>4. IsFiniteSet(Held(r, c)) /\ Cardinality(Held(r, c)) \in Nat
    BY <2>3, FS_Subset, FS_CardinalityType DEF ArInv, AccountsOK
  <2>5. CASE ~(new.owner = files[r].id /\ new.currency = c)
    <3>1. Held(r, c)' = Held(r, c)
      BY <2>5 DEF Held, OwnedBy
    <3> QED BY <2>1, <2>2, <2>4, <3>1, FlightsCount, FlightsCountNext
  <2>6. CASE new.owner = files[r].id /\ new.currency = c
    <3>1. PICK h \in Calls : Another(h, owner, currency)
      BY <1>1, <1>9, <2>6, ArrivalsAssumption DEF ArInv, IdsOK, Drew
    <3>2. "want" \in DOMAIN call[h] /\ call[h].want = <<r, c>> /\ Return(h)
      BY <1>1, <1>9, <2>6, <3>1 DEF Another, ArInv, FilesOK
    <3>3. InFlight(<<r, c>>)' = InFlight(<<r, c>>) - 1
      BY <3>2, FlightEnds DEF ArInv, HandlersOK
    <3>4. Held(r, c)' = Held(r, c) \/ Held(r, c)' = Held(r, c) \cup {new}
      BY <2>6 DEF Held, OwnedBy
    <3>5. Cardinality(Held(r, c)') \in Nat /\ Cardinality(Held(r, c)') <= Cardinality(Held(r, c)) + 1
      <4> PICK S, T : S = Held(r, c) /\ T = Held(r, c)'
        OBVIOUS
      <4>1. IsFiniteSet(S) /\ Cardinality(S) \in Nat /\ (T = S \/ T = S \cup {new})
        BY <2>4, <3>4
      <4>2. Cardinality(T) \in Nat /\ Cardinality(T) <= Cardinality(S) + 1
        <5>1. CASE T = S
          BY <4>1, <5>1
        <5>2. CASE T = S \cup {new}
          <6>1. Cardinality(S \cup {new}) = IF new \in S THEN Cardinality(S) ELSE Cardinality(S) + 1
            BY <4>1, FS_AddElement
          <6> QED BY <4>1, <5>2, <6>1
        <5> QED BY <4>1, <5>1, <5>2
      <4> QED BY <4>2
    <3> QED BY <2>1, <2>4, <3>3, <3>5, FlightsCount, FlightsCountNext
  <2> QED BY <2>5, <2>6
<1>10. \A w \in Wants : InFlight(w)' <= crowd'[w]
  <2> TAKE w \in Wants
  <2>1. InFlight(w)' <= InFlight(w) /\ InFlight(w) <= crowd[w] /\ crowd[w] \in Nat
    BY FlightsContinue DEF ArInv, CrowdOK
  <2> QED BY <2>1, FlightsCount, FlightsCountNext
<1>11. CrowdOK'
  BY <1>9, <1>10 DEF CrowdOK, Onward
<1> QED BY <1>3, <1>5, <1>6, <1>8, <1>11 DEF ArInv

(* A request that begins, under an identifier that nobody has.                   *)
LEMMA BeginStep ==
    ASSUME ArInv, UNCHANGED <<files, provider, accounts, toldDoor>>, NEW h \in Calls, NEW t,
           Start(h, t), Arriving(t)', Rivals(t)',
           t.at \in {"create", "payee"} => t.id = Fresh,
           crowd' \in [Wants -> Nat], \A w \in Wants : crowd[w] <= crowd'[w],
           \A w \in Wants : InFlight(w)' <= crowd'[w],
           \A r \in Filed, c \in Currencies :
               InFlight(<<r, c>>)' <= InFlight(<<r, c>>) \/ Held(r, c) = {}
    PROVE  ArInv'
<1>1. asked \in Nat /\ asked' = asked + 1 /\ DOMAIN call = Calls /\ DOMAIN call' = Calls
      /\ \A g \in Calls : call'[g] = IF g = h THEN t ELSE call[g]
  BY DEF ArInv, HandlersOK, Start
<1>2. Filed' = Filed
  BY DEF Filed
<1>3. Onward
  BY <1>1, <1>2 DEF Onward
<1>4. 1..asked \subseteq 1..asked' /\ Fresh \notin 1..asked
  BY <1>1 DEF Fresh
<1>5. FilesOK' /\ AccountsOK' /\ ProviderOK'
  BY <1>2, <1>4 DEF ArInv, FilesOK, AccountsOK, ProviderOK, Onb
<1>6. ToldOK'
  BY <1>3, ToldStays DEF ArInv, ToldOK
<1>7. ASSUME NEW g \in Calls PROVE \E s : s = call'[g] /\ Arriving(s)' /\ Rivals(s)'
  <2>1. CASE g = h
    BY <1>1, <2>1
  <2>2. CASE g # h
    <3> PICK s : s = call[g] /\ Arriving(s) /\ Rivals(s)
      BY DEF ArInv, HandlersOK
    <3>1. Arriving(s)'
      BY <1>3, ArrivingStays
    <3>2. s.at \in SubmitSteps /\ s.reference \in Filed =>
             /\ <<s.reference, "file">> \in Wants
             /\ crowd[<<s.reference, "file">>] \in Nat /\ crowd'[<<s.reference, "file">>] \in Nat
      BY FiledWants DEF Filed, ArInv, CrowdOK
    <3>3. Rivals(s)'
      BY <1>2, <3>2 DEF Rivals
    <3> QED BY <1>1, <2>2, <3>1, <3>3
  <2> QED BY <2>1, <2>2
<1>8. HandlersOK'
  BY <1>1, <1>7 DEF HandlersOK
<1>9. \A g \in Calls : Drew(g) => call[g].id \in 1..asked
  BY IdleWants DEF ArInv, HandlersOK, Arriving, Submits, OpensAnother, SeeksPayee, Drew
<1>10. \A g \in Calls : Drew(g)' => \/ g # h /\ call'[g] = call[g] /\ Drew(g)
                                    \/ g = h /\ call'[g].id = Fresh
  BY <1>1 DEF Drew
<1>11. (\A r \in Filed : files[r].id \in 1..asked) /\ \A a \in accounts : a.owner \in 1..asked
  BY DEF ArInv, FilesOK, AccountsOK
<1>12. IdsOK'
  <2>1. ASSUME NEW g \in Calls, Drew(g)', NEW r \in Filed' PROVE files'[r].id # call'[g].id
    BY <1>2, <1>4, <1>10, <1>11, <2>1 DEF ArInv, IdsOK
  <2>2. ASSUME NEW g \in Calls, call'[g].at = "create", NEW a \in accounts' PROVE a.owner # call'[g].id
    <3>1. Drew(g)'
      BY <2>2 DEF Drew
    <3> QED BY <1>4, <1>10, <1>11, <2>2, <3>1 DEF ArInv, IdsOK
  <2>3. ASSUME NEW g \in Calls, NEW k \in Calls, Drew(g)', Drew(k)', call'[g].id = call'[k].id PROVE g = k
    <3>1. CASE g # h /\ k # h
      BY <1>10, <2>3, <3>1 DEF ArInv, IdsOK
    <3>2. CASE g = h /\ k # h
      BY <1>4, <1>9, <1>10, <2>3, <3>2
    <3>3. CASE g # h /\ k = h
      BY <1>4, <1>9, <1>10, <2>3, <3>3
    <3> QED BY <3>1, <3>2, <3>3
  <2> QED BY <2>1, <2>2, <2>3 DEF IdsOK
<1>13. ASSUME NEW r \in Filed', NEW c \in Currencies
       PROVE  Cardinality(Held(r, c)') + InFlight(<<r, c>>)' <= crowd'[<<r, c>>]
  <2>1. Held(r, c)' = Held(r, c)
    BY DEF Held, OwnedBy
  <2>2. <<r, c>> \in Wants
    BY FiledWants DEF Filed
  <2>3. crowd[<<r, c>>] \in Nat /\ crowd'[<<r, c>>] \in Nat /\ crowd[<<r, c>>] <= crowd'[<<r, c>>]
        /\ InFlight(<<r, c>>)' <= crowd'[<<r, c>>]
    BY <2>2 DEF ArInv, CrowdOK
  <2>4. Cardinality(Held(r, c)) + InFlight(<<r, c>>) <= crowd[<<r, c>>]
    BY <1>2, <1>13 DEF ArInv, CrowdOK
  <2>5. Held(r, c) \in SUBSET accounts
    BY DEF Held, OwnedBy
  <2>6. Cardinality(Held(r, c)) \in Nat
    BY <2>5, FS_Subset, FS_CardinalityType DEF ArInv, AccountsOK
  <2>7. CASE Held(r, c) = {}
    <3>1. Cardinality(Held(r, c)) = 0
      BY <2>7, FS_EmptySet
    <3> QED BY <2>1, <2>3, <3>1, FlightsCountNext
  <2>8. CASE InFlight(<<r, c>>)' <= InFlight(<<r, c>>)
    BY <2>1, <2>3, <2>4, <2>6, <2>8, FlightsCount, FlightsCountNext
  <2> QED BY <1>2, <1>13, <2>7, <2>8
<1>14. CrowdOK'
  BY <1>13 DEF CrowdOK
<1> QED BY <1>5, <1>6, <1>8, <1>12, <1>14 DEF ArInv

LEMMA BeginCounts ==
    ASSUME ArInv, NEW h \in Calls, NEW t, Begin(h, t), "want" \in DOMAIN t, t.want \in Wants
    PROVE  /\ crowd' \in [Wants -> Nat] /\ \A w \in Wants : crowd[w] <= crowd'[w] /\ InFlight(w)' <= crowd'[w]
           /\ \A w : w # t.want => InFlight(w)' = InFlight(w)
<1> PICK v : v = t.want
  OBVIOUS
<1>1. /\ DOMAIN call = Calls /\ crowd \in [Wants -> Nat] /\ \A w \in Wants : InFlight(w) <= crowd[w]
  BY DEF ArInv, HandlersOK, CrowdOK
<1>2. InFlight(v)' = InFlight(v) + 1 /\ \A w : w # v => InFlight(w)' = InFlight(w)
  BY <1>1, FlightBegins DEF Begin
<1>3. crowd' = [crowd EXCEPT ![v] = IF InFlight(v) < @ THEN @ ELSE InFlight(v) + 1]
  BY DEF Begin
<1>4. crowd'[v] = IF InFlight(v) < crowd[v] THEN crowd[v] ELSE InFlight(v) + 1
  BY <1>1, <1>3
<1>5. InFlight(v) \in Nat /\ crowd[v] \in Nat
  BY <1>1, FlightsCount
<1>6. crowd'[v] \in Nat /\ crowd[v] <= crowd'[v] /\ InFlight(v) + 1 <= crowd'[v]
  BY <1>1, <1>4, <1>5
<1>7. crowd' \in [Wants -> Nat] /\ \A w \in Wants : w # v => crowd'[w] = crowd[w]
  BY <1>1, <1>3, <1>6
<1> QED BY <1>1, <1>2, <1>6, <1>7

LEMMA ResponseTold ==
    ASSUME FilesOK', NEW r \in Filed', NEW sent,
           sent # files'[r].applicant => crowd'[<<r, "file">>] > 1
    PROVE  Told(toOnboardingResponse(r, sent, files[r]))'
<1> PICK file : file = files'[r]
  OBVIOUS
<1> PICK t : t = toOnboardingResponse(r, sent, file)
  OBVIOUS
<1>1. /\ DOMAIN t = {"reference", "sent", "applicant", "status", "account"} /\ t.reference = r
      /\ t.applicant = file.applicant /\ t.status = file.status /\ t.sent = sent
      /\ t.account = IF file.status = "approved" THEN file.account ELSE << >>
  BY DEF toOnboardingResponse
<1>2. Told(t)'
  BY <1>1 DEF Told, FilesOK, Onb
<1> QED BY <1>2 DEF Told, toOnboardingResponse

LEMMA Keeping ==
    ASSUME ArInv, Onward, NEW t, toldDoor' = toldDoor \/ (toldDoor' = toldDoor \cup {t} /\ Told(t)')
    PROVE  ToldOK'
BY ToldStays DEF ArInv, ToldOK

LEMMA SubmitKeeps ==
    ASSUME ArInv, NEW h \in Calls, NEW r \in Forms, NEW who, handleSubmitOnboarding(h, r, who)
    PROVE  ArInv'
<1> PICK t : t = [at |-> "create", reference |-> r, sent |-> who, id |-> Fresh, want |-> <<r, "file">>]
  OBVIOUS
<1>1. /\ DOMAIN t = {"at", "reference", "sent", "id", "want"} /\ t.at = "create" /\ t.reference = r
      /\ t.sent = who /\ t.id = Fresh /\ t.want = <<r, "file">> /\ t.want \in Wants
  BY FiledWants
<1>2. Begin(h, t) /\ Start(h, t) /\ UNCHANGED <<files, provider, accounts, toldDoor>>
      /\ (r \in Filed => files[r].applicant = who)
  BY DEF handleSubmitOnboarding, Begin, sameApplicant, Filed
<1>3. Filed' = Filed
  BY <1>2 DEF Filed
<1>4. asked \in Nat /\ asked' = asked + 1
  BY <1>2 DEF Start, ArInv, HandlersOK
<1>5. Arriving(t)' /\ Rivals(t)'
  BY <1>1, <1>2, <1>3, <1>4 DEF Arriving, Submits, SubmitSteps, Rivals, Fresh
<1>6. \A s \in Forms, c \in Currencies : <<s, c>> # t.want
  BY <1>1, ArrivalsAssumption
<1>7. \A s \in Filed, c \in Currencies : InFlight(<<s, c>>)' <= InFlight(<<s, c>>)
  <2> TAKE s \in Filed, c \in Currencies
  <2>1. InFlight(<<s, c>>)' = InFlight(<<s, c>>)
    BY <1>1, <1>2, <1>6, BeginCounts DEF Filed
  <2> QED BY <2>1, FlightsCount
<1> QED BY <1>1, <1>2, <1>5, <1>7, BeginCounts, BeginStep

LEMMA OpenAccountKeeps ==
    ASSUME ArInv, NEW h \in Calls, NEW r \in Forms, NEW c \in Currencies, handleOpenAccount(h, r, c)
    PROVE  ArInv'
<1> PICK t : t = [at |-> "open_another", owner |-> files[r].id, currency |-> c,
                  code |-> <<"ACC", Fresh>>, want |-> <<r, c>>]
  OBVIOUS
<1>1. /\ DOMAIN t = {"at", "owner", "currency", "code", "want"} /\ t.at = "open_another"
      /\ t.owner = files[r].id /\ t.currency = c /\ t.want = <<r, c>> /\ t.want \in Wants
  BY FiledWants
<1>2. /\ Begin(h, t) /\ Start(h, t) /\ UNCHANGED <<files, provider, accounts, toldDoor>>
      /\ r \in Filed /\ Held(r, c) = {}
  BY DEF handleOpenAccount, Begin, Filed, Held
<1>3. Filed' = Filed
  BY <1>2 DEF Filed
<1>4. Arriving(t)' /\ Rivals(t)'
  BY <1>1, <1>2, <1>3 DEF Arriving, OpensAnother, SubmitSteps, Rivals
<1>5. ASSUME NEW s \in Filed, NEW d \in Currencies
      PROVE  InFlight(<<s, d>>)' <= InFlight(<<s, d>>) \/ Held(s, d) = {}
  <2>1. CASE <<s, d>> = t.want
    BY <1>1, <1>2, <2>1
  <2>2. CASE <<s, d>> # t.want
    <3>1. InFlight(<<s, d>>)' = InFlight(<<s, d>>)
      BY <1>1, <1>2, <2>2, BeginCounts
    <3> QED BY <3>1, FlightsCount
  <2> QED BY <2>1, <2>2
<1> QED BY <1>1, <1>2, <1>4, <1>5, BeginCounts, BeginStep

LEMMA FundsKeep ==
    ASSUME ArInv, NEW h \in Calls, NEW a, handleSandboxFunds(h, a)
    PROVE  ArInv'
<1> PICK t : t = [at |-> "payee", account |-> a, id |-> Fresh]
  OBVIOUS
<1>1. DOMAIN t = {"at", "account", "id"} /\ t.at = "payee" /\ t.id = Fresh /\ "want" \notin DOMAIN t
  OBVIOUS
<1>2. UNCHANGED <<files, provider, accounts, toldDoor, crowd>> /\ (Start(h, t) \/ Serve)
  BY DEF handleSandboxFunds, arrivalVars
<1>3. asked \in Nat /\ DOMAIN call = Calls /\ crowd \in [Wants -> Nat]
  BY DEF ArInv, HandlersOK, CrowdOK
<1>4. CASE Start(h, t)
  <2>1. \A g \in Calls : call'[g] = call[g] \/ "want" \notin DOMAIN call'[g]
    BY <1>1, <1>3, <1>4 DEF Start
  <2>2. \A w : InFlight(w)' <= InFlight(w)
    BY <2>1, FewerFlights
  <2>3. Arriving(t)' /\ Rivals(t)'
    BY <1>1, <1>3, <1>4 DEF Start, Arriving, SeeksPayee, Rivals, SubmitSteps, Fresh
  <2>4. ASSUME NEW w \in Wants PROVE InFlight(w)' <= crowd'[w] /\ crowd[w] <= crowd'[w]
    <3>1. InFlight(w) <= crowd[w] /\ crowd[w] \in Nat /\ crowd'[w] = crowd[w]
      BY <1>2, <1>3 DEF ArInv, CrowdOK
    <3> QED BY <2>2, <3>1, FlightsCount, FlightsCountNext
  <2>5. crowd' \in [Wants -> Nat]
    BY <1>2, <1>3
  <2> QED BY <1>1, <1>2, <1>4, <2>2, <2>3, <2>4, <2>5, BeginStep
<1>5. CASE Serve
  <2>1. call' = call /\ asked' = asked + 1
    BY <1>5 DEF Serve
  <2>2. Onward /\ \A g \in Calls : Continues(g)
    BY <1>2, <1>3, <2>1, QuietOnward DEF Continues
  <2>3. Filed' = Filed /\ 1..asked \subseteq 1..asked'
    BY <1>2, <1>3, <2>1 DEF Filed
  <2>4. FilesOK' /\ ProviderOK' /\ ToldOK'
    BY <1>2, <2>2, <2>3, Keeping DEF ArInv, FilesOK, ProviderOK, Onb
  <2> QED BY <1>2, <2>2, <2>3, <2>4, FilesStep
<1> QED BY <1>2, <1>4, <1>5

LEMMA EndKeeps ==
    ASSUME ArInv, UNCHANGED arrivalVars, asked' = asked, DOMAIN call' = Calls, \A g \in Calls : Continues(g)
    PROVE  ArInv'
<1>1. UNCHANGED <<files, provider, accounts, toldDoor, crowd>>
  BY DEF arrivalVars
<1>2. Filed' = Filed /\ Onward
  BY <1>1, QuietOnward DEF Filed
<1>3. FilesOK' /\ ProviderOK' /\ ToldOK'
  BY <1>1, <1>2, Keeping DEF ArInv, FilesOK, ProviderOK, Onb
<1> QED BY <1>1, <1>2, <1>3, FilesStep

LEMMA StatusKeeps ==
    ASSUME ArInv, NEW r \in Forms, handleOnboardingStatus(r)
    PROVE  ArInv'
<1>1. /\ UNCHANGED <<files, provider, accounts, crowd, call>> /\ asked' = asked + 1 /\ r \in Filed
      /\ toldDoor' = toldDoor \cup {toOnboardingResponse(r, files[r].applicant, files[r])}
  BY DEF handleOnboardingStatus, Serve, Tell, Filed
<1>2. asked \in Nat /\ DOMAIN call = Calls
  BY DEF ArInv, HandlersOK
<1>3. Filed' = Filed /\ Onward /\ \A g \in Calls : Continues(g)
  BY <1>1, <1>2, QuietOnward DEF Filed, Continues
<1>4. 1..asked \subseteq 1..asked'
  BY <1>1, <1>2
<1>5. FilesOK' /\ ProviderOK'
  BY <1>1, <1>3, <1>4 DEF ArInv, FilesOK, ProviderOK, Onb
<1>6. Told(toOnboardingResponse(r, files[r].applicant, files[r]))'
  BY <1>1, <1>3, <1>5, ResponseTold
<1>7. ToldOK'
  BY <1>1, <1>3, <1>6, Keeping
<1> QED BY <1>1, <1>3, <1>5, <1>7, FilesStep

(* A request that goes on with its file, or ends.                                *)
LEMMA GoesOnWith ==
    ASSUME ArInv, NEW h \in Calls, Submits(call[h]), NEW at \in SubmitSteps \ {"create"},
           Goto(h, [call[h] EXCEPT !.at = at]) \/ Return(h),
           call[h].reference \in Filed', \A r \in Filed : r \in Filed'
    PROVE  asked' = asked /\ DOMAIN call' = Calls /\ \A g \in Calls : Continues(g)
<1> PICK s : s = call[h]
  OBVIOUS
<1> PICK t : t = [s EXCEPT !.at = at]
  OBVIOUS
<1>1. Submits(s) /\ DOMAIN call = Calls
  BY DEF ArInv, HandlersOK
<1>2. /\ DOMAIN t = DOMAIN s /\ t.at = at /\ t.reference = s.reference /\ t.sent = s.sent
      /\ t.id = s.id /\ t.want = s.want
  BY <1>1 DEF Submits
<1>3. asked' = asked
  BY DEF Goto, Return
<1>4. Submits(t)' /\ t.at # "create"
  BY <1>1, <1>2, <1>3 DEF Submits
<1>5. \A g \in Calls : call'[g] = call[g] \/ (g = h /\ call'[g] = Idle) \/ (g = h /\ call'[g] = t)
  BY <1>1 DEF Goto, Return
<1>6. DOMAIN call' = Calls
  BY <1>1 DEF Goto, Return
<1>7. ASSUME call'[h] = t PROVE Continues(h)
  <2>1. \E u, v : /\ u = call[h] /\ v = call'[h] /\ Submits(u) /\ Submits(v)' /\ v.at # "create"
                 /\ v.reference = u.reference /\ v.sent = u.sent
    BY <1>1, <1>2, <1>4, <1>7
  <2> QED BY <2>1 DEF Continues
<1>8. \A g \in Calls : Continues(g)
  BY <1>5, <1>7 DEF Continues
<1> QED BY <1>3, <1>6, <1>8

LEMMA AtSubmits ==
    ASSUME ArInv, NEW h \in Calls, NEW at \in SubmitSteps, At(h, at)
    PROVE  /\ Submits(call[h]) /\ Rivals(call[h])
           /\ at # "create" => call[h].reference \in Filed
BY IdleWants DEF ArInv, HandlersOK, At, Arriving, Submits, OpensAnother, SeeksPayee, SubmitSteps

LEMMA CreateKeeps == ASSUME ArInv, NEW h \in Calls, Create(h) PROVE ArInv'
<1> PICK s : s = call[h]
  OBVIOUS
<1> PICK r : r = s.reference
  OBVIOUS
<1>1. /\ Submits(s) /\ Rivals(s) /\ s.at = "create" /\ r \in Forms /\ s.id \in 1..asked
  BY AtSubmits DEF Create, At, SubmitSteps, Submits
<1> PICK file : file = IF files[r] # NoFile THEN files[r]
                       ELSE [status |-> "in_progress", applicant |-> s.sent, id |-> s.id,
                             verdict |-> "none", account |-> << >>]
  OBVIOUS
<1>2. /\ files' = [files EXCEPT ![r] = file] /\ UNCHANGED <<provider, accounts, crowd>>
      /\ \/ Return(h) /\ toldDoor' = toldDoor \cup {toOnboardingResponse(r, s.sent, file)}
         \/ \E at \in {"verify", "open"} : Goto(h, [s EXCEPT !.at = at]) /\ UNCHANGED toldDoor
  BY DEF Create, Tell
<1>3. /\ DOMAIN files = Forms /\ files'[r] = file /\ \A q \in Forms : q # r => files'[q] = files[q]
  BY <1>1, <1>2 DEF ArInv, FilesOK
<1>4. file # NoFile
  <2>1. ASSUME files[r] = NoFile PROVE "id" \in DOMAIN file
    BY <2>1
  <2>2. "id" \notin DOMAIN NoFile
    BY DEF NoFile
  <2> QED BY <2>1, <2>2
<1>5. Filed' = Filed \cup {r}
  BY <1>1, <1>3, <1>4 DEF Filed
<1>6. PICK at \in SubmitSteps \ {"create"} : Goto(h, [s EXCEPT !.at = at]) \/ Return(h)
  <2>1. {"verify", "open"} \subseteq SubmitSteps \ {"create"} /\ "open" \in {"verify", "open"}
    BY DEF SubmitSteps
  <2> QED BY <1>2, <2>1
<1>7. asked' = asked /\ DOMAIN call' = Calls /\ \A g \in Calls : Continues(g)
  BY <1>1, <1>5, <1>6, GoesOnWith
<1>8. r \in Filed => file = files[r]
  BY DEF Filed
<1>9. Onward
  <2>1. asked \in Nat /\ crowd \in [Wants -> Nat] /\ Filed \subseteq Forms
    BY DEF ArInv, HandlersOK, CrowdOK, Filed
  <2> QED BY <1>2, <1>3, <1>5, <1>7, <1>8, <2>1 DEF Onward
<1>10. r \notin Filed => file.id = s.id /\ file.applicant = s.sent /\ file.status = "in_progress"
                         /\ DOMAIN file = {"status", "applicant", "id", "verdict", "account"}
  BY <1>1 DEF Filed
<1>11. ASSUME r \notin Filed PROVE \A q \in Filed : files[q].id # s.id
  BY <1>1 DEF ArInv, IdsOK, Drew
<1>12. FilesOK'
  <2>1. DOMAIN files' = Forms
    BY <1>2, <1>3
  <2>2. ASSUME NEW q \in Filed'
        PROVE  /\ DOMAIN files'[q] = {"status", "applicant", "id", "verdict", "account"}
               /\ files'[q].id \in 1..asked'
               /\ files'[q].status = "approved" => files'[q].account = Onb(q)
    <3>1. CASE q \in Filed
      BY <1>3, <1>7, <1>8, <3>1 DEF ArInv, FilesOK, Filed
    <3>2. CASE q \notin Filed
      BY <1>1, <1>3, <1>5, <1>7, <1>10, <3>2
    <3> QED BY <3>1, <3>2
  <2>3. ASSUME NEW p \in Filed', NEW q \in Filed', files'[p].id = files'[q].id PROVE p = q
    <3>1. \A u \in Filed : files'[u].id = files[u].id
      BY <1>9 DEF Onward
    <3>2. CASE r \in Filed
      BY <1>5, <2>3, <3>1, <3>2 DEF ArInv, FilesOK
    <3>3. CASE r \notin Filed
      <4>1. files'[r].id = s.id
        BY <1>3, <1>10, <3>3
      <4> QED BY <1>5, <1>11, <2>3, <3>1, <3>3, <4>1 DEF ArInv, FilesOK
    <3> QED BY <3>2, <3>3
  <2> QED BY <2>1, <2>2, <2>3 DEF FilesOK, Onb
<1>13. s.sent # files'[r].applicant => crowd'[<<r, "file">>] > 1
  BY <1>1, <1>2, <1>3, <1>8, <1>10 DEF Rivals, SubmitSteps
<1>14. ToldOK'
  <2>1. Told(toOnboardingResponse(r, s.sent, files[r]))'
    BY <1>5, <1>12, <1>13, ResponseTold
  <2>2. PICK t : t = toOnboardingResponse(r, s.sent, file)
    OBVIOUS
  <2>3. Told(t)'
    BY <1>3, <2>1, <2>2 DEF Told, toOnboardingResponse
  <2> QED BY <1>2, <1>9, <2>2, <2>3, Keeping
<1>15. call'[h] # s
  <2>1. call'[h] = Idle \/ call'[h].at # "create"
    <3>1. DOMAIN call = Calls /\ "at" \in DOMAIN s
      BY <1>1 DEF ArInv, HandlersOK, Submits
    <3> QED BY <1>6, <3>1 DEF Goto, Return
  <2> QED BY <1>1, <2>1, IdleWants
<1>16. \A q \in Filed' : q \in Filed \/ Made(q)
  BY <1>1, <1>3, <1>5, <1>10, <1>15 DEF Made
<1>17. ProviderOK'
  BY <1>2, <1>9 DEF ArInv, ProviderOK, Onward
<1> QED BY <1>2, <1>7, <1>9, <1>12, <1>14, <1>16, <1>17, FilesStep

LEMMA VerifyKeeps == ASSUME ArInv, NEW h \in Calls, Verify(h) PROVE ArInv'
<1> PICK s : s = call[h]
  OBVIOUS
<1> PICK r : r = s.reference
  OBVIOUS
<1>1. Submits(s) /\ r \in Filed
  BY AtSubmits DEF Verify, SubmitSteps
<1>2. /\ UNCHANGED <<files, accounts, toldDoor, crowd>>
      /\ Goto(h, [s EXCEPT !.at = "decide"]) \/ Return(h)
      /\ DOMAIN provider' \subseteq DOMAIN provider \cup {files[r].id}
  <2>1. \/ provider' = provider
        \/ \E v \in Verdicts : provider' = Insert(provider, files[r].id, v)
    BY DEF Verify, providerRef
  <2>2. DOMAIN provider' \subseteq DOMAIN provider \cup {files[r].id}
    BY <2>1 DEF Insert
  <2> QED BY <2>2 DEF Verify
<1>3. Filed' = Filed
  BY <1>2 DEF Filed
<1>4. asked' = asked /\ DOMAIN call' = Calls /\ \A g \in Calls : Continues(g)
  BY <1>1, <1>2, <1>3, GoesOnWith DEF SubmitSteps
<1>5. Onward
  BY <1>2, <1>4, QuietOnward
<1>6. FilesOK' /\ ProviderOK' /\ ToldOK'
  BY <1>1, <1>2, <1>3, <1>4, <1>5, Keeping DEF ArInv, FilesOK, ProviderOK, Onb
<1> QED BY <1>2, <1>3, <1>4, <1>5, <1>6, FilesStep

(* A step that says more of a file there is, and may answer with it.             *)
LEMMA FileSays ==
    ASSUME ArInv, NEW h \in Calls, NEW s, s = call[h], Submits(s), Rivals(s), NEW r \in Filed, r = s.reference,
           NEW file, files' = [files EXCEPT ![r] = file], UNCHANGED <<provider, accounts, crowd>>,
           DOMAIN file = DOMAIN files[r], file.id = files[r].id, file.applicant = files[r].applicant,
           files[r].account = Onb(r) => file.account = Onb(r),
           file.status = "approved" => file.account = Onb(r),
           NEW at \in SubmitSteps \ {"create"}, Goto(h, [s EXCEPT !.at = at]) \/ Return(h),
           toldDoor' = toldDoor \/ toldDoor' = toldDoor \cup {toOnboardingResponse(r, s.sent, file)}
    PROVE  ArInv'
<1>1. DOMAIN files = Forms /\ r \in Forms /\ files'[r] = file /\ \A q \in Forms : q # r => files'[q] = files[q]
  BY DEF ArInv, FilesOK, Filed
<1>2. file # NoFile
  <2>1. "id" \in DOMAIN file
    BY DEF ArInv, FilesOK
  <2> QED BY <2>1 DEF NoFile
<1>3. Filed' = Filed /\ Filed \subseteq Forms
  BY <1>1, <1>2 DEF Filed
<1>4. asked' = asked /\ DOMAIN call' = Calls /\ \A g \in Calls : Continues(g)
  BY <1>3, GoesOnWith
<1>5. Onward
  <2>1. asked \in Nat /\ crowd \in [Wants -> Nat]
    BY DEF ArInv, HandlersOK, CrowdOK
  <2> QED BY <1>1, <1>3, <1>4, <2>1 DEF Onward
<1>6. FilesOK'
  <2>1. ASSUME NEW q \in Filed'
        PROVE  /\ DOMAIN files'[q] = {"status", "applicant", "id", "verdict", "account"}
               /\ files'[q].id \in 1..asked' /\ files'[q].id = files[q].id
               /\ files'[q].status = "approved" => files'[q].account = Onb(q)
    BY <1>1, <1>3, <1>4 DEF ArInv, FilesOK
  <2>2. DOMAIN files' = Forms
    BY <1>1
  <2>3. \A q, o \in Filed' : files'[q].id = files'[o].id => q = o
    BY <1>3, <2>1 DEF ArInv, FilesOK
  <2> QED BY <2>1, <2>2, <2>3 DEF FilesOK, Onb
<1>7. s.sent # files'[r].applicant => crowd'[<<r, "file">>] > 1
  BY <1>1 DEF Rivals, Submits
<1>8. ToldOK'
  <2>1. Told(toOnboardingResponse(r, s.sent, files[r]))'
    BY <1>3, <1>6, <1>7, ResponseTold
  <2>2. PICK t : t = toOnboardingResponse(r, s.sent, file)
    OBVIOUS
  <2>3. Told(t)'
    BY <1>1, <2>1, <2>2 DEF Told, toOnboardingResponse
  <2> QED BY <1>5, <2>2, <2>3, Keeping
<1>9. ProviderOK'
  BY <1>5 DEF ArInv, ProviderOK, Onward
<1> QED BY <1>3, <1>4, <1>5, <1>6, <1>8, <1>9, FilesStep

LEMMA DecideKeeps == ASSUME ArInv, NEW h \in Calls, DecideFile(h) PROVE ArInv'
<1> PICK s : s = call[h]
  OBVIOUS
<1> PICK r : r = s.reference
  OBVIOUS
<1>1. Submits(s) /\ Rivals(s) /\ r \in Filed
  BY AtSubmits DEF DecideFile, SubmitSteps
<1>2. PICK v : v = provider[providerRef(s)]
  OBVIOUS
<1>3. PICK file : file = [files[r] EXCEPT !.verdict = v, !.status = IF v = "approved" THEN @ ELSE v]
  OBVIOUS
<1>4. /\ files' = [files EXCEPT ![r] = file] /\ UNCHANGED <<provider, accounts, crowd>>
      /\ \/ Goto(h, [s EXCEPT !.at = "open"]) /\ UNCHANGED toldDoor
         \/ Return(h) /\ toldDoor' = toldDoor \cup {toOnboardingResponse(r, s.sent, file)}
  BY <1>2, <1>3 DEF DecideFile, Tell
<1>5. DOMAIN files[r] = {"status", "applicant", "id", "verdict", "account"}
  BY <1>1 DEF ArInv, FilesOK
<1>6. /\ DOMAIN file = DOMAIN files[r] /\ file.id = files[r].id /\ file.applicant = files[r].applicant
      /\ file.account = files[r].account
  BY <1>3, <1>5
<1>7. file.status = "approved" => file.account = Onb(r)
  <2>1. file.status = "approved" => files[r].status = "approved"
    BY <1>3, <1>5
  <2> QED BY <1>1, <1>6, <2>1 DEF ArInv, FilesOK
<1>8. "open" \in SubmitSteps \ {"create"}
  BY DEF SubmitSteps
<1>9. CASE Goto(h, [s EXCEPT !.at = "open"]) /\ UNCHANGED toldDoor
  BY <1>1, <1>4, <1>6, <1>7, <1>8, <1>9, FileSays
<1>10. CASE Return(h) /\ toldDoor' = toldDoor \cup {toOnboardingResponse(r, s.sent, file)}
  BY <1>1, <1>4, <1>6, <1>7, <1>8, <1>10, FileSays
<1> QED BY <1>4, <1>9, <1>10

LEMMA SetKeeps == ASSUME ArInv, NEW h \in Calls, SetAccount(h) PROVE ArInv'
<1> PICK s : s = call[h]
  OBVIOUS
<1> PICK r : r = s.reference
  OBVIOUS
<1>1. Submits(s) /\ Rivals(s) /\ r \in Filed
  BY AtSubmits DEF SetAccount, SubmitSteps
<1> PICK file : file = [files[r] EXCEPT !.account = Onb(r), !.status = "approved"]
  OBVIOUS
<1>2. /\ files' = [files EXCEPT ![r] = file] /\ UNCHANGED <<provider, accounts, crowd>>
      /\ Return(h) /\ toldDoor' = toldDoor \cup {toOnboardingResponse(r, s.sent, file)}
  BY DEF SetAccount, Tell, AccountCode, Onb
<1>3. DOMAIN files[r] = {"status", "applicant", "id", "verdict", "account"}
  BY <1>1 DEF ArInv, FilesOK
<1>4. /\ DOMAIN file = DOMAIN files[r] /\ file.id = files[r].id /\ file.applicant = files[r].applicant
      /\ file.account = Onb(r)
  BY <1>3
<1>5. "set" \in SubmitSteps \ {"create"}
  BY DEF SubmitSteps
<1> QED BY <1>1, <1>2, <1>4, <1>5, FileSays

LEMMA openKeeps == ASSUME ArInv, NEW h \in Calls, openAccount(h) PROVE ArInv'
<1> PICK s : s = call[h]
  OBVIOUS
<1> PICK r : r = s.reference
  OBVIOUS
<1>1. Submits(s) /\ r \in Filed
  BY AtSubmits DEF openAccount, SubmitSteps
<1>2. /\ UNCHANGED <<files, provider, toldDoor, crowd>>
      /\ accounts' \in {accounts, WithAccount(Onb(r), files[r].id, First)}
      /\ Goto(h, [s EXCEPT !.at = "set"]) \/ Return(h)
  BY DEF openAccount, AccountCode, Onb
<1>3. Filed' = Filed
  BY <1>2 DEF Filed
<1>4. asked' = asked /\ DOMAIN call' = Calls /\ \A g \in Calls : Continues(g)
  BY <1>1, <1>2, <1>3, GoesOnWith DEF SubmitSteps
<1>5. Onward
  BY <1>2, <1>4, AccountsGrow, QuietOnward
<1>6. ToldOK'
  BY <1>2, <1>5, Keeping
<1> PICK owner : owner = files[r].id
  OBVIOUS
<1>7. owner \in 1..asked'
  BY <1>1, <1>4 DEF ArInv, FilesOK
<1>8. \E q \in Filed : Onb(r) = Onb(q) /\ owner = files[q].id
  BY <1>1
<1>9. accounts' \in {accounts, WithAccount(Onb(r), owner, First)}
  BY <1>2
<1> QED BY <1>2, <1>4, <1>5, <1>6, <1>7, <1>8, <1>9, AccountsStep

LEMMA EndsContinue ==
    ASSUME ArInv, NEW h \in Calls, Return(h)
    PROVE  asked' = asked /\ DOMAIN call' = Calls /\ \A g \in Calls : Continues(g)
BY DEF ArInv, HandlersOK, Return, Goto, Continues

LEMMA AnotherKeeps == ASSUME ArInv, NEW h \in Calls, OpenAnother(h) PROVE ArInv'
<1> PICK t : t = call[h]
  OBVIOUS
<1>1. OpensAnother(t)
  BY IdleWants DEF ArInv, HandlersOK, OpenAnother, At, Arriving, Submits, SubmitSteps, SeeksPayee
<1>2. /\ UNCHANGED <<files, provider, toldDoor, crowd>> /\ Return(h)
      /\ accounts' \in {accounts, WithAccount(t.code, t.owner, t.currency)}
  BY DEF OpenAnother
<1>3. asked' = asked /\ DOMAIN call' = Calls /\ \A g \in Calls : Continues(g)
  BY <1>2, EndsContinue
<1>4. Onward
  BY <1>2, <1>3, AccountsGrow, QuietOnward
<1>5. ToldOK'
  BY <1>2, <1>4, Keeping
<1>6. Another(h, t.owner, t.currency)
  BY <1>1, <1>2 DEF OpensAnother, Another
<1>7. t.owner \in 1..asked'
  BY <1>1, <1>3 DEF OpensAnother, ArInv, FilesOK
<1> QED BY <1>2, <1>3, <1>4, <1>5, <1>6, <1>7, AccountsStep

LEMMA PayeeKeeps == ASSUME ArInv, NEW h \in Calls, testPayee(h) PROVE ArInv'
<1> PICK t : t = call[h]
  OBVIOUS
<1>1. SeeksPayee(t)
  BY IdleWants DEF ArInv, HandlersOK, testPayee, At, Arriving, Submits, SubmitSteps, OpensAnother
<1>2. /\ UNCHANGED <<files, provider, crowd>> /\ Return(h)
      /\ accounts' \in {accounts, WithAccount(PayeeCode(t), t.id, CurrencyOf[t.account])}
      /\ \/ \E a \in accounts' : /\ a.code = <<"PAYEE", t.account>>
                                 /\ toldDoor' = toldDoor \cup {[payee |-> t.account, owner |-> a.owner]}
         \/ UNCHANGED toldDoor
  BY DEF testPayee, Tell, PayeeCode
<1>3. asked' = asked /\ DOMAIN call' = Calls /\ \A g \in Calls : Continues(g)
  BY <1>2, EndsContinue
<1>4. Onward
  BY <1>2, <1>3, AccountsGrow, QuietOnward
<1>5. ToldOK'
  <2>1. CASE UNCHANGED toldDoor
    BY <1>4, <2>1, Keeping
  <2>2. ASSUME NEW a \in accounts', a.code = <<"PAYEE", t.account>>,
               toldDoor' = toldDoor \cup {[payee |-> t.account, owner |-> a.owner]}
        PROVE  ToldOK'
    <3>1. PICK u : u = [payee |-> t.account, owner |-> a.owner]
      OBVIOUS
    <3>2. DOMAIN u = {"payee", "owner"} /\ u.payee = t.account /\ u.owner = a.owner
      BY <3>1
    <3>3. Told(u)'
      BY <2>2, <3>2 DEF Told
    <3> QED BY <1>4, <2>2, <3>1, <3>3, Keeping
  <2> QED BY <1>2, <2>1, <2>2
<1>6. t.at = "payee" /\ t.id \in 1..asked'
  BY <1>1, <1>3 DEF SeeksPayee
<1> QED BY <1>2, <1>3, <1>4, <1>5, <1>6, AccountsStep, SMTT(20)

LEMMA ArrivalsKeep == ASSUME ArInv, NextArrivals PROVE ArInv'
BY SubmitKeeps, OpenAccountKeeps, FundsKeep, StatusKeeps, CreateKeeps, VerifyKeeps, DecideKeeps,
   openKeeps, SetKeeps, AnotherKeeps, PayeeKeeps
   DEF NextArrivals, NextDoor

(* Who is a customer has arrived; nothing of an arrival is left to do.           *)
ArrivalPart == (stage = "customer" /\ InitArrivals) \/ (stage = "arrival" /\ ArInv)

LEMMA ArrivalStep == ASSUME ArrivalPart, [Next]_vars PROVE ArrivalPart'
<1>1. CASE stage = "customer" /\ InitArrivals
  <2>1. stage' = stage /\ UNCHANGED arrivalVars
    BY <1>1 DEF Next, vars
  <2> QED BY <1>1, <2>1 DEF ArrivalPart, InitArrivals, arrivalVars
<1>2. CASE stage = "arrival" /\ ArInv
  <2>1. CASE NextArrivals /\ stage' = stage
    BY <1>2, <2>1, ArrivalsKeep DEF ArrivalPart
  <2>2. ASSUME NEW h \in Calls, Crash(h), UNCHANGED arrivalVars, stage' = stage PROVE ArrivalPart'
    <3>1. Return(h)
      BY <2>2 DEF Crash
    <3> QED BY <1>2, <2>2, <3>1, EndsContinue, EndKeeps DEF ArrivalPart
  <2>3. CASE UNCHANGED vars
    <3>1. UNCHANGED arrivalVars /\ asked' = asked /\ call' = call /\ stage' = stage
      BY <2>3 DEF vars, handlerVars
    <3>2. DOMAIN call' = Calls /\ \A g \in Calls : Continues(g)
      BY <1>2, <3>1 DEF ArInv, HandlersOK, Continues
    <3> QED BY <1>2, <3>1, <3>2, EndKeeps DEF ArrivalPart
  <2> QED BY <1>2, <2>1, <2>2, <2>3 DEF Next
<1> QED BY <1>1, <1>2 DEF ArrivalPart

LEMMA ArrivalsMeanOne == ArrivalPart => ArrivalsKeepToOne
<1>1. ASSUME InitArrivals PROVE ArrivalsKeepToOne
  <2>1. Filed = {} /\ DOMAIN provider = {} /\ toldDoor = {}
    BY <1>1 DEF InitArrivals, Filed
  <2>2. Cardinality(DOMAIN provider) <= Cardinality(Filed)
    BY <2>1, FS_EmptySet
  <2> QED BY <2>1, <2>2 DEF ArrivalsKeepToOne, Filed
<1> QED BY <1>1, ArInvMeansOne DEF ArrivalPart


-------------------------------------------------------------------------------
(* The channel: each part keeps its own invariant, and the others' steps cannot  *)
(* disturb it, since they post under their own keys and move their own handlers. *)
ChannelInv == Handlers /\ CInv /\ OneCardRow /\ FInv /\ LInv /\ RcInv /\ AInv

LEMMA InitChannel == Init => ChannelInv
<1> SUFFICES ASSUME Init PROVE ChannelInv
  OBVIOUS
<1>1. \A h \in Calls : call[h] = Idle /\ "at" \in DOMAIN call[h] /\ call[h].at = "idle"
  BY DEF Init, InitHandlers, Idle
<1>2. Handlers
  BY <1>1 DEF Init, InitHandlers, Handlers
<1>3. CInv
  BY InitCInv
<1>4. OneCardRow
  BY DEF Init, InitPockets, OneCardRow
<1>5. FInv
  BY <1>1 DEF Init, InitFX, FInv, FXSteps
<1>6. LInv
  <2>1. \A a \in Applications : applications[a] = NotFiled
    BY DEF Init, InitCredit
  <2>2. CreditTypeOK
    BY DEF Init, InitCredit, CreditTypeOK
  <2>3. toldLine = {} /\ line = NoLine
    BY DEF Init, InitCredit
  <2> QED BY <1>1, <2>1, <2>2, <2>3 DEF LInv
<1>7. RcInv
  BY <1>1 DEF Init, InitReceipts, RcInv, ReceiptSteps
<1>8. AInv
  <2>1. claims = << >> /\ DOMAIN aliases = {}
    BY DEF Init, InitAliases
  <2>2. \A f, c : ~Claimed(f, c)
    BY <2>1 DEF Claimed
  <2> QED BY <2>1, <2>2 DEF Init, InitAliases, AInv
<1> QED BY <1>2, <1>3, <1>4, <1>5, <1>6, <1>7, <1>8 DEF ChannelInv

LEMMA SameWithin == ASSUME Handlers, UNCHANGED call PROVE Handlers' /\ Within({})
BY DEF Handlers, Within

LEMMA SameGrowing == ASSUME UNCHANGED core PROVE Growing({})
BY DEF Growing

LEMMA AliasesStay == ASSUME AInv, UNCHANGED aliasVars PROVE AInv'
BY DEF AInv, aliasVars, Claimed, Stands

LEMMA RowsStay == ASSUME OneCardRow, UNCHANGED pocketVars PROVE OneCardRow'
BY DEF OneCardRow, pocketVars

(* A step of none of these parts.                                                *)
LEMMA OutsideKeeps ==
    ASSUME ChannelInv, NEW steps, NEW kinds, Handlers', Within(steps), Growing(kinds),
           "transfer" \notin kinds, UNCHANGED appVars,
           (steps \cup {"idle"}) \cap (TransferSteps \cup FXSteps \cup CreditSteps \cup ReceiptSteps) = {}
    PROVE  ChannelInv'
<1>1. UNCHANGED <<decisions, payees, pocketVars, fxVars, creditVars, aliasVars, receiptVars>>
  BY DEF appVars, controlVars
<1>2. CInv'
  BY <1>1, ElsewhereKeepsC DEF ChannelInv
<1>3. FInv'
  BY <1>1, ElsewhereKeepsF DEF ChannelInv
<1>4. LInv'
  BY <1>1, ElsewhereKeepsL DEF ChannelInv
<1>5. RcInv'
  BY <1>1, ElsewhereKeepsRc DEF ChannelInv
<1>6. AInv' /\ OneCardRow'
  BY <1>1, AliasesStay, RowsStay DEF ChannelInv
<1> QED BY <1>2, <1>3, <1>4, <1>5, <1>6 DEF ChannelInv

LEMMA CustomerKeeps == ASSUME ChannelInv, NextCustomer PROVE ChannelInv'
<1> USE DEF TransferSteps, PocketSteps, FXSteps, CreditSteps, ReceiptSteps
<1>1. CASE NextTransfers /\ UNCHANGED <<pocketVars, fxVars, creditVars, aliasVars, receiptVars>>
  <2>1. Handlers' /\ Within(TransferSteps) /\ CInv'
    BY <1>1, TransfersWithin, TransfersKeepC DEF ChannelInv
  <2>2. Growing({"transfer"})
    BY <1>1, TransfersGrow DEF ChannelInv
  <2>3. FInv' /\ RcInv'
    BY <1>1, <2>1, <2>2, ElsewhereKeepsF, ElsewhereKeepsRc DEF ChannelInv
  <2>4. LInv' /\ AInv' /\ OneCardRow'
    BY <1>1, <2>1, ElsewhereKeepsL, AliasesStay, RowsStay DEF ChannelInv
  <2> QED BY <2>1, <2>3, <2>4 DEF ChannelInv
<1>2. CASE NextPockets /\ UNCHANGED <<controlVars, fxVars, creditVars, aliasVars, receiptVars>>
  <2>1. Handlers' /\ Within(PocketSteps) /\ Growing({"pocket", "close"}) /\ OneCardRow'
    BY <1>2, PocketsWithin, PocketsKeepRows DEF ChannelInv
  <2>2. UNCHANGED <<decisions, payees>>
    BY <1>2 DEF controlVars
  <2>3. CInv'
    BY <2>1, <2>2, ElsewhereKeepsC DEF ChannelInv
  <2>4. FInv' /\ RcInv'
    BY <1>2, <2>1, ElsewhereKeepsF, ElsewhereKeepsRc DEF ChannelInv
  <2>5. LInv' /\ AInv'
    BY <1>2, <2>1, ElsewhereKeepsL, AliasesStay DEF ChannelInv
  <2> QED BY <2>1, <2>3, <2>4, <2>5 DEF ChannelInv
<1>3. CASE NextFX /\ UNCHANGED <<pocketVars, creditVars, aliasVars, receiptVars>>
  <2>1. Handlers' /\ Within(FXSteps) /\ Growing({"fx"}) /\ FInv'
    BY <1>3, FXWithin, FXKeeps DEF ChannelInv
  <2>2. UNCHANGED <<decisions, payees>>
    BY <1>3 DEF NextFX, handleFXQuote, ExpireQuote, handleFXConvert, PostConversion, LinkConversion, controlVars
  <2>3. CInv'
    BY <2>1, <2>2, ElsewhereKeepsC DEF ChannelInv
  <2>4. RcInv'
    BY <1>3, <2>1, ElsewhereKeepsRc DEF ChannelInv
  <2>5. LInv' /\ AInv' /\ OneCardRow'
    BY <1>3, <2>1, ElsewhereKeepsL, AliasesStay, RowsStay DEF ChannelInv
  <2> QED BY <2>1, <2>3, <2>4, <2>5 DEF ChannelInv
<1>4. CASE NextCredit /\ UNCHANGED <<pocketVars, fxVars, aliasVars, receiptVars>>
  <2>1. Handlers' /\ Within(CreditSteps) /\ Growing({"draw", "pay"}) /\ LInv'
    BY <1>4, CreditWithin, CreditKeeps DEF ChannelInv
  <2>2. UNCHANGED <<decisions, payees>>
    BY <1>4 DEF NextCredit, handleCreditApplication, FileApplication, OpenCreditLine, LinkLine, creditMove,
                Draw, Pay, CoolDown, ReviewCreditLine, controlVars
  <2>3. CInv'
    BY <2>1, <2>2, ElsewhereKeepsC DEF ChannelInv
  <2>4. FInv' /\ RcInv'
    BY <1>4, <2>1, ElsewhereKeepsF, ElsewhereKeepsRc DEF ChannelInv
  <2>5. AInv' /\ OneCardRow'
    BY <1>4, AliasesStay, RowsStay DEF ChannelInv
  <2> QED BY <2>1, <2>3, <2>4, <2>5 DEF ChannelInv
<1>5. CASE NextAliases /\ UNCHANGED <<core, controlVars, pocketVars, fxVars, creditVars, receiptVars>>
  <2>1. Handlers' /\ Within({}) /\ AInv'
    BY <1>5, AliasesWithin, AliasesKeep DEF ChannelInv
  <2>2. UNCHANGED <<decisions, payees>> /\ Growing({})
    BY <1>5, SameGrowing DEF controlVars
  <2>3. CInv'
    BY <2>1, <2>2, ElsewhereKeepsC DEF ChannelInv
  <2>4. FInv' /\ RcInv'
    BY <1>5, <2>1, <2>2, ElsewhereKeepsF, ElsewhereKeepsRc DEF ChannelInv
  <2>5. LInv' /\ OneCardRow'
    BY <1>5, <2>1, ElsewhereKeepsL, RowsStay DEF ChannelInv
  <2> QED BY <2>1, <2>3, <2>4, <2>5 DEF ChannelInv
<1>6. CASE NextReceipts /\ UNCHANGED <<pocketVars, fxVars, creditVars, aliasVars>>
  <2>1. Handlers' /\ Within(ReceiptSteps) /\ Growing({}) /\ RcInv'
    BY <1>6, ReceiptsWithin, ReceiptsKeep, SameGrowing DEF ChannelInv
  <2>2. UNCHANGED <<decisions, payees>>
    BY <1>6 DEF NextReceipts, handleIssueReceipt, InsertReceipt, FindReceipt, controlVars
  <2>3. CInv'
    BY <2>1, <2>2, ElsewhereKeepsC DEF ChannelInv
  <2>4. FInv'
    BY <1>6, <2>1, ElsewhereKeepsF DEF ChannelInv
  <2>5. LInv' /\ AInv' /\ OneCardRow'
    BY <1>6, <2>1, ElsewhereKeepsL, AliasesStay, RowsStay DEF ChannelInv
  <2> QED BY <2>1, <2>3, <2>4, <2>5 DEF ChannelInv
<1> QED BY <1>1, <1>2, <1>3, <1>4, <1>5, <1>6 DEF NextCustomer

LEMMA NextKeeps == ASSUME ChannelInv, [Next]_vars PROVE ChannelInv'
<1> USE DEF TransferSteps, FXSteps, CreditSteps, ReceiptSteps, ArrivalSteps
<1>1. CASE NextCustomer
  BY <1>1, CustomerKeeps
<1>2. CASE NextArrivals /\ UNCHANGED appVars
  <2>1. Handlers' /\ Within(ArrivalSteps) /\ Growing({"sandbox-funds"})
    BY <1>2, ArrivalsWithin DEF ChannelInv
  <2> QED BY <1>2, <2>1, OutsideKeeps
<1>3. CASE \E h \in Calls : Crash(h) /\ UNCHANGED <<core, appVars, arrivalVars>>
  <2>1. Handlers' /\ Within({}) /\ Growing({})
    BY <1>3, CrashWithin, SameGrowing DEF ChannelInv
  <2> QED BY <1>3, <2>1, OutsideKeeps
<1>4. CASE UNCHANGED vars
  <2>1. UNCHANGED <<call, core, appVars>>
    BY <1>4 DEF vars, handlerVars
  <2>2. Handlers' /\ Within({}) /\ Growing({})
    BY <2>1, SameWithin, SameGrowing DEF ChannelInv
  <2> QED BY <2>1, <2>2, OutsideKeeps
<1> QED BY <1>1, <1>2, <1>3, <1>4 DEF Next

(* The invariant of all the parts of the channel holds in every reachable state. *)
THEOREM ChannelInvariant == Spec => []ChannelInv
BY InitChannel, NextKeeps, PTL DEF Spec

(* Every transfer in the ledger was decided on with exactly its terms, and       *)
(* confirmed by the phone if it is large or goes where nothing had gone, however *)
(* handlers of whichever part race, die and repeat their calls.                  *)
THEOREM NothingMovesUnasked == Spec => []TransfersWereAuthorized
<1>1. ChannelInv => TransfersWereAuthorized
  BY DEF ChannelInv, CInv
<1> QED BY <1>1, ChannelInvariant, PTL

(* No two open pockets ever count as the card's, however many are opened and     *)
(* closed at once, with their insertions refused, undone or lost.                *)
THEOREM OneCardPocketAlways == Spec => []OneCardPocket
<1>1. ChannelInv => OneCardPocket
  BY OneRowOnePocket DEF ChannelInv
<1> QED BY <1>1, ChannelInvariant, PTL

(* No exchange is a loss to the bank, none and its reverse a gain to anybody, at *)
(* any rate, spread and rounding; and whoever was told that a quote was converted *)
(* finds it converted once, at the amounts they were shown, however late the      *)
(* quote expires or is asked about.                                               *)
THEOREM ExchangesStayFair == Spec => []ExchangesAreFair
<1>1. FairQuotes
  BY FairAlways, FXAssumption DEF FairQuotes
<1>2. ChannelInv => ExchangesAreFair
  BY <1>1 DEF ChannelInv, FInv, ExchangesAreFair, ConversionsStayAnswered, Converted
<1> QED BY <1>2, ChannelInvariant, PTL

(* No line without an application that was approved, and whoever was told of a   *)
(* card, or has it linked, has the line of that application and of no other.     *)
THEOREM LinesAreApproved == Spec => []LinesWereApproved
<1>1. ChannelInv => LinesWereApproved
  BY LInvMeansApproved DEF ChannelInv
<1> QED BY <1>1, ChannelInvariant, PTL

(* A receipt that was handed out says what the ledger says of its movement, and  *)
(* nobody ever gets another for it.                                              *)
THEOREM ReceiptsAlwaysStand == Spec => []ReceiptsStand
<1>1. ChannelInv => ReceiptsStand
  BY RcInvMeansStand DEF ChannelInv
<1> QED BY <1>1, ChannelInvariant, PTL

(* The directory is what was proved last, and no code is tried too often.        *)
THEOREM AliasesAlwaysFollow == Spec => []AliasesFollowProofs
<1>1. ChannelInv => AliasesFollowProofs
  BY AInvMeansFollow DEF ChannelInv
<1> QED BY <1>1, ChannelInvariant, PTL
(* However a form, an account or a payee is asked for again, and its requests die *)
(* or overlap: one account in soles for a file, checks paid for once, answers     *)
(* about who sent the form, no more accounts than were being opened at once, and  *)
(* one test payee for an account.                                                 *)
THEOREM ArrivalsStayOne == Spec => []ArrivalsKeepToOne
<1>1. Init => ArrivalPart
  BY InitArrives DEF ArrivalPart, Init
<1>2. ArrivalPart /\ [Next]_vars => ArrivalPart'
  BY ArrivalStep
<1>3. ArrivalPart => ArrivalsKeepToOne
  BY ArrivalsMeanOne
<1> QED BY <1>1, <1>2, <1>3, PTL DEF Spec

(******************************************************************************)
(* The bucket: for any size, rate and series of calls.                        *)
(******************************************************************************)
(* A bucket after a call, from the one after the call before.                    *)
Buckets == [full : Nat, left : Nat]
FullOne == [full |-> Burst * Pieces, left |-> Burst * Pieces]
Asked(tokens, elapsed) == LET full == Filled(tokens, elapsed) IN [full |-> full, left |-> Left(full)]

(* A bucket never holds more than it can, nor more than it had and what came.    *)
LEMMA FilledIs ==
    ASSUME NEW tokens \in Nat, NEW elapsed \in Nat
    PROVE  /\ elapsed * Rate \in Nat
           /\ Filled(tokens, elapsed) \in Nat /\ Filled(tokens, elapsed) <= Burst * Pieces
           /\ Filled(tokens, elapsed) <= tokens + elapsed * Rate
<1>1. Burst * Pieces \in Nat /\ elapsed * Rate \in Nat
  BY LimiterAssumption
<1> QED BY <1>1 DEF Filled, Least

(* A call that is let through takes one token, one that is not takes nothing.    *)
LEMMA LeftIs ==
    ASSUME NEW tokens \in Nat
    PROVE  /\ Left(tokens) \in Nat
           /\ Allowed(tokens) => tokens = Left(tokens) + Pieces
           /\ ~Allowed(tokens) => Left(tokens) = tokens /\ tokens < Pieces
BY LimiterAssumption DEF Left, Allowed

(* The recursion over the calls has a solution: the bucket after each call is what*)
(* the call makes of the one before.                                             *)
LEMMA BucketIs ==
    ASSUME NEW gaps \in Seq(Nat)
    PROVE  Bucket(gaps) = [i \in 0..Len(gaps) |->
                IF i = 0 THEN FullOne ELSE Asked(Bucket(gaps)[i - 1].left, gaps[i])]
<1> DEFINE n == Len(gaps)
           step == [i \in Nat |-> [t \in Buckets |-> IF i \in DOMAIN gaps THEN Asked(t.left, gaps[i]) ELSE t]]
<1>1. n \in Nat /\ 0 \in Nat /\ 0 + n = n /\ \A i \in 0..n : i # 0 => i \in DOMAIN gaps
  OBVIOUS
<1>2. FullOne \in Buckets
  BY LimiterAssumption DEF FullOne, Buckets
<1>3. \A t \in Buckets, i \in DOMAIN gaps : Asked(t.left, gaps[i]) \in Buckets
  <2> TAKE t \in Buckets, i \in DOMAIN gaps
  <2>1. t.left \in Nat /\ gaps[i] \in Nat
    BY DEF Buckets
  <2>2. Filled(t.left, gaps[i]) \in Nat
    BY <2>1, FilledIs
  <2> QED BY <2>2, LeftIs DEF Asked, Buckets
<1>4. step \in [Nat -> [Buckets -> Buckets]]
  BY <1>3
<1>5. PICK g \in [0..(0 + n) -> Buckets] : Recurs(g, 0, n, FullOne, step)
  <2> HIDE DEF step, n
  <2> QED BY <1>1, <1>2, <1>4, RecursionSolved
<1>6. \A i \in 0..n : g[i] = IF i = 0 THEN FullOne ELSE Asked(g[i - 1].left, gaps[i])
  <2> TAKE i \in 0..n
  <2>1. g[i] = IF i = 0 THEN FullOne ELSE step[i][g[i - 1]]
    BY <1>1, <1>5 DEF Recurs
  <2>2. ASSUME i # 0 PROVE step[i][g[i - 1]] = Asked(g[i - 1].left, gaps[i])
    <3>1. i \in Nat /\ i - 1 \in 0..(0 + n) /\ i \in DOMAIN gaps
      BY <1>1, <2>2
    <3>2. g[i - 1] \in Buckets
      BY <3>1
    <3> QED BY <3>1, <3>2
  <2> QED BY <2>1, <2>2
<1> HIDE DEF step
<1>7. g = [i \in 0..n |-> IF i = 0 THEN FullOne ELSE Asked(g[i - 1].left, gaps[i])]
  <2>1. g = [i \in 0..n |-> g[i]]
    BY <1>1
  <2> QED BY <1>6, <2>1
<1> DEFINE Sol(b) == b = [i \in 0..n |-> IF i = 0 THEN FullOne ELSE Asked(b[i - 1].left, gaps[i])]
<1>8. Bucket(gaps) = CHOOSE b : Sol(b)
  BY DEF Bucket, FullOne, Asked
<1>9. Sol(g)
  BY <1>7
<1> HIDE DEF Sol
<1>10. Sol(Bucket(gaps))
  BY <1>8, <1>9
<1> QED BY <1>10 DEF Sol

(* What a bucket holds is never less than nothing.                               *)
LEMMA BucketType ==
    ASSUME NEW gaps \in Seq(Nat), NEW i \in 0..Len(gaps)
    PROVE  Bucket(gaps)[i] \in Buckets
<1> DEFINE n == Len(gaps)
           b == Bucket(gaps)
           Bad == {k \in 0..n : b[k] \notin Buckets}
<1>0. n \in Nat /\ \A k \in 0..n : b[k] = IF k = 0 THEN FullOne ELSE Asked(b[k - 1].left, gaps[k])
  BY BucketIs
<1> HIDE DEF b
<1> SUFFICES ASSUME Bad # {} PROVE FALSE
  BY DEF b
<1>1. PICK k \in Bad : \A m \in Bad : k <= m
  <2>1. Bad \in SUBSET Nat
    BY <1>0
  <2> QED BY <2>1, LeastNatural
<1>2. k \in 0..n /\ b[k] \notin Buckets
  BY <1>1
<1>3. CASE k = 0
  BY <1>0, <1>2, <1>3, LimiterAssumption DEF FullOne, Buckets
<1>4. CASE k # 0
  <2>1. k - 1 \in 0..n /\ k - 1 \notin Bad /\ k \in DOMAIN gaps
    BY <1>0, <1>1, <1>2, <1>4
  <2>2. b[k - 1].left \in Nat /\ gaps[k] \in Nat
    BY <2>1 DEF Buckets
  <2>3. Filled(b[k - 1].left, gaps[k]) \in Nat
    BY <2>2, FilledIs
  <2>4. Asked(b[k - 1].left, gaps[k]) \in Buckets
    BY <2>3, LeftIs DEF Asked, Buckets
  <2> QED BY <1>0, <1>2, <1>4, <2>4
<1> QED BY <1>3, <1>4

(* What a call finds in the bucket, and what it leaves.                          *)
LEMMA CallTakes ==
    ASSUME NEW gaps \in Seq(Nat), NEW k \in DOMAIN gaps
    PROVE  LET b == Bucket(gaps) IN
           /\ b[k].full \in Nat /\ b[k].left \in Nat /\ b[k - 1].left \in Nat /\ gaps[k] \in Nat
           /\ b[k].full <= Burst * Pieces /\ b[k].full <= b[k - 1].left + gaps[k] * Rate
           /\ Allowed(b[k].full) => b[k].full = b[k].left + Pieces
           /\ ~Allowed(b[k].full) => b[k].left = b[k].full /\ b[k].full < Pieces
<1> DEFINE b == Bucket(gaps)
<1>1. k \in 0..Len(gaps) /\ k - 1 \in 0..Len(gaps) /\ k # 0 /\ gaps[k] \in Nat
  OBVIOUS
<1>2. b[k] \in Buckets /\ b[k - 1] \in Buckets
  BY <1>1, BucketType
<1>3. b[k] = Asked(b[k - 1].left, gaps[k])
  BY <1>1, BucketIs
<1> HIDE DEF b
<1>4. b[k].full \in Nat /\ b[k].left \in Nat /\ b[k - 1].left \in Nat
  BY <1>2 DEF Buckets
<1>5. b[k].full = Filled(b[k - 1].left, gaps[k]) /\ b[k].left = Left(b[k].full)
  BY <1>3 DEF Asked
<1>6. b[k].full <= Burst * Pieces /\ b[k].full <= b[k - 1].left + gaps[k] * Rate
  BY <1>1, <1>4, <1>5, FilledIs
<1>7. /\ Allowed(b[k].full) => b[k].full = b[k].left + Pieces
      /\ ~Allowed(b[k].full) => b[k].left = b[k].full /\ b[k].full < Pieces
  BY <1>4, <1>5, LeftIs
<1> QED BY <1>1, <1>4, <1>6, <1>7 DEF b

(* The recursion over the gaps has a solution: what has passed since the call i. *)
LEMMA ElapsedIs ==
    ASSUME NEW gaps \in Seq(Nat), NEW i \in DOMAIN gaps, NEW j \in DOMAIN gaps, i <= j
    PROVE  \E s : /\ Elapsed(gaps, i, j) = s[j]
                  /\ s = [k \in i..j |-> IF k = i THEN 0 ELSE s[k - 1] + gaps[k]]
<1> DEFINE n == j - i
           step == [k \in Nat |-> [x \in Nat |-> IF k \in DOMAIN gaps THEN x + gaps[k] ELSE x]]
<1>1. i \in Nat /\ n \in Nat /\ i + n = j /\ \A k \in i..j : k \in DOMAIN gaps
  OBVIOUS
<1>2. step \in [Nat -> [Nat -> Nat]]
  OBVIOUS
<1>3. PICK g \in [i..(i + n) -> Nat] : Recurs(g, i, n, 0, step)
  <2> HIDE DEF step, n
  <2> QED BY <1>1, <1>2, RecursionSolved
<1>4. g = [k \in i..j |-> IF k = i THEN 0 ELSE step[k][g[k - 1]]]
  BY <1>1, <1>3 DEF Recurs
<1>5. \A k \in i..j : g[k] = IF k = i THEN 0 ELSE g[k - 1] + gaps[k]
  <2> TAKE k \in i..j
  <2>1. g[k] = IF k = i THEN 0 ELSE step[k][g[k - 1]]
    BY <1>4
  <2>2. ASSUME k # i PROVE step[k][g[k - 1]] = g[k - 1] + gaps[k]
    <3>1. k \in Nat /\ k - 1 \in i..j /\ k \in DOMAIN gaps /\ i..j = i..(i + n)
      <4>1. k \in DOMAIN gaps /\ i..j = i..(i + n)
        BY <1>1
      <4>2. k \in Nat /\ k - 1 \in i..j
        <5> HIDE DEF n
        <5> QED BY <1>1, <2>2
      <4> QED BY <4>1, <4>2
    <3>2. g[k - 1] \in Nat
      BY <3>1
    <3> QED BY <3>1, <3>2
  <2> QED BY <2>1, <2>2
<1> DEFINE Sol(f) == f = [k \in i..j |-> IF k = i THEN 0 ELSE f[k - 1] + gaps[k]]
           chosen == CHOOSE f : Sol(f)
<1>6. Elapsed(gaps, i, j) = chosen[j]
  BY DEF Elapsed
<1>7. Sol(g)
  <2>1. g = [k \in i..j |-> g[k]]
    BY <1>1
  <2> QED BY <1>5, <2>1
<1> HIDE DEF Sol
<1>8. Sol(chosen)
  BY <1>7
<1> QED BY <1>6, <1>8 DEF Sol

(* The calls of a stretch that are in a set, counted one by one.                *)
Among(A, i, m) == {x \in i..m : x \in A}

(* Of the stretch that is the call i alone, one call at most was let through.    *)
LEMMA FirstCall ==
    ASSUME NEW i \in Nat, NEW A
    PROVE  Cardinality(Among(A, i, i)) = IF i \in A THEN 1 ELSE 0
<1>1. Among(A, i, i) = IF i \in A THEN {i} ELSE {}
  BY DEF Among
<1>2. Cardinality({i}) = 1 /\ Cardinality({}) = 0
  BY FS_Singleton, FS_EmptySet
<1> QED BY <1>1, <1>2

(* One call more in the stretch is one more let through, or none.                *)
LEMMA OneCallMore ==
    ASSUME NEW i \in Nat, NEW m \in Nat, i < m, NEW A
    PROVE  /\ Cardinality(Among(A, i, m - 1)) \in Nat
           /\ Cardinality(Among(A, i, m)) = Cardinality(Among(A, i, m - 1)) + IF m \in A THEN 1 ELSE 0
<1>1. IsFiniteSet(Among(A, i, m - 1))
  <2>1. IsFiniteSet(i..(m - 1))
    BY FS_Interval
  <2>2. Among(A, i, m - 1) \subseteq i..(m - 1)
    BY DEF Among
  <2> QED BY <2>1, <2>2, FS_Subset
<1>2. m \notin Among(A, i, m - 1)
  BY DEF Among
<1>3. Among(A, i, m) = IF m \in A THEN Among(A, i, m - 1) \cup {m} ELSE Among(A, i, m - 1)
  BY DEF Among
<1>4. Cardinality(Among(A, i, m - 1) \cup {m}) = Cardinality(Among(A, i, m - 1)) + 1
  BY <1>1, <1>2, FS_AddElement
<1>5. Cardinality(Among(A, i, m - 1)) \in Nat
  BY <1>1, FS_CardinalityType
<1> QED BY <1>3, <1>4, <1>5

(* The account of the first call.                                                *)
LEMMA FirstAccount ==
    ASSUME NEW P \in Nat, NEW Q \in Nat, NEW R \in Nat, NEW c, NEW l \in Nat, NEW f \in Nat, f <= Q,
           \/ c = 1 /\ f = l + P
           \/ c = 0 /\ f = l
    PROVE  c \in Nat /\ c * P + l <= Q + 0 * R
OBVIOUS

(* In a stretch of calls, those let through and what is left come out of a full  *)
(* bucket and what has trickled in.                                              *)
LEMMA StretchBounded ==
    ASSUME NEW gaps \in Seq(Nat), NEW i \in DOMAIN gaps, NEW j \in DOMAIN gaps, i <= j
    PROVE  Cardinality({k \in i..j : Allowed(Bucket(gaps)[k].full)}) * Pieces
              <= Burst * Pieces + Elapsed(gaps, i, j) * Rate
<1> DEFINE b == Bucket(gaps)
           A == {k \in DOMAIN gaps : Allowed(b[k].full)}
           through(m) == Cardinality(Among(A, i, m))
<1>1. PICK s : /\ Elapsed(gaps, i, j) = s[j]
               /\ s = [k \in i..j |-> IF k = i THEN 0 ELSE s[k - 1] + gaps[k]]
  BY ElapsedIs
<1>2. \A k \in i..j : s[k] = IF k = i THEN 0 ELSE s[k - 1] + gaps[k]
  BY <1>1
<1>3. Burst * Pieces \in Nat /\ Pieces \in Nat /\ Rate \in Nat
  BY LimiterAssumption
<1>4. i \in Nat /\ j \in Nat /\ \A k \in i..j : k \in Nat /\ k \in DOMAIN gaps /\ i <= k
  OBVIOUS
<1> DEFINE left(k) == b[k].left
           full(k) == b[k].full
<1>5. \A k \in i..j :
         /\ full(k) \in Nat /\ left(k) \in Nat /\ left(k - 1) \in Nat /\ gaps[k] \in Nat
         /\ full(k) <= Burst * Pieces /\ full(k) <= left(k - 1) + gaps[k] * Rate
         /\ k \in A => full(k) = left(k) + Pieces
         /\ k \notin A => full(k) = left(k)
  BY <1>4, CallTakes
<1>6. through(i) = IF i \in A THEN 1 ELSE 0
  BY <1>4, FirstCall
<1>7. \A m \in i..j : m # i =>
         through(m - 1) \in Nat /\ through(m) = through(m - 1) + IF m \in A THEN 1 ELSE 0
  <2> SUFFICES ASSUME NEW m \in i..j, m # i
               PROVE  through(m - 1) \in Nat /\ through(m) = through(m - 1) + IF m \in A THEN 1 ELSE 0
    OBVIOUS
  <2>1. m \in Nat /\ i < m
    BY <1>4
  <2> HIDE DEF A
  <2> QED BY <1>4, <2>1, OneCallMore
<1>8. {k \in i..j : Allowed(b[k].full)} = Among(A, i, j)
  BY <1>4 DEF Among
<1> HIDE DEF b, A, through, left, full
<1> DEFINE Fine(m) == /\ s[m] \in Nat /\ through(m) \in Nat
                      /\ through(m) * Pieces + left(m) <= Burst * Pieces + s[m] * Rate
           Bad == {m \in i..j : ~Fine(m)}
<1>9. Fine(i)
  <2>1. i \in i..j /\ s[i] = 0
    BY <1>2, <1>4
  <2>2. \/ through(i) = 1 /\ full(i) = left(i) + Pieces
        \/ through(i) = 0 /\ full(i) = left(i)
    BY <1>5, <1>6, <2>1
  <2>3. full(i) \in Nat /\ left(i) \in Nat /\ full(i) <= Burst * Pieces
    BY <1>5, <2>1
  <2>4. through(i) \in Nat /\ through(i) * Pieces + left(i) <= Burst * Pieces + 0 * Rate
    BY ONLY <1>3, <2>2, <2>3, FirstAccount
  <2> QED BY <2>1, <2>4
<1>10. ASSUME NEW m \in i..j, m # i, Fine(m - 1) PROVE Fine(m)
  <2>1. s[m] = s[m - 1] + gaps[m]
    BY <1>2, <1>10
  <2>2. \/ through(m) = through(m - 1) + 1 /\ full(m) = left(m) + Pieces
        \/ through(m) = through(m - 1) /\ full(m) = left(m)
    <3>1. through(m - 1) \in Nat /\ through(m) = through(m - 1) + IF m \in A THEN 1 ELSE 0
      BY <1>7, <1>10
    <3> QED BY <1>5, <3>1
  <2>3. /\ full(m) \in Nat /\ left(m) \in Nat /\ left(m - 1) \in Nat /\ gaps[m] \in Nat
        /\ full(m) <= left(m - 1) + gaps[m] * Rate
    BY <1>5
  <2>4. /\ s[m - 1] \in Nat /\ through(m - 1) \in Nat
        /\ through(m - 1) * Pieces + left(m - 1) <= Burst * Pieces + s[m - 1] * Rate
    BY <1>10
  <2>5. /\ through(m) \in Nat /\ s[m - 1] + gaps[m] \in Nat
        /\ through(m) * Pieces + left(m) <= Burst * Pieces + (s[m - 1] + gaps[m]) * Rate
    <3> PICK P, Q, R : P = Pieces /\ Q = Burst * Pieces /\ R = Rate
      OBVIOUS
    <3> PICK c, d, e, g : c = through(m - 1) /\ d = through(m) /\ e = s[m - 1] /\ g = gaps[m]
      OBVIOUS
    <3> PICK k, l, f : k = left(m - 1) /\ l = left(m) /\ f = full(m)
      OBVIOUS
    <3>1. /\ P \in Nat /\ Q \in Nat /\ R \in Nat /\ c \in Nat /\ k \in Nat /\ l \in Nat
          /\ f \in Nat /\ e \in Nat /\ g \in Nat
      BY <1>3, <2>3, <2>4
    <3>2. c * P + k <= Q + e * R /\ f <= k + g * R
      BY <2>3, <2>4
    <3>3. \/ d = c + 1 /\ f = l + P
          \/ d = c /\ f = l
      BY <2>2
    <3>4. d \in Nat /\ e + g \in Nat /\ d * P + l <= Q + (e + g) * R
      <4>1. /\ c * P \in Nat /\ e * R \in Nat /\ g * R \in Nat
            /\ (e + g) * R = e * R + g * R /\ (c + 1) * P = c * P + P
        BY ONLY <3>1
      <4>2. d \in Nat /\ d * P + l = c * P + f
        <5>1. CASE d = c + 1 /\ f = l + P
          <6>1. d * P = c * P + P
            BY ONLY <4>1, <5>1
          <6> QED BY ONLY <3>1, <4>1, <5>1, <6>1
        <5>2. CASE d = c /\ f = l
          BY ONLY <3>1, <4>1, <5>2
        <5> QED BY <3>3, <5>1, <5>2
      <4>3. c * P + f <= Q + (e * R + g * R)
        BY ONLY <3>1, <3>2, <4>1
      <4> QED BY ONLY <3>1, <4>1, <4>2, <4>3
    <3> QED BY <3>4
  <2> QED BY <2>1, <2>5
<1> HIDE DEF Fine
<1>11. Bad = {}
  <2> SUFFICES ASSUME Bad # {} PROVE FALSE
    OBVIOUS
  <2>1. PICK m \in Bad : \A k \in Bad : m <= k
    <3>1. Bad \in SUBSET Nat
      BY <1>4
    <3> QED BY <3>1, LeastNatural
  <2>2. m \in i..j /\ ~Fine(m)
    BY <2>1
  <2>3. m # i
    BY <1>9, <2>2
  <2>4. m - 1 \in i..j /\ ~(m <= m - 1)
    BY <1>4, <2>2, <2>3
  <2>5. m - 1 \notin Bad
    <3> HIDE DEF Bad
    <3> QED BY <2>1, <2>4
  <2>6. Fine(m - 1)
    BY <2>4, <2>5
  <2> QED BY <1>10, <2>2, <2>3, <2>6
<1>12. Fine(j) /\ left(j) \in Nat
  BY <1>4, <1>5, <1>11
<1>13. through(j) * Pieces <= Burst * Pieces + s[j] * Rate
  <2>1. s[j] \in Nat /\ through(j) \in Nat /\ through(j) * Pieces + left(j) <= Burst * Pieces + s[j] * Rate
    BY <1>12 DEF Fine
  <2> PICK c, l, q, e : c = through(j) /\ l = left(j) /\ q = Burst * Pieces /\ e = s[j]
    OBVIOUS
  <2>2. c \in Nat /\ l \in Nat /\ q \in Nat /\ e \in Nat /\ c * Pieces + l <= q + e * Rate
    BY <1>3, <1>12, <2>1
  <2>3. c * Pieces \in Nat /\ e * Rate \in Nat
    BY ONLY <1>3, <2>2
  <2>4. c * Pieces <= q + e * Rate
    BY ONLY <2>2, <2>3
  <2> QED BY <2>4
<1> QED BY <1>1, <1>8, <1>13 DEF through, b

(* Whoever waits for as long as they are told finds a token.                     *)
LEMMA WaitingHelps ==
    ASSUME NEW tokens \in Nat, tokens < Pieces
    PROVE  Allowed(Filled(tokens, Wait(tokens))) /\ Allowed(Filled(tokens, RetryAfter(tokens) * Ticks))
<1> DEFINE short == Pieces - tokens
           wait == Wait(tokens)
           told == RetryAfter(tokens) * Ticks
<1>1. {Burst, Rate, Pieces, Ticks} \subseteq Nat \ {0} /\ short \in Nat
  BY LimiterAssumption
<1>2. wait \in Nat /\ wait * Rate >= short
  <2> HIDE DEF short
  <2>1. wait = (short \div Rate) + 1
    BY DEF Wait, short
  <2>2. short \div Rate \in Nat /\ ((short \div Rate) + 1) * Rate >= short
    BY <1>1
  <2> QED BY <2>1, <2>2
<1>3. told \in Nat /\ told >= wait
  <2> HIDE DEF wait
  <2>1. told = ((wait \div Ticks) + 1) * Ticks
    BY DEF RetryAfter, wait
  <2>2. ((wait \div Ticks) + 1) * Ticks \in Nat /\ ((wait \div Ticks) + 1) * Ticks >= wait
    BY <1>1, <1>2
  <2> QED BY <2>1, <2>2
<1>4. Burst * Pieces >= Pieces /\ Burst * Pieces \in Nat
  BY <1>1
<1> HIDE DEF wait, told
<1>5. ASSUME NEW x \in Nat, x >= wait PROVE Allowed(Filled(tokens, x))
  <2>1. x * Rate >= wait * Rate /\ x * Rate \in Nat /\ wait * Rate \in Nat
    BY <1>1, <1>2, <1>5
  <2>2. tokens + x * Rate >= Pieces
    BY <1>1, <1>2, <2>1
  <2> QED BY <1>1, <1>4, <2>1, <2>2 DEF Allowed, Filled, Least
<1> QED BY <1>2, <1>3, <1>5 DEF wait, told

(* Every stretch of every series is bounded, and waiting helps in each.          *)
LEMMA EachWindowBounded == BoundedWindows
<1> SUFFICES ASSUME NEW gaps \in Series
             PROVE  /\ \A i, j \in DOMAIN gaps : i <= j =>
                          Cardinality({k \in i..j : Allowed(Bucket(gaps)[k].full)}) * Pieces
                             <= Burst * Pieces + Elapsed(gaps, i, j) * Rate
                    /\ \A k \in DOMAIN gaps : ~Allowed(Bucket(gaps)[k].full) =>
                          /\ Allowed(Filled(Bucket(gaps)[k].left, Wait(Bucket(gaps)[k].full)))
                          /\ Allowed(Filled(Bucket(gaps)[k].left, RetryAfter(Bucket(gaps)[k].full) * Ticks))
  BY DEF BoundedWindows
<1>1. gaps \in Seq(Nat)
  BY LimiterAssumption
<1>2. \A i, j \in DOMAIN gaps : i <= j =>
         Cardinality({k \in i..j : Allowed(Bucket(gaps)[k].full)}) * Pieces
            <= Burst * Pieces + Elapsed(gaps, i, j) * Rate
  BY <1>1, StretchBounded
<1>3. \A k \in DOMAIN gaps : ~Allowed(Bucket(gaps)[k].full) =>
         /\ Allowed(Filled(Bucket(gaps)[k].left, Wait(Bucket(gaps)[k].full)))
         /\ Allowed(Filled(Bucket(gaps)[k].left, RetryAfter(Bucket(gaps)[k].full) * Ticks))
  <2> TAKE k \in DOMAIN gaps
  <2>1. Bucket(gaps)[k].full \in Nat
    BY <1>1, CallTakes
  <2>2. ~Allowed(Bucket(gaps)[k].full) => Bucket(gaps)[k].left = Bucket(gaps)[k].full /\ Bucket(gaps)[k].full < Pieces
    BY <1>1, CallTakes
  <2> QED BY <2>1, <2>2, WaitingHelps
<1> QED BY <1>2, <1>3

(* However the calls of somebody unknown are spaced, no stretch of them lets     *)
(* more through than a burst and what the rate lets in, and who waits as told    *)
(* is let through (ratelimit.Limiter.Allow).                                     *)
THEOREM WindowsAlwaysBounded == Spec => []WindowsAreBounded
<1>1. WindowsAreBounded
  BY EachWindowBounded DEF WindowsAreBounded
<1> QED BY <1>1, PTL

(******************************************************************************)
(* The forecast: for any balance, spending, income and card.                  *)
(******************************************************************************)
CardsOf == [due : Int, minimum : Nat, total : Nat, reserved : Nat]

(* A card takes something or nothing from the account, no card takes nothing.    *)
LEMMA CardTakes ==
    ASSUME NEW card \in CardsOf, NEW minimum \in BOOLEAN
    PROVE  /\ fromAccount(card, minimum) \in Nat
           /\ fromAccount(NoCard, minimum) = 0
BY DEF CardsOf, fromAccount, Positive, NoCard

(* A day ends with what its spending has left, less the card once it is due.     *)
LEMMA OnDayIs ==
    ASSUME NEW balance \in Int, NEW daily \in Nat, NEW card \in CardsOf, NEW minimum \in BOOLEAN, NEW d \in Nat
    PROVE  \/ OnDay(d, balance, daily, card, minimum) = balance - daily * d
           \/ OnDay(d, balance, daily, card, minimum) = balance - daily * d - fromAccount(card, minimum)
<1>1. fromAccount(card, minimum) \in Nat /\ daily * d \in Nat
  BY CardTakes
<1> QED BY <1>1 DEF OnDay

(* Without a card only the spending counts.                                      *)
LEMMA OnDayNoCard ==
    ASSUME NEW balance \in Int, NEW daily \in Nat, NEW minimum \in BOOLEAN, NEW d \in Nat
    PROVE  OnDay(d, balance, daily, NoCard, minimum) = balance - daily * d
<1>1. NoCard \in CardsOf
  BY DEF NoCard, CardsOf
<1>2. fromAccount(NoCard, minimum) = 0 /\ daily * d \in Nat
  BY <1>1, CardTakes
<1> QED BY <1>2 DEF OnDay

(* What is there more at the beginning is there more at the end of a day.        *)
LEMMA OnDayMore ==
    ASSUME NEW balance \in Int, NEW daily \in Nat, NEW card \in CardsOf, NEW minimum \in BOOLEAN, NEW d \in Nat,
           NEW x \in Int
    PROVE  /\ OnDay(d, balance, daily, card, minimum) \in Int
           /\ OnDay(d, balance + x, daily, card, minimum) = OnDay(d, balance, daily, card, minimum) + x
<1>1. fromAccount(card, minimum) \in Nat /\ daily * d \in Nat
  BY CardTakes
<1> QED BY <1>1 DEF OnDay

(* The lowest day is the balance itself or one of the days, and no day is lower. *)
LEMMA WalkIs ==
    ASSUME NEW balance \in Int, NEW daily \in Nat, NEW until \in Int, NEW card \in CardsOf, NEW minimum \in BOOLEAN
    PROVE  LET w == walk(balance, daily, until, card, minimum)
               days == 0..spendDays(until) IN
           /\ w \in Int /\ w <= balance /\ \A d \in days : w <= OnDay(d, balance, daily, card, minimum)
           /\ w = balance \/ \E d \in days : w = OnDay(d, balance, daily, card, minimum)
<1> DEFINE n == spendDays(until)
           taken == fromAccount(card, minimum)
           W == {balance} \cup {OnDay(d, balance, daily, card, minimum) : d \in 0..n}
           b == balance - daily * n - taken
<1>1. n \in Nat /\ taken \in Nat
  BY CardTakes DEF spendDays, Positive
<1> HIDE DEF n, taken
<1>2. \A d \in 0..n : /\ OnDay(d, balance, daily, card, minimum) \in Int
                      /\ b <= OnDay(d, balance, daily, card, minimum)
  <2> TAKE d \in 0..n
  <2>1. daily * d \in Int /\ daily * n \in Int /\ daily * d <= daily * n
    BY <1>1
  <2>2. \/ OnDay(d, balance, daily, card, minimum) = balance - daily * d
        \/ OnDay(d, balance, daily, card, minimum) = balance - daily * d - taken
    BY <1>1, OnDayIs DEF taken
  <2> QED BY <1>1, <2>1, <2>2
<1>3. b \in Int /\ b <= balance
  <2>1. daily * n \in Nat
    BY <1>1
  <2> QED BY <1>1, <2>1
<1>4. W \in SUBSET Int /\ W # {} /\ \A x \in W : b <= x
  BY <1>2, <1>3
<1> HIDE DEF W, b
<1>5. Min(W) \in W /\ \A y \in W : Min(W) <= y
  BY ONLY <1>3, <1>4, LeastInteger
<1>6. walk(balance, daily, until, card, minimum) = Min(W)
  BY DEF walk, n, W
<1>7. /\ Min(W) \in Int /\ Min(W) <= balance
      /\ \A d \in 0..n : Min(W) <= OnDay(d, balance, daily, card, minimum)
      /\ Min(W) = balance \/ \E d \in 0..n : Min(W) = OnDay(d, balance, daily, card, minimum)
  BY <1>4, <1>5 DEF W
<1> QED BY <1>6, <1>7 DEF n

(* More money at the beginning is more on every day.                             *)
LEMMA FundsAdd ==
    ASSUME NEW balance \in Int, NEW daily \in Nat, NEW until \in Int, NEW card \in CardsOf, NEW minimum \in BOOLEAN,
           NEW x \in Int
    PROVE  walk(balance + x, daily, until, card, minimum) = walk(balance, daily, until, card, minimum) + x
<1> DEFINE v == walk(balance, daily, until, card, minimum)
           w == walk(balance + x, daily, until, card, minimum)
           On(d) == OnDay(d, balance, daily, card, minimum)
           n == spendDays(until)
<1>1. \A d \in 0..n : On(d) \in Int /\ OnDay(d, balance + x, daily, card, minimum) = On(d) + x
  <2> TAKE d \in 0..n
  <2>1. d \in Nat
    OBVIOUS
  <2>2. On(d) \in Int
    BY <2>1, OnDayMore
  <2>3. OnDay(d, balance + x, daily, card, minimum) = On(d) + x
    BY <2>1, OnDayMore
  <2> QED BY <2>2, <2>3
<1>2. /\ v \in Int /\ v <= balance /\ \A d \in 0..n : v <= On(d)
      /\ v = balance \/ \E d \in 0..n : v = On(d)
  BY WalkIs
<1>3. /\ w \in Int /\ w <= balance + x /\ \A d \in 0..n : w <= On(d) + x
      /\ w = balance + x \/ \E d \in 0..n : w = On(d) + x
  <2>1. balance + x \in Int
    OBVIOUS
  <2> QED BY <1>1, <2>1, WalkIs
<1> HIDE DEF v, w, On, n
<1>4. w <= v + x
  BY <1>1, <1>2, <1>3
<1>5. v + x <= w
  BY <1>1, <1>2, <1>3
<1>6. w = v + x
  BY <1>2, <1>3, <1>4, <1>5
<1> QED BY <1>6 DEF v, w

(* Whatever came back and however short the history, a day spends no less than   *)
(* nothing.                                                                      *)
LEMMA DailyIs ==
    ASSUME NEW out \in Nat, NEW back \in Nat, NEW history \in Nat
    PROVE  dailySpend(out, back, history) \in Nat
<1>1. SpendWindow \in Nat \ {0}
  BY ForecastAssumption
<1>2. Min({history, SpendWindow}) \in Int
  BY <1>1, MinOfTwo
<1>3. Max({1, Min({history, SpendWindow})}) \in Nat \ {0}
  BY <1>2, MaxOfTwo
<1>4. Positive(out - back) \in Nat
  BY DEF Positive
<1> QED BY <1>3, <1>4 DEF dailySpend

(* Spending no more than is left of the balance once the card is paid, divided   *)
(* by the days, is enough.                                                       *)
LEMMA CapIsEnough ==
    ASSUME NEW balance \in Int, NEW until \in Int, NEW card \in CardsOf,
           spendDays(until) > 0, balance >= Committed(card)
    PROVE  LET limit == (balance - Committed(card)) \div spendDays(until) IN
           limit \in Nat /\ walk(balance, limit, until, card, FALSE) >= 0
<1> DEFINE n == spendDays(until)
           c == fromAccount(card, FALSE)
           limit == (balance - c) \div n
<1>1. n \in Nat \ {0} /\ c \in Nat /\ balance - c \in Nat
  <2>1. n \in Nat \ {0}
    BY DEF spendDays, Positive
  <2>2. c \in Nat
    BY CardTakes
  <2>3. balance >= c
    BY DEF Committed
  <2> HIDE DEF c
  <2> QED BY <2>1, <2>2, <2>3
<1> HIDE DEF n, c
<1>2. limit \in Nat /\ limit * n <= balance - c
  BY <1>1
<1> HIDE DEF limit
<1>3. \A d \in 0..n : OnDay(d, balance, limit, card, FALSE) >= 0
  <2> TAKE d \in 0..n
  <2>1. limit * d \in Int /\ limit * n \in Int /\ limit * d <= limit * n
    BY <1>1, <1>2
  <2>2. \/ OnDay(d, balance, limit, card, FALSE) = balance - limit * d
        \/ OnDay(d, balance, limit, card, FALSE) = balance - limit * d - c
    <3>1. d \in Nat
      BY <1>1
    <3> QED BY <1>2, <3>1, OnDayIs DEF c
  <2>3. limit * d + c <= balance
    BY <1>1, <1>2, <2>1
  <2> DEFINE on == OnDay(d, balance, limit, card, FALSE)
  <2>4. on = balance - limit * d \/ on = balance - limit * d - c
    BY <2>2
  <2> HIDE DEF on
  <2>5. on >= 0
    BY <1>1, <2>1, <2>3, <2>4
  <2> QED BY <2>5 DEF on
<1> DEFINE On == [d \in 0..n |-> OnDay(d, balance, limit, card, FALSE)]
<1>5. \A d \in 0..n : On[d] >= 0
  BY <1>3
<1>4. walk(balance, limit, until, card, FALSE) >= 0
  <2> DEFINE w == walk(balance, limit, until, card, FALSE)
  <2>1. w \in Int /\ (w = balance \/ \E d \in 0..n : w = On[d])
    BY <1>2, WalkIs DEF n
  <2> HIDE DEF w, On
  <2>2. w >= 0
    BY <1>1, <1>5, <2>1
  <2> QED BY <2>2 DEF w
<1> QED BY <1>2, <1>4 DEF limit, n, c, Committed

(* There is an option, and none of them leaves a day below zero.                 *)
LEMMA EachOptionHelps ==
    ASSUME NEW balance \in Int, NEW daily \in Nat, NEW until \in Int, NEW card \in CardsOf
    PROVE  LET offered == options(balance, daily, until, card) IN
           /\ offered # {}
           /\ \A o \in offered : Following(o, balance, daily, until, card) >= 0
<1> DEFINE minimum == walk(balance, daily, until, card, TRUE)
           n == spendDays(until)
           limit == (balance - Committed(card)) \div n
           ofCard == IF card = NoCard THEN {}
                     ELSE IF minimum >= 0 THEN {[kind |-> "pay_minimum", amount |-> card.minimum]}
                     ELSE {[kind |-> "add_funds", amount |-> -minimum]}
           ofSpending == IF n > 0 /\ balance >= Committed(card)
                         THEN IF limit < daily THEN {[kind |-> "spend_cap", amount |-> limit]} ELSE {}
                         ELSE {}
           whole == walk(balance, daily, until, card, FALSE)
           topUp == {[kind |-> "add_funds", amount |-> -whole]}
           offered == options(balance, daily, until, card)
<1>1. offered = IF card = NoCard /\ ofSpending = {} THEN topUp ELSE ofCard \cup ofSpending
  BY DEF options
<1>2. minimum \in Int /\ whole \in Int
  BY WalkIs
<1> HIDE DEF minimum, whole
<1>8. \A x \in Int : walk(balance + x, daily, until, card, TRUE) = minimum + x
  BY FundsAdd DEF minimum
<1>3. \A o \in ofCard : Following(o, balance, daily, until, card) >= 0
  <2> TAKE o \in ofCard
  <2>1. CASE minimum >= 0
    <3>1. o.kind = "pay_minimum"
      BY <2>1
    <3> QED BY <2>1, <3>1 DEF Following, minimum
  <2>2. CASE ~(minimum >= 0)
    <3>1. o.kind = "add_funds" /\ o.amount = -minimum
      BY <2>2
    <3>2. walk(balance + o.amount, daily, until, card, TRUE) = minimum + o.amount
      <4>1. o.amount \in Int
        BY <1>2, <3>1
      <4> QED BY <4>1, <1>8
    <3>3. Following(o, balance, daily, until, card) = minimum + o.amount
      BY <3>1, <3>2 DEF Following
    <3> QED BY <1>2, <3>1, <3>3
  <2> QED BY <2>1, <2>2
<1>4. \A o \in ofSpending : Following(o, balance, daily, until, card) >= 0
  <2> TAKE o \in ofSpending
  <2>1. n > 0 /\ balance >= Committed(card) /\ o.kind = "spend_cap" /\ o.amount = limit
    OBVIOUS
  <2>2. walk(balance, limit, until, card, FALSE) >= 0
    BY <2>1, CapIsEnough
  <2> QED BY <2>1, <2>2 DEF Following
<1>5. ASSUME card = NoCard
      PROVE  \A o \in topUp : Following(o, balance, daily, until, card) >= 0
  <2> TAKE o \in topUp
  <2>1. o.kind = "add_funds" /\ o.amount = -whole
    OBVIOUS
  <2>2. walk(balance + o.amount, daily, until, card, TRUE) = minimum + o.amount
    <3>1. o.amount \in Int
      BY <1>2, <2>1
    <3> QED BY <3>1, <1>8
  <2>3. minimum = whole
    <3>1. \A d \in 0..n, m \in BOOLEAN : OnDay(d, balance, daily, NoCard, m) = balance - daily * d
      BY OnDayNoCard
    <3>2. minimum = Min({balance} \cup {OnDay(d, balance, daily, NoCard, TRUE) : d \in 0..n})
      BY <1>5 DEF walk, minimum, whole
    <3>3. whole = Min({balance} \cup {OnDay(d, balance, daily, NoCard, FALSE) : d \in 0..n})
      BY <1>5 DEF walk, minimum, whole
    <3>4. {OnDay(d, balance, daily, NoCard, TRUE) : d \in 0..n} = {OnDay(d, balance, daily, NoCard, FALSE) : d \in 0..n}
      BY <3>1
    <3> QED BY <3>2, <3>3, <3>4
  <2>4. Following(o, balance, daily, until, card) = minimum + o.amount
    BY <2>1, <2>2 DEF Following
  <2> QED BY <1>2, <2>1, <2>3, <2>4
<1>6. card # NoCard => ofCard # {}
  OBVIOUS
<1> HIDE DEF ofCard, ofSpending, offered
<1>7. offered # {} /\ \A o \in offered : Following(o, balance, daily, until, card) >= 0
  BY <1>1, <1>3, <1>4, <1>5, <1>6
<1> QED BY <1>7 DEF offered

(* So in every situation that is looked at.                                      *)
LEMMA EachSituationHelped == HelpfulOptions
<1> SUFFICES ASSUME NEW s \in Situations
             PROVE  LET until == Until(s.income)
                        card  == InTime(s.due, until)
                        daily == dailySpend(s.out, s.back, s.history)
                        offered == options(s.balance, daily, until, card)
                    IN Status(walk(s.balance, daily, until, card, FALSE), daily) = "deficit" =>
                       /\ offered # {}
                       /\ \A o \in offered : Following(o, s.balance, daily, until, card) >= 0
                       /\ Cause(s.balance, daily, until, card) = "card"
                            => Status(walk(s.balance, daily, until, NoCard, FALSE), daily) # "deficit"
  BY DEF HelpfulOptions
<1> DEFINE until == Until(s.income)
           card  == InTime(s.due, until)
           daily == dailySpend(s.out, s.back, s.history)
<1>1. s \in [balance : Int, out : Nat, back : Nat, history : Nat, income : Int,
             due : [due : Int, minimum : Nat, total : Nat, reserved : Nat]]
  BY ForecastAssumption
<1>2. until \in Int
  BY <1>1, ForecastAssumption DEF Until
<1>3. card \in CardsOf
  BY <1>1 DEF InTime, CardsOf, NoCard
<1>4. daily \in Nat /\ s.balance \in Int
  BY <1>1, DailyIs
<1> HIDE DEF until, card, daily
<1>5. LET offered == options(s.balance, daily, until, card) IN
      offered # {} /\ \A o \in offered : Following(o, s.balance, daily, until, card) >= 0
  BY <1>2, <1>3, <1>4, EachOptionHelps
<1>6. Cause(s.balance, daily, until, card) = "card"
         => Status(walk(s.balance, daily, until, NoCard, FALSE), daily) # "deficit"
  <2>1. NoCard \in CardsOf
    BY DEF NoCard, CardsOf
  <2>2. walk(s.balance, daily, until, NoCard, FALSE) \in Int
    BY <2>1, <1>2, <1>4, WalkIs
  <2>3. ASSUME NEW v \in Int, v >= 0 PROVE Status(v, daily) # "deficit"
    BY <2>3 DEF Status
  <2>4. Cause(s.balance, daily, until, card) = "card" => walk(s.balance, daily, until, NoCard, FALSE) >= 0
    BY DEF Cause
  <2> QED BY <2>2, <2>3, <2>4
<1> QED BY <1>5, <1>6 DEF until, card, daily

(* Whoever would run short is offered something, and each thing they are offered *)
(* leaves no day without money (forecast.Options).                               *)
THEOREM OptionsAlwaysHelp == Spec => []OptionsHelp
<1>1. OptionsHelp
  BY EachSituationHelped DEF OptionsHelp
<1> QED BY <1>1, PTL
===============================================================================
