--------------------------------- MODULE FX ---------------------------------
(* Changing soles and dollars between the customer's own accounts,            *)
(* services/fx: a quote freezes the rate for a while, a conversion executes   *)
(* it as one posting, and the quote remembers that it did.                    *)
EXTENDS Customer

CONSTANTS
    Quotes,       \* quotes the service makes
    Position,     \* [{"USD", "PEN"} -> House]: the bank's exchange positions
    One,          \* a rate of 1, and an amount of 1: 1_000_000 in the code
    Whole,        \* a spread of everything: 10_000 basis points
    Cent,         \* what an amount is rounded to: 10_000 in the code
    Spread,       \* Service.spreadBps
    References,   \* reference rates, soles per dollar
    FXAmounts,    \* what the customer asks to change
    FairFor       \* rates and amounts whose fairness is looked at

ASSUME FXAssumption ==
    /\ {One, Whole, Cent} \subseteq Nat \ {0} /\ Spread \in 0..Whole - 1
    /\ References \subseteq Nat \ {0} /\ FairFor \subseteq Nat \ {0}
    /\ Position \in [{"USD", "PEN"} -> House]

VARIABLES
    quotes,       \* fx.quotes
    converted     \* quotes whose conversion was answered with success

fxVars == <<quotes, converted>>

NoQuote == [from |-> "none"]

InitFX == quotes = [q \in Quotes |-> NoQuote] /\ converted = {}

mulDiv(a, b, c) == (a * b) \div c

(* Slip: the spread is taken off both ways.                                  *)
SpreadTakenOff(currency, reference) == (reference * (Whole - Spread)) \div Whole

AppliedRate(currency, reference) ==
    (reference * (IF currency = "USD" THEN Whole - Spread ELSE Whole + Spread)) \div Whole

Change(currency, rate, x) ==
    IF currency = "USD" THEN mulDiv(x, rate, One) ELSE mulDiv(x, One, rate)

(* What is received for x, in whole cents, and what that costs compared with  *)
(* the reference.                                                             *)
ToMicros(currency, reference, x) ==
    LET to == Change(currency, AppliedRate(currency, reference), x) IN to - (to % Cent)
CostMicros(currency, reference, x) ==
    Change(currency, reference, x) - ToMicros(currency, reference, x)

-----------------------------------------------------------------------------
ownedPair(from, to) == {from, to} \subseteq Own /\ CurrencyOf[from] # CurrencyOf[to]

handleFXQuote(q, from, to, x, reference) ==
    LET received == ToMicros(CurrencyOf[from], reference, x) IN
    /\ quotes[q] = NoQuote /\ ownedPair(from, to)
    /\ x > 0 /\ AppliedRate(CurrencyOf[from], reference) > 0 /\ received > 0
    /\ quotes' = [quotes EXCEPT ![q] = [from |-> from, to |-> to, gives |-> x, receives |-> received,
                                       late |-> FALSE, transaction |-> FALSE]]
    /\ UNCHANGED <<converted, core, controlVars, handlerVars>>

ExpireQuote(q) ==
    /\ quotes[q] # NoQuote /\ ~quotes[q].late
    /\ quotes' = [quotes EXCEPT ![q].late = TRUE]
    /\ UNCHANGED <<converted, core, controlVars, handlerVars>>

(* Convert: an expired quote is refused unless it is known to be used.        *)
handleFXConvert(h, q) ==
    /\ quotes[q] # NoQuote /\ (quotes[q].late => quotes[q].transaction)
    /\ Start(h, [at |-> "convert", quote |-> q])
    /\ UNCHANGED <<fxVars, core, controlVars>>

ConversionOf(q) ==
    Debit(q.from, q.gives) @@ Credit(Position[CurrencyOf[q.from]], q.gives)
    @@ Debit(Position[CurrencyOf[q.to]], q.receives) @@ Credit(q.to, q.receives)

PostConversion(h) ==
    LET t == call[h] IN
    /\ t.at = "convert"
    /\ \E got \in Answers :
          /\ Post(<<"fx", t.quote>>, ConversionOf(quotes[t.quote]), got)
          /\ IF Ok(got) THEN Goto(h, [t EXCEPT !.at = "link"]) ELSE Return(h)
    /\ UNCHANGED <<fxVars, controlVars>>

(* Slip: the answer does not wait for the quote to be marked.                *)
LinkOrAnswer(h) ==
    LET q == call[h].quote IN
    /\ call[h].at = "link"
    /\ quotes' \in {quotes, [quotes EXCEPT ![q].transaction = TRUE]}
    /\ converted' = converted \cup {q}
    /\ Return(h)
    /\ UNCHANGED <<core, controlVars>>

(* The quote is marked as used, and only then is the customer told.           *)
LinkConversion(h) ==
    LET q == call[h].quote
        used == [quotes EXCEPT ![q].transaction = TRUE]
    IN
    /\ call[h].at = "link"
    /\ \/ quotes' = used /\ converted' = converted \cup {q}
       \/ quotes' \in {quotes, used} /\ UNCHANGED converted
    /\ Return(h)
    /\ UNCHANGED <<core, controlVars>>

NextFX ==
    \/ \E q \in Quotes, from, to \in Own, x \in FXAmounts, r \in References : handleFXQuote(q, from, to, x, r)
    \/ \E q \in Quotes : ExpireQuote(q)
    \/ \E h \in Calls : \/ \E q \in Quotes : handleFXConvert(h, q)
                        \/ PostConversion(h) \/ LinkConversion(h)

-----------------------------------------------------------------------------
(* A change is never dearer to the bank than its reference -- its cost is not *)
(* negative, whatever is lost to rounding --, and going there and back at one *)
(* reference leaves no one richer (Service.Quote: the rate applied, the       *)
(* truncations).                                                              *)
Fair(c, r, x) ==
    LET back == IF c = "USD" THEN "PEN" ELSE "USD" IN
    AppliedRate("USD", r) > 0 =>
        /\ CostMicros(c, r, x) >= 0
        /\ ToMicros(back, r, ToMicros(c, r, x)) <= x

FairQuotes == \A r, x \in FairFor, c \in {"USD", "PEN"} : Fair(c, r, x)

(* Whoever was told that a quote was converted finds it converted once, at    *)
(* the amounts they were shown, and is told so again however late they ask    *)
(* (Service.Convert: UPDATE before the answer, and the expiry that gives way  *)
(* to it).                                                                    *)
ConversionsStayAnswered ==
    \A q \in converted :
        /\ quotes[q].transaction
        /\ <<"fx", q>> \in DOMAIN core /\ core[<<"fx", q>>] = ConversionOf(quotes[q])

(* An exchange leaves the bank no loss and nobody richer by going there and   *)
(* back, and stays what its customer was told (Service.Quote, Convert).       *)
ExchangesAreFair == FairQuotes /\ ConversionsStayAnswered
=============================================================================
