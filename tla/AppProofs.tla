------------------------------- MODULE AppProofs -------------------------------
(* Proofs about what the app of the bank does: how a person becomes a customer   *)
(* (Onboarding), how a customer is recognised afterwards (Identity), and what    *)
(* the screens say of an account (Screens).  For any customers, phones, passkeys *)
(* and requests at once a ticket works once, the guesses of a PIN are bounded,   *)
(* and what was taken away lets nobody in; for any applications a decision is    *)
(* sustained by its file, and one document is approved once; and for any         *)
(* movements and sizes of a page a screen put together from several reads agrees *)
(* with a ledger that was.                                                       *)
EXTENDS Identity, Onboarding, Screens, Sums, FiniteSetTheorems, SequenceTheorems, TLAPS

(******************************************************************************)
(* Identity: for any customers, phones, passkeys and requests at once.        *)
(******************************************************************************)

IdentitySpec == InitIdentity /\ [][NextIdentity]_identityVars

Who == Customers \cup {"none"}

Purposes == {"register", "login", "confirm", "enrollment", "add_device", "passkey_login"}
Factors  == {"device_biometric", "biometric", "pin", "passkey"}

DeviceRow == [owner : Who, locked : BOOLEAN, revoked : BOOLEAN, fails : Nat]
TicketRow == [purpose : Purposes, device : Devices \cup {"none"}, customer : Who,
              op : Operations \cup {"none"}, usable : BOOLEAN]
SessionRow == [customer : Who, factor : Factors, ref : Devices \cup Credentials, live : BOOLEAN]

(* What a request may be doing.                                                 *)
Linking  == [at : {"register", "insert device", "device row", "insert passkey", "passkey row"},
             ticket : Nat, who : Who, first : BOOLEAN]
Proving  == [at : {"pin", "used"}, ticket : Nat, device : Devices,
             then : {"open", "confirmed"}, factor : Factors]
Opening  == [at : {"open"}, who : Who, factor : Factors, ref : Devices \cup Credentials]
Removing == [at : {"count phones", "count passkeys", "take away", "close"},
             who : Who, ref : Devices \cup Credentials, ways : Nat]
Handler  == {Idle} \cup Linking \cup Proving \cup Opening \cup Removing

TablesOK ==
    /\ DOMAIN devices \subseteq Devices /\ devices \in [DOMAIN devices -> DeviceRow]
    /\ DOMAIN passkeys \subseteq Credentials /\ passkeys \in [DOMAIN passkeys -> Who]
    /\ tickets \in Seq(TicketRow) /\ accepted \in Seq(Nat) /\ Len(accepted) = Len(tickets)
    /\ sessions \in Seq(SessionRow)

CallsOK ==
    /\ call \in [Calls -> Handler]
    /\ \A c \in Calls : /\ call[c].at \in {"pin", "used"} => call[c].device \in DOMAIN devices
                        /\ call[c].at = "register" => call[c].ticket \in DOMAIN tickets

IdentityTypeOK == TablesOK /\ CallsOK

(* A request that has consumed its ticket and not yet done what it was for is    *)
(* the only one, and nothing was done before.                                    *)
Pending(r) == r.at \in {"insert device", "device row", "insert passkey", "passkey row", "pin", "used"}

TicketsSpentOnce ==
    /\ \A n \in DOMAIN tickets : accepted[n] \in {0, 1} /\ (tickets[n].usable => accepted[n] = 0)
    /\ \A c \in Calls : Pending(call[c]) => /\ call[c].ticket \in DOMAIN tickets
                                            /\ ~tickets[call[c].ticket].usable
                                            /\ accepted[call[c].ticket] = 0
    /\ \A b, c \in Calls : Pending(call[b]) /\ Pending(call[c]) /\ call[b].ticket = call[c].ticket
                              => b = c

(* Of a locked phone, each wrong guess to come is of a request that is past the  *)
(* lock already.                                                                 *)
Guessing(d) == {c \in Calls : call[c].at = "pin" /\ call[c].device = d}

GuessesCounted ==
    \A d \in DOMAIN devices :
        /\ devices[d].fails >= MaxPINAttempts => devices[d].locked
        /\ devices[d].locked => devices[d].fails + Cardinality(Guessing(d))
                                    < MaxPINAttempts + Cardinality(Calls)

(* The inductive invariant.                                                      *)
DInv == IdentityTypeOK /\ TicketsSpentOnce /\ GuessesCounted

-------------------------------------------------------------------------------
LEMMA GotoMoves ==
    ASSUME call \in [Calls -> Handler], NEW c \in Calls, NEW next \in Handler, Goto(c, next)
    PROVE  /\ call' \in [Calls -> Handler] /\ call'[c] = next
           /\ \A b \in Calls \ {c} : call'[b] = call[b]
BY DEF Goto

(* The handler of a step is of the kind its place says.                         *)
LEMMA KindOfHandler ==
    ASSUME IdentityTypeOK, NEW c \in Calls
    PROVE  /\ call[c].at \in {"register", "insert device", "device row", "insert passkey", "passkey row"}
                 => call[c] \in Linking
           /\ call[c].at \in {"pin", "used"} => call[c] \in Proving
           /\ call[c].at = "open" => call[c] \in Opening
           /\ call[c].at \in {"count phones", "count passkeys", "take away", "close"}
                 => call[c] \in Removing
<1>1. call[c] \in {Idle} \cup Linking \cup Proving \cup Opening \cup Removing
  BY DEF IdentityTypeOK, CallsOK, Handler
<1>2. /\ Idle.at = "idle"
      /\ \A r \in Linking : r.at \in {"register", "insert device", "device row", "insert passkey", "passkey row"}
      /\ \A r \in Proving : r.at \in {"pin", "used"}
      /\ \A r \in Opening : r.at = "open"
      /\ \A r \in Removing : r.at \in {"count phones", "count passkeys", "take away", "close"}
  BY DEF Linking, Proving, Opening, Removing, Idle
<1> HIDE DEF Linking, Proving, Opening, Removing, Idle
<1> QED BY <1>1, <1>2

LEMMA InitIdentityInv == InitIdentity => DInv
<1> SUFFICES ASSUME InitIdentity PROVE DInv
  OBVIOUS
<1>1. PICK old \in SUBSET Customers, d \in Devices, k \in Credentials :
         /\ devices  = [x \in IF old = {} THEN {} ELSE {d} |-> NewDevice(CHOOSE who \in old : TRUE)]
         /\ passkeys = [x \in IF old = {} THEN {} ELSE {k} |-> CHOOSE who \in old : TRUE]
  BY DEF InitIdentity
<1>2. old # {} => (CHOOSE who \in old : TRUE) \in Customers
  OBVIOUS
<1>3. /\ DOMAIN devices \subseteq Devices /\ devices \in [DOMAIN devices -> DeviceRow]
      /\ DOMAIN passkeys \subseteq Credentials /\ passkeys \in [DOMAIN passkeys -> Who]
  <2>1. CASE old = {}
    <3>1. devices \in [{} -> DeviceRow] /\ passkeys \in [{} -> Who] /\ DOMAIN devices = {} /\ DOMAIN passkeys = {}
      BY <1>1, <2>1
    <3> QED BY <3>1
  <2>2. CASE old # {}
    <3>1. NewDevice(CHOOSE who \in old : TRUE) \in DeviceRow /\ (CHOOSE who \in old : TRUE) \in Who
      BY <1>2, <2>2 DEF NewDevice, DeviceRow, Who
    <3> QED BY <1>1, <2>2, <3>1
  <2> QED BY <2>1, <2>2
<1>4. /\ tickets = << >> /\ accepted = << >> /\ sessions = << >>
      /\ call = [c \in Calls |-> Idle] /\ \A c \in Calls : call[c].at = "idle"
  BY DEF InitIdentity, Idle
<1>5. tickets \in Seq(TicketRow) /\ accepted \in Seq(Nat) /\ Len(accepted) = Len(tickets) /\ sessions \in Seq(SessionRow)
  BY <1>4
<1>6. call \in [Calls -> Handler]
  BY <1>4 DEF Handler
<1>7. IdentityTypeOK
  BY <1>3, <1>4, <1>5, <1>6 DEF IdentityTypeOK, TablesOK, CallsOK
<1>8. TicketsSpentOnce
  <2>1. \A c \in Calls : ~Pending(call[c])
    BY <1>4 DEF Pending
  <2>2. Len(tickets) = 0 /\ tickets \in Seq(TicketRow)
    BY <1>4
  <2>3. DOMAIN tickets = {}
    BY <2>2
  <2> QED BY <2>1, <2>3 DEF TicketsSpentOnce
<1>9. GuessesCounted
  <2>1. \A x \in DOMAIN devices : devices[x].fails = 0 /\ ~devices[x].locked
    BY <1>1 DEF NewDevice
  <2> QED BY <2>1, IdentityAssumption DEF GuessesCounted
<1> QED BY <1>7, <1>8, <1>9 DEF DInv

LEMMA GuessingIsFinite ==
    /\ Cardinality(Calls) \in Nat
    /\ \A d : /\ IsFiniteSet(Guessing(d)) /\ Cardinality(Guessing(d)) \in Nat
              /\ Cardinality(Guessing(d)) <= Cardinality(Calls)
<1>1. IsFiniteSet(Calls)
  BY IdentityAssumption
<1>2. \A d : Guessing(d) \subseteq Calls
  BY DEF Guessing
<1>3. ASSUME NEW d PROVE IsFiniteSet(Guessing(d)) /\ Cardinality(Guessing(d)) <= Cardinality(Calls)
  BY <1>1, <1>2, FS_Subset
<1> QED BY <1>1, <1>3, FS_CardinalityType

(* Where a phone's guesses and lock are what they were, or it has none, and no   *)
(* request has come to guess at a locked one, the count stands.                  *)
LEMMA GuessesStay ==
    ASSUME DInv, NEW c \in Calls, NEW next \in Handler, Goto(c, next),
           next.at = "pin" => next.device \in DOMAIN devices /\ ~devices[next.device].locked,
           \A d \in DOMAIN devices' :
              \/ devices'[d].fails = 0
              \/ /\ d \in DOMAIN devices
                 /\ devices'[d].fails = devices[d].fails /\ devices'[d].locked = devices[d].locked
    PROVE  GuessesCounted'
<1>1. /\ call' \in [Calls -> Handler] /\ call'[c] = next
      /\ \A b \in Calls \ {c} : call'[b] = call[b]
  BY GotoMoves DEF DInv, IdentityTypeOK, CallsOK
<1> SUFFICES ASSUME NEW d \in DOMAIN devices'
             PROVE  /\ devices'[d].fails >= MaxPINAttempts => devices'[d].locked
                    /\ devices'[d].locked => devices'[d].fails + Cardinality(Guessing(d))'
                                                < MaxPINAttempts + Cardinality(Calls)
  BY DEF GuessesCounted
<1>2. /\ Cardinality(Guessing(d))' \in Nat /\ Cardinality(Guessing(d)) \in Nat
      /\ Cardinality(Calls) \in Nat /\ Cardinality(Guessing(d))' <= Cardinality(Calls)
  <2>1. Guessing(d)' \subseteq Calls
    BY DEF Guessing
  <2>2. Cardinality(Guessing(d)') \in Nat /\ Cardinality(Guessing(d)') <= Cardinality(Calls)
    BY <2>1, IdentityAssumption, FS_Subset, FS_CardinalityType
  <2> QED BY <2>2, GuessingIsFinite
<1>3. CASE devices'[d].fails = 0
  BY <1>2, <1>3, IdentityAssumption
<1>4. CASE /\ d \in DOMAIN devices
           /\ devices'[d].fails = devices[d].fails /\ devices'[d].locked = devices[d].locked
  <2>1. ASSUME devices[d].locked PROVE Cardinality(Guessing(d))' <= Cardinality(Guessing(d))
    <3>1. Guessing(d)' \subseteq Guessing(d)
      BY <1>1, <2>1 DEF Guessing
    <3> QED BY <3>1, GuessingIsFinite, FS_Subset
  <2>2. devices[d].fails \in Nat
    BY <1>4 DEF DInv, IdentityTypeOK, TablesOK, DeviceRow
  <2> QED BY <1>2, <1>4, <2>1, <2>2, IdentityAssumption DEF DInv, GuessesCounted
<1> QED BY <1>3, <1>4

(* Where a request goes on, or ends, without touching the tickets.               *)
LEMMA TicketsStay ==
    ASSUME DInv, NEW c \in Calls, NEW next \in Handler, Goto(c, next),
           UNCHANGED <<tickets, accepted>>,
           Pending(next) => Pending(call[c]) /\ next.ticket = call[c].ticket
    PROVE  TicketsSpentOnce'
<1>1. /\ call' \in [Calls -> Handler] /\ call'[c] = next
      /\ \A b \in Calls \ {c} : call'[b] = call[b]
  BY GotoMoves DEF DInv, IdentityTypeOK, CallsOK
<1>2. \A b \in Calls : Pending(call'[b]) => Pending(call[b]) /\ call'[b].ticket = call[b].ticket
  BY <1>1
<1> HIDE DEF Pending
<1> QED BY <1>2 DEF DInv, TicketsSpentOnce

LEMMA CallsStay ==
    ASSUME DInv, NEW c \in Calls, NEW next \in Handler, Goto(c, next),
           DOMAIN devices \subseteq DOMAIN devices', DOMAIN tickets \subseteq DOMAIN tickets',
           next.at \in {"pin", "used"} => next.device \in DOMAIN devices,
           next.at = "register" => next.ticket \in DOMAIN tickets
    PROVE  CallsOK'
<1>1. /\ call' \in [Calls -> Handler] /\ call'[c] = next
      /\ \A b \in Calls \ {c} : call'[b] = call[b]
  BY GotoMoves DEF DInv, IdentityTypeOK, CallsOK
<1> QED BY <1>1 DEF DInv, IdentityTypeOK, CallsOK

(* A request that reads, or ends.                                                *)
LEMMA ReadingKeeps ==
    ASSUME DInv, NEW c \in Calls, NEW next \in Handler, Goto(c, next), UNCHANGED tables,
           Pending(next) => Pending(call[c]) /\ next.ticket = call[c].ticket,
           next.at \notin {"pin", "used"},
           next.at = "register" => next.ticket \in DOMAIN tickets
    PROVE  DInv'
<1>1. UNCHANGED <<devices, passkeys, tickets, sessions, accepted>>
  BY DEF tables
<1>2. TablesOK'
  BY <1>1 DEF DInv, IdentityTypeOK, TablesOK
<1>3. CallsOK' /\ TicketsSpentOnce' /\ GuessesCounted'
  BY <1>1, CallsStay, TicketsStay, GuessesStay
<1> QED BY <1>2, <1>3 DEF DInv, IdentityTypeOK

LEMMA SpentTicket ==
    ASSUME NEW row \in TicketRow
    PROVE  [row EXCEPT !.usable = FALSE] \in TicketRow /\ [row EXCEPT !.usable = FALSE].usable = FALSE
BY DEF TicketRow

(* A request that presents a ticket: it goes on only if it was good for that,    *)
(* and then nobody else does.                                                    *)
LEMMA PresentingKeeps ==
    ASSUME DInv, NEW c \in Calls, NEW next \in Handler, NEW n \in DOMAIN tickets, Goto(c, next),
           UNCHANGED <<devices, passkeys, sessions, accepted>>,
           tickets' \in {tickets, [tickets EXCEPT ![n].usable = FALSE]},
           next.at # "register",
           Pending(next) => /\ tickets[n].usable /\ next.ticket = n
                            /\ tickets' = [tickets EXCEPT ![n].usable = FALSE],
           next.at \in {"pin", "used"} => next.device \in DOMAIN devices /\ ~devices[next.device].locked
    PROVE  DInv'
<1>1. /\ call' \in [Calls -> Handler] /\ call'[c] = next
      /\ \A b \in Calls \ {c} : call'[b] = call[b]
  BY GotoMoves DEF DInv, IdentityTypeOK, CallsOK
<1>2. /\ tickets' \in Seq(TicketRow) /\ Len(tickets') = Len(tickets)
      /\ DOMAIN tickets' = DOMAIN tickets
      /\ \A m \in DOMAIN tickets : tickets'[m].usable => tickets[m].usable
      /\ Pending(next) => ~tickets'[n].usable
  <2>1. tickets \in Seq(TicketRow) /\ DOMAIN tickets = 1 .. Len(tickets)
    BY DEF DInv, IdentityTypeOK, TablesOK
  <2>2. tickets[n] \in TicketRow
    BY <2>1
  <2> DEFINE spent == [tickets[n] EXCEPT !.usable = FALSE]
  <2>3. tickets' = tickets \/ tickets' = [tickets EXCEPT ![n] = spent]
    BY Zenon
  <2> HIDE DEF spent
  <2>4. spent \in TicketRow /\ spent.usable = FALSE
    BY <2>2, SpentTicket DEF spent
  <2>5. CASE tickets' = tickets /\ ~Pending(next)
    BY <2>1, <2>5
  <2>6. CASE tickets' = [tickets EXCEPT ![n] = spent]
    <3>1. tickets' \in Seq(TicketRow) /\ Len(tickets') = Len(tickets) /\ DOMAIN tickets' = DOMAIN tickets
      BY <2>1, <2>4, <2>6
    <3>2. tickets'[n] = spent /\ \A m \in DOMAIN tickets \ {n} : tickets'[m] = tickets[m]
      BY <2>1, <2>6
    <3> QED BY <2>4, <3>1, <3>2
  <2>7. Pending(next) => tickets' = [tickets EXCEPT ![n] = spent]
    BY DEF spent
  <2> QED BY <2>3, <2>5, <2>6, <2>7
<1>3. TablesOK'
  BY <1>2 DEF DInv, IdentityTypeOK, TablesOK
<1>4. CallsOK' /\ GuessesCounted'
  BY <1>2, CallsStay, GuessesStay
<1>5. TicketsSpentOnce'
  <2>1. ASSUME NEW b \in Calls, Pending(call[b]) PROVE Pending(next) => call[b].ticket # n
    BY <2>1 DEF DInv, TicketsSpentOnce
  <2>2. ASSUME NEW b \in Calls, Pending(call'[b])
        PROVE  /\ call'[b].ticket \in DOMAIN tickets' /\ ~tickets'[call'[b].ticket].usable
               /\ accepted'[call'[b].ticket] = 0
    <3>1. CASE b = c
      BY <1>1, <1>2, <2>2, <3>1 DEF DInv, TicketsSpentOnce
    <3>2. CASE b # c
      BY <1>1, <1>2, <2>2, <3>2 DEF DInv, TicketsSpentOnce
    <3> QED BY <3>1, <3>2
  <2>3. ASSUME NEW a \in Calls, NEW b \in Calls, Pending(call'[a]), Pending(call'[b]),
               call'[a].ticket = call'[b].ticket
        PROVE  a = b
    <3>1. CASE a = c \/ b = c
      BY <1>1, <2>1, <2>3, <3>1
    <3>2. CASE a # c /\ b # c
      BY <1>1, <2>3, <3>2 DEF DInv, TicketsSpentOnce
    <3> QED BY <3>1, <3>2
  <2>4. \A m \in DOMAIN tickets' : accepted'[m] \in {0, 1} /\ (tickets'[m].usable => accepted'[m] = 0)
    BY <1>2 DEF DInv, TicketsSpentOnce
  <2> QED BY <2>2, <2>3, <2>4 DEF TicketsSpentOnce
<1> QED BY <1>3, <1>4, <1>5 DEF DInv, IdentityTypeOK

(* A request that does what its ticket was for.                                  *)
LEMMA AcceptingKeeps ==
    ASSUME DInv, NEW c \in Calls, NEW next \in Handler, Goto(c, next), UNCHANGED tickets,
           Pending(call[c]), Accept(call[c].ticket), ~Pending(next)
    PROVE  /\ accepted' \in Seq(Nat) /\ Len(accepted') = Len(accepted)
           /\ TicketsSpentOnce'
<1> DEFINE n == call[c].ticket
<1>1. /\ call' \in [Calls -> Handler] /\ call'[c] = next
      /\ \A b \in Calls \ {c} : call'[b] = call[b]
  BY GotoMoves DEF DInv, IdentityTypeOK, CallsOK
<1>2. n \in DOMAIN tickets /\ ~tickets[n].usable /\ accepted[n] = 0
  BY DEF DInv, TicketsSpentOnce
<1>3. /\ accepted \in Seq(Nat) /\ DOMAIN accepted = DOMAIN tickets
      /\ accepted' = [accepted EXCEPT ![n] = @ + 1]
  BY DEF Accept, DInv, IdentityTypeOK, TablesOK
<1>4. /\ accepted' \in Seq(Nat) /\ Len(accepted') = Len(accepted) /\ accepted'[n] = 1
      /\ \A m \in DOMAIN tickets \ {n} : accepted'[m] = accepted[m]
  BY <1>2, <1>3
<1>5. \A b \in Calls : Pending(call'[b]) => Pending(call[b]) /\ b # c /\ call'[b] = call[b]
                                            /\ call[b].ticket # n
  BY <1>1 DEF DInv, TicketsSpentOnce
<1> HIDE DEF Pending
<1>6. TicketsSpentOnce'
  BY <1>2, <1>4, <1>5 DEF DInv, TicketsSpentOnce
<1> QED BY <1>4, <1>6

LEMMA IssueKeeps ==
    ASSUME DInv, NEW ticket \in TicketRow, IssueTicket(ticket)
    PROVE  DInv'
<1>1. /\ tickets \in Seq(TicketRow) /\ accepted \in Seq(Nat) /\ Len(accepted) = Len(tickets)
      /\ tickets' = Append(tickets, ticket) /\ accepted' = Append(accepted, 0)
      /\ UNCHANGED <<devices, passkeys, sessions, call>>
  BY DEF IssueTicket, DInv, IdentityTypeOK, TablesOK
<1>2. /\ tickets' \in Seq(TicketRow) /\ accepted' \in Seq(Nat) /\ Len(accepted') = Len(tickets')
      /\ DOMAIN tickets' = DOMAIN tickets \cup {Len(tickets) + 1}
      /\ Len(tickets) + 1 \notin DOMAIN tickets
      /\ \A n \in DOMAIN tickets : tickets'[n] = tickets[n] /\ accepted'[n] = accepted[n]
      /\ accepted'[Len(tickets) + 1] = 0
  BY <1>1
<1>3. IdentityTypeOK'
  BY <1>1, <1>2 DEF DInv, IdentityTypeOK, TablesOK, CallsOK
<1>4. TicketsSpentOnce'
  <2>1. \A n \in DOMAIN tickets' : accepted'[n] \in {0, 1} /\ (tickets'[n].usable => accepted'[n] = 0)
    BY <1>2 DEF DInv, TicketsSpentOnce
  <2>2. \A c \in Calls : Pending(call'[c]) => /\ call'[c].ticket \in DOMAIN tickets'
                                              /\ ~tickets'[call'[c].ticket].usable
                                              /\ accepted'[call'[c].ticket] = 0
    BY <1>1, <1>2 DEF DInv, TicketsSpentOnce
  <2>3. \A b, c \in Calls : Pending(call'[b]) /\ Pending(call'[c]) /\ call'[b].ticket = call'[c].ticket
                              => b = c
    BY <1>1 DEF DInv, TicketsSpentOnce
  <2> QED BY <2>1, <2>2, <2>3 DEF TicketsSpentOnce
<1>5. GuessesCounted'
  BY <1>1 DEF DInv, GuessesCounted, Guessing
<1> QED BY <1>3, <1>4, <1>5 DEF DInv

-------------------------------------------------------------------------------
(* The steps, one by one.                                                        *)
LEMMA TicketIsRow ==
    ASSUME NEW purpose \in Purposes, NEW device \in Devices \cup {"none"}, NEW who \in Who,
           NEW op \in Operations \cup {"none"}
    PROVE  Ticket(purpose, device, who, op) \in TicketRow
BY DEF Ticket, TicketRow

LEMMA OpenIsHandler ==
    ASSUME NEW who \in Who, NEW factor \in Factors, NEW ref \in Devices \cup Credentials,
           NEW next, next = [at |-> "open", who |-> who, factor |-> factor, ref |-> ref]
    PROVE  next \in Handler /\ next.at = "open" /\ ~Pending(next)
<1>1. next \in Opening /\ next.at = "open"
  BY DEF Opening
<1> QED BY <1>1 DEF Handler, Pending

LEMMA IdleIsHandler == Idle \in Handler /\ Idle.at = "idle" /\ ~Pending(Idle)
BY DEF Handler, Idle, Pending

LEMMA BeginKeeps == ASSUME DInv, Begin PROVE DInv'
<1>1. /\ Ticket("register", "none", "none", "none") \in TicketRow
      /\ Ticket("passkey_login", "none", "none", "none") \in TicketRow
      /\ \A d \in Devices : Ticket("login", d, "none", "none") \in TicketRow
      /\ \A d \in Devices, op \in Operations : Ticket("confirm", d, "none", op) \in TicketRow
      /\ \A who \in Customers : /\ Ticket("enrollment", "none", who, "none") \in TicketRow
                                /\ Ticket("add_device", "none", who, "none") \in TicketRow
  <2>1. /\ "register" \in Purposes /\ "passkey_login" \in Purposes /\ "login" \in Purposes
        /\ "confirm" \in Purposes /\ "enrollment" \in Purposes /\ "add_device" \in Purposes
    BY DEF Purposes
  <2>2. "none" \in Who /\ Customers \subseteq Who
    BY DEF Who
  <2> QED BY <2>1, <2>2, TicketIsRow
<1> HIDE DEF Ticket, TicketRow
<1> QED BY <1>1, IssueKeeps DEF Begin, BeginRegistration, BeginPasskeyLogin, BeginLogin,
                                BeginConfirmation, BeginEnrollment, BeginAddDevice

LEMMA RegistrationKeeps ==
    ASSUME DInv, NEW c \in Calls, NEW n \in DOMAIN tickets, NEW who \in Customers,
           handleDeviceRegistration(c, n, who)
    PROVE  DInv'
<1> DEFINE next(first) == [at |-> "register", ticket |-> n, who |-> who, first |-> first]
<1>1. PICK first \in BOOLEAN : Goto(c, next(first))
  BY DEF handleDeviceRegistration, AddDevice, EnrollWithReference
<1>2. n \in Nat
  BY DEF DInv, IdentityTypeOK, TablesOK
<1>3. next(first) \in Handler /\ ~Pending(next(first)) /\ next(first).at = "register" /\ next(first).ticket = n
  BY <1>2 DEF Handler, Linking, Pending, Who
<1> HIDE DEF next
<1> QED BY <1>1, <1>3, ReadingKeeps DEF handleDeviceRegistration

LEMMA RegisterKeeps == ASSUME DInv, NEW c \in Calls, register(c) PROVE DInv'
<1> DEFINE n == call[c].ticket
           next == [call[c] EXCEPT !.at = "insert device"]
<1>1. call[c] \in Linking /\ n \in DOMAIN tickets
  BY KindOfHandler DEF register, At, DInv, IdentityTypeOK, CallsOK
<1>2. next \in Handler /\ next.ticket = n /\ next.at = "insert device"
  BY <1>1 DEF Handler, Linking
<1>3. Idle \in Handler /\ Idle.at = "idle" /\ ~Pending(Idle)
  BY IdleIsHandler
<1>4. tickets' \in {tickets, [tickets EXCEPT ![n].usable = FALSE]}
  BY DEF register, consumeChallenge
<1>5. CASE Goto(c, Idle)
  BY <1>1, <1>3, <1>4, <1>5, PresentingKeeps DEF register
<1>6. CASE Goto(c, next) /\ Consumed(n, {"register"})
  <2>1. tickets[n].usable /\ tickets' = [tickets EXCEPT ![n].usable = FALSE]
    BY <1>6 DEF register, consumeChallenge, Consumed
  <2> QED BY <1>1, <1>2, <1>4, <1>6, <2>1, PresentingKeeps DEF register
<1> QED BY <1>5, <1>6 DEF register, Return

LEMMA InsertSeesKeeps == ASSUME DInv, NEW c \in Calls, InsertSees(c) PROVE DInv'
<1> DEFINE next == [call[c] EXCEPT !.at = IF @ = "insert device" THEN "device row" ELSE "passkey row"]
<1>1. call[c] \in Linking /\ Pending(call[c])
  BY KindOfHandler DEF InsertSees, DInv, IdentityTypeOK, Pending
<1>2. next \in Handler /\ next.ticket = call[c].ticket /\ next.at \in {"device row", "passkey row"}
  BY <1>1 DEF Handler, Linking
<1>3. Idle \in Handler /\ Idle.at = "idle" /\ ~Pending(Idle)
  BY IdleIsHandler
<1>4. Goto(c, next) \/ Goto(c, Idle)
  BY DEF InsertSees, Return
<1> HIDE DEF next
<1> QED BY <1>1, <1>2, <1>3, <1>4, ReadingKeeps DEF InsertSees

LEMMA InsertDeviceKeeps == ASSUME DInv, NEW c \in Calls, insertDevice(c) PROVE DInv'
<1>1. PICK d \in Devices \ DOMAIN devices :
        /\ devices' = [x \in DOMAIN devices \cup {d} |->
                           IF x = d THEN NewDevice(call[c].who) ELSE devices[x]]
        /\ Goto(c, [at |-> "open", who |-> call[c].who, factor |-> "device_biometric", ref |-> d])
  BY DEF insertDevice
<1> DEFINE next == [at |-> "open", who |-> call[c].who, factor |-> "device_biometric", ref |-> d]
<1>2. call[c] \in Linking /\ call[c].who \in Who /\ Pending(call[c])
  BY KindOfHandler DEF insertDevice, At, DInv, IdentityTypeOK, Linking, Pending
<1>3. next \in Handler /\ next.at = "open" /\ ~Pending(next)
  <2>1. "device_biometric" \in Factors
    BY DEF Factors
  <2>2. d \in Devices \cup Credentials
    OBVIOUS
  <2> QED BY <1>2, <2>1, <2>2, OpenIsHandler
<1> HIDE DEF next
<1>4. Goto(c, next) /\ Accept(call[c].ticket) /\ UNCHANGED <<passkeys, tickets, sessions>>
  BY <1>1 DEF insertDevice, next
<1>5. NewDevice(call[c].who) \in DeviceRow /\ NewDevice(call[c].who).fails = 0
  BY <1>2 DEF NewDevice, DeviceRow
<1>6. /\ DOMAIN devices' = DOMAIN devices \cup {d} /\ devices'[d] = NewDevice(call[c].who)
      /\ \A x \in DOMAIN devices : devices'[x] = devices[x]
  BY <1>1
<1>7. devices' \in [DOMAIN devices' -> DeviceRow] /\ DOMAIN devices' \subseteq Devices
  BY <1>1, <1>5, <1>6 DEF DInv, IdentityTypeOK, TablesOK
<1>8. accepted' \in Seq(Nat) /\ Len(accepted') = Len(accepted) /\ TicketsSpentOnce'
  BY <1>2, <1>3, <1>4, AcceptingKeeps
<1>9. TablesOK'
  BY <1>4, <1>7, <1>8 DEF DInv, IdentityTypeOK, TablesOK
<1>10. CallsOK'
  BY <1>3, <1>4, <1>6, CallsStay
<1>11. GuessesCounted'
  <2>1. \A x \in DOMAIN devices' :
              \/ devices'[x].fails = 0
              \/ /\ x \in DOMAIN devices
                 /\ devices'[x].fails = devices[x].fails /\ devices'[x].locked = devices[x].locked
    BY <1>5, <1>6
  <2> QED BY <1>3, <1>4, <2>1, GuessesStay
<1> QED BY <1>8, <1>9, <1>10, <1>11 DEF DInv, IdentityTypeOK

(* What a request does once a phone's signature was good.                        *)
LEMMA SignedIsHandler ==
    ASSUME DInv, NEW n \in DOMAIN tickets, tickets[n].device \in Devices,
           NEW method \in {"biometric", "pin"}, NEW then \in {"open", "confirmed"},
           NEW next, next = [at |-> IF method = "pin" THEN "pin" ELSE "used", ticket |-> n,
                             device |-> tickets[n].device, then |-> then, factor |-> method]
    PROVE  /\ next \in Handler /\ next.at \in {"pin", "used"} /\ next.ticket = n
           /\ next.device = tickets[n].device /\ next.at # "register"
<1>1. n \in Nat
  BY DEF DInv, IdentityTypeOK, TablesOK
<1>2. next \in Proving
  BY <1>1 DEF Proving, Factors
<1> QED BY <1>2 DEF Handler

LEMMA SigningKeeps ==
    ASSUME DInv, NEW c \in Calls, NEW n \in DOMAIN tickets, NEW purpose \in Purposes,
           UNCHANGED <<devices, passkeys, sessions, accepted>>,
           consumeChallenge(n, purpose),
           \/ Goto(c, Idle)
           \/ \E method \in {"biometric", "pin"}, then \in {"open", "confirmed"} :
                 /\ Consumed(n, {purpose}) /\ usable(tickets[n].device)
                 /\ Signed(c, n, method, then)
    PROVE  DInv'
<1>1. tickets' \in {tickets, [tickets EXCEPT ![n].usable = FALSE]}
  BY DEF consumeChallenge
<1>2. CASE Goto(c, Idle)
  BY <1>1, <1>2, IdleIsHandler, PresentingKeeps
<1>3. CASE \E method \in {"biometric", "pin"}, then \in {"open", "confirmed"} :
             /\ Consumed(n, {purpose}) /\ usable(tickets[n].device) /\ Signed(c, n, method, then)
  <2>1. PICK method \in {"biometric", "pin"}, then \in {"open", "confirmed"} :
             /\ Consumed(n, {purpose}) /\ usable(tickets[n].device) /\ Signed(c, n, method, then)
    BY <1>3
  <2> DEFINE next == [at |-> IF method = "pin" THEN "pin" ELSE "used", ticket |-> n,
                      device |-> tickets[n].device, then |-> then, factor |-> method]
  <2>2. tickets[n].device \in DOMAIN devices /\ ~devices[tickets[n].device].locked
    BY <2>1 DEF usable
  <2>3. tickets[n].device \in Devices
    BY <2>2 DEF DInv, IdentityTypeOK, TablesOK
  <2>4. Goto(c, next)
    BY <2>1 DEF Signed
  <2>5. /\ next \in Handler /\ next.at \in {"pin", "used"} /\ next.ticket = n
        /\ next.device = tickets[n].device /\ next.at # "register"
    BY <2>3, SignedIsHandler
  <2>6. tickets[n].usable /\ tickets' = [tickets EXCEPT ![n].usable = FALSE]
    BY <2>1 DEF Consumed, consumeChallenge
  <2> HIDE DEF next
  <2> QED BY <1>1, <2>2, <2>4, <2>5, <2>6, PresentingKeeps
<1> QED BY <1>2, <1>3

LEMMA LoginKeeps ==
    ASSUME DInv, NEW c \in Calls, NEW n \in DOMAIN tickets, handleDeviceLogin(c, n)
    PROVE  DInv'
<1>1. "login" \in Purposes
  BY DEF Purposes
<1>2. CASE Goto(c, Idle)
  BY <1>1, <1>2, SigningKeeps DEF handleDeviceLogin
<1>3. CASE LoginWithBiometrics(c, n) \/ LoginWithPIN(c, n)
  BY <1>1, <1>3, SigningKeeps DEF handleDeviceLogin, LoginWithBiometrics, LoginWithPIN, loginDevice
<1> QED BY <1>2, <1>3 DEF handleDeviceLogin, Return

LEMMA ConfirmKeeps ==
    ASSUME DInv, NEW c \in Calls, NEW n \in DOMAIN tickets, NEW who \in Customers, NEW d \in Devices,
           NEW op \in Operations, Confirm(c, who, d, n, op)
    PROVE  DInv'
<1>1. "confirm" \in Purposes
  BY DEF Purposes
<1> QED BY <1>1, SigningKeeps DEF Confirm, Return

LEMMA FailedRow ==
    \A old \in DeviceRow, falls \in BOOLEAN :
        LET row == [old EXCEPT !.fails = @ + 1, !.locked = falls]
        IN  row \in DeviceRow /\ row.fails = old.fails + 1 /\ old.fails \in Nat /\ row.locked = falls
<1> SUFFICES ASSUME NEW old \in DeviceRow, NEW falls \in BOOLEAN,
                    NEW row, row = [old EXCEPT !.fails = @ + 1, !.locked = falls]
             PROVE  row \in DeviceRow /\ row.fails = old.fails + 1 /\ old.fails \in Nat /\ row.locked = falls
  BY Zenon
<1>1. /\ old.owner \in Who /\ old.revoked \in BOOLEAN /\ old.fails \in Nat
      /\ old = [owner |-> old.owner, locked |-> old.locked, revoked |-> old.revoked, fails |-> old.fails]
  BY DEF DeviceRow
<1>2. row = [owner |-> old.owner, locked |-> falls, revoked |-> old.revoked, fails |-> old.fails + 1]
  BY <1>1
<1>3. old.fails + 1 \in Nat
  BY <1>1
<1> QED BY <1>1, <1>2, <1>3 DEF DeviceRow

LEMMA CheckPINKeeps == ASSUME DInv, NEW c \in Calls, checkPIN(c) PROVE DInv'
<1>0. PICK d : d = call[c].device
  OBVIOUS
<1>1. /\ call[c] \in Proving /\ call[c].at = "pin" /\ Pending(call[c]) /\ d \in DOMAIN devices
      /\ c \in Guessing(d)
  BY <1>0, KindOfHandler DEF checkPIN, At, DInv, IdentityTypeOK, CallsOK, Pending, Guessing
<1>2. UNCHANGED <<passkeys, tickets, sessions, accepted>>
  BY DEF checkPIN
<1>3. CASE Goto(c, [call[c] EXCEPT !.at = "used"]) /\ UNCHANGED devices
  <2> DEFINE next == [call[c] EXCEPT !.at = "used"]
  <2>1. /\ next \in Handler /\ next.at = "used" /\ next.ticket = call[c].ticket
        /\ next.device = d
    BY <1>0, <1>1 DEF Handler, Proving
  <2> HIDE DEF next
  <2>2. Goto(c, next)
    BY <1>3 DEF next
  <2>3. CallsOK' /\ TicketsSpentOnce' /\ GuessesCounted'
    BY <1>1, <1>2, <1>3, <2>1, <2>2, CallsStay, TicketsStay, GuessesStay
  <2>4. TablesOK'
    BY <1>2, <1>3 DEF DInv, IdentityTypeOK, TablesOK
  <2> QED BY <2>3, <2>4 DEF DInv, IdentityTypeOK
<1>4. CASE failPIN(d) /\ Goto(c, Idle)
  <2>1. devices \in [DOMAIN devices -> DeviceRow] /\ devices[d] \in DeviceRow
    BY <1>1 DEF DInv, IdentityTypeOK, TablesOK
  <2> DEFINE falls == devices[d].locked \/ devices[d].fails + 1 >= MaxPINAttempts
             row   == [devices[d] EXCEPT !.fails = @ + 1, !.locked = falls]
  <2>2. devices' = [devices EXCEPT ![d] = row]
    BY <1>1, <1>4, <2>1 DEF failPIN, DeviceRow
  <2>3. /\ row \in DeviceRow /\ row.fails = devices[d].fails + 1 /\ devices[d].fails \in Nat
        /\ row.locked = falls
    <3>1. falls \in BOOLEAN
      OBVIOUS
    <3> HIDE DEF falls
    <3> QED BY <2>1, <3>1, FailedRow, Zenon
  <2> HIDE DEF row
  <2>4. /\ DOMAIN devices' = DOMAIN devices /\ devices' \in [DOMAIN devices' -> DeviceRow]
        /\ devices'[d] = row /\ \A x \in DOMAIN devices \ {d} : devices'[x] = devices[x]
    BY <1>1, <2>1, <2>2, <2>3
  <2>5. TablesOK'
    BY <1>2, <2>4 DEF DInv, IdentityTypeOK, TablesOK
  <2>6. CallsOK' /\ TicketsSpentOnce'
    BY <1>2, <1>4, <2>4, IdleIsHandler, CallsStay, TicketsStay
  <2>7. /\ call' \in [Calls -> Handler] /\ call'[c].at = "idle"
        /\ \A b \in Calls \ {c} : call'[b] = call[b]
    BY <1>4, IdleIsHandler, GotoMoves DEF DInv, IdentityTypeOK, CallsOK
  <2>8. Guessing(d)' = Guessing(d) \ {c} /\ \A x : Guessing(x)' \subseteq Guessing(x)
    <3>1. \A b \in Calls : call'[b].at = "pin" => b # c /\ call'[b] = call[b]
      BY <2>7
    <3>2. \A b \in Calls : b # c => call'[b] = call[b]
      BY <2>7
    <3>3. \A x : Guessing(x)' \subseteq Guessing(x) \ {c}
      BY <3>1 DEF Guessing
    <3>4. Guessing(d) \ {c} \subseteq Guessing(d)'
      <4> SUFFICES ASSUME NEW b \in Calls, b # c, call[b].at = "pin", call[b].device = d
                   PROVE  call'[b].at = "pin" /\ call'[b].device = d
        BY DEF Guessing
      <4> QED BY <3>2
    <3> QED BY <3>3, <3>4
  <2>9. Cardinality(Guessing(d)') = Cardinality(Guessing(d)) - 1
    BY <1>1, <2>8, GuessingIsFinite, FS_RemoveElement
  <2>10. \A x : /\ Cardinality(Guessing(x)') <= Cardinality(Guessing(x)) /\ Cardinality(Guessing(x)') \in Nat
                /\ Cardinality(Guessing(x)) \in Nat /\ Cardinality(Guessing(x)) <= Cardinality(Calls)
                /\ Cardinality(Calls) \in Nat
    BY <2>8, GuessingIsFinite, FS_Subset, FS_CardinalityType
  <2>11. GuessesCounted'
    <3> SUFFICES ASSUME NEW x \in DOMAIN devices'
                 PROVE  /\ devices'[x].fails >= MaxPINAttempts => devices'[x].locked
                        /\ devices'[x].locked => devices'[x].fails + Cardinality(Guessing(x)')
                                                    < MaxPINAttempts + Cardinality(Calls)
      BY DEF GuessesCounted
    <3>1. CASE x = d
      <4>1. ~devices[d].locked => devices[d].fails < MaxPINAttempts
        BY <1>1, <2>3, IdentityAssumption DEF DInv, GuessesCounted
      <4>2. devices[d].locked => devices[d].fails + Cardinality(Guessing(d)) < MaxPINAttempts + Cardinality(Calls)
        BY <1>1 DEF DInv, GuessesCounted
      <4>3. devices'[x] = row /\ Guessing(x)' = Guessing(d)'
        BY <2>4, <3>1
      <4>4. /\ row.locked <=> (devices[d].locked \/ devices[d].fails + 1 >= MaxPINAttempts)
            /\ row.fails = devices[d].fails + 1 /\ devices[d].fails \in Nat
        BY <2>3
      <4> HIDE DEF falls
      <4>5. row.fails >= MaxPINAttempts => row.locked
        BY <4>4
      <4>6. row.fails + Cardinality(Guessing(d)') < MaxPINAttempts + Cardinality(Calls)
        <5>1. CASE devices[d].locked
          BY <2>9, <2>10, <4>2, <4>4, <5>1, IdentityAssumption
        <5>2. CASE ~devices[d].locked
          BY <2>9, <2>10, <4>1, <4>4, <5>2, IdentityAssumption
        <5> QED BY <5>1, <5>2
      <4> QED BY <4>3, <4>5, <4>6
    <3>2. CASE x # d
      <4>1. devices'[x] = devices[x] /\ x \in DOMAIN devices /\ devices[x].fails \in Nat
        BY <2>1, <2>4, <3>2 DEF DeviceRow
      <4>2. /\ devices[x].fails >= MaxPINAttempts => devices[x].locked
            /\ devices[x].locked => devices[x].fails + Cardinality(Guessing(x)) < MaxPINAttempts + Cardinality(Calls)
        BY <4>1 DEF DInv, GuessesCounted
      <4> QED BY <2>10, <4>1, <4>2, IdentityAssumption
    <3> QED BY <3>1, <3>2
  <2> QED BY <2>5, <2>6, <2>11 DEF DInv, IdentityTypeOK
<1> QED BY <1>0, <1>3, <1>4 DEF checkPIN, Return

LEMMA ChangedDevice ==
    ASSUME TablesOK, NEW d \in DOMAIN devices, NEW row \in DeviceRow,
           devices' = [devices EXCEPT ![d] = row]
    PROVE  /\ DOMAIN devices' = DOMAIN devices /\ devices' \in [DOMAIN devices' -> DeviceRow]
           /\ devices'[d] = row /\ \A x \in DOMAIN devices \ {d} : devices'[x] = devices[x]
BY DEF TablesOK

LEMMA MarkUsedKeeps == ASSUME DInv, NEW c \in Calls, markUsed(c) PROVE DInv'
<1>0. PICK d : d = call[c].device
  OBVIOUS
<1>1. call[c] \in Proving /\ Pending(call[c]) /\ d \in DOMAIN devices /\ d \in Devices
  BY <1>0, KindOfHandler DEF markUsed, At, DInv, IdentityTypeOK, CallsOK, TablesOK, Pending
<1>2. devices[d] \in DeviceRow
  BY <1>1 DEF DInv, IdentityTypeOK, TablesOK
<1> DEFINE row  == [devices[d] EXCEPT !.fails = 0]
           next == [at |-> "open", who |-> devices[d].owner, factor |-> call[c].factor, ref |-> d]
<1>3. row \in DeviceRow /\ row.fails = 0
  BY <1>2 DEF DeviceRow
<1>4. next \in Handler /\ next.at = "open" /\ ~Pending(next)
  <2>1. devices[d].owner \in Who /\ call[c].factor \in Factors
    BY <1>1, <1>2 DEF DeviceRow, Proving
  <2> QED BY <1>1, <2>1, OpenIsHandler
<1>5. /\ devices' = [devices EXCEPT ![d] = row] /\ Accept(call[c].ticket)
      /\ UNCHANGED <<passkeys, tickets, sessions>>
      /\ (Goto(c, next) \/ Goto(c, Idle))
  BY <1>0 DEF markUsed, Return
<1> HIDE DEF row, next
<1>6. /\ DOMAIN devices' = DOMAIN devices /\ devices' \in [DOMAIN devices' -> DeviceRow]
      /\ devices'[d] = row /\ \A x \in DOMAIN devices \ {d} : devices'[x] = devices[x]
  BY <1>1, <1>3, <1>5, ChangedDevice DEF DInv, IdentityTypeOK
<1>7. PICK to \in Handler : Goto(c, to) /\ to.at \notin {"pin", "used", "register"} /\ ~Pending(to)
  BY <1>4, <1>5, IdleIsHandler
<1>8. accepted' \in Seq(Nat) /\ Len(accepted') = Len(accepted) /\ TicketsSpentOnce'
  BY <1>1, <1>5, <1>7, AcceptingKeeps
<1>9. TablesOK'
  BY <1>5, <1>6, <1>8 DEF DInv, IdentityTypeOK, TablesOK
<1>10. CallsOK'
  BY <1>5, <1>6, <1>7, CallsStay
<1>11. GuessesCounted'
  BY <1>3, <1>6, <1>7, GuessesStay
<1> QED BY <1>8, <1>9, <1>10, <1>11 DEF DInv, IdentityTypeOK

(* A request that ends, whatever it did to the sessions or the passkeys.         *)
LEMMA EndingKeeps ==
    ASSUME DInv, NEW c \in Calls, NEW next \in Handler, Goto(c, next), ~Pending(next),
           next.at # "register", UNCHANGED <<devices, tickets, accepted>>, TablesOK'
    PROVE  DInv'
<1>1. next.at \notin {"pin", "used"}
  BY DEF Pending
<1>2. CallsOK' /\ TicketsSpentOnce' /\ GuessesCounted'
  BY <1>1, CallsStay, TicketsStay, GuessesStay
<1> QED BY <1>2 DEF DInv, IdentityTypeOK

LEMMA OpenSessionKeeps == ASSUME DInv, NEW c \in Calls, OpenSession(c) PROVE DInv'
<1>1. call[c] \in Opening
  BY KindOfHandler DEF OpenSession, At, DInv, IdentityTypeOK
<1> DEFINE row == [customer |-> call[c].who, factor |-> call[c].factor, ref |-> call[c].ref, live |-> TRUE]
<1>2. row \in SessionRow
  BY <1>1 DEF Opening, SessionRow
<1>3. sessions' = Append(sessions, row) /\ sessions \in Seq(SessionRow)
  BY DEF OpenSession, Open, DInv, IdentityTypeOK, TablesOK
<1> HIDE DEF row
<1>4. sessions' \in Seq(SessionRow)
  BY <1>2, <1>3
<1>5. TablesOK'
  BY <1>4 DEF OpenSession, DInv, IdentityTypeOK, TablesOK
<1> QED BY <1>5, IdleIsHandler, EndingKeeps DEF OpenSession, Return

LEMMA FinishRegistrationKeeps ==
    ASSUME DInv, NEW c \in Calls, NEW n \in DOMAIN tickets, FinishRegistration(c, n)
    PROVE  DInv'
<1> DEFINE next == [at |-> "insert passkey", ticket |-> n, who |-> tickets[n].customer,
                    first |-> tickets[n].purpose = "enrollment"]
<1>1. tickets' = [tickets EXCEPT ![n].usable = FALSE]
  BY DEF FinishRegistration, consumeCeremony
<1>2. CASE Goto(c, Idle)
  BY <1>1, <1>2, IdleIsHandler, PresentingKeeps DEF FinishRegistration
<1>3. CASE Goto(c, next) /\ Consumed(n, {"enrollment", "add_device"})
  <2>1. n \in Nat /\ tickets[n] \in TicketRow
    BY DEF DInv, IdentityTypeOK, TablesOK
  <2>2. next \in Linking
    <3>1. (tickets[n].purpose = "enrollment") \in BOOLEAN /\ tickets[n].customer \in Who
      BY <2>1 DEF TicketRow
    <3> QED BY <2>1, <3>1 DEF Linking
  <2>3. next \in Handler /\ next.ticket = n /\ next.at = "insert passkey"
    BY <2>2 DEF Handler
  <2>4. tickets[n].usable
    BY <1>3 DEF Consumed
  <2> HIDE DEF next
  <2> QED BY <1>1, <1>3, <2>3, <2>4, PresentingKeeps DEF FinishRegistration
<1> QED BY <1>2, <1>3 DEF FinishRegistration, Return

LEMMA InsertPasskeyKeeps == ASSUME DInv, NEW c \in Calls, insertPasskey(c) PROVE DInv'
<1>1. call[c] \in Linking /\ call[c].who \in Who /\ Pending(call[c])
  BY KindOfHandler DEF insertPasskey, At, DInv, IdentityTypeOK, Linking, Pending
<1>2. UNCHANGED <<devices, tickets, sessions>>
  BY DEF insertPasskey
<1>3. CASE Goto(c, Idle) /\ UNCHANGED <<passkeys, accepted>>
  <2>1. TablesOK'
    BY <1>2, <1>3 DEF DInv, IdentityTypeOK, TablesOK
  <2> QED BY <1>2, <1>3, <2>1, IdleIsHandler, EndingKeeps
<1>4. ASSUME NEW k \in Credentials, k \notin DOMAIN passkeys,
             passkeys' = [x \in DOMAIN passkeys \cup {k} |-> IF x = k THEN call[c].who ELSE passkeys[x]],
             Goto(c, [at |-> "open", who |-> call[c].who, factor |-> "passkey", ref |-> k]),
             Accept(call[c].ticket)
      PROVE  DInv'
  <2> DEFINE next == [at |-> "open", who |-> call[c].who, factor |-> "passkey", ref |-> k]
  <2>1. next \in Handler /\ next.at = "open" /\ ~Pending(next)
    <3>1. "passkey" \in Factors /\ k \in Devices \cup Credentials
      BY DEF Factors
    <3> QED BY <1>1, <3>1, OpenIsHandler
  <2>2. Goto(c, next)
    BY <1>4
  <2> HIDE DEF next
  <2>3. DOMAIN passkeys' \subseteq Credentials /\ passkeys' \in [DOMAIN passkeys' -> Who]
    BY <1>1, <1>4 DEF DInv, IdentityTypeOK, TablesOK
  <2>4. accepted' \in Seq(Nat) /\ Len(accepted') = Len(accepted) /\ TicketsSpentOnce'
    BY <1>1, <1>2, <1>4, <2>1, <2>2, AcceptingKeeps
  <2>5. TablesOK'
    BY <1>2, <2>3, <2>4 DEF DInv, IdentityTypeOK, TablesOK
  <2>6. CallsOK' /\ GuessesCounted'
    BY <1>2, <2>1, <2>2, CallsStay, GuessesStay
  <2> QED BY <2>4, <2>5, <2>6 DEF DInv, IdentityTypeOK
<1> QED BY <1>3, <1>4 DEF insertPasskey, Return

LEMMA ReplacedRow ==
    ASSUME NEW S, NEW s \in Seq(S), NEW n \in DOMAIN s, NEW x \in S
    PROVE  [s EXCEPT ![n] = x] \in Seq(S) /\ Len([s EXCEPT ![n] = x]) = Len(s)
OBVIOUS

LEMMA SpendingIsTyped ==
    ASSUME TablesOK, NEW n \in DOMAIN tickets, tickets' = [tickets EXCEPT ![n].usable = FALSE]
    PROVE  /\ tickets' \in Seq(TicketRow) /\ Len(tickets') = Len(tickets)
           /\ DOMAIN tickets' = DOMAIN tickets /\ ~tickets'[n].usable
           /\ \A m \in DOMAIN tickets \ {n} : tickets'[m] = tickets[m]
<1> DEFINE spent == [tickets[n] EXCEPT !.usable = FALSE]
<1>1. tickets \in Seq(TicketRow) /\ tickets[n] \in TicketRow /\ DOMAIN tickets = 1 .. Len(tickets)
  BY DEF TablesOK
<1>2. spent \in TicketRow /\ ~spent.usable
  BY <1>1, SpentTicket
<1>3. tickets' = [tickets EXCEPT ![n] = spent]
  OBVIOUS
<1> HIDE DEF spent
<1>4. tickets' \in Seq(TicketRow) /\ Len(tickets') = Len(tickets)
  <2>1. n \in DOMAIN tickets /\ spent \in TicketRow
    BY <1>2
  <2>2. [tickets EXCEPT ![n] = spent] \in Seq(TicketRow) /\ Len([tickets EXCEPT ![n] = spent]) = Len(tickets)
    BY ONLY <1>1, <2>1, ReplacedRow
  <2> QED BY ONLY <1>3, <2>2
<1>5. tickets'[n] = spent /\ \A m \in DOMAIN tickets \ {n} : tickets'[m] = tickets[m]
  BY <1>1, <1>3
<1>6. DOMAIN tickets' = DOMAIN tickets
  BY <1>1, <1>3
<1> QED BY <1>2, <1>4, <1>5, <1>6

LEMMA FinishLoginKeeps ==
    ASSUME DInv, NEW c \in Calls, NEW n \in DOMAIN tickets, NEW k \in Credentials, FinishLogin(c, n, k)
    PROVE  DInv'
<1> DEFINE next == [at |-> "open", who |-> passkeys[k], factor |-> "passkey", ref |-> k]
<1>1. tickets' = [tickets EXCEPT ![n].usable = FALSE] /\ UNCHANGED <<devices, passkeys, sessions>>
  BY DEF FinishLogin, consumeCeremony
<1>2. CASE Goto(c, Idle) /\ UNCHANGED accepted
  BY <1>1, <1>2, IdleIsHandler, PresentingKeeps DEF FinishLogin
<1>3. CASE Goto(c, next) /\ k \in DOMAIN passkeys /\ Consumed(n, {"passkey_login"}) /\ Accept(n)
  <2>1. next \in Handler /\ next.at = "open" /\ ~Pending(next)
    <3>1. passkeys[k] \in Who
      BY <1>3 DEF DInv, IdentityTypeOK, TablesOK
    <3>2. "passkey" \in Factors /\ k \in Devices \cup Credentials
      BY DEF Factors
    <3> QED BY <3>1, <3>2, OpenIsHandler
  <2>2. Goto(c, next)
    BY <1>3
  <2> HIDE DEF next
  <2>3. /\ call' \in [Calls -> Handler] /\ call'[c] = next
        /\ \A b \in Calls \ {c} : call'[b] = call[b]
    BY <2>1, <2>2, GotoMoves DEF DInv, IdentityTypeOK, CallsOK
  <2>4. /\ tickets' \in Seq(TicketRow) /\ Len(tickets') = Len(tickets)
        /\ DOMAIN tickets' = DOMAIN tickets /\ ~tickets'[n].usable
        /\ \A m \in DOMAIN tickets \ {n} : tickets'[m] = tickets[m]
    BY <1>1, SpendingIsTyped DEF DInv, IdentityTypeOK
  <2>5. /\ accepted \in Seq(Nat) /\ DOMAIN accepted = DOMAIN tickets /\ accepted[n] = 0 /\ tickets[n].usable
        /\ accepted' = [accepted EXCEPT ![n] = @ + 1]
    BY <1>3 DEF Consumed, Accept, DInv, IdentityTypeOK, TablesOK, TicketsSpentOnce
  <2>6. /\ accepted' \in Seq(Nat) /\ Len(accepted') = Len(accepted) /\ accepted'[n] = 1
        /\ \A m \in DOMAIN tickets \ {n} : accepted'[m] = accepted[m]
    BY <2>5
  <2>7. TablesOK'
    BY <1>1, <2>4, <2>6 DEF DInv, IdentityTypeOK, TablesOK
  <2>8. CallsOK' /\ GuessesCounted'
    BY <1>1, <2>1, <2>2, <2>4, CallsStay, GuessesStay
  <2>9. \A b \in Calls : Pending(call'[b]) => Pending(call[b]) /\ call'[b] = call[b] /\ call[b].ticket # n
    BY <2>1, <2>3, <2>5 DEF DInv, TicketsSpentOnce
  <2>10. TicketsSpentOnce'
    <3>1. \A m \in DOMAIN tickets' : accepted'[m] \in {0, 1} /\ (tickets'[m].usable => accepted'[m] = 0)
      BY <2>4, <2>6 DEF DInv, TicketsSpentOnce
    <3> HIDE DEF Pending
    <3>2. \A b \in Calls : Pending(call'[b]) => /\ call'[b].ticket \in DOMAIN tickets'
                                                /\ ~tickets'[call'[b].ticket].usable
                                                /\ accepted'[call'[b].ticket] = 0
      BY <2>4, <2>6, <2>9 DEF DInv, TicketsSpentOnce
    <3>3. \A a, b \in Calls : Pending(call'[a]) /\ Pending(call'[b]) /\ call'[a].ticket = call'[b].ticket
                                => a = b
      BY <2>9 DEF DInv, TicketsSpentOnce
    <3>4. TicketsSpentOnce' <=>
            /\ \A m \in DOMAIN tickets' : accepted'[m] \in {0, 1} /\ (tickets'[m].usable => accepted'[m] = 0)
            /\ \A b \in Calls : Pending(call'[b]) => /\ call'[b].ticket \in DOMAIN tickets'
                                                     /\ ~tickets'[call'[b].ticket].usable
                                                     /\ accepted'[call'[b].ticket] = 0
            /\ \A a, b \in Calls : Pending(call'[a]) /\ Pending(call'[b]) /\ call'[a].ticket = call'[b].ticket
                                => a = b
      BY DEF TicketsSpentOnce, Pending
    <3> QED BY <3>1, <3>2, <3>3, <3>4
  <2> QED BY <2>7, <2>8, <2>10 DEF DInv, IdentityTypeOK
<1> QED BY <1>2, <1>3 DEF FinishLogin, Return, passkeyByCredential

(* Taking a way in away.                                                         *)
LEMMA RemovingKeeps ==
    ASSUME DInv, NEW c \in Calls, NEW next \in Removing, Goto(c, next), UNCHANGED tables
    PROVE  DInv'
<1>1. next \in Handler /\ ~Pending(next) /\ next.at \notin {"pin", "used", "register"}
  BY DEF Handler, Removing, Pending
<1> QED BY <1>1, ReadingKeeps

LEMMA HandleRevokeKeeps ==
    ASSUME DInv, NEW c \in Calls, NEW who \in Customers, NEW ref \in Devices \cup Credentials,
           handleRevokeDevice(c, who, ref) \/ handleRemovePasskey(c, who, ref)
    PROVE  DInv'
<1> DEFINE next == [at |-> "count phones", who |-> who, ref |-> ref, ways |-> 0]
<1>1. next \in Removing
  BY DEF Removing, Who
<1>2. Goto(c, next) /\ UNCHANGED tables
  BY DEF handleRevokeDevice, handleRemovePasskey
<1> HIDE DEF next
<1> QED BY <1>1, <1>2, RemovingKeeps

LEMMA CountedIsRemoving ==
    \A old \in Removing, ways \in Nat :
        [old EXCEPT !.at = "count passkeys", !.ways = ways] \in Removing
<1> SUFFICES ASSUME NEW old \in Removing, NEW ways \in Nat,
                    NEW new, new = [old EXCEPT !.at = "count passkeys", !.ways = ways]
             PROVE  new \in Removing
  BY Zenon
<1>1. /\ old.who \in Who /\ old.ref \in Devices \cup Credentials
      /\ old = [at |-> old.at, who |-> old.who, ref |-> old.ref, ways |-> old.ways]
  BY DEF Removing
<1>2. new = [at |-> "count passkeys", who |-> old.who, ref |-> old.ref, ways |-> ways]
  BY <1>1
<1> QED BY <1>1, <1>2 DEF Removing

LEMMA CountPhonesKeeps == ASSUME DInv, NEW c \in Calls, CountPhones(c) PROVE DInv'
<1>0. PICK ways : ways = Cardinality(list(call[c].who))
  OBVIOUS
<1> DEFINE next == [call[c] EXCEPT !.at = "count passkeys", !.ways = ways]
<1>1. call[c] \in Removing
  BY KindOfHandler DEF CountPhones, At, DInv, IdentityTypeOK
<1>2. ways \in Nat
  <2>1. list(call[c].who) \subseteq Devices
    BY DEF list, PhonesOf, DInv, IdentityTypeOK, TablesOK
  <2> QED BY <1>0, <2>1, IdentityAssumption, FS_Subset, FS_CardinalityType
<1>3. next \in Removing
  BY <1>1, <1>2, CountedIsRemoving, Zenon
<1> QED BY <1>0, <1>3, RemovingKeeps DEF CountPhones

LEMMA CountPasskeysKeeps == ASSUME DInv, NEW c \in Calls, CountPasskeys(c) PROVE DInv'
<1> DEFINE next == [call[c] EXCEPT !.at = "take away"]
<1>1. call[c] \in Removing
  BY KindOfHandler DEF CountPasskeys, At, DInv, IdentityTypeOK
<1>2. next \in Removing
  BY <1>1 DEF Removing
<1> HIDE DEF next
<1>3. UNCHANGED tables /\ (Goto(c, next) \/ Goto(c, Idle))
  BY DEF CountPasskeys, Return, next
<1> QED BY <1>2, <1>3, RemovingKeeps, ReadingKeeps, IdleIsHandler

LEMMA RevokeKeeps == ASSUME DInv, NEW c \in Calls, revoke(c) PROVE DInv'
<1>0. PICK d : d = call[c].ref
  OBVIOUS
<1> DEFINE next == [call[c] EXCEPT !.at = "close"]
<1>1. call[c] \in Removing
  BY KindOfHandler DEF revoke, At, DInv, IdentityTypeOK
<1>2. next \in Handler /\ ~Pending(next) /\ next.at = "close"
  BY <1>1 DEF Handler, Removing, Pending
<1> HIDE DEF next
<1>3. UNCHANGED <<passkeys, tickets, sessions, accepted>>
  BY DEF revoke
<1>4. CASE Goto(c, Idle) /\ UNCHANGED devices
  <2>1. TablesOK'
    BY <1>3, <1>4 DEF DInv, IdentityTypeOK, TablesOK
  <2> QED BY <1>3, <1>4, <2>1, EndingKeeps, IdleIsHandler
<1>5. CASE Goto(c, next) /\ d \in list(call[c].who) /\ devices' = [devices EXCEPT ![d].revoked = TRUE]
  <2> DEFINE row == [devices[d] EXCEPT !.revoked = TRUE]
  <2>1. d \in DOMAIN devices /\ devices[d] \in DeviceRow
    BY <1>5 DEF list, PhonesOf, DInv, IdentityTypeOK, TablesOK
  <2>2. row \in DeviceRow /\ row.fails = devices[d].fails /\ row.locked = devices[d].locked
    BY <2>1 DEF DeviceRow
  <2>3. devices' = [devices EXCEPT ![d] = row]
    BY <1>5
  <2> HIDE DEF row
  <2>4. /\ DOMAIN devices' = DOMAIN devices /\ devices' \in [DOMAIN devices' -> DeviceRow]
        /\ devices'[d] = row /\ \A x \in DOMAIN devices \ {d} : devices'[x] = devices[x]
    BY <2>1, <2>2, <2>3, ChangedDevice DEF DInv, IdentityTypeOK
  <2>5. TablesOK'
    BY <1>3, <2>4 DEF DInv, IdentityTypeOK, TablesOK
  <2>6. CallsOK' /\ TicketsSpentOnce' /\ GuessesCounted'
    BY <1>2, <1>3, <1>5, <2>2, <2>4, CallsStay, TicketsStay, GuessesStay
  <2> QED BY <2>5, <2>6 DEF DInv, IdentityTypeOK
<1> QED BY <1>0, <1>4, <1>5 DEF revoke, Return, next

LEMMA RemoveKeeps == ASSUME DInv, NEW c \in Calls, remove(c) PROVE DInv'
<1> DEFINE next == [call[c] EXCEPT !.at = "close"]
<1>1. call[c] \in Removing
  BY KindOfHandler DEF remove, At, DInv, IdentityTypeOK
<1>2. next \in Handler /\ ~Pending(next) /\ next.at = "close"
  BY <1>1 DEF Handler, Removing, Pending
<1> HIDE DEF next
<1>3. UNCHANGED <<devices, tickets, sessions, accepted>> /\ (Goto(c, next) \/ Goto(c, Idle))
  BY DEF remove, Return, next
<1>4. DOMAIN passkeys' \subseteq Credentials /\ passkeys' \in [DOMAIN passkeys' -> Who]
  BY DEF remove, DInv, IdentityTypeOK, TablesOK
<1>5. TablesOK'
  BY <1>3, <1>4 DEF DInv, IdentityTypeOK, TablesOK
<1> QED BY <1>2, <1>3, <1>5, EndingKeeps, IdleIsHandler

LEMMA CloseSessionsKeeps == ASSUME DInv, NEW c \in Calls, CloseSessions(c) PROVE DInv'
<1>1. sessions \in Seq(SessionRow) /\ DOMAIN sessions = 1 .. Len(sessions) /\ Len(sessions) \in Nat
  BY DEF DInv, IdentityTypeOK, TablesOK
<1> DEFINE row(t) == [sessions[t] EXCEPT !.live = @ /\ sessions[t].ref # call[c].ref]
<1>2. ASSUME NEW t \in DOMAIN sessions PROVE row(t) \in SessionRow
  <2>1. sessions[t] \in SessionRow /\ (sessions[t].live /\ sessions[t].ref # call[c].ref) \in BOOLEAN
    BY <1>1
  <2> QED BY <2>1 DEF SessionRow
<1>3. sessions' = [t \in 1 .. Len(sessions) |-> row(t)]
  BY <1>1 DEF CloseSessions, RevokeDevice
<1> HIDE DEF row
<1>4. sessions' \in Seq(SessionRow)
  BY <1>1, <1>2, <1>3
<1>5. TablesOK'
  BY <1>4 DEF CloseSessions, DInv, IdentityTypeOK, TablesOK
<1> QED BY <1>5, EndingKeeps, IdleIsHandler DEF CloseSessions, Return

LEMMA LogoutKeeps ==
    ASSUME DInv, NEW token \in DOMAIN sessions, handleLogout(token)
    PROVE  DInv'
<1>1. sessions \in Seq(SessionRow) /\ sessions[token] \in SessionRow
  BY DEF DInv, IdentityTypeOK, TablesOK
<1> DEFINE row == [sessions[token] EXCEPT !.live = FALSE]
<1>2. row \in SessionRow
  BY <1>1 DEF SessionRow
<1>3. sessions' = [sessions EXCEPT ![token] = row]
  BY DEF handleLogout
<1> HIDE DEF row
<1>4. sessions' \in Seq(SessionRow)
  <2>1. [sessions EXCEPT ![token] = row] \in Seq(SessionRow)
    BY ONLY <1>1, <1>2, token \in DOMAIN sessions, ReplacedRow
  <2> QED BY ONLY <1>3, <2>1
<1>5. IdentityTypeOK' /\ TicketsSpentOnce' /\ GuessesCounted'
  BY <1>4 DEF handleLogout, DInv, IdentityTypeOK, TablesOK, CallsOK, TicketsSpentOnce, GuessesCounted, Guessing
<1> QED BY <1>5 DEF DInv

LEMMA LapseKeeps ==
    ASSUME DInv, NEW n \in DOMAIN tickets, Lapse(n)
    PROVE  DInv'
<1>1. tickets' = [tickets EXCEPT ![n].usable = FALSE] /\ UNCHANGED <<devices, passkeys, sessions, call, accepted>>
  BY DEF Lapse
<1>2. /\ tickets' \in Seq(TicketRow) /\ Len(tickets') = Len(tickets)
      /\ DOMAIN tickets' = DOMAIN tickets /\ ~tickets'[n].usable
      /\ \A m \in DOMAIN tickets \ {n} : tickets'[m] = tickets[m]
  BY <1>1, SpendingIsTyped DEF DInv, IdentityTypeOK
<1>3. IdentityTypeOK'
  BY <1>1, <1>2 DEF DInv, IdentityTypeOK, TablesOK, CallsOK
<1>4. TicketsSpentOnce'
  <2> HIDE DEF Pending
  <2>1. \A m \in DOMAIN tickets' : accepted'[m] \in {0, 1} /\ (tickets'[m].usable => accepted'[m] = 0)
    BY <1>1, <1>2 DEF DInv, TicketsSpentOnce
  <2>2. \A b \in Calls : Pending(call'[b]) => /\ call'[b].ticket \in DOMAIN tickets'
                                              /\ ~tickets'[call'[b].ticket].usable
                                              /\ accepted'[call'[b].ticket] = 0
    BY <1>1, <1>2 DEF DInv, TicketsSpentOnce
  <2>3. \A a, b \in Calls : Pending(call'[a]) /\ Pending(call'[b]) /\ call'[a].ticket = call'[b].ticket
                                => a = b
    BY <1>1 DEF DInv, TicketsSpentOnce
  <2> QED BY <2>1, <2>2, <2>3 DEF TicketsSpentOnce, Pending
<1>5. GuessesCounted'
  BY <1>1 DEF DInv, GuessesCounted, Guessing
<1> QED BY <1>3, <1>4, <1>5 DEF DInv

LEMMA NothingChanges ==
    ASSUME DInv, UNCHANGED <<devices, passkeys, tickets, sessions, call, accepted>>
    PROVE  DInv'
BY DEF DInv, IdentityTypeOK, TablesOK, CallsOK, TicketsSpentOnce, GuessesCounted, Guessing, Pending

LEMMA RequestKeeps == ASSUME DInv, NEW c \in Calls, Request(c) PROVE DInv'
BY RegistrationKeeps, LoginKeeps, ConfirmKeeps, FinishRegistrationKeeps, FinishLoginKeeps,
   HandleRevokeKeeps DEF Request

LEMMA StepKeeps == ASSUME DInv, NEW c \in Calls, Step(c) PROVE DInv'
BY RegisterKeeps, InsertSeesKeeps, InsertDeviceKeeps, InsertPasskeyKeeps, CheckPINKeeps, MarkUsedKeeps,
   OpenSessionKeeps, CountPhonesKeeps, CountPasskeysKeeps, RevokeKeeps, RemoveKeeps, CloseSessionsKeeps
   DEF Step

LEMMA CrashKeeps == ASSUME DInv, NEW c \in Calls, Crash(c) PROVE DInv'
BY ReadingKeeps, IdleIsHandler DEF Crash, Return

LEMMA NextKeepsIdentity == ASSUME DInv, [NextIdentity]_identityVars PROVE DInv'
<1>1. CASE UNCHANGED identityVars
  BY <1>1, NothingChanges DEF identityVars
<1>2. CASE NextIdentity
  <2>1. CASE \E who \in Customers : WindowCloses(who)
    BY <2>1, NothingChanges DEF WindowCloses
  <2> QED BY <1>2, <2>1, BeginKeeps, RequestKeeps, StepKeeps, CrashKeeps, LapseKeeps, LogoutKeeps DEF NextIdentity
<1> QED BY <1>1, <1>2

(* The inductive invariant of the way in holds in every reachable state.         *)
THEOREM IdentityInvariant == IdentitySpec => []DInv
<1>1. InitIdentity => DInv
  BY InitIdentityInv
<1>2. DInv /\ [NextIdentity]_identityVars => DInv'
  BY NextKeepsIdentity
<1> QED BY <1>1, <1>2, PTL DEF IdentitySpec

-------------------------------------------------------------------------------
(* A challenge or a ceremony is good for one thing once, however many requests   *)
(* present it: consumeChallenge and consumeCeremony are one UPDATE each, and     *)
(* what follows them is done by the one request they answered.                   *)
THEOREM TicketsWorkOnceAlways == IdentitySpec => []TicketsWorkOnce
<1>1. DInv => TicketsWorkOnce
  <2>1. DInv => /\ DOMAIN accepted = DOMAIN tickets
                /\ \A n \in DOMAIN tickets : accepted[n] \in {0, 1}
    <3>1. DInv => tickets \in Seq(TicketRow) /\ accepted \in Seq(Nat) /\ Len(accepted) = Len(tickets)
      BY DEF DInv, IdentityTypeOK, TablesOK
    <3>2. DInv => DOMAIN accepted = DOMAIN tickets
      BY <3>1
    <3> QED BY <3>2 DEF DInv, TicketsSpentOnce
  <2>2. 0 <= 1 /\ 1 <= 1
    OBVIOUS
  <2> QED BY <2>1, <2>2 DEF TicketsWorkOnce
<1> QED BY <1>1, IdentityInvariant, PTL

(* Wrong PINs lock a phone, and what runs at the same time adds one guess for    *)
(* each request at most (failPIN).                                               *)
THEOREM GuessesAreBounded == IdentitySpec => []GuessesBounded
<1>1. DInv => GuessesBounded
  <2> SUFFICES ASSUME DInv, NEW d \in DOMAIN devices
               PROVE  /\ devices[d].fails >= MaxPINAttempts => devices[d].locked
                      /\ devices[d].fails < MaxPINAttempts + Cardinality(Calls)
    BY DEF GuessesBounded
  <2>1. /\ devices[d].fails \in Nat
        /\ devices[d].fails >= MaxPINAttempts => devices[d].locked
        /\ devices[d].locked => devices[d].fails + Cardinality(Guessing(d)) < MaxPINAttempts + Cardinality(Calls)
    BY DEF DInv, IdentityTypeOK, TablesOK, DeviceRow, GuessesCounted
  <2>2. Cardinality(Guessing(d)) \in Nat /\ Cardinality(Calls) \in Nat
    BY GuessingIsFinite
  <2>3. CASE devices[d].locked
    BY <2>1, <2>2, <2>3, IdentityAssumption
  <2>4. CASE ~devices[d].locked
    BY <2>1, <2>2, <2>4, IdentityAssumption
  <2> QED BY <2>3, <2>4
<1> QED BY <1>1, IdentityInvariant, PTL

-------------------------------------------------------------------------------
(* What was taken away.  A request that goes on does not come in with ref.       *)
Elsewhere(ref, next) == /\ next.at = "open" => next.ref # ref
                        /\ next.at \in {"pin", "used"} => next.device # ref

LEMMA EnteringNot ==
    ASSUME DInv, NEW c \in Calls, NEW next, Goto(c, next), NEW ref, ~Entering(ref), Elsewhere(ref, next)
    PROVE  ~Entering(ref)'
<1>1. call'[c] = next /\ \A b \in Calls \ {c} : call'[b] = call[b]
  BY DEF Goto, DInv, IdentityTypeOK, CallsOK
<1> SUFFICES ASSUME NEW b \in Calls,
                    \/ call'[b].at = "open" /\ call'[b].ref = ref
                    \/ call'[b].at \in {"pin", "used"} /\ call'[b].device = ref
             PROVE  FALSE
  BY DEF Entering, At
<1>2. CASE b = c
  BY <1>1, <1>2 DEF Elsewhere
<1>3. CASE b # c
  BY <1>1, <1>3 DEF Entering, At
<1> QED BY <1>2, <1>3

LEMMA SameSessions == ASSUME UNCHANGED sessions, NEW ref PROVE LiveFrom(ref)' \subseteq LiveFrom(ref)
BY DEF LiveFrom

LEMMA IdleElsewhere == \A ref : Elsewhere(ref, Idle)
BY DEF Elsewhere, Idle

(* A phone that may be used is not gone.                                         *)
LEMMA UsableIsThere ==
    ASSUME NEW ref \in Devices \cup Credentials, Gone(ref), NEW d \in Devices, usable(d)
    PROVE  d # ref
BY DEF Gone, usable

LEMMA SignedElsewhere ==
    ASSUME DInv, NEW ref \in Devices \cup Credentials, Gone(ref), ~Entering(ref), NEW c \in Calls,
           NEW n \in DOMAIN tickets, usable(tickets[n].device), NEW method \in {"biometric", "pin"},
           NEW then \in {"open", "confirmed"}, Signed(c, n, method, then)
    PROVE  ~Entering(ref)'
<1> DEFINE next == [at |-> IF method = "pin" THEN "pin" ELSE "used", ticket |-> n,
                    device |-> tickets[n].device, then |-> then, factor |-> method]
<1>1. tickets[n].device \in Devices
  BY DEF usable, DInv, IdentityTypeOK, TablesOK
<1>2. next.at # "open" /\ next.device # ref
  BY <1>1, UsableIsThere
<1>3. Goto(c, next)
  BY DEF Signed
<1> HIDE DEF next
<1>4. Elsewhere(ref, next)
  BY <1>2 DEF Elsewhere
<1> QED BY <1>3, <1>4, EnteringNot

LEMMA RequestsComeElsewhere ==
    ASSUME DInv, NEW ref \in Devices \cup Credentials, Gone(ref), ~Entering(ref), NEW c \in Calls, Request(c)
    PROVE  ~Entering(ref)'
<1>1. ASSUME Goto(c, Idle) PROVE ~Entering(ref)'
  BY <1>1, IdleElsewhere, EnteringNot
<1>2. ASSUME NEW n \in DOMAIN tickets, NEW who \in Customers, handleDeviceRegistration(c, n, who)
      PROVE  ~Entering(ref)'
  <2>1. PICK first \in BOOLEAN : Goto(c, [at |-> "register", ticket |-> n, who |-> who, first |-> first])
    BY <1>2 DEF handleDeviceRegistration, AddDevice, EnrollWithReference
  <2>2. Elsewhere(ref, [at |-> "register", ticket |-> n, who |-> who, first |-> first])
    BY DEF Elsewhere
  <2> QED BY <2>1, <2>2, EnteringNot
<1>3. ASSUME NEW n \in DOMAIN tickets, handleDeviceLogin(c, n) PROVE ~Entering(ref)'
  BY <1>1, <1>3, SignedElsewhere
     DEF handleDeviceLogin, LoginWithBiometrics, LoginWithPIN, loginDevice, Return
<1>4. ASSUME NEW n \in DOMAIN tickets, NEW who \in Customers, NEW d \in Devices, NEW op \in Operations,
             Confirm(c, who, d, n, op)
      PROVE  ~Entering(ref)'
  BY <1>1, <1>4, SignedElsewhere DEF Confirm, Return
<1>5. ASSUME NEW n \in DOMAIN tickets, FinishRegistration(c, n) PROVE ~Entering(ref)'
  <2> DEFINE next == [at |-> "insert passkey", ticket |-> n, who |-> tickets[n].customer,
                      first |-> tickets[n].purpose = "enrollment"]
  <2>1. Elsewhere(ref, next)
    BY DEF Elsewhere
  <2>2. Goto(c, next) \/ Goto(c, Idle)
    BY <1>5 DEF FinishRegistration, Return
  <2> HIDE DEF next
  <2> QED BY <1>1, <2>1, <2>2, EnteringNot
<1>6. ASSUME NEW n \in DOMAIN tickets, NEW k \in Credentials, FinishLogin(c, n, k) PROVE ~Entering(ref)'
  <2>1. CASE Goto(c, Idle)
    BY <1>1, <2>1
  <2>2. CASE k \in DOMAIN passkeys /\ Goto(c, [at |-> "open", who |-> passkeys[k], factor |-> "passkey", ref |-> k])
    <3>1. k # ref
      BY <2>2, IdentityAssumption DEF Gone
    <3>2. Elsewhere(ref, [at |-> "open", who |-> passkeys[k], factor |-> "passkey", ref |-> k])
      BY <3>1 DEF Elsewhere
    <3> QED BY <2>2, <3>2, EnteringNot
  <2> QED BY <1>6, <2>1, <2>2 DEF FinishLogin, Return, passkeyByCredential
<1>7. ASSUME NEW who \in Customers, NEW way \in Devices \cup Credentials,
             handleRevokeDevice(c, who, way) \/ handleRemovePasskey(c, who, way)
      PROVE  ~Entering(ref)'
  <2>1. Elsewhere(ref, [at |-> "count phones", who |-> who, ref |-> way, ways |-> 0])
    BY DEF Elsewhere
  <2>2. Goto(c, [at |-> "count phones", who |-> who, ref |-> way, ways |-> 0])
    BY <1>7 DEF handleRevokeDevice, handleRemovePasskey
  <2> QED BY <2>1, <2>2, EnteringNot
<1> QED BY <1>2, <1>3, <1>4, <1>5, <1>6, <1>7 DEF Request

LEMMA StepsComeElsewhere ==
    ASSUME DInv, NEW ref \in Devices \cup Credentials, Gone(ref), Gone(ref)', ~Entering(ref),
           NEW c \in Calls, Step(c)
    PROVE  ~Entering(ref)'
<1>1. ASSUME Goto(c, Idle) PROVE ~Entering(ref)'
  BY <1>1, IdleElsewhere, EnteringNot
<1>2. ASSUME NEW next, Goto(c, next), next.at \notin {"open", "pin", "used"} PROVE ~Entering(ref)'
  BY <1>2, EnteringNot DEF Elsewhere
<1>3. CASE register(c)
  <2>1. [call[c] EXCEPT !.at = "insert device"].at = "insert device"
    BY <1>3, KindOfHandler DEF register, At, DInv, IdentityTypeOK, Linking
  <2>2. Goto(c, [call[c] EXCEPT !.at = "insert device"]) \/ Goto(c, Idle)
    BY <1>3 DEF register, Return
  <2> QED BY <1>1, <1>2, <2>1, <2>2
<1>4. CASE InsertSees(c)
  <2> DEFINE next == [call[c] EXCEPT !.at = IF @ = "insert device" THEN "device row" ELSE "passkey row"]
  <2>1. next.at \in {"device row", "passkey row"}
    BY <1>4, KindOfHandler DEF InsertSees, DInv, IdentityTypeOK, Linking
  <2>2. Goto(c, next) \/ Goto(c, Idle)
    BY <1>4 DEF InsertSees, Return
  <2> HIDE DEF next
  <2> QED BY <1>1, <1>2, <2>1, <2>2
<1>5. CASE insertDevice(c)
  <2>1. PICK d \in Devices \ DOMAIN devices :
          Goto(c, [at |-> "open", who |-> call[c].who, factor |-> "device_biometric", ref |-> d])
    BY <1>5 DEF insertDevice
  <2>2. d # ref
    BY DEF Gone
  <2>3. Elsewhere(ref, [at |-> "open", who |-> call[c].who, factor |-> "device_biometric", ref |-> d])
    BY <2>2 DEF Elsewhere
  <2> QED BY <2>1, <2>3, EnteringNot
<1>6. CASE insertPasskey(c)
  <2>1. CASE Goto(c, Idle)
    BY <1>1, <2>1
  <2>2. ASSUME NEW k \in Credentials, k \in DOMAIN passkeys',
               Goto(c, [at |-> "open", who |-> call[c].who, factor |-> "passkey", ref |-> k])
        PROVE  ~Entering(ref)'
    <3>1. k # ref
      BY <2>2, IdentityAssumption DEF Gone
    <3>2. Elsewhere(ref, [at |-> "open", who |-> call[c].who, factor |-> "passkey", ref |-> k])
      BY <3>1 DEF Elsewhere
    <3> QED BY <2>2, <3>2, EnteringNot
  <2> QED BY <1>6, <2>1, <2>2 DEF insertPasskey, Return
<1>7. CASE checkPIN(c)
  <2> DEFINE next == [call[c] EXCEPT !.at = "used"]
  <2>1. call[c] \in Proving /\ call[c].at = "pin" /\ call[c].device # ref
    BY <1>7, KindOfHandler DEF checkPIN, At, Entering, DInv, IdentityTypeOK
  <2>2. next.at = "used" /\ next.device # ref
    BY <2>1 DEF Proving
  <2>3. Goto(c, next) \/ Goto(c, Idle)
    BY <1>7 DEF checkPIN, Return
  <2> HIDE DEF next
  <2>4. Elsewhere(ref, next)
    BY <2>2 DEF Elsewhere
  <2> QED BY <1>1, <2>3, <2>4, EnteringNot
<1>8. CASE markUsed(c)
  <2> DEFINE next == [at |-> "open", who |-> devices[call[c].device].owner, factor |-> call[c].factor,
                      ref |-> call[c].device]
  <2>1. call[c].at = "used" /\ call[c].device # ref
    BY <1>8 DEF markUsed, At, Entering
  <2>2. Elsewhere(ref, next)
    BY <2>1 DEF Elsewhere
  <2>3. Goto(c, next) \/ Goto(c, Idle)
    BY <1>8 DEF markUsed, Return
  <2> HIDE DEF next
  <2> QED BY <1>1, <2>2, <2>3, EnteringNot
<1>9. CASE OpenSession(c) \/ CloseSessions(c)
  BY <1>1, <1>9 DEF OpenSession, CloseSessions, Return
<1>10. CASE CountPhones(c) \/ CountPasskeys(c) \/ revoke(c) \/ remove(c)
  <2>1. call[c] \in Removing
    BY <1>10, KindOfHandler DEF CountPhones, CountPasskeys, revoke, remove, At, DInv, IdentityTypeOK
  <2>2. CASE CountPhones(c)
    <3> DEFINE next == [call[c] EXCEPT !.at = "count passkeys", !.ways = Cardinality(list(call[c].who))]
    <3>1. next.at = "count passkeys"
      BY <2>1 DEF Removing
    <3>2. Goto(c, next)
      BY <2>2 DEF CountPhones
    <3> HIDE DEF next
    <3> QED BY <1>2, <3>1, <3>2
  <2>3. /\ [call[c] EXCEPT !.at = "take away"].at = "take away"
        /\ [call[c] EXCEPT !.at = "close"].at = "close"
    BY <2>1 DEF Removing
  <2>4. CASE ~CountPhones(c)
    <3>1. \/ Goto(c, [call[c] EXCEPT !.at = "take away"])
          \/ Goto(c, [call[c] EXCEPT !.at = "close"])
          \/ Goto(c, Idle)
      BY <1>10, <2>4 DEF CountPasskeys, revoke, remove, Return
    <3> QED BY <1>1, <1>2, <2>3, <3>1
  <2> QED BY <2>2, <2>4
<1> QED BY <1>3, <1>4, <1>5, <1>6, <1>7, <1>8, <1>9, <1>10 DEF Step

LEMMA ClosedRow ==
    ASSUME NEW old \in SessionRow, NEW live \in BOOLEAN,
           NEW row, row = [old EXCEPT !.live = live]
    PROVE  row.ref = old.ref /\ row.live = live
<1>1. /\ old.ref \in Devices \cup Credentials
      /\ old = [customer |-> old.customer, factor |-> old.factor, ref |-> old.ref, live |-> old.live]
  BY DEF SessionRow
<1>2. row = [customer |-> old.customer, factor |-> old.factor, ref |-> old.ref, live |-> live]
  BY <1>1
<1> QED BY <1>2

(* Nobody who is not entering adds to the sessions of ref.                       *)
LEMMA SessionsOnlyClose ==
    ASSUME DInv, NextIdentity, NEW ref, ~Entering(ref)
    PROVE  LiveFrom(ref)' \subseteq LiveFrom(ref)
<1>1. sessions \in Seq(SessionRow)
  BY DEF DInv, IdentityTypeOK, TablesOK
<1>2. ASSUME NEW c \in Calls, OpenSession(c) PROVE LiveFrom(ref)' \subseteq LiveFrom(ref)
  <2> DEFINE row == [customer |-> call[c].who, factor |-> call[c].factor, ref |-> call[c].ref, live |-> TRUE]
  <2>1. row.ref # ref /\ sessions' = Append(sessions, row)
    BY <1>2 DEF OpenSession, Open, At, Entering
  <2> HIDE DEF row
  <2>2. \A t \in DOMAIN sessions' : \/ t \in DOMAIN sessions /\ sessions'[t] = sessions[t]
                                    \/ sessions'[t] = row
    BY <1>1, <2>1
  <2> QED BY <2>1, <2>2 DEF LiveFrom
<1>3. ASSUME NEW c \in Calls, CloseSessions(c) PROVE LiveFrom(ref)' \subseteq LiveFrom(ref)
  <2>1. /\ DOMAIN sessions' = DOMAIN sessions
        /\ \A t \in DOMAIN sessions : /\ sessions'[t].ref = sessions[t].ref
                                      /\ sessions'[t].live => sessions[t].live
    <3>1. \A t \in DOMAIN sessions : sessions[t] \in SessionRow
      BY <1>1
    <3>2. sessions' = [t \in DOMAIN sessions |->
                          [sessions[t] EXCEPT !.live = @ /\ sessions[t].ref # call[c].ref]]
      BY <1>3 DEF CloseSessions, RevokeDevice
    <3>3. DOMAIN sessions' = DOMAIN sessions
      BY <3>2
    <3>4. ASSUME NEW t \in DOMAIN sessions
          PROVE  sessions'[t].ref = sessions[t].ref /\ (sessions'[t].live => sessions[t].live)
      <4> DEFINE stays == sessions[t].live /\ sessions[t].ref # call[c].ref
      <4>1. sessions'[t] = [sessions[t] EXCEPT !.live = stays]
        BY <3>2
      <4>2. sessions[t] \in SessionRow /\ stays \in BOOLEAN /\ (stays => sessions[t].live)
        BY <3>1
      <4> HIDE DEF stays
      <4>3. sessions'[t].ref = sessions[t].ref /\ sessions'[t].live = stays
        BY <4>1, <4>2, ClosedRow
      <4> QED BY <4>2, <4>3
    <3> QED BY <3>3, <3>4, Zenon
  <2> QED BY <2>1 DEF LiveFrom
<1>4. ASSUME NEW token \in DOMAIN sessions, handleLogout(token) PROVE LiveFrom(ref)' \subseteq LiveFrom(ref)
  <2>1. sessions[token] \in SessionRow /\ sessions' = [sessions EXCEPT ![token].live = FALSE]
    BY <1>1, <1>4 DEF handleLogout
  <2>2. /\ DOMAIN sessions' = DOMAIN sessions
        /\ \A t \in DOMAIN sessions : /\ sessions'[t].ref = sessions[t].ref
                                      /\ sessions'[t].live => sessions[t].live
    <3>1. DOMAIN sessions' = DOMAIN sessions
      BY <2>1
    <3>2. \A t \in DOMAIN sessions \ {token} : sessions'[t] = sessions[t]
      BY <2>1
    <3>3. sessions'[token] = [sessions[token] EXCEPT !.live = FALSE]
      BY <2>1
    <3>4. sessions'[token].ref = sessions[token].ref /\ ~sessions'[token].live
      BY <2>1, <3>3, ClosedRow
    <3>5. ASSUME NEW t \in DOMAIN sessions
          PROVE  sessions'[t].ref = sessions[t].ref /\ (sessions'[t].live => sessions[t].live)
      BY <3>2, <3>4, Zenon
    <3> QED BY <3>1, <3>5, Zenon
  <2> QED BY <2>2 DEF LiveFrom
<1>5. CASE Begin
  BY <1>5, SameSessions DEF Begin, BeginRegistration, BeginPasskeyLogin, BeginLogin, BeginConfirmation,
                            BeginEnrollment, BeginAddDevice, IssueTicket
<1>6. ASSUME NEW c \in Calls, Request(c) PROVE LiveFrom(ref)' \subseteq LiveFrom(ref)
  BY <1>6, SameSessions DEF Request, handleDeviceRegistration, handleDeviceLogin, Confirm, FinishRegistration,
                            FinishLogin, handleRevokeDevice, handleRemovePasskey, tables
<1>7. ASSUME NEW c \in Calls, Step(c), ~OpenSession(c), ~CloseSessions(c)
      PROVE  LiveFrom(ref)' \subseteq LiveFrom(ref)
  BY <1>7, SameSessions DEF Step, register, InsertSees, insertDevice, insertPasskey, checkPIN, markUsed,
                            CountPhones, CountPasskeys, revoke, remove, tables
<1>8. ASSUME \/ \E c \in Calls : Crash(c)
             \/ \E n \in DOMAIN tickets : Lapse(n)
             \/ \E who \in Customers : WindowCloses(who)
      PROVE  LiveFrom(ref)' \subseteq LiveFrom(ref)
  BY <1>8, SameSessions DEF Crash, Lapse, WindowCloses, tables
<1> QED BY <1>2, <1>3, <1>4, <1>5, <1>6, <1>7, <1>8 DEF NextIdentity

(* A phone or a passkey taken away, which no running request had already seen,   *)
(* lets nobody in again and opens no session (Revoke, Remove, loginDevice).      *)
THEOREM WhatIsTakenAwayStaysAway == IdentitySpec => TakenAwayStaysAway
<1>1. ASSUME DInv, NextIdentity, NEW ref \in Devices \cup Credentials, Gone(ref), Gone(ref)', ~Entering(ref)
      PROVE  ~Entering(ref)' /\ LiveFrom(ref)' \subseteq LiveFrom(ref)
  <2>1. LiveFrom(ref)' \subseteq LiveFrom(ref)
    BY <1>1, SessionsOnlyClose
  <2>2. ASSUME NEW c \in Calls, Request(c) \/ Step(c) PROVE ~Entering(ref)'
    BY <1>1, <2>2, RequestsComeElsewhere, StepsComeElsewhere
  <2>3. ASSUME NEW c \in Calls, Crash(c) PROVE ~Entering(ref)'
    BY <1>1, <2>3, IdleElsewhere, EnteringNot DEF Crash, Return
  <2>4. ASSUME UNCHANGED call PROVE ~Entering(ref)'
    BY <1>1, <2>4 DEF Entering, At
  <2>5. ASSUME \/ Begin
               \/ \E n \in DOMAIN tickets : Lapse(n)
               \/ \E t \in DOMAIN sessions : handleLogout(t)
               \/ \E who \in Customers : WindowCloses(who)
        PROVE  ~Entering(ref)'
    BY <2>4, <2>5 DEF Begin, BeginRegistration, BeginPasskeyLogin, BeginLogin, BeginConfirmation,
                      BeginEnrollment, BeginAddDevice, IssueTicket, Lapse, handleLogout, WindowCloses
  <2> QED BY <1>1, <2>1, <2>2, <2>3, <2>5 DEF NextIdentity
<1>2. DInv /\ [NextIdentity]_identityVars
        => [\A ref \in Devices \cup Credentials :
               Gone(ref) /\ Gone(ref)' /\ ~Entering(ref)
                   => ~Entering(ref)' /\ LiveFrom(ref)' \subseteq LiveFrom(ref)]_identityVars
  BY <1>1
<1> QED BY <1>2, IdentityInvariant, PTL DEF IdentitySpec, TakenAwayStaysAway

(******************************************************************************)
(* Onboarding, for any number of applications and requests.  The invariant    *)
(* says of each application what its file sustains, of each request what it   *)
(* can rely on, and that of the applications with one document one at most    *)
(* has got past the search for duplicates.                                    *)
(******************************************************************************)

Rulings == {"none", "approved", "rejected", "manual_review"}

Sound(a) ==
    /\ steps[a]["identity"] \in {"none", verdict[a].identity}
    /\ steps[a]["screening"] \in {"none", verdict[a].screening}
    /\ steps[a]["decision"] \in Rulings
    /\ steps[a]["decision"] = "approved" =>
          steps[a]["identity"] = "verified" /\ steps[a]["screening"] = "clear"
    /\ steps[a]["decision"] = "rejected" => steps[a]["identity"] = "rejected"
    /\ steps[a]["opening"] # "none" => steps[a]["decision"] # "none"
    /\ status[a] = "rejected" =>
          steps[a]["manual"] # "none" \/ steps[a]["identity"] = "rejected"
    /\ status[a] = "approved" =>
          a \in accounts /\ \A s \in Steps \ {"manual"} : steps[a][s] # "none"

(* What a request at work may rely on.                                           *)
Placed(w) ==
    LET a == App(w) IN
    ~Stands(w, "idle") =>
        /\ a \in Apps
        /\ status[a] # "absent"
        /\ \A s \in Steps : Done(w, s) => steps[a][s] = request[w].done[s]
        /\ Stands(w, "refresh") => steps[a]["identity"] # "none"
        /\ Stands(w, "opened") \/ Stands(w, "set") =>
              /\ a \in accounts
              /\ \A s \in Checks \cup {"decision"} : steps[a][s] # "none"
        /\ Stands(w, "set") => steps[a]["opening"] # "none"
        /\ Stands(w, "update") \/ Stands(w, "review") => request[w].to # "none"
        /\ Stands(w, "update") /\ request[w].to = "rejected" =>
              steps[a]["manual"] # "none" \/ steps[a]["identity"] = "rejected"

(* The application may still be approved by the policy, and no request for it    *)
(* will look for a duplicate before that.                                        *)
Past(a) ==
    /\ steps[a]["manual"] = "none"
    /\ steps[a]["identity"] # "rejected"
    /\ steps[a]["decision"] \in {"none", "approved"}
    /\ \/ \E s \in Checks \cup {"decision"} : steps[a][s] # "none"
       \/ \E w \in Workers : Stands(w, "next") /\ App(w) = a

OneIsPast ==
    \A a, b \in Apps : a # b /\ Document[a] = Document[b] => ~(Past(a) /\ Past(b))

OInv ==
    /\ OnboardingTypeOK
    /\ verdict \in Verdicts
    /\ \A a \in Apps : Sound(a)
    /\ \A w \in Workers : Placed(w)
    /\ OneIsPast

-----------------------------------------------------------------------------
LEMMA InitOInv == OnboardingInit => OInv
<1> SUFFICES ASSUME OnboardingInit PROVE OInv
  OBVIOUS
<1>1. NoSteps \in [Steps -> Outcomes] /\ \A s \in Steps : NoSteps[s] = "none"
  BY DEF NoSteps, Outcomes
<1>2. OnboardingTypeOK
  BY <1>1 DEF OnboardingInit, OnboardingTypeOK, Statuses, Resting, Requests
<1>3. \A a \in Apps : Sound(a) /\ ~Past(a)
  BY <1>1 DEF OnboardingInit, Sound, Past, Steps, Checks, Rulings, Stands, Resting
<1>4. \A w \in Workers : Placed(w)
  BY DEF OnboardingInit, Placed, Stands, Resting
<1> QED BY <1>2, <1>3, <1>4 DEF OInv, OneIsPast, OnboardingInit

(* A step is recorded once, and nothing else on file changes.                    *)
LEMMA Recorded ==
    ASSUME OnboardingTypeOK, NEW a \in Apps, NEW s \in Steps, NEW o \in Outcomes,
           RecordStep(a, s, o)
    PROVE  /\ steps' \in [Apps -> [Steps -> Outcomes]]
           /\ \A b \in Apps \ {a} : steps'[b] = steps[b]
           /\ \A t \in Steps \ {s} : steps'[a][t] = steps[a][t]
           /\ steps'[a][s] = IF steps[a][s] = "none" THEN o ELSE steps[a][s]
           /\ \A b \in Apps, t \in Steps : steps[b][t] # "none" => steps'[b][t] = steps[b][t]
BY DEF OnboardingTypeOK, RecordStep

(* What a step of one request has to show, the file only ever growing.           *)
LEMMA OneStep ==
    ASSUME OInv, NEW w \in Workers, OnboardingTypeOK', UNCHANGED verdict,
           \A v \in Workers \ {w} : request'[v] = request[v],
           \A a \in Apps, s \in Steps : steps[a][s] # "none" => steps'[a][s] = steps[a][s],
           \A a \in Apps : status[a] # "absent" => status'[a] # "absent",
           accounts \subseteq accounts',
           Placed(w)',
           \A a \in Apps : Sound(a)' /\ (Past(a)' => Past(a))
    PROVE  OInv'
<1>1. ASSUME NEW v \in Workers \ {w} PROVE Placed(v)'
  <2>1. Placed(v) /\ request'[v] = request[v]
    BY DEF OInv
  <2>2. \A s \in Steps :
           /\ request[v].done[s] # "none" /\ App(v) \in Apps
           /\ steps[App(v)][s] = request[v].done[s]
           => steps'[App(v)][s] = request[v].done[s]
    OBVIOUS
  <2> QED BY <2>1, <2>2 DEF Placed, Stands, App, Done, Steps, Checks
<1>2. OneIsPast'
  BY DEF OInv, OneIsPast
<1> QED BY <1>1, <1>2 DEF OInv

(* A step that leaves the file, the statuses and the accounts alone.             *)
LEMMA QuietStep ==
    ASSUME OInv, NEW w \in Workers, NEW r \in Requests,
           UNCHANGED <<status, steps, accounts, verdict>>,
           request' = [request EXCEPT ![w] = r],
           Placed(w)',
           r.pc = "next" /\ r.app \in Apps => (Past(r.app)' => Past(r.app))
    PROVE  OInv'
<1>1. request \in [Workers -> Requests] /\ OnboardingTypeOK'
  BY DEF OInv, OnboardingTypeOK
<1>2. request'[w] = r /\ \A v \in Workers \ {w} : request'[v] = request[v]
  BY <1>1
<1>3. ASSUME NEW a \in Apps PROVE Past(a)' => Past(a)
  <2>1. CASE r.pc = "next" /\ r.app = a
    BY <2>1
  <2>2. CASE ~(r.pc = "next" /\ r.app = a)
    BY <1>2, <2>2 DEF Past, Stands, App
  <2> QED BY <2>1, <2>2
<1>4. \A a \in Apps : Sound(a)'
  BY DEF OInv, Sound
<1> QED BY <1>1, <1>2, <1>3, <1>4, OneStep
(* A step of w that records the outcome of a step of its application.             *)
LEMMA RecordingStep ==
    ASSUME OInv, NEW w \in Workers, ~Stands(w, "idle"), NEW r \in Requests,
           NEW a \in Apps, a = App(w), NEW s \in Steps, NEW o \in Outcomes,
           RecordStep(a, s, o), UNCHANGED <<status, accounts, verdict>>,
           request' = [request EXCEPT ![w] = r], r.pc # "next",
           Placed(w)', Sound(a)', Past(a)' => Past(a)
    PROVE  OInv'
<1>1. OnboardingTypeOK /\ status[a] # "absent"
  BY DEF OInv, Placed
<1>2. request'[w] = r /\ \A v \in Workers \ {w} : request'[v] = request[v]
  BY <1>1 DEF OnboardingTypeOK
<1>3. /\ steps' \in [Apps -> [Steps -> Outcomes]]
      /\ \A b \in Apps \ {a} : steps'[b] = steps[b]
      /\ \A b \in Apps, t \in Steps : steps[b][t] # "none" => steps'[b][t] = steps[b][t]
  BY <1>1, Recorded
<1>4. OnboardingTypeOK'
  BY <1>1, <1>3 DEF OnboardingTypeOK
<1>5. ASSUME NEW b \in Apps \ {a} PROVE Sound(b)' /\ (Past(b)' => Past(b))
  <2>1. Sound(b) /\ steps'[b] = steps[b]
    BY <1>3 DEF OInv
  <2>2. \A v \in Workers : Stands(v, "next")' => Stands(v, "next") /\ App(v)' = App(v)
    BY <1>2 DEF Stands, App
  <2> QED BY <2>1, <2>2 DEF Sound, Past
<1> QED BY <1>2, <1>3, <1>4, <1>5, OneStep

-----------------------------------------------------------------------------
(* A request that ends, whatever it has come to.                                 *)
LEMMA EndStep ==
    ASSUME OInv, NEW w \in Workers, End(w), UNCHANGED <<status, steps, accounts, verdict>>
    PROVE  OInv'
<1>1. Resting \in Requests
  BY DEF Resting, Requests, NoSteps, Outcomes
<1>2. request'[w] = Resting
  BY DEF OInv, OnboardingTypeOK, End
<1>3. Placed(w)'
  BY <1>2 DEF Placed, Stands, Resting
<1> QED BY <1>1, <1>3, QuietStep DEF End, Resting

LEMMA ReadingSteps ==
    ASSUME OInv, NEW w \in Workers,
           ReadStatus(w) \/ LoadSteps(w) \/ Refresh(w) \/ NothingLeft(w) \/ Fail(w)
    PROVE  OInv'
<1>1. PICK a : a = App(w)
  OBVIOUS
<1>2. OnboardingTypeOK /\ request[w] \in Requests /\ Placed(w)
  BY DEF OInv, OnboardingTypeOK
<1>3. CASE End(w) /\ UNCHANGED <<status, steps, accounts, verdict>>
  BY <1>3, EndStep
<1>4. CASE ReadStatus(w) /\ ~End(w)
  <2>1. PICK r : r = [request[w] EXCEPT !.pc = "load"]
    OBVIOUS
  <2>2. r \in Requests /\ r.pc = "load" /\ r.app = a /\ r.done = request[w].done
    BY <1>1, <1>2, <2>1 DEF Requests, App
  <2>3. request' = [request EXCEPT ![w] = r]
    BY <1>2, <1>4, <2>1 DEF ReadStatus, Proceed, OnboardingTypeOK
  <2>4. request'[w] = r
    BY <1>2, <2>3 DEF OnboardingTypeOK
  <2>5. Placed(w)'
    BY <1>1, <1>2, <1>4, <2>2, <2>4 DEF ReadStatus, Placed, Stands, App, Done
  <2> QED BY <1>4, <2>2, <2>3, <2>5, QuietStep DEF ReadStatus
<1>5. CASE LoadSteps(w) \/ Refresh(w)
  <2>1. PICK r : r = [request[w] EXCEPT
                        !.done = steps[a],
                        !.pc = IF Stands(w, "load") /\ steps[a] = NoSteps
                               THEN "duplicate" ELSE "next"]
    OBVIOUS
  <2>2. a \in Apps /\ status[a] # "absent"
    BY <1>1, <1>2, <1>5 DEF Placed, LoadSteps, Refresh, Stands
  <2>3. /\ r \in Requests /\ r.pc \in {"duplicate", "next"} /\ r.app = a
        /\ r.done = steps[a]
    BY <1>1, <1>2, <2>1, <2>2 DEF Requests, App, OnboardingTypeOK
  <2>4. request' = [request EXCEPT ![w] = r]
    BY <1>1, <1>2, <1>5, <2>1 DEF LoadSteps, Refresh, OnboardingTypeOK, Stands
  <2>5. request'[w] = r
    BY <1>2, <2>4 DEF OnboardingTypeOK
  <2>6. UNCHANGED <<status, steps, accounts, verdict>>
    BY <1>5 DEF LoadSteps, Refresh
  <2>7. Placed(w)'
    BY <2>2, <2>3, <2>5, <2>6 DEF Placed, Stands, App, Done
  <2>8. ASSUME r.pc = "next", Past(a)' PROVE Past(a)
    <3>1. \E s \in Steps : steps[a][s] # "none"
      <4>1. CASE Stands(w, "load")
        <5>1. steps[a] # NoSteps
          BY <2>1, <2>8, <4>1, <1>2 DEF Requests
        <5> QED BY <1>2, <2>2, <5>1 DEF NoSteps, OnboardingTypeOK
      <4>2. CASE ~Stands(w, "load")
        BY <1>1, <1>2, <1>5, <4>2 DEF Placed, LoadSteps, Refresh, Stands, Steps, Checks
      <4> QED BY <4>1, <4>2
    <3>2. Sound(a)
      BY <2>2 DEF OInv
    <3> QED BY <3>1, <3>2, <2>6, <2>8 DEF Past, Sound, Steps
  <2> QED BY <2>3, <2>4, <2>6, <2>7, <2>8, QuietStep
<1> QED BY <1>3, <1>4, <1>5 DEF NothingLeft, Fail, ReadStatus

(* The search for duplicates: if none is found, whoever has the same document has *)
(* been rejected, and is past it no longer.                                       *)
LEMMA DuplicateStep ==
    ASSUME OInv, NEW w \in Workers, CheckDuplicate(w)
    PROVE  OInv'
<1>1. PICK a : a = App(w)
  OBVIOUS
<1>2. /\ OnboardingTypeOK /\ request[w] \in Requests /\ Placed(w) /\ Stands(w, "duplicate")
      /\ UNCHANGED <<status, steps, accounts, verdict>>
  BY DEF OInv, OnboardingTypeOK, CheckDuplicate
<1>3. a \in Apps /\ status[a] # "absent" /\ Sound(a)
  BY <1>1, <1>2 DEF Placed, Stands, OInv
<1>4. CASE HasOther(a)
  <2>1. PICK r : r = [request[w] EXCEPT !.pc = "found"]
    OBVIOUS
  <2>2. r \in Requests /\ r.pc = "found" /\ r.app = a /\ r.done = request[w].done
    BY <1>1, <1>2, <2>1 DEF Requests, App
  <2>3. request' = [request EXCEPT ![w] = r] /\ request'[w] = r
    BY <1>1, <1>2, <1>4, <2>1 DEF CheckDuplicate, Proceed, OnboardingTypeOK
  <2>4. Placed(w)'
    BY <1>1, <1>2, <1>3, <2>2, <2>3 DEF Placed, Stands, App, Done
  <2> QED BY <1>2, <2>2, <2>3, <2>4, QuietStep
<1>5. CASE ~HasOther(a)
  <2>1. PICK r : r = [request[w] EXCEPT !.pc = "next"]
    OBVIOUS
  <2>2. r \in Requests /\ r.pc = "next" /\ r.app = a /\ r.done = request[w].done
    BY <1>1, <1>2, <2>1 DEF Requests, App
  <2>3. UNCHANGED steps /\ request' = [request EXCEPT ![w] = r]
    BY <1>1, <1>2, <1>5, <2>1 DEF CheckDuplicate, Proceed, OnboardingTypeOK
  <2>4. request'[w] = r /\ \A v \in Workers \ {w} : request'[v] = request[v]
    BY <1>2, <2>3 DEF OnboardingTypeOK
  <2>5. OnboardingTypeOK'
    BY <1>2, <2>2, <2>3 DEF OnboardingTypeOK
  <2>6. \A b \in Apps : Sound(b)'
    BY <1>2, <2>3 DEF Sound, OInv
  <2>7. Placed(w)'
    BY <1>1, <1>2, <1>3, <2>2, <2>3, <2>4 DEF Placed, Stands, App, Done
  <2>8. ASSUME NEW v \in Workers \ {w} PROVE Placed(v)'
    BY <1>2, <2>3, <2>4, <2>8 DEF OInv, Placed, Stands, App, Done
  <2>9. ASSUME NEW b \in Apps \ {a} PROVE Past(b)' => Past(b)
    BY <2>2, <2>3, <2>4 DEF Past, Stands, App
  <2>10. ASSUME NEW b \in Apps \ {a}, Document[b] = Document[a] PROVE ~Past(b)
    <3>1. Sound(b) /\ status[b] \in {"absent", "rejected"}
      BY <1>5, <2>10 DEF HasOther, OInv
    <3>2. CASE status[b] = "rejected"
      BY <3>1, <3>2 DEF Sound, Past
    <3>3. CASE status[b] = "absent"
      <4>1. \A s \in Steps : steps[b][s] = "none"
        BY <1>2, <3>3 DEF OnboardingTypeOK, NoSteps
      <4>2. \A v \in Workers : Stands(v, "next") => App(v) # b
        BY <3>3 DEF OInv, Placed, Stands
      <4> QED BY <4>1, <4>2 DEF Past, Steps, Checks
    <3> QED BY <3>1, <3>2, <3>3
  <2>11. OneIsPast'
    BY <2>9, <2>10 DEF OInv, OneIsPast
  <2> QED BY <1>2, <2>5, <2>6, <2>7, <2>8, <2>11 DEF OInv
<1> QED BY <1>4, <1>5

(* One was found, and the decision is left to an analyst.                        *)
LEMMA AnalystLeftStep ==
    ASSUME OInv, NEW w \in Workers, LeaveToAnalyst(w)
    PROVE  OInv'
<1>1. PICK a : a = App(w)
  OBVIOUS
<1>2. /\ OnboardingTypeOK /\ request[w] \in Requests /\ Placed(w) /\ Stands(w, "found")
      /\ UNCHANGED <<status, accounts, verdict>>
  BY DEF OInv, OnboardingTypeOK, LeaveToAnalyst
<1>3. a \in Apps /\ status[a] # "absent" /\ Sound(a)
  BY <1>1, <1>2 DEF Placed, Stands, OInv
<1>4. PICK r : r = [request[w] EXCEPT !.pc = "update", !.to = "manual_review",
                                      !.done = NoSteps]
  OBVIOUS
<1>5. r \in Requests /\ r.pc = "update" /\ r.to = "manual_review" /\ r.app = a
      /\ r.done = NoSteps
  BY <1>1, <1>2, <1>4 DEF Requests, App, NoSteps, Outcomes
<1>6. /\ RecordStep(a, "decision", "manual_review")
      /\ request' = [request EXCEPT ![w] = r]
  BY <1>1, <1>2, <1>4 DEF LeaveToAnalyst, Finish, OnboardingTypeOK
<1>7. request'[w] = r
  BY <1>2, <1>6 DEF OnboardingTypeOK
<1>8. "decision" \in Steps /\ "manual_review" \in Outcomes
  BY DEF Steps, Outcomes
<1>9. /\ \A t \in Steps \ {"decision"} : steps'[a][t] = steps[a][t]
      /\ steps'[a]["decision"] = IF steps[a]["decision"] = "none" THEN "manual_review"
                                 ELSE steps[a]["decision"]
  BY <1>2, <1>3, <1>6, <1>8, Recorded
<1>10. Sound(a)'
  BY <1>2, <1>3, <1>9 DEF Sound, Rulings, Steps, Checks
<1>11. Placed(w)'
  BY <1>2, <1>3, <1>5, <1>7 DEF Placed, Stands, App, Done, NoSteps
<1>12. Past(a)' => Past(a)
  BY <1>9 DEF Past, Steps, Checks
<1> QED BY <1>1, <1>2, <1>3, <1>5, <1>6, <1>8, <1>10, <1>11, <1>12, RecordingStep DEF Stands

(* A check: its request was past the search already.                             *)
LEMMA CheckStep ==
    ASSUME OInv, NEW w \in Workers, NEW s \in Checks, RunCheck(w, s)
    PROVE  OInv'
<1>1. PICK a : a = App(w)
  OBVIOUS
<1>2. /\ OnboardingTypeOK /\ request[w] \in Requests /\ Placed(w) /\ Stands(w, "next")
      /\ UNCHANGED <<status, accounts, verdict>>
      /\ verdict \in [Apps -> [identity  : {"verified", "rejected", "inconclusive"},
                                screening : {"clear", "hit"}]]
  BY OnboardingAssumption DEF OInv, OnboardingTypeOK, RunCheck, Undone
<1>3. a \in Apps /\ status[a] # "absent" /\ Sound(a) /\ ~Stands(w, "idle")
  BY <1>1, <1>2 DEF Placed, Stands, OInv
<1>4. PICK r : r = [request[w] EXCEPT !.pc = "refresh", !.done = NoSteps]
  OBVIOUS
<1>5. r \in Requests /\ r.pc = "refresh" /\ r.app = a /\ r.done = NoSteps
  BY <1>1, <1>2, <1>4 DEF Requests, App, NoSteps, Outcomes
<1>6. PICK o : o = verdict[a][s]
  OBVIOUS
<1>7. o \in Outcomes /\ s \in Steps /\ o # "none"
  BY <1>2, <1>3, <1>6 DEF Outcomes, Steps, Checks
<1>8. RecordStep(a, s, o) /\ request' = [request EXCEPT ![w] = r]
  BY <1>1, <1>2, <1>4, <1>6 DEF RunCheck, Leave, OnboardingTypeOK
<1>9. request'[w] = r
  BY <1>2, <1>8 DEF OnboardingTypeOK
<1>10. /\ \A t \in Steps \ {s} : steps'[a][t] = steps[a][t]
       /\ steps'[a][s] = IF steps[a][s] = "none" THEN o ELSE steps[a][s]
  BY <1>2, <1>3, <1>7, <1>8, Recorded
<1>11. Sound(a)'
  BY <1>2, <1>3, <1>6, <1>7, <1>10 DEF Sound, Rulings, Steps, Checks
<1>12. s = "screening" => steps[a]["identity"] # "none"
  BY <1>1, <1>2, <1>3 DEF RunCheck, Placed, Done, Steps, Checks, Stands
<1>13. steps'[a]["identity"] # "none"
  BY <1>7, <1>10, <1>12 DEF Steps, Checks
<1>14. Placed(w)'
  BY <1>2, <1>3, <1>5, <1>9, <1>13 DEF Placed, Stands, App, Done, NoSteps
<1>15. Past(a)' => Past(a)
  BY <1>1, <1>2, <1>10 DEF Past, Steps, Checks
<1> QED BY <1>1, <1>2, <1>3, <1>5, <1>7, <1>8, <1>11, <1>14, <1>15, RecordingStep

(* The decision follows from what the request read of the checks, which is on    *)
(* file still.                                                                   *)
LEMMA DecideStep ==
    ASSUME OInv, NEW w \in Workers, Decide(w)
    PROVE  OInv'
<1>1. PICK a : a = App(w)
  OBVIOUS
<1>2. /\ OnboardingTypeOK /\ request[w] \in Requests /\ Placed(w) /\ Stands(w, "next")
      /\ UNCHANGED <<status, accounts, verdict>>
      /\ verdict \in [Apps -> [identity  : {"verified", "rejected", "inconclusive"},
                                screening : {"clear", "hit"}]]
  BY OnboardingAssumption DEF OInv, OnboardingTypeOK, Decide, Undone
<1>3. a \in Apps /\ status[a] # "absent" /\ Sound(a) /\ ~Stands(w, "idle")
  BY <1>1, <1>2 DEF Placed, Stands, OInv
<1>4. PICK o : o = Ruling(request[w].done)
  OBVIOUS
<1>5. /\ o \in {"approved", "rejected", "manual_review"}
      /\ o \in Outcomes /\ "decision" \in Steps
      /\ steps[a]["identity"] # "none" /\ steps[a]["screening"] # "none"
      /\ o = "rejected" => steps[a]["identity"] = "rejected"
      /\ o = "approved" => steps[a]["identity"] = "verified"
                           /\ steps[a]["screening"] = "clear"
  <2>1. /\ request[w].done["identity"] = steps[a]["identity"]
        /\ request[w].done["screening"] = steps[a]["screening"]
        /\ steps[a]["identity"] # "none" /\ steps[a]["screening"] # "none"
    BY <1>1, <1>2, <1>3 DEF Decide, Placed, Done, Steps, Checks
  <2>2. /\ steps[a]["identity"] \in {"verified", "rejected", "inconclusive"}
        /\ steps[a]["screening"] \in {"clear", "hit"}
    BY <1>2, <1>3, <2>1 DEF Sound
  <2> QED BY <1>4, <2>1, <2>2 DEF Ruling, Outcomes, Steps
<1>6. PICK r : r = IF o = "approved"
                   THEN [request[w] EXCEPT !.pc = "refresh", !.done = NoSteps]
                   ELSE [request[w] EXCEPT !.pc = "update", !.to = o, !.done = NoSteps]
  OBVIOUS
<1>7. /\ r \in Requests /\ r.app = a /\ r.done = NoSteps
      /\ r.pc = "refresh" \/ (r.pc = "update" /\ r.to = o)
  BY <1>1, <1>2, <1>5, <1>6 DEF Requests, App, NoSteps, Outcomes
<1>8. RecordStep(a, "decision", o) /\ request' = [request EXCEPT ![w] = r]
  BY <1>1, <1>2, <1>4, <1>6 DEF Decide, Finish, Leave, OnboardingTypeOK
<1>9. request'[w] = r
  BY <1>2, <1>8 DEF OnboardingTypeOK
<1>10. /\ \A t \in Steps \ {"decision"} : steps'[a][t] = steps[a][t]
       /\ steps'[a]["decision"] = IF steps[a]["decision"] = "none" THEN o
                                  ELSE steps[a]["decision"]
  BY <1>2, <1>3, <1>5, <1>8, Recorded
<1>11. Sound(a)'
  BY <1>2, <1>3, <1>5, <1>10 DEF Sound, Rulings, Steps, Checks
<1>12. Placed(w)'
  BY <1>2, <1>3, <1>5, <1>7, <1>9, <1>10 DEF Placed, Stands, App, Done, NoSteps, Steps, Checks
<1>13. Past(a)' => Past(a)
  BY <1>1, <1>2, <1>10 DEF Past, Steps, Checks
<1> QED BY <1>1, <1>2, <1>3, <1>5, <1>7, <1>8, <1>11, <1>12, <1>13, RecordingStep

LEMMA OpeningStep ==
    ASSUME OInv, NEW w \in Workers, RecordOpening(w)
    PROVE  OInv'
<1>1. PICK a : a = App(w)
  OBVIOUS
<1>2. /\ OnboardingTypeOK /\ request[w] \in Requests /\ Placed(w) /\ Stands(w, "opened")
      /\ UNCHANGED <<status, accounts, verdict>>
  BY DEF OInv, OnboardingTypeOK, RecordOpening
<1>3. a \in Apps /\ status[a] # "absent" /\ Sound(a) /\ ~Stands(w, "idle")
  BY <1>1, <1>2 DEF Placed, Stands, OInv
<1>4. /\ a \in accounts
      /\ \A s \in Checks \cup {"decision"} : steps[a][s] # "none"
  BY <1>1, <1>2, <1>3 DEF Placed, Stands
<1>5. PICK r : r = [request[w] EXCEPT !.pc = "set"]
  OBVIOUS
<1>6. r \in Requests /\ r.pc = "set" /\ r.app = a /\ r.done = request[w].done
  BY <1>1, <1>2, <1>5 DEF Requests, App
<1>7. RecordStep(a, "opening", "opened") /\ request' = [request EXCEPT ![w] = r]
  BY <1>1, <1>2, <1>5 DEF RecordOpening, Proceed, OnboardingTypeOK
<1>8. "opening" \in Steps /\ "opened" \in Outcomes
  BY DEF Steps, Outcomes
<1>9. request'[w] = r
  BY <1>2, <1>7 DEF OnboardingTypeOK
<1>10. /\ \A t \in Steps \ {"opening"} : steps'[a][t] = steps[a][t]
       /\ steps'[a]["opening"] = IF steps[a]["opening"] = "none" THEN "opened"
                                 ELSE steps[a]["opening"]
       /\ \A b \in Apps, t \in Steps : steps[b][t] # "none" => steps'[b][t] = steps[b][t]
  BY <1>2, <1>3, <1>7, <1>8, Recorded
<1>11. Sound(a)'
  BY <1>2, <1>3, <1>4, <1>10 DEF Sound, Rulings, Steps, Checks
<1>12. Placed(w)'
  BY <1>1, <1>2, <1>3, <1>4, <1>6, <1>9, <1>10 DEF Placed, Stands, App, Done, Steps, Checks
<1>13. Past(a)' => Past(a)
  BY <1>4, <1>10 DEF Past, Steps, Checks
<1> QED BY <1>1, <1>2, <1>3, <1>6, <1>7, <1>8, <1>11, <1>12, <1>13, RecordingStep

LEMMA ReviewStep ==
    ASSUME OInv, NEW w \in Workers, RecordReview(w)
    PROVE  OInv'
<1>1. PICK a : a = App(w)
  OBVIOUS
<1>2. /\ OnboardingTypeOK /\ request[w] \in Requests /\ Placed(w) /\ Stands(w, "review")
      /\ UNCHANGED <<status, accounts, verdict>>
  BY DEF OInv, OnboardingTypeOK, RecordReview
<1>3. a \in Apps /\ status[a] # "absent" /\ Sound(a) /\ ~Stands(w, "idle")
  BY <1>1, <1>2 DEF Placed, Stands, OInv
<1>4. PICK r : r = [request[w] EXCEPT !.pc = "update"]
  OBVIOUS
<1>5. /\ r \in Requests /\ r.pc = "update" /\ r.app = a /\ r.done = request[w].done
      /\ r.to # "none"
  BY <1>1, <1>2, <1>3, <1>4 DEF Requests, App, Placed
<1>6. PICK o : o = IF request[w].to = "rejected" THEN "rejected" ELSE "approved"
  OBVIOUS
<1>7. o \in Outcomes /\ "manual" \in Steps /\ o # "none"
  BY <1>6 DEF Outcomes, Steps
<1>8. RecordStep(a, "manual", o) /\ request' = [request EXCEPT ![w] = r]
  BY <1>1, <1>2, <1>4, <1>6 DEF RecordReview, Proceed, OnboardingTypeOK
<1>9. request'[w] = r
  BY <1>2, <1>8 DEF OnboardingTypeOK
<1>10. /\ \A t \in Steps \ {"manual"} : steps'[a][t] = steps[a][t]
       /\ steps'[a]["manual"] # "none"
       /\ \A b \in Apps, t \in Steps : steps[b][t] # "none" => steps'[b][t] = steps[b][t]
  BY <1>2, <1>3, <1>7, <1>8, Recorded
<1>11. Sound(a)'
  BY <1>2, <1>3, <1>10 DEF Sound, Rulings, Steps, Checks
<1>12. Placed(w)'
  BY <1>1, <1>2, <1>3, <1>5, <1>9, <1>10 DEF Placed, Stands, App, Done
<1>13. ~Past(a)'
  BY <1>10 DEF Past
<1> QED BY <1>1, <1>2, <1>3, <1>5, <1>7, <1>8, <1>11, <1>12, <1>13, RecordingStep

-----------------------------------------------------------------------------
(* A step that gives an application a status, or an account.                     *)
LEMMA StatusStep ==
    ASSUME OInv, NEW w \in Workers, NEW r \in Requests, NEW a \in Apps,
           NEW x \in Statuses \ {"absent"},
           status' = [status EXCEPT ![a] = x], UNCHANGED <<steps, verdict>>,
           accounts' \in {accounts, accounts \cup {a}},
           request' = [request EXCEPT ![w] = r], r.pc # "next",
           Placed(w)', Sound(a)'
    PROVE  OInv'
<1>1. OnboardingTypeOK
  BY DEF OInv
<1>2. request'[w] = r /\ \A v \in Workers \ {w} : request'[v] = request[v]
  BY <1>1 DEF OnboardingTypeOK
<1>3. /\ status' \in [Apps -> Statuses] /\ status'[a] # "absent"
      /\ \A b \in Apps \ {a} : status'[b] = status[b]
  BY <1>1 DEF OnboardingTypeOK
<1>4. accounts \subseteq accounts' /\ accounts' \subseteq Apps
      /\ \A b \in Apps \ {a} : b \in accounts' <=> b \in accounts
  BY <1>1 DEF OnboardingTypeOK
<1>5. OnboardingTypeOK'
  BY <1>1, <1>3, <1>4 DEF OnboardingTypeOK
<1>6. ASSUME NEW b \in Apps PROVE Past(b)' => Past(b)
  BY <1>2 DEF Past, Stands, App
<1>7. ASSUME NEW b \in Apps \ {a} PROVE Sound(b)'
  BY <1>3, <1>4 DEF OInv, Sound
<1> QED BY <1>2, <1>3, <1>4, <1>5, <1>6, <1>7, OneStep

LEMMA SubmitStep ==
    ASSUME OInv, NEW w \in Workers, NEW a \in Apps, Submit(w, a)
    PROVE  OInv'
<1>1. OnboardingTypeOK /\ Sound(a)
  BY DEF OInv
<1>2. PICK r : r = [Resting EXCEPT !.pc = "status", !.app = a]
  OBVIOUS
<1>3. r \in Requests /\ r.pc = "status" /\ r.app = a /\ r.done = NoSteps
  BY <1>2 DEF Requests, Resting, NoSteps, Outcomes
<1>4. request' = [request EXCEPT ![w] = r] /\ request'[w] = r
  BY <1>1, <1>2 DEF Submit, OnboardingTypeOK
<1>5. PICK x : x = IF status[a] = "absent" THEN "in_progress" ELSE status[a]
  OBVIOUS
<1>6. /\ x \in Statuses \ {"absent"} /\ status' = [status EXCEPT ![a] = x]
      /\ UNCHANGED <<steps, accounts, verdict>>
  BY <1>1, <1>5 DEF Submit, OnboardingTypeOK, Statuses
<1>7. status'[a] = x
  BY <1>1, <1>6 DEF OnboardingTypeOK
<1>8. Sound(a)'
  BY <1>1, <1>5, <1>6, <1>7 DEF Sound
<1>9. Placed(w)'
  BY <1>3, <1>4, <1>6, <1>7 DEF Placed, Stands, App, Done, NoSteps
<1> QED BY <1>3, <1>4, <1>6, <1>8, <1>9, StatusStep

LEMMA UpdateStep ==
    ASSUME OInv, NEW w \in Workers, UpdateStatus(w)
    PROVE  OInv'
<1>1. PICK a : a = App(w)
  OBVIOUS
<1>2. PICK x : x = request[w].to
  OBVIOUS
<1>3. /\ OnboardingTypeOK /\ request[w] \in Requests /\ Placed(w) /\ Stands(w, "update")
      /\ UNCHANGED <<steps, accounts, verdict>>
  BY DEF OInv, OnboardingTypeOK, UpdateStatus
<1>4. /\ a \in Apps /\ Sound(a) /\ x # "none"
      /\ x = "rejected" => steps[a]["manual"] # "none" \/ steps[a]["identity"] = "rejected"
  BY <1>1, <1>2, <1>3 DEF Placed, Stands, OInv
<1>5. PICK r : r = IF x = "in_progress" THEN [request[w] EXCEPT !.pc = "load"] ELSE Resting
  OBVIOUS
<1>6. /\ r \in Requests /\ r.pc \in {"load", "idle"}
      /\ r.pc = "load" => r.app = a /\ r.done = request[w].done
  BY <1>1, <1>3, <1>5 DEF Requests, Resting, App, NoSteps, Outcomes
<1>7. /\ request' = [request EXCEPT ![w] = r] /\ request'[w] = r
      /\ status' = [status EXCEPT ![a] = x] /\ status'[a] = x
  BY <1>1, <1>2, <1>3, <1>4, <1>5 DEF UpdateStatus, Proceed, End, OnboardingTypeOK
<1>8. x \in Statuses \ {"absent"} /\ x # "approved"
  BY <1>2, <1>3, <1>4 DEF Requests, Statuses
<1>9. Sound(a)'
  BY <1>3, <1>4, <1>7, <1>8 DEF Sound
<1>10. Placed(w)'
  BY <1>1, <1>3, <1>4, <1>6, <1>7, <1>8 DEF Placed, Stands, App, Done
<1> QED BY <1>3, <1>4, <1>6, <1>7, <1>8, <1>9, <1>10, StatusStep

LEMMA AccountStep ==
    ASSUME OInv, NEW w \in Workers, OpenAccount(w) \/ SetAccount(w)
    PROVE  OInv'
<1>1. PICK a : a = App(w)
  OBVIOUS
<1>2. /\ OnboardingTypeOK /\ request[w] \in Requests /\ Placed(w) /\ ~Stands(w, "idle")
      /\ UNCHANGED <<steps, verdict>>
  BY DEF OInv, OnboardingTypeOK, OpenAccount, SetAccount, Undone, Stands
<1>3. a \in Apps /\ status[a] \in Statuses \ {"absent"} /\ Sound(a)
  BY <1>1, <1>2 DEF Placed, OInv, OnboardingTypeOK
<1>4. CASE OpenAccount(w)
  <2>1. PICK r : r = [request[w] EXCEPT !.pc = "opened", !.done = NoSteps]
    OBVIOUS
  <2>2. r \in Requests /\ r.pc = "opened" /\ r.app = a /\ r.done = NoSteps
    BY <1>1, <1>2, <2>1 DEF Requests, App, NoSteps, Outcomes
  <2>3. /\ request' = [request EXCEPT ![w] = r] /\ request'[w] = r
        /\ accounts' = accounts \cup {a} /\ UNCHANGED status
    BY <1>1, <1>2, <1>4, <2>1 DEF OpenAccount, Leave, OnboardingTypeOK
  <2>4. status' = [status EXCEPT ![a] = status[a]]
    BY <1>2, <2>3 DEF OnboardingTypeOK
  <2>5. \A s \in Checks \cup {"decision"} : steps[a][s] # "none"
    BY <1>1, <1>2, <1>4 DEF OpenAccount, Placed, Done, Steps, Checks
  <2>6. Sound(a)'
    BY <1>2, <1>3, <2>3 DEF Sound
  <2>7. Placed(w)'
    BY <1>2, <1>3, <2>2, <2>3, <2>5 DEF Placed, Stands, App, Done, NoSteps
  <2> QED BY <1>2, <1>3, <2>2, <2>3, <2>4, <2>6, <2>7, StatusStep
<1>5. CASE SetAccount(w)
  <2>1. Resting \in Requests /\ Resting.pc = "idle"
    BY DEF Resting, Requests, NoSteps, Outcomes
  <2>2. /\ request' = [request EXCEPT ![w] = Resting] /\ request'[w] = Resting
        /\ status' = [status EXCEPT ![a] = "approved"] /\ status'[a] = "approved"
        /\ UNCHANGED accounts /\ "approved" \in Statuses \ {"absent"}
    BY <1>1, <1>2, <1>3, <1>5 DEF SetAccount, End, OnboardingTypeOK, Statuses
  <2>3. /\ a \in accounts /\ \A s \in Steps \ {"manual"} : steps[a][s] # "none"
    BY <1>1, <1>2, <1>5 DEF SetAccount, Placed, Stands, Steps
  <2>4. Sound(a)'
    BY <1>2, <1>3, <2>2, <2>3 DEF Sound
  <2>5. Placed(w)'
    BY <2>1, <2>2 DEF Placed, Stands
  <2> QED BY <1>2, <1>3, <2>1, <2>2, <2>4, <2>5, StatusStep
<1> QED BY <1>4, <1>5

LEMMA AnalystStep ==
    ASSUME OInv, NEW w \in Workers, NEW a \in Apps,
           ApproveManually(w, a) \/ RejectManually(w, a)
    PROVE  OInv'
<1>1. OnboardingTypeOK /\ status[a] # "absent"
  BY DEF OInv, ApproveManually, RejectManually
<1>2. PICK r : r = IF ApproveManually(w, a)
                   THEN [Resting EXCEPT !.pc = "review", !.app = a, !.to = "in_progress"]
                   ELSE [Resting EXCEPT !.pc = "review", !.app = a, !.to = "rejected"]
  OBVIOUS
<1>3. /\ r \in Requests /\ r.pc = "review" /\ r.app = a /\ r.done = NoSteps
      /\ r.to # "none"
  BY <1>2 DEF Requests, Resting, NoSteps, Outcomes
<1>4. /\ request' = [request EXCEPT ![w] = r] /\ request'[w] = r
      /\ UNCHANGED <<status, steps, accounts, verdict>>
  BY <1>1, <1>2 DEF ApproveManually, RejectManually, OnboardingTypeOK
<1>5. Placed(w)'
  BY <1>1, <1>3, <1>4 DEF Placed, Stands, App, Done, NoSteps
<1> QED BY <1>3, <1>4, <1>5, QuietStep

-----------------------------------------------------------------------------
LEMMA NextOInv ==
    ASSUME OInv, [OnboardingNext]_onboardingVars
    PROVE  OInv'
<1>1. ASSUME NEW w \in Workers, NEW a \in Apps,
             Submit(w, a) \/ ApproveManually(w, a) \/ RejectManually(w, a)
      PROVE  OInv'
  BY <1>1, SubmitStep, AnalystStep
<1>2. ASSUME NEW w \in Workers,
             \/ ReadStatus(w) \/ LoadSteps(w) \/ CheckDuplicate(w) \/ LeaveToAnalyst(w)
             \/ Refresh(w) \/ NothingLeft(w) \/ Fail(w)
      PROVE  OInv'
  BY <1>2, ReadingSteps, DuplicateStep, AnalystLeftStep
<1>3. ASSUME NEW w \in Workers,
             \/ \E step \in Checks : RunCheck(w, step)
             \/ Decide(w) \/ RecordOpening(w) \/ RecordReview(w)
      PROVE  OInv'
  BY <1>3, CheckStep, DecideStep, OpeningStep, ReviewStep
<1>4. ASSUME NEW w \in Workers, OpenAccount(w) \/ SetAccount(w) \/ UpdateStatus(w)
      PROVE  OInv'
  BY <1>4, AccountStep, UpdateStep
<1>5. CASE UNCHANGED onboardingVars
  BY <1>5 DEF onboardingVars, OInv, OnboardingTypeOK, Sound, Placed, OneIsPast, Past,
              Stands, App, Done
<1> QED BY <1>1, <1>2, <1>3, <1>4, <1>5 DEF OnboardingNext

(* The inductive invariant holds in every reachable state.                       *)
THEOREM OnboardingInvariant == OnboardingSpec => []OInv
BY InitOInv, NextOInv, PTL DEF OnboardingSpec

(* However many requests serve an application, and wherever they fail, its file  *)
(* sustains the decision that was taken.                                         *)
THEOREM FilesSustainDecisions == OnboardingSpec => []FileSustainsDecision
<1>1. OInv => FileSustainsDecision
  BY DEF OInv, Sound, FileSustainsDecision
<1> QED BY <1>1, OnboardingInvariant, PTL

(* Of the applications with one document, the policy approves one at most: an    *)
(* application is on file before it looks for others, so of two that overlap one *)
(* sees the other.                                                               *)
THEOREM OnePersonOneApproval == OnboardingSpec => []OneApprovedByItself
<1>1. OInv => OneApprovedByItself
  <2> SUFFICES ASSUME OInv, NEW a \in Apps, ByItself(a) PROVE Past(a)
    BY DEF OInv, OneIsPast, OneApprovedByItself
  <2> QED BY DEF OInv, Sound, ByItself, Past
<1> QED BY <1>1, OnboardingInvariant, PTL

(******************************************************************************)
(* Screens: for any payments, sizes of a page and of a window, and however    *)
(* much is posted, refunded, released or let expire while a screen is read.   *)
(******************************************************************************)
PaymentKinds == {"authorization_hold", "authorization_release", "authorization_refund"}
Movements    == [id : Nat \ {0}, kind : {"transfer", "pocket_transfer"} \cup PaymentKinds,
                 amount : Int, payment : Payments \cup {NoPayment}]
PaymentStates     == {"none", "authorized", "captured", "expired", "released", "partially_refunded", "refunded"}

(* What a payment is now out of the account for, by its row.                     *)
StillOut(a) == IF a.status \in {"none", "released"} THEN 0 ELSE a.amount - a.refunded

(* What a posting that has not committed may still do to its payment.            *)
Fits(m, a) ==
    CASE m.kind = "authorization_hold"    -> a.status = "none" /\ m.amount < 0
      [] m.kind = "authorization_release" -> a.status \in {"authorized", "expired"} /\ m.amount = a.amount
      [] m.kind = "authorization_refund"  -> /\ a.status \in {"captured", "partially_refunded"}
                                             /\ m.amount > 0 /\ m.amount <= a.amount - a.refunded
      [] OTHER -> FALSE

LedgerTypeOK ==
    /\ nextId \in Nat \ {0}
    /\ IsFiniteSet(movements) /\ movements \subseteq Movements /\ posting \subseteq Movements
    /\ payments \in [Payments -> [status : PaymentStates, amount : Nat, refunded : Nat]]
    /\ bought \in Seq(Mandated)

(* The ledger behind the screens: an id is taken once, and a payment is out for  *)
(* what its row says.                                                            *)
LedgerInv ==
    /\ LedgerTypeOK
    /\ movements \cap posting = {}
    /\ \A m \in movements \cup posting : m.id < nextId
    /\ \A m, n \in movements \cup posting : m.id = n.id => m = n
    /\ \A m \in posting : m.payment # NoPayment => Fits(m, payments[m.payment])
    /\ \A m, n \in posting : m.payment # NoPayment /\ m.payment = n.payment => m = n
    /\ \A p \in Payments :
          /\ Out(p) = StillOut(payments[p])
          /\ payments[p].refunded <= payments[p].amount
          /\ payments[p].status \in {"none", "authorized", "expired"} => payments[p].refunded = 0
    /\ \A i, j \in DOMAIN bought : bought[i] = bought[j] => i = j
    /\ \A i \in DOMAIN bought : payments[bought[i]].status # "none"

-------------------------------------------------------------------------------
Since(cursor) == {m \in began.movements : cursor # NoCursor => m.id >= cursor}
Downto(rows, cursor) == cursor # NoCursor => \A i \in DOMAIN rows : rows[i].id >= cursor
Listed == [movement : Movements, told : {"movement", "platform", "purchase"}]

HomeRead ==
    screen.what = "home" =>
        /\ screen.balance \in balances
        /\ \/ screen \in [what : {"home"}, step : {"balance", "agreed", "unavailable"}, balance : Int]
           \/ /\ screen.step \in {"listed", "shown"}
              /\ screen.rows \in Seq(Listed) /\ Newest(Rows) /\ Labels
              /\ Len(screen.rows) < PageSize => began.movements \subseteq ToSet(Rows)

OpenPages == [what : {"movements"}, rows : Seq(Listed), cursor : Nat, more : BOOLEAN]

PagesRead ==
    screen.what = "movements" =>
        /\ screen \in OpenPages
        /\ Newest(Rows) /\ Labels /\ Downto(Rows, screen.cursor)
        /\ screen.more /\ screen.cursor = NoCursor => screen.rows = << >>
        /\ ~screen.more => screen.cursor = NoCursor
        /\ ~screen.more \/ screen.cursor # NoCursor => Since(screen.cursor) \subseteq ToSet(Rows)

Observed(m) == m.id > Window /\ m.kind # "pocket_transfer"

OpenRisk == [what : {"risk"}, seen : Seq(Movements), cursor : Nat, page : Nat, more : BOOLEAN]

RiskRead ==
    screen.what = "risk" =>
        /\ screen \in OpenRisk
        /\ Newest(screen.seen) /\ Downto(screen.seen, screen.cursor)
        /\ \A i \in DOMAIN screen.seen : Observed(screen.seen[i])
        /\ screen.more /\ screen.cursor = NoCursor => screen.seen = << >>
        /\ ~screen.more => screen.cursor = NoCursor \/ screen.page >= ScanPages \/ screen.cursor <= Window
        /\ ~screen.more \/ screen.cursor # NoCursor =>
              {m \in Since(screen.cursor) : Observed(m)} \subseteq ToSet(screen.seen)

(* What was counted for a payment is no more than was out for it, and no less    *)
(* than is, unless it has expired.                                               *)
CountedFor(p, x) ==
    /\ x <= began.out[p]
    /\ payments[p].status = "expired" \/ Out(p) <= x

OpenTask == [what : {"task"}, this : Payments, left : Seq(Payments), counted : SUBSET Payments, total : Nat]

TaskRead ==
    screen.what = "task" =>
        /\ screen \in OpenTask
        /\ IsFiniteSet(screen.counted)
        /\ \A i, j \in DOMAIN screen.left : screen.left[i] = screen.left[j] => i = j
        /\ \A i \in DOMAIN screen.left : screen.left[i] \notin screen.counted
        /\ \A p \in screen.counted \cup ToSet(screen.left) :
              payments[p].status # "none" /\ began.out[p] \in Int /\ Out(p) <= began.out[p]
        /\ \E v \in [screen.counted -> Nat] : /\ screen.total = SumFunction(v)
                                              /\ \A p \in screen.counted : CountedFor(p, v[p])

(* The inductive invariant.                                                      *)
ScreensInv ==
    /\ LedgerInv
    /\ began.movements \subseteq movements
    /\ HomeRead /\ PagesRead /\ RiskRead /\ TaskRead

-------------------------------------------------------------------------------
(* A finite set whose members have ids of their own is listed whole, by id.      *)
Told(S) == IsFiniteSet(S) /\ (\A m \in S : m.id \in Nat) /\ \A m, n \in S : m.id = n.id => m = n

LEMMA NewestFirstLists ==
    ASSUME NEW S, Told(S)
    PROVE  /\ Cardinality(S) \in Nat /\ NewestFirst(S) \in [1..Cardinality(S) -> S]
           /\ Newest(NewestFirst(S))
           /\ \A m \in S : \E i \in 1..Cardinality(S) : NewestFirst(S)[i] = m
<1> DEFINE From(m) == {n \in S : n.id >= m.id}
           rank == [m \in S |-> Cardinality(From(m))]
           size == Cardinality(S)
           q == NewestFirst(S)
<1>1. IsFiniteSet(S) /\ size \in Nat /\ (\A m \in S : m.id \in Nat) /\ \A m, n \in S : m.id = n.id => m = n
  BY FS_CardinalityType DEF Told
<1>2. \A m \in S : IsFiniteSet(From(m)) /\ Cardinality(From(m)) \in 1..size
  <2> TAKE m \in S
  <2>1. From(m) \in SUBSET S /\ m \in From(m)
    BY <1>1
  <2>2. IsFiniteSet(From(m)) /\ Cardinality(From(m)) <= size /\ Cardinality(From(m)) \in Nat
    BY <1>1, <2>1, FS_Subset, FS_CardinalityType
  <2>3. Cardinality(From(m)) # 0
    BY <2>1, <2>2, FS_EmptySet
  <2> QED BY <1>1, <2>2, <2>3
<1>3. \A m, n \in S : m.id < n.id => rank[n] < rank[m]
  <2> TAKE m, n \in S
  <2> HAVE m.id < n.id
  <2>1. From(n) \in SUBSET From(m) /\ m \in From(m) /\ m \notin From(n)
    BY <1>1
  <2>2. IsFiniteSet(From(m)) /\ Cardinality(From(m)) \in 1..size /\ Cardinality(From(n)) \in 1..size
    BY <1>2
  <2>3. Cardinality(From(n)) <= Cardinality(From(m)) /\ Cardinality(From(n)) # Cardinality(From(m))
    BY <2>1, <2>2, FS_Subset
  <2> HIDE DEF From
  <2> QED BY <1>1, <2>2, <2>3
<1>4. rank \in Injection(S, 1..size)
  <2>1. rank \in [S -> 1..size]
    BY <1>2
  <2>2. \A m, n \in S : rank[m] = rank[n] => m = n
    <3> TAKE m, n \in S
    <3>1. rank[m] \in Nat /\ rank[n] \in Nat /\ m.id \in Nat /\ n.id \in Nat
      BY <1>1, <2>1
    <3>2. m.id < n.id \/ n.id < m.id \/ m.id = n.id
      BY <3>1
    <3> HIDE DEF rank
    <3> QED BY <1>1, <1>3, <3>1, <3>2
  <2> HIDE DEF rank
  <2> QED BY <2>1, <2>2 DEF Injection, IsInjective
<1>5. rank \in Surjection(S, 1..size)
  <2>1. IsFiniteSet(1..size) /\ Cardinality(1..size) = size
    BY <1>1, FS_Interval
  <2> HIDE DEF rank
  <2> QED BY <1>4, <2>1, FS_Injection
<1>6. \A i \in 1..size : q[i] \in S /\ rank[q[i]] = i
  <2> TAKE i \in 1..size
  <2>1. \E m \in S : rank[m] = i
    <3> HIDE DEF rank
    <3> QED BY <1>5 DEF Surjection
  <2>2. \E m \in S : Cardinality(From(m)) = i
    BY <2>1
  <2>3. q[i] = CHOOSE m \in S : Cardinality(From(m)) = i
    BY DEF NewestFirst
  <2>4. q[i] \in S /\ Cardinality(From(q[i])) = i
    BY <2>2, <2>3
  <2> QED BY <2>4
<1>7. q \in [1..size -> S]
  BY <1>6 DEF NewestFirst
<1>8. \A m \in S : \E i \in 1..size : q[i] = m
  <2> TAKE m \in S
  <2>1. rank[m] \in 1..size
    BY <1>2
  <2>2. q[rank[m]] \in S /\ rank[q[rank[m]]] = rank[m]
    BY <1>6, <2>1
  <2> HIDE DEF rank, q
  <2> QED BY <1>4, <2>1, <2>2 DEF Injection, IsInjective
<1>9. Newest(q)
  <2> SUFFICES ASSUME NEW i \in 1..size, NEW j \in 1..size, i < j PROVE q[i].id > q[j].id
    BY <1>7 DEF Newest
  <2>1. q[i] \in S /\ q[j] \in S /\ rank[q[i]] = i /\ rank[q[j]] = j
    BY <1>6
  <2> PICK m \in S, n \in S : m = q[i] /\ n = q[j]
    BY <2>1
  <2> HIDE DEF rank, q
  <2>2. m # n /\ m.id \in Nat /\ n.id \in Nat
    BY <1>1, <2>1
  <2>3. ~(m.id < n.id)
    BY <1>3, <2>1
  <2>4. m.id # n.id
    BY <1>1, <2>2
  <2> QED BY <2>2, <2>3, <2>4
<1> HIDE DEF q
<1> QED BY <1>1, <1>7, <1>8, <1>9 DEF q

LEMMA LedgerTold ==
    ASSUME LedgerInv, NEW S \in SUBSET movements
    PROVE  Told(S)
<1>1. IsFiniteSet(movements) /\ \A m \in movements : m.id \in Nat
  BY DEF LedgerInv, LedgerTypeOK, Movements
<1>2. \A m, n \in movements : m.id = n.id => m = n
  BY DEF LedgerInv
<1> QED BY <1>1, <1>2, FS_Subset DEF Told

LEMMA LeastOfTwo ==
    ASSUME NEW a \in Int, NEW b \in Int
    PROVE  Min({a, b}) = IF a <= b THEN a ELSE b
<1> PICK m : m = IF a <= b THEN a ELSE b
  OBVIOUS
<1>1. m \in {a, b} /\ \A y \in {a, b} : m <= y
  OBVIOUS
<1>2. \A x \in {a, b} : (\A y \in {a, b} : x <= y) => x = m
  OBVIOUS
<1> QED BY <1>1, <1>2 DEF Min

(* The first rows of a listing.                                                  *)
LEMMA FirstRowsAre ==
    ASSUME NEW q, NEW n \in Nat, Len(q) = n, NEW k \in Nat, NEW l \in Nat, l = IF k <= n THEN k ELSE n
    PROVE  /\ Len(FirstOf(k, q)) = l /\ \A i \in 1..l : FirstOf(k, q)[i] = q[i]
           /\ \A S : (\A i \in 1..n : q[i] \in S) => FirstOf(k, q) \in Seq(S)
<1>1. Min({k, n}) = l /\ l <= n
  BY LeastOfTwo
<1>2. FirstOf(k, q) = SubSeq(q, 1, l)
  BY <1>1 DEF FirstOf
<1>3. ASSUME NEW S, \A i \in 1..n : q[i] \in S
      PROVE  /\ SubSeq(q, 1, l) \in Seq(S)
             /\ Len(SubSeq(q, 1, l)) = IF 1 <= l THEN l - 1 + 1 ELSE 0
             /\ \A i \in 1..(l - 1 + 1) : SubSeq(q, 1, l)[i] = q[1 + i - 1]
  <2>1. \A i \in 1..l : q[i] \in S
    BY <1>1, <1>3
  <2> QED BY <2>1, SubSeqProperties
<1>4. l - 1 + 1 = l /\ \A i \in 1..l : 1 + i - 1 = i
  OBVIOUS
<1>5. \A i \in 1..n : q[i] \in {q[j] : j \in 1..n}
  OBVIOUS
<1>6. Len(SubSeq(q, 1, l)) = l /\ \A i \in 1..l : SubSeq(q, 1, l)[i] = q[i]
  <2>1. /\ Len(SubSeq(q, 1, l)) = IF 1 <= l THEN l - 1 + 1 ELSE 0
        /\ \A i \in 1..(l - 1 + 1) : SubSeq(q, 1, l)[i] = q[1 + i - 1]
    BY ONLY <1>3, <1>5
  <2> QED BY ONLY <1>4, <2>1, l \in Nat
<1> QED BY <1>2, <1>3, <1>6

(* A page goes on exactly where the last one ended, and leaves nothing out that  *)
(* has committed.                                                                *)
LEMMA PageTells ==
    ASSUME LedgerInv, NEW cursor \in Nat
    PROVE  LET page == ListMovements(PageSize, cursor)
               rows == page.movements
               Older(m) == cursor # NoCursor => m.id < cursor
           IN
           /\ rows \in Seq(movements) /\ Newest(rows) /\ page.next \in Nat
           /\ \A i \in DOMAIN rows : Older(rows[i])
           /\ page.next # NoCursor => /\ cursor # NoCursor => page.next < cursor
                                      /\ \E i \in DOMAIN rows : rows[i].id = page.next
           /\ Downto(rows, page.next)
           /\ \A m \in movements : Older(m) /\ (page.next # NoCursor => m.id >= page.next) => m \in ToSet(rows)
           /\ Len(rows) < PageSize => page.next = NoCursor
<1> DEFINE older == {m \in movements : cursor = NoCursor \/ m.id < cursor}
           n == Cardinality(older)
           q == NewestFirst(older)
           found == list_entries(PageSize + 1, cursor)
           page == ListMovements(PageSize, cursor)
           rows == page.movements
<1>1. PageSize \in Nat \ {0}
  BY ScreensAssumption
<1>2. n \in Nat /\ q \in [1..n -> older] /\ Newest(q) /\ \A m \in older : \E i \in 1..n : q[i] = m
  <2>1. older \in SUBSET movements
    OBVIOUS
  <2>2. Told(older)
    BY <2>1, LedgerTold
  <2> HIDE DEF older
  <2> QED BY <2>2, NewestFirstLists
<1>3. \A m \in older : m \in movements /\ m.id \in Nat \ {0} /\ (cursor # NoCursor => m.id < cursor)
  BY DEF LedgerInv, LedgerTypeOK, Movements
<1>3a. \A m \in movements : (cursor # NoCursor => m.id < cursor) => m \in older
  OBVIOUS
<1>4. found = FirstOf(PageSize + 1, q) /\ rows = FirstOf(PageSize, found)
  BY DEF list_entries, ListMovements
<1> HIDE DEF q, n, older, found, rows
<1>5. PICK l \in Nat : l = IF PageSize + 1 <= n THEN PageSize + 1 ELSE n
  BY <1>1, <1>2
<1>6. found \in [1..l -> older] /\ Len(found) = l /\ l <= n /\ \A i \in 1..l : found[i] = q[i]
  <2> PICK limit \in Nat : limit = PageSize + 1
    BY <1>1
  <2>1. Len(q) = n /\ \A i \in 1..n : q[i] \in older
    BY <1>2
  <2>2. limit \in Nat /\ n \in Nat /\ l \in Nat /\ Len(q) = n /\ l = IF limit <= n THEN limit ELSE n
    BY <1>2, <1>5, <2>1
  <2>3. /\ Len(FirstOf(limit, q)) = l /\ \A i \in 1..l : FirstOf(limit, q)[i] = q[i]
        /\ FirstOf(limit, q) \in Seq(older)
    <3>1. \A i \in 1..n : q[i] \in older
      BY <2>1
    <3> QED BY ONLY <2>2, <3>1, FirstRowsAre
  <2> QED BY <1>1, <1>2, <1>4, <1>5, <2>3
<1>7. PICK k \in Nat : k = IF PageSize <= l THEN PageSize ELSE l
  BY <1>1
<1>8. rows \in Seq(older) /\ Len(rows) = k /\ k <= n /\ \A i \in 1..k : rows[i] = q[i]
  <2>1. rows \in Seq(older) /\ Len(rows) = k /\ \A i \in 1..k : rows[i] = found[i]
    <3>1. \A i \in 1..l : found[i] \in older
      BY <1>6
    <3>2. PageSize \in Nat /\ l \in Nat /\ k \in Nat /\ Len(found) = l /\ k = IF PageSize <= l THEN PageSize ELSE l
      BY <1>1, <1>6, <1>7
    <3>3. /\ Len(FirstOf(PageSize, found)) = k /\ \A i \in 1..k : FirstOf(PageSize, found)[i] = found[i]
          /\ FirstOf(PageSize, found) \in Seq(older)
      BY ONLY <3>1, <3>2, FirstRowsAre
    <3> QED BY <1>4, <3>3
  <2>2. k <= l
    BY <1>1, <1>7
  <2>3. k <= n
    BY <1>2, <1>6, <2>2
  <2>4. \A i \in 1..k : i \in 1..l
    BY <2>2
  <2> QED BY <1>6, <2>1, <2>3, <2>4
<1>9. page.next = IF l > PageSize THEN Last(rows).id ELSE NoCursor
  BY <1>6 DEF ListMovements, found, rows
<1> HIDE DEF page
<1>10. /\ rows \in Seq(movements) /\ DOMAIN rows = 1..k
       /\ \A i \in 1..k : /\ rows[i] \in movements /\ rows[i].id \in Nat \ {0}
                          /\ (cursor # NoCursor => rows[i].id < cursor)
  <2>1. DOMAIN rows = 1..k /\ \A i \in 1..k : rows[i] \in older
    BY <1>8
  <2> QED BY <1>3, <1>8, <2>1
<1>11. \A i, j \in 1..k : i < j => rows[i].id > rows[j].id
  <2> TAKE i, j \in 1..k
  <2> HAVE i < j
  <2>1. i \in DOMAIN q /\ j \in DOMAIN q /\ rows[i] = q[i] /\ rows[j] = q[j]
    BY <1>2, <1>8
  <2> QED BY <1>2, <2>1 DEF Newest
<1>12. Newest(rows)
  BY <1>10, <1>11 DEF Newest
<1>13. CASE l > PageSize
  <2>1. k = PageSize /\ k \in 1..k /\ page.next = rows[k].id
    BY <1>1, <1>7, <1>8, <1>9, <1>13 DEF Last
  <2>2. page.next \in Nat /\ page.next # NoCursor /\ (cursor # NoCursor => page.next < cursor)
    BY <1>10, <2>1 DEF NoCursor
  <2>3. Downto(rows, page.next)
    <3> SUFFICES ASSUME NEW i \in 1..k PROVE rows[i].id >= page.next
      BY <1>10 DEF Downto
    <3>1. CASE i = k
      BY <1>10, <2>1, <3>1
    <3>2. CASE i < k
      BY <1>10, <1>11, <2>1, <3>2
    <3> QED BY <3>1, <3>2
  <2>4. ASSUME NEW m \in older, m.id >= page.next PROVE m \in ToSet(rows)
    <3>1. PICK i \in 1..n : q[i] = m
      BY <1>2
    <3>2. CASE i <= k
      <4>1. i \in DOMAIN rows /\ rows[i] = m
        BY <1>8, <1>10, <3>1, <3>2
      <4> QED BY <4>1 DEF ToSet
    <3>3. CASE ~(i <= k)
      <4>1. k \in 1..n /\ k < i /\ q[k] = rows[k]
        BY <1>8, <2>1, <3>3
      <4>2. q[k].id > q[i].id
        BY <1>2, <3>1, <4>1 DEF Newest
      <4>3. m.id \in Nat /\ rows[k].id \in Nat
        BY <1>3, <1>10, <2>1
      <4> QED BY <2>1, <2>4, <3>1, <4>1, <4>2, <4>3
    <3> QED BY <3>2, <3>3
  <2> QED BY <1>3a, <1>8, <1>10, <1>12, <2>1, <2>2, <2>3, <2>4 DEF page, rows
<1>14. CASE ~(l > PageSize)
  <2>1. k = n /\ page.next = NoCursor /\ page.next \in Nat
    BY <1>1, <1>2, <1>5, <1>7, <1>9, <1>14 DEF NoCursor
  <2>2. ASSUME NEW m \in older PROVE m \in ToSet(rows)
    <3>1. PICK i \in 1..n : q[i] = m
      BY <1>2
    <3>2. i \in DOMAIN rows /\ rows[i] = m
      BY <1>8, <1>10, <2>1, <3>1
    <3> QED BY <3>2 DEF ToSet
  <2>3. Downto(rows, page.next)
    BY <2>1 DEF Downto
  <2> QED BY <1>3a, <1>10, <1>12, <2>1, <2>2, <2>3 DEF page, rows
<1> QED BY <1>13, <1>14

-------------------------------------------------------------------------------
LEMMA OutInt ==
    ASSUME LedgerInv, NEW p
    PROVE  Out(p) \in Int
<1> DEFINE own == {m \in movements : m.payment = p}
<1>1. IsFiniteSet(own) /\ \A m \in own : m.amount \in Int
  BY FS_Subset DEF LedgerInv, LedgerTypeOK, Movements
<1> HIDE DEF own
<1>2. Total(own) \in Int
  BY <1>1, AmountsType DEF Total
<1> QED BY <1>2 DEF Out, own

LEMMA OutIntThen ==
    ASSUME LedgerInv', NEW p
    PROVE  Out(p)' \in Int
<1> DEFINE own == {m \in movements' : m.payment = p}
<1>1. IsFiniteSet(own) /\ \A m \in own : m.amount \in Int
  BY FS_Subset DEF LedgerInv, LedgerTypeOK, Movements
<1> HIDE DEF own
<1>2. Total(own) \in Int
  BY <1>1, AmountsType DEF Total
<1> QED BY <1>2 DEF Out, Total, own

LEMMA BalanceInt == ASSUME LedgerInv PROVE Balance \in Int
<1>1. IsFiniteSet(movements) /\ \A m \in movements : m.amount \in Int
  BY DEF LedgerInv, LedgerTypeOK, Movements
<1> QED BY <1>1, AmountsType DEF Total, Balance

(* A movement that commits comes out of its own payment only.                    *)
LEMMA OutWith ==
    ASSUME LedgerInv, NEW m \in Movements, m \notin movements, movements' = movements \cup {m}, NEW p
    PROVE  Out(p)' = IF m.payment = p THEN Out(p) - m.amount ELSE Out(p)
<1> DEFINE own == {n \in movements : n.payment = p}
           then == {n \in movements' : n.payment = p}
<1>1. IsFiniteSet(own) /\ (\A n \in own : n.amount \in Int) /\ m.amount \in Int
  BY FS_Subset DEF LedgerInv, LedgerTypeOK, Movements
<1>2. Out(p) = -Total(own) /\ Out(p)' = -Total(then)
  BY DEF Out, Total
<1>3. CASE m.payment = p
  <2>1. then = own \cup {m} /\ m \notin own
    BY <1>3
  <2> HIDE DEF own, then
  <2>2. Total(then) = m.amount + Total(own) /\ Total(own) \in Int
    BY <1>1, <2>1, AmountsWith, AmountsType DEF Total
  <2> QED BY <1>1, <1>2, <1>3, <2>2
<1>4. CASE m.payment # p
  <2>1. then = own
    BY <1>4
  <2> QED BY <1>2, <1>4, <2>1
<1> QED BY <1>3, <1>4

(* What the ledger never takes back.                                             *)
Onwards ==
    /\ UNCHANGED <<screen, began>> /\ movements \subseteq movements' /\ balances \subseteq balances'
    /\ ToSet(bought) \subseteq ToSet(bought')
    /\ \A p \in Payments :
          /\ payments[p].status # "none" => payments'[p].status # "none" /\ Out(p)' <= Out(p)
          /\ payments[p].status = "expired" => payments'[p].status = "expired" \/ Out(p)' = 0

LEMMA InsertKeeps ==
    ASSUME LedgerInv, NEW kind \in {"transfer", "pocket_transfer"} \cup PaymentKinds, NEW x \in Int,
           NEW p \in Payments \cup {NoPayment}, Insert(kind, x, p),
           p # NoPayment => Fits([id |-> nextId, kind |-> kind, amount |-> x, payment |-> p], payments[p])
    PROVE  LedgerInv' /\ Onwards
<1> PICK m : m = [id |-> nextId, kind |-> kind, amount |-> x, payment |-> p]
  OBVIOUS
<1>1. /\ posting' = posting \cup {m} /\ nextId' = nextId + 1
      /\ UNCHANGED <<movements, payments, bought, screen, began, balances>>
      /\ p # NoPayment => \A n \in posting : n.payment # p
  BY DEF Insert
<1>2. m \in Movements /\ m.id = nextId /\ m.payment = p /\ nextId \in Nat \ {0}
  BY DEF LedgerInv, LedgerTypeOK, Movements
<1>3. \A q : Out(q)' = Out(q) /\ Out(q) \in Int
  BY <1>1, OutInt DEF Out, Total
<1>4. LedgerTypeOK'
  BY <1>1, <1>2 DEF LedgerInv, LedgerTypeOK
<1>5. \A n \in movements \cup posting : n.id < nextId /\ n.id # m.id /\ n # m /\ n.id \in Nat
  BY <1>2 DEF LedgerInv, LedgerTypeOK, Movements
<1>6. /\ movements' \cap posting' = {}
      /\ \A n \in movements' \cup posting' : n.id < nextId'
      /\ \A n, o \in movements' \cup posting' : n.id = o.id => n = o
  BY <1>1, <1>2, <1>5 DEF LedgerInv
<1>7. \A n \in posting' : n.payment # NoPayment => Fits(n, payments[n.payment])'
  <2> TAKE n \in posting'
  <2>1. CASE n = m
    BY <1>1, <1>2, <2>1 DEF Fits
  <2>2. CASE n \in posting
    BY <1>1, <2>2 DEF LedgerInv, Fits
  <2> QED BY <1>1, <2>1, <2>2
<1>8. \A n, o \in posting' : n.payment # NoPayment /\ n.payment = o.payment => n = o
  BY <1>1, <1>2 DEF LedgerInv
<1>9. Onwards
  BY <1>1, <1>3 DEF Onwards
<1> QED BY <1>1, <1>3, <1>4, <1>6, <1>7, <1>8, <1>9 DEF LedgerInv, StillOut
(* The row of a payment and what is out for it change together.                  *)
LEMMA RowChanges ==
    ASSUME LedgerInv, NEW m \in posting, m.payment # NoPayment, m.payment \in Payments
    PROVE  LET a == payments[m.payment]
               b == Changed(m.payment, m)
           IN /\ b \in [status : PaymentStates, amount : Nat, refunded : Nat]
              /\ StillOut(b) = StillOut(a) - m.amount
              /\ b.refunded <= b.amount /\ (b.status \in {"none", "authorized", "expired"} => b.refunded = 0)
              /\ b.status # "none"
              /\ a.status # "none" => m.amount >= 0
              /\ a.status = "expired" => StillOut(b) = 0
<1> PICK a : a = payments[m.payment]
  OBVIOUS
<1> PICK b : b = Changed(m.payment, m)
  OBVIOUS
<1>1. /\ a \in [status : PaymentStates, amount : Nat, refunded : Nat] /\ a.refunded <= a.amount
      /\ a.status \in {"none", "authorized", "expired"} => a.refunded = 0
      /\ Fits(m, a) /\ m.amount \in Int
  BY DEF LedgerInv, LedgerTypeOK, Movements
<1>2. CASE m.kind = "authorization_hold"
  <2>1. a.status = "none" /\ m.amount < 0 /\ a.refunded = 0
    BY <1>1, <1>2 DEF Fits
  <2>2. b = [a EXCEPT !.status = "authorized", !.amount = -m.amount]
    BY <1>2 DEF Changed
  <2>3. b.status = "authorized" /\ b.amount = -m.amount /\ b.refunded = 0 /\ b.amount \in Nat
    BY <1>1, <2>1, <2>2
  <2>4. b \in [status : PaymentStates, amount : Nat, refunded : Nat]
    BY <1>1, <2>2, <2>3 DEF PaymentStates
  <2> QED BY <1>1, <2>1, <2>3, <2>4 DEF StillOut
<1>3. CASE m.kind = "authorization_release"
  <2>1. a.status \in {"authorized", "expired"} /\ m.amount = a.amount /\ a.refunded = 0
    BY <1>1, <1>3 DEF Fits
  <2>2. b = [a EXCEPT !.status = "released"]
    BY <1>3 DEF Changed
  <2>3. b.status = "released" /\ b.amount = a.amount /\ b.refunded = 0
    BY <1>1, <2>1, <2>2
  <2>4. b \in [status : PaymentStates, amount : Nat, refunded : Nat]
    BY <1>1, <2>2, <2>3 DEF PaymentStates
  <2> QED BY <1>1, <2>1, <2>3, <2>4 DEF StillOut
<1>4. CASE m.kind = "authorization_refund"
  <2>1. a.status \in {"captured", "partially_refunded"} /\ m.amount > 0 /\ m.amount <= a.amount - a.refunded
    BY <1>1, <1>4 DEF Fits
  <2> PICK outcome \in {"refunded", "partially_refunded"} :
          outcome = IF a.refunded + m.amount = a.amount THEN "refunded" ELSE "partially_refunded"
    OBVIOUS
  <2>2. a.refunded \in Nat /\ a.amount \in Nat
    BY <1>1
  <2>3. PICK back \in Nat : back = a.refunded + m.amount /\ back <= a.amount
    BY <1>1, <2>1, <2>2
  <2>4. b = [a EXCEPT !.refunded = back, !.status = outcome]
    BY <1>4, <2>3 DEF Changed
  <2>5. b.status = outcome /\ b.amount = a.amount /\ b.refunded = back
    BY <1>1, <2>4
  <2>6. b \in [status : PaymentStates, amount : Nat, refunded : Nat]
    BY <1>1, <2>4 DEF PaymentStates
  <2> QED BY <1>1, <2>1, <2>2, <2>3, <2>5, <2>6 DEF StillOut
<1> QED BY <1>1, <1>2, <1>3, <1>4 DEF Fits

LEMMA CommitKeeps ==
    ASSUME LedgerInv, NEW m \in posting, Commit(m)
    PROVE  LedgerInv' /\ Onwards
<1>1. /\ movements' = movements \cup {m} /\ posting' = posting \ {m}
      /\ payments' = IF m.payment = NoPayment THEN payments
                     ELSE [payments EXCEPT ![m.payment] = Changed(m.payment, m)]
      /\ UNCHANGED <<nextId, bought, screen, began>> /\ balances \subseteq balances'
  BY DEF Commit
<1>2. /\ m \in Movements /\ m \notin movements /\ m.payment \in Payments \cup {NoPayment}
      /\ payments \in [Payments -> [status : PaymentStates, amount : Nat, refunded : Nat]]
      /\ NoPayment \notin Payments
  BY ScreensAssumption DEF LedgerInv, LedgerTypeOK, Movements
<1>3. \A p \in Payments : /\ Out(p) = StillOut(payments[p]) /\ Out(p) \in Int
                          /\ Out(p)' = IF m.payment = p THEN Out(p) - m.amount ELSE Out(p)
  BY <1>1, <1>2, OutWith, OutInt DEF LedgerInv
<1>4. \A p \in Payments : p # m.payment => payments'[p] = payments[p]
  BY <1>1, <1>2
<1>5. m.payment \in Payments => payments'[m.payment] = Changed(m.payment, m)
  BY <1>1, <1>2
<1>6. ASSUME NEW p \in Payments
      PROVE  /\ payments'[p] \in [status : PaymentStates, amount : Nat, refunded : Nat]
             /\ Out(p)' = StillOut(payments'[p])
             /\ payments'[p].refunded <= payments'[p].amount
             /\ payments'[p].status \in {"none", "authorized", "expired"} => payments'[p].refunded = 0
             /\ payments[p].status # "none" => payments'[p].status # "none" /\ Out(p)' <= Out(p)
             /\ payments[p].status = "expired" => payments'[p].status = "expired" \/ Out(p)' = 0
  <2>1. CASE p = m.payment
    <3>1. m.payment # NoPayment /\ m.payment \in Payments
      BY <1>2, <2>1
    <3> PICK b : b = Changed(m.payment, m)
      OBVIOUS
    <3>2. /\ b \in [status : PaymentStates, amount : Nat, refunded : Nat]
          /\ StillOut(b) = StillOut(payments[p]) - m.amount
          /\ b.refunded <= b.amount /\ (b.status \in {"none", "authorized", "expired"} => b.refunded = 0)
          /\ b.status # "none"
          /\ payments[p].status # "none" => m.amount >= 0
          /\ payments[p].status = "expired" => StillOut(b) = 0
      BY <2>1, <3>1, RowChanges
    <3>3. payments'[p] = b /\ Out(p)' = Out(p) - m.amount /\ Out(p) = StillOut(payments[p]) /\ Out(p) \in Int
      BY <1>3, <1>5, <2>1, <3>1
    <3>4. m.amount \in Int
      BY <1>2 DEF Movements
    <3> QED BY <3>2, <3>3, <3>4
  <2>2. CASE p # m.payment
    <3>1. payments'[p] = payments[p] /\ Out(p)' = Out(p) /\ Out(p) \in Int
      BY <1>3, <1>4, <2>2
    <3> QED BY <3>1 DEF LedgerInv, LedgerTypeOK
  <2> QED BY <2>1, <2>2
<1>7. LedgerTypeOK'
  <2>1. DOMAIN payments' = Payments /\ payments' = [p \in Payments |-> payments'[p]]
    BY <1>1, <1>2
  <2>2. payments' \in [Payments -> [status : PaymentStates, amount : Nat, refunded : Nat]]
    BY <1>6, <2>1
  <2>3. IsFiniteSet(movements') /\ movements' \subseteq Movements /\ posting' \subseteq Movements
    BY <1>1, <1>2, FS_AddElement DEF LedgerInv, LedgerTypeOK
  <2> QED BY <1>1, <2>2, <2>3 DEF LedgerInv, LedgerTypeOK
<1>8. /\ movements' \cap posting' = {}
      /\ \A n \in movements' \cup posting' : n.id < nextId'
      /\ \A n, o \in movements' \cup posting' : n.id = o.id => n = o
  <2>1. movements' \cup posting' = movements \cup posting
    BY <1>1
  <2> QED BY <1>1, <2>1 DEF LedgerInv
<1>9. \A n \in posting' : n.payment # NoPayment => Fits(n, payments[n.payment])'
  <2> TAKE n \in posting'
  <2> HAVE n.payment # NoPayment
  <2>1. n \in posting /\ n # m /\ n.payment \in Payments
    BY <1>1 DEF LedgerInv, LedgerTypeOK, Movements
  <2>2. n.payment # m.payment
    BY <2>1 DEF LedgerInv
  <2>3. payments'[n.payment] = payments[n.payment]
    BY <1>4, <2>1, <2>2
  <2> QED BY <2>1, <2>3 DEF LedgerInv, Fits
<1>10. \A n, o \in posting' : n.payment # NoPayment /\ n.payment = o.payment => n = o
  BY <1>1 DEF LedgerInv
<1>11. \A i \in DOMAIN bought' : payments'[bought'[i]].status # "none"
  <2>1. \A i \in DOMAIN bought : bought[i] \in Payments
    BY ScreensAssumption DEF LedgerInv, LedgerTypeOK
  <2> QED BY <1>1, <1>6, <2>1 DEF LedgerInv
<1>12. Onwards
  BY <1>1, <1>6 DEF Onwards
<1> QED BY <1>1, <1>6, <1>7, <1>8, <1>9, <1>10, <1>11, <1>12 DEF LedgerInv

LEMMA RollBackKeeps ==
    ASSUME LedgerInv, NEW m \in posting, RollBack(m)
    PROVE  LedgerInv' /\ Onwards
<1>1. posting' = posting \ {m} /\ UNCHANGED <<movements, nextId, payments, bought, screen, began, balances>>
  BY DEF RollBack
<1>2. \A p : Out(p)' = Out(p) /\ Out(p) \in Int
  BY <1>1, OutInt DEF Out, Total
<1>3. Onwards
  BY <1>1, <1>2 DEF Onwards
<1>4. LedgerTypeOK'
  BY <1>1 DEF LedgerInv, LedgerTypeOK
<1> QED BY <1>1, <1>2, <1>3, <1>4 DEF LedgerInv, Fits, StillOut

LEMMA BecomesKeeps ==
    ASSUME LedgerInv, NEW p \in Payments, NEW outcome \in {"captured", "expired"}, Becomes(p, outcome)
    PROVE  LedgerInv' /\ Onwards
<1>1. /\ payments[p].status = "authorized" /\ \A m \in posting : m.payment # p
      /\ payments' = [payments EXCEPT ![p].status = outcome]
      /\ UNCHANGED <<movements, posting, nextId, bought, screen, began, balances>>
  BY DEF Becomes
<1>2. \A q : Out(q)' = Out(q) /\ Out(q) \in Int
  BY <1>1, OutInt DEF Out, Total
<1>3. /\ payments \in [Payments -> [status : PaymentStates, amount : Nat, refunded : Nat]]
      /\ payments[p].refunded = 0
  BY <1>1 DEF LedgerInv, LedgerTypeOK
<1>4. /\ payments'[p].status = outcome /\ payments'[p].amount = payments[p].amount
      /\ payments'[p].refunded = payments[p].refunded
      /\ \A q \in Payments : q # p => payments'[q] = payments[q]
  BY <1>1, <1>3
<1>5. LedgerTypeOK'
  BY <1>1, <1>3 DEF LedgerInv, LedgerTypeOK, PaymentStates
<1>6. \A q \in Payments : /\ StillOut(payments'[q]) = StillOut(payments[q])
                          /\ payments'[q].refunded <= payments'[q].amount
                          /\ payments'[q].status \in {"none", "authorized", "expired"} => payments'[q].refunded = 0
                          /\ payments[q].status # "none" => payments'[q].status # "none"
                          /\ payments[q].status = "expired" => payments'[q].status = "expired"
  <2> TAKE q \in Payments
  <2>1. CASE q = p
    BY <1>1, <1>3, <1>4, <2>1 DEF StillOut, LedgerInv
  <2>2. CASE q # p
    BY <1>4, <2>2 DEF LedgerInv
  <2> QED BY <2>1, <2>2
<1>7. Onwards
  BY <1>1, <1>2, <1>6 DEF Onwards
<1>8. \A m \in posting' : m.payment # NoPayment => Fits(m, payments[m.payment])'
  <2> TAKE m \in posting'
  <2> HAVE m.payment # NoPayment
  <2>1. m \in posting /\ m.payment \in Payments /\ m.payment # p
    BY <1>1 DEF LedgerInv, LedgerTypeOK, Movements
  <2> QED BY <1>4, <2>1 DEF LedgerInv, Fits
<1>9. \A i \in DOMAIN bought' : payments'[bought'[i]].status # "none"
  <2>1. \A i \in DOMAIN bought : bought[i] \in Payments
    BY ScreensAssumption DEF LedgerInv, LedgerTypeOK
  <2> QED BY <1>1, <1>6, <2>1 DEF LedgerInv
<1> QED BY <1>1, <1>2, <1>5, <1>6, <1>7, <1>8, <1>9 DEF LedgerInv

LEMMA PurchaseKeeps ==
    ASSUME LedgerInv, NEW p \in Payments, RecordPurchase(p)
    PROVE  LedgerInv' /\ Onwards
<1>1. /\ payments[p].status # "none" /\ p \in Mandated /\ p \notin ToSet(bought)
      /\ bought' = Append(bought, p) /\ bought \in Seq(Mandated)
      /\ UNCHANGED <<movements, posting, nextId, payments, screen, began, balances>>
  BY DEF RecordPurchase, LedgerInv, LedgerTypeOK
<1>2. /\ bought' \in Seq(Mandated) /\ DOMAIN bought' = 1..Len(bought) + 1 /\ Len(bought) \in Nat
      /\ DOMAIN bought = 1..Len(bought)
      /\ bought'[Len(bought) + 1] = p /\ \A i \in DOMAIN bought : bought'[i] = bought[i]
  BY <1>1
<1>3. \A i \in DOMAIN bought : bought[i] # p
  BY <1>1 DEF ToSet
<1>4. \A i, j \in DOMAIN bought' : bought'[i] = bought'[j] => i = j
  <2> TAKE i, j \in DOMAIN bought'
  <2>1. i \in DOMAIN bought \/ i = Len(bought) + 1
    BY <1>2
  <2>2. j \in DOMAIN bought \/ j = Len(bought) + 1
    BY <1>2
  <2> QED BY <1>2, <1>3, <2>1, <2>2 DEF LedgerInv
<1>5. \A i \in DOMAIN bought' : payments'[bought'[i]].status # "none"
  <2> TAKE i \in DOMAIN bought'
  <2>1. i \in DOMAIN bought \/ i = Len(bought) + 1
    BY <1>2
  <2> QED BY <1>1, <1>2, <2>1 DEF LedgerInv
<1>6. \A q : Out(q)' = Out(q) /\ Out(q) \in Int
  BY <1>1, OutInt DEF Out, Total
<1>7. ToSet(bought) \subseteq ToSet(bought')
  BY <1>2 DEF ToSet
<1>8. Onwards
  BY <1>1, <1>6, <1>7 DEF Onwards
<1>9. LedgerTypeOK'
  BY <1>1, <1>2 DEF LedgerInv, LedgerTypeOK
<1> QED BY <1>1, <1>4, <1>5, <1>6, <1>8, <1>9 DEF LedgerInv, Fits, StillOut

LEMMA LedgerGoesOn ==
    ASSUME LedgerInv, NextLedger
    PROVE  LedgerInv' /\ Onwards
<1>1. /\ payments \in [Payments -> [status : PaymentStates, amount : Nat, refunded : Nat]]
      /\ Sizes \subseteq Nat \ {0}
  BY ScreensAssumption DEF LedgerInv, LedgerTypeOK
<1>2. CASE Move
  <2>1. PICK kind \in {"transfer", "pocket_transfer"}, x \in Sizes, sign \in {1, -1} :
            Insert(kind, sign * x, NoPayment)
    BY <1>2 DEF Move
  <2>2. sign * x \in Int
    BY <1>1
  <2> QED BY <2>1, <2>2, InsertKeeps
<1>3. ASSUME NEW p \in Payments, Hold(p) PROVE LedgerInv' /\ Onwards
  <2>1. PICK x \in Sizes : Insert("authorization_hold", -x, p) /\ payments[p].status = "none"
    BY <1>3 DEF Hold
  <2>2. -x \in Int /\ -x < 0
    BY <1>1
  <2>3. Fits([id |-> nextId, kind |-> "authorization_hold", amount |-> -x, payment |-> p], payments[p])
    BY <2>1, <2>2 DEF Fits
  <2> QED BY <2>1, <2>2, <2>3, InsertKeeps DEF PaymentKinds
<1>4. ASSUME NEW p \in Payments, Release(p) PROVE LedgerInv' /\ Onwards
  <2>1. payments[p].status \in {"authorized", "expired"} /\ Insert("authorization_release", payments[p].amount, p)
        /\ payments[p].amount \in Int
    BY <1>1, <1>4 DEF Release
  <2>2. Fits([id |-> nextId, kind |-> "authorization_release", amount |-> payments[p].amount, payment |-> p],
             payments[p])
    BY <2>1 DEF Fits
  <2> QED BY <2>1, <2>2, InsertKeeps DEF PaymentKinds
<1>5. ASSUME NEW p \in Payments, Refund(p) PROVE LedgerInv' /\ Onwards
  <2>1. /\ payments[p].status \in {"captured", "partially_refunded"}
        /\ payments[p].amount \in Nat /\ payments[p].refunded \in Nat
    BY <1>1, <1>5 DEF Refund
  <2>2. PICK x \in 1..(payments[p].amount - payments[p].refunded) : Insert("authorization_refund", x, p)
    BY <1>5 DEF Refund
  <2>3. x \in Int /\ x > 0 /\ x <= payments[p].amount - payments[p].refunded
    BY <2>1
  <2>4. Fits([id |-> nextId, kind |-> "authorization_refund", amount |-> x, payment |-> p], payments[p])
    BY <2>1, <2>3 DEF Fits
  <2> QED BY <2>2, <2>3, <2>4, InsertKeeps DEF PaymentKinds
<1> QED BY <1>2, <1>3, <1>4, <1>5, CommitKeeps, RollBackKeeps, BecomesKeeps, PurchaseKeeps DEF NextLedger


(* The movements behind the rows of a screen, and what their labels may say.     *)
MovementsOf(rows) == [i \in DOMAIN rows |-> rows[i].movement]
Labelled(rows)    == \A i \in DOMAIN rows : rows[i].told # "movement" =>
                         /\ rows[i].movement.kind = "authorization_hold"
                         /\ rows[i].movement.payment \in Mandated
                         /\ rows[i].told = "purchase" => rows[i].movement.payment \in ToSet(bought)

LEMMA RowsOfScreen == Rows = MovementsOf(screen.rows) /\ Labels = Labelled(screen.rows)
BY DEF Rows, MovementsOf, Labels, Labelled

LEMMA MovementsOfRows ==
    ASSUME NEW rows \in Seq(Listed)
    PROVE  /\ MovementsOf(rows) \in Seq(Movements) /\ Len(MovementsOf(rows)) = Len(rows)
           /\ \A i \in 1..Len(rows) : MovementsOf(rows)[i] = rows[i].movement
<1>1. Len(rows) \in Nat /\ DOMAIN rows = 1..Len(rows) /\ \A i \in 1..Len(rows) : rows[i].movement \in Movements
  <2>1. Len(rows) \in Nat /\ DOMAIN rows = 1..Len(rows) /\ \A i \in 1..Len(rows) : rows[i] \in Listed
    BY LenProperties, ElementOfSeq
  <2> QED BY <2>1 DEF Listed
<1> PICK n \in Nat : n = Len(rows)
  BY <1>1
<1>2. MovementsOf(rows) = [i \in 1..n |-> rows[i].movement]
  BY <1>1 DEF MovementsOf
<1>3. \A i \in 1..n : rows[i].movement \in Movements
  BY <1>1
<1>4. MovementsOf(rows) \in [1..n -> Movements]
  BY <1>2, <1>3
<1>5. MovementsOf(rows) \in Seq(Movements) /\ Len(MovementsOf(rows)) = n
  BY <1>4
<1> QED BY <1>2, <1>5

LEMMA MovementsOfTwo ==
    ASSUME NEW a \in Seq(Listed), NEW b \in Seq(Listed)
    PROVE  /\ a \o b \in Seq(Listed) /\ MovementsOf(a \o b) = MovementsOf(a) \o MovementsOf(b)
           /\ Labelled(a) /\ Labelled(b) => Labelled(a \o b)
<1> DEFINE c == MovementsOf(a) \o MovementsOf(b)
<1>1. /\ a \o b \in Seq(Listed) /\ Len(a \o b) = Len(a) + Len(b) /\ Len(a) \in Nat /\ Len(b) \in Nat
      /\ \A i \in 1..Len(a) + Len(b) : (a \o b)[i] = IF i <= Len(a) THEN a[i] ELSE b[i - Len(a)]
  BY ConcatProperties
<1>2. /\ MovementsOf(a) \in Seq(Movements) /\ Len(MovementsOf(a)) = Len(a)
      /\ \A i \in 1..Len(a) : MovementsOf(a)[i] = a[i].movement
  BY MovementsOfRows
<1>3. /\ MovementsOf(b) \in Seq(Movements) /\ Len(MovementsOf(b)) = Len(b)
      /\ \A i \in 1..Len(b) : MovementsOf(b)[i] = b[i].movement
  BY MovementsOfRows
<1>4. /\ c \in Seq(Movements) /\ Len(c) = Len(a) + Len(b)
      /\ \A i \in 1..Len(a) + Len(b) : c[i] = IF i <= Len(a) THEN MovementsOf(a)[i] ELSE MovementsOf(b)[i - Len(a)]
  <2> PICK u, v : u = MovementsOf(a) /\ v = MovementsOf(b)
    OBVIOUS
  <2>1. u \in Seq(Movements) /\ v \in Seq(Movements) /\ Len(u) = Len(a) /\ Len(v) = Len(b) /\ c = u \o v
    BY <1>2, <1>3
  <2>2. /\ u \o v \in Seq(Movements) /\ Len(u \o v) = Len(u) + Len(v)
        /\ \A i \in 1..Len(u) + Len(v) : (u \o v)[i] = IF i <= Len(u) THEN u[i] ELSE v[i - Len(u)]
    <3>1. u \in Seq(Movements) /\ v \in Seq(Movements)
      BY <2>1
    <3> QED BY ONLY <3>1, ConcatProperties
  <2> QED BY <2>1, <2>2
<1> HIDE DEF c
<1> PICK d : d = a \o b
  OBVIOUS
<1>5. /\ MovementsOf(d) \in Seq(Movements) /\ Len(MovementsOf(d)) = Len(a) + Len(b)
      /\ \A i \in 1..Len(a) + Len(b) : MovementsOf(d)[i] = d[i].movement
  BY <1>1, MovementsOfRows
<1>6. \A i \in 1..Len(a) + Len(b) : \/ i \in 1..Len(a) /\ i <= Len(a)
                                    \/ i - Len(a) \in 1..Len(b) /\ ~(i <= Len(a))
  BY <1>1
<1>7. \A i \in 1..Len(a) + Len(b) : MovementsOf(d)[i] = c[i]
  <2> TAKE i \in 1..Len(a) + Len(b)
  <2>1. CASE i \in 1..Len(a) /\ i <= Len(a)
    BY <1>1, <1>2, <1>4, <1>5, <2>1
  <2>2. CASE i - Len(a) \in 1..Len(b) /\ ~(i <= Len(a))
    BY <1>1, <1>3, <1>4, <1>5, <2>2
  <2> QED BY <1>6, <2>1, <2>2
<1>8. MovementsOf(d) = c
  BY <1>4, <1>5, <1>7, SeqEqual
<1>9. ASSUME Labelled(a), Labelled(b) PROVE Labelled(d)
  <2>1. DOMAIN d = 1..Len(a) + Len(b) /\ DOMAIN a = 1..Len(a) /\ DOMAIN b = 1..Len(b)
    BY <1>1
  <2>2. \A i \in DOMAIN d : \/ i \in DOMAIN a /\ d[i] = a[i]
                            \/ i - Len(a) \in DOMAIN b /\ d[i] = b[i - Len(a)]
    BY <1>1, <1>6, <2>1
  <2> QED BY <1>9, <2>2 DEF Labelled
<1> QED BY <1>1, <1>8, <1>9 DEF c

(* A page is shown movement by movement, whatever is known of its holds.         *)
LEMMA RowsShown ==
    ASSUME NEW page \in Seq(Movements), NEW rows \in Shown(page)
    PROVE  rows \in Seq(Listed) /\ MovementsOf(rows) = page /\ Labelled(rows) /\ Len(rows) = Len(page)
<1>1. PICK A, B : /\ rows = toMovementsJSON(page, A, B)
                  /\ A \subseteq Mandated /\ B \subseteq Mandated \cap ToSet(bought)
  BY DEF Shown, LookupHolds, IntentsFor
<1>2. Len(page) \in Nat /\ DOMAIN page = 1..Len(page) /\ \A i \in 1..Len(page) : page[i] \in Movements
  OBVIOUS
<1> PICK n \in Nat : n = Len(page)
  BY <1>2
<1>3. DOMAIN rows = 1..n /\ rows = [i \in 1..n |-> rows[i]]
  BY <1>1, <1>2 DEF toMovementsJSON
<1>4. \A i \in 1..n : rows[i] \in Listed /\ rows[i].movement = page[i]
  BY <1>1, <1>2 DEF toMovementsJSON, Listed
<1>5. rows \in [1..n -> Listed]
  BY <1>3, <1>4
<1>6. rows \in Seq(Listed) /\ Len(rows) = n
  BY <1>5
<1>7. Labelled(rows)
  <2> SUFFICES ASSUME NEW i \in 1..n, rows[i].told # "movement"
      PROVE  /\ page[i].kind = "authorization_hold" /\ page[i].payment \in Mandated
             /\ rows[i].told = "purchase" => page[i].payment \in ToSet(bought)
    BY <1>3, <1>4 DEF Labelled
  <2> DEFINE held(ps) == page[i].kind = "authorization_hold" /\ page[i].payment \in ps
  <2>1. rows[i].told = CASE held(B) -> "purchase" [] held(A \ B) -> "platform" [] OTHER -> "movement"
    BY <1>1, <1>2 DEF toMovementsJSON
  <2>2. CASE held(B)
    BY <1>1, <2>2
  <2>3. CASE held(A \ B)
    BY <1>1, <2>1, <2>3
  <2>4. CASE ~held(B) /\ ~held(A \ B)
    BY <2>1, <2>4
  <2> QED BY <2>2, <2>3, <2>4
<1>8. /\ MovementsOf(rows) \in Seq(Movements) /\ Len(MovementsOf(rows)) = n
      /\ \A i \in 1..n : MovementsOf(rows)[i] = rows[i].movement
  BY <1>6, MovementsOfRows
<1>9. MovementsOf(rows) = page
  BY <1>4, <1>8, SeqEqual
<1> QED BY <1>6, <1>7, <1>9

(* A listing that goes on below its cursor is still newest first.                *)
LEMMA ListingGoesOn ==
    ASSUME NEW before \in Seq(Movements), NEW rows \in Seq(Movements), NEW cursor \in Nat, NEW then \in Nat,
           Newest(before), Downto(before, cursor), cursor = NoCursor => before = << >>,
           Newest(rows), \A i \in DOMAIN rows : cursor # NoCursor => rows[i].id < cursor,
           Downto(rows, then), then # NoCursor => (cursor # NoCursor => then < cursor)
    PROVE  /\ before \o rows \in Seq(Movements) /\ Newest(before \o rows) /\ Downto(before \o rows, then)
           /\ ToSet(before \o rows) = ToSet(before) \cup ToSet(rows)
<1> PICK all : all = before \o rows
  OBVIOUS
<1> PICK n \in Nat : n = Len(before)
  BY LenProperties
<1> PICK k \in Nat : k = Len(rows)
  BY LenProperties
<1>1. DOMAIN before = 1..n /\ DOMAIN rows = 1..k
  OBVIOUS
<1>2. /\ all \in Seq(Movements) /\ Len(all) = n + k
      /\ \A i \in 1..n + k : all[i] = IF i <= n THEN before[i] ELSE rows[i - n]
  BY ConcatProperties
<1>3. DOMAIN all = 1..n + k
  BY <1>2
<1>4. \A i \in 1..n + k : \/ i \in 1..n /\ all[i] = before[i]
                          \/ i - n \in 1..k /\ i > n /\ all[i] = rows[i - n]
  BY <1>2
<1>5. \A m \in Movements : m.id \in Nat \ {0}
  BY DEF Movements
<1>6. \A i \in 1..n : before[i].id \in Nat /\ (cursor # NoCursor => before[i].id >= cursor)
  <2>1. \A i \in 1..n : before[i] \in Movements
    BY ElementOfSeq
  <2> QED BY <1>1, <1>5, <2>1 DEF Downto
<1>7. \A i \in 1..k : rows[i].id \in Nat /\ (cursor # NoCursor => rows[i].id < cursor)
  <2>1. \A i \in 1..k : rows[i] \in Movements
    BY ElementOfSeq
  <2> QED BY <1>1, <1>5, <2>1
<1>8. cursor = NoCursor => n = 0
  OBVIOUS
<1>9. Newest(all)
  <2> SUFFICES ASSUME NEW i \in 1..n + k, NEW j \in 1..n + k, i < j PROVE all[i].id > all[j].id
    BY <1>3 DEF Newest
  <2>1. CASE j \in 1..n /\ all[j] = before[j]
    <3>1. i \in 1..n
      BY <2>1
    <3>2. all[i] = before[i]
      BY <1>4, <3>1
    <3> QED BY <1>1, <2>1, <3>1, <3>2 DEF Newest
  <2>2. CASE j - n \in 1..k /\ j > n /\ all[j] = rows[j - n]
    <3>1. CASE i \in 1..n /\ all[i] = before[i]
      <4>1. cursor # NoCursor
        BY <1>8, <3>1
      <4> QED BY <1>6, <1>7, <2>2, <3>1, <4>1
    <3>2. CASE i - n \in 1..k /\ i > n /\ all[i] = rows[i - n]
      <4>1. i - n < j - n
        BY <2>2, <3>2
      <4> QED BY <1>1, <2>2, <3>2, <4>1 DEF Newest
    <3> QED BY <1>4, <3>1, <3>2
  <2> QED BY <1>4, <2>1, <2>2
<1>10. Downto(all, then)
  <2> SUFFICES ASSUME NEW i \in 1..n + k, then # NoCursor PROVE all[i].id >= then
    BY <1>3 DEF Downto
  <2>1. CASE i \in 1..n /\ all[i] = before[i]
    <3>1. cursor # NoCursor
      BY <1>8, <2>1
    <3>2. then < cursor /\ before[i].id >= cursor /\ before[i].id \in Nat
      BY <1>6, <2>1, <3>1
    <3> QED BY <2>1, <3>2
  <2>2. CASE i - n \in 1..k /\ i > n /\ all[i] = rows[i - n]
    BY <1>1, <2>2 DEF Downto
  <2> QED BY <1>4, <2>1, <2>2
<1>11. \A i \in 1..n : i \in 1..n + k /\ all[i] = before[i]
  BY <1>2
<1>12. \A i \in 1..k : i + n \in 1..n + k /\ all[i + n] = rows[i]
  <2> TAKE i \in 1..k
  <2>1. i + n \in 1..n + k /\ ~(i + n <= n) /\ i + n - n = i
    OBVIOUS
  <2> QED BY <1>2, <2>1
<1>13. ToSet(all) = ToSet(before) \cup ToSet(rows)
  <2>1. ASSUME NEW m \in ToSet(all) PROVE m \in ToSet(before) \cup ToSet(rows)
    <3>1. PICK i \in 1..n + k : m = all[i]
      BY <1>3, <2>1 DEF ToSet
    <3> QED BY <1>1, <1>4, <3>1 DEF ToSet
  <2>2. ASSUME NEW m \in ToSet(before) PROVE m \in ToSet(all)
    <3>1. PICK i \in 1..n : m = before[i]
      BY <1>1, <2>2 DEF ToSet
    <3> QED BY <1>3, <1>11, <3>1 DEF ToSet
  <2>3. ASSUME NEW m \in ToSet(rows) PROVE m \in ToSet(all)
    <3>1. PICK i \in 1..k : m = rows[i]
      BY <1>1, <2>3 DEF ToSet
    <3>2. i + n \in DOMAIN all /\ all[i + n] = m
      BY <1>3, <1>12, <3>1
    <3> QED BY <3>2 DEF ToSet
  <2> QED BY <2>1, <2>2, <2>3
<1> QED BY <1>2, <1>9, <1>10, <1>13


(* A step that only reads.                                                       *)
LEMMA LedgerRests ==
    ASSUME LedgerInv, UNCHANGED ledgerVars
    PROVE  LedgerInv' /\ \A p : Out(p)' = Out(p)
<1>1. UNCHANGED <<movements, posting, nextId, payments, bought>>
  BY DEF ledgerVars
<1>2. \A p : Out(p)' = Out(p)
  BY <1>1 DEF Out, Total
<1>3. LedgerTypeOK'
  BY <1>1 DEF LedgerInv, LedgerTypeOK
<1> QED BY <1>1, <1>2, <1>3 DEF LedgerInv, Fits, StillOut

(* What has been read stays true while the ledger goes on.                       *)
LEMMA ScreensStay ==
    ASSUME ScreensInv, LedgerInv', Onwards
    PROVE  ScreensInv'
<1>1. /\ UNCHANGED <<screen, began>> /\ movements \subseteq movements' /\ balances \subseteq balances'
      /\ ToSet(bought) \subseteq ToSet(bought')
  BY DEF Onwards
<1>2. began'.movements \subseteq movements'
  BY <1>1 DEF ScreensInv
<1>3. Labels => Labels'
  BY <1>1 DEF Labels
<1>4. HomeRead'
  <2>1. Newest(Rows)' <=> Newest(Rows)
    BY <1>1 DEF Newest, Rows
  <2> QED BY <1>1, <1>3, <2>1 DEF ScreensInv, HomeRead, Rows
<1>5. PagesRead'
  <2>1. /\ Newest(Rows)' <=> Newest(Rows)
        /\ Downto(Rows, screen.cursor)' <=> Downto(Rows, screen.cursor)
        /\ Since(screen.cursor)' = Since(screen.cursor) /\ Rows' = Rows
    BY <1>1 DEF Newest, Rows, Downto, Since
  <2> QED BY <1>1, <1>3, <2>1 DEF ScreensInv, PagesRead
<1>6. RiskRead'
  BY <1>1 DEF ScreensInv, RiskRead, Newest, Downto, Since, Observed
<1>7. TaskRead'
  <2> SUFFICES ASSUME screen.what = "task" PROVE TaskRead'
    BY <1>1 DEF TaskRead
  <2>1. /\ screen \in OpenTask
        /\ IsFiniteSet(screen.counted)
        /\ \A i, j \in DOMAIN screen.left : screen.left[i] = screen.left[j] => i = j
        /\ \A i \in DOMAIN screen.left : screen.left[i] \notin screen.counted
        /\ \A p \in screen.counted \cup ToSet(screen.left) :
              payments[p].status # "none" /\ began.out[p] \in Int /\ Out(p) <= began.out[p]
    BY DEF ScreensInv, TaskRead
  <2>2. screen.counted \cup ToSet(screen.left) \subseteq Payments
    BY <2>1 DEF ToSet, OpenTask
  <2>3. \A p \in Payments : Out(p) \in Int /\ Out(p)' \in Int
    BY OutInt, OutIntThen DEF ScreensInv
  <2>4. \A p \in screen.counted \cup ToSet(screen.left) :
            payments'[p].status # "none" /\ Out(p)' <= Out(p) /\ Out(p)' <= began.out[p]
    <3> TAKE p \in screen.counted \cup ToSet(screen.left)
    <3>1. payments'[p].status # "none" /\ Out(p)' <= Out(p)
      BY <2>1, <2>2 DEF Onwards
    <3> QED BY <2>1, <2>2, <2>3, <3>1
  <2>5. PICK v \in [screen.counted -> Nat] :
            screen.total = SumFunction(v) /\ \A p \in screen.counted : CountedFor(p, v[p])
    BY DEF ScreensInv, TaskRead
  <2>6. ASSUME NEW p \in screen.counted PROVE CountedFor(p, v[p])'
    <3>1. /\ p \in Payments /\ v[p] \in Nat /\ v[p] <= began.out[p]
          /\ payments[p].status = "expired" \/ Out(p) <= v[p]
      BY <2>2, <2>5 DEF CountedFor
    <3>2. Out(p)' <= Out(p) /\ (payments[p].status = "expired" => payments'[p].status = "expired" \/ Out(p)' = 0)
      BY <2>4, <3>1 DEF Onwards
    <3>3. payments'[p].status = "expired" \/ Out(p)' <= v[p]
      BY <2>3, <3>1, <3>2
    <3> QED BY <1>1, <3>1, <3>3 DEF CountedFor
  <2> QED BY <1>1, <2>1, <2>4, <2>5, <2>6 DEF TaskRead
<1> QED BY <1>2, <1>4, <1>5, <1>6, <1>7 DEF ScreensInv

(* The parts of the invariant about screens that are not open.                   *)
LEMMA OtherScreens ==
    /\ screen'.what # "home" => HomeRead'
    /\ screen'.what # "movements" => PagesRead'
    /\ screen'.what # "risk" => RiskRead'
    /\ screen'.what # "task" => TaskRead'
BY DEF HomeRead, PagesRead, RiskRead, TaskRead

LEMMA HomeSteps ==
    ASSUME ScreensInv, ReadBalance \/ ReadProjected \/ ListLatest \/ liveHolds \/ HomeFails
    PROVE  ScreensInv'
<1>1. UNCHANGED ledgerVars /\ LedgerInv'
  BY LedgerRests DEF ScreensInv, ReadBalance, ReadProjected, ListLatest, liveHolds, HomeFails, Reads
<1>2. UNCHANGED <<movements, posting, nextId, payments, bought>>
  BY <1>1 DEF ledgerVars
<1> DEFINE Early == [what : {"home"}, step : {"balance", "agreed", "unavailable"}, balance : Int]
<1>3. CASE ReadBalance
  <2>1. /\ screen' = [what |-> "home", step |-> "balance", balance |-> Balance]
        /\ began' = Begun /\ balances' = {Balance}
    BY <1>3 DEF ReadBalance, Opens
  <2>2. screen'.what = "home" /\ screen' \in Early /\ screen'.balance \in balances'
    BY <2>1, BalanceInt DEF ScreensInv
  <2>3. HomeRead' /\ began'.movements \subseteq movements'
    BY <1>2, <2>1, <2>2 DEF Begun, HomeRead
  <2>4. PagesRead' /\ RiskRead' /\ TaskRead'
    BY <2>2, OtherScreens
  <2> QED BY <1>1, <2>3, <2>4 DEF ScreensInv
<1>4. CASE ReadProjected \/ ListLatest \/ liveHolds \/ HomeFails
  <2>1. screen.what = "home" /\ UNCHANGED <<began, balances>>
    BY <1>4 DEF ReadProjected, ListLatest, liveHolds, HomeFails, Reads
  <2>2. /\ screen.balance \in balances
        /\ \/ screen \in Early
           \/ /\ screen.step \in {"listed", "shown"}
              /\ screen.rows \in Seq(Listed) /\ Newest(Rows) /\ Labels
              /\ Len(screen.rows) < PageSize => began.movements \subseteq ToSet(Rows)
    BY <2>1 DEF ScreensInv, HomeRead
  <2>3. screen'.what = "home" /\ HomeRead'
    <3>1. CASE ReadProjected \/ HomeFails
      <4>1. PICK step \in {"agreed", "unavailable"} : screen' = [screen EXCEPT !.step = step]
        BY <3>1 DEF ReadProjected, HomeFails
      <4>2. screen \in Early
        BY <2>2, <3>1 DEF ReadProjected, HomeFails
      <4>3. screen' \in Early /\ screen'.balance = screen.balance
        BY <4>1, <4>2
      <4> QED BY <2>1, <2>2, <4>3 DEF HomeRead
    <3>2. CASE ListLatest
      <4> PICK page : page = ListMovements(PageSize, NoCursor)
        OBVIOUS
      <4>1. PICK rows \in Shown(page.movements) :
                screen' = [what |-> "home", step |-> "listed", balance |-> screen.balance, rows |-> rows]
        BY <3>2 DEF ListLatest
      <4>2. /\ page.movements \in Seq(movements) /\ Newest(page.movements)
            /\ \A m \in movements : page.next = NoCursor => m \in ToSet(page.movements)
            /\ Len(page.movements) < PageSize => page.next = NoCursor
        BY PageTells DEF ScreensInv, NoCursor
      <4>3. page.movements \in Seq(Movements)
        BY <4>2, SeqMonotonic DEF ScreensInv, LedgerInv, LedgerTypeOK
      <4>4. /\ rows \in Seq(Listed) /\ MovementsOf(rows) = page.movements
            /\ Labelled(rows) /\ Len(rows) = Len(page.movements)
        BY <4>1, <4>3, RowsShown
      <4>5. Rows' = page.movements /\ Labels'
        BY <1>2, <4>1, <4>4 DEF Rows, Labels, MovementsOf, Labelled
      <4>6. Newest(Rows)'
        BY <4>2, <4>5 DEF Newest
      <4>7. Len(rows) < PageSize => began'.movements \subseteq ToSet(Rows')
        BY <2>1, <4>2, <4>4, <4>5 DEF ScreensInv
      <4> QED BY <2>1, <2>2, <4>1, <4>4, <4>5, <4>6, <4>7 DEF HomeRead
    <3>3. CASE liveHolds
      <4>1. /\ screen.step = "listed"
            /\ screen'.what = "home" /\ screen'.step = "shown" /\ screen'.balance = screen.balance
            /\ screen'.rows = screen.rows
        BY <3>3 DEF liveHolds
      <4>2. Rows' = Rows /\ (Newest(Rows)' <=> Newest(Rows)) /\ (Labels' <=> Labels)
        BY <1>2, <4>1 DEF Rows, Newest, Labels
      <4> QED BY <2>1, <2>2, <4>1, <4>2 DEF HomeRead
    <3> QED BY <1>4, <3>1, <3>2, <3>3
  <2>4. PagesRead' /\ RiskRead' /\ TaskRead'
    BY <2>3, OtherScreens
  <2> QED BY <1>1, <1>2, <2>1, <2>3, <2>4 DEF ScreensInv
<1> QED BY <1>3, <1>4

LEMMA PagesSteps ==
    ASSUME ScreensInv, handleMovements
    PROVE  ScreensInv'
<1>1. UNCHANGED ledgerVars /\ LedgerInv'
  BY LedgerRests DEF ScreensInv, handleMovements, Reads
<1>2. UNCHANGED <<movements, posting, nextId, payments, bought>>
  BY <1>1 DEF ledgerVars
<1>3. screen'.what = "movements" /\ PagesRead' /\ began'.movements \subseteq movements'
  <2>1. CASE Opens([what |-> "movements", rows |-> << >>, cursor |-> NoCursor, more |-> TRUE])
    <3>1. screen' = [what |-> "movements", rows |-> << >>, cursor |-> NoCursor, more |-> TRUE] /\ began' = Begun
      BY <2>1 DEF Opens
    <3>2. screen' \in OpenPages
      BY <3>1 DEF NoCursor, OpenPages
    <3>3. DOMAIN screen'.rows = {} /\ DOMAIN Rows' = {}
      BY <3>1 DEF Rows
    <3>4. Newest(Rows)' /\ Labels' /\ Downto(Rows, screen.cursor)'
      BY <3>3 DEF Newest, Labels, Downto
    <3> QED BY <1>2, <3>1, <3>2, <3>4 DEF PagesRead, Begun
  <2>2. CASE Reads("movements") /\ handleMovements
    <3> PICK page : page = ListMovements(PageSize, screen.cursor)
      OBVIOUS
    <3>1. /\ screen.what = "movements" /\ screen.more /\ UNCHANGED began
          /\ screen \in OpenPages
          /\ Newest(Rows) /\ Labels /\ Downto(Rows, screen.cursor)
          /\ screen.cursor = NoCursor => screen.rows = << >>
          /\ screen.cursor # NoCursor => Since(screen.cursor) \subseteq ToSet(Rows)
      BY <2>2 DEF ScreensInv, PagesRead, handleMovements, Reads, Opens
    <3>2. PICK rows \in Shown(page.movements) :
              screen' = [screen EXCEPT !.rows = @ \o rows, !.cursor = page.next, !.more = page.next # NoCursor]
      BY <2>2, <3>1 DEF handleMovements, Opens
    <3> PICK cursor \in Nat, old \in Seq(Listed) : cursor = screen.cursor /\ old = screen.rows
      BY <3>1 DEF OpenPages
    <3> DEFINE Older(m) == cursor # NoCursor => m.id < cursor
    <3>3. /\ page.movements \in Seq(movements) /\ Newest(page.movements) /\ page.next \in Nat
          /\ \A i \in DOMAIN page.movements : Older(page.movements[i])
          /\ page.next # NoCursor => (cursor # NoCursor => page.next < cursor)
          /\ Downto(page.movements, page.next)
          /\ \A m \in movements :
                Older(m) /\ (page.next # NoCursor => m.id >= page.next) => m \in ToSet(page.movements)
      BY PageTells DEF ScreensInv
    <3>4. page.movements \in Seq(Movements)
      BY <3>3, SeqMonotonic DEF ScreensInv, LedgerInv, LedgerTypeOK
    <3>5. rows \in Seq(Listed) /\ MovementsOf(rows) = page.movements /\ Labelled(rows)
      BY <3>2, <3>4, RowsShown
    <3>6. /\ screen' \in OpenPages
          /\ screen'.rows = old \o rows /\ screen'.cursor = page.next /\ screen'.more = (page.next # NoCursor)
      BY <3>1, <3>2, <3>3, <3>5, ConcatProperties DEF OpenPages
    <3>7. /\ Rows = MovementsOf(old) /\ Labelled(old) /\ MovementsOf(old) \in Seq(Movements)
          /\ cursor = NoCursor => MovementsOf(old) = << >>
      BY <3>1, RowsOfScreen, MovementsOfRows
    <3>8. MovementsOf(old \o rows) = MovementsOf(old) \o page.movements /\ Labelled(old \o rows)
      BY <3>5, <3>7, MovementsOfTwo
    <3>9. Rows' = MovementsOf(old) \o page.movements /\ Labels'
      BY <1>2, <3>6, <3>8 DEF Rows, Labels, MovementsOf, Labelled
    <3>10. /\ Newest(MovementsOf(old) \o page.movements) /\ Downto(MovementsOf(old) \o page.movements, page.next)
           /\ ToSet(MovementsOf(old) \o page.movements) = ToSet(MovementsOf(old)) \cup ToSet(page.movements)
      <4>1. /\ Newest(MovementsOf(old)) /\ Downto(MovementsOf(old), cursor)
            /\ cursor = NoCursor => MovementsOf(old) = << >>
        BY <3>1, <3>7
      <4> QED BY <3>3, <3>4, <3>7, <4>1, ListingGoesOn
    <3>11. Newest(Rows)' /\ Downto(Rows, screen.cursor)'
      BY <3>6, <3>9, <3>10 DEF Newest, Downto
    <3>12. Since(screen.cursor)' \subseteq ToSet(Rows')
      <4> SUFFICES ASSUME NEW m \in began.movements, page.next # NoCursor => m.id >= page.next
                   PROVE  m \in ToSet(MovementsOf(old)) \cup ToSet(page.movements)
        BY <3>1, <3>6, <3>9, <3>10 DEF Since
      <4>1. m \in movements /\ m.id \in Nat
        BY DEF ScreensInv, LedgerInv, LedgerTypeOK, Movements
      <4>2. CASE Older(m)
        BY <3>3, <4>1, <4>2
      <4>3. CASE cursor # NoCursor /\ m.id >= cursor
        BY <3>1, <3>7, <4>3 DEF Since
      <4> QED BY <4>1, <4>2, <4>3
    <3> QED BY <1>2, <3>1, <3>6, <3>9, <3>11, <3>12 DEF PagesRead, ScreensInv, OpenPages
  <2> QED BY <2>1, <2>2 DEF handleMovements
<1>4. HomeRead' /\ RiskRead' /\ TaskRead'
  BY <1>3, OtherScreens
<1> QED BY <1>1, <1>3, <1>4 DEF ScreensInv


LEMMA RiskSteps ==
    ASSUME ScreensInv, Observe
    PROVE  ScreensInv'
<1>1. UNCHANGED ledgerVars /\ LedgerInv'
  BY LedgerRests DEF ScreensInv, Observe, Reads
<1>2. UNCHANGED <<movements, posting, nextId, payments, bought>>
  BY <1>1 DEF ledgerVars
<1>3. screen'.what = "risk" /\ RiskRead' /\ began'.movements \subseteq movements'
  <2>1. CASE Opens([what |-> "risk", seen |-> << >>, cursor |-> NoCursor, page |-> 0, more |-> TRUE])
    <3>1. /\ screen' = [what |-> "risk", seen |-> << >>, cursor |-> NoCursor, page |-> 0, more |-> TRUE]
          /\ began' = Begun
      BY <2>1 DEF Opens
    <3>2. screen' \in OpenRisk
      BY <3>1 DEF NoCursor, OpenRisk
    <3>3. DOMAIN screen'.seen = {}
      BY <3>1
    <3> QED BY <1>2, <3>1, <3>2, <3>3 DEF RiskRead, Begun, Newest, Downto
  <2>2. CASE Reads("risk") /\ Observe
    <3> PICK page : page = ListMovements(PageSize, screen.cursor)
      OBVIOUS
    <3> PICK rows : rows = Observable(page.movements)
      OBVIOUS
    <3>1. /\ screen.what = "risk" /\ screen.more /\ UNCHANGED began
          /\ screen \in OpenRisk
          /\ Newest(screen.seen) /\ Downto(screen.seen, screen.cursor)
          /\ \A i \in DOMAIN screen.seen : Observed(screen.seen[i])
          /\ screen.cursor = NoCursor => screen.seen = << >>
          /\ screen.cursor # NoCursor => {m \in Since(screen.cursor) : Observed(m)} \subseteq ToSet(screen.seen)
      BY <2>2 DEF ScreensInv, RiskRead, Observe, Reads, Opens
    <3>2. screen' = [screen EXCEPT !.seen = @ \o rows, !.cursor = page.next, !.page = @ + 1,
                                   !.more = /\ page.next # NoCursor /\ screen.page + 1 < ScanPages
                                            /\ \A m \in ToSet(page.movements) : m.id > Window]
      BY <2>2, <3>1 DEF Observe, Opens
    <3> PICK cursor \in Nat, old \in Seq(Movements), pages \in Nat :
            cursor = screen.cursor /\ old = screen.seen /\ pages = screen.page
      BY <3>1 DEF OpenRisk
    <3> DEFINE Older(m) == cursor # NoCursor => m.id < cursor
    <3>3. /\ page.movements \in Seq(movements) /\ page.next \in Nat
          /\ \A i \in DOMAIN page.movements : Older(page.movements[i])
          /\ page.next # NoCursor => (cursor # NoCursor => page.next < cursor)
          /\ Downto(page.movements, page.next)
          /\ \A m \in movements :
                Older(m) /\ (page.next # NoCursor => m.id >= page.next) => m \in ToSet(page.movements)
      BY PageTells DEF ScreensInv
    <3> PICK kept : kept = {m \in ToSet(page.movements) : Observed(m)}
      OBVIOUS
    <3>4. /\ kept \subseteq movements /\ kept \subseteq Movements
          /\ \A m \in kept : /\ Observed(m) /\ Older(m)
                             /\ page.next # NoCursor => m.id >= page.next
      BY <3>3 DEF ToSet, Downto, ScreensInv, LedgerInv, LedgerTypeOK
    <3> PICK n : n = Cardinality(kept)
      OBVIOUS
    <3>5. /\ rows = NewestFirst(kept) /\ n \in Nat /\ rows \in [1..n -> kept] /\ Newest(rows)
          /\ \A m \in kept : \E i \in 1..n : rows[i] = m
      <4>1. rows = NewestFirst(kept)
        <5>1. Observable(page.movements) = NewestFirst(kept)
          BY DEF Observable, Observed
        <5> QED BY ONLY <5>1, rows = Observable(page.movements)
      <4>2. Told(kept)
        <5>1. LedgerInv /\ kept \in SUBSET movements
          BY <3>4 DEF ScreensInv
        <5> QED BY ONLY <5>1, LedgerTold
      <4>3. /\ Cardinality(kept) \in Nat /\ NewestFirst(kept) \in [1..Cardinality(kept) -> kept]
            /\ Newest(NewestFirst(kept))
            /\ \A m \in kept : \E i \in 1..Cardinality(kept) : NewestFirst(kept)[i] = m
        BY ONLY <4>2, NewestFirstLists
      <4> QED BY ONLY n = Cardinality(kept), <4>1, <4>3
    <3>6. /\ rows \in Seq(Movements) /\ DOMAIN rows = 1..n
          /\ \A i \in DOMAIN rows : /\ Observed(rows[i]) /\ Older(rows[i])
                                    /\ page.next # NoCursor => rows[i].id >= page.next
          /\ kept \subseteq ToSet(rows)
      <4>1. rows \in [1..n -> Movements]
        BY <3>4, <3>5
      <4>2. rows \in Seq(Movements) /\ DOMAIN rows = 1..n
        BY <3>5, <4>1
      <4>3. kept \subseteq ToSet(rows)
        BY <3>5, <4>2 DEF ToSet
      <4> QED BY <3>4, <3>5, <4>2, <4>3
    <3>7. /\ old \o rows \in Seq(Movements) /\ Newest(old \o rows) /\ Downto(old \o rows, page.next)
          /\ ToSet(old \o rows) = ToSet(old) \cup ToSet(rows)
      <4>1. Downto(rows, page.next)
        BY <3>6 DEF Downto
      <4>2. /\ Newest(old) /\ Downto(old, cursor) /\ (cursor = NoCursor => old = << >>)
            /\ \A i \in DOMAIN rows : cursor # NoCursor => rows[i].id < cursor
            /\ page.next # NoCursor => (cursor # NoCursor => page.next < cursor)
            /\ page.next \in Nat /\ rows \in Seq(Movements) /\ Newest(rows)
        BY <3>1, <3>3, <3>5, <3>6
      <4> PICK then \in Nat : then = page.next
        BY <4>2
      <4>3. /\ old \o rows \in Seq(Movements) /\ Newest(old \o rows) /\ Downto(old \o rows, then)
            /\ ToSet(old \o rows) = ToSet(old) \cup ToSet(rows)
        BY ONLY old \in Seq(Movements), cursor \in Nat, then \in Nat, then = page.next, <4>1, <4>2, ListingGoesOn
      <4> QED BY <4>3
    <3> PICK more \in BOOLEAN : more = (/\ page.next # NoCursor /\ pages + 1 < ScanPages
                                        /\ \A m \in ToSet(page.movements) : m.id > Window)
      OBVIOUS
    <3>8. /\ screen' \in OpenRisk
          /\ screen'.seen = old \o rows /\ screen'.cursor = page.next /\ screen'.page = pages + 1
          /\ screen'.more = more
      <4>1. screen' = [screen EXCEPT !.seen = old \o rows, !.cursor = page.next, !.page = pages + 1, !.more = more]
        BY <3>1, <3>2
      <4>2. pages + 1 \in Nat
        OBVIOUS
      <4> QED BY <3>1, <3>3, <3>7, <4>1, <4>2 DEF OpenRisk
    <3>9. \A i \in DOMAIN screen'.seen : Observed(screen'.seen[i])
      <4> PICK all : all = old \o rows
        OBVIOUS
      <4>1. screen'.seen = all /\ \A i \in DOMAIN old : Observed(old[i])
        BY <3>1, <3>8
      <4>2. \A m \in ToSet(all) : m \in ToSet(old) \/ m \in ToSet(rows)
        BY <3>7
      <4>3. \A i \in DOMAIN rows : Observed(rows[i])
        BY <3>6
      <4>4. ASSUME NEW i \in DOMAIN all PROVE Observed(all[i])
        <5>1. all[i] \in ToSet(all)
          BY DEF ToSet
        <5>2. CASE all[i] \in ToSet(old)
          BY <4>1, <5>2 DEF ToSet
        <5>3. CASE all[i] \in ToSet(rows)
          BY <4>3, <5>3 DEF ToSet
        <5> QED BY <4>2, <5>1, <5>2, <5>3
      <4> QED BY <4>1, <4>4
    <3>10. {m \in Since(page.next) : Observed(m)} \subseteq ToSet(old \o rows)
      <4> SUFFICES ASSUME NEW m \in began.movements, page.next # NoCursor => m.id >= page.next, Observed(m)
                   PROVE  m \in ToSet(old) \cup ToSet(rows)
        BY <3>7 DEF Since
      <4>1. m \in movements /\ m.id \in Nat
        BY DEF ScreensInv, LedgerInv, LedgerTypeOK, Movements
      <4>2. CASE Older(m)
        BY <3>3, <3>6, <4>1, <4>2
      <4>3. CASE cursor # NoCursor /\ m.id >= cursor
        BY <3>1, <4>3 DEF Since
      <4> QED BY <4>1, <4>2, <4>3
    <3>11. ~more => page.next = NoCursor \/ pages + 1 >= ScanPages \/ page.next <= Window
      <4> SUFFICES ASSUME ~more, page.next # NoCursor, pages + 1 < ScanPages PROVE page.next <= Window
        BY ScreensAssumption
      <4>1. PICK i \in DOMAIN page.movements : ~(page.movements[i].id > Window)
        BY DEF ToSet
      <4>2. page.movements[i].id >= page.next /\ page.movements[i].id \in Nat
        BY <3>3 DEF Downto, ScreensInv, LedgerInv, LedgerTypeOK, Movements
      <4> QED BY <3>3, <4>1, <4>2, ScreensAssumption
    <3>12. Since(screen.cursor)' = Since(page.next)
      BY <3>1, <3>8 DEF Since
    <3>13. Newest(screen.seen)' /\ Downto(screen.seen, screen.cursor)'
      BY <3>7, <3>8 DEF Newest, Downto
    <3>14. more => page.next # NoCursor
      OBVIOUS
    <3>15. RiskRead'
      BY <3>8, <3>9, <3>10, <3>11, <3>12, <3>13, <3>14 DEF RiskRead, Observed
    <3> QED BY <1>2, <3>1, <3>8, <3>15 DEF ScreensInv, OpenRisk
  <2> QED BY <2>1, <2>2 DEF Observe
<1>4. HomeRead' /\ PagesRead' /\ TaskRead'
  BY <1>3, OtherScreens
<1> QED BY <1>1, <1>3, <1>4 DEF ScreensInv

LEMMA TaskOpens ==
    ASSUME ScreensInv, NEW p \in Payments, taskOf(p)
    PROVE  ScreensInv'
<1>1. UNCHANGED ledgerVars /\ LedgerInv' /\ \A q : Out(q)' = Out(q)
  BY LedgerRests DEF ScreensInv, taskOf
<1>2. UNCHANGED <<movements, posting, nextId, payments, bought>>
  BY <1>1 DEF ledgerVars
<1>3. /\ screen' = [what |-> "task", this |-> p, left |-> TaskPayments, counted |-> {}, total |-> 0]
      /\ began' = Begun
  BY DEF taskOf, Opens
<1> PICK left : left = TaskPayments
  OBVIOUS
<1>4. /\ left \in Seq(Payments) /\ \A i, j \in DOMAIN left : left[i] = left[j] => i = j
      /\ \A i \in DOMAIN left : payments[left[i]].status # "none"
  <2>1. /\ bought \in Seq(Mandated) /\ Mandated \subseteq Payments /\ TaskLimit \in Nat
        /\ \A i, j \in DOMAIN bought : bought[i] = bought[j] => i = j
        /\ \A i \in DOMAIN bought : payments[bought[i]].status # "none"
    BY ScreensAssumption DEF ScreensInv, LedgerInv, LedgerTypeOK
  <2> PICK n \in Nat : n = Len(bought)
    BY <2>1
  <2>2. DOMAIN bought = 1..n /\ \A i \in 1..n : bought[i] \in Payments
    BY <2>1
  <2> PICK l \in Nat : l = IF TaskLimit <= n THEN TaskLimit ELSE n
    BY <2>1
  <2>3. Len(left) = l /\ (\A i \in 1..l : left[i] = bought[i]) /\ left \in Seq(Payments)
    <3>1. /\ TaskLimit \in Nat /\ n \in Nat /\ l \in Nat /\ Len(bought) = n
          /\ l = IF TaskLimit <= n THEN TaskLimit ELSE n
          /\ \A i \in 1..n : bought[i] \in Payments
      BY <2>1, <2>2
    <3>2. /\ Len(FirstOf(TaskLimit, bought)) = l /\ \A i \in 1..l : FirstOf(TaskLimit, bought)[i] = bought[i]
          /\ FirstOf(TaskLimit, bought) \in Seq(Payments)
      BY ONLY <3>1, FirstRowsAre
    <3> QED BY <3>2 DEF TaskPayments
  <2>4. DOMAIN left = 1..l /\ l <= n
    BY <2>1, <2>3
  <2>5. \A i \in DOMAIN left : i \in 1..n /\ left[i] = bought[i]
    BY <2>3, <2>4
  <2> QED BY <2>1, <2>2, <2>3, <2>5
<1>5. screen' \in OpenTask
  BY <1>3, <1>4 DEF OpenTask
<1>6. \A q \in Payments : began'.out[q] = Out(q) /\ Out(q) \in Int
  BY <1>3, OutInt DEF Begun, ScreensInv
<1>7. \A q \in screen'.counted \cup ToSet(screen'.left) :
          payments'[q].status # "none" /\ began'.out[q] \in Int /\ Out(q)' <= began'.out[q]
  <2> TAKE q \in screen'.counted \cup ToSet(screen'.left)
  <2>1. q \in Payments /\ payments[q].status # "none"
    BY <1>3, <1>4 DEF ToSet
  <2>2. began'.out[q] = Out(q) /\ Out(q) \in Int /\ Out(q)' = Out(q)
    BY <1>1, <1>6, <2>1
  <2> QED BY <1>2, <2>1, <2>2
<1>8. \E v \in [screen'.counted -> Nat] :
          screen'.total = SumFunction(v) /\ \A q \in screen'.counted : CountedFor(q, v[q])'
  <2> PICK v : v = [q \in {} |-> 0]
    OBVIOUS
  <2>1. v \in [{} -> Nat] /\ SumFunction(v) = 0
    BY SumNone
  <2> QED BY <1>3, <2>1
<1>9. IsFiniteSet(screen'.counted)
  BY <1>3, FS_EmptySet
<1>10. TaskRead'
  BY <1>3, <1>4, <1>5, <1>7, <1>8, <1>9 DEF TaskRead
<1>11. HomeRead' /\ PagesRead' /\ RiskRead'
  BY <1>5, OtherScreens DEF OpenTask
<1>12. began'.movements \subseteq movements'
  BY <1>2, <1>3 DEF Begun
<1> QED BY <1>1, <1>10, <1>11, <1>12 DEF ScreensInv


LEMMA CountedOnceMore ==
    ASSUME NEW all, IsFiniteSet(all), NEW r, r \notin all, NEW u \in [all -> Nat],
           NEW g \in [all \cup {r} -> Nat], \A a \in all : g[a] = u[a]
    PROVE  SumFunction(g) = SumFunction(u) + g[r]
<1>1. g \in [all \cup {r} -> Int] /\ u \in [all -> Int] /\ IsFiniteSet(all) /\ r \notin all
  OBVIOUS
<1>2. \A a \in all : g[a] = u[a]
  OBVIOUS
<1>3. SumFunction(g) = g[r] + SumFunction(u)
  BY <1>1, <1>2, SumOneMore
<1>4. SumFunction(u) \in Int /\ g[r] \in Int
  <2>1. g[r] \in Int
    BY <1>1
  <2> QED BY <1>1, <2>1, SumType
<1> QED BY <1>3, <1>4

(* What is told of a payment, its release or its expiry apart, is what is out.   *)
LEMMA SpentIs ==
    ASSUME LedgerInv, NEW p \in Payments, payments[p].status # "none"
    PROVE  /\ Spent(p) \in Nat /\ Out(p) \in Int
           /\ payments[p].status = "expired" => Spent(p) = 0 /\ Out(p) >= 0
           /\ payments[p].status # "expired" => Spent(p) = Out(p)
<1>1. /\ payments[p].status \in PaymentStates /\ payments[p].amount \in Nat /\ payments[p].refunded \in Nat
      /\ payments[p].refunded <= payments[p].amount
      /\ Out(p) = StillOut(payments[p])
  BY DEF LedgerInv, LedgerTypeOK
<1> QED BY <1>1 DEF Spent, StillOut

LEMMA TaskReads ==
    ASSUME ScreensInv, GetAuthorization \/ LeftOut
    PROVE  ScreensInv'
<1>1. UNCHANGED ledgerVars /\ LedgerInv' /\ \A q : Out(q)' = Out(q)
  BY LedgerRests DEF ScreensInv, GetAuthorization, LeftOut, Reads
<1>2. UNCHANGED <<movements, posting, nextId, payments, bought>>
  BY <1>1 DEF ledgerVars
<1>3. screen.what = "task" /\ screen.left # << >> /\ UNCHANGED <<began, balances>>
  BY DEF GetAuthorization, LeftOut, Reads
<1>4. /\ screen \in OpenTask
      /\ IsFiniteSet(screen.counted)
      /\ \A i, j \in DOMAIN screen.left : screen.left[i] = screen.left[j] => i = j
      /\ \A i \in DOMAIN screen.left : screen.left[i] \notin screen.counted
      /\ \A p \in screen.counted \cup ToSet(screen.left) :
            payments[p].status # "none" /\ began.out[p] \in Int /\ Out(p) <= began.out[p]
  BY <1>3 DEF ScreensInv, TaskRead
<1>5. PICK v : /\ v \in [screen.counted -> Nat] /\ screen.total = SumFunction(v)
               /\ \A p \in screen.counted : CountedFor(p, v[p])
  BY <1>3 DEF ScreensInv, TaskRead
<1> PICK left, counted, total :
        /\ left \in Seq(Payments) /\ counted \in SUBSET Payments /\ total \in Nat
        /\ left = screen.left /\ counted = screen.counted /\ total = screen.total
  BY <1>4 DEF OpenTask
<1> PICK q : q = Head(left)
  OBVIOUS
<1> PICK rest : rest = Tail(left)
  OBVIOUS
<1>6. /\ q \in Payments /\ 1 \in DOMAIN left /\ left[1] = q /\ q \notin counted
      /\ rest \in Seq(Payments)
      /\ \A i \in DOMAIN rest : i + 1 \in DOMAIN left /\ rest[i] = left[i + 1] /\ i + 1 # 1
  <2>1. /\ left # << >> /\ Len(left) \in Nat /\ DOMAIN left = 1..Len(left)
        /\ q \in Payments /\ rest \in Seq(Payments) /\ Len(rest) = Len(left) - 1
        /\ \A i \in 1..Len(rest) : rest[i] = left[i + 1]
    BY <1>3, HeadTailProperties
  <2>2. 1 \in DOMAIN left /\ left[1] = q
    BY <2>1
  <2>3. DOMAIN rest = 1..Len(rest)
    BY <2>1
  <2>4. q \notin counted
    BY <1>4, <2>2
  <2>5. \A i \in DOMAIN rest : i + 1 \in DOMAIN left /\ rest[i] = left[i + 1] /\ i + 1 # 1
    BY <2>1, <2>3
  <2> QED BY <2>1, <2>2, <2>4, <2>5
<1>7. /\ \A i, j \in DOMAIN rest : rest[i] = rest[j] => i = j
      /\ \A i \in DOMAIN rest : rest[i] \notin counted \cup {q}
      /\ ToSet(rest) \subseteq ToSet(left) /\ q \in ToSet(left)
  <2>1. \A i, j \in DOMAIN rest : rest[i] = rest[j] => i = j
    <3> TAKE i, j \in DOMAIN rest
    <3> HAVE rest[i] = rest[j]
    <3>1. i + 1 = j + 1
      BY <1>4, <1>6
    <3>2. i \in Int /\ j \in Int
      BY <1>6
    <3> QED BY <3>1, <3>2
  <2>2. \A i \in DOMAIN rest : rest[i] \notin counted \cup {q}
    BY <1>4, <1>6
  <2>3. ToSet(rest) \subseteq ToSet(left) /\ q \in ToSet(left)
    BY <1>6 DEF ToSet
  <2> QED BY <2>1, <2>2, <2>3
<1>8. CASE LeftOut
  <2>1. screen' = [screen EXCEPT !.left = rest]
    BY <1>8 DEF LeftOut
  <2>2. /\ screen' \in OpenTask
        /\ screen'.left = rest /\ screen'.counted = counted /\ screen'.total = total
    BY <1>4, <1>6, <2>1 DEF OpenTask
  <2>3. \A p \in counted : CountedFor(p, v[p])'
    BY <1>1, <1>2, <1>3, <1>5 DEF CountedFor
  <2>4. TaskRead'
    BY <1>1, <1>2, <1>3, <1>4, <1>5, <1>7, <2>2, <2>3 DEF TaskRead
  <2>5. HomeRead' /\ PagesRead' /\ RiskRead'
    BY <2>2, OtherScreens DEF OpenTask
  <2> QED BY <1>1, <1>2, <1>3, <2>4, <2>5 DEF ScreensInv
<1>9. CASE GetAuthorization
  <2>1. screen' = [screen EXCEPT !.left = rest, !.counted = counted \cup {q}, !.total = total + Spent(q)]
    BY <1>9 DEF GetAuthorization
  <2>2. /\ Spent(q) \in Nat /\ Out(q) \in Int /\ Out(q) <= began.out[q] /\ began.out[q] \in Int
        /\ payments[q].status = "expired" => Spent(q) = 0 /\ Out(q) >= 0
        /\ payments[q].status # "expired" => Spent(q) = Out(q)
    BY <1>4, <1>6, <1>7, SpentIs DEF ScreensInv
  <2> PICK spent \in Nat : spent = Spent(q)
    BY <2>2
  <2>3. CountedFor(q, spent)
    BY <2>2 DEF CountedFor
  <2>4. total + spent \in Nat /\ counted \cup {q} \in SUBSET Payments
    BY <1>6
  <2>5. /\ screen' \in OpenTask
        /\ screen'.left = rest /\ screen'.counted = counted \cup {q} /\ screen'.total = total + spent
    BY <1>4, <1>6, <2>1, <2>4 DEF OpenTask
  <2> DEFINE w == [p \in counted \cup {q} |-> IF p = q THEN spent ELSE v[p]]
  <2>6. w \in [counted \cup {q} -> Nat] /\ w[q] = spent /\ \A p \in counted : w[p] = v[p]
    BY <1>5, <1>6
  <2> HIDE DEF w
  <2>7. SumFunction(w) = SumFunction(v) + spent
    <3>1. IsFiniteSet(counted) /\ q \notin counted /\ v \in [counted -> Nat]
      BY <1>4, <1>5, <1>6
    <3>2. SumFunction(w) = SumFunction(v) + w[q]
      BY ONLY <2>6, <3>1, CountedOnceMore
    <3> QED BY <2>6, <3>2
  <2>8. total + spent = SumFunction(w)
    BY <1>5, <2>7
  <2>9. \A p \in counted \cup {q} : CountedFor(p, w[p])'
    <3> TAKE p \in counted \cup {q}
    <3>1. CountedFor(p, w[p])
      BY <1>5, <2>3, <2>6
    <3> QED BY <1>1, <1>2, <1>3, <3>1 DEF CountedFor
  <2>10. IsFiniteSet(counted \cup {q})
    BY <1>4, FS_AddElement
  <2>11. \A p \in counted \cup {q} \cup ToSet(rest) :
            payments'[p].status # "none" /\ began'.out[p] \in Int /\ Out(p)' <= began'.out[p]
    <3> TAKE p \in counted \cup {q} \cup ToSet(rest)
    <3>1. p \in screen.counted \cup ToSet(screen.left)
      BY <1>7
    <3>2. payments[p].status # "none" /\ began.out[p] \in Int /\ Out(p) <= began.out[p]
      BY <1>4, <3>1
    <3>3. payments' = payments /\ began' = began /\ Out(p)' = Out(p)
      BY <1>1, <1>2, <1>3
    <3> QED BY <3>2, <3>3
  <2>12. TaskRead'
    BY <1>7, <2>5, <2>6, <2>8, <2>9, <2>10, <2>11 DEF TaskRead
  <2>13. HomeRead' /\ PagesRead' /\ RiskRead'
    BY <2>5, OtherScreens DEF OpenTask
  <2> QED BY <1>1, <1>2, <1>3, <2>12, <2>13 DEF ScreensInv
<1> QED BY <1>8, <1>9

LEMMA NothingOut ==
    ASSUME NEW p, movements = {}
    PROVE  Out(p) = 0
<1> PICK own, amounts : own = {m \in movements : m.payment = p} /\ amounts = [m \in own |-> m.amount]
  OBVIOUS
<1>1. DOMAIN amounts = {}
  OBVIOUS
<1>2. SumFunction(amounts) = 0
  BY <1>1, SumNone
<1>3. Out(p) = -SumFunction(amounts)
  BY DEF Out, Total
<1> PICK n \in Int : n = SumFunction(amounts) /\ 0 <= n /\ n <= 0
  BY <1>2
<1> QED BY ONLY n \in Int, 0 <= n, n <= 0, n = SumFunction(amounts), <1>3

LEMMA ScreensInvInit == InitScreens => ScreensInv
<1> SUFFICES ASSUME InitScreens PROVE ScreensInv
  OBVIOUS
<1>1. /\ movements = {} /\ posting = {} /\ nextId = 1 /\ bought = << >>
      /\ payments = [p \in Payments |-> [status |-> "none", amount |-> 0, refunded |-> 0]]
      /\ screen = [what |-> "nothing"] /\ began.movements = {}
  BY DEF InitScreens
<1>2. LedgerTypeOK
  BY <1>1, FS_EmptySet DEF LedgerTypeOK, PaymentStates
<1>3. \A p \in Payments : Out(p) = 0
  BY <1>1, NothingOut
<1>4. LedgerInv
  BY <1>1, <1>2, <1>3 DEF LedgerInv, StillOut
<1>5. HomeRead /\ PagesRead /\ RiskRead /\ TaskRead
  BY <1>1 DEF HomeRead, PagesRead, RiskRead, TaskRead
<1> QED BY <1>1, <1>4, <1>5 DEF ScreensInv

LEMMA ScreensInvNext == ScreensInv /\ [NextScreens]_screenVars => ScreensInv'
<1> SUFFICES ASSUME ScreensInv, [NextScreens]_screenVars PROVE ScreensInv'
  OBVIOUS
<1>1. CASE NextLedger
  <2>1. LedgerInv' /\ Onwards
    BY <1>1, LedgerGoesOn DEF ScreensInv
  <2> QED BY <2>1, ScreensStay
<1>2. CASE ReadBalance \/ ReadProjected \/ ListLatest \/ liveHolds \/ HomeFails
  BY <1>2, HomeSteps
<1>3. CASE handleMovements
  BY <1>3, PagesSteps
<1>4. CASE Observe
  BY <1>4, RiskSteps
<1>5. ASSUME NEW p \in Payments, taskOf(p) PROVE ScreensInv'
  BY <1>5, TaskOpens
<1>6. CASE GetAuthorization \/ LeftOut
  BY <1>6, TaskReads
<1>7. CASE UNCHANGED screenVars
  <2>1. UNCHANGED <<movements, posting, nextId, payments, bought, screen, began, balances>> /\ UNCHANGED ledgerVars
    BY <1>7 DEF screenVars, ledgerVars
  <2>2. LedgerInv' /\ \A p : Out(p)' = Out(p)
    BY <2>1, LedgerRests DEF ScreensInv
  <2>3. \A p \in Payments : Out(p) \in Int
    BY OutInt DEF ScreensInv
  <2>4. Onwards
    BY <2>1, <2>2, <2>3 DEF Onwards
  <2> QED BY <2>2, <2>4, ScreensStay
<1> QED BY <1>1, <1>2, <1>3, <1>4, <1>5, <1>6, <1>7 DEF NextScreens

(* The inductive invariant holds in every reachable state.                       *)
THEOREM ScreensInvariant == ScreensSpec => []ScreensInv
BY ScreensInvInit, ScreensInvNext, PTL DEF ScreensSpec

LEMMA ScreensInvTells == ScreensInv => ScreensTellTheLedger
<1> SUFFICES ASSUME ScreensInv PROVE ScreensTellTheLedger
  OBVIOUS
<1>1. HomeTells
  BY DEF ScreensInv, HomeRead, HomeTells
<1>2. PagesTell
  BY DEF ScreensInv, PagesRead, PagesTell, Since
<1>3. RiskTells
  <2> SUFFICES ASSUME screen.what = "risk"
      PROVE  /\ Newest(screen.seen) /\ \A m \in ToSet(screen.seen) : m.kind # "pocket_transfer"
             /\ ~screen.more /\ (screen.cursor = NoCursor \/ screen.page < ScanPages) =>
                {m \in began.movements : m.id > Window /\ m.kind # "pocket_transfer"} \subseteq ToSet(screen.seen)
    BY DEF RiskTells
  <2>1. RiskRead
    BY DEF ScreensInv
  <2>2. Newest(screen.seen) /\ \A m \in ToSet(screen.seen) : m.kind # "pocket_transfer"
    BY <2>1 DEF RiskRead, Observed, ToSet
  <2>3. ASSUME ~screen.more, screen.cursor = NoCursor \/ screen.page < ScanPages,
               NEW m \in began.movements, m.id > Window, m.kind # "pocket_transfer"
        PROVE  m \in ToSet(screen.seen)
    <3>1. m.id \in Nat /\ Window \in Nat /\ ScanPages \in Nat /\ screen.cursor \in Nat /\ screen.page \in Nat
      BY <2>1, ScreensAssumption DEF RiskRead, ScreensInv, LedgerInv, LedgerTypeOK, Movements, OpenRisk
    <3>2. screen.cursor = NoCursor \/ screen.cursor <= Window
      BY <2>1, <2>3, <3>1 DEF RiskRead
    <3>3. m \in Since(screen.cursor) /\ Observed(m)
      BY <2>3, <3>1, <3>2 DEF Since, Observed
    <3> QED BY <2>1, <2>3, <3>3 DEF RiskRead
  <2> QED BY <2>2, <2>3
<1>4. TaskTells
  <2> SUFFICES ASSUME screen.what = "task"
      PROVE  /\ screen.total <= SumFunction([p \in screen.counted |-> began.out[p]])
             /\ screen.total >= SumFunction([p \in {p \in screen.counted : payments[p].status # "expired"} |-> Out(p)])
    BY DEF TaskTells
  <2>1. /\ screen.counted \in SUBSET Payments /\ IsFiniteSet(screen.counted)
        /\ \A p \in screen.counted : began.out[p] \in Int
    BY DEF ScreensInv, TaskRead, OpenTask
  <2>2. PICK v \in [screen.counted -> Nat] :
            screen.total = SumFunction(v) /\ \A p \in screen.counted : CountedFor(p, v[p])
    BY DEF ScreensInv, TaskRead
  <2> PICK counted : counted = screen.counted
    OBVIOUS
  <2> PICK f : f = [p \in counted |-> began.out[p]]
    OBVIOUS
  <2> PICK due : due = {p \in counted : payments[p].status # "expired"}
    OBVIOUS
  <2> PICK e : e = [p \in due |-> Out(p)]
    OBVIOUS
  <2>3. SumFunction(v) <= SumFunction(f)
    <3>1. /\ IsFiniteSet(counted) /\ v \in [counted -> Int] /\ f \in [counted -> Int]
          /\ \A p \in counted : v[p] <= f[p]
      BY <2>1, <2>2 DEF CountedFor
    <3> QED BY ONLY <3>1, SumMonotone
  <2>4. SumFunction(e) <= SumFunction(v)
    <3>1. \A p \in counted : Out(p) \in Int
      BY <2>1, OutInt DEF ScreensInv
    <3>2. IsFiniteSet(counted) /\ v \in [counted -> Nat] /\ due \in SUBSET counted /\ e \in [due -> Int]
          /\ \A p \in due : e[p] <= v[p]
      BY <2>1, <2>2, <3>1 DEF CountedFor
    <3> QED BY ONLY <3>2, SumWithin
  <2> QED BY <2>2, <2>3, <2>4
<1> QED BY <1>1, <1>2, <1>3, <1>4 DEF ScreensTellTheLedger

(* For any number of payments and movements and any sizes of a page, of a window *)
(* and of a task: a home, the movements page by page, what the risk engine       *)
(* observes and the cost of a task agree with a ledger that was, whatever        *)
(* commits, is refunded, released or expires between their reads (handleHome;    *)
(* handleMovements; movements; taskOf).                                          *)
THEOREM ScreensAlwaysTell == ScreensSpec => []ScreensTellTheLedger
BY ScreensInvariant, ScreensInvTells, PTL
================================================================================
