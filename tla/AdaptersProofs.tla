---------------------------- MODULE AdaptersProofs ----------------------------
(* Proofs about the adapters that carry money in and out of the bank, for any    *)
(* number of purchases, transfers, notices, amounts, and requests at once: the   *)
(* payment rails (Rails) and the card programme (Cards), over the core as their  *)
(* client sees it (CoreClient).                                                  *)
EXTENDS Cards, Rails, Sums, TLAPS

(* What is posted is posted once, and a key that was answered well stands for    *)
(* the entries it was asked for.                                                 *)
LEMMA PostOutcome ==
    ASSUME NEW key, NEW entries, NEW got, Post(key, entries, got)
    PROVE  /\ \/ core' = core
              \/ /\ key \notin DOMAIN core
                 /\ core' = [k \in DOMAIN core \cup {key} |-> IF k = key THEN entries ELSE core[k]]
           /\ Ok(got) => key \in DOMAIN core' /\ core'[key] = entries
<1>1. Reply(key, entries) = "posted" => key \notin DOMAIN core
  BY DEF Reply
<1>2. Reply(key, entries) = "replayed" => key \in DOMAIN core /\ core[key] = entries
  BY DEF Reply
<1>3. core' \in {core, Posted(key, entries)}
  BY DEF Post
<1>4. Ok(got) => got = Reply(key, entries) /\ core' = Posted(key, entries)
  BY DEF Post, Ok
<1>5. Ok(got) => key \in DOMAIN core' /\ core'[key] = entries
  BY <1>1, <1>2, <1>4 DEF Ok, Posted
<1> QED BY <1>1, <1>3, <1>5 DEF Posted

(* The terms of one purchase or transfer are few: what they add up to.           *)
LEMMA GainedNone ==
    ASSUME NEW a, NEW keys, \A k \in keys : a \notin DOMAIN core[k]
    PROVE  Gained(a, keys) = 0
<1>1. {k \in keys : a \in DOMAIN core[k]} = {}
  OBVIOUS
<1> QED BY <1>1, SumNone DEF Gained

LEMMA GainedOne ==
    ASSUME NEW a, NEW j, a \in DOMAIN core[j], core[j][a] \in Int
    PROVE  Gained(a, {j}) = core[j][a]
<1> DEFINE f == [k \in {j} |-> core[k][a]]
           e == [k \in {j} \ {j} |-> core[k][a]]
<1>1. {k \in {j} : a \in DOMAIN core[k]} = {j}
  OBVIOUS
<1>2. IsFiniteSet({j}) /\ f \in [{j} -> Int] /\ e \in [{j} \ {j} -> Int] /\ DOMAIN e = {}
  BY FS_Singleton
<1>3. SumFunction(f) = f[j] + SumFunction(e)
  BY <1>2, SumApart
<1>4. SumFunction(e) = 0
  BY <1>2, SumNone
<1> QED BY <1>1, <1>3, <1>4 DEF Gained

LEMMA GainedTwo ==
    ASSUME NEW a, NEW i, NEW j, i # j,
           a \in DOMAIN core[i], core[i][a] \in Int, a \in DOMAIN core[j], core[j][a] \in Int
    PROVE  Gained(a, {i, j}) = core[i][a] + core[j][a]
<1> DEFINE S == {i, j}
           f == [k \in S |-> core[k][a]]
           e == [k \in S \ {i} |-> core[k][a]]
<1>1. {k \in S : a \in DOMAIN core[k]} = S /\ S \ {i} = {j}
  OBVIOUS
<1>2. IsFiniteSet(S)
  <2>1. IsFiniteSet({i})
    BY FS_Singleton
  <2>2. IsFiniteSet({i} \cup {j})
    BY <2>1, FS_AddElement
  <2>3. S = {i} \cup {j}
    OBVIOUS
  <2> QED BY <2>2, <2>3
<1>3. SumFunction(f) = f[i] + SumFunction(e)
  <2>1. f \in [S -> Int] /\ e \in [S \ {i} -> Int] /\ i \in S /\ \A k \in S \ {i} : e[k] = f[k]
    OBVIOUS
  <2>2. IsFiniteSet(S)
    BY <1>2
  <2> HIDE DEF S, f, e
  <2> QED BY ONLY <2>1, <2>2, SumApart
<1>4. {k \in {j} : a \in DOMAIN core[k]} = {j}
  OBVIOUS
<1>5. SumFunction(e) = core[j][a]
  BY <1>1, <1>4, GainedOne DEF Gained
<1> QED BY <1>1, <1>3, <1>5 DEF Gained

(******************************************************************************)
(* Rails: for any transfers, requests and notices, wherever a request dies or *)
(* an answer is lost, and however often each is repeated.                     *)
(******************************************************************************)
Reserved(t) == ReserveKey(t) \in DOMAIN core
Standings   == {[at |-> "idle"]} \cup [at : {"send", "wait", "settle", "reverse"}, transfer : Transfers]

RailsTypeOK ==
    /\ sends \in [Senders -> Standings]
    /\ order \in [Transfers -> {"unknown", "received", "accepted", "rejected"}]
    /\ DOMAIN told = Transfers
    /\ acked \subseteq Notices

(* What the rails have posted is what their calls post, under their keys.        *)
RailEntries ==
    /\ \A t \in Transfers :
          /\ Reserved(t) => core[ReserveKey(t)] = Moves(From[t], InTransit, Sending[t])
          /\ Gone(t)     => core[SettleKey(t)] = Moves(InTransit, Nostro, Sending[t])
          /\ Given(t)    => core[GiveBackKey(t)] = Moves(InTransit, From[t], Sending[t])
    /\ \A i \in Notices : InboundKey(i) \in DOMAIN core =>
          \E a \in Holders : core[InboundKey(i)] = Moves(Nostro, a, Incoming[i])

(* The inductive invariant: a transfer that is under way was reserved, and only  *)
(* the rail's own decision, which is final, sends it to one of its two ends.     *)
RailInv ==
    /\ RailsTypeOK /\ RailEntries
    /\ \A c \in Senders : sends[c] # AtRest =>
          /\ Reserved(sends[c].transfer)
          /\ sends[c].at = "settle"  => order[sends[c].transfer] = "accepted"
          /\ sends[c].at = "reverse" => order[sends[c].transfer] = "rejected"
    /\ \A t \in Transfers :
          /\ Gone(t)  => Reserved(t) /\ order[t] = "accepted"
          /\ Given(t) => Reserved(t) /\ order[t] = "rejected"
          /\ "settled" \in told[t] => Gone(t)
          /\ "reversed" \in told[t] => Given(t)
    /\ \A i \in acked : InboundKey(i) \in DOMAIN core

-------------------------------------------------------------------------------
(* Keys of different kinds differ, and so do those of one kind for different     *)
(* transfers.                                                                    *)
LEMMA RailKeys ==
    /\ \A s, t \in Transfers :
          /\ ReserveKey(s) = ReserveKey(t) => s = t
          /\ SettleKey(s) = SettleKey(t) => s = t
          /\ GiveBackKey(s) = GiveBackKey(t) => s = t
          /\ ReserveKey(s) # SettleKey(t) /\ ReserveKey(s) # GiveBackKey(t)
          /\ SettleKey(s) # GiveBackKey(t)
    /\ \A i \in Notices, t \in Transfers :
          InboundKey(i) \notin {ReserveKey(t), SettleKey(t), GiveBackKey(t)}
    /\ \A i, j \in Notices : InboundKey(i) = InboundKey(j) => i = j
BY DEF ReserveKey, SettleKey, GiveBackKey, InboundKey

LEMMA RestIs == AtRest.at = "idle" /\ \A s \in Standings : s # AtRest => s.at # "idle" /\ s.transfer \in Transfers
BY DEF AtRest, Standings

OnItsWay(s) ==
    s # AtRest => /\ Reserved(s.transfer)
                  /\ s.at = "settle"  => order[s.transfer] = "accepted"
                  /\ s.at = "reverse" => order[s.transfer] = "rejected"

(* The ledger grows and a decision of the rail is final; so a step has to answer *)
(* for what it adds only.                                                        *)
LEMMA RailInvKept ==
    ASSUME RailInv, RailsTypeOK', RailEntries',
           DOMAIN core \subseteq DOMAIN core',
           \A t \in Transfers : order[t] \in {"accepted", "rejected"} => order'[t] = order[t],
           \A c \in Senders : sends'[c] = sends[c] \/ sends'[c] = AtRest \/ OnItsWay(sends[c])',
           \A t \in Transfers :
               /\ Gone(t)' => Gone(t) \/ (Reserved(t) /\ order[t] = "accepted")
               /\ Given(t)' => Given(t) \/ (Reserved(t) /\ order[t] = "rejected")
               /\ "settled" \in told'[t] => "settled" \in told[t] \/ Gone(t)'
               /\ "reversed" \in told'[t] => "reversed" \in told[t] \/ Given(t)',
           \A i \in acked' : i \in acked \/ InboundKey(i) \in DOMAIN core'
    PROVE  RailInv'
<1>1. \A t \in Transfers : Reserved(t) => Reserved(t)'
  BY DEF Reserved
<1>2. \A c \in Senders : sends[c] # AtRest => sends[c].transfer \in Transfers
  BY RestIs DEF RailInv, RailsTypeOK
<1>3. \A c \in Senders : sends'[c] # AtRest => OnItsWay(sends[c])'
  <2> SUFFICES ASSUME NEW c \in Senders, sends'[c] # AtRest PROVE OnItsWay(sends[c])'
    OBVIOUS
  <2>1. CASE sends'[c] = sends[c]
    BY <1>1, <1>2, <2>1 DEF RailInv, OnItsWay
  <2> QED BY <2>1
<1>4. \A t \in Transfers : /\ Gone(t)  => Gone(t)' /\ Reserved(t) /\ order[t] = "accepted"
                           /\ Given(t) => Given(t)' /\ Reserved(t) /\ order[t] = "rejected"
                           /\ "settled" \in told[t] => Gone(t)
                           /\ "reversed" \in told[t] => Given(t)
  BY DEF RailInv, Gone, Given
<1>5. \A i \in acked : InboundKey(i) \in DOMAIN core'
  BY DEF RailInv
<1>6. \A t \in Transfers :
          /\ Gone(t)'  => Reserved(t)' /\ order'[t] = "accepted"
          /\ Given(t)' => Reserved(t)' /\ order'[t] = "rejected"
          /\ "settled" \in told'[t] => Gone(t)'
          /\ "reversed" \in told'[t] => Given(t)'
  BY <1>1, <1>4
<1>7. \A c \in Senders : sends'[c] # AtRest =>
          /\ ReserveKey(sends'[c].transfer) \in DOMAIN core'
          /\ sends'[c].at = "settle"  => order'[sends'[c].transfer] = "accepted"
          /\ sends'[c].at = "reverse" => order'[sends'[c].transfer] = "rejected"
  BY <1>3 DEF OnItsWay, Reserved
<1> QED BY <1>5, <1>6, <1>7 DEF RailInv, Reserved

(* A posting of the rails changes nothing about the others, and is kept as it    *)
(* was asked for.                                                                *)
RailPosting(key, entries) ==
    \/ \E t \in Transfers :
          \/ key = ReserveKey(t)  /\ entries = Moves(From[t], InTransit, Sending[t])
          \/ key = SettleKey(t)   /\ entries = Moves(InTransit, Nostro, Sending[t])
          \/ key = GiveBackKey(t) /\ entries = Moves(InTransit, From[t], Sending[t])
    \/ \E i \in Notices, a \in Holders :
          key = InboundKey(i) /\ entries = Moves(Nostro, a, Incoming[i])

LEMMA EntriesKept ==
    ASSUME RailEntries, NEW key, NEW entries, RailPosting(key, entries),
           NEW got, Post(key, entries, got)
    PROVE  /\ RailEntries' /\ DOMAIN core \subseteq DOMAIN core'
           /\ \A k \in DOMAIN core' : k \in DOMAIN core \/ k = key
           /\ Ok(got) => key \in DOMAIN core'
<1>1. CASE core' = core
  BY <1>1, PostOutcome DEF RailEntries, Reserved, Gone, Given
<1>2. CASE /\ key \notin DOMAIN core
           /\ core' = [k \in DOMAIN core \cup {key} |-> IF k = key THEN entries ELSE core[k]]
  <2>1. \A k \in DOMAIN core' : IF k = key THEN core'[k] = entries ELSE k \in DOMAIN core /\ core'[k] = core[k]
    BY <1>2
  <2>2. ASSUME NEW t \in Transfers
        PROVE  /\ Reserved(t)' => core'[ReserveKey(t)] = Moves(From[t], InTransit, Sending[t])
               /\ Gone(t)'     => core'[SettleKey(t)] = Moves(InTransit, Nostro, Sending[t])
               /\ Given(t)'    => core'[GiveBackKey(t)] = Moves(InTransit, From[t], Sending[t])
    <3>1. /\ Reserved(t) => core[ReserveKey(t)] = Moves(From[t], InTransit, Sending[t])
          /\ Gone(t)     => core[SettleKey(t)] = Moves(InTransit, Nostro, Sending[t])
          /\ Given(t)    => core[GiveBackKey(t)] = Moves(InTransit, From[t], Sending[t])
      BY DEF RailEntries
    <3>2. /\ key = ReserveKey(t) => entries = Moves(From[t], InTransit, Sending[t])
          /\ key = SettleKey(t) => entries = Moves(InTransit, Nostro, Sending[t])
          /\ key = GiveBackKey(t) => entries = Moves(InTransit, From[t], Sending[t])
      BY RailKeys DEF RailPosting
    <3> QED BY <2>1, <3>1, <3>2 DEF Reserved, Gone, Given
  <2>3. ASSUME NEW i \in Notices, InboundKey(i) \in DOMAIN core'
        PROVE  \E a \in Holders : core'[InboundKey(i)] = Moves(Nostro, a, Incoming[i])
    <3>1. CASE InboundKey(i) = key
      <4>1. PICK j \in Notices, a \in Holders : key = InboundKey(j) /\ entries = Moves(Nostro, a, Incoming[j])
        BY <3>1, RailKeys DEF RailPosting
      <4>2. i = j
        BY <3>1, <4>1, RailKeys
      <4> QED BY <2>1, <2>3, <3>1, <4>1, <4>2
    <3>2. CASE InboundKey(i) # key
      BY <2>1, <2>3, <3>2 DEF RailEntries
    <3> QED BY <3>1, <3>2
  <2>4. RailEntries'
    BY <2>2, <2>3 DEF RailEntries
  <2> QED BY <1>2, <2>4, PostOutcome
<1> QED BY <1>1, <1>2, PostOutcome

LEMMA RailInit == InitRails => RailInv
<1> SUFFICES ASSUME InitRails PROVE RailInv
  OBVIOUS
<1>1. DOMAIN core = {}
  BY DEF InitRails
<1> QED BY <1>1 DEF InitRails, RailInv, RailsTypeOK, RailEntries, Standings, AtRest, Reserved, Gone, Given

(* A request alone moves, and what it is told is added.                          *)
LEMMA OneProceeds ==
    ASSUME RailsTypeOK, NEW c \in Senders, NEW t \in Transfers,
           \/ /\ \E step \in {"send", "wait", "settle", "reverse"} : Proceed(c, t, step)
              /\ UNCHANGED told
           \/ \E status \in {"error", "in_transit", "settled", "reversed"} : Answer(c, t, status)
    PROVE  /\ sends' \in [Senders -> Standings] /\ DOMAIN told' = Transfers
           /\ \A d \in Senders \ {c} : sends'[d] = sends[d]
BY DEF RailsTypeOK, Proceed, Answer, Standings, AtRest

LEMMA SendOutboundKeeps ==
    ASSUME RailInv, NEW c \in Senders, NEW t \in Transfers, SendOutbound(c, t)
    PROVE  RailInv'
<1>1. PICK got \in Answers :
         /\ Post(ReserveKey(t), Moves(From[t], InTransit, Sending[t]), got)
         /\ IF Ok(got) THEN Proceed(c, t, "send") /\ UNCHANGED told ELSE Answer(c, t, "error")
  BY DEF SendOutbound
<1>2. UNCHANGED <<order, ours, acked>>
  BY DEF SendOutbound
<1>3. /\ RailEntries' /\ DOMAIN core \subseteq DOMAIN core'
      /\ \A k \in DOMAIN core' : k \in DOMAIN core \/ k = ReserveKey(t)
      /\ Ok(got) => ReserveKey(t) \in DOMAIN core'
  BY <1>1, EntriesKept DEF RailPosting, RailInv
<1>4. RailsTypeOK' /\ \A d \in Senders \ {c} : sends'[d] = sends[d]
  BY <1>1, <1>2, OneProceeds DEF RailInv, RailsTypeOK
<1>5. sends'[c] = AtRest \/ OnItsWay(sends[c])'
  BY <1>1, <1>3 DEF RailInv, RailsTypeOK, Proceed, Answer, OnItsWay, Reserved
<1>6. \A s \in Transfers : /\ Gone(s)' => Gone(s)
                           /\ Given(s)' => Given(s)
                           /\ "settled" \in told'[s] => "settled" \in told[s]
                           /\ "reversed" \in told'[s] => "reversed" \in told[s]
  BY <1>1, <1>3, RailKeys DEF Gone, Given, Answer, RailInv, RailsTypeOK
<1> QED BY <1>2, <1>3, <1>4, <1>5, <1>6, RailInvKept DEF RailInv

LEMMA SendKeeps == ASSUME RailInv, NEW c \in Senders, Send(c) PROVE RailInv'
<1> DEFINE t == sends[c].transfer
<1>1. sends[c] # AtRest /\ t \in Transfers /\ Reserved(t)
  BY RestIs DEF Send, RailInv, RailsTypeOK
<1>2. /\ Proceed(c, t, "wait") /\ UNCHANGED <<core, told, ours, acked>>
      /\ order' = IF order[t] = "unknown" THEN [order EXCEPT ![t] = "received"] ELSE order
  BY DEF Send
<1>3. RailEntries'
  BY <1>2 DEF RailInv, RailEntries, Reserved, Gone, Given
<1>4. RailsTypeOK' /\ \A d \in Senders \ {c} : sends'[d] = sends[d]
  BY <1>1, <1>2, OneProceeds DEF RailInv, RailsTypeOK
<1>5. OnItsWay(sends[c])'
  BY <1>1, <1>2 DEF RailInv, RailsTypeOK, Proceed, OnItsWay, Reserved
<1>6. \A s \in Transfers : order[s] \in {"accepted", "rejected"} => order'[s] = order[s]
  BY <1>2 DEF RailInv, RailsTypeOK
<1> QED BY <1>2, <1>3, <1>4, <1>5, <1>6, RailInvKept DEF RailInv, Gone, Given

LEMMA AnsweredKeeps == ASSUME RailInv, NEW c \in Senders, Answered(c) PROVE RailInv'
<1> DEFINE t == sends[c].transfer
<1>1. sends[c] # AtRest /\ t \in Transfers /\ Reserved(t)
  BY RestIs DEF Answered, RailInv, RailsTypeOK
<1>2. UNCHANGED <<core, order, ours, acked>>
  BY DEF Answered
<1>3. \/ order[t] = "accepted" /\ Proceed(c, t, "settle") /\ UNCHANGED told
      \/ order[t] = "rejected" /\ Proceed(c, t, "reverse") /\ UNCHANGED told
      \/ Answer(c, t, "in_transit")
  BY DEF Answered
<1>4. RailEntries'
  BY <1>2 DEF RailInv, RailEntries, Reserved, Gone, Given
<1>5. RailsTypeOK' /\ \A d \in Senders \ {c} : sends'[d] = sends[d]
  BY <1>1, <1>2, <1>3, OneProceeds DEF RailInv, RailsTypeOK
<1>6. sends'[c] = AtRest \/ OnItsWay(sends[c])'
  BY <1>1, <1>2, <1>3 DEF RailInv, RailsTypeOK, Proceed, Answer, OnItsWay, Reserved
<1>7. \A s \in Transfers : /\ "settled" \in told'[s] => "settled" \in told[s]
                           /\ "reversed" \in told'[s] => "reversed" \in told[s]
  BY <1>3 DEF Answer, RailInv, RailsTypeOK
<1> QED BY <1>2, <1>4, <1>5, <1>6, <1>7, RailInvKept DEF RailInv, Gone, Given

LEMMA SettleKeeps == ASSUME RailInv, NEW c \in Senders, Settle(c) PROVE RailInv'
<1> DEFINE t == sends[c].transfer
<1>1. sends[c] # AtRest /\ t \in Transfers /\ Reserved(t) /\ order[t] = "accepted"
  BY RestIs DEF Settle, RailInv, RailsTypeOK
<1>2. UNCHANGED <<order, ours, acked>>
  BY DEF Settle
<1>3. PICK got \in Answers :
         /\ Post(SettleKey(t), Moves(InTransit, Nostro, Sending[t]), got)
         /\ Answer(c, t, IF Ok(got) THEN "settled" ELSE "in_transit")
  BY DEF Settle
<1> HIDE DEF t
<1>4. /\ RailEntries' /\ DOMAIN core \subseteq DOMAIN core'
      /\ \A k \in DOMAIN core' : k \in DOMAIN core \/ k = SettleKey(t)
      /\ Ok(got) => SettleKey(t) \in DOMAIN core'
  BY <1>1, <1>3, EntriesKept DEF RailPosting, RailInv
<1>5. RailsTypeOK' /\ \A d \in Senders \ {c} : sends'[d] = sends[d]
  BY <1>1, <1>2, <1>3, OneProceeds DEF RailInv, RailsTypeOK
<1>6. sends'[c] = AtRest
  BY <1>3 DEF RailInv, RailsTypeOK, Answer
<1>7. ASSUME NEW s \in Transfers
      PROVE  /\ Gone(s)' => Gone(s) \/ (Reserved(s) /\ order[s] = "accepted")
             /\ Given(s)' => Given(s)
             /\ "settled" \in told'[s] => "settled" \in told[s] \/ Gone(s)'
             /\ "reversed" \in told'[s] => "reversed" \in told[s]
  BY <1>1, <1>3, <1>4, RailKeys DEF Gone, Given, Answer, RailInv, RailsTypeOK
<1> QED BY <1>2, <1>4, <1>5, <1>6, <1>7, RailInvKept DEF RailInv

LEMMA GiveBackKeeps == ASSUME RailInv, NEW c \in Senders, GiveBack(c) PROVE RailInv'
<1> DEFINE t == sends[c].transfer
<1>1. sends[c] # AtRest /\ t \in Transfers /\ Reserved(t) /\ order[t] = "rejected"
  BY RestIs DEF GiveBack, RailInv, RailsTypeOK
<1>2. UNCHANGED <<order, ours, acked>>
  BY DEF GiveBack
<1>3. PICK got \in Answers :
         /\ Post(GiveBackKey(t), Moves(InTransit, From[t], Sending[t]), got)
         /\ Answer(c, t, IF Ok(got) THEN "reversed" ELSE "error")
  BY DEF GiveBack
<1> HIDE DEF t
<1>4. /\ RailEntries' /\ DOMAIN core \subseteq DOMAIN core'
      /\ \A k \in DOMAIN core' : k \in DOMAIN core \/ k = GiveBackKey(t)
      /\ Ok(got) => GiveBackKey(t) \in DOMAIN core'
  BY <1>1, <1>3, EntriesKept DEF RailPosting, RailInv
<1>5. RailsTypeOK' /\ \A d \in Senders \ {c} : sends'[d] = sends[d]
  BY <1>1, <1>2, <1>3, OneProceeds DEF RailInv, RailsTypeOK
<1>6. sends'[c] = AtRest
  BY <1>3 DEF RailInv, RailsTypeOK, Answer
<1>7. ASSUME NEW s \in Transfers
      PROVE  /\ Gone(s)' => Gone(s)
             /\ Given(s)' => Given(s) \/ (Reserved(s) /\ order[s] = "rejected")
             /\ "settled" \in told'[s] => "settled" \in told[s]
             /\ "reversed" \in told'[s] => "reversed" \in told[s] \/ Given(s)'
  BY <1>1, <1>3, <1>4, RailKeys DEF Gone, Given, Answer, RailInv, RailsTypeOK
<1> QED BY <1>2, <1>4, <1>5, <1>6, <1>7, RailInvKept DEF RailInv

LEMMA InboundKeeps == ASSUME RailInv, NEW i \in Notices, HandleInboundCredit(i) PROVE RailInv'
<1>1. PICK got \in Answers : /\ Post(InboundKey(i), Moves(Nostro, ours, Incoming[i]), got)
                             /\ acked' = IF Ok(got) THEN acked \cup {i} ELSE acked
  BY DEF HandleInboundCredit
<1>2. ours \in Holders /\ UNCHANGED <<sends, order, told, ours>>
  BY DEF HandleInboundCredit
<1>3. /\ RailEntries' /\ DOMAIN core \subseteq DOMAIN core'
      /\ \A k \in DOMAIN core' : k \in DOMAIN core \/ k = InboundKey(i)
      /\ Ok(got) => InboundKey(i) \in DOMAIN core'
  BY <1>1, <1>2, EntriesKept DEF RailPosting, RailInv
<1>4. RailsTypeOK'
  BY <1>1, <1>2 DEF RailInv, RailsTypeOK
<1>5. \A t \in Transfers : (Gone(t)' => Gone(t)) /\ (Given(t)' => Given(t))
  BY <1>3, RailKeys DEF Gone, Given
<1>6. \A j \in acked' : j \in acked \/ InboundKey(j) \in DOMAIN core'
  BY <1>1, <1>3
<1> QED BY <1>2, <1>3, <1>4, <1>5, <1>6, RailInvKept

LEMMA OthersKeepRails ==
    ASSUME RailInv,
           \/ \E c \in Senders : Die(c)
           \/ \E t \in Transfers : RailDecides(t)
           \/ AliasMoves \/ UNCHANGED <<core, railVars>>
    PROVE  RailInv'
<1>1. core' = core /\ told' = told /\ acked' = acked
  BY DEF Die, RailDecides, AliasMoves, railVars
<1>2. RailEntries'
  BY <1>1 DEF RailInv, RailEntries, Reserved, Gone, Given
<1>3. RailsTypeOK'
  BY <1>1 DEF RailInv, RailsTypeOK, Standings, Die, RailDecides, AliasMoves, railVars, AtRest
<1>4. \A t \in Transfers : order[t] \in {"accepted", "rejected"} => order'[t] = order[t]
  BY DEF RailInv, RailsTypeOK, Die, RailDecides, AliasMoves, railVars
<1>5. \A c \in Senders : sends'[c] = sends[c] \/ sends'[c] = AtRest
  BY DEF RailInv, RailsTypeOK, Die, RailDecides, AliasMoves, railVars
<1> QED BY <1>1, <1>2, <1>3, <1>4, <1>5, RailInvKept DEF Gone, Given

-------------------------------------------------------------------------------
(* What has been posted under the keys of a transfer tells where its money is.   *)
LEMMA RailInvCounts == ASSUME RailInv PROVE RailsKeepCount
<1>1. ASSUME NEW t \in Transfers
      PROVE  Gained(InTransit, {ReserveKey(t), SettleKey(t), GiveBackKey(t)} \cap DOMAIN core) =
               IF Reserved(t) /\ ~Gone(t) /\ ~Given(t) THEN Sending[t] ELSE 0
  <2> DEFINE keys == {ReserveKey(t), SettleKey(t), GiveBackKey(t)} \cap DOMAIN core
  <2>1. /\ From[t] \in Holders /\ From[t] # InTransit /\ Nostro # InTransit
        /\ Sending[t] \in Int /\ -Sending[t] \in Int
    BY RailsAssumption, CoreClientAssumption
  <2>2. /\ Gone(t)  => Reserved(t) /\ ~Given(t)
        /\ Given(t) => Reserved(t)
    BY DEF RailInv
  <2>3. /\ Reserved(t) => InTransit \in DOMAIN core[ReserveKey(t)] /\ core[ReserveKey(t)][InTransit] = Sending[t]
        /\ Gone(t) => InTransit \in DOMAIN core[SettleKey(t)] /\ core[SettleKey(t)][InTransit] = -Sending[t]
        /\ Given(t) => InTransit \in DOMAIN core[GiveBackKey(t)] /\ core[GiveBackKey(t)][InTransit] = -Sending[t]
    <3>1. /\ Reserved(t) => core[ReserveKey(t)] = Moves(From[t], InTransit, Sending[t])
          /\ Gone(t)     => core[SettleKey(t)] = Moves(InTransit, Nostro, Sending[t])
          /\ Given(t)    => core[GiveBackKey(t)] = Moves(InTransit, From[t], Sending[t])
      BY DEF RailInv, RailEntries
    <3>2. InTransit \in DOMAIN Moves(From[t], InTransit, Sending[t])
          /\ Moves(From[t], InTransit, Sending[t])[InTransit] = Sending[t]
      BY DEF Moves
    <3>3. InTransit \in DOMAIN Moves(InTransit, Nostro, Sending[t])
          /\ Moves(InTransit, Nostro, Sending[t])[InTransit] = -Sending[t]
      BY <2>1 DEF Moves
    <3>4. InTransit \in DOMAIN Moves(InTransit, From[t], Sending[t])
          /\ Moves(InTransit, From[t], Sending[t])[InTransit] = -Sending[t]
      BY <2>1 DEF Moves
    <3> QED BY <3>1, <3>2, <3>3, <3>4
  <2>4. ReserveKey(t) # SettleKey(t) /\ ReserveKey(t) # GiveBackKey(t)
    BY RailKeys
  <2>5. CASE ~Reserved(t)
    <3>1. keys = {}
      BY <2>2, <2>5 DEF Reserved, Gone, Given
    <3> QED BY <2>5, <3>1, GainedNone
  <2>6. CASE Gone(t)
    <3>1. keys = {ReserveKey(t), SettleKey(t)}
      BY <2>2, <2>6 DEF Reserved, Gone, Given
    <3>2. Gained(InTransit, keys) = Sending[t] + (-Sending[t])
      BY <2>1, <2>2, <2>3, <2>4, <2>6, <3>1, GainedTwo
    <3> QED BY <2>1, <2>6, <3>2
  <2>7. CASE Given(t)
    <3>1. keys = {ReserveKey(t), GiveBackKey(t)}
      BY <2>2, <2>7 DEF Reserved, Gone, Given
    <3>2. Gained(InTransit, keys) = Sending[t] + (-Sending[t])
      BY <2>1, <2>2, <2>3, <2>4, <2>7, <3>1, GainedTwo
    <3> QED BY <2>1, <2>7, <3>2
  <2>8. CASE Reserved(t) /\ ~Gone(t) /\ ~Given(t)
    <3>1. keys = {ReserveKey(t)}
      BY <2>8 DEF Reserved, Gone, Given
    <3> QED BY <2>1, <2>3, <2>8, <3>1, GainedOne
  <2> QED BY <2>5, <2>6, <2>7, <2>8
<1>2. \A t \in Transfers :
         Reserved(t) <=> ReserveKey(t) \in {ReserveKey(t), SettleKey(t), GiveBackKey(t)} \cap DOMAIN core
  BY DEF Reserved
<1>3. \A t \in Transfers : /\ Gone(t)  => order[t] = "accepted"
                           /\ Given(t) => order[t] = "rejected"
                           /\ "settled"  \in told[t] => Gone(t)
                           /\ "reversed" \in told[t] => Given(t)
  BY DEF RailInv
<1>4. LimboIsExact
  BY <1>1, <1>2, <1>3 DEF LimboIsExact
<1>5. ASSUME NEW i \in acked
      PROVE  /\ InboundKey(i) \in DOMAIN core
             /\ Cardinality(DOMAIN core[InboundKey(i)] \cap Holders) = 1
             /\ \E a \in Holders : Gained(a, {InboundKey(i)}) = Incoming[i]
  <2>1. i \in Notices /\ InboundKey(i) \in DOMAIN core
    BY DEF RailInv, RailsTypeOK
  <2>2. PICK a \in Holders : core[InboundKey(i)] = Moves(Nostro, a, Incoming[i])
    BY <2>1 DEF RailInv, RailEntries
  <2>3. Nostro \notin Holders /\ Incoming[i] \in Int
    BY <2>1, RailsAssumption, CoreClientAssumption
  <2>4. DOMAIN core[InboundKey(i)] \cap Holders = {a}
    BY <2>2, <2>3 DEF Moves
  <2>5. a \in DOMAIN core[InboundKey(i)] /\ core[InboundKey(i)][a] = Incoming[i]
    BY <2>2 DEF Moves
  <2> QED BY <2>1, <2>3, <2>4, <2>5, GainedOne, FS_Singleton
<1> QED BY <1>4, <1>5 DEF CreditedOnce, RailsKeepCount

(* In every reachable state of the rails their invariant holds.                  *)
THEOREM RailsInvariant == RailsSpec => []RailInv
<1>1. ASSUME RailInv, [NextRails]_<<core, railVars>> PROVE RailInv'
  <2>1. CASE \E c \in Senders, t \in Transfers : SendOutbound(c, t)
    BY <1>1, <2>1, SendOutboundKeeps
  <2>2. CASE \E c \in Senders : Send(c) \/ Answered(c) \/ Settle(c) \/ GiveBack(c)
    BY <1>1, <2>2, SendKeeps, AnsweredKeeps, SettleKeeps, GiveBackKeeps
  <2>3. CASE \E i \in Notices : HandleInboundCredit(i)
    BY <1>1, <2>3, InboundKeeps
  <2> QED BY <1>1, <2>1, <2>2, <2>3, OthersKeepRails DEF NextRails
<1> QED BY <1>1, RailInit, PTL DEF RailsSpec

(* Money in transit is exactly what was reserved and neither settled nor given   *)
(* back, and never both; every credit the rail knows we took reached one account *)
(* once -- for any number of transfers, notices and requests at once.            *)
THEOREM RailsCountOnce == RailsSpec => []RailsKeepCount
BY RailsInvariant, RailInvCounts, PTL

(******************************************************************************)
(* Cards: for any purchases, merchants, charges and calls of the network at   *)
(* once, wherever one dies, is repeated or is not answered.                   *)
(******************************************************************************)
ClearSteps   == {"clear", "absorb", "mark cleared", "mark absorbed"}
ReverseSteps == {"reverse", "mark reversed"}
CardSteps    == {"hold", "mark held", "drop"} \cup ClearSteps \cup ReverseSteps

CardsTypeOK ==
    /\ rows \in [Purchases -> Row]
    /\ call \in [Calls -> {Idle} \cup [at : CardSteps, purchase : Purchases]]
    /\ network \in [Purchases -> {"unanswered", "approved", "clearing", "reversing", "settled"}]
    /\ final \in [Purchases -> Nat]

(* What stands in the ledger under the keys of a purchase.  What the merchant    *)
(* charges is fixed before it is asked for.                                      *)
Entered(n) ==
    /\ AuthKey(n) \in DOMAIN core => core[AuthKey(n)] = Moves(AccountOf[n], AuthHold, Amount[n])
    /\ ClearKey(n) \in DOMAIN core =>
          /\ final[n] > 0
          /\ core[ClearKey(n)] \in {ClearEntries(n, AccountOf[n]), ClearEntries(n, Overage)}
    /\ ReverseKey(n) \in DOMAIN core => core[ReverseKey(n)] = Moves(AuthHold, AccountOf[n], Amount[n])
    /\ network[n] \in {"unanswered", "approved"} => final[n] = 0

ClearedAs(n, payer) == ClearKey(n) \in DOMAIN core /\ core[ClearKey(n)] = ClearEntries(n, payer)

(* What a call of the network may rely on, by where it stands.                   *)
Relies(n, at) ==
    /\ at = "mark held"     => AuthKey(n) \in DOMAIN core
    /\ at \in ClearSteps    => final[n] > 0
    /\ at \in {"absorb", "mark absorbed"} => final[n] > Amount[n]
    /\ at = "mark cleared"  => ClearedAs(n, AccountOf[n])
    /\ at = "mark absorbed" => ClearedAs(n, Overage)
    /\ at = "mark reversed" => ReverseKey(n) \in DOMAIN core

Handles(c, n, steps) == call[c].at \in steps /\ call[c].purchase = n
Handled(n) == \A c \in Calls : Handles(c, n, CardSteps) => Relies(n, call[c].at)

(* What a row says is in the ledger.                                             *)
RowTells(n) ==
    /\ rows[n].held => AuthKey(n) \in DOMAIN core
    /\ rows[n].status = "cleared" =>
          /\ rows[n].final = final[n] /\ final[n] > 0
          /\ \/ rows[n].overage = 0 /\ ClearedAs(n, AccountOf[n])
             \/ /\ final[n] > Amount[n] /\ rows[n].overage = final[n] - Amount[n]
                /\ ClearedAs(n, Overage)
    /\ rows[n].status = "reversed" => ReverseKey(n) \in DOMAIN core

(* A purchase that was approved once its hold was known keeps its row, and goes  *)
(* one way: of charging and reversing, nothing is ever begun of the other.       *)
NoClear(n)   == ClearKey(n) \notin DOMAIN core /\ \A c \in Calls : ~Handles(c, n, ClearSteps)
NoReverse(n) == ReverseKey(n) \notin DOMAIN core /\ \A c \in Calls : ~Handles(c, n, ReverseSteps)

OneWay(n) ==
    n \notin early =>
        /\ network[n] \in {"unanswered", "approved", "reversing"} => NoClear(n)
        /\ network[n] \in {"unanswered", "approved", "clearing"}  => NoReverse(n)
        /\ network[n] = "settled" => \/ rows[n].status = "cleared" /\ NoReverse(n)
                                     \/ rows[n].status = "reversed" /\ NoClear(n)
        /\ network[n] # "unanswered" => rows[n].held

(* The inductive invariant, a purchase at a time.                                *)
PurchaseInv(n) == Entered(n) /\ Handled(n) /\ RowTells(n) /\ OneWay(n)
CardInv == CardsTypeOK /\ \A n \in Purchases : PurchaseInv(n)

-------------------------------------------------------------------------------
LEMMA CardKeys ==
    /\ \A m, n \in Purchases :
          /\ AuthKey(m) = AuthKey(n) => m = n
          /\ ClearKey(m) = ClearKey(n) => m = n
          /\ ReverseKey(m) = ReverseKey(n) => m = n
          /\ AuthKey(m) # ClearKey(n) /\ AuthKey(m) # ReverseKey(n) /\ ClearKey(m) # ReverseKey(n)
    /\ \A a, i : \A n \in Purchases : <<"spend", a, i>> \notin {AuthKey(n), ClearKey(n), ReverseKey(n)}
BY DEF AuthKey, ClearKey, ReverseKey

LEMMA IdleDoesNothing == \A n, steps : steps \subseteq CardSteps => Idle.at \notin steps
BY DEF Idle, CardSteps, ClearSteps, ReverseSteps

LEMMA StepsAre == ClearSteps \subseteq CardSteps /\ ReverseSteps \subseteq CardSteps
BY DEF CardSteps

(* The ledger only grows, and by nothing under the keys of n.                    *)
Spared(n) ==
    /\ \A k \in DOMAIN core : k \in DOMAIN core' /\ core'[k] = core[k]
    /\ \A k \in DOMAIN core' : k \in DOMAIN core \/ k \notin {AuthKey(n), ClearKey(n), ReverseKey(n)}

(* A purchase no step is about stays right.                                      *)
LEMMA AsideStays ==
    ASSUME NEW n \in Purchases, PurchaseInv(n), Spared(n),
           rows'[n] = rows[n], network'[n] = network[n], final'[n] = final[n],
           n \in early => n \in early',
           \A c \in Calls : call'[c] = call[c] \/ call'[c] = Idle \/ call'[c].purchase # n
    PROVE  PurchaseInv(n)'
<1>1. /\ AuthKey(n) \in DOMAIN core <=> AuthKey(n) \in DOMAIN core'
      /\ ClearKey(n) \in DOMAIN core <=> ClearKey(n) \in DOMAIN core'
      /\ ReverseKey(n) \in DOMAIN core <=> ReverseKey(n) \in DOMAIN core'
      /\ AuthKey(n) \in DOMAIN core => core'[AuthKey(n)] = core[AuthKey(n)]
      /\ ClearKey(n) \in DOMAIN core => core'[ClearKey(n)] = core[ClearKey(n)]
      /\ ReverseKey(n) \in DOMAIN core => core'[ReverseKey(n)] = core[ReverseKey(n)]
  BY DEF Spared
<1>2. \A payer : ClearEntries(n, payer)' = ClearEntries(n, payer)
  BY DEF ClearEntries
<1>3. Entered(n)'
  BY <1>1, <1>2 DEF Entered, PurchaseInv
<1>4. \A payer : ClearedAs(n, payer) => ClearedAs(n, payer)'
  BY <1>1, <1>2 DEF ClearedAs
<1>5. \A c \in Calls, steps \in SUBSET CardSteps :
          Handles(c, n, steps)' => Handles(c, n, steps) /\ call'[c] = call[c]
  BY IdleDoesNothing DEF Handles
<1>6. \A at : Relies(n, at) => Relies(n, at)'
  BY <1>1, <1>4 DEF Relies
<1>7. Handled(n)'
  BY <1>5, <1>6 DEF Handled, PurchaseInv
<1>8. RowTells(n)'
  BY <1>1, <1>4 DEF RowTells, PurchaseInv
<1>9. (NoClear(n) => NoClear(n)') /\ (NoReverse(n) => NoReverse(n)')
  BY <1>1, <1>5, StepsAre DEF NoClear, NoReverse
<1>10. OneWay(n)'
  BY <1>9 DEF OneWay, PurchaseInv
<1> QED BY <1>3, <1>7, <1>8, <1>10 DEF PurchaseInv

(* A step that is about one purchase has only that one to answer for.            *)
Grows(n) ==
    /\ \A k \in DOMAIN core : k \in DOMAIN core' /\ core'[k] = core[k]
    /\ \A k \in DOMAIN core' : k \in DOMAIN core \/ k \in {AuthKey(n), ClearKey(n), ReverseKey(n)}

LEMMA AboutOne ==
    ASSUME CardInv, CardsTypeOK', NEW n \in Purchases, PurchaseInv(n)', Grows(n),
           \A m \in Purchases \ {n} :
               /\ rows'[m] = rows[m] /\ network'[m] = network[m] /\ final'[m] = final[m]
               /\ m \in early => m \in early',
           \A c \in Calls : call'[c] = call[c] \/ call'[c] = Idle \/ call'[c].purchase = n
    PROVE  CardInv'
<1> SUFFICES ASSUME NEW m \in Purchases, m # n PROVE PurchaseInv(m)'
  BY DEF CardInv
<1>1. Spared(m)
  BY CardKeys DEF Spared, Grows
<1> QED BY <1>1, AsideStays DEF CardInv

(* What is relied upon, and what a row says, stays so while the ledger grows and *)
(* a charge that is fixed stays fixed.                                           *)
LEMMA StillRight ==
    ASSUME NEW n \in Purchases, Grows(n), final[n] \in Nat, final[n] > 0 => final'[n] = final[n]
    PROVE  /\ \A at : Relies(n, at) => Relies(n, at)'
           /\ rows'[n] = rows[n] /\ RowTells(n) => RowTells(n)'
           /\ \A payer : final[n] > 0 /\ ClearedAs(n, payer) => ClearedAs(n, payer)'
<1>1. \A payer : final[n] > 0 => ClearEntries(n, payer)' = ClearEntries(n, payer)
  BY DEF ClearEntries
<1>2. \A payer : final[n] > 0 /\ ClearedAs(n, payer) => ClearedAs(n, payer)'
  BY <1>1 DEF ClearedAs, Grows
<1>3. \A at : Relies(n, at) => Relies(n, at)'
  BY <1>2 DEF Relies, Grows, ClearSteps
<1>4. rows'[n] = rows[n] /\ RowTells(n) => RowTells(n)'
  BY <1>2 DEF RowTells, Grows
<1> QED BY <1>2, <1>3, <1>4

LEMMA OneCall ==
    ASSUME CardsTypeOK, NEW n \in Purchases, NEW c \in Calls,
           Return(c) \/ \E step \in CardSteps : Goto(c, n, step)
    PROVE  /\ call' \in [Calls -> {Idle} \cup [at : CardSteps, purchase : Purchases]]
           /\ \A d \in Calls : call'[d] = call[d] \/ call'[d] = Idle \/ call'[d].purchase = n
           /\ \A d \in Calls \ {c} : call'[d] = call[d]
           /\ Return(c) => call'[c] = Idle
           /\ \A step \in CardSteps : Goto(c, n, step) =>
                  call'[c].at = step /\ call'[c].purchase = n
BY DEF CardsTypeOK, Return, Goto

(* The others at work are as they were; the one that moved has to be right.      *)
LEMMA CallsGoOn ==
    ASSUME NEW n \in Purchases, Handled(n), \A at : Relies(n, at) => Relies(n, at)',
           NEW c \in Calls, \A d \in Calls \ {c} : call'[d] = call[d],
           call'[c] = Idle \/ Relies(n, call[c].at)'
    PROVE  /\ Handled(n)'
           /\ NoClear(n) /\ (call'[c] = Idle \/ call'[c].at \notin ClearSteps)
                 /\ ClearKey(n) \notin DOMAIN core' => NoClear(n)'
           /\ NoReverse(n) /\ (call'[c] = Idle \/ call'[c].at \notin ReverseSteps)
                 /\ ReverseKey(n) \notin DOMAIN core' => NoReverse(n)'
<1>1. \A steps \in SUBSET CardSteps : call'[c] = Idle => ~Handles(c, n, steps)'
  BY IdleDoesNothing DEF Handles
<1>2. \A d \in Calls \ {c}, steps \in SUBSET CardSteps : Handles(d, n, steps)' => Handles(d, n, steps)
  BY DEF Handles
<1>3. Handled(n)'
  BY <1>1, <1>2 DEF Handled
<1>4. /\ call'[c].at \notin ClearSteps => ~Handles(c, n, ClearSteps)'
      /\ call'[c].at \notin ReverseSteps => ~Handles(c, n, ReverseSteps)'
  BY DEF Handles
<1> QED BY <1>1, <1>2, <1>3, <1>4, StepsAre DEF NoClear, NoReverse

(* Who is at work on a purchase, and what follows for it.                        *)
LEMMA AtWork ==
    ASSUME CardInv, NEW c \in Calls, call[c].at \in CardSteps
    PROVE  /\ call[c].purchase \in Purchases /\ call[c] # Idle
           /\ Relies(call[c].purchase, call[c].at)
           /\ call[c].at \in ClearSteps => ~NoClear(call[c].purchase)
           /\ call[c].at \in ReverseSteps => ~NoReverse(call[c].purchase)
<1>1. call[c] # Idle
  BY IdleDoesNothing
<1>2. call[c].purchase \in Purchases
  BY <1>1 DEF CardInv, CardsTypeOK
<1> QED BY <1>1, <1>2, StepsAre DEF CardInv, PurchaseInv, Handled, Handles, NoClear, NoReverse

LEMMA NotHeld == NoRow \in Row /\ NoRow.held = FALSE /\ NoRow.status = "none"
BY DEF NoRow, Row

-------------------------------------------------------------------------------
LEMMA CardInit == InitCards => CardInv
<1> SUFFICES ASSUME InitCards PROVE CardInv
  OBVIOUS
<1>1. CardsTypeOK
  BY NotHeld DEF InitCards, CardsTypeOK
<1>2. ASSUME NEW n \in Purchases PROVE PurchaseInv(n)
  <2>1. DOMAIN core = {} /\ rows[n] = NoRow /\ network[n] = "unanswered" /\ final[n] = 0
    BY DEF InitCards
  <2>2. \A c \in Calls, steps \in SUBSET CardSteps : ~Handles(c, n, steps)
    BY IdleDoesNothing DEF InitCards, Handles
  <2>3. Entered(n)
    BY <2>1 DEF Entered
  <2>4. Handled(n)
    BY <2>2 DEF Handled
  <2>5. RowTells(n)
    BY <2>1, NotHeld DEF RowTells
  <2>6. NoClear(n) /\ NoReverse(n)
    BY <2>1, <2>2, StepsAre DEF NoClear, NoReverse
  <2> QED BY <2>1, <2>3, <2>4, <2>5, <2>6 DEF PurchaseInv, OneWay
<1> QED BY <1>1, <1>2 DEF CardInv

(* A step that posts nothing, and fixes no charge, leaves what is entered.       *)
LEMMA NothingPosted ==
    ASSUME NEW n \in Purchases, UNCHANGED <<core, final>>, Entered(n),
           network'[n] \in {"unanswered", "approved"} => network[n] \in {"unanswered", "approved"}
    PROVE  /\ Grows(n) /\ Entered(n)'
           /\ (ClearKey(n) \in DOMAIN core' <=> ClearKey(n) \in DOMAIN core)
           /\ (ReverseKey(n) \in DOMAIN core' <=> ReverseKey(n) \in DOMAIN core)
<1>1. \A payer : ClearEntries(n, payer)' = ClearEntries(n, payer)
  BY DEF ClearEntries
<1> QED BY <1>1 DEF Grows, Entered

(* A step that posts under a key of n.                                           *)
LEMMA OnePosted ==
    ASSUME NEW n \in Purchases, NEW key \in {AuthKey(n), ClearKey(n), ReverseKey(n)},
           NEW entries, NEW got, Post(key, entries, got), UNCHANGED <<network, final>>, Entered(n),
           key = AuthKey(n) => entries = Moves(AccountOf[n], AuthHold, Amount[n]),
           key = ClearKey(n) => /\ final[n] > 0
                                /\ entries \in {ClearEntries(n, AccountOf[n]), ClearEntries(n, Overage)},
           key = ReverseKey(n) => entries = Moves(AuthHold, AccountOf[n], Amount[n])
    PROVE  /\ Grows(n) /\ Entered(n)'
           /\ \A k \in DOMAIN core' : k \in DOMAIN core \/ k = key
           /\ Ok(got) => key \in DOMAIN core' /\ core'[key] = entries
<1>1. \A payer : ClearEntries(n, payer)' = ClearEntries(n, payer)
  BY DEF ClearEntries
<1>2. Ok(got) => key \in DOMAIN core' /\ core'[key] = entries
  BY PostOutcome
<1>3. CASE core' = core
  BY <1>1, <1>2, <1>3 DEF Grows, Entered
<1>4. CASE /\ key \notin DOMAIN core
           /\ core' = [k \in DOMAIN core \cup {key} |-> IF k = key THEN entries ELSE core[k]]
  <2>1. /\ \A k \in DOMAIN core : k \in DOMAIN core' /\ core'[k] = core[k]
        /\ \A k \in DOMAIN core' : k \in DOMAIN core \/ k = key
        /\ core'[key] = entries
    BY <1>4
  <2>2. Entered(n)'
    BY <1>1, <2>1, CardKeys DEF Entered
  <2> QED BY <1>2, <2>1, <2>2 DEF Grows
<1> QED BY <1>3, <1>4, PostOutcome

-------------------------------------------------------------------------------
LEMMA AuthorizeKeeps ==
    ASSUME CardInv, NEW c \in Calls, NEW n \in Purchases, Authorize(c, n) PROVE CardInv'
<1>1. PurchaseInv(n) /\ call[c] = Idle /\ UNCHANGED <<core, frozen, final>>
  BY DEF CardInv, Authorize
<1>2. CASE rows[n] = NoRow
  <2>1. /\ rows' = [rows EXCEPT ![n] = [NoRow EXCEPT !.status = "held"]]
        /\ Goto(c, n, "hold") /\ UNCHANGED <<network, early>>
    BY <1>2 DEF Authorize, reserve
  <2>2. rows'[n] \in Row /\ rows'[n].held = FALSE /\ rows'[n].status = "held"
    BY <2>1 DEF CardInv, CardsTypeOK, NoRow, Row
  <2>3. Grows(n) /\ Entered(n)' /\ (ClearKey(n) \in DOMAIN core' <=> ClearKey(n) \in DOMAIN core)
        /\ (ReverseKey(n) \in DOMAIN core' <=> ReverseKey(n) \in DOMAIN core)
    BY <1>1, <2>1, NothingPosted DEF PurchaseInv
  <2>4. "hold" \in CardSteps /\ "hold" \notin ClearSteps /\ "hold" \notin ReverseSteps
    BY DEF CardSteps, ClearSteps, ReverseSteps
  <2>5. /\ call' \in [Calls -> {Idle} \cup [at : CardSteps, purchase : Purchases]]
        /\ \A d \in Calls : call'[d] = call[d] \/ call'[d] = Idle \/ call'[d].purchase = n
        /\ \A d \in Calls \ {c} : call'[d] = call[d]
        /\ call'[c].at = "hold"
    BY <2>1, <2>4, OneCall DEF CardInv
  <2>6. CardsTypeOK'
    BY <1>1, <2>1, <2>2, <2>5 DEF CardInv, CardsTypeOK
  <2>7. \A at : Relies(n, at) => Relies(n, at)'
    BY <1>1, <2>3, StillRight DEF CardInv, CardsTypeOK
  <2>8. Relies(n, call[c].at)'
    BY <2>5, <2>4 DEF Relies
  <2>9. Handled(n)' /\ (NoClear(n) => NoClear(n)') /\ (NoReverse(n) => NoReverse(n)')
    BY <1>1, <2>3, <2>4, <2>5, <2>7, <2>8, CallsGoOn DEF PurchaseInv, NoClear, NoReverse
  <2>10. RowTells(n)'
    BY <2>2 DEF RowTells
  <2>11. OneWay(n)'
    BY <1>1, <1>2, <2>1, <2>9, NotHeld DEF PurchaseInv, OneWay
  <2> QED BY <1>1, <2>1, <2>3, <2>5, <2>6, <2>9, <2>10, <2>11, AboutOne DEF PurchaseInv, CardInv, CardsTypeOK
<1>3. CASE rows[n] # NoRow
  <2>1. UNCHANGED <<rows, call>> /\ Tell(n, rows[n].status \in {"held", "cleared"})
    BY <1>3 DEF Authorize
  <2>2. /\ network' \in [Purchases -> {"unanswered", "approved", "clearing", "reversing", "settled"}]
        /\ \A m \in Purchases \ {n} : network'[m] = network[m] /\ (m \in early => m \in early')
        /\ network'[n] = network[n] \/ (network[n] = "unanswered" /\ network'[n] = "approved")
        /\ n \in early => n \in early'
        /\ network'[n] # network[n] /\ n \notin early' => rows[n].held
    BY <2>1 DEF CardInv, CardsTypeOK, Tell
  <2>3. Grows(n) /\ Entered(n)'
    BY <1>1, <2>2, NothingPosted DEF PurchaseInv
  <2>4. CardsTypeOK'
    BY <1>1, <2>1, <2>2 DEF CardInv, CardsTypeOK
  <2>5. (\A at : Relies(n, at) => Relies(n, at)') /\ RowTells(n)'
    BY <1>1, <2>1, <2>3, StillRight DEF PurchaseInv, CardInv, CardsTypeOK
  <2>6. Handled(n)' /\ (NoClear(n) <=> NoClear(n)') /\ (NoReverse(n) <=> NoReverse(n)')
    BY <1>1, <2>1, <2>5 DEF PurchaseInv, Handled, Handles, NoClear, NoReverse
  <2>7. OneWay(n)'
    BY <1>1, <2>1, <2>2, <2>6 DEF PurchaseInv, OneWay
  <2> QED BY <1>1, <2>1, <2>2, <2>3, <2>4, <2>5, <2>6, <2>7, AboutOne DEF PurchaseInv
<1> QED BY <1>2, <1>3

(* A step of call c, about purchase n, that does not fix its charge: what is     *)
(* left to show is what it enters, what its next stand relies on, what the row   *)
(* says then, and that the purchase still goes one way.                          *)
Stands == {Idle} \cup [at : CardSteps, purchase : Purchases]

Moved(c, n) ==
    /\ Grows(n) /\ final' = final
    /\ Return(c) \/ \E step \in CardSteps : Goto(c, n, step)
    /\ rows' \in [Purchases -> Row]
    /\ network' \in [Purchases -> {"unanswered", "approved", "clearing", "reversing", "settled"}]
    /\ \A m \in Purchases \ {n} : /\ rows'[m] = rows[m] /\ network'[m] = network[m]
                                  /\ m \in early => m \in early'

LEMMA MovedOn ==
    ASSUME CardInv, NEW c \in Calls, NEW n \in Purchases, Moved(c, n)
    PROVE  /\ CardsTypeOK'
           /\ \A d \in Calls : call'[d] = call[d] \/ call'[d] = Idle \/ call'[d].purchase = n
           /\ \A d \in Calls \ {c} : call'[d] = call[d]
           /\ \A at : Relies(n, at) => Relies(n, at)'
           /\ rows'[n] = rows[n] => RowTells(n)'
           /\ \A payer : final[n] > 0 /\ ClearedAs(n, payer) => ClearedAs(n, payer)'
           /\ Return(c) => call'[c] = Idle
           /\ \A step \in CardSteps : Goto(c, n, step) => call'[c].at = step /\ call'[c].purchase = n
<1>1. CardsTypeOK /\ PurchaseInv(n) /\ final[n] \in Nat
  BY DEF CardInv, CardsTypeOK
<1>2. /\ call' \in [Calls -> {Idle} \cup [at : CardSteps, purchase : Purchases]]
      /\ \A d \in Calls : call'[d] = call[d] \/ call'[d] = Idle \/ call'[d].purchase = n
      /\ \A d \in Calls \ {c} : call'[d] = call[d]
      /\ Return(c) => call'[c] = Idle
      /\ \A step \in CardSteps : Goto(c, n, step) => call'[c].at = step /\ call'[c].purchase = n
  BY <1>1, OneCall DEF Moved
<1>3. CardsTypeOK'
  BY <1>1, <1>2 DEF CardsTypeOK, Moved
<1>4. /\ \A at : Relies(n, at) => Relies(n, at)'
      /\ rows'[n] = rows[n] => RowTells(n)'
      /\ \A payer : final[n] > 0 /\ ClearedAs(n, payer) => ClearedAs(n, payer)'
  BY <1>1, StillRight DEF Moved, PurchaseInv
<1> QED BY <1>2, <1>3, <1>4

StaysAside(c, n) ==
    /\ /\ NoClear(n) /\ ClearKey(n) \notin DOMAIN core'
       /\ call'[c] = Idle \/ call'[c].at \notin ClearSteps
       => NoClear(n)'
    /\ /\ NoReverse(n) /\ ReverseKey(n) \notin DOMAIN core'
       /\ call'[c] = Idle \/ call'[c].at \notin ReverseSteps
       => NoReverse(n)'

LEMMA MovedKeeps ==
    ASSUME CardInv, NEW c \in Calls, NEW n \in Purchases, Moved(c, n), Entered(n)',
           call'[c] = Idle \/ Relies(n, call[c].at)', RowTells(n)',
           StaysAside(c, n) => OneWay(n)'
    PROVE  CardInv'
<1>1. Handled(n)
  BY DEF CardInv, PurchaseInv
<1>2. /\ \A d \in Calls : call'[d] = call[d] \/ call'[d] = Idle \/ call'[d].purchase = n
      /\ \A d \in Calls \ {c} : call'[d] = call[d]
      /\ \A at : Relies(n, at) => Relies(n, at)'
      /\ CardsTypeOK'
  BY MovedOn
<1>3. Handled(n)' /\ OneWay(n)'
  BY <1>1, <1>2, CallsGoOn DEF StaysAside
<1>4. PurchaseInv(n)'
  BY <1>3 DEF PurchaseInv
<1> QED BY <1>2, <1>4, AboutOne DEF Moved

-------------------------------------------------------------------------------
LEMMA PostHoldKeeps == ASSUME CardInv, NEW c \in Calls, PostHold(c) PROVE CardInv'
<1>0. PICK n : n = call[c].purchase
  OBVIOUS
<1>1. call[c].at = "hold" /\ UNCHANGED <<rows, frozen, network, final, early>>
  BY <1>0 DEF PostHold
<1>2. PICK got \in Answers :
         /\ Post(AuthKey(n), Moves(AccountOf[n], AuthHold, Amount[n]), got)
         /\ Goto(c, n, IF Ok(got) THEN "mark held" ELSE "drop")
  BY <1>0 DEF PostHold
<1>3. n \in Purchases /\ PurchaseInv(n)
  BY <1>0, <1>1, AtWork DEF CardSteps, CardInv
<1>4. /\ Grows(n) /\ Entered(n)'
      /\ \A k \in DOMAIN core' : k \in DOMAIN core \/ k = AuthKey(n)
      /\ Ok(got) => AuthKey(n) \in DOMAIN core'
  <2>1. Post(AuthKey(n), Moves(AccountOf[n], AuthHold, Amount[n]), got) /\ Entered(n)
    BY <1>0, <1>1, <1>2, <1>3 DEF PurchaseInv
  <2>2. AuthKey(n) # ClearKey(n) /\ AuthKey(n) # ReverseKey(n)
    BY <1>0, <1>3, CardKeys
  <2> QED BY <1>1, <1>3, <2>1, <2>2, OnePosted
<1>5. PICK step \in {"mark held", "drop"} : Goto(c, n, step) /\ (step = "mark held" => Ok(got))
  BY <1>0, <1>2
<1>6. step \in CardSteps \ (ClearSteps \cup ReverseSteps)
  BY DEF CardSteps, ClearSteps, ReverseSteps
<1>7. Moved(c, n)
  BY <1>1, <1>4, <1>5, <1>6 DEF Moved, CardInv, CardsTypeOK
<1>8. RowTells(n)' /\ call'[c].at = step
  BY <1>1, <1>3, <1>5, <1>6, <1>7, MovedOn
<1>9. Relies(n, call[c].at)'
  BY <1>4, <1>5, <1>6, <1>8 DEF Relies
<1>10. ClearKey(n) \in DOMAIN core' => ClearKey(n) \in DOMAIN core
  BY <1>3, <1>4, CardKeys
<1>11. ReverseKey(n) \in DOMAIN core' => ReverseKey(n) \in DOMAIN core
  BY <1>3, <1>4, CardKeys
<1>12. StaysAside(c, n) => OneWay(n)'
  BY <1>1, <1>3, <1>6, <1>8, <1>10, <1>11 DEF PurchaseInv, OneWay, NoClear, NoReverse, StaysAside
<1> QED BY <1>0, <1>3, <1>4, <1>7, <1>8, <1>9, <1>12, MovedKeeps

LEMMA MarkHeldKeeps == ASSUME CardInv, NEW c \in Calls, MarkHeld(c) PROVE CardInv'
<1>0. PICK n : n = call[c].purchase
  OBVIOUS
<1>1. /\ call[c].at = "mark held" /\ UNCHANGED <<core, frozen, final>>
      /\ rows' = markHeld(n) /\ Tell(n, TRUE) /\ Return(c)
  BY <1>0 DEF MarkHeld
<1>2. n \in Purchases /\ PurchaseInv(n) /\ AuthKey(n) \in DOMAIN core
  BY <1>0, <1>1, AtWork DEF CardSteps, CardInv, Relies
<1>3. /\ rows' \in [Purchases -> Row] /\ \A m \in Purchases \ {n} : rows'[m] = rows[m]
      /\ rows[n] = NoRow => rows'[n] = NoRow
      /\ rows[n] # NoRow => /\ rows'[n].held = TRUE
                            /\ rows'[n].status = rows[n].status /\ rows'[n].final = rows[n].final
                            /\ rows'[n].overage = rows[n].overage
  BY <1>0, <1>1, <1>2, ZenonT(60) DEF CardInv, CardsTypeOK, markHeld, Update, Row
<1>4. /\ network' \in [Purchases -> {"unanswered", "approved", "clearing", "reversing", "settled"}]
      /\ \A m \in Purchases \ {n} : network'[m] = network[m] /\ (m \in early => m \in early')
      /\ network'[n] = network[n] \/ (network[n] = "unanswered" /\ network'[n] = "approved")
      /\ n \notin early' => n \notin early /\ rows'[n].held
  BY <1>0, <1>1, <1>2 DEF CardInv, CardsTypeOK, Tell
<1>5. Grows(n) /\ Entered(n)' /\ (ClearKey(n) \in DOMAIN core' <=> ClearKey(n) \in DOMAIN core)
      /\ (ReverseKey(n) \in DOMAIN core' <=> ReverseKey(n) \in DOMAIN core)
  BY <1>0, <1>1, <1>2, <1>4, NothingPosted DEF PurchaseInv
<1>6. Moved(c, n)
  BY <1>1, <1>3, <1>4, <1>5 DEF Moved
<1>7. call'[c] = Idle
  BY <1>1, <1>2, <1>6, MovedOn
<1>8. \A payer : ClearEntries(n, payer)' = ClearEntries(n, payer)
  BY <1>1 DEF ClearEntries
<1>9. RowTells(n)'
  BY <1>1, <1>2, <1>3, <1>8, NotHeld DEF PurchaseInv, RowTells, ClearedAs
<1>10. StaysAside(c, n) => OneWay(n)'
  BY <1>1, <1>2, <1>3, <1>4, <1>7, NotHeld DEF PurchaseInv, OneWay, NoClear, NoReverse, StaysAside
<1> QED BY <1>0, <1>2, <1>5, <1>6, <1>7, <1>9, <1>10, MovedKeeps

LEMMA DropKeeps == ASSUME CardInv, NEW c \in Calls, Drop(c) PROVE CardInv'
<1>0. PICK n : n = call[c].purchase
  OBVIOUS
<1>1. /\ call[c].at = "drop" /\ UNCHANGED <<core, frozen, network, final, early>>
      /\ rows' = drop(n) /\ Return(c)
  BY <1>0 DEF Drop
<1>2. n \in Purchases /\ PurchaseInv(n)
  BY <1>0, <1>1, AtWork DEF CardSteps, CardInv
<1>3. /\ rows' \in [Purchases -> Row] /\ \A m \in Purchases \ {n} : rows'[m] = rows[m]
      /\ rows'[n] = rows[n] \/ (~rows[n].held /\ rows'[n] = NoRow)
  BY <1>0, <1>1, <1>2, NotHeld DEF CardInv, CardsTypeOK, drop
<1>4. Grows(n) /\ Entered(n)' /\ (ClearKey(n) \in DOMAIN core' <=> ClearKey(n) \in DOMAIN core)
      /\ (ReverseKey(n) \in DOMAIN core' <=> ReverseKey(n) \in DOMAIN core)
  BY <1>0, <1>1, <1>2, NothingPosted DEF PurchaseInv
<1>5. Moved(c, n)
  BY <1>0, <1>1, <1>3, <1>4 DEF Moved, CardInv, CardsTypeOK
<1>6. call'[c] = Idle /\ (rows'[n] = rows[n] => RowTells(n)')
  BY <1>1, <1>2, <1>5, MovedOn
<1>7. RowTells(n)'
  BY <1>3, <1>6, NotHeld DEF RowTells
<1>8. StaysAside(c, n) => OneWay(n)'
  BY <1>1, <1>2, <1>3, <1>6 DEF PurchaseInv, OneWay, NoClear, NoReverse, StaysAside
<1> QED BY <1>0, <1>2, <1>4, <1>5, <1>6, <1>7, <1>8, MovedKeeps

-------------------------------------------------------------------------------
LEMMA ClearKeeps == ASSUME CardInv, NEW c \in Calls, NEW n \in Purchases, Clear(c, n) PROVE CardInv'
<1>1. /\ PurchaseInv(n) /\ call[c] = Idle /\ UNCHANGED <<core, rows, frozen, final, early>>
      /\ network[n] \in {"clearing", "settled"} /\ final[n] > 0
  BY DEF CardInv, Clear
<1>2. CASE rows[n].status = "held" /\ Goto(c, n, "clear") /\ UNCHANGED network
  <2>1. "clear" \in CardSteps /\ "clear" \notin ReverseSteps
    BY DEF CardSteps, ClearSteps, ReverseSteps
  <2>2. Grows(n) /\ Entered(n)' /\ (ReverseKey(n) \in DOMAIN core' <=> ReverseKey(n) \in DOMAIN core)
    BY <1>1, <1>2, NothingPosted DEF PurchaseInv
  <2>3. Moved(c, n)
    BY <1>1, <1>2, <2>1, <2>2 DEF Moved, CardInv, CardsTypeOK
  <2>4. RowTells(n)' /\ call'[c].at = "clear"
    BY <1>1, <1>2, <2>1, <2>3, MovedOn
  <2>5. Relies(n, call[c].at)'
    BY <1>1, <2>4 DEF Relies
  <2>6. StaysAside(c, n) => OneWay(n)'
    BY <1>1, <1>2, <2>1, <2>4 DEF PurchaseInv, OneWay, NoReverse, StaysAside
  <2> QED BY <2>2, <2>3, <2>4, <2>5, <2>6, MovedKeeps
<1>3. CASE /\ rows[n].status = "cleared" /\ UNCHANGED call
           /\ network' = [network EXCEPT ![n] = "settled"]
  <2>1. Grows(n) /\ Entered(n)'
    BY <1>1, <1>3, NothingPosted DEF PurchaseInv, CardInv, CardsTypeOK
  <2>2. CardsTypeOK'
    BY <1>1, <1>3 DEF CardInv, CardsTypeOK
  <2>3. (\A at : Relies(n, at) => Relies(n, at)') /\ RowTells(n)'
    BY <1>1, <2>1, StillRight DEF PurchaseInv, CardInv, CardsTypeOK
  <2>4. Handled(n)' /\ (NoReverse(n) <=> NoReverse(n)')
    BY <1>1, <1>3, <2>3 DEF PurchaseInv, Handled, Handles, NoReverse
  <2>5. OneWay(n)'
    BY <1>1, <1>3, <2>4 DEF PurchaseInv, OneWay, CardInv, CardsTypeOK
  <2> QED BY <1>1, <1>3, <2>1, <2>2, <2>3, <2>4, <2>5, AboutOne DEF PurchaseInv, CardInv, CardsTypeOK
<1> QED BY <1>2, <1>3 DEF Clear

(* A call that clears or reverses a purchase approved in time goes its way.      *)
LEMMA OnTheWay ==
    ASSUME CardInv, NEW c \in Calls, call[c].at \in ClearSteps \cup ReverseSteps,
           call[c].purchase \notin early
    PROVE  LET n == call[c].purchase IN
           /\ rows[n].held
           /\ call[c].at \in ClearSteps =>
                /\ NoReverse(n)
                /\ network[n] = "clearing" \/ (network[n] = "settled" /\ rows[n].status = "cleared")
           /\ call[c].at \in ReverseSteps =>
                /\ NoClear(n)
                /\ network[n] = "reversing" \/ (network[n] = "settled" /\ rows[n].status = "reversed")
<1>0. PICK n : n = call[c].purchase
  OBVIOUS
<1>1. /\ n \in Purchases /\ OneWay(n)
      /\ call[c].at \in ClearSteps => ~NoClear(n)
      /\ call[c].at \in ReverseSteps => ~NoReverse(n)
  BY <1>0, AtWork, StepsAre DEF CardInv, PurchaseInv
<1>2. network[n] \in {"unanswered", "approved", "clearing", "reversing", "settled"}
  BY <1>0, <1>1 DEF CardInv, CardsTypeOK
<1>3. /\ call[c].at \in ClearSteps =>
            NoReverse(n) /\ (network[n] = "clearing" \/ (network[n] = "settled" /\ rows[n].status = "cleared"))
      /\ call[c].at \in ReverseSteps =>
            NoClear(n) /\ (network[n] = "reversing" \/ (network[n] = "settled" /\ rows[n].status = "reversed"))
      /\ rows[n].held
  <2>1. n \notin early
    BY <1>0
  <2> QED BY <1>1, <1>2, <2>1 DEF OneWay
<1> QED BY <1>0, <1>3

(* The posting of a clearing, by either payer, and where it leads.               *)
LEMMA ClearingKeeps ==
    ASSUME CardInv, NEW c \in Calls, call[c].at \in {"clear", "absorb"},
           UNCHANGED <<rows, frozen, network, final, early>>,
           NEW payer \in {AccountOf[call[c].purchase], Overage}, NEW got,
           Post(ClearKey(call[c].purchase), ClearEntries(call[c].purchase, payer), got),
           NEW step \in ClearSteps,
           Return(c) \/ Goto(c, call[c].purchase, step),
           step \in {"absorb", "mark absorbed"} => final[call[c].purchase] > Amount[call[c].purchase],
           step = "mark cleared" => Ok(got) /\ payer = AccountOf[call[c].purchase],
           step = "mark absorbed" => Ok(got) /\ payer = Overage
    PROVE  CardInv'
<1>0. PICK n : n = call[c].purchase
  OBVIOUS
<1>1. n \in Purchases /\ PurchaseInv(n) /\ call[c].at \in ClearSteps /\ final[n] > 0
  BY <1>0, AtWork DEF CardSteps, CardInv, ClearSteps, Relies
<1>2. n \notin early => /\ rows[n].held /\ NoReverse(n)
                        /\ network[n] = "clearing" \/ (network[n] = "settled" /\ rows[n].status = "cleared")
  BY <1>0, <1>1, OnTheWay
<1>3. /\ Grows(n) /\ Entered(n)'
      /\ \A k \in DOMAIN core' : k \in DOMAIN core \/ k = ClearKey(n)
      /\ Ok(got) => ClearKey(n) \in DOMAIN core' /\ core'[ClearKey(n)] = ClearEntries(n, payer)
  <2>1. /\ Post(ClearKey(n), ClearEntries(n, payer), got)
        /\ ClearEntries(n, payer) \in {ClearEntries(n, AccountOf[n]), ClearEntries(n, Overage)}
    BY <1>0
  <2> QED BY <1>1, <2>1, OnePosted, CardKeys DEF PurchaseInv
<1>4. step \in CardSteps \ ReverseSteps
  BY <1>0 DEF CardSteps, ClearSteps, ReverseSteps
<1>5. Moved(c, n)
  <2>1. Return(c) \/ Goto(c, n, step)
    BY <1>0
  <2> QED BY <1>3, <1>4, <2>1 DEF Moved, CardInv, CardsTypeOK
<1>6. /\ RowTells(n)'
      /\ call'[c] = Idle \/ call'[c].at = step
  <2>1. Return(c) \/ Goto(c, n, step)
    BY <1>0
  <2> QED BY <1>1, <1>4, <1>5, <2>1, MovedOn
<1>7. call'[c] = Idle \/ Relies(n, call[c].at)'
  <2>1. ClearEntries(n, payer)' = ClearEntries(n, payer)
    BY DEF ClearEntries
  <2>2. /\ step \in {"absorb", "mark absorbed"} => final[n] > Amount[n]
        /\ step = "mark cleared" => Ok(got) /\ payer = AccountOf[n]
        /\ step = "mark absorbed" => Ok(got) /\ payer = Overage
    BY <1>0
  <2>3. Relies(n, step)'
    BY <1>1, <1>3, <2>1, <2>2 DEF Relies, ClearedAs, ClearSteps
  <2> QED BY <1>6, <2>3
<1>8. ReverseKey(n) \in DOMAIN core' => ReverseKey(n) \in DOMAIN core
  BY <1>1, <1>3, CardKeys
<1>9. StaysAside(c, n) => OneWay(n)'
  BY <1>2, <1>4, <1>6, <1>8 DEF OneWay, NoReverse, StaysAside
<1> QED BY <1>0, <1>1, <1>3, <1>5, <1>6, <1>7, <1>9, MovedKeeps

LEMMA PostClearKeeps == ASSUME CardInv, NEW c \in Calls, PostClear(c) PROVE CardInv'
<1>0. PICK n : n = call[c].purchase
  OBVIOUS
<1>1. call[c].at = "clear" /\ UNCHANGED <<rows, frozen, network, final, early>>
  BY <1>0 DEF PostClear
<1>2. PICK got \in Answers :
         /\ Post(ClearKey(n), ClearEntries(n, AccountOf[n]), got)
         /\ IF Ok(got) THEN Goto(c, n, "mark cleared")
            ELSE IF got = "insufficient" /\ final[n] > Amount[n] THEN Goto(c, n, "absorb")
            ELSE Return(c)
  BY <1>0 DEF PostClear
<1>3. PICK step \in {"clear", "mark cleared", "absorb"} :
         /\ Return(c) \/ Goto(c, n, step)
         /\ step = "absorb" => final[n] > Amount[n]
         /\ step = "mark cleared" => Ok(got)
  BY <1>0, <1>2
<1>4. step \in ClearSteps
  BY <1>0 DEF ClearSteps
<1> QED BY <1>0, <1>1, <1>2, <1>3, <1>4, ClearingKeeps

LEMMA PostAbsorbedKeeps == ASSUME CardInv, NEW c \in Calls, PostAbsorbed(c) PROVE CardInv'
<1>0. PICK n : n = call[c].purchase
  OBVIOUS
<1>1. call[c].at = "absorb" /\ UNCHANGED <<rows, frozen, network, final, early>>
  BY <1>0 DEF PostAbsorbed
<1>2. PICK got \in Answers :
         /\ Post(ClearKey(n), ClearEntries(n, Overage), got)
         /\ IF Ok(got) THEN Goto(c, n, "mark absorbed") ELSE Return(c)
  BY <1>0 DEF PostAbsorbed
<1>3. PICK step \in {"clear", "mark absorbed"} :
         (Return(c) \/ Goto(c, n, step)) /\ (step = "mark absorbed" => Ok(got))
  BY <1>0, <1>2
<1>4. step \in ClearSteps
  BY <1>0 DEF ClearSteps
<1>5. final[n] > Amount[n]
  BY <1>0, <1>1, AtWork DEF CardSteps, ClearSteps, Relies
<1> QED BY <1>0, <1>1, <1>2, <1>3, <1>4, <1>5, ClearingKeeps

LEMMA MarkClearedKeeps == ASSUME CardInv, NEW c \in Calls, MarkCleared(c) PROVE CardInv'
<1>0. PICK n, over : /\ n = call[c].purchase
                     /\ over = IF call[c].at = "mark absorbed" THEN final[n] - Amount[n] ELSE 0
  OBVIOUS
<1>1. /\ call[c].at \in {"mark cleared", "mark absorbed"} /\ UNCHANGED <<core, frozen, final, early>>
      /\ rows' = markCleared(n, final[n], over) /\ network' = [network EXCEPT ![n] = "settled"]
      /\ Return(c)
  BY <1>0 DEF MarkCleared
<1>2. /\ n \in Purchases /\ PurchaseInv(n) /\ call[c].at \in ClearSteps
      /\ final[n] > 0 /\ final[n] \in Nat /\ Amount[n] \in Nat
      /\ \/ over = 0 /\ ClearedAs(n, AccountOf[n])
         \/ final[n] > Amount[n] /\ over = final[n] - Amount[n] /\ ClearedAs(n, Overage)
  BY <1>0, <1>1, AtWork, CardsAssumption DEF CardSteps, CardInv, CardsTypeOK, ClearSteps, Relies
<1>3. n \notin early => rows[n].held /\ NoReverse(n)
  BY <1>0, <1>2, OnTheWay
<1>4. over \in Nat
  <2>1. final[n] \in Nat /\ Amount[n] \in Nat
    BY <1>2
  <2>2. over = 0 \/ (final[n] > Amount[n] /\ over = final[n] - Amount[n])
    BY <1>2
  <2> QED BY ONLY <2>1, <2>2
<1>5. /\ rows' \in [Purchases -> Row] /\ \A m \in Purchases \ {n} : rows'[m] = rows[m]
      /\ rows'[n].held = rows[n].held
      /\ \/ rows'[n] = NoRow
         \/ rows'[n].status = "cleared" /\ rows'[n].final = final[n] /\ rows'[n].overage = over
      /\ rows[n].held => rows'[n].status = "cleared"
  BY <1>0, <1>1, <1>2, <1>4, NotHeld, ZenonT(60) DEF CardInv, CardsTypeOK, markCleared, Update, Row
<1>6. Grows(n) /\ Entered(n)' /\ (ReverseKey(n) \in DOMAIN core' <=> ReverseKey(n) \in DOMAIN core)
  BY <1>1, <1>2, NothingPosted DEF PurchaseInv, CardInv, CardsTypeOK
<1>7. Moved(c, n)
  BY <1>1, <1>5, <1>6 DEF Moved, CardInv, CardsTypeOK
<1>8. call'[c] = Idle
  BY <1>1, <1>2, <1>7, MovedOn
<1>9. \A payer : ClearedAs(n, payer) => ClearedAs(n, payer)'
  BY <1>2, <1>7, MovedOn
<1>10. RowTells(n)'
  BY <1>1, <1>2, <1>5, <1>9, NotHeld DEF PurchaseInv, RowTells
<1>11. network'[n] = "settled"
  BY <1>1, <1>2 DEF CardInv, CardsTypeOK
<1>12. StaysAside(c, n) => OneWay(n)'
  BY <1>1, <1>3, <1>5, <1>8, <1>11 DEF OneWay, NoReverse, StaysAside
<1> QED BY <1>0, <1>2, <1>6, <1>7, <1>8, <1>10, <1>12, MovedKeeps

-------------------------------------------------------------------------------
LEMMA ReverseKeeps == ASSUME CardInv, NEW c \in Calls, NEW n \in Purchases, Reverse(c, n) PROVE CardInv'
<1>1. /\ PurchaseInv(n) /\ call[c] = Idle /\ UNCHANGED <<core, rows, frozen, final, early>>
      /\ network[n] \in {"reversing", "settled"}
  BY DEF CardInv, Reverse
<1>2. CASE rows[n].status = "held" /\ Goto(c, n, "reverse") /\ UNCHANGED network
  <2>1. "reverse" \in CardSteps /\ "reverse" \notin ClearSteps
    BY DEF CardSteps, ClearSteps, ReverseSteps
  <2>2. Grows(n) /\ Entered(n)' /\ (ClearKey(n) \in DOMAIN core' <=> ClearKey(n) \in DOMAIN core)
    BY <1>1, <1>2, NothingPosted DEF PurchaseInv
  <2>3. Moved(c, n)
    BY <1>1, <1>2, <2>1, <2>2 DEF Moved, CardInv, CardsTypeOK
  <2>4. RowTells(n)' /\ call'[c].at = "reverse"
    BY <1>1, <1>2, <2>1, <2>3, MovedOn
  <2>5. Relies(n, call[c].at)'
    BY <2>1, <2>4 DEF Relies
  <2>6. StaysAside(c, n) => OneWay(n)'
    BY <1>1, <1>2, <2>1, <2>4 DEF PurchaseInv, OneWay, NoClear, StaysAside
  <2> QED BY <2>2, <2>3, <2>4, <2>5, <2>6, MovedKeeps
<1>3. CASE /\ rows[n].status = "reversed" /\ UNCHANGED call
           /\ network' = [network EXCEPT ![n] = "settled"]
  <2>1. Grows(n) /\ Entered(n)'
    BY <1>1, <1>3, NothingPosted DEF PurchaseInv, CardInv, CardsTypeOK
  <2>2. CardsTypeOK'
    BY <1>1, <1>3 DEF CardInv, CardsTypeOK
  <2>3. (\A at : Relies(n, at) => Relies(n, at)') /\ RowTells(n)'
    BY <1>1, <2>1, StillRight DEF PurchaseInv, CardInv, CardsTypeOK
  <2>4. Handled(n)' /\ (NoClear(n) <=> NoClear(n)')
    BY <1>1, <1>3, <2>3 DEF PurchaseInv, Handled, Handles, NoClear
  <2>5. OneWay(n)'
    BY <1>1, <1>3, <2>4 DEF PurchaseInv, OneWay, CardInv, CardsTypeOK
  <2> QED BY <1>1, <1>3, <2>1, <2>2, <2>3, <2>4, <2>5, AboutOne DEF PurchaseInv, CardInv, CardsTypeOK
<1> QED BY <1>2, <1>3 DEF Reverse

LEMMA PostReverseKeeps == ASSUME CardInv, NEW c \in Calls, PostReverse(c) PROVE CardInv'
<1>0. PICK n : n = call[c].purchase
  OBVIOUS
<1>1. call[c].at = "reverse" /\ UNCHANGED <<rows, frozen, network, final, early>>
  BY <1>0 DEF PostReverse
<1>2. PICK got \in Answers :
         /\ Post(ReverseKey(n), Moves(AuthHold, AccountOf[n], Amount[n]), got)
         /\ IF Ok(got) THEN Goto(c, n, "mark reversed") ELSE Return(c)
  BY <1>0 DEF PostReverse
<1>3. n \in Purchases /\ PurchaseInv(n) /\ call[c].at \in ReverseSteps
  BY <1>0, <1>1, AtWork, StepsAre DEF CardInv, ReverseSteps
<1>4. n \notin early => /\ rows[n].held /\ NoClear(n)
                        /\ network[n] = "reversing" \/ (network[n] = "settled" /\ rows[n].status = "reversed")
  BY <1>0, <1>3, OnTheWay
<1>5. /\ Grows(n) /\ Entered(n)'
      /\ \A k \in DOMAIN core' : k \in DOMAIN core \/ k = ReverseKey(n)
      /\ Ok(got) => ReverseKey(n) \in DOMAIN core'
  <2>1. Post(ReverseKey(n), Moves(AuthHold, AccountOf[n], Amount[n]), got) /\ Entered(n)
    BY <1>0, <1>1, <1>2, <1>3 DEF PurchaseInv
  <2>2. ReverseKey(n) # ClearKey(n) /\ ReverseKey(n) # AuthKey(n)
    BY <1>0, <1>3, CardKeys
  <2> QED BY <1>1, <1>3, <2>1, <2>2, OnePosted
<1>6. "mark reversed" \in CardSteps /\ "mark reversed" \notin ClearSteps
  BY DEF CardSteps, ClearSteps, ReverseSteps
<1>7. Moved(c, n)
  BY <1>1, <1>2, <1>5, <1>6 DEF Moved, CardInv, CardsTypeOK
<1>8. /\ RowTells(n)'
      /\ call'[c] = Idle \/ (call'[c].at = "mark reversed" /\ Ok(got))
  BY <1>1, <1>2, <1>3, <1>6, <1>7, MovedOn
<1>9. call'[c] = Idle \/ Relies(n, call[c].at)'
  BY <1>5, <1>6, <1>8 DEF Relies
<1>10. ClearKey(n) \in DOMAIN core' => ClearKey(n) \in DOMAIN core
  BY <1>3, <1>5, CardKeys
<1>11. StaysAside(c, n) => OneWay(n)'
  BY <1>1, <1>4, <1>6, <1>8, <1>10 DEF OneWay, NoClear, StaysAside
<1> QED BY <1>0, <1>3, <1>5, <1>7, <1>8, <1>9, <1>11, MovedKeeps

LEMMA MarkReversedKeeps == ASSUME CardInv, NEW c \in Calls, MarkReversed(c) PROVE CardInv'
<1>0. PICK n : n = call[c].purchase
  OBVIOUS
<1>1. /\ call[c].at = "mark reversed" /\ UNCHANGED <<core, frozen, final, early>>
      /\ rows' = markReversed(n) /\ network' = [network EXCEPT ![n] = "settled"]
      /\ Return(c)
  BY <1>0 DEF MarkReversed
<1>2. /\ n \in Purchases /\ PurchaseInv(n) /\ call[c].at \in ReverseSteps
      /\ ReverseKey(n) \in DOMAIN core
  BY <1>0, <1>1, AtWork, StepsAre DEF CardInv, ReverseSteps, Relies
<1>3. n \notin early => rows[n].held /\ NoClear(n)
  BY <1>0, <1>2, OnTheWay
<1>4. /\ rows' \in [Purchases -> Row] /\ \A m \in Purchases \ {n} : rows'[m] = rows[m]
      /\ rows'[n].held = rows[n].held
      /\ rows'[n] = NoRow \/ rows'[n].status = "reversed"
      /\ rows[n].held => rows'[n].status = "reversed"
  BY <1>0, <1>1, <1>2, NotHeld DEF CardInv, CardsTypeOK, markReversed, Update, Row
<1>5. Grows(n) /\ Entered(n)' /\ (ClearKey(n) \in DOMAIN core' <=> ClearKey(n) \in DOMAIN core)
  BY <1>0, <1>1, <1>2, NothingPosted DEF PurchaseInv, CardInv, CardsTypeOK
<1>6. Moved(c, n)
  BY <1>1, <1>4, <1>5 DEF Moved, CardInv, CardsTypeOK
<1>7. call'[c] = Idle
  BY <1>1, <1>2, <1>6, MovedOn
<1>8. RowTells(n)'
  BY <1>1, <1>2, <1>4, NotHeld DEF PurchaseInv, RowTells
<1>9. network'[n] = "settled"
  BY <1>1, <1>2 DEF CardInv, CardsTypeOK
<1>10. StaysAside(c, n) => OneWay(n)'
  BY <1>1, <1>3, <1>4, <1>7, <1>9 DEF OneWay, NoClear, StaysAside
<1> QED BY <1>0, <1>2, <1>5, <1>6, <1>7, <1>8, <1>10, MovedKeeps

-------------------------------------------------------------------------------
(* The network fixes a charge only while nothing was charged, and no call is at  *)
(* it.                                                                           *)
LEMMA NetworkKeeps ==
    ASSUME CardInv, NEW n \in Purchases, Decide(n) \/ LateCharge(n) PROVE CardInv'
<1>1. PurchaseInv(n) /\ CardsTypeOK /\ UNCHANGED <<core, rows, frozen, call, early>>
  BY DEF CardInv, Decide, LateCharge
<1>2. /\ final' \in [Purchases -> Nat] /\ final[n] = 0
      /\ network' \in [Purchases -> {"unanswered", "approved", "clearing", "reversing", "settled"}]
      /\ \A m \in Purchases \ {n} : network'[m] = network[m] /\ final'[m] = final[m]
      /\ \/ network[n] = "approved" /\ network'[n] \in {"clearing", "reversing"}
         \/ network[n] = "settled" /\ network'[n] = "settled"
  BY <1>1, CardsAssumption DEF CardsTypeOK, PurchaseInv, Entered, Decide, LateCharge
<1>3. CardsTypeOK' /\ Grows(n)
  BY <1>1, <1>2 DEF CardsTypeOK, Grows
<1>4. Entered(n)'
  BY <1>1, <1>2 DEF PurchaseInv, Entered
<1>5. (\A at : Relies(n, at) => Relies(n, at)') /\ RowTells(n)'
  BY <1>1, <1>2, <1>3, StillRight DEF PurchaseInv
<1>6. Handled(n)' /\ (NoClear(n) <=> NoClear(n)') /\ (NoReverse(n) <=> NoReverse(n)')
  BY <1>1, <1>5 DEF PurchaseInv, Handled, Handles, NoClear, NoReverse
<1>7. OneWay(n)'
  BY <1>1, <1>2, <1>6 DEF PurchaseInv, OneWay, RowTells
<1> QED BY <1>1, <1>2, <1>3, <1>4, <1>5, <1>6, <1>7, AboutOne DEF PurchaseInv

LEMMA AsideKeeps ==
    ASSUME CardInv, CardsTypeOK', UNCHANGED <<rows, network, final, early>>,
           \A n \in Purchases : Spared(n),
           \A c \in Calls : call'[c] = call[c] \/ call'[c] = Idle
    PROVE  CardInv'
BY AsideStays DEF CardInv

LEMMA OthersKeepCards ==
    ASSUME CardInv,
           \/ \E a \in Holders, i \in 1..MaxSpend : Spend(a, i)
           \/ \E c \in Calls : Crash(c)
           \/ Freeze
           \/ UNCHANGED <<core, cardVars>>
    PROVE  CardInv'
<1>1. CASE \E a \in Holders, i \in 1..MaxSpend : Spend(a, i)
  <2>1. PICK a \in Holders, i \in 1..MaxSpend : Spend(a, i)
    BY <1>1
  <2>2. \A n \in Purchases : Spared(n)
    BY <2>1, CardKeys DEF Spend, Posted, Reply, Spared
  <2>3. CardsTypeOK'
    BY <2>1 DEF Spend, CardInv, CardsTypeOK
  <2> QED BY <2>1, <2>2, <2>3, AsideKeeps DEF Spend
<1>2. CASE UNCHANGED <<core, rows, network, final, early>> /\ \E c \in Calls : Return(c)
  <2>1. CardsTypeOK' /\ \A c \in Calls : call'[c] = call[c] \/ call'[c] = Idle
    BY <1>2 DEF Return, CardInv, CardsTypeOK
  <2> QED BY <1>2, <2>1, AsideKeeps DEF Spared
<1>3. CASE UNCHANGED <<core, rows, call, network, final, early>>
  <2>1. CardsTypeOK'
    BY <1>3 DEF CardInv, CardsTypeOK
  <2> QED BY <1>3, <2>1, AsideKeeps DEF Spared
<1> QED BY <1>1, <1>2, <1>3 DEF Crash, Freeze, cardVars

-------------------------------------------------------------------------------
LEMMA ProgrammeAccounts ==
    /\ AuthHold # Settlement /\ AuthHold # Overage /\ Settlement # Overage
    /\ \A n \in Purchases : /\ AccountOf[n] \notin {AuthHold, Settlement, Overage}
                            /\ Amount[n] \in Nat /\ Amount[n] > 0
<1>1. \A x, y : Cardinality({x, y}) <= 2
  <2> SUFFICES ASSUME NEW x, NEW y PROVE Cardinality({x, y}) <= 2
    OBVIOUS
  <2>1. IsFiniteSet({y}) /\ Cardinality({y}) = 1
    BY FS_Singleton
  <2>2. Cardinality({y} \cup {x}) \in {1, 2}
    BY <2>1, FS_AddElement
  <2>3. {x, y} = {y} \cup {x}
    OBVIOUS
  <2> QED BY <2>2, <2>3
<1>2. Cardinality({AuthHold, Settlement, Overage}) = 3
  BY CardsAssumption
<1>3. AuthHold # Settlement
  <2> SUFFICES ASSUME AuthHold = Settlement PROVE FALSE
    OBVIOUS
  <2>1. {AuthHold, Settlement, Overage} = {Settlement, Overage}
    OBVIOUS
  <2>2. Cardinality({Settlement, Overage}) <= 2
    BY <1>1
  <2>3. 3 <= 2
    BY ONLY <1>2, <2>1, <2>2
  <2> QED BY <2>3
<1>4. AuthHold # Overage
  <2> SUFFICES ASSUME AuthHold = Overage PROVE FALSE
    OBVIOUS
  <2>1. {AuthHold, Settlement, Overage} = {Settlement, Overage}
    OBVIOUS
  <2>2. Cardinality({Settlement, Overage}) <= 2
    BY <1>1
  <2>3. 3 <= 2
    BY ONLY <1>2, <2>1, <2>2
  <2> QED BY <2>3
<1>5. Settlement # Overage
  <2> SUFFICES ASSUME Settlement = Overage PROVE FALSE
    OBVIOUS
  <2>1. {AuthHold, Settlement, Overage} = {AuthHold, Overage}
    OBVIOUS
  <2>2. Cardinality({AuthHold, Overage}) <= 2
    BY <1>1
  <2>3. 3 <= 2
    BY ONLY <1>2, <2>1, <2>2
  <2> QED BY <2>3
<1> QED BY <1>3, <1>4, <1>5, CardsAssumption, CoreClientAssumption

(* What a clearing takes from, and pays into, the accounts of the programme.     *)
LEMMA ClearingPays ==
    ASSUME NEW n \in Purchases, NEW payer \in {AccountOf[n], Overage}, final[n] \in Nat
    PROVE  LET e == ClearEntries(n, payer) IN
           /\ AuthHold \in DOMAIN e /\ e[AuthHold] = -Amount[n]
           /\ Settlement \in DOMAIN e /\ e[Settlement] = final[n]
           /\ payer = AccountOf[n] => Overage \notin DOMAIN e
           /\ payer = Overage /\ final[n] > Amount[n] =>
                Overage \in DOMAIN e /\ e[Overage] = -(final[n] - Amount[n])
BY ProgrammeAccounts DEF ClearEntries

LEMMA CardInvAddsUp == CardInv => PurchasesAddUp
<1> SUFFICES ASSUME CardInv, NEW n \in Purchases
             PROVE  /\ rows[n].held => AuthKey(n) \in DOMAIN core
                    /\ rows[n].status = "cleared" =>
                        /\ ClearKey(n) \in DOMAIN core
                        /\ core[ClearKey(n)][Settlement] = rows[n].final
                        /\ rows[n].overage = -Gained(Overage, {ClearKey(n)})
                    /\ rows[n].status = "reversed" => ReverseKey(n) \in DOMAIN core
                    /\ n \notin early => Gained(AuthHold, PurchaseKeys(n)) \in {0, Amount[n]}
  BY DEF PurchasesAddUp, RowsTellLedger, ReleasedOnce
<1>1. /\ Entered(n) /\ RowTells(n) /\ OneWay(n) /\ final[n] \in Nat
      /\ network[n] \in {"unanswered", "approved", "clearing", "reversing", "settled"}
  BY DEF CardInv, CardsTypeOK, PurchaseInv
<1>2. ASSUME rows[n].status = "cleared"
      PROVE  /\ ClearKey(n) \in DOMAIN core
             /\ core[ClearKey(n)][Settlement] = rows[n].final
             /\ rows[n].overage = -Gained(Overage, {ClearKey(n)})
  <2>1. CASE rows[n].overage = 0 /\ ClearedAs(n, AccountOf[n])
    <3>1. Gained(Overage, {ClearKey(n)}) = 0
      BY <1>1, <2>1, ClearingPays, GainedNone DEF ClearedAs
    <3>2. ClearKey(n) \in DOMAIN core /\ core[ClearKey(n)][Settlement] = final[n]
      BY <1>1, <2>1, ClearingPays DEF ClearedAs
    <3>3. rows[n].final = final[n]
      BY <1>1, <1>2 DEF RowTells
    <3>4. \A g, o \in Int : o + g = 0 => o = -g
      OBVIOUS
    <3>5. /\ rows[n].overage \in Int /\ Gained(Overage, {ClearKey(n)}) \in Int
          /\ rows[n].overage + Gained(Overage, {ClearKey(n)}) = 0
      BY <2>1, <3>1
    <3>6. rows[n].overage = -Gained(Overage, {ClearKey(n)})
      BY ONLY <3>4, <3>5
    <3> QED BY <3>2, <3>3, <3>6
  <2>2. CASE /\ final[n] > Amount[n] /\ rows[n].overage = final[n] - Amount[n]
             /\ ClearedAs(n, Overage)
    <3>1. /\ Overage \in DOMAIN core[ClearKey(n)]
          /\ core[ClearKey(n)][Overage] = -(final[n] - Amount[n])
      BY <1>1, <2>2, ClearingPays DEF ClearedAs
    <3>2. Gained(Overage, {ClearKey(n)}) = -(final[n] - Amount[n])
      BY <1>1, <3>1, GainedOne, ProgrammeAccounts
    <3> QED BY <1>1, <1>2, <2>2, <3>2, ClearingPays, ProgrammeAccounts DEF ClearedAs, RowTells
  <2> QED BY <1>1, <1>2, <2>1, <2>2 DEF RowTells
<1>3. ASSUME n \notin early PROVE Gained(AuthHold, PurchaseKeys(n)) \in {0, Amount[n]}
  <2>1. /\ AuthKey(n) \in DOMAIN core =>
             AuthHold \in DOMAIN core[AuthKey(n)] /\ core[AuthKey(n)][AuthHold] = Amount[n]
        /\ ClearKey(n) \in DOMAIN core =>
             AuthHold \in DOMAIN core[ClearKey(n)] /\ core[ClearKey(n)][AuthHold] = -Amount[n]
        /\ ReverseKey(n) \in DOMAIN core =>
             AuthHold \in DOMAIN core[ReverseKey(n)] /\ core[ReverseKey(n)][AuthHold] = -Amount[n]
    <3>1. ClearKey(n) \in DOMAIN core =>
             AuthHold \in DOMAIN core[ClearKey(n)] /\ core[ClearKey(n)][AuthHold] = -Amount[n]
      BY <1>1, ClearingPays DEF Entered
    <3>2. \A a : a # AuthHold =>
             /\ AuthHold \in DOMAIN Moves(a, AuthHold, Amount[n])
             /\ Moves(a, AuthHold, Amount[n])[AuthHold] = Amount[n]
             /\ AuthHold \in DOMAIN Moves(AuthHold, a, Amount[n])
             /\ Moves(AuthHold, a, Amount[n])[AuthHold] = -Amount[n]
      BY DEF Moves
    <3> QED BY <1>1, <3>1, <3>2, ProgrammeAccounts DEF Entered
  <2>2. /\ ClearKey(n) \notin DOMAIN core \/ ReverseKey(n) \notin DOMAIN core
        /\ ClearKey(n) \in DOMAIN core \/ ReverseKey(n) \in DOMAIN core => AuthKey(n) \in DOMAIN core
    BY <1>1, <1>3 DEF OneWay, RowTells, NoClear, NoReverse
  <2>3. AuthKey(n) # ClearKey(n) /\ AuthKey(n) # ReverseKey(n)
    BY CardKeys
  <2>4. CASE AuthKey(n) \notin DOMAIN core
    <3>1. PurchaseKeys(n) = {}
      BY <2>2, <2>4 DEF PurchaseKeys
    <3> QED BY <3>1, GainedNone
  <2>5. CASE AuthKey(n) \in DOMAIN core /\ ClearKey(n) \in DOMAIN core
    <3>1. PurchaseKeys(n) = {AuthKey(n), ClearKey(n)}
      BY <2>2, <2>5 DEF PurchaseKeys
    <3>2. Gained(AuthHold, PurchaseKeys(n)) = Amount[n] + (-Amount[n])
      BY <2>1, <2>3, <2>5, <3>1, GainedTwo, ProgrammeAccounts
    <3> QED BY <3>2, ProgrammeAccounts
  <2>6. CASE AuthKey(n) \in DOMAIN core /\ ReverseKey(n) \in DOMAIN core
    <3>1. PurchaseKeys(n) = {AuthKey(n), ReverseKey(n)}
      BY <2>2, <2>6 DEF PurchaseKeys
    <3>2. Gained(AuthHold, PurchaseKeys(n)) = Amount[n] + (-Amount[n])
      BY <2>1, <2>3, <2>6, <3>1, GainedTwo, ProgrammeAccounts
    <3> QED BY <3>2, ProgrammeAccounts
  <2>7. CASE AuthKey(n) \in DOMAIN core /\ ClearKey(n) \notin DOMAIN core /\ ReverseKey(n) \notin DOMAIN core
    <3>1. PurchaseKeys(n) = {AuthKey(n)}
      BY <2>7 DEF PurchaseKeys
    <3> QED BY <2>1, <2>7, <3>1, GainedOne, ProgrammeAccounts
  <2> QED BY <2>4, <2>5, <2>6, <2>7
<1> QED BY <1>1, <1>2, <1>3 DEF RowTells

(* In every reachable state of the card programme its invariant holds.           *)
THEOREM CardsInvariant == CardsSpec => []CardInv
<1>1. ASSUME CardInv, [NextCards]_<<core, cardVars>> PROVE CardInv'
  <2>1. CASE \E c \in Calls, n \in Purchases : Authorize(c, n) \/ Clear(c, n) \/ Reverse(c, n)
    BY <1>1, <2>1, AuthorizeKeeps, ClearKeeps, ReverseKeeps
  <2>2. CASE \E c \in Calls : PostHold(c) \/ MarkHeld(c) \/ Drop(c)
    BY <1>1, <2>2, PostHoldKeeps, MarkHeldKeeps, DropKeeps
  <2>3. CASE \E c \in Calls : PostClear(c) \/ PostAbsorbed(c) \/ MarkCleared(c)
    BY <1>1, <2>3, PostClearKeeps, PostAbsorbedKeeps, MarkClearedKeeps
  <2>4. CASE \E c \in Calls : PostReverse(c) \/ MarkReversed(c)
    BY <1>1, <2>4, PostReverseKeeps, MarkReversedKeeps
  <2>5. CASE \E n \in Purchases : Decide(n) \/ LateCharge(n)
    BY <1>1, <2>5, NetworkKeeps
  <2> QED BY <1>1, <2>1, <2>2, <2>3, <2>4, <2>5, OthersKeepCards DEF NextCards
<1> QED BY <1>1, CardInit, PTL DEF CardsSpec

(* The rows of the programme never say more than the ledger has, and a hold is   *)
(* let go once, for any number of purchases, calls and other spending.           *)
THEOREM PurchasesAlwaysAddUp == CardsSpec => []PurchasesAddUp
BY CardsInvariant, CardInvAddsUp, PTL
===============================================================================
