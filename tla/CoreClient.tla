----------------------------- MODULE CoreClient -----------------------------
(* The core as the Go services see it through clients/go/coreclient: postings *)
(* under idempotency keys, and answers that may not arrive.  The core itself  *)
(* is external here (Posting and LedgerSessions are about it); what matters   *)
(* to its callers is that a key moves money once, that no customer account    *)
(* ends in the negative, and that ErrUnavailable says nothing about whether   *)
(* the posting was made.                                                      *)
EXTENDS Integers, FiniteSets, Functions, TLC

CONSTANTS
    Holders,   \* customer accounts and their pockets
    House,     \* the bank's internal accounts, which may be overdrawn
    Funds      \* [Holders -> Nat]: what customers have before the first posting

ASSUME CoreClientAssumption ==
    /\ Holders \cap House = {}
    /\ Funds \in [Holders -> Nat]

VARIABLE core   \* what was posted: idempotency key -> entries

(* Entries map each account of a posting to what it gains: credits are        *)
(* positive, debits negative, and an account appears once in a posting.       *)
Debit(a, x)  == a :> -x
Credit(a, x) == a :> x

(* Most postings have two entries.                                            *)
Moves(from, to, x) == [a \in {from, to} |-> IF a = to THEN x ELSE -x]

(* What an account gained in the postings of a set of keys.                   *)
Gained(a, keys) ==
    SumFunction([k \in {k \in keys : a \in DOMAIN core[k]} |-> core[k][a]])

Balance(a) == Funds[a] + Gained(a, DOMAIN core)

Reply(key, entries) ==
    IF key \in DOMAIN core
    THEN IF core[key] = entries THEN "replayed" ELSE "conflict"
    ELSE IF \E a \in DOMAIN entries \cap Holders :
                entries[a] < 0 /\ Balance(a) + entries[a] < 0
         THEN "insufficient" ELSE "posted"

Answers == {"posted", "replayed", "conflict", "insufficient", "unavailable"}

Posted(key, entries) ==
    IF Reply(key, entries) = "posted"
    THEN [k \in DOMAIN core \cup {key} |-> IF k = key THEN entries ELSE core[k]]
    ELSE core

(* Client.Post: the answer is the core's, or ErrUnavailable because the call  *)
(* did not reach the core or its answer did not come back.                    *)
Post(key, entries, got) ==
    \/ got = Reply(key, entries) /\ core' = Posted(key, entries)
    \/ got = "unavailable"       /\ core' \in {core, Posted(key, entries)}

Ok(got) == got \in {"posted", "replayed"}

MovePocket(key, from, to, x, got) == Post(key, Moves(from, to, x), got)
=============================================================================
