-------------------------------- MODULE Relay --------------------------------
(* The transactional outbox and the relay that empties it, core/src/outbox.rs   *)
(* with core/migrations/0003: an event is a row written in the transaction of   *)
(* its posting; the relay publishes rows that have committed and marks them in  *)
(* a transaction of its own, so what it published before a crash is published   *)
(* again.  The bus and its consumers are external: a consumer drops an event    *)
(* whose id it has seen.                                                        *)
EXTENDS Naturals, FiniteSets, SequencesExt

CONSTANTS
    Touches,      \* the sets of accounts a posting may touch
    MaxEvents,    \* bound on the rows of the outbox
    Relays,       \* relay processes
    BatchSize,    \* with_batch_size, 100 by default
    MaxFailures   \* bound on the failures of the bus and of the relays

ASSUME RelayAssumption == BatchSize \in Nat \ {0} /\ MaxEvents \in Nat

VARIABLES
    row,       \* the outbox: the accounts and the fate of the transaction of each row
    published, \* the rows whose published_at is set
    relay,     \* the pass each relay is at: the rows it has locked, has yet to
               \* publish, and has published
    seen,      \* the events a consumer has taken in, in its order
    failures

relayVars == <<row, published, relay, seen, failures>>

Ids     == 1 .. MaxEvents
Free    == [fate |-> "free", touches |-> {}]
Resting == [busy |-> FALSE, locked |-> {}, todo |-> {}, done |-> {}]

Sharing(i, j) == row[i].touches \cap row[j].touches # {}
Committed     == {i \in Ids : row[i].fate = "committed"}

-----------------------------------------------------------------------------
RelayInit ==
    /\ row = [i \in Ids |-> Free]
    /\ published = {}
    /\ relay = [r \in Relays |-> Resting]
    /\ seen = <<>>
    /\ failures = 0

(* emit_posted_event: the row takes the next id once its transaction has locked  *)
(* the balances of its accounts, and holds them until it ends.                   *)
Emit(i, accounts) ==
    /\ row[i].fate = "free"
    /\ \A j \in 1 .. i - 1 : row[j].fate # "free"
    /\ \A j \in Ids : row[j].fate = "open" => row[j].touches \cap accounts = {}
    /\ row' = [row EXCEPT ![i] = [fate |-> "open", touches |-> accounts]]
    /\ UNCHANGED <<published, relay, seen, failures>>

EndTransaction(i, fate) ==
    /\ row[i].fate = "open"
    /\ row' = [row EXCEPT ![i].fate = fate]
    /\ UNCHANGED <<published, relay, seen, failures>>

(* Rows FOR UPDATE SKIP LOCKED leaves to r.                                      *)
Pending(r) == (Committed \ published) \ UNION {relay[q].locked : q \in Relays}

Least(n, S) == {i \in S : Cardinality({j \in S : j < i}) < n}

Pass(rows) == [busy |-> TRUE, locked |-> rows, todo |-> rows, done |-> {}]

(* Slip: rows are read from the last published id on.                            *)
SelectAfterLast(r) ==
    LET later == {i \in Pending(r) : \A j \in published : j < i} IN
    /\ ~relay[r].busy
    /\ later # {}
    /\ relay' = [relay EXCEPT ![r] = Pass(Least(BatchSize, later))]
    /\ UNCHANGED <<row, published, seen, failures>>

(* run_once: SELECT ... ORDER BY id LIMIT.                                       *)
Select(r) ==
    /\ ~relay[r].busy
    /\ Pending(r) # {}
    /\ relay' = [relay EXCEPT ![r] = Pass(Least(BatchSize, Pending(r)))]
    /\ UNCHANGED <<row, published, seen, failures>>

(* The batch is gone through in the order of ids.                                *)
IsFirst(i, r) == i \in relay[r].todo /\ \A j \in relay[r].todo : i <= j

(* A consumer drops what it has seen.                                            *)
Deliver(i) == seen' = IF i \in Range(seen) THEN seen ELSE Append(seen, i)

Publish(r, i) ==
    /\ IsFirst(i, r)
    /\ Deliver(i)
    /\ relay' = [relay EXCEPT ![r].todo = @ \ {i}, ![r].done = @ \cup {i}]
    /\ UNCHANGED <<row, published, failures>>

(* Slips: as run_once's comment has it, a failure does not stop the batch; what  *)
(* failed is marked as well.                                                     *)
PublishFailsGoOn(r, i) ==
    /\ IsFirst(i, r)
    /\ failures < MaxFailures
    /\ failures' = failures + 1
    /\ Deliver(i) \/ UNCHANGED seen
    /\ relay' = [relay EXCEPT ![r].todo = @ \ {i}]
    /\ UNCHANGED <<row, published>>

(* The bus answers with an error, whether or not the message got through: the    *)
(* rest of the batch waits for the next pass.                                    *)
PublishFails(r, i) ==
    /\ IsFirst(i, r)
    /\ failures < MaxFailures
    /\ failures' = failures + 1
    /\ Deliver(i) \/ UNCHANGED seen
    /\ relay' = [relay EXCEPT ![r].todo = {}]
    /\ UNCHANGED <<row, published>>

(* UPDATE ... SET published_at, and the commit of the pass.                      *)
Mark(r) ==
    /\ relay[r].busy
    /\ relay[r].todo = {}
    /\ published' = published \cup relay[r].done
    /\ relay' = [relay EXCEPT ![r] = Resting]
    /\ UNCHANGED <<row, seen, failures>>

(* The relay dies: its transaction is rolled back, its messages are out.         *)
Crash(r) ==
    /\ relay[r].busy
    /\ failures < MaxFailures
    /\ failures' = failures + 1
    /\ relay' = [relay EXCEPT ![r] = Resting]
    /\ UNCHANGED <<row, published, seen>>

RelayNext ==
    \/ \E i \in Ids :
          \/ \E accounts \in Touches : Emit(i, accounts)
          \/ \E fate \in {"committed", "rolled back"} : EndTransaction(i, fate)
    \/ \E r \in Relays :
          \/ Select(r) \/ Mark(r) \/ Crash(r)
          \/ \E i \in Ids : Publish(r, i) \/ PublishFails(r, i)

(* Relay::run loops for ever; the bus takes what it is given in the end.         *)
RelaySpec ==
    /\ RelayInit /\ [][RelayNext]_relayVars
    /\ \A r \in Relays : /\ WF_relayVars(Select(r))
                         /\ WF_relayVars(\E i \in Ids : Publish(r, i))
                         /\ WF_relayVars(Mark(r))

-----------------------------------------------------------------------------
(* The type invariant.                                                           *)
RelayTypeOK ==
    /\ row \in [Ids -> [fate : {"free", "open", "committed", "rolled back"},
                        touches : Touches \cup {{}}]]
    /\ published \subseteq Committed
    /\ relay \in [Relays -> [busy : BOOLEAN, locked : SUBSET Ids,
                          todo : SUBSET Ids, done : SUBSET Ids]]
    /\ seen \in Seq(Ids)
    /\ \A r \in Relays : /\ ~relay[r].busy => relay[r] = Resting
                         /\ relay[r].todo \cup relay[r].done \subseteq relay[r].locked
                         /\ relay[r].todo \cap relay[r].done = {}

(* No event is lost: a row is marked only once it is on the bus, wherever a pass *)
(* is cut short, and none of a posting that was rolled back ever gets there.     *)
MarkedWereDelivered ==
    published \subseteq Range(seen) /\ Range(seen) \subseteq Committed

(* The balance an event carries is the account's until the next event of that    *)
(* account: one relay puts the events of an account on the bus in the order of    *)
(* their commits, whatever fails and however late a transaction commits.  (The    *)
(* bus keeps that order within a partition only.)                                 *)
AccountsInOrder ==
    \A n \in 1 .. Len(seen) : \A i \in Committed :
        i < seen[n] /\ Sharing(i, seen[n]) => \E m \in 1 .. n - 1 : seen[m] = i

(* At least once: every event that commits reaches the consumers.                *)
Delivered ==
    \A i \in Ids : row[i].fate = "committed" ~> i \in Range(seen)
=============================================================================
