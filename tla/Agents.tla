------------------------------- MODULE Agents -------------------------------
(* The agents of a platform and the keys they sign with, services/agents.     *)
(* Keys are changed by transactions that first lock the row of their agent,   *)
(* and read and write the keys afterwards, by the time they took then.        *)
EXTENDS Naturals, FiniteSets, TLC

CONSTANTS
    AgentIds, Keys,
    RotationWindow,    \* how long a key is good once another was added
    MaxSignatureAge,   \* how old a signed request may be
    MaxTime,           \* bound of the clock
    Transactions       \* transactions open at once

ASSUME AgentsAssumption ==
    RotationWindow \in Nat \ {0} /\ MaxSignatureAge \in Nat /\ MaxTime \in Nat

VARIABLES
    keys,      \* agents.keys: [Keys -> Key or NoKey]
    known,     \* agents.agents
    revoked,   \* the ones whose revoked_at is set
    now,       \* the clock
    tx         \* [Transactions -> what it has locked and read]

agentVars == <<keys, known, revoked, now, tx>>

Never == MaxTime + RotationWindow + 1
NoKey == [agent |-> "none", expires |-> 0, retired |-> FALSE]
NoTx  == [at |-> "idle"]

KeysOf(a) == {k \in Keys : keys[k].agent = a}

(* Key.Valid, and what the statements ask of a key at time t.                 *)
ValidAt(k, t) == keys[k].agent \in AgentIds /\ ~keys[k].retired /\ t < keys[k].expires
Valid(k) == ValidAt(k, now)
Current(a, t) == {k \in KeysOf(a) : ValidAt(k, t)}

InitAgents ==
    /\ keys = [k \in Keys |-> NoKey] /\ known = {} /\ revoked = {} /\ now = 0
    /\ tx = [s \in Transactions |-> NoTx]

(* insertKey: a public key is registered once, whoever it belongs to.         *)
insertKey(k, a) == [keys EXCEPT ![k] = [agent |-> a, expires |-> Never, retired |-> FALSE]]

Register(a, k) ==
    /\ a \notin known /\ keys[k] = NoKey
    /\ known' = known \cup {a} /\ keys' = insertKey(k, a)
    /\ UNCHANGED <<revoked, now, tx>>

(* Slip: nothing locks the row of the agent.                                 *)
NeverLocked(a) == FALSE

(* The row of the agent is locked FOR UPDATE until the transaction ends, and  *)
(* Revoke, which writes it, waits as well.                                    *)
Locked(a) == \E s \in Transactions : tx[s] # NoTx /\ tx[s].agent = a

Revoke(a) ==
    /\ a \in known /\ ~Locked(a)
    /\ revoked' = revoked \cup {a}
    /\ UNCHANGED <<keys, known, now, tx>>

lockLiveAgent(s, a, next) ==
    /\ tx[s] = NoTx /\ a \in known \ revoked /\ ~Locked(a)
    /\ tx' = [tx EXCEPT ![s] = [at |-> next, agent |-> a, now |-> now]]
    /\ UNCHANGED <<keys, known, revoked, now>>

-----------------------------------------------------------------------------
(* AddKey: the keys that were good get an end, whatever end they had, and     *)
(* the new one has none.                                                      *)
BeginAddKey(s, a) == lockLiveAgent(s, a, "adding")

ExpireKeys(s) ==
    /\ tx[s].at = "adding"
    /\ tx' = [tx EXCEPT ![s] = [at |-> "insert", agent |-> tx[s].agent, now |-> tx[s].now,
                                old |-> Current(tx[s].agent, tx[s].now)]]
    /\ UNCHANGED <<keys, known, revoked, now>>

AddKey(s, k) ==
    LET t == tx[s] IN
    /\ t.at = "insert" /\ keys[k] = NoKey
    /\ keys' = [x \in Keys |-> IF x \in t.old THEN [keys[x] EXCEPT !.expires = t.now + RotationWindow]
                               ELSE insertKey(k, t.agent)[x]]
    /\ tx' = [tx EXCEPT ![s] = NoTx]
    /\ UNCHANGED <<known, revoked, now>>

(* RetireKey: the target must be good now, and not the only one that is.      *)
BeginRetireKey(s, a) == lockLiveAgent(s, a, "retiring")

CountKeys(s, k) ==
    LET t == tx[s]  good == Current(t.agent, t.now) IN
    /\ t.at = "retiring"
    /\ tx' = [tx EXCEPT ![s] = IF k \in good /\ good \ {k} # {}
                               THEN [at |-> "retire", agent |-> t.agent, now |-> t.now, key |-> k]
                               ELSE NoTx]
    /\ UNCHANGED <<keys, known, revoked, now>>

RetireKey(s) ==
    /\ tx[s].at = "retire"
    /\ keys' = [keys EXCEPT ![tx[s].key].retired = TRUE]
    /\ tx' = [tx EXCEPT ![s] = NoTx]
    /\ UNCHANGED <<known, revoked, now>>

Rollback(s) ==
    /\ tx[s] # NoTx /\ tx' = [tx EXCEPT ![s] = NoTx]
    /\ UNCHANGED <<keys, known, revoked, now>>

Tick == now < MaxTime /\ now' = now + 1 /\ UNCHANGED <<keys, known, revoked, tx>>

-----------------------------------------------------------------------------
(* KeyForSignature and Verify: whose signature a request bears, if any.       *)
KeyForSignature(k) == Valid(k) /\ keys[k].agent \notin revoked
Verify(k, created) ==
    /\ now <= created + MaxSignatureAge /\ created <= now
    /\ KeyForSignature(k)

NextAgents ==
    \/ \E a \in AgentIds, k \in Keys : Register(a, k)
    \/ \E a \in AgentIds : Revoke(a) \/ \E s \in Transactions : BeginAddKey(s, a) \/ BeginRetireKey(s, a)
    \/ \E s \in Transactions : ExpireKeys(s) \/ RetireKey(s) \/ Rollback(s)
    \/ \E s \in Transactions, k \in Keys : AddKey(s, k) \/ CountKeys(s, k)

-----------------------------------------------------------------------------
(* Whatever transactions overlap, one key of an agent at most is good without *)
(* an end: of two keys added at once the first must have got one from the     *)
(* second (AddKey).                                                           *)
OneFreshKey ==
    \A a \in known : Cardinality({k \in KeysOf(a) : ~keys[k].retired /\ keys[k].expires = Never}) <= 1
=============================================================================
