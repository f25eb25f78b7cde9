------------------------------- MODULE Sweeper -------------------------------
(* The sweeper of expired holds, core/src/bin/sweeper.rs and release_expired of *)
(* core/src/authorizations.rs: a pass reads the oldest expired holds, then      *)
(* releases each in a transaction of its own; a release that fails is logged    *)
(* and left for a later pass.  Passes of the sweeper process and of the         *)
(* ReleaseExpired RPC may overlap, and a process may die between two releases.  *)
EXTENDS Authorizations, SequencesExt

CONSTANTS
    Sweepers,    \* who runs passes: the process, and an RPC
    BatchLimit,  \* SWEEP_BATCH, 200 by default
    MaxCrashes   \* bound on how often a pass is cut short

ASSUME SweeperAssumption == BatchLimit \in Nat \ {0} /\ MaxCrashes \in Nat

VARIABLES
    batch,   \* what is left of the pass of each sweeper
    crashes

sweeperVars == <<posted, balance, closed, auth, now, batch, crashes>>

ExpiredKeys == {k \in Keys : Expired(k)}

(* SELECT ... ORDER BY expires_at LIMIT: ties in any order.                     *)
OldestFirst(q) ==
    LET picked == Range(q)
        before(j, k) == auth[j].expires <= auth[k].expires IN
    /\ IsInjective(q)
    /\ picked \subseteq ExpiredKeys
    /\ Len(q) = Min({BatchLimit, Cardinality(ExpiredKeys)})
    /\ \A i \in 1 .. Len(q) - 1 : before(q[i], q[i + 1])
    /\ \A j \in picked, k \in ExpiredKeys \ picked : before(j, k)

SweeperInit ==
    /\ Init
    /\ batch = [s \in Sweepers |-> <<>>]
    /\ crashes = 0

Select(s) ==
    /\ batch[s] = <<>>
    /\ ExpiredKeys # {}
    /\ \E q \in SeqOf(ExpiredKeys, Min({BatchLimit, Cardinality(ExpiredKeys)})) :
          OldestFirst(q) /\ batch' = [batch EXCEPT ![s] = q]
    /\ UNCHANGED <<authVars, crashes>>

(* Slip: a release that fails ends the pass.                                    *)
ReleaseNextOrStop(s) ==
    /\ batch[s] # <<>>
    /\ LET k == Head(batch[s]) IN
          \/ /\ Release(k)
             /\ batch' = [batch EXCEPT ![s] = Tail(@)]
          \/ /\ auth[k].status # "AUTHORIZED" \/ ~CanPost(ReleaseOf(k))
             /\ batch' = [batch EXCEPT ![s] = <<>>]
             /\ UNCHANGED authVars
    /\ UNCHANGED crashes

(* self.release of the next row: released, found settled by someone else, or    *)
(* refused by the ledger.                                                       *)
ReleaseNext(s) ==
    /\ batch[s] # <<>>
    /\ batch' = [batch EXCEPT ![s] = Tail(@)]
    /\ LET k == Head(batch[s]) IN
          \/ Release(k)
          \/ auth[k].status # "AUTHORIZED" /\ UNCHANGED authVars
          \/ ~CanPost(ReleaseOf(k)) /\ UNCHANGED authVars
    /\ UNCHANGED crashes

Crash(s) ==
    /\ batch[s] # <<>>
    /\ crashes < MaxCrashes
    /\ crashes' = crashes + 1
    /\ batch' = [batch EXCEPT ![s] = <<>>]
    /\ UNCHANGED authVars

SweeperNext ==
    \/ Tick /\ UNCHANGED <<batch, crashes>>
    \/ LedgerNext /\ UNCHANGED <<auth, now, batch, crashes>>
    \/ \E k \in Keys :
          /\ \/ \E c \in Commands : Authorize(k, c)
             \/ Capture(k)
             \/ \E x \in Amounts(k) : Refund(k, x)
          /\ UNCHANGED <<batch, crashes>>
    \/ \E s \in Sweepers : Select(s) \/ ReleaseNext(s) \/ Crash(s)

(* The ticker fires for ever and no failure stops the loop (sweeper.rs:69-72).  *)
SweeperSpec ==
    /\ SweeperInit /\ [][SweeperNext]_sweeperVars
    /\ \A s \in Sweepers :
          WF_sweeperVars(Select(s)) /\ WF_sweeperVars(ReleaseNext(s))

-----------------------------------------------------------------------------
(* The type invariant.                                                          *)
SweeperTypeOK ==
    /\ TypeOK
    /\ batch \in [Sweepers -> Seq(Keys)]
    /\ crashes \in 0 .. MaxCrashes

(* Overlapping passes, reads grown stale and crashes in the middle of a pass     *)
(* leave every authorization as Escrow promises.                                 *)
SweepKeepsEscrow == E!Spec

(* An expired hold that the ledger lets go of goes back to its owner: no hold    *)
(* stays expired and releasable for ever.                                        *)
ExpiredGoBack ==
    \A k \in Keys : []<>~(Expired(k) /\ CanPost(ReleaseOf(k)))

(* What a sweeper is about to release has expired, and stays so until it is      *)
(* settled: a capture can no longer win the race.                                *)
BatchesHaveExpired ==
    \A s \in Sweepers : \A k \in Range(batch[s]) :
        auth[k].expires <= now /\ auth[k].status \in {"AUTHORIZED", "RELEASED"}
=============================================================================
