------------------------------ MODULE Onboarding ------------------------------
(* The opening of a customer's account, services/onboarding/service.go over the *)
(* tables of store.go: identity check, screening, decision, account, each        *)
(* recorded as a step so that an interrupted application is resumed and no step  *)
(* is paid for twice.  A request is a series of statements with no transaction   *)
(* around them: requests for one application overlap, and die between any two.   *)
(* The providers of adapters/kyc and the core are external.                      *)
CONSTANTS
    Apps,      \* applications, by external reference; also the code of their account
    Document,  \* [Apps -> documents]: the identity document of the applicant
    Verdicts,  \* what the providers may answer: [Apps -> [identity, screening]]
    Workers    \* requests being served at a time

NoApp == "none"

ASSUME OnboardingAssumption ==
    /\ NoApp \notin Apps
    /\ Verdicts \subseteq
          [Apps -> [identity  : {"verified", "rejected", "inconclusive"},
                    screening : {"clear", "hit"}]]

VARIABLES
    status,    \* applications.status
    steps,     \* the application_steps table
    accounts,  \* the applications whose account the core has open
    verdict,   \* what the providers answer, the same at every call
    request    \* what each request is at, and the steps it last read

onboardingVars == <<status, steps, accounts, verdict, request>>

Checks == {"identity", "screening"}
Steps  == Checks \cup {"decision", "opening", "manual"}
NoSteps == [s \in Steps |-> "none"]

Resting == [pc |-> "idle", app |-> NoApp, done |-> NoSteps, to |-> "none"]

OnboardingInit ==
    /\ status = [a \in Apps |-> "absent"]
    /\ steps = [a \in Apps |-> NoSteps]
    /\ accounts = {}
    /\ verdict \in Verdicts
    /\ request = [w \in Workers |-> Resting]

-----------------------------------------------------------------------------
Stands(w, pc) == request[w].pc = pc
App(w)    == request[w].app

Proceed(w, pc) == request' = [request EXCEPT ![w].pc = pc]

(* What was read of the steps is used until the next of them has run.            *)
Leave(w, pc) == request' = [request EXCEPT ![w].pc = pc, ![w].done = NoSteps]
End(w)      == request' = [request EXCEPT ![w] = Resting]

(* RecordStep: the first record of a step stays (ON CONFLICT DO NOTHING).        *)
RecordStep(a, step, outcome) ==
    steps' = [steps EXCEPT ![a][step] = IF @ = "none" THEN outcome ELSE @]

(* Submit, or Resume when the application exists: store.Create.                  *)
Submit(w, a) ==
    /\ Stands(w, "idle")
    /\ status' = [status EXCEPT ![a] = IF @ = "absent" THEN "in_progress" ELSE @]
    /\ request' = [request EXCEPT ![w] = [Resting EXCEPT !.pc = "status", !.app = a]]
    /\ UNCHANGED <<steps, accounts, verdict>>

(* advance stops at an application that is approved or rejected, and only there. *)
ReadStatus(w) ==
    /\ Stands(w, "status")
    /\ IF status[App(w)] \in {"approved", "rejected"} THEN End(w) ELSE Proceed(w, "load")
    /\ UNCHANGED <<status, steps, accounts, verdict>>

LoadSteps(w) ==
    /\ Stands(w, "load")
    /\ request' = [request EXCEPT
                     ![w].done = steps[App(w)],
                     ![w].pc = IF steps[App(w)] = NoSteps THEN "duplicate" ELSE "next"]
    /\ UNCHANGED <<status, steps, accounts, verdict>>

(* Slip: only customers count as live.                                           *)
HasOtherCustomer(a) ==
    \E b \in Apps \ {a} : Document[b] = Document[a] /\ status[b] = "approved"

(* HasOtherLiveApplication.                                                      *)
HasOther(a) ==
    \E b \in Apps \ {a} : /\ Document[b] = Document[a]
                          /\ status[b] \notin {"absent", "rejected"}

(* finish records the decision first; UpdateStatus is a statement of its own.    *)
Finish(w, decision) ==
    /\ RecordStep(App(w), "decision", decision)
    /\ request' = [request EXCEPT ![w].pc = "update", ![w].to = decision,
                                 ![w].done = NoSteps]

CheckDuplicate(w) ==
    /\ Stands(w, "duplicate")
    /\ Proceed(w, IF HasOther(App(w)) THEN "found" ELSE "next")
    /\ UNCHANGED <<status, steps, accounts, verdict>>

(* One was found, and may be gone by now: an analyst decides.                    *)
LeaveToAnalyst(w) ==
    /\ Stands(w, "found")
    /\ Finish(w, "manual_review")
    /\ UNCHANGED <<status, accounts, verdict>>

Undone(w, step) == Stands(w, "next") /\ request[w].done[step] = "none"
Done(w, step)   == request[w].done[step] # "none"

(* StepIdentityVerification, StepSanctionsScreening.                             *)
RunCheck(w, step) ==
    /\ Undone(w, step)
    /\ step = "screening" => Done(w, "identity")
    /\ RecordStep(App(w), step, verdict[App(w)][step])
    /\ Leave(w, "refresh")
    /\ UNCHANGED <<status, accounts, verdict>>

(* The rest of the pipeline goes by the steps as they are after each of them.    *)
Refresh(w) ==
    /\ Stands(w, "refresh")
    /\ request' = [request EXCEPT ![w].done = steps[App(w)], ![w].pc = "next"]
    /\ UNCHANGED <<status, steps, accounts, verdict>>

(* Slip: a coincidence in the lists is only put on file.                         *)
RulingOnIdentity(done) ==
    IF done["identity"] = "rejected" THEN "rejected"
    ELSE IF done["identity"] = "inconclusive" THEN "manual_review"
    ELSE "approved"

(* decide.                                                                       *)
Ruling(done) ==
    IF done["identity"] = "rejected" THEN "rejected"
    ELSE IF done["identity"] = "inconclusive" \/ done["screening"] = "hit"
         THEN "manual_review"
    ELSE "approved"

Decide(w) ==
    LET ruling == Ruling(request[w].done) IN
    /\ Undone(w, "decision")
    /\ Done(w, "identity") /\ Done(w, "screening")
    /\ IF ruling = "approved"
          THEN RecordStep(App(w), "decision", ruling) /\ Leave(w, "refresh")
          ELSE Finish(w, ruling)
    /\ UNCHANGED <<status, accounts, verdict>>

(* UpdateStatus, after which the request is over, but for an approval.           *)
UpdateStatus(w) ==
    /\ Stands(w, "update")
    /\ status' = [status EXCEPT ![App(w)] = request[w].to]
    /\ IF request[w].to = "in_progress" THEN Proceed(w, "load") ELSE End(w)
    /\ UNCHANGED <<steps, accounts, verdict>>

(* openAccount: an account that is open under the code already is taken over.    *)
OpenAccount(w) ==
    /\ Undone(w, "opening")
    /\ Done(w, "identity") /\ Done(w, "screening") /\ Done(w, "decision")
    /\ accounts' = accounts \cup {App(w)}
    /\ Leave(w, "opened")
    /\ UNCHANGED <<status, steps, verdict>>

RecordOpening(w) ==
    /\ Stands(w, "opened")
    /\ RecordStep(App(w), "opening", "opened")
    /\ Proceed(w, "set")
    /\ UNCHANGED <<status, accounts, verdict>>

SetAccount(w) ==
    /\ Stands(w, "set")
    /\ status' = [status EXCEPT ![App(w)] = "approved"]
    /\ End(w)
    /\ UNCHANGED <<steps, accounts, verdict>>

(* Every step of the pipeline had been done.                                     *)
NothingLeft(w) ==
    /\ Stands(w, "next")
    /\ \A s \in Steps \ {"manual"} : Done(w, s)
    /\ End(w)
    /\ UNCHANGED <<status, steps, accounts, verdict>>

(* ApproveManually reads the status first; RejectManually asks nothing of it.    *)
ApproveManually(w, a) ==
    /\ Stands(w, "idle")
    /\ status[a] = "manual_review"
    /\ request' = [request EXCEPT ![w] =
                     [Resting EXCEPT !.pc = "review", !.app = a, !.to = "in_progress"]]
    /\ UNCHANGED <<status, steps, accounts, verdict>>

RejectManually(w, a) ==
    /\ Stands(w, "idle")
    /\ status[a] # "absent"
    /\ request' = [request EXCEPT ![w] =
                     [Resting EXCEPT !.pc = "review", !.app = a, !.to = "rejected"]]
    /\ UNCHANGED <<status, steps, accounts, verdict>>

RecordReview(w) ==
    /\ Stands(w, "review")
    /\ RecordStep(App(w), "manual",
                  IF request[w].to = "rejected" THEN "rejected" ELSE "approved")
    /\ Proceed(w, "update")
    /\ UNCHANGED <<status, accounts, verdict>>

(* A provider, the core or the database does not answer, or the process dies.    *)
Fail(w) ==
    /\ ~Stands(w, "idle")
    /\ End(w)
    /\ UNCHANGED <<status, steps, accounts, verdict>>

OnboardingNext ==
    \E w \in Workers :
        \/ \E a \in Apps : Submit(w, a) \/ ApproveManually(w, a) \/ RejectManually(w, a)
        \/ ReadStatus(w) \/ LoadSteps(w) \/ CheckDuplicate(w) \/ LeaveToAnalyst(w)
        \/ \E step \in Checks : RunCheck(w, step)
        \/ Refresh(w) \/ Decide(w) \/ UpdateStatus(w)
        \/ OpenAccount(w) \/ RecordOpening(w) \/ SetAccount(w) \/ NothingLeft(w)
        \/ RecordReview(w)
        \/ Fail(w)

OnboardingSpec == OnboardingInit /\ [][OnboardingNext]_onboardingVars
-----------------------------------------------------------------------------
Outcomes == {"none", "verified", "rejected", "inconclusive", "clear", "hit",
             "approved", "manual_review", "opened"}
Statuses == {"absent", "in_progress", "manual_review", "approved", "rejected"}

Requests ==
    [pc : {"idle", "status", "load", "duplicate", "found", "next", "refresh", "update",
           "opened", "set", "review"},
     app : Apps \cup {NoApp}, done : [Steps -> Outcomes],
     to : {"none", "in_progress", "manual_review", "rejected"}]

(* The type invariant.                                                           *)
OnboardingTypeOK ==
    /\ status \in [Apps -> Statuses]
    /\ steps \in [Apps -> [Steps -> Outcomes]]
    /\ accounts \subseteq Apps
    /\ request \in [Workers -> Requests]
    /\ \A a \in Apps : status[a] = "absent" => steps[a] = NoSteps /\ a \notin accounts

(* The file sustains the decision: an automatic decision is the one its recorded  *)
(* checks call for, even when several requests took part in it, and an approved   *)
(* application has every step on file and an open account.                        *)
FileSustainsDecision ==
    \A a \in Apps :
        /\ steps[a]["decision"] = "approved" =>
              steps[a]["identity"] = "verified" /\ steps[a]["screening"] = "clear"
        /\ steps[a]["decision"] = "rejected" => steps[a]["identity"] = "rejected"
        /\ status[a] = "approved" =>
              /\ a \in accounts
              /\ \A s \in Steps \ {"manual"} : steps[a][s] # "none"

ByItself(a) == steps[a]["decision"] = "approved" /\ steps[a]["manual"] = "none"

(* One person, one live application: of two applications with one document the   *)
(* policy approves one at most, however their requests interleave; the other      *)
(* waits for an analyst.                                                          *)
OneApprovedByItself ==
    \A a, b \in Apps :
        a # b /\ Document[a] = Document[b] => ~(ByItself(a) /\ ByItself(b))

(* "StatusManualReview: requiere decision de un analista" (model.go:19): an account *)
(* is opened only for who the policy or an analyst approved.                       *)
OpenedWereApproved ==
    \A a \in accounts :
        steps[a]["decision"] = "approved" \/ steps[a]["manual"] = "approved"
=============================================================================
