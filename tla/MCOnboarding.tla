---------------------------- MODULE MCOnboarding ----------------------------
(* Two applications with one document, served by two requests at a time.       *)
EXTENDS Onboarding, TLC

CONSTANTS a1, a2, w1, w2, dni

MCDocument == [a \in {a1, a2} |-> dni]

Verdict(i, s) == [identity |-> i, screening |-> s]
MCVerdicts ==
    {[a \in {a1, a2} |-> Verdict("verified", "clear")],
     (a1 :> Verdict("verified", "hit")) @@ (a2 :> Verdict("rejected", "clear")),
     (a2 :> Verdict("verified", "hit")) @@ (a1 :> Verdict("rejected", "clear"))}

(* The verdicts are the same with the applications exchanged.                   *)
AllAlike == Permutations({w1, w2}) \cup Permutations({a1, a2})
=============================================================================
