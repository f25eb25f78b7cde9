------------------------------- MODULE OAuth -------------------------------
(* How a platform is let in, services/oauth: a secret that can be changed     *)
(* without a cut, and the tokens it buys, signed with a key that can be       *)
(* changed as well.  It shares its clock with Agents; the two are changed by  *)
(* the same people in the same weeks.                                         *)
EXTENDS Agents, Sequences

CONSTANTS
    Scopes,             \* scopes the client has
    SecretGraceWindow, TokenTTL,
    MaxRotations,       \* bound: secrets and signing keys of its life
    MaxTokens           \* bound: tokens out at once

ASSUME OAuthAssumption ==
    SecretGraceWindow \in Nat /\ TokenTTL \in Nat \ {0}
    /\ MaxRotations \in Nat /\ MaxTokens \in Nat

VARIABLES
    issued,    \* when each of the client's secrets was given out, the last is in force
    active,    \* oauth.clients.active
    signing,   \* the bank's signing key: the one before it is still accepted
    tokens     \* tokens out there

oauthVars == <<issued, active, signing, tokens>>

InitOAuth == issued = <<0>> /\ active = TRUE /\ signing = 1 /\ tokens = {}

RotateSecret ==
    /\ Len(issued) < MaxRotations
    /\ issued' = Append(issued, now)
    /\ UNCHANGED <<active, signing, tokens>>

(* Slip: the previous secret has no end.                                     *)
secretStillMatches(n) == n >= Len(issued) - 1

secretMatches(n) ==
    LET last == Len(issued) IN
    \/ n = last
    \/ n = last - 1 /\ now <= issued[last] + SecretGraceWindow

Authenticate(n) == secretMatches(n) /\ active

(* A scope the client does not have is an error; none asked is all it has.    *)
GrantScopes(requested) == IF requested = {} THEN {Scopes}
                          ELSE {requested} \cap SUBSET Scopes

Issue(n, granted) ==
    [secret |-> n, scopes |-> granted, key |-> signing, expires |-> now + TokenTTL]

Token(n) ==
    /\ Authenticate(n) /\ Cardinality(tokens) < MaxTokens
    /\ \E requested \in SUBSET (Scopes \cup {"other"}), granted \in SUBSET Scopes :
        /\ granted \in GrantScopes(requested)
        /\ tokens' = tokens \cup {Issue(n, granted)}
    /\ UNCHANGED <<issued, active, signing>>

signatureMatches(t) == t.key \in {signing, signing - 1}
Admits(t) == signatureMatches(t) /\ now < t.expires
HasScope(t, scope) == scope \in t.scopes

(* Server.Authenticate: what a request with a token may do.                   *)
MayDo(t, scope) == Admits(t) /\ HasScope(t, scope)

(* A deployment with a new signing key; the bank closes an integration.       *)
RotateSigningKey ==
    /\ signing < MaxRotations /\ signing' = signing + 1 /\ UNCHANGED <<issued, active, tokens>>
Deactivate == active /\ active' = FALSE /\ UNCHANGED <<issued, signing, tokens>>

NextOAuth == \/ RotateSecret \/ RotateSigningKey \/ Deactivate
             \/ \E n \in DOMAIN issued : Token(n)

InitAccess == InitAgents /\ InitOAuth
NextAccess == \/ NextAgents /\ UNCHANGED oauthVars
              \/ NextOAuth /\ UNCHANGED agentVars
              \/ Tick /\ UNCHANGED oauthVars

accessVars == <<agentVars, oauthVars>>
AccessSpec == InitAccess /\ [][NextAccess]_accessVars

-----------------------------------------------------------------------------
(* A secret that was replaced lets nobody in once its grace and the last      *)
(* token it can have bought are over, and what it does let in has no scope    *)
(* the client lacks (RotateSecret, Authenticate, Issue, Verify).              *)
OldSecretsFadeOut ==
    \A t \in tokens, scope \in Scopes \cup {"other"} :
        MayDo(t, scope) => /\ t.secret < Len(issued) =>
                                  now < issued[t.secret + 1] + SecretGraceWindow + TokenTTL
                           /\ scope \in Scopes

(* What a key or a secret was changed for ends when it should, however two    *)
(* changes overlap (agents.AddKey; oauth.RotateSecret, Authenticate, Verify). *)
RotationsTakeEffect == OneFreshKey /\ OldSecretsFadeOut
=============================================================================
