------------------------------ MODULE Channel ------------------------------
(* The app's channel, services/bff: handlers of all its parts at once, over   *)
(* one core and one layer of control.  A behaviour is either that of somebody *)
(* who becomes a customer, or that of one who is.                             *)
EXTENDS Pockets, FX, CreditCalls, Aliases, Receipts, Arrivals, Forecast

VARIABLE stage   \* "arrival" or "customer"

appVars == <<controlVars, pocketVars, fxVars, creditVars, aliasVars, receiptVars>>
vars == <<core, handlerVars, appVars, arrivalVars, stage>>

Init ==
    /\ core = << >> /\ InitControl /\ InitHandlers /\ InitPockets /\ InitFX
    /\ InitCredit /\ InitAliases /\ InitReceipts /\ InitArrivals
    /\ stage \in {"arrival", "customer"}

NextCustomer ==
    \/ /\ NextTransfers
       /\ UNCHANGED <<pocketVars, fxVars, creditVars, aliasVars, receiptVars>>
    \/ /\ NextPockets
       /\ UNCHANGED <<controlVars, fxVars, creditVars, aliasVars, receiptVars>>
    \/ /\ NextFX
       /\ UNCHANGED <<pocketVars, creditVars, aliasVars, receiptVars>>
    \/ /\ NextCredit
       /\ UNCHANGED <<pocketVars, fxVars, aliasVars, receiptVars>>
    \/ /\ NextAliases
       /\ UNCHANGED <<core, controlVars, pocketVars, fxVars, creditVars, receiptVars>>
    \/ /\ NextReceipts
       /\ UNCHANGED <<pocketVars, fxVars, creditVars, aliasVars>>

Next ==
    /\ UNCHANGED stage
    /\ \/ stage = "customer" /\ NextCustomer /\ UNCHANGED arrivalVars
       \/ stage = "arrival" /\ NextArrivals /\ UNCHANGED appVars
       \/ \E h \in Calls : Crash(h) /\ UNCHANGED <<core, appVars, arrivalVars>>

Spec == Init /\ [][Next]_vars

-----------------------------------------------------------------------------
(* In any stretch of time no more calls of somebody unknown go through than a *)
(* burst and what the rate lets in (ratelimit.Limiter.Allow).                 *)
WindowsAreBounded == stage = "arrival" => BoundedWindows

(* What the forecast proposes to a customer for a day without money does help *)
(* (forecast.Options).                                                        *)
OptionsHelp == stage = "customer" => HelpfulOptions
=============================================================================
