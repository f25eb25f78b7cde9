------------------------------ MODULE Receipts ------------------------------
(* Receipts anybody can check, services/receipts: one per movement and        *)
(* account, kept as it was shown.                                             *)
EXTENDS Customer

CONSTANT Codes   \* codes newCode makes

VARIABLES
    receipts,    \* receipts.receipts: code -> what it says
    handed       \* <<movement, code>> of the answers given

receiptVars == <<receipts, handed>>

InitReceipts == receipts = << >> /\ handed = {}

(* handleIssueReceipt finds the movement in the account first.                *)
handleIssueReceipt(h, k, account) ==
    /\ account \in Own /\ k \in DOMAIN core /\ account \in DOMAIN core[k]
    /\ Start(h, [at |-> "insert_receipt", movement |-> <<k, account>>])
    /\ UNCHANGED <<receiptVars, core, controlVars>>

Snapshot(m) == [movement |-> m, amount |-> core[m[1]][m[2]]]
Issued(m) == {code \in DOMAIN receipts : receipts[code].movement = m}

(* Slip: the code that was made is the answer, whatever became of its row.   *)
InsertAndAnswer(h, code) ==
    LET m == call[h].movement IN
    /\ call[h].at = "insert_receipt"
    /\ receipts' \in {receipts, (code :> Snapshot(m)) @@ receipts}
    /\ handed' = handed \cup {<<m, code>>}
    /\ Return(h)
    /\ UNCHANGED <<core, controlVars>>

(* ON CONFLICT (transaction_id, account_id) DO NOTHING; a code that is taken  *)
(* is an error.                                                               *)
InsertReceipt(h, code) ==
    LET m == call[h].movement IN
    /\ call[h].at = "insert_receipt"
    /\ IF Issued(m) # {} THEN UNCHANGED receipts /\ Goto(h, [call[h] EXCEPT !.at = "find_receipt"])
       ELSE IF code \in DOMAIN receipts THEN UNCHANGED receipts /\ Return(h)
       ELSE /\ receipts' = Insert(receipts, code, Snapshot(m))
            /\ Goto(h, [call[h] EXCEPT !.at = "find_receipt"]) \/ Return(h)
    /\ UNCHANGED <<handed, core, controlVars>>

FindReceipt(h) ==
    LET m == call[h].movement IN
    /\ call[h].at = "find_receipt"
    /\ \E code \in Issued(m) : handed' \in {handed, handed \cup {<<m, code>>}}
    /\ Return(h)
    /\ UNCHANGED <<receipts, core, controlVars>>

NextReceipts ==
    \E h \in Calls : \/ \E k \in DOMAIN core, account \in Own : handleIssueReceipt(h, k, account)
                     \/ \E code \in Codes : InsertReceipt(h, code)
                     \/ FindReceipt(h)

-----------------------------------------------------------------------------
(* A receipt that was handed out stands: whoever checks its code finds that   *)
(* movement as the ledger has it, and asking again gives the same code,        *)
(* however many asked at once (Issue, Verify).                                 *)
ReceiptsStand ==
    \A x \in handed :
        /\ x[2] \in DOMAIN receipts /\ receipts[x[2]] = Snapshot(x[1])
        /\ \A y \in handed : x[1] = y[1] <=> x[2] = y[2]
=============================================================================
