---------------------------- MODULE HandoffLedger ----------------------------
(***************************************************************************)
(* What handing a confirmed requirement to the order application promises, *)
(* without documents, versions and lost answers: a requirement is sent     *)
(* only once it has been confirmed, the other side makes one draft of it   *)
(* however often it is sent, it is called delivered only when that draft   *)
(* exists, and once it is revoked nothing starts to send it again.         *)
(***************************************************************************)
EXTENDS Naturals

CONSTANT Contents    \* requirements, as confirmed

VARIABLES
    status,    \* what is known here of each
    sending,   \* those some request is handing over or asking after
    drafts     \* how many drafts the other side has of each

lvars == <<status, sending, drafts>>

Init ==
    /\ status = [x \in Contents |-> "new"]
    /\ sending = {}
    /\ drafts = [x \in Contents |-> 0]

Confirm(x) ==
    /\ status[x] = "new" /\ status' = [status EXCEPT ![x] = "confirmed"]
    /\ sending' = sending \cup {x}
    /\ UNCHANGED drafts

Resume(x) ==
    /\ status[x] \notin {"new", "revoked"}
    /\ sending' = sending \cup {x}
    /\ UNCHANGED <<status, drafts>>

\* It may arrive long after the sender has given up.
Arrive(x) ==
    /\ status[x] # "new"
    /\ drafts[x] = 0 /\ drafts' = [drafts EXCEPT ![x] = 1]
    /\ UNCHANGED <<status, sending>>

Settle(x) ==
    /\ x \in sending /\ sending \ {x} \subseteq sending' /\ sending' \subseteq sending
    /\ status' \in {status} \cup {[status EXCEPT ![x] = s] : s \in {"confirmed", "delivered", "delivery_failed"}}
    /\ status'[x] = "delivered" => drafts[x] = 1
    /\ UNCHANGED drafts

Revoke(x) ==
    /\ status[x] # "new" /\ status' = [status EXCEPT ![x] = "revoked"]
    /\ UNCHANGED <<sending, drafts>>

Next == \E x \in Contents : Confirm(x) \/ Resume(x) \/ Arrive(x) \/ Settle(x) \/ Revoke(x)

Spec == Init /\ [][Next]_lvars
=============================================================================
