------------------------------- MODULE Outbound -------------------------------
(***************************************************************************)
(* Calls: a task per key, its attempts and what is reported about them.    *)
(* There is no real line: production dials are refused, isolation dials    *)
(* are recorded as simulated, automatic dialling is closed.  The gate is   *)
(* read in two goes, policy, consent and session first, then the task and  *)
(* the stops, of this module and of SopReach.                              *)
(* Source: outbound/decide.go, store/outbound.go,                          *)
(* httpapi/handlers_outbound.go.                                           *)
(***************************************************************************)
EXTENDS SopReach

CONSTANTS
    Keys,        \* task keys
    Offers       \* tasks that may be asked for

ASSUME OutboundAssumption ==
    Offers \subseteq [op : {"dial", "auto"}, contact : Contacts, consent : Consents \cup {NoConsent},
                      mode : {"production", "isolation"}, session : BOOLEAN, budget : BOOLEAN]

VARIABLES
    callPolicy,  \* window and global stop; saved once there is a row
    callStops,   \* outbound_stops
    tasks        \* outbound_tasks by key: state, offer and its receipts, in order

outboundVars == <<callPolicy, callStops, tasks>>

NoTask == [state |-> "none"]

\* Ringing, connected, completed and intent are evidence alike: "ringing".
Reported == {"dial_submission", "ringing"}

Fact(kind, blocked) == [kind |-> kind, blocked |-> blocked]
Stored(key) == tasks[key] # NoTask

OutboundInit ==
    /\ callPolicy = [saved |-> FALSE, stop |-> FALSE, window |-> DefaultWindow]
    /\ callStops = {} /\ tasks = [key \in Keys |-> NoTask]

-----------------------------------------------------------------------------
(* The policy and the stops.                                               *)

\* handleOutboundPolicy reads the global stop, SaveOutboundPolicy uses it only
\* for a row that is not there yet.
PostCallPolicy(c, window) ==
    /\ Valid(window)
    /\ Start(c, [op |-> "call_policy", window |-> window, stop |-> callPolicy.stop])
    /\ UNCHANGED <<outboundVars, sopVars, contextVars>>

SaveOutboundPolicy(c) ==
    /\ At(c, "call_policy") /\ Finish(c)
    /\ callPolicy' = [saved |-> TRUE, window |-> calls[c].window,
                      stop |-> IF callPolicy.saved THEN callPolicy.stop ELSE calls[c].stop]
    /\ UNCHANGED <<callStops, tasks, sopVars, contextVars>>

\* unsubscribe, suppression and reject stop alike.
AddOutboundStop(contact) ==
    /\ AtOnce
    /\ callStops' = callStops \cup {[global |-> FALSE, contact |-> contact]}
    /\ UNCHANGED <<callPolicy, tasks, sopVars, contextVars>>

SetOutboundGlobalStop(c, contact) ==
    /\ Start(c, [op |-> "call_stop", contact |-> contact])
    /\ callPolicy' = [callPolicy EXCEPT !.saved = TRUE, !.stop = TRUE]
    /\ UNCHANGED <<callStops, tasks, sopVars, contextVars>>

AddOutboundGlobalStop(c) ==
    /\ At(c, "call_stop") /\ Finish(c)
    /\ callStops' = callStops \cup {[global |-> TRUE, contact |-> calls[c].contact]}
    /\ UNCHANGED <<callPolicy, tasks, sopVars, contextVars>>

\* The stops applied to a call: this module's, and of SopReach's those whose
\* limits admit marketing by voice, a global one included.
CallStopped(contact) ==
    \/ \E stop \in callStops : Names(stop, contact)
    \/ \E stop \in sopStops : Names(stop, contact) /\ Limits(stop, "voice", "marketing")

-----------------------------------------------------------------------------
(* The gate.                                                               *)

VoiceConsent(consent) ==
    Good(consent) /\ consent.marketing /\ consent.purpose = "marketing" /\ consent.channel = "voice"

\* What the first reads say of an offer.
Allowed(offer) ==
    /\ ~callPolicy.stop /\ InsideWindow(callPolicy.window)
    /\ VoiceConsent(offer.consent) /\ ~(offer.session /\ held) /\ offer.budget

\* MUTANT of OutboundReconciled: a refused report counts as evidence.
ReconciledByAny(receipts) == \E i \in DOMAIN receipts : receipts[i].kind = "ringing"

\* outboundReconciled: some report that is not blocked.
OutboundReconciled(receipts) ==
    \E i \in DOMAIN receipts : receipts[i].kind = "ringing" /\ ~receipts[i].blocked

\* decideDial and decideReceipt with the reads that follow.  An answer is
\* never pending in the process: the original was always looked up.
Decided(call) ==
    LET task == tasks[call.key] IN
    /\ call.clear /\ ~CallStopped(call.offer.contact)
    /\ task.state \notin {"cancelled", "transferred"}
    /\ call.op # "receipt" => call.offer.mode = "isolation"
    /\ call.op = "retry" => OutboundReconciled(task.receipts)
    /\ call.op # "auto"

Begin(c, op, key, offer, kind) ==
    /\ Start(c, [phase |-> "begun", op |-> op, key |-> key, offer |-> offer, kind |-> kind, clear |-> Allowed(offer)])
    /\ UNCHANGED <<outboundVars, sopVars, contextVars>>

Phase(c, phase) == calls[c].op \in {"dial", "auto", "retry", "receipt"} /\ calls[c].phase = phase

Snapshot(c) ==
    /\ Phase(c, "begun")
    /\ Proceed(c, [calls[c] EXCEPT !.phase = "decided", !.clear = Decided(calls[c])])
    /\ UNCHANGED <<outboundVars, sopVars, contextVars>>

-----------------------------------------------------------------------------
(* Requests.                                                               *)

\* A known key is answered with its task.
PostTask(c, key, offer) == ~Stored(key) /\ Begin(c, offer.op, key, offer, "dial_submission")

\* A refused task is stored too, without a receipt.
InsertOutboundAttempt(c) ==
    /\ Phase(c, "decided") /\ calls[c].op \in {"dial", "auto"} /\ Finish(c)
    /\ LET call == calls[c]
           task == [state |-> IF call.clear THEN "open" ELSE "blocked", offer |-> call.offer,
                    receipts |-> IF call.clear THEN <<Fact("dial_submission", FALSE)>> ELSE <<>>]
       IN  tasks' = IF Stored(call.key) THEN tasks ELSE [tasks EXCEPT ![call.key] = task]
    /\ UNCHANGED <<callPolicy, callStops, sopVars, contextVars>>

PostRetry(c, key) == Stored(key) /\ Begin(c, "retry", key, tasks[key].offer, "dial_submission")

PostReceipt(c, key, kind) == Stored(key) /\ Begin(c, "receipt", key, tasks[key].offer, kind)

\* A refused report is kept as blocked, of a refused retry nothing is.
Facts(call) ==
    IF call.clear THEN <<Fact(call.kind, FALSE)>>
    ELSE IF call.op = "receipt" THEN <<Fact(call.kind, TRUE)>> ELSE <<>>

AppendOutboundFacts(c) ==
    /\ Phase(c, "decided") /\ calls[c].op \in {"retry", "receipt"} /\ Finish(c)
    /\ tasks' = [tasks EXCEPT ![calls[c].key].receipts = @ \o Facts(calls[c])]
    /\ UNCHANGED <<callPolicy, callStops, sopVars, contextVars>>

\* Cancelling and transferring are always allowed, whatever was read, and each
\* overwrites the other.
EndTask(key, state, kind) ==
    /\ AtOnce /\ Stored(key)
    /\ tasks' = [tasks EXCEPT ![key].state = state, ![key].receipts = Append(@, Fact(kind, FALSE))]
    /\ UNCHANGED <<callPolicy, callStops, sopVars, contextVars>>

CancelTask(key) == EndTask(key, "cancelled", "cancel")
TransferTask(key) == EndTask(key, "transferred", "human_transfer")

OutboundNext ==
    \/ \E c \in Callers :
        \/ SaveOutboundPolicy(c) \/ AddOutboundGlobalStop(c)
        \/ Snapshot(c) \/ InsertOutboundAttempt(c) \/ AppendOutboundFacts(c)
        \/ /\ Free(c)
           /\ \/ \E window \in Windows : PostCallPolicy(c, window)
              \/ \E contact \in Contacts \cup {Everyone} : SetOutboundGlobalStop(c, contact)
              \/ \E key \in Keys :
                  \/ \E offer \in Offers : PostTask(c, key, offer)
                  \/ PostRetry(c, key)
                  \/ \E kind \in Reported : PostReceipt(c, key, kind)
    \/ Room /\ \E contact \in Contacts : AddOutboundStop(contact)
    \/ Room /\ \E key \in Keys : CancelTask(key) \/ TransferTask(key)
=============================================================================
