------------------------------- MODULE Outreach -------------------------------
(***************************************************************************)
(* Reaching out to contacts: messages (SopReach), calls (Outbound), which  *)
(* share consents, the session and the message desk's stops, the test      *)
(* scheduler (ReachSandbox) and the drafts written for it (LightCopy).     *)
(* began says what was known when a request began; it is history, no step  *)
(* depends on it.                                                          *)
(***************************************************************************)
EXTENDS Outbound, ReachSandbox, LightCopy

VARIABLE began   \* caller -> whether its contact was stopped, rows of actions then

vars == <<requestVars, contextVars, sopVars, outboundVars, sandboxVars, lightVars, began>>

Init ==
    /\ Quiet /\ ContextInit /\ SopInit /\ OutboundInit /\ SandboxInit /\ LightInit
    /\ began = [c \in Callers |-> [stopped |-> FALSE, rows |-> 0]]

\* A stop answered with 201, a revocation, a cancelled or transferred task: what
\* whoever asked for it was told is in force.
StoppedMessage(m) ==
    \/ \E stop \in sopStops : stop.global \/ (Names(stop, m.contact) /\ Limits(stop, m.channel, m.purpose))
    \/ m.consent \in revoked
StoppedCall(key, offer) ==
    \/ \E stop \in callStops : stop.global \/ Names(stop, offer.contact)
    \/ \E stop \in sopStops : Names(stop, offer.contact) /\ Limits(stop, "voice", "marketing")
    \/ offer.consent \in revoked
    \/ tasks[key].state \in {"cancelled", "transferred"}

Stopped(call) ==
    CASE call.op = "sop_begun" -> StoppedMessage(call.message)
      [] call.op \in {"dial", "auto", "retry", "receipt"} -> StoppedCall(call.key, call.offer)
      [] OTHER -> FALSE

Remember ==
    began' = [c \in Callers |->
        IF calls[c] = Idle /\ calls'[c] # Idle
        THEN [stopped |-> Stopped(calls'[c]), rows |-> Len(actions)]
        ELSE began[c]]

Desk ==
    \/ SopNext /\ UNCHANGED outboundVars
    \/ OutboundNext
    \/ ContextNext /\ UNCHANGED <<sopVars, outboundVars>>
    \/ \E c \in Callers : Abandon(c) /\ UNCHANGED <<contextVars, sopVars, outboundVars>>

Next ==
    /\ \/ Desk /\ UNCHANGED <<sandboxVars, lightVars>>
       \/ SandboxNext /\ UNCHANGED <<contextVars, sopVars, outboundVars, lightVars>>
       \/ LightNext /\ UNCHANGED <<contextVars, sopVars, outboundVars, sandboxVars>>
    /\ Remember

Spec == Init /\ [][Next]_vars

-----------------------------------------------------------------------------
Calling(task) ==
    IF task = NoTask THEN {}
    ELSE {i \in DOMAIN task.receipts : task.receipts[i].kind \in Reported /\ ~task.receipts[i].blocked}

\* PROPERTY (StoppedMeansStopped): once a stop has been answered, a consent
\* revoked or a task ended, no request that begins later submits a message,
\* dials or books a report as a call, though policies are saved by requests that
\* read them before the stop, and whatever contact a global stop named.
StoppedMeansStopped ==
    [][\A c \in Callers : calls'[c] # calls[c] /\ calls[c] # Idle /\ began[c].stopped =>
        /\ Pending(actions') = Pending(actions)
        /\ \A key \in Keys : Calling(tasks'[key]) = Calling(tasks[key])]_vars

\* PROPERTY (SubmissionsLimited): to a contact, by one channel and for one
\* purpose, a draft is submitted only when no other was that day, unless in its
\* first second (such a submission is never counted), and a draft retried only
\* while it was submitted once or never, except by requests under way together.
\* (A draft may be confirmed again and again.)
SubmissionsLimited ==
    [][\A c \in Callers : At(c, "sop_decided") /\ calls'[c] = Idle /\ Pending(actions') # Pending(actions) =>
        LET earlier == SubSeq(actions, 1, began[c].rows)
            call == calls[c]
        IN  /\ \A i \in Pending(earlier) :
                 Alike(earlier[i].message, call.message) /\ earlier[i].parent # call.parent /\ earlier[i].day = Today
                 => earlier[i].first
            /\ call.how = "retry" => Cardinality({i \in Pending(earlier) : earlier[i].parent = call.parent}) <= 1]_vars

\* PROPERTY (RedialedOnEvidence): a task is dialled again only when a report said
\* that an earlier attempt was heard of; a report that was refused is none.
RedialedOnEvidence ==
    [][\A c \in Callers : Phase(c, "decided") /\ calls[c].op = "retry" /\ calls'[c] = Idle =>
        LET task == tasks[calls[c].key] IN
        Calling(tasks'[calls[c].key]) # Calling(task) =>
            \E i \in Calling(task) : task.receipts[i].kind = "ringing"]_vars
=============================================================================
