------------------------------- MODULE SopReach -------------------------------
(***************************************************************************)
(* Follow-up by message: reminders and drafts, their confirmation and      *)
(* retry by a member, unattended submission, stops and the policy of the   *)
(* tenant.  Nothing is delivered; a submission is a row that waits.        *)
(* A submission reads in two goes, the policy, consent and session, then   *)
(* the stops and the counts, and stores its rows last.                     *)
(* Source: sopreach/decide.go, store/sop_reach.go, httpapi/handlers_sop.go.*)
(***************************************************************************)
EXTENDS ReachContext, FiniteSets

CONSTANTS
    Messages,    \* what reminders, drafts and automatic messages are about
    Scopes,      \* channel and purpose a stop is limited to
    Windows,     \* windows a policy may set
    Everyone,    \* no contact: a stop for all
    Unlimited          \* no channel, no purpose: a stop without limits

ASSUME SopAssumption ==
    /\ Messages \subseteq [contact : Contacts, channel : {"sms", "email", "wecom"},
           purpose : {"follow_up", "marketing"}, consent : Consents \cup {NoConsent}, session : BOOLEAN]
    /\ \A m \in Messages : m.consent # NoConsent => m.consent.contact = m.contact
    /\ Everyone \notin Contacts /\ Windows \subseteq Window

VARIABLES
    sopPolicy,   \* level, window and global stop; saved once there is a row
    sopStops,    \* sop_stops
    actions      \* sop_actions, in the order they were stored

sopVars == <<sopPolicy, sopStops, actions>>

Levels == {"remind_draft_confirm", "unattended"}

\* The row of a message; parent is the draft's place in actions, 0 for none.
Row(kind, status, message, parent) ==
    [kind |-> kind, status |-> status, message |-> message, parent |-> parent,
     day |-> Today, first |-> FirstSecond]

SopInit ==
    /\ sopPolicy = [saved |-> FALSE, level |-> "remind_draft_confirm", stop |-> FALSE, window |-> DefaultWindow]
    /\ sopStops = {} /\ actions = <<>>

-----------------------------------------------------------------------------
(* The policy and the stops.                                               *)

\* SaveSOPPolicy reads the row for its global stop ...
PostPolicy(c, level, window) ==
    /\ Valid(window)
    /\ Start(c, [op |-> "sop_policy", level |-> level, window |-> window, stop |-> sopPolicy.stop])
    /\ UNCHANGED <<sopVars, contextVars>>

\* MUTANT of StopKept: writes the flag back as it was read.
StopAsRead(call) == call.stop

\* ... and keeps the one in the table, unless there is no row yet.
StopKept(call) == IF sopPolicy.saved THEN sopPolicy.stop ELSE call.stop

SaveSOPPolicy(c) ==
    /\ At(c, "sop_policy") /\ Finish(c)
    /\ sopPolicy' = [saved |-> TRUE, level |-> calls[c].level, stop |-> StopKept(calls[c]), window |-> calls[c].window]
    /\ UNCHANGED <<sopStops, actions, contextVars>>

\* unsubscribe, customer_stop and reject stop alike.
AddSOPStop(contact, scope) ==
    /\ AtOnce
    /\ sopStops' = sopStops \cup {[global |-> FALSE, contact |-> contact, scope |-> scope]}
    /\ UNCHANGED <<sopPolicy, actions, contextVars>>

\* A global stop sets the flag, then stores a row with the contact and the
\* scope the request happened to name.
SetSOPGlobalStop(c, contact, scope) ==
    /\ Start(c, [op |-> "sop_stop", contact |-> contact, scope |-> scope])
    /\ sopPolicy' = [sopPolicy EXCEPT !.saved = TRUE, !.stop = TRUE]
    /\ UNCHANGED <<sopStops, actions, contextVars>>

AddSOPGlobalStop(c) ==
    /\ At(c, "sop_stop") /\ Finish(c)
    /\ sopStops' = sopStops \cup {[global |-> TRUE, contact |-> calls[c].contact, scope |-> calls[c].scope]}
    /\ UNCHANGED <<sopPolicy, actions, contextVars>>

\* ListSOPStops, and the limits of each.
Names(stop, contact) == stop.contact \in {Everyone, contact}
Limits(stop, channel, purpose) == stop.scope.channel \in {Unlimited, channel} /\ stop.scope.purpose \in {Unlimited, purpose}
SopStopped(m) ==
    \E stop \in sopStops : Names(stop, m.contact) /\ (stop.global \/ Limits(stop, m.channel, m.purpose))

-----------------------------------------------------------------------------
(* Messages.                                                               *)

\* A reminder, a draft or a noted reply: recorded without a gate.
CreateRecord(kind, m) ==
    /\ AtOnce
    /\ actions' = Append(actions, Row(kind, "recorded", m, 0))
    /\ UNCHANGED <<sopPolicy, sopStops, contextVars>>

\* sopreach.consentCovers
ConsentCovers(m) ==
    /\ Good(m.consent) /\ m.consent.purpose = m.purpose /\ m.consent.channel = m.channel
    /\ m.purpose = "marketing" => m.consent.marketing

Pending(rows) == {i \in DOMAIN rows : rows[i].kind = "channel_submission" /\ rows[i].status = "pending_send"}
Alike(m, n) == m.contact = n.contact /\ m.channel = n.channel /\ m.purpose = n.purpose

\* MUTANT of StoredSince: the comparison is turned round.
StoredBefore(row, day) == row.day < day

\* created_at >= since compares text: of the day, what was stored in its first
\* second is left out.
StoredSince(row, day) == row.day = day /\ ~row.first

\* CountSOPSubmissions: of another parent, to the same contact, since midnight.
Others(rows, m, parent, day) ==
    {i \in Pending(rows) : Alike(rows[i].message, m) /\ rows[i].parent # parent /\ StoredSince(rows[i], day)}

\* MUTANT of Attempts: blocked submissions only.
AttemptsBlocked(rows, parent) == {i \in DOMAIN rows : rows[i].status = "blocked" /\ rows[i].parent = parent}

\* CountSOPAttempts
Attempts(rows, parent) == {i \in Pending(rows) : rows[i].parent = parent}

MaxAttempts == 1

\* Confirm and retry act on a draft, an automatic submission may.
BeginSubmit(c, how, m, parent, reconciled) ==
    /\ how = "auto" => sopPolicy.level = "unattended" /\ ~(m.session /\ held)
    /\ Start(c, [op |-> "sop_begun", how |-> how, message |-> m, parent |-> parent, reconciled |-> reconciled,
                 clear |-> ~sopPolicy.stop /\ InsideWindow(sopPolicy.window) /\ ConsentCovers(m)])
    /\ UNCHANGED <<sopVars, contextVars>>

BeginOnDraft(c, how, parent, reconciled) ==
    /\ actions[parent].kind = "pending_draft"
    /\ BeginSubmit(c, how, actions[parent].message, parent, reconciled)

\* The rest of the gate.
Cleared(call) ==
    /\ call.clear /\ ~SopStopped(call.message)
    /\ Others(actions, call.message, call.parent, Today) = {}
    /\ call.how = "retry" => call.reconciled /\ Cardinality(Attempts(actions, call.parent)) <= MaxAttempts

ReadSubmit(c) ==
    /\ At(c, "sop_begun")
    /\ Proceed(c, [op |-> "sop_decided", message |-> calls[c].message, parent |-> calls[c].parent,
                   how |-> calls[c].how, clear |-> Cleared(calls[c])])
    /\ UNCHANGED <<sopVars, contextVars>>

Submission(call) ==
    LET row(kind, status) == Row(kind, status, call.message, call.parent)
    IN  IF call.clear
        THEN <<row("channel_submission", "pending_send"), row("channel_delivery", "undelivered")>>
        ELSE <<row("channel_submission", "blocked")>>

InsertSOPActions(c) ==
    /\ At(c, "sop_decided") /\ Finish(c)
    /\ actions' = actions \o Submission(calls[c])
    /\ UNCHANGED <<sopPolicy, sopStops, contextVars>>

SopNext ==
    \/ \E c \in Callers :
        \/ SaveSOPPolicy(c) \/ AddSOPGlobalStop(c) \/ ReadSubmit(c) \/ InsertSOPActions(c)
        \/ /\ Free(c)
           /\ \/ \E level \in Levels, window \in Windows : PostPolicy(c, level, window)
              \/ \E contact \in Contacts \cup {Everyone}, scope \in Scopes : SetSOPGlobalStop(c, contact, scope)
              \/ \E parent \in DOMAIN actions :
                  \/ BeginOnDraft(c, "confirm", parent, TRUE)
                  \/ \E reconciled \in BOOLEAN : BeginOnDraft(c, "retry", parent, reconciled)
              \/ \E m \in Messages, parent \in {0} \cup DOMAIN actions :
                  /\ parent # 0 => actions[parent].message.contact = m.contact
                  /\ BeginSubmit(c, "auto", m, parent, TRUE)
    \/ /\ Room
       /\ \/ \E contact \in Contacts, scope \in Scopes : AddSOPStop(contact, scope)
          \/ \E kind \in {"internal_reminder", "pending_draft", "user_reply"}, m \in Messages : CreateRecord(kind, m)
=============================================================================
