----------------------------- MODULE ReachSandbox -----------------------------
(***************************************************************************)
(* The test scheduler for messages: reminder, draft, confirmation by an    *)
(* authorised test role, or an automatic action queued and released.  A    *)
(* mutex is held over every call, the post to the fixture included, so     *)
(* each is one action; the answer of a post may be lost.                   *)
(* Source: sopreach/sandbox.go.                                            *)
(***************************************************************************)
EXTENDS Requests, Sequences

CONSTANTS
    Subjects,    \* what an action is about: tenant, contact, campaign, channel, text
    Callbacks    \* ids of callbacks

VARIABLES
    automatic,   \* automatic sending is switched on
    issued,      \* ids given out
    reminders,   \* id -> subject
    drafts,      \* id -> subject, whether attempted, whether answered
    queued,      \* the same of automatic actions, with what stopped them
    posted,      \* the drafts and actions the fixture got a message of, in order
    messages,    \* ids of messages whose post was answered
    answered     \* callback id -> whether it found its message

sandboxVars == <<automatic, issued, reminders, drafts, queued, posted, messages, answered>>

\* Refusals at release: stickyStop keeps some for good.  The others of each
\* sort are refused alike.
Sticky == "unsubscribed"
Passing == "global_stop"
Clear == "none"

Unsent(subject) == [subject |-> subject, attempted |-> FALSE, accepted |-> FALSE, stopped |-> FALSE]
With(f, id, x) == [i \in DOMAIN f \cup {id} |-> IF i = id THEN x ELSE f[i]]
Nothing == [i \in {} |-> FALSE]

SandboxInit ==
    /\ automatic = FALSE /\ issued = 0 /\ posted = <<>> /\ messages = {}
    /\ reminders = Nothing /\ drafts = Nothing /\ queued = Nothing /\ answered = Nothing

-----------------------------------------------------------------------------
AllowAutomatic(on) ==
    /\ AtOnce /\ automatic' = on
    /\ UNCHANGED <<issued, reminders, drafts, queued, posted, messages, answered>>

Remind(subject) ==
    /\ AtOnce /\ issued' = issued + 1
    /\ reminders' = With(reminders, issued + 1, subject)
    /\ UNCHANGED <<automatic, drafts, queued, posted, messages, answered>>

\* sameAction: a draft is about its reminder's subject.
Draft(reminder, subject) ==
    /\ AtOnce /\ issued' = issued + 1
    /\ reminder \in DOMAIN reminders /\ reminders[reminder] = subject
    /\ drafts' = With(drafts, issued + 1, Unsent(subject))
    /\ UNCHANGED <<automatic, reminders, queued, posted, messages, answered>>

\* MUTANT of Attempt: a post without an answer may be tried again.
AttemptIfAnswered(entry, answer) == [entry EXCEPT !.attempted = answer, !.accepted = answer]

\* submit: attempted is marked first and stays whatever the post comes to.
Attempt(entry, answer) == [entry EXCEPT !.attempted = TRUE, !.accepted = answer]

\* The fixture may get the message and the answer be lost, or refused.
Post(id, received, answer) ==
    /\ answer => received
    /\ issued' = issued + 1
    /\ posted' = IF received THEN Append(posted, id) ELSE posted
    /\ messages' = IF answer THEN messages \cup {issued + 1} ELSE messages

\* An attempted draft is answered with its result and posts nothing.
Confirm(id, subject, received, answer) ==
    /\ AtOnce
    /\ id \in DOMAIN drafts /\ drafts[id].subject = subject /\ ~drafts[id].attempted
    /\ Post(id, received, answer)
    /\ drafts' = [drafts EXCEPT ![id] = Attempt(@, answer)]
    /\ UNCHANGED <<automatic, reminders, queued, answered>>

QueueAutomatic(subject) ==
    /\ AtOnce /\ automatic /\ issued' = issued + 1
    /\ queued' = With(queued, issued + 1, Unsent(subject))
    /\ UNCHANGED <<automatic, reminders, drafts, posted, messages, answered>>

\* Release looks again: switched off, or a sticky refusal, stops for good.
Waiting(id) == id \in DOMAIN queued /\ ~queued[id].stopped /\ ~queued[id].attempted

Stopping(id, refusal) ==
    /\ AtOnce /\ Waiting(id) /\ (~automatic \/ refusal = Sticky)
    /\ queued' = [queued EXCEPT ![id].stopped = TRUE]
    /\ UNCHANGED <<automatic, issued, reminders, drafts, posted, messages, answered>>

Release(id, refusal, received, answer) ==
    /\ AtOnce /\ Waiting(id) /\ automatic /\ refusal = Clear
    /\ Post(id, received, answer)
    /\ queued' = [queued EXCEPT ![id] = Attempt(@, answer)]
    /\ UNCHANGED <<automatic, reminders, drafts, answered>>

\* rememberCallback: the first answer to a callback id is kept.
Callback(callback, message) ==
    /\ AtOnce /\ callback \notin DOMAIN answered
    /\ answered' = With(answered, callback, message \in messages)
    /\ UNCHANGED <<automatic, issued, reminders, drafts, queued, posted, messages>>

SandboxNext ==
    /\ Room
    /\ \/ \E on \in BOOLEAN : on # automatic /\ AllowAutomatic(on)
       \/ \E subject \in Subjects :
           \/ Remind(subject) \/ QueueAutomatic(subject)
           \/ \E id \in 1..issued : Draft(id, subject)
           \/ \E id \in 1..issued, received, answer \in BOOLEAN : Confirm(id, subject, received, answer)
       \/ \E id \in 1..issued, refusal \in {Clear, Sticky, Passing} :
           \/ Stopping(id, refusal)
           \/ \E received, answer \in BOOLEAN : Release(id, refusal, received, answer)
       \/ \E callback \in Callbacks, message \in 1..issued : Callback(callback, message)

-----------------------------------------------------------------------------
\* PROPERTY (PostedOnce): whatever answers get lost, a draft or an action
\* reaches the fixture at most once, and one that was stopped never does, even
\* after its reason is gone.
PostedOnce ==
    /\ \A i, j \in DOMAIN posted : posted[i] = posted[j] => i = j
    /\ \A id \in DOMAIN queued : queued[id].stopped => \A i \in DOMAIN posted : posted[i] # id
=============================================================================
