------------------------------ MODULE Reception ------------------------------
(***************************************************************************)
(* One reception session: a visitor writes on the H5 page, an AI answers,  *)
(* staff assist, take over, give back and close.                           *)
(* Source: store/reception.go and httpapi/handlers_reception.go.           *)
(*                                                                         *)
(* Staff switches are transactions guarded by the epoch the client saw.    *)
(* A visitor message is one handler that makes many store calls and one    *)
(* call to the platform task service, so a switch can fall between any two *)
(* of its steps: each step is an action, and the row the handler read when *)
(* it started stays in  visitor[h].                                        *)
(*                                                                         *)
(* An operator marked MUTANT is no part of the model.  It is the operator  *)
(* below it with a plausible bug, kept to see a property catch that bug.   *)
(***************************************************************************)
EXTENDS Naturals, FiniteSets

CONSTANTS
    Members,       \* staff who may see the session
    TenantOwners,  \* those of them with role owner
    NoMember,      \* owner_member_id NULL
    Ids,           \* client_msg_id and client_reply_id: one name space
    Requests,      \* visitor requests served at the same time
    MaxDesk,       \* staff requests between their read and their write
    MaxBinds,      \* the same while all of them are about the lead
    Receipts,      \* receipt ids staff send with; "auto" is the handler's own
    MayFail,       \* whether a handler may stop between two store calls
    MaxEpoch       \* bound on mode switches (model checking only)

ASSUME MembersAssumption == TenantOwners \subseteq Members /\ NoMember \notin Members
ASSUME SwitchAssumption == MayFail \in BOOLEAN /\ MaxDesk \in Nat /\ MaxBinds \in Nat /\ MaxEpoch \in Nat

VARIABLES
    session,     \* the reception_sessions row
    messages,    \* reception_messages, by client_msg_id
    replies,     \* reception_replies, by client_msg_id
    receipts,    \* reception_receipts
    modelCalls,  \* reception_model_calls, by message
    usage,       \* reception_usage, by message
    events,      \* reception_events
    visitor,     \* visitor message handlers
    desk         \* staff handlers that have loaded the session

vars == <<session, messages, replies, receipts, modelCalls, usage, events, visitor, desk>>
rows == <<messages, receipts, modelCalls, usage>>

-----------------------------------------------------------------------------
Modes == {"ai", "assist", "human"}
Pending == {"", "clarify_or_handoff", "model_unavailable", "human_takeover", "awaiting_approval"}
Owner == Members \cup {NoMember}

\* lead is the member the lead was given to when it was bound to the session,
\* NoMember while lead_id is NULL.
SessionRow == [mode : Modes, owner : Owner, epoch : Nat, status : {"open", "closed"},
               pending : Pending, lead : Owner]

ReplyStatus == {"none", "generated", "approved", "sent", "superseded", "blocked"}
Kinds == {"ai", "draft", "human"}
ReplyRow == [status : ReplyStatus, kind : Kinds, epoch : Nat]

Event == [type : {"assist", "takeover", "release", "interruption"}, epoch : Nat]

\* A visitor handler: the id it serves, the epoch and mode it loaded, and,
\* once the model call is over, the composed answer and whether it is late.
Handler == [pc : {"idle", "receive", "interrupt", "answer", "insert", "model", "meter", "send", "touch"},
            id : Ids, epoch : Nat, mode : Modes,
            send : BOOLEAN, late : BOOLEAN, pending : Pending]

DeskCall == [op : {"reply", "draft"}, id : Ids, epoch : Nat] \cup [op : {"lead"}, assignee : Members]

TypeOK ==
    /\ session \in SessionRow
    /\ messages \subseteq Ids
    /\ replies \in [Ids -> ReplyRow]
    /\ receipts \subseteq Ids \X (Receipts \cup {"auto"})
    /\ modelCalls \subseteq Ids
    /\ usage \subseteq Ids
    /\ events \subseteq Event
    /\ visitor \in [Requests -> Handler]
    /\ desk \subseteq DeskCall

-----------------------------------------------------------------------------
Open == session.status = "open"
IdleHandler(i) == [pc |-> "idle", id |-> i, epoch |-> 0, mode |-> "ai",
                   send |-> FALSE, late |-> FALSE, pending |-> ""]

\* OpenReceptionSession: the widget's default mode, epoch 1, nobody holds it.
Init ==
    /\ session \in [mode : Modes, owner : {NoMember}, epoch : {1}, status : {"open"},
                    pending : {""}, lead : {NoMember}]
    /\ messages = {} /\ receipts = {} /\ modelCalls = {} /\ usage = {} /\ events = {}
    /\ replies = [i \in Ids |-> [status |-> "none", kind |-> "ai", epoch |-> 0]]
    /\ visitor \in [Requests -> {IdleHandler(i) : i \in Ids}]
    /\ desk = {}

-----------------------------------------------------------------------------
(* Staff switches.  e is the epoch the client sent; the UPDATE's WHERE      *)
(* compares it with the row, so a switch on a stale epoch changes nothing.  *)

\* supersedeUnsent: drafts and answers of earlier epochs can no longer go out.
supersedeUnsent(next) ==
    [i \in Ids |-> IF replies[i].epoch < next /\ replies[i].status \in {"generated", "approved", "blocked"}
                     THEN [replies[i] EXCEPT !.status = "superseded"] ELSE replies[i]]

\* MUTANT of Switch: the UPDATE without epoch=? in its WHERE.
SwitchAnyEpoch(e, type, mode, owner, pending) ==
    /\ Open /\ e < MaxEpoch
    /\ session' = [session EXCEPT !.mode = mode, !.owner = owner, !.epoch = @ + 1, !.pending = pending]
    /\ replies' = supersedeUnsent(e + 1)
    /\ events' = events \cup {[type |-> type, epoch |-> e + 1]}
    /\ UNCHANGED <<rows, visitor, desk>>

Switch(e, type, mode, owner, pending) ==
    /\ Open /\ e = session.epoch /\ e < MaxEpoch
    /\ session' = [session EXCEPT !.mode = mode, !.owner = owner, !.epoch = e + 1, !.pending = pending]
    /\ replies' = supersedeUnsent(e + 1)
    /\ events' = events \cup {[type |-> type, epoch |-> e + 1]}
    /\ UNCHANGED <<rows, visitor, desk>>

EnterAssist(e) ==
    /\ session.mode = "ai"
    /\ Switch(e, "assist", "assist", session.owner, "awaiting_approval")

\* MUTANT of TakeoverSession: the UPDATE without the owner in its WHERE.
TakeoverFromAnyone(m, e) == Switch(e, "takeover", "human", m, "human_takeover")

\* A member who already holds the session is answered unchanged.
TakeoverSession(m, e) ==
    /\ session.owner = NoMember \/ (session.owner = m /\ session.mode # "human")
    /\ Switch(e, "takeover", "human", m, "human_takeover")

ReleaseSessionToAI(m, e) ==
    /\ session.mode = "human"
    /\ session.owner = m \/ m \in TenantOwners
    /\ Switch(e, "release", "ai", NoMember, "")

CloseReceptionSession ==
    /\ Open
    /\ session' = [session EXCEPT !.status = "closed"]
    /\ UNCHANGED <<rows, replies, events, visitor, desk>>

-----------------------------------------------------------------------------
(* Replies on the desk.                                                     *)

ApproveReceptionReply(i) ==
    /\ replies[i].status = "generated"
    /\ Open /\ session.mode = "assist" /\ replies[i].epoch = session.epoch
    /\ replies' = [replies EXCEPT ![i].status = "approved"]
    /\ UNCHANGED <<session, rows, events, visitor, desk>>

SupersedeGeneratedReply(i) ==
    /\ replies[i].status = "generated" /\ replies[i].kind \in {"ai", "draft"}
    /\ replies' = [replies EXCEPT ![i].status = "superseded"]
    /\ UNCHANGED <<session, rows, events, visitor, desk>>

\* MUTANT of MaySend: the epoch is not compared with the session's.
ApprovedAndOpen(i) == replies[i].status = "approved" /\ Open
MaySend(i) == replies[i].status = "approved" /\ replies[i].epoch = session.epoch /\ Open

\* MUTANT of Sent: a reply that may not go out any more stays approved.
SentOrKept(i, receipt) ==
    /\ replies' = IF MaySend(i) THEN [replies EXCEPT ![i].status = "sent"] ELSE replies
    /\ receipts' = IF MaySend(i) \/ replies[i].status = "sent"
                     THEN receipts \cup {<<i, receipt>>} ELSE receipts

\* SendReceptionReply: an approved reply of the current epoch goes out once; an
\* approved reply that may not is blocked; a sent one only takes the receipt.
Sent(i, receipt) ==
    /\ replies' = IF MaySend(i) THEN [replies EXCEPT ![i].status = "sent"]
                  ELSE IF replies[i].status = "approved" THEN [replies EXCEPT ![i].status = "blocked"]
                  ELSE replies
    /\ receipts' = IF MaySend(i) \/ replies[i].status = "sent"
                     THEN receipts \cup {<<i, receipt>>} ELSE receipts

SendReceptionReply(i, receipt) ==
    /\ replies[i].status \in {"approved", "sent"}
    /\ Sent(i, receipt)
    /\ UNCHANGED <<session, messages, modelCalls, usage, events, visitor, desk>>

\* handleReceptionHumanReply and handleSessionReplyDraft load the session and
\* check that the caller may act on it, a reply only under a takeover and a
\* draft in any mode, before they insert with the epoch they loaded.
LoadForReply(m, i, op) ==
    /\ Open /\ (op = "reply" => session.mode = "human")
    /\ session.owner = m \/ m \in TenantOwners
    /\ Cardinality(desk) < MaxDesk
    /\ desk' = desk \cup {[op |-> op, id |-> i, epoch |-> session.epoch]}
    /\ UNCHANGED <<session, rows, replies, events, visitor>>

\* UNIQUE(session_id, client_msg_id): an id that is taken keeps its reply.
Stored(i, row) == IF replies[i].status = "none" THEN [replies EXCEPT ![i] = row] ELSE replies

\* The insert, already approved.
InsertHumanReply(k) ==
    /\ k.op = "reply"
    /\ replies' = Stored(k.id, [status |-> "approved", kind |-> "human", epoch |-> k.epoch])
    /\ desk' = desk \ {k}
    /\ UNCHANGED <<session, rows, events, visitor>>

\* The insert of a draft, which somebody has to approve.
InsertReplyDraft(k) ==
    /\ k.op = "draft"
    /\ replies' = Stored(k.id, [status |-> "generated", kind |-> "draft", epoch |-> k.epoch])
    /\ desk' = desk \ {k}
    /\ UNCHANGED <<session, rows, events, visitor>>

\* handleReceptionLead: the assignee is taken from the loaded session, then
\* AttachReceptionLead binds one lead in a transaction that looks again.
LoadForLead(m) ==
    /\ Cardinality(desk) < IF \A k \in desk : k.op = "lead" THEN MaxBinds ELSE MaxDesk
    /\ desk' = desk \cup {[op |-> "lead", assignee |-> IF session.owner # NoMember THEN session.owner ELSE m]}
    /\ UNCHANGED <<session, rows, replies, events, visitor>>

\* MUTANT of MayBind: the transaction does not look at the lead again.
BindAsLoaded == Open
MayBind == Open /\ session.lead = NoMember

AttachReceptionLead(k) ==
    /\ k.op = "lead"
    /\ session' = IF MayBind THEN [session EXCEPT !.lead = k.assignee] ELSE session
    /\ desk' = desk \ {k}
    /\ UNCHANGED <<rows, replies, events, visitor>>

-----------------------------------------------------------------------------
(* handlePublicMessage, step by step.                                       *)

At(h, pc) == visitor[h].pc = pc
Goto(h, pc) == visitor' = [visitor EXCEPT ![h].pc = pc]

LoadSession(h, i) ==
    /\ At(h, "idle") /\ Open
    /\ visitor' = [visitor EXCEPT ![h] = [IdleHandler(i) EXCEPT !.pc = "receive",
                     !.epoch = session.epoch, !.mode = session.mode]]
    /\ UNCHANGED <<session, rows, replies, events, desk>>

\* The lookup by client_msg_id and the insert behind its UNIQUE: a message
\* already stored is answered as a duplicate and nothing more happens.
ReceiveMessage(h) ==
    /\ At(h, "receive")
    /\ messages' = messages \cup {visitor[h].id}
    /\ Goto(h, IF visitor[h].id \in messages THEN "idle"
               ELSE IF visitor[h].mode = "human" THEN "interrupt" ELSE "answer")
    /\ UNCHANGED <<session, replies, receipts, modelCalls, usage, events, desk>>

RecordInterruption(h) ==
    /\ At(h, "interrupt")
    /\ events' = events \cup {[type |-> "interruption", epoch |-> visitor[h].epoch]}
    /\ visitor' = [visitor EXCEPT ![h].pc = "touch", ![h].pending = "human_takeover"]
    /\ UNCHANGED <<session, rows, replies, desk>>

\* MUTANT of Composed: a pending reason the session column's CHECK does not list.
ComposedUnlisted(mode) ==
    [send : {FALSE}, pending : {"needs_person"}]

\* reception.Compose on the loaded mode: a grounded answer is sent in AI mode
\* and awaits approval in assist mode; anything else asks for a person.
Composed(mode) ==
    {[send |-> mode = "ai", pending |-> IF mode = "ai" THEN "" ELSE "awaiting_approval"]}
      \cup [send : {FALSE}, pending : {"clarify_or_handoff", "model_unavailable"}]

\* The model call returns and the session is read again: late when the epoch,
\* the mode or the status is no longer what was loaded, or the read fails.
ModelReturns(h) ==
    /\ At(h, "answer")
    /\ \E out \in Composed(visitor[h].mode), unread \in {FALSE, MayFail} :
         visitor' = [visitor EXCEPT ![h] = [@ EXCEPT
             !.pc = "insert", !.send = out.send, !.pending = out.pending,
             !.late = unread \/ session.epoch # visitor[h].epoch \/ session.mode # visitor[h].mode \/ ~Open]]
    /\ UNCHANGED <<session, rows, replies, events, desk>>

\* MUTANT of Answer: the reply carries the epoch of the moment it is stored.
AnswerAsOfNow(v) ==
    [status |-> IF v.late THEN "blocked" ELSE IF v.send THEN "approved" ELSE "generated",
     kind |-> IF v.mode = "assist" THEN "draft" ELSE "ai", epoch |-> session.epoch]

\* MUTANT of Answer: a late answer is thrown away, not stored as blocked.
AnswerUnlessLate(v) ==
    [status |-> IF v.late THEN "none" ELSE IF v.send THEN "approved" ELSE "generated",
     kind |-> IF v.mode = "assist" THEN "draft" ELSE "ai", epoch |-> v.epoch]

Answer(v) ==
    [status |-> IF v.late THEN "blocked" ELSE IF v.send THEN "approved" ELSE "generated",
     kind |-> IF v.mode = "assist" THEN "draft" ELSE "ai", epoch |-> v.epoch]

\* MUTANT of AfterInsert: a reply id already taken is not noticed.
AlwaysMetered(i) == "model"

\* UNIQUE(session_id, client_msg_id): when the id is taken, by a reply of the
\* staff too, the request is answered as a duplicate and ends.
AfterInsert(i) == IF replies[i].status = "none" THEN "model" ELSE "idle"

InsertReply(h) ==
    LET v == visitor[h]
    IN  /\ At(h, "insert")
        /\ replies' = Stored(v.id, Answer(v))
        /\ Goto(h, AfterInsert(v.id))
        /\ UNCHANGED <<session, rows, events, desk>>

InsertReceptionModelCall(h) ==
    /\ At(h, "model")
    /\ modelCalls' = modelCalls \cup {visitor[h].id}
    /\ Goto(h, "meter")
    /\ UNCHANGED <<session, messages, replies, receipts, usage, events, desk>>

AfterMeter(v) == IF v.late THEN "idle" ELSE IF v.send THEN "send" ELSE "touch"

InsertReceptionUsage(h) ==
    /\ At(h, "meter")
    /\ usage' = usage \cup {visitor[h].id}
    /\ Goto(h, AfterMeter(visitor[h]))
    /\ UNCHANGED <<session, messages, replies, receipts, modelCalls, events, desk>>

AutoSend(h) ==
    /\ At(h, "send")
    /\ Sent(visitor[h].id, "auto")
    /\ Goto(h, "touch")
    /\ UNCHANGED <<session, messages, modelCalls, usage, events, desk>>

\* The last write of the handler sets the pending reason, whoever holds the
\* session by now.
TouchReceptionSession(h) ==
    /\ At(h, "touch")
    /\ session' = [session EXCEPT !.pending = visitor[h].pending]
    /\ Goto(h, "idle")
    /\ UNCHANGED <<rows, replies, events, desk>>

\* The handler goes on when these writes fail: the event, the metering and the
\* delivery of an answer, which then stays approved.
IgnoreError(h) ==
    /\ MayFail
    /\ \/ At(h, "interrupt") /\ visitor' = [visitor EXCEPT ![h].pc = "touch", ![h].pending = "human_takeover"]
       \/ At(h, "meter") /\ Goto(h, AfterMeter(visitor[h]))
       \/ At(h, "send") /\ Goto(h, "touch")
    /\ UNCHANGED <<session, rows, replies, events, desk>>

\* A store call fails or the process stops: the rest of the handler is lost,
\* and a repeat of the message is answered as a duplicate.
Abandon(h) ==
    /\ MayFail /\ ~At(h, "idle")
    /\ Goto(h, "idle")
    /\ UNCHANGED <<session, rows, replies, events, desk>>

-----------------------------------------------------------------------------
VisitorStep(h) ==
    \/ ReceiveMessage(h) \/ RecordInterruption(h) \/ ModelReturns(h) \/ InsertReply(h)
    \/ InsertReceptionModelCall(h) \/ InsertReceptionUsage(h) \/ AutoSend(h)
    \/ TouchReceptionSession(h)

DeskStep(k) == InsertHumanReply(k) \/ InsertReplyDraft(k) \/ AttachReceptionLead(k)

Next ==
    \/ \E e \in 1..session.epoch : EnterAssist(e)
    \/ \E m \in Members, e \in 1..session.epoch : TakeoverSession(m, e)
    \/ \E m \in Members, e \in 1..session.epoch : ReleaseSessionToAI(m, e)
    \/ CloseReceptionSession
    \/ \E i \in Ids : ApproveReceptionReply(i)
    \/ \E i \in Ids : SupersedeGeneratedReply(i)
    \/ \E i \in Ids, r \in Receipts : SendReceptionReply(i, r)
    \/ \E m \in Members, i \in Ids, op \in {"reply", "draft"} : LoadForReply(m, i, op)
    \/ \E m \in Members : LoadForLead(m)
    \/ \E k \in desk : DeskStep(k)
    \/ \E h \in Requests, i \in Ids : LoadSession(h, i)
    \/ \E h \in Requests : VisitorStep(h)
    \/ \E h \in Requests : IgnoreError(h) \/ Abandon(h)

Spec == Init /\ [][Next]_vars

\* A handler that has begun runs on: the server's goroutine is scheduled and
\* the store and the task service answer (their clients have time limits).
FairSpec == Spec /\ \A h \in Requests : WF_vars(VisitorStep(h))
-----------------------------------------------------------------------------
(* Safety.                                                                  *)

\* The kind of every reply of the current epoch is the one the current mode
\* produces, even for handlers that loaded the session several switches ago;
\* a draft, which staff may save in any mode, from its approval on.  So the
\* epoch alone fences machine text from a person's turn, which is all that
\* SendReceptionReply and MayDeliver look at (reception/engine.go:99-104).
ProducedBy(kind) == CASE kind = "ai" -> "ai" [] kind = "draft" -> "assist" [] kind = "human" -> "human"
Unapproved(i) == replies[i].kind = "draft" /\ replies[i].status \notin {"approved", "sent"}
EpochFencesKinds ==
    \A i \in Ids : replies[i].status # "none" =>
        /\ replies[i].epoch <= session.epoch
        /\ replies[i].epoch = session.epoch /\ ~Unapproved(i) =>
               ProducedBy(replies[i].kind) = session.mode

\* The session is a Conversation: whatever handlers and staff do, a reply is
\* delivered in an open session, in the round whose party made it, once, and
\* is never withdrawn; no AI answer or draft under a takeover, no human reply
\* after the release (2026-09-29-hui-1688-design.md, steps 4 and 6).
Said == {[id |-> i, by |-> ProducedBy(replies[i].kind), round |-> replies[i].epoch] :
           i \in {j \in Ids : replies[j].status = "sent"}}
Turns == INSTANCE Conversation WITH
           open <- Open, turn <- session.mode, round <- session.epoch, said <- Said
ImplementsConversation == Turns!Spec

\* The audit accounts for every epoch: each one after the first was begun by
\* exactly one recorded switch, and the newest switch is the current mode.
SwitchesAudited ==
    LET switches == {e \in events : e.type # "interruption"}
        result == [assist |-> "assist", takeover |-> "human", release |-> "ai"]
    IN  /\ {e.epoch : e \in switches} = 2..session.epoch
        /\ \A e, f \in switches : e.epoch = f.epoch => e = f
        /\ \A e \in switches : e.epoch = session.epoch => session.mode = result[e.type]

\* Metering follows answering: a message is charged only after its model call
\* was recorded and its reply stored, and a receipt exists only for a sent
\* reply, in whatever order retries and failures come.
MeteredAfterReply ==
    /\ usage \subseteq modelCalls
    /\ modelCalls \subseteq {i \in messages : replies[i].kind # "human" /\ replies[i].status # "none"}
    /\ \A r \in receipts : replies[r[1]].status = "sent"

\* Nobody takes a session from the member who holds it: the holder changes
\* only through nobody, that is through an explicit release.
HolderIsNeverReplaced ==
    [][session.owner # NoMember => session'.owner \in {session.owner, NoMember}]_vars

\* One lead per session, bound while it is open, and never re-assigned by a
\* second staff member who loaded the session before the first one finished.
LeadBoundOnce ==
    [][session.lead # session'.lead => session.lead = NoMember /\ Open]_vars

\* A closed session takes no visitor message and no human reply
\* (2026-09-29-hui-1688-design.md, step 7).
ClosedTakesNothing ==
    [][~Open => messages' = messages
               /\ \A i \in Ids : replies[i].status = "none" => replies'[i].kind # "human"]_vars

-----------------------------------------------------------------------------
(* Liveness, when no handler fails.                                         *)

\* A message taken for an AI or assist answer gets a reply row, whatever the
\* staff do meanwhile: possibly blocked, never silently missing.
EveryQuestionAnswered ==
    \A h \in Requests, i \in Ids :
        (At(h, "answer") /\ visitor[h].id = i) ~> (replies[i].status # "none")

\* An AI answer does not stay approved and unsent: it goes out or is stopped.
NoAnswerLeftHanging ==
    \A i \in Ids : (replies[i].status = "approved" /\ replies[i].kind = "ai")
                     ~> (replies[i].status \in {"sent", "blocked", "superseded"})
=============================================================================
