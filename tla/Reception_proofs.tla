-------------------------- MODULE Reception_proofs --------------------------
(***************************************************************************)
(* Theorems about Reception, for any number of members, messages, staff    *)
(* and visitor requests, and for handlers that may or may not fail.        *)
(***************************************************************************)
EXTENDS Reception, TLAPS

\* The row a new session starts with is a session row.
LEMMA NewSession ==
    ASSUME NEW mode \in Modes
    PROVE  [mode |-> mode, owner |-> NoMember, epoch |-> 1,
            status |-> "open", pending |-> "", lead |-> NoMember] \in SessionRow
  BY DEF SessionRow, Owner, Pending

LEMMA InitSession == Init => session \in SessionRow
  <1> SUFFICES ASSUME Init PROVE session \in SessionRow
    OBVIOUS
  <1>1. session \in [mode : Modes, owner : {NoMember}, epoch : {1}, status : {"open"},
                     pending : {""}, lead : {NoMember}]
    BY DEF Init
  <1>2. PICK mode \in Modes :
          session = [mode |-> mode, owner |-> NoMember, epoch |-> 1,
                     status |-> "open", pending |-> "", lead |-> NoMember]
    BY <1>1
  <1> QED BY <1>2, NewSession

USE DEF Modes, Pending, Owner, ReplyStatus, Kinds

-----------------------------------------------------------------------------
(* The inductive invariant.                                                 *)

\* What a visitor handler loaded is of this epoch or an earlier one; if of
\* this one, the mode has not changed.  Only an AI or assist handler answers.
LoadedByVisitors ==
    \A h \in Requests : visitor[h].pc # "idle" =>
        /\ visitor[h].epoch <= session.epoch
        /\ visitor[h].epoch = session.epoch => visitor[h].mode = session.mode
        /\ visitor[h].pc \in {"answer", "insert"} => visitor[h].mode # "human"

\* The same for a member about to insert a reply or a draft: who loaded it for
\* a reply, loaded a human session.
Inserts(k) == k.op \in {"reply", "draft"}
LoadedByStaff ==
    \A k \in desk : Inserts(k) =>
        /\ k.epoch <= session.epoch
        /\ k.epoch = session.epoch /\ k.op = "reply" => session.mode = "human"

IInv == TypeOK /\ LoadedByVisitors /\ LoadedByStaff /\ EpochFencesKinds

-----------------------------------------------------------------------------
LEMMA NextNat == \A e \in Nat : e + 1 \in Nat
  OBVIOUS

LEMMA InitTypeOK == Init => TypeOK
  <1> SUFFICES ASSUME Init PROVE TypeOK
    OBVIOUS
  <1>1. session \in SessionRow
    BY InitSession
  <1>2. replies \in [Ids -> ReplyRow]
    BY DEF Init, ReplyRow
  <1>3. \A i \in Ids : IdleHandler(i) \in Handler
    BY DEF IdleHandler, Handler
  <1>4. visitor \in [Requests -> Handler]
    <2>1. {IdleHandler(i) : i \in Ids} \subseteq Handler
      BY <1>3
    <2> QED BY <2>1 DEF Init
  <1> QED BY <1>1, <1>2, <1>4 DEF Init, TypeOK

\* Superseding keeps the rows of the replies table rows.
LEMMA SupersedeType ==
    ASSUME TypeOK, NEW next \in Nat
    PROVE  supersedeUnsent(next) \in [Ids -> ReplyRow]
  BY DEF TypeOK, ReplyRow, supersedeUnsent

\* A switch, by whatever staff action, keeps every variable in its type.
LEMMA SwitchType ==
    ASSUME TypeOK, NEW e \in Nat,
           NEW type \in {"assist", "takeover", "release"}, NEW mode \in Modes,
           NEW owner \in Owner, NEW pending \in Pending,
           Switch(e, type, mode, owner, pending)
    PROVE  TypeOK'
  <1>0. e + 1 \in Nat
    BY NextNat
  <1>1. replies' \in [Ids -> ReplyRow]
    BY <1>0, SupersedeType DEF Switch
  <1>2. session' \in SessionRow
    BY <1>0 DEF Switch, TypeOK, SessionRow
  <1>3. events' \subseteq Event
    <2>1. [type |-> type, epoch |-> e + 1] \in Event
      BY <1>0 DEF Event
    <2> QED BY <2>1 DEF Switch, TypeOK
  <1> QED BY <1>1, <1>2, <1>3 DEF Switch, TypeOK, rows

\* Delivering, blocking or receipting a reply keeps its row a row.
LEMMA SentType ==
    ASSUME TypeOK, NEW i \in Ids, NEW receipt \in Receipts \cup {"auto"}, Sent(i, receipt)
    PROVE  replies' \in [Ids -> ReplyRow] /\ receipts' \subseteq Ids \X (Receipts \cup {"auto"})
  BY DEF Sent, MaySend, TypeOK, ReplyRow

\* A handler that ignores an error moves on as if the write had been made.
LEMMA IgnoreMoves ==
    ASSUME NEW h \in Requests, IgnoreError(h)
    PROVE  /\ visitor[h].pc # "idle"
           /\ \/ visitor' = [visitor EXCEPT ![h].pc = "touch", ![h].pending = "human_takeover"]
              \/ \E pc \in {"idle", "send", "touch"} : visitor' = [visitor EXCEPT ![h].pc = pc]
  <1>1. AfterMeter(visitor[h]) \in {"idle", "send", "touch"}
    BY DEF AfterMeter
  <1>2. CASE At(h, "interrupt") /\ visitor' = [visitor EXCEPT ![h].pc = "touch", ![h].pending = "human_takeover"]
    BY <1>2 DEF At
  <1>3. CASE At(h, "meter") /\ Goto(h, AfterMeter(visitor[h]))
    BY <1>1, <1>3 DEF At, Goto
  <1>4. CASE At(h, "send") /\ Goto(h, "touch")
    BY <1>4 DEF At, Goto
  <1> QED BY <1>2, <1>3, <1>4, Zenon DEF IgnoreError

LEMMA NextTypeOK == TypeOK /\ [Next]_vars => TypeOK'
  <1> SUFFICES ASSUME TypeOK, [Next]_vars PROVE TypeOK'
    OBVIOUS
  <1>t. session.epoch \in Nat
    BY DEF TypeOK, SessionRow
  <1>1. ASSUME NEW e \in 1..session.epoch, EnterAssist(e) PROVE TypeOK'
    <2>1. session.owner \in Owner
      BY DEF TypeOK, SessionRow
    <2>2. e \in Nat
      BY <1>t
    <2> QED BY <1>1, <2>1, <2>2, SwitchType DEF EnterAssist
  <1>2. ASSUME NEW m \in Members, NEW e \in 1..session.epoch, TakeoverSession(m, e) PROVE TypeOK'
    <2>1. e \in Nat
      BY <1>t
    <2> QED BY <1>2, <2>1, SwitchType DEF TakeoverSession
  <1>3. ASSUME NEW m \in Members, NEW e \in 1..session.epoch, ReleaseSessionToAI(m, e) PROVE TypeOK'
    <2>1. e \in Nat
      BY <1>t
    <2> QED BY <1>3, <2>1, SwitchType DEF ReleaseSessionToAI
  <1>4. CASE CloseReceptionSession
    BY <1>4 DEF CloseReceptionSession, TypeOK, SessionRow, rows
  <1>5. ASSUME NEW i \in Ids, ApproveReceptionReply(i) PROVE TypeOK'
    BY <1>5 DEF ApproveReceptionReply, TypeOK, ReplyRow, rows
  <1>6. ASSUME NEW i \in Ids, SupersedeGeneratedReply(i) PROVE TypeOK'
    BY <1>6 DEF SupersedeGeneratedReply, TypeOK, ReplyRow, rows
  <1>7. ASSUME NEW i \in Ids, NEW r \in Receipts, SendReceptionReply(i, r) PROVE TypeOK'
    <2>1. replies' \in [Ids -> ReplyRow] /\ receipts' \subseteq Ids \X (Receipts \cup {"auto"})
      BY <1>7, SentType DEF SendReceptionReply
    <2> QED BY <1>7, <2>1 DEF SendReceptionReply, TypeOK
  <1>8. ASSUME NEW m \in Members, NEW i \in Ids, NEW op \in {"reply", "draft"}, LoadForReply(m, i, op)
        PROVE  TypeOK'
    BY <1>8, <1>t DEF LoadForReply, TypeOK, DeskCall, rows
  <1>9. ASSUME NEW m \in Members, LoadForLead(m) PROVE TypeOK'
    <2>1. session.owner \in Owner
      BY DEF TypeOK, SessionRow
    <2> DEFINE assignee == IF session.owner # NoMember THEN session.owner ELSE m
    <2>2. assignee \in Members
      BY <2>1
    <2>3. [op |-> "lead", assignee |-> assignee] \in DeskCall
      BY <2>2 DEF DeskCall
    <2> QED BY <1>9, <2>3 DEF LoadForLead, TypeOK, rows
  <1>10. ASSUME NEW k \in desk, InsertHumanReply(k) PROVE TypeOK'
    <2>1. k \in [op : {"reply", "draft"}, id : Ids, epoch : Nat]
      BY <1>10 DEF InsertHumanReply, TypeOK, DeskCall
    <2>2. replies' \in [Ids -> ReplyRow]
      BY <1>10, <2>1 DEF InsertHumanReply, Stored, TypeOK, ReplyRow
    <2> QED BY <1>10, <2>2 DEF InsertHumanReply, TypeOK, rows
  <1>16. ASSUME NEW k \in desk, InsertReplyDraft(k) PROVE TypeOK'
    <2>1. k \in [op : {"reply", "draft"}, id : Ids, epoch : Nat]
      BY <1>16 DEF InsertReplyDraft, TypeOK, DeskCall
    <2>2. replies' \in [Ids -> ReplyRow]
      BY <1>16, <2>1 DEF InsertReplyDraft, Stored, TypeOK, ReplyRow
    <2> QED BY <1>16, <2>2 DEF InsertReplyDraft, TypeOK, rows
  <1>11. ASSUME NEW k \in desk, AttachReceptionLead(k) PROVE TypeOK'
    <2>1. k.assignee \in Owner
      BY <1>11 DEF AttachReceptionLead, TypeOK, DeskCall
    <2>2. session' \in SessionRow
      BY <1>11, <2>1 DEF AttachReceptionLead, TypeOK, SessionRow
    <2> QED BY <1>11, <2>2 DEF AttachReceptionLead, TypeOK, rows
  <1>12. ASSUME NEW h \in Requests, NEW i \in Ids, LoadSession(h, i) PROVE TypeOK'
    BY <1>12 DEF LoadSession, TypeOK, SessionRow, Handler, IdleHandler, rows
  <1>13. ASSUME NEW h \in Requests, VisitorStep(h) PROVE TypeOK'
    <2>1. visitor[h] \in Handler
      BY DEF TypeOK
    <2>2. CASE ReceiveMessage(h)
      BY <2>1, <2>2 DEF ReceiveMessage, At, Goto, TypeOK, Handler
    <2>3. CASE RecordInterruption(h)
      <3>1. events' \subseteq Event
        <4>1. visitor[h].epoch \in Nat
          BY <2>1 DEF Handler
        <4>2. [type |-> "interruption", epoch |-> visitor[h].epoch] \in Event
          BY <4>1 DEF Event
        <4> QED BY <2>3, <4>2 DEF RecordInterruption, TypeOK
      <3>2. visitor' \in [Requests -> Handler]
        BY <2>1, <2>3 DEF RecordInterruption, TypeOK, Handler
      <3> QED BY <2>3, <3>1, <3>2 DEF RecordInterruption, TypeOK, rows
    <2>4. CASE ModelReturns(h)
      <3>1. PICK out \in Composed(visitor[h].mode), unread \in {FALSE, MayFail} :
              visitor' = [visitor EXCEPT ![h] = [@ EXCEPT
                 !.pc = "insert", !.send = out.send, !.pending = out.pending,
                 !.late = unread \/ session.epoch # visitor[h].epoch \/ session.mode # visitor[h].mode \/ ~Open]]
        BY <2>4 DEF ModelReturns
      <3>2. out.send \in BOOLEAN /\ out.pending \in Pending
        <4>1. CASE out = [send |-> visitor[h].mode = "ai",
                         pending |-> IF visitor[h].mode = "ai" THEN "" ELSE "awaiting_approval"]
          BY <4>1
        <4>2. CASE out \in [send : {FALSE}, pending : {"clarify_or_handoff", "model_unavailable"}]
          BY <4>2
        <4> QED BY <3>1, <4>1, <4>2 DEF Composed
      <3>3. (unread \/ session.epoch # visitor[h].epoch \/ session.mode # visitor[h].mode \/ ~Open) \in BOOLEAN
        OBVIOUS
      <3>4. visitor' \in [Requests -> Handler]
        BY <2>1, <3>1, <3>2, <3>3 DEF TypeOK, Handler
      <3> QED BY <2>4, <3>4 DEF ModelReturns, TypeOK, rows
    <2>5. CASE InsertReply(h)
      <3>1. Answer(visitor[h]) \in ReplyRow
        BY <2>1 DEF Answer, ReplyRow, Handler
      <3>2. replies' \in [Ids -> ReplyRow]
        BY <2>5, <3>1 DEF InsertReply, Stored, TypeOK
      <3>3. visitor' \in [Requests -> Handler]
        BY <2>1, <2>5 DEF InsertReply, AfterInsert, Goto, TypeOK, Handler
      <3> QED BY <2>5, <3>2, <3>3 DEF InsertReply, TypeOK, rows
    <2>6. CASE InsertReceptionModelCall(h)
      BY <2>1, <2>6 DEF InsertReceptionModelCall, Goto, TypeOK, Handler
    <2>7. CASE InsertReceptionUsage(h)
      BY <2>1, <2>7 DEF InsertReceptionUsage, AfterMeter, Goto, TypeOK, Handler
    <2>8. CASE AutoSend(h)
      <3>1. visitor[h].id \in Ids
        BY <2>1 DEF Handler
      <3>2. replies' \in [Ids -> ReplyRow] /\ receipts' \subseteq Ids \X (Receipts \cup {"auto"})
        BY <2>8, <3>1, SentType DEF AutoSend
      <3>3. visitor' \in [Requests -> Handler]
        BY <2>1, <2>8 DEF AutoSend, Goto, TypeOK, Handler
      <3> QED BY <2>8, <3>2, <3>3 DEF AutoSend, TypeOK
    <2>9. CASE TouchReceptionSession(h)
      <3>1. session' \in SessionRow
        BY <2>1, <2>9 DEF TouchReceptionSession, TypeOK, SessionRow, Handler
      <3>2. visitor' \in [Requests -> Handler]
        BY <2>1, <2>9 DEF TouchReceptionSession, Goto, TypeOK, Handler
      <3> QED BY <2>9, <3>1, <3>2 DEF TouchReceptionSession, TypeOK, rows
    <2> QED BY <1>13, <2>2, <2>3, <2>4, <2>5, <2>6, <2>7, <2>8, <2>9 DEF VisitorStep
  <1>14. ASSUME NEW h \in Requests, IgnoreError(h) \/ Abandon(h) PROVE TypeOK'
    <2>1. visitor' \in [Requests -> Handler]
      <3>1. visitor[h] \in Handler
        BY DEF TypeOK
      <3>2. CASE IgnoreError(h)
        <4>1. visitor \in [Requests -> Handler]
          BY DEF TypeOK
        <4>2. CASE visitor' = [visitor EXCEPT ![h].pc = "touch", ![h].pending = "human_takeover"]
          BY <3>1, <4>1, <4>2 DEF Handler, Pending
        <4>3. ASSUME NEW pc \in {"idle", "send", "touch"}, visitor' = [visitor EXCEPT ![h].pc = pc]
              PROVE visitor' \in [Requests -> Handler]
          BY <3>1, <4>1, <4>3 DEF Handler
        <4> QED BY <3>2, <4>2, <4>3, IgnoreMoves, Zenon
      <3>3. CASE Abandon(h)
        BY <3>1, <3>3 DEF Abandon, Goto, TypeOK, Handler
      <3> QED BY <1>14, <3>2, <3>3
    <2> QED BY <1>14, <2>1 DEF IgnoreError, Abandon, TypeOK, rows
  <1>15. CASE UNCHANGED vars
    BY <1>15 DEF vars, TypeOK
  <1> QED BY <1>1, <1>2, <1>3, <1>4, <1>5, <1>6, <1>7, <1>8, <1>9, <1>10, <1>11, <1>12,
             <1>13, <1>14, <1>15, <1>16 DEF Next, DeskStep

\* Every variable keeps its type: in particular a handler's snapshot, a reply
\* and a receipt always name an id, an epoch and a mode the schema allows.
THEOREM TypeCorrect == Spec => []TypeOK
  BY InitTypeOK, NextTypeOK, PTL DEF Spec

-----------------------------------------------------------------------------
(* The epoch fence.                                                         *)

LEMMA InitIInv == Init => IInv
  <1> SUFFICES ASSUME Init PROVE IInv
    OBVIOUS
  <1>1. LoadedByVisitors
    <2>1. \A h \in Requests : visitor[h] \in {IdleHandler(i) : i \in Ids}
      BY DEF Init
    <2>2. \A i \in Ids : IdleHandler(i).pc = "idle"
      BY DEF IdleHandler
    <2>3. \A h \in Requests : visitor[h].pc = "idle"
      BY <2>1, <2>2
    <2> QED BY <2>3 DEF LoadedByVisitors
  <1>2. LoadedByStaff
    BY DEF Init, LoadedByStaff
  <1>3. EpochFencesKinds
    BY DEF Init, EpochFencesKinds
  <1> QED BY <1>1, <1>2, <1>3, InitTypeOK DEF IInv

\* After a switch nothing loaded before it, and no reply of before it, is of
\* the current epoch any more.
LEMMA SwitchFences ==
    ASSUME IInv, NEW e \in Nat, NEW type, NEW mode, NEW owner, NEW pending,
           Switch(e, type, mode, owner, pending)
    PROVE  LoadedByVisitors' /\ LoadedByStaff' /\ EpochFencesKinds'
  <1>1. session.epoch = e /\ session'.epoch = e + 1
    BY DEF Switch, IInv, TypeOK, SessionRow
  <1>2. \A x \in Nat : x <= e => x <= e + 1 /\ x # e + 1
    OBVIOUS
  <1>3. LoadedByVisitors'
    <2> SUFFICES ASSUME NEW h \in Requests, visitor'[h].pc # "idle"
                 PROVE  /\ visitor'[h].epoch <= session'.epoch
                        /\ visitor'[h].epoch # session'.epoch
                        /\ visitor'[h].pc \in {"answer", "insert"} => visitor'[h].mode # "human"
      BY DEF LoadedByVisitors
    <2>1. visitor' = visitor
      BY DEF Switch
    <2>2. visitor[h].epoch \in Nat /\ visitor[h].epoch <= e
      BY <1>1, <2>1 DEF IInv, TypeOK, Handler, LoadedByVisitors
    <2> QED BY <1>1, <1>2, <2>1, <2>2 DEF IInv, LoadedByVisitors
  <1>4. LoadedByStaff'
    <2> SUFFICES ASSUME NEW k \in desk', Inserts(k)
                 PROVE  k.epoch <= session'.epoch /\ k.epoch # session'.epoch
      BY DEF LoadedByStaff, Inserts
    <2>1. desk' = desk
      BY DEF Switch
    <2>2. k.epoch \in Nat /\ k.epoch <= e
      BY <1>1, <2>1 DEF IInv, TypeOK, DeskCall, LoadedByStaff, Inserts
    <2> QED BY <1>1, <1>2, <2>2
  <1>5. EpochFencesKinds'
    <2> SUFFICES ASSUME NEW i \in Ids, replies'[i].status # "none"
                 PROVE  replies'[i].epoch <= session'.epoch /\ replies'[i].epoch # session'.epoch
      BY DEF EpochFencesKinds
    <2>1. replies' = supersedeUnsent(e + 1)
      BY DEF Switch
    <2>2. replies[i] \in ReplyRow
      BY DEF IInv, TypeOK
    <2>3. replies[i].status # "none" /\ replies'[i].epoch = replies[i].epoch
      BY <2>1, <2>2 DEF supersedeUnsent, ReplyRow
    <2>4. replies'[i].epoch \in Nat /\ replies'[i].epoch <= e
      BY <1>1, <2>2, <2>3 DEF IInv, EpochFencesKinds, ReplyRow
    <2> QED BY <1>1, <1>2, <2>4
  <1> QED BY <1>3, <1>4, <1>5

\* As long as epoch and mode stay, a reply that only changes its status stays
\* behind the fence; a draft that becomes approved was approved in assist mode.
LEMMA StatusOnlyFences ==
    ASSUME IInv, session'.epoch = session.epoch, session'.mode = session.mode,
           \A i \in Ids : replies'[i] = replies[i] \/
              (/\ replies[i].status # "none"
               /\ replies'[i].kind = replies[i].kind
               /\ replies'[i].epoch = replies[i].epoch
               /\ \/ replies'[i].status \notin {"approved", "sent"}
                  \/ replies[i].status \in {"approved", "sent"}
                  \/ replies[i].kind = "draft" => session.mode = "assist")
    PROVE  EpochFencesKinds'
  BY DEF IInv, EpochFencesKinds, ProducedBy, Unapproved

\* A handler's step that keeps its snapshot, in an unchanged epoch and mode.
LEMMA SameSnapshot ==
    ASSUME IInv, session'.epoch = session.epoch, session'.mode = session.mode,
           \A h \in Requests : visitor'[h].pc # "idle" =>
              /\ visitor[h].pc # "idle"
              /\ visitor'[h].epoch = visitor[h].epoch
              /\ visitor'[h].mode = visitor[h].mode
              /\ visitor'[h].pc \in {"answer", "insert"} => visitor[h].mode # "human"
    PROVE  LoadedByVisitors'
  BY DEF IInv, LoadedByVisitors

\* Staff handlers that were there before, in an unchanged epoch and mode.
LEMMA SameStaff ==
    ASSUME IInv, session'.epoch = session.epoch, session'.mode = session.mode,
           \A k \in desk' : Inserts(k) => k \in desk
    PROVE  LoadedByStaff'
  BY DEF IInv, LoadedByStaff

\* Only a step of the request's own handler reaches its pc.
LEMMA VisitorFences ==
    ASSUME IInv, NEW h \in Requests, VisitorStep(h)
    PROVE  LoadedByVisitors' /\ LoadedByStaff' /\ EpochFencesKinds'
  <1>h. visitor[h] \in Handler /\ visitor \in [Requests -> Handler]
    BY DEF IInv, TypeOK
  <1>s. session \in SessionRow
    BY DEF IInv, TypeOK
  <1>r. replies \in [Ids -> ReplyRow]
    BY DEF IInv, TypeOK
  <1>1. session'.epoch = session.epoch /\ session'.mode = session.mode
    BY <1>s DEF VisitorStep, ReceiveMessage, RecordInterruption, ModelReturns, InsertReply,
       InsertReceptionModelCall, InsertReceptionUsage, AutoSend, TouchReceptionSession, SessionRow
  <1>2. desk' = desk
    BY DEF VisitorStep, ReceiveMessage, RecordInterruption, ModelReturns, InsertReply,
       InsertReceptionModelCall, InsertReceptionUsage, AutoSend, TouchReceptionSession
  <1>3. LoadedByStaff'
    BY <1>1, <1>2, SameStaff
  <1>4. LoadedByVisitors'
    <2>1. \A g \in Requests : g # h => visitor'[g] = visitor[g]
      BY <1>h DEF VisitorStep, ReceiveMessage, RecordInterruption, ModelReturns, InsertReply, Goto,
         InsertReceptionModelCall, InsertReceptionUsage, AutoSend, TouchReceptionSession
    <2>2. /\ visitor'[h].epoch = visitor[h].epoch /\ visitor'[h].mode = visitor[h].mode
          /\ visitor'[h].pc = "answer" => visitor[h].mode # "human"
          /\ visitor'[h].pc = "insert" => visitor[h].pc = "answer"
      <3>1. CASE ReceiveMessage(h)
        BY <1>h, <3>1 DEF ReceiveMessage, Goto, Handler
      <3>2. CASE RecordInterruption(h)
        BY <1>h, <3>2 DEF RecordInterruption, Handler
      <3>3. CASE ModelReturns(h)
        <4>1. PICK out \in Composed(visitor[h].mode), unread \in {FALSE, MayFail} :
                visitor' = [visitor EXCEPT ![h] = [@ EXCEPT
                   !.pc = "insert", !.send = out.send, !.pending = out.pending,
                   !.late = unread \/ session.epoch # visitor[h].epoch \/ session.mode # visitor[h].mode \/ ~Open]]
          BY <3>3 DEF ModelReturns
        <4>2. visitor[h].pc = "answer"
          BY <3>3 DEF ModelReturns, At
        <4>3. visitor'[h].pc = "insert" /\ visitor'[h].epoch = visitor[h].epoch /\ visitor'[h].mode = visitor[h].mode
          BY <1>h, <4>1 DEF Handler
        <4> QED BY <4>2, <4>3
      <3>4. CASE InsertReply(h)
        BY <1>h, <3>4 DEF InsertReply, AfterInsert, Goto, Handler
      <3>5. CASE InsertReceptionModelCall(h)
        BY <1>h, <3>5 DEF InsertReceptionModelCall, Goto, Handler
      <3>7. CASE InsertReceptionUsage(h)
        BY <1>h, <3>7 DEF InsertReceptionUsage, AfterMeter, Goto, Handler
      <3>6. CASE AutoSend(h)
        <4>1. visitor' = [visitor EXCEPT ![h] = [@ EXCEPT !.pc = "touch"]]
          BY <3>6 DEF AutoSend, Goto
        <4> QED BY <1>h, <4>1 DEF Handler
      <3>8. CASE TouchReceptionSession(h)
        <4>1. visitor' = [visitor EXCEPT ![h] = [@ EXCEPT !.pc = "idle"]]
          BY <3>8 DEF TouchReceptionSession, Goto
        <4> QED BY <1>h, <4>1 DEF Handler
      <3> QED BY <3>1, <3>2, <3>3, <3>4, <3>5, <3>6, <3>7, <3>8 DEF VisitorStep
    <2>3. visitor[h].pc # "idle"
      BY DEF VisitorStep, ReceiveMessage, RecordInterruption, ModelReturns, InsertReply, At,
         InsertReceptionModelCall, InsertReceptionUsage, AutoSend, TouchReceptionSession
    <2>6. visitor'[h].pc = "insert" => visitor[h].mode # "human"
      BY <2>2 DEF IInv, LoadedByVisitors
    <2>7. \A g \in Requests : g # h /\ visitor[g].pc \in {"answer", "insert"} => visitor[g].mode # "human"
      BY DEF IInv, LoadedByVisitors
    <2> QED BY <1>1, <2>1, <2>2, <2>3, <2>6, <2>7, SameSnapshot
  <1>5. EpochFencesKinds'
    <2>1. CASE InsertReply(h) /\ replies[visitor[h].id].status = "none"
      <3>1. visitor[h].pc = "insert" /\ visitor[h].mode # "human"
        BY <2>1 DEF InsertReply, At, IInv, LoadedByVisitors
      <3>2. /\ visitor[h].epoch <= session.epoch
            /\ visitor[h].epoch = session.epoch => visitor[h].mode = session.mode
        BY <3>1 DEF IInv, LoadedByVisitors
      <3>3. replies' = [replies EXCEPT ![visitor[h].id] = Answer(visitor[h])]
        BY <2>1 DEF InsertReply, Stored
      <3>4. \A i \in Ids : i # visitor[h].id => replies'[i] = replies[i]
        BY <1>r, <3>3
      <3>5. visitor[h].id \in Ids
        BY <1>h DEF Handler
      <3>6. replies'[visitor[h].id] = Answer(visitor[h])
        BY <1>r, <3>3, <3>5
      <3>7. /\ Answer(visitor[h]).epoch = visitor[h].epoch
            /\ ProducedBy(Answer(visitor[h]).kind) = visitor[h].mode
        BY <1>h, <3>1 DEF Answer, ProducedBy, Handler
      <3> QED BY <1>1, <3>2, <3>4, <3>6, <3>7 DEF IInv, EpochFencesKinds, ProducedBy, Unapproved
    <2>2. CASE ~(InsertReply(h) /\ replies[visitor[h].id].status = "none")
      <3>1. \A i \in Ids : replies'[i] = replies[i] \/
               (/\ replies[i].status # "none"
                /\ replies'[i].kind = replies[i].kind
                /\ replies'[i].epoch = replies[i].epoch
                /\ \/ replies'[i].status \notin {"approved", "sent"}
                   \/ replies[i].status \in {"approved", "sent"})
        <4>1. CASE AutoSend(h)
          BY <1>r, <4>1 DEF AutoSend, Sent, MaySend, ReplyRow
        <4>2. CASE replies' = replies
          BY <4>2
        <4>3. InsertReply(h) => replies' = replies
          BY <2>2 DEF InsertReply, Stored
        <4> QED BY <4>1, <4>2, <4>3 DEF VisitorStep, ReceiveMessage, RecordInterruption, ModelReturns,
               InsertReceptionModelCall, InsertReceptionUsage, TouchReceptionSession, rows
      <3> QED BY <1>1, <3>1, StatusOnlyFences
    <2> QED BY <2>1, <2>2
  <1> QED BY <1>3, <1>4, <1>5

LEMMA NextIInv == IInv /\ [Next]_vars => IInv'
  <1> SUFFICES ASSUME IInv, [Next]_vars PROVE LoadedByVisitors' /\ LoadedByStaff' /\ EpochFencesKinds'
    BY NextTypeOK DEF IInv
  <1> DEFINE Fenced == LoadedByVisitors' /\ LoadedByStaff' /\ EpochFencesKinds'
  <1>e. session.epoch \in Nat
    BY DEF IInv, TypeOK, SessionRow
  <1>r. replies \in [Ids -> ReplyRow]
    BY DEF IInv, TypeOK
  \* Steps that leave session, visitors and desk alone and only re-label replies.
  <1>s. ASSUME session'.epoch = session.epoch, session'.mode = session.mode,
               visitor' = visitor, desk' = desk,
               \A i \in Ids : replies'[i] = replies[i] \/
                  (/\ replies[i].status # "none"
                   /\ replies'[i].kind = replies[i].kind
                   /\ replies'[i].epoch = replies[i].epoch
                   /\ \/ replies'[i].status \notin {"approved", "sent"}
                      \/ replies[i].status \in {"approved", "sent"}
                      \/ replies[i].kind = "draft" => session.mode = "assist")
        PROVE  Fenced
    <2>1. LoadedByVisitors'
      BY <1>s DEF IInv, LoadedByVisitors
    <2> QED BY <1>s, <2>1, SameStaff, StatusOnlyFences
  <1>1. ASSUME NEW e \in 1..session.epoch, EnterAssist(e) PROVE Fenced
    <2>1. e \in Nat
      BY <1>e
    <2> QED BY <1>1, <2>1, SwitchFences DEF EnterAssist
  <1>2. ASSUME NEW m \in Members, NEW e \in 1..session.epoch, TakeoverSession(m, e) PROVE Fenced
    <2>1. e \in Nat
      BY <1>e
    <2> QED BY <1>2, <2>1, SwitchFences DEF TakeoverSession
  <1>3. ASSUME NEW m \in Members, NEW e \in 1..session.epoch, ReleaseSessionToAI(m, e) PROVE Fenced
    <2>1. e \in Nat
      BY <1>e
    <2> QED BY <1>3, <2>1, SwitchFences DEF ReleaseSessionToAI
  <1>4. CASE CloseReceptionSession
    <2>1. session'.epoch = session.epoch /\ session'.mode = session.mode
      BY <1>4 DEF CloseReceptionSession, IInv, TypeOK, SessionRow
    <2> QED BY <1>4, <2>1, <1>s DEF CloseReceptionSession
  <1>5. ASSUME NEW i \in Ids, ApproveReceptionReply(i) PROVE Fenced
    <2>1. \A j \in Ids : replies'[j] = replies[j] \/
             (/\ replies[j].status # "none"
              /\ replies'[j].kind = replies[j].kind
              /\ replies'[j].epoch = replies[j].epoch
              /\ \/ replies'[j].status \notin {"approved", "sent"}
                 \/ replies[j].status \in {"approved", "sent"}
                 \/ replies[j].kind = "draft" => session.mode = "assist")
      BY <1>5, <1>r DEF ApproveReceptionReply, ReplyRow
    <2> QED BY <1>5, <2>1, <1>s DEF ApproveReceptionReply
  <1>6. ASSUME NEW i \in Ids, SupersedeGeneratedReply(i) PROVE Fenced
    <2>1. \A j \in Ids : replies'[j] = replies[j] \/
             (/\ replies[j].status # "none"
              /\ replies'[j].kind = replies[j].kind
              /\ replies'[j].epoch = replies[j].epoch
              /\ \/ replies'[j].status \notin {"approved", "sent"}
                 \/ replies[j].status \in {"approved", "sent"}
                 \/ replies[j].kind = "draft" => session.mode = "assist")
      BY <1>6, <1>r DEF SupersedeGeneratedReply, ReplyRow
    <2> QED BY <1>6, <2>1, <1>s DEF SupersedeGeneratedReply
  <1>7. ASSUME NEW i \in Ids, NEW r \in Receipts, SendReceptionReply(i, r) PROVE Fenced
    <2>1. \A j \in Ids : replies'[j] = replies[j] \/
             (/\ replies[j].status # "none"
              /\ replies'[j].kind = replies[j].kind
              /\ replies'[j].epoch = replies[j].epoch
              /\ \/ replies'[j].status \notin {"approved", "sent"}
                 \/ replies[j].status \in {"approved", "sent"}
                 \/ replies[j].kind = "draft" => session.mode = "assist")
      BY <1>7, <1>r DEF SendReceptionReply, Sent, MaySend, ReplyRow
    <2> QED BY <1>7, <2>1, <1>s DEF SendReceptionReply
  <1>8. ASSUME NEW m \in Members, NEW i \in Ids, NEW op \in {"reply", "draft"}, LoadForReply(m, i, op)
        PROVE  Fenced
    <2>1. LoadedByVisitors' /\ EpochFencesKinds'
      BY <1>8 DEF LoadForReply, IInv, LoadedByVisitors, EpochFencesKinds, Unapproved
    <2>2. LoadedByStaff'
      BY <1>8, <1>e DEF LoadForReply, IInv, LoadedByStaff, Inserts
    <2> QED BY <2>1, <2>2
  <1>9. ASSUME NEW m \in Members, LoadForLead(m) PROVE Fenced
    <2>1. LoadedByVisitors' /\ EpochFencesKinds'
      BY <1>9 DEF LoadForLead, IInv, LoadedByVisitors, EpochFencesKinds, Unapproved
    <2>2. \A k \in desk' : Inserts(k) => k \in desk
      BY <1>9 DEF LoadForLead, Inserts
    <2> QED BY <1>9, <2>1, <2>2, SameStaff DEF LoadForLead
  <1>10. ASSUME NEW k \in desk, InsertHumanReply(k) PROVE Fenced
    <2>1. k.epoch <= session.epoch /\ (k.epoch = session.epoch => session.mode = "human")
      BY <1>10 DEF InsertHumanReply, IInv, LoadedByStaff, Inserts
    <2>2. LoadedByVisitors' /\ LoadedByStaff'
      BY <1>10 DEF InsertHumanReply, IInv, LoadedByVisitors, LoadedByStaff
    <2>3. EpochFencesKinds'
      <3> DEFINE row == [status |-> "approved", kind |-> "human", epoch |-> k.epoch]
      <3>1. \A i \in Ids : replies'[i] = replies[i] \/ replies'[i] = row
        BY <1>10, <1>r DEF InsertHumanReply, Stored
      <3>2. row.epoch = k.epoch /\ ProducedBy(row.kind) = "human"
        BY DEF ProducedBy
      <3>3. session' = session
        BY <1>10 DEF InsertHumanReply
      <3> HIDE DEF row
      <3> QED BY <2>1, <3>1, <3>2, <3>3 DEF IInv, EpochFencesKinds, ProducedBy, Unapproved
    <2> QED BY <2>2, <2>3
  <1>16. ASSUME NEW k \in desk, InsertReplyDraft(k) PROVE Fenced
    <2>1. k.epoch <= session.epoch
      BY <1>16 DEF InsertReplyDraft, IInv, LoadedByStaff, Inserts
    <2>2. LoadedByVisitors' /\ LoadedByStaff'
      BY <1>16 DEF InsertReplyDraft, IInv, LoadedByVisitors, LoadedByStaff
    <2>3. EpochFencesKinds'
      <3> DEFINE row == [status |-> "generated", kind |-> "draft", epoch |-> k.epoch]
      <3>1. \A i \in Ids : replies'[i] = replies[i] \/ replies'[i] = row
        BY <1>16, <1>r DEF InsertReplyDraft, Stored
      <3>2. row.epoch = k.epoch /\ row.kind = "draft" /\ row.status = "generated"
        OBVIOUS
      <3>3. session' = session
        BY <1>16 DEF InsertReplyDraft
      <3> HIDE DEF row
      <3> QED BY <2>1, <3>1, <3>2, <3>3 DEF IInv, EpochFencesKinds, ProducedBy, Unapproved
    <2> QED BY <2>2, <2>3
  <1>11. ASSUME NEW k \in desk, AttachReceptionLead(k) PROVE Fenced
    <2>1. session'.epoch = session.epoch /\ session'.mode = session.mode
      BY <1>11 DEF AttachReceptionLead, IInv, TypeOK, SessionRow
    <2>2. LoadedByVisitors'
      BY <1>11, <2>1 DEF AttachReceptionLead, IInv, LoadedByVisitors
    <2>3. LoadedByStaff'
      BY <1>11, <2>1, SameStaff DEF AttachReceptionLead
    <2>4. EpochFencesKinds'
      BY <1>11, <2>1, StatusOnlyFences DEF AttachReceptionLead
    <2> QED BY <2>2, <2>3, <2>4
  <1>12. ASSUME NEW h \in Requests, NEW i \in Ids, LoadSession(h, i) PROVE Fenced
    <2>1. EpochFencesKinds' /\ LoadedByStaff'
      BY <1>12 DEF LoadSession, IInv, EpochFencesKinds, Unapproved, LoadedByStaff
    <2>2. session' = session
      BY <1>12 DEF LoadSession
    <2>3. visitor \in [Requests -> Handler]
      BY DEF IInv, TypeOK
    <2>4. /\ visitor'[h].epoch = session.epoch
          /\ visitor'[h].mode = session.mode
          /\ visitor'[h].pc = "receive"
      BY <1>12, <2>3 DEF LoadSession, IdleHandler
    <2>5. \A g \in Requests : g # h => visitor'[g] = visitor[g]
      BY <1>12, <2>3 DEF LoadSession
    <2>6. LoadedByVisitors'
      BY <1>e, <2>2, <2>4, <2>5 DEF IInv, LoadedByVisitors
    <2> QED BY <2>1, <2>6
  <1>13. ASSUME NEW h \in Requests, VisitorStep(h) PROVE Fenced
    BY <1>13, VisitorFences
  <1>14. ASSUME NEW h \in Requests, IgnoreError(h) \/ Abandon(h) PROVE Fenced
    <2>1. visitor \in [Requests -> Handler] /\ visitor[h] \in Handler
      BY DEF IInv, TypeOK
    <2>2. /\ \A g \in Requests : g # h => visitor'[g] = visitor[g]
          /\ visitor'[h].epoch = visitor[h].epoch
          /\ visitor'[h].mode = visitor[h].mode
          /\ visitor'[h].pc \notin {"answer", "insert"}
          /\ visitor[h].pc # "idle"
      <3>2. CASE IgnoreError(h)
        <4>1. visitor[h].pc # "idle"
          BY <3>2, IgnoreMoves, Zenon
        <4>2. CASE visitor' = [visitor EXCEPT ![h].pc = "touch", ![h].pending = "human_takeover"]
          BY <2>1, <4>1, <4>2 DEF Handler
        <4>3. ASSUME NEW pc \in {"idle", "send", "touch"}, visitor' = [visitor EXCEPT ![h].pc = pc]
              PROVE /\ \A g \in Requests : g # h => visitor'[g] = visitor[g]
                    /\ visitor'[h].epoch = visitor[h].epoch
                    /\ visitor'[h].mode = visitor[h].mode
                    /\ visitor'[h].pc \notin {"answer", "insert"}
          BY <2>1, <4>3 DEF Handler
        <4>4. CASE \E pc \in {"idle", "send", "touch"} : visitor' = [visitor EXCEPT ![h].pc = pc]
          BY <4>1, <4>3, <4>4
        <4> QED BY <3>2, <4>2, <4>4, IgnoreMoves, Zenon
      <3>3. CASE Abandon(h)
        BY <2>1, <3>3 DEF Abandon, At, Goto, Handler
      <3> QED BY <1>14, <3>2, <3>3
    <2>3. session' = session
      BY <1>14 DEF IgnoreError, Abandon
    <2>4. LoadedByVisitors'
      BY <2>2, <2>3 DEF IInv, LoadedByVisitors
    <2>5. LoadedByStaff' /\ EpochFencesKinds'
      BY <1>14 DEF IgnoreError, Abandon, IInv, LoadedByStaff, EpochFencesKinds, Unapproved
    <2> QED BY <2>4, <2>5
  <1>15. CASE UNCHANGED vars
    BY <1>15 DEF vars, IInv, LoadedByVisitors, LoadedByStaff, EpochFencesKinds, Unapproved
  <1> QED BY <1>1, <1>2, <1>3, <1>4, <1>5, <1>6, <1>7, <1>8, <1>9, <1>10, <1>11, <1>12,
             <1>13, <1>14, <1>15, <1>16 DEF Next, DeskStep

LEMMA AlwaysIInv == Spec => []IInv
  BY InitIInv, NextIInv, PTL DEF Spec

\* However many switches a visitor's handler or a member's request has slept
\* through, a reply of the current epoch is of the kind the current mode makes:
\* the epoch check of SendReceptionReply is all the fencing a takeover needs.
THEOREM EpochFence == Spec => []EpochFencesKinds
  <1>1. IInv => EpochFencesKinds
    BY DEF IInv
  <1> QED BY <1>1, AlwaysIInv, PTL

-----------------------------------------------------------------------------
(* The session implements a conversation.                                   *)

\* What has been said depends on the sent replies alone.
LEMMA SaidSame ==
    ASSUME \A i \in Ids : replies'[i] = replies[i] \/
              (replies[i].status # "sent" /\ replies'[i].status # "sent")
    PROVE  Said' = Said
  <1>1. {j \in Ids : replies'[j].status = "sent"} = {j \in Ids : replies[j].status = "sent"}
    OBVIOUS
  <1>2. \A i \in {j \in Ids : replies[j].status = "sent"} : replies'[i] = replies[i]
    OBVIOUS
  <1> QED BY <1>1, <1>2 DEF Said, ProducedBy

\* A step that says nothing and keeps status, mode and epoch is a stutter.
LEMMA SilentStep ==
    ASSUME session'.status = session.status, session'.mode = session.mode,
           session'.epoch = session.epoch, Said' = Said
    PROVE  UNCHANGED Turns!vars
  BY DEF Turns!vars, Open

\* A switch passes the turn.
LEMMA SwitchPassesTurn ==
    ASSUME TypeOK, NEW e \in Nat, NEW type, NEW mode \in Modes, NEW owner, NEW pending,
           Switch(e, type, mode, owner, pending)
    PROVE  Turns!PassTurn
  <1>1. /\ session'.mode = mode /\ session'.epoch = session.epoch + 1
        /\ session'.status = session.status
    BY DEF Switch, TypeOK, SessionRow
  <1>2. \A i \in Ids : replies'[i] = replies[i] \/
           (replies[i].status # "sent" /\ replies'[i].status # "sent")
    BY DEF Switch, supersedeUnsent, TypeOK, ReplyRow
  <1>3. Said' = Said
    BY <1>2, SaidSame
  <1> QED BY <1>1, <1>3 DEF Switch, Turns!PassTurn, Turns!Parties, Open

\* Sending speaks, in the party and the round the session is in now, or says
\* nothing.
LEMMA SentSpeaks ==
    ASSUME IInv, NEW i \in Ids, NEW receipt, Sent(i, receipt), session' = session
    PROVE  Turns!Speak(i) \/ UNCHANGED Turns!vars
  <1>r. replies \in [Ids -> ReplyRow]
    BY DEF IInv, TypeOK
  <1>1. CASE ~MaySend(i)
    <2>1. \A j \in Ids : replies'[j] = replies[j] \/
             (replies[j].status # "sent" /\ replies'[j].status # "sent")
      BY <1>r, <1>1 DEF Sent, ReplyRow
    <2> QED BY <2>1, SaidSame, SilentStep
  <1>2. CASE MaySend(i)
    <2>1. replies' = [replies EXCEPT ![i].status = "sent"]
      BY <1>2 DEF Sent
    <2>2. \A j \in Ids : j # i => replies'[j] = replies[j]
      BY <1>r, <2>1
    <2>3. /\ replies'[i].status = "sent"
          /\ replies'[i].kind = replies[i].kind
          /\ replies'[i].epoch = replies[i].epoch
      BY <1>r, <2>1 DEF ReplyRow
    <2>4. replies[i].status = "approved" /\ replies[i].epoch = session.epoch /\ Open
      BY <1>2 DEF MaySend
    <2>5. ProducedBy(replies[i].kind) = session.mode
      BY <2>4 DEF IInv, EpochFencesKinds, Unapproved
    <2> DEFINE new == [id |-> i, by |-> session.mode, round |-> session.epoch]
               said(rs, j) == [id |-> j, by |-> ProducedBy(rs[j].kind), round |-> rs[j].epoch]
    <2>6. ProducedBy(replies'[i].kind) = ProducedBy(replies[i].kind)
      BY <2>3
    <2>7. said(replies', i) = new
      BY <2>3, <2>4, <2>5, <2>6
    <2>8. \A j \in Ids : j # i => said(replies', j) = said(replies, j)
      BY <2>2
    <2>9. Said = {said(replies, j) : j \in {k \in Ids : replies[k].status = "sent"}}
      BY DEF Said
    <2>10. Said' = {said(replies', j) : j \in {k \in Ids : replies'[k].status = "sent"}}
      BY DEF Said, ProducedBy
    <2>11. {k \in Ids : replies'[k].status = "sent"} = {k \in Ids : replies[k].status = "sent"} \cup {i}
      BY <2>2, <2>3
    <2>12. i \notin {k \in Ids : replies[k].status = "sent"}
      BY <2>4
    <2>13. \A u \in Said : u.id # i
      BY <2>9, <2>12
    <2> HIDE DEF said, new
    <2>14. Said' = Said \cup {new}
      BY <2>7, <2>8, <2>9, <2>10, <2>11, <2>12
    <2> QED BY <2>4, <2>13, <2>14 DEF Turns!Speak, Open, new
  <1> QED BY <1>1, <1>2

LEMMA InitConversation == Init => Turns!Init
  <1> SUFFICES ASSUME Init PROVE Turns!Init
    OBVIOUS
  <1>1. session.status = "open" /\ session.epoch = 1 /\ session.mode \in Modes
    BY DEF Init
  <1>2. Said = {}
    BY DEF Init, Said
  <1> QED BY <1>1, <1>2 DEF Turns!Init, Turns!Parties, Open

LEMMA NextConversation == IInv /\ [Next]_vars => [Turns!Next]_(Turns!vars)
  <1> SUFFICES ASSUME IInv, [Next]_vars PROVE Turns!Next \/ UNCHANGED Turns!vars
    OBVIOUS
  <1> DEFINE Simulated == Turns!Next \/ UNCHANGED Turns!vars
  <1>t. TypeOK
    BY DEF IInv
  <1>e. session.epoch \in Nat /\ session \in SessionRow
    BY <1>t DEF TypeOK, SessionRow
  <1>r. replies \in [Ids -> ReplyRow]
    BY <1>t DEF TypeOK
  \* Neither a switch nor a close nor a delivery.
  <1>s. ASSUME session'.status = session.status, session'.mode = session.mode,
               session'.epoch = session.epoch,
               \A i \in Ids : replies'[i] = replies[i] \/
                  (replies[i].status # "sent" /\ replies'[i].status # "sent")
        PROVE  Simulated
    BY <1>s, SaidSame, SilentStep
  <1>p. ASSUME Turns!PassTurn PROVE Simulated
    BY <1>p DEF Turns!Next
  <1>1. ASSUME NEW e \in 1..session.epoch, EnterAssist(e) PROVE Simulated
    <2>1. e \in Nat
      BY <1>e
    <2>2. Turns!PassTurn
      BY <1>1, <1>t, <2>1, SwitchPassesTurn DEF EnterAssist
    <2> QED BY <1>p, <2>2
  <1>2. ASSUME NEW m \in Members, NEW e \in 1..session.epoch, TakeoverSession(m, e) PROVE Simulated
    <2>1. e \in Nat
      BY <1>e
    <2>2. Turns!PassTurn
      BY <1>2, <1>t, <2>1, SwitchPassesTurn DEF TakeoverSession
    <2> QED BY <1>p, <2>2
  <1>3. ASSUME NEW m \in Members, NEW e \in 1..session.epoch, ReleaseSessionToAI(m, e) PROVE Simulated
    <2>1. e \in Nat
      BY <1>e
    <2>2. Turns!PassTurn
      BY <1>3, <1>t, <2>1, SwitchPassesTurn DEF ReleaseSessionToAI
    <2> QED BY <1>p, <2>2
  <1>4. CASE CloseReceptionSession
    <2>1. /\ session'.status = "closed" /\ session'.mode = session.mode
          /\ session'.epoch = session.epoch
      BY <1>4, <1>e DEF CloseReceptionSession, SessionRow
    <2>2. Said' = Said
      BY <1>4, SaidSame DEF CloseReceptionSession
    <2> QED BY <1>4, <2>1, <2>2 DEF CloseReceptionSession, Turns!Next, Turns!Close, Open
  <1>5. ASSUME NEW i \in Ids, ApproveReceptionReply(i) PROVE Simulated
    BY <1>5, <1>r, <1>s DEF ApproveReceptionReply, ReplyRow
  <1>6. ASSUME NEW i \in Ids, SupersedeGeneratedReply(i) PROVE Simulated
    BY <1>6, <1>r, <1>s DEF SupersedeGeneratedReply, ReplyRow
  <1>7. ASSUME NEW i \in Ids, NEW r \in Receipts, SendReceptionReply(i, r) PROVE Simulated
    BY <1>7, SentSpeaks DEF SendReceptionReply, Turns!Next
  <1>8. ASSUME NEW m \in Members, NEW i \in Ids, NEW op \in {"reply", "draft"}, LoadForReply(m, i, op)
        PROVE  Simulated
    BY <1>8, <1>s DEF LoadForReply
  <1>9. ASSUME NEW m \in Members, LoadForLead(m) PROVE Simulated
    BY <1>9, <1>s DEF LoadForLead
  <1>10. ASSUME NEW k \in desk, InsertHumanReply(k) PROVE Simulated
    BY <1>10, <1>r, <1>s DEF InsertHumanReply, Stored, ReplyRow
  <1>16. ASSUME NEW k \in desk, InsertReplyDraft(k) PROVE Simulated
    BY <1>16, <1>r, <1>s DEF InsertReplyDraft, Stored, ReplyRow
  <1>11. ASSUME NEW k \in desk, AttachReceptionLead(k) PROVE Simulated
    <2>1. /\ session'.status = session.status /\ session'.mode = session.mode
          /\ session'.epoch = session.epoch
      BY <1>11, <1>e DEF AttachReceptionLead, SessionRow
    <2> QED BY <1>11, <2>1, <1>s DEF AttachReceptionLead
  <1>12. ASSUME NEW h \in Requests, NEW i \in Ids, LoadSession(h, i) PROVE Simulated
    BY <1>12, <1>s DEF LoadSession
  <1>13. ASSUME NEW h \in Requests, VisitorStep(h) PROVE Simulated
    <2>1. visitor[h] \in Handler
      BY <1>t DEF TypeOK
    <2>2. CASE AutoSend(h)
      BY <2>1, <2>2, SentSpeaks DEF AutoSend, Handler, Turns!Next
    <2>3. CASE InsertReply(h)
      <3>1. Answer(visitor[h]).status # "sent"
        BY DEF Answer
      <3>2. \A i \in Ids : replies'[i] = replies[i] \/
               (replies[i].status # "sent" /\ replies'[i].status # "sent")
        BY <1>r, <2>3, <3>1 DEF InsertReply, Stored
      <3> QED BY <1>s, <2>3, <3>2 DEF InsertReply
    <2>4. CASE TouchReceptionSession(h)
      <3>1. /\ session'.status = session.status /\ session'.mode = session.mode
            /\ session'.epoch = session.epoch
        BY <2>4, <1>e DEF TouchReceptionSession, SessionRow
      <3> QED BY <1>s, <2>4, <3>1 DEF TouchReceptionSession
    <2>5. CASE session' = session /\ replies' = replies
      BY <1>s, <2>5
    <2> QED BY <1>13, <2>2, <2>3, <2>4, <2>5 DEF VisitorStep, ReceiveMessage, RecordInterruption,
           ModelReturns, InsertReceptionModelCall, InsertReceptionUsage
  <1>14. ASSUME NEW h \in Requests, IgnoreError(h) \/ Abandon(h) PROVE Simulated
    BY <1>14, <1>s DEF IgnoreError, Abandon
  <1>15. CASE UNCHANGED vars
    BY <1>15, <1>s DEF vars
  <1> QED BY <1>1, <1>2, <1>3, <1>4, <1>5, <1>6, <1>7, <1>8, <1>9, <1>10, <1>11, <1>12,
             <1>13, <1>14, <1>15, <1>16 DEF Next, DeskStep

\* Visitors, members and slow model calls together do no more than hold a
\* conversation: only the party whose turn it is, in an open session, is heard.
THEOREM SessionIsAConversation == Spec => ImplementsConversation
  BY AlwaysIInv, InitConversation, NextConversation, PTL
     DEF Spec, ImplementsConversation, Turns!Spec

-----------------------------------------------------------------------------
(* The holder and the lead.                                                 *)

\* Of all the steps only a takeover and a release touch the owner, and a
\* takeover meets either nobody or the same member.
THEOREM HolderKept == Spec => HolderIsNeverReplaced
  <1>1. TypeOK /\ [Next]_vars =>
          [session.owner # NoMember => session'.owner \in {session.owner, NoMember}]_vars
    <2> SUFFICES ASSUME TypeOK, Next, session'.owner # session.owner
                 PROVE  session.owner = NoMember \/ session'.owner = NoMember
      BY DEF vars
    <2>s. session \in SessionRow
      BY DEF TypeOK
    <2>1. ASSUME NEW m \in Members, NEW e \in 1..session.epoch, TakeoverSession(m, e)
          PROVE  session.owner = NoMember \/ session'.owner = session.owner
      BY <2>1, <2>s DEF TakeoverSession, Switch, SessionRow
    <2>2. ASSUME NEW m \in Members, NEW e \in 1..session.epoch, ReleaseSessionToAI(m, e)
          PROVE  session'.owner = NoMember
      BY <2>2, <2>s DEF ReleaseSessionToAI, Switch, SessionRow
    <2>3. ASSUME NEW e \in 1..session.epoch, EnterAssist(e) PROVE session'.owner = session.owner
      BY <2>3, <2>s DEF EnterAssist, Switch, SessionRow
    <2>4. CASE CloseReceptionSession
      BY <2>4, <2>s DEF CloseReceptionSession, SessionRow
    <2>5. ASSUME NEW k \in desk, DeskStep(k) PROVE session'.owner = session.owner
      BY <2>5, <2>s DEF DeskStep, InsertHumanReply, InsertReplyDraft, AttachReceptionLead, SessionRow
    <2>6. ASSUME NEW h \in Requests, VisitorStep(h) PROVE session'.owner = session.owner
      BY <2>6, <2>s DEF VisitorStep, ReceiveMessage, RecordInterruption, ModelReturns, InsertReply,
         InsertReceptionModelCall, InsertReceptionUsage, AutoSend, TouchReceptionSession, SessionRow
    <2> QED BY <2>1, <2>2, <2>3, <2>4, <2>5, <2>6
          DEF Next, ApproveReceptionReply, SupersedeGeneratedReply, SendReceptionReply,
              LoadForReply, LoadForLead, LoadSession, IgnoreError, Abandon
  <1> QED BY <1>1, TypeCorrect, PTL DEF Spec, HolderIsNeverReplaced

\* Of all the steps only AttachReceptionLead touches the lead, and it looks
\* again in its own transaction.
THEOREM LeadKept == Spec => LeadBoundOnce
  <1>1. TypeOK /\ [Next]_vars =>
          [session.lead # session'.lead => session.lead = NoMember /\ Open]_vars
    <2> SUFFICES ASSUME TypeOK, Next, session.lead # session'.lead
                 PROVE  session.lead = NoMember /\ Open
      BY DEF vars
    <2>s. session \in SessionRow
      BY DEF TypeOK
    <2>1. ASSUME NEW k \in desk, AttachReceptionLead(k) PROVE session.lead = NoMember /\ Open
      BY <2>1 DEF AttachReceptionLead, MayBind
    <2>2. ASSUME NEW e \in 1..session.epoch, EnterAssist(e) PROVE session'.lead = session.lead
      BY <2>2, <2>s DEF EnterAssist, Switch, SessionRow
    <2>3. ASSUME NEW m \in Members, NEW e \in 1..session.epoch, TakeoverSession(m, e)
          PROVE  session'.lead = session.lead
      BY <2>3, <2>s DEF TakeoverSession, Switch, SessionRow
    <2>4. ASSUME NEW m \in Members, NEW e \in 1..session.epoch, ReleaseSessionToAI(m, e)
          PROVE  session'.lead = session.lead
      BY <2>4, <2>s DEF ReleaseSessionToAI, Switch, SessionRow
    <2>5. CASE CloseReceptionSession
      BY <2>5, <2>s DEF CloseReceptionSession, SessionRow
    <2>6. ASSUME NEW h \in Requests, VisitorStep(h) PROVE session'.lead = session.lead
      BY <2>6, <2>s DEF VisitorStep, ReceiveMessage, RecordInterruption, ModelReturns, InsertReply,
         InsertReceptionModelCall, InsertReceptionUsage, AutoSend, TouchReceptionSession, SessionRow
    <2> QED BY <2>1, <2>2, <2>3, <2>4, <2>5, <2>6
          DEF Next, DeskStep, InsertHumanReply, InsertReplyDraft, ApproveReceptionReply, SupersedeGeneratedReply,
              SendReceptionReply, LoadForReply, LoadForLead, LoadSession, IgnoreError, Abandon
  <1> QED BY <1>1, TypeCorrect, PTL DEF Spec, LeadBoundOnce

-----------------------------------------------------------------------------
(* The audit of the switches.                                               *)

Switches == {e \in events : e.type # "interruption"}
Result == [assist |-> "assist", takeover |-> "human", release |-> "ai"]

LEMMA AuditedMeans ==
    SwitchesAudited <=>
      /\ {e.epoch : e \in Switches} = 2..session.epoch
      /\ \A e, f \in Switches : e.epoch = f.epoch => e = f
      /\ \A e \in Switches : e.epoch = session.epoch => session.mode = Result[e.type]
  BY DEF SwitchesAudited, Switches, Result

\* A switch records itself under an epoch no earlier record has.
LEMMA SwitchAudited ==
    ASSUME TypeOK, SwitchesAudited, NEW e \in 1..session.epoch,
           NEW type \in {"assist", "takeover", "release"}, NEW owner, NEW pending,
           Switch(e, type, Result[type], owner, pending)
    PROVE  SwitchesAudited'
  <1> DEFINE new == [type |-> type, epoch |-> e + 1]
  <1>1. session.epoch \in Nat /\ e = session.epoch /\ e >= 1 /\ session \in SessionRow
    <2>1. session \in SessionRow /\ session.epoch \in Nat
      BY DEF TypeOK, SessionRow
    <2>2. e = session.epoch
      BY DEF Switch
    <2> QED BY <2>1, <2>2
  <1>2. session'.epoch = e + 1 /\ session'.mode = Result[type]
    BY <1>1 DEF Switch, SessionRow
  <1>3. Switches' = Switches \cup {new}
    BY DEF Switch, Switches
  <1>4. new.epoch = e + 1 /\ new.type = type
    OBVIOUS
  <1> HIDE DEF new
  <1>5. \A f \in Switches : f.epoch \in 2..e
    BY <1>1, AuditedMeans
  <1>6. {f.epoch : f \in Switches'} = 2..session'.epoch
    <2>1. {f.epoch : f \in Switches'} = {f.epoch : f \in Switches} \cup {e + 1}
      BY <1>3, <1>4
    <2>2. 2..(e + 1) = (2..e) \cup {e + 1}
      BY <1>1
    <2> QED BY <1>1, <1>2, <2>1, <2>2, AuditedMeans
  <1>7. \A f \in Switches : f.epoch # e + 1
    BY <1>1, <1>5
  <1>8. \A f, g \in Switches' : f.epoch = g.epoch => f = g
    BY <1>3, <1>4, <1>7, AuditedMeans
  <1>9. \A f \in Switches' : f.epoch = session'.epoch => session'.mode = Result[f.type]
    BY <1>2, <1>3, <1>4, <1>7
  <1> QED BY <1>6, <1>8, <1>9 DEF SwitchesAudited, Switches, Result

\* A step that records no switch and makes none.
LEMMA NoSwitch ==
    ASSUME SwitchesAudited, Switches' = Switches,
           session'.epoch = session.epoch, session'.mode = session.mode
    PROVE  SwitchesAudited'
  <1>1. /\ {e.epoch : e \in Switches'} = 2..session'.epoch
        /\ \A e, f \in Switches' : e.epoch = f.epoch => e = f
        /\ \A e \in Switches' : e.epoch = session'.epoch => session'.mode = Result[e.type]
    BY AuditedMeans
  <1> QED BY <1>1 DEF SwitchesAudited, Switches, Result

LEMMA NextAudited == TypeOK /\ SwitchesAudited /\ [Next]_vars => SwitchesAudited'
  <1> SUFFICES ASSUME TypeOK, SwitchesAudited, [Next]_vars PROVE SwitchesAudited'
    OBVIOUS
  <1>s. session \in SessionRow
    BY DEF TypeOK
  <1>r. Result["assist"] = "assist" /\ Result["takeover"] = "human" /\ Result["release"] = "ai"
    BY DEF Result
  <1>q. ASSUME events' = events, session' = session PROVE SwitchesAudited'
    BY <1>q, NoSwitch DEF Switches
  <1>1. ASSUME NEW e \in 1..session.epoch, EnterAssist(e) PROVE SwitchesAudited'
    BY <1>1, <1>r, SwitchAudited DEF EnterAssist
  <1>2. ASSUME NEW m \in Members, NEW e \in 1..session.epoch, TakeoverSession(m, e) PROVE SwitchesAudited'
    BY <1>2, <1>r, SwitchAudited DEF TakeoverSession
  <1>3. ASSUME NEW m \in Members, NEW e \in 1..session.epoch, ReleaseSessionToAI(m, e) PROVE SwitchesAudited'
    BY <1>3, <1>r, SwitchAudited DEF ReleaseSessionToAI
  <1>4. CASE CloseReceptionSession
    <2>1. session'.epoch = session.epoch /\ session'.mode = session.mode
      BY <1>4, <1>s DEF CloseReceptionSession, SessionRow
    <2> QED BY <1>4, <2>1, NoSwitch DEF CloseReceptionSession, Switches
  <1>5. ASSUME NEW k \in desk, AttachReceptionLead(k) PROVE SwitchesAudited'
    <2>1. session'.epoch = session.epoch /\ session'.mode = session.mode
      BY <1>5, <1>s DEF AttachReceptionLead, SessionRow
    <2> QED BY <1>5, <2>1, NoSwitch DEF AttachReceptionLead, Switches
  <1>6. ASSUME NEW h \in Requests, RecordInterruption(h) PROVE SwitchesAudited'
    <2>1. Switches' = Switches
      BY <1>6 DEF RecordInterruption, Switches
    <2> QED BY <1>6, <2>1, NoSwitch DEF RecordInterruption
  <1>7. ASSUME NEW h \in Requests, TouchReceptionSession(h) PROVE SwitchesAudited'
    <2>1. session'.epoch = session.epoch /\ session'.mode = session.mode
      BY <1>7, <1>s DEF TouchReceptionSession, SessionRow
    <2> QED BY <1>7, <2>1, NoSwitch DEF TouchReceptionSession, Switches
  <1>8. ASSUME NEW h \in Requests, VisitorStep(h) PROVE SwitchesAudited'
    BY <1>6, <1>7, <1>8, <1>q DEF VisitorStep, ReceiveMessage, ModelReturns, InsertReply,
       InsertReceptionModelCall, InsertReceptionUsage, AutoSend
  <1>9. ASSUME NEW k \in desk, DeskStep(k) PROVE SwitchesAudited'
    BY <1>5, <1>9, <1>q DEF DeskStep, InsertHumanReply, InsertReplyDraft
  <1>10. CASE UNCHANGED vars
    BY <1>10, <1>q DEF vars
  <1> QED BY <1>1, <1>2, <1>3, <1>4, <1>8, <1>9, <1>10, <1>q
        DEF Next, ApproveReceptionReply, SupersedeGeneratedReply, SendReceptionReply,
            LoadForReply, LoadForLead, LoadSession, IgnoreError, Abandon

\* Every epoch after the first was begun by exactly one recorded switch, and the
\* newest is the current mode: the row and its event are written in one
\* transaction guarded by the epoch, so no two members make the same epoch.
THEOREM EveryEpochAudited == Spec => []SwitchesAudited
  <1>1. Init => SwitchesAudited
    <2> SUFFICES ASSUME Init PROVE SwitchesAudited
      OBVIOUS
    <2>1. Switches = {} /\ session.epoch = 1
      BY DEF Init, Switches
    <2>2. {e.epoch : e \in Switches} = {} /\ 2..1 = {}
      BY <2>1
    <2> QED BY <2>1, <2>2, AuditedMeans
  <1> QED BY <1>1, NextAudited, TypeCorrect, PTL DEF Spec

-----------------------------------------------------------------------------
(* Metering follows answering.                                              *)

\* What a visitor's handler has already stored at each of its steps: the
\* message, then an answer of its own making, then the record of the call.
Answered(i) == replies[i].status # "none" /\ replies[i].kind # "human"
StoredBy(h) ==
    /\ visitor[h].pc \in {"answer", "insert", "model", "meter"} => visitor[h].id \in messages
    /\ visitor[h].pc \in {"model", "meter"} => Answered(visitor[h].id)
    /\ visitor[h].pc = "meter" => visitor[h].id \in modelCalls

MeterInv == MeteredAfterReply /\ \A h \in Requests : StoredBy(h)

\* A stored reply stays stored, as of the same kind, and sent if it was sent.
RepliesKept ==
    \A i \in Ids : replies[i].status # "none" =>
        /\ replies'[i].status # "none" /\ replies'[i].kind = replies[i].kind
        /\ replies[i].status = "sent" => replies'[i].status = "sent"

LEMMA StoredKeeps ==
    ASSUME TypeOK, NEW i \in Ids, NEW row, replies' = Stored(i, row)
    PROVE  RepliesKept
  BY DEF Stored, RepliesKept, TypeOK

LEMMA SentKeeps ==
    ASSUME TypeOK, NEW i \in Ids, NEW receipt, Sent(i, receipt)
    PROVE  RepliesKept /\ \A r \in receipts' : r \in receipts \/ replies'[r[1]].status = "sent"
  BY DEF Sent, MaySend, RepliesKept, TypeOK, ReplyRow

LEMMA SwitchKeeps ==
    ASSUME TypeOK, NEW e, NEW type, NEW mode, NEW owner, NEW pending,
           Switch(e, type, mode, owner, pending)
    PROVE  RepliesKept
  BY DEF Switch, supersedeUnsent, RepliesKept, TypeOK, ReplyRow

\* When the replies are kept and the other tables grow in order, metering is in
\* order still, and so is every handler that did not move.
LEMMA MeterGrows ==
    ASSUME TypeOK, MeterInv, RepliesKept,
           messages \subseteq messages', modelCalls \subseteq modelCalls',
           \A i \in modelCalls' : i \in modelCalls \/ (i \in messages' /\ Answered(i)'),
           usage' \subseteq modelCalls',
           \A r \in receipts' : r \in receipts \/ replies'[r[1]].status = "sent"
    PROVE  /\ MeteredAfterReply'
           /\ \A i \in Ids : Answered(i) => Answered(i)'
           /\ \A h \in Requests : visitor'[h] = visitor[h] => StoredBy(h)'
  <1>1. modelCalls \subseteq Ids /\ \A r \in receipts : r[1] \in Ids
    BY DEF TypeOK
  <1>2. \A i \in Ids : Answered(i) => Answered(i)'
    BY DEF Answered, RepliesKept
  <1>3. \A i \in modelCalls' : i \in messages' /\ Answered(i)'
    BY <1>1, <1>2 DEF MeterInv, MeteredAfterReply, Answered
  <1>4. \A r \in receipts' : replies'[r[1]].status = "sent"
    BY <1>1 DEF MeterInv, MeteredAfterReply, RepliesKept
  <1>5. MeteredAfterReply'
    BY <1>3, <1>4 DEF MeteredAfterReply, Answered
  <1>6. ASSUME NEW h \in Requests, visitor'[h] = visitor[h] PROVE StoredBy(h)'
    <2>1. visitor[h].id \in Ids
      BY DEF TypeOK, Handler
    <2> QED BY <1>2, <1>6, <2>1 DEF MeterInv, StoredBy
  <1> QED BY <1>2, <1>5, <1>6

LEMMA NextMetered == TypeOK /\ MeterInv /\ [Next]_vars => MeterInv'
  <1> SUFFICES ASSUME TypeOK, MeterInv, [Next]_vars PROVE MeterInv'
    OBVIOUS
  <1> DEFINE Grown == /\ messages \subseteq messages' /\ modelCalls \subseteq modelCalls'
                      /\ usage' \subseteq modelCalls'
             Quiet == UNCHANGED <<messages, modelCalls, usage>>
             Receipted == \A r \in receipts' : r \in receipts \/ replies'[r[1]].status = "sent"
  <1>u. usage \subseteq modelCalls
    BY DEF MeterInv, MeteredAfterReply
  <1>v. visitor \in [Requests -> Handler] /\ \A h \in Requests : visitor[h].id \in Ids
    BY DEF TypeOK, Handler
  <1>k. replies' = replies => RepliesKept
    BY DEF RepliesKept
  <1>q. ASSUME Quiet, RepliesKept, Receipted, visitor' = visitor PROVE MeterInv'
    BY <1>q, <1>u, MeterGrows DEF MeterInv
  \* A handler takes a step: only where it stands now has to be looked at.
  <1>h. ASSUME NEW h \in Requests, RepliesKept, Receipted, Grown,
               \A i \in modelCalls' : i \in modelCalls \/ (i \in messages' /\ Answered(i)'),
               \A g \in Requests : g # h => visitor'[g] = visitor[g],
               (\A i \in Ids : Answered(i) => Answered(i)') => StoredBy(h)'
        PROVE  MeterInv'
    BY <1>h, MeterGrows DEF MeterInv
  <1>1. ASSUME NEW e \in 1..session.epoch, EnterAssist(e) PROVE MeterInv'
    <2>1. PICK type, mode, owner, pending : Switch(e, type, mode, owner, pending)
      BY <1>1 DEF EnterAssist
    <2> QED BY <2>1, <1>q, SwitchKeeps DEF Switch, rows
  <1>2. ASSUME NEW m \in Members, NEW e \in 1..session.epoch, TakeoverSession(m, e) PROVE MeterInv'
    <2>1. PICK type, mode, owner, pending : Switch(e, type, mode, owner, pending)
      BY <1>2 DEF TakeoverSession
    <2> QED BY <2>1, <1>q, SwitchKeeps DEF Switch, rows
  <1>3. ASSUME NEW m \in Members, NEW e \in 1..session.epoch, ReleaseSessionToAI(m, e) PROVE MeterInv'
    <2>1. PICK type, mode, owner, pending : Switch(e, type, mode, owner, pending)
      BY <1>3 DEF ReleaseSessionToAI
    <2> QED BY <2>1, <1>q, SwitchKeeps DEF Switch, rows
  <1>4. CASE CloseReceptionSession
    BY <1>4, <1>k, <1>q DEF CloseReceptionSession, rows
  <1>5. ASSUME NEW i \in Ids, ApproveReceptionReply(i) PROVE MeterInv'
    <2>1. RepliesKept
      BY <1>5 DEF ApproveReceptionReply, RepliesKept, TypeOK, ReplyRow
    <2> QED BY <1>5, <2>1, <1>q DEF ApproveReceptionReply, rows
  <1>6. ASSUME NEW i \in Ids, SupersedeGeneratedReply(i) PROVE MeterInv'
    <2>1. RepliesKept
      BY <1>6 DEF SupersedeGeneratedReply, RepliesKept, TypeOK, ReplyRow
    <2> QED BY <1>6, <2>1, <1>q DEF SupersedeGeneratedReply, rows
  <1>7. ASSUME NEW i \in Ids, NEW r \in Receipts, SendReceptionReply(i, r) PROVE MeterInv'
    BY <1>7, <1>q, SentKeeps DEF SendReceptionReply
  <1>8. ASSUME NEW k \in desk, DeskStep(k) PROVE MeterInv'
    <2>1. CASE AttachReceptionLead(k)
      BY <2>1, <1>k, <1>q DEF AttachReceptionLead, rows
    <2>2. CASE InsertHumanReply(k) \/ InsertReplyDraft(k)
      <3>1. k.id \in Ids
        BY <2>2 DEF InsertHumanReply, InsertReplyDraft, TypeOK, DeskCall
      <3>2. RepliesKept
        BY <2>2, <3>1, StoredKeeps DEF InsertHumanReply, InsertReplyDraft
      <3> QED BY <2>2, <3>2, <1>q DEF InsertHumanReply, InsertReplyDraft, rows
    <2> QED BY <1>8, <2>1, <2>2 DEF DeskStep
  <1>9. ASSUME NEW h \in Requests, NEW i \in Ids, LoadSession(h, i) PROVE MeterInv'
    <2>1. visitor'[h].pc = "receive" /\ \A g \in Requests : g # h => visitor'[g] = visitor[g]
      BY <1>9, <1>v DEF LoadSession, IdleHandler
    <2>2. StoredBy(h)'
      BY <2>1 DEF StoredBy
    <2> QED BY <1>9, <2>1, <2>2, <1>k, <1>u, <1>h DEF LoadSession, rows
  <1>10. ASSUME NEW h \in Requests, VisitorStep(h) PROVE MeterInv'
    <2>s. visitor[h] \in Handler /\ StoredBy(h)
      BY <1>v DEF MeterInv
    <2>1. CASE ReceiveMessage(h)
      <3>1. /\ visitor'[h].pc \in {"idle", "interrupt", "answer"} /\ visitor'[h].id = visitor[h].id
            /\ \A g \in Requests : g # h => visitor'[g] = visitor[g]
        BY <2>1, <1>v DEF ReceiveMessage, Goto, Handler
      <3>2. StoredBy(h)'
        BY <2>1, <3>1 DEF ReceiveMessage, StoredBy
      <3> QED BY <2>1, <3>1, <3>2, <1>k, <1>u, <1>h DEF ReceiveMessage
    <2>2. CASE RecordInterruption(h)
      <3>1. visitor'[h].pc = "touch" /\ \A g \in Requests : g # h => visitor'[g] = visitor[g]
        BY <2>2, <1>v DEF RecordInterruption, Handler
      <3>2. StoredBy(h)'
        BY <3>1 DEF StoredBy
      <3> QED BY <2>2, <3>1, <3>2, <1>k, <1>u, <1>h DEF RecordInterruption, rows
    <2>3. CASE ModelReturns(h)
      <3>1. /\ visitor'[h].pc = "insert" /\ visitor'[h].id = visitor[h].id
            /\ \A g \in Requests : g # h => visitor'[g] = visitor[g]
        BY <2>3, <1>v DEF ModelReturns, Handler
      <3>2. StoredBy(h)'
        BY <2>3, <2>s, <3>1 DEF ModelReturns, At, StoredBy, rows
      <3> QED BY <2>3, <3>1, <3>2, <1>k, <1>u, <1>h DEF ModelReturns, rows
    <2>4. CASE InsertReply(h)
      <3>i. visitor[h].id \in Ids
        BY <1>v
      <3>1. /\ visitor'[h].pc = AfterInsert(visitor[h].id) /\ visitor'[h].id = visitor[h].id
            /\ \A g \in Requests : g # h => visitor'[g] = visitor[g]
        BY <2>4, <1>v DEF InsertReply, Goto, Handler
      <3>2. RepliesKept
        BY <2>4, <3>i, StoredKeeps DEF InsertReply
      <3>3. visitor'[h].pc = "model" => Answered(visitor[h].id)'
        <4>1. Answer(visitor[h]).status # "none" /\ Answer(visitor[h]).kind # "human"
          BY DEF Answer
        <4> QED BY <2>4, <3>i, <3>1, <4>1 DEF InsertReply, AfterInsert, Stored, Answered, TypeOK
      <3>4. StoredBy(h)'
        <4>1. visitor'[h].pc \in {"model", "idle"}
          BY <3>1 DEF AfterInsert
        <4>2. visitor[h].id \in messages'
          BY <2>4, <2>s DEF InsertReply, At, StoredBy, rows
        <4> QED BY <3>1, <3>3, <4>1, <4>2 DEF StoredBy
      <3> QED BY <2>4, <3>1, <3>2, <3>4, <1>u, <1>h DEF InsertReply, rows
    <2>5. CASE InsertReceptionModelCall(h)
      <3>1. /\ visitor'[h].pc = "meter" /\ visitor'[h].id = visitor[h].id
            /\ \A g \in Requests : g # h => visitor'[g] = visitor[g]
        BY <2>5, <1>v DEF InsertReceptionModelCall, Goto, Handler
      <3>2. visitor[h].id \in messages' /\ Answered(visitor[h].id)' /\ modelCalls' = modelCalls \cup {visitor[h].id}
        BY <2>5, <2>s, <3>1 DEF InsertReceptionModelCall, At, StoredBy, Answered
      <3>3. StoredBy(h)'
        BY <3>1, <3>2 DEF StoredBy
      <3> QED BY <2>5, <3>1, <3>2, <3>3, <1>k, <1>u, <1>h DEF InsertReceptionModelCall
    <2>6. CASE InsertReceptionUsage(h)
      <3>1. /\ visitor'[h].pc = AfterMeter(visitor[h])
            /\ \A g \in Requests : g # h => visitor'[g] = visitor[g]
        BY <2>6, <1>v DEF InsertReceptionUsage, Goto, Handler
      <3>2. StoredBy(h)'
        BY <3>1 DEF AfterMeter, StoredBy
      <3>3. visitor[h].id \in modelCalls
        BY <2>6, <2>s DEF InsertReceptionUsage, At, StoredBy
      <3> QED BY <2>6, <3>1, <3>2, <3>3, <1>k, <1>u, <1>h DEF InsertReceptionUsage
    <2>7. CASE AutoSend(h)
      <3>i. visitor[h].id \in Ids
        BY <1>v
      <3>1. visitor'[h].pc = "touch" /\ \A g \in Requests : g # h => visitor'[g] = visitor[g]
        BY <2>7, <1>v DEF AutoSend, Goto, Handler
      <3>2. StoredBy(h)'
        BY <3>1 DEF StoredBy
      <3>3. RepliesKept /\ Receipted
        BY <2>7, <3>i, SentKeeps DEF AutoSend
      <3> QED BY <2>7, <3>1, <3>2, <3>3, <1>u, <1>h DEF AutoSend
    <2>8. CASE TouchReceptionSession(h)
      <3>1. visitor'[h].pc = "idle" /\ \A g \in Requests : g # h => visitor'[g] = visitor[g]
        BY <2>8, <1>v DEF TouchReceptionSession, Goto, Handler
      <3>2. StoredBy(h)'
        BY <3>1 DEF StoredBy
      <3> QED BY <2>8, <3>1, <3>2, <1>k, <1>u, <1>h DEF TouchReceptionSession, rows
    <2> QED BY <1>10, <2>1, <2>2, <2>3, <2>4, <2>5, <2>6, <2>7, <2>8 DEF VisitorStep
  <1>11. ASSUME NEW h \in Requests, IgnoreError(h) \/ Abandon(h) PROVE MeterInv'
    <2>1. /\ visitor'[h].pc \in {"idle", "send", "touch"}
          /\ \A g \in Requests : g # h => visitor'[g] = visitor[g]
      <3>1. CASE visitor' = [visitor EXCEPT ![h].pc = "touch", ![h].pending = "human_takeover"]
        BY <1>v, <3>1 DEF Handler
      <3>2. ASSUME NEW pc \in {"idle", "send", "touch"}, visitor' = [visitor EXCEPT ![h].pc = pc]
            PROVE  /\ visitor'[h].pc \in {"idle", "send", "touch"}
                   /\ \A g \in Requests : g # h => visitor'[g] = visitor[g]
        BY <1>v, <3>2 DEF Handler
      <3>3. CASE Abandon(h)
        BY <3>2, <3>3 DEF Abandon, Goto
      <3> QED BY <1>11, <3>1, <3>2, <3>3, IgnoreMoves, Zenon
    <2>2. StoredBy(h)'
      BY <2>1 DEF StoredBy
    <2> QED BY <1>11, <2>1, <2>2, <1>k, <1>u, <1>h DEF IgnoreError, Abandon, rows
  <1>12. CASE UNCHANGED vars
    BY <1>12, <1>k, <1>q DEF vars
  <1> QED BY <1>1, <1>2, <1>3, <1>4, <1>5, <1>6, <1>7, <1>8, <1>9, <1>10, <1>11, <1>12, <1>k, <1>q
        DEF Next, LoadForReply, LoadForLead, rows

\* Nobody is charged for an unanswered message: usage implies a recorded model
\* call, and that a stored message and a stored answer of the AI; a receipt
\* implies a sent reply.
THEOREM ChargedAfterAnswer == Spec => []MeteredAfterReply
  <1>1. Init => MeterInv
    <2> SUFFICES ASSUME Init PROVE MeterInv
      OBVIOUS
    <2>1. \A h \in Requests : visitor[h] \in {IdleHandler(i) : i \in Ids}
      BY DEF Init
    <2>2. \A i \in Ids : IdleHandler(i).pc = "idle"
      BY DEF IdleHandler
    <2>3. \A h \in Requests : visitor[h].pc = "idle"
      BY <2>1, <2>2
    <2> QED BY <2>3 DEF Init, MeterInv, MeteredAfterReply, StoredBy
  <1>2. MeterInv => MeteredAfterReply
    BY DEF MeterInv
  <1> QED BY <1>1, <1>2, NextMetered, TypeCorrect, PTL DEF Spec
=============================================================================
