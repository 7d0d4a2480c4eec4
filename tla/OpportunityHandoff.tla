-------------------------- MODULE OpportunityHandoff --------------------------
(***************************************************************************)
(* Handing a confirmed service draft of an opportunity to the order        *)
(* application: confirm, deliver, retry, refresh, revoke, with the calls   *)
(* to the other side that may be refused, cut off or arrive late.          *)
(* Source: handoffsender/service.go and deliver.go,                        *)
(* store/opportunity_handoff.go, httpapi/handler_service_draft.go.         *)
(*                                                                         *)
(* The order application is external: it makes one draft per handoff id,   *)
(* answers a repetition with the draft it has, and its staff accept, edit  *)
(* or withdraw drafts when they like.                                      *)
(***************************************************************************)
EXTENDS Opportunities, HandoffDocument, FiniteSets

CONSTANTS
    Contents,    \* what members fill in, by its fingerprint
    InputOf      \* the input behind each; its category is the opportunity's

ASSUME HandoffAssumption == \A x \in Contents : ToSet(InputOf[x].assets) \subseteq Asset

VARIABLES
    handoffs,    \* rows of opportunity_handoffs, in order of insertion, with what
                 \* the order application told of its draft: target ("" until it
                 \* has), dirty, withdrawn
    drafts,      \* the order application's drafts, by handoff id (external)
    wire         \* documents that arrive after their sender gave up (external)

handoffVars == <<handoffs, drafts, wire>>
vars == <<requestVars, oppVars, handoffVars>>

Rows == ToSet(handoffs)
ByFingerprint(x) == {row \in Rows : row.content = x}
IsLatest(row) == row \in Rows /\ \A other \in Rows : other.version <= row.version
NextVersion == 1 + Len(handoffs)

\* serviceDraftPrelude, for some member who may.
Prelude == opp # NoOpp /\ opp.category = "creative_service" /\ Allowed("update") # {}

ConfirmedInput(x) == [InputOf[x] EXCEPT !.category = opp.category]

-----------------------------------------------------------------------------
(* Confirm.                                                                *)

\* The same content again: what is not delivered yet is sent again, as stored.
ConfirmAgain(c, x) ==
    /\ Prelude /\ Validate(ConfirmedInput(x))
    /\ \E row \in ByFingerprint(x) :
         /\ row.status \notin {"delivered", "revoked"}
         /\ Start(c, [op |-> "send", row |-> row])
    /\ UNCHANGED <<oppVars, handoffVars>>

ConfirmNew(c, x) ==
    /\ Start(c, [op |-> "version", id |-> spent + 1, content |-> x])
    /\ Prelude /\ Validate(ConfirmedInput(x))
    /\ ByFingerprint(x) = {}
    /\ UNCHANGED <<oppVars, handoffVars>>

\* NextOpportunityHandoffVersion, then the document, which may fail its check.
BuildDocument(c) ==
    LET call == calls[c]
    IN  /\ At(c, "version")
        /\ Proceed(c, IF Builds(ConfirmedInput(call.content), call.id, NextVersion)
                      THEN [op |-> "insert", id |-> call.id, content |-> call.content, version |-> NextVersion]
                      ELSE Idle)
        /\ UNCHANGED <<oppVars, handoffVars>>

\* MUTANT of Taken: only the version is unique.
TakenVersion(row) == \E other \in Rows : other.version = row.version

\* UNIQUE (opportunity_id, fingerprint), UNIQUE (opportunity_id, source_version)
Taken(row) == \E other \in Rows : other.content = row.content \/ other.version = row.version

\* The loser of two confirmations answers with the winner's row, or fails.
InsertHandoff(c) ==
    LET call == calls[c]
        row == [id |-> call.id, content |-> call.content, version |-> call.version,
                status |-> "confirmed", target |-> "", dirty |-> FALSE, withdrawn |-> FALSE]
    IN  /\ At(c, "insert")
        /\ IF Taken(row) THEN Finish(c) /\ UNCHANGED handoffs
           ELSE Proceed(c, [op |-> "send", row |-> row]) /\ handoffs' = Append(handoffs, row)
        /\ UNCHANGED <<oppVars, drafts, wire>>

-----------------------------------------------------------------------------
(* Deliver: one call to the order application, then one update of the row  *)
(* as it was loaded.                                                       *)

NewDraft(content) == [content |-> content, status |-> "draft", dirty |-> FALSE, withdrawn |-> FALSE]
With(id, content) ==
    [i \in DOMAIN drafts \cup {id} |-> IF i \in DOMAIN drafts THEN drafts[i] ELSE NewDraft(content)]

Projected(row, draft) ==
    [row EXCEPT !.target = draft.status, !.dirty = draft.dirty, !.withdrawn = draft.withdrawn]

\* 201 and 200 bring the draft; a conflict leaves the row as it is.
Answered(row, draft) ==
    IF draft.content = row.content THEN [Projected(row, draft) EXCEPT !.status = "delivered"] ELSE row

\* Everything else, a refusal included: the row can be sent again.
Unanswered(row) == [row EXCEPT !.status = "delivery_failed"]

Book(c, row) == Proceed(c, [op |-> "book", row |-> row])

Deliver(c) ==
    LET row == calls[c].row
    IN  /\ At(c, "send")
        /\ \/ /\ drafts' = With(row.id, row.content)
              /\ Book(c, Answered(row, drafts'[row.id])) \/ Book(c, Unanswered(row))
              /\ UNCHANGED wire
           \/ /\ Book(c, Unanswered(row))
              /\ wire' \in {wire, wire \cup {[id |-> row.id, content |-> row.content]}}
              /\ UNCHANGED drafts
        /\ UNCHANGED <<oppVars, handoffs>>

\* WHERE id = ?, with every column from memory, the status included.
UpdateDelivery(c) ==
    LET row == calls[c].row
    IN  /\ At(c, "book") /\ Finish(c)
        /\ handoffs' = [i \in DOMAIN handoffs |-> IF handoffs[i].id = row.id THEN row ELSE handoffs[i]]
        /\ UNCHANGED <<oppVars, drafts, wire>>

\* Only the latest version is sent again or asked for, and never once it is
\* revoked.
Addressed(row) == IsLatest(row) /\ row.status # "revoked"

Retry(c) ==
    /\ Prelude
    /\ \E row \in Rows : Addressed(row) /\ Start(c, [op |-> "send", row |-> row])
    /\ UNCHANGED <<oppVars, handoffVars>>

-----------------------------------------------------------------------------
(* Refresh and revoke.                                                     *)

Refresh(c) ==
    /\ Prelude
    /\ \E row \in Rows : Addressed(row) /\ Start(c, [op |-> "ask", row |-> row])
    /\ UNCHANGED <<oppVars, handoffVars>>

FetchProjection(c) ==
    LET row == calls[c].row
    IN  /\ At(c, "ask")
        /\ row.id \in DOMAIN drafts
        /\ Book(c, Projected(row, drafts[row.id]))
        /\ UNCHANGED <<oppVars, handoffVars>>

\* A delivery that failed is revoked without asking.
Revoke(c) ==
    /\ Prelude
    /\ \E row \in Rows :
         /\ Addressed(row) /\ row.target \in {"", "draft"}
         /\ Start(c, [op |-> IF row.status = "delivery_failed" THEN "revoke" ELSE "guard", row |-> row])
    /\ UNCHANGED <<oppVars, handoffVars>>

Untouched(draft) == draft.withdrawn \/ (draft.status = "draft" /\ ~draft.dirty)

GuardRevoke(c) ==
    LET row == calls[c].row
    IN  /\ At(c, "guard")
        /\ row.id \in DOMAIN drafts => Untouched(drafts[row.id])
        /\ Proceed(c, [op |-> "revoke", row |-> row])
        /\ UNCHANGED <<oppVars, handoffVars>>

MarkRevoked(c) ==
    /\ At(c, "revoke") /\ Finish(c)
    /\ handoffs' = [i \in DOMAIN handoffs |->
                       IF handoffs[i].id = calls[c].row.id THEN [handoffs[i] EXCEPT !.status = "revoked"]
                       ELSE handoffs[i]]
    /\ UNCHANGED <<oppVars, drafts, wire>>

-----------------------------------------------------------------------------
(* The order application.                                                  *)

Arrive(sent) ==
    /\ wire' = wire \ {sent}
    /\ drafts' = With(sent.id, sent.content)
    /\ UNCHANGED <<requestVars, oppVars, handoffs>>

EditDraft(id) ==
    /\ AtOnce
    /\ \E edited \in {[drafts[id] EXCEPT !.status = "accepted"], [drafts[id] EXCEPT !.dirty = TRUE],
                      [drafts[id] EXCEPT !.withdrawn = TRUE]} :
         edited # drafts[id] /\ drafts' = [drafts EXCEPT ![id] = edited]
    /\ UNCHANGED <<oppVars, handoffs, wire>>

-----------------------------------------------------------------------------
HandoffNext ==
    \/ \E c \in Callers :
         \/ /\ Free(c)
            /\ \/ \E x \in Contents : ConfirmAgain(c, x) \/ ConfirmNew(c, x)
               \/ Retry(c) \/ Refresh(c) \/ Revoke(c)
         \/ BuildDocument(c) \/ InsertHandoff(c) \/ Deliver(c) \/ UpdateDelivery(c)
         \/ FetchProjection(c) \/ GuardRevoke(c) \/ MarkRevoked(c)
         \/ Abandon(c) /\ UNCHANGED <<oppVars, handoffVars>>
    \/ \E sent \in wire : Arrive(sent)
    \/ Room /\ \E id \in DOMAIN drafts : EditDraft(id)

Init ==
    /\ Quiet
    /\ opp = NoOpp /\ history = <<>>
    /\ handoffs = <<>> /\ drafts = <<>> /\ wire = {}

Next == (OppNext /\ UNCHANGED handoffVars) \/ HandoffNext

Spec == Init /\ [][Next]_vars

-----------------------------------------------------------------------------
\* What is known here of each requirement, which of them some request is handing
\* over or asking after, and how many drafts the order application has of each.
StatusOf == [x \in Contents |->
    IF ByFingerprint(x) = {} THEN "new" ELSE (CHOOSE row \in ByFingerprint(x) : TRUE).status]
Sending == {calls[c].row.content : c \in {d \in Callers : calls[d].op \in {"send", "ask", "book"}}}
DraftsOf == [x \in Contents |-> Cardinality({id \in DOMAIN drafts : drafts[id].content = x})]

Promise == INSTANCE HandoffLedger WITH status <- StatusOf, sending <- Sending, drafts <- DraftsOf

\* The order application gets each confirmed requirement as one draft, however
\* often and by however many requests it is sent; it is called delivered only
\* when the draft exists; and a request that comes after the revocation neither
\* sends it nor changes its status.
ImplementsHandoff == Promise!Spec
=============================================================================
