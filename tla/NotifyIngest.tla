----------------------------- MODULE NotifyIngest -----------------------------
(***************************************************************************)
(* The receiver of directed events: an outside app tells that a person     *)
(* left or revoked an authorized submission; the record is fetched from    *)
(* the app and becomes a lead, a contact and consents.                     *)
(* Source: httpapi/handlers_notify_ingest.go, httpapi/tenant_map.go,       *)
(* store/notify_inbox.go and notifyingest/*.go.                            *)
(*                                                                         *)
(* Events come again, late and in any order; several are handled at once,  *)
(* and a handler waits for its fetch between the lookups and the one       *)
(* transaction that stores everything.  The operator may restart the       *)
(* server with other bindings, which ends every handler, and provision     *)
(* tenants; staff may delete a contact.                                    *)
(*                                                                         *)
(* An operator marked MUTANT is no part of the model.  It is the operator  *)
(* below it with a plausible bug, kept to see a property catch that bug.   *)
(***************************************************************************)
EXTENDS TenantMap, FiniteSets

CONSTANTS
    App,         \* the one source app that delivers
    Refs,        \* source references of that app
    SourceOf,    \* [Refs -> Tenants]: the outside tenant that owns a reference
    Phones,
    PhoneOf,     \* [Refs -> Phones]: whose submission it is
    Contents,    \* what an event with a given id may say
    Traced,      \* the contents that carry trace_id, which names the reference
    Issues,      \* event ids used for one version of a fact
    Versions,    \* source_version
    Produced(_, _), \* reference, version: issues and contents the app signs and sends
    Contacts,    \* contact rows there is room for (model checking only)
    Handlers,    \* requests served at the same time
    MaxEvents,   \* bound on deliveries, restarts, new tenants and deletions together
    Bindings,    \* operator lists the server may be started with
    Provisioned, \* the tenants there may be at the start
    Legacy       \* inbox rows from before sources were recorded

ASSUME IngestAssumption ==
    /\ App \in Apps
    /\ SourceOf \in [Refs -> Tenants] /\ PhoneOf \in [Refs -> Phones]
    /\ Traced \subseteq Contents /\ Versions \subseteq Nat /\ MaxEvents \in Nat
    /\ Bindings \subseteq SUBSET Binding /\ Provisioned \subseteq SUBSET Tenants

VARIABLES
    tenants,      \* provisioned local tenants
    list,         \* the operator list of this start
    inbox,        \* notify_inbox: tenant is the target, source the outside tenant
                  \* as recorded; rows from before that column have their target
                  \* there, and the legacy basis
    revocations,  \* notify_revocations, with the same two columns
    leads,        \* leads with their source reference
    contacts,     \* contact rows: tenant, phone, whether live and with notes
    consents,     \* contact_consents, by contact, reference and channel
    handlers,     \* requests in progress: waiting to "admit" or to "fetch"
    acknowledged, \* deliveries answered 200 (history)
    spent         \* how many of those there were

vars == <<tenants, list, inbox, revocations, leads, contacts, consents, handlers, acknowledged, spent>>
crm == <<leads, contacts, consents>>

-----------------------------------------------------------------------------
Submitted == "lead.authorized_submitted"
Revoked == "lead.consent_revoked"
Types == {Submitted, Revoked}

\* The event id names type, reference, version and issue; with the content it
\* is the signed body.
Delivery == [type : Types, ref : Refs, version : Versions, issue : Issues, content : Contents]
Sendable(d) == <<d.issue, d.content>> \in Produced(d.ref, d.version)
EventOf(d) == <<d.type, d.ref, d.version, d.issue>>
SameBody(n, d) == EventOf(n) = EventOf(d) /\ n.content = d.content

\* SameFact: the identity of a traced fact, whatever event carries it.
SameFact(n, d) ==
    n.type = d.type /\ n.ref = d.ref /\ n.version = d.version /\ n.content = d.content

\* A row from before the mapping: the tenant it was delivered to is its target
\* and its source.  A reference was delivered to one tenant, and a tenant has one
\* row of a fact.
LegacyRow ==
    {n \in [type : Types, ref : Refs, version : Versions, issue : Issues, content : Contents,
            tenant : Tenants, source : Tenants, basis : {"legacy_stored_tenant"}] : n.source = n.tenant}
ASSUME LegacyAssumption ==
    /\ Legacy \subseteq LegacyRow
    /\ \A m, n \in Legacy : m.ref = n.ref => m.tenant = n.tenant /\ (m.type = n.type => m = n)

Channels == {"form_authorization", "channel_reply", "marketing_phone", "marketing_sms"}
Marketing == {"marketing_phone", "marketing_sms"}

Record == [authorization : {"granted", "revoked"}, marketing : BOOLEAN]
NoAdmission == [tenant |-> CHOOSE t \in Tenants : TRUE, basis |-> "operator_binding"]

IdleHandler == [pc |-> "idle", delivery |-> CHOOSE d \in Delivery : TRUE, admission |-> NoAdmission]

-----------------------------------------------------------------------------
(* Lookups.  Rows recorded with their source come first, rows of the       *)
(* legacy basis only when there is none.                                   *)

OwnOrLegacy(own, any) == IF own # {} THEN own ELSE {n \in any : n.basis = "legacy_stored_tenant"}

OfSource(rows, r) == {n \in rows : n.ref = r /\ n.source = SourceOf[r]}

TraceRows(d) ==
    {n \in OfSource(inbox, d.ref) : {n.content, d.content} \subseteq Traced /\ n.version = d.version}

EventRows(d) ==
    LET any == {n \in inbox : EventOf(n) = EventOf(d)}
    IN  OwnOrLegacy(OfSource(any, d.ref), any)

FactRows(d) ==
    LET any == {n \in inbox : n.type = d.type /\ n.ref = d.ref}
    IN  OwnOrLegacy(OfSource(any, d.ref), any)

RevocationRows(r) ==
    OwnOrLegacy(OfSource(revocations, r), {n \in revocations : n.ref = r})

\* oneInboxOwner, oneRevocation: the newest row, an error if targets differ.
Agree(rows) == \A m, n \in rows : m.tenant = n.tenant
Newest(rows) == CHOOSE n \in rows : \A m \in rows : m.version <= n.version

\* handleNotifyIngest before and inside its transaction: what is already
\* stored about this delivery answers it.  seen: fact rows that outdate it.
Answered(d, seen) ==
    \/ \E n \in TraceRows(d) : SameFact(n, d)
    \/ TraceRows(d) = {} /\ \E n \in EventRows(d) : SameBody(n, d)
    \/ TraceRows(d) = {} /\ EventRows(d) = {} /\ seen # {}

Newer(d) == {n \in FactRows(d) : d.version < n.version}

Conflicting(d) ==
    \/ \E n \in TraceRows(d) : ~SameFact(n, d)
    \/ TraceRows(d) = {} /\ \E n \in EventRows(d) : ~SameBody(n, d)
    \/ ~Agree(FactRows(d))

-----------------------------------------------------------------------------
Init ==
    /\ tenants \in Provisioned
    /\ list \in Bindings
    /\ inbox \in {{}, Legacy}
    /\ {n.tenant : n \in inbox} \subseteq tenants
    /\ revocations = {} /\ leads = {} /\ contacts = {} /\ consents = {}
    /\ handlers = [h \in Handlers |-> IdleHandler]
    /\ acknowledged = {} /\ spent = 0

Done(h) == handlers' = [handlers EXCEPT ![h] = IdleHandler]

Acknowledge(h) ==
    /\ Done(h)
    /\ acknowledged' = acknowledged \cup {handlers[h].delivery}
    /\ UNCHANGED <<tenants, list, inbox, revocations, crm, spent>>

Refuse(h) ==
    /\ Done(h)
    /\ UNCHANGED <<tenants, list, inbox, revocations, crm, acknowledged, spent>>

\* The bound: every event that comes from outside counts.
Spend == spent < MaxEvents /\ spent' = spent + 1

At(h, pc) == handlers[h].pc = pc

\* A delivery with a good signature, from and for the right app: replays and
\* outdated versions are answered from the inbox.
Receive(h, d) ==
    /\ At(h, "idle") /\ Sendable(d) /\ Spend
    /\ \/ /\ Answered(d, Newer(d))
          /\ acknowledged' = acknowledged \cup {d}
          /\ UNCHANGED handlers
       \/ /\ ~Conflicting(d) /\ ~Answered(d, Newer(d))
          /\ handlers' = [handlers EXCEPT ![h] = [pc |-> "admit", delivery |-> d, admission |-> NoAdmission]]
          /\ UNCHANGED acknowledged
    /\ UNCHANGED <<tenants, list, inbox, revocations, crm>>

-----------------------------------------------------------------------------
(* Admission: the tenant a new reference goes to.                          *)

\* MUTANT of StickyNotifyMap: only the inbox is read, for a reference.
StickyForgotten(source) == [found |-> FALSE]

StickyNotifyMap(source) ==
    LET rows == {n \in inbox : n.source = source} \cup {n \in revocations : n.source = source}
    IN  IF rows = {} THEN [found |-> FALSE]
        ELSE [found |-> TRUE, targets |-> {n.tenant : n \in rows}, basis |-> (CHOOSE n \in rows : TRUE).basis]

\* MUTANT of OwnerRows: rows from before sources were recorded are not asked.
OwnerRowsOfSource(r) == OfSource(inbox, r)

\* Who owns the reference: inbox, revocations, then the legacy rows of each.
OwnerRows(r) ==
    LET own == OfSource(inbox, r)
        rev == OfSource(revocations, r)
        old == OwnOrLegacy({}, {n \in inbox : n.ref = r})
    IN  IF own # {} THEN own
        ELSE IF rev # {} THEN rev
        ELSE IF old # {} THEN old
        ELSE OwnOrLegacy({}, {n \in revocations : n.ref = r})

admitNotifyTenant(r) ==
    LET rows == OwnerRows(r)
    IN  IF Problem(list) THEN Refused("config")
        ELSE IF rows = {}
          THEN Resolve(App, SourceOf[r], list, StickyNotifyMap(SourceOf[r]), tenants)
        ELSE IF Agree(rows) THEN Target(Newest(rows).tenant, Newest(rows).basis)
        ELSE Refused("conflict")

Admit(h) ==
    LET decision == admitNotifyTenant(handlers[h].delivery.ref)
    IN  /\ At(h, "admit")
        /\ IF decision.ok
             THEN /\ handlers' = [handlers EXCEPT ![h] = [pc |-> "fetch", delivery |-> handlers[h].delivery,
                        admission |-> [tenant |-> decision.tenant, basis |-> decision.basis]]]
                  /\ UNCHANGED <<tenants, list, inbox, revocations, crm, acknowledged, spent>>
             ELSE Refuse(h)

\* The source does not answer, answers another record than the event names, or
\* one that is no authorized submission: nothing is accepted.
FetchFails(h) == At(h, "fetch") /\ Refuse(h)

-----------------------------------------------------------------------------
(* The transaction, once the record is there.  Nothing here depends on     *)
(* when the record was fetched, so it is chosen with the transaction.      *)

\* MUTANT of Outdated: an equal version always counts as seen.
OutdatedOrEqual(d, n) == d.version <= n.version

\* MUTANT of Outdated: only a repetition counts as seen.
OutdatedSame(d, n) == d.version = n.version /\ SameBody(n, d)

Outdated(d, n) == d.version < n.version \/ (d.version = n.version /\ SameBody(n, d))

\* MUTANT of FindLead: a higher version of a fact is taken in as a new one.
FindNoLead(r, t) == {}

FindLead(r, t) == {l \in leads : l.ref = r /\ l.tenant = t}

\* IntakeLeadInTx: the one live contact with the phone, or a new one.
Matches(t, phone) == {c.id : c \in {c \in contacts : c.tenant = t /\ c.phone = phone /\ c.live}}
Unused == Contacts \ {c.id : c \in contacts}

IntakeContact(r, t) ==
    LET same == Matches(t, PhoneOf[r])
    IN  IF Cardinality(same) = 1 THEN CHOOSE c \in same : TRUE ELSE CHOOSE c \in Unused : TRUE

\* upsertConsentTx: a revoked row is never written again.
Upserted(c, r, rec, blocked) ==
    LET Allowed(ch) == ch \notin Marketing \/ (rec.marketing /\ ~blocked)
        mine == {k \in consents : k.contact = c /\ k.ref = r}
        final == {k \in mine : k.revoked}
    IN  (consents \ mine) \cup final
        \cup {[contact |-> c, ref |-> r, channel |-> ch, allowed |-> Allowed(ch), revoked |-> FALSE] :
                ch \in Channels \ {k.channel : k \in final}}

\* RevokeConsentChannelsTx
RevokeChannels(rows, c) ==
    {IF k.contact = c /\ k.channel \in Marketing THEN [k EXCEPT !.revoked = TRUE] ELSE k : k \in rows}

\* RevokeMarketingTx: whatever the contact still allows, of every reference.
RevokeAllowed(rows, c) ==
    {IF k.contact = c /\ k.allowed THEN [k EXCEPT !.revoked = TRUE] ELSE k : k \in rows}

\* Marketing is blocked by this event or by a revocation already stored.
Blocked(d, rec) ==
    \/ d.type = Revoked \/ rec.authorization = "revoked"
    \/ RevocationRows(d.ref) # {}

TopVersion(d) ==
    IF RevocationRows(d.ref) = {} \/ Newest(RevocationRows(d.ref)).version < d.version
      THEN d.version ELSE Newest(RevocationRows(d.ref)).version

\* UpsertNotifyRevocationTx: the version climbs, the map columns stay.
UpsertNotifyRevocation(d, adm) ==
    LET same == {n \in revocations : n.ref = d.ref /\ n.tenant = adm.tenant}
        top == TopVersion(d)
    IN  IF same = {}
          THEN revocations \cup {[ref |-> d.ref, version |-> top, tenant |-> adm.tenant,
                                  source |-> SourceOf[d.ref], basis |-> adm.basis]}
          ELSE (revocations \ same)
               \cup {[n EXCEPT !.version = IF n.version < top THEN top ELSE n.version] : n \in same}

NewRow(d, adm) ==
    [type |-> d.type, ref |-> d.ref, version |-> d.version, issue |-> d.issue, content |-> d.content,
     tenant |-> adm.tenant, source |-> SourceOf[d.ref], basis |-> adm.basis]

\* InsertNotifyInboxTx, or UpdateNotifyInboxFactTx, which keeps the map columns.
WriteInbox(d, adm) ==
    inbox' =
      IF FactRows(d) = {} THEN inbox \cup {NewRow(d, adm)}
      ELSE LET n == Newest(FactRows(d))
           IN  (inbox \ {n}) \cup {[n EXCEPT !.version = d.version, !.issue = d.issue, !.content = d.content]}

\* The fact row pins the tenant; without one the stored revocation does.
Pinned(h) ==
    LET d == handlers[h].delivery
        rows == IF FactRows(d) # {} THEN FactRows(d) ELSE RevocationRows(d.ref)
    IN  IF rows = {} THEN handlers[h].admission
        ELSE [tenant |-> Newest(rows).tenant, basis |-> Newest(rows).basis]

StoreRevocation(d, adm) ==
    /\ consents' = LET found == {l.contact : l \in FindLead(d.ref, adm.tenant)}
                   IN  IF found = {} THEN consents
                       ELSE LET c == CHOOSE c \in found : TRUE
                            IN  RevokeChannels(RevokeAllowed(consents, c), c)
    /\ revocations' = UpsertNotifyRevocation(d, adm)
    /\ UNCHANGED <<leads, contacts>>

\* notes: the record's chat handle goes to a contact without notes, whether or
\* not the contact has been deleted since.
StoreSubmission(d, adm, rec) ==
    LET found == FindLead(d.ref, adm.tenant)
        c == IF found # {} THEN (CHOOSE l \in found : TRUE).contact ELSE IntakeContact(d.ref, adm.tenant)
        known == {k \in contacts : k.id = c}
        row == IF known # {} THEN CHOOSE k \in known : TRUE
               ELSE [id |-> c, tenant |-> adm.tenant, phone |-> PhoneOf[d.ref], live |-> TRUE, notes |-> TRUE]
        rows == Upserted(c, d.ref, rec, Blocked(d, rec))
    IN  /\ found # {} \/ Unused # {}
        /\ leads' = IF found # {} THEN leads ELSE leads \cup {[ref |-> d.ref, tenant |-> adm.tenant, contact |-> c]}
        /\ contacts' = (contacts \ known) \cup {[row EXCEPT !.notes = TRUE]}
        /\ consents' = IF Blocked(d, rec) THEN RevokeChannels(rows, c) ELSE rows
        /\ UNCHANGED revocations

\* A revocation and a fact that name different tenants are left alone.
Torn(d) ==
    FactRows(d) # {} /\ RevocationRows(d.ref) # {}
    /\ Newest(RevocationRows(d.ref)).tenant # Newest(FactRows(d)).tenant

Store(h, rec) ==
    LET d == handlers[h].delivery
        adm == Pinned(h)
    IN  /\ At(h, "fetch")
        /\ IF Answered(d, {n \in FactRows(d) : Outdated(d, n)}) THEN Acknowledge(h)
           ELSE IF \/ Conflicting(d) \/ Torn(d) \/ ~Agree(RevocationRows(d.ref))
                   \/ \E n \in FactRows(d) : d.version = n.version
             THEN Refuse(h)
           ELSE /\ IF d.type = Revoked \/ rec.authorization = "revoked"
                     THEN StoreRevocation(d, adm) ELSE StoreSubmission(d, adm, rec)
                /\ WriteInbox(d, adm)
                /\ Done(h)
                /\ acknowledged' = acknowledged \cup {d}
                /\ UNCHANGED <<tenants, list, spent>>

-----------------------------------------------------------------------------
(* The surroundings.                                                       *)

\* The server stops, with whatever it was handling, and starts on another list.
Restart ==
    /\ Spend
    /\ list' \in Bindings
    /\ handlers' = [h \in Handlers |-> IdleHandler]
    /\ UNCHANGED <<tenants, inbox, revocations, crm, acknowledged>>

CreateTenant(t) ==
    /\ Spend
    /\ t \notin tenants
    /\ tenants' = tenants \cup {t}
    /\ UNCHANGED <<list, inbox, revocations, crm, handlers, acknowledged>>

SoftDeleteContact(c) ==
    /\ Spend
    /\ \E k \in contacts : k.id = c /\ k.live
    /\ contacts' = {IF k.id = c THEN [k EXCEPT !.live = FALSE, !.notes = FALSE] ELSE k : k \in contacts}
    /\ UNCHANGED <<tenants, list, inbox, revocations, leads, consents, handlers, acknowledged>>

Next ==
    \/ \E h \in Handlers :
         \/ \E d \in Delivery : Receive(h, d)
         \/ Admit(h) \/ FetchFails(h)
         \/ \E rec \in Record : Store(h, rec)
    \/ Restart
    \/ \E t \in Tenants : CreateTenant(t)
    \/ \E c \in Contacts : SoftDeleteContact(c)

Spec == Init /\ [][Next]_vars

-----------------------------------------------------------------------------
(* Properties.                                                             *)

\* What the source was told is accepted is stored, or something newer is: an
\* answer never covers for a content the inbox does not have.
AcknowledgedIsStored ==
    \A d \in acknowledged : \E n \in inbox :
        /\ n.type = d.type /\ n.ref = d.ref
        /\ n.version > d.version \/ (n.version = d.version /\ n.content = d.content)

\* However often a reference is spent, by overlapping requests and with
\* its contact deleted in between, it has at most one lead.
OneLeadPerReference == \A l, m \in leads : l.ref = m.ref => l = m

\* Submission, revocation and lead of a reference are all in one tenant, also
\* when they came under different binding lists or before sources were kept.
ReferenceInOneTenant ==
    \A m, n \in inbox \cup revocations \cup leads : m.ref = n.ref => m.tenant = n.tenant

\* References of one outside tenant that do not continue a row from before
\* sources were recorded all went to one target, whatever lists the server was
\* restarted with.
OneTargetPerSource ==
    LET recent == {n \in inbox : n.basis # "legacy_stored_tenant"}
    IN  \A m, n \in recent : m.source = n.source => m.tenant = n.tenant

\* The accepted facts, the references revoked and those that may be marketed to.
FactsOf == {[type |-> n.type, ref |-> n.ref, version |-> n.version, content |-> n.content] : n \in inbox}
RevokedOf == {n.ref : n \in revocations}
MarketableOf == {k.ref : k \in {k \in consents : k.channel \in Marketing /\ k.allowed /\ ~k.revoked}}

Ledger == INSTANCE FactLedger WITH
    facts <- FactsOf, revoked <- RevokedOf, marketable <- MarketableOf

\* The receiver is the ledger of facts it stands for: once a revocation is
\* stored, no marketing consent given with its reference comes into force,
\* whichever came first and whatever was replayed since.
ImplementsFactLedger == Ledger!Spec
=============================================================================
