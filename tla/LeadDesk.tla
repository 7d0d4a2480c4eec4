------------------------------- MODULE LeadDesk -------------------------------
(***************************************************************************)
(* How leads come in and who works them: events of other apps and          *)
(* submissions of public forms go through one intake, which recognises     *)
(* repeats and known persons, and assigns each new lead; staff then edit   *)
(* leads.  Source: store/lead_intake.go, httpapi/handlers_lead_intake.go,  *)
(* SubmitFormInTx of store/form_domain.go, httpapi/handlers_public_forms.go*)
(* and the leads of store/store.go, httpapi/handlers_business.go.          *)
(*                                                                         *)
(* Forms and the pool are modules of their own; their rows are read by the *)
(* intake, and the pick is part of its transaction.  What staff do to the  *)
(* contacts themselves, their merging too, is in DeskContacts.             *)
(***************************************************************************)
EXTENDS LeadForms, LeadPool, Authz

CONSTANTS
    Phones,      \* normalised numbers
    NoPhone,     \* a contact without one
    Keys,        \* event ids of the one app that posts events
    Contents,    \* what it posts
    FactsOf,     \* [Contents -> Facts]: what a content says
    Refs,        \* source references of submissions
    Sources,     \* where submissions and events say they come from
    NoSource,
    Payloads,    \* what visitors fill in
    Owner,       \* the tenant's owner
    Nobody,      \* no assignee
    Statuses,    \* what staff may set a lead to
    SomeForms,   \* versions there may be at the start,
    SomeTenants  \* and the rest of the tenant: its pool, which may have taken
                 \* a turn, contacts, and leads made for them; the ledger rows
                 \* of what came before have keys that do not come again

\* bad: which of the contact data given are no number or no mail address.
Facts == [phone : Phones \cup {NoPhone}, bad : SUBSET {"phone", "email"}, region : Tags,
          source : Sources \cup {NoSource}, allowed : BOOLEAN]
Payload == [phone : Phones, bad : SUBSET {"phone"}, allowed : BOOLEAN]
Staff == Members \cup {Owner}
\* since: how many contacts there were, the contact included, when it was given
\* the phone it has (history).
Contact == [phone : Phones \cup {NoPhone}, live : BOOLEAN, since : Nat]
Lead == [contact : Nat, status : Statuses \cup {"new", "filtered"}, assignee : Staff \cup {Nobody}, source : Nat]

ASSUME DeskAssumption ==
    /\ NoPhone \notin Phones /\ NoSource \notin Sources /\ Nobody \notin Staff /\ Owner \notin Members
    /\ FactsOf \in [Contents -> Facts] /\ Payloads \subseteq Payload
    /\ {"new", "filtered"} \cap Statuses = {}
    /\ SomeForms \subseteq Seq(Form)
    /\ \A tenant \in SomeTenants :
        /\ tenant.pool \in Seq(Entry) /\ tenant.turned \in BOOLEAN
        /\ \A i, j \in DOMAIN tenant.pool : tenant.pool[i].member = tenant.pool[j].member => i = j
        /\ tenant.contacts \in Seq(Contact) /\ tenant.leads \in Seq(Lead)
        /\ \A i \in DOMAIN tenant.contacts : ~tenant.contacts[i].live => tenant.contacts[i].phone = NoPhone

VARIABLES
    contacts,     \* phone of each contact, and whether it is still there
    candidates,   \* pairs proposed as one person
    leads,
    ledger,       \* lead_intake_events
    consents,     \* what was allowed with which submission or event, and
                  \* whether that was revoked
    sourceRefs,   \* provenance rows
    submissions,  \* form_submissions
    entitled      \* who was ever made a lead's assignee on purpose (history)

deskVars == <<contacts, candidates, leads, ledger, consents, sourceRefs, submissions, entitled>>

-----------------------------------------------------------------------------
\* The key of an event is its app and id, that of a submission its family and
\* reference: the versions of a form share it.
EventKey(k) == <<"event", k>>

FormKey(i, ref) == <<"form", ref>>

DeskInit ==
    /\ Quiet
    /\ forms \in SomeForms
    /\ \E tenant \in SomeTenants :
        /\ PoolInit(tenant.pool, tenant.turned)
        /\ contacts = tenant.contacts /\ leads = tenant.leads
        /\ entitled = [l \in DOMAIN leads |-> {leads[l].assignee}]
    /\ sourceRefs = <<>>
    /\ candidates = {} /\ ledger = {} /\ consents = {} /\ submissions = {}

-----------------------------------------------------------------------------
(* The intake (IntakeLeadInTx).                                            *)

\* MUTANT of Original: an event is known again only while its contact is there.
OriginalLive(key) == {e \in ledger : e.key = key /\ contacts[e.contact].live}

Original(key) == {e \in ledger : e.key = key}
Conflict(key, content) == \E e \in Original(key) : e.content # content

\* tenantContactsByPhone
Sharing(phone) == {i \in DOMAIN contacts : phone # NoPhone /\ contacts[i].phone = phone /\ contacts[i].live}

IntakeContact(phone) ==
    IF Cardinality(Sharing(phone)) = 1 THEN CHOOSE i \in Sharing(phone) : TRUE ELSE Len(contacts) + 1

\* MUTANT of Pairs: the new contact is paired with the oldest only.
PairWithOldest(known, new) == {{new, CHOOSE i \in known : \A j \in known : i <= j}}

Pairs(known, new) == {p \in SUBSET (known \cup {new}) : Cardinality(p) = 2}

LeadFilterReason(facts) ==
    IF facts.phone # NoPhone /\ "phone" \in facts.bad THEN "invalid_phone"
    ELSE IF "email" \in facts.bad THEN "invalid_email" ELSE "none"

NewContact(phone) == [phone |-> phone, live |-> TRUE, since |-> Len(contacts) + 1]

\* First delivery under key: contact, candidates, lead, ledger row, and the pick
\* where the entrance asks for one (AssignEnabled).
FirstIntake(key, content, facts, source, assigns) ==
    LET known == Sharing(facts.phone)
        contact == IntakeContact(facts.phone)
    IN  /\ Original(key) = {}
        /\ contacts' = IF contact \in known THEN contacts ELSE Append(contacts, NewContact(facts.phone))
        /\ candidates' = IF Cardinality(known) > 1 THEN candidates \cup Pairs(known, contact) ELSE candidates
        /\ \E pick \in Members \cup {Nobody} :
             /\ IF assigns THEN AssignLead(facts.region, pick, Nobody) ELSE pick = Nobody /\ UNCHANGED poolVars
             /\ leads' = Append(leads, [contact |-> contact, assignee |-> pick, source |-> source,
                                        status |-> IF LeadFilterReason(facts) = "none" THEN "new" ELSE "filtered"])
             /\ entitled' = Append(entitled, {pick})
        /\ ledger' = ledger \cup {[key |-> key, content |-> content, lead |-> Len(leads) + 1, contact |-> contact]}

Consent(contact, ref, allowed) == [contact |-> contact, ref |-> ref, allowed |-> allowed, revoked |-> FALSE]

\* MUTANT of Consented: a contact has one consent.
ConsentedOnce(contact, ref, allowed) ==
    {k \in consents : k.contact # contact} \cup {Consent(contact, ref, allowed)}

\* upsertConsentTx: ref is the submission and the channel it came by, and so
\* tells an event from a form.  A revoked row is answered as it is.
Consented(contact, ref, allowed) ==
    LET own == {k \in consents : k.contact = contact /\ k.ref = ref}
    IN  IF \E k \in own : k.revoked THEN consents
        ELSE (consents \ own) \cup {Consent(contact, ref, allowed)}

-----------------------------------------------------------------------------
(* Events posted by another app (handleLeadIntake).                        *)

FindSourceRef(row) ==
    LET found == {i \in DOMAIN sourceRefs : sourceRefs[i] = row}
    IN  IF found = {} THEN 0 ELSE CHOOSE i \in found : \A j \in found : i <= j

\* The provenance row is looked up, then created, then used: three steps.
PostEvent(c, k, content) ==
    LET source == FactsOf[content].source
        row == FindSourceRef(<<source, k>>)
    IN  /\ Start(c, [op |-> IF source # NoSource /\ row = 0 THEN "source" ELSE "event",
                     key |-> k, content |-> content, source |-> row])
        /\ UNCHANGED <<forms, poolVars, deskVars>>

CreateSourceRef(c) ==
    /\ At(c, "source")
    /\ sourceRefs' = Append(sourceRefs, <<FactsOf[calls[c].content].source, calls[c].key>>)
    /\ Proceed(c, [calls[c] EXCEPT !.op = "event", !.source = Len(sourceRefs')])
    /\ UNCHANGED <<forms, poolVars, contacts, candidates, leads, ledger, consents, submissions, entitled>>

\* MUTANT of Replayed: a repeated event is assigned again.
ReplayedAndAssigned(e) ==
    \E pick \in Members \cup {Nobody} :
        /\ AssignLead(Anywhere, pick, Nobody)
        /\ leads' = [leads EXCEPT ![e.lead].assignee = pick]
        /\ UNCHANGED <<contacts, candidates, ledger, consents, sourceRefs, submissions, entitled>>

\* The original answers, and nothing is written.
Replayed(e) == UNCHANGED <<poolVars, deskVars>>

IntakeEvent(c) ==
    LET call == calls[c]
        facts == FactsOf[call.content]
        key == EventKey(call.key)
    IN  /\ At(c, "event") /\ Finish(c) /\ UNCHANGED forms
        /\ \/ Conflict(key, call.content) /\ UNCHANGED <<poolVars, deskVars>>
           \/ ~Conflict(key, call.content) /\ \E e \in Original(key) : Replayed(e)
           \/ /\ FirstIntake(key, call.content, facts, call.source, TRUE)
              /\ consents' = Consented(IntakeContact(facts.phone), key, facts.allowed)
              /\ UNCHANGED <<sourceRefs, submissions>>

-----------------------------------------------------------------------------
(* A visitor's submission (handlePublicFormSubmit, SubmitFormInTx).        *)

SubmittedUnder(i, source, ref) == \E s \in submissions : s.form = i /\ s.source = source /\ s.ref = ref

\* The only contact with the phone has submitted this form a moment ago.
Suppressed(i, phone) ==
    Cardinality(Sharing(phone)) = 1 /\ \E s \in submissions : s.form = i /\ s.recent /\ s.contact \in Sharing(phone)

\* A submission already stored under its key, or made within the window, is
\* answered with what is there and writes nothing; so is one whose reference
\* came with other data.
SubmitFormInTx(i, source, ref, payload) ==
    LET key == FormKey(i, ref)
        facts == [phone |-> payload.phone, bad |-> payload.bad, region |-> Anywhere]
        found == FindSourceRef(<<source, ref>>)
        Store(contact, lead) ==
            /\ consents' = Consented(contact, <<i, source, ref>>, payload.allowed)
            /\ submissions' = submissions \cup
                 {[form |-> i, source |-> source, ref |-> ref, contact |-> contact, lead |-> lead,
                   allowed |-> payload.allowed, recent |-> TRUE]}
    IN  /\ ~SubmittedUnder(i, source, ref) /\ ~Suppressed(i, payload.phone)
        /\ ~Conflict(key, payload)
        /\ sourceRefs' = IF found = 0 THEN Append(sourceRefs, <<source, ref>>) ELSE sourceRefs
        /\ \/ \E e \in Original(key) :
                /\ Store(e.contact, e.lead)
                /\ UNCHANGED <<poolVars, contacts, candidates, leads, ledger, entitled>>
           \/ /\ FirstIntake(key, payload, facts, IF found = 0 THEN Len(sourceRefs') ELSE found, TRUE)
              /\ Store(IntakeContact(payload.phone), Len(leads) + 1)

\* What the handler reads of the form before the transaction is read again in it.
SubmitForm(i, source, ref, payload) ==
    /\ AtOnce
    /\ Accepting(i)
    /\ SubmitFormInTx(i, source, ref, payload)
    /\ UNCHANGED forms

WindowPasses ==
    /\ AtOnce
    /\ \E s \in submissions : s.recent
    /\ submissions' = {[s EXCEPT !.recent = FALSE] : s \in submissions}
    /\ UNCHANGED <<forms, poolVars, contacts, candidates, leads, ledger, consents, sourceRefs, entitled>>

-----------------------------------------------------------------------------
(* Staff.                                                                  *)

MemberOf(m) ==
    IF m = Owner THEN [role |-> "owner", enabled |-> TRUE, granted |-> TRUE]
    ELSE [role |-> members[m].role, enabled |-> members[m].enabled, granted |-> TRUE]

\* resolveAssignee: the owner may assign to anyone, the others to themselves.
MayAssign(m, to) == to = m \/ (m = Owner /\ to \in Staff)

\* handleContactCreate looks for no one with the same phone.
CreateContact(m, phone) ==
    /\ AtOnce
    /\ Authorize(MemberOf(m), "create", FALSE)
    /\ contacts' = Append(contacts, NewContact(phone))
    /\ UNCHANGED <<forms, poolVars, candidates, leads, ledger, consents, sourceRefs, submissions, entitled>>

\* The contact is looked up before the insert, and may be gone by then.
CreateLead(m, contact, to) ==
    /\ AtOnce
    /\ Authorize(MemberOf(m), "create", FALSE) /\ MayAssign(m, to)
    /\ leads' = Append(leads, [contact |-> contact, status |-> "new", assignee |-> to, source |-> 0])
    /\ entitled' = Append(entitled, {to})
    /\ UNCHANGED <<forms, poolVars, contacts, candidates, ledger, consents, sourceRefs, submissions>>

\* handleLeadPatch decides on one read, UpdateLead patches a second one and
\* writes status and assignee together.  A patch that names no assignee writes
\* back the one it read.
PatchLead(c, m, l, status) ==
    /\ Authorize(MemberOf(m), "update", leads[l].assignee = m)
    /\ Start(c, [op |-> "lead", lead |-> l, status |-> status, to |-> Nobody])
    /\ UNCHANGED <<forms, poolVars, deskVars>>

ReassignLead(c, l, to) ==
    /\ Start(c, [op |-> "lead", lead |-> l, status |-> leads[l].status, to |-> to])
    /\ entitled' = [entitled EXCEPT ![l] = @ \cup {to}]
    /\ UNCHANGED <<forms, poolVars, contacts, candidates, leads, ledger, consents, sourceRefs, submissions>>

LoadLead(c) ==
    LET call == calls[c]
        row == leads[call.lead]
    IN  /\ At(c, "lead")
        /\ Proceed(c, [op |-> "update", lead |-> call.lead,
                       row |-> IF call.to = Nobody THEN [row EXCEPT !.status = call.status]
                               ELSE [row EXCEPT !.assignee = call.to]])
        /\ UNCHANGED <<forms, poolVars, deskVars>>

UpdateLead(c) ==
    /\ At(c, "update") /\ Finish(c)
    /\ leads' = [leads EXCEPT ![calls[c].lead].status = calls[c].row.status,
                              ![calls[c].lead].assignee = calls[c].row.assignee]
    /\ UNCHANGED <<forms, poolVars, contacts, candidates, ledger, consents, sourceRefs, submissions, entitled>>

IntakeNext ==
    \/ \E c \in Callers :
         \/ CreateSourceRef(c) \/ IntakeEvent(c) \/ LoadLead(c) \/ UpdateLead(c)
         \/ /\ Free(c)
            /\ \/ \E k \in Keys, content \in Contents : PostEvent(c, k, content)
               \/ \E l \in DOMAIN leads :
                    \/ \E m \in Staff, status \in Statuses : PatchLead(c, m, l, status)
                    \/ \E to \in Staff : ReassignLead(c, l, to)
    \/ /\ Room
       /\ \/ \E i \in DOMAIN forms, source \in Sources, ref \in Refs, payload \in Payloads :
               SubmitForm(i, source, ref, payload)
          \/ WindowPasses
          \/ \E m \in Staff :
               \/ \E phone \in Phones \cup {NoPhone} : CreateContact(m, phone)
               \/ \E contact \in DOMAIN contacts, to \in Staff : CreateLead(m, contact, to)

DeskNext ==
    \/ IntakeNext
    \/ FormNext /\ UNCHANGED <<poolVars, deskVars>>
    \/ PoolNext /\ UNCHANGED <<forms, deskVars>>
    \/ \E c \in Callers : Abandon(c) /\ UNCHANGED <<forms, poolVars, deskVars>>

-----------------------------------------------------------------------------
(* Properties.                                                             *)

PhoneIn(e) == IF e.key[1] = "event" THEN FactsOf[e.content].phone ELSE e.content.phone

\* One consultation, one lead: however often, through whichever version of a
\* form and whatever has become of the contact, a key has one ledger row and a
\* lead at most one key; and the row's contact is one with the number that the
\* event or visitor gave, unless it was given another one since it was made.
LedgerRowsExact ==
    /\ \A d, e \in ledger : (d.key = e.key \/ d.lead = e.lead) => d = e
    /\ \A e \in ledger : contacts[e.contact].since = e.contact => contacts[e.contact].phone = PhoneIn(e)

\* A contact of the intake and an older one, both there with one number, are a
\* candidate: a possible double is never left unproposed.  The exceptions are
\* staff's: the newer was given its number after it was made, or the older
\* after the newer was there, by a patch, a merge or its undo.
AmbiguityProposed ==
    \A e \in ledger : \A i \in 1..(e.contact - 1) :
            /\ contacts[i].live /\ contacts[i].phone = contacts[e.contact].phone /\ contacts[i].phone # NoPhone
            /\ contacts[i].since <= e.contact /\ contacts[e.contact].since = e.contact
        => {i, e.contact} \in candidates

\* Nobody becomes a lead's assignee but by its first pick, its creation or the
\* owner: repeats do not assign again, status patches of others and edits of the
\* pool do not move a lead to someone new.
AssignedOnPurpose == \A l \in DOMAIN leads : leads[l].assignee \in entitled[l]
=============================================================================
