---------------------------- MODULE ContactMerge ----------------------------
(***************************************************************************)
(* Contacts of one tenant: profile edits, per-source consents, the rows    *)
(* hanging off a contact, intake de-duplication, merge and undo.           *)
(* Source: store/contact_merge.go, store/contact_profile.go, store/store.go *)
(* and store/lead_intake.go, with the HTTP handlers that call them.        *)
(*                                                                         *)
(* The database has one connection (db.Open, SetMaxOpenConns(1)), so each  *)
(* statement and each transaction is atomic; what interleaves is the       *)
(* sequence of store calls of concurrent handlers.  A handler that loads a *)
(* contact, decides, and then writes is two actions, Open and a write,     *)
(* joined by a row of  calls  that holds what the first one read.          *)
(*                                                                         *)
(* Tables are sets of rows.  A row is named by the instant in its          *)
(* created_at column: instants are handed out by  clock  and never repeat. *)
(*                                                                         *)
(* An operator marked MUTANT is no part of the model.  It is the operator  *)
(* below it with a plausible bug, kept to see a property catch that bug.   *)
(***************************************************************************)
EXTENDS Naturals, FiniteSets

CONSTANTS
    Contacts,   \* contact ids
    Creative,   \* those of business category creative_service; the others are
                \* merchant_customer, and no statement changes a category
    Phones,     \* normalized phone numbers
    Blank,      \* the empty field value
    Keys,       \* consent keys: (source_submission_ref, source_channel)
    Tables,     \* which of the four tables referring to a contact are in use
    MaxCalls,   \* requests served at the same time
    MaxClock    \* bound on the instants of a behaviour (model checking only)

ASSUME BlankAssumption == Blank \notin Phones
ASSUME TablesAssumption ==
    /\ Tables \subseteq {"leads", "opportunities", "contact_followups", "follow_ups"}
    /\ "leads" \in Tables
ASSUME CategoryAssumption == Creative \subseteq Contacts
ASSUME BoundsAssumption == MaxCalls \in Nat /\ MaxClock \in Nat

VARIABLES
    clock,        \* the last instant handed out by now()
    contacts,     \* table contacts: one row per id
    records,      \* tables leads, opportunities, contact_followups, follow_ups
    consents,     \* table contact_consents
    merges,       \* table contact_merges: the audit trail
    candidates,   \* table merge_candidates, by unordered pair
    calls         \* handlers between their read and their write

tables == <<contacts, records, consents, merges, candidates>>
vars == <<clock, contacts, records, consents, merges, candidates, calls>>

-----------------------------------------------------------------------------
\* consent_status, the coarse consent of a contact, and its strictness.
Coarse == {"granted", "pending", "denied"}
rank == [granted |-> 0, pending |-> 1, denied |-> 2]

\* One text field stands for name, phone, email, notes and tags: merge, undo,
\* patch and masking treat the five alike.
Profile == [phone : Phones \cup {Blank}, coarse : Coarse]

\* deleted_at is only ever tested for NULL: "tombstone" is NOT NULL.
ContactRow == [status : {"absent", "live", "tombstone"}, profile : Profile, updated : Nat]

NoLead == 0
RecordRow == [id : Nat, table : Tables, contact : Contacts, lead : Nat]

\* revokedAt = 0 is revoked_at NULL.
ConsentRow == [id : Nat, contact : Contacts, key : Keys,
               marketing : BOOLEAN, revokedAt : Nat]

Pairs == {p \in SUBSET Contacts : Cardinality(p) = 2}
CandidateRow == [status : {"none", "pending", "merged", "dismissed"}, resolved : Nat]

\* contact_merges: id is merged_at, undone = 0 is undone_at NULL, after what
\* field_provenance says the target became, collapsed the archived pairs of
\* collapsed_consent_rows.
MergeRow == [id : Nat, target : Contacts, source : Contacts,
             targetBefore : Profile, sourceBefore : Profile, after : Profile,
             moved : SUBSET Nat, movedConsents : SUBSET Nat,
             collapsed : SUBSET [source : ConsentRow, target : ConsentRow],
             undone : Nat]

Call == [at : Nat, contact : Contacts, lead : Nat, read : Profile]

TypeOK ==
    /\ clock \in Nat
    /\ contacts \in [Contacts -> ContactRow]
    /\ records \subseteq RecordRow
    /\ consents \subseteq ConsentRow
    /\ merges \subseteq MergeRow
    /\ candidates \in [Pairs -> CandidateRow]
    /\ calls \subseteq Call

-----------------------------------------------------------------------------
\* MUTANT of Live: deleted_at IS NULL forgotten.
AnyRow(c) == contacts[c].status # "absent"
Live(c) == contacts[c].status = "live"
Touches(m, c) == c \in {m.source, m.target}
Standing == {m \in merges : m.undone = 0}
SameCategory(c, d) == c \in Creative <=> d \in Creative
Mask(p) == [p EXCEPT !.phone = Blank]
LeadsOf(c) == {r \in records : r.table = "leads" /\ r.contact = c}
ConsentsOf(c) == {r \in consents : r.contact = c}
Revoked(r) == r.revokedAt # 0

\* Every request reads the wall clock once; MaxClock bounds a behaviour.
Tick == clock < MaxClock /\ clock' = clock + 1
\* A request that runs as one transaction also needs a free server.
Idle == Cardinality(calls) < MaxCalls

AbsentRow(p) == [status |-> "absent", profile |-> p, updated |-> 0]

Init ==
    /\ clock = 0
    /\ contacts = [c \in Contacts |-> AbsentRow([phone |-> Blank, coarse |-> "pending"])]
    /\ records = {} /\ consents = {} /\ merges = {}
    /\ candidates = [p \in Pairs |-> [status |-> "none", resolved |-> 0]]
    /\ calls = {}

-----------------------------------------------------------------------------
(* Contacts: create, patch, soft delete.                                    *)

CreateContact(c, p) ==
    /\ Idle /\ Tick
    /\ contacts[c].status = "absent"
    /\ contacts' = [contacts EXCEPT ![c] =
                      [status |-> "live", profile |-> p, updated |-> clock']]
    /\ UNCHANGED <<records, consents, merges, candidates, calls>>

\* The first half of every handler that acts on a loaded contact: it is live
\* in the caller's tenant now and its fields are in memory.
Open(c, l) ==
    /\ Idle /\ Tick
    /\ Live(c)
    /\ l \in {NoLead} \cup {r.id : r \in LeadsOf(c)}
    /\ calls' = calls \cup {[at |-> clock', contact |-> c, lead |-> l,
                             read |-> contacts[c].profile]}
    /\ UNCHANGED tables

\* A write outside a transaction evaluates now() before it waits for the one
\* connection: its instant is that of the read, or that of the write.
Stamp(k, ts) ==
    \/ ts = k.at /\ UNCHANGED clock
    \/ Tick /\ ts = clock'

\* MUTANT of Saved: the UPDATE without its deleted_at IS NULL.
SavedUnguarded(k, p, ts) ==
    [contacts EXCEPT ![k.contact] = [@ EXCEPT !.profile = p, !.updated = ts]]

\* UpdateContact writes every field back, patched ones and stale ones; on a
\* tombstone the statement affects no row and the handler still answers 200.
Saved(k, p, ts) ==
    IF Live(k.contact)
      THEN [contacts EXCEPT ![k.contact] = [@ EXCEPT !.profile = p, !.updated = ts]]
      ELSE contacts

SaveContact(k, p) ==
    /\ \E ts \in {k.at, clock + 1} : Stamp(k, ts) /\ contacts' = Saved(k, p, ts)
    /\ calls' = calls \ {k}
    /\ UNCHANGED <<records, consents, merges, candidates>>

PatchContact(k) ==
    \/ \E v \in Phones \cup {Blank} : SaveContact(k, [k.read EXCEPT !.phone = v])
    \/ \E v \in Coarse : SaveContact(k, [k.read EXCEPT !.coarse = v])

SoftDeleteContact(c) ==
    /\ Idle /\ Tick
    /\ Live(c)
    /\ contacts' = [contacts EXCEPT ![c] =
                      [status |-> "tombstone", profile |-> Mask(@.profile), updated |-> clock']]
    /\ UNCHANGED <<records, consents, merges, candidates, calls>>

-----------------------------------------------------------------------------
(* Rows that refer to a contact.                                            *)

\* CreateLead, CreateOpportunity, CreateContactFollowup and CreateFollowUp
\* insert with the contact id checked by Open; only a follow_ups row keeps
\* the lead it was checked with.
AddRecord(k, t) ==
    /\ \E ts \in {k.at, clock + 1} :
         /\ Stamp(k, ts)
         /\ records' = records \cup
              {[id |-> ts, table |-> t, contact |-> k.contact,
                lead |-> IF t = "follow_ups" THEN k.lead ELSE NoLead]}
    /\ calls' = calls \ {k}
    /\ UNCHANGED <<contacts, consents, merges, candidates>>

-----------------------------------------------------------------------------
(* Consents.                                                                *)

\* upsertConsentTx: a revoked key answers its row unchanged, a live key is
\* refreshed in place, an unknown one is inserted.
Upserted(c, key, m, ts) ==
    LET cur == {r \in ConsentsOf(c) : r.key = key}
    IN  IF cur = {}
        THEN consents \cup {[id |-> ts, contact |-> c, key |-> key,
                             marketing |-> m, revokedAt |-> 0]}
        ELSE {IF r \in cur /\ ~Revoked(r) THEN [r EXCEPT !.marketing = m] ELSE r : r \in consents}

UpsertContactConsent(k, key, m) ==
    /\ Tick
    /\ consents' = Upserted(k.contact, key, m, clock')
    /\ calls' = calls \ {k}
    /\ UNCHANGED <<contacts, records, merges, candidates>>

\* The consent is looked up by id and contact inside the transaction: a row
\* that a merge has moved away is not found.  Revoking twice changes nothing.
RevokeContactConsent(k, r) ==
    /\ Tick
    /\ r \in ConsentsOf(k.contact)
    /\ consents' = IF Revoked(r) THEN consents
                     ELSE (consents \ {r}) \cup {[r EXCEPT !.revokedAt = clock']}
    /\ calls' = calls \ {k}
    /\ UNCHANGED <<contacts, records, merges, candidates>>

RevokeContactMarketing(k) ==
    /\ \E ts \in {k.at, clock + 1} :
         /\ Stamp(k, ts)
         /\ consents' = {IF r.contact = k.contact /\ r.marketing /\ ~Revoked(r)
                           THEN [r EXCEPT !.revokedAt = ts] ELSE r : r \in consents}
    /\ calls' = calls \ {k}
    /\ UNCHANGED <<contacts, records, merges, candidates>>

-----------------------------------------------------------------------------
(* Intake: classify by phone over the live contacts, in one transaction.    *)

ContactsByPhone(v) ==
    IF v = Blank THEN {} ELSE {c \in Contacts : Live(c) /\ contacts[c].profile.phone = v}

\* merge_candidates: ON CONFLICT DO NOTHING, an existing row keeps its status.
Proposed(S) ==
    [p \in Pairs |-> IF p \subseteq S /\ candidates[p].status = "none"
                       THEN [status |-> "pending", resolved |-> 0] ELSE candidates[p]]

\* withConsent is the event's own consent record, written by the same
\* transaction; the transaction's row ids are one instant.
IntakeLead(v, c, withConsent) ==
    LET hits == ContactsByPhone(v)
        reuse == Cardinality(hits) = 1
    IN  /\ Idle /\ Tick
        /\ IF reuse THEN c \in hits ELSE contacts[c].status = "absent"
        /\ contacts' = IF reuse THEN contacts ELSE
             [contacts EXCEPT ![c] = [status |-> "live", updated |-> clock',
                                      profile |-> [phone |-> v, coarse |-> "pending"]]]
        /\ candidates' = IF Cardinality(hits) > 1 THEN Proposed(hits \cup {c}) ELSE candidates
        /\ records' = records \cup {[id |-> clock', table |-> "leads", contact |-> c, lead |-> NoLead]}
        /\ \/ ~withConsent /\ consents' = consents
           \/ /\ withConsent
              /\ \E key \in Keys, m \in BOOLEAN : consents' = Upserted(c, key, m, clock')
        /\ UNCHANGED <<merges, calls>>

DismissMergeCandidate(p) ==
    /\ Idle /\ Tick
    /\ candidates[p].status = "pending"
    /\ candidates' = [candidates EXCEPT ![p] = [status |-> "dismissed", resolved |-> clock']]
    /\ UNCHANGED <<contacts, records, consents, merges, calls>>

-----------------------------------------------------------------------------
(* Merge: source INTO target, one transaction with its audit row.           *)

\* MUTANT of RepointedTables: leads left out.
RepointedWithoutLeads == {"opportunities", "contact_followups"}

\* The tables MergeContacts re-points.  follow_ups is not among them.
RepointedTables == {"leads", "opportunities", "contact_followups"}

RepointedRecords(s) == {r \in records : r.contact = s /\ r.table \in RepointedTables}

\* MUTANT of Clashing: no clash is looked for, every consent is re-pointed.
NoClash(t, s) == {}

\* Source consents whose key the target also has, with the target's row.
Clashing(t, s) ==
    {q \in [source : ConsentsOf(s), target : ConsentsOf(t)] : q.source.key = q.target.key}

\* MUTANT of Collapse: the target's revocation mark wins, even when it is NULL.
CollapseKeepsTarget(q) ==
    [q.target EXCEPT !.marketing = q.target.marketing /\ q.source.marketing]

\* The target row of a clash: revocation wins, marketing is the conjunction.
Collapse(q) ==
    [q.target EXCEPT !.revokedAt = IF Revoked(q.target) THEN @ ELSE q.source.revokedAt,
                     !.marketing = q.target.marketing /\ q.source.marketing]

Stricter(a, b) == IF rank[a] >= rank[b] THEN a ELSE b

\* MUTANT of strictestConsent: a revoked consent makes the coarse status
\* "revoked", which contacts.consent_status does not know.
CoarseRevoked(t, s) ==
    IF \E r \in ConsentsOf(t) \cup ConsentsOf(s) : Revoked(r) THEN "revoked"
    ELSE Stricter(contacts[t].profile.coarse, contacts[s].profile.coarse)

strictestConsent(t, s) ==
    IF \E r \in ConsentsOf(t) \cup ConsentsOf(s) : Revoked(r) THEN "denied"
    ELSE Stricter(contacts[t].profile.coarse, contacts[s].profile.coarse)

MergedProfile(t, s) ==
    [phone  |-> IF contacts[t].profile.phone = Blank
                  THEN contacts[s].profile.phone ELSE contacts[t].profile.phone,
     coarse |-> strictestConsent(t, s)]

MergedConsents(t, s) ==
    LET clash == Clashing(t, s)
        gone  == {q.source : q \in clash}
        kept  == {q.target : q \in clash}
    IN  {IF r.contact = s THEN [r EXCEPT !.contact = t] ELSE r : r \in consents \ (gone \cup kept)}
          \cup {Collapse(q) : q \in clash}

\* A pending candidate of the pair is resolved by the merge.
ResolvedCandidates(t, s, ts) ==
    [p \in Pairs |->
       IF p = {t, s} /\ candidates[p].status = "pending"
         THEN [status |-> "merged", resolved |-> ts] ELSE candidates[p]]

\* The row of contact_merges: both profiles as they were, the ids of the rows
\* that move, and the consent pairs that collapse.
AuditRow(t, s, ts) ==
    [id |-> ts, target |-> t, source |-> s,
     targetBefore |-> contacts[t].profile, sourceBefore |-> contacts[s].profile,
     after |-> MergedProfile(t, s),
     moved |-> {r.id : r \in RepointedRecords(s)},
     movedConsents |-> {r.id : r \in ConsentsOf(s)} \ {q.source.id : q \in Clashing(t, s)},
     collapsed |-> Clashing(t, s),
     undone |-> 0]

MergeContacts(t, s) ==
    /\ Idle /\ Tick
    /\ t # s /\ Live(t) /\ Live(s) /\ SameCategory(t, s)
    /\ records' = {IF r \in RepointedRecords(s) THEN [r EXCEPT !.contact = t] ELSE r : r \in records}
    /\ consents' = MergedConsents(t, s)
    /\ contacts' = [contacts EXCEPT
         ![s] = [status |-> "tombstone", profile |-> Mask(@.profile), updated |-> clock'],
         ![t] = [status |-> "live", profile |-> MergedProfile(t, s), updated |-> clock']]
    /\ candidates' = ResolvedCandidates(t, s, clock')
    /\ merges' = merges \cup {AuditRow(t, s, clock')}
    /\ UNCHANGED calls

-----------------------------------------------------------------------------
(* Undo.                                                                    *)

\* MUTANT of SubsequentWrites: the target row's own updated_at is not compared.
RowsAndMergesOnly(m) ==
    \/ \E r \in records : r.contact = m.target /\ r.table \in RepointedTables /\ r.id > m.id
    \/ \E r \in ConsentsOf(m.target) : r.id > m.id
    \/ \E n \in merges : n.id > m.id /\ (Touches(n, m.source) \/ Touches(n, m.target))

\* What UndoContactMerge looks at before it restores: the target row, rows
\* created under the target, and later merges of either side, undone or not.
SubsequentWrites(m) ==
    \/ contacts[m.target].updated > m.id
    \/ \E r \in records : r.contact = m.target /\ r.table \in RepointedTables /\ r.id > m.id
    \/ \E r \in ConsentsOf(m.target) : r.id > m.id
    \/ \E n \in merges : n.id > m.id /\ (Touches(n, m.source) \/ Touches(n, m.target))

\* UNIQUE(contact_id, source_submission_ref, source_channel): moving a consent
\* back fails, and the transaction with it, when the source has the key again.
MoveBackClashes(m) ==
    \E r \in consents, q \in ConsentsOf(m.source) : r.id \in m.movedConsents /\ q.key = r.key

\* MUTANT of RestoredConsents: moved rows return, archived rows are forgotten.
RestoredWithoutArchive(m) ==
    {IF r.id \in m.movedConsents THEN [r EXCEPT !.contact = m.source] ELSE r : r \in consents}

\* Moved rows return; then each archived source row is inserted unless its
\* key is taken, and each target row gets its archived columns back.
RestoredConsents(m) ==
    LET back == {IF r.id \in m.movedConsents THEN [r EXCEPT !.contact = m.source] ELSE r : r \in consents}
        Before(r) == CHOOSE q \in m.collapsed : q.target.id = r.id
        restored == {IF \E q \in m.collapsed : q.target.id = r.id
                       THEN [r EXCEPT !.marketing = Before(r).target.marketing,
                                      !.revokedAt = Before(r).target.revokedAt]
                       ELSE r : r \in back}
        archived == {q.source : q \in m.collapsed}
    IN  restored \cup {r \in archived : ~\E x \in back : x.contact = r.contact /\ x.key = r.key}

\* MUTANT of MovedBackRecords: every row of the target goes to the source.
AllRecordsBack(m) ==
    {IF r.contact = m.target /\ r.table \in RepointedTables
       THEN [r EXCEPT !.contact = m.source] ELSE r : r \in records}

MovedBackRecords(m) ==
    {IF r.id \in m.moved /\ r.table \in RepointedTables
       THEN [r EXCEPT !.contact = m.source] ELSE r : r \in records}

\* MUTANT of ReopenedCandidates: undo leaves the candidate pool alone.
CandidatesUntouched(m) == candidates

\* A candidate resolved by this very merge is pending again.
ReopenedCandidates(m) ==
    [p \in Pairs |->
       IF p = {m.source, m.target} /\ candidates[p].status = "merged" /\ candidates[p].resolved = m.id
         THEN [status |-> "pending", resolved |-> 0] ELSE candidates[p]]

UndoContactMerge(m) ==
    /\ Idle /\ Tick
    /\ m \in Standing
    /\ ~SubsequentWrites(m)
    /\ ~MoveBackClashes(m)
    /\ contacts' = [contacts EXCEPT
         ![m.source] = [status |-> "live", profile |-> m.sourceBefore, updated |-> clock'],
         ![m.target] = [@ EXCEPT !.profile = m.targetBefore, !.updated = clock']]
    /\ records' = MovedBackRecords(m)
    /\ consents' = RestoredConsents(m)
    /\ candidates' = ReopenedCandidates(m)
    /\ merges' = (merges \ {m}) \cup {[m EXCEPT !.undone = clock']}
    /\ UNCHANGED calls

-----------------------------------------------------------------------------
WriteOf(k) ==
    \/ PatchContact(k)
    \/ \E t \in Tables : AddRecord(k, t)
    \/ \E key \in Keys, m \in BOOLEAN : UpsertContactConsent(k, key, m)
    \/ \E r \in consents : RevokeContactConsent(k, r)
    \/ RevokeContactMarketing(k)

Next ==
    \/ \E c \in Contacts, p \in Profile : CreateContact(c, p)
    \/ \E c \in Contacts, l \in {NoLead} \cup {r.id : r \in records} : Open(c, l)
    \/ \E k \in calls : WriteOf(k)
    \/ \E c \in Contacts : SoftDeleteContact(c)
    \/ \E v \in Phones \cup {Blank}, c \in Contacts, w \in BOOLEAN : IntakeLead(v, c, w)
    \/ \E p \in Pairs : DismissMergeCandidate(p)
    \/ \E t, s \in Contacts : MergeContacts(t, s)
    \/ \E m \in merges : UndoContactMerge(m)

Spec == Init /\ [][Next]_vars
-----------------------------------------------------------------------------
(* Safety.  Ids: the row names a table or an archive still knows.           *)

LiveIds == {r.id : r \in consents}
ArchivedRows(m) == {q.source : q \in m.collapsed}
KeptIds == LiveIds \cup UNION {{r.id : r \in ArchivedRows(m)} : m \in Standing}
RevokedIds ==
    {r.id : r \in {x \in consents : Revoked(x)}}
      \cup UNION {{r.id : r \in {x \in ArchivedRows(m) : Revoked(x)}} : m \in Standing}

\* The audit trail and the contacts agree: the source of a merge that has not
\* been undone is a tombstone, and no contact was merged away twice.  Undo may
\* revive exactly the contact its merge removed (contact_merge.go, both halves).
AuditConsistent ==
    /\ \A m \in Standing : contacts[m.source].status = "tombstone" /\ m.source # m.target
    /\ \A m, n \in Standing : m.source = n.source => m = n

\* Merges compose into chains that run forward in time, so following "merged
\* into" from any tombstone ends: nobody is merged into their own tombstone.
ChainsRunForward ==
    \A m, n \in Standing : m.target = n.source => m.id < n.id

\* A tombstone carries no contact details, whatever patch, merge, undo or
\* intake was in flight when it was buried (contact_profile.go:6, 268-272).
TombstonesMasked ==
    \A c \in Contacts : contacts[c].status = "tombstone" => contacts[c].profile.phone = Blank

\* A candidate pair marked merged is backed by the standing merge of that very
\* pair, taken at the instant it was resolved; undo of any merge keeps this.
MergedCandidatesBacked ==
    \A p \in Pairs : candidates[p].status = "merged" =>
        \E m \in Standing : p = {m.source, m.target} /\ m.id = candidates[p].resolved

\* The rows undo would move back are where the merge put them, or were brought
\* back there: whenever no later standing merge touches either side, what the
\* undo is about to move lies under its own target and nobody else's rows do.
MovedRowsStay ==
    \A m \in Standing :
        (\A n \in Standing : n.id > m.id => ~Touches(n, m.source) /\ ~Touches(n, m.target)) =>
            /\ \A r \in records : r.id \in m.moved => r.contact = m.target
            /\ \A r \in consents : r.id \in m.movedConsents => r.contact = m.target
            /\ \A q \in m.collapsed : \E r \in ConsentsOf(m.target) : r.id = q.target.id

\* One request at a time: a revocation on either side of a consent clash
\* outlives the merge.  The surviving row of the pair stays revoked for as long
\* as the merge stands, through refreshes, later merges and their undos.
CollapsedRevocationHolds ==
    \A m \in Standing : \A q \in m.collapsed :
        Revoked(q.source) \/ Revoked(q.target) => q.target.id \in RevokedIds

\* Each contact has at most one consent per source, and no row appears twice.
ConsentKeysUnique ==
    \A r, q \in consents : (r.contact = q.contact /\ r.key = q.key) \/ r.id = q.id => r = q

\* One request at a time: a lead, opportunity, timeline entry or consent never
\* refers to a contact that a standing merge has removed, where nobody finds it.
NoRowLeftBehind ==
    \A m \in Standing :
        /\ \A r \in records : r.table # "follow_ups" => r.contact # m.source
        /\ ConsentsOf(m.source) = {}

\* A consent row, once written, is in the table or in the archive of a merge
\* that can still bring it back (contact_merge.go: "绝不丢失授权明细").
ConsentsConserved == [][KeptIds \subseteq KeptIds']_vars

\* Undo answers 409 rather than lose a profile edit made since the merge: at
\* the undo, the target's fields are still those the merge wrote.
UndoDropsNoProfileEdit ==
    [][\A m \in Standing : (\A n \in merges' : n.id = m.id => n.undone # 0) =>
          contacts[m.target].profile = m.after]_vars

\* A follow-up stays with its lead: both name the same contact
\* (store/followups.go:56-58, checked at handlers_followups.go:120).
FollowUpsWithTheirLead ==
    \A f, l \in records :
        f.table = "follow_ups" /\ l.table = "leads" /\ f.lead = l.id => f.contact = l.contact

\* A revocation is never cleared: its mark, the key and the instant, stays on
\* some row of the table or of an archive that can bring it back
\* (contact_profile.go:3-4, 211-212; contact_merge.go:10; undo itself says so
\* at contact_merge.go:605-606).
RevocationMarks ==
    LET rows == consents \cup UNION {ArchivedRows(m) : m \in Standing}
    IN  {<<r.key, r.revokedAt>> : r \in {x \in rows : Revoked(x)}}
RevocationsPermanent == [][RevocationMarks \subseteq RevocationMarks']_vars
=============================================================================
