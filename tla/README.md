# A verification project for leads-engine

leads-engine is a multi-tenant lead desk: a Go server (`src/server`) over one
SQLite file, a Next.js proxy in front of it (`src/web`), documents and tools.
This directory holds TLA+ models of the parts of the server whose behaviour
depends on the order of things, TLC configurations that check them, and TLAPS
proofs about them. Paths below are relative to `src/server/internal`.

## The system and its parts

**How it runs.** `db.Open` gives the process one database connection
(`SetMaxOpenConns(1)`, db/db.go:27), so every statement, and every transaction,
is atomic. A handler is a goroutine that makes several store calls, some of them
transactions; between two of them any other handler may run. What handlers share
is the tables. Nothing is kept in memory between requests, so a crash only loses
the rest of the handlers that were running.

| Component | State | Operations | Hard behaviour | Correct when |
|---|---|---|---|---|
| Contacts, consents, merge, undo (store/contact_merge.go, store/contact_profile.go, store/store.go) | contacts, contact_consents, leads, opportunities, contact_followups, follow_ups, contact_merges, merge_candidates | create, patch, soft delete, consent upsert and revoke, add a record, propose, merge, undo, dismiss | handlers that act on a contact read earlier; chains of merges undone out of order; archives restored over later writes | no consent or revocation is lost, tombstones stay masked, rows follow their contact, the audit trail agrees with the contacts |
| Reception (store/reception.go, httpapi/handlers_reception.go, reception/engine.go, part of httpapi/handlers_workbench.go) | sessions, messages, replies, receipts, model calls, usage, events | open, message, assist, takeover, release, close, reply, draft, approve, ignore, send, attach a lead | a model call inside a handler, staff switches during it, retries, failures between store calls | only the party whose turn it is is heard, once; every question is answered; switches are audited |
| Notify ingest, tenant map (store/notify_inbox.go, httpapi/handlers_notify_ingest.go, tenantmap) | inbox, revocations, leads, contacts, consents, the operator's list | receive, admit, fetch, store; restart, provision a tenant | repeats, versions out of order, an external fetch between the decision and the writing, restarts on another list | what is acknowledged is stored, in one tenant, as one lead; a revocation lasts |
| Lead intake and leads (store/lead_intake.go, httpapi/handlers_lead_intake.go, store/store.go) | leads, contacts, idempotency ledger, candidates, consents, sources | intake, create, patch, delete, merge and undo contacts | repeats, conflicting content, phones that contacts come to share, patches of a lead or a contact read earlier | one lead per event and with the right contact, ambiguity only proposes, nobody is assigned by accident |
| Assignment pool (store/lead_assign.go) | entries with cursors, members | add, edit, delete, pick; edit a member | cursors across subsets and edits | the round robin is fair |
| Forms (store/form_domain.go, httpapi/handlers_forms.go, handlers_public_forms.go) | versions of a family, submissions | draft, edit, publish, disable, submit | load and write in two statements | a version only moves forward; a submission answers for its lead |
| Channel interactions (store/channel_interaction.go, channelix) | grant, reply floor, interactions, candidates | grant, revoke, deliver, edit, retract, confirm | deliveries in any order, decisions on rows read before | a retracted comment makes no lead |
| Enterprise directory (store/enterprise_directory.go) | companies, suppressions | import, confirm, refuse, delete | refreshes of refused companies | what is refused stays refused |
| Follow-ups, part of the workbench (store/followups.go, httpapi/handlers_workbench.go) | follow_ups | create, patch, complete, reopen, follow through | lost updates, twin requests | one per key, nothing open is left behind |
| Opportunities (store/store.go, httpapi/handlers_opportunity.go) | opportunity, stage history | create, patch, transition | write-back of a row read earlier | the history is a chain that ends at the stage |
| Order hand-off (handoffsender, store/opportunity_handoff.go) | hand-off rows, drafts of the other side | confirm, deliver, retry, refresh, revoke | lost answers, late documents, expiry, a status written back | one draft each, delivered only when it exists |
| SOP reach and its test scheduler (sopreach, store/sop_reach.go) | policy, stops, reminders, drafts, submissions; queue, posts | save, stop, remind, draft, confirm, retry, submit; queue, release, post, call back | gates read in two goes, limits by count, lost answers | a stop that was answered holds, nothing is posted twice |
| Outbound calls (outbound, store/outbound.go) | policy, stops, tasks, attempts | dial, report, retry, cancel, transfer | gates read in two goes | the stop holds; a call is repeated on evidence |
| Light copy (lightcopy, store/light_copy.go) | drafts, metered tasks, tool requests | edit, generate, confirm, hand over | whole rows written back | a version names one text |
| Authorization (authz) | none | Authorize | decided on a record read earlier | a pure table of decisions |
| Matrix drafts, craft hand-off, subscription, isolation, grading, tags | a row each | decisions and appends | derived data | the derived value follows the facts |
| Funnel, ROI, campaign motion, configuration, identity and platform clients, web | none | reports, parsing, proxying | | no state of their own |

How they interact: an HTTP handler authenticates, asks `authz.Authorize`, and calls
the store. Reception, notifications, posted events, forms, channel comments and
companies all run `IntakeLeadInTx`, which creates or reuses a contact, proposes
merge candidates and draws an assignee from the pool; merge and undo then move the
rows that hang off a contact. A campaign submission, an opportunity and a lead are
what light copy and the order hand-off start from; reaching out reads the consents
and the reception session. The task service (platformtask), the notification
sources and the order application are called outside any transaction.
`PROJECT.json` lists every part with its status, and under "hazards" what in this
code is hard to test, at the line where it bites, with the properties that watch
over it.

## Modules

| Module | What it is |
|---|---|
| `ContactMerge`, `MCContactMerge` | contacts of one tenant and everything that refers to them; its instances for TLC |
| `Conversation`, `Reception`, `MCReception` | the abstract promise of a session; one session, statement by statement, which implements it; instances |
| `TenantMap`, `FactLedger`, `NotifyIngest`, `MCNotifyIngest` | where a notification belongs (pure); the abstract ledger of facts; the receiver, which implements it; instances |
| `Requests`, `Authz` | requests between their statements, and what a member may do: shared by all below |
| `LeadForms`, `LeadPool`, `LeadDesk` | forms; the round robin; the intake, submissions and leads over both |
| `DeskContacts` | what staff do to the contacts the intake finds: patch, delete, merge, undo |
| `ChannelInteractions`, `EnterpriseDirectory`, `FollowUps`, `MCLeadDesk` | three more parts on top of the desk, each extending the one before; the last has the `Spec` of all; instances |
| `Opportunities`, `HandoffDocument`, `OpportunityHandoff`, `HandoffLedger`, `MCOpportunityHandoff` | stages; the document and its checks (pure); the hand-off over both; its abstract ledger, which it implements; instances |
| `ReachContext`, `SopReach`, `Outbound`, `ReachSandbox`, `LightCopy`, `Outreach`, `MCOutreach` | time, consents and the session; messages; calls, which share the stops of messages; the test scheduler; drafts; all of them together; instances |
| `ContactMerge_proofs`, `ContactConsents_proofs`, `Reception_proofs`, `Ingest_proofs`, `LeadDesk_proofs`, `LeadPool_proofs`, `Handoff_proofs`, `Outreach_proofs` | theorems, checked by TLAPS |

In every module a definition marked MUTANT is not used by the model: it is the
operator below it with a plausible bug, and PROJECT.json says which property
catches it. Tables are sets of rows, sequences in the order of creation, or
functions from their key. Texts are model values, or their lengths where a limit
decides. A transaction is one action; a handler that reads and writes later is two
or more, and what it holds in between is `calls` (`visitor`, `desk` and `handlers`
in the older modules).

### ContactMerge

An instant, `clock`, is what `now()` returns; it also names the rows, since ids in the
code only serve to tell rows apart and undo compares `created_at`. One field stands for
the five text fields of a profile, which merge, undo, patch and masking treat alike. A
transaction is one action (`MergeContacts`, `UndoContactMerge`, `IntakeLead`,
`SoftDeleteContact`). A handler that loads a contact and writes later is `Open`, which
puts what it read in `calls`, and one of the writes of `WriteOf`; a write outside a
transaction takes its timestamp before it waits for the connection, so `Stamp` lets it
carry the instant of the read or that of the write. Reads by staff and exports change
nothing and are left out.

`UndoContactMerge` is the operation with the most to go wrong: its guards
(`SubsequentWrites`), what the transaction aborts on (`MoveBackClashes`), and five
kinds of restoring. `RestoredConsents` models INSERT ... ON CONFLICT DO NOTHING and
the UPDATE of the surviving row as the code orders them.

### Conversation and Reception

`Conversation` has four variables: whether it is open, whose turn it is, the round
and what has been said. `Reception` has the session row and the six tables beside
it, the visitor handlers between their store calls (`visitor`) and the staff handlers
between their read and their write (`desk`). The refinement maps the epoch to the
round, the mode to the turn and the sent replies to what was said.

`handlePublicMessage` is eight actions in order: load, receive, model answers, insert
the reply, record the model call, meter, send, touch the session (or, under a
takeover, record the interruption and touch). The loaded epoch and mode stay in the
handler. `IgnoreError` is a failed write whose error the handler throws away;
`Abandon` is any other failure, or the process stopping. Staff switches are
transactions with a compare-and-set on the epoch; clients may send any epoch up to
the current one. `LoadForReply`, then `InsertHumanReply` or `InsertReplyDraft`, and
`LoadForLead`, then `AttachReceptionLead`, are the staff handlers that read first.
Message and reply ids are one set, because `UNIQUE(session_id, client_msg_id)` makes
them share a name space. Texts, citations, language and billing fields are left out;
revising a draft changes only its text and is no action. `TouchReceptionSession`
also bumps `version`, which nothing compares. Opening a session is `Init`: a closed
session is never reopened, a new one is another row.

### TenantMap, FactLedger and NotifyIngest

`TenantMap` is `tenantmap.Resolve` as an operator: the operator's list, what the inbox
says of a source, and the provisioned tenants in; a target with its basis, or a
refusal, out. `NotifyIngest` is `handleNotifyIngest`: `Receive` answers repeats and
outdated versions from the inbox, `Admit` decides the tenant, `FetchFails` or `Store`
follow, and `Store` is the whole transaction with its second look at the inbox. The
fetched record is chosen in `Store`, since nothing depends on when it was fetched.
`Restart` ends every handler and takes another list. A submission inside an ingest
makes contact, lead and consents as the intake does; merge is not composed with it.
Rows may exist from before migration 0021 recorded sources (`LegacyRow`).
`FactLedger` is what the source of a notification may rely on: registers that climb,
and permission to market, which a revocation of the reference takes for ever.

### LeadDesk and its extensions

`IntakeLeadInTx` is `FirstIntake`: ledger, contact, candidates, lead and the pick from
the pool in one step, for four kinds of caller. `LeadForms` has the versions of one
family, `LeadPool` the entries with their stored cursors, and `picked` in one step
what `pickAssigneeTx` does to every cursor. `UpdateLead` is a load, a decision and a
write of status and assignee. Posted events and submissions draw from the pool; comments
and companies do not, since their calls set no AssignEnabled (lead_intake.go:410).

A contact is its phone and whether it lives. `DeskContacts` changes both: a patch is a
load and a write-back that a deletion in between turns into nothing
(`PatchContact`, `UpdateContact`), a deletion blanks the phone, a merge masks the source,
fills a gap of the target with its phone and re-points leads and consents, and an undo
puts the phones, leads and consents back unless something was written since
(`SubsequentWrites`). So the phones by which the intake classifies, and the contact a
lead lies with, move under the requests in progress. The ledger names the contact the
intake chose, and no merge re-points that row. What else a merge does is in
`ContactMerge`: the other fields, opportunities, categories, a candidate's status,
revocations by staff, the collapse of two consents of one key, which cannot meet here.

`entitled`, `stretch`, `seenDone` and `since` are history: who was given a lead on
purpose, the picks of the present rotation, which follow-ups were completed since a
request began, how many contacts there were when one was given the phone it has; no guard
reads them. The start (`SomeTenants`, `SomeForms`, `SomeCompanies`) is a tenant that has
run for a while, reached by the operations themselves.

### OpportunityHandoff and HandoffLedger

`Opportunities` has one opportunity, created from nothing, with its stage history;
`HandoffDocument` computes what `BuildEnvelope` makes of a confirmation and what
`validateEnvelope` refuses, with both limits on the description. The hand-off is one
action per store call and one for the call to the order application: `Deliver` may be
refused, answered, cut off before or after it was received (`wire`), and the answer
comes back in the same action or never. The order application is external, as the
requests and answers of deliver.go show it: one draft per hand-off id, repeated
documents answered with it, drafts edited, accepted or withdrawn by its staff.
`HandoffLedger` has a status, the requests under way and a count of drafts per
requirement.

### Outreach

`SopReach` and `Outbound` read their gates in two goes, as the handlers do (policy,
consent and session; then stops and counts), and store in a third step; `Outbound`
also asks the stops of messages. Time is a sequence of instants, `Len(Hours)` to a
day, the first `Opening` of which fall in the day's first second: the day limit compares
timestamps as text, and what was stored then sorts before midnight (`StoredSince`).
`ReachSandbox` holds a mutex over every call, so each is one action. `LightCopy`
writes whole rows; `overwritten` is history and says that one replaced a row its
request had not read. `began` is history: what a request could know when it began.

## Runs

| Run | Shows | Bounds |
|---|---|---|
| `merge_chain` | chains of merges and undos, one request at a time | 3 contacts, 1 consent key, 4 requests on a tenant that has data |
| `merge_concurrent` | two requests in flight, from an empty tenant | 2 contacts, 1 phone, 1 key, 5 requests |
| `reception_race` | a message and its retry, staff switches, a staff request or two that bind a lead, failures anywhere | 2 handlers, 1 id, 2 staff (one an owner), 2 switches |
| `reception_live` | liveness, no failures | 2 handlers, 1 id, 1 switch |
| `notify_ingest` | repeats, versions and restarts between admission and storing | 2 references of one source and one person, 2 versions, 2 contents, 4 lists, 2 handlers, 4 events |
| `lead_desk` | every way into the intake, with pool, forms, patches, follow-ups, and contacts patched, deleted, merged and restored meanwhile | 2 requests, 3 events, 2 phones, 2 members, 3 form versions, 1 comment, 1 company |
| `opportunity_handoff` | stages and the hand-off together | 2 requests, 4 events, 3 contents, of which one too long |
| `outreach` | messages, calls, scheduler and light copy together | 2 requests, 4 events, 2 contacts, 1 key each, 2 instants a day, one in its first second |
| `undo_revocation`, `follow_ups`, `undo_archive`, `reception_closed` | four disagreements with the documents (below) | as small as they allow |

Why the bounds are enough to be interesting. A chain of merges needs three contacts
and two merges; four instants are two merges and both undos, or a merge, a consent
or a patch, an undo and a merge again. Starting `merge_chain` from a tenant with data
(`Seeded`: contacts sharing a phone, a lead and a consent each, every pair a candidate,
at most one revoked contact) spends none of them on set-up; `Seeded` is reachable by
the requests its comment names. Two contacts suffice for a stale handler against a
merge, since the handler names one of them. In reception one id is enough for a retry
and for the clash of a reply id with a message id, and three epochs let a handler wake
up after the session has left its mode and come back to it, which is the case where
comparing modes alone would fail. `MaxDesk` allows one staff request between its read and
its write, and `MaxBinds` two as long as both are about the lead, so that two members do
bind a lead at once; two drafts or replies at once are left to the theorems.

In the ingest four events are a delivery, a restart on another list, a delivery of the
source's other reference and one more repeat; the two versions come under event ids
that say the same and different things, and the legacy row makes sources and targets
differ. At the desk an event is a request from outside or an edit by staff: two requests
race and a third follows, on an empty tenant, and on ones in which two contacts, of one
phone or of two, and a lead are there and the pool has taken its first turn: with weights
1 and 2 that is enough for a whole rotation and the start of the next, for a merge, an
intake and an undo, and for a contact given another's phone before an intake. Three
requests with a loop between them have no effect that two have not, because every pair of
statements that conflict is of two requests. In the hand-off a confirmation, a retry, a revocation and a refresh are
four events, and expiry and late arrival cost none. In outreach they are a policy, a
draft or call, a stop, and a retry or the next day; or two drafts of one day, the first in
its first second. The run offers isolation dials only, and stops without limits to a channel
or a purpose: a production dial is always refused, a limited stop stops less (a global one
through the flag alone). The theorems about outreach hold for every `Offers` and `Scopes`.

`MaxClock`, `MaxEpoch` and `MaxEvents` only end behaviours; deadlock is not checked
because bounded behaviours stop, and because a closed session really comes to rest.
Symmetry is used in runs of safety properties only.

### What the passing runs check

Contacts: `AuditConsistent` and `ChainsRunForward` (the trail of merges agrees with
the tombstones and has no cycles), `MergedCandidatesBacked`, `MovedRowsStay` (what an
undo is about to move is where the merge left it), `NoRowLeftBehind`,
`ConsentsConserved`, `CollapsedRevocationHolds`, `ConsentKeysUnique`,
`TombstonesMasked`, `UndoDropsNoProfileEdit`. The ones checked with one request at a
time are those that are false, or would be, with two: `UndoDropsNoProfileEdit`,
`NoRowLeftBehind`, `ConsentsConserved` and `CollapsedRevocationHolds`. For the first,
a patch takes its timestamp before the merge commits and writes after it, so the
undo's comparison does not see it and overwrites the edit. For the second, a lead or
a consent checked before the merge is inserted on the tombstone after it. For the
other two, such a consent takes the key of an archived row, which the undo then drops
(`undo_archive`); with three contacts that row can be the survivor of an earlier clash.
`MovedRowsStay` runs there too: it needs three contacts to say something, and its
last part, that the survivor of a clash is where it was, shares that fate.

Reception: `EpochFencesKinds` (the epoch alone fences machine text from a person's
turn), `ImplementsConversation`, `SwitchesAudited`, `MeteredAfterReply`,
`HolderIsNeverReplaced`, `LeadBoundOnce`, and under fairness `EveryQuestionAnswered`
and `NoAnswerLeftHanging`.

Ingest: `AcknowledgedIsStored` (a 200 never covers for a content the inbox lacks,
unless something newer is there), `OneLeadPerReference`, `ReferenceInOneTenant`,
`OneTargetPerSource`, and `ImplementsFactLedger`.

Desk: `LedgerExact` (one consultation, one lead, which lies with the contact the intake
gave it or where standing merges carried it; that contact has the phone it gave unless it
was given another), `OriginsBacked` (a submission or a company answers for the lead the
ledger holds, and its one consent follows the contact), `AmbiguityProposed` (a contact of
the intake and an older one of its phone are proposed; the exception is a phone given
later by a patch, a merge or an undo, which the code proposes to nobody),
`AssignedOnPurpose`, `FairShares` (every run of as many picks as the weights add up to is
shared by weight, wherever it starts, while the pool keeps its shape and no pick is made
from the part of it that a tag selects), `FormsOnlyAdvance`, `FollowedThrough`,
`TakenBackMakesNoLead`.

Opportunities: `StageChain`; `ImplementsHandoff`, which includes that a request begun
after a revocation neither sends nor changes the status.

Outreach: `StoppedMeansStopped` (a stop that was answered, a revoked consent, an ended
task hold for every request begun later, whatever policy was saved over the stop),
`SubmissionsLimited`, `RedialedOnEvidence`, `PostedOnce`, `VersionsNameText`. The last
three and the first bind what is really done; limits may be passed by requests under
way at the same time, and by what was submitted in the first second of a day, and the
properties say exactly that. `VersionsNameText` leaves out the versions that overlapping
edits made; those are among the disagreements below.

### Fairness

`FairSpec` of `Reception` asks weak fairness of the steps of a visitor handler that has
begun: a goroutine is scheduled, SQLite answers, and the call to the task service has a
time limit (platformtask/client.go:56, 90) after which the handler goes on without it.
Nothing is asked of visitors, of staff, or of handlers that start. The liveness run
has `MayFail` FALSE: when a store call fails, or the process stops, after the message
is stored and before the reply is, the question is never answered, because a repeat
is taken for a duplicate. The other parts promise nothing that must happen by itself:
no worker retries a hand-off, releases a message or repeats a notification unless
someone outside asks, so there is no fairness the code would justify, and none is
assumed.

### Disagreements

Each with a run that shows it:

- `undo_revocation`: a revocation made after a merge on a consent that collapsed in
  it is cleared by the undo, though contact_profile.go:211-212 calls revocations final.
- `follow_ups`: a merge moves leads but not follow_ups, so a follow-up names a lead
  of another contact, which handlers_followups.go:119-120 would refuse.
- `undo_archive`: a consent inserted on the tombstone by a handler that checked before
  the merge makes the undo drop the archived row that contact_merge.go:339 says is
  never lost.
- `reception_closed`: a message or a human reply checked before a close is stored
  after it, though step 7 of 2026-09-29-hui-1688-design.md says both are refused.
  Nothing is delivered in the closed session; that is `ImplementsConversation`.

The models have the steps of the following too. No run is spent on them, and the
properties above are worded so that they do not depend on them:

- A patch of a form that races its publication rewrites the published version
  (`WriteFormDraft` names no status), against form_domain.go:6.
- A delivery or a refresh in flight writes the status it loaded over `revoked`, which
  opportunity_handoff.go:175-176 calls terminal. `HandoffLedger` allows it to requests
  under way only.
- Revoking a hand-off whose delivery failed asks nobody, so a document that arrived
  although its answer was lost stays with the order application; service.go:11-12
  speaks of asking first.
- A description is limited to 4096 characters by a check that comes after one of 256
  (validate.go:447-451), so a summary the input check admits gives a document its own
  sender refuses.
- A document names the instant it expires, ten minutes after it was made, and later
  retries send the same bytes: after that the other side may refuse what it is sent.
- The shadow follow-up check of handlers_followups.go:123-124 and the insert are two
  statements; a twin of a follow-through can complete the next step that was just
  stored.
- A retraction that lands between the read of a confirmation (channel_interaction.go:264)
  and its transaction is not seen.
- An older export of a company overwrites a newer one: collected_at is not compared.
- Unattended submissions do not limit each other, since the count of others leaves out
  the empty parent they have in common (sop_reach.go:187).
- What was submitted in the first second of a Shanghai day does not count for that day:
  created_at (store.go:27) and midnight (sop_reach.go:247-255) are compared as text
  (sop_reach.go:188), and "16:00:00.5Z" sorts before "16:00:00Z".
- Contacts that come to share a number after both are there are proposed to nobody:
  UpdateContact (store.go:390) looks for no one, nor does an undo. A merge of p1 into p2,
  an intake of p1 that finds no one and makes a contact, and the undo of the merge leave
  two live contacts of p1. `AmbiguityProposed` excepts them.
- Overlapping edits of a light copy can give one version number to two texts, and a
  confirmation computed from an older content stores that content again.
- Two companies of different sources whose keys and ids concatenate alike
  ("ent:source_key:enterprise_id") share an event id; the model has one source.
- Notes of an ingested record are set on a contact that may have been deleted since
  (notify_inbox.go:245); no document says otherwise.

## Proofs

Each proof module EXTENDS the module it is about and proves, for every value of the
constants that satisfies the modules' assumptions, with no bound on requests or length
of behaviour. The pattern is the same throughout: an invariant stronger than the
property, one lemma per operation or group of operations, a lemma that combines them
over the disjuncts of Next, and a temporal step.

`Reception_proofs`:

- `TypeCorrect`: `Spec => []TypeOK`.
- `EpochFence`: `Spec => []EpochFencesKinds`. The invariant is not inductive: a
  handler may be about to insert a reply with the epoch it loaded long ago. `IInv`
  adds what handlers hold: a visitor handler between its load and its insert holds an
  epoch of the past or the present, and if it is the present one, the present mode
  (`LoadedByVisitors`); the same for a human reply on the desk (`LoadedByStaff`).
  A switch always moves to a fresh epoch, so it turns every snapshot into one of the
  past; that is the heart of it (`SwitchFences`).
- `SessionIsAConversation`: `Spec => ImplementsConversation`. Under `IInv` each step
  passes the turn, says one thing (`SentSpeaks`), closes, or is silent
  (`SilentStep`). What is sent bears the current epoch by `MaySend`, and by the fence
  its kind is the current mode's.
- `HolderKept`, `LeadKept`: the action properties.
- `EveryEpochAudited`: `SwitchesAudited`, inductive given the types, because the row
  and its event are written in one transaction that the epoch guards.
- `ChargedAfterAnswer`: `MeteredAfterReply`, from `MeterInv`: at each of its steps a
  handler knows what it has stored (`StoredBy`), and nothing stored is withdrawn or
  changes its kind (`RepliesKept`).

`ContactMerge_proofs` and `ContactConsents_proofs`:

- `TypeCorrect`: `Spec => []TypeOK`.
- `AuditTrail`, `ChainsEnd`, `TombstonesStayMasked`: `AuditConsistent`,
  `ChainsRunForward` and `TombstonesMasked`, together. `AuditInv` adds two facts:
  merges lie in the past (`MergesPast`), so a new merge is later than those it chains
  to; and the target of a standing merge, if it has become a tombstone since, shows an
  instant after the merge (`TargetsFollowed`). The second is why undo, which writes the
  archived profile onto the target without testing deleted_at in its guards, cannot
  unmask a buried target: its comparison of updated_at answers first. Every other
  operation leaves the audit trail alone (`Quiet`, `QuietTrail`).
- `CandidatesBacked`: `MergedCandidatesBacked` is inductive given the types.
- `OneConsentPerSource`: `ConsentKeysUnique`. The table has a UNIQUE index, the model
  has none, so this is what the operations do by themselves. `ConsentInv` speaks of the
  rows of the table and of the archives an undo can still open, as one population
  (`Known`): an id keeps its key (`OneKeyPerId`), a row is in one place only
  (`ArchivesApart`), the rows one merge moved have different keys (`MovedApart`), and so
  have those it archived (`ArchivesSound`). A merge divides the rows of the source
  between moved and archived (`MergeKeeps`). An undo moves rows with different keys to
  a contact that has none of them, by the guard `MoveBackClashes`, and inserts archived
  rows where the key is free (`UndoKeeps`).

- `UndoFindsItsRows`: what an undo is about to move, records and consents, lies under
  the target as long as no later standing merge touches either side, however many
  requests overlap. `TracksInv` follows each row through the merges that held it: two
  standing merges that held the same row are linked by the one that took it away from
  the first, or share their target (`Chained`); and a row lies under the target of a
  merge that held it, or a later merge took it from there (`Followed`). An archived row
  was held by no later merge (`ArchivedLast`), and no moved row can take its key
  (`ArchiveKeysFree`), so what an undo re-inserts disturbs nobody's trail.
- With `ASSUME MaxCalls = 1`, from `SingleInv`: `NothingLeftBehind` (`NoRowLeftBehind`),
  `NoConsentLost` (`ConsentsConserved`), `RevocationWins` (`CollapsedRevocationHolds`),
  `NoEditDropped` (`UndoDropsNoProfileEdit`) and `MovedRowsHeld` (`MovedRowsStay` whole).
  The hypothesis is what the code needs, not what the proof needs: with two calls in
  flight TLC finds each of `NoRowLeftBehind`, `ConsentsConserved` and
  `UndoDropsNoProfileEdit` violated, and the other two rest on them. Under it a request
  still takes its steps one by one, and may be abandoned between them, but none holds a
  read older than the last merge (`OneAtATime`). Contacts, chains and keys remain
  arbitrary. `RevokedSnapshots` says that a merge that met a collapsed row again found it
  revoked, which is why an undo that writes its snapshot back does not clear an earlier
  merge's revocation; `ProfileStamped`, that the target of a standing merge has the
  merge's profile or a later instant.

`Ingest_proofs`, all from `IngestInv`:

- `ReceiverIsALedger`: `Spec => ImplementsFactLedger`; `AnswersTell`, `OneLeadOnly`,
  `ReferencesStayHome`, `SourcesStayHome`: the four invariants. What needs an invariant
  is that a handler decides where a reference belongs, waits for its record, and writes
  the decision down after others have written theirs. `Marks` is what the rows of both
  tables say of references, sources and targets; an admission `Fits` when it agrees
  with every mark of its reference and, unless it continues a legacy row, with every
  recent mark of its source, or, where there is none, with the place the list prefers.
  A restart is the only step that changes the list, and it ends every handler; so two
  admissions that both fit agree, and writing one down leaves the other fitting
  (`MarksGrow`). What the transaction is pinned to fits again (`PinnedFits`). That a
  stored version is newer than every row of its fact (`StoredIsNewer`) gives the
  climbing register and the acknowledged contents. Consents of a reference belong to
  the contact of its one lead (`LeadsSound`), so a revocation reaches them all
  (`RevocationStored`).

`LeadDesk_proofs`, about the whole desk (`Spec` of `FollowUps`):

- `OneLeadEach`, `DoublesProposed`, `NobodyByAccident`: `LedgerExact`,
  `AmbiguityProposed`, `AssignedOnPurpose`, from `DeskInv`. `LedgerInv` adds that a
  ledger row names a lead and a contact that exist. Contacts and leads only grow, and a
  contact keeps its phone or is given one now, after all contacts there are (`Kept`): so
  an intake cannot collide with an earlier one (`FirstIntakeKeeps`), and a phone that a
  patch, a merge or an undo gives makes no pair that would have to be proposed. Where a
  lead lies after merges of merged contacts and undos is not inductive: `Follows` adds
  that each standing merge that moved it took it from where the earlier ones had left it,
  so a merge lengthens the chain (`FollowsOn`), and an undo, whose guard leaves no later
  merge of its target, takes away its last link and brings the lead back to where that
  began (`FollowsBack`). `MergesSound` says besides that an undo that gets past its guard
  has a target that lives, so no deleted contact is given a phone. For the assignee, a request that loaded a lead holds a row
  whose assignee was entitled then, and entitlements are never taken away
  (`ClaimsKept`), so writing the row back late is harmless.
- `FormsNeverReturn`: `FormsOnlyAdvance`; each of the four writes is guarded by the
  status in its WHERE clause or leaves it alone.
- `OriginsAnswer`, `TakenBackForGood`, `FollowedThroughOnce`: `OriginsBacked`,
  `TakenBackMakesNoLead`, `FollowedThrough`, from `WholeInv`, which is `DeskInv` and one
  part for each further table. `SubmissionsSound`: consents of different origins have
  different keys, so no write takes back what a submission rests on, and a consent
  follows its contact through the merges as a lead does (`ItsConsent`). `CompaniesSound`: a
  suppressed company stays in the directory and shows its reason, so an import or a
  confirmation cannot revive it (`NoWayBack`). `ProspectsSound` and `ReadsSound`: a
  retraction is never cleared, and a confirmation under way began before it.
  `FollowSound`: from the list of open rows to the last closing statement each row of
  the person has been seen done or is still to be closed (`ThroughSound`), though others
  add, complete and reopen rows meanwhile.

`LeadPool_proofs`, about the same `Spec`: `SharesExact` (`FairShares`). What the argument
needs of the past is in the invariant. Under `Rotation`, with weight w, total T and n
picks made, the cursor of each member is n * w less T for each of its picks
(`Balanced`); the cursors add up to zero and are above -T; and each pick went to whoever
led the claims, ties by age (`Leads`). After T picks every cursor is a multiple of T and
above -T, so not below zero, and as the sum is zero, all are zero (`FirstRound`). From
then on the claims are those of T picks ago and the same member leads (`SameAgain`), so
the window of the last T picks gains the pick it loses, and every window is shared by
weight (`RotationGoesOn`). Sums over sets come from the fold of the community modules by
way of functions that add up (`Adds`), and facts about every finite set by looking at a
smallest exception (`OneByOne`), which is how induction over data is avoided. `PoolInv`
says that the entries are such members (`Fair`) while the stretch counts: an edit that
keeps the shape keeps member, weight, cursor and order (`ShapeKept`), any other edit or a
lead that goes to a part of the pool starts the stretch anew, and a late write of an
entry writes a weight, never a cursor.

`Handoff_proofs`: `HistoryIsAChain` (`StageChain`). `OppInv` adds what requests hold; a
patch saves the row it read except for the stage, which only the transition writes, with
the history, in its transaction. And `HandoffKeepsItsPromise` (`Spec => ImplementsHandoff`). `HandoffInv`
says: one row per content and per id, ids by count so that they never return
(`RowsSound`); the other side has heard of rows only, and of each with its content
(`DraftsSound`); a request holds a state, perhaps an old one, of a row that exists, and
one that sends holds none that was revoked when it read it; two requests never are
about to insert the same id (`CallsSound`). Hence one draft per content
(`OneDraftEach`), and each step is one of the ledger's.

`Outreach_proofs`:

- `NothingPostedTwice`: `PostedOnce`, from `SandboxInv`: ids are given out once, to a
  draft or an action, and what was posted was attempted and not stopped.
- `StopsHold`, `RedialNeedsEvidence`: `StoppedMeansStopped` and `RedialedOnEvidence`,
  from `DeskInv` of that module: a global stop has its flag set in the stored policy,
  and a policy save never clears it (`StopsFlagged`); a request that began after a stop
  has read a refusal or will read one (`Refusing`), which is where the two-step
  reading of the gates matters; an admitted retry had an accepted report (`Relying`).
- `LimitsHold`: `SubmissionsLimited`, from `LimitInv`: rows are dated no later than
  today (`DaysPassed`), what a request found is still the start of the table
  (`Prefixes`), and an admitted submission is within both limits as far as those rows go
  (`Within`), of the day's rows all but those of its first second, which the count leaves
  out (`StoredSince`). The last survives the passing of days: a day that begins between
  the count and the store has no earlier rows.
- `VersionsTell`: `VersionsNameText`, from `LightInv`: until a row is overwritten
  unread, the stored version is the highest written, and what a request is about to
  store is the text it read or a version further (`FollowsRead`).

Assumptions (each an ASSUME in the module that declares the constants, evaluated by TLC
in the runs): owners are members, `NoMember` is none, `MayFail` is a Boolean, `Blank`
is no phone, `Tables` has leads, bounds are naturals; sources and owners of references
are functions, and of the rows from before the mapping, that a reference had been
delivered to one tenant (`LegacyAssumption`: its uniqueness per tenant and fact is the
UNIQUE key of migration 0011, that there is only one tenant is taken from the source
being one outside tenant); distinguished values (`NoPhone`, `Anywhere`, `Absent`,
`Unusable`, `Unlimited`) are outside the sets they complete; weights are positive; the
entries a pool starts with name each member once (UNIQUE(member_id) of migration 0009),
companies start as drafts, and contacts deleted before the start have no phone.

Only model-checked: liveness (`EveryQuestionAnswered`, `NoAnswerLeftHanging`), which
is out of the prover's reach as is ENABLED. Every invariant, action property and
refinement that a passing run checks is a theorem, five of them for `MaxCalls = 1`, as
said above. The runs that expect a violation are refuted by TLC. What the folds of
`HandoffDocument` compute for each input is not proved either, only run.

## Not modelled, and the plan

Left out, with the reason:

- Matrix drafts and the craft hand-off: one reference row per opportunity filled from an
  outside service, and an in-memory fixture behind one mutex that no handler mounts.
- Subscriptions, tenant isolation: a pure decision over rows of the platform, and a
  record written once.
- Intent grading and tags: scoring rules are long tables of text patterns computed from
  one row; tag links are single statements.
- Funnel, ROI, campaign motion: read-only reports and document builders.
- Identity, configuration, clients of outside services, redaction, the web proxy: they
  keep no state. Signatures of notifications are taken as passed.

Partly modelled: of the workbench, the desk view is computed afresh on each request and
revising a draft changes only its text; of the records store, tenants and invitations,
grants of agents and listings are left out; the migration runner runs before the first
request.

What would come next: merge and undo composed with the ingest, which share the
consents; the matrix-draft row as a third promise beside `HandoffLedger` once a worker
drives it; of the proofs, that the desk implements an abstract ledger of consultations,
as the ingest does, and what `HandoffDocument` guarantees of the documents it admits.
