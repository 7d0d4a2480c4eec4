------------------------ MODULE ContactMerge_proofs ------------------------
(***************************************************************************)
(* Theorems about ContactMerge, for any contacts, phones, keys, tables,    *)
(* number of concurrent requests and length of the behaviour.              *)
(*                                                                         *)
(* TypeCorrect     every table keeps its columns' types                    *)
(* AuditTrail      the audit trail agrees with the tombstones              *)
(* ChainsEnd       "merged into" never turns back on itself                *)
(* TombstonesStayMasked   no write in flight unmasks a tombstone           *)
(***************************************************************************)
EXTENDS ContactMerge, TLAPS

-----------------------------------------------------------------------------
(* Types.                                                                   *)

LEMMA InitTypeOK == Init => TypeOK
  <1> SUFFICES ASSUME Init PROVE TypeOK
    OBVIOUS
  <1>1. contacts \in [Contacts -> ContactRow]
    BY DEF Init, AbsentRow, ContactRow, Profile, Coarse
  <1>2. candidates \in [Pairs -> CandidateRow]
    BY DEF Init, CandidateRow
  <1> QED BY <1>1, <1>2 DEF Init, TypeOK

LEMMA TickType ==
    ASSUME clock \in Nat, Tick
    PROVE  clock' \in Nat /\ clock' = clock + 1 /\ clock' # 0
  BY DEF Tick

LEMMA StampType ==
    ASSUME clock \in Nat, NEW k \in Call, NEW ts \in {k.at, clock + 1}, Stamp(k, ts)
    PROVE  ts \in Nat /\ clock' \in Nat /\ clock' >= clock
  BY DEF Stamp, Tick, Call

LEMMA StricterType == \A a, b \in Coarse : Stricter(a, b) \in Coarse
  BY DEF Stricter

LEMMA MergedProfileType ==
    ASSUME TypeOK, NEW t \in Contacts, NEW s \in Contacts
    PROVE  MergedProfile(t, s) \in Profile
  <1>1. contacts[t].profile \in Profile /\ contacts[s].profile \in Profile
    BY DEF TypeOK, ContactRow
  <1>2. strictestConsent(t, s) \in Coarse
    BY <1>1, StricterType DEF strictestConsent, Profile, Coarse
  <1> QED BY <1>1, <1>2 DEF MergedProfile, Profile

LEMMA MaskType == \A p \in Profile : Mask(p) \in Profile
  BY DEF Mask, Profile

LEMMA UpsertedType ==
    ASSUME consents \subseteq ConsentRow,
           NEW c \in Contacts, NEW key \in Keys, NEW m \in BOOLEAN, NEW ts \in Nat
    PROVE  Upserted(c, key, m, ts) \subseteq ConsentRow
  <1>1. [id |-> ts, contact |-> c, key |-> key, marketing |-> m, revokedAt |-> 0] \in ConsentRow
    BY DEF ConsentRow
  <1>2. \A r \in ConsentRow : [r EXCEPT !.marketing = m] \in ConsentRow
    BY DEF ConsentRow
  <1> QED BY <1>1, <1>2 DEF Upserted

LEMMA MergedConsentsType ==
    ASSUME consents \subseteq ConsentRow, NEW t \in Contacts, NEW s \in Contacts
    PROVE  /\ MergedConsents(t, s) \subseteq ConsentRow
           /\ Clashing(t, s) \subseteq [source : ConsentRow, target : ConsentRow]
  <1>1. Clashing(t, s) \subseteq [source : ConsentRow, target : ConsentRow]
    BY DEF Clashing, ConsentsOf
  <1>2. \A q \in Clashing(t, s) : Collapse(q) \in ConsentRow
    <2> SUFFICES ASSUME NEW q \in Clashing(t, s) PROVE Collapse(q) \in ConsentRow
      OBVIOUS
    <2>1. q.source \in ConsentRow /\ q.target \in ConsentRow
      BY <1>1
    <2> QED BY <2>1 DEF Collapse, ConsentRow
  <1>3. \A r \in ConsentRow : [r EXCEPT !.contact = t] \in ConsentRow
    BY DEF ConsentRow
  <1>4. MergedConsents(t, s) \subseteq ConsentRow
    BY <1>2, <1>3 DEF MergedConsents
  <1> QED BY <1>1, <1>4

LEMMA RestoredConsentsType ==
    ASSUME consents \subseteq ConsentRow, NEW m \in MergeRow
    PROVE  RestoredConsents(m) \subseteq ConsentRow
  <1> DEFINE back == {IF r.id \in m.movedConsents THEN [r EXCEPT !.contact = m.source] ELSE r : r \in consents}
             Before(r) == CHOOSE q \in m.collapsed : q.target.id = r.id
             Again(r) == IF \E q \in m.collapsed : q.target.id = r.id
                           THEN [r EXCEPT !.marketing = Before(r).target.marketing,
                                          !.revokedAt = Before(r).target.revokedAt]
                           ELSE r
  <1>1. m.source \in Contacts /\ m.collapsed \subseteq [source : ConsentRow, target : ConsentRow]
    BY DEF MergeRow
  <1>2. back \subseteq ConsentRow
    BY <1>1 DEF ConsentRow
  <1>3. \A r \in ConsentRow : Again(r) \in ConsentRow
    <2> SUFFICES ASSUME NEW r \in ConsentRow PROVE Again(r) \in ConsentRow
      OBVIOUS
    <2>1. CASE \E q \in m.collapsed : q.target.id = r.id
      <3>1. Before(r) \in m.collapsed
        BY <2>1
      <3>2. Before(r).target \in ConsentRow
        BY <1>1, <3>1
      <3>3. Before(r).target.marketing \in BOOLEAN /\ Before(r).target.revokedAt \in Nat
        BY <3>2 DEF ConsentRow
      <3>4. [r EXCEPT !.marketing = Before(r).target.marketing,
                      !.revokedAt = Before(r).target.revokedAt] \in ConsentRow
        BY <3>3 DEF ConsentRow
      <3> QED BY <2>1, <3>4
    <2>2. CASE ~\E q \in m.collapsed : q.target.id = r.id
      BY <2>2
    <2> QED BY <2>1, <2>2
  <1>4. {q.source : q \in m.collapsed} \subseteq ConsentRow
    BY <1>1
  <1>5. RestoredConsents(m) = {Again(r) : r \in back}
            \cup {r \in {q.source : q \in m.collapsed} : ~\E x \in back : x.contact = r.contact /\ x.key = r.key}
    BY DEF RestoredConsents
  <1> HIDE DEF back, Again
  <1> QED BY <1>2, <1>3, <1>4, <1>5

\* Rows that move to another contact keep their type.
LEMMA MovedRecordsType ==
    ASSUME records \subseteq RecordRow, NEW c \in Contacts
    PROVE  \A r \in records : [r EXCEPT !.contact = c] \in RecordRow
  BY DEF RecordRow

LEMMA MergeRowType ==
    ASSUME TypeOK, clock' \in Nat, NEW t \in Contacts, NEW s \in Contacts
    PROVE  AuditRow(t, s, clock') \in MergeRow
  <1>1. contacts[t].profile \in Profile /\ contacts[s].profile \in Profile
    BY DEF TypeOK, ContactRow
  <1>2. MergedProfile(t, s) \in Profile
    BY MergedProfileType
  <1>3. {r.id : r \in RepointedRecords(s)} \in SUBSET Nat
    BY DEF TypeOK, RepointedRecords, RecordRow
  <1>4. {r.id : r \in ConsentsOf(s)} \ {q.source.id : q \in Clashing(t, s)} \in SUBSET Nat
    BY DEF TypeOK, ConsentsOf, ConsentRow
  <1>5. Clashing(t, s) \in SUBSET [source : ConsentRow, target : ConsentRow]
    BY MergedConsentsType DEF TypeOK
  <1> QED BY <1>1, <1>2, <1>3, <1>4, <1>5 DEF AuditRow, MergeRow

LEMMA WriteTypeOK ==
    ASSUME TypeOK, NEW k \in calls, WriteOf(k)
    PROVE  TypeOK'
  <1>k. k \in Call /\ k.contact \in Contacts /\ k.at \in Nat /\ k.lead \in Nat /\ k.read \in Profile
    BY DEF TypeOK, Call
  <1>c. clock \in Nat
    BY DEF TypeOK
  <1>1. ASSUME NEW p \in Profile, SaveContact(k, p) PROVE TypeOK'
    <2>1. PICK ts \in {k.at, clock + 1} : Stamp(k, ts) /\ contacts' = Saved(k, p, ts)
      BY <1>1 DEF SaveContact
    <2>2. ts \in Nat /\ clock' \in Nat
      BY <1>c, <1>k, <2>1, StampType
    <2>3. contacts' \in [Contacts -> ContactRow]
      BY <1>k, <2>1, <2>2 DEF TypeOK, Saved, ContactRow
    <2> QED BY <1>1, <2>2, <2>3 DEF SaveContact, TypeOK
  <1>2. CASE PatchContact(k)
    <2>1. CASE \E v \in Phones \cup {Blank} : SaveContact(k, [k.read EXCEPT !.phone = v])
      <3>1. PICK v \in Phones \cup {Blank} : SaveContact(k, [k.read EXCEPT !.phone = v])
        BY <2>1
      <3>2. [k.read EXCEPT !.phone = v] \in Profile
        BY <1>k DEF Profile
      <3> QED BY <1>1, <3>1, <3>2
    <2>2. CASE \E v \in Coarse : SaveContact(k, [k.read EXCEPT !.coarse = v])
      <3>1. PICK v \in Coarse : SaveContact(k, [k.read EXCEPT !.coarse = v])
        BY <2>2
      <3>2. [k.read EXCEPT !.coarse = v] \in Profile
        BY <1>k DEF Profile
      <3> QED BY <1>1, <3>1, <3>2
    <2> QED BY <1>2, <2>1, <2>2 DEF PatchContact
  <1>3. ASSUME NEW t \in Tables, AddRecord(k, t) PROVE TypeOK'
    <2>1. PICK ts \in {k.at, clock + 1} :
            /\ Stamp(k, ts)
            /\ records' = records \cup {[id |-> ts, table |-> t, contact |-> k.contact,
                                          lead |-> IF t = "follow_ups" THEN k.lead ELSE NoLead]}
      BY <1>3 DEF AddRecord
    <2>2. ts \in Nat /\ clock' \in Nat
      BY <1>c, <1>k, <2>1, StampType
    <2>3. records' \subseteq RecordRow
      BY <1>k, <2>1, <2>2 DEF TypeOK, RecordRow, NoLead
    <2> QED BY <1>3, <2>2, <2>3 DEF AddRecord, TypeOK
  <1>4. ASSUME NEW key \in Keys, NEW m \in BOOLEAN, UpsertContactConsent(k, key, m) PROVE TypeOK'
    <2>1. clock' \in Nat
      BY <1>c, <1>4, TickType DEF UpsertContactConsent
    <2>2. consents' \subseteq ConsentRow
      BY <1>k, <1>4, <2>1, UpsertedType DEF UpsertContactConsent, TypeOK
    <2> QED BY <1>4, <2>1, <2>2 DEF UpsertContactConsent, TypeOK
  <1>5. ASSUME NEW r \in consents, RevokeContactConsent(k, r) PROVE TypeOK'
    <2>1. clock' \in Nat
      BY <1>c, <1>5, TickType DEF RevokeContactConsent
    <2>2. [r EXCEPT !.revokedAt = clock'] \in ConsentRow
      BY <2>1 DEF TypeOK, ConsentRow
    <2>3. consents' \subseteq ConsentRow
      BY <1>5, <2>2 DEF RevokeContactConsent, TypeOK
    <2> QED BY <1>5, <2>1, <2>3 DEF RevokeContactConsent, TypeOK
  <1>6. CASE RevokeContactMarketing(k)
    <2>1. PICK ts \in {k.at, clock + 1} :
            /\ Stamp(k, ts)
            /\ consents' = {IF r.contact = k.contact /\ r.marketing /\ ~Revoked(r)
                              THEN [r EXCEPT !.revokedAt = ts] ELSE r : r \in consents}
      BY <1>6 DEF RevokeContactMarketing
    <2>2. ts \in Nat /\ clock' \in Nat
      BY <1>c, <1>k, <2>1, StampType
    <2>3. \A r \in ConsentRow : [r EXCEPT !.revokedAt = ts] \in ConsentRow
      BY <2>2 DEF ConsentRow
    <2>4. consents' \subseteq ConsentRow
      BY <2>1, <2>3 DEF TypeOK
    <2> QED BY <1>6, <2>2, <2>4 DEF RevokeContactMarketing, TypeOK
  <1> QED BY <1>2, <1>3, <1>4, <1>5, <1>6 DEF WriteOf

LEMMA MergeTypeOK ==
    ASSUME TypeOK, NEW t \in Contacts, NEW s \in Contacts, MergeContacts(t, s)
    PROVE  TypeOK'
  <1>1. clock' \in Nat
    BY TickType DEF MergeContacts, TypeOK
  <1>2. contacts' \in [Contacts -> ContactRow]
    <2>1. contacts[s] \in ContactRow /\ contacts[s].profile \in Profile
      BY DEF TypeOK, ContactRow
    <2>2. [status |-> "tombstone", profile |-> Mask(contacts[s].profile), updated |-> clock'] \in ContactRow
      BY <1>1, <2>1, MaskType DEF ContactRow
    <2>3. [status |-> "live", profile |-> MergedProfile(t, s), updated |-> clock'] \in ContactRow
      BY <1>1, MergedProfileType DEF ContactRow
    <2> QED BY <2>2, <2>3 DEF MergeContacts, TypeOK
  <1>3. records' \subseteq RecordRow
    BY MovedRecordsType DEF MergeContacts, TypeOK
  <1>4. consents' \subseteq ConsentRow
    BY MergedConsentsType DEF MergeContacts, TypeOK
  <1>5. candidates' \in [Pairs -> CandidateRow]
    BY <1>1 DEF MergeContacts, TypeOK, ResolvedCandidates, CandidateRow
  <1>6. merges' \subseteq MergeRow
    BY <1>1, MergeRowType DEF MergeContacts, TypeOK
  <1> QED BY <1>1, <1>2, <1>3, <1>4, <1>5, <1>6 DEF MergeContacts, TypeOK

LEMMA UndoTypeOK ==
    ASSUME TypeOK, NEW m \in merges, UndoContactMerge(m)
    PROVE  TypeOK'
  <1>1. clock' \in Nat
    BY TickType DEF UndoContactMerge, TypeOK
  <1>m. m \in MergeRow
    BY DEF TypeOK
  <1>2. contacts' \in [Contacts -> ContactRow]
    <2>1. /\ m.source \in Contacts /\ m.target \in Contacts
          /\ m.sourceBefore \in Profile /\ m.targetBefore \in Profile
      BY <1>m DEF MergeRow
    <2>2. [status |-> "live", profile |-> m.sourceBefore, updated |-> clock'] \in ContactRow
      BY <1>1, <2>1 DEF ContactRow
    <2>3. \A row \in ContactRow : [row EXCEPT !.profile = m.targetBefore, !.updated = clock'] \in ContactRow
      BY <1>1, <2>1 DEF ContactRow
    <2> QED BY <2>1, <2>2, <2>3 DEF UndoContactMerge, TypeOK
  <1>3. records' \subseteq RecordRow
    <2>1. m.source \in Contacts
      BY <1>m DEF MergeRow
    <2> QED BY <2>1, MovedRecordsType DEF UndoContactMerge, MovedBackRecords, TypeOK
  <1>4. consents' \subseteq ConsentRow
    BY <1>m, RestoredConsentsType DEF UndoContactMerge, TypeOK
  <1>5. candidates' \in [Pairs -> CandidateRow]
    BY DEF UndoContactMerge, TypeOK, ReopenedCandidates, CandidateRow
  <1>6. merges' \subseteq MergeRow
    <2>1. [m EXCEPT !.undone = clock'] \in MergeRow
      BY <1>1, <1>m DEF MergeRow
    <2> QED BY <2>1 DEF UndoContactMerge, TypeOK
  <1> QED BY <1>1, <1>2, <1>3, <1>4, <1>5, <1>6 DEF UndoContactMerge, TypeOK

LEMMA IntakeTypeOK ==
    ASSUME TypeOK, NEW v \in Phones \cup {Blank}, NEW c \in Contacts, NEW w \in BOOLEAN,
           IntakeLead(v, c, w)
    PROVE  TypeOK'
  <1>1. clock' \in Nat
    BY TickType DEF IntakeLead, TypeOK
  <1>2. contacts' \in [Contacts -> ContactRow]
    <2>1. [status |-> "live", updated |-> clock',
           profile |-> [phone |-> v, coarse |-> "pending"]] \in ContactRow
      BY <1>1 DEF ContactRow, Profile, Coarse
    <2> QED BY <2>1 DEF IntakeLead, TypeOK
  <1>3. records' \subseteq RecordRow
    <2>1. [id |-> clock', table |-> "leads", contact |-> c, lead |-> NoLead] \in RecordRow
      BY <1>1, TablesAssumption DEF RecordRow, NoLead
    <2> QED BY <2>1 DEF IntakeLead, TypeOK
  <1>4. consents' \subseteq ConsentRow
    BY <1>1, UpsertedType DEF IntakeLead, TypeOK
  <1>5. candidates' \in [Pairs -> CandidateRow]
    <2>1. \A S : Proposed(S) \in [Pairs -> CandidateRow]
      BY DEF TypeOK, Proposed, CandidateRow
    <2> QED BY <2>1 DEF IntakeLead, TypeOK
  <1> QED BY <1>1, <1>2, <1>3, <1>4, <1>5 DEF IntakeLead, TypeOK

LEMMA NextTypeOK == TypeOK /\ [Next]_vars => TypeOK'
  <1> SUFFICES ASSUME TypeOK, [Next]_vars PROVE TypeOK'
    OBVIOUS
  <1>1. ASSUME NEW c \in Contacts, NEW p \in Profile, CreateContact(c, p) PROVE TypeOK'
    <2>1. clock' \in Nat
      BY <1>1, TickType DEF CreateContact, TypeOK
    <2> QED BY <1>1, <2>1 DEF CreateContact, TypeOK, ContactRow
  <1>2. ASSUME NEW c \in Contacts, NEW l \in {NoLead} \cup {r.id : r \in records}, Open(c, l)
        PROVE  TypeOK'
    <2>1. clock' \in Nat
      BY <1>2, TickType DEF Open, TypeOK
    <2>2. l \in Nat
      BY DEF TypeOK, RecordRow, NoLead
    <2>3. contacts[c].profile \in Profile
      BY DEF TypeOK, ContactRow
    <2>4. calls' \subseteq Call
      BY <1>2, <2>1, <2>2, <2>3 DEF Open, TypeOK, Call
    <2> QED BY <1>2, <2>1, <2>4 DEF Open, TypeOK, tables
  <1>3. ASSUME NEW k \in calls, WriteOf(k) PROVE TypeOK'
    BY <1>3, WriteTypeOK
  <1>4. ASSUME NEW c \in Contacts, SoftDeleteContact(c) PROVE TypeOK'
    <2>1. clock' \in Nat
      BY <1>4, TickType DEF SoftDeleteContact, TypeOK
    <2>2. contacts[c] \in ContactRow /\ contacts[c].profile \in Profile
      BY DEF TypeOK, ContactRow
    <2>3. [status |-> "tombstone", profile |-> Mask(contacts[c].profile), updated |-> clock'] \in ContactRow
      BY <2>1, <2>2, MaskType DEF ContactRow
    <2> QED BY <1>4, <2>1, <2>3 DEF SoftDeleteContact, TypeOK
  <1>5. ASSUME NEW v \in Phones \cup {Blank}, NEW c \in Contacts, NEW w \in BOOLEAN, IntakeLead(v, c, w)
        PROVE  TypeOK'
    BY <1>5, IntakeTypeOK
  <1>6. ASSUME NEW p \in Pairs, DismissMergeCandidate(p) PROVE TypeOK'
    <2>1. clock' \in Nat
      BY <1>6, TickType DEF DismissMergeCandidate, TypeOK
    <2> QED BY <1>6, <2>1 DEF DismissMergeCandidate, TypeOK, CandidateRow
  <1>7. ASSUME NEW t \in Contacts, NEW s \in Contacts, MergeContacts(t, s) PROVE TypeOK'
    BY <1>7, MergeTypeOK
  <1>8. ASSUME NEW m \in merges, UndoContactMerge(m) PROVE TypeOK'
    BY <1>8, UndoTypeOK
  <1>9. CASE UNCHANGED vars
    BY <1>9 DEF vars, TypeOK
  <1> QED BY <1>1, <1>2, <1>3, <1>4, <1>5, <1>6, <1>7, <1>8, <1>9 DEF Next

\* Every table keeps its columns' types: in particular a merge or an undo never
\* writes a coarse consent status outside granted, pending and denied.
THEOREM TypeCorrect == Spec => []TypeOK
  BY InitTypeOK, NextTypeOK, PTL DEF Spec

-----------------------------------------------------------------------------
(* The audit trail.  AuditConsistent and ChainsRunForward need to know that *)
(* merges lie in the past; TombstonesMasked, that the target of a standing  *)
(* merge, once a tombstone, shows an instant later than the merge, so that  *)
(* the guard of undo notices.                                               *)

MergesPast == \A m \in merges : m.id <= clock

TargetsFollowed ==
    \A m \in Standing :
        /\ contacts[m.target].status # "absent"
        /\ contacts[m.target].status = "tombstone" => contacts[m.target].updated > m.id

Trail == MergesPast /\ AuditConsistent /\ ChainsRunForward /\ TargetsFollowed /\ TombstonesMasked

AuditInv == TypeOK /\ Trail

\* A step that leaves the audit trail alone: contacts are created, edited
\* while live, or buried with their details masked.
Quiet ==
    /\ merges' = merges
    /\ clock' \in Nat /\ clock' >= clock
    /\ \A c \in Contacts :
         \/ contacts'[c] = contacts[c]
         \/ contacts[c].status = "absent" /\ contacts'[c].status = "live"
         \/ contacts[c].status = "live" /\ contacts'[c].status = "live"
         \/ /\ contacts[c].status = "live" /\ contacts'[c].status = "tombstone"
            /\ contacts'[c].profile.phone = Blank /\ contacts'[c].updated = clock + 1

LEMMA InitTrail == Init => Trail
  BY DEF Init, Trail, MergesPast, AuditConsistent, ChainsRunForward, TargetsFollowed,
         TombstonesMasked, Standing, AbsentRow

LEMMA QuietTrail ==
    ASSUME AuditInv, Quiet
    PROVE  Trail'
  <1>m. merges \subseteq MergeRow /\ clock \in Nat
    BY DEF AuditInv, TypeOK
  <1>t. \A m \in merges : m.id \in Nat /\ m.source \in Contacts /\ m.target \in Contacts
    BY <1>m DEF MergeRow
  <1>s. Standing' = Standing /\ Standing \subseteq merges
    BY DEF Quiet, Standing
  <1>1. MergesPast'
    BY <1>m, <1>t DEF AuditInv, Trail, MergesPast, Quiet
  <1>2. AuditConsistent'
    BY <1>s, <1>t DEF AuditInv, Trail, AuditConsistent, Quiet
  <1>3. ChainsRunForward'
    BY <1>s DEF AuditInv, Trail, ChainsRunForward
  <1>4. TargetsFollowed'
    <2> SUFFICES ASSUME NEW m \in Standing
                 PROVE  /\ contacts'[m.target].status # "absent"
                        /\ contacts'[m.target].status = "tombstone" => contacts'[m.target].updated > m.id
      BY <1>s DEF TargetsFollowed
    <2>1. m.id \in Nat /\ m.id <= clock /\ m.target \in Contacts
      BY <1>s, <1>t DEF AuditInv, Trail, MergesPast
    <2>2. clock + 1 > m.id
      BY <1>m, <2>1
    <2> QED BY <2>1, <2>2 DEF AuditInv, Trail, TargetsFollowed, Quiet
  <1>5. TombstonesMasked'
    BY DEF AuditInv, Trail, TombstonesMasked, Quiet
  <1> QED BY <1>1, <1>2, <1>3, <1>4, <1>5 DEF Trail

LEMMA WriteQuiet ==
    ASSUME TypeOK, NEW k \in calls, WriteOf(k)
    PROVE  Quiet
  <1>k. k \in Call /\ k.contact \in Contacts /\ k.at \in Nat
    BY DEF TypeOK, Call
  <1>c. clock \in Nat /\ contacts \in [Contacts -> ContactRow]
    BY DEF TypeOK
  <1>1. ASSUME NEW p, SaveContact(k, p) PROVE Quiet
    <2>1. PICK ts \in {k.at, clock + 1} : Stamp(k, ts) /\ contacts' = Saved(k, p, ts)
      BY <1>1 DEF SaveContact
    <2>2. clock' \in Nat /\ clock' >= clock
      BY <1>c, <1>k, <2>1, StampType
    <2>3. \A c \in Contacts : contacts'[c] = contacts[c]
              \/ (contacts[c].status = "live" /\ contacts'[c].status = "live")
      BY <1>c, <1>k, <2>1 DEF Saved, Live, ContactRow
    <2> QED BY <1>1, <2>2, <2>3 DEF SaveContact, Quiet
  <1>2. ASSUME NEW t \in Tables, AddRecord(k, t) PROVE Quiet
    <2>1. PICK ts \in {k.at, clock + 1} : Stamp(k, ts)
      BY <1>2 DEF AddRecord
    <2>2. clock' \in Nat /\ clock' >= clock
      BY <1>c, <1>k, <2>1, StampType
    <2> QED BY <1>2, <2>2 DEF AddRecord, Quiet
  <1>3. CASE RevokeContactMarketing(k)
    <2>1. PICK ts \in {k.at, clock + 1} : Stamp(k, ts)
      BY <1>3 DEF RevokeContactMarketing
    <2>2. clock' \in Nat /\ clock' >= clock
      BY <1>c, <1>k, <2>1, StampType
    <2> QED BY <1>3, <2>2 DEF RevokeContactMarketing, Quiet
  <1>4. ASSUME NEW key \in Keys, NEW m \in BOOLEAN, UpsertContactConsent(k, key, m) PROVE Quiet
    BY <1>c, <1>4 DEF UpsertContactConsent, Quiet, Tick
  <1>5. ASSUME NEW r \in consents, RevokeContactConsent(k, r) PROVE Quiet
    BY <1>c, <1>5 DEF RevokeContactConsent, Quiet, Tick
  <1> QED BY <1>1, <1>2, <1>3, <1>4, <1>5 DEF WriteOf, PatchContact

LEMMA MergeTrail ==
    ASSUME AuditInv, NEW t \in Contacts, NEW s \in Contacts, MergeContacts(t, s)
    PROVE  Trail'
  <1>c. clock \in Nat /\ clock' = clock + 1
    BY DEF AuditInv, TypeOK, MergeContacts, Tick
  <1>t. \A m \in merges : m.id \in Nat /\ m.id <= clock /\ m.source \in Contacts /\ m.target \in Contacts
    BY DEF AuditInv, TypeOK, MergeRow, Trail, MergesPast
  <1>1. PICK new : /\ merges' = merges \cup {new}
                   /\ new.id = clock + 1 /\ new.target = t /\ new.source = s /\ new.undone = 0
    <2>1. merges' = merges \cup {AuditRow(t, s, clock')}
      BY DEF MergeContacts
    <2>2. LET new == AuditRow(t, s, clock')
          IN  new.id = clock + 1 /\ new.target = t /\ new.source = s /\ new.undone = 0
      BY <1>c DEF AuditRow
    <2> QED BY <2>1, <2>2
  <1>2. Standing' = Standing \cup {new} /\ Standing \subseteq merges
    BY <1>1 DEF Standing
  <1>3. t # s /\ contacts[t].status = "live" /\ contacts[s].status = "live"
    BY DEF MergeContacts, Live
  <1>4. /\ \A c \in Contacts : c \notin {s, t} => contacts'[c] = contacts[c]
        /\ contacts'[s].status = "tombstone" /\ contacts'[s].updated = clock + 1
        /\ contacts'[s].profile.phone = Blank
        /\ contacts'[t].status = "live"
    <2>1. contacts \in [Contacts -> ContactRow] /\ contacts[s].profile \in Profile
      BY DEF AuditInv, TypeOK, ContactRow
    <2> QED BY <1>c, <1>3, <2>1 DEF MergeContacts, Mask, Profile
  <1>5. \A m \in Standing : m.source # t /\ m.source # s
    BY <1>3 DEF AuditInv, Trail, AuditConsistent
  <1>6. MergesPast'
    BY <1>c, <1>t, <1>1 DEF MergesPast
  <1>7. AuditConsistent'
    BY <1>t, <1>1, <1>2, <1>3, <1>4, <1>5 DEF AuditInv, Trail, AuditConsistent
  <1>8. ChainsRunForward'
    <2> SUFFICES ASSUME NEW m \in Standing', NEW n \in Standing', m.target = n.source
                 PROVE  m.id < n.id
      BY DEF ChainsRunForward
    <2>1. CASE m \in Standing /\ n \in Standing
      BY <2>1 DEF AuditInv, Trail, ChainsRunForward
    <2>2. CASE m \in Standing /\ n = new
      BY <1>c, <1>t, <1>1, <1>2, <2>2
    <2>3. CASE m = new
      BY <1>1, <1>2, <1>3, <1>5, <2>3
    <2> QED BY <1>2, <2>1, <2>2, <2>3
  <1>9. TargetsFollowed'
    <2> SUFFICES ASSUME NEW m \in Standing'
                 PROVE  /\ contacts'[m.target].status # "absent"
                        /\ contacts'[m.target].status = "tombstone" => contacts'[m.target].updated > m.id
      BY DEF TargetsFollowed
    <2>1. CASE m = new
      BY <1>1, <1>4, <2>1
    <2>2. CASE m \in Standing
      BY <1>c, <1>t, <1>2, <1>4, <2>2 DEF AuditInv, Trail, TargetsFollowed
    <2> QED BY <1>2, <2>1, <2>2
  <1>10. TombstonesMasked'
    BY <1>4 DEF AuditInv, Trail, TombstonesMasked
  <1> QED BY <1>6, <1>7, <1>8, <1>9, <1>10 DEF Trail

LEMMA UndoTrail ==
    ASSUME AuditInv, NEW m \in merges, UndoContactMerge(m)
    PROVE  Trail'
  <1>c. clock \in Nat /\ clock' = clock + 1
    BY DEF AuditInv, TypeOK, UndoContactMerge, Tick
  <1>t. \A n \in merges : n.id \in Nat /\ n.id <= clock /\ n.source \in Contacts /\ n.target \in Contacts
    BY DEF AuditInv, TypeOK, MergeRow, Trail, MergesPast
  <1>1. PICK old : /\ merges' = (merges \ {m}) \cup {old}
                   /\ old.id = m.id /\ old.undone = clock + 1
    <2>1. m \in MergeRow
      BY DEF AuditInv, TypeOK
    <2>2. merges' = (merges \ {m}) \cup {[m EXCEPT !.undone = clock']}
      BY DEF UndoContactMerge
    <2>3. [m EXCEPT !.undone = clock'].id = m.id /\ [m EXCEPT !.undone = clock'].undone = clock + 1
      BY <1>c, <2>1 DEF MergeRow
    <2> QED BY <2>2, <2>3
  <1>2. Standing' = Standing \ {m} /\ m \in Standing /\ Standing \subseteq merges
    BY <1>c, <1>1 DEF UndoContactMerge, Standing
  <1>3. contacts[m.target].status = "live"
    <2>1. ~(contacts[m.target].updated > m.id)
      BY DEF UndoContactMerge, SubsequentWrites
    <2>2. contacts[m.target].status \in {"absent", "live", "tombstone"}
      BY <1>t DEF AuditInv, TypeOK, ContactRow
    <2> QED BY <1>2, <2>1, <2>2 DEF AuditInv, Trail, TargetsFollowed
  <1>4. /\ \A c \in Contacts : c \notin {m.source, m.target} => contacts'[c] = contacts[c]
        /\ contacts'[m.source].status = "live" /\ contacts'[m.target].status = "live"
    <2>1. contacts \in [Contacts -> ContactRow]
      BY DEF AuditInv, TypeOK
    <2>2. m.source # m.target
      BY <1>2 DEF AuditInv, Trail, AuditConsistent
    <2> QED BY <1>t, <1>3, <2>1, <2>2 DEF UndoContactMerge, ContactRow
  <1>5. \A n \in Standing \ {m} : n.source # m.source /\ n.source # m.target
    BY <1>2, <1>3 DEF AuditInv, Trail, AuditConsistent
  <1>6. MergesPast'
    BY <1>c, <1>t, <1>1 DEF MergesPast
  <1>7. AuditConsistent'
    BY <1>t, <1>2, <1>4, <1>5 DEF AuditInv, Trail, AuditConsistent
  <1>8. ChainsRunForward'
    BY <1>2 DEF AuditInv, Trail, ChainsRunForward
  <1>9. TargetsFollowed'
    BY <1>t, <1>2, <1>4 DEF AuditInv, Trail, TargetsFollowed
  <1>10. TombstonesMasked'
    BY <1>4 DEF AuditInv, Trail, TombstonesMasked
  <1> QED BY <1>6, <1>7, <1>8, <1>9, <1>10 DEF Trail

LEMMA NextTrail == AuditInv /\ [Next]_vars => Trail'
  <1> SUFFICES ASSUME AuditInv, [Next]_vars PROVE Trail'
    OBVIOUS
  <1>c. clock \in Nat /\ contacts \in [Contacts -> ContactRow]
    BY DEF AuditInv, TypeOK
  <1>1. ASSUME NEW c \in Contacts, NEW p \in Profile, CreateContact(c, p) PROVE Trail'
    <2>1. Quiet
      BY <1>c, <1>1 DEF CreateContact, Tick, Quiet
    <2> QED BY <2>1, QuietTrail
  <1>2. ASSUME NEW c \in Contacts, NEW l \in {NoLead} \cup {r.id : r \in records}, Open(c, l)
        PROVE  Trail'
    <2>1. Quiet
      BY <1>c, <1>2 DEF Open, tables, Tick, Quiet
    <2> QED BY <2>1, QuietTrail
  <1>3. ASSUME NEW k \in calls, WriteOf(k) PROVE Trail'
    BY <1>3, WriteQuiet, QuietTrail DEF AuditInv
  <1>4. ASSUME NEW c \in Contacts, SoftDeleteContact(c) PROVE Trail'
    <2>1. contacts[c].profile \in Profile
      BY <1>c DEF ContactRow
    <2>2. Quiet
      BY <1>c, <1>4, <2>1 DEF SoftDeleteContact, Live, Mask, Profile, Tick, Quiet
    <2> QED BY <2>2, QuietTrail
  <1>5. ASSUME NEW v \in Phones \cup {Blank}, NEW c \in Contacts, NEW w \in BOOLEAN, IntakeLead(v, c, w)
        PROVE  Trail'
    <2>1. clock' = clock + 1 /\ merges' = merges
      BY <1>5 DEF IntakeLead, Tick
    <2>2. \A d \in Contacts : contacts'[d] = contacts[d]
              \/ (contacts[d].status = "absent" /\ contacts'[d].status = "live")
      BY <1>c, <1>5 DEF IntakeLead
    <2>3. Quiet
      BY <1>c, <2>1, <2>2 DEF Quiet
    <2> QED BY <2>3, QuietTrail
  <1>6. ASSUME NEW p \in Pairs, DismissMergeCandidate(p) PROVE Trail'
    <2>1. Quiet
      BY <1>c, <1>6 DEF DismissMergeCandidate, Tick, Quiet
    <2> QED BY <2>1, QuietTrail
  <1>7. ASSUME NEW t \in Contacts, NEW s \in Contacts, MergeContacts(t, s) PROVE Trail'
    BY <1>7, MergeTrail
  <1>8. ASSUME NEW m \in merges, UndoContactMerge(m) PROVE Trail'
    BY <1>8, UndoTrail
  <1>9. CASE UNCHANGED vars
    <2>1. Quiet
      BY <1>c, <1>9 DEF vars, Quiet
    <2> QED BY <2>1, QuietTrail
  <1> QED BY <1>1, <1>2, <1>3, <1>4, <1>5, <1>6, <1>7, <1>8, <1>9 DEF Next

LEMMA AlwaysAuditInv == Spec => []AuditInv
  <1>1. Init => AuditInv
    BY InitTypeOK, InitTrail DEF AuditInv
  <1>2. AuditInv /\ [Next]_vars => AuditInv'
    BY NextTypeOK, NextTrail DEF AuditInv
  <1> QED BY <1>1, <1>2, PTL DEF Spec

\* The source of every merge that stands is a tombstone, and of one merge only:
\* undo revives exactly the contact its merge removed.
THEOREM AuditTrail == Spec => []AuditConsistent
  <1>1. AuditInv => AuditConsistent
    BY DEF AuditInv, Trail
  <1> QED BY <1>1, AlwaysAuditInv, PTL

\* Following "merged into" from a tombstone moves forward in time, and so ends,
\* for any number of contacts merged and revived in any order.
THEOREM ChainsEnd == Spec => []ChainsRunForward
  <1>1. AuditInv => ChainsRunForward
    BY DEF AuditInv, Trail
  <1> QED BY <1>1, AlwaysAuditInv, PTL

\* Whatever handlers are in flight, no write gives a tombstone its details
\* back: a late patch misses the row, and undo restores only live targets.
THEOREM TombstonesStayMasked == Spec => []TombstonesMasked
  <1>1. AuditInv => TombstonesMasked
    BY DEF AuditInv, Trail
  <1> QED BY <1>1, AlwaysAuditInv, PTL
=============================================================================
