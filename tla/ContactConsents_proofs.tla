----------------------- MODULE ContactConsents_proofs -----------------------
(***************************************************************************)
(* Theorems about ContactMerge that follow rows through merges and undos.  *)
(*                                                                         *)
(* For any number of concurrent requests:                                  *)
(* CandidatesBacked      a candidate marked merged has a standing merge    *)
(* OneConsentPerSource   UNIQUE(contact_id, source_submission_ref,         *)
(*                       source_channel) holds of the rows the model       *)
(*                       keeps, though undo moves and re-inserts rows by   *)
(*                       id                                                *)
(* UndoFindsItsRows      the rows of an untouched merge lie where the      *)
(*                       merge put them                                    *)
(*                                                                         *)
(* For requests served one at a time (MaxCalls = 1).  With two at a time   *)
(* the code breaks the first three of these; the others rest on them:      *)
(* NothingLeftBehind     no row refers to a contact that was merged away   *)
(* NoConsentLost         every consent is in the table or in an archive    *)
(* NoEditDropped         an undo overwrites only what its merge wrote      *)
(* RevocationWins        a revocation on either side of a clash holds      *)
(* MovedRowsHeld         nor has the surviving row of a clash moved        *)
(***************************************************************************)
EXTENDS ContactMerge_proofs, FiniteSetTheorems

-----------------------------------------------------------------------------
(* Candidates.                                                              *)

\* Away from merge and undo, candidates only become pending or dismissed.
LEMMA ProposedNotMerged ==
    ASSUME TypeOK, NEW S, NEW p \in Pairs, Proposed(S)[p].status = "merged"
    PROVE  candidates[p] = Proposed(S)[p]
  BY DEF Proposed

LEMMA SameCandidates ==
    ASSUME MergedCandidatesBacked, merges' = merges,
           \A p \in Pairs : candidates'[p].status = "merged" => candidates'[p] = candidates[p]
    PROVE  MergedCandidatesBacked'
  BY DEF MergedCandidatesBacked, Standing

LEMMA MergeCandidates ==
    ASSUME TypeOK, MergedCandidatesBacked,
           NEW t \in Contacts, NEW s \in Contacts, MergeContacts(t, s)
    PROVE  MergedCandidatesBacked'
  <1> DEFINE new == AuditRow(t, s, clock')
  <1>1. merges' = merges \cup {new} /\ candidates' = ResolvedCandidates(t, s, clock')
    BY DEF MergeContacts
  <1>2. new.id = clock' /\ new.target = t /\ new.source = s /\ new.undone = 0
    BY DEF AuditRow
  <1> HIDE DEF new
  <1>3. new \in Standing' /\ Standing \subseteq Standing'
    BY <1>1, <1>2 DEF Standing
  <1> SUFFICES ASSUME NEW p \in Pairs, candidates'[p].status = "merged"
               PROVE  \E m \in Standing' : p = {m.source, m.target} /\ m.id = candidates'[p].resolved
    BY DEF MergedCandidatesBacked
  <1>4. CASE p = {t, s} /\ candidates[p].status = "pending"
    <2>1. candidates'[p].resolved = clock'
      BY <1>1, <1>4 DEF ResolvedCandidates
    <2> QED BY <1>2, <1>3, <1>4, <2>1
  <1>5. CASE ~(p = {t, s} /\ candidates[p].status = "pending")
    <2>1. candidates'[p] = candidates[p]
      BY <1>1, <1>5 DEF ResolvedCandidates
    <2> QED BY <1>3, <2>1 DEF MergedCandidatesBacked
  <1> QED BY <1>4, <1>5

LEMMA UndoCandidates ==
    ASSUME TypeOK, MergedCandidatesBacked, NEW m \in merges, UndoContactMerge(m)
    PROVE  MergedCandidatesBacked'
  <1>1. \A n \in Standing : n # m => n \in Standing'
    BY DEF UndoContactMerge, Standing
  <1>2. candidates' = ReopenedCandidates(m)
    BY DEF UndoContactMerge
  <1> SUFFICES ASSUME NEW p \in Pairs, candidates'[p].status = "merged"
               PROVE  \E n \in Standing' : p = {n.source, n.target} /\ n.id = candidates'[p].resolved
    BY DEF MergedCandidatesBacked
  <1>3. candidates'[p] = candidates[p]
    BY <1>2 DEF ReopenedCandidates
  <1>4. PICK n \in Standing : p = {n.source, n.target} /\ n.id = candidates[p].resolved
    BY <1>3 DEF MergedCandidatesBacked
  <1>5. n # m
    BY <1>2, <1>3, <1>4 DEF ReopenedCandidates
  <1> QED BY <1>1, <1>3, <1>4, <1>5

LEMMA NextCandidates == TypeOK /\ MergedCandidatesBacked /\ [Next]_vars => MergedCandidatesBacked'
  <1> SUFFICES ASSUME TypeOK, MergedCandidatesBacked, [Next]_vars PROVE MergedCandidatesBacked'
    OBVIOUS
  <1>1. ASSUME NEW c \in Contacts, NEW p \in Profile, CreateContact(c, p) PROVE MergedCandidatesBacked'
    BY <1>1, SameCandidates DEF CreateContact
  <1>2. ASSUME NEW c \in Contacts, NEW l \in {NoLead} \cup {r.id : r \in records}, Open(c, l)
        PROVE  MergedCandidatesBacked'
    BY <1>2, SameCandidates DEF Open, tables
  <1>3. ASSUME NEW k \in calls, WriteOf(k) PROVE MergedCandidatesBacked'
    <2>1. merges' = merges /\ candidates' = candidates
      BY <1>3 DEF WriteOf, PatchContact, SaveContact, AddRecord, UpsertContactConsent,
                  RevokeContactConsent, RevokeContactMarketing
    <2> QED BY <2>1, SameCandidates
  <1>4. ASSUME NEW c \in Contacts, SoftDeleteContact(c) PROVE MergedCandidatesBacked'
    BY <1>4, SameCandidates DEF SoftDeleteContact
  <1>5. ASSUME NEW v \in Phones \cup {Blank}, NEW c \in Contacts, NEW w \in BOOLEAN, IntakeLead(v, c, w)
        PROVE  MergedCandidatesBacked'
    <2>1. merges' = merges
      BY <1>5 DEF IntakeLead
    <2>2. candidates' = candidates \/ \E S : candidates' = Proposed(S)
      BY <1>5 DEF IntakeLead
    <2> QED BY <2>1, <2>2, ProposedNotMerged, SameCandidates
  <1>6. ASSUME NEW p \in Pairs, DismissMergeCandidate(p) PROVE MergedCandidatesBacked'
    <2>1. \A q \in Pairs : candidates'[q].status = "merged" => candidates'[q] = candidates[q]
      BY <1>6 DEF DismissMergeCandidate, TypeOK
    <2> QED BY <1>6, <2>1, SameCandidates DEF DismissMergeCandidate
  <1>7. ASSUME NEW t \in Contacts, NEW s \in Contacts, MergeContacts(t, s) PROVE MergedCandidatesBacked'
    BY <1>7, MergeCandidates
  <1>8. ASSUME NEW m \in merges, UndoContactMerge(m) PROVE MergedCandidatesBacked'
    BY <1>8, UndoCandidates
  <1>9. CASE UNCHANGED vars
    BY <1>9, SameCandidates DEF vars
  <1> QED BY <1>1, <1>2, <1>3, <1>4, <1>5, <1>6, <1>7, <1>8, <1>9 DEF Next

\* A candidate marked merged always names a merge that stands: undo re-opens it
\* in the same transaction, and dismissing or proposing never marks one.
THEOREM CandidatesBacked == Spec => []MergedCandidatesBacked
  <1>1. Init => MergedCandidatesBacked
    BY DEF Init, MergedCandidatesBacked
  <1> QED BY <1>1, InitTypeOK, NextTypeOK, NextCandidates, PTL DEF Spec

-----------------------------------------------------------------------------
(* Consents.  The table has a uniqueness index; the model has none, so what *)
(* keeps its rows apart has to be what the operations do.  An undo re-keys  *)
(* rows by id and re-inserts rows from its archive, so the invariant speaks *)
(* of all rows that are known: those of the table and those of an archive   *)
(* that an undo can still open.                                             *)

Archived == UNION {ArchivedRows(m) : m \in Standing}
Known == consents \cup Archived

RowsPast == \A r \in Known : r.id <= clock
MovedPast == \A m \in merges : \A i \in m.movedConsents : i <= clock
OneKeyPerId == \A r, q \in Known : r.id = q.id => r.key = q.key

\* The consents that one merge moved had different keys, and still have.
MovedApart ==
    \A m \in merges : \A r, q \in Known :
        r.id \in m.movedConsents /\ q.id \in m.movedConsents /\ r.key = q.key => r.id = q.id

\* An archive holds rows of its own source, with different keys and ids.
ArchivesSound ==
    \A m \in merges : \A r, q \in ArchivedRows(m) :
        /\ r.contact = m.source
        /\ r.key = q.key \/ r.id = q.id => r = q

\* A row is in the table or in one archive that can be opened, never in two.
ArchivesApart ==
    /\ \A r \in Archived : r.id \notin LiveIds
    /\ \A m, n \in Standing : \A r \in ArchivedRows(m), q \in ArchivedRows(n) : r.id = q.id => m = n

ConsentInv ==
    /\ ConsentKeysUnique
    /\ RowsPast /\ MovedPast
    /\ OneKeyPerId /\ MovedApart
    /\ ArchivesSound /\ ArchivesApart

\* What a step that invents no ids and changes no keys keeps.
LEMMA KnownOrigins ==
    ASSUME TypeOK, ConsentInv, clock' \in Nat, clock <= clock', ConsentKeysUnique',
           \A x \in Known' : \/ x \in consents' /\ x.id = clock' /\ clock < clock'
                             \/ \E r \in Known : x.id = r.id /\ x.key = r.key
    PROVE  /\ RowsPast' /\ OneKeyPerId'
           /\ \A m \in merges :
                /\ \A i \in m.movedConsents : i <= clock'
                /\ \A x, y \in Known' :
                     x.id \in m.movedConsents /\ y.id \in m.movedConsents /\ x.key = y.key => x.id = y.id
  <1>c. clock \in Nat
    BY DEF TypeOK
  <1>k. \A r \in Known : r.id \in Nat /\ r.id <= clock
    <2>1. Known \subseteq ConsentRow
      BY DEF TypeOK, Known, Archived, ArchivedRows, Standing, MergeRow
    <2> QED BY <2>1 DEF ConsentInv, RowsPast, ConsentRow
  <1>m. \A m \in merges : \A i \in m.movedConsents : i \in Nat /\ i <= clock
    BY DEF TypeOK, MergeRow, ConsentInv, MovedPast
  <1>o. \A x \in Known' : x.id <= clock => \E r \in Known : x.id = r.id /\ x.key = r.key
    <2> SUFFICES ASSUME NEW x \in Known', x.id = clock', clock < clock', x.id <= clock PROVE FALSE
      OBVIOUS
    <2> QED BY <1>c
  <1>1. RowsPast'
    BY <1>c, <1>k DEF RowsPast
  <1>2. OneKeyPerId'
    <2> SUFFICES ASSUME NEW x \in Known', NEW y \in Known', x.id = y.id PROVE x.key = y.key
      BY DEF OneKeyPerId
    <2>1. CASE x \in consents' /\ x.id = clock' /\ clock < clock'
      <3>1. \A r \in Known : y.id # r.id
        BY <1>c, <1>k, <2>1
      <3>2. y \in consents'
        BY <3>1
      <3> QED BY <2>1, <3>2 DEF ConsentKeysUnique
    <2>2. CASE \E r \in Known : x.id = r.id /\ x.key = r.key
      <3>1. ~(y.id = clock' /\ clock < clock')
        BY <1>c, <1>k, <2>2
      <3> QED BY <2>2, <3>1 DEF ConsentInv, OneKeyPerId
    <2> QED BY <2>1, <2>2
  <1>3. ASSUME NEW m \in merges, NEW i \in m.movedConsents PROVE i <= clock'
    BY <1>c, <1>m, <1>3
  <1>4. ASSUME NEW m \in merges, NEW x \in Known', NEW y \in Known',
               x.id \in m.movedConsents, y.id \in m.movedConsents, x.key = y.key
        PROVE  x.id = y.id
    <2>1. x.id <= clock /\ y.id <= clock
      BY <1>m, <1>4
    <2>2. (\E r \in Known : x.id = r.id /\ x.key = r.key) /\ (\E r \in Known : y.id = r.id /\ y.key = r.key)
      BY <1>o, <2>1
    <2> QED BY <1>4, <2>2 DEF ConsentInv, MovedApart
  <1> QED BY <1>1, <1>2, <1>3, <1>4

\* A step that writes consents and leaves the merges alone.
LEMMA WrittenConsents ==
    ASSUME TypeOK, ConsentInv, merges' = merges, clock' \in Nat, clock <= clock', ConsentKeysUnique',
           \A x \in consents' : \/ x.id = clock' /\ clock < clock'
                                \/ \E r \in consents : x.id = r.id /\ x.key = r.key
    PROVE  ConsentInv'
  <1>1. Archived' = Archived /\ Standing' = Standing
    BY DEF Archived, Standing
  <1>2. \A x \in Known' : \/ x \in consents' /\ x.id = clock' /\ clock < clock'
                          \/ \E r \in Known : x.id = r.id /\ x.key = r.key
    BY <1>1 DEF Known
  <1>3. /\ RowsPast' /\ OneKeyPerId'
        /\ \A m \in merges :
             /\ \A i \in m.movedConsents : i <= clock'
             /\ \A x, y \in Known' :
                  x.id \in m.movedConsents /\ y.id \in m.movedConsents /\ x.key = y.key => x.id = y.id
    BY <1>2, KnownOrigins
  <1>4. MovedPast' /\ MovedApart'
    BY <1>3 DEF MovedPast, MovedApart
  <1>5. ArchivesSound'
    BY DEF ConsentInv, ArchivesSound, ArchivedRows
  <1>6. \A r \in Archived : r.id \notin LiveIds'
    <2>1. clock \in Nat /\ \A r \in Archived : r.id \in Nat /\ r.id <= clock
      BY DEF TypeOK, Archived, ArchivedRows, Standing, MergeRow, ConsentRow, ConsentInv, RowsPast, Known
    <2> QED BY <2>1 DEF ConsentInv, ArchivesApart, LiveIds
  <1>7. ArchivesApart'
    BY <1>1, <1>6 DEF ConsentInv, ArchivesApart, ArchivedRows
  <1> QED BY <1>3, <1>4, <1>5, <1>7 DEF ConsentInv

\* Rows rewritten one by one, each under its own id, contact and key.
LEMMA Rewritten ==
    ASSUME ConsentKeysUnique, NEW F, consents' = {F[r] : r \in consents},
           \A r \in consents : F[r].id = r.id /\ F[r].contact = r.contact /\ F[r].key = r.key
    PROVE  /\ ConsentKeysUnique'
           /\ \A x \in consents' : \E r \in consents : x.id = r.id /\ x.key = r.key
  BY DEF ConsentKeysUnique

LEMMA UpsertKeeps ==
    ASSUME TypeOK, ConsentInv, merges' = merges, clock' = clock + 1,
           NEW c \in Contacts, NEW key \in Keys, NEW m \in BOOLEAN,
           consents' = Upserted(c, key, m, clock')
    PROVE  ConsentInv'
  <1> DEFINE cur == {r \in ConsentsOf(c) : r.key = key}
             new == [id |-> clock', contact |-> c, key |-> key, marketing |-> m, revokedAt |-> 0]
  <1>c. clock \in Nat /\ clock' \in Nat /\ clock <= clock' /\ clock < clock'
    BY DEF TypeOK
  <1>1. CASE cur = {}
    <2>1. consents' = consents \cup {new}
      BY <1>1 DEF Upserted
    <2>2. new.id = clock' /\ new.contact = c /\ new.key = key
      OBVIOUS
    <2>3. \A r \in consents : r.id \in Nat /\ r.id <= clock
      BY DEF TypeOK, ConsentRow, ConsentInv, RowsPast, Known
    <2>4. \A r \in consents : ~(r.contact = c /\ r.key = key)
      BY <1>1 DEF ConsentsOf
    <2> HIDE DEF new
    <2>5. ConsentKeysUnique'
      BY <1>c, <2>1, <2>2, <2>3, <2>4 DEF ConsentInv, ConsentKeysUnique
    <2>6. \A x \in consents' : x.id = clock' \/ \E r \in consents : x.id = r.id /\ x.key = r.key
      BY <2>1, <2>2
    <2> QED BY <1>c, <2>5, <2>6, WrittenConsents
  <1>2. CASE cur # {}
    <2> DEFINE F == [r \in consents |-> IF r \in cur /\ ~Revoked(r) THEN [r EXCEPT !.marketing = m] ELSE r]
    <2>1. consents' = {F[r] : r \in consents}
      BY <1>2 DEF Upserted
    <2>2. \A r \in consents : F[r].id = r.id /\ F[r].contact = r.contact /\ F[r].key = r.key
      <3>1. \A r \in ConsentRow : LET x == [r EXCEPT !.marketing = m]
                                  IN  x.id = r.id /\ x.contact = r.contact /\ x.key = r.key
        BY DEF ConsentRow
      <3> QED BY <3>1 DEF TypeOK
    <2> HIDE DEF F
    <2>3. ConsentKeysUnique' /\ \A x \in consents' : \E r \in consents : x.id = r.id /\ x.key = r.key
      BY <2>1, <2>2, Rewritten DEF ConsentInv
    <2> QED BY <1>c, <2>3, WrittenConsents
  <1> QED BY <1>1, <1>2

LEMMA RevokeKeeps ==
    ASSUME TypeOK, ConsentInv, NEW k \in calls, NEW r \in consents, RevokeContactConsent(k, r)
    PROVE  ConsentInv'
  <1> DEFINE F == [x \in consents |-> IF x = r /\ ~Revoked(r) THEN [r EXCEPT !.revokedAt = clock'] ELSE x]
  <1>c. clock \in Nat /\ clock' \in Nat /\ clock <= clock'
    BY DEF TypeOK, RevokeContactConsent, Tick
  <1>1. consents' = {F[x] : x \in consents}
    BY DEF RevokeContactConsent
  <1>2. \A x \in consents : F[x].id = x.id /\ F[x].contact = x.contact /\ F[x].key = x.key
    <2>1. r \in ConsentRow
      BY DEF TypeOK
    <2>2. LET y == [r EXCEPT !.revokedAt = clock'] IN y.id = r.id /\ y.contact = r.contact /\ y.key = r.key
      BY <2>1 DEF ConsentRow
    <2> QED BY <2>2
  <1> HIDE DEF F
  <1>3. ConsentKeysUnique' /\ \A x \in consents' : \E y \in consents : x.id = y.id /\ x.key = y.key
    BY <1>1, <1>2, Rewritten DEF ConsentInv
  <1> QED BY <1>c, <1>3, WrittenConsents DEF RevokeContactConsent

LEMMA RevokeMarketingKeeps ==
    ASSUME TypeOK, ConsentInv, NEW k \in calls, RevokeContactMarketing(k)
    PROVE  ConsentInv'
  <1>k. k \in Call /\ clock \in Nat
    BY DEF TypeOK
  <1>1. PICK ts \in {k.at, clock + 1} :
          /\ Stamp(k, ts)
          /\ consents' = {IF r.contact = k.contact /\ r.marketing /\ ~Revoked(r)
                            THEN [r EXCEPT !.revokedAt = ts] ELSE r : r \in consents}
    BY DEF RevokeContactMarketing
  <1> DEFINE F == [r \in consents |-> IF r.contact = k.contact /\ r.marketing /\ ~Revoked(r)
                                        THEN [r EXCEPT !.revokedAt = ts] ELSE r]
  <1>c. clock' \in Nat /\ clock <= clock'
    BY <1>k, <1>1, StampType
  <1>2. consents' = {F[r] : r \in consents}
    BY <1>1
  <1>3. \A r \in consents : F[r].id = r.id /\ F[r].contact = r.contact /\ F[r].key = r.key
    <2>1. \A r \in ConsentRow : LET x == [r EXCEPT !.revokedAt = ts]
                                IN  x.id = r.id /\ x.contact = r.contact /\ x.key = r.key
      BY DEF ConsentRow
    <2> QED BY <2>1 DEF TypeOK
  <1> HIDE DEF F
  <1>4. ConsentKeysUnique' /\ \A x \in consents' : \E r \in consents : x.id = r.id /\ x.key = r.key
    BY <1>2, <1>3, Rewritten DEF ConsentInv
  <1> QED BY <1>c, <1>4, WrittenConsents DEF RevokeContactMarketing

\* Where the rows of the target come from when  s  is merged into  t .
LEMMA MergedOrigins ==
    ASSUME TypeOK, NEW t \in Contacts, NEW s \in Contacts
    PROVE  \A x \in MergedConsents(t, s) :
             \/ \E r \in consents :
                  /\ r \notin {q.source : q \in Clashing(t, s)} /\ r \notin {q.target : q \in Clashing(t, s)}
                  /\ x = IF r.contact = s THEN [r EXCEPT !.contact = t] ELSE r
                  /\ x.id = r.id /\ x.key = r.key
                  /\ x.contact = IF r.contact = s THEN t ELSE r.contact
             \/ \E q \in Clashing(t, s) :
                  /\ x = Collapse(q)
                  /\ x.id = q.target.id /\ x.key = q.target.key /\ x.contact = t
  <1>1. \A r \in ConsentRow : LET x == [r EXCEPT !.contact = t]
                              IN  x.id = r.id /\ x.key = r.key /\ x.contact = t
    BY DEF ConsentRow
  <1>2. \A q \in Clashing(t, s) : LET x == Collapse(q)
                                  IN  x.id = q.target.id /\ x.key = q.target.key /\ x.contact = t
    <2> SUFFICES ASSUME NEW q \in Clashing(t, s)
                 PROVE  LET x == Collapse(q)
                        IN  x.id = q.target.id /\ x.key = q.target.key /\ x.contact = t
      OBVIOUS
    <2>1. q.target \in ConsentRow /\ q.target.contact = t
      BY DEF Clashing, ConsentsOf, TypeOK
    <2> QED BY <2>1 DEF Collapse, ConsentRow
  <1>3. consents \subseteq ConsentRow
    BY DEF TypeOK
  <1> SUFFICES ASSUME NEW x \in MergedConsents(t, s)
               PROVE  \/ \E r \in consents :
                           /\ r \notin {q.source : q \in Clashing(t, s)} /\ r \notin {q.target : q \in Clashing(t, s)}
                           /\ x = IF r.contact = s THEN [r EXCEPT !.contact = t] ELSE r
                           /\ x.id = r.id /\ x.key = r.key
                           /\ x.contact = IF r.contact = s THEN t ELSE r.contact
                      \/ \E q \in Clashing(t, s) :
                           /\ x = Collapse(q)
                           /\ x.id = q.target.id /\ x.key = q.target.key /\ x.contact = t
    OBVIOUS
  <1>4. CASE \E q \in Clashing(t, s) : x = Collapse(q)
    BY <1>2, <1>4
  <1>5. CASE ~\E q \in Clashing(t, s) : x = Collapse(q)
    <2>1. PICK r \in consents :
            /\ r \notin {q.source : q \in Clashing(t, s)} /\ r \notin {q.target : q \in Clashing(t, s)}
            /\ x = IF r.contact = s THEN [r EXCEPT !.contact = t] ELSE r
      BY <1>5 DEF MergedConsents
    <2>2. x.id = r.id /\ x.key = r.key /\ x.contact = IF r.contact = s THEN t ELSE r.contact
      BY <1>1, <1>3, <2>1
    <2> QED BY <2>1, <2>2
  <1> QED BY <1>4, <1>5

\* A merge keeps one row per key under the target.
LEMMA MergedUnique ==
    ASSUME TypeOK, ConsentKeysUnique, NEW t \in Contacts, NEW s \in Contacts, t # s,
           NEW x \in MergedConsents(t, s), NEW y \in MergedConsents(t, s),
           (x.contact = y.contact /\ x.key = y.key) \/ x.id = y.id
    PROVE  x = y
  <1> DEFINE clash == Clashing(t, s)
             Moved(z, r) == /\ r \in consents
                            /\ r \notin {q.source : q \in clash} /\ r \notin {q.target : q \in clash}
                            /\ z = IF r.contact = s THEN [r EXCEPT !.contact = t] ELSE r
                            /\ z.id = r.id /\ z.key = r.key
                            /\ z.contact = IF r.contact = s THEN t ELSE r.contact
             Kept(z, q) == /\ q \in clash /\ z = Collapse(q)
                           /\ z.id = q.target.id /\ z.key = q.target.key /\ z.contact = t
  <1>o. \A z \in MergedConsents(t, s) : (\E r : Moved(z, r)) \/ (\E q : Kept(z, q))
    BY MergedOrigins
  <1>q. \A q \in clash : /\ q.source \in consents /\ q.source.contact = s
                         /\ q.target \in consents /\ q.target.contact = t
                         /\ q.source.key = q.target.key
                         /\ q = [source |-> q.source, target |-> q.target]
    BY DEF Clashing, ConsentsOf
  <1>e. \A r, p \in consents : r.contact = s /\ p.contact = t /\ r.key = p.key
                                 => r \in {q.source : q \in clash}
    <2> SUFFICES ASSUME NEW r \in consents, NEW p \in consents,
                        r.contact = s, p.contact = t, r.key = p.key
                 PROVE  r \in {q.source : q \in clash}
      OBVIOUS
    <2>1. [source |-> r, target |-> p] \in clash
      BY DEF Clashing, ConsentsOf
    <2>2. [source |-> r, target |-> p].source = r
      OBVIOUS
    <2> HIDE DEF clash
    <2> QED BY <2>1, <2>2
  <1>u. \A r, p \in consents : (r.contact = p.contact /\ r.key = p.key) \/ r.id = p.id => r = p
    BY DEF ConsentKeysUnique
  <1>s. \A q \in clash : q.source \in {p.source : p \in clash} /\ q.target \in {p.target : p \in clash}
    OBVIOUS
  <1> DEFINE gone == {p.source : p \in clash}
             kept == {p.target : p \in clash}
  <1> HIDE DEF clash
  <1>1. ASSUME NEW r, NEW p, Moved(x, r), Moved(y, p) PROVE x = y
    <2>1. r = p
      <3>1. CASE r.id = p.id
        BY <1>1, <1>u, <3>1
      <3>2. CASE r.id # p.id
        <4>1. x.contact = y.contact /\ r.key = p.key
          BY <1>1, <3>2
        <4>2. CASE r.contact = p.contact
          BY <1>1, <1>u, <4>1, <4>2
        <4>3. CASE r.contact = s /\ p.contact = t
          BY <1>1, <1>e, <4>1, <4>3
        <4>4. CASE r.contact = t /\ p.contact = s
          BY <1>1, <1>e, <4>1, <4>4
        <4> QED BY <1>1, <4>1, <4>2, <4>3, <4>4
      <3> QED BY <3>1, <3>2
    <2> QED BY <1>1, <2>1
  <1>2. ASSUME NEW z, NEW w, NEW r, NEW q, Moved(z, r), Kept(w, q),
               (z.contact = w.contact /\ z.key = w.key) \/ z.id = w.id
        PROVE  FALSE
    <2>1. r # q.source /\ r # q.target
      BY <1>2, <1>s
    <2>2. r.id # q.target.id
      BY <1>2, <1>q, <1>u, <2>1
    <2>3. z.contact = t /\ r.key = q.target.key /\ r.key = q.source.key
      BY <1>2, <1>q, <2>2
    <2>4. r.contact = t \/ r.contact = s
      BY <1>2, <2>3
    <2> QED BY <1>2, <1>q, <1>u, <2>1, <2>3, <2>4
  <1>3. ASSUME NEW q, NEW p, Kept(x, q), Kept(y, p) PROVE x = y
    <2>1. q.target = p.target
      BY <1>3, <1>q, <1>u
    <2>2. q.source = p.source
      BY <1>3, <1>q, <1>u, <2>1
    <2>3. q = p
      BY <1>3, <1>q, <2>1, <2>2
    <2> QED BY <1>3, <2>3
  <1> HIDE DEF Moved, Kept
  <1> QED BY <1>o, <1>1, <1>2, <1>3

LEMMA MergeKeeps ==
    ASSUME TypeOK, ConsentInv, NEW t \in Contacts, NEW s \in Contacts, MergeContacts(t, s)
    PROVE  ConsentInv'
  <1> DEFINE gone == {q.source : q \in Clashing(t, s)}
             new == AuditRow(t, s, clock')
  <1>c. clock \in Nat /\ clock' \in Nat /\ clock <= clock' /\ t # s
    BY DEF TypeOK, MergeContacts, Tick
  <1>1. merges' = merges \cup {new} /\ consents' = MergedConsents(t, s)
    BY DEF MergeContacts
  <1>2. /\ new.undone = 0 /\ new.source = s /\ ArchivedRows(new) = gone
        /\ \A i \in new.movedConsents : \E r \in consents : r.contact = s /\ r.id = i
    BY DEF AuditRow, ArchivedRows, ConsentsOf
  <1>g. gone \subseteq consents /\ \A r \in gone : r.contact = s
    BY DEF Clashing, ConsentsOf
  <1>h. \A q \in Clashing(t, s) : q.target \in consents /\ q.target.contact = t
    BY DEF Clashing, ConsentsOf
  <1>n. \A r \in consents : r.id \in Nat /\ r.id <= clock
    BY DEF TypeOK, ConsentRow, ConsentInv, RowsPast, Known
  <1>u. \A r, p \in consents : (r.contact = p.contact /\ r.key = p.key) \/ r.id = p.id => r = p
    BY DEF ConsentInv, ConsentKeysUnique
  <1>3. \A x \in consents' : \E r \in consents : r \notin gone /\ x.id = r.id /\ x.key = r.key
    BY <1>c, <1>1, <1>g, <1>h, MergedOrigins
  <1> HIDE DEF gone, new
  <1>4. Standing' = Standing \cup {new} /\ Archived' = Archived \cup gone
    <2>1. Standing' = Standing \cup {new}
      BY <1>1, <1>2 DEF Standing
    <2> QED BY <1>2, <2>1 DEF Archived
  <1>5. \A x \in Known' : \E r \in Known : x.id = r.id /\ x.key = r.key
    BY <1>3, <1>4, <1>g DEF Known
  <1>6. ConsentKeysUnique'
    BY <1>c, <1>1, MergedUnique DEF ConsentInv, ConsentKeysUnique
  <1>7. /\ RowsPast' /\ OneKeyPerId'
        /\ \A m \in merges :
             /\ \A i \in m.movedConsents : i <= clock'
             /\ \A x, y \in Known' :
                  x.id \in m.movedConsents /\ y.id \in m.movedConsents /\ x.key = y.key => x.id = y.id
    BY <1>c, <1>5, <1>6, KnownOrigins
  <1>8. MovedPast'
    <2>1. \A i \in new.movedConsents : i <= clock'
      BY <1>c, <1>2, <1>n
    <2> QED BY <1>1, <1>7, <2>1 DEF MovedPast
  <1>9. MovedApart'
    <2>1. ASSUME NEW x \in Known', NEW y \in Known',
                 x.id \in new.movedConsents, y.id \in new.movedConsents, x.key = y.key
          PROVE  x.id = y.id
      <3>1. PICK r \in consents : r.contact = s /\ r.id = x.id
        BY <1>2, <2>1
      <3>2. PICK p \in consents : p.contact = s /\ p.id = y.id
        BY <1>2, <2>1
      <3>3. x.key = r.key /\ y.key = p.key
        BY <1>5, <3>1, <3>2 DEF ConsentInv, OneKeyPerId, Known
      <3> QED BY <1>u, <2>1, <3>1, <3>2, <3>3
    <2> QED BY <1>1, <1>7, <2>1 DEF MovedApart
  <1>10. ArchivesSound'
    <2>1. \A r, q \in ArchivedRows(new) : r.contact = s /\ (r.key = q.key \/ r.id = q.id => r = q)
      BY <1>2, <1>g, <1>u
    <2> QED BY <1>1, <1>2, <2>1 DEF ConsentInv, ArchivesSound
  <1>11. \A r \in Archived' : r.id \notin LiveIds'
    <2> SUFFICES ASSUME NEW r \in Archived', NEW x \in consents', x.id = r.id PROVE FALSE
      BY DEF LiveIds
    <2>1. PICK p \in consents : p \notin gone /\ x.id = p.id
      BY <1>3
    <2>2. CASE r \in gone
      BY <1>g, <1>u, <2>1, <2>2
    <2>3. CASE r \in Archived
      BY <2>1, <2>3 DEF ConsentInv, ArchivesApart, LiveIds
    <2> QED BY <1>4, <2>2, <2>3
  <1>12. ASSUME NEW m \in Standing', NEW n \in Standing',
                NEW r \in ArchivedRows(m), NEW q \in ArchivedRows(n), r.id = q.id
         PROVE  m = n
    <2>1. \A o \in Standing : \A x \in ArchivedRows(o), y \in gone : x.id # y.id
      BY <1>g DEF ConsentInv, ArchivesApart, Archived, LiveIds
    <2>2. CASE m \in Standing /\ n \in Standing
      BY <1>12, <2>2 DEF ConsentInv, ArchivesApart
    <2>3. CASE m = new \/ n = new
      BY <1>2, <1>4, <1>12, <2>1, <2>3
    <2> QED BY <1>4, <2>2, <2>3
  <1>13. ArchivesApart'
    BY <1>11, <1>12 DEF ArchivesApart
  <1> QED BY <1>6, <1>7, <1>8, <1>9, <1>10, <1>13 DEF ConsentInv

\* Where the rows come from that an undo leaves: each row of the table under
\* its own id and key, moved home or not, and archived rows whose key is free.
LEMMA RestoredOrigins ==
    ASSUME consents \subseteq ConsentRow, NEW m \in MergeRow
    PROVE  \E F :
             /\ \A r \in consents :
                  /\ F[r].id = r.id /\ F[r].key = r.key
                  /\ F[r].contact = IF r.id \in m.movedConsents THEN m.source ELSE r.contact
             /\ \A x \in RestoredConsents(m) :
                  \/ \E r \in consents : x = F[r]
                  \/ /\ x \in ArchivedRows(m)
                     /\ \A r \in consents : ~(F[r].contact = x.contact /\ F[r].key = x.key)
  <1> DEFINE Back(r) == IF r.id \in m.movedConsents THEN [r EXCEPT !.contact = m.source] ELSE r
             Before(r) == CHOOSE q \in m.collapsed : q.target.id = r.id
             Again(r) == IF \E q \in m.collapsed : q.target.id = r.id
                           THEN [r EXCEPT !.marketing = Before(r).target.marketing,
                                          !.revokedAt = Before(r).target.revokedAt]
                           ELSE r
             back == {Back(r) : r \in consents}
             F == [r \in consents |-> Again(Back(r))]
  <1>1. m.source \in Contacts
    BY DEF MergeRow
  <1>2. \A r \in consents : /\ Back(r) \in ConsentRow
                            /\ Back(r).id = r.id /\ Back(r).key = r.key
                            /\ Back(r).contact = IF r.id \in m.movedConsents THEN m.source ELSE r.contact
    BY <1>1 DEF ConsentRow
  <1>3. \A r \in ConsentRow : Again(r).id = r.id /\ Again(r).key = r.key /\ Again(r).contact = r.contact
    <2> SUFFICES ASSUME NEW r \in ConsentRow
                 PROVE  Again(r).id = r.id /\ Again(r).key = r.key /\ Again(r).contact = r.contact
      OBVIOUS
    <2> HIDE DEF Before
    <2> QED BY DEF ConsentRow
  <1>4. RestoredConsents(m) = {Again(r) : r \in back}
            \cup {r \in ArchivedRows(m) : ~\E x \in back : x.contact = r.contact /\ x.key = r.key}
    BY DEF RestoredConsents, ArchivedRows
  <1> HIDE DEF Back, Again
  <1>5. \A r \in consents : F[r].id = r.id /\ F[r].key = r.key /\ F[r].contact = Back(r).contact
    BY <1>2, <1>3
  <1>6. ASSUME NEW x \in RestoredConsents(m)
        PROVE  \/ \E r \in consents : x = F[r]
               \/ /\ x \in ArchivedRows(m)
                  /\ \A r \in consents : ~(F[r].contact = x.contact /\ F[r].key = x.key)
    <2>1. CASE \E r \in back : x = Again(r)
      BY <2>1
    <2>2. CASE x \in ArchivedRows(m) /\ ~\E y \in back : y.contact = x.contact /\ y.key = x.key
      BY <1>2, <1>5, <2>2
    <2> QED BY <1>4, <1>6, <2>1, <2>2
  <1> HIDE DEF F
  <1>7. \A r \in consents : /\ F[r].id = r.id /\ F[r].key = r.key
                            /\ F[r].contact = IF r.id \in m.movedConsents THEN m.source ELSE r.contact
    BY <1>2, <1>5
  <1> QED BY <1>6, <1>7

LEMMA UndoKeeps ==
    ASSUME TypeOK, ConsentInv, NEW m \in merges, UndoContactMerge(m)
    PROVE  ConsentInv'
  <1> DEFINE old == [m EXCEPT !.undone = clock']
  <1>c. clock \in Nat /\ clock' \in Nat /\ clock <= clock' /\ clock' # 0 /\ m \in MergeRow
    BY DEF TypeOK, UndoContactMerge, Tick
  <1>1. merges' = (merges \ {m}) \cup {old} /\ consents' = RestoredConsents(m) /\ m \in Standing
    BY DEF UndoContactMerge
  <1>2. /\ old.undone # 0 /\ old.source = m.source /\ ArchivedRows(old) = ArchivedRows(m)
        /\ old.movedConsents = m.movedConsents
    BY <1>c DEF MergeRow, ArchivedRows
  <1> HIDE DEF old
  <1>3. Standing' = Standing \ {m}
    BY <1>1, <1>2 DEF Standing
  <1>u. \A r, p \in consents : (r.contact = p.contact /\ r.key = p.key) \/ r.id = p.id => r = p
    BY DEF ConsentInv, ConsentKeysUnique
  <1>4. PICK F :
          /\ \A r \in consents :
               /\ F[r].id = r.id /\ F[r].key = r.key
               /\ F[r].contact = IF r.id \in m.movedConsents THEN m.source ELSE r.contact
          /\ \A x \in consents' :
               \/ \E r \in consents : x = F[r]
               \/ /\ x \in ArchivedRows(m)
                  /\ \A r \in consents : ~(F[r].contact = x.contact /\ F[r].key = x.key)
    BY <1>c, <1>1, RestoredOrigins DEF TypeOK
  <1>a. ArchivedRows(m) \subseteq Archived /\ \A r \in ArchivedRows(m) : r.id \notin LiveIds
    BY <1>1 DEF Archived, ConsentInv, ArchivesApart
  <1>5. \A r, p \in consents : F[r].contact = F[p].contact /\ F[r].key = F[p].key => r = p
    <2> SUFFICES ASSUME NEW r \in consents, NEW p \in consents,
                        F[r].contact = F[p].contact, r.key = p.key
                 PROVE  r = p
      BY <1>4
    <2>1. \A x, y \in consents : x.id \in m.movedConsents /\ y.contact = m.source => y.key # x.key
      BY DEF UndoContactMerge, MoveBackClashes, ConsentsOf
    <2>2. CASE r.id \in m.movedConsents /\ p.id \in m.movedConsents
      BY <1>u, <2>2 DEF ConsentInv, MovedApart, Known
    <2>3. CASE r.id \in m.movedConsents /\ p.id \notin m.movedConsents
      BY <1>4, <2>1, <2>3
    <2>4. CASE r.id \notin m.movedConsents /\ p.id \in m.movedConsents
      BY <1>4, <2>1, <2>4
    <2>5. CASE r.id \notin m.movedConsents /\ p.id \notin m.movedConsents
      BY <1>4, <1>u, <2>5
    <2> QED BY <2>2, <2>3, <2>4, <2>5
  <1>6. ConsentKeysUnique'
    <2> SUFFICES ASSUME NEW x \in consents', NEW y \in consents',
                        (x.contact = y.contact /\ x.key = y.key) \/ x.id = y.id
                 PROVE  x = y
      BY DEF ConsentKeysUnique
    <2>1. \A r \in consents : \A z \in ArchivedRows(m) : F[r].id # z.id
      BY <1>4, <1>a DEF LiveIds
    <2>2. \A z, w \in ArchivedRows(m) : z.key = w.key \/ z.id = w.id => z = w
      BY DEF ConsentInv, ArchivesSound
    <2>3. CASE (\E r \in consents : x = F[r]) /\ (\E r \in consents : y = F[r])
      <3>1. PICK r \in consents : x = F[r]
        BY <2>3
      <3>2. PICK p \in consents : y = F[p]
        BY <2>3
      <3>3. CASE x.id = y.id
        BY <1>4, <1>u, <3>1, <3>2, <3>3
      <3>4. CASE x.contact = y.contact /\ x.key = y.key
        BY <1>5, <3>1, <3>2, <3>4
      <3> QED BY <3>3, <3>4
    <2> QED BY <1>4, <2>1, <2>2, <2>3
  <1>7. \A x \in consents' : \/ \E r \in consents : x.id = r.id /\ x.key = r.key
                             \/ x \in ArchivedRows(m)
    BY <1>4
  <1>8. Archived' \subseteq Archived
    BY <1>3 DEF Archived
  <1>9. \A x \in Known' : \E r \in Known : x.id = r.id /\ x.key = r.key
    BY <1>7, <1>8, <1>a DEF Known
  <1>10. /\ RowsPast' /\ OneKeyPerId'
         /\ \A n \in merges :
              /\ \A i \in n.movedConsents : i <= clock'
              /\ \A x, y \in Known' :
                   x.id \in n.movedConsents /\ y.id \in n.movedConsents /\ x.key = y.key => x.id = y.id
    BY <1>c, <1>6, <1>9, KnownOrigins
  <1>11. MovedPast' /\ MovedApart'
    BY <1>1, <1>2, <1>10 DEF MovedPast, MovedApart
  <1>12. ArchivesSound'
    BY <1>1, <1>2 DEF ConsentInv, ArchivesSound
  <1>13. \A r \in Archived' : r.id \notin LiveIds'
    <2> SUFFICES ASSUME NEW n \in Standing', NEW r \in ArchivedRows(n), NEW x \in consents', x.id = r.id
                 PROVE  FALSE
      BY DEF Archived, LiveIds
    <2>1. n \in Standing /\ n # m /\ r \in Archived
      BY <1>3 DEF Archived
    <2>2. CASE \E p \in consents : x.id = p.id
      BY <2>1, <2>2 DEF ConsentInv, ArchivesApart, LiveIds
    <2>3. CASE x \in ArchivedRows(m)
      BY <1>1, <2>1, <2>3 DEF ConsentInv, ArchivesApart
    <2> QED BY <1>7, <2>2, <2>3
  <1>14. ArchivesApart'
    BY <1>3, <1>13 DEF ConsentInv, ArchivesApart
  <1> QED BY <1>6, <1>10, <1>11, <1>12, <1>14 DEF ConsentInv

LEMMA SameConsents ==
    ASSUME TypeOK, ConsentInv, merges' = merges, consents' = consents, clock' \in Nat, clock <= clock'
    PROVE  ConsentInv'
  <1>1. ConsentKeysUnique'
    BY DEF ConsentInv, ConsentKeysUnique
  <1> QED BY <1>1, WrittenConsents

LEMMA NextConsents == TypeOK /\ ConsentInv /\ [Next]_vars => ConsentInv'
  <1> SUFFICES ASSUME TypeOK, ConsentInv, [Next]_vars PROVE ConsentInv'
    OBVIOUS
  <1>c. clock \in Nat
    BY DEF TypeOK
  <1>t. Tick => clock' \in Nat /\ clock <= clock' /\ clock' = clock + 1
    BY <1>c DEF Tick
  <1>1. ASSUME NEW c \in Contacts, NEW p \in Profile, CreateContact(c, p) PROVE ConsentInv'
    BY <1>t, <1>1, SameConsents DEF CreateContact
  <1>2. ASSUME NEW c \in Contacts, NEW l \in {NoLead} \cup {r.id : r \in records}, Open(c, l)
        PROVE  ConsentInv'
    BY <1>t, <1>2, SameConsents DEF Open, tables
  <1>3. ASSUME NEW k \in calls, WriteOf(k) PROVE ConsentInv'
    <2>k. k \in Call /\ k.contact \in Contacts
      BY DEF TypeOK, Call
    <2>1. ASSUME NEW p, SaveContact(k, p) PROVE ConsentInv'
      <3>1. clock' \in Nat /\ clock <= clock'
        BY <1>c, <2>k, <2>1, StampType DEF SaveContact
      <3> QED BY <2>1, <3>1, SameConsents DEF SaveContact
    <2>2. ASSUME NEW t \in Tables, AddRecord(k, t) PROVE ConsentInv'
      <3>1. clock' \in Nat /\ clock <= clock'
        BY <1>c, <2>k, <2>2, StampType DEF AddRecord
      <3> QED BY <2>2, <3>1, SameConsents DEF AddRecord
    <2>3. ASSUME NEW key \in Keys, NEW m \in BOOLEAN, UpsertContactConsent(k, key, m) PROVE ConsentInv'
      BY <1>t, <2>k, <2>3, UpsertKeeps DEF UpsertContactConsent
    <2>4. ASSUME NEW r \in consents, RevokeContactConsent(k, r) PROVE ConsentInv'
      BY <2>4, RevokeKeeps
    <2>5. CASE RevokeContactMarketing(k)
      BY <2>5, RevokeMarketingKeeps
    <2> QED BY <1>3, <2>1, <2>2, <2>3, <2>4, <2>5 DEF WriteOf, PatchContact
  <1>4. ASSUME NEW c \in Contacts, SoftDeleteContact(c) PROVE ConsentInv'
    BY <1>t, <1>4, SameConsents DEF SoftDeleteContact
  <1>5. ASSUME NEW v \in Phones \cup {Blank}, NEW c \in Contacts, NEW w \in BOOLEAN, IntakeLead(v, c, w)
        PROVE  ConsentInv'
    <2>1. Tick /\ merges' = merges
      BY <1>5 DEF IntakeLead
    <2>2. \/ consents' = consents
          \/ \E key \in Keys, m \in BOOLEAN : consents' = Upserted(c, key, m, clock')
      BY <1>5 DEF IntakeLead
    <2> QED BY <1>t, <2>1, <2>2, SameConsents, UpsertKeeps
  <1>6. ASSUME NEW p \in Pairs, DismissMergeCandidate(p) PROVE ConsentInv'
    BY <1>t, <1>6, SameConsents DEF DismissMergeCandidate
  <1>7. ASSUME NEW t \in Contacts, NEW s \in Contacts, MergeContacts(t, s) PROVE ConsentInv'
    BY <1>7, MergeKeeps
  <1>8. ASSUME NEW m \in merges, UndoContactMerge(m) PROVE ConsentInv'
    BY <1>8, UndoKeeps
  <1>9. CASE UNCHANGED vars
    BY <1>c, <1>9, SameConsents DEF vars
  <1> QED BY <1>1, <1>2, <1>3, <1>4, <1>5, <1>6, <1>7, <1>8, <1>9 DEF Next

\* No merge, undo, upsert or intake, in any order and however late, leaves a
\* contact with two consents of one source, and no row is in the table twice.
\* Only the undo of a merge can meet the uniqueness index, and is then refused.
THEOREM OneConsentPerSource == Spec => []ConsentKeysUnique
  <1>1. Init => ConsentInv
    BY DEF Init, ConsentInv, ConsentKeysUnique, RowsPast, MovedPast, OneKeyPerId, MovedApart,
           ArchivesSound, ArchivesApart, Archived, Known, Standing
  <1>2. ConsentInv => ConsentKeysUnique
    BY DEF ConsentInv
  <1> QED BY <1>1, <1>2, InitTypeOK, NextTypeOK, NextConsents, PTL DEF Spec
-----------------------------------------------------------------------------
(* The way of a row.  Merges take rows from their source and hold rows      *)
(* under their target; a row that a standing merge holds is under its       *)
(* target, or a later standing merge has taken it on from there.  What it   *)
(* takes for an undo to find its rows is stated once, over a set S of       *)
(* merges, the ids each of them took and held, and the rows of a table.     *)

Taken(S, took, m, i, last) ==
    \E o \in S : o.source = m.target /\ i \in took[o] /\ m.id < o.id /\ o.id <= last

\* Two merges that held the same row are linked by the one that took it away
\* from the first, or share their target.
Chained(S, held, took) ==
    \A m, n \in S : m.id < n.id => \A i \in held[m] \cap held[n] :
        \/ i \notin took[n] /\ m.target = n.target
        \/ Taken(S, took, m, i, n.id)

Followed(S, held, took, rows) ==
    \A m \in S : \A r \in rows : r.id \in held[m] =>
        \/ r.contact = m.target
        \/ \E o \in S : o.source = m.target /\ r.id \in took[o] /\ m.id < o.id

\* A merge is later than those that stand.  The rows it takes lie under its
\* source, the others it holds under its target.
LEMMA MergeFollows ==
    ASSUME NEW S, NEW new, NEW held, NEW took, NEW rows, NEW rows2,
           Chained(S, held, took), Followed(S, held, took, rows),
           new.id \in Nat, \A m \in S : m.id \in Nat /\ m.id < new.id,
           \A i \in held[new] : \E r \in rows :
               r.id = i /\ r.contact = IF i \in took[new] THEN new.source ELSE new.target,
           \A x \in rows2 : \E r \in rows :
               /\ r.id = x.id
               /\ IF r.contact = new.source THEN x.contact = new.target /\ r.id \in took[new]
                                            ELSE x.contact = r.contact,
           \A x \in rows2 : x.id \in held[new] => x.contact = new.target
    PROVE  Chained(S \cup {new}, held, took) /\ Followed(S \cup {new}, held, took, rows2)
  <1>1. Chained(S \cup {new}, held, took)
    <2> SUFFICES ASSUME NEW m \in S \cup {new}, NEW n \in S \cup {new}, m.id < n.id,
                        NEW i \in held[m] \cap held[n]
                 PROVE  \/ i \notin took[n] /\ m.target = n.target
                        \/ Taken(S \cup {new}, took, m, i, n.id)
      BY DEF Chained
    <2>1. m \in S
      <3>1. CASE m = new
        BY <3>1
      <3> QED BY <3>1
    <2>2. CASE n \in S
      BY <2>1, <2>2 DEF Chained, Taken
    <2>3. CASE n = new
      <3>1. PICK r \in rows : r.id = i /\ r.contact = IF i \in took[new] THEN new.source ELSE new.target
        BY <2>3
      <3>2. \/ r.contact = m.target
            \/ \E o \in S : o.source = m.target /\ i \in took[o] /\ m.id < o.id
        BY <2>1, <3>1 DEF Followed
      <3>3. CASE i \notin took[new] /\ r.contact = m.target
        BY <2>3, <3>1, <3>3
      <3>4. CASE i \in took[new] /\ r.contact = m.target
        BY <2>1, <2>3, <3>1, <3>4 DEF Taken
      <3>5. CASE \E o \in S : o.source = m.target /\ i \in took[o] /\ m.id < o.id
        BY <2>3, <3>5 DEF Taken
      <3> QED BY <3>2, <3>3, <3>4, <3>5
    <2> QED BY <2>2, <2>3
  <1>2. Followed(S \cup {new}, held, took, rows2)
    <2> SUFFICES ASSUME NEW m \in S \cup {new}, NEW x \in rows2, x.id \in held[m]
                 PROVE  \/ x.contact = m.target
                        \/ \E o \in S \cup {new} : o.source = m.target /\ x.id \in took[o] /\ m.id < o.id
      BY DEF Followed
    <2>1. CASE m = new
      BY <2>1
    <2>2. CASE m \in S
      <3>1. PICK r \in rows : /\ r.id = x.id
                              /\ IF r.contact = new.source THEN x.contact = new.target /\ r.id \in took[new]
                                                           ELSE x.contact = r.contact
        OBVIOUS
      <3>2. \/ r.contact = m.target
            \/ \E o \in S : o.source = m.target /\ r.id \in took[o] /\ m.id < o.id
        BY <2>2, <3>1 DEF Followed
      <3> QED BY <2>2, <3>1, <3>2
    <2> QED BY <2>1, <2>2
  <1> QED BY <1>1, <1>2

\* An undo of a merge that no later one touches, and whose target is live,
\* brings the rows it took back to its source and moves no other.
LEMMA UndoFollows ==
    ASSUME NEW S, NEW x \in S, NEW held, NEW took, NEW rows, NEW rows2,
           Chained(S, held, took), Followed(S, held, took, rows),
           \A m \in S : m.id \in Nat /\ took[m] \subseteq held[m],
           \A m, n \in S : m.id = n.id => m = n,
           \A n \in S : n.source # x.target /\ (n.id > x.id => n.target # x.target),
           \A y \in rows2 : \/ y.id \in took[x] /\ y.contact = x.source
                            \/ y.id \notin took[x] /\ \E r \in rows : r.id = y.id /\ r.contact = y.contact
    PROVE  Chained(S \ {x}, held, took) /\ Followed(S \ {x}, held, took, rows2)
  <1>1. Chained(S \ {x}, held, took)
    <2> SUFFICES ASSUME NEW m \in S \ {x}, NEW n \in S \ {x}, m.id < n.id,
                        NEW i \in held[m] \cap held[n],
                        ~(i \notin took[n] /\ m.target = n.target)
                 PROVE  Taken(S \ {x}, took, m, i, n.id)
      BY DEF Chained
    <2>1. PICK o \in S : o.source = m.target /\ i \in took[o] /\ m.id < o.id /\ o.id <= n.id
      BY DEF Chained, Taken
    <2>2. CASE o = x
      <3>1. x.id < n.id /\ i \in held[x]
        BY <2>1, <2>2
      <3>2. n.target # x.target
        BY <3>1
      <3>3. Taken(S, took, x, i, n.id)
        BY <3>1, <3>2 DEF Chained
      <3> QED BY <3>3 DEF Taken
    <2>3. CASE o # x
      BY <2>1, <2>3 DEF Taken
    <2> QED BY <2>2, <2>3
  <1>2. Followed(S \ {x}, held, took, rows2)
    <2> SUFFICES ASSUME NEW m \in S \ {x}, NEW y \in rows2, y.id \in held[m]
                 PROVE  \/ y.contact = m.target
                        \/ \E o \in S \ {x} : o.source = m.target /\ y.id \in took[o] /\ m.id < o.id
      BY DEF Followed
    <2>1. CASE y.id \in took[x] /\ y.contact = x.source
      <3>1. y.id \in held[x] /\ (m.id < x.id \/ x.id < m.id)
        BY <2>1
      <3>2. CASE x.id < m.id
        BY <3>1, <3>2 DEF Chained, Taken
      <3>3. CASE m.id < x.id
        <4>1. PICK o \in S : o.source = m.target /\ y.id \in took[o] /\ m.id < o.id
          BY <2>1, <3>1, <3>3 DEF Chained, Taken
        <4> QED BY <2>1, <4>1
      <3> QED BY <3>1, <3>2, <3>3
    <2>2. CASE y.id \notin took[x] /\ \E r \in rows : r.id = y.id /\ r.contact = y.contact
      <3>1. PICK r \in rows : r.id = y.id /\ r.contact = y.contact
        BY <2>2
      <3> QED BY <2>2, <3>1 DEF Followed
    <2> QED BY <2>1, <2>2
  <1> QED BY <1>1, <1>2

\* Any other step moves no row, and the rows it adds are nobody's.
LEMMA OthersFollow ==
    ASSUME NEW S, NEW held, NEW took, NEW rows, NEW rows2, Followed(S, held, took, rows),
           \A y \in rows2 : \/ \E r \in rows : r.id = y.id /\ r.contact = y.contact
                            \/ \A m \in S : y.id \notin held[m]
    PROVE  Followed(S, held, took, rows2)
  BY DEF Followed

-----------------------------------------------------------------------------
(* Records.                                                                 *)

RecordsTook == [m \in MergeRow |-> m.moved]

\* The rows of the tables that a merge re-points.
Repointable == {r \in records : r.table \in RepointedTables}

\* No row and no archive has the id i.
Fresh(i) == (\A r \in records : r.id # i) /\ (\A m \in merges : i \notin m.moved)

MergeIdsApart == \A m, n \in merges : m.id = n.id => m = n
RecordIdsApart == \A r, q \in records : r.id = q.id => r = q
RecordsPast == /\ \A r \in records : r.id <= clock
               /\ \A m \in merges : \A i \in m.moved : i <= clock

\* A pending call may yet write a row under the instant it was opened at.
StampsFree ==
    /\ \A k \in calls : k.at <= clock /\ Fresh(k.at)
    /\ \A k, l \in calls : k.at = l.at => k = l

OnlyRepointed == \A m \in merges : \A r \in records : r.id \in m.moved => r.table \in RepointedTables

RecordsTracked == /\ Chained(Standing, RecordsTook, RecordsTook)
                  /\ Followed(Standing, RecordsTook, RecordsTook, Repointable)

RecordsInv ==
    /\ MergeIdsApart /\ RecordIdsApart /\ RecordsPast
    /\ StampsFree /\ OnlyRepointed /\ RecordsTracked

LEMMA RecordTypes ==
    ASSUME TypeOK
    PROVE  /\ clock \in Nat
           /\ \A r \in records : r.id \in Nat /\ r.contact \in Contacts
           /\ \A m \in merges : m \in MergeRow /\ m.id \in Nat /\ m.moved \subseteq Nat
                                /\ m.source \in Contacts /\ m.target \in Contacts
           /\ \A k \in calls : k.at \in Nat
  BY DEF TypeOK, RecordRow, MergeRow, Call

LEMMA TookOf == \A m \in MergeRow : RecordsTook[m] = m.moved
  BY DEF RecordsTook

\* No record changes; at most one call is opened, under the new instant.
LEMMA SameRecords ==
    ASSUME TypeOK, RecordsInv, merges' = merges, records' = records,
           clock' \in Nat, clock <= clock',
           \/ calls' \subseteq calls
           \/ \E c : calls' = calls \cup {c} /\ c.at = clock + 1 /\ c.at <= clock'
    PROVE  RecordsInv'
  <1>t. /\ clock \in Nat /\ \A r \in records : r.id \in Nat
        /\ \A m \in merges : m.moved \subseteq Nat
        /\ \A k \in calls : k.at \in Nat
    BY RecordTypes
  <1>1. MergeIdsApart' /\ RecordIdsApart' /\ OnlyRepointed'
    BY DEF RecordsInv, MergeIdsApart, RecordIdsApart, OnlyRepointed
  <1>2. RecordsPast'
    BY <1>t DEF RecordsInv, RecordsPast
  <1>3. StampsFree'
    <2>1. \A k \in calls' : k.at <= clock' /\ Fresh(k.at)
      BY <1>t DEF RecordsInv, StampsFree, RecordsPast, Fresh
    <2>2. \A k, l \in calls' : k.at = l.at => k = l
      BY <1>t DEF RecordsInv, StampsFree
    <2>3. \A k \in calls' : Fresh(k.at)'
      BY <2>1 DEF Fresh
    <2> QED BY <2>1, <2>2, <2>3 DEF StampsFree
  <1>4. RecordsTracked'
    BY DEF RecordsInv, RecordsTracked, Standing, Repointable
  <1> QED BY <1>1, <1>2, <1>3, <1>4 DEF RecordsInv

\* One record is added, under an id that no row, archive or other call has.
LEMMA AddedRecord ==
    ASSUME TypeOK, RecordsInv, merges' = merges, clock' \in Nat, clock <= clock',
           NEW new, new.id \in Nat, new.id <= clock', Fresh(new.id), records' = records \cup {new},
           calls' \subseteq calls, \A k \in calls' : k.at # new.id
    PROVE  RecordsInv'
  <1>t. /\ clock \in Nat /\ \A r \in records : r.id \in Nat
        /\ \A m \in merges : m \in MergeRow /\ m.moved \subseteq Nat
        /\ \A k \in calls : k.at \in Nat
    BY RecordTypes
  <1>1. MergeIdsApart'
    BY DEF RecordsInv, MergeIdsApart
  <1>2. RecordIdsApart'
    BY DEF RecordsInv, RecordIdsApart, Fresh
  <1>3. RecordsPast'
    BY <1>t DEF RecordsInv, RecordsPast
  <1>4. StampsFree'
    <2>1. \A k \in calls' : k.at <= clock' /\ Fresh(k.at)
      BY <1>t DEF RecordsInv, StampsFree
    <2>2. \A k \in calls' : Fresh(k.at)'
      BY <2>1 DEF Fresh
    <2> QED BY <2>1, <2>2 DEF RecordsInv, StampsFree
  <1>5. OnlyRepointed'
    BY DEF RecordsInv, OnlyRepointed, Fresh
  <1>6. Followed(Standing, RecordsTook, RecordsTook, Repointable')
    <2>1. \A m \in Standing : new.id \notin RecordsTook[m]
      BY <1>t, TookOf DEF Fresh, Standing
    <2>2. \A y \in Repointable' : \/ \E r \in Repointable : r.id = y.id /\ r.contact = y.contact
                                  \/ \A m \in Standing : y.id \notin RecordsTook[m]
      BY <2>1 DEF Repointable
    <2> HIDE DEF RecordsTook
    <2> QED BY <2>2, OthersFollow DEF RecordsInv, RecordsTracked
  <1>7. Standing' = Standing
    BY DEF Standing
  <1>8. RecordsTracked'
    BY <1>6, <1>7 DEF RecordsInv, RecordsTracked
  <1> QED BY <1>1, <1>2, <1>3, <1>4, <1>5, <1>8 DEF RecordsInv

LEMMA MergeTracksRecords ==
    ASSUME AuditInv, RecordsInv, NEW t \in Contacts, NEW s \in Contacts, MergeContacts(t, s)
    PROVE  RecordsInv'
  <1> DEFINE new == AuditRow(t, s, clock')
             Moved(r) == IF r \in RepointedRecords(s) THEN [r EXCEPT !.contact = t] ELSE r
  <1>t. /\ clock \in Nat /\ \A r \in records : r.id \in Nat
        /\ \A m \in merges : m \in MergeRow /\ m.id \in Nat /\ m.moved \subseteq Nat
        /\ \A k \in calls : k.at \in Nat
    BY RecordTypes DEF AuditInv
  <1>c. clock' = clock + 1 /\ t # s /\ calls' = calls
    BY DEF MergeContacts, Tick
  <1>p. \A m \in merges : m.id <= clock
    BY DEF AuditInv, Trail, MergesPast
  <1>1. merges' = merges \cup {new} /\ records' = {Moved(r) : r \in records}
    BY DEF MergeContacts
  <1>2. /\ new \in MergeRow /\ new.id = clock + 1 /\ new.source = s /\ new.target = t /\ new.undone = 0
        /\ new.moved = {r.id : r \in RepointedRecords(s)}
    BY <1>c, <1>t, MergeRowType DEF AuditRow, AuditInv
  <1>3. \A r \in records : /\ Moved(r).id = r.id /\ Moved(r).table = r.table
                           /\ Moved(r).contact = IF r \in RepointedRecords(s) THEN t ELSE r.contact
    BY DEF AuditInv, TypeOK, RecordRow
  <1> HIDE DEF new, Moved
  <1>4. new.moved \subseteq {r.id : r \in records}
    BY <1>2 DEF RepointedRecords
  <1>5. Standing' = Standing \cup {new} /\ Standing \subseteq merges
    BY <1>1, <1>2 DEF Standing
  <1>6. MergeIdsApart'
    BY <1>1, <1>2, <1>p, <1>t DEF RecordsInv, MergeIdsApart
  <1>7. RecordIdsApart'
    BY <1>1, <1>3 DEF RecordsInv, RecordIdsApart
  <1>8. RecordsPast'
    <2>1. \A r \in records : r.id <= clock'
      BY <1>c, <1>t DEF RecordsInv, RecordsPast
    <2>2. \A m \in merges : \A i \in m.moved : i <= clock'
      BY <1>c, <1>t DEF RecordsInv, RecordsPast
    <2> QED BY <1>1, <1>3, <1>4, <2>1, <2>2 DEF RecordsPast
  <1>9. StampsFree'
    <2>1. \A k \in calls : k.at <= clock' /\ Fresh(k.at)
      BY <1>c, <1>t DEF RecordsInv, StampsFree
    <2>2. \A k \in calls : Fresh(k.at)'
      BY <1>1, <1>3, <1>4, <2>1 DEF Fresh
    <2> QED BY <1>c, <2>1, <2>2 DEF RecordsInv, StampsFree
  <1>10. OnlyRepointed'
    <2>1. \A r \in records : r.id \in new.moved => r.table \in RepointedTables
      BY <1>2 DEF RepointedRecords, RecordsInv, RecordIdsApart
    <2> QED BY <1>1, <1>3, <2>1 DEF RecordsInv, OnlyRepointed
  <1>11. \A m \in Standing : m.id \in Nat /\ m.id < new.id
    BY <1>2, <1>5, <1>p, <1>t
  <1>12. RecordsTook[new] = new.moved
    BY <1>2, TookOf
  <1>13. \A i \in RecordsTook[new] : \E r \in Repointable :
             r.id = i /\ r.contact = IF i \in RecordsTook[new] THEN new.source ELSE new.target
    BY <1>2, <1>12 DEF Repointable, RepointedRecords
  <1>14. \A x \in Repointable' : \E r \in Repointable :
             /\ r.id = x.id
             /\ IF r.contact = new.source THEN x.contact = new.target /\ r.id \in RecordsTook[new]
                                          ELSE x.contact = r.contact
    <2> SUFFICES ASSUME NEW x \in Repointable'
                 PROVE  \E r \in Repointable :
                          /\ r.id = x.id
                          /\ IF r.contact = new.source THEN x.contact = new.target /\ r.id \in RecordsTook[new]
                                                       ELSE x.contact = r.contact
      OBVIOUS
    <2>1. PICK r \in records : x = Moved(r)
      BY <1>1 DEF Repointable
    <2>2. r \in Repointable
      BY <1>3, <2>1 DEF Repointable
    <2>3. r \in RepointedRecords(s) <=> r.contact = s
      BY <2>2 DEF Repointable, RepointedRecords
    <2> QED BY <1>2, <1>3, <1>12, <2>1, <2>2, <2>3
  <1>15. \A x \in Repointable' : x.id \in RecordsTook[new] => x.contact = new.target
    <2> SUFFICES ASSUME NEW x \in Repointable', x.id \in new.moved PROVE x.contact = t
      BY <1>2, <1>12
    <2>1. PICK r \in records : x = Moved(r)
      BY <1>1 DEF Repointable
    <2>2. r \in RepointedRecords(s)
      BY <1>2, <1>3, <2>1 DEF RecordsInv, RecordIdsApart, RepointedRecords
    <2> QED BY <1>3, <2>1, <2>2
  <1>16. RecordsTracked'
    <2> HIDE DEF RecordsTook
    <2>1. /\ Chained(Standing, RecordsTook, RecordsTook)
          /\ Followed(Standing, RecordsTook, RecordsTook, Repointable)
      BY DEF RecordsInv, RecordsTracked
    <2>2. new.id \in Nat
      BY <1>2, <1>t
    <2>3. /\ Chained(Standing \cup {new}, RecordsTook, RecordsTook)
          /\ Followed(Standing \cup {new}, RecordsTook, RecordsTook, Repointable')
      BY <1>11, <1>13, <1>14, <1>15, <2>1, <2>2, MergeFollows
    <2> QED BY <1>5, <2>3 DEF RecordsTracked
  <1> QED BY <1>6, <1>7, <1>8, <1>9, <1>10, <1>16 DEF RecordsInv

\* What an undo knows of the merges when it starts: the target is live, so no
\* standing merge has it as its source, and no later one touches it.
LEMMA UndoStarts ==
    ASSUME AuditInv, MergeIdsApart, NEW m \in merges, UndoContactMerge(m)
    PROVE  /\ m \in Standing /\ clock' = clock + 1
           /\ \A n \in Standing : n.source # m.target /\ (n.id > m.id => n.target # m.target)
           /\ \A n \in merges : n.id > m.id => ~Touches(n, m.source) /\ ~Touches(n, m.target)
           /\ Standing' = Standing \ {m}
           /\ \E old : /\ merges' = (merges \ {m}) \cup {old}
                       /\ old.id = m.id /\ old.source = m.source /\ old.target = m.target
                       /\ old.moved = m.moved /\ old.movedConsents = m.movedConsents
                       /\ old.collapsed = m.collapsed /\ old.undone # 0
  <1> DEFINE old == [m EXCEPT !.undone = clock']
  <1>1. m \in MergeRow /\ clock \in Nat /\ m.target \in Contacts
    BY RecordTypes DEF AuditInv
  <1>2. m \in Standing /\ clock' = clock + 1
    BY DEF UndoContactMerge, Tick
  <1>3. \A n \in merges : n.id > m.id => ~Touches(n, m.source) /\ ~Touches(n, m.target)
    BY DEF UndoContactMerge, SubsequentWrites
  <1>4. contacts[m.target].status = "live"
    <2>1. ~(contacts[m.target].updated > m.id)
      BY DEF UndoContactMerge, SubsequentWrites
    <2>2. contacts[m.target].status \in {"absent", "live", "tombstone"}
      BY <1>1 DEF AuditInv, TypeOK, ContactRow
    <2> QED BY <1>2, <2>1, <2>2 DEF AuditInv, Trail, TargetsFollowed
  <1>5. \A n \in Standing : n.source # m.target /\ (n.id > m.id => n.target # m.target)
    BY <1>3, <1>4 DEF AuditInv, Trail, AuditConsistent, Standing, Touches
  <1>6. merges' = (merges \ {m}) \cup {old}
    BY DEF UndoContactMerge
  <1>7. /\ old.id = m.id /\ old.source = m.source /\ old.target = m.target
        /\ old.moved = m.moved /\ old.movedConsents = m.movedConsents
        /\ old.collapsed = m.collapsed /\ old.undone # 0
    BY <1>1, <1>2 DEF MergeRow
  <1> HIDE DEF old
  <1>8. Standing' = Standing \ {m}
    BY <1>2, <1>6, <1>7 DEF Standing
  <1> QED BY <1>2, <1>3, <1>5, <1>6, <1>7, <1>8

LEMMA UndoTracksRecords ==
    ASSUME AuditInv, RecordsInv, NEW m \in merges, UndoContactMerge(m)
    PROVE  RecordsInv'
  <1> DEFINE Back(r) == IF r.id \in m.moved /\ r.table \in RepointedTables
                          THEN [r EXCEPT !.contact = m.source] ELSE r
  <1>t. /\ clock \in Nat /\ \A r \in records : r.id \in Nat
        /\ \A n \in merges : n \in MergeRow /\ n.id \in Nat /\ n.moved \subseteq Nat
        /\ \A k \in calls : k.at \in Nat
    BY RecordTypes DEF AuditInv
  <1>1. /\ m \in Standing /\ clock' = clock + 1
        /\ \A n \in Standing : n.source # m.target /\ (n.id > m.id => n.target # m.target)
        /\ Standing' = Standing \ {m}
    BY UndoStarts DEF RecordsInv
  <1>2. PICK old : /\ merges' = (merges \ {m}) \cup {old} /\ old.id = m.id /\ old.moved = m.moved
    BY UndoStarts DEF RecordsInv
  <1>3. records' = {Back(r) : r \in records} /\ calls' = calls
    BY DEF UndoContactMerge, MovedBackRecords
  <1>4. \A r \in records : /\ Back(r).id = r.id /\ Back(r).table = r.table
                           /\ Back(r).contact = IF r.id \in m.moved /\ r.table \in RepointedTables
                                                  THEN m.source ELSE r.contact
    BY DEF AuditInv, TypeOK, RecordRow
  <1> HIDE DEF Back
  <1>5. MergeIdsApart'
    BY <1>2 DEF RecordsInv, MergeIdsApart
  <1>6. RecordIdsApart'
    BY <1>3, <1>4 DEF RecordsInv, RecordIdsApart
  <1>7. RecordsPast'
    <2>1. \A r \in records : r.id <= clock'
      BY <1>1, <1>t DEF RecordsInv, RecordsPast
    <2>2. \A n \in merges : \A i \in n.moved : i <= clock'
      BY <1>1, <1>t DEF RecordsInv, RecordsPast
    <2> QED BY <1>2, <1>3, <1>4, <2>1, <2>2 DEF RecordsPast
  <1>8. StampsFree'
    <2>1. \A k \in calls : k.at <= clock' /\ Fresh(k.at)
      BY <1>1, <1>t DEF RecordsInv, StampsFree
    <2>2. \A k \in calls : Fresh(k.at)'
      BY <1>2, <1>3, <1>4, <2>1 DEF Fresh
    <2> QED BY <1>3, <2>1, <2>2 DEF RecordsInv, StampsFree
  <1>9. OnlyRepointed'
    BY <1>2, <1>3, <1>4 DEF RecordsInv, OnlyRepointed
  <1>10. \A y \in Repointable' :
            \/ y.id \in RecordsTook[m] /\ y.contact = m.source
            \/ y.id \notin RecordsTook[m] /\ \E r \in Repointable : r.id = y.id /\ r.contact = y.contact
    BY <1>3, <1>4, <1>t, TookOf DEF Repointable
  <1>11. Standing \subseteq merges
    BY DEF Standing
  <1>12. RecordsTracked'
    <2> HIDE DEF RecordsTook
    <2>1. /\ Chained(Standing, RecordsTook, RecordsTook)
          /\ Followed(Standing, RecordsTook, RecordsTook, Repointable)
      BY DEF RecordsInv, RecordsTracked
    <2>2. /\ \A n \in Standing : n.id \in Nat /\ RecordsTook[n] \subseteq RecordsTook[n]
          /\ \A n, o \in Standing : n.id = o.id => n = o
      BY <1>11, <1>t DEF RecordsInv, MergeIdsApart
    <2>3. /\ Chained(Standing \ {m}, RecordsTook, RecordsTook)
          /\ Followed(Standing \ {m}, RecordsTook, RecordsTook, Repointable')
      BY <1>1, <1>10, <2>1, <2>2, UndoFollows
    <2> QED BY <1>1, <2>3 DEF RecordsTracked
  <1> QED BY <1>5, <1>6, <1>7, <1>8, <1>9, <1>12 DEF RecordsInv

LEMMA WriteTracksRecords ==
    ASSUME TypeOK, RecordsInv, NEW k \in calls, WriteOf(k)
    PROVE  RecordsInv'
  <1>k. k \in Call /\ clock \in Nat
    BY DEF TypeOK
  <1>1. ASSUME NEW p, SaveContact(k, p) PROVE RecordsInv'
    <2>1. clock' \in Nat /\ clock <= clock'
      BY <1>k, <1>1, StampType DEF SaveContact
    <2> QED BY <1>1, <2>1, SameRecords DEF SaveContact
  <1>2. ASSUME NEW t \in Tables, AddRecord(k, t) PROVE RecordsInv'
    <2>1. PICK ts \in {k.at, clock + 1} :
            /\ Stamp(k, ts)
            /\ records' = records \cup {[id |-> ts, table |-> t, contact |-> k.contact,
                                          lead |-> IF t = "follow_ups" THEN k.lead ELSE NoLead]}
      BY <1>2 DEF AddRecord
    <2> DEFINE new == [id |-> ts, table |-> t, contact |-> k.contact,
                       lead |-> IF t = "follow_ups" THEN k.lead ELSE NoLead]
    <2>2. ts \in Nat /\ clock' \in Nat /\ clock <= clock'
      BY <1>k, <2>1, StampType
    <2>3. ts <= clock' /\ Fresh(ts) /\ \A l \in calls \ {k} : l.at # ts
      <3>1. CASE ts = k.at /\ clock' = clock
        BY <3>1 DEF RecordsInv, StampsFree
      <3>2. CASE ts = clock + 1 /\ clock' = clock + 1
        <4>1. Fresh(ts)
          BY <3>2, RecordTypes DEF RecordsInv, RecordsPast, Fresh
        <4>2. \A l \in calls : l.at # ts
          BY <3>2, RecordTypes DEF RecordsInv, StampsFree
        <4> QED BY <1>k, <3>2, <4>1, <4>2
      <3> QED BY <2>1, <3>1, <3>2 DEF Stamp, Tick
    <2>4. new.id = ts
      OBVIOUS
    <2>5. merges' = merges /\ calls' = calls \ {k}
      BY <1>2 DEF AddRecord
    <2>6. records' = records \cup {new}
      BY <2>1
    <2> HIDE DEF new
    <2> QED BY <2>2, <2>3, <2>4, <2>5, <2>6, AddedRecord
  <1>3. CASE RevokeContactMarketing(k)
    <2>1. clock' \in Nat /\ clock <= clock'
      BY <1>k, <1>3, StampType DEF RevokeContactMarketing
    <2> QED BY <1>3, <2>1, SameRecords DEF RevokeContactMarketing
  <1>4. ASSUME NEW key \in Keys, NEW m \in BOOLEAN, UpsertContactConsent(k, key, m) PROVE RecordsInv'
    <2>1. clock' \in Nat /\ clock <= clock'
      BY <1>k, <1>4 DEF UpsertContactConsent, Tick
    <2> QED BY <1>4, <2>1, SameRecords DEF UpsertContactConsent
  <1>5. ASSUME NEW r \in consents, RevokeContactConsent(k, r) PROVE RecordsInv'
    <2>1. clock' \in Nat /\ clock <= clock'
      BY <1>k, <1>5 DEF RevokeContactConsent, Tick
    <2> QED BY <1>5, <2>1, SameRecords DEF RevokeContactConsent
  <1> QED BY <1>1, <1>2, <1>3, <1>4, <1>5 DEF WriteOf, PatchContact

LEMMA NextRecords == AuditInv /\ RecordsInv /\ [Next]_vars => RecordsInv'
  <1> SUFFICES ASSUME AuditInv, RecordsInv, [Next]_vars PROVE RecordsInv'
    OBVIOUS
  <1>c. clock \in Nat /\ TypeOK
    BY DEF AuditInv, TypeOK
  <1>s. ASSUME merges' = merges, records' = records, clock' \in {clock, clock + 1}, calls' = calls
        PROVE  RecordsInv'
    BY <1>c, <1>s, SameRecords
  <1>1. ASSUME NEW c \in Contacts, NEW p \in Profile, CreateContact(c, p) PROVE RecordsInv'
    BY <1>s, <1>1 DEF CreateContact, Tick
  <1>2. ASSUME NEW c \in Contacts, NEW l \in {NoLead} \cup {r.id : r \in records}, Open(c, l)
        PROVE  RecordsInv'
    <2> DEFINE call == [at |-> clock', contact |-> c, lead |-> l, read |-> contacts[c].profile]
    <2>1. calls' = calls \cup {call} /\ clock' = clock + 1 /\ merges' = merges /\ records' = records
      BY <1>2 DEF Open, Tick, tables
    <2>2. call.at = clock + 1
      BY <2>1
    <2> HIDE DEF call
    <2> QED BY <1>c, <2>1, <2>2, SameRecords
  <1>3. ASSUME NEW k \in calls, WriteOf(k) PROVE RecordsInv'
    BY <1>c, <1>3, WriteTracksRecords
  <1>4. ASSUME NEW c \in Contacts, SoftDeleteContact(c) PROVE RecordsInv'
    BY <1>s, <1>4 DEF SoftDeleteContact, Tick
  <1>5. ASSUME NEW v \in Phones \cup {Blank}, NEW c \in Contacts, NEW w \in BOOLEAN, IntakeLead(v, c, w)
        PROVE  RecordsInv'
    <2> DEFINE new == [id |-> clock', table |-> "leads", contact |-> c, lead |-> NoLead]
    <2>1. /\ records' = records \cup {new} /\ clock' = clock + 1 /\ merges' = merges /\ calls' = calls
      BY <1>5 DEF IntakeLead, Tick
    <2>2. new.id = clock + 1
      BY <2>1
    <2> HIDE DEF new
    <2>3. Fresh(clock + 1) /\ \A k \in calls : k.at # clock + 1
      BY <1>c, RecordTypes DEF RecordsInv, RecordsPast, StampsFree, Fresh
    <2> QED BY <1>c, <2>1, <2>2, <2>3, AddedRecord
  <1>6. ASSUME NEW p \in Pairs, DismissMergeCandidate(p) PROVE RecordsInv'
    BY <1>s, <1>6 DEF DismissMergeCandidate, Tick
  <1>7. ASSUME NEW t \in Contacts, NEW s \in Contacts, MergeContacts(t, s) PROVE RecordsInv'
    BY <1>7, MergeTracksRecords
  <1>8. ASSUME NEW m \in merges, UndoContactMerge(m) PROVE RecordsInv'
    BY <1>8, UndoTracksRecords
  <1>9. CASE UNCHANGED vars
    BY <1>s, <1>9 DEF vars
  <1> QED BY <1>1, <1>2, <1>3, <1>4, <1>5, <1>6, <1>7, <1>8, <1>9 DEF Next

-----------------------------------------------------------------------------
(* Consents.  A merge takes every consent of its source, some of them into  *)
(* its archive, and holds with them the target rows that clashed.           *)

ConsentsTook == [m \in MergeRow |-> m.movedConsents \cup {q.source.id : q \in m.collapsed}]
ConsentsHeld == [m \in MergeRow |-> m.movedConsents \cup {q.source.id : q \in m.collapsed}
                                      \cup {q.target.id : q \in m.collapsed}]

HeldPast == \A m \in merges : \A i \in ConsentsHeld[m] : i <= clock
CollapsedApart == \A m \in merges : \A q, p \in m.collapsed : q.target.id # p.source.id

\* A row in an archive was held by no later merge.
ArchivedLast ==
    \A o, m \in Standing : \A r \in ArchivedRows(o) : r.id \in ConsentsHeld[m] => m.id <= o.id

\* What a merge moved cannot take the key of what it archived.
ArchiveKeysFree ==
    \A m \in Standing : \A r \in ArchivedRows(m), y \in Known :
        y.id \in m.movedConsents => y.key # r.key

ConsentsTracked == /\ Chained(Standing, ConsentsHeld, ConsentsTook)
                   /\ Followed(Standing, ConsentsHeld, ConsentsTook, consents)

TrackInv == HeldPast /\ CollapsedApart /\ ArchivedLast /\ ArchiveKeysFree /\ ConsentsTracked

\* A step that leaves the merges alone keeps every consent where it is, revoked
\* if it was, and adds rows under the new instant only.
Written ==
    /\ merges' = merges /\ clock' \in Nat /\ clock <= clock'
    /\ \A x \in consents' : \/ x.id = clock' /\ clock < clock'
                            \/ \E r \in consents : x.id = r.id /\ x.key = r.key /\ x.contact = r.contact
    /\ \A r \in consents : \E x \in consents' : x.id = r.id /\ (Revoked(r) => Revoked(x))

LEMMA SameWritten ==
    ASSUME TypeOK, merges' = merges, consents' = consents, clock' \in Nat, clock <= clock'
    PROVE  Written
  BY DEF Written

LEMMA UpsertWrites ==
    ASSUME TypeOK, merges' = merges, clock' = clock + 1,
           NEW c \in Contacts, NEW key \in Keys, NEW m \in BOOLEAN,
           consents' = Upserted(c, key, m, clock')
    PROVE  Written
  <1> DEFINE cur == {r \in ConsentsOf(c) : r.key = key}
             new == [id |-> clock', contact |-> c, key |-> key, marketing |-> m, revokedAt |-> 0]
  <1>c. clock \in Nat /\ clock' \in Nat /\ clock <= clock' /\ clock < clock'
    BY DEF TypeOK
  <1>1. CASE cur = {}
    <2>1. consents' = consents \cup {new}
      BY <1>1 DEF Upserted
    <2>2. new.id = clock'
      OBVIOUS
    <2> HIDE DEF new
    <2> QED BY <1>c, <2>1, <2>2 DEF Written
  <1>2. CASE cur # {}
    <2> DEFINE F == [r \in consents |-> IF r \in cur /\ ~Revoked(r) THEN [r EXCEPT !.marketing = m] ELSE r]
    <2>1. consents' = {F[r] : r \in consents}
      BY <1>2 DEF Upserted
    <2>2. \A r \in consents : /\ F[r].id = r.id /\ F[r].contact = r.contact /\ F[r].key = r.key
                              /\ Revoked(r) => Revoked(F[r])
      <3>1. \A r \in ConsentRow : LET x == [r EXCEPT !.marketing = m]
                                  IN  x.id = r.id /\ x.contact = r.contact /\ x.key = r.key
        BY DEF ConsentRow
      <3> QED BY <3>1 DEF TypeOK
    <2> HIDE DEF F
    <2> QED BY <1>c, <2>1, <2>2 DEF Written
  <1> QED BY <1>1, <1>2

LEMMA RevokeWrites ==
    ASSUME TypeOK, NEW k \in calls, NEW r \in consents, RevokeContactConsent(k, r)
    PROVE  Written
  <1> DEFINE new == [r EXCEPT !.revokedAt = clock']
  <1>1. clock \in Nat /\ clock' = clock + 1 /\ merges' = merges /\ r \in ConsentRow
    BY DEF TypeOK, RevokeContactConsent, Tick
  <1>2. consents' = IF Revoked(r) THEN consents ELSE (consents \ {r}) \cup {new}
    BY DEF RevokeContactConsent
  <1>3. new.id = r.id /\ new.key = r.key /\ new.contact = r.contact
    BY <1>1 DEF ConsentRow
  <1> HIDE DEF new
  <1> QED BY <1>1, <1>2, <1>3 DEF Written

LEMMA RevokeMarketingWrites ==
    ASSUME TypeOK, NEW k \in calls, RevokeContactMarketing(k)
    PROVE  Written
  <1>k. k \in Call /\ clock \in Nat
    BY DEF TypeOK
  <1>1. PICK ts \in {k.at, clock + 1} :
          /\ Stamp(k, ts)
          /\ consents' = {IF r.contact = k.contact /\ r.marketing /\ ~Revoked(r)
                            THEN [r EXCEPT !.revokedAt = ts] ELSE r : r \in consents}
    BY DEF RevokeContactMarketing
  <1> DEFINE F == [r \in consents |-> IF r.contact = k.contact /\ r.marketing /\ ~Revoked(r)
                                        THEN [r EXCEPT !.revokedAt = ts] ELSE r]
  <1>c. clock' \in Nat /\ clock <= clock' /\ merges' = merges
    BY <1>k, <1>1, StampType DEF RevokeContactMarketing
  <1>2. consents' = {F[r] : r \in consents}
    BY <1>1
  <1>3. \A r \in consents : /\ F[r].id = r.id /\ F[r].contact = r.contact /\ F[r].key = r.key
                            /\ Revoked(r) => Revoked(F[r])
    <2>1. \A r \in ConsentRow : LET x == [r EXCEPT !.revokedAt = ts]
                                IN  x.id = r.id /\ x.contact = r.contact /\ x.key = r.key
      BY DEF ConsentRow
    <2> QED BY <2>1 DEF TypeOK
  <1> HIDE DEF F
  <1> QED BY <1>c, <1>2, <1>3 DEF Written

\* Every step writes, merges or undoes.
LEMMA StepKinds ==
    ASSUME TypeOK, [Next]_vars
    PROVE  \/ Written
           \/ \E t, s \in Contacts : MergeContacts(t, s)
           \/ \E m \in merges : UndoContactMerge(m)
  <1>c. clock \in Nat
    BY DEF TypeOK
  <1>t. Tick => clock' \in Nat /\ clock <= clock' /\ clock' = clock + 1
    BY <1>c DEF Tick
  <1>1. ASSUME NEW c \in Contacts, NEW p \in Profile, CreateContact(c, p) PROVE Written
    BY <1>t, <1>1, SameWritten DEF CreateContact
  <1>2. ASSUME NEW c \in Contacts, NEW l \in {NoLead} \cup {r.id : r \in records}, Open(c, l)
        PROVE  Written
    BY <1>t, <1>2, SameWritten DEF Open, tables
  <1>3. ASSUME NEW k \in calls, WriteOf(k) PROVE Written
    <2>k. k \in Call /\ k.contact \in Contacts
      BY DEF TypeOK, Call
    <2>1. ASSUME NEW p, SaveContact(k, p) PROVE Written
      <3>1. clock' \in Nat /\ clock <= clock'
        BY <1>c, <2>k, <2>1, StampType DEF SaveContact
      <3> QED BY <2>1, <3>1, SameWritten DEF SaveContact
    <2>2. ASSUME NEW t \in Tables, AddRecord(k, t) PROVE Written
      <3>1. clock' \in Nat /\ clock <= clock'
        BY <1>c, <2>k, <2>2, StampType DEF AddRecord
      <3> QED BY <2>2, <3>1, SameWritten DEF AddRecord
    <2>3. ASSUME NEW key \in Keys, NEW m \in BOOLEAN, UpsertContactConsent(k, key, m) PROVE Written
      BY <1>t, <2>k, <2>3, UpsertWrites DEF UpsertContactConsent
    <2>4. ASSUME NEW r \in consents, RevokeContactConsent(k, r) PROVE Written
      BY <2>4, RevokeWrites
    <2>5. CASE RevokeContactMarketing(k)
      BY <2>5, RevokeMarketingWrites
    <2> QED BY <1>3, <2>1, <2>2, <2>3, <2>4, <2>5 DEF WriteOf, PatchContact
  <1>4. ASSUME NEW c \in Contacts, SoftDeleteContact(c) PROVE Written
    BY <1>t, <1>4, SameWritten DEF SoftDeleteContact
  <1>5. ASSUME NEW v \in Phones \cup {Blank}, NEW c \in Contacts, NEW w \in BOOLEAN, IntakeLead(v, c, w)
        PROVE  Written
    <2>1. Tick /\ merges' = merges
      BY <1>5 DEF IntakeLead
    <2>2. \/ consents' = consents
          \/ \E key \in Keys, m \in BOOLEAN : consents' = Upserted(c, key, m, clock')
      BY <1>5 DEF IntakeLead
    <2> QED BY <1>t, <2>1, <2>2, SameWritten, UpsertWrites
  <1>6. ASSUME NEW p \in Pairs, DismissMergeCandidate(p) PROVE Written
    BY <1>t, <1>6, SameWritten DEF DismissMergeCandidate
  <1>7. CASE UNCHANGED vars
    BY <1>c, <1>7, SameWritten DEF vars
  <1> QED BY <1>1, <1>2, <1>3, <1>4, <1>5, <1>6, <1>7 DEF Next

LEMMA HeldOf ==
    \A m \in MergeRow :
        /\ ConsentsTook[m] = m.movedConsents \cup {r.id : r \in ArchivedRows(m)}
        /\ ConsentsHeld[m] = ConsentsTook[m] \cup {q.target.id : q \in m.collapsed}
  BY DEF ConsentsTook, ConsentsHeld, ArchivedRows

LEMMA ConsentTypes ==
    ASSUME TypeOK
    PROVE  /\ clock \in Nat
           /\ \A r \in Known : r \in ConsentRow /\ r.id \in Nat /\ r.revokedAt \in Nat
           /\ \A m \in merges : /\ m \in MergeRow /\ m.id \in Nat
                                /\ m.source \in Contacts /\ m.target \in Contacts
                                /\ ConsentsHeld[m] \subseteq Nat /\ ConsentsTook[m] \subseteq ConsentsHeld[m]
                                /\ m.movedConsents \subseteq ConsentsTook[m]
                                /\ \A q \in m.collapsed : q.source \in ConsentRow /\ q.target \in ConsentRow
  <1>1. clock \in Nat /\ consents \subseteq ConsentRow /\ merges \subseteq MergeRow
    BY DEF TypeOK
  <1>2. \A m \in merges : /\ m \in MergeRow /\ m.id \in Nat /\ m.movedConsents \subseteq Nat
                          /\ m.source \in Contacts /\ m.target \in Contacts
                          /\ \A q \in m.collapsed : q.source \in ConsentRow /\ q.target \in ConsentRow
    BY <1>1 DEF MergeRow
  <1>3. \A r \in ConsentRow : r.id \in Nat /\ r.revokedAt \in Nat
    BY DEF ConsentRow
  <1>4. Known \subseteq ConsentRow
    BY <1>1, <1>2 DEF Known, Archived, ArchivedRows, Standing
  <1>5. \A m \in merges : /\ ConsentsHeld[m] \subseteq Nat /\ ConsentsTook[m] \subseteq ConsentsHeld[m]
                          /\ m.movedConsents \subseteq ConsentsTook[m]
    BY <1>2, <1>3, HeldOf DEF ArchivedRows
  <1> QED BY <1>1, <1>2, <1>3, <1>4, <1>5

LEMMA WrittenTracks ==
    ASSUME TypeOK, ConsentInv, TrackInv, Written
    PROVE  TrackInv'
  <1>t. /\ clock \in Nat
        /\ \A m \in merges : ConsentsHeld[m] \subseteq Nat /\ m.movedConsents \subseteq ConsentsHeld[m]
    BY ConsentTypes
  <1>s. Standing' = Standing /\ merges' = merges /\ Archived' = Archived /\ Standing \subseteq merges
    BY DEF Written, Standing, Archived
  <1>n. clock' \in Nat /\ clock <= clock'
    BY DEF Written
  <1>1. HeldPast'
    BY <1>n, <1>s, <1>t DEF TrackInv, HeldPast
  <1>2. CollapsedApart' /\ ArchivedLast'
    BY <1>s DEF TrackInv, CollapsedApart, ArchivedLast
  <1>3. \A x \in consents' : (\A m \in merges : x.id \notin ConsentsHeld[m])
            \/ \E r \in consents : x.id = r.id /\ x.key = r.key /\ x.contact = r.contact
    BY <1>n, <1>t DEF Written, TrackInv, HeldPast
  <1>4. ArchiveKeysFree'
    <2> SUFFICES ASSUME NEW m \in Standing, NEW r \in ArchivedRows(m), NEW y \in Known',
                        y.id \in m.movedConsents
                 PROVE  y.key # r.key
      BY <1>s DEF ArchiveKeysFree
    <2>1. \E x \in Known : y.id = x.id /\ y.key = x.key
      BY <1>3, <1>s, <1>t DEF Known
    <2> QED BY <2>1 DEF TrackInv, ArchiveKeysFree
  <1>5. ConsentsTracked'
    <2> HIDE DEF ConsentsHeld, ConsentsTook
    <2>1. \A y \in consents' : \/ \E r \in consents : r.id = y.id /\ r.contact = y.contact
                               \/ \A m \in Standing : y.id \notin ConsentsHeld[m]
      BY <1>3, <1>s
    <2>2. Followed(Standing, ConsentsHeld, ConsentsTook, consents')
      BY <2>1, OthersFollow DEF TrackInv, ConsentsTracked
    <2> QED BY <1>s, <2>2 DEF TrackInv, ConsentsTracked
  <1> QED BY <1>1, <1>2, <1>4, <1>5 DEF TrackInv

\* What a merge records of the consents it finds.
LEMMA MergeHolds ==
    ASSUME AuditInv, ConsentInv, NEW t \in Contacts, NEW s \in Contacts, MergeContacts(t, s)
    PROVE  \E new \in MergeRow :
             /\ merges' = merges \cup {new} /\ Standing' = Standing \cup {new}
             /\ new.id = clock + 1 /\ clock' = clock + 1 /\ t # s
             /\ new.source = s /\ new.target = t
             /\ new.collapsed = Clashing(t, s)
             /\ ArchivedRows(new) \subseteq ConsentsOf(s)
             /\ ConsentsTook[new] = {r.id : r \in ConsentsOf(s)}
             /\ \A i \in new.movedConsents : \E r \in ConsentsOf(s) : r.id = i /\ r \notin ArchivedRows(new)
             /\ \A q \in new.collapsed : q.source \in ConsentsOf(s) /\ q.target \in ConsentsOf(t)
             /\ \A x \in consents' : \E r \in consents :
                  /\ x.id = r.id /\ x.key = r.key /\ r \notin ArchivedRows(new)
                  /\ x.contact = IF r.contact = s THEN t ELSE r.contact
  <1> DEFINE new == AuditRow(t, s, clock')
  <1>1. clock \in Nat /\ clock' = clock + 1 /\ t # s /\ TypeOK
    BY DEF AuditInv, TypeOK, MergeContacts, Tick
  <1>2. new \in MergeRow
    BY <1>1, MergeRowType
  <1>3. merges' = merges \cup {new} /\ consents' = MergedConsents(t, s)
    BY DEF MergeContacts
  <1>4. /\ new.id = clock + 1 /\ new.source = s /\ new.target = t /\ new.undone = 0
        /\ new.collapsed = Clashing(t, s)
        /\ new.movedConsents = {r.id : r \in ConsentsOf(s)} \ {q.source.id : q \in Clashing(t, s)}
    BY <1>1 DEF AuditRow
  <1> HIDE DEF new
  <1>5. \A q \in Clashing(t, s) : q.source \in ConsentsOf(s) /\ q.target \in ConsentsOf(t)
    BY DEF Clashing
  <1>6. ArchivedRows(new) = {q.source : q \in Clashing(t, s)} /\ ArchivedRows(new) \subseteq ConsentsOf(s)
    BY <1>4, <1>5 DEF ArchivedRows
  <1>7. ConsentsTook[new] = {r.id : r \in ConsentsOf(s)}
    <2>1. ConsentsTook[new] = new.movedConsents \cup {r.id : r \in ArchivedRows(new)}
      BY <1>2, HeldOf
    <2>2. {r.id : r \in ArchivedRows(new)} = {q.source.id : q \in Clashing(t, s)}
      BY <1>6
    <2> QED BY <1>4, <1>6, <2>1, <2>2
  <1>8. \A i \in new.movedConsents : \E r \in ConsentsOf(s) : r.id = i /\ r \notin ArchivedRows(new)
    BY <1>4, <1>6
  <1>9. \A x \in consents' : \E r \in consents :
             /\ x.id = r.id /\ x.key = r.key /\ r \notin ArchivedRows(new)
             /\ x.contact = IF r.contact = s THEN t ELSE r.contact
    <2> SUFFICES ASSUME NEW x \in MergedConsents(t, s)
                 PROVE  \E r \in consents :
                          /\ x.id = r.id /\ x.key = r.key /\ r \notin ArchivedRows(new)
                          /\ x.contact = IF r.contact = s THEN t ELSE r.contact
      BY <1>3
    <2>1. CASE \E r \in consents :
                 /\ r \notin {q.source : q \in Clashing(t, s)}
                 /\ x.id = r.id /\ x.key = r.key
                 /\ x.contact = IF r.contact = s THEN t ELSE r.contact
      BY <1>6, <2>1
    <2>2. CASE \E q \in Clashing(t, s) : x.id = q.target.id /\ x.key = q.target.key /\ x.contact = t
      BY <1>1, <1>5, <1>6, <2>2 DEF ConsentsOf
    <2> QED BY <1>1, <2>1, <2>2, MergedOrigins
  <1>10. Standing' = Standing \cup {new}
    BY <1>3, <1>4 DEF Standing
  <1> QED BY <1>1, <1>2, <1>3, <1>4, <1>5, <1>6, <1>7, <1>8, <1>9, <1>10

LEMMA MergeTracks ==
    ASSUME AuditInv, ConsentInv, TrackInv, NEW t \in Contacts, NEW s \in Contacts, MergeContacts(t, s)
    PROVE  TrackInv'
  <1>1. PICK new \in MergeRow :
             /\ merges' = merges \cup {new} /\ Standing' = Standing \cup {new}
             /\ new.id = clock + 1 /\ clock' = clock + 1 /\ t # s
             /\ new.source = s /\ new.target = t
             /\ new.collapsed = Clashing(t, s)
             /\ ArchivedRows(new) \subseteq ConsentsOf(s)
             /\ ConsentsTook[new] = {r.id : r \in ConsentsOf(s)}
             /\ \A i \in new.movedConsents : \E r \in ConsentsOf(s) : r.id = i /\ r \notin ArchivedRows(new)
             /\ \A q \in new.collapsed : q.source \in ConsentsOf(s) /\ q.target \in ConsentsOf(t)
             /\ \A x \in consents' : \E r \in consents :
                  /\ x.id = r.id /\ x.key = r.key /\ r \notin ArchivedRows(new)
                  /\ x.contact = IF r.contact = s THEN t ELSE r.contact
    BY MergeHolds
  <1>t. /\ clock \in Nat
        /\ \A r \in Known : r.id \in Nat /\ r.id <= clock
        /\ \A m \in merges : /\ m.id \in Nat /\ m.id <= clock
                             /\ ConsentsHeld[m] \subseteq Nat /\ ConsentsTook[m] \subseteq ConsentsHeld[m]
                             /\ m.movedConsents \subseteq ConsentsTook[m]
    BY ConsentTypes DEF AuditInv, Trail, MergesPast, ConsentInv, RowsPast
  <1>u. \A r, p \in consents : (r.contact = p.contact /\ r.key = p.key) \/ r.id = p.id => r = p
    BY DEF ConsentInv, ConsentKeysUnique
  <1>o. \A r \in ConsentsOf(s) : r \in consents /\ r.contact = s
    BY DEF ConsentsOf
  <1>p. \A r \in ConsentsOf(t) : r \in consents /\ r.contact = t
    BY DEF ConsentsOf
  <1>s. Standing \subseteq merges
    BY DEF Standing
  <1>h. ConsentsHeld[new] = ConsentsTook[new] \cup {q.target.id : q \in new.collapsed}
    BY <1>1, HeldOf
  <1>l. \A i \in ConsentsHeld[new] : \E r \in consents :
            r.id = i /\ r.contact = IF i \in ConsentsTook[new] THEN s ELSE t
    BY <1>1, <1>h, <1>o, <1>p
  <1>2. HeldPast'
    <2>1. \A i \in ConsentsHeld[new] : i <= clock + 1
      BY <1>l, <1>t DEF Known
    <2>2. \A m \in merges : \A i \in ConsentsHeld[m] : i <= clock + 1
      BY <1>t DEF TrackInv, HeldPast
    <2> QED BY <1>1, <2>1, <2>2 DEF HeldPast
  <1>3. CollapsedApart'
    <2>1. \A q, p \in new.collapsed : q.target.id # p.source.id
      BY <1>1, <1>o, <1>p, <1>u
    <2> QED BY <1>1, <2>1 DEF TrackInv, CollapsedApart
  <1>4. ArchivedLast'
    <2> SUFFICES ASSUME NEW o \in Standing \cup {new}, NEW m \in Standing \cup {new},
                        NEW r \in ArchivedRows(o), r.id \in ConsentsHeld[m]
                 PROVE  m.id <= o.id
      BY <1>1 DEF ArchivedLast
    <2>1. CASE o = new
      BY <1>1, <1>s, <1>t, <2>1
    <2>2. CASE o \in Standing /\ m = new
      <3>1. r.id \in LiveIds
        BY <1>l, <2>2 DEF LiveIds
      <3>2. r \in Archived
        BY <2>2 DEF Archived
      <3> QED BY <3>1, <3>2 DEF ConsentInv, ArchivesApart
    <2>3. CASE o \in Standing /\ m \in Standing
      BY <2>3 DEF TrackInv, ArchivedLast
    <2> QED BY <2>1, <2>2, <2>3
  <1>5. \A y \in Known' : \E x \in Known : y.id = x.id /\ y.key = x.key
    <2>1. Archived' = Archived \cup ArchivedRows(new)
      BY <1>1 DEF Archived
    <2> QED BY <1>1, <1>o, <2>1 DEF Known
  <1>6. ArchiveKeysFree'
    <2> SUFFICES ASSUME NEW m \in Standing \cup {new}, NEW r \in ArchivedRows(m), NEW y \in Known',
                        y.id \in m.movedConsents, y.key = r.key
                 PROVE  FALSE
      BY <1>1 DEF ArchiveKeysFree
    <2>1. PICK x \in Known : y.id = x.id /\ y.key = x.key
      BY <1>5
    <2>2. CASE m \in Standing
      BY <2>1, <2>2 DEF TrackInv, ArchiveKeysFree
    <2>3. CASE m = new
      <3>1. PICK p \in ConsentsOf(s) : p.id = x.id /\ p \notin ArchivedRows(new)
        BY <1>1, <2>1, <2>3
      <3>2. p.key = x.key
        BY <1>o, <3>1 DEF ConsentInv, OneKeyPerId, Known
      <3>3. r \in ConsentsOf(s)
        BY <1>1, <2>3
      <3> QED BY <1>o, <1>u, <2>1, <2>3, <3>1, <3>2, <3>3
    <2> QED BY <2>2, <2>3
  <1>7. \A x \in consents' : \E r \in consents :
            /\ r.id = x.id
            /\ IF r.contact = new.source THEN x.contact = new.target /\ r.id \in ConsentsTook[new]
                                         ELSE x.contact = r.contact
    BY <1>1 DEF ConsentsOf
  <1>8. \A x \in consents' : x.id \in ConsentsHeld[new] => x.contact = new.target
    BY <1>1, <1>l, <1>u
  <1>9. ConsentsTracked'
    <2> HIDE DEF ConsentsHeld, ConsentsTook
    <2>1. /\ Chained(Standing, ConsentsHeld, ConsentsTook)
          /\ Followed(Standing, ConsentsHeld, ConsentsTook, consents)
      BY DEF TrackInv, ConsentsTracked
    <2>2. new.id \in Nat /\ \A m \in Standing : m.id \in Nat /\ m.id < new.id
      BY <1>1, <1>s, <1>t
    <2>3. \A i \in ConsentsHeld[new] : \E r \in consents :
              r.id = i /\ r.contact = IF i \in ConsentsTook[new] THEN new.source ELSE new.target
      BY <1>1, <1>l
    <2>4. /\ Chained(Standing \cup {new}, ConsentsHeld, ConsentsTook)
          /\ Followed(Standing \cup {new}, ConsentsHeld, ConsentsTook, consents')
      BY <1>7, <1>8, <2>1, <2>2, <2>3, MergeFollows
    <2> QED BY <1>1, <2>4 DEF ConsentsTracked
  <1> QED BY <1>2, <1>3, <1>4, <1>6, <1>9 DEF TrackInv

LEMMA UndoTracks ==
    ASSUME AuditInv, MergeIdsApart, ConsentInv, TrackInv, NEW m \in merges, UndoContactMerge(m)
    PROVE  TrackInv'
  <1>1. /\ m \in Standing /\ clock' = clock + 1
        /\ \A n \in Standing : n.source # m.target /\ (n.id > m.id => n.target # m.target)
        /\ Standing' = Standing \ {m}
    BY UndoStarts
  <1>2. PICK old : /\ merges' = (merges \ {m}) \cup {old}
                   /\ old.movedConsents = m.movedConsents /\ old.collapsed = m.collapsed
    BY UndoStarts
  <1>t. /\ clock \in Nat /\ consents \subseteq ConsentRow
        /\ \A n \in merges : /\ n \in MergeRow /\ n.id \in Nat
                             /\ ConsentsHeld[n] \subseteq Nat /\ ConsentsTook[n] \subseteq ConsentsHeld[n]
                             /\ n.movedConsents \subseteq ConsentsTook[n]
    BY ConsentTypes DEF AuditInv, TypeOK
  <1>s. Standing \subseteq merges
    BY DEF Standing
  <1>o. ConsentsHeld[old] = ConsentsHeld[m]
    <2>1. old \in MergeRow
      BY <1>2, UndoTypeOK DEF AuditInv, TypeOK
    <2> QED BY <1>2, <1>t, <2>1 DEF ConsentsHeld
  <1>3. PICK F :
          /\ \A r \in consents :
               /\ F[r].id = r.id /\ F[r].key = r.key
               /\ F[r].contact = IF r.id \in m.movedConsents THEN m.source ELSE r.contact
          /\ \A x \in consents' :
               \/ \E r \in consents : x = F[r]
               \/ x \in ArchivedRows(m)
    BY <1>t, RestoredOrigins DEF UndoContactMerge
  <1>a. /\ ArchivedRows(m) \subseteq Archived
        /\ \A r \in ArchivedRows(m) : r.id \notin LiveIds /\ r.contact = m.source
    BY <1>1 DEF Archived, ConsentInv, ArchivesApart, ArchivesSound
  <1>4. HeldPast'
    BY <1>1, <1>2, <1>o, <1>t DEF TrackInv, HeldPast
  <1>5. CollapsedApart'
    BY <1>2 DEF TrackInv, CollapsedApart
  <1>6. ArchivedLast'
    BY <1>1 DEF TrackInv, ArchivedLast
  <1>7. \A y \in Known' : \E x \in Known : y.id = x.id /\ y.key = x.key
    <2>1. Archived' \subseteq Archived
      BY <1>1 DEF Archived
    <2> QED BY <1>3, <1>a, <2>1 DEF Known
  <1>8. ArchiveKeysFree'
    <2> SUFFICES ASSUME NEW n \in Standing, NEW r \in ArchivedRows(n), NEW y \in Known',
                        y.id \in n.movedConsents, y.key = r.key
                 PROVE  FALSE
      BY <1>1 DEF ArchiveKeysFree
    <2> QED BY <1>7 DEF TrackInv, ArchiveKeysFree
  <1>9. \A y \in consents' :
            \/ y.id \in ConsentsTook[m] /\ y.contact = m.source
            \/ y.id \notin ConsentsTook[m] /\ \E r \in consents : r.id = y.id /\ r.contact = y.contact
    <2>1. ConsentsTook[m] = m.movedConsents \cup {r.id : r \in ArchivedRows(m)}
      BY <1>t, HeldOf
    <2>2. \A r \in consents : r.id \in ConsentsTook[m] <=> r.id \in m.movedConsents
      BY <1>a, <2>1 DEF LiveIds
    <2> QED BY <1>3, <1>a, <2>1, <2>2
  <1>10. ConsentsTracked'
    <2> HIDE DEF ConsentsHeld, ConsentsTook
    <2>1. /\ Chained(Standing, ConsentsHeld, ConsentsTook)
          /\ Followed(Standing, ConsentsHeld, ConsentsTook, consents)
      BY DEF TrackInv, ConsentsTracked
    <2>2. /\ \A n \in Standing : n.id \in Nat /\ ConsentsTook[n] \subseteq ConsentsHeld[n]
          /\ \A n, o \in Standing : n.id = o.id => n = o
      BY <1>s, <1>t DEF MergeIdsApart
    <2>3. /\ Chained(Standing \ {m}, ConsentsHeld, ConsentsTook)
          /\ Followed(Standing \ {m}, ConsentsHeld, ConsentsTook, consents')
      BY <1>1, <1>9, <2>1, <2>2, UndoFollows
    <2> QED BY <1>1, <2>3 DEF ConsentsTracked
  <1> QED BY <1>4, <1>5, <1>6, <1>8, <1>10 DEF TrackInv

LEMMA NextTracks == AuditInv /\ MergeIdsApart /\ ConsentInv /\ TrackInv /\ [Next]_vars => TrackInv'
  BY StepKinds, WrittenTracks, MergeTracks, UndoTracks DEF AuditInv

-----------------------------------------------------------------------------
(* Any number of requests.                                                  *)

TracksInv == AuditInv /\ RecordsInv /\ ConsentInv /\ TrackInv

\* MovedRowsStay without its last part, which needs that no request overlaps.
MovedRowsFound ==
    \A m \in Standing :
        (\A n \in Standing : n.id > m.id => ~Touches(n, m.source) /\ ~Touches(n, m.target)) =>
            /\ \A r \in records : r.id \in m.moved => r.contact = m.target
            /\ \A r \in consents : r.id \in m.movedConsents => r.contact = m.target

LEMMA InitTracks == Init => TracksInv
  <1> SUFFICES ASSUME Init PROVE TracksInv
    OBVIOUS
  <1>1. AuditInv
    BY InitTypeOK, InitTrail DEF AuditInv
  <1>2. merges = {} /\ records = {} /\ consents = {} /\ calls = {} /\ Standing = {} /\ Archived = {}
    BY DEF Init, Standing, Archived
  <1>3. RecordsInv
    BY <1>2 DEF RecordsInv, MergeIdsApart, RecordIdsApart, RecordsPast, StampsFree, OnlyRepointed,
                RecordsTracked, Chained, Followed
  <1>4. ConsentInv
    BY <1>2 DEF ConsentInv, ConsentKeysUnique, RowsPast, MovedPast, OneKeyPerId, MovedApart,
                ArchivesSound, ArchivesApart, Known
  <1>5. TrackInv
    BY <1>2 DEF TrackInv, HeldPast, CollapsedApart, ArchivedLast, ArchiveKeysFree, ConsentsTracked,
                Chained, Followed
  <1> QED BY <1>1, <1>3, <1>4, <1>5 DEF TracksInv

LEMMA NextTracksInv == TracksInv /\ [Next]_vars => TracksInv'
  <1> SUFFICES ASSUME TracksInv, [Next]_vars PROVE TracksInv'
    OBVIOUS
  <1>1. AuditInv /\ TypeOK /\ RecordsInv /\ MergeIdsApart /\ ConsentInv /\ TrackInv
    BY DEF TracksInv, AuditInv, RecordsInv
  <1>2. AuditInv'
    BY <1>1, NextTypeOK, NextTrail DEF AuditInv
  <1>3. RecordsInv' /\ ConsentInv' /\ TrackInv'
    BY <1>1, NextRecords, NextConsents, NextTracks
  <1> QED BY <1>2, <1>3 DEF TracksInv

LEMMA TracksFound == TracksInv => MovedRowsFound
  <1> SUFFICES ASSUME TracksInv, NEW m \in Standing,
                      \A n \in Standing : n.id > m.id => ~Touches(n, m.source) /\ ~Touches(n, m.target)
               PROVE  /\ \A r \in records : r.id \in m.moved => r.contact = m.target
                      /\ \A r \in consents : r.id \in m.movedConsents => r.contact = m.target
    BY DEF MovedRowsFound
  <1>1. /\ m \in merges /\ m \in MergeRow
        /\ \A n \in Standing : n.id \in Nat
        /\ m.movedConsents \subseteq ConsentsTook[m] /\ ConsentsTook[m] \subseteq ConsentsHeld[m]
    BY ConsentTypes DEF TracksInv, AuditInv, Standing
  <1>2. \A n \in Standing : m.id < n.id => n.source # m.target
    BY <1>1 DEF Touches
  <1>3. ASSUME NEW r \in records, r.id \in m.moved PROVE r.contact = m.target
    <2>1. r \in Repointable
      BY <1>1, <1>3 DEF TracksInv, RecordsInv, OnlyRepointed, Repointable
    <2>2. r.id \in RecordsTook[m]
      BY <1>1, <1>3, TookOf
    <2> HIDE DEF RecordsTook
    <2> QED BY <1>2, <2>1, <2>2 DEF TracksInv, RecordsInv, RecordsTracked, Followed
  <1>4. ASSUME NEW r \in consents, r.id \in ConsentsHeld[m] PROVE r.contact = m.target
    BY <1>2, <1>4 DEF TracksInv, TrackInv, ConsentsTracked, Followed
  <1> QED BY <1>1, <1>3, <1>4

\* However many requests overlap, and whatever merges and undos happened in
\* between, the rows that the undo of an untouched merge would move back lie
\* where the merge put them.
THEOREM UndoFindsItsRows == Spec => []MovedRowsFound
  BY InitTracks, NextTracksInv, TracksFound, PTL DEF Spec

-----------------------------------------------------------------------------
(* One request at a time.                                                   *)

OneAtATime ==
    \/ calls = {}
    \/ \E k \in calls : /\ calls = {k}
                        /\ k.at = clock /\ Live(k.contact) /\ \A m \in merges : m.id < k.at

LEMMA FreeServer ==
    ASSUME MaxCalls = 1, OneAtATime, Idle
    PROVE  calls = {}
  <1>1. \A k : Cardinality({k}) = 1
    BY FS_Singleton
  <1> QED BY <1>1 DEF OneAtATime, Idle

LEMMA NextOneAtATime ==
    ASSUME MaxCalls = 1, AuditInv, OneAtATime, [Next]_vars
    PROVE  OneAtATime'
  <1>c. clock \in Nat /\ \A m \in merges : m.id \in Nat /\ m.id <= clock
    BY RecordTypes DEF AuditInv, Trail, MergesPast
  <1>i. ASSUME Idle, calls' = calls PROVE OneAtATime'
    BY <1>i, FreeServer DEF OneAtATime
  <1>1. ASSUME NEW c \in Contacts, NEW p \in Profile, CreateContact(c, p) PROVE OneAtATime'
    BY <1>i, <1>1 DEF CreateContact
  <1>2. ASSUME NEW c \in Contacts, NEW l \in {NoLead} \cup {r.id : r \in records}, Open(c, l)
        PROVE  OneAtATime'
    <2>1. calls = {}
      BY <1>2, FreeServer DEF Open
    <2>2. PICK k : k = [at |-> clock + 1, contact |-> c, lead |-> l, read |-> contacts[c].profile]
      OBVIOUS
    <2>3. clock' = clock + 1 /\ contacts' = contacts /\ merges' = merges /\ Live(c)
      BY <1>2 DEF Open, Tick, tables
    <2>4. calls' = {k} /\ k.at = clock + 1 /\ k.contact = c
      BY <1>2, <2>1, <2>2, <2>3 DEF Open
    <2>5. Live(k.contact)' /\ \A m \in merges' : m.id < k.at
      BY <1>c, <2>3, <2>4 DEF Live
    <2> QED BY <2>3, <2>4, <2>5 DEF OneAtATime
  <1>3. ASSUME NEW k \in calls, WriteOf(k) PROVE OneAtATime'
    <2>1. calls' = calls \ {k}
      BY <1>3 DEF WriteOf, PatchContact, SaveContact, AddRecord, UpsertContactConsent,
                  RevokeContactConsent, RevokeContactMarketing
    <2> QED BY <2>1 DEF OneAtATime
  <1>4. ASSUME NEW c \in Contacts, SoftDeleteContact(c) PROVE OneAtATime'
    BY <1>i, <1>4 DEF SoftDeleteContact
  <1>5. ASSUME NEW v \in Phones \cup {Blank}, NEW c \in Contacts, NEW w \in BOOLEAN, IntakeLead(v, c, w)
        PROVE  OneAtATime'
    BY <1>i, <1>5 DEF IntakeLead
  <1>6. ASSUME NEW p \in Pairs, DismissMergeCandidate(p) PROVE OneAtATime'
    BY <1>i, <1>6 DEF DismissMergeCandidate
  <1>7. ASSUME NEW t \in Contacts, NEW s \in Contacts, MergeContacts(t, s) PROVE OneAtATime'
    BY <1>i, <1>7 DEF MergeContacts
  <1>8. ASSUME NEW m \in merges, UndoContactMerge(m) PROVE OneAtATime'
    BY <1>i, <1>8 DEF UndoContactMerge
  <1>9. CASE UNCHANGED vars
    BY <1>9 DEF vars, OneAtATime, Live
  <1> QED BY <1>1, <1>2, <1>3, <1>4, <1>5, <1>6, <1>7, <1>8, <1>9 DEF Next

\* A step other than a merge or an undo adds rows to contacts that are not
\* tombstones: nobody holds an older read of one.
Attached ==
    /\ merges' = merges
    /\ \A x \in records' : x \in records \/ contacts[x.contact].status # "tombstone"
    /\ \A x \in consents' : \/ \E r \in consents : r.contact = x.contact
                            \/ contacts[x.contact].status # "tombstone"

LEMMA UpsertAttaches ==
    ASSUME TypeOK, NEW c \in Contacts, NEW key, NEW m, NEW ts, contacts[c].status # "tombstone"
    PROVE  \A x \in Upserted(c, key, m, ts) : \/ \E r \in consents : r.contact = x.contact
                                              \/ contacts[x.contact].status # "tombstone"
  <1>1. \A r \in consents : [r EXCEPT !.marketing = m].contact = r.contact
    BY DEF TypeOK, ConsentRow
  <1> DEFINE cur == {r \in ConsentsOf(c) : r.key = key}
             new == [id |-> ts, contact |-> c, key |-> key, marketing |-> m, revokedAt |-> 0]
  <1>2. CASE cur = {}
    <2>1. Upserted(c, key, m, ts) = consents \cup {new} /\ new.contact = c
      BY <1>2 DEF Upserted
    <2> QED BY <2>1
  <1>3. CASE cur # {}
    <2>1. \A x \in Upserted(c, key, m, ts) : \E r \in consents : x \in {r, [r EXCEPT !.marketing = m]}
      BY <1>3 DEF Upserted
    <2> QED BY <1>1, <2>1
  <1> QED BY <1>2, <1>3

LEMMA WriteAttaches ==
    ASSUME TypeOK, OneAtATime, NEW k \in calls, WriteOf(k)
    PROVE  Attached
  <1>1. k.contact \in Contacts /\ contacts[k.contact].status # "tombstone"
    BY DEF TypeOK, Call, OneAtATime, Live
  <1>2. ASSUME NEW p, SaveContact(k, p) PROVE Attached
    BY <1>2 DEF SaveContact, Attached
  <1>3. ASSUME NEW t \in Tables, AddRecord(k, t) PROVE Attached
    BY <1>1, <1>3 DEF AddRecord, Attached
  <1>4. ASSUME NEW key \in Keys, NEW m \in BOOLEAN, UpsertContactConsent(k, key, m) PROVE Attached
    BY <1>1, <1>4, UpsertAttaches DEF UpsertContactConsent, Attached
  <1>5. ASSUME NEW r \in consents, RevokeContactConsent(k, r) PROVE Attached
    <2>1. [r EXCEPT !.revokedAt = clock'].contact = r.contact
      BY DEF TypeOK, ConsentRow
    <2> QED BY <1>5, <2>1 DEF RevokeContactConsent, Attached
  <1>6. CASE RevokeContactMarketing(k)
    <2>1. PICK ts : consents' = {IF r.contact = k.contact /\ r.marketing /\ ~Revoked(r)
                                   THEN [r EXCEPT !.revokedAt = ts] ELSE r : r \in consents}
      BY <1>6 DEF RevokeContactMarketing
    <2>2. \A r \in consents : [r EXCEPT !.revokedAt = ts].contact = r.contact
      BY DEF TypeOK, ConsentRow
    <2>3. \A x \in consents' : \E r \in consents : x \in {r, [r EXCEPT !.revokedAt = ts]}
      BY <2>1
    <2> QED BY <1>6, <2>2, <2>3 DEF RevokeContactMarketing, Attached
  <1> QED BY <1>2, <1>3, <1>4, <1>5, <1>6 DEF WriteOf, PatchContact

LEMMA StepAttaches ==
    ASSUME TypeOK, OneAtATime, [Next]_vars
    PROVE  \/ Attached
           \/ \E t, s \in Contacts : MergeContacts(t, s)
           \/ \E m \in merges : UndoContactMerge(m)
  <1>1. ASSUME NEW c \in Contacts, NEW p \in Profile, CreateContact(c, p) PROVE Attached
    BY <1>1 DEF CreateContact, Attached
  <1>2. ASSUME NEW c \in Contacts, NEW l \in {NoLead} \cup {r.id : r \in records}, Open(c, l)
        PROVE  Attached
    BY <1>2 DEF Open, tables, Attached
  <1>3. ASSUME NEW c \in Contacts, SoftDeleteContact(c) PROVE Attached
    BY <1>3 DEF SoftDeleteContact, Attached
  <1>4. ASSUME NEW v \in Phones \cup {Blank}, NEW c \in Contacts, NEW w \in BOOLEAN, IntakeLead(v, c, w)
        PROVE  Attached
    <2>1. contacts[c].status # "tombstone"
      BY <1>4 DEF IntakeLead, ContactsByPhone, Live
    <2>2. merges' = merges /\ \A x \in records' : x \in records \/ x.contact = c
      BY <1>4 DEF IntakeLead
    <2>3. \/ consents' = consents
          \/ \E key \in Keys, m \in BOOLEAN : consents' = Upserted(c, key, m, clock')
      BY <1>4 DEF IntakeLead
    <2> QED BY <2>1, <2>2, <2>3, UpsertAttaches DEF Attached
  <1>5. ASSUME NEW p \in Pairs, DismissMergeCandidate(p) PROVE Attached
    BY <1>5 DEF DismissMergeCandidate, Attached
  <1>6. CASE UNCHANGED vars
    BY <1>6 DEF vars, Attached
  <1> QED BY <1>1, <1>2, <1>3, <1>4, <1>5, <1>6, WriteAttaches DEF Next

LEMMA NextNoRowLeft ==
    ASSUME TracksInv, OneAtATime, NoRowLeftBehind, [Next]_vars
    PROVE  NoRowLeftBehind'
  <1>a. AuditInv /\ TypeOK /\ ConsentInv /\ MergeIdsApart
    BY DEF TracksInv, AuditInv, RecordsInv
  <1>d. \A m \in Standing : contacts[m.source].status = "tombstone"
    BY <1>a DEF AuditInv, Trail, AuditConsistent
  <1>1. CASE Attached
    <2>1. Standing' = Standing
      BY <1>1 DEF Attached, Standing
    <2> QED BY <1>1, <1>d, <2>1 DEF Attached, NoRowLeftBehind, ConsentsOf
  <1>2. ASSUME NEW t \in Contacts, NEW s \in Contacts, MergeContacts(t, s) PROVE NoRowLeftBehind'
    <2>1. PICK new \in MergeRow :
             /\ Standing' = Standing \cup {new} /\ t # s
             /\ new.source = s /\ new.target = t
             /\ \A x \in consents' : \E r \in consents :
                  x.contact = IF r.contact = s THEN t ELSE r.contact
      BY <1>2, <1>a, MergeHolds
    <2>2. \A x \in records' : x.table # "follow_ups" =>
              \E r \in records : r.table # "follow_ups" /\ x.contact = IF r.contact = s THEN t ELSE r.contact
      <3> SUFFICES ASSUME NEW x \in records', x.table # "follow_ups"
                   PROVE  \E r \in records : /\ r.table # "follow_ups"
                                             /\ x.contact = IF r.contact = s THEN t ELSE r.contact
        OBVIOUS
      <3>1. PICK r \in records : x = IF r \in RepointedRecords(s) THEN [r EXCEPT !.contact = t] ELSE r
        BY <1>2 DEF MergeContacts
      <3>2. r \in RecordRow /\ r.table \in {"leads", "opportunities", "contact_followups", "follow_ups"}
        BY <1>a, TablesAssumption DEF TypeOK, RecordRow
      <3>3. x.table = r.table
        BY <3>1, <3>2 DEF RecordRow
      <3>4. r \in RepointedRecords(s) <=> r.contact = s
        BY <3>2, <3>3 DEF RepointedRecords, RepointedTables
      <3> QED BY <3>1, <3>2, <3>3, <3>4 DEF RecordRow
    <2>3. contacts[t].status = "live"
      BY <1>2 DEF MergeContacts, Live
    <2> SUFFICES ASSUME NEW m \in Standing \cup {new}
                 PROVE  /\ \A x \in records' : x.table # "follow_ups" => x.contact # m.source
                        /\ \A x \in consents' : x.contact # m.source
      BY <2>1 DEF NoRowLeftBehind, ConsentsOf
    <2>4. m.source # t
      BY <1>d, <2>1, <2>3
    <2>5. CASE m = new
      BY <2>1, <2>2, <2>4, <2>5
    <2>6. CASE m \in Standing
      BY <2>1, <2>2, <2>4, <2>6 DEF NoRowLeftBehind, ConsentsOf
    <2> QED BY <2>5, <2>6
  <1>3. ASSUME NEW m \in merges, UndoContactMerge(m) PROVE NoRowLeftBehind'
    <2>1. m \in Standing /\ Standing' = Standing \ {m}
      BY <1>3, <1>a, UndoStarts
    <2>2. \A n \in Standing \ {m} : n.source # m.source
      BY <1>a, <2>1 DEF AuditInv, Trail, AuditConsistent
    <2>3. \A x \in records' : \/ x.contact = m.source
                              \/ x \in records
      <3>1. \A r \in records : [r EXCEPT !.contact = m.source].contact = m.source
        BY <1>a DEF TypeOK, RecordRow
      <3> QED BY <1>3, <3>1 DEF UndoContactMerge, MovedBackRecords
    <2>4. PICK F :
          /\ \A r \in consents : F[r].contact = IF r.id \in m.movedConsents THEN m.source ELSE r.contact
          /\ \A x \in consents' : (\E r \in consents : x = F[r]) \/ x \in ArchivedRows(m)
      BY <1>3, <1>a, RestoredOrigins DEF UndoContactMerge, TypeOK
    <2>5. \A x \in ArchivedRows(m) : x.contact = m.source
      BY <1>a DEF ConsentInv, ArchivesSound
    <2> SUFFICES ASSUME NEW n \in Standing \ {m}
                 PROVE  /\ \A x \in records' : x.table # "follow_ups" => x.contact # n.source
                        /\ \A x \in consents' : x.contact # n.source
      BY <2>1 DEF NoRowLeftBehind, ConsentsOf
    <2>6. \A x \in records' : x.table # "follow_ups" => x.contact # n.source
      BY <2>2, <2>3 DEF NoRowLeftBehind
    <2>7. \A x \in consents' : x.contact # n.source
      BY <2>2, <2>4, <2>5 DEF NoRowLeftBehind, ConsentsOf
    <2> QED BY <2>6, <2>7
  <1> QED BY <1>a, <1>1, <1>2, <1>3, StepAttaches

-----------------------------------------------------------------------------
(* Conservation.  What a merge and an undo leave of each consent.           *)

\* A row the merge finds is archived by it, or still there, revoked if it was;
\* the target row of a clash is revoked if either side was.
LEMMA MergedRows ==
    ASSUME TypeOK, NEW t \in Contacts, NEW s \in Contacts
    PROVE  /\ \A r \in consents :
                \/ r \in {q.source : q \in Clashing(t, s)}
                \/ \E x \in MergedConsents(t, s) : x.id = r.id /\ (Revoked(r) => Revoked(x))
           /\ \A q \in Clashing(t, s) :
                \E x \in MergedConsents(t, s) :
                    /\ x.id = q.target.id
                    /\ Revoked(q.source) \/ Revoked(q.target) => Revoked(x)
  <1>1. ASSUME NEW q \in Clashing(t, s)
        PROVE  /\ Collapse(q) \in MergedConsents(t, s)
               /\ Collapse(q).id = q.target.id
               /\ Revoked(q.source) \/ Revoked(q.target) => Revoked(Collapse(q))
    <2>1. q.target \in ConsentRow /\ q.source \in ConsentRow
      BY DEF Clashing, ConsentsOf, TypeOK
    <2>2. Collapse(q).id = q.target.id
      BY <2>1 DEF Collapse, ConsentRow
    <2>3. Collapse(q).revokedAt = IF Revoked(q.target) THEN q.target.revokedAt ELSE q.source.revokedAt
      BY <2>1 DEF Collapse, ConsentRow
    <2> QED BY <2>2, <2>3 DEF MergedConsents, Revoked
  <1>2. ASSUME NEW r \in consents, r \notin {q.source : q \in Clashing(t, s)}
        PROVE  \E x \in MergedConsents(t, s) : x.id = r.id /\ (Revoked(r) => Revoked(x))
    <2>1. CASE r \in {q.target : q \in Clashing(t, s)}
      BY <1>1, <2>1
    <2>2. CASE r \notin {q.target : q \in Clashing(t, s)}
      <3> DEFINE x == IF r.contact = s THEN [r EXCEPT !.contact = t] ELSE r
      <3>1. x \in MergedConsents(t, s)
        BY <1>2, <2>2 DEF MergedConsents
      <3>2. x.id = r.id /\ x.revokedAt = r.revokedAt
        BY DEF TypeOK, ConsentRow
      <3> QED BY <3>1, <3>2 DEF Revoked
    <2> QED BY <2>1, <2>2
  <1> QED BY <1>1, <1>2

\* A row the undo finds is still there, revoked if it was, unless the archive
\* knows its row from before the merge as not revoked.  An archived row is back
\* if no row of the source has its key.
LEMMA RestoredRows ==
    ASSUME consents \subseteq ConsentRow, NEW m \in MergeRow
    PROVE  /\ \A r \in consents : \E x \in RestoredConsents(m) :
                /\ x.id = r.id
                /\ Revoked(r) => \/ Revoked(x)
                                 \/ \E q \in m.collapsed : q.target.id = r.id /\ ~Revoked(q.target)
           /\ \A r \in ArchivedRows(m) :
                \/ r \in RestoredConsents(m)
                \/ \E y \in consents : /\ y.id \in m.movedConsents \/ y.contact = r.contact
                                       /\ y.key = r.key
  <1> DEFINE Back(r) == IF r.id \in m.movedConsents THEN [r EXCEPT !.contact = m.source] ELSE r
             Before(r) == CHOOSE q \in m.collapsed : q.target.id = r.id
             Again(r) == IF \E q \in m.collapsed : q.target.id = r.id
                           THEN [r EXCEPT !.marketing = Before(r).target.marketing,
                                          !.revokedAt = Before(r).target.revokedAt]
                           ELSE r
             back == {Back(r) : r \in consents}
  <1>1. m.source \in Contacts
    BY DEF MergeRow
  <1>2. \A r \in consents : /\ Back(r) \in ConsentRow
                            /\ Back(r).id = r.id /\ Back(r).key = r.key /\ Back(r).revokedAt = r.revokedAt
                            /\ r.id \notin m.movedConsents => Back(r).contact = r.contact
    BY <1>1 DEF ConsentRow
  <1>3. ASSUME NEW r \in ConsentRow
        PROVE  /\ Again(r).id = r.id
               /\ \/ Again(r).revokedAt = r.revokedAt
                  \/ \E q \in m.collapsed : q.target.id = r.id /\ Again(r).revokedAt = q.target.revokedAt
    <2>1. CASE \E q \in m.collapsed : q.target.id = r.id
      <3>1. Before(r) \in m.collapsed /\ Before(r).target.id = r.id
        BY <2>1
      <3> HIDE DEF Before
      <3>2. Again(r).id = r.id /\ Again(r).revokedAt = Before(r).target.revokedAt
        BY <2>1 DEF ConsentRow
      <3> QED BY <3>1, <3>2
    <2>2. CASE ~\E q \in m.collapsed : q.target.id = r.id
      BY <2>2
    <2> QED BY <2>1, <2>2
  <1>4. RestoredConsents(m) = {Again(r) : r \in back}
            \cup {r \in ArchivedRows(m) : ~\E x \in back : x.contact = r.contact /\ x.key = r.key}
    BY DEF RestoredConsents, ArchivedRows
  <1> HIDE DEF Back, Again
  <1>5. ASSUME NEW r \in consents
        PROVE  \E x \in RestoredConsents(m) :
                 /\ x.id = r.id
                 /\ Revoked(r) => \/ Revoked(x)
                                  \/ \E q \in m.collapsed : q.target.id = r.id /\ ~Revoked(q.target)
    <2>1. Again(Back(r)) \in RestoredConsents(m)
      BY <1>4
    <2>2. /\ Again(Back(r)).id = r.id
          /\ \/ Again(Back(r)).revokedAt = r.revokedAt
             \/ \E q \in m.collapsed : q.target.id = r.id /\ Again(Back(r)).revokedAt = q.target.revokedAt
      BY <1>2, <1>3
    <2> QED BY <2>1, <2>2 DEF Revoked
  <1>6. ASSUME NEW r \in ArchivedRows(m), r \notin RestoredConsents(m)
        PROVE  \E y \in consents : /\ y.id \in m.movedConsents \/ y.contact = r.contact
                                   /\ y.key = r.key
    <2>1. PICK y \in consents : Back(y).contact = r.contact /\ Back(y).key = r.key
      BY <1>4, <1>6
    <2> QED BY <1>2, <2>1
  <1> QED BY <1>5, <1>6

\* Nobody writes to the source of a standing merge, so its keys stay free.
LEMMA ArchiveReturns ==
    ASSUME TracksInv, NoRowLeftBehind, NEW m \in merges, UndoContactMerge(m)
    PROVE  ArchivedRows(m) \subseteq consents'
  <1>1. m \in Standing /\ m \in MergeRow /\ consents \subseteq ConsentRow /\ consents' = RestoredConsents(m)
    BY DEF UndoContactMerge, TracksInv, AuditInv, TypeOK
  <1>2. ConsentsOf(m.source) = {}
    BY <1>1 DEF NoRowLeftBehind
  <1>3. \A r \in ArchivedRows(m) : r.contact = m.source
    BY DEF TracksInv, ConsentInv, ArchivesSound
  <1>4. \A r \in ArchivedRows(m), y \in consents : y.id \in m.movedConsents => y.key # r.key
    BY <1>1 DEF TracksInv, TrackInv, ArchiveKeysFree, Known
  <1> QED BY <1>1, <1>2, <1>3, <1>4, RestoredRows DEF ConsentsOf

\* What a step keeps of the rows that are known, and of the revoked ones.
LEMMA StepKeepsIds ==
    ASSUME TracksInv, NoRowLeftBehind, [Next]_vars
    PROVE  KeptIds \subseteq KeptIds'
  <1>a. AuditInv /\ TypeOK /\ ConsentInv /\ MergeIdsApart
    BY DEF TracksInv, AuditInv, RecordsInv
  <1>k. KeptIds = {r.id : r \in Known} /\ KeptIds' = {r.id : r \in Known'}
    BY DEF KeptIds, LiveIds, Known, Archived
  <1>1. CASE Written
    <2>1. Archived' = Archived
      BY <1>1 DEF Written, Archived, Standing
    <2> QED BY <1>1, <1>k, <2>1 DEF Written, Known
  <1>2. ASSUME NEW t \in Contacts, NEW s \in Contacts, MergeContacts(t, s)
        PROVE  KeptIds \subseteq KeptIds'
    <2>1. PICK new \in MergeRow : Standing' = Standing \cup {new} /\ new.collapsed = Clashing(t, s)
      BY <1>2, <1>a, MergeHolds
    <2>2. Archived' = Archived \cup {q.source : q \in Clashing(t, s)}
      BY <2>1 DEF Archived, ArchivedRows
    <2>3. consents' = MergedConsents(t, s)
      BY <1>2 DEF MergeContacts
    <2>4. \A r \in consents : r \in Archived' \/ \E x \in consents' : x.id = r.id
      BY <1>a, <2>2, <2>3, MergedRows
    <2> QED BY <1>k, <2>2, <2>4 DEF Known
  <1>3. ASSUME NEW m \in merges, UndoContactMerge(m) PROVE KeptIds \subseteq KeptIds'
    <2>1. Standing' = Standing \ {m} /\ ArchivedRows(m) \subseteq consents'
      BY <1>3, <1>a, UndoStarts, ArchiveReturns
    <2>2. Archived \subseteq Archived' \cup consents'
      BY <2>1 DEF Archived
    <2>3. \A r \in consents : \E x \in consents' : x.id = r.id
      BY <1>3, <1>a, RestoredRows DEF UndoContactMerge, TypeOK
    <2> QED BY <1>k, <2>2, <2>3 DEF Known
  <1> QED BY <1>a, <1>1, <1>2, <1>3, StepKinds

-----------------------------------------------------------------------------
(* Revocations.                                                             *)

\* A merge that found a collapsed row again found it revoked.
RevokedSnapshots ==
    \A m, n \in Standing : m.id < n.id =>
        \A q \in m.collapsed, p \in n.collapsed :
            p.target.id = q.target.id /\ (Revoked(q.source) \/ Revoked(q.target)) => Revoked(p.target)

RevocationInv == RevokedSnapshots /\ CollapsedRevocationHolds

\* RevokedIds, by rows.
LEMMA RevokedRows == RevokedIds = {r.id : r \in {x \in Known : Revoked(x)}}
  BY DEF RevokedIds, Known, Archived

LEMMA NextRevocations ==
    ASSUME TracksInv, NoRowLeftBehind, RevocationInv, [Next]_vars
    PROVE  RevocationInv'
  <1>a. AuditInv /\ TypeOK /\ ConsentInv /\ MergeIdsApart /\ TrackInv
    BY DEF TracksInv, AuditInv, RecordsInv
  <1>r. /\ RevokedIds = {r.id : r \in {x \in Known : Revoked(x)}}
        /\ RevokedIds' = {r.id : r \in {x \in Known' : Revoked(x)}}
    BY RevokedRows DEF RevokedIds, Known, Archived
  <1>n. \A m \in Standing : m \in merges /\ m.id \in Nat /\ m.id <= clock
    BY <1>a, ConsentTypes DEF Standing, AuditInv, Trail, MergesPast
  <1>c. clock \in Nat
    BY <1>a DEF TypeOK
  <1>1. CASE Written
    <2>1. Standing' = Standing /\ Archived' = Archived
      BY <1>1 DEF Written, Archived, Standing
    <2>2. RevokedSnapshots'
      BY <2>1 DEF RevocationInv, RevokedSnapshots
    <2>3. RevokedIds \subseteq RevokedIds'
      BY <1>1, <1>r, <2>1 DEF Written, Known
    <2>4. CollapsedRevocationHolds'
      BY <2>1, <2>3 DEF RevocationInv, CollapsedRevocationHolds
    <2> QED BY <2>2, <2>4 DEF RevocationInv
  <1>2. ASSUME NEW t \in Contacts, NEW s \in Contacts, MergeContacts(t, s)
        PROVE  RevocationInv'
    <2>1. PICK new \in MergeRow :
             /\ Standing' = Standing \cup {new} /\ new.id = clock + 1
             /\ new.collapsed = Clashing(t, s)
             /\ \A q \in new.collapsed : q.source \in ConsentsOf(s) /\ q.target \in ConsentsOf(t)
      BY <1>2, <1>a, MergeHolds
    <2>2. Archived' = Archived \cup {q.source : q \in Clashing(t, s)}
      BY <2>1 DEF Archived, ArchivedRows
    <2>3. consents' = MergedConsents(t, s)
      BY <1>2 DEF MergeContacts
    <2>4. \A r \in consents : r \in Archived' \/ \E x \in consents' : x.id = r.id /\ (Revoked(r) => Revoked(x))
      BY <1>a, <2>2, <2>3, MergedRows
    <2>5. RevokedIds \subseteq RevokedIds'
      BY <1>r, <2>2, <2>4 DEF Known
    <2>6. RevokedSnapshots'
      <3> SUFFICES ASSUME NEW m \in Standing \cup {new}, NEW n \in Standing \cup {new}, m.id < n.id,
                          NEW q \in m.collapsed, NEW p \in n.collapsed,
                          p.target.id = q.target.id, Revoked(q.source) \/ Revoked(q.target)
                   PROVE  Revoked(p.target)
        BY <2>1 DEF RevokedSnapshots
      <3>1. m \in Standing
        BY <1>c, <1>n, <2>1
      <3>2. CASE n \in Standing
        BY <3>1, <3>2 DEF RevocationInv, RevokedSnapshots
      <3>3. CASE n = new
        <4>1. p.target \in consents
          BY <2>1, <3>3 DEF ConsentsOf
        <4>2. p.target.id \in RevokedIds
          BY <3>1 DEF RevocationInv, CollapsedRevocationHolds
        <4>3. PICK r \in Known : Revoked(r) /\ r.id = p.target.id
          BY <1>r, <4>2
        <4>4. r \in consents
          BY <1>a, <4>1, <4>3 DEF ConsentInv, ArchivesApart, LiveIds, Known
        <4> QED BY <1>a, <4>1, <4>3, <4>4 DEF ConsentInv, ConsentKeysUnique
      <3> QED BY <3>2, <3>3
    <2>7. CollapsedRevocationHolds'
      <3> SUFFICES ASSUME NEW m \in Standing \cup {new}, NEW q \in m.collapsed,
                          Revoked(q.source) \/ Revoked(q.target)
                   PROVE  q.target.id \in RevokedIds'
        BY <2>1 DEF CollapsedRevocationHolds
      <3>1. CASE m \in Standing
        BY <2>5, <3>1 DEF RevocationInv, CollapsedRevocationHolds
      <3>2. CASE m = new
        <4>1. PICK x \in consents' : x.id = q.target.id /\ Revoked(x)
          BY <1>a, <2>1, <2>3, <3>2, MergedRows
        <4> QED BY <1>r, <4>1 DEF Known
      <3> QED BY <3>1, <3>2
    <2> QED BY <2>6, <2>7 DEF RevocationInv
  <1>3. ASSUME NEW m \in merges, UndoContactMerge(m) PROVE RevocationInv'
    <2>1. /\ m \in Standing /\ Standing' = Standing \ {m} /\ ArchivedRows(m) \subseteq consents'
          /\ \A n \in Standing : n.source # m.target /\ (n.id > m.id => n.target # m.target)
      BY <1>3, <1>a, UndoStarts, ArchiveReturns
    <2>2. Archived \subseteq Archived' \cup consents'
      BY <2>1 DEF Archived
    <2>3. \A r \in consents : \E x \in consents' :
                /\ x.id = r.id
                /\ Revoked(r) => \/ Revoked(x)
                                 \/ \E q \in m.collapsed : q.target.id = r.id /\ ~Revoked(q.target)
      BY <1>3, <1>a, RestoredRows DEF UndoContactMerge, TypeOK
    <2>4. RevokedSnapshots'
      BY <2>1 DEF RevocationInv, RevokedSnapshots
    <2>5. CollapsedRevocationHolds'
      <3> SUFFICES ASSUME NEW n \in Standing \ {m}, NEW q \in n.collapsed,
                          Revoked(q.source) \/ Revoked(q.target)
                   PROVE  q.target.id \in RevokedIds'
        BY <2>1 DEF CollapsedRevocationHolds
      <3>1. q.target.id \in RevokedIds
        BY DEF RevocationInv, CollapsedRevocationHolds
      <3>2. PICK r \in Known : Revoked(r) /\ r.id = q.target.id
        BY <1>r, <3>1
      <3>3. CASE r \in Archived
        BY <1>r, <2>2, <3>2, <3>3 DEF Known
      <3>4. CASE r \in consents
        <4>1. ASSUME NEW p \in m.collapsed, p.target.id = r.id PROVE Revoked(p.target)
          <5>1. n \in MergeRow /\ m \in MergeRow /\ n.id \in Nat /\ m.id \in Nat /\ n.id # m.id
            BY <1>a, <1>n, <2>1, ConsentTypes DEF MergeIdsApart
          <5>2. r.id \in ConsentsHeld[m] \cap ConsentsHeld[n]
            BY <3>2, <4>1, <5>1, HeldOf
          <5>3. CASE n.id < m.id
            BY <2>1, <3>2, <4>1, <5>3 DEF RevocationInv, RevokedSnapshots
          <5>4. CASE m.id < n.id
            <6> HIDE DEF ConsentsHeld, ConsentsTook
            <6> QED BY <1>a, <2>1, <5>2, <5>4 DEF TrackInv, ConsentsTracked, Chained, Taken
          <5> QED BY <5>1, <5>3, <5>4
        <4>2. PICK x \in consents' : x.id = r.id /\ Revoked(x)
          BY <2>3, <3>2, <3>4, <4>1
        <4> QED BY <1>r, <3>2, <4>2 DEF Known
      <3> QED BY <3>2, <3>3, <3>4 DEF Known
    <2> QED BY <2>4, <2>5 DEF RevocationInv
  <1> QED BY <1>a, <1>1, <1>2, <1>3, StepKinds

-----------------------------------------------------------------------------
(* Profiles.  The target of a merge shows the profile the merge gave it, or *)
(* an instant later than the merge.                                         *)

ProfileStamped ==
    \A m \in Standing : contacts[m.target].updated > m.id \/ contacts[m.target].profile = m.after

LEMMA NextProfiles ==
    ASSUME AuditInv, MergeIdsApart, OneAtATime, ProfileStamped, [Next]_vars
    PROVE  ProfileStamped'
  <1>a. /\ TypeOK /\ clock \in Nat /\ contacts \in [Contacts -> ContactRow]
        /\ \A m \in Standing : /\ m \in merges /\ m.id \in Nat /\ m.id <= clock /\ m.target \in Contacts
                               /\ contacts[m.target].status # "absent"
    BY RecordTypes DEF AuditInv, TypeOK, Standing, Trail, MergesPast, TargetsFollowed
  \* A step writes a contact that nobody was merged into, or stamps it later.
  <1>q. ASSUME merges' = merges,
               \A c \in Contacts : \/ contacts'[c] = contacts[c]
                                   \/ contacts[c].status = "absent"
                                   \/ \A m \in Standing : contacts'[c].updated > m.id
        PROVE  ProfileStamped'
    <2>1. Standing' = Standing
      BY <1>q DEF Standing
    <2> QED BY <1>a, <1>q, <2>1 DEF ProfileStamped
  <1>1. ASSUME NEW c \in Contacts, NEW p \in Profile, CreateContact(c, p) PROVE ProfileStamped'
    BY <1>a, <1>q, <1>1 DEF CreateContact
  <1>2. ASSUME NEW c \in Contacts, NEW l \in {NoLead} \cup {r.id : r \in records}, Open(c, l)
        PROVE  ProfileStamped'
    BY <1>q, <1>2 DEF Open, tables
  <1>3. ASSUME NEW k \in calls, WriteOf(k) PROVE ProfileStamped'
    <2>k. k.at \in Nat /\ k.contact \in Contacts /\ \A m \in merges : m.id < k.at
      BY <1>a DEF OneAtATime, TypeOK, Call
    <2>1. ASSUME NEW p, SaveContact(k, p) PROVE ProfileStamped'
      <3>1. PICK ts \in {k.at, clock + 1} : contacts' = Saved(k, p, ts)
        BY <2>1 DEF SaveContact
      <3>2. \A m \in Standing : ts > m.id
        BY <1>a, <2>k
      <3>3. \A c \in Contacts : contacts'[c] = contacts[c] \/ contacts'[c].updated = ts
        BY <1>a, <2>k, <3>1 DEF Saved, ContactRow
      <3>4. merges' = merges
        BY <2>1 DEF SaveContact
      <3> QED BY <1>q, <3>2, <3>3, <3>4
    <2>2. CASE ~\E p : SaveContact(k, p)
      <3>1. merges' = merges /\ contacts' = contacts
        BY <1>3, <2>2 DEF WriteOf, PatchContact, AddRecord, UpsertContactConsent,
                          RevokeContactConsent, RevokeContactMarketing
      <3> QED BY <1>q, <3>1
    <2> QED BY <2>1, <2>2
  <1>4. ASSUME NEW c \in Contacts, SoftDeleteContact(c) PROVE ProfileStamped'
    <2>1. clock' = clock + 1 /\ merges' = merges
          /\ \A d \in Contacts : contacts'[d] = contacts[d] \/ contacts'[d].updated = clock'
      BY <1>a, <1>4 DEF SoftDeleteContact, Tick
    <2>2. \A m \in Standing : clock + 1 > m.id
      BY <1>a
    <2> QED BY <1>q, <2>1, <2>2
  <1>5. ASSUME NEW v \in Phones \cup {Blank}, NEW c \in Contacts, NEW w \in BOOLEAN, IntakeLead(v, c, w)
        PROVE  ProfileStamped'
    <2>1. merges' = merges /\ \A d \in Contacts : contacts'[d] = contacts[d] \/ contacts[d].status = "absent"
      BY <1>a, <1>5 DEF IntakeLead
    <2> QED BY <1>q, <2>1
  <1>6. ASSUME NEW p \in Pairs, DismissMergeCandidate(p) PROVE ProfileStamped'
    BY <1>q, <1>6 DEF DismissMergeCandidate
  <1>7. ASSUME NEW t \in Contacts, NEW s \in Contacts, MergeContacts(t, s) PROVE ProfileStamped'
    <2>1. clock' = clock + 1 /\ t # s
      BY <1>7 DEF MergeContacts, Tick
    <2>2. PICK new : new = AuditRow(t, s, clock')
      OBVIOUS
    <2>3. new.target = t /\ new.after = MergedProfile(t, s) /\ new.undone = 0
      BY <2>2 DEF AuditRow
    <2>4. Standing' = Standing \cup {new}
      BY <1>7, <2>2, <2>3 DEF MergeContacts, Standing
    <2>5. /\ \A c \in Contacts : contacts'[c] = contacts[c] \/ contacts'[c].updated = clock + 1
          /\ contacts'[t].profile = MergedProfile(t, s)
      BY <1>a, <1>7, <2>1 DEF MergeContacts
    <2>6. \A m \in Standing : clock + 1 > m.id
      BY <1>a
    <2> SUFFICES ASSUME NEW m \in Standing \cup {new}
                 PROVE  contacts'[m.target].updated > m.id \/ contacts'[m.target].profile = m.after
      BY <2>4 DEF ProfileStamped
    <2>7. CASE m = new
      BY <2>3, <2>5, <2>7
    <2>8. CASE m \in Standing
      BY <1>a, <2>5, <2>6, <2>8 DEF ProfileStamped
    <2> QED BY <2>7, <2>8
  <1>8. ASSUME NEW m \in merges, UndoContactMerge(m) PROVE ProfileStamped'
    <2>1. Standing' = Standing \ {m} /\ clock' = clock + 1
      BY <1>8, UndoStarts
    <2>2. m.source \in Contacts /\ m.target \in Contacts
      BY <1>a, RecordTypes
    <2>3. \A c \in Contacts : contacts'[c] = contacts[c] \/ contacts'[c].updated = clock + 1
      BY <1>a, <1>8, <2>1, <2>2 DEF UndoContactMerge, ContactRow
    <2>4. \A n \in Standing : clock + 1 > n.id
      BY <1>a
    <2> QED BY <1>a, <2>1, <2>3, <2>4 DEF ProfileStamped
  <1>9. CASE UNCHANGED vars
    BY <1>q, <1>9 DEF vars
  <1> QED BY <1>1, <1>2, <1>3, <1>4, <1>5, <1>6, <1>7, <1>8, <1>9 DEF Next

-----------------------------------------------------------------------------
(* The theorems about one request at a time.                                *)

\* Nothing that a merge holds is lost.
HeldKept == \A m \in Standing : ConsentsHeld[m] \subseteq KeptIds

SingleInv ==
    /\ TracksInv
    /\ OneAtATime /\ NoRowLeftBehind /\ HeldKept /\ RevocationInv /\ ProfileStamped

LEMMA NextHeldKept ==
    ASSUME TracksInv, NoRowLeftBehind, HeldKept, [Next]_vars
    PROVE  HeldKept'
  <1>a. AuditInv /\ TypeOK /\ ConsentInv /\ MergeIdsApart
    BY DEF TracksInv, AuditInv, RecordsInv
  <1>k. KeptIds \subseteq KeptIds'
    BY StepKeepsIds
  <1>1. CASE Written
    BY <1>1, <1>k DEF Written, HeldKept, Standing
  <1>2. ASSUME NEW t \in Contacts, NEW s \in Contacts, MergeContacts(t, s) PROVE HeldKept'
    <2>1. PICK new \in MergeRow :
             /\ Standing' = Standing \cup {new}
             /\ ConsentsTook[new] = {r.id : r \in ConsentsOf(s)}
             /\ \A q \in new.collapsed : q.target \in ConsentsOf(t)
      BY <1>2, <1>a, MergeHolds
    <2>2. ConsentsHeld[new] \subseteq LiveIds
      BY <2>1, HeldOf DEF ConsentsOf, LiveIds
    <2>3. LiveIds \subseteq KeptIds
      BY DEF KeptIds
    <2> QED BY <1>k, <2>1, <2>2, <2>3 DEF HeldKept
  <1>3. ASSUME NEW m \in merges, UndoContactMerge(m) PROVE HeldKept'
    <2>1. Standing' = Standing \ {m}
      BY <1>3, <1>a, UndoStarts
    <2> QED BY <1>k, <2>1 DEF HeldKept
  <1> QED BY <1>a, <1>1, <1>2, <1>3, StepKinds

LEMMA InitSingleInv == Init => SingleInv
  <1> SUFFICES ASSUME Init PROVE SingleInv
    OBVIOUS
  <1>1. TracksInv
    BY InitTracks
  <1>2. merges = {} /\ calls = {} /\ Standing = {}
    BY DEF Init, Standing
  <1>3. /\ OneAtATime /\ NoRowLeftBehind /\ HeldKept /\ RevocationInv /\ ProfileStamped
    BY <1>2 DEF OneAtATime, NoRowLeftBehind, HeldKept, RevocationInv, RevokedSnapshots,
                CollapsedRevocationHolds, ProfileStamped
  <1> QED BY <1>1, <1>3 DEF SingleInv

LEMMA NextSingleInv == MaxCalls = 1 /\ SingleInv /\ [Next]_vars => SingleInv'
  <1> SUFFICES ASSUME MaxCalls = 1, SingleInv, [Next]_vars PROVE SingleInv'
    OBVIOUS
  <1>1. /\ TracksInv /\ AuditInv /\ MergeIdsApart
        /\ OneAtATime /\ NoRowLeftBehind /\ HeldKept /\ RevocationInv /\ ProfileStamped
    BY DEF SingleInv, TracksInv, RecordsInv
  <1>2. TracksInv' /\ OneAtATime' /\ NoRowLeftBehind'
    BY <1>1, NextTracksInv, NextOneAtATime, NextNoRowLeft
  <1>3. HeldKept' /\ RevocationInv' /\ ProfileStamped'
    BY <1>1, NextHeldKept, NextRevocations, NextProfiles
  <1> QED BY <1>2, <1>3 DEF SingleInv

LEMMA AlwaysSingleInv ==
    ASSUME MaxCalls = 1
    PROVE  Spec => []SingleInv
  BY InitSingleInv, NextSingleInv, PTL DEF Spec

\* Served one request at a time, a merge leaves nothing behind: no lead,
\* opportunity, timeline entry or consent ever refers to a contact that a
\* standing merge has removed.
THEOREM NothingLeftBehind ==
    ASSUME MaxCalls = 1
    PROVE  Spec => []NoRowLeftBehind
  <1>1. SingleInv => NoRowLeftBehind
    BY DEF SingleInv
  <1> QED BY <1>1, AlwaysSingleInv, PTL

\* Served one request at a time, a revocation on either side of a consent clash
\* outlives the merge, through refreshes, later merges and their undos.
THEOREM RevocationWins ==
    ASSUME MaxCalls = 1
    PROVE  Spec => []CollapsedRevocationHolds
  <1>1. SingleInv => CollapsedRevocationHolds
    BY DEF SingleInv, RevocationInv
  <1> QED BY <1>1, AlwaysSingleInv, PTL

\* Served one request at a time, no consent row is ever lost: it is in the
\* table or in the archive of a merge that can still be undone.
THEOREM NoConsentLost ==
    ASSUME MaxCalls = 1
    PROVE  Spec => ConsentsConserved
  <1>1. SingleInv /\ [Next]_vars => KeptIds \subseteq KeptIds'
    BY StepKeepsIds DEF SingleInv
  <1> QED BY <1>1, AlwaysSingleInv, PTL DEF Spec, ConsentsConserved

\* Served one request at a time, an undo answers 409 rather than lose an edit
\* of the target's profile: what it overwrites is what the merge wrote.
THEOREM NoEditDropped ==
    ASSUME MaxCalls = 1
    PROVE  Spec => UndoDropsNoProfileEdit
  <1>1. ASSUME SingleInv, [Next]_vars, NEW m \in Standing,
               \A n \in merges' : n.id = m.id => n.undone # 0
        PROVE  contacts[m.target].profile = m.after
    <2>a. AuditInv /\ TypeOK /\ MergeIdsApart /\ ProfileStamped /\ m \in merges /\ m.undone = 0
      BY <1>1 DEF SingleInv, TracksInv, AuditInv, RecordsInv, Standing
    <2>1. m \notin merges'
      BY <1>1, <2>a
    <2>2. ~Written
      BY <2>1, <2>a DEF Written
    <2>3. ASSUME NEW t \in Contacts, NEW s \in Contacts, MergeContacts(t, s) PROVE FALSE
      BY <2>1, <2>3, <2>a DEF MergeContacts
    <2>4. PICK x \in merges : UndoContactMerge(x)
      BY <1>1, <2>2, <2>3, <2>a, StepKinds
    <2>5. x = m
      BY <2>1, <2>4, <2>a DEF UndoContactMerge
    <2>6. ~(contacts[m.target].updated > m.id)
      BY <2>4, <2>5 DEF UndoContactMerge, SubsequentWrites
    <2> QED BY <2>6, <2>a DEF ProfileStamped
  <1>2. SingleInv /\ [Next]_vars =>
            \A m \in Standing : (\A n \in merges' : n.id = m.id => n.undone # 0) =>
                contacts[m.target].profile = m.after
    BY <1>1
  <1> QED BY <1>2, AlwaysSingleInv, PTL DEF Spec, UndoDropsNoProfileEdit

\* Served one request at a time, whenever no later merge touches either side,
\* every record and consent that an undo is about to move, and the surviving
\* row of every clash, lies under the target of the merge.
THEOREM MovedRowsHeld ==
    ASSUME MaxCalls = 1
    PROVE  Spec => []MovedRowsStay
  <1>1. ASSUME SingleInv PROVE MovedRowsStay
    <2> SUFFICES ASSUME NEW m \in Standing,
                        \A n \in Standing : n.id > m.id => ~Touches(n, m.source) /\ ~Touches(n, m.target),
                        NEW q \in m.collapsed
                 PROVE  \E r \in ConsentsOf(m.target) : r.id = q.target.id
      <3>1. MovedRowsFound
        BY <1>1, TracksFound DEF SingleInv
      <3> QED BY <3>1 DEF MovedRowsStay, MovedRowsFound
    <2>a. TracksInv /\ TypeOK /\ MergeIdsApart /\ TrackInv /\ HeldKept
      BY <1>1 DEF SingleInv, TracksInv, AuditInv, RecordsInv
    <2>n. \A o \in Standing : o \in merges /\ o \in MergeRow /\ o.id \in Nat
      BY <2>a, ConsentTypes DEF Standing
    <2>1. \A o \in Standing : m.id < o.id => o.source # m.target
      BY <2>n DEF Touches
    <2>2. q.target.id \in ConsentsHeld[m]
      BY <2>n, HeldOf
    <2>3. PICK r \in Known : r.id = q.target.id
      BY <2>2, <2>a DEF HeldKept, KeptIds, LiveIds, Known, Archived
    <2>4. CASE r \in consents
      <3> HIDE DEF ConsentsHeld, ConsentsTook
      <3>1. r.contact = m.target
        BY <2>1, <2>2, <2>3, <2>4, <2>a DEF TrackInv, ConsentsTracked, Followed
      <3> QED BY <2>3, <2>4, <3>1 DEF ConsentsOf
    <2>5. CASE r \in Archived
      <3>1. PICK o \in Standing : r \in ArchivedRows(o)
        BY <2>5 DEF Archived
      <3>2. m.id <= o.id
        BY <2>2, <2>3, <2>a, <3>1 DEF TrackInv, ArchivedLast
      <3>3. r.id \in ConsentsTook[o] /\ r.id \in ConsentsHeld[o]
        BY <2>n, <3>1, HeldOf
      <3>4. o # m
        BY <2>3, <2>a, <2>n, <3>1 DEF TrackInv, CollapsedApart, ArchivedRows
      <3>5. m.id < o.id
        BY <2>a, <2>n, <3>2, <3>4 DEF MergeIdsApart
      <3> HIDE DEF ConsentsHeld, ConsentsTook
      <3>6. Taken(Standing, ConsentsTook, m, r.id, o.id)
        BY <2>2, <2>3, <2>a, <3>3, <3>5 DEF TrackInv, ConsentsTracked, Chained
      <3> QED BY <2>1, <3>6 DEF Taken
    <2> QED BY <2>3, <2>4, <2>5 DEF Known
  <1> QED BY <1>1, AlwaysSingleInv, PTL
=============================================================================
