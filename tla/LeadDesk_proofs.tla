---------------------------- MODULE LeadDesk_proofs ----------------------------
(***************************************************************************)
(* Theorems about the desk of FollowUps: consultations, leads and those    *)
(* assigned to them, for any phones, events, forms, members, pools and     *)
(* number of requests.                                                     *)
(*                                                                         *)
(* Sequences and their rows are not typed: what counts is that they only   *)
(* grow and which field of a row a step leaves alone.                      *)
(*                                                                         *)
(* Where a lead or a consent lies after merges of merged contacts and      *)
(* undos is not an invariant by itself: Follows adds that each standing    *)
(* merge took it from where the earlier ones had left it.                  *)
(*                                                                         *)
(* DeskInv is inductive by itself; WholeInv adds what origins,             *)
(* retractions, refusals and follow-throughs rest on.                      *)
(***************************************************************************)
EXTENDS FollowUps, FiniteSetTheorems, WellFoundedInduction, TLAPS

-----------------------------------------------------------------------------
(* Sequences of anything.                                                  *)

IsSeq(s) == s \in Seq({s[i] : i \in DOMAIN s})

LEMMA SeqOf ==
    ASSUME NEW S, NEW s \in Seq(S)
    PROVE  IsSeq(s)
<1>1. /\ Len(s) \in Nat /\ DOMAIN s = 1..Len(s) /\ s = [i \in 1..Len(s) |-> s[i]]
  OBVIOUS
<1> DEFINE R == {s[i] : i \in DOMAIN s}
<1>2. s \in [1..Len(s) -> R]
  BY <1>1
<1>3. s \in Seq(R)
  BY <1>1, <1>2
<1> QED
  BY <1>3 DEF IsSeq

LEMMA SeqDomain ==
    ASSUME NEW s, IsSeq(s)
    PROVE  Len(s) \in Nat /\ DOMAIN s = 1..Len(s)
  BY DEF IsSeq

LEMMA Appended ==
    ASSUME NEW s, IsSeq(s), NEW x
    PROVE  LET t == Append(s, x)
           IN  /\ IsSeq(t) /\ Len(t) = Len(s) + 1 /\ DOMAIN t = DOMAIN s \cup {Len(s) + 1}
               /\ t[Len(s) + 1] = x /\ \A i \in DOMAIN s : t[i] = s[i]
<1> DEFINE S == {s[i] : i \in DOMAIN s} \cup {x}
           t == Append(s, x)
<1>1. s \in Seq(S) /\ x \in S
  BY DEF IsSeq
<1> HIDE DEF S
<1>2. /\ t \in Seq(S) /\ Len(t) = Len(s) + 1 /\ t[Len(s) + 1] = x
      /\ \A i \in 1..Len(s) : t[i] = s[i]
  BY <1>1
<1>3. DOMAIN s = 1..Len(s) /\ Len(s) \in Nat /\ DOMAIN t = 1..(Len(s) + 1)
  BY <1>1, <1>2
<1>4. IsSeq(t)
  BY <1>2, SeqOf
<1>5. \A i \in DOMAIN s : t[i] = s[i]
  BY <1>2, <1>3
<1> QED
  BY <1>2, <1>3, <1>4, <1>5

LEMMA Replaced ==
    ASSUME NEW s, IsSeq(s), NEW i, NEW x
    PROVE  LET t == [s EXCEPT ![i] = x]
           IN  /\ IsSeq(t) /\ DOMAIN t = DOMAIN s
               /\ \A j \in DOMAIN s : t[j] = IF j = i THEN x ELSE s[j]
<1> DEFINE S == {s[j] : j \in DOMAIN s} \cup {x}
           t == [s EXCEPT ![i] = x]
<1>1. s \in Seq(S) /\ x \in S
  BY DEF IsSeq
<1> HIDE DEF S
<1>2. Len(s) \in Nat /\ DOMAIN s = 1..Len(s) /\ s \in [1..Len(s) -> S]
  BY <1>1
<1>3. t \in [1..Len(s) -> S] /\ DOMAIN t = DOMAIN s
  BY <1>1, <1>2
<1>4. t \in Seq(S)
  BY <1>2, <1>3
<1>5. \A j \in DOMAIN s : t[j] = IF j = i THEN x ELSE s[j]
  OBVIOUS
<1> QED
  BY <1>3, <1>4, <1>5, SeqOf

-----------------------------------------------------------------------------
(* The ledger.                                                             *)

Rows ==
    /\ IsSeq(contacts)
    /\ \A i \in DOMAIN contacts : /\ {"phone", "live", "since"} \subseteq DOMAIN contacts[i]
                                  /\ contacts[i].since \in Nat
                                  /\ ~contacts[i].live => contacts[i].phone = NoPhone
    /\ IsSeq(leads) /\ \A l \in DOMAIN leads : {"contact", "status", "assignee"} \subseteq DOMAIN leads[l]

LedgerNames == \A e \in ledger : e.lead \in DOMAIN leads /\ e.contact \in DOMAIN contacts

LedgerInv == Rows /\ LedgerNames /\ LedgerRowsExact /\ AmbiguityProposed

\* Contacts and leads only grow, and a contact keeps its number or is given one
\* now, after all contacts there are.
Kept ==
    /\ Rows' /\ candidates \subseteq candidates'
    /\ DOMAIN contacts \subseteq DOMAIN contacts' /\ DOMAIN leads \subseteq DOMAIN leads'
    /\ \A i \in DOMAIN contacts :
        \/ contacts'[i].since > Len(contacts)
        \/ contacts'[i].since = contacts[i].since /\ contacts'[i].phone = contacts[i].phone

LEMMA LedgerUnmoved ==
    ASSUME LedgerInv, Kept, UNCHANGED ledger
    PROVE  LedgerInv'
<1>1. Len(contacts) \in Nat /\ DOMAIN contacts = 1..Len(contacts)
  BY SeqDomain DEF LedgerInv, Rows
<1>2. \A i \in DOMAIN contacts : /\ contacts'[i].since \in Nat /\ contacts[i].since \in Nat
                                 /\ contacts[i].phone # NoPhone => contacts[i].live
  BY DEF LedgerInv, Rows, Kept
<1>3. ASSUME NEW i \in DOMAIN contacts, NEW n \in DOMAIN contacts, contacts'[i].since <= n
      PROVE  contacts'[i].since = contacts[i].since /\ contacts'[i].phone = contacts[i].phone
  <2>1. n <= Len(contacts) /\ contacts'[i].since \in Nat
    BY <1>1, <1>2
  <2>2. ~(contacts'[i].since > Len(contacts))
    BY <1>1, <1>3, <2>1
  <2> QED
    BY <2>2 DEF Kept
<1>4. LedgerNames'
  BY DEF LedgerInv, LedgerNames, Kept
<1>5. LedgerRowsExact'
  <2>1. ASSUME NEW e \in ledger, contacts'[e.contact].since = e.contact PROVE contacts'[e.contact].phone = PhoneIn(e)
    <3>1. e.contact \in DOMAIN contacts
      BY DEF LedgerInv, LedgerNames
    <3>2. contacts'[e.contact].since <= e.contact
      BY <1>1, <2>1, <3>1
    <3> QED
      BY <1>3, <2>1, <3>1, <3>2 DEF LedgerInv, LedgerRowsExact
  <2> QED
    BY <2>1 DEF LedgerInv, LedgerRowsExact, PhoneIn
<1>6. AmbiguityProposed'
  <2>1. ASSUME NEW e \in ledger, NEW i \in 1..(e.contact - 1), contacts'[i].live,
               contacts'[i].phone = contacts'[e.contact].phone, contacts'[i].phone # NoPhone,
               contacts'[i].since <= e.contact, contacts'[e.contact].since = e.contact
        PROVE  {i, e.contact} \in candidates'
    <3>1. e.contact \in DOMAIN contacts /\ i \in DOMAIN contacts
      BY <1>1 DEF LedgerInv, LedgerNames
    <3>2. contacts'[e.contact].since <= e.contact
      BY <1>1, <2>1, <3>1
    <3>3. /\ contacts'[i].since = contacts[i].since /\ contacts'[i].phone = contacts[i].phone
          /\ contacts'[e.contact].since = contacts[e.contact].since
          /\ contacts'[e.contact].phone = contacts[e.contact].phone
      BY <1>3, <2>1, <3>1, <3>2
    <3>4. contacts[i].live
      BY <1>2, <2>1, <3>1, <3>3
    <3>5. {i, e.contact} \in candidates
      BY <2>1, <3>3, <3>4 DEF LedgerInv, AmbiguityProposed
    <3> QED
      BY <3>5 DEF Kept
  <2> QED
    BY <2>1 DEF AmbiguityProposed
<1> QED
  BY <1>4, <1>5, <1>6 DEF LedgerInv, Kept

LEMMA SharingFinite ==
    ASSUME LedgerInv, NEW phone
    PROVE  /\ IsFiniteSet(Sharing(phone)) /\ Cardinality(Sharing(phone)) \in Nat
           /\ \A i \in Sharing(phone) : i \in DOMAIN contacts /\ contacts[i].phone = phone
           /\ Cardinality(Sharing(phone)) = 1 => \E i : Sharing(phone) = {i}
<1>1. Len(contacts) \in Nat /\ DOMAIN contacts = 1..Len(contacts)
  BY SeqDomain DEF LedgerInv, Rows
<1>2. Sharing(phone) \subseteq 1..Len(contacts)
  BY <1>1 DEF Sharing
<1>3. IsFiniteSet(Sharing(phone))
  <2>1. IsFiniteSet(1..Len(contacts))
    BY <1>1, FS_Interval
  <2> QED
    BY <1>2, <2>1, FS_Subset
<1> QED
  BY <1>3, FS_CardinalityType, FS_Singleton DEF Sharing

\* The contact an intake takes is one with the phone, the only one, or new and
\* paired with each that has it.
LEMMA ContactTaken ==
    ASSUME LedgerInv, NEW phone
    PROVE  LET k == IntakeContact(phone)
               known == Sharing(phone)
           IN  /\ \/ k \in known /\ known = {k}
                  \/ k \notin known /\ k = Len(contacts) + 1
               /\ \A i \in known : i # k => {i, k} \in IF Cardinality(known) > 1 THEN candidates \cup Pairs(known, k)
                                                      ELSE candidates
<1> DEFINE k == IntakeContact(phone)
           known == Sharing(phone)
           pairs == IF Cardinality(known) > 1 THEN candidates \cup Pairs(known, k) ELSE candidates
<1>1. /\ IsFiniteSet(known) /\ Cardinality(known) \in Nat
      /\ known \subseteq DOMAIN contacts
      /\ Cardinality(known) = 1 => \E i : known = {i}
  BY SharingFinite
<1>2. Len(contacts) \in Nat /\ DOMAIN contacts = 1..Len(contacts)
  BY SeqDomain DEF LedgerInv, Rows
<1>3. CASE Cardinality(known) = 1
  <2>1. PICK i : known = {i}
    BY <1>1, <1>3
  <2>2. k \in known
    BY <1>3, <2>1 DEF IntakeContact
  <2> QED
    BY <2>1, <2>2
<1>4. CASE Cardinality(known) # 1
  <2>1. k = Len(contacts) + 1 /\ k \notin known
    BY <1>1, <1>2, <1>4 DEF IntakeContact
  <2>2. ASSUME NEW i \in known PROVE {i, k} \in pairs
    <3>1. Cardinality(known) # 0
      BY <1>1, <2>2, FS_EmptySet
    <3>2. Cardinality(known) > 1
      BY <1>1, <1>4, <3>1
    <3>3. Cardinality({i, k}) = 2
      <4>1. IsFiniteSet({k}) /\ Cardinality({k}) = 1
        BY FS_Singleton
      <4>2. Cardinality({k} \cup {i}) = Cardinality({k}) + 1
        BY <2>1, <2>2, <4>1, FS_AddElement
      <4>3. {k} \cup {i} = {i, k}
        OBVIOUS
      <4> QED
        BY <4>1, <4>2, <4>3
    <3>4. {i, k} \in Pairs(known, k)
      BY <2>2, <3>3 DEF Pairs
    <3> QED
      BY <3>2, <3>4
  <2> QED
    BY <2>1, <2>2
<1> QED
  BY <1>3, <1>4

\* Whose each lead may be.
Entitled ==
    /\ IsSeq(entitled) /\ Len(entitled) = Len(leads)
    /\ AssignedOnPurpose

\* No lead is lost or loses someone's claim to it.
ClaimsKept ==
    /\ DOMAIN leads \subseteq DOMAIN leads'
    /\ \A l \in DOMAIN leads : entitled[l] \subseteq entitled'[l]

\* No contact comes or goes, a lead stays with its contact, and a new row of the
\* ledger is of a new lead of its contact.
LeadsStay ==
    /\ \A i \in DOMAIN contacts : i \in DOMAIN contacts' /\ contacts'[i].live = contacts[i].live
    /\ \A l \in DOMAIN leads : leads'[l].contact = leads[l].contact
    /\ \A d \in ledger' \ ledger : d.lead \notin DOMAIN leads /\ leads'[d.lead].contact = d.contact

TablesKept == LedgerInv' /\ Entitled' /\ ClaimsKept /\ LeadsStay

LEMMA FirstIntakeKeeps ==
    ASSUME LedgerInv, Entitled, NEW key, NEW content, NEW facts, NEW source, NEW assigns,
           FirstIntake(key, content, facts, source, assigns),
           facts.phone = IF key[1] = "event" THEN FactsOf[content].phone ELSE content.phone
    PROVE  TablesKept
<1> DEFINE phone == facts.phone
           known == Sharing(phone)
           k == IntakeContact(phone)
           new == [key |-> key, content |-> content, lead |-> Len(leads) + 1, contact |-> k]
<1>1. PICK pick :
        /\ Original(key) = {}
        /\ contacts' = IF k \in known THEN contacts ELSE Append(contacts, NewContact(phone))
        /\ candidates' = IF Cardinality(known) > 1 THEN candidates \cup Pairs(known, k) ELSE candidates
        /\ leads' = Append(leads, [contact |-> k, assignee |-> pick, source |-> source,
                                   status |-> IF LeadFilterReason(facts) = "none" THEN "new" ELSE "filtered"])
        /\ entitled' = Append(entitled, {pick})
        /\ ledger' = ledger \cup {new}
  BY DEF FirstIntake
<1>2. /\ (k \in known /\ known = {k}) \/ (k \notin known /\ k = Len(contacts) + 1)
      /\ \A i \in known : i # k => {i, k} \in candidates'
  BY <1>1, ContactTaken
<1>3. \A i \in known : i \in DOMAIN contacts /\ contacts[i].phone = phone
  BY DEF Sharing
<1>4. /\ Len(contacts) \in Nat /\ DOMAIN contacts = 1..Len(contacts)
      /\ Len(leads) \in Nat /\ DOMAIN leads = 1..Len(leads) /\ DOMAIN entitled = 1..Len(leads)
  BY SeqDomain DEF LedgerInv, Rows, Entitled
<1>5. /\ new.key = key /\ new.content = content /\ new.lead = Len(leads) + 1 /\ new.contact = k
  OBVIOUS
<1> HIDE DEF known, k, new
<1>6. /\ IsSeq(contacts') /\ DOMAIN contacts \subseteq DOMAIN contacts' /\ k \in DOMAIN contacts'
      /\ \A i \in DOMAIN contacts : contacts'[i] = contacts[i]
      /\ contacts'[k].phone = phone
      /\ DOMAIN contacts' \subseteq DOMAIN contacts \cup {k}
      /\ \A i \in DOMAIN contacts' : /\ {"phone", "live", "since"} \subseteq DOMAIN contacts'[i]
                                     /\ contacts'[i].since \in Nat
                                     /\ ~contacts'[i].live => contacts'[i].phone = NoPhone
  <2>1. CASE k \in known
    <3>1. contacts' = contacts
      BY <1>1, <2>1
    <3> QED
      BY <1>3, <2>1, <3>1 DEF LedgerInv, Rows
  <2>2. CASE k \notin known
    <3> DEFINE row == NewContact(phone)
    <3>1. contacts' = Append(contacts, row) /\ k = Len(contacts) + 1
      BY <1>1, <1>2, <2>2
    <3>2. row.phone = phone /\ {"phone", "live", "since"} \subseteq DOMAIN row /\ row.since \in Nat /\ row.live
      BY <1>4 DEF NewContact
    <3> HIDE DEF row
    <3>3. /\ IsSeq(contacts') /\ DOMAIN contacts' = DOMAIN contacts \cup {Len(contacts) + 1}
          /\ contacts'[Len(contacts) + 1] = row /\ \A i \in DOMAIN contacts : contacts'[i] = contacts[i]
      BY <3>1, Appended DEF LedgerInv, Rows
    <3> QED
      BY <3>1, <3>2, <3>3 DEF LedgerInv, Rows
  <2> QED
    BY <2>1, <2>2
<1>7. /\ IsSeq(leads') /\ Len(leads') = Len(leads) + 1 /\ DOMAIN leads' = DOMAIN leads \cup {Len(leads) + 1}
      /\ \A l \in DOMAIN leads : leads'[l] = leads[l]
      /\ leads'[Len(leads) + 1].contact = k /\ leads'[Len(leads) + 1].assignee = pick
      /\ {"contact", "status", "assignee"} \subseteq DOMAIN leads'[Len(leads) + 1]
  <2> DEFINE row == [contact |-> k, assignee |-> pick, source |-> source,
                     status |-> IF LeadFilterReason(facts) = "none" THEN "new" ELSE "filtered"]
  <2>1. leads' = Append(leads, row)
    BY <1>1
  <2>2. row.contact = k /\ row.assignee = pick /\ {"contact", "status", "assignee"} \subseteq DOMAIN row
    OBVIOUS
  <2> HIDE DEF row
  <2>3. /\ IsSeq(leads') /\ Len(leads') = Len(leads) + 1 /\ DOMAIN leads' = DOMAIN leads \cup {Len(leads) + 1}
        /\ leads'[Len(leads) + 1] = row /\ \A i \in DOMAIN leads : leads'[i] = leads[i]
    BY <2>1, Appended DEF LedgerInv, Rows
  <2> QED
    BY <2>2, <2>3
<1>8. /\ IsSeq(entitled') /\ Len(entitled') = Len(leads) + 1
      /\ entitled'[Len(leads) + 1] = {pick} /\ \A l \in DOMAIN leads : entitled'[l] = entitled[l]
  <2>1. /\ IsSeq(entitled') /\ Len(entitled') = Len(entitled) + 1
        /\ entitled'[Len(entitled) + 1] = {pick} /\ \A l \in DOMAIN entitled : entitled'[l] = entitled[l]
    BY <1>1, Appended DEF Entitled
  <2> QED
    BY <1>4, <2>1 DEF Entitled
<1>9. Rows'
  BY <1>6, <1>7 DEF LedgerInv, Rows
<1>10. LedgerNames'
  BY <1>1, <1>5, <1>6, <1>7 DEF LedgerInv, LedgerNames
<1>11. \A e \in ledger : e.lead \in DOMAIN leads /\ e.contact \in DOMAIN contacts /\ e.key # key /\ e.lead # new.lead
  BY <1>1, <1>4, <1>5 DEF LedgerInv, LedgerNames, Original
<1>12. LedgerRowsExact'
  <2>1. \A d, e \in ledger' : (d.key = e.key \/ d.lead = e.lead) => d = e
    BY <1>1, <1>5, <1>11 DEF LedgerInv, LedgerRowsExact
  <2>2. ASSUME NEW e \in ledger, contacts'[e.contact].since = e.contact PROVE contacts'[e.contact].phone = PhoneIn(e)
    BY <1>6, <1>11, <2>2 DEF LedgerInv, LedgerRowsExact
  <2>3. contacts'[new.contact].phone = PhoneIn(new)
    BY <1>5, <1>6 DEF PhoneIn
  <2> QED
    BY <1>1, <2>1, <2>2, <2>3 DEF LedgerRowsExact, PhoneIn
<1>13. AmbiguityProposed'
  <2>1. ASSUME NEW e \in ledger, NEW i \in 1..(e.contact - 1), contacts'[i].live,
               contacts'[i].phone = contacts'[e.contact].phone, contacts'[i].phone # NoPhone,
               contacts'[i].since <= e.contact, contacts'[e.contact].since = e.contact
        PROVE  {i, e.contact} \in candidates'
    <3>1. i \in DOMAIN contacts /\ e.contact \in DOMAIN contacts
      BY <1>4, <1>11, <2>1
    <3>2. {i, e.contact} \in candidates
      BY <1>6, <2>1, <3>1 DEF LedgerInv, AmbiguityProposed
    <3> QED
      BY <1>1, <3>2
  <2>2. ASSUME NEW i \in 1..(k - 1), contacts'[i].live, contacts'[i].phone = contacts'[k].phone, contacts'[i].phone # NoPhone
        PROVE  {i, k} \in candidates'
    <3>1. i \in DOMAIN contacts
      BY <1>2, <1>3, <1>4, <2>2
    <3>2. i \in known /\ i # k
      BY <1>2, <1>3, <1>4, <1>6, <2>2, <3>1 DEF known, Sharing
    <3> QED
      BY <1>2, <3>2
  <2> QED
    BY <1>1, <1>5, <2>1, <2>2 DEF AmbiguityProposed
<1>14. Entitled' /\ ClaimsKept
  BY <1>4, <1>7, <1>8 DEF Entitled, ClaimsKept, AssignedOnPurpose
<1>15. LeadsStay
  <2>1. new.lead \notin DOMAIN leads /\ leads'[new.lead].contact = new.contact
    BY <1>4, <1>5, <1>7
  <2> QED
    BY <1>1, <1>6, <1>7, <2>1 DEF LeadsStay
<1> QED
  BY <1>9, <1>10, <1>12, <1>13, <1>14, <1>15 DEF LedgerInv, TablesKept

-----------------------------------------------------------------------------
(* Merges, and what they have carried where.                               *)

MergeFields == {"target", "source", "moved", "consents", "edited", "undone"}

\* A merge that nothing came after has a target that is there.
MergesSound ==
    /\ IsSeq(merges)
    /\ \A m \in DOMAIN merges : /\ MergeFields \subseteq DOMAIN merges[m]
                                /\ merges[m].target \in DOMAIN contacts /\ merges[m].source \in DOMAIN contacts
                                /\ merges[m].moved \subseteq DOMAIN leads
    /\ \A m \in DOMAIN merges :
        /\ ~merges[m].undone /\ ~merges[m].edited
        /\ \A n \in DOMAIN merges : n > m => ~Touches(n, merges[m].target)
        => contacts[merges[m].target].live

\* where is where the standing merges of by, each from where the earlier ones
\* led, have carried what was home's.
Follows(home, where, by) ==
    /\ where = Carried(home, by)
    /\ \A m \in by : merges[m].source = Carried(home, {n \in by : n < m})

LedgerFollowed == \A e \in ledger : Follows(e.contact, leads[e.lead].contact, CarriersOf(e.lead))

SameMerge(x, y) ==
    /\ MergeFields \subseteq DOMAIN y
    /\ y.target = x.target /\ y.source = x.source /\ y.moved = x.moved /\ y.consents = x.consents

\* Merges stay what they were, and at most are undone.
MergesStay == \A m \in DOMAIN merges : m \in DOMAIN merges' /\ SameMerge(merges[m], merges'[m])

LEMMA Last ==
    ASSUME NEW N \in Nat, NEW by \in SUBSET (1..N), by # {}
    PROVE  \E m \in by : \A n \in by : n <= m
<1> DEFINE gaps == {d \in Nat : \E n \in by : d = N - n}
<1>1. \A n \in by : N - n \in gaps
  OBVIOUS
<1>2. gaps # {} /\ gaps \subseteq Nat
  BY <1>1
<1> HIDE DEF gaps
<1>3. PICK d \in gaps : \A x \in gaps : <<x, d>> \notin OpToRel(<, Nat)
  BY <1>2, NatLessThanWellFounded, WFMin
<1>4. PICK m \in by : d = N - m
  BY DEF gaps
<1>5. ASSUME NEW n \in by PROVE n <= m
  <2>1. N - n \in Nat /\ ~(N - n < d)
    BY <1>1, <1>2, <1>3 DEF OpToRel
  <2> QED
    BY <1>4, <2>1
<1> QED
  BY <1>5

LEMMA CarriedLast ==
    ASSUME NEW by \in SUBSET Nat, NEW m \in by, \A n \in by : n <= m, NEW home
    PROVE  Carried(home, by) = merges[m].target
<1>1. ASSUME NEW k \in by, \A n \in by : n <= k PROVE k = m
  BY <1>1
<1>2. (CHOOSE k \in by : \A n \in by : n <= k) = m
  BY <1>1
<1> QED
  BY <1>2 DEF Carried

\* What no merge is added to or taken from stays.
LEMMA CarriedSame ==
    ASSUME MergesSound, NEW by \in SUBSET (DOMAIN merges), NEW home,
           \A m \in by : merges'[m].target = merges[m].target
    PROVE  Carried(home, by)' = Carried(home, by)
<1>1. Len(merges) \in Nat /\ DOMAIN merges = 1..Len(merges)
  BY SeqDomain DEF MergesSound
<1>2. CASE by = {}
  BY <1>2 DEF Carried
<1>3. CASE by # {}
  <2> DEFINE last == CHOOSE m \in by : \A n \in by : n <= m
  <2>1. last \in by
    BY <1>1, <1>3, Last
  <2>2. Carried(home, by) = merges[last].target /\ Carried(home, by)' = merges'[last].target
    BY <1>3 DEF Carried
  <2> HIDE DEF last
  <2> QED
    BY <2>1, <2>2
<1> QED
  BY <1>2, <1>3

LEMMA FollowsRest ==
    ASSUME MergesSound, MergesStay, NEW home, NEW where, NEW by \in SUBSET (DOMAIN merges), Follows(home, where, by)
    PROVE  Follows(home, where, by)'
<1>1. \A m \in by : merges'[m].target = merges[m].target /\ merges'[m].source = merges[m].source
  BY DEF MergesStay, SameMerge
<1>2. Carried(home, by)' = Carried(home, by)
  BY <1>1, CarriedSame
<1>3. ASSUME NEW m \in by PROVE merges'[m].source = Carried(home, {n \in by : n < m})'
  <2> DEFINE before == {n \in by : n < m}
  <2>1. Carried(home, before)' = Carried(home, before)
    BY <1>1, CarriedSame
  <2> QED
    BY <1>1, <2>1 DEF Follows
<1> QED
  BY <1>2, <1>3 DEF Follows

\* A merge takes it on.
LEMMA FollowsOn ==
    ASSUME MergesSound, MergesStay, NEW home, NEW s, NEW by \in SUBSET (DOMAIN merges), Follows(home, s, by),
           NEW t, NEW new, new = Len(merges) + 1, merges'[new].target = t, merges'[new].source = s
    PROVE  Follows(home, t, by \cup {new})'
<1> DEFINE N == Len(merges)
<1>1. N \in Nat /\ DOMAIN merges = 1..N
  BY SeqDomain DEF MergesSound
<1>2. new = N + 1
  OBVIOUS
<1>3. PICK longer : longer = by \cup {new}
  OBVIOUS
<1>4. Follows(home, s, by)'
  BY FollowsRest
<1>5. new \in longer /\ longer \subseteq Nat /\ \A n \in longer : n <= new
  BY <1>1, <1>2, <1>3
<1>6. Carried(home, longer)' = merges'[new].target
  <2>1. \A k \in longer : (\A n \in longer : n <= k) => k = new
    BY <1>5
  <2>2. (CHOOSE k \in longer : \A n \in longer : n <= k) = new
    BY <1>5, <2>1
  <2> QED
    BY <1>5, <2>2 DEF Carried
<1>7. {n \in longer : n < new} = by /\ \A m \in by : {n \in longer : n < m} = {n \in by : n < m}
  BY <1>1, <1>2, <1>3
<1>8. ASSUME NEW m \in longer PROVE merges'[m].source = Carried(home, {n \in longer : n < m})'
  <2>1. CASE m = new
    BY <1>2, <1>4, <1>7, <2>1 DEF Follows
  <2>2. CASE m \in by
    BY <1>4, <1>7, <2>2 DEF Follows
  <2> QED
    BY <1>3, <2>1, <2>2
<1>9. Follows(home, t, longer)'
  BY <1>2, <1>6, <1>8 DEF Follows
<1> QED
  BY <1>3, <1>9

\* The undo of a merge whose target no later one touched gives it back: were
\* there a later merge of it, the first of them would have taken it from there.
LEMMA FollowsBack ==
    ASSUME MergesSound, MergesStay, NEW home, NEW where, NEW by \in SUBSET (DOMAIN merges), Follows(home, where, by),
           NEW m \in by, \A n \in DOMAIN merges : n > m => merges[n].source # merges[m].target,
           NEW s, merges[m].source = s
    PROVE  Follows(home, s, by \ {m})'
<1> DEFINE N == Len(merges)
           later == {n \in by : n > m}
<1>1. N \in Nat /\ DOMAIN merges = 1..N
  BY SeqDomain DEF MergesSound
<1>2. later = {}
  <2> SUFFICES ASSUME later # {} PROVE FALSE
    OBVIOUS
  <2>1. later \subseteq Nat
    BY <1>1
  <2>2. PICK n \in later : \A x \in later : <<x, n>> \notin OpToRel(<, Nat)
    BY <2>1, NatLessThanWellFounded, WFMin
  <2>3. n \in by /\ n > m /\ n \in Nat
    BY <2>1
  <2>4. ASSUME NEW x \in by, x < n PROVE x <= m
    <3>1. x \in Nat /\ (x \in later => ~(x < n))
      <4>1. x \in Nat
        BY <1>1, <2>4
      <4>2. x \in later => <<x, n>> \notin OpToRel(<, Nat)
        BY <2>2
      <4> HIDE DEF later
      <4> QED
        BY <2>3, <4>1, <4>2 DEF OpToRel
    <3> QED
      BY <1>1, <2>4, <3>1
  <2> DEFINE before == {x \in by : x < n}
  <2>5. before \in SUBSET Nat /\ m \in before /\ \A x \in before : x <= m
    BY <1>1, <2>3, <2>4
  <2>6. Carried(home, before) = merges[m].target
    <3> HIDE DEF before
    <3> QED
      BY <2>5, CarriedLast
  <2>7. merges[n].source = merges[m].target
    BY <2>3, <2>6 DEF Follows
  <2> QED
    BY <2>3, <2>7
<1>3. PICK less : less = by \ {m}
  OBVIOUS
<1>4. less \subseteq by /\ less = {n \in by : n < m}
  BY <1>1, <1>2, <1>3
<1>5. \A k \in less : {n \in less : n < k} = {n \in by : n < k}
  BY <1>1, <1>4
<1>6. Follows(home, where, by)' /\ merges'[m].source = merges[m].source
  BY FollowsRest DEF MergesStay, SameMerge
<1>7. s = Carried(home, less)'
  BY <1>4, <1>6 DEF Follows
<1>8. ASSUME NEW k \in less PROVE merges'[k].source = Carried(home, {n \in less : n < k})'
  BY <1>4, <1>5, <1>6 DEF Follows
<1>9. Follows(home, s, less)'
  BY <1>7, <1>8 DEF Follows
<1> QED
  BY <1>3, <1>9

\* A lead that no merge has carried, or not yet, lies at home.
LEMMA FollowsNone == ASSUME NEW home PROVE Follows(home, home, {})'
  BY DEF Follows, Carried

-----------------------------------------------------------------------------
(* Requests in progress, and forms.                                        *)

CallSound(call) ==
    /\ "op" \in DOMAIN call
    /\ call.op = "lead" => call.lead \in DOMAIN leads /\ (call.to = Nobody \/ call.to \in entitled[call.lead])
    /\ call.op = "update" => call.lead \in DOMAIN leads /\ call.row.assignee \in entitled[call.lead]

CallsSound == DOMAIN calls = Callers /\ \A c \in Callers : CallSound(calls[c])

FormsSound ==
    /\ IsSeq(forms)
    /\ \A i \in DOMAIN forms : /\ {"version", "status"} \subseteq DOMAIN forms[i]
                               /\ forms[i].status \in {"draft", "published", "disabled"}

DeskInv == LedgerInv /\ Entitled /\ FormsSound /\ CallsSound /\ MergesSound /\ LedgerFollowed

LEMMA CallsWait ==
    ASSUME CallsSound, ClaimsKept,
           \/ UNCHANGED calls
           \/ \E c \in Callers : \E call : calls' = [calls EXCEPT ![c] = call] /\ CallSound(call)'
    PROVE  CallsSound'
<1>1. \A call : CallSound(call) => CallSound(call)'
  BY DEF CallSound, ClaimsKept
<1>2. CASE UNCHANGED calls
  BY <1>1, <1>2 DEF CallsSound, CallSound
<1>3. ASSUME NEW c \in Callers, NEW call, calls' = [calls EXCEPT ![c] = call], CallSound(call)' PROVE CallsSound'
  <2>1. DOMAIN calls' = Callers /\ \A d \in Callers : calls'[d] = IF d = c THEN call ELSE calls[d]
    BY <1>3 DEF CallsSound
  <2>2. ASSUME NEW d \in Callers PROVE CallSound(calls[d])'
    <3>1. CASE d = c
      BY <1>3, <2>1, <3>1 DEF CallSound
    <3>2. CASE d # c
      BY <1>1, <2>1, <3>2 DEF CallSound, CallsSound
    <3> QED
      BY <3>1, <3>2
  <2> QED
    BY <2>1, <2>2 DEF CallsSound
<1> QED
  BY <1>2, <1>3

\* A request of another kind takes a step, or none does.
OtherCall(c) == \E call : calls' = [calls EXCEPT ![c] = call] /\ "op" \in DOMAIN call /\ call.op \notin {"lead", "update"}
CallsElsewhere == UNCHANGED calls \/ \E c \in Callers : OtherCall(c)

LEMMA ElsewhereSound ==
    ASSUME CallsSound, ClaimsKept, CallsElsewhere
    PROVE  CallsSound'
<1>1. ASSUME NEW call, "op" \in DOMAIN call, call.op \notin {"lead", "update"} PROVE CallSound(call)'
  BY <1>1 DEF CallSound
<1> QED
  BY <1>1, CallsWait DEF CallsElsewhere, OtherCall

LEMMA Steps ==
    ASSUME NEW c
    PROVE  /\ \A call : (Start(c, call) \/ Proceed(c, call)) /\ "op" \in DOMAIN call /\ call.op \notin {"lead", "update"}
                => OtherCall(c)
           /\ Finish(c) => OtherCall(c)
           /\ AtOnce => UNCHANGED calls
<1>1. ASSUME NEW call, Start(c, call) \/ Proceed(c, call), "op" \in DOMAIN call, call.op \notin {"lead", "update"}
      PROVE  OtherCall(c)
  BY <1>1 DEF Start, Proceed, OtherCall
<1>2. "op" \in DOMAIN Idle /\ Idle.op \notin {"lead", "update"}
  BY DEF Idle
<1> QED
  BY <1>1, <1>2 DEF Finish, AtOnce

\* The requests by what they do.
Takes(c, ops) == \E call : calls' = [calls EXCEPT ![c] = call] /\ "op" \in DOMAIN call /\ call.op \in ops
CallsTake(ops) == UNCHANGED calls \/ \E c \in Callers : Takes(c, ops)

IntakeOps == {"source", "event", "lead", "update", "idle"}
FormOps == {"draft", "patch", "publish", "disable", "idle"}
PoolOps == {"entry", "reweigh", "member", "idle"}
ChannelOps == {"channel_prior", "channel_floor", "channel_store", "idle"}
ConfirmOps == {"channel_confirm", "idle"}
ContactOps == {"contact", "idle"}
FollowOps == {"follow_new", "follow_patch", "through_list", "through_store", "through_close", "through_mark",
              "through_finish", "idle"}

LEMMA TakesElsewhere ==
    ASSUME NEW ops \in {FormOps, PoolOps, ChannelOps, ConfirmOps, ContactOps, FollowOps}, CallsTake(ops)
    PROVE  CallsElsewhere
  BY DEF CallsTake, Takes, CallsElsewhere, OtherCall, FormOps, PoolOps, ChannelOps, ConfirmOps, ContactOps, FollowOps

LEMMA StepsTake ==
    ASSUME NEW c, NEW ops
    PROVE  /\ \A call : (Start(c, call) \/ Proceed(c, call)) /\ "op" \in DOMAIN call /\ call.op \in ops => Takes(c, ops)
           /\ Finish(c) /\ "idle" \in ops => Takes(c, ops)
           /\ AtOnce => UNCHANGED calls
<1>1. ASSUME NEW call, Start(c, call) \/ Proceed(c, call), "op" \in DOMAIN call, call.op \in ops
      PROVE  Takes(c, ops)
  BY <1>1 DEF Start, Proceed, Takes
<1>2. "op" \in DOMAIN Idle /\ Idle.op = "idle"
  BY DEF Idle
<1> QED
  BY <1>1, <1>2 DEF Finish, AtOnce

LEMMA FormCalls == ASSUME FormNext PROVE CallsTake(FormOps)
<1>1. ASSUME NEW c \in Callers, CreateFormDraft(c) PROVE Takes(c, FormOps)
  BY <1>1, StepsTake DEF CreateFormDraft, FormOps
<1>2. ASSUME NEW c \in Callers, NEW i, NEW complete, UpdateFormDraft(c, i, complete) PROVE Takes(c, FormOps)
  BY <1>2, StepsTake DEF UpdateFormDraft, FormOps
<1>3. ASSUME NEW c \in Callers, NEW i, PublishForm(c, i) PROVE Takes(c, FormOps)
  BY <1>3, StepsTake DEF PublishForm, FormOps
<1>4. ASSUME NEW c \in Callers, NEW i, DisableForm(c, i) PROVE Takes(c, FormOps)
  BY <1>4, StepsTake DEF DisableForm, FormOps
<1>5. ASSUME NEW c \in Callers, NEW complete,
             InsertFormDraft(c, complete) \/ WriteFormDraft(c) \/ WriteFormPublished(c) \/ WriteFormDisabled(c)
      PROVE  Takes(c, FormOps)
  BY <1>5, StepsTake DEF InsertFormDraft, WriteFormDraft, WriteFormPublished, WriteFormDisabled, FormOps
<1>6. ASSUME NEW i, Expire(i) PROVE UNCHANGED calls
  BY <1>6 DEF Expire, AtOnce
<1> QED
  BY <1>1, <1>2, <1>3, <1>4, <1>5, <1>6 DEF FormNext, CallsTake

LEMMA PoolCalls == ASSUME PoolNext PROVE CallsTake(PoolOps)
<1>1. ASSUME NEW c \in Callers, NEW m, NEW w, NEW r, CreateAssignPoolEntry(c, m, w, r) PROVE Takes(c, PoolOps)
  BY <1>1, StepsTake DEF CreateAssignPoolEntry, PoolOps
<1>2. ASSUME NEW c \in Callers, NEW i, NEW w, NEW r, UpdateAssignPoolEntry(c, i, w, r) PROVE Takes(c, PoolOps)
  BY <1>2, StepsTake DEF UpdateAssignPoolEntry, PoolOps
<1>3. ASSUME NEW c \in Callers, NEW m, NEW row, UpdateMember(c, m, row) PROVE Takes(c, PoolOps)
  BY <1>3, StepsTake DEF UpdateMember, PoolOps
<1>4. ASSUME NEW c \in Callers, InsertAssignPoolEntry(c) \/ WriteAssignPoolEntry(c) \/ WriteMember(c) PROVE Takes(c, PoolOps)
  BY <1>4, StepsTake DEF InsertAssignPoolEntry, WriteAssignPoolEntry, WriteMember, PoolOps
<1>5. ASSUME NEW i, DeleteAssignPoolEntry(i) PROVE UNCHANGED calls
  BY <1>5 DEF DeleteAssignPoolEntry, AtOnce
<1> QED
  BY <1>1, <1>2, <1>3, <1>4, <1>5 DEF PoolNext, CallsTake

LEMMA ChannelCalls == ASSUME ChannelNext PROVE CallsTake(ChannelOps)
<1>1. ASSUME NEW c \in Callers, NEW post, IngestChannelEvent(c, post) PROVE Takes(c, ChannelOps)
  BY <1>1, StepsTake DEF IngestChannelEvent, ChannelOps
<1>2. ASSUME NEW c \in Callers, LoadChannelPrior(c) PROVE Takes(c, ChannelOps)
  BY <1>2, StepsTake DEF LoadChannelPrior, ChannelOps
<1>3. ASSUME NEW c \in Callers, LoadChannelFloor(c) PROVE Takes(c, ChannelOps)
  <2> DEFINE call == [op |-> "channel_store", post |-> calls[c].post, prior |-> calls[c].prior,
                      takesFloor |-> calls[c].post.reply /\ calls[c].mayReply /\ floor = ""]
  <2>1. Proceed(c, call)
    BY <1>3 DEF LoadChannelFloor
  <2>2. "op" \in DOMAIN call /\ call.op = "channel_store"
    OBVIOUS
  <2> HIDE DEF call
  <2> QED
    BY <2>1, <2>2, StepsTake DEF ChannelOps
<1>4. ASSUME NEW c \in Callers, StoreChannelEvent(c) PROVE Takes(c, ChannelOps)
  BY <1>4, StepsTake DEF StoreChannelEvent, ChannelOps
<1>5. ASSUME NEW can, NEW holder, SaveChannelGrant(can) \/ RevokeChannelGrant \/ SetChannelFloor(holder) PROVE UNCHANGED calls
  BY <1>5 DEF SaveChannelGrant, RevokeChannelGrant, SetChannelFloor, AtOnce
<1> QED
  BY <1>1, <1>2, <1>3, <1>4, <1>5 DEF ChannelNext, CallsTake

LEMMA FollowCalls == ASSUME CallsSound, FollowNext PROVE CallsTake(FollowOps)
<1>1. ASSUME NEW c \in Callers, NEW m, NEW l, NEW next, BeginFollowUp(c, m, l, next) PROVE Takes(c, FollowOps)
  BY <1>1, StepsTake DEF BeginFollowUp, FollowOps
<1>2. ASSUME NEW c \in Callers, NEW m, NEW l, NEW want, FollowThrough(c, m, l, want) PROVE Takes(c, FollowOps)
  <2> DEFINE key == FollowThroughKey(m, l, want)
             older == {i \in DOMAIN followUps : followUps[i].contact = leads[l].contact}
             call(op, row) == [op |-> op, key |-> key, lead |-> l, contact |-> leads[l].contact, want |-> want,
                               row |-> row, todo |-> {}, older |-> older]
  <2>1. \/ Start(c, call(IF want.complete THEN "through_list" ELSE "through_store", 0))
        \/ \E i : Start(c, call("through_mark", i))
    BY <1>2 DEF FollowThrough
  <2>2. ASSUME NEW op \in {"through_list", "through_store", "through_mark"}, NEW row, Start(c, call(op, row))
        PROVE  Takes(c, FollowOps)
    <3> DEFINE this == call(op, row)
    <3>1. "op" \in DOMAIN this /\ this.op = op
      OBVIOUS
    <3> HIDE DEF this
    <3>2. Start(c, this)
      BY <2>2 DEF this
    <3> QED
      BY <3>1, <3>2, StepsTake DEF FollowOps
  <2> HIDE DEF call
  <2> QED
    BY <2>1, <2>2
<1>3. ASSUME NEW c \in Callers, NEW m, NEW i, NEW next, PatchFollowUp(c, m, i, next) PROVE Takes(c, FollowOps)
  BY <1>3, StepsTake DEF PatchFollowUp, FollowOps
<1>4. ASSUME NEW c \in Callers, CreateFollowUp(c) \/ UpdateFollowUp(c) \/ FinishFollowThrough(c) PROVE Takes(c, FollowOps)
  BY <1>4, StepsTake DEF CreateFollowUp, UpdateFollowUp, FinishFollowThrough, FollowOps
<1>5. ASSUME NEW c \in Callers, ListOpen(c) PROVE Takes(c, FollowOps)
  <2> DEFINE call == [calls[c] EXCEPT !.op = "through_close", !.todo = Open(calls[c])]
  <2>1. "op" \in DOMAIN call /\ call.op = "through_close"
    BY DEF CallsSound, CallSound
  <2> QED
    BY <1>5, <2>1, StepsTake DEF ListOpen, FollowOps
<1>6. ASSUME NEW c \in Callers, NEW i, CloseOpen(c, i) PROVE Takes(c, FollowOps)
  <2> DEFINE call == [calls[c] EXCEPT !.todo = @ \ {i}]
  <2>1. "op" \in DOMAIN call /\ call.op = "through_close"
    BY <1>6 DEF CallsSound, CallSound, CloseOpen, At
  <2> QED
    BY <1>6, <2>1, StepsTake DEF CloseOpen, FollowOps
<1>7. ASSUME NEW c \in Callers, CreateFollowUpOnce(c) PROVE Takes(c, FollowOps)
  <2>1. PICK x : Proceed(c, [calls[c] EXCEPT !.op = "through_mark", !.row = x])
    BY <1>7 DEF CreateFollowUpOnce
  <2> DEFINE call == [calls[c] EXCEPT !.op = "through_mark", !.row = x]
  <2>2. "op" \in DOMAIN call /\ call.op = "through_mark"
    BY DEF CallsSound, CallSound
  <2> QED
    BY <2>1, <2>2, StepsTake DEF FollowOps
<1>8. ASSUME NEW c \in Callers, MarkDisposition(c) PROVE Takes(c, FollowOps)
  <2> DEFINE call == [calls[c] EXCEPT !.op = "through_finish"]
  <2>1. "op" \in DOMAIN call /\ call.op = "through_finish"
    BY DEF CallsSound, CallSound
  <2> QED
    BY <1>8, <2>1, StepsTake DEF MarkDisposition, FollowOps
<1>9. ASSUME NEW m, NEW i, CompleteFollowUp(m, i) \/ ReopenFollowUp(m, i) PROVE UNCHANGED calls
  BY <1>9 DEF CompleteFollowUp, ReopenFollowUp, AtOnce
<1> QED
  BY <1>1, <1>2, <1>3, <1>4, <1>5, <1>6, <1>7, <1>8, <1>9 DEF FollowNext, CallsTake

-----------------------------------------------------------------------------
(* The tables: events and submissions.                                     *)

tables == <<contacts, candidates, leads, ledger, entitled>>

LEMMA TablesRest ==
    ASSUME DeskInv, UNCHANGED tables
    PROVE  TablesKept
<1>1. Kept
  BY DEF tables, Kept, DeskInv, LedgerInv, Rows
<1> QED
  BY <1>1, LedgerUnmoved DEF tables, DeskInv, Entitled, AssignedOnPurpose, ClaimsKept, LeadsStay, TablesKept

LEMMA EventsKeep ==
    ASSUME DeskInv, NEW c \in Callers,
           \/ \E k, content : PostEvent(c, k, content)
           \/ CreateSourceRef(c)
           \/ IntakeEvent(c)
    PROVE  TablesKept /\ CallsSound'
<1>1. ASSUME NEW k, NEW content, PostEvent(c, k, content) PROVE UNCHANGED tables /\ OtherCall(c)
  <2> DEFINE row == FindSourceRef(<<FactsOf[content].source, k>>)
             op == IF FactsOf[content].source # NoSource /\ row = 0 THEN "source" ELSE "event"
             call == [op |-> op, key |-> k, content |-> content, source |-> row]
  <2>1. Start(c, call) /\ UNCHANGED deskVars
    BY <1>1 DEF PostEvent
  <2>2. "op" \in DOMAIN call /\ call.op \in {"source", "event"}
    OBVIOUS
  <2> HIDE DEF call
  <2> QED
    BY <2>1, <2>2, Steps DEF deskVars, tables
<1>2. CASE CreateSourceRef(c)
  <2> DEFINE call == [calls[c] EXCEPT !.op = "event", !.source = Len(sourceRefs')]
  <2>1. "op" \in DOMAIN call /\ call.op = "event"
    BY DEF DeskInv, CallsSound, CallSound
  <2>2. UNCHANGED tables /\ Proceed(c, call)
    BY <1>2 DEF CreateSourceRef, tables
  <2> HIDE DEF call
  <2>3. OtherCall(c)
    BY <2>1, <2>2, Steps
  <2> QED
    BY <2>2, <2>3, TablesRest, ElsewhereSound DEF DeskInv, CallsElsewhere, TablesKept
<1>3. CASE IntakeEvent(c)
  <2> DEFINE call == calls[c]
             key == EventKey(call.key)
             facts == FactsOf[call.content]
  <2>1. OtherCall(c)
    BY <1>3, Steps DEF IntakeEvent
  <2>2. UNCHANGED deskVars \/ FirstIntake(key, call.content, facts, call.source, TRUE)
    BY <1>3 DEF IntakeEvent, Replayed
  <2>3. CASE UNCHANGED deskVars
    BY <2>1, <2>3, TablesRest, ElsewhereSound DEF DeskInv, CallsElsewhere, deskVars, tables, TablesKept
  <2>4. CASE FirstIntake(key, call.content, facts, call.source, TRUE)
    <3>1. facts.phone = IF key[1] = "event" THEN FactsOf[call.content].phone ELSE call.content.phone
      BY DEF EventKey
    <3>2. TablesKept
      <4> HIDE DEF facts, key, call
      <4> QED
        BY <2>4, <3>1, FirstIntakeKeeps DEF DeskInv
    <3> QED
      BY <2>1, <3>2, ElsewhereSound DEF DeskInv, CallsElsewhere, TablesKept
  <2> QED
    BY <2>2, <2>3, <2>4
<1> QED
  BY <1>1, <1>2, <1>3, TablesRest, ElsewhereSound DEF DeskInv, CallsElsewhere, TablesKept

LEMMA SubmissionsKeep ==
    ASSUME DeskInv, NEW i, NEW source, NEW ref, NEW payload, SubmitForm(i, source, ref, payload)
    PROVE  TablesKept /\ CallsSound'
<1> DEFINE key == FormKey(i, ref)
           facts == [phone |-> payload.phone, bad |-> payload.bad, region |-> Anywhere]
<1>1. CallsElsewhere
  BY DEF SubmitForm, AtOnce, CallsElsewhere
<1>2. UNCHANGED tables \/ \E x : FirstIntake(key, payload, facts, x, TRUE)
  BY DEF SubmitForm, SubmitFormInTx, tables
<1>3. CASE UNCHANGED tables
  BY <1>1, <1>3, TablesRest, ElsewhereSound DEF DeskInv, TablesKept
<1>4. ASSUME NEW x, FirstIntake(key, payload, facts, x, TRUE) PROVE TablesKept /\ CallsSound'
  <2>1. facts.phone = IF key[1] = "event" THEN FactsOf[payload].phone ELSE payload.phone
    BY DEF FormKey
  <2>2. TablesKept
    <3> HIDE DEF facts, key
    <3> QED
      BY <1>4, <2>1, FirstIntakeKeeps DEF DeskInv
  <2> QED
    BY <1>1, <2>2, ElsewhereSound DEF DeskInv, TablesKept
<1> QED
  BY <1>2, <1>3, <1>4

-----------------------------------------------------------------------------
(* Staff.                                                                  *)

LEMMA ContactsKeep ==
    ASSUME DeskInv, (\E m, phone : CreateContact(m, phone)) \/ WindowPasses
    PROVE  TablesKept /\ CallsSound'
<1>1. CallsElsewhere
  BY DEF CreateContact, WindowPasses, AtOnce, CallsElsewhere
<1>2. UNCHANGED <<leads, ledger, candidates, entitled>>
  BY DEF CreateContact, WindowPasses
<1>3. Entitled' /\ ClaimsKept
  BY <1>2 DEF DeskInv, Entitled, AssignedOnPurpose, ClaimsKept
<1>4. ASSUME NEW m, NEW phone, CreateContact(m, phone) PROVE Kept /\ LeadsStay
  <2> DEFINE row == NewContact(phone)
  <2>1. contacts' = Append(contacts, row) /\ IsSeq(contacts)
    BY <1>4 DEF CreateContact, DeskInv, LedgerInv, Rows
  <2>2. {"phone", "live", "since"} \subseteq DOMAIN row /\ row.since \in Nat /\ row.live
    BY <2>1, SeqDomain DEF NewContact
  <2> HIDE DEF row
  <2>3. /\ IsSeq(contacts') /\ DOMAIN contacts' = DOMAIN contacts \cup {Len(contacts) + 1}
        /\ contacts'[Len(contacts) + 1] = row /\ \A i \in DOMAIN contacts : contacts'[i] = contacts[i]
    BY <2>1, Appended
  <2> QED
    BY <1>2, <2>2, <2>3 DEF Kept, LeadsStay, Rows, DeskInv, LedgerInv
<1>5. CASE WindowPasses
  BY <1>1, <1>5, TablesRest, ElsewhereSound DEF WindowPasses, tables, DeskInv, TablesKept
<1> QED
  BY <1>1, <1>2, <1>3, <1>4, <1>5, LedgerUnmoved, ElsewhereSound DEF DeskInv, TablesKept

LEMMA LeadsCreated ==
    ASSUME DeskInv, NEW m, NEW contact, NEW to, CreateLead(m, contact, to)
    PROVE  TablesKept /\ CallsSound'
<1> DEFINE row == [contact |-> contact, status |-> "new", assignee |-> to, source |-> 0]
<1>1. /\ leads' = Append(leads, row) /\ entitled' = Append(entitled, {to})
      /\ UNCHANGED <<contacts, candidates, ledger>> /\ CallsElsewhere
  BY DEF CreateLead, AtOnce, CallsElsewhere
<1>2. {"contact", "status", "assignee"} \subseteq DOMAIN row /\ row.assignee = to
  OBVIOUS
<1> HIDE DEF row
<1>3. /\ IsSeq(leads') /\ Len(leads') = Len(leads) + 1 /\ DOMAIN leads' = DOMAIN leads \cup {Len(leads) + 1}
      /\ leads'[Len(leads) + 1] = row /\ \A l \in DOMAIN leads : leads'[l] = leads[l]
  BY <1>1, Appended DEF DeskInv, LedgerInv, Rows
<1>4. /\ IsSeq(entitled') /\ Len(entitled') = Len(entitled) + 1
      /\ entitled'[Len(entitled) + 1] = {to} /\ \A l \in DOMAIN entitled : entitled'[l] = entitled[l]
  BY <1>1, Appended DEF DeskInv, Entitled
<1>5. Len(entitled) = Len(leads) /\ DOMAIN entitled = DOMAIN leads
  BY SeqDomain DEF DeskInv, Entitled, LedgerInv, Rows
<1>6. Kept
  BY <1>1, <1>2, <1>3 DEF Kept, Rows, DeskInv, LedgerInv
<1>7. Entitled' /\ ClaimsKept /\ LeadsStay
  BY <1>1, <1>2, <1>3, <1>4, <1>5 DEF DeskInv, Entitled, ClaimsKept, AssignedOnPurpose, LeadsStay
<1> QED
  BY <1>1, <1>6, <1>7, LedgerUnmoved, ElsewhereSound DEF DeskInv, TablesKept

LEMMA LeadEditsKeep ==
    ASSUME DeskInv, NEW c \in Callers,
           \/ \E m, status : \E l \in DOMAIN leads : PatchLead(c, m, l, status)
           \/ LoadLead(c)
    PROVE  TablesKept /\ CallsSound'
<1>1. UNCHANGED tables
  BY DEF PatchLead, LoadLead, deskVars, tables
<1>2. TablesKept
  BY <1>1, TablesRest
<1>3. ASSUME NEW m, NEW status, NEW l \in DOMAIN leads, PatchLead(c, m, l, status) PROVE CallsSound'
  <2> DEFINE call == [op |-> "lead", lead |-> l, status |-> status, to |-> Nobody]
  <2>1. calls' = [calls EXCEPT ![c] = call]
    BY <1>3 DEF PatchLead, Start
  <2>2. CallSound(call)'
    BY <1>2 DEF CallSound, ClaimsKept, TablesKept
  <2> QED
    BY <1>2, <2>1, <2>2, CallsWait DEF DeskInv, TablesKept
<1>4. CASE LoadLead(c)
  <2> DEFINE old == calls[c]
             lead == leads[old.lead]
             row == IF old.to = Nobody THEN [lead EXCEPT !.status = old.status] ELSE [lead EXCEPT !.assignee = old.to]
             call == [op |-> "update", lead |-> old.lead, row |-> row]
  <2>1. calls' = [calls EXCEPT ![c] = call] /\ old.op = "lead"
    BY <1>4 DEF LoadLead, At, Proceed
  <2>2. old.lead \in DOMAIN leads /\ (old.to = Nobody \/ old.to \in entitled[old.lead])
    BY <2>1 DEF DeskInv, CallsSound, CallSound
  <2>3. "assignee" \in DOMAIN lead /\ lead.assignee \in entitled[old.lead]
    BY <2>2 DEF DeskInv, LedgerInv, Rows, Entitled, AssignedOnPurpose
  <2>4. row.assignee \in entitled[old.lead]
    BY <2>2, <2>3
  <2>5. PICK l, r : /\ calls' = [calls EXCEPT ![c] = [op |-> "update", lead |-> l, row |-> r]]
                    /\ l \in DOMAIN leads /\ r.assignee \in entitled[l]
    BY <2>1, <2>2, <2>4
  <2>6. CallSound([op |-> "update", lead |-> l, row |-> r])'
    BY <1>2, <2>5 DEF CallSound, ClaimsKept, TablesKept
  <2> QED
    BY <1>2, <2>5, <2>6, CallsWait DEF DeskInv, TablesKept
<1> QED
  BY <1>2, <1>3, <1>4

LEMMA ReassignKeeps ==
    ASSUME DeskInv, NEW c \in Callers, NEW l \in DOMAIN leads, NEW to, ReassignLead(c, l, to)
    PROVE  TablesKept /\ CallsSound'
<1> DEFINE call == [op |-> "lead", lead |-> l, status |-> leads[l].status, to |-> to]
<1>1. /\ calls' = [calls EXCEPT ![c] = call] /\ entitled' = [entitled EXCEPT ![l] = @ \cup {to}]
      /\ UNCHANGED <<contacts, candidates, leads, ledger>>
  BY DEF ReassignLead, Start
<1>2. Len(entitled) = Len(leads) /\ DOMAIN entitled = DOMAIN leads
  BY SeqDomain DEF DeskInv, Entitled, LedgerInv, Rows
<1>3. /\ IsSeq(entitled') /\ DOMAIN entitled' = DOMAIN entitled
      /\ \A j \in DOMAIN entitled : entitled'[j] = IF j = l THEN entitled[l] \cup {to} ELSE entitled[j]
  BY <1>1, Replaced DEF DeskInv, Entitled
<1>4. Len(entitled') = Len(entitled)
  BY <1>3, SeqDomain DEF DeskInv, Entitled
<1>5. Kept
  BY <1>1 DEF Kept, Rows, DeskInv, LedgerInv
<1>6. Entitled' /\ ClaimsKept /\ LeadsStay
  BY <1>1, <1>2, <1>3, <1>4 DEF DeskInv, Entitled, ClaimsKept, AssignedOnPurpose, LeadsStay
<1>7. CallSound(call)'
  BY <1>1, <1>2, <1>3 DEF CallSound
<1> QED
  BY <1>1, <1>5, <1>6, <1>7, LedgerUnmoved, CallsWait DEF DeskInv, TablesKept

LEMMA UpdateKeeps ==
    ASSUME DeskInv, NEW c \in Callers, UpdateLead(c)
    PROVE  TablesKept /\ CallsSound'
<1> DEFINE l == calls[c].lead
           to == calls[c].row.assignee
           row == [leads[l] EXCEPT !.status = calls[c].row.status, !.assignee = to]
<1>1. /\ calls[c].op = "update" /\ OtherCall(c) /\ UNCHANGED <<contacts, candidates, ledger, entitled>>
      /\ leads' = [leads EXCEPT ![l].status = calls[c].row.status, ![l].assignee = to]
  BY Steps DEF UpdateLead, At
<1>2. l \in DOMAIN leads /\ to \in entitled[l]
  BY <1>1 DEF DeskInv, CallsSound, CallSound
<1>3. leads' = [leads EXCEPT ![l] = row]
  BY <1>1, <1>2
<1>4. {"contact", "status", "assignee"} \subseteq DOMAIN row /\ row.contact = leads[l].contact /\ row.assignee = to
  BY <1>2 DEF DeskInv, LedgerInv, Rows
<1> HIDE DEF row
<1>5. /\ IsSeq(leads') /\ DOMAIN leads' = DOMAIN leads
      /\ \A j \in DOMAIN leads : leads'[j] = IF j = l THEN row ELSE leads[j]
  BY <1>3, Replaced DEF DeskInv, LedgerInv, Rows
<1>6. Len(leads') = Len(leads)
  BY <1>5, SeqDomain DEF DeskInv, LedgerInv, Rows
<1>7. Kept
  BY <1>1, <1>4, <1>5 DEF Kept, Rows, DeskInv, LedgerInv
<1>8. Entitled' /\ ClaimsKept /\ LeadsStay
  BY <1>1, <1>2, <1>4, <1>5, <1>6 DEF DeskInv, Entitled, ClaimsKept, AssignedOnPurpose, LeadsStay
<1> QED
  BY <1>1, <1>7, <1>8, LedgerUnmoved, ElsewhereSound DEF DeskInv, CallsElsewhere, TablesKept

LEMMA IntakeKeeps ==
    ASSUME DeskInv, IntakeNext
    PROVE  TablesKept /\ CallsSound' /\ UNCHANGED forms
<1>1. UNCHANGED forms
  BY DEF IntakeNext, CreateSourceRef, IntakeEvent, LoadLead, UpdateLead, PostEvent, PatchLead, ReassignLead,
         SubmitForm, WindowPasses, CreateContact, CreateLead
<1> QED
  BY <1>1, EventsKeep, SubmissionsKeep, ContactsKeep, LeadsCreated, LeadEditsKeep, ReassignKeeps, UpdateKeeps DEF IntakeNext

-----------------------------------------------------------------------------
(* Prospects and companies.                                                *)

LEMMA ConfirmKeeps ==
    ASSUME DeskInv, ConfirmNext
    PROVE  TablesKept /\ CallsSound' /\ UNCHANGED forms
<1>1. ASSUME NEW c \in Callers, NEW e, ConfirmChannelCandidate(c, e)
      PROVE  TablesKept /\ CallsSound' /\ UNCHANGED forms
  <2>1. UNCHANGED <<tables, forms>>
    BY <1>1 DEF ConfirmChannelCandidate, deskVars, tables
  <2>2. PICK late : Start(c, [op |-> "channel_confirm", event |-> e, late |-> late])
    BY <1>1 DEF ConfirmChannelCandidate
  <2>3. OtherCall(c)
    BY <2>2, Steps
  <2> QED
    BY <2>1, <2>3, TablesRest, ElsewhereSound DEF DeskInv, CallsElsewhere, TablesKept
<1>2. ASSUME NEW c \in Callers, ConfirmedInTx(c)
      PROVE  TablesKept /\ CallsSound' /\ UNCHANGED forms
  <2> DEFINE e == calls[c].event
             key == ChannelKey(e)
             content == [phone |-> NoPhone, event |-> e]
             facts == [phone |-> NoPhone, bad |-> {}, region |-> Anywhere]
  <2>1. OtherCall(c) /\ UNCHANGED forms
    BY <1>2, Steps DEF ConfirmedInTx
  <2>2. UNCHANGED tables \/ FirstIntake(key, content, facts, Len(sourceRefs'), FALSE)
    BY <1>2 DEF ConfirmedInTx, tables
  <2>3. facts.phone = IF key[1] = "event" THEN FactsOf[content].phone ELSE content.phone
    BY DEF ChannelKey
  <2>4. TablesKept
    <3> HIDE DEF facts, key, content
    <3> QED
      BY <2>2, <2>3, FirstIntakeKeeps, TablesRest DEF DeskInv
  <2> QED
    BY <2>1, <2>4, ElsewhereSound DEF DeskInv, CallsElsewhere, TablesKept
<1> QED
  BY <1>1, <1>2 DEF ConfirmNext

LEMMA CompaniesKeep ==
    ASSUME DeskInv, EnterpriseNext
    PROVE  TablesKept /\ CallsSound' /\ UNCHANGED forms
<1>1. CallsElsewhere /\ UNCHANGED forms
  BY DEF EnterpriseNext, Import, Confirm, Suppress, AtOnce, CallsElsewhere
<1>2. ASSUME NEW e, ConfirmEnterpriseRecord(e) PROVE TablesKept
  <2> DEFINE key == CompanyKey(e)
             profile == companies[e].profile
             content == [phone |-> NoPhone, profile |-> profile]
             facts == [phone |-> NoPhone, bad |-> {}, region |-> profile.region]
  <2>1. UNCHANGED tables \/ \E x : FirstIntake(key, content, facts, x, TRUE)
    BY <1>2 DEF ConfirmEnterpriseRecord, tables
  <2>2. facts.phone = IF key[1] = "event" THEN FactsOf[content].phone ELSE content.phone
    BY DEF CompanyKey
  <2> HIDE DEF facts, key, content
  <2> QED
    BY <2>1, <2>2, FirstIntakeKeeps, TablesRest DEF DeskInv
<1>3. UNCHANGED tables \/ \E e : ConfirmEnterpriseRecord(e)
  BY DEF EnterpriseNext, Import, Confirm, Suppress, deskVars, tables
<1> QED
  BY <1>1, <1>2, <1>3, TablesRest, ElsewhereSound DEF DeskInv, TablesKept

-----------------------------------------------------------------------------
(* Contacts and their merges.                                              *)

\* Elsewhere merges are left alone, and new leads are of no merge.
LEMMA ChainsRest ==
    ASSUME DeskInv, TablesKept, UNCHANGED merges
    PROVE  MergesSound' /\ LedgerFollowed'
<1>1. MergesSound'
  <2>1. \A i \in DOMAIN contacts : i \in DOMAIN contacts' /\ contacts'[i].live = contacts[i].live
    BY DEF TablesKept, LeadsStay
  <2>2. DOMAIN leads \subseteq DOMAIN leads'
    BY DEF TablesKept, ClaimsKept
  <2> QED
    BY <2>1, <2>2 DEF DeskInv, MergesSound, Touches
<1>2. MergesStay
  BY DEF DeskInv, MergesSound, MergesStay, SameMerge
<1>3. ASSUME NEW e \in ledger' PROVE Follows(e.contact, leads[e.lead].contact, CarriersOf(e.lead))'
  <2>1. CASE e \in ledger
    <3>1. Follows(e.contact, leads[e.lead].contact, CarriersOf(e.lead)) /\ leads'[e.lead].contact = leads[e.lead].contact
      BY <2>1 DEF DeskInv, LedgerFollowed, LedgerInv, LedgerNames, TablesKept, LeadsStay
    <3>2. PICK where, by : where = leads[e.lead].contact /\ by = CarriersOf(e.lead)
      OBVIOUS
    <3>3. by \subseteq DOMAIN merges /\ by = CarriersOf(e.lead)'
      BY <3>2 DEF CarriersOf
    <3>4. Follows(e.contact, where, by)'
      BY <1>2, <3>1, <3>2, <3>3, FollowsRest DEF DeskInv
    <3> QED
      BY <3>1, <3>2, <3>3, <3>4 DEF Follows
  <2>2. CASE e \notin ledger
    <3>1. e.lead \notin DOMAIN leads /\ leads'[e.lead].contact = e.contact
      BY <2>2 DEF TablesKept, LeadsStay
    <3>2. CarriersOf(e.lead)' = {}
      BY <3>1 DEF CarriersOf, DeskInv, MergesSound
    <3> QED
      BY <3>1, <3>2, FollowsNone DEF Follows
  <2> QED
    BY <2>1, <2>2
<1> QED
  BY <1>1, <1>3 DEF LedgerFollowed

\* What may become of a contact's row.
Given(i, row) ==
    /\ {"phone", "live", "since"} \subseteq DOMAIN row /\ row.since \in Nat
    /\ ~row.live => row.phone = NoPhone
    /\ row.since > Len(contacts) \/ (row.since = contacts[i].since /\ row.phone = contacts[i].phone)

LEMMA RowGiven ==
    ASSUME Rows, NEW i \in DOMAIN contacts, NEW phone
    PROVE  /\ contacts[i].live \/ phone = NoPhone => Given(i, Rewritten(i, phone))
           /\ Rewritten(i, phone).live = contacts[i].live
           /\ Given(i, [Rewritten(i, phone) EXCEPT !.live = TRUE])
           /\ [Rewritten(i, phone) EXCEPT !.live = TRUE].live
           /\ phone = NoPhone => Given(i, [Rewritten(i, phone) EXCEPT !.live = FALSE])
<1>1. PICK old, n : /\ old = contacts[i]
                    /\ n = IF phone = contacts[i].phone THEN contacts[i].since ELSE Len(contacts) + 1
  OBVIOUS
<1>2. {"phone", "live", "since"} \subseteq DOMAIN old
  BY <1>1 DEF Rows
<1>3. n \in Nat /\ (n > Len(contacts) \/ (n = contacts[i].since /\ phone = contacts[i].phone))
  BY <1>1, SeqDomain DEF Rows
<1> DEFINE row == [old EXCEPT !.phone = phone, !.since = n]
           there == [row EXCEPT !.live = TRUE]
           gone == [row EXCEPT !.live = FALSE]
<1>4. Rewritten(i, phone) = row
  BY <1>1 DEF Rewritten
<1>5. {"phone", "live", "since"} \subseteq DOMAIN row /\ row.phone = phone /\ row.live = old.live /\ row.since = n
  BY <1>2
<1> HIDE DEF row
<1>6. /\ {"phone", "live", "since"} \subseteq DOMAIN there /\ there.phone = phone /\ there.live /\ there.since = n
      /\ {"phone", "live", "since"} \subseteq DOMAIN gone /\ gone.phone = phone /\ ~gone.live /\ gone.since = n
  BY <1>5
<1> HIDE DEF there, gone
<1>7. /\ contacts[i].live \/ phone = NoPhone => Given(i, row)
      /\ Given(i, there) /\ there.live
      /\ phone = NoPhone => Given(i, gone)
      /\ row.live = contacts[i].live
  BY <1>1, <1>3, <1>5, <1>6 DEF Given
<1> QED
  BY <1>4, <1>7 DEF there, gone

\* A step that writes contacts, and at most moves leads.
ContactsGiven ==
    /\ IsSeq(contacts') /\ DOMAIN contacts' = DOMAIN contacts
    /\ \A i \in DOMAIN contacts : contacts'[i] = contacts[i] \/ Given(i, contacts'[i])

LeadsMove ==
    /\ IsSeq(leads') /\ DOMAIN leads' = DOMAIN leads
    /\ \A l \in DOMAIN leads : /\ {"contact", "status", "assignee"} \subseteq DOMAIN leads'[l]
                               /\ leads'[l].assignee = leads[l].assignee

LEMMA TablesGiven ==
    ASSUME DeskInv, ContactsGiven, LeadsMove, UNCHANGED <<candidates, ledger, entitled>>
    PROVE  LedgerInv' /\ Entitled' /\ ClaimsKept
<1>1. Rows'
  BY DEF DeskInv, LedgerInv, Rows, ContactsGiven, LeadsMove, Given
<1>2. Kept
  BY <1>1 DEF Kept, ContactsGiven, LeadsMove, Given
<1>3. Len(leads') = Len(leads)
  BY SeqDomain DEF DeskInv, LedgerInv, Rows, LeadsMove
<1>4. Entitled' /\ ClaimsKept
  BY <1>3 DEF DeskInv, Entitled, ClaimsKept, AssignedOnPurpose, LeadsMove
<1> QED
  BY <1>2, <1>4, LedgerUnmoved DEF DeskInv

\* A function of the places of a sequence is one.
LEMMA Mapped ==
    ASSUME NEW s, IsSeq(s), NEW t, DOMAIN t = DOMAIN s, t = [i \in DOMAIN t |-> t[i]]
    PROVE  IsSeq(t) /\ Len(t) = Len(s)
<1> DEFINE S == {t[i] : i \in DOMAIN t}
<1>1. Len(s) \in Nat /\ DOMAIN s = 1..Len(s)
  BY SeqDomain
<1>2. t \in [1..Len(s) -> S]
  BY <1>1
<1>3. t \in Seq(S)
  BY <1>1, <1>2
<1>4. IsSeq(t)
  BY <1>3 DEF IsSeq
<1>5. Len(t) \in Nat /\ DOMAIN t = 1..Len(t)
  BY <1>4, SeqDomain
<1> QED
  BY <1>1, <1>4, <1>5

LEMMA MovedRows ==
    ASSUME Rows, NEW moved, NEW to, leads' = MovedLeads(moved, to)
    PROVE  LeadsMove /\ \A l \in DOMAIN leads : leads'[l].contact = IF l \in moved THEN to ELSE leads[l].contact
<1>1. DOMAIN leads' = DOMAIN leads /\ leads' = [l \in DOMAIN leads' |-> leads'[l]]
  BY DEF MovedLeads
<1>2. IsSeq(leads')
  BY <1>1, Mapped DEF Rows
<1>3. ASSUME NEW l \in DOMAIN leads
      PROVE  /\ {"contact", "status", "assignee"} \subseteq DOMAIN leads'[l]
             /\ leads'[l].assignee = leads[l].assignee
             /\ leads'[l].contact = IF l \in moved THEN to ELSE leads[l].contact
  <2>1. {"contact", "status", "assignee"} \subseteq DOMAIN leads[l]
    BY DEF Rows
  <2>2. leads'[l] = IF l \in moved THEN [leads[l] EXCEPT !.contact = to] ELSE leads[l]
    BY DEF MovedLeads
  <2> QED
    BY <2>1, <2>2
<1> QED
  BY <1>1, <1>2, <1>3 DEF LeadsMove

\* The stamps of a write.
LEMMA Stamps ==
    ASSUME MergesSound, NEW who, NEW n
    PROVE  LET stamped == Stamped(who, n)
           IN  /\ IsSeq(stamped) /\ Len(stamped) = Len(merges) /\ DOMAIN stamped = DOMAIN merges
               /\ \A m \in DOMAIN merges :
                    /\ SameMerge(merges[m], stamped[m]) /\ stamped[m].undone = merges[m].undone
                    /\ ~stamped[m].edited => ~merges[m].edited /\ ~(m <= n /\ merges[m].target \in who)
<1> DEFINE stamped == Stamped(who, n)
<1>1. DOMAIN stamped = DOMAIN merges /\ stamped = [m \in DOMAIN stamped |-> stamped[m]]
  BY DEF Stamped
<1>2. ASSUME NEW m \in DOMAIN merges
      PROVE  /\ SameMerge(merges[m], stamped[m]) /\ stamped[m].undone = merges[m].undone
             /\ ~stamped[m].edited => ~merges[m].edited /\ ~(m <= n /\ merges[m].target \in who)
  <2>1. PICK old, late : /\ old = merges[m] /\ late = (merges[m].edited \/ (m <= n /\ merges[m].target \in who))
    OBVIOUS
  <2>2. MergeFields \subseteq DOMAIN old
    BY <2>1 DEF MergesSound
  <2>3. stamped[m] = [old EXCEPT !.edited = late]
    BY <2>1 DEF Stamped
  <2> HIDE DEF stamped
  <2>4. /\ MergeFields \subseteq DOMAIN stamped[m] /\ stamped[m].edited = late
        /\ stamped[m].target = old.target /\ stamped[m].source = old.source /\ stamped[m].moved = old.moved
        /\ stamped[m].consents = old.consents /\ stamped[m].undone = old.undone
    BY <2>2, <2>3 DEF MergeFields
  <2> QED
    BY <2>1, <2>4 DEF SameMerge
<1> HIDE DEF stamped
<1>3. IsSeq(stamped) /\ Len(stamped) = Len(merges)
  BY <1>1, Mapped DEF MergesSound
<1> QED
  BY <1>1, <1>2, <1>3 DEF stamped

\* Three things happen to merges: nothing but stamps, a new one that takes on
\* what is the source's, an undo that gives back what was moved.
MergesRest ==
    /\ DOMAIN merges' = DOMAIN merges /\ MergesStay
    /\ \A m \in DOMAIN merges : merges'[m].undone <=> merges[m].undone
    /\ UNCHANGED <<leads, consents>>

MergesOn(t, s) ==
    /\ DOMAIN merges' = DOMAIN merges \cup {Len(merges) + 1} /\ MergesStay
    /\ \A m \in DOMAIN merges : merges'[m].undone <=> merges[m].undone
    /\ LET row == merges'[Len(merges) + 1]
       IN  /\ row.target = t /\ row.source = s /\ ~row.undone
           /\ row.moved = LeadsOf(s) /\ row.consents = {k.ref : k \in ConsentsOf(s)}
    /\ leads' = MovedLeads(LeadsOf(s), t) /\ consents' = MovedConsents({k.ref : k \in ConsentsOf(s)}, t)

MergesBack(m) ==
    /\ DOMAIN merges' = DOMAIN merges /\ MergesStay
    /\ m \in DOMAIN merges /\ ~merges[m].undone
    /\ \A n \in DOMAIN merges : merges'[n].undone <=> (n = m \/ merges[n].undone)
    /\ \A n \in DOMAIN merges : n > m => merges[n].source # merges[m].target
    /\ leads' = MovedLeads(merges[m].moved, merges[m].source)
    /\ consents' = MovedConsents(merges[m].consents, merges[m].source)

\* Whoever writes a target stamps its merges.
MergesStamped ==
    /\ MergesStay
    /\ \A m \in DOMAIN merges :
        /\ ~merges'[m].undone => ~merges[m].undone
        /\ ~merges'[m].edited => ~merges[m].edited
        /\ ~merges'[m].edited /\ contacts[merges[m].target].live => contacts'[merges[m].target].live

LEMMA StampedSound ==
    ASSUME MergesSound, MergesStamped, IsSeq(merges'), DOMAIN merges' = DOMAIN merges,
           DOMAIN contacts' = DOMAIN contacts, DOMAIN leads' = DOMAIN leads
    PROVE  MergesSound'
<1>1. ASSUME NEW m \in DOMAIN merges
      PROVE  /\ MergeFields \subseteq DOMAIN merges'[m]
             /\ merges'[m].target = merges[m].target /\ merges'[m].source = merges[m].source
             /\ merges'[m].moved = merges[m].moved
  BY DEF MergesStamped, MergesStay, SameMerge
<1>2. ASSUME NEW m \in DOMAIN merges, ~merges'[m].undone, ~merges'[m].edited,
             \A n \in DOMAIN merges : n > m => ~Touches(n, merges[m].target)'
      PROVE  contacts'[merges[m].target].live
  <2>1. \A n \in DOMAIN merges : n > m => ~Touches(n, merges[m].target)
    BY <1>1, <1>2 DEF Touches
  <2> QED
    BY <1>2, <2>1 DEF MergesSound, MergesStamped
<1> QED
  BY <1>1, <1>2 DEF MergesSound, Touches

LEMMA UpdateGiven ==
    ASSUME DeskInv, NEW c, UpdateContact(c)
    PROVE  ContactsGiven /\ MergesRest /\ MergesSound'
<1> DEFINE i == calls[c].contact
           row == Rewritten(i, calls[c].phone)
<1>1. /\ IsSeq(contacts) /\ Rows /\ MergesSound
  BY DEF DeskInv, LedgerInv, Rows
<1>2. UNCHANGED <<leads, consents>>
  BY DEF UpdateContact
<1>3. CASE ~contacts[i].live
  <2>1. UNCHANGED <<contacts, merges>>
    BY <1>3 DEF UpdateContact
  <2> QED
    BY <1>1, <1>2, <2>1 DEF ContactsGiven, MergesRest, MergesStay, SameMerge, MergesSound, Touches
<1>4. CASE contacts[i].live
  <2>1. contacts' = [contacts EXCEPT ![i] = row] /\ \E n : merges' = Stamped({i}, n)
    BY <1>4 DEF UpdateContact
  <2>2. i \in DOMAIN contacts => Given(i, row) /\ row.live
    BY <1>1, <1>4, RowGiven
  <2> HIDE DEF row
  <2>3. /\ IsSeq(contacts') /\ DOMAIN contacts' = DOMAIN contacts
        /\ \A j \in DOMAIN contacts : contacts'[j] = IF j = i THEN row ELSE contacts[j]
    BY <1>1, <2>1, Replaced
  <2>4. PICK n : merges' = Stamped({i}, n)
    BY <2>1
  <2>5. /\ IsSeq(merges') /\ DOMAIN merges' = DOMAIN merges
        /\ \A m \in DOMAIN merges :
             /\ SameMerge(merges[m], merges'[m]) /\ merges'[m].undone = merges[m].undone
             /\ ~merges'[m].edited => ~merges[m].edited
    BY <1>1, <2>4, Stamps
  <2>6. ContactsGiven
    BY <2>2, <2>3 DEF ContactsGiven
  <2>7. MergesRest
    BY <1>2, <2>5 DEF MergesRest, MergesStay
  <2>8. \A j \in DOMAIN contacts : contacts[j].live => contacts'[j].live
    BY <2>2, <2>3
  <2>9. MergesStamped
    BY <1>1, <2>5, <2>7, <2>8 DEF MergesStamped, MergesRest, MergesSound
  <2> QED
    BY <1>1, <1>2, <2>3, <2>5, <2>6, <2>7, <2>9, StampedSound
<1> QED
  BY <1>3, <1>4

LEMMA DeleteGiven ==
    ASSUME DeskInv, NEW i \in DOMAIN contacts, SoftDeleteContact(i)
    PROVE  ContactsGiven /\ MergesRest /\ MergesSound'
<1> DEFINE row == [Rewritten(i, NoPhone) EXCEPT !.live = FALSE]
<1>1. /\ IsSeq(contacts) /\ Rows /\ MergesSound
  BY DEF DeskInv, LedgerInv, Rows
<1>2. UNCHANGED <<leads, consents>> /\ contacts' = [contacts EXCEPT ![i] = row] /\ merges' = Stamped({i}, Len(merges))
  BY DEF SoftDeleteContact
<1>3. Given(i, row)
  BY <1>1, RowGiven
<1> HIDE DEF row
<1>4. /\ IsSeq(contacts') /\ DOMAIN contacts' = DOMAIN contacts
      /\ \A j \in DOMAIN contacts : contacts'[j] = IF j = i THEN row ELSE contacts[j]
  BY <1>1, <1>2, Replaced
<1>5. /\ IsSeq(merges') /\ DOMAIN merges' = DOMAIN merges
      /\ \A m \in DOMAIN merges :
           /\ SameMerge(merges[m], merges'[m]) /\ merges'[m].undone = merges[m].undone
           /\ ~merges'[m].edited => ~merges[m].edited /\ ~(m <= Len(merges) /\ merges[m].target \in {i})
  BY <1>1, <1>2, Stamps
<1>6. ContactsGiven
  BY <1>3, <1>4 DEF ContactsGiven
<1>7. MergesRest
  BY <1>2, <1>5 DEF MergesRest, MergesStay
<1>8. \A m \in DOMAIN merges : m <= Len(merges) /\ merges[m].target \in DOMAIN contacts
  BY <1>1, SeqDomain DEF MergesSound
<1>9. MergesStamped
  BY <1>4, <1>5, <1>7, <1>8 DEF MergesStamped, MergesRest
<1> QED
  BY <1>1, <1>2, <1>4, <1>5, <1>6, <1>7, <1>9, StampedSound

LEMMA MergeGiven ==
    ASSUME DeskInv, NEW t \in DOMAIN contacts, NEW s \in DOMAIN contacts, MergeContacts(t, s)
    PROVE  ContactsGiven /\ MergesOn(t, s) /\ MergesSound'
<1> DEFINE kept == Rewritten(t, IF contacts[t].phone = NoPhone THEN contacts[s].phone ELSE contacts[t].phone)
           gone == [Rewritten(s, NoPhone) EXCEPT !.live = FALSE]
           moved == LeadsOf(s)
           refs == {k.ref : k \in ConsentsOf(s)}
           stamped == Stamped({t, s}, Len(merges))
           new == [target |-> t, source |-> s, targetPhone |-> contacts[t].phone, sourcePhone |-> contacts[s].phone,
                   moved |-> moved, consents |-> refs, leads |-> Len(leads), refs |-> {k.ref : k \in consents},
                   edited |-> FALSE, undone |-> FALSE]
           N == Len(merges)
<1>1. /\ IsSeq(contacts) /\ Rows /\ MergesSound
  BY DEF DeskInv, LedgerInv, Rows
<1>2. /\ t # s /\ contacts[t].live /\ contacts' = [contacts EXCEPT ![t] = kept, ![s] = gone]
      /\ leads' = MovedLeads(moved, t) /\ consents' = MovedConsents(refs, t)
      /\ merges' = Append(stamped, new)
  BY DEF MergeContacts
<1>3. Given(t, kept) /\ kept.live /\ Given(s, gone)
  BY <1>1, <1>2, RowGiven
<1>4. /\ MergeFields \subseteq DOMAIN new /\ new.target = t /\ new.source = s
      /\ new.moved = moved /\ new.consents = refs /\ ~new.undone
  BY DEF MergeFields
<1>5. /\ IsSeq(stamped) /\ Len(stamped) = N /\ DOMAIN stamped = DOMAIN merges
      /\ \A m \in DOMAIN merges :
           /\ SameMerge(merges[m], stamped[m]) /\ stamped[m].undone = merges[m].undone
           /\ ~stamped[m].edited => ~merges[m].edited /\ ~(m <= N /\ merges[m].target \in {t, s})
  BY <1>1, Stamps
<1> HIDE DEF kept, gone, stamped, new
<1>6. /\ IsSeq(contacts') /\ DOMAIN contacts' = DOMAIN contacts
      /\ \A j \in DOMAIN contacts : contacts'[j] = IF j = s THEN gone ELSE IF j = t THEN kept ELSE contacts[j]
  <2> DEFINE first == [contacts EXCEPT ![t] = kept]
  <2>1. /\ IsSeq(first) /\ DOMAIN first = DOMAIN contacts
        /\ \A j \in DOMAIN contacts : first[j] = IF j = t THEN kept ELSE contacts[j]
    BY <1>1, Replaced
  <2>2. contacts' = [first EXCEPT ![s] = gone]
    BY <1>2
  <2> HIDE DEF first
  <2> QED
    BY <2>1, <2>2, Replaced
<1>7. /\ IsSeq(merges') /\ DOMAIN merges' = DOMAIN merges \cup {N + 1} /\ merges'[N + 1] = new
      /\ \A m \in DOMAIN merges : merges'[m] = stamped[m]
  BY <1>2, <1>5, Appended
<1>8. N \in Nat /\ DOMAIN merges = 1..N
  BY <1>1, SeqDomain DEF MergesSound
<1>9. ContactsGiven
  BY <1>3, <1>6 DEF ContactsGiven
<1>10. MergesStay
  BY <1>5, <1>7 DEF MergesStay
<1>11. MergesOn(t, s)
  BY <1>2, <1>4, <1>5, <1>7, <1>10 DEF MergesOn
<1>12. LeadsMove
  BY <1>1, <1>2, MovedRows
<1>13. ASSUME NEW m \in DOMAIN merges'
       PROVE  /\ MergeFields \subseteq DOMAIN merges'[m]
              /\ merges'[m].target \in DOMAIN contacts' /\ merges'[m].source \in DOMAIN contacts'
              /\ merges'[m].moved \subseteq DOMAIN leads'
  <2>1. CASE m \in DOMAIN merges
    <3>1. SameMerge(merges[m], merges'[m])
      BY <1>10, <2>1 DEF MergesStay
    <3> QED
      BY <1>1, <1>6, <1>12, <2>1, <3>1 DEF SameMerge, MergesSound, LeadsMove
  <2>2. CASE m = N + 1
    BY <1>4, <1>6, <1>7, <1>12, <2>2 DEF LeadsMove, LeadsOf
  <2> QED
    BY <1>7, <2>1, <2>2
<1>14. ASSUME NEW m \in DOMAIN merges', ~merges'[m].undone, ~merges'[m].edited,
              \A n \in DOMAIN merges' : n > m => merges'[m].target \notin {merges'[n].target, merges'[n].source}
       PROVE  contacts'[merges'[m].target].live
  <2>1. CASE m = N + 1
    BY <1>2, <1>3, <1>4, <1>6, <1>7, <2>1
  <2>2. CASE m \in DOMAIN merges
    <3>1. /\ merges'[m].target = merges[m].target /\ ~merges[m].undone /\ ~merges[m].edited
          /\ merges[m].target \notin {t, s}
      BY <1>5, <1>7, <1>8, <1>14, <2>2 DEF SameMerge
    <3>2. ASSUME NEW n \in DOMAIN merges, n > m PROVE ~Touches(n, merges[m].target)
      <4>1. merges'[n].target = merges[n].target /\ merges'[n].source = merges[n].source /\ n \in DOMAIN merges'
        BY <1>7, <1>10 DEF MergesStay, SameMerge
      <4> QED
        BY <1>14, <3>1, <3>2, <4>1 DEF Touches
    <3>3. contacts[merges[m].target].live /\ merges[m].target \in DOMAIN contacts
      BY <1>1, <2>2, <3>1, <3>2 DEF MergesSound
    <3> QED
      BY <1>6, <3>1, <3>3
  <2> QED
    BY <1>7, <2>1, <2>2
<1>15. MergesSound'
  BY <1>7, <1>13, <1>14 DEF MergesSound, Touches
<1> QED
  BY <1>9, <1>11, <1>15

LEMMA UndoGiven ==
    ASSUME DeskInv, NEW m \in DOMAIN merges, UndoContactMerge(m)
    PROVE  ContactsGiven /\ MergesBack(m) /\ MergesSound'
<1> DEFINE t == merges[m].target
           s == merges[m].source
           back == [Rewritten(s, merges[m].sourcePhone) EXCEPT !.live = TRUE]
           kept == Rewritten(t, merges[m].targetPhone)
           stamped == Stamped({s, t}, Len(merges))
           row == [stamped[m] EXCEPT !.undone = TRUE]
           N == Len(merges)
<1>1. /\ IsSeq(contacts) /\ Rows /\ MergesSound
  BY DEF DeskInv, LedgerInv, Rows
<1>2. /\ ~merges[m].undone /\ ~merges[m].edited
      /\ \A n \in DOMAIN merges : n > m => ~Touches(n, t)
  BY DEF UndoContactMerge, SubsequentWrites
<1>3. /\ contacts' = [contacts EXCEPT ![s] = back, ![t] = kept]
      /\ leads' = MovedLeads(merges[m].moved, s) /\ consents' = MovedConsents(merges[m].consents, s)
      /\ merges' = [stamped EXCEPT ![m].undone = TRUE]
  BY DEF UndoContactMerge, LeadsBack
<1>4. t \in DOMAIN contacts /\ s \in DOMAIN contacts /\ contacts[t].live
  BY <1>1, <1>2 DEF MergesSound
<1>5. Given(t, kept) /\ kept.live /\ Given(s, back) /\ back.live
  BY <1>1, <1>4, RowGiven
<1>6. /\ IsSeq(stamped) /\ Len(stamped) = N /\ DOMAIN stamped = DOMAIN merges
      /\ \A n \in DOMAIN merges :
           /\ SameMerge(merges[n], stamped[n]) /\ stamped[n].undone = merges[n].undone
           /\ ~stamped[n].edited => ~merges[n].edited /\ ~(n <= N /\ merges[n].target \in {s, t})
  BY <1>1, Stamps
<1> HIDE DEF kept, back, stamped
<1>7. /\ IsSeq(contacts') /\ DOMAIN contacts' = DOMAIN contacts
      /\ \A j \in DOMAIN contacts : contacts'[j] = IF j = t THEN kept ELSE IF j = s THEN back ELSE contacts[j]
  <2> DEFINE first == [contacts EXCEPT ![s] = back]
  <2>1. /\ IsSeq(first) /\ DOMAIN first = DOMAIN contacts
        /\ \A j \in DOMAIN contacts : first[j] = IF j = s THEN back ELSE contacts[j]
    BY <1>1, Replaced
  <2>2. contacts' = [first EXCEPT ![t] = kept]
    BY <1>3
  <2> HIDE DEF first
  <2> QED
    BY <2>1, <2>2, Replaced
<1>8. /\ SameMerge(merges[m], row) /\ row.undone
  BY <1>6 DEF SameMerge, MergeFields
<1>9. merges' = [stamped EXCEPT ![m] = row]
  BY <1>3, <1>6
<1> HIDE DEF row
<1>10. /\ IsSeq(merges') /\ DOMAIN merges' = DOMAIN merges
       /\ \A n \in DOMAIN merges : merges'[n] = IF n = m THEN row ELSE stamped[n]
  BY <1>6, <1>9, Replaced
<1>11. MergesStay
  BY <1>6, <1>8, <1>10 DEF MergesStay
<1>12. ContactsGiven
  BY <1>5, <1>7 DEF ContactsGiven
<1>13. MergesBack(m)
  BY <1>2, <1>3, <1>6, <1>8, <1>10, <1>11 DEF MergesBack, Touches
<1>14. LeadsMove
  BY <1>1, <1>3, MovedRows
<1>15. \A j \in DOMAIN contacts : contacts[j].live => contacts'[j].live
  BY <1>5, <1>7
<1>16. ASSUME NEW n \in DOMAIN merges
       PROVE  /\ ~merges'[n].undone => ~merges[n].undone
              /\ ~merges'[n].edited => ~merges[n].edited
              /\ ~merges'[n].edited /\ contacts[merges[n].target].live => contacts'[merges[n].target].live
  <2>1. merges[n].target \in DOMAIN contacts
    BY <1>1 DEF MergesSound
  <2>2. contacts[merges[n].target].live => contacts'[merges[n].target].live
    BY <1>15, <2>1
  <2>3. CASE n = m
    BY <1>2, <2>2, <2>3
  <2>4. CASE n # m
    BY <1>6, <1>10, <2>2, <2>4
  <2> QED
    BY <2>3, <2>4
<1>17. MergesStamped
  BY <1>11, <1>16 DEF MergesStamped
<1> QED
  BY <1>1, <1>7, <1>10, <1>12, <1>13, <1>14, <1>17, StampedSound DEF LeadsMove

\* The merges that carry a lead, or the consents of a reference, after each.
LEMMA CarriersRest ==
    ASSUME MergesSound, MergesRest, NEW x
    PROVE  CarriersOf(x)' = CarriersOf(x) /\ ConsentCarriers(x)' = ConsentCarriers(x)
<1>1. \A m \in DOMAIN merges : merges'[m].moved = merges[m].moved /\ merges'[m].consents = merges[m].consents
  BY DEF MergesRest, MergesStay, SameMerge
<1> QED
  BY <1>1 DEF MergesRest, CarriersOf, ConsentCarriers

LEMMA CarriersOn ==
    ASSUME MergesSound, NEW t, NEW s, MergesOn(t, s), NEW x
    PROVE  /\ CarriersOf(x)' = IF x \in LeadsOf(s) THEN CarriersOf(x) \cup {Len(merges) + 1} ELSE CarriersOf(x)
           /\ ConsentCarriers(x)' = IF x \in {k.ref : k \in ConsentsOf(s)}
                                    THEN ConsentCarriers(x) \cup {Len(merges) + 1} ELSE ConsentCarriers(x)
<1>1. PICK new, moved, refs : new = Len(merges) + 1 /\ moved = LeadsOf(s) /\ refs = {k.ref : k \in ConsentsOf(s)}
  OBVIOUS
<1>2. new \notin DOMAIN merges
  BY <1>1, SeqDomain DEF MergesSound
<1>3. \A m \in DOMAIN merges : /\ merges'[m].moved = merges[m].moved /\ merges'[m].consents = merges[m].consents
                               /\ merges'[m].undone <=> merges[m].undone
  BY DEF MergesOn, MergesStay, SameMerge
<1>4. /\ DOMAIN merges' = DOMAIN merges \cup {new}
      /\ ~merges'[new].undone /\ merges'[new].moved = moved /\ merges'[new].consents = refs
  BY <1>1 DEF MergesOn
<1>5. /\ \A m : m \in CarriersOf(x)' <=> m \in CarriersOf(x) \/ (m = new /\ x \in moved)
      /\ \A m : m \in ConsentCarriers(x)' <=> m \in ConsentCarriers(x) \/ (m = new /\ x \in refs)
  BY <1>2, <1>3, <1>4 DEF CarriersOf, ConsentCarriers
<1> QED
  BY <1>1, <1>5

LEMMA CarriersBack ==
    ASSUME MergesSound, NEW m, MergesBack(m), NEW x
    PROVE  CarriersOf(x)' = CarriersOf(x) \ {m} /\ ConsentCarriers(x)' = ConsentCarriers(x) \ {m}
<1>1. \A n \in DOMAIN merges : /\ merges'[n].moved = merges[n].moved /\ merges'[n].consents = merges[n].consents
                               /\ merges'[n].undone <=> (n = m \/ merges[n].undone)
  BY DEF MergesBack, MergesStay, SameMerge
<1> QED
  BY <1>1 DEF MergesBack, CarriersOf, ConsentCarriers

\* What a step on contacts does to merges.
MergesWritten == MergesRest \/ (\E t, s : MergesOn(t, s)) \/ (\E m : MergesBack(m))

\* A lead follows the merges of the contact it was given to.
LEMMA LedgerCarried ==
    ASSUME DeskInv, UNCHANGED ledger, MergesWritten
    PROVE  LedgerFollowed'
<1>1. MergesSound /\ Rows /\ \A e \in ledger : e.lead \in DOMAIN leads
  BY DEF DeskInv, LedgerInv, LedgerNames
<1> SUFFICES ASSUME NEW e \in ledger PROVE Follows(e.contact, leads[e.lead].contact, CarriersOf(e.lead))'
  BY DEF LedgerFollowed
<1>2. PICK l, home : l = e.lead /\ home = e.contact
  OBVIOUS
<1>3. PICK where, by : where = leads[l].contact /\ by = CarriersOf(l)
  OBVIOUS
<1>4. l \in DOMAIN leads /\ by \subseteq DOMAIN merges /\ Follows(home, where, by)
  BY <1>1, <1>2, <1>3 DEF DeskInv, LedgerFollowed, CarriersOf
<1>5. ASSUME MergesRest PROVE Follows(e.contact, leads[e.lead].contact, CarriersOf(e.lead))'
  <2>1. by = CarriersOf(l)' /\ where = leads'[l].contact
    BY <1>1, <1>3, <1>5, CarriersRest DEF MergesRest
  <2>2. Follows(home, where, by)'
    BY <1>1, <1>4, <1>5, FollowsRest DEF MergesRest
  <2> QED
    BY <1>2, <2>1, <2>2 DEF Follows
<1>6. ASSUME NEW t, NEW s, MergesOn(t, s) PROVE Follows(e.contact, leads[e.lead].contact, CarriersOf(e.lead))'
  <2>1. PICK new, moved : new = Len(merges) + 1 /\ moved = LeadsOf(s)
    OBVIOUS
  <2>2. leads'[l].contact = IF l \in moved THEN t ELSE where
    BY <1>1, <1>3, <1>4, <1>6, <2>1, MovedRows DEF MergesOn
  <2>3. CarriersOf(l)' = IF l \in moved THEN by \cup {new} ELSE by
    BY <1>1, <1>3, <1>6, <2>1, CarriersOn
  <2>4. MergesStay /\ merges'[new].target = t /\ merges'[new].source = s
    BY <1>6, <2>1 DEF MergesOn
  <2>5. CASE l \in moved
    <3>1. where = s
      BY <1>3, <2>1, <2>5 DEF LeadsOf
    <3>2. Follows(home, t, by \cup {new})'
      BY <1>1, <1>4, <2>1, <2>4, <3>1, FollowsOn
    <3> QED
      BY <1>2, <2>2, <2>3, <2>5, <3>2 DEF Follows
  <2>6. CASE l \notin moved
    <3>1. Follows(home, where, by)'
      BY <1>1, <1>4, <2>4, FollowsRest
    <3> QED
      BY <1>2, <2>2, <2>3, <2>6, <3>1 DEF Follows
  <2> QED
    BY <2>5, <2>6
<1>7. ASSUME NEW m, MergesBack(m) PROVE Follows(e.contact, leads[e.lead].contact, CarriersOf(e.lead))'
  <2>1. PICK s, moved : s = merges[m].source /\ moved = merges[m].moved
    OBVIOUS
  <2>2. leads'[l].contact = IF l \in moved THEN s ELSE where
    BY <1>1, <1>3, <1>4, <1>7, <2>1, MovedRows DEF MergesBack
  <2>3. CarriersOf(l)' = by \ {m}
    BY <1>1, <1>3, <1>7, CarriersBack
  <2>4. MergesStay /\ (m \in by <=> l \in moved)
    BY <1>3, <1>7, <2>1 DEF MergesBack, CarriersOf
  <2>5. CASE l \in moved
    <3>1. Follows(home, s, by \ {m})'
      BY <1>1, <1>4, <1>7, <2>1, <2>4, <2>5, FollowsBack DEF MergesBack
    <3> QED
      BY <1>2, <2>2, <2>3, <2>5, <3>1 DEF Follows
  <2>6. CASE l \notin moved
    <3>1. by \ {m} = by
      BY <2>4, <2>6
    <3>2. Follows(home, where, by)'
      BY <1>1, <1>4, <2>4, FollowsRest
    <3> QED
      BY <1>2, <2>2, <2>3, <2>6, <3>1, <3>2 DEF Follows
  <2> QED
    BY <2>5, <2>6
<1> QED
  BY <1>5, <1>6, <1>7 DEF MergesWritten

LEMMA ContactCalls == ASSUME ContactNext PROVE CallsTake(ContactOps)
<1>1. ASSUME NEW c \in Callers, NEW i, NEW phone, PatchContact(c, i, phone) PROVE Takes(c, ContactOps)
  BY <1>1, StepsTake DEF PatchContact, ContactOps
<1>2. ASSUME NEW c \in Callers, UpdateContact(c) PROVE Takes(c, ContactOps)
  BY <1>2, StepsTake DEF UpdateContact, ContactOps
<1>3. ASSUME NEW i, NEW t, NEW s, NEW m, SoftDeleteContact(i) \/ MergeContacts(t, s) \/ UndoContactMerge(m)
      PROVE  UNCHANGED calls
  BY <1>3 DEF SoftDeleteContact, MergeContacts, UndoContactMerge, AtOnce
<1> QED
  BY <1>1, <1>2, <1>3 DEF ContactNext, CallsTake

LEMMA ContactsWork ==
    ASSUME DeskInv, ContactNext, UNCHANGED forms
    PROVE  DeskInv' /\ ClaimsKept /\ MergesWritten /\ UNCHANGED <<ledger, submissions>>
<1>1. UNCHANGED <<candidates, ledger, submissions, entitled>>
  BY DEF ContactNext, PatchContact, UpdateContact, SoftDeleteContact, MergeContacts, UndoContactMerge, deskVars
<1>2. ContactsGiven /\ MergesWritten /\ MergesSound'
  <2>1. ASSUME NEW c, NEW i, NEW phone, PatchContact(c, i, phone) PROVE ContactsGiven /\ MergesRest /\ MergesSound'
    BY <2>1 DEF PatchContact, deskVars, ContactsGiven, MergesRest, MergesStay, SameMerge, MergesSound, Touches,
                DeskInv, LedgerInv, Rows
  <2> QED
    BY <2>1, UpdateGiven, DeleteGiven, MergeGiven, UndoGiven DEF ContactNext, MergesWritten
<1>3. LeadsMove
  <2>1. CASE UNCHANGED leads
    BY <2>1 DEF LeadsMove, DeskInv, LedgerInv, Rows
  <2>2. UNCHANGED leads \/ \E moved, to : leads' = MovedLeads(moved, to)
    BY <1>2 DEF MergesWritten, MergesRest, MergesOn, MergesBack
  <2> QED
    BY <2>1, <2>2, MovedRows DEF DeskInv, LedgerInv
<1>4. LedgerInv' /\ Entitled' /\ ClaimsKept
  BY <1>1, <1>2, <1>3, TablesGiven
<1>5. LedgerFollowed'
  BY <1>1, <1>2, LedgerCarried
<1>6. CallsSound'
  BY <1>4, ContactCalls, TakesElsewhere, ElsewhereSound DEF DeskInv
<1>7. FormsSound'
  BY DEF DeskInv, FormsSound
<1> QED
  BY <1>1, <1>2, <1>4, <1>5, <1>6, <1>7 DEF DeskInv

-----------------------------------------------------------------------------
(* Forms.                                                                  *)

FormsAdvance ==
    \A i \in DOMAIN forms : /\ Stage(forms[i]) <= Stage(forms'[i])
                            /\ forms[i].version = forms'[i].version

LEMMA RowSet ==
    ASSUME FormsSound, NEW i, NEW row, SetForm(i, row),
           i \in DOMAIN forms => /\ {"version", "status"} \subseteq DOMAIN row
                                 /\ row.status \in {"draft", "published", "disabled"}
                                 /\ row.version = forms[i].version /\ Stage(forms[i]) <= Stage(row)
    PROVE  FormsSound' /\ FormsAdvance
<1>1. /\ IsSeq(forms') /\ DOMAIN forms' = DOMAIN forms
      /\ \A j \in DOMAIN forms : forms'[j] = IF j = i THEN row ELSE forms[j]
  BY Replaced DEF SetForm, FormsSound
<1>2. \A j \in DOMAIN forms : Stage(forms[j]) <= Stage(forms[j])
  BY DEF Stage, FormsSound
<1> QED
  BY <1>1, <1>2 DEF FormsSound, FormsAdvance

LEMMA FormsKeep ==
    ASSUME FormsSound, FormNext
    PROVE  FormsSound' /\ FormsAdvance
<1>1. CASE UNCHANGED forms
  BY <1>1 DEF FormsSound, FormsAdvance, Stage
<1>2. ASSUME NEW c, NEW complete, InsertFormDraft(c, complete) PROVE FormsSound' /\ FormsAdvance
  <2> DEFINE row == [version |-> calls[c].version, status |-> "draft", complete |-> complete, expired |-> FALSE]
  <2>1. {"version", "status"} \subseteq DOMAIN row /\ row.status = "draft"
    OBVIOUS
  <2>2. UNCHANGED forms \/ forms' = Append(forms, row)
    BY <1>2 DEF InsertFormDraft
  <2> HIDE DEF row
  <2>3. CASE forms' = Append(forms, row)
    <3>1. /\ IsSeq(forms') /\ DOMAIN forms' = DOMAIN forms \cup {Len(forms) + 1}
          /\ forms'[Len(forms) + 1] = row /\ \A i \in DOMAIN forms : forms'[i] = forms[i]
      BY <2>3, Appended DEF FormsSound
    <3> QED
      BY <2>1, <3>1 DEF FormsSound, FormsAdvance, Stage
  <2> QED
    BY <1>1, <2>2, <2>3
<1>3. ASSUME NEW c, WriteFormDraft(c) PROVE FormsSound' /\ FormsAdvance
  <2> DEFINE i == calls[c].form
             row == [forms[i] EXCEPT !.complete = calls[c].complete, !.expired = calls[c].expired]
  <2>1. SetForm(i, row)
    BY <1>3 DEF WriteFormDraft
  <2>2. i \in DOMAIN forms => /\ {"version", "status"} \subseteq DOMAIN row
                              /\ row.status = forms[i].status /\ row.version = forms[i].version
    BY DEF FormsSound
  <2> HIDE DEF row, i
  <2> QED
    BY <2>1, <2>2, RowSet DEF Stage, FormsSound
<1>4. ASSUME NEW c, WriteFormPublished(c) PROVE FormsSound' /\ FormsAdvance
  <2> DEFINE i == calls[c].form
             row == IF Publishable(forms[i]) THEN [forms[i] EXCEPT !.status = "published"] ELSE forms[i]
  <2>1. SetForm(i, row)
    BY <1>4 DEF WriteFormPublished
  <2>2. i \in DOMAIN forms =>
          /\ {"version", "status"} \subseteq DOMAIN row /\ row.version = forms[i].version
          /\ row.status = forms[i].status \/ (forms[i].status = "draft" /\ row.status = "published")
    BY DEF FormsSound, Publishable
  <2> HIDE DEF row, i
  <2> QED
    BY <2>1, <2>2, RowSet DEF Stage, FormsSound
<1>5. ASSUME NEW c, WriteFormDisabled(c) PROVE FormsSound' /\ FormsAdvance
  <2> DEFINE i == calls[c].form
             row == [forms[i] EXCEPT !.status = "disabled"]
  <2>1. SetForm(i, row)
    BY <1>5 DEF WriteFormDisabled
  <2>2. i \in DOMAIN forms =>
          /\ {"version", "status"} \subseteq DOMAIN row /\ row.version = forms[i].version /\ row.status = "disabled"
    BY DEF FormsSound
  <2> HIDE DEF row, i
  <2> QED
    BY <2>1, <2>2, RowSet DEF Stage, FormsSound
<1>6. ASSUME NEW i, Expire(i) PROVE FormsSound' /\ FormsAdvance
  <2> DEFINE row == [forms[i] EXCEPT !.expired = TRUE]
  <2>1. SetForm(i, row)
    BY <1>6 DEF Expire
  <2>2. i \in DOMAIN forms => /\ {"version", "status"} \subseteq DOMAIN row
                              /\ row.status = forms[i].status /\ row.version = forms[i].version
    BY DEF FormsSound
  <2> HIDE DEF row
  <2> QED
    BY <2>1, <2>2, RowSet DEF Stage, FormsSound
<1> QED
  BY <1>1, <1>2, <1>3, <1>4, <1>5, <1>6 DEF FormNext, CreateFormDraft, UpdateFormDraft, PublishForm, DisableForm

-----------------------------------------------------------------------------
(* What a lead was made from.                                              *)

TakenIn(key, content, facts, source) ==
    FirstIntake(key, content, facts, source, TRUE) \/ FirstIntake(key, content, facts, source, FALSE)

\* The one row a first delivery adds.
LEMMA Ledgered ==
    ASSUME LedgerInv, NEW key, NEW content, NEW facts, NEW source, TakenIn(key, content, facts, source)
    PROVE  /\ Original(key) = {}
           /\ \E d : /\ ledger' = ledger \cup {d}
                     /\ d.key = key /\ d.content = content /\ d.lead = Len(leads')
                     /\ d.lead = Len(leads) + 1 /\ d.contact = IntakeContact(facts.phone)
<1> DEFINE d == [key |-> key, content |-> content, lead |-> Len(leads) + 1, contact |-> IntakeContact(facts.phone)]
<1>1. Original(key) = {} /\ ledger' = ledger \cup {d} /\ \E row : leads' = Append(leads, row)
  BY DEF TakenIn, FirstIntake
<1>2. Len(leads') = Len(leads) + 1
  BY <1>1, Appended DEF LedgerInv, Rows
<1>3. /\ d.key = key /\ d.content = content /\ d.lead = Len(leads) + 1
      /\ d.contact = IntakeContact(facts.phone)
  OBVIOUS
<1> HIDE DEF d
<1> QED
  BY <1>1, <1>2, <1>3

SubmissionFields == {"form", "source", "ref", "contact", "lead", "allowed"}
ConsentFields == {"contact", "ref", "allowed", "revoked"}

SubmissionRows ==
    \A s \in submissions :
        /\ SubmissionFields \subseteq DOMAIN s
        /\ \E e \in ledger : e.key = <<"form", s.ref>> /\ e.lead = s.lead /\ e.contact = s.contact
        /\ \A t \in submissions : t.form = s.form /\ t.source = s.source /\ t.ref = s.ref => t = s

\* A consent is of an event, or of a submission; merges carry none but those.
OfSubmission(ref) == \E s \in submissions : ref = <<s.form, s.source, s.ref>>
ConsentRows ==
    /\ \A k \in consents : /\ ConsentFields \subseteq DOMAIN k
                           /\ (\E kind, id : k.ref = <<kind, id>>) \/ OfSubmission(k.ref)
    /\ \A m \in DOMAIN merges : merges[m].consents \subseteq {k.ref : k \in consents}

\* The one consent of a submission, where the merges have carried it.
ItsConsent(s, k) ==
    /\ k \in consents /\ k.ref = <<s.form, s.source, s.ref>> /\ k.allowed = s.allowed
    /\ Follows(s.contact, k.contact, ConsentCarriers(k.ref))
    /\ \A other \in consents : other.ref = k.ref => other = k

SubmissionsSound ==
    /\ SubmissionRows /\ ConsentRows
    /\ \A s \in submissions : \E k : ItsConsent(s, k)

LEMMA SoundBacked == ASSUME SubmissionsSound PROVE SubmissionsBacked
<1>1. ASSUME NEW s \in submissions
      PROVE  \E k \in consents : /\ k.ref = <<s.form, s.source, s.ref>> /\ k.allowed = s.allowed
                                 /\ k.contact = Carried(s.contact, ConsentCarriers(k.ref))
                                 /\ \A other \in consents : other.ref = k.ref => other = k
  BY DEF SubmissionsSound, ItsConsent, Follows
<1> QED
  BY <1>1 DEF SubmissionsSound, SubmissionRows, SubmissionsBacked

LEMMA ConsentedRows ==
    ASSUME ConsentRows, NEW contact, NEW ref, NEW allowed, consents' = Consented(contact, ref, allowed)
    PROVE  /\ \A k \in consents : k.ref # ref => k \in consents'
           /\ \A k \in consents' : k \in consents \/ k.ref = ref
           /\ \A k \in consents' : ConsentFields \subseteq DOMAIN k
           /\ {k.ref : k \in consents} \subseteq {k.ref : k \in consents'}
<1> DEFINE own == {k \in consents : k.contact = contact /\ k.ref = ref}
           new == Consent(contact, ref, allowed)
<1>1. ConsentFields \subseteq DOMAIN new /\ new.ref = ref
  BY DEF Consent, ConsentFields
<1>2. consents' = consents \/ consents' = (consents \ own) \cup {new}
  BY DEF Consented
<1> HIDE DEF new
<1> QED
  BY <1>1, <1>2 DEF ConsentRows

\* A consent that no other joins stays a submission's.
LEMMA ItsConsentStays ==
    ASSUME MergesSound, UNCHANGED merges, NEW s, NEW k, ItsConsent(s, k), k \in consents',
           \A other \in consents' : other.ref = k.ref => other \in consents
    PROVE  ItsConsent(s, k)'
<1>1. PICK home, where, ref, by : /\ home = s.contact /\ where = k.contact
                                  /\ ref = k.ref /\ by = ConsentCarriers(ref)
  OBVIOUS
<1>2. MergesStay
  BY DEF MergesSound, MergesStay, SameMerge
<1>3. by \subseteq DOMAIN merges /\ by = ConsentCarriers(ref)' /\ Follows(home, where, by)
  BY <1>1 DEF ConsentCarriers, ItsConsent
<1>4. Follows(home, where, by)'
  BY <1>2, <1>3, FollowsRest
<1>5. Follows(s.contact, k.contact, ConsentCarriers(k.ref))'
  BY <1>1, <1>3, <1>4 DEF Follows
<1> QED
  BY <1>5 DEF ItsConsent

\* Consents of events come and go without those of submissions.
ConsentsLeft ==
    \/ UNCHANGED consents
    \/ \E contact, kind, id, allowed : consents' = Consented(contact, <<kind, id>>, allowed)

LEMMA SubmissionsRest ==
    ASSUME MergesSound, SubmissionsSound, UNCHANGED <<submissions, merges>>, ledger \subseteq ledger', ConsentsLeft
    PROVE  SubmissionsSound'
<1>1. SubmissionRows'
  BY DEF SubmissionsSound, SubmissionRows
<1>2. CASE UNCHANGED consents
  <2>1. ConsentRows'
    BY <1>2 DEF SubmissionsSound, ConsentRows, OfSubmission
  <2>2. \A s \in submissions : \A k : ItsConsent(s, k) => ItsConsent(s, k)'
    BY <1>2, ItsConsentStays DEF ItsConsent
  <2> QED
    BY <1>1, <2>1, <2>2 DEF SubmissionsSound
<1>3. ASSUME NEW contact, NEW kind, NEW id, NEW allowed, consents' = Consented(contact, <<kind, id>>, allowed)
      PROVE  SubmissionsSound'
  <2>1. PICK ref : ref = <<kind, id>>
    OBVIOUS
  <2>2. /\ \A k \in consents : k.ref # ref => k \in consents'
        /\ \A k \in consents' : k \in consents \/ k.ref = ref
        /\ \A k \in consents' : ConsentFields \subseteq DOMAIN k
        /\ {k.ref : k \in consents} \subseteq {k.ref : k \in consents'}
    BY <1>3, <2>1, ConsentedRows DEF SubmissionsSound
  <2>3. ConsentRows'
    BY <2>1, <2>2 DEF SubmissionsSound, ConsentRows, OfSubmission
  <2>4. ASSUME NEW s \in submissions, NEW k, ItsConsent(s, k) PROVE ItsConsent(s, k)'
    <3>1. k.ref # ref /\ k \in consents
      BY <2>1, <2>4 DEF ItsConsent
    <3>2. k \in consents' /\ \A other \in consents' : other.ref = k.ref => other \in consents
      BY <2>2, <3>1
    <3> QED
      BY <2>4, <3>2, ItsConsentStays
  <2> QED
    BY <1>1, <2>3, <2>4 DEF SubmissionsSound
<1> QED
  BY <1>2, <1>3 DEF ConsentsLeft

\* Consents are written over, each in its place.
Moved(f) ==
    /\ consents' = {f[k] : k \in consents}
    /\ \A k \in consents : ConsentFields \subseteq DOMAIN f[k] /\ f[k].ref = k.ref /\ f[k].allowed = k.allowed
    /\ \A s \in submissions : \A k \in consents :
         ItsConsent(s, k) => Follows(s.contact, f[k].contact, ConsentCarriers(k.ref))'

LEMMA ConsentsMoved ==
    ASSUME SubmissionsSound, UNCHANGED submissions, ledger \subseteq ledger', NEW f, Moved(f),
           \A m \in DOMAIN merges' : merges'[m].consents \subseteq {k.ref : k \in consents}
    PROVE  SubmissionsSound'
<1>1. SubmissionRows'
  BY DEF SubmissionsSound, SubmissionRows
<1>2. {k.ref : k \in consents} \subseteq {k.ref : k \in consents'}
  BY DEF Moved
<1>3. ConsentRows'
  <2>1. ASSUME NEW k \in consents'
        PROVE  ConsentFields \subseteq DOMAIN k /\ ((\E kind, id : k.ref = <<kind, id>>) \/ OfSubmission(k.ref)')
    <3>1. PICK j \in consents : k = f[j]
      BY DEF Moved
    <3>2. ConsentFields \subseteq DOMAIN k /\ k.ref = j.ref
      BY <3>1 DEF Moved
    <3> QED
      BY <3>2 DEF SubmissionsSound, ConsentRows, OfSubmission
  <2>2. \A m \in DOMAIN merges' : merges'[m].consents \subseteq {k.ref : k \in consents'}
    BY <1>2
  <2> QED
    BY <2>1, <2>2 DEF ConsentRows, OfSubmission
<1>4. ASSUME NEW s \in submissions PROVE \E k : ItsConsent(s, k)'
  <2>1. PICK k : ItsConsent(s, k)
    BY DEF SubmissionsSound
  <2>2. PICK new, ref, where : new = f[k] /\ ref = k.ref /\ where = new.contact
    OBVIOUS
  <2>3. /\ k \in consents /\ ref = <<s.form, s.source, s.ref>> /\ k.allowed = s.allowed
        /\ \A other \in consents : other.ref = ref => other = k
    BY <2>1, <2>2 DEF ItsConsent
  <2>4. new \in consents' /\ new.ref = ref /\ new.allowed = k.allowed
    BY <2>2, <2>3 DEF Moved
  <2>5. \A other \in consents' : other.ref = ref => other = new
    BY <2>2, <2>3 DEF Moved
  <2>6. Follows(s.contact, where, ConsentCarriers(ref))'
    BY <2>1, <2>2, <2>3 DEF Moved
  <2>7. ItsConsent(s, new)'
    BY <2>2, <2>3, <2>4, <2>5, <2>6 DEF ItsConsent
  <2> QED
    BY <2>7
<1> QED
  BY <1>1, <1>3, <1>4 DEF SubmissionsSound

LEMMA SubmissionStored ==
    ASSUME DeskInv, SubmissionsSound, UNCHANGED merges,
           NEW i, NEW source, NEW ref, NEW payload, SubmitForm(i, source, ref, payload)
    PROVE  SubmissionsSound' /\ ledger \subseteq ledger' /\ \A d \in ledger' \ ledger : d.key = FormKey(i, ref)
<1> DEFINE key == FormKey(i, ref)
           facts == [phone |-> payload.phone, bad |-> payload.bad, region |-> Anywhere]
           row(contact, lead) == [form |-> i, source |-> source, ref |-> ref, contact |-> contact, lead |-> lead,
                                  allowed |-> payload.allowed, recent |-> TRUE]
           stored(contact, lead) ==
             /\ consents' = Consented(contact, <<i, source, ref>>, payload.allowed)
             /\ submissions' = submissions \cup {row(contact, lead)}
<1>1. /\ ~SubmittedUnder(i, source, ref)
      /\ \/ \E e \in Original(key) : stored(e.contact, e.lead) /\ UNCHANGED ledger
         \/ \E x : FirstIntake(key, payload, facts, x, TRUE) /\ stored(IntakeContact(payload.phone), Len(leads) + 1)
  BY DEF SubmitForm, SubmitFormInTx
<1>2. PICK contact, lead :
        /\ stored(contact, lead) /\ ledger \subseteq ledger' /\ \A d \in ledger' \ ledger : d.key = key
        /\ \E e \in ledger' : e.key = key /\ e.lead = lead /\ e.contact = contact
  <2>1. CASE \E e \in Original(key) : stored(e.contact, e.lead) /\ UNCHANGED ledger
    <3> HIDE DEF row
    <3> QED
      BY <2>1 DEF Original
  <2>2. ASSUME NEW x, FirstIntake(key, payload, facts, x, TRUE), stored(IntakeContact(payload.phone), Len(leads) + 1)
        PROVE  \E contact, lead :
                 /\ stored(contact, lead) /\ ledger \subseteq ledger' /\ \A d \in ledger' \ ledger : d.key = key
                 /\ \E e \in ledger' : e.key = key /\ e.lead = lead /\ e.contact = contact
    <3>1. facts.phone = payload.phone
      OBVIOUS
    <3> HIDE DEF row, key, facts
    <3>2. TakenIn(key, payload, facts, x)
      BY <2>2 DEF TakenIn
    <3>3. \E d : /\ ledger' = ledger \cup {d} /\ d.key = key
                 /\ d.lead = Len(leads) + 1 /\ d.contact = IntakeContact(facts.phone)
      BY <3>2, Ledgered DEF DeskInv
    <3> QED
      BY <2>2, <3>1, <3>3
  <2> QED
    BY <1>1, <2>1, <2>2
<1> DEFINE new == row(contact, lead)
<1>3. /\ new.form = i /\ new.source = source /\ new.ref = ref
      /\ new.contact = contact /\ new.lead = lead /\ new.allowed = payload.allowed
      /\ SubmissionFields \subseteq DOMAIN new
  BY DEF SubmissionFields
<1>4. submissions' = submissions \cup {new} /\ consents' = Consented(contact, <<i, source, ref>>, payload.allowed)
  BY <1>2
<1> HIDE DEF new, row
<1>5. \A s \in submissions : ~(s.form = i /\ s.source = source /\ s.ref = ref)
  BY <1>1 DEF SubmittedUnder
<1>6. SubmissionRows'
  BY <1>2, <1>3, <1>4, <1>5 DEF SubmissionsSound, SubmissionRows, FormKey
<1>7. PICK triple, k : triple = <<i, source, ref>> /\ k = Consent(contact, triple, payload.allowed)
  OBVIOUS
<1>8. /\ ConsentFields \subseteq DOMAIN k
      /\ k.contact = contact /\ k.ref = triple /\ k.allowed = payload.allowed
  BY <1>7 DEF Consent, ConsentFields
<1>9. \A other \in consents : other.ref # triple
  BY <1>5, <1>7 DEF SubmissionsSound, ConsentRows, OfSubmission
<1>10. consents' = consents \cup {k}
  BY <1>4, <1>7, <1>9 DEF Consented
<1>11. ConsentRows'
  <2>1. OfSubmission(triple)' /\ \A other : OfSubmission(other) => OfSubmission(other)'
    BY <1>3, <1>4, <1>7 DEF OfSubmission
  <2>2. \A m \in DOMAIN merges : merges[m].consents \subseteq {other.ref : other \in consents'}
    BY <1>10 DEF SubmissionsSound, ConsentRows
  <2>3. \A other \in consents' : /\ ConsentFields \subseteq DOMAIN other
                                 /\ (\E kind, id : other.ref = <<kind, id>>) \/ OfSubmission(other.ref)'
    BY <1>8, <1>10, <2>1 DEF SubmissionsSound, ConsentRows, OfSubmission
  <2> QED
    BY <2>2, <2>3 DEF ConsentRows, OfSubmission
<1>12. ItsConsent(new, k)'
  <2>1. ConsentCarriers(triple)' = {}
    BY <1>9 DEF ConsentCarriers, SubmissionsSound, ConsentRows
  <2>2. Follows(contact, contact, {})'
    BY FollowsNone
  <2>3. Follows(new.contact, k.contact, ConsentCarriers(k.ref))'
    BY <1>3, <1>8, <2>1, <2>2 DEF Follows
  <2> QED
    BY <1>3, <1>7, <1>8, <1>9, <1>10, <2>3 DEF ItsConsent
<1>13. ASSUME NEW s \in submissions PROVE \E other : ItsConsent(s, other)'
  <2>1. PICK other : ItsConsent(s, other)
    BY DEF SubmissionsSound
  <2>2. other \in consents /\ other.ref # triple
    BY <1>9, <2>1 DEF ItsConsent
  <2>3. other \in consents' /\ \A x \in consents' : x.ref = other.ref => x \in consents
    BY <1>8, <1>10, <2>2
  <2> QED
    BY <2>1, <2>3, ItsConsentStays DEF DeskInv
<1> QED
  BY <1>2, <1>4, <1>6, <1>11, <1>12, <1>13 DEF SubmissionsSound

LEMMA SubmissionsAge ==
    ASSUME MergesSound, SubmissionsSound, UNCHANGED merges, WindowPasses
    PROVE  SubmissionsSound' /\ UNCHANGED ledger
<1> DEFINE older == [s \in submissions |-> [s EXCEPT !.recent = FALSE]]
<1>1. submissions' = {older[s] : s \in submissions} /\ UNCHANGED <<ledger, consents>>
  BY DEF WindowPasses
<1>2. ASSUME NEW s \in submissions
      PROVE  /\ SubmissionFields \subseteq DOMAIN older[s]
             /\ older[s].form = s.form /\ older[s].source = s.source /\ older[s].ref = s.ref
             /\ older[s].contact = s.contact /\ older[s].lead = s.lead /\ older[s].allowed = s.allowed
  BY DEF SubmissionsSound, SubmissionRows, SubmissionFields
<1> HIDE DEF older
<1>3. SubmissionRows'
  <2>1. ASSUME NEW s \in submissions
        PROVE  /\ SubmissionFields \subseteq DOMAIN older[s]
               /\ \E e \in ledger : e.key = <<"form", older[s].ref>> /\ e.lead = older[s].lead /\ e.contact = older[s].contact
    BY <1>2 DEF SubmissionsSound, SubmissionRows
  <2>2. ASSUME NEW s \in submissions, NEW t \in submissions,
               older[t].form = older[s].form, older[t].source = older[s].source, older[t].ref = older[s].ref
        PROVE  older[t] = older[s]
    <3>1. t.form = s.form /\ t.source = s.source /\ t.ref = s.ref
      BY <1>2, <2>2
    <3>2. t = s
      BY <3>1 DEF SubmissionsSound, SubmissionRows
    <3> QED
      BY <3>2
  <2> QED
    BY <1>1, <2>1, <2>2 DEF SubmissionRows
<1>4. ConsentRows'
  <2>1. ASSUME NEW ref, OfSubmission(ref) PROVE OfSubmission(ref)'
    <3>1. PICK s \in submissions : ref = <<s.form, s.source, s.ref>>
      BY <2>1 DEF OfSubmission
    <3>2. older[s] \in submissions' /\ ref = <<older[s].form, older[s].source, older[s].ref>>
      BY <1>1, <1>2, <3>1
    <3> QED
      BY <3>2 DEF OfSubmission
  <2> QED
    BY <1>1, <2>1 DEF SubmissionsSound, ConsentRows, OfSubmission
<1>5. ASSUME NEW x \in submissions' PROVE \E k : ItsConsent(x, k)'
  <2>1. PICK s \in submissions : x = older[s]
    BY <1>1
  <2>2. PICK k : ItsConsent(s, k)
    BY DEF SubmissionsSound
  <2>3. k \in consents' /\ \A other \in consents' : other.ref = k.ref => other \in consents
    BY <1>1, <2>2 DEF ItsConsent
  <2>4. ItsConsent(s, k)'
    BY <2>2, <2>3, ItsConsentStays
  <2>5. x.form = s.form /\ x.source = s.source /\ x.ref = s.ref /\ x.contact = s.contact /\ x.allowed = s.allowed
    BY <1>2, <2>1
  <2> QED
    BY <2>4, <2>5 DEF ItsConsent
<1> QED
  BY <1>1, <1>3, <1>4, <1>5 DEF SubmissionsSound

\* Revocations, merges and undos leave each submission its consent.
LEMMA SubmissionsRevoked ==
    ASSUME MergesSound, SubmissionsSound, UNCHANGED <<submissions, ledger, merges>>,
           NEW who, consents' = MarketingRevoked(who)
    PROVE  SubmissionsSound'
<1>1. PICK f : f = [k \in consents |-> IF k.contact \in who /\ k.allowed THEN [k EXCEPT !.revoked = TRUE] ELSE k]
  OBVIOUS
<1>2. consents' = {f[k] : k \in consents}
  BY <1>1 DEF MarketingRevoked
<1>3. ASSUME NEW k \in consents
      PROVE  /\ ConsentFields \subseteq DOMAIN f[k] /\ f[k].ref = k.ref /\ f[k].allowed = k.allowed
             /\ f[k].contact = k.contact
  <2>1. ConsentFields \subseteq DOMAIN k
    BY DEF SubmissionsSound, ConsentRows
  <2> QED
    BY <1>1, <2>1 DEF ConsentFields
<1>4. ASSUME NEW s \in submissions, NEW k \in consents, ItsConsent(s, k)
      PROVE  Follows(s.contact, f[k].contact, ConsentCarriers(k.ref))'
  <2>1. PICK home, where, by : home = s.contact /\ where = k.contact /\ by = ConsentCarriers(k.ref)
    OBVIOUS
  <2>2. /\ by \subseteq DOMAIN merges /\ Follows(home, where, by) /\ MergesStay
        /\ by = ConsentCarriers(k.ref)'
    BY <1>4, <2>1 DEF ConsentCarriers, ItsConsent, MergesSound, MergesStay, SameMerge
  <2>3. Follows(home, where, by)'
    BY <2>2, FollowsRest
  <2> QED
    BY <1>3, <2>1, <2>2, <2>3 DEF Follows
<1>5. Moved(f)
  BY <1>2, <1>3, <1>4 DEF Moved
<1>6. \A m \in DOMAIN merges' : merges'[m].consents \subseteq {k.ref : k \in consents}
  BY DEF SubmissionsSound, ConsentRows
<1> QED
  BY <1>5, <1>6, ConsentsMoved

\* One consent over, at most.
LEMMA OneMoved ==
    ASSUME SubmissionsSound, NEW refs, NEW to, consents' = MovedConsents(refs, to)
    PROVE  \E f : /\ consents' = {f[k] : k \in consents}
                  /\ \A k \in consents : /\ ConsentFields \subseteq DOMAIN f[k] /\ f[k].ref = k.ref /\ f[k].allowed = k.allowed
                                         /\ f[k].contact = IF k.ref \in refs THEN to ELSE k.contact
<1> DEFINE f == [k \in consents |-> IF k.ref \in refs THEN [k EXCEPT !.contact = to] ELSE k]
<1>1. consents' = {f[k] : k \in consents}
  BY DEF MovedConsents
<1>2. ASSUME NEW k \in consents
      PROVE  /\ ConsentFields \subseteq DOMAIN f[k] /\ f[k].ref = k.ref /\ f[k].allowed = k.allowed
             /\ f[k].contact = IF k.ref \in refs THEN to ELSE k.contact
  <2>1. ConsentFields \subseteq DOMAIN k
    BY DEF SubmissionsSound, ConsentRows
  <2> QED
    BY <2>1 DEF ConsentFields
<1> QED
  BY <1>1, <1>2

LEMMA SubmissionsCarried ==
    ASSUME MergesSound, SubmissionsSound, UNCHANGED <<submissions, ledger>>, MergesWritten
    PROVE  SubmissionsSound'
<1>1. CASE MergesRest
  <2>1. UNCHANGED consents /\ DOMAIN merges' = DOMAIN merges /\ MergesStay
    BY <1>1 DEF MergesRest
  <2>2. SubmissionRows' /\ ConsentRows'
    BY <2>1 DEF SubmissionsSound, SubmissionRows, ConsentRows, OfSubmission, MergesStay, SameMerge
  <2>3. ASSUME NEW s \in submissions PROVE \E k : ItsConsent(s, k)'
    <3>1. PICK k : ItsConsent(s, k)
      BY DEF SubmissionsSound
    <3>2. PICK home, where, by : home = s.contact /\ where = k.contact /\ by = ConsentCarriers(k.ref)
      OBVIOUS
    <3>3. by \subseteq DOMAIN merges /\ Follows(home, where, by) /\ by = ConsentCarriers(k.ref)'
      BY <1>1, <3>1, <3>2, CarriersRest DEF ConsentCarriers, ItsConsent
    <3>4. Follows(home, where, by)'
      BY <2>1, <3>3, FollowsRest
    <3>5. Follows(s.contact, k.contact, ConsentCarriers(k.ref))'
      BY <3>2, <3>3, <3>4 DEF Follows
    <3> QED
      BY <2>1, <3>1, <3>5 DEF ItsConsent
  <2> QED
    BY <2>2, <2>3 DEF SubmissionsSound
<1>2. ASSUME NEW t, NEW s, MergesOn(t, s) PROVE SubmissionsSound'
  <2>1. PICK new, refs : new = Len(merges) + 1 /\ refs = {k.ref : k \in ConsentsOf(s)}
    OBVIOUS
  <2>2. /\ consents' = MovedConsents(refs, t) /\ MergesStay /\ DOMAIN merges' = DOMAIN merges \cup {new}
        /\ merges'[new].target = t /\ merges'[new].source = s /\ merges'[new].consents = refs
    BY <1>2, <2>1 DEF MergesOn
  <2>3. PICK f : /\ consents' = {f[k] : k \in consents}
                 /\ \A k \in consents : /\ ConsentFields \subseteq DOMAIN f[k] /\ f[k].ref = k.ref /\ f[k].allowed = k.allowed
                                        /\ f[k].contact = IF k.ref \in refs THEN t ELSE k.contact
    BY <2>2, OneMoved
  <2>4. ASSUME NEW x \in submissions, NEW k \in consents, ItsConsent(x, k)
        PROVE  Follows(x.contact, f[k].contact, ConsentCarriers(k.ref))'
    <3>1. PICK home, where, by : home = x.contact /\ where = k.contact /\ by = ConsentCarriers(k.ref)
      OBVIOUS
    <3>2. by \subseteq DOMAIN merges /\ Follows(home, where, by)
      BY <2>4, <3>1 DEF ConsentCarriers, ItsConsent
    <3>3. ConsentCarriers(k.ref)' = IF k.ref \in refs THEN by \cup {new} ELSE by
      BY <1>2, <2>1, <3>1, CarriersOn
    <3>4. CASE k.ref \in refs
      <4>1. PICK other \in ConsentsOf(s) : other.ref = k.ref
        BY <2>1, <3>4
      <4>2. where = s
        BY <2>4, <3>1, <4>1 DEF ConsentsOf, ItsConsent
      <4>3. Follows(home, t, by \cup {new})'
        BY <2>1, <2>2, <3>2, <4>2, FollowsOn
      <4> QED
        BY <2>3, <3>1, <3>3, <3>4, <4>3 DEF Follows
    <3>5. CASE k.ref \notin refs
      <4>1. Follows(home, where, by)'
        BY <2>2, <3>2, FollowsRest
      <4> QED
        BY <2>3, <3>1, <3>3, <3>5, <4>1 DEF Follows
    <3> QED
      BY <3>4, <3>5
  <2>5. Moved(f)
    BY <2>3, <2>4 DEF Moved
  <2>6. \A m \in DOMAIN merges' : merges'[m].consents \subseteq {k.ref : k \in consents}
    <3>1. refs \subseteq {k.ref : k \in consents}
      BY <2>1 DEF ConsentsOf
    <3>2. \A m \in DOMAIN merges : merges'[m].consents = merges[m].consents
      BY <2>2 DEF MergesStay, SameMerge
    <3> QED
      BY <2>2, <3>1, <3>2 DEF SubmissionsSound, ConsentRows
  <2> QED
    BY <2>5, <2>6, ConsentsMoved
<1>3. ASSUME NEW m, MergesBack(m) PROVE SubmissionsSound'
  <2>1. PICK s, refs : s = merges[m].source /\ refs = merges[m].consents
    OBVIOUS
  <2>2. consents' = MovedConsents(refs, s) /\ MergesStay /\ DOMAIN merges' = DOMAIN merges
    BY <1>3, <2>1 DEF MergesBack
  <2>3. PICK f : /\ consents' = {f[k] : k \in consents}
                 /\ \A k \in consents : /\ ConsentFields \subseteq DOMAIN f[k] /\ f[k].ref = k.ref /\ f[k].allowed = k.allowed
                                        /\ f[k].contact = IF k.ref \in refs THEN s ELSE k.contact
    BY <2>2, OneMoved
  <2>4. ASSUME NEW x \in submissions, NEW k \in consents, ItsConsent(x, k)
        PROVE  Follows(x.contact, f[k].contact, ConsentCarriers(k.ref))'
    <3>1. PICK home, where, by : home = x.contact /\ where = k.contact /\ by = ConsentCarriers(k.ref)
      OBVIOUS
    <3>2. by \subseteq DOMAIN merges /\ Follows(home, where, by)
      BY <2>4, <3>1 DEF ConsentCarriers, ItsConsent
    <3>3. ConsentCarriers(k.ref)' = by \ {m}
      BY <1>3, <3>1, CarriersBack
    <3>4. m \in by <=> k.ref \in refs
      BY <1>3, <2>1, <3>1 DEF MergesBack, ConsentCarriers
    <3>5. CASE k.ref \in refs
      <4>1. Follows(home, s, by \ {m})'
        BY <1>3, <2>1, <2>2, <3>2, <3>4, <3>5, FollowsBack DEF MergesBack
      <4> QED
        BY <2>3, <3>1, <3>3, <3>5, <4>1 DEF Follows
    <3>6. CASE k.ref \notin refs
      <4>1. Follows(home, where, by)' /\ by \ {m} = by
        BY <2>2, <3>2, <3>4, <3>6, FollowsRest
      <4> QED
        BY <2>3, <3>1, <3>3, <3>6, <4>1 DEF Follows
    <3> QED
      BY <3>5, <3>6
  <2>5. Moved(f)
    BY <2>3, <2>4 DEF Moved
  <2>6. \A n \in DOMAIN merges' : merges'[n].consents \subseteq {k.ref : k \in consents}
    BY <2>2 DEF SubmissionsSound, ConsentRows, MergesStay, SameMerge
  <2> QED
    BY <2>5, <2>6, ConsentsMoved
<1> QED
  BY <1>1, <1>2, <1>3 DEF MergesWritten

\* What each way in adds to the ledger.
LEMMA IntakeOrigins ==
    ASSUME DeskInv, SubmissionsSound, UNCHANGED merges, IntakeNext
    PROVE  SubmissionsSound' /\ ledger \subseteq ledger' /\ \A d \in ledger' \ ledger : d.key[1] \in {"event", "form"}
<1>1. LedgerInv /\ MergesSound
  BY DEF DeskInv
<1>2. CASE UNCHANGED <<ledger, consents, submissions>>
  BY <1>1, <1>2, SubmissionsRest DEF ConsentsLeft
<1>3. ASSUME NEW c, IntakeEvent(c)
      PROVE  SubmissionsSound' /\ ledger \subseteq ledger' /\ \A d \in ledger' \ ledger : d.key[1] \in {"event", "form"}
  <2> DEFINE call == calls[c]
             facts == FactsOf[call.content]
             key == EventKey(call.key)
  <2>1. \/ UNCHANGED deskVars
        \/ /\ FirstIntake(key, call.content, facts, call.source, TRUE)
           /\ consents' = Consented(IntakeContact(facts.phone), <<"event", call.key>>, facts.allowed)
           /\ UNCHANGED submissions
    BY <1>3 DEF IntakeEvent, Replayed, EventKey
  <2>2. key[1] = "event"
    BY DEF EventKey
  <2> HIDE DEF call, facts, key
  <2>3. ASSUME TakenIn(key, call.content, facts, call.source)
        PROVE  ledger \subseteq ledger' /\ \A d \in ledger' \ ledger : d.key[1] \in {"event", "form"}
    BY <1>1, <2>2, <2>3, Ledgered
  <2> QED
    BY <1>1, <1>2, <2>1, <2>3, SubmissionsRest DEF deskVars, ConsentsLeft, TakenIn
<1>4. ASSUME NEW i, NEW source, NEW ref, NEW payload, SubmitForm(i, source, ref, payload)
      PROVE  SubmissionsSound' /\ ledger \subseteq ledger' /\ \A d \in ledger' \ ledger : d.key[1] \in {"event", "form"}
  <2>1. FormKey(i, ref)[1] = "form"
    BY DEF FormKey
  <2> QED
    BY <1>1, <1>4, <2>1, SubmissionStored
<1>5. CASE WindowPasses
  BY <1>1, <1>5, SubmissionsAge
<1>6. ASSUME NEW c, NEW k, NEW content, NEW m, NEW l, NEW status, NEW to, NEW phone, NEW contact,
             \/ CreateSourceRef(c) \/ LoadLead(c) \/ UpdateLead(c) \/ PostEvent(c, k, content)
             \/ PatchLead(c, m, l, status) \/ ReassignLead(c, l, to)
             \/ CreateContact(m, phone) \/ CreateLead(m, contact, to)
      PROVE  UNCHANGED <<ledger, consents, submissions>>
  BY <1>6 DEF CreateSourceRef, LoadLead, UpdateLead, PostEvent, PatchLead, ReassignLead, CreateContact, CreateLead,
              deskVars
<1> QED
  BY <1>2, <1>3, <1>4, <1>5, <1>6 DEF IntakeNext

LEMMA ChannelOrigins ==
    ASSUME DeskInv, SubmissionsSound, UNCHANGED merges, NEW c, ConfirmedInTx(c)
    PROVE  /\ SubmissionsSound' /\ ledger \subseteq ledger'
           /\ \A d \in ledger' \ ledger : d.key = ChannelKey(calls[c].event)
<1> DEFINE key == ChannelKey(calls[c].event)
           content == [phone |-> NoPhone, event |-> calls[c].event]
           facts == [phone |-> NoPhone, bad |-> {}, region |-> Anywhere]
<1>1. \/ UNCHANGED <<ledger, consents, submissions>>
      \/ /\ FirstIntake(key, content, facts, Len(sourceRefs'), FALSE)
         /\ consents' = Consented(IntakeContact(NoPhone), <<"channel", calls[c].event>>, FALSE)
         /\ UNCHANGED submissions
  BY DEF ConfirmedInTx, ChannelKey
<1> HIDE DEF key, content, facts
<1>2. ASSUME TakenIn(key, content, facts, Len(sourceRefs'))
      PROVE  ledger \subseteq ledger' /\ \A d \in ledger' \ ledger : d.key = key
  BY <1>2, Ledgered DEF DeskInv
<1> QED
  BY <1>1, <1>2, SubmissionsRest DEF key, DeskInv, ConsentsLeft, TakenIn

LEMMA CompanyOrigins ==
    ASSUME DeskInv, SubmissionsSound, NEW e, ConfirmEnterpriseRecord(e), UNCHANGED <<consents, submissions, merges>>
    PROVE  /\ SubmissionsSound' /\ ledger \subseteq ledger'
           /\ \A d \in ledger' \ ledger : d.key = CompanyKey(e)
<1> DEFINE key == CompanyKey(e)
           content == [phone |-> NoPhone, profile |-> companies[e].profile]
           facts == [phone |-> NoPhone, bad |-> {}, region |-> companies[e].profile.region]
<1>1. UNCHANGED ledger \/ \E x : FirstIntake(key, content, facts, x, TRUE)
  BY DEF ConfirmEnterpriseRecord
<1> HIDE DEF key, content, facts
<1>2. ASSUME NEW x, TakenIn(key, content, facts, x)
      PROVE  ledger \subseteq ledger' /\ \A d \in ledger' \ ledger : d.key = key
  BY <1>2, Ledgered DEF DeskInv
<1> QED
  BY <1>1, <1>2, SubmissionsRest DEF key, DeskInv, ConsentsLeft, TakenIn

CompaniesSound ==
    /\ CompaniesBacked
    /\ \A e \in DOMAIN companies : {"profile", "status", "conflict", "lead"} \subseteq DOMAIN companies[e]
    /\ \A e \in DOMAIN suppressions : /\ suppressions[e] \in Reasons /\ e \in DOMAIN companies
                                      /\ companies[e].status = suppressions[e]
    /\ \A d \in ledger : d.key[1] = "company" => d.key[2] \in DOMAIN companies

\* What is refused or deleted stays so, and makes no lead.
NoWayBack ==
    \A e \in DOMAIN suppressions :
        /\ e \in DOMAIN suppressions' /\ suppressions'[e] = suppressions[e]
        /\ companies'[e].status = suppressions[e]
        /\ \A d \in ledger' \ ledger : d.key # CompanyKey(e)

LEMMA SuppressionEmpty == ASSUME NEW e PROVE Suppression(e) = {} <=> e \notin DOMAIN suppressions
  BY DEF Suppression, Stored

LEMMA CompaniesRest ==
    ASSUME CompaniesSound, UNCHANGED enterpriseVars, ledger \subseteq ledger',
           \A d \in ledger' \ ledger : d.key[1] \in {"event", "form", "channel"}
    PROVE  CompaniesSound' /\ NoWayBack
<1>1. UNCHANGED <<companies, suppressions>>
  BY DEF enterpriseVars
<1>2. ASSUME NEW d \in ledger', NEW e, d.key = CompanyKey(e) PROVE d \in ledger
  BY <1>2 DEF CompanyKey
<1>3. CompaniesBacked'
  BY <1>1, <1>2 DEF CompaniesSound, CompaniesBacked, Original
<1>4. NoWayBack
  BY <1>1, <1>2 DEF CompaniesSound, NoWayBack
<1>5. \A d \in ledger' : d.key[1] = "company" => d.key[2] \in DOMAIN companies
  BY DEF CompaniesSound
<1> QED
  BY <1>1, <1>3, <1>4, <1>5 DEF CompaniesSound

\* An import writes a row of each company it names, and nothing else.
LEMMA Imported ==
    ASSUME CompaniesSound, NEW batch, Import(batch)
    PROVE  CompaniesSound' /\ NoWayBack
<1>1. /\ companies' = [e \in DOMAIN companies \cup DOMAIN batch |->
                        IF e \in DOMAIN batch THEN Upserted(e, batch[e]) ELSE companies[e]]
      /\ UNCHANGED <<ledger, suppressions>>
  BY DEF Import, UpsertEnterpriseImport, deskVars
<1>2. DOMAIN companies' = DOMAIN companies \cup DOMAIN batch
  BY <1>1
<1>3. ASSUME NEW e \in DOMAIN companies'
      PROVE  /\ {"profile", "status", "conflict", "lead"} \subseteq DOMAIN companies'[e]
             /\ e \in DOMAIN companies => /\ companies'[e].lead = companies[e].lead
                                          /\ companies[e].conflict => companies'[e].conflict
                                          /\ companies'[e].profile # companies[e].profile => companies'[e].conflict
             /\ companies'[e].status = "confirmed" => e \in DOMAIN companies /\ companies[e].status = "confirmed"
             /\ e \in DOMAIN suppressions => companies'[e].status = suppressions[e]
  <2>1. CASE e \notin DOMAIN batch
    <3>1. e \in DOMAIN companies /\ companies'[e] = companies[e]
      BY <1>1, <1>2, <2>1
    <3> QED
      BY <3>1 DEF CompaniesSound
  <2>2. CASE e \in DOMAIN batch /\ e \in DOMAIN companies
    <3> DEFINE p == batch[e]
               row == [companies[e] EXCEPT !.profile = p, !.conflict = Differs(companies[e], p)]
               status == IF Suppression(e) = {} THEN row.status ELSE suppressions[e]
    <3>1. companies'[e] = [row EXCEPT !.status = status]
      BY <1>1, <1>2, <2>2 DEF Upserted
    <3>2. {"profile", "status", "conflict", "lead"} \subseteq DOMAIN companies[e]
      BY <2>2 DEF CompaniesSound
    <3>3. /\ {"profile", "status", "conflict", "lead"} \subseteq DOMAIN row
          /\ row.profile = p /\ row.lead = companies[e].lead /\ row.status = companies[e].status
          /\ row.conflict = Differs(companies[e], p)
      BY <3>2
    <3> HIDE DEF row
    <3>4. /\ {"profile", "status", "conflict", "lead"} \subseteq DOMAIN companies'[e]
          /\ companies'[e].profile = p /\ companies'[e].lead = companies[e].lead
          /\ companies'[e].status = status /\ companies'[e].conflict = Differs(companies[e], p)
      BY <3>1, <3>3
    <3>5. e \in DOMAIN suppressions => status = suppressions[e] /\ status # "confirmed"
      BY SuppressionEmpty DEF CompaniesSound, Reasons
    <3>6. e \notin DOMAIN suppressions => status = companies[e].status
      BY <3>3, SuppressionEmpty
    <3> HIDE DEF status
    <3> QED
      BY <2>2, <3>4, <3>5, <3>6 DEF Differs
  <2>3. CASE e \in DOMAIN batch /\ e \notin DOMAIN companies
    <3> DEFINE row == [profile |-> batch[e], status |-> "draft", conflict |-> FALSE, lead |-> 0]
    <3>1. e \notin DOMAIN suppressions
      BY <2>3 DEF CompaniesSound
    <3>2. companies'[e] = [row EXCEPT !.status = row.status]
      BY <1>1, <1>2, <2>3, <3>1, SuppressionEmpty DEF Upserted
    <3>3. companies'[e] = row
      BY <3>2
    <3>4. {"profile", "status", "conflict", "lead"} \subseteq DOMAIN row /\ row.status = "draft"
      OBVIOUS
    <3> HIDE DEF row
    <3> QED
      BY <2>3, <3>1, <3>3, <3>4
  <2> QED
    BY <1>2, <2>1, <2>2, <2>3
<1>4. ASSUME NEW e, NEW d \in ledger, d.key = CompanyKey(e) PROVE e \in DOMAIN companies
  BY <1>4 DEF CompaniesSound, CompanyKey
<1>5. ASSUME NEW e \in DOMAIN companies', companies'[e].status = "confirmed"
      PROVE  \E d \in ledger' : d.key = CompanyKey(e) /\ d.lead = companies'[e].lead
  <2>1. e \in DOMAIN companies /\ companies[e].status = "confirmed" /\ companies'[e].lead = companies[e].lead
    BY <1>3, <1>5
  <2> QED
    BY <1>1, <2>1 DEF CompaniesSound, CompaniesBacked, Original
<1>6. ASSUME NEW e \in DOMAIN companies', NEW d \in ledger', d.key = CompanyKey(e),
             d.content.profile # companies'[e].profile
      PROVE  companies'[e].conflict
  <2>1. d \in ledger /\ e \in DOMAIN companies
    BY <1>1, <1>4, <1>6
  <2>2. CASE companies'[e].profile = companies[e].profile
    <3>1. companies[e].conflict
      BY <1>6, <2>1, <2>2 DEF CompaniesSound, CompaniesBacked, Original
    <3> QED
      BY <1>3, <2>1, <3>1
  <2> QED
    BY <1>3, <2>1, <2>2
<1>7. CompaniesBacked'
  BY <1>5, <1>6 DEF CompaniesBacked, Original
<1>8. NoWayBack
  BY <1>1, <1>2, <1>3 DEF NoWayBack, CompaniesSound
<1> QED
  BY <1>1, <1>2, <1>3, <1>7, <1>8 DEF CompaniesSound

LEMMA RefusedForGood ==
    ASSUME CompaniesSound, NEW e \in DOMAIN companies, NEW reason \in Reasons, Suppress(e, reason)
    PROVE  CompaniesSound' /\ NoWayBack
<1> DEFINE why == Reason(e, reason)
<1>1. /\ suppressions' = Put(suppressions, e, why) /\ UNCHANGED ledger
      /\ companies' = [companies EXCEPT ![e] = [companies[e] EXCEPT !.status = why]]
  BY DEF Suppress, deskVars
<1>2. why \in Reasons /\ (e \in DOMAIN suppressions => why = suppressions[e])
  BY SuppressionEmpty DEF Reason, CompaniesSound
<1> HIDE DEF why
<1>3. /\ DOMAIN suppressions' = DOMAIN suppressions \cup {e}
      /\ \A f \in DOMAIN suppressions' : suppressions'[f] = IF f = e THEN why ELSE suppressions[f]
  BY <1>1 DEF Put
<1> DEFINE row == [companies[e] EXCEPT !.status = why]
<1>4. /\ {"profile", "status", "conflict", "lead"} \subseteq DOMAIN row
      /\ row.profile = companies[e].profile /\ row.conflict = companies[e].conflict /\ row.status = why
  BY DEF CompaniesSound
<1>5. companies' = [companies EXCEPT ![e] = row]
  BY <1>1
<1> HIDE DEF row
<1>6. /\ DOMAIN companies' = DOMAIN companies
      /\ \A f \in DOMAIN companies : companies'[f] = IF f = e THEN row ELSE companies[f]
  BY <1>5
<1>7. \A f \in DOMAIN suppressions' : /\ suppressions'[f] \in Reasons /\ f \in DOMAIN companies'
                                      /\ companies'[f].status = suppressions'[f]
  BY <1>2, <1>3, <1>4, <1>6 DEF CompaniesSound
<1>8. \A f \in DOMAIN suppressions : /\ f \in DOMAIN suppressions' /\ suppressions'[f] = suppressions[f]
                                     /\ companies'[f].status = suppressions[f]
  BY <1>2, <1>3, <1>7
<1>9. CompaniesBacked'
  BY <1>1, <1>2, <1>4, <1>6 DEF CompaniesSound, CompaniesBacked, Original, Reasons
<1> QED
  BY <1>1, <1>4, <1>6, <1>7, <1>8, <1>9 DEF CompaniesSound, NoWayBack

\* A confirmation of a company that may be confirmed.
LEMMA Confirmed ==
    ASSUME DeskInv, CompaniesSound, NEW e \in DOMAIN companies, ConfirmEnterpriseRecord(e), UNCHANGED suppressions
    PROVE  CompaniesSound' /\ NoWayBack
<1> DEFINE key == CompanyKey(e)
           content == [phone |-> NoPhone, profile |-> companies[e].profile]
           facts == [phone |-> NoPhone, bad |-> {}, region |-> companies[e].profile.region]
           flagged == [companies[e] EXCEPT !.conflict = TRUE]
           named(lead) == [companies[e] EXCEPT !.status = "confirmed", !.lead = lead]
<1>1. e \notin DOMAIN suppressions
  BY SuppressionEmpty DEF ConfirmEnterpriseRecord, Confirmable
<1>2. \/ /\ \E o \in Original(key) : o.content # content
         /\ UNCHANGED ledger /\ companies' = [companies EXCEPT ![e].conflict = TRUE]
      \/ \E o \in Original(key) :
           /\ o.content = content /\ UNCHANGED ledger
           /\ companies' = [companies EXCEPT ![e].status = "confirmed", ![e].lead = o.lead]
      \/ /\ \E x : FirstIntake(key, content, facts, x, TRUE)
         /\ companies' = [companies EXCEPT ![e].status = "confirmed", ![e].lead = Len(leads')]
  BY DEF ConfirmEnterpriseRecord, Conflict
<1>3. {"profile", "status", "conflict", "lead"} \subseteq DOMAIN companies[e] /\ content.profile = companies[e].profile
  BY DEF CompaniesSound
<1>4. /\ {"profile", "status", "conflict", "lead"} \subseteq DOMAIN flagged
      /\ flagged.profile = companies[e].profile /\ flagged.status = companies[e].status
      /\ flagged.lead = companies[e].lead /\ flagged.conflict
  BY <1>3
<1>5. ASSUME NEW lead
      PROVE  /\ {"profile", "status", "conflict", "lead"} \subseteq DOMAIN named(lead)
             /\ named(lead).profile = companies[e].profile /\ named(lead).status = "confirmed"
             /\ named(lead).lead = lead /\ named(lead).conflict = companies[e].conflict
  BY <1>3
<1>6. \A d \in ledger : d.key[1] = "company" => d.key[2] \in DOMAIN companies
  BY DEF CompaniesSound
<1>7. key[1] = "company" /\ key[2] = e /\ \A f : CompanyKey(f) = key => f = e
  BY DEF CompanyKey
<1>8. \A d, o \in ledger : d.key = o.key => d = o
  BY DEF DeskInv, LedgerInv, LedgerRowsExact
\* The row of e becomes row, and what the ledger holds for e agrees with it.
<1>9. ASSUME NEW row, companies' = [companies EXCEPT ![e] = row],
             {"profile", "status", "conflict", "lead"} \subseteq DOMAIN row,
             ledger \subseteq ledger', \A d \in ledger' \ ledger : d.key = key,
             row.status = "confirmed" => \E d \in ledger' : d.key = key /\ d.lead = row.lead,
             \A d \in ledger' : d.key = key /\ d.content.profile # row.profile => row.conflict
      PROVE  CompaniesSound' /\ NoWayBack
  <2>1. /\ DOMAIN companies' = DOMAIN companies
        /\ \A f \in DOMAIN companies : companies'[f] = IF f = e THEN row ELSE companies[f]
    BY <1>9
  <2>2. ASSUME NEW f \in DOMAIN companies, f # e
        PROVE  /\ companies'[f].status = "confirmed" => \E d \in ledger' : d.key = CompanyKey(f) /\ d.lead = companies'[f].lead
               /\ \A d \in ledger' : d.key = CompanyKey(f) /\ d.content.profile # companies'[f].profile => companies'[f].conflict
    <3>1. companies'[f] = companies[f]
      BY <2>1, <2>2
    <3>2. \A d \in ledger' : d.key = CompanyKey(f) => d \in ledger
      BY <1>7, <1>9, <2>2
    <3> QED
      BY <1>9, <3>1, <3>2 DEF CompaniesSound, CompaniesBacked, Original
  <2>3. CompaniesBacked'
    BY <1>9, <2>1, <2>2 DEF CompaniesBacked, Original
  <2>4. \A d \in ledger' : d.key[1] = "company" => d.key[2] \in DOMAIN companies'
    BY <1>6, <1>7, <1>9, <2>1
  <2>5. NoWayBack
    <3>1. ASSUME NEW f \in DOMAIN suppressions PROVE f # e /\ companies'[f] = companies[f] /\ CompanyKey(f) # key
      BY <1>1, <1>7, <2>1 DEF CompaniesSound
    <3> QED
      BY <1>9, <3>1 DEF CompaniesSound, NoWayBack
  <2> QED
    BY <1>1, <1>9, <2>1, <2>3, <2>4, <2>5 DEF CompaniesSound
<1>10. CASE /\ \E o \in Original(key) : o.content # content
            /\ UNCHANGED ledger /\ companies' = [companies EXCEPT ![e].conflict = TRUE]
  <2>1. companies' = [companies EXCEPT ![e] = flagged]
    BY <1>10
  <2>2. companies[e].status = "confirmed" => \E d \in ledger : d.key = key /\ d.lead = companies[e].lead
    BY DEF CompaniesSound, CompaniesBacked, Original
  <2> DEFINE row == flagged
  <2>3. /\ {"profile", "status", "conflict", "lead"} \subseteq DOMAIN row
        /\ row.status = companies[e].status /\ row.lead = companies[e].lead /\ row.conflict
    BY <1>4
  <2> HIDE DEF row, flagged, key
  <2>4. /\ ledger \subseteq ledger' /\ \A d \in ledger' \ ledger : d.key = key
        /\ row.status = "confirmed" => \E d \in ledger' : d.key = key /\ d.lead = row.lead
        /\ \A d \in ledger' : d.key = key /\ d.content.profile # row.profile => row.conflict
    BY <1>10, <2>2, <2>3
  <2> QED
    BY <1>9, <2>1, <2>3, <2>4 DEF row
<1>11. ASSUME NEW o \in Original(key), o.content = content, UNCHANGED ledger,
              companies' = [companies EXCEPT ![e].status = "confirmed", ![e].lead = o.lead]
       PROVE  CompaniesSound' /\ NoWayBack
  <2>1. companies' = [companies EXCEPT ![e] = named(o.lead)]
    BY <1>11
  <2>2. o \in ledger /\ o.key = key
    BY DEF Original
  <2>3. \A d \in ledger' : d.key = key => d.content.profile = companies[e].profile
    BY <1>3, <1>8, <1>11, <2>2
  <2> DEFINE row == named(o.lead)
  <2>4. /\ {"profile", "status", "conflict", "lead"} \subseteq DOMAIN row
        /\ row.profile = companies[e].profile /\ row.status = "confirmed" /\ row.lead = o.lead
    BY <1>5
  <2>5. companies' = [companies EXCEPT ![e] = row]
    BY <2>1
  <2> HIDE DEF row, named, key, content
  <2> QED
    BY <1>9, <1>11, <2>2, <2>3, <2>4, <2>5
<1>12. ASSUME NEW x, FirstIntake(key, content, facts, x, TRUE),
              companies' = [companies EXCEPT ![e].status = "confirmed", ![e].lead = Len(leads')]
       PROVE  CompaniesSound' /\ NoWayBack
  <2> DEFINE row == named(Len(leads'))
  <2>1. companies' = [companies EXCEPT ![e] = row]
    BY <1>12
  <2>2. /\ {"profile", "status", "conflict", "lead"} \subseteq DOMAIN row
        /\ row.profile = companies[e].profile /\ row.status = "confirmed" /\ row.lead = Len(leads')
    BY <1>5
  <2> HIDE DEF row, named, key, content, facts
  <2>3. /\ Original(key) = {}
        /\ \E d : ledger' = ledger \cup {d} /\ d.key = key /\ d.content = content /\ d.lead = Len(leads')
    <3>1. TakenIn(key, content, facts, x)
      BY <1>12 DEF TakenIn
    <3> QED
      BY <3>1, Ledgered DEF DeskInv
  <2>4. \A d \in ledger : d.key # key
    BY <2>3 DEF Original
  <2>5. /\ ledger \subseteq ledger' /\ \A d \in ledger' \ ledger : d.key = key
        /\ \A d \in ledger' : d.key = key => d.content = content
        /\ \E d \in ledger' : d.key = key /\ d.lead = Len(leads')
    BY <2>3, <2>4
  <2> QED
    BY <1>3, <1>9, <2>1, <2>2, <2>5
<1> QED
  BY <1>2, <1>10, <1>11, <1>12

\* Nobody but the directory writes companies and refusals.
LEMMA OriginsKeep ==
    ASSUME DeskInv, SubmissionsSound, CompaniesSound, [Next]_vars
    PROVE  SubmissionsSound' /\ CompaniesSound' /\ NoWayBack /\ ledger \subseteq ledger'
<1>0. MergesSound
  BY DEF DeskInv
<1>1. ASSUME UNCHANGED <<deskVars, merges, enterpriseVars>>
      PROVE  SubmissionsSound' /\ CompaniesSound' /\ NoWayBack /\ ledger \subseteq ledger'
  <2>1. UNCHANGED <<ledger, consents, submissions, merges, enterpriseVars>>
    BY <1>1 DEF deskVars
  <2> QED
    BY <1>0, <2>1, SubmissionsRest, CompaniesRest DEF ConsentsLeft
<1>2. CASE UNCHANGED vars
  BY <1>1, <1>2 DEF vars
<1>3. CASE IntakeNext /\ UNCHANGED <<merges, enterpriseVars>>
  BY <1>3, IntakeOrigins, CompaniesRest
<1>4. CASE ConfirmNext /\ UNCHANGED enterpriseVars
  <2>1. ASSUME NEW c, NEW e, ConfirmChannelCandidate(c, e) PROVE UNCHANGED <<deskVars, merges>>
    BY <2>1 DEF ConfirmChannelCandidate
  <2>2. ASSUME NEW c, ConfirmedInTx(c)
        PROVE  /\ SubmissionsSound' /\ ledger \subseteq ledger'
               /\ \A d \in ledger' \ ledger : d.key[1] \in {"event", "form", "channel"}
    <3>1. UNCHANGED merges
      BY <2>2 DEF ConfirmedInTx
    <3> QED
      BY <2>2, <3>1, ChannelOrigins DEF ChannelKey
  <2> QED
    BY <1>1, <1>4, <2>1, <2>2, CompaniesRest DEF ConfirmNext
<1>5. CASE EnterpriseNext /\ UNCHANGED merges
  <2>1. ASSUME NEW batch, Import(batch)
        PROVE  SubmissionsSound' /\ CompaniesSound' /\ NoWayBack /\ ledger \subseteq ledger'
    <3>1. UNCHANGED <<ledger, consents, submissions>>
      BY <2>1 DEF Import, deskVars
    <3> QED
      BY <1>0, <1>5, <2>1, <3>1, SubmissionsRest, Imported DEF ConsentsLeft
  <2>2. ASSUME NEW e \in DOMAIN companies, Confirm(e)
        PROVE  SubmissionsSound' /\ CompaniesSound' /\ NoWayBack /\ ledger \subseteq ledger'
    BY <1>5, <2>2, CompanyOrigins, Confirmed DEF Confirm
  <2>3. ASSUME NEW e \in DOMAIN companies, NEW reason \in Reasons, Suppress(e, reason)
        PROVE  SubmissionsSound' /\ CompaniesSound' /\ NoWayBack /\ ledger \subseteq ledger'
    <3>1. PICK who : consents' = MarketingRevoked(who)
      BY <2>3 DEF Suppress
    <3>2. UNCHANGED <<submissions, ledger, merges>>
      BY <1>5, <2>3 DEF Suppress
    <3>3. SubmissionsSound'
      BY <1>0, <3>1, <3>2, SubmissionsRevoked
    <3> QED
      BY <2>3, <3>2, <3>3, RefusedForGood
  <2> QED
    BY <1>5, <2>1, <2>2, <2>3 DEF EnterpriseNext
<1>6. CASE ContactNext /\ UNCHANGED <<forms, enterpriseVars>>
  <2>1. MergesWritten /\ UNCHANGED <<ledger, submissions>>
    BY <1>6, ContactsWork
  <2> QED
    BY <1>0, <1>6, <2>1, SubmissionsCarried, CompaniesRest
<1> QED
  BY <1>1, <1>2, <1>3, <1>4, <1>5, <1>6 DEF Next, DeskNext

-----------------------------------------------------------------------------
(* Comments and prospects.                                                 *)

ProspectsSound ==
    /\ \A e \in DOMAIN prospects :
        /\ {"status", "lead"} \subseteq DOMAIN prospects[e]
        /\ prospects[e].status = "confirmed" => \E d \in ledger : d.key = ChannelKey(e) /\ d.lead = prospects[e].lead
    /\ \A e \in DOMAIN interactions :
        /\ {"text", "retracted", "candidate"} \subseteq DOMAIN interactions[e]
        /\ interactions[e].candidate => e \in DOMAIN prospects
    /\ \A e \in withdrawn : e \in DOMAIN interactions /\ interactions[e].retracted

\* What a delivery has read of its event is still there when it stores, and a
\* confirmation under way began before any retraction.
ReadSound(call) ==
    /\ call.op \in {"channel_floor", "channel_store"} =>
        \A p \in call.prior : /\ call.post.event \in DOMAIN interactions
                              /\ p.candidate => call.post.event \in DOMAIN prospects
    /\ call.op = "channel_confirm" => ~call.late

ReadsSound == \A c \in Callers : ReadSound(calls[c])

EventsGrow == DOMAIN interactions \subseteq DOMAIN interactions' /\ DOMAIN prospects \subseteq DOMAIN prospects'

LEMMA ReadsWait ==
    ASSUME DOMAIN calls = Callers, ReadsSound, EventsGrow,
           \/ UNCHANGED calls
           \/ \E c \in Callers : \E call : calls' = [calls EXCEPT ![c] = call] /\ ReadSound(call)'
    PROVE  ReadsSound'
<1>1. \A call : ReadSound(call) => ReadSound(call)'
  BY DEF ReadSound, EventsGrow
<1>2. CASE UNCHANGED calls
  BY <1>1, <1>2 DEF ReadsSound, ReadSound
<1>3. ASSUME NEW c \in Callers, NEW call, calls' = [calls EXCEPT ![c] = call], ReadSound(call)' PROVE ReadsSound'
  <2>1. \A d \in Callers : calls'[d] = IF d = c THEN call ELSE calls[d]
    BY <1>3
  <2>2. ASSUME NEW d \in Callers PROVE ReadSound(calls[d])'
    <3>1. CASE d = c
      BY <1>3, <2>1, <3>1 DEF ReadSound
    <3>2. CASE d # c
      BY <1>1, <2>1, <3>2 DEF ReadSound, ReadsSound
    <3> QED
      BY <3>1, <3>2
  <2> QED
    BY <2>2 DEF ReadsSound
<1> QED
  BY <1>2, <1>3

LEMMA OthersRead ==
    ASSUME DOMAIN calls = Callers, ReadsSound, EventsGrow, NEW ops, CallsTake(ops),
           ops \cap {"channel_floor", "channel_store", "channel_confirm"} = {}
    PROVE  ReadsSound'
<1>1. ASSUME NEW call, call.op \in ops PROVE ReadSound(call)'
  BY <1>1 DEF ReadSound
<1> QED
  BY <1>1, ReadsWait DEF CallsTake, Takes

LEMMA ProspectsRest ==
    ASSUME ProspectsSound, UNCHANGED <<interactions, prospects, withdrawn>>, ledger \subseteq ledger'
    PROVE  ProspectsSound' /\ EventsGrow
  BY DEF ProspectsSound, EventsGrow

LEMMA IntakeCalls == ASSUME CallsSound, IntakeNext PROVE CallsTake(IntakeOps)
<1>1. ASSUME NEW c \in Callers, NEW k, NEW content, PostEvent(c, k, content) PROVE Takes(c, IntakeOps)
  <2> DEFINE row == FindSourceRef(<<FactsOf[content].source, k>>)
             op == IF FactsOf[content].source # NoSource /\ row = 0 THEN "source" ELSE "event"
             call == [op |-> op, key |-> k, content |-> content, source |-> row]
  <2>1. Start(c, call)
    BY <1>1 DEF PostEvent
  <2>2. "op" \in DOMAIN call /\ call.op \in {"source", "event"}
    OBVIOUS
  <2> HIDE DEF call
  <2> QED
    BY <2>1, <2>2, StepsTake DEF IntakeOps
<1>2. ASSUME NEW c \in Callers, CreateSourceRef(c) PROVE Takes(c, IntakeOps)
  <2> DEFINE call == [calls[c] EXCEPT !.op = "event", !.source = Len(sourceRefs')]
  <2>1. "op" \in DOMAIN call /\ call.op = "event"
    BY DEF CallsSound, CallSound
  <2> QED
    BY <1>2, <2>1, StepsTake DEF CreateSourceRef, IntakeOps
<1>3. ASSUME NEW c \in Callers, IntakeEvent(c) \/ UpdateLead(c) PROVE Takes(c, IntakeOps)
  BY <1>3, StepsTake DEF IntakeEvent, UpdateLead, IntakeOps
<1>4. ASSUME NEW c \in Callers, LoadLead(c) PROVE Takes(c, IntakeOps)
  <2>1. PICK l, row : Proceed(c, [op |-> "update", lead |-> l, row |-> row])
    BY <1>4 DEF LoadLead
  <2> QED
    BY <2>1, StepsTake DEF IntakeOps
<1>5. ASSUME NEW c \in Callers, NEW m, NEW l, NEW status, PatchLead(c, m, l, status) PROVE Takes(c, IntakeOps)
  BY <1>5, StepsTake DEF PatchLead, IntakeOps
<1>6. ASSUME NEW c \in Callers, NEW l, NEW to, ReassignLead(c, l, to) PROVE Takes(c, IntakeOps)
  BY <1>6, StepsTake DEF ReassignLead, IntakeOps
<1>7. ASSUME NEW i, NEW source, NEW ref, NEW payload, NEW m, NEW phone, NEW contact, NEW to,
             \/ SubmitForm(i, source, ref, payload) \/ WindowPasses \/ CreateContact(m, phone)
             \/ CreateLead(m, contact, to)
      PROVE  UNCHANGED calls
  BY <1>7 DEF SubmitForm, WindowPasses, CreateContact, CreateLead, AtOnce
<1> QED
  BY <1>1, <1>2, <1>3, <1>4, <1>5, <1>6, <1>7 DEF IntakeNext, CallsTake

LEMMA ConfirmCalls == ASSUME ConfirmNext PROVE CallsTake(ConfirmOps)
<1>1. ASSUME NEW c \in Callers, NEW e, ConfirmChannelCandidate(c, e) PROVE Takes(c, ConfirmOps)
  <2>1. PICK late : Start(c, [op |-> "channel_confirm", event |-> e, late |-> late])
    BY <1>1 DEF ConfirmChannelCandidate
  <2> QED
    BY <2>1, StepsTake DEF ConfirmOps
<1>2. ASSUME NEW c \in Callers, ConfirmedInTx(c) PROVE Takes(c, ConfirmOps)
  BY <1>2, StepsTake DEF ConfirmedInTx, ConfirmOps
<1> QED
  BY <1>1, <1>2 DEF ConfirmNext, CallsTake

\* A confirmation is refused once a retraction is stored, and what it makes of
\* an open prospect is in the ledger.
Answered ==
    \A d \in ledger' \ ledger, e \in ChannelEvents : d.key = ChannelKey(e) =>
        \E c \in Callers : At(c, "channel_confirm") /\ calls[c].event = e /\ ~calls[c].late

LEMMA ConfirmationsKeep ==
    ASSUME DeskInv, SubmissionsSound, ProspectsSound, ReadsSound, ConfirmNext
    PROVE  ProspectsSound' /\ ReadsSound' /\ Answered
<1>1. DOMAIN calls = Callers
  BY DEF DeskInv, CallsSound
<1>2. ASSUME NEW c \in Callers, NEW e \in DOMAIN prospects, ConfirmChannelCandidate(c, e)
      PROVE  ProspectsSound' /\ ReadsSound' /\ Answered
  <2>1. UNCHANGED <<ledger, interactions, prospects, withdrawn>>
    BY <1>2 DEF ConfirmChannelCandidate, deskVars, channelVars
  <2>2. e \notin withdrawn
    BY <1>2 DEF ConfirmChannelCandidate, ProspectsSound
  <2>3. PICK late : ~late /\ calls' = [calls EXCEPT ![c] = [op |-> "channel_confirm", event |-> e, late |-> late]]
    BY <1>2, <2>2 DEF ConfirmChannelCandidate, Start
  <2> DEFINE call == [op |-> "channel_confirm", event |-> e, late |-> late]
  <2>4. calls' = [calls EXCEPT ![c] = call] /\ call.op = "channel_confirm" /\ ~call.late
    BY <2>3
  <2> HIDE DEF call
  <2>5. ReadSound(call)'
    BY <2>4 DEF ReadSound
  <2> QED
    BY <1>1, <2>1, <2>4, <2>5, ProspectsRest, ReadsWait DEF Answered
<1>3. ASSUME NEW c \in Callers, ConfirmedInTx(c)
      PROVE  ProspectsSound' /\ ReadsSound' /\ Answered
  <2> DEFINE e == calls[c].event
             key == ChannelKey(e)
             content == [phone |-> NoPhone, event |-> e]
             facts == [phone |-> NoPhone, bad |-> {}, region |-> Anywhere]
             confirm(lead) == prospects' = IF prospects[e].status = "open"
                                           THEN Put(prospects, e, [status |-> "confirmed", lead |-> lead]) ELSE prospects
  <2>1. calls[c].op = "channel_confirm" /\ Finish(c) /\ UNCHANGED <<interactions, withdrawn>>
    BY <1>3 DEF ConfirmedInTx, At
  <2>2. ledger \subseteq ledger' /\ \A d \in ledger' \ ledger : d.key = key
    <3>1. UNCHANGED merges
      BY <1>3 DEF ConfirmedInTx
    <3> QED
      BY <1>3, <3>1, ChannelOrigins
  <2>3. \E lead : confirm(lead) /\ \E d \in ledger' : d.key = key /\ d.lead = lead
    <3>1. \/ \E o \in Original(key) : confirm(o.lead) /\ UNCHANGED ledger
          \/ FirstIntake(key, content, facts, Len(sourceRefs'), FALSE) /\ confirm(Len(leads'))
      BY <1>3 DEF ConfirmedInTx
    <3>2. ASSUME FirstIntake(key, content, facts, Len(sourceRefs'), FALSE)
          PROVE  \E d \in ledger' : d.key = key /\ d.lead = Len(leads')
      <4> HIDE DEF key, content, facts
      <4>1. TakenIn(key, content, facts, Len(sourceRefs'))
        BY <3>2 DEF TakenIn
      <4> QED
        BY <4>1, Ledgered DEF DeskInv
    <3> HIDE DEF confirm, key, content, facts
    <3> QED
      BY <3>1, <3>2 DEF Original
  <2>4. PICK lead : confirm(lead) /\ \E d \in ledger' : d.key = key /\ d.lead = lead
    BY <2>3
  <2> DEFINE row == [status |-> "confirmed", lead |-> lead]
  <2>5. row.lead = lead /\ {"status", "lead"} \subseteq DOMAIN row
    OBVIOUS
  <2> HIDE DEF row
  <2>6. \/ UNCHANGED prospects
        \/ /\ DOMAIN prospects' = DOMAIN prospects \cup {e}
           /\ \A f \in DOMAIN prospects' : prospects'[f] = IF f = e THEN row ELSE prospects[f]
    BY <2>4 DEF Put, row
  <2>7. ProspectsSound' /\ EventsGrow
    <3>1. DOMAIN prospects \subseteq DOMAIN prospects'
      BY <2>6
    <3>2. ASSUME NEW f \in DOMAIN prospects', prospects'[f].status = "confirmed"
          PROVE  \E d \in ledger' : d.key = ChannelKey(f) /\ d.lead = prospects'[f].lead
      BY <2>2, <2>4, <2>5, <2>6, <3>2 DEF ProspectsSound
    <3>3. \A f \in DOMAIN prospects' : {"status", "lead"} \subseteq DOMAIN prospects'[f]
      BY <2>5, <2>6 DEF ProspectsSound
    <3> QED
      BY <2>1, <3>1, <3>2, <3>3 DEF ProspectsSound, EventsGrow
  <2>8. ReadsSound'
    <3>1. CallsTake({"idle"})
      BY <2>1, StepsTake DEF CallsTake
    <3> QED
      BY <1>1, <2>7, <3>1, OthersRead
  <2>9. Answered
    <3>1. ~calls[c].late
      BY <2>1 DEF ReadsSound, ReadSound
    <3>2. \A f : ChannelKey(f) = key => f = e
      BY DEF ChannelKey
    <3> HIDE DEF key
    <3> QED
      BY <2>1, <2>2, <3>1, <3>2 DEF Answered, At
  <2> QED
    BY <2>7, <2>8, <2>9
<1> QED
  BY <1>2, <1>3 DEF ConfirmNext

\* What a delivery makes of an event.
LEMMA Delivered ==
    ASSUME ProspectsSound, ReadsSound, NEW c \in Callers, StoreChannelEvent(c), UNCHANGED ledger
    PROVE  ProspectsSound' /\ EventsGrow
<1> DEFINE post == calls[c].post
           prior == calls[c].prior
           e == post.event
           opens == OpensCandidate(post, prior)
           base == IF Creates(post, prior)
                   THEN [text |-> post.text, retracted |-> post.retracted, candidate |-> FALSE]
                   ELSE IF Updates(post, prior) THEN Edited(interactions[e], post.text)
                   ELSE [interactions[e] EXCEPT !.retracted = @ \/ post.retracted]
           row == [base EXCEPT !.candidate = @ \/ opens]
           gone == [prospects[e] EXCEPT !.status = "withdrawn"]
           takenBack == WithdrawsCandidate(post, prior) /\ prospects[e].status = "open"
<1>1. \A p \in prior : e \in DOMAIN interactions /\ (p.candidate => e \in DOMAIN prospects)
  BY DEF StoreChannelEvent, At, ReadsSound, ReadSound
<1>2. \/ UNCHANGED <<interactions, prospects, withdrawn>>
      \/ /\ prior = {} => e \notin DOMAIN interactions
         /\ interactions' = Put(interactions, e, row)
         /\ prospects' = IF opens THEN Put(prospects, e, [status |-> "open", lead |-> 0])
                         ELSE IF takenBack THEN Put(prospects, e, gone) ELSE prospects
         /\ withdrawn' = IF post.retracted THEN withdrawn \cup {e} ELSE withdrawn
  BY DEF StoreChannelEvent, Received, Collides, Creates
<1>3. CASE UNCHANGED <<interactions, prospects, withdrawn>>
  BY <1>3, ProspectsRest
<1>4. CASE /\ prior = {} => e \notin DOMAIN interactions
           /\ interactions' = Put(interactions, e, row)
           /\ prospects' = IF opens THEN Put(prospects, e, [status |-> "open", lead |-> 0])
                           ELSE IF takenBack THEN Put(prospects, e, gone) ELSE prospects
           /\ withdrawn' = IF post.retracted THEN withdrawn \cup {e} ELSE withdrawn
  <2>1. /\ {"text", "retracted", "candidate"} \subseteq DOMAIN base
        /\ post.retracted => base.retracted
        /\ e \in DOMAIN interactions /\ interactions[e].retracted => base.retracted
        /\ base.candidate => e \in DOMAIN interactions /\ interactions[e].candidate
    <3>1. CASE prior = {}
      <4>1. base = [text |-> post.text, retracted |-> post.retracted, candidate |-> FALSE]
        BY <3>1 DEF Creates
      <4>2. e \notin DOMAIN interactions
        BY <1>4, <3>1
      <4> HIDE <1>4
      <4> QED
        BY <4>1, <4>2
    <3>2. CASE prior # {}
      <4>1. e \in DOMAIN interactions /\ {"text", "retracted", "candidate"} \subseteq DOMAIN interactions[e]
        BY <1>1, <3>2 DEF ProspectsSound
      <4>2. \/ ~post.retracted /\ base = [interactions[e] EXCEPT !.text = post.text]
            \/ base = [interactions[e] EXCEPT !.retracted = @ \/ post.retracted]
        BY <3>2 DEF Creates, Updates, Edited
      <4> HIDE DEF base
      <4> QED
        BY <4>1, <4>2
    <3> QED
      BY <3>1, <3>2
  <2> HIDE DEF base
  <2>2. /\ {"text", "retracted", "candidate"} \subseteq DOMAIN row
        /\ base.retracted => row.retracted
        /\ row.candidate => opens \/ base.candidate
    BY <2>1
  <2> HIDE DEF row, opens
  <2>3. /\ DOMAIN interactions' = DOMAIN interactions \cup {e}
        /\ \A f \in DOMAIN interactions' : interactions'[f] = IF f = e THEN row ELSE interactions[f]
    BY <1>4 DEF Put
  <2>4. takenBack => e \in DOMAIN prospects /\ {"status", "lead"} \subseteq DOMAIN gone /\ gone.status # "confirmed"
    <3>1. takenBack => e \in DOMAIN prospects
      BY <1>1 DEF WithdrawsCandidate
    <3> QED
      BY <3>1 DEF ProspectsSound
  <2>5. PICK new : /\ {"status", "lead"} \subseteq DOMAIN new /\ new.status # "confirmed"
                   /\ \/ UNCHANGED prospects /\ ~opens
                      \/ prospects' = Put(prospects, e, new)
    <3>1. CASE opens
      <4> DEFINE first == [status |-> "open", lead |-> 0]
      <4>1. {"status", "lead"} \subseteq DOMAIN first /\ first.status # "confirmed"
        OBVIOUS
      <4> QED
        BY <1>4, <3>1, <4>1
    <3>2. CASE ~opens /\ takenBack
      <4> HIDE DEF takenBack, gone
      <4> QED
        BY <1>4, <2>4, <3>2
    <3>3. CASE ~opens /\ ~takenBack
      <4> DEFINE none == [status |-> "open", lead |-> 0]
      <4>1. {"status", "lead"} \subseteq DOMAIN none /\ none.status # "confirmed"
        OBVIOUS
      <4> HIDE DEF takenBack, gone
      <4> QED
        BY <1>4, <3>3, <4>1
    <3> QED
      BY <3>1, <3>2, <3>3
  <2>6. /\ DOMAIN prospects \subseteq DOMAIN prospects' /\ (opens => e \in DOMAIN prospects')
        /\ \A f \in DOMAIN prospects' :
             \/ f \in DOMAIN prospects /\ prospects'[f] = prospects[f]
             \/ {"status", "lead"} \subseteq DOMAIN prospects'[f] /\ prospects'[f].status # "confirmed"
    BY <2>5 DEF Put
  <2>7. \A f \in DOMAIN interactions' : /\ {"text", "retracted", "candidate"} \subseteq DOMAIN interactions'[f]
                                        /\ interactions'[f].candidate => f \in DOMAIN prospects'
    BY <2>1, <2>2, <2>3, <2>6 DEF ProspectsSound
  <2>8. \A f \in withdrawn' : f \in DOMAIN interactions' /\ interactions'[f].retracted
    BY <1>4, <2>1, <2>2, <2>3 DEF ProspectsSound
  <2> QED
    BY <2>3, <2>6, <2>7, <2>8 DEF ProspectsSound, EventsGrow
<1> QED
  BY <1>2, <1>3, <1>4

LEMMA DeliveriesKeep ==
    ASSUME DeskInv, ProspectsSound, ReadsSound, ChannelNext, UNCHANGED ledger
    PROVE  ProspectsSound' /\ ReadsSound'
<1>1. DOMAIN calls = Callers
  BY DEF DeskInv, CallsSound
<1>2. ASSUME NEW c \in Callers, NEW call, calls' = [calls EXCEPT ![c] = call],
             UNCHANGED <<interactions, prospects, withdrawn>>,
             call.op \in {"channel_prior", "channel_floor", "channel_store"},
             call.op # "channel_prior" =>
               \A p \in call.prior : /\ call.post.event \in DOMAIN interactions
                                     /\ p.candidate => call.post.event \in DOMAIN prospects
      PROVE  ProspectsSound' /\ ReadsSound'
  <2>1. ReadSound(call)'
    BY <1>2 DEF ReadSound
  <2> QED
    BY <1>1, <1>2, <2>1, ProspectsRest, ReadsWait
<1>3. ASSUME NEW c \in Callers, NEW post, IngestChannelEvent(c, post) PROVE ProspectsSound' /\ ReadsSound'
  <2>1. PICK may : Start(c, [op |-> "channel_prior", post |-> post, mayReply |-> may])
    BY <1>3 DEF IngestChannelEvent
  <2> DEFINE call == [op |-> "channel_prior", post |-> post, mayReply |-> may]
  <2>2. calls' = [calls EXCEPT ![c] = call] /\ call.op = "channel_prior"
    BY <2>1 DEF Start
  <2>3. UNCHANGED <<interactions, prospects, withdrawn>>
    BY <1>3 DEF IngestChannelEvent, channelVars
  <2> HIDE DEF call
  <2> QED
    BY <1>2, <2>2, <2>3
<1>4. ASSUME NEW c \in Callers, LoadChannelPrior(c) PROVE ProspectsSound' /\ ReadsSound'
  <2> DEFINE post == calls[c].post
             call == [op |-> "channel_floor", post |-> post, mayReply |-> calls[c].mayReply,
                      prior |-> Stored(interactions, post.event)]
  <2>1. calls' = [calls EXCEPT ![c] = call] /\ UNCHANGED <<interactions, prospects, withdrawn>>
    BY <1>4 DEF LoadChannelPrior, Proceed, channelVars
  <2>2. call.op = "channel_floor" /\ call.post = post /\ call.prior = Stored(interactions, post.event)
    OBVIOUS
  <2> HIDE DEF call
  <2>3. \A p \in call.prior : /\ call.post.event \in DOMAIN interactions
                              /\ p.candidate => call.post.event \in DOMAIN prospects
    BY <2>2 DEF Stored, ProspectsSound
  <2> QED
    BY <1>2, <2>1, <2>2, <2>3
<1>5. ASSUME NEW c \in Callers, LoadChannelFloor(c) PROVE ProspectsSound' /\ ReadsSound'
  <2>1. PICK takes : Proceed(c, [op |-> "channel_store", post |-> calls[c].post, prior |-> calls[c].prior,
                                 takesFloor |-> takes])
    BY <1>5 DEF LoadChannelFloor
  <2> DEFINE call == [op |-> "channel_store", post |-> calls[c].post, prior |-> calls[c].prior, takesFloor |-> takes]
  <2>2. calls' = [calls EXCEPT ![c] = call] /\ UNCHANGED <<interactions, prospects, withdrawn>>
    BY <1>5, <2>1 DEF LoadChannelFloor, Proceed, channelVars
  <2>3. call.op = "channel_store" /\ call.post = calls[c].post /\ call.prior = calls[c].prior
    OBVIOUS
  <2> HIDE DEF call
  <2>4. \A p \in call.prior : /\ call.post.event \in DOMAIN interactions
                              /\ p.candidate => call.post.event \in DOMAIN prospects
    BY <1>5, <2>3 DEF LoadChannelFloor, At, ReadsSound, ReadSound
  <2> QED
    BY <1>2, <2>2, <2>3, <2>4
<1>6. ASSUME NEW c \in Callers, StoreChannelEvent(c) PROVE ProspectsSound' /\ ReadsSound'
  <2>1. ProspectsSound' /\ EventsGrow
    BY <1>6, Delivered
  <2>2. CallsTake({"idle"})
    BY <1>6, StepsTake DEF StoreChannelEvent, CallsTake
  <2> QED
    BY <1>1, <2>1, <2>2, OthersRead
<1>7. ASSUME NEW can, NEW holder, SaveChannelGrant(can) \/ RevokeChannelGrant \/ SetChannelFloor(holder)
      PROVE  ProspectsSound' /\ ReadsSound'
  <2>1. UNCHANGED <<calls, interactions, prospects, withdrawn>>
    BY <1>7 DEF SaveChannelGrant, RevokeChannelGrant, SetChannelFloor, AtOnce
  <2> QED
    BY <1>1, <2>1, ProspectsRest, ReadsWait
<1> QED
  BY <1>3, <1>4, <1>5, <1>6, <1>7 DEF ChannelNext

\* Nobody but the channel writes interactions and prospects.
LEMMA ProspectsKeep ==
    ASSUME DeskInv, SubmissionsSound, CompaniesSound, ProspectsSound, ReadsSound, [Next]_vars
    PROVE  ProspectsSound' /\ ReadsSound' /\ Answered
<1>1. DOMAIN calls = Callers /\ CallsSound
  BY DEF DeskInv, CallsSound
<1>2. ASSUME UNCHANGED channelVars, ledger \subseteq ledger',
             \A d \in ledger' \ ledger : d.key[1] \in {"event", "form", "company"},
             NEW ops \in {IntakeOps, FormOps, PoolOps, FollowOps, ContactOps, {"idle"}}, CallsTake(ops)
      PROVE  ProspectsSound' /\ ReadsSound' /\ Answered
  <2>1. UNCHANGED <<interactions, prospects, withdrawn>>
    BY <1>2 DEF channelVars
  <2>2. ops \cap {"channel_floor", "channel_store", "channel_confirm"} = {}
    BY <1>2 DEF IntakeOps, FormOps, PoolOps, FollowOps, ContactOps
  <2>3. Answered
    BY <1>2 DEF Answered, ChannelKey
  <2> QED
    BY <1>1, <1>2, <2>1, <2>2, <2>3, ProspectsRest, OthersRead
<1>3. ASSUME UNCHANGED deskVars PROVE UNCHANGED ledger
  BY <1>3 DEF deskVars
<1>4. CASE UNCHANGED vars
  BY <1>2, <1>3, <1>4 DEF vars, requestVars, CallsTake
<1>5. CASE IntakeNext /\ UNCHANGED <<merges, channelVars>>
  BY <1>1, <1>2, <1>5, IntakeCalls, IntakeOrigins
<1>6. CASE FormNext /\ UNCHANGED <<deskVars, channelVars>>
  BY <1>2, <1>3, <1>6, FormCalls
<1>7. CASE PoolNext /\ UNCHANGED <<deskVars, channelVars>>
  BY <1>2, <1>3, <1>7, PoolCalls
<1>8. ASSUME NEW c \in Callers, Abandon(c), UNCHANGED <<deskVars, channelVars>>
      PROVE  ProspectsSound' /\ ReadsSound' /\ Answered
  <2>1. CallsTake({"idle"})
    BY <1>8, StepsTake DEF Abandon, CallsTake
  <2> QED
    BY <1>2, <1>3, <1>8, <2>1
<1>9. CASE ChannelNext /\ UNCHANGED deskVars
  BY <1>3, <1>9, DeliveriesKeep DEF Answered
<1>10. CASE ConfirmNext
  BY <1>10, ConfirmationsKeep
<1>11. CASE EnterpriseNext /\ UNCHANGED <<merges, channelVars>>
  <2>1. UNCHANGED calls
    BY <1>11 DEF EnterpriseNext, Import, Confirm, Suppress, AtOnce
  <2>2. UNCHANGED ledger \/ \E e \in DOMAIN companies : Confirm(e)
    BY <1>11 DEF EnterpriseNext, Import, Suppress, deskVars
  <2>3. ASSUME NEW e, Confirm(e)
        PROVE  ledger \subseteq ledger' /\ \A d \in ledger' \ ledger : d.key[1] = "company"
    BY <1>11, <2>3, CompanyOrigins DEF Confirm, CompanyKey
  <2> QED
    BY <1>2, <1>11, <2>1, <2>2, <2>3 DEF CallsTake
<1>12. CASE FollowNext /\ UNCHANGED <<deskVars, channelVars>>
  BY <1>1, <1>2, <1>3, <1>12, FollowCalls
<1>13. CASE ContactNext /\ UNCHANGED <<forms, channelVars>>
  <2>1. UNCHANGED ledger
    BY <1>13, ContactsWork
  <2> QED
    BY <1>2, <1>13, <2>1, ContactCalls
<1> QED
  BY <1>4, <1>5, <1>6, <1>7, <1>8, <1>9, <1>10, <1>11, <1>12, <1>13 DEF Next, DeskNext

-----------------------------------------------------------------------------
(* Follow-ups.                                                             *)

RowsSound ==
    /\ IsSeq(followUps) /\ \A i \in DOMAIN followUps : {"key", "contact", "done"} \subseteq DOMAIN followUps[i]
    /\ DOMAIN seenDone = Callers

ThroughOps == {"through_list", "through_store", "through_close", "through_mark", "through_finish"}

ThroughFields == {"op", "key", "lead", "contact", "want", "row", "todo", "older"}

\* What a request knows: the rows a follow-through found are of its person, and
\* once it has listed them each was seen done or is still to close.
ThroughSound(call, seen) ==
    /\ call.op = "follow_new" => {"key", "contact", "done"} \subseteq DOMAIN call.row /\ call.row.key = Once
    /\ call.op \in ThroughOps => ThroughFields \subseteq DOMAIN call
    /\ call.op = "through_list" => \A i \in call.older : i \in DOMAIN followUps /\ followUps[i].contact = call.contact
    /\ call.op = "through_store" => ~call.want.complete
    /\ call.op = "through_close" => call.older \subseteq seen \cup call.todo

FollowSound == RowsSound /\ \A c \in Callers : ThroughSound(calls[c], seenDone[c])

\* Follow-ups are added one at a time and keep the person.
FollowUpsGrow ==
    /\ DOMAIN followUps \subseteq DOMAIN followUps'
    /\ \A i \in DOMAIN followUps : followUps'[i].contact = followUps[i].contact

\* A row that is new answers a follow-through under way, or has no key.
Followed ==
    \A i \in DOMAIN followUps' \ DOMAIN followUps :
        LET key == followUps'[i].key IN
        key # Once =>
            /\ Asked(key) = {}
            /\ \E c \in Callers :
                /\ calls[c] # Idle /\ calls'[c] # calls[c] /\ calls[c].key = key
                /\ calls[c].want.complete => calls[c].older \subseteq seenDone[c]

\* A call that goes on as it was knows what it knew.
LEMMA KnowsStill ==
    ASSUME NEW call, NEW seen, NEW more, ThroughSound(call, seen), seen \subseteq more, FollowUpsGrow
    PROVE  ThroughSound(call, more)'
  BY DEF ThroughSound, FollowUpsGrow

LEMMA Remembered ==
    ASSUME Remember
    PROVE  /\ DOMAIN seenDone' = Callers
           /\ \A c \in Callers : /\ Done(followUps') \subseteq seenDone'[c]
                                 /\ calls[c] # Idle => seenDone[c] \subseteq seenDone'[c]
  BY DEF Remember

LEMMA FollowWait ==
    ASSUME FollowSound, CallsSound, FollowUpsGrow, RowsSound', Remember,
           \/ UNCHANGED calls
           \/ \E c \in Callers : \E call : /\ calls' = [calls EXCEPT ![c] = call]
                                           /\ \A seen : seen = seenDone'[c] => ThroughSound(call, seen)'
    PROVE  FollowSound'
<1>1. DOMAIN calls = Callers
  BY DEF CallsSound
<1>2. ASSUME NEW c \in Callers, calls'[c] = calls[c] PROVE ThroughSound(calls[c], seenDone[c])'
  <2>1. CASE calls[c] = Idle
    <3>1. calls'[c].op = "idle"
      BY <1>2, <2>1 DEF Idle
    <3> QED
      BY <3>1 DEF ThroughSound, ThroughOps
  <2>2. CASE calls[c] # Idle
    <3>1. seenDone[c] \subseteq seenDone'[c]
      BY <2>2, Remembered
    <3>2. PICK call, seen, more : call = calls[c] /\ seen = seenDone[c] /\ more = seenDone'[c]
      OBVIOUS
    <3>3. ThroughSound(call, more)'
      BY <3>1, <3>2, KnowsStill DEF FollowSound
    <3> QED
      BY <1>2, <3>2, <3>3 DEF ThroughSound
  <2> QED
    BY <2>1, <2>2
<1>3. CASE UNCHANGED calls
  BY <1>2, <1>3 DEF FollowSound
<1>4. ASSUME NEW c \in Callers, NEW call, calls' = [calls EXCEPT ![c] = call],
             \A seen : seen = seenDone'[c] => ThroughSound(call, seen)'
      PROVE  FollowSound'
  <2>1. \A d \in Callers : calls'[d] = IF d = c THEN call ELSE calls[d]
    BY <1>1, <1>4
  <2>2. ThroughSound(calls[c], seenDone[c])'
    BY <1>4, <2>1 DEF ThroughSound
  <2>3. \A d \in Callers : ThroughSound(calls[d], seenDone[d])'
    BY <1>2, <2>1, <2>2
  <2> QED
    BY <2>3 DEF FollowSound
<1> QED
  BY <1>3, <1>4

\* Requests elsewhere know nothing of follow-ups.
LEMMA OthersFollow ==
    ASSUME FollowSound, CallsSound, UNCHANGED followUps, Remember, NEW ops, CallsTake(ops),
           ops \cap (ThroughOps \cup {"follow_new"}) = {}
    PROVE  FollowSound' /\ Followed
<1>1. RowsSound' /\ FollowUpsGrow
  BY Remembered DEF FollowSound, RowsSound, FollowUpsGrow
<1>2. ASSUME NEW call, NEW seen, call.op \in ops PROVE ThroughSound(call, seen)'
  BY <1>2 DEF ThroughSound, ThroughOps
<1> QED
  BY <1>1, <1>2, FollowWait DEF CallsTake, Takes, Followed

\* A write of one row that leaves its key and person alone.
LEMMA RowWritten ==
    ASSUME RowsSound, NEW i, NEW row, followUps' = [followUps EXCEPT ![i] = row], Remember,
           i \in DOMAIN followUps => /\ {"key", "contact", "done"} \subseteq DOMAIN row
                                     /\ row.contact = followUps[i].contact
    PROVE  RowsSound' /\ FollowUpsGrow /\ DOMAIN followUps' = DOMAIN followUps
<1>1. /\ IsSeq(followUps') /\ DOMAIN followUps' = DOMAIN followUps
      /\ \A j \in DOMAIN followUps : followUps'[j] = IF j = i THEN row ELSE followUps[j]
  BY Replaced DEF RowsSound
<1> QED
  BY <1>1, Remembered DEF RowsSound, FollowUpsGrow

LEMMA RowAdded ==
    ASSUME RowsSound, NEW row, followUps' = Append(followUps, row), Remember,
           {"key", "contact", "done"} \subseteq DOMAIN row
    PROVE  /\ RowsSound' /\ FollowUpsGrow
           /\ \A i \in DOMAIN followUps' \ DOMAIN followUps : followUps'[i] = row
<1>1. /\ IsSeq(followUps') /\ DOMAIN followUps' = DOMAIN followUps \cup {Len(followUps) + 1}
      /\ followUps'[Len(followUps) + 1] = row /\ \A i \in DOMAIN followUps : followUps'[i] = followUps[i]
  BY Appended DEF RowsSound
<1> QED
  BY <1>1, Remembered DEF RowsSound, FollowUpsGrow

LEMMA NothingWritten ==
    ASSUME RowsSound, UNCHANGED followUps, Remember
    PROVE  RowsSound' /\ FollowUpsGrow /\ DOMAIN followUps' = DOMAIN followUps
  BY Remembered DEF RowsSound, FollowUpsGrow

LEMMA RowCompleted ==
    ASSUME RowsSound, NEW i, followUps' = Completed(followUps, i), Remember
    PROVE  /\ RowsSound' /\ FollowUpsGrow /\ DOMAIN followUps' = DOMAIN followUps
           /\ i \in DOMAIN followUps => followUps'[i].done
<1> DEFINE row == [followUps[i] EXCEPT !.done = TRUE]
<1>1. followUps' = [followUps EXCEPT ![i] = row]
  BY DEF Completed
<1>2. i \in DOMAIN followUps => /\ {"key", "contact", "done"} \subseteq DOMAIN row
                                /\ row.contact = followUps[i].contact /\ row.done
  BY DEF RowsSound
<1> HIDE DEF row
<1>3. RowsSound' /\ FollowUpsGrow /\ DOMAIN followUps' = DOMAIN followUps
  BY <1>1, <1>2, RowWritten
<1>4. i \in DOMAIN followUps => followUps'[i] = row
  BY <1>1
<1> QED
  BY <1>2, <1>3, <1>4

\* A request that goes on with no row added.
LEMMA GoesOn ==
    ASSUME FollowSound, CallsSound, RowsSound', FollowUpsGrow, DOMAIN followUps' = DOMAIN followUps, Remember,
           NEW c \in Callers, NEW call, calls' = [calls EXCEPT ![c] = call],
           \A seen : seen = seenDone'[c] => ThroughSound(call, seen)'
    PROVE  FollowSound' /\ Followed
<1>1. FollowSound'
  BY FollowWait
<1> QED
  BY <1>1 DEF Followed

LEMMA Marked == ASSUME NEW call, NEW seen, call.op \in {"idle", "follow_patch"} PROVE ThroughSound(call, seen)'
  BY DEF ThroughSound, ThroughOps

LEMMA SingleRows ==
    ASSUME FollowSound, CallsSound, Remember, NEW c \in Callers,
           \/ \E m, l, next : BeginFollowUp(c, m, l, next)
           \/ \E m, i, next : PatchFollowUp(c, m, i, next)
           \/ CreateFollowUp(c) \/ UpdateFollowUp(c)
    PROVE  FollowSound' /\ Followed
<1>1. RowsSound
  BY DEF FollowSound
<1>2. ASSUME NEW m, NEW l, NEW next, BeginFollowUp(c, m, l, next) PROVE FollowSound' /\ Followed
  <2>1. PICK contact : Start(c, [op |-> "follow_new", row |-> NewFollowUp(Once, contact, l, next)])
    BY <1>2 DEF BeginFollowUp
  <2> DEFINE row == NewFollowUp(Once, contact, l, next)
             call == [op |-> "follow_new", row |-> row]
  <2>2. UNCHANGED followUps /\ calls' = [calls EXCEPT ![c] = call]
    BY <1>2, <2>1 DEF BeginFollowUp, Start
  <2>3. call.op = "follow_new" /\ call.row = row /\ row.key = Once /\ {"key", "contact", "done"} \subseteq DOMAIN row
    BY DEF NewFollowUp
  <2> HIDE DEF row, call
  <2>4. \A seen : ThroughSound(call, seen)'
    BY <2>3 DEF ThroughSound, ThroughOps
  <2> QED
    BY <1>1, <2>2, <2>4, NothingWritten, GoesOn
<1>3. ASSUME NEW m, NEW i, NEW next, PatchFollowUp(c, m, i, next) PROVE FollowSound' /\ Followed
  <2> DEFINE call == [op |-> "follow_patch", row |-> i, next |-> next]
  <2>1. UNCHANGED followUps /\ calls' = [calls EXCEPT ![c] = call] /\ call.op = "follow_patch"
    BY <1>3 DEF PatchFollowUp, Start
  <2> HIDE DEF call
  <2>2. \A seen : ThroughSound(call, seen)'
    BY <2>1, Marked
  <2> QED
    BY <1>1, <2>1, <2>2, NothingWritten, GoesOn
<1>4. CASE CreateFollowUp(c)
  <2> DEFINE row == calls[c].row
  <2>1. followUps' = Append(followUps, row) /\ calls' = [calls EXCEPT ![c] = Idle]
    BY <1>4 DEF CreateFollowUp, Finish, Proceed
  <2>2. {"key", "contact", "done"} \subseteq DOMAIN row /\ row.key = Once
    BY <1>4 DEF FollowSound, ThroughSound, CreateFollowUp, At
  <2> HIDE DEF row
  <2>3. /\ RowsSound' /\ FollowUpsGrow
        /\ \A i \in DOMAIN followUps' \ DOMAIN followUps : followUps'[i] = row
    BY <1>1, <2>1, <2>2, RowAdded
  <2>4. \A seen : ThroughSound(Idle, seen)'
    BY Marked DEF Idle
  <2>5. FollowSound'
    BY <2>1, <2>3, <2>4, FollowWait
  <2> QED
    BY <2>2, <2>3, <2>5 DEF Followed
<1>5. CASE UpdateFollowUp(c)
  <2> DEFINE i == calls[c].row
             row == [followUps[i] EXCEPT !.next = calls[c].next]
  <2>1. followUps' = [followUps EXCEPT ![i] = row] /\ calls' = [calls EXCEPT ![c] = Idle]
    BY <1>5 DEF UpdateFollowUp, Finish, Proceed
  <2>2. i \in DOMAIN followUps => /\ {"key", "contact", "done"} \subseteq DOMAIN row
                                  /\ row.contact = followUps[i].contact
    BY <1>1 DEF RowsSound
  <2> HIDE DEF row, i
  <2>3. RowsSound' /\ FollowUpsGrow /\ DOMAIN followUps' = DOMAIN followUps
    BY <1>1, <2>1, <2>2, RowWritten
  <2>4. \A seen : ThroughSound(Idle, seen)'
    BY Marked DEF Idle
  <2> QED
    BY <2>1, <2>3, <2>4, GoesOn
<1> QED
  BY <1>2, <1>3, <1>4, <1>5

\* A follow-through that begins.
LEMMA ThroughBegins ==
    ASSUME FollowSound, CallsSound, Remember, NEW c \in Callers,
           NEW m, NEW l \in DOMAIN leads, NEW want, FollowThrough(c, m, l, want)
    PROVE  FollowSound' /\ Followed
<1> DEFINE key == FollowThroughKey(m, l, want)
           call(op, row, older) == [op |-> op, key |-> key, lead |-> l, contact |-> leads[l].contact, want |-> want,
                                    row |-> row, todo |-> {}, older |-> older]
<1>1. PICK op, row, older :
        /\ Start(c, call(op, row, older))
        /\ op = "through_list" \/ (op = "through_store" /\ ~want.complete) \/ op = "through_mark"
        /\ older = {i \in DOMAIN followUps : followUps[i].contact = leads[l].contact}
  BY DEF FollowThrough
<1>2. PICK new : new = call(op, row, older)
  OBVIOUS
<1>3. /\ new.op = op /\ new.contact = leads[l].contact /\ new.want = want /\ new.older = older
      /\ ThroughFields \subseteq DOMAIN new
      /\ UNCHANGED followUps /\ calls' = [calls EXCEPT ![c] = new]
  BY <1>1, <1>2 DEF ThroughFields, FollowThrough, Start
<1> HIDE DEF call, key
<1>4. \A i \in older : i \in DOMAIN followUps' /\ followUps'[i].contact = new.contact
  BY <1>1, <1>3
<1>5. \A seen : ThroughSound(new, seen)'
  BY <1>1, <1>3, <1>4 DEF ThroughSound, ThroughOps
<1>6. RowsSound' /\ FollowUpsGrow /\ DOMAIN followUps' = DOMAIN followUps
  BY <1>3, NothingWritten DEF FollowSound
<1> QED
  BY <1>3, <1>5, <1>6, GoesOn

LEMMA ThroughCloses ==
    ASSUME FollowSound, CallsSound, Remember, NEW c \in Callers,
           ListOpen(c) \/ \E i \in DOMAIN followUps : CloseOpen(c, i)
    PROVE  FollowSound' /\ Followed
<1>1. RowsSound /\ \A i \in Done(followUps') : i \in seenDone'[c]
  BY Remembered DEF FollowSound
<1>2. CASE ListOpen(c)
  <2> DEFINE old == calls[c]
  <2>1. /\ old.op = "through_list" /\ UNCHANGED followUps
        /\ calls' = [calls EXCEPT ![c] = [old EXCEPT !.op = "through_close", !.todo = Open(old)]]
    BY <1>2 DEF ListOpen, At, Proceed
  <2>2. /\ ThroughFields \subseteq DOMAIN old
        /\ \A i \in old.older : i \in DOMAIN followUps /\ followUps[i].contact = old.contact
    BY <2>1 DEF FollowSound, ThroughSound, ThroughOps
  <2>3. old.older \subseteq seenDone'[c] \cup Open(old)
    BY <1>1, <2>1, <2>2 DEF Open, Done
  <2>4. PICK todo, call :
          /\ call = [old EXCEPT !.op = "through_close", !.todo = todo] /\ todo = Open(old)
          /\ calls' = [calls EXCEPT ![c] = call]
    BY <2>1
  <2>5. /\ call.op = "through_close" /\ call.older = old.older /\ call.todo = Open(old)
        /\ ThroughFields \subseteq DOMAIN call
    BY <2>2, <2>4
  <2>6. \A seen : seen = seenDone'[c] => ThroughSound(call, seen)'
    BY <2>3, <2>5 DEF ThroughSound, ThroughOps
  <2> QED
    BY <1>1, <2>1, <2>4, <2>6, NothingWritten, GoesOn
<1>3. ASSUME NEW i \in DOMAIN followUps, CloseOpen(c, i) PROVE FollowSound' /\ Followed
  <2> DEFINE old == calls[c]
  <2>1. /\ old.op = "through_close" /\ followUps' = Completed(followUps, i)
        /\ calls' = [calls EXCEPT ![c] = [old EXCEPT !.todo = @ \ {i}]]
    BY <1>3 DEF CloseOpen, At, Proceed
  <2>2. /\ ThroughFields \subseteq DOMAIN old
        /\ old.older \subseteq seenDone[c] \cup old.todo
    BY <2>1 DEF FollowSound, ThroughSound, ThroughOps
  <2>3. RowsSound' /\ FollowUpsGrow /\ DOMAIN followUps' = DOMAIN followUps /\ followUps'[i].done
    BY <1>1, <2>1, RowCompleted
  <2>4. i \in seenDone'[c] /\ seenDone[c] \subseteq seenDone'[c]
    BY <1>1, <2>1, <2>3, Remembered DEF Done, Idle
  <2>5. PICK call : call = [old EXCEPT !.todo = @ \ {i}] /\ calls' = [calls EXCEPT ![c] = call]
    BY <2>1
  <2>6. /\ call.op = "through_close" /\ call.older = old.older /\ call.todo = old.todo \ {i}
        /\ ThroughFields \subseteq DOMAIN call
    BY <2>1, <2>2, <2>5
  <2>7. \A seen : seen = seenDone'[c] => ThroughSound(call, seen)'
    BY <2>2, <2>4, <2>6 DEF ThroughSound, ThroughOps
  <2> QED
    BY <2>3, <2>5, <2>7, GoesOn
<1> QED
  BY <1>2, <1>3

\* The row of a follow-through is stored, or a twin's is there.
LEMMA ThroughStored ==
    ASSUME FollowSound, CallsSound, Remember, NEW c \in Callers, CreateFollowUpOnce(c)
    PROVE  FollowSound' /\ Followed
<1> DEFINE old == calls[c]
           row == NewFollowUp(old.key, old.contact, old.lead, old.want.next)
<1>1. /\ old.op = "through_store" \/ (old.op = "through_close" /\ old.todo = {})
      /\ followUps' = IF Asked(old.key) # {} THEN followUps ELSE Append(followUps, row)
      /\ \E x : calls' = [calls EXCEPT ![c] = [old EXCEPT !.op = "through_mark", !.row = x]]
  BY DEF CreateFollowUpOnce, At, Proceed
<1>2. /\ ThroughFields \subseteq DOMAIN old
      /\ old.want.complete => old.older \subseteq seenDone[c]
  BY <1>1 DEF FollowSound, ThroughSound, ThroughOps
<1>3. row.key = old.key /\ {"key", "contact", "done"} \subseteq DOMAIN row
  BY DEF NewFollowUp
<1>4. PICK x, call : call = [old EXCEPT !.op = "through_mark", !.row = x] /\ calls' = [calls EXCEPT ![c] = call]
  BY <1>1
<1>5. /\ call.op = "through_mark" /\ ThroughFields \subseteq DOMAIN call
      /\ calls'[c] = call /\ calls[c] # Idle /\ call # old
  BY <1>1, <1>2, <1>4 DEF CallsSound, Idle, ThroughFields
<1>6. \A seen : ThroughSound(call, seen)'
  BY <1>5 DEF ThroughSound, ThroughOps
<1> HIDE DEF row
<1>7. CASE Asked(old.key) # {}
  <2>1. UNCHANGED followUps
    BY <1>1, <1>7
  <2> QED
    BY <1>4, <1>6, <2>1, NothingWritten, GoesOn DEF FollowSound
<1>8. CASE Asked(old.key) = {}
  <2>1. followUps' = Append(followUps, row)
    BY <1>1, <1>8
  <2>2. /\ RowsSound' /\ FollowUpsGrow
        /\ \A i \in DOMAIN followUps' \ DOMAIN followUps : followUps'[i] = row
    BY <1>3, <2>1, RowAdded DEF FollowSound
  <2>3. FollowSound'
    BY <1>4, <1>6, <2>2, FollowWait
  <2>4. Followed
    BY <1>2, <1>3, <1>5, <1>8, <2>2 DEF Followed
  <2> QED
    BY <2>3, <2>4
<1> QED
  BY <1>7, <1>8

LEMMA ThroughEnds ==
    ASSUME FollowSound, CallsSound, Remember, NEW c \in Callers,
           MarkDisposition(c) \/ FinishFollowThrough(c)
    PROVE  FollowSound' /\ Followed
<1> DEFINE i == calls[c].row
<1>1. RowsSound
  BY DEF FollowSound
<1>2. CASE MarkDisposition(c)
  <2> DEFINE row == [followUps[i] EXCEPT !.waiting = TRUE]
             call == [calls[c] EXCEPT !.op = "through_finish"]
  <2>1. /\ calls' = [calls EXCEPT ![c] = call] /\ calls[c].op = "through_mark"
        /\ followUps' = [followUps EXCEPT ![i] = row] \/ UNCHANGED followUps
    BY <1>2 DEF MarkDisposition, At, Proceed
  <2>2. i \in DOMAIN followUps => /\ {"key", "contact", "done"} \subseteq DOMAIN row
                                  /\ row.contact = followUps[i].contact
    BY <1>1 DEF RowsSound
  <2> HIDE DEF row, i
  <2>3. RowsSound' /\ FollowUpsGrow /\ DOMAIN followUps' = DOMAIN followUps
    BY <1>1, <2>1, <2>2, RowWritten, NothingWritten
  <2>4. PICK new : new = call
    OBVIOUS
  <2>5. /\ calls' = [calls EXCEPT ![c] = new] /\ new.op = "through_finish"
        /\ ThroughFields \subseteq DOMAIN new
    BY <2>1, <2>4 DEF FollowSound, ThroughSound, ThroughOps
  <2>6. \A seen : ThroughSound(new, seen)'
    BY <2>5 DEF ThroughSound, ThroughOps
  <2> QED
    BY <2>3, <2>5, <2>6, GoesOn
<1>3. CASE FinishFollowThrough(c)
  <2>1. /\ calls' = [calls EXCEPT ![c] = Idle]
        /\ followUps' = Completed(followUps, i) \/ UNCHANGED followUps
    BY <1>3 DEF FinishFollowThrough, Finish, Proceed
  <2> HIDE DEF i
  <2>2. RowsSound' /\ FollowUpsGrow /\ DOMAIN followUps' = DOMAIN followUps
    BY <1>1, <2>1, RowCompleted, NothingWritten
  <2>3. \A seen : ThroughSound(Idle, seen)'
    BY Marked DEF Idle
  <2> QED
    BY <2>1, <2>2, <2>3, GoesOn
<1> QED
  BY <1>2, <1>3

LEMMA RowsFlip ==
    ASSUME FollowSound, CallsSound, Remember,
           NEW m, NEW i, CompleteFollowUp(m, i) \/ ReopenFollowUp(m, i)
    PROVE  FollowSound' /\ Followed
<1> DEFINE row == [followUps[i] EXCEPT !.done = FALSE]
<1>1. UNCHANGED calls /\ (followUps' = Completed(followUps, i) \/ followUps' = [followUps EXCEPT ![i] = row])
  BY DEF CompleteFollowUp, ReopenFollowUp, AtOnce
<1>2. i \in DOMAIN followUps => {"key", "contact", "done"} \subseteq DOMAIN row /\ row.contact = followUps[i].contact
  BY DEF FollowSound, RowsSound
<1> HIDE DEF row
<1>3. RowsSound' /\ FollowUpsGrow /\ DOMAIN followUps' = DOMAIN followUps
  BY <1>1, <1>2, RowWritten, RowCompleted DEF FollowSound
<1> QED
  BY <1>1, <1>3, FollowWait DEF Followed

LEMMA FollowUpsKeep ==
    ASSUME DeskInv, FollowSound, [Next]_vars
    PROVE  FollowSound' /\ Followed
<1>1. CallsSound
  BY DEF DeskInv
<1>2. ASSUME UNCHANGED followUps, Remember,
             NEW ops \in {IntakeOps, FormOps, PoolOps, ChannelOps, ConfirmOps, ContactOps, {"idle"}}, CallsTake(ops)
      PROVE  FollowSound' /\ Followed
  <2>1. ops \cap (ThroughOps \cup {"follow_new"}) = {}
    BY <1>2 DEF ThroughOps, IntakeOps, FormOps, PoolOps, ChannelOps, ConfirmOps, ContactOps
  <2> QED
    BY <1>1, <1>2, <2>1, OthersFollow
<1>3. CASE UNCHANGED vars
  <2>1. UNCHANGED <<calls, leads, followUps, seenDone>>
    BY <1>3 DEF vars, requestVars, deskVars, followVars
  <2>2. RowsSound' /\ FollowUpsGrow
    BY <2>1 DEF FollowSound, RowsSound, FollowUpsGrow
  <2>3. ASSUME NEW c \in Callers PROVE ThroughSound(calls[c], seenDone[c])'
    BY <2>1 DEF FollowSound, ThroughSound
  <2> QED
    BY <2>1, <2>2, <2>3 DEF FollowSound, Followed
<1>4. CASE IntakeNext /\ UNCHANGED followUps /\ Remember
  BY <1>1, <1>2, <1>4, IntakeCalls
<1>5. CASE FormNext /\ UNCHANGED followUps /\ Remember
  BY <1>2, <1>5, FormCalls
<1>6. CASE PoolNext /\ UNCHANGED followUps /\ Remember
  BY <1>2, <1>6, PoolCalls
<1>7. ASSUME NEW c \in Callers, Abandon(c), UNCHANGED followUps, Remember PROVE FollowSound' /\ Followed
  <2>1. CallsTake({"idle"})
    BY <1>7, StepsTake DEF Abandon, CallsTake
  <2> QED
    BY <1>2, <1>7, <2>1
<1>8. CASE ChannelNext /\ UNCHANGED followUps /\ Remember
  BY <1>2, <1>8, ChannelCalls
<1>9. CASE ConfirmNext /\ UNCHANGED followUps /\ Remember
  BY <1>2, <1>9, ConfirmCalls
<1>10. CASE EnterpriseNext /\ UNCHANGED followUps /\ Remember
  <2>1. UNCHANGED calls
    BY <1>10 DEF EnterpriseNext, Import, Confirm, Suppress, AtOnce
  <2> QED
    BY <1>2, <1>10, <2>1 DEF CallsTake
<1>11. CASE FollowNext /\ Remember
  <2> QED
    BY <1>1, <1>11, SingleRows, ThroughBegins, ThroughCloses, ThroughStored, ThroughEnds, RowsFlip DEF FollowNext
<1>12. CASE ContactNext /\ UNCHANGED followUps /\ Remember
  BY <1>2, <1>12, ContactCalls
<1> QED
  BY <1>3, <1>4, <1>5, <1>6, <1>7, <1>8, <1>9, <1>10, <1>11, <1>12 DEF Next, DeskNext

-----------------------------------------------------------------------------
(* The theorems.                                                           *)

LEMMA DeskStarts == Init => DeskInv
<1> SUFFICES ASSUME Init PROVE DeskInv
  OBVIOUS
<1>1. PICK tenant \in SomeTenants : contacts = tenant.contacts /\ leads = tenant.leads
  BY DEF Init, DeskInit
<1>2. /\ ledger = {} /\ candidates = {} /\ forms \in SomeForms
      /\ entitled = [l \in DOMAIN leads |-> {leads[l].assignee}]
      /\ DOMAIN calls = Callers /\ \A c \in Callers : calls[c] = Idle
  BY DEF Init, DeskInit, Quiet
<1>3. contacts \in Seq(Contact) /\ forms \in Seq(Form)
  BY <1>1, <1>2, DeskAssumption
<1>4. leads \in Seq(Lead)
  BY <1>1, DeskAssumption
<1>5. IsSeq(contacts) /\ IsSeq(forms) /\ IsSeq(leads)
  BY <1>3, <1>4, SeqOf
<1>6. Rows
  <2>1. ASSUME NEW i \in DOMAIN contacts
        PROVE  /\ {"phone", "live", "since"} \subseteq DOMAIN contacts[i] /\ contacts[i].since \in Nat
               /\ ~contacts[i].live => contacts[i].phone = NoPhone
    <3>1. contacts[i] \in Contact
      BY <1>3
    <3>2. ~contacts[i].live => contacts[i].phone = NoPhone
      BY <1>1, DeskAssumption
    <3> QED
      BY <3>1, <3>2 DEF Contact
  <2>2. ASSUME NEW l \in DOMAIN leads PROVE {"contact", "status", "assignee"} \subseteq DOMAIN leads[l]
    <3>1. leads[l] \in Lead
      BY <1>4
    <3> QED
      BY <3>1 DEF Lead
  <2> QED
    BY <1>5, <2>1, <2>2 DEF Rows
<1>7. LedgerInv
  BY <1>2, <1>6 DEF LedgerInv, LedgerNames, LedgerRowsExact, AmbiguityProposed
<1>8. Entitled
  <2>1. Len(leads) \in Nat /\ DOMAIN leads = 1..Len(leads)
    BY <1>5, SeqDomain
  <2>2. entitled \in Seq({{leads[l].assignee} : l \in DOMAIN leads}) /\ Len(entitled) = Len(leads)
    BY <1>2, <2>1
  <2>3. IsSeq(entitled)
    BY <2>2, SeqOf
  <2> QED
    BY <1>2, <2>2, <2>3 DEF Entitled, AssignedOnPurpose
<1>9. FormsSound
  <2>1. ASSUME NEW i \in DOMAIN forms
        PROVE  {"version", "status"} \subseteq DOMAIN forms[i] /\ forms[i].status \in {"draft", "published", "disabled"}
    <3>1. forms[i] \in Form
      BY <1>3
    <3> QED
      BY <3>1 DEF Form
  <2> QED
    BY <1>5, <2>1 DEF FormsSound
<1>10. CallsSound
  BY <1>2 DEF CallsSound, CallSound, Idle
<1>11. MergesSound
  <2>1. merges \in Seq({}) /\ DOMAIN merges = {}
    BY DEF Init, MergesInit
  <2> QED
    BY <2>1, SeqOf DEF MergesSound
<1>12. LedgerFollowed
  BY <1>2 DEF LedgerFollowed
<1> QED
  BY <1>7, <1>8, <1>9, <1>10, <1>11, <1>12 DEF DeskInv

LEMMA DeskKeeps == DeskInv /\ [Next]_vars => DeskInv' /\ ClaimsKept /\ (UNCHANGED forms \/ FormsAdvance)
<1> SUFFICES ASSUME DeskInv, [Next]_vars PROVE DeskInv' /\ ClaimsKept /\ (UNCHANGED forms \/ FormsAdvance)
  OBVIOUS
<1>1. ASSUME UNCHANGED forms PROVE FormsSound'
  BY <1>1 DEF DeskInv, FormsSound
<1>2. ASSUME UNCHANGED deskVars, CallsElsewhere PROVE TablesKept /\ CallsSound'
  BY <1>2, TablesRest, ElsewhereSound DEF DeskInv, deskVars, tables, TablesKept
\* Requests that merge nothing.
<1>3. ASSUME TablesKept, CallsSound', FormsSound', UNCHANGED merges PROVE DeskInv' /\ ClaimsKept
  <2>1. MergesSound' /\ LedgerFollowed'
    BY <1>3, ChainsRest
  <2> QED
    BY <1>3, <2>1 DEF DeskInv, TablesKept
<1>4. CASE UNCHANGED vars
  <2>1. UNCHANGED <<deskVars, forms, merges>> /\ CallsElsewhere
    BY <1>4 DEF vars, requestVars, CallsElsewhere
  <2> QED
    BY <1>1, <1>2, <1>3, <2>1
<1>5. CASE IntakeNext /\ UNCHANGED merges
  BY <1>1, <1>3, <1>5, IntakeKeeps
<1>6. CASE FormNext /\ UNCHANGED <<poolVars, deskVars, merges>>
  <2>1. FormsSound' /\ FormsAdvance
    BY <1>6, FormsKeep DEF DeskInv
  <2>2. CallsElsewhere
    BY <1>6, FormCalls, TakesElsewhere
  <2> QED
    BY <1>2, <1>3, <1>6, <2>1, <2>2
<1>7. CASE PoolNext /\ UNCHANGED <<forms, deskVars, merges>>
  BY <1>1, <1>2, <1>3, <1>7, PoolCalls, TakesElsewhere
<1>8. ASSUME NEW c \in Callers, Abandon(c), UNCHANGED <<forms, poolVars, deskVars, merges>>
      PROVE  DeskInv' /\ ClaimsKept /\ UNCHANGED forms
  <2>1. CallsElsewhere
    BY <1>8, Steps DEF Abandon, CallsElsewhere, DeskInv
  <2> QED
    BY <1>1, <1>2, <1>3, <1>8, <2>1
<1>9. CASE ChannelNext /\ UNCHANGED <<forms, deskVars, merges>>
  BY <1>1, <1>2, <1>3, <1>9, ChannelCalls, TakesElsewhere
<1>10. CASE ConfirmNext
  <2>1. UNCHANGED merges
    BY <1>10 DEF ConfirmNext, ConfirmChannelCandidate, ConfirmedInTx
  <2> QED
    BY <1>1, <1>3, <1>10, <2>1, ConfirmKeeps
<1>11. CASE EnterpriseNext /\ UNCHANGED merges
  BY <1>1, <1>3, <1>11, CompaniesKeep
<1>12. CASE FollowNext /\ UNCHANGED <<forms, deskVars, merges>>
  <2>1. CallsElsewhere
    BY <1>12, FollowCalls, TakesElsewhere DEF DeskInv
  <2> QED
    BY <1>1, <1>2, <1>3, <1>12, <2>1
<1>13. CASE ContactNext /\ UNCHANGED forms
  BY <1>13, ContactsWork
<1> QED
  BY <1>4, <1>5, <1>6, <1>7, <1>8, <1>9, <1>10, <1>11, <1>12, <1>13 DEF Next, DeskNext

LEMMA OriginsStart == Init => SubmissionsSound /\ CompaniesSound /\ ProspectsSound /\ ReadsSound /\ FollowSound
<1> SUFFICES ASSUME Init PROVE SubmissionsSound /\ CompaniesSound /\ ProspectsSound /\ ReadsSound /\ FollowSound
  OBVIOUS
<1>1. /\ DOMAIN calls = Callers /\ \A c \in Callers : calls[c] = Idle
      /\ ledger = {} /\ submissions = {} /\ companies \in SomeCompanies /\ suppressions = <<>>
      /\ interactions = <<>> /\ prospects = <<>> /\ withdrawn = {} /\ followUps = <<>>
      /\ seenDone = [c \in Callers |-> {}] /\ consents = {} /\ merges = <<>>
  BY DEF Init, DeskInit, Quiet, ChannelInit, EnterpriseInit, FollowInit, MergesInit
<1>2. SubmissionsSound
  BY <1>1 DEF SubmissionsSound, SubmissionRows, ConsentRows
<1>3. CompaniesSound
  <2>1. ASSUME NEW e \in DOMAIN companies
        PROVE  /\ {"profile", "status", "conflict", "lead"} \subseteq DOMAIN companies[e]
               /\ companies[e].status = "draft"
    <3>1. companies[e] \in Company /\ companies[e].status = "draft"
      BY <1>1, EnterpriseAssumption
    <3> QED
      BY <3>1 DEF Company
  <2> QED
    BY <1>1, <2>1 DEF CompaniesSound, CompaniesBacked, Original
<1>4. ProspectsSound
  BY <1>1 DEF ProspectsSound
<1>5. ReadsSound
  <2>1. ASSUME NEW c \in Callers PROVE calls[c].op = "idle"
    BY <1>1 DEF Idle
  <2> QED
    BY <2>1 DEF ReadsSound, ReadSound
<1>6. FollowSound
  <2>1. IsSeq(followUps) /\ DOMAIN followUps = {}
    <3>1. followUps \in Seq({}) /\ DOMAIN followUps = {}
      BY <1>1
    <3> QED
      BY <3>1, SeqOf
  <2>2. ASSUME NEW c \in Callers PROVE ThroughSound(calls[c], seenDone[c])
    <3>1. calls[c].op = "idle"
      BY <1>1 DEF Idle
    <3> QED
      BY <3>1 DEF ThroughSound, ThroughOps
  <2> QED
    BY <1>1, <2>1, <2>2 DEF FollowSound, RowsSound
<1> QED
  BY <1>2, <1>3, <1>4, <1>5, <1>6

\* The inductive invariant of origins, retractions and follow-throughs.
WholeInv == DeskInv /\ SubmissionsSound /\ CompaniesSound /\ ProspectsSound /\ ReadsSound /\ FollowSound

LEMMA WholeKeeps == WholeInv /\ [Next]_vars => WholeInv' /\ NoWayBack /\ Answered /\ Followed
  BY DeskKeeps, OriginsKeep, ProspectsKeep, FollowUpsKeep DEF WholeInv

\* One consultation, one lead, however often and by whatever way it comes in:
\* its contact has the phone that was given unless staff, a merge or an undo
\* gave it another since, and the lead lies with that contact or where standing
\* merges have carried it (store/lead_intake.go, IntakeLeadInTx;
\* store/contact_merge.go, repointTx).
THEOREM OneLeadEach == Spec => []LedgerExact
<1>1. DeskInv => LedgerExact
  BY DEF DeskInv, LedgerInv, LedgerFollowed, Follows, LedgerExact
<1> QED
  BY <1>1, DeskStarts, DeskKeeps, PTL DEF Spec

\* A contact the intake created beside living ones with its phone is proposed
\* with each of them, and stays so through patches, deletions, merges and undos
\* (store/lead_intake.go, tenantContactsByPhone).  Nothing is said of numbers
\* that come to be shared by a patch, a merge or an undo: the code proposes no
\* candidates then.
THEOREM DoublesProposed == Spec => []AmbiguityProposed
<1>1. DeskInv => AmbiguityProposed
  BY DEF DeskInv, LedgerInv
<1> QED
  BY <1>1, DeskStarts, DeskKeeps, PTL DEF Spec

\* A lead is with someone it was given to on purpose, whatever is repeated,
\* patched or written back late (store/store.go, UpdateLead).
THEOREM NobodyByAccident == Spec => []AssignedOnPurpose
<1>1. DeskInv => AssignedOnPurpose
  BY DEF DeskInv, Entitled
<1> QED
  BY <1>1, DeskStarts, DeskKeeps, PTL DEF Spec

\* A form moves from draft to published to disabled and never back
\* (store/form_domain.go, the WHERE clauses of PublishForm and DisableForm).
THEOREM FormsNeverReturn == Spec => FormsOnlyAdvance
<1>1. DeskInv /\ [Next]_vars =>
        [\A i \in DOMAIN forms : /\ Stage(forms[i]) <= Stage(forms'[i])
                                 /\ forms[i].version = forms'[i].version]_forms
  BY DeskKeeps DEF FormsAdvance
<1>2. DeskInv /\ [Next]_vars => DeskInv'
  BY DeskKeeps
<1> QED
  BY <1>1, <1>2, DeskStarts, PTL DEF Spec, FormsOnlyAdvance

\* Whatever a lead was made from answers for it: a submission has its row of
\* the ledger and its consent, which lies with the submission's contact or where
\* standing merges have carried it; a confirmed company has the lead the ledger
\* holds, and one whose lead was made of other data says so
\* (store/form_domain.go, SubmitFormInTx; store/enterprise_directory.go;
\* store/contact_merge.go).
THEOREM OriginsAnswer == Spec => []OriginsBacked
<1>1. WholeInv => OriginsBacked
  BY SoundBacked DEF WholeInv, CompaniesSound, OriginsBacked
<1>2. Init => WholeInv
  BY DeskStarts, OriginsStart DEF WholeInv
<1>3. WholeInv /\ [Next]_vars => WholeInv'
  BY WholeKeeps
<1> QED
  BY <1>1, <1>2, <1>3, PTL DEF Spec

\* What was taken back makes no lead any more: the lead of a comment comes from
\* a confirmation that began before any retraction was stored, and a company
\* refused or deleted stays so, whatever is imported (store/channel_interaction.go,
\* store/enterprise_directory.go).
THEOREM TakenBackForGood == Spec => TakenBackMakesNoLead
<1>1. WholeInv /\ [Next]_vars =>
        [/\ \A d \in ledger' \ ledger, e \in ChannelEvents : d.key = ChannelKey(e) =>
              \E c \in Callers : At(c, "channel_confirm") /\ calls[c].event = e /\ ~calls[c].late
         /\ \A e \in DOMAIN prospects' : prospects'[e].status = "confirmed" =>
              \E d \in ledger' : d.key = ChannelKey(e) /\ d.lead = prospects'[e].lead
        ]_<<requestVars, deskVars, channelVars>>
  BY WholeKeeps DEF WholeInv, ProspectsSound, Answered
<1>2. WholeInv /\ [Next]_vars =>
        [\A e \in DOMAIN suppressions :
            /\ e \in DOMAIN suppressions' /\ suppressions'[e] = suppressions[e]
            /\ companies'[e].status = suppressions[e]
            /\ \A d \in ledger' \ ledger : d.key # CompanyKey(e)]_<<deskVars, enterpriseVars>>
  BY WholeKeeps DEF NoWayBack
<1>3. Init => WholeInv
  BY DeskStarts, OriginsStart DEF WholeInv
<1>4. WholeInv /\ [Next]_vars => WholeInv'
  BY WholeKeeps
<1>5. Spec => RetractedMakesNoLead
  BY <1>1, <1>3, <1>4, PTL DEF Spec, RetractedMakesNoLead
<1>6. Spec => SuppressedMakesNoLead
  BY <1>2, <1>3, <1>4, PTL DEF Spec, SuppressedMakesNoLead
<1> QED
  BY <1>5, <1>6 DEF TakenBackMakesNoLead

\* A follow-through is stored once, and when the row of one that closes is
\* stored, what was open for the person has been closed since it began
\* (httpapi/handlers_workbench.go, handleLeadFollowThrough).
THEOREM FollowedThroughOnce == Spec => FollowedThrough
<1>1. WholeInv /\ [Next]_vars =>
        [\A i \in DOMAIN followUps' \ DOMAIN followUps :
            LET key == followUps'[i].key IN
            key # Once =>
                /\ Asked(key) = {}
                /\ \E c \in Callers :
                    /\ calls[c] # Idle /\ calls'[c] # calls[c] /\ calls[c].key = key
                    /\ calls[c].want.complete => calls[c].older \subseteq seenDone[c]]_vars
  BY WholeKeeps DEF Followed
<1>2. Init => WholeInv
  BY DeskStarts, OriginsStart DEF WholeInv
<1>3. WholeInv /\ [Next]_vars => WholeInv'
  BY WholeKeeps
<1> QED
  BY <1>1, <1>2, <1>3, PTL DEF Spec, FollowedThrough
=============================================================================
