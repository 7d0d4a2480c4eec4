---------------------------- MODULE Ingest_proofs ----------------------------
(***************************************************************************)
(* Theorems about NotifyIngest, for any references, tenants, contents,     *)
(* binding lists, number of requests and length of behaviour.              *)
(***************************************************************************)
EXTENDS NotifyIngest, TLAPS

Admission == [tenant : Tenants, basis : Bases]
InboxRow == [type : Types, ref : Refs, version : Nat, issue : Issues, content : Contents,
             tenant : Tenants, source : Tenants, basis : Bases]
RevocationRow == [ref : Refs, version : Nat, tenant : Tenants, source : Tenants, basis : Bases]

\* A handler that is not idle has a delivery, one that fetches an admission.
HandlerSound(h) ==
    LET x == handlers[h]
    IN  /\ x.pc # "idle" => x.delivery \in Delivery
        /\ x.pc = "fetch" => x.admission \in Admission

\* A fact has one row, a reference has one revocation.
TablesSound ==
    /\ list \in Bindings
    /\ inbox \subseteq InboxRow /\ revocations \subseteq RevocationRow
    /\ \A m, n \in inbox : m.type = n.type /\ m.ref = n.ref => m = n
    /\ \A m, n \in revocations : m.ref = n.ref => m = n
    /\ DOMAIN handlers = Handlers /\ \A h \in Handlers : HandlerSound(h)

\* Where rows say their reference went, and on what ground.
MarkOf(n) == [ref |-> n.ref, tenant |-> n.tenant, source |-> n.source, basis |-> n.basis]
Marks == {MarkOf(n) : n \in inbox} \cup {MarkOf(n) : n \in revocations}
Recent(m) == m.basis # "legacy_stored_tenant"

\* Where a source goes that has no say of its own: it depends on the list only,
\* which does not change while the server runs.
Preferred(source) ==
    LET chosen == selectBinding(App, source, list)
    IN  IF chosen = {} THEN source ELSE (CHOOSE b \in chosen : TRUE).target

\* An admission that may be acted on: it agrees with every row of its reference
\* and, unless it continues a legacy row, with every recent row of its source.
Fits(ref, adm) ==
    /\ \A m \in Marks : m.ref = ref => m.tenant = adm.tenant
    /\ (\A m \in Marks : m.ref # ref) => adm.tenant = Preferred(SourceOf[ref])
    /\ Recent(adm) =>
         /\ \A m \in Marks : Recent(m) /\ m.source = SourceOf[ref] => m.tenant = adm.tenant
         /\ \/ adm.tenant = Preferred(SourceOf[ref])
            \/ \E m \in Marks : Recent(m) /\ m.source = SourceOf[ref]

MarksAgree ==
    /\ \A m \in Marks : m.source = SourceOf[m.ref] \/ ~Recent(m)
    /\ \A m, n \in Marks : m.ref = n.ref => m.tenant = n.tenant
    /\ \A m, n \in Marks : Recent(m) /\ Recent(n) /\ m.source = n.source => m.tenant = n.tenant

\* It still fits when the handler comes back with its record.
Placed(h) == handlers[h].pc = "fetch" => Fits(handlers[h].delivery.ref, handlers[h].admission)

MarksSound == MarksAgree /\ \A h \in Handlers : Placed(h)

\* Leads and consents of a reference come with its facts.
Consent(k) ==
    /\ k = [contact |-> k.contact, ref |-> k.ref, channel |-> k.channel, allowed |-> k.allowed, revoked |-> k.revoked]
    /\ k.allowed \in BOOLEAN /\ k.revoked \in BOOLEAN
LeadsSound ==
    /\ OneLeadPerReference
    /\ \A l \in leads : /\ l = [ref |-> l.ref, tenant |-> l.tenant, contact |-> l.contact]
                        /\ \E m \in Marks : m.ref = l.ref /\ m.tenant = l.tenant
    /\ \A k \in consents : /\ Consent(k)
                           /\ \E l \in leads : l.ref = k.ref /\ l.contact = k.contact

\* What was answered is stored.
AnswersSound == acknowledged \subseteq Delivery /\ AcknowledgedIsStored

IngestInv == TablesSound /\ MarksSound /\ LeadsSound /\ AnswersSound

-----------------------------------------------------------------------------
(* What the lookups find.                                                  *)

\* The row of a fact, if there is one.
LEMMA FactFound ==
    ASSUME IngestInv, NEW d \in Delivery
    PROVE  /\ FactRows(d) = {n \in inbox : n.type = d.type /\ n.ref = d.ref}
           /\ \A n \in FactRows(d) : FactRows(d) = {n} /\ Newest(FactRows(d)) = n
<1> DEFINE any == {n \in inbox : n.type = d.type /\ n.ref = d.ref}
<1>1. \A m, n \in any : m = n
  BY DEF IngestInv, TablesSound
<1>2. ASSUME NEW n \in any PROVE n.source = SourceOf[n.ref] \/ n.basis = "legacy_stored_tenant"
  <2>1. MarkOf(n) \in Marks
    BY DEF Marks
  <2> QED
    BY <2>1 DEF IngestInv, MarksSound, MarksAgree, MarkOf, Recent
<1>3. FactRows(d) = any
  <2>1. \A n \in any : n.ref = d.ref
    OBVIOUS
  <2> QED
    BY <1>1, <1>2, <2>1 DEF FactRows, OwnOrLegacy, OfSource
<1>4. ASSUME NEW n \in any PROVE any = {n} /\ Newest(any) = n
  <2>1. any = {n}
    BY <1>1
  <2>2. n.version <= n.version
    BY DEF IngestInv, TablesSound, InboxRow
  <2> HIDE DEF any
  <2> QED
    BY <2>1, <2>2 DEF Newest
<1> QED
  BY <1>3, <1>4

\* The revocation of a reference, if there is one.
LEMMA RevocationFound ==
    ASSUME IngestInv, NEW r \in Refs
    PROVE  /\ RevocationRows(r) = {n \in revocations : n.ref = r}
           /\ \A n \in RevocationRows(r) : RevocationRows(r) = {n} /\ Newest(RevocationRows(r)) = n
<1> DEFINE any == {n \in revocations : n.ref = r}
<1>1. \A m, n \in any : m = n
  BY DEF IngestInv, TablesSound
<1>2. ASSUME NEW n \in any PROVE n.source = SourceOf[n.ref] \/ n.basis = "legacy_stored_tenant"
  <2>1. MarkOf(n) \in Marks
    BY DEF Marks
  <2> QED
    BY <2>1 DEF IngestInv, MarksSound, MarksAgree, MarkOf, Recent
<1>3. RevocationRows(r) = any
  <2>1. \A n \in any : n.ref = r
    OBVIOUS
  <2> QED
    BY <1>1, <1>2, <2>1 DEF RevocationRows, OwnOrLegacy, OfSource
<1>4. ASSUME NEW n \in any PROVE any = {n} /\ Newest(any) = n
  <2>1. any = {n}
    BY <1>1
  <2>2. n.version <= n.version
    BY DEF IngestInv, TablesSound, RevocationRow
  <2> HIDE DEF any
  <2> QED
    BY <2>1, <2>2 DEF Newest
<1> QED
  BY <1>3, <1>4

\* The rows that own a reference.
LEMMA OwnerFound ==
    ASSUME IngestInv, NEW r \in Refs
    PROVE  /\ OwnerRows(r) = {} => \A m \in Marks : m.ref # r
           /\ \A n \in OwnerRows(r) : n.ref = r /\ MarkOf(n) \in Marks
           /\ OwnerRows(r) # {} => Newest(OwnerRows(r)) \in OwnerRows(r)
<1>1. \A n \in inbox \cup revocations : n.source = SourceOf[n.ref] \/ n.basis = "legacy_stored_tenant"
  <2>1. \A n \in inbox \cup revocations : MarkOf(n) \in Marks
    BY DEF Marks
  <2> QED
    BY <2>1 DEF IngestInv, MarksSound, MarksAgree, MarkOf, Recent
<1>2. OwnerRows(r) = {} => \A m \in Marks : m.ref # r
  BY <1>1 DEF OwnerRows, OwnOrLegacy, OfSource, Marks, MarkOf
<1>3. OwnerRows(r) \subseteq {n \in inbox : n.ref = r} \/ OwnerRows(r) \subseteq {n \in revocations : n.ref = r}
  BY DEF OwnerRows, OwnOrLegacy, OfSource
<1>4. \A n \in OwnerRows(r) : n.ref = r /\ MarkOf(n) \in Marks
  BY <1>3 DEF Marks
<1>5. ASSUME OwnerRows(r) # {} PROVE \E n \in OwnerRows(r) : \A m \in OwnerRows(r) : m.version <= n.version
  <2>1. CASE OwnerRows(r) \subseteq {n \in inbox : n.ref = r}
    <3>1. \A n \in OwnerRows(r) : n.version \in Nat /\ n.type \in Types
      BY <2>1 DEF IngestInv, TablesSound, InboxRow
    <3>2. \A m, n \in OwnerRows(r) : m.type = n.type => m = n
      BY <2>1 DEF IngestInv, TablesSound
    <3>3. PICK n \in OwnerRows(r) : TRUE
      BY <1>5
    <3>4. CASE \A m \in OwnerRows(r) : m.version <= n.version
      BY <3>4
    <3>5. ASSUME NEW m \in OwnerRows(r), ~(m.version <= n.version)
          PROVE  \A k \in OwnerRows(r) : k.version <= m.version
      <4>1. m.type # n.type
        BY <3>1, <3>2, <3>5
      <4>2. \A k \in OwnerRows(r) : k = m \/ k = n
        BY <3>1, <3>2, <4>1 DEF Types, Submitted, Revoked
      <4> QED
        BY <3>1, <3>5, <4>2
    <3> QED
      BY <3>4, <3>5
  <2>2. CASE OwnerRows(r) \subseteq {n \in revocations : n.ref = r}
    <3>1. \A n \in OwnerRows(r) : n.version \in Nat
      BY <2>2 DEF IngestInv, TablesSound, RevocationRow
    <3>2. \A m, n \in OwnerRows(r) : m = n
      BY <2>2 DEF IngestInv, TablesSound
    <3> QED
      BY <1>5, <3>1, <3>2
  <2> QED
    BY <1>3, <2>1, <2>2
<1> QED
  BY <1>2, <1>4, <1>5 DEF Newest

-----------------------------------------------------------------------------
(* Admission.                                                              *)

\* A list and rows that agree give the source's one place.
LEMMA ResolveTells ==
    ASSUME NEW source \in Tenants, NEW sticky, list \subseteq Binding,
           sticky.found \in BOOLEAN, sticky.found => sticky.targets # {} /\ sticky.basis \in Bases,
           Resolve(App, source, list, sticky, tenants).ok
    PROVE  LET decision == Resolve(App, source, list, sticky, tenants)
           IN  /\ decision.tenant = Preferred(source) /\ decision.tenant \in Tenants
               /\ decision.basis \in Bases
               /\ sticky.found => sticky.targets = {decision.tenant}
<1> DEFINE chosen == selectBinding(App, source, list)
           stored == CHOOSE t \in sticky.targets : TRUE
           b == CHOOSE x \in chosen : TRUE
<1>1. \A kind : Refused(kind).ok = FALSE
  BY DEF Refused
<1>2. \A t, basis : Target(t, basis).ok = TRUE /\ Target(t, basis).tenant = t /\ Target(t, basis).basis = basis
  BY DEF Target
<1>3. ~Ambiguous(sticky)
  BY <1>1 DEF Resolve
<1>4. chosen # {} => b \in chosen /\ b.target \in Tenants
  BY DEF selectBinding, Binding
<1>5. Preferred(source) = IF chosen = {} THEN source ELSE b.target
  BY DEF Preferred
<1>6. CASE sticky.found
  <2>1. sticky.targets = {stored}
    BY <1>3, <1>6 DEF Ambiguous
  <2>2. Resolve(App, source, list, sticky, tenants) = ResolveStored(source, chosen, stored, sticky.basis, tenants)
    BY <1>1, <1>6 DEF Resolve
  <2> HIDE DEF chosen, stored
  <2>3. /\ \A x \in chosen : x.target = stored
        /\ chosen = {} => stored = source
        /\ ResolveStored(source, chosen, stored, sticky.basis, tenants)
             = Target(stored, IF chosen = {} THEN sticky.basis ELSE "operator_binding")
    BY <1>1, <2>2 DEF ResolveStored
  <2> QED
    BY <1>2, <1>4, <1>5, <1>6, <2>1, <2>2, <2>3 DEF Bases
<1>7. CASE ~sticky.found
  <2>1. Resolve(App, source, list, sticky, tenants) = ResolveFresh(source, chosen, tenants)
    BY <1>1, <1>7 DEF Resolve
  <2>2. Resolve(App, source, list, sticky, tenants) =
          IF chosen = {} THEN Target(source, "leads_primary_key") ELSE Target(b.target, "operator_binding")
    BY <1>1, <2>1 DEF ResolveFresh
  <2> HIDE DEF chosen, b
  <2> QED
    BY <1>2, <1>4, <1>5, <1>7, <2>2 DEF Bases
<1> QED
  BY <1>6, <1>7

\* The rows of a source, as they stick to it.
LEMMA StickyTells ==
    ASSUME IngestInv, NEW source
    PROVE  LET sticky == StickyNotifyMap(source)
           IN  /\ sticky.found \in BOOLEAN
               /\ sticky.found => sticky.targets # {} /\ sticky.basis \in Bases
               /\ \A m \in Marks : m.source = source => sticky.found /\ m.tenant \in sticky.targets
<1> DEFINE rows == {n \in inbox : n.source = source} \cup {n \in revocations : n.source = source}
<1>1. \A n \in rows : n.basis \in Bases
  BY DEF IngestInv, TablesSound, InboxRow, RevocationRow
<1>2. CASE rows = {}
  <2>1. \A m \in Marks : m.source # source
    BY <1>2 DEF Marks, MarkOf
  <2>2. StickyNotifyMap(source) = [found |-> FALSE]
    BY <1>2 DEF StickyNotifyMap
  <2> QED
    BY <2>1, <2>2
<1>3. CASE rows # {}
  <2> DEFINE b == (CHOOSE n \in rows : TRUE).basis
             t == {n.tenant : n \in rows}
  <2>1. b \in Bases
    BY <1>1, <1>3
  <2>2. t # {}
    BY <1>3
  <2>3. \A m \in Marks : m.source = source => m.tenant \in t
    BY DEF Marks, MarkOf
  <2>4. StickyNotifyMap(source) = [found |-> TRUE, targets |-> t, basis |-> b]
    BY <1>3 DEF StickyNotifyMap
  <2> HIDE DEF t, b
  <2> QED
    BY <2>1, <2>2, <2>3, <2>4
<1> QED
  BY <1>2, <1>3

\* What a row of the reference says fits.
LEMMA MarkFits ==
    ASSUME IngestInv, NEW m \in Marks, NEW adm, adm.tenant = m.tenant, adm.basis = m.basis
    PROVE  Fits(m.ref, adm)
<1>1. MarksAgree
  BY DEF IngestInv, MarksSound
<1>2. Recent(adm) => Recent(m) /\ m.source = SourceOf[m.ref]
  BY <1>1 DEF MarksAgree, Recent
<1> QED
  BY <1>1, <1>2 DEF MarksAgree, Fits

LEMMA AdmissionFits ==
    ASSUME IngestInv, NEW r \in Refs, NEW a, a = admitNotifyTenant(r), a.ok
    PROVE  a.tenant \in Tenants /\ a.basis \in Bases /\ Fits(r, a)
<1> DEFINE rows == OwnerRows(r)
<1>1. \A kind : Refused(kind).ok = FALSE
  BY DEF Refused
<1>2. \A t, basis : Target(t, basis).ok = TRUE /\ Target(t, basis).tenant = t /\ Target(t, basis).basis = basis
  BY DEF Target
<1>3. CASE rows = {}
  <2> DEFINE sticky == StickyNotifyMap(SourceOf[r])
  <2>1. a = Resolve(App, SourceOf[r], list, sticky, tenants)
    BY <1>1, <1>3 DEF admitNotifyTenant
  <2>2. SourceOf[r] \in Tenants /\ list \subseteq Binding
    BY IngestAssumption DEF IngestInv, TablesSound
  <2>3. /\ sticky.found \in BOOLEAN
        /\ sticky.found => sticky.targets # {} /\ sticky.basis \in Bases
        /\ \A m \in Marks : m.source = SourceOf[r] => sticky.found /\ m.tenant \in sticky.targets
    BY StickyTells
  <2> HIDE DEF sticky
  <2>4. /\ a.tenant = Preferred(SourceOf[r]) /\ a.tenant \in Tenants
        /\ a.basis \in Bases
        /\ sticky.found => sticky.targets = {a.tenant}
    BY <2>1, <2>2, <2>3, ResolveTells
  <2>5. \A m \in Marks : m.ref # r
    BY <1>3, OwnerFound
  <2> QED
    BY <2>3, <2>4, <2>5 DEF Fits
<1>4. CASE rows # {}
  <2> DEFINE n == Newest(rows)
  <2>1. a = Target(n.tenant, n.basis)
    BY <1>1, <1>4 DEF admitNotifyTenant
  <2>2. n \in rows /\ n.ref = r /\ MarkOf(n) \in Marks
    BY <1>4, OwnerFound
  <2>3. n \in inbox \cup revocations
    BY <2>2 DEF OwnerRows, OwnOrLegacy, OfSource
  <2>4. n.tenant \in Tenants /\ n.basis \in Bases
    BY <2>3 DEF IngestInv, TablesSound, InboxRow, RevocationRow
  <2> HIDE DEF n
  <2>5. a.tenant = n.tenant /\ a.basis = n.basis
    BY <1>2, <2>1
  <2>6. MarkOf(n).ref = r /\ MarkOf(n).tenant = n.tenant /\ MarkOf(n).basis = n.basis
    BY <2>2 DEF MarkOf
  <2>7. Fits(MarkOf(n).ref, a)
    BY <2>2, <2>5, <2>6, MarkFits
  <2> QED
    BY <2>4, <2>5, <2>6, <2>7
<1> QED
  BY <1>3, <1>4

\* So does what the transaction pins it to.
LEMMA PinnedFits ==
    ASSUME IngestInv, NEW h \in Handlers, At(h, "fetch")
    PROVE  Pinned(h) \in Admission /\ Fits(handlers[h].delivery.ref, Pinned(h))
<1> DEFINE d == handlers[h].delivery
           rows == IF FactRows(d) # {} THEN FactRows(d) ELSE RevocationRows(d.ref)
           n == Newest(rows)
<1>1. d \in Delivery /\ d.ref \in Refs
  BY DEF IngestInv, TablesSound, HandlerSound, At, Delivery
<1>2. CASE rows = {}
  <2>1. Pinned(h) = handlers[h].admission
    BY <1>2 DEF Pinned
  <2> QED
    BY <2>1 DEF IngestInv, TablesSound, HandlerSound, MarksSound, Placed, At
<1>3. CASE rows # {}
  <2>1. Pinned(h) = [tenant |-> n.tenant, basis |-> n.basis]
    BY <1>3 DEF Pinned
  <2>2. n \in inbox \cup revocations /\ n.ref = d.ref
    <3>1. CASE FactRows(d) # {}
      <4> HIDE DEF d
      <4>1. n \in {x \in inbox : x.type = d.type /\ x.ref = d.ref}
        BY <1>1, <3>1, FactFound
      <4> QED
        BY <4>1
    <3>2. CASE FactRows(d) = {}
      <4> HIDE DEF d
      <4>1. n \in {x \in revocations : x.ref = d.ref}
        BY <1>1, <1>3, <3>2, RevocationFound
      <4> QED
        BY <4>1
    <3> QED
      BY <3>1, <3>2
  <2> HIDE DEF n
  <2>3. n.tenant \in Tenants /\ n.basis \in Bases
    BY <2>2 DEF IngestInv, TablesSound, InboxRow, RevocationRow
  <2>4. MarkOf(n) \in Marks /\ MarkOf(n).ref = d.ref /\ MarkOf(n).tenant = n.tenant /\ MarkOf(n).basis = n.basis
    BY <2>2 DEF Marks, MarkOf
  <2>5. Fits(MarkOf(n).ref, Pinned(h))
    BY <2>1, <2>4, MarkFits
  <2> QED
    BY <2>1, <2>3, <2>4, <2>5 DEF Admission
<1> QED
  BY <1>2, <1>3

\* Writing down an admission that fits leaves every other one fitting.
LEMMA MarksGrow ==
    ASSUME IngestInv, NEW ref, NEW adm, Fits(ref, adm), UNCHANGED list,
           Marks \subseteq Marks',
           Marks' \subseteq Marks \cup
               {[ref |-> ref, tenant |-> adm.tenant, source |-> SourceOf[ref], basis |-> adm.basis]}
    PROVE  MarksAgree' /\ \A r, a : Fits(r, a) => Fits(r, a)'
<1> DEFINE new == [ref |-> ref, tenant |-> adm.tenant, source |-> SourceOf[ref], basis |-> adm.basis]
<1>1. /\ new.ref = ref /\ new.tenant = adm.tenant /\ new.source = SourceOf[ref]
      /\ Recent(new) <=> Recent(adm)
  BY DEF Recent
<1>2. MarksAgree
  BY DEF IngestInv, MarksSound
<1>3. \A s : Preferred(s)' = Preferred(s)
  BY DEF Preferred
<1>4. \A m \in Marks' : m \in Marks \/ m = new
  OBVIOUS
<1> HIDE DEF new
<1>5. \A m \in Marks' : m.source = SourceOf[m.ref] \/ ~Recent(m)
  BY <1>1, <1>2, <1>4 DEF MarksAgree
<1>6. \A m, n \in Marks' : m.ref = n.ref => m.tenant = n.tenant
  BY <1>1, <1>2, <1>4 DEF MarksAgree, Fits
<1>7. \A m, n \in Marks' : Recent(m) /\ Recent(n) /\ m.source = n.source => m.tenant = n.tenant
  BY <1>1, <1>2, <1>4 DEF MarksAgree, Fits
<1>8. ASSUME NEW r, NEW a, Fits(r, a) PROVE Fits(r, a)'
  <2>1. r = ref => a.tenant = adm.tenant
    BY <1>8 DEF Fits
  <2>2. Recent(a) /\ Recent(adm) /\ SourceOf[r] = SourceOf[ref] => a.tenant = adm.tenant
    BY <1>8 DEF Fits
  <2>3. \A m \in Marks' : m.ref = r => m.tenant = a.tenant
    BY <1>1, <1>4, <1>8, <2>1 DEF Fits
  <2>4. (\A m \in Marks' : m.ref # r) => a.tenant = Preferred(SourceOf[r])'
    BY <1>3, <1>8 DEF Fits
  <2>5. ASSUME Recent(a)
        PROVE  /\ \A m \in Marks' : Recent(m) /\ m.source = SourceOf[r] => m.tenant = a.tenant
               /\ \/ a.tenant = Preferred(SourceOf[r])'
                  \/ \E m \in Marks' : Recent(m) /\ m.source = SourceOf[r]
    BY <1>1, <1>3, <1>4, <1>8, <2>2, <2>5 DEF Fits
  <2> QED
    BY <2>3, <2>4, <2>5 DEF Fits, Recent
<1> QED
  BY <1>5, <1>6, <1>7, <1>8 DEF MarksAgree, Recent

-----------------------------------------------------------------------------
(* Steps that store nothing.                                               *)

Abstracted == UNCHANGED <<FactsOf, RevokedOf, MarketableOf>>

LEMMA FitsSame ==
    ASSUME UNCHANGED <<list, inbox, revocations>>
    PROVE  \A r, a : Fits(r, a) => Fits(r, a)'
<1>1. Marks' = Marks /\ \A s : Preferred(s)' = Preferred(s)
  BY DEF Marks, Preferred
<1> QED
  BY <1>1 DEF Fits, Recent

\* One handler moves on, the others stay as they are.
LEMMA HandlersMove ==
    ASSUME IngestInv, NEW h \in Handlers, NEW x, handlers' = [handlers EXCEPT ![h] = x],
           x.pc # "idle" => x.delivery \in Delivery,
           x.pc = "fetch" => x.admission \in Admission,
           \A r, a : Fits(r, a) => Fits(r, a)',
           x.pc = "fetch" => Fits(x.delivery.ref, x.admission)
    PROVE  /\ DOMAIN handlers' = Handlers
           /\ \A k \in Handlers : HandlerSound(k)' /\ Placed(k)'
<1>1. DOMAIN handlers = Handlers /\ handlers'[h] = x
  BY DEF IngestInv, TablesSound
<1>2. ASSUME NEW k \in Handlers PROVE HandlerSound(k)' /\ Placed(k)'
  <2>1. PICK y : y = handlers'[k]
    OBVIOUS
  <2>2. k # h => y = handlers[k]
    BY <1>1, <2>1
  <2>3. k = h => y = x
    BY <1>1, <2>1
  <2>4. /\ y.pc # "idle" => y.delivery \in Delivery
        /\ y.pc = "fetch" => y.admission \in Admission
        /\ y.pc = "fetch" => Fits(y.delivery.ref, y.admission)
    BY <2>2, <2>3 DEF IngestInv, TablesSound, HandlerSound, MarksSound, Placed
  <2>5. HandlerSound(k)'
    BY <2>1, <2>4 DEF HandlerSound
  <2>6. y.pc = "fetch" => Fits(y.delivery.ref, y.admission)'
    BY <2>4
  <2> QED
    BY <2>1, <2>5, <2>6 DEF Placed, Fits
<1> QED
  BY <1>1, <1>2

LEMMA NothingStored ==
    ASSUME IngestInv, UNCHANGED <<inbox, revocations, leads, consents>>, list' \in Bindings,
           DOMAIN handlers' = Handlers, \A k \in Handlers : HandlerSound(k)' /\ Placed(k)',
           AnswersSound'
    PROVE  IngestInv' /\ Abstracted
<1>1. Marks' = Marks
  BY DEF Marks
<1>2. TablesSound'
  BY DEF IngestInv, TablesSound
<1>3. MarksAgree'
  BY <1>1 DEF IngestInv, MarksSound, MarksAgree, Recent
<1>4. LeadsSound'
  BY <1>1 DEF IngestInv, LeadsSound, OneLeadPerReference, Consent
<1>5. Abstracted
  BY DEF Abstracted, FactsOf, RevokedOf, MarketableOf
<1> QED
  BY <1>2, <1>3, <1>4, <1>5 DEF IngestInv, MarksSound

\* A handler that answers leaves nothing behind but its answer.
LEMMA AnsweredIsStored ==
    ASSUME IngestInv, NEW d \in Delivery, NEW seen, Answered(d, seen),
           \A n \in seen : n \in FactRows(d) /\ (d.version < n.version \/ (d.version = n.version /\ SameBody(n, d)))
    PROVE  \E n \in inbox :
             /\ n.type = d.type /\ n.ref = d.ref
             /\ n.version > d.version \/ (n.version = d.version /\ n.content = d.content)
<1>1. CASE \E n \in TraceRows(d) : SameFact(n, d)
  BY <1>1 DEF TraceRows, OfSource, SameFact
<1>2. CASE \E n \in EventRows(d) : SameBody(n, d)
  <2>1. PICK n \in EventRows(d) : SameBody(n, d)
    BY <1>2
  <2>2. n \in inbox
    BY <2>1 DEF EventRows, OwnOrLegacy, OfSource
  <2> QED
    BY <2>1, <2>2 DEF SameBody, EventOf
<1>3. CASE seen # {}
  <2>1. PICK n \in seen : n \in FactRows(d) /\ (d.version < n.version \/ (d.version = n.version /\ SameBody(n, d)))
    BY <1>3
  <2>2. n \in inbox /\ n.type = d.type /\ n.ref = d.ref
    BY <2>1, FactFound
  <2>3. n.version \in Nat /\ d.version \in Nat
    BY <2>2, IngestAssumption DEF IngestInv, TablesSound, InboxRow, Delivery
  <2> QED
    BY <2>1, <2>2, <2>3 DEF SameBody
<1> QED
  BY <1>1, <1>2, <1>3 DEF Answered

LEMMA DoneKeeps ==
    ASSUME IngestInv, NEW h \in Handlers, Done(h), UNCHANGED <<list, inbox, revocations, leads, consents>>,
           AnswersSound'
    PROVE  IngestInv' /\ Abstracted
<1>1. PICK x : x = IdleHandler
  OBVIOUS
<1>2. x.pc = "idle"
  BY <1>1 DEF IdleHandler
<1>3. handlers' = [handlers EXCEPT ![h] = x]
  BY <1>1 DEF Done
<1>4. DOMAIN handlers' = Handlers /\ \A k \in Handlers : HandlerSound(k)' /\ Placed(k)'
  BY <1>2, <1>3, FitsSame, HandlersMove
<1>5. list' \in Bindings
  BY DEF IngestInv, TablesSound
<1> QED
  BY <1>4, <1>5, NothingStored

LEMMA RefuseKeeps ==
    ASSUME IngestInv, NEW h \in Handlers, Refuse(h)
    PROVE  IngestInv' /\ Abstracted
<1>1. AnswersSound'
  BY DEF Refuse, IngestInv, AnswersSound, AcknowledgedIsStored
<1> QED
  BY <1>1, DoneKeeps DEF Refuse, crm

LEMMA ReceiveKeeps ==
    ASSUME IngestInv, NEW h \in Handlers, NEW d \in Delivery, Receive(h, d)
    PROVE  IngestInv' /\ Abstracted
<1>1. UNCHANGED <<list, inbox, revocations, leads, consents>>
  BY DEF Receive, crm
<1>2. list' \in Bindings
  BY <1>1 DEF IngestInv, TablesSound
<1>3. CASE Answered(d, Newer(d)) /\ acknowledged' = acknowledged \cup {d} /\ UNCHANGED handlers
  <2>1. AnswersSound'
    <3>1. \E n \in inbox :
             /\ n.type = d.type /\ n.ref = d.ref
             /\ n.version > d.version \/ (n.version = d.version /\ n.content = d.content)
      BY <1>3, AnsweredIsStored DEF Newer
    <3> QED
      BY <1>1, <1>3, <3>1 DEF IngestInv, AnswersSound, AcknowledgedIsStored
  <2>2. ASSUME NEW k \in Handlers PROVE HandlerSound(k)' /\ Placed(k)'
    <3>1. \A r, a : Fits(r, a) => Fits(r, a)'
      BY <1>1, FitsSame
    <3>2. PICK y : y = handlers[k]
      OBVIOUS
    <3>3. y.pc = "fetch" => Fits(y.delivery.ref, y.admission)'
      BY <3>1, <3>2 DEF IngestInv, MarksSound, Placed
    <3> QED
      BY <1>3, <3>2, <3>3 DEF IngestInv, TablesSound, HandlerSound, Placed, Fits
  <2>3. DOMAIN handlers' = Handlers
    BY <1>3 DEF IngestInv, TablesSound
  <2> QED
    BY <1>1, <1>2, <2>1, <2>2, <2>3, NothingStored
<1>4. CASE /\ acknowledged' = acknowledged
           /\ handlers' = [handlers EXCEPT ![h] = [pc |-> "admit", delivery |-> d, admission |-> NoAdmission]]
  <2>2. PICK x : x = [pc |-> "admit", delivery |-> d, admission |-> NoAdmission]
    OBVIOUS
  <2>3. handlers' = [handlers EXCEPT ![h] = x]
    BY <1>4, <2>2
  <2>4. DOMAIN handlers' = Handlers /\ \A k \in Handlers : HandlerSound(k)' /\ Placed(k)'
    BY <1>1, <2>2, <2>3, FitsSame, HandlersMove
  <2>5. AnswersSound'
    BY <1>1, <1>4 DEF IngestInv, AnswersSound, AcknowledgedIsStored
  <2> QED
    BY <1>1, <1>2, <2>4, <2>5, NothingStored
<1> QED
  BY <1>3, <1>4 DEF Receive

LEMMA AdmitKeeps ==
    ASSUME IngestInv, NEW h \in Handlers, Admit(h)
    PROVE  IngestInv' /\ Abstracted
<1>1. PICK a : a = admitNotifyTenant(handlers[h].delivery.ref)
  OBVIOUS
<1>2. CASE ~a.ok
  BY <1>1, <1>2, RefuseKeeps DEF Admit
<1>3. CASE a.ok
  <2>1. /\ handlers' = [handlers EXCEPT ![h] = [pc |-> "fetch", delivery |-> handlers[h].delivery,
                admission |-> [tenant |-> a.tenant, basis |-> a.basis]]]
        /\ UNCHANGED <<list, inbox, revocations, leads, consents, acknowledged>>
    BY <1>1, <1>3 DEF Admit, crm
  <2>2. PICK d : d = handlers[h].delivery
    OBVIOUS
  <2>3. d \in Delivery /\ d.ref \in Refs
    BY <2>2 DEF IngestInv, TablesSound, HandlerSound, Delivery, Admit, At
  <2>4. a.tenant \in Tenants /\ a.basis \in Bases /\ Fits(d.ref, a)
    BY <1>1, <1>3, <2>2, <2>3, AdmissionFits
  <2>5. PICK x : x = [pc |-> "fetch", delivery |-> d, admission |-> [tenant |-> a.tenant, basis |-> a.basis]]
    OBVIOUS
  <2>6. handlers' = [handlers EXCEPT ![h] = x]
    BY <2>1, <2>2, <2>5
  <2>7. x.admission \in Admission /\ Fits(x.delivery.ref, x.admission)
    BY <2>4, <2>5 DEF Admission, Fits, Recent
  <2>8. DOMAIN handlers' = Handlers /\ \A k \in Handlers : HandlerSound(k)' /\ Placed(k)'
    BY <2>1, <2>3, <2>5, <2>6, <2>7, FitsSame, HandlersMove
  <2>9. AnswersSound' /\ list' \in Bindings
    BY <2>1 DEF IngestInv, AnswersSound, AcknowledgedIsStored, TablesSound
  <2> QED
    BY <2>1, <2>8, <2>9, NothingStored
<1> QED
  BY <1>2, <1>3

-----------------------------------------------------------------------------
(* The transaction.                                                        *)

NewMark(ref, adm) ==
    [ref |-> ref, tenant |-> adm.tenant, source |-> SourceOf[ref], basis |-> adm.basis]

\* What is stored is newer than what was stored of the fact.
LEMMA StoredIsNewer ==
    ASSUME IngestInv, NEW d \in Delivery, ~Conflicting(d),
           ~Answered(d, {n \in FactRows(d) : Outdated(d, n)}), ~\E n \in FactRows(d) : d.version = n.version
    PROVE  \A n \in FactRows(d) : n.version < d.version
<1>1. TraceRows(d) = {} /\ EventRows(d) = {}
  BY DEF Conflicting, Answered
<1>2. \A n \in FactRows(d) : ~(d.version < n.version) /\ d.version # n.version
  BY <1>1 DEF Answered, Outdated
<1>3. \A n \in FactRows(d) : n.version \in Nat
  BY FactFound DEF IngestInv, TablesSound, InboxRow
<1>4. d.version \in Nat
  BY IngestAssumption DEF Delivery
<1> QED
  BY <1>2, <1>3, <1>4

\* The row of the fact, new or brought up to date.
Written(d, adm, row) ==
    /\ row \in InboxRow
    /\ row.type = d.type /\ row.ref = d.ref /\ row.version = d.version /\ row.content = d.content
    /\ inbox' = {n \in inbox : n.type # d.type \/ n.ref # d.ref} \cup {row}
    /\ \/ FactRows(d) = {} /\ MarkOf(row) = NewMark(d.ref, adm)
       \/ \E n \in inbox : FactRows(d) = {n} /\ MarkOf(row) = MarkOf(n)

LEMMA InboxWritten ==
    ASSUME IngestInv, NEW d \in Delivery, NEW adm \in Admission, WriteInbox(d, adm)
    PROVE  \E row : Written(d, adm, row)
<1>0. /\ d.type \in Types /\ d.ref \in Refs /\ d.version \in Nat /\ d.issue \in Issues /\ d.content \in Contents
      /\ SourceOf[d.ref] \in Tenants
  BY IngestAssumption DEF Delivery
<1>1. CASE FactRows(d) = {}
  <2>1. PICK row : row = NewRow(d, adm)
    OBVIOUS
  <2>2. inbox' = inbox \cup {row} /\ inbox = {n \in inbox : n.type # d.type \/ n.ref # d.ref}
    BY <1>1, <2>1, FactFound DEF WriteInbox
  <2>3. row \in InboxRow /\ MarkOf(row) = NewMark(d.ref, adm)
    BY <1>0, <2>1 DEF NewRow, InboxRow, MarkOf, NewMark, Admission
  <2>4. row.type = d.type /\ row.ref = d.ref /\ row.version = d.version /\ row.content = d.content
    BY <2>1 DEF NewRow
  <2>5. inbox' = {n \in inbox : n.type # d.type \/ n.ref # d.ref} \cup {row}
    BY <2>2
  <2> QED
    BY <1>1, <2>3, <2>4, <2>5 DEF Written
<1>2. CASE FactRows(d) # {}
  <2>1. PICK n \in inbox : n.type = d.type /\ n.ref = d.ref /\ FactRows(d) = {n} /\ Newest(FactRows(d)) = n
    BY <1>2, FactFound
  <2>2. n \in InboxRow
    BY DEF IngestInv, TablesSound
  <2>3. PICK row : row = [n EXCEPT !.version = d.version, !.issue = d.issue, !.content = d.content]
    OBVIOUS
  <2>4. /\ row \in InboxRow
        /\ row.type = n.type /\ row.ref = n.ref /\ row.version = d.version /\ row.content = d.content
        /\ row.tenant = n.tenant /\ row.source = n.source /\ row.basis = n.basis
    BY <1>0, <2>2, <2>3 DEF InboxRow
  <2>5. inbox' = (inbox \ {n}) \cup {row}
    BY <1>2, <2>1, <2>3 DEF WriteInbox
  <2>6. inbox \ {n} = {x \in inbox : x.type # d.type \/ x.ref # d.ref}
    BY <2>1, FactFound
  <2>7. MarkOf(row) = MarkOf(n)
    BY <2>4 DEF MarkOf
  <2> QED
    BY <2>1, <2>4, <2>5, <2>6, <2>7 DEF Written
<1> QED
  BY <1>1, <1>2

\* The row of the revocation, new or brought up to date.
WrittenOff(d, adm, row) ==
    /\ row \in RevocationRow /\ row.ref = d.ref
    /\ revocations' = {n \in revocations : n.ref # d.ref} \cup {row}
    /\ \/ MarkOf(row) = NewMark(d.ref, adm) /\ \A n \in revocations : n.ref # d.ref
       \/ \E n \in revocations : n.ref = d.ref /\ MarkOf(row) = MarkOf(n)

LEMMA RevocationsWritten ==
    ASSUME IngestInv, NEW d \in Delivery, NEW adm \in Admission, Fits(d.ref, adm),
           revocations' = UpsertNotifyRevocation(d, adm)
    PROVE  \E row : WrittenOff(d, adm, row)
<1> DEFINE same == {n \in revocations : n.ref = d.ref /\ n.tenant = adm.tenant}
           top == TopVersion(d)
<1>0. d.ref \in Refs /\ d.version \in Nat /\ SourceOf[d.ref] \in Tenants
  BY IngestAssumption DEF Delivery
<1>1. same = {n \in revocations : n.ref = d.ref}
  <2>1. ASSUME NEW n \in revocations, n.ref = d.ref PROVE n.tenant = adm.tenant
    <3>1. MarkOf(n) \in Marks /\ MarkOf(n).ref = n.ref /\ MarkOf(n).tenant = n.tenant
      BY DEF Marks, MarkOf
    <3> QED
      BY <2>1, <3>1 DEF Fits
  <2> QED
    BY <2>1
<1>2. top \in Nat
  <2>1. RevocationRows(d.ref) # {} => Newest(RevocationRows(d.ref)).version \in Nat
    BY <1>0, RevocationFound DEF IngestInv, TablesSound, RevocationRow
  <2> QED
    BY <1>0, <2>1 DEF TopVersion
<1>3. CASE same = {}
  <2>1. PICK row : row = [ref |-> d.ref, version |-> top, tenant |-> adm.tenant,
                          source |-> SourceOf[d.ref], basis |-> adm.basis]
    OBVIOUS
  <2>2. revocations' = revocations \cup {row}
    BY <1>3, <2>1 DEF UpsertNotifyRevocation
  <2> HIDE DEF top
  <2>3. row \in RevocationRow /\ row.ref = d.ref /\ MarkOf(row) = NewMark(d.ref, adm)
    BY <1>0, <1>2, <2>1 DEF RevocationRow, MarkOf, NewMark, Admission
  <2>4. \A n \in revocations : n.ref # d.ref
    BY <1>1, <1>3
  <2> QED
    BY <2>2, <2>3, <2>4 DEF WrittenOff
<1>4. CASE same # {}
  <2>1. PICK n \in revocations : n.ref = d.ref /\ same = {n}
    BY <1>1, <1>4 DEF IngestInv, TablesSound
  <2>2. n \in RevocationRow
    BY DEF IngestInv, TablesSound
  <2>3. PICK row : row = [n EXCEPT !.version = IF n.version < top THEN top ELSE n.version]
    OBVIOUS
  <2>4. revocations' = (revocations \ {n}) \cup {row}
    BY <1>4, <2>1, <2>3 DEF UpsertNotifyRevocation
  <2> HIDE DEF top
  <2>5. /\ row \in RevocationRow /\ row.ref = n.ref
        /\ row.tenant = n.tenant /\ row.source = n.source /\ row.basis = n.basis
    BY <1>2, <2>2, <2>3 DEF RevocationRow
  <2>6. MarkOf(row) = MarkOf(n)
    BY <2>5 DEF MarkOf
  <2>7. revocations \ {n} = {x \in revocations : x.ref # d.ref}
    BY <1>1, <2>1
  <2> QED
    BY <2>1, <2>4, <2>5, <2>6, <2>7 DEF WrittenOff
<1> QED
  BY <1>3, <1>4

\* The transaction writes down its admission, and nothing else of where
\* references belong.
LEMMA TablesWritten ==
    ASSUME IngestInv, NEW d \in Delivery, NEW adm \in Admission, Fits(d.ref, adm),
           NEW row, Written(d, adm, row),
           UNCHANGED revocations \/ \E off : WrittenOff(d, adm, off)
    PROVE  /\ inbox' \subseteq InboxRow /\ revocations' \subseteq RevocationRow
           /\ \A m, n \in inbox' : m.type = n.type /\ m.ref = n.ref => m = n
           /\ \A m, n \in revocations' : m.ref = n.ref => m = n
           /\ Marks \subseteq Marks' /\ Marks' \subseteq Marks \cup {NewMark(d.ref, adm)}
           /\ MarkOf(row) \in Marks' /\ row.tenant = adm.tenant
<1> DEFINE kept == {n \in inbox : n.type # d.type \/ n.ref # d.ref}
<1>1. inbox' \subseteq InboxRow /\ \A m, n \in inbox' : m.type = n.type /\ m.ref = n.ref => m = n
  <2>1. row \in InboxRow /\ inbox' = kept \cup {row} /\ row.type = d.type /\ row.ref = d.ref
    BY DEF Written
  <2>2. inbox \subseteq InboxRow /\ \A m, n \in inbox : m.type = n.type /\ m.ref = n.ref => m = n
    BY DEF IngestInv, TablesSound
  <2> QED
    BY <2>1, <2>2
<1>2. revocations' \subseteq RevocationRow /\ \A m, n \in revocations' : m.ref = n.ref => m = n
  <2>1. revocations \subseteq RevocationRow /\ \A m, n \in revocations : m.ref = n.ref => m = n
    BY DEF IngestInv, TablesSound
  <2>2. CASE UNCHANGED revocations
    BY <2>1, <2>2
  <2>3. ASSUME NEW off, WrittenOff(d, adm, off)
        PROVE  revocations' \subseteq RevocationRow /\ \A m, n \in revocations' : m.ref = n.ref => m = n
    BY <2>1, <2>3 DEF WrittenOff
  <2> QED
    BY <2>2, <2>3
<1>3. /\ \A n \in inbox : \E x \in inbox' : MarkOf(x) = MarkOf(n)
      /\ \A x \in inbox' : MarkOf(x) = NewMark(d.ref, adm) \/ \E n \in inbox : MarkOf(x) = MarkOf(n)
  <2>1. ASSUME NEW n \in inbox PROVE \E x \in inbox' : MarkOf(x) = MarkOf(n)
    <3>1. CASE n \in kept
      BY <3>1 DEF Written
    <3>2. CASE n \notin kept
      <4>1. n \in FactRows(d)
        BY <3>2, FactFound
      <4>2. MarkOf(row) = MarkOf(n) /\ row \in inbox'
        BY <4>1 DEF Written
      <4> QED
        BY <4>2
    <3> QED
      BY <3>1, <3>2
  <2>2. ASSUME NEW x \in inbox'
        PROVE  MarkOf(x) = NewMark(d.ref, adm) \/ \E n \in inbox : MarkOf(x) = MarkOf(n)
    BY DEF Written
  <2> QED
    BY <2>1, <2>2
<1>4. /\ \A n \in revocations : \E x \in revocations' : MarkOf(x) = MarkOf(n)
      /\ \A x \in revocations' : MarkOf(x) = NewMark(d.ref, adm) \/ \E n \in revocations : MarkOf(x) = MarkOf(n)
  <2>1. CASE UNCHANGED revocations
    BY <2>1
  <2>2. ASSUME NEW off, WrittenOff(d, adm, off)
        PROVE  /\ \A n \in revocations : \E x \in revocations' : MarkOf(x) = MarkOf(n)
               /\ \A x \in revocations' :
                    MarkOf(x) = NewMark(d.ref, adm) \/ \E n \in revocations : MarkOf(x) = MarkOf(n)
    <3>1. \A m, n \in revocations : m.ref = n.ref => m = n
      BY DEF IngestInv, TablesSound
    <3> QED
      BY <2>2, <3>1 DEF WrittenOff
  <2> QED
    BY <2>1, <2>2
<1>5. Marks \subseteq Marks' /\ Marks' \subseteq Marks \cup {NewMark(d.ref, adm)}
  <2>1. \A m : m \in Marks <=> (\E n \in inbox : m = MarkOf(n)) \/ \E n \in revocations : m = MarkOf(n)
    BY DEF Marks
  <2>2. \A m : m \in Marks' <=> (\E n \in inbox' : m = MarkOf(n)) \/ \E n \in revocations' : m = MarkOf(n)
    BY DEF Marks, MarkOf
  <2>3. ASSUME NEW m \in Marks PROVE m \in Marks'
    BY <1>3, <1>4, <2>1, <2>2
  <2>4. ASSUME NEW m \in Marks' PROVE m \in Marks \cup {NewMark(d.ref, adm)}
    BY <1>3, <1>4, <2>1, <2>2
  <2> QED
    BY <2>3, <2>4
<1>6. row \in inbox' /\ MarkOf(row) \in Marks'
  BY DEF Written, Marks, MarkOf
<1>7. row.tenant = adm.tenant
  <2>1. CASE MarkOf(row) = NewMark(d.ref, adm)
    BY <2>1 DEF MarkOf, NewMark
  <2>2. CASE \E n \in inbox : MarkOf(row) = MarkOf(n)
    <3>1. MarkOf(row) \in Marks /\ MarkOf(row).ref = row.ref /\ MarkOf(row).tenant = row.tenant
      BY <2>2 DEF Marks, MarkOf
    <3>2. row.ref = d.ref
      BY DEF Written
    <3> QED
      BY <3>1, <3>2 DEF Fits
  <2> QED
    BY <2>1, <2>2 DEF Written
<1> QED
  BY <1>1, <1>2, <1>5, <1>6, <1>7

\* What a lead of the reference is found by.
LEMMA LeadFound ==
    ASSUME IngestInv, NEW d \in Delivery, NEW adm, Fits(d.ref, adm)
    PROVE  /\ FindLead(d.ref, adm.tenant) = {l \in leads : l.ref = d.ref}
           /\ \A l, m \in FindLead(d.ref, adm.tenant) : l = m
<1>1. ASSUME NEW l \in leads, l.ref = d.ref PROVE l.tenant = adm.tenant
  BY <1>1 DEF IngestInv, LeadsSound, Fits
<1>2. \A l, m \in leads : l.ref = m.ref => l = m
  BY DEF IngestInv, LeadsSound, OneLeadPerReference
<1> QED
  BY <1>1, <1>2 DEF FindLead

\* A consent after its contact's channels were revoked, as it was before.
After(rows, j) ==
    \E k \in rows : /\ k.contact = j.contact /\ k.ref = j.ref /\ k.channel = j.channel /\ k.allowed = j.allowed
                    /\ k.revoked => j.revoked

LEMMA ChannelsRevoked ==
    ASSUME NEW rows, NEW c, \A k \in rows : Consent(k)
    PROVE  \A j \in RevokeChannels(rows, c) :
             Consent(j) /\ After(rows, j) /\ (j.contact = c /\ j.channel \in Marketing => j.revoked)
<1> SUFFICES ASSUME NEW k \in rows, NEW j,
                    j = IF k.contact = c /\ k.channel \in Marketing THEN [k EXCEPT !.revoked = TRUE] ELSE k
             PROVE  Consent(j) /\ After(rows, j) /\ (j.contact = c /\ j.channel \in Marketing => j.revoked)
  BY DEF RevokeChannels
<1>1. Consent(k)
  OBVIOUS
<1>2. CASE k.contact = c /\ k.channel \in Marketing
  <2>1. j = [k EXCEPT !.revoked = TRUE]
    BY <1>2
  <2>2. /\ j.contact = k.contact /\ j.ref = k.ref /\ j.channel = k.channel /\ j.allowed = k.allowed
        /\ j.revoked = TRUE
        /\ j = [contact |-> k.contact, ref |-> k.ref, channel |-> k.channel, allowed |-> k.allowed, revoked |-> TRUE]
    BY <1>1, <2>1 DEF Consent
  <2> QED
    BY <1>1, <2>2 DEF Consent, After
<1>3. CASE ~(k.contact = c /\ k.channel \in Marketing)
  BY <1>1, <1>3 DEF After
<1> QED
  BY <1>2, <1>3

LEMMA AllowedRevoked ==
    ASSUME NEW rows, NEW c, \A k \in rows : Consent(k)
    PROVE  \A j \in RevokeAllowed(rows, c) : Consent(j) /\ After(rows, j)
<1> SUFFICES ASSUME NEW k \in rows, NEW j,
                    j = IF k.contact = c /\ k.allowed THEN [k EXCEPT !.revoked = TRUE] ELSE k
             PROVE  Consent(j) /\ After(rows, j)
  BY DEF RevokeAllowed
<1>1. Consent(k)
  OBVIOUS
<1>2. CASE k.contact = c /\ k.allowed
  <2>1. j = [k EXCEPT !.revoked = TRUE]
    BY <1>2
  <2>2. /\ j.contact = k.contact /\ j.ref = k.ref /\ j.channel = k.channel /\ j.allowed = k.allowed
        /\ j.revoked = TRUE
        /\ j = [contact |-> k.contact, ref |-> k.ref, channel |-> k.channel, allowed |-> k.allowed, revoked |-> TRUE]
    BY <1>1, <2>1 DEF Consent
  <2> QED
    BY <1>1, <2>2 DEF Consent, After
<1>3. CASE ~(k.contact = c /\ k.allowed)
  BY <1>1, <1>3 DEF After
<1> QED
  BY <1>2, <1>3

LEMMA RowsUpserted ==
    ASSUME NEW c, NEW r, NEW rec, NEW blocked, \A k \in consents : Consent(k)
    PROVE  \A j \in Upserted(c, r, rec, blocked) :
             \/ j \in consents
             \/ /\ Consent(j) /\ j.contact = c /\ j.ref = r
                /\ blocked /\ j.channel \in Marketing => ~j.allowed
<1> SUFFICES ASSUME NEW j \in Upserted(c, r, rec, blocked), j \notin consents
             PROVE  /\ Consent(j) /\ j.contact = c /\ j.ref = r
                    /\ blocked /\ j.channel \in Marketing => ~j.allowed
  OBVIOUS
<1>1. PICK ch \in Channels :
        j = [contact |-> c, ref |-> r, channel |-> ch,
             allowed |-> (ch \notin Marketing \/ (rec.marketing /\ ~blocked)), revoked |-> FALSE]
  BY DEF Upserted
<1>2. /\ j.contact = c /\ j.ref = r /\ j.channel = ch /\ j.revoked = FALSE
      /\ j.allowed = (ch \notin Marketing \/ (rec.marketing /\ ~blocked))
  BY <1>1
<1> QED
  BY <1>1, <1>2 DEF Consent

\* A revocation takes the permission of its reference, from the one contact
\* that can have it.
LEMMA RevocationStored ==
    ASSUME IngestInv, NEW d \in Delivery, NEW adm, Fits(d.ref, adm), StoreRevocation(d, adm),
           Marks \subseteq Marks'
    PROVE  LeadsSound' /\ MarketableOf' \subseteq MarketableOf \ {d.ref}
<1> DEFINE found == {l.contact : l \in FindLead(d.ref, adm.tenant)}
<1>1. /\ OneLeadPerReference
      /\ \A l \in leads : /\ l = [ref |-> l.ref, tenant |-> l.tenant, contact |-> l.contact]
                          /\ \E m \in Marks : m.ref = l.ref /\ m.tenant = l.tenant
      /\ \A k \in consents : Consent(k) /\ \E l \in leads : l.ref = k.ref /\ l.contact = k.contact
  BY DEF IngestInv, LeadsSound
<1>2. UNCHANGED leads
  BY DEF StoreRevocation
<1>3. \A k \in consents : k.ref = d.ref => k.contact \in found
  BY <1>1, LeadFound
<1>4. \A j \in consents' :
        /\ Consent(j) /\ After(consents, j)
        /\ j.ref = d.ref /\ j.channel \in Marketing => j.revoked
  <2>1. CASE found = {}
    <3>1. consents' = consents
      BY <2>1 DEF StoreRevocation
    <3> QED
      BY <1>1, <1>3, <2>1, <3>1 DEF After
  <2>2. CASE found # {}
    <3>1. PICK c \in found : c = CHOOSE x \in found : TRUE
      BY <2>2
    <3>2. \A b \in found : b = c
      BY LeadFound
    <3>3. PICK rows : rows = RevokeAllowed(consents, c)
      OBVIOUS
    <3>4. consents' = RevokeChannels(rows, c)
      BY <2>2, <3>1, <3>3 DEF StoreRevocation
    <3>5. \A k \in rows : Consent(k) /\ After(consents, k)
      BY <1>1, <3>3, AllowedRevoked
    <3>6. \A j \in consents' : Consent(j) /\ After(rows, j) /\ (j.contact = c /\ j.channel \in Marketing => j.revoked)
      BY <3>4, <3>5, ChannelsRevoked
    <3>7. \A j \in consents' : After(consents, j)
      BY <3>5, <3>6 DEF After
    <3> HIDE DEF found
    <3>8. \A j \in consents' : j.ref = d.ref => j.contact = c
      BY <1>3, <3>2, <3>7 DEF After
    <3> QED
      BY <3>6, <3>7, <3>8
  <2> QED
    BY <2>1, <2>2
<1>5. LeadsSound'
  <2>1. OneLeadPerReference'
    BY <1>1, <1>2 DEF OneLeadPerReference
  <2>2. \A l \in leads' : /\ l = [ref |-> l.ref, tenant |-> l.tenant, contact |-> l.contact]
                          /\ \E m \in Marks' : m.ref = l.ref /\ m.tenant = l.tenant
    BY <1>1, <1>2
  <2>3. \A k \in consents' : Consent(k) /\ \E l \in leads' : l.ref = k.ref /\ l.contact = k.contact
    BY <1>1, <1>2, <1>4 DEF After
  <2> QED
    BY <2>1, <2>2, <2>3 DEF LeadsSound, Consent
<1>6. MarketableOf' \subseteq MarketableOf \ {d.ref}
  <2>1. \A x \in MarketableOf' : \E j \in consents' : x = j.ref /\ j.channel \in Marketing /\ j.allowed /\ ~j.revoked
    BY DEF MarketableOf, Marketing
  <2>2. \A k \in consents : k.channel \in Marketing /\ k.allowed /\ ~k.revoked => k.ref \in MarketableOf
    BY DEF MarketableOf
  <2> QED
    BY <1>4, <2>1, <2>2 DEF After
<1> QED
  BY <1>5, <1>6

\* A submission gives permission only in its own name, and not once that has
\* been revoked.
LEMMA SubmissionStored ==
    ASSUME IngestInv, NEW d \in Delivery, NEW adm, Fits(d.ref, adm), NEW rec, StoreSubmission(d, adm, rec),
           Marks \subseteq Marks', \E m \in Marks' : m.ref = d.ref /\ m.tenant = adm.tenant
    PROVE  LeadsSound' /\ MarketableOf' \subseteq MarketableOf \cup ({d.ref} \ RevokedOf)
<1> DEFINE found == FindLead(d.ref, adm.tenant)
<1>0. d.ref \in Refs
  BY DEF Delivery
<1>1. /\ OneLeadPerReference
      /\ \A l \in leads : /\ l = [ref |-> l.ref, tenant |-> l.tenant, contact |-> l.contact]
                          /\ \E m \in Marks : m.ref = l.ref /\ m.tenant = l.tenant
      /\ \A k \in consents : Consent(k) /\ \E l \in leads : l.ref = k.ref /\ l.contact = k.contact
  BY DEF IngestInv, LeadsSound
<1>2. PICK c : c = IF found # {} THEN (CHOOSE l \in found : TRUE).contact ELSE IntakeContact(d.ref, adm.tenant)
  OBVIOUS
<1>3. PICK blocked : blocked = Blocked(d, rec)
  OBVIOUS
<1>4. PICK rows : rows = Upserted(c, d.ref, rec, blocked)
  OBVIOUS
<1>5. /\ leads' = IF found # {} THEN leads ELSE leads \cup {[ref |-> d.ref, tenant |-> adm.tenant, contact |-> c]}
      /\ consents' = IF blocked THEN RevokeChannels(rows, c) ELSE rows
  BY <1>2, <1>3, <1>4 DEF StoreSubmission
<1>6. \A j \in rows :
        /\ Consent(j)
        /\ j \in consents \/ (j.contact = c /\ j.ref = d.ref /\ (blocked /\ j.channel \in Marketing => ~j.allowed))
  BY <1>1, <1>4, RowsUpserted
<1>7. \A j \in consents' : Consent(j) /\ After(rows, j)
  <2>1. CASE blocked
    BY <1>5, <1>6, <2>1, ChannelsRevoked
  <2>2. CASE ~blocked
    BY <1>5, <1>6, <2>2 DEF After
  <2> QED
    BY <2>1, <2>2
<1>8. /\ leads \subseteq leads' /\ \E l \in leads' : l.ref = d.ref /\ l.contact = c
      /\ OneLeadPerReference'
      /\ \A l \in leads' : l \in leads \/ l = [ref |-> d.ref, tenant |-> adm.tenant, contact |-> c]
  <2>1. found = {l \in leads : l.ref = d.ref}
    BY LeadFound
  <2>2. CASE found # {}
    <3>1. leads' = leads
      BY <1>5, <2>2
    <3>2. \E l \in found : c = l.contact
      BY <1>2, <2>2
    <3> QED
      BY <1>1, <2>1, <3>1, <3>2 DEF OneLeadPerReference
  <2>3. CASE found = {}
    <3>1. PICK new : new = [ref |-> d.ref, tenant |-> adm.tenant, contact |-> c]
      OBVIOUS
    <3>2. leads' = leads \cup {new} /\ new.ref = d.ref /\ new.contact = c
      BY <1>5, <2>3, <3>1
    <3>3. \A l \in leads : l.ref # new.ref
      BY <2>1, <2>3, <3>2
    <3> QED
      BY <1>1, <3>1, <3>2, <3>3 DEF OneLeadPerReference
  <2> QED
    BY <2>2, <2>3
<1> HIDE DEF found
<1>9. LeadsSound'
  <2>1. \A l \in leads' : /\ l = [ref |-> l.ref, tenant |-> l.tenant, contact |-> l.contact]
                          /\ \E m \in Marks' : m.ref = l.ref /\ m.tenant = l.tenant
    BY <1>1, <1>8
  <2>2. \A k \in consents' : Consent(k) /\ \E l \in leads' : l.ref = k.ref /\ l.contact = k.contact
    <3> SUFFICES ASSUME NEW k \in consents'
                 PROVE  Consent(k) /\ \E l \in leads' : l.ref = k.ref /\ l.contact = k.contact
      OBVIOUS
    <3>1. PICK j \in rows : j.contact = k.contact /\ j.ref = k.ref
      BY <1>7 DEF After
    <3>2. CASE j \in consents
      BY <1>1, <1>7, <1>8, <3>1, <3>2
    <3>3. CASE j.contact = c /\ j.ref = d.ref
      BY <1>7, <1>8, <3>1, <3>3
    <3> QED
      BY <1>6, <3>2, <3>3
  <2> QED
    BY <1>8, <2>1, <2>2 DEF LeadsSound, Consent
<1>10. MarketableOf' \subseteq MarketableOf \cup ({d.ref} \ RevokedOf)
  <2>1. \A x \in MarketableOf' : \E j \in consents' : x = j.ref /\ j.channel \in Marketing /\ j.allowed /\ ~j.revoked
    BY DEF MarketableOf, Marketing
  <2>2. \A k \in consents : k.channel \in Marketing /\ k.allowed /\ ~k.revoked => k.ref \in MarketableOf
    BY DEF MarketableOf
  <2>3. ~blocked => d.ref \notin RevokedOf
    BY <1>0, <1>3, RevocationFound DEF Blocked, RevokedOf
  <2> SUFFICES ASSUME NEW x \in MarketableOf' PROVE x \in MarketableOf \/ (x = d.ref /\ ~blocked)
    BY <2>3
  <2>4. PICK j \in consents' : x = j.ref /\ j.channel \in Marketing /\ j.allowed /\ ~j.revoked
    BY <2>1
  <2>5. PICK k \in rows : k.ref = x /\ k.channel \in Marketing /\ k.allowed /\ ~k.revoked
    BY <1>7, <2>4 DEF After
  <2> QED
    BY <1>6, <2>2, <2>5
<1> QED
  BY <1>9, <1>10

FactOf(n) == [type |-> n.type, ref |-> n.ref, version |-> n.version, content |-> n.content]

\* The register of the fact moves up.
LEMMA FactClimbs ==
    ASSUME IngestInv, NEW d \in Delivery, NEW adm, NEW row, Written(d, adm, row),
           \A n \in FactRows(d) : n.version < d.version
    PROVE  FactOf(d) \in FactsOf' /\ Ledger!Climb(FactOf(d))
<1> DEFINE f == FactOf(d)
           kept == {g \in FactsOf : g.type # f.type \/ g.ref # f.ref}
<1>1. /\ \A x : x \in FactsOf <=> \E n \in inbox : x = FactOf(n)
      /\ \A x : x \in FactsOf' <=> \E n \in inbox' : x = FactOf(n)
  BY DEF FactsOf, FactOf
<1>2. \A n : FactOf(n).type = n.type /\ FactOf(n).ref = n.ref /\ FactOf(n).version = n.version
  BY DEF FactOf
<1>3. FactOf(row) = f /\ row \in inbox'
  BY DEF Written, FactOf
<1>4. FactRows(d) = {n \in inbox : n.type = d.type /\ n.ref = d.ref}
  BY FactFound
<1>5. \A g \in FactsOf \ kept : g.version < f.version
  BY <1>1, <1>2, <1>4
<1>6. FactsOf' = kept \cup {f}
  <2>1. \A n \in inbox' : n = row \/ (n \in inbox /\ (n.type # d.type \/ n.ref # d.ref))
    BY DEF Written
  <2>2. \A n \in inbox : n.type # d.type \/ n.ref # d.ref => n \in inbox'
    BY DEF Written
  <2>3. ASSUME NEW x \in FactsOf' PROVE x \in kept \cup {f}
    BY <1>1, <1>2, <1>3, <2>1
  <2>4. ASSUME NEW x \in kept \cup {f} PROVE x \in FactsOf'
    BY <1>1, <1>2, <1>3, <2>2
  <2> QED
    BY <2>3, <2>4
<1> QED
  BY <1>5, <1>6 DEF Ledger!Climb

Simulated == [Ledger!Next]_(Ledger!lvars)

LEMMA AbstractedSimulated ==
    ASSUME Abstracted
    PROVE  Simulated
  BY DEF Abstracted, Simulated, Ledger!lvars

LEMMA StoreKeeps ==
    ASSUME IngestInv, NEW h \in Handlers, NEW rec \in Record, Store(h, rec)
    PROVE  IngestInv' /\ Simulated
<1>1. PICK d : d = handlers[h].delivery
  OBVIOUS
<1>2. PICK adm : adm = Pinned(h)
  OBVIOUS
<1>3. At(h, "fetch") /\ d \in Delivery
  BY <1>1 DEF Store, IngestInv, TablesSound, HandlerSound, At
<1>4. adm \in Admission /\ Fits(d.ref, adm)
  BY <1>1, <1>2, <1>3, PinnedFits
<1> DEFINE seen == {n \in FactRows(d) : Outdated(d, n)}
<1>5. CASE Answered(d, seen)
  <2>1. Acknowledge(h)
    BY <1>1, <1>5 DEF Store
  <2>2. Done(h) /\ acknowledged' = acknowledged \cup {d} /\ UNCHANGED <<list, inbox, revocations, leads, consents>>
    BY <1>1, <2>1 DEF Acknowledge, crm
  <2>3. \E n \in inbox :
             /\ n.type = d.type /\ n.ref = d.ref
             /\ n.version > d.version \/ (n.version = d.version /\ n.content = d.content)
    BY <1>3, <1>5, AnsweredIsStored DEF Outdated
  <2>4. AnswersSound'
    BY <1>3, <2>2, <2>3 DEF IngestInv, AnswersSound, AcknowledgedIsStored
  <2> QED
    BY <2>2, <2>4, DoneKeeps, AbstractedSimulated
<1>6. CASE /\ ~Answered(d, seen)
           /\ Conflicting(d) \/ Torn(d) \/ ~Agree(RevocationRows(d.ref)) \/ \E n \in FactRows(d) : d.version = n.version
  <2>1. Refuse(h)
    BY <1>1, <1>6 DEF Store
  <2> QED
    BY <2>1, RefuseKeeps, AbstractedSimulated
<1>7. CASE /\ ~Answered(d, seen) /\ ~Conflicting(d)
           /\ ~\E n \in FactRows(d) : d.version = n.version
           /\ (d.type = Revoked \/ rec.authorization = "revoked" => StoreRevocation(d, adm))
           /\ (~(d.type = Revoked \/ rec.authorization = "revoked") => StoreSubmission(d, adm, rec))
           /\ WriteInbox(d, adm) /\ Done(h)
           /\ acknowledged' = acknowledged \cup {d} /\ UNCHANGED list
  <2>1. \A n \in FactRows(d) : n.version < d.version
    BY <1>3, <1>7, StoredIsNewer
  <2>2. PICK row : Written(d, adm, row)
    BY <1>3, <1>4, <1>7, InboxWritten
  <2>4. UNCHANGED revocations \/ \E off : WrittenOff(d, adm, off)
    BY <1>3, <1>4, <1>7, RevocationsWritten DEF StoreRevocation, StoreSubmission
  <2>5. /\ inbox' \subseteq InboxRow /\ revocations' \subseteq RevocationRow
        /\ \A m, n \in inbox' : m.type = n.type /\ m.ref = n.ref => m = n
        /\ \A m, n \in revocations' : m.ref = n.ref => m = n
        /\ Marks \subseteq Marks' /\ Marks' \subseteq Marks \cup {NewMark(d.ref, adm)}
        /\ MarkOf(row) \in Marks' /\ row.tenant = adm.tenant
    BY <1>3, <1>4, <2>2, <2>4, TablesWritten
  <2>6. MarksAgree' /\ \A r, a : Fits(r, a) => Fits(r, a)'
    BY <1>4, <1>7, <2>5, MarksGrow DEF NewMark
  <2>7. PICK x : x = IdleHandler
    OBVIOUS
  <2>8. DOMAIN handlers' = Handlers /\ \A k \in Handlers : HandlerSound(k)' /\ Placed(k)'
    <3>1. x.pc = "idle" /\ handlers' = [handlers EXCEPT ![h] = x]
      BY <1>7, <2>7 DEF IdleHandler, Done
    <3> QED
      BY <2>6, <3>1, HandlersMove
  <2>9. AnswersSound'
    <3>0. acknowledged' \subseteq Delivery /\ acknowledged \subseteq Delivery
      BY <1>3, <1>7 DEF IngestInv, AnswersSound
    <3> SUFFICES ASSUME NEW e \in acknowledged'
                 PROVE  \E n \in inbox' :
                          /\ n.type = e.type /\ n.ref = e.ref
                          /\ n.version > e.version \/ (n.version = e.version /\ n.content = e.content)
      BY <3>0 DEF AnswersSound, AcknowledgedIsStored
    <3>1. row \in inbox' /\ row.type = d.type /\ row.ref = d.ref /\ row.version = d.version /\ row.content = d.content
      BY <2>2 DEF Written
    <3>2. CASE e = d
      BY <3>1, <3>2
    <3>3. CASE e # d
      <4>1. PICK n \in inbox :
              /\ n.type = e.type /\ n.ref = e.ref
              /\ n.version > e.version \/ (n.version = e.version /\ n.content = e.content)
        BY <1>7, <3>3 DEF IngestInv, AnswersSound, AcknowledgedIsStored
      <4>2. CASE n.type # d.type \/ n.ref # d.ref
        BY <2>2, <4>1, <4>2 DEF Written
      <4>3. CASE n.type = d.type /\ n.ref = d.ref
        <5>1. n.version < d.version
          BY <1>3, <2>1, <4>3, FactFound
        <5>2. n.version \in Nat /\ d.version \in Nat /\ e.version \in Nat
          BY <1>3, <3>0, IngestAssumption DEF IngestInv, TablesSound, InboxRow, Delivery
        <5>3. n.version >= e.version
          BY <4>1, <5>2
        <5>4. d.version > e.version
          BY <4>1, <5>1, <5>2
        <5> QED
          BY <3>1, <4>1, <4>3, <5>4
      <4> QED
        BY <4>2, <4>3
    <3> QED
      BY <3>2, <3>3
  <2>10. list' \in Bindings
    BY <1>7 DEF IngestInv, TablesSound
  <2>11. TablesSound' /\ MarksSound'
    BY <2>5, <2>6, <2>8, <2>10 DEF TablesSound, MarksSound, InboxRow, RevocationRow
  <2>12. FactOf(d) \in FactsOf' /\ Ledger!Climb(FactOf(d)) /\ FactOf(d).ref = d.ref
    BY <1>3, <2>1, <2>2, FactClimbs DEF FactOf
  <2>13. CASE d.type = Revoked \/ rec.authorization = "revoked"
    <3>1. StoreRevocation(d, adm)
      BY <1>7, <2>13
    <3>2. LeadsSound' /\ MarketableOf' \subseteq MarketableOf \ {d.ref}
      BY <1>3, <1>4, <2>5, <3>1, RevocationStored
    <3>3. RevokedOf' = RevokedOf \cup {d.ref}
      <4>1. PICK off : WrittenOff(d, adm, off)
        BY <1>3, <1>4, <3>1, RevocationsWritten DEF StoreRevocation
      <4> QED
        BY <4>1 DEF RevokedOf, WrittenOff
    <3>4. Ledger!Revoke(FactOf(d))
      BY <2>12, <3>2, <3>3 DEF Ledger!Revoke
    <3> QED
      BY <2>9, <2>11, <2>12, <3>2, <3>4 DEF IngestInv, Simulated, Ledger!Next
  <2>14. CASE ~(d.type = Revoked \/ rec.authorization = "revoked")
    <3>1. StoreSubmission(d, adm, rec)
      BY <1>7, <2>14
    <3>2. \E m \in Marks' : m.ref = d.ref /\ m.tenant = adm.tenant
      BY <2>2, <2>5 DEF MarkOf, Written
    <3>3. LeadsSound' /\ MarketableOf' \subseteq MarketableOf \cup ({d.ref} \ RevokedOf)
      BY <1>3, <1>4, <2>5, <3>1, <3>2, SubmissionStored
    <3>4. UNCHANGED RevokedOf
      BY <3>1 DEF RevokedOf, StoreSubmission
    <3>5. Ledger!Submit(FactOf(d))
      BY <2>12, <3>3, <3>4 DEF Ledger!Submit
    <3> QED
      BY <2>9, <2>11, <2>12, <3>3, <3>5 DEF IngestInv, Simulated, Ledger!Next
  <2> QED
    BY <2>13, <2>14
<1> QED
  BY <1>1, <1>2, <1>5, <1>6, <1>7 DEF Store

-----------------------------------------------------------------------------
(* The surroundings, and the theorems.                                     *)

LEMMA RestartKeeps ==
    ASSUME IngestInv, Restart
    PROVE  IngestInv' /\ Abstracted
<1>1. /\ UNCHANGED <<inbox, revocations, leads, consents, acknowledged>> /\ list' \in Bindings
      /\ handlers' = [h \in Handlers |-> IdleHandler]
  BY DEF Restart, crm
<1>2. AnswersSound'
  BY <1>1 DEF IngestInv, AnswersSound, AcknowledgedIsStored
<1>3. IdleHandler.pc = "idle"
  BY DEF IdleHandler
<1>4. \A k \in Handlers : HandlerSound(k)' /\ Placed(k)'
  BY <1>1, <1>3 DEF HandlerSound, Placed
<1> QED
  BY <1>1, <1>2, <1>4, NothingStored

\* Tenants and contacts decide only what comes in next.
LEMMA ElsewhereKeeps ==
    ASSUME IngestInv, UNCHANGED <<list, inbox, revocations, leads, consents, handlers, acknowledged>>
    PROVE  IngestInv' /\ Abstracted
<1>1. AnswersSound'
  BY DEF IngestInv, AnswersSound, AcknowledgedIsStored
<1>2. DOMAIN handlers' = Handlers /\ list' \in Bindings
  BY DEF IngestInv, TablesSound
<1>3. ASSUME NEW k \in Handlers PROVE HandlerSound(k)' /\ Placed(k)'
  <2>1. \A r, a : Fits(r, a) => Fits(r, a)'
    BY FitsSame
  <2>2. PICK y : y = handlers[k]
    OBVIOUS
  <2>3. y.pc = "fetch" => Fits(y.delivery.ref, y.admission)'
    BY <2>1, <2>2 DEF IngestInv, MarksSound, Placed
  <2> QED
    BY <2>2, <2>3 DEF IngestInv, TablesSound, HandlerSound, Placed, Fits
<1> QED
  BY <1>1, <1>2, <1>3, NothingStored

LEMMA StepKeeps == IngestInv /\ [Next]_vars => IngestInv' /\ Simulated
<1> SUFFICES ASSUME IngestInv, [Next]_vars PROVE IngestInv' /\ Simulated
  OBVIOUS
<1>1. ASSUME NEW h \in Handlers, NEW d \in Delivery, Receive(h, d) PROVE IngestInv' /\ Simulated
  BY <1>1, ReceiveKeeps, AbstractedSimulated
<1>2. ASSUME NEW h \in Handlers, Admit(h) PROVE IngestInv' /\ Simulated
  BY <1>2, AdmitKeeps, AbstractedSimulated
<1>3. ASSUME NEW h \in Handlers, FetchFails(h) PROVE IngestInv' /\ Simulated
  BY <1>3, RefuseKeeps, AbstractedSimulated DEF FetchFails
<1>4. ASSUME NEW h \in Handlers, NEW rec \in Record, Store(h, rec) PROVE IngestInv' /\ Simulated
  BY <1>4, StoreKeeps
<1>5. CASE Restart
  BY <1>5, RestartKeeps, AbstractedSimulated
<1>6. ASSUME NEW t \in Tenants, CreateTenant(t) PROVE IngestInv' /\ Simulated
  BY <1>6, ElsewhereKeeps, AbstractedSimulated DEF CreateTenant, crm
<1>7. ASSUME NEW c \in Contacts, SoftDeleteContact(c) PROVE IngestInv' /\ Simulated
  BY <1>7, ElsewhereKeeps, AbstractedSimulated DEF SoftDeleteContact
<1>8. CASE UNCHANGED vars
  BY <1>8, ElsewhereKeeps, AbstractedSimulated DEF vars, crm
<1> QED
  BY <1>1, <1>2, <1>3, <1>4, <1>5, <1>6, <1>7, <1>8 DEF Next

LEMMA StartSound == Init => IngestInv /\ Ledger!Init
<1> SUFFICES ASSUME Init PROVE IngestInv /\ Ledger!Init
  OBVIOUS
<1>1. /\ inbox \subseteq LegacyRow /\ \A m, n \in inbox : m.ref = n.ref => m.tenant = n.tenant /\ (m.type = n.type => m = n)
      /\ revocations = {} /\ leads = {} /\ consents = {} /\ acknowledged = {} /\ list \in Bindings
      /\ handlers = [h \in Handlers |-> IdleHandler]
  BY LegacyAssumption DEF Init
<1>2. inbox \subseteq InboxRow
  BY <1>1, IngestAssumption DEF LegacyRow, InboxRow, Bases
<1>3. \A n \in inbox : n.basis = "legacy_stored_tenant" /\ n.source = n.tenant
  BY <1>1 DEF LegacyRow
<1>4. IdleHandler.pc = "idle"
  BY DEF IdleHandler
<1>5. TablesSound
  BY <1>1, <1>2, <1>4 DEF TablesSound, HandlerSound
<1>6. \A m \in Marks : \E n \in inbox : m = MarkOf(n)
  BY <1>1 DEF Marks
<1>7. \A m \in Marks : ~Recent(m)
  BY <1>3, <1>6 DEF MarkOf, Recent
<1>8. \A m, n \in Marks : m.ref = n.ref => m.tenant = n.tenant
  BY <1>1, <1>6 DEF MarkOf
<1>9. MarksSound
  BY <1>1, <1>4, <1>7, <1>8 DEF MarksSound, MarksAgree, Placed
<1>10. LeadsSound /\ AnswersSound
  BY <1>1 DEF LeadsSound, OneLeadPerReference, AnswersSound, AcknowledgedIsStored
<1>11. RevokedOf = {} /\ MarketableOf = {}
  BY <1>1 DEF RevokedOf, MarketableOf
<1>12. /\ FactsOf \in SUBSET [type : Types, ref : Refs, version : Nat, content : Contents]
       /\ \A f, g \in FactsOf : f.type = g.type /\ f.ref = g.ref => f = g
  <2>1. \A x \in FactsOf : \E n \in inbox : x = FactOf(n)
    BY DEF FactsOf, FactOf
  <2>2. \A n \in inbox : FactOf(n) \in [type : Types, ref : Refs, version : Nat, content : Contents]
    BY <1>2 DEF InboxRow, FactOf
  <2>3. \A m, n \in inbox : FactOf(m).type = FactOf(n).type /\ FactOf(m).ref = FactOf(n).ref => m = n
    BY <1>1 DEF FactOf
  <2> QED
    BY <2>1, <2>2, <2>3
<1> QED
  BY <1>5, <1>9, <1>10, <1>11, <1>12 DEF IngestInv, Ledger!Init

LEMMA AlwaysIngestInv == Spec => []IngestInv
  BY StartSound, StepKeeps, PTL DEF Spec

\* An answer of 200 never covers for a content that is not in the inbox, unless
\* something newer is (handleNotifyIngest).
THEOREM AnswersTell == Spec => []AcknowledgedIsStored
  BY AlwaysIngestInv, PTL DEF IngestInv, AnswersSound

\* A reference makes one lead, however many handlers work on it at once
\* (handleNotifyIngest, IntakeLeadInTx).
THEOREM OneLeadOnly == Spec => []OneLeadPerReference
  BY AlwaysIngestInv, PTL DEF IngestInv, LeadsSound

\* All of a reference is in one tenant, through restarts with other lists
\* (admitNotifyTenant, StickyNotifyMap).
THEOREM ReferencesStayHome == Spec => []ReferenceInOneTenant
<1>1. IngestInv => ReferenceInOneTenant
  <2> SUFFICES ASSUME IngestInv, NEW m \in inbox \cup revocations \cup leads,
                      NEW n \in inbox \cup revocations \cup leads, m.ref = n.ref
               PROVE  m.tenant = n.tenant
    BY DEF ReferenceInOneTenant
  <2>1. ASSUME NEW x \in inbox \cup revocations \cup leads
        PROVE  \E k \in Marks : k.ref = x.ref /\ k.tenant = x.tenant
    <3>1. CASE x \in inbox \cup revocations
      <4>1. MarkOf(x) \in Marks /\ MarkOf(x).ref = x.ref /\ MarkOf(x).tenant = x.tenant
        BY <3>1 DEF Marks, MarkOf
      <4> QED
        BY <4>1
    <3>2. CASE x \in leads
      BY <3>2 DEF IngestInv, LeadsSound
    <3> QED
      BY <3>1, <3>2
  <2> QED
    BY <2>1 DEF IngestInv, MarksSound, MarksAgree
<1> QED
  BY <1>1, AlwaysIngestInv, PTL

\* What does not continue a legacy row goes where the rest of its source went
\* (tenantmap.Resolve).
THEOREM SourcesStayHome == Spec => []OneTargetPerSource
<1>1. IngestInv => OneTargetPerSource
  <2> SUFFICES ASSUME IngestInv, NEW m \in inbox, NEW n \in inbox, m.source = n.source,
                      m.basis # "legacy_stored_tenant", n.basis # "legacy_stored_tenant"
               PROVE  m.tenant = n.tenant
    BY DEF OneTargetPerSource
  <2>1. \A x \in inbox : /\ MarkOf(x) \in Marks /\ MarkOf(x).tenant = x.tenant
                         /\ MarkOf(x).source = x.source /\ MarkOf(x).basis = x.basis
    BY DEF Marks, MarkOf
  <2> QED
    BY <2>1 DEF IngestInv, MarksSound, MarksAgree, Recent
<1> QED
  BY <1>1, AlwaysIngestInv, PTL

\* The receiver is the ledger of facts: versions climb, and once a revocation
\* is stored no marketing consent given with its reference comes into force
\* (handleNotifyIngest, UpsertNotifyRevocationTx, upsertConsentTx).
THEOREM ReceiverIsALedger == Spec => ImplementsFactLedger
<1>1. IngestInv /\ [Next]_vars => [Ledger!Next]_(Ledger!lvars)
  BY StepKeeps DEF Simulated
<1> QED
  BY <1>1, StartSound, AlwaysIngestInv, PTL DEF Spec, ImplementsFactLedger, Ledger!Spec
=============================================================================
