------------------------------ MODULE DeskContacts ------------------------------
(***************************************************************************)
(* What staff do to the contacts that the intake finds by their phones and *)
(* that leads and consents lie with: patches, deletion, merging, undoing.  *)
(* Source: UpdateContact of store/store.go, handleContactPatch of          *)
(* httpapi/handlers_business.go, SoftDeleteContact of                      *)
(* store/contact_profile.go, store/contact_merge.go.                       *)
(*                                                                         *)
(* Of a contact there is its phone, of a candidate its being there: what   *)
(* merging makes of the other fields, of opportunities, of a candidate's   *)
(* status and of categories is in ContactMerge.  A submission and an event *)
(* have one consent ever, so none meets its like in a merge here.          *)
(***************************************************************************)
EXTENDS LeadDesk

VARIABLES
    merges      \* contact_merges, oldest first: the two contacts with the phones
                \* they had; moved and consents, what went over; leads and refs,
                \* which leads and consents there were; edited, the target's
                \* updated_at is later; undone

MergesInit == merges = <<>>

\* A contact that is given a number.
Rewritten(i, phone) ==
    [contacts[i] EXCEPT !.phone = phone, !.since = IF phone = contacts[i].phone THEN @ ELSE Len(contacts) + 1]

\* The rows of who are written, at an instant after the first n merges.
Stamped(who, n) ==
    [m \in DOMAIN merges |-> [merges[m] EXCEPT !.edited = @ \/ (m <= n /\ merges[m].target \in who)]]

-----------------------------------------------------------------------------
(* One contact.                                                            *)

\* UpdateContact reads the row once more, and writes every field back: phone is
\* the new one, or the one it read.
PatchContact(c, i, phone) ==
    /\ contacts[i].live
    /\ Start(c, [op |-> "contact", contact |-> i, phone |-> phone, merges |-> Len(merges)])
    /\ UNCHANGED <<deskVars, merges>>

\* What was deleted meanwhile stays as it is.  updated_at is some instant
\* between the read and the write.
UpdateContact(c) ==
    LET call == calls[c]
        i == call.contact
    IN  /\ At(c, "contact") /\ Finish(c)
        /\ IF contacts[i].live
             THEN /\ contacts' = [contacts EXCEPT ![i] = Rewritten(i, call.phone)]
                  /\ \E n \in call.merges..Len(merges) : merges' = Stamped({i}, n)
             ELSE UNCHANGED <<contacts, merges>>
        /\ UNCHANGED <<candidates, leads, ledger, consents, sourceRefs, submissions, entitled>>

\* Deleting masks the row; what refers to it stays.
SoftDeleteContact(i) ==
    /\ AtOnce
    /\ contacts[i].live
    /\ contacts' = [contacts EXCEPT ![i] = [Rewritten(i, NoPhone) EXCEPT !.live = FALSE]]
    /\ merges' = Stamped({i}, Len(merges))
    /\ UNCHANGED <<candidates, leads, ledger, consents, sourceRefs, submissions, entitled>>

-----------------------------------------------------------------------------
(* Two contacts.                                                           *)

LeadsOf(i) == {l \in DOMAIN leads : leads[l].contact = i}
ConsentsOf(i) == {k \in consents : k.contact = i}

\* repointTx
MovedLeads(moved, to) == [l \in DOMAIN leads |-> IF l \in moved THEN [leads[l] EXCEPT !.contact = to] ELSE leads[l]]
MovedConsents(refs, to) == {IF k.ref \in refs THEN [k EXCEPT !.contact = to] ELSE k : k \in consents}

\* The target keeps its phone, or takes the source's when it has none; the
\* source is masked as in a deletion.
MergeContacts(t, s) ==
    LET moved == LeadsOf(s)
        refs == {k.ref : k \in ConsentsOf(s)}
    IN  /\ AtOnce
        /\ t # s /\ contacts[t].live /\ contacts[s].live
        /\ contacts' = [contacts EXCEPT
             ![t] = Rewritten(t, IF contacts[t].phone = NoPhone THEN contacts[s].phone ELSE contacts[t].phone),
             ![s] = [Rewritten(s, NoPhone) EXCEPT !.live = FALSE]]
        /\ leads' = MovedLeads(moved, t)
        /\ consents' = MovedConsents(refs, t)
        /\ merges' = Append(Stamped({t, s}, Len(merges)),
             [target |-> t, source |-> s, targetPhone |-> contacts[t].phone, sourcePhone |-> contacts[s].phone,
              moved |-> moved, consents |-> refs, leads |-> Len(leads), refs |-> {k.ref : k \in consents},
              edited |-> FALSE, undone |-> FALSE])
        /\ UNCHANGED <<candidates, ledger, sourceRefs, submissions, entitled>>

Touches(m, i) == i \in {merges[m].target, merges[m].source}

\* Later merges count even when they were undone.
SubsequentWrites(m) ==
    \/ merges[m].edited
    \/ \E l \in LeadsOf(merges[m].target) : l > merges[m].leads
    \/ \E k \in ConsentsOf(merges[m].target) : k.ref \notin merges[m].refs
    \/ \E n \in DOMAIN merges : n > m /\ (Touches(n, merges[m].target) \/ Touches(n, merges[m].source))

\* MUTANT of LeadsBack: whatever is the target's goes to the source.
LeadsOfTargetBack(m) == MovedLeads(LeadsOf(merges[m].target), merges[m].source)

LeadsBack(m) == MovedLeads(merges[m].moved, merges[m].source)

UndoContactMerge(m) ==
    LET row == merges[m]
    IN  /\ AtOnce
        /\ ~row.undone /\ ~SubsequentWrites(m)
        /\ contacts' = [contacts EXCEPT
             ![row.source] = [Rewritten(row.source, row.sourcePhone) EXCEPT !.live = TRUE],
             ![row.target] = Rewritten(row.target, row.targetPhone)]
        /\ leads' = LeadsBack(m)
        /\ consents' = MovedConsents(row.consents, row.source)
        /\ merges' = [Stamped({row.source, row.target}, Len(merges)) EXCEPT ![m].undone = TRUE]
        /\ UNCHANGED <<candidates, ledger, sourceRefs, submissions, entitled>>

ContactNext ==
    \/ \E c \in Callers :
        \/ Free(c) /\ \E i \in DOMAIN contacts, phone \in Phones \cup {NoPhone} : PatchContact(c, i, phone)
        \/ UpdateContact(c)
    \/ /\ Room
       /\ \/ \E i \in DOMAIN contacts : SoftDeleteContact(i)
          \/ \E t, s \in DOMAIN contacts : MergeContacts(t, s)
          \/ \E m \in DOMAIN merges : UndoContactMerge(m)

-----------------------------------------------------------------------------
\* Where merges that stand have carried what was home's.
Carried(home, by) == IF by = {} THEN home ELSE merges[CHOOSE m \in by : \A n \in by : n <= m].target

\* The standing merges that moved a lead, or the consent of a reference.
CarriersOf(l) == {m \in DOMAIN merges : ~merges[m].undone /\ l \in merges[m].moved}
ConsentCarriers(ref) == {m \in DOMAIN merges : ~merges[m].undone /\ ref \in merges[m].consents}

\* One consultation, one lead, and with the right person: besides what
\* LedgerRowsExact says of keys, leads and phones, the lead lies with the contact
\* the intake gave it or where standing merges have carried it, through merges
\* of merged contacts and undos in any order allowed.
LedgerExact ==
    /\ LedgerRowsExact
    /\ \A e \in ledger : leads[e.lead].contact = Carried(e.contact, CarriersOf(e.lead))

\* A submission answers for the lead that the ledger holds for its family and
\* reference and is stored once; its one consent says what the visitor ticked,
\* and lies with that contact, or where standing merges have carried it.
SubmissionsBacked ==
    \A s \in submissions :
        /\ \E e \in ledger : e.key = <<"form", s.ref>> /\ e.lead = s.lead /\ e.contact = s.contact
        /\ \E k \in consents :
             /\ k.ref = <<s.form, s.source, s.ref>> /\ k.allowed = s.allowed
             /\ k.contact = Carried(s.contact, ConsentCarriers(k.ref))
             /\ \A other \in consents : other.ref = k.ref => other = k
        /\ \A t \in submissions : t.form = s.form /\ t.source = s.source /\ t.ref = s.ref => t = s
=============================================================================
