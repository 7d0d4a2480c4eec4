-------------------------- MODULE EnterpriseDirectory --------------------------
(***************************************************************************)
(* Companies a customer imports, refreshes, makes leads of through the     *)
(* intake, and refuses or deletes for good.  Source:                       *)
(* store/enterprise_directory.go, httpapi/handlers_enterprise_directory.go.*)
(*                                                                         *)
(* One import source.  A profile is what content_sha covers; the persons   *)
(* beside it, dates and licences decide nothing here.                      *)
(***************************************************************************)
EXTENDS ChannelInteractions

CONSTANTS
    Companies,      \* enterprise ids of the source
    Profiles,       \* what an import may say of a company
    SomeCompanies   \* what may have been imported at the start

Reasons == {"refused", "deleted"}
Company == [profile : Profiles, status : {"draft", "confirmed"} \cup Reasons, conflict : BOOLEAN, lead : Nat]

ASSUME EnterpriseAssumption ==
    /\ Profiles \subseteq [name : STRING, region : Tags]
    /\ \A rows \in SomeCompanies :
        /\ rows \in [DOMAIN rows -> Company] /\ DOMAIN rows \subseteq Companies
        /\ \A e \in DOMAIN rows : rows[e].status = "draft"

VARIABLES
    companies,      \* enterprise_records, by enterprise id
    suppressions    \* enterprise_suppressions: the reason, by enterprise id

enterpriseVars == <<companies, suppressions>>

EnterpriseInit ==
    /\ companies \in SomeCompanies /\ suppressions = <<>>
    /\ companies # <<>> => contacts = <<>> /\ grants = {} /\ \A i \in DOMAIN pool : pool[i].current = 0

Suppression(e) == Stored(suppressions, e)

-----------------------------------------------------------------------------
(* The import.                                                             *)

\* MUTANT of Differs: the flag says whether this import changed something.
DiffersFromLast(row, profile) == row.profile # profile

\* Once set, the flag stays.
Differs(row, profile) == row.conflict \/ row.profile # profile

\* upsertEnterpriseRecordTx: a suppression decides the status, whatever comes.
Upserted(e, profile) ==
    LET row == IF e \in DOMAIN companies
               THEN [companies[e] EXCEPT !.profile = profile, !.conflict = Differs(companies[e], profile)]
               ELSE [profile |-> profile, status |-> "draft", conflict |-> FALSE, lead |-> 0]
    IN  [row EXCEPT !.status = IF Suppression(e) = {} THEN @ ELSE suppressions[e]]

\* validateEnterpriseImport
Batches == UNION {[batch -> Profiles] : batch \in SUBSET Companies \ {{}}}

\* UpsertEnterpriseImport: one transaction, whatever the age of the data.
UpsertEnterpriseImport(batch) ==
    companies' = [e \in DOMAIN companies \cup DOMAIN batch |->
                    IF e \in DOMAIN batch THEN Upserted(e, batch[e]) ELSE companies[e]]

Import(batch) ==
    /\ AtOnce /\ MayCreate
    /\ UpsertEnterpriseImport(batch)
    /\ UNCHANGED <<forms, poolVars, deskVars, suppressions>>

-----------------------------------------------------------------------------
(* Into the pool of leads, and out of it for good.                         *)

CompanyKey(e) == <<"company", e>>

\* MUTANT of Confirmable: any row may be confirmed.
ConfirmableAlways(e) == TRUE

Confirmable(e) == Suppression(e) = {} /\ companies[e].status \notin Reasons

\* ConfirmEnterpriseRecord: of a person only the company's name goes on.  Other
\* data than the lead was made of are refused, and provenance and flag stored.
ConfirmEnterpriseRecord(e) ==
    LET key == CompanyKey(e)
        profile == companies[e].profile
        content == [phone |-> NoPhone, profile |-> profile]
        source == FindSourceRef(key)
        confirm(lead) ==
            companies' = [companies EXCEPT ![e].status = "confirmed", ![e].lead = lead]
    IN  /\ Confirmable(e)
        /\ sourceRefs' = IF source = 0 THEN Append(sourceRefs, key) ELSE sourceRefs
        /\ \/ /\ Conflict(key, content)
              /\ companies' = [companies EXCEPT ![e].conflict = TRUE]
              /\ UNCHANGED <<poolVars, contacts, candidates, leads, ledger, entitled>>
           \/ \E o \in Original(key) :
              /\ o.content = content /\ confirm(o.lead)
              /\ UNCHANGED <<poolVars, contacts, candidates, leads, ledger, entitled>>
           \/ /\ FirstIntake(key, content, [phone |-> NoPhone, bad |-> {}, region |-> profile.region],
                             IF source = 0 THEN Len(sourceRefs') ELSE source, TRUE)
              /\ confirm(Len(leads'))

Confirm(e) ==
    /\ AtOnce /\ MayCreate
    /\ ConfirmEnterpriseRecord(e)
    /\ UNCHANGED <<forms, consents, submissions, suppressions>>

\* statusForSuppression, suppressionReasonTx: the first reason stays.
Reason(e, reason) == IF Suppression(e) = {} THEN reason ELSE suppressions[e]

\* RevokeMarketingTx
MarketingRevoked(who) == {IF k.contact \in who /\ k.allowed THEN [k EXCEPT !.revoked = TRUE] ELSE k : k \in consents}

\* SuppressEnterpriseRecord.  The contact is the one the confirmation stored.
Suppress(e, reason) ==
    /\ AtOnce /\ MayCreate
    /\ suppressions' = Put(suppressions, e, Reason(e, reason))
    /\ companies' = [companies EXCEPT ![e].status = Reason(e, reason)]
    /\ consents' = MarketingRevoked({o.contact : o \in {d \in Original(CompanyKey(e)) : d.lead = companies[e].lead}})
    /\ UNCHANGED <<forms, poolVars, contacts, candidates, leads, ledger, sourceRefs, submissions, entitled>>

EnterpriseNext ==
    \/ \E batch \in Batches : Import(batch)
    \/ \E e \in DOMAIN companies : Confirm(e) \/ \E reason \in Reasons : Suppress(e, reason)

-----------------------------------------------------------------------------
\* A company that counts as confirmed names the lead the ledger holds for it,
\* and one whose lead was made of other data than it shows says so, through
\* any refreshes (handlers_enterprise_directory.go: "已标记冲突，未覆盖原线索").
CompaniesBacked ==
    \A e \in DOMAIN companies :
        LET made == Original(CompanyKey(e)) IN
        /\ companies[e].status = "confirmed" => \E d \in made : d.lead = companies[e].lead
        /\ \A d \in made : d.content.profile # companies[e].profile => companies[e].conflict

\* Whatever a lead was made from answers for it: submissions and companies.
OriginsBacked == SubmissionsBacked /\ CompaniesBacked

\* A company once refused or deleted stays so, for the first reason, and no
\* refresh leads it back into the pool (enterprise_directory.go:7).
SuppressedMakesNoLead ==
    [][\A e \in DOMAIN suppressions :
        /\ e \in DOMAIN suppressions' /\ suppressions'[e] = suppressions[e]
        /\ companies'[e].status = suppressions[e]
        /\ \A d \in ledger' \ ledger : d.key # CompanyKey(e)]_<<deskVars, enterpriseVars>>

\* PROPERTY (TakenBackMakesNoLead): what was taken back, a comment or a company,
\* makes no lead any more.
TakenBackMakesNoLead == RetractedMakesNoLead /\ SuppressedMakesNoLead
=============================================================================
