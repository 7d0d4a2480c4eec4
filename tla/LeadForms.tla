------------------------------ MODULE LeadForms ------------------------------
(***************************************************************************)
(* The versions of one family of lead forms, as the owner drafts, edits,   *)
(* publishes and disables them.  Source: store/form_domain.go,             *)
(* httpapi/handlers_forms.go.                                              *)
(*                                                                         *)
(* Each of the four loads the row, decides and writes in a later           *)
(* statement.  A form's texts and fields are one bit, whether they are     *)
(* complete enough to publish.                                             *)
(***************************************************************************)
EXTENDS Requests, Sequences

CONSTANT MaxForms    \* versions there is room for (model checking only)

ASSUME FormsAssumption == MaxForms \in Nat

VARIABLE forms       \* the rows of the family, oldest first

Form == [version : 1..MaxForms, status : {"draft", "published", "disabled"},
         complete : BOOLEAN, expired : BOOLEAN]

Versions == {forms[i].version : i \in DOMAIN forms}
NextVersion == IF Versions = {} THEN 1 ELSE 1 + CHOOSE v \in Versions : \A u \in Versions : u <= v

SetForm(i, row) == forms' = [forms EXCEPT ![i] = row]

CreateFormDraft(c) ==
    /\ Start(c, [op |-> "draft", version |-> NextVersion])
    /\ UNCHANGED forms

\* The family's versions are UNIQUE: the later of two drafts fails.
InsertFormDraft(c, complete) ==
    /\ At(c, "draft") /\ Finish(c)
    /\ calls[c].version \in 1..MaxForms
    /\ forms' = IF calls[c].version \in Versions THEN forms
                ELSE Append(forms, [version |-> calls[c].version, status |-> "draft",
                                    complete |-> complete, expired |-> FALSE])

\* The patch is to the row as loaded; it says nothing of the status.
UpdateFormDraft(c, i, complete) ==
    /\ forms[i].status = "draft"
    /\ Start(c, [op |-> "patch", form |-> i, complete |-> complete, expired |-> forms[i].expired])
    /\ UNCHANGED forms

WriteFormDraft(c) ==
    /\ At(c, "patch") /\ Finish(c)
    /\ SetForm(calls[c].form, [forms[calls[c].form] EXCEPT !.complete = calls[c].complete,
                                                           !.expired = calls[c].expired])

PublishForm(c, i) ==
    /\ forms[i].status = "draft" /\ forms[i].complete
    /\ Start(c, [op |-> "publish", form |-> i])
    /\ UNCHANGED forms

\* MUTANT of Publishable: the status loaded before is enough.
PublishableAsLoaded(form) == TRUE

\* WHERE status = 'draft'
Publishable(form) == form.status = "draft"

WriteFormPublished(c) ==
    /\ At(c, "publish") /\ Finish(c)
    /\ LET i == calls[c].form
       IN  SetForm(i, IF Publishable(forms[i]) THEN [forms[i] EXCEPT !.status = "published"] ELSE forms[i])

DisableForm(c, i) ==
    /\ forms[i].status \in {"draft", "published"}
    /\ Start(c, [op |-> "disable", form |-> i])
    /\ UNCHANGED forms

WriteFormDisabled(c) ==
    /\ At(c, "disable") /\ Finish(c)
    /\ SetForm(calls[c].form, [forms[calls[c].form] EXCEPT !.status = "disabled"])

\* expires_at passes.
Expire(i) ==
    /\ AtOnce
    /\ ~forms[i].expired
    /\ SetForm(i, [forms[i] EXCEPT !.expired = TRUE])

FormNext ==
    \/ \E c \in Callers :
         \/ CreateFormDraft(c)
         \/ \E complete \in BOOLEAN : InsertFormDraft(c, complete)
         \/ WriteFormDraft(c) \/ WriteFormPublished(c) \/ WriteFormDisabled(c)
         \/ /\ Free(c)
            /\ \E i \in DOMAIN forms :
                 \/ \E complete \in BOOLEAN : UpdateFormDraft(c, i, complete)
                 \/ PublishForm(c, i) \/ DisableForm(c, i)
    \/ \E i \in DOMAIN forms : Expire(i)

\* What accepts a visitor's submission (SubmitFormInTx).
Accepting(i) == forms[i].status = "published" /\ ~forms[i].expired

Stage(form) == CASE form.status = "draft" -> 0 [] form.status = "published" -> 1 [] OTHER -> 2

\* A form only moves forward, from draft to published to disabled, also when
\* it is published and disabled at the same time: one that was taken down
\* never comes back, and a version is never replaced.
FormsOnlyAdvance ==
    [][\A i \in DOMAIN forms : /\ Stage(forms[i]) <= Stage(forms'[i])
                               /\ forms[i].version = forms'[i].version]_forms
=============================================================================
