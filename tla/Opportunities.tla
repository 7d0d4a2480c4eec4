---------------------------- MODULE Opportunities ----------------------------
(***************************************************************************)
(* An opportunity, its audited stages and the patches of its other fields. *)
(* Source: store/store.go (opportunities), httpapi/handlers_opportunity.go *)
(* and the opportunity handlers of httpapi/handlers_business.go.           *)
(*                                                                         *)
(* amount stands for every field a patch may set besides the assignee;     *)
(* amount_source is derived from it by both writers.                       *)
(***************************************************************************)
EXTENDS Requests, Authz, Sequences

CONSTANTS
    Members,     \* members of the tenant
    RoleOf,      \* role, enabled and granted bits of each
    Nobody,      \* no member
    Stages,      \* open, qualified, proposal, negotiation, won, closed_lost
    Amounts,     \* amounts, unknown included
    NoOpp        \* before the opportunity is created

VARIABLES
    opp,        \* the opportunity
    history     \* its rows of opportunity_stage_history

oppVars == <<opp, history>>

Categories == {"creative_service", "merchant_customer"}
Created == ""
Opportunity == [category : Categories, stage : Stages, amount : Amounts, assignee : Members]

ASSUME OpportunitiesAssumption == Nobody \notin Members /\ NoOpp \notin Opportunity

MayAssign(m, to) == to = m \/ RoleOf[m].role = "owner"

\* oppRecord: what m may do to the opportunity as it is now.
oppRecord(m, action) == opp # NoOpp /\ Authorize(RoleOf[m], action, opp.assignee = m)
Allowed(action) == {m \in Members : oppRecord(m, action)}

\* The record and the first row of its history in one transaction.
CreateOpportunity(m, o) ==
    /\ opp = NoOpp /\ UNCHANGED requestVars
    /\ Authorize(RoleOf[m], "create", FALSE) /\ MayAssign(m, o.assignee)
    /\ opp' = o
    /\ history' = <<[from |-> Created, to |-> o.stage]>>

\* handleOppStage authorizes on the record it loaded and only then opens the
\* transaction.
PostStage(c, stage) ==
    /\ opp # NoOpp /\ Allowed("update") # {}
    /\ Start(c, [op |-> "stage", to |-> stage])
    /\ UNCHANGED oppVars

\* To the current stage: no row and no change.
TransitionOpportunityStage(c) ==
    LET to == calls[c].to
    IN  /\ At(c, "stage") /\ Finish(c)
        /\ opp' = [opp EXCEPT !.stage = to]
        /\ history' = IF to = opp.stage THEN history
                      ELSE Append(history, [from |-> opp.stage, to |-> to])

\* handleOppPatch: only the owner reassigns.
PatchOpportunity(c, amount, to) ==
    /\ opp # NoOpp
    /\ {m \in Allowed("update") : to = Nobody \/ RoleOf[m].role = "owner"} # {}
    /\ Start(c, [op |-> "patch", amount |-> amount, to |-> to])
    /\ UNCHANGED oppVars

\* UpdateOpportunity reads the row, patches it ...
LoadOpportunity(c) ==
    LET call == calls[c]
    IN  /\ At(c, "patch")
        /\ Proceed(c, [op |-> "save",
                       row |-> [opp EXCEPT !.amount = call.amount,
                                           !.assignee = IF call.to = Nobody THEN @ ELSE call.to]])
        /\ UNCHANGED oppVars

\* MUTANT of Saved: the statement writes the stage back as well.
SavedWhole(row, patched) == patched

\* ... and writes every column back but the stage.
Saved(row, patched) == [row EXCEPT !.amount = patched.amount, !.assignee = patched.assignee]

UpdateOpportunity(c) ==
    /\ At(c, "save") /\ Finish(c)
    /\ opp' = Saved(opp, calls[c].row)
    /\ UNCHANGED history

OppNext ==
    \/ \E m \in Members, o \in Opportunity : CreateOpportunity(m, o)
    \/ \E c \in Callers :
         \/ /\ Free(c)
            /\ \/ \E stage \in Stages : PostStage(c, stage)
               \/ \E amount \in Amounts, to \in Members \cup {Nobody} : PatchOpportunity(c, amount, to)
         \/ TransitionOpportunityStage(c) \/ LoadOpportunity(c) \/ UpdateOpportunity(c)

\* The history tells how the opportunity came to its stage, without a gap or a
\* repetition, whatever else is patched at the same time.
StageChain ==
    opp # NoOpp =>
        /\ history[1].from = Created /\ history[Len(history)].to = opp.stage
        /\ \A i \in 2..Len(history) : /\ history[i].from = history[i - 1].to
                                      /\ history[i].from # history[i].to
=============================================================================
