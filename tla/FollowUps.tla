------------------------------- MODULE FollowUps -------------------------------
(***************************************************************************)
(* Follow-ups of contacts and leads: written, edited, completed, reopened, *)
(* and the workbench's follow-through, which closes what is open for a     *)
(* person and schedules what comes next, under a key of what it asks for.  *)
(* Its Spec is that of the desk with channel, directory and follow-ups.    *)
(* Source: store/followups.go, httpapi/handlers_followups.go,              *)
(* handleLeadFollowThrough of httpapi/handlers_workbench.go and            *)
(* CompleteOpenFollowUps of store/workbench_facts.go.                      *)
(***************************************************************************)
EXTENDS EnterpriseDirectory

CONSTANTS
    Throughs,    \* what a follow-through may ask for, its note and channel as text
    Once         \* no key: a follow-up that is never a repetition

ASSUME FollowAssumption ==
    Throughs \subseteq [text : STRING, complete : BOOLEAN, next : BOOLEAN, waiting : BOOLEAN]

VARIABLES
    followUps,   \* follow_ups
    seenDone     \* caller -> follow-ups that were completed at some time since
                 \* its request began (history)

followVars == <<followUps, seenDone>>

NewFollowUp(key, contact, lead, next) ==
    [key |-> key, contact |-> contact, lead |-> lead, next |-> next, done |-> FALSE, waiting |-> FALSE]

FollowInit == followUps = <<>> /\ seenDone = [c \in Callers |-> {}]

Done(rows) == {i \in DOMAIN rows : rows[i].done}
Remember ==
    seenDone' = [c \in Callers |->
        IF calls[c] = Idle THEN Done(followUps') ELSE seenDone[c] \cup Done(followUps')]

\* GetFollowUp: rows of a deleted contact are not there, and a row is reached
\* through its lead's assignee.
Visible(i) == contacts[followUps[i].contact].live
Reaches(m, i) ==
    Visible(i) /\ Authorize(MemberOf(m), "update", followUps[i].lead # 0 /\ leads[followUps[i].lead].assignee = m)

-----------------------------------------------------------------------------
(* One row at a time.                                                      *)

\* handleFollowUpCreate looks at lead and contact, CreateFollowUp inserts.
BeginFollowUp(c, m, l, next) ==
    /\ contacts[leads[l].contact].live /\ Authorize(MemberOf(m), "update", leads[l].assignee = m)
    /\ Start(c, [op |-> "follow_new", row |-> NewFollowUp(Once, leads[l].contact, l, next)])
    /\ UNCHANGED followUps

CreateFollowUp(c) ==
    /\ At(c, "follow_new") /\ Finish(c)
    /\ followUps' = Append(followUps, calls[c].row)

\* UpdateFollowUp writes note and date, one of them as it was read; completion
\* and disposition are not its to write.
PatchFollowUp(c, m, i, next) ==
    /\ Reaches(m, i)
    /\ Start(c, [op |-> "follow_patch", row |-> i, next |-> next])
    /\ UNCHANGED followUps

UpdateFollowUp(c) ==
    /\ At(c, "follow_patch") /\ Visible(calls[c].row) /\ Finish(c)
    /\ followUps' = [followUps EXCEPT ![calls[c].row].next = calls[c].next]

\* CompleteFollowUp, ReopenFollowUp: the statements look for themselves.
Completed(rows, i) == [rows EXCEPT ![i].done = TRUE]

CompleteFollowUp(m, i) == AtOnce /\ Reaches(m, i) /\ followUps' = Completed(followUps, i)
ReopenFollowUp(m, i) == AtOnce /\ Reaches(m, i) /\ followUps' = [followUps EXCEPT ![i].done = FALSE]

-----------------------------------------------------------------------------
(* The follow-through.                                                     *)

\* FollowThroughKey
FollowThroughKey(m, l, want) == <<l, m, want>>

\* FindFollowUpByDedupe
Asked(key) == {i \in DOMAIN followUps : followUps[i].key = key}

\* MUTANT of Open: only what hangs on the lead.
OpenOfLead(call) == {i \in DOMAIN followUps : followUps[i].lead = call.lead /\ ~followUps[i].done}

\* The rows CompleteOpenFollowUps lists: all of the person, whatever the lead.
Open(call) == {i \in DOMAIN followUps : followUps[i].contact = call.contact /\ ~followUps[i].done}

\* A repetition goes on with the row that is stored.  The lead's contact is the
\* one read here, wherever a merge carries the lead meanwhile.
FollowThrough(c, m, l, want) ==
    LET key == FollowThroughKey(m, l, want)
        call(op, row) == [op |-> op, key |-> key, lead |-> l, contact |-> leads[l].contact, want |-> want,
                          row |-> row, todo |-> {},
                          older |-> {i \in DOMAIN followUps : followUps[i].contact = leads[l].contact}]
    IN  /\ contacts[leads[l].contact].live /\ Authorize(MemberOf(m), "update", leads[l].assignee = m)
        /\ \/ Asked(key) = {} /\ Start(c, call(IF want.complete THEN "through_list" ELSE "through_store", 0))
           \/ \E i \in Asked(key) : Start(c, call("through_mark", i))
    /\ UNCHANGED followUps

ListOpen(c) ==
    /\ At(c, "through_list")
    /\ Proceed(c, [calls[c] EXCEPT !.op = "through_close", !.todo = Open(calls[c])])
    /\ UNCHANGED followUps

\* Each is a statement of its own; a contact deleted meanwhile ends the request.
CloseOpen(c, i) ==
    /\ At(c, "through_close") /\ i \in calls[c].todo /\ Visible(i)
    /\ Proceed(c, [calls[c] EXCEPT !.todo = @ \ {i}])
    /\ followUps' = Completed(followUps, i)

\* CreateFollowUpOnce: the key is UNIQUE, so a twin's row is taken over.
CreateFollowUpOnce(c) ==
    /\ At(c, "through_store") \/ (At(c, "through_close") /\ calls[c].todo = {})
    /\ LET call == calls[c]
           rows == IF Asked(call.key) # {} THEN followUps
                   ELSE Append(followUps, NewFollowUp(call.key, call.contact, call.lead, call.want.next))
       IN  /\ followUps' = rows
           /\ Proceed(c, [call EXCEPT !.op = "through_mark",
                          !.row = CHOOSE i \in DOMAIN rows : rows[i].key = call.key])

\* SetFollowUpDisposition; next and none are stored alike and not written.
MarkDisposition(c) ==
    /\ At(c, "through_mark") /\ Proceed(c, [calls[c] EXCEPT !.op = "through_finish"])
    /\ followUps' = IF calls[c].want.waiting THEN [followUps EXCEPT ![calls[c].row].waiting = TRUE] ELSE followUps

\* finishFollowThrough: without a next date the row records what was done.
FinishFollowThrough(c) ==
    /\ At(c, "through_finish") /\ Finish(c)
    /\ followUps' = IF ~calls[c].want.next /\ Visible(calls[c].row) THEN Completed(followUps, calls[c].row)
                    ELSE followUps

FollowNext ==
    \/ \E c \in Callers :
        \/ CreateFollowUp(c) \/ UpdateFollowUp(c)
        \/ ListOpen(c) \/ CreateFollowUpOnce(c) \/ MarkDisposition(c) \/ FinishFollowThrough(c)
        \/ \E i \in DOMAIN followUps : CloseOpen(c, i)
        \/ /\ Free(c)
           /\ \E m \in Staff :
                \/ \E l \in DOMAIN leads :
                    \/ \E next \in BOOLEAN : BeginFollowUp(c, m, l, next)
                    \/ \E want \in Throughs : FollowThrough(c, m, l, want)
                \/ \E i \in DOMAIN followUps, next \in BOOLEAN : PatchFollowUp(c, m, i, next)
    \/ Room /\ \E m \in Staff, i \in DOMAIN followUps : CompleteFollowUp(m, i) \/ ReopenFollowUp(m, i)

-----------------------------------------------------------------------------
vars == <<requestVars, forms, poolVars, deskVars, merges, channelVars, enterpriseVars, followVars>>

Init == DeskInit /\ MergesInit /\ ChannelInit /\ EnterpriseInit /\ FollowInit

Next ==
    /\ \/ DeskNext /\ UNCHANGED <<merges, channelVars, enterpriseVars, followUps>>
       \/ ContactNext /\ UNCHANGED <<forms, poolVars, channelVars, enterpriseVars, followUps>>
       \/ ChannelNext /\ UNCHANGED <<forms, poolVars, deskVars, merges, enterpriseVars, followUps>>
       \/ ConfirmNext /\ UNCHANGED <<enterpriseVars, followUps>>
       \/ EnterpriseNext /\ UNCHANGED <<merges, channelVars, followUps>>
       \/ FollowNext /\ UNCHANGED <<forms, poolVars, deskVars, merges, channelVars, enterpriseVars>>
    /\ Remember

Spec == Init /\ [][Next]_vars

-----------------------------------------------------------------------------
\* PROPERTY (FollowedThrough): a follow-through is stored once, however often and
\* however close together it is asked for; and when the one row of a request that
\* closes is stored, everything older of that person, under whichever lead, has
\* been closed since the request began, unless it was closed before.
FollowedThrough ==
    [][\A i \in DOMAIN followUps' \ DOMAIN followUps :
        LET key == followUps'[i].key IN
        key # Once =>
            /\ Asked(key) = {}
            /\ \E c \in Callers :
                /\ calls[c] # Idle /\ calls'[c] # calls[c] /\ calls[c].key = key
                /\ calls[c].want.complete => calls[c].older \subseteq seenDone[c]]_vars
=============================================================================
