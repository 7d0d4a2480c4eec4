------------------------------- MODULE LightCopy -------------------------------
(***************************************************************************)
(* Replies, e-mails and briefs drafted beside an opportunity or a campaign *)
(* lead: one row each, written by hand or by a metered platform task,      *)
(* confirmed, and named when a professional tool is asked for.  Every      *)
(* write stores the whole row as the request computed it from the row it   *)
(* had read.  Source: lightcopy/decide.go, store/light_copy.go,            *)
(* httpapi/handlers_light_copy.go, platformtask/client.go.                 *)
(***************************************************************************)
EXTENDS Requests

CONSTANTS
    Copies,      \* drafts: the scene's facts and the kind of text
    Texts,       \* what may be written, by hand or by a task
    Unusable,    \* a task's answer that is empty or a placeholder
    Selections,  \* facts a request may select
    HandoverKeys \* idempotency keys of tool requests

\* Neither loader finds a proven price, so it is never among the facts.
ASSUME LightCopyAssumption ==
    /\ Copies \subseteq [scene : STRING, kind : {"reply", "email", "marketing_brief"},
                         facts : SUBSET {"title", "activity_ref"}]
    /\ Unusable \notin Texts

VARIABLES
    copies,      \* light_copy_drafts: text, origin, version, confirmed, charge
    metered,     \* tasks the platform recorded: copy, version, facts -> text
    handovers,   \* light_copy_handoffs by key
    written,     \* history: copy, version, text of every row there was
    overwritten  \* history: a row was replaced that the writer had not read

lightVars == <<copies, metered, handovers, written, overwritten>>

Missing == [version |-> 0]

LightInit ==
    /\ copies = [k \in Copies |-> Missing]
    /\ metered = [task \in {} |-> Unusable] /\ handovers = [key \in HandoverKeys |-> Missing]
    /\ written = {} /\ overwritten = FALSE

-----------------------------------------------------------------------------
\* Project: every fact selected must be one the scene has.
Projected(copy, selected) == selected # {} /\ selected \subseteq copy.facts

\* MUTANT of Edited: the version is kept while the text was not confirmed.
EditedUnconfirmed(row, text) ==
    [text |-> text, origin |-> "manual", confirmed |-> FALSE, charge |-> 0,
     version |-> IF row = Missing THEN 1 ELSE IF row.confirmed THEN row.version + 1 ELSE row.version]

\* SaveManual
Edited(row, text) ==
    [text |-> text, origin |-> "manual", confirmed |-> FALSE, charge |-> 0,
     version |-> IF row = Missing THEN 1 ELSE IF row.text # text THEN row.version + 1 ELSE row.version]

\* Generate
Generated(row, text) ==
    [text |-> text, origin |-> "model", confirmed |-> FALSE, charge |-> 1, version |-> row.version + 1]

\* Confirm: origin and charge survive.
Confirmed(row) == [row EXCEPT !.confirmed = TRUE]

\* What a request will store is fixed by what it reads.
BeginWrite(c, copy, row) ==
    Start(c, [op |-> "copy_write", copy |-> copy, read |-> copies[copy], row |-> row])

SaveCopy(c, copy, text) ==
    BeginWrite(c, copy, Edited(copies[copy], text)) /\ UNCHANGED lightVars

ConfirmCopy(c, copy) ==
    copies[copy] # Missing /\ BeginWrite(c, copy, Confirmed(copies[copy])) /\ UNCHANGED lightVars

\* The facts are checked before the task is asked for; its key carries the
\* version read and the facts.
GenerateCopy(c, copy, selected) ==
    /\ Projected(copy, selected)
    /\ Start(c, [op |-> "copy_task", copy |-> copy, read |-> copies[copy], selected |-> selected])
    /\ UNCHANGED lightVars

\* External: a key the platform knows is answered with its task.
Answers(task) == IF task \in DOMAIN metered THEN {metered[task]} ELSE Texts \cup {Unusable}

\* The task succeeds and is recorded, whether or not its answer comes in time;
\* a usable answer goes on to be stored.
TaskRecorded(c, answer, inTime) ==
    /\ At(c, "copy_task")
    /\ LET call == calls[c]
           task == <<call.copy, call.read.version, call.selected>>
       IN  /\ answer \in Answers(task)
           /\ metered' = [t \in DOMAIN metered \cup {task} |-> IF t = task THEN answer ELSE metered[t]]
           /\ IF inTime /\ answer # Unusable
              THEN Proceed(c, [op |-> "copy_write", copy |-> call.copy, read |-> call.read,
                               row |-> Generated(call.read, answer)])
              ELSE Finish(c)
    /\ UNCHANGED <<copies, handovers, written, overwritten>>

\* SaveLightDraft
WriteCopy(c) ==
    /\ At(c, "copy_write") /\ Finish(c)
    /\ LET call == calls[c] IN
        /\ copies' = [copies EXCEPT ![call.copy] = call.row]
        /\ written' = written \cup {<<call.copy, call.row.version, call.row.text>>}
        /\ overwritten' = (overwritten \/ copies[call.copy] # call.read)
    /\ UNCHANGED <<metered, handovers>>

\* OpenHandoff: no tool has an entry, so a request fails unless it declines.
Opened(copy, selected, decline) ==
    [copy |-> copy, version |-> copies[copy].version, facts |-> IF decline THEN {} ELSE selected,
     status |-> IF decline THEN "declined" ELSE "failed"]

\* handleLightHandoff: declining needs neither draft nor facts.
BeginHandover(c, key, copy, selected, decline) ==
    /\ handovers[key] = Missing
    /\ decline \/ (copies[copy] # Missing /\ Projected(copy, selected))
    /\ Start(c, [op |-> "handover", key |-> key, row |-> Opened(copy, selected, decline)])
    /\ UNCHANGED lightVars

\* InsertLightHandoff: the first row of a key stays.
InsertHandover(c) ==
    /\ At(c, "handover") /\ Finish(c)
    /\ handovers' = [handovers EXCEPT ![calls[c].key] = IF @ = Missing THEN calls[c].row ELSE @]
    /\ UNCHANGED <<copies, metered, written, overwritten>>

LightNext ==
    \E c \in Callers :
        \/ /\ Free(c)
           /\ \E copy \in Copies :
                \/ \E text \in Texts : SaveCopy(c, copy, text)
                \/ ConfirmCopy(c, copy)
                \/ \E selected \in Selections : GenerateCopy(c, copy, selected)
                \/ \E key \in HandoverKeys, selected \in Selections, decline \in BOOLEAN :
                    BeginHandover(c, key, copy, selected, decline)
        \/ \E answer \in Texts \cup {Unusable}, inTime \in BOOLEAN : TaskRecorded(c, answer, inTime)
        \/ WriteCopy(c) \/ InsertHandover(c)

-----------------------------------------------------------------------------
\* PROPERTY (VersionsNameText): as long as no request replaced a row it had not
\* read, a version of a draft is one text for ever, by hand, by task or by task
\* repeated; so what a tool request names can be told, and it did exist.
VersionsNameText ==
    /\ ~overwritten => \A x, y \in written : x[1] = y[1] /\ x[2] = y[2] => x = y
    /\ \A key \in HandoverKeys :
        LET row == handovers[key] IN
        row # Missing /\ row.status = "failed" => \E w \in written : w[1] = row.copy /\ w[2] = row.version
=============================================================================
