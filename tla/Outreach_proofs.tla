---------------------------- MODULE Outreach_proofs ----------------------------
(***************************************************************************)
(* Theorems about reaching out, for any contacts, messages, offers, texts, *)
(* hours and number of requests.                                           *)
(*                                                                         *)
(* The test scheduler (PostedOnce) shares nothing with the rest.  What     *)
(* light copy keeps is one invariant, LightInv, and what the message and   *)
(* call desks keep is another, DeskInv.                                    *)
(***************************************************************************)
EXTENDS Outreach, Integers, FiniteSetTheorems, TLAPS

-----------------------------------------------------------------------------
(* The test scheduler.                                                     *)

Entry == [subject : Subjects, attempted : BOOLEAN, accepted : BOOLEAN, stopped : BOOLEAN]

\* Ids are given out once, to a draft or to an action.
IdsApart ==
    /\ issued \in Nat
    /\ drafts \in [DOMAIN drafts -> Entry] /\ DOMAIN drafts \subseteq 1..issued
    /\ queued \in [DOMAIN queued -> Entry] /\ DOMAIN queued \subseteq 1..issued
    /\ DOMAIN drafts \cap DOMAIN queued = {}

\* A message was posted for what was attempted and never stopped.
Attempted(id) ==
    \/ id \in DOMAIN drafts /\ drafts[id].attempted
    \/ id \in DOMAIN queued /\ queued[id].attempted /\ ~queued[id].stopped

PostsAttempted ==
    /\ posted \in Seq(Nat)
    /\ \A i \in DOMAIN posted : Attempted(posted[i])
    /\ \A i, j \in DOMAIN posted : posted[i] = posted[j] => i = j

SandboxInv == IdsApart /\ PostsAttempted

\* A post adds the id at most once more.
LEMMA PostAdds ==
    ASSUME PostsAttempted, IdsApart, NEW id \in Nat, ~Attempted(id),
           NEW received \in BOOLEAN, NEW answer \in BOOLEAN, Post(id, received, answer)
    PROVE  /\ posted' \in Seq(Nat) /\ issued' = issued + 1
           /\ \A i \in DOMAIN posted' : posted'[i] = id \/ Attempted(posted'[i])
           /\ \A i, j \in DOMAIN posted' : posted'[i] = posted'[j] => i = j
<1>1. posted \in Seq(Nat) /\ posted' = (IF received THEN Append(posted, id) ELSE posted) /\ issued' = issued + 1
  BY DEF Post, PostsAttempted
<1>2. \A i \in DOMAIN posted : posted[i] # id
  BY DEF PostsAttempted
<1>3. CASE ~received
  BY <1>1, <1>3 DEF PostsAttempted
<1>4. CASE received
  <2>1. /\ posted' \in Seq(Nat) /\ Len(posted') = Len(posted) + 1 /\ posted'[Len(posted) + 1] = id
        /\ \A i \in 1..Len(posted) : posted'[i] = posted[i]
    BY <1>1, <1>4
  <2>2. DOMAIN posted = 1..Len(posted) /\ DOMAIN posted' = 1..(Len(posted) + 1) /\ Len(posted) \in Nat
    BY <1>1, <2>1
  <2> QED
    BY <1>1, <1>2, <2>1, <2>2 DEF PostsAttempted
<1> QED
  BY <1>3, <1>4

LEMMA SandboxKeeps == SandboxInv /\ [Next]_vars => SandboxInv'
<1> SUFFICES ASSUME SandboxInv, [Next]_vars PROVE SandboxInv'
  OBVIOUS
<1> USE DEF SandboxInv
<1>1. CASE UNCHANGED sandboxVars
  BY <1>1 DEF sandboxVars, IdsApart, PostsAttempted, Attempted
<1>2. ASSUME UNCHANGED <<drafts, queued, posted>>, issued' \in {issued, issued + 1} PROVE SandboxInv'
  BY <1>2 DEF IdsApart, PostsAttempted, Attempted
<1>3. ASSUME NEW subject \in Subjects, NEW id, Draft(id, subject) PROVE SandboxInv'
  <2>1. issued' = issued + 1 /\ drafts' = With(drafts, issued + 1, Unsent(subject)) /\ UNCHANGED <<queued, posted>>
    BY <1>3 DEF Draft
  <2>2. Unsent(subject) \in Entry
    BY DEF Unsent, Entry
  <2>3. IdsApart'
    BY <2>1, <2>2 DEF IdsApart, With
  <2>4. \A x : Attempted(x) => Attempted(x)'
    BY <2>1 DEF IdsApart, Attempted, With
  <2> QED
    BY <2>1, <2>3, <2>4 DEF PostsAttempted
<1>4. ASSUME NEW subject \in Subjects, QueueAutomatic(subject) PROVE SandboxInv'
  <2>1. issued' = issued + 1 /\ queued' = With(queued, issued + 1, Unsent(subject)) /\ UNCHANGED <<drafts, posted>>
    BY <1>4 DEF QueueAutomatic
  <2>2. Unsent(subject) \in Entry
    BY DEF Unsent, Entry
  <2>3. IdsApart'
    BY <2>1, <2>2 DEF IdsApart, With
  <2>4. \A x : Attempted(x) => Attempted(x)'
    BY <2>1 DEF IdsApart, Attempted, With
  <2> QED
    BY <2>1, <2>3, <2>4 DEF PostsAttempted
<1>5. ASSUME NEW subject \in Subjects, NEW id \in 1..issued, NEW received \in BOOLEAN, NEW answer \in BOOLEAN,
             Confirm(id, subject, received, answer)
      PROVE  SandboxInv'
  <2>1. /\ id \in DOMAIN drafts /\ ~drafts[id].attempted /\ Post(id, received, answer)
        /\ drafts' = [drafts EXCEPT ![id] = Attempt(@, answer)] /\ UNCHANGED queued
    BY <1>5 DEF Confirm
  <2>2. ~Attempted(id) /\ id \in Nat
    BY <2>1 DEF IdsApart, Attempted
  <2>3. Attempt(drafts[id], answer) \in Entry /\ Attempt(drafts[id], answer).attempted
    BY <2>1 DEF Attempt, Entry, IdsApart
  <2>4. issued' = issued + 1
    BY <2>1 DEF Post
  <2>5. IdsApart'
    BY <2>1, <2>3, <2>4 DEF IdsApart
  <2>6. Attempted(id)' /\ \A x : Attempted(x) => Attempted(x)'
    BY <2>1, <2>3 DEF IdsApart, Attempted
  <2> QED
    BY <2>1, <2>2, <2>5, <2>6, PostAdds DEF PostsAttempted
<1>6. ASSUME NEW id \in 1..issued, NEW refusal, Stopping(id, refusal) PROVE SandboxInv'
  <2>1. /\ id \in DOMAIN queued /\ ~queued[id].attempted /\ queued' = [queued EXCEPT ![id].stopped = TRUE]
        /\ UNCHANGED <<issued, drafts, posted>>
    BY <1>6 DEF Stopping, Waiting
  <2>2. IdsApart'
    BY <2>1 DEF IdsApart, Entry
  <2>3. \A x : Attempted(x) => Attempted(x)'
    BY <2>1 DEF IdsApart, Attempted, Entry
  <2> QED
    BY <2>1, <2>2, <2>3 DEF PostsAttempted
<1>7. ASSUME NEW id \in 1..issued, NEW refusal, NEW received \in BOOLEAN, NEW answer \in BOOLEAN,
             Release(id, refusal, received, answer)
      PROVE  SandboxInv'
  <2>1. /\ id \in DOMAIN queued /\ ~queued[id].attempted /\ ~queued[id].stopped /\ Post(id, received, answer)
        /\ queued' = [queued EXCEPT ![id] = Attempt(@, answer)] /\ UNCHANGED drafts
    BY <1>7 DEF Release, Waiting
  <2>2. ~Attempted(id) /\ id \in Nat
    BY <2>1 DEF IdsApart, Attempted
  <2>3. /\ Attempt(queued[id], answer) \in Entry
        /\ Attempt(queued[id], answer).attempted /\ ~Attempt(queued[id], answer).stopped
    BY <2>1 DEF Attempt, Entry, IdsApart
  <2>4. issued' = issued + 1
    BY <2>1 DEF Post
  <2>5. IdsApart'
    BY <2>1, <2>3, <2>4 DEF IdsApart
  <2>6. Attempted(id)' /\ \A x : Attempted(x) => Attempted(x)'
    BY <2>1, <2>3 DEF IdsApart, Attempted
  <2> QED
    BY <2>1, <2>2, <2>5, <2>6, PostAdds DEF PostsAttempted
<1>8. CASE SandboxNext
  <2>1. ASSUME NEW on, AllowAutomatic(on) PROVE SandboxInv'
    BY <2>1, <1>2 DEF AllowAutomatic
  <2>2. ASSUME NEW subject, Remind(subject) PROVE SandboxInv'
    BY <2>2, <1>2 DEF Remind
  <2>3. ASSUME NEW callback, NEW message, Callback(callback, message) PROVE SandboxInv'
    BY <2>3, <1>2 DEF Callback
  <2> QED
    BY <1>3, <1>4, <1>5, <1>6, <1>7, <1>8, <2>1, <2>2, <2>3 DEF SandboxNext
<1> QED
  BY <1>1, <1>8 DEF Next, vars, sandboxVars

\* Whatever answers get lost, a draft or a queued action reaches the fixture at
\* most once, and never after it was stopped (sopreach/sandbox.go, submit and
\* Release).
THEOREM NothingPostedTwice == Spec => []PostedOnce
<1>1. Init => SandboxInv
  BY DEF Init, SandboxInit, SandboxInv, IdsApart, PostsAttempted, Nothing, Entry
<1>2. SandboxInv => PostedOnce
  BY DEF SandboxInv, IdsApart, PostsAttempted, PostedOnce, Attempted
<1> QED
  BY <1>1, <1>2, SandboxKeeps, PTL DEF Spec

-----------------------------------------------------------------------------
(* The message and call desks: types.                                      *)

Action == [kind : {"internal_reminder", "pending_draft", "user_reply", "channel_submission", "channel_delivery"},
           status : {"recorded", "pending_send", "undelivered", "blocked"},
           message : Messages, parent : Nat, day : Int, first : BOOLEAN]
SopPolicy == [saved : BOOLEAN, level : Levels, stop : BOOLEAN, window : Window]
CallPolicy == [saved : BOOLEAN, stop : BOOLEAN, window : Window]
Receipt == [kind : Reported \cup {"cancel", "human_transfer"}, blocked : BOOLEAN]
Ended == {"cancelled", "transferred"}
Task == [state : {"open", "blocked"} \cup Ended, offer : Offers, receipts : Seq(Receipt)]

DialOps == {"dial", "auto", "retry", "receipt"}
DialCall == [phase : {"begun", "decided"}, op : DialOps, key : Keys, offer : Offers,
             kind : Reported, clear : BOOLEAN]

TablesTyped ==
    /\ clock \in Nat
    /\ sopPolicy \in SopPolicy /\ callPolicy \in CallPolicy
    /\ actions \in Seq(Action)
    /\ tasks \in [Keys -> {NoTask} \cup Task]

CallTyped(call) ==
    /\ call.op = "sop_policy" =>
        call.level \in Levels /\ call.window \in Window /\ call.stop \in BOOLEAN
    /\ call.op \in {"sop_begun", "sop_decided"} =>
        call.message \in Messages /\ call.parent \in Nat /\ call.clear \in BOOLEAN
    /\ call.op = "call_policy" => call.window \in Window /\ call.stop \in BOOLEAN
    /\ call.op \in DialOps => call \in DialCall

(* What holds of a policy once a global stop was set, and stays so.        *)
Flagged(policy) == policy.saved /\ policy.stop

StopsFlagged ==
    /\ \A stop \in sopStops : stop.global => Flagged(sopPolicy)
    /\ \A stop \in callStops : stop.global => Flagged(callPolicy)

\* What a request that began after a stop can have read: a refusal, or
\* something that will refuse it.
Refusing(c) ==
    LET call == calls[c]
    IN  began[c].stopped =>
        /\ call.op = "sop_begun" => ~call.clear \/ SopStopped(call.message)
        /\ call.op = "sop_decided" => ~call.clear
        /\ Phase(c, "begun") => \/ ~call.clear \/ CallStopped(call.offer.contact)
                                \/ tasks[call.key].state \in Ended
        /\ Phase(c, "decided") => ~call.clear

\* A retry that was admitted had a report to rely on.
Relying(c) ==
    LET call == calls[c]
    IN  /\ call.op \in {"retry", "receipt"} => Stored(call.key)
        /\ call.op = "retry" /\ Phase(c, "decided") /\ call.clear => OutboundReconciled(tasks[call.key].receipts)

CallInv(c) ==
    /\ CallTyped(calls[c])
    /\ calls[c].op = "sop_stop" => Flagged(sopPolicy)
    /\ calls[c].op = "call_stop" => Flagged(callPolicy)
    /\ Refusing(c) /\ Relying(c)

DeskInv ==
    /\ TablesTyped /\ StopsFlagged
    /\ DOMAIN calls = Callers /\ \A c \in Callers : CallInv(c)

-----------------------------------------------------------------------------
(* What every step does to the tables: stops, flags, tasks and reports     *)
(* only grow.                                                              *)

Grown ==
    /\ sopStops \subseteq sopStops' /\ callStops \subseteq callStops'
    /\ Flagged(sopPolicy) => Flagged(sopPolicy)'
    /\ Flagged(callPolicy) => Flagged(callPolicy)'
    /\ \A key \in Keys : Stored(key) =>
          /\ Stored(key)'
          /\ tasks[key].state \in Ended => tasks'[key].state \in Ended
          /\ OutboundReconciled(tasks[key].receipts) => OutboundReconciled(tasks'[key].receipts)

LEMMA StoppedGrows ==
    ASSUME Grown
    PROVE  /\ \A m : SopStopped(m) => SopStopped(m)'
           /\ \A contact : CallStopped(contact) => CallStopped(contact)'
  BY DEF Grown, SopStopped, CallStopped

LEMMA TaskStored ==
    ASSUME TablesTyped, NEW key \in Keys
    PROVE  /\ Stored(key) <=> tasks[key] \in Task
           /\ tasks[key].state \in Ended => Stored(key)
  BY DEF TablesTyped, Stored, NoTask, Task, Ended

\* A request that waits keeps what it has.
LEMMA WaitingKeeps ==
    ASSUME TablesTyped, NEW c, CallInv(c), Grown, calls'[c] = calls[c], began'[c] = began[c]
    PROVE  CallInv(c)'
<1>1. CallTyped(calls[c])'
  BY DEF CallInv, CallTyped
<1>2. calls[c].op \in DialOps => calls[c].key \in Keys
  BY DEF CallInv, CallTyped, DialCall
<1>3. Relying(c)'
  BY <1>2 DEF CallInv, Relying, Grown, Phase, DialOps
<1>4. Refusing(c)'
  <2>1. Phase(c, "begun") /\ tasks[calls[c].key].state \in Ended => tasks'[calls[c].key].state \in Ended
    BY <1>2, TaskStored DEF Phase, DialOps, Grown
  <2> QED
    BY <2>1, StoppedGrows DEF CallInv, Refusing, Phase
<1> QED
  BY <1>1, <1>3, <1>4 DEF CallInv, Grown

\* So do all of them when one takes a step, or none does.
LEMMA OthersWait ==
    ASSUME DeskInv, Grown, Remember, NEW c \in Callers, NEW call,
           calls' = [calls EXCEPT ![c] = call], CallInv(c)'
    PROVE  DOMAIN calls' = Callers /\ \A d \in Callers : CallInv(d)'
<1>1. DOMAIN calls' = Callers
  BY DEF DeskInv
<1>2. ASSUME NEW d \in Callers, d # c PROVE CallInv(d)'
  <2>1. calls'[d] = calls[d]
    BY <1>2 DEF DeskInv
  <2>2. began'[d] = began[d]
    BY <2>1 DEF Remember
  <2> QED
    BY <2>1, <2>2, WaitingKeeps DEF DeskInv
<1> QED
  BY <1>1, <1>2

LEMMA AllWait ==
    ASSUME DeskInv, Grown, Remember, UNCHANGED calls
    PROVE  DOMAIN calls' = Callers /\ \A d \in Callers : CallInv(d)'
<1>1. ASSUME NEW d \in Callers PROVE CallInv(d)'
  <2>1. began'[d] = began[d]
    BY DEF Remember
  <2> QED
    BY <2>1, WaitingKeeps DEF DeskInv
<1> QED
  BY <1>1 DEF DeskInv

\* A request of another kind has nothing to keep.
LEMMA OtherKind ==
    ASSUME NEW c, calls'[c].op \notin DialOps \cup
               {"sop_policy", "sop_begun", "sop_decided", "sop_stop", "call_policy", "call_stop"}
    PROVE  CallInv(c)'
  BY DEF CallInv, CallTyped, Refusing, Relying, Phase, DialOps

LEMMA Unmoved ==
    ASSUME DeskInv, UNCHANGED <<contextVars, sopVars, outboundVars>>
    PROVE  TablesTyped' /\ StopsFlagged' /\ Grown
  BY DEF DeskInv, TablesTyped, StopsFlagged, Grown, Flagged, Stored, contextVars, sopVars, outboundVars

LEMMA Together ==
    ASSUME DeskInv, TablesTyped', StopsFlagged', Grown, Remember,
           \/ UNCHANGED calls
           \/ \E c \in Callers : \E call : calls' = [calls EXCEPT ![c] = call] /\ CallInv(c)'
    PROVE  DeskInv'
  BY OthersWait, AllWait DEF DeskInv

LEMMA Finishing ==
    ASSUME DeskInv, TablesTyped', StopsFlagged', Grown, Remember, NEW c \in Callers, Finish(c)
    PROVE  DeskInv'
<1>1. calls' = [calls EXCEPT ![c] = Idle]
  BY DEF Finish, Proceed
<1>2. calls'[c] = Idle
  BY <1>1 DEF DeskInv
<1>3. CallInv(c)'
  BY <1>2, OtherKind DEF Idle, DialOps
<1> QED
  BY <1>1, <1>3, Together

\* What is known of a request that starts, and of one that goes on.
LEMMA Starting ==
    ASSUME DeskInv, Remember, NEW c \in Callers, NEW call, Start(c, call), call # Idle
    PROVE  /\ calls' = [calls EXCEPT ![c] = call] /\ calls'[c] = call
           /\ began'[c].stopped = Stopped(call)
<1>1. calls[c] = Idle /\ calls' = [calls EXCEPT ![c] = call] /\ calls'[c] = call
  BY DEF Start, Free, DeskInv
<1>2. began'[c] = [stopped |-> Stopped(calls'[c]), rows |-> Len(actions)]
  BY <1>1 DEF Remember
<1> QED
  BY <1>1, <1>2

LEMMA GoingOn ==
    ASSUME DeskInv, Remember, NEW c \in Callers, NEW call, Proceed(c, call), calls[c] # Idle
    PROVE  /\ calls' = [calls EXCEPT ![c] = call] /\ calls'[c] = call
           /\ began'[c] = began[c]
<1>1. calls' = [calls EXCEPT ![c] = call] /\ calls'[c] = call
  BY DEF Proceed, DeskInv
<1> QED
  BY <1>1 DEF Remember

LEMMA TodayIsADay == clock \in Nat => Today \in Int
<1>1. Hours \in Seq(0..23) /\ Hours # <<>>
  BY ContextAssumption
<1>2. Len(Hours) \in Nat /\ Len(Hours) > 0
  BY <1>1
<1> QED
  BY <1>2 DEF Today

-----------------------------------------------------------------------------
(* The message desk.                                                       *)

LEMMA PoliciesKeep ==
    ASSUME DeskInv, Remember, UNCHANGED outboundVars, NEW c \in Callers,
           \/ \E level \in Levels, window \in Windows : PostPolicy(c, level, window)
           \/ SaveSOPPolicy(c)
    PROVE  DeskInv'
<1>1. ASSUME NEW level \in Levels, NEW window \in Windows, PostPolicy(c, level, window) PROVE DeskInv'
  <2> DEFINE call == [op |-> "sop_policy", level |-> level, window |-> window, stop |-> sopPolicy.stop]
  <2>1. Start(c, call) /\ UNCHANGED <<contextVars, sopVars, outboundVars>>
    BY <1>1 DEF PostPolicy
  <2>2. calls' = [calls EXCEPT ![c] = call] /\ calls'[c] = call
    BY <2>1, Starting DEF Idle
  <2>3. TablesTyped' /\ StopsFlagged' /\ Grown
    BY <2>1, Unmoved
  <2>4. CallTyped(call)
    BY SopAssumption DEF CallTyped, DialOps, DeskInv, TablesTyped, SopPolicy
  <2>5. CallInv(c)'
    BY <2>2, <2>4 DEF CallInv, CallTyped, Refusing, Relying, Phase, DialOps
  <2> QED
    BY <2>2, <2>3, <2>5, Together
<1>2. ASSUME SaveSOPPolicy(c) PROVE DeskInv'
  <2>1. /\ Finish(c) /\ calls[c].op = "sop_policy" /\ UNCHANGED <<sopStops, actions, contextVars, outboundVars>>
        /\ sopPolicy' = [saved |-> TRUE, level |-> calls[c].level, stop |-> StopKept(calls[c]), window |-> calls[c].window]
    BY <1>2 DEF SaveSOPPolicy, At
  <2>2. calls[c].level \in Levels /\ calls[c].window \in Window /\ calls[c].stop \in BOOLEAN
    BY <2>1 DEF DeskInv, CallInv, CallTyped
  <2>3. StopKept(calls[c]) \in BOOLEAN /\ (sopPolicy.saved => StopKept(calls[c]) = sopPolicy.stop)
    BY <2>2 DEF StopKept, DeskInv, TablesTyped, SopPolicy
  <2>4. sopPolicy' \in SopPolicy /\ (Flagged(sopPolicy) => Flagged(sopPolicy)')
    BY <2>1, <2>2, <2>3 DEF SopPolicy, Flagged
  <2>5. TablesTyped' /\ StopsFlagged' /\ Grown
    BY <2>1, <2>4 DEF DeskInv, TablesTyped, StopsFlagged, Grown, Flagged, Stored, contextVars, outboundVars
  <2> QED
    BY <2>1, <2>5, Finishing
<1> QED
  BY <1>1, <1>2

LEMMA StopsKeep ==
    ASSUME DeskInv, Remember, UNCHANGED outboundVars,
           \/ \E contact, scope : AddSOPStop(contact, scope)
           \/ \E c \in Callers : AddSOPGlobalStop(c) \/ \E contact, scope : SetSOPGlobalStop(c, contact, scope)
    PROVE  DeskInv'
<1>1. ASSUME NEW contact, NEW scope, AddSOPStop(contact, scope) PROVE DeskInv'
  <2>1. /\ UNCHANGED <<calls, sopPolicy, actions, contextVars, outboundVars>>
        /\ sopStops' = sopStops \cup {[global |-> FALSE, contact |-> contact, scope |-> scope]}
    BY <1>1 DEF AddSOPStop, AtOnce
  <2>2. TablesTyped' /\ StopsFlagged' /\ Grown
    BY <2>1 DEF DeskInv, TablesTyped, StopsFlagged, Grown, Flagged, Stored, contextVars, outboundVars
  <2> QED
    BY <2>1, <2>2, Together
<1>2. ASSUME NEW c \in Callers, AddSOPGlobalStop(c) PROVE DeskInv'
  <2>1. /\ Finish(c) /\ calls[c].op = "sop_stop" /\ UNCHANGED <<sopPolicy, actions, contextVars, outboundVars>>
        /\ sopStops' = sopStops \cup {[global |-> TRUE, contact |-> calls[c].contact, scope |-> calls[c].scope]}
    BY <1>2 DEF AddSOPGlobalStop, At
  <2>2. Flagged(sopPolicy)
    BY <2>1 DEF DeskInv, CallInv
  <2>3. TablesTyped' /\ StopsFlagged' /\ Grown
    BY <2>1, <2>2 DEF DeskInv, TablesTyped, StopsFlagged, Grown, Flagged, Stored, contextVars, outboundVars
  <2> QED
    BY <2>1, <2>3, Finishing
<1>3. ASSUME NEW c \in Callers, NEW contact, NEW scope, SetSOPGlobalStop(c, contact, scope) PROVE DeskInv'
  <2> DEFINE call == [op |-> "sop_stop", contact |-> contact, scope |-> scope]
  <2>1. /\ Start(c, call) /\ UNCHANGED <<sopStops, actions, contextVars, outboundVars>>
        /\ sopPolicy' = [sopPolicy EXCEPT !.saved = TRUE, !.stop = TRUE]
    BY <1>3 DEF SetSOPGlobalStop
  <2>2. calls' = [calls EXCEPT ![c] = call] /\ calls'[c] = call
    BY <2>1, Starting DEF Idle
  <2>3. sopPolicy' \in SopPolicy /\ Flagged(sopPolicy)'
    BY <2>1 DEF DeskInv, TablesTyped, SopPolicy, Flagged
  <2>4. TablesTyped' /\ StopsFlagged' /\ Grown
    BY <2>1, <2>3 DEF DeskInv, TablesTyped, StopsFlagged, Grown, Flagged, Stored, contextVars, outboundVars
  <2>5. CallInv(c)'
    BY <2>2, <2>3 DEF CallInv, CallTyped, Refusing, Relying, Phase, DialOps
  <2> QED
    BY <2>2, <2>4, <2>5, Together
<1> QED
  BY <1>1, <1>2, <1>3

LEMMA RowTyped ==
    ASSUME DeskInv, NEW kind \in {"internal_reminder", "pending_draft", "user_reply", "channel_submission", "channel_delivery"},
           NEW status \in {"recorded", "pending_send", "undelivered", "blocked"}, NEW m \in Messages, NEW parent \in Nat
    PROVE  Row(kind, status, m, parent) \in Action
  BY TodayIsADay DEF Row, Action, DeskInv, TablesTyped, FirstSecond

\* Storing rows disturbs nothing else.
LEMMA RowsStored ==
    ASSUME DeskInv, NEW rows \in Seq(Action), actions' = actions \o rows,
           UNCHANGED <<sopPolicy, sopStops, contextVars, outboundVars>>
    PROVE  TablesTyped' /\ StopsFlagged' /\ Grown
<1>1. actions' \in Seq(Action)
  BY DEF DeskInv, TablesTyped
<1> QED
  BY <1>1 DEF DeskInv, TablesTyped, StopsFlagged, Grown, Flagged, Stored, contextVars, outboundVars

LEMMA RecordsKeep ==
    ASSUME DeskInv, Remember, UNCHANGED outboundVars,
           NEW kind \in {"internal_reminder", "pending_draft", "user_reply"}, NEW m \in Messages, CreateRecord(kind, m)
    PROVE  DeskInv'
<1> DEFINE rows == <<Row(kind, "recorded", m, 0)>>
<1>1. UNCHANGED <<calls, sopPolicy, sopStops, contextVars, outboundVars>> /\ actions' = Append(actions, rows[1])
  BY DEF CreateRecord, AtOnce
<1>2. rows[1] \in Action
  BY RowTyped
<1>3. rows \in Seq(Action) /\ actions' = actions \o rows
  BY <1>1, <1>2 DEF DeskInv, TablesTyped
<1> QED
  BY <1>1, <1>3, RowsStored, Together

\* A submission begun under a stop is refused by what it read or by the stop.
LEMMA BegunUnderStop ==
    ASSUME DeskInv, NEW m \in Messages, StoppedMessage(m)
    PROVE  SopStopped(m) \/ ~(~sopPolicy.stop /\ InsideWindow(sopPolicy.window) /\ ConsentCovers(m))
<1>1. CASE \E stop \in sopStops : stop.global
  BY <1>1 DEF DeskInv, StopsFlagged, Flagged
<1>2. CASE m.consent \in revoked
  BY <1>2 DEF ConsentCovers, Good
<1> QED
  BY <1>1, <1>2 DEF StoppedMessage, SopStopped

LEMMA SubmitBegins ==
    ASSUME DeskInv, Remember, UNCHANGED outboundVars, NEW c \in Callers, NEW how, NEW m \in Messages,
           NEW parent \in Nat, NEW reconciled, BeginSubmit(c, how, m, parent, reconciled)
    PROVE  DeskInv'
<1> DEFINE clear == ~sopPolicy.stop /\ InsideWindow(sopPolicy.window) /\ ConsentCovers(m)
           call == [op |-> "sop_begun", how |-> how, message |-> m, parent |-> parent,
                    reconciled |-> reconciled, clear |-> clear]
<1>1. Start(c, call) /\ UNCHANGED <<contextVars, sopVars, outboundVars>>
  BY DEF BeginSubmit
<1>2. calls' = [calls EXCEPT ![c] = call] /\ calls'[c] = call /\ began'[c].stopped = Stopped(call)
  BY <1>1, Starting DEF Idle
<1>3. call.op = "sop_begun" /\ call.message = m /\ call.parent = parent /\ call.clear = clear
  OBVIOUS
<1>4. clear \in BOOLEAN
  OBVIOUS
<1> HIDE DEF clear, call
<1>5. TablesTyped' /\ StopsFlagged' /\ Grown
  BY <1>1, Unmoved
<1>6. began'[c].stopped => SopStopped(m)' \/ ~clear
  <2>1. Stopped(call) = StoppedMessage(m)
    BY <1>3 DEF Stopped
  <2> QED
    BY <1>2, <1>5, <2>1, BegunUnderStop, StoppedGrows DEF clear
<1>7. CallTyped(call)
  BY <1>3, <1>4 DEF CallTyped, DialOps
<1>8. Refusing(c)'
  BY <1>2, <1>3, <1>6 DEF Refusing, Phase
<1>9. CallInv(c)'
  BY <1>2, <1>3, <1>7, <1>8 DEF CallInv, CallTyped, Relying, Phase
<1> QED
  BY <1>2, <1>5, <1>9, Together

LEMMA SubmitReads ==
    ASSUME DeskInv, Remember, UNCHANGED outboundVars, NEW c \in Callers, ReadSubmit(c)
    PROVE  DeskInv'
<1> DEFINE clear == Cleared(calls[c])
           call == [op |-> "sop_decided", message |-> calls[c].message, parent |-> calls[c].parent,
                    how |-> calls[c].how, clear |-> clear]
<1>1. Proceed(c, call) /\ calls[c].op = "sop_begun" /\ UNCHANGED <<contextVars, sopVars, outboundVars>>
  BY DEF ReadSubmit, At
<1>2. calls' = [calls EXCEPT ![c] = call] /\ calls'[c] = call /\ began'[c] = began[c]
  BY <1>1, GoingOn DEF Idle
<1>3. /\ call.op = "sop_decided" /\ call.message = calls[c].message
      /\ call.parent = calls[c].parent /\ call.clear = clear
  OBVIOUS
<1>4. /\ calls[c].message \in Messages /\ calls[c].parent \in Nat /\ clear \in BOOLEAN
      /\ began[c].stopped => ~calls[c].clear \/ SopStopped(calls[c].message)
  BY <1>1 DEF DeskInv, CallInv, CallTyped, Refusing, Cleared
<1>5. began[c].stopped => ~clear
  BY <1>4 DEF Cleared
<1> HIDE DEF clear, call
<1>6. TablesTyped' /\ StopsFlagged' /\ Grown
  BY <1>1, Unmoved
<1>7. CallTyped(call)
  BY <1>3, <1>4 DEF CallTyped, DialOps
<1>8. Refusing(c)'
  BY <1>2, <1>3, <1>5 DEF Refusing, Phase
<1>9. CallInv(c)'
  BY <1>2, <1>3, <1>7, <1>8 DEF CallInv, CallTyped, Relying, Phase
<1> QED
  BY <1>2, <1>6, <1>9, Together

LEMMA SubmitStores ==
    ASSUME DeskInv, Remember, UNCHANGED outboundVars, NEW c \in Callers, InsertSOPActions(c)
    PROVE  DeskInv'
<1> DEFINE rows == Submission(calls[c])
           m == calls[c].message
           parent == calls[c].parent
<1>1. /\ Finish(c) /\ calls[c].op = "sop_decided" /\ actions' = actions \o rows
      /\ UNCHANGED <<sopPolicy, sopStops, contextVars, outboundVars>>
  BY DEF InsertSOPActions, At
<1>2. m \in Messages /\ parent \in Nat
  BY <1>1 DEF DeskInv, CallInv, CallTyped
<1>3. /\ Row("channel_submission", "pending_send", m, parent) \in Action
      /\ Row("channel_delivery", "undelivered", m, parent) \in Action
      /\ Row("channel_submission", "blocked", m, parent) \in Action
  BY <1>2, RowTyped
<1>4. rows \in Seq(Action)
  BY <1>3 DEF Submission
<1> HIDE DEF rows
<1>5. TablesTyped' /\ StopsFlagged' /\ Grown
  BY <1>1, <1>4, RowsStored
<1> QED
  BY <1>1, <1>5, Finishing

LEMMA SopKeeps ==
    ASSUME DeskInv, Remember, UNCHANGED outboundVars, SopNext
    PROVE  DeskInv'
<1>1. DOMAIN actions \subseteq Nat /\ \A i \in DOMAIN actions : actions[i] \in Action
  BY DEF DeskInv, TablesTyped
<1>2. ASSUME NEW c \in Callers, NEW how, NEW parent \in DOMAIN actions, NEW reconciled, BeginOnDraft(c, how, parent, reconciled)
      PROVE  DeskInv'
  <2>1. actions[parent].message \in Messages /\ parent \in Nat
    BY <1>1 DEF Action
  <2> QED
    BY <1>2, <2>1, SubmitBegins DEF BeginOnDraft
<1>3. ASSUME NEW c \in Callers, NEW m \in Messages, NEW parent \in {0} \cup DOMAIN actions, BeginSubmit(c, "auto", m, parent, TRUE)
      PROVE  DeskInv'
  <2>1. parent \in Nat
    BY <1>1
  <2> QED
    BY <1>3, <2>1, SubmitBegins
<1> QED
  BY <1>2, <1>3, PoliciesKeep, StopsKeep, RecordsKeep, SubmitReads, SubmitStores DEF SopNext

-----------------------------------------------------------------------------
(* The call desk.                                                          *)

LEMMA CallPoliciesKeep ==
    ASSUME DeskInv, Remember, NEW c \in Callers,
           \/ \E window \in Windows : PostCallPolicy(c, window)
           \/ SaveOutboundPolicy(c)
    PROVE  DeskInv'
<1>1. ASSUME NEW window \in Windows, PostCallPolicy(c, window) PROVE DeskInv'
  <2> DEFINE call == [op |-> "call_policy", window |-> window, stop |-> callPolicy.stop]
  <2>1. Start(c, call) /\ UNCHANGED <<contextVars, sopVars, outboundVars>>
    BY <1>1 DEF PostCallPolicy
  <2>2. calls' = [calls EXCEPT ![c] = call] /\ calls'[c] = call
    BY <2>1, Starting DEF Idle
  <2>3. TablesTyped' /\ StopsFlagged' /\ Grown
    BY <2>1, Unmoved
  <2>4. CallTyped(call)
    BY SopAssumption DEF CallTyped, DialOps, DeskInv, TablesTyped, CallPolicy
  <2>5. CallInv(c)'
    BY <2>2, <2>4 DEF CallInv, CallTyped, Refusing, Relying, Phase, DialOps
  <2> QED
    BY <2>2, <2>3, <2>5, Together
<1>2. ASSUME SaveOutboundPolicy(c) PROVE DeskInv'
  <2>1. /\ Finish(c) /\ calls[c].op = "call_policy" /\ UNCHANGED <<callStops, tasks, sopVars, contextVars>>
        /\ callPolicy' = [saved |-> TRUE, window |-> calls[c].window,
                          stop |-> IF callPolicy.saved THEN callPolicy.stop ELSE calls[c].stop]
    BY <1>2 DEF SaveOutboundPolicy, At
  <2>2. calls[c].window \in Window /\ calls[c].stop \in BOOLEAN
    BY <2>1 DEF DeskInv, CallInv, CallTyped
  <2>3. callPolicy' \in CallPolicy /\ (Flagged(callPolicy) => Flagged(callPolicy)')
    BY <2>1, <2>2 DEF CallPolicy, Flagged, DeskInv, TablesTyped
  <2>4. TablesTyped' /\ StopsFlagged' /\ Grown
    BY <2>1, <2>3 DEF DeskInv, TablesTyped, StopsFlagged, Grown, Flagged, Stored, contextVars, sopVars
  <2> QED
    BY <2>1, <2>4, Finishing
<1> QED
  BY <1>1, <1>2

LEMMA CallStopsKeep ==
    ASSUME DeskInv, Remember,
           \/ \E contact : AddOutboundStop(contact)
           \/ \E c \in Callers : AddOutboundGlobalStop(c) \/ \E contact : SetOutboundGlobalStop(c, contact)
    PROVE  DeskInv'
<1>1. ASSUME NEW contact, AddOutboundStop(contact) PROVE DeskInv'
  <2>1. /\ UNCHANGED <<calls, callPolicy, tasks, contextVars, sopVars>>
        /\ callStops' = callStops \cup {[global |-> FALSE, contact |-> contact]}
    BY <1>1 DEF AddOutboundStop, AtOnce
  <2>2. TablesTyped' /\ StopsFlagged' /\ Grown
    BY <2>1 DEF DeskInv, TablesTyped, StopsFlagged, Grown, Flagged, Stored, contextVars, sopVars
  <2> QED
    BY <2>1, <2>2, Together
<1>2. ASSUME NEW c \in Callers, AddOutboundGlobalStop(c) PROVE DeskInv'
  <2>1. /\ Finish(c) /\ calls[c].op = "call_stop" /\ UNCHANGED <<callPolicy, tasks, contextVars, sopVars>>
        /\ callStops' = callStops \cup {[global |-> TRUE, contact |-> calls[c].contact]}
    BY <1>2 DEF AddOutboundGlobalStop, At
  <2>2. Flagged(callPolicy)
    BY <2>1 DEF DeskInv, CallInv
  <2>3. TablesTyped' /\ StopsFlagged' /\ Grown
    BY <2>1, <2>2 DEF DeskInv, TablesTyped, StopsFlagged, Grown, Flagged, Stored, contextVars, sopVars
  <2> QED
    BY <2>1, <2>3, Finishing
<1>3. ASSUME NEW c \in Callers, NEW contact, SetOutboundGlobalStop(c, contact) PROVE DeskInv'
  <2> DEFINE call == [op |-> "call_stop", contact |-> contact]
  <2>1. /\ Start(c, call) /\ UNCHANGED <<callStops, tasks, contextVars, sopVars>>
        /\ callPolicy' = [callPolicy EXCEPT !.saved = TRUE, !.stop = TRUE]
    BY <1>3 DEF SetOutboundGlobalStop
  <2>2. calls' = [calls EXCEPT ![c] = call] /\ calls'[c] = call
    BY <2>1, Starting DEF Idle
  <2>3. callPolicy' \in CallPolicy /\ Flagged(callPolicy)'
    BY <2>1 DEF DeskInv, TablesTyped, CallPolicy, Flagged
  <2>4. TablesTyped' /\ StopsFlagged' /\ Grown
    BY <2>1, <2>3 DEF DeskInv, TablesTyped, StopsFlagged, Grown, Flagged, Stored, contextVars, sopVars
  <2>5. CallInv(c)'
    BY <2>2, <2>3 DEF CallInv, CallTyped, Refusing, Relying, Phase, DialOps
  <2> QED
    BY <2>2, <2>4, <2>5, Together
<1> QED
  BY <1>1, <1>2, <1>3

\* A call begun under a stop is refused by what it read, by the stop or by its
\* task.
LEMMA DialUnderStop ==
    ASSUME DeskInv, NEW key \in Keys, NEW offer \in Offers, StoppedCall(key, offer)
    PROVE  ~Allowed(offer) \/ CallStopped(offer.contact) \/ tasks[key].state \in Ended
<1>1. CASE \E stop \in callStops : stop.global
  BY <1>1 DEF DeskInv, StopsFlagged, Flagged, Allowed
<1>2. CASE offer.consent \in revoked
  BY <1>2 DEF Allowed, VoiceConsent, Good
<1> QED
  BY <1>1, <1>2 DEF StoppedCall, CallStopped, Ended

LEMMA CallBegins ==
    ASSUME DeskInv, Remember, NEW c \in Callers, NEW op \in DialOps, NEW key \in Keys, NEW offer \in Offers,
           NEW kind \in Reported, Begin(c, op, key, offer, kind), op \in {"retry", "receipt"} => Stored(key)
    PROVE  DeskInv'
<1> DEFINE clear == Allowed(offer)
           call == [phase |-> "begun", op |-> op, key |-> key, offer |-> offer, kind |-> kind, clear |-> clear]
<1>1. Start(c, call) /\ UNCHANGED <<contextVars, sopVars, outboundVars>>
  BY DEF Begin
<1>2. calls' = [calls EXCEPT ![c] = call] /\ calls'[c] = call /\ began'[c].stopped = Stopped(call)
  BY <1>1, Starting DEF Idle, DialOps
<1>3. clear \in BOOLEAN
  BY DEF Allowed
<1>4. call \in DialCall /\ call.phase = "begun" /\ call.op = op /\ call.key = key /\ call.offer = offer /\ call.clear = clear
  BY <1>3 DEF DialCall
<1> HIDE DEF clear, call
<1>5. TablesTyped' /\ StopsFlagged' /\ Grown
  BY <1>1, Unmoved
<1>6. tasks' = tasks
  BY <1>1 DEF outboundVars
<1>7. began'[c].stopped => ~clear \/ CallStopped(offer.contact)' \/ tasks'[key].state \in Ended
  <2>1. Stopped(call) = StoppedCall(key, offer)
    BY <1>4 DEF Stopped, DialOps
  <2> QED
    BY <1>2, <1>5, <1>6, <2>1, DialUnderStop, StoppedGrows DEF clear
<1>8. CallTyped(call)
  BY <1>4 DEF CallTyped, DialOps
<1>9. Refusing(c)'
  BY <1>2, <1>4, <1>7 DEF Refusing, Phase, DialOps
<1>10. Relying(c)'
  BY <1>2, <1>4, <1>6 DEF Relying, Phase, Stored
<1>11. CallInv(c)'
  BY <1>2, <1>4, <1>8, <1>9, <1>10 DEF CallInv, CallTyped, DialOps
<1> QED
  BY <1>2, <1>5, <1>11, Together

LEMMA CallReads ==
    ASSUME DeskInv, Remember, NEW c \in Callers, Snapshot(c)
    PROVE  DeskInv'
<1> DEFINE clear == Decided(calls[c])
           call == [calls[c] EXCEPT !.phase = "decided", !.clear = clear]
<1>1. Proceed(c, call) /\ calls[c].op \in DialOps /\ Phase(c, "begun") /\ UNCHANGED <<contextVars, sopVars, outboundVars>>
  BY DEF Snapshot, Phase, DialOps
<1>2. calls' = [calls EXCEPT ![c] = call] /\ calls'[c] = call /\ began'[c] = began[c]
  BY <1>1, GoingOn DEF Idle, DialOps
<1>3. calls[c] \in DialCall /\ CallTyped(calls[c]) /\ Refusing(c) /\ Relying(c)
  BY <1>1 DEF DeskInv, CallInv, CallTyped
<1>4. clear \in BOOLEAN
  BY DEF Decided
<1>5. /\ call \in DialCall /\ call.phase = "decided" /\ call.op = calls[c].op
      /\ call.key = calls[c].key /\ call.offer = calls[c].offer /\ call.clear = clear
  BY <1>3, <1>4 DEF DialCall
<1>6. began[c].stopped => ~clear
  BY <1>1, <1>3 DEF Refusing, Decided, Ended
<1>7. calls[c].op = "retry" /\ clear => OutboundReconciled(tasks[calls[c].key].receipts)
  BY DEF Decided
<1> HIDE DEF clear, call
<1>8. TablesTyped' /\ StopsFlagged' /\ Grown
  BY <1>1, Unmoved
<1>9. tasks' = tasks
  BY <1>1 DEF outboundVars
<1>10. CallTyped(call)
  BY <1>1, <1>5 DEF CallTyped, DialOps
<1>11. Refusing(c)'
  BY <1>1, <1>2, <1>5, <1>6 DEF Refusing, Phase, DialOps
<1>12. Relying(c)'
  BY <1>2, <1>3, <1>5, <1>7, <1>9 DEF Relying, Phase, Stored, OutboundReconciled
<1>13. CallInv(c)'
  BY <1>1, <1>2, <1>5, <1>10, <1>11, <1>12 DEF CallInv, CallTyped, DialOps
<1> QED
  BY <1>2, <1>8, <1>13, Together

\* Changing one task, so that it only grows, disturbs nothing else.
LEMMA TaskChanges ==
    ASSUME DeskInv, NEW key \in Keys, NEW task \in Task, tasks' = [tasks EXCEPT ![key] = task],
           UNCHANGED <<callPolicy, callStops, sopVars, contextVars>>,
           Stored(key) => /\ tasks[key].state \in Ended => task.state \in Ended
                          /\ OutboundReconciled(tasks[key].receipts) => OutboundReconciled(task.receipts)
    PROVE  TablesTyped' /\ StopsFlagged' /\ Grown
<1>1. TablesTyped' /\ StopsFlagged'
  BY DEF DeskInv, TablesTyped, StopsFlagged, Flagged, sopVars, contextVars
<1>2. task # NoTask
  BY DEF Task, NoTask, Ended
<1>3. ASSUME NEW other \in Keys, Stored(other)
      PROVE  /\ Stored(other)'
             /\ tasks[other].state \in Ended => tasks'[other].state \in Ended
             /\ OutboundReconciled(tasks[other].receipts) => OutboundReconciled(tasks'[other].receipts)
  BY <1>2, <1>3 DEF DeskInv, TablesTyped, Stored
<1> QED
  BY <1>1, <1>3 DEF Grown, Flagged, sopVars

LEMMA ReceiptsGrow ==
    ASSUME NEW receipts \in Seq(Receipt), NEW more \in Seq(Receipt)
    PROVE  /\ receipts \o more \in Seq(Receipt)
           /\ OutboundReconciled(receipts) => OutboundReconciled(receipts \o more)
<1>1. /\ receipts \o more \in Seq(Receipt)
      /\ \A i \in DOMAIN receipts : i \in DOMAIN (receipts \o more) /\ (receipts \o more)[i] = receipts[i]
  OBVIOUS
<1> QED
  BY <1>1 DEF OutboundReconciled

LEMMA OneReceipt ==
    ASSUME NEW receipt \in Receipt
    PROVE  /\ <<receipt>> \in Seq(Receipt) /\ <<>> \in Seq(Receipt)
           /\ \A receipts \in Seq(Receipt) : Append(receipts, receipt) = receipts \o <<receipt>>
  OBVIOUS

LEMMA AttemptStores ==
    ASSUME DeskInv, Remember, NEW c \in Callers, InsertOutboundAttempt(c)
    PROVE  DeskInv'
<1> DEFINE call == calls[c]
           receipts == IF call.clear THEN <<Fact("dial_submission", FALSE)>> ELSE <<>>
           task == [state |-> IF call.clear THEN "open" ELSE "blocked", offer |-> call.offer, receipts |-> receipts]
<1>1. /\ Finish(c) /\ call.op \in DialOps /\ UNCHANGED <<callPolicy, callStops, sopVars, contextVars>>
      /\ tasks' = IF Stored(call.key) THEN tasks ELSE [tasks EXCEPT ![call.key] = task]
  BY DEF InsertOutboundAttempt, Phase, DialOps
<1>2. call.key \in Keys /\ call.offer \in Offers
  BY <1>1 DEF DeskInv, CallInv, CallTyped, DialCall
<1>3. Fact("dial_submission", FALSE) \in Receipt
  BY DEF Fact, Receipt, Reported
<1>4. receipts \in Seq(Receipt)
  BY <1>3, OneReceipt
<1>5. task \in Task
  BY <1>2, <1>4 DEF Task
<1>6. TablesTyped' /\ StopsFlagged' /\ Grown
  <2>1. CASE Stored(call.key)
    BY <1>1, <2>1, Unmoved DEF outboundVars
  <2>2. CASE ~Stored(call.key)
    <3> HIDE DEF task
    <3> QED
      BY <1>1, <1>2, <1>5, <2>2, TaskChanges
  <2> QED
    BY <2>1, <2>2
<1> QED
  BY <1>1, <1>6, Finishing

LEMMA FactsStore ==
    ASSUME DeskInv, Remember, NEW c \in Callers, AppendOutboundFacts(c)
    PROVE  DeskInv'
<1> DEFINE call == calls[c]
           old == tasks[call.key]
           task == [old EXCEPT !.receipts = @ \o Facts(call)]
<1>1. /\ Finish(c) /\ call.op \in {"retry", "receipt"} /\ UNCHANGED <<callPolicy, callStops, sopVars, contextVars>>
      /\ tasks' = [tasks EXCEPT ![call.key].receipts = @ \o Facts(call)]
  BY DEF AppendOutboundFacts
<1>2. call.key \in Keys /\ call.kind \in Reported /\ Stored(call.key)
  BY <1>1 DEF DeskInv, CallInv, CallTyped, DialCall, Relying, DialOps
<1>3. old \in Task
  BY <1>2, TaskStored DEF DeskInv
<1>4. Fact(call.kind, FALSE) \in Receipt /\ Fact(call.kind, TRUE) \in Receipt
  BY <1>2 DEF Fact, Receipt, Reported
<1>5. Facts(call) \in Seq(Receipt)
  BY <1>4, OneReceipt DEF Facts
<1>6. /\ old.receipts \o Facts(call) \in Seq(Receipt)
      /\ OutboundReconciled(old.receipts) => OutboundReconciled(old.receipts \o Facts(call))
  BY <1>3, <1>5, ReceiptsGrow DEF Task
<1>7. task \in Task /\ task.state = old.state /\ task.receipts = old.receipts \o Facts(call)
  BY <1>3, <1>6 DEF Task
<1>8. tasks' = [tasks EXCEPT ![call.key] = task]
  BY <1>1, <1>2 DEF DeskInv, TablesTyped
<1> HIDE DEF task, old
<1>9. TablesTyped' /\ StopsFlagged' /\ Grown
  BY <1>1, <1>2, <1>6, <1>7, <1>8, TaskChanges DEF old
<1> QED
  BY <1>1, <1>9, Finishing

\* Cancelling and transferring.
LEMMA EndingKeeps ==
    ASSUME DeskInv, Remember, NEW key \in Keys, NEW state \in Ended, NEW kind \in {"cancel", "human_transfer"},
           EndTask(key, state, kind)
    PROVE  DeskInv'
<1> DEFINE old == tasks[key]
           task == [old EXCEPT !.state = state, !.receipts = Append(@, Fact(kind, FALSE))]
<1>1. /\ UNCHANGED <<calls, callPolicy, callStops, sopVars, contextVars>> /\ Stored(key)
      /\ tasks' = [tasks EXCEPT ![key].state = state, ![key].receipts = Append(@, Fact(kind, FALSE))]
  BY DEF EndTask, AtOnce
<1>2. old \in Task
  BY <1>1, TaskStored DEF DeskInv
<1>3. Fact(kind, FALSE) \in Receipt
  BY DEF Fact, Receipt
<1>4. /\ old.receipts \o <<Fact(kind, FALSE)>> \in Seq(Receipt)
      /\ OutboundReconciled(old.receipts) => OutboundReconciled(old.receipts \o <<Fact(kind, FALSE)>>)
  BY <1>2, <1>3, OneReceipt, ReceiptsGrow DEF Task
<1>5. Append(old.receipts, Fact(kind, FALSE)) = old.receipts \o <<Fact(kind, FALSE)>>
  BY <1>2, <1>3, OneReceipt DEF Task
<1>6. task \in Task /\ task.state = state /\ task.receipts = Append(old.receipts, Fact(kind, FALSE))
  BY <1>2, <1>4, <1>5 DEF Task
<1>7. tasks' = [tasks EXCEPT ![key] = task]
  BY <1>1 DEF DeskInv, TablesTyped
<1>8. OutboundReconciled(old.receipts) => OutboundReconciled(task.receipts)
  BY <1>4, <1>5, <1>6
<1> HIDE DEF task
<1>9. TablesTyped' /\ StopsFlagged' /\ Grown
  BY <1>1, <1>6, <1>7, <1>8, TaskChanges
<1> QED
  BY <1>1, <1>9, Together

LEMMA OutboundKeeps ==
    ASSUME DeskInv, Remember, OutboundNext
    PROVE  DeskInv'
<1>1. ASSUME NEW c \in Callers, NEW key \in Keys, NEW offer \in Offers, PostTask(c, key, offer) PROVE DeskInv'
  <2>1. offer.op \in {"dial", "auto"} /\ offer.op \in DialOps /\ "dial_submission" \in Reported
    BY OutboundAssumption DEF DialOps, Reported
  <2>2. Begin(c, offer.op, key, offer, "dial_submission")
    BY <1>1 DEF PostTask
  <2> QED
    BY <2>1, <2>2, CallBegins
<1>2. ASSUME NEW c \in Callers, NEW key \in Keys, Stored(key) PROVE tasks[key].offer \in Offers
  BY <1>2, TaskStored DEF DeskInv, Task
<1>3. ASSUME NEW c \in Callers, NEW key \in Keys, PostRetry(c, key) PROVE DeskInv'
  <2>1. "retry" \in DialOps /\ "dial_submission" \in Reported
    BY DEF DialOps, Reported
  <2> QED
    BY <1>2, <1>3, <2>1, CallBegins DEF PostRetry
<1>4. ASSUME NEW c \in Callers, NEW key \in Keys, NEW kind \in Reported, PostReceipt(c, key, kind) PROVE DeskInv'
  <2>1. "receipt" \in DialOps
    BY DEF DialOps
  <2> QED
    BY <1>2, <1>4, <2>1, CallBegins DEF PostReceipt
<1>5. ASSUME NEW key \in Keys, CancelTask(key) \/ TransferTask(key) PROVE DeskInv'
  <2>1. "cancelled" \in Ended /\ "transferred" \in Ended
    BY DEF Ended
  <2> QED
    BY <1>5, <2>1, EndingKeeps DEF CancelTask, TransferTask
<1> QED
  BY <1>1, <1>3, <1>4, <1>5, CallPoliciesKeep, CallStopsKeep, CallReads, AttemptStores, FactsStore DEF OutboundNext

-----------------------------------------------------------------------------
(* The other steps.                                                        *)

LEMMA ContextKeeps ==
    ASSUME DeskInv, Remember, ContextNext, UNCHANGED <<sopVars, outboundVars>>
    PROVE  DeskInv'
<1>1. UNCHANGED calls /\ clock' \in {clock, clock + 1}
  BY DEF ContextNext, TimePasses, RevokeConsent, SwitchSession, AtOnce
<1>2. TablesTyped' /\ StopsFlagged' /\ Grown
  BY <1>1 DEF DeskInv, TablesTyped, StopsFlagged, Grown, Flagged, Stored, sopVars, outboundVars
<1> QED
  BY <1>1, <1>2, Together

LEMMA AbandonKeeps ==
    ASSUME DeskInv, Remember, NEW c \in Callers, Abandon(c), UNCHANGED <<contextVars, sopVars, outboundVars>>
    PROVE  DeskInv'
  BY Unmoved, Finishing DEF Abandon

\* The requests of the test scheduler and of light copy.
LEMMA ElsewhereKeeps ==
    ASSUME DeskInv, Remember, SandboxNext \/ LightNext, UNCHANGED <<contextVars, sopVars, outboundVars>>
    PROVE  DeskInv'
<1>1. TablesTyped' /\ StopsFlagged' /\ Grown
  BY Unmoved
<1>2. CASE SandboxNext
  <2>1. UNCHANGED calls
    BY <1>2 DEF SandboxNext, AllowAutomatic, Remind, Draft, Confirm, QueueAutomatic, Stopping, Release, Callback, AtOnce
  <2> QED
    BY <1>1, <2>1, Together
<1>3. ASSUME NEW c \in Callers, NEW call, call.op \in {"copy_write", "copy_task", "handover"},
             Start(c, call) \/ Proceed(c, call)
      PROVE  DeskInv'
  <2>1. calls' = [calls EXCEPT ![c] = call] /\ calls'[c] = call
    BY <1>3 DEF Start, Proceed, DeskInv
  <2>2. CallInv(c)'
    BY <1>3, <2>1, OtherKind DEF DialOps
  <2> QED
    BY <1>1, <2>1, <2>2, Together
<1>4. ASSUME NEW c \in Callers, NEW copy, NEW row, BeginWrite(c, copy, row) PROVE DeskInv'
  BY <1>3, <1>4 DEF BeginWrite
<1>5. ASSUME NEW c \in Callers, NEW copy, NEW selected, GenerateCopy(c, copy, selected) PROVE DeskInv'
  BY <1>3, <1>5 DEF GenerateCopy
<1>6. ASSUME NEW c \in Callers, NEW key, NEW copy, NEW selected, NEW decline, BeginHandover(c, key, copy, selected, decline)
      PROVE  DeskInv'
  BY <1>3, <1>6 DEF BeginHandover
<1>7. ASSUME NEW c \in Callers, NEW answer, NEW inTime, TaskRecorded(c, answer, inTime) PROVE DeskInv'
  <2>1. CASE inTime /\ answer # Unusable
    BY <1>3, <1>7, <2>1 DEF TaskRecorded
  <2>2. CASE ~(inTime /\ answer # Unusable)
    BY <1>1, <1>7, <2>2, Finishing DEF TaskRecorded
  <2> QED
    BY <2>1, <2>2
<1>8. ASSUME NEW c \in Callers, WriteCopy(c) \/ InsertHandover(c) PROVE DeskInv'
  BY <1>1, <1>8, Finishing DEF WriteCopy, InsertHandover
<1>9. CASE LightNext
  BY <1>4, <1>5, <1>6, <1>7, <1>8, <1>9 DEF LightNext, SaveCopy, ConfirmCopy
<1> QED
  BY <1>2, <1>9

LEMMA DeskStarts == Init => DeskInv
<1> SUFFICES ASSUME Init PROVE DeskInv
  OBVIOUS
<1>1. TablesTyped /\ StopsFlagged
  BY DEF Init, ContextInit, SopInit, OutboundInit, TablesTyped, StopsFlagged, SopPolicy, CallPolicy,
         Levels, DefaultWindow, Window
<1>2. DOMAIN calls = Callers /\ \A c \in Callers : calls[c] = Idle
  BY DEF Init, Quiet
<1>3. ASSUME NEW c \in Callers PROVE CallInv(c)
  <2>1. calls[c].op = "idle"
    BY <1>2 DEF Idle
  <2> QED
    BY <2>1 DEF CallInv, CallTyped, Refusing, Relying, Phase, DialOps
<1> QED
  BY <1>1, <1>2, <1>3 DEF DeskInv

LEMMA DeskKeeps == DeskInv /\ [Next]_vars => DeskInv'
<1> SUFFICES ASSUME DeskInv, [Next]_vars PROVE DeskInv'
  OBVIOUS
<1>1. CASE UNCHANGED vars
  BY <1>1 DEF vars, requestVars, contextVars, sopVars, outboundVars, DeskInv, TablesTyped, StopsFlagged, Flagged,
              CallInv, CallTyped, Refusing, Relying, Phase, Stored, SopStopped, CallStopped
<1>2. CASE Desk /\ Remember
  BY <1>2, SopKeeps, OutboundKeeps, ContextKeeps, AbandonKeeps DEF Desk
<1>3. CASE SandboxNext /\ UNCHANGED <<contextVars, sopVars, outboundVars>> /\ Remember
  BY <1>3, ElsewhereKeeps
<1>4. CASE LightNext /\ UNCHANGED <<contextVars, sopVars, outboundVars>> /\ Remember
  BY <1>4, ElsewhereKeeps
<1> QED
  BY <1>1, <1>2, <1>3, <1>4 DEF Next

-----------------------------------------------------------------------------
(* What a request does that was begun before.                              *)

\* It stores rows itself or leaves them alone.
LEMMA WhoStores ==
    ASSUME DeskInv, [Next]_vars, NEW c \in Callers, calls'[c] # calls[c], calls[c] # Idle
    PROVE  /\ actions' = actions \/ InsertSOPActions(c)
           /\ tasks' = tasks \/ InsertOutboundAttempt(c) \/ AppendOutboundFacts(c)
<1>1. ASSUME NEW d \in Callers, NEW call, calls' = [calls EXCEPT ![d] = call] PROVE d = c
  BY <1>1 DEF DeskInv
<1>2. ~UNCHANGED calls
  OBVIOUS
<1>3. UNCHANGED <<sopVars, outboundVars>> \/ Desk
  BY <1>2 DEF Next, vars, requestVars
<1>4. CASE Desk
  <2>1. CASE SopNext /\ UNCHANGED outboundVars
    <3>1. ASSUME NEW d \in Callers, InsertSOPActions(d) PROVE InsertSOPActions(c)
      BY <3>1, <1>1 DEF InsertSOPActions, Finish, Proceed
    <3>2. UNCHANGED actions \/ \E d \in Callers : InsertSOPActions(d)
      BY <1>2, <2>1 DEF SopNext, SaveSOPPolicy, AddSOPGlobalStop, ReadSubmit, PostPolicy, SetSOPGlobalStop,
                        BeginOnDraft, BeginSubmit, AddSOPStop, CreateRecord, AtOnce, sopVars
    <3> QED
      BY <2>1, <3>1, <3>2 DEF outboundVars
  <2>2. CASE OutboundNext
    <3>1. ASSUME NEW d \in Callers, InsertOutboundAttempt(d) \/ AppendOutboundFacts(d)
          PROVE  UNCHANGED actions /\ (InsertOutboundAttempt(c) \/ AppendOutboundFacts(c))
      BY <3>1, <1>1 DEF InsertOutboundAttempt, AppendOutboundFacts, Finish, Proceed, sopVars
    <3>2. \/ UNCHANGED <<actions, tasks>>
          \/ \E d \in Callers : InsertOutboundAttempt(d) \/ AppendOutboundFacts(d)
      BY <1>2, <2>2 DEF OutboundNext, SaveOutboundPolicy, AddOutboundGlobalStop, Snapshot, PostCallPolicy,
                        SetOutboundGlobalStop, PostTask, PostRetry, PostReceipt, Begin, AddOutboundStop,
                        CancelTask, TransferTask, EndTask, AtOnce, sopVars, outboundVars
    <3> QED
      BY <3>1, <3>2
  <2> QED
    BY <1>4, <2>1, <2>2 DEF Desk, sopVars, outboundVars
<1> QED
  BY <1>3, <1>4 DEF sopVars, outboundVars

\* A refused submission leaves what is pending as it is.
LEMMA RefusedSubmission ==
    ASSUME DeskInv, NEW c \in Callers, InsertSOPActions(c), ~calls[c].clear
    PROVE  Pending(actions') = Pending(actions)
<1> DEFINE row == Row("channel_submission", "blocked", calls[c].message, calls[c].parent)
<1>1. actions' = actions \o <<row>> /\ row.status = "blocked"
  BY DEF InsertSOPActions, Submission, Row
<1>2. actions \in Seq(Action)
  BY DEF DeskInv, TablesTyped
<1> HIDE DEF row
<1>3. /\ DOMAIN actions' = DOMAIN actions \cup {Len(actions) + 1} /\ actions'[Len(actions) + 1] = row
      /\ \A i \in DOMAIN actions : actions'[i] = actions[i]
      /\ Len(actions) + 1 \notin DOMAIN actions
  BY <1>1, <1>2
<1> QED
  BY <1>1, <1>3 DEF Pending

\* So does a refused attempt, retry or report with the calls of its task.
LEMMA RefusedAttempt ==
    ASSUME DeskInv, NEW c \in Callers, InsertOutboundAttempt(c), ~calls[c].clear, NEW key \in Keys
    PROVE  Calling(tasks'[key]) = Calling(tasks[key])
<1> DEFINE task == [state |-> "blocked", offer |-> calls[c].offer, receipts |-> <<>>]
<1>1. tasks' = tasks \/ (~Stored(calls[c].key) /\ tasks' = [tasks EXCEPT ![calls[c].key] = task])
  BY DEF InsertOutboundAttempt
<1>2. Calling(task) = {} /\ Calling(NoTask) = {}
  BY DEF Calling
<1> HIDE DEF task
<1> QED
  BY <1>1, <1>2 DEF DeskInv, TablesTyped, Stored

LEMMA OneMore ==
    ASSUME NEW receipts \in Seq(Receipt), NEW receipt \in Receipt, NEW new, new = receipts \o <<receipt>>
    PROVE  /\ DOMAIN new = DOMAIN receipts \cup {Len(receipts) + 1} /\ new[Len(receipts) + 1] = receipt
           /\ \A i \in DOMAIN receipts : new[i] = receipts[i]
  OBVIOUS

LEMMA RefusedFacts ==
    ASSUME DeskInv, NEW c \in Callers, AppendOutboundFacts(c), ~calls[c].clear, NEW key \in Keys
    PROVE  /\ Calling(tasks'[key]) = Calling(tasks[key])
           /\ calls[c].op = "retry" => tasks'[key] = tasks[key]
<1> DEFINE call == calls[c]
           old == tasks[call.key]
           more == Facts(call)
<1>1. /\ tasks' = [tasks EXCEPT ![call.key].receipts = @ \o more]
      /\ call.op \in {"retry", "receipt"}
  BY DEF AppendOutboundFacts
<1>2. call.key \in Keys /\ old \in Task
  BY <1>1, TaskStored DEF DeskInv, CallInv, CallTyped, DialCall, Relying, DialOps
<1>3. /\ tasks'[call.key] = [old EXCEPT !.receipts = @ \o more]
      /\ key # call.key => tasks'[key] = tasks[key]
  BY <1>1, <1>2 DEF DeskInv, TablesTyped
<1>4. old.receipts \in Seq(Receipt) /\ old # NoTask
  BY <1>2 DEF Task, NoTask, Ended
<1>5. CASE more = <<>>
  <2>1. old.receipts \o <<>> = old.receipts
    BY <1>4
  <2>2. [old EXCEPT !.receipts = old.receipts] = old
    BY <1>2 DEF Task
  <2> QED
    BY <1>3, <1>5, <2>1, <2>2
<1>6. CASE call.op = "receipt"
  <2> DEFINE fact == Fact(call.kind, TRUE)
             new == old.receipts \o <<fact>>
  <2>1. more = <<fact>> /\ fact.blocked
    BY <1>6 DEF Facts, Fact
  <2>2. fact \in Receipt
    BY <1>1 DEF Fact, Receipt, DeskInv, CallInv, CallTyped, DialCall, DialOps
  <2>3. new = old.receipts \o <<fact>>
    OBVIOUS
  <2> HIDE DEF fact, old, new
  <2>4. /\ DOMAIN new = DOMAIN old.receipts \cup {Len(old.receipts) + 1} /\ new[Len(old.receipts) + 1] = fact
        /\ \A i \in DOMAIN old.receipts : new[i] = old.receipts[i]
    BY <1>4, <2>2, <2>3, OneMore
  <2> USE DEF old, new
  <2>5. tasks'[call.key].receipts = new /\ tasks'[call.key] # NoTask
    BY <1>2, <1>3, <2>1 DEF Task, NoTask, Ended
  <2>6. Calling(tasks'[call.key]) = Calling(old)
    <3> HIDE DEF new
    <3> QED
      BY <1>4, <2>1, <2>4, <2>5 DEF Calling
  <2> QED
    BY <1>3, <1>6, <2>6
<1> QED
  BY <1>1, <1>5, <1>6 DEF Facts

\* Whoever is told that a stop, a revocation or the end of a task is in force:
\* no request that begins later submits a message, dials or books a report as a
\* call, for any number of requests in progress and whatever policies they save
\* (handlers_sop.go, sopSubmit; handlers_outbound.go, outboundSnapshot; the
\* flags of SaveSOPPolicy and SaveOutboundPolicy).
THEOREM StopsHold == Spec => StoppedMeansStopped
<1> DEFINE Kept(c) == /\ Pending(actions') = Pending(actions)
                      /\ \A key \in Keys : Calling(tasks'[key]) = Calling(tasks[key])
<1>1. ASSUME DeskInv, [Next]_vars, NEW c \in Callers, calls'[c] # calls[c], calls[c] # Idle, began[c].stopped
      PROVE  Kept(c)
  <2>1. CallInv(c)
    BY <1>1 DEF DeskInv
  <2>2. InsertSOPActions(c) \/ InsertOutboundAttempt(c) \/ AppendOutboundFacts(c) => ~calls[c].clear
    BY <1>1, <2>1 DEF CallInv, Refusing, InsertSOPActions, InsertOutboundAttempt, AppendOutboundFacts, At
  <2>3. Pending(actions') = Pending(actions)
    BY <1>1, <2>2, WhoStores, RefusedSubmission
  <2>4. ASSUME NEW key \in Keys PROVE Calling(tasks'[key]) = Calling(tasks[key])
    BY <1>1, <2>2, WhoStores, RefusedAttempt, RefusedFacts
  <2> QED
    BY <2>3, <2>4
<1>2. DeskInv /\ [Next]_vars =>
        [\A c \in Callers : calls'[c] # calls[c] /\ calls[c] # Idle /\ began[c].stopped =>
            /\ Pending(actions') = Pending(actions)
            /\ \A key \in Keys : Calling(tasks'[key]) = Calling(tasks[key])]_vars
  BY <1>1
<1> QED
  BY <1>2, DeskStarts, DeskKeeps, PTL DEF Spec, StoppedMeansStopped

\* A task is dialled again only on evidence that an attempt was heard of; a
\* refused report is none (store/outbound.go, outboundReconciled).
THEOREM RedialNeedsEvidence == Spec => RedialedOnEvidence
<1>1. ASSUME DeskInv, [Next]_vars, NEW c \in Callers, Phase(c, "decided"), calls[c].op = "retry", calls'[c] = Idle,
             Calling(tasks'[calls[c].key]) # Calling(tasks[calls[c].key])
      PROVE  \E i \in Calling(tasks[calls[c].key]) : tasks[calls[c].key].receipts[i].kind = "ringing"
  <2> DEFINE task == tasks[calls[c].key]
  <2>1. calls[c] # Idle /\ calls'[c] # calls[c]
    BY <1>1 DEF Idle
  <2>2. AppendOutboundFacts(c)
    BY <1>1, <2>1, WhoStores DEF InsertOutboundAttempt
  <2>3. CallInv(c) /\ calls[c].key \in Keys
    BY <1>1 DEF DeskInv, CallInv, CallTyped, DialOps, DialCall
  <2>4. calls[c].clear
    BY <1>1, <2>2, <2>3, RefusedFacts
  <2>5. OutboundReconciled(task.receipts) /\ task # NoTask
    BY <1>1, <2>3, <2>4 DEF CallInv, Relying, Stored
  <2> QED
    BY <2>5 DEF OutboundReconciled, Calling, Reported
<1>2. DeskInv /\ [Next]_vars =>
        [\A c \in Callers : Phase(c, "decided") /\ calls[c].op = "retry" /\ calls'[c] = Idle =>
            LET task == tasks[calls[c].key] IN
            Calling(tasks'[calls[c].key]) # Calling(task) =>
                \E i \in Calling(task) : task.receipts[i].kind = "ringing"]_vars
  BY <1>1
<1> QED
  BY <1>2, DeskStarts, DeskKeeps, PTL DEF Spec, RedialedOnEvidence

-----------------------------------------------------------------------------
(* How often a contact is written to.                                      *)

\* No row is of a day to come, and what a request found is still the start of
\* the table.
DaysPassed == \A i \in DOMAIN actions : actions[i].day <= Today
Prefixes == \A c \in Callers : began[c].rows \in Nat /\ began[c].rows <= Len(actions)

\* The rows there were when the request of c began.
Earlier(c) == SubSeq(actions, 1, began[c].rows)

\* An admitted submission is within the limits as far as those rows go, on the
\* day it is stored as on the day it was admitted.
Within(c) ==
    At(c, "sop_decided") /\ calls[c].clear =>
        /\ Others(Earlier(c), calls[c].message, calls[c].parent, Today) = {}
        /\ calls[c].how = "retry" => Cardinality(Attempts(Earlier(c), calls[c].parent)) <= MaxAttempts

LimitInv == DaysPassed /\ Prefixes /\ \A c \in Callers : Within(c)

LEMMA DaysInOrder ==
    ASSUME NEW t \in Nat, NEW n \in Nat \ {0}
    PROVE  t \div n <= (t + 1) \div n
<1> DEFINE q == t \div n
           p == (t + 1) \div n
<1>1. /\ q \in Int /\ p \in Int
      /\ t = n * q + (t % n) /\ t % n \in 0..(n - 1)
      /\ t + 1 = n * p + ((t + 1) % n) /\ (t + 1) % n \in 0..(n - 1)
  OBVIOUS
<1>2. n * q <= t /\ t + 1 < n * (p + 1)
  BY <1>1
<1> HIDE DEF q, p
<1>3. ASSUME p < q PROVE FALSE
  <2>1. p + 1 <= q
    BY <1>1, <1>3
  <2>2. n * (p + 1) <= n * q
    BY <1>1, <2>1
  <2> QED
    BY <1>1, <1>2, <2>2
<1> QED
  BY <1>1, <1>3 DEF p, q

LEMMA TodayAdvances ==
    ASSUME DeskInv, clock' \in {clock, clock + 1}
    PROVE  Today \in Int /\ Today' \in Int /\ Today <= Today'
<1>1. clock \in Nat /\ Len(Hours) \in Nat \ {0}
  BY ContextAssumption DEF DeskInv, TablesTyped
<1>2. clock \div Len(Hours) <= clock' \div Len(Hours)
  <2>1. CASE clock' = clock
    BY <1>1, <2>1
  <2>2. CASE clock' = clock + 1
    BY <1>1, <2>2, DaysInOrder
  <2> QED
    BY <2>1, <2>2
<1> QED
  BY <1>1, <1>2 DEF Today

\* The rows before k of a longer table, and what is counted of them.
LEMMA PrefixKept ==
    ASSUME NEW s \in Seq(Action), NEW rows \in Seq(Action), NEW k \in Nat, k <= Len(s)
    PROVE  SubSeq(s \o rows, 1, k) = SubSeq(s, 1, k)
  OBVIOUS

LEMMA PrefixRows ==
    ASSUME NEW s \in Seq(Action), NEW k \in Nat, k <= Len(s)
    PROVE  /\ SubSeq(s, 1, k) \in Seq(Action) /\ DOMAIN SubSeq(s, 1, k) \subseteq DOMAIN s
           /\ \A i \in DOMAIN SubSeq(s, 1, k) : SubSeq(s, 1, k)[i] = s[i]
  OBVIOUS

LEMMA AttemptsCounted ==
    ASSUME NEW s \in Seq(Action), NEW parent
    PROVE  IsFiniteSet(Attempts(s, parent)) /\ Cardinality(Attempts(s, parent)) \in Nat
<1>1. Attempts(s, parent) \subseteq 1..Len(s) /\ Len(s) \in Nat
  BY DEF Attempts, Pending
<1>2. IsFiniteSet(1..Len(s))
  BY <1>1, FS_Interval
<1> QED
  BY <1>1, <1>2, FS_Subset, FS_CardinalityType

LEMMA PrefixCounts ==
    ASSUME NEW s \in Seq(Action), NEW k \in Nat, k <= Len(s), NEW m, NEW parent, NEW day
    PROVE  /\ Others(SubSeq(s, 1, k), m, parent, day) \subseteq Others(s, m, parent, day)
           /\ Cardinality(Attempts(SubSeq(s, 1, k), parent)) <= Cardinality(Attempts(s, parent))
<1> DEFINE earlier == SubSeq(s, 1, k)
<1>1. DOMAIN earlier \subseteq DOMAIN s /\ \A i \in DOMAIN earlier : earlier[i] = s[i]
  BY PrefixRows
<1> HIDE DEF earlier
<1>2. Pending(earlier) \subseteq Pending(s) /\ \A i \in Pending(earlier) : earlier[i] = s[i]
  BY <1>1 DEF Pending
<1>3. Others(earlier, m, parent, day) \subseteq Others(s, m, parent, day)
  BY <1>2 DEF Others, StoredSince
<1>4. Attempts(earlier, parent) \subseteq Attempts(s, parent)
  BY <1>2 DEF Attempts
<1>5. IsFiniteSet(Attempts(s, parent))
  BY AttemptsCounted
<1>6. Cardinality(Attempts(earlier, parent)) <= Cardinality(Attempts(s, parent))
  BY <1>4, <1>5, FS_Subset
<1> QED
  BY <1>3, <1>6 DEF earlier

\* Rows are added at the end, with the day's date, by steps that take no time.
Adding(rows) ==
    /\ actions' = actions \o rows /\ clock' = clock
    /\ \A i \in DOMAIN rows : rows[i].day = Today

LEMMA TableGrows ==
    ASSUME DeskInv, [Next]_vars
    PROVE  \/ UNCHANGED actions /\ clock' \in {clock, clock + 1}
           \/ \E rows \in Seq(Action) : Adding(rows)
<1>1. ASSUME NEW kind \in {"internal_reminder", "pending_draft", "user_reply"}, NEW m \in Messages, CreateRecord(kind, m)
      PROVE  \E rows \in Seq(Action) : Adding(rows)
  <2> DEFINE row == Row(kind, "recorded", m, 0)
  <2>1. row \in Action /\ row.day = Today
    BY RowTyped DEF Row
  <2>2. actions' = Append(actions, row) /\ clock' = clock /\ actions \in Seq(Action)
    BY <1>1 DEF CreateRecord, contextVars, DeskInv, TablesTyped
  <2> HIDE DEF row
  <2>3. <<row>> \in Seq(Action) /\ actions' = actions \o <<row>> /\ \A i \in DOMAIN <<row>> : <<row>>[i].day = Today
    BY <2>1, <2>2
  <2> QED
    BY <2>2, <2>3 DEF Adding
<1>2. ASSUME NEW c \in Callers, InsertSOPActions(c)
      PROVE  \E rows \in Seq(Action) : Adding(rows)
  <2> DEFINE m == calls[c].message
             parent == calls[c].parent
             sent == Row("channel_submission", "pending_send", m, parent)
             waiting == Row("channel_delivery", "undelivered", m, parent)
             refused == Row("channel_submission", "blocked", m, parent)
  <2>1. m \in Messages /\ parent \in Nat
    BY <1>2 DEF DeskInv, CallInv, CallTyped, InsertSOPActions, At
  <2>2. /\ sent \in Action /\ waiting \in Action /\ refused \in Action
        /\ sent.day = Today /\ waiting.day = Today /\ refused.day = Today
    BY <2>1, RowTyped DEF Row
  <2>3. Submission(calls[c]) \in {<<sent, waiting>>, <<refused>>}
    BY DEF Submission
  <2>4. actions' = actions \o Submission(calls[c]) /\ clock' = clock
    BY <1>2 DEF InsertSOPActions, contextVars
  <2> HIDE DEF sent, waiting, refused
  <2>5. /\ <<sent, waiting>> \in Seq(Action) /\ <<refused>> \in Seq(Action)
        /\ \A i \in DOMAIN <<sent, waiting>> : <<sent, waiting>>[i].day = Today
        /\ \A i \in DOMAIN <<refused>> : <<refused>>[i].day = Today
    BY <2>2
  <2> QED
    BY <2>3, <2>4, <2>5 DEF Adding
<1>3. CASE SopNext
  <2>1. \/ UNCHANGED <<actions, contextVars>> \/ \E c \in Callers : InsertSOPActions(c)
        \/ \E kind \in {"internal_reminder", "pending_draft", "user_reply"}, m \in Messages : CreateRecord(kind, m)
    BY <1>3 DEF SopNext, SaveSOPPolicy, AddSOPGlobalStop, ReadSubmit, PostPolicy, SetSOPGlobalStop,
                BeginOnDraft, BeginSubmit, AddSOPStop, sopVars
  <2> QED
    BY <1>1, <1>2, <2>1 DEF contextVars
<1>4. CASE OutboundNext
  <2>1. UNCHANGED <<sopVars, contextVars>>
    BY <1>4 DEF OutboundNext, SaveOutboundPolicy, AddOutboundGlobalStop, Snapshot, PostCallPolicy,
                SetOutboundGlobalStop, PostTask, PostRetry, PostReceipt, Begin, AddOutboundStop,
                CancelTask, TransferTask, EndTask, InsertOutboundAttempt, AppendOutboundFacts
  <2> QED
    BY <2>1 DEF sopVars, contextVars
<1>5. CASE ContextNext /\ UNCHANGED sopVars
  BY <1>5 DEF ContextNext, TimePasses, RevokeConsent, SwitchSession, sopVars
<1>6. CASE UNCHANGED <<sopVars, contextVars>>
  BY <1>6 DEF sopVars, contextVars
<1> QED
  BY <1>3, <1>4, <1>5, <1>6 DEF Next, Desk, vars

\* A submission is decided by reading the counts.
ReadsCounts(c) == calls'[c] = calls[c] \/ ReadSubmit(c) \/ calls'[c].op # "sop_decided"

LEMMA DecidedByReading ==
    ASSUME DeskInv, [Next]_vars, NEW c \in Callers
    PROVE  ReadsCounts(c)
<1>1. ASSUME NEW d \in Callers, NEW call, call.op # "sop_decided", calls' = [calls EXCEPT ![d] = call] PROVE ReadsCounts(c)
  BY <1>1 DEF DeskInv, ReadsCounts
<1>2. CASE UNCHANGED calls
  BY <1>2 DEF ReadsCounts
<1>3. CASE SopNext
  <2>1. ASSUME NEW d \in Callers, ReadSubmit(d) PROVE ReadsCounts(c)
    BY <2>1 DEF ReadSubmit, Proceed, DeskInv, ReadsCounts
  <2>2. ASSUME NEW d \in Callers, NEW how, NEW m, NEW parent, NEW reconciled, BeginSubmit(d, how, m, parent, reconciled)
        PROVE  ReadsCounts(c)
    <3> DEFINE call == [op |-> "sop_begun", how |-> how, message |-> m, parent |-> parent, reconciled |-> reconciled,
                        clear |-> ~sopPolicy.stop /\ InsideWindow(sopPolicy.window) /\ ConsentCovers(m)]
    <3>1. call.op = "sop_begun" /\ calls' = [calls EXCEPT ![d] = call]
      BY <2>2 DEF BeginSubmit, Start
    <3> HIDE DEF call
    <3> QED
      BY <1>1, <3>1
  <2>3. ASSUME NEW d \in Callers, NEW level, NEW window, PostPolicy(d, level, window) PROVE ReadsCounts(c)
    BY <1>1, <2>3 DEF PostPolicy, Start
  <2>4. ASSUME NEW d \in Callers, NEW contact, NEW scope, SetSOPGlobalStop(d, contact, scope) PROVE ReadsCounts(c)
    BY <1>1, <2>4 DEF SetSOPGlobalStop, Start
  <2>5. ASSUME NEW d \in Callers, Finish(d) PROVE ReadsCounts(c)
    BY <1>1, <2>5 DEF Finish, Proceed, Idle
  <2>6. ReadsCounts(c) \/ UNCHANGED calls
    BY <1>3, <2>1, <2>2, <2>3, <2>4, <2>5
       DEF SopNext, SaveSOPPolicy, AddSOPGlobalStop, InsertSOPActions, BeginOnDraft, AddSOPStop, CreateRecord, AtOnce
  <2> QED
    BY <2>6, <1>2
<1>4. CASE OutboundNext
  <2>1. ASSUME NEW d \in Callers, NEW op \in DialOps, NEW key, NEW offer, NEW kind, Begin(d, op, key, offer, kind)
        PROVE  ReadsCounts(c)
    BY <1>1, <2>1 DEF Begin, Start, DialOps
  <2>2. ASSUME NEW d \in Callers, Snapshot(d) PROVE ReadsCounts(c)
    <3> DEFINE call == [calls[d] EXCEPT !.phase = "decided", !.clear = Decided(calls[d])]
    <3>1. calls' = [calls EXCEPT ![d] = call] /\ calls[d] \in DialCall
      BY <2>2 DEF Snapshot, Proceed, Phase, DeskInv, CallInv, CallTyped, DialOps
    <3>2. call.op \in DialOps
      BY <3>1 DEF DialCall
    <3> QED
      BY <1>1, <3>1, <3>2 DEF DialOps
  <2>3. ASSUME NEW d \in Callers, NEW window, PostCallPolicy(d, window) PROVE ReadsCounts(c)
    BY <1>1, <2>3 DEF PostCallPolicy, Start
  <2>4. ASSUME NEW d \in Callers, NEW contact, SetOutboundGlobalStop(d, contact) PROVE ReadsCounts(c)
    BY <1>1, <2>4 DEF SetOutboundGlobalStop, Start
  <2>5. ASSUME NEW d \in Callers, NEW key, NEW offer \in Offers, PostTask(d, key, offer) PROVE ReadsCounts(c)
    BY <2>1, <2>5, OutboundAssumption DEF PostTask, DialOps
  <2>6. ASSUME NEW d \in Callers, NEW key, NEW kind, PostRetry(d, key) \/ PostReceipt(d, key, kind) PROVE ReadsCounts(c)
    BY <2>1, <2>6 DEF PostRetry, PostReceipt, DialOps
  <2>7. ASSUME NEW d \in Callers, Finish(d) PROVE ReadsCounts(c)
    BY <1>1, <2>7 DEF Finish, Proceed, Idle
  <2>8. ReadsCounts(c) \/ UNCHANGED calls
    BY <1>4, <2>2, <2>3, <2>4, <2>5, <2>6, <2>7
       DEF OutboundNext, SaveOutboundPolicy, AddOutboundGlobalStop, InsertOutboundAttempt, AppendOutboundFacts,
           AddOutboundStop, CancelTask, TransferTask, EndTask, AtOnce
  <2> QED
    BY <2>8, <1>2
<1>5. CASE LightNext
  <2>1. ASSUME NEW d \in Callers, NEW copy, NEW row, BeginWrite(d, copy, row) PROVE ReadsCounts(c)
    BY <1>1, <2>1 DEF BeginWrite, Start
  <2>2. ASSUME NEW d \in Callers, NEW copy, NEW selected, GenerateCopy(d, copy, selected) PROVE ReadsCounts(c)
    BY <1>1, <2>2 DEF GenerateCopy, Start
  <2>3. ASSUME NEW d \in Callers, NEW key, NEW copy, NEW selected, NEW decline, BeginHandover(d, key, copy, selected, decline)
        PROVE  ReadsCounts(c)
    BY <1>1, <2>3 DEF BeginHandover, Start
  <2>4. ASSUME NEW d \in Callers, Finish(d) PROVE ReadsCounts(c)
    BY <1>1, <2>4 DEF Finish, Proceed, Idle
  <2>5. ASSUME NEW d \in Callers, NEW answer, NEW inTime, TaskRecorded(d, answer, inTime) PROVE ReadsCounts(c)
    BY <1>1, <2>4, <2>5 DEF TaskRecorded, Proceed
  <2> QED
    BY <1>5, <2>1, <2>2, <2>3, <2>4, <2>5 DEF LightNext, SaveCopy, ConfirmCopy, WriteCopy, InsertHandover
<1>6. CASE SandboxNext \/ ContextNext
  <2>1. UNCHANGED calls
    BY <1>6 DEF SandboxNext, AllowAutomatic, Remind, Draft, Confirm, QueueAutomatic, Stopping, Release, Callback,
                ContextNext, TimePasses, RevokeConsent, SwitchSession, AtOnce
  <2> QED
    BY <1>2, <2>1
<1>7. ASSUME NEW d \in Callers, Abandon(d) PROVE ReadsCounts(c)
  BY <1>1, <1>7 DEF Abandon, Finish, Proceed, Idle
<1> QED
  BY <1>2, <1>3, <1>4, <1>5, <1>6, <1>7 DEF Next, Desk, vars, requestVars

\* An admitted request stays within the limits while it waits: rows that were
\* there do not change, and on a later day they are of no account.
LEMMA WithinWaits ==
    ASSUME DeskInv, LimitInv, [Next]_vars, NEW c \in Callers, calls'[c] = calls[c]
    PROVE  Within(c)'
<1> DEFINE k == began[c].rows
           call == calls[c]
<1>1. SUFFICES ASSUME call.op = "sop_decided", call.clear
               PROVE  /\ Others(Earlier(c)', call.message, call.parent, Today') = {}
                      /\ call.how = "retry" => Cardinality(Attempts(Earlier(c)', call.parent)) <= MaxAttempts
  BY DEF Within, At
<1>2. k \in Nat /\ k <= Len(actions) /\ actions \in Seq(Action)
  BY DEF LimitInv, Prefixes, DeskInv, TablesTyped
<1>3. began'[c] = began[c]
  BY <1>1 DEF Next, Remember, vars
<1>4. Earlier(c)' = Earlier(c)
  BY <1>2, <1>3, TableGrows, PrefixKept DEF Earlier, Adding
<1>5. /\ Others(Earlier(c), call.message, call.parent, Today) = {}
      /\ call.how = "retry" => Cardinality(Attempts(Earlier(c), call.parent)) <= MaxAttempts
  BY <1>1 DEF LimitInv, Within, At
<1>6. Today \in Int /\ Today' \in Int /\ Today <= Today'
  BY TableGrows, TodayAdvances DEF Adding
<1>7. Today # Today' => Others(Earlier(c), call.message, call.parent, Today') = {}
  <2>1. \A i \in DOMAIN Earlier(c) : Earlier(c)[i].day \in Int /\ Earlier(c)[i].day <= Today
    <3>1. \A i \in DOMAIN actions : actions[i].day \in Int /\ actions[i].day <= Today
      <4>1. \A i \in DOMAIN actions : actions[i] \in Action
        BY <1>2
      <4> QED
        BY <4>1 DEF LimitInv, DaysPassed, Action
    <3>2. DOMAIN Earlier(c) \subseteq DOMAIN actions /\ \A i \in DOMAIN Earlier(c) : Earlier(c)[i] = actions[i]
      BY <1>2, PrefixRows DEF Earlier
    <3> QED
      BY <3>1, <3>2
  <2> QED
    BY <1>6, <2>1 DEF Others, Pending, StoredSince
<1> QED
  BY <1>4, <1>5, <1>7

\* A request that is admitted counted all the rows there were, those it found
\* among them.
LEMMA WithinDecided ==
    ASSUME DeskInv, LimitInv, Remember, NEW c \in Callers, ReadSubmit(c)
    PROVE  Within(c)'
<1> DEFINE k == began[c].rows
           m == calls[c].message
           parent == calls[c].parent
           call == [op |-> "sop_decided", message |-> m, parent |-> parent, how |-> calls[c].how,
                    clear |-> Cleared(calls[c])]
<1>1. Proceed(c, call) /\ calls[c].op = "sop_begun" /\ UNCHANGED <<sopVars, contextVars>>
  BY DEF ReadSubmit, At
<1>2. calls'[c] = call /\ began'[c] = began[c]
  BY <1>1, GoingOn DEF Idle
<1>3. k \in Nat /\ k <= Len(actions) /\ actions \in Seq(Action)
  BY DEF LimitInv, Prefixes, DeskInv, TablesTyped
<1>4. Earlier(c)' = SubSeq(actions, 1, k) /\ Today' = Today
  BY <1>1, <1>2 DEF Earlier, Today, sopVars, contextVars
<1>5. call.clear => /\ Others(actions, m, parent, Today) = {}
                    /\ calls[c].how = "retry" => Cardinality(Attempts(actions, parent)) <= MaxAttempts
  BY DEF Cleared
<1>6. call.clear => Others(SubSeq(actions, 1, k), m, parent, Today) = {}
  BY <1>3, <1>5, PrefixCounts
<1>7. Cardinality(Attempts(SubSeq(actions, 1, k), parent)) \in Nat /\ Cardinality(Attempts(actions, parent)) \in Nat
  BY <1>3, AttemptsCounted, PrefixRows
<1>8. call.clear /\ calls[c].how = "retry" => Cardinality(Attempts(SubSeq(actions, 1, k), parent)) <= MaxAttempts
  <2>1. Cardinality(Attempts(SubSeq(actions, 1, k), parent)) <= Cardinality(Attempts(actions, parent))
    BY <1>3, PrefixCounts
  <2> QED
    BY <1>5, <1>7, <2>1 DEF MaxAttempts
<1> QED
  BY <1>2, <1>4, <1>6, <1>8 DEF Within

LEMMA LimitKeeps == DeskInv /\ LimitInv /\ [Next]_vars => LimitInv'
<1> SUFFICES ASSUME DeskInv, LimitInv, [Next]_vars PROVE LimitInv'
  OBVIOUS
<1>1. actions \in Seq(Action) /\ DaysPassed /\ Prefixes
  BY DEF DeskInv, TablesTyped, LimitInv
<1>2. Today \in Int /\ Today' \in Int /\ Today <= Today'
  BY TableGrows, TodayAdvances DEF Adding
<1>3. DaysPassed' /\ Len(actions) \in Nat /\ Len(actions') \in Nat /\ Len(actions) <= Len(actions')
  <2>1. CASE UNCHANGED actions
    <3>1. \A i \in DOMAIN actions : actions[i] \in Action
      BY <1>1
    <3>2. DaysPassed'
      BY <1>1, <1>2, <2>1, <3>1 DEF DaysPassed, Action
    <3> QED
      BY <1>1, <2>1, <3>2
  <2>2. ASSUME NEW rows \in Seq(Action), Adding(rows) PROVE DaysPassed' /\ Len(actions') \in Nat /\ Len(actions) <= Len(actions')
    <3>1. Today' = Today
      BY <2>2 DEF Adding, Today
    <3>2. \A i \in DOMAIN actions' : IF i \in DOMAIN actions THEN actions'[i] = actions[i]
                                     ELSE i - Len(actions) \in DOMAIN rows /\ actions'[i] = rows[i - Len(actions)]
      BY <1>1, <2>2 DEF Adding
    <3>3. DaysPassed'
      BY <1>1, <1>2, <2>2, <3>1, <3>2 DEF Adding, DaysPassed
    <3> QED
      BY <1>1, <2>2, <3>3 DEF Adding
  <2> QED
    BY <1>1, <2>1, <2>2, TableGrows
<1>4. Prefixes'
  <2>1. \A c \in Callers : began'[c].rows \in {began[c].rows, Len(actions)}
    BY DEF Next, Remember, vars
  <2> QED
    BY <1>1, <1>3, <2>1 DEF Prefixes
<1>5. ASSUME NEW c \in Callers PROVE Within(c)'
  <2>1. CASE calls'[c] = calls[c]
    BY <2>1, WithinWaits
  <2>2. CASE ReadSubmit(c) /\ calls'[c] # calls[c]
    <3>1. Remember
      BY <2>2 DEF Next, vars, requestVars
    <3> QED
      BY <2>2, <3>1, WithinDecided
  <2>3. CASE calls'[c].op # "sop_decided"
    BY <2>3 DEF Within, At
  <2> QED
    BY <2>1, <2>2, <2>3, DecidedByReading DEF ReadsCounts
<1> QED
  BY <1>3, <1>4, <1>5 DEF LimitInv

LEMMA LimitStarts == Init => LimitInv
<1> SUFFICES ASSUME Init PROVE LimitInv
  OBVIOUS
<1>1. DaysPassed /\ Prefixes
  BY DEF Init, SopInit, DaysPassed, Prefixes
<1>2. \A c \in Callers : calls[c].op = "idle"
  BY DEF Init, Quiet, Idle
<1> QED
  BY <1>1, <1>2 DEF LimitInv, Within, At

\* To a contact, by one channel and for one purpose, one draft a day, and a draft
\* retried once: whatever was stored when a request began is counted, also when
\* a day has passed since the counts were read, but for drafts submitted in the
\* first second of the day, which are never counted (handlers_sop.go, sopSubmit;
\* store/sop_reach.go, CountSOPSubmissions, CountSOPAttempts, ShanghaiDayStart).
THEOREM LimitsHold == Spec => SubmissionsLimited
<1>1. ASSUME DeskInv, LimitInv, [Next]_vars, NEW c \in Callers, At(c, "sop_decided"), calls'[c] = Idle,
             Pending(actions') # Pending(actions)
      PROVE  /\ \A i \in Pending(Earlier(c)) :
                   /\ Alike(Earlier(c)[i].message, calls[c].message) /\ Earlier(c)[i].parent # calls[c].parent
                   /\ Earlier(c)[i].day = Today
                   => Earlier(c)[i].first
             /\ calls[c].how = "retry" => Cardinality(Attempts(Earlier(c), calls[c].parent)) <= 1
  <2>1. calls'[c] # calls[c] /\ calls[c] # Idle
    BY <1>1 DEF At, Idle
  <2>2. InsertSOPActions(c)
    BY <1>1, <2>1, WhoStores
  <2>3. calls[c].clear
    BY <1>1, <2>2, RefusedSubmission
  <2>4. Others(Earlier(c), calls[c].message, calls[c].parent, Today) = {}
    BY <1>1, <2>3 DEF LimitInv, Within
  <2>5. calls[c].how = "retry" => Cardinality(Attempts(Earlier(c), calls[c].parent)) <= 1
    BY <1>1, <2>3 DEF LimitInv, Within, MaxAttempts
  <2> QED
    BY <2>4, <2>5 DEF Others, StoredSince
<1>2. DeskInv /\ LimitInv /\ [Next]_vars =>
        [\A c \in Callers : At(c, "sop_decided") /\ calls'[c] = Idle /\ Pending(actions') # Pending(actions) =>
            LET earlier == SubSeq(actions, 1, began[c].rows)
                call == calls[c]
            IN  /\ \A i \in Pending(earlier) :
                     Alike(earlier[i].message, call.message) /\ earlier[i].parent # call.parent /\ earlier[i].day = Today
                     => earlier[i].first
                /\ call.how = "retry" => Cardinality({i \in Pending(earlier) : earlier[i].parent = call.parent}) <= 1]_vars
  BY <1>1 DEF Earlier, Attempts
<1> QED
  BY <1>2, DeskStarts, DeskKeeps, LimitStarts, LimitKeeps, PTL DEF Spec, SubmissionsLimited

-----------------------------------------------------------------------------
(* Light copy.                                                             *)

CopyRow == [text : Texts, origin : {"manual", "model"}, confirmed : BOOLEAN, charge : {0, 1}, version : Nat \ {0}]
MaybeRow == {Missing} \cup CopyRow
CopyOps == {"copy_write", "copy_task", "handover"}

CopiesTyped ==
    /\ copies \in [Copies -> MaybeRow]
    /\ metered \in [DOMAIN metered -> Texts \cup {Unusable}]
    /\ DOMAIN handovers = HandoverKeys
    /\ \A w \in written : w[1] \in Copies /\ w[2] \in Nat /\ w = <<w[1], w[2], w[3]>>

\* The row stands among those written, and none is newer.
RowsWritten ==
    \A k \in Copies : copies[k] # Missing => <<k, copies[k].version, copies[k].text>> \in written

TextsFixed ==
    ~overwritten => /\ \A w \in written : w[2] <= copies[w[1]].version
                    /\ \A x, y \in written : x[1] = y[1] /\ x[2] = y[2] => x = y

Exists(copy, version) == \E w \in written : w[1] = copy /\ w[2] = version

ToolsNamed ==
    \A key \in HandoverKeys :
        handovers[key] # Missing /\ handovers[key].status = "failed" => Exists(handovers[key].copy, handovers[key].version)

\* What is stored is the text read, or a version further.
FollowsRead(read, row) ==
    \/ row.version = read.version + 1
    \/ read # Missing /\ row.version = read.version /\ row.text = read.text

CopyCall(call) ==
    /\ call.op \in {"copy_write", "copy_task"} => call.copy \in Copies /\ call.read \in MaybeRow
    /\ call.op = "copy_write" => call.row \in CopyRow /\ FollowsRead(call.read, call.row)
    /\ call.op = "handover" => /\ call.key \in HandoverKeys
                               /\ call.row.status = "failed" => Exists(call.row.copy, call.row.version)

LightInv ==
    /\ CopiesTyped /\ RowsWritten /\ TextsFixed /\ ToolsNamed
    /\ DOMAIN calls = Callers /\ \A c \in Callers : CopyCall(calls[c])

\* The tables of light copy unchanged, and calls but for one that is none of its.
LEMMA CopiesWait ==
    ASSUME LightInv, UNCHANGED lightVars,
           \/ UNCHANGED calls
           \/ \E c \in Callers : \E call : calls' = [calls EXCEPT ![c] = call] /\ CopyCall(call)
    PROVE  LightInv'
<1>1. \A call : CopyCall(call) => CopyCall(call)'
  BY DEF CopyCall, Exists, lightVars
<1>2. DOMAIN calls' = Callers /\ \A c \in Callers : CopyCall(calls'[c])
  BY DEF LightInv
<1>3. \A c \in Callers : CopyCall(calls[c])'
  BY <1>1, <1>2 DEF CopyCall, Exists, lightVars
<1> QED
  BY <1>2, <1>3 DEF LightInv, CopiesTyped, RowsWritten, TextsFixed, ToolsNamed, Exists, lightVars

LEMMA DeskCalls ==
    ASSUME DeskInv, Desk
    PROVE  \/ UNCHANGED calls
           \/ \E c \in Callers : \E call : calls' = [calls EXCEPT ![c] = call] /\ call.op \notin CopyOps
<1> DEFINE Elsewhere(c) == \E call : calls' = [calls EXCEPT ![c] = call] /\ call.op \notin CopyOps
<1>1. ASSUME NEW c \in Callers, NEW call, call.op \notin CopyOps, Start(c, call) \/ Proceed(c, call) PROVE Elsewhere(c)
  BY <1>1 DEF Start, Proceed
<1>2. ASSUME NEW c \in Callers, Finish(c) PROVE Elsewhere(c)
  BY <1>1, <1>2 DEF Finish, Idle, CopyOps
<1>3. ASSUME NEW c \in Callers, Snapshot(c) PROVE Elsewhere(c)
  <2> DEFINE call == [calls[c] EXCEPT !.phase = "decided", !.clear = Decided(calls[c])]
  <2>1. Proceed(c, call) /\ calls[c] \in DialCall
    BY <1>3 DEF Snapshot, Phase, DeskInv, CallInv, CallTyped, DialOps
  <2>2. call.op \in DialOps
    BY <2>1 DEF DialCall
  <2> QED
    BY <1>1, <2>1, <2>2 DEF DialOps, CopyOps
<1>4. ASSUME NEW c \in Callers, NEW op \in DialOps, NEW key, NEW offer, NEW kind, Begin(c, op, key, offer, kind)
      PROVE  Elsewhere(c)
  BY <1>1, <1>4 DEF Begin, DialOps, CopyOps
<1>5. CASE SopNext
  <2>1. ASSUME NEW c \in Callers, NEW how, NEW m, NEW parent, NEW reconciled, BeginSubmit(c, how, m, parent, reconciled)
        PROVE  Elsewhere(c)
    BY <1>1, <2>1 DEF BeginSubmit, CopyOps
  <2>2. ASSUME NEW c \in Callers, ReadSubmit(c) PROVE Elsewhere(c)
    BY <1>1, <2>2 DEF ReadSubmit, CopyOps
  <2>3. ASSUME NEW c \in Callers, NEW level, NEW window, PostPolicy(c, level, window) PROVE Elsewhere(c)
    BY <1>1, <2>3 DEF PostPolicy, CopyOps
  <2>4. ASSUME NEW c \in Callers, NEW contact, NEW scope, SetSOPGlobalStop(c, contact, scope) PROVE Elsewhere(c)
    BY <1>1, <2>4 DEF SetSOPGlobalStop, CopyOps
  <2> HIDE DEF Elsewhere
  <2>5. UNCHANGED calls \/ \E c \in Callers : Elsewhere(c)
    BY <1>2, <1>5, <2>1, <2>2, <2>3, <2>4
       DEF SopNext, SaveSOPPolicy, AddSOPGlobalStop, InsertSOPActions, BeginOnDraft, AddSOPStop, CreateRecord, AtOnce
  <2> QED
    BY <2>5 DEF Elsewhere
<1>6. CASE OutboundNext
  <2>1. ASSUME NEW c \in Callers, NEW window, PostCallPolicy(c, window) PROVE Elsewhere(c)
    BY <1>1, <2>1 DEF PostCallPolicy, CopyOps
  <2>2. ASSUME NEW c \in Callers, NEW contact, SetOutboundGlobalStop(c, contact) PROVE Elsewhere(c)
    BY <1>1, <2>2 DEF SetOutboundGlobalStop, CopyOps
  <2>3. ASSUME NEW c \in Callers, NEW key, NEW offer \in Offers, PostTask(c, key, offer) PROVE Elsewhere(c)
    BY <1>4, <2>3, OutboundAssumption DEF PostTask, DialOps
  <2>4. ASSUME NEW c \in Callers, NEW key, NEW kind, PostRetry(c, key) \/ PostReceipt(c, key, kind) PROVE Elsewhere(c)
    BY <1>4, <2>4 DEF PostRetry, PostReceipt, DialOps
  <2> HIDE DEF Elsewhere
  <2>5. UNCHANGED calls \/ \E c \in Callers : Elsewhere(c)
    BY <1>2, <1>3, <1>6, <2>1, <2>2, <2>3, <2>4
       DEF OutboundNext, SaveOutboundPolicy, AddOutboundGlobalStop, InsertOutboundAttempt, AppendOutboundFacts,
           AddOutboundStop, CancelTask, TransferTask, EndTask, AtOnce
  <2> QED
    BY <2>5 DEF Elsewhere
<1>7. CASE ContextNext
  BY <1>7 DEF ContextNext, TimePasses, RevokeConsent, SwitchSession, AtOnce
<1>8. ASSUME NEW c \in Callers, Abandon(c) PROVE Elsewhere(c)
  BY <1>2, <1>8 DEF Abandon
<1> QED
  BY <1>5, <1>6, <1>7, <1>8 DEF Desk

\* What a request is going to store is a row, and follows the one it read.
LEMMA RowsFollow ==
    ASSUME NEW row \in MaybeRow, NEW text \in Texts
    PROVE  /\ Edited(row, text) \in CopyRow /\ FollowsRead(row, Edited(row, text))
           /\ Generated(row, text) \in CopyRow /\ FollowsRead(row, Generated(row, text))
           /\ row # Missing => Confirmed(row) \in CopyRow /\ FollowsRead(row, Confirmed(row))
<1>1. row.version \in Nat /\ (row = Missing => row.version = 0) /\ (row # Missing => row \in CopyRow)
  BY DEF MaybeRow, Missing, CopyRow
<1>2. Edited(row, text) \in CopyRow /\ FollowsRead(row, Edited(row, text))
  BY <1>1 DEF Edited, CopyRow, FollowsRead
<1>3. Generated(row, text) \in CopyRow /\ FollowsRead(row, Generated(row, text))
  BY <1>1 DEF Generated, CopyRow, FollowsRead
<1>4. row # Missing => Confirmed(row) \in CopyRow /\ FollowsRead(row, Confirmed(row))
  BY <1>1 DEF Confirmed, CopyRow, FollowsRead
<1> QED
  BY <1>2, <1>3, <1>4

LEMMA WritesBegin ==
    ASSUME LightInv, UNCHANGED lightVars, NEW c \in Callers, NEW copy \in Copies, NEW row \in CopyRow,
           BeginWrite(c, copy, row), FollowsRead(copies[copy], row)
    PROVE  LightInv'
<1> DEFINE call == [op |-> "copy_write", copy |-> copy, read |-> copies[copy], row |-> row]
<1>1. calls' = [calls EXCEPT ![c] = call]
  BY DEF BeginWrite, Start
<1>2. CopyCall(call)
  BY DEF CopyCall, LightInv, CopiesTyped
<1> QED
  BY <1>1, <1>2, CopiesWait

LEMMA CopyBegins ==
    ASSUME LightInv, NEW c \in Callers, NEW copy \in Copies,
           \/ \E text \in Texts : SaveCopy(c, copy, text)
           \/ ConfirmCopy(c, copy)
           \/ \E selected : GenerateCopy(c, copy, selected)
    PROVE  LightInv'
<1>1. copies[copy] \in MaybeRow
  BY DEF LightInv, CopiesTyped
<1>2. ASSUME NEW text \in Texts, SaveCopy(c, copy, text) PROVE LightInv'
  BY <1>1, <1>2, RowsFollow, WritesBegin DEF SaveCopy
<1>3. CASE ConfirmCopy(c, copy)
  <2>1. Confirmed(copies[copy]) \in CopyRow /\ FollowsRead(copies[copy], Confirmed(copies[copy]))
    <3>1. copies[copy] # Missing
      BY <1>3 DEF ConfirmCopy
    <3> QED
      BY <1>1, <3>1 DEF MaybeRow, CopyRow, Confirmed, FollowsRead
  <2> QED
    BY <1>3, <2>1, WritesBegin DEF ConfirmCopy
<1>4. ASSUME NEW selected, GenerateCopy(c, copy, selected) PROVE LightInv'
  <2> DEFINE call == [op |-> "copy_task", copy |-> copy, read |-> copies[copy], selected |-> selected]
  <2>1. calls' = [calls EXCEPT ![c] = call] /\ UNCHANGED lightVars
    BY <1>4 DEF GenerateCopy, Start
  <2>2. CopyCall(call)
    BY <1>1 DEF CopyCall
  <2> QED
    BY <2>1, <2>2, CopiesWait
<1> QED
  BY <1>2, <1>3, <1>4

LEMMA HandoverBegins ==
    ASSUME LightInv, NEW c \in Callers, NEW key \in HandoverKeys, NEW copy \in Copies, NEW selected, NEW decline,
           BeginHandover(c, key, copy, selected, decline)
    PROVE  LightInv'
<1> DEFINE row == Opened(copy, selected, decline)
           call == [op |-> "handover", key |-> key, row |-> row]
<1>1. calls' = [calls EXCEPT ![c] = call] /\ UNCHANGED lightVars /\ (decline \/ copies[copy] # Missing)
  BY DEF BeginHandover, Start
<1>2. row.status = "failed" => Exists(row.copy, row.version)
  <2>1. row.status = "failed" => copies[copy] # Missing
    BY <1>1 DEF Opened
  <2>2. copies[copy] # Missing => <<copy, copies[copy].version, copies[copy].text>> \in written
    BY DEF LightInv, RowsWritten
  <2> QED
    BY <2>1, <2>2 DEF Opened, Exists
<1>3. CopyCall(call)
  BY <1>2 DEF CopyCall
<1> QED
  BY <1>1, <1>3, CopiesWait

LEMMA TaskKeeps ==
    ASSUME LightInv, NEW c \in Callers, NEW answer, NEW inTime, TaskRecorded(c, answer, inTime)
    PROVE  LightInv'
<1> DEFINE task == <<calls[c].copy, calls[c].read.version, calls[c].selected>>
           call == [op |-> "copy_write", copy |-> calls[c].copy, read |-> calls[c].read,
                    row |-> Generated(calls[c].read, answer)]
<1>1. /\ calls[c].op = "copy_task" /\ answer \in Answers(task)
      /\ metered' = [t \in DOMAIN metered \cup {task} |-> IF t = task THEN answer ELSE metered[t]]
      /\ UNCHANGED <<copies, handovers, written, overwritten>>
      /\ \/ inTime /\ answer # Unusable /\ calls' = [calls EXCEPT ![c] = call]
         \/ calls' = [calls EXCEPT ![c] = Idle]
  BY DEF TaskRecorded, At, Proceed, Finish
<1>2. calls[c].copy \in Copies /\ calls[c].read \in MaybeRow
  BY <1>1 DEF LightInv, CopyCall
<1>3. answer \in Texts \cup {Unusable}
  BY <1>1 DEF Answers, LightInv, CopiesTyped
<1>4. CopiesTyped'
  BY <1>1, <1>3 DEF LightInv, CopiesTyped
<1>5. answer # Unusable => CopyCall(call)
  BY <1>2, <1>3, RowsFollow DEF CopyCall
<1>6. CopyCall(Idle)
  BY DEF CopyCall, Idle
<1> HIDE DEF call
<1>7. DOMAIN calls' = Callers /\ \A d \in Callers : CopyCall(calls'[d])
  BY <1>1, <1>5, <1>6 DEF LightInv
<1>8. \A d \in Callers : CopyCall(calls[d])'
  BY <1>1, <1>7 DEF CopyCall, Exists
<1> QED
  BY <1>1, <1>4, <1>7, <1>8 DEF LightInv, RowsWritten, TextsFixed, ToolsNamed, Exists

LEMMA WriteKeeps ==
    ASSUME LightInv, NEW c \in Callers, WriteCopy(c)
    PROVE  LightInv'
<1> DEFINE copy == calls[c].copy
           row == calls[c].row
           read == calls[c].read
           new == <<copy, row.version, row.text>>
<1>1. /\ calls[c].op = "copy_write" /\ calls' = [calls EXCEPT ![c] = Idle]
      /\ copies' = [copies EXCEPT ![copy] = row] /\ written' = written \cup {new}
      /\ overwritten' = (overwritten \/ copies[copy] # read) /\ UNCHANGED <<metered, handovers>>
  BY DEF WriteCopy, At, Finish, Proceed
<1>2. copy \in Copies /\ row \in CopyRow /\ read \in MaybeRow /\ FollowsRead(read, row)
  BY <1>1 DEF LightInv, CopyCall
<1>3. row.version \in Nat /\ row # Missing /\ row \in MaybeRow
  BY <1>2 DEF CopyRow, MaybeRow, Missing
<1>4. CopiesTyped'
  BY <1>1, <1>2, <1>3 DEF LightInv, CopiesTyped
<1>5. RowsWritten'
  BY <1>1, <1>2 DEF LightInv, CopiesTyped, RowsWritten
<1>6. ASSUME ~overwritten'
      PROVE  /\ \A w \in written' : w[2] <= copies'[w[1]].version
             /\ \A x, y \in written' : x[1] = y[1] /\ x[2] = y[2] => x = y
  <2>1. /\ copies[copy] = read
        /\ \A w \in written : w[1] \in Copies /\ w[2] \in Nat /\ w[2] <= copies[w[1]].version
        /\ \A x, y \in written : x[1] = y[1] /\ x[2] = y[2] => x = y
    BY <1>1, <1>6 DEF LightInv, TextsFixed, CopiesTyped
  <2>2. read.version \in Nat /\ read.version <= row.version
    BY <1>2 DEF MaybeRow, Missing, CopyRow, FollowsRead
  <2>3. \A k \in Copies : copies'[k] = IF k = copy THEN row ELSE copies[k]
    BY <1>1, <1>2 DEF LightInv, CopiesTyped
  <2>4. \A w \in written : w[2] <= copies'[w[1]].version
    BY <1>3, <2>1, <2>2, <2>3
  <2>5. new[1] = copy /\ new[2] = row.version
    OBVIOUS
  <2>6. \A w \in written : w[1] = copy /\ w[2] = row.version => w = new
    <3>1. CASE row.version = read.version + 1
      BY <2>1, <2>2, <3>1
    <3>2. CASE read # Missing /\ row.version = read.version /\ row.text = read.text
      <4>1. new \in written
        BY <1>2, <2>1, <3>2 DEF LightInv, RowsWritten
      <4> QED
        BY <2>1, <2>5, <4>1
    <3> QED
      BY <1>2, <3>1, <3>2 DEF FollowsRead
  <2> HIDE DEF new
  <2>7. \A w \in written' : w[2] <= copies'[w[1]].version
    BY <1>1, <1>2, <1>3, <2>3, <2>4, <2>5
  <2>8. \A x, y \in written' : x[1] = y[1] /\ x[2] = y[2] => x = y
    BY <1>1, <2>1, <2>5, <2>6
  <2> QED
    BY <2>7, <2>8
<1>7. \A k, v : Exists(k, v) => Exists(k, v)'
  BY <1>1 DEF Exists
<1>8. \A call : CopyCall(call) => CopyCall(call)'
  BY <1>7 DEF CopyCall
<1>9. DOMAIN calls' = Callers /\ \A d \in Callers : CopyCall(calls'[d])
  BY <1>1 DEF LightInv, CopyCall, Idle
<1>10. \A d \in Callers : CopyCall(calls[d])'
  BY <1>7, <1>9 DEF CopyCall
<1>11. TextsFixed' /\ ToolsNamed'
  BY <1>1, <1>6, <1>7 DEF LightInv, TextsFixed, ToolsNamed
<1> QED
  BY <1>4, <1>5, <1>9, <1>10, <1>11 DEF LightInv

LEMMA HandoverKeeps ==
    ASSUME LightInv, NEW c \in Callers, InsertHandover(c)
    PROVE  LightInv'
<1>1. /\ calls[c].op = "handover" /\ calls' = [calls EXCEPT ![c] = Idle]
      /\ handovers' = [handovers EXCEPT ![calls[c].key] = IF @ = Missing THEN calls[c].row ELSE @]
      /\ UNCHANGED <<copies, metered, written, overwritten>>
  BY DEF InsertHandover, At, Finish, Proceed
<1>2. calls[c].key \in HandoverKeys /\ (calls[c].row.status = "failed" => Exists(calls[c].row.copy, calls[c].row.version))
  BY <1>1 DEF LightInv, CopyCall
<1>3. \A key \in HandoverKeys : handovers'[key] \in {handovers[key], calls[c].row}
  BY <1>1 DEF LightInv, CopiesTyped
<1>4. ASSUME NEW key \in HandoverKeys, handovers'[key] # Missing, handovers'[key].status = "failed"
      PROVE  Exists(handovers'[key].copy, handovers'[key].version)
  <2>1. CASE handovers'[key] = handovers[key]
    BY <1>4, <2>1 DEF LightInv, ToolsNamed
  <2>2. CASE handovers'[key] = calls[c].row
    <3>1. key = calls[c].key \/ handovers'[key] = handovers[key]
      BY <1>1 DEF LightInv, CopiesTyped
    <3> QED
      BY <1>2, <1>4, <2>1, <2>2, <3>1
  <2> QED
    BY <1>3, <2>1, <2>2
<1>5. \A k, v : Exists(k, v)' <=> Exists(k, v)
  BY <1>1 DEF Exists
<1>6. DOMAIN calls' = Callers /\ \A d \in Callers : CopyCall(calls'[d])
  BY <1>1 DEF LightInv, CopyCall, Idle
<1>7. \A d \in Callers : CopyCall(calls[d])'
  BY <1>5, <1>6 DEF CopyCall
<1>8. ToolsNamed'
  BY <1>4, <1>5 DEF ToolsNamed
<1>9. CopiesTyped' /\ RowsWritten' /\ TextsFixed'
  BY <1>1 DEF LightInv, CopiesTyped, RowsWritten, TextsFixed
<1> QED
  BY <1>6, <1>7, <1>8, <1>9 DEF LightInv

LEMMA LightKeeps == DeskInv /\ LightInv /\ [Next]_vars => LightInv'
<1> SUFFICES ASSUME DeskInv, LightInv, [Next]_vars PROVE LightInv'
  OBVIOUS
<1>1. CASE UNCHANGED calls /\ UNCHANGED lightVars
  BY <1>1, CopiesWait
<1>2. CASE Desk /\ UNCHANGED lightVars
  <2>1. \A call : call.op \notin CopyOps => CopyCall(call)
    BY DEF CopyCall, CopyOps
  <2> QED
    BY <1>2, <2>1, DeskCalls, CopiesWait
<1>3. CASE SandboxNext /\ UNCHANGED lightVars
  BY <1>3, CopiesWait DEF SandboxNext, AllowAutomatic, Remind, Draft, Confirm, QueueAutomatic, Stopping, Release, Callback, AtOnce
<1>4. CASE LightNext
  BY <1>4, CopyBegins, HandoverBegins, TaskKeeps, WriteKeeps, HandoverKeeps DEF LightNext
<1> QED
  BY <1>1, <1>2, <1>3, <1>4 DEF Next, vars, requestVars

LEMMA LightStarts == Init => LightInv
<1> SUFFICES ASSUME Init PROVE LightInv
  OBVIOUS
<1>1. DOMAIN calls = Callers /\ \A c \in Callers : CopyCall(calls[c])
  BY DEF Init, Quiet, CopyCall, Idle
<1>2. CopiesTyped /\ RowsWritten /\ TextsFixed /\ ToolsNamed
  BY DEF Init, LightInit, CopiesTyped, RowsWritten, TextsFixed, ToolsNamed, MaybeRow
<1> QED
  BY <1>1, <1>2 DEF LightInv

\* While no request replaces a row it has not read, a version of a draft is one
\* text for ever, and what a tool request names did exist (lightcopy/decide.go,
\* SaveManual, Generate and Confirm; store/light_copy.go).
THEOREM VersionsTell == Spec => []VersionsNameText
<1>1. LightInv => VersionsNameText
  BY DEF LightInv, TextsFixed, ToolsNamed, Exists, VersionsNameText
<1> QED
  BY <1>1, DeskStarts, DeskKeeps, LightStarts, LightKeeps, PTL DEF Spec
=============================================================================
