---------------------------- MODULE Handoff_proofs ----------------------------
(***************************************************************************)
(* Theorems about OpportunityHandoff, for any members, stages, amounts,    *)
(* contents, number of requests and length of behaviour: it implements     *)
(* HandoffLedger, and the history of the opportunity is a chain that ends  *)
(* at its stage.                                                           *)
(***************************************************************************)
EXTENDS OpportunityHandoff, FiniteSetTheorems, TLAPS

HandoffRow ==
    [id : Nat, content : Contents, version : Nat,
     status : {"confirmed", "delivered", "delivery_failed", "revoked"},
     target : {"", "draft", "accepted"}, dirty : BOOLEAN, withdrawn : BOOLEAN]
OrderDraft == [content : Contents, status : {"draft", "accepted"}, dirty : BOOLEAN, withdrawn : BOOLEAN]

\* A row has this id and this content.
Named(id, content) == \E i \in DOMAIN handoffs : handoffs[i].id = id /\ handoffs[i].content = content

\* One row per content, one per id; ids are handed out by the count of requests.
RowsSound ==
    /\ handoffs \in Seq(HandoffRow)
    /\ \A i, j \in DOMAIN handoffs :
         handoffs[i].content = handoffs[j].content \/ handoffs[i].id = handoffs[j].id => i = j
    /\ \A i \in DOMAIN handoffs :
         /\ handoffs[i].id <= spent
         /\ handoffs[i].status = "delivered" => handoffs[i].id \in DOMAIN drafts

\* The order application has heard of rows only, and of each with its content.
DraftsSound ==
    /\ \A id \in DOMAIN drafts : drafts[id] \in OrderDraft /\ Named(id, drafts[id].content)
    /\ \A sent \in wire : Named(sent.id, sent.content) /\ sent.content \in Contents

\* What a request holds of a row: perhaps an old state of it, but of no other.
Sender(call) ==
    /\ call.row \in HandoffRow /\ Named(call.row.id, call.row.content)
    /\ call.row.status # "revoked"
    /\ call.row.status = "delivered" => call.row.id \in DOMAIN drafts
Revoker(call) == call.row \in HandoffRow /\ Named(call.row.id, call.row.content)
Maker(call) ==
    /\ call.id \in Nat /\ call.id <= spent /\ call.content \in Contents
    /\ call.op = "insert" => call.version \in Nat
    /\ \A i \in DOMAIN handoffs : handoffs[i].id # call.id

CallSound(call) ==
    /\ call.op \in {"send", "ask", "book"} => Sender(call)
    /\ call.op \in {"guard", "revoke"} => Revoker(call)
    /\ call.op \in {"version", "insert"} => Maker(call)
CallsSound ==
    /\ DOMAIN calls = Callers
    /\ \A c \in Callers : CallSound(calls[c])
    /\ \A c, d \in Callers :
         /\ calls[c].op \in {"version", "insert"} /\ calls[d].op \in {"version", "insert"}
         /\ calls[c].id = calls[d].id
         => c = d

HandoffInv == spent \in Nat /\ RowsSound /\ DraftsSound /\ CallsSound

-----------------------------------------------------------------------------
(* How the abstract state is read off the concrete one.                    *)

StatusRead ==
    /\ \A i \in DOMAIN handoffs : StatusOf[handoffs[i].content] = handoffs[i].status
    /\ \A x \in Contents : (\A i \in DOMAIN handoffs : handoffs[i].content # x) <=> StatusOf[x] = "new"
    /\ DOMAIN StatusOf = Contents
    /\ StatusOf = [x \in Contents |-> StatusOf[x]]

DraftsCounted ==
    /\ \A x \in Contents :
         /\ (\A id \in DOMAIN drafts : drafts[id].content # x) => DraftsOf[x] = 0
         /\ \A id \in DOMAIN drafts : drafts[id].content = x => DraftsOf[x] = 1
    /\ DraftsOf = [x \in Contents |-> DraftsOf[x]]

\* A row is the only one of its content, so its status is the content's.
LEMMA StatusOfRow == RowsSound => StatusRead
<1> SUFFICES ASSUME RowsSound PROVE StatusRead
  OBVIOUS
<1>1. ASSUME NEW i \in DOMAIN handoffs PROVE ByFingerprint(handoffs[i].content) = {handoffs[i]}
  BY DEF RowsSound, ByFingerprint, Rows, ToSet
<1>2. ASSUME NEW i \in DOMAIN handoffs
      PROVE  StatusOf[handoffs[i].content] = handoffs[i].status /\ handoffs[i].status # "new"
  <2>1. handoffs[i] \in HandoffRow
    BY DEF RowsSound
  <2> QED
    BY <1>1, <2>1 DEF StatusOf, HandoffRow
<1>3. ASSUME NEW x \in Contents, \A i \in DOMAIN handoffs : handoffs[i].content # x
      PROVE  StatusOf[x] = "new"
  <2>1. ByFingerprint(x) = {}
    BY <1>3 DEF ByFingerprint, Rows, ToSet
  <2> QED
    BY <2>1 DEF StatusOf
<1>4. ASSUME NEW x \in Contents, StatusOf[x] = "new", NEW i \in DOMAIN handoffs
      PROVE  handoffs[i].content # x
  BY <1>2, <1>4
<1>5. DOMAIN StatusOf = Contents /\ StatusOf = [x \in Contents |-> StatusOf[x]]
  BY DEF StatusOf
<1> QED
  BY <1>2, <1>3, <1>4, <1>5 DEF StatusRead

\* The statuses are the rows' alone.
LEMMA StatusSame ==
    ASSUME UNCHANGED handoffs
    PROVE  UNCHANGED StatusOf
  BY DEF StatusOf, ByFingerprint, Rows

\* There is one draft of a content, or none.
LEMMA OneDraftEach == RowsSound /\ DraftsSound => DraftsCounted
<1> SUFFICES ASSUME RowsSound, DraftsSound PROVE DraftsCounted
  OBVIOUS
<1>0. DraftsOf = [x \in Contents |-> DraftsOf[x]]
  BY DEF DraftsOf
<1> SUFFICES ASSUME NEW x \in Contents
             PROVE  /\ (\A id \in DOMAIN drafts : drafts[id].content # x) => DraftsOf[x] = 0
                    /\ \A id \in DOMAIN drafts : drafts[id].content = x => DraftsOf[x] = 1
  BY <1>0 DEF DraftsCounted
<1> DEFINE Of == {id \in DOMAIN drafts : drafts[id].content = x}
<1>1. DraftsOf[x] = Cardinality(Of)
  BY DEF DraftsOf
<1>2. ASSUME \A id \in DOMAIN drafts : drafts[id].content # x PROVE Of = {}
  BY <1>2
<1>3. ASSUME NEW id \in DOMAIN drafts, drafts[id].content = x PROVE Of = {id}
  <2>1. PICK i \in DOMAIN handoffs : handoffs[i].id = id /\ handoffs[i].content = x
    BY <1>3 DEF DraftsSound, Named
  <2>2. ASSUME NEW other \in Of PROVE other = id
    <3>1. PICK j \in DOMAIN handoffs : handoffs[j].id = other /\ handoffs[j].content = x
      BY <2>2 DEF DraftsSound, Named
    <3> QED
      BY <2>1, <3>1 DEF RowsSound
  <2> QED
    BY <1>3, <2>2
<1> HIDE DEF Of
<1> QED
  BY <1>1, <1>2, <1>3, FS_EmptySet, FS_Singleton

\* What somebody is handing over is one request's row.
LEMMA SendingSame ==
    ASSUME \A c \in Callers : \/ calls'[c] = calls[c]
                             \/ /\ calls[c].op \notin {"send", "ask", "book"}
                                /\ calls'[c].op \notin {"send", "ask", "book"}
                             \/ /\ calls[c].op \in {"send", "ask", "book"}
                                /\ calls'[c].op \in {"send", "ask", "book"}
                                /\ calls'[c].row.content = calls[c].row.content
    PROVE  UNCHANGED Sending
  BY DEF Sending

LEMMA SendingGrows ==
    ASSUME NEW c \in Callers, NEW x, calls[c].op \notin {"send", "ask", "book"},
           calls'[c].op \in {"send", "ask", "book"}, calls'[c].row.content = x,
           \A d \in Callers : d # c => calls'[d] = calls[d]
    PROVE  Sending' = Sending \cup {x}
  BY DEF Sending

LEMMA SendingShrinks ==
    ASSUME NEW c \in Callers, NEW x, calls[c].op \in {"send", "ask", "book"}, calls[c].row.content = x,
           calls'[c].op \notin {"send", "ask", "book"},
           \A d \in Callers : d # c => calls'[d] = calls[d]
    PROVE  x \in Sending /\ Sending \ {x} \subseteq Sending' /\ Sending' \subseteq Sending
  BY DEF Sending

-----------------------------------------------------------------------------
(* What every step leaves standing.                                        *)

Grown ==
    /\ spent' \in Nat /\ spent <= spent'
    /\ DOMAIN drafts \subseteq DOMAIN drafts'
    /\ \A i \in DOMAIN handoffs :
         /\ i \in DOMAIN handoffs'
         /\ handoffs'[i].id = handoffs[i].id /\ handoffs'[i].content = handoffs[i].content

LEMMA NamesLast ==
    ASSUME Grown
    PROVE  \A id, content : Named(id, content) => Named(id, content)'
  BY DEF Grown, Named

\* A request is not disturbed by what others do, unless they take its id.
LEMMA CallKept ==
    ASSUME HandoffInv, Grown, NEW c \in Callers, calls'[c] = calls[c],
           calls[c].op \in {"version", "insert"} =>
               \A i \in DOMAIN handoffs' : i \in DOMAIN handoffs \/ handoffs'[i].id # calls[c].id
    PROVE  CallSound(calls[c])'
<1>1. CallSound(calls[c]) /\ spent \in Nat
  BY DEF HandoffInv, CallsSound
<1>2. Sender(calls[c]) => Sender(calls[c])'
  BY NamesLast DEF Sender, Grown
<1>3. Revoker(calls[c]) => Revoker(calls[c])'
  BY NamesLast DEF Revoker
<1>4. calls[c].op \in {"version", "insert"} /\ Maker(calls[c]) => Maker(calls[c])'
  BY <1>1 DEF Maker, Grown
<1> QED
  BY <1>1, <1>2, <1>3, <1>4 DEF CallSound

\* One request moves on, and is sound where it arrives.
LEMMA CallsKeep ==
    ASSUME HandoffInv, Grown, NEW c \in Callers, NEW call, calls' = [calls EXCEPT ![c] = call],
           CallSound(calls[c])',
           \A i \in DOMAIN handoffs' : i \in DOMAIN handoffs \/ \A d \in Callers \ {c} :
               calls[d].op \in {"version", "insert"} => handoffs'[i].id # calls[d].id,
           call.op \in {"version", "insert"} =>
               \/ calls[c].op \in {"version", "insert"} /\ call.id = calls[c].id
               \/ call.id > spent
    PROVE  CallsSound'
<1>1. DOMAIN calls' = Callers /\ calls'[c] = call /\ \A d \in Callers \ {c} : calls'[d] = calls[d]
  BY DEF HandoffInv, CallsSound
<1>2. ASSUME NEW d \in Callers \ {c} PROVE CallSound(calls[d])'
  BY <1>1, CallKept
<1>3. ASSUME NEW d \in Callers, NEW e \in Callers, d # e,
             calls'[d].op \in {"version", "insert"}, calls'[e].op \in {"version", "insert"}
      PROVE  calls'[d].id # calls'[e].id
  <2>1. \A f \in Callers : calls[f].op \in {"version", "insert"} => calls[f].id \in Nat /\ calls[f].id <= spent
    BY DEF HandoffInv, CallsSound, CallSound, Maker
  <2>2. \A f, g \in Callers : calls[f].op \in {"version", "insert"} /\ calls[g].op \in {"version", "insert"}
                               /\ f # g => calls[f].id # calls[g].id
    BY DEF HandoffInv, CallsSound
  <2>3. CASE d # c /\ e # c
    BY <1>1, <1>3, <2>2, <2>3
  <2>4. CASE call.id > spent /\ spent \in Nat
    <3>1. ASSUME NEW f \in Callers \ {c}, calls[f].op \in {"version", "insert"} PROVE call.id # calls[f].id
      BY <2>1, <2>4, <3>1
    <3>2. CASE d = c
      BY <1>1, <1>3, <3>1, <3>2
    <3>3. CASE e = c
      BY <1>1, <1>3, <3>1, <3>3
    <3> QED
      BY <1>3, <2>3, <3>2, <3>3
  <2>5. CASE calls[c].op \in {"version", "insert"} /\ call.id = calls[c].id
    BY <1>1, <1>3, <2>2, <2>5
  <2> QED
    BY <1>1, <1>3, <2>3, <2>4, <2>5 DEF HandoffInv
<1> QED
  BY <1>1, <1>2, <1>3 DEF CallsSound

-----------------------------------------------------------------------------
(* Steps that leave the rows, the drafts and the wire alone.               *)

Simulated == Promise!Next \/ UNCHANGED <<StatusOf, Sending, DraftsOf>>

LEMMA TablesRest ==
    ASSUME HandoffInv, UNCHANGED handoffVars, spent' \in {spent, spent + 1}
    PROVE  Grown /\ spent' \in Nat /\ RowsSound' /\ DraftsSound' /\ UNCHANGED <<StatusOf, DraftsOf>>
<1>1. spent \in Nat /\ spent' \in Nat /\ spent <= spent'
  BY DEF HandoffInv
<1>2. UNCHANGED handoffs /\ UNCHANGED drafts /\ UNCHANGED wire
  BY DEF handoffVars
<1>3. Grown
  BY <1>1, <1>2 DEF Grown
<1>4. RowsSound'
  <2>1. \A i \in DOMAIN handoffs : handoffs[i] \in HandoffRow /\ handoffs[i].id <= spent
    BY DEF HandoffInv, RowsSound
  <2>2. ASSUME NEW i \in DOMAIN handoffs PROVE handoffs[i].id <= spent'
    <3>1. handoffs[i].id \in Nat /\ handoffs[i].id <= spent
      BY <2>1 DEF HandoffRow
    <3> QED
      BY <1>1, <3>1
  <2> QED
    BY <1>2, <2>2 DEF HandoffInv, RowsSound
<1>5. DraftsSound'
  BY <1>2 DEF HandoffInv, DraftsSound, Named
<1>6. UNCHANGED DraftsOf
  BY <1>2 DEF DraftsOf
<1> QED
  BY <1>1, <1>2, <1>3, <1>4, <1>5, <1>6, StatusSame

HandoffOps == {"send", "ask", "book", "guard", "revoke", "version", "insert"}

\* A request begins, goes on or ends without a hand-off in its hands.
LEMMA ElsewhereKeeps ==
    ASSUME HandoffInv, NEW c \in Callers, NEW call, calls' = [calls EXCEPT ![c] = call],
           UNCHANGED handoffVars, spent' \in {spent, spent + 1}, call.op \notin HandoffOps
    PROVE  HandoffInv' /\ Simulated
<1>1. Grown /\ spent' \in Nat /\ RowsSound' /\ DraftsSound' /\ UNCHANGED <<StatusOf, DraftsOf>>
  BY TablesRest
<1>2. DOMAIN calls = Callers /\ calls'[c] = call /\ \A d \in Callers : d # c => calls'[d] = calls[d]
  BY DEF HandoffInv, CallsSound
<1>3. CallsSound'
  <2>1. CallSound(calls[c])'
    BY <1>2 DEF CallSound, HandoffOps
  <2> QED
    BY <1>1, <2>1, CallsKeep DEF HandoffOps, handoffVars
<1>4. CASE calls[c].op \in {"send", "ask", "book"}
  <2> DEFINE x == calls[c].row.content
  <2>1. x \in Contents
    BY <1>4 DEF HandoffInv, CallsSound, CallSound, Sender, HandoffRow
  <2>2. x \in Sending /\ Sending \ {x} \subseteq Sending' /\ Sending' \subseteq Sending
    BY <1>2, <1>4, SendingShrinks DEF HandoffOps
  <2>3. StatusOf'[x] = "delivered" => DraftsOf[x] = 1
    <3>1. StatusRead /\ DraftsCounted
      BY StatusOfRow, OneDraftEach DEF HandoffInv
    <3>2. PICK i \in DOMAIN handoffs : handoffs[i].content = x
      BY <1>4 DEF HandoffInv, CallsSound, CallSound, Sender, Named
    <3>3. CASE handoffs[i].status = "delivered"
      <4>1. handoffs[i].id \in DOMAIN drafts
        BY <3>3 DEF HandoffInv, RowsSound
      <4>2. drafts[handoffs[i].id].content = x
        BY <3>2, <4>1 DEF HandoffInv, RowsSound, DraftsSound, Named
      <4> QED
        BY <2>1, <3>1, <4>1, <4>2 DEF DraftsCounted
    <3>4. StatusOf'[x] = handoffs[i].status
      BY <1>1, <3>1, <3>2 DEF StatusRead
    <3> QED
      BY <3>3, <3>4
  <2> HIDE DEF x
  <2>4. Promise!Settle(x)
    BY <1>1, <2>2, <2>3 DEF Promise!Settle
  <2> QED
    BY <1>1, <1>3, <2>1, <2>4 DEF HandoffInv, Simulated, Promise!Next
<1>5. CASE calls[c].op \notin {"send", "ask", "book"}
  <2>1. UNCHANGED Sending
    BY <1>2, <1>5, SendingSame DEF HandoffOps
  <2> QED
    BY <1>1, <1>3, <2>1 DEF HandoffInv, Simulated
<1> QED
  BY <1>4, <1>5

\* A row is taken up to be sent or asked after.
LEMMA ResumeKeeps ==
    ASSUME HandoffInv, NEW c \in Callers, NEW row \in Rows, NEW op \in {"send", "ask"},
           row.status # "revoked", Start(c, [op |-> op, row |-> row]), UNCHANGED handoffVars
    PROVE  HandoffInv' /\ Simulated
<1> DEFINE call == [op |-> op, row |-> row]
<1>1. calls[c] = Idle /\ calls' = [calls EXCEPT ![c] = call] /\ spent' = spent + 1
  BY DEF Start, Free, Spend
<1>2. Grown /\ spent' \in Nat /\ RowsSound' /\ DraftsSound' /\ UNCHANGED <<StatusOf, DraftsOf>>
  BY <1>1, TablesRest
<1>3. DOMAIN calls = Callers /\ calls'[c] = call /\ \A d \in Callers : d # c => calls'[d] = calls[d]
  BY <1>1 DEF HandoffInv, CallsSound
<1>4. PICK i \in DOMAIN handoffs : row = handoffs[i]
  BY DEF Rows, ToSet
<1>5. Sender(call)
  BY <1>4 DEF HandoffInv, RowsSound, Sender, Named
<1>6. UNCHANGED <<handoffs, drafts>>
  BY DEF handoffVars
<1>7. CallSound(calls[c])'
  BY <1>3, <1>5, <1>6 DEF CallSound, Sender, Named
<1>8. CallsSound'
  BY <1>1, <1>2, <1>6, <1>7, CallsKeep
<1>9. row.content \in Contents /\ row.status # "new" /\ StatusOf[row.content] = row.status
  <2>1. row \in HandoffRow /\ StatusRead
    BY <1>4, StatusOfRow DEF HandoffInv, RowsSound
  <2> QED
    BY <1>4, <2>1 DEF HandoffRow, StatusRead
<1>10. Sending' = Sending \cup {row.content}
  BY <1>1, <1>3, SendingGrows DEF Idle
<1>11. Promise!Resume(row.content)
  BY <1>2, <1>9, <1>10 DEF Promise!Resume
<1> QED
  BY <1>2, <1>8, <1>9, <1>11 DEF HandoffInv, Simulated, Promise!Next

\* A revocation looks at its row, asks, and goes on.
LEMMA RevokerKeeps ==
    ASSUME HandoffInv, NEW c \in Callers, NEW row, NEW op \in {"guard", "revoke"},
           row \in HandoffRow, Named(row.id, row.content),
           calls[c].op \notin {"send", "ask", "book"},
           calls' = [calls EXCEPT ![c] = [op |-> op, row |-> row]],
           UNCHANGED handoffVars, spent' \in {spent, spent + 1}
    PROVE  HandoffInv' /\ Simulated
<1>1. Grown /\ spent' \in Nat /\ RowsSound' /\ DraftsSound' /\ UNCHANGED <<StatusOf, DraftsOf>>
  BY TablesRest
<1>2. DOMAIN calls = Callers /\ calls'[c] = [op |-> op, row |-> row]
      /\ \A d \in Callers : d # c => calls'[d] = calls[d]
  BY DEF HandoffInv, CallsSound
<1>3. Named(row.id, row.content)'
  BY DEF Named, handoffVars
<1>4. CallSound(calls[c])'
  BY <1>2, <1>3 DEF CallSound, Revoker
<1>5. CallsSound'
  BY <1>1, <1>4, CallsKeep DEF handoffVars
<1>6. UNCHANGED Sending
  BY <1>2, SendingSame
<1> QED
  BY <1>1, <1>5, <1>6 DEF HandoffInv, Simulated

\* A new confirmation takes an id of its own.
LEMMA ConfirmNewKeeps ==
    ASSUME HandoffInv, NEW c \in Callers, NEW x \in Contents, ConfirmNew(c, x)
    PROVE  HandoffInv' /\ Simulated
<1> DEFINE call == [op |-> "version", id |-> spent + 1, content |-> x]
<1>1. calls[c] = Idle /\ calls' = [calls EXCEPT ![c] = call] /\ spent' = spent + 1 /\ UNCHANGED handoffVars
  BY DEF ConfirmNew, Start, Free, Spend
<1>2. Grown /\ spent' \in Nat /\ RowsSound' /\ DraftsSound' /\ UNCHANGED <<StatusOf, DraftsOf>>
  BY <1>1, TablesRest
<1>3. DOMAIN calls = Callers /\ calls'[c] = call /\ \A d \in Callers : d # c => calls'[d] = calls[d]
  BY <1>1 DEF HandoffInv, CallsSound
<1>4. ASSUME NEW i \in DOMAIN handoffs PROVE handoffs[i].id # spent + 1
  <2>1. handoffs[i] \in HandoffRow /\ handoffs[i].id <= spent /\ spent \in Nat
    BY DEF HandoffInv, RowsSound
  <2>2. handoffs[i].id \in Nat
    BY <2>1 DEF HandoffRow
  <2> QED
    BY <2>1, <2>2
<1>5. CallSound(calls[c])'
  <2>1. calls'[c].op = "version" /\ calls'[c].id = spent + 1 /\ calls'[c].content = x
    BY <1>3
  <2>2. UNCHANGED handoffs
    BY <1>1 DEF handoffVars
  <2>3. Maker(calls[c])'
    BY <2>1, <2>2, <1>1, <1>2, <1>4 DEF Maker
  <2> QED
    BY <2>1, <2>3 DEF CallSound
<1>6. CallsSound'
  <2>1. call.id > spent
    BY DEF HandoffInv
  <2>2. UNCHANGED handoffs
    BY <1>1 DEF handoffVars
  <2> HIDE DEF call
  <2> QED
    BY <1>1, <1>2, <1>5, <2>1, <2>2, CallsKeep
<1>7. UNCHANGED Sending
  BY <1>1, <1>3, SendingSame DEF Idle
<1> QED
  BY <1>2, <1>6, <1>7 DEF HandoffInv, Simulated

\* It keeps the id when its document is built.
LEMMA BuildKeeps ==
    ASSUME HandoffInv, NEW c \in Callers, BuildDocument(c)
    PROVE  HandoffInv' /\ Simulated
<1> DEFINE made == [op |-> "insert", id |-> calls[c].id, content |-> calls[c].content, version |-> NextVersion]
<1>1. calls[c].op = "version" /\ UNCHANGED handoffVars /\ UNCHANGED spent
  BY DEF BuildDocument, At, Proceed
<1>2. calls' = [calls EXCEPT ![c] = Idle] \/ calls' = [calls EXCEPT ![c] = made]
  BY DEF BuildDocument, Proceed
<1>3. CASE calls' = [calls EXCEPT ![c] = Idle]
  BY <1>1, <1>3, ElsewhereKeeps DEF Idle, HandoffOps
<1>4. CASE calls' = [calls EXCEPT ![c] = made]
  <2>1. Grown /\ spent' \in Nat /\ RowsSound' /\ DraftsSound' /\ UNCHANGED <<StatusOf, DraftsOf>>
    BY <1>1, TablesRest
  <2>2. DOMAIN calls = Callers /\ calls'[c] = made /\ \A d \in Callers : d # c => calls'[d] = calls[d]
    BY <1>4 DEF HandoffInv, CallsSound
  <2>3. Maker(calls[c])
    BY <1>1 DEF HandoffInv, CallsSound, CallSound
  <2>4. NextVersion \in Nat
    BY DEF NextVersion, HandoffInv, RowsSound
  <2>5. UNCHANGED handoffs
    BY <1>1 DEF handoffVars
  <2>6. made.op = "insert" /\ made.id = calls[c].id /\ made.content = calls[c].content /\ made.version \in Nat
    BY <2>4
  <2> HIDE DEF made
  <2>7. CallSound(calls[c])'
    BY <1>1, <2>2, <2>3, <2>5, <2>6 DEF CallSound, Maker
  <2>8. CallsSound'
    BY <1>1, <1>4, <2>1, <2>5, <2>6, <2>7, CallsKeep
  <2>9. UNCHANGED Sending
    BY <1>1, <2>2, <2>6, SendingSame
  <2> QED
    BY <2>1, <2>8, <2>9 DEF HandoffInv, Simulated
<1> QED
  BY <1>2, <1>3, <1>4

-----------------------------------------------------------------------------
(* Steps that change the rows.                                             *)

\* The row of a content nobody has confirmed, by the id nobody else holds.
LEMMA InsertKeeps ==
    ASSUME HandoffInv, NEW c \in Callers, InsertHandoff(c)
    PROVE  HandoffInv' /\ Simulated
<1> DEFINE row == [id |-> calls[c].id, content |-> calls[c].content, version |-> calls[c].version,
                   status |-> "confirmed", target |-> "", dirty |-> FALSE, withdrawn |-> FALSE]
           n == Len(handoffs)
<1>1. /\ calls[c].op = "insert" /\ UNCHANGED <<drafts, wire, spent>>
      /\ \/ Finish(c) /\ UNCHANGED handoffs
         \/ /\ ~Taken(row)
            /\ calls' = [calls EXCEPT ![c] = [op |-> "send", row |-> row]]
            /\ handoffs' = Append(handoffs, row)
  BY DEF InsertHandoff, At, Finish, Proceed
<1>2. CASE Finish(c) /\ UNCHANGED handoffs
  BY <1>1, <1>2, ElsewhereKeeps DEF Finish, Proceed, Idle, HandoffOps, handoffVars
<1>3. CASE /\ ~Taken(row)
           /\ calls' = [calls EXCEPT ![c] = [op |-> "send", row |-> row]]
           /\ handoffs' = Append(handoffs, row)
  <2>1. Maker(calls[c]) /\ calls[c].version \in Nat
    BY <1>1 DEF HandoffInv, CallsSound, CallSound, Maker
  <2>2. row \in HandoffRow /\ row.status = "confirmed" /\ row.id = calls[c].id
    BY <2>1 DEF Maker, HandoffRow
  <2>3. \A i \in DOMAIN handoffs : handoffs[i].content # row.content /\ handoffs[i].id # row.id
    BY <1>3, <2>1 DEF Taken, Rows, ToSet, Maker
  <2>4. row.id <= spent /\ row.content \in Contents /\ row.id \in Nat
    BY <2>1 DEF Maker
  <2>r. PICK r : r = row
    OBVIOUS
  <2>m. /\ r \in HandoffRow /\ r.status = "confirmed" /\ r.id = calls[c].id
        /\ \A i \in DOMAIN handoffs : handoffs[i].content # r.content /\ handoffs[i].id # r.id
        /\ r.id <= spent /\ r.content \in Contents /\ r.id \in Nat
        /\ calls' = [calls EXCEPT ![c] = [op |-> "send", row |-> r]]
        /\ handoffs' = Append(handoffs, r)
    BY <1>3, <2>2, <2>3, <2>4, <2>r
  <2> HIDE DEF row
  <2>5. /\ n \in Nat /\ DOMAIN handoffs = 1..n /\ DOMAIN handoffs' = 1..(n + 1)
        /\ handoffs'[n + 1] = r /\ \A i \in 1..n : handoffs'[i] = handoffs[i]
        /\ handoffs' \in Seq(HandoffRow)
    BY <2>m, <2>2 DEF HandoffInv, RowsSound
  <2> HIDE DEF n
  <2>6. Grown
    BY <1>1, <2>5 DEF Grown, HandoffInv
  <2>7. RowsSound'
    <3>1. \A i, j \in DOMAIN handoffs' :
             handoffs'[i].content = handoffs'[j].content \/ handoffs'[i].id = handoffs'[j].id => i = j
      <4>1. \A i \in DOMAIN handoffs' : i \in DOMAIN handoffs \/ i = n + 1
        BY <2>5
      <4> QED
        BY <2>m, <2>5, <4>1 DEF HandoffInv, RowsSound
    <3>2. ASSUME NEW i \in DOMAIN handoffs'
          PROVE  /\ handoffs'[i].id <= spent
                 /\ handoffs'[i].status = "delivered" => handoffs'[i].id \in DOMAIN drafts
      <4>1. i \in DOMAIN handoffs \/ i = n + 1
        BY <2>5
      <4> QED
        BY <2>m, <2>5, <4>1 DEF HandoffInv, RowsSound
    <3> QED
      BY <1>1, <2>5, <3>1, <3>2 DEF RowsSound
  <2>8. DraftsSound'
    <3>1. \A id, content : Named(id, content) => Named(id, content)'
      BY <2>6, NamesLast
    <3> QED
      BY <1>1, <3>1 DEF HandoffInv, DraftsSound
  <2>9. CallsSound'
    <3>1. DOMAIN calls = Callers /\ calls'[c].op = "send" /\ calls'[c].row = r
      BY <2>m DEF HandoffInv, CallsSound
    <3>2. Named(r.id, r.content)'
      BY <2>5 DEF Named
    <3>3. CallSound(calls[c])'
      BY <2>m, <3>1, <3>2 DEF CallSound, Sender
    <3>4. \A i \in DOMAIN handoffs' : i \in DOMAIN handoffs \/ \A d \in Callers \ {c} :
               calls[d].op \in {"version", "insert"} => handoffs'[i].id # calls[d].id
      <4>1. ASSUME NEW d \in Callers \ {c}, calls[d].op \in {"version", "insert"} PROVE r.id # calls[d].id
        BY <1>1, <2>m, <4>1 DEF HandoffInv, CallsSound
      <4>2. \A i \in DOMAIN handoffs' : i \in DOMAIN handoffs \/ handoffs'[i] = r
        BY <2>5
      <4> QED
        BY <4>1, <4>2
    <3>5. [op |-> "send", row |-> r].op \notin {"version", "insert"}
      OBVIOUS
    <3> DEFINE call == [op |-> "send", row |-> r]
    <3>6. calls' = [calls EXCEPT ![c] = call] /\ call.op \notin {"version", "insert"}
      BY <2>m, <3>5
    <3> HIDE DEF call
    <3> QED
      BY <2>6, <3>3, <3>4, <3>6, CallsKeep
  <2>10. Sending' = Sending \cup {r.content}
    <3>1. calls'[c].op = "send" /\ calls'[c].row = r /\ \A d \in Callers : d # c => calls'[d] = calls[d]
      BY <2>m DEF HandoffInv, CallsSound
    <3> QED
      BY <1>1, <3>1, SendingGrows
  <2>11. StatusOf[r.content] = "new" /\ StatusOf' = [StatusOf EXCEPT ![r.content] = "confirmed"]
    <3>1. StatusRead /\ StatusRead'
      BY <2>7, StatusOfRow, PTL DEF HandoffInv
    <3>2. StatusOf[r.content] = "new"
      BY <2>m, <3>1 DEF StatusRead
    <3>3. StatusOf'[r.content] = "confirmed"
      BY <2>m, <2>5, <3>1 DEF StatusRead
    <3>4. ASSUME NEW y \in Contents, y # r.content PROVE StatusOf'[y] = StatusOf[y]
      <4>1. CASE \E i \in DOMAIN handoffs : handoffs[i].content = y
        <5>1. PICK i \in 1..n : handoffs[i].content = y
          BY <2>5, <4>1
        <5>2. i \in DOMAIN handoffs /\ i \in DOMAIN handoffs' /\ handoffs'[i] = handoffs[i]
          BY <2>5
        <5> QED
          BY <3>1, <5>1, <5>2 DEF StatusRead
      <4>2. CASE \A i \in DOMAIN handoffs : handoffs[i].content # y
        <5>1. \A i \in DOMAIN handoffs' : handoffs'[i].content # y
          <6>1. \A i \in DOMAIN handoffs' : i \in 1..n \/ i = n + 1
            BY <2>5
          <6> QED
            BY <2>5, <3>4, <4>2, <6>1
        <5> QED
          BY <3>1, <4>2, <5>1 DEF StatusRead
      <4> QED
        BY <4>1, <4>2
    <3> QED
      BY <2>m, <3>1, <3>2, <3>3, <3>4 DEF StatusRead
  <2>12. UNCHANGED DraftsOf
    BY <1>1 DEF DraftsOf
  <2>13. Promise!Confirm(r.content)
    BY <2>10, <2>11, <2>12 DEF Promise!Confirm
  <2> QED
    BY <1>1, <2>m, <2>7, <2>8, <2>9, <2>13 DEF HandoffInv, Simulated, Promise!Next
<1> QED
  BY <1>1, <1>2, <1>3

\* A row is written over with another state of it.
LEMMA RowWritten ==
    ASSUME HandoffInv, NEW i \in DOMAIN handoffs, NEW row \in HandoffRow,
           row.id = handoffs[i].id, row.content = handoffs[i].content,
           row.status = "delivered" => row.id \in DOMAIN drafts,
           UNCHANGED <<drafts, wire, spent>>,
           handoffs' = [handoffs EXCEPT ![i] = row]
    PROVE  /\ Grown /\ RowsSound' /\ DraftsSound' /\ DOMAIN handoffs' = DOMAIN handoffs
           /\ UNCHANGED DraftsOf
           /\ StatusOf' = [StatusOf EXCEPT ![row.content] = row.status]
<1>1. /\ DOMAIN handoffs' = DOMAIN handoffs /\ handoffs' \in Seq(HandoffRow)
      /\ handoffs'[i] = row /\ \A j \in DOMAIN handoffs : j # i => handoffs'[j] = handoffs[j]
  BY DEF HandoffInv, RowsSound
<1>2. \A j \in DOMAIN handoffs :
        handoffs'[j].id = handoffs[j].id /\ handoffs'[j].content = handoffs[j].content
  BY <1>1
<1>3. Grown
  BY <1>1, <1>2 DEF Grown, HandoffInv
<1>4. RowsSound'
  BY <1>1, <1>2 DEF HandoffInv, RowsSound
<1>5. DraftsSound'
  BY <1>3, NamesLast DEF HandoffInv, DraftsSound
<1>6. StatusRead /\ StatusRead'
  BY <1>4, StatusOfRow, PTL DEF HandoffInv
<1>7. row.content \in Contents
  BY DEF HandoffRow
<1>8. StatusOf'[row.content] = row.status
  BY <1>1, <1>6 DEF StatusRead
<1>9. ASSUME NEW y \in Contents, y # row.content PROVE StatusOf'[y] = StatusOf[y]
  <2>1. CASE \E j \in DOMAIN handoffs : handoffs[j].content = y
    <3>1. PICK j \in DOMAIN handoffs : handoffs[j].content = y
      BY <2>1
    <3>2. handoffs'[j] = handoffs[j]
      BY <1>1, <1>9, <3>1
    <3> QED
      BY <1>1, <1>6, <3>1, <3>2 DEF StatusRead
  <2>2. CASE \A j \in DOMAIN handoffs : handoffs[j].content # y
    <3>1. \A j \in DOMAIN handoffs' : handoffs'[j].content # y
      BY <1>1, <1>2, <2>2
    <3> QED
      BY <1>6, <1>9, <2>2, <3>1 DEF StatusRead
  <2> QED
    BY <2>1, <2>2
<1>10. StatusOf' = [StatusOf EXCEPT ![row.content] = row.status]
  BY <1>6, <1>7, <1>8, <1>9 DEF StatusRead
<1>11. UNCHANGED DraftsOf
  BY DEF DraftsOf
<1> QED
  BY <1>1, <1>3, <1>4, <1>5, <1>10, <1>11

\* The answer is stored over the row as it was loaded, whatever it is by now.
LEMMA UpdateKeeps ==
    ASSUME HandoffInv, NEW c \in Callers, UpdateDelivery(c)
    PROVE  HandoffInv' /\ Simulated
<1>1. PICK row : row = calls[c].row
  OBVIOUS
<1>2. /\ calls[c].op = "book" /\ calls' = [calls EXCEPT ![c] = Idle] /\ UNCHANGED <<drafts, wire, spent>>
      /\ handoffs' = [i \in DOMAIN handoffs |-> IF handoffs[i].id = row.id THEN row ELSE handoffs[i]]
  BY <1>1 DEF UpdateDelivery, At, Finish, Proceed
<1>3. /\ row \in HandoffRow /\ Named(row.id, row.content) /\ row.status # "revoked"
      /\ row.status = "delivered" => row.id \in DOMAIN drafts
  BY <1>1, <1>2 DEF HandoffInv, CallsSound, CallSound, Sender
<1>4. PICK i \in DOMAIN handoffs : handoffs[i].id = row.id /\ handoffs[i].content = row.content
  BY <1>3 DEF Named
<1>5. handoffs' = [handoffs EXCEPT ![i] = row]
  BY <1>2, <1>4 DEF HandoffInv, RowsSound
<1>6. /\ Grown /\ RowsSound' /\ DraftsSound' /\ DOMAIN handoffs' = DOMAIN handoffs
      /\ UNCHANGED DraftsOf
      /\ StatusOf' = [StatusOf EXCEPT ![row.content] = row.status]
  BY <1>2, <1>3, <1>4, <1>5, RowWritten
<1>7. DOMAIN calls = Callers /\ calls'[c] = Idle /\ \A d \in Callers : d # c => calls'[d] = calls[d]
  BY <1>2 DEF HandoffInv, CallsSound
<1>8. CallsSound'
  <2>1. CallSound(calls[c])'
    BY <1>7 DEF CallSound, Idle
  <2>2. Idle.op \notin {"version", "insert"}
    BY DEF Idle
  <2> QED
    BY <1>2, <1>6, <2>1, <2>2, CallsKeep
<1>9. row.content \in Sending /\ Sending \ {row.content} \subseteq Sending' /\ Sending' \subseteq Sending
  BY <1>1, <1>2, <1>7, SendingShrinks DEF Idle
<1>10. row.content \in Contents /\ row.status \in {"confirmed", "delivered", "delivery_failed"}
  BY <1>3 DEF HandoffRow
<1>11. StatusOf'[row.content] = "delivered" => DraftsOf[row.content] = 1
  <2>1. StatusRead /\ DraftsCounted
    BY StatusOfRow, OneDraftEach DEF HandoffInv
  <2>2. StatusOf'[row.content] = row.status
    BY <1>6, <1>10, <2>1 DEF StatusRead
  <2>3. row.id \in DOMAIN drafts => drafts[row.id].content = row.content
    BY <1>4 DEF HandoffInv, RowsSound, DraftsSound, Named
  <2> QED
    BY <1>3, <1>10, <2>1, <2>2, <2>3 DEF DraftsCounted
<1>12. Promise!Settle(row.content)
  BY <1>6, <1>9, <1>10, <1>11 DEF Promise!Settle
<1> QED
  BY <1>2, <1>6, <1>8, <1>10, <1>12 DEF HandoffInv, Simulated, Promise!Next

LEMMA MarkRevokedKeeps ==
    ASSUME HandoffInv, NEW c \in Callers, MarkRevoked(c)
    PROVE  HandoffInv' /\ Simulated
<1>1. PICK id : id = calls[c].row.id
  OBVIOUS
<1>2. /\ calls[c].op = "revoke" /\ calls' = [calls EXCEPT ![c] = Idle] /\ UNCHANGED <<drafts, wire, spent>>
      /\ handoffs' = [i \in DOMAIN handoffs |->
                         IF handoffs[i].id = id THEN [handoffs[i] EXCEPT !.status = "revoked"] ELSE handoffs[i]]
  BY <1>1 DEF MarkRevoked, At, Finish, Proceed
<1>3. PICK i \in DOMAIN handoffs : handoffs[i].id = id
  BY <1>1, <1>2 DEF HandoffInv, CallsSound, CallSound, Revoker, Named
<1>4. PICK row : row = [handoffs[i] EXCEPT !.status = "revoked"]
  OBVIOUS
<1>5. /\ row \in HandoffRow /\ row.status = "revoked"
      /\ row.id = handoffs[i].id /\ row.content = handoffs[i].content
  <2>1. handoffs[i] \in HandoffRow
    BY DEF HandoffInv, RowsSound
  <2> QED
    BY <1>4, <2>1 DEF HandoffRow
<1>6. handoffs' = [handoffs EXCEPT ![i] = row]
  BY <1>2, <1>3, <1>4 DEF HandoffInv, RowsSound
<1>7. /\ Grown /\ RowsSound' /\ DraftsSound' /\ DOMAIN handoffs' = DOMAIN handoffs
      /\ UNCHANGED DraftsOf
      /\ StatusOf' = [StatusOf EXCEPT ![row.content] = row.status]
  BY <1>2, <1>5, <1>6, RowWritten
<1>8. DOMAIN calls = Callers /\ calls'[c] = Idle /\ \A d \in Callers : d # c => calls'[d] = calls[d]
  BY <1>2 DEF HandoffInv, CallsSound
<1>9. CallsSound'
  <2>1. CallSound(calls[c])'
    BY <1>8 DEF CallSound, Idle
  <2>2. Idle.op \notin {"version", "insert"}
    BY DEF Idle
  <2> QED
    BY <1>2, <1>7, <2>1, <2>2, CallsKeep
<1>10. UNCHANGED Sending
  BY <1>2, <1>8, SendingSame DEF Idle
<1>11. row.content \in Contents /\ StatusOf[row.content] # "new"
  <2>1. StatusRead /\ row.content \in Contents
    BY <1>5, StatusOfRow DEF HandoffInv, HandoffRow
  <2> QED
    BY <1>5, <2>1 DEF StatusRead
<1>12. Promise!Revoke(row.content)
  BY <1>5, <1>7, <1>10, <1>11 DEF Promise!Revoke
<1> QED
  BY <1>2, <1>7, <1>9, <1>11, <1>12 DEF HandoffInv, Simulated, Promise!Next

-----------------------------------------------------------------------------
(* Steps of the order application, and the answers it gives.               *)

\* A request has an answer about its row in its hands.
LEMMA BookKeeps ==
    ASSUME HandoffInv, Grown, UNCHANGED handoffs, NEW c \in Callers, calls[c].op \in {"send", "ask"},
           NEW row \in HandoffRow, row.id = calls[c].row.id, row.content = calls[c].row.content,
           row.status # "revoked", row.status = "delivered" => row.id \in DOMAIN drafts',
           Book(c, row)
    PROVE  CallsSound' /\ UNCHANGED Sending
<1> DEFINE call == [op |-> "book", row |-> row]
<1>1. calls' = [calls EXCEPT ![c] = call] /\ call.op = "book" /\ call.row = row
  BY DEF Book, Proceed
<1> HIDE DEF call
<1>2. calls'[c] = call /\ \A d \in Callers : d # c => calls'[d] = calls[d]
  BY <1>1 DEF HandoffInv, CallsSound
<1>3. Named(row.id, row.content)'
  <2>1. Named(row.id, row.content)
    BY DEF HandoffInv, CallsSound, CallSound, Sender
  <2> QED
    BY <2>1, NamesLast
<1>4. CallSound(calls[c])'
  BY <1>1, <1>2, <1>3 DEF CallSound, Sender
<1>5. CallsSound'
  BY <1>1, <1>4, CallsKeep
<1>6. UNCHANGED Sending
  BY <1>1, <1>2, SendingSame
<1> QED
  BY <1>5, <1>6

\* A document that arrives makes the one draft of its content, or finds it.
LEMMA DraftMade ==
    ASSUME HandoffInv, NEW id, NEW content \in Contents, Named(id, content),
           drafts' = With(id, content), wire' \subseteq wire, UNCHANGED <<handoffs, spent>>
    PROVE  /\ Grown /\ RowsSound' /\ DraftsSound' /\ UNCHANGED StatusOf
           /\ id \in DOMAIN drafts' /\ drafts'[id] \in OrderDraft /\ drafts'[id].content = content
           /\ UNCHANGED Sending => Simulated
<1>1. DOMAIN drafts' = DOMAIN drafts \cup {id} /\ \A e \in DOMAIN drafts : drafts'[e] = drafts[e]
  BY DEF With
<1>2. id \notin DOMAIN drafts => drafts'[id] \in OrderDraft /\ drafts'[id].content = content
  BY DEF With, NewDraft, OrderDraft
<1>3. id \in DOMAIN drafts => drafts[id] \in OrderDraft /\ drafts[id].content = content
  BY DEF HandoffInv, RowsSound, DraftsSound, Named
<1>4. Grown
  BY <1>1 DEF Grown, HandoffInv
<1>5. RowsSound'
  BY <1>1 DEF HandoffInv, RowsSound
<1>6. DraftsSound'
  <2>1. \A i, x : Named(i, x) => Named(i, x)'
    BY <1>4, NamesLast
  <2> QED
    BY <1>1, <1>2, <2>1 DEF HandoffInv, DraftsSound
<1>7. UNCHANGED StatusOf
  BY StatusSame
<1>8. DraftsCounted /\ DraftsCounted'
  BY <1>5, <1>6, OneDraftEach, PTL DEF HandoffInv
<1>9. CASE id \in DOMAIN drafts
  <2>1. \A x \in Contents : DraftsOf'[x] = DraftsOf[x]
    BY <1>1, <1>8, <1>9 DEF DraftsCounted
  <2>2. UNCHANGED DraftsOf
    BY <1>8, <2>1 DEF DraftsCounted
  <2> QED
    BY <1>1, <1>3, <1>4, <1>5, <1>6, <1>7, <1>9, <2>2 DEF Simulated
<1>10. CASE id \notin DOMAIN drafts
  <2>1. ASSUME NEW e \in DOMAIN drafts PROVE drafts[e].content # content
    BY <1>10, <2>1 DEF HandoffInv, RowsSound, DraftsSound, Named
  <2>2. DraftsOf[content] = 0 /\ DraftsOf'[content] = 1
    BY <1>1, <1>2, <1>8, <1>10, <2>1 DEF DraftsCounted
  <2>3. ASSUME NEW x \in Contents, x # content PROVE DraftsOf'[x] = DraftsOf[x]
    <3>1. CASE \E e \in DOMAIN drafts : drafts[e].content = x
      BY <1>1, <1>8, <3>1 DEF DraftsCounted
    <3>2. CASE \A e \in DOMAIN drafts : drafts[e].content # x
      <4>1. \A e \in DOMAIN drafts' : drafts'[e].content # x
        BY <1>1, <1>2, <1>10, <2>3, <3>2
      <4> QED
        BY <1>8, <3>2, <4>1 DEF DraftsCounted
    <3> QED
      BY <3>1, <3>2
  <2>4. DraftsOf' = [DraftsOf EXCEPT ![content] = 1]
    BY <1>8, <2>2, <2>3 DEF DraftsCounted
  <2>5. StatusOf[content] # "new"
    BY StatusOfRow DEF HandoffInv, StatusRead, Named
  <2>6. UNCHANGED Sending => Promise!Arrive(content)
    BY <1>7, <2>2, <2>4, <2>5 DEF Promise!Arrive
  <2> QED
    BY <1>1, <1>2, <1>4, <1>5, <1>6, <1>7, <1>10, <2>6 DEF Simulated, Promise!Next
<1> QED
  BY <1>9, <1>10

\* What is booked of an answer is a row that may be stored.
LEMMA AnswersAreRows ==
    ASSUME NEW row \in HandoffRow, NEW draft \in OrderDraft, draft.content = row.content,
           row.status # "revoked"
    PROVE  /\ Answered(row, draft) \in HandoffRow /\ Answered(row, draft).status = "delivered"
           /\ Projected(row, draft) \in HandoffRow /\ Projected(row, draft).status = row.status
           /\ \A answer \in {Answered(row, draft), Projected(row, draft)} :
                answer.id = row.id /\ answer.content = row.content
  BY DEF Answered, Projected, HandoffRow, OrderDraft

LEMMA NoAnswerIsARow ==
    ASSUME NEW row \in HandoffRow
    PROVE  /\ Unanswered(row) \in HandoffRow /\ Unanswered(row).status = "delivery_failed"
           /\ Unanswered(row).id = row.id /\ Unanswered(row).content = row.content
  BY DEF Unanswered, HandoffRow

LEMMA DeliverKeeps ==
    ASSUME HandoffInv, NEW c \in Callers, Deliver(c)
    PROVE  HandoffInv' /\ Simulated
<1>1. PICK row : row = calls[c].row
  OBVIOUS
<1>2. calls[c].op = "send" /\ UNCHANGED <<handoffs, spent>>
  BY DEF Deliver, At, Book, Proceed
<1>3. /\ row \in HandoffRow /\ Named(row.id, row.content) /\ row.status # "revoked"
      /\ row.content \in Contents
  BY <1>1, <1>2 DEF HandoffInv, CallsSound, CallSound, Sender, HandoffRow
<1>4. CASE /\ drafts' = With(row.id, row.content) /\ UNCHANGED wire
           /\ Book(c, Answered(row, drafts'[row.id])) \/ Book(c, Unanswered(row))
  <2>1. /\ Grown /\ RowsSound' /\ DraftsSound' /\ UNCHANGED StatusOf
        /\ row.id \in DOMAIN drafts' /\ drafts'[row.id] \in OrderDraft
        /\ drafts'[row.id].content = row.content
        /\ UNCHANGED Sending => Simulated
    BY <1>2, <1>3, <1>4, DraftMade
  <2>2. CASE Book(c, Answered(row, drafts'[row.id]))
    <3>1. PICK answer : answer = Answered(row, drafts'[row.id])
      OBVIOUS
    <3>2. /\ answer \in HandoffRow /\ answer.status = "delivered"
          /\ answer.id = row.id /\ answer.content = row.content
      BY <1>3, <2>1, <3>1, AnswersAreRows
    <3>3. CallsSound' /\ UNCHANGED Sending
      BY <1>1, <1>2, <2>1, <2>2, <3>1, <3>2, BookKeeps
    <3> QED
      BY <1>2, <2>1, <3>3 DEF HandoffInv
  <2>3. CASE Book(c, Unanswered(row))
    <3>1. CallsSound' /\ UNCHANGED Sending
      BY <1>1, <1>2, <1>3, <2>1, <2>3, NoAnswerIsARow, BookKeeps
    <3> QED
      BY <1>2, <2>1, <3>1 DEF HandoffInv
  <2> QED
    BY <1>4, <2>2, <2>3
<1>5. CASE /\ Book(c, Unanswered(row)) /\ UNCHANGED drafts
           /\ wire' \in {wire, wire \cup {[id |-> row.id, content |-> row.content]}}
  <2>1. Grown
    BY <1>2, <1>5 DEF Grown, HandoffInv
  <2>2. RowsSound'
    BY <1>2, <1>5 DEF HandoffInv, RowsSound
  <2>3. DraftsSound'
    <3>1. \A id, x : Named(id, x) => Named(id, x)'
      BY <2>1, NamesLast
    <3>2. ASSUME NEW sent \in wire' PROVE Named(sent.id, sent.content) /\ sent.content \in Contents
      <4>1. sent \in wire \/ (sent.id = row.id /\ sent.content = row.content)
        BY <1>5
      <4> QED
        BY <1>3, <4>1 DEF HandoffInv, DraftsSound
    <3> QED
      BY <1>5, <3>1, <3>2 DEF HandoffInv, DraftsSound
  <2>4. CallsSound' /\ UNCHANGED Sending
    BY <1>1, <1>2, <1>3, <1>5, <2>1, NoAnswerIsARow, BookKeeps
  <2>5. UNCHANGED StatusOf /\ UNCHANGED DraftsOf
    BY <1>2, <1>5, StatusSame DEF DraftsOf
  <2> QED
    BY <1>2, <2>2, <2>3, <2>4, <2>5 DEF HandoffInv, Simulated
<1> QED
  BY <1>1, <1>4, <1>5 DEF Deliver

LEMMA FetchKeeps ==
    ASSUME HandoffInv, NEW c \in Callers, FetchProjection(c)
    PROVE  HandoffInv' /\ Simulated
<1>1. PICK row : row = calls[c].row
  OBVIOUS
<1>2. PICK answer : answer = Projected(row, drafts[row.id])
  OBVIOUS
<1>3. /\ calls[c].op = "ask" /\ row.id \in DOMAIN drafts
      /\ Book(c, answer) /\ UNCHANGED handoffVars /\ UNCHANGED spent
  BY <1>1, <1>2 DEF FetchProjection, At, Book, Proceed
<1>4. /\ row \in HandoffRow /\ Named(row.id, row.content) /\ row.status # "revoked"
      /\ row.status = "delivered" => row.id \in DOMAIN drafts
  BY <1>1, <1>3 DEF HandoffInv, CallsSound, CallSound, Sender
<1>5. drafts[row.id] \in OrderDraft /\ drafts[row.id].content = row.content
  BY <1>3, <1>4 DEF HandoffInv, DraftsSound, RowsSound, Named
<1>6. /\ answer \in HandoffRow /\ answer.status = row.status
      /\ answer.id = row.id /\ answer.content = row.content
  BY <1>2, <1>4, <1>5, AnswersAreRows
<1>7. Grown /\ spent' \in Nat /\ RowsSound' /\ DraftsSound' /\ UNCHANGED <<StatusOf, DraftsOf>>
  BY <1>3, TablesRest
<1>8. CallsSound' /\ UNCHANGED Sending
  BY <1>1, <1>3, <1>4, <1>6, <1>7, BookKeeps DEF handoffVars
<1> QED
  BY <1>7, <1>8 DEF HandoffInv, Simulated

\* Nothing else that the order application does is seen here at once.
LEMMA OthersKeep ==
    ASSUME HandoffInv, (\E sent \in wire : Arrive(sent)) \/ \E id \in DOMAIN drafts : EditDraft(id)
    PROVE  HandoffInv' /\ Simulated
<1>1. ASSUME NEW sent \in wire, Arrive(sent) PROVE HandoffInv' /\ Simulated
  <2>1. UNCHANGED <<handoffs, spent, calls>> /\ wire' \subseteq wire /\ drafts' = With(sent.id, sent.content)
    BY <1>1 DEF Arrive, requestVars
  <2>2. Named(sent.id, sent.content) /\ sent.content \in Contents
    BY DEF HandoffInv, DraftsSound
  <2>3. UNCHANGED Sending
    BY <2>1 DEF Sending
  <2>4. Grown /\ RowsSound' /\ DraftsSound' /\ Simulated
    BY <2>1, <2>2, <2>3, DraftMade
  <2>5. CallsSound'
    BY <2>1, <2>4, CallKept DEF HandoffInv, CallsSound
  <2> QED
    BY <2>1, <2>4, <2>5 DEF HandoffInv
<1>2. ASSUME NEW id \in DOMAIN drafts, EditDraft(id) PROVE HandoffInv' /\ Simulated
  <2>1. drafts[id] \in OrderDraft
    BY DEF HandoffInv, DraftsSound
  <2>2. PICK edited \in {[drafts[id] EXCEPT !.status = "accepted"], [drafts[id] EXCEPT !.dirty = TRUE],
                         [drafts[id] EXCEPT !.withdrawn = TRUE]} : drafts' = [drafts EXCEPT ![id] = edited]
    BY <1>2 DEF EditDraft
  <2>3. edited \in OrderDraft /\ edited.content = drafts[id].content
    BY <2>1, <2>2 DEF OrderDraft
  <2>4. UNCHANGED <<handoffs, wire, calls>> /\ spent' = spent + 1
    BY <1>2 DEF EditDraft, AtOnce, Spend
  <2>5. /\ DOMAIN drafts' = DOMAIN drafts
        /\ \A e \in DOMAIN drafts : drafts'[e].content = drafts[e].content
        /\ \A e \in DOMAIN drafts : drafts[e] \in OrderDraft => drafts'[e] \in OrderDraft
    BY <2>2, <2>3
  <2>6. spent \in Nat /\ spent' \in Nat /\ spent <= spent'
    BY <2>4 DEF HandoffInv
  <2>7. Grown
    BY <2>4, <2>5, <2>6 DEF Grown
  <2>8. RowsSound'
    <3>1. ASSUME NEW i \in DOMAIN handoffs PROVE handoffs[i].id <= spent'
      <4>1. handoffs[i] \in HandoffRow /\ handoffs[i].id <= spent
        BY DEF HandoffInv, RowsSound
      <4>2. handoffs[i].id \in Nat
        BY <4>1 DEF HandoffRow
      <4> QED
        BY <2>6, <4>1, <4>2
    <3> QED
      BY <2>4, <2>5, <3>1 DEF HandoffInv, RowsSound
  <2>9. DraftsSound'
    <3>1. \A e, x : Named(e, x) => Named(e, x)'
      BY <2>7, NamesLast
    <3>2. ASSUME NEW e \in DOMAIN drafts PROVE drafts'[e] \in OrderDraft /\ Named(e, drafts[e].content)'
      <4>1. drafts[e] \in OrderDraft /\ Named(e, drafts[e].content)
        BY DEF HandoffInv, DraftsSound
      <4>2. PICK x : x = drafts[e].content
        OBVIOUS
      <4>3. Named(e, x)'
        BY <3>1, <4>1, <4>2
      <4>4. drafts'[e].content = x
        BY <2>5, <4>2
      <4> QED
        BY <2>5, <4>1, <4>3, <4>4 DEF Named
    <3> QED
      BY <2>4, <2>5, <3>1, <3>2 DEF HandoffInv, DraftsSound, Named
  <2>10. CallsSound'
    BY <2>4, <2>7, CallKept DEF HandoffInv, CallsSound
  <2>11. UNCHANGED DraftsOf
    <3>1. ASSUME NEW x \in Contents
          PROVE  {e \in DOMAIN drafts' : drafts'[e].content = x} = {e \in DOMAIN drafts : drafts[e].content = x}
      BY <2>5
    <3> QED
      BY <3>1 DEF DraftsOf
  <2>12. UNCHANGED StatusOf /\ UNCHANGED Sending
    BY <2>4, StatusSame DEF Sending
  <2> QED
    BY <2>6, <2>8, <2>9, <2>10, <2>11, <2>12 DEF HandoffInv, Simulated
<1> QED
  BY <1>1, <1>2

-----------------------------------------------------------------------------
(* All steps.                                                              *)

\* What happens to the opportunity itself goes by without the hand-offs.
LEMMA OpportunityApart ==
    ASSUME HandoffInv, OppNext, UNCHANGED handoffVars
    PROVE  HandoffInv' /\ Simulated
<1>1. ASSUME UNCHANGED requestVars PROVE HandoffInv' /\ Simulated
  <2>1. UNCHANGED calls /\ spent' = spent
    BY <1>1 DEF requestVars
  <2>2. Grown /\ spent' \in Nat /\ RowsSound' /\ DraftsSound' /\ UNCHANGED <<StatusOf, DraftsOf>>
    BY <2>1, TablesRest
  <2>3. CallsSound'
    BY <2>1, <2>2, CallKept DEF HandoffInv, CallsSound, handoffVars
  <2>4. UNCHANGED Sending
    BY <2>1 DEF Sending
  <2> QED
    BY <2>2, <2>3, <2>4 DEF HandoffInv, Simulated
<1>2. ASSUME NEW c \in Callers, NEW stage, PostStage(c, stage) PROVE HandoffInv' /\ Simulated
  BY <1>2, ElsewhereKeeps DEF PostStage, Start, Spend, HandoffOps
<1>3. ASSUME NEW c \in Callers, NEW amount, NEW to, PatchOpportunity(c, amount, to) PROVE HandoffInv' /\ Simulated
  BY <1>3, ElsewhereKeeps DEF PatchOpportunity, Start, Spend, HandoffOps
<1>4. ASSUME NEW c \in Callers, TransitionOpportunityStage(c) \/ UpdateOpportunity(c) PROVE HandoffInv' /\ Simulated
  BY <1>4, ElsewhereKeeps DEF TransitionOpportunityStage, UpdateOpportunity, Finish, Proceed, Idle, HandoffOps
<1>5. ASSUME NEW c \in Callers, LoadOpportunity(c) PROVE HandoffInv' /\ Simulated
  <2>1. PICK row : Proceed(c, [op |-> "save", row |-> row])
    BY <1>5 DEF LoadOpportunity
  <2> QED
    BY <2>1, ElsewhereKeeps DEF Proceed, HandoffOps
<1> QED
  BY <1>1, <1>2, <1>3, <1>4, <1>5 DEF OppNext, CreateOpportunity

LEMMA StepSimulated == HandoffInv /\ [Next]_vars => HandoffInv' /\ Simulated
<1> SUFFICES ASSUME HandoffInv, [Next]_vars PROVE HandoffInv' /\ Simulated
  OBVIOUS
<1>1. CASE OppNext /\ UNCHANGED handoffVars
  BY <1>1, OpportunityApart
<1>2. ASSUME NEW c \in Callers, NEW x \in Contents, ConfirmAgain(c, x) PROVE HandoffInv' /\ Simulated
  <2>1. PICK row \in Rows : row.status # "revoked" /\ Start(c, [op |-> "send", row |-> row])
    BY <1>2 DEF ConfirmAgain, ByFingerprint
  <2> QED
    BY <1>2, <2>1, ResumeKeeps DEF ConfirmAgain
<1>3. ASSUME NEW c \in Callers, Retry(c) \/ Refresh(c) PROVE HandoffInv' /\ Simulated
  <2>1. PICK row \in Rows, op \in {"send", "ask"} : row.status # "revoked" /\ Start(c, [op |-> op, row |-> row])
    BY <1>3 DEF Retry, Refresh, Addressed
  <2> QED
    BY <1>3, <2>1, ResumeKeeps DEF Retry, Refresh
<1>4. ASSUME NEW c \in Callers, Revoke(c) PROVE HandoffInv' /\ Simulated
  <2>1. PICK row \in Rows :
           Start(c, [op |-> IF row.status = "delivery_failed" THEN "revoke" ELSE "guard", row |-> row])
    BY <1>4 DEF Revoke
  <2>2. row \in HandoffRow /\ Named(row.id, row.content)
    BY DEF HandoffInv, RowsSound, Rows, ToSet, Named
  <2>3. PICK op \in {"guard", "revoke"} : Start(c, [op |-> op, row |-> row])
    BY <2>1
  <2>4. calls[c].op \notin {"send", "ask", "book"}
    BY <2>3 DEF Start, Free, Idle
  <2> QED
    BY <1>4, <2>2, <2>3, <2>4, RevokerKeeps DEF Revoke, Start, Spend
<1>5. ASSUME NEW c \in Callers, GuardRevoke(c) PROVE HandoffInv' /\ Simulated
  <2>1. PICK row : row = calls[c].row
    OBVIOUS
  <2>2. calls[c].op = "guard" /\ row \in HandoffRow /\ Named(row.id, row.content)
    BY <1>5, <2>1 DEF GuardRevoke, At, HandoffInv, CallsSound, CallSound, Revoker
  <2> QED
    BY <1>5, <2>1, <2>2, RevokerKeeps DEF GuardRevoke, Proceed
<1>6. ASSUME NEW c \in Callers, Abandon(c), UNCHANGED handoffVars PROVE HandoffInv' /\ Simulated
  BY <1>6, ElsewhereKeeps DEF Abandon, Finish, Proceed, Idle, HandoffOps
<1>7. CASE HandoffNext
  BY <1>2, <1>3, <1>4, <1>5, <1>6, <1>7, ConfirmNewKeeps, BuildKeeps, InsertKeeps, UpdateKeeps,
     MarkRevokedKeeps, DeliverKeeps, FetchKeeps, OthersKeep DEF HandoffNext
<1>8. CASE UNCHANGED vars
  <2>1. UNCHANGED handoffVars /\ UNCHANGED calls /\ spent' = spent
    BY <1>8 DEF vars, requestVars
  <2>2. Grown /\ spent' \in Nat /\ RowsSound' /\ DraftsSound' /\ UNCHANGED <<StatusOf, DraftsOf>>
    BY <2>1, TablesRest
  <2>3. CallsSound'
    BY <2>1, <2>2, CallKept DEF HandoffInv, CallsSound, handoffVars
  <2>4. UNCHANGED Sending
    BY <2>1 DEF Sending
  <2> QED
    BY <2>2, <2>3, <2>4 DEF HandoffInv, Simulated
<1> QED
  BY <1>1, <1>7, <1>8 DEF Next

LEMMA StartSimulated == Init => HandoffInv /\ Promise!Init
<1> SUFFICES ASSUME Init PROVE HandoffInv /\ Promise!Init
  OBVIOUS
<1>1. /\ calls = [c \in Callers |-> Idle] /\ spent = 0
      /\ handoffs = <<>> /\ drafts = <<>> /\ wire = {}
  BY DEF Init, Quiet
<1>2. RowsSound /\ DraftsSound
  BY <1>1 DEF RowsSound, DraftsSound
<1>3. CallsSound
  BY <1>1 DEF CallsSound, CallSound, Idle
<1>4. StatusRead /\ DraftsCounted
  BY <1>2, StatusOfRow, OneDraftEach
<1>5. Sending = {}
  BY <1>1 DEF Sending, Idle
<1>6. StatusOf = [x \in Contents |-> "new"]
  BY <1>1, <1>4 DEF StatusRead
<1>7. DraftsOf = [x \in Contents |-> 0]
  BY <1>1, <1>4 DEF DraftsCounted
<1> QED
  BY <1>1, <1>2, <1>3, <1>5, <1>6, <1>7 DEF HandoffInv, Promise!Init

\* One draft for each confirmed requirement, called delivered only when it
\* exists, and nothing begun after a revocation sends it again, whatever
\* answers are lost and documents late (handoffsender/service.go and
\* deliver.go, store/opportunity_handoff.go).
THEOREM HandoffKeepsItsPromise == Spec => ImplementsHandoff
<1>1. HandoffInv /\ [Next]_vars => [Promise!Next]_(Promise!lvars)
  BY StepSimulated DEF Simulated, Promise!lvars
<1>2. HandoffInv /\ [Next]_vars => HandoffInv'
  BY StepSimulated
<1> QED
  BY <1>1, <1>2, StartSimulated, PTL DEF Spec, ImplementsHandoff, Promise!Spec

-----------------------------------------------------------------------------
(* The opportunity itself.                                                 *)

Entry == [from : Stages \cup {Created}, to : Stages]

\* What a request holds between its steps, of those that change an opportunity.
OppCallSound(call) ==
    /\ call.op \in {"stage", "patch", "save"} => opp # NoOpp
    /\ call.op = "stage" => call.to \in Stages
    /\ call.op = "patch" => call.amount \in Amounts /\ call.to \in Members \cup {Nobody}
    /\ call.op = "save" => call.row.amount \in Amounts /\ call.row.assignee \in Members

OppCallsSound == DOMAIN calls = Callers /\ \A c \in Callers : OppCallSound(calls[c])

HistorySound ==
    opp # NoOpp => /\ opp \in Opportunity
                   /\ history \in Seq(Entry) /\ history # <<>>
                   /\ StageChain

OppInv == OppCallsSound /\ HistorySound

\* An entry that goes on from the last one keeps a chain a chain.
LEMMA ChainGrows ==
    ASSUME NEW h \in Seq(Entry), h # <<>>, NEW to \in Stages,
           h[1].from = Created, h[Len(h)].to # to,
           \A i \in 2..Len(h) : h[i].from = h[i - 1].to /\ h[i].from # h[i].to,
           NEW g, g = Append(h, [from |-> h[Len(h)].to, to |-> to])
    PROVE  /\ g \in Seq(Entry) /\ g # <<>>
           /\ g[1].from = Created /\ g[Len(g)].to = to
           /\ \A i \in 2..Len(g) : g[i].from = g[i - 1].to /\ g[i].from # g[i].to
<1> DEFINE e == [from |-> h[Len(h)].to, to |-> to]
<1>1. Len(h) \in Nat /\ Len(h) >= 1
  OBVIOUS
<1>2. h[Len(h)] \in Entry
  BY <1>1
<1>3. e \in Entry /\ e.from = h[Len(h)].to /\ e.to = to
  BY <1>2 DEF Entry
<1>4. g \in Seq(Entry) /\ Len(g) = Len(h) + 1 /\ g[Len(h) + 1] = e
  BY <1>3
<1>5. \A i \in 1..Len(h) : g[i] = h[i]
  BY <1>3
<1>6. g # <<>> /\ g[1].from = Created /\ g[Len(g)].to = to
  BY <1>1, <1>3, <1>4, <1>5
<1>7. ASSUME NEW i \in 2..Len(g) PROVE g[i].from = g[i - 1].to /\ g[i].from # g[i].to
  <2>1. CASE i \in 2..Len(h)
    BY <2>1, <1>1, <1>5
  <2>2. CASE i = Len(h) + 1
    BY <2>2, <1>1, <1>3, <1>4, <1>5
  <2> QED
    BY <2>1, <2>2, <1>1, <1>4
<1> QED
  BY <1>4, <1>6, <1>7

\* The requests that only concern hand-offs leave the opportunity alone, and
\* what they hold is none of its business.
LEMMA HandoffsApart ==
    ASSUME OppCallsSound, HandoffNext
    PROVE  UNCHANGED oppVars /\ OppCallsSound'
<1> USE DEF oppVars
<1>1. ASSUME NEW c \in Callers, NEW call, UNCHANGED oppVars,
             calls' = [calls EXCEPT ![c] = call],
             call.op \notin {"stage", "patch", "save"}
      PROVE  UNCHANGED oppVars /\ OppCallsSound'
  BY <1>1 DEF OppCallsSound, OppCallSound
<1>2. Idle.op \notin {"stage", "patch", "save"}
  BY DEF Idle
<1>3. ASSUME UNCHANGED oppVars, UNCHANGED calls PROVE UNCHANGED oppVars /\ OppCallsSound'
  BY <1>3 DEF OppCallsSound, OppCallSound
<1>4. ASSUME NEW c \in Callers, NEW x \in Contents, ConfirmAgain(c, x) \/ ConfirmNew(c, x)
      PROVE  UNCHANGED oppVars /\ OppCallsSound'
  BY <1>1, <1>4 DEF ConfirmAgain, ConfirmNew, Start
<1>5. ASSUME NEW c \in Callers, Retry(c) \/ Refresh(c) PROVE UNCHANGED oppVars /\ OppCallsSound'
  BY <1>1, <1>5 DEF Retry, Refresh, Start
<1>6. ASSUME NEW c \in Callers, Revoke(c) PROVE UNCHANGED oppVars /\ OppCallsSound'
  <2>1. PICK row \in Rows :
           Start(c, [op |-> IF row.status = "delivery_failed" THEN "revoke" ELSE "guard", row |-> row])
    BY <1>6 DEF Revoke
  <2> QED
    BY <1>1, <1>6, <2>1 DEF Revoke, Start
<1>7. ASSUME NEW c \in Callers, BuildDocument(c) PROVE UNCHANGED oppVars /\ OppCallsSound'
  BY <1>1, <1>2, <1>7 DEF BuildDocument, Proceed
<1>8. ASSUME NEW c \in Callers, InsertHandoff(c) PROVE UNCHANGED oppVars /\ OppCallsSound'
  BY <1>1, <1>2, <1>8 DEF InsertHandoff, Proceed, Finish
<1>9. ASSUME NEW c \in Callers, Deliver(c) PROVE UNCHANGED oppVars /\ OppCallsSound'
  BY <1>1, <1>9 DEF Deliver, Book, Proceed
<1>10. ASSUME NEW c \in Callers, UpdateDelivery(c) \/ MarkRevoked(c) PROVE UNCHANGED oppVars /\ OppCallsSound'
  BY <1>1, <1>2, <1>10 DEF UpdateDelivery, MarkRevoked, Finish, Proceed
<1>11. ASSUME NEW c \in Callers, FetchProjection(c) \/ GuardRevoke(c) PROVE UNCHANGED oppVars /\ OppCallsSound'
  BY <1>1, <1>11 DEF FetchProjection, GuardRevoke, Book, Proceed
<1>12. ASSUME NEW c \in Callers, Abandon(c), UNCHANGED oppVars PROVE UNCHANGED oppVars /\ OppCallsSound'
  BY <1>1, <1>2, <1>12 DEF Abandon, Finish, Proceed
<1>13. ASSUME NEW sent, Arrive(sent) PROVE UNCHANGED oppVars /\ OppCallsSound'
  BY <1>3, <1>13 DEF Arrive, requestVars
<1>14. ASSUME NEW id, EditDraft(id) PROVE UNCHANGED oppVars /\ OppCallsSound'
  BY <1>3, <1>14 DEF EditDraft, AtOnce
<1> QED
  BY <1>4, <1>5, <1>6, <1>7, <1>8, <1>9, <1>10, <1>11, <1>12, <1>13, <1>14 DEF HandoffNext, handoffVars

\* The record is created with its first entry.
LEMMA CreateKeeps ==
    ASSUME OppInv, NEW m \in Members, NEW o \in Opportunity, CreateOpportunity(m, o)
    PROVE  OppInv'
<1>1. opp = NoOpp /\ opp' = o /\ o # NoOpp /\ UNCHANGED calls
  BY OpportunitiesAssumption DEF CreateOpportunity, requestVars
<1>2. o.stage \in Stages
  BY DEF Opportunity
<1> DEFINE e == [from |-> Created, to |-> o.stage]
<1>3. history' = <<e>> /\ e \in Entry /\ e.from = Created /\ e.to = o.stage
  BY <1>2 DEF CreateOpportunity, Entry
<1> HIDE DEF e
<1>4. history' \in Seq(Entry) /\ history' # <<>> /\ Len(history') = 1 /\ history'[1] = e
  BY <1>3
<1>5. StageChain'
  BY <1>1, <1>3, <1>4 DEF StageChain
<1>6. HistorySound'
  BY <1>1, <1>4, <1>5 DEF HistorySound
<1>7. OppCallsSound'
  BY <1>1 DEF OppInv, OppCallsSound, OppCallSound
<1> QED
  BY <1>6, <1>7 DEF OppInv

\* A transition adds an entry that goes on from the present stage, or nothing.
LEMMA TransitionKeeps ==
    ASSUME OppInv, NEW c \in Callers, TransitionOpportunityStage(c)
    PROVE  OppInv'
<1> DEFINE to == calls[c].to
<1>1. opp # NoOpp /\ to \in Stages
  BY DEF OppInv, OppCallsSound, OppCallSound, TransitionOpportunityStage, At
<1>2. /\ opp \in Opportunity /\ history \in Seq(Entry) /\ history # <<>>
      /\ history[1].from = Created /\ history[Len(history)].to = opp.stage
      /\ \A i \in 2..Len(history) : history[i].from = history[i - 1].to /\ history[i].from # history[i].to
  BY <1>1 DEF OppInv, HistorySound, StageChain
<1>3. /\ opp' = [opp EXCEPT !.stage = to]
      /\ history' = IF to = opp.stage THEN history ELSE Append(history, [from |-> opp.stage, to |-> to])
      /\ calls' = [calls EXCEPT ![c] = Idle]
  BY DEF TransitionOpportunityStage, Finish, Proceed
<1> HIDE DEF to
<1>4. opp' \in Opportunity /\ opp'.stage = to /\ opp' # NoOpp
  BY <1>1, <1>2, <1>3, OpportunitiesAssumption DEF Opportunity
<1>5. /\ history' \in Seq(Entry) /\ history' # <<>>
      /\ history'[1].from = Created /\ history'[Len(history')].to = to
      /\ \A i \in 2..Len(history') : history'[i].from = history'[i - 1].to /\ history'[i].from # history'[i].to
  <2>1. CASE to = opp.stage
    BY <2>1, <1>2, <1>3
  <2>2. CASE to # opp.stage
    <3>1. history' = Append(history, [from |-> history[Len(history)].to, to |-> to])
      BY <2>2, <1>2, <1>3
    <3> QED
      BY <3>1, <2>2, <1>1, <1>2, ChainGrows
  <2> QED
    BY <2>1, <2>2
<1>6. StageChain'
  BY <1>4, <1>5 DEF StageChain
<1>7. HistorySound'
  BY <1>4, <1>5, <1>6 DEF HistorySound
<1>8. OppCallsSound'
  BY <1>3, <1>4 DEF OppInv, OppCallsSound, OppCallSound, Idle
<1> QED
  BY <1>7, <1>8 DEF OppInv

\* A patch, as read or as written, does not touch the stage.
LEMMA PatchKeeps ==
    ASSUME OppInv, NEW c \in Callers, UpdateOpportunity(c)
    PROVE  OppInv'
<1> DEFINE row == calls[c].row
<1>1. opp # NoOpp /\ row.amount \in Amounts /\ row.assignee \in Members
  BY DEF OppInv, OppCallsSound, OppCallSound, UpdateOpportunity, At
<1>2. opp \in Opportunity /\ history \in Seq(Entry) /\ history # <<>> /\ StageChain
  BY <1>1 DEF OppInv, HistorySound
<1>3. /\ opp' = [opp EXCEPT !.amount = row.amount, !.assignee = row.assignee]
      /\ history' = history
      /\ calls' = [calls EXCEPT ![c] = Idle]
  BY DEF UpdateOpportunity, Saved, Finish, Proceed
<1> HIDE DEF row
<1>4. opp' \in Opportunity /\ opp'.stage = opp.stage /\ opp' # NoOpp
  BY <1>1, <1>2, <1>3, OpportunitiesAssumption DEF Opportunity
<1>5. StageChain'
  BY <1>1, <1>2, <1>3, <1>4 DEF StageChain
<1>6. HistorySound'
  BY <1>2, <1>3, <1>4, <1>5 DEF HistorySound
<1>7. OppCallsSound'
  BY <1>3, <1>4 DEF OppInv, OppCallsSound, OppCallSound, Idle
<1> QED
  BY <1>6, <1>7 DEF OppInv

\* What a request takes along is of its types.
LEMMA RequestKeeps ==
    ASSUME OppInv, NEW c \in Callers,
           \/ \E stage \in Stages : PostStage(c, stage)
           \/ \E amount \in Amounts, to \in Members \cup {Nobody} : PatchOpportunity(c, amount, to)
           \/ LoadOpportunity(c)
    PROVE  OppInv'
<1>1. UNCHANGED oppVars
  BY DEF PostStage, PatchOpportunity, LoadOpportunity
<1>2. HistorySound'
  BY <1>1 DEF OppInv, HistorySound, StageChain, oppVars
<1>3. ASSUME NEW call, calls' = [calls EXCEPT ![c] = call], OppCallSound(call) PROVE OppCallsSound'
  BY <1>1, <1>3 DEF OppInv, OppCallsSound, OppCallSound, oppVars
<1>4. ASSUME NEW stage \in Stages, PostStage(c, stage) PROVE OppCallsSound'
  BY <1>3, <1>4 DEF PostStage, Start, OppCallSound
<1>5. ASSUME NEW amount \in Amounts, NEW to \in Members \cup {Nobody}, PatchOpportunity(c, amount, to)
      PROVE  OppCallsSound'
  BY <1>3, <1>5 DEF PatchOpportunity, Start, OppCallSound
<1>6. ASSUME LoadOpportunity(c) PROVE OppCallsSound'
  <2> DEFINE call == calls[c]
             row == [opp EXCEPT !.amount = call.amount,
                                !.assignee = IF call.to = Nobody THEN @ ELSE call.to]
  <2>1. opp # NoOpp /\ call.amount \in Amounts /\ call.to \in Members \cup {Nobody}
    BY <1>6 DEF OppInv, OppCallsSound, OppCallSound, LoadOpportunity, At
  <2>2. opp \in Opportunity
    BY <2>1 DEF OppInv, HistorySound
  <2>3. row.amount \in Amounts /\ row.assignee \in Members
    BY <2>1, <2>2 DEF Opportunity
  <2>4. calls' = [calls EXCEPT ![c] = [op |-> "save", row |-> row]]
    BY <1>6 DEF LoadOpportunity, Proceed
  <2> HIDE DEF row
  <2> QED
    BY <1>3, <2>1, <2>3, <2>4 DEF OppCallSound
<1> QED
  BY <1>2, <1>4, <1>5, <1>6 DEF OppInv

\* The history of an opportunity tells how it came to its stage, however
\* transitions, patches and hand-offs interleave (TransitionOpportunityStage
\* and UpdateOpportunity of store/store.go).
THEOREM HistoryIsAChain == Spec => []StageChain
<1>1. Init => OppInv
  BY DEF Init, Quiet, OppInv, OppCallsSound, OppCallSound, HistorySound, Idle
<1>2. OppInv /\ [Next]_vars => OppInv'
  <2> SUFFICES ASSUME OppInv, [Next]_vars PROVE OppInv'
    OBVIOUS
  <2>1. CASE OppNext
    BY <2>1, CreateKeeps, TransitionKeeps, PatchKeeps, RequestKeeps DEF OppNext
  <2>2. CASE HandoffNext
    BY <2>2, HandoffsApart DEF OppInv, HistorySound, StageChain, oppVars
  <2>3. CASE UNCHANGED vars
    BY <2>3 DEF vars, oppVars, requestVars, OppInv, OppCallsSound, OppCallSound, HistorySound, StageChain
  <2> QED
    BY <2>1, <2>2, <2>3 DEF Next
<1>3. OppInv => StageChain
  BY DEF OppInv, HistorySound, StageChain
<1> QED
  BY <1>1, <1>2, <1>3, PTL DEF Spec
===============================================================================
