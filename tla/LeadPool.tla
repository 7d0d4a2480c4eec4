------------------------------- MODULE LeadPool -------------------------------
(***************************************************************************)
(* Who gets the next lead: a smooth weighted round robin over the enabled  *)
(* sales members of a pool, with a cursor per entry that lives in the      *)
(* database.  Source: store/lead_assign.go, httpapi/handlers_lead_assign.go*)
(* and the member updates of store/store.go, httpapi/handlers_admin.go.    *)
(***************************************************************************)
EXTENDS Requests, Integers, Sequences, FiniteSets, FiniteSetsExt

CONSTANTS
    Members,    \* members who may be in the pool
    Weights,    \* weights an entry may get
    Regions,    \* tags of entries and leads
    Anywhere    \* no tag

ASSUME PoolAssumption == Weights \subseteq Nat \ {0} /\ Anywhere \notin Regions

VARIABLES
    members,    \* role and enabled bit of each
    pool,       \* pool entries, oldest first
    stretch     \* picks of the rotation under way (history)

poolVars == <<members, pool, stretch>>

Tags == Regions \cup {Anywhere}
Member == [role : {"sales", "agent"}, enabled : BOOLEAN]
Entry == [member : Members, born : 0..MaxEvents, weight : Weights, current : Int, region : Tags]

Assignable(m) == members[m].role = "sales" /\ members[m].enabled

-----------------------------------------------------------------------------
(* The pick.                                                               *)

\* loadEffectiveAssignPool
Effective(entries, who) ==
    {i \in DOMAIN entries : who[entries[i].member].role = "sales" /\ who[entries[i].member].enabled}

\* The entries with the lead's tag, or all when there is none.
Chosen(region) ==
    LET all == Effective(pool, members)
        tagged == {i \in all : pool[i].region = region}
    IN  IF region # Anywhere /\ tagged # {} THEN tagged ELSE all

Total(entries, set) == MapThenSumSet(LAMBDA i : entries[i].weight, set)

\* advanceSmoothWRR: everyone climbs by its weight, the first of the highest
\* is picked and pays the total.
Climbed(entries, set) ==
    [i \in DOMAIN entries |->
        IF i \in set THEN [entries[i] EXCEPT !.current = @ + entries[i].weight] ELSE entries[i]]

\* MUTANT of Paid: the picked entry starts over instead of paying.
PaidAll(entry, total) == [entry EXCEPT !.current = 0]

Paid(entry, total) == [entry EXCEPT !.current = @ - total]

Best(climbed, set) ==
    CHOOSE i \in set : \A j \in set :
        climbed[j].current < climbed[i].current \/ (climbed[j].current = climbed[i].current /\ i <= j)

Picked(entries, set) == Best(Climbed(entries, set), set)

Turn(entries, set) == [Climbed(entries, set) EXCEPT ![Picked(entries, set)] = Paid(@, Total(entries, set))]

\* The pool as the rotation sees it.
Shape(entries, who) ==
    {<<entries[i].member, entries[i].born, entries[i].weight>> : i \in Effective(entries, who)}

FreshStretch(entries, who) ==
    [even |-> \A i \in Effective(entries, who) : entries[i].current = 0, picks |-> <<>>]

\* AssignLeadInTx: pick is whoever gets the lead, nobody when the pool is empty.
AssignLead(region, pick, nobody) ==
    LET set == Chosen(region)
    IN  IF set = {} THEN pick = nobody /\ UNCHANGED poolVars
        ELSE /\ pick = pool[Picked(pool, set)].member
             /\ pool' = Turn(pool, set)
             /\ stretch' = IF set = Effective(pool, members)
                             THEN [stretch EXCEPT !.picks = Append(@, pick)]
                           ELSE FreshStretch(pool', members)
             /\ UNCHANGED members

\* A pool with its cursors as they have been left, or a turn later.
PoolInit(entries, turned) ==
    /\ members = [m \in Members |-> [role |-> "sales", enabled |-> TRUE]]
    /\ IF turned /\ entries # <<>>
         THEN LET all == DOMAIN entries IN
              /\ pool = Turn(entries, all)
              /\ stretch = [FreshStretch(entries, members) EXCEPT !.picks = <<entries[Picked(entries, all)].member>>]
       ELSE pool = entries /\ stretch = FreshStretch(entries, members)

-----------------------------------------------------------------------------
(* Editing the pool and its members.                                       *)

Reshaped ==
    stretch' = IF Shape(pool', members') = Shape(pool, members) THEN stretch
               ELSE FreshStretch(pool', members')

CreateAssignPoolEntry(c, m, w, r) ==
    /\ Assignable(m)
    /\ Start(c, [op |-> "entry", member |-> m, weight |-> w, region |-> r])
    /\ UNCHANGED poolVars

\* member_id is UNIQUE: an entry that appeared meanwhile stays as it is.
InsertAssignPoolEntry(c) ==
    LET entry == calls[c]
    IN  /\ At(c, "entry") /\ Finish(c)
        /\ pool' = IF \E i \in DOMAIN pool : pool[i].member = entry.member THEN pool
                   ELSE Append(pool, [member |-> entry.member, born |-> spent, weight |-> entry.weight,
                                      current |-> 0, region |-> entry.region])
        /\ UNCHANGED members /\ Reshaped

\* Weight and tag are written back together, patched or as read; not the cursor.
UpdateAssignPoolEntry(c, i, w, r) ==
    /\ Start(c, [op |-> "reweigh", member |-> pool[i].member, born |-> pool[i].born, weight |-> w, region |-> r])
    /\ UNCHANGED poolVars

WriteAssignPoolEntry(c) ==
    LET Same(entry) == entry.member = calls[c].member /\ entry.born = calls[c].born
    IN  /\ At(c, "reweigh") /\ Finish(c)
        /\ pool' = [i \in DOMAIN pool |->
                     IF Same(pool[i]) THEN [pool[i] EXCEPT !.weight = calls[c].weight, !.region = calls[c].region]
                     ELSE pool[i]]
        /\ UNCHANGED members /\ Reshaped

DeleteAssignPoolEntry(i) ==
    /\ AtOnce
    /\ pool' = [j \in 1..(Len(pool) - 1) |-> IF j < i THEN pool[j] ELSE pool[j + 1]]
    /\ UNCHANGED members /\ Reshaped

\* Role and enabled bit are written back together as well.
UpdateMember(c, m, row) ==
    /\ Start(c, [op |-> "member", member |-> m, row |-> row])
    /\ UNCHANGED poolVars

WriteMember(c) ==
    /\ At(c, "member") /\ Finish(c)
    /\ members' = [members EXCEPT ![calls[c].member] = calls[c].row]
    /\ UNCHANGED pool /\ Reshaped

PoolNext ==
    \/ \E c \in Callers :
         \/ /\ Free(c)
            /\ \/ \E m \in Members, w \in Weights, r \in Tags : CreateAssignPoolEntry(c, m, w, r)
               \/ \E i \in DOMAIN pool, w \in Weights, r \in Tags : UpdateAssignPoolEntry(c, i, w, r)
               \/ \E m \in Members, row \in Member : UpdateMember(c, m, row)
         \/ InsertAssignPoolEntry(c) \/ WriteAssignPoolEntry(c) \/ WriteMember(c)
    \/ \E i \in DOMAIN pool : DeleteAssignPoolEntry(i)

\* While the pool stays as it is and every lead goes to the whole of it, each
\* run of as many leads as the weights add up to is shared out exactly by
\* weight, wherever the run starts, for a rotation that began with all
\* cursors at zero (lead_assign.go:3-5).
FairShares ==
    LET set == Effective(pool, members)
        total == Total(pool, set)
        Share(i, from) == Cardinality({k \in from..(from + total - 1) : stretch.picks[k] = pool[i].member})
    IN  stretch.even =>
            \A from \in 1..(Len(stretch.picks) - total + 1) : \A i \in set : Share(i, from) = pool[i].weight
=============================================================================
