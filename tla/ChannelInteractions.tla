-------------------------- MODULE ChannelInteractions --------------------------
(***************************************************************************)
(* Comments and direct messages of one channel account: a connector        *)
(* delivers, edits and retracts them, in any order and repeatedly; what    *)
(* asks to buy is a prospect, and staff make a lead of it through the      *)
(* intake.  Source: channelix/admit.go, store/channel_interaction.go,      *)
(* httpapi/handlers_channel_interaction.go.                                *)
(*                                                                         *)
(* Posts name the account of the grant: one aimed elsewhere is refused     *)
(* without a trace.  A text is a value, and all posts have one subject.    *)
(***************************************************************************)
EXTENDS DeskContacts

CONSTANTS
    ChannelEvents,   \* event ids of the account
    Capabilities,    \* sets of capabilities a grant may be given
    Posts            \* what the connector may deliver

Holders == {"leads_bot", "matrix_bot", "human"}
Post == [event : ChannelEvents, need : {"comment.read", "message.read"}, text : STRING,
         sales : BOOLEAN, retracted : BOOLEAN, reply : BOOLEAN]

ASSUME ChannelAssumption == Posts \subseteq Post /\ ChannelEvents \cap Sources = {}

VARIABLES
    grants,         \* channel_grants of the account: at most one row
    floor,          \* channel_reply_floor: who may answer, "" when nobody has a row
    interactions,   \* channel_interactions, by event
    prospects,      \* channel_lead_candidates, by event
    withdrawn       \* events with a retraction that was stored (history)

channelVars == <<grants, floor, interactions, prospects, withdrawn>>

ChannelInit ==
    /\ grants \in {{}, {[can |-> {"comment.read", "reply"}, revoked |-> FALSE]}}
    /\ grants # {} => contacts = <<>> /\ \A i \in DOMAIN pool : pool[i].current = 0
    /\ floor = "" /\ interactions = <<>> /\ prospects = <<>> /\ withdrawn = {}

Put(table, key, row) == [k \in DOMAIN table \cup {key} |-> IF k = key THEN row ELSE table[k]]
Stored(table, key) == {table[k] : k \in DOMAIN table \cap {key}}

MayCreate == \E m \in Staff : Authorize(MemberOf(m), "create", FALSE)

-----------------------------------------------------------------------------
(* The grant and the floor.                                                *)

\* A later save keeps the revocation.
SaveChannelGrant(can) ==
    /\ AtOnce /\ MayCreate
    /\ grants' = {[can |-> can, revoked |-> \E g \in grants : g.revoked]}
    /\ UNCHANGED <<floor, interactions, prospects, withdrawn>>

RevokeChannelGrant ==
    /\ AtOnce /\ MayCreate
    /\ grants # {}
    /\ grants' = {[g EXCEPT !.revoked = TRUE] : g \in grants}
    /\ UNCHANGED <<floor, interactions, prospects, withdrawn>>

SetChannelFloor(holder) ==
    /\ AtOnce /\ MayCreate
    /\ floor' = holder
    /\ UNCHANGED <<grants, interactions, prospects, withdrawn>>

-----------------------------------------------------------------------------
(* A delivery (IngestChannelEvent).  Grant, earlier row and floor are read *)
(* one after the other; Admit decides on them, and a transaction stores.   *)

IngestChannelEvent(c, post) ==
    /\ MayCreate
    /\ \E g \in grants :
        /\ ~g.revoked /\ post.need \in g.can
        /\ Start(c, [op |-> "channel_prior", post |-> post, mayReply |-> "reply" \in g.can])
    /\ UNCHANGED channelVars

LoadChannelPrior(c) ==
    /\ At(c, "channel_prior")
    /\ Proceed(c, [op |-> "channel_floor", post |-> calls[c].post, mayReply |-> calls[c].mayReply,
                   prior |-> Stored(interactions, calls[c].post.event)])
    /\ UNCHANGED channelVars

LoadChannelFloor(c) ==
    /\ At(c, "channel_floor")
    /\ Proceed(c, [op |-> "channel_store", post |-> calls[c].post, prior |-> calls[c].prior,
                   takesFloor |-> calls[c].post.reply /\ calls[c].mayReply /\ floor = ""])
    /\ UNCHANGED channelVars

\* Admit
Creates(post, prior) == prior = {}
Updates(post, prior) == ~post.retracted /\ \E p \in prior : p.text # post.text
OpensCandidate(post, prior) ==
    /\ post.sales /\ ~post.retracted
    /\ Creates(post, prior) \/ Updates(post, prior)
    /\ \A p \in prior : ~p.candidate
WithdrawsCandidate(post, prior) == post.retracted /\ \E p \in prior : p.candidate /\ ~p.retracted

\* MUTANT of Edited: an edit is a new message.
EditedAnew(row, text) == [row EXCEPT !.text = text, !.retracted = FALSE]

\* The UPDATE leaves the retraction alone.
Edited(row, text) == [row EXCEPT !.text = text]

Received(post, prior) ==
    LET e == post.event
        row == IF Creates(post, prior) THEN [text |-> post.text, retracted |-> post.retracted, candidate |-> FALSE]
               ELSE IF Updates(post, prior) THEN Edited(interactions[e], post.text)
               ELSE [interactions[e] EXCEPT !.retracted = @ \/ post.retracted]
    IN  [row EXCEPT !.candidate = @ \/ OpensCandidate(post, prior)]

\* Event, prospect and floor have one row each: a twin that stored meanwhile,
\* or a floor set meanwhile, undoes the whole transaction.
Collides(call) ==
    \/ Creates(call.post, call.prior) /\ call.post.event \in DOMAIN interactions
    \/ OpensCandidate(call.post, call.prior) /\ call.post.event \in DOMAIN prospects
    \/ call.takesFloor /\ floor # ""

StoreChannelEvent(c) ==
    LET call == calls[c]
        e == call.post.event
    IN  /\ At(c, "channel_store") /\ Finish(c) /\ UNCHANGED grants
        /\ \/ Collides(call) /\ UNCHANGED <<floor, interactions, prospects, withdrawn>>
           \/ /\ ~Collides(call)
              /\ interactions' = Put(interactions, e, Received(call.post, call.prior))
              /\ prospects' =
                   IF OpensCandidate(call.post, call.prior) THEN Put(prospects, e, [status |-> "open", lead |-> 0])
                   ELSE IF WithdrawsCandidate(call.post, call.prior) /\ prospects[e].status = "open"
                        THEN Put(prospects, e, [prospects[e] EXCEPT !.status = "withdrawn"])
                   ELSE prospects
              /\ floor' = IF call.takesFloor THEN "leads_bot" ELSE floor
              /\ withdrawn' = IF call.post.retracted THEN withdrawn \cup {e} ELSE withdrawn

-----------------------------------------------------------------------------
(* Staff confirm a prospect (ConfirmChannelCandidate).                     *)

\* The grant is read right after the rows: a revocation in between refuses,
\* which looks like Abandon.  late: a retraction is stored already (history).
ConfirmChannelCandidate(c, e) ==
    /\ MayCreate
    /\ prospects[e].status = "open" /\ ~interactions[e].retracted
    /\ \A g \in grants : ~g.revoked
    /\ Start(c, [op |-> "channel_confirm", event |-> e, late |-> e \in withdrawn])
    /\ UNCHANGED <<forms, poolVars, deskVars, merges, channelVars>>

ChannelKey(e) == <<"channel", e>>

\* The phone of the channel is not passed on, nothing is allowed with it, and
\* the lead is assigned to no one.
\* Provenance is stored whether or not the lead is new.
ConfirmedInTx(c) ==
    LET e == calls[c].event
        key == ChannelKey(e)
        content == [phone |-> NoPhone, event |-> e]
        confirm(lead) ==
            prospects' = IF prospects[e].status = "open"
                         THEN Put(prospects, e, [status |-> "confirmed", lead |-> lead]) ELSE prospects
    IN  /\ At(c, "channel_confirm") /\ Finish(c)
        /\ sourceRefs' = Append(sourceRefs, key)
        /\ \/ \E o \in Original(key) :
                confirm(o.lead) /\ UNCHANGED <<poolVars, contacts, candidates, leads, ledger, consents, entitled>>
           \/ /\ FirstIntake(key, content, [phone |-> NoPhone, bad |-> {}, region |-> Anywhere], Len(sourceRefs'), FALSE)
              /\ consents' = Consented(IntakeContact(NoPhone), key, FALSE)
              /\ confirm(Len(leads'))
        /\ UNCHANGED <<forms, submissions, merges, grants, floor, interactions, withdrawn>>

ConfirmNext ==
    \E c \in Callers :
        \/ Free(c) /\ \E e \in DOMAIN prospects : ConfirmChannelCandidate(c, e)
        \/ ConfirmedInTx(c)

ChannelNext ==
    \/ \E c \in Callers :
        \/ Free(c) /\ \E post \in Posts : IngestChannelEvent(c, post)
        \/ LoadChannelPrior(c) \/ LoadChannelFloor(c) \/ StoreChannelEvent(c)
    \/ /\ Room
       /\ \/ \E can \in Capabilities : SaveChannelGrant(can)
          \/ RevokeChannelGrant
          \/ \E holder \in Holders : SetChannelFloor(holder)

-----------------------------------------------------------------------------
\* The lead of a comment is made by a confirmation that began before any
\* retraction of it was stored, in whatever order deliveries, edits and
\* retractions arrive; and a prospect that says it is confirmed names the lead
\* the intake holds for it.
RetractedMakesNoLead ==
    [][/\ \A d \in ledger' \ ledger, e \in ChannelEvents : d.key = ChannelKey(e) =>
            \E c \in Callers : At(c, "channel_confirm") /\ calls[c].event = e /\ ~calls[c].late
       /\ \A e \in DOMAIN prospects' : prospects'[e].status = "confirmed" =>
            \E d \in ledger' : d.key = ChannelKey(e) /\ d.lead = prospects'[e].lead
      ]_<<requestVars, deskVars, channelVars>>
=============================================================================
