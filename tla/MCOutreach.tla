------------------------------ MODULE MCOutreach ------------------------------
(* Instances of Outreach for TLC. *)
EXTENDS Outreach, TLC

CONSTANTS ann, bob

\* Consents of ann to marketing calls and of both to follow-up by SMS.
Consent(contact, channel, purpose, marketing) ==
    [contact |-> contact, channel |-> channel, purpose |-> purpose, marketing |-> marketing]
Voice == Consent(ann, "voice", "marketing", TRUE)
Sms == Consent(ann, "sms", "follow_up", FALSE)
MCConsents == {Voice, Sms}

MCMessages == {[contact |-> ann, channel |-> "sms", purpose |-> "follow_up", consent |-> Sms, session |-> TRUE]}
MCScopes == {[channel |-> Unlimited, purpose |-> Unlimited]}
MCWindows == {WholeDay}
\* The first second of a day, outside the usual hours, and a working hour.
MCHours == <<0, 10>>

Offer(consent, mode) ==
    [op |-> "dial", contact |-> ann, consent |-> consent, mode |-> mode, session |-> TRUE, budget |-> TRUE]
MCOffers == {Offer(Voice, "isolation")}

MCCopies == {[scene |-> "opportunity", kind |-> "email", facts |-> {"title"}]}
MCSelections == {{"title"}, {"title", "price_cents"}}

Symmetric == Permutations(Callers)
=============================================================================
