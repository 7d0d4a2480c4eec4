----------------------------- MODULE ReachContext -----------------------------
(***************************************************************************)
(* What reaching out to a contact depends on besides its own tables: the   *)
(* hour, the consents, whether staff hold the session.  Time is a sequence *)
(* of instants, Len(Hours) to a day.  Source: store/sop_reach.go (window   *)
(* and day), store/contact_profile.go and store/reception.go as writers.   *)
(***************************************************************************)
EXTENDS Requests, Sequences

CONSTANTS
    Contacts,
    Consents,    \* contact, channel and purpose of each consent; marketing allowed or not
    NoConsent,
    Hours,       \* hours of the instants of a day
    Opening      \* how many of them lie in the day's first second, past midnight

ASSUME ContextAssumption ==
    /\ Consents \subseteq [contact : Contacts, channel : STRING, purpose : STRING, marketing : BOOLEAN]
    /\ NoConsent \notin Consents
    /\ Hours \in Seq(0..23) /\ Hours # <<>>
    /\ Opening \in 0..Len(Hours) /\ \A i \in 1..Opening : Hours[i] = 0

VARIABLES
    clock,       \* instants passed
    revoked,     \* consents revoked
    held         \* staff hold the contact's session

contextVars == <<clock, revoked, held>>

Hour == Hours[(clock % Len(Hours)) + 1]

\* ShanghaiDayStart: midnight is 16:00:00Z, as text.
Today == clock \div Len(Hours)

\* now: an instant of the first second, 16:00:00.5Z, sorts before its midnight.
FirstSecond == clock % Len(Hours) < Opening

Window == [start : 0..24, end : 0..24]
WholeDay == [start |-> 0, end |-> 24]
DefaultWindow == [start |-> 9, end |-> 20]

\* validSOPWindow
Valid(window) == window.start < window.end

InsideWindow(window) ==
    \/ window = WholeDay
    \/ window.start < window.end /\ Hour >= window.start /\ Hour < window.end

Good(consent) == consent # NoConsent /\ consent \notin revoked

-----------------------------------------------------------------------------
ContextInit == clock \in 0..(Len(Hours) - 1) /\ revoked = {} /\ held = FALSE

TimePasses == AtOnce /\ clock' = clock + 1 /\ UNCHANGED <<revoked, held>>

\* RevokeContactConsent; a revocation is not taken back.
RevokeConsent(consent) ==
    /\ AtOnce
    /\ consent \notin revoked /\ revoked' = revoked \cup {consent}
    /\ UNCHANGED <<clock, held>>

\* A takeover or a release of the reception session.
SwitchSession == AtOnce /\ held' = ~held /\ UNCHANGED <<clock, revoked>>

ContextNext ==
    \/ TimePasses
    \/ \E consent \in Consents : RevokeConsent(consent)
    \/ SwitchSession
=============================================================================
