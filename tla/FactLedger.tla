------------------------------ MODULE FactLedger ------------------------------
(***************************************************************************)
(* What the notify receiver promises, without its inbox, lookups, fetches  *)
(* and retries: one register per fact whose version only climbs and whose  *)
(* content never changes under a version, and one permission per source    *)
(* reference to market to its contact, which only a submission of that     *)
(* reference can give and which a revocation takes for ever.               *)
(***************************************************************************)
EXTENDS Naturals

CONSTANTS
    Refs,      \* source references
    Types,     \* types of event, each a register of its own
    Contents   \* what an event says

VARIABLES
    facts,      \* accepted facts: type, ref, version, content
    revoked,    \* references revoked
    marketable  \* references with a marketing consent in force

lvars == <<facts, revoked, marketable>>

Init ==
    /\ facts \in SUBSET [type : Types, ref : Refs, version : Nat, content : Contents]
    /\ \A f, g \in facts : f.type = g.type /\ f.ref = g.ref => f = g
    /\ revoked \subseteq Refs
    /\ marketable \subseteq Refs \ revoked

\* The register of a fact moves up.
Climb(f) ==
    LET kept == {g \in facts : g.type # f.type \/ g.ref # f.ref}
    IN  /\ \A g \in facts \ kept : g.version < f.version
        /\ facts' = kept \cup {f}

\* A submission may give its own reference the permission, no other.
Submit(f) ==
    /\ Climb(f)
    /\ UNCHANGED revoked
    /\ marketable' \subseteq marketable \cup ({f.ref} \ revoked)

Revoke(f) ==
    /\ Climb(f)
    /\ revoked' = revoked \cup {f.ref}
    /\ marketable' \subseteq marketable \ {f.ref}

Next == \E f \in facts' : Submit(f) \/ Revoke(f)

Spec == Init /\ [][Next]_lvars
=============================================================================
