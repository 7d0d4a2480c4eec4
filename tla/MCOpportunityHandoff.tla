------------------------- MODULE MCOpportunityHandoff -------------------------
(* Instances of OpportunityHandoff for TLC. *)
EXTENDS OpportunityHandoff, TLC

CONSTANTS o, x, y, long

MCRoleOf == (o :> [role |-> "owner", enabled |-> TRUE, granted |-> TRUE])

Image == [ref |-> 8, name |-> "logo", digest |-> TRUE, size |-> 1, media |-> 9]

\* Two short texts that can be sent, and one that is too long for a document.
Short == [category |-> "", summary |-> 20, slug |-> "slug", budget |-> Absent, deadline |-> "absent", assets |-> <<>>]
Long == [category |-> "", summary |-> 240, slug |-> "slug", budget |-> 500, deadline |-> "date", assets |-> <<Image>>]
MCInputOf == (x :> Short) @@ (y :> Short) @@ (long :> Long)

Symmetric == Permutations(Callers) \cup Permutations({x, y})
=============================================================================
