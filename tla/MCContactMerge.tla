--------------------------- MODULE MCContactMerge ---------------------------
(***************************************************************************)
(* Instances of ContactMerge for TLC.                                      *)
(***************************************************************************)
EXTENDS ContactMerge, TLC

Symmetric == Permutations(Contacts \ Creative) \cup Permutations(Phones) \cup Permutations(Keys)

(***************************************************************************)
(* A tenant some requests later: every contact shares a phone, has a lead  *)
(* and one consent per key, and each pair is a pending candidate.  The     *)
(* contacts were created one after the other, the last one by an intake    *)
(* that found the others ambiguous, proposed every pair and made the last  *)
(* contact's lead.  The other leads were added next, one request each, and *)
(* then the consents, two instants each.  At most one contact has revoked. *)
(***************************************************************************)
n == Cardinality(Contacts)
nth == CHOOSE f \in [Contacts -> 1..n] : \A c, d \in Contacts : c # d => f[c] # f[d]
KeyNo == CHOOSE f \in [Keys -> 1..Cardinality(Keys)] : \A j, k \in Keys : j # k => f[j] # f[k]
LeadAt(c) == IF nth[c] = n THEN n ELSE n + nth[c]
ConsentAt(c, k) == (2 * n - 1) + 2 * ((KeyNo[k] - 1) * n + nth[c])
SeedClock == (2 * n - 1) + 2 * n * Cardinality(Keys) + 2

Seeded ==
    /\ clock = SeedClock
    /\ \E v \in Phones, gone \in {S \in SUBSET Contacts : Cardinality(S) <= 1} :
         /\ contacts = [c \in Contacts |-> [status |-> "live", updated |-> nth[c],
                          profile |-> [phone |-> v, coarse |-> "pending"]]]
         /\ records = {[id |-> LeadAt(c), table |-> "leads", contact |-> c, lead |-> NoLead] : c \in Contacts}
         /\ consents = {[id |-> ConsentAt(c, k), contact |-> c, key |-> k, marketing |-> TRUE,
                         revokedAt |-> IF c \in gone THEN SeedClock ELSE 0] : c \in Contacts, k \in Keys}
    /\ candidates = [p \in Pairs |-> [status |-> "pending", resolved |-> 0]]
    /\ merges = {} /\ calls = {}

SeededSpec == Seeded /\ [][Next]_vars
=============================================================================
