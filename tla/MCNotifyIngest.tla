---------------------------- MODULE MCNotifyIngest ----------------------------
(* Instances of NotifyIngest for TLC. *)
EXTENDS NotifyIngest, TLC

CONSTANTS e, t1, t2, r1, r2, p1, x, y, touch, other, wild

MCSourceOf == [r \in Refs |-> e]
MCPhoneOf == [r \in Refs |-> p1]

Bind(app, t) == [app |-> app, external |-> e, target |-> t]

\* No list; one list sends the source to t1, one to t2 (another app's entry beside it is
\* no matter), one is refused as a whole.
MCBindings == {{}, {Bind(touch, t1)}, {Bind(touch, t2), Bind(other, t1)}, {Bind(touch, t1), Bind(wild, t2)}}

\* r1 was taken in by t1 before its source was recorded.
MCLegacy == {[type |-> Submitted, ref |-> r1, version |-> 1, issue |-> 1, content |-> y,
              tenant |-> t1, source |-> t1, basis |-> "legacy_stored_tenant"]}

MCProvisioned == {{t1, t2}, {e, t1}}

\* Of r1, version 1 is signed under two event ids that say different things and
\* version 2 under one that says both; r2 comes once of each type.
MCProduced(r, v) ==
    IF r = r2 THEN IF v = 1 THEN {<<1, x>>} ELSE {}
    ELSE IF v = 1 THEN {<<1, x>>, <<2, y>>} ELSE {<<1, x>>, <<1, y>>}

Symmetric == Permutations(Handlers)
=============================================================================
