------------------------------- MODULE TenantMap -------------------------------
(***************************************************************************)
(* Which local tenant a notification of an outside tenant belongs to.      *)
(* Source: tenantmap/map.go.  Pure: the operator list (bindings), what the *)
(* inbox already recorded (sticky) and the provisioned tenants go in, a    *)
(* target or a refusal comes out.  A source is an app; its name space is   *)
(* always "notify", so it goes with the app.  Versions of a binding are    *)
(* recorded and decide nothing: they are left out.                         *)
(*                                                                         *)
(* An operator marked MUTANT is no part of the model.  It is the operator  *)
(* below it with a plausible bug, kept to see a property catch that bug.   *)
(***************************************************************************)
EXTENDS Naturals

CONSTANTS
    Apps,      \* registered source apps
    Wildcard,  \* a binding given without an app
    Tenants    \* tenant ids: outside ones and local ones share the name space

ASSUME WildcardAssumption == Wildcard \notin Apps

Bases == {"operator_binding", "leads_primary_key", "legacy_stored_tenant"}

Binding == [app : Apps \cup {Wildcard}, external : Tenants, target : Tenants]

-----------------------------------------------------------------------------
overlaps(a, b) ==
    /\ a.external = b.external
    /\ a.app = b.app \/ Wildcard \in {a.app, b.app}

\* Parse: one invalid, duplicate or overlapping entry drops the whole list.
Problem(list) ==
    \/ \E b \in list : b.external = b.target
    \/ \E a, b \in list : a # b /\ overlaps(a, b)

-----------------------------------------------------------------------------
\* What the inbox says of a source: nothing, one target, or more than one.
Sticky == [found : {FALSE}] \cup [found : {TRUE}, targets : SUBSET Tenants, basis : Bases]

Ambiguous(sticky) == sticky.found /\ \E s, t \in sticky.targets : s # t

Refused(kind) == [ok |-> FALSE, kind |-> kind]
Target(tenant, basis) == [ok |-> TRUE, tenant |-> tenant, basis |-> basis]

selectBinding(app, external, bindings) ==
    {b \in bindings : b.external = external /\ b.app \in {app, Wildcard}}

\* A source that has rows keeps their target, whatever is configured now.
ResolveStored(external, chosen, stored, basis, tenants) ==
    IF \E b \in chosen : b.target # stored THEN Refused("conflict")
    ELSE IF chosen # {} /\ stored \notin tenants THEN Refused("target_missing")
    ELSE IF chosen = {} /\ stored # external THEN Refused("conflict")
    ELSE Target(stored, IF chosen = {} THEN basis ELSE "operator_binding")

\* A source with no rows: by its binding, or to the tenant of the same id.
ResolveFresh(external, chosen, tenants) ==
    IF chosen = {}
      THEN IF external \in tenants THEN Target(external, "leads_primary_key") ELSE Refused("unknown")
      ELSE LET b == CHOOSE b \in chosen : TRUE
           IN  IF b.target \notin tenants THEN Refused("target_missing")
               ELSE IF external \in tenants THEN Refused("conflict")
               ELSE Target(b.target, "operator_binding")

Resolve(app, external, bindings, sticky, tenants) ==
    LET chosen == selectBinding(app, external, bindings)
    IN  IF Ambiguous(sticky) THEN Refused("conflict")
        ELSE IF \E a, b \in chosen : a # b THEN Refused("config")
        ELSE IF sticky.found
               THEN ResolveStored(external, chosen, CHOOSE t \in sticky.targets : TRUE, sticky.basis, tenants)
               ELSE ResolveFresh(external, chosen, tenants)
=============================================================================
