-------------------------------- MODULE Authz --------------------------------
(***************************************************************************)
(* What a member of a tenant may do to a record of that tenant.            *)
(* Source: authz/authz.go and httpapi.requireAction.                       *)
(***************************************************************************)

Roles == {"owner", "sales", "agent"}
Everyones == {"create", "read_list"}
Records == {"read_record", "update"}
Owners == {"manage_members", "export", "delete", "merge", "manage_forms",
           "manage_assign_pool", "manage_reception", "manage_contact_tags"}

\* An agent acts for a tenant only while it holds that tenant's grant.
agentHasGrant(member) == member.role = "agent" => member.granted

\* mine: the record is assigned to the member.
Authorize(member, action, mine) ==
    /\ member.enabled /\ member.role \in Roles
    /\ \/ action \in Owners /\ member.role = "owner"
       \/ action \in Everyones /\ agentHasGrant(member)
       \/ action \in Records /\ agentHasGrant(member) /\ (member.role = "owner" \/ mine)
=============================================================================
