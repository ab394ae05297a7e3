---------------------------- MODULE Permissions ----------------------------
(* The permission-to-role map that the API enforces and the portal reads.    *)
(* packages/permissions/src/index.ts                                         *)
ROLES == {"OWNER", "ADMIN", "MEMBER"}
MANAGERS == {"OWNER", "ADMIN"}
OWNER_ONLY == {"OWNER"}

PERMISSIONS == [
  org_read |-> ROLES, org_manage |-> OWNER_ONLY,
  member_read |-> ROLES, member_invite |-> MANAGERS, member_manage |-> MANAGERS,
  client_read |-> ROLES, client_write |-> MANAGERS,
  glink_read |-> ROLES, glink_write |-> MANAGERS,
  provisioning_read |-> ROLES, provisioning_write |-> MANAGERS,
  billing_manage |-> OWNER_ONLY]

\* Whoever has no role may do nothing.
can(role, permission) == role \in PERMISSIONS[permission]
=============================================================================
