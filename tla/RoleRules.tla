----------------------------- MODULE RoleRules -----------------------------
(***************************************************************************)
(* The role hierarchy of apps/backend/src/users/roles.ts: who may create a *)
(* user with a role, and who may change a user's role into another.  Both  *)
(* assertions throw in the code; here they are predicates.                 *)
(***************************************************************************)
EXTENDS Naturals

Roles == {"OWNER", "ADMIN", "MANAGER", "TELECALLER", "SALES_EXEC"}

Staff == {"TELECALLER", "SALES_EXEC"}

RANK == [OWNER |-> 4, ADMIN |-> 3, MANAGER |-> 2, TELECALLER |-> 1, SALES_EXEC |-> 1]

Outranks(actor, target) == RANK[actor] > RANK[target]

\* Faulty variants stand next to the definition they vary: each shows that a
\* property of UsersService can fail.  This one forgets the rank of the actor.
CanCreateUnranked(actor, targetRole) == targetRole # "OWNER"

\* assertCanCreateRole
CanCreate(actor, targetRole) ==
  /\ targetRole # "OWNER"
  /\ Outranks(actor, targetRole)

\* Faulty: looks at the new role only.
CanChangeNewRoleOnly(actor, targetRole, newRole) ==
  /\ newRole # "OWNER"
  /\ Outranks(actor, newRole)

\* assertCanChangeRole
CanChange(actor, targetRole, newRole) ==
  /\ newRole # "OWNER" /\ targetRole # "OWNER"
  /\ Outranks(actor, targetRole)
  /\ Outranks(actor, newRole)

=============================================================================
