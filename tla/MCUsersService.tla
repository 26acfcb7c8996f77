-------------------------- MODULE MCUsersService --------------------------
(* The seeded databases and the roles asked for in the runs over           *)
(* UsersService.  FullUsers is what seed.ts leaves, with one id for a user *)
(* to be created; SmallUsers keeps the owner, the manager and that id.     *)
EXTENDS UsersSerial, TLC

CONSTANTS owner, admin, boss, caller, exec, u1, t0, t1, t2, r1, r2

FullUsers == {owner, admin, boss, caller, exec, u1}
SmallUsers == {owner, boss, u1}
ThreeTeams == {t0, t1, t2}
TwoTeams == {t0, t1}
OneRequest == {r1}
TwoRequests == {r1, r2}
RequestSymmetry == Permutations(Requests)

SeededRole(u) ==
  CASE u = owner -> "OWNER"
    [] u = admin -> "ADMIN"
    [] u = boss -> "MANAGER"
    [] u = caller -> "TELECALLER"
    [] u = exec -> "SALES_EXEC"
    [] OTHER -> "unborn"

MCSeedRole == [u \in Users |-> SeededRole(u)]
MCSeedTeam == [u \in Users |-> IF u \in {caller, exec} THEN t0 ELSE None]
MCSeedManager == [t \in Teams |-> IF t = t0 THEN boss ELSE None]

AllRoles == Roles
TwoRoles == {"MANAGER", "SALES_EXEC"}
ThreeRoles == {"ADMIN", "MANAGER", "SALES_EXEC"}
=============================================================================
