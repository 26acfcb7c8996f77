----------------------------- MODULE MCWebTab -----------------------------
(* Users, pages and queries for the runs over WebTab.                      *)
EXTENDS WebTab

CONSTANTS manager, caller

TwoUsers == {manager, caller}
TheirRoles == [u \in TwoUsers |-> IF u = manager THEN "MANAGER" ELSE "TELECALLER"]
SomePaths == {"/", "/users"}
SomeQueries == {UsersQuery, [of |-> "leads", by |-> "first200"]}
OneQuery == {UsersQuery}
=============================================================================
