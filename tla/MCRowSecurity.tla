--------------------------- MODULE MCRowSecurity ---------------------------
(* Contexts for the runs over RowSecurity: the owner, a manager with its    *)
(* team and, as seeded, without one, and a telecaller of another team.      *)
EXTENDS RowSecurity, TLC

CONSTANTS owner, boss, caller, t1, t2, l1, k1, k2

MCUsers == {owner, boss, caller}
MCTeams == {t1, t2}
MCLeads == {l1}
MCConns == {k1, k2}
MCChildren == {"Activity", "Booking"}

MCContexts ==
  { [user |-> owner, role |-> "OWNER", team |-> Null],
    [user |-> boss, role |-> "MANAGER", team |-> t1],
    [user |-> boss, role |-> "MANAGER", team |-> Null],
    [user |-> caller, role |-> "TELECALLER", team |-> t2] }

ConnSymmetry == Permutations(Conns)
=============================================================================
