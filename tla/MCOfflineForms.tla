-------------------------- MODULE MCOfflineForms --------------------------
(* Model values and symmetry for the runs over OfflineForms.               *)
EXTENDS OfflineForms, TLC

CONSTANTS c1, c2, f1, f2

TwoCalls == {c1, c2}
TwoForms == {f1, f2}
FormSymmetry == Permutations(Calls) \cup Permutations(Forms)
=============================================================================
