----------------------------- MODULE MCLiveLoop -----------------------------
(***************************************************************************)
(* TLC instances of LiveLoop: dashboards are model values, quantities one  *)
(* contract either way.                                                    *)
(***************************************************************************)
EXTENDS LiveLoop, TLC

UnitQty == {-1, 1}
DashSymmetry == Permutations(Dash)
=============================================================================
