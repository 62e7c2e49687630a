-------------------------- MODULE MCRefreshSession --------------------------
(* Two tabs of one browser; the grace period is two units of time and the    *)
(* lifetime of a token three.                                                *)
EXTENDS RefreshSession, TLC

TabSymmetry == Permutations(Tabs)
=============================================================================
