---------------------------- MODULE MCResources ----------------------------
(* Instances of Resources for TLC: two Servers of a BMC; two versions; two  *)
(* groups of settings, the second of which needs no restart, and specs that *)
(* may come to ask for less, or for a value the hardware refuses.           *)
EXTENDS Resources

CONSTANTS s1, s2, v1, v2, a, b, c

TwoGroups == <<b, b>>
AllInstalled == <<a, a>>
FewerGroups == {TwoGroups, <<c>>}
RefusedGroup == {TwoGroups, <<c, b>>}
=============================================================================
