------------------------- MODULE MCServerConditions -------------------------
(***************************************************************************)
(* Small instances of ServerConditions for TLC: two or three names for the *)
(* sanitization claims.                                                    *)
(***************************************************************************)
EXTENDS ServerConditions, TLC

Names == Permutations(Ids)
=============================================================================
