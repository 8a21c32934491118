------------------------- MODULE MCPermissionRoutes -------------------------
(* An unbound client and one bound to the hook session.  A count of three  *)
(* needs three requests of one session.                                    *)
EXTENDS PermissionRoutes, TLC

CONSTANTS hook, sdk, u, b

MCBound == (u :> None) @@ (b :> hook)
Symmetry == Permutations(Requests)
============================================================================
