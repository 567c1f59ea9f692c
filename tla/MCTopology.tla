------------------------------ MODULE MCTopology ------------------------------
(***************************************************************************)
(* Topology for TLC: two contents of the registry, which no part of the    *)
(* reconciler tells apart but by equality, and the bound on callbacks.     *)
(***************************************************************************)
EXTENDS Topology, TLC

CONSTANTS v1, v2  \* two configurations of a tenant

VersionSymmetry == Permutations({v1, v2})

(* Bound: while the reconcile callback of one tenantCtx runs, the other    *)
(* one has no callback.  Callbacks of two tenantCtx share no state before  *)
(* an onboarding is admitted.                                              *)
CallbacksOfOneTenant ==
  \A c \in Ctx : ctx[c].reconciling =>
    \A e \in Ctx \ {c} : ~ctx[e].reconciling /\ ctx[e].callback = "none"

=============================================================================
