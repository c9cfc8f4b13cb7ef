---------------------------- MODULE MCReconciler ----------------------------
(* A loop and an admin's request; the default route and one more.            *)
EXTENDS Reconciler
=============================================================================
