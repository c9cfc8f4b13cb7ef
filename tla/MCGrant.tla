------------------------------ MODULE MCGrant -------------------------------
(* One workspace in full: two competing bindings and two secrets of one slot, *)
(* a second capability whose id normalizes to the same tool name and whose    *)
(* binding comes and goes, and what a second workspace lends to confuse the   *)
(* joins.                                                                     *)
EXTENDS Invocation, TLC

CONSTANTS q1, w1, w2, app1, a1, u1, u2, c1, c2, r1, r2, b1, b2, b3, s1, s2

MCHome == (w1 :> w1) @@ (w2 :> w2) @@ (u2 :> w2) @@
          [x \in {app1, a1, u1, c1, c2, r1, r2, b1, b2, b3, s1, s2} |-> w1]

MCAppOf == [c \in Capability |-> app1]

MCPermissions ==
  (r1 :> {Describe, "capability.invoke.read_only"}) @@ (r2 :> {Describe})

MCBinds ==
  (b1 :> [agent |-> a1, user |-> u1, capability |-> c1, role |-> r1]) @@
  (b2 :> [agent |-> a1, user |-> u1, capability |-> c1, role |-> r2]) @@
  (b3 :> [agent |-> a1, user |-> u1, capability |-> c2, role |-> r1])

MCHolds == [s \in {s1, s2} |-> [app |-> app1, owner |-> u1]]

MCRisk == [c \in Capability |-> "read_only"]

MCAuthMode == [c \in Capability |-> "user"]

MCRank == (c1 :> 1) @@ (c2 :> 2)

MCBase == [c \in Capability |-> "search"]

MCHashed == (c1 :> <<"search_aa">>) @@ (c2 :> <<"search_bb">>)

MCDigits == (c1 :> "aa") @@ (c2 :> "bb")

\* Everything in place; the second binding of c1, that of c2 and the second
\* secret to come.
MCSeed == {[r \in Row |-> IF r \in {b2, b3, s2} THEN "absent" ELSE "active"]}
=============================================================================
