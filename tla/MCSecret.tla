------------------------------ MODULE MCSecret ------------------------------
(* One capability per auth_mode and risk class that matters, two for each of *)
(* two users, with a user's and a workspace's secrets, while the application, *)
(* the agent with its token and the secrets change under a call.             *)
EXTENDS Invocation, TLC

CONSTANTS q1, w1, w2, app1, app2, a1, u1, u2, c1, c2, c3, c4, r1, b1, b2, b3, b4,
          s1, s2, s3, s4

MCHome == [x \in {w2, app2, s4} |-> w2] @@
          [x \in Row \ {w2, app2, s4} |-> w1]

MCAppOf == [c \in Capability |-> app1]

MCPermissions ==
  r1 :> {Describe, "capability.invoke.read_only", "capability.invoke.side_effect"}

Bind(u, c) == [agent |-> a1, user |-> u, capability |-> c, role |-> r1]

MCBinds == (b1 :> Bind(u1, c1)) @@ (b2 :> Bind(u2, c2)) @@ (b3 :> Bind(u1, c3)) @@
           (b4 :> Bind(u2, c4))

MCHolds == [s \in {s1, s2} |-> [app |-> app1, owner |-> u1]] @@
           (s3 :> [app |-> app1, owner |-> w1]) @@
           (s4 :> [app |-> app2, owner |-> w2])

MCRisk == (c1 :> "read_only") @@ (c2 :> "side_effect") @@ (c3 :> "draft") @@ (c4 :> "admin")

MCAuthMode == (c1 :> "user") @@ (c2 :> "system") @@ (c3 :> "admin") @@ (c4 :> "user+scope")

MCRank == (c1 :> 1) @@ (c2 :> 2) @@ (c3 :> 3) @@ (c4 :> 4)

MCBase == [c \in Capability |-> "read"]

MCHashed ==
  (c1 :> <<"read_aa">>) @@ (c2 :> <<"read_bb">>) @@ (c3 :> <<"read_cc">>) @@ (c4 :> <<"read_dd">>)

MCDigits == (c1 :> "aa") @@ (c2 :> "bb") @@ (c3 :> "cc") @@ (c4 :> "dd")

MCSeed == {[r \in Row |-> IF r = s2 THEN "absent" ELSE "active"]}
=============================================================================
