------------------------------ MODULE MCAdmin -------------------------------
(* Two admin requests over a workspace with competing bindings and secrets,  *)
(* a role to be created, and rows of a second workspace that do not fit.     *)
EXTENDS AdminApi, TLC

CONSTANTS p1, p2, w1, w2, app1, a1, u1, c1, r1, r2, r3, b1, b2, b3, s1, s2, s3,
          d1, x1

MCHome == [r \in Row |-> IF r \in {w2, r3} THEN w2 ELSE w1]

MCAppOf == c1 :> app1

MCPermissions == (r1 :> {}) @@ (r2 :> {d1, x1}) @@ (r3 :> {})

Bind(r) == [agent |-> a1, user |-> u1, capability |-> c1, role |-> r]

MCBinds == (b1 :> Bind(r1)) @@ (b2 :> Bind(r2)) @@ (b3 :> Bind(r3))

MCHolds == (s1 :> [app |-> app1, owner |-> u1]) @@ (s2 :> [app |-> app1, owner |-> u1])
             @@ (s3 :> [app |-> app1, owner |-> w1])

MCRisk == c1 :> "read_only"

MCAuthMode == c1 :> "user"

\* b2 names the role still to be created, b3 one of another workspace.
MCSeed ==
  {[r \in Row |-> IF r \in {r2, b2, b3, s2, s3} THEN "absent"
                  ELSE IF r \in off THEN "inactive" ELSE "active"] :
     off \in {{}, {a1, b1, s1}}}

MCSeedCodes == {{}, {x1}}

\* Callers are interchangeable.
CallerSymmetry == Permutations(Caller)
=============================================================================
