---------------------------- MODULE MCRehearsal -----------------------------
(* The demo's rows, with a second binding and secret to come, a role that    *)
(* has the demo's slug and too few permissions, and a foreign binding that   *)
(* takes the demo's slot.  Another workspace may have the capability's id.   *)
EXTENDS Rehearsal, TLC

CONSTANTS w1, w2, app1, app2, u1, c1, c2, r1, r2, r3, a1, b1, b2, b3, s1, s2

MCHome == [row \in Row |-> IF row \in {w2, app2, c2} THEN w2 ELSE w1]

MCAppOf == (c1 :> app1) @@ (c2 :> app2)

MCRisk == [c \in {c1, c2} |-> "read_only"]

MCAuthMode == [c \in {c1, c2} |-> "user"]

MCNeeded == {"capability.describe", "capability.invoke.read_only"}

MCPermissions == (r1 :> MCNeeded) @@ (r2 :> {"capability.describe"}) @@ (r3 :> MCNeeded)

Bind(r) == [agent |-> a1, user |-> u1, capability |-> c1, role |-> r]

MCBinds == (b1 :> Bind(r1)) @@ (b2 :> Bind(r1)) @@ (b3 :> Bind(r3))

MCHolds == [s \in {s1, s2} |-> [app |-> app1, owner |-> u1]]

MCNamed ==
  ("workspace" :> {w1}) @@ ("application" :> {app1}) @@ ("user" :> {u1}) @@
  ("capability" :> {c1, c2}) @@ ("role" :> {r1, r2}) @@ ("agent" :> {a1})

MCRank == [row \in Row |-> CASE row \in {b2, s2} -> 0 [] row \in {b1, s1} -> 1 [] OTHER -> 2]

\* A database of another workspace, which may come to have a capability of the
\* demo's id, one where somebody has bound the demo's agent and user, and one where
\* somebody has made a role of the demo's slug.
MCSeed ==
  {[row \in Row |-> IF row \in {w2, app2} THEN "active" ELSE "absent"],
   [row \in Row |-> IF row \in {r1, r2, b1, b2, s1, s2, w2, app2, c2} THEN "absent" ELSE "active"],
   [row \in Row |-> IF row \in {w1, r2} THEN "active" ELSE "absent"]}
=============================================================================
