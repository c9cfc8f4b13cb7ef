--------------------------- MODULE RegistryProofs ---------------------------
(***************************************************************************)
(* What every sequence of committed admin transactions keeps, for all      *)
(* tables: the statuses have their type, references stay within a          *)
(* workspace, and the partial unique indexes hold.  The last two are each  *)
(* inductive together with the type invariant.                             *)
(***************************************************************************)
EXTENDS Registry, TLAPS

-----------------------------------------------------------------------------
(* Columns                                                                 *)

\* Competing for an index entry is symmetric.
LEMMA SameSlotSymmetric ==
  ASSUME NEW r, NEW s, SameSlot(r, s)
  PROVE  SameSlot(s, r)
  BY DEF SameSlot

\* Secrets of one slot are rows of one workspace with the same references.
LEMMA SameSlotSecrets ==
  ASSUME NEW r \in Secret, NEW s \in Secret, SameSlot(r, s)
  PROVE  home[r] = home[s] /\ References(r) = References(s)
  BY DisjointAssumption DEF SameSlot, References

\* Foreign keys name rows.
LEMMA ReferencesAreRows ==
  ASSUME NEW r \in Row
  PROVE  References(r) \subseteq Row
<1>1. r \in Capability => appOf[r] \in Row
  BY RowAssumption DEF Row
<1>2. r \in Binding => /\ binds[r].agent \in Row /\ binds[r].user \in Row
                       /\ binds[r].capability \in Row /\ binds[r].role \in Row
  BY RowAssumption DEF Row
<1>3. r \in Secret => holds[r].app \in Row /\ holds[r].owner \in Row
  BY RowAssumption DEF Row
<1>4. QED
  BY <1>1, <1>2, <1>3 DEF References

-----------------------------------------------------------------------------
(* Types                                                                   *)

\* A seed is well typed.
LEMMA RegistryInitType == Init => TypeOK
  BY RowAssumption, SeedAssumption DEF Init, TypeOK

\* A committed admin transaction leaves every row with a status.
LEMMA RegistryType == TypeOK /\ [Next]_registryVars => TypeOK'
<1> SUFFICES ASSUME TypeOK, [Next]_registryVars PROVE TypeOK'
  OBVIOUS
<1> USE RowAssumption DEF TypeOK, Status
<1>1. ASSUME NEW r \in Row, NEW st \in {"active", "inactive"},
             Create(r, st) \/ SetStatus(r, st)
      PROVE  TypeOK'
  BY <1>1 DEF Create, SetStatus
<1>2. ASSUME NEW old \in Secret, NEW new \in Secret, RotateSecret(old, new)
      PROVE  TypeOK'
  BY <1>2 DEF RotateSecret, Row
<1>3. ASSUME NEW a \in Agent, RotateToken(a)
      PROVE  TypeOK'
  BY <1>3 DEF RotateToken
<1>4. CASE UNCHANGED registryVars
  BY <1>4 DEF registryVars
<1>5. QED
  BY <1>1, <1>2, <1>3, <1>4 DEF Next

\* The tables stay well typed whatever admins do.
THEOREM RegistryTypeCorrect == Spec => []TypeOK
<1>1. QED
  BY RegistryInitType, RegistryType, PTL DEF Spec

-----------------------------------------------------------------------------
(* References                                                              *)

\* No admin transaction deletes a row.
LEMMA RowsStay ==
  ASSUME TypeOK, [Next]_registryVars, NEW r \in Row, Exists(r)
  PROVE  Exists(r)'
<1> USE DEF TypeOK, Status, Exists
<1>1. ASSUME NEW x \in Row, NEW st \in {"active", "inactive"},
             Create(x, st) \/ SetStatus(x, st)
      PROVE  Exists(r)'
  BY <1>1 DEF Create, SetStatus
<1>2. ASSUME NEW old \in Secret, NEW new \in Secret, RotateSecret(old, new)
      PROVE  Exists(r)'
  BY <1>2 DEF RotateSecret, Row
<1>3. ASSUME NEW a \in Agent, RotateToken(a)
      PROVE  Exists(r)'
  BY <1>3 DEF RotateToken
<1>4. CASE UNCHANGED registryVars
  BY <1>4 DEF registryVars
<1>5. QED
  BY <1>1, <1>2, <1>3, <1>4 DEF Next

\* A row appears in the workspace and beside the rows it refers to.
LEMMA RowsAppear ==
  ASSUME TypeOK, ReferencesStayHome, [Next]_registryVars,
         NEW r \in Row, ~Exists(r), Exists(r)'
  PROVE  /\ r \in Workspace \/ Exists(home[r])
         /\ \A p \in References(r) : Exists(p) /\ home[p] = home[r]
<1> DEFINE Placed == /\ r \in Workspace \/ Exists(home[r])
                     /\ \A p \in References(r) : Exists(p) /\ home[p] = home[r]
<1>1. ASSUME NEW x \in Row, NEW st \in {"active", "inactive"}, Create(x, st)
      PROVE  Placed
  <2>1. x = r
    BY <1>1 DEF Create, Exists, TypeOK
  <2>2. QED
    BY <1>1, <2>1 DEF Create, WellPlaced
<1>2. ASSUME NEW x \in Row, NEW st \in {"active", "inactive"}, SetStatus(x, st)
      PROVE  Placed
  BY <1>2 DEF SetStatus, Exists, TypeOK
<1>3. ASSUME NEW old \in Secret, NEW new \in Secret, RotateSecret(old, new)
      PROVE  Placed
  <2>1. r = new
    BY <1>3 DEF RotateSecret, Exists, TypeOK, Row
  <2>2. old \in Row /\ Exists(old)
    BY <1>3 DEF RotateSecret, Row
  <2>3. home[old] = home[r] /\ References(old) = References(r)
    BY <1>3, <2>1, SameSlotSecrets DEF RotateSecret
  <2>4. QED
    BY <2>2, <2>3 DEF ReferencesStayHome
<1>4. ASSUME NEW a \in Agent, RotateToken(a)
      PROVE  Placed
  BY <1>4 DEF RotateToken, Exists
<1>5. CASE UNCHANGED registryVars
  BY <1>5 DEF registryVars, Exists
<1>6. QED
  BY <1>1, <1>2, <1>3, <1>4, <1>5 DEF Next

\* A row once placed stays placed.
LEMMA ReferencesStep ==
  ASSUME TypeOK, ReferencesStayHome, [Next]_registryVars
  PROVE  ReferencesStayHome'
<1> SUFFICES ASSUME NEW r \in Row, Exists(r)'
             PROVE  /\ Exists(home[r])'
                    /\ \A p \in References(r) : Exists(p)' /\ home[p] = home[r]
  BY DEF ReferencesStayHome, References
<1>1. home[r] \in Row /\ References(r) \subseteq Row
  BY RowAssumption, ReferencesAreRows DEF Row
<1>2. r \in Workspace => home[r] = r
  BY RowAssumption
<1>3. /\ r \in Workspace \/ Exists(home[r])
      /\ \A p \in References(r) : Exists(p) /\ home[p] = home[r]
  BY RowsAppear DEF ReferencesStayHome
<1>4. QED
  BY <1>1, <1>2, <1>3, RowsStay

\* Initial rows refer to rows of their workspace.
LEMMA ReferencesInit == Init => ReferencesStayHome
  BY SeedAssumption DEF Init, ReferencesStayHome, Exists, References

\* Admin transactions never leave a row that refers to a missing row or to one
\* of another workspace, although foreign keys do not look at workspaces.
THEOREM RowsReferHome == Spec => []ReferencesStayHome
<1>1. QED
  BY RegistryInitType, RegistryType, ReferencesInit, ReferencesStep, PTL DEF Spec

-----------------------------------------------------------------------------
(* The unique indexes                                                      *)

\* A row that alone becomes active finds its slot free.
LEMMA ActivationKeepsSlots ==
  ASSUME OneActivePerSlot, NEW x \in Row, NEW Leaving,
         SlotFree(x, Leaving),
         \A r \in Row : Active(r)' => r = x \/ (Active(r) /\ r \notin Leaving)
  PROVE  OneActivePerSlot'
<1> SUFFICES ASSUME NEW r \in Row, NEW s \in Row, SameSlot(r, s), Active(r)', Active(s)'
             PROVE  r = s
  BY DEF OneActivePerSlot, SameSlot
<1>1. CASE r = x /\ s # x
  BY <1>1 DEF SlotFree
<1>2. CASE s = x /\ r # x
  BY <1>2, SameSlotSymmetric DEF SlotFree
<1>3. CASE r # x /\ s # x
  BY <1>3 DEF OneActivePerSlot
<1>4. QED
  BY <1>1, <1>2, <1>3

\* Where no row becomes active the slots are kept.
LEMMA NoActivationKeepsSlots ==
  ASSUME OneActivePerSlot, \A r \in Row : Active(r)' => Active(r)
  PROVE  OneActivePerSlot'
  BY DEF OneActivePerSlot, SameSlot

\* Every transaction checks the indexes for what it makes active.
LEMMA SlotStep ==
  ASSUME TypeOK, OneActivePerSlot, [Next]_registryVars
  PROVE  OneActivePerSlot'
<1> USE DEF TypeOK, Active
<1>1. ASSUME NEW x \in Row, NEW st \in {"active", "inactive"},
             Create(x, st) \/ SetStatus(x, st)
      PROVE  OneActivePerSlot'
  <2>1. CASE st = "active"
    <3>1. SlotFree(x, {})
      BY <1>1, <2>1 DEF Create, SetStatus
    <3>2. \A r \in Row : Active(r)' => r = x \/ (Active(r) /\ r \notin {})
      BY <1>1 DEF Create, SetStatus
    <3>3. QED
      BY <3>1, <3>2, ActivationKeepsSlots
  <2>2. CASE st = "inactive"
    <3>1. \A r \in Row : Active(r)' => Active(r)
      BY <1>1, <2>2 DEF Create, SetStatus
    <3>2. QED
      BY <3>1, NoActivationKeepsSlots
  <2>3. QED
    BY <2>1, <2>2
<1>2. ASSUME NEW old \in Secret, NEW new \in Secret, RotateSecret(old, new)
      PROVE  OneActivePerSlot'
  <2>1. SlotFree(new, {old}) /\ new \in Row /\ old # new
    BY <1>2 DEF RotateSecret, Row, Exists
  <2>2. \A r \in Row : Active(r)' => r = new \/ (Active(r) /\ r \notin {old})
    BY <1>2, <2>1 DEF RotateSecret
  <2>3. QED
    BY <2>1, <2>2, ActivationKeepsSlots
<1>3. ASSUME NEW a \in Agent, RotateToken(a)
      PROVE  OneActivePerSlot'
  <2>1. \A r \in Row : Active(r)' => Active(r)
    BY <1>3 DEF RotateToken
  <2>2. QED
    BY <2>1, NoActivationKeepsSlots
<1>4. CASE UNCHANGED registryVars
  <2>1. \A r \in Row : Active(r)' => Active(r)
    BY <1>4 DEF registryVars
  <2>2. QED
    BY <2>1, NoActivationKeepsSlots
<1>5. QED
  BY <1>1, <1>2, <1>3, <1>4 DEF Next

\* Initial rows collide in no index.
LEMMA SlotInit == Init => OneActivePerSlot
  BY SeedAssumption DEF Init, OneActivePerSlot, Active, SameSlot

\* The checks of the indexes at each commit keep at most one active binding and
\* secret per slot, for tables of any size.
THEOREM SlotsUnique == Spec => []OneActivePerSlot
<1>1. QED
  BY RegistryInitType, RegistryType, SlotInit, SlotStep, PTL DEF Spec

=============================================================================
