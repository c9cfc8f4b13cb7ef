-------------------------- MODULE ToolNamesProofs ---------------------------
(***************************************************************************)
(* Proofs about ToolNames: of whatever capabilities are listed, two get    *)
(* one name only if the normalized id of the later reads like the hashed   *)
(* name of the earlier, a name that was just listed resolves, and a name   *)
(* with a hash stays with the capabilities of these hash digits.           *)
(*                                                                         *)
(* Names are given in id order, each with a view to the names before it.   *)
(* The library's theorems on recursion and induction take operators as     *)
(* parameters, so both are argued here from the least number of a set.     *)
(***************************************************************************)
EXTENDS ToolNames, FiniteSetTheorems, WellFoundedInduction, TLAPS

-----------------------------------------------------------------------------
(* Recursion                                                               *)

\* A set of numbers that is not empty has a least one.
LEMMA LeastNumber ==
  ASSUME NEW S \in SUBSET Nat, S # {}
  PROVE  \E m \in S : \A n \in S : m <= n
<1>1. PICK m \in S : \A n \in S : ~(<<n, m>> \in OpToRel(<, Nat))
  BY NatLessThanWellFounded, WFMin
<1>2. ASSUME NEW n \in S PROVE m <= n
  <2>1. n < m => <<n, m>> \in OpToRel(<, Nat)
    <3>1. <<n, m>> \in Nat \X Nat /\ <<n, m>>[1] = n /\ <<n, m>>[2] = m
      OBVIOUS
    <3>2. QED
      BY <3>1, Zenon DEF OpToRel
  <2>2. ~(n < m)
    BY <1>1, <2>1, Zenon
  <2>3. QED
    BY <2>2
<1>3. QED
  BY <1>2

\* What the loop computes for one capability from the names given so far.
Rule(V, f, c) ==
  IF Ambiguous(c, V) THEN HashedToolName(c, {f[d] : d \in Before(c, V)}) ELSE base[c]

\* The capabilities that the loop has named before rank n.
Upto(V, n) == {c \in V : rank[c] < n}

\* The loop comes to the end of the capabilities.
LEMMA RanksBounded ==
  /\ Cardinality(Capability) \in Nat
  /\ \A c \in Capability : rank[c] \in Nat /\ rank[c] < Cardinality(Capability) + 1
<1>1. Cardinality(Capability) \in Nat
  BY NamesAssumption, FS_CardinalityType DEF WellNamed
<1>2. QED
  BY <1>1, NamesAssumption DEF WellNamed

\* For every n there is a function that follows the rule below n.
LEMMA RuleHasFunction ==
  ASSUME NEW V \in SUBSET Capability, NEW n \in Nat
  PROVE  \E f : f = [c \in Upto(V, n) |-> Rule(V, f, c)]
<1> DEFINE Good(k) == \E f : f = [c \in Upto(V, k) |-> Rule(V, f, c)]
           Bad == {k \in Nat : ~Good(k)}
<1>1. Good(0)
  <2>1. Upto(V, 0) = {}
    BY RanksBounded DEF Upto
  <2> DEFINE f == [c \in {} |-> None]
  <2>2. f = [c \in Upto(V, 0) |-> Rule(V, f, c)]
    BY <2>1
  <2>3. QED
    BY <2>2
<1>2. ASSUME NEW k \in Nat, Good(k) PROVE Good(k + 1)
  <2>1. PICK f : f = [c \in Upto(V, k) |-> Rule(V, f, c)]
    BY <1>2
  <2> DEFINE g == [c \in Upto(V, k + 1) |-> Rule(V, f, c)]
  <2>2. ASSUME NEW c \in Upto(V, k + 1) PROVE Rule(V, g, c) = Rule(V, f, c)
    <3>1. \A d \in Before(c, V) : d \in Upto(V, k) /\ d \in Upto(V, k + 1)
      BY <2>2, RanksBounded DEF Before, Upto
    <3>2. \A d \in Before(c, V) : g[d] = f[d]
      BY <2>1, <3>1
    <3>3. {g[d] : d \in Before(c, V)} = {f[d] : d \in Before(c, V)}
      BY <3>2
    <3>4. QED
      BY <3>3 DEF Rule
  <2>3. g = [c \in Upto(V, k + 1) |-> Rule(V, g, c)]
    BY <2>2
  <2>4. QED
    BY <2>3
<1>3. Bad = {}
  <2>. SUFFICES ASSUME Bad # {} PROVE FALSE
    OBVIOUS
  <2>1. PICK m \in Bad : \A k \in Bad : m <= k
    BY LeastNumber
  <2>2. m \in Nat /\ ~Good(m)
    OBVIOUS
  <2>3. m # 0
    BY <1>1, <2>2
  <2>4. m - 1 \in Nat /\ m - 1 < m /\ (m - 1) + 1 = m
    BY <2>2, <2>3
  <2>5. Good(m - 1)
    BY <2>1, <2>2, <2>4
  <2>6. Good((m - 1) + 1)
    BY <1>2, <2>4, <2>5
  <2>7. QED
    BY <2>2, <2>4, <2>6
<1>4. QED
  BY <1>3

\* The map of names follows the rule.
LEMMA NamesFollowRule ==
  ASSUME NEW V \in SUBSET Capability
  PROVE  \A c \in V : ToolNameMap(V)[c] = Rule(V, ToolNameMap(V), c)
<1>1. Upto(V, Cardinality(Capability) + 1) = V
  BY RanksBounded DEF Upto
<1>2. \E f : f = [c \in V |-> Rule(V, f, c)]
  BY <1>1, RanksBounded, RuleHasFunction
<1>3. ToolNameMap(V) = [c \in V |-> Rule(V, ToolNameMap(V), c)]
  BY <1>2 DEF ToolNameMap, Rule
<1>4. QED
  BY <1>3

-----------------------------------------------------------------------------
(* The names of a listing                                                  *)

\* A candidate that is chosen is one of the capability's and was not used.
LEMMA CandidateIsFree ==
  ASSUME NEW c \in Capability, NEW used, HashedToolName(c, used) # None
  PROVE  HashedToolName(c, used) \in Hashed(c) \ used
<1> DEFINE Free == {i \in DOMAIN hashed[c] : hashed[c][i] \notin used}
<1>1. DOMAIN hashed[c] \subseteq Nat
  BY NamesAssumption DEF WellNamed
<1>2. Free # {}
  BY DEF HashedToolName
<1>3. \E i \in Free : \A j \in Free : i <= j
  BY <1>1, <1>2, LeastNumber
<1>4. \E i \in Free : HashedToolName(c, used) = hashed[c][i]
  BY <1>2, <1>3 DEF HashedToolName
<1>5. QED
  BY <1>4 DEF Hashed, ToSet

\* An ambiguous capability gets a candidate that no name before it is, another
\* one its normalized id.
Fits(V, c) ==
  LET name == ToolNameMap(V)
  IN  IF Ambiguous(c, V)
      THEN name[c] \in Hashed(c) \ {name[d] : d \in Before(c, V)}
      ELSE name[c] = base[c]

\* Every capability of a listing gets a name of this form.
LEMMA NamesFit ==
  ASSUME NEW V \in SUBSET Capability, Complete(V), NEW c \in V
  PROVE  Fits(V, c)
<1> DEFINE name == ToolNameMap(V)
           used == {name[d] : d \in Before(c, V)}
<1>1. name[c] = Rule(V, name, c) /\ name[c] # None
  BY NamesFollowRule DEF Complete
<1>2. CASE ~Ambiguous(c, V)
  BY <1>1, <1>2 DEF Rule, Fits
<1>3. CASE Ambiguous(c, V)
  <2>1. name[c] = HashedToolName(c, used)
    BY <1>1, <1>3 DEF Rule
  <2>2. HashedToolName(c, used) \in Hashed(c) \ used
    BY <1>1, <2>1, CandidateIsFree
  <2>3. QED
    BY <1>3, <2>1, <2>2 DEF Fits
<1>4. QED
  BY <1>2, <1>3

\* Two visible capabilities get one name only if the later one poses.
LEMMA NamesDiffer ==
  ASSUME NEW V \in SUBSET Capability, Complete(V), NEW c \in V, NEW d \in V,
         ToolNameMap(V)[c] = ToolNameMap(V)[d], c # d
  PROVE  Poses(c, d) \/ Poses(d, c)
<1> DEFINE name == ToolNameMap(V)
<1>1. ASSUME NEW x \in V, NEW y \in V, rank[x] < rank[y], name[x] = name[y]
      PROVE  Poses(y, x)
  <2>1. Fits(V, x) /\ Fits(V, y) /\ x # y /\ x \in Before(y, V)
    BY <1>1, NamesFit, RanksBounded DEF Before
  <2>2. ~Ambiguous(y, V)
    BY <1>1, <2>1 DEF Fits
  <2>3. Ambiguous(x, V)
    BY <1>1, <2>1, <2>2 DEF Fits, Ambiguous
  <2>4. QED
    BY <1>1, <2>1, <2>2, <2>3 DEF Fits, Poses
<1>2. rank[c] \in Nat /\ rank[d] \in Nat /\ rank[c] # rank[d]
  BY RanksBounded, NamesAssumption DEF WellNamed
<1>3. QED
  BY <1>1, <1>2

-----------------------------------------------------------------------------
(* The invariant                                                           *)

\* A name is the normalized id of its capability or one of its candidates.
NameOf(p) == p[1] \in Capability /\ (p[2] = base[p[1]] \/ p[2] \in Hashed(p[1]))

\* Clients keep names that were once given, and after a listing those of now.
NamesInvariant ==
  /\ visible \subseteq Capability
  /\ \A p \in kept : NameOf(p)
  /\ fresh => Complete(visible) /\ kept = Pairs(visible)

\* A listing gives names of this form.
LEMMA ListedAreNames ==
  ASSUME NEW V \in SUBSET Capability, Complete(V), NEW p \in Pairs(V)
  PROVE  NameOf(p)
<1>1. PICK c \in V : p = <<c, ToolNameMap(V)[c]>>
  BY DEF Pairs
<1>2. Fits(V, c)
  BY NamesFit
<1>3. p[1] = c /\ p[2] = ToolNameMap(V)[c]
  BY <1>1
<1>4. QED
  BY <1>2, <1>3 DEF Fits, NameOf

\* Listing, calling and changes of what is visible keep that.
LEMMA NamesInvariantStep == NamesInvariant /\ [Next]_vars => NamesInvariant'
<1> SUFFICES ASSUME NamesInvariant, [Next]_vars PROVE NamesInvariant'
  OBVIOUS
<1> USE DEF NamesInvariant
<1>1. CASE List
  <2>1. kept' = Pairs(visible) /\ Complete(visible) /\ UNCHANGED visible
    BY <1>1 DEF List
  <2>2. \A p \in kept' : NameOf(p)
    BY <2>1, ListedAreNames
  <2>3. Pairs(visible)' = Pairs(visible) /\ Complete(visible)'
    BY <2>1 DEF Pairs, Complete
  <2>4. QED
    BY <2>1, <2>2, <2>3 DEF NameOf
<1>2. CASE Call
  BY <1>2 DEF Call, NameOf, Pairs, Complete
<1>3. CASE \E c \in Capability : Change(c)
  BY <1>3 DEF Change, NameOf
<1>4. CASE UNCHANGED vars
  BY <1>4 DEF vars, NameOf, Pairs, Complete
<1>5. QED
  BY <1>1, <1>2, <1>3, <1>4 DEF Next

\* What clients keep are names, and after a listing those of now.
THEOREM NamesInvariantHolds == Spec => []NamesInvariant
<1>1. Init => NamesInvariant
  BY DEF Init, NamesInvariant
<1>2. QED
  BY <1>1, NamesInvariantStep, PTL DEF Spec

\* A listing of any capabilities names each of them once, and two alike only
\* where the normalized id of the later reads like the hashed name of the earlier.
THEOREM ListingsAreUnambiguous == Spec => []NamesUnique
<1>1. ASSUME NamesInvariant, Complete(visible)
      PROVE  /\ {p[1] : p \in Pairs(visible)} = visible
             /\ \A p, q \in Pairs(visible) :
                  p[2] = q[2] => p = q \/ Poses(p[1], q[1]) \/ Poses(q[1], p[1])
  <2>1. {p[1] : p \in Pairs(visible)} = visible
    <3>1. \A c \in visible : <<c, ToolNameMap(visible)[c]>> \in Pairs(visible)
      BY DEF Pairs
    <3>2. \A p \in Pairs(visible) : p[1] \in visible
      BY DEF Pairs
    <3>3. \A c \in visible : \E p \in Pairs(visible) : p[1] = c
      <4>1. \A c \in visible : <<c, ToolNameMap(visible)[c]>>[1] = c
        OBVIOUS
      <4>2. QED
        BY <3>1, <4>1
    <3>4. QED
      BY <3>2, <3>3
  <2>2. ASSUME NEW p \in Pairs(visible), NEW q \in Pairs(visible), p[2] = q[2], p # q
        PROVE  Poses(p[1], q[1]) \/ Poses(q[1], p[1])
    <3>1. PICK c \in visible : p = <<c, ToolNameMap(visible)[c]>>
      BY DEF Pairs
    <3>2. PICK d \in visible : q = <<d, ToolNameMap(visible)[d]>>
      BY DEF Pairs
    <3>3. c # d /\ p[1] = c /\ q[1] = d
      BY <2>2, <3>1, <3>2
    <3>4. ToolNameMap(visible)[c] = ToolNameMap(visible)[d]
      BY <2>2, <3>1, <3>2
    <3>5. QED
      BY <1>1, <3>3, <3>4, NamesDiffer DEF NamesInvariant
  <2>3. QED
    BY <2>1, <2>2
<1>2. NamesInvariant => NamesUnique
  BY <1>1 DEF NamesUnique
<1>3. QED
  BY <1>2, NamesInvariantHolds, PTL

\* Some capability comes first in the order of ids.
LEMMA FirstByRank ==
  ASSUME NEW S \in SUBSET Capability, S # {}
  PROVE  \E c \in S : Before(c, S) = {}
<1> DEFINE R == {rank[c] : c \in S}
<1>1. R \in SUBSET Nat /\ R # {}
  BY RanksBounded
<1>2. PICK m \in R : \A n \in R : m <= n
  BY <1>1, LeastNumber
<1>3. PICK c \in S : rank[c] = m
  OBVIOUS
<1>4. \A d \in S : rank[d] \in Nat /\ rank[c] \in Nat /\ rank[c] <= rank[d]
  BY <1>2, <1>3, RanksBounded
<1>5. QED
  BY <1>4 DEF Before

\* A name resolves to the first visible capability that has it, or to none.
LEMMA ResolvedHasName ==
  ASSUME visible \subseteq Capability, NEW name
  PROVE  LET hits == {c \in visible : ToolNameMap(visible)[c] = name}
         IN  /\ hits # {} => Resolve(name) \in hits /\ Before(Resolve(name), hits) = {}
             /\ hits = {} => Resolve(name) = None
<1> DEFINE hits == {c \in visible : ToolNameMap(visible)[c] = name}
<1>1. hits # {} => \E c \in hits : Before(c, hits) = {}
  BY FirstByRank
<1>2. QED
  BY <1>1 DEF Resolve

\* While nothing has changed since the listing, every name on it runs the
\* capability it was listed for, or the earlier one which that one poses as.
THEOREM ListedNamesResolve == Spec => []ListedNamesWork
<1>1. ASSUME NamesInvariant PROVE ListedNamesWork
  <2>. SUFFICES ASSUME fresh, NEW p \in kept, Resolve(p[2]) # p[1]
                PROVE  Resolve(p[2]) \in {c \in Capability : Poses(p[1], c)}
    BY DEF ListedNamesWork
  <2>1. PICK c \in visible : p = <<c, ToolNameMap(visible)[c]>>
    BY <1>1 DEF NamesInvariant, Pairs
  <2>2. visible \subseteq Capability /\ Complete(visible)
    BY <1>1 DEF NamesInvariant
  <2> DEFINE hits == {d \in visible : ToolNameMap(visible)[d] = p[2]}
             r == Resolve(p[2])
  <2>3. c \in hits /\ p[1] = c
    BY <2>1
  <2>4. r \in hits /\ Before(r, hits) = {}
    BY <2>2, <2>3, ResolvedHasName
  <2>5. ToolNameMap(visible)[r] = ToolNameMap(visible)[c] /\ r \in visible /\ r # c
    BY <2>1, <2>3, <2>4
  <2>6. Poses(c, r) \/ Poses(r, c)
    BY <2>2, <2>5, NamesDiffer
  <2>7. ~(rank[c] < rank[r])
    BY <2>3, <2>4 DEF Before
  <2>8. r \in Capability /\ Poses(p[1], r)
    BY <2>2, <2>3, <2>5, <2>6, <2>7 DEF Poses
  <2>9. QED
    BY <2>8
<1>2. QED
  BY <1>1, NamesInvariantHolds, PTL

\* A kept name with a hash never runs a capability of other hash digits than
\* those of the capability it was listed for, whatever has changed in between.
THEOREM HashedNamesStay == Spec => HashedNamesNeverMove
<1> DEFINE A == \A c, d \in Capability :
                  (/\ call' # call /\ call'.kept = c /\ call'.ran = d
                   /\ digits[c] # digits[d]
                   /\ call'.name \notin {base[x] : x \in Capability})
                  => c = d
<1>1. NamesInvariant /\ [Next]_vars => [A]_vars
  <2>. SUFFICES ASSUME NamesInvariant, [Next]_vars,
                       NEW c \in Capability, NEW d \in Capability,
                       call' # call, call'.kept = c, call'.ran = d, digits[c] # digits[d],
                       call'.name \notin {base[x] : x \in Capability}
                PROVE  FALSE
    OBVIOUS
  <2>1. Call
    BY DEF Next, List, Change, vars
  <2>2. PICK p \in kept : call' = [name |-> p[2], kept |-> p[1], ran |-> Resolve(p[2])]
    BY <2>1 DEF Call
  <2>3. NameOf(p) /\ visible \subseteq Capability
    BY DEF NamesInvariant
  <2>4. p[1] = c /\ Resolve(p[2]) = d /\ \A x \in Capability : p[2] # base[x]
    BY <2>2
  <2>5. p[2] \in Hashed(c)
    BY <2>3, <2>4 DEF NameOf
  <2>6. d \in visible /\ ToolNameMap(visible)[d] = p[2] /\ Complete(visible)
    <3>1. d # None
      BY NamesAssumption DEF WellNamed
    <3>2. QED
      BY <2>1, <2>3, <2>4, <3>1, ResolvedHasName DEF Call
  <2>7. p[2] \in Hashed(d)
    BY <2>3, <2>4, <2>6, NamesFit DEF Fits
  <2>8. QED
    BY <2>5, <2>7, NamesAssumption DEF WellNamed
<1>2. QED
  BY <1>1, NamesInvariantHolds, PTL DEF Spec, HashedNamesNeverMove

=============================================================================
