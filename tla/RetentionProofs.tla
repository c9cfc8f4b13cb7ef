-------------------------- MODULE RetentionProofs ---------------------------
(***************************************************************************)
(* Purges are atomic, for any number of runs of the command and of         *)
(* recording transactions, any retention times longer than a transaction,  *)
(* and however the statements of the sessions interleave.                  *)
(***************************************************************************)
EXTENDS Retention, FiniteSetTheorems, TLAPS

-----------------------------------------------------------------------------
(* Tables                                                                  *)

\* A run deals with the audit rows first.
LEMMA TableAt ==
  ASSUME NEW p \in Purger, at[p] \in 1 .. 2
  PROVE  /\ at[p] = 1 => Table(p) = "audit"
         /\ at[p] = 2 => Table(p) = "usage"
         /\ Table(p) \in Kind
  BY DEF Table, Order, Kind

\* The tables a run has passed.
LEMMA PassedAt ==
  ASSUME NEW p \in Purger, at[p] \in 1 .. 2, NEW k \in Kind
  PROVE  Passed(p, k) <=> \/ stage[p] = "commit"
                          \/ stage[p] \in {"count", "delete"} /\ at[p] = 2 /\ k = "audit"
<1>1. \A i \in 1 .. 2 : i < at[p] <=> i = 1 /\ at[p] = 2
  OBVIOUS
<1>2. Order(p)[1] = "audit"
  BY DEF Order
<1>3. QED
  BY <1>1, <1>2 DEF Passed

\* An entry names its table.
LEMMA EntryKind == ASSUME NEW e \in Entry PROVE e[1] \in Writer /\ e[2] \in Kind
  BY DEF Entry

-----------------------------------------------------------------------------
(* The invariant                                                           *)

\* Nothing is recorded yet and no run has begun.
LEMMA RetentionInit == Init => RetentionInvariant
<1> SUFFICES ASSUME Init PROVE RetentionInvariant
  OBVIOUS
<1>1. TypeOK
  BY RetentionAssumption DEF Init, TypeOK, Kind
<1>2. Timely
  BY RetentionAssumption DEF Init, Timely
<1>3. Settled
  BY DEF Init, Settled, Running, Passed
<1>4. QED
  BY <1>1, <1>2, <1>3 DEF RetentionInvariant

Stage == {"idle", "count", "delete", "commit", "done", "failed"}

\* Proceed goes from a table to the next or to the end of the session.
LEMMA ProceedType ==
  ASSUME NEW p \in Purger, stage \in [Purger -> Stage], at \in [Purger -> 1 .. 2],
         Proceed(p)
  PROVE  stage' \in [Purger -> Stage] /\ at' \in [Purger -> 1 .. 2]
<1>1. CASE at[p] = 1
  BY <1>1 DEF Proceed, Stage
<1>2. CASE at[p] = 2
  BY <1>2 DEF Proceed, Stage
<1>3. QED
  BY <1>1, <1>2 DEF Proceed

\* Every statement leaves the session of the declared shape; a count is a
\* number because there are finitely many recording transactions.
LEMMA RetentionType == TypeOK /\ [Next]_vars => TypeOK'
<1> SUFFICES ASSUME TypeOK, [Next]_vars PROVE TypeOK'
  OBVIOUS
<1> USE DEF TypeOK
<1>1. CASE Tick
  BY <1>1, RetentionAssumption DEF Tick, writerVars, purgeVars
<1>2. ASSUME NEW w \in Writer, Insert(w) \/ Record(w) \/ Discard(w) PROVE TypeOK'
  <2>1. CASE Insert(w)
    BY <2>1, RetentionAssumption DEF Insert, purgeVars
  <2>2. CASE Record(w)
    BY <2>2, RetentionAssumption DEF Record, purgeVars
  <2>3. CASE Discard(w)
    BY <2>3, RetentionAssumption DEF Discard, purgeVars
  <2>4. QED
    BY <1>2, <2>1, <2>2, <2>3
<1>3. ASSUME NEW p \in Purger, Start(p) \/ Statement(p) \/ Fail(p) PROVE TypeOK'
  <2>1. CASE Start(p)
    BY <2>1 DEF Start, Goto, writerVars
  <2>2. CASE Count(p)
    <3>1. IsFiniteSet(Expired(Table(p), start[p]))
      <4>1. IsFiniteSet(Kind)
        <5>1. Kind = {"audit"} \cup {"usage"}
          BY DEF Kind
        <5>2. QED
          BY <5>1, FS_Singleton, FS_AddElement
      <4>2. IsFiniteSet(Writer \X Kind)
        BY <4>1, RetentionAssumption, FS_Product
      <4>3. Expired(Table(p), start[p]) \subseteq Writer \X Kind
        BY DEF Expired, Entry
      <4>4. QED
        BY <4>2, <4>3, FS_Subset
    <3>2. Cardinality(Expired(Table(p), start[p])) \in Nat
      BY <3>1, FS_CardinalityType
    <3>3. Table(p) \in Kind
      BY TableAt
    <3>4. matches' \in [Purger -> [Kind -> Nat]]
      BY <2>2, <3>2, <3>3 DEF Count
    <3>5. /\ stage' \in [Purger -> {"idle", "count", "delete", "commit", "done", "failed"}]
          /\ at' \in [Purger -> 1 .. 2]
      <4>1. CASE Proceed(p)
        BY <4>1, ProceedType DEF Stage
      <4>2. CASE Goto(p, "count", "delete") /\ UNCHANGED at
        BY <4>2 DEF Goto
      <4>3. QED
        BY <2>2, <4>1, <4>2 DEF Count
    <3>6. QED
      BY <2>2, <3>4, <3>5 DEF Count, writerVars
  <2>3. CASE Delete(p)
    <3>1. Expired(Table(p), start[p]) \subseteq Entry
      BY DEF Expired
    <3>2. /\ stage' \in [Purger -> {"idle", "count", "delete", "commit", "done", "failed"}]
          /\ at' \in [Purger -> 1 .. 2]
      BY <2>3, ProceedType DEF Delete, Stage
    <3>3. doomed' \in [Purger -> SUBSET Entry]
      BY <2>3, <3>1 DEF Delete
    <3>4. QED
      BY <2>3, <3>2, <3>3 DEF Delete, writerVars
  <2>4. CASE Finish(p)
    <3>1. stage' \in [Purger -> {"idle", "count", "delete", "commit", "done", "failed"}]
      BY <2>4 DEF Finish
    <3>2. at' \in [Purger -> 1 .. 2] /\ start' \in [Purger -> 0 .. MaxClock]
      BY <2>4, RetentionAssumption DEF Finish, Close
    <3>3. doomed' \in [Purger -> SUBSET Entry] /\ gone' \in [Purger -> SUBSET Entry]
      BY <2>4 DEF Finish, Close
    <3>4. QED
      BY <2>4, <3>1, <3>2, <3>3 DEF Finish, Close, writerVars
  <2>5. CASE Fail(p)
    <3>1. at' \in [Purger -> 1 .. 2] /\ start' \in [Purger -> 0 .. MaxClock]
      BY <2>5, RetentionAssumption DEF Fail, Close
    <3>2. doomed' \in [Purger -> SUBSET Entry] /\ matches' \in [Purger -> [Kind -> Nat]]
      BY <2>5 DEF Fail, Close
    <3>3. QED
      BY <2>5, <3>1, <3>2 DEF Fail, Close, writerVars
  <2>6. QED
    BY <1>3, <2>1, <2>2, <2>3, <2>4, <2>5 DEF Statement
<1>4. CASE UNCHANGED vars
  BY <1>4 DEF vars, writerVars, purgeVars
<1>5. QED
  BY <1>1, <1>2, <1>3, <1>4 DEF Next

\* The clock waits for open transactions, so they stay young.
LEMMA RetentionTimely == TypeOK /\ Timely /\ [Next]_vars => Timely'
<1> SUFFICES ASSUME TypeOK, Timely, [Next]_vars PROVE Timely'
  OBVIOUS
<1> USE RetentionAssumption DEF TypeOK, Timely
<1>1. CASE Tick
  BY <1>1 DEF Tick, writerVars, purgeVars
<1>2. ASSUME NEW w \in Writer, Insert(w) PROVE Timely'
  BY <1>2 DEF Insert, purgeVars
<1>3. ASSUME NEW w \in Writer, Record(w) PROVE Timely'
  BY <1>3 DEF Record, purgeVars
<1>4. ASSUME NEW w \in Writer, Discard(w) PROVE Timely'
  BY <1>4 DEF Discard, purgeVars
<1>5. ASSUME NEW p \in Purger, Start(p) PROVE Timely'
  BY <1>5 DEF Start, writerVars
<1>6. ASSUME NEW p \in Purger, Count(p) \/ Delete(p) PROVE Timely'
  BY <1>6 DEF Count, Delete, writerVars
<1>7. ASSUME NEW p \in Purger, Finish(p) \/ Fail(p) PROVE Timely'
  <2>1. UNCHANGED <<clock, phase, stamp>> /\ rows' \subseteq rows
    BY <1>7 DEF Finish, Fail, Close, writerVars
  <2>2. start' = [start EXCEPT ![p] = 0]
    BY <1>7 DEF Finish, Fail, Close
  <2>3. 0 <= clock
    OBVIOUS
  <2>4. \A q \in Purger : start'[q] <= clock
    BY <2>2, <2>3
  <2>5. QED
    BY <2>1, <2>4
<1>8. CASE UNCHANGED vars
  BY <1>8 DEF vars, writerVars, purgeVars
<1>9. QED
  BY <1>1, <1>2, <1>3, <1>4, <1>5, <1>6, <1>7, <1>8 DEF Next, Statement

\* The lock sets of a run that is untouched by a step keep what Settled says of
\* them as long as rows older than its cutoff do not appear.
HoldsOf(p) ==
  /\ ~Running(p) \/ dry[p] => doomed[p] = {}
  /\ stage[p] = "idle" => at[p] = 1
  /\ stage[p] = "delete" => ~dry[p]
  /\ \A e \in doomed[p] : e \in Expired(e[2], start[p]) /\ Passed(p, e[2])
  /\ \A k \in Kind : Passed(p, k) /\ ~dry[p] => Expired(k, start[p]) \subseteq doomed[p]

\* Settled, run by run and pair by pair.
LEMMA SettledParts ==
  Settled <=> /\ \A p \in Purger : HoldsOf(p)
              /\ \A p \in Purger : \A q \in Purger \ {p} : doomed[p] \cap doomed[q] = {}
  BY DEF Settled, HoldsOf

\* A run that is not at work, and one whose variables stay while the rows older
\* than its cutoff stay, keep HoldsOf.
LEMMA HoldsKept ==
  ASSUME NEW p \in Purger, TypeOK, HoldsOf(p),
         stage'[p] = stage[p], at'[p] = at[p], dry'[p] = dry[p],
         start'[p] = start[p], doomed'[p] = doomed[p],
         \A k \in Kind : /\ Expired(k, start[p])' \subseteq Expired(k, start[p])
                         /\ doomed[p] \cap Expired(k, start[p]) \subseteq Expired(k, start[p])'
  PROVE  HoldsOf(p)'
<1>1. \A k \in Kind : Passed(p, k)' <=> Passed(p, k)
  BY DEF Passed, Order
<1>2. Running(p)' <=> Running(p)
  BY DEF Running
<1>3. \A e \in doomed[p] : e[2] \in Kind
  BY EntryKind DEF TypeOK
<1>4. QED
  BY <1>1, <1>2, <1>3 DEF HoldsOf

\* Recording never makes a row older than a cutoff that is in use.
LEMMA RecordingKeepsExpired ==
  ASSUME NEW w \in Writer, TypeOK, Timely, Insert(w) \/ Record(w) \/ Discard(w),
         NEW p \in Purger, NEW k \in Kind
  PROVE  Expired(k, start[p])' = Expired(k, start[p])
<1> USE RetentionAssumption DEF TypeOK, Timely
<1>1. CASE Insert(w)
  <2>1. \A e \in rows : e[1] # w /\ e[1] \in Writer
    BY <1>1, EntryKind DEF Insert
  <2>2. \A e \in rows : stamp'[e[1]] = stamp[e[1]]
    BY <1>1, <2>1 DEF Insert
  <2>3. QED
    BY <1>1, <2>2 DEF Expired, Insert, purgeVars
<1>2. CASE Record(w)
  <2>1. ASSUME NEW e \in Entry, e[1] = w
        PROVE  ~(e[2] = k /\ stamp[e[1]] + Days[k] < start[p])
    <3>1. clock <= stamp[w] + Lag /\ start[p] <= clock /\ Lag < Days[k]
      BY <1>2 DEF Record
    <3>2. Days[k] \in Nat /\ stamp[w] \in Nat /\ clock \in Nat /\ start[p] \in Nat
      OBVIOUS
    <3>3. QED
      BY <2>1, <3>1, <3>2
  <2>2. /\ rows' = rows \cup {e \in Entry : e[1] = w}
        /\ UNCHANGED <<stamp, start>>
    BY <1>2 DEF Record, purgeVars
  <2>3. QED
    BY <2>1, <2>2 DEF Expired
<1>3. CASE Discard(w)
  <2>1. \A e \in rows : e[1] # w /\ e[1] \in Writer
    BY <1>3, EntryKind DEF Discard
  <2>2. \A e \in rows : stamp'[e[1]] = stamp[e[1]]
    BY <1>3, <2>1 DEF Discard
  <2>3. QED
    BY <1>3, <2>2 DEF Expired, Discard, purgeVars
<1>4. QED
  BY <1>1, <1>2, <1>3

\* An empty count means that no row of the table is older than the cutoff.
LEMMA CountedNone ==
  ASSUME TypeOK, NEW k, NEW t, Cardinality(Expired(k, t)) = 0
  PROVE  Expired(k, t) = {}
<1>1. IsFiniteSet(Writer \X Kind)
  <2>1. Kind = {"audit"} \cup {"usage"}
    BY DEF Kind
  <2>2. IsFiniteSet(Kind)
    BY <2>1, FS_Singleton, FS_AddElement
  <2>3. QED
    BY <2>2, RetentionAssumption, FS_Product
<1>2. Expired(k, t) \subseteq Writer \X Kind
  BY DEF Expired, Entry, TypeOK
<1>3. IsFiniteSet(Expired(k, t))
  BY <1>1, <1>2, FS_Subset
<1>4. QED
  BY <1>3, FS_EmptySet

\* A step of a session leaves the other sessions what they hold.
LEMMA OthersHold ==
  ASSUME TypeOK, Timely, Settled, NEW p \in Purger, Start(p) \/ Statement(p) \/ Fail(p),
         NEW q \in Purger \ {p}
  PROVE  HoldsOf(q)' /\ doomed'[q] = doomed[q] /\ doomed'[p] \cap doomed[q] = {}
<1>1. /\ stage'[q] = stage[q] /\ at'[q] = at[q] /\ dry'[q] = dry[q]
      /\ start'[q] = start[q] /\ doomed'[q] = doomed[q] /\ UNCHANGED stamp
  <2>1. CASE Start(p)
    BY <2>1 DEF Start, Goto, TypeOK, writerVars
  <2>2. CASE Count(p)
    BY <2>2 DEF Count, Proceed, Goto, TypeOK, writerVars
  <2>3. CASE Delete(p)
    BY <2>3 DEF Delete, Proceed, TypeOK, writerVars
  <2>4. CASE Finish(p)
    BY <2>4 DEF Finish, Close, TypeOK, writerVars
  <2>5. CASE Fail(p)
    BY <2>5 DEF Fail, Close, TypeOK, writerVars
  <2>6. QED
    BY <2>1, <2>2, <2>3, <2>4, <2>5 DEF Statement
<1>2. doomed[p] \cap doomed[q] = {}
  BY DEF Settled
<1>3. rows' \subseteq rows /\ \A e \in rows \ rows' : e \in doomed[p]
  BY DEF Start, Statement, Count, Delete, Finish, Fail
<1>4. \A k \in Kind : /\ Expired(k, start[q])' \subseteq Expired(k, start[q])
                      /\ doomed[q] \cap Expired(k, start[q]) \subseteq Expired(k, start[q])'
  BY <1>1, <1>2, <1>3 DEF Expired
<1>5. HoldsOf(q)
  BY SettledParts
<1>6. HoldsOf(q)'
  BY <1>1, <1>4, <1>5, HoldsKept
<1>7. doomed'[p] \cap doomed[q] = {}
  <2>1. CASE Delete(p)
    BY <2>1, <1>2 DEF Delete, Unlocked, TypeOK
  <2>2. CASE Start(p) \/ Count(p)
    BY <2>2, <1>2 DEF Start, Count
  <2>3. CASE Finish(p) \/ Fail(p)
    BY <2>3 DEF Finish, Fail, Close, TypeOK
  <2>4. QED
    BY <2>1, <2>2, <2>3 DEF Statement
<1>8. QED
  BY <1>1, <1>6, <1>7

\* What passing a table adds to the tables a run has passed.
LEMMA ProceedPasses ==
  ASSUME TypeOK, NEW p \in Purger, Running(p), stage[p] # "commit", Proceed(p),
         NEW k \in Kind
  PROVE  /\ Passed(p, k)' <=> Passed(p, k) \/ k = Table(p)
         /\ Running(p)'
<1> USE DEF TypeOK, Running
<1>1. at[p] \in 1 .. 2 /\ at'[p] \in 1 .. 2 /\ stage[p] \in {"count", "delete"}
  BY ProceedType DEF Proceed
<1>2. Order(p)[1] = "audit" /\ Order(p)[2] = "usage"
  BY DEF Order
<1>3. CASE at[p] = 1
  <2>1. stage'[p] = "count" /\ at'[p] = 2
    BY <1>3 DEF Proceed
  <2>2. Passed(p, k)' <=> k = "audit"
    <3>1. \A i \in 1 .. 2 : i < 2 <=> i = 1
      OBVIOUS
    <3>2. QED
      BY <2>1, <1>2, <3>1 DEF Passed, Order
  <2>3. ~Passed(p, k)
    BY <1>1, <1>3, PassedAt
  <2>4. QED
    BY <1>3, <2>1, <2>2, <2>3, TableAt
<1>4. CASE at[p] = 2
  <2>1. stage'[p] = "commit"
    BY <1>4 DEF Proceed
  <2>2. Passed(p, k)'
    BY <2>1 DEF Passed
  <2>3. Passed(p, k) <=> k = "audit"
    BY <1>1, <1>4, PassedAt
  <2>4. QED
    BY <1>4, <2>1, <2>2, <2>3, TableAt DEF Kind
<1>5. QED
  BY <1>1, <1>3, <1>4

\* Each statement keeps what its own session holds: a skipped table has no old
\* rows, a deleted one has all of them locked.
LEMMA OwnHold ==
  ASSUME TypeOK, Timely, Settled, NEW p \in Purger, Start(p) \/ Statement(p) \/ Fail(p)
  PROVE  HoldsOf(p)'
<1> USE DEF TypeOK
<1>1. HoldsOf(p) /\ \A e \in doomed[p] : e[2] \in Kind
  BY SettledParts, EntryKind
<1>2. CASE Start(p)
  <2>1. stage'[p] = "count" /\ at'[p] = 1 /\ doomed'[p] = {}
    BY <1>1, <1>2 DEF Start, Goto, HoldsOf, Running
  <2>2. \A k : ~Passed(p, k)'
    <3>1. \A i \in 1 .. 2 : ~(i < 1)
      OBVIOUS
    <3>2. QED
      BY <2>1, <3>1 DEF Passed
  <2>3. QED
    BY <2>1, <2>2 DEF HoldsOf, Running
<1>3. CASE Count(p) /\ Proceed(p)
  <2>1. /\ \A k \in Kind : Expired(k, start[p])' = Expired(k, start[p])
        /\ UNCHANGED <<rows, stamp, dry, start, doomed>>
    BY <1>3 DEF Count, Expired, writerVars
  <2>2. Running(p) /\ stage[p] # "commit" /\ Table(p) \in Kind
    BY <1>3, TableAt DEF Count, Running
  <2>3. Running(p)' /\ \A k \in Kind : Passed(p, k)' <=> Passed(p, k) \/ k = Table(p)
    BY <1>3, <2>2, ProceedPasses
  <2>4. ~dry[p] => Expired(Table(p), start[p]) = {}
    <3>1. CASE Cardinality(Expired(Table(p), start[p])) = 0
      BY <3>1, CountedNone
    <3>2. CASE dry[p]
      BY <3>2
    <3>3. CASE Cardinality(Expired(Table(p), start[p])) # 0 /\ ~dry[p]
      BY <1>3, <3>3 DEF Count, Proceed, Goto
    <3>4. QED
      BY <3>1, <3>2, <3>3
  <2>5. stage'[p] # "idle" /\ stage'[p] # "delete"
    BY <1>3, <2>3 DEF Running, Proceed
  <2>6. QED
    BY <1>1, <2>1, <2>2, <2>3, <2>4, <2>5 DEF HoldsOf
<1>4. CASE Count(p) /\ Goto(p, "count", "delete") /\ UNCHANGED at
  <2>1. /\ \A k \in Kind : Expired(k, start[p])' = Expired(k, start[p])
        /\ UNCHANGED <<rows, stamp, dry, start, doomed, at>>
    BY <1>4 DEF Count, Expired, writerVars
  <2>2. stage[p] = "count" /\ stage'[p] = "delete"
    BY <1>4 DEF Goto
  <2>3. \A k \in Kind : Passed(p, k)' <=> Passed(p, k)
    BY <2>1, <2>2 DEF Passed, Order
  <2>4. ~dry[p]
    BY <1>4 DEF Count, Proceed, Goto
  <2>5. QED
    BY <1>1, <2>1, <2>2, <2>3, <2>4 DEF HoldsOf, Running
<1>5. CASE Delete(p)
  <2>1. /\ \A k \in Kind : Expired(k, start[p])' = Expired(k, start[p])
        /\ UNCHANGED <<rows, stamp, dry, start>>
        /\ doomed'[p] = doomed[p] \cup Expired(Table(p), start[p])
    BY <1>5 DEF Delete, Expired, writerVars
  <2>2. Running(p) /\ stage[p] # "commit" /\ Table(p) \in Kind /\ Proceed(p)
    BY <1>5, TableAt DEF Delete, Running
  <2>3. Running(p)' /\ \A k \in Kind : Passed(p, k)' <=> Passed(p, k) \/ k = Table(p)
    BY <2>2, ProceedPasses
  <2>4. \A e \in Expired(Table(p), start[p]) : e[2] = Table(p)
    BY DEF Expired
  <2>5. ~dry[p] /\ stage'[p] # "idle"
    BY <1>1, <1>5, <2>3 DEF Running, HoldsOf, Delete
  <2>6. stage'[p] # "delete"
    BY <1>5 DEF Delete, Proceed
  <2>7. QED
    BY <1>1, <2>1, <2>2, <2>3, <2>4, <2>5, <2>6 DEF HoldsOf
<1>6. CASE Finish(p) \/ Fail(p)
  <2>1. stage'[p] \in {"done", "failed"} /\ doomed'[p] = {}
    BY <1>6 DEF Finish, Fail, Close
  <2>2. \A k : ~Passed(p, k)'
    BY <2>1 DEF Passed
  <2>3. QED
    BY <2>1, <2>2 DEF HoldsOf
<1>7. QED
  BY <1>2, <1>3, <1>4, <1>5, <1>6 DEF Statement, Count

\* What the runs hold survives every step.
LEMMA RetentionSettled == TypeOK /\ Timely /\ Settled /\ [Next]_vars => Settled'
<1> SUFFICES ASSUME TypeOK, Timely, Settled, [Next]_vars PROVE Settled'
  OBVIOUS
<1>1. ASSUME UNCHANGED purgeVars,
             \A p \in Purger, k \in Kind : Expired(k, start[p])' = Expired(k, start[p])
      PROVE  Settled'
  <2>1. \A p \in Purger : HoldsOf(p)'
    BY <1>1, SettledParts, HoldsKept DEF purgeVars
  <2>2. UNCHANGED doomed
    BY <1>1 DEF purgeVars
  <2>3. QED
    BY <2>1, <2>2, SettledParts DEF Settled, HoldsOf
<1>2. CASE Tick
  BY <1>1, <1>2 DEF Tick, Expired, writerVars, purgeVars
<1>3. ASSUME NEW w \in Writer, Insert(w) \/ Record(w) \/ Discard(w) PROVE Settled'
  BY <1>1, <1>3, RecordingKeepsExpired DEF Insert, Record, Discard
<1>4. ASSUME NEW p \in Purger, Start(p) \/ Statement(p) \/ Fail(p) PROVE Settled'
  <2>1. \A q \in Purger : HoldsOf(q)'
    BY <1>4, OwnHold, OthersHold
  <2>2. ASSUME NEW q \in Purger, NEW r \in Purger \ {q}
        PROVE  doomed'[q] \cap doomed'[r] = {}
    <3>1. CASE q = p
      BY <1>4, <3>1, OthersHold
    <3>2. CASE r = p
      BY <1>4, <3>2, OthersHold
    <3>3. CASE q # p /\ r # p
      <4>1. doomed'[q] = doomed[q] /\ doomed'[r] = doomed[r]
        BY <1>4, <3>3, OthersHold
      <4>2. QED
        BY <4>1 DEF Settled
    <3>4. QED
      BY <3>1, <3>2, <3>3
  <2>3. QED
    BY <2>1, <2>2 DEF Settled, HoldsOf
<1>5. CASE UNCHANGED vars
  BY <1>1, <1>5 DEF vars, writerVars, purgeVars, Expired
<1>6. QED
  BY <1>2, <1>3, <1>4, <1>5 DEF Next

\* Every state of every behaviour satisfies the invariant that makes a purge
\* atomic.
THEOREM RetentionInvariantHolds == Spec => []RetentionInvariant
<1>1. Init => RetentionInvariant
  BY RetentionInit
<1>2. RetentionInvariant /\ [Next]_vars => RetentionInvariant'
  BY RetentionType, RetentionTimely, RetentionSettled DEF RetentionInvariant
<1>3. QED
  BY <1>1, <1>2, PTL DEF Spec

-----------------------------------------------------------------------------
(* Refinement                                                              *)

\* At its commit a run that deletes holds exactly the rows older than its cutoff.
LEMMA HoldsAllExpired ==
  ASSUME RetentionInvariant, NEW p \in Purger, stage[p] = "commit", ~dry[p]
  PROVE  \A e \in rows : e \in doomed[p] <=> stamp[e[1]] + Days[e[2]] < start[p]
<1>1. \A k \in Kind : Passed(p, k)
  BY DEF Passed
<1>2. \A k \in Kind : Expired(k, start[p]) \subseteq doomed[p]
  BY <1>1 DEF RetentionInvariant, Settled
<1>3. \A e \in doomed[p] : e \in Expired(e[2], start[p])
  BY DEF RetentionInvariant, Settled
<1>4. \A e \in rows : e[2] \in Kind
  BY EntryKind DEF RetentionInvariant, TypeOK
<1>5. QED
  BY <1>2, <1>3, <1>4 DEF Expired

\* A recording transaction's commit is an Append, a purge's commit a Purge, and
\* every other step leaves both tables as they are.
LEMMA RetentionStep ==
  ASSUME RetentionInvariant, RetentionInvariant', [Next]_vars
  PROVE  [Log!Next]_<<clock, [e \in rows |-> stamp[e[1]]]>>
<1> DEFINE log == [e \in rows |-> stamp[e[1]]]
<1> USE DEF RetentionInvariant, TypeOK
<1>1. CASE Tick
  BY <1>1 DEF Tick, writerVars, Log!Next, Log!Tick
<1>2. ASSUME NEW w \in Writer, Insert(w) \/ Discard(w)
      PROVE  UNCHANGED <<clock, log>>
  <2>1. \A e \in rows : e[1] # w /\ e[1] \in Writer
    BY <1>2, EntryKind DEF Insert, Discard, Timely
  <2>2. \A e \in rows : stamp'[e[1]] = stamp[e[1]]
    BY <1>2, <2>1 DEF Insert, Discard
  <2>3. QED
    BY <1>2, <2>2 DEF Insert, Discard
<1>3. ASSUME NEW w \in Writer, Record(w)
      PROVE  Log!Next
  <2> DEFINE E == {e \in Entry : e[1] = w}
  <2> PICK t \in 0 .. clock : t = stamp[w]
    BY RetentionAssumption DEF Timely
  <2>1. UNCHANGED <<clock, stamp>> /\ rows' = rows \cup E
    BY <1>3 DEF Record
  <2>3. E \cap DOMAIN log = {}
    BY <1>3 DEF Record, Timely
  <2>4. \A e \in E : clock <= t + Days[e[2]]
    <3>1. clock <= t + Lag
      BY <1>3 DEF Record, Timely
    <3>2. \A e \in E : Lag < Days[e[2]] /\ Days[e[2]] \in Nat
      BY EntryKind, RetentionAssumption
    <3>3. QED
      BY <3>1, <3>2, RetentionAssumption
  <2>5. log' = [e \in DOMAIN log \cup E |-> IF e \in E THEN t ELSE log[e]]
    BY <2>1
  <2>6. Log!Append(E, t)
    BY <2>1, <2>3, <2>4, <2>5 DEF Log!Append
  <2>7. \E S \in SUBSET Entry : Log!Append(S, t)
    BY <2>6
  <2>8. QED
    BY <2>7 DEF Log!Next
<1>4. ASSUME NEW p \in Purger, Start(p) \/ Count(p) \/ Delete(p) \/ Fail(p)
      PROVE  UNCHANGED <<clock, log>>
  BY <1>4 DEF Start, Count, Delete, Fail, Close, writerVars
<1>5. ASSUME NEW p \in Purger, Finish(p)
      PROVE  Log!Next \/ UNCHANGED <<clock, log>>
  <2>1. UNCHANGED <<clock, stamp>> /\ rows' = rows \ doomed[p] /\ stage[p] = "commit"
    BY <1>5 DEF Finish, Close, writerVars
  <2>2. CASE dry[p]
    BY <2>1, <2>2 DEF Settled
  <2>3. CASE ~dry[p]
    <3> PICK t \in 0 .. clock : t = start[p]
      BY RetentionAssumption DEF Timely
    <3>1. rows' = {e \in rows : ~(stamp[e[1]] + Days[e[2]] < t)}
      BY <2>1, <2>3, HoldsAllExpired
    <3>2. \A e \in rows : Log!Expires(e, t) <=> stamp[e[1]] + Days[e[2]] < t
      BY DEF Log!Expires
    <3>3. log' = [e \in {x \in DOMAIN log : ~Log!Expires(x, t)} |-> log[e]]
      BY <2>1, <3>1, <3>2
    <3>4. Log!Purge(t)
      BY <2>1, <3>3 DEF Log!Purge
    <3>5. QED
      BY <3>4 DEF Log!Next
  <2>4. QED
    BY <2>2, <2>3
<1>6. CASE UNCHANGED vars
  BY <1>6 DEF vars, writerVars
<1>7. QED
  BY <1>1, <1>2, <1>3, <1>4, <1>5, <1>6 DEF Next, Statement

\* Counting and deleting statement by statement, beside other runs and beside
\* the requests that record, implements the log with atomic purges.
THEOREM RetentionImplementsLog == Spec => PurgesAreAtomic
<1>1. Init => Log!Init
  BY DEF Init, Log!Init
<1>2. RetentionInvariant /\ RetentionInvariant' /\ [Next]_vars
        => [Log!Next]_<<clock, [e \in rows |-> stamp[e[1]]]>>
  BY RetentionStep
<1>3. QED
  BY <1>1, <1>2, RetentionInvariantHolds, PTL DEF Spec, PurgesAreAtomic, Log!Spec

-----------------------------------------------------------------------------
(* Reports                                                                 *)

Of(S, k) == {e \in S : e[2] = k}

\* What a run has found, locked and removed never exceeds what it counted.
Accounted(p) ==
  /\ stage[p] \notin {"done", "failed"} \/ dry[p] => gone[p] = {}
  /\ stage[p] = "delete" =>
       Cardinality(Expired(Table(p), start[p])) <= matches[p][Table(p)]
  /\ \A k \in Kind : /\ Cardinality(Of(doomed[p], k)) <= matches[p][k]
                     /\ Cardinality(Of(gone[p], k)) <= matches[p][k]

AllAccounted == \A p \in Purger : Accounted(p)

\* Sets of rows are finite, so smaller sets have smaller counts.
LEMMA RowsFinite ==
  ASSUME NEW S, S \subseteq Entry
  PROVE  /\ IsFiniteSet(S) /\ Cardinality(S) \in Nat
         /\ \A T \in SUBSET S : Cardinality(T) <= Cardinality(S)
<1>1. IsFiniteSet(Writer \X Kind)
  <2>1. Kind = {"audit"} \cup {"usage"}
    BY DEF Kind
  <2>2. IsFiniteSet(Kind)
    BY <2>1, FS_Singleton, FS_AddElement
  <2>3. QED
    BY <2>2, RetentionAssumption, FS_Product
<1>2. S \subseteq Writer \X Kind
  BY DEF Entry
<1>3. IsFiniteSet(S)
  BY <1>1, <1>2, FS_Subset
<1>4. QED
  BY <1>3, FS_CardinalityType, FS_Subset

\* A run that is left alone stays accounted for: rows older than its cutoff only
\* become fewer.
LEMMA AccountedKept ==
  ASSUME TypeOK, TypeOK', NEW p \in Purger, Accounted(p),
         stage'[p] = stage[p], at'[p] = at[p], dry'[p] = dry[p], start'[p] = start[p],
         doomed'[p] = doomed[p], matches'[p] = matches[p], gone'[p] = gone[p],
         \A k \in Kind : Expired(k, start[p])' \subseteq Expired(k, start[p])
  PROVE  Accounted(p)'
<1>1. Table(p)' = Table(p) /\ Table(p) \in Kind
  BY TableAt DEF Table, Order, TypeOK
<1>2. Expired(Table(p), start[p]) \subseteq Entry
  BY DEF Expired, TypeOK
<1>3. Expired(Table(p), start[p])' \subseteq Expired(Table(p), start[p])
  BY <1>1 DEF Expired
<1>4. /\ Cardinality(Expired(Table(p), start[p])') <= Cardinality(Expired(Table(p), start[p]))
      /\ Cardinality(Expired(Table(p), start[p])') \in Nat
      /\ Cardinality(Expired(Table(p), start[p])) \in Nat
  BY <1>2, <1>3, RowsFinite
<1>5. matches[p][Table(p)] \in Nat
  BY <1>1 DEF TypeOK
<1>6. stage'[p] = "delete" =>
        Cardinality(Expired(Table(p), start[p])') <= matches'[p][Table(p)']
  BY <1>1, <1>4, <1>5 DEF Accounted
<1>7. \A k \in Kind : /\ Cardinality(Of(doomed'[p], k)) <= matches'[p][k]
                      /\ Cardinality(Of(gone'[p], k)) <= matches'[p][k]
  BY DEF Accounted
<1>8. stage'[p] \notin {"done", "failed"} \/ dry'[p] => gone'[p] = {}
  BY DEF Accounted
<1>9. QED
  BY <1>6, <1>7, <1>8 DEF Accounted, Of

\* No row gets older than a cutoff that is in use.
LEMMA ExpiredShrink ==
  ASSUME TypeOK, Timely, [Next]_vars, NEW p \in Purger, start'[p] = start[p], NEW k \in Kind
  PROVE  Expired(k, start[p])' \subseteq Expired(k, start[p])
<1>1. CASE Tick
  BY <1>1 DEF Tick, Expired, writerVars, purgeVars
<1>2. ASSUME NEW w \in Writer, Insert(w) \/ Record(w) \/ Discard(w)
      PROVE  Expired(k, start[p])' \subseteq Expired(k, start[p])
  BY <1>2, RecordingKeepsExpired
<1>3. ASSUME NEW q \in Purger, Start(q) \/ Statement(q) \/ Fail(q)
      PROVE  Expired(k, start[p])' \subseteq Expired(k, start[p])
  <2>1. UNCHANGED stamp /\ rows' \subseteq rows
    BY <1>3 DEF Start, Statement, Count, Delete, Finish, Fail, Close, writerVars
  <2>2. QED
    BY <2>1 DEF Expired
<1>4. CASE UNCHANGED vars
  BY <1>4 DEF vars, writerVars, purgeVars, Expired
<1>5. QED
  BY <1>1, <1>2, <1>3, <1>4 DEF Next

\* A run does not lock rows of a table before it has passed it.
LEMMA NoneLockedYet ==
  ASSUME RetentionInvariant, NEW p \in Purger, stage[p] \in {"count", "delete"}
  PROVE  Of(doomed[p], Table(p)) = {}
<1>1. at[p] \in 1 .. 2
  BY DEF RetentionInvariant, TypeOK
<1>2. ~Passed(p, Table(p)) /\ Table(p) \in Kind
  <2>1. CASE at[p] = 1
    BY <1>1, <2>1, PassedAt, TableAt
  <2>2. CASE at[p] = 2
    BY <1>1, <2>2, PassedAt, TableAt
  <2>3. QED
    BY <1>1, <2>1, <2>2
<1>3. QED
  BY <1>2 DEF RetentionInvariant, Settled, Of

\* Nothing is no more than any number.
LEMMA NoneOf ==
  ASSUME NEW k, NEW n \in Nat
  PROVE  Of({}, k) = {} /\ Cardinality(Of({}, k)) <= n
<1>1. Of({}, k) = {}
  BY DEF Of
<1>2. QED
  BY <1>1, FS_EmptySet

\* The statements of a run keep it accounted for.
LEMMA OwnAccount ==
  ASSUME RetentionInvariant, NEW p \in Purger, Start(p) \/ Statement(p) \/ Fail(p),
         Accounted(p)
  PROVE  Accounted(p)'
<1> USE DEF RetentionInvariant, TypeOK
<1>1. Cardinality({}) = 0 /\ \A k : Of({}, k) = {}
  BY FS_EmptySet DEF Of
<1>2. Table(p) \in Kind /\ Expired(Table(p), start[p]) \subseteq Entry
  BY TableAt DEF Expired
<1>3. Cardinality(Expired(Table(p), start[p])) \in Nat
  BY <1>2, RowsFinite
<1>4. CASE Start(p)
  BY <1>4 DEF Start, Goto, Accounted
<1>5. CASE Count(p)
  <2>1. /\ stage'[p] \in {"delete", "count", "commit"}
        /\ UNCHANGED <<rows, stamp, start, doomed, gone, dry>>
        /\ matches' = [matches EXCEPT ![p][Table(p)] = Cardinality(Expired(Table(p), start[p]))]
        /\ stage'[p] = "delete" => at'[p] = at[p]
    BY <1>5 DEF Count, Proceed, Goto, writerVars
  <2>2. gone[p] = {}
    BY <1>5 DEF Accounted, Count
  <2>3. \A k \in Kind : Cardinality(Of(doomed[p], k)) <= matches'[p][k]
    <3>1. Of(doomed[p], Table(p)) = {}
      BY <1>5, NoneLockedYet DEF Count
    <3>2. Cardinality(Of(doomed[p], Table(p))) <= matches'[p][Table(p)]
      BY <2>1, <3>1, <1>2, <1>3, NoneOf
    <3>3. ASSUME NEW k \in Kind, k # Table(p)
          PROVE  Cardinality(Of(doomed[p], k)) <= matches'[p][k]
      BY <2>1, <1>2, <3>3 DEF Accounted
    <3>4. QED
      BY <3>2, <3>3
  <2>4. \A k \in Kind : matches'[p][k] \in Nat
    BY <2>1, <1>2, <1>3
  <2>5. \A k \in Kind : Cardinality(Of(gone[p], k)) <= matches'[p][k]
    BY <2>2, <2>4, NoneOf
  <2>6. stage'[p] = "delete" =>
          Cardinality(Expired(Table(p), start[p])') <= matches'[p][Table(p)']
    <3>1. stage'[p] = "delete" => /\ Table(p)' = Table(p)
                                  /\ Expired(Table(p), start[p])' = Expired(Table(p), start[p])
      BY <2>1 DEF Table, Order, Expired
    <3>2. matches'[p][Table(p)] = Cardinality(Expired(Table(p), start[p]))
      BY <2>1, <1>2
    <3>3. QED
      BY <3>1, <3>2, <1>3
  <2>7. QED
    BY <2>1, <2>2, <2>3, <2>5, <2>6 DEF Accounted, Of
<1>6. CASE Delete(p)
  <2>1. /\ stage'[p] \in {"count", "commit"}
        /\ UNCHANGED <<gone, dry, matches>>
        /\ doomed'[p] = doomed[p] \cup Expired(Table(p), start[p])
    BY <1>6 DEF Delete, Proceed, writerVars
  <2>2. \A k \in Kind : Cardinality(Of(doomed'[p], k)) <= matches[p][k]
    <3>1. Of(doomed'[p], Table(p)) = Expired(Table(p), start[p])
      <4>1. Of(doomed[p], Table(p)) = {}
        BY <1>6, NoneLockedYet DEF Delete
      <4>2. QED
        BY <2>1, <4>1 DEF Of, Expired
    <3>2. \A k \in Kind \ {Table(p)} : Of(doomed'[p], k) = Of(doomed[p], k)
      BY <2>1 DEF Of, Expired
    <3>3. QED
      BY <1>6, <3>1, <3>2 DEF Accounted, Delete
  <2>3. gone[p] = {} /\ \A k \in Kind : Cardinality(Of(gone[p], k)) <= matches[p][k]
    BY <1>6 DEF Accounted, Delete
  <2>4. QED
    BY <2>1, <2>2, <2>3 DEF Accounted, Of
<1>7. CASE Finish(p)
  <2>1. /\ stage'[p] \in {"done", "failed"} /\ doomed'[p] = {} /\ gone'[p] = doomed[p]
        /\ UNCHANGED <<matches, dry>>
    BY <1>7 DEF Finish, Close
  <2>2. dry[p] => doomed[p] = {}
    BY DEF Settled
  <2>3. \A k \in Kind : Cardinality(Of({}, k)) <= matches[p][k]
    BY <1>1, NoneOf
  <2>4. QED
    BY <2>1, <2>2, <2>3 DEF Accounted, Of
<1>8. CASE Fail(p)
  <2>1. /\ stage'[p] = "failed" /\ doomed'[p] = {} /\ gone'[p] = gone[p]
        /\ UNCHANGED dry /\ \A k \in Kind : matches'[p][k] = 0
    BY <1>8 DEF Fail, Close
  <2>2. gone[p] = {}
    BY <1>8 DEF Accounted, Fail, Running
  <2>3. QED
    BY <2>1, <2>2, <1>1 DEF Accounted, Of
<1>9. QED
  BY <1>4, <1>5, <1>6, <1>7, <1>8 DEF Statement

\* A step of the system leaves every run accounted for.
LEMMA StepAccounts ==
  ASSUME RetentionInvariant, RetentionInvariant', AllAccounted, [Next]_vars
  PROVE  AllAccounted'
<1> USE DEF RetentionInvariant
<1> SUFFICES ASSUME NEW p \in Purger PROVE Accounted(p)'
  BY DEF AllAccounted
<1>1. Accounted(p)
  BY DEF AllAccounted
<1>2. CASE Start(p) \/ Statement(p) \/ Fail(p)
  BY <1>1, <1>2, OwnAccount
<1>3. CASE ~(Start(p) \/ Statement(p) \/ Fail(p))
  <2> DEFINE Unmoved ==
        /\ stage'[p] = stage[p] /\ at'[p] = at[p] /\ dry'[p] = dry[p]
        /\ start'[p] = start[p] /\ doomed'[p] = doomed[p] /\ matches'[p] = matches[p]
        /\ gone'[p] = gone[p]
  <2>1. Unmoved
    <3>1. CASE Tick \/ UNCHANGED vars
      BY <3>1 DEF Tick, vars, purgeVars
    <3>2. ASSUME NEW w \in Writer, Insert(w) \/ Record(w) \/ Discard(w)
          PROVE  UNCHANGED purgeVars
      BY <3>2 DEF Insert, Record, Discard
    <3>3. ASSUME NEW q \in Purger \ {p}, Start(q) \/ Count(q) \/ Delete(q)
          PROVE  Unmoved
      BY <3>3 DEF Start, Count, Delete, Proceed, Goto, TypeOK
    <3>4. ASSUME NEW q \in Purger \ {p}, Finish(q) \/ Fail(q)
          PROVE  Unmoved
      BY <3>4 DEF Finish, Fail, Close, TypeOK
    <3>5. QED
      BY <1>3, <3>1, <3>2, <3>3, <3>4 DEF Next, Statement, purgeVars
  <2>2. \A k \in Kind : Expired(k, start[p])' \subseteq Expired(k, start[p])
    BY <2>1, ExpiredShrink
  <2>3. QED
    BY <1>1, <2>1, <2>2, AccountedKept
<1>4. QED
  BY <1>2, <1>3

\* The numbers the command prints are never less than what it removed, however
\* many runs and requests overlap.
THEOREM ReportsHold == Spec => []ReportNeverShort
<1>1. Init => AllAccounted
  <2>1. Cardinality({}) = 0 /\ \A k : Of({}, k) = {}
    BY FS_EmptySet DEF Of
  <2>2. QED
    BY <2>1 DEF Init, AllAccounted, Accounted
<1>2. AllAccounted => ReportNeverShort
  BY DEF AllAccounted, Accounted, ReportNeverShort, Of
<1>3. QED
  BY <1>1, <1>2, StepAccounts, RetentionInvariantHolds, PTL DEF Spec

=============================================================================
