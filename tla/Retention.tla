----------------------------- MODULE Retention ------------------------------
(***************************************************************************)
(* The retention command (retention.py, cli/retention.py) beside the       *)
(* requests that record audit and usage rows.                              *)
(*                                                                         *)
(* A purge is one database session: for each table it counts the rows      *)
(* older than the cutoff in one statement and deletes them in the next,    *)
(* then it commits, or rolls back after a dry run.  At READ COMMITTED each *)
(* statement sees what is committed when it runs; a DELETE locks its rows  *)
(* and waits while another session holds one of them.                      *)
(***************************************************************************)
EXTENDS Naturals, FiniteSets

CONSTANTS
  Writer,  \* transactions that record rows, each once
  writes,  \* the tables such a transaction writes to
  Purger,  \* runs of the command
  Days,    \* AUDIT_RETENTION_DAYS and USAGE_RETENTION_DAYS
  Lag,     \* how long a recording transaction may stay open
  MaxClock \* bound: days an instance looks at

Kind == {"audit", "usage"}

Entry == {e \in Writer \X Kind : e[2] \in writes[e[1]]}

ASSUME RetentionAssumption ==
  /\ IsFiniteSet(Writer)
  /\ writes \in [Writer -> SUBSET Kind]
  /\ Days \in [Kind -> Nat]
  /\ Lag \in Nat /\ MaxClock \in Nat
  /\ \A k \in Kind : Lag < Days[k]

VARIABLES
  clock,
  phase,   \* of a recording transaction
  stamp,   \* the timestamp its rows carry
  rows,    \* committed rows of both tables
  stage,   \* the statement a purge runs next
  at,      \* index of the table it works on
  dry,     \* --dry-run
  start,   \* the time its cutoffs are computed from
  matches, \* rows counted, per table
  doomed,  \* rows it has deleted and not committed
  gone     \* history: rows its commit removed

writerVars == <<phase, stamp>>
purgeVars == <<stage, at, dry, start, matches, doomed, gone>>
vars == <<clock, writerVars, rows, purgeVars>>

-----------------------------------------------------------------------------
(* Recording.  Operators named ...Mistake are wrong on purpose and no part *)
(* of the model.                                                           *)

Tick ==
  /\ clock < MaxClock
  /\ \A w \in Writer : phase[w] = "open" => clock < stamp[w] + Lag
  /\ clock' = clock + 1
  /\ UNCHANGED <<writerVars, rows, purgeVars>>

\* The INSERT takes utc_now as the row's timestamp.
Insert(w) ==
  /\ phase[w] = "idle"
  /\ phase' = [phase EXCEPT ![w] = "open"]
  /\ stamp' = [stamp EXCEPT ![w] = clock]
  /\ UNCHANGED <<clock, rows, purgeVars>>

\* Both records of an invocation are committed by one transaction.
Record(w) ==
  /\ phase[w] = "open"
  /\ phase' = [phase EXCEPT ![w] = "closed"]
  /\ rows' = rows \cup {e \in Entry : e[1] = w}
  /\ UNCHANGED <<clock, stamp, purgeVars>>

Discard(w) ==
  /\ phase[w] = "open"
  /\ phase' = [phase EXCEPT ![w] = "closed"]
  /\ stamp' = [stamp EXCEPT ![w] = 0]
  /\ UNCHANGED <<clock, rows, purgeVars>>

-----------------------------------------------------------------------------
(* A purge                                                                 *)

\* As when the tables are taken from a set: each run has an order of its own.
AnyOrderMistake(p) ==
  IF p = CHOOSE q \in Purger : TRUE THEN <<"usage", "audit">> ELSE <<"audit", "usage">>

Order(p) == <<"audit", "usage">>

Table(p) == Order(p)[at[p]]

Expired(k, t) == {e \in rows : e[2] = k /\ stamp[e[1]] + Days[k] < t}

Running(p) == stage[p] \notin {"idle", "done", "failed"}

Goto(p, from, to) == stage[p] = from /\ stage' = [stage EXCEPT ![p] = to]

Start(p) ==
  /\ Goto(p, "idle", "count")
  /\ \E d \in BOOLEAN : dry' = [dry EXCEPT ![p] = d]
  /\ start' = [start EXCEPT ![p] = clock]
  /\ UNCHANGED <<clock, writerVars, rows, at, matches, doomed, gone>>

OneTableMistake(p) ==
  /\ stage' = [stage EXCEPT ![p] = "commit"]
  /\ at' = [at EXCEPT ![p] = @ + 1]

\* On to the other table, or to the end of the session.
Proceed(p) ==
  \/ /\ at[p] = 1
     /\ at' = [at EXCEPT ![p] = 2]
     /\ stage' = [stage EXCEPT ![p] = "count"]
  \/ /\ at[p] = 2
     /\ stage' = [stage EXCEPT ![p] = "commit"]
     /\ UNCHANGED at

Count(p) ==
  LET found == Cardinality(Expired(Table(p), start[p]))
  IN  /\ stage[p] = "count"
      /\ matches' = [matches EXCEPT ![p][Table(p)] = found]
      /\ \/ (found = 0 \/ dry[p]) /\ Proceed(p)
         \/ found # 0 /\ ~dry[p] /\ Goto(p, "count", "delete") /\ UNCHANGED at
      /\ UNCHANGED <<clock, writerVars, rows, dry, start, doomed, gone>>

\* Nobody else has deleted one of these rows and may still roll back.
Unlocked(p, S) == \A q \in Purger \ {p} : doomed[q] \cap S = {}

LaterCutoffMistake(p) ==
  /\ stage[p] = "delete"
  /\ Unlocked(p, Expired(Table(p), clock))
  /\ doomed' = [doomed EXCEPT ![p] = @ \cup Expired(Table(p), clock)]
  /\ Proceed(p)
  /\ UNCHANGED <<clock, writerVars, rows, dry, start, matches, gone>>

EachTableMistake(p) ==
  /\ stage[p] = "delete"
  /\ Unlocked(p, Expired(Table(p), start[p]))
  /\ rows' = rows \ Expired(Table(p), start[p])
  /\ Proceed(p)
  /\ UNCHANGED <<clock, writerVars, dry, start, matches, doomed, gone>>

Delete(p) ==
  /\ stage[p] = "delete"
  /\ Unlocked(p, Expired(Table(p), start[p]))
  /\ doomed' = [doomed EXCEPT ![p] = @ \cup Expired(Table(p), start[p])]
  /\ Proceed(p)
  /\ UNCHANGED <<clock, writerVars, rows, dry, start, matches, gone>>

\* The session is closed: its locks and its local variables are gone.
Close(p) ==
  /\ at' = [at EXCEPT ![p] = 1]
  /\ start' = [start EXCEPT ![p] = 0]
  /\ doomed' = [doomed EXCEPT ![p] = {}]
  /\ UNCHANGED <<clock, writerVars, dry>>

\* commit, or rollback after a dry run; the answer to a commit can be lost.
Finish(p) ==
  /\ stage[p] = "commit"
  /\ \E end \in {"done", "failed"} : stage' = [stage EXCEPT ![p] = end]
  /\ rows' = rows \ doomed[p]
  /\ gone' = [gone EXCEPT ![p] = doomed[p]]
  /\ Close(p)
  /\ UNCHANGED matches

\* Any exception, or the process is stopped: the database rolls back and
\* nothing is reported.
Fail(p) ==
  /\ Running(p)
  /\ stage' = [stage EXCEPT ![p] = "failed"]
  /\ matches' = [matches EXCEPT ![p] = [k \in Kind |-> 0]]
  /\ Close(p)
  /\ UNCHANGED <<rows, gone>>

-----------------------------------------------------------------------------
(* Specification                                                           *)

Init ==
  /\ clock = 0
  /\ phase = [w \in Writer |-> "idle"]
  /\ stamp = [w \in Writer |-> 0]
  /\ rows = {}
  /\ stage = [p \in Purger |-> "idle"]
  /\ at = [p \in Purger |-> 1]
  /\ dry = [p \in Purger |-> FALSE]
  /\ start = [p \in Purger |-> 0]
  /\ matches = [p \in Purger |-> [k \in Kind |-> 0]]
  /\ doomed = [p \in Purger |-> {}]
  /\ gone = [p \in Purger |-> {}]

Statement(p) == Count(p) \/ Delete(p) \/ Finish(p)

Next ==
  \/ Tick
  \/ \E w \in Writer : Insert(w) \/ Record(w) \/ Discard(w)
  \/ \E p \in Purger : Start(p) \/ Statement(p) \/ Fail(p)

Spec == Init /\ [][Next]_vars

\* The database executes every statement unless it waits for a lock.
FairSpec == Spec /\ \A p \in Purger : WF_vars(Statement(p))

-----------------------------------------------------------------------------
(* Properties                                                              *)

\* Every run of the command is at one statement of its session.
TypeOK ==
  /\ clock \in 0 .. MaxClock
  /\ phase \in [Writer -> {"idle", "open", "closed"}]
  /\ stamp \in [Writer -> 0 .. MaxClock]
  /\ rows \subseteq Entry
  /\ stage \in [Purger -> {"idle", "count", "delete", "commit", "done", "failed"}]
  /\ at \in [Purger -> 1 .. 2]
  /\ dry \in [Purger -> BOOLEAN]
  /\ start \in [Purger -> 0 .. MaxClock]
  /\ matches \in [Purger -> [Kind -> Nat]]
  /\ doomed \in [Purger -> SUBSET Entry]
  /\ gone \in [Purger -> SUBSET Entry]

\* The tables a run has dealt with.
Passed(p, k) ==
  \/ stage[p] = "commit"
  \/ stage[p] \in {"count", "delete"} /\ \E i \in 1 .. 2 : i < at[p] /\ Order(p)[i] = k

\* Times never run ahead of the clock, and an open transaction is younger than
\* any cutoff and has committed nothing.
Timely ==
  /\ \A w \in Writer :
       /\ stamp[w] <= clock
       /\ phase[w] = "open" => clock <= stamp[w] + Lag
       /\ phase[w] # "closed" => \A e \in rows : e[1] # w
  /\ \A p \in Purger : start[p] <= clock

\* A run locks only rows of the tables it has passed that are older than its
\* cutoff, and all of them if it deletes at all; nobody else locks them.
Settled ==
  \A p \in Purger :
    /\ ~Running(p) \/ dry[p] => doomed[p] = {}
    /\ stage[p] = "idle" => at[p] = 1
    /\ stage[p] = "delete" => ~dry[p]
    /\ \A e \in doomed[p] : e \in Expired(e[2], start[p]) /\ Passed(p, e[2])
    /\ \A k \in Kind : Passed(p, k) /\ ~dry[p] => Expired(k, start[p]) \subseteq doomed[p]
    /\ \A q \in Purger \ {p} : doomed[p] \cap doomed[q] = {}

\* What makes a purge atomic although it works statement by statement.
RetentionInvariant == TypeOK /\ Timely /\ Settled

\* A dry run removes nothing, and no run removes more rows of a table than it
\* counted, so audit_deleted and usage_deleted never understate the loss:
\* count and delete are two statements, and rows come and go between them.
ReportNeverShort ==
  \A p \in Purger :
    /\ dry[p] => gone[p] = {}
    /\ \A k \in Kind : Cardinality({e \in gone[p] : e[2] = k}) <= matches[p][k]

\* Whatever overlaps, each purge acts as one step that removes exactly the rows
\* which were too old when it started, from both tables or, when it fails, from
\* neither.
Log == INSTANCE EventLog WITH
  table <- [e \in Entry |-> e[2]],
  now <- clock,
  log <- [e \in rows |-> stamp[e[1]]]

PurgesAreAtomic == Log!Spec

\* Runs of the command never wait for each other for ever.
EveryPurgeEnds ==
  \A p \in Purger : Running(p) ~> stage[p] \in {"done", "failed"}

=============================================================================
