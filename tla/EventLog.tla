------------------------------ MODULE EventLog ------------------------------
(***************************************************************************)
(* What the retention command promises of the audit and usage tables: rows *)
(* are added with the time they are recorded, and a purge is one step that *)
(* removes all the rows that were too old at one moment, in both tables,   *)
(* and no other row.  Retention is shown to implement it.                  *)
(***************************************************************************)
EXTENDS Naturals

CONSTANTS
  Entry, \* rows that may ever be recorded
  Kind,  \* the tables
  table, \* the table of an entry
  Days   \* how long the rows of a table are kept

VARIABLES
  now,
  log    \* the timestamps of the rows that are there

Expires(e, t) == log[e] + Days[table[e]] < t

Init ==
  /\ now = 0
  /\ log = [e \in {} |-> 0]

Tick == now' = now + 1 /\ UNCHANGED log

\* One transaction's rows, with a time at which they are not yet too old.
Append(E, t) ==
  /\ E \cap DOMAIN log = {}
  /\ \A e \in E : now <= t + Days[table[e]]
  /\ log' = [e \in DOMAIN log \cup E |-> IF e \in E THEN t ELSE log[e]]
  /\ UNCHANGED now

Purge(t) ==
  /\ log' = [e \in {x \in DOMAIN log : ~Expires(x, t)} |-> log[e]]
  /\ UNCHANGED now

Next ==
  \/ Tick
  \/ \E t \in 0 .. now : Purge(t) \/ \E E \in SUBSET Entry : Append(E, t)

Spec == Init /\ [][Next]_<<now, log>>
=============================================================================
