---------------------------- MODULE MCRetention -----------------------------
(* An invocation (both records), an admin command (audit only), two runs.   *)
EXTENDS Retention, TLC

CONSTANTS invocation, command, p1, p2

MCWrites == (invocation :> Kind) @@ (command :> {"audit"})

MCDays == ("audit" :> 2) @@ ("usage" :> 3)
=============================================================================
