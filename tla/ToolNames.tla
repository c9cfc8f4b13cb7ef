----------------------------- MODULE ToolNames ------------------------------
(***************************************************************************)
(* What becomes of an MCP tool name a client keeps: GET /mcp/tools lists   *)
(* the capabilities an agent and user may invoke under the names of        *)
(* openapi/tools.py, and a later POST /mcp/call maps a name back with a    *)
(* map computed anew.  How visibility is decided, statement by statement,  *)
(* is Invocation's subject; here the set of visible capabilities just      *)
(* changes.                                                                *)
(***************************************************************************)
EXTENDS Names

VARIABLES
  visible, \* the capabilities the agent and user may invoke now
  kept,    \* the names the client was given, with what each stood for
  call,    \* the last call: the name and the capability it ran
  fresh    \* history: nothing became visible or invisible since the listing

vars == <<visible, kept, call, fresh>>

-----------------------------------------------------------------------------
(* Listing and lookup                                                      *)

Pairs(V) == {<<c, ToolNameMap(V)[c]>> : c \in V}

AllNamesMistake(name) ==
  LET hits == {c \in visible : ToolNameMap(Capability)[c] = name}
  IN  IF hits = {} THEN None ELSE CHOOSE c \in hits : Before(c, hits) = {}

\* _get_mcp_capability_by_tool_name: the first visible capability of that name.
Resolve(name) ==
  LET hits == {c \in visible : ToolNameMap(visible)[c] = name}
  IN  IF hits = {} THEN None ELSE CHOOSE c \in hits : Before(c, hits) = {}

-----------------------------------------------------------------------------
(* Behaviour                                                               *)

Init ==
  /\ visible \in SUBSET Capability
  /\ kept = {}
  /\ call = [name |-> None, kept |-> None, ran |-> None]
  /\ fresh = FALSE

\* An admin grants or withdraws one capability.
Change(c) ==
  /\ visible' = IF c \in visible THEN visible \ {c} ELSE visible \cup {c}
  /\ fresh' = FALSE
  /\ UNCHANGED <<kept, call>>

\* GET /mcp/tools.  It fails, and so does a call, when a name is missing.
List ==
  /\ Complete(visible)
  /\ kept' = Pairs(visible)
  /\ fresh' = TRUE
  /\ UNCHANGED <<visible, call>>

\* POST /mcp/call with a name the client keeps
Call ==
  /\ Complete(visible)
  /\ \E p \in kept :
       call' = [name |-> p[2], kept |-> p[1], ran |-> Resolve(p[2])]
  /\ UNCHANGED <<visible, kept, fresh>>

Next == List \/ Call \/ \E c \in Capability : Change(c)

Spec == Init /\ [][Next]_vars

-----------------------------------------------------------------------------
(* Properties                                                              *)

\* The one way two names can meet: the normalized id of d, taken as it is,
\* reads like a hashed name already given to a capability before it.
Poses(d, c) == base[d] \in Hashed(c) /\ rank[c] < rank[d]

\* A listing names every visible capability once, and no two of them alike
\* unless one poses as the other, although hash prefixes may collide and names
\* are chosen one after the other (openapi/tools.py:35-53).
NamesUnique ==
  Complete(visible) =>
    /\ {p[1] : p \in Pairs(visible)} = visible
    /\ \A p, q \in Pairs(visible) :
         p[2] = q[2] => p = q \/ Poses(p[1], q[1]) \/ Poses(q[1], p[1])

\* While nothing changed since the listing, a name runs what it was listed for,
\* or the earlier capability that the listed one poses as: the call computes the
\* same map again from its own queries (api/runtime.py:551-565).
ListedNamesWork ==
  fresh => \A p \in kept : Resolve(p[2]) \in {p[1]} \cup {c \in Capability : Poses(p[1], c)}

\* Whatever changed since, a name with a hash never runs another capability than
\* the one it was listed for, as long as the first hash digits of the two differ
\* (openapi/tools.py:65-76).
HashedNamesNeverMove ==
  [][\A c, d \in Capability :
       (/\ call' # call /\ call'.kept = c /\ call'.ran = d
        /\ digits[c] # digits[d]
        /\ call'.name \notin {base[x] : x \in Capability})
       => c = d]_vars

\* CONTRACTS.md:89 says "Tool names are stable and derived from capability ids."
\* A name without a hash belongs to whichever of the capabilities with that
\* normalized id is visible alone, so the name a client keeps can come to run
\* another capability (openapi/tools.py:46-50).
NamesStable ==
  [][call' # call => call'.ran \in {call'.kept, None}]_vars

=============================================================================
