------------------------------- MODULE Names --------------------------------
(***************************************************************************)
(* capability_tool_name_map of openapi/tools.py: the MCP tool names of the *)
(* capabilities that are visible together.  Names are computed anew for    *)
(* every listing and every call and stored nowhere.                        *)
(***************************************************************************)
EXTENDS Naturals, Sequences, FiniteSets, SequencesExt

CONSTANTS
  Capability,
  rank,    \* position in the order of capability ids
  base,    \* capability_tool_name: the normalized id
  hashed,  \* what _hashed_tool_name tries: base and 8, 16, ... hash digits
  digits,  \* the first 8 digits of the hash
  None

Hashed(c) == ToSet(hashed[c])

\* Ids are totally ordered.  A candidate is a base and a prefix of the hash,
\* parted by the last underscore, so equal candidates end in equal digits.
WellNamed ==
  /\ IsFiniteSet(Capability)
  /\ rank \in [Capability -> 1 .. Cardinality(Capability)]
  /\ \A c, d \in Capability : rank[c] = rank[d] => c = d
  /\ None \notin Capability
  /\ \A c \in Capability : hashed[c] \in Seq(STRING) /\ hashed[c] # <<>>
  /\ \A c, d \in Capability : Hashed(c) \cap Hashed(d) # {} => digits[c] = digits[d]
  /\ \A c \in Capability : base[c] # None /\ None \notin Hashed(c)

ASSUME NamesAssumption == WellNamed

Ambiguous(c, V) == \E d \in V \ {c} : base[d] = base[c]

\* Wrong on purpose, like every ...Mistake: the properties tell each from the
\* operator after it.  Here the normalized id is hashed instead of the id.
HashOfBaseMistake(c, used) ==
  CHOOSE n \in UNION {Hashed(d) : d \in {x \in Capability : base[x] = base[c]}} : n \notin used

FirstPrefixMistake(c, used) == hashed[c][1]

\* The shortest candidate not used yet; None where the code raises ValueError.
HashedToolName(c, used) ==
  LET free == {i \in DOMAIN hashed[c] : hashed[c][i] \notin used}
  IN  IF free = {} THEN None
      ELSE hashed[c][CHOOSE i \in free : \A j \in free : i <= j]

Before(c, V) == {d \in V : rank[d] < rank[c]}

\* The loop over the capabilities in id order, with the names used so far.
ToolNameMap(V) ==
  LET name[c \in V] ==
        IF Ambiguous(c, V) THEN HashedToolName(c, {name[d] : d \in Before(c, V)}) ELSE base[c]
  IN  name

\* Whether the whole map can be computed.
Complete(V) == \A c \in V : ToolNameMap(V)[c] # None

=============================================================================
