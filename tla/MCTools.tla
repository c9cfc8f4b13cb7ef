------------------------------ MODULE MCTools -------------------------------
(* Three capabilities of one normalized id, two of them with the same first  *)
(* hash digits, one with a normalized id of its own, and one whose           *)
(* normalized id reads like a hashed name of the third.                      *)
EXTENDS ToolNames

CONSTANTS c1, c2, c3, c4, c5

MCRank == [c \in Capability |->
             CASE c = c1 -> 1 [] c = c2 -> 2 [] c = c3 -> 3 [] c = c4 -> 4 [] c = c5 -> 5]

MCBase == [c \in Capability |->
             CASE c = c4 -> "list" [] c = c5 -> "search_dd" [] OTHER -> "search"]

MCHashed ==
  [c \in Capability |->
     CASE c = c1 -> <<"search_aa", "search_aabb">>
       [] c = c2 -> <<"search_aa", "search_aacc">>
       [] c = c3 -> <<"search_dd", "search_ddee">>
       [] c = c4 -> <<"list_ff", "list_ffgg">>
       [] c = c5 -> <<"search_dd_hh", "search_dd_hhii">>]

MCDigits == [c \in Capability |-> CASE c \in {c1, c2} -> "aa" [] c = c3 -> "dd"
                                    [] c = c4 -> "ff" [] c = c5 -> "hh"]

\* No two prefixes alike.
MCDistinctHashes ==
  [c \in Capability |->
     CASE c = c1 -> <<"search_aa">>
       [] c = c2 -> <<"search_cc">>
       [] c = c3 -> <<"search_dd">>
       [] c = c4 -> <<"list_ff">>
       [] c = c5 -> <<"search_dd_hh">>]

MCDistinctDigits ==
  [c \in Capability |-> CASE c = c1 -> "aa" [] c = c2 -> "cc" [] c = c3 -> "dd"
                          [] c = c4 -> "ff" [] c = c5 -> "hh"]
=============================================================================
