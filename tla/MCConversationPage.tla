------------------------- MODULE MCConversationPage -------------------------
(***************************************************************************)
(* An instance of ConversationPage for TLC: two questions may overlap, and *)
(* it does not matter which request carries which.                         *)
(***************************************************************************)
EXTENDS ConversationPage, TLC

CONSTANTS r1, r2

RequestSymmetry == Permutations(Requests)

\* A suggestion of a name has outlived its visit.
SuggestionIsLate == BagCardinality(naming) > (IF suggested THEN 1 ELSE 0)

\* Bound: beside a late suggestion one question is under way at a time.
OneThingAtATime ==
  SuggestionIsLate => Cardinality({r \in Requests : ask[r] # NoAsk}) <= 1

PageSpec == Init /\ [][Next /\ OneThingAtATime']_vars
=============================================================================
