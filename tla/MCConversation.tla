--------------------------- MODULE MCConversation ---------------------------
(* Instances of Conversation for TLC. *)
EXTENDS Conversation, TLC

CONSTANTS h1, h2

OneHandler == {h1}
TwoHandlers == {h1, h2}
\* Interchangeable requests; used only where no liveness is checked.
Interchangeable == Permutations(TwoHandlers)

GoodOrBad == {"PROCESSED", "FAILED"}
=============================================================================
