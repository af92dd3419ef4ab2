---------------------------- MODULE MCAiSummary ----------------------------
(* Instances of AiSummary for TLC. *)
EXTENDS AiSummary

TwoHandlers == {"h1", "h2"}
ThreeHandlers == {"h1", "h2", "h3"}
OnePrompt == {"p1"}
TwoPrompts == {"p1", "p2"}
=============================================================================
