---------------------------- MODULE MCAnswerView ----------------------------
(* An instance of AnswerView for TLC. *)
EXTENDS AnswerView

\* One step of the analysis and the query it ends in.
ShortAnalysis == <<"GeneratingSql", "GeneratedSql">>
=============================================================================
