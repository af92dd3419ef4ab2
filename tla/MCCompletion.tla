---------------------------- MODULE MCCompletion ----------------------------
(* Instances of Completion for TLC. *)
EXTENDS Completion

\* Two of the 14 events of an analysis, one sent while the catalog is read and one after.
ShortAnalysis == <<"GeneratingCandidateHypothesis", "GeneratedSql">>
=============================================================================
