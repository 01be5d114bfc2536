-------------------------- MODULE MCCandidateQueue --------------------------
(***************************************************************************)
(* Segments of four rowids for CandidateQueue: a range batch and a fetch   *)
(* batch in vectors of their own, no candidate, a range batch that runs on *)
(* to the end of its vector, and two fetch batches.                        *)
(***************************************************************************)
EXTENDS CandidateQueue

\* Segments 0, 1, 2 and 3 of a table.
MixedSegments == <<<<0, 1, 3>>, <<>>, <<9, 10, 11>>, <<12, 15>>>>
MixedMatches == {1, 3, 9, 11, 12, 16, 17, 18, 20}
=============================================================================
