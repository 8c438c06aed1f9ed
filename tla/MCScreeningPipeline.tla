------------------------ MODULE MCScreeningPipeline -------------------------
(* Model checking of ScreeningPipeline: requests, tasks and texts are      *)
(* interchangeable.                                                        *)
EXTENDS ScreeningPipeline, TLC

Symmetry == Permutations(Requests) \cup Permutations(Jobs) \cup Permutations(Texts)
=============================================================================
