---------------------------- MODULE MCHrSigning -----------------------------
(* Model checking of HrSigning: documents, keys, codes and employees are   *)
(* interchangeable.                                                        *)
EXTENDS HrSigning, TLC

Symmetry == Permutations(Docs) \cup Permutations(Keys) \cup Permutations(Codes)
            \cup Permutations(Employees)
=============================================================================
