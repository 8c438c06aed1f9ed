--------------------------- MODULE MCHrEnrolment ----------------------------
(* Model checking of HrEnrolment: telephones, packages, keys and codes are *)
(* interchangeable, and each set is permuted on its own.                   *)
EXTENDS HrEnrolment, TLC

Symmetry == Permutations(Phones) \cup Permutations(Packages) \cup Permutations(Keys)
            \cup Permutations(Codes)
=============================================================================
