---------------------------- MODULE MCOfficePool ----------------------------
(* Small instances of OfficePool for TLC.                                  *)
EXTENDS OfficePool, TLC

\* Offices are interchangeable: no constant and no property names one of them.
OfficeSymmetry == Permutations(Offices)
=============================================================================
