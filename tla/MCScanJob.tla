------------------------------ MODULE MCScanJob ------------------------------
(***************************************************************************)
(* ScanJob for TLC: three runs, so that a result can be late for one that  *)
(* was abandoned and for one that was started after it.                    *)
(***************************************************************************)
EXTENDS ScanJob

MCMaxRuns == 3
=============================================================================
