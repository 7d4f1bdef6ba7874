--------------------------- MODULE MCReportLogger ---------------------------
(* An instance of ReportLogger for TLC. *)
EXTENDS ReportLogger

CONSTANTS p1, p2, p3

ThreePids == {p1, p2, p3}
=============================================================================
