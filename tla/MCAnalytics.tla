---------------------------- MODULE MCAnalytics ----------------------------
(* Small instances of the analytics ingestion: three orders.               *)
EXTENDS Analytics, TLC

CONSTANTS e1, e2, e3, none, f1, f2

=============================================================================
