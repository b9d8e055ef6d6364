---------------------------- MODULE MCScanStream ----------------------------
(* The service and one viewer for TLC; the values are in SerialFair.cfg.   *)
EXTENDS ScanStream
=============================================================================
