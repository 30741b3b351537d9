---------------------------- MODULE MCAuditStore ----------------------------
(* AuditStore, for TLC.  Two records fill a segment, so that five of them  *)
(* are sealed twice.                                                       *)
EXTENDS AuditStore
=============================================================================
