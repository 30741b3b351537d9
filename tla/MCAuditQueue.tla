---------------------------- MODULE MCAuditQueue ----------------------------
(* The instance of AuditQueue that TLC checks.                             *)
EXTENDS AuditQueue
=============================================================================
