---------------------------- MODULE MCPolicyLink ----------------------------
(* A small instance of PolicyLink: the constants are in its .cfg.          *)
EXTENDS PolicyLink
=============================================================================
