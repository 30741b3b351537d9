--------------------------- MODULE MCInferSessions ---------------------------
(* The instance of InferSessions that TLC checks.                          *)
EXTENDS InferSessions
==============================================================================
