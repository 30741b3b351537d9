---------------------------- MODULE MCTrustedPrompts ----------------------------
EXTENDS TrustedPrompts

=============================================================================
