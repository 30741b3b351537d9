---------------------------- MODULE MCEnforcement ----------------------------
(* Instances of Enforcement: a grant that reaches both windows and a later  *)
(* task's that reaches one, under tables of every outcome.                  *)
EXTENDS Enforcement

CONSTANTS w1, w2, t1, t2

TheGrants == {[task |-> t1, windows |-> {w1, w2}], [task |-> t2, windows |-> {w1}]}

Decides(click, press) == [act \in Acts |-> IF act = "click" THEN click ELSE press]
TheTables  == {Decides("prompt", "allow"), Decides("defer", "deny")}
KeysAsked  == {Decides("allow", "prompt"), Decides("allow", "deny")}
==============================================================================
