----------------------------- MODULE MCTaskStore -----------------------------
(* TaskStore on a small instance for TLC: anything may happen to two tasks *)
(* in a short journal, and in a longer one three tasks of one principal    *)
(* are opened, resumed and cancelled.  Crashes come anywhere in both.      *)
EXTENDS TaskStore

CONSTANTS MaxAnything  \* bound on the records when anything may happen

Written  == journal \o (IF op = None THEN <<>> ELSE op.todo)
Of(kind) == { Written[i] : i \in { k \in DOMAIN Written : Written[k].kind = kind } }
Drawn(kind) == { r.id : r \in Of(kind) }
Owners == { r.task.principal : r \in Of("task") }

Anything ==
  /\ Len(Written) <= MaxAnything
  /\ Cardinality(Drawn("task")) <= 2 /\ Cardinality(Drawn("grant")) <= 2

Openings == { Written[i].id : i \in
  { k \in 2..Len(Written) : /\ Written[k].kind = "grant" /\ Written[k-1].kind = "task"
                            /\ Written[k].grant.task = Written[k-1].id } }

Chains ==
  /\ now = 0
  /\ Cardinality(Owners) <= 1
  /\ \A r \in Of("task") : r.task.state \in {"active", "cancelled"} /\ r.task.spent = 0
  /\ Drawn("grant") = Openings

(* Names are numbers, drawn in order: one fresh name is as good as another.*)
InOrder == \A used \in {Drawn("task"), Drawn("grant"), Owners} : used = 1..Cardinality(used)

MCNext == Next /\ InOrder' /\ (Anything \/ Chains)'
MCSpec == Init /\ [][MCNext]_vars
==============================================================================
