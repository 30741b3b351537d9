------------------------------- MODULE Journal -------------------------------
(***************************************************************************)
(* What policyd's audit store promises whoever writes to it: a log that    *)
(* only grows at its end, of which what is on disk survives whatever       *)
(* happens to the process or the machine.  TaskStore is written against    *)
(* this; AuditStore implements it with segment files.  The promise is as   *)
(* long as no seal is left unfinished: then an open may give up what was   *)
(* on disk of that segment, and a sync need not reach past it.             *)
(***************************************************************************)
EXTENDS Integers, Sequences

VARIABLES
  log,       \* the records there are, in chain order
  durable,   \* how many of them would survive a power loss
  unfinished \* whether a process died before it had synced a sealed segment

jvars == <<log, durable, unfinished>>

Init == log = <<>> /\ durable = 0 /\ unfinished = FALSE

(* What a sync puts on disk of a log.                                      *)
Reached(recs) ==
  {Len(recs)} \cup (IF unfinished THEN durable..Len(recs) ELSE {})

(* A record is appended; appending may sync everything up to it too.       *)
Append1 ==
  /\ Len(log') = Len(log) + 1
  /\ SubSeq(log', 1, Len(log)) = log
  /\ durable' \in {durable} \cup Reached(log')
  /\ UNCHANGED unfinished

Sync == durable' \in Reached(log) /\ UNCHANGED <<log, unfinished>>

(* A crash loses a suffix, never a record that is on disk.  It may leave a *)
(* seal unfinished, and when it is the machine that stops, what it leaves  *)
(* is on disk.                                                             *)
Lose ==
  \E n \in durable..Len(log) :
    /\ log' = SubSeq(log, 1, n)
    /\ \/ durable' = durable /\ unfinished' \in BOOLEAN
       \/ durable' = n /\ unfinished' = FALSE

(* An open trusts the unfinished seal, and cuts the other copy.            *)
Unsync ==
  /\ unfinished
  /\ durable' \in 0..durable
  /\ UNCHANGED <<log, unfinished>>

Next == Append1 \/ Sync \/ Lose \/ Unsync

Spec == Init /\ [][Next]_jvars
==============================================================================
