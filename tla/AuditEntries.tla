----------------------------- MODULE AuditEntries -----------------------------
(***************************************************************************)
(* What stands in the compositor's audit queue, its socket and beyond, and *)
(* what audit/mod.rs promises of it.  AuditQueue says what the handlers    *)
(* and the link do.                                                        *)
(***************************************************************************)
EXTENDS Integers, Sequences, SequencesExt, FiniteSets

VARIABLES
  queue,     \* Audit and its socket, see below
  made,      \* records made so far; each has its number
  admitted,  \* history: requests let in while the hook was on
  refused    \* history: records that were not kept: requests refused

(* The parts of queue:                                                     *)
(*   up        Audit::fd is set              alive   policyd's end is open *)
(*   edge      the writable source has an event to deliver                 *)
(*   pending, dropped      Audit::pending, Audit::dropped                  *)
(*   socket    sent and not read             got     read                  *)
(*   lost      in the socket when policyd's end closed                     *)

Kinds == {"request", "agent", "message", "human"}
Gap(n) == [kind |-> "gap", n |-> n]

IsRecord(r)  == r.kind # "gap"
NumbersIn(s) == {r.n : r \in {x \in ToSet(s) : IsRecord(x)}}

-----------------------------------------------------------------------------
Rising(s) == \A i, j \in DOMAIN s : i < j /\ IsRecord(s[i]) /\ IsRecord(s[j]) => s[i].n < s[j].n

(* No record overtakes another, whatever its kind and however often the    *)
(* link came and went: what policyd reads is in the order things happened, *)
(* with holes where it died (mod.rs:462 "a request is never seen by        *)
(* policyd ahead of the records that led to it").                          *)
NoneOvertakes ==
  Rising(queue.got \o queue.socket \o queue.pending) /\ Rising(queue.lost \o queue.socket \o queue.pending)

(* A marker tells of as many as it counts, a record of itself.             *)
Tells(s) ==
  LET upTo[i \in 0..Len(s)] ==
        IF i = 0 THEN 0 ELSE upTo[i-1] + (IF IsRecord(s[i]) THEN 1 ELSE s[i].n)
  IN  upTo[Len(s)]

(* Every record made is read, on its way or queued, or was answered        *)
(* paused, or is told of by a marker or will be, once; but for what was in *)
(* the socket when policyd's end closed, of which no marker tells (down,   *)
(* mod.rs:424): nothing else goes missing and nothing is told twice.       *)
MissingIsToldOrCut ==
  made = Tells(queue.got \o queue.socket \o queue.pending) + Tells(queue.lost)
         + Cardinality(refused) + queue.dropped

(* "The channel is lossless" (mod.rs:8): every record that was kept is, or *)
(* is counted by a marker.                                                 *)
NothingIsLost ==
  made = Tells(queue.got \o queue.socket \o queue.pending)
         + Cardinality(refused) + queue.dropped

(* An agent's request that goes ahead has its record out of the            *)
(* compositor and nothing recorded before it waits (mod.rs:10 "only once   *)
(* its request record is in the socket and nothing is queued ahead of it").*)
(* Should policyd die before it reads, the record is lost all the same.    *)
AdmittedIsOut ==
  \A n \in admitted :
    /\ n \in NumbersIn(queue.got \o queue.lost \o queue.socket)
    /\ \A m \in NumbersIn(queue.pending) : m > n
===============================================================================
