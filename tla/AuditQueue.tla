------------------------------ MODULE AuditQueue ------------------------------
(***************************************************************************)
(* The compositor's side of the audit channel (ec-abyss, audit/mod.rs):    *)
(* records of agents, of the human and link messages share one socket to   *)
(* policyd and one queue behind it.  A request waits for nothing: it is    *)
(* admitted with its record in the socket or refused.  What follows from   *)
(* it and link messages queue without bound, human records up to RING,     *)
(* past which they are counted and a gap marker tells how many.            *)
(*                                                                         *)
(* policyd reads at any moment, between any two sends of one handler too.  *)
(* What it took from the socket counts as journalled: AuditStore says what *)
(* becomes of it there.                                                    *)
(***************************************************************************)
EXTENDS AuditEntries

CONSTANTS
  Ring,        \* RING
  SocketCap,   \* records the socket takes
  MaxRecords,  \* bound on records made
  MaxDeaths    \* bound on policyd's deaths

ASSUME QueueAssumption ==
  /\ Ring \in Nat \ {0} /\ SocketCap \in Nat \ {0}
  /\ MaxRecords \in Nat /\ MaxDeaths \in Nat

VARIABLES
  hook,   \* the agents hook
  deaths

vars == <<hook, queue, made, admitted, refused, deaths>>

-----------------------------------------------------------------------------
(* policyd may read the oldest records at any moment.  The writable event  *)
(* comes once the socket has emptied, perhaps before.                      *)
Took(q) ==
  LET Read(k, e) == [q EXCEPT !.got = @ \o SubSeq(q.socket, 1, k), !.socket = SubSeq(@, k + 1, Len(@)), !.edge = e]
      Told(k) == IF q.edge \/ k = Len(q.socket) THEN {TRUE} ELSE BOOLEAN
  IN  {q} \cup UNION {{Read(k, e) : e \in Told(k)} : k \in 1..Len(q.socket)}

CanSend(q) == q.up /\ q.alive /\ Len(q.socket) < SocketCap
TrySend(q, r) == [q EXCEPT !.socket = Append(@, r)]

(* flush: queued records until the socket is full or the queue is empty,   *)
(* then the gap marker.                                                    *)
TellGap_Kept(q) ==
  IF q.pending = <<>> /\ q.dropped > 0 /\ CanSend(q) THEN TrySend(q, Gap(q.dropped)) ELSE q
TellGap(q) ==
  IF q.pending = <<>> /\ q.dropped > 0 /\ CanSend(q)
  THEN [TrySend(q, Gap(q.dropped)) EXCEPT !.dropped = 0] ELSE q

Waits(q)    == q.pending # <<>> /\ CanSend(q)
SendNext(q) == [TrySend(q, Head(q.pending)) EXCEPT !.pending = Tail(@)]
Flush(q) ==
  LET sent[k \in 0..Len(q.pending)] ==
        IF k = 0 THEN Took(q) ELSE UNION {Took(SendNext(p)) : p \in {s \in sent[k-1] : Waits(s)}}
      left == UNION {sent[k] : k \in 0..Len(q.pending)}
  IN  UNION {Took(TellGap(p)) : p \in {s \in left : ~Waits(s)}}

-----------------------------------------------------------------------------
QueueHuman(q, r) ==
  IF Len(q.pending) >= Ring THEN [q EXCEPT !.dropped = @ + 1]
  ELSE [q EXCEPT !.pending = @ \o (IF q.dropped > 0 THEN <<Gap(q.dropped), r>> ELSE <<r>>), !.dropped = 0]

Backlogged(q) == q.pending # <<>>

Record(kind) == [kind |-> kind, n |-> made + 1]

Makes(kind) ==
  /\ kind = "message" \/ hook
  /\ made < MaxRecords /\ made' = made + 1
  /\ UNCHANGED <<hook, deaths>>

(* begin: nothing may be ahead of the request.                             *)
Begin_Queued ==
  /\ Makes("request")
  /\ \E q \in Flush(queue) :
       IF ~Backlogged(q)
       THEN /\ queue' = IF CanSend(q) THEN TrySend(q, Record("request"))
                        ELSE [q EXCEPT !.pending = Append(@, Record("request"))]
            /\ admitted' = admitted \cup {made'} /\ UNCHANGED refused
       ELSE queue' = q /\ refused' = refused \cup {made'} /\ UNCHANGED admitted
Begin_Ahead ==
  /\ Makes("request")
  /\ \E q \in Flush(queue) :
       IF CanSend(q)
       THEN queue' = TrySend(q, Record("request")) /\ admitted' = admitted \cup {made'} /\ UNCHANGED refused
       ELSE queue' = q /\ refused' = refused \cup {made'} /\ UNCHANGED admitted
Begin ==
  /\ Makes("request")
  /\ \E q \in Flush(queue) :
       IF ~Backlogged(q) /\ CanSend(q)
       THEN queue' = TrySend(q, Record("request")) /\ admitted' = admitted \cup {made'} /\ UNCHANGED refused
       ELSE queue' = q /\ refused' = refused \cup {made'} /\ UNCHANGED admitted

Agent ==
  /\ Makes("agent")
  /\ \E q \in Flush(queue) :
       queue' = IF ~Backlogged(q) /\ CanSend(q) THEN TrySend(q, Record("agent"))
                ELSE [q EXCEPT !.pending = Append(@, Record("agent"))]
  /\ UNCHANGED <<admitted, refused>>

Message ==
  /\ Makes("message")
  /\ queue' \in Flush([queue EXCEPT !.pending = Append(@, Record("message"))])
  /\ UNCHANGED <<admitted, refused>>

Human ==
  /\ Makes("human")
  /\ \E q \in Flush(queue) :
       queue' = IF ~Backlogged(q) /\ CanSend(q) THEN TrySend(q, Record("human"))
                ELSE QueueHuman(q, Record("human"))
  /\ UNCHANGED <<admitted, refused>>

-----------------------------------------------------------------------------
Quiet == UNCHANGED <<made, admitted, refused>>

PolicydReads ==
  /\ queue.socket # <<>> /\ queue' \in Took(queue) \ {queue}
  /\ UNCHANGED <<hook, deaths>> /\ Quiet

(* up's writable source, edge-triggered.                                   *)
Writable_Level == queue.up /\ queue.edge /\ queue' = [queue EXCEPT !.edge = FALSE] /\ UNCHANGED <<hook, deaths>> /\ Quiet
Writable ==
  /\ queue.up /\ queue.edge
  /\ queue' \in Flush([queue EXCEPT !.edge = FALSE])
  /\ UNCHANGED <<hook, deaths>> /\ Quiet

(* up; a new source reports a writable socket once.                        *)
Up ==
  /\ hook /\ ~queue.up
  /\ queue' \in Flush([queue EXCEPT !.up = TRUE, !.alive = TRUE, !.edge = TRUE])
  /\ UNCHANGED <<hook, deaths>> /\ Quiet

Cut(q) == [q EXCEPT !.alive = FALSE, !.socket = <<>>, !.lost = @ \o q.socket]
Down(q) == [q EXCEPT !.up = FALSE, !.edge = FALSE]

PolicydDies ==
  /\ queue.alive /\ deaths < MaxDeaths /\ deaths' = deaths + 1
  /\ queue' = Cut(queue) /\ UNCHANGED hook /\ Quiet

(* down, as the link's reader sees the end of the stream.                  *)
LinkDown ==
  /\ queue.up /\ ~queue.alive /\ queue' = Down(queue) /\ UNCHANGED <<hook, deaths>> /\ Quiet

(* The agents hook takes the link with it; policyd still reads what was    *)
(* sent, or dies before.                                                   *)
HookChanges ==
  /\ hook' = ~hook
  /\ IF hook
     THEN \E q \in Took(queue) : queue' = Down(Cut(q))
     ELSE UNCHANGED queue
  /\ UNCHANGED deaths /\ Quiet

-----------------------------------------------------------------------------
Init ==
  /\ hook = FALSE /\ made = 0 /\ admitted = {} /\ refused = {} /\ deaths = 0
  /\ queue = [up |-> FALSE, alive |-> FALSE, edge |-> FALSE, pending |-> <<>>, dropped |-> 0,
              socket |-> <<>>, got |-> <<>>, lost |-> <<>>]

Next ==
  \/ Begin \/ Agent \/ Message \/ Human
  \/ PolicydReads \/ Writable \/ Up \/ PolicydDies \/ LinkDown \/ HookChanges

(* policyd reads its socket, and the loop delivers the writable event.     *)
Spec == Init /\ [][Next]_vars /\ WF_vars(PolicydReads) /\ WF_vars(Writable)

-----------------------------------------------------------------------------
(* Human records wait within the ring and a marker; agents' records and    *)
(* link messages wait behind them without bound (mod.rs:12, 455).          *)
TypeOK ==
  /\ hook \in BOOLEAN /\ made \in 0..MaxRecords /\ deaths \in 0..MaxDeaths
  /\ admitted \cup refused \subseteq 1..made
  /\ queue.up \in BOOLEAN /\ queue.alive \in BOOLEAN /\ queue.edge \in BOOLEAN
  /\ Len(queue.socket) <= SocketCap /\ queue.dropped \in 0..made
  /\ \A r \in ToSet(queue.pending \o queue.socket \o queue.got \o queue.lost) :
       r.kind \in Kinds \cup {"gap"} /\ r.n \in 1..made
  /\ \A i \in DOMAIN queue.pending : queue.pending[i].kind = "human" => i <= Ring + 1

(* What queued while the link was down or the socket full goes out, the    *)
(* count of dropped records with it, once the link stays: the one writable *)
(* event there may be is enough (mod.rs:124, 411).                         *)
DrainsOnceUp ==
  <>[](queue.up /\ queue.alive) => <>[](queue.pending = <<>> /\ queue.dropped = 0 /\ queue.socket = <<>>)
=============================================================================
