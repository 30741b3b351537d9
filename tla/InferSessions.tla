---------------------------- MODULE InferSessions ----------------------------
(***************************************************************************)
(* The inference router's warm sessions (ec-inferenced, claude_code.rs and *)
(* server.rs): one sandboxed process per task, started by the request that *)
(* needs it and kept for the next one.  Requests run on threads of their   *)
(* own, serialised per task by the slot's session lock; the connection's   *)
(* reader handles a task's close and the reaper ends idle and dead         *)
(* sessions, neither of which waits for a request.                         *)
(*                                                                         *)
(* A step is what a thread does between two points where another's step    *)
(* makes a difference: a kill is one step, for what a starter makes before *)
(* it is killed and what it makes after it finds itself dead.  Reference   *)
(* counts are modelled: a slot nobody holds is dropped and its process     *)
(* killed.  What is said in a turn is not modelled.                        *)
(***************************************************************************)
EXTENDS Integers, FiniteSets

CONSTANTS
  Tasks, Requests,
  MaxSessions,   \* ClaudeConfig::max_sessions
  Tries,         \* rounds of Inner::complete
  MaxSlots       \* bound on slots held at once

ASSUME SessionsAssumption ==
  /\ MaxSessions \in Nat \ {0} /\ Tries \in Nat \ {0} /\ MaxSlots \in Nat
  /\ Requests \cap {"none", "reaper"} = {} /\ "none" \notin Tasks

VARIABLES
  reqs,      \* the request threads
  slots,     \* Slot: closed, who holds its session lock, ctl, session
  registered,\* Inner::slots
  procs,     \* the process a request started, by request: Ctl
  killers,   \* the reader handling a close, and the reaper
  over       \* history: tasks whose close the reader has handled

vars == <<reqs, slots, registered, procs, killers, over>>

None == "none"
SlotIds == 1..MaxSlots
NewSlot == [closed |-> FALSE, lock |-> None, ctl |-> None, session |-> FALSE]
NewProc == [child |-> "none", dead |-> FALSE, dir |-> FALSE]

(* Ctl::kill.                                                              *)
Killed(p) == [p EXCEPT !.child = "none", !.dead = TRUE, !.dir = FALSE]

(* Ctl::exited.                                                            *)
Exited(p) == p.dead \/ p.child = "exited"

(* The slots somebody holds: the map, a request, a close, the reaper.      *)
Held(rq, kl, reg) ==
  ({reg[t] : t \in Tasks} \cup {rq[r].slot : r \in Requests} \cup {kl.close.slot, kl.reaper.slot}) \ {0}

(* A step leaves this; a slot it let go of is dropped with its process.    *)
Leaves(rq, sl, reg, pr, kl) ==
  \E kept \in {Held(rq, kl, reg)} : \E dropped \in {{sl[s].ctl : s \in SlotIds \ kept}} :
      /\ reqs' = rq /\ registered' = reg /\ killers' = kl
      /\ slots' = [s \in SlotIds |-> IF s \in kept THEN sl[s] ELSE NewSlot]
      /\ procs' = [p \in Requests |-> IF p \in dropped THEN Killed(pr[p]) ELSE pr[p]]

Steps(r, rec, sl, reg, pr) == Leaves([reqs EXCEPT ![r] = rec], sl, reg, pr, killers) /\ UNCHANGED over

At(r, a) == reqs[r].at = a
To(r, a) == [reqs[r] EXCEPT !.at = a]
Answered(r) == [reqs[r] EXCEPT !.at = "done", !.slot = 0, !.tries = 0]
Without(s) == [t \in Tasks |-> IF registered[t] = s THEN 0 ELSE registered[t]]
Kill(p) == [q \in Requests |-> IF q = p THEN Killed(procs[q]) ELSE procs[q]]

-----------------------------------------------------------------------------
(* dispatch gives it a thread.  agentd sends none for a task it closed.    *)
Arrive(r, t) ==
  At(r, "new") /\ t \notin over /\ Steps(r, [To(r, "find") EXCEPT !.task = t], slots, registered, procs)

(* slot_for.                                                               *)
Find(r) ==
  LET t == reqs[r].task
      free == SlotIds \ Held(reqs, killers, registered)
      full == Cardinality({u \in Tasks : registered[u] # 0}) >= MaxSessions
      Has(s) == [reqs[r] EXCEPT !.at = "wait", !.slot = s, !.tries = @ + 1]
  IN  /\ At(r, "find")
      /\ IF registered[t] # 0 THEN Steps(r, Has(registered[t]), slots, registered, procs)
         ELSE IF full THEN Steps(r, Answered(r), slots, registered, procs)
         ELSE /\ free # {}
              /\ LET s == CHOOSE s \in free : TRUE
                 IN  Steps(r, Has(s), slots, [registered EXCEPT ![t] = s], procs)

(* The session lock, and a slot closed meanwhile is forgotten and another  *)
(* looked for.  Else plan_for: the session goes on, or, always possible,   *)
(* its process is killed and another started.                              *)
Lock(r) ==
  LET s == reqs[r].slot  p == slots[s].ctl
  IN  /\ At(r, "wait") /\ slots[s].lock = None
      /\ \/ /\ slots[s].closed
            /\ Steps(r, IF reqs[r].tries < Tries THEN [To(r, "find") EXCEPT !.slot = 0] ELSE Answered(r),
                     slots, Without(s), procs)
         \/ /\ ~slots[s].closed /\ slots[s].session /\ ~Exited(procs[p])
            /\ Steps(r, To(r, "turn"), [slots EXCEPT ![s].lock = r], registered, procs)
         \/ /\ ~slots[s].closed
            /\ Steps(r, To(r, "install"), [slots EXCEPT ![s] = [@ EXCEPT !.lock = r, !.session = FALSE, !.ctl = None]],
                     registered, Kill(p))

-----------------------------------------------------------------------------
(* start: the token, which may fail, then install.  A start that fails     *)
(* kills what it made; the slot keeps the dead Ctl.                        *)
Fails(r) == Steps(r, To(r, "leave"), slots, registered, Kill(r))

Install_Unseen(r) ==
  LET s == reqs[r].slot
  IN  At(r, "install") /\ Steps(r, To(r, "start"), [slots EXCEPT ![s].ctl = r], registered, Kill(slots[s].ctl))
Install(r) ==
  LET s == reqs[r].slot
  IN  /\ At(r, "install")
      /\ \/ Fails(r)
         \/ ~slots[s].closed /\ Steps(r, To(r, "start"), [slots EXCEPT ![s].ctl = r], registered, Kill(slots[s].ctl))

(* start_in: the directory, the child, and the look whether it was killed  *)
(* before it had either.                                                   *)
Start(r) ==
  /\ At(r, "start")
  /\ \/ Steps(r, To(r, "check"), slots, registered, [procs EXCEPT ![r].dir = TRUE, ![r].child = "run"])
     \/ Fails(r)

Check_Trusting(r) == At(r, "check") /\ Steps(r, To(r, "turn"), [slots EXCEPT ![reqs[r].slot].session = TRUE], registered, procs)
Check(r) ==
  /\ At(r, "check")
  /\ IF procs[r].dead THEN Fails(r)
     ELSE Steps(r, To(r, "turn"), [slots EXCEPT ![reqs[r].slot].session = TRUE], registered, procs)

-----------------------------------------------------------------------------
(* read_turn: it ends, or fails for the process's end or for time; then    *)
(* the session is not to be trusted.                                       *)
TurnEnds(r) == At(r, "turn") /\ Steps(r, To(r, "leave"), slots, registered, procs)
TurnFails(r) ==
  LET s == reqs[r].slot
  IN  /\ At(r, "turn")
      /\ Steps(r, To(r, "leave"), [slots EXCEPT ![s].session = FALSE, ![s].ctl = None], registered, Kill(slots[s].ctl))

(* complete's end: the lock is let go, then an empty slot forgotten.       *)
Leave_Done(r) ==
  LET s == reqs[r].slot
  IN  /\ At(r, "leave")
      /\ Steps(r, Answered(r), [slots EXCEPT ![s].lock = None], registered, procs)
Leave_Locked(r) ==
  LET s == reqs[r].slot
  IN  /\ At(r, "leave")
      /\ IF ~slots[s].session THEN Steps(r, To(r, "forget"), slots, registered, procs)
         ELSE Steps(r, Answered(r), [slots EXCEPT ![s].lock = None], registered, procs)
Leave(r) ==
  LET s == reqs[r].slot
  IN  /\ At(r, "leave")
      /\ Steps(r, IF ~slots[s].session THEN To(r, "forget") ELSE Answered(r),
               [slots EXCEPT ![s].lock = None], registered, procs)
Forget(r) ==
  /\ At(r, "forget")
  /\ Steps(r, Answered(r), slots, Without(reqs[r].slot), procs)

Request(r) ==
  \/ Find(r) \/ Lock(r) \/ Install(r) \/ Start(r) \/ Check(r)
  \/ TurnEnds(r) \/ TurnFails(r) \/ Leave(r) \/ Forget(r)

-----------------------------------------------------------------------------
(* close, on the reader's thread: out of the map, then Slot::close.        *)
CloseArrives(t) ==
  /\ killers.close.at = "rest" /\ t \notin over /\ over' = over \cup {t}
  /\ Leaves(reqs, slots, [registered EXCEPT ![t] = 0], procs,
            IF registered[t] = 0 THEN killers
            ELSE [killers EXCEPT !.close = [at |-> "mark", slot |-> registered[t]]])

Rest == [at |-> "rest", slot |-> 0]

(* Slot::close.                                                            *)
Mark ==
  LET s == killers.close.slot
  IN  /\ killers.close.at = "mark" /\ UNCHANGED over
      /\ Leaves(reqs, [slots EXCEPT ![s].closed = TRUE], registered, procs, [killers EXCEPT !.close.at = "take"])
Take ==
  LET s == killers.close.slot
  IN  /\ killers.close.at = "take" /\ UNCHANGED over
      /\ Leaves(reqs, [slots EXCEPT ![s].ctl = None], registered, Kill(slots[s].ctl), [killers EXCEPT !.close = Rest])

(* The reaper comes to a slot it has listed; it passes over one that a     *)
(* request holds, and closes one that is idle or whose process exited.     *)
(* Nobody but a close sees between its steps.                              *)
ReaperPicks(t) ==
  /\ killers.reaper.at = "rest" /\ registered[t] # 0
  /\ killers' = [killers EXCEPT !.reaper = [at |-> "try", slot |-> registered[t]]]
  /\ UNCHANGED <<reqs, slots, registered, procs, over>>

ReaperTries_Dead ==
  LET k == killers.reaper  p == slots[k.slot].ctl
  IN  /\ k.at = "try" /\ UNCHANGED over
      /\ IF slots[k.slot].lock = None /\ p # None /\ Exited(procs[p])
         THEN Leaves(reqs, [slots EXCEPT ![k.slot].lock = "reaper", ![k.slot].closed = TRUE], registered, procs,
                     [killers EXCEPT !.reaper.at = "take"])
         ELSE Leaves(reqs, slots, registered, procs, [killers EXCEPT !.reaper = Rest])
ReaperTries ==
  LET k == killers.reaper
  IN  /\ k.at = "try" /\ UNCHANGED over
      /\ IF slots[k.slot].lock = None
         THEN Leaves(reqs, [slots EXCEPT ![k.slot].lock = "reaper", ![k.slot].closed = TRUE], registered, procs,
                     [killers EXCEPT !.reaper.at = "take"])
         ELSE Leaves(reqs, slots, registered, procs, [killers EXCEPT !.reaper = Rest])

ReaperTakes ==
  LET k == killers.reaper
  IN  /\ k.at = "take" /\ UNCHANGED over
      /\ Leaves(reqs, [slots EXCEPT ![k.slot].ctl = None, ![k.slot].lock = None], Without(k.slot),
                Kill(slots[k.slot].ctl), [killers EXCEPT !.reaper = Rest])

Reaper == (\E t \in Tasks : ReaperPicks(t)) \/ ReaperTries \/ ReaperTakes

(* A process ends by itself.                                               *)
ProcExits(p) ==
  /\ procs[p].child = "run" /\ procs' = [procs EXCEPT ![p].child = "exited"]
  /\ UNCHANGED <<reqs, slots, registered, killers, over>>

-----------------------------------------------------------------------------
Init ==
  /\ reqs = [r \in Requests |-> [at |-> "new", task |-> None, slot |-> 0, tries |-> 0]]
  /\ slots = [s \in SlotIds |-> NewSlot] /\ registered = [t \in Tasks |-> 0]
  /\ procs = [r \in Requests |-> NewProc] /\ killers = [k \in {"close", "reaper"} |-> Rest]
  /\ over = {}

Next ==
  \/ \E r \in Requests : Request(r) \/ (\E t \in Tasks : Arrive(r, t))
  \/ \E t \in Tasks : CloseArrives(t)
  \/ Mark \/ Take
  \/ Reaper \/ \E p \in Requests : ProcExits(p)

Spec == Init /\ [][Next]_vars

(* Threads run; a turn has a deadline; a session left alone becomes idle.  *)
FairSpec ==
  /\ Spec
  /\ \A r \in Requests : WF_vars(Request(r))
  /\ WF_vars(Mark \/ Take)
  /\ WF_vars(Reaper)

-----------------------------------------------------------------------------
Runs(p) == procs[p].child = "run" \/ procs[p].dir

TypeOK ==
  /\ \A r \in Requests :
       /\ reqs[r].at \in {"new", "find", "wait", "install", "start", "check", "turn", "leave", "forget", "done"}
       /\ reqs[r].slot \in 0..MaxSlots /\ reqs[r].tries \in 0..Tries
       /\ procs[r].child \in {"none", "run", "exited"} /\ procs[r].dead \in BOOLEAN /\ procs[r].dir \in BOOLEAN
  /\ \A s \in SlotIds :
       slots[s].lock \in Requests \cup {None, "reaper"} /\ slots[s].ctl \in Requests \cup {None}
         /\ slots[s].session \in BOOLEAN
  /\ \A t \in Tasks : registered[t] \in 0..MaxSlots

(* Every process and every session directory there is can be found: by the *)
(* request that starts it, or in a slot that the map or a request still    *)
(* has and whose end ends it.                                              *)
(* claude_code.rs:30 "Every kill path removes the session directory".      *)
NothingIsLeftRunning ==
  \A p \in Requests : Runs(p) =>
    \/ reqs[p].at = "check"
    \/ \E s \in SlotIds : slots[s].ctl = p /\ s \in Held(reqs, killers, registered)

(* A closed slot's process is dead once close has returned, and what is    *)
(* started in it meanwhile is found dead by its starter: "the two cannot   *)
(* miss each other" (claude_code.rs:264).                                  *)
ClosedIsKilled ==
  \A s \in SlotIds :
    slots[s].closed /\ (\A k \in DOMAIN killers : killers[k].slot = s => killers[k].at \notin {"mark", "take"}) =>
      /\ slots[s].ctl = None
      /\ \A r \in Requests : reqs[r].slot = s /\ Runs(r) => At(r, "check") /\ procs[r].dead

(* A slot without a session that no request works in is not in the map,    *)
(* where it would count against the cap (claude_code.rs:399).              *)
EmptySlotsAreFree ==
  \A t \in Tasks : registered[t] # 0 =>
    \/ slots[registered[t]].session
    \/ \E r \in Requests : reqs[r].slot = registered[t]
    \/ \E k \in DOMAIN killers : killers[k].slot = registered[t]

(* Every request is answered: locks, closes and the reaper never block it  *)
(* for ever (server.rs:5).                                                 *)
EveryRequestIsAnswered == []<>(\A r \in Requests : At(r, "new") \/ At(r, "done"))

(* With no more requests, every process and directory is gone in the end.  *)
NothingStaysWarm == <>[](\A p \in Requests : ~Runs(p) /\ procs[p].child = "none")

-----------------------------------------------------------------------------
(* Not so (README): claude_code.rs:246 "kill the process now and refuse    *)
(* further use".                                                           *)
ClosedTaskStartsNothing ==
  [][\A p \in Requests : procs[p].child = "none" /\ procs'[p].child = "run" =>
       reqs[p].task \notin over \/ slots[reqs[p].slot].closed]_vars

(* Not so: claude_code.rs:226 "the ctl mutex lets `Close` kill the process *)
(* without waiting for a request that is blocked on it": a slot forgotten  *)
(* by a request that failed in it is not found by a close.                 *)
CloseFindsTheTurn ==
  \A r \in Requests : At(r, "turn") =>
    \/ slots[reqs[r].slot].closed \/ registered[reqs[r].task] = reqs[r].slot
    \/ \E k \in DOMAIN killers : killers[k].slot = reqs[r].slot

(* Not so: claude_code.rs:2 "one warm, sandboxed claude -p per task".      *)
OneProcessPerTask ==
  \A p, q \in Requests :
    procs[p].child = "run" /\ procs[q].child = "run" /\ ~procs[p].dead /\ ~procs[q].dead /\ reqs[p].task = reqs[q].task => p = q

(* Not so: the cap of DEFAULT_MAX_SESSIONS.                                *)
SessionsAreCapped == Cardinality({p \in Requests : procs[p].child = "run" /\ ~procs[p].dead}) <= MaxSessions
==============================================================================
