------------------------- MODULE InferSessions_proofs -------------------------
(***************************************************************************)
(* Proofs about InferSessions, for any tasks, requests and bounds.         *)
(***************************************************************************)
EXTENDS InferSessions, TLAPS

Places  == {"new", "find", "wait", "install", "start", "check", "turn", "leave", "forget", "done"}
Idles   == {"new", "find", "done"}                          \* no slot
Working == {"install", "start", "check", "turn", "leave"}   \* with the session lock
Before  == {"new", "find", "wait", "install"}               \* no process yet

RequestType == [at : Places, task : Tasks \cup {None}, slot : 0..MaxSlots, tries : Nat]
SlotType    == [closed : BOOLEAN, lock : Requests \cup {None, "reaper"},
                ctl : Requests \cup {None}, session : BOOLEAN]
ProcType    == [child : {"none", "run", "exited"}, dead : BOOLEAN, dir : BOOLEAN]
KillerType  == [at : {"rest", "mark", "try", "take"}, slot : 0..MaxSlots]

-----------------------------------------------------------------------------
(* The invariant, of requests rq, slots sl, processes pr and killers kl: a *)
(* step states it of what it leaves, before slots nobody holds are dropped.*)

Types(rq, sl, reg, pr, kl) ==
  /\ rq \in [Requests -> RequestType] /\ sl \in [SlotIds -> SlotType]
  /\ reg \in [Tasks -> 0..MaxSlots] /\ pr \in [Requests -> ProcType]
  /\ kl \in [{"close", "reaper"} -> KillerType]
  /\ \A r \in Requests : rq[r].at # "new" => rq[r].task \in Tasks

(* Who works in a slot has its lock.                                       *)
Locked(rq, sl, kl) ==
  /\ \A r \in Requests : rq[r].slot = 0 <=> rq[r].at \in Idles
  /\ \A r \in Requests : rq[r].at \in Working => sl[rq[r].slot].lock = r
  /\ \A k \in {"close", "reaper"} : kl[k].slot = 0 <=> kl[k].at = "rest"
  /\ kl["reaper"].at = "take" => sl[kl["reaper"].slot].lock = "reaper"
  /\ kl["reaper"].at # "mark"

(* A request starts one process, in its own slot; while it does the slot   *)
(* has it, or it is dead already.                                          *)
Started(rq, sl, pr) ==
  /\ \A r \in Requests : rq[r].at \in {"start", "check"} => sl[rq[r].slot].ctl = r \/ pr[r].dead
  /\ \A r \in Requests : rq[r].at \in Before =>
       pr[r].child = "none" /\ ~pr[r].dir /\ \A s \in SlotIds : sl[s].ctl # r
  /\ \A s \in SlotIds, r \in Requests : sl[s].ctl = r => rq[r].slot \in {0, s}

Alive(p) == p.child = "run" \/ p.dir
Found(rq, sl, pr) ==
  \A r \in Requests : Alive(pr[r]) => rq[r].at = "check" \/ \E s \in SlotIds : sl[s].ctl = r

(* A closed slot has a process only until its killer has taken it.         *)
Pending(kl, s) == \E k \in {"close", "reaper"} : kl[k].slot = s /\ kl[k].at \in {"mark", "take"}
Taken(sl, kl) == \A s \in SlotIds : sl[s].closed /\ ~Pending(kl, s) => sl[s].ctl = None

Sound(rq, sl, reg, pr, kl) ==
  /\ Types(rq, sl, reg, pr, kl) /\ Locked(rq, sl, kl) /\ Started(rq, sl, pr)
  /\ Found(rq, sl, pr) /\ Taken(sl, kl)

SessionsInv == Sound(reqs, slots, registered, procs, killers) /\ NothingIsLeftRunning

-----------------------------------------------------------------------------
LEMMA Apart == None \notin Requests /\ "reaper" \notin Requests /\ None \notin Tasks
BY SessionsAssumption DEF None

LEMMA KilledIsDead ==
  ASSUME NEW p \in ProcType
  PROVE  Killed(p) \in ProcType /\ Killed(p).dead /\ ~Alive(Killed(p))
         /\ Killed(p).child = "none" /\ ~Killed(p).dir
BY DEF Killed, ProcType, Alive

(* Every step ends in Leaves: what is found stays found, for a slot that is *)
(* dropped takes its process with it.                                      *)
LEMMA LeavesKeeps ==
  ASSUME NEW rq, NEW sl, NEW reg, NEW pr, NEW kl,
         Sound(rq, sl, reg, pr, kl), Leaves(rq, sl, reg, pr, kl)
  PROVE  SessionsInv'
<1> DEFINE kept == Held(rq, kl, reg)
           dropped == {sl[s].ctl : s \in SlotIds \ kept}
<1>1. /\ reqs' = rq /\ registered' = reg /\ killers' = kl
      /\ slots' = [s \in SlotIds |-> IF s \in kept THEN sl[s] ELSE NewSlot]
      /\ procs' = [p \in Requests |-> IF p \in dropped THEN Killed(pr[p]) ELSE pr[p]]
  BY DEF Leaves
<1>2. Types(rq, sl, reg, pr, kl) /\ Locked(rq, sl, kl) /\ Started(rq, sl, pr) /\ Found(rq, sl, pr) /\ Taken(sl, kl)
  BY DEF Sound
<1>3. \A r \in Requests : rq[r].slot # 0 => rq[r].slot \in SlotIds \cap kept
  BY <1>2 DEF Types, RequestType, Held, SlotIds
<1>4. \A k \in {"close", "reaper"} : kl[k].slot # 0 => kl[k].slot \in SlotIds \cap kept
  BY <1>2 DEF Types, KillerType, Held, SlotIds
<1>5. NewSlot \in SlotType /\ ~NewSlot.closed /\ NewSlot.ctl = None
  BY DEF NewSlot, SlotType
<1>6. \A r \in Requests :
        /\ procs'[r] \in ProcType /\ (pr[r].dead => procs'[r].dead)
        /\ Alive(procs'[r]) => Alive(pr[r]) /\ r \notin dropped
        /\ pr[r].child = "none" /\ ~pr[r].dir => procs'[r].child = "none" /\ ~procs'[r].dir
  BY <1>1, <1>2, KilledIsDead DEF Types
<1>7. \A s \in SlotIds : slots'[s] = IF s \in kept THEN sl[s] ELSE NewSlot
  BY <1>1
<1> HIDE DEF kept
<1>8. Types(rq, slots', reg, procs', kl)
  <2>1. slots' \in [SlotIds -> SlotType]
    BY <1>1, <1>2, <1>5 DEF Types
  <2>2. procs' \in [Requests -> ProcType]
    BY <1>1, <1>6
  <2> QED BY <2>1, <2>2, <1>2 DEF Types
<1>9. Locked(rq, slots', kl)
  <2>1. \A r \in Requests : rq[r].at \in Working => rq[r].slot # 0
    BY <1>2 DEF Locked, Working, Idles
  <2>2. kl["reaper"].at = "take" => kl["reaper"].slot # 0
    BY <1>2 DEF Locked
  <2> QED BY <2>1, <2>2, <1>2, <1>3, <1>4, <1>7 DEF Locked
<1>10. Started(rq, slots', procs')
  <2>1. \A r \in Requests : rq[r].at \in {"start", "check"} => slots'[rq[r].slot].ctl = r \/ procs'[r].dead
    <3>1. \A r \in Requests : rq[r].at \in {"start", "check"} => rq[r].slot # 0
      BY <1>2 DEF Locked, Idles
    <3> QED BY <3>1, <1>2, <1>3, <1>6, <1>7 DEF Started
  <2>2. \A s \in SlotIds, r \in Requests : slots'[s].ctl = r => sl[s].ctl = r /\ s \in kept
    BY <1>5, <1>7, Apart
  <2> QED BY <2>1, <2>2, <1>2, <1>6 DEF Started
<1>11. \A r \in Requests : Alive(procs'[r]) => rq[r].at = "check" \/ \E s \in SlotIds \cap kept : slots'[s].ctl = r
  <2> SUFFICES ASSUME NEW r \in Requests, Alive(procs'[r]), rq[r].at # "check"
               PROVE  \E s \in SlotIds \cap kept : slots'[s].ctl = r
    OBVIOUS
  <2>1. PICK s \in SlotIds : sl[s].ctl = r
    BY <1>2, <1>6 DEF Found
  <2>2. s \in kept
    BY <1>6, <2>1
  <2> QED BY <2>1, <2>2, <1>7
<1>12. Found(rq, slots', procs') /\ NothingIsLeftRunning'
  BY <1>1, <1>11 DEF Found, NothingIsLeftRunning, Runs, Alive, kept
<1>13. Taken(slots', kl)
  BY <1>2, <1>5, <1>7 DEF Taken
<1> QED BY <1>1, <1>8, <1>9, <1>10, <1>12, <1>13 DEF SessionsInv, Sound

-----------------------------------------------------------------------------
(* A request's step.                                                       *)

LEMMA StepKeeps ==
  ASSUME NEW r, NEW rec, NEW sl, NEW reg, NEW pr,
         Sound([reqs EXCEPT ![r] = rec], sl, reg, pr, killers), Steps(r, rec, sl, reg, pr)
  PROVE  SessionsInv'
BY LeavesKeeps DEF Steps

(* Kill leaves less alive and more dead.                                   *)
LEMMA KillWeakens ==
  ASSUME SessionsInv, NEW p
  PROVE  /\ Kill(p) \in [Requests -> ProcType]
         /\ \A q \in Requests :
              /\ procs[q].dead => Kill(p)[q].dead
              /\ Alive(Kill(p)[q]) => Alive(procs[q]) /\ q # p
              /\ procs[q].child = "none" /\ ~procs[q].dir => Kill(p)[q].child = "none" /\ ~Kill(p)[q].dir
         /\ p \in Requests => Kill(p)[p].dead /\ ~Alive(Kill(p)[p])
<1>1. procs \in [Requests -> ProcType]
  BY DEF SessionsInv, Sound, Types
<1> QED BY <1>1, KilledIsDead DEF Kill

(* A slot is there for whoever has it.                                     *)
LEMMA SlotsAreThere ==
  ASSUME SessionsInv
  PROVE  /\ \A r \in Requests : reqs[r].at \notin Idles => reqs[r].slot \in SlotIds
         /\ \A k \in {"close", "reaper"} : killers[k].at # "rest" => killers[k].slot \in SlotIds
BY DEF SessionsInv, Sound, Types, Locked, RequestType, KillerType, SlotIds

(* What request r may do to the rest: it changes its own record, a lock    *)
(* that is free or its own, and the process of the slot it has locked, and *)
(* starts no process but its own.                                          *)
FitsTypes(r, rec, sl, reg, pr) ==
  /\ rec \in RequestType /\ rec.task \in Tasks /\ rec.at # "new"
  /\ sl \in [SlotIds -> SlotType] /\ reg \in [Tasks -> 0..MaxSlots] /\ pr \in [Requests -> ProcType]

FitsLocks(r, rec, sl) ==
  /\ rec.slot = 0 <=> rec.at \in Idles
  /\ rec.at \in Working => sl[rec.slot].lock = r
  /\ \A s \in SlotIds :
       sl[s].closed = slots[s].closed /\ (sl[s].lock # slots[s].lock => slots[s].lock \in {None, r})

FitsStart(r, rec, sl, pr) ==
  /\ rec.at \in {"start", "check"} => sl[rec.slot].ctl = r \/ pr[r].dead
  /\ rec.at \in Before => pr[r].child = "none" /\ ~pr[r].dir /\ \A s \in SlotIds : sl[s].ctl # r
  /\ Alive(pr[r]) => rec.at = "check" \/ \E s \in SlotIds : sl[s].ctl = r
  /\ \A s \in SlotIds :
       /\ sl[s].ctl = r => rec.slot \in {0, s}
       /\ sl[s].ctl # slots[s].ctl =>
            /\ slots[s].lock \in {None, r} /\ sl[s].ctl \in {None, r}
            /\ slots[s].ctl \in Requests => ~Alive(pr[slots[s].ctl])
            /\ sl[s].ctl = r => ~slots[s].closed
  /\ \A q \in Requests :
       /\ procs[q].dead => pr[q].dead
       /\ q # r => /\ Alive(pr[q]) => Alive(procs[q])
                   /\ procs[q].child = "none" /\ ~procs[q].dir => pr[q].child = "none" /\ ~pr[q].dir

Fits(r, rec, sl, reg, pr) ==
  FitsTypes(r, rec, sl, reg, pr) /\ FitsLocks(r, rec, sl) /\ FitsStart(r, rec, sl, pr)

LEMMA RequestKeeps ==
  ASSUME SessionsInv, NEW r \in Requests, NEW rec, NEW sl, NEW reg, NEW pr,
         Fits(r, rec, sl, reg, pr), Steps(r, rec, sl, reg, pr)
  PROVE  SessionsInv'
<1> DEFINE rq == [reqs EXCEPT ![r] = rec]
<1>1. /\ Types(reqs, slots, registered, procs, killers) /\ Locked(reqs, slots, killers)
      /\ Started(reqs, slots, procs) /\ Found(reqs, slots, procs) /\ Taken(slots, killers)
  BY DEF SessionsInv, Sound
<1>2. FitsTypes(r, rec, sl, reg, pr) /\ FitsLocks(r, rec, sl) /\ FitsStart(r, rec, sl, pr)
  BY DEF Fits
<1>3. Types(rq, sl, reg, pr, killers)
  BY <1>1, <1>2 DEF Types, FitsTypes
<1>4. rq[r] = rec /\ \A q \in Requests : q # r => rq[q] = reqs[q]
  BY <1>1 DEF Types
<1> HIDE DEF rq
<1>5. Locked(rq, sl, killers)
  <2>1. \A q \in Requests : rq[q].at \in Working => sl[rq[q].slot].lock = q
    <3> SUFFICES ASSUME NEW q \in Requests, q # r, reqs[q].at \in Working
                 PROVE  sl[reqs[q].slot].lock = q
      BY <1>2, <1>4 DEF FitsLocks
    <3>1. reqs[q].slot \in SlotIds /\ slots[reqs[q].slot].lock = q
      BY <1>1, SlotsAreThere DEF Locked, Working, Idles
    <3> QED BY <1>2, <3>1, Apart DEF FitsLocks
  <2>2. killers["reaper"].at = "take" => sl[killers["reaper"].slot].lock = "reaper"
    <3>1. killers["reaper"].at = "take" => killers["reaper"].slot \in SlotIds
      BY SlotsAreThere
    <3> QED BY <1>1, <1>2, <3>1, Apart DEF Locked, FitsLocks, None
  <2> QED BY <1>1, <1>2, <1>4, <2>1, <2>2 DEF Locked, FitsLocks
<1>6. Started(rq, sl, pr)
  <2>1. \A q \in Requests : rq[q].at \in {"start", "check"} => sl[rq[q].slot].ctl = q \/ pr[q].dead
    <3> SUFFICES ASSUME NEW q \in Requests, q # r, reqs[q].at \in {"start", "check"}
                 PROVE  sl[reqs[q].slot].ctl = q \/ pr[q].dead
      BY <1>2, <1>4 DEF FitsStart
    <3>1. reqs[q].slot \in SlotIds /\ slots[reqs[q].slot].lock = q
      BY <1>1, SlotsAreThere DEF Locked, Working, Idles
    <3> QED BY <1>1, <1>2, <3>1, Apart DEF Started, FitsStart
  <2>2. \A q \in Requests : rq[q].at \in Before =>
          pr[q].child = "none" /\ ~pr[q].dir /\ \A s \in SlotIds : sl[s].ctl # q
    <3> SUFFICES ASSUME NEW q \in Requests, q # r, reqs[q].at \in Before
                 PROVE  pr[q].child = "none" /\ ~pr[q].dir /\ \A s \in SlotIds : sl[s].ctl # q
      BY <1>2, <1>4 DEF FitsStart
    <3> QED BY <1>1, <1>2, Apart DEF Started, FitsStart
  <2>3. \A s \in SlotIds, q \in Requests : sl[s].ctl = q => rq[q].slot \in {0, s}
    <3> SUFFICES ASSUME NEW s \in SlotIds, NEW q \in Requests, q # r, sl[s].ctl = q
                 PROVE  reqs[q].slot \in {0, s}
      BY <1>2, <1>4 DEF FitsStart
    <3>1. slots[s].ctl = q
      BY <1>2, Apart DEF FitsStart
    <3> QED BY <1>1, <3>1 DEF Started
  <2> QED BY <2>1, <2>2, <2>3 DEF Started
<1>7. Found(rq, sl, pr)
  <2> SUFFICES ASSUME NEW q \in Requests, q # r, Alive(pr[q]), reqs[q].at # "check"
               PROVE  \E s \in SlotIds : sl[s].ctl = q
    BY <1>2, <1>4 DEF Found, FitsStart
  <2>1. PICK s \in SlotIds : slots[s].ctl = q
    BY <1>1, <1>2 DEF Found, FitsStart
  <2> QED BY <1>2, <2>1 DEF FitsStart
<1>8. Taken(sl, killers)
  BY <1>1, <1>2, Apart DEF Taken, FitsLocks, FitsStart
<1> QED
  BY <1>3, <1>5, <1>6, <1>7, <1>8, StepKeeps DEF Sound, rq

-----------------------------------------------------------------------------
(* The requests' actions fit.                                              *)

(* What a request's own state says.                                        *)
LEMMA OwnState ==
  ASSUME SessionsInv, NEW r \in Requests
  PROVE  /\ reqs[r] \in RequestType /\ (reqs[r].at # "new" => reqs[r].task \in Tasks)
         /\ slots \in [SlotIds -> SlotType] /\ registered \in [Tasks -> 0..MaxSlots]
         /\ procs \in [Requests -> ProcType]
         /\ reqs[r].slot = 0 <=> reqs[r].at \in Idles
         /\ reqs[r].at \in Working => reqs[r].slot \in SlotIds /\ slots[reqs[r].slot].lock = r
         /\ reqs[r].at \in {"start", "check"} => slots[reqs[r].slot].ctl = r \/ procs[r].dead
         /\ reqs[r].at \in Before => procs[r].child = "none" /\ ~procs[r].dir /\ \A s \in SlotIds : slots[s].ctl # r
         /\ \A s \in SlotIds : slots[s].ctl = r => reqs[r].slot \in {0, s}
         /\ Alive(procs[r]) => reqs[r].at = "check" \/ \E s \in SlotIds : slots[s].ctl = r
BY SlotsAreThere DEF SessionsInv, Sound, Types, Locked, Started, Found, Working, Idles

(* A request that only goes to another place, answered or not.             *)
LEMMA PlainFits ==
  ASSUME SessionsInv, NEW r \in Requests, NEW rec \in RequestType, NEW reg \in [Tasks -> 0..MaxSlots],
         rec.task \in Tasks, rec.at \notin {"new", "start", "check"}, reqs[r].at \notin {"check", "done"},
         rec.at \in Before => reqs[r].at \in Before,
         rec.slot = 0 <=> rec.at \in Idles,
         rec.slot # 0 => reqs[r].slot \in {0, rec.slot},
         rec.at \in Working => reqs[r].at \in Working /\ rec.slot # 0
  PROVE  Fits(r, rec, slots, reg, procs)
<1>1. rec.at \in Working => rec.slot = reqs[r].slot
  BY OwnState DEF Working, Idles
<1>2. FitsTypes(r, rec, slots, reg, procs) /\ FitsLocks(r, rec, slots)
  BY <1>1, OwnState DEF FitsTypes, FitsLocks
<1>3. \A s \in SlotIds : slots[s].ctl = r => rec.slot \in {0, s}
  BY OwnState DEF Before, Idles
<1>4. FitsStart(r, rec, slots, procs)
  BY <1>3, OwnState DEF FitsStart
<1> QED BY <1>2, <1>4 DEF Fits

LEMMA ArriveKeeps ==
  ASSUME SessionsInv, NEW r \in Requests, NEW t \in Tasks, Arrive(r, t)
  PROVE  SessionsInv'
<1> DEFINE rec == [To(r, "find") EXCEPT !.task = t]
<1>1. Steps(r, rec, slots, registered, procs) /\ reqs[r].at = "new"
  BY DEF Arrive, At
<1>2. rec \in RequestType /\ rec.at = "find" /\ rec.task = t /\ rec.slot = 0
  <2>1. reqs[r] \in RequestType /\ reqs[r].slot = 0
    BY <1>1, OwnState DEF Idles
  <2> QED BY <2>1 DEF RequestType, Places, To
<1> HIDE DEF rec
<1>3. Fits(r, rec, slots, registered, procs)
  BY <1>1, <1>2, OwnState, PlainFits DEF Before, Idles, Working
<1> QED BY <1>1, <1>3, OwnState, RequestKeeps

Moved(q, a, s, n) == [q EXCEPT !.at = a, !.slot = s, !.tries = n]

LEMMA MovedType ==
  ASSUME NEW q \in RequestType, NEW a \in Places, NEW s \in 0..MaxSlots, NEW n \in Nat
  PROVE  /\ Moved(q, a, s, n) \in RequestType /\ Moved(q, a, s, n).at = a
         /\ Moved(q, a, s, n).slot = s /\ Moved(q, a, s, n).task = q.task
BY DEF RequestType, Moved

LEMMA AnsweredType ==
  ASSUME SessionsInv, NEW r \in Requests, reqs[r].at # "new"
  PROVE  /\ Answered(r) \in RequestType /\ Answered(r).at = "done" /\ Answered(r).slot = 0
         /\ Answered(r).task \in Tasks
<1>1. reqs[r] \in RequestType /\ reqs[r].task \in Tasks /\ 0 \in 0..MaxSlots /\ 0 \in Nat
  BY OwnState, SessionsAssumption
<1> QED BY <1>1 DEF RequestType, Places, Answered

LEMMA AnsweredFits ==
  ASSUME SessionsInv, NEW r \in Requests, NEW reg \in [Tasks -> 0..MaxSlots],
         reqs[r].at \notin {"new", "check", "done"}
  PROVE  Fits(r, Answered(r), slots, reg, procs)
BY AnsweredType, PlainFits DEF Before, Idles, Working

LEMMA ToType ==
  ASSUME SessionsInv, NEW r \in Requests, NEW a \in Places, reqs[r].at # "new"
  PROVE  /\ To(r, a) \in RequestType /\ To(r, a).at = a /\ To(r, a).slot = reqs[r].slot
         /\ To(r, a).task \in Tasks
BY OwnState DEF RequestType, To

LEMMA FindKeeps ==
  ASSUME SessionsInv, NEW r \in Requests, Find(r)
  PROVE  SessionsInv'
<1> DEFINE t == reqs[r].task
           Has(s) == [reqs[r] EXCEPT !.at = "wait", !.slot = s, !.tries = @ + 1]
           free == SlotIds \ Held(reqs, killers, registered)
<1>1. reqs[r].at = "find" /\ reqs[r].slot = 0 /\ t \in Tasks
  BY OwnState DEF Find, At, Idles
<1>2. ASSUME NEW s \in SlotIds, NEW reg \in [Tasks -> 0..MaxSlots]
      PROVE  Fits(r, Has(s), slots, reg, procs)
  <2>1. Has(s) \in RequestType /\ Has(s).at = "wait" /\ Has(s).slot = s /\ Has(s).task \in Tasks /\ s # 0
    <3>1. reqs[r] \in RequestType /\ s \in 0..MaxSlots /\ s # 0
      BY <1>1, <1>2, OwnState, SessionsAssumption DEF SlotIds
    <3>2. reqs[r].tries + 1 \in Nat /\ "wait" \in Places
      BY <3>1 DEF RequestType, Places
    <3>3. Has(s) = Moved(reqs[r], "wait", s, reqs[r].tries + 1)
      BY DEF Moved
    <3> HIDE DEF Has
    <3> QED BY SMTT(30), <1>1, <3>1, <3>2, <3>3, MovedType
  <2> HIDE DEF Has
  <2> QED BY <1>1, <2>1, PlainFits DEF Before, Idles, Working
<1>3. CASE registered[t] # 0
  <2>1. registered[t] \in SlotIds
    BY <1>1, <1>3, OwnState DEF SlotIds
  <2>2. Steps(r, Has(registered[t]), slots, registered, procs)
    BY <1>3 DEF Find
  <2> QED BY <1>2, <2>1, <2>2, OwnState, RequestKeeps
<1>4. CASE Steps(r, Answered(r), slots, registered, procs)
  BY <1>1, <1>4, OwnState, AnsweredFits, RequestKeeps
<1>5. CASE registered[t] = 0 /\ ~Steps(r, Answered(r), slots, registered, procs)
  <2> DEFINE s == CHOOSE s \in free : TRUE
  <2>1. free # {} /\ Steps(r, Has(s), slots, [registered EXCEPT ![t] = s], procs)
    BY <1>5 DEF Find
  <2>2. s \in SlotIds
    BY <2>1
  <2> HIDE DEF s
  <2>3. [registered EXCEPT ![t] = s] \in [Tasks -> 0..MaxSlots]
    <3>1. s \in 0..MaxSlots /\ registered \in [Tasks -> 0..MaxSlots]
      BY <2>2, OwnState, SessionsAssumption DEF SlotIds
    <3> QED BY <3>1
  <2> QED BY <1>2, <2>1, <2>2, <2>3, RequestKeeps
<1> QED BY <1>3, <1>4, <1>5

(* A request in a slot that changes no other slot.                         *)
LEMMA OwnSlotFits ==
  ASSUME SessionsInv, NEW r \in Requests, NEW a \in Places, reqs[r].at \notin Idles, a \notin Idles,
         NEW s, s = reqs[r].slot, slots[s].lock \in {None, r},
         NEW sl \in [SlotIds -> SlotType], \A u \in SlotIds : u # s => sl[u] = slots[u],
         sl[s].closed = slots[s].closed, a \in Working => sl[s].lock = r,
         NEW pr \in [Requests -> ProcType],
         sl[s].ctl # slots[s].ctl =>
           /\ sl[s].ctl \in {None, r} /\ (sl[s].ctl = r => ~slots[s].closed)
           /\ slots[s].ctl \in Requests => ~Alive(pr[slots[s].ctl]),
         a \in {"start", "check"} => sl[s].ctl = r \/ pr[r].dead,
         a \in Before => reqs[r].at \in Before /\ sl[s].ctl # r /\ pr[r].child = "none" /\ ~pr[r].dir,
         Alive(pr[r]) => a = "check" \/ sl[s].ctl = r,
         \A q \in Requests :
           /\ procs[q].dead => pr[q].dead
           /\ q # r => /\ Alive(pr[q]) => Alive(procs[q])
                       /\ procs[q].child = "none" /\ ~procs[q].dir => pr[q].child = "none" /\ ~pr[q].dir
  PROVE  Fits(r, To(r, a), sl, registered, pr)
<1>1. s \in SlotIds /\ s # 0 /\ reqs[r].at # "new"
  BY SlotsAreThere DEF SlotIds, Idles
<1>2. /\ To(r, a) \in RequestType /\ To(r, a).at = a /\ To(r, a).slot = s /\ To(r, a).task \in Tasks
  BY <1>1, ToType
<1> DEFINE rec == To(r, a)
<1> HIDE DEF rec
<1>3. FitsTypes(r, rec, sl, registered, pr)
  BY <1>2, OwnState DEF FitsTypes, rec, Idles
<1>4. FitsLocks(r, rec, sl)
  BY <1>1, <1>2 DEF FitsLocks, rec
<1>5. FitsStart(r, rec, sl, pr)
  <2>1. \A u \in SlotIds : sl[u].ctl = r => u = s
    BY <1>1, OwnState
  <2>2. \A u \in SlotIds : sl[u].ctl # slots[u].ctl => u = s
    OBVIOUS
  <2>3. rec.at \in Before => \A u \in SlotIds : sl[u].ctl # r
    BY <1>2, <2>1 DEF rec
  <2> QED BY <1>1, <1>2, <2>1, <2>2, <2>3 DEF FitsStart, rec
<1> QED BY <1>3, <1>4, <1>5 DEF Fits, rec

LEMMA WithoutType ==
  ASSUME SessionsInv, NEW s PROVE Without(s) \in [Tasks -> 0..MaxSlots]
<1>1. registered \in [Tasks -> 0..MaxSlots] /\ 0 \in 0..MaxSlots
  BY SessionsAssumption DEF SessionsInv, Sound, Types
<1> QED BY <1>1 DEF Without

LEMMA LockKeeps ==
  ASSUME SessionsInv, NEW r \in Requests, Lock(r)
  PROVE  SessionsInv'
<1> DEFINE s == reqs[r].slot
           p == slots[s].ctl
           fresh == [slots[s] EXCEPT !.lock = r, !.session = FALSE, !.ctl = None]
<1>1. reqs[r].at = "wait" /\ slots[s].lock = None
  BY DEF Lock, At
<1>2. /\ s \in SlotIds /\ slots[s] \in SlotType /\ reqs[r].at \notin Idles
      /\ procs[r].child = "none" /\ ~procs[r].dir /\ p # r
  BY <1>1, SlotsAreThere, OwnState DEF Idles, Before
<1>3. CASE Steps(r, IF reqs[r].tries < Tries THEN [To(r, "find") EXCEPT !.slot = 0] ELSE Answered(r),
                 slots, Without(s), procs)
  <2>1. CASE reqs[r].tries < Tries
    <3> DEFINE rec == [To(r, "find") EXCEPT !.slot = 0]
    <3>1. rec \in RequestType /\ rec.at = "find" /\ rec.slot = 0 /\ rec.task \in Tasks
      <4>1. To(r, "find") \in RequestType /\ To(r, "find").at = "find" /\ To(r, "find").task \in Tasks /\ 0 \in 0..MaxSlots
        BY <1>1, ToType, SessionsAssumption DEF Places
      <4> QED BY <4>1 DEF RequestType
    <3> HIDE DEF rec
    <3>2. Fits(r, rec, slots, Without(s), procs)
      BY <1>1, <3>1, WithoutType, PlainFits DEF Before, Idles, Working
    <3>3. Steps(r, rec, slots, Without(s), procs)
      BY <1>3, <2>1 DEF rec
    <3> QED BY <3>2, <3>3, RequestKeeps
  <2>2. CASE ~(reqs[r].tries < Tries)
    BY <1>1, <1>3, <2>2, WithoutType, AnsweredFits, RequestKeeps
  <2> QED BY <2>1, <2>2
<1>4. CASE Steps(r, To(r, "turn"), [slots EXCEPT ![s].lock = r], registered, procs)
  <2> DEFINE sl == [slots EXCEPT ![s].lock = r]
  <2>1. /\ sl \in [SlotIds -> SlotType] /\ \A u \in SlotIds : u # s => sl[u] = slots[u]
        /\ sl[s].lock = r /\ sl[s].ctl = p /\ sl[s].closed = slots[s].closed
    BY <1>2, OwnState DEF SlotType
  <2> HIDE DEF sl
  <2>2. Fits(r, To(r, "turn"), sl, registered, procs)
    BY SMTT(60), <1>1, <1>2, <2>1, OwnState, OwnSlotFits DEF Before, Idles, Places, Alive
  <2> QED BY <1>4, <2>2, RequestKeeps DEF sl
<1>5. CASE Steps(r, To(r, "install"), [slots EXCEPT ![s] = [@ EXCEPT !.lock = r, !.session = FALSE, !.ctl = None]],
                 registered, Kill(p))
  <2> DEFINE sl == [slots EXCEPT ![s] = [@ EXCEPT !.lock = r, !.session = FALSE, !.ctl = None]]
  <2>0. fresh \in SlotType /\ fresh.lock = r /\ fresh.ctl = None /\ fresh.closed = slots[s].closed
    BY <1>2 DEF SlotType
  <2>1. /\ sl \in [SlotIds -> SlotType] /\ \A u \in SlotIds : u # s => sl[u] = slots[u]
        /\ sl[s].lock = r /\ sl[s].ctl = None /\ sl[s].closed = slots[s].closed
    BY <1>2, <2>0, OwnState
  <2> HIDE DEF sl
  <2>2. /\ Kill(p) \in [Requests -> ProcType] /\ Kill(p)[r].child = "none" /\ ~Kill(p)[r].dir
        /\ p \in Requests => ~Alive(Kill(p)[p])
        /\ \A q \in Requests :
             /\ procs[q].dead => Kill(p)[q].dead
             /\ Alive(Kill(p)[q]) => Alive(procs[q])
             /\ procs[q].child = "none" /\ ~procs[q].dir => Kill(p)[q].child = "none" /\ ~Kill(p)[q].dir
    BY <1>2, KillWeakens
  <2>3. Fits(r, To(r, "install"), sl, registered, Kill(p))
    <3>1. ~Alive(Kill(p)[r]) /\ None # r
      BY <2>2, Apart DEF Alive
    <3> QED BY <1>1, <1>2, <2>1, <2>2, <3>1, OwnSlotFits DEF Before, Idles, Places
  <2> QED BY <1>5, <2>3, RequestKeeps DEF sl
<1> QED BY <1>3, <1>4, <1>5 DEF Lock

LEMMA FailsKeeps ==
  ASSUME SessionsInv, NEW r \in Requests, reqs[r].at \in {"install", "start", "check"}, Fails(r)
  PROVE  SessionsInv'
<1>1. Fits(r, To(r, "leave"), slots, registered, Kill(r))
  <2>1. /\ Kill(r) \in [Requests -> ProcType] /\ ~Alive(Kill(r)[r])
        /\ \A q \in Requests :
             /\ procs[q].dead => Kill(r)[q].dead
             /\ Alive(Kill(r)[q]) => Alive(procs[q])
             /\ procs[q].child = "none" /\ ~procs[q].dir => Kill(r)[q].child = "none" /\ ~Kill(r)[q].dir
    BY KillWeakens
  <2>2. slots \in [SlotIds -> SlotType] /\ slots[reqs[r].slot].lock = r
    BY OwnState DEF Working
  <2> QED BY <2>1, <2>2, OwnSlotFits DEF Idles, Places, Before
<1> QED BY <1>1, RequestKeeps DEF Fails

(* From here on the process of the slot is the request's.                  *)
LEMMA InstallKeeps ==
  ASSUME SessionsInv, NEW r \in Requests, Install(r)
  PROVE  SessionsInv'
<1> DEFINE s == reqs[r].slot
           p == slots[s].ctl
           sl == [slots EXCEPT ![s].ctl = r]
<1>1. reqs[r].at = "install"
  BY DEF Install, At
<1>2. CASE Fails(r)
  BY <1>1, <1>2, FailsKeeps
<1>3. CASE ~slots[s].closed /\ Steps(r, To(r, "start"), sl, registered, Kill(p))
  <2>1. s \in SlotIds /\ slots[s] \in SlotType /\ slots[s].lock = r /\ p # r /\ procs[r].child = "none" /\ ~procs[r].dir
    BY <1>1, OwnState DEF Idles, Working, Before
  <2>2. /\ sl \in [SlotIds -> SlotType] /\ \A u \in SlotIds : u # s => sl[u] = slots[u]
        /\ sl[s].lock = r /\ sl[s].ctl = r /\ sl[s].closed = slots[s].closed
    BY <2>1, OwnState DEF SlotType
  <2> HIDE DEF sl
  <2>3. Fits(r, To(r, "start"), sl, registered, Kill(p))
    <3>1. /\ Kill(p) \in [Requests -> ProcType] /\ (p \in Requests => ~Alive(Kill(p)[p]))
          /\ \A q \in Requests :
               /\ procs[q].dead => Kill(p)[q].dead
               /\ Alive(Kill(p)[q]) => Alive(procs[q])
               /\ procs[q].child = "none" /\ ~procs[q].dir => Kill(p)[q].child = "none" /\ ~Kill(p)[q].dir
      BY KillWeakens
    <3>2. ~slots[s].closed
      BY <1>3
    <3> DEFINE pr == Kill(p)
    <3>3. pr \in [Requests -> ProcType] /\ (p \in Requests => ~Alive(pr[p]))
      BY <3>1
    <3>4. \A q \in Requests :
            /\ procs[q].dead => pr[q].dead
            /\ q # r => /\ Alive(pr[q]) => Alive(procs[q])
                        /\ procs[q].child = "none" /\ ~procs[q].dir => pr[q].child = "none" /\ ~pr[q].dir
      BY <3>1
    <3> HIDE DEF pr
    <3>5. Fits(r, To(r, "start"), sl, registered, pr)
      BY <1>1, <2>1, <2>2, <3>2, <3>3, <3>4, OwnSlotFits DEF Idles, Before, Places
    <3> QED BY <3>5 DEF pr
  <2> QED BY <1>3, <2>3, RequestKeeps
<1> QED BY <1>2, <1>3 DEF Install

LEMMA StartKeeps ==
  ASSUME SessionsInv, NEW r \in Requests, Start(r)
  PROVE  SessionsInv'
<1> DEFINE pr == [procs EXCEPT ![r].dir = TRUE, ![r].child = "run"]
<1>1. reqs[r].at = "start"
  BY DEF Start, At
<1>2. CASE Fails(r)
  BY <1>1, <1>2, FailsKeeps
<1>3. CASE Steps(r, To(r, "check"), slots, registered, pr)
  <2>1. /\ pr \in [Requests -> ProcType] /\ pr[r].dead = procs[r].dead
        /\ \A q \in Requests : q # r => pr[q] = procs[q]
    <3> DEFINE x == [procs[r] EXCEPT !.dir = TRUE, !.child = "run"]
    <3>1. procs \in [Requests -> ProcType] /\ procs[r] \in ProcType
      BY OwnState
    <3>2. x \in ProcType /\ x.dead = procs[r].dead
      BY <3>1 DEF ProcType
    <3>3. pr = [procs EXCEPT ![r] = x]
      BY <3>1 DEF ProcType
    <3> HIDE DEF x
    <3> QED BY <3>1, <3>2, <3>3
  <2> HIDE DEF pr
  <2>2. Fits(r, To(r, "check"), slots, registered, pr)
    BY SMTT(30), <1>1, <2>1, OwnState, OwnSlotFits DEF Idles, Before, Places, Working
  <2> QED BY <1>3, <2>2, RequestKeeps
<1> QED BY <1>2, <1>3 DEF Start

(* The check: a process that is not dead by now is its slot's.             *)
LEMMA CheckKeeps ==
  ASSUME SessionsInv, NEW r \in Requests, Check(r)
  PROVE  SessionsInv'
<1> DEFINE s == reqs[r].slot
           sl == [slots EXCEPT ![s].session = TRUE]
<1>1. reqs[r].at = "check"
  BY DEF Check, At
<1>2. CASE procs[r].dead
  BY <1>1, <1>2, FailsKeeps DEF Check
<1>3. CASE ~procs[r].dead
  <2>1. s \in SlotIds /\ slots[s] \in SlotType /\ slots[s].lock = r /\ slots[s].ctl = r
    BY <1>1, <1>3, OwnState DEF Idles, Working
  <2>2. /\ sl \in [SlotIds -> SlotType] /\ \A u \in SlotIds : u # s => sl[u] = slots[u]
        /\ sl[s].lock = r /\ sl[s].ctl = r /\ sl[s].closed = slots[s].closed
    <3> DEFINE x == [slots[s] EXCEPT !.session = TRUE]
    <3>1. slots \in [SlotIds -> SlotType] /\ s \in SlotIds
      BY <2>1, OwnState
    <3>2. x \in SlotType /\ x.lock = r /\ x.ctl = r /\ x.closed = slots[s].closed
      BY <2>1 DEF SlotType
    <3>3. sl = [slots EXCEPT ![s] = x]
      BY <3>1
    <3> HIDE DEF x
    <3> QED BY <3>1, <3>2, <3>3
  <2>3. Steps(r, To(r, "turn"), sl, registered, procs)
    BY <1>3 DEF Check
  <2> HIDE DEF sl
  <2>4. Fits(r, To(r, "turn"), sl, registered, procs)
    BY <1>1, <2>1, <2>2, OwnState, OwnSlotFits DEF Idles, Before, Places
  <2> QED BY <2>3, <2>4, RequestKeeps
<1> QED BY <1>2, <1>3

LEMMA TurnKeeps ==
  ASSUME SessionsInv, NEW r \in Requests, TurnEnds(r) \/ TurnFails(r)
  PROVE  SessionsInv'
<1> DEFINE s == reqs[r].slot
           p == slots[s].ctl
           sl == [slots EXCEPT ![s].session = FALSE, ![s].ctl = None]
<1>1. reqs[r].at = "turn"
  BY DEF TurnEnds, TurnFails, At
<1>2. s \in SlotIds /\ slots[s] \in SlotType /\ slots[s].lock = r
  BY <1>1, OwnState DEF Working
<1>3. Alive(procs[r]) => p = r
  BY <1>1, <1>2, OwnState DEF Idles, SlotIds
<1>4. CASE TurnEnds(r)
  <2>1. Fits(r, To(r, "leave"), slots, registered, procs)
    BY <1>1, <1>2, <1>3, OwnState, OwnSlotFits DEF Idles, Before, Places
  <2> QED BY <1>4, <2>1, RequestKeeps DEF TurnEnds
<1>5. CASE TurnFails(r)
  <2>1. /\ sl \in [SlotIds -> SlotType] /\ \A u \in SlotIds : u # s => sl[u] = slots[u]
        /\ sl[s].lock = r /\ sl[s].ctl = None /\ sl[s].closed = slots[s].closed
    <3> DEFINE x == [slots[s] EXCEPT !.session = FALSE, !.ctl = None]
    <3>1. slots \in [SlotIds -> SlotType]
      BY OwnState
    <3>2. x \in SlotType /\ x.lock = r /\ x.ctl = None /\ x.closed = slots[s].closed
      BY <1>2 DEF SlotType
    <3>3. sl = [slots EXCEPT ![s] = x]
      BY <1>2, <3>1
    <3> HIDE DEF x
    <3> QED BY <1>2, <3>1, <3>2, <3>3
  <2>2. Steps(r, To(r, "leave"), sl, registered, Kill(p))
    BY <1>5 DEF TurnFails
  <2> HIDE DEF sl
  <2>3. ~Alive(Kill(p)[r]) /\ None # r
    BY <1>3, KillWeakens, Apart
  <2>4. Fits(r, To(r, "leave"), sl, registered, Kill(p))
    <3>1. /\ Kill(p) \in [Requests -> ProcType] /\ (p \in Requests => ~Alive(Kill(p)[p]))
          /\ \A q \in Requests :
               /\ procs[q].dead => Kill(p)[q].dead
               /\ Alive(Kill(p)[q]) => Alive(procs[q])
               /\ procs[q].child = "none" /\ ~procs[q].dir => Kill(p)[q].child = "none" /\ ~Kill(p)[q].dir
      BY KillWeakens
    <3> QED BY <1>1, <1>2, <2>1, <2>3, <3>1, OwnSlotFits DEF Idles, Before, Places
  <2> QED BY <2>2, <2>4, RequestKeeps
<1> QED BY <1>4, <1>5

LEMMA LeaveKeeps ==
  ASSUME SessionsInv, NEW r \in Requests, Leave(r)
  PROVE  SessionsInv'
<1> DEFINE s == reqs[r].slot
           sl == [slots EXCEPT ![s].lock = None]
<1>1. reqs[r].at = "leave"
  BY DEF Leave, At
<1>2. s \in SlotIds /\ slots[s] \in SlotType /\ slots[s].lock = r
  BY <1>1, OwnState DEF Working
<1>3. Alive(procs[r]) => slots[s].ctl = r
  BY <1>1, <1>2, OwnState DEF Idles, SlotIds
<1>4. /\ sl \in [SlotIds -> SlotType] /\ \A u \in SlotIds : u # s => sl[u] = slots[u]
      /\ \A u \in SlotIds : sl[u].ctl = slots[u].ctl /\ sl[u].closed = slots[u].closed
    BY <1>2, OwnState DEF SlotType
<1>5. CASE ~slots[s].session
  <2>1. Steps(r, To(r, "forget"), sl, registered, procs)
    BY <1>1, <1>5 DEF Leave
  <2> HIDE DEF sl
  <2>2. Fits(r, To(r, "forget"), sl, registered, procs)
    BY SMTT(30), <1>1, <1>2, <1>3, <1>4, OwnState, OwnSlotFits DEF Idles, Before, Places, Working
  <2> QED BY <2>1, <2>2, RequestKeeps
<1>6. CASE slots[s].session
  <2>1. Steps(r, Answered(r), sl, registered, procs)
    BY <1>1, <1>6 DEF Leave
  <2> HIDE DEF sl
  <2>2. Fits(r, Answered(r), slots, registered, procs)
    BY <1>1, OwnState, AnsweredFits
  <2>3. Answered(r).at = "done"
    BY <1>1, AnsweredType
  <2>4. Fits(r, Answered(r), sl, registered, procs)
    <3>1. FitsTypes(r, Answered(r), sl, registered, procs)
      BY <1>4, <2>2 DEF Fits, FitsTypes
    <3>2. FitsLocks(r, Answered(r), sl)
      BY <1>2, <1>4, <2>2, <2>3 DEF Fits, FitsLocks, Working
    <3>3. FitsStart(r, Answered(r), sl, procs)
      BY <1>4, <2>2, <2>3 DEF Fits, FitsStart, Before
    <3> QED BY <3>1, <3>2, <3>3 DEF Fits
  <2> QED BY <2>1, <2>4, RequestKeeps
<1> QED BY <1>5, <1>6

LEMMA ForgetKeeps ==
  ASSUME SessionsInv, NEW r \in Requests, Forget(r)
  PROVE  SessionsInv'
BY WithoutType, AnsweredFits, RequestKeeps DEF Forget, At

-----------------------------------------------------------------------------
(* The close and the reaper: they change no request, take only a lock that *)
(* is free, and take a process only dead.                                  *)

Follows(sl, pr) ==
  /\ \A s \in SlotIds :
       /\ sl[s].lock # slots[s].lock => slots[s].lock \in {None, "reaper"}
       /\ sl[s].ctl # slots[s].ctl =>
            sl[s].ctl = None /\ (slots[s].ctl \in Requests => pr[slots[s].ctl].dead /\ ~Alive(pr[slots[s].ctl]))
  /\ \A q \in Requests :
       /\ procs[q].dead => pr[q].dead
       /\ Alive(pr[q]) => Alive(procs[q])
       /\ procs[q].child = "none" /\ ~procs[q].dir => pr[q].child = "none" /\ ~pr[q].dir

KillersOK(sl, kl) ==
  /\ \A k \in {"close", "reaper"} : kl[k].slot = 0 <=> kl[k].at = "rest"
  /\ kl["reaper"].at = "take" => sl[kl["reaper"].slot].lock = "reaper"
  /\ kl["reaper"].at # "mark"

LEMMA KillerKeeps ==
  ASSUME SessionsInv, NEW sl \in [SlotIds -> SlotType], NEW reg \in [Tasks -> 0..MaxSlots],
         NEW pr \in [Requests -> ProcType], NEW kl \in [{"close", "reaper"} -> KillerType],
         Follows(sl, pr), KillersOK(sl, kl), Taken(sl, kl)
  PROVE  Sound(reqs, sl, reg, pr, kl)
<1>1. /\ Types(reqs, slots, registered, procs, killers) /\ Locked(reqs, slots, killers)
      /\ Started(reqs, slots, procs) /\ Found(reqs, slots, procs)
  BY DEF SessionsInv, Sound
<1>2. Types(reqs, sl, reg, pr, kl)
  BY <1>1 DEF Types
<1>3. Locked(reqs, sl, kl)
  <2>1. \A r \in Requests : reqs[r].at \in Working => sl[reqs[r].slot].lock = r
    BY <1>1, SlotsAreThere, Apart DEF Locked, Follows, Working, Idles
  <2> QED BY <1>1, <2>1 DEF Locked, KillersOK
<1>4. Started(reqs, sl, pr)
  <2>1. \A r \in Requests : reqs[r].at \in {"start", "check"} => sl[reqs[r].slot].ctl = r \/ pr[r].dead
    BY <1>1, SlotsAreThere DEF Started, Follows, Idles
  <2>2. \A s \in SlotIds, r \in Requests : sl[s].ctl = r => slots[s].ctl = r
    BY Apart DEF Follows
  <2> QED BY <1>1, <2>1, <2>2 DEF Started, Follows
<1>5. Found(reqs, sl, pr)
  BY <1>1 DEF Found, Follows
<1> QED BY <1>2, <1>3, <1>4, <1>5 DEF Sound

LEMMA KillerState ==
  ASSUME SessionsInv
  PROVE  /\ slots \in [SlotIds -> SlotType] /\ registered \in [Tasks -> 0..MaxSlots]
         /\ procs \in [Requests -> ProcType] /\ killers \in [{"close", "reaper"} -> KillerType]
         /\ KillersOK(slots, killers) /\ Taken(slots, killers) /\ Follows(slots, procs)
BY DEF SessionsInv, Sound, Types, Locked, KillersOK, Follows

LEMMA CloseArrivesKeeps ==
  ASSUME SessionsInv, NEW t \in Tasks, CloseArrives(t)
  PROVE  SessionsInv'
<1> DEFINE reg == [registered EXCEPT ![t] = 0]
           x == [at |-> "mark", slot |-> registered[t]]
           kl == [killers EXCEPT !.close = x]
<1>1. reg \in [Tasks -> 0..MaxSlots] /\ registered[t] \in 0..MaxSlots
  BY KillerState, SessionsAssumption
<1>2. killers["close"].at = "rest"
  BY DEF CloseArrives
<1>3. CASE registered[t] = 0
  <2>1. Sound(reqs, slots, reg, procs, killers)
    BY <1>1, KillerState, KillerKeeps
  <2> QED BY <1>3, <2>1, LeavesKeeps DEF CloseArrives
<1>4. CASE registered[t] # 0
  <2>1. x \in KillerType /\ x.at = "mark" /\ x.slot # 0
    BY <1>1, <1>4 DEF KillerType
  <2> HIDE DEF x
  <2>2. kl \in [{"close", "reaper"} -> KillerType] /\ kl["close"] = x /\ kl["reaper"] = killers["reaper"]
    BY <2>1, KillerState
  <2> HIDE DEF kl
  <2>3. KillersOK(slots, kl) /\ Taken(slots, kl)
    BY <1>2, <2>1, <2>2, KillerState DEF KillersOK, Taken, Pending
  <2>4. Sound(reqs, slots, reg, procs, kl)
    BY <1>1, <2>2, <2>3, KillerState, KillerKeeps
  <2> QED BY <1>4, <2>4, LeavesKeeps DEF CloseArrives, kl, x
<1> QED BY <1>3, <1>4

LEMMA MarkKeeps ==
  ASSUME SessionsInv, Mark
  PROVE  SessionsInv'
<1> DEFINE s == killers["close"].slot
           x == [slots[s] EXCEPT !.closed = TRUE]
           sl == [slots EXCEPT ![s].closed = TRUE]
           y == [killers["close"] EXCEPT !.at = "take"]
           kl == [killers EXCEPT !.close.at = "take"]
<1>1. killers["close"].at = "mark" /\ Leaves(reqs, sl, registered, procs, kl)
  BY DEF Mark
<1>2. s \in SlotIds /\ s # 0 /\ slots[s] \in SlotType
  BY <1>1, SlotsAreThere, KillerState DEF SlotIds
<1>3. x \in SlotType /\ x.lock = slots[s].lock /\ x.ctl = slots[s].ctl /\ sl = [slots EXCEPT ![s] = x]
  BY <1>2 DEF SlotType
<1>4. y \in KillerType /\ y.at = "take" /\ y.slot = s /\ kl = [killers EXCEPT !["close"] = y]
  BY <1>2, KillerState DEF KillerType
<1> HIDE DEF x, y
<1>5. /\ sl \in [SlotIds -> SlotType] /\ sl[s] = x /\ \A u \in SlotIds : u # s => sl[u] = slots[u]
      /\ kl \in [{"close", "reaper"} -> KillerType] /\ kl["close"] = y /\ kl["reaper"] = killers["reaper"]
  BY <1>2, <1>3, <1>4, KillerState
<1> HIDE DEF sl, kl
<1>6. Follows(sl, procs)
  BY <1>3, <1>5, KillerState DEF Follows
<1>7. KillersOK(sl, kl)
  <2>1. killers["reaper"].at = "take" => killers["reaper"].slot \in SlotIds
    BY SlotsAreThere
  <2> QED BY <1>2, <1>3, <1>4, <1>5, <2>1, KillerState DEF KillersOK
<1>8. Taken(sl, kl)
  BY <1>1, <1>4, <1>5, KillerState DEF Taken, Pending
<1>9. Sound(reqs, sl, registered, procs, kl)
  BY <1>5, <1>6, <1>7, <1>8, KillerState, KillerKeeps
<1> QED BY <1>1, <1>9, LeavesKeeps

LEMMA RestType == Rest \in KillerType /\ Rest.at = "rest" /\ Rest.slot = 0
BY SessionsAssumption DEF Rest, KillerType

(* A killed process, and what Kill leaves of the others.                   *)
LEMMA KillFollows ==
  ASSUME SessionsInv, NEW s \in SlotIds, NEW sl,
         sl[s].ctl = None, sl[s].lock # slots[s].lock => slots[s].lock \in {None, "reaper"},
         \A u \in SlotIds : u # s => sl[u] = slots[u]
  PROVE  Kill(slots[s].ctl) \in [Requests -> ProcType] /\ Follows(sl, Kill(slots[s].ctl))
BY KillWeakens DEF Follows

LEMMA TakeKeeps ==
  ASSUME SessionsInv, Take
  PROVE  SessionsInv'
<1> DEFINE s == killers["close"].slot
           x == [slots[s] EXCEPT !.ctl = None]
           sl == [slots EXCEPT ![s].ctl = None]
           kl == [killers EXCEPT !.close = Rest]
<1>1. killers["close"].at = "take" /\ Leaves(reqs, sl, registered, Kill(slots[s].ctl), kl)
  BY DEF Take
<1>2. s \in SlotIds /\ slots[s] \in SlotType
  BY <1>1, SlotsAreThere, KillerState
<1>3. x \in SlotType /\ x.lock = slots[s].lock /\ x.ctl = None /\ sl = [slots EXCEPT ![s] = x]
  BY <1>2 DEF SlotType
<1> HIDE DEF x
<1>4. /\ sl \in [SlotIds -> SlotType] /\ sl[s] = x /\ \A u \in SlotIds : u # s => sl[u] = slots[u]
      /\ kl \in [{"close", "reaper"} -> KillerType] /\ kl["close"] = Rest /\ kl["reaper"] = killers["reaper"]
  BY <1>2, <1>3, RestType, KillerState
<1> HIDE DEF sl, kl
<1>5. Kill(slots[s].ctl) \in [Requests -> ProcType] /\ Follows(sl, Kill(slots[s].ctl))
  BY <1>2, <1>3, <1>4, KillFollows
<1>6. KillersOK(sl, kl)
  <2>1. killers["reaper"].at = "take" => killers["reaper"].slot \in SlotIds
    BY SlotsAreThere
  <2> QED BY <1>3, <1>4, <2>1, RestType, KillerState DEF KillersOK
<1>7. Taken(sl, kl)
  BY <1>3, <1>4, KillerState DEF Taken, Pending
<1>8. Sound(reqs, sl, registered, Kill(slots[s].ctl), kl)
  BY <1>4, <1>5, <1>6, <1>7, KillerState, KillerKeeps
<1> QED BY <1>1, <1>8, LeavesKeeps

LEMMA ReaperPicksKeeps ==
  ASSUME SessionsInv, NEW t \in Tasks, ReaperPicks(t)
  PROVE  SessionsInv'
<1> DEFINE y == [at |-> "try", slot |-> registered[t]]
           kl == [killers EXCEPT !.reaper = y]
<1>1. /\ killers["reaper"].at = "rest" /\ registered[t] # 0 /\ killers' = kl
      /\ reqs' = reqs /\ slots' = slots /\ registered' = registered /\ procs' = procs
  BY DEF ReaperPicks
<1>2. y \in KillerType /\ y.at = "try" /\ y.slot # 0
  BY <1>1, KillerState DEF KillerType
<1> HIDE DEF y
<1>3. kl \in [{"close", "reaper"} -> KillerType] /\ kl["reaper"] = y /\ kl["close"] = killers["close"]
  BY <1>2, KillerState
<1>4. killers["reaper"].slot = 0
  BY <1>1, KillerState DEF KillersOK
<1> HIDE DEF kl
<1>5. KillersOK(slots, kl) /\ Taken(slots, kl)
  BY <1>1, <1>2, <1>3, KillerState DEF KillersOK, Taken, Pending
<1>6. Sound(reqs, slots, registered, procs, kl)
  BY <1>3, <1>5, KillerState, KillerKeeps
<1>7. Held(reqs, killers, registered) \subseteq Held(reqs, kl, registered)
  BY <1>3, <1>4 DEF Held
<1>8. NothingIsLeftRunning'
  BY <1>1, <1>7 DEF SessionsInv, NothingIsLeftRunning, Runs
<1> QED BY <1>1, <1>6, <1>8 DEF SessionsInv

LEMMA ReaperTriesKeeps ==
  ASSUME SessionsInv, ReaperTries
  PROVE  SessionsInv'
<1> DEFINE s == killers["reaper"].slot
           x == [slots[s] EXCEPT !.lock = "reaper", !.closed = TRUE]
           sl == [slots EXCEPT ![s].lock = "reaper", ![s].closed = TRUE]
           y == [killers["reaper"] EXCEPT !.at = "take"]
           kl == [killers EXCEPT !.reaper.at = "take"]
           none == [killers EXCEPT !.reaper = Rest]
<1>1. killers["reaper"].at = "try"
  BY DEF ReaperTries
<1>2. s \in SlotIds /\ s # 0 /\ slots[s] \in SlotType
  BY <1>1, SlotsAreThere, KillerState DEF SlotIds
<1>3. CASE slots[s].lock = None
  <2>1. x \in SlotType /\ x.lock = "reaper" /\ x.ctl = slots[s].ctl
    BY <1>2 DEF SlotType
  <2>2. sl = [slots EXCEPT ![s] = x]
    BY <1>2, KillerState DEF SlotType
  <2>3. y \in KillerType /\ y.at = "take" /\ y.slot = s /\ kl = [killers EXCEPT !["reaper"] = y]
    BY <1>2, KillerState DEF KillerType
  <2>4. Leaves(reqs, sl, registered, procs, kl)
    BY <1>3 DEF ReaperTries
  <2> HIDE DEF x, y
  <2>5. /\ sl \in [SlotIds -> SlotType] /\ sl[s] = x /\ \A u \in SlotIds : u # s => sl[u] = slots[u]
        /\ kl \in [{"close", "reaper"} -> KillerType] /\ kl["reaper"] = y /\ kl["close"] = killers["close"]
    BY <1>2, <2>1, <2>2, <2>3, KillerState
  <2> HIDE DEF sl, kl
  <2>6. Follows(sl, procs)
    BY <1>3, <2>1, <2>5, KillerState DEF Follows
  <2>7. KillersOK(sl, kl)
    BY <1>2, <2>1, <2>3, <2>5, KillerState DEF KillersOK
  <2>8. Taken(sl, kl)
    BY <1>1, <2>3, <2>5, KillerState DEF Taken, Pending
  <2>9. Sound(reqs, sl, registered, procs, kl)
    BY <2>5, <2>6, <2>7, <2>8, KillerState, KillerKeeps
  <2> QED BY <2>4, <2>9, LeavesKeeps
<1>4. CASE slots[s].lock # None
  <2>1. Leaves(reqs, slots, registered, procs, none)
    BY <1>4 DEF ReaperTries
  <2>2. none \in [{"close", "reaper"} -> KillerType] /\ none["reaper"] = Rest /\ none["close"] = killers["close"]
    BY RestType, KillerState
  <2> HIDE DEF none
  <2>3. KillersOK(slots, none) /\ Taken(slots, none)
    BY <1>1, <2>2, RestType, KillerState DEF KillersOK, Taken, Pending
  <2>4. Sound(reqs, slots, registered, procs, none)
    BY <2>2, <2>3, KillerState, KillerKeeps
  <2> QED BY <2>1, <2>4, LeavesKeeps
<1> QED BY <1>3, <1>4

LEMMA ReaperTakesKeeps ==
  ASSUME SessionsInv, ReaperTakes
  PROVE  SessionsInv'
<1> DEFINE s == killers["reaper"].slot
           x == [slots[s] EXCEPT !.ctl = None, !.lock = None]
           sl == [slots EXCEPT ![s].ctl = None, ![s].lock = None]
           kl == [killers EXCEPT !.reaper = Rest]
<1>1. killers["reaper"].at = "take" /\ Leaves(reqs, sl, Without(s), Kill(slots[s].ctl), kl)
  BY DEF ReaperTakes
<1>2. s \in SlotIds /\ slots[s] \in SlotType /\ slots[s].lock = "reaper"
  BY <1>1, SlotsAreThere, KillerState DEF KillersOK
<1>3. x \in SlotType /\ x.ctl = None /\ x.closed = slots[s].closed
  BY <1>2 DEF SlotType
<1>4. sl = [slots EXCEPT ![s] = x]
  BY <1>2, KillerState DEF SlotType
<1> HIDE DEF x
<1>5. /\ sl \in [SlotIds -> SlotType] /\ sl[s] = x /\ \A u \in SlotIds : u # s => sl[u] = slots[u]
      /\ kl \in [{"close", "reaper"} -> KillerType] /\ kl["reaper"] = Rest /\ kl["close"] = killers["close"]
  BY <1>2, <1>3, <1>4, RestType, KillerState
<1> HIDE DEF sl, kl
<1>6. Kill(slots[s].ctl) \in [Requests -> ProcType] /\ Follows(sl, Kill(slots[s].ctl))
  BY <1>2, <1>3, <1>5, KillFollows
<1>7. KillersOK(sl, kl)
  BY <1>5, RestType, KillerState DEF KillersOK
<1>8. Taken(sl, kl)
  BY <1>3, <1>5, KillerState DEF Taken, Pending
<1>9. Sound(reqs, sl, Without(s), Kill(slots[s].ctl), kl)
  BY <1>5, <1>6, <1>7, <1>8, WithoutType, KillerKeeps
<1> QED BY <1>1, <1>9, LeavesKeeps

LEMMA ProcExitsKeeps ==
  ASSUME SessionsInv, NEW p \in Requests, ProcExits(p)
  PROVE  SessionsInv'
<1> DEFINE x == [procs[p] EXCEPT !.child = "exited"]
<1>1. /\ procs[p].child = "run" /\ procs' = [procs EXCEPT ![p].child = "exited"]
      /\ reqs' = reqs /\ slots' = slots /\ registered' = registered /\ killers' = killers
  BY DEF ProcExits
<1>2. x \in ProcType /\ x.child = "exited" /\ x.dead = procs[p].dead /\ x.dir = procs[p].dir
  BY KillerState DEF ProcType
<1>3. procs' = [procs EXCEPT ![p] = x]
  BY <1>1
<1> HIDE DEF x
<1>4. procs' \in [Requests -> ProcType] /\ procs'[p] = x /\ \A q \in Requests : q # p => procs'[q] = procs[q]
  BY <1>2, <1>3, KillerState
<1>5. \A q \in Requests : Alive(procs'[q]) => Alive(procs[q])
  BY <1>1, <1>2, <1>4 DEF Alive
<1>6. Follows(slots, procs')
  BY <1>1, <1>2, <1>4, <1>5, KillerState DEF Follows
<1>7. Sound(reqs, slots, registered, procs', killers)
  BY <1>4, <1>6, KillerState, KillerKeeps
<1>8. NothingIsLeftRunning'
  BY <1>1, <1>5 DEF SessionsInv, NothingIsLeftRunning, Runs, Alive
<1> QED BY <1>1, <1>7, <1>8 DEF SessionsInv

-----------------------------------------------------------------------------
LEMMA InitHolds == Init => SessionsInv
<1> SUFFICES ASSUME Init PROVE SessionsInv
  OBVIOUS
<1>1. /\ reqs = [r \in Requests |-> [at |-> "new", task |-> None, slot |-> 0, tries |-> 0]]
      /\ slots = [s \in SlotIds |-> NewSlot] /\ registered = [t \in Tasks |-> 0]
      /\ procs = [r \in Requests |-> NewProc] /\ killers = [k \in {"close", "reaper"} |-> Rest]
  BY DEF Init
<1>2. NewSlot \in SlotType /\ ~NewSlot.closed /\ NewSlot.ctl = None
  BY DEF NewSlot, SlotType
<1>3. NewProc \in ProcType /\ ~Alive(NewProc) /\ NewProc.child = "none" /\ ~NewProc.dir
  BY DEF NewProc, ProcType, Alive
<1>4. Types(reqs, slots, registered, procs, killers)
  BY <1>1, <1>2, <1>3, RestType, SessionsAssumption DEF Types, RequestType, Places
<1>5. Locked(reqs, slots, killers)
  BY <1>1, RestType DEF Locked, Idles, Working
<1>6. Started(reqs, slots, procs) /\ Found(reqs, slots, procs)
  BY <1>1, <1>2, <1>3, Apart DEF Started, Found, Before
<1>7. Taken(slots, killers)
  BY <1>1, <1>2 DEF Taken
<1>8. NothingIsLeftRunning
  BY <1>1, <1>3 DEF NothingIsLeftRunning, Runs, Alive
<1> QED BY <1>4, <1>5, <1>6, <1>7, <1>8 DEF SessionsInv, Sound

LEMMA NextKeeps == SessionsInv /\ [Next]_vars => SessionsInv'
<1> SUFFICES ASSUME SessionsInv, [Next]_vars PROVE SessionsInv'
  OBVIOUS
<1>1. CASE UNCHANGED vars
  BY <1>1 DEF vars, SessionsInv, NothingIsLeftRunning, Runs
<1>2. ASSUME NEW r \in Requests, Request(r) PROVE SessionsInv'
  BY <1>2, FindKeeps, LockKeeps, InstallKeeps, StartKeeps, CheckKeeps, TurnKeeps, LeaveKeeps, ForgetKeeps DEF Request
<1>3. CASE Reaper
  BY <1>3, ReaperPicksKeeps, ReaperTriesKeeps, ReaperTakesKeeps DEF Reaper
<1> QED BY <1>1, <1>2, <1>3, ArriveKeeps, CloseArrivesKeeps, MarkKeeps, TakeKeeps, ProcExitsKeeps DEF Next

LEMMA SessionsInvHolds == Spec => []SessionsInv
BY InitHolds, NextKeeps, PTL DEF Spec

(* No process and no session directory is out of reach of every kill       *)
(* (claude_code.rs:30), for any number of requests, tasks and sessions.    *)
THEOREM NothingEscapes == Spec => []NothingIsLeftRunning
<1>1. SessionsInv => NothingIsLeftRunning
  BY DEF SessionsInv
<1> QED BY <1>1, SessionsInvHolds, PTL

(* A close and a start cannot miss each other (claude_code.rs:264): what   *)
(* runs for a closed slot is dead and about to be found so.                *)
THEOREM CloseKills == Spec => []ClosedIsKilled
<1>1. SessionsInv => ClosedIsKilled
  <2> SUFFICES ASSUME SessionsInv, NEW s \in SlotIds, slots[s].closed,
                      \A k \in DOMAIN killers : killers[k].slot = s => killers[k].at \notin {"mark", "take"}
               PROVE  /\ slots[s].ctl = None
                      /\ \A r \in Requests : reqs[r].slot = s /\ Runs(r) => At(r, "check") /\ procs[r].dead
    BY DEF ClosedIsKilled
  <2>1. slots[s].ctl = None
    BY KillerState DEF Taken, Pending
  <2>2. ASSUME NEW r \in Requests, reqs[r].slot = s, Runs(r)
        PROVE  At(r, "check") /\ procs[r].dead
    <3>1. Alive(procs[r]) /\ s # 0 /\ None # r
      BY <2>2, Apart DEF Runs, Alive, SlotIds
    <3>2. reqs[r].at = "check"
      BY <2>1, <2>2, <3>1, OwnState
    <3> QED BY <2>1, <2>2, <3>1, <3>2, OwnState DEF At
  <2> QED BY <2>1, <2>2
<1> QED BY <1>1, SessionsInvHolds, PTL

-----------------------------------------------------------------------------
(* The map: it has a slot once, and none that a close has taken out of it; *)
(* a lock is held by a request at work in the slot or by the reaper's      *)
(* kill.                                                                   *)
Free(rq, sl, reg, kl) ==
  /\ \A t, u \in Tasks : reg[t] = reg[u] /\ reg[t] # 0 => t = u
  /\ \A t \in Tasks : reg[t] # 0 => kl["close"].slot # reg[t]
  /\ \A s \in SlotIds, q \in Requests : sl[s].lock = q => rq[q].slot = s /\ rq[q].at \in Working
  /\ \A s \in SlotIds : sl[s].lock = "reaper" => kl["reaper"].at = "take" /\ kl["reaper"].slot = s
  /\ \A t \in Tasks : reg[t] # 0 =>
       \/ sl[reg[t]].session
       \/ \E r \in Requests : rq[r].slot = reg[t]
       \/ \E k \in {"close", "reaper"} : kl[k].slot = reg[t]

FreeInv == SessionsInv /\ Free(reqs, slots, registered, killers)

LEMMA LeavesFree ==
  ASSUME NEW rq, NEW sl, NEW reg \in [Tasks -> 0..MaxSlots], NEW pr, NEW kl,
         Free(rq, sl, reg, kl), Leaves(rq, sl, reg, pr, kl)
  PROVE  Free(reqs, slots, registered, killers)'
<1> DEFINE kept == Held(rq, kl, reg)
<1>1. /\ reqs' = rq /\ registered' = reg /\ killers' = kl
      /\ \A s \in SlotIds : slots'[s] = IF s \in kept THEN sl[s] ELSE NewSlot
  BY DEF Leaves
<1>2. \A t \in Tasks : reg[t] # 0 => reg[t] \in kept /\ reg[t] \in SlotIds
  BY DEF Held, SlotIds
<1>3. NewSlot.lock = None
  BY DEF NewSlot
<1> HIDE DEF kept
<1>4. \A s \in SlotIds : slots'[s].lock # None => slots'[s].lock = sl[s].lock
  BY <1>1, <1>3
<1>5. \A t \in Tasks : reg[t] # 0 => slots'[reg[t]] = sl[reg[t]]
  BY <1>1, <1>2
<1>6. None # "reaper"
  BY DEF None
<1> QED BY <1>1, <1>4, <1>5, <1>6, Apart DEF Free

(* What a request's step may do to the map and the locks.                  *)
LEMMA RequestFree ==
  ASSUME FreeInv, NEW r \in Requests, NEW rec, NEW sl, NEW reg \in [Tasks -> 0..MaxSlots], NEW pr,
         \A t \in Tasks : reg[t] \in {0, registered[t]},
         \A s \in SlotIds : sl[s].lock \in {slots[s].lock, None, r},
         \A s \in SlotIds : sl[s].lock = r => rec.slot = s /\ rec.at \in Working,
         \A s \in SlotIds : slots[s].session => sl[s].session \/ rec.slot = s,
         \A t \in Tasks : reg[t] # 0 /\ reg[t] = reqs[r].slot => sl[reg[t]].session \/ rec.slot = reqs[r].slot,
         Steps(r, rec, sl, reg, pr)
  PROVE  Free(reqs, slots, registered, killers)'
<1> DEFINE rq == [reqs EXCEPT ![r] = rec]
<1>1. reqs \in [Requests -> RequestType] /\ registered \in [Tasks -> 0..MaxSlots]
  BY DEF FreeInv, SessionsInv, Sound, Types
<1>2. rq[r] = rec /\ \A q \in Requests : q # r => rq[q] = reqs[q]
  BY <1>1
<1> HIDE DEF rq
<1>3. None # "reaper" /\ r # "reaper"
  BY Apart DEF None
<1>4. \A t \in Tasks : reg[t] # 0 => registered[t] = reg[t] /\ reg[t] \in SlotIds
  BY <1>1 DEF SlotIds
<1>5. \A s \in SlotIds, q \in Requests : sl[s].lock = q => rq[q].slot = s /\ rq[q].at \in Working
  <2> SUFFICES ASSUME NEW s \in SlotIds, NEW q \in Requests, sl[s].lock = q, q # r
               PROVE  reqs[q].slot = s /\ reqs[q].at \in Working
    BY <1>2
  <2>1. slots[s].lock = q
    BY Apart
  <2> QED BY <2>1 DEF FreeInv, Free
<1>6. \A s \in SlotIds : sl[s].lock = "reaper" => killers["reaper"].at = "take" /\ killers["reaper"].slot = s
  BY <1>3 DEF FreeInv, Free
<1>7. ASSUME NEW t \in Tasks, reg[t] # 0
      PROVE  \/ sl[reg[t]].session
             \/ \E q \in Requests : rq[q].slot = reg[t]
             \/ \E k \in {"close", "reaper"} : killers[k].slot = reg[t]
  <2>1. registered[t] = reg[t] /\ reg[t] \in SlotIds
    BY <1>4, <1>7
  <2>2. CASE slots[reg[t]].session
    BY <1>2, <2>1, <2>2
  <2>3. CASE \E q \in Requests : reqs[q].slot = reg[t]
    BY <1>2, <1>7, <2>3
  <2>4. CASE \E k \in {"close", "reaper"} : killers[k].slot = reg[t]
    BY <2>4
  <2> QED BY <1>7, <2>1, <2>2, <2>3, <2>4 DEF FreeInv, Free
<1>8. Free(rq, sl, reg, killers)
  BY <1>4, <1>5, <1>6, <1>7 DEF FreeInv, Free
<1> QED BY <1>8, LeavesFree DEF Steps, rq

(* A step that only looks, or that leaves a slot it has taken out of the   *)
(* map.                                                                    *)
LEMMA PlainFree ==
  ASSUME FreeInv, NEW r \in Requests, NEW rec, NEW reg \in [Tasks -> 0..MaxSlots], NEW pr,
         reqs[r].at \notin Working,
         \A t \in Tasks : reg[t] \in {0, registered[t]},
         \A t \in Tasks : reg[t] # 0 => reg[t] # reqs[r].slot,
         Steps(r, rec, slots, reg, pr)
  PROVE  Free(reqs, slots, registered, killers)'
<1>1. \A s \in SlotIds : slots[s].lock # r
  BY DEF FreeInv, Free
<1>2. \A s \in SlotIds : slots[s].lock \in {slots[s].lock, None, r}
  OBVIOUS
<1>3. \A s \in SlotIds : slots[s].lock = r => rec.slot = s /\ rec.at \in Working
  BY <1>1
<1>4. \A s \in SlotIds : slots[s].session => slots[s].session \/ rec.slot = s
  OBVIOUS
<1>5. \A t \in Tasks : reg[t] # 0 /\ reg[t] = reqs[r].slot => slots[reg[t]].session \/ rec.slot = reqs[r].slot
  OBVIOUS
<1> QED BY <1>2, <1>3, <1>4, <1>5, RequestFree

(* A step in a request's own slot, which it stays in.                      *)
LEMMA OwnFree ==
  ASSUME FreeInv, NEW r \in Requests, NEW a \in Places, NEW sl, NEW pr,
         reqs[r].at \notin Idles,
         \A u \in SlotIds : u # reqs[r].slot => sl[u] = slots[u],
         sl[reqs[r].slot].lock = IF a \in Working THEN r ELSE None,
         Steps(r, To(r, a), sl, registered, pr)
  PROVE  Free(reqs, slots, registered, killers)'
<1> DEFINE s == reqs[r].slot
           rec == To(r, a)
<1>1. SessionsInv
  BY DEF FreeInv
<1>2. rec.at = a /\ rec.slot = s /\ s \in SlotIds /\ registered \in [Tasks -> 0..MaxSlots]
  BY <1>1, ToType, OwnState, SlotsAreThere DEF Idles
<1> HIDE DEF rec
<1>3. None # r /\ \A u \in SlotIds : u # s => slots[u].lock # r
  BY Apart DEF FreeInv, Free
<1>4. \A t \in Tasks : registered[t] \in {0, registered[t]}
  OBVIOUS
<1>5. \A u \in SlotIds : sl[u].lock \in {slots[u].lock, None, r}
  BY <1>2
<1>6. \A u \in SlotIds : sl[u].lock = r => rec.slot = u /\ rec.at \in Working
  BY <1>2, <1>3
<1>7. \A u \in SlotIds : slots[u].session => sl[u].session \/ rec.slot = u
  BY <1>2
<1>8. \A t \in Tasks : registered[t] # 0 /\ registered[t] = reqs[r].slot =>
        sl[registered[t]].session \/ rec.slot = reqs[r].slot
  BY <1>2
<1>9. Steps(r, rec, sl, registered, pr)
  BY DEF rec
<1> QED BY <1>2, <1>4, <1>5, <1>6, <1>7, <1>8, <1>9, RequestFree

LEMMA FindFree ==
  ASSUME FreeInv, NEW r \in Requests, Find(r)
  PROVE  Free(reqs, slots, registered, killers)'
<1> DEFINE t == reqs[r].task
           Has(s) == [reqs[r] EXCEPT !.at = "wait", !.slot = s, !.tries = @ + 1]
           free == SlotIds \ Held(reqs, killers, registered)
<1>0. SessionsInv
  BY DEF FreeInv
<1>1. reqs[r].at = "find" /\ reqs[r].slot = 0 /\ t \in Tasks
  BY <1>0, OwnState DEF Find, At, Idles
<1>2. /\ reqs \in [Requests -> RequestType] /\ registered \in [Tasks -> 0..MaxSlots]
      /\ reqs[r] \in RequestType /\ slots \in [SlotIds -> SlotType]
  BY <1>0 DEF SessionsInv, Sound, Types
<1>3. \A s \in SlotIds : slots[s].lock # r
  BY <1>1 DEF FreeInv, Free, SlotIds
<1>4. \A x \in Tasks : registered[x] # 0 => registered[x] # reqs[r].slot
  BY <1>1
<1>5. CASE registered[t] # 0
  <2>1. Steps(r, Has(registered[t]), slots, registered, procs)
    BY <1>5 DEF Find
  <2> HIDE DEF Has
  <2> QED BY <1>1, <1>2, <1>4, <2>1, PlainFree DEF Working
<1>6. CASE Steps(r, Answered(r), slots, registered, procs)
  BY <1>1, <1>2, <1>4, <1>6, PlainFree DEF Working
<1>7. CASE registered[t] = 0 /\ ~Steps(r, Answered(r), slots, registered, procs)
  <2> DEFINE s == CHOOSE s \in free : TRUE
             rec == Has(s)
             rq == [reqs EXCEPT ![r] = rec]
             reg == [registered EXCEPT ![t] = s]
  <2>1. free # {} /\ Steps(r, rec, slots, reg, procs)
    BY <1>7 DEF Find
  <2>2. s \in SlotIds /\ s \notin Held(reqs, killers, registered) /\ s # 0 /\ s \in 0..MaxSlots
    <3>1. s \in free
      BY <2>1
    <3> HIDE DEF s
    <3> QED BY <3>1, SessionsAssumption DEF SlotIds
  <2> HIDE DEF s
  <2>3. /\ \A x \in Tasks : registered[x] # s
        /\ \A k \in {"close", "reaper"} : killers[k].slot # s
    BY <2>2 DEF Held
  <2>4. rec.slot = s
    <3>1. reqs[r].tries + 1 \in Nat /\ "wait" \in Places
      BY <1>2 DEF RequestType, Places
    <3>2. rec = Moved(reqs[r], "wait", s, reqs[r].tries + 1)
      BY DEF Moved
    <3> HIDE DEF rec
    <3> QED BY <1>2, <2>2, <3>1, <3>2, MovedType
  <2> HIDE DEF rec
  <2>5. /\ reg \in [Tasks -> 0..MaxSlots] /\ reg[t] = s /\ \A x \in Tasks : x # t => reg[x] = registered[x]
        /\ rq[r] = rec /\ \A q \in Requests : q # r => rq[q] = reqs[q]
    BY <1>1, <1>2, <2>2
  <2>6. \A x \in Tasks : registered[x] # 0 =>
            \/ slots[registered[x]].session
            \/ \E q \in Requests : rq[q].slot = registered[x]
            \/ \E k \in {"close", "reaper"} : killers[k].slot = registered[x]
    <3> HIDE DEF rq
    <3> SUFFICES ASSUME NEW x \in Tasks, registered[x] # 0,
                        \E q \in Requests : reqs[q].slot = registered[x]
                 PROVE  \E q \in Requests : rq[q].slot = registered[x]
      BY DEF FreeInv, Free
    <3> QED BY <1>4, <2>5
  <2> HIDE DEF reg, rq
  <2>7. Free(rq, slots, reg, killers)
    <3>1. \A x, u \in Tasks : reg[x] = reg[u] /\ reg[x] # 0 => x = u
      BY <2>3, <2>5 DEF FreeInv, Free
    <3>2. \A x \in Tasks : reg[x] # 0 => killers["close"].slot # reg[x]
      BY <2>3, <2>5 DEF FreeInv, Free
    <3>3. \A u \in SlotIds, q \in Requests : slots[u].lock = q => rq[q].slot = u /\ rq[q].at \in Working
      BY <1>3, <2>5 DEF FreeInv, Free
    <3>4. \A x \in Tasks : reg[x] # 0 =>
            \/ slots[reg[x]].session
            \/ \E q \in Requests : rq[q].slot = reg[x]
            \/ \E k \in {"close", "reaper"} : killers[k].slot = reg[x]
      BY <2>4, <2>5, <2>6
    <3> QED BY <3>1, <3>2, <3>3, <3>4 DEF FreeInv, Free
  <2> QED BY <2>1, <2>5, <2>7, LeavesFree DEF Steps, rq
<1> QED BY <1>5, <1>6, <1>7

LEMMA ArriveFree ==
  ASSUME FreeInv, NEW r \in Requests, NEW t \in Tasks, Arrive(r, t)
  PROVE  Free(reqs, slots, registered, killers)'
<1> DEFINE rec == [To(r, "find") EXCEPT !.task = t]
<1>1. SessionsInv /\ reqs[r].at = "new"
  BY DEF FreeInv, Arrive, At
<1>2. reqs[r].slot = 0 /\ registered \in [Tasks -> 0..MaxSlots]
  BY <1>1, OwnState DEF Idles
<1>3. Steps(r, rec, slots, registered, procs)
  BY DEF Arrive
<1> HIDE DEF rec
<1> QED BY <1>1, <1>2, <1>3, PlainFree DEF Working

LEMMA LockFree ==
  ASSUME FreeInv, NEW r \in Requests, Lock(r)
  PROVE  Free(reqs, slots, registered, killers)'
<1> DEFINE s == reqs[r].slot
<1>1. SessionsInv /\ reqs[r].at = "wait"
  BY DEF FreeInv, Lock, At
<1>2. s \in SlotIds /\ slots \in [SlotIds -> SlotType] /\ slots[s] \in SlotType
  BY <1>1, OwnState, SlotsAreThere DEF Idles
<1>3. ASSUME NEW rec, Steps(r, rec, slots, Without(s), procs)
      PROVE  Free(reqs, slots, registered, killers)'
  <2>1. Without(s) \in [Tasks -> 0..MaxSlots]
    BY <1>1, WithoutType
  <2>2. \A t \in Tasks : Without(s)[t] \in {0, registered[t]} /\ (Without(s)[t] # 0 => Without(s)[t] # s)
    BY DEF Without
  <2> QED BY <1>1, <1>3, <2>1, <2>2, PlainFree DEF Working
<1>4. ASSUME NEW sl, Steps(r, To(r, "turn"), sl, registered, procs), sl = [slots EXCEPT ![s].lock = r]
      PROVE  Free(reqs, slots, registered, killers)'
  <2>1. sl[s].lock = r /\ \A u \in SlotIds : u # s => sl[u] = slots[u]
    BY <1>2, <1>4 DEF SlotType
  <2>3. "turn" \in Working /\ "turn" \in Places /\ reqs[r].at \notin Idles
    BY <1>1 DEF Idles, Working, Places
  <2>4. Steps(r, To(r, "turn"), sl, registered, procs)
    BY <1>4
  <2>5. sl[s].lock = IF "turn" \in Working THEN r ELSE None
    BY <2>1, <2>3
  <2> QED BY <2>1, <2>3, <2>4, <2>5, OwnFree
<1>5. ASSUME NEW sl, NEW pr, Steps(r, To(r, "install"), sl, registered, pr),
             sl = [slots EXCEPT ![s] = [@ EXCEPT !.lock = r, !.session = FALSE, !.ctl = None]]
      PROVE  Free(reqs, slots, registered, killers)'
  <2> DEFINE x == [slots[s] EXCEPT !.lock = r, !.session = FALSE, !.ctl = None]
  <2>1. sl = [slots EXCEPT ![s] = x] /\ x.lock = r
    BY <1>2, <1>5 DEF SlotType
  <2> HIDE DEF x
  <2>2. sl[s].lock = r /\ \A u \in SlotIds : u # s => sl[u] = slots[u]
    BY <1>2, <2>1
  <2>3. "install" \in Working /\ "install" \in Places /\ reqs[r].at \notin Idles
    BY <1>1 DEF Idles, Working, Places
  <2>4. Steps(r, To(r, "install"), sl, registered, pr)
    BY <1>5
  <2>5. sl[s].lock = IF "install" \in Working THEN r ELSE None
    BY <2>2, <2>3
  <2> QED BY <2>2, <2>3, <2>4, <2>5, OwnFree
<1> QED BY <1>3, <1>4, <1>5 DEF Lock

(* A step of a request with the lock, which it keeps.                      *)
LEMMA HolderFree ==
  ASSUME FreeInv, NEW r \in Requests, NEW a \in Working, reqs[r].at \in Working, NEW sl, NEW pr,
         \A u \in SlotIds : u # reqs[r].slot => sl[u] = slots[u],
         sl[reqs[r].slot].lock = slots[reqs[r].slot].lock,
         Steps(r, To(r, a), sl, registered, pr)
  PROVE  Free(reqs, slots, registered, killers)'
<1>1. SessionsInv
  BY DEF FreeInv
<1>2. slots[reqs[r].slot].lock = r /\ reqs[r].at \notin Idles /\ a \in Places
  BY <1>1, OwnState DEF Working, Idles, Places
<1> QED BY <1>2, OwnFree

LEMMA FailsFree ==
  ASSUME FreeInv, NEW r \in Requests, reqs[r].at \in Working, Fails(r)
  PROVE  Free(reqs, slots, registered, killers)'
BY HolderFree DEF Fails, Working

(* What a holder changes of its slot besides the lock.                     *)
LEMMA InstallFree ==
  ASSUME FreeInv, NEW r \in Requests, Install(r)
  PROVE  Free(reqs, slots, registered, killers)'
<1> DEFINE s == reqs[r].slot
           sl == [slots EXCEPT ![s].ctl = r]
<1>1. SessionsInv /\ reqs[r].at \in Working
  BY DEF FreeInv, Install, At, Working
<1>2. s \in SlotIds /\ slots \in [SlotIds -> SlotType] /\ slots[s] \in SlotType
  BY <1>1, OwnState DEF Working, Idles
<1>3. sl[s].lock = slots[s].lock /\ \A u \in SlotIds : u # s => sl[u] = slots[u]
  BY <1>2 DEF SlotType
<1>4. CASE Fails(r)
  BY <1>1, <1>4, FailsFree
<1>5. CASE Steps(r, To(r, "start"), sl, registered, Kill(slots[s].ctl))
  <2> HIDE DEF sl
  <2> QED BY <1>1, <1>3, <1>5, HolderFree DEF Working
<1> QED BY <1>4, <1>5 DEF Install

LEMMA StartFree ==
  ASSUME FreeInv, NEW r \in Requests, Start(r)
  PROVE  Free(reqs, slots, registered, killers)'
<1> DEFINE pr == [procs EXCEPT ![r].dir = TRUE, ![r].child = "run"]
<1>1. reqs[r].at \in Working
  BY DEF Start, At, Working
<1>2. CASE Fails(r)
  BY <1>1, <1>2, FailsFree
<1>3. CASE Steps(r, To(r, "check"), slots, registered, pr)
  <2> HIDE DEF pr
  <2> QED BY <1>1, <1>3, HolderFree DEF Working
<1> QED BY <1>2, <1>3 DEF Start

LEMMA CheckFree ==
  ASSUME FreeInv, NEW r \in Requests, Check(r)
  PROVE  Free(reqs, slots, registered, killers)'
<1> DEFINE s == reqs[r].slot
           sl == [slots EXCEPT ![s].session = TRUE]
<1>1. SessionsInv /\ reqs[r].at \in Working
  BY DEF FreeInv, Check, At, Working
<1>2. s \in SlotIds /\ slots \in [SlotIds -> SlotType] /\ slots[s] \in SlotType
  BY <1>1, OwnState DEF Working, Idles
<1>3. sl[s].lock = slots[s].lock /\ \A u \in SlotIds : u # s => sl[u] = slots[u]
  BY <1>2 DEF SlotType
<1>4. CASE Fails(r)
  BY <1>1, <1>4, FailsFree
<1>5. CASE Steps(r, To(r, "turn"), sl, registered, procs)
  <2> HIDE DEF sl
  <2> QED BY <1>1, <1>3, <1>5, HolderFree DEF Working
<1> QED BY <1>4, <1>5 DEF Check

LEMMA TurnFree ==
  ASSUME FreeInv, NEW r \in Requests, TurnEnds(r) \/ TurnFails(r)
  PROVE  Free(reqs, slots, registered, killers)'
<1> DEFINE s == reqs[r].slot
           x == [slots[s] EXCEPT !.session = FALSE, !.ctl = None]
           sl == [slots EXCEPT ![s].session = FALSE, ![s].ctl = None]
<1>1. SessionsInv /\ reqs[r].at \in Working
  BY DEF FreeInv, TurnEnds, TurnFails, At, Working
<1>2. s \in SlotIds /\ slots \in [SlotIds -> SlotType] /\ slots[s] \in SlotType
  BY <1>1, OwnState DEF Working, Idles
<1>3. sl = [slots EXCEPT ![s] = x] /\ x.lock = slots[s].lock
  BY <1>2 DEF SlotType
<1>4. sl[s].lock = slots[s].lock /\ \A u \in SlotIds : u # s => sl[u] = slots[u]
  <2> HIDE DEF x, sl
  <2> QED BY <1>2, <1>3
<1>5. CASE TurnEnds(r)
  BY <1>1, <1>5, HolderFree DEF TurnEnds, Working
<1>6. CASE TurnFails(r)
  <2>1. Steps(r, To(r, "leave"), sl, registered, Kill(slots[s].ctl))
    BY <1>6 DEF TurnFails
  <2> HIDE DEF sl
  <2> QED BY <1>1, <1>4, <2>1, HolderFree DEF Working
<1> QED BY <1>5, <1>6

(* A request leaves a session behind, or stays to forget the slot.         *)
LEMMA LeaveFree ==
  ASSUME FreeInv, NEW r \in Requests, Leave(r)
  PROVE  Free(reqs, slots, registered, killers)'
<1> DEFINE s == reqs[r].slot
           sl == [slots EXCEPT ![s].lock = None]
<1>1. SessionsInv /\ reqs[r].at = "leave"
  BY DEF FreeInv, Leave, At
<1>2. /\ s \in SlotIds /\ slots \in [SlotIds -> SlotType] /\ slots[s] \in SlotType
      /\ registered \in [Tasks -> 0..MaxSlots]
  BY <1>1, OwnState, SlotsAreThere DEF Idles
<1>3. /\ sl[s].lock = None /\ sl[s].session = slots[s].session
      /\ \A u \in SlotIds : u # s => sl[u] = slots[u]
  BY <1>2 DEF SlotType
<1> HIDE DEF sl
<1>4. CASE ~slots[s].session /\ Steps(r, To(r, "forget"), sl, registered, procs)
  BY <1>1, <1>3, <1>4, OwnFree DEF Idles, Working, Places
<1>5. CASE slots[s].session /\ Steps(r, Answered(r), sl, registered, procs)
  <2>1. None # r /\ \A u \in SlotIds : u # s => slots[u].lock # r
    BY Apart DEF FreeInv, Free
  <2>2. \A t \in Tasks : registered[t] \in {0, registered[t]}
    OBVIOUS
  <2>3. \A u \in SlotIds : sl[u].lock \in {slots[u].lock, None, r}
    BY <1>3
  <2>4. \A u \in SlotIds : sl[u].lock = r => Answered(r).slot = u /\ Answered(r).at \in Working
    BY <1>3, <2>1
  <2>5. \A u \in SlotIds : slots[u].session => sl[u].session \/ Answered(r).slot = u
    BY <1>3
  <2>6. \A t \in Tasks : registered[t] # 0 /\ registered[t] = reqs[r].slot =>
          sl[registered[t]].session \/ Answered(r).slot = reqs[r].slot
    BY <1>3, <1>5
  <2> QED BY <1>2, <1>5, <2>2, <2>3, <2>4, <2>5, <2>6, RequestFree
<1> QED BY <1>4, <1>5 DEF Leave, sl

LEMMA ForgetFree ==
  ASSUME FreeInv, NEW r \in Requests, Forget(r)
  PROVE  Free(reqs, slots, registered, killers)'
<1> DEFINE s == reqs[r].slot
<1>1. SessionsInv /\ reqs[r].at \notin Working
  BY DEF FreeInv, Forget, At, Working
<1>2. Without(s) \in [Tasks -> 0..MaxSlots]
  BY <1>1, WithoutType
<1>3. \A t \in Tasks : Without(s)[t] \in {0, registered[t]} /\ (Without(s)[t] # 0 => Without(s)[t] # s)
  BY DEF Without
<1>4. Steps(r, Answered(r), slots, Without(s), procs)
  BY DEF Forget
<1> QED BY <1>1, <1>2, <1>3, <1>4, PlainFree

-----------------------------------------------------------------------------
(* What a step of the close or the reaper may do to the map and the locks. *)
LEMMA KillerFree ==
  ASSUME FreeInv, NEW sl, NEW reg \in [Tasks -> 0..MaxSlots], NEW pr, NEW kl,
         \A t \in Tasks : reg[t] \in {0, registered[t]},
         \A t \in Tasks : reg[t] # 0 => kl["close"].slot # reg[t],
         \A s \in SlotIds : sl[s].session = slots[s].session,
         \A s \in SlotIds, q \in Requests : sl[s].lock = q => slots[s].lock = q,
         \A s \in SlotIds : sl[s].lock = "reaper" => kl["reaper"].at = "take" /\ kl["reaper"].slot = s,
         \A t \in Tasks : reg[t] # 0 /\ killers["reaper"].slot = reg[t] =>
           kl["reaper"].slot = reg[t] \/ \E r \in Requests : reqs[r].slot = reg[t],
         Leaves(reqs, sl, reg, pr, kl)
  PROVE  Free(reqs, slots, registered, killers)'
<1>1. \A t \in Tasks : reg[t] # 0 => registered[t] = reg[t] /\ reg[t] \in SlotIds
  BY DEF SlotIds
<1>2. ASSUME NEW t \in Tasks, reg[t] # 0
      PROVE  \/ sl[reg[t]].session
             \/ \E r \in Requests : reqs[r].slot = reg[t]
             \/ \E k \in {"close", "reaper"} : kl[k].slot = reg[t]
  <2>1. /\ registered[t] = reg[t] /\ reg[t] \in SlotIds
        /\ sl[reg[t]].session = slots[reg[t]].session
        /\ killers["close"].slot # reg[t]
    BY <1>1, <1>2 DEF FreeInv, Free
  <2>2. \/ slots[reg[t]].session
        \/ \E r \in Requests : reqs[r].slot = reg[t]
        \/ killers["reaper"].slot = reg[t]
    BY <1>2, <2>1 DEF FreeInv, Free
  <2> QED BY <1>2, <2>1, <2>2
<1>3. \A t, u \in Tasks : reg[t] = reg[u] /\ reg[t] # 0 => t = u
  BY <1>1 DEF FreeInv, Free
<1>4. \A s \in SlotIds, q \in Requests : sl[s].lock = q => reqs[q].slot = s /\ reqs[q].at \in Working
  BY DEF FreeInv, Free
<1>5. Free(reqs, sl, reg, kl)
  BY <1>2, <1>3, <1>4 DEF Free
<1> QED BY <1>5, LeavesFree

(* A closed task's slot is out of the map before anything is done to it;   *)
(* no other task has it.                                                   *)
LEMMA CloseArrivesFree ==
  ASSUME FreeInv, NEW t \in Tasks, CloseArrives(t)
  PROVE  Free(reqs, slots, registered, killers)'
<1> DEFINE reg == [registered EXCEPT ![t] = 0]
           x == [at |-> "mark", slot |-> registered[t]]
           kl == IF registered[t] = 0 THEN killers ELSE [killers EXCEPT !.close = x]
<1>1. SessionsInv
  BY DEF FreeInv
<1>2. /\ reg \in [Tasks -> 0..MaxSlots] /\ reg[t] = 0
      /\ \A u \in Tasks : u # t => reg[u] = registered[u]
  BY <1>1, KillerState, SessionsAssumption
<1>3. Leaves(reqs, slots, reg, procs, kl)
  BY DEF CloseArrives
<1>4. x.slot = registered[t]
  OBVIOUS
<1> HIDE DEF x
<1>5. kl["reaper"] = killers["reaper"] /\ (registered[t] # 0 => kl["close"].slot = registered[t])
      /\ (registered[t] = 0 => kl["close"] = killers["close"])
  BY <1>1, <1>4, KillerState
<1> HIDE DEF reg, kl
<1>6. \A u \in Tasks : reg[u] \in {0, registered[u]}
  BY <1>2
<1>7. \A u \in Tasks : reg[u] # 0 => kl["close"].slot # reg[u]
  BY <1>2, <1>5 DEF FreeInv, Free
<1>8. \A s \in SlotIds : slots[s].lock = "reaper" => kl["reaper"].at = "take" /\ kl["reaper"].slot = s
  BY <1>5 DEF FreeInv, Free
<1> QED BY <1>2, <1>3, <1>5, <1>6, <1>7, <1>8, KillerFree

LEMMA MarkFree ==
  ASSUME FreeInv, Mark
  PROVE  Free(reqs, slots, registered, killers)'
<1> DEFINE s == killers["close"].slot
           x == [slots[s] EXCEPT !.closed = TRUE]
           sl == [slots EXCEPT ![s].closed = TRUE]
           y == [killers["close"] EXCEPT !.at = "take"]
           kl == [killers EXCEPT !.close.at = "take"]
<1>0. SessionsInv
  BY DEF FreeInv
<1>1. killers["close"].at = "mark" /\ Leaves(reqs, sl, registered, procs, kl)
  BY DEF Mark
<1>2. s \in SlotIds /\ slots[s] \in SlotType /\ registered \in [Tasks -> 0..MaxSlots]
  BY <1>0, <1>1, SlotsAreThere, KillerState
<1>3. x.lock = slots[s].lock /\ x.session = slots[s].session /\ sl = [slots EXCEPT ![s] = x]
  BY <1>2 DEF SlotType
<1>4. y.slot = s /\ kl = [killers EXCEPT !["close"] = y]
  BY <1>0, <1>2, KillerState DEF KillerType
<1> HIDE DEF x, y
<1>5. /\ sl[s] = x /\ \A u \in SlotIds : u # s => sl[u] = slots[u]
      /\ kl["close"] = y /\ kl["reaper"] = killers["reaper"]
  BY <1>0, <1>2, <1>3, <1>4, KillerState
<1> HIDE DEF sl, kl
<1>6. \A u \in SlotIds : sl[u].lock = slots[u].lock /\ sl[u].session = slots[u].session
  BY <1>3, <1>5
<1>7. \A t \in Tasks : registered[t] # 0 => kl["close"].slot # registered[t]
  BY <1>4, <1>5 DEF FreeInv, Free
<1>8. \A u \in SlotIds : sl[u].lock = "reaper" => kl["reaper"].at = "take" /\ kl["reaper"].slot = u
  BY <1>5, <1>6 DEF FreeInv, Free
<1> QED BY <1>1, <1>2, <1>5, <1>6, <1>7, <1>8, KillerFree

LEMMA TakeFree ==
  ASSUME FreeInv, Take
  PROVE  Free(reqs, slots, registered, killers)'
<1> DEFINE s == killers["close"].slot
           x == [slots[s] EXCEPT !.ctl = None]
           sl == [slots EXCEPT ![s].ctl = None]
           kl == [killers EXCEPT !.close = Rest]
<1>0. SessionsInv
  BY DEF FreeInv
<1>1. killers["close"].at = "take" /\ Leaves(reqs, sl, registered, Kill(slots[s].ctl), kl)
  BY DEF Take
<1>2. s \in SlotIds /\ slots[s] \in SlotType /\ registered \in [Tasks -> 0..MaxSlots]
  BY <1>0, <1>1, SlotsAreThere, KillerState
<1>3. x.lock = slots[s].lock /\ x.session = slots[s].session /\ sl = [slots EXCEPT ![s] = x]
  BY <1>2 DEF SlotType
<1> HIDE DEF x
<1>4. /\ sl[s] = x /\ \A u \in SlotIds : u # s => sl[u] = slots[u]
      /\ kl["close"] = Rest /\ kl["reaper"] = killers["reaper"]
  BY <1>0, <1>2, <1>3, KillerState
<1> HIDE DEF sl, kl
<1>5. \A u \in SlotIds : sl[u].lock = slots[u].lock /\ sl[u].session = slots[u].session
  BY <1>3, <1>4
<1>6. \A t \in Tasks : registered[t] # 0 => kl["close"].slot # registered[t]
  BY <1>4, RestType
<1>7. \A u \in SlotIds : sl[u].lock = "reaper" => kl["reaper"].at = "take" /\ kl["reaper"].slot = u
  BY <1>4, <1>5 DEF FreeInv, Free
<1> QED BY <1>1, <1>2, <1>4, <1>5, <1>6, <1>7, KillerFree

LEMMA ReaperPicksFree ==
  ASSUME FreeInv, NEW t \in Tasks, ReaperPicks(t)
  PROVE  Free(reqs, slots, registered, killers)'
<1> DEFINE y == [at |-> "try", slot |-> registered[t]]
<1>0. SessionsInv
  BY DEF FreeInv
<1>1. /\ killers["reaper"].at = "rest" /\ killers' = [killers EXCEPT !.reaper = y]
      /\ reqs' = reqs /\ slots' = slots /\ registered' = registered
  BY DEF ReaperPicks
<1> HIDE DEF y
<1>2. killers'["close"] = killers["close"] /\ killers["reaper"].slot = 0
  BY <1>0, <1>1, KillerState DEF KillersOK
<1>3. \A s \in SlotIds : slots[s].lock # "reaper"
  BY <1>1 DEF FreeInv, Free
<1>4. \A u \in Tasks : registered[u] # 0 =>
        \/ slots[registered[u]].session
        \/ \E r \in Requests : reqs[r].slot = registered[u]
  BY <1>2 DEF FreeInv, Free
<1> QED BY <1>1, <1>2, <1>3, <1>4 DEF FreeInv, Free

(* A slot whose lock is taken, the reaper passes over: a request works in  *)
(* it.                                                                     *)
LEMMA ReaperTriesFree ==
  ASSUME FreeInv, ReaperTries
  PROVE  Free(reqs, slots, registered, killers)'
<1> DEFINE s == killers["reaper"].slot
           x == [slots[s] EXCEPT !.lock = "reaper", !.closed = TRUE]
           sl == [slots EXCEPT ![s].lock = "reaper", ![s].closed = TRUE]
           y == [killers["reaper"] EXCEPT !.at = "take"]
           kl == [killers EXCEPT !.reaper.at = "take"]
           rest == [killers EXCEPT !.reaper = Rest]
<1>0. SessionsInv
  BY DEF FreeInv
<1>1. killers["reaper"].at = "try"
  BY DEF ReaperTries
<1>2. s \in SlotIds /\ slots[s] \in SlotType /\ registered \in [Tasks -> 0..MaxSlots]
  BY <1>0, <1>1, SlotsAreThere, KillerState
<1>3. \A u \in SlotIds : slots[u].lock # "reaper"
  BY <1>1 DEF FreeInv, Free
<1>4. CASE slots[s].lock = None
  <2>1. x.lock = "reaper" /\ x.session = slots[s].session
    BY <1>2 DEF SlotType
  <2>2. sl = [slots EXCEPT ![s] = x]
    BY <1>0, <1>2, KillerState DEF SlotType
  <2>3. y.at = "take" /\ y.slot = s /\ kl = [killers EXCEPT !["reaper"] = y]
    BY <1>0, <1>2, KillerState DEF KillerType
  <2>4. Leaves(reqs, sl, registered, procs, kl)
    BY <1>4 DEF ReaperTries
  <2> HIDE DEF x, y
  <2>5. /\ sl[s] = x /\ \A u \in SlotIds : u # s => sl[u] = slots[u]
        /\ kl["reaper"] = y /\ kl["close"] = killers["close"]
    BY <1>0, <1>2, <2>2, <2>3, KillerState
  <2> HIDE DEF sl, kl
  <2>6. \A u \in SlotIds : sl[u].session = slots[u].session
    BY <2>1, <2>5
  <2>7. \A u \in SlotIds, q \in Requests : sl[u].lock = q => slots[u].lock = q
    BY <2>1, <2>5, Apart
  <2>8. \A u \in SlotIds : sl[u].lock = "reaper" => kl["reaper"].at = "take" /\ kl["reaper"].slot = u
    BY <1>3, <2>3, <2>5
  <2>9. \A t \in Tasks : registered[t] # 0 => kl["close"].slot # registered[t]
    BY <2>5 DEF FreeInv, Free
  <2>10. \A t \in Tasks : registered[t] # 0 /\ killers["reaper"].slot = registered[t] =>
           kl["reaper"].slot = registered[t] \/ \E r \in Requests : reqs[r].slot = registered[t]
    BY <2>3, <2>5
  <2> QED BY <1>2, <2>4, <2>6, <2>7, <2>8, <2>9, <2>10, KillerFree
<1>5. CASE slots[s].lock # None
  <2>1. Leaves(reqs, slots, registered, procs, rest)
    BY <1>5 DEF ReaperTries
  <2>2. rest["close"] = killers["close"]
    BY <1>0, KillerState
  <2> HIDE DEF rest
  <2>3. slots[s].lock \in Requests
    BY <1>2, <1>3, <1>5 DEF SlotType
  <2>4. \E r \in Requests : reqs[r].slot = s
    BY <1>2, <2>3 DEF FreeInv, Free
  <2>5. \A t \in Tasks : registered[t] # 0 => rest["close"].slot # registered[t]
    BY <2>2 DEF FreeInv, Free
  <2>6. \A u \in SlotIds : slots[u].lock = "reaper" => rest["reaper"].at = "take" /\ rest["reaper"].slot = u
    BY <1>3
  <2> QED BY <1>2, <2>1, <2>4, <2>5, <2>6, KillerFree
<1> QED BY <1>4, <1>5

LEMMA ReaperTakesFree ==
  ASSUME FreeInv, ReaperTakes
  PROVE  Free(reqs, slots, registered, killers)'
<1> DEFINE s == killers["reaper"].slot
           x == [slots[s] EXCEPT !.ctl = None, !.lock = None]
           sl == [slots EXCEPT ![s].ctl = None, ![s].lock = None]
           kl == [killers EXCEPT !.reaper = Rest]
<1>0. SessionsInv
  BY DEF FreeInv
<1>1. killers["reaper"].at = "take" /\ Leaves(reqs, sl, Without(s), Kill(slots[s].ctl), kl)
  BY DEF ReaperTakes
<1>2. s \in SlotIds /\ slots[s] \in SlotType /\ Without(s) \in [Tasks -> 0..MaxSlots]
  BY <1>0, <1>1, SlotsAreThere, KillerState, WithoutType
<1>3. x.lock = None /\ x.session = slots[s].session
  BY <1>2 DEF SlotType
<1>4. sl = [slots EXCEPT ![s] = x]
  BY <1>0, <1>2, KillerState DEF SlotType
<1> HIDE DEF x
<1>5. /\ sl[s] = x /\ \A u \in SlotIds : u # s => sl[u] = slots[u]
      /\ kl["close"] = killers["close"]
  BY <1>0, <1>2, <1>4, KillerState
<1> HIDE DEF sl, kl
<1>6. \A u \in SlotIds : sl[u].session = slots[u].session
  BY <1>3, <1>5
<1>7. \A u \in SlotIds, q \in Requests : sl[u].lock = q => slots[u].lock = q
  BY <1>3, <1>5, Apart
<1>8. \A u \in SlotIds : sl[u].lock # "reaper"
  BY <1>3, <1>5 DEF FreeInv, Free, None
<1>9. \A t \in Tasks : Without(s)[t] \in {0, registered[t]} /\ (Without(s)[t] # 0 => Without(s)[t] # s)
  BY DEF Without
<1>10. \A t \in Tasks : Without(s)[t] # 0 => kl["close"].slot # Without(s)[t]
  BY <1>5, <1>9 DEF FreeInv, Free
<1> QED BY <1>1, <1>2, <1>6, <1>7, <1>8, <1>9, <1>10, KillerFree

LEMMA FreeInit == Init => FreeInv
<1> SUFFICES ASSUME Init PROVE Free(reqs, slots, registered, killers)
  BY InitHolds DEF FreeInv
<1>1. /\ \A s \in SlotIds : slots[s].lock = None
      /\ \A t \in Tasks : registered[t] = 0
  BY DEF Init, NewSlot
<1> QED BY <1>1, Apart DEF Free, None

LEMMA FreeNext == FreeInv /\ [Next]_vars => FreeInv'
<1> SUFFICES ASSUME FreeInv, [Next]_vars PROVE Free(reqs, slots, registered, killers)'
  BY NextKeeps DEF FreeInv
<1>1. CASE UNCHANGED vars
  BY <1>1 DEF vars, FreeInv, Free
<1>2. ASSUME NEW r \in Requests, Request(r) PROVE Free(reqs, slots, registered, killers)'
  BY <1>2, FindFree, LockFree, InstallFree, StartFree, CheckFree, TurnFree, LeaveFree, ForgetFree DEF Request
<1>3. CASE Reaper
  BY <1>3, ReaperPicksFree, ReaperTriesFree, ReaperTakesFree DEF Reaper
<1>4. ASSUME NEW p \in Requests, ProcExits(p) PROVE Free(reqs, slots, registered, killers)'
  BY <1>4 DEF ProcExits, FreeInv, Free
<1> QED BY <1>1, <1>2, <1>3, <1>4, ArriveFree, CloseArrivesFree, MarkFree, TakeFree DEF Next

(* A slot that failed a request or was closed does not stay in the map,    *)
(* where it would count against the cap (claude_code.rs:399): however its  *)
(* close, the reaper and the requests for it interleave.                   *)
THEOREM EmptySlotsLeave == Spec => []EmptySlotsAreFree
<1>1. FreeInv => EmptySlotsAreFree
  <2> SUFFICES ASSUME FreeInv PROVE EmptySlotsAreFree
    OBVIOUS
  <2>1. DOMAIN killers = {"close", "reaper"}
    BY KillerState DEF FreeInv
  <2> QED BY <2>1 DEF FreeInv, Free, EmptySlotsAreFree
<1> QED BY <1>1, FreeInit, FreeNext, PTL DEF Spec
=============================================================================
