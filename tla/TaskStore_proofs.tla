--------------------------- MODULE TaskStore_proofs ---------------------------
(***************************************************************************)
(* Proofs about TaskStore for every value of its constants.                *)
(***************************************************************************)
EXTENDS TaskStore, TLAPS, SequenceTheorems, WellFoundedInduction

(* A nonempty set of positions of a sequence has a latest one, so that     *)
(* Latest picks one of them (the replay loop visits every record).         *)
LEMMA LatestPosition ==
  ASSUME NEW n \in Nat, NEW S \in SUBSET (1..n), S # {}
  PROVE  Latest(S) \in S /\ \A k \in S : k <= Latest(S)
<1> DEFINE T == { n - k : k \in S }
<1>1. T \subseteq Nat /\ T # {}
  <2>1. \A k \in S : n - k \in Nat
    OBVIOUS
  <2>2. PICK k \in S : TRUE
    OBVIOUS
  <2>3. n - k \in T
    BY <2>2
  <2> QED BY <2>1, <2>3
<1>2. PICK x \in T : \A y \in T : <<y, x>> \notin OpToRel(<, Nat)
  BY <1>1, NatLessThanWellFounded, WFMin, Zenon
<1>3. \A y \in T : ~(y < x)
  BY <1>1, <1>2 DEF OpToRel
<1>4. PICK m \in S : x = n - m
  BY <1>2
<1>5. \A k \in S : k <= m
  BY <1>3, <1>4
<1> QED BY <1>4, <1>5 DEF Latest

-----------------------------------------------------------------------------
(* Type correctness.  HashFor needs to know that a known task has a hash,  *)
(* which types alone do not say.                                           *)

Known(m) ==
  \A t \in TaskIds : /\ m.tasks[t] = None <=> m.hashes[t] = None
                     /\ m.tasks[t] = None <=> m.statements[t] = None

TypeInv ==
  /\ TypeOK
  /\ Known(mem)
  /\ op # None => Known(op.mem)

(* A position of a task or a grant record holds such a record.             *)
LEMMA RecordTypes ==
  ASSUME NEW j \in Seq(Records), NEW i \in DOMAIN j
  PROVE  /\ j[i].kind = "task" => j[i].id \in TaskIds /\ j[i].task \in Tasks
                                  /\ j[i].hash \in Hashes
         /\ j[i].kind = "grant" => j[i].id \in GrantIds /\ j[i].grant \in Grants
         /\ j[i].kind = "revoke" => j[i].grants \subseteq GrantIds
<1>1. j[i] \in Records
  BY ElementOfSeq, LenProperties
<1> QED BY <1>1 DEF Records

(* The latest of the records of one kind and id is one of them.            *)
LEMMA LatestRecord ==
  ASSUME NEW j \in Seq(Records), NEW k, NEW x, RecordsOf(j, k, x) # {}
  PROVE  LET l == Latest(RecordsOf(j, k, x))
         IN  /\ l \in DOMAIN j /\ j[l].kind = k /\ j[l].id = x
             /\ \A i \in RecordsOf(j, k, x) : i <= l
<1>1. DOMAIN j = 1..Len(j) /\ Len(j) \in Nat
  BY LenProperties
<1>2. RecordsOf(j, k, x) \in SUBSET (1..Len(j))
  BY <1>1 DEF RecordsOf
<1>3. /\ Latest(RecordsOf(j, k, x)) \in RecordsOf(j, k, x)
      /\ \A i \in RecordsOf(j, k, x) : i <= Latest(RecordsOf(j, k, x))
  BY <1>1, <1>2, LatestPosition
<1> QED BY <1>3 DEF RecordsOf

(* What a replay rebuilds is a memory of the right type, whatever prefix   *)
(* of the journal survived.                                                *)
LEMMA ReplayType ==
  ASSUME NEW j \in Seq(Records)
  PROVE  Replay(j) \in Memories /\ Known(Replay(j))
<1>1. \A t \in TaskIds : RecordsOf(j, "task", t) # {} =>
        /\ j[Latest(RecordsOf(j, "task", t))].task \in Tasks
        /\ j[Latest(RecordsOf(j, "task", t))].hash \in Hashes
  BY LatestRecord, RecordTypes
<1>2. \A g \in GrantIds : RecordsOf(j, "grant", g) # {} =>
        j[Latest(RecordsOf(j, "grant", g))].grant \in Grants
  BY LatestRecord, RecordTypes
<1>3. ReplayTasks(j) \in [TaskIds -> Tasks \cup {None}]
  BY <1>1 DEF ReplayTasks
<1>4. ReplayHashes(j) \in [TaskIds -> Hashes \cup {None}]
  BY <1>1 DEF ReplayHashes
<1>5. ReplayGrants(j) \in [GrantIds -> Grants \cup {None}]
  <2>1. \A r \in Grants, b \in BOOLEAN : [r EXCEPT !.revoked = b] \in Grants
    BY DEF Grants
  <2>2. \A r \in Grants, g \in GrantIds :
          (Closed(ReplayTasks(j), r.task) \/ g \in RevokedIn(j)) \in BOOLEAN
    OBVIOUS
  <2> QED BY <1>2, <2>1, <2>2 DEF ReplayGrants
<1>6. Replay(j) \in Memories
  BY <1>3, <1>4, <1>5 DEF Replay, Memories
<1>7. Known(Replay(j))
  BY <1>1, ConstantsAssumption
     DEF Replay, Known, ReplayTasks, ReplayHashes
<1> QED BY <1>6, <1>7

(* The hash a handler journals for a known task, or for a fresh one.       *)
LEMMA HashForType ==
  ASSUME mem \in Memories, Known(mem), NEW t \in TaskIds
  PROVE  /\ \A s \in Statements : HashFor(t, s) \in Hashes
         /\ mem.tasks[t] # None => HashFor(t, mem.statements[t]) \in Hashes
  BY DEF HashFor, Memories, Known, Hashes, Hash

(* Submitting well-typed records, memory and answer keeps the types.       *)
LEMMA SubmitType ==
  ASSUME TypeInv,
         NEW first \in Records, NEW rest \in Seq(Records),
         NEW m \in Memories, Known(m), NEW t \in Answers,
         Submit(first, rest, m, t)
  PROVE  TypeInv'
<1>1. /\ journal' \in Seq(Records)
      /\ synced' \in 0..Len(journal')
  BY AppendProperties, LenProperties DEF TypeInv, TypeOK, Submit
<1>2. op' \in Pending /\ op'.mem = m
  BY DEF Submit, Pending
<1> QED BY <1>1, <1>2 DEF TypeInv, TypeOK, Submit, Known

(* The root of a task that resumes another.                                *)
LEMMA RootType ==
  /\ \A t \in TaskIds : Collapsed(t) \in Roots
  /\ \A root \in Roots : /\ [root EXCEPT !.collapsed = @ + 1] \in Roots
                         /\ root.of \in TaskIds /\ root.collapsed \in Nat \ {0}
BY DEF Roots, Collapsed

LEMMA OpenForHumanType ==
  ASSUME TypeInv,
         NEW p \in Principals, NEW t \in TaskIds, NEW g \in GrantIds,
         NEW s \in Statements, NEW d \in Deadlines,
         NEW r \in Resumable \cup {None},
         OpenForHuman(p, t, g, s, d, r)
  PROVE  TypeInv'
<1> DEFINE task  == [principal |-> p, state |-> "active", deadline |-> d,
                     root |-> RootFrom(r), spent |-> SpentFrom(r)]
           grant == [task |-> t, expires |-> d, unattended |-> FALSE,
                     issued |-> now, revoked |-> FALSE]
           h     == HashFor(t, s)
           m     == [mem EXCEPT !.tasks[t] = task, !.grants[g] = grant,
                                !.hashes[t] = h, !.statements[t] = s]
           a     == [told EXCEPT !.opened = @ \cup {t}, !.minted = @ \cup {g},
                                 !.spent[t] = SpentFrom(r)]
<1>1. /\ mem \in Memories /\ Known(mem) /\ told \in Answers /\ now \in 0..MaxNow
  BY DEF TypeInv, TypeOK
<1>2. RootFrom(r) \in Roots \cup {None} /\ SpentFrom(r) \in 0..MaxSpent
  <2>1. CASE r = None
    BY <2>1, ConstantsAssumption DEF RootFrom, SpentFrom
  <2>2. CASE r # None
    <3>1. r \in TaskIds /\ mem.tasks[r] # None
      BY <2>2 DEF Resumable, Closed
    <3>2. mem.tasks[r] \in Tasks
      BY <1>1, <3>1 DEF Memories
    <3>3. mem.tasks[r].root \in Roots \cup {None} /\ mem.tasks[r].spent \in 0..MaxSpent
      BY <3>2 DEF Tasks
    <3> QED BY <2>2, <3>1, <3>3, RootType DEF RootFrom, SpentFrom
  <2> QED BY <2>1, <2>2
<1>3. task \in Tasks
  BY <1>2 DEF Tasks, TaskStates, LiveStates
<1>4. grant \in Grants
  BY <1>1, ConstantsAssumption DEF Grants
<1>5. h \in Hashes
  BY <1>1, HashForType
<1>6. TaskRecord(t, task, h) \in Records /\ GrantRecord(g, grant) \in Records
  BY <1>3, <1>4, <1>5 DEF TaskRecord, GrantRecord, Records
<1>7. m \in Memories
  BY <1>1, <1>3, <1>4, <1>5 DEF Memories
<1>8. Known(m)
  BY <1>1, <1>3, <1>5, ConstantsAssumption DEF Known, Memories
<1>9. a \in Answers
  BY <1>1, <1>2 DEF Answers
<1>10. <<GrantRecord(g, grant)>> \in Seq(Records)
  BY <1>6
<1>11. Submit(TaskRecord(t, task, h), <<GrantRecord(g, grant)>>, m, a)
  BY DEF OpenForHuman
<1> QED BY <1>6, <1>7, <1>8, <1>9, <1>10, <1>11, SubmitType

LEMMA ApplyType ==
  ASSUME TypeInv, NEW t \in TaskIds, NEW e \in TaskEvents, Apply(t, e)
  PROVE  TypeInv'
<1>1. /\ mem \in Memories /\ Known(mem) /\ told \in Answers
      /\ mem.tasks[t] # None /\ mem.tasks[t] \in Tasks
  BY DEF TypeInv, TypeOK, Apply, Memories
<1>2. PICK s \in Successors(mem.tasks[t].state, e) :
        LET task == [mem.tasks[t] EXCEPT !.state = s]
            gone == IF IsLive(s) THEN {} ELSE LiveGrants(mem.grants, t)
            h    == HashFor(t, mem.statements[t])
        IN  Submit(TaskRecord(t, task, h),
                   IF gone = {} THEN <<>> ELSE <<RevokeRecord(gone)>>,
                   [mem EXCEPT !.tasks[t] = task, !.hashes[t] = h,
                               !.grants = Revoke(@, gone)],
                   IF IsLive(s) THEN told
                   ELSE [told EXCEPT !.closed = @ \cup {t}])
  BY DEF Apply
<1> DEFINE task == [mem.tasks[t] EXCEPT !.state = s]
           gone == IF IsLive(s) THEN {} ELSE LiveGrants(mem.grants, t)
           h    == HashFor(t, mem.statements[t])
           m    == [mem EXCEPT !.tasks[t] = task, !.hashes[t] = h,
                               !.grants = Revoke(@, gone)]
           rest == IF gone = {} THEN <<>> ELSE <<RevokeRecord(gone)>>
           a    == IF IsLive(s) THEN told ELSE [told EXCEPT !.closed = @ \cup {t}]
<1>3. task \in Tasks
  BY <1>1, <1>2 DEF Tasks, Successors
<1>4. h \in Hashes
  BY <1>1, HashForType
<1>5. gone \in SUBSET GrantIds /\ \A g \in gone : mem.grants[g] # None
  BY DEF LiveGrants
<1>6. Revoke(mem.grants, gone) \in [GrantIds -> Grants \cup {None}]
  <2>1. \A g \in gone : mem.grants[g] \in Grants
    BY <1>1, <1>5 DEF Memories
  <2>2. \A g \in gone : [mem.grants[g] EXCEPT !.revoked = TRUE] \in Grants
    BY <2>1 DEF Grants
  <2>3. \A g \in GrantIds : mem.grants[g] \in Grants \cup {None}
    BY <1>1 DEF Memories
  <2> QED BY <2>2, <2>3 DEF Revoke
<1>7. TaskRecord(t, task, h) \in Records /\ rest \in Seq(Records)
  <2>1. TaskRecord(t, task, h) \in Records
    BY <1>3, <1>4 DEF TaskRecord, Records
  <2>2. RevokeRecord(gone) \in Records
    BY <1>5 DEF RevokeRecord, Records
  <2> HIDE DEF gone
  <2> QED BY <2>1, <2>2, EmptySeq
<1>8. m \in Memories
  BY <1>1, <1>3, <1>4, <1>6 DEF Memories
<1>9. Known(m)
  BY <1>1, <1>3, <1>4, ConstantsAssumption DEF Known, Memories
<1>10. a \in Answers
  BY <1>1 DEF Answers
<1>11. Submit(TaskRecord(t, task, h), rest, m, a)
  BY <1>2
<1> QED BY <1>7, <1>8, <1>9, <1>10, <1>11, SubmitType

LEMMA MintType ==
  ASSUME TypeInv, NEW p \in Principals, NEW g \in GrantIds, NEW u \in BOOLEAN,
         MintFromPrompt(p, g, u)
  PROVE  TypeInv'
<1>1. PICK t \in LiveTasks(mem.tasks, p) :
        LET grant == [task |-> t, unattended |-> u, issued |-> now,
                      expires |-> MintExpiry(t, u), revoked |-> FALSE]
        IN  Submit(GrantRecord(g, grant), <<>>, [mem EXCEPT !.grants[g] = grant],
                   [told EXCEPT !.minted = @ \cup {g}])
  BY DEF MintFromPrompt
<1> DEFINE grant == [task |-> t, unattended |-> u, issued |-> now,
                     expires |-> MintExpiry(t, u), revoked |-> FALSE]
<1>2. /\ mem \in Memories /\ Known(mem) /\ told \in Answers /\ now \in 0..MaxNow
  BY DEF TypeInv, TypeOK
<1>3. t \in TaskIds /\ mem.tasks[t] \in Tasks
  BY <1>2 DEF LiveTasks, Memories
<1>4. MintExpiry(t, u) \in Nat
  BY <1>2, <1>3, ConstantsAssumption DEF MintExpiry, Tasks
<1>5. grant \in Grants
  BY <1>2, <1>3, <1>4 DEF Grants
<1>6. GrantRecord(g, grant) \in Records
  BY <1>5 DEF GrantRecord, Records
<1>7. /\ [mem EXCEPT !.grants[g] = grant] \in Memories
      /\ Known([mem EXCEPT !.grants[g] = grant])
  BY <1>2, <1>5 DEF Memories, Known
<1>8. [told EXCEPT !.minted = @ \cup {g}] \in Answers
  BY <1>2 DEF Answers
<1> QED BY <1>1, <1>6, <1>7, <1>8, EmptySeq, SubmitType

LEMMA UpdateCountersType ==
  ASSUME TypeInv, NEW t \in TaskIds, UpdateCounters(t)
  PROVE  TypeInv'
<1> DEFINE task == [mem.tasks[t] EXCEPT !.spent = @ + 1]
           h    == HashFor(t, mem.statements[t])
<1>1. /\ mem \in Memories /\ Known(mem) /\ told \in Answers
      /\ mem.tasks[t] # None /\ mem.tasks[t] \in Tasks
      /\ mem.tasks[t].spent < MaxSpent
  BY DEF TypeInv, TypeOK, UpdateCounters, Memories
<1>2. task \in Tasks
  BY <1>1, ConstantsAssumption DEF Tasks
<1>3. h \in Hashes
  BY <1>1, HashForType
<1>4. TaskRecord(t, task, h) \in Records
  BY <1>2, <1>3 DEF TaskRecord, Records
<1>5. [mem EXCEPT !.tasks[t] = task, !.hashes[t] = h] \in Memories
  BY <1>1, <1>2, <1>3 DEF Memories
<1>6. Known([mem EXCEPT !.tasks[t] = task, !.hashes[t] = h])
  BY <1>1, <1>2, <1>3, ConstantsAssumption DEF Known, Memories
<1>7. [told EXCEPT !.spent[t] = task.spent] \in Answers
  BY <1>1, <1>2 DEF Answers, Tasks
<1>8. Submit(TaskRecord(t, task, h), <<>>,
             [mem EXCEPT !.tasks[t] = task, !.hashes[t] = h],
             [told EXCEPT !.spent[t] = task.spent])
  BY DEF UpdateCounters
<1> QED BY <1>4, <1>5, <1>6, <1>7, <1>8, EmptySeq, SubmitType

(* Every handler.                                                          *)
LEMMA HandlerType ==
  ASSUME TypeInv, Handler
  PROVE  TypeInv'
<1>1. ASSUME NEW p \in Principals, NEW t \in FreshTasks, NEW g \in FreshGrants,
             NEW s \in Statements, NEW d \in Deadlines,
             NEW r \in Resumable \cup {None}, OpenForHuman(p, t, g, s, d, r)
      PROVE  TypeInv'
  BY <1>1, OpenForHumanType DEF FreshTasks, FreshGrants
<1>2. ASSUME NEW t \in TaskIds, NEW e \in TaskEvents, Apply(t, e)
      PROVE  TypeInv'
  BY <1>2, ApplyType
<1>3. ASSUME NEW p \in Principals, CancelPrincipal(p)
      PROVE  TypeInv'
  BY <1>3, ApplyType DEF CancelPrincipal, LiveTasks, TaskEvents
<1>4. ASSUME NEW p \in Principals, NEW g \in FreshGrants, NEW u \in BOOLEAN,
             MintFromPrompt(p, g, u)
      PROVE  TypeInv'
  BY <1>4, MintType DEF FreshGrants
<1>5. ASSUME NEW t \in TaskIds, UpdateCounters(t)
      PROVE  TypeInv'
  BY <1>5, UpdateCountersType
<1> QED BY <1>1, <1>2, <1>3, <1>4, <1>5 DEF Handler

(* The journal's steps, and death, power loss and restart.                 *)
LEMMA StepType ==
  ASSUME TypeInv, [Next]_vars
  PROVE  TypeInv'
<1> USE DEF TypeInv
<1>1. CASE Handler
  BY <1>1, HandlerType
<1>2. CASE Sync
  BY <1>2, LenProperties DEF Sync, Pending, Finish, TypeOK, Known
<1>3. CASE AppendNext
  <2>1. op \in Pending
    BY <1>3 DEF AppendNext, TypeOK
  <2>2. Head(op.todo) \in Records /\ Tail(op.todo) \in Seq(Records)
    BY <1>3, <2>1, HeadTailProperties DEF AppendNext, Pending
  <2>3. journal' \in Seq(Records) /\ synced' \in 0..Len(journal')
    BY <1>3, <2>2, AppendProperties, LenProperties DEF AppendNext, TypeOK
  <2>4. op' \in Pending /\ op'.mem = op.mem
    BY <1>3, <2>1, <2>2 DEF AppendNext, Pending
  <2>5. TypeOK'
    BY <1>3, <2>3, <2>4 DEF AppendNext, TypeOK
  <2>6. Known(mem)' /\ Known(op.mem)'
    BY <1>3, <2>4 DEF AppendNext, Known
  <2> QED BY <2>5, <2>6 DEF Known
<1>4. NoMem \in Memories /\ Known(NoMem)
  BY ReplayType, EmptySeq DEF NoMem
<1>5. CASE ProcessDies
  BY <1>4, <1>5 DEF ProcessDies, TypeOK, Known
<1>6. CASE PowerLoss
  <2>1. PICK n \in synced..Len(journal) : journal' = Prefix(n) /\ synced' = n
    BY <1>6 DEF PowerLoss
  <2>2. n \in Nat /\ n <= Len(journal)
    BY <2>1, LenProperties DEF TypeOK
  <2>3. \A i \in 1..n : journal[i] \in Records
    BY <2>2, ElementOfSeq, LenProperties DEF TypeOK
  <2>4. journal' \in Seq(Records) /\ Len(journal') = n
    BY <2>1, <2>2, <2>3, SubSeqProperties DEF Prefix
  <2>5. synced' \in 0..Len(journal')
    BY <2>1, <2>2, <2>4
  <2>6. /\ up' = FALSE /\ mem' = NoMem /\ op' = None
        /\ now' = now /\ told' = told
    BY <1>6 DEF PowerLoss
  <2>7. TypeOK'
    BY <1>4, <2>4, <2>5, <2>6 DEF TypeOK
  <2> QED BY <1>4, <2>6, <2>7 DEF Known
<1>7. CASE Open
  BY <1>7, ReplayType DEF Open, TypeOK, Known
<1>8. CASE Tick
  BY <1>8, ConstantsAssumption DEF Tick, TypeOK, Known
<1>9. CASE UNCHANGED vars
  BY <1>9 DEF vars, TypeOK, Known
<1> QED BY <1>1, <1>2, <1>3, <1>5, <1>6, <1>7, <1>8, <1>9 DEF Next

LEMMA InitType ==
  ASSUME Init
  PROVE  TypeInv
<1>1. NoMem \in Memories /\ Known(NoMem)
  BY ReplayType, EmptySeq DEF NoMem
<1>2. [opened |-> {}, closed |-> {}, minted |-> {},
       spent |-> [t \in TaskIds |-> 0]] \in Answers
  BY ConstantsAssumption DEF Answers
<1>3. journal \in Seq(Records) /\ synced \in 0..Len(journal)
  BY EmptySeq DEF Init
<1>4. now \in 0..MaxNow
  BY ConstantsAssumption DEF Init
<1> QED BY <1>1, <1>2, <1>3, <1>4 DEF Init, TypeInv, TypeOK

(* Every variable of the store keeps its type in every reachable state,    *)
(* across crashes and replays, whatever the constants are.                 *)
THEOREM TypeCorrect == Spec => []TypeOK
<1>1. Init => TypeInv
  BY InitType
<1>2. TypeInv /\ [Next]_vars => TypeInv'
  BY StepType
<1>3. TypeInv => TypeOK
  BY DEF TypeInv
<1> QED BY <1>1, <1>2, <1>3, PTL DEF Spec

-----------------------------------------------------------------------------
(* The journal as a history, and the invariant every property follows      *)
(* from.                                                                   *)

(* The first n records of a journal: what a power loss, or a process that  *)
(* died between two appends, leaves of it.                                 *)
Upto(J, n) == SubSeq(J, 1, n)

(* What holds of a journal wherever it is cut. One live task per           *)
(* principal; every grant, and every revoked grant, is of something known; *)
(* the chain a task resumed is whole; and every record of a task names the *)
(* hash the latest one names.                                              *)
Good(j) ==
  LET tasks == ReplayTasks(j)
  IN  /\ \A p \in Principals : \A a, b \in LiveTasks(tasks, p) : a = b
      /\ \A g \in GrantIds : ReplayGrants(j)[g] # None => tasks[ReplayGrants(j)[g].task] # None
      /\ \A g \in RevokedIn(j) : ReplayGrants(j)[g] # None
      /\ \A t \in TaskIds : tasks[t] # None => Whole(tasks, tasks[t].root)
      /\ \A i \in DOMAIN j : j[i].kind = "task" =>
           j[i].hash = ReplayHashes(j)[j[i].id] /\ j[i].hash # Hash(EmptyStatement)

(* Replaying j knows all that replaying i knew, has counted no less, and   *)
(* has reopened nothing: what two cuts of one journal have in common.      *)
Before(i, j) ==
  /\ \A t \in TaskIds : ReplayTasks(i)[t] # None =>
       /\ ReplayTasks(j)[t] # None
       /\ ReplayTasks(i)[t].spent <= ReplayTasks(j)[t].spent
       /\ Closed(ReplayTasks(i), t) => ReplayTasks(j)[t].state = ReplayTasks(i)[t].state
  /\ \A g \in GrantIds : ReplayGrants(i)[g] # None => ReplayGrants(j)[g] # None

(* Every cut of a journal is good, and a longer one only adds.             *)
History(J) ==
  \A n \in 0..Len(J) : Good(Upto(J, n)) /\ \A k \in 0..n : Before(Upto(J, k), Upto(J, n))

(* A memory a replay of j would rebuild; the statements apart, which are   *)
(* not journalled.                                                         *)
MemIs(m, j) == m.tasks = ReplayTasks(j) /\ m.grants = ReplayGrants(j) /\ m.hashes = ReplayHashes(j)

(* The answers of a keep their promise when j is what survives.            *)
Durable(a, j) ==
  /\ \A t \in a.opened : ReplayTasks(j)[t] # None /\ ReplayTasks(j)[t].spent >= a.spent[t]
  /\ \A t \in a.closed : Closed(ReplayTasks(j), t)
  /\ \A g \in a.minted : ReplayGrants(j)[g] # None

(* The journal as it will be when the handler in progress has written its  *)
(* last record.                                                            *)
Ending == IF op = None THEN journal ELSE journal \o op.todo

(* The inductive invariant. A handler appends its records one by one, so   *)
(* the properties are stated of the journal it is heading for: all its     *)
(* cuts are good, its memory and its answer are those of the end of it,    *)
(* and the memory in force is that of some cut.                            *)
StoreInv ==
  /\ History(Ending)
  /\ \E n \in 0..Len(journal) : MemIs(mem, Upto(journal, n))
  /\ ~up => op = None /\ mem = NoMem
  /\ Idle => MemIs(mem, journal)
  /\ op # None => MemIs(op.mem, Ending) /\ Durable(op.told, Ending)
  /\ Durable(told, Upto(journal, synced))

-----------------------------------------------------------------------------
(* Prefixes.                                                               *)

(* A cut has the records of the journal, a cut of a cut is a cut, and the  *)
(* cuts of a longer journal are those of the shorter one and itself.       *)
LEMMA UptoIs ==
  ASSUME NEW S, NEW J \in Seq(S), NEW n \in 0..Len(J)
  PROVE  /\ Upto(J, n) \in Seq(S) /\ Len(Upto(J, n)) = n
         /\ \A i \in 1..n : Upto(J, n)[i] = J[i]
<1>1. Len(J) \in Nat /\ DOMAIN J = 1..Len(J) /\ \A i \in 1..Len(J) : J[i] \in S
  BY LenProperties, ElementOfSeq
<1> QED BY <1>1, SubSeqProperties DEF Upto

LEMMA UptoSelf ==
  ASSUME NEW S, NEW J \in Seq(S)
  PROVE  Upto(J, Len(J)) = J
<1>1. Len(J) \in 0..Len(J) /\ Len(J) \in Nat
  BY LenProperties
<1>2. Upto(J, Len(J)) \in Seq(S) /\ Len(Upto(J, Len(J))) = Len(J) /\ \A i \in 1..Len(J) : Upto(J, Len(J))[i] = J[i]
  BY <1>1, UptoIs
<1> QED BY <1>2, SeqEqual

LEMMA UptoUpto ==
  ASSUME NEW S, NEW J \in Seq(S), NEW n \in 0..Len(J), NEW k \in 0..n
  PROVE  Upto(Upto(J, n), k) = Upto(J, k)
<1>1. Len(J) \in Nat /\ k \in 0..Len(J)
  BY LenProperties
<1>2. Upto(J, n) \in Seq(S) /\ Len(Upto(J, n)) = n /\ \A i \in 1..n : Upto(J, n)[i] = J[i]
  BY UptoIs
<1>3. /\ Upto(Upto(J, n), k) \in Seq(S) /\ Len(Upto(Upto(J, n), k)) = k
      /\ \A i \in 1..k : Upto(Upto(J, n), k)[i] = Upto(J, n)[i]
  BY <1>2, UptoIs
<1>4. Upto(J, k) \in Seq(S) /\ Len(Upto(J, k)) = k /\ \A i \in 1..k : Upto(J, k)[i] = J[i]
  BY <1>1, UptoIs
<1>5. \A i \in 1..k : Upto(Upto(J, n), k)[i] = Upto(J, k)[i]
  BY <1>2, <1>3, <1>4
<1> QED BY <1>3, <1>4, <1>5, SeqEqual

LEMMA UptoAppend ==
  ASSUME NEW S, NEW J \in Seq(S), NEW r \in S
  PROVE  /\ Append(J, r) \in Seq(S) /\ Len(Append(J, r)) = Len(J) + 1
         /\ \A n \in 0..Len(J) : Upto(Append(J, r), n) = Upto(J, n)
         /\ Upto(Append(J, r), Len(J)) = J
         /\ Upto(Append(J, r), Len(J) + 1) = Append(J, r)
<1>1. /\ Len(J) \in Nat /\ Append(J, r) \in Seq(S) /\ Len(Append(J, r)) = Len(J) + 1
      /\ \A i \in 1..Len(J) : Append(J, r)[i] = J[i]
  BY LenProperties, AppendProperties
<1>2. ASSUME NEW n \in 0..Len(J) PROVE Upto(Append(J, r), n) = Upto(J, n)
  <2>1. n \in 0..Len(Append(J, r))
    BY <1>1
  <2>2. /\ Upto(Append(J, r), n) \in Seq(S) /\ Len(Upto(Append(J, r), n)) = n
        /\ \A i \in 1..n : Upto(Append(J, r), n)[i] = Append(J, r)[i]
    BY <1>1, <2>1, UptoIs
  <2>3. Upto(J, n) \in Seq(S) /\ Len(Upto(J, n)) = n /\ \A i \in 1..n : Upto(J, n)[i] = J[i]
    BY UptoIs
  <2>4. \A i \in 1..n : Upto(Append(J, r), n)[i] = Upto(J, n)[i]
    BY <1>1, <2>2, <2>3
  <2> QED BY <2>2, <2>3, <2>4, SeqEqual
<1>3. Upto(Append(J, r), Len(J)) = J
  <2>1. Len(J) \in 0..Len(J)
    BY <1>1
  <2> QED BY <1>2, <2>1, UptoSelf
<1>4. Upto(Append(J, r), Len(J) + 1) = Append(J, r)
  BY <1>1, UptoSelf
<1> QED BY <1>1, <1>2, <1>3, <1>4

-----------------------------------------------------------------------------
(* Before is an order, and histories may be cut and continued.             *)

(* The parts of a replayed memory have their types.                        *)
LEMMA ReplayParts ==
  ASSUME NEW j \in Seq(Records)
  PROVE  /\ ReplayTasks(j) \in [TaskIds -> Tasks \cup {None}]
         /\ ReplayGrants(j) \in [GrantIds -> Grants \cup {None}]
         /\ ReplayHashes(j) \in [TaskIds -> Hashes \cup {None}]
         /\ \A t \in TaskIds : ReplayTasks(j)[t] = None <=> ReplayHashes(j)[t] = None
BY ReplayType DEF Replay, Memories, Known

LEMMA SpentInNat ==
  ASSUME NEW j \in Seq(Records), NEW t \in TaskIds, ReplayTasks(j)[t] # None
  PROVE  ReplayTasks(j)[t] \in Tasks /\ ReplayTasks(j)[t].spent \in Nat
BY ReplayParts DEF Tasks

LEMMA BeforeSelf ==
  ASSUME NEW j \in Seq(Records)
  PROVE  Before(j, j)
BY SpentInNat DEF Before

LEMMA BeforeTrans ==
  ASSUME NEW i \in Seq(Records), NEW j \in Seq(Records), NEW k \in Seq(Records), Before(i, j), Before(j, k)
  PROVE  Before(i, k)
<1>1. \A t \in TaskIds : ReplayTasks(i)[t] # None => ReplayTasks(j)[t] # None /\ ReplayTasks(k)[t] # None
  BY DEF Before
<1>2. ASSUME NEW t \in TaskIds, ReplayTasks(i)[t] # None
      PROVE  ReplayTasks(i)[t].spent <= ReplayTasks(k)[t].spent
  BY <1>1, <1>2, SpentInNat DEF Before
<1>3. ASSUME NEW t \in TaskIds, ReplayTasks(i)[t] # None, Closed(ReplayTasks(i), t)
      PROVE  ReplayTasks(k)[t].state = ReplayTasks(i)[t].state
  BY <1>1, <1>3 DEF Before, Closed
<1> QED BY <1>1, <1>2, <1>3 DEF Before

(* A power loss leaves a history.                                          *)
LEMMA HistoryUpto ==
  ASSUME NEW J \in Seq(Records), NEW n \in 0..Len(J), History(J)
  PROVE  History(Upto(J, n))
<1>1. Len(Upto(J, n)) = n /\ Len(J) \in Nat
  BY UptoIs, LenProperties
<1>2. \A k \in 0..n : k \in 0..Len(J) /\ Upto(Upto(J, n), k) = Upto(J, k)
  BY <1>1, UptoUpto
<1>3. ASSUME NEW m \in 0..n, NEW k \in 0..m
      PROVE  Upto(Upto(J, n), k) = Upto(J, k)
  BY <1>1, <1>2
<1> QED BY <1>1, <1>2, <1>3 DEF History

(* A record that keeps the journal good and only adds continues a history. *)
LEMMA HistoryAppend ==
  ASSUME NEW J \in Seq(Records), NEW r \in Records, History(J), Good(Append(J, r)), Before(J, Append(J, r))
  PROVE  History(Append(J, r))
<1> DEFINE K == Append(J, r)
<1>1. /\ K \in Seq(Records) /\ Len(K) = Len(J) + 1 /\ Len(J) \in Nat
      /\ \A n \in 0..Len(J) : Upto(K, n) = Upto(J, n)
      /\ Upto(K, Len(J) + 1) = K /\ Upto(J, Len(J)) = J
  BY UptoAppend, UptoSelf, LenProperties
<1> HIDE DEF K
<1>2. ASSUME NEW k \in 0..Len(J) PROVE Before(Upto(J, k), K)
  <2>1. Before(Upto(J, k), J)
    <3>1. Len(J) \in 0..Len(J) /\ k \in 0..Len(J)
      BY <1>1
    <3> QED BY <3>1, <1>1 DEF History
  <2>2. Upto(J, k) \in Seq(Records) /\ Before(J, K)
    BY UptoIs DEF K
  <2> QED BY <1>1, <2>1, <2>2, BeforeTrans
<1>3. ASSUME NEW n \in 0..Len(K)
      PROVE  Good(Upto(K, n)) /\ \A k \in 0..n : Before(Upto(K, k), Upto(K, n))
  <2>1. CASE n \in 0..Len(J)
    <3>1. \A k \in 0..n : k \in 0..Len(J)
      BY <1>1, <2>1
    <3> QED BY <1>1, <2>1, <3>1 DEF History
  <2>2. CASE n = Len(J) + 1
    <3>1. Good(K) /\ Before(K, K)
      BY <1>1, BeforeSelf DEF K
    <3>2. \A k \in 0..n : k \in 0..Len(J) \/ k = n
      BY <1>1, <2>2
    <3> QED BY <1>1, <1>2, <2>2, <3>1, <3>2
  <2> QED BY <1>1, <2>1, <2>2
<1> QED BY <1>3 DEF History, K

-----------------------------------------------------------------------------
(* What a replay makes of one more record.                                 *)

(* Appending a record leaves the records of every other kind and id as     *)
(* they were, and is the latest of its own.                                *)
LEMMA RecordsOfAppend ==
  ASSUME NEW j \in Seq(Records), NEW r \in Records, NEW k, NEW x
  PROVE  /\ RecordsOf(j, k, x) \subseteq 1..Len(j)
         /\ \A i \in RecordsOf(j, k, x) : Append(j, r)[i] = j[i]
         /\ Append(j, r)[Len(j) + 1] = r
         /\ ~(r.kind = k /\ r.id = x) => RecordsOf(Append(j, r), k, x) = RecordsOf(j, k, x)
         /\ r.kind = k /\ r.id = x =>
              RecordsOf(Append(j, r), k, x) # {} /\ Latest(RecordsOf(Append(j, r), k, x)) = Len(j) + 1
<1>1. /\ Len(j) \in Nat /\ DOMAIN j = 1..Len(j) /\ DOMAIN Append(j, r) = 1..(Len(j) + 1)
      /\ \A i \in 1..Len(j) : Append(j, r)[i] = j[i]
      /\ Append(j, r)[Len(j) + 1] = r
  BY LenProperties, AppendProperties
<1>2. RecordsOf(j, k, x) \subseteq 1..Len(j)
  BY <1>1 DEF RecordsOf
<1>3. ASSUME ~(r.kind = k /\ r.id = x)
      PROVE  RecordsOf(Append(j, r), k, x) = RecordsOf(j, k, x)
  <2>1. \A i \in 1..(Len(j) + 1) : i \in 1..Len(j) \/ i = Len(j) + 1
    BY <1>1
  <2>2. \A i \in 1..Len(j) : i \in 1..(Len(j) + 1)
    BY <1>1
  <2> QED BY <1>1, <1>3, <2>1, <2>2 DEF RecordsOf
<1>4. ASSUME r.kind = k /\ r.id = x
      PROVE  RecordsOf(Append(j, r), k, x) # {} /\ Latest(RecordsOf(Append(j, r), k, x)) = Len(j) + 1
  <2> DEFINE T == RecordsOf(Append(j, r), k, x)
         n == Len(j) + 1
  <2>1. n \in Nat /\ n \in T /\ T \in SUBSET (1..n) /\ T # {}
    BY <1>1, <1>4 DEF RecordsOf
  <2> HIDE DEF T, n
  <2>2. Latest(T) \in T /\ \A i \in T : i <= Latest(T)
    BY <2>1, LatestPosition
  <2>3. n <= Latest(T) /\ Latest(T) \in 1..n
    <3>1. n <= Latest(T)
      BY <2>1, <2>2, Zenon
    <3>2. \A i \in T : i \in 1..n
      BY <2>1, Zenon
    <3> QED BY <2>2, <3>1, <3>2, Zenon
  <2>4. Latest(T) = n
    BY <2>1, <2>3
  <2> QED BY <2>1, <2>4 DEF T, n
<1> QED BY <1>1, <1>2, <1>3, <1>4

(* The task, the hash and the grant of one id, replayed.                   *)
TaskIn(j, t) == LET S == RecordsOf(j, "task", t) IN IF S = {} THEN None ELSE j[Latest(S)].task
HashIn(j, t) == LET S == RecordsOf(j, "task", t) IN IF S = {} THEN None ELSE j[Latest(S)].hash
GrantIn(j, g) == LET S == RecordsOf(j, "grant", g) IN IF S = {} THEN None ELSE j[Latest(S)].grant

(* The replayed memory, id by id.                                          *)
LEMMA ReplayIs ==
  ASSUME NEW j
  PROVE  /\ \A t \in TaskIds : ReplayTasks(j)[t] = TaskIn(j, t) /\ ReplayHashes(j)[t] = HashIn(j, t)
         /\ \A g \in GrantIds : ReplayGrants(j)[g] =
              IF RecordsOf(j, "grant", g) = {} THEN None
              ELSE [GrantIn(j, g) EXCEPT !.revoked = Closed(ReplayTasks(j), GrantIn(j, g).task) \/ g \in RevokedIn(j)]
BY DEF ReplayTasks, ReplayHashes, ReplayGrants, TaskIn, HashIn, GrantIn

LEMMA GrantInType ==
  ASSUME NEW j \in Seq(Records), NEW g \in GrantIds
  PROVE  /\ RecordsOf(j, "grant", g) # {} => GrantIn(j, g) \in Grants
         /\ RecordsOf(j, "grant", g) = {} <=> ReplayGrants(j)[g] = None
         /\ RecordsOf(j, "grant", g) # {} => ReplayGrants(j)[g].task = GrantIn(j, g).task
<1>1. RecordsOf(j, "grant", g) # {} => GrantIn(j, g) \in Grants
  BY LatestRecord, RecordTypes DEF GrantIn
<1>2. \A r \in Grants, b \in BOOLEAN : [r EXCEPT !.revoked = b] \in Grants /\ [r EXCEPT !.revoked = b].task = r.task
  BY DEF Grants
<1>4. CASE RecordsOf(j, "grant", g) = {}
  BY <1>4, ReplayIs
<1>5. CASE RecordsOf(j, "grant", g) # {}
  <2> DEFINE b == Closed(ReplayTasks(j), GrantIn(j, g).task) \/ g \in RevokedIn(j)
  <2>1. ReplayGrants(j)[g] = [GrantIn(j, g) EXCEPT !.revoked = b]
    BY <1>5, ReplayIs
  <2>2. b \in BOOLEAN /\ GrantIn(j, g) \in Grants
    BY <1>1, <1>5
  <2> HIDE DEF b
  <2>3. ReplayGrants(j)[g] \in Grants /\ ReplayGrants(j)[g].task = GrantIn(j, g).task
    BY <1>2, <2>1, <2>2
  <2>4. None \notin Grants
    BY ConstantsAssumption
  <2> QED BY <1>1, <1>5, <2>3, <2>4
<1> QED BY <1>4, <1>5

(* An unchanged set of records is read alike.                              *)
LEMMA SameRecords ==
  ASSUME NEW j \in Seq(Records), NEW r \in Records
  PROVE  /\ \A t \in TaskIds : ~(r.kind = "task" /\ r.id = t) =>
              TaskIn(Append(j, r), t) = TaskIn(j, t) /\ HashIn(Append(j, r), t) = HashIn(j, t)
         /\ \A t \in TaskIds : r.kind = "task" /\ r.id = t =>
              TaskIn(Append(j, r), t) = r.task /\ HashIn(Append(j, r), t) = r.hash
         /\ \A g \in GrantIds : ~(r.kind = "grant" /\ r.id = g) => GrantIn(Append(j, r), g) = GrantIn(j, g)
         /\ \A g \in GrantIds : r.kind = "grant" /\ r.id = g => GrantIn(Append(j, r), g) = r.grant
<1>1. \A k, x : RecordsOf(j, k, x) # {} => Latest(RecordsOf(j, k, x)) \in RecordsOf(j, k, x)
  <2> SUFFICES ASSUME NEW k, NEW x, RecordsOf(j, k, x) # {}
               PROVE  Latest(RecordsOf(j, k, x)) \in RecordsOf(j, k, x)
    OBVIOUS
  <2>1. /\ Latest(RecordsOf(j, k, x)) \in DOMAIN j
        /\ j[Latest(RecordsOf(j, k, x))].kind = k /\ j[Latest(RecordsOf(j, k, x))].id = x
    BY LatestRecord
  <2> QED BY <2>1 DEF RecordsOf
<1>2. \A k, x : ~(r.kind = k /\ r.id = x) =>
        /\ RecordsOf(Append(j, r), k, x) = RecordsOf(j, k, x)
        /\ RecordsOf(j, k, x) # {} => Append(j, r)[Latest(RecordsOf(j, k, x))] = j[Latest(RecordsOf(j, k, x))]
  BY <1>1, RecordsOfAppend
<1>3. \A k, x : r.kind = k /\ r.id = x =>
        RecordsOf(Append(j, r), k, x) # {} /\ Append(j, r)[Latest(RecordsOf(Append(j, r), k, x))] = r
  BY RecordsOfAppend
<1>4. \A t \in TaskIds : ~(r.kind = "task" /\ r.id = t) =>
              TaskIn(Append(j, r), t) = TaskIn(j, t) /\ HashIn(Append(j, r), t) = HashIn(j, t)
  BY <1>2 DEF TaskIn, HashIn
<1>5. \A t \in TaskIds : r.kind = "task" /\ r.id = t =>
              TaskIn(Append(j, r), t) = r.task /\ HashIn(Append(j, r), t) = r.hash
  BY <1>3 DEF TaskIn, HashIn
<1>6. \A g \in GrantIds : ~(r.kind = "grant" /\ r.id = g) => GrantIn(Append(j, r), g) = GrantIn(j, g)
  BY <1>2 DEF GrantIn
<1>7. \A g \in GrantIds : r.kind = "grant" /\ r.id = g => GrantIn(Append(j, r), g) = r.grant
  BY <1>3 DEF GrantIn
<1> QED BY <1>4, <1>5, <1>6, <1>7

(* Only a revoke record revokes.                                           *)
LEMMA RevokedInAppend ==
  ASSUME NEW j \in Seq(Records), NEW r \in Records
  PROVE  RevokedIn(Append(j, r)) = RevokedIn(j) \cup (IF r.kind = "revoke" THEN r.grants ELSE {})
<1>1. /\ Len(j) \in Nat /\ DOMAIN j = 1..Len(j) /\ DOMAIN Append(j, r) = 1..(Len(j) + 1)
      /\ \A i \in 1..Len(j) : Append(j, r)[i] = j[i]
      /\ Append(j, r)[Len(j) + 1] = r
  BY LenProperties, AppendProperties
<1>2. \A i \in 1..(Len(j) + 1) : i \in 1..Len(j) \/ i = Len(j) + 1
  BY <1>1
<1>3. \A i \in 1..Len(j) : i \in 1..(Len(j) + 1)
  BY <1>1
<1>4. Len(j) + 1 \in 1..(Len(j) + 1)
  BY <1>1
<1>5. ASSUME NEW g PROVE g \in RevokedIn(Append(j, r)) <=>
        g \in RevokedIn(j) \/ (r.kind = "revoke" /\ g \in r.grants)
  <2>1. g \in RevokedIn(Append(j, r)) <=>
          \E i \in 1..(Len(j) + 1) : Append(j, r)[i].kind = "revoke" /\ g \in Append(j, r)[i].grants
    BY <1>1 DEF RevokedIn
  <2>2. g \in RevokedIn(j) <=> \E i \in 1..Len(j) : j[i].kind = "revoke" /\ g \in j[i].grants
    BY <1>1 DEF RevokedIn
  <2> QED BY <1>1, <1>2, <1>3, <1>4, <2>1, <2>2
<1> QED BY <1>5

(* A task record, a grant record, a revoke record.                         *)
LEMMA ReplayTaskRecord ==
  ASSUME NEW j \in Seq(Records), NEW t \in TaskIds, NEW task \in Tasks, NEW h \in Hashes
  PROVE  LET K == Append(j, TaskRecord(t, task, h))
         IN  /\ K \in Seq(Records)
             /\ ReplayTasks(K) = [ReplayTasks(j) EXCEPT ![t] = task]
             /\ ReplayHashes(K) = [ReplayHashes(j) EXCEPT ![t] = h]
             /\ RevokedIn(K) = RevokedIn(j)
             /\ \A g \in GrantIds : RecordsOf(K, "grant", g) = RecordsOf(j, "grant", g) /\ GrantIn(K, g) = GrantIn(j, g)
<1> DEFINE r == TaskRecord(t, task, h)
           K == Append(j, r)
<1>1. r \in Records /\ r.kind = "task" /\ r.id = t /\ r.task = task /\ r.hash = h
  BY DEF TaskRecord, Records
<1> HIDE DEF r
<1>2. K \in Seq(Records)
  BY <1>1, AppendProperties
<1>3. \A u \in TaskIds : /\ TaskIn(K, u) = IF u = t THEN task ELSE TaskIn(j, u)
                         /\ HashIn(K, u) = IF u = t THEN h ELSE HashIn(j, u)
  BY <1>1, SameRecords
<1>4. \A g \in GrantIds : RecordsOf(K, "grant", g) = RecordsOf(j, "grant", g) /\ GrantIn(K, g) = GrantIn(j, g)
  BY <1>1, SameRecords, RecordsOfAppend
<1>5. RevokedIn(K) = RevokedIn(j)
  BY <1>1, RevokedInAppend
<1> HIDE DEF K
<1>6. /\ \A u \in TaskIds : ReplayTasks(K)[u] = [ReplayTasks(j) EXCEPT ![t] = task][u]
      /\ \A u \in TaskIds : ReplayHashes(K)[u] = [ReplayHashes(j) EXCEPT ![t] = h][u]
  BY <1>2, <1>3, ReplayIs, ReplayParts
<1>7. ReplayTasks(K) = [ReplayTasks(j) EXCEPT ![t] = task] /\ ReplayHashes(K) = [ReplayHashes(j) EXCEPT ![t] = h]
  BY <1>6 DEF ReplayTasks, ReplayHashes
<1> QED BY <1>2, <1>4, <1>5, <1>7 DEF K, r

(* A grant or a revoke record changes no task.                             *)
LEMMA ReplayOtherRecord ==
  ASSUME NEW j \in Seq(Records), NEW r \in Records, r.kind # "task"
  PROVE  ReplayTasks(Append(j, r)) = ReplayTasks(j) /\ ReplayHashes(Append(j, r)) = ReplayHashes(j)
<1>1. \A u \in TaskIds : /\ TaskIn(Append(j, r), u) = TaskIn(j, u)
                         /\ HashIn(Append(j, r), u) = HashIn(j, u)
  BY SameRecords
<1>2. \A u \in TaskIds : /\ ReplayTasks(Append(j, r))[u] = ReplayTasks(j)[u]
                         /\ ReplayHashes(Append(j, r))[u] = ReplayHashes(j)[u]
  BY <1>1, ReplayIs
<1> QED BY <1>2 DEF ReplayTasks, ReplayHashes

-----------------------------------------------------------------------------
(* One record more keeps a journal good.                                   *)

LEMMA AppendParts ==
  ASSUME NEW j \in Seq(Records), NEW r \in Records
  PROVE  /\ Len(j) \in Nat /\ DOMAIN j = 1..Len(j)
         /\ Append(j, r) \in Seq(Records)
         /\ \A i \in DOMAIN Append(j, r) : i \in DOMAIN j \/ i = Len(j) + 1
         /\ \A i \in DOMAIN j : Append(j, r)[i] = j[i]
         /\ Append(j, r)[Len(j) + 1] = r
BY LenProperties, AppendProperties

(* The hash of a known task is that of a statement somebody committed.     *)
LEMMA KnownHash ==
  ASSUME NEW j \in Seq(Records), Good(j), NEW t \in TaskIds, ReplayTasks(j)[t] # None
  PROVE  ReplayHashes(j)[t] \in Hashes /\ ReplayHashes(j)[t] # Hash(EmptyStatement)
<1>1. ReplayHashes(j)[t] # None /\ ReplayHashes(j)[t] \in Hashes
  BY ReplayParts
<1>2. ReplayHashes(j)[t] = HashIn(j, t)
  BY ReplayIs
<1>3. RecordsOf(j, "task", t) # {} /\ HashIn(j, t) = j[Latest(RecordsOf(j, "task", t))].hash
  BY <1>1, <1>2 DEF HashIn
<1>4. Latest(RecordsOf(j, "task", t)) \in DOMAIN j /\ j[Latest(RecordsOf(j, "task", t))].kind = "task"
  BY <1>3, LatestRecord
<1>5. j[Latest(RecordsOf(j, "task", t))].hash # Hash(EmptyStatement)
  BY <1>4 DEF Good
<1> QED BY <1>1, <1>2, <1>3, <1>5

(* A chain stays whole while no closed task changes.                       *)
LEMMA WholeStays ==
  ASSUME NEW T, NEW U, NEW root, Whole(T, root),
         \A u \in TaskIds : Closed(T, u) => Closed(U, u) /\ U[u].root = T[u].root
  PROVE  Whole(U, root)
<1> SUFFICES ASSUME root # None, NEW k \in 0..(root.collapsed - 1) PROVE LinkOf(U, root, k)
  BY DEF Whole
<1>1. LinkOf(T, root, k)
  BY DEF Whole
<1> QED BY <1>1 DEF LinkOf

(* A closed task is the link that one resuming it adds to its chain.       *)
LEMMA WholeGrows ==
  ASSUME NEW T, NEW r \in TaskIds, Closed(T, r), T[r].root \in Roots \cup {None}, Whole(T, T[r].root)
  PROVE  Whole(T, IF T[r].root = None THEN Collapsed(r) ELSE [T[r].root EXCEPT !.collapsed = @ + 1])
<1>1. CASE T[r].root = None
  <2>1. LinkOf(T, Collapsed(r), 0)
    BY <1>1 DEF LinkOf, Collapsed
  <2>2. \A k \in 0..(Collapsed(r).collapsed - 1) : k = 0
    BY DEF Collapsed
  <2> QED BY <1>1, <2>1, <2>2 DEF Whole
<1>2. CASE T[r].root # None
  <2> DEFINE root == T[r].root
             next == [root EXCEPT !.collapsed = @ + 1]
             n    == root.collapsed
  <2>1. root \in Roots /\ root # None
    BY <1>2
  <2>2. n \in Nat \ {0} /\ next.collapsed = n + 1 /\ next.of = root.of
        /\ \A k : [next EXCEPT !.collapsed = k] = [root EXCEPT !.collapsed = k]
        /\ [root EXCEPT !.collapsed = n] = root
    BY <2>1 DEF Roots
  <2> HIDE DEF next, root, n
  <2>3. \A k \in 0..(n - 1) : LinkOf(T, root, k)
    BY <2>1 DEF Whole, root, n
  <2>4. \A k \in 0..(n - 1) : LinkOf(T, next, k)
    BY <2>2, <2>3 DEF LinkOf
  <2>5. LinkOf(T, next, n)
    BY <2>2 DEF LinkOf, root
  <2>6. \A k \in 0..((n + 1) - 1) : k \in 0..(n - 1) \/ k = n
    BY <2>2
  <2>7. Whole(T, next)
    BY <2>2, <2>4, <2>5, <2>6 DEF Whole
  <2> QED BY <1>2, <2>7 DEF next, root
<1> QED BY <1>1, <1>2

(* A task record (TaskStore::journal) keeps a journal good when it opens a *)
(* task in a free slot, or changes a known one without reopening it,       *)
(* changing its hash, its principal or its root, or counting down.         *)
LEMMA TaskStep ==
  ASSUME NEW j \in Seq(Records), Good(j), NEW t \in TaskIds, NEW task \in Tasks, NEW h \in Hashes,
         h # Hash(EmptyStatement),
         ReplayTasks(j)[t] # None =>
           /\ h = ReplayHashes(j)[t]
           /\ task.principal = ReplayTasks(j)[t].principal
           /\ task.root = ReplayTasks(j)[t].root
           /\ ReplayTasks(j)[t].spent <= task.spent
           /\ Closed(ReplayTasks(j), t) => task.state = ReplayTasks(j)[t].state,
         ReplayTasks(j)[t] = None =>
           /\ Whole(ReplayTasks(j), task.root)
           /\ LiveTasks(ReplayTasks(j), task.principal) = {}
  PROVE  Good(Append(j, TaskRecord(t, task, h))) /\ Before(j, Append(j, TaskRecord(t, task, h)))
<1> DEFINE r == TaskRecord(t, task, h)
           K == Append(j, r)
           T == ReplayTasks(j)
           U == ReplayTasks(K)
<1>1. /\ K \in Seq(Records)
      /\ U = [T EXCEPT ![t] = task]
      /\ ReplayHashes(K) = [ReplayHashes(j) EXCEPT ![t] = h]
      /\ RevokedIn(K) = RevokedIn(j)
      /\ \A g \in GrantIds : RecordsOf(K, "grant", g) = RecordsOf(j, "grant", g) /\ GrantIn(K, g) = GrantIn(j, g)
  BY ReplayTaskRecord
<1>2. r \in Records /\ r.kind = "task" /\ r.id = t /\ r.hash = h
  BY DEF TaskRecord, Records
<1>3. /\ \A i \in DOMAIN K : i \in DOMAIN j \/ i = Len(j) + 1
      /\ \A i \in DOMAIN j : K[i] = j[i]
      /\ K[Len(j) + 1] = r
  BY <1>2, AppendParts
<1>4. T \in [TaskIds -> Tasks \cup {None}] /\ None \notin Tasks /\ None \notin Hashes /\ None \notin TaskIds
  BY ReplayParts, ConstantsAssumption
<1>5. /\ ReplayHashes(j) \in [TaskIds -> Hashes \cup {None}]
      /\ \A u \in TaskIds : T[u] = None <=> ReplayHashes(j)[u] = None
  BY ReplayParts
<1>6. /\ \A p \in Principals : \A a, b \in LiveTasks(T, p) : a = b
      /\ \A g \in GrantIds : ReplayGrants(j)[g] # None => T[ReplayGrants(j)[g].task] # None
      /\ \A g \in RevokedIn(j) : ReplayGrants(j)[g] # None
      /\ \A u \in TaskIds : T[u] # None => Whole(T, T[u].root)
      /\ \A i \in DOMAIN j : j[i].kind = "task" =>
           j[i].hash = ReplayHashes(j)[j[i].id] /\ j[i].hash # Hash(EmptyStatement)
  BY DEF Good
<1>7. \A g \in GrantIds : /\ ReplayGrants(K)[g] = None <=> ReplayGrants(j)[g] = None
                          /\ ReplayGrants(j)[g] # None => ReplayGrants(K)[g].task = ReplayGrants(j)[g].task
                                                          /\ ReplayGrants(j)[g].task \in TaskIds
  <2> SUFFICES ASSUME NEW g \in GrantIds
               PROVE  /\ ReplayGrants(K)[g] = None <=> ReplayGrants(j)[g] = None
                      /\ ReplayGrants(j)[g] # None => ReplayGrants(K)[g].task = ReplayGrants(j)[g].task
                                                      /\ ReplayGrants(j)[g].task \in TaskIds
    OBVIOUS
  <2>1. /\ RecordsOf(j, "grant", g) # {} => GrantIn(j, g) \in Grants
        /\ RecordsOf(j, "grant", g) = {} <=> ReplayGrants(j)[g] = None
        /\ RecordsOf(j, "grant", g) # {} => ReplayGrants(j)[g].task = GrantIn(j, g).task
    BY GrantInType
  <2>2. /\ RecordsOf(K, "grant", g) = {} <=> ReplayGrants(K)[g] = None
        /\ RecordsOf(K, "grant", g) # {} => ReplayGrants(K)[g].task = GrantIn(K, g).task
    BY <1>1, GrantInType
  <2>3. \A x \in Grants : x.task \in TaskIds
    BY DEF Grants
  <2> QED BY <1>1, <2>1, <2>2, <2>3
<1>8. RevokedIn(j) \subseteq GrantIds
  <2>1. \A i \in DOMAIN j : j[i].kind = "revoke" => j[i].grants \subseteq GrantIds
    BY RecordTypes
  <2> QED BY <2>1 DEF RevokedIn
<1> HIDE DEF K, T, U, r
<1>9. \A u \in TaskIds : U[u] = IF u = t THEN task ELSE T[u]
  BY <1>1, <1>4
<1>10. \A u \in TaskIds : T[u] # None => U[u] # None
  BY <1>4, <1>9
<1>11. \A u \in TaskIds : T[u] # None /\ Closed(T, u) => Closed(U, u) /\ U[u].root = T[u].root /\ U[u].state = T[u].state
  BY <1>4, <1>9 DEF T, Closed
<1>12. \A p \in Principals : \A a, b \in LiveTasks(U, p) : a = b
  <2> SUFFICES ASSUME NEW p \in Principals, NEW a \in LiveTasks(U, p), NEW b \in LiveTasks(U, p), a # b
               PROVE  FALSE
    OBVIOUS
  <2>1. \A u \in TaskIds : u # t /\ u \in LiveTasks(U, p) => u \in LiveTasks(T, p)
    BY <1>9 DEF LiveTasks
  <2>2. CASE T[t] # None
    <3>1. t \in LiveTasks(U, p) => t \in LiveTasks(T, p)
      BY <2>2, <1>9, <1>11 DEF LiveTasks, Closed, T
    <3>2. a \in LiveTasks(T, p) /\ b \in LiveTasks(T, p)
      BY <2>1, <3>1 DEF LiveTasks
    <3> QED BY <3>2, <1>6
  <2>3. CASE T[t] = None
    <3>1. LiveTasks(T, task.principal) = {}
      BY <2>3 DEF T
    <3>2. t \in LiveTasks(U, p) => task.principal = p
      BY <1>9 DEF LiveTasks
    <3>3. a \in TaskIds /\ b \in TaskIds
      BY DEF LiveTasks
    <3>4. t \in LiveTasks(U, p) => LiveTasks(T, p) = {}
      BY <3>1, <3>2
    <3> QED BY <2>1, <3>3, <3>4, <1>6
  <2> QED BY <2>2, <2>3
<1>13. \A g \in GrantIds : ReplayGrants(K)[g] # None => U[ReplayGrants(K)[g].task] # None
  BY <1>6, <1>7, <1>10
<1>14. \A g \in RevokedIn(K) : ReplayGrants(K)[g] # None
  BY <1>1, <1>6, <1>7, <1>8
<1>15. \A u \in TaskIds : U[u] # None => Whole(U, U[u].root)
  <2> SUFFICES ASSUME NEW u \in TaskIds, U[u] # None
               PROVE  Whole(U, U[u].root)
    OBVIOUS
  <2>1. Whole(T, U[u].root)
    <3>1. CASE T[u] # None
      <4>1. U[u].root = T[u].root
        BY <3>1, <1>9 DEF T
      <4> QED BY <3>1, <4>1, <1>6
    <3>2. CASE T[u] = None
      <4>1. u = t /\ U[u] = task
        BY <3>2, <1>9
      <4> QED BY <3>2, <4>1 DEF T
    <3> QED BY <3>1, <3>2
  <2>2. \A v \in TaskIds : Closed(T, v) => Closed(U, v) /\ U[v].root = T[v].root
    BY <1>11 DEF Closed
  <2> QED BY <2>1, <2>2, WholeStays
<1>16. \A i \in DOMAIN K : K[i].kind = "task" =>
           K[i].hash = ReplayHashes(K)[K[i].id] /\ K[i].hash # Hash(EmptyStatement)
  <2> SUFFICES ASSUME NEW i \in DOMAIN K, K[i].kind = "task"
               PROVE  K[i].hash = ReplayHashes(K)[K[i].id] /\ K[i].hash # Hash(EmptyStatement)
    OBVIOUS
  <2>1. \A u \in TaskIds : ReplayHashes(K)[u] = IF u = t THEN h ELSE ReplayHashes(j)[u]
    BY <1>1, <1>5
  <2>2. CASE i = Len(j) + 1
    BY <2>2, <2>1, <1>2, <1>3
  <2>3. CASE i \in DOMAIN j
    <3>1. /\ K[i] = j[i] /\ j[i].hash = ReplayHashes(j)[j[i].id] /\ j[i].hash # Hash(EmptyStatement)
          /\ j[i].id \in TaskIds /\ j[i].hash \in Hashes
      BY <2>3, <1>3, <1>6, RecordTypes
    <3>2. j[i].id = t => h = ReplayHashes(j)[t]
      <4>1. T[j[i].id] # None
        BY <3>1, <1>4, <1>5
      <4> QED BY <4>1 DEF T
    <3> QED BY <2>1, <3>1, <3>2
  <2> QED BY <2>2, <2>3, <1>3
<1>17. Good(K)
  BY <1>12, <1>13, <1>14, <1>15, <1>16 DEF Good, U
<1>18. Before(j, K)
  <2>1. \A u \in TaskIds : T[u] # None => T[u].spent <= U[u].spent
    <3> SUFFICES ASSUME NEW u \in TaskIds, T[u] # None
                 PROVE  T[u].spent <= U[u].spent
      OBVIOUS
    <3>1. T[u].spent \in Nat
      BY SpentInNat DEF T
    <3>2. CASE u = t
      BY <3>2, <1>9 DEF T
    <3>3. CASE u # t
      BY <3>1, <3>3, <1>9
    <3> QED BY <3>2, <3>3
  <2> QED BY <2>1, <1>7, <1>10, <1>11 DEF Before, T, U
<1> QED BY <1>17, <1>18 DEF K, r

(* The revoked flag of a grant, set and set again.                         *)
Flag(x, b) == [x EXCEPT !.revoked = b]

LEMMA SetRevoked ==
  ASSUME NEW x \in Grants, NEW b \in BOOLEAN, NEW c \in BOOLEAN
  PROVE  /\ Flag(x, b) \in Grants
         /\ Flag(x, b).task = x.task /\ Flag(x, b).revoked = b
         /\ Flag(Flag(x, b), c) = Flag(x, c)
         /\ x.revoked = b => Flag(x, b) = x
BY DEF Grants, Flag

(* Revoking a grant twice is revoking it once.                             *)
LEMMA RevokedTwice ==
  ASSUME NEW x \in Grants, NEW b \in BOOLEAN
  PROVE  Flag(Flag(x, b), TRUE) = Flag(x, TRUE)
BY DEF Grants, Flag

(* What makes a replayed grant a revoked one.                              *)
Gone(j, g) == Closed(ReplayTasks(j), GrantIn(j, g).task) \/ g \in RevokedIn(j)

(* A replayed grant, by its records.                                       *)
LEMMA GrantIs ==
  ASSUME NEW j \in Seq(Records), NEW g \in GrantIds
  PROVE  /\ RecordsOf(j, "grant", g) = {} => ReplayGrants(j)[g] = None
         /\ RecordsOf(j, "grant", g) # {} =>
              /\ GrantIn(j, g) \in Grants
              /\ ReplayGrants(j)[g] = Flag(GrantIn(j, g), Gone(j, g))
              /\ ReplayGrants(j)[g] \in Grants /\ ReplayGrants(j)[g] # None
              /\ ReplayGrants(j)[g].task = GrantIn(j, g).task
              /\ ReplayGrants(j)[g].revoked = Gone(j, g)
<1>1. Gone(j, g) \in BOOLEAN
  BY DEF Gone
<1>2. RecordsOf(j, "grant", g) # {} => ReplayGrants(j)[g] = Flag(GrantIn(j, g), Gone(j, g))
  BY ReplayIs DEF Gone, Flag
<1>3. RecordsOf(j, "grant", g) = {} => ReplayGrants(j)[g] = None
  BY ReplayIs
<1>4. RecordsOf(j, "grant", g) # {} => GrantIn(j, g) \in Grants
  BY GrantInType
<1>5. None \notin Grants
  BY ConstantsAssumption
<1>6. CASE RecordsOf(j, "grant", g) # {}
  <2>1. /\ Flag(GrantIn(j, g), Gone(j, g)) \in Grants
        /\ Flag(GrantIn(j, g), Gone(j, g)).task = GrantIn(j, g).task
        /\ Flag(GrantIn(j, g), Gone(j, g)).revoked = Gone(j, g)
    BY <1>1, <1>4, <1>6, SetRevoked
  <2> QED BY <1>2, <1>4, <1>5, <1>6, <2>1
<1> QED BY <1>3, <1>6

(* A grant record (issue_grant) of a fresh grant of a known task.          *)
LEMMA GrantStep ==
  ASSUME NEW j \in Seq(Records), Good(j), NEW g \in GrantIds, NEW grant \in Grants,
         RecordsOf(j, "grant", g) = {}, ReplayTasks(j)[grant.task] # None
  PROVE  /\ Good(Append(j, GrantRecord(g, grant))) /\ Before(j, Append(j, GrantRecord(g, grant)))
         /\ ~Closed(ReplayTasks(j), grant.task) /\ ~grant.revoked =>
              ReplayGrants(Append(j, GrantRecord(g, grant))) = [ReplayGrants(j) EXCEPT ![g] = grant]
<1> DEFINE r == GrantRecord(g, grant)
           K == Append(j, r)
           T == ReplayTasks(j)
<1>1. r \in Records /\ r.kind = "grant" /\ r.id = g /\ r.grant = grant
  BY DEF GrantRecord, Records
<1> HIDE DEF r
<1>2. /\ K \in Seq(Records)
      /\ \A i \in DOMAIN K : i \in DOMAIN j \/ i = Len(j) + 1
      /\ \A i \in DOMAIN j : K[i] = j[i]
      /\ K[Len(j) + 1] = r
  BY <1>1, AppendParts
<1>3. ReplayTasks(K) = T /\ ReplayHashes(K) = ReplayHashes(j)
  <2>1. r.kind # "task"
    BY <1>1
  <2> QED BY <1>1, <2>1, ReplayOtherRecord
<1>4. RevokedIn(K) = RevokedIn(j)
  <2>1. r.kind # "revoke"
    BY <1>1
  <2> QED BY <1>1, <2>1, RevokedInAppend
<1>5. \A x \in GrantIds : x # g =>
        RecordsOf(K, "grant", x) = RecordsOf(j, "grant", x) /\ GrantIn(K, x) = GrantIn(j, x)
  <2>1. \A x \in GrantIds : x # g => RecordsOf(K, "grant", x) = RecordsOf(j, "grant", x)
    BY <1>1, RecordsOfAppend
  <2>2. \A x \in GrantIds : x # g => GrantIn(K, x) = GrantIn(j, x)
    BY <1>1, SameRecords
  <2> QED BY <2>1, <2>2
<1>6. RecordsOf(K, "grant", g) # {} /\ GrantIn(K, g) = grant
  <2>1. RecordsOf(K, "grant", g) # {}
    BY <1>1, RecordsOfAppend
  <2>2. GrantIn(K, g) = grant
    BY <1>1, SameRecords
  <2> QED BY <2>1, <2>2
<1>7. /\ \A p \in Principals : \A a, b \in LiveTasks(T, p) : a = b
      /\ \A x \in GrantIds : ReplayGrants(j)[x] # None => T[ReplayGrants(j)[x].task] # None
      /\ \A x \in RevokedIn(j) : ReplayGrants(j)[x] # None
      /\ \A u \in TaskIds : T[u] # None => Whole(T, T[u].root)
      /\ \A i \in DOMAIN j : j[i].kind = "task" =>
           j[i].hash = ReplayHashes(j)[j[i].id] /\ j[i].hash # Hash(EmptyStatement)
  BY DEF Good
<1>8. ReplayGrants(j)[g] = None
  BY GrantIs
<1> HIDE DEF K
<1>9. \A x \in GrantIds : x # g => ReplayGrants(K)[x] = ReplayGrants(j)[x]
  <2> SUFFICES ASSUME NEW x \in GrantIds, x # g
               PROVE  ReplayGrants(K)[x] = ReplayGrants(j)[x]
    OBVIOUS
  <2>1. Gone(K, x) = Gone(j, x)
    BY <1>3, <1>4, <1>5 DEF Gone
  <2> QED BY <1>2, <1>5, <2>1, GrantIs
<1>10. ReplayGrants(K)[g] # None /\ ReplayGrants(K)[g].task = grant.task
  BY <1>2, <1>6, GrantIs
<1>11. Good(K)
  <2>1. \A x \in GrantIds : ReplayGrants(K)[x] # None => T[ReplayGrants(K)[x].task] # None
    BY <1>7, <1>9, <1>10
  <2>2. \A x \in RevokedIn(K) : ReplayGrants(K)[x] # None
    <3>1. RevokedIn(j) \subseteq GrantIds
      <4>1. \A i \in DOMAIN j : j[i].kind = "revoke" => j[i].grants \subseteq GrantIds
        BY RecordTypes
      <4> QED BY <4>1 DEF RevokedIn
    <3> QED BY <3>1, <1>4, <1>7, <1>9, <1>10
  <2>3. \A i \in DOMAIN K : K[i].kind = "task" => i \in DOMAIN j /\ K[i] = j[i]
    <3>1. K[Len(j) + 1].kind # "task"
      BY <1>1, <1>2
    <3> QED BY <3>1, <1>2
  <2>4. \A i \in DOMAIN K : K[i].kind = "task" =>
           K[i].hash = ReplayHashes(K)[K[i].id] /\ K[i].hash # Hash(EmptyStatement)
    BY <1>3, <1>7, <2>3
  <2> QED BY <1>3, <1>7, <2>1, <2>2, <2>4 DEF Good, T
<1>12. Before(j, K)
  <2>1. \A u \in TaskIds : T[u] # None => T[u].spent <= T[u].spent
    BY SpentInNat DEF T
  <2>2. \A x \in GrantIds : ReplayGrants(j)[x] # None => ReplayGrants(K)[x] # None
    BY <1>9, <1>10
  <2> QED BY <1>3, <2>1, <2>2 DEF Before, T
<1>13. ASSUME ~Closed(T, grant.task), ~grant.revoked
       PROVE  ReplayGrants(K) = [ReplayGrants(j) EXCEPT ![g] = grant]
  <2>1. g \notin RevokedIn(j)
    BY <1>7, <1>8
  <2>2. Gone(K, g) = FALSE
    BY <1>3, <1>4, <1>6, <1>13, <2>1 DEF Gone, T
  <2>3. Flag(grant, FALSE) = grant
    <3>1. grant.revoked = FALSE
      BY <1>13 DEF Grants
    <3> QED BY <3>1, SetRevoked
  <2>4. ReplayGrants(K)[g] = Flag(GrantIn(K, g), Gone(K, g))
    BY <1>2, <1>6, GrantIs
  <2>5. ReplayGrants(K)[g] = grant
    BY <1>6, <2>2, <2>3, <2>4
  <2>6. ReplayGrants(j) \in [GrantIds -> Grants \cup {None}] /\ ReplayGrants(K) \in [GrantIds -> Grants \cup {None}]
    BY <1>2, ReplayParts
  <2>7. \A x \in GrantIds : ReplayGrants(K)[x] = [ReplayGrants(j) EXCEPT ![g] = grant][x]
    BY <1>9, <2>5, <2>6
  <2> QED BY <2>6, <2>7
<1> QED BY <1>11, <1>12, <1>13 DEF K, r, T

(* A revoke record (revoke_for_task) of known grants.                      *)
LEMMA RevokeStep ==
  ASSUME NEW j \in Seq(Records), Good(j), NEW gs \in SUBSET GrantIds,
         \A g \in gs : ReplayGrants(j)[g] # None
  PROVE  /\ Good(Append(j, RevokeRecord(gs))) /\ Before(j, Append(j, RevokeRecord(gs)))
         /\ ReplayGrants(Append(j, RevokeRecord(gs))) = Revoke(ReplayGrants(j), gs)
<1> DEFINE r == RevokeRecord(gs)
           K == Append(j, r)
           T == ReplayTasks(j)
<1>1. r \in Records /\ r.kind = "revoke" /\ r.grants = gs
  BY DEF RevokeRecord, Records
<1> HIDE DEF r
<1>2. /\ K \in Seq(Records)
      /\ \A i \in DOMAIN K : i \in DOMAIN j \/ i = Len(j) + 1
      /\ \A i \in DOMAIN j : K[i] = j[i]
      /\ K[Len(j) + 1] = r
  BY <1>1, AppendParts
<1>3. ReplayTasks(K) = T /\ ReplayHashes(K) = ReplayHashes(j)
  <2>1. r.kind # "task"
    BY <1>1
  <2> QED BY <1>1, <2>1, ReplayOtherRecord
<1>4. RevokedIn(K) = RevokedIn(j) \cup gs
  BY <1>1, RevokedInAppend
<1>5. \A x \in GrantIds : RecordsOf(K, "grant", x) = RecordsOf(j, "grant", x) /\ GrantIn(K, x) = GrantIn(j, x)
  <2>1. r.kind # "grant"
    BY <1>1
  <2>2. \A x \in GrantIds : RecordsOf(K, "grant", x) = RecordsOf(j, "grant", x)
    BY <1>1, <2>1, RecordsOfAppend
  <2>3. \A x \in GrantIds : GrantIn(K, x) = GrantIn(j, x)
    BY <1>1, <2>1, SameRecords
  <2> QED BY <2>2, <2>3
<1>7. /\ \A p \in Principals : \A a, b \in LiveTasks(T, p) : a = b
      /\ \A x \in GrantIds : ReplayGrants(j)[x] # None => T[ReplayGrants(j)[x].task] # None
      /\ \A x \in RevokedIn(j) : ReplayGrants(j)[x] # None
      /\ \A u \in TaskIds : T[u] # None => Whole(T, T[u].root)
      /\ \A i \in DOMAIN j : j[i].kind = "task" =>
           j[i].hash = ReplayHashes(j)[j[i].id] /\ j[i].hash # Hash(EmptyStatement)
  BY DEF Good
<1> HIDE DEF K
<1>8. \A x \in GrantIds : /\ ReplayGrants(K)[x] = None <=> ReplayGrants(j)[x] = None
                          /\ ReplayGrants(j)[x] # None => ReplayGrants(K)[x].task = ReplayGrants(j)[x].task
  BY <1>2, <1>5, GrantIs
<1>9. \A x \in GrantIds : ReplayGrants(K)[x] = Revoke(ReplayGrants(j), gs)[x]
  <2> SUFFICES ASSUME NEW x \in GrantIds
               PROVE  ReplayGrants(K)[x] = Revoke(ReplayGrants(j), gs)[x]
    OBVIOUS
  <2>1. Revoke(ReplayGrants(j), gs)[x] =
          IF x \in gs THEN Flag(ReplayGrants(j)[x], TRUE) ELSE ReplayGrants(j)[x]
    BY DEF Revoke, Flag
  <2>2. CASE RecordsOf(j, "grant", x) = {}
    BY <2>1, <2>2, <1>2, <1>5, GrantIs
  <2>3. CASE RecordsOf(j, "grant", x) # {} /\ x \in gs
    <3>1. Gone(K, x) = TRUE
      BY <2>3, <1>4 DEF Gone
    <3>2. Gone(j, x) \in BOOLEAN
      BY DEF Gone
    <3>3. ReplayGrants(K)[x] = Flag(GrantIn(j, x), TRUE)
      BY <1>2, <1>5, <2>3, <3>1, GrantIs
    <3>4. /\ ReplayGrants(j)[x] = Flag(GrantIn(j, x), Gone(j, x))
          /\ GrantIn(j, x) \in Grants
      BY <2>3, GrantIs
    <3>5. Flag(Flag(GrantIn(j, x), Gone(j, x)), TRUE) = Flag(GrantIn(j, x), TRUE)
      BY <3>2, <3>4, RevokedTwice, Zenon
    <3> QED BY <2>1, <2>3, <3>3, <3>4, <3>5
  <2>4. CASE RecordsOf(j, "grant", x) # {} /\ x \notin gs
    <3>1. Gone(K, x) = Gone(j, x)
      BY <2>4, <1>3, <1>4, <1>5 DEF Gone
    <3> QED BY <1>2, <1>5, <2>1, <2>4, <3>1, GrantIs
  <2> QED BY <2>2, <2>3, <2>4
<1>10. ReplayGrants(K) = Revoke(ReplayGrants(j), gs)
  <2>1. ReplayGrants(K) \in [GrantIds -> Grants \cup {None}]
    BY <1>2, ReplayParts
  <2> QED BY <1>9, <2>1 DEF Revoke
<1>11. Good(K)
  <2>1. \A x \in GrantIds : ReplayGrants(K)[x] # None => T[ReplayGrants(K)[x].task] # None
    BY <1>7, <1>8
  <2>2. \A x \in RevokedIn(K) : ReplayGrants(K)[x] # None
    <3>1. RevokedIn(j) \subseteq GrantIds
      <4>1. \A i \in DOMAIN j : j[i].kind = "revoke" => j[i].grants \subseteq GrantIds
        BY RecordTypes
      <4> QED BY <4>1 DEF RevokedIn
    <3> QED BY <3>1, <1>4, <1>7, <1>8
  <2>3. \A i \in DOMAIN K : K[i].kind = "task" => i \in DOMAIN j /\ K[i] = j[i]
    <3>1. K[Len(j) + 1].kind # "task"
      BY <1>1, <1>2
    <3> QED BY <3>1, <1>2
  <2>4. \A i \in DOMAIN K : K[i].kind = "task" =>
           K[i].hash = ReplayHashes(K)[K[i].id] /\ K[i].hash # Hash(EmptyStatement)
    BY <1>3, <1>7, <2>3
  <2> QED BY <1>3, <1>7, <2>1, <2>2, <2>4 DEF Good, T
<1>12. Before(j, K)
  <2>1. \A u \in TaskIds : T[u] # None => T[u].spent <= T[u].spent
    BY SpentInNat DEF T
  <2>2. \A x \in GrantIds : ReplayGrants(j)[x] # None => ReplayGrants(K)[x] # None
    BY <1>8
  <2> QED BY <1>3, <2>1, <2>2 DEF Before, T
<1> QED BY <1>10, <1>11, <1>12 DEF K, r

(* The grants after a task record: as before while the task stays open or  *)
(* stays closed, all of the task's grants revoked when it closes.          *)
LEMMA TaskGrants ==
  ASSUME NEW j \in Seq(Records), NEW t \in TaskIds, NEW task \in Tasks, NEW h \in Hashes
  PROVE  LET K == Append(j, TaskRecord(t, task, h))
             C == ReplayTasks(j)[t] # None /\ ~IsLive(ReplayTasks(j)[t].state)
         IN  /\ (C <=> ~IsLive(task.state)) => ReplayGrants(K) = ReplayGrants(j)
             /\ ~IsLive(task.state) => ReplayGrants(K) = Revoke(ReplayGrants(j), LiveGrants(ReplayGrants(j), t))
<1> DEFINE K == Append(j, TaskRecord(t, task, h))
           T == ReplayTasks(j)
           U == ReplayTasks(K)
           gs == LiveGrants(ReplayGrants(j), t)
<1>1. /\ K \in Seq(Records)
      /\ U = [T EXCEPT ![t] = task]
      /\ RevokedIn(K) = RevokedIn(j)
      /\ \A g \in GrantIds : RecordsOf(K, "grant", g) = RecordsOf(j, "grant", g) /\ GrantIn(K, g) = GrantIn(j, g)
  BY ReplayTaskRecord
<1>2. T \in [TaskIds -> Tasks \cup {None}] /\ None \notin Tasks
  BY ReplayParts, ConstantsAssumption
<1>3. /\ ReplayGrants(j) \in [GrantIds -> Grants \cup {None}]
      /\ ReplayGrants(K) \in [GrantIds -> Grants \cup {None}]
  BY <1>1, ReplayParts
<1> HIDE DEF K, T, U
<1>4. \A u \in TaskIds : U[u] = IF u = t THEN task ELSE T[u]
  BY <1>1, <1>2
<1>5. /\ \A u \in TaskIds : u # t => (Closed(U, u) <=> Closed(T, u))
      /\ Closed(U, t) <=> ~IsLive(task.state)
      /\ Closed(T, t) <=> T[t] # None /\ ~IsLive(T[t].state)
  BY <1>2, <1>4 DEF Closed
<1>6. \A g \in GrantIds : RecordsOf(j, "grant", g) # {} => GrantIn(j, g).task \in TaskIds
  BY GrantIs DEF Grants
<1>7. ASSUME T[t] # None /\ ~IsLive(T[t].state) <=> ~IsLive(task.state)
      PROVE  ReplayGrants(K) = ReplayGrants(j)
  <2>1. \A u \in TaskIds : Closed(U, u) <=> Closed(T, u)
    BY <1>5, <1>7
  <2>2. ASSUME NEW g \in GrantIds PROVE ReplayGrants(K)[g] = ReplayGrants(j)[g]
    <3>1. CASE RecordsOf(j, "grant", g) = {}
      BY <1>1, <3>1, GrantIs
    <3>2. CASE RecordsOf(j, "grant", g) # {}
      <4>1. Gone(K, g) = Gone(j, g)
        BY <1>1, <1>6, <2>1, <3>2 DEF Gone, U, T
      <4> QED BY <1>1, <3>2, <4>1, GrantIs
    <3> QED BY <3>1, <3>2
  <2> QED BY <1>3, <2>2
<1>8. ASSUME ~IsLive(task.state)
      PROVE  ReplayGrants(K) = Revoke(ReplayGrants(j), gs)
  <2>1. ASSUME NEW g \in GrantIds PROVE ReplayGrants(K)[g] = Revoke(ReplayGrants(j), gs)[g]
    <3>0. Revoke(ReplayGrants(j), gs)[g] =
            IF g \in gs THEN Flag(ReplayGrants(j)[g], TRUE) ELSE ReplayGrants(j)[g]
      BY DEF Revoke, Flag
    <3>1. CASE RecordsOf(j, "grant", g) = {}
      <4>1. ReplayGrants(j)[g] = None /\ ReplayGrants(K)[g] = None
        BY <1>1, <3>1, GrantIs
      <4>2. g \notin gs
        BY <4>1 DEF LiveGrants
      <4> QED BY <3>0, <4>1, <4>2
    <3>2. CASE RecordsOf(j, "grant", g) # {}
      <4>1. /\ GrantIn(j, g) \in Grants
            /\ ReplayGrants(j)[g] = Flag(GrantIn(j, g), Gone(j, g))
            /\ ReplayGrants(j)[g] # None
            /\ ReplayGrants(j)[g].task = GrantIn(j, g).task
            /\ ReplayGrants(j)[g].revoked = Gone(j, g)
            /\ ReplayGrants(K)[g] = Flag(GrantIn(j, g), Gone(K, g))
        BY <1>1, <3>2, GrantIs
      <4>2. g \in gs <=> GrantIn(j, g).task = t /\ ~Gone(j, g)
        BY <4>1 DEF LiveGrants
      <4>3. Gone(j, g) \in BOOLEAN
        BY DEF Gone
      <4>4. CASE GrantIn(j, g).task = t
        <5>1. Gone(K, g) = TRUE
          BY <1>1, <1>5, <1>8, <4>4 DEF Gone, U
        <5>2. g \notin gs => Gone(j, g) = TRUE
          BY <4>2, <4>3, <4>4
        <5>3. Flag(Flag(GrantIn(j, g), Gone(j, g)), TRUE) = Flag(GrantIn(j, g), TRUE)
          BY <4>1, <4>3, RevokedTwice, Zenon
        <5> QED BY <3>0, <4>1, <5>1, <5>2, <5>3
      <4>5. CASE GrantIn(j, g).task # t
        <5>1. Gone(K, g) = Gone(j, g)
          BY <1>1, <1>5, <1>6, <3>2, <4>5 DEF Gone, U, T
        <5> QED BY <3>0, <4>1, <4>2, <4>5, <5>1
      <4> QED BY <4>4, <4>5
    <3> QED BY <3>1, <3>2
  <2> QED BY <1>3, <2>1 DEF Revoke
<1> QED BY <1>7, <1>8 DEF K, T

-----------------------------------------------------------------------------
(* What the store believes when it is idle, and what it has promised.      *)

(* A promise a journal keeps is kept by every journal after it.            *)
LEMMA DurableBefore ==
  ASSUME NEW i \in Seq(Records), NEW j \in Seq(Records), NEW a \in Answers,
         Durable(a, i), Before(i, j)
  PROVE  Durable(a, j)
<1>1. ASSUME NEW t \in a.opened
      PROVE  ReplayTasks(j)[t] # None /\ ReplayTasks(j)[t].spent >= a.spent[t]
  <2>1. t \in TaskIds /\ a.spent[t] \in Nat
    BY ConstantsAssumption DEF Answers
  <2>2. ReplayTasks(i)[t] # None /\ ReplayTasks(i)[t].spent >= a.spent[t]
    BY DEF Durable
  <2>3. ReplayTasks(j)[t] # None /\ ReplayTasks(i)[t].spent <= ReplayTasks(j)[t].spent
    BY <2>1, <2>2 DEF Before
  <2>4. ReplayTasks(i)[t].spent \in Nat /\ ReplayTasks(j)[t].spent \in Nat
    BY <2>1, <2>2, <2>3, SpentInNat
  <2> QED BY <2>1, <2>2, <2>3, <2>4
<1>2. \A t \in a.closed : Closed(ReplayTasks(j), t)
  <2>1. a.closed \subseteq TaskIds
    BY DEF Answers
  <2> QED BY <2>1 DEF Durable, Before, Closed
<1>3. \A g \in a.minted : ReplayGrants(j)[g] # None
  <2>1. a.minted \subseteq GrantIds
    BY DEF Answers
  <2> QED BY <2>1 DEF Durable, Before
<1> QED BY <1>1, <1>2, <1>3 DEF Durable

(* A history is good at its end and at every cut.                          *)
LEMMA HistoryParts ==
  ASSUME NEW J \in Seq(Records), History(J)
  PROVE  /\ Good(J)
         /\ \A n \in 0..Len(J) : /\ Upto(J, n) \in Seq(Records)
                                 /\ Good(Upto(J, n)) /\ Before(Upto(J, n), J)
<1>1. Len(J) \in Nat /\ Len(J) \in 0..Len(J) /\ Upto(J, Len(J)) = J
  BY LenProperties, UptoSelf
<1>2. \A n \in 0..Len(J) : Upto(J, n) \in Seq(Records)
  BY UptoIs
<1> QED BY <1>1, <1>2 DEF History

(* Between two handlers memory is the replay of the journal.               *)
LEMMA IdleFacts ==
  ASSUME TypeInv, StoreInv, Idle
  PROVE  /\ journal \in Seq(Records) /\ History(journal) /\ Good(journal)
         /\ mem \in Memories /\ mem.tasks = ReplayTasks(journal)
         /\ mem.grants = ReplayGrants(journal) /\ mem.hashes = ReplayHashes(journal)
         /\ told \in Answers /\ Durable(told, journal)
<1>1. journal \in Seq(Records) /\ told \in Answers /\ mem \in Memories /\ synced \in 0..Len(journal)
  BY DEF TypeInv, TypeOK
<1>2. History(journal)
  BY DEF StoreInv, Ending, Idle
<1>3. Durable(told, Upto(journal, synced)) /\ MemIs(mem, journal)
  BY DEF StoreInv
<1>4. Durable(told, journal)
  BY <1>1, <1>2, <1>3, HistoryParts, DurableBefore
<1> QED BY <1>1, <1>2, <1>3, <1>4, HistoryParts DEF MemIs

(* The hash a handler journals is that of the statement first committed.   *)
LEMMA HashForKept ==
  ASSUME TypeInv, StoreInv, Idle, NEW t \in TaskIds, NEW s
  PROVE  /\ ReplayTasks(journal)[t] # None =>
              /\ HashFor(t, s) = ReplayHashes(journal)[t] /\ HashFor(t, s) \in Hashes
              /\ HashFor(t, s) # Hash(EmptyStatement)
         /\ ReplayTasks(journal)[t] = None /\ s \in Statements =>
              HashFor(t, s) \in Hashes /\ HashFor(t, s) # Hash(EmptyStatement)
<1>1. journal \in Seq(Records) /\ Good(journal) /\ mem.hashes = ReplayHashes(journal)
  BY IdleFacts
<1>2. ReplayTasks(journal)[t] = None <=> ReplayHashes(journal)[t] = None
  BY <1>1, ReplayParts
<1>3. ASSUME ReplayTasks(journal)[t] # None
      PROVE  /\ HashFor(t, s) = ReplayHashes(journal)[t] /\ HashFor(t, s) \in Hashes
             /\ HashFor(t, s) # Hash(EmptyStatement)
  BY <1>1, <1>2, <1>3, KnownHash DEF HashFor
<1>4. ASSUME ReplayTasks(journal)[t] = None, s \in Statements
      PROVE  HashFor(t, s) \in Hashes /\ HashFor(t, s) # Hash(EmptyStatement)
  <2>1. HashFor(t, s) = Hash(s)
    BY <1>1, <1>2, <1>4 DEF HashFor
  <2>2. s # EmptyStatement
    BY <1>4, ConstantsAssumption
  <2> QED BY <1>4, <2>1, <2>2 DEF Hash, Hashes
<1> QED BY <1>3, <1>4

(* A handler that submits records a good history may go on with, and the   *)
(* memory and the answer they justify, keeps the invariant.                *)
LEMMA SubmitInv ==
  ASSUME TypeInv, StoreInv, Idle,
         NEW first \in Records, NEW rest \in Seq(Records),
         NEW m \in Memories, NEW a \in Answers, Submit(first, rest, m, a),
         History(Append(journal, first) \o rest),
         MemIs(m, Append(journal, first) \o rest),
         Durable(a, Append(journal, first) \o rest)
  PROVE  StoreInv'
<1>1. /\ journal \in Seq(Records) /\ Len(journal) \in Nat /\ synced \in 0..Len(journal)
  BY LenProperties DEF TypeInv, TypeOK
<1>2. /\ journal' = Append(journal, first) /\ op' = [todo |-> rest, mem |-> m, told |-> a]
      /\ synced' = synced /\ up' = up /\ mem' = mem /\ told' = told
  BY DEF Submit
<1>3. op' # None /\ op'.todo = rest /\ op'.mem = m /\ op'.told = a
  <2>1. op' \in Pending
    BY <1>2 DEF Pending
  <2> QED BY <1>2, <2>1, PendingAssumption
<1>4. Ending' = Append(journal, first) \o rest
  BY <1>2, <1>3 DEF Ending
<1>5. /\ Len(journal') = Len(journal) + 1
      /\ Upto(journal', Len(journal)) = journal
      /\ Upto(journal', synced) = Upto(journal, synced)
  BY <1>1, <1>2, UptoAppend
<1>6. MemIs(mem, journal) /\ up /\ Durable(told, Upto(journal, synced))
  BY DEF StoreInv, Idle
<1>7. \E n \in 0..Len(journal') : MemIs(mem', Upto(journal', n))
  <2>1. Len(journal) \in 0..Len(journal')
    BY <1>1, <1>5
  <2> QED BY <1>2, <1>5, <1>6, <2>1 DEF MemIs
<1>8. Durable(told', Upto(journal', synced'))
  BY <1>2, <1>5, <1>6
<1>9. History(Ending') /\ MemIs(op'.mem, Ending') /\ Durable(op'.told, Ending')
  BY <1>3, <1>4
<1>10. up' /\ ~Idle'
  BY <1>2, <1>3, <1>6 DEF Idle
<1>11. /\ History(Ending)' /\ MemIs(op.mem, Ending)' /\ Durable(op.told, Ending)'
       /\ Durable(told, Upto(journal, synced))'
       /\ (\E n \in 0..Len(journal) : MemIs(mem, Upto(journal, n)))'
  <2>1. History(Ending)'
    BY <1>9 DEF History, Upto
  <2>2. MemIs(op.mem, Ending)'
    BY <1>9 DEF MemIs
  <2>3. Durable(op.told, Ending)' /\ Durable(told, Upto(journal, synced))'
    BY <1>8, <1>9 DEF Durable, Upto
  <2>4. (\E n \in 0..Len(journal) : MemIs(mem, Upto(journal, n)))'
    BY <1>7 DEF MemIs, Upto
  <2> QED BY <2>1, <2>2, <2>3, <2>4
<1> QED BY <1>3, <1>10, <1>11 DEF StoreInv

-----------------------------------------------------------------------------
(* The handlers.                                                           *)

(* A handler writes one record or two.                                     *)
LEMMA OneRecord ==
  ASSUME NEW j \in Seq(Records), NEW first \in Records, NEW second \in Records
  PROVE  /\ Append(j, first) \o <<>> = Append(j, first)
         /\ Append(j, first) \o <<second>> = Append(Append(j, first), second)
<1>1. Append(j, first) \in Seq(Records)
  BY AppendProperties
<1> QED BY <1>1, ConcatEmptySeq, AppendIsConcat

(* open_for_human: the task record, then the grant record.                 *)
LEMMA OpenForHumanInv ==
  ASSUME TypeInv, StoreInv,
         NEW p \in Principals, NEW t \in FreshTasks, NEW g \in FreshGrants,
         NEW s \in Statements, NEW d \in Deadlines, NEW r \in Resumable \cup {None},
         OpenForHuman(p, t, g, s, d, r)
  PROVE  StoreInv'
<1> DEFINE task  == [principal |-> p, state |-> "active", deadline |-> d,
                     root |-> RootFrom(r), spent |-> SpentFrom(r)]
           grant == [task |-> t, expires |-> d, unattended |-> FALSE,
                     issued |-> now, revoked |-> FALSE]
           h     == HashFor(t, s)
           m     == [mem EXCEPT !.tasks[t] = task, !.grants[g] = grant,
                                !.hashes[t] = h, !.statements[t] = s]
           a     == [told EXCEPT !.opened = @ \cup {t}, !.minted = @ \cup {g},
                                 !.spent[t] = SpentFrom(r)]
           T     == ReplayTasks(journal)
           first == TaskRecord(t, task, h)
           second == GrantRecord(g, grant)
           K     == Append(journal, first)
           L     == Append(K, second)
<1>1. Idle /\ SlotFree(p) /\ Submit(first, <<second>>, m, a)
  BY DEF OpenForHuman
<1>2. /\ journal \in Seq(Records) /\ History(journal) /\ Good(journal)
      /\ mem \in Memories /\ mem.tasks = T
      /\ mem.grants = ReplayGrants(journal) /\ mem.hashes = ReplayHashes(journal)
      /\ told \in Answers /\ Durable(told, journal)
  BY <1>1, IdleFacts
<1>3. now \in 0..MaxNow /\ t \in TaskIds /\ g \in GrantIds
  BY DEF TypeInv, TypeOK, FreshTasks, FreshGrants
<1>4. T \in [TaskIds -> Tasks \cup {None}] /\ None \notin Tasks /\ None \notin TaskIds
  BY <1>2, ReplayParts, ConstantsAssumption
<1>5. T[t] = None
  BY <1>3 DEF FreshTasks, ReplayTasks
<1>6. /\ RootFrom(r) \in Roots \cup {None} /\ SpentFrom(r) \in 0..MaxSpent
      /\ Whole(T, RootFrom(r))
  <2>1. CASE r = None
    BY <2>1, ConstantsAssumption DEF RootFrom, SpentFrom, Whole
  <2>2. CASE r # None
    <3>1. r \in TaskIds /\ T[r] # None /\ Closed(T, r)
      BY <1>2, <2>2 DEF Resumable, Closed
    <3>2. T[r].root \in Roots \cup {None} /\ T[r].spent \in 0..MaxSpent
      BY <1>4, <3>1 DEF Tasks
    <3>3. Whole(T, T[r].root)
      BY <1>2, <3>1 DEF Good
    <3>4. RootFrom(r) = IF T[r].root = None THEN Collapsed(r) ELSE [T[r].root EXCEPT !.collapsed = @ + 1]
      BY <1>2, <2>2 DEF RootFrom
    <3>5. SpentFrom(r) = T[r].spent
      BY <1>2, <2>2 DEF SpentFrom
    <3>6. Whole(T, RootFrom(r))
      BY <3>1, <3>2, <3>3, <3>4, WholeGrows
    <3> QED BY <3>1, <3>2, <3>4, <3>5, <3>6, RootType
  <2> QED BY <2>1, <2>2
<1>7. task \in Tasks /\ task.principal = p /\ task.root = RootFrom(r) /\ task.state = "active" /\ task.spent = SpentFrom(r)
  BY <1>6 DEF Tasks, TaskStates, LiveStates
<1>8. grant \in Grants /\ grant.task = t /\ ~grant.revoked
  BY <1>3, ConstantsAssumption DEF Grants
<1>9. h \in Hashes /\ h # Hash(EmptyStatement)
  BY <1>1, <1>3, <1>5, HashForKept
<1>10. LiveTasks(T, p) = {}
  BY <1>1, <1>2 DEF SlotFree
<1>11. IsLive(task.state)
  BY <1>7 DEF IsLive, LiveStates
<1>12. m \in Memories /\ m.tasks = [mem.tasks EXCEPT ![t] = task]
       /\ m.grants = [mem.grants EXCEPT ![g] = grant] /\ m.hashes = [mem.hashes EXCEPT ![t] = h]
  BY <1>2, <1>3, <1>7, <1>8, <1>9 DEF Memories
<1>13. /\ a \in Answers /\ a.opened = told.opened \cup {t} /\ a.minted = told.minted \cup {g}
       /\ a.closed = told.closed /\ a.spent = [told.spent EXCEPT ![t] = SpentFrom(r)]
  BY <1>2, <1>3, <1>6 DEF Answers
<1> HIDE DEF task, grant, h, m, a
<1>14. Good(K) /\ Before(journal, K)
  BY <1>2, <1>3, <1>5, <1>6, <1>7, <1>9, <1>10, TaskStep
<1>15. /\ K \in Seq(Records) /\ ReplayTasks(K) = [T EXCEPT ![t] = task]
       /\ ReplayHashes(K) = [ReplayHashes(journal) EXCEPT ![t] = h]
       /\ RecordsOf(K, "grant", g) = RecordsOf(journal, "grant", g)
  BY <1>2, <1>3, <1>7, <1>9, ReplayTaskRecord
<1>16. ReplayGrants(K) = ReplayGrants(journal)
  BY <1>2, <1>3, <1>5, <1>7, <1>9, <1>11, TaskGrants
<1>17. ReplayTasks(K)[t] = task /\ task # None
  BY <1>3, <1>4, <1>7, <1>15
<1>18. ~Closed(ReplayTasks(K), t) /\ RecordsOf(K, "grant", g) = {}
  BY <1>11, <1>15, <1>17 DEF Closed, FreshGrants
<1>19. first \in Records /\ second \in Records
  BY <1>3, <1>7, <1>8, <1>9 DEF TaskRecord, GrantRecord, Records
<1> HIDE DEF K
<1>20. Good(L) /\ Before(K, L) /\ ReplayGrants(L) = [ReplayGrants(K) EXCEPT ![g] = grant]
  <2>1. K \in Seq(Records) /\ Good(K) /\ g \in GrantIds /\ grant \in Grants
    BY <1>3, <1>8, <1>14, <1>15
  <2>2. /\ RecordsOf(K, "grant", g) = {} /\ ReplayTasks(K)[grant.task] # None
        /\ ~Closed(ReplayTasks(K), grant.task) /\ ~grant.revoked
    BY <1>8, <1>17, <1>18
  <2> QED BY <2>1, <2>2, GrantStep
<1>21. L \in Seq(Records) /\ ReplayTasks(L) = ReplayTasks(K) /\ ReplayHashes(L) = ReplayHashes(K)
  <2>1. second.kind # "task"
    BY DEF GrantRecord
  <2> QED BY <1>15, <1>19, <2>1, ReplayOtherRecord, AppendProperties
<1>22. K \o <<>> = K /\ K \o <<second>> = L
  BY <1>2, <1>19, OneRecord DEF K
<1> HIDE DEF first, second, T
<1>23. History(K)
  BY <1>2, <1>14, <1>19, HistoryAppend DEF K
<1>24. History(L)
  BY <1>15, <1>19, <1>20, <1>23, HistoryAppend
<1> HIDE DEF L
<1>25. MemIs(m, L)
  BY <1>2, <1>12, <1>15, <1>16, <1>20, <1>21 DEF MemIs
<1>26. Durable(a, L)
  <2>1. Before(journal, L)
    BY <1>2, <1>14, <1>15, <1>20, <1>21, BeforeTrans
  <2>2. Durable(told, L)
    BY <1>2, <1>21, <2>1, DurableBefore
  <2>3. ReplayTasks(L)[t] # None /\ ReplayTasks(L)[t].spent >= SpentFrom(r)
    BY <1>6, <1>7, <1>17, <1>21, ConstantsAssumption
  <2>4. ReplayGrants(L)[g] # None
    <3>1. ReplayGrants(K) \in [GrantIds -> Grants \cup {None}] /\ None \notin Grants
      BY <1>15, ReplayParts, ConstantsAssumption
    <3> QED BY <1>3, <1>8, <1>20, <3>1
  <2>5. \A u \in told.opened : a.spent[u] = IF u = t THEN SpentFrom(r) ELSE told.spent[u]
    BY <1>2, <1>13 DEF Answers
  <2>6. a.spent[t] = SpentFrom(r)
    BY <1>2, <1>3, <1>13 DEF Answers
  <2> QED BY <1>13, <2>2, <2>3, <2>4, <2>5, <2>6 DEF Durable
<1>27. <<second>> \in Seq(Records)
  BY <1>19
<1> QED BY <1>1, <1>12, <1>13, <1>19, <1>22, <1>24, <1>25, <1>26, <1>27, SubmitInv DEF K

(* Revoking nothing, and revoking again, change nothing.                   *)
LEMMA RevokeTwice ==
  ASSUME NEW G \in [GrantIds -> Grants \cup {None}], NEW gs \in SUBSET GrantIds,
         \A g \in gs : G[g] # None
  PROVE  /\ Revoke(G, {}) = G
         /\ Revoke(Revoke(G, gs), gs) = Revoke(G, gs)
<1>1. Revoke(G, {}) = G
  BY DEF Revoke
<1>2. \A g \in GrantIds : Revoke(G, gs)[g] = IF g \in gs THEN Flag(G[g], TRUE) ELSE G[g]
  BY DEF Revoke, Flag
<1>3. \A g \in GrantIds : Revoke(Revoke(G, gs), gs)[g] = IF g \in gs THEN Flag(Revoke(G, gs)[g], TRUE) ELSE Revoke(G, gs)[g]
  BY DEF Revoke, Flag
<1>4. \A g \in gs : G[g] \in Grants
  OBVIOUS
<1>5. \A g \in gs : Flag(Flag(G[g], TRUE), TRUE) = Flag(G[g], TRUE)
  BY <1>4, RevokedTwice
<1>6. \A g \in GrantIds : Revoke(Revoke(G, gs), gs)[g] = Revoke(G, gs)[g]
  BY <1>2, <1>3, <1>5
<1>7. Revoke(Revoke(G, gs), gs) = Revoke(G, gs)
  BY <1>6 DEF Revoke
<1> QED BY <1>1, <1>7

(* apply: the task record, and the revoke record when it closes the task.  *)
LEMMA ApplyInv ==
  ASSUME TypeInv, StoreInv, NEW t \in TaskIds, NEW e \in TaskEvents, Apply(t, e)
  PROVE  StoreInv'
<1>0. PICK s \in Successors(mem.tasks[t].state, e) :
        LET task == [mem.tasks[t] EXCEPT !.state = s]
            gone == IF IsLive(s) THEN {} ELSE LiveGrants(mem.grants, t)
            h    == HashFor(t, mem.statements[t])
        IN  Submit(TaskRecord(t, task, h),
                   IF gone = {} THEN <<>> ELSE <<RevokeRecord(gone)>>,
                   [mem EXCEPT !.tasks[t] = task, !.hashes[t] = h,
                               !.grants = Revoke(@, gone)],
                   IF IsLive(s) THEN told
                   ELSE [told EXCEPT !.closed = @ \cup {t}])
  BY DEF Apply
<1> DEFINE task == [mem.tasks[t] EXCEPT !.state = s]
           gone == IF IsLive(s) THEN {} ELSE LiveGrants(mem.grants, t)
           h    == HashFor(t, mem.statements[t])
           m    == [mem EXCEPT !.tasks[t] = task, !.hashes[t] = h,
                               !.grants = Revoke(@, gone)]
           rest == IF gone = {} THEN <<>> ELSE <<RevokeRecord(gone)>>
           a    == IF IsLive(s) THEN told ELSE [told EXCEPT !.closed = @ \cup {t}]
           T    == ReplayTasks(journal)
           G    == ReplayGrants(journal)
           first == TaskRecord(t, task, h)
           K    == Append(journal, first)
           E    == K \o rest
<1>1. Idle /\ mem.tasks[t] # None /\ Submit(first, rest, m, a)
  BY <1>0 DEF Apply
<1>2. /\ journal \in Seq(Records) /\ History(journal) /\ Good(journal)
      /\ mem \in Memories /\ mem.tasks = T
      /\ mem.grants = G /\ mem.hashes = ReplayHashes(journal)
      /\ told \in Answers /\ Durable(told, journal)
  BY <1>1, IdleFacts
<1>3. /\ T \in [TaskIds -> Tasks \cup {None}] /\ None \notin Tasks /\ None \notin Grants
      /\ G \in [GrantIds -> Grants \cup {None}]
  BY <1>2, ReplayParts, ConstantsAssumption
<1>4. T[t] # None /\ T[t] \in Tasks /\ IsLive(T[t].state) /\ s \in TaskStates
  BY <1>0, <1>1, <1>2, <1>3 DEF Successors, IsLive, LiveStates
<1>5. h \in Hashes /\ h # Hash(EmptyStatement) /\ h = ReplayHashes(journal)[t]
  BY <1>1, <1>4, HashForKept
<1>6. /\ task \in Tasks /\ task.state = s /\ task.principal = T[t].principal
      /\ task.root = T[t].root /\ task.spent = T[t].spent
  BY <1>2, <1>4 DEF Tasks
<1>7. T[t].spent \in Nat /\ ~Closed(T, t)
  BY <1>2, <1>4, SpentInNat DEF Closed
<1>8. gone \in SUBSET GrantIds /\ (\A g \in gone : G[g] # None) /\ (IsLive(s) => gone = {})
      /\ (~IsLive(s) => gone = LiveGrants(G, t))
  BY <1>2 DEF LiveGrants
<1>9. Revoke(G, gone) \in [GrantIds -> Grants \cup {None}]
  <2>1. \A g \in gone : Flag(G[g], TRUE) \in Grants
    <3> SUFFICES ASSUME NEW g \in gone PROVE Flag(G[g], TRUE) \in Grants
      OBVIOUS
    <3>1. g \in GrantIds /\ G[g] # None
      BY <1>8
    <3> HIDE DEF gone, G
    <3>2. G[g] \in Grants
      BY <1>3, <3>1
    <3> QED BY <3>2, SetRevoked
  <2>2. \A g \in GrantIds : Revoke(G, gone)[g] = IF g \in gone THEN Flag(G[g], TRUE) ELSE G[g]
    BY DEF Revoke, Flag
  <2> QED BY <1>3, <2>1, <2>2 DEF Revoke
<1>10. m \in Memories /\ m.tasks = [T EXCEPT ![t] = task]
       /\ m.grants = Revoke(G, gone) /\ m.hashes = [mem.hashes EXCEPT ![t] = h]
  BY <1>2, <1>5, <1>6, <1>9 DEF Memories
<1>11. /\ a \in Answers /\ a.opened = told.opened /\ a.minted = told.minted /\ a.spent = told.spent
       /\ a.closed = IF IsLive(s) THEN told.closed ELSE told.closed \cup {t}
  BY <1>2 DEF Answers
<1>12. rest = IF gone = {} THEN <<>> ELSE <<RevokeRecord(gone)>>
  OBVIOUS
<1> HIDE DEF task, gone, h, m, a, rest
<1>13. Good(K) /\ Before(journal, K)
  BY <1>2, <1>4, <1>5, <1>6, <1>7, TaskStep
<1>14. /\ K \in Seq(Records) /\ ReplayTasks(K) = [T EXCEPT ![t] = task]
       /\ ReplayHashes(K) = [ReplayHashes(journal) EXCEPT ![t] = h]
  BY <1>2, <1>5, <1>6, ReplayTaskRecord
<1>15. ReplayGrants(K) = Revoke(G, gone)
  <2>1. CASE IsLive(s)
    <3>1. ReplayGrants(K) = G
      BY <1>2, <1>4, <1>5, <1>6, <2>1, TaskGrants
    <3>2. Revoke(G, {}) = G
      BY <1>3, RevokeTwice
    <3> QED BY <1>8, <2>1, <3>1, <3>2
  <2>2. CASE ~IsLive(s)
    <3>1. ReplayGrants(K) = Revoke(G, LiveGrants(G, t))
      BY <1>2, <1>4, <1>5, <1>6, <2>2, TaskGrants
    <3> QED BY <1>8, <2>2, <3>1
  <2> QED BY <2>1, <2>2
<1>16. first \in Records /\ RevokeRecord(gone) \in Records
  BY <1>5, <1>6, <1>8 DEF TaskRecord, RevokeRecord, Records
<1> HIDE DEF T, G
<1>17. History(K)
  BY <1>2, <1>13, <1>16, HistoryAppend
<1>18. rest \in Seq(Records)
  BY <1>12, <1>16, EmptySeq
<1>19. /\ K \o <<>> = K
       /\ K \o <<RevokeRecord(gone)>> = Append(K, RevokeRecord(gone))
  BY <1>2, <1>16, OneRecord
<1> HIDE DEF first, K
<1>20. /\ E \in Seq(Records) /\ History(E) /\ Before(journal, E)
       /\ ReplayTasks(E) = ReplayTasks(K) /\ ReplayHashes(E) = ReplayHashes(K)
       /\ ReplayGrants(E) = Revoke(G, gone)
  <2>1. CASE gone = {}
    BY <1>12, <1>13, <1>14, <1>15, <1>17, <1>19, <2>1
  <2>2. CASE gone # {}
    <3> DEFINE r == RevokeRecord(gone)
               L == Append(K, r)
    <3>1. E = L
      BY <1>12, <1>19, <2>2
    <3>2. \A g \in gone : ReplayGrants(K)[g] # None
      BY <1>8, <1>13 DEF Before, G
    <3>3. Good(L) /\ Before(K, L) /\ ReplayGrants(L) = Revoke(ReplayGrants(K), gone)
      BY <1>8, <1>13, <1>14, <3>2, RevokeStep
    <3>4. r \in Records /\ r.kind # "task"
      BY <1>16 DEF RevokeRecord
    <3> HIDE DEF r
    <3>5. ReplayTasks(L) = ReplayTasks(K) /\ ReplayHashes(L) = ReplayHashes(K) /\ L \in Seq(Records)
      BY <1>14, <3>4, ReplayOtherRecord, AppendProperties
    <3>6. History(L)
      BY <1>14, <1>17, <3>3, <3>4, HistoryAppend
    <3> HIDE DEF L
    <3>7. Before(journal, L)
      BY <1>2, <1>13, <1>14, <3>3, <3>5, BeforeTrans
    <3>8. Revoke(Revoke(G, gone), gone) = Revoke(G, gone)
      BY <1>3, <1>8, RevokeTwice
    <3> QED BY <1>15, <3>1, <3>3, <3>5, <3>6, <3>7, <3>8
  <2> QED BY <2>1, <2>2
<1> HIDE DEF E
<1>21. MemIs(m, E)
  BY <1>2, <1>10, <1>14, <1>20 DEF MemIs
<1>22. Durable(a, E)
  <2>1. Durable(told, E)
    BY <1>2, <1>20, DurableBefore
  <2>2. ~IsLive(s) => Closed(ReplayTasks(E), t)
    <3>1. ReplayTasks(E)[t] = task /\ task # None
      BY <1>3, <1>6, <1>14, <1>20
    <3> QED BY <1>6, <3>1 DEF Closed
  <2> QED BY <1>11, <2>1, <2>2 DEF Durable
<1> QED BY <1>1, <1>10, <1>11, <1>16, <1>18, <1>20, <1>21, <1>22, SubmitInv DEF E, K

(* mint_from_prompt: one grant record of the live task.                    *)
LEMMA MintInv ==
  ASSUME TypeInv, StoreInv,
         NEW p \in Principals, NEW g \in FreshGrants, NEW u \in BOOLEAN, MintFromPrompt(p, g, u)
  PROVE  StoreInv'
<1>0. PICK t \in LiveTasks(mem.tasks, p) :
        LET grant == [task |-> t, unattended |-> u, issued |-> now,
                      expires |-> MintExpiry(t, u), revoked |-> FALSE]
        IN  Submit(GrantRecord(g, grant), <<>>, [mem EXCEPT !.grants[g] = grant],
                   [told EXCEPT !.minted = @ \cup {g}])
  BY DEF MintFromPrompt
<1> DEFINE grant == [task |-> t, unattended |-> u, issued |-> now,
                     expires |-> MintExpiry(t, u), revoked |-> FALSE]
           first == GrantRecord(g, grant)
           m     == [mem EXCEPT !.grants[g] = grant]
           a     == [told EXCEPT !.minted = @ \cup {g}]
           K     == Append(journal, first)
           T     == ReplayTasks(journal)
<1>1. Idle /\ Submit(first, <<>>, m, a)
  BY <1>0 DEF MintFromPrompt
<1>2. /\ journal \in Seq(Records) /\ History(journal) /\ Good(journal)
      /\ mem \in Memories /\ mem.tasks = T
      /\ mem.grants = ReplayGrants(journal) /\ mem.hashes = ReplayHashes(journal)
      /\ told \in Answers /\ Durable(told, journal)
  BY <1>1, IdleFacts
<1>3. now \in 0..MaxNow /\ g \in GrantIds /\ RecordsOf(journal, "grant", g) = {}
  BY DEF TypeInv, TypeOK, FreshGrants
<1>4. t \in TaskIds /\ T[t] # None /\ IsLive(T[t].state) /\ mem.tasks[t] \in Tasks
  BY <1>2 DEF LiveTasks, Memories
<1>5. grant \in Grants /\ grant.task = t /\ ~grant.revoked
  <2>1. MintExpiry(t, u) \in Nat
    BY <1>3, <1>4, ConstantsAssumption DEF MintExpiry, Tasks
  <2> QED BY <1>3, <1>4, <2>1 DEF Grants
<1>6. m \in Memories /\ m.tasks = mem.tasks /\ m.hashes = mem.hashes /\ m.grants = [mem.grants EXCEPT ![g] = grant]
  BY <1>2, <1>3, <1>5 DEF Memories
<1>7. /\ a \in Answers /\ a.opened = told.opened /\ a.closed = told.closed /\ a.spent = told.spent
      /\ a.minted = told.minted \cup {g}
  BY <1>2, <1>3 DEF Answers
<1> HIDE DEF grant, m, a
<1>8. ~Closed(T, grant.task) /\ T[grant.task] # None
  BY <1>4, <1>5 DEF Closed
<1>9. Good(K) /\ Before(journal, K) /\ ReplayGrants(K) = [ReplayGrants(journal) EXCEPT ![g] = grant]
  BY <1>2, <1>3, <1>5, <1>8, GrantStep
<1>10. first \in Records /\ first.kind # "task"
  BY <1>3, <1>5 DEF GrantRecord, Records
<1> HIDE DEF first, T
<1>11. K \in Seq(Records) /\ ReplayTasks(K) = T /\ ReplayHashes(K) = ReplayHashes(journal)
  BY <1>2, <1>10, ReplayOtherRecord, AppendProperties DEF T
<1>12. History(K)
  BY <1>2, <1>9, <1>10, HistoryAppend
<1> HIDE DEF K
<1>13. MemIs(m, K)
  BY <1>2, <1>6, <1>9, <1>11 DEF MemIs
<1>14. Durable(a, K)
  <2>1. Durable(told, K)
    BY <1>2, <1>9, <1>11, DurableBefore
  <2>2. ReplayGrants(K)[g] # None
    <3>1. ReplayGrants(journal) \in [GrantIds -> Grants \cup {None}] /\ None \notin Grants
      BY <1>2, ReplayParts, ConstantsAssumption
    <3> QED BY <1>3, <1>5, <1>9, <3>1
  <2> QED BY <1>7, <2>1, <2>2 DEF Durable
<1>15. K \o <<>> = K
  BY <1>11, ConcatEmptySeq
<1> QED BY <1>1, <1>6, <1>7, <1>10, <1>12, <1>13, <1>14, <1>15, EmptySeq, SubmitInv DEF K

(* update_counters: one task record that counts up.                        *)
LEMMA UpdateCountersInv ==
  ASSUME TypeInv, StoreInv, NEW t \in TaskIds, UpdateCounters(t)
  PROVE  StoreInv'
<1> DEFINE task  == [mem.tasks[t] EXCEPT !.spent = @ + 1]
           h     == HashFor(t, mem.statements[t])
           first == TaskRecord(t, task, h)
           m     == [mem EXCEPT !.tasks[t] = task, !.hashes[t] = h]
           a     == [told EXCEPT !.spent[t] = task.spent]
           K     == Append(journal, first)
           T     == ReplayTasks(journal)
<1>1. Idle /\ mem.tasks[t] # None /\ mem.tasks[t].spent < MaxSpent /\ Submit(first, <<>>, m, a)
  BY DEF UpdateCounters
<1>2. /\ journal \in Seq(Records) /\ History(journal) /\ Good(journal)
      /\ mem \in Memories /\ mem.tasks = T
      /\ mem.grants = ReplayGrants(journal) /\ mem.hashes = ReplayHashes(journal)
      /\ told \in Answers /\ Durable(told, journal)
  BY <1>1, IdleFacts
<1>3. T \in [TaskIds -> Tasks \cup {None}] /\ None \notin Tasks
  BY <1>2, ReplayParts, ConstantsAssumption
<1>4. T[t] # None /\ T[t] \in Tasks /\ T[t].spent \in 0..MaxSpent /\ T[t].spent < MaxSpent
  BY <1>1, <1>2, <1>3 DEF Tasks
<1>5. h \in Hashes /\ h # Hash(EmptyStatement) /\ h = ReplayHashes(journal)[t]
  BY <1>1, <1>4, HashForKept
<1>6. /\ task \in Tasks /\ task.state = T[t].state /\ task.principal = T[t].principal
      /\ task.root = T[t].root /\ task.spent = T[t].spent + 1
      /\ T[t].spent <= task.spent /\ task.spent \in 0..MaxSpent
  BY SMTT(30), <1>2, <1>4, ConstantsAssumption DEF Tasks
<1>7. m \in Memories /\ m.tasks = [T EXCEPT ![t] = task] /\ m.grants = mem.grants
      /\ m.hashes = [mem.hashes EXCEPT ![t] = h]
  BY <1>2, <1>5, <1>6 DEF Memories
<1>8. /\ a \in Answers /\ a.opened = told.opened /\ a.minted = told.minted /\ a.closed = told.closed
      /\ \A u \in TaskIds : a.spent[u] = IF u = t THEN task.spent ELSE told.spent[u]
  BY <1>2, <1>6 DEF Answers
<1> HIDE DEF task, h, m, a
<1>9. Good(K) /\ Before(journal, K)
  BY <1>2, <1>4, <1>5, <1>6, TaskStep
<1>10. /\ K \in Seq(Records) /\ ReplayTasks(K) = [T EXCEPT ![t] = task]
       /\ ReplayHashes(K) = [ReplayHashes(journal) EXCEPT ![t] = h]
  BY <1>2, <1>5, <1>6, ReplayTaskRecord
<1>11. ReplayGrants(K) = ReplayGrants(journal)
  BY <1>2, <1>4, <1>5, <1>6, TaskGrants
<1>12. first \in Records
  BY <1>5, <1>6 DEF TaskRecord, Records
<1> HIDE DEF first, T
<1>13. History(K)
  BY <1>2, <1>9, <1>12, HistoryAppend
<1> HIDE DEF K
<1>14. MemIs(m, K)
  BY <1>2, <1>7, <1>10, <1>11 DEF MemIs
<1>15. Durable(a, K)
  <2>1. Durable(told, K)
    BY <1>2, <1>9, <1>10, DurableBefore
  <2>2. ReplayTasks(K)[t] = task
    BY <1>3, <1>10
  <2>3. told.opened \subseteq TaskIds /\ task.spent >= task.spent
    BY <1>2, <1>6, ConstantsAssumption DEF Answers
  <2> QED BY <1>8, <2>1, <2>2, <2>3 DEF Durable
<1>16. K \o <<>> = K
  BY <1>10, ConcatEmptySeq
<1> QED BY <1>1, <1>7, <1>8, <1>12, <1>13, <1>14, <1>15, <1>16, EmptySeq, SubmitInv DEF K

(* Every handler.                                                          *)
LEMMA HandlerInv ==
  ASSUME TypeInv, StoreInv, Handler
  PROVE  StoreInv'
<1>1. ASSUME NEW p \in Principals, NEW t \in FreshTasks, NEW g \in FreshGrants,
             NEW s \in Statements, NEW d \in Deadlines,
             NEW r \in Resumable \cup {None}, OpenForHuman(p, t, g, s, d, r)
      PROVE  StoreInv'
  BY <1>1, OpenForHumanInv
<1>2. ASSUME NEW t \in TaskIds, NEW e \in TaskEvents, Apply(t, e)
      PROVE  StoreInv'
  BY <1>2, ApplyInv
<1>3. ASSUME NEW p \in Principals, CancelPrincipal(p)
      PROVE  StoreInv'
  BY <1>3, ApplyInv DEF CancelPrincipal, LiveTasks, TaskEvents
<1>4. ASSUME NEW p \in Principals, NEW g \in FreshGrants, NEW u \in BOOLEAN,
             MintFromPrompt(p, g, u)
      PROVE  StoreInv'
  BY <1>4, MintInv
<1>5. ASSUME NEW t \in TaskIds, UpdateCounters(t)
      PROVE  StoreInv'
  BY <1>5, UpdateCountersInv
<1> QED BY <1>1, <1>2, <1>3, <1>4, <1>5 DEF Handler

-----------------------------------------------------------------------------
(* The journal's steps, death, power loss and restart.                     *)

(* What is written so far is a cut of what will be.                        *)
LEMMA EndingIs ==
  ASSUME TypeInv, History(Ending)
  PROVE  /\ journal \in Seq(Records) /\ Len(journal) \in Nat /\ synced \in 0..Len(journal)
         /\ Ending \in Seq(Records) /\ Len(Ending) \in Nat /\ Len(journal) <= Len(Ending)
         /\ \A n \in 0..Len(journal) : n \in 0..Len(Ending) /\ Upto(Ending, n) = Upto(journal, n)
         /\ Upto(Ending, Len(journal)) = journal
         /\ History(journal)
<1>1. journal \in Seq(Records) /\ Len(journal) \in Nat /\ synced \in 0..Len(journal)
  BY LenProperties DEF TypeInv, TypeOK
<1>2. Ending \in Seq(Records) /\ Len(Ending) \in Nat /\ Len(journal) <= Len(Ending)
      /\ \A i \in 1..Len(journal) : Ending[i] = journal[i]
  <2>1. CASE op = None
    BY <1>1, <2>1 DEF Ending
  <2>2. CASE op # None
    <3>1. op.todo \in Seq(Records)
      BY <2>2 DEF TypeInv, TypeOK, Pending
    <3>2. /\ journal \o op.todo \in Seq(Records)
          /\ Len(journal \o op.todo) = Len(journal) + Len(op.todo)
          /\ \A i \in 1..(Len(journal) + Len(op.todo)) :
               (journal \o op.todo)[i] = IF i <= Len(journal) THEN journal[i] ELSE op.todo[i - Len(journal)]
      BY <1>1, <3>1, ConcatProperties
    <3>3. Len(op.todo) \in Nat
      BY <3>1, LenProperties
    <3>4. \A i \in 1..Len(journal) : i <= Len(journal) /\ i \in 1..(Len(journal) + Len(op.todo))
      BY <1>1, <3>3
    <3> QED BY <1>1, <2>2, <3>2, <3>3, <3>4 DEF Ending
  <2> QED BY <2>1, <2>2
<1>3. ASSUME NEW n \in 0..Len(journal)
      PROVE  n \in 0..Len(Ending) /\ Upto(Ending, n) = Upto(journal, n)
  <2>1. n \in 0..Len(Ending)
    BY <1>1, <1>2
  <2>2. /\ Upto(Ending, n) \in Seq(Records) /\ Len(Upto(Ending, n)) = n
        /\ \A i \in 1..n : Upto(Ending, n)[i] = Ending[i]
    BY <1>2, <2>1, UptoIs
  <2>3. /\ Upto(journal, n) \in Seq(Records) /\ Len(Upto(journal, n)) = n
        /\ \A i \in 1..n : Upto(journal, n)[i] = journal[i]
    BY <1>1, UptoIs
  <2>4. \A i \in 1..n : Upto(Ending, n)[i] = Upto(journal, n)[i]
    BY <1>1, <1>2, <2>2, <2>3
  <2> QED BY <2>1, <2>2, <2>3, <2>4, SeqEqual
<1>4. Len(journal) \in 0..Len(journal) /\ Upto(journal, Len(journal)) = journal
  BY <1>1, UptoSelf
<1>5. Upto(Ending, Len(journal)) = journal /\ Len(journal) \in 0..Len(Ending)
  BY <1>3, <1>4
<1>6. History(Upto(Ending, Len(journal)))
  BY <1>2, <1>5, HistoryUpto
<1> QED BY <1>1, <1>2, <1>3, <1>5, <1>6

(* The invariant of the next state, part by part.                          *)
LEMMA InvNext ==
  ASSUME History(Ending'), NEW n \in 0..Len(journal'), MemIs(mem', Upto(journal', n)),
         ~up' => op' = None /\ mem' = NoMem,
         up' /\ op' = None => MemIs(mem', journal'),
         op' # None => MemIs(op'.mem, Ending') /\ Durable(op'.told, Ending'),
         Durable(told', Upto(journal', synced'))
  PROVE  StoreInv'
<1>1. History(Ending)'
  BY DEF History, Upto
<1>2. (\E k \in 0..Len(journal) : MemIs(mem, Upto(journal, k)))'
  BY DEF MemIs, Upto
<1>3. (op # None => MemIs(op.mem, Ending) /\ Durable(op.told, Ending))'
  BY DEF MemIs, Durable
<1>4. (Idle => MemIs(mem, journal))'
  BY DEF Idle, MemIs
<1>5. Durable(told, Upto(journal, synced))'
  BY DEF Durable, Upto
<1> QED BY <1>1, <1>2, <1>3, <1>4, <1>5 DEF StoreInv

(* An empty journal rebuilds an empty memory, and a restart the replay.    *)
LEMMA ReplayNothing ==
  ASSUME NEW J \in Seq(Records)
  PROVE  /\ MemIs(NoMem, Upto(J, 0)) /\ 0 \in 0..Len(J)
         /\ MemIs(Replay(J), J)
<1>1. Len(J) \in Nat /\ 0 \in 0..Len(J)
  BY LenProperties
<1>2. Upto(J, 0) \in Seq(Records) /\ Len(Upto(J, 0)) = 0
  BY <1>1, UptoIs
<1>3. Upto(J, 0) = <<>>
  BY <1>2, EmptySeq
<1> QED BY <1>1, <1>3 DEF NoMem, Replay, MemIs

(* Syncing a record, the last one included, and appending the next.        *)
LEMMA JournalStepInv ==
  ASSUME TypeInv, StoreInv, Sync \/ AppendNext
  PROVE  StoreInv'
<1>1. PICK n \in 0..Len(journal) : MemIs(mem, Upto(journal, n))
  BY DEF StoreInv
<1>2. /\ History(Ending) /\ up /\ op # None
      /\ MemIs(op.mem, Ending) /\ Durable(op.told, Ending)
      /\ Durable(told, Upto(journal, synced))
  BY DEF StoreInv, Sync, AppendNext
<1>3. /\ journal \in Seq(Records) /\ Len(journal) \in Nat /\ synced \in 0..Len(journal)
      /\ Len(journal) \in 0..Len(journal) /\ Upto(journal, Len(journal)) = journal
      /\ History(journal)
  <2>1. /\ journal \in Seq(Records) /\ Len(journal) \in Nat /\ synced \in 0..Len(journal)
        /\ History(journal)
    BY <1>2, EndingIs
  <2> QED BY <2>1, UptoSelf
<1>4. told \in Answers /\ op \in Pending /\ op.todo \in Seq(Records)
  BY <1>2 DEF TypeInv, TypeOK, Pending
<1>5. Ending = journal \o op.todo
  BY <1>2 DEF Ending
<1>6. CASE Sync /\ op.todo = <<>>
  <2>1. /\ mem' = op.mem /\ told' = op.told /\ op' = None /\ synced' = Len(journal)
        /\ journal' = journal /\ up' = up
    BY <1>6 DEF Sync, Finish
  <2>2. Ending = journal /\ Ending' = journal
    BY <1>3, <1>5, <1>6, <2>1, ConcatEmptySeq DEF Ending
  <2>3. History(Ending') /\ MemIs(mem', Upto(journal', Len(journal))) /\ MemIs(mem', journal')
        /\ Durable(told', Upto(journal', synced'))
    BY <1>2, <1>3, <2>1, <2>2
  <2> QED BY <1>2, <1>3, <2>1, <2>3, InvNext
<1>7. CASE Sync /\ op.todo # <<>>
  <2>1. mem' = mem /\ told' = told /\ op' = op /\ synced' = Len(journal) /\ journal' = journal /\ up' = up
    BY <1>7 DEF Sync
  <2>2. Ending' = Ending
    BY <2>1 DEF Ending
  <2>3. Durable(told, journal)
    BY <1>2, <1>3, <1>4, HistoryParts, DurableBefore
  <2> QED BY <1>1, <1>2, <1>3, <2>1, <2>2, <2>3, InvNext
<1>8. CASE AppendNext
  <2> DEFINE r == Head(op.todo)
  <2>1. /\ op.todo # <<>> /\ synced = Len(journal) /\ synced' = synced /\ journal' = Append(journal, r)
        /\ op' = [op EXCEPT !.todo = Tail(op.todo)] /\ mem' = mem /\ told' = told /\ up' = up
    BY <1>8 DEF AppendNext
  <2>2. r \in Records /\ Tail(op.todo) \in Seq(Records)
    BY <1>4, <2>1, HeadTailProperties
  <2>3. op' \in Pending /\ op'.todo = Tail(op.todo) /\ op'.mem = op.mem /\ op'.told = op.told
    BY <1>4, <2>1, <2>2 DEF Pending
  <2>4. op' # None
    BY <2>3, PendingAssumption
  <2>5. <<r>> \o Tail(op.todo) = op.todo
    <3>1. /\ Len(op.todo) \in Nat /\ Len(Tail(op.todo)) = Len(op.todo) - 1 /\ Len(op.todo) # 0
          /\ \A i \in 1..Len(Tail(op.todo)) : Tail(op.todo)[i] = op.todo[i + 1]
      BY <1>4, <2>1, LenProperties, HeadTailProperties, EmptySeq
    <3>2. <<r>> \in Seq(Records) /\ Len(<<r>>) = 1 /\ <<r>>[1] = op.todo[1]
      BY <1>4, <2>1, <2>2
    <3>3. /\ <<r>> \o Tail(op.todo) \in Seq(Records)
          /\ Len(<<r>> \o Tail(op.todo)) = 1 + Len(Tail(op.todo))
          /\ \A i \in 1..(1 + Len(Tail(op.todo))) :
               (<<r>> \o Tail(op.todo))[i] = IF i <= 1 THEN <<r>>[i] ELSE Tail(op.todo)[i - 1]
      BY <2>2, <3>2, ConcatProperties
    <3>4. \A i \in 1..Len(op.todo) : (<<r>> \o Tail(op.todo))[i] = op.todo[i]
      <4> SUFFICES ASSUME NEW i \in 1..Len(op.todo)
                   PROVE  (<<r>> \o Tail(op.todo))[i] = op.todo[i]
        OBVIOUS
      <4> HIDE DEF r
      <4>1. i \in 1..(1 + Len(Tail(op.todo)))
        BY <3>1
      <4>2. CASE i = 1
        BY <3>2, <3>3, <4>1, <4>2
      <4>3. CASE i # 1
        <5>1. i - 1 \in 1..Len(Tail(op.todo)) /\ (i - 1) + 1 = i /\ ~(i <= 1)
          BY <3>1, <4>3
        <5> QED BY <3>1, <3>3, <4>1, <5>1
      <4> QED BY <4>2, <4>3
    <3> QED BY <1>4, <3>1, <3>3, <3>4, SeqEqual
  <2>6. Append(journal, r) \o Tail(op.todo) = journal \o op.todo
    <3>1. <<r>> \in Seq(Records) /\ Append(journal, r) = journal \o <<r>>
      BY <1>3, <2>2, AppendIsConcat
    <3> HIDE DEF r
    <3>2. \A u, v \in Seq(Records) : (journal \o u) \o v = journal \o (u \o v)
      <4> SUFFICES ASSUME NEW u \in Seq(Records), NEW v \in Seq(Records)
                   PROVE  (journal \o u) \o v = journal \o (u \o v)
        OBVIOUS
      <4> QED BY SMTT(30), <1>3, ConcatAssociative
    <3>3. (journal \o <<r>>) \o Tail(op.todo) = journal \o (<<r>> \o Tail(op.todo))
      BY <2>2, <3>1, <3>2, Zenon
    <3> QED BY <2>5, <3>1, <3>3, Zenon
  <2>7. Ending' = Ending
    BY <1>5, <2>1, <2>3, <2>4, <2>6 DEF Ending
  <2> HIDE DEF r
  <2>8. /\ Len(journal') = Len(journal) + 1
        /\ Upto(journal', n) = Upto(journal, n) /\ Upto(journal', synced) = Upto(journal, synced)
    BY <1>3, <2>1, <2>2, UptoAppend
  <2>9. n \in 0..Len(journal')
    BY <1>3, <2>8
  <2>10. MemIs(mem', Upto(journal', n)) /\ Durable(told', Upto(journal', synced'))
    BY <1>1, <1>2, <2>1, <2>8
  <2>11. History(Ending') /\ MemIs(op'.mem, Ending') /\ Durable(op'.told, Ending')
    BY <1>2, <2>3, <2>7
  <2>12. up'
    BY <1>2, <2>1
  <2> QED BY <2>4, <2>9, <2>10, <2>11, <2>12, InvNext
<1> QED BY <1>6, <1>7, <1>8

(* Death and power loss cut the history; a restart replays what is left.   *)
LEMMA RestartInv ==
  ASSUME TypeInv, StoreInv, ProcessDies \/ PowerLoss \/ Open
  PROVE  StoreInv'
<1>1. History(Ending) /\ Durable(told, Upto(journal, synced)) /\ (~up => op = None /\ mem = NoMem)
  BY DEF StoreInv
<1>2. /\ journal \in Seq(Records) /\ Len(journal) \in Nat /\ synced \in 0..Len(journal)
      /\ History(journal) /\ told \in Answers
  <2>1. told \in Answers
    BY DEF TypeInv, TypeOK
  <2> QED BY <1>1, <2>1, EndingIs
<1>3. CASE ProcessDies
  <2>1. up' = FALSE /\ mem' = NoMem /\ op' = None /\ journal' = journal /\ synced' = synced /\ told' = told
    BY <1>3 DEF ProcessDies
  <2>2. Ending' = journal
    BY <2>1 DEF Ending
  <2>3. 0 \in 0..Len(journal') /\ MemIs(mem', Upto(journal', 0))
    BY <1>2, <2>1, ReplayNothing
  <2> QED BY <1>1, <1>2, <2>1, <2>2, <2>3, InvNext
<1>4. CASE PowerLoss
  <2>1. PICK n \in synced..Len(journal) : journal' = Prefix(n) /\ synced' = n
    BY <1>4 DEF PowerLoss
  <2>2. up' = FALSE /\ mem' = NoMem /\ op' = None /\ told' = told
    BY <1>4 DEF PowerLoss
  <2>3. n \in 0..Len(journal) /\ synced \in 0..n /\ n \in Nat /\ n \in 0..n
    BY <1>2, <2>1
  <2>4. journal' = Upto(journal, n) /\ journal' \in Seq(Records) /\ Len(journal') = n
    <3>1. journal' = Upto(journal, n)
      BY <2>1 DEF Prefix, Upto
    <3> QED BY <1>2, <2>3, <3>1, UptoIs
  <2>5. Ending' = journal' /\ History(journal')
    <3>1. Ending' = journal'
      BY <2>2 DEF Ending
    <3>2. History(Upto(journal, n))
      BY <1>2, <2>3, HistoryUpto
    <3> QED BY <2>4, <3>1, <3>2
  <2>6. Durable(told, Upto(journal, n))
    <3>1. Before(Upto(journal, synced), Upto(journal, n))
      BY <1>2, <2>3 DEF History
    <3>2. Upto(journal, synced) \in Seq(Records) /\ Upto(journal, n) \in Seq(Records)
      BY <1>2, <2>3, UptoIs
    <3> QED BY <1>1, <1>2, <3>1, <3>2, DurableBefore
  <2>7. Upto(journal', synced') = Upto(journal, n)
    BY <1>2, <2>1, <2>3, <2>4, UptoUpto
  <2>8. 0 \in 0..Len(journal') /\ MemIs(mem', Upto(journal', 0))
    BY <2>2, <2>4, ReplayNothing
  <2>9. Durable(told', Upto(journal', synced')) /\ History(Ending')
    BY <2>2, <2>5, <2>6, <2>7
  <2> QED BY <2>2, <2>8, <2>9, InvNext
<1>5. CASE Open
  <2>1. /\ up' = TRUE /\ mem' = Replay(journal) /\ op = None /\ op' = None
        /\ journal' = journal /\ synced' = synced /\ told' = told
    BY <1>1, <1>5 DEF Open
  <2>2. Ending' = journal
    BY <2>1 DEF Ending
  <2>3. MemIs(mem', journal')
    BY <1>2, <2>1, ReplayNothing
  <2>4. Len(journal) \in 0..Len(journal') /\ MemIs(mem', Upto(journal', Len(journal)))
    BY <1>2, <2>1, <2>3, UptoSelf
  <2> QED BY <1>1, <1>2, <2>1, <2>2, <2>3, <2>4, InvNext
<1> QED BY <1>3, <1>4, <1>5

(* Every step keeps the invariant.                                         *)
LEMMA StepInv ==
  ASSUME TypeInv, StoreInv, [Next]_vars
  PROVE  StoreInv'
<1>1. CASE UNCHANGED <<journal, synced, up, mem, op, told>>
  <2>1. PICK n \in 0..Len(journal) : MemIs(mem, Upto(journal, n))
    BY DEF StoreInv
  <2>2. Ending' = Ending
    BY <1>1 DEF Ending
  <2>3. /\ History(Ending) /\ Durable(told, Upto(journal, synced))
        /\ ~up => op = None /\ mem = NoMem
        /\ up /\ op = None => MemIs(mem, journal)
        /\ op # None => MemIs(op.mem, Ending) /\ Durable(op.told, Ending)
    BY DEF StoreInv, Idle
  <2>4. n \in 0..Len(journal') /\ MemIs(mem', Upto(journal', n))
    BY <1>1, <2>1
  <2> QED BY <1>1, <2>2, <2>3, <2>4, InvNext
<1>2. CASE Tick
  BY <1>1, <1>2 DEF Tick
<1>3. CASE UNCHANGED vars
  BY <1>1, <1>3 DEF vars
<1> QED BY <1>2, <1>3, HandlerInv, JournalStepInv, RestartInv DEF Next

(* The empty store satisfies it.                                           *)
LEMMA InitInv ==
  ASSUME Init
  PROVE  StoreInv
<1>1. journal = <<>> /\ <<>> \in Seq(Records) /\ Len(journal) = 0 /\ DOMAIN journal = {}
  BY EmptySeq DEF Init
<1>2. \A k, x : RecordsOf(journal, k, x) = {}
  BY <1>1 DEF RecordsOf
<1>3. /\ \A t \in TaskIds : ReplayTasks(journal)[t] = None
      /\ \A g \in GrantIds : ReplayGrants(journal)[g] = None
      /\ RevokedIn(journal) = {}
  BY <1>1, <1>2 DEF ReplayTasks, ReplayGrants, RevokedIn
<1>4. Good(journal)
  BY <1>1, <1>3 DEF Good, LiveTasks
<1>5. Upto(journal, 0) = journal /\ 0 \in 0..Len(journal)
  <2>1. Upto(journal, Len(journal)) = journal
    BY <1>1, UptoSelf
  <2> QED BY <1>1, <2>1
<1>6. Before(journal, journal)
  BY <1>1, BeforeSelf
<1>7. History(journal)
  <2>1. \A n \in 0..Len(journal) : n = 0
    BY <1>1
  <2>2. \A n \in 0..Len(journal) : \A k \in 0..n : k = 0
    BY <1>1
  <2> QED BY <1>4, <1>5, <1>6, <2>1, <2>2 DEF History
<1>8. MemIs(mem, Upto(journal, 0))
  BY <1>1, <1>5, ReplayNothing DEF Init
<1>9. Ending = journal /\ op = None /\ ~up /\ mem = NoMem /\ synced = 0
  BY DEF Init, Ending
<1>10. Durable(told, journal)
  BY DEF Init, Durable
<1> QED BY <1>5, <1>7, <1>8, <1>9, <1>10 DEF StoreInv, Idle

-----------------------------------------------------------------------------
(* What the invariant says of every journal a restart may find.            *)

(* Whatever a power loss leaves is good and keeps every promise.           *)
LEMMA RecoverableIs ==
  ASSUME TypeInv, StoreInv, NEW j \in Recoverable
  PROVE  j \in Seq(Records) /\ Good(j) /\ Durable(told, j)
<1>1. History(Ending) /\ Durable(told, Upto(journal, synced)) /\ told \in Answers
  BY DEF StoreInv, TypeInv, TypeOK
<1>2. /\ journal \in Seq(Records) /\ Len(journal) \in Nat /\ synced \in 0..Len(journal) /\ History(journal)
  BY <1>1, EndingIs
<1>3. PICK n \in synced..Len(journal) : j = Upto(journal, n)
  BY DEF Recoverable, Prefix, Upto
<1>4. n \in 0..Len(journal) /\ synced \in 0..n
  BY <1>2, <1>3
<1>5. Good(Upto(journal, n)) /\ Before(Upto(journal, synced), Upto(journal, n))
  BY <1>2, <1>4 DEF History
<1>6. Upto(journal, synced) \in Seq(Records) /\ Upto(journal, n) \in Seq(Records)
  BY <1>2, <1>4, UptoIs
<1>7. Durable(told, Upto(journal, n))
  BY <1>1, <1>5, <1>6, DurableBefore
<1> QED BY <1>3, <1>5, <1>6, <1>7

(* The memory in force is that of a good cut, and what the handler in      *)
(* progress is heading for only adds to it.                                *)
LEMMA MemoryIs ==
  ASSUME TypeInv, StoreInv
  PROVE  \E n \in 0..Len(journal) :
           /\ Upto(journal, n) \in Seq(Records) /\ Good(Upto(journal, n)) /\ MemIs(mem, Upto(journal, n))
           /\ Ending \in Seq(Records) /\ Before(Upto(journal, n), Ending)
<1>1. History(Ending)
  BY DEF StoreInv
<1>2. PICK n \in 0..Len(journal) : MemIs(mem, Upto(journal, n))
  BY DEF StoreInv
<1>3. /\ Ending \in Seq(Records) /\ n \in 0..Len(Ending) /\ Upto(Ending, n) = Upto(journal, n)
  BY <1>1, EndingIs
<1>4. Upto(Ending, n) \in Seq(Records) /\ Good(Upto(Ending, n)) /\ Before(Upto(Ending, n), Ending)
  BY <1>1, <1>3, HistoryParts
<1> QED BY <1>2, <1>3, <1>4

(* A good journal revives no grant of a closed or unknown task.            *)
LEMMA NoAuthority ==
  ASSUME NEW j \in Seq(Records), Good(j), NEW g \in GrantIds,
         ReplayGrants(j)[g] # None, ~ReplayGrants(j)[g].revoked
  PROVE  /\ ReplayTasks(j)[ReplayGrants(j)[g].task] # None
         /\ IsLive(ReplayTasks(j)[ReplayGrants(j)[g].task].state)
<1>1. ReplayTasks(j)[ReplayGrants(j)[g].task] # None
  BY DEF Good
<1>2. ReplayGrants(j)[g].task = GrantIn(j, g).task /\ ReplayGrants(j)[g].revoked = Gone(j, g)
  BY GrantIs
<1> QED BY <1>1, <1>2 DEF Gone, Closed

(* The invariant with the types it rests on.                               *)
StoreInductive == TypeInv /\ StoreInv

(* It holds in every reachable state.                                      *)
LEMMA Inductive == Spec => []StoreInductive
<1>1. Init => StoreInductive
  BY InitType, InitInv DEF StoreInductive
<1>2. StoreInductive /\ [Next]_vars => StoreInductive'
  BY StepType, StepInv DEF StoreInductive
<1> QED BY <1>1, <1>2, PTL DEF Spec

(* Between two handlers the daemon's memory is exactly what a restart      *)
(* would rebuild: open_for_human, apply, mint_from_prompt and              *)
(* update_counters change memory by what they journalled and by nothing    *)
(* else.                                                                   *)
THEOREM MemoryMatches == Spec => []MemoryIsReplay
<1>1. StoreInductive => MemoryIsReplay
  BY DEF StoreInductive, StoreInv, MemIs, MemoryIsReplay
<1> QED BY <1>1, Inductive, PTL

(* A principal never has two live tasks, in memory or in anything a crash  *)
(* may leave (TaskError::AlreadyLive), however often the daemon restarts.  *)
THEOREM OneLive == Spec => []OneLiveTask
<1>1. ASSUME TypeInv, StoreInv PROVE OneLiveTask
  <2> SUFFICES ASSUME NEW tasks \in {mem.tasks} \cup { ReplayTasks(j) : j \in Recoverable }
               PROVE  \A p \in Principals : \A a, b \in LiveTasks(tasks, p) : a = b
    BY DEF OneLiveTask
  <2>1. \E j \in Seq(Records) : Good(j) /\ tasks = ReplayTasks(j)
    <3>1. CASE tasks = mem.tasks
      BY <1>1, <3>1, MemoryIs DEF MemIs
    <3>2. CASE tasks \in { ReplayTasks(j) : j \in Recoverable }
      BY <1>1, <3>2, RecoverableIs
    <3> QED BY <3>1, <3>2
  <2> QED BY <2>1 DEF Good
<1> QED BY <1>1, Inductive, PTL DEF StoreInductive

(* No unrevoked grant outlives its task, in memory or after a crash        *)
(* between the task record that closes it and the revoke record that       *)
(* follows (revoke_for_task, TaskStore::open).                             *)
THEOREM NoStrayAuthority == Spec => []NoAuthorityWithoutTask
<1>1. ASSUME TypeInv, StoreInv PROVE NoAuthorityWithoutTask
  <2> SUFFICES ASSUME NEW m \in {mem} \cup { Replay(j) : j \in Recoverable },
                      NEW g \in GrantIds, m.grants[g] # None, ~m.grants[g].revoked
               PROVE  /\ m.tasks[m.grants[g].task] # None
                      /\ IsLive(m.tasks[m.grants[g].task].state)
    BY DEF NoAuthorityWithoutTask
  <2>1. \E j \in Seq(Records) : Good(j) /\ m.tasks = ReplayTasks(j) /\ m.grants = ReplayGrants(j)
    <3>1. CASE m = mem
      BY <1>1, <3>1, MemoryIs DEF MemIs
    <3>2. CASE m \in { Replay(j) : j \in Recoverable }
      BY <1>1, <3>2, RecoverableIs DEF Replay
    <3> QED BY <3>1, <3>2
  <2> QED BY <2>1, NoAuthority
<1> QED BY <1>1, Inductive, PTL DEF StoreInductive

(* Journal before answer: whatever handler answered a caller, the task,    *)
(* the closing, the grant and the counters it spoke of survive every later *)
(* power loss.                                                             *)
THEOREM AnswersSurvive == Spec => []AnswersAreDurable
<1>1. ASSUME TypeInv, StoreInv PROVE AnswersAreDurable
  BY <1>1, RecoverableIs DEF AnswersAreDurable, Durable, Replay
<1> QED BY <1>1, Inductive, PTL DEF StoreInductive

(* Every record of a task names the hash of the statement first committed  *)
(* (TaskStore::journal keeps it when the statement is forgotten).          *)
THEOREM HashesAreKept == Spec => []HashIsOriginal
<1>1. ASSUME TypeInv, StoreInv PROVE HashIsOriginal
  <2>1. journal \in Seq(Records) /\ History(journal)
    BY <1>1, EndingIs DEF StoreInv
  <2>2. Good(journal)
    BY <2>1, HistoryParts
  <2> QED BY <2>2 DEF Good, HashIsOriginal
<1> QED BY <1>1, Inductive, PTL DEF StoreInductive

(* The chain a task resumed is whole, from its closed first task on,       *)
(* through one closed task for each resumption (open_task_from).           *)
THEOREM ChainsHaveRoots == Spec => []ChainsEndAtTheirRoot
<1>1. ASSUME TypeInv, StoreInv PROVE ChainsEndAtTheirRoot
  <2>1. \E j \in Seq(Records) : Good(j) /\ mem.tasks = ReplayTasks(j)
    BY <1>1, MemoryIs DEF MemIs
  <2> QED BY <2>1 DEF Good, ChainsEndAtTheirRoot
<1> QED BY <1>1, Inductive, PTL DEF StoreInductive

(* No step of a running daemon reopens a task it has reported closed, or   *)
(* changes the reason it closed for.                                       *)
THEOREM ClosedStaysClosed == Spec => ClosedIsTerminal
<1> DEFINE A == \A t \in TaskIds :
                  Closed(mem.tasks, t) /\ up' /\ t \in told.closed =>
                    mem'.tasks[t] # None /\ mem'.tasks[t].state = mem.tasks[t].state
<1>1. ASSUME TypeInv, StoreInv, Next PROVE A
  <2>1. CASE mem' = mem
    BY <2>1 DEF Closed
  <2>2. CASE Sync
    <3>1. CASE op.todo = <<>>
      <4>1. mem' = op.mem /\ MemIs(op.mem, Ending)
        BY <1>1, <2>2, <3>1 DEF Sync, Finish, StoreInv
      <4>2. PICK n \in 0..Len(journal) : MemIs(mem, Upto(journal, n)) /\ Before(Upto(journal, n), Ending)
        BY <1>1, MemoryIs
      <4> QED BY <4>1, <4>2 DEF MemIs, Before, Closed
    <3> QED BY <2>1, <2>2, <3>1 DEF Sync
  <2>3. CASE Open
    <3>1. mem = NoMem
      BY <1>1, <2>3 DEF Open, StoreInv
    <3>2. \A t \in TaskIds : mem.tasks[t] = None
      BY <3>1 DEF NoMem, Replay, ReplayTasks, RecordsOf
    <3> QED BY <3>2 DEF Closed
  <2>4. CASE Handler
    <3>1. \A first, rest, m, a : Submit(first, rest, m, a) => mem' = mem
      BY DEF Submit
    <3>2. \A p, t, g, s, d, r : OpenForHuman(p, t, g, s, d, r) => mem' = mem
      BY <3>1 DEF OpenForHuman
    <3>3. \A t, e : Apply(t, e) => mem' = mem
      BY <3>1 DEF Apply
    <3>4. \A p, g, u : MintFromPrompt(p, g, u) => mem' = mem
      BY <3>1 DEF MintFromPrompt
    <3>5. \A t : UpdateCounters(t) => mem' = mem
      BY <3>1 DEF UpdateCounters
    <3>6. mem' = mem
      BY <2>4, <3>2, <3>3, <3>4, <3>5 DEF Handler, CancelPrincipal
    <3> QED BY <2>1, <3>6
  <2> QED BY <1>1, <2>1, <2>2, <2>3, <2>4 DEF Next, AppendNext, ProcessDies, PowerLoss, Tick
<1>2. StoreInductive /\ [Next]_vars => [A]_vars
  BY <1>1 DEF StoreInductive
<1> QED BY <1>2, Inductive, PTL DEF Spec, ClosedIsTerminal
=============================================================================
