------------------------------ MODULE TaskStore ------------------------------
(***************************************************************************)
(* policyd's task store and grant ledger (ec-policyd, tasks.rs) over an    *)
(* append-only journal.                                                    *)
(*                                                                         *)
(* One thread owns the store.  A handler appends its records one by one,   *)
(* syncs after each of them, changes memory and only then answers; a       *)
(* journal error ends the process.  The process may die and the machine    *)
(* may lose power between any two of those steps.  A process that dies     *)
(* leaves everything it wrote in the file; a power loss may drop any       *)
(* suffix of what was not synced.  AuditStore models the files under it,   *)
(* which keep this as long as no seal is left unfinished (Journal).        *)
(***************************************************************************)
EXTENDS TaskLifecycle, Integers, Sequences, FiniteSets

CONSTANTS
  Principals,     \* who tasks are opened for
  TaskIds,        \* the fresh ULIDs a run may draw for tasks
  GrantIds,       \* the fresh ULIDs a run may draw for grants
  Statements,     \* statements a human commits; never the empty string
  EmptyStatement, \* what a replayed task has instead of its statement
  UnattendedMax,  \* UNATTENDED_MAX_MS, in ticks
  Deadlines,      \* deadlines a human commits to, absolute
  MaxNow,         \* bound on the wall clock
  MaxSpent,       \* bound on a counter
  MaxJournal,     \* bound on the number of records
  None            \* "no such task, grant, hash or chain root"

(* The BLAKE3 of a statement: injective, and distinct from the statement.  *)
Hash(s) == [hashOf |-> s]
Hashes  == { Hash(s) : s \in Statements \cup {EmptyStatement} }

(* chain_root of a resumed task: the first task of its chain, behind as    *)
(* many "collapsed:" as there were resumptions.                            *)
Roots == [of : TaskIds, collapsed : Nat \ {0}]

(* A journalled task (task_body).  `spent` stands for the counter block.   *)
Tasks == [principal : Principals, state : TaskStates, deadline : Deadlines,
          root : Roots \cup {None}, spent : 0..MaxSpent]

Grants == [task : TaskIds, expires : Nat, unattended : BOOLEAN,
           issued : 0..MaxNow, revoked : BOOLEAN]

ASSUME ConstantsAssumption ==
  /\ MaxNow \in Nat /\ MaxSpent \in Nat /\ MaxJournal \in Nat
  /\ UnattendedMax \in Nat /\ Deadlines \subseteq Nat
  /\ EmptyStatement \notin Statements
  /\ None \notin Tasks \cup Grants \cup Hashes \cup TaskIds \cup Roots \cup Statements
  /\ None # EmptyStatement

VARIABLES
  journal,  \* every record written, in chain order
  synced,   \* how many of them would survive a power loss
  up,       \* whether the daemon is running
  mem,      \* the TaskStore in memory
  op,       \* the handler in progress, or None
  now,      \* the wall clock
  told      \* history: what callers were answered (read by properties only)

vars == <<journal, synced, up, mem, op, now, told>>

-----------------------------------------------------------------------------
(* The records, and what replaying them rebuilds (TaskStore::open).        *)

Records ==
  [kind : {"task"}, id : TaskIds, task : Tasks, hash : Hashes]
    \cup [kind : {"grant"}, id : GrantIds, grant : Grants]
    \cup [kind : {"revoke"}, grants : SUBSET GrantIds]

TaskRecord(t, task, hash) ==
  [kind |-> "task", id |-> t, task |-> task, hash |-> hash]
GrantRecord(g, grant)     == [kind |-> "grant", id |-> g, grant |-> grant]
RevokeRecord(gs)          == [kind |-> "revoke", grants |-> gs]

RecordsOf(j, k, x) == { i \in DOMAIN j : j[i].kind = k /\ j[i].id = x }
Latest(S)          == CHOOSE i \in S : \A k \in S : k <= i
RevokedIn(j)       ==
  UNION { j[i].grants : i \in { k \in DOMAIN j : j[k].kind = "revoke" } }

(* A later task record replaces an earlier one of the same id.             *)
ReplayTasks(j) ==
  [ t \in TaskIds |->
      LET S == RecordsOf(j, "task", t)
      IN  IF S = {} THEN None ELSE j[Latest(S)].task ]

ReplayHashes(j) ==
  [ t \in TaskIds |->
      LET S == RecordsOf(j, "task", t)
      IN  IF S = {} THEN None ELSE j[Latest(S)].hash ]

Closed(tasks, t) == tasks[t] # None /\ ~IsLive(tasks[t].state)

ReplayGrants_OnlyRevoked(j) ==
  [ g \in GrantIds |->
      LET S == RecordsOf(j, "grant", g)
          r == j[Latest(S)].grant
      IN  IF S = {} THEN None ELSE [r EXCEPT !.revoked = g \in RevokedIn(j)] ]

(* A closed task's grants are revoked with or without a revoke record.     *)
ReplayGrants(j) ==
  [ g \in GrantIds |->
      LET S == RecordsOf(j, "grant", g)
          r == j[Latest(S)].grant
      IN  IF S = {} THEN None
          ELSE [r EXCEPT !.revoked =
                  Closed(ReplayTasks(j), r.task) \/ g \in RevokedIn(j)] ]

(* Statements are not journalled, only their hashes (ADR 0048).            *)
Replay(j) ==
  [tasks |-> ReplayTasks(j), grants |-> ReplayGrants(j),
   hashes |-> ReplayHashes(j),
   statements |-> [t \in TaskIds |->
     IF ReplayTasks(j)[t] = None THEN None ELSE EmptyStatement]]

Prefix(n) == SubSeq(journal, 1, n)
NoMem     == Replay(<<>>)

-----------------------------------------------------------------------------
(* A handler: its records, the memory it leaves, and the answer it gives.  *)

Idle == up /\ op = None

Submit(first, rest, m, t) ==
  /\ Len(journal) + 1 + Len(rest) <= MaxJournal
  /\ journal' = Append(journal, first)
  /\ op' = [todo |-> rest, mem |-> m, told |-> t]
  /\ UNCHANGED <<synced, up, mem, now, told>>

HashFor_Recomputed(t, statement) == Hash(statement)
(* TaskStore::journal: the hash is remembered, not recomputed, because a   *)
(* replayed task has no statement to compute it from.                      *)
HashFor(t, statement) ==
  IF mem.hashes[t] # None THEN mem.hashes[t] ELSE Hash(statement)

(* live_task: the principal's live task, if any.                           *)
LiveTasks(tasks, p) ==
  { t \in TaskIds : tasks[t] # None /\ tasks[t].principal = p
                    /\ IsLive(tasks[t].state) }

LiveGrants(grants, t) ==
  { g \in GrantIds : grants[g] # None /\ grants[g].task = t
                     /\ ~grants[g].revoked }

FreshTasks  == { t \in TaskIds : RecordsOf(journal, "task", t) = {} }
FreshGrants == { g \in GrantIds : RecordsOf(journal, "grant", g) = {} }

(* The principal's one live slot, and what may be resumed (Dispatch::create *)
(* looks again: the task must still be known and closed).                  *)
SlotFree_OnlyActive(p) ==
  \A t \in LiveTasks(mem.tasks, p) : mem.tasks[t].state # "active"
SlotFree(p) == LiveTasks(mem.tasks, p) = {}

Resumable       == { t \in TaskIds : Closed(mem.tasks, t) }

(* What a task resuming `r` inherits (open_task_from).                     *)
Collapsed(t) == [of |-> t, collapsed |-> 1]
RootFrom_Last(r) == IF r = None THEN None ELSE Collapsed(r)
RootFrom(r) ==
  IF r = None THEN None
  ELSE IF mem.tasks[r].root = None THEN Collapsed(r)
       ELSE [mem.tasks[r].root EXCEPT !.collapsed = @ + 1]
SpentFrom(r) == IF r = None THEN 0 ELSE mem.tasks[r].spent

(* open_for_human, for Dispatch::create: a task, then its first grant.     *)
OpenForHuman(p, t, g, s, d, r) ==
  LET task  == [principal |-> p, state |-> "active", deadline |-> d,
                root |-> RootFrom(r), spent |-> SpentFrom(r)]
      grant == [task |-> t, expires |-> d, unattended |-> FALSE,
                issued |-> now, revoked |-> FALSE]
  IN  /\ Idle
      /\ d > now
      /\ SlotFree(p)
      /\ Submit(TaskRecord(t, task, HashFor(t, s)), <<GrantRecord(g, grant)>>,
                [mem EXCEPT !.tasks[t] = task, !.grants[g] = grant,
                            !.hashes[t] = HashFor(t, s), !.statements[t] = s],
                [told EXCEPT !.opened = @ \cup {t}, !.minted = @ \cup {g},
                             !.spent[t] = SpentFrom(r)])

(* revoke_for_task, in memory.                                             *)
Revoke_Forgotten(grants, gs) == grants
Revoke(grants, gs) ==
  [ g \in GrantIds |->
      IF g \in gs THEN [grants[g] EXCEPT !.revoked = TRUE] ELSE grants[g] ]

(* apply: the state change, and when it closes the task one revoke record  *)
(* naming every live grant of it.                                          *)
Apply(t, e) ==
  /\ Idle
  /\ mem.tasks[t] # None
  /\ \E s \in Successors(mem.tasks[t].state, e) :
       LET task == [mem.tasks[t] EXCEPT !.state = s]
           gone == IF IsLive(s) THEN {} ELSE LiveGrants(mem.grants, t)
           h    == HashFor(t, mem.statements[t])
       IN  Submit(TaskRecord(t, task, h),
                  IF gone = {} THEN <<>> ELSE <<RevokeRecord(gone)>>,
                  [mem EXCEPT !.tasks[t] = task, !.hashes[t] = h,
                              !.grants = Revoke(@, gone)],
                  IF IsLive(s) THEN told
                  ELSE [told EXCEPT !.closed = @ \cup {t}])

(* cancel_principal, for the compositor's Revoke and Terminate.            *)
CancelPrincipal(p) == \E t \in LiveTasks(mem.tasks, p) : Apply(t, "cancel")

(* "For this task" expires with it; "unattended" after its window, or with *)
(* the task if that is sooner.                                             *)
MintExpiry(t, unattended) ==
  IF unattended /\ now + UnattendedMax < mem.tasks[t].deadline
  THEN now + UnattendedMax
  ELSE mem.tasks[t].deadline

(* mint_from_prompt through issue_grant.                                   *)
MintFromPrompt(p, g, unattended) ==
  /\ Idle
  /\ \E t \in LiveTasks(mem.tasks, p) :
       LET grant == [task |-> t, unattended |-> unattended, issued |-> now,
                     expires |-> MintExpiry(t, unattended), revoked |-> FALSE]
       IN  /\ AcceptsActing(mem.tasks[t].state)
           /\ Submit(GrantRecord(g, grant), <<>>,
                     [mem EXCEPT !.grants[g] = grant],
                     [told EXCEPT !.minted = @ \cup {g}])

(* update_counters; every counter only moves up.                           *)
UpdateCounters(t) ==
  /\ Idle
  /\ mem.tasks[t] # None
  /\ mem.tasks[t].spent < MaxSpent
  /\ LET task == [mem.tasks[t] EXCEPT !.spent = @ + 1]
         h    == HashFor(t, mem.statements[t])
     IN  Submit(TaskRecord(t, task, h), <<>>,
                [mem EXCEPT !.tasks[t] = task, !.hashes[t] = h],
                [told EXCEPT !.spent[t] = task.spent])

-----------------------------------------------------------------------------
(* The journal under a handler, and what may befall the process.           *)

(* The handler changes memory and answers.                                 *)
Finish == mem' = op.mem /\ told' = op.told /\ op' = None

Sync_NotForced ==
  /\ up /\ op # None
  /\ synced < Len(journal)
  /\ op.todo = <<>> /\ Finish
  /\ UNCHANGED <<synced, journal, up, now>>

(* Store::sync, in journal(), issue_grant and revoke_for_task.  After the  *)
(* last record memory changes and the caller is answered.                  *)
Sync ==
  /\ up /\ op # None
  /\ synced < Len(journal)
  /\ synced' = Len(journal)
  /\ IF op.todo = <<>>
     THEN Finish
     ELSE UNCHANGED <<mem, told, op>>
  /\ UNCHANGED <<journal, up, now>>

AppendNext ==
  /\ up /\ op # None
  /\ synced = Len(journal)
  /\ op.todo # <<>>
  /\ journal' = Append(journal, Head(op.todo))
  /\ op' = [op EXCEPT !.todo = Tail(@)]
  /\ UNCHANGED <<synced, up, mem, now, told>>

(* The process ends: killed, or because an append or a sync failed.        *)
ProcessDies ==
  /\ up
  /\ up' = FALSE /\ mem' = NoMem /\ op' = None
  /\ UNCHANGED <<journal, synced, now, told>>

(* The machine loses power: any suffix that was not synced may be gone.    *)
PowerLoss ==
  /\ up' = FALSE /\ mem' = NoMem /\ op' = None
  /\ \E n \in synced..Len(journal) : journal' = Prefix(n) /\ synced' = n
  /\ UNCHANGED <<now, told>>

(* TaskStore::open.  Store::open does not sync what it replays.            *)
Open ==
  /\ ~up
  /\ up' = TRUE /\ mem' = Replay(journal)
  /\ UNCHANGED <<journal, synced, op, now, told>>

Tick ==
  /\ now < MaxNow
  /\ now' = now + 1
  /\ UNCHANGED <<journal, synced, up, mem, op, told>>

Init ==
  /\ journal = <<>> /\ synced = 0
  /\ up = FALSE /\ mem = NoMem /\ op = None
  /\ now = 0
  /\ told = [opened |-> {}, closed |-> {}, minted |-> {},
             spent |-> [t \in TaskIds |-> 0]]

Handler ==
  \/ \E p \in Principals, t \in FreshTasks, g \in FreshGrants, s \in Statements,
        d \in Deadlines, r \in Resumable \cup {None} :
       OpenForHuman(p, t, g, s, d, r)
  \/ \E t \in TaskIds, e \in TaskEvents \ {"deadline"} : Apply(t, e)
  \/ \E p \in Principals : CancelPrincipal(p)
  \/ \E p \in Principals, g \in FreshGrants, u \in BOOLEAN :
       MintFromPrompt(p, g, u)
  \/ \E t \in TaskIds : UpdateCounters(t)

Next == Handler \/ Sync \/ AppendNext \/ ProcessDies \/ PowerLoss \/ Open \/ Tick

Spec == Init /\ [][Next]_vars

-----------------------------------------------------------------------------
(* Properties.  A recoverable journal is one a power loss may leave.       *)

Recoverable == { Prefix(n) : n \in synced..Len(journal) }

Memories ==
  [tasks : [TaskIds -> Tasks \cup {None}],
   grants : [GrantIds -> Grants \cup {None}],
   hashes : [TaskIds -> Hashes \cup {None}],
   statements : [TaskIds -> Statements \cup {EmptyStatement, None}]]

Answers ==
  [opened : SUBSET TaskIds, closed : SUBSET TaskIds,
   minted : SUBSET GrantIds, spent : [TaskIds -> 0..MaxSpent]]

(* A handler in progress is never mistaken for none.                       *)
Pending == [todo : Seq(Records), mem : Memories, told : Answers]

ASSUME PendingAssumption == None \notin Pending

(* Every variable holds what its comment says it does.                     *)
TypeOK ==
  /\ journal \in Seq(Records) /\ synced \in 0..Len(journal)
  /\ up \in BOOLEAN /\ now \in 0..MaxNow
  /\ mem \in Memories /\ told \in Answers
  /\ op \in Pending \cup {None}

(* What the daemon believes between two handlers is exactly what a restart *)
(* would rebuild: no handler leaves memory ahead of, or behind, its records *)
(* (tasks.rs: "the in-memory task is a cache of it").                      *)
MemoryIsReplay ==
  Idle => /\ mem.tasks = ReplayTasks(journal)
          /\ mem.grants = ReplayGrants(journal)
          /\ mem.hashes = ReplayHashes(journal)

(* A principal never has two live tasks, in memory or after any crash      *)
(* (A-04 section 2, TaskError::AlreadyLive).                               *)
OneLiveTask ==
  \A tasks \in {mem.tasks} \cup { ReplayTasks(j) : j \in Recoverable } :
    \A p \in Principals : \A a, b \in LiveTasks(tasks, p) : a = b

(* No grant outlives its task: in memory and after a crash at any point of *)
(* a close, the half-written one included, an unrevoked grant names a task *)
(* that is known and live (S-01 section 4).                                *)
NoAuthorityWithoutTask ==
  \A m \in {mem} \cup { Replay(j) : j \in Recoverable } :
    \A g \in GrantIds :
      m.grants[g] # None /\ ~m.grants[g].revoked =>
        /\ m.tasks[m.grants[g].task] # None
        /\ IsLive(m.tasks[m.grants[g].task].state)

(* Journal before answer: what a caller was told by the handler that did   *)
(* it survives a power loss at any later point, and so do the counters of  *)
(* a task and of the closed task it resumes (A-04 section 6).              *)
AnswersAreDurable ==
  \A j \in Recoverable :
    LET m == Replay(j)
    IN  /\ \A t \in told.opened : m.tasks[t] # None
        /\ \A t \in told.closed : Closed(m.tasks, t)
        /\ \A g \in told.minted : m.grants[g] # None
        /\ \A t \in told.opened : m.tasks[t].spent >= told.spent[t]

(* Every record of a task names the hash of the statement the human        *)
(* committed, also those written after a restart forgot the statement      *)
(* (ADR 0048); resume_ok compares against it.                              *)
HashIsOriginal ==
  \A i, k \in DOMAIN journal :
    journal[i].kind = "task" /\ journal[k].kind = "task"
      /\ journal[i].id = journal[k].id =>
        /\ journal[i].hash = journal[k].hash
        /\ journal[i].hash # Hash(EmptyStatement)

(* The chain behind a root: its first task, and one task for each time it  *)
(* was resumed before; all of them closed.                                 *)
LinkOf(tasks, root, k) ==
  \E u \in TaskIds :
    /\ Closed(tasks, u)
    /\ IF k = 0 THEN u = root.of /\ tasks[u].root = None
       ELSE tasks[u].root = [root EXCEPT !.collapsed = k]
Whole(tasks, root) ==
  root # None => \A k \in 0..(root.collapsed - 1) : LinkOf(tasks, root, k)

(* A resumed task's chain is whole, however often it was resumed and       *)
(* whatever restart came between: its root names the first task and counts *)
(* every link, none of them unknown, live or of another chain.             *)
ChainsEndAtTheirRoot ==
  \A t \in TaskIds : mem.tasks[t] # None => Whole(mem.tasks, mem.tasks[t].root)

(* A task the daemon reported closed stays closed, with the reason it      *)
(* closed for, as long as the daemon runs; AnswersAreDurable is what a     *)
(* restart keeps of it.                                                    *)
ClosedIsTerminal ==
  [][ \A t \in TaskIds :
        Closed(mem.tasks, t) /\ up' /\ t \in told.closed =>
          mem'.tasks[t] # None /\ mem'.tasks[t].state = mem.tasks[t].state ]_vars

(* open_for_human: "Either both happen or neither does" -- a task the      *)
(* daemon knows between two handlers has a grant.                          *)
OpensWithItsGrant ==
  Idle => \A t \in TaskIds :
            mem.tasks[t] # None =>
              \E g \in GrantIds : mem.grants[g] # None /\ mem.grants[g].task = t

(* A task past its deadline is eventually closed (A-04 section 4 draws     *)
(* deadline -> closed{expired}).                                           *)
DeadlineCloses ==
  \A t \in TaskIds :
    (up /\ mem.tasks[t] # None /\ mem.tasks[t].deadline <= now)
      ~> (~up \/ Closed(mem.tasks, t))

(* The daemon's own steps: it finishes what it is writing and time passes. *)
FairSpec == Spec /\ WF_vars(Sync) /\ WF_vars(AppendNext) /\ WF_vars(Tick)
=============================================================================
