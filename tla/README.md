# A TLA+ model of EclipseOS

EclipseOS runs software agents on a desktop under a policy. A small trusted part
decides what agents may do: `policyd` owns tasks, grants, installs and the audit
journal; `abyss`, the Wayland compositor, draws what the human agrees to and
checks every request an agent makes; `agentd` runs the agents. They are Rust
daemons under `src/abyss/crates/`, each with one thread that owns its state,
joined by Unix sockets. This directory models that part, from the code.

`PROJECT.json` lists the components with their files, the runs, the mutants, the
source lines of every definition, the hazards, the findings and the theorems.

## 1. The system

### Components, their state and operations

| Component (crate) | State | Operations |
|---|---|---|
| task store, `ec-policyd/tasks.rs`, `ec-policy-eval/task.rs` | tasks with state, deadline, counters, chain root; grants; statement hashes; all rebuilt from the journal | open for a human's commit, apply an event, cancel a principal, mint from a prompt, count, open (replay) |
| audit store, `ec-policyd/audit.rs` | the open segment, sealed segments, chain head, time of the last sync | append, sync, rotate, replay, repair, quarantine |
| dispatch, `ec-policyd/dispatch.rs` | install records (files), pending reviews and previews (memory), who paused what (memory) | install begin and answer, preview, create, pause, unpause, cancel, exited |
| policyd main, `ec-policyd/main.rs` | connections, the compiled table and its version | route messages, push the table, recompile, terminate |
| agentd core, `ec-agentd/core.rs`, `link.rs` | its view of each task (memory and disk), agent processes, console requests that wait, what it still has to report | provision, task state, done/refused, link up/down, process exit, console pause/cancel, tick |
| agentd conversations | turns, inference calls, session records | infer, say, observe, retention |
| commit slots, `ec-abyss/trusted_ui/commit.rs`, `slot.rs`, `protocols/protected` | a slot's drafts, its card: preview, request numbers, arming timer | set draft, flush, cancel, sample, Enter, modal answer, preview/created/refused |
| policy link, `ec-abyss/policy/link.rs`, `table.rs` | the connection, the redial timer, the key pinned for the session, the live table | dial, retry, read an offer or a table, close, switch the add-on |
| enforcement, `ec-abyss/policy` | live grants, requests that wait for a prompt or for policyd, batches, paused agents | check, defer, prompt, mint, batch, pause, revoke, terminate |
| trusted UI, `ec-abyss/trusted_ui` | one modal queue for approval, consent, install, polkit, broker cards | open, answer, time out |
| compositor audit, `ec-abyss/audit` | queue of records with a gap marker | record, drain, overflow |
| broker, `ec-brokerd` | sealed secrets, lock state, approvals that wait | unlock, get, put, replace file |
| inference, `ec-inferenced` | one slot per task with its process and lock, threads of requests | complete, close, reap |
| shell, rendering, configuration, installer, desktop programs, agents | no authority in the agent system | |

### How they interact

* compositor -> policyd over `policyd.sock`: previews, creates, install reviews,
  prompt answers, panel revocations, audit records. policyd -> compositor: the
  signed table, answers, revocations. A request carries a number; an answer is
  matched to a card by it (`by_req`), and an answer nobody waits for is dropped.
* agentd -> policyd on the same kind of link: pause, cancel, exited.
  policyd -> agentd: provision, task state, done, refused.
* Neither link resynchronises. `route` (main.rs:301-323) drops what cannot be
  sent, and a new connection is given the key offer and, the compositor's, the
  table; nothing else is repeated.
* policyd journals before it answers: `journal` appends and syncs, then memory
  changes, then the caller is told. Any journal error ends the process
  and systemd starts it again.

### What is hard

* crash and power loss between any two writes of a handler, a rotation or an
  open, and what the next process makes of what is left;
* answers that arrive after the card, the draft, the install or the table they
  belong to has changed; a human pressing Enter between any two of those;
* messages dropped or cut by a broken link, a daemon that forgets its memory
  while the other keeps its own, agents that end by themselves meanwhile;
* something that must happen in the end: a deadline closes a task, an agent
  of a closed task stops, a waiting console is answered, the store comes up again.

### What makes each part correct

| Component | Properties |
|---|---|
| task store | memory is what replay rebuilds; answers survive power loss; one live task per principal; no authority without a live task; closed is terminal; hashes are the original ones and resumption chains whole; a task opens with its grant; grants are bounded |
| audit store | one append-only log that loses no synced record; the next record continues it; reading the files finds it; after any crash the store opens again |
| commit slots and dispatch | what was shown is what is submitted; it was shown for the arming delay; a card shows its own draft; no card waits in vain; a task gets only what is installed; the commit's record names what was committed |
| agentd and policyd | views agree when everything arrived; agents belong to open tasks; every exit closes its task, every close stops its agent; requests are answered |
| policy link | one key per session; what policyd pushed last is enforced; the timer and the connection exclude each other; the link comes back |
| enforcement | an act that runs is allowed and covered as it runs; a request is answered once; nothing waits for an agent that is gone; a remembered revocation holds; an approved target is acted on once |
| trusted UI | one modal, and its owner knows it; every ask is in one place; what is shown is answered |
| compositor audit | records in order, each accounted for; none lost; a request let in has its record out; the queue drains |
| inference | no process escapes the end of its slot; a closed slot's process is dead; empty slots are given up; every request is answered |
| broker (planned) | a replaced store file is the old or the new one; a secret in the store is one the journal knows |

## 2. Modules

| Module | Models | Of |
|---|---|---|
| `TaskLifecycle` | the task state machine as a function from state and event to successors | `task.rs` |
| `TaskStore` | task store and grants over a journal, with crashes | `tasks.rs` |
| `Journal` | the promise of the audit store: a log that only grows at its end and keeps what is on disk, with what an unfinished seal may undo | abstract |
| `AuditStore` | segments, sync, rotation, replay; implements `Journal` | `audit.rs` |
| `AgentLink` | a task in policyd and agentd over a lossy link | `dispatch.rs`, `main.rs`, `core.rs`, `link.rs` |
| `Dispatch` | install, preview, create in policyd | `dispatch.rs`, `main.rs` |
| `CommitSlot` | `Dispatch` composed with the compositor's commit cards and the link between them | `commit.rs`, `slot.rs`, `protected/mod.rs`, `policy/link.rs` |
| `PolicyLink` | how the compositor comes by its key and table, and policyd's pushes | `policy/link.rs`, `policy/table.rs`, policyd `main.rs` |
| `Enforcement` | an agent's acting requests from admission to answer, with all that changes meanwhile | `policy/enforce.rs`, `mod.rs`, `lifecycle.rs`, `batch.rs`, `protocols/agent` |
| `TrustedPrompts` | the one modal and the owners that queue for it | `trusted_ui/` |
| `AuditEntries` | what stands in the compositor's audit queue, and what is promised of it | `audit/mod.rs` |
| `AuditQueue` | the compositor's records on their way to policyd | `audit/mod.rs` |
| `InferSessions` | warm sessions of the inference router under its threads | `claude_code.rs`, `server.rs` |
| `MC*` | the instances TLC checks | |
| `*_proofs` | theorems of `TaskStore`, `AuditStore` and `AuditQueue` (`Audit_proofs`), `CommitSlot`, `PolicyLink`, `AgentLink`, `Enforcement`, `InferSessions`, `TrustedPrompts` | |

`TaskLifecycle` is extended by `TaskStore` and `AgentLink`; `Dispatch` by
`CommitSlot`; `AuditEntries` by `AuditQueue`. A name with an underscore such as `Revoke_Forgotten` is a faulty
version of the definition before the underscore; no specification uses it, and
it shows that a property notices the fault.

### TaskStore

`mem` is the `TaskStore` in memory, `journal` the records in chain order,
`synced` how many a power loss must leave. One action starts a handler: it
checks its guards, appends its first record and puts the remaining records, the
new memory and the answer in `op`. `Sync` and `AppendNext` are the rest of the
handler; only the last sync changes memory and answers, as `journal` and
`issue_grant` do. `ProcessDies` keeps the whole file, `PowerLoss` any prefix
past `synced`; both forget `op` and `mem`. `Open` replays, and like
`Store::open` does not sync what it replayed. `told` is a history variable of
what callers were answered.

`Apply` takes every event but `deadline`, since no caller in policyd raises it.
`OpenForHuman` carries `Dispatch::create`'s second look at the resumed task.
Counters are one number that only grows, budgets and taint are left out. A chain
root is the first task and the number of `collapsed:` prefixes before it, one for
each resumption (tasks.rs:401-406); `Whole` says that every link it counts exists.

`synced` is what a power loss must leave. `AuditStore` implements that, as
`Journal`, only as long as no seal is left unfinished; the run and proofs of
`TaskStore` take it for granted.

### AuditStore and Journal

A record is its sequence number, its predecessor's hash and its own, a
fresh number (hashes are taken to be injective). The open segment is `current`,
its whole frames, with `torn` for a partial frame behind them. `pc` is the step
`rotate` is at: sync and create, fill and fsync, truncate, anchor. A crash may
fall before each. `Start` is an open that succeeds, repairing a torn tail;
`Quarantine` is one that cuts a broken segment and fails.

`rotate` writes a sealed file in place under its final name (audit.rs:476-482), so
a file is "open" while `rotate` is at it, then "whole", or "part" when a crash
left less; an empty one does not decompress and is a part too. A process that dies leaves the file it
was writing whole or a part, and not fsynced (`durable`); a power loss leaves each such
file whole, a part or absent, one by one. What was fsynced is taken to be on disk under its name, though
the directory is not fsynced. The date (`NewDate`) goes forward and back.

`ImplementsJournal` is the refinement. `log` is the chain of the records that any
readable file has, and `durable` how many of its first records are on disk. A rotation
is then a stutter or a sync, and a crash loses a suffix that is not on disk. One case
breaks what a journal promises: a process dies when a sealed file is written and not
fsynced, the next open trusts it and quarantines the synced copy in the open
segment. `unfinished` says there is such a file, and `Journal` lets `durable` sink
then and only then (`Unsync`). `SyncedIsKept` is the promise without that exception.

`ChainContinues` and `ImplementsJournal` hold for every crash and date. How the files
are read by name (`Files`) is apart: `ReplayFindsLog` says that it finds the log
when the dates are in the order of sealing, and `ComesBack` that an open succeeds
unless a crash has taken a seal (`SealLost`) or the dates are out of order. Both
exceptions are real: `SealedIsFinished` and `NamesSortSegments` (section 3).

### AgentLink

`task` and `byHuman` are policyd's (the second dies with the process), `view`,
`running`, `leftover`, `pending`, `asked`, `link` are agentd's, and the queues
`toPolicyd` and `toAgentd` the connection numbered `conn`. A connection that
ends keeps any prefix of what agentd has not read, followed by "down"; messages
sent afterwards are dropped. `LinkBreaks`, `PolicydRestarts` and
`AgentdRestarts` end it. `Sends` gives the core's view: a dead
connection accepts messages until the core notices. One task is enough: every
handler reads and writes the state of the one task it names, and the loops over
tasks (link up, restart) treat each alike. An agent dies with agentd
(`bwrap --die-with-parent`, launcher.rs:115). docs/KNOWNBUGS.md:552 and
ec-agentd.service:16 say that agent scopes outlive agentd; the model follows the launcher,
and no property that passes depends on it.

### Dispatch and CommitSlot

`disk` is the manifest in each package directory, which changes under the daemon
between handlers and between the two reads of `install_begin` (dispatch.rs:200
and 204). The directory's path fixes the package id (manifest.rs:189-198).
`installs` survive a restart, `reviews` and `previews` do not. A table is only
its `version`; a failed compile after a restart leaves none (`compiled`). The
hash of a manifest is its contents, that of a draft the draft.

`card` joins a slot's draft, its card and its arming timer. Every handler ends
in `Sampled`, as `tick` and `sample` do: conditions are compared with those at
the last sample, and a change restarts the timer. `read` is a history field:
ticks since this preview has been on the card. Time is counted up to `ArmMs`,
and a frame is taken to come more often than a tick. `presses` and
`audited` are history: what was committed and shown, and what the compositor's
audit says of it. A message dropped when policyd dies is lost from the front of
the socket, what the compositor queued behind it goes out on the next
connection. No card learns that the link went down (link.rs:288), and none does
here.

Left out: draft lengths, dates, accounts and the agent being absent are one
nondeterministic refusal; continuations (they grant nothing);
`task_unpause` slots; destroying a slot. The compositor starts connected and
with a table, and the packages were installed by an earlier run of policyd.

### PolicyLink

Both ends of `policyd.sock`. A table is its version, a time in milliseconds, and
the key that signed it; `NextVersion` is policyd's choice of the next. `conn` is
the connection as the compositor has it: in policyd's backlog, held, or with
policyd gone from its end; `toAbyss` what is in its socket. The compositor's
state outlives policyd's deaths, `pushed` does not. `back` remembers whether the
clock was ever set back: then a version may stay above what policyd pushes, and
`PushedIsEnforced` promises no more than "nothing older". That the peer runs in
the right unit as the right user is taken for granted.

### Enforcement

`reqs` holds every request with where it waits: behind a prompt ("parked"), with
policyd ("deferred"), with policyd after a prompt that mints ("dropped" is one
whose agent was gone). A request keeps the window it resolved to and, of its
prompt, the class it showed. What happens between two steps of a request is a
*move*: a pause, a revocation, a termination, a class or generation changing, a
table, a grant expiring, the link going, policyd opening or closing a task.
`MaxMoves` bounds moves, so that the interesting orders are reached and the rest
is not multiplied.

Simplified: one principal; a table gives an outcome per kind of act, so the rule
that matches is a choice; the table is live from the start; a refused
request keeps nothing; policyd does not restart (`PolicyLink` does that); the
first agent object, grant and task are there without counting as moves.

### TrustedPrompts

Handlers run one at a time on the compositor's loop and call one another, so `ui`
is one record and every function of the code an operator from record to record.
The state of the modal is kept twice in the code: by `trusted_ui/mod.rs` (here
`seat`) and by each owner (`showing`, `batchUp`, `installUp`, `brokerUp`, ...), and
`SeatAndOwnersAgree` relates the two. `timers` are the timers that nobody
cancels: each fires later and answers the prompt with its token.

Simplified: one call to brokerd at a time; a password's second try is a new prompt;
the personal phrase is set, and the phrase prompt, notices and the modal commit
card are left out; a command that configuration withholds is an ask of its own kind.

### AuditQueue

Between any two sends of a handler policyd may read any number of records, so an
operator gives the set of states a handler may end in. The socket's writable
source is edge-triggered: `edge` is an event to be delivered, and a socket that
is emptied makes one.

mod.rs:8 calls the channel lossless. It is not: records in the socket when
policyd dies are gone, and no marker tells of them (`lost`;
`NothingIsLost`). `MissingIsToldOrCut` says that these are all: whatever else
is missing was refused or is in exactly one marker. `AdmittedIsOut` is
mod.rs:11 to the letter, "in the socket"; that policyd reads the record is more, and not so.
mod.rs:20 puts the marker where the gap is; the
order among records is checked, the marker's place is not, as it goes behind what
was queued before the ring was full.

### InferSessions

A request is a thread at a place in `Inner::complete` (`at`). A step is what it
does between two points where another thread's step matters; the session lock is
`lock`, the `ctl` mutex is held for a step only. `Leaves` ends every step: slots
are reference counted in the code, so one that neither the map nor a thread has is
dropped, and its process killed with it (`Ctl::drop`). The reader's `close` is
split where `Slot::close` reads and takes; the reaper where it looks and where it
takes. Process ids and directories are numbered by the request that starts
them (`seq` makes them unique). An idle time is not counted: a session nobody uses
may be reaped at any moment. Every request is taken to have a thread: one for which
none can be spawned gets no reply (server.rs:130-131).

## 3. Runs

Twelve runs; a pass finishes with no error, a violation ends in the trace
a finding in `PROJECT.json` describes.

| Run | Shows | Bounds |
|---|---|---|
| `task_store` | `MemoryIsReplay`, `OneLiveTask`, `NoAuthorityWithoutTask`, `AnswersAreDurable`, `HashIsOriginal`, `ChainsEndAtTheirRoot` | 2 principals, 2 tasks, 2 grants, one deadline with the clock before and at it, 5 records: open, close and reopen by resumption with a crash anywhere. Beside it 10 records in which 3 tasks of one principal are only opened, resumed and cancelled (`Chains`): a chain of two resumptions, with a crash anywhere |
| `audit_store` | `ChainContinues`, `ReplayFindsLog`, `ImplementsJournal`, `ComesBack` | segments of 2, 6 records, so two rotations and more, 2 dates, 2 crashes: the second may hit the recovery from the first |
| `agent_link` | `ViewsAgree`, `ReportsOwed`, `ExitCloses`, `CloseStopsAgentUnlessLost` | 1 task, 2 console requests (one may meet the other's effect), one break, one restart of each daemon |
| `link_close_lost` | violation of `CloseStopsAgent`: a close lost with the link leaves the agent running | the same |
| `commit_slot` | `ShownIsSubmitted`, `CommitsWereRead`, `WaitsAreOwed`, `AuthorityIsInstalled` | 1 slot, 1 package with 2 manifests, 2 drafts, 2 ids, 3 requests, 1 edit, 1 further table or restart: the card asks, the install or table changes, the commit is stale, the card asks again and commits |
| `policy_link` | `BusyIsOwed`, `OneKeyPerSession`, `PushedIsEnforced`, `LinkComesBack` | 2 keys, clock to 4, 2 deaths (a restart with the same key and one with another), 1 dropped connection |
| `enforcement` | `TargetsAreActedOnOnce`, `NothingWaitsForNobody`, `RevokedHoldNothing`, `ActsAreCovered`, `ActsAreAllowed` | 2 windows, 2 tasks, 2 requests, 2 moves, tables with each of the four outcomes: two requests meet under one prompt, token or deferral, and the world changes twice between |
| `revoked_returns` | violation of `RevokedNeverReturns` | 1 request, 1 move |
| `trusted_prompts` | `SeatAndOwnersAgree`, `EveryAskIsSomewhere`, `PolkitIsNeverLeft`, `ShownIsAnswered` | 2 asks of any of six kinds, the panel and the secret store beside them, 2 agents, 2 timers outstanding: one prompt up and one behind it, of every pair of kinds |
| `prompts_wait_unshown` | violation of `OldestIsShownWhenFree` | the same |
| `audit_queue` | `NoneOvertakes`, `MissingIsToldOrCut`, `AdmittedIsOut`, `DrainsOnceUp` | a ring and a socket of 1, so that both fill, and 4 records: one read, one sent, one queued, one dropped; policyd dies once |
| `infer_sessions` | `NothingIsLeftRunning`, `ClosedIsKilled`, `EmptySlotsAreFree`, `EveryRequestIsAnswered`, `NothingStaysWarm` | 2 requests of 2 tasks under a cap of 1, 2 rounds of `complete`'s loop instead of 3, 4 slots at once: a request starting, one waiting for it or shut out by the cap, a close and the reaper |

Deadlock is checked in `trusted_prompts` and `audit_queue`. The other models stop
once their bounds are used up, and the daemons may be idle for good.

The type invariants (`TypeOK`) are not among the runs' properties: every one holds
when put in its run's configuration, and `TaskStore`'s is proved.

### Findings

The violations state what a document or comment of the repository says:

* `CloseStopsAgent`: a close that the link lost is not repeated.
* `RevokedNeverReturns`: only tasks of grants that are held are remembered as
  revoked, so a grant of a closed task can be admitted afterwards.
* `OldestIsShownWhenFree`: a prompt that is withdrawn shows polkit's next prompt
  and no other owner's.

The modules state more sentences of the repository that the code does not keep. No
run is spent on them; TLC finds each violated when it is the only invariant (a
state predicate) or property of the configuration named:

| Property | Where | What happens |
|---|---|---|
| `OpensWithItsGrant` | `MCTaskStore.cfg` | tasks.rs:565 "Either both happen or neither does", which goes on to the error paths only; a crash between the two journalled records leaves a task without its grant |
| `SealedIsFinished` | `MCAuditStore.cfg` | audit.rs:316 "A sealed segment is never repaired", :19 "Losing power mid-append is normal"; a crash while `rotate` writes a sealed file leaves half of it under its final name, and the store never opens again though no record is lost |
| `NamesSortSegments` | `MCAuditStore.cfg` | audit.rs:550 "sorting the names sorts the segments"; after the date went back over midnight the segment sealed later sorts first, and the next replay reports a broken chain |
| `SyncedIsKept` | `MCAuditStore.cfg` | audit.rs:446 "Forces everything written so far to durable storage"; a process dies between `write_all` and `sync_all` of a sealed file, the next open reads that file from the page cache and quarantines the synced copy of its records: a power loss then takes the only readable one |
| `NothingIsLost` | `MCAuditQueue.cfg` | mod.rs:8 "The channel is lossless", docs/ECLIPSEOS_SPECS_v2_VOL1.md:760 "never drops", :2018 "lossless local channel"; `down` drops the descriptor, and what policyd had not read is neither sent again nor counted |
| `DeadlineCloses` | `MCTaskStore.cfg` with `FairSpec` | a deadline is a transition of the lifecycle (task.rs); nothing raises the event |
| `NoRequestForgotten` | `MCAgentLink.cfg` | `finish_close` removes console requests unanswered |
| `PauseIsReversible` | `MCAgentLink.cfg` | who paused a task is forgotten when policyd restarts |
| `AuditNamesTheCommitted` | `MCCommitSlot.cfg` | `created` reads the draft hash from the card, where a newer draft has put its own |
| `DeniedStaysDenied` | `MCEnforcement.cfg` with `Tables <- KeysAsked` | a table that denies by the time of the answer is not asked |
| `ApprovedIsShown` | the same with `MaxRequests = 3`, `MaxMoves = 1` | an approved key goes to the window focused by then |
| `OnlyItsOwnTimer`, `DeniedIsToldAtOnce` | `MCTrustedPrompts.cfg` | a token's earlier timer closes a later prompt early; a consent that cannot be drawn is denied after the outbox was drained |
| `ClosedTaskStartsNothing` | `MCInferSessions.cfg` | claude_code.rs:246 "kill the process now and refuse further use"; a request whose thread looks for its slot after the close makes a new one and starts a process for a closed task, until it is idle |
| `CloseFindsTheTurn`, `OneProcessPerTask`, `SessionsAreCapped` | `MCInferSessions.cfg` with 3 requests | a request that failed forgets the slot in which the next one already waits: that one runs where no close finds it, beside and above the cap |

### Fairness

* `AuditStore`: a rotation that has begun goes on (it is one function), and the
  daemon is started again when it is down (`Restart=on-failure`, `RestartSec=1`
  in `src/packaging/ec-policyd.service`). `ComesBack` needs both.
* `AgentLink`: policyd's thread takes its next message, agentd's core takes its
  next message, the link thread redials every second, and agentd's tick comes.
  Each is a loop without a condition. Neither requests, exits nor
  failures are fair: they need not happen.
* `PolicyLink`: the loop runs its timer and its readable source, policyd's
  accept thread accepts. Nothing makes policyd start or a human switch the add-on
  on, so `LinkComesBack` is about the runs in which both stay.
* `TrustedPrompts`: timers of the loop fire. Nothing else is fair: no human
  answers and nobody withdraws.
* `AuditQueue`: policyd reads while it lives, and an event of the writable source
  is delivered. No further record is promised, so the queue drains by these alone.
* `InferSessions`: threads run, a turn ends or meets its deadline, a close that
  began goes on, and the reaper comes again. A process need not end by itself,
  no further request or close need come, and no lock is strongly fair.
* `TaskStore`: `FairSpec`, for `DeadlineCloses`: a running daemon
  finishes the handler it is in (`Sync`, `AppendNext`) and the clock ticks.
* `Enforcement` states none: a wait ends by an answer, a timer or a departure, which
  the code needs only some of, and its properties are of safety.
* `CommitSlot` states none: all its properties are of safety. `WaitsAreOwed` is
  the invariant behind "every wait ends": what a card waits for is in a queue.

## 4. Proofs

Each theorem holds for any sets of tasks, principals, grants, requests and so on,
and any bounds. Few of the invariants are inductive by themselves; for
each, TLC checked the strengthening on its run's instance before it was proved.

**`TaskStore_proofs`**: `TypeCorrect`, `MemoryMatches`, `OneLive`,
`NoStrayAuthority`, `AnswersSurvive`, `HashesAreKept`, `ChainsHaveRoots`
and the action property `ClosedStaysClosed`, of which no run is made. `TypeOK` is not inductive: `HashFor` returns
the remembered hash or the hash of the statement in memory, and only a known task
has one; `TypeInv` adds that.

A power loss leaves any cut of the journal past `synced`, and the next process
is what that cut replays to. So `StoreInv` states each property of *every* cut (`History`),
not of the journal at hand, and of the *ending* journal, to which the handler
at work is still to append its rest. Memory is then what the
journal replays to between two handlers, and what the ending journal replays to is
what the handler is about to install. Without the last part a handler that dies half way
would leave a journal nothing is known about. Records are
appended, so the cuts of a longer journal are the old ones and those ending in the
new records, and each handler has to be checked at its own records only: replay takes
the latest record of each id, so one more record changes what is replayed at that
record's id and nowhere else (`TaskStep`, `GrantStep`, `RevokeStep`).

**`Audit_proofs`**, of `AuditStore`: `ChainHolds` and the refinement `RefinesJournal`,
for every crash, power loss and date, with `AuditAssumption` only. Neither speaks of the
order of names, so it is enough to know which records there are and in which files.
`AuditInv` has three parts beside the types. `FilesInv`: no two files have one name, a
file is open only while `rotate` writes it, and a sealed file shares no record with the
open segment or is the copy of it that a rotation made, having synced it before.
`RecordsInv`: whatever crashes left, records with one number are one record, and each
follows on the one before. `PlaceInv`: while the daemon runs no record is off the log,
and the store stands at its end. A process that died before emptying the open segment
leaves a whole copy beside it; a replay then breaks exactly where that copy begins
(`CutAtItsStart`), which is why quarantining it loses nothing that can be read.
`ReadsBack` evaluates the refinement mapping in such states, and each action has a
lemma that it keeps the invariant and is a step or a stutter of `Journal` (`AppendStep`,
`CreateStep`, `FillStep`, `TruncateStep`, `StartStep`, `QuarantineStep`, `DeathStep`,
`PowerStep`). `ReplayFindsLog`, which does depend on names, is only model-checked.
What reading the files flattens is a recursive function; that it exists, and which records it
has, is shown by a least length at which it would fail.

Of `AuditQueue` (the instance `Queue`), without any assumption on its constants:
`RecordsInOrder`, `RecordsAreTold` and `AdmittedAreOut`. Reading, sending and closing only
move entries from one of four sequences to another, so the invariant is about the parts:
`Good(m, A, w)` is the set of queues whose parts are each in order and before the next
(`Ordered`), hold numbers up to `m`, have the requests of `A` outside with nothing as old
still waiting (`Out`), and together tell of `w` records (`Weight`). What policyd reads, `flush`
and a cut keep a queue in the same `Good(m, A, w)`; a record made takes it to
`Good(m + 1, A, w + 1)`, and `QueueInv` says that `w` is what was made less what was refused.
The properties speak of concatenations, and follow by what `Rising`, `NumbersIn` and `Tells` are
of two sequences, one after the other. `flush` and `Tells` are recursive functions; that they exist,
and what they preserve, goes along their length (`StepByStep`).

**`CommitSlot_proofs`**: `ReadBeforeCommit`, `SubmittedAsShown`, `AnswersAreOwed` and the
action property `AuthorityHolds`. `CommitsWereRead` speaks of the history
field `read`, while `Enter` tests the arming timer; `Reading` connects them: the timer
runs only over a preview, and never longer than the preview has been shown. It is
broken inside a handler, between dropping a preview and sampling, so `Handled`
states what holds there and `SampledReads` that a sample restores it.
`AuthorityIsInstalled` needs `PreviewsKeep`: a preview's package stays
installed, its sequence number is at most the install's, and when they are equal
the install has the lines the preview promised. It is inductive since an
install always takes the next number. Types are those of `TypeOK` without the run's
bounds (`AnyCard`, `AnyRequest`), as `ids` and `reqs` are bounded only by guards.

`ShownIsSubmitted` compares a record policyd makes with a card two messages earlier.
`PressInv` follows it: what a card shows is a promise policyd made under that
id (`OnePromise`: one id is one promise, across restarts), and
every create under way was pressed. `CardsInv` is what keeps answers and cards apart:
request numbers are used once, and at most one message about a request is
anywhere (`Alone`), between the card's asking and its taking the
answer. `OweInv` (`WaitsAreOwed`) is the other direction, that this message exists.

**`PolicyLink_proofs`**: `BusyHolds`, `KeyIsPinned`, `PushedHolds` and `TableForward`.
The first is inductive with its types. The second needs to know where a key
can come from: `StreamInv` says that a stream is one offer and then tables, and
that no key is set before the offer is read. `PushedHolds` relates the two ends:
`HeldInv` says that on a held connection the last table pushed is the last in the
stream or is the live one, and `ClockInv` that without a clock set back no version
anywhere is above it, as a table that is not newer than the live one is thrown away.

**`AgentLink_proofs`**: `AgentdAgrees` and `LeftoversAreReported`. `ViewsAgree` speaks of
an idle link, and every step before that has a message on the way; `LinkInv` says
what agentd's view will be once it has read everything: the last message about a
stored task in `toAgentd` gives its state, and without one the view has
it (`Follows`, `Agrees`). That needs agentd never to know a task policyd lacks nor to be
told of a close before a beginning (`Heard`, `Known`). `ReportsOwed` needs `OneUp`: a connection
comes up once, and what is left over goes on the wire then.

**`Enforcement_proofs`**: `NobodyIsWaitedFor`, `RevokedStayGone`, `EachTargetOnce` and the action
properties `RunsAreCovered` and `RunsAreAllowed`. `WaitInv` says what a request and a token are
while they wait, with an agent that is there or being ended; it is kept by putting one
request down (`PutOwes`), dropping those of an agent and answering. `HeldInv` is
about grants, `TokenInv` about tokens. The action properties follow from
these by cases of the handler that ran the act. `EachTargetOnce` adds `OnceInv`: approvals are
numbered in the order they are minted, no two tokens have one number, and no act
has been done under a token's number on a target the token still holds.

**`InferSessions_proofs`**: `NothingEscapes`, `CloseKills` and `EmptySlotsLeave`. `Sound` is the
invariant, a predicate of the records a step leaves: `Leaves` then drops the slots nobody
holds, and `LeavesKeeps` says once for every action that a dropped slot takes its
process with it. The heart is `Started`: while a request starts a process its slot
has it, or it is dead. The request has the slot's lock, so only a close can take the
process from it, and a close kills what it takes; the check before the first turn
then finds it dead. `FreeInv` adds who may still come to a slot in the map that has
no session.

**`TrustedPrompts_proofs`**: `SeatAgrees`, `PolkitServed` and `EveryAskIsKept`. `PromptsInv`
is the invariant of the first two: each owner's own word for what it has up, by the seat (`Parts`, `PanelPart`), polkit's
requests waiting behind the front one, and `NotLeft`. Handlers call one another, so it is
proved of the functions: `Keeps` says that one of them keeps the parts, leaves
the panel's prompt alone and does not leave polkit behind, and a handler is a chain of
them. Three things break the parts on the way. `resolve` empties the seat before
the owner hears of the answer; `RestFree` is what holds of everybody else meanwhile, and each
owner's answer mends its own part. A withdrawal drops a prompt before
`cancel` takes it down (`LikeKeeps`). And the panel terminates agents with its page
still set, so others may open prompts behind its back; `show` then finds the seat taken
and closes it, which is why the panel's part stands apart. Terminating all
agents folds over them, by the least number of agents for which that would fail,
so `Agents` has to be finite.

`EveryAskIsKept` counts. `Total` is how often an ask is waiting or up with some owner,
in the consents' outbox, among the step's answers or withdrawn, and `Accounted` is the
invariant: every ask that came is in one such place or was told once, and no other is
anywhere. `Moves` says of a function that it changes no ask's total, if every total is at
most one before (`Whole`): a `retain` by number takes out one member only then. It
also keeps `Shows`, that the consent on screen waits in its queue, without which a verdict
would answer what is not there. `Moves` composes as `Keeps` does, along the same handlers; what a handler
adds to a queue (`Joins`) is the one ask that came. `Vec::retain` (`Without`) is
counted by the least length at which the count would be wrong.

The assumptions are those in the modules, which TLC evaluates in every run: bounds
are natural numbers, a draft names a known package, `None` is none of the
values it stands in for, `Agents` is finite where all of them are terminated, and
`Pending`, a grant id that a handler has not drawn yet, is no grant.

Only model-checked:

* liveness and everything under fairness (`ComesBack`, `ExitCloses`, `DrainsOnceUp`,
  `EveryRequestIsAnswered` and so on), for which the prover has no rule.

## 5. What is not modelled

Parsing, encoding and cryptography (messages are records, hashes injective);
geometry, drawing and focus (a slot's scene is one of a few values); the desktop,
installer and themes; vendored code. The parts of the agent system still to come
are in the plan. `PROJECT.json` gives each component's reason, and a note for
each hazard no property covers.

## 6. Plan

In this order:

1. `SecretStore`: the broker's lock state, its nonce and lockout, and the store's
   files, with a crash between a write, its journal record and a zeroed file's
   unlinking.
2. `Conversation`: agentd's turns and inference calls against pause, close and
   restart, composed with `InferSessions`.
3. `Evaluation`: precedence and scope containment as pure operators, checked
   against a declarative reference over small sets.

Runs, properties and hazards are kept few: runs that share an instance are merged,
and a plain property gives way to a deeper one.
