----------------------------- MODULE Enforcement -----------------------------
(***************************************************************************)
(* The enforcement point: what the compositor does with an agent's acting  *)
(* requests (ec-abyss, policy/enforce.rs), over the grants an agent object *)
(* holds (policy/mod.rs, protocols/agent/mod.rs), pauses, revocations and  *)
(* terminations (policy/lifecycle.rs), batch tokens (policy/batch.rs) and  *)
(* what policyd answers (ec-policyd, main.rs answer).                      *)
(*                                                                         *)
(* One principal, whose agent objects are numbered in the order they are   *)
(* admitted.  A request aims at a window by its handle (a click) or at     *)
(* whatever window its seat has focus on (a key); the table decides each   *)
(* kind of act.  What the rest of the world may do between two steps of a  *)
(* request is a move, and MaxMoves bounds how many moves there are.        *)
(***************************************************************************)
EXTENDS Integers, Sequences, FiniteSets, FiniteSetsExt

CONSTANTS
  Windows, Tasks, None,
  SeatFocus,    \* the aim of a request at the seat's focus
  Grants,       \* grants policyd may issue with a task
  Tables,       \* tables policyd may push
  MaxAgents,    \* bound on agent objects
  MaxRequests,  \* bound on requests
  MaxParked,    \* consent.rs MAX_PER_AGENT
  MaxMoves      \* bound on moves

Outcomes == {"deny", "prompt", "defer", "allow"}
Acts     == {"click", "key"}
Grant    == [task : Tasks, windows : SUBSET Windows]
Agents   == 1..MaxAgents
Classes  == 0..2
Secret   == 2

ASSUME EnforcementAssumption ==
  /\ None \notin Windows \cup Tasks /\ SeatFocus \notin Windows \cup {None}
  /\ Grants \subseteq Grant /\ Tables \subseteq [Acts -> Outcomes] /\ Tables # {}
  /\ MaxAgents \in Nat /\ MaxRequests \in Nat /\ MaxParked \in Nat /\ MaxMoves \in Nat

VARIABLES
  key,       \* whether the policyd link is up
  table,     \* AbyssState::policy_table
  class,     \* each window's sensitivity
  gen,       \* each window's generation
  slots,     \* Agents::slots: the agent objects there are
  ended,     \* disconnected by a termination, and not yet destroyed
  last,      \* Agents::next_id
  paused, allPaused,   \* lifecycle.rs Paused
  held,      \* the grants each object holds, numbered in their order
  revoked,   \* lifecycle.rs Revoked
  told,      \* history: tasks whose end the compositor was told of
  focus,     \* the window each object's seat has focus on
  reqs,      \* the requests admitted so far
  asks,      \* preflights that wait for the human
  tokens,    \* Batches::tokens
  minted,    \* Batches::next
  live,      \* policyd: the principal's live task
  opened,    \* policyd: tasks ever opened
  expired,   \* grants past their expiry
  toPolicyd, toAbyss,  \* the link, with what is queued for it
  moves      \* moves so far

worldVars == <<table, class, gen>>
lifeVars  == <<slots, ended, last, paused, allPaused>>
grantVars == <<held, revoked, told>>
batchVars == <<asks, tokens, minted>>
pdVars    == <<live, opened, expired>>
linkVars  == <<toPolicyd, toAbyss>>
vars == <<key, worldVars, lifeVars, grantVars, focus, reqs, batchVars, pdVars, linkVars, moves>>

Moves == moves < MaxMoves /\ moves' = moves + 1

-----------------------------------------------------------------------------
(* What an agent object may do now.                                        *)

(* Step 3: the link is down, or the agent is paused.                       *)
Paused(a) == ~key \/ allPaused \/ a \in paused

(* act_view drops what has expired before it looks.                        *)
Pruned(a) == {h \in held[a] : h.grant \notin expired}
Prune(a)  == held' = IF a \in slots /\ ~Paused(a) THEN [held EXCEPT ![a] = Pruned(a)] ELSE held

(* The windows its grants reach; a secret one is in nobody's view.         *)
View(a) == {w \in Windows : class[w] # Secret /\ \E h \in Pruned(a) : w \in h.grant.windows}

(* Agent::task_id: the first grant's.                                      *)
TaskOf(hs) == IF hs = {} THEN None ELSE (CHOOSE h \in hs : \A o \in hs : h.n <= o.n).grant.task

(* grants.push                                                             *)
Pushed(hs, g) == hs \cup {[n |-> IF hs = {} THEN 1 ELSE 1 + Max({h.n : h \in hs}), grant |-> g]}

Kind(r)   == IF r.aim = SeatFocus THEN "key" ELSE "click"
Target(r) == IF r.aim = SeatFocus THEN focus[r.agent] ELSE r.aim

(* resolve and current: steps 3 to 6, and 8.                               *)
MayAct(r) ==
  /\ r.agent \in slots /\ ~Paused(r.agent)
  /\ Target(r) \in View(r.agent)
  /\ r.gen \in {0, gen[Target(r)]}

-----------------------------------------------------------------------------
(* The ends of a request.                                                  *)

Put(i, r) == reqs' = IF i \in DOMAIN reqs THEN [reqs EXCEPT ![i] = r] ELSE Append(reqs, r)

Done(r) == [r EXCEPT !.st = "done", !.answers = @ + 1, !.class = 0]

(* answered, reply: a refusal, of which nothing else is kept.              *)
Answer(i, r) ==
  /\ Put(i, [Done(r) EXCEPT !.aim = None, !.gen = 0, !.on = None])
  /\ UNCHANGED <<focus, tokens, toPolicyd>>

(* execute: a click takes the seat's focus along.                          *)
Execute(i, r, by) ==
  /\ Put(i, [Done(r) EXCEPT !.ran = @ + 1, !.on = Target(r), !.by = by])
  /\ focus' = [focus EXCEPT ![r.agent] = Target(r)]

Waiting(a, how) == {i \in DOMAIN reqs : reqs[i].agent = a /\ reqs[i].st = how}

(* park: the prompt shows the target, and its class is kept.               *)
Park(i, r) ==
  IF Cardinality(Waiting(r.agent, "parked")) >= MaxParked
  THEN Answer(i, r)
  ELSE /\ Put(i, [r EXCEPT !.st = "parked", !.on = Target(r), !.class = class[Target(r)]])
       /\ UNCHANGED <<focus, tokens, toPolicyd>>

(* defer *)
Defer(i, r) ==
  /\ Put(i, [r EXCEPT !.st = "deferred"])
  /\ toPolicyd' = Append(toPolicyd, [kind |-> "defer", req |-> i])
  /\ UNCHANGED <<focus, tokens>>

(* batch::find: a token of this agent, and of the task it is on.           *)
Covers(k, r) ==
  k.agent = r.agent /\ k.task = TaskOf(Pruned(r.agent)) /\ Target(r) \in k.targets

(* batch::consume: the target, and the token with its last one.            *)
Consume_First(k, w) ==
  LET first == CHOOSE t \in k.targets : TRUE
  IN  tokens' = (tokens \ {k})
                  \cup (IF k.targets = {first} THEN {} ELSE {[k EXCEPT !.targets = @ \ {first}]})
Consume(k, w) ==
  tokens' = (tokens \ {k})
              \cup (IF k.targets = {w} THEN {} ELSE {[k EXCEPT !.targets = @ \ {w}]})

(* A request that carries a token never waits for a prompt.                *)
UseToken(i, r) ==
  \/ (\A k \in tokens : ~Covers(k, r)) /\ Answer(i, r)
  \/ \E k \in tokens :
       Covers(k, r) /\ Consume(k, Target(r)) /\ Execute(i, r, k.n) /\ UNCHANGED toPolicyd

(* submit: audit::begin may refuse, then steps 3 to 9.                     *)
Submit(a, aim, g, token) ==
  LET i == Len(reqs) + 1
      r == [agent |-> a, aim |-> aim, gen |-> g, st |-> "new", on |-> None, class |-> 0,
            by |-> 0, ran |-> 0, answers |-> 0]
      outcome == table[Kind(r)]
  IN  /\ a \in slots /\ Len(reqs) < MaxRequests
      /\ \/ Answer(i, r) /\ UNCHANGED held
         \/ /\ Prune(a)
            /\ \/ (~MayAct(r) \/ outcome = "deny") /\ Answer(i, r)
               \/ MayAct(r) /\ outcome = "allow" /\ Execute(i, r, 0) /\ UNCHANGED <<tokens, toPolicyd>>
               \/ MayAct(r) /\ outcome = "prompt" /\ token /\ UseToken(i, r)
               \/ MayAct(r) /\ outcome = "prompt" /\ ~token /\ Park(i, r)
               \/ MayAct(r) /\ outcome = "defer" /\ Defer(i, r)
      /\ UNCHANGED <<key, worldVars, lifeVars, revoked, told, asks, minted, pdVars, toAbyss, moves>>

Request ==
  \E a \in Agents, aim \in Windows \cup {SeatFocus}, token \in BOOLEAN :
    \E g \in {0} \cup {gen[w] : w \in Windows} : Submit(a, aim, g, token)

-----------------------------------------------------------------------------
(* Requests that waited.                                                   *)

(* resolve_defer, with policyd's answer, or "none" when the timer came.    *)
(* policyd never answers "fallthrough" (tasks.rs defer_check).             *)
ResolveDefer(i, answer) ==
  LET r == reqs[i]
  IN  IF r.agent \notin slots
      THEN Put(i, [r EXCEPT !.st = "dropped"]) /\ UNCHANGED <<held, focus, tokens, toPolicyd>>
      ELSE /\ Prune(r.agent)
           /\ IF MayAct(r) /\ answer = "prompt" THEN Park(i, r) ELSE Answer(i, r)

(* The DEFER_TIMEOUT timer.                                                *)
DeferTimesOut ==
  /\ \E i \in DOMAIN reqs : reqs[i].st = "deferred" /\ ResolveDefer(i, "none")
  /\ UNCHANGED <<key, worldVars, lifeVars, revoked, told, asks, minted, pdVars, toAbyss, moves>>

(* drain, for a Proceed: the request is resolved again, the class must not *)
(* have risen, and a grant is asked for the scope that was on screen.      *)
MayStill_Approved(r) == r.agent \in slots /\ Target(r) \in Windows
MayStill_AnyClass(r) == MayAct(r)
MayStill(r) == MayAct(r) /\ class[Target(r)] <= r.class

Approve(i, mint) ==
  LET r == reqs[i]
  IN  /\ r.st = "parked"
      /\ IF MayStill(r)
         THEN /\ Execute(i, r, 0) /\ UNCHANGED tokens
              /\ toPolicyd' = toPolicyd \o (IF mint THEN <<[kind |-> "mint", req |-> i, window |-> r.on]>>
                                           ELSE <<>>)
         ELSE Answer(i, r)
      /\ Prune(r.agent)
      /\ UNCHANGED <<key, worldVars, lifeVars, revoked, told, asks, minted, pdVars, toAbyss, moves>>

(* drain, for Denied, DeniedAndPause and TimedOut.                         *)
Deny(i, andPause) ==
  /\ reqs[i].st = "parked"
  /\ Answer(i, reqs[i])
  /\ paused' = IF andPause THEN paused \cup {reqs[i].agent} ELSE paused
  /\ UNCHANGED <<key, worldVars, slots, ended, last, allPaused, grantVars, asks, minted, pdVars,
                 toAbyss, moves>>

PromptAnswered ==
  \E i \in DOMAIN reqs :
    \/ \E mint \in BOOLEAN : Approve(i, mint)
    \/ \E andPause \in BOOLEAN : Deny(i, andPause)

-----------------------------------------------------------------------------
(* Batches.                                                                *)

(* preflight: of windows the agent can see, one ask at a time.             *)
Preflight(a, targets) ==
  /\ Moves
  /\ a \in slots /\ ~Paused(a) /\ Prune(a)
  /\ targets # {} /\ targets \subseteq View(a)
  /\ \A k \in asks : k.agent # a
  /\ asks' = asks \cup {[agent |-> a, targets |-> targets]}
  /\ UNCHANGED <<key, worldVars, lifeVars, revoked, told, focus, reqs, tokens, minted, pdVars, linkVars>>

(* approved: the token is bound to the agent, and to the task its first    *)
(* grant names by now.                                                     *)
BatchApproved ==
  \E k \in asks :
    /\ asks' = asks \ {k} /\ minted' = minted + 1
    /\ tokens' = tokens \cup {[n |-> minted', agent |-> k.agent, targets |-> k.targets,
                               task |-> TaskOf(held[k.agent])]}
    /\ UNCHANGED <<key, worldVars, lifeVars, grantVars, focus, reqs, pdVars, linkVars, moves>>

(* refused *)
BatchRefused ==
  /\ \E k \in asks : asks' = asks \ {k}
  /\ UNCHANGED <<key, worldVars, lifeVars, grantVars, focus, reqs, tokens, minted, pdVars, linkVars, moves>>

-----------------------------------------------------------------------------
(* Grants and agent objects.                                               *)

(* verify, and table::live: a grant policyd signed, unexpired, on a task   *)
(* that is not known to be revoked.                                        *)
Admissible_Revoked(g) == key /\ g \notin expired
Admissible(g) == key /\ g \notin expired /\ g.task \notin revoked

(* The grants the agent's client has been given.                           *)
Issued == {g \in Grants : g.task \in opened}

CreateAgent(g) ==
  /\ last < MaxAgents /\ g \in Issued /\ Admissible(g)
  /\ last' = last + 1 /\ slots' = slots \cup {last'} /\ held' = [held EXCEPT ![last'] = Pushed({}, g)]
  /\ UNCHANGED <<key, worldVars, ended, paused, allPaused, revoked, told, focus, reqs, batchVars,
                 pdVars, linkVars, moves>>

AddGrant(a, g) ==
  /\ Moves /\ a \in slots /\ g \in Issued /\ Admissible(g)
  /\ held' = [held EXCEPT ![a] = Pushed(@, g)]
  /\ UNCHANGED <<key, worldVars, lifeVars, revoked, told, focus, reqs, batchVars, pdVars, linkVars>>

(* view_at, for a request that only looks.                                 *)
Look(a) ==
  /\ a \in slots /\ held' = [held EXCEPT ![a] = Pruned(a)] /\ held' # held
  /\ UNCHANGED <<key, worldVars, lifeVars, revoked, told, focus, reqs, batchVars, pdVars, linkVars, moves>>

(* destroyed, when the client is gone: everything that waits for the agent *)
(* goes with it, and nobody answers it.                                    *)
Dropped_PromptsOnly(rs, a) ==
  [i \in DOMAIN rs |-> IF rs[i].agent = a /\ rs[i].st = "parked" THEN [rs[i] EXCEPT !.st = "dropped"]
                       ELSE rs[i]]
Dropped(rs, a) ==
  [i \in DOMAIN rs |-> IF rs[i].agent = a /\ rs[i].st \in {"parked", "deferred"}
                       THEN [rs[i] EXCEPT !.st = "dropped"] ELSE rs[i]]

Destroyed(a) ==
  /\ a \in slots \cup ended
  /\ slots' = slots \ {a} /\ ended' = ended \ {a} /\ paused' = paused \ {a}
  /\ held' = [held EXCEPT ![a] = {}] /\ focus' = [focus EXCEPT ![a] = None]
  /\ reqs' = Dropped(reqs, a)
  /\ asks' = {k \in asks : k.agent # a} /\ tokens' = {k \in tokens : k.agent # a}
  /\ UNCHANGED <<key, worldVars, last, allPaused, revoked, told, minted, pdVars, linkVars>>

Leave == \E a \in slots : Moves /\ Destroyed(a)
ClientDestroyed == \E a \in ended : Destroyed(a) /\ UNCHANGED moves

(* revoke, from the panel.                                                 *)
PanelRevoke(a) ==
  /\ Moves /\ a \in slots
  /\ held' = [held EXCEPT ![a] = {}]
  /\ toPolicyd' = Append(toPolicyd, [kind |-> "revoke"])
  /\ UNCHANGED <<key, worldVars, lifeVars, revoked, told, focus, reqs, batchVars, pdVars, toAbyss>>

(* terminate: what it leaves of an agent goes when its objects do.         *)
Terminate(as) ==
  /\ Moves /\ as # {} /\ as \subseteq slots
  /\ held' = [a \in Agents |-> IF a \in as THEN {} ELSE held[a]]
  /\ reqs' = [i \in DOMAIN reqs |-> IF reqs[i].agent \in as /\ reqs[i].st = "parked"
                                    THEN [reqs[i] EXCEPT !.st = "dropped"] ELSE reqs[i]]
  /\ asks' = {k \in asks : k.agent \notin as}
  /\ toPolicyd' = toPolicyd \o [n \in 1..Cardinality(as) |-> [kind |-> "revoke"]]
  /\ slots' = slots \ as /\ ended' = ended \cup as /\ paused' = paused \ as
  /\ UNCHANGED <<key, worldVars, last, revoked, told, focus, tokens, minted, pdVars, toAbyss>>

TerminateOne == \E a \in slots : Terminate({a}) /\ UNCHANGED allPaused

(* terminate_all: every agent is paused first, those to come too.          *)
TerminateAll == Terminate(slots) /\ allPaused' = TRUE

(* pause, resume, pause_all, resume_all: the human's.                      *)
PauseOrResume ==
  /\ Moves
  /\ \/ \E a \in slots : paused' \in {paused \cup {a}, paused \ {a}} \ {paused} /\ UNCHANGED allPaused
     \/ allPaused' = ~allPaused /\ UNCHANGED paused
  /\ UNCHANGED <<key, worldVars, slots, ended, last, grantVars, focus, reqs, batchVars, pdVars, linkVars>>

-----------------------------------------------------------------------------
(* What policyd sends.                                                     *)

(* revoked: every object of the principal loses its grants, and the tasks  *)
(* they were on are remembered.                                            *)
ReadRevoked(task) ==
  /\ held' = [a \in Agents |-> {}]
  /\ revoked' = revoked \cup ({TaskOf(held[a]) : a \in slots} \ {None})
  /\ told' = told \cup ({task} \ {None})
  /\ UNCHANGED <<focus, reqs, tokens, toPolicyd>>

(* minted *)
ReadMinted(i, g) ==
  LET a == reqs[i].agent
  IN  /\ held' = IF a \in slots /\ Admissible(g) THEN [held EXCEPT ![a] = Pushed(@, g)] ELSE held
      /\ UNCHANGED <<revoked, told, focus, reqs, tokens, toPolicyd>>

Read ==
  LET m == Head(toAbyss)
  IN  /\ key /\ toAbyss # <<>> /\ toAbyss' = Tail(toAbyss)
      /\ \/ m.kind = "revoked" /\ ReadRevoked(m.task)
         \/ m.kind = "minted" /\ ReadMinted(m.req, m.grant)
         \/ /\ m.kind = "answer" /\ UNCHANGED <<revoked, told>>
            /\ IF m.req \in DOMAIN reqs /\ reqs[m.req].st = "deferred" THEN ResolveDefer(m.req, m.answer)
               ELSE UNCHANGED <<held, focus, reqs, tokens, toPolicyd>>
      /\ UNCHANGED <<key, worldVars, lifeVars, asks, minted, pdVars, moves>>

-----------------------------------------------------------------------------
(* policyd.                                                                *)

(* A message to a link that is down goes nowhere.                          *)
Reply(m) == toAbyss' = IF key THEN Append(toAbyss, m) ELSE toAbyss

OpenTask ==
  /\ live = None
  /\ \E t \in Tasks \ opened : live' = t /\ opened' = opened \cup {t}
  /\ UNCHANGED <<key, worldVars, lifeVars, grantVars, focus, reqs, batchVars, expired, linkVars, moves>>

(* transition, to closed.                                                  *)
CloseTask ==
  /\ Moves /\ live # None /\ live' = None
  /\ Reply([kind |-> "revoked", task |-> live])
  /\ UNCHANGED <<key, worldVars, lifeVars, grantVars, focus, reqs, batchVars, opened, expired, toPolicyd>>

(* answer: a revocation closes the live task; a deferral is a prompt while *)
(* the task may act (a paused task may not), and a mint is for the window  *)
(* whose prompt was answered, on the task that is live by now.             *)
HandlePolicyd ==
  LET m == Head(toPolicyd)
  IN  /\ key /\ toPolicyd # <<>> /\ toPolicyd' = Tail(toPolicyd)
      /\ \/ m.kind = "revoke" /\ live' = None /\ Reply([kind |-> "revoked", task |-> live])
         \/ /\ m.kind = "defer" /\ UNCHANGED live
            /\ \E answer \in {"deny"} \cup (IF live = None THEN {} ELSE {"prompt"}) :
                 Reply([kind |-> "answer", req |-> m.req, answer |-> answer])
         \/ /\ m.kind = "mint" /\ UNCHANGED live
            /\ IF live = None THEN UNCHANGED toAbyss
               ELSE Reply([kind |-> "minted", req |-> m.req,
                           grant |-> [task |-> live, windows |-> {m.window}]])
      /\ UNCHANGED <<key, worldVars, lifeVars, grantVars, focus, reqs, batchVars, opened, expired, moves>>

-----------------------------------------------------------------------------
(* The rest of the world.                                                  *)

(* table::receive; a table is as good as read when policyd pushes it.      *)
PushTable ==
  /\ Moves /\ key /\ table' \in Tables \ {table}
  /\ UNCHANGED <<key, class, gen, lifeVars, grantVars, focus, reqs, batchVars, pdVars, linkVars>>

ClassChanges ==
  /\ Moves /\ \E w \in Windows, c \in Classes : c # class[w] /\ class' = [class EXCEPT ![w] = c]
  /\ UNCHANGED <<key, table, gen, lifeVars, grantVars, focus, reqs, batchVars, pdVars, linkVars>>

GenMoves ==
  /\ Moves /\ \E w \in Windows : gen' = [gen EXCEPT ![w] = @ + 1]
  /\ UNCHANGED <<key, table, class, lifeVars, grantVars, focus, reqs, batchVars, pdVars, linkVars>>

Expire ==
  /\ Moves
  /\ \E g \in (Issued \cup UNION {{h.grant : h \in held[a]} : a \in Agents}) \ expired : expired' = expired \cup {g}
  /\ UNCHANGED <<key, worldVars, lifeVars, grantVars, focus, reqs, batchVars, live, opened, linkVars>>

(* down: what was on its way to the compositor is lost, and what was in    *)
(* the socket; the messages still queued (audit/mod.rs message) wait.      *)
LinkDown ==
  /\ Moves /\ key /\ key' = FALSE /\ toAbyss' = <<>>
  /\ \E n \in 0..Len(toPolicyd) : toPolicyd' = SubSeq(toPolicyd, n + 1, Len(toPolicyd))
  /\ UNCHANGED <<worldVars, lifeVars, grantVars, focus, reqs, batchVars, pdVars>>

LinkUp ==
  /\ ~key /\ key' = TRUE
  /\ UNCHANGED <<worldVars, lifeVars, grantVars, focus, reqs, batchVars, pdVars, linkVars, moves>>

-----------------------------------------------------------------------------
Init ==
  /\ key = TRUE /\ table \in Tables
  /\ class = [w \in Windows |-> 0] /\ gen = [w \in Windows |-> 1]
  /\ slots = {} /\ ended = {} /\ last = 0 /\ paused = {} /\ allPaused = FALSE
  /\ held = [a \in Agents |-> {}] /\ revoked = {} /\ told = {}
  /\ focus = [a \in Agents |-> None] /\ reqs = <<>>
  /\ asks = {} /\ tokens = {} /\ minted = 0
  /\ live = None /\ opened = {} /\ expired = {}
  /\ toPolicyd = <<>> /\ toAbyss = <<>> /\ moves = 0

Next ==
  \/ Request \/ PromptAnswered \/ DeferTimesOut
  \/ \E a \in Agents, ws \in SUBSET Windows : Preflight(a, ws)
  \/ BatchApproved \/ BatchRefused
  \/ \E g \in Grants : CreateAgent(g)
  \/ \E a \in Agents, g \in Grants : AddGrant(a, g)
  \/ \E a \in Agents : Look(a) \/ PanelRevoke(a)
  \/ TerminateOne \/ TerminateAll \/ Leave \/ ClientDestroyed \/ PauseOrResume
  \/ Read \/ OpenTask \/ CloseTask \/ HandlePolicyd
  \/ PushTable \/ ClassChanges \/ GenMoves \/ Expire \/ LinkDown \/ LinkUp

Spec == Init /\ [][Next]_vars

-----------------------------------------------------------------------------
Req == [agent : Agents, aim : Windows \cup {SeatFocus, None}, gen : Nat,
        st : {"parked", "deferred", "done", "dropped"}, on : Windows \cup {None}, class : Classes,
        by : Nat, ran : Nat, answers : Nat]

TypeOK ==
  /\ key \in BOOLEAN /\ allPaused \in BOOLEAN
  /\ table \in Tables /\ class \in [Windows -> Classes] /\ gen \in [Windows -> Nat]
  /\ slots \subseteq Agents /\ ended \subseteq Agents /\ last \in 0..MaxAgents /\ paused \subseteq Agents
  /\ held \in [Agents -> SUBSET [n : Nat, grant : Grant]] /\ revoked \subseteq Tasks /\ told \subseteq Tasks
  /\ focus \in [Agents -> Windows \cup {None}]
  /\ reqs \in Seq(Req)
  /\ \A k \in asks : k.agent \in Agents /\ k.targets \subseteq Windows
  /\ \A k \in tokens : k.agent \in Agents /\ k.targets \in SUBSET Windows \ {{}} /\ k.n \in 1..minted
  /\ live \in Tasks \cup {None} /\ opened \subseteq Tasks /\ expired \subseteq Grant
  /\ moves \in 0..MaxMoves

(* Request i runs in this step, and what it was when the step began.       *)
Runs(i) == i \in DOMAIN reqs' /\ reqs'[i].ran > (IF i \in DOMAIN reqs THEN reqs[i].ran ELSE 0)

(* Whenever an act runs, at once or after a prompt, a deferral or both,    *)
(* the agent may act at that moment: the link is up, nobody paused it, one *)
(* of its grants that has not expired reaches the window acted on, which   *)
(* is not secret and is of the generation the agent saw (enforce.rs submit,*)
(* resolve_defer, drain).                                                  *)
Covered(i) ==
  LET r == reqs'[i]
  IN  /\ r.agent \in slots /\ key /\ ~allPaused /\ r.agent \notin paused
      /\ \E h \in held[r.agent] : h.grant \notin expired /\ r.on \in h.grant.windows
      /\ class[r.on] # Secret
      /\ r.gen \in {0, gen[r.on]}
ActsAreCovered == [][\A i \in 1..MaxRequests : Runs(i) => Covered(i)]_vars

(* No act runs that nobody allowed: the table allows it as it runs, or a   *)
(* token of that agent for that window is used up by it, or the human      *)
(* answered its prompt, and the window it runs on is not of a higher class *)
(* than the one the prompt showed (enforce.rs submit, drain; S-05 5).      *)
Allowed(i) ==
  LET r == reqs'[i]
  IN  \/ i \notin DOMAIN reqs /\ table[Kind(r)] = "allow"
      \/ \E k \in tokens \ tokens' : k.agent = r.agent /\ r.on \in k.targets /\ k.n = r.by
      \/ i \in DOMAIN reqs /\ reqs[i].st = "parked" /\ class[r.on] <= reqs[i].class
ActsAreAllowed == [][\A i \in 1..MaxRequests : Runs(i) => Allowed(i)]_vars

(* "Approving lets the agent do this to exactly the targets listed, each   *)
(* once" (trusted_ui/batch.rs): no two acts under one approval are on one  *)
(* window, however the requests of the agents interleave (batch.rs         *)
(* consume).                                                               *)
TargetsAreActedOnOnce ==
  \A i, j \in DOMAIN reqs : i # j /\ reqs[i].by # 0 /\ reqs[i].by = reqs[j].by => reqs[i].on # reqs[j].on

(* A request is answered once and runs at most once, whoever answers it    *)
(* first, and what still waits is an agent's that is there: nothing of an  *)
(* agent that left or was terminated can be approved or spent any more     *)
(* (enforce.rs forget, batch.rs forget, protocols/agent/mod.rs destroyed). *)
NothingWaitsForNobody ==
  /\ \A i \in DOMAIN reqs :
       /\ reqs[i].st \in {"parked", "deferred", "dropped"} => reqs[i].answers = 0
       /\ reqs[i].st = "done" => reqs[i].answers = 1
       /\ reqs[i].ran <= reqs[i].answers
       /\ reqs[i].st = "parked" => reqs[i].agent \in slots
       /\ reqs[i].st = "deferred" => reqs[i].agent \in slots \cup ended
  /\ \A k \in asks : k.agent \in slots
  /\ \A k \in tokens : k.agent \in slots \cup ended

(* No agent object holds a grant on a task that is remembered as revoked,  *)
(* whatever it adds and whatever is minted for it later (lifecycle.rs      *)
(* Revoked, enforce.rs minted).                                            *)
RevokedHoldNothing ==
  \A a \in slots : \A h \in held[a] : h.grant.task \notin revoked

(* lifecycle.rs:14-16 "drops every grant the principal holds here and      *)
(* remembers the task, so the same grants cannot be re-admitted this       *)
(* session": once the compositor was told that a task is over, no agent    *)
(* object holds a grant on it.                                             *)
RevokedNeverReturns ==
  \A a \in slots : \A h \in held[a] : h.grant.task \notin told

(* consent.rs:15-18 "must re-run the enforcement order from capability     *)
(* through the class re-check (COMP-08 10, steps 4 to 8b)": an approved    *)
(* act does not run when the table denies it by now (step 7).              *)
DeniedStaysDenied ==
  [][\A i \in 1..MaxRequests : Runs(i) => table[Kind(reqs'[i])] # "deny"]_vars

(* The window an approved act runs on is the window its prompt showed.     *)
ApprovedIsShown ==
  [][\A i \in DOMAIN reqs : Runs(i) /\ reqs[i].st = "parked" => reqs'[i].on = reqs[i].on]_vars
=============================================================================
