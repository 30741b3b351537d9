---------------------------- MODULE TrustedPrompts ----------------------------
(***************************************************************************)
(* The prompts of the trusted UI (ec-abyss, trusted_ui/): one modal at a   *)
(* time, and the owners that want it.  Agents' consents and batches,       *)
(* install reviews, the secret store, polkit's password requests and       *)
(* command approvals queue for it; the erase prompt and the emergency      *)
(* panel take it when it is free or not at all.                            *)
(*                                                                         *)
(* The event loop runs one handler at a time, and handlers call one        *)
(* another, so the state is one record and each function of the code is an *)
(* operator from a state to the next; an answer of the human's is a set of *)
(* states.  Asks are numbered as they come, whoever they are for.          *)
(***************************************************************************)
EXTENDS Integers, Sequences, SequencesExt

CONSTANTS
  Agents, None,
  Kinds,          \* kinds of asks that come
  MaxPerAgent,    \* consent.rs MAX_PER_AGENT
  MaxQueue,       \* polkit.rs MAX_QUEUE, install.rs MAX_WAITING
  Tries,          \* polkit.rs TRIES
  MaxAsks,        \* bound on asks
  MaxTimers       \* bound on timers that have not fired

AllKinds == {"consent", "batch", "install", "broker", "polkit", "approval", "erase", "panel"}
Overview == 1
AgentPage == 2
ConfirmPage == 3

ASSUME PromptsAssumption ==
  /\ None \notin Agents \cup [by : AllKinds, n : Nat]
                    \cup [n : Nat, agent : Agents, long : BOOLEAN]
  /\ IsFiniteSet(Agents) /\ Kinds \subseteq AllKinds
  /\ MaxPerAgent \in Nat /\ MaxQueue \in Nat /\ Tries \in Nat \ {0} /\ MaxAsks \in Nat /\ MaxTimers \in Nat

VARIABLES
  ui,       \* TrustedUi
  locked,   \* AbyssState::lock
  asked,    \* asks so far
  told      \* history: how often each ask was answered; withdrawn asks are not

vars == <<ui, locked, asked, told>>
Ask == 1..MaxAsks

(* The parts of ui:                                                        *)
(*   seat      the token of the open prompt: its owner and a number        *)
(*   timers    tokens of the TIMEOUT timers set, oldest first              *)
(*   order, showing, resolved      consent::Queue                          *)
(*   batches, batchUp              batch::Batches                          *)
(*   installs, installUp           install::Installs                       *)
(*   broker, brokerQueued, brokerUp   broker::Broker: its step, and whether *)
(*             a prompt of its waits or is up                              *)
(*   polkit    polkit::Polkit, its queue                                   *)
(*   withheld, subjects, asking, quiet, pump    approval::Asking           *)
(*   erasing, page                 erase::State, panel::Panel              *)
(*   answers, gone                 what this step answered and withdrew    *)

-----------------------------------------------------------------------------
(* trusted_ui/mod.rs open, cancel.                                         *)

Open_OneTimer(u, by, n) ==
  [u EXCEPT !.seat = [by |-> by, n |-> n], !.timers = IF @ = <<>> THEN <<[by |-> by, n |-> n]>> ELSE @]
Open(u, by, n) ==
  [u EXCEPT !.seat = [by |-> by, n |-> n], !.timers = Append(@, [by |-> by, n |-> n])]

Free(u) == u.seat = None
IsUp(u, by, n) == ~Free(u) /\ u.seat.by = by /\ u.seat.n = n

Count(s, n) == Cardinality({i \in DOMAIN s : s[i] = n})

Answered(u, n) == [u EXCEPT !.answers = Append(@, n)]

(* A token no pending timer has: the code counts up, and two tokens only   *)
(* differ to a timer.                                                      *)
Fresh(u) == CHOOSE i \in 1..(Len(u.timers) + 1) : [by |-> "polkit", n |-> i] \notin ToSet(u.timers)

(* polkit.rs schedule, finish.                                             *)
PolkitSchedule(u) ==
  IF ~Free(u) \/ u.polkit = <<>> \/ Head(u.polkit).stage # "waiting" THEN u
  ELSE [Open(u, "polkit", Fresh(u)) EXCEPT !.polkit[1].stage = "prompting", !.polkit[1].token = Fresh(u)]

PolkitFinish(u) ==
  PolkitSchedule(Answered([u EXCEPT !.polkit = Tail(@)], Head(u.polkit).n))

Cancel_Alone(u, by, n) == IF IsUp(u, by, n) THEN [u EXCEPT !.seat = None] ELSE u
Cancel(u, by, n) ==
  IF IsUp(u, by, n) THEN PolkitSchedule([u EXCEPT !.seat = None]) ELSE u

-----------------------------------------------------------------------------
(* consent.rs                                                              *)

(* Vec::retain: a queue without the members in out.                        *)
Without(s, out) ==
  LET kept[i \in 0..Len(s)] ==
        IF i = 0 THEN <<>> ELSE IF s[i] \in out THEN kept[i-1] ELSE Append(kept[i-1], s[i])
  IN  kept[Len(s)]
Of(s, a)   == {p \in ToSet(s) : p.agent = a}
Numbers(s) == {p.n : p \in s}
Numbered(s, n) == {p \in ToSet(s) : p.n = n}

(* Queue::answer: the verdict goes to the outbox.                          *)
Settle_Shown(u, n) ==
  [u EXCEPT !.order = IF u.showing = n THEN Without(@, Numbered(@, n)) ELSE @,
            !.showing = IF @ = n THEN 0 ELSE @, !.resolved = Append(@, n)]
Settle(u, n) ==
  [u EXCEPT !.order = Without(@, Numbered(@, n)),
            !.showing = IF @ = n THEN 0 ELSE @, !.resolved = Append(@, n)]

(* enforce.rs drain: every verdict in the outbox reaches its agent.        *)
Drain(u) == [u EXCEPT !.answers = @ \o u.resolved, !.resolved = <<>>]

(* schedule: a prompt that cannot be drawn whole is denied.                *)
ConsentSchedule(u) ==
  IF ~Free(u) \/ u.showing # 0 \/ u.order = <<>> THEN u
  ELSE LET p == Head(u.order)
       IN  IF p.drawable THEN [Open(u, "consent", p.n) EXCEPT !.showing = p.n] ELSE Settle(u, p.n)

-----------------------------------------------------------------------------
(* batch.rs, install.rs, broker.rs                                         *)

BatchSchedule(u) ==
  IF ~Free(u) \/ u.batchUp # None \/ u.batches = <<>> THEN u
  ELSE [Open(u, "batch", Head(u.batches).n) EXCEPT !.batches = Tail(@), !.batchUp = Head(u.batches)]

(* A review that cannot be drawn whole is refused.                         *)
InstallSchedule(u) ==
  IF ~Free(u) \/ u.installUp # 0 \/ u.installs = <<>> THEN u
  ELSE LET w == Head(u.installs)
           popped == [u EXCEPT !.installs = Tail(@)]
       IN  IF w.drawable THEN [Open(popped, "install", w.n) EXCEPT !.installUp = w.n]
           ELSE Answered(popped, w.n)

(* show                                                                    *)
BrokerShow(u) ==
  IF Free(u) THEN [Open(u, "broker", 0) EXCEPT !.brokerUp = TRUE] ELSE [u EXCEPT !.brokerQueued = TRUE]

(* answer, in the step the prompt left: a passphrase to set up is asked    *)
(* for twice or again.                                                     *)
BrokerAnswer(u, step, timedOut) ==
  IF step # "prompt" THEN {u}
  ELSE {u, [u EXCEPT !.broker = "asking"]}
         \cup (IF timedOut THEN {} ELSE {BrokerShow([u EXCEPT !.broker = "prompt"])})

BrokerSchedule(u) == IF u.brokerQueued THEN BrokerShow([u EXCEPT !.brokerQueued = FALSE]) ELSE u

-----------------------------------------------------------------------------
(* Agents that go: consent.rs withdraw, batch.rs withdraw.                 *)

Gone(u, ns) == [u EXCEPT !.gone = @ \cup ns]

BatchWithdraw_Shown(u, a) ==
  LET mine == Of(u.batches, a)
      u1 == Gone([u EXCEPT !.batches = Without(@, mine)], Numbers(mine))
  IN  IF u1.batchUp # None /\ u1.batchUp.agent = a
      THEN Cancel(Gone(u1, {u1.batchUp.n}), "batch", u1.batchUp.n)
      ELSE u1
BatchWithdraw(u, a) ==
  LET mine == Of(u.batches, a)
      u1 == Gone([u EXCEPT !.batches = Without(@, mine)], Numbers(mine))
  IN  IF u1.batchUp # None /\ u1.batchUp.agent = a
      THEN Cancel(Gone([u1 EXCEPT !.batchUp = None], {u1.batchUp.n}), "batch", u1.batchUp.n)
      ELSE u1

Withdraw(u, a) ==
  LET mine == Numbers(Of(u.order, a))
      u1 == Gone([u EXCEPT !.order = Without(@, Of(@, a)),
                           !.showing = IF @ \in mine THEN 0 ELSE @], mine)
      u2 == IF u.showing \in mine THEN Cancel(u1, "consent", u.showing) ELSE u1
  IN  ConsentSchedule(Drain(BatchWithdraw(u2, a)))

(* panel.rs: every agent is terminated.                                    *)
WithdrawAll(u) == FoldSet(LAMBDA a, v : Withdraw(v, a), u, Agents)

-----------------------------------------------------------------------------
(* approval.rs pump, and what it shows: a prompt whose command is no       *)
(* longer withheld comes down.                                             *)
Pump(u) ==
  LET n == u.asking
      u0 == [u EXCEPT !.pump = FALSE]
      u1 == IF n = 0 THEN u0 ELSE Cancel(Gone([u0 EXCEPT !.asking = 0], {n}), "approval", n)
  IN  IF n # 0 /\ n \in u.withheld /\ IsUp(u, "approval", n) THEN u0
      ELSE IF ~Free(u1) \/ u1.quiet \/ u1.subjects = <<>> THEN u1
      ELSE [Open(u1, "approval", Head(u1.subjects)) EXCEPT
              !.subjects = Tail(@), !.asking = Head(u1.subjects)]

(* withhold.rs settle, as the config comes to be without the command.      *)
Unwithhold(u, n) ==
  [u EXCEPT !.withheld = @ \ {n}, !.subjects = Without(@, {n}), !.pump = TRUE]

-----------------------------------------------------------------------------
(* panel.rs show: without the seat the panel is closed.                    *)
PanelShow(u, page) ==
  IF Free(u) THEN [Open(u, "panel", page) EXCEPT !.page = page] ELSE [u EXCEPT !.page = 0]

(* panel.rs answer: a timeout goes back, or closes the overview.           *)
PanelAnswer(u, timedOut) ==
  LET back == IF u.page = Overview THEN {[u EXCEPT !.page = 0]}
              ELSE {PanelShow(u, p) : p \in {Overview, AgentPage} \ (IF u.page = AgentPage THEN {AgentPage} ELSE {})}
  IN  back \cup
      IF timedOut THEN {}
      ELSE CASE u.page = Overview  -> {PanelShow(u, p) : p \in {Overview, AgentPage, ConfirmPage}}
             [] u.page = AgentPage -> {PanelShow(u, p) : p \in {Overview, AgentPage, ConfirmPage}}
             [] OTHER -> {PanelShow(u, AgentPage)}
                         \cup {PanelShow(Withdraw(u, a), Overview) : a \in Agents}
                         \cup {PanelShow(WithdrawAll(u), Overview)}

-----------------------------------------------------------------------------
(* resolve: the answer goes to the owner of the prompt that was up, which  *)
(* may put its next one up at once.                                        *)
Resolve(u0, timedOut) ==
  LET u == [u0 EXCEPT !.seat = None]
      n == u0.seat.n
  IN  CASE u0.seat.by = "consent" -> {Drain(Settle(u, n))}
        [] u0.seat.by = "batch" ->
             {Answered([u EXCEPT !.batchUp = None], n)}
               \cup (IF timedOut \/ ~u.batchUp.long THEN {} ELSE {Open(u, "batch", n)})
        [] u0.seat.by = "install" -> {Answered([u EXCEPT !.installUp = 0], n)}
        [] u0.seat.by = "broker" -> BrokerAnswer([u EXCEPT !.brokerUp = FALSE, !.broker = "idle"], u.broker, timedOut)
        [] u0.seat.by = "polkit" ->
             {PolkitFinish(u)}
               \cup (IF timedOut THEN {} ELSE {[u EXCEPT !.polkit[1].stage = s] : s \in {"waiting", "checking"}})
        [] u0.seat.by = "approval" ->
             LET closed == Answered([u EXCEPT !.asking = 0], n)
             IN  {[closed EXCEPT !.quiet = TRUE]} \cup (IF timedOut THEN {} ELSE {closed, Unwithhold(closed, n)})
        [] u0.seat.by = "erase" -> {Answered([u EXCEPT !.erasing = 0], n)}
        [] u0.seat.by = "panel" -> PanelAnswer(u, timedOut)

(* choose: whatever was waiting behind the prompt gets its turn.           *)
Turn(u) ==
  PolkitSchedule(BrokerSchedule(InstallSchedule(BatchSchedule(ConsentSchedule([u EXCEPT !.pump = TRUE])))))

Choose(u, timedOut) == {Turn(v) : v \in Resolve(u, timedOut)}

-----------------------------------------------------------------------------
(* The handlers.                                                           *)

(* A step goes to state u, whose answers are told.                         *)
Becomes(next) ==
  \E u \in {next} :
    /\ Len(u.timers) <= MaxTimers
    /\ ui' = [u EXCEPT !.answers = <<>>]
    /\ told' = [n \in Ask |-> told[n] + Count(u.answers, n)]

Asks(kind) == kind \in Kinds /\ asked < MaxAsks /\ asked' = asked + 1 /\ UNCHANGED locked

(* park, for a request that is not refused at once.                        *)
ConsentAsked(a, drawable) ==
  /\ Asks("consent")
  /\ Cardinality(Of(ui.order, a)) < MaxPerAgent
  /\ Becomes(ConsentSchedule([ui EXCEPT !.order = Append(@, [n |-> asked', agent |-> a, drawable |-> drawable])]))

(* batch.rs ask: one at a time for an agent.                               *)
BatchAsked(a, long) ==
  /\ Asks("batch")
  /\ \A p \in ToSet(ui.batches) \cup ({ui.batchUp} \ {None}) : p.agent # a
  /\ Becomes(BatchSchedule([ui EXCEPT !.batches = Append(@, [n |-> asked', agent |-> a, long |-> long])]))

(* install.rs review.                                                      *)
InstallAsked(drawable) ==
  /\ Asks("install") /\ Len(ui.installs) < MaxQueue
  /\ Becomes(InstallSchedule([ui EXCEPT !.installs = Append(@, [n |-> asked', drawable |-> drawable])]))

(* polkit.rs ask, abandon, and the end of an exchange with the helper.     *)
PolkitAsked ==
  /\ Asks("polkit") /\ Len(ui.polkit) < MaxQueue
  /\ Becomes(PolkitSchedule([ui EXCEPT !.polkit = Append(@, [n |-> asked', stage |-> "waiting", token |-> 0, tries |-> 0])]))

PolkitAbandoned ==
  /\ \E i \in DOMAIN ui.polkit :
       LET p == ui.polkit[i]
           u == Gone([ui EXCEPT !.polkit = RemoveAt(@, i)], {p.n})
           others(v) == BrokerSchedule(InstallSchedule(BatchSchedule(ConsentSchedule([v EXCEPT !.pump = TRUE]))))
       IN  Becomes(PolkitSchedule(IF p.stage = "prompting" THEN others(Cancel(u, "polkit", p.token)) ELSE u))
  /\ UNCHANGED <<locked, asked>>

PolkitChecked ==
  /\ ui.polkit # <<>> /\ Head(ui.polkit).stage = "checking"
  /\ \/ Becomes(PolkitFinish(ui))
     \/ LET p == Head(ui.polkit)
        IN  /\ p.tries + 1 < Tries
            /\ Becomes(PolkitSchedule(
                 [ui EXCEPT !.polkit[1] = [p EXCEPT !.stage = "waiting", !.tries = p.tries + 1]]))
  /\ UNCHANGED <<locked, asked>>

(* broker.rs start, prompt.                                                *)
BrokerPrompted ==
  /\ "broker" \in Kinds /\ ui.broker \in {"off", "idle"}
  /\ Becomes([ui EXCEPT !.broker = "asking"]) /\ UNCHANGED <<locked, asked>>

(* reply: brokerd's answer ends it, calls for a prompt that asks, or says  *)
(* why there is none.                                                      *)
BrokerReplies ==
  /\ ui.broker = "asking"
  /\ \/ Becomes([ui EXCEPT !.broker = "idle"])
     \/ \E step \in {"prompt", "idle"} : Becomes(BrokerShow([ui EXCEPT !.broker = step]))
  /\ UNCHANGED <<locked, asked>>

(* withhold.rs settle: the config has a command nobody approved.           *)
ApprovalAsked ==
  /\ Asks("approval")
  /\ Becomes([ui EXCEPT !.withheld = @ \cup {asked'}, !.subjects = Append(@, asked'), !.pump = TRUE])

ApprovalWithdrawn ==
  /\ \E n \in ui.withheld :
       Becomes(Gone(Unwithhold(ui, n), IF Contains(ui.subjects, n) THEN {n} ELSE {}))
  /\ UNCHANGED <<locked, asked>>

PumpRuns == ui.pump /\ Becomes(Pump(ui)) /\ UNCHANGED <<locked, asked>>

QuietEnds == ui.quiet /\ Becomes(Pump([ui EXCEPT !.quiet = FALSE])) /\ UNCHANGED <<locked, asked>>

(* erase.rs ask, abandon.                                                  *)
EraseAsked ==
  /\ Asks("erase") /\ Free(ui) /\ ~locked
  /\ Becomes([Open(ui, "erase", asked') EXCEPT !.erasing = asked'])

EraseAbandoned ==
  /\ ui.erasing # 0
  /\ Becomes([Cancel(Answered([ui EXCEPT !.erasing = 0], ui.erasing), "erase", ui.erasing) EXCEPT !.pump = TRUE])
  /\ UNCHANGED <<locked, asked>>

(* panel.rs open, by the override chord.                                   *)
PanelOpened ==
  /\ "panel" \in Kinds
  /\ ui.page = 0 \/ Free(ui)
  /\ Becomes(PanelShow(ui, Overview)) /\ UNCHANGED <<locked, asked>>

(* An agent terminated or gone.                                            *)
AgentGone == \E a \in Agents : Becomes(Withdraw(ui, a)) /\ UNCHANGED <<locked, asked>>

(* queue.rs open, by the attention chord.                                  *)
Attention == Becomes(BatchSchedule(ConsentSchedule(ui))) /\ UNCHANGED <<locked, asked>>

(* key and button, while the prompt holds the seat.                        *)
HumanAnswers ==
  /\ ~Free(ui) /\ ~locked
  /\ \E u \in Choose(ui, FALSE) : Becomes(u)
  /\ UNCHANGED <<locked, asked>>

(* The oldest timer: it resolves the prompt that is up, if that has its    *)
(* token.                                                                  *)
TimerFires ==
  /\ ui.timers # <<>>
  /\ LET t == Head(ui.timers)
         u == [ui EXCEPT !.timers = Tail(@)]
     IN  IF IsUp(ui, t.by, t.n) THEN \E v \in Choose(u, TRUE) : Becomes(v) ELSE Becomes(u)
  /\ UNCHANGED <<locked, asked>>

(* session_lock.rs: locking closes the secret store and drops its queued   *)
(* prompt, unlocking asks for it again.                                    *)
LockChanges ==
  /\ locked' = ~locked
  /\ Becomes([ui EXCEPT !.brokerQueued = @ /\ locked, !.broker = IF @ = "off" THEN @ ELSE "asking"])
  /\ UNCHANGED asked

-----------------------------------------------------------------------------
Init ==
  /\ ui = [seat |-> None, timers |-> <<>>, order |-> <<>>, showing |-> 0, resolved |-> <<>>,
           batches |-> <<>>, batchUp |-> None, installs |-> <<>>, installUp |-> 0,
           broker |-> "off", brokerQueued |-> FALSE, brokerUp |-> FALSE, polkit |-> <<>>,
           withheld |-> {}, subjects |-> <<>>, asking |-> 0, quiet |-> FALSE, pump |-> FALSE,
           erasing |-> 0, page |-> 0, answers |-> <<>>, gone |-> {}]
  /\ locked = FALSE /\ asked = 0 /\ told = [n \in Ask |-> 0]

Next ==
  \/ \E a \in Agents, b \in BOOLEAN : ConsentAsked(a, b) \/ BatchAsked(a, b)
  \/ \E drawable \in BOOLEAN : InstallAsked(drawable)
  \/ PolkitAsked \/ PolkitAbandoned \/ PolkitChecked \/ BrokerPrompted \/ BrokerReplies
  \/ ApprovalAsked \/ ApprovalWithdrawn \/ PumpRuns \/ QuietEnds
  \/ EraseAsked \/ EraseAbandoned \/ PanelOpened \/ AgentGone \/ Attention
  \/ HumanAnswers \/ TimerFires \/ LockChanges

(* calloop fires a timer that is due.                                      *)
Spec == Init /\ [][Next]_vars /\ WF_vars(TimerFires)

-----------------------------------------------------------------------------
(* Every queue keeps its bound: consent.rs MAX_PER_AGENT, batch.rs ask's   *)
(* one batch for an agent, install.rs and polkit.rs refusing when full;    *)
(* and only the request at the front of polkit's queue has its prompt up   *)
(* or its password checked.                                                *)
TypeOK ==
  /\ ui.seat \in [by : AllKinds, n : 0..(MaxAsks + MaxTimers + 3)] \cup {None}
  /\ \A a \in Agents :
       /\ Cardinality(Of(ui.order, a)) <= MaxPerAgent
       /\ Cardinality(Of(ui.batches, a))
            + (IF ui.batchUp # None /\ ui.batchUp.agent = a THEN 1 ELSE 0) <= 1
  /\ Len(ui.installs) <= MaxQueue /\ Len(ui.polkit) <= MaxQueue
  /\ \A i \in 2..Len(ui.polkit) : ui.polkit[i].stage = "waiting"
  /\ ui.broker \in {"off", "idle", "asking", "prompt"} /\ locked \in BOOLEAN /\ asked \in 0..MaxAsks

Prompts(u) ==
  {[by |-> "consent", n |-> n] : n \in {u.showing} \ {0}}
    \cup {[by |-> "batch", n |-> p.n] : p \in {u.batchUp} \ {None}}
    \cup {[by |-> "install", n |-> n] : n \in {u.installUp} \ {0}}
    \cup {[by |-> "broker", n |-> 0] : b \in {u.brokerUp} \ {FALSE}}
    \cup {[by |-> "polkit", n |-> p.token] : p \in {q \in ToSet(u.polkit) : q.stage = "prompting"}}
    \cup {[by |-> "approval", n |-> n] : n \in {u.asking} \ {0}}
    \cup {[by |-> "erase", n |-> n] : n \in {u.erasing} \ {0}}
    \cup {[by |-> "panel", n |-> n] : n \in {u.page} \ {0}}

(* mod.rs resolve asks each owner in turn whether the prompt is its own,   *)
(* and each owner keeps its own word for it: through answers that open the *)
(* next prompt, withdrawals and refusals, the owner of the prompt that is  *)
(* up, and nobody else, takes its own prompt to be up.  Otherwise an       *)
(* answer would reach nobody, or an owner wait for an answer that cannot   *)
(* come.                                                                   *)
SeatAndOwnersAgree == Prompts(ui) = (IF Free(ui) THEN {} ELSE {ui.seat})

(* Every ask is in exactly one place: waiting or up with its owner, in the *)
(* consents' outbox, answered, once, or withdrawn by whoever asked.        *)
NumbersOf(s) == [i \in DOMAIN s |-> s[i].n]
One(n) == IF n = 0 THEN <<>> ELSE <<n>>

Held(u) ==
  NumbersOf(u.order) \o u.resolved \o NumbersOf(u.batches)
    \o (IF u.batchUp = None THEN <<>> ELSE <<u.batchUp.n>>)
    \o NumbersOf(u.installs) \o One(u.installUp) \o NumbersOf(u.polkit)
    \o u.subjects \o One(u.asking) \o One(u.erasing)

EveryAskIsSomewhere ==
  \A n \in Ask :
    Count(Held(ui), n) + told[n] + (IF n \in ui.gone THEN 1 ELSE 0)
      = (IF n <= asked THEN 1 ELSE 0)

(* mod.rs cancel gives polkit the seat because the others schedule their   *)
(* own queues where they cancel: whoever gives the seat up and however,    *)
(* polkit's front request never waits beside a free seat.                  *)
PolkitIsNeverLeft == Free(ui) /\ ui.polkit # <<>> => Head(ui.polkit).stage # "waiting"

(* mod.rs open sets the timer that answers a prompt nobody answers: the    *)
(* ask behind a prompt that is up is answered or withdrawn in the end, and *)
(* no other prompt's timer, opening or withdrawal takes that away.  A      *)
(* password is asked for again, so polkit's requests are not promised it.  *)
Up(n) ==
  \/ n \in {ui.showing, ui.installUp, ui.asking, ui.erasing}
  \/ ui.batchUp # None /\ ui.batchUp.n = n

ShownIsAnswered == \A n \in Ask : Up(n) ~> (told[n] = 1 \/ n \in ui.gone)

(* queue.rs: "the oldest parked prompt is always the one on screen         *)
(* whenever the seat is free".                                             *)
OldestIsShownWhenFree == Free(ui) => ui.order = <<>> /\ ui.batches = <<>>

(* mod.rs: "a prompt nobody answers fails closed after this long", TIMEOUT *)
(* from when it went up: the timer of an earlier prompt does not answer it.*)
OnlyItsOwnTimer == ~Free(ui) => Len(SelectSeq(ui.timers, LAMBDA t : t = ui.seat)) = 1

(* consent.rs schedule: "A prompt that cannot be drawn cannot be answered: *)
(* deny it now rather than leave the agent waiting on nothing."            *)
DeniedIsToldAtOnce == ui.resolved = <<>>
=============================================================================
