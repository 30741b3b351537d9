------------------------------ MODULE AgentLink ------------------------------
(***************************************************************************)
(* One task's life in two daemons: policyd, which owns its state (ec-      *)
(* policyd, dispatch.rs, behind the journal that TaskStore models), and    *)
(* agentd, which runs its agent (ec-agentd, core.rs), over the policyd.sock *)
(* link, which either end may drop and which neither resynchronises.       *)
(*                                                                         *)
(* Left out because they change nothing here: the Done that answers an     *)
(* Exited, the Revoked sent after every closed TaskState, reasons, and the *)
(* mark (drain_requested) that the Done of a drain leaves on a task whose  *)
(* state says as much.                                                     *)
(***************************************************************************)
EXTENDS TaskLifecycle, Integers, SequencesExt

CONSTANTS
  TaskIds,
  MaxReqs,          \* bound on the console's pause and cancel requests
  MaxBreaks,        \* bound on the connections that break by themselves
  MaxPolicydDeaths, \* bound on policyd's restarts
  MaxAgentdDeaths   \* bound on agentd's restarts

ASSUME LinkAssumption ==
  {MaxReqs, MaxBreaks, MaxPolicydDeaths, MaxAgentdDeaths} \subseteq Nat

VARIABLES
  task,       \* policyd's journalled state of each task, or "none"
  byHuman,    \* Dispatch::paused: tasks a human paused, this run
  view,       \* agentd's state of each task, in memory and on disk
  running,    \* tasks whose agent process runs
  leftover,   \* Core::unreported
  pending,    \* Core::pending: requests waiting for policyd, with their task
  asked,      \* requests whose console client still waits
  reqs,       \* how many requests there were
  link,       \* whether Core::link is there
  conn,       \* the number of the live connection, 0 when there is none
  toPolicyd,  \* messages on their way to policyd, with their connection
  toAgentd,   \* messages on their way to agentd's core
  ended       \* how many connections, policyds and agentds ended

policydVars == <<task, byHuman>>
agentdVars  == <<view, running, leftover, pending, asked, reqs, link>>
wires       == <<conn, toPolicyd, toAgentd, ended>>
vars        == <<policydVars, agentdVars, wires>>

Closed(s) == s \in CloseReasons

(* What agentd is told of a state: no close reason.                        *)
Told(s) == IF Closed(s) THEN "closed" ELSE s

Modes    == {"pause", "drain", "cancel"}
Requests == [kind : Modes, task : TaskIds, req : 1..MaxReqs, conn : Nat]
Exits    == [kind : {"completed", "failed"}, task : TaskIds, req : {0}, conn : Nat]
Answers  == [kind : {"done", "refused"}, req : 1..MaxReqs]
Changes  == [kind : {"provision"}, task : TaskIds]
              \cup [kind : {"state"}, task : TaskIds, state : LiveStates \cup {"closed"}]
Marks    == [kind : {"up", "down"}]

-----------------------------------------------------------------------------
(* policyd.                                                                *)

(* route: what cannot be sent is dropped.  Answers go to the connection    *)
(* that asked, changes to the one that is there now.                       *)
Send(answers, asker, changes) ==
  toAgentd' = toAgentd \o (IF conn # 0 /\ asker = conn THEN answers ELSE <<>>)
                       \o (IF conn # 0 THEN changes ELSE <<>>)

Changed(t, s) == <<[kind |-> "state", task |-> t, state |-> Told(s)]>>
Answer(kind, r) == <<[kind |-> kind, req |-> r]>>

(* Dispatch::create, from the commit slot: only with an agentd connected.  *)
Create(t) ==
  /\ conn # 0 /\ task[t] = "none"
  /\ task' = [task EXCEPT ![t] = "active"]
  /\ Send(<<>>, 0, <<[kind |-> "provision", task |-> t]>>)
  /\ UNCHANGED <<byHuman, agentdVars, conn, toPolicyd, ended>>

(* Dispatch::unpause, from the commit slot: only what this run saw paused. *)
Unpausable(t) == task[t] = "paused" /\ t \in byHuman

Unpause_Silent(t) ==
  /\ Unpausable(t)
  /\ task' = [task EXCEPT ![t] = "active"]
  /\ byHuman' = byHuman \ {t}
  /\ UNCHANGED <<agentdVars, wires>>

Unpause(t) ==
  /\ Unpausable(t)
  /\ task' = [task EXCEPT ![t] = "active"]
  /\ byHuman' = byHuman \ {t}
  /\ Send(<<>>, 0, Changed(t, "active"))
  /\ UNCHANGED <<agentdVars, conn, toPolicyd, ended>>

(* ToPolicyd::Revoke or Terminate, from the compositor's panel.            *)
Terminate_Silent(t) ==
  /\ IsLive(task[t])
  /\ task' = [task EXCEPT ![t] = "cancelled"]
  /\ UNCHANGED <<byHuman, agentdVars, wires>>

Terminate(t) ==
  /\ IsLive(task[t])
  /\ task' = [task EXCEPT ![t] = "cancelled"]
  /\ Send(<<>>, 0, Changed(t, "cancelled"))
  /\ UNCHANGED <<byHuman, agentdVars, conn, toPolicyd, ended>>

(* Dispatch::pause and Dispatch::cancel, asked by agentd.                  *)
EventOf(m) ==
  IF m.kind = "drain" /\ task[m.task] = "draining" THEN "cancel" ELSE m.kind

Accepted(m) ==
  /\ m.kind = "pause" => task[m.task] = "active"
  /\ Successors(task[m.task], EventOf(m)) # {}

HandleRequest ==
  LET m == Head(toPolicyd)
  IN  /\ toPolicyd # <<>> /\ m.kind \in Modes
      /\ toPolicyd' = Tail(toPolicyd)
      /\ IF Accepted(m)
         THEN \E s \in Successors(task[m.task], EventOf(m)) :
                /\ task' = [task EXCEPT ![m.task] = s]
                /\ byHuman' = IF m.kind = "pause" THEN byHuman \cup {m.task}
                                                  ELSE byHuman \ {m.task}
                /\ Send(Answer("done", m.req), m.conn, Changed(m.task, s))
         ELSE /\ UNCHANGED policydVars
              /\ Send(Answer("refused", m.req), m.conn, <<>>)
      /\ UNCHANGED <<agentdVars, conn, ended>>

(* Dispatch::exited: a completed agent is drained first.                   *)
HandleExited_Undrained ==
  LET m == Head(toPolicyd)
      t == m.task
  IN  /\ toPolicyd # <<>> /\ m.kind \in {"completed", "failed"}
      /\ toPolicyd' = Tail(toPolicyd)
      /\ IF \/ m.kind = "completed" /\ task[t] = "draining"
            \/ m.kind = "failed" /\ IsLive(task[t])
         THEN /\ task' = [task EXCEPT ![t] = m.kind]
              /\ byHuman' = byHuman \ {t}
              /\ Send(<<>>, 0, Changed(t, m.kind))
         ELSE UNCHANGED <<policydVars, toAgentd>>
      /\ UNCHANGED <<agentdVars, conn, ended>>

HandleExited ==
  LET m == Head(toPolicyd)
      t == m.task
  IN  /\ toPolicyd # <<>> /\ m.kind \in {"completed", "failed"}
      /\ toPolicyd' = Tail(toPolicyd)
      /\ IF IsLive(task[t])
         THEN /\ task' = [task EXCEPT ![t] = m.kind]
              /\ byHuman' = byHuman \ {t}
              /\ Send(<<>>, 0,
                      (IF m.kind = "completed" /\ task[t] # "draining"
                       THEN Changed(t, "draining") ELSE <<>>) \o Changed(t, m.kind))
         ELSE UNCHANGED <<policydVars, toAgentd>>
      /\ UNCHANGED <<agentdVars, conn, ended>>

-----------------------------------------------------------------------------
(* agentd's core: one message at a time.                                   *)

Open(t) == view[t] \notin {"none", "closed"}

(* Core::link is the connection that is there now.                         *)
Connected == link /\ conn # 0 /\ \A i \in DOMAIN toAgentd : toAgentd[i].kind # "up"

(* Core::send_policyd: whether it says it sent.  A connection that broke   *)
(* takes messages until the core notices.                                  *)
Sends(m, ok) ==
  /\ ok \in (IF Connected THEN {TRUE} ELSE IF link THEN BOOLEAN ELSE {FALSE})
  /\ toPolicyd' = IF Connected THEN Append(toPolicyd, m) ELSE toPolicyd
  /\ link' = (link /\ ok)

Exited(t, how) == [kind |-> how, task |-> t, req |-> 0, conn |-> conn]

(* m_pause_cancel: the console asks, and is told at once when it cannot be *)
(* passed on.                                                              *)
Ask(t, mode) ==
  /\ Open(t) /\ reqs < MaxReqs
  /\ reqs' = reqs + 1
  /\ \E ok \in BOOLEAN :
       /\ Sends([kind |-> mode, task |-> t, req |-> reqs', conn |-> conn], ok)
       /\ pending' = IF ok THEN pending \cup {[req |-> reqs', task |-> t]} ELSE pending
       /\ asked' = IF ok THEN asked \cup {reqs'} ELSE asked
  /\ UNCHANGED <<policydVars, view, running, leftover, conn, toAgentd, ended>>

(* pending_reply, for some of the pending requests.                        *)
Reply(done) ==
  /\ pending' = pending \ done
  /\ asked' = asked \ { p.req : p \in done }

(* tick: five seconds without an answer.                                   *)
Timeout(p) ==
  /\ Reply({p})
  /\ UNCHANGED <<policydVars, view, running, leftover, reqs, link, wires>>

(* The console hangs up.                                                   *)
HangUp(r) ==
  /\ asked' = asked \ {r}
  /\ pending' = { p \in pending : p.req # r }
  /\ UNCHANGED <<policydVars, view, running, leftover, reqs, link, wires>>

(* The agent process ends by itself.                                       *)
ProcExit(t, how) ==
  /\ running' = running \ {t}
  /\ \E ok \in BOOLEAN : Sends(Exited(t, how), ok)
  /\ UNCHANGED <<policydVars, view, leftover, pending, asked, reqs, conn, toAgentd, ended>>

(* The messages policyd and the link's thread put in the core's channel.   *)
Take(kinds) ==
  /\ toAgentd # <<>> /\ Head(toAgentd).kind \in kinds
  /\ toAgentd' = Tail(toAgentd)
  /\ UNCHANGED <<policydVars, reqs, conn, ended>>

(* provision: the agent starts, or fails to after the task was stored, or  *)
(* the task cannot be stored.                                              *)
OnProvision ==
  LET t == Head(toAgentd).task
  IN  /\ Take({"provision"})
      /\ IF view[t] # "none" THEN UNCHANGED <<view, running, link, toPolicyd>>
         ELSE \/ /\ view' = [view EXCEPT ![t] = "active"]
                 /\ running' = running \cup {t}
                 /\ UNCHANGED <<link, toPolicyd>>
              \/ /\ \E v \in {"none", "active"} : view' = [view EXCEPT ![t] = v]
                 /\ \E ok \in BOOLEAN : Sends(Exited(t, "failed"), ok)
                 /\ UNCHANGED running
      /\ UNCHANGED <<leftover, pending, asked>>

(* task_state, and finish_close when it closes.                            *)
OnTaskState ==
  LET t == Head(toAgentd).task
      s == Head(toAgentd).state
      closes == Open(t) /\ s = "closed"
  IN  /\ Take({"state"})
      /\ view' = IF Open(t) THEN [view EXCEPT ![t] = s] ELSE view
      /\ running' = IF closes THEN running \ {t} ELSE running
      /\ pending' = IF closes THEN { p \in pending : p.task # t } ELSE pending
      /\ UNCHANGED <<leftover, asked, link, toPolicyd>>

OnAnswer ==
  /\ Take({"done", "refused"})
  /\ Reply({ p \in pending : p.req = Head(toAgentd).req })
  /\ UNCHANGED <<view, running, leftover, link, toPolicyd>>

(* LinkUp: the tasks a restart closed are reported, until a send fails.    *)
OnLinkUp_Forgets ==
  /\ Take({"up"})
  /\ link' = TRUE /\ leftover' = {}
  /\ UNCHANGED <<view, running, pending, asked, toPolicyd>>

OnLinkUp ==
  /\ Take({"up"})
  /\ IF conn # 0 /\ \A i \in DOMAIN toAgentd' : toAgentd'[i].kind # "up"
     THEN /\ link' = TRUE /\ leftover' = {}
          /\ LET left == SetToSeq(leftover)
             IN  toPolicyd' = toPolicyd \o
                   [ i \in DOMAIN left |-> Exited(left[i], "failed") ]
     ELSE /\ leftover' \in SUBSET leftover
          /\ link' = (leftover' = {})
          /\ UNCHANGED toPolicyd
  /\ UNCHANGED <<view, running, pending, asked>>

OnLinkDown ==
  /\ Take({"down"})
  /\ link' = FALSE /\ Reply(pending)
  /\ UNCHANGED <<view, running, leftover, toPolicyd>>

-----------------------------------------------------------------------------
(* The link and its ends.                                                  *)

(* The link's thread dials, or redials, and reads the key offer.           *)
Connect ==
  /\ conn = 0
  /\ conn' = 1 + ended.breaks + ended.policyd + ended.agentd
  /\ toAgentd' = Append(toAgentd, [kind |-> "up"])
  /\ UNCHANGED <<policydVars, agentdVars, toPolicyd, ended>>

(* What the other end has not read is lost, from some message on.          *)
LosesSuffix(old, new) == \E n \in 0..Len(old) : new = SubSeq(old, 1, n)

EndOfConn ==
  /\ conn' = 0
  /\ IF conn = 0 THEN UNCHANGED toAgentd
     ELSE \E kept \in { SubSeq(toAgentd, 1, n) : n \in 0..Len(toAgentd) } :
            toAgentd' = Append(kept, [kind |-> "down"])

LinkBreaks ==
  /\ conn # 0 /\ ended.breaks < MaxBreaks
  /\ ended' = [ended EXCEPT !.breaks = @ + 1]
  /\ EndOfConn /\ LosesSuffix(toPolicyd, toPolicyd')
  /\ UNCHANGED <<policydVars, agentdVars>>

(* policyd ends and starts again: its journal stays.                       *)
PolicydRestarts ==
  /\ ended.policyd < MaxPolicydDeaths
  /\ ended' = [ended EXCEPT !.policyd = @ + 1]
  /\ EndOfConn /\ toPolicyd' = <<>>
  /\ byHuman' = {}
  /\ UNCHANGED <<task, agentdVars>>

(* agentd ends, and its agents with it (bwrap --die-with-parent); Core::new *)
(* closes the tasks it finds open on disk.                                 *)
AgentdRestarts ==
  /\ ended.agentd < MaxAgentdDeaths
  /\ ended' = [ended EXCEPT !.agentd = @ + 1]
  /\ conn' = 0 /\ toAgentd' = <<>> /\ LosesSuffix(toPolicyd, toPolicyd')
  /\ leftover' = { t \in TaskIds : Open(t) }
  /\ view' = [t \in TaskIds |-> IF Open(t) THEN "closed" ELSE view[t]]
  /\ running' = {} /\ link' = FALSE /\ pending' = {} /\ asked' = {}
  /\ UNCHANGED <<policydVars, reqs>>

-----------------------------------------------------------------------------
Init ==
  /\ task = [t \in TaskIds |-> "none"] /\ byHuman = {}
  /\ view = [t \in TaskIds |-> "none"] /\ running = {} /\ leftover = {}
  /\ pending = {} /\ asked = {} /\ reqs = 0 /\ link = FALSE
  /\ conn = 0 /\ toPolicyd = <<>> /\ toAgentd = <<>>
  /\ ended = [breaks |-> 0, policyd |-> 0, agentd |-> 0]

PolicydHandles == HandleRequest \/ HandleExited
AgentdTakes    == OnProvision \/ OnTaskState \/ OnAnswer \/ OnLinkUp \/ OnLinkDown

Next ==
  \/ PolicydHandles \/ AgentdTakes
  \/ \E t \in TaskIds : Create(t) \/ Unpause(t) \/ Terminate(t)
  \/ \E t \in TaskIds, mode \in Modes : Ask(t, mode)
  \/ \E t \in running, how \in {"completed", "failed"} : ProcExit(t, how)
  \/ \E p \in pending : Timeout(p)
  \/ \E r \in asked : HangUp(r)
  \/ Connect \/ LinkBreaks \/ PolicydRestarts \/ AgentdRestarts

Spec == Init /\ [][Next]_vars

(* Each daemon's one thread takes the next message, agentd's link thread   *)
(* redials every second and its tick comes.                                *)
FairSpec ==
  /\ Spec
  /\ WF_vars(PolicydHandles) /\ WF_vars(AgentdTakes) /\ WF_vars(Connect)
  /\ WF_vars(\E p \in pending : Timeout(p))

-----------------------------------------------------------------------------
(* Properties.                                                             *)

(* Every variable holds what its comment says it does.                     *)
TypeOK ==
  /\ task \in [TaskIds -> TaskStates \cup {"none"}] /\ byHuman \subseteq TaskIds
  /\ view \in [TaskIds -> LiveStates \cup {"closed", "none"}]
  /\ running \subseteq TaskIds /\ leftover \subseteq TaskIds
  /\ pending \subseteq [req : 1..MaxReqs, task : TaskIds]
  /\ asked \subseteq 1..MaxReqs /\ reqs \in 0..MaxReqs
  /\ link \in BOOLEAN /\ conn \in Nat
  /\ toPolicyd \in Seq(Requests \cup Exits)
  /\ toAgentd \in Seq(Answers \cup Changes \cup Marks)
  /\ ended \in [breaks : 0..MaxBreaks, policyd : 0..MaxPolicydDeaths,
                 agentd : 0..MaxAgentdDeaths]

NothingEnded == ended = [breaks |-> 0, policyd |-> 0, agentd |-> 0]

(* As long as no connection and no daemon ended, agentd agrees with        *)
(* policyd on every task it stored, once it has read everything.           *)
ViewsAgree ==
  NothingEnded /\ toAgentd = <<>> =>
    \A t \in TaskIds : view[t] # "none" => view[t] = Told(task[t])

(* After one restart of agentd, each task it closed itself is one it still *)
(* has to report or one whose report policyd will read.                    *)
ReportsOwed ==
  ended = [breaks |-> 0, policyd |-> 0, agentd |-> 1] =>
    \A t \in TaskIds : view[t] = "closed" /\ IsLive(task[t]) =>
      \/ t \in leftover
      \/ \E i \in DOMAIN toPolicyd : toPolicyd[i].task = t /\ toPolicyd[i].req = 0

(* An agent that ended by itself, and one that was never started, closes   *)
(* its task, unless an end of something may have lost the report.          *)
ExitCloses ==
  \A t \in TaskIds :
    IsLive(task[t]) /\ Open(t) /\ t \notin running
      ~> Closed(task[t]) \/ ~NothingEnded

(* "agentd stops the agent": the agent of a closed task ends.              *)
CloseStopsAgent ==
  \A t \in TaskIds : Closed(task[t]) ~> t \notin running

(* It does when nothing ended that may have lost the message.              *)
CloseStopsAgentUnlessLost ==
  \A t \in TaskIds : Closed(task[t]) ~> t \notin running \/ ~NothingEnded

(* "before the console is told": a client that waits has a pending request *)
(* that an answer or the deadline will end.                                *)
NoRequestForgotten == asked = { p.req : p \in pending }

(* "Pause is always reversible": the slot can unpause a paused task.       *)
PauseIsReversible == \A t \in TaskIds : task[t] = "paused" => Unpausable(t)
==============================================================================
