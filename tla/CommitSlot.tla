------------------------------ MODULE CommitSlot ------------------------------
(***************************************************************************)
(* "What was shown is what is submitted": the compositor's commit slots    *)
(* (ec-abyss, trusted_ui/commit.rs, slot.rs and the drafts of protocols/   *)
(* protected/mod.rs) and the policyd they ask (Dispatch), over policyd.sock. *)
(*                                                                         *)
(* A client sets a draft; the card asks policyd for a preview, draws it,   *)
(* arms after the conditions held for arm_ms, and a physical Enter commits *)
(* it.  The conditions are sampled, once a frame and in every handler.     *)
(*                                                                         *)
(* The compositor has a key while the link is up and keeps its table for   *)
(* good, so the model starts with one.  A slot's revision is left out:     *)
(* whatever bumps it also drops the preview or stamps it anew.  The hash   *)
(* that names a draft in the audit log is the draft itself.                *)
(***************************************************************************)
EXTENDS Dispatch, SequencesExt

CONSTANTS
  Places,   \* geometries of a host that is focused and fully visible
  ArmMs,    \* slot_arm_ms, in ticks
  MaxReqs,  \* bound on the requests after which no draft is set or applied
  MaxDeaths \* bound on policyd's restarts

ASSUME SlotAssumption ==
  {ArmMs, MaxReqs, MaxDeaths, MaxIds, MaxVersion, MaxEdits, MaxPreviews} \subseteq Nat

VARIABLES
  card,      \* the slot and its card (Slot, Card and Arming)
  scene,     \* where the host window is and whether it has focus
  modal,     \* the modal commit card on screen: slot and preview, or None
  keyed,     \* policy_key: the compositor believes the link is up
  reqs,      \* requests sent
  toPolicyd, \* the cards' messages in the socket or still queued behind it
  toAbyss,   \* policyd's answers, and the end of the connection
  deaths,    \* how often policyd died
  presses,   \* history: what was committed, and what was shown when it was
  audited    \* the commit records of the audit log: request and draft hash

slotVars ==
  <<card, scene, modal, keyed, reqs, toPolicyd, toAbyss, deaths, presses, audited>>
vars     == <<dispatchVars, slotVars>>

(* Where the host is focused and the slot fully visible, one value for each *)
(* geometry; "hidden", any reason to suspend the slot; and "large",        *)
(* overflow or fullscreen, where Enter opens the modal card instead.       *)
Scenes == Places \cup {"hidden", "large"}

NoCard ==
  [draft |-> None, pending |-> None, asking |-> 0, preview |-> None,
   refused |-> FALSE, committing |-> 0, hash |-> None,
   since |-> None, age |-> 0, read |-> 0]

Latest(c) == IF c.pending # None THEN c.pending ELSE c.draft

-----------------------------------------------------------------------------
(* slot.rs: the arming rule.                                               *)

(* sample: the preview counts only while no newer draft and no commit      *)
(* waits.                                                                  *)
Conditions(c, at, k, m) ==
  [preview |-> IF c.preview # None /\ c.pending = None /\ c.committing = 0
               THEN c.preview.id ELSE 0,
   refused |-> c.refused, available |-> k, scene |-> at, modal |-> m # None]

(* blocker: nothing keeps the slot from arming.                            *)
Ready(c) ==
  /\ c.available /\ ~c.refused /\ c.scene \in Places /\ ~c.modal
  /\ c.preview # 0

(* observe: any change of a condition restarts the timer.                  *)
TimedFrom(c, x) == [c EXCEPT !.since = x, !.age = 0]
Observed(c, x) ==
  IF ~Ready(x) THEN TimedFrom(c, None)
  ELSE IF c.since = x THEN c ELSE TimedFrom(c, x)

(* tick: every slot is sampled.                                            *)
Sampled(cards, at, k, m) ==
  [s \in Slots |-> Observed(cards[s], Conditions(cards[s], at[s], k, m))]

Armed_Early(c) == c.since # None /\ c.age + 1 >= ArmMs
Armed(c)       == c.since # None /\ c.age >= ArmMs

-----------------------------------------------------------------------------
(* Drafts.                                                                 *)

Dropped(c) == [c EXCEPT !.preview = None, !.refused = FALSE, !.asking = 0,
                        !.read = 0]

(* draft_changed: the preview goes and another is asked for.               *)
Ask(s, c) ==
  /\ reqs' = reqs + 1
  /\ card' = Sampled([card EXCEPT ![s] = [Dropped(c) EXCEPT !.asking = reqs + 1,
                                                           !.hash = c.draft]],
                     scene, keyed, modal)
  /\ toPolicyd' = Append(toPolicyd,
       [kind |-> "preview", req |-> reqs + 1, slot |-> s, draft |-> c.draft])

ApplyDraft(s, d) ==
  /\ reqs < MaxReqs
  /\ Ask(s, [card[s] EXCEPT !.draft = d, !.pending = None])
  /\ UNCHANGED <<dispatchVars, scene, modal, keyed, toAbyss, deaths, presses, audited>>

(* set_draft: applied, or, unless it is the first, held back by the 10/s   *)
(* limit and only the last one kept.                                       *)
HoldDraft(s, d) ==
  /\ card[s].hash # None
  /\ card' = [card EXCEPT ![s].pending = d]
  /\ UNCHANGED <<dispatchVars, scene, modal, keyed, reqs, toPolicyd, toAbyss,
                 deaths, presses, audited>>

SetDraft(s) ==
  /\ reqs < MaxReqs
  /\ \E d \in Drafts \ {Latest(card[s])} : ApplyDraft(s, d) \/ HoldDraft(s, d)

FlushDraft(s) == card[s].pending # None /\ ApplyDraft(s, card[s].pending)

(* cancel, or a draft that is refused at once: the slot's draft is empty.  *)
Cancel(s) ==
  /\ Latest(card[s]) # None
  /\ card' = Sampled([card EXCEPT ![s] =
                        [Dropped(@) EXCEPT !.draft = None, !.pending = None]],
                     scene, keyed, modal)
  /\ UNCHANGED <<dispatchVars, scene, modal, keyed, reqs, toPolicyd, toAbyss,
                 deaths, presses, audited>>

-----------------------------------------------------------------------------
(* The human, the window manager and the clock.                            *)

Move(s) ==
  /\ \E at \in Scenes \ {scene[s]} : scene' = [scene EXCEPT ![s] = at]
  /\ UNCHANGED <<dispatchVars, card, modal, keyed, reqs, toPolicyd, toAbyss,
                 deaths, presses, audited>>

(* Time passes; a frame, which samples, comes more often than a tick.      *)
Aged(c) == [c EXCEPT !.age  = IF c.since = None \/ @ = ArmMs THEN @ ELSE @ + 1,
                     !.read = IF c.preview = None \/ @ = ArmMs THEN @ ELSE @ + 1]

Tick ==
  /\ card' = [s \in Slots |-> Aged(Sampled(card, scene, keyed, modal)[s])]
  /\ card' # card
  /\ UNCHANGED <<dispatchVars, scene, modal, keyed, reqs, toPolicyd, toAbyss,
                 deaths, presses, audited>>

MayCommit_Pending(c) == TRUE
(* commit: never past a draft that is newer than the one on screen.        *)
MayCommit(c) == c.pending = None

Commit(s, cards, m) ==
  LET c == cards[s]
  IN  /\ MayCommit(c)
      /\ reqs' = reqs + 1
      /\ card' = Sampled([cards EXCEPT ![s].committing = reqs + 1,
                                       ![s].preview = None, ![s].read = 0],
                         scene, keyed, m)
      /\ toPolicyd' = Append(toPolicyd,
           [kind |-> "create", req |-> reqs + 1, slot |-> s, id |-> c.preview.id])
      /\ presses' = presses \cup
           {[slot |-> s, req |-> reqs + 1, shown |-> c.preview, latest |-> Latest(c),
             read |-> IF modal = None THEN c.read ELSE ArmMs]}
      /\ UNCHANGED <<dispatchVars, scene, keyed, toAbyss, deaths, audited>>

(* enter (or a click on the commit control) samples first; an unready slot *)
(* drops it.                                                               *)
Enter(s) ==
  LET cards == Sampled(card, scene, keyed, modal)
  IN  /\ Armed(cards[s])
      /\ Commit(s, cards, modal) /\ UNCHANGED modal

OpenModal(s) ==
  /\ keyed /\ ~card[s].refused /\ scene[s] = "large"
  /\ modal = None /\ card[s].preview # None
  /\ modal' = [slot |-> s, id |-> card[s].preview.id]
  /\ card' = Sampled(card, scene, keyed, modal)
  /\ UNCHANGED <<dispatchVars, scene, keyed, reqs, toPolicyd, toAbyss, deaths, presses, audited>>

(* answer: only if the card still has the preview the modal was opened on. *)
StillShown(c) == c.preview # None /\ c.preview.id = modal.id

GrantModal ==
  /\ modal # None /\ StillShown(card[modal.slot])
  /\ modal' = None
  /\ Commit(modal.slot, card, None)

CloseModal ==
  /\ modal # None
  /\ modal' = None
  /\ UNCHANGED <<dispatchVars, card, scene, keyed, reqs, toPolicyd, toAbyss,
                 deaths, presses, audited>>

-----------------------------------------------------------------------------
(* policyd answers, one message at a time.                                 *)

Down      == [kind |-> "down"]
Connected == keyed /\ ~Contains(toAbyss, Down)

Answered(m) == toPolicyd' = Tail(toPolicyd) /\ toAbyss' = Append(toAbyss, m)

(* A preview is also refused while no agentd is connected.                 *)
HandlePreview ==
  LET m == Head(toPolicyd)
  IN  /\ Connected /\ toPolicyd # <<>> /\ m.kind = "preview"
      /\ \/ /\ Preview(m.slot, m.draft)
            /\ Answered([kind |-> "preview", req |-> m.req, id |-> ids + 1,
                         promise |-> Promise(m.draft)])
         \/ /\ Answered([kind |-> "refused", req |-> m.req, stale |-> FALSE])
            /\ UNCHANGED dispatchVars
      /\ UNCHANGED <<card, scene, modal, keyed, reqs, deaths, presses, audited>>

HandleCreate ==
  LET m == Head(toPolicyd)
      fresh == { p \in Named(m.id) : Fresh(p, m.slot) }
  IN  /\ Connected /\ toPolicyd # <<>> /\ m.kind = "create"
      /\ Spend(m.id)
      /\ \/ \E p \in fresh :
              Create(p) /\ Answered([kind |-> "created", req |-> m.req])
         \/ /\ Answered([kind |-> "refused", req |-> m.req, stale |-> fresh = {}])
            /\ UNCHANGED tasks
      /\ UNCHANGED <<card, scene, modal, keyed, reqs, deaths, presses, audited>>

-----------------------------------------------------------------------------
(* The compositor takes the answers.                                       *)

(* by_req: an answer to a request no card waits for is dropped.            *)
Asking(r)     == { s \in Slots : card[s].asking = r }
Committing(r) == { s \in Slots : card[s].committing = r }

Took(cards) == card' = Sampled(cards, scene, keyed, modal)

(* preview, created and refused; a stale preview is asked for again, and a *)
(* created task is audited under the card's draft hash.                    *)
TakePreview(m) ==
  /\ m.kind = "preview"
  /\ Took([s \in Slots |->
       IF s \in Asking(m.req)
       THEN [card[s] EXCEPT !.asking = 0, !.preview = [id |-> m.id, promise |-> m.promise]]
       ELSE card[s]])
  /\ UNCHANGED <<reqs, toPolicyd, audited>>

TakeCreated_Waiting(m) ==
  /\ m.kind = "created"
  /\ audited' = audited \cup
       { [req |-> m.req, draft |-> card[s].hash] : s \in Committing(m.req) }
  /\ UNCHANGED <<card, reqs, toPolicyd>>

TakeCreated(m) ==
  /\ m.kind = "created"
  /\ Took([s \in Slots |-> IF s \in Committing(m.req)
                           THEN [card[s] EXCEPT !.committing = 0] ELSE card[s]])
  /\ audited' = audited \cup
       { [req |-> m.req, draft |-> card[s].hash] : s \in Committing(m.req) }
  /\ UNCHANGED <<reqs, toPolicyd>>

Refused(s, m) ==
  [card[s] EXCEPT !.refused = s \in Asking(m.req) \cup Committing(m.req) \/ @,
                  !.asking = IF @ = m.req THEN 0 ELSE @,
                  !.committing = IF @ = m.req THEN 0 ELSE @]

TakeRefused(m) ==
  /\ m.kind = "refused" /\ UNCHANGED audited
  /\ IF m.stale /\ \E s \in Committing(m.req) : card[s].draft # None
     THEN \E s \in Committing(m.req) :
            card[s].draft # None /\ Ask(s, [card[s] EXCEPT !.committing = 0])
     ELSE IF m.stale
     THEN /\ Took([s \in Slots |-> IF s \in Committing(m.req)
                                   THEN Dropped([card[s] EXCEPT !.committing = 0])
                                   ELSE card[s]])
          /\ UNCHANGED <<reqs, toPolicyd>>
     ELSE /\ Took([s \in Slots |-> Refused(s, m)])
          /\ UNCHANGED <<reqs, toPolicyd>>

Deliver ==
  /\ keyed /\ toAbyss # <<>> /\ Head(toAbyss) # Down
  /\ toAbyss' = Tail(toAbyss)
  /\ LET m == Head(toAbyss) IN TakePreview(m) \/ TakeCreated(m) \/ TakeRefused(m)
  /\ UNCHANGED <<dispatchVars, scene, modal, keyed, deaths, presses>>

(* down: no card is told, and the next frame sees it.                      *)
LinkDown ==
  /\ keyed /\ toAbyss # <<>> /\ Head(toAbyss) = Down
  /\ toAbyss' = Tail(toAbyss) /\ keyed' = FALSE
  /\ UNCHANGED <<dispatchVars, card, scene, modal, reqs, toPolicyd, deaths, presses, audited>>

(* The redial, every second; what is still queued goes out.                *)
LinkUp ==
  /\ ~keyed
  /\ keyed' = TRUE
  /\ UNCHANGED <<dispatchVars, card, scene, modal, reqs, toPolicyd, toAbyss,
                 deaths, presses, audited>>

(* policyd dies with the requests it has read or that wait in the socket;  *)
(* the answers it sent can still be read.                                  *)
PolicydDies ==
  /\ deaths < MaxDeaths /\ deaths' = deaths + 1
  /\ Restart
  /\ IF Connected
     THEN /\ \E k \in 0..Len(toPolicyd) :
               toPolicyd' = SubSeq(toPolicyd, k + 1, Len(toPolicyd))
          /\ toAbyss' = Append(toAbyss, Down)
     ELSE UNCHANGED <<toPolicyd, toAbyss>>
  /\ UNCHANGED <<card, scene, modal, keyed, reqs, presses, audited>>

-----------------------------------------------------------------------------
Init ==
  /\ DispatchInit
  /\ card = [s \in Slots |-> NoCard] /\ scene = [s \in Slots |-> "hidden"]
  /\ modal = None /\ keyed = TRUE /\ reqs = 0 /\ deaths = 0
  /\ toPolicyd = <<>> /\ toAbyss = <<>> /\ presses = {} /\ audited = {}

Client == \E s \in Slots : SetDraft(s) \/ FlushDraft(s) \/ Cancel(s)
Human  == (\E s \in Slots : Enter(s) \/ OpenModal(s)) \/ GrantModal \/ CloseModal
Desk   == (\E s \in Slots : Move(s)) \/ Tick
Daemon == HandlePreview \/ HandleCreate
Aside  == (Installing \/ (\E p \in Packages : Edit(p)) \/ Recompile)
            /\ UNCHANGED slotVars
Wire   == Deliver \/ LinkDown \/ LinkUp

Next == Client \/ Human \/ Desk \/ Daemon \/ Aside \/ Wire \/ PolicydDies

Spec == Init /\ [][Next]_vars

-----------------------------------------------------------------------------
(* Properties.                                                             *)

MaxReq == MaxReqs + 2 * MaxIds

Requests ==
  [kind : {"preview"}, req : 1..MaxReq, slot : Slots, draft : Drafts]
    \cup [kind : {"create"}, req : 1..MaxReq, slot : Slots, id : 1..MaxIds]
Replies ==
  [kind : {"preview"}, req : 1..MaxReq, id : 1..MaxIds, promise : Promises]
    \cup [kind : {"created"}, req : 1..MaxReq]
    \cup [kind : {"refused"}, req : 1..MaxReq, stale : BOOLEAN]
Shown == [id : 1..MaxIds, promise : Promises]
Cards ==
  [draft : Drafts \cup {None}, pending : Drafts \cup {None},
   asking : 0..MaxReq, preview : Shown \cup {None}, refused : BOOLEAN,
   committing : 0..MaxReq, hash : Drafts \cup {None}, age : 0..ArmMs, read : 0..ArmMs,
   since : [preview : 1..MaxIds, refused : {FALSE}, available : {TRUE},
            scene : Places, modal : {FALSE}] \cup {None}]

(* Every variable holds what its comment says it does.                     *)
TypeOK ==
  /\ DispatchTypeOK
  /\ card \in [Slots -> Cards] /\ scene \in [Slots -> Scenes]
  /\ modal \in [slot : Slots, id : 1..MaxIds] \cup {None}
  /\ keyed \in BOOLEAN /\ reqs \in 0..MaxReq /\ deaths \in 0..MaxDeaths
  /\ toPolicyd \in Seq(Requests) /\ toAbyss \in Seq(Replies \cup {Down})
  /\ audited \subseteq [req : 1..MaxReq, draft : Drafts]
  /\ presses \subseteq [slot : Slots, req : 1..MaxReq, shown : Shown, latest : Drafts \cup {None},
                         read : 0..ArmMs]

Asks(d, promise) ==
  /\ promise.package = d.package /\ promise.statement = d.statement
  /\ promise.resumes = d.resumes
  /\ d.narrow # None => promise.lines = d.narrow

(* What was shown is what is submitted (A-08 section 5.2): every task is   *)
(* what its slot's card showed when the human pressed Enter, and that is   *)
(* the last draft the client had set, however drafts, answers, restarts    *)
(* and re-previews raced.                                                  *)
ShownIsSubmitted ==
  \A t \in tasks :
    \E p \in presses :
      /\ p.slot = t.slot /\ p.shown = [id |-> t.preview, promise |-> t.promise]
      /\ p.latest # None /\ Asks(p.latest, t.promise)

(* Nothing is committed that was not on the card for the arming delay, but *)
(* from the modal card (COMP-19 section 6).                                *)
CommitsWereRead == \A p \in presses : p.read >= ArmMs

(* A task gets no more than the install that stands when it is created,    *)
(* whatever was installed, in whichever order, since the preview was drawn. *)
AuthorityIsInstalled ==
  [][ \A t \in tasks' \ tasks :
        /\ installs[t.promise.package] # None
        /\ t.promise.lines \subseteq installs[t.promise.package].lines ]_vars

(* No card waits in vain: unless policyd died, which no card is told, what *)
(* a card waits for, a preview or its task, is on its way in one direction *)
(* or the other, refusals and stale previews included.                     *)
WaitsAreOwed ==
  deaths = 0 =>
    \A s \in Slots : \A r \in {card[s].asking, card[s].committing} \ {0} :
      \E m \in ToSet(toPolicyd) \cup ToSet(toAbyss) : m.req = r

(* ADR 0077: "The commit slot's draft hash covers the account, so the slot *)
(* audit records which account was committed": the record of a commit      *)
(* names the draft that was committed.                                     *)
AuditNamesTheCommitted ==
  \A a \in audited :
    \E p \in presses : p.req = a.req /\ Asks(a.draft, p.shown.promise)
==============================================================================
