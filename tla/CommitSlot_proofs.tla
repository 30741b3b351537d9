-------------------------- MODULE CommitSlot_proofs --------------------------
(***************************************************************************)
(* Proofs about CommitSlot and the Dispatch under it, for every value of   *)
(* their constants.  What the runs bound is not bounded here: TypeOK's      *)
(* ranges come from a count of requests, the types below do not need it.   *)
(***************************************************************************)
EXTENDS CommitSlot, TLAPS, SequenceTheorems

AnyInstall == [hash : Manifests, lines : SUBSET Lines, seq : Nat]
AnyReview  == [id : Nat, package : Packages, manifest : Manifests, hash : Manifests]
AnyPreview == [id : Nat, slot : Slots, promise : Promises, version : Nat, seq : Nat]

DispatchTypes ==
  /\ disk \in [Packages -> Manifests \cup {None}]
  /\ installs \in [Packages -> AnyInstall \cup {None}]
  /\ reviews \subseteq AnyReview /\ previews \subseteq AnyPreview
  /\ ids \in Nat /\ version \in Nat

(* A preview's package stays installed, and as long as the install is the  *)
(* one the preview was drawn from it still has the lines shown.  The       *)
(* sequence only grows, so that an equal number means the same install.    *)
PreviewsKeep ==
  \A p \in previews :
    /\ installs[p.promise.package] # None
    /\ p.seq <= installs[p.promise.package].seq
    /\ p.seq = installs[p.promise.package].seq =>
         p.promise.lines \subseteq installs[p.promise.package].lines

DispatchInv == DispatchTypes /\ PreviewsKeep

-----------------------------------------------------------------------------
(* The daemon.                                                             *)

(* What a previewed draft is promised is well formed and no more than the  *)
(* install.                                                                *)
LEMMA PromiseTyped ==
  ASSUME DispatchTypes, NEW d \in Drafts, Previewable(d)
  PROVE  /\ Promise(d) \in Promises /\ Promise(d).package = d.package
         /\ installs[d.package] \in AnyInstall
         /\ Promise(d).lines \subseteq installs[d.package].lines
<1>1. d.package \in Packages
  BY DispatchAssumption
<1>2. installs[d.package] \in AnyInstall
  BY <1>1 DEF Previewable, Present, DispatchTypes
<1>3. Promise(d).lines \subseteq installs[d.package].lines
  BY DEF Promise, Previewable, Narrows
<1>4. installs[d.package].lines \subseteq Lines
  BY <1>2 DEF AnyInstall
<1>5. Promise(d) \in Promises
  BY <1>1, <1>3, <1>4 DEF Promise, Promises
<1> QED BY <1>2, <1>3, <1>5 DEF Promise

(* A new install has a later sequence number than any preview of it names. *)
LEMMA InstallAnswerKeeps ==
  ASSUME DispatchInv, NEW r \in reviews, NEW approve \in BOOLEAN,
         InstallAnswer(r, approve)
  PROVE  DispatchInv'
<1> USE DEF DispatchInv
<1>1. r \in AnyReview
  BY DEF DispatchTypes
<1>2. UNCHANGED <<disk, previews, ids, version>> /\ reviews' \subseteq reviews
  BY DEF InstallAnswer
<1>3. CASE installs' = installs
  BY <1>2, <1>3 DEF DispatchTypes, PreviewsKeep
<1>4. CASE installs' # installs
  <2> DEFINE i == [hash |-> r.hash, lines |-> r.manifest.lines,
                   seq |-> NextSeq(r.package)]
  <2>1. installs' = [installs EXCEPT ![r.package] = i]
    BY <1>4 DEF InstallAnswer
  <2>2. NextSeq(r.package) \in Nat
    BY <1>1 DEF NextSeq, DispatchTypes, AnyReview, AnyInstall
  <2>3. r.manifest.lines \subseteq Lines
    BY <1>1 DEF Lines, AnyReview
  <2>4. i \in AnyInstall
    BY <1>1, <2>2, <2>3 DEF AnyInstall, AnyReview
  <2>5. DispatchTypes'
    BY <1>1, <1>2, <2>1, <2>4 DEF DispatchTypes, AnyReview
  <2>6. ASSUME NEW p \in previews
        PROVE  LET j == installs'[p.promise.package]
               IN  /\ j # None /\ p.seq <= j.seq
                   /\ p.seq = j.seq => p.promise.lines \subseteq j.lines
    <3>1. p \in AnyPreview /\ p.promise.package \in Packages
      BY DEF DispatchTypes, AnyPreview, Promises
    <3>2. CASE p.promise.package # r.package
      BY <2>1, <3>1, <3>2 DEF PreviewsKeep, DispatchTypes
    <3>3. CASE p.promise.package = r.package
      <4>1. installs[r.package] # None /\ p.seq <= installs[r.package].seq
        BY <3>3 DEF PreviewsKeep
      <4>2. installs[r.package] \in AnyInstall
        BY <3>1, <3>3, <4>1 DEF DispatchTypes
      <4>3. p.seq < i.seq
        BY <3>1, <4>1, <4>2 DEF NextSeq, AnyInstall, AnyPreview
      <4>4. i # None
        BY <2>4, DispatchAssumption DEF AnyInstall
      <4>5. installs'[p.promise.package] = i
        BY <1>1, <2>1, <3>1, <3>3 DEF DispatchTypes
      <4> QED BY <2>2, <3>1, <4>3, <4>4, <4>5 DEF AnyPreview
    <3> QED BY <3>2, <3>3
  <2> QED BY <1>2, <2>5, <2>6 DEF PreviewsKeep
<1> QED BY <1>3, <1>4

(* A review is bound to two contents of the manifest; no preview changes.  *)
LEMMA InstallingKeeps ==
  ASSUME DispatchInv, Installing
  PROVE  DispatchInv'
<1>1. CASE \E p \in Packages : InstallBegin(p)
  <2>1. PICK p \in Packages : InstallBegin(p)
    BY <1>1
  <2>2. PICK m \in Manifests :
          /\ Edited(p, m)
          /\ reviews' = reviews \cup
               {[id |-> ids + 1, package |-> p, manifest |-> disk[p], hash |-> m]}
    BY <2>1 DEF InstallBegin
  <2>3. disk[p] \in Manifests
    BY <2>1 DEF InstallBegin, DispatchInv, DispatchTypes
  <2>4. reviews' \subseteq AnyReview
    BY <2>2, <2>3 DEF DispatchInv, DispatchTypes, AnyReview
  <2>5. disk' \in [Packages -> Manifests \cup {None}]
    BY <2>2 DEF Edited, DispatchInv, DispatchTypes
  <2>6. UNCHANGED <<installs, previews, version>> /\ ids' = ids + 1
    BY <2>1 DEF InstallBegin
  <2> QED BY <2>4, <2>5, <2>6 DEF DispatchInv, DispatchTypes, PreviewsKeep
<1>2. CASE \E r \in reviews : ReviewExpires(r)
  BY <1>2 DEF ReviewExpires, DispatchInv, DispatchTypes, PreviewsKeep
<1>3. CASE \E r \in reviews, approve \in BOOLEAN : InstallAnswer(r, approve)
  BY <1>3, InstallAnswerKeeps
<1> QED BY <1>1, <1>2, <1>3 DEF Installing

LEMMA PreviewKeeps ==
  ASSUME DispatchInv, NEW s \in Slots, NEW d \in Drafts, Preview(s, d)
  PROVE  DispatchInv'
<1> DEFINE q == NewPreview(s, d)
<1>1. /\ Promise(d) \in Promises /\ Promise(d).package = d.package
      /\ installs[d.package] \in AnyInstall
      /\ Promise(d).lines \subseteq installs[d.package].lines
  BY PromiseTyped DEF Preview, DispatchInv
<1>2. q \in AnyPreview
  BY <1>1 DEF NewPreview, AnyPreview, AnyInstall, DispatchInv, DispatchTypes
<1>3. previews' \subseteq previews \cup {q}
  BY DEF Preview, Kept
<1>4. installs[d.package] # None
  BY DEF Preview, Previewable, Present
<1>5. /\ q.promise.package = d.package /\ q.seq = installs[d.package].seq
      /\ q.promise.lines \subseteq installs[d.package].lines
  BY <1>1 DEF NewPreview
<1>6. installs' = installs /\ UNCHANGED <<disk, reviews, version>> /\ ids' = ids + 1
  BY DEF Preview
<1>7. DispatchTypes'
  BY <1>2, <1>3, <1>6 DEF DispatchInv, DispatchTypes
<1>8. PreviewsKeep'
  BY <1>1, <1>3, <1>4, <1>5, <1>6 DEF DispatchInv, PreviewsKeep, AnyInstall
<1> QED BY <1>7, <1>8 DEF DispatchInv

(* What only forgets previews or reviews, or touches neither.              *)
LEMMA AsideKeeps ==
  ASSUME DispatchInv,
         \/ \E p \in Packages : Edit(p)
         \/ Recompile
         \/ Restart
         \/ \E id : Spend(id)
         \/ UNCHANGED dispatchVars
  PROVE  DispatchInv'
<1> USE DEF DispatchInv, DispatchTypes, PreviewsKeep
<1>1. CASE \E p \in Packages : Edit(p)
  BY <1>1 DEF Edit, Edited
<1>2. CASE Recompile
  BY <1>2 DEF Recompile
<1>3. CASE Restart
  BY <1>3 DEF Restart
<1>4. CASE \E id : Spend(id)
  BY <1>4 DEF Spend, Named
<1>5. CASE UNCHANGED dispatchVars
  BY <1>5 DEF dispatchVars
<1> QED BY <1>1, <1>2, <1>3, <1>4, <1>5

(* A fresh preview promises no more than the install that stands.          *)
LEMMA CreateIsInstalled ==
  ASSUME DispatchInv, NEW p \in previews, NEW s, Fresh(p, s), Create(p)
  PROVE  \A t \in tasks' \ tasks :
           /\ installs[t.promise.package] # None
           /\ t.promise.lines \subseteq installs[t.promise.package].lines
  BY DEF Fresh, Create, DispatchInv, PreviewsKeep

-----------------------------------------------------------------------------
(* The card.                                                               *)

AnyShown == [id : Nat, promise : Promises]
AnyConditions ==
  [preview : Nat, refused : BOOLEAN, available : BOOLEAN, scene : Scenes,
   modal : BOOLEAN]
AnyCard ==
  [draft : Drafts \cup {None}, pending : Drafts \cup {None}, asking : Nat,
   preview : AnyShown \cup {None}, refused : BOOLEAN, committing : Nat,
   hash : Drafts \cup {None}, since : AnyConditions \cup {None},
   age : Nat, read : Nat]
AnyRequest ==
  [kind : {"preview"}, req : Nat, slot : Slots, draft : Drafts]
    \cup [kind : {"create"}, req : Nat, slot : Slots, id : Nat]
AnyReply ==
  [kind : {"preview"}, req : Nat, id : Nat, promise : Promises]
    \cup [kind : {"created"}, req : Nat]
    \cup [kind : {"refused"}, req : Nat, stale : BOOLEAN]

SlotTypes ==
  /\ card \in [Slots -> AnyCard] /\ scene \in [Slots -> Scenes]
  /\ modal \in [slot : Slots, id : Nat] \cup {None}
  /\ keyed \in BOOLEAN /\ reqs \in Nat
  /\ toPolicyd \in Seq(AnyRequest) /\ toAbyss \in Seq(AnyReply \cup {Down})

(* While a card is handled, before it is sampled: the preview has been     *)
(* shown for as long as the timer ran, if there is one.                    *)
Handled(c) ==
  /\ c.preview # None => c.age <= c.read
  /\ c.preview = None => c.read = 0
  /\ c.asking # 0 => c.preview = None

(* Between two steps: the timer runs only over a preview, and for no       *)
(* longer than the preview has been shown.                                 *)
Reading(c) ==
  /\ c.age <= c.read
  /\ c.since # None => c.preview # None
  /\ c.preview = None => c.read = 0
  /\ c.asking # 0 => c.preview = None

ReadingInv == /\ \A s \in Slots : Reading(card[s])
              /\ CommitsWereRead

SlotInv == SlotTypes /\ ReadingInv

(* Setting the timer changes nothing else of a card.                       *)
LEMMA TimerSet ==
  ASSUME NEW c \in AnyCard, NEW v \in AnyConditions \cup {None}
  PROVE  LET o == TimedFrom(c, v)
         IN  /\ o \in AnyCard /\ o.since = v /\ o.age = 0
             /\ o.draft = c.draft /\ o.pending = c.pending
             /\ o.preview = c.preview /\ o.read = c.read /\ o.asking = c.asking
<1> HIDE DEF AnyConditions
<1> QED BY DEF TimedFrom, AnyCard

(* A sample leaves the draft and the preview alone and settles the timer.  *)
LEMMA ObservedReads ==
  ASSUME NEW c \in AnyCard, NEW x \in AnyConditions,
         Handled(c), Ready(x) => c.preview # None
  PROVE  LET o == Observed(c, x)
         IN  /\ o \in AnyCard /\ Reading(o)
             /\ o.draft = c.draft /\ o.pending = c.pending
             /\ o.preview = c.preview /\ o.read = c.read
             /\ o.since # None => Ready(x)
<1> DEFINE o == Observed(c, x)
<1>1. c.read \in Nat
  BY DEF AnyCard
<1>2. CASE ~Ready(x)
  <2>1. o = TimedFrom(c, None)
    BY <1>2 DEF Observed
  <2>2. /\ o \in AnyCard /\ o.since = None /\ o.age = 0
        /\ o.draft = c.draft /\ o.pending = c.pending
        /\ o.preview = c.preview /\ o.read = c.read /\ o.asking = c.asking
    BY <2>1, TimerSet
  <2> QED BY <1>1, <2>2 DEF Reading, Handled
<1>3. CASE Ready(x) /\ c.since = x
  BY <1>3 DEF Observed, AnyCard, Reading, Handled
<1>4. CASE Ready(x) /\ c.since # x
  <2>1. o = TimedFrom(c, x)
    BY <1>4 DEF Observed
  <2>2. /\ o \in AnyCard /\ o.since = x /\ o.age = 0
        /\ o.draft = c.draft /\ o.pending = c.pending
        /\ o.preview = c.preview /\ o.read = c.read /\ o.asking = c.asking
    BY <2>1, TimerSet
  <2> QED BY <1>1, <1>4, <2>2 DEF Reading, Handled
<1> QED BY <1>2, <1>3, <1>4

(* tick: what is sampled is what was handled, with its timer settled.      *)
LEMMA SampledReads ==
  ASSUME NEW cards \in [Slots -> AnyCard], \A s \in Slots : Handled(cards[s]),
         NEW at \in [Slots -> Scenes], NEW k \in BOOLEAN, NEW m
  PROVE  LET o == Sampled(cards, at, k, m)
         IN  /\ o \in [Slots -> AnyCard]
             /\ \A s \in Slots :
                  /\ Reading(o[s])
                  /\ o[s].draft = cards[s].draft /\ o[s].preview = cards[s].preview
                  /\ o[s].pending = cards[s].pending /\ o[s].read = cards[s].read
<1> DEFINE o == Sampled(cards, at, k, m)
<1>1. ASSUME NEW s \in Slots
      PROVE  /\ o[s] \in AnyCard /\ Reading(o[s])
             /\ o[s].draft = cards[s].draft /\ o[s].preview = cards[s].preview
             /\ o[s].pending = cards[s].pending /\ o[s].read = cards[s].read
  <2> DEFINE x == Conditions(cards[s], at[s], k, m)
  <2>1. x \in AnyConditions
    BY DEF Conditions, AnyConditions, AnyCard, AnyShown
  <2>2. Ready(x) => cards[s].preview # None
    BY DEF Ready, Conditions
  <2>3. o[s] = Observed(cards[s], x)
    BY DEF Sampled
  <2> HIDE DEF x, o
  <2> QED BY <2>1, <2>2, <2>3, ObservedReads
<1>2. o \in [Slots -> AnyCard]
  BY <1>1 DEF Sampled
<1> QED BY <1>1, <1>2

(* What a handler may do to a card before it samples: drop the preview,    *)
(* and set the request a commit waits for.                                 *)
LEMMA DroppedReads ==
  ASSUME NEW c \in AnyCard
  PROVE  /\ Dropped(c) \in AnyCard /\ Handled(Dropped(c))
         /\ Dropped(c).preview = None /\ Dropped(c).read = 0
<1>1. /\ Dropped(c) \in AnyCard /\ Dropped(c).asking = 0
      /\ Dropped(c).preview = None /\ Dropped(c).read = 0
  BY DEF Dropped, AnyCard
<1> QED BY <1>1 DEF Handled

LEMMA CommittingSet ==
  ASSUME NEW c \in AnyCard, NEW n \in Nat
  PROVE  /\ [c EXCEPT !.committing = n] \in AnyCard
         /\ Handled(c) => Handled([c EXCEPT !.committing = n])
         /\ [c EXCEPT !.committing = n].draft = c.draft
<1> DEFINE d == [c EXCEPT !.committing = n]
<1>1. d \in AnyCard
  BY DEF AnyCard
<1>2. /\ d.draft = c.draft /\ d.preview = c.preview /\ d.read = c.read
      /\ d.age = c.age /\ d.asking = c.asking
  BY DEF AnyCard
<1>3. Handled(c) => Handled(d)
  <2> HIDE DEF d
  <2> QED BY <1>2 DEF Handled
<1> QED BY <1>1, <1>2, <1>3

(* ... or ask for a preview of the draft ...                               *)
LEMMA AskingSet ==
  ASSUME NEW c \in AnyCard, c.draft \in Drafts, NEW n \in Nat
  PROVE  LET d == [Dropped(c) EXCEPT !.asking = n, !.hash = c.draft]
         IN  d \in AnyCard /\ Handled(d)
<1> DEFINE o == Dropped(c)
           a == [o EXCEPT !.asking = n]
           d == [a EXCEPT !.hash = c.draft]
<1>1. o \in AnyCard /\ o.preview = None /\ o.read = 0
  BY DroppedReads
<1>2. a \in AnyCard /\ a.preview = None /\ a.read = 0
  <2> HIDE DEF o
  <2> QED BY <1>1 DEF AnyCard
<1>3. d \in AnyCard /\ d.preview = None /\ d.read = 0
  <2> HIDE DEF a
  <2> QED BY <1>2 DEF AnyCard
<1>4. Handled(d)
  <2> HIDE DEF d
  <2> QED BY <1>3 DEF Handled
<1> QED BY <1>3, <1>4

(* ... or commit what is shown.                                            *)
LEMMA CommittedReads ==
  ASSUME NEW c \in AnyCard, Handled(c), NEW n \in Nat
  PROVE  LET d == [c EXCEPT !.committing = n, !.preview = None, !.read = 0]
         IN  d \in AnyCard /\ Handled(d)
<1> DEFINE a == [c EXCEPT !.committing = n]
           b == [a EXCEPT !.preview = None]
           d == [b EXCEPT !.read = 0]
<1>1. a \in AnyCard
  BY CommittingSet
<1>2. b \in AnyCard /\ b.preview = None
  <2> HIDE DEF a
  <2> QED BY <1>1 DEF AnyCard
<1>3. d \in AnyCard /\ d.preview = None /\ d.read = 0
  <2> HIDE DEF b
  <2> QED BY <1>2 DEF AnyCard
<1>4. Handled(d)
  <2> HIDE DEF d
  <2> QED BY <1>3 DEF Handled
<1> QED BY <1>3, <1>4

-----------------------------------------------------------------------------
(* The compositor's handlers.                                              *)

(* The slot's part of a handler that sends no commit.                      *)
SlotRest ==
  /\ card' \in [Slots -> AnyCard] /\ \A s \in Slots : Reading(card'[s])
  /\ presses' = presses

LEMMA RestIsKept ==
  ASSUME SlotInv, SlotRest, UNCHANGED <<scene, modal, keyed, reqs, toPolicyd, toAbyss>>
  PROVE  SlotInv'
BY DEF SlotInv, SlotTypes, ReadingInv, SlotRest, CommitsWereRead

(* draft_changed: the request carries a draft, and the card starts over.   *)
LEMMA AskKeeps ==
  ASSUME SlotInv, NEW s \in Slots, NEW c \in AnyCard, c.draft \in Drafts, Ask(s, c)
  PROVE  /\ card' \in [Slots -> AnyCard] /\ \A t \in Slots : Reading(card'[t])
         /\ reqs' \in Nat /\ toPolicyd' \in Seq(AnyRequest)
<1> DEFINE d == [Dropped(c) EXCEPT !.asking = reqs + 1, !.hash = c.draft]
           cards == [card EXCEPT ![s] = d]
<1>1. d \in AnyCard /\ Handled(d)
  <2>1. reqs + 1 \in Nat
    BY DEF SlotInv, SlotTypes
  <2> HIDE DEF d, cards
  <2>2. \A n \in Nat : LET e == [Dropped(c) EXCEPT !.asking = n, !.hash = c.draft]
                       IN  e \in AnyCard /\ Handled(e)
    BY AskingSet, Zenon
  <2> QED BY <2>1, <2>2, Zenon DEF d
<1> USE DEF SlotInv, SlotTypes
<1>2. cards \in [Slots -> AnyCard]
  BY <1>1
<1>3. \A t \in Slots : Handled(cards[t])
  BY <1>1 DEF ReadingInv, Reading, Handled
<1>4. card' = Sampled(cards, scene, keyed, modal)
  BY DEF Ask
<1>5. card' \in [Slots -> AnyCard] /\ \A t \in Slots : Reading(card'[t])
  <2> HIDE DEF cards
  <2> QED BY <1>2, <1>3, <1>4, SampledReads
<1>6. reqs' \in Nat /\ toPolicyd' \in Seq(AnyRequest)
  <2> DEFINE m == [kind |-> "preview", req |-> reqs + 1, slot |-> s, draft |-> c.draft]
  <2>1. m \in AnyRequest
    BY DEF AnyRequest
  <2>2. toPolicyd' = Append(toPolicyd, m) /\ reqs' = reqs + 1
    BY DEF Ask
  <2> HIDE DEF m
  <2> QED BY <2>1, <2>2, AppendProperties
<1> QED BY <1>5, <1>6

LEMMA ApplyDraftKeeps ==
  ASSUME SlotInv, NEW s \in Slots, NEW d \in Drafts, ApplyDraft(s, d)
  PROVE  SlotInv'
<1> DEFINE c == [card[s] EXCEPT !.draft = d, !.pending = None]
<1>1. c \in AnyCard /\ c.draft = d
  BY DEF SlotInv, SlotTypes, AnyCard
<1>2. Ask(s, c)
  BY DEF ApplyDraft
<1>3. /\ card' \in [Slots -> AnyCard] /\ \A t \in Slots : Reading(card'[t])
      /\ reqs' \in Nat /\ toPolicyd' \in Seq(AnyRequest)
  <2> HIDE DEF c
  <2> QED BY <1>1, <1>2, AskKeeps
<1> QED BY <1>3 DEF ApplyDraft, SlotInv, SlotTypes, ReadingInv, CommitsWereRead

LEMMA ClientKeeps ==
  ASSUME SlotInv, Client
  PROVE  SlotInv' /\ UNCHANGED dispatchVars
<1>1. PICK s \in Slots : SetDraft(s) \/ FlushDraft(s) \/ Cancel(s)
  BY DEF Client
<1>2. card[s] \in AnyCard
  BY DEF SlotInv, SlotTypes
<1>3. CASE SetDraft(s)
  <2>1. PICK d \in Drafts : ApplyDraft(s, d) \/ HoldDraft(s, d)
    BY <1>3 DEF SetDraft
  <2>2. CASE ApplyDraft(s, d)
    BY <2>2, ApplyDraftKeeps DEF ApplyDraft
  <2>3. CASE HoldDraft(s, d)
    <3> DEFINE c == [card[s] EXCEPT !.pending = d]
    <3>1. card' = [card EXCEPT ![s] = c]
      BY <1>2, <2>3 DEF HoldDraft
    <3>2. c \in AnyCard /\ Reading(c)
      BY <1>2 DEF AnyCard, Reading, SlotInv, ReadingInv
    <3>3. SlotRest
      BY <2>3, <3>1, <3>2 DEF HoldDraft, SlotRest, SlotInv, SlotTypes, ReadingInv
    <3> QED BY <2>3, <3>3, RestIsKept DEF HoldDraft
  <2> QED BY <2>1, <2>2, <2>3
<1>4. CASE FlushDraft(s)
  <2>1. card[s].pending \in Drafts
    BY <1>2, <1>4 DEF FlushDraft, AnyCard
  <2> QED BY <1>4, <2>1, ApplyDraftKeeps DEF FlushDraft, ApplyDraft
<1>5. CASE Cancel(s)
  <2> DEFINE c == [Dropped(card[s]) EXCEPT !.draft = None, !.pending = None]
             cards == [card EXCEPT ![s] = c]
  <2>1. c \in AnyCard /\ Handled(c)
    BY <1>2 DEF Dropped, AnyCard, Handled
  <2>2. cards \in [Slots -> AnyCard] /\ \A t \in Slots : Handled(cards[t])
    BY <2>1 DEF SlotInv, SlotTypes, ReadingInv, Reading, Handled
  <2>3. card' = Sampled(cards, scene, keyed, modal)
    BY <1>5 DEF Cancel
  <2>4. card' \in [Slots -> AnyCard] /\ \A t \in Slots : Reading(card'[t])
    <3> HIDE DEF cards
    <3> QED BY <2>2, <2>3, SampledReads DEF SlotInv, SlotTypes
  <2>5. SlotRest
    BY <1>5, <2>4 DEF Cancel, SlotRest
  <2> QED BY <1>5, <2>5, RestIsKept DEF Cancel
<1> QED BY <1>1, <1>3, <1>4, <1>5

(* commit: the request goes out, and the press was read for long enough.   *)
LEMMA CommitKeeps ==
  ASSUME SlotInv, NEW s \in Slots, NEW cards \in [Slots -> AnyCard],
         \A t \in Slots : Handled(cards[t]), cards[s].preview # None,
         modal = None => cards[s].read >= ArmMs, NEW m, Commit(s, cards, m),
         modal' \in {modal, None}
  PROVE  SlotInv' /\ UNCHANGED dispatchVars
<1> USE DEF SlotInv, SlotTypes
<1> DEFINE d == [cards[s] EXCEPT !.committing = reqs + 1, !.preview = None, !.read = 0]
           after == [cards EXCEPT ![s].committing = reqs + 1,
                                  ![s].preview = None, ![s].read = 0]
<1>1. d \in AnyCard /\ Handled(d)
  <2>1. cards[s] \in AnyCard /\ Handled(cards[s]) /\ reqs + 1 \in Nat
    OBVIOUS
  <2> QED BY <2>1, CommittedReads
<1>2. after = [cards EXCEPT ![s] = d]
  OBVIOUS
<1>3. after \in [Slots -> AnyCard] /\ \A t \in Slots : Handled(after[t])
  <2> HIDE DEF d, after
  <2> QED BY <1>1, <1>2
<1>4. card' = Sampled(after, scene, keyed, m)
  BY DEF Commit
<1>5. card' \in [Slots -> AnyCard] /\ \A t \in Slots : Reading(card'[t])
  <2> HIDE DEF after
  <2> QED BY <1>3, <1>4, SampledReads
<1>6. reqs' \in Nat /\ toPolicyd' \in Seq(AnyRequest)
  <2> DEFINE q == [kind |-> "create", req |-> reqs + 1, slot |-> s,
                   id |-> cards[s].preview.id]
  <2>1. q \in AnyRequest
    BY DEF AnyRequest, AnyCard, AnyShown
  <2>2. toPolicyd' = Append(toPolicyd, q) /\ reqs' = reqs + 1
    BY DEF Commit
  <2> HIDE DEF q
  <2> QED BY <2>1, <2>2, AppendProperties
<1>7. CommitsWereRead'
  <2>1. \A p \in presses' : p \in presses \/ p.read >= ArmMs
    BY SlotAssumption DEF Commit
  <2> QED BY <2>1 DEF ReadingInv, CommitsWereRead
<1>8. SlotTypes'
  BY <1>5, <1>6 DEF Commit
<1> QED BY <1>5, <1>7, <1>8 DEF ReadingInv, Commit

LEMMA HumanKeeps ==
  ASSUME SlotInv, Human
  PROVE  SlotInv' /\ UNCHANGED dispatchVars
<1> USE DEF SlotInv, SlotTypes
<1> DEFINE cards == Sampled(card, scene, keyed, modal)
<1>1. \A t \in Slots : Handled(card[t])
  BY DEF ReadingInv, Reading, Handled
<1>2. /\ cards \in [Slots -> AnyCard]
      /\ \A t \in Slots : Reading(cards[t]) /\ Handled(cards[t])
  <2>1. /\ cards \in [Slots -> AnyCard]
        /\ \A t \in Slots : Reading(cards[t])
    BY <1>1, SampledReads
  <2> QED BY <2>1 DEF Reading, Handled
<1>3. CASE \E s \in Slots : Enter(s)
  <2>1. PICK s \in Slots : Enter(s)
    BY <1>3
  <2>2. Armed(cards[s]) /\ Commit(s, cards, modal) /\ modal' = modal
    BY <2>1 DEF Enter
  <2> HIDE DEF cards
  <2>3. cards[s].preview # None /\ cards[s].read >= ArmMs
    <3>1. cards[s].read \in Nat /\ cards[s].age \in Nat
      BY <1>2 DEF AnyCard
    <3> QED BY <1>2, <2>2, <3>1, SlotAssumption DEF Armed, Reading
  <2> QED BY <1>2, <2>2, <2>3, CommitKeeps
<1>4. CASE \E s \in Slots : OpenModal(s)
  <2>1. PICK s \in Slots : OpenModal(s)
    BY <1>4
  <2>2. card[s].preview # None /\ modal' = [slot |-> s, id |-> card[s].preview.id]
    BY <2>1 DEF OpenModal
  <2>3. modal' \in [slot : Slots, id : Nat]
    BY <2>2 DEF AnyCard, AnyShown
  <2>4. /\ card' = cards
        /\ UNCHANGED <<dispatchVars, scene, keyed, reqs, toPolicyd, toAbyss, presses>>
    BY <2>1 DEF OpenModal
  <2> HIDE DEF cards
  <2> QED BY <1>2, <2>3, <2>4 DEF ReadingInv, CommitsWereRead
<1>5. CASE GrantModal
  <2>1. /\ modal \in [slot : Slots, id : Nat] /\ modal # None /\ modal' = None
        /\ card[modal.slot].preview # None /\ Commit(modal.slot, card, None)
    BY <1>5 DEF GrantModal, StillShown
  <2>2. modal.slot \in Slots
    BY <2>1
  <2> QED BY <1>1, <2>1, <2>2, CommitKeeps
<1>6. CASE CloseModal
  BY <1>6 DEF CloseModal, ReadingInv, CommitsWereRead
<1> QED BY <1>3, <1>4, <1>5, <1>6 DEF Human

(* A tick ages the timer and the reading together.                         *)
LEMMA AgedReads ==
  ASSUME NEW c \in AnyCard, Reading(c)
  PROVE  Aged(c) \in AnyCard /\ Reading(Aged(c))
<1> DEFINE a == IF c.since = None \/ c.age = ArmMs THEN c.age ELSE c.age + 1
           r == IF c.preview = None \/ c.read = ArmMs THEN c.read ELSE c.read + 1
<1>1. c.age \in Nat /\ c.read \in Nat
  BY DEF AnyCard
<1>2. a \in Nat /\ r \in Nat
  BY <1>1
<1>3. a <= r
  BY <1>1 DEF Reading
<1>4. c.preview = None => r = 0
  BY DEF Reading
<1>5. Aged(c) = [c EXCEPT !.age = a, !.read = r]
  BY DEF Aged, AnyCard
<1>6. /\ Aged(c) \in AnyCard /\ Aged(c).age = a /\ Aged(c).read = r
      /\ Aged(c).since = c.since /\ Aged(c).preview = c.preview
      /\ Aged(c).asking = c.asking
  <2> HIDE DEF a, r
  <2> QED BY <1>2, <1>5 DEF AnyCard
<1> HIDE DEF a, r
<1> QED BY <1>3, <1>4, <1>6 DEF Reading

LEMMA DeskKeeps ==
  ASSUME SlotInv, Desk
  PROVE  SlotInv' /\ UNCHANGED dispatchVars
<1>1. CASE \E s \in Slots : Move(s)
  BY <1>1 DEF Move, SlotInv, SlotTypes, ReadingInv, CommitsWereRead
<1>2. CASE Tick
  <2> DEFINE o == Sampled(card, scene, keyed, modal)
  <2>1. \A s \in Slots : Handled(card[s])
    BY DEF SlotInv, ReadingInv, Reading, Handled
  <2>2. o \in [Slots -> AnyCard] /\ \A s \in Slots : Reading(o[s])
    BY <2>1, SampledReads DEF SlotInv, SlotTypes
  <2>3. card' = [s \in Slots |-> Aged(o[s])]
    BY <1>2 DEF Tick
  <2> HIDE DEF o
  <2>4. SlotRest
    BY <1>2, <2>2, <2>3, AgedReads DEF SlotRest, Tick
  <2> QED BY <1>2, <2>4, RestIsKept DEF Tick
<1> QED BY <1>1, <1>2 DEF Desk

-----------------------------------------------------------------------------
(* The wire.                                                               *)

LEMMA AnswerKeeps ==
  ASSUME SlotInv, toPolicyd # <<>>, NEW m \in AnyReply, Answered(m),
         UNCHANGED <<card, scene, modal, keyed, reqs, presses>>
  PROVE  SlotInv'
<1>1. toPolicyd' \in Seq(AnyRequest)
  BY HeadTailProperties DEF Answered, SlotInv, SlotTypes
<1>2. toAbyss' \in Seq(AnyReply \cup {Down})
  BY AppendProperties DEF Answered, SlotInv, SlotTypes
<1> QED BY <1>1, <1>2 DEF SlotInv, SlotTypes, ReadingInv, CommitsWereRead

(* A new task is made from a preview that still holds.                     *)
LEMMA DaemonKeeps ==
  ASSUME SlotInv, DispatchInv, Daemon
  PROVE  /\ SlotInv' /\ DispatchInv'
         /\ \A t \in tasks' \ tasks :
              /\ installs[t.promise.package] # None
              /\ t.promise.lines \subseteq installs[t.promise.package].lines
<1> DEFINE m == Head(toPolicyd)
<1>1. toPolicyd # <<>> => m \in AnyRequest
  BY HeadTailProperties DEF SlotInv, SlotTypes
<1>2. CASE HandlePreview
  <2>1. m.req \in Nat /\ m.slot \in Slots /\ m.draft \in Drafts
    BY <1>1, <1>2 DEF HandlePreview, AnyRequest
  <2>2. CASE /\ Preview(m.slot, m.draft)
             /\ Answered([kind |-> "preview", req |-> m.req, id |-> ids + 1,
                          promise |-> Promise(m.draft)])
    <3>1. DispatchInv'
      BY <2>1, <2>2, PreviewKeeps
    <3>2. Promise(m.draft) \in Promises
      BY <2>1, <2>2, PromiseTyped DEF Preview, DispatchInv
    <3>3. [kind |-> "preview", req |-> m.req, id |-> ids + 1,
           promise |-> Promise(m.draft)] \in AnyReply
      BY <2>1, <3>2 DEF AnyReply, DispatchInv, DispatchTypes
    <3>4. tasks' = tasks
      BY <2>2 DEF Preview
    <3> QED BY <1>2, <2>2, <3>1, <3>3, <3>4, AnswerKeeps DEF HandlePreview
  <2>3. CASE /\ Answered([kind |-> "refused", req |-> m.req, stale |-> FALSE])
             /\ UNCHANGED dispatchVars
    <3>1. [kind |-> "refused", req |-> m.req, stale |-> FALSE] \in AnyReply
      BY <2>1 DEF AnyReply
    <3>2. SlotInv'
      BY <1>2, <2>3, <3>1, AnswerKeeps DEF HandlePreview
    <3> QED BY <2>3, <3>2, AsideKeeps DEF dispatchVars
  <2> QED BY <1>2, <2>2, <2>3 DEF HandlePreview
<1>3. CASE HandleCreate
  <2> DEFINE fresh == { p \in Named(m.id) : Fresh(p, m.slot) }
  <2>1. m.req \in Nat
    BY <1>1, <1>3 DEF HandleCreate, AnyRequest
  <2>2. DispatchInv'
    BY <1>3, AsideKeeps DEF HandleCreate
  <2>3. CASE \E p \in fresh :
               Create(p) /\ Answered([kind |-> "created", req |-> m.req])
    <3>1. PICK p \in fresh :
            Create(p) /\ Answered([kind |-> "created", req |-> m.req])
      BY <2>3
    <3>2. p \in previews /\ Fresh(p, m.slot)
      BY DEF Named
    <3>3. [kind |-> "created", req |-> m.req] \in AnyReply
      BY <2>1 DEF AnyReply
    <3>4. SlotInv'
      BY <1>3, <3>1, <3>3, AnswerKeeps DEF HandleCreate
    <3> QED BY <2>2, <3>1, <3>2, <3>4, CreateIsInstalled
  <2>4. CASE /\ Answered([kind |-> "refused", req |-> m.req, stale |-> fresh = {}])
             /\ UNCHANGED tasks
    <3>1. [kind |-> "refused", req |-> m.req, stale |-> fresh = {}] \in AnyReply
      BY <2>1 DEF AnyReply
    <3>2. SlotInv'
      BY <1>3, <2>4, <3>1, AnswerKeeps DEF HandleCreate
    <3> QED BY <2>2, <2>4, <3>2
  <2> QED BY <1>3, <2>3, <2>4 DEF HandleCreate
<1> QED BY <1>2, <1>3 DEF Daemon

(* Cards that were handled are sampled before the handler returns.         *)
LEMMA TookKeeps ==
  ASSUME SlotInv, NEW cards \in [Slots -> AnyCard],
         \A t \in Slots : Handled(cards[t]), Took(cards)
  PROVE  card' \in [Slots -> AnyCard] /\ \A t \in Slots : Reading(card'[t])
<1> QED BY SampledReads DEF Took, SlotInv, SlotTypes

(* An answered preview was not shown yet, and what is dropped is not       *)
(* shown any more.                                                         *)
LEMMA TakeKeeps ==
  ASSUME SlotInv, NEW m \in AnyReply, TakePreview(m) \/ TakeCreated(m) \/ TakeRefused(m)
  PROVE  /\ card' \in [Slots -> AnyCard] /\ \A t \in Slots : Reading(card'[t])
         /\ reqs' \in Nat /\ toPolicyd' \in Seq(AnyRequest)
<1>1. /\ card \in [Slots -> AnyCard] /\ reqs \in Nat /\ toPolicyd \in Seq(AnyRequest)
      /\ \A t \in Slots : card[t] \in AnyCard /\ Reading(card[t]) /\ Handled(card[t])
  BY DEF SlotInv, SlotTypes, ReadingInv, Reading, Handled
<1>2. CASE TakePreview(m)
  <2> DEFINE shown == [id |-> m.id, promise |-> m.promise]
             c(t) == IF t \in Asking(m.req)
                     THEN [card[t] EXCEPT !.asking = 0, !.preview = shown]
                     ELSE card[t]
  <2>1. shown \in AnyShown
    BY <1>2 DEF TakePreview, AnyReply, AnyShown
  <2>3. ASSUME NEW t \in Slots
        PROVE  c(t) \in AnyCard /\ Handled(c(t))
    <3>1. CASE t \notin Asking(m.req)
      BY <1>1, <3>1
    <3>2. CASE t \in Asking(m.req)
      <4> DEFINE d == [card[t] EXCEPT !.asking = 0, !.preview = shown]
      <4> HIDE DEF shown
      <4>1. /\ d \in AnyCard /\ d.asking = 0 /\ d.preview = shown
            /\ d.age = card[t].age /\ d.read = card[t].read
        BY <1>1, <2>1 DEF AnyCard
      <4>2. card[t].age <= card[t].read
        BY <1>1 DEF Reading
      <4>3. d.preview # None
        BY <2>1, <4>1, DispatchAssumption DEF AnyShown
      <4> QED BY <3>2, <4>1, <4>2, <4>3 DEF Handled
    <3> QED BY <3>1, <3>2
  <2>4. Took([t \in Slots |-> c(t)])
    BY <1>2 DEF TakePreview
  <2>5. UNCHANGED <<reqs, toPolicyd>>
    BY <1>2 DEF TakePreview
  <2> HIDE DEF c
  <2> QED BY <1>1, <2>3, <2>4, <2>5, TookKeeps
<1>3. CASE TakeCreated(m)
  <2> DEFINE c(t) == IF t \in Committing(m.req)
                     THEN [card[t] EXCEPT !.committing = 0] ELSE card[t]
  <2>1. \A t \in Slots : c(t) \in AnyCard /\ Handled(c(t))
    BY <1>1, CommittingSet
  <2>2. Took([t \in Slots |-> c(t)]) /\ UNCHANGED <<reqs, toPolicyd>>
    BY <1>3 DEF TakeCreated
  <2> HIDE DEF c
  <2> QED BY <1>1, <2>1, <2>2, TookKeeps
<1>4. CASE TakeRefused(m)
  <2>1. CASE \E s \in Committing(m.req) :
               card[s].draft # None /\ Ask(s, [card[s] EXCEPT !.committing = 0])
    <3>1. PICK s \in Committing(m.req) :
            card[s].draft # None /\ Ask(s, [card[s] EXCEPT !.committing = 0])
      BY <2>1
    <3> DEFINE c == [card[s] EXCEPT !.committing = 0]
    <3>2. s \in Slots
      BY DEF Committing
    <3>3. c \in AnyCard /\ c.draft \in Drafts
      <4>1. card[s] \in AnyCard /\ card[s].draft \in Drafts
        BY <1>1, <3>1, <3>2 DEF AnyCard
      <4> QED BY <4>1, CommittingSet
    <3>4. Ask(s, c)
      BY <3>1
    <3> HIDE DEF c
    <3> QED BY <3>2, <3>3, <3>4, AskKeeps
  <2>2. CASE /\ Took([t \in Slots |-> IF t \in Committing(m.req)
                                      THEN Dropped([card[t] EXCEPT !.committing = 0])
                                      ELSE card[t]])
             /\ UNCHANGED <<reqs, toPolicyd>>
    <3> DEFINE c(t) == IF t \in Committing(m.req)
                       THEN Dropped([card[t] EXCEPT !.committing = 0]) ELSE card[t]
    <3>1. \A t \in Slots : c(t) \in AnyCard /\ Handled(c(t))
      BY <1>1, CommittingSet, DroppedReads
    <3>2. Took([t \in Slots |-> c(t)])
      BY <2>2
    <3> HIDE DEF c
    <3> QED BY <1>1, <2>2, <3>1, <3>2, TookKeeps
  <2>3. CASE Took([t \in Slots |-> Refused(t, m)]) /\ UNCHANGED <<reqs, toPolicyd>>
    <3>1. ASSUME NEW t \in Slots
          PROVE  Refused(t, m) \in AnyCard /\ Handled(Refused(t, m))
      <4> DEFINE r == t \in Asking(m.req) \cup Committing(m.req) \/ card[t].refused
                 a == IF card[t].asking = m.req THEN 0 ELSE card[t].asking
                 k == IF card[t].committing = m.req THEN 0 ELSE card[t].committing
                 d == [card[t] EXCEPT !.refused = r, !.asking = a, !.committing = k]
      <4>1. card[t] \in AnyCard /\ Handled(card[t])
        BY <1>1
      <4>2. r \in BOOLEAN /\ a \in Nat /\ k \in Nat /\ (a # 0 => card[t].asking # 0)
        BY <4>1 DEF AnyCard
      <4>3. Refused(t, m) = d
        BY <4>1 DEF Refused, AnyCard
      <4> HIDE DEF r, a, k
      <4>4. /\ d \in AnyCard /\ d.preview = card[t].preview /\ d.asking = a
            /\ d.age = card[t].age /\ d.read = card[t].read
        BY <4>1, <4>2 DEF AnyCard
      <4> QED BY <4>1, <4>2, <4>3, <4>4 DEF Handled
    <3> QED BY <1>1, <2>3, <3>1, TookKeeps
  <2>4. CASE m.stale /\ \E s \in Committing(m.req) : card[s].draft # None
    BY <1>4, <2>1, <2>4 DEF TakeRefused
  <2>5. CASE m.stale /\ ~\E s \in Committing(m.req) : card[s].draft # None
    BY <1>4, <2>2, <2>5 DEF TakeRefused
  <2>6. CASE ~m.stale
    BY <1>4, <2>3, <2>6 DEF TakeRefused
  <2> QED BY <2>4, <2>5, <2>6
<1> QED BY <1>2, <1>3, <1>4

(* What waits at the head of the queue is an answer or the end.            *)
LEMMA WireKeeps ==
  ASSUME SlotInv, Wire
  PROVE  SlotInv' /\ UNCHANGED dispatchVars
<1> DEFINE m == Head(toAbyss)
<1>1. toAbyss # <<>> => m \in AnyReply \cup {Down} /\ Tail(toAbyss) \in Seq(AnyReply \cup {Down})
  BY HeadTailProperties DEF SlotInv, SlotTypes
<1>2. CASE Deliver
  <2>1. /\ m \in AnyReply /\ toAbyss' \in Seq(AnyReply \cup {Down})
        /\ TakePreview(m) \/ TakeCreated(m) \/ TakeRefused(m)
        /\ UNCHANGED <<dispatchVars, scene, modal, keyed, presses>>
    BY <1>1, <1>2 DEF Deliver
  <2> HIDE DEF m
  <2>2. /\ card' \in [Slots -> AnyCard] /\ \A t \in Slots : Reading(card'[t])
        /\ reqs' \in Nat /\ toPolicyd' \in Seq(AnyRequest)
    BY <2>1, TakeKeeps
  <2> QED BY <2>1, <2>2 DEF SlotInv, SlotTypes, ReadingInv, CommitsWereRead
<1>3. CASE LinkDown
  BY <1>1, <1>3 DEF LinkDown, SlotInv, SlotTypes, ReadingInv, CommitsWereRead
<1>4. CASE LinkUp
  BY <1>4 DEF LinkUp, SlotInv, SlotTypes, ReadingInv, CommitsWereRead
<1> QED BY <1>2, <1>3, <1>4 DEF Wire

(* What is lost from a queue is lost from its front.                       *)
LEMMA PolicydDiesKeeps ==
  ASSUME SlotInv, DispatchInv, PolicydDies
  PROVE  SlotInv' /\ DispatchInv' /\ tasks' = tasks
<1>1. Restart /\ UNCHANGED <<card, scene, modal, keyed, reqs, presses>>
  BY DEF PolicydDies
<1>2. toPolicyd' \in Seq(AnyRequest)
  <2>1. CASE \E k \in 0..Len(toPolicyd) :
               toPolicyd' = SubSeq(toPolicyd, k + 1, Len(toPolicyd))
    <3>1. PICK k \in 0..Len(toPolicyd) :
            toPolicyd' = SubSeq(toPolicyd, k + 1, Len(toPolicyd))
      BY <2>1
    <3>2. toPolicyd \in Seq(AnyRequest) /\ Len(toPolicyd) \in Nat
      BY LenProperties DEF SlotInv, SlotTypes
    <3>3. \A i \in k + 1..Len(toPolicyd) : i \in 1..Len(toPolicyd)
      BY <3>2
    <3>4. \A i \in k + 1..Len(toPolicyd) : toPolicyd[i] \in AnyRequest
      BY <3>2, <3>3, ElementOfSeq
    <3> QED BY <3>1, <3>2, <3>4, SubSeqProperties
  <2>2. CASE toPolicyd' = toPolicyd
    BY <2>2 DEF SlotInv, SlotTypes
  <2> QED BY <2>1, <2>2 DEF PolicydDies
<1>3. toAbyss' \in Seq(AnyReply \cup {Down})
  <2>1. toAbyss \in Seq(AnyReply \cup {Down})
    BY DEF SlotInv, SlotTypes
  <2>2. toAbyss' = toAbyss \/ toAbyss' = Append(toAbyss, Down)
    BY DEF PolicydDies
  <2> QED BY <2>1, <2>2, AppendProperties
<1>4. DispatchInv' /\ tasks' = tasks
  BY <1>1, AsideKeeps DEF Restart
<1> QED BY <1>1, <1>2, <1>3, <1>4 DEF SlotInv, SlotTypes, ReadingInv, CommitsWereRead

(* Nothing beside the wire touches a card.                                 *)
LEMMA AsideIsAside ==
  ASSUME SlotInv, DispatchInv, Aside
  PROVE  SlotInv' /\ DispatchInv' /\ tasks' = tasks
<1>1. SlotInv'
  BY DEF Aside, slotVars, SlotInv, SlotTypes, ReadingInv, CommitsWereRead
<1>2. tasks' = tasks
  BY DEF Aside, Installing, InstallBegin, ReviewExpires, InstallAnswer, Edit, Recompile
<1>3. DispatchInv'
  BY InstallingKeeps, AsideKeeps DEF Aside
<1> QED BY <1>1, <1>2, <1>3

-----------------------------------------------------------------------------
(* The specification.                                                      *)

LEMMA InitKeeps == Init => SlotInv /\ DispatchInv
<1> SUFFICES ASSUME Init
             PROVE  SlotInv /\ DispatchInv
  OBVIOUS
<1>1. DispatchInv
  <2>1. \A p \in Packages : disk[p] \in Manifests /\ disk[p].lines \subseteq Lines
    BY DEF Init, DispatchInit, Lines
  <2>2. installs \in [Packages -> AnyInstall]
    BY <2>1 DEF Init, DispatchInit, AnyInstall
  <2> QED BY <2>2 DEF Init, DispatchInit, DispatchInv, DispatchTypes, PreviewsKeep
<1>2. NoCard \in AnyCard /\ Reading(NoCard)
  BY DEF NoCard, AnyCard, Reading
<1>3. SlotInv
  BY <1>2 DEF Init, SlotInv, SlotTypes, ReadingInv, CommitsWereRead, Scenes
<1> QED BY <1>1, <1>3

(* One step, whoever takes it: the invariant holds on, and a task that is  *)
(* new has no more than the install.                                       *)
LEMMA StepKeeps ==
  ASSUME SlotInv, DispatchInv, [Next]_vars
  PROVE  /\ SlotInv' /\ DispatchInv'
         /\ \A t \in tasks' \ tasks :
              /\ installs[t.promise.package] # None
              /\ t.promise.lines \subseteq installs[t.promise.package].lines
<1>1. CASE Client
  BY <1>1, ClientKeeps, AsideKeeps DEF dispatchVars
<1>2. CASE Human
  BY <1>2, HumanKeeps, AsideKeeps DEF dispatchVars
<1>3. CASE Desk
  BY <1>3, DeskKeeps, AsideKeeps DEF dispatchVars
<1>4. CASE Daemon
  BY <1>4, DaemonKeeps
<1>5. CASE Aside
  BY <1>5, AsideIsAside
<1>6. CASE Wire
  BY <1>6, WireKeeps, AsideKeeps DEF dispatchVars
<1>7. CASE PolicydDies
  BY <1>7, PolicydDiesKeeps
<1>8. CASE UNCHANGED vars
  BY <1>8, AsideKeeps
     DEF vars, dispatchVars, slotVars, SlotInv, SlotTypes, ReadingInv, CommitsWereRead
<1> QED BY <1>1, <1>2, <1>3, <1>4, <1>5, <1>6, <1>7, <1>8 DEF Next

(* No commit of an inline card was on the card for less than the arming    *)
(* delay (slot.rs, COMP-19 section 6), with any number of slots, requests  *)
(* and restarts of policyd: the timer never runs longer than the preview   *)
(* under it has been shown.                                                *)
THEOREM ReadBeforeCommit == Spec => []CommitsWereRead
<1>1. SlotInv /\ DispatchInv /\ [Next]_vars => SlotInv' /\ DispatchInv'
  BY StepKeeps
<1>2. SlotInv => CommitsWereRead
  BY DEF SlotInv, ReadingInv
<1> QED BY InitKeeps, <1>1, <1>2, PTL DEF Spec

(* No task is opened with a line the standing install lacks (dispatch.rs,  *)
(* preview and create), whatever was installed, edited, recompiled or      *)
(* restarted since its preview was drawn.                                  *)
THEOREM AuthorityHolds == Spec => AuthorityIsInstalled
<1> DEFINE New == \A t \in tasks' \ tasks :
                    /\ installs[t.promise.package] # None
                    /\ t.promise.lines \subseteq installs[t.promise.package].lines
<1>1. SlotInv /\ DispatchInv /\ [Next]_vars => SlotInv' /\ DispatchInv' /\ [New]_vars
  BY StepKeeps
<1> QED BY InitKeeps, <1>1, PTL DEF Spec, AuthorityIsInstalled

-----------------------------------------------------------------------------
(* What was shown is what is submitted.  A request's number is drawn once, *)
(* so an answer finds the card that waits for it only while that card has  *)
(* the draft it asked with; a preview's id is drawn once, so the preview   *)
(* policyd spends is the one on the card.                                  *)

Sent == ToSet(toPolicyd)
Back == ToSet(toAbyss) \ {Down}

(* What is on its way to or from a card is about what the card has.        *)
Numbered(sent, back, n) == \A m \in sent \cup back : m.req \in 1..n
Waiting(c, sent, back, n) ==
  /\ c.asking \in 0..n /\ c.committing \in 0..n
  /\ \A m \in sent :
       /\ m.req = c.asking => m.kind = "preview" /\ m.draft = c.draft
       /\ m.req = c.committing => m.kind = "create"
  /\ \A m \in back :
       /\ m.req = c.asking =>
            \/ m.kind = "preview" /\ Asks(c.draft, m.promise)
            \/ m.kind = "refused" /\ ~m.stale
       /\ m.req = c.committing => m.kind \in {"created", "refused"}

(* What a card shows is what its draft asks for.                           *)
Showing(c) ==
  /\ c.asking # 0 => c.draft # None
  /\ c.preview # None => c.draft # None /\ Asks(c.draft, c.preview.promise)

(* A commit waits in one card.                                             *)
Alone(cs) ==
  \A s, t \in Slots : cs[s].committing # 0 /\ cs[s].committing = cs[t].committing => s = t

(* Whoever knows a preview by its id knows the same promise.               *)
Known(q) == [id |-> q.id, promise |-> q.promise]
Seen ==
  {Known(q) : q \in previews} \cup {Known(m) : m \in {m \in Back : m.kind = "preview"}}
    \cup {card[s].preview : s \in {s \in Slots : card[s].preview # None}}
    \cup {p.shown : p \in presses}
OnePromise ==
  /\ Seen \subseteq AnyShown
  /\ \A x, y \in Seen : x.id <= ids /\ (x.id = y.id => x = y)

(* A commit was pressed, and what was pressed was what the draft asks.     *)
Pressed ==
  /\ \A p \in presses : p.latest # None /\ Asks(p.latest, p.shown.promise)
  /\ \A m \in Sent : m.kind = "create" =>
       \E p \in presses : p.slot = m.slot /\ p.shown.id = m.id

(* What a card waits for is on its way.                                    *)
Owed(c, sent, back) ==
  \A r \in {c.asking, c.committing} \ {0} : \E m \in sent \cup back : m.req = r

CardsInv ==
  /\ Numbered(Sent, Back, reqs) /\ Alone(card)
  /\ \A s \in Slots : Waiting(card[s], Sent, Back, reqs) /\ Showing(card[s])
PressInv == OnePromise /\ Pressed /\ ShownIsSubmitted
OweInv ==
  /\ deaths \in Nat
  /\ deaths = 0 => Down \notin ToSet(toAbyss) /\ \A s \in Slots : Owed(card[s], Sent, Back)

CommitInv == SlotInv /\ DispatchInv /\ CardsInv /\ PressInv /\ OweInv

-----------------------------------------------------------------------------
(* Queues as sets.                                                         *)

LEMMA AppendedSet ==
  ASSUME NEW S, NEW q \in Seq(S), NEW e \in S
  PROVE  ToSet(Append(q, e)) = ToSet(q) \cup {e}
<1>1. /\ Append(q, e) \in Seq(S) /\ Len(Append(q, e)) = Len(q) + 1 /\ Len(q) \in Nat
      /\ \A i \in 1..Len(q) : Append(q, e)[i] = q[i]
      /\ Append(q, e)[Len(q) + 1] = e
  BY AppendProperties, LenProperties
<1>2. DOMAIN q = 1..Len(q) /\ DOMAIN Append(q, e) = 1..Len(q) + 1
  BY <1>1, LenProperties
<1>3. \A x : x \in ToSet(Append(q, e)) <=> \E i \in 1..Len(q) + 1 : Append(q, e)[i] = x
  BY <1>2 DEF ToSet
<1>4. \A x : x \in ToSet(q) <=> \E i \in 1..Len(q) : q[i] = x
  BY <1>2 DEF ToSet
<1>5. 1..Len(q) + 1 = 1..Len(q) \cup {Len(q) + 1}
  BY <1>1
<1> QED BY <1>1, <1>3, <1>4, <1>5

LEMMA TailSet ==
  ASSUME NEW S, NEW q \in Seq(S), q # <<>>
  PROVE  /\ Head(q) \in ToSet(q) /\ ToSet(Tail(q)) \subseteq ToSet(q)
         /\ ToSet(q) \subseteq ToSet(Tail(q)) \cup {Head(q)}
<1>1. /\ Len(q) \in Nat /\ Len(q) >= 1 /\ Head(q) = q[1]
      /\ Tail(q) \in Seq(S) /\ Len(Tail(q)) = Len(q) - 1
      /\ \A i \in 1..Len(Tail(q)) : Tail(q)[i] = q[i + 1]
  BY HeadTailProperties, LenProperties, EmptySeq
<1>2. DOMAIN q = 1..Len(q) /\ DOMAIN Tail(q) = 1..Len(q) - 1
  BY <1>1, LenProperties
<1>3. \A x : x \in ToSet(Tail(q)) <=> \E i \in 1..Len(q) - 1 : Tail(q)[i] = x
  BY <1>2 DEF ToSet
<1>4. \A x : x \in ToSet(q) <=> \E i \in 1..Len(q) : q[i] = x
  BY <1>2 DEF ToSet
<1>5. \A i \in 1..Len(q) - 1 : i + 1 \in 1..Len(q)
  BY <1>1
<1>6. \A i \in 1..Len(q) : i = 1 \/ (i - 1 \in 1..Len(q) - 1 /\ i = (i - 1) + 1)
  BY <1>1
<1>7. ASSUME NEW x \in ToSet(q), x # Head(q)
      PROVE  x \in ToSet(Tail(q))
  <2>1. PICK i \in 1..Len(q) : q[i] = x
    BY <1>4
  <2>2. i # 1
    BY <1>1, <1>7, <2>1
  <2>3. i - 1 \in 1..Len(q) - 1 /\ (i - 1) + 1 = i
    BY <1>6, <2>2
  <2>4. Tail(q)[i - 1] = x
    BY <1>1, <2>1, <2>3
  <2> QED BY <1>3, <2>3, <2>4
<1>8. Head(q) \in ToSet(q)
  BY <1>1, <1>4
<1>9. ASSUME NEW x \in ToSet(Tail(q)) PROVE x \in ToSet(q)
  BY <1>1, <1>3, <1>4, <1>5, <1>9
<1> QED BY <1>7, <1>8, <1>9

LEMMA CutSet ==
  ASSUME NEW S, NEW q \in Seq(S), NEW k \in 0..Len(q)
  PROVE  ToSet(SubSeq(q, k + 1, Len(q))) \subseteq ToSet(q)
<1> DEFINE c == SubSeq(q, k + 1, Len(q))
<1>1. Len(q) \in Nat /\ DOMAIN q = 1..Len(q) /\ k \in Nat /\ k <= Len(q)
  BY LenProperties
<1>2. c = [i \in 1..(Len(q) - k) |-> q[i + k]]
  BY <1>1
<1>3. \A i \in 1..(Len(q) - k) : c[i] = q[i + k] /\ i + k \in 1..Len(q)
  BY <1>1, <1>2
<1>4. DOMAIN c = 1..(Len(q) - k)
  BY <1>2
<1> HIDE DEF c
<1> QED BY <1>1, <1>3, <1>4 DEF ToSet

-----------------------------------------------------------------------------
(* One card.                                                               *)

Same(d, c) ==
  /\ d.draft = c.draft /\ d.pending = c.pending /\ d.preview = c.preview
  /\ d.asking = c.asking /\ d.committing = c.committing

(* A sample only sets the timer.                                           *)
LEMMA SampledSame ==
  ASSUME NEW cards \in [Slots -> AnyCard], NEW at, NEW k, NEW m, NEW s \in Slots
  PROVE  Same(Sampled(cards, at, k, m)[s], cards[s])
<1> DEFINE c == cards[s]
           x == Conditions(c, at[s], k, m)
           t(v) == TimedFrom(c, v)
<1>1. c \in AnyCard
  OBVIOUS
<1>2. \A v : Same(t(v), c)
  BY <1>1 DEF TimedFrom, Same, AnyCard
<1>3. Sampled(cards, at, k, m)[s] = Observed(c, x)
  BY DEF Sampled
<1>4. Observed(c, x) \in {t(None), t(x), c}
  BY DEF Observed
<1>5. Same(c, c)
  BY DEF Same
<1> HIDE DEF t, x
<1> QED BY <1>2, <1>3, <1>4, <1>5

LEMMA AgedSame ==
  ASSUME NEW c \in AnyCard
  PROVE  Same(Aged(c), c)
BY DEF Same, Aged, AnyCard

(* A card that waits for less, shows less, or has another draft and        *)
(* neither waits for a preview nor shows one.                              *)
Weaker(d, c) ==
  /\ d.asking \in {c.asking, 0} /\ d.committing \in {c.committing, 0}
  /\ d.preview \in {c.preview, None}
  /\ d.draft = c.draft \/ (d.asking = 0 /\ d.preview = None)

LEMMA WeakerCard ==
  ASSUME NEW c, NEW d, NEW sent, NEW back, NEW sent2, NEW back2, NEW n \in Nat,
         Waiting(c, sent, back, n), Showing(c), Numbered(sent, back, n), Weaker(d, c),
         sent2 \subseteq sent, back2 \subseteq back
  PROVE  Waiting(d, sent2, back2, n) /\ Showing(d)
<1>1. \A m \in sent \cup back : m.req # 0
  BY DEF Numbered
<1>2. Showing(d)
  BY DEF Showing, Weaker
<1>3. d.asking \in 0..n /\ d.committing \in 0..n
  BY DEF Waiting, Weaker
<1>4. \A m \in sent2 :
        /\ m.req = d.asking => m.kind = "preview" /\ m.draft = d.draft
        /\ m.req = d.committing => m.kind = "create"
  BY <1>1 DEF Waiting, Weaker
<1>5. \A m \in back2 :
        /\ m.req = d.asking =>
             \/ m.kind = "preview" /\ Asks(d.draft, m.promise)
             \/ m.kind = "refused" /\ ~m.stale
        /\ m.req = d.committing => m.kind \in {"created", "refused"}
  BY <1>1 DEF Waiting, Weaker
<1> QED BY <1>2, <1>3, <1>4, <1>5 DEF Waiting

(* Another's request has a number of its own.                              *)
LEMMA LaterCard ==
  ASSUME NEW c, NEW sent, NEW back, NEW n \in Nat, NEW m,
         Waiting(c, sent, back, n), m.req = n + 1
  PROVE  Waiting(c, sent \cup {m}, back, n + 1)
<1>1. c.asking \in 0..n + 1 /\ c.committing \in 0..n + 1 /\ m.req # c.asking /\ m.req # c.committing
  BY DEF Waiting
<1> QED BY <1>1 DEF Waiting

LEMMA AskingCard ==
  ASSUME NEW c, NEW d, NEW sent, NEW back, NEW n \in Nat, NEW m,
         Waiting(c, sent, back, n), Numbered(sent, back, n),
         m.req = n + 1, m.kind = "preview", m.draft = d.draft, d.draft # None,
         d.asking = n + 1, d.preview = None, d.committing \in {c.committing, 0}
  PROVE  Waiting(d, sent \cup {m}, back, n + 1) /\ Showing(d)
<1>1. /\ d.asking \in 0..n + 1 /\ d.committing \in 0..n + 1 /\ m.req # d.committing
      /\ \A q \in sent \cup back : q.req # d.asking /\ q.req # 0
  BY DEF Waiting, Numbered
<1>2. \A q \in sent \cup {m} :
        /\ q.req = d.asking => q.kind = "preview" /\ q.draft = d.draft
        /\ q.req = d.committing => q.kind = "create"
  BY <1>1 DEF Waiting
<1>3. \A q \in back : q.req # d.asking /\ (q.req = d.committing => q.kind \in {"created", "refused"})
  BY <1>1 DEF Waiting
<1> QED BY <1>1, <1>2, <1>3 DEF Waiting, Showing

LEMMA CommittingCard ==
  ASSUME NEW c, NEW d, NEW sent, NEW back, NEW n \in Nat, NEW m,
         Waiting(c, sent, back, n), Numbered(sent, back, n), Showing(c),
         m.req = n + 1, m.kind = "create",
         d.committing = n + 1, d.preview = None, d.asking = c.asking, d.draft = c.draft
  PROVE  Waiting(d, sent \cup {m}, back, n + 1) /\ Showing(d)
<1>1. /\ d.asking \in 0..n + 1 /\ d.committing \in 0..n + 1 /\ m.req # d.asking
      /\ \A q \in sent \cup back : q.req # d.committing
  BY DEF Waiting, Numbered
<1>2. \A q \in sent \cup {m} :
        /\ q.req = d.asking => q.kind = "preview" /\ q.draft = d.draft
        /\ q.req = d.committing => q.kind = "create"
  BY <1>1 DEF Waiting
<1>3. \A q \in back :
        /\ q.req # d.committing
        /\ q.req = d.asking =>
             \/ q.kind = "preview" /\ Asks(d.draft, q.promise)
             \/ q.kind = "refused" /\ ~q.stale
  BY <1>1 DEF Waiting
<1> QED BY <1>1, <1>2, <1>3 DEF Waiting, Showing

(* policyd answers a request in its kind.                                  *)
LEMMA AnsweredCard ==
  ASSUME NEW c, NEW sent, NEW back, NEW sent2, NEW n \in Nat, NEW m \in sent, NEW a,
         Waiting(c, sent, back, n), sent2 \subseteq sent, a.req = m.req,
         \/ /\ m.kind = "preview"
            /\ \/ a.kind = "preview" /\ Asks(m.draft, a.promise)
               \/ a.kind = "refused" /\ ~a.stale
         \/ m.kind = "create" /\ a.kind \in {"created", "refused"}
  PROVE  Waiting(c, sent2, back \cup {a}, n)
<1>1. /\ a.req = c.asking =>
           \/ a.kind = "preview" /\ Asks(c.draft, a.promise)
           \/ a.kind = "refused" /\ ~a.stale
      /\ a.req = c.committing => a.kind \in {"created", "refused"}
  BY DEF Waiting
<1> QED BY <1>1 DEF Waiting

-----------------------------------------------------------------------------
(* What a step leaves of the invariant.                                    *)

LEMMA SeenFrom ==
  ASSUME NEW X,
         \A q \in previews' : Known(q) \in X,
         \A m \in Back' : m.kind = "preview" => Known(m) \in X,
         \A s \in Slots : card'[s].preview # None => card'[s].preview \in X,
         \A p \in presses' : p.shown \in X
  PROVE  Seen' \subseteq X
BY DEF Seen

LEMMA SeenHas ==
  /\ \A q \in previews : Known(q) \in Seen
  /\ \A m \in Back : m.kind = "preview" => Known(m) \in Seen
  /\ \A s \in Slots : card[s].preview # None => card[s].preview \in Seen
  /\ \A p \in presses : p.shown \in Seen
BY DEF Seen

(* No promise that is not known already.                                   *)
LEMMA NothingNewSeen ==
  ASSUME CommitInv, Seen' \subseteq Seen, ids' \in Nat, ids' >= ids
  PROVE  OnePromise'
<1>1. ids \in Nat /\ \A x \in Seen : x.id \in Nat /\ x.id <= ids
  BY DEF CommitInv, PressInv, OnePromise, AnyShown, DispatchInv, DispatchTypes
<1>2. \A x \in Seen : x.id <= ids'
  BY <1>1
<1> QED BY <1>2 DEF CommitInv, PressInv, OnePromise

LEMMA QuietStep ==
  ASSUME CommitInv, SlotInv', DispatchInv',
         \A s \in Slots : Weaker(card'[s], card[s]),
         Sent' \subseteq Sent, Back' \subseteq Back,
         UNCHANGED <<reqs, presses, tasks>>,
         previews' \subseteq previews, ids' \in Nat, ids' >= ids,
         deaths' \in Nat,
         deaths' = 0 => Down \notin ToSet(toAbyss)' /\ \A s \in Slots : Owed(card'[s], Sent', Back')
  PROVE  CommitInv'
<1>1. reqs \in Nat /\ reqs' = reqs /\ presses' = presses /\ tasks' = tasks
  BY DEF CommitInv, SlotInv, SlotTypes
<1>2. Numbered(Sent', Back', reqs')
  BY <1>1 DEF CommitInv, CardsInv, Numbered
<1>3. ASSUME NEW s \in Slots
      PROVE  Waiting(card'[s], Sent', Back', reqs') /\ Showing(card'[s])
  <2>1. /\ Waiting(card[s], Sent, Back, reqs) /\ Showing(card[s]) /\ Numbered(Sent, Back, reqs)
        /\ Weaker(card'[s], card[s])
    BY DEF CommitInv, CardsInv
  <2> QED BY <1>1, <2>1, WeakerCard
<1>4. Alone(card')
  <2>1. Alone(card) /\ \A s \in Slots : card'[s].committing \in {card[s].committing, 0}
    BY DEF CommitInv, CardsInv, Weaker
  <2> QED BY <2>1 DEF Alone
<1>5. CardsInv'
  BY <1>2, <1>3, <1>4 DEF CardsInv
<1>6. OnePromise'
  <2>1. \A s \in Slots : card'[s].preview # None => card'[s].preview \in Seen
    BY SeenHas DEF Weaker
  <2>2. /\ \A q \in previews' : Known(q) \in Seen
        /\ \A m \in Back' : m.kind = "preview" => Known(m) \in Seen
        /\ \A p \in presses' : p.shown \in Seen
    BY <1>1, SeenHas
  <2>3. Seen' \subseteq Seen
    BY <2>1, <2>2, SeenFrom
  <2> QED BY <2>3, NothingNewSeen
<1>7. Pressed' /\ ShownIsSubmitted'
  BY <1>1 DEF CommitInv, PressInv, Pressed, ShownIsSubmitted
<1> QED BY <1>5, <1>6, <1>7 DEF CommitInv, PressInv, OweInv

(* What waits for the same or less is still owed.                          *)
LEMMA OwedStays ==
  ASSUME NEW c, NEW d, NEW sent, NEW back, Owed(c, sent, back), Weaker(d, c)
  PROVE  Owed(d, sent, back)
BY DEF Owed, Weaker

LEMMA SameIsWeaker ==
  ASSUME NEW c, NEW d, Same(d, c) PROVE Weaker(d, c)
BY DEF Same, Weaker

(* Nothing on the wire changes.                                            *)
LEMMA StillStep ==
  ASSUME CommitInv, SlotInv', DispatchInv',
         \A s \in Slots : Weaker(card'[s], card[s]),
         UNCHANGED <<toPolicyd, toAbyss, reqs, presses, tasks, deaths>>,
         previews' \subseteq previews, ids' \in Nat, ids' >= ids
  PROVE  CommitInv'
<1>1. Sent' = Sent /\ Back' = Back /\ ToSet(toAbyss)' = ToSet(toAbyss) /\ deaths' = deaths
  BY DEF Sent, Back
<1>2. deaths \in Nat
  BY DEF CommitInv, OweInv
<1>3. deaths = 0 => Down \notin ToSet(toAbyss) /\ \A s \in Slots : Owed(card'[s], Sent, Back)
  BY OwedStays DEF CommitInv, OweInv
<1> QED BY <1>1, <1>2, <1>3, QuietStep

(* A request more on its way.                                              *)
LEMMA SentOne ==
  ASSUME SlotInv, NEW m \in AnyRequest, toPolicyd' = Append(toPolicyd, m)
  PROVE  Sent' = Sent \cup {m}
BY AppendedSet DEF SlotInv, SlotTypes, Sent

(* draft_changed, in a card that was handled or whose commit was refused.  *)
LEMMA AskEffect ==
  ASSUME SlotInv, NEW s \in Slots, NEW c \in AnyCard, c.draft \in Drafts, Ask(s, c)
  PROVE  /\ \A t \in Slots : t # s => Same(card'[t], card[t])
         /\ card'[s].draft = c.draft /\ card'[s].preview = None
         /\ card'[s].asking = reqs + 1 /\ card'[s].committing = c.committing
<1> DEFINE o == Dropped(c)
           a == [o EXCEPT !.asking = reqs + 1]
           d == [a EXCEPT !.hash = c.draft]
           cards == [card EXCEPT ![s] = d]
<1>1. card \in [Slots -> AnyCard] /\ reqs + 1 \in Nat
  BY DEF SlotInv, SlotTypes
<1>2. o \in AnyCard /\ o.preview = None /\ o.draft = c.draft /\ o.committing = c.committing
  BY DEF Dropped, AnyCard
<1>3. /\ a \in AnyCard /\ a.preview = None /\ a.draft = c.draft /\ a.committing = c.committing
      /\ a.asking = reqs + 1
  <2> HIDE DEF o
  <2> QED BY <1>1, <1>2 DEF AnyCard
<1>4. /\ d \in AnyCard /\ d.preview = None /\ d.draft = c.draft /\ d.committing = c.committing
      /\ d.asking = reqs + 1
  <2> HIDE DEF a
  <2> QED BY <1>3 DEF AnyCard
<1>5. card' = Sampled(cards, scene, keyed, modal)
  BY DEF Ask
<1> HIDE DEF d
<1>6. /\ cards \in [Slots -> AnyCard] /\ cards[s] = d
      /\ \A t \in Slots : t # s => cards[t] = card[t]
  BY <1>1, <1>4
<1> HIDE DEF cards
<1>7. \A t \in Slots : Same(card'[t], cards[t])
  BY <1>5, <1>6, SampledSame
<1> QED BY <1>4, <1>6, <1>7 DEF Same

LEMMA AskStep ==
  ASSUME CommitInv, SlotInv', DispatchInv',
         NEW s \in Slots, NEW c \in AnyCard, c.draft \in Drafts, Ask(s, c),
         c.committing \in {card[s].committing, 0},
         Back' \subseteq Back,
         UNCHANGED <<presses, tasks, deaths>>,
         previews' \subseteq previews, ids' \in Nat, ids' >= ids,
         deaths = 0 => Down \notin ToSet(toAbyss)',
         deaths = 0 => \A t \in Slots \ {s} : Owed(card[t], Sent, Back'),
         deaths = 0 /\ c.committing # 0 => \E q \in Sent \cup Back' : q.req = c.committing
  PROVE  CommitInv'
<1> DEFINE m == [kind |-> "preview", req |-> reqs + 1, slot |-> s, draft |-> c.draft]
<1>1. /\ reqs \in Nat /\ reqs' = reqs + 1 /\ presses' = presses /\ tasks' = tasks /\ deaths' = deaths
      /\ toPolicyd' = Append(toPolicyd, m) /\ SlotInv
  BY DEF CommitInv, SlotInv, SlotTypes, Ask
<1>2. m \in AnyRequest /\ m.kind = "preview" /\ m.req = reqs + 1 /\ m.draft = c.draft
  BY <1>1 DEF AnyRequest
<1> HIDE DEF m
<1>3. Sent' = Sent \cup {m}
  BY <1>1, <1>2, SentOne
<1>4. /\ \A t \in Slots : t # s => Same(card'[t], card[t])
      /\ card'[s].draft = c.draft /\ card'[s].preview = None
      /\ card'[s].asking = reqs + 1 /\ card'[s].committing = c.committing
  BY <1>1, AskEffect
<1>5. c.draft # None
  BY DispatchAssumption
<1>6. Numbered(Sent, Back', reqs) /\ Numbered(Sent', Back', reqs')
  BY <1>1, <1>2, <1>3 DEF CommitInv, CardsInv, Numbered
<1>7. ASSUME NEW t \in Slots
      PROVE  Waiting(card'[t], Sent', Back', reqs') /\ Showing(card'[t])
  <2>1. Waiting(card[t], Sent, Back', reqs) /\ Showing(card[t])
    <3>1. Waiting(card[t], Sent, Back, reqs) /\ Showing(card[t]) /\ Numbered(Sent, Back, reqs)
      BY DEF CommitInv, CardsInv
    <3>2. Weaker(card[t], card[t])
      BY DEF Weaker
    <3> QED BY <1>1, <3>1, <3>2, WeakerCard
  <2>2. CASE t = s
    BY <1>1, <1>2, <1>3, <1>4, <1>5, <1>6, <2>1, <2>2, AskingCard
  <2>3. CASE t # s
    <3>1. Weaker(card'[t], card[t])
      BY <1>4, <2>3, SameIsWeaker
    <3>2. Waiting(card'[t], Sent, Back', reqs) /\ Showing(card'[t])
      BY <1>1, <1>6, <2>1, <3>1, WeakerCard
    <3> QED BY <1>1, <1>2, <1>3, <3>2, LaterCard
  <2> QED BY <2>2, <2>3
<1>8. Alone(card')
  <2>1. \A t \in Slots : card'[t].committing \in {card[t].committing, 0}
    BY <1>4 DEF Same
  <2> QED BY <2>1 DEF CommitInv, CardsInv, Alone
<1>9. CardsInv'
  BY <1>6, <1>7, <1>8 DEF CardsInv
<1>10. OnePromise'
  <2>1. \A t \in Slots : card'[t].preview # None => card'[t].preview \in Seen
    BY <1>4, SeenHas DEF Same
  <2>2. /\ \A q \in previews' : Known(q) \in Seen
        /\ \A q \in Back' : q.kind = "preview" => Known(q) \in Seen
        /\ \A p \in presses' : p.shown \in Seen
    BY <1>1, SeenHas
  <2>3. Seen' \subseteq Seen
    BY <2>1, <2>2, SeenFrom
  <2> QED BY <2>3, NothingNewSeen
<1>11. Pressed' /\ ShownIsSubmitted'
  BY <1>1, <1>2, <1>3 DEF CommitInv, PressInv, Pressed, ShownIsSubmitted
<1>12. ASSUME deaths = 0, NEW t \in Slots PROVE Owed(card'[t], Sent', Back')
  <2>1. CASE t = s
    BY <1>2, <1>3, <1>4, <1>12, <2>1 DEF Owed
  <2>2. CASE t # s
    <3>1. Owed(card[t], Sent, Back') /\ Same(card'[t], card[t])
      BY <1>4, <1>12, <2>2
    <3> QED BY <1>3, <3>1 DEF Owed, Same
  <2> QED BY <2>1, <2>2
<1> QED BY <1>1, <1>9, <1>10, <1>11, <1>12 DEF CommitInv, PressInv, OweInv

-----------------------------------------------------------------------------
(* The compositor's handlers.                                              *)

LEMMA CommitEffect ==
  ASSUME SlotInv, NEW s \in Slots, NEW cards \in [Slots -> AnyCard],
         \A t \in Slots : Same(cards[t], card[t]), NEW m, Commit(s, cards, m)
  PROVE  /\ \A t \in Slots : t # s => Same(card'[t], card[t])
         /\ card'[s].draft = card[s].draft /\ card'[s].preview = None
         /\ card'[s].asking = card[s].asking /\ card'[s].committing = reqs + 1
<1> DEFINE a == [cards[s] EXCEPT !.committing = reqs + 1]
           b == [a EXCEPT !.preview = None]
           d == [b EXCEPT !.read = 0]
           after == [cards EXCEPT ![s].committing = reqs + 1,
                                  ![s].preview = None, ![s].read = 0]
<1>1. cards[s] \in AnyCard /\ reqs + 1 \in Nat
  BY DEF SlotInv, SlotTypes
<1>2. /\ a \in AnyCard /\ a.draft = cards[s].draft /\ a.asking = cards[s].asking
      /\ a.committing = reqs + 1
  BY <1>1 DEF AnyCard
<1>3. /\ b \in AnyCard /\ b.draft = cards[s].draft /\ b.asking = cards[s].asking
      /\ b.committing = reqs + 1 /\ b.preview = None
  <2> HIDE DEF a
  <2> QED BY <1>2 DEF AnyCard
<1>4. /\ d \in AnyCard /\ d.draft = cards[s].draft /\ d.asking = cards[s].asking
      /\ d.committing = reqs + 1 /\ d.preview = None
  <2> HIDE DEF b
  <2> QED BY <1>3 DEF AnyCard
<1>5. after = [cards EXCEPT ![s] = d]
  OBVIOUS
<1>6. card' = Sampled(after, scene, keyed, m)
  BY DEF Commit
<1> HIDE DEF d, after
<1>7. /\ after \in [Slots -> AnyCard] /\ after[s] = d
      /\ \A t \in Slots : t # s => after[t] = cards[t]
  BY <1>4, <1>5
<1>8. \A t \in Slots : Same(card'[t], after[t])
  BY <1>6, <1>7, SampledSame
<1> QED BY <1>4, <1>7, <1>8 DEF Same

(* Whatever is pressed is what the card shows, which is what its only      *)
(* draft asks for.                                                         *)
LEMMA CommitStep ==
  ASSUME CommitInv, SlotInv', DispatchInv', NEW s \in Slots, NEW cards \in [Slots -> AnyCard],
         \A t \in Slots : Same(cards[t], card[t]), cards[s].preview # None,
         NEW m, Commit(s, cards, m)
  PROVE  CommitInv'
<1> DEFINE q == [kind |-> "create", req |-> reqs + 1, slot |-> s, id |-> cards[s].preview.id]
           p == [slot |-> s, req |-> reqs + 1, shown |-> cards[s].preview, latest |-> Latest(cards[s]),
                 read |-> IF modal = None THEN cards[s].read ELSE ArmMs]
<1>1. /\ reqs \in Nat /\ reqs' = reqs + 1 /\ presses' = presses \cup {p}
      /\ tasks' = tasks /\ deaths' = deaths /\ previews' = previews /\ ids' = ids
      /\ toPolicyd' = Append(toPolicyd, q) /\ toAbyss' = toAbyss /\ SlotInv
      /\ cards[s].pending = None
  BY DEF CommitInv, SlotInv, SlotTypes, Commit, MayCommit, dispatchVars
<1>2. cards[s].draft = card[s].draft /\ cards[s].preview = card[s].preview /\ card[s].preview # None
  BY DEF Same
<1>3. p.slot = s /\ p.shown = card[s].preview /\ p.latest = card[s].draft
  BY <1>1, <1>2 DEF Latest
<1>4. q \in AnyRequest /\ q.kind = "create" /\ q.req = reqs + 1 /\ q.slot = s /\ q.id = card[s].preview.id
  <2>1. card[s].preview \in AnyShown
    BY <1>1, <1>2 DEF SlotInv, SlotTypes, AnyCard
  <2> QED BY <1>1, <1>2, <2>1 DEF AnyRequest, AnyShown
<1> HIDE DEF p, q
<1>5. Sent' = Sent \cup {q} /\ Back' = Back /\ ToSet(toAbyss)' = ToSet(toAbyss)
  BY <1>1, <1>4, SentOne DEF Back
<1>6. /\ \A t \in Slots : t # s => Same(card'[t], card[t])
      /\ card'[s].draft = card[s].draft /\ card'[s].preview = None
      /\ card'[s].asking = card[s].asking /\ card'[s].committing = reqs + 1
  BY <1>1, CommitEffect
<1>7. Numbered(Sent, Back, reqs) /\ Numbered(Sent', Back', reqs')
  BY <1>1, <1>4, <1>5 DEF CommitInv, CardsInv, Numbered
<1>8. ASSUME NEW t \in Slots
      PROVE  Waiting(card'[t], Sent', Back', reqs') /\ Showing(card'[t])
  <2>1. Waiting(card[t], Sent, Back, reqs) /\ Showing(card[t])
    BY DEF CommitInv, CardsInv
  <2>2. CASE t = s
    BY <1>1, <1>4, <1>5, <1>6, <1>7, <2>1, <2>2, CommittingCard
  <2>3. CASE t # s
    <3>1. Weaker(card'[t], card[t])
      BY <1>6, <2>3, SameIsWeaker
    <3>2. Waiting(card'[t], Sent, Back, reqs) /\ Showing(card'[t])
      BY <1>1, <1>7, <2>1, <3>1, WeakerCard
    <3> QED BY <1>1, <1>4, <1>5, <3>2, LaterCard
  <2> QED BY <2>2, <2>3
<1>9. Alone(card')
  <2>1. \A t \in Slots : card[t].committing \in 0..reqs
    BY DEF CommitInv, CardsInv, Waiting
  <2>2. \A t \in Slots : t # s => card'[t].committing = card[t].committing /\ card[t].committing # reqs + 1
    BY <1>1, <1>6, <2>1 DEF Same
  <2> QED BY <1>6, <2>2 DEF CommitInv, CardsInv, Alone
<1>10. CardsInv'
  BY <1>7, <1>8, <1>9 DEF CardsInv
<1>11. OnePromise'
  <2>1. \A t \in Slots : card'[t].preview # None => card'[t].preview \in Seen
    BY <1>6, SeenHas DEF Same
  <2>2. /\ \A x \in previews' : Known(x) \in Seen
        /\ \A x \in Back' : x.kind = "preview" => Known(x) \in Seen
        /\ \A x \in presses' : x.shown \in Seen
    BY <1>1, <1>2, <1>3, <1>5, SeenHas
  <2>3. Seen' \subseteq Seen
    BY <2>1, <2>2, SeenFrom
  <2>4. ids' \in Nat /\ ids' >= ids
    BY <1>1 DEF CommitInv, DispatchInv, DispatchTypes
  <2> QED BY <2>3, <2>4, NothingNewSeen
<1>12. Pressed'
  <2>1. p.latest # None /\ Asks(p.latest, p.shown.promise)
    BY <1>2, <1>3 DEF CommitInv, CardsInv, Showing
  <2>2. \A x \in presses' : x.latest # None /\ Asks(x.latest, x.shown.promise)
    BY <1>1, <2>1 DEF CommitInv, PressInv, Pressed
  <2>3. \A x \in Sent' : x.kind = "create" => \E y \in presses' : y.slot = x.slot /\ y.shown.id = x.id
    BY <1>1, <1>3, <1>4, <1>5 DEF CommitInv, PressInv, Pressed
  <2> QED BY <2>2, <2>3 DEF Pressed
<1>13. ShownIsSubmitted'
  BY <1>1 DEF CommitInv, PressInv, ShownIsSubmitted
<1>14. ASSUME deaths = 0, NEW t \in Slots PROVE Owed(card'[t], Sent', Back')
  <2>1. Owed(card[t], Sent, Back)
    BY <1>14 DEF CommitInv, OweInv
  <2>2. CASE t = s
    <3>1. card'[t].asking = card[t].asking /\ card'[t].committing = q.req
      BY <1>4, <1>6, <2>2
    <3> QED BY <1>5, <2>1, <3>1 DEF Owed
  <2>3. CASE t # s
    <3>1. card'[t].asking = card[t].asking /\ card'[t].committing = card[t].committing
      BY <1>6, <2>3 DEF Same
    <3> QED BY <1>5, <2>1, <3>1 DEF Owed
  <2> QED BY <2>2, <2>3
<1> QED BY <1>1, <1>5, <1>10, <1>11, <1>12, <1>13, <1>14 DEF CommitInv, PressInv, OweInv

(* A cancelled card waits for nothing but its commit.                      *)
LEMMA CancelEffect ==
  ASSUME SlotInv, NEW s \in Slots, Cancel(s)
  PROVE  \A t \in Slots : Weaker(card'[t], card[t])
<1> DEFINE d == [Dropped(card[s]) EXCEPT !.draft = None, !.pending = None]
           cards == [card EXCEPT ![s] = d]
<1>1. card \in [Slots -> AnyCard]
  BY DEF SlotInv, SlotTypes
<1>2. d \in AnyCard /\ d.asking = 0 /\ d.preview = None /\ d.committing = card[s].committing
  BY <1>1 DEF Dropped, AnyCard
<1>3. card' = Sampled(cards, scene, keyed, modal)
  BY DEF Cancel
<1> HIDE DEF d
<1>4. /\ cards \in [Slots -> AnyCard] /\ cards[s] = d
      /\ \A t \in Slots : t # s => cards[t] = card[t]
  BY <1>1, <1>2
<1> HIDE DEF cards
<1>5. \A t \in Slots : Same(card'[t], cards[t])
  BY <1>3, <1>4, SampledSame
<1> QED BY <1>2, <1>4, <1>5 DEF Same, Weaker

LEMMA ClientCommits ==
  ASSUME CommitInv, SlotInv', DispatchInv', Client
  PROVE  CommitInv'
<1>1. PICK s \in Slots : SetDraft(s) \/ FlushDraft(s) \/ Cancel(s)
  BY DEF Client
<1>2. /\ SlotInv /\ card \in [Slots -> AnyCard] /\ card[s] \in AnyCard
      /\ ids \in Nat /\ ids >= ids /\ previews \subseteq previews
  BY DEF CommitInv, SlotInv, SlotTypes, DispatchInv, DispatchTypes
<1>3. ASSUME NEW d \in Drafts, ApplyDraft(s, d) PROVE CommitInv'
  <2> DEFINE c == [card[s] EXCEPT !.draft = d, !.pending = None]
  <2>1. c \in AnyCard /\ c.draft = d /\ c.committing = card[s].committing
    BY <1>2 DEF AnyCard
  <2>2. /\ Ask(s, c)
        /\ presses' = presses /\ tasks' = tasks /\ deaths' = deaths /\ toAbyss' = toAbyss
        /\ previews' = previews /\ ids' = ids
    BY <1>3 DEF ApplyDraft, dispatchVars
  <2> HIDE DEF c
  <2>3. Back' = Back /\ ToSet(toAbyss)' = ToSet(toAbyss)
    BY <2>2 DEF Back
  <2>4. deaths = 0 => Down \notin ToSet(toAbyss) /\ \A t \in Slots : Owed(card[t], Sent, Back)
    BY DEF CommitInv, OweInv
  <2>5. deaths = 0 /\ c.committing # 0 => \E q \in Sent \cup Back : q.req = c.committing
    BY <2>1, <2>4 DEF Owed
  <2> QED BY <1>2, <2>1, <2>2, <2>3, <2>4, <2>5, AskStep
<1>4. CASE SetDraft(s)
  <2>1. PICK d \in Drafts : ApplyDraft(s, d) \/ HoldDraft(s, d)
    BY <1>4 DEF SetDraft
  <2>2. CASE HoldDraft(s, d)
    <3> DEFINE c == [card[s] EXCEPT !.pending = d]
    <3>1. card' = [card EXCEPT ![s] = c]
      BY <1>2, <2>2 DEF HoldDraft
    <3>2. /\ c.draft = card[s].draft /\ c.preview = card[s].preview
          /\ c.asking = card[s].asking /\ c.committing = card[s].committing
      BY <1>2 DEF AnyCard
    <3> HIDE DEF c
    <3>3. \A t \in Slots : Weaker(card'[t], card[t])
      BY <1>2, <3>1, <3>2 DEF Weaker
    <3> QED BY <1>2, <2>2, <3>3, StillStep DEF HoldDraft, dispatchVars
  <2> QED BY <1>3, <2>1, <2>2
<1>5. CASE FlushDraft(s)
  <2>1. card[s].pending \in Drafts
    BY <1>2, <1>5 DEF FlushDraft, AnyCard
  <2> QED BY <1>3, <1>5, <2>1 DEF FlushDraft
<1>6. CASE Cancel(s)
  <2>1. \A t \in Slots : Weaker(card'[t], card[t])
    BY <1>2, <1>6, CancelEffect
  <2> QED BY <1>2, <1>6, <2>1, StillStep DEF Cancel, dispatchVars
<1> QED BY <1>1, <1>4, <1>5, <1>6

LEMMA HumanCommits ==
  ASSUME CommitInv, SlotInv', DispatchInv', Human
  PROVE  CommitInv'
<1> DEFINE cards == Sampled(card, scene, keyed, modal)
<1>1. /\ SlotInv /\ card \in [Slots -> AnyCard] /\ scene \in [Slots -> Scenes] /\ keyed \in BOOLEAN
      /\ modal \in [slot : Slots, id : Nat] \cup {None}
      /\ ids \in Nat /\ ids >= ids /\ previews \subseteq previews
      /\ \A t \in Slots : Handled(card[t])
  BY DEF CommitInv, SlotInv, SlotTypes, DispatchInv, DispatchTypes, ReadingInv, Reading, Handled
<1>2. cards \in [Slots -> AnyCard] /\ \A t \in Slots : Reading(cards[t]) /\ Same(cards[t], card[t])
  <2>1. cards \in [Slots -> AnyCard] /\ \A t \in Slots : Reading(cards[t])
    BY <1>1, SampledReads
  <2>2. \A t \in Slots : Same(cards[t], card[t])
    BY <1>1, SampledSame
  <2> QED BY <2>1, <2>2
<1>3. CASE \E s \in Slots : Enter(s)
  <2>1. PICK s \in Slots : Enter(s)
    BY <1>3
  <2>2. Armed(cards[s]) /\ Commit(s, cards, modal)
    BY <2>1 DEF Enter
  <2> HIDE DEF cards
  <2>3. cards[s].preview # None
    BY <1>2, <2>2 DEF Armed, Reading
  <2> QED BY <1>2, <2>2, <2>3, CommitStep
<1>4. CASE \E s \in Slots : OpenModal(s)
  <2>1. PICK s \in Slots : OpenModal(s)
    BY <1>4
  <2>2. card' = cards
    BY <2>1 DEF OpenModal
  <2> HIDE DEF cards
  <2>3. \A t \in Slots : Weaker(card'[t], card[t])
    BY <1>2, <2>2, SameIsWeaker
  <2> QED BY <1>1, <2>1, <2>3, StillStep DEF OpenModal, dispatchVars
<1>5. CASE GrantModal
  <2>1. modal \in [slot : Slots, id : Nat] /\ modal # None
    BY <1>1, <1>5 DEF GrantModal
  <2>2. /\ modal.slot \in Slots /\ card[modal.slot].preview # None
        /\ Commit(modal.slot, card, None)
    BY <1>5, <2>1 DEF GrantModal, StillShown
  <2>3. \A t \in Slots : Same(card[t], card[t])
    BY DEF Same
  <2> QED BY <1>1, <2>2, <2>3, CommitStep
<1>6. CASE CloseModal
  <2>1. \A t \in Slots : Weaker(card'[t], card[t])
    BY <1>6 DEF CloseModal, Weaker
  <2> QED BY <1>1, <1>6, <2>1, StillStep DEF CloseModal, dispatchVars
<1> QED BY <1>3, <1>4, <1>5, <1>6 DEF Human

LEMMA DeskCommits ==
  ASSUME CommitInv, SlotInv', DispatchInv', Desk
  PROVE  CommitInv'
<1>1. /\ SlotInv /\ card \in [Slots -> AnyCard] /\ scene \in [Slots -> Scenes] /\ keyed \in BOOLEAN
      /\ ids \in Nat /\ ids >= ids /\ previews \subseteq previews
      /\ \A t \in Slots : Handled(card[t])
  BY DEF CommitInv, SlotInv, SlotTypes, DispatchInv, DispatchTypes, ReadingInv, Reading, Handled
<1>2. CASE \E s \in Slots : Move(s)
  <2>1. \A t \in Slots : Weaker(card'[t], card[t])
    BY <1>2 DEF Move, Weaker
  <2> QED BY <1>1, <1>2, <2>1, StillStep DEF Move, dispatchVars
<1>3. CASE Tick
  <2> DEFINE cards == Sampled(card, scene, keyed, modal)
  <2>1. cards \in [Slots -> AnyCard]
    BY <1>1, SampledReads
  <2>2. \A t \in Slots : Same(cards[t], card[t])
    BY <1>1, SampledSame
  <2>3. \A t \in Slots : card'[t] = Aged(cards[t])
    BY <1>3 DEF Tick
  <2> HIDE DEF cards
  <2>4. \A t \in Slots : Weaker(card'[t], card[t])
    BY <2>1, <2>2, <2>3, AgedSame DEF Same, Weaker
  <2> QED BY <1>1, <1>3, <2>4, StillStep DEF Tick, dispatchVars
<1> QED BY <1>2, <1>3 DEF Desk

LEMMA AsideCommits ==
  ASSUME CommitInv, SlotInv', DispatchInv', Aside
  PROVE  CommitInv'
<1>1. ids \in Nat
  BY DEF CommitInv, DispatchInv, DispatchTypes
<1>2. ids' \in {ids, ids + 1} /\ previews' = previews /\ tasks' = tasks
  BY DEF Aside, Installing, InstallBegin, ReviewExpires, InstallAnswer, Edit, Recompile
<1>3. \A t \in Slots : Weaker(card'[t], card[t])
  BY DEF Aside, slotVars, Weaker
<1>4. UNCHANGED <<toPolicyd, toAbyss, reqs, presses, tasks, deaths>>
  BY <1>2 DEF Aside, slotVars
<1>5. ids' \in Nat /\ ids' >= ids /\ previews' \subseteq previews
  BY <1>1, <1>2
<1> QED BY <1>3, <1>4, <1>5, StillStep

-----------------------------------------------------------------------------
(* policyd.                                                                *)

LEMMA ReplyIsNotDown == \A a \in AnyReply : a # Down
BY DEF AnyReply, Down

(* An answer in place of the request: nobody waits for anything else.      *)
LEMMA AnswerEffect ==
  ASSUME CommitInv, toPolicyd # <<>>, NEW a \in AnyReply, Answered(a),
         UNCHANGED <<card, reqs, presses, deaths>>,
         a.req = Head(toPolicyd).req,
         \/ /\ Head(toPolicyd).kind = "preview"
            /\ \/ a.kind = "preview" /\ Asks(Head(toPolicyd).draft, a.promise)
               \/ a.kind = "refused" /\ ~a.stale
         \/ Head(toPolicyd).kind = "create" /\ a.kind \in {"created", "refused"}
  PROVE  /\ CardsInv' /\ OweInv' /\ Sent' \subseteq Sent /\ Back' = Back \cup {a}
         /\ Head(toPolicyd) \in Sent
<1> DEFINE m == Head(toPolicyd)
<1>1. /\ toPolicyd \in Seq(AnyRequest) /\ toAbyss \in Seq(AnyReply \cup {Down})
      /\ card' = card /\ reqs' = reqs /\ deaths' = deaths
      /\ toPolicyd' = Tail(toPolicyd) /\ toAbyss' = Append(toAbyss, a)
      /\ a # Down
  BY ReplyIsNotDown DEF CommitInv, SlotInv, SlotTypes, Answered
<1>2. m \in Sent /\ Sent' \subseteq Sent /\ Sent \subseteq Sent' \cup {m}
  BY <1>1, TailSet DEF Sent
<1>3. ToSet(toAbyss)' = ToSet(toAbyss) \cup {a}
  BY <1>1, AppendedSet
<1>4. Back' = Back \cup {a}
  BY <1>1, <1>3 DEF Back
<1> HIDE DEF m
<1>5. Numbered(Sent', Back', reqs')
  BY <1>1, <1>2, <1>4 DEF CommitInv, CardsInv, Numbered, m
<1>6. ASSUME NEW t \in Slots
      PROVE  Waiting(card'[t], Sent', Back', reqs') /\ Showing(card'[t])
  <2>1. Waiting(card[t], Sent, Back, reqs) /\ Showing(card[t]) /\ reqs \in Nat
    BY DEF CommitInv, CardsInv, SlotInv, SlotTypes
  <2>2. /\ m \in Sent /\ a.req = m.req /\ Sent' \subseteq Sent
        /\ \/ /\ m.kind = "preview"
              /\ \/ a.kind = "preview" /\ Asks(m.draft, a.promise)
                 \/ a.kind = "refused" /\ ~a.stale
           \/ m.kind = "create" /\ a.kind \in {"created", "refused"}
    BY <1>2 DEF m
  <2>3. Waiting(card[t], Sent', Back \cup {a}, reqs)
    BY <2>1, <2>2, AnsweredCard
  <2> QED BY <1>1, <1>4, <2>1, <2>3
<1>7. CardsInv'
  BY <1>1, <1>5, <1>6 DEF CommitInv, CardsInv
<1>8. ASSUME deaths = 0, NEW t \in Slots PROVE Owed(card[t], Sent', Back')
  <2>1. Owed(card[t], Sent, Back)
    BY <1>8 DEF CommitInv, OweInv
  <2>2. \A q \in Sent \cup Back : \E p \in Sent' \cup Back' : p.req = q.req
    BY <1>2, <1>4 DEF m
  <2>3. SUFFICES ASSUME NEW r \in {card[t].asking, card[t].committing} \ {0}
                 PROVE  \E p \in Sent' \cup Back' : p.req = r
    BY Zenon DEF Owed
  <2>4. PICK q \in Sent \cup Back : q.req = r
    BY <2>1 DEF Owed
  <2> QED BY <2>2, <2>4
<1>9. OweInv'
  BY <1>1, <1>3, <1>8 DEF CommitInv, OweInv
<1> QED BY <1>2, <1>4, <1>7, <1>9 DEF m

(* A preview's number is new, so is what it promises.                      *)
LEMMA PreviewCommits ==
  ASSUME CommitInv, SlotInv', DispatchInv', HandlePreview
  PROVE  CommitInv'
<1> DEFINE m == Head(toPolicyd)
<1>1. /\ toPolicyd # <<>> /\ toPolicyd \in Seq(AnyRequest) /\ m.kind = "preview"
      /\ UNCHANGED <<card, reqs, presses, deaths>>
  BY DEF HandlePreview, CommitInv, SlotInv, SlotTypes
<1>2. m \in AnyRequest /\ m.req \in Nat /\ m.slot \in Slots /\ m.draft \in Drafts
  <2>1. m \in AnyRequest
    BY <1>1, HeadTailProperties
  <2> QED BY <1>1, <2>1 DEF AnyRequest
<1>3. ids \in Nat
  BY DEF CommitInv, DispatchInv, DispatchTypes
<1>4. CASE /\ Preview(m.slot, m.draft)
           /\ Answered([kind |-> "preview", req |-> m.req, id |-> ids + 1,
                        promise |-> Promise(m.draft)])
  <2> DEFINE a == [kind |-> "preview", req |-> m.req, id |-> ids + 1, promise |-> Promise(m.draft)]
             x == [id |-> ids + 1, promise |-> Promise(m.draft)]
             q == NewPreview(m.slot, m.draft)
  <2>1. Promise(m.draft) \in Promises
    <3>1. Previewable(m.draft) /\ DispatchTypes
      BY <1>4 DEF Preview, CommitInv, DispatchInv
    <3> HIDE DEF m
    <3> QED BY <1>2, <3>1, PromiseTyped
  <2>2. Asks(m.draft, Promise(m.draft))
    BY DEF Asks, Promise
  <2>3. a \in AnyReply /\ x \in AnyShown /\ x.id = ids + 1
    BY <1>2, <1>3, <2>1 DEF AnyReply, AnyShown
  <2>4. a.kind = "preview" /\ a.req = m.req /\ a.promise = Promise(m.draft) /\ Known(a) = x
    BY DEF Known
  <2>5. Known(q) = x
    BY DEF Known, NewPreview
  <2>6. /\ previews' \subseteq previews \cup {q} /\ ids' = ids + 1 /\ tasks' = tasks
    BY <1>4 DEF Preview, Kept
  <2> HIDE DEF a, x, q
  <2>7. Answered(a)
    BY <1>4 DEF a
  <2>8. CardsInv' /\ OweInv' /\ Sent' \subseteq Sent /\ Back' = Back \cup {a}
    BY <1>1, <2>2, <2>3, <2>4, <2>7, AnswerEffect
  <2>9. Seen' \subseteq Seen \cup {x}
    <3>1. /\ \A p \in previews' : Known(p) \in Seen \cup {x}
          /\ \A p \in Back' : p.kind = "preview" => Known(p) \in Seen \cup {x}
          /\ \A s \in Slots : card'[s].preview # None => card'[s].preview \in Seen \cup {x}
          /\ \A p \in presses' : p.shown \in Seen \cup {x}
      BY <1>1, <2>4, <2>5, <2>6, <2>8, SeenHas
    <3> QED BY <3>1, SeenFrom
  <2>10. OnePromise'
    <3>1. Seen \subseteq AnyShown /\ \A y, z \in Seen : y.id <= ids /\ (y.id = z.id => y = z)
      BY DEF CommitInv, PressInv, OnePromise
    <3>2. \A y \in Seen : y.id \in Nat /\ y.id <= ids + 1 /\ y.id # ids + 1
      BY <1>3, <3>1 DEF AnyShown
    <3> QED BY <1>3, <2>3, <2>6, <2>9, <3>1, <3>2 DEF OnePromise
  <2>11. Pressed' /\ ShownIsSubmitted'
    BY <1>1, <2>6, <2>8 DEF CommitInv, PressInv, Pressed, ShownIsSubmitted
  <2> QED BY <2>8, <2>10, <2>11 DEF CommitInv, PressInv
<1>5. CASE /\ Answered([kind |-> "refused", req |-> m.req, stale |-> FALSE])
           /\ UNCHANGED dispatchVars
  <2> DEFINE a == [kind |-> "refused", req |-> m.req, stale |-> FALSE]
  <2>1. a \in AnyReply /\ a.kind = "refused" /\ ~a.stale /\ a.req = m.req
    BY <1>2 DEF AnyReply
  <2>2. previews' = previews /\ ids' = ids /\ tasks' = tasks /\ Answered(a)
    BY <1>5 DEF dispatchVars
  <2> HIDE DEF a
  <2>3. CardsInv' /\ OweInv' /\ Sent' \subseteq Sent /\ Back' = Back \cup {a}
    BY <1>1, <2>1, <2>2, AnswerEffect
  <2>4. Seen' \subseteq Seen
    <3>1. /\ \A p \in previews' : Known(p) \in Seen
          /\ \A p \in Back' : p.kind = "preview" => Known(p) \in Seen
          /\ \A s \in Slots : card'[s].preview # None => card'[s].preview \in Seen
          /\ \A p \in presses' : p.shown \in Seen
      BY <1>1, <2>1, <2>2, <2>3, SeenHas
    <3> QED BY <3>1, SeenFrom
  <2>5. OnePromise'
    BY <1>3, <2>2, <2>4, NothingNewSeen
  <2>6. Pressed' /\ ShownIsSubmitted'
    BY <1>1, <2>2, <2>3 DEF CommitInv, PressInv, Pressed, ShownIsSubmitted
  <2> QED BY <2>3, <2>5, <2>6 DEF CommitInv, PressInv
<1> QED BY <1>4, <1>5 DEF HandlePreview

(* The preview a commit spends is the one that was pressed.                *)
LEMMA CreateCommits ==
  ASSUME CommitInv, SlotInv', DispatchInv', HandleCreate
  PROVE  CommitInv'
<1> DEFINE m == Head(toPolicyd)
           fresh == { p \in Named(m.id) : Fresh(p, m.slot) }
           made == [kind |-> "created", req |-> m.req]
           not == [kind |-> "refused", req |-> m.req, stale |-> fresh = {}]
<1>1. /\ toPolicyd # <<>> /\ toPolicyd \in Seq(AnyRequest) /\ m.kind = "create"
      /\ UNCHANGED <<card, reqs, presses, deaths>>
      /\ previews' \subseteq previews /\ ids' = ids /\ ids \in Nat
  BY DEF HandleCreate, Spend, CommitInv, SlotInv, SlotTypes, DispatchInv, DispatchTypes
<1>2. m.req \in Nat
  <2>1. m \in AnyRequest
    BY <1>1, HeadTailProperties
  <2> QED BY <2>1 DEF AnyRequest
<1>3. ASSUME NEW a \in AnyReply, a.kind \in {"created", "refused"}, a.req = m.req, Answered(a),
             \A t \in tasks' \ tasks :
               \E p \in previews : p.id = m.id /\ p.slot = m.slot
                  /\ t = [preview |-> p.id, slot |-> p.slot, promise |-> p.promise]
      PROVE  CommitInv'
  <2>1. /\ CardsInv' /\ OweInv' /\ Sent' \subseteq Sent /\ Back' = Back \cup {a}
        /\ m \in Sent
    BY <1>1, <1>3, AnswerEffect
  <2>2. Seen' \subseteq Seen
    <3>1. /\ \A p \in previews' : Known(p) \in Seen
          /\ \A p \in Back' : p.kind = "preview" => Known(p) \in Seen
          /\ \A s \in Slots : card'[s].preview # None => card'[s].preview \in Seen
          /\ \A p \in presses' : p.shown \in Seen
      BY <1>1, <1>3, <2>1, SeenHas
    <3> QED BY <3>1, SeenFrom
  <2>3. OnePromise'
    BY <1>1, <2>2, NothingNewSeen
  <2>4. Pressed'
    BY <1>1, <2>1 DEF CommitInv, PressInv, Pressed
  <2>5. ASSUME NEW t \in tasks'
        PROVE  \E p \in presses :
                 /\ p.slot = t.slot /\ p.shown = [id |-> t.preview, promise |-> t.promise]
                 /\ p.latest # None /\ Asks(p.latest, t.promise)
    <3>1. CASE t \in tasks
      BY <3>1 DEF CommitInv, PressInv, ShownIsSubmitted
    <3>2. CASE t \notin tasks
      <4>1. PICK p \in previews : /\ p.id = m.id /\ p.slot = m.slot
                                   /\ t = [preview |-> p.id, slot |-> p.slot, promise |-> p.promise]
        BY <1>3, <3>2
      <4>2. PICK x \in presses : x.slot = m.slot /\ x.shown.id = m.id
        BY <1>1, <2>1 DEF CommitInv, PressInv, Pressed
      <4>3. Known(p) \in Seen /\ x.shown \in Seen /\ Known(p).id = x.shown.id
        BY <4>1, <4>2, SeenHas DEF Known
      <4>4. x.shown = Known(p)
        BY <4>3 DEF CommitInv, PressInv, OnePromise
      <4>5. x.latest # None /\ Asks(x.latest, x.shown.promise)
        BY DEF CommitInv, PressInv, Pressed
      <4>6. /\ t.slot = x.slot /\ x.shown = [id |-> t.preview, promise |-> t.promise]
            /\ x.shown.promise = t.promise
        BY <4>1, <4>2, <4>4 DEF Known
      <4> QED BY <4>5, <4>6
    <3> QED BY <3>1, <3>2
  <2>6. ShownIsSubmitted'
    BY <1>1, <2>5 DEF ShownIsSubmitted
  <2> QED BY <2>1, <2>3, <2>4, <2>6 DEF CommitInv, PressInv
<1>4. made \in AnyReply /\ not \in AnyReply
  BY <1>2 DEF AnyReply
<1>5. made.kind = "created" /\ made.req = m.req /\ not.kind = "refused" /\ not.req = m.req
  OBVIOUS
<1>6. CASE \E p \in fresh : Create(p) /\ Answered(made)
  <2>1. PICK p \in fresh : Create(p) /\ Answered(made)
    BY <1>6
  <2>2. p \in previews /\ p.id = m.id /\ p.slot = m.slot
    BY DEF Named, Fresh
  <2>3. \A t \in tasks' \ tasks : t = [preview |-> p.id, slot |-> p.slot, promise |-> p.promise]
    BY <2>1 DEF Create
  <2> HIDE DEF made
  <2> QED BY <1>3, <1>4, <1>5, <2>1, <2>2, <2>3
<1>7. CASE Answered(not) /\ tasks' = tasks
  <2> HIDE DEF not
  <2> QED BY <1>3, <1>4, <1>5, <1>7
<1> QED BY <1>6, <1>7 DEF HandleCreate

-----------------------------------------------------------------------------
(* The wire.                                                               *)

(* The preview a card asked for is of the draft it still has.              *)
LEMMA ShownCard ==
  ASSUME NEW c, NEW d, NEW sent, NEW back, NEW back2, NEW n \in Nat, NEW m \in back,
         Waiting(c, sent, back, n), Showing(c), Numbered(sent, back, n), back2 \subseteq back,
         m.kind = "preview", m.req = c.asking,
         d.asking = 0, d.draft = c.draft, d.committing = c.committing, d.preview = Known(m)
  PROVE  Waiting(d, sent, back2, n) /\ Showing(d)
<1>1. /\ \A q \in sent \cup back : q.req # d.asking
      /\ d.asking \in 0..n /\ d.committing \in 0..n
  BY DEF Numbered, Waiting
<1>2. c.draft # None /\ Asks(c.draft, m.promise)
  BY DEF Waiting, Showing, Numbered
<1>3. \A q \in sent : q.req = d.committing => q.kind = "create"
  BY DEF Waiting
<1>4. \A q \in back : q.req = d.committing => q.kind \in {"created", "refused"}
  BY DEF Waiting
<1>5. d.preview.promise = m.promise
  BY DEF Known
<1> QED BY <1>1, <1>2, <1>3, <1>4, <1>5 DEF Waiting, Showing

(* What is taken off the wire, nobody waits for any more.                  *)
LEMMA OwedLeft ==
  ASSUME NEW c, NEW d, NEW sent, NEW back, NEW back2, NEW m, Owed(c, sent, back),
         back \subseteq back2 \cup {m},
         d.asking \in {c.asking, 0}, d.committing \in {c.committing, 0},
         m.req # 0, d.asking # m.req, d.committing # m.req
  PROVE  Owed(d, sent, back2)
BY DEF Owed

LEMMA TookEffect ==
  ASSUME NEW cards \in [Slots -> AnyCard], Took(cards)
  PROVE  \A t \in Slots : Same(card'[t], cards[t])
BY SampledSame DEF Took

LEMMA CommittingGone ==
  ASSUME NEW c \in AnyCard
  PROVE  LET d == [c EXCEPT !.committing = 0]
         IN  /\ d \in AnyCard /\ d.committing = 0 /\ d.asking = c.asking
             /\ d.draft = c.draft /\ d.preview = c.preview
BY DEF AnyCard

(* The answer at the head of the queue.                                    *)
LEMMA HeadTaken ==
  ASSUME CommitInv, Deliver
  PROVE  LET m == Head(toAbyss)
         IN  /\ m \in AnyReply /\ m \in Back /\ m.req \in 1..reqs /\ m.req # 0
             /\ Back' \subseteq Back /\ Back \subseteq Back' \cup {m}
             /\ deaths = 0 => Down \notin ToSet(toAbyss)'
             /\ UNCHANGED <<presses, tasks, deaths, previews, ids>>
             /\ \A t \in Slots : /\ Waiting(card[t], Sent, Back, reqs) /\ Showing(card[t])
                                 /\ deaths = 0 => Owed(card[t], Sent, Back)
<1> DEFINE m == Head(toAbyss)
<1>1. /\ toAbyss \in Seq(AnyReply \cup {Down}) /\ toAbyss # <<>> /\ m # Down
      /\ toAbyss' = Tail(toAbyss) /\ UNCHANGED <<presses, tasks, deaths, previews, ids>>
  BY DEF CommitInv, SlotInv, SlotTypes, Deliver, dispatchVars
<1>2. m \in AnyReply
  BY <1>1, HeadTailProperties
<1>3. /\ m \in ToSet(toAbyss) /\ ToSet(Tail(toAbyss)) \subseteq ToSet(toAbyss)
      /\ ToSet(toAbyss) \subseteq ToSet(Tail(toAbyss)) \cup {m}
  BY <1>1, TailSet
<1> HIDE DEF m
<1>4. m \in Back /\ Back' \subseteq Back /\ Back \subseteq Back' \cup {m}
  BY <1>1, <1>3 DEF Back
<1>5. m.req \in 1..reqs /\ reqs \in Nat
  BY <1>4 DEF CommitInv, CardsInv, Numbered, SlotInv, SlotTypes
<1>6. deaths = 0 => Down \notin ToSet(toAbyss)'
  BY <1>1, <1>3 DEF CommitInv, OweInv
<1>7. \A t \in Slots : /\ Waiting(card[t], Sent, Back, reqs) /\ Showing(card[t])
                       /\ deaths = 0 => Owed(card[t], Sent, Back)
  BY DEF CommitInv, CardsInv, OweInv
<1> QED BY <1>1, <1>2, <1>4, <1>5, <1>6, <1>7 DEF m

LEMMA TakePreviewCommits ==
  ASSUME CommitInv, SlotInv', DispatchInv', Deliver, TakePreview(Head(toAbyss))
  PROVE  CommitInv'
<1> DEFINE m == Head(toAbyss)
           shown == [id |-> m.id, promise |-> m.promise]
           c(t) == IF t \in Asking(m.req)
                   THEN [card[t] EXCEPT !.asking = 0, !.preview = shown]
                   ELSE card[t]
           cards == [t \in Slots |-> c(t)]
<1>1. /\ m \in AnyReply /\ m \in Back /\ m.req \in 1..reqs /\ m.req # 0
      /\ Back' \subseteq Back /\ Back \subseteq Back' \cup {m}
      /\ deaths = 0 => Down \notin ToSet(toAbyss)'
      /\ UNCHANGED <<presses, tasks, deaths, previews, ids>>
      /\ \A t \in Slots : /\ Waiting(card[t], Sent, Back, reqs) /\ Showing(card[t])
                          /\ deaths = 0 => Owed(card[t], Sent, Back)
  BY HeadTaken
<1>2. /\ card \in [Slots -> AnyCard] /\ reqs \in Nat /\ ids \in Nat /\ deaths \in Nat
      /\ Numbered(Sent, Back, reqs) /\ Alone(card)
  BY DEF CommitInv, SlotInv, SlotTypes, CardsInv, DispatchInv, DispatchTypes, OweInv
<1>3. m.kind = "preview" /\ Took(cards) /\ reqs' = reqs /\ Sent' = Sent
  BY DEF TakePreview, Sent
<1>4. shown \in AnyShown /\ shown = Known(m)
  BY <1>1, <1>3 DEF AnyReply, AnyShown, Known
<1> HIDE DEF m, shown
<1>5. ASSUME NEW t \in Slots
      PROVE  /\ c(t) \in AnyCard
             /\ c(t).draft = card[t].draft /\ c(t).committing = card[t].committing
             /\ t \in Asking(m.req) => c(t).asking = 0 /\ c(t).preview = Known(m)
             /\ t \notin Asking(m.req) => c(t).asking = card[t].asking /\ c(t).preview = card[t].preview
  <2>1. card[t] \in AnyCard
    BY <1>2
  <2> QED BY <1>4, <2>1 DEF AnyCard
<1>6. cards \in [Slots -> AnyCard] /\ \A t \in Slots : cards[t] = c(t)
  BY <1>5
<1> HIDE DEF c, cards
<1>7. ASSUME NEW t \in Slots
      PROVE  /\ card'[t].draft = card[t].draft /\ card'[t].committing = card[t].committing
             /\ card[t].asking = m.req => card'[t].asking = 0 /\ card'[t].preview = Known(m)
             /\ card[t].asking # m.req =>
                  card'[t].asking = card[t].asking /\ card'[t].preview = card[t].preview
  <2>1. Same(card'[t], cards[t])
    BY <1>3, <1>6, TookEffect
  <2> QED BY <1>5, <1>6, <2>1 DEF Same, Asking
<1>8. ASSUME NEW t \in Slots
      PROVE  Waiting(card'[t], Sent', Back', reqs') /\ Showing(card'[t])
  <2>1. CASE card[t].asking = m.req
    BY <1>1, <1>2, <1>3, <1>7, <2>1, ShownCard
  <2>2. CASE card[t].asking # m.req
    <3>1. Weaker(card'[t], card[t])
      BY <1>7, <2>2 DEF Weaker
    <3> QED BY <1>1, <1>2, <1>3, <3>1, WeakerCard
  <2> QED BY <2>1, <2>2
<1>9. CardsInv'
  <2>1. Numbered(Sent', Back', reqs')
    BY <1>1, <1>2, <1>3 DEF Numbered
  <2>2. Alone(card')
    BY <1>2, <1>7 DEF Alone
  <2> QED BY <1>8, <2>1, <2>2 DEF CardsInv
<1>10. OnePromise'
  <2>1. Known(m) \in Seen
    BY <1>1, <1>3, SeenHas
  <2>2. \A t \in Slots : card'[t].preview # None => card'[t].preview \in Seen
    BY <1>7, <2>1, SeenHas
  <2>3. /\ \A q \in previews' : Known(q) \in Seen
        /\ \A q \in Back' : q.kind = "preview" => Known(q) \in Seen
        /\ \A p \in presses' : p.shown \in Seen
    BY <1>1, SeenHas
  <2>4. Seen' \subseteq Seen
    BY <2>2, <2>3, SeenFrom
  <2> QED BY <1>1, <1>2, <2>4, NothingNewSeen
<1>11. Pressed' /\ ShownIsSubmitted'
  BY <1>1, <1>3 DEF CommitInv, PressInv, Pressed, ShownIsSubmitted
<1>12. ASSUME deaths = 0, NEW t \in Slots PROVE Owed(card'[t], Sent', Back')
  <2>1. Owed(card[t], Sent, Back) /\ card[t].committing # m.req
    BY <1>1, <1>3, <1>12 DEF Waiting
  <2>2. card'[t].asking \in {card[t].asking, 0} /\ card'[t].asking # m.req
    BY <1>1, <1>7
  <2> QED BY <1>1, <1>3, <1>7, <2>1, <2>2, OwedLeft
<1> QED BY <1>1, <1>2, <1>9, <1>10, <1>11, <1>12 DEF CommitInv, PressInv, OweInv

(* A card that takes an answer and shows no more for it.                   *)
LEMMA TakeStep ==
  ASSUME CommitInv, SlotInv', DispatchInv', Deliver,
         NEW cards \in [Slots -> AnyCard], Took(cards), UNCHANGED <<reqs, toPolicyd>>,
         \A t \in Slots :
           /\ Weaker(cards[t], card[t])
           /\ cards[t].asking # Head(toAbyss).req /\ cards[t].committing # Head(toAbyss).req
  PROVE  CommitInv'
<1> DEFINE m == Head(toAbyss)
<1>1. /\ m.req # 0
      /\ Back' \subseteq Back /\ Back \subseteq Back' \cup {m}
      /\ deaths = 0 => Down \notin ToSet(toAbyss)'
      /\ UNCHANGED <<presses, tasks, deaths, previews, ids>>
      /\ \A t \in Slots : deaths = 0 => Owed(card[t], Sent, Back)
  BY HeadTaken
<1> HIDE DEF m
<1>2. ids \in Nat /\ deaths \in Nat /\ Sent' = Sent /\ reqs' = reqs
  BY DEF CommitInv, DispatchInv, DispatchTypes, OweInv, Sent
<1>3. ASSUME NEW t \in Slots
      PROVE  /\ Weaker(card'[t], card[t])
             /\ card'[t].asking # m.req /\ card'[t].committing # m.req
  <2>1. Same(card'[t], cards[t])
    BY TookEffect
  <2> QED BY <2>1 DEF Same, Weaker, m
<1>4. ASSUME deaths = 0, NEW t \in Slots PROVE Owed(card'[t], Sent', Back')
  <2>1. /\ card'[t].asking \in {card[t].asking, 0} /\ card'[t].committing \in {card[t].committing, 0}
        /\ Owed(card[t], Sent, Back)
    BY <1>1, <1>3, <1>4 DEF Weaker
  <2> QED BY <1>1, <1>2, <1>3, <2>1, OwedLeft
<1> QED BY <1>1, <1>2, <1>3, <1>4, QuietStep

LEMMA TakeCreatedCommits ==
  ASSUME CommitInv, SlotInv', DispatchInv', Deliver, TakeCreated(Head(toAbyss))
  PROVE  CommitInv'
<1> DEFINE m == Head(toAbyss)
           c(t) == IF t \in Committing(m.req) THEN [card[t] EXCEPT !.committing = 0] ELSE card[t]
           cards == [t \in Slots |-> c(t)]
<1>1. /\ m \in Back /\ m.req # 0 /\ \A t \in Slots : Waiting(card[t], Sent, Back, reqs)
      /\ card \in [Slots -> AnyCard]
  BY HeadTaken DEF CommitInv, SlotInv, SlotTypes
<1>2. m.kind = "created" /\ Took(cards) /\ UNCHANGED <<reqs, toPolicyd>>
  BY DEF TakeCreated
<1> HIDE DEF m
<1>3. ASSUME NEW t \in Slots
      PROVE  /\ c(t) \in AnyCard /\ Weaker(c(t), card[t])
             /\ c(t).asking # m.req /\ c(t).committing # m.req
  <2>1. card[t] \in AnyCard /\ card[t].asking # m.req
    BY <1>1, <1>2 DEF Waiting
  <2>2. CASE t \in Committing(m.req)
    BY <1>1, <2>1, <2>2, CommittingGone DEF Weaker
  <2>3. CASE t \notin Committing(m.req)
    BY <1>1, <2>1, <2>3 DEF Weaker, Committing
  <2> QED BY <2>2, <2>3
<1>4. cards \in [Slots -> AnyCard] /\ \A t \in Slots : cards[t] = c(t)
  BY <1>3
<1> HIDE DEF c, cards
<1> QED BY <1>2, <1>3, <1>4, TakeStep DEF m

(* A stale commit is followed by another preview, whose request is new.    *)
LEMMA TakeRefusedCommits ==
  ASSUME CommitInv, SlotInv', DispatchInv', Deliver, TakeRefused(Head(toAbyss))
  PROVE  CommitInv'
<1> DEFINE m == Head(toAbyss)
<1>1. /\ m \in Back /\ m.req # 0 /\ \A t \in Slots : Waiting(card[t], Sent, Back, reqs)
      /\ card \in [Slots -> AnyCard] /\ \A t \in Slots : card[t] \in AnyCard
      /\ Alone(card) /\ ids \in Nat
  BY HeadTaken DEF CommitInv, SlotInv, SlotTypes, CardsInv, DispatchInv, DispatchTypes
<1>2. m.kind = "refused"
  BY DEF TakeRefused
<1>3. m.stale => \A t \in Slots : card[t].asking # m.req
  BY <1>1, <1>2 DEF Waiting
<1>4. CASE m.stale /\ \E s \in Committing(m.req) : card[s].draft # None
  <2>1. PICK s \in Committing(m.req) :
          card[s].draft # None /\ Ask(s, [card[s] EXCEPT !.committing = 0])
    BY <1>4 DEF TakeRefused
  <2> DEFINE c == [card[s] EXCEPT !.committing = 0]
  <2>2. s \in Slots /\ card[s].committing = m.req
    BY DEF Committing
  <2>3. c \in AnyCard /\ c.committing = 0 /\ c.draft = card[s].draft
    BY <1>1, <2>2, CommittingGone
  <2>4. Ask(s, c)
    BY <2>1
  <2> HIDE DEF c, m
  <2>5. c.draft \in Drafts
    BY <2>1, <2>3 DEF AnyCard
  <2>6. /\ Back' \subseteq Back /\ Back \subseteq Back' \cup {m}
        /\ deaths = 0 => Down \notin ToSet(toAbyss)'
        /\ UNCHANGED <<presses, tasks, deaths, previews, ids>>
        /\ \A t \in Slots : deaths = 0 => Owed(card[t], Sent, Back)
    BY HeadTaken DEF m
  <2>7. ASSUME deaths = 0, NEW t \in Slots \ {s} PROVE Owed(card[t], Sent, Back')
    <3>1. card[t].committing # m.req
      BY <1>1, <2>2 DEF Alone
    <3>2. card[t].asking # m.req /\ Owed(card[t], Sent, Back)
      BY <1>3, <1>4, <2>6, <2>7
    <3> QED BY <1>1, <2>6, <3>1, <3>2, OwedLeft
  <2> QED BY <1>1, <2>2, <2>3, <2>4, <2>5, <2>6, <2>7, AskStep
<1>5. CASE m.stale /\ ~\E s \in Committing(m.req) : card[s].draft # None
  <2> DEFINE c(t) == IF t \in Committing(m.req)
                     THEN Dropped([card[t] EXCEPT !.committing = 0]) ELSE card[t]
             cards == [t \in Slots |-> c(t)]
  <2>1. Took(cards) /\ UNCHANGED <<reqs, toPolicyd>>
    BY <1>5 DEF TakeRefused
  <2>2. ASSUME NEW t \in Slots
        PROVE  /\ c(t) \in AnyCard /\ Weaker(c(t), card[t])
               /\ c(t).asking # m.req /\ c(t).committing # m.req
    <3>1. CASE t \in Committing(m.req)
      <4> DEFINE d == [card[t] EXCEPT !.committing = 0]
      <4>1. d \in AnyCard /\ d.committing = 0 /\ d.draft = card[t].draft
        BY <1>1, CommittingGone
      <4> HIDE DEF d, m
      <4>2. /\ Dropped(d) \in AnyCard /\ Dropped(d).committing = 0 /\ Dropped(d).asking = 0
            /\ Dropped(d).preview = None /\ Dropped(d).draft = card[t].draft
        BY <4>1 DEF Dropped, AnyCard
      <4>3. c(t) = Dropped(d)
        BY <3>1 DEF d
      <4> HIDE DEF c
      <4> QED BY <1>1, <4>2, <4>3 DEF Weaker
    <3>2. CASE t \notin Committing(m.req)
      <4>1. c(t) = card[t]
        BY <3>2
      <4> HIDE DEF c, m
      <4> QED BY <1>1, <1>3, <1>5, <3>2, <4>1 DEF Weaker, Committing
    <3> QED BY <3>1, <3>2
  <2>3. cards \in [Slots -> AnyCard] /\ \A t \in Slots : cards[t] = c(t)
    BY <2>2
  <2> HIDE DEF c, cards
  <2> QED BY <2>1, <2>2, <2>3, TakeStep
<1>6. CASE ~m.stale
  <2> DEFINE cards == [t \in Slots |-> Refused(t, m)]
  <2>1. Took(cards) /\ UNCHANGED <<reqs, toPolicyd>>
    BY <1>6 DEF TakeRefused
  <2>2. ASSUME NEW t \in Slots
        PROVE  /\ Refused(t, m) \in AnyCard /\ Weaker(Refused(t, m), card[t])
               /\ Refused(t, m).asking # m.req /\ Refused(t, m).committing # m.req
    <3> DEFINE r == t \in Asking(m.req) \cup Committing(m.req) \/ card[t].refused
               a == IF card[t].asking = m.req THEN 0 ELSE card[t].asking
               k == IF card[t].committing = m.req THEN 0 ELSE card[t].committing
               d == [card[t] EXCEPT !.refused = r, !.asking = a, !.committing = k]
    <3>1. card[t] \in AnyCard
      BY <1>1
    <3>2. r \in BOOLEAN /\ a \in Nat /\ k \in Nat
      BY <3>1 DEF AnyCard
    <3>3. Refused(t, m) = d
      BY <3>1 DEF Refused, AnyCard
    <3>4. a \in {card[t].asking, 0} /\ k \in {card[t].committing, 0} /\ a # m.req /\ k # m.req
      BY <1>1
    <3> HIDE DEF r, a, k
    <3>5. /\ d \in AnyCard /\ d.preview = card[t].preview /\ d.draft = card[t].draft
          /\ d.asking = a /\ d.committing = k
      BY <3>1, <3>2 DEF AnyCard
    <3> HIDE DEF d
    <3> QED BY <3>3, <3>4, <3>5 DEF Weaker
  <2>3. cards \in [Slots -> AnyCard] /\ \A t \in Slots : cards[t] = Refused(t, m)
    BY <2>2
  <2> HIDE DEF cards
  <2> QED BY <2>1, <2>2, <2>3, TakeStep
<1> QED BY <1>4, <1>5, <1>6

LEMMA WireCommits ==
  ASSUME CommitInv, SlotInv', DispatchInv', Wire
  PROVE  CommitInv'
<1>1. /\ toAbyss \in Seq(AnyReply \cup {Down}) /\ ids \in Nat /\ deaths \in Nat
      /\ ids >= ids /\ previews \subseteq previews
  BY DEF CommitInv, SlotInv, SlotTypes, DispatchInv, DispatchTypes, OweInv
<1>2. CASE Deliver
  <2> HIDE DEF CommitInv
  <2>1. TakePreview(Head(toAbyss)) \/ TakeCreated(Head(toAbyss)) \/ TakeRefused(Head(toAbyss))
    BY <1>2 DEF Deliver
  <2> QED BY <1>2, <2>1, TakePreviewCommits, TakeCreatedCommits, TakeRefusedCommits
<1>3. CASE LinkDown
  <2>1. /\ toAbyss # <<>> /\ Head(toAbyss) = Down /\ toAbyss' = Tail(toAbyss)
        /\ UNCHANGED <<card, reqs, toPolicyd, presses, tasks, deaths, previews, ids>>
    BY <1>3 DEF LinkDown, dispatchVars
  <2>2. Down \in ToSet(toAbyss) /\ Back' \subseteq Back /\ Sent' = Sent
    BY <1>1, <2>1, TailSet DEF Back, Sent
  <2>3. deaths' # 0
    BY <2>1, <2>2 DEF CommitInv, OweInv
  <2>4. \A t \in Slots : Weaker(card'[t], card[t])
    BY <2>1 DEF Weaker
  <2> QED BY <1>1, <2>1, <2>2, <2>3, <2>4, QuietStep
<1>4. CASE LinkUp
  <2>1. \A t \in Slots : Weaker(card'[t], card[t])
    BY <1>4 DEF LinkUp, Weaker
  <2> QED BY <1>1, <1>4, <2>1, StillStep DEF LinkUp, dispatchVars
<1> QED BY <1>2, <1>3, <1>4 DEF Wire

(* A restart loses requests and previews, never the answers it had sent.   *)
LEMMA DeathCommits ==
  ASSUME CommitInv, SlotInv', DispatchInv', PolicydDies
  PROVE  CommitInv'
<1>1. /\ toAbyss \in Seq(AnyReply \cup {Down}) /\ toPolicyd \in Seq(AnyRequest)
      /\ ids \in Nat /\ deaths \in Nat
  BY DEF CommitInv, SlotInv, SlotTypes, DispatchInv, DispatchTypes, OweInv
<1>2. /\ UNCHANGED <<card, reqs, presses, tasks>> /\ previews' = {} /\ ids' = ids
      /\ deaths' = deaths + 1
  BY DEF PolicydDies, Restart
<1>3. Sent' \subseteq Sent
  <2>1. ASSUME NEW k \in 0..Len(toPolicyd), toPolicyd' = SubSeq(toPolicyd, k + 1, Len(toPolicyd))
        PROVE  Sent' \subseteq Sent
    BY <1>1, <2>1, CutSet DEF Sent
  <2>2. CASE toPolicyd' = toPolicyd
    BY <2>2 DEF Sent
  <2> QED BY <2>1, <2>2 DEF PolicydDies
<1>4. Back' \subseteq Back
  <2>1. CASE toAbyss' = Append(toAbyss, Down)
    BY <1>1, <2>1, AppendedSet DEF Back
  <2>2. CASE toAbyss' = toAbyss
    BY <2>2 DEF Back
  <2> QED BY <2>1, <2>2 DEF PolicydDies
<1>5. \A t \in Slots : Weaker(card'[t], card[t])
  BY <1>2 DEF Weaker
<1>6. deaths' # 0 /\ deaths' \in Nat /\ ids' \in Nat /\ ids' >= ids /\ previews' \subseteq previews
  BY <1>1, <1>2
<1> QED BY <1>2, <1>3, <1>4, <1>5, <1>6, QuietStep

-----------------------------------------------------------------------------
(* The specification.                                                      *)

LEMMA CommitInit == Init => CommitInv
<1> SUFFICES ASSUME Init PROVE CommitInv
  OBVIOUS
<1>1. SlotInv /\ DispatchInv
  BY InitKeeps
<1>2. /\ card = [s \in Slots |-> NoCard] /\ reqs = 0 /\ deaths = 0 /\ presses = {}
      /\ toPolicyd = <<>> /\ toAbyss = <<>> /\ previews = {} /\ tasks = {} /\ ids = 0
  BY DEF Init, DispatchInit
<1>3. ToSet(<<>>) = {}
  BY DEF ToSet
<1>4. Sent = {} /\ Back = {} /\ ToSet(toAbyss) = {}
  BY <1>2, <1>3 DEF Sent, Back
<1>5. /\ NoCard.asking = 0 /\ NoCard.committing = 0 /\ NoCard.preview = None
  BY DEF NoCard
<1>6. \A s \in Slots : card[s] = NoCard
  BY <1>2
<1>7. CardsInv
  BY <1>2, <1>4, <1>5, <1>6 DEF CardsInv, Numbered, Alone, Waiting, Showing
<1>8. Seen = {}
  BY <1>2, <1>4, <1>5, <1>6 DEF Seen
<1>9. PressInv
  BY <1>2, <1>4, <1>8 DEF PressInv, OnePromise, Pressed, ShownIsSubmitted
<1>10. OweInv
  BY <1>2, <1>4, <1>5, <1>6 DEF OweInv, Owed
<1> QED BY <1>1, <1>7, <1>9, <1>10 DEF CommitInv

LEMMA CommitNext == CommitInv /\ [Next]_vars => CommitInv'
<1> SUFFICES ASSUME CommitInv, [Next]_vars PROVE CommitInv'
  OBVIOUS
<1>1. SlotInv' /\ DispatchInv'
  BY StepKeeps DEF CommitInv
<1>2. CASE Daemon
  BY <1>1, <1>2, PreviewCommits, CreateCommits DEF Daemon
<1>3. CASE UNCHANGED vars
  <2>1. \A t \in Slots : Weaker(card'[t], card[t])
    BY <1>3 DEF vars, slotVars, Weaker
  <2>2. ids \in Nat /\ ids >= ids /\ previews \subseteq previews
    BY DEF CommitInv, DispatchInv, DispatchTypes
  <2> QED BY <1>1, <1>3, <2>1, <2>2, StillStep DEF vars, slotVars, dispatchVars
<1> QED BY <1>1, <1>2, <1>3, ClientCommits, HumanCommits, DeskCommits, AsideCommits, WireCommits, DeathCommits
        DEF Next

LEMMA CommitInvHolds == Spec => []CommitInv
BY CommitInit, CommitNext, PTL DEF Spec

(* What was shown is what is submitted (A-08 section 5.2): a task policyd  *)
(* opens is what its slot's card showed when it was committed, and what    *)
(* the last draft set by then asks for, whatever drafts, previews,         *)
(* answers, refusals and restarts of policyd (slot.rs, commit.rs,          *)
(* dispatch.rs) came in between.                                           *)
THEOREM SubmittedAsShown == Spec => []ShownIsSubmitted
<1>1. CommitInv => ShownIsSubmitted
  BY DEF CommitInv, PressInv
<1> QED BY <1>1, CommitInvHolds, PTL

(* While policyd lives, no card waits in vain: the answer to what it asked *)
(* or committed (commit.rs, by_req) is on its way, one way or the other.   *)
THEOREM AnswersAreOwed == Spec => []WaitsAreOwed
<1>1. CommitInv => WaitsAreOwed
  <2> SUFFICES ASSUME CommitInv, deaths = 0, NEW s \in Slots,
                      NEW r \in {card[s].asking, card[s].committing} \ {0}
               PROVE  \E m \in ToSet(toPolicyd) \cup ToSet(toAbyss) : m.req = r
    BY DEF WaitsAreOwed
  <2>1. Owed(card[s], Sent, Back)
    BY DEF CommitInv, OweInv
  <2> QED BY <2>1 DEF Owed, Sent, Back
<1> QED BY <1>1, CommitInvHolds, PTL
===============================================================================
