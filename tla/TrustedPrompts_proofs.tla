----------------------- MODULE TrustedPrompts_proofs -----------------------
(***************************************************************************)
(* Proofs about TrustedPrompts for every value of its constants: the seat  *)
(* and the prompts' owners agree on what is up, polkit's front request     *)
(* never waits beside a free seat, and every ask is in exactly one place.  *)
(*                                                                         *)
(* Each function of the code is first shown to keep the seat and the       *)
(* owners' words (Keeps) and to move asks without losing or copying any    *)
(* (Moves); a handler composes them.                                       *)
(***************************************************************************)
EXTENDS TrustedPrompts, TLAPS, FiniteSetTheorems, SequenceTheorems, WellFoundedInduction

-----------------------------------------------------------------------------
(* Types, without the run's bounds.                                        *)

Positive == Nat \ {0}
Token    == [by : AllKinds, n : Nat]
Consents == [n : Positive, agent : Agents, drawable : BOOLEAN]
BatchAsk == [n : Nat, agent : Agents, long : BOOLEAN]
Reviews  == [n : Positive, drawable : BOOLEAN]
Requests == [n : Nat, stage : {"waiting", "prompting", "checking"}, token : Nat, tries : Nat]

State ==
  [seat : Token \cup {None}, timers : Seq(Token), order : Seq(Consents), showing : Nat,
   resolved : Seq(Nat), batches : Seq(BatchAsk), batchUp : BatchAsk \cup {None},
   installs : Seq(Reviews), installUp : Nat, broker : {"off", "idle", "asking", "prompt"},
   brokerQueued : BOOLEAN, brokerUp : BOOLEAN, polkit : Seq(Requests),
   withheld : SUBSET Nat, subjects : Seq(Positive), asking : Nat, quiet : BOOLEAN,
   pump : BOOLEAN, erasing : Nat, page : {0, 1, 2, 3}, answers : Seq(Nat), gone : SUBSET Nat]

(* Nothing up is no token and no batch.                                    *)
LEMMA NoneIsNothing == None \notin Token /\ None \notin BatchAsk
BY PromptsAssumption DEF Token, BatchAsk

-----------------------------------------------------------------------------
(* The invariant: each owner's own word for what is up, by the seat.       *)

Seated(u, by) == ~Free(u) /\ u.seat.by = by

ConsentPart(u) ==
  IF Seated(u, "consent") THEN u.showing # 0 /\ u.showing = u.seat.n ELSE u.showing = 0
BatchPart(u) ==
  IF Seated(u, "batch") THEN u.batchUp # None /\ u.batchUp.n = u.seat.n ELSE u.batchUp = None
InstallPart(u) ==
  IF Seated(u, "install") THEN u.installUp # 0 /\ u.installUp = u.seat.n ELSE u.installUp = 0
BrokerPart(u) ==
  IF Seated(u, "broker") THEN u.brokerUp /\ u.seat.n = 0 ELSE ~u.brokerUp
PolkitPart(u) ==
  /\ \A i \in 2..Len(u.polkit) : u.polkit[i].stage = "waiting"
  /\ IF Seated(u, "polkit")
     THEN u.polkit # <<>> /\ u.polkit[1].stage = "prompting" /\ u.polkit[1].token = u.seat.n
     ELSE u.polkit # <<>> => u.polkit[1].stage # "prompting"
ApprovalPart(u) ==
  IF Seated(u, "approval") THEN u.asking # 0 /\ u.asking = u.seat.n ELSE u.asking = 0
ErasePart(u) ==
  IF Seated(u, "erase") THEN u.erasing # 0 /\ u.erasing = u.seat.n ELSE u.erasing = 0
PanelPart(u) ==
  IF Seated(u, "panel") THEN u.page # 0 /\ u.page = u.seat.n ELSE u.page = 0

(* Everyone but the panel, which prompts are opened behind the back of     *)
(* while it terminates agents.                                             *)
Parts(u) ==
  /\ ConsentPart(u) /\ BatchPart(u) /\ InstallPart(u) /\ BrokerPart(u)
  /\ PolkitPart(u) /\ ApprovalPart(u) /\ ErasePart(u)

NotLeft(u) == Free(u) /\ u.polkit # <<>> => u.polkit[1].stage # "waiting"

Sound(u) == u \in State /\ Parts(u) /\ PanelPart(u)
PromptsInv == Sound(ui) /\ NotLeft(ui)

(* What a function of the code that is no answer does to the panel: a      *)
(* prompt that is up stays up, and none goes up.                           *)
PanelSame(u, v) ==
  /\ v.page = u.page /\ (Seated(v, "panel") <=> Seated(u, "panel"))
  /\ Seated(u, "panel") => v.seat = u.seat

Like(u, v)  == PanelSame(u, v) /\ (NotLeft(u) => NotLeft(v))
Keeps(u, v) == v \in State /\ Parts(v) /\ Like(u, v)

(* A function that keeps the parts and the panel keeps soundness.          *)
LEMMA KeepsSound ==
  ASSUME NEW u, NEW v, Sound(u), Keeps(u, v) PROVE Sound(v)
BY DEF Sound, Keeps, Like, PanelSame, PanelPart

(* What one function keeps and the next keeps, both keep.                  *)
LEMMA KeepsTrans ==
  ASSUME NEW u, NEW v, NEW w, Keeps(u, v), Keeps(v, w) PROVE Keeps(u, w)
BY DEF Keeps, Like, PanelSame

(* The prompts the owners take to be up are the seat's.                    *)
LEMMA SoundAgrees ==
  ASSUME NEW u, Sound(u)
  PROVE  Prompts(u) = (IF Free(u) THEN {} ELSE {u.seat})
<1>1. u \in State /\ (~Free(u) => u.seat \in Token)
  BY DEF Sound, State, Free
<1> DEFINE T(by, n) == [by |-> by, n |-> n]
<1>2. ~Free(u) => u.seat = T(u.seat.by, u.seat.n) /\ u.seat.by \in AllKinds
  BY <1>1 DEF Token
<1>3. {T("consent", n) : n \in {u.showing} \ {0}}
        = IF Seated(u, "consent") THEN {u.seat} ELSE {}
  BY <1>2 DEF Sound, Parts, ConsentPart, Seated
<1>4. {T("batch", p.n) : p \in {u.batchUp} \ {None}}
        = IF Seated(u, "batch") THEN {u.seat} ELSE {}
  BY <1>2 DEF Sound, Parts, BatchPart, Seated
<1>5. {T("install", n) : n \in {u.installUp} \ {0}}
        = IF Seated(u, "install") THEN {u.seat} ELSE {}
  BY <1>2 DEF Sound, Parts, InstallPart, Seated
<1>6. {T("broker", 0) : b \in {u.brokerUp} \ {FALSE}}
        = IF Seated(u, "broker") THEN {u.seat} ELSE {}
  <2>1. u.brokerUp \in BOOLEAN
    BY <1>1 DEF State
  <2>2. CASE Seated(u, "broker")
    <3>1. {u.brokerUp} \ {FALSE} = {TRUE}
      BY <2>1, <2>2 DEF Sound, Parts, BrokerPart
    <3>2. u.seat = T("broker", 0)
      BY <1>2, <2>2 DEF Sound, Parts, BrokerPart, Seated
    <3>3. {T("broker", 0) : b \in {TRUE}} = {T("broker", 0)}
      OBVIOUS
    <3>4. {T("broker", 0) : b \in {u.brokerUp} \ {FALSE}} = {T("broker", 0) : b \in {TRUE}}
      BY <3>1
    <3> QED BY <2>2, <3>2, <3>3, <3>4
  <2>3. CASE ~Seated(u, "broker")
    <3>1. {u.brokerUp} \ {FALSE} = {}
      BY <2>1, <2>3 DEF Sound, Parts, BrokerPart
    <3> QED BY <2>3, <3>1
  <2> QED BY <2>2, <2>3
<1>7. {T("polkit", p.token) : p \in {q \in ToSet(u.polkit) : q.stage = "prompting"}}
        = IF Seated(u, "polkit") THEN {u.seat} ELSE {}
  <2>1. u.polkit \in Seq(Requests) /\ PolkitPart(u)
    BY <1>1 DEF State, Sound, Parts
  <2>2. \A i \in 1..Len(u.polkit) : u.polkit[i].stage = "prompting" => i = 1
    BY <2>1 DEF PolkitPart
  <2>3. {q \in ToSet(u.polkit) : q.stage = "prompting"}
          = IF Seated(u, "polkit") THEN {u.polkit[1]} ELSE {}
    BY <2>1, <2>2 DEF ToSet, PolkitPart
  <2>4. Seated(u, "polkit") => u.seat = T("polkit", u.polkit[1].token)
    BY <1>2, <2>1 DEF PolkitPart, Seated
  <2> QED BY <2>3, <2>4
<1>8. {T("approval", n) : n \in {u.asking} \ {0}}
        = IF Seated(u, "approval") THEN {u.seat} ELSE {}
  BY <1>2 DEF Sound, Parts, ApprovalPart, Seated
<1>9. {T("erase", n) : n \in {u.erasing} \ {0}}
        = IF Seated(u, "erase") THEN {u.seat} ELSE {}
  BY <1>2 DEF Sound, Parts, ErasePart, Seated
<1>10. {T("panel", n) : n \in {u.page} \ {0}}
        = IF Seated(u, "panel") THEN {u.seat} ELSE {}
  BY <1>2 DEF Sound, PanelPart, Seated
<1>11. ~Free(u) => \E by \in AllKinds : Seated(u, by)
  BY <1>2 DEF Seated
<1> QED BY <1>3, <1>4, <1>5, <1>6, <1>7, <1>8, <1>9, <1>10, <1>11
        DEF Prompts, AllKinds, Seated

-----------------------------------------------------------------------------
(* Queues.                                                                 *)

(* The recursion Without is defined by.                                    *)
Filters(s, out, n, f) ==
  f = [i \in 0..n |-> IF i = 0 THEN <<>>
                      ELSE IF s[i] \in out THEN f[i-1] ELSE Append(f[i-1], s[i])]

(* Vec::retain walks the queue: its function exists, by the least length   *)
(* at which it would not.                                                  *)
LEMMA FiltersExist ==
  ASSUME NEW s, NEW out, NEW n \in Nat
  PROVE  \E f : Filters(s, out, n, f)
<1> SUFFICES ASSUME ~\E f : Filters(s, out, n, f) PROVE FALSE
  OBVIOUS
<1> DEFINE T == { k \in Nat : ~\E f : Filters(s, out, k, f) }
<1>1. PICK m \in T : \A y \in T : <<y, m>> \notin OpToRel(<, Nat)
  BY NatLessThanWellFounded, WFMin, Zenon
<1>2. \A y \in T : ~(y < m)
  BY <1>1 DEF OpToRel
<1>3. m # 0
  <2> DEFINE e == [i \in 0..0 |-> <<>>]
  <2>1. Filters(s, out, 0, e)
    BY DEF Filters
  <2> QED BY <2>1
<1>4. PICK f : Filters(s, out, m - 1, f)
  BY <1>2, <1>3
<1> DEFINE next(i, k) == IF i = 0 THEN <<>> ELSE IF s[i] \in out THEN k ELSE Append(k, s[i])
           g == [ i \in 0..m |-> IF i < m THEN f[i] ELSE next(i, f[i-1]) ]
<1>5. \A i \in 0..(m - 1) : f[i] = next(i, f[i-1])
  BY <1>4 DEF Filters
<1>6. \A i \in 0..m : g[i] = next(i, g[i-1])
  <2> TAKE i \in 0..m
  <2>1. CASE i = 0
    BY <1>3, <1>5, <2>1
  <2>2. CASE i # 0
    <3>1. i - 1 \in 0..m /\ i - 1 < m /\ (i < m => i \in 0..(m - 1))
      BY <2>2
    <3>2. g[i-1] = f[i-1]
      BY <3>1
    <3>3. g[i] = next(i, f[i-1])
      BY <1>5, <3>1
    <3> QED BY <3>2, <3>3
  <2> QED BY <2>1, <2>2
<1>7. Filters(s, out, m, g)
  BY <1>6 DEF Filters
<1> QED BY <1>7

(* What stays in a queue was in it.                                        *)
LEMMA WithoutType ==
  ASSUME NEW V, NEW s \in Seq(V), NEW out
  PROVE  Without(s, out) \in Seq(V)
<1> DEFINE kept == CHOOSE f : Filters(s, out, Len(s), f)
<1>1. Filters(s, out, Len(s), kept)
  BY FiltersExist
<1>2. Without(s, out) = kept[Len(s)]
  BY DEF Without, Filters
<1> HIDE DEF kept
<1> DEFINE T == { k \in Nat : k <= Len(s) /\ kept[k] \notin Seq(V) }
<1>3. SUFFICES ASSUME T # {} PROVE FALSE
  BY <1>2
<1>4. PICK m \in T : \A y \in T : <<y, m>> \notin OpToRel(<, Nat)
  BY <1>3, NatLessThanWellFounded, WFMin, Zenon
<1>5. \A y \in T : ~(y < m)
  BY <1>4 DEF OpToRel
<1> m \in Nat /\ m <= Len(s) /\ kept[m] \notin Seq(V)
  BY <1>4
<1>6. kept[m] = IF m = 0 THEN <<>>
                ELSE IF s[m] \in out THEN kept[m-1] ELSE Append(kept[m-1], s[m])
  <2>1. m \in 0..Len(s)
    OBVIOUS
  <2> HIDE DEF T
  <2> QED BY <1>1, <2>1, Zenon DEF Filters
<1>7. CASE m = 0
  BY <1>6, <1>7
<1>8. CASE m # 0
  <2>1. m - 1 \in 0..Len(s) /\ m - 1 < m /\ s[m] \in V
    BY <1>8
  <2>2. kept[m-1] \in Seq(V)
    BY <1>5, <2>1
  <2> QED BY <1>6, <1>8, <2>1, <2>2
<1> QED BY <1>7, <1>8

(* There is a token no timer has.                                          *)
LEMMA FreshType ==
  ASSUME NEW u, u.timers \in Seq(Token)
  PROVE  Fresh(u) \in Positive
<1> DEFINE n == Len(u.timers)
           tok(i) == [by |-> "polkit", n |-> i]
<1> n \in Nat
  OBVIOUS
<1>1. \E i \in 1..(n + 1) : tok(i) \notin ToSet(u.timers)
  <2> SUFFICES ASSUME \A i \in 1..(n + 1) : tok(i) \in ToSet(u.timers) PROVE FALSE
    OBVIOUS
  <2> DEFINE f == [i \in 1..(n + 1) |-> CHOOSE j \in 1..n : u.timers[j] = tok(i)]
  <2>1. \A i \in 1..(n + 1) : f[i] \in 1..n /\ u.timers[f[i]] = tok(i)
    <3> TAKE i \in 1..(n + 1)
    <3>1. \E j \in 1..n : u.timers[j] = tok(i)
      BY DEF ToSet
    <3> QED BY <3>1
  <2>2. f \in [1..(n + 1) -> 1..n]
    BY <2>1
  <2>3. \A i, j \in 1..(n + 1) : f[i] = f[j] => i = j
    <3> TAKE i, j \in 1..(n + 1)
    <3> HAVE f[i] = f[j]
    <3>1. tok(i) = tok(j)
      BY <2>1
    <3>2. tok(i).n = tok(j).n
      BY <3>1
    <3> QED BY <3>2
  <2>4. /\ IsFiniteSet(1..n) /\ IsFiniteSet(1..(n + 1))
        /\ Cardinality(1..n) = n /\ Cardinality(1..(n + 1)) = n + 1
    <3> HIDE DEF n, f
    <3> QED BY FS_Interval
  <2>5. Cardinality(1..n) < Cardinality(1..(n + 1))
    BY <2>4
  <2>6. \E i, j \in 1..(n + 1) : i # j /\ f[i] = f[j]
    <3> DEFINE S == 1..(n + 1)
               V == 1..n
    <3>1. IsFiniteSet(S) /\ IsFiniteSet(V) /\ Cardinality(V) < Cardinality(S) /\ f \in [S -> V]
      BY <2>2, <2>4, <2>5
    <3> HIDE DEF S, V, f
    <3>2. \E i, j \in S : i # j /\ f[i] = f[j]
      BY <3>1, FS_PigeonHole
    <3> QED BY <3>2 DEF S
  <2> QED BY <2>3, <2>6
<1> QED BY <1>1 DEF Fresh, Positive

-----------------------------------------------------------------------------
(* Functions of the code that are no answers: each keeps what the seat and *)
(* the owners say of one another.                                          *)

(* open, for the polkit request in front, leaves no free seat.             *)
LEMMA PolkitScheduleKeeps ==
  ASSUME NEW u \in State, Parts(u)
  PROVE  Keeps(u, PolkitSchedule(u)) /\ NotLeft(PolkitSchedule(u))
<1> DEFINE v == PolkitSchedule(u)
           i == Fresh(u)
<1>1. CASE ~Free(u) \/ u.polkit = <<>> \/ Head(u.polkit).stage # "waiting"
  <2>1. v = u
    BY <1>1 DEF PolkitSchedule
  <2>2. NotLeft(u)
    BY <1>1 DEF NotLeft, State
  <2> QED BY <2>1, <2>2 DEF Keeps, Like, PanelSame
<1>2. CASE Free(u) /\ u.polkit # <<>> /\ Head(u.polkit).stage = "waiting"
  <2>1. i \in Positive
    BY FreshType DEF State
  <2> HIDE DEF i
  <2> DEFINE t == [by |-> "polkit", n |-> i]
             p == [u.polkit EXCEPT ![1].stage = "prompting", ![1].token = i]
  <2>2. v = [[[u EXCEPT !.seat = t, !.timers = Append(@, t)]
               EXCEPT !.polkit[1].stage = "prompting"] EXCEPT !.polkit[1].token = i]
    BY <1>2 DEF PolkitSchedule, Open, i
  <2>3. t \in Token /\ t.by = "polkit" /\ t.n = i
    BY <2>1 DEF Token, AllKinds, Positive
  <2>4. /\ p \in Seq(Requests) /\ p # <<>> /\ Len(p) = Len(u.polkit)
        /\ p[1].stage = "prompting" /\ p[1].token = i
        /\ \A k \in 2..Len(p) : p[k] = u.polkit[k]
    <3> DEFINE r == [u.polkit[1] EXCEPT !.stage = "prompting", !.token = i]
    <3>1. u.polkit \in Seq(Requests) /\ u.polkit[1] \in Requests /\ 1 \in 1..Len(u.polkit)
      BY <1>2 DEF State
    <3>2. r \in Requests /\ r.stage = "prompting" /\ r.token = i
      BY <2>1, <3>1 DEF Requests, Positive
    <3>3. p = [u.polkit EXCEPT ![1] = r]
      BY <3>1
    <3> HIDE DEF r, p
    <3> QED BY <3>1, <3>2, <3>3
  <2>5. v = [u EXCEPT !.seat = t, !.timers = Append(@, t), !.polkit = p]
    BY <2>2 DEF State
  <2>6. Append(u.timers, t) \in Seq(Token)
    BY <2>3 DEF State
  <2> HIDE DEF t, p, v
  <2>7. /\ v \in State /\ v.seat = t /\ v.polkit = p
        /\ v.showing = u.showing /\ v.batchUp = u.batchUp /\ v.installUp = u.installUp
        /\ v.brokerUp = u.brokerUp /\ v.asking = u.asking /\ v.erasing = u.erasing
        /\ v.page = u.page
    BY <2>3, <2>4, <2>5, <2>6 DEF State
  <2>8. ~Free(v)
    BY <2>3, <2>7, NoneIsNothing DEF Free
  <2>9. Parts(v)
    BY <1>2, <2>3, <2>4, <2>7, <2>8 DEF Parts, ConsentPart, BatchPart, InstallPart,
       BrokerPart, PolkitPart, ApprovalPart, ErasePart, Seated
  <2>10. Keeps(u, v) /\ NotLeft(v)
    BY <1>2, <2>3, <2>7, <2>8, <2>9 DEF Keeps, Like, PanelSame, NotLeft, Seated
  <2> QED BY <2>10 DEF v
<1> QED BY <1>1, <1>2

(* Who is asked, and what is told, does not matter to the seat.            *)
SameUp(u, v) ==
  /\ v.seat = u.seat /\ v.showing = u.showing /\ v.batchUp = u.batchUp
  /\ v.installUp = u.installUp /\ v.brokerUp = u.brokerUp /\ v.polkit = u.polkit
  /\ v.asking = u.asking /\ v.erasing = u.erasing /\ v.page = u.page

(* What touches nobody's word for what is up keeps it.                     *)
LEMMA SameUpKeeps ==
  ASSUME NEW u, NEW v \in State, Parts(u), SameUp(u, v)
  PROVE  Keeps(u, v)
BY DEF SameUp, Keeps, Like, PanelSame, NotLeft, Parts, ConsentPart, BatchPart, InstallPart,
   BrokerPart, PolkitPart, ApprovalPart, ErasePart, Seated, Free

(* A function that finds nothing to do.                                    *)
LEMMA KeepsSelf == ASSUME NEW u \in State, Parts(u) PROVE Keeps(u, u)
BY SameUpKeeps DEF SameUp

(* trusted_ui/mod.rs open.                                                 *)
LEMMA OpenIs ==
  ASSUME NEW u \in State, NEW by \in AllKinds, NEW n \in Nat
  PROVE  /\ Open(u, by, n) \in State
         /\ Open(u, by, n) = [u EXCEPT !.seat = [by |-> by, n |-> n],
                                       !.timers = Append(u.timers, [by |-> by, n |-> n])]
         /\ ~Free(Open(u, by, n))
<1> DEFINE t == [by |-> by, n |-> n]
<1>1. t \in Token
  BY DEF Token
<1>2. Append(u.timers, t) \in Seq(Token)
  BY <1>1 DEF State
<1>3. Open(u, by, n) = [u EXCEPT !.seat = t, !.timers = Append(u.timers, t)]
  BY DEF Open, State
<1> HIDE DEF t
<1>4. Open(u, by, n) \in State /\ Open(u, by, n).seat = t
  <2> DEFINE q == Append(u.timers, t)
             o == [u EXCEPT !.seat = t, !.timers = q]
  <2>1. q \in Seq(Token) /\ Open(u, by, n) = o
    BY <1>2, <1>3
  <2> HIDE DEF q
  <2>2. o \in State
    BY <1>1, <2>1 DEF State
  <2>3. o.seat = t
    BY DEF State
  <2> QED BY <2>1, <2>2, <2>3
<1> QED BY <1>1, <1>3, <1>4, NoneIsNothing DEF Free, t

(* cancel: the prompt that is up comes down, and polkit gets the seat.     *)
LEMMA CancelKeeps ==
  ASSUME NEW u \in State, NEW by, by # "panel", NEW n,
         IsUp(u, by, n) => Parts([u EXCEPT !.seat = None]),
         ~IsUp(u, by, n) => Parts(u)
  PROVE  Keeps(u, Cancel(u, by, n))
<1> DEFINE d == [u EXCEPT !.seat = None]
<1>1. CASE IsUp(u, by, n)
  <2>1. d \in State /\ d.seat = None /\ d.page = u.page /\ Free(d)
    BY DEF State, Free
  <2> HIDE DEF d
  <2>2. Keeps(d, PolkitSchedule(d)) /\ NotLeft(PolkitSchedule(d))
    BY <1>1, <2>1, PolkitScheduleKeeps DEF d
  <2>3. PanelSame(u, d)
    BY <1>1, <2>1 DEF PanelSame, Seated, IsUp
  <2>4. Keeps(u, PolkitSchedule(d))
    BY <2>2, <2>3 DEF Keeps, Like, PanelSame
  <2> QED BY <1>1, <2>4 DEF Cancel, d
<1>2. CASE ~IsUp(u, by, n)
  BY <1>2, KeepsSelf DEF Cancel
<1> QED BY <1>1, <1>2

(* The answer of a consent changes nothing else.                           *)
LEMMA SettleIs ==
  ASSUME NEW u \in State, NEW n \in Nat
  PROVE  /\ Settle(u, n) \in State
         /\ Settle(u, n) = [u EXCEPT !.order = Without(u.order, Numbered(u.order, n)),
                                     !.showing = IF u.showing = n THEN 0 ELSE u.showing,
                                     !.resolved = Append(u.resolved, n)]
<1>1. Without(u.order, Numbered(u.order, n)) \in Seq(Consents)
  BY WithoutType DEF State
<1>2. Settle(u, n) = [u EXCEPT !.order = Without(u.order, Numbered(u.order, n)),
                               !.showing = IF u.showing = n THEN 0 ELSE u.showing,
                               !.resolved = Append(u.resolved, n)]
  BY DEF Settle, State
<1>3. Append(u.resolved, n) \in Seq(Nat)
  BY DEF State
<1> DEFINE w == Without(u.order, Numbered(u.order, n))
           s == IF u.showing = n THEN 0 ELSE u.showing
           r == Append(u.resolved, n)
<1>4. w \in Seq(Consents) /\ s \in Nat /\ r \in Seq(Nat)
  BY <1>1, <1>3 DEF State
<1>5. Settle(u, n) = [u EXCEPT !.order = w, !.showing = s, !.resolved = r]
  BY <1>2
<1> HIDE DEF w, s, r
<1>6. [u EXCEPT !.order = w, !.showing = s, !.resolved = r] \in State
  BY <1>4 DEF State
<1> QED BY <1>5, <1>6 DEF w, s, r

(* consent.rs schedule.                                                    *)
LEMMA ConsentScheduleKeeps ==
  ASSUME NEW u \in State, Parts(u)
  PROVE  Keeps(u, ConsentSchedule(u))
<1> DEFINE v == ConsentSchedule(u)
           p == Head(u.order)
<1>1. CASE ~Free(u) \/ u.showing # 0 \/ u.order = <<>>
  BY <1>1, KeepsSelf DEF ConsentSchedule
<1>2. CASE Free(u) /\ u.showing = 0 /\ u.order # <<>>
  <2>1. p \in Consents /\ p.n \in Nat /\ p.n # 0
    <3>1. u.order \in Seq(Consents)
      BY DEF State
    <3>2. p \in Consents
      BY <1>2, <3>1
    <3> QED BY <3>2 DEF Consents, Positive
  <2>2. CASE p.drawable
    <3> DEFINE o == Open(u, "consent", p.n)
    <3>1. /\ o \in State /\ ~Free(o)
          /\ o = [u EXCEPT !.seat = [by |-> "consent", n |-> p.n],
                           !.timers = Append(u.timers, [by |-> "consent", n |-> p.n])]
      BY ZenonT(30), <2>1, OpenIs DEF AllKinds
    <3>2. v = [o EXCEPT !.showing = p.n]
      BY <1>2, <2>2 DEF ConsentSchedule
    <3> HIDE DEF o, p, v
    <3>3. /\ v \in State /\ v.seat.by = "consent" /\ v.seat.n = p.n /\ v.showing = p.n
          /\ v.seat = o.seat /\ v.polkit = u.polkit /\ v.page = u.page /\ v.batchUp = u.batchUp
          /\ v.installUp = u.installUp /\ v.brokerUp = u.brokerUp /\ v.asking = u.asking
          /\ v.erasing = u.erasing
      BY ZenonT(30), <2>1, <3>1, <3>2 DEF State
    <3>4. ~Free(v)
      BY <3>1, <3>3 DEF Free
    <3>5. Keeps(u, v)
      BY <1>2, <2>1, <3>3, <3>4 DEF Keeps, Like, PanelSame, NotLeft, Parts, ConsentPart,
         BatchPart, InstallPart, BrokerPart, PolkitPart, ApprovalPart, ErasePart, Seated
    <3> QED BY <3>5 DEF v
  <2>3. CASE ~p.drawable
    <3>1. v = Settle(u, p.n)
      BY <1>2, <2>3 DEF ConsentSchedule
    <3> HIDE DEF p
    <3> HIDE DEF v
    <3>2. /\ v \in State
          /\ v = [u EXCEPT !.order = Without(u.order, Numbered(u.order, p.n)),
                           !.showing = IF u.showing = p.n THEN 0 ELSE u.showing,
                           !.resolved = Append(u.resolved, p.n)]
      BY <2>1, <3>1, SettleIs
    <3>3. SameUp(u, v)
      BY <1>2, <2>1, <3>2 DEF State, SameUp
    <3>4. Keeps(u, v)
      BY <3>2, <3>3, SameUpKeeps
    <3> QED BY <3>4 DEF v
  <2> QED BY <2>2, <2>3
<1> QED BY <1>1, <1>2

(* batch.rs schedule.                                                      *)
LEMMA BatchScheduleKeeps ==
  ASSUME NEW u \in State, Parts(u)
  PROVE  Keeps(u, BatchSchedule(u))
<1> DEFINE v == BatchSchedule(u)
           p == Head(u.batches)
<1>1. CASE ~Free(u) \/ u.batchUp # None \/ u.batches = <<>>
  BY <1>1, KeepsSelf DEF BatchSchedule
<1>2. CASE Free(u) /\ u.batchUp = None /\ u.batches # <<>>
  <2>1. p \in BatchAsk /\ p.n \in Nat /\ p # None /\ Tail(u.batches) \in Seq(BatchAsk)
    <3>1. u.batches \in Seq(BatchAsk)
      BY DEF State
    <3>2. p \in BatchAsk /\ Tail(u.batches) \in Seq(BatchAsk)
      BY <1>2, <3>1
    <3> QED BY <3>2, NoneIsNothing DEF BatchAsk
  <2> DEFINE o == Open(u, "batch", p.n)
  <2>2. /\ o \in State /\ ~Free(o)
        /\ o = [u EXCEPT !.seat = [by |-> "batch", n |-> p.n],
                         !.timers = Append(u.timers, [by |-> "batch", n |-> p.n])]
    BY ZenonT(30), <2>1, OpenIs DEF AllKinds
  <2>3. v = [o EXCEPT !.batches = Tail(u.batches), !.batchUp = p]
    BY <1>2, <2>2 DEF BatchSchedule, State
  <2> HIDE DEF o, p, v
  <2>4. /\ v \in State /\ v.seat.by = "batch" /\ v.seat.n = p.n /\ v.batchUp = p
        /\ v.seat = o.seat /\ v.polkit = u.polkit /\ v.page = u.page /\ v.showing = u.showing
        /\ v.installUp = u.installUp /\ v.brokerUp = u.brokerUp /\ v.asking = u.asking
        /\ v.erasing = u.erasing
    BY ZenonT(30), <2>1, <2>2, <2>3 DEF State
  <2>5. ~Free(v)
    BY <2>2, <2>4 DEF Free
  <2>6. Keeps(u, v)
    BY <1>2, <2>1, <2>4, <2>5 DEF Keeps, Like, PanelSame, NotLeft, Parts, ConsentPart,
       BatchPart, InstallPart, BrokerPart, PolkitPart, ApprovalPart, ErasePart, Seated
  <2> QED BY <2>6 DEF v
<1> QED BY <1>1, <1>2

(* install.rs schedule.                                                    *)
LEMMA InstallScheduleKeeps ==
  ASSUME NEW u \in State, Parts(u)
  PROVE  Keeps(u, InstallSchedule(u))
<1> DEFINE v == InstallSchedule(u)
           p == Head(u.installs)
           q == [u EXCEPT !.installs = Tail(@)]
<1>1. CASE ~Free(u) \/ u.installUp # 0 \/ u.installs = <<>>
  BY <1>1, KeepsSelf DEF InstallSchedule
<1>2. CASE Free(u) /\ u.installUp = 0 /\ u.installs # <<>>
  <2>1. p \in Reviews /\ p.n \in Nat /\ p.n # 0 /\ Tail(u.installs) \in Seq(Reviews)
    <3>1. u.installs \in Seq(Reviews)
      BY DEF State
    <3>2. p \in Reviews /\ Tail(u.installs) \in Seq(Reviews)
      BY <1>2, <3>1
    <3> QED BY <3>2 DEF Reviews, Positive
  <2>2. q \in State /\ SameUp(u, q) /\ q.answers = u.answers /\ q.timers = u.timers
    BY <2>1 DEF State, SameUp
  <2>3. Keeps(u, q)
    BY <2>2, SameUpKeeps
  <2>4. CASE p.drawable
    <3> DEFINE o == Open(q, "install", p.n)
    <3>1. /\ o \in State /\ ~Free(o)
          /\ o = [q EXCEPT !.seat = [by |-> "install", n |-> p.n],
                           !.timers = Append(q.timers, [by |-> "install", n |-> p.n])]
      BY ZenonT(30), <2>1, <2>2, OpenIs DEF AllKinds
    <3>2. v = [o EXCEPT !.installUp = p.n]
      BY <1>2, <2>4 DEF InstallSchedule
    <3> HIDE DEF o, p, v, q
    <3>3. /\ v \in State /\ v.seat.by = "install" /\ v.seat.n = p.n /\ v.installUp = p.n
          /\ v.seat = o.seat /\ v.polkit = q.polkit /\ v.page = q.page /\ v.showing = q.showing
          /\ v.batchUp = q.batchUp /\ v.brokerUp = q.brokerUp /\ v.asking = q.asking
          /\ v.erasing = q.erasing
      BY ZenonT(30), <2>1, <2>2, <3>1, <3>2 DEF State
    <3>4. ~Free(v) /\ Free(q)
      BY <1>2, <2>2, <3>1, <3>3 DEF Free, SameUp
    <3>5. Keeps(q, v)
      BY <2>1, <2>3, <3>3, <3>4 DEF Keeps, Like, PanelSame, NotLeft, Parts, ConsentPart,
         BatchPart, InstallPart, BrokerPart, PolkitPart, ApprovalPart, ErasePart, Seated
    <3>6. Keeps(u, v)
      BY <2>3, <3>5, KeepsTrans
    <3> QED BY <3>6 DEF v
  <2>5. CASE ~p.drawable
    <3>1. v = Answered(q, p.n)
      BY <1>2, <2>5 DEF InstallSchedule
    <3> HIDE DEF v, p, q
    <3>2. Append(q.answers, p.n) \in Seq(Nat)
      BY <2>1, <2>2 DEF State
    <3>3. v \in State /\ SameUp(q, v)
      BY <2>2, <3>1, <3>2 DEF State, SameUp, Answered
    <3>4. Keeps(q, v)
      BY <2>2, <2>3, <3>3, SameUpKeeps DEF Keeps
    <3>5. Keeps(u, v)
      BY <2>3, <3>4, KeepsTrans
    <3> QED BY <3>5 DEF v
  <2> QED BY <2>4, <2>5
<1> QED BY <1>1, <1>2

(* show: the broker's prompt waits when it cannot be up.                   *)
LEMMA BrokerShowKeeps ==
  ASSUME NEW u \in State, Parts(u)
  PROVE  Keeps(u, BrokerShow(u))
<1> DEFINE v == BrokerShow(u)
<1>1. CASE Free(u)
  <2> DEFINE o == Open(u, "broker", 0)
  <2>1. /\ o \in State /\ ~Free(o)
        /\ o = [u EXCEPT !.seat = [by |-> "broker", n |-> 0],
                         !.timers = Append(u.timers, [by |-> "broker", n |-> 0])]
    BY OpenIs DEF AllKinds
  <2>2. v = [o EXCEPT !.brokerUp = TRUE]
    BY <1>1 DEF BrokerShow
  <2> HIDE DEF o, v
  <2>3. /\ v \in State /\ v.seat.by = "broker" /\ v.seat.n = 0 /\ v.brokerUp = TRUE
        /\ v.seat = o.seat /\ v.polkit = u.polkit /\ v.page = u.page /\ v.showing = u.showing
        /\ v.batchUp = u.batchUp /\ v.installUp = u.installUp /\ v.asking = u.asking
        /\ v.erasing = u.erasing
    BY ZenonT(30), <2>1, <2>2 DEF State
  <2>4. ~Free(v)
    BY <2>1, <2>3 DEF Free
  <2>5. Keeps(u, v)
    BY <1>1, <2>3, <2>4 DEF Keeps, Like, PanelSame, NotLeft, Parts, ConsentPart,
       BatchPart, InstallPart, BrokerPart, PolkitPart, ApprovalPart, ErasePart, Seated
  <2> QED BY <2>5 DEF v
<1>2. CASE ~Free(u)
  <2>1. v = [u EXCEPT !.brokerQueued = TRUE]
    BY <1>2 DEF BrokerShow
  <2> HIDE DEF v
  <2>2. v \in State /\ SameUp(u, v)
    BY <2>1 DEF State, SameUp
  <2>3. Keeps(u, v)
    BY <2>2, SameUpKeeps
  <2> QED BY <2>3 DEF v
<1> QED BY <1>1, <1>2

(* broker.rs schedule.                                                     *)
LEMMA BrokerScheduleKeeps ==
  ASSUME NEW u \in State, Parts(u)
  PROVE  Keeps(u, BrokerSchedule(u))
<1> DEFINE q == [u EXCEPT !.brokerQueued = FALSE]
<1>1. q \in State /\ SameUp(u, q)
  BY DEF State, SameUp
<1>2. Keeps(u, q)
  BY <1>1, SameUpKeeps
<1>3. Keeps(u, BrokerShow(q))
  BY <1>1, <1>2, BrokerShowKeeps, KeepsTrans DEF Keeps
<1> QED BY <1>3, KeepsSelf DEF BrokerSchedule

(* drain tells the agents and touches no prompt.                           *)
LEMMA DrainKeeps ==
  ASSUME NEW u \in State, Parts(u)
  PROVE  Keeps(u, Drain(u))
<1> DEFINE v == Drain(u)
<1>1. u.answers \o u.resolved \in Seq(Nat) /\ <<>> \in Seq(Nat)
  BY DEF State
<1>2. v = [u EXCEPT !.answers = u.answers \o u.resolved, !.resolved = <<>>]
  BY DEF Drain, State
<1> HIDE DEF v
<1>3. v \in State /\ SameUp(u, v)
  BY <1>1, <1>2 DEF State, SameUp
<1>4. Keeps(u, v)
  BY <1>3, SameUpKeeps
<1> QED BY <1>4 DEF v

(* A function that first breaks a part, which the next one mends.          *)
LEMMA LikeKeeps ==
  ASSUME NEW u, NEW v, NEW w, Like(u, v), Keeps(v, w) PROVE Keeps(u, w)
BY DEF Keeps, Like, PanelSame

(* A queue's members.                                                      *)
LEMMA InQueue ==
  ASSUME NEW V, NEW s \in Seq(V) PROVE ToSet(s) \subseteq V
BY DEF ToSet

(* The numbers of asks are naturals, and those of consents positive.       *)
LEMMA NumbersType ==
  ASSUME NEW u \in State, NEW a
  PROVE  /\ Numbers(Of(u.order, a)) \in SUBSET Positive
         /\ Numbers(Of(u.batches, a)) \in SUBSET Nat
<1>1. u.order \in Seq(Consents) /\ u.batches \in Seq(BatchAsk)
  BY DEF State
<1>2. \A p \in ToSet(u.order) : p.n \in Positive
  BY <1>1, InQueue DEF Consents
<1>3. \A p \in ToSet(u.batches) : p.n \in Nat
  BY <1>1, InQueue DEF BatchAsk
<1> QED BY <1>2, <1>3 DEF Numbers, Of

(* A batch that is withdrawn while it is up comes down with its prompt.    *)
LEMMA BatchWithdrawKeeps ==
  ASSUME NEW u \in State, Parts(u), NEW a
  PROVE  Keeps(u, BatchWithdraw(u, a))
<1> DEFINE mine == Of(u.batches, a)
           b == Without(u.batches, mine)
           u1 == Gone([u EXCEPT !.batches = b], Numbers(mine))
<1>1. b \in Seq(BatchAsk) /\ u.gone \cup Numbers(mine) \in SUBSET Nat
  BY WithoutType, NumbersType DEF State
<1>2. u1 = [u EXCEPT !.batches = b, !.gone = u.gone \cup Numbers(mine)]
  BY DEF Gone, State
<1>3. BatchWithdraw(u, a) =
        IF u1.batchUp # None /\ u1.batchUp.agent = a
        THEN Cancel(Gone([u1 EXCEPT !.batchUp = None], {u1.batchUp.n}), "batch", u1.batchUp.n)
        ELSE u1
  BY <1>2 DEF BatchWithdraw, Gone, State
<1> HIDE DEF mine, b, u1
<1>4. u1 \in State /\ SameUp(u, u1)
  BY <1>1, <1>2 DEF State, SameUp
<1>5. Keeps(u, u1)
  BY <1>4, SameUpKeeps
<1>6. CASE u1.batchUp # None /\ u1.batchUp.agent = a
  <2> DEFINE n == u1.batchUp.n
             q == Gone([u1 EXCEPT !.batchUp = None], {n})
  <2>1. n \in Nat
    BY <1>4, <1>6 DEF State, BatchAsk
  <2>2. q = [u1 EXCEPT !.batchUp = None, !.gone = u1.gone \cup {n}]
    BY <1>4 DEF Gone, State
  <2>3. Seated(u1, "batch") /\ u1.seat.n = n /\ u1.seat # None
    BY <1>5, <1>6 DEF Keeps, Parts, BatchPart, Seated, Free
  <2> DEFINE d == [q EXCEPT !.seat = None]
  <2>4. BatchWithdraw(u, a) = Cancel(q, "batch", n)
    BY <1>3, <1>6
  <2> HIDE DEF n, q
  <2>5. /\ q \in State /\ q.batchUp = None /\ q.seat = u1.seat /\ q.polkit = u1.polkit
        /\ q.page = u1.page /\ q.showing = u1.showing /\ q.installUp = u1.installUp
        /\ q.brokerUp = u1.brokerUp /\ q.asking = u1.asking /\ q.erasing = u1.erasing
    BY <1>4, <2>1, <2>2 DEF State
  <2>6. IsUp(q, "batch", n)
    BY <2>3, <2>5 DEF IsUp, Seated, Free
  <2>7. /\ d.batchUp = None /\ d.seat = None /\ d.polkit = u1.polkit
        /\ d.page = u1.page /\ d.showing = u1.showing /\ d.installUp = u1.installUp
        /\ d.brokerUp = u1.brokerUp /\ d.asking = u1.asking /\ d.erasing = u1.erasing
    BY <2>5 DEF State
  <2> HIDE DEF d
  <2>8. Parts(d)
    BY <1>5, <2>3, <2>7 DEF Keeps, Parts, ConsentPart, BatchPart, InstallPart, BrokerPart,
       PolkitPart, ApprovalPart, ErasePart, Seated, Free
  <2>9. Keeps(q, Cancel(q, "batch", n))
    BY <2>5, <2>6, <2>8, CancelKeeps DEF d
  <2>10. Like(u1, q)
    BY <2>5 DEF Like, PanelSame, NotLeft, Seated, Free
  <2> QED BY <1>5, <2>4, <2>9, <2>10, LikeKeeps, KeepsTrans
<1>7. CASE ~(u1.batchUp # None /\ u1.batchUp.agent = a)
  <2>1. BatchWithdraw(u, a) = u1
    BY <1>3, <1>7
  <2> QED BY <1>5, <2>1
<1> QED BY <1>6, <1>7

(* An agent that goes takes the consent that is up with it.                *)
ConsentWithdraw(u, a) ==
  LET mine == Numbers(Of(u.order, a))
      u1 == Gone([u EXCEPT !.order = Without(@, Of(@, a)),
                           !.showing = IF @ \in mine THEN 0 ELSE @], mine)
  IN  IF u.showing \in mine THEN Cancel(u1, "consent", u.showing) ELSE u1

(* Withdraw takes the consents, the batches, the outbox, one by one.       *)
LEMMA WithdrawIs ==
  ASSUME NEW u, NEW a
  PROVE  Withdraw(u, a) = ConsentSchedule(Drain(BatchWithdraw(ConsentWithdraw(u, a), a)))
BY DEF Withdraw, ConsentWithdraw

(* What consent.rs withdraw takes away, it takes down first.               *)
LEMMA ConsentWithdrawKeeps ==
  ASSUME NEW u \in State, Parts(u), NEW a
  PROVE  Keeps(u, ConsentWithdraw(u, a))
<1> DEFINE mine == Numbers(Of(u.order, a))
           o == Without(u.order, Of(u.order, a))
           s == IF u.showing \in mine THEN 0 ELSE u.showing
           u1 == Gone([u EXCEPT !.order = Without(@, Of(@, a)),
                                !.showing = IF @ \in mine THEN 0 ELSE @], mine)
           u2 == IF u.showing \in mine THEN Cancel(u1, "consent", u.showing) ELSE u1
           d == [u1 EXCEPT !.seat = None]
<1>1. /\ o \in Seq(Consents) /\ mine \in SUBSET Positive
      /\ u.gone \cup mine \in SUBSET Nat /\ s \in Nat
  BY WithoutType, NumbersType DEF State, Positive
<1>2. u1 = [u EXCEPT !.order = o, !.showing = s, !.gone = u.gone \cup mine]
  BY DEF Gone, State
<1>3. ConsentWithdraw(u, a) = u2
  BY DEF ConsentWithdraw
<1> HIDE DEF o, s, u1
<1>4. /\ u1 \in State /\ u1.showing = s /\ u1.seat = u.seat /\ u1.polkit = u.polkit
      /\ u1.page = u.page /\ u1.batchUp = u.batchUp /\ u1.installUp = u.installUp
      /\ u1.brokerUp = u.brokerUp /\ u1.asking = u.asking /\ u1.erasing = u.erasing
  BY <1>1, <1>2 DEF State
<1>5. Keeps(u, u2)
  <2>1. CASE u.showing \in mine
    <3>1. u.showing # 0 /\ s = 0
      BY <1>1, <2>1 DEF Positive, s
    <3> HIDE DEF mine
    <3>2. IsUp(u1, "consent", u.showing) /\ Seated(u, "consent")
      BY <1>4, <3>1 DEF Parts, ConsentPart, Seated, IsUp, Free
    <3>3. /\ d.showing = 0 /\ d.seat = None /\ d.polkit = u.polkit
          /\ d.page = u.page /\ d.batchUp = u.batchUp /\ d.installUp = u.installUp
          /\ d.brokerUp = u.brokerUp /\ d.asking = u.asking /\ d.erasing = u.erasing
      BY <1>4, <3>1 DEF State
    <3> HIDE DEF d
    <3>4. Parts(d)
      BY <3>2, <3>3 DEF Parts, ConsentPart, BatchPart, InstallPart, BrokerPart,
         PolkitPart, ApprovalPart, ErasePart, Seated, Free
    <3>5. Keeps(u1, Cancel(u1, "consent", u.showing))
      BY <1>4, <3>2, <3>4, CancelKeeps DEF d
    <3>6. Like(u, u1)
      BY <1>4 DEF Like, PanelSame, NotLeft, Seated, Free
    <3> QED BY <2>1, <3>5, <3>6, LikeKeeps
  <2>2. CASE u.showing \notin mine
    <3>1. SameUp(u, u1)
      BY <1>4, <2>2 DEF SameUp, s
    <3>2. Keeps(u, u1)
      BY <1>4, <3>1, SameUpKeeps
    <3> QED BY <2>2, <3>2
  <2> QED BY <2>1, <2>2
<1> QED BY <1>3, <1>5

(* And then its batches, and the next consent goes up.                     *)
LEMMA WithdrawKeeps ==
  ASSUME NEW u \in State, Parts(u), NEW a
  PROVE  Keeps(u, Withdraw(u, a))
<1> DEFINE u2 == ConsentWithdraw(u, a)
           u3 == BatchWithdraw(u2, a)
           u4 == Drain(u3)
<1>1. Keeps(u, u2)
  BY ConsentWithdrawKeeps
<1>2. Withdraw(u, a) = ConsentSchedule(u4)
  BY WithdrawIs
<1> HIDE DEF u2
<1>3. Keeps(u2, u3)
  BY <1>1, BatchWithdrawKeeps DEF Keeps
<1> HIDE DEF u3
<1>4. Keeps(u3, u4)
  BY <1>3, DrainKeeps DEF Keeps
<1> HIDE DEF u4
<1>5. Keeps(u4, ConsentSchedule(u4))
  BY <1>4, ConsentScheduleKeeps DEF Keeps
<1>6. Keeps(u, ConsentSchedule(u4))
  BY <1>1, <1>3, <1>4, <1>5, KeepsTrans
<1> QED BY <1>2, <1>6

(* choose and abandon ask for the config's commands to be looked at again. *)
LEMMA PumpSetKeeps ==
  ASSUME NEW u \in State, Parts(u)
  PROVE  Keeps(u, [u EXCEPT !.pump = TRUE])
<1> DEFINE v == [u EXCEPT !.pump = TRUE]
<1>1. v \in State /\ SameUp(u, v)
  BY DEF State, SameUp
<1> HIDE DEF v
<1>2. Keeps(u, v)
  BY <1>1, SameUpKeeps
<1> QED BY <1>2 DEF v

(* Everyone but polkit gets a turn.                                        *)
LEMMA OthersKeep ==
  ASSUME NEW u \in State, Parts(u)
  PROVE  Keeps(u, BrokerSchedule(InstallSchedule(BatchSchedule(
                    ConsentSchedule([u EXCEPT !.pump = TRUE])))))
<1> DEFINE v1 == [u EXCEPT !.pump = TRUE]
           v2 == ConsentSchedule(v1)
           v3 == BatchSchedule(v2)
           v4 == InstallSchedule(v3)
           v5 == BrokerSchedule(v4)
<1>1. Keeps(u, v1)
  BY PumpSetKeeps
<1> HIDE DEF v1
<1>2. Keeps(v1, v2)
  BY <1>1, ConsentScheduleKeeps DEF Keeps
<1> HIDE DEF v2
<1>3. Keeps(v2, v3)
  BY <1>2, BatchScheduleKeeps DEF Keeps
<1> HIDE DEF v3
<1>4. Keeps(v3, v4)
  BY <1>3, InstallScheduleKeeps DEF Keeps
<1> HIDE DEF v4
<1>5. Keeps(v4, v5)
  BY <1>4, BrokerScheduleKeeps DEF Keeps
<1> HIDE DEF v5
<1>6. Keeps(u, v5)
  BY <1>1, <1>2, <1>3, <1>4, <1>5, KeepsTrans
<1> QED BY <1>6 DEF v1, v2, v3, v4, v5

(* choose: everyone gets a turn, and polkit is last.                       *)
LEMMA TurnKeeps ==
  ASSUME NEW u \in State, Parts(u)
  PROVE  Keeps(u, Turn(u)) /\ NotLeft(Turn(u))
<1> DEFINE v == BrokerSchedule(InstallSchedule(BatchSchedule(
                  ConsentSchedule([u EXCEPT !.pump = TRUE]))))
<1>1. Keeps(u, v)
  BY OthersKeep
<1>2. Turn(u) = PolkitSchedule(v)
  BY DEF Turn
<1> HIDE DEF v
<1>3. Keeps(v, PolkitSchedule(v)) /\ NotLeft(PolkitSchedule(v))
  BY <1>1, PolkitScheduleKeeps DEF Keeps
<1> QED BY <1>1, <1>2, <1>3, KeepsTrans

(* pump's first half: a command no longer withheld comes down.             *)
Lowered(u) ==
  LET u0 == [u EXCEPT !.pump = FALSE]
  IN  IF u.asking = 0 THEN u0
      ELSE Cancel(Gone([u0 EXCEPT !.asking = 0], {u.asking}), "approval", u.asking)

(* The command that was up is up no more.                                  *)
LEMMA LoweredKeeps ==
  ASSUME NEW u \in State, Parts(u)
  PROVE  Keeps(u, Lowered(u)) /\ Lowered(u).asking = 0
<1> DEFINE n == u.asking
           u0 == [u EXCEPT !.pump = FALSE]
           q == Gone([u0 EXCEPT !.asking = 0], {n})
           u1 == IF n = 0 THEN u0 ELSE Cancel(q, "approval", n)
<1>1. u0 \in State /\ SameUp(u, u0)
  BY DEF State, SameUp
<1>2. Keeps(u, u0)
  BY <1>1, SameUpKeeps
<1>3. Keeps(u, u1) /\ u1.asking = 0
  <2>1. CASE n = 0
    <3>1. u0.asking = 0
      BY <2>1 DEF State
    <3> QED BY <1>2, <2>1, <3>1
  <2>2. CASE n # 0
    <3> DEFINE d == [q EXCEPT !.seat = None]
    <3>1. Seated(u, "approval") /\ u.seat.n = n /\ n \in Nat
      BY <2>2 DEF Parts, ApprovalPart, State
    <3>2. q = [u EXCEPT !.pump = FALSE, !.asking = 0, !.gone = u.gone \cup {n}]
      BY DEF Gone, State
    <3> HIDE DEF q, n
    <3>3. /\ q \in State /\ q.asking = 0 /\ q.seat = u.seat /\ q.polkit = u.polkit
          /\ q.page = u.page /\ q.showing = u.showing /\ q.installUp = u.installUp
          /\ q.brokerUp = u.brokerUp /\ q.batchUp = u.batchUp /\ q.erasing = u.erasing
      BY <3>1, <3>2 DEF State
    <3>4. /\ d.asking = 0 /\ d.seat = None /\ d.polkit = u.polkit
          /\ d.page = u.page /\ d.showing = u.showing /\ d.installUp = u.installUp
          /\ d.brokerUp = u.brokerUp /\ d.batchUp = u.batchUp /\ d.erasing = u.erasing
      BY <3>3 DEF State
    <3>5. IsUp(q, "approval", n)
      BY <3>1, <3>3 DEF IsUp, Seated, Free
    <3> HIDE DEF d
    <3>6. Parts(d)
      BY <3>1, <3>4 DEF Parts, ConsentPart, BatchPart, InstallPart, BrokerPart,
         PolkitPart, ApprovalPart, ErasePart, Seated, Free
    <3>7. Keeps(q, Cancel(q, "approval", n))
      BY <3>3, <3>5, <3>6, CancelKeeps DEF d
    <3>8. Like(u, q)
      BY <3>3 DEF Like, PanelSame, NotLeft, Seated, Free
    <3>9. Keeps(u, u1)
      BY <2>2, <3>7, <3>8, LikeKeeps
    <3>10. ~Seated(u1, "approval")
      <4>1. PolkitSchedule([q EXCEPT !.seat = None]).seat \in
              {None} \cup [by : {"polkit"}, n : Nat]
        <5>1. d \in State /\ d.seat = None
          BY ZenonT(30), <3>3 DEF State, d
        <5>2. PolkitSchedule(d).seat = d.seat \/ PolkitSchedule(d).seat.by = "polkit"
          BY <5>1 DEF PolkitSchedule, Open, State
        <5>3. PolkitSchedule(d) \in State
          BY <3>6, <5>1, PolkitScheduleKeeps DEF Keeps
        <5> QED BY <5>1, <5>2, <5>3 DEF d, State, Token
      <4>2. u1 = PolkitSchedule([q EXCEPT !.seat = None])
        BY <2>2, <3>5 DEF Cancel
      <4> QED BY <4>1, <4>2 DEF Seated, Free
    <3> QED BY <3>9, <3>10 DEF Keeps, Parts, ApprovalPart
  <2> QED BY <2>1, <2>2
<1>4. Lowered(u) = u1
  BY DEF Lowered
<1> QED BY <1>3, <1>4

(* pump: a command no longer withheld comes down, the next goes up.        *)
LEMMA PumpKeeps ==
  ASSUME NEW u \in State, Parts(u)
  PROVE  Keeps(u, Pump(u))
<1> DEFINE n == u.asking
           u0 == [u EXCEPT !.pump = FALSE]
           u1 == Lowered(u)
           h == Head(u1.subjects)
           v == [Open(u1, "approval", h) EXCEPT !.subjects = Tail(@), !.asking = h]
<1>1. u0 \in State /\ SameUp(u, u0)
  BY DEF State, SameUp
<1>2. Keeps(u, u0)
  BY <1>1, SameUpKeeps
<1>3. Keeps(u, u1) /\ u1.asking = 0
  BY LoweredKeeps
<1>4. Pump(u) = IF n # 0 /\ n \in u.withheld /\ IsUp(u, "approval", n) THEN u0
                ELSE IF ~Free(u1) \/ u1.quiet \/ u1.subjects = <<>> THEN u1 ELSE v
  BY DEF Pump, Lowered
<1> HIDE DEF u0, u1
<1>5. ASSUME Free(u1), u1.subjects # <<>> PROVE Keeps(u1, v)
  <2>1. h \in Nat /\ h # 0 /\ Tail(u1.subjects) \in Seq(Positive)
    <3>1. u1.subjects \in Seq(Positive)
      BY <1>3 DEF State, Keeps
    <3>2. h \in Positive /\ Tail(u1.subjects) \in Seq(Positive)
      BY <1>5, <3>1
    <3> QED BY <3>2 DEF Positive
  <2> DEFINE o == Open(u1, "approval", h)
  <2>2. /\ o \in State /\ ~Free(o)
        /\ o = [u1 EXCEPT !.seat = [by |-> "approval", n |-> h],
                          !.timers = Append(u1.timers, [by |-> "approval", n |-> h])]
    BY ZenonT(30), <1>3, <2>1, OpenIs DEF AllKinds, Keeps
  <2>3. v = [o EXCEPT !.subjects = Tail(u1.subjects), !.asking = h]
    BY <1>3, <2>2 DEF State, Keeps
  <2> HIDE DEF o, h, v
  <2>4. u1 \in State
    BY <1>3 DEF Keeps
  <2>5. /\ v \in State /\ v.seat.by = "approval" /\ v.seat.n = h /\ v.asking = h
        /\ v.seat = o.seat /\ v.polkit = u1.polkit /\ v.page = u1.page
        /\ v.showing = u1.showing /\ v.installUp = u1.installUp
        /\ v.brokerUp = u1.brokerUp /\ v.batchUp = u1.batchUp /\ v.erasing = u1.erasing
    BY ZenonT(30), <2>1, <2>2, <2>3, <2>4 DEF State
  <2>6. ~Free(v)
    BY <2>2, <2>5 DEF Free
  <2> QED BY <1>3, <1>5, <2>1, <2>5, <2>6 DEF Keeps, Like, PanelSame, NotLeft, Parts,
          ConsentPart, BatchPart, InstallPart, BrokerPart, PolkitPart, ApprovalPart,
          ErasePart, Seated
<1> HIDE DEF v
<1> QED BY <1>2, <1>3, <1>4, <1>5, KeepsTrans

-----------------------------------------------------------------------------
(* Terminating every agent, one after another.                             *)

(* The recursion FoldSet is defined by, over the sets of at most n agents. *)
Terminates(u, n, f) ==
  f = [s \in {t \in SUBSET Agents : Cardinality(t) <= n} |->
         IF s = {} THEN u
         ELSE LET a == CHOOSE a \in s : TRUE IN Withdraw(f[s \ {a}], a)]

(* One agent fewer to terminate.                                           *)
LEMMA Smaller ==
  ASSUME NEW s \in SUBSET Agents, s # {}
  PROVE  LET a == CHOOSE a \in s : TRUE
         IN  /\ a \in Agents /\ s \ {a} \in SUBSET Agents
             /\ Cardinality(s \ {a}) \in Nat /\ Cardinality(s) = Cardinality(s \ {a}) + 1
<1> DEFINE a == CHOOSE a \in s : TRUE
<1>1. a \in s
  OBVIOUS
<1>2. IsFiniteSet(s)
  BY FS_Subset, PromptsAssumption
<1>3. IsFiniteSet(s \ {a}) /\ Cardinality(s \ {a}) = Cardinality(s) - 1
  BY <1>1, <1>2, FS_RemoveElement
<1>4. Cardinality(s) \in Nat /\ Cardinality(s \ {a}) \in Nat
  BY <1>2, <1>3, FS_CardinalityType
<1> QED BY <1>1, <1>3, <1>4

(* The fold over the agents exists, by the least number of them for which  *)
(* it would not.                                                           *)
LEMMA TerminatesExist ==
  ASSUME NEW u, NEW n \in Nat
  PROVE  \E f : Terminates(u, n, f)
<1> SUFFICES ASSUME ~\E f : Terminates(u, n, f) PROVE FALSE
  OBVIOUS
<1> DEFINE T == { k \in Nat : ~\E f : Terminates(u, k, f) }
           D(k) == {t \in SUBSET Agents : Cardinality(t) <= k}
           next(s, f) == IF s = {} THEN u
                         ELSE LET a == CHOOSE a \in s : TRUE IN Withdraw(f[s \ {a}], a)
<1>1. PICK m \in T : \A y \in T : <<y, m>> \notin OpToRel(<, Nat)
  BY NatLessThanWellFounded, WFMin, Zenon
<1>2. \A y \in T : ~(y < m)
  BY <1>1 DEF OpToRel
<1>3. m # 0
  <2> DEFINE e == [s \in D(0) |-> u]
  <2>1. \A s \in D(0) : s = {}
    <3> TAKE s \in D(0)
    <3> SUFFICES ASSUME s # {} PROVE FALSE
      OBVIOUS
    <3> DEFINE a == CHOOSE a \in s : TRUE
    <3>1. s \in SUBSET Agents /\ Cardinality(s) <= 0
      OBVIOUS
    <3>2. Cardinality(s \ {a}) \in Nat /\ Cardinality(s) = Cardinality(s \ {a}) + 1
      BY <3>1, Smaller
    <3> HIDE DEF a
    <3> QED BY <3>1, <3>2
  <2>2. e = [s \in D(0) |-> next(s, e)]
    BY <2>1
  <2>3. Terminates(u, 0, e)
    BY <2>2 DEF Terminates
  <2> QED BY <2>3
<1>4. PICK f : Terminates(u, m - 1, f)
  BY <1>2, <1>3
<1>5. f = [s \in D(m - 1) |-> next(s, f)]
  BY <1>4 DEF Terminates
<1> DEFINE g == [s \in D(m) |-> next(s, f)]
<1>6. \A s \in D(m) : s # {} => s \ {CHOOSE a \in s : TRUE} \in D(m - 1) \cap D(m)
  BY Smaller
<1>7. \A s \in D(m - 1) \cap D(m) : g[s] = f[s]
  <2> TAKE s \in D(m - 1) \cap D(m)
  <2>1. g[s] = next(s, f)
    OBVIOUS
  <2>2. f[s] = next(s, f)
    <3> HIDE DEF D, next
    <3> QED BY <1>5
  <2> QED BY <2>1, <2>2
<1>8. \A s \in D(m) : next(s, f) = next(s, g)
  <2> TAKE s \in D(m)
  <2>1. s # {} => f[s \ {CHOOSE a \in s : TRUE}] = g[s \ {CHOOSE a \in s : TRUE}]
    BY <1>6, <1>7
  <2> QED BY <2>1
<1>9. g = [s \in D(m) |-> next(s, g)]
  <2> HIDE DEF D, next
  <2> QED BY <1>8
<1>10. Terminates(u, m, g)
  BY <1>9, Zenon DEF Terminates
<1> QED BY <1>10

(* However many agents go, the seat and the owners still agree.            *)
LEMMA EveryoneWithdraws ==
  ASSUME NEW u \in State, Parts(u)
  PROVE  Keeps(u, WithdrawAll(u))
<1> DEFINE iter == CHOOSE f : f = [s \in SUBSET Agents |->
                     IF s = {} THEN u
                     ELSE LET a == CHOOSE a \in s : TRUE IN Withdraw(f[s \ {a}], a)]
<1>1. WithdrawAll(u) = iter[Agents]
  BY DEF WithdrawAll, FoldSet, MapThenFoldSet
<1>2. Cardinality(Agents) \in Nat
  BY PromptsAssumption, FS_CardinalityType
<1>3. {t \in SUBSET Agents : Cardinality(t) <= Cardinality(Agents)} = SUBSET Agents
  BY PromptsAssumption, FS_Subset
<1>4. \E f : Terminates(u, Cardinality(Agents), f)
  BY <1>2, TerminatesExist
<1>5. iter = [s \in SUBSET Agents |->
                IF s = {} THEN u
                ELSE LET a == CHOOSE a \in s : TRUE IN Withdraw(iter[s \ {a}], a)]
  BY <1>3, <1>4 DEF Terminates
<1> HIDE DEF iter
<1> DEFINE T == { k \in Nat : \E s \in SUBSET Agents : Cardinality(s) = k /\ ~Keeps(u, iter[s]) }
<1>0. SUFFICES ASSUME ~Keeps(u, iter[Agents]) PROVE FALSE
  BY <1>1
<1>6. T # {}
  <2>1. Cardinality(Agents) \in T
    BY <1>0, <1>2
  <2> QED BY <2>1
<1>7. PICK m \in T : \A y \in T : <<y, m>> \notin OpToRel(<, Nat)
  BY <1>6, NatLessThanWellFounded, WFMin, Zenon
<1>8. \A y \in T : ~(y < m)
  BY <1>7 DEF OpToRel
<1>9. PICK s \in SUBSET Agents : Cardinality(s) = m /\ ~Keeps(u, iter[s])
  OBVIOUS
<1>10. CASE s = {}
  BY <1>5, <1>9, <1>10, KeepsSelf
<1>11. CASE s # {}
  <2> DEFINE a == CHOOSE a \in s : TRUE
             r == s \ {a}
  <2>1. r \in SUBSET Agents /\ Cardinality(r) \in Nat /\ Cardinality(r) < Cardinality(s)
    BY <1>11, Smaller
  <2>2. iter[s] = Withdraw(iter[r], a)
    BY <1>5, <1>11
  <2> HIDE DEF a, r
  <2>3. Keeps(u, iter[r])
    BY <1>8, <1>9, <2>1
  <2>4. Keeps(iter[r], Withdraw(iter[r], a))
    BY <2>3, WithdrawKeeps DEF Keeps
  <2>5. Keeps(u, iter[s])
    BY <2>2, <2>3, <2>4, KeepsTrans
  <2> QED BY <1>9, <2>5
<1> QED BY <1>10, <1>11

-----------------------------------------------------------------------------
(* Answers: the seat is free, and its owner takes note and may go on.      *)

(* show: without the seat the panel is closed.                             *)
LEMMA PanelShowSound ==
  ASSUME NEW u \in State, Parts(u), ~Seated(u, "panel"), NEW page \in {1, 2, 3}
  PROVE  Sound(PanelShow(u, page))
<1> DEFINE v == PanelShow(u, page)
<1>1. CASE Free(u)
  <2> DEFINE o == Open(u, "panel", page)
  <2>0. page \in Nat
    OBVIOUS
  <2>1. /\ o \in State /\ ~Free(o)
        /\ o = [u EXCEPT !.seat = [by |-> "panel", n |-> page],
                         !.timers = Append(u.timers, [by |-> "panel", n |-> page])]
    BY <2>0, OpenIs DEF AllKinds
  <2>2. v = [o EXCEPT !.page = page]
    BY <1>1 DEF PanelShow
  <2> HIDE DEF o, v
  <2>3. /\ v \in State /\ v.seat.by = "panel" /\ v.seat.n = page /\ v.page = page
        /\ v.seat = o.seat /\ v.polkit = u.polkit /\ v.showing = u.showing
        /\ v.batchUp = u.batchUp /\ v.installUp = u.installUp /\ v.asking = u.asking
        /\ v.erasing = u.erasing /\ v.brokerUp = u.brokerUp
    BY ZenonT(30), <2>1, <2>2 DEF State
  <2>4. ~Free(v)
    BY <2>1, <2>3 DEF Free
  <2>5. Sound(v)
    BY <1>1, <2>3, <2>4 DEF Sound, Parts, ConsentPart, BatchPart, InstallPart, BrokerPart,
       PolkitPart, ApprovalPart, ErasePart, PanelPart, Seated
  <2> QED BY <2>5 DEF v
<1>2. CASE ~Free(u)
  <2>1. v = [u EXCEPT !.page = 0]
    BY <1>2 DEF PanelShow
  <2> HIDE DEF v
  <2>2. /\ v \in State /\ v.page = 0 /\ v.seat = u.seat /\ v.polkit = u.polkit
        /\ v.showing = u.showing /\ v.batchUp = u.batchUp /\ v.installUp = u.installUp
        /\ v.asking = u.asking /\ v.erasing = u.erasing /\ v.brokerUp = u.brokerUp
    BY <2>1 DEF State
  <2>3. Sound(v)
    BY <2>2 DEF Sound, Parts, ConsentPart, BatchPart, InstallPart, BrokerPart, PolkitPart,
       ApprovalPart, ErasePart, PanelPart, Seated, Free
  <2> QED BY <2>3 DEF v
<1> QED BY <1>1, <1>2

(* panel.rs answer: pages, and agents terminated behind the panel's back.  *)
LEMMA PanelAnswerSound ==
  ASSUME NEW u \in State, Parts(u), Free(u), NEW timedOut \in BOOLEAN,
         NEW v \in PanelAnswer(u, timedOut)
  PROVE  Sound(v)
<1> DEFINE e == [u EXCEPT !.page = 0]
<1>1. ~Seated(u, "panel")
  BY DEF Seated
<1>2. Sound(e)
  <2>1. /\ e \in State /\ e.page = 0 /\ e.seat = u.seat /\ e.polkit = u.polkit
        /\ e.showing = u.showing /\ e.batchUp = u.batchUp /\ e.installUp = u.installUp
        /\ e.asking = u.asking /\ e.erasing = u.erasing /\ e.brokerUp = u.brokerUp
    BY DEF State
  <2> HIDE DEF e
  <2> QED BY <1>1, <2>1 DEF Sound, Parts, ConsentPart, BatchPart, InstallPart, BrokerPart,
          PolkitPart, ApprovalPart, ErasePart, PanelPart, Seated, Free
<1>3. \A p \in {1, 2, 3} : Sound(PanelShow(u, p))
  BY <1>1, PanelShowSound
<1>4. \A a \in Agents : Sound(PanelShow(Withdraw(u, a), Overview))
  <2> TAKE a \in Agents
  <2>1. Keeps(u, Withdraw(u, a))
    BY WithdrawKeeps
  <2> QED BY <1>1, <2>1, PanelShowSound DEF Keeps, Like, PanelSame, Overview
<1>5. Sound(PanelShow(WithdrawAll(u), Overview))
  <2>1. Keeps(u, WithdrawAll(u))
    BY EveryoneWithdraws
  <2> QED BY <1>1, <2>1, PanelShowSound DEF Keeps, Like, PanelSame, Overview
<1>6. \/ v = e
      \/ \E p \in {1, 2, 3} : v = PanelShow(u, p)
      \/ \E a \in Agents : v = PanelShow(Withdraw(u, a), Overview)
      \/ v = PanelShow(WithdrawAll(u), Overview)
  BY DEF PanelAnswer, Overview, AgentPage, ConfirmPage
<1> QED BY <1>2, <1>3, <1>4, <1>5, <1>6

(* A secret store's prompt that was answered may ask again.                *)
LEMMA BrokerAnswerSound ==
  ASSUME NEW u, Sound(u), NEW step, NEW timedOut, NEW v \in BrokerAnswer(u, step, timedOut)
  PROVE  Sound(v)
<1> DEFINE b(s) == [u EXCEPT !.broker = s]
<1>1. \A s \in {"asking", "prompt"} : Keeps(u, b(s))
  <2> TAKE s \in {"asking", "prompt"}
  <2>1. u \in State /\ Parts(u)
    BY DEF Sound
  <2>2. b(s) \in State /\ SameUp(u, b(s))
    BY <2>1 DEF State, SameUp
  <2> HIDE DEF b
  <2> QED BY <2>1, <2>2, SameUpKeeps
<1>2. Keeps(u, BrokerShow(b("prompt")))
  <2>1. Keeps(u, b("prompt"))
    BY <1>1
  <2> HIDE DEF b
  <2>2. Keeps(b("prompt"), BrokerShow(b("prompt")))
    BY <2>1, BrokerShowKeeps DEF Keeps
  <2> QED BY <2>1, <2>2, KeepsTrans
<1>3. v \in {u, b("asking"), BrokerShow(b("prompt"))}
  BY DEF BrokerAnswer
<1> HIDE DEF b
<1> QED BY <1>1, <1>2, <1>3, KeepsSound

(* resolve empties the seat before the owner hears of the answer: until it *)
(* has, everyone but the owner says what a free seat has them say.         *)
RestFree(u, by) ==
  /\ Free(u)
  /\ by # "consent" => u.showing = 0
  /\ by # "batch" => u.batchUp = None
  /\ by # "install" => u.installUp = 0
  /\ by # "broker" => ~u.brokerUp
  /\ \A i \in 2..Len(u.polkit) : u.polkit[i].stage = "waiting"
  /\ by # "polkit" => (u.polkit # <<>> => u.polkit[1].stage # "prompting")
  /\ by # "approval" => u.asking = 0
  /\ by # "erase" => u.erasing = 0
  /\ by # "panel" => u.page = 0

(* mod.rs resolve takes the token before the owner hears of the answer.    *)
LEMMA SeatEmptied ==
  ASSUME NEW u0, Sound(u0), ~Free(u0)
  PROVE  LET u == [u0 EXCEPT !.seat = None]
         IN  /\ u \in State /\ RestFree(u, u0.seat.by)
             /\ u.showing = u0.showing /\ u.batchUp = u0.batchUp /\ u.polkit = u0.polkit
             /\ u.asking = u0.asking /\ u.page = u0.page /\ u.broker = u0.broker
             /\ u.answers = u0.answers
             /\ u0.seat.by \in AllKinds /\ u0.seat.n \in Nat
<1> DEFINE u == [u0 EXCEPT !.seat = None]
<1>1. u0 \in State /\ u0.seat \in Token
  BY DEF Sound, State, Free
<1>2. /\ u \in State /\ u.seat = None /\ u.polkit = u0.polkit
      /\ u.page = u0.page /\ u.showing = u0.showing /\ u.installUp = u0.installUp
      /\ u.brokerUp = u0.brokerUp /\ u.batchUp = u0.batchUp /\ u.erasing = u0.erasing
      /\ u.asking = u0.asking /\ u.broker = u0.broker /\ u.answers = u0.answers
  BY <1>1 DEF State
<1>3. u0.seat.by \in AllKinds /\ u0.seat.n \in Nat
  BY <1>1 DEF Token
<1> HIDE DEF u
<1>4. RestFree(u, u0.seat.by)
  BY <1>2 DEF RestFree, Sound, Parts, ConsentPart, BatchPart, InstallPart, BrokerPart,
     PolkitPart, ApprovalPart, ErasePart, PanelPart, Seated, Free
<1> QED BY <1>2, <1>3, <1>4 DEF u

(* What its owner no longer says is up is not up.                          *)
LEMMA RestSound ==
  ASSUME NEW v \in State, RestFree(v, "none")
  PROVE  Sound(v)
BY DEF RestFree, Sound, Parts, ConsentPart, BatchPart, InstallPart, BrokerPart,
   PolkitPart, ApprovalPart, ErasePart, PanelPart, Seated

(* A verdict, given and told.                                              *)
LEMMA ConsentAnswered ==
  ASSUME NEW u \in State, RestFree(u, "consent"), u.showing \in Nat
  PROVE  Sound(Drain(Settle(u, u.showing)))
<1> DEFINE v == Settle(u, u.showing)
<1>1. v \in State /\ v = [u EXCEPT !.order = Without(u.order, Numbered(u.order, u.showing)),
                                   !.showing = IF u.showing = u.showing THEN 0 ELSE u.showing,
                                   !.resolved = Append(u.resolved, u.showing)]
  BY SettleIs
<1> HIDE DEF v
<1>2. /\ v.showing = 0 /\ v.seat = u.seat /\ v.polkit = u.polkit /\ v.page = u.page
      /\ v.installUp = u.installUp /\ v.brokerUp = u.brokerUp /\ v.batchUp = u.batchUp
      /\ v.erasing = u.erasing /\ v.asking = u.asking
  BY <1>1 DEF State
<1>3. Sound(v)
  <2>1. RestFree(v, "none")
    BY <1>2 DEF RestFree, Free
  <2> QED BY <1>1, <2>1, RestSound
<1>4. Keeps(v, Drain(v))
  BY <1>3, DrainKeeps DEF Sound
<1> QED BY <1>3, <1>4, KeepsSound DEF v

(* A record of answers is all that is added.                               *)
LEMMA AnsweredSound ==
  ASSUME NEW u, Sound(u), NEW n \in Nat PROVE Sound(Answered(u, n))
<1> DEFINE v == Answered(u, n)
<1>1. u \in State /\ Parts(u)
  BY DEF Sound
<1>2. Append(u.answers, n) \in Seq(Nat)
  BY <1>1 DEF State
<1>3. v = [u EXCEPT !.answers = Append(u.answers, n)]
  BY <1>1 DEF Answered, State
<1> HIDE DEF v
<1>4. v \in State /\ SameUp(u, v)
  BY <1>1, <1>2, <1>3 DEF State, SameUp
<1>5. Sound(v)
  BY <1>1, <1>4, SameUpKeeps, KeepsSound
<1> QED BY <1>5 DEF v

(* A batch answered, or opened again for the rest of it.                   *)
LEMMA BatchAnswered ==
  ASSUME NEW u \in State, RestFree(u, "batch"), NEW n \in Nat
  PROVE  /\ Sound(Answered([u EXCEPT !.batchUp = None], n))
         /\ u.batchUp # None /\ u.batchUp.n = n => Sound(Open(u, "batch", n))
<1> DEFINE w == [u EXCEPT !.batchUp = None]
           v == Open(u, "batch", n)
<1>1. /\ w \in State /\ w.batchUp = None /\ w.seat = u.seat /\ w.polkit = u.polkit
      /\ w.page = u.page /\ w.showing = u.showing /\ w.installUp = u.installUp
      /\ w.brokerUp = u.brokerUp /\ w.erasing = u.erasing /\ w.asking = u.asking
  BY DEF State
<1> HIDE DEF w
<1>2. Sound(w)
  <2>1. RestFree(w, "none")
    BY <1>1 DEF RestFree, Free
  <2> QED BY <1>1, <2>1, RestSound
<1>3. Sound(Answered(w, n))
  BY <1>2, AnsweredSound
<1>4. /\ v \in State /\ ~Free(v)
      /\ v = [u EXCEPT !.seat = [by |-> "batch", n |-> n],
                       !.timers = Append(u.timers, [by |-> "batch", n |-> n])]
  BY OpenIs DEF AllKinds
<1> HIDE DEF v
<1>5. /\ v.batchUp = u.batchUp /\ v.seat.by = "batch" /\ v.seat.n = n /\ v.polkit = u.polkit
      /\ v.page = u.page /\ v.showing = u.showing /\ v.installUp = u.installUp
      /\ v.brokerUp = u.brokerUp /\ v.erasing = u.erasing /\ v.asking = u.asking
  BY <1>4 DEF State
<1>6. u.batchUp # None /\ u.batchUp.n = n => Sound(v)
  BY <1>4, <1>5 DEF RestFree, Sound, Parts, ConsentPart, BatchPart, InstallPart, BrokerPart,
     PolkitPart, ApprovalPart, ErasePart, PanelPart, Seated
<1> QED BY <1>3, <1>6 DEF w, v

(* A review answered.                                                      *)
LEMMA InstallAnswered ==
  ASSUME NEW u \in State, RestFree(u, "install"), NEW n \in Nat
  PROVE  Sound(Answered([u EXCEPT !.installUp = 0], n))
<1> DEFINE w == [u EXCEPT !.installUp = 0]
<1>1. /\ w \in State /\ w.installUp = 0 /\ w.seat = u.seat /\ w.polkit = u.polkit
      /\ w.page = u.page /\ w.showing = u.showing /\ w.batchUp = u.batchUp
      /\ w.brokerUp = u.brokerUp /\ w.erasing = u.erasing /\ w.asking = u.asking
  BY DEF State
<1> HIDE DEF w
<1>2. RestFree(w, "none")
  BY <1>1 DEF RestFree, Free
<1>3. Sound(Answered(w, n))
  BY <1>1, <1>2, RestSound, AnsweredSound
<1> QED BY <1>3 DEF w

(* An erase prompt answered.                                               *)
LEMMA EraseAnswered ==
  ASSUME NEW u \in State, RestFree(u, "erase"), NEW n \in Nat
  PROVE  Sound(Answered([u EXCEPT !.erasing = 0], n))
<1> DEFINE w == [u EXCEPT !.erasing = 0]
<1>1. /\ w \in State /\ w.erasing = 0 /\ w.seat = u.seat /\ w.polkit = u.polkit
      /\ w.page = u.page /\ w.showing = u.showing /\ w.batchUp = u.batchUp
      /\ w.brokerUp = u.brokerUp /\ w.installUp = u.installUp /\ w.asking = u.asking
  BY DEF State
<1> HIDE DEF w
<1>2. RestFree(w, "none")
  BY <1>1 DEF RestFree, Free
<1>3. Sound(Answered(w, n))
  BY <1>1, <1>2, RestSound, AnsweredSound
<1> QED BY <1>3 DEF w

(* A passphrase given or refused.                                          *)
LEMMA BrokerAnswered ==
  ASSUME NEW u \in State, RestFree(u, "broker")
  PROVE  Sound([u EXCEPT !.brokerUp = FALSE, !.broker = "idle"])
<1> DEFINE w == [u EXCEPT !.brokerUp = FALSE, !.broker = "idle"]
<1>1. /\ w \in State /\ w.brokerUp = FALSE /\ w.seat = u.seat /\ w.polkit = u.polkit
      /\ w.page = u.page /\ w.showing = u.showing /\ w.batchUp = u.batchUp
      /\ w.erasing = u.erasing /\ w.installUp = u.installUp /\ w.asking = u.asking
  BY DEF State
<1> HIDE DEF w
<1>2. RestFree(w, "none")
  BY <1>1 DEF RestFree, Free
<1>3. Sound(w)
  BY <1>1, <1>2, RestSound
<1> QED BY <1>3 DEF w

(* A command approved, refused, or put off.                                *)
LEMMA ApprovalAnswered ==
  ASSUME NEW u \in State, RestFree(u, "approval"), NEW n \in Nat
  PROVE  LET closed == Answered([u EXCEPT !.asking = 0], n)
         IN  /\ Sound(closed) /\ Sound([closed EXCEPT !.quiet = TRUE])
             /\ Sound(Unwithhold(closed, n))
<1> DEFINE w == [u EXCEPT !.asking = 0]
           c == Answered(w, n)
           q == [c EXCEPT !.quiet = TRUE]
           x == Unwithhold(c, n)
           s == Without(c.subjects, {n})
<1>1. /\ w \in State /\ w.asking = 0 /\ w.seat = u.seat /\ w.polkit = u.polkit
      /\ w.page = u.page /\ w.showing = u.showing /\ w.batchUp = u.batchUp
      /\ w.brokerUp = u.brokerUp /\ w.installUp = u.installUp /\ w.erasing = u.erasing
  BY DEF State
<1> HIDE DEF w
<1>2. RestFree(w, "none")
  BY <1>1 DEF RestFree, Free
<1>3. Sound(c)
  BY <1>1, <1>2, RestSound, AnsweredSound
<1> HIDE DEF c
<1>4. c \in State /\ Parts(c)
  BY <1>3 DEF Sound
<1>5. q \in State /\ SameUp(c, q)
  BY <1>4 DEF State, SameUp
<1>6. s \in Seq(Positive)
  BY <1>4, WithoutType DEF State
<1>7. x = [c EXCEPT !.withheld = c.withheld \ {n}, !.subjects = s, !.pump = TRUE]
  BY <1>4 DEF Unwithhold, State
<1> HIDE DEF q, x, s
<1>8. x \in State /\ SameUp(c, x)
  BY <1>4, <1>6, <1>7 DEF State, SameUp
<1>9. Sound(q) /\ Sound(x)
  BY <1>3, <1>4, <1>5, <1>8, SameUpKeeps, KeepsSound
<1> QED BY <1>3, <1>9 DEF q, x, c, w

(* A password given, asked for again, or no more.                          *)
LEMMA PolkitAnswered ==
  ASSUME NEW u \in State, RestFree(u, "polkit"), u.polkit # <<>>,
         NEW stage \in {"waiting", "checking"}
  PROVE  Sound(PolkitFinish(u)) /\ Sound([u EXCEPT !.polkit[1].stage = stage])
<1> DEFINE p == u.polkit
           w == [u EXCEPT !.polkit = Tail(@)]
           n == Head(p).n
           v == [u EXCEPT !.polkit[1].stage = stage]
           r == [p EXCEPT ![1].stage = stage]
<1>1. p \in Seq(Requests) /\ p[1] \in Requests /\ 1 \in 1..Len(p) /\ n \in Nat
  <2>1. p \in Seq(Requests)
    BY DEF State
  <2>2. Head(p) \in Requests /\ p[1] \in Requests
    BY <2>1
  <2> QED BY <2>1, <2>2 DEF Requests
<1>2. \A i \in 2..Len(p) : p[i].stage = "waiting"
  BY DEF RestFree
<1>3. Sound(PolkitFinish(u))
  <2>1. /\ Tail(p) \in Seq(Requests) /\ Len(Tail(p)) = Len(p) - 1
        /\ \A i \in 1..Len(Tail(p)) : Tail(p)[i].stage = "waiting"
    BY <1>1, <1>2
  <2>2. w = [u EXCEPT !.polkit = Tail(p)]
    BY DEF State
  <2> HIDE DEF w, n
  <2>3. /\ w \in State /\ w.polkit = Tail(p) /\ w.seat = u.seat /\ w.asking = u.asking
        /\ w.page = u.page /\ w.showing = u.showing /\ w.batchUp = u.batchUp
        /\ w.brokerUp = u.brokerUp /\ w.installUp = u.installUp /\ w.erasing = u.erasing
    BY <2>1, <2>2 DEF State
  <2>4. RestFree(w, "none")
    <3>1. \A i \in 2..Len(w.polkit) : w.polkit[i].stage = "waiting"
      BY <2>1, <2>3
    <3>2. w.polkit # <<>> => w.polkit[1].stage # "prompting"
      <4>1. w.polkit # <<>> => 1 \in 1..Len(Tail(p))
        BY <2>1, <2>3
      <4> QED BY <2>1, <2>3, <4>1
    <3> QED BY <2>3, <3>1, <3>2 DEF RestFree, Free
  <2> HIDE DEF p
  <2>5. Sound(Answered(w, n))
    BY <1>1, <2>3, <2>4, RestSound, AnsweredSound
  <2>6. Keeps(Answered(w, n), PolkitSchedule(Answered(w, n)))
    BY <2>5, PolkitScheduleKeeps DEF Sound
  <2>7. Sound(PolkitSchedule(Answered(w, n)))
    BY <2>5, <2>6, KeepsSound
  <2> QED BY <2>7 DEF PolkitFinish, w, n, p
<1>4. Sound(v)
  <2> DEFINE h == [p[1] EXCEPT !.stage = stage]
  <2>1. h \in Requests /\ h.stage = stage
    BY <1>1 DEF Requests
  <2>2. r = [p EXCEPT ![1] = h]
    BY <1>1
  <2>3. v = [u EXCEPT !.polkit = r]
    BY DEF State
  <2> HIDE DEF h, r
  <2>4. r \in Seq(Requests) /\ Len(r) = Len(p) /\ r[1] = h /\ \A i \in 2..Len(r) : r[i] = p[i]
    BY <1>1, <2>1, <2>2
  <2> HIDE DEF v
  <2>5. /\ v \in State /\ v.polkit = r /\ v.seat = u.seat /\ v.asking = u.asking
        /\ v.page = u.page /\ v.showing = u.showing /\ v.batchUp = u.batchUp
        /\ v.brokerUp = u.brokerUp /\ v.installUp = u.installUp /\ v.erasing = u.erasing
    BY <2>3, <2>4 DEF State
  <2>6. RestFree(v, "none")
    BY <1>2, <2>1, <2>4, <2>5 DEF RestFree, Free
  <2> QED BY <2>5, <2>6, RestSound
<1> QED BY <1>3, <1>4

(* resolve, whoever's prompt was up.                                       *)
LEMMA ResolveSound ==
  ASSUME NEW u0, Sound(u0), ~Free(u0), NEW timedOut \in BOOLEAN,
         NEW v \in Resolve(u0, timedOut)
  PROVE  Sound(v)
<1> DEFINE u == [u0 EXCEPT !.seat = None]
           by == u0.seat.by
           n == u0.seat.n
<1>1. /\ u \in State /\ RestFree(u, by)
      /\ u.showing = u0.showing /\ u.batchUp = u0.batchUp /\ u.polkit = u0.polkit
      /\ u.asking = u0.asking /\ u.page = u0.page /\ u.broker = u0.broker
      /\ u.answers = u0.answers /\ by \in AllKinds /\ n \in Nat
  BY SeatEmptied
<1>2. /\ by = "consent" => u.showing = n
      /\ by = "batch" => u.batchUp # None /\ u.batchUp.n = n
      /\ by = "polkit" => u.polkit # <<>>
  BY <1>1 DEF Sound, Parts, ConsentPart, BatchPart, PolkitPart, Seated
<1> HIDE DEF u
<1>3. CASE by = "consent"
  <2>1. v = Drain(Settle(u, n))
    BY <1>3 DEF Resolve, u
  <2> QED BY <1>1, <1>2, <1>3, <2>1, ConsentAnswered
<1>4. CASE by = "batch"
  <2>1. v = Answered([u EXCEPT !.batchUp = None], n) \/ v = Open(u, "batch", n)
    BY <1>4 DEF Resolve, u
  <2> QED BY <1>1, <1>2, <1>4, <2>1, BatchAnswered
<1>5. CASE by = "install"
  <2>1. v = Answered([u EXCEPT !.installUp = 0], n)
    BY <1>5 DEF Resolve, u
  <2> QED BY <1>1, <1>5, <2>1, InstallAnswered
<1>6. CASE by = "broker"
  <2> DEFINE w == [u EXCEPT !.brokerUp = FALSE, !.broker = "idle"]
  <2>1. v \in BrokerAnswer(w, u.broker, timedOut)
    BY <1>6 DEF Resolve, u
  <2>2. Sound(w)
    BY <1>1, <1>6, BrokerAnswered
  <2> HIDE DEF w
  <2> QED BY <2>1, <2>2, BrokerAnswerSound
<1>7. CASE by = "polkit"
  <2>1. \/ v = PolkitFinish(u)
        \/ \E s \in {"waiting", "checking"} : v = [u EXCEPT !.polkit[1].stage = s]
    BY <1>7 DEF Resolve, u
  <2> QED BY <1>1, <1>2, <1>7, <2>1, PolkitAnswered
<1>8. CASE by = "approval"
  <2> DEFINE closed == Answered([u EXCEPT !.asking = 0], n)
  <2>1. v \in {[closed EXCEPT !.quiet = TRUE], closed, Unwithhold(closed, n)}
    BY <1>8 DEF Resolve, u
  <2>2. /\ Sound(closed) /\ Sound([closed EXCEPT !.quiet = TRUE])
        /\ Sound(Unwithhold(closed, n))
    BY <1>1, <1>8, ApprovalAnswered
  <2> HIDE DEF closed
  <2> QED BY <2>1, <2>2
<1>9. CASE by = "erase"
  <2>1. v = Answered([u EXCEPT !.erasing = 0], n)
    BY <1>9 DEF Resolve, u
  <2> QED BY <1>1, <1>9, <2>1, EraseAnswered
<1>10. CASE by = "panel"
  <2>1. v \in PanelAnswer(u, timedOut)
    BY <1>10 DEF Resolve, u
  <2>2. Free(u) /\ Parts(u)
    BY <1>1, <1>10 DEF RestFree, Parts, ConsentPart, BatchPart, InstallPart, BrokerPart,
       PolkitPart, ApprovalPart, ErasePart, Seated
  <2> QED BY <1>1, <2>1, <2>2, PanelAnswerSound
<1> QED BY <1>1, <1>3, <1>4, <1>5, <1>6, <1>7, <1>8, <1>9, <1>10 DEF AllKinds

(* mod.rs choose: the answer, then everyone's turn, polkit's last.         *)
LEMMA ChooseSound ==
  ASSUME NEW u, Sound(u), ~Free(u), NEW timedOut \in BOOLEAN, NEW v \in Choose(u, timedOut)
  PROVE  Sound(v) /\ NotLeft(v)
<1>1. PICK w \in Resolve(u, timedOut) : v = Turn(w)
  BY DEF Choose
<1>2. Sound(w)
  BY ResolveSound
<1>3. Keeps(w, Turn(w)) /\ NotLeft(Turn(w))
  BY <1>2, TurnKeeps DEF Sound
<1> QED BY <1>1, <1>2, <1>3, KeepsSound

-----------------------------------------------------------------------------
(* Counting.                                                               *)

At(s, n) == {i \in DOMAIN s : s[i] = n}

(* A number is held some finite number of times.                           *)
LEMMA CountType ==
  ASSUME NEW V, NEW s \in Seq(V), NEW n
  PROVE  IsFiniteSet(At(s, n)) /\ Count(s, n) = Cardinality(At(s, n)) /\ Count(s, n) \in Nat
<1>1. Len(s) \in Nat /\ DOMAIN s = 1..Len(s)
  OBVIOUS
<1>2. IsFiniteSet(1..Len(s))
  BY <1>1, FS_Interval
<1>3. At(s, n) \in SUBSET (1..Len(s))
  BY <1>1 DEF At
<1>4. IsFiniteSet(At(s, n))
  BY <1>2, <1>3, FS_Subset
<1> QED BY <1>4, FS_CardinalityType DEF Count, At

(* A count of none is an absence at every place.                           *)
LEMMA CountNone ==
  ASSUME NEW V, NEW s \in Seq(V), NEW n
  PROVE  Count(s, n) = 0 <=> \A i \in 1..Len(s) : s[i] # n
<1>1. DOMAIN s = 1..Len(s)
  OBVIOUS
<1>2. IsFiniteSet(At(s, n)) /\ Count(s, n) = Cardinality(At(s, n))
  BY CountType
<1>3. Count(s, n) = 0 <=> At(s, n) = {}
  BY <1>2, FS_EmptySet
<1> QED BY <1>1, <1>3 DEF At

(* Nothing, and one alone.                                                 *)
LEMMA CountOne ==
  ASSUME NEW x, NEW n
  PROVE  Count(<<>>, n) = 0 /\ Count(<<x>>, n) = IF x = n THEN 1 ELSE 0
<1>1. At(<<>>, n) = {}
  BY DEF At
<1>2. At(<<x>>, n) = IF x = n THEN {1} ELSE {}
  BY DEF At
<1> QED BY <1>1, <1>2, FS_EmptySet, FS_Singleton DEF Count, At

(* What two queues hold, one after the other.                              *)
LEMMA CountConcat ==
  ASSUME NEW V, NEW s \in Seq(V), NEW t \in Seq(V), NEW n
  PROVE  Count(s \o t, n) = Count(s, n) + Count(t, n)
<1> DEFINE a == Len(s)
           w == s \o t
           f == [j \in At(t, n) |-> a + j]
           B == {i \in (a + 1)..(a + Len(t)) : w[i] = n}
<1>1. a \in Nat /\ Len(t) \in Nat /\ DOMAIN s = 1..a /\ DOMAIN t = 1..Len(t)
  OBVIOUS
<1>2. /\ w \in Seq(V) /\ Len(w) = a + Len(t) /\ DOMAIN w = 1..(a + Len(t))
      /\ \A i \in 1..(a + Len(t)) : w[i] = IF i <= a THEN s[i] ELSE t[i - a]
  <2>1. w \in Seq(V) /\ Len(w) = a + Len(t)
    BY ConcatProperties, Zenon
  <2>2. DOMAIN w = 1..Len(w)
    BY <2>1
  <2>3. \A i \in 1..(a + Len(t)) : w[i] = IF i <= a THEN s[i] ELSE t[i - a]
    BY ConcatProperties, Zenon
  <2> QED BY <2>1, <2>2, <2>3
<1>3. /\ IsFiniteSet(At(s, n)) /\ Count(s, n) = Cardinality(At(s, n)) /\ Count(s, n) \in Nat
      /\ IsFiniteSet(At(t, n)) /\ Count(t, n) = Cardinality(At(t, n)) /\ Count(t, n) \in Nat
  BY CountType
<1> HIDE DEF w, a
<1>4. At(w, n) = At(s, n) \cup B /\ At(s, n) \cap B = {}
  <2>1. At(s, n) = {i \in 1..a : s[i] = n} /\ At(w, n) = {i \in 1..(a + Len(t)) : w[i] = n}
    BY <1>1, <1>2 DEF At
  <2>2. \A i \in 1..a : i \in 1..(a + Len(t)) /\ w[i] = s[i]
    BY <1>1, <1>2
  <2>3. \A i \in 1..(a + Len(t)) : i \in 1..a \/ i \in (a + 1)..(a + Len(t))
    BY <1>1
  <2>4. \A i \in (a + 1)..(a + Len(t)) : i \in 1..(a + Len(t)) /\ i \notin 1..a
    BY <1>1
  <2> QED BY <2>1, <2>2, <2>3, <2>4
<1>5. ExistsBijection(At(t, n), B)
  <2>1. \A j \in At(t, n) : f[j] \in B
    <3> TAKE j \in At(t, n)
    <3>1. j \in 1..Len(t) /\ t[j] = n
      BY <1>1 DEF At
    <3>2. a + j \in (a + 1)..(a + Len(t)) /\ a + j \in 1..(a + Len(t)) /\ ~(a + j <= a)
          /\ (a + j) - a = j
      BY <1>1, <3>1
    <3> QED BY <1>2, <3>1, <3>2
  <2>2. \A j, k \in At(t, n) : f[j] = f[k] => j = k
    <3> TAKE j, k \in At(t, n)
    <3>1. j \in 1..Len(t) /\ k \in 1..Len(t)
      BY <1>1 DEF At
    <3> QED BY <1>1, <3>1
  <2>3. \A i \in B : \E j \in At(t, n) : f[j] = i
    <3> TAKE i \in B
    <3>1. /\ i \in (a + 1)..(a + Len(t)) /\ w[i] = n /\ i \in 1..(a + Len(t)) /\ ~(i <= a)
          /\ i - a \in 1..Len(t) /\ a + (i - a) = i
      BY <1>1
    <3>2. t[i - a] = n
      BY <1>2, <3>1
    <3>3. i - a \in At(t, n)
      BY <1>1, <3>1, <3>2 DEF At
    <3> QED BY <3>1, <3>3
  <2>4. f \in [At(t, n) -> B]
    BY <2>1
  <2> HIDE DEF f, B
  <2>5. f \in Bijection(At(t, n), B)
    BY <2>2, <2>3, <2>4 DEF Bijection, Injection, IsInjective, Surjection
  <2> QED BY <2>5 DEF ExistsBijection
<1>6. IsFiniteSet(B) /\ Cardinality(B) = Count(t, n)
  BY <1>3, <1>5, FS_Bijection
<1>7. Cardinality(At(w, n)) = Count(s, n) + Count(t, n)
  <2> HIDE DEF B
  <2> DEFINE A == At(s, n)
  <2>1. IsFiniteSet(A) /\ IsFiniteSet(B) /\ A \cap B = {}
    BY <1>3, <1>4, <1>6
  <2> HIDE DEF A
  <2>2. Cardinality(A \cup B) = Cardinality(A) + Cardinality(B) - Cardinality(A \cap B)
    BY <2>1, FS_Union
  <2>3. Cardinality(A \cap B) = 0
    BY <2>1, FS_EmptySet
  <2>4. Cardinality(A \cup B) = Cardinality(A) + Cardinality(B) - 0
    BY <2>2, <2>3
  <2> QED BY <1>3, <1>4, <1>6, <2>4 DEF A
<1> QED BY <1>7 DEF Count, At, w

(* One more at the end.                                                    *)
LEMMA CountAppend ==
  ASSUME NEW V, NEW s \in Seq(V), NEW x \in V, NEW n
  PROVE  Count(Append(s, x), n) = Count(s, n) + IF x = n THEN 1 ELSE 0
<1>1. <<x>> \in Seq(V) /\ Append(s, x) = s \o <<x>>
  BY AppendIsConcat
<1>2. Count(s \o <<x>>, n) = Count(s, n) + Count(<<x>>, n)
  BY <1>1, CountConcat
<1> QED BY <1>1, <1>2, CountOne

(* The first, and all the others.                                          *)
LEMMA CountTail ==
  ASSUME NEW V, NEW s \in Seq(V), s # <<>>, NEW n
  PROVE  Count(s, n) = Count(Tail(s), n) + IF Head(s) = n THEN 1 ELSE 0
<1>1. Head(s) \in V /\ Tail(s) \in Seq(V) /\ <<Head(s)>> \in Seq(V)
  OBVIOUS
<1>2. s = <<Head(s)>> \o Tail(s)
  <2> DEFINE w == <<Head(s)>> \o Tail(s)
             h == <<Head(s)>>
  <2>1. Len(h) = 1 /\ h[1] = Head(s) /\ h \in Seq(V)
    BY <1>1
  <2>2. /\ Len(Tail(s)) = Len(s) - 1 /\ \A i \in 1..(Len(s) - 1) : Tail(s)[i] = s[i + 1]
    OBVIOUS
  <2>3. /\ w \in Seq(V) /\ Len(w) = 1 + Len(Tail(s))
        /\ \A i \in 1..(1 + Len(Tail(s))) : w[i] = IF i <= 1 THEN h[i] ELSE Tail(s)[i - 1]
    <3> HIDE DEF h
    <3>1. /\ h \o Tail(s) \in Seq(V) /\ Len(h \o Tail(s)) = Len(h) + Len(Tail(s))
          /\ \A i \in 1..(Len(h) + Len(Tail(s))) :
               (h \o Tail(s))[i] = IF i <= Len(h) THEN h[i] ELSE Tail(s)[i - Len(h)]
      BY <1>1, <2>1, ConcatProperties, Zenon
    <3> QED BY <2>1, <3>1 DEF h
  <2>4. Len(s) \in Nat \ {0} /\ s[1] = Head(s)
    OBVIOUS
  <2> HIDE DEF w, h
  <2>5. \A i \in 1..Len(s) : w[i] = s[i]
    <3> TAKE i \in 1..Len(s)
    <3>1. CASE i = 1
      BY <2>1, <2>2, <2>3, <2>4, <3>1
    <3>2. CASE i # 1
      <4>1. i \in 1..(1 + Len(Tail(s))) /\ ~(i <= 1) /\ i - 1 \in 1..(Len(s) - 1) /\ (i - 1) + 1 = i
        BY <2>2, <2>4, <3>2
      <4> QED BY <2>2, <2>3, <4>1
    <3> QED BY <3>1, <3>2
  <2>6. Len(w) = Len(s)
    BY <2>2, <2>3, <2>4
  <2>7. w = s
    BY <2>3, <2>5, <2>6, SeqEqual
  <2> QED BY <2>7 DEF w
<1>3. Count(<<Head(s)>> \o Tail(s), n) = Count(<<Head(s)>>, n) + Count(Tail(s), n)
  BY <1>1, CountConcat
<1>4. Count(Tail(s), n) \in Nat
  BY <1>1, CountType
<1>5. Count(<<Head(s)>>, n) = IF Head(s) = n THEN 1 ELSE 0
  BY CountOne
<1> DEFINE h == <<Head(s)>>
<1>6. Count(s, n) = Count(h, n) + Count(Tail(s), n)
  BY <1>2, <1>3
<1> HIDE DEF h
<1>7. Count(h, n) = IF Head(s) = n THEN 1 ELSE 0
  BY <1>5 DEF h
<1> QED BY <1>4, <1>6, <1>7

(* The numbers of what waits in a queue of records.                        *)
HaveNumbers(V) == \A p \in V : p.n \in Nat
Times(s, n)  == Count(NumbersOf(s), n)

(* One number for each member.                                             *)
LEMMA NumbersOfType ==
  ASSUME NEW V, HaveNumbers(V), NEW s \in Seq(V)
  PROVE  /\ NumbersOf(s) \in Seq(Nat) /\ Len(NumbersOf(s)) = Len(s)
         /\ \A i \in 1..Len(s) : NumbersOf(s)[i] = s[i].n
<1>1. Len(s) \in Nat /\ DOMAIN s = 1..Len(s) /\ \A i \in 1..Len(s) : s[i] \in V
  OBVIOUS
<1>2. \A i \in 1..Len(s) : s[i].n \in Nat
  BY <1>1 DEF HaveNumbers
<1>3. NumbersOf(s) = [i \in 1..Len(s) |-> s[i].n]
  BY <1>1 DEF NumbersOf
<1> QED BY <1>1, <1>2, <1>3

(* The numbers of two queues, one after the other.                         *)
LEMMA NumbersOfConcat ==
  ASSUME NEW V, HaveNumbers(V), NEW s \in Seq(V), NEW t \in Seq(V)
  PROVE  NumbersOf(s \o t) = NumbersOf(s) \o NumbersOf(t)
<1> DEFINE w == s \o t
           a == NumbersOf(s)
           b == NumbersOf(t)
           c == NumbersOf(w)
<1>1. /\ w \in Seq(V) /\ Len(w) = Len(s) + Len(t) /\ Len(s) \in Nat /\ Len(t) \in Nat
      /\ \A i \in 1..(Len(s) + Len(t)) : w[i] = IF i <= Len(s) THEN s[i] ELSE t[i - Len(s)]
  BY ConcatProperties
<1> HIDE DEF w
<1>2. /\ a \in Seq(Nat) /\ Len(a) = Len(s) /\ \A i \in 1..Len(s) : a[i] = s[i].n
      /\ b \in Seq(Nat) /\ Len(b) = Len(t) /\ \A i \in 1..Len(t) : b[i] = t[i].n
      /\ c \in Seq(Nat) /\ Len(c) = Len(w) /\ \A i \in 1..Len(w) : c[i] = w[i].n
  BY <1>1, NumbersOfType
<1> HIDE DEF a, b, c
<1>3. /\ a \o b \in Seq(Nat) /\ Len(a \o b) = Len(a) + Len(b)
      /\ \A i \in 1..(Len(a) + Len(b)) : (a \o b)[i] = IF i <= Len(a) THEN a[i] ELSE b[i - Len(a)]
  <2>1. a \in Seq(Nat) /\ b \in Seq(Nat)
    BY <1>2
  <2> QED BY <2>1, ConcatProperties, Zenon
<1> DEFINE d == a \o b
<1> HIDE DEF d
<1>4. \A i \in 1..Len(w) : c[i] = d[i]
  <2> TAKE i \in 1..Len(w)
  <2>1. i \in 1..(Len(s) + Len(t)) /\ c[i] = w[i].n
    BY <1>1, <1>2
  <2>2. d[i] = IF i <= Len(s) THEN a[i] ELSE b[i - Len(s)]
    BY <1>2, <1>3, <2>1 DEF d
  <2>3. CASE i <= Len(s)
    BY <1>1, <1>2, <2>1, <2>2, <2>3
  <2>4. CASE ~(i <= Len(s))
    <3>1. i - Len(s) \in 1..Len(t)
      BY <1>1, <2>1, <2>4
    <3> QED BY <1>1, <1>2, <2>1, <2>2, <2>4, <3>1
  <2> QED BY <2>3, <2>4
<1>5. c = d
  BY <1>1, <1>2, <1>3, <1>4, SeqEqual DEF d
<1> QED BY <1>5 DEF a, b, c, d, w

(* The same facts for a queue of records: its count is a number,           *)
LEMMA TimesType ==
  ASSUME NEW V, HaveNumbers(V), NEW s \in Seq(V), NEW n
  PROVE  Times(s, n) \in Nat
BY NumbersOfType, CountType DEF Times

(* it is none when no member has the number,                               *)
LEMMA TimesNone ==
  ASSUME NEW V, HaveNumbers(V), NEW s \in Seq(V), NEW n
  PROVE  Times(s, n) = 0 <=> \A i \in 1..Len(s) : s[i].n # n
<1>1. /\ NumbersOf(s) \in Seq(Nat) /\ Len(NumbersOf(s)) = Len(s)
      /\ \A i \in 1..Len(s) : NumbersOf(s)[i] = s[i].n
  BY NumbersOfType
<1>2. Times(s, n) = 0 <=> \A i \in 1..Len(s) : NumbersOf(s)[i] # n
  BY <1>1, CountNone DEF Times
<1> QED BY <1>1, <1>2

(* it adds up over two queues,                                             *)
LEMMA TimesConcat ==
  ASSUME NEW V, HaveNumbers(V), NEW s \in Seq(V), NEW t \in Seq(V), NEW n
  PROVE  Times(s \o t, n) = Times(s, n) + Times(t, n)
<1> DEFINE a == NumbersOf(s)
           b == NumbersOf(t)
<1>1. a \in Seq(Nat) /\ b \in Seq(Nat) /\ NumbersOf(s \o t) = a \o b
  BY NumbersOfType, NumbersOfConcat
<1> HIDE DEF a, b
<1>2. Count(a \o b, n) = Count(a, n) + Count(b, n)
  BY <1>1, CountConcat
<1> QED BY <1>1, <1>2 DEF Times, a, b

(* nothing and one alone,                                                  *)
LEMMA TimesSingle ==
  ASSUME NEW p, NEW n
  PROVE  Times(<<>>, n) = 0 /\ Times(<<p>>, n) = IF p.n = n THEN 1 ELSE 0
<1>1. NumbersOf(<<p>>) = <<p.n>> /\ NumbersOf(<<>>) = <<>>
  BY DEF NumbersOf
<1> QED BY <1>1, CountOne DEF Times

(* one more at the end,                                                    *)
LEMMA TimesAppend ==
  ASSUME NEW V, HaveNumbers(V), NEW s \in Seq(V), NEW p \in V, NEW n
  PROVE  Times(Append(s, p), n) = Times(s, n) + IF p.n = n THEN 1 ELSE 0
<1> DEFINE h == <<p>>
<1>1. h \in Seq(V) /\ Append(s, p) = s \o h
  BY AppendIsConcat
<1>2. Times(h, n) = IF p.n = n THEN 1 ELSE 0
  BY TimesSingle
<1> HIDE DEF h
<1>3. Times(s \o h, n) = Times(s, n) + Times(h, n)
  BY <1>1, TimesConcat
<1> QED BY <1>1, <1>2, <1>3

(* the first and all the others,                                           *)
LEMMA TimesTail ==
  ASSUME NEW V, HaveNumbers(V), NEW s \in Seq(V), s # <<>>, NEW n
  PROVE  Times(s, n) = Times(Tail(s), n) + IF Head(s).n = n THEN 1 ELSE 0
<1> DEFINE a == NumbersOf(s)
           b == NumbersOf(Tail(s))
<1>1. /\ Tail(s) \in Seq(V) /\ Len(Tail(s)) = Len(s) - 1 /\ Len(s) \in Nat \ {0}
      /\ \A i \in 1..(Len(s) - 1) : Tail(s)[i] = s[i + 1]
      /\ s[1] = Head(s)
  OBVIOUS
<1>2. /\ a \in Seq(Nat) /\ Len(a) = Len(s) /\ \A i \in 1..Len(s) : a[i] = s[i].n
      /\ b \in Seq(Nat) /\ Len(b) = Len(s) - 1 /\ \A i \in 1..(Len(s) - 1) : b[i] = Tail(s)[i].n
  BY <1>1, NumbersOfType
<1> HIDE DEF a, b
<1>3. a # <<>> /\ Head(a) = Head(s).n
  BY <1>1, <1>2
<1>4. /\ Tail(a) \in Seq(Nat) /\ Len(Tail(a)) = Len(a) - 1
      /\ \A i \in 1..(Len(a) - 1) : Tail(a)[i] = a[i + 1]
  BY <1>2, <1>3
<1>5. Tail(a) = b
  <2>1. \A i \in 1..(Len(s) - 1) : Tail(a)[i] = b[i]
    <3> TAKE i \in 1..(Len(s) - 1)
    <3>1. i + 1 \in 1..Len(s)
      BY <1>1
    <3> QED BY <1>1, <1>2, <1>4, <3>1
  <2> DEFINE c == Tail(a)
  <2>2. c \in Seq(Nat) /\ Len(c) = Len(b) /\ \A i \in 1..Len(c) : c[i] = b[i]
    BY <1>2, <1>4, <2>1
  <2> HIDE DEF c
  <2>3. c = b
    BY <1>2, <2>2, SeqEqual
  <2> QED BY <2>3 DEF c
<1>6. Count(a, n) = Count(Tail(a), n) + IF Head(a) = n THEN 1 ELSE 0
  BY <1>2, <1>3, CountTail
<1>7. Count(a, n) = Count(b, n) + IF Head(s).n = n THEN 1 ELSE 0
  BY <1>3, <1>5, <1>6
<1> QED BY <1>7 DEF Times, a, b

(* and one out of the middle.                                              *)
LEMMA TimesRemoved ==
  ASSUME NEW V, HaveNumbers(V), NEW s \in Seq(V), NEW i \in 1..Len(s), NEW n
  PROVE  Times(s, n) = Times(RemoveAt(s, i), n) + IF s[i].n = n THEN 1 ELSE 0
<1> DEFINE a == SubSeq(s, 1, i - 1)
           b == SubSeq(s, i, Len(s))
           c == SubSeq(s, i + 1, Len(s))
<1>1. Len(s) \in Nat /\ i \in Nat /\ \A k \in 1..Len(s) : s[k] \in V
  OBVIOUS
<1>2. a \in Seq(V)
  <2>1. \A k \in 1..(i - 1) : s[k] \in V
    BY <1>1
  <2> QED BY <1>1, <2>1, SubSeqProperties
<1>3. b \in Seq(V)
  <2>1. \A k \in i..Len(s) : s[k] \in V
    BY <1>1
  <2> QED BY <1>1, <2>1, SubSeqProperties
<1>4. s = a \o b
  <2>1. SubSeq(s, 1, i - 1) \o SubSeq(s, (i - 1) + 1, Len(s)) = SubSeq(s, 1, Len(s))
    <3>1. 1 \in 1..(Len(s) + 1) /\ i - 1 \in (1 - 1)..Len(s) /\ Len(s) \in (i - 1)..Len(s)
      BY <1>1
    <3> QED BY <3>1, ConcatAdjacentSubSeq
  <2>2. SubSeq(s, 1, Len(s)) = s
    BY SubSeqFull
  <2>3. (i - 1) + 1 = i
    BY <1>1
  <2> QED BY <2>1, <2>2, <2>3
<1>5. Head(b) = s[i] /\ Tail(b) = c /\ b # <<>>
  <2>1. Len(s) \in i..Len(s)
    BY <1>1
  <2>2. Head(b) = s[i] /\ Tail(b) = c
    BY <2>1, HeadTailOfSubSeq
  <2>3. Len(b) = Len(s) - i + 1
    <3>1. \A k \in i..Len(s) : s[k] \in V
      BY <1>1
    <3>2. Len(b) = IF i <= Len(s) THEN Len(s) - i + 1 ELSE 0
      BY <1>1, <3>1, SubSeqProperties
    <3> QED BY <1>1, <3>2
  <2>4. b # <<>>
    <3> HIDE DEF b
    <3> QED BY <1>1, <1>3, <2>3
  <2> QED BY <2>2, <2>4
<1>6. RemoveAt(s, i) = a \o c
  BY DEF RemoveAt
<1> HIDE DEF a, b, c
<1>7. c \in Seq(V)
  BY <1>3, <1>5
<1>8. Times(s, n) = Times(a, n) + Times(b, n)
  BY <1>2, <1>3, <1>4, TimesConcat
<1>9. Times(b, n) = Times(c, n) + IF s[i].n = n THEN 1 ELSE 0
  BY <1>3, <1>5, TimesTail
<1>10. Times(RemoveAt(s, i), n) = Times(a, n) + Times(c, n)
  BY <1>2, <1>6, <1>7, TimesConcat
<1>11. Times(a, n) \in Nat /\ Times(b, n) \in Nat /\ Times(c, n) \in Nat
  BY <1>2, <1>3, <1>7, TimesType
<1> QED BY <1>8, <1>9, <1>10, <1>11

(* How many members of a queue are in a set.                               *)
Hits(s, S) == Cardinality({i \in DOMAIN s : s[i] \in S})

(* One more at the end, in the set or not.                                 *)
LEMMA HitsAppend ==
  ASSUME NEW V, NEW s \in Seq(V), NEW x \in V, NEW S
  PROVE  /\ Hits(s, S) \in Nat
         /\ Hits(Append(s, x), S) = Hits(s, S) + IF x \in S THEN 1 ELSE 0
<1> DEFINE k == Len(s)
           t == Append(s, x)
           A == {i \in 1..k : s[i] \in S}
           B == {i \in 1..(k + 1) : t[i] \in S}
<1>1. k \in Nat /\ DOMAIN s = 1..k /\ DOMAIN t = 1..(k + 1)
  OBVIOUS
<1>2. (\A i \in 1..k : t[i] = s[i]) /\ t[k + 1] = x
  OBVIOUS
<1>3. IsFiniteSet(A)
  <2>1. IsFiniteSet(1..k)
    BY <1>1, FS_Interval
  <2>2. A \in SUBSET (1..k)
    OBVIOUS
  <2> HIDE DEF A
  <2> QED BY <2>1, <2>2, FS_Subset
<1>4. B = IF x \in S THEN A \cup {k + 1} ELSE A
  <2>1. \A i \in 1..(k + 1) : i \in 1..k \/ i = k + 1
    BY <1>1
  <2>2. (\A i \in 1..k : i \in 1..(k + 1)) /\ k + 1 \in 1..(k + 1)
    BY <1>1
  <2> HIDE DEF t, k
  <2> QED BY <1>2, <2>1, <2>2
<1>5. k + 1 \notin A
  BY <1>1
<1>6. Hits(s, S) = Cardinality(A) /\ Hits(t, S) = Cardinality(B)
  BY <1>1 DEF Hits
<1> HIDE DEF A, B
<1>7. Cardinality(A) \in Nat
  BY <1>3, FS_CardinalityType
<1>8. Cardinality(A \cup {k + 1}) = Cardinality(A) + 1
  BY <1>3, <1>5, FS_AddElement
<1> QED BY <1>4, <1>6, <1>7, <1>8

(* Vec::retain: who is not named stays, and nobody named does.             *)
LEMMA HitsWithout ==
  ASSUME NEW V, NEW s \in Seq(V), NEW out, NEW S
  PROVE  /\ (\A i \in 1..Len(s) : s[i] \in out => s[i] \notin S)
              => Hits(Without(s, out), S) = Hits(s, S)
         /\ (\A i \in 1..Len(s) : s[i] \in S => s[i] \in out)
              => Hits(Without(s, out), S) = 0
<1> DEFINE kept == CHOOSE f : Filters(s, out, Len(s), f)
           part(k) == SubSeq(s, 1, k)
           Apart == \A i \in 1..Len(s) : s[i] \in out => s[i] \notin S
           Named == \A i \in 1..Len(s) : s[i] \in S => s[i] \in out
           Good(k) == /\ kept[k] \in Seq(V)
                      /\ Apart => Hits(kept[k], S) = Hits(part(k), S)
                      /\ Named => Hits(kept[k], S) = 0
<1>0. Len(s) \in Nat /\ \A i \in 1..Len(s) : s[i] \in V
  OBVIOUS
<1>1. Filters(s, out, Len(s), kept)
  BY <1>0, FiltersExist
<1>2. Without(s, out) = kept[Len(s)]
  BY DEF Without, Filters
<1> HIDE DEF kept
<1>3. \A k \in 0..Len(s) : kept[k] = IF k = 0 THEN <<>>
                ELSE IF s[k] \in out THEN kept[k-1] ELSE Append(kept[k-1], s[k])
  BY <1>1, Zenon DEF Filters
<1>4. Hits(<<>>, S) = 0
  <2>1. {i \in DOMAIN <<>> : <<>>[i] \in S} = {}
    OBVIOUS
  <2> QED BY <2>1, FS_EmptySet DEF Hits
<1>5. part(0) = <<>>
  BY SubSeqEmpty
<1>6. \A k \in 1..Len(s) : part(k-1) \in Seq(V) /\ part(k) = Append(part(k-1), s[k])
  <2> TAKE k \in 1..Len(s)
  <2>1. part(k-1) \in Seq(V)
    <3>1. \A i \in 1..(k-1) : s[i] \in V
      BY <1>0
    <3> QED BY <1>0, <3>1, SubSeqProperties
  <2>2. part(k) = part(k-1) \o <<s[k]>>
    <3>1. 1 \in 1..Len(s) /\ k \in 1..Len(s)
      BY <1>0
    <3> QED BY <3>1, SubSeqRecursiveSecond
  <2>3. Append(part(k-1), s[k]) = part(k-1) \o <<s[k]>>
    <3> DEFINE p == part(k-1)
    <3>1. p \in Seq(V) /\ s[k] \in V
      BY <1>0, <2>1
    <3> HIDE DEF p
    <3> QED BY <3>1, AppendIsConcat DEF p
  <2> QED BY <2>1, <2>2, <2>3
<1>7. part(Len(s)) = s
  BY SubSeqFull
<1> HIDE DEF part, Apart, Named
<1>8. Good(0)
  <2>1. kept[0] = <<>> /\ <<>> \in Seq(V)
    <3>1. 0 \in 0..Len(s)
      BY <1>0
    <3> QED BY <1>3, <3>1
  <2> QED BY <1>4, <1>5, <2>1
<1>9. ASSUME NEW k \in 1..Len(s), Good(k-1) PROVE Good(k)
  <2>1. kept[k] = IF s[k] \in out THEN kept[k-1] ELSE Append(kept[k-1], s[k])
    BY <1>0, <1>3
  <2>2. /\ Hits(part(k-1), S) \in Nat
        /\ Hits(part(k), S) = Hits(part(k-1), S) + IF s[k] \in S THEN 1 ELSE 0
    <3> DEFINE p == part(k-1)
               x == s[k]
    <3>1. p \in Seq(V) /\ part(k) = Append(p, x) /\ x \in V
      BY <1>0, <1>6
    <3> HIDE DEF p, x
    <3>2. Hits(p, S) \in Nat /\ Hits(Append(p, x), S) = Hits(p, S) + IF x \in S THEN 1 ELSE 0
      BY <3>1, HitsAppend, Zenon
    <3> QED BY <3>1, <3>2 DEF p, x
  <2>3. Hits(Append(kept[k-1], s[k]), S) = Hits(kept[k-1], S) + IF s[k] \in S THEN 1 ELSE 0
    BY <1>0, <1>9, HitsAppend
  <2>4. CASE s[k] \in out
    <3>1. Apart => s[k] \notin S
      BY <2>4 DEF Apart
    <3> QED BY <1>9, <2>1, <2>2, <2>4, <3>1
  <2>5. CASE s[k] \notin out
    <3>1. Named => s[k] \notin S
      BY <2>5 DEF Named
    <3>2. kept[k] \in Seq(V)
      BY <1>0, <1>9, <2>1, <2>5
    <3> QED BY <1>9, <2>1, <2>2, <2>3, <2>5, <3>1, <3>2
  <2> QED BY <2>4, <2>5
<1>10. Good(Len(s))
  <2> DEFINE T == { k \in Nat : k <= Len(s) /\ ~Good(k) }
  <2> HIDE DEF Good
  <2>1. SUFFICES ASSUME T # {} PROVE FALSE
    BY <1>0
  <2>2. PICK m \in T : \A y \in T : <<y, m>> \notin OpToRel(<, Nat)
    BY <2>1, NatLessThanWellFounded, WFMin, Zenon
  <2>3. m \in Nat /\ m <= Len(s) /\ ~Good(m) /\ \A y \in T : ~(y < m)
    BY <2>2 DEF OpToRel
  <2>4. m # 0
    BY <1>8, <2>3
  <2>5. m \in 1..Len(s) /\ m - 1 \in Nat /\ m - 1 <= Len(s) /\ m - 1 < m
    BY <1>0, <2>3, <2>4
  <2>6. Good(m - 1)
    BY <2>3, <2>5
  <2> QED BY <1>9, <2>3, <2>5, <2>6
<1> QED BY <1>2, <1>7, <1>10 DEF Apart, Named

(* Vec::retain by number, of records,                                      *)
LEMMA TimesWithout ==
  ASSUME NEW V, HaveNumbers(V), NEW s \in Seq(V), NEW out, NEW n
  PROVE  /\ (\A i \in 1..Len(s) : s[i] \in out => s[i].n # n)
              => Times(Without(s, out), n) = Times(s, n)
         /\ (\A i \in 1..Len(s) : s[i].n = n => s[i] \in out)
              => Times(Without(s, out), n) = 0
<1> DEFINE S == {p \in V : p.n = n}
           w == Without(s, out)
<1>1. \A t \in Seq(V) : Times(t, n) = Hits(t, S)
  <2> TAKE t \in Seq(V)
  <2>1. /\ NumbersOf(t) \in Seq(Nat) /\ Len(NumbersOf(t)) = Len(t)
        /\ \A i \in 1..Len(t) : NumbersOf(t)[i] = t[i].n
    BY NumbersOfType
  <2>2. DOMAIN NumbersOf(t) = DOMAIN t /\ DOMAIN t = 1..Len(t)
    BY <2>1
  <2>3. \A i \in 1..Len(t) : t[i] \in V
    OBVIOUS
  <2>4. {i \in DOMAIN NumbersOf(t) : NumbersOf(t)[i] = n} = {i \in DOMAIN t : t[i] \in S}
    BY <2>1, <2>2, <2>3
  <2> QED BY <2>4 DEF Times, Count, Hits
<1>2. w \in Seq(V)
  BY WithoutType
<1>3. \A i \in 1..Len(s) : s[i] \in S <=> s[i].n = n
  OBVIOUS
<1>4. Times(w, n) = Hits(w, S) /\ Times(s, n) = Hits(s, S)
  BY <1>1, <1>2
<1> HIDE DEF S
<1>5. /\ (\A i \in 1..Len(s) : s[i] \in out => s[i] \notin S) => Hits(w, S) = Hits(s, S)
      /\ (\A i \in 1..Len(s) : s[i] \in S => s[i] \in out) => Hits(w, S) = 0
  BY HitsWithout
<1> QED BY <1>3, <1>4, <1>5

(* and of plain numbers.                                                   *)
LEMMA CountWithout ==
  ASSUME NEW V, NEW s \in Seq(V), NEW m, NEW n
  PROVE  Count(Without(s, {m}), n) = IF m = n THEN 0 ELSE Count(s, n)
<1> DEFINE w == Without(s, {m})
<1>1. \A t : Count(t, n) = Hits(t, {n})
  BY DEF Count, Hits
<1>2. /\ (\A i \in 1..Len(s) : s[i] \in {m} => s[i] \notin {n}) => Hits(w, {n}) = Hits(s, {n})
      /\ (\A i \in 1..Len(s) : s[i] \in {n} => s[i] \in {m}) => Hits(w, {n}) = 0
  BY HitsWithout
<1> QED BY <1>1, <1>2

(* Once if it is so, and else not at all.                                  *)
Is(m, n)      == IF m = n THEN 1 ELSE 0
BatchIs(b, n) == IF b # None /\ b.n = n THEN 1 ELSE 0
In(n, S)      == IF n \in S THEN 1 ELSE 0

(* A queue whose members keep their numbers.                               *)
LEMMA TimesSame ==
  ASSUME NEW s, NEW t, DOMAIN s = DOMAIN t, \A i \in DOMAIN s : s[i].n = t[i].n, NEW n
  PROVE  Times(s, n) = Times(t, n)
<1>1. NumbersOf(s) = NumbersOf(t)
  BY DEF NumbersOf
<1> QED BY <1>1 DEF Times

(* A number counted at most once is one member's.                          *)
LEMMA TimesOnce ==
  ASSUME NEW V, HaveNumbers(V), NEW s \in Seq(V), NEW n, Times(s, n) <= 1,
         NEW i \in 1..Len(s), NEW j \in 1..Len(s), s[i].n = n, s[j].n = n
  PROVE  i = j
<1> DEFINE w == NumbersOf(s)
<1>1. w \in Seq(Nat) /\ Len(w) = Len(s) /\ \A k \in 1..Len(s) : w[k] = s[k].n
  BY NumbersOfType
<1>2. Times(s, n) = Count(w, n)
  BY DEF Times
<1> HIDE DEF w
<1>3. IsFiniteSet(At(w, n)) /\ Count(w, n) = Cardinality(At(w, n))
  BY <1>1, CountType
<1>4. i \in At(w, n) /\ j \in At(w, n)
  BY <1>1 DEF At
<1>5. SUFFICES ASSUME i # j PROVE FALSE
  OBVIOUS
<1> DEFINE one == {i}
           two == one \cup {j}
<1>6. IsFiniteSet(one) /\ Cardinality(one) = 1 /\ j \notin one
  BY <1>5, FS_Singleton
<1>7. two \subseteq At(w, n)
  BY <1>4
<1> HIDE DEF one
<1>8. Cardinality(two) = Cardinality(one) + 1
  BY <1>6, FS_AddElement
<1> HIDE DEF two
<1>9. Cardinality(two) <= Cardinality(At(w, n)) /\ Cardinality(At(w, n)) \in Nat
  BY <1>3, <1>7, FS_Subset, FS_CardinalityType
<1> QED BY <1>2, <1>3, <1>6, <1>8, <1>9

(* Members taken out of a queue, each with a number of its own.            *)
LEMMA TimesTaken ==
  ASSUME NEW V, HaveNumbers(V), NEW s \in Seq(V), NEW out \in SUBSET ToSet(s), NEW n,
         Times(s, n) <= 1
  PROVE  Times(s, n) = Times(Without(s, out), n) + In(n, Numbers(out))
<1>0. Times(s, n) \in Nat
  BY TimesType
<1>1. CASE n \in Numbers(out)
  <2>1. PICK p \in out : p.n = n
    BY <1>1 DEF Numbers
  <2>2. PICK i \in 1..Len(s) : s[i] = p
    BY <2>1 DEF ToSet
  <2>3. Times(s, n) # 0
    BY <2>1, <2>2, TimesNone
  <2>4. \A j \in 1..Len(s) : s[j].n = n => s[j] \in out
    <3> TAKE j \in 1..Len(s)
    <3> HAVE s[j].n = n
    <3>1. i = j
      BY <2>1, <2>2, TimesOnce
    <3> QED BY <2>1, <2>2, <3>1
  <2>5. Times(Without(s, out), n) = 0
    BY <2>4, TimesWithout
  <2> QED BY <1>0, <1>1, <2>3, <2>5 DEF In
<1>2. CASE n \notin Numbers(out)
  <2>1. \A i \in 1..Len(s) : s[i] \in out => s[i].n # n
    BY <1>2 DEF Numbers
  <2>2. Times(Without(s, out), n) = Times(s, n)
    BY <2>1, TimesWithout
  <2> QED BY <1>0, <1>2, <2>2 DEF In
<1> QED BY <1>1, <1>2 DEF In

-----------------------------------------------------------------------------
(* Where an ask is.                                                        *)

(* How often an ask is waiting or up, told in this step, or withdrawn.     *)
Consented(u, n)  == Times(u.order, n) + Count(u.resolved, n)
Batched(u, n)    == Times(u.batches, n) + BatchIs(u.batchUp, n)
Installing(u, n) == Times(u.installs, n) + Is(u.installUp, n)
Requested(u, n)  == Times(u.polkit, n)
Commanded(u, n)  == Count(u.subjects, n) + Is(u.asking, n)
Erasing(u, n)    == Is(u.erasing, n)
Over(u, n)       == Count(u.answers, n) + In(n, u.gone)
Total(u, n) ==
  Consented(u, n) + Batched(u, n) + Installing(u, n) + Requested(u, n)
    + Commanded(u, n) + Erasing(u, n) + Over(u, n)

(* The members of every queue are numbered.                                *)
LEMMA QueuesHaveNumbers ==
  HaveNumbers(Consents) /\ HaveNumbers(BatchAsk) /\ HaveNumbers(Reviews) /\ HaveNumbers(Requests)
BY DEF HaveNumbers, Consents, BatchAsk, Reviews, Requests, Positive

(* Every part of the count is a number.                                    *)
Parted(u, n) ==
  /\ Times(u.order, n) \in Nat /\ Count(u.resolved, n) \in Nat
  /\ Times(u.batches, n) \in Nat /\ Times(u.installs, n) \in Nat
  /\ Times(u.polkit, n) \in Nat /\ Count(u.subjects, n) \in Nat
  /\ Count(u.answers, n) \in Nat /\ BatchIs(u.batchUp, n) \in Nat
  /\ Is(u.installUp, n) \in Nat /\ Is(u.asking, n) \in Nat /\ Is(u.erasing, n) \in Nat
  /\ In(n, u.gone) \in Nat
Summed(u, n) ==
  /\ Consented(u, n) \in Nat /\ Batched(u, n) \in Nat /\ Installing(u, n) \in Nat
  /\ Requested(u, n) \in Nat /\ Commanded(u, n) \in Nat /\ Erasing(u, n) \in Nat
  /\ Over(u, n) \in Nat /\ Total(u, n) \in Nat

(* So is the whole of it.                                                  *)
LEMMA TotalType ==
  ASSUME NEW u \in State, NEW n
  PROVE  Parted(u, n) /\ Summed(u, n)
<1>1. /\ u.order \in Seq(Consents) /\ u.resolved \in Seq(Nat) /\ u.batches \in Seq(BatchAsk)
      /\ u.installs \in Seq(Reviews) /\ u.polkit \in Seq(Requests)
      /\ u.subjects \in Seq(Positive) /\ u.answers \in Seq(Nat)
  BY DEF State
<1>2. /\ Times(u.order, n) \in Nat /\ Times(u.batches, n) \in Nat
      /\ Times(u.installs, n) \in Nat /\ Times(u.polkit, n) \in Nat
  BY <1>1, QueuesHaveNumbers, TimesType
<1>3. /\ Count(u.resolved, n) \in Nat /\ Count(u.subjects, n) \in Nat
      /\ Count(u.answers, n) \in Nat
  BY <1>1, CountType
<1>4. /\ BatchIs(u.batchUp, n) \in Nat /\ In(n, u.gone) \in Nat
      /\ Is(u.installUp, n) \in Nat /\ Is(u.asking, n) \in Nat /\ Is(u.erasing, n) \in Nat
  BY DEF Is, BatchIs, In
<1>5. Parted(u, n)
  BY <1>2, <1>3, <1>4 DEF Parted
<1>6. /\ Consented(u, n) \in Nat /\ Batched(u, n) \in Nat /\ Installing(u, n) \in Nat
      /\ Requested(u, n) \in Nat /\ Commanded(u, n) \in Nat /\ Erasing(u, n) \in Nat
      /\ Over(u, n) \in Nat
  BY <1>5 DEF Parted, Consented, Batched, Installing, Requested, Commanded, Erasing, Over
<1>7. Total(u, n) \in Nat
  BY <1>6 DEF Total
<1> QED BY <1>5, <1>6, <1>7 DEF Summed

(* What the owners hold is what is neither told nor withdrawn.             *)
LEMMA HeldIsCounted ==
  ASSUME NEW u \in State, NEW n \in Positive
  PROVE  /\ Total(u, n) = Count(Held(u), n) + Count(u.answers, n) + In(n, u.gone)
         /\ Count(Held(u), n) \in Nat
<1> DEFINE h1 == NumbersOf(u.order)
           h2 == u.resolved
           h3 == NumbersOf(u.batches)
           h4 == IF u.batchUp = None THEN <<>> ELSE <<u.batchUp.n>>
           h5 == NumbersOf(u.installs)
           h6 == One(u.installUp)
           h7 == NumbersOf(u.polkit)
           h8 == u.subjects
           h9 == One(u.asking)
           h10 == One(u.erasing)
<1>1. /\ u.order \in Seq(Consents) /\ u.resolved \in Seq(Nat) /\ u.batches \in Seq(BatchAsk)
      /\ u.installs \in Seq(Reviews) /\ u.polkit \in Seq(Requests)
      /\ u.subjects \in Seq(Positive) /\ u.installUp \in Nat /\ u.asking \in Nat
      /\ u.erasing \in Nat /\ u.batchUp \in BatchAsk \cup {None}
  BY DEF State
<1>2. h1 \in Seq(Nat) /\ h3 \in Seq(Nat) /\ h5 \in Seq(Nat) /\ h7 \in Seq(Nat)
  BY <1>1, QueuesHaveNumbers, NumbersOfType
<1>3. h2 \in Seq(Nat) /\ h8 \in Seq(Nat)
  <2>1. \A s \in Seq(Positive) : s \in Seq(Nat)
    BY DEF Positive
  <2>2. u.subjects \in Seq(Nat)
    BY <1>1, <2>1
  <2> QED BY <1>1, <2>2
<1>4. /\ h4 \in Seq(Nat)
      /\ Count(h4, n) = BatchIs(u.batchUp, n)
  <2>1. u.batchUp # None => u.batchUp.n \in Nat
    BY <1>1 DEF BatchAsk
  <2> QED BY <2>1, CountOne DEF BatchIs
<1>5. \A m \in Nat : One(m) \in Seq(Nat) /\ Count(One(m), n) = Is(m, n)
  <2> TAKE m \in Nat
  <2>1. One(m) \in Seq(Nat)
    BY DEF One
  <2>2. Count(One(m), n) = Is(m, n)
    BY CountOne DEF One, Positive, Is
  <2> QED BY <2>1, <2>2
<1>6. /\ h6 \in Seq(Nat) /\ Count(h6, n) = Is(u.installUp, n)
      /\ h9 \in Seq(Nat) /\ Count(h9, n) = Is(u.asking, n)
      /\ h10 \in Seq(Nat) /\ Count(h10, n) = Is(u.erasing, n)
  BY <1>1, <1>5
<1>7. /\ Count(h1, n) = Times(u.order, n) /\ Count(h3, n) = Times(u.batches, n)
      /\ Count(h5, n) = Times(u.installs, n) /\ Count(h7, n) = Times(u.polkit, n)
      /\ Count(h2, n) = Count(u.resolved, n) /\ Count(h8, n) = Count(u.subjects, n)
  BY DEF Times
<1>8. Held(u) = h1 \o h2 \o h3 \o h4 \o h5 \o h6 \o h7 \o h8 \o h9 \o h10
  BY DEF Held
<1> HIDE DEF h1, h2, h3, h4, h5, h6, h7, h8, h9, h10
<1>9. \A s, t \in Seq(Nat) : s \o t \in Seq(Nat) /\ Count(s \o t, n) = Count(s, n) + Count(t, n)
  <2> TAKE s, t \in Seq(Nat)
  <2>1. s \o t \in Seq(Nat)
    BY ConcatProperties, Zenon
  <2> QED BY <2>1, CountConcat
<1> DEFINE g2 == h1 \o h2
           g3 == g2 \o h3
           g4 == g3 \o h4
           g5 == g4 \o h5
           g6 == g5 \o h6
           g7 == g6 \o h7
           g8 == g7 \o h8
           g9 == g8 \o h9
           g10 == g9 \o h10
<1>10. g2 \in Seq(Nat) /\ Count(g2, n) = Count(h1, n) + Count(h2, n)
  BY <1>2, <1>3, <1>9
<1>20. Held(u) = g10
  BY <1>8
<1> HIDE DEF g2
<1>11. g3 \in Seq(Nat) /\ Count(g3, n) = Count(g2, n) + Count(h3, n)
  BY <1>2, <1>9, <1>10
<1> HIDE DEF g3
<1>12. g4 \in Seq(Nat) /\ Count(g4, n) = Count(g3, n) + Count(h4, n)
  BY <1>4, <1>9, <1>11
<1> HIDE DEF g4
<1>13. g5 \in Seq(Nat) /\ Count(g5, n) = Count(g4, n) + Count(h5, n)
  BY <1>2, <1>9, <1>12
<1> HIDE DEF g5
<1>14. g6 \in Seq(Nat) /\ Count(g6, n) = Count(g5, n) + Count(h6, n)
  BY <1>6, <1>9, <1>13
<1> HIDE DEF g6
<1>15. g7 \in Seq(Nat) /\ Count(g7, n) = Count(g6, n) + Count(h7, n)
  BY <1>2, <1>9, <1>14
<1> HIDE DEF g7
<1>16. g8 \in Seq(Nat) /\ Count(g8, n) = Count(g7, n) + Count(h8, n)
  BY <1>3, <1>9, <1>15
<1> HIDE DEF g8
<1>17. g9 \in Seq(Nat) /\ Count(g9, n) = Count(g8, n) + Count(h9, n)
  BY <1>6, <1>9, <1>16
<1> HIDE DEF g9
<1>18. Count(g10, n) = Count(g9, n) + Count(h10, n)
  BY <1>6, <1>9, <1>17
<1> HIDE DEF g10
<1>19. /\ Count(g2, n) \in Nat /\ Count(g3, n) \in Nat /\ Count(g4, n) \in Nat
       /\ Count(g5, n) \in Nat /\ Count(g6, n) \in Nat /\ Count(g7, n) \in Nat
       /\ Count(g8, n) \in Nat /\ Count(g9, n) \in Nat
  BY <1>10, <1>11, <1>12, <1>13, <1>14, <1>15, <1>16, <1>17, CountType
<1>21. Parted(u, n) /\ Summed(u, n)
  BY TotalType
<1>22. Count(g2, n) = Consented(u, n)
  BY <1>7, <1>10 DEF Consented
<1>23. Count(g4, n) = Count(g2, n) + Batched(u, n)
  <2>1. /\ Count(g3, n) = Count(g2, n) + Times(u.batches, n)
        /\ Count(g4, n) = Count(g3, n) + BatchIs(u.batchUp, n)
    BY <1>4, <1>7, <1>11, <1>12
  <2>2. Count(g2, n) \in Nat /\ Times(u.batches, n) \in Nat /\ BatchIs(u.batchUp, n) \in Nat
    BY <1>19, <1>21 DEF Parted
  <2>3. Batched(u, n) = Times(u.batches, n) + BatchIs(u.batchUp, n)
    BY DEF Batched
  <2> QED BY <2>1, <2>2, <2>3
<1>24. Count(g6, n) = Count(g4, n) + Installing(u, n)
  <2>1. /\ Count(g5, n) = Count(g4, n) + Times(u.installs, n)
        /\ Count(g6, n) = Count(g5, n) + Is(u.installUp, n)
    BY <1>6, <1>7, <1>13, <1>14
  <2>2. Count(g4, n) \in Nat /\ Times(u.installs, n) \in Nat /\ Is(u.installUp, n) \in Nat
    BY <1>19, <1>21 DEF Parted
  <2>3. Installing(u, n) = Times(u.installs, n) + Is(u.installUp, n)
    BY DEF Installing
  <2> QED BY <2>1, <2>2, <2>3
<1>25. Count(g7, n) = Count(g6, n) + Requested(u, n)
  BY <1>7, <1>15 DEF Requested
<1>26. Count(g9, n) = Count(g7, n) + Commanded(u, n)
  <2>1. /\ Count(g8, n) = Count(g7, n) + Count(u.subjects, n)
        /\ Count(g9, n) = Count(g8, n) + Is(u.asking, n)
    BY <1>6, <1>7, <1>16, <1>17
  <2>2. Count(g7, n) \in Nat /\ Count(u.subjects, n) \in Nat /\ Is(u.asking, n) \in Nat
    BY <1>19, <1>21 DEF Parted
  <2>3. Commanded(u, n) = Count(u.subjects, n) + Is(u.asking, n)
    BY DEF Commanded
  <2> QED BY <2>1, <2>2, <2>3
<1>27. Count(Held(u), n) = Count(g9, n) + Erasing(u, n)
  BY <1>6, <1>18, <1>20 DEF Erasing
<1>28. Over(u, n) = Count(u.answers, n) + In(n, u.gone)
  BY DEF Over
<1>29. Count(Held(u), n) = Consented(u, n) + Batched(u, n) + Installing(u, n)
                            + Requested(u, n) + Commanded(u, n) + Erasing(u, n)
  BY <1>22, <1>23, <1>24, <1>25, <1>26, <1>27
<1>30. Total(u, n) = Count(Held(u), n) + Over(u, n)
  BY <1>29 DEF Total
<1>31. Count(Held(u), n) \in Nat
  BY <1>19, <1>21, <1>27 DEF Summed
<1> QED BY <1>21, <1>28, <1>30, <1>31 DEF Parted

(* An owner's queue is d asks shorter, which are told or withdrawn.        *)
Leaves(u, v, n, g, d) ==
  /\ Consented(u, n) = Consented(v, n) + (IF g = "consent" THEN d ELSE 0)
  /\ Batched(u, n) = Batched(v, n) + (IF g = "batch" THEN d ELSE 0)
  /\ Installing(u, n) = Installing(v, n) + (IF g = "install" THEN d ELSE 0)
  /\ Requested(u, n) = Requested(v, n) + (IF g = "polkit" THEN d ELSE 0)
  /\ Commanded(u, n) = Commanded(v, n) + (IF g = "approval" THEN d ELSE 0)
  /\ Erasing(u, n) = Erasing(v, n) + (IF g = "erase" THEN d ELSE 0)
  /\ Over(v, n) = Over(u, n) + d

(* What leaves a queue for good is still counted once.                     *)
LEMMA LeavesTotal ==
  ASSUME NEW u, NEW v, NEW n, Summed(u, n), Summed(v, n), NEW d \in Nat,
         NEW g \in {"consent", "batch", "install", "polkit", "approval", "erase"},
         Leaves(u, v, n, g, d)
  PROVE  Total(v, n) = Total(u, n)
<1> DEFINE a1 == Consented(u, n)
           a2 == Batched(u, n)
           a3 == Installing(u, n)
           a4 == Requested(u, n)
           a5 == Commanded(u, n)
           a6 == Erasing(u, n)
           a7 == Over(u, n)
           b1 == Consented(v, n)
           b2 == Batched(v, n)
           b3 == Installing(v, n)
           b4 == Requested(v, n)
           b5 == Commanded(v, n)
           b6 == Erasing(v, n)
           b7 == Over(v, n)
<1>1. /\ a1 \in Nat /\ a2 \in Nat /\ a3 \in Nat /\ a4 \in Nat /\ a5 \in Nat /\ a6 \in Nat
      /\ b1 \in Nat /\ b2 \in Nat /\ b3 \in Nat /\ b4 \in Nat /\ b5 \in Nat /\ b6 \in Nat
      /\ a7 \in Nat
  BY DEF Summed
<1>2. /\ a1 = b1 + (IF g = "consent" THEN d ELSE 0)
      /\ a2 = b2 + (IF g = "batch" THEN d ELSE 0)
      /\ a3 = b3 + (IF g = "install" THEN d ELSE 0)
      /\ a4 = b4 + (IF g = "polkit" THEN d ELSE 0)
      /\ a5 = b5 + (IF g = "approval" THEN d ELSE 0)
      /\ a6 = b6 + (IF g = "erase" THEN d ELSE 0)
      /\ b7 = a7 + d
  BY DEF Leaves
<1>3. /\ Total(u, n) = a1 + a2 + a3 + a4 + a5 + a6 + a7
      /\ Total(v, n) = b1 + b2 + b3 + b4 + b5 + b6 + b7
  BY DEF Total
<1> HIDE DEF a1, a2, a3, a4, a5, a6, a7, b1, b2, b3, b4, b5, b6, b7
<1>4. a1 + a2 + a3 + a4 + a5 + a6 + a7 = b1 + b2 + b3 + b4 + b5 + b6 + b7
  <2>1. CASE g = "consent"
    BY <1>1, <1>2, <2>1
  <2>2. CASE g = "batch"
    BY <1>1, <1>2, <2>2
  <2>3. CASE g = "install"
    BY <1>1, <1>2, <2>3
  <2>4. CASE g = "polkit"
    BY <1>1, <1>2, <2>4
  <2>5. CASE g = "approval"
    BY <1>1, <1>2, <2>5
  <2>6. CASE g = "erase"
    BY <1>1, <1>2, <2>6
  <2> QED BY <2>1, <2>2, <2>3, <2>4, <2>5, <2>6
<1> QED BY <1>3, <1>4

(* An ask that is answered is told.                                        *)
LEMMA OverTold ==
  ASSUME NEW u \in State, NEW v, NEW m \in Nat, NEW n,
         v.answers = Append(u.answers, m), v.gone = u.gone
  PROVE  Over(v, n) = Over(u, n) + Is(m, n)
<1>1. Count(v.answers, n) = Count(u.answers, n) + Is(m, n)
  <2> DEFINE q == u.answers
  <2>1. q \in Seq(Nat)
    BY DEF State
  <2> HIDE DEF q
  <2>2. Count(Append(q, m), n) = Count(q, n) + Is(m, n)
    BY <2>1, CountAppend DEF Is
  <2> QED BY <2>2 DEF q
<1>2. Count(u.answers, n) \in Nat /\ In(n, u.gone) \in Nat /\ Is(m, n) \in Nat
  BY TotalType DEF Parted, Is
<1> QED BY <1>1, <1>2 DEF Over

(* Asks that are withdrawn for the first time.                             *)
LEMMA OverGone ==
  ASSUME NEW u \in State, NEW v, NEW S, NEW n,
         v.answers = u.answers, v.gone = u.gone \cup S, n \in S => n \notin u.gone
  PROVE  Over(v, n) = Over(u, n) + In(n, S)
<1>1. In(n, v.gone) = In(n, u.gone) + In(n, S)
  BY DEF In
<1>2. Count(u.answers, n) \in Nat /\ In(n, u.gone) \in Nat /\ In(n, S) \in Nat
  BY TotalType DEF Parted, In
<1> QED BY <1>1, <1>2 DEF Over

(* No ask is in two places, and the consent on screen still waits for its  *)
(* verdict.                                                                *)
Shows(u)    == u.showing # 0 => Times(u.order, u.showing) # 0
Whole(u)    == (\A n \in Positive : Total(u, n) <= 1) /\ Shows(u)

(* What a function of the code does to the asks: it moves them.            *)
Moves(u, v) == Whole(u) => Shows(v) /\ \A n \in Positive : Total(v, n) = Total(u, n)

(* What one function moves and the next moves, both move.                  *)
LEMMA MovesTrans ==
  ASSUME NEW u, NEW v, NEW w, Moves(u, v), Moves(v, w) PROVE Moves(u, w)
BY DEF Moves, Whole

(* What is moved is still in one place.                                    *)
LEMMA MovesWhole ==
  ASSUME NEW u, NEW v, Moves(u, v), Whole(u) PROVE Whole(v)
BY DEF Moves, Whole

(* A function that touches no queue.                                       *)
Silent(u, v) ==
  /\ v.order = u.order /\ v.showing = u.showing /\ v.resolved = u.resolved
  /\ v.batches = u.batches /\ v.batchUp = u.batchUp /\ v.installs = u.installs
  /\ v.installUp = u.installUp /\ v.subjects = u.subjects /\ v.asking = u.asking
  /\ v.erasing = u.erasing /\ v.answers = u.answers /\ v.gone = u.gone
  /\ \A n \in Positive : Times(v.polkit, n) = Times(u.polkit, n)

(* It moves no ask.                                                        *)
LEMMA SilentMoves ==
  ASSUME NEW u, NEW v, Silent(u, v) PROVE Moves(u, v)
<1>1. Shows(u) => Shows(v)
  BY DEF Silent, Shows
<1>2. \A n \in Positive : Total(v, n) = Total(u, n)
  BY DEF Silent, Total, Consented, Batched, Installing, Requested, Commanded, Erasing, Over
<1> QED BY <1>1, <1>2 DEF Moves, Whole

(* Nor does doing nothing.                                                 *)
LEMMA MovesSelf == ASSUME NEW u PROVE Moves(u, u)
BY DEF Moves, Whole

(* open takes the seat, and sets a timer.                                  *)
LEMMA OpenMoves ==
  ASSUME NEW u \in State, NEW by \in AllKinds, NEW n \in Nat
  PROVE  Silent(u, Open(u, by, n))
<1> DEFINE o == Open(u, by, n)
           t == [by |-> by, n |-> n]
           q == Append(u.timers, t)
<1>1. o = [u EXCEPT !.seat = t, !.timers = q]
  BY ZenonT(30), OpenIs
<1> HIDE DEF o, t, q
<1>2. Silent(u, o)
  BY <1>1 DEF State, Silent
<1> QED BY <1>2 DEF o

(* polkit.rs schedule: the front request stays in front.                   *)
LEMMA PolkitScheduleMoves ==
  ASSUME NEW u \in State
  PROVE  Silent(u, PolkitSchedule(u)) /\ Moves(u, PolkitSchedule(u))
<1> DEFINE v == PolkitSchedule(u)
           i == Fresh(u)
<1>1. CASE ~Free(u) \/ u.polkit = <<>> \/ Head(u.polkit).stage # "waiting"
  <2>1. v = u
    BY <1>1 DEF PolkitSchedule
  <2> QED BY <2>1, SilentMoves DEF Silent
<1>2. CASE Free(u) /\ u.polkit # <<>> /\ Head(u.polkit).stage = "waiting"
  <2> DEFINE t == [by |-> "polkit", n |-> i]
             p == [u.polkit EXCEPT ![1].stage = "prompting", ![1].token = i]
  <2> HIDE DEF i
  <2>1. v = [[[u EXCEPT !.seat = t, !.timers = Append(@, t)]
               EXCEPT !.polkit[1].stage = "prompting"] EXCEPT !.polkit[1].token = i]
    BY <1>2 DEF PolkitSchedule, Open, i
  <2>2. v = [u EXCEPT !.seat = t, !.timers = Append(@, t), !.polkit = p]
    BY <2>1 DEF State
  <2>3. \A n \in Positive : Times(p, n) = Times(u.polkit, n)
    <3> TAKE n \in Positive
    <3>1. u.polkit \in Seq(Requests) /\ u.polkit[1] \in Requests
      BY <1>2 DEF State
    <3>2. DOMAIN p = DOMAIN u.polkit /\ \A k \in DOMAIN p : p[k].n = u.polkit[k].n
      BY <3>1 DEF Requests
    <3> HIDE DEF p
    <3> QED BY <3>2, TimesSame
  <2> HIDE DEF p, t, v
  <2>4. Silent(u, v)
    BY <2>2, <2>3 DEF State, Silent
  <2> QED BY <2>4, SilentMoves DEF v
<1> QED BY <1>1, <1>2

(* cancel: only the seat.                                                  *)
LEMMA CancelMoves ==
  ASSUME NEW u \in State, NEW by, NEW n
  PROVE  Silent(u, Cancel(u, by, n)) /\ Moves(u, Cancel(u, by, n))
<1> DEFINE d == [u EXCEPT !.seat = None]
           v == Cancel(u, by, n)
<1>1. CASE IsUp(u, by, n)
  <2>1. d \in State /\ Silent(u, d)
    BY DEF State, Silent
  <2>2. v = PolkitSchedule(d)
    BY <1>1 DEF Cancel
  <2> HIDE DEF d, v
  <2>3. Silent(d, PolkitSchedule(d))
    BY <2>1, PolkitScheduleMoves
  <2>4. Silent(u, v)
    BY <2>1, <2>2, <2>3 DEF Silent
  <2> QED BY <2>4, SilentMoves DEF v
<1>2. CASE ~IsUp(u, by, n)
  <2>1. v = u
    BY <1>2 DEF Cancel
  <2> QED BY <2>1, SilentMoves DEF Silent
<1> QED BY <1>1, <1>2

(* polkit.rs finish: the front request is told.                            *)
LEMMA PolkitFinishMoves ==
  ASSUME NEW u \in State, u.polkit # <<>>
  PROVE  Moves(u, PolkitFinish(u))
<1> DEFINE m == Head(u.polkit).n
           p == Tail(u.polkit)
           a == Append(u.answers, m)
           w == Answered([u EXCEPT !.polkit = Tail(@)], m)
<1>1. u.polkit \in Seq(Requests) /\ Head(u.polkit) \in Requests /\ p \in Seq(Requests)
      /\ u.answers \in Seq(Nat)
  <2>1. u.polkit \in Seq(Requests) /\ u.answers \in Seq(Nat)
    BY DEF State
  <2> QED BY <2>1
<1>2. m \in Nat
  BY <1>1 DEF Requests
<1>3. w = [u EXCEPT !.polkit = p, !.answers = a]
  BY DEF Answered, State
<1>4. \A n \in Positive : Times(u.polkit, n) = Times(p, n) + Is(m, n)
  BY <1>1, QueuesHaveNumbers, TimesTail DEF Is
<1>6. PolkitFinish(u) = PolkitSchedule(w)
  BY DEF PolkitFinish
<1> HIDE DEF w
<1>7. w \in State
  <2>1. a \in Seq(Nat) /\ p \in Seq(Requests)
    BY <1>1, <1>2
  <2> HIDE DEF a, p
  <2> QED BY <1>3, <2>1 DEF State
<1> HIDE DEF m, p, a
<1>8. /\ w.order = u.order /\ w.showing = u.showing /\ w.resolved = u.resolved
      /\ w.batches = u.batches /\ w.batchUp = u.batchUp /\ w.installs = u.installs
      /\ w.installUp = u.installUp /\ w.subjects = u.subjects /\ w.asking = u.asking
      /\ w.erasing = u.erasing /\ w.answers = a /\ w.gone = u.gone /\ w.polkit = p
  BY <1>3 DEF State
<1>9. \A n \in Positive : Total(w, n) = Total(u, n)
  <2> TAKE n \in Positive
  <2>1. Summed(u, n) /\ Summed(w, n) /\ Is(m, n) \in Nat
    BY <1>7, TotalType DEF Is
  <2>2. Over(w, n) = Over(u, n) + Is(m, n)
    BY <1>2, <1>8, OverTold DEF a
  <2>3. Requested(u, n) = Requested(w, n) + Is(m, n)
    BY <1>4, <1>8 DEF Requested
  <2>4. /\ Consented(w, n) = Consented(u, n) /\ Batched(w, n) = Batched(u, n)
        /\ Installing(w, n) = Installing(u, n) /\ Commanded(w, n) = Commanded(u, n)
        /\ Erasing(w, n) = Erasing(u, n)
    BY <1>8 DEF Consented, Batched, Installing, Commanded, Erasing
  <2>5. Leaves(u, w, n, "polkit", Is(m, n))
    BY <2>1, <2>2, <2>3, <2>4 DEF Leaves, Summed
  <2> QED BY <2>1, <2>5, LeavesTotal
<1>10. Moves(u, w)
  BY <1>8, <1>9 DEF Moves, Whole, Shows
<1> QED BY <1>6, <1>7, <1>10, PolkitScheduleMoves, MovesTrans

(* A verdict leaves the queue for the outbox.                              *)
LEMMA SettleMoves ==
  ASSUME NEW u \in State, NEW m \in Positive, u.showing \in {0, m}, Times(u.order, m) # 0
  PROVE  Moves(u, Settle(u, m))
<1> DEFINE out == Numbered(u.order, m)
           o == Without(u.order, out)
           r == Append(u.resolved, m)
           v == Settle(u, m)
<1>1. m \in Nat /\ u.order \in Seq(Consents) /\ u.resolved \in Seq(Nat)
  BY DEF State, Positive
<1>2. v \in State /\ v = [u EXCEPT !.order = o, !.showing = 0, !.resolved = r]
  <2>1. v \in State
    BY <1>1, SettleIs
  <2>2. v = [u EXCEPT !.order = o, !.showing = IF u.showing = m THEN 0 ELSE u.showing,
                      !.resolved = r]
    BY <1>1, SettleIs
  <2>3. (IF u.showing = m THEN 0 ELSE u.showing) = 0
    OBVIOUS
  <2> QED BY <2>1, <2>2, <2>3
<1>3. \A n \in Positive : Count(r, n) = Count(u.resolved, n) + Is(m, n)
  BY <1>1, CountAppend DEF Is
<1>4. out \in SUBSET ToSet(u.order) /\ \A n \in Positive : n \in Numbers(out) => n = m
  BY DEF Numbered, Numbers
<1>5. m \in Numbers(out)
  <2>1. PICK i \in 1..Len(u.order) : u.order[i].n = m
    BY <1>1, QueuesHaveNumbers, TimesNone
  <2>2. u.order[i] \in out
    BY <2>1 DEF Numbered, ToSet
  <2> QED BY <2>1, <2>2 DEF Numbers
<1>6. \A n \in Positive : Times(u.order, n) <= 1 =>
        Times(u.order, n) = Times(o, n) + Is(m, n)
  <2> TAKE n \in Positive
  <2> HAVE Times(u.order, n) <= 1
  <2>1. Times(u.order, n) = Times(o, n) + In(n, Numbers(out))
    BY <1>1, <1>4, QueuesHaveNumbers, TimesTaken
  <2>2. n \in Numbers(out) <=> m = n
    BY <1>4, <1>5
  <2> QED BY <2>1, <2>2 DEF In, Is
<1> HIDE DEF out, o, r, v
<1>7. /\ v.order = o /\ v.showing = 0 /\ v.resolved = r
      /\ v.batches = u.batches /\ v.batchUp = u.batchUp /\ v.installs = u.installs
      /\ v.installUp = u.installUp /\ v.subjects = u.subjects /\ v.asking = u.asking
      /\ v.erasing = u.erasing /\ v.answers = u.answers /\ v.gone = u.gone
      /\ v.polkit = u.polkit
  BY <1>2 DEF State
<1>8. ASSUME Whole(u), NEW n \in Positive PROVE Total(v, n) = Total(u, n)
  <2>1. Total(u, n) <= 1
    BY <1>8 DEF Whole
  <2>2. Times(u.order, n) <= 1
    <3>1. Parted(u, n) /\ Summed(u, n)
      BY TotalType
    <3>2. Consented(u, n) <= Total(u, n)
      BY <3>1 DEF Total, Summed
    <3> QED BY <2>1, <3>1, <3>2 DEF Consented, Parted, Summed
  <2>3. /\ Total(v, n) = Consented(v, n) + Batched(u, n) + Installing(u, n) + Requested(u, n)
                            + Commanded(u, n) + Erasing(u, n) + Over(u, n)
    BY <1>7 DEF Total, Batched, Installing, Requested, Commanded, Erasing, Over
  <2>4. Consented(v, n) = Consented(u, n)
    <3>1. /\ Times(v.order, n) + Is(m, n) = Times(u.order, n)
          /\ Count(v.resolved, n) = Count(u.resolved, n) + Is(m, n)
      BY <1>3, <1>6, <1>7, <2>2
    <3>2. /\ Times(u.order, n) \in Nat /\ Times(v.order, n) \in Nat
          /\ Count(u.resolved, n) \in Nat /\ Is(m, n) \in Nat
      BY <1>2, TotalType DEF Parted, Is
    <3> QED BY <3>1, <3>2 DEF Consented
  <2> QED BY <2>3, <2>4 DEF Total
<1>9. Moves(u, v)
  BY <1>7, <1>8 DEF Moves, Shows
<1> QED BY <1>9 DEF v

(* drain: the outbox is told.                                              *)
LEMMA DrainMoves ==
  ASSUME NEW u \in State
  PROVE  Moves(u, Drain(u))
<1> DEFINE a == u.answers \o u.resolved
           v == Drain(u)
<1>1. u.answers \in Seq(Nat) /\ u.resolved \in Seq(Nat)
  BY DEF State
<1>2. v = [u EXCEPT !.answers = a, !.resolved = <<>>]
  BY DEF Drain, State
<1>3. \A n \in Positive : Count(a, n) = Count(u.answers, n) + Count(u.resolved, n)
  BY <1>1, CountConcat
<1>7. v \in State
  <2>1. a \in Seq(Nat) /\ <<>> \in Seq(Nat)
    BY <1>1
  <2> HIDE DEF a, v
  <2> QED BY <1>2, <2>1 DEF State
<1> HIDE DEF a, v
<1>4. /\ v.order = u.order /\ v.showing = u.showing /\ v.resolved = <<>>
      /\ v.batches = u.batches /\ v.batchUp = u.batchUp /\ v.installs = u.installs
      /\ v.installUp = u.installUp /\ v.subjects = u.subjects /\ v.asking = u.asking
      /\ v.erasing = u.erasing /\ v.answers = a /\ v.gone = u.gone
      /\ v.polkit = u.polkit
  BY <1>2 DEF State
<1>5. \A n \in Positive : Total(v, n) = Total(u, n)
  <2> TAKE n \in Positive
  <2>1. Count(<<>>, n) = 0
    BY CountOne
  <2>2. /\ Batched(v, n) = Batched(u, n) /\ Installing(v, n) = Installing(u, n)
        /\ Requested(v, n) = Requested(u, n) /\ Commanded(v, n) = Commanded(u, n)
        /\ Erasing(v, n) = Erasing(u, n)
    BY <1>4 DEF Batched, Installing, Requested, Commanded, Erasing
  <2>3. Parted(u, n) /\ Summed(u, n) /\ Summed(v, n)
    BY <1>7, TotalType
  <2>4. Consented(u, n) = Consented(v, n) + Count(u.resolved, n)
    BY <1>4, <2>1, <2>3 DEF Consented, Parted
  <2>5. Over(v, n) = Over(u, n) + Count(u.resolved, n)
    <3>1. /\ Over(v, n) = (Count(u.answers, n) + Count(u.resolved, n)) + In(n, u.gone)
          /\ Over(u, n) = Count(u.answers, n) + In(n, u.gone)
      BY <1>3, <1>4 DEF Over
    <3>2. Count(u.answers, n) \in Nat /\ Count(u.resolved, n) \in Nat /\ In(n, u.gone) \in Nat
      BY <2>3 DEF Parted
    <3> QED BY <3>1, <3>2
  <2>6. Count(u.resolved, n) \in Nat
    BY <2>3 DEF Parted
  <2>7. Leaves(u, v, n, "consent", Count(u.resolved, n))
    BY <2>2, <2>3, <2>4, <2>5 DEF Leaves, Summed
  <2> QED BY <2>3, <2>6, <2>7, LeavesTotal
<1>6. Moves(u, v)
  BY <1>4, <1>5 DEF Moves, Whole, Shows
<1> QED BY <1>6 DEF v

(* An ask that is in one place is in no other.                             *)
LEMMA AtMostOnce ==
  ASSUME NEW u \in State, NEW n, Total(u, n) <= 1
  PROVE  /\ Consented(u, n) <= 1 /\ Batched(u, n) <= 1 /\ Installing(u, n) <= 1
         /\ Requested(u, n) <= 1 /\ Commanded(u, n) <= 1 /\ Erasing(u, n) <= 1
         /\ \/ Consented(u, n) # 0 \/ Batched(u, n) # 0 \/ Installing(u, n) # 0
            \/ Requested(u, n) # 0 \/ Commanded(u, n) # 0 \/ Erasing(u, n) # 0
            => n \notin u.gone /\ Over(u, n) = 0
<1> DEFINE a1 == Consented(u, n)
           a2 == Batched(u, n)
           a3 == Installing(u, n)
           a4 == Requested(u, n)
           a5 == Commanded(u, n)
           a6 == Erasing(u, n)
           a7 == Over(u, n)
<1>1. /\ a1 \in Nat /\ a2 \in Nat /\ a3 \in Nat /\ a4 \in Nat /\ a5 \in Nat /\ a6 \in Nat
      /\ a7 \in Nat
  BY TotalType DEF Summed
<1>2. a1 + a2 + a3 + a4 + a5 + a6 + a7 <= 1
  BY DEF Total
<1>3. n \in u.gone => a7 # 0
  <2>1. Count(u.answers, n) \in Nat
    BY TotalType DEF Parted
  <2> QED BY <2>1 DEF Over, In
<1> HIDE DEF a1, a2, a3, a4, a5, a6, a7
<1>4. /\ a1 <= 1 /\ a2 <= 1 /\ a3 <= 1 /\ a4 <= 1 /\ a5 <= 1 /\ a6 <= 1
      /\ a1 # 0 \/ a2 # 0 \/ a3 # 0 \/ a4 # 0 \/ a5 # 0 \/ a6 # 0 => a7 = 0
  BY <1>1, <1>2
<1> QED BY <1>3, <1>4 DEF a1, a2, a3, a4, a5, a6, a7

(* The front of a queue is in it.                                          *)
LEMMA HeadIsThere ==
  ASSUME NEW V, HaveNumbers(V), NEW s \in Seq(V), s # <<>>
  PROVE  Times(s, Head(s).n) # 0
<1>1. 1 \in 1..Len(s) /\ s[1] = Head(s)
  OBVIOUS
<1> QED BY <1>1, TimesNone

(* consent.rs schedule.                                                    *)
LEMMA ConsentScheduleMoves ==
  ASSUME NEW u \in State
  PROVE  Moves(u, ConsentSchedule(u))
<1> DEFINE v == ConsentSchedule(u)
           p == Head(u.order)
<1>1. CASE ~Free(u) \/ u.showing # 0 \/ u.order = <<>>
  BY <1>1, MovesSelf DEF ConsentSchedule
<1>2. CASE Free(u) /\ u.showing = 0 /\ u.order # <<>>
  <2>1. p \in Consents /\ p.n \in Positive /\ p.n \in Nat
    <3>1. u.order \in Seq(Consents)
      BY DEF State
    <3>2. p \in Consents
      BY <1>2, <3>1
    <3> QED BY <3>2 DEF Consents, Positive
  <2>2. Times(u.order, p.n) # 0
    <3>1. u.order \in Seq(Consents)
      BY DEF State
    <3> QED BY <1>2, <3>1, QueuesHaveNumbers, HeadIsThere
  <2>3. CASE p.drawable
    <3> DEFINE o == Open(u, "consent", p.n)
    <3>1. o \in State /\ Silent(u, o)
      BY <2>1, OpenIs, OpenMoves DEF AllKinds
    <3>2. v = [o EXCEPT !.showing = p.n]
      BY <1>2, <2>3 DEF ConsentSchedule
    <3> HIDE DEF o, p, v
    <3>3. /\ v.showing = p.n /\ v.order = o.order /\ v.resolved = o.resolved
          /\ v.batches = o.batches /\ v.batchUp = o.batchUp /\ v.installs = o.installs
          /\ v.installUp = o.installUp /\ v.subjects = o.subjects /\ v.asking = o.asking
          /\ v.erasing = o.erasing /\ v.answers = o.answers /\ v.gone = o.gone
          /\ v.polkit = o.polkit
      BY <3>1, <3>2 DEF State
    <3>4. \A n \in Positive : Total(v, n) = Total(o, n)
      BY <3>3 DEF Total, Consented, Batched, Installing, Requested, Commanded, Erasing, Over
    <3>5. v.order = u.order
      BY <3>1, <3>3 DEF Silent
    <3>6. Shows(v)
      BY <2>2, <3>3, <3>5 DEF Shows
    <3>7. Moves(u, v)
      BY <3>1, <3>4, <3>6, SilentMoves DEF Moves
    <3> QED BY <3>7 DEF v
  <2>4. CASE ~p.drawable
    <3>1. v = Settle(u, p.n)
      BY <1>2, <2>4 DEF ConsentSchedule
    <3> HIDE DEF p, v
    <3>2. Moves(u, v)
      BY <1>2, <2>1, <2>2, <3>1, SettleMoves
    <3> QED BY <3>2 DEF v
  <2> QED BY <2>3, <2>4
<1> QED BY <1>1, <1>2

(* batch.rs schedule.                                                      *)
LEMMA BatchScheduleMoves ==
  ASSUME NEW u \in State
  PROVE  Moves(u, BatchSchedule(u))
<1> DEFINE v == BatchSchedule(u)
           p == Head(u.batches)
           t == Tail(u.batches)
<1>1. CASE ~Free(u) \/ u.batchUp # None \/ u.batches = <<>>
  BY <1>1, MovesSelf DEF BatchSchedule
<1>2. CASE Free(u) /\ u.batchUp = None /\ u.batches # <<>>
  <2>1. p \in BatchAsk /\ p.n \in Nat /\ p # None /\ t \in Seq(BatchAsk)
    <3>1. u.batches \in Seq(BatchAsk)
      BY DEF State
    <3>2. p \in BatchAsk /\ t \in Seq(BatchAsk)
      BY <1>2, <3>1
    <3> QED BY <3>2, NoneIsNothing DEF BatchAsk
  <2>2. \A n \in Positive : /\ Times(u.batches, n) = Times(t, n) + Is(p.n, n)
                            /\ Times(t, n) \in Nat
    <3>1. u.batches \in Seq(BatchAsk)
      BY DEF State
    <3> QED BY <1>2, <2>1, <3>1, QueuesHaveNumbers, TimesTail, TimesType DEF Is
  <2> DEFINE o == Open(u, "batch", p.n)
  <2>3. o \in State /\ Silent(u, o)
    BY <2>1, OpenIs, OpenMoves DEF AllKinds
  <2>4. v = [o EXCEPT !.batches = Tail(@), !.batchUp = p]
    BY <1>2 DEF BatchSchedule
  <2>5. v = [o EXCEPT !.batches = t, !.batchUp = p]
    BY <2>3, <2>4 DEF State, Silent
  <2> HIDE DEF o, p, t, v
  <2>6. /\ v.showing = o.showing /\ v.order = o.order /\ v.resolved = o.resolved
        /\ v.batches = t /\ v.batchUp = p /\ v.installs = o.installs
        /\ v.installUp = o.installUp /\ v.subjects = o.subjects /\ v.asking = o.asking
        /\ v.erasing = o.erasing /\ v.answers = o.answers /\ v.gone = o.gone
        /\ v.polkit = o.polkit
    BY <2>3, <2>5 DEF State
  <2>7. \A n \in Positive : Total(v, n) = Total(o, n)
    <3> TAKE n \in Positive
    <3>1. Batched(v, n) = Times(t, n) + BatchIs(p, n)
      BY <2>6 DEF Batched
    <3>2. Batched(o, n) = Times(u.batches, n) + BatchIs(None, n)
      BY <1>2, <2>3 DEF Batched, Silent
    <3>3. BatchIs(p, n) = Is(p.n, n) /\ BatchIs(None, n) = 0 /\ Is(p.n, n) \in Nat
      BY <2>1 DEF BatchIs, Is
    <3>4. Batched(v, n) = Batched(o, n)
      BY <2>2, <3>1, <3>2, <3>3
    <3> QED BY <2>6, <3>4 DEF Total, Consented, Installing, Requested, Commanded, Erasing, Over
  <2>8. Moves(o, v)
    BY <2>6, <2>7 DEF Moves, Whole, Shows
  <2>9. Moves(u, v)
    BY <2>3, <2>8, SilentMoves, MovesTrans
  <2> QED BY <2>9 DEF v
<1> QED BY <1>1, <1>2

(* install.rs schedule.                                                    *)
LEMMA InstallScheduleMoves ==
  ASSUME NEW u \in State
  PROVE  Moves(u, InstallSchedule(u))
<1> DEFINE v == InstallSchedule(u)
           p == Head(u.installs)
           t == Tail(u.installs)
           q == [u EXCEPT !.installs = t]
<1>1. CASE ~Free(u) \/ u.installUp # 0 \/ u.installs = <<>>
  BY <1>1, MovesSelf DEF InstallSchedule
<1>2. CASE Free(u) /\ u.installUp = 0 /\ u.installs # <<>>
  <2>0. u.installs \in Seq(Reviews)
    BY DEF State
  <2>1. p \in Reviews /\ p.n \in Nat /\ t \in Seq(Reviews)
    <3>1. p \in Reviews /\ t \in Seq(Reviews)
      BY <1>2, <2>0
    <3> QED BY <3>1 DEF Reviews, Positive
  <2>2. \A n \in Positive : /\ Times(u.installs, n) = Times(t, n) + Is(p.n, n)
                            /\ Times(t, n) \in Nat
    BY <1>2, <2>0, <2>1, QueuesHaveNumbers, TimesTail, TimesType DEF Is
  <2>3. [u EXCEPT !.installs = Tail(@)] = q
    BY DEF State
  <2> HIDE DEF t
  <2>4. /\ q \in State /\ q.showing = u.showing /\ q.order = u.order /\ q.resolved = u.resolved
        /\ q.batches = u.batches /\ q.batchUp = u.batchUp /\ q.installs = t
        /\ q.installUp = u.installUp /\ q.subjects = u.subjects /\ q.asking = u.asking
        /\ q.erasing = u.erasing /\ q.answers = u.answers /\ q.gone = u.gone
        /\ q.polkit = u.polkit
    BY <2>1 DEF State
  <2> HIDE DEF q
  <2>5. CASE p.drawable
    <3> DEFINE o == Open(q, "install", p.n)
    <3>1. o \in State /\ Silent(q, o)
      BY <2>1, <2>4, OpenIs, OpenMoves DEF AllKinds
    <3>2. v = [o EXCEPT !.installUp = p.n]
      BY <1>2, <2>3, <2>5 DEF InstallSchedule
    <3> HIDE DEF o, p, v
    <3>3. /\ v.showing = o.showing /\ v.order = o.order /\ v.resolved = o.resolved
          /\ v.batches = o.batches /\ v.batchUp = o.batchUp /\ v.installs = o.installs
          /\ v.installUp = p.n /\ v.subjects = o.subjects /\ v.asking = o.asking
          /\ v.erasing = o.erasing /\ v.answers = o.answers /\ v.gone = o.gone
          /\ v.polkit = o.polkit
      BY <3>1, <3>2 DEF State
    <3>5. \A n \in Positive : Total(v, n) = Total(u, n)
      <4> TAKE n \in Positive
      <4>1. Installing(v, n) = Times(t, n) + Is(p.n, n)
        BY <2>4, <3>1, <3>3 DEF Installing, Silent
      <4>2. Installing(u, n) = Times(u.installs, n) + 0
        BY <1>2 DEF Installing, Is, Positive
      <4>3. Is(p.n, n) \in Nat
        BY DEF Is
      <4>4. Installing(v, n) = Installing(u, n)
        BY <2>2, <4>1, <4>2, <4>3
      <4>5. /\ Consented(v, n) = Consented(u, n) /\ Batched(v, n) = Batched(u, n)
            /\ Requested(v, n) = Requested(u, n) /\ Commanded(v, n) = Commanded(u, n)
            /\ Erasing(v, n) = Erasing(u, n) /\ Over(v, n) = Over(u, n)
        BY <2>4, <3>1, <3>3 DEF Silent, Consented, Batched, Requested, Commanded, Erasing, Over
      <4> QED BY <4>4, <4>5 DEF Total
    <3>6. v.showing = u.showing /\ v.order = u.order
      BY <2>4, <3>1, <3>3 DEF Silent
    <3>7. Moves(u, v)
      BY <3>5, <3>6 DEF Moves, Whole, Shows
    <3> QED BY <3>7 DEF v
  <2>6. CASE ~p.drawable
    <3> DEFINE a == Append(q.answers, p.n)
    <3>1. v = Answered(q, p.n)
      BY <1>2, <2>3, <2>6 DEF InstallSchedule
    <3>2. v = [q EXCEPT !.answers = a]
      BY <2>4, <3>1 DEF Answered, State
    <3>3. a \in Seq(Nat)
      BY <2>1, <2>4 DEF State
    <3> HIDE DEF a, p, v
    <3>4. /\ v \in State /\ v.showing = q.showing /\ v.order = q.order /\ v.resolved = q.resolved
          /\ v.batches = q.batches /\ v.batchUp = q.batchUp /\ v.installs = q.installs
          /\ v.installUp = q.installUp /\ v.subjects = q.subjects /\ v.asking = q.asking
          /\ v.erasing = q.erasing /\ v.answers = a /\ v.gone = q.gone
          /\ v.polkit = q.polkit
      BY <2>4, <3>2, <3>3 DEF State
    <3>5. \A n \in Positive : Total(v, n) = Total(u, n)
      <4> TAKE n \in Positive
      <4>1. Summed(u, n) /\ Summed(v, n) /\ Is(p.n, n) \in Nat
        BY <3>4, TotalType DEF Is
      <4>2. Over(v, n) = Over(u, n) + Is(p.n, n)
        <5> DEFINE m == p.n
        <5>1. m \in Nat /\ v.answers = Append(u.answers, m) /\ v.gone = u.gone
          BY <2>1, <2>4, <3>4 DEF a
        <5> HIDE DEF m
        <5>2. Over(v, n) = Over(u, n) + Is(m, n)
          BY <5>1, OverTold
        <5> QED BY <5>2 DEF m
      <4>3. Installing(u, n) = Installing(v, n) + Is(p.n, n)
        <5>1. Installing(v, n) = Times(t, n) + 0
          BY <1>2, <2>4, <3>4 DEF Installing, Is, Positive
        <5>2. Installing(u, n) = Times(u.installs, n) + 0
          BY <1>2 DEF Installing, Is, Positive
        <5> QED BY <2>2, <4>1, <5>1, <5>2
      <4>4. /\ Consented(v, n) = Consented(u, n) /\ Batched(v, n) = Batched(u, n)
            /\ Requested(v, n) = Requested(u, n) /\ Commanded(v, n) = Commanded(u, n)
            /\ Erasing(v, n) = Erasing(u, n)
        BY <2>4, <3>4 DEF Consented, Batched, Requested, Commanded, Erasing
      <4>5. Leaves(u, v, n, "install", Is(p.n, n))
        BY <4>1, <4>2, <4>3, <4>4 DEF Leaves, Summed
      <4> QED BY <4>1, <4>5, LeavesTotal
    <3>6. Moves(u, v)
      BY <2>4, <3>4, <3>5 DEF Moves, Whole, Shows
    <3> QED BY <3>6 DEF v
  <2> QED BY <2>5, <2>6
<1> QED BY <1>1, <1>2

(* show, and schedule: the secret store asks for nothing that is numbered. *)
LEMMA BrokerShowMoves ==
  ASSUME NEW u \in State
  PROVE  Moves(u, BrokerShow(u))
<1> DEFINE v == BrokerShow(u)
           o == Open(u, "broker", 0)
<1>1. CASE Free(u)
  <2>1. o \in State /\ Silent(u, o)
    BY OpenIs, OpenMoves DEF AllKinds
  <2>2. v = [o EXCEPT !.brokerUp = TRUE]
    BY <1>1 DEF BrokerShow
  <2> HIDE DEF o, v
  <2>3. Silent(u, v)
    BY <2>1, <2>2 DEF State, Silent
  <2> QED BY <2>3, SilentMoves DEF v
<1>2. CASE ~Free(u)
  <2>1. v = [u EXCEPT !.brokerQueued = TRUE]
    BY <1>2 DEF BrokerShow
  <2> HIDE DEF v
  <2>2. Silent(u, v)
    BY <2>1 DEF State, Silent
  <2> QED BY <2>2, SilentMoves DEF v
<1> QED BY <1>1, <1>2

(* broker.rs schedule, likewise.                                           *)
LEMMA BrokerScheduleMoves ==
  ASSUME NEW u \in State
  PROVE  Moves(u, BrokerSchedule(u))
<1> DEFINE q == [u EXCEPT !.brokerQueued = FALSE]
<1>1. q \in State /\ Silent(u, q)
  BY DEF State, Silent
<1>2. BrokerSchedule(u) = u \/ BrokerSchedule(u) = BrokerShow(q)
  BY DEF BrokerSchedule
<1> HIDE DEF q
<1>3. Moves(u, BrokerShow(q))
  BY <1>1, SilentMoves, BrokerShowMoves, MovesTrans
<1> QED BY <1>2, <1>3, MovesSelf

(* batch.rs withdraw: what waits, and what is up.                          *)
LEMMA BatchWithdrawMoves ==
  ASSUME NEW u \in State, NEW a
  PROVE  Moves(u, BatchWithdraw(u, a))
<1> DEFINE mine == Of(u.batches, a)
           ns == Numbers(mine)
           b == Without(u.batches, mine)
           u1 == Gone([u EXCEPT !.batches = b], ns)
           m == u.batchUp.n
           q == Gone([u1 EXCEPT !.batchUp = None], {m})
<1>0. u.batches \in Seq(BatchAsk) /\ mine \in SUBSET ToSet(u.batches)
  BY DEF State, Of
<1>1. b \in Seq(BatchAsk) /\ u.gone \cup ns \in SUBSET Nat
  BY WithoutType, NumbersType DEF State
<1>2. u1 = [u EXCEPT !.batches = b, !.gone = u.gone \cup ns]
  BY DEF Gone, State
<1>3. BatchWithdraw(u, a) =
        IF u1.batchUp # None /\ u1.batchUp.agent = a
        THEN Cancel(Gone([u1 EXCEPT !.batchUp = None], {u1.batchUp.n}), "batch", u1.batchUp.n)
        ELSE u1
  BY <1>2 DEF BatchWithdraw, Gone, State
<1>4. \A n \in Positive : Times(u.batches, n) <= 1
        => Times(u.batches, n) = Times(b, n) + In(n, ns)
  BY <1>0, QueuesHaveNumbers, TimesTaken
<1>5. \A n \in ns : Times(u.batches, n) # 0
  <2> TAKE n \in ns
  <2>1. PICK i \in 1..Len(u.batches) : u.batches[i].n = n
    BY DEF Numbers, Of, ToSet
  <2> QED BY <1>0, <2>1, QueuesHaveNumbers, TimesNone
<1> HIDE DEF mine, ns, b, u1
<1>6. /\ u1 \in State /\ u1.showing = u.showing /\ u1.order = u.order
      /\ u1.resolved = u.resolved /\ u1.batches = b /\ u1.batchUp = u.batchUp
      /\ u1.installs = u.installs /\ u1.installUp = u.installUp
      /\ u1.subjects = u.subjects /\ u1.asking = u.asking /\ u1.erasing = u.erasing
      /\ u1.answers = u.answers /\ u1.gone = u.gone \cup ns /\ u1.polkit = u.polkit
  BY <1>1, <1>2 DEF State
<1>7. Moves(u, u1)
  <2>1. ASSUME Whole(u), NEW n \in Positive PROVE Total(u1, n) = Total(u, n)
    <3>1. /\ Summed(u, n) /\ Summed(u1, n) /\ Parted(u, n) /\ Parted(u1, n)
          /\ In(n, ns) \in Nat /\ BatchIs(u.batchUp, n) \in Nat
      BY <1>6, TotalType DEF In, Parted
    <3>2. /\ Batched(u, n) = Times(u.batches, n) + BatchIs(u.batchUp, n)
          /\ Batched(u1, n) = Times(b, n) + BatchIs(u.batchUp, n)
          /\ Times(u.batches, n) \in Nat /\ Times(b, n) \in Nat
      BY <1>6, <3>1 DEF Batched, Parted
    <3>3. /\ Batched(u, n) <= 1 /\ (Batched(u, n) # 0 => n \notin u.gone)
      BY <2>1, AtMostOnce DEF Whole
    <3>4. Times(u.batches, n) <= 1 /\ (Times(u.batches, n) # 0 => n \notin u.gone)
      BY <3>1, <3>2, <3>3
    <3>5. Batched(u, n) = Batched(u1, n) + In(n, ns)
      <4>1. Times(u.batches, n) = Times(b, n) + In(n, ns)
        BY <1>4, <3>4
      <4> QED BY <3>1, <3>2, <4>1
    <3>6. Over(u1, n) = Over(u, n) + In(n, ns)
      BY <1>5, <1>6, <3>4, OverGone
    <3>7. /\ Consented(u1, n) = Consented(u, n) /\ Installing(u1, n) = Installing(u, n)
          /\ Requested(u1, n) = Requested(u, n) /\ Commanded(u1, n) = Commanded(u, n)
          /\ Erasing(u1, n) = Erasing(u, n)
      BY <1>6 DEF Consented, Installing, Requested, Commanded, Erasing
    <3>8. Leaves(u, u1, n, "batch", In(n, ns))
      BY <3>1, <3>5, <3>6, <3>7 DEF Leaves, Summed
    <3> QED BY <3>1, <3>8, LeavesTotal
  <2>2. Shows(u) => Shows(u1)
    BY <1>6 DEF Shows
  <2> QED BY <2>1, <2>2 DEF Moves, Whole
<1>8. CASE u1.batchUp # None /\ u1.batchUp.agent = a
  <2>1. u.batchUp \in BatchAsk /\ m \in Nat
    BY <1>6, <1>8 DEF State, BatchAsk
  <2>2. q = [u1 EXCEPT !.batchUp = None, !.gone = u1.gone \cup {m}]
    BY <1>6 DEF Gone, State
  <2>3. BatchWithdraw(u, a) = Cancel(q, "batch", m)
    BY <1>3, <1>6, <1>8
  <2>4. \A n \in Positive : BatchIs(u.batchUp, n) = In(n, {m})
    BY <1>6, <1>8 DEF BatchIs, In
  <2> HIDE DEF m, q
  <2>5. /\ q \in State /\ q.showing = u1.showing /\ q.order = u1.order
        /\ q.resolved = u1.resolved /\ q.batches = u1.batches /\ q.batchUp = None
        /\ q.installs = u1.installs /\ q.installUp = u1.installUp
        /\ q.subjects = u1.subjects /\ q.asking = u1.asking /\ q.erasing = u1.erasing
        /\ q.answers = u1.answers /\ q.gone = u1.gone \cup {m} /\ q.polkit = u1.polkit
    BY <1>6, <2>1, <2>2 DEF State
  <2>6. Moves(u1, q)
    <3>1. ASSUME Whole(u1), NEW n \in Positive PROVE Total(q, n) = Total(u1, n)
      <4>1. /\ Summed(q, n) /\ Summed(u1, n) /\ Parted(u1, n) /\ In(n, {m}) \in Nat
        BY <1>6, <2>5, TotalType DEF In
      <4>2. /\ Batched(u1, n) = Times(b, n) + In(n, {m})
            /\ Batched(q, n) = Times(b, n) + 0 /\ Times(b, n) \in Nat
        BY <1>6, <2>4, <2>5, <4>1 DEF Batched, BatchIs, Parted
      <4>3. Batched(u1, n) # 0 => n \notin u1.gone
        BY <1>6, <3>1, AtMostOnce DEF Whole
      <4>4. n \in {m} => n \notin u1.gone
        BY <4>2, <4>3 DEF In
      <4>5. Over(q, n) = Over(u1, n) + In(n, {m})
        BY <1>6, <2>5, <4>4, OverGone
      <4>6. Batched(u1, n) = Batched(q, n) + In(n, {m})
        BY <4>1, <4>2
      <4>7. /\ Consented(q, n) = Consented(u1, n) /\ Installing(q, n) = Installing(u1, n)
            /\ Requested(q, n) = Requested(u1, n) /\ Commanded(q, n) = Commanded(u1, n)
            /\ Erasing(q, n) = Erasing(u1, n)
        BY <2>5 DEF Consented, Installing, Requested, Commanded, Erasing
      <4>8. Leaves(u1, q, n, "batch", In(n, {m}))
        BY <4>1, <4>5, <4>6, <4>7 DEF Leaves, Summed
      <4> QED BY <4>1, <4>8, LeavesTotal
    <3>2. Shows(u1) => Shows(q)
      BY <2>5 DEF Shows
    <3> QED BY <3>1, <3>2 DEF Moves, Whole
  <2>7. Moves(q, Cancel(q, "batch", m))
    BY <2>5, CancelMoves
  <2> QED BY <1>7, <2>3, <2>6, <2>7, MovesTrans
<1>9. CASE ~(u1.batchUp # None /\ u1.batchUp.agent = a)
  <2>1. BatchWithdraw(u, a) = u1
    BY <1>3, <1>9
  <2> QED BY <1>7, <2>1
<1> QED BY <1>8, <1>9

(* consent.rs withdraw.                                                    *)
LEMMA ConsentWithdrawMoves ==
  ASSUME NEW u \in State, NEW a
  PROVE  Moves(u, ConsentWithdraw(u, a))
<1> DEFINE out == Of(u.order, a)
           mine == Numbers(out)
           o == Without(u.order, out)
           s == IF u.showing \in mine THEN 0 ELSE u.showing
           u1 == Gone([u EXCEPT !.order = Without(@, Of(@, a)),
                                !.showing = IF @ \in mine THEN 0 ELSE @], mine)
<1>0. u.order \in Seq(Consents) /\ out \in SUBSET ToSet(u.order) /\ u.showing \in Nat
  BY DEF State, Of
<1>1. o \in Seq(Consents) /\ u.gone \cup mine \in SUBSET Nat /\ s \in Nat
  BY <1>0, WithoutType, NumbersType DEF State, Positive
<1>2. u1 = [u EXCEPT !.order = o, !.showing = s, !.gone = u.gone \cup mine]
  BY DEF Gone, State
<1>3. ConsentWithdraw(u, a) = u1 \/ ConsentWithdraw(u, a) = Cancel(u1, "consent", u.showing)
  BY DEF ConsentWithdraw
<1>4. \A n \in Positive : Times(u.order, n) <= 1
        => Times(u.order, n) = Times(o, n) + In(n, mine)
  BY <1>0, QueuesHaveNumbers, TimesTaken
<1>5. \A n \in mine : Times(u.order, n) # 0
  <2> TAKE n \in mine
  <2>1. PICK i \in 1..Len(u.order) : u.order[i].n = n
    BY DEF Numbers, Of, ToSet
  <2> QED BY <1>0, <2>1, QueuesHaveNumbers, TimesNone
<1>6. u.showing \notin mine => Times(o, u.showing) = Times(u.order, u.showing)
  <2> SUFFICES ASSUME u.showing \notin mine PROVE Times(o, u.showing) = Times(u.order, u.showing)
    OBVIOUS
  <2>1. \A i \in 1..Len(u.order) : u.order[i] \in out => u.order[i].n # u.showing
    BY DEF Numbers
  <2> HIDE DEF out
  <2> QED BY <1>0, <2>1, QueuesHaveNumbers, TimesWithout
<1>7. s = 0 \/ (s = u.showing /\ u.showing \notin mine)
  OBVIOUS
<1> HIDE DEF out, mine, o, s, u1
<1>8. /\ u1 \in State /\ u1.showing = s /\ u1.order = o
      /\ u1.resolved = u.resolved /\ u1.batches = u.batches /\ u1.batchUp = u.batchUp
      /\ u1.installs = u.installs /\ u1.installUp = u.installUp
      /\ u1.subjects = u.subjects /\ u1.asking = u.asking /\ u1.erasing = u.erasing
      /\ u1.answers = u.answers /\ u1.gone = u.gone \cup mine /\ u1.polkit = u.polkit
  BY <1>1, <1>2 DEF State
<1>9. Shows(u) => Shows(u1)
  BY <1>6, <1>7, <1>8 DEF Shows
<1>10. ASSUME Whole(u), NEW n \in Positive PROVE Total(u1, n) = Total(u, n)
  <2>1. /\ Summed(u, n) /\ Summed(u1, n) /\ Parted(u, n) /\ Parted(u1, n)
        /\ In(n, mine) \in Nat /\ Count(u.resolved, n) \in Nat
    BY <1>8, TotalType DEF In, Parted
  <2>2. /\ Consented(u, n) = Times(u.order, n) + Count(u.resolved, n)
        /\ Consented(u1, n) = Times(o, n) + Count(u.resolved, n)
        /\ Times(u.order, n) \in Nat /\ Times(o, n) \in Nat
    BY <1>8, <2>1 DEF Consented, Parted
  <2>3. /\ Consented(u, n) <= 1 /\ (Consented(u, n) # 0 => n \notin u.gone)
    BY <1>10, AtMostOnce DEF Whole
  <2>4. Times(u.order, n) <= 1 /\ (Times(u.order, n) # 0 => n \notin u.gone)
    BY <2>1, <2>2, <2>3
  <2>5. Consented(u, n) = Consented(u1, n) + In(n, mine)
    <3>1. Times(u.order, n) = Times(o, n) + In(n, mine)
      BY <1>4, <2>4
    <3> QED BY <2>1, <2>2, <3>1
  <2>6. Over(u1, n) = Over(u, n) + In(n, mine)
    BY <1>5, <1>8, <2>4, OverGone
  <2>7. /\ Batched(u1, n) = Batched(u, n) /\ Installing(u1, n) = Installing(u, n)
        /\ Requested(u1, n) = Requested(u, n) /\ Commanded(u1, n) = Commanded(u, n)
        /\ Erasing(u1, n) = Erasing(u, n)
    BY <1>8 DEF Batched, Installing, Requested, Commanded, Erasing
  <2>8. Leaves(u, u1, n, "consent", In(n, mine))
    BY <2>1, <2>5, <2>6, <2>7 DEF Leaves, Summed
  <2> QED BY <2>1, <2>8, LeavesTotal
<1>11. Moves(u, u1)
  BY <1>9, <1>10 DEF Moves, Whole
<1>12. Moves(u1, Cancel(u1, "consent", u.showing))
  BY <1>8, CancelMoves
<1> QED BY <1>3, <1>11, <1>12, MovesTrans

(* An agent that goes: its asks go with it, and no other.                  *)
LEMMA WithdrawMoves ==
  ASSUME NEW u \in State, Parts(u), NEW a
  PROVE  Moves(u, Withdraw(u, a))
<1> DEFINE u2 == ConsentWithdraw(u, a)
           u3 == BatchWithdraw(u2, a)
           u4 == Drain(u3)
<1>1. Keeps(u, u2) /\ Moves(u, u2)
  BY ConsentWithdrawKeeps, ConsentWithdrawMoves
<1>2. Withdraw(u, a) = ConsentSchedule(u4)
  BY WithdrawIs
<1> HIDE DEF u2
<1>3. Keeps(u2, u3) /\ Moves(u2, u3)
  BY <1>1, BatchWithdrawKeeps, BatchWithdrawMoves DEF Keeps
<1> HIDE DEF u3
<1>4. Keeps(u3, u4) /\ Moves(u3, u4)
  BY <1>3, DrainKeeps, DrainMoves DEF Keeps
<1> HIDE DEF u4
<1>5. Moves(u4, ConsentSchedule(u4))
  BY <1>4, ConsentScheduleMoves DEF Keeps
<1>6. Moves(u, ConsentSchedule(u4))
  BY <1>1, <1>3, <1>4, <1>5, MovesTrans
<1> QED BY <1>2, <1>6

(* However many agents go.                                                 *)
LEMMA EveryoneMoves ==
  ASSUME NEW u \in State, Parts(u)
  PROVE  Moves(u, WithdrawAll(u))
<1> DEFINE iter == CHOOSE f : f = [s \in SUBSET Agents |->
                     IF s = {} THEN u
                     ELSE LET a == CHOOSE a \in s : TRUE IN Withdraw(f[s \ {a}], a)]
           Both(v) == Keeps(u, v) /\ Moves(u, v)
<1>1. WithdrawAll(u) = iter[Agents]
  BY DEF WithdrawAll, FoldSet, MapThenFoldSet
<1>2. Cardinality(Agents) \in Nat
  BY PromptsAssumption, FS_CardinalityType
<1>3. {t \in SUBSET Agents : Cardinality(t) <= Cardinality(Agents)} = SUBSET Agents
  BY PromptsAssumption, FS_Subset
<1>4. \E f : Terminates(u, Cardinality(Agents), f)
  BY <1>2, TerminatesExist
<1>5. iter = [s \in SUBSET Agents |->
                IF s = {} THEN u
                ELSE LET a == CHOOSE a \in s : TRUE IN Withdraw(iter[s \ {a}], a)]
  BY <1>3, <1>4 DEF Terminates
<1> HIDE DEF iter
<1> DEFINE T == { k \in Nat : \E s \in SUBSET Agents : Cardinality(s) = k /\ ~Both(iter[s]) }
<1> HIDE DEF Both
<1>0. SUFFICES ASSUME ~Both(iter[Agents]) PROVE FALSE
  BY <1>1 DEF Both
<1>6. T # {}
  <2>1. Cardinality(Agents) \in T
    BY <1>0, <1>2
  <2> QED BY <2>1
<1>7. PICK m \in T : \A y \in T : <<y, m>> \notin OpToRel(<, Nat)
  BY <1>6, NatLessThanWellFounded, WFMin, Zenon
<1>8. \A y \in T : ~(y < m)
  BY <1>7 DEF OpToRel
<1>9. PICK s \in SUBSET Agents : Cardinality(s) = m /\ ~Both(iter[s])
  OBVIOUS
<1>10. CASE s = {}
  BY <1>5, <1>9, <1>10, KeepsSelf, MovesSelf DEF Both
<1>11. CASE s # {}
  <2> DEFINE a == CHOOSE a \in s : TRUE
             r == s \ {a}
  <2>1. r \in SUBSET Agents /\ Cardinality(r) \in Nat /\ Cardinality(r) < Cardinality(s)
    BY <1>11, Smaller
  <2>2. iter[s] = Withdraw(iter[r], a)
    BY <1>5, <1>11
  <2> HIDE DEF a, r
  <2>3. Both(iter[r])
    BY <1>8, <1>9, <2>1
  <2>4. Both(Withdraw(iter[r], a))
    <3>1. Keeps(u, iter[r]) /\ Moves(u, iter[r])
      BY <2>3 DEF Both
    <3>2. Keeps(iter[r], Withdraw(iter[r], a)) /\ Moves(iter[r], Withdraw(iter[r], a))
      BY <3>1, WithdrawKeeps, WithdrawMoves DEF Keeps
    <3> QED BY <3>1, <3>2, KeepsTrans, MovesTrans DEF Both
  <2> QED BY <1>9, <2>2, <2>4
<1> QED BY <1>10, <1>11

(* choose: everyone but polkit gets a turn.                                *)
LEMMA OthersMove ==
  ASSUME NEW u \in State, Parts(u)
  PROVE  Moves(u, BrokerSchedule(InstallSchedule(BatchSchedule(
                    ConsentSchedule([u EXCEPT !.pump = TRUE])))))
<1> DEFINE v1 == [u EXCEPT !.pump = TRUE]
           v2 == ConsentSchedule(v1)
           v3 == BatchSchedule(v2)
           v4 == InstallSchedule(v3)
           v5 == BrokerSchedule(v4)
<1>1. Keeps(u, v1) /\ Silent(u, v1)
  <2>1. Silent(u, v1)
    BY DEF State, Silent
  <2> QED BY <2>1, PumpSetKeeps
<1> HIDE DEF v1
<1>2. Keeps(v1, v2) /\ Moves(v1, v2)
  BY <1>1, ConsentScheduleKeeps, ConsentScheduleMoves DEF Keeps
<1> HIDE DEF v2
<1>3. Keeps(v2, v3) /\ Moves(v2, v3)
  BY <1>2, BatchScheduleKeeps, BatchScheduleMoves DEF Keeps
<1> HIDE DEF v3
<1>4. Keeps(v3, v4) /\ Moves(v3, v4)
  BY <1>3, InstallScheduleKeeps, InstallScheduleMoves DEF Keeps
<1> HIDE DEF v4
<1>5. Moves(v4, v5)
  BY <1>4, BrokerScheduleMoves DEF Keeps
<1> HIDE DEF v5
<1>6. Moves(u, v5)
  BY <1>1, <1>2, <1>3, <1>4, <1>5, SilentMoves, MovesTrans
<1> QED BY <1>6 DEF v1, v2, v3, v4, v5

(* choose: everyone gets a turn.                                           *)
LEMMA TurnMoves ==
  ASSUME NEW u \in State, Parts(u)
  PROVE  Moves(u, Turn(u))
<1> DEFINE v == BrokerSchedule(InstallSchedule(BatchSchedule(
                  ConsentSchedule([u EXCEPT !.pump = TRUE]))))
<1>1. Keeps(u, v) /\ Moves(u, v)
  BY OthersKeep, OthersMove
<1>2. Turn(u) = PolkitSchedule(v)
  BY DEF Turn
<1> HIDE DEF v
<1>3. Moves(v, PolkitSchedule(v))
  BY <1>1, PolkitScheduleMoves DEF Keeps
<1> QED BY <1>1, <1>2, <1>3, MovesTrans

(* pump's first half: the command that is up is withdrawn.                 *)
AskingGone(u, q) ==
  /\ q.order = u.order /\ q.showing = u.showing /\ q.resolved = u.resolved
  /\ q.batches = u.batches /\ q.batchUp = u.batchUp /\ q.installs = u.installs
  /\ q.installUp = u.installUp /\ q.subjects = u.subjects /\ q.asking = 0
  /\ q.erasing = u.erasing /\ q.answers = u.answers /\ q.gone = u.gone \cup {u.asking}
  /\ q.polkit = u.polkit

(* It is then counted among the withdrawn.                                 *)
LEMMA AskingGoneMoves ==
  ASSUME NEW u \in State, NEW q \in State, AskingGone(u, q)
  PROVE  Moves(u, q)
<1> DEFINE n == u.asking
           S == {n}
<1>1. /\ q.order = u.order /\ q.showing = u.showing /\ q.resolved = u.resolved
      /\ q.batches = u.batches /\ q.batchUp = u.batchUp /\ q.installs = u.installs
      /\ q.installUp = u.installUp /\ q.subjects = u.subjects /\ q.asking = 0
      /\ q.erasing = u.erasing /\ q.answers = u.answers /\ q.gone = u.gone \cup S
      /\ q.polkit = u.polkit
  BY DEF AskingGone
<1>2. \A k \in Positive : Is(n, k) = In(k, S) /\ Is(0, k) = 0
  BY DEF Is, In, Positive
<1>3. \A k : k \in S => k = n
  OBVIOUS
<1> HIDE DEF S
<1>4. ASSUME Whole(u), NEW k \in Positive PROVE Total(q, k) = Total(u, k)
  <2>1. /\ Summed(q, k) /\ Summed(u, k) /\ Parted(u, k) /\ In(k, S) \in Nat
    BY TotalType DEF In
  <2>2. /\ Commanded(u, k) = Count(u.subjects, k) + In(k, S)
        /\ Commanded(q, k) = Count(u.subjects, k) + 0
        /\ Count(u.subjects, k) \in Nat
    BY <1>1, <1>2, <2>1 DEF Commanded, Parted
  <2>3. Commanded(u, k) # 0 => k \notin u.gone
    BY <1>4, AtMostOnce DEF Whole
  <2>4. k \in S => k \notin u.gone
    BY <2>2, <2>3 DEF In
  <2>5. Over(q, k) = Over(u, k) + In(k, S)
    BY <1>1, <2>4, OverGone
  <2>6. Commanded(u, k) = Commanded(q, k) + In(k, S)
    BY <2>1, <2>2
  <2>7. /\ Consented(q, k) = Consented(u, k) /\ Batched(q, k) = Batched(u, k)
        /\ Installing(q, k) = Installing(u, k) /\ Requested(q, k) = Requested(u, k)
        /\ Erasing(q, k) = Erasing(u, k)
    BY <1>1 DEF Consented, Batched, Installing, Requested, Erasing
  <2>8. Leaves(u, q, k, "approval", In(k, S))
    BY <2>1, <2>5, <2>6, <2>7 DEF Leaves, Summed
  <2> QED BY <2>1, <2>8, LeavesTotal
<1>5. Shows(u) => Shows(q)
  BY <1>1 DEF Shows
<1> QED BY <1>4, <1>5 DEF Moves, Whole

(* pump's second half: the command that waited longest goes up.            *)
LEMMA AskingNextMoves ==
  ASSUME NEW u \in State, u.asking = 0, u.subjects # <<>>
  PROVE  Moves(u, [Open(u, "approval", Head(u.subjects)) EXCEPT
                     !.subjects = Tail(@), !.asking = Head(u.subjects)])
<1> DEFINE h == Head(u.subjects)
           t == Tail(u.subjects)
           o == Open(u, "approval", h)
           v == [o EXCEPT !.subjects = Tail(@), !.asking = h]
<1>1. u.subjects \in Seq(Positive) /\ h \in Positive /\ h \in Nat /\ t \in Seq(Positive)
  <2>1. u.subjects \in Seq(Positive)
    BY DEF State
  <2>2. h \in Positive /\ t \in Seq(Positive)
    BY <2>1
  <2> QED BY <2>1, <2>2 DEF Positive
<1>2. o \in State /\ Silent(u, o)
  BY <1>1, OpenIs, OpenMoves DEF AllKinds
<1>3. v = [o EXCEPT !.subjects = t, !.asking = h]
  BY <1>2 DEF Silent, State
<1>4. \A k \in Positive : Count(u.subjects, k) = Count(t, k) + Is(h, k)
  BY <1>1, CountTail DEF Is
<1>5. \A k \in Positive : Count(t, k) \in Nat /\ Is(h, k) \in Nat
  BY <1>1, CountType DEF Is
<1> HIDE DEF h, t, o, v
<1>6. /\ v.order = o.order /\ v.showing = o.showing /\ v.resolved = o.resolved
      /\ v.batches = o.batches /\ v.batchUp = o.batchUp /\ v.installs = o.installs
      /\ v.installUp = o.installUp /\ v.subjects = t /\ v.asking = h
      /\ v.erasing = o.erasing /\ v.answers = o.answers /\ v.gone = o.gone
      /\ v.polkit = o.polkit
  BY <1>2, <1>3 DEF State
<1>7. \A k \in Positive : Total(v, k) = Total(o, k)
  <2> TAKE k \in Positive
  <2>1. Commanded(v, k) = Count(t, k) + Is(h, k)
    BY <1>6 DEF Commanded
  <2>2. Commanded(o, k) = Count(u.subjects, k) + Is(0, k)
    BY <1>2 DEF Commanded, Silent
  <2>3. Commanded(v, k) = Commanded(o, k)
    BY <1>4, <1>5, <2>1, <2>2 DEF Is, Positive
  <2>4. /\ Consented(v, k) = Consented(o, k) /\ Batched(v, k) = Batched(o, k)
        /\ Installing(v, k) = Installing(o, k) /\ Requested(v, k) = Requested(o, k)
        /\ Erasing(v, k) = Erasing(o, k) /\ Over(v, k) = Over(o, k)
    BY <1>6 DEF Consented, Batched, Installing, Requested, Erasing, Over
  <2> QED BY <2>3, <2>4 DEF Total
<1>8. Moves(o, v)
  <2>1. Shows(o) => Shows(v)
    BY <1>6 DEF Shows
  <2> QED BY <1>7, <2>1 DEF Moves, Whole
<1>9. Moves(u, v)
  BY <1>2, <1>8, SilentMoves, MovesTrans
<1> QED BY <1>9 DEF v, o, h

(* pump: a command no longer withheld is withdrawn, the next goes up.      *)
LEMMA PumpMoves ==
  ASSUME NEW u \in State, Parts(u)
  PROVE  Moves(u, Pump(u))
<1> DEFINE n == u.asking
           u0 == [u EXCEPT !.pump = FALSE]
           q == Gone([u0 EXCEPT !.asking = 0], {n})
           u1 == Lowered(u)
           v == [Open(u1, "approval", Head(u1.subjects)) EXCEPT
                   !.subjects = Tail(@), !.asking = Head(u1.subjects)]
<1>1. Silent(u, u0)
  BY DEF State, Silent
<1>2. Keeps(u, u1) /\ u1.asking = 0
  BY LoweredKeeps
<1>3. Moves(u, u1)
  <2>1. CASE n = 0
    BY <1>1, <2>1, SilentMoves DEF Lowered
  <2>2. CASE n # 0
    <3> DEFINE S == u.gone \cup {n}
    <3>1. n \in Nat /\ S \in SUBSET Nat
      BY DEF State
    <3>2. q = [u EXCEPT !.pump = FALSE, !.asking = 0, !.gone = S]
      BY DEF Gone, State
    <3>3. u1 = Cancel(q, "approval", n)
      BY <2>2 DEF Lowered
    <3> HIDE DEF q, u1
    <3>4. q \in State
      <4> HIDE DEF S, n
      <4> QED BY <3>1, <3>2 DEF State
    <3>5. Moves(u, q)
      <4>1. AskingGone(u, q)
        BY <3>2 DEF State, AskingGone
      <4> QED BY <3>4, <4>1, AskingGoneMoves
    <3>6. Moves(q, u1)
      BY <3>3, <3>4, CancelMoves
    <3> QED BY <3>5, <3>6, MovesTrans
  <2> QED BY <2>1, <2>2
<1>4. Pump(u) = IF n # 0 /\ n \in u.withheld /\ IsUp(u, "approval", n) THEN u0
                ELSE IF ~Free(u1) \/ u1.quiet \/ u1.subjects = <<>> THEN u1 ELSE v
  BY DEF Pump, Lowered
<1> HIDE DEF u0, u1
<1>5. u1.subjects # <<>> => Moves(u1, v)
  BY <1>2, AskingNextMoves DEF Keeps
<1> HIDE DEF v
<1> QED BY <1>1, <1>3, <1>4, <1>5, SilentMoves, MovesTrans

(* panel.rs show: only the seat and the panel's page.                      *)
LEMMA PanelShowMoves ==
  ASSUME NEW u \in State, NEW page \in {1, 2, 3}
  PROVE  Silent(u, PanelShow(u, page))
<1> DEFINE v == PanelShow(u, page)
           o == Open(u, "panel", page)
<1>1. CASE Free(u)
  <2>1. page \in Nat
    OBVIOUS
  <2>2. o \in State /\ Silent(u, o)
    BY <2>1, OpenIs, OpenMoves DEF AllKinds
  <2>3. v = [o EXCEPT !.page = page]
    BY <1>1 DEF PanelShow
  <2> HIDE DEF o, v
  <2>4. Silent(o, v)
    BY <2>2, <2>3 DEF State, Silent
  <2>5. Silent(u, v)
    BY <2>2, <2>4 DEF Silent
  <2> QED BY <2>5 DEF v
<1>2. CASE ~Free(u)
  <2>1. v = [u EXCEPT !.page = 0]
    BY <1>2 DEF PanelShow
  <2> HIDE DEF v
  <2>2. Silent(u, v)
    BY <2>1 DEF State, Silent
  <2> QED BY <2>2 DEF v
<1> QED BY <1>1, <1>2

(* panel.rs answer: agents are withdrawn behind the panel's back.          *)
LEMMA PanelAnswerMoves ==
  ASSUME NEW u \in State, Parts(u), NEW timedOut, NEW v \in PanelAnswer(u, timedOut)
  PROVE  Moves(u, v)
<1> DEFINE e == [u EXCEPT !.page = 0]
<1>1. Moves(u, e)
  <2>1. Silent(u, e)
    BY DEF State, Silent
  <2> QED BY <2>1, SilentMoves
<1>2. \A p \in {1, 2, 3} : Moves(u, PanelShow(u, p))
  BY PanelShowMoves, SilentMoves
<1>3. \A a \in Agents : Moves(u, PanelShow(Withdraw(u, a), Overview))
  <2> TAKE a \in Agents
  <2> DEFINE w == Withdraw(u, a)
  <2>1. w \in State /\ Moves(u, w)
    BY WithdrawKeeps, WithdrawMoves DEF Keeps
  <2> HIDE DEF w
  <2>2. Moves(w, PanelShow(w, Overview))
    BY <2>1, PanelShowMoves, SilentMoves DEF Overview
  <2>3. Moves(u, PanelShow(w, Overview))
    BY <2>1, <2>2, MovesTrans
  <2> QED BY <2>3 DEF w
<1>4. Moves(u, PanelShow(WithdrawAll(u), Overview))
  <2> DEFINE w == WithdrawAll(u)
  <2>1. w \in State /\ Moves(u, w)
    BY EveryoneWithdraws, EveryoneMoves DEF Keeps
  <2> HIDE DEF w
  <2>2. Moves(w, PanelShow(w, Overview))
    BY <2>1, PanelShowMoves, SilentMoves DEF Overview
  <2>3. Moves(u, PanelShow(w, Overview))
    BY <2>1, <2>2, MovesTrans
  <2> QED BY <2>3 DEF w
<1>5. \/ v = e
      \/ \E p \in {1, 2, 3} : v = PanelShow(u, p)
      \/ \E a \in Agents : v = PanelShow(Withdraw(u, a), Overview)
      \/ v = PanelShow(WithdrawAll(u), Overview)
  BY DEF PanelAnswer, Overview, AgentPage, ConfirmPage
<1> HIDE DEF e
<1> QED BY <1>1, <1>2, <1>3, <1>4, <1>5

(* The secret store asks for no agent.                                     *)
LEMMA BrokerAnswerMoves ==
  ASSUME NEW u \in State, NEW step, NEW timedOut, NEW v \in BrokerAnswer(u, step, timedOut)
  PROVE  Moves(u, v)
<1> DEFINE b(s) == [u EXCEPT !.broker = s]
<1>1. \A s \in {"asking", "prompt"} : b(s) \in State /\ Moves(u, b(s))
  <2> TAKE s \in {"asking", "prompt"}
  <2>1. b(s) \in State /\ Silent(u, b(s))
    BY DEF State, Silent
  <2> HIDE DEF b
  <2> QED BY <2>1, SilentMoves
<1>2. v \in {u, b("asking"), BrokerShow(b("prompt"))}
  BY DEF BrokerAnswer
<1> HIDE DEF b
<1>3. Moves(u, BrokerShow(b("prompt")))
  BY <1>1, BrokerShowMoves, MovesTrans
<1> QED BY <1>1, <1>2, <1>3, MovesSelf

(* The ask behind the prompt that was up is answered.                      *)
UpIsTold(u, v, g, m) ==
  /\ v.order = u.order /\ v.showing = u.showing /\ v.resolved = u.resolved
  /\ v.batches = u.batches /\ v.installs = u.installs /\ v.polkit = u.polkit
  /\ v.subjects = u.subjects /\ v.gone = u.gone
  /\ IF g = "batch" THEN u.batchUp # None /\ u.batchUp.n = m /\ v.batchUp = None
     ELSE v.batchUp = u.batchUp
  /\ IF g = "install" THEN u.installUp = m /\ v.installUp = 0 ELSE v.installUp = u.installUp
  /\ IF g = "approval" THEN u.asking = m /\ v.asking = 0 ELSE v.asking = u.asking
  /\ IF g = "erase" THEN u.erasing = m /\ v.erasing = 0 ELSE v.erasing = u.erasing
  /\ v.answers = Append(u.answers, m)

(* It is then counted among the answers.                                   *)
LEMMA UpIsToldMoves ==
  ASSUME NEW u \in State, NEW v \in State, NEW m \in Nat,
         NEW g \in {"batch", "install", "approval", "erase"}, UpIsTold(u, v, g, m)
  PROVE  Moves(u, v)
<1>1. ASSUME NEW n \in Positive PROVE Total(v, n) = Total(u, n)
  <2> DEFINE d == Is(m, n)
  <2>1. d \in Nat /\ Is(0, n) = 0
    BY DEF Is, Positive
  <2>2. Summed(u, n) /\ Summed(v, n) /\ Parted(u, n) /\ Parted(v, n)
    BY TotalType
  <2>3. Over(v, n) = Over(u, n) + d
    BY OverTold DEF UpIsTold
  <2>4. Consented(v, n) = Consented(u, n) /\ Requested(v, n) = Requested(u, n)
    BY DEF UpIsTold, Consented, Requested
  <2>5. Batched(u, n) = Batched(v, n) + (IF g = "batch" THEN d ELSE 0)
    <3>1. BatchIs(u.batchUp, n) = BatchIs(v.batchUp, n) + (IF g = "batch" THEN d ELSE 0)
      BY <2>2 DEF UpIsTold, BatchIs, Is, Parted
    <3>2. v.batches = u.batches
      BY DEF UpIsTold
    <3> HIDE DEF d
    <3> QED BY <2>1, <2>2, <3>1, <3>2 DEF Batched, Parted
  <2>6. Installing(u, n) = Installing(v, n) + (IF g = "install" THEN d ELSE 0)
    <3>1. Is(u.installUp, n) = Is(v.installUp, n) + (IF g = "install" THEN d ELSE 0)
      <4>1. CASE g = "install"
        <5>1. u.installUp = m /\ v.installUp = 0
          BY <4>1 DEF UpIsTold
        <5> HIDE DEF d
        <5> QED BY <2>1, <4>1, <5>1 DEF d
      <4>2. CASE g # "install"
        BY <2>2, <4>2 DEF UpIsTold, Parted
      <4> QED BY <4>1, <4>2
    <3>2. v.installs = u.installs
      BY DEF UpIsTold
    <3> HIDE DEF d
    <3> QED BY <2>1, <2>2, <3>1, <3>2 DEF Installing, Parted
  <2>7. Commanded(u, n) = Commanded(v, n) + (IF g = "approval" THEN d ELSE 0)
    <3>1. Is(u.asking, n) = Is(v.asking, n) + (IF g = "approval" THEN d ELSE 0)
      <4>1. CASE g = "approval"
        <5>1. u.asking = m /\ v.asking = 0
          BY <4>1 DEF UpIsTold
        <5> HIDE DEF d
        <5> QED BY <2>1, <4>1, <5>1 DEF d
      <4>2. CASE g # "approval"
        BY <2>2, <4>2 DEF UpIsTold, Parted
      <4> QED BY <4>1, <4>2
    <3>2. v.subjects = u.subjects
      BY DEF UpIsTold
    <3> HIDE DEF d
    <3> QED BY <2>1, <2>2, <3>1, <3>2 DEF Commanded, Parted
  <2>8. Erasing(u, n) = Erasing(v, n) + (IF g = "erase" THEN d ELSE 0)
    <3>1. CASE g = "erase"
      <4>1. u.erasing = m /\ v.erasing = 0
        BY <3>1 DEF UpIsTold
      <4>2. Erasing(u, n) = d /\ Erasing(v, n) = 0
        BY <2>1, <4>1 DEF Erasing
      <4> HIDE DEF d
      <4> QED BY <2>1, <3>1, <4>2
    <3>2. CASE g # "erase"
      <4>1. Erasing(u, n) = Erasing(v, n)
        BY <3>2 DEF UpIsTold, Erasing
      <4> QED BY <2>2, <3>2, <4>1 DEF Summed
    <3> QED BY <3>1, <3>2
  <2> HIDE DEF d
  <2>9. Leaves(u, v, n, g, d)
    BY <2>2, <2>3, <2>4, <2>5, <2>6, <2>7, <2>8 DEF Leaves, Summed
  <2> QED BY <2>1, <2>2, <2>9, LeavesTotal
<1>2. Shows(u) => Shows(v)
  BY DEF UpIsTold, Shows
<1> QED BY <1>1, <1>2 DEF Moves, Whole

(* withhold.rs settle: a command that was answered waits no more.          *)
LEMMA UnwithholdMoves ==
  ASSUME NEW u \in State, NEW m \in Nat, Count(u.answers, m) # 0
  PROVE  Moves(u, Unwithhold(u, m))
<1> DEFINE s == Without(u.subjects, {m})
           v == Unwithhold(u, m)
<1>1. v = [u EXCEPT !.withheld = u.withheld \ {m}, !.subjects = s, !.pump = TRUE]
  BY DEF Unwithhold, State
<1>2. \A n \in Positive : Count(s, n) = IF m = n THEN 0 ELSE Count(u.subjects, n)
  <2>1. u.subjects \in Seq(Positive)
    BY DEF State
  <2> QED BY <2>1, CountWithout
<1> HIDE DEF s, v
<1>3. /\ v.order = u.order /\ v.showing = u.showing /\ v.resolved = u.resolved
      /\ v.batches = u.batches /\ v.batchUp = u.batchUp /\ v.installs = u.installs
      /\ v.installUp = u.installUp /\ v.subjects = s /\ v.asking = u.asking
      /\ v.erasing = u.erasing /\ v.answers = u.answers /\ v.gone = u.gone
      /\ v.polkit = u.polkit
  BY <1>1 DEF State
<1>4. ASSUME Whole(u), NEW n \in Positive PROVE Total(v, n) = Total(u, n)
  <2>1. Commanded(v, n) = Commanded(u, n)
    <3>1. m = n => Count(u.subjects, n) = 0
      <4> SUFFICES ASSUME m = n PROVE Count(u.subjects, n) = 0
        OBVIOUS
      <4>1. Parted(u, n) /\ Summed(u, n) /\ Total(u, n) <= 1
        BY <1>4, TotalType DEF Whole
      <4>2. Over(u, n) # 0
        BY <4>1 DEF Over, Parted
      <4>3. Commanded(u, n) = 0
        BY <4>1, <4>2, AtMostOnce
      <4> QED BY <4>1, <4>3 DEF Commanded, Parted
    <3>2. Count(s, n) = Count(u.subjects, n)
      BY <1>2, <3>1
    <3> QED BY <1>3, <3>2 DEF Commanded
  <2>2. /\ Consented(v, n) = Consented(u, n) /\ Batched(v, n) = Batched(u, n)
        /\ Installing(v, n) = Installing(u, n) /\ Requested(v, n) = Requested(u, n)
        /\ Erasing(v, n) = Erasing(u, n) /\ Over(v, n) = Over(u, n)
    BY <1>3 DEF Consented, Batched, Installing, Requested, Erasing, Over
  <2> QED BY <2>1, <2>2 DEF Total
<1>5. Shows(u) => Shows(v)
  BY <1>3 DEF Shows
<1>6. Moves(u, v)
  BY <1>4, <1>5 DEF Moves, Whole
<1> QED BY <1>6 DEF v

(* A verdict, given and told.                                              *)
LEMMA ConsentAnsweredMoves ==
  ASSUME NEW u \in State, u.showing # 0
  PROVE  Moves(u, Drain(Settle(u, u.showing)))
<1> DEFINE n == u.showing
           v == Settle(u, n)
<1>1. n \in Positive /\ n \in Nat
  BY DEF State, Positive
<1>2. v \in State
  BY <1>1, SettleIs
<1>3. Moves(v, Drain(v))
  BY <1>2, DrainMoves
<1>4. Moves(u, v)
  <2>1. CASE Shows(u)
    <3>1. Times(u.order, n) # 0 /\ n \in {0, n}
      BY <2>1 DEF Shows
    <3> QED BY <1>1, <3>1, SettleMoves
  <2>2. CASE ~Shows(u)
    BY <2>2 DEF Moves, Whole
  <2> QED BY <2>1, <2>2
<1> HIDE DEF v
<1>5. Moves(u, Drain(v))
  BY <1>3, <1>4, MovesTrans
<1> QED BY <1>5 DEF v

(* A command approved, refused, or put off.                                *)
LEMMA ApprovalAnsweredMoves ==
  ASSUME NEW u \in State
  PROVE  LET closed == Answered([u EXCEPT !.asking = 0], u.asking)
         IN  /\ Moves(u, closed) /\ Moves(u, [closed EXCEPT !.quiet = TRUE])
             /\ Moves(u, Unwithhold(closed, u.asking))
<1> DEFINE n == u.asking
           a == Append(u.answers, n)
           c == Answered([u EXCEPT !.asking = 0], n)
           q == [c EXCEPT !.quiet = TRUE]
<1>1. n \in Nat /\ u.answers \in Seq(Nat) /\ a \in Seq(Nat)
  <2>1. n \in Nat /\ u.answers \in Seq(Nat)
    BY DEF State
  <2> QED BY <2>1
<1>2. c = [u EXCEPT !.asking = 0, !.answers = a]
  BY DEF Answered, State
<1>3. Count(a, n) = Count(u.answers, n) + 1
  BY <1>1, CountAppend
<1>4. Count(u.answers, n) \in Nat
  BY <1>1, CountType
<1> HIDE DEF c, a
<1>5. c \in State /\ c.answers = a /\ UpIsTold(u, c, "approval", n)
  BY <1>1, <1>2 DEF State, UpIsTold, a
<1>6. Moves(u, c)
  BY <1>1, <1>5, UpIsToldMoves
<1>7. Moves(u, q)
  <2>1. Silent(c, q)
    BY <1>5 DEF State, Silent
  <2> QED BY <1>6, <2>1, SilentMoves, MovesTrans
<1>8. Moves(u, Unwithhold(c, n))
  <2>1. Count(c.answers, n) # 0
    BY <1>3, <1>4, <1>5
  <2>2. Moves(c, Unwithhold(c, n))
    BY <1>1, <1>5, <2>1, UnwithholdMoves
  <2> QED BY <1>6, <2>2, MovesTrans
<1> QED BY <1>6, <1>7, <1>8 DEF c

(* A password given, asked for again, or no more.                          *)
LEMMA PolkitStageMoves ==
  ASSUME NEW u \in State, u.polkit # <<>>, NEW stage
  PROVE  Silent(u, [u EXCEPT !.polkit[1].stage = stage])
<1> DEFINE p == u.polkit
           r == [p EXCEPT ![1].stage = stage]
           v == [u EXCEPT !.polkit[1].stage = stage]
<1>1. v = [u EXCEPT !.polkit = r]
  BY DEF State
<1>2. \A n \in Positive : Times(r, n) = Times(p, n)
  <2> TAKE n \in Positive
  <2>1. p \in Seq(Requests) /\ p[1] \in Requests
    BY DEF State
  <2>2. DOMAIN r = DOMAIN p /\ \A k \in DOMAIN r : r[k].n = p[k].n
    BY <2>1 DEF Requests
  <2> HIDE DEF r, p
  <2> QED BY <2>2, TimesSame
<1> HIDE DEF r, v
<1>3. Silent(u, v)
  BY <1>1, <1>2 DEF State, Silent
<1> QED BY <1>3 DEF v

(* resolve, whoever's prompt was up: its ask is told, or up again.         *)
LEMMA ResolveMoves ==
  ASSUME NEW u0, Sound(u0), ~Free(u0), NEW timedOut \in BOOLEAN,
         NEW v \in Resolve(u0, timedOut)
  PROVE  Moves(u0, v)
<1> DEFINE u == [u0 EXCEPT !.seat = None]
           by == u0.seat.by
           n == u0.seat.n
<1>1. /\ u \in State /\ RestFree(u, by)
      /\ u.showing = u0.showing /\ u.batchUp = u0.batchUp /\ u.polkit = u0.polkit
      /\ u.asking = u0.asking /\ by \in AllKinds /\ n \in Nat
  BY SeatEmptied
<1>2. /\ Silent(u0, u) /\ u.installUp = u0.installUp /\ u.erasing = u0.erasing
  BY DEF Sound, State, Silent
<1>3. /\ by = "consent" => u.showing = n /\ n # 0
      /\ by = "batch" => u.batchUp # None /\ u.batchUp.n = n
      /\ by = "install" => u.installUp = n
      /\ by = "approval" => u.asking = n
      /\ by = "erase" => u.erasing = n
      /\ by = "polkit" => u.polkit # <<>>
  BY <1>1, <1>2 DEF Sound, Parts, ConsentPart, BatchPart, InstallPart, ApprovalPart,
     ErasePart, PolkitPart, Seated
<1>4. SUFFICES Moves(u, v)
  BY <1>2, SilentMoves, MovesTrans
<1> DEFINE a == Append(u.answers, n)
<1> HIDE DEF u
<1>5. a \in Seq(Nat)
  BY <1>1 DEF State
<1> HIDE DEF a
<1>6. CASE by = "consent"
  <2>1. v = Drain(Settle(u, n))
    BY <1>6 DEF Resolve, u
  <2> QED BY <1>1, <1>3, <1>6, <2>1, ConsentAnsweredMoves
<1>7. CASE by = "batch"
  <2> DEFINE w == Answered([u EXCEPT !.batchUp = None], n)
  <2>1. v = w \/ v = Open(u, "batch", n)
    BY <1>7 DEF Resolve, u
  <2>2. w = [u EXCEPT !.batchUp = None, !.answers = a]
    BY <1>1 DEF Answered, State, a
  <2> HIDE DEF w
  <2>3. w \in State
    BY <1>1, <1>5, <2>2 DEF State
  <2>4. UpIsTold(u, w, "batch", n)
    BY <1>1, <1>3, <1>7, <2>2 DEF State, UpIsTold, a
  <2>5. Moves(u, w)
    BY <1>1, <2>3, <2>4, UpIsToldMoves
  <2>6. Moves(u, Open(u, "batch", n))
    BY <1>1, OpenMoves, SilentMoves DEF AllKinds
  <2> QED BY <2>1, <2>5, <2>6
<1>8. CASE by = "install"
  <2>1. v = Answered([u EXCEPT !.installUp = 0], n)
    BY <1>8 DEF Resolve, u
  <2>2. v = [u EXCEPT !.installUp = 0, !.answers = a]
    BY <1>1, <2>1 DEF Answered, State, a
  <2>3. v \in State
    BY <1>1, <1>5, <2>2 DEF State
  <2>4. UpIsTold(u, v, "install", n)
    BY <1>1, <1>3, <1>8, <2>2 DEF State, UpIsTold, a
  <2> QED BY <1>1, <2>3, <2>4, UpIsToldMoves
<1>9. CASE by = "broker"
  <2> DEFINE w == [u EXCEPT !.brokerUp = FALSE, !.broker = "idle"]
  <2>1. v \in BrokerAnswer(w, u.broker, timedOut)
    BY <1>9 DEF Resolve, u
  <2>2. w \in State /\ Silent(u, w)
    BY <1>1 DEF State, Silent
  <2> HIDE DEF w
  <2>3. Moves(w, v)
    BY <2>1, <2>2, BrokerAnswerMoves
  <2> QED BY <2>2, <2>3, SilentMoves, MovesTrans
<1>10. CASE by = "polkit"
  <2>1. \/ v = PolkitFinish(u)
        \/ \E s \in {"waiting", "checking"} : v = [u EXCEPT !.polkit[1].stage = s]
    BY <1>10 DEF Resolve, u
  <2>2. Moves(u, PolkitFinish(u))
    BY <1>1, <1>3, <1>10, PolkitFinishMoves
  <2>3. \A s : Silent(u, [u EXCEPT !.polkit[1].stage = s])
    BY <1>1, <1>3, <1>10, PolkitStageMoves
  <2>4. \A s : Moves(u, [u EXCEPT !.polkit[1].stage = s])
    BY <2>3, SilentMoves
  <2> QED BY <2>1, <2>2, <2>4
<1>11. CASE by = "approval"
  <2> DEFINE closed == Answered([u EXCEPT !.asking = 0], n)
  <2>1. v \in {[closed EXCEPT !.quiet = TRUE], closed, Unwithhold(closed, n)}
    BY <1>11 DEF Resolve, u
  <2>2. /\ Moves(u, closed) /\ Moves(u, [closed EXCEPT !.quiet = TRUE])
        /\ Moves(u, Unwithhold(closed, n))
    BY <1>1, <1>3, <1>11, ApprovalAnsweredMoves
  <2> HIDE DEF closed
  <2> QED BY <2>1, <2>2
<1>12. CASE by = "erase"
  <2>1. v = Answered([u EXCEPT !.erasing = 0], n)
    BY <1>12 DEF Resolve, u
  <2>2. v = [u EXCEPT !.erasing = 0, !.answers = a]
    BY <1>1, <2>1 DEF Answered, State, a
  <2>3. v \in State
    BY <1>1, <1>5, <2>2 DEF State
  <2>4. UpIsTold(u, v, "erase", n)
    BY <1>1, <1>3, <1>12, <2>2 DEF State, UpIsTold, a
  <2> QED BY <1>1, <2>3, <2>4, UpIsToldMoves
<1>13. CASE by = "panel"
  <2>1. v \in PanelAnswer(u, timedOut)
    BY <1>13 DEF Resolve, u
  <2>2. Parts(u)
    BY <1>1, <1>13 DEF RestFree, Parts, ConsentPart, BatchPart, InstallPart, BrokerPart,
       PolkitPart, ApprovalPart, ErasePart, Seated
  <2> QED BY <1>1, <2>1, <2>2, PanelAnswerMoves
<1> QED BY <1>1, <1>6, <1>7, <1>8, <1>9, <1>10, <1>11, <1>12, <1>13 DEF AllKinds

(* mod.rs choose: the answer, then everyone's turn.                        *)
LEMMA ChooseMoves ==
  ASSUME NEW u, Sound(u), ~Free(u), NEW timedOut \in BOOLEAN, NEW v \in Choose(u, timedOut)
  PROVE  Moves(u, v)
<1>1. PICK w \in Resolve(u, timedOut) : v = Turn(w)
  BY DEF Choose
<1>2. Sound(w) /\ Moves(u, w)
  BY ResolveSound, ResolveMoves
<1>3. Moves(w, Turn(w))
  BY <1>2, TurnMoves DEF Sound
<1> QED BY <1>1, <1>2, <1>3, MovesTrans

(* withhold.rs settle: a command that waits no more is withdrawn.          *)
LEMMA CommandGoneMoves ==
  ASSUME NEW u \in State, NEW m \in Nat
  PROVE  Moves(u, Gone(Unwithhold(u, m), IF Contains(u.subjects, m) THEN {m} ELSE {}))
<1> DEFINE s == Without(u.subjects, {m})
           g == IF Contains(u.subjects, m) THEN {m} ELSE {}
           x == Unwithhold(u, m)
           v == Gone(x, g)
<1>1. s \in Seq(Positive) /\ g \in SUBSET Nat /\ u.subjects \in Seq(Positive)
  BY WithoutType DEF State
<1>2. x = [u EXCEPT !.withheld = u.withheld \ {m}, !.subjects = s, !.pump = TRUE]
  BY DEF Unwithhold, State
<1>3. \A n \in Positive : Count(s, n) = IF m = n THEN 0 ELSE Count(u.subjects, n)
  <2> DEFINE p == u.subjects
  <2>1. p \in Seq(Positive)
    BY <1>1
  <2> HIDE DEF p, g, x, v
  <2>2. \A n : Count(Without(p, {m}), n) = IF m = n THEN 0 ELSE Count(p, n)
    BY <2>1, CountWithout
  <2> QED BY <2>2 DEF p
<1>4. \A n \in Positive : n \in g <=> n = m /\ Count(u.subjects, n) # 0
  <2> TAKE n \in Positive
  <2>1. Count(u.subjects, n) # 0 <=> Contains(u.subjects, n)
    BY <1>1, CountNone DEF Contains
  <2> QED BY <2>1
<1> HIDE DEF s, g, x, v
<1>5. v = [x EXCEPT !.gone = u.gone \cup g]
  BY <1>2 DEF Gone, State, v
<1>6. /\ v \in State /\ v.order = u.order /\ v.showing = u.showing /\ v.resolved = u.resolved
      /\ v.batches = u.batches /\ v.batchUp = u.batchUp /\ v.installs = u.installs
      /\ v.installUp = u.installUp /\ v.subjects = s /\ v.asking = u.asking
      /\ v.erasing = u.erasing /\ v.answers = u.answers /\ v.gone = u.gone \cup g
      /\ v.polkit = u.polkit
  BY <1>1, <1>2, <1>5 DEF State
<1>7. ASSUME Whole(u), NEW n \in Positive PROVE Total(v, n) = Total(u, n)
  <2>1. /\ Summed(u, n) /\ Summed(v, n) /\ Parted(u, n) /\ Parted(v, n) /\ In(n, g) \in Nat
    BY <1>6, TotalType DEF In
  <2>2. Commanded(u, n) <= 1 /\ (Commanded(u, n) # 0 => n \notin u.gone)
    BY <1>7, AtMostOnce DEF Whole
  <2>3. /\ Commanded(u, n) = Count(u.subjects, n) + Is(u.asking, n)
        /\ Commanded(v, n) = Count(s, n) + Is(u.asking, n)
        /\ Count(u.subjects, n) \in Nat /\ Count(s, n) \in Nat /\ Is(u.asking, n) \in Nat
    BY <1>6, <2>1 DEF Commanded, Parted
  <2>4. Count(u.subjects, n) <= 1 /\ (Count(u.subjects, n) # 0 => n \notin u.gone)
    BY <2>2, <2>3
  <2>5. Count(u.subjects, n) = Count(s, n) + In(n, g)
    BY <1>3, <1>4, <2>3, <2>4 DEF In
  <2>6. Commanded(u, n) = Commanded(v, n) + In(n, g)
    BY <2>1, <2>3, <2>5
  <2>7. Over(v, n) = Over(u, n) + In(n, g)
    BY <1>4, <1>6, <2>4, OverGone
  <2>8. /\ Consented(v, n) = Consented(u, n) /\ Batched(v, n) = Batched(u, n)
        /\ Installing(v, n) = Installing(u, n) /\ Requested(v, n) = Requested(u, n)
        /\ Erasing(v, n) = Erasing(u, n)
    BY <1>6 DEF Consented, Batched, Installing, Requested, Erasing
  <2>9. Leaves(u, v, n, "approval", In(n, g))
    BY <2>1, <2>6, <2>7, <2>8 DEF Leaves, Summed
  <2> QED BY <2>1, <2>9, LeavesTotal
<1>8. Shows(u) => Shows(v)
  BY <1>6 DEF Shows
<1>9. Moves(u, v)
  BY <1>7, <1>8 DEF Moves, Whole
<1> QED BY <1>9 DEF v, x, g

(* The first k asks are in one place each, and no other ask is anywhere.   *)
Spoken(n)       == IF n \in Ask THEN told[n] ELSE 0
Accounted(u, k) ==
  /\ Shows(u)
  /\ \A n \in Positive : Total(u, n) + Spoken(n) = IF n <= k THEN 1 ELSE 0

(* The inductive invariant; asks are numbered from 1, and 0 is nobody's.   *)
AskedPart == asked \in 0..MaxAsks /\ told \in [Ask -> Nat] /\ ui.answers = <<>>
IInv == PromptsInv /\ AskedPart /\ Accounted(ui, asked)

(* An ask is told some number of times.                                    *)
LEMMA SpokenType ==
  ASSUME AskedPart, NEW n PROVE Spoken(n) \in Nat
BY DEF AskedPart, Spoken

(* A function that moves the asks loses none.                              *)
LEMMA MovesAccounted ==
  ASSUME AskedPart, NEW k \in Nat, NEW u \in State, Accounted(u, k), NEW v, Moves(u, v)
  PROVE  Accounted(v, k)
<1>1. Whole(u)
  <2>1. ASSUME NEW n \in Positive PROVE Total(u, n) <= 1
    <3>1. Total(u, n) \in Nat /\ Spoken(n) \in Nat
      BY TotalType, SpokenType DEF Summed
    <3>2. Total(u, n) + Spoken(n) <= 1
      BY <2>1 DEF Accounted
    <3> QED BY <3>1, <3>2
  <2> QED BY <2>1 DEF Accounted, Whole
<1>2. Shows(v) /\ \A n \in Positive : Total(v, n) = Total(u, n)
  BY <1>1 DEF Moves
<1> QED BY <1>2 DEF Accounted

(* An owner's queue is one ask longer.                                     *)
Joins(u, w, g, m) ==
  /\ w.showing = u.showing /\ w.answers = u.answers /\ w.gone = u.gone
  /\ w.resolved = u.resolved /\ w.batchUp = u.batchUp /\ w.installUp = u.installUp
  /\ w.asking = u.asking
  /\ Times(u.order, w.showing) # 0 => Times(w.order, w.showing) # 0
  /\ \A n \in Positive :
       /\ Times(w.order, n) = Times(u.order, n) + (IF g = "consent" THEN Is(m, n) ELSE 0)
       /\ Times(w.batches, n) = Times(u.batches, n) + (IF g = "batch" THEN Is(m, n) ELSE 0)
       /\ Times(w.installs, n) = Times(u.installs, n) + (IF g = "install" THEN Is(m, n) ELSE 0)
       /\ Times(w.polkit, n) = Times(u.polkit, n) + (IF g = "polkit" THEN Is(m, n) ELSE 0)
       /\ Count(w.subjects, n) = Count(u.subjects, n) + (IF g = "approval" THEN Is(m, n) ELSE 0)
       /\ Erasing(w, n) = Erasing(u, n) + (IF g = "erase" THEN Is(m, n) ELSE 0)

(* It is the next ask, and counted where it joined.                        *)
LEMMA JoinsAccounted ==
  ASSUME AskedPart, NEW k \in Nat, NEW u \in State, Accounted(u, k), NEW w \in State,
         NEW g \in {"consent", "batch", "install", "polkit", "approval", "erase"},
         Joins(u, w, g, k + 1)
  PROVE  Accounted(w, k + 1)
<1>1. ASSUME NEW n \in Positive PROVE Total(w, n) = Total(u, n) + Is(k + 1, n)
  <2> DEFINE d == Is(k + 1, n)
             a1 == Times(u.order, n)
             a2 == Count(u.resolved, n)
             a3 == Times(u.batches, n)
             a4 == BatchIs(u.batchUp, n)
             a5 == Times(u.installs, n)
             a6 == Is(u.installUp, n)
             a7 == Times(u.polkit, n)
             a8 == Count(u.subjects, n)
             a9 == Is(u.asking, n)
             a10 == Erasing(u, n)
             a11 == Over(u, n)
             b1 == Times(w.order, n)
             b3 == Times(w.batches, n)
             b5 == Times(w.installs, n)
             b7 == Times(w.polkit, n)
             b8 == Count(w.subjects, n)
             b10 == Erasing(w, n)
  <2>1. /\ a1 \in Nat /\ a2 \in Nat /\ a3 \in Nat /\ a4 \in Nat /\ a5 \in Nat /\ a6 \in Nat
        /\ a7 \in Nat /\ a8 \in Nat /\ a9 \in Nat /\ a10 \in Nat /\ a11 \in Nat /\ d \in Nat
    BY TotalType DEF Parted, Summed, Is
  <2>2. /\ b1 = a1 + (IF g = "consent" THEN d ELSE 0)
        /\ b3 = a3 + (IF g = "batch" THEN d ELSE 0)
        /\ b5 = a5 + (IF g = "install" THEN d ELSE 0)
        /\ b7 = a7 + (IF g = "polkit" THEN d ELSE 0)
        /\ b8 = a8 + (IF g = "approval" THEN d ELSE 0)
        /\ b10 = a10 + (IF g = "erase" THEN d ELSE 0)
    BY <1>1 DEF Joins
  <2>3. Total(u, n) = (a1 + a2) + (a3 + a4) + (a5 + a6) + a7 + (a8 + a9) + a10 + a11
    BY DEF Total, Consented, Batched, Installing, Requested, Commanded
  <2>4. Total(w, n) = (b1 + a2) + (b3 + a4) + (b5 + a6) + b7 + (b8 + a9) + b10 + a11
    BY DEF Total, Consented, Batched, Installing, Requested, Commanded, Over, Joins
  <2> HIDE DEF d, a1, a2, a3, a4, a5, a6, a7, a8, a9, a10, a11, b1, b3, b5, b7, b8, b10
  <2>5. (b1 + a2) + (b3 + a4) + (b5 + a6) + b7 + (b8 + a9) + b10 + a11
          = (a1 + a2) + (a3 + a4) + (a5 + a6) + a7 + (a8 + a9) + a10 + a11 + d
    <3>1. CASE g = "consent"
      BY <2>1, <2>2, <3>1
    <3>2. CASE g = "batch"
      BY <2>1, <2>2, <3>2
    <3>3. CASE g = "install"
      BY <2>1, <2>2, <3>3
    <3>4. CASE g = "polkit"
      BY <2>1, <2>2, <3>4
    <3>5. CASE g = "approval"
      BY <2>1, <2>2, <3>5
    <3>6. CASE g = "erase"
      BY <2>1, <2>2, <3>6
    <3> QED BY <3>1, <3>2, <3>3, <3>4, <3>5, <3>6
  <2> QED BY <2>3, <2>4, <2>5 DEF d
<1>2. Shows(w)
  BY DEF Accounted, Shows, Joins
<1>3. ASSUME NEW n \in Positive PROVE Total(w, n) + Spoken(n) = IF n <= k + 1 THEN 1 ELSE 0
  <2>1. Total(u, n) \in Nat /\ Spoken(n) \in Nat /\ n \in Nat
    BY TotalType, SpokenType DEF Summed, Positive
  <2>2. Total(u, n) + Spoken(n) = IF n <= k THEN 1 ELSE 0
    BY <1>3 DEF Accounted
  <2>3. Total(w, n) = Total(u, n) + (IF k + 1 = n THEN 1 ELSE 0)
    BY <1>1, <1>3 DEF Is
  <2> QED BY <2>1, <2>2, <2>3
<1> QED BY <1>2, <1>3 DEF Accounted

(* The answers are told at the end of the handler.                         *)
LEMMA BecomesInv ==
  ASSUME IInv, NEW u, Sound(u), NotLeft(u), asked' \in 0..MaxAsks, Accounted(u, asked'),
         Becomes(u)
  PROVE  IInv'
<1> DEFINE v == [u EXCEPT !.answers = <<>>]
<1>1. ui' = v /\ told' = [n \in Ask |-> told[n] + Count(u.answers, n)]
  BY DEF Becomes
<1>2. u \in State /\ Parts(u)
  BY DEF Sound
<1>3. v \in State /\ SameUp(u, v)
  <2>1. <<>> \in Seq(Nat)
    OBVIOUS
  <2> QED BY <1>2, <2>1 DEF State, SameUp
<1>4. /\ v.order = u.order /\ v.showing = u.showing /\ v.resolved = u.resolved
      /\ v.batches = u.batches /\ v.batchUp = u.batchUp /\ v.installs = u.installs
      /\ v.installUp = u.installUp /\ v.subjects = u.subjects /\ v.asking = u.asking
      /\ v.erasing = u.erasing /\ v.answers = <<>> /\ v.gone = u.gone
      /\ v.polkit = u.polkit
  BY <1>2 DEF State
<1> HIDE DEF v
<1>5. Sound(v) /\ NotLeft(v)
  BY <1>2, <1>3, SameUpKeeps, KeepsSound DEF Keeps, Like
<1>6. PromptsInv'
  BY <1>1, <1>5 DEF PromptsInv, Sound, NotLeft, Parts, ConsentPart, BatchPart,
     InstallPart, BrokerPart, PolkitPart, ApprovalPart, ErasePart, PanelPart, Seated, Free
<1>7. \A n : Count(u.answers, n) \in Nat
  <2>1. u.answers \in Seq(Nat)
    BY <1>2 DEF State
  <2> QED BY <2>1, CountType
<1>8. AskedPart'
  <2>1. told' \in [Ask -> Nat]
    BY <1>1, <1>7 DEF IInv, AskedPart
  <2> QED BY <1>1, <1>4, <2>1 DEF AskedPart
<1>9. ASSUME NEW n \in Positive PROVE Total(u, n) = Total(v, n) + Count(u.answers, n)
  <2>1. Count(<<>>, n) = 0
    BY CountOne
  <2>2. Over(u, n) = Over(v, n) + Count(u.answers, n)
    <3>1. In(n, u.gone) \in Nat /\ Count(u.answers, n) \in Nat
      BY <1>7 DEF In
    <3> QED BY <1>4, <2>1, <3>1 DEF Over
  <2>3. /\ Consented(v, n) = Consented(u, n) /\ Batched(v, n) = Batched(u, n)
        /\ Installing(v, n) = Installing(u, n) /\ Requested(v, n) = Requested(u, n)
        /\ Commanded(v, n) = Commanded(u, n) /\ Erasing(v, n) = Erasing(u, n)
    BY <1>4 DEF Consented, Batched, Installing, Requested, Commanded, Erasing
  <2> DEFINE rest == Consented(v, n) + Batched(v, n) + Installing(v, n) + Requested(v, n)
                       + Commanded(v, n) + Erasing(v, n)
  <2>4. Total(u, n) = rest + Over(u, n) /\ Total(v, n) = rest + Over(v, n)
    BY <2>3 DEF Total
  <2>5. rest \in Nat /\ Over(v, n) \in Nat
    BY <1>3, TotalType DEF Summed
  <2> HIDE DEF rest
  <2> QED BY <1>7, <2>2, <2>4, <2>5
<1>10. ASSUME NEW n \in Positive PROVE Total(v, n) + Spoken(n)' = IF n <= asked' THEN 1 ELSE 0
  <2>1. Total(u, n) + Spoken(n) = IF n <= asked' THEN 1 ELSE 0
    BY <1>10 DEF Accounted
  <2>2. Total(u, n) = Total(v, n) + Count(u.answers, n)
    BY <1>9, <1>10
  <2>3. Total(v, n) \in Nat /\ Count(u.answers, n) \in Nat
    BY <1>3, <1>7, TotalType DEF Summed
  <2>4. CASE n \in Ask
    <3>1. Spoken(n) = told[n] /\ Spoken(n)' = told[n] + Count(u.answers, n)
      BY <1>1, <2>4 DEF Spoken
    <3>2. told[n] \in Nat
      BY <2>4 DEF IInv, AskedPart
    <3> QED BY <2>1, <2>2, <2>3, <3>1, <3>2
  <2>5. CASE n \notin Ask
    <3>1. ~(n <= asked')
      BY <2>5, PromptsAssumption DEF Ask, Positive
    <3>2. Spoken(n) = 0 /\ Spoken(n)' = 0
      BY <2>5 DEF Spoken, Ask
    <3> QED BY <2>1, <2>2, <2>3, <3>1, <3>2
  <2> QED BY <2>4, <2>5
<1>11. Shows(v)
  BY <1>4 DEF Accounted, Shows
<1>12. Accounted(ui, asked)'
  <2>1. Shows(ui)' /\ \A n \in Positive : Total(ui, n)' = Total(v, n)
    BY <1>1, <1>11 DEF Shows, Total, Consented, Batched, Installing, Requested, Commanded,
       Erasing, Over
  <2> QED BY <1>10, <2>1 DEF Accounted
<1> QED BY <1>6, <1>8, <1>12 DEF IInv

-----------------------------------------------------------------------------
(* Every handler keeps the invariant.                                      *)

(* What a handler starts from.                                             *)
LEMMA InvTypes ==
  ASSUME IInv
  PROVE  /\ ui \in State /\ Sound(ui) /\ NotLeft(ui) /\ Parts(ui) /\ PanelPart(ui)
         /\ PromptsInv /\ AskedPart /\ Accounted(ui, asked)
         /\ asked \in Nat /\ asked \in 0..MaxAsks
BY PromptsAssumption DEF IInv, PromptsInv, AskedPart, Sound

(* A handler that is a chain of functions that keep and move.              *)
LEMMA KeepsBecomes ==
  ASSUME IInv, NEW u, Keeps(ui, u), Moves(ui, u), Becomes(u), asked' = asked
  PROVE  IInv'
<1>1. Sound(u) /\ NotLeft(u)
  BY InvTypes, KeepsSound DEF Keeps, Like
<1>2. Accounted(u, asked)
  BY InvTypes, MovesAccounted
<1> QED BY <1>1, <1>2, InvTypes, BecomesInv

(* A handler that ends with polkit's turn.                                 *)
LEMMA ScheduleBecomes ==
  ASSUME IInv, NEW u, Sound(u), asked' \in 0..MaxAsks, Accounted(u, asked'),
         Becomes(PolkitSchedule(u))
  PROVE  IInv'
<1> DEFINE v == PolkitSchedule(u)
<1>1. Keeps(u, v) /\ NotLeft(v) /\ Moves(u, v) /\ u \in State
  BY PolkitScheduleKeeps, PolkitScheduleMoves DEF Sound
<1> HIDE DEF v
<1>2. Sound(v)
  BY <1>1, KeepsSound
<1>3. asked' \in Nat
  BY PromptsAssumption
<1>4. Accounted(v, asked')
  BY <1>1, <1>3, InvTypes, MovesAccounted
<1> QED BY <1>1, <1>2, <1>4, BecomesInv DEF v

(* An ask is counted once it is in its owner's queue.                      *)
LEMMA AskedAccounted ==
  ASSUME IInv, NEW kind, Asks(kind), NEW w \in State,
         NEW g \in {"consent", "batch", "install", "polkit", "approval", "erase"},
         Joins(ui, w, g, asked')
  PROVE  Accounted(w, asked')
<1>1. asked' = asked + 1
  BY DEF Asks
<1> QED BY <1>1, InvTypes, JoinsAccounted

(* The ask that comes is the next, within the bound.                       *)
LEMMA AskedType ==
  ASSUME IInv, NEW kind, Asks(kind)
  PROVE  asked' \in 0..MaxAsks /\ asked' \in Positive /\ asked' \in Nat
BY InvTypes, PromptsAssumption DEF Asks, Positive

(* An owner's queue is longer, and its schedule has run.                   *)
LEMMA QueuedBecomes ==
  ASSUME IInv, asked' \in 0..MaxAsks, NEW u \in State, SameUp(ui, u), Accounted(u, asked'),
         NEW v, Keeps(ui, u) => Keeps(u, v) /\ Moves(u, v), Becomes(v)
  PROVE  IInv'
<1>1. Keeps(ui, u)
  BY InvTypes, SameUpKeeps
<1>2. Keeps(ui, v) /\ Moves(u, v)
  BY <1>1, KeepsTrans
<1>3. asked' \in Nat
  BY PromptsAssumption
<1>4. Accounted(v, asked')
  BY <1>2, <1>3, InvTypes, MovesAccounted
<1>5. Sound(v) /\ NotLeft(v)
  BY <1>2, InvTypes, KeepsSound DEF Keeps, Like
<1> QED BY <1>4, <1>5, BecomesInv

(* A longer queue changes nothing that is up.                              *)
LEMMA ConsentAskedStep ==
  ASSUME IInv, NEW a \in Agents, NEW b \in BOOLEAN, ConsentAsked(a, b)
  PROVE  IInv'
<1> DEFINE p == [n |-> asked', agent |-> a, drawable |-> b]
           s == Append(ui.order, p)
           u == [ui EXCEPT !.order = s]
           v == ConsentSchedule(u)
<1>0. Asks("consent") /\ ui \in State
  BY InvTypes DEF ConsentAsked
<1>1. ui.order \in Seq(Consents) /\ ui.showing \in Nat /\ asked' \in Positive
      /\ asked' \in 0..MaxAsks /\ asked' \in Nat
  BY <1>0, AskedType DEF State
<1>2. p \in Consents /\ p.n = asked'
  BY <1>1 DEF Consents
<1> HIDE DEF p
<1>3. u \in State /\ SameUp(ui, u)
  <2>1. s \in Seq(Consents)
    BY <1>1, <1>2
  <2> HIDE DEF s
  <2> QED BY <1>0, <2>1 DEF State, SameUp
<1>4. Becomes(v)
  BY <1>0 DEF ConsentAsked, p, State
<1>5. \A n : Times(s, n) = Times(ui.order, n) + Is(asked', n)
  BY <1>1, <1>2, QueuesHaveNumbers, TimesAppend DEF Is
<1>6. \A n : Times(ui.order, n) \in Nat /\ Is(asked', n) \in Nat
  BY <1>1, QueuesHaveNumbers, TimesType DEF Is
<1>7. Joins(ui, u, "consent", asked')
  <2>1. /\ u.order = s /\ u.showing = ui.showing /\ u.resolved = ui.resolved
        /\ u.batches = ui.batches /\ u.batchUp = ui.batchUp /\ u.installs = ui.installs
        /\ u.installUp = ui.installUp /\ u.subjects = ui.subjects /\ u.asking = ui.asking
        /\ u.erasing = ui.erasing /\ u.answers = ui.answers /\ u.gone = ui.gone
        /\ u.polkit = ui.polkit
    BY <1>0 DEF State
  <2> HIDE DEF s, u
  <2>2. \A n \in Positive :
          /\ Times(u.order, n) = Times(ui.order, n) + Is(asked', n)
          /\ Times(u.batches, n) = Times(ui.batches, n) + 0
          /\ Times(u.installs, n) = Times(ui.installs, n) + 0
          /\ Times(u.polkit, n) = Times(ui.polkit, n) + 0
          /\ Count(u.subjects, n) = Count(ui.subjects, n) + 0
          /\ Erasing(u, n) = Erasing(ui, n) + 0
    BY <1>0, <1>5, <2>1, TotalType DEF Parted, Summed, Erasing
  <2>3. Times(ui.order, u.showing) # 0 => Times(u.order, u.showing) # 0
    BY <1>5, <1>6, <2>1
  <2> QED BY <2>1, <2>2, <2>3 DEF Joins
<1> HIDE DEF s, u
<1>8. Accounted(u, asked')
  BY <1>0, <1>3, <1>7, AskedAccounted
<1>9. Keeps(ui, u) => Keeps(u, v) /\ Moves(u, v)
  BY ConsentScheduleKeeps, ConsentScheduleMoves DEF Keeps
<1> HIDE DEF v
<1> QED BY <1>1, <1>3, <1>4, <1>8, <1>9, QueuedBecomes

(* batch.rs ask.                                                           *)
LEMMA BatchAskedStep ==
  ASSUME IInv, NEW a \in Agents, NEW b \in BOOLEAN, BatchAsked(a, b)
  PROVE  IInv'
<1> DEFINE p == [n |-> asked', agent |-> a, long |-> b]
           s == Append(ui.batches, p)
           u == [ui EXCEPT !.batches = s]
           v == BatchSchedule(u)
<1>0. Asks("batch") /\ ui \in State
  BY InvTypes DEF BatchAsked
<1>1. ui.batches \in Seq(BatchAsk) /\ asked' \in Positive /\ asked' \in 0..MaxAsks /\ asked' \in Nat
  BY <1>0, AskedType DEF State
<1>2. p \in BatchAsk /\ p.n = asked'
  BY <1>1 DEF BatchAsk
<1> HIDE DEF p
<1>3. u \in State /\ SameUp(ui, u)
  <2>1. s \in Seq(BatchAsk)
    BY <1>1, <1>2
  <2> HIDE DEF s
  <2> QED BY <1>0, <2>1 DEF State, SameUp
<1>4. Becomes(v)
  BY <1>0 DEF BatchAsked, p, State
<1>5. \A n : Times(s, n) = Times(ui.batches, n) + Is(asked', n)
  BY <1>1, <1>2, QueuesHaveNumbers, TimesAppend DEF Is
<1>6. Joins(ui, u, "batch", asked')
  <2>1. /\ u.order = ui.order /\ u.showing = ui.showing /\ u.resolved = ui.resolved
        /\ u.batches = s /\ u.batchUp = ui.batchUp /\ u.installs = ui.installs
        /\ u.installUp = ui.installUp /\ u.subjects = ui.subjects /\ u.asking = ui.asking
        /\ u.erasing = ui.erasing /\ u.answers = ui.answers /\ u.gone = ui.gone
        /\ u.polkit = ui.polkit
    BY <1>0 DEF State
  <2> HIDE DEF s, u
  <2>2. \A n \in Positive :
          /\ Times(u.order, n) = Times(ui.order, n) + 0
          /\ Times(u.batches, n) = Times(ui.batches, n) + Is(asked', n)
          /\ Times(u.installs, n) = Times(ui.installs, n) + 0
          /\ Times(u.polkit, n) = Times(ui.polkit, n) + 0
          /\ Count(u.subjects, n) = Count(ui.subjects, n) + 0
          /\ Erasing(u, n) = Erasing(ui, n) + 0
    BY <1>0, <1>5, <2>1, TotalType DEF Parted, Summed, Erasing
  <2> QED BY <2>1, <2>2 DEF Joins
<1> HIDE DEF s, u
<1>7. Accounted(u, asked')
  BY <1>0, <1>3, <1>6, AskedAccounted
<1>8. Keeps(ui, u) => Keeps(u, v) /\ Moves(u, v)
  BY BatchScheduleKeeps, BatchScheduleMoves DEF Keeps
<1> HIDE DEF v
<1> QED BY <1>1, <1>3, <1>4, <1>7, <1>8, QueuedBecomes

(* install.rs review.                                                      *)
LEMMA InstallAskedStep ==
  ASSUME IInv, NEW b \in BOOLEAN, InstallAsked(b)
  PROVE  IInv'
<1> DEFINE p == [n |-> asked', drawable |-> b]
           s == Append(ui.installs, p)
           u == [ui EXCEPT !.installs = s]
           v == InstallSchedule(u)
<1>0. Asks("install") /\ ui \in State
  BY InvTypes DEF InstallAsked
<1>1. ui.installs \in Seq(Reviews) /\ asked' \in Positive /\ asked' \in 0..MaxAsks /\ asked' \in Nat
  BY <1>0, AskedType DEF State
<1>2. p \in Reviews /\ p.n = asked'
  BY <1>1 DEF Reviews
<1> HIDE DEF p
<1>3. u \in State /\ SameUp(ui, u)
  <2>1. s \in Seq(Reviews)
    BY <1>1, <1>2
  <2> HIDE DEF s
  <2> QED BY <1>0, <2>1 DEF State, SameUp
<1>4. Becomes(v)
  BY <1>0 DEF InstallAsked, p, State
<1>5. \A n : Times(s, n) = Times(ui.installs, n) + Is(asked', n)
  BY <1>1, <1>2, QueuesHaveNumbers, TimesAppend DEF Is
<1>6. Joins(ui, u, "install", asked')
  <2>1. /\ u.order = ui.order /\ u.showing = ui.showing /\ u.resolved = ui.resolved
        /\ u.batches = ui.batches /\ u.batchUp = ui.batchUp /\ u.installs = s
        /\ u.installUp = ui.installUp /\ u.subjects = ui.subjects /\ u.asking = ui.asking
        /\ u.erasing = ui.erasing /\ u.answers = ui.answers /\ u.gone = ui.gone
        /\ u.polkit = ui.polkit
    BY <1>0 DEF State
  <2> HIDE DEF s, u
  <2>2. \A n \in Positive :
          /\ Times(u.order, n) = Times(ui.order, n) + 0
          /\ Times(u.batches, n) = Times(ui.batches, n) + 0
          /\ Times(u.installs, n) = Times(ui.installs, n) + Is(asked', n)
          /\ Times(u.polkit, n) = Times(ui.polkit, n) + 0
          /\ Count(u.subjects, n) = Count(ui.subjects, n) + 0
          /\ Erasing(u, n) = Erasing(ui, n) + 0
    BY <1>0, <1>5, <2>1, TotalType DEF Parted, Summed, Erasing
  <2> QED BY <2>1, <2>2 DEF Joins
<1> HIDE DEF s, u
<1>7. Accounted(u, asked')
  BY <1>0, <1>3, <1>6, AskedAccounted
<1>8. Keeps(ui, u) => Keeps(u, v) /\ Moves(u, v)
  BY InstallScheduleKeeps, InstallScheduleMoves DEF Keeps
<1> HIDE DEF v
<1> QED BY <1>1, <1>3, <1>4, <1>7, <1>8, QueuedBecomes

(* Polkit's queue changes behind its front, or while that is not up.       *)
LEMMA QueueSet ==
  ASSUME NEW u, Sound(u), NEW p \in Seq(Requests),
         \A i \in 2..Len(p) : p[i].stage = "waiting",
         IF Seated(u, "polkit") THEN p # <<>> /\ u.polkit # <<>> /\ p[1] = u.polkit[1]
         ELSE p # <<>> => p[1].stage # "prompting"
  PROVE  Sound([u EXCEPT !.polkit = p])
<1> DEFINE v == [u EXCEPT !.polkit = p]
<1>1. /\ v \in State /\ v.polkit = p /\ v.seat = u.seat /\ v.asking = u.asking
      /\ v.page = u.page /\ v.showing = u.showing /\ v.batchUp = u.batchUp
      /\ v.brokerUp = u.brokerUp /\ v.installUp = u.installUp /\ v.erasing = u.erasing
  BY DEF State, Sound
<1> HIDE DEF v
<1>2. Sound(v)
  BY <1>1 DEF Sound, Parts, ConsentPart, BatchPart, InstallPart, BrokerPart,
     PolkitPart, ApprovalPart, ErasePart, PanelPart, Seated, Free
<1> QED BY <1>2 DEF v

(* What polkit's handlers know of their queue.                             *)
LEMMA PolkitTypes ==
  ASSUME IInv
  PROVE  /\ ui \in State /\ ui.polkit \in Seq(Requests)
         /\ \A i \in 2..Len(ui.polkit) : ui.polkit[i].stage = "waiting"
         /\ PolkitPart(ui)
BY InvTypes DEF State, Parts, PolkitPart

(* polkit.rs ask: the request goes to the back.                            *)
LEMMA PolkitAskedStep ==
  ASSUME IInv, PolkitAsked
  PROVE  IInv'
<1> DEFINE r == [n |-> asked', stage |-> "waiting", token |-> 0, tries |-> 0]
           p == Append(ui.polkit, r)
           u == [ui EXCEPT !.polkit = p]
<1>0. Asks("polkit")
  BY DEF PolkitAsked
<1>1. ui.polkit \in Seq(Requests) /\ asked' \in Nat /\ asked' \in 0..MaxAsks
  BY <1>0, PolkitTypes, AskedType
<1>2. r \in Requests /\ r.stage = "waiting" /\ r.n = asked'
  BY <1>1 DEF Requests
<1>3. Becomes(PolkitSchedule(u))
  BY PolkitTypes DEF PolkitAsked, State
<1> HIDE DEF r
<1>4. /\ p \in Seq(Requests) /\ Len(p) = Len(ui.polkit) + 1 /\ p # <<>>
      /\ \A i \in 1..Len(ui.polkit) : p[i] = ui.polkit[i]
      /\ p[Len(ui.polkit) + 1].stage = "waiting"
  BY <1>1, <1>2
<1> HIDE DEF p
<1>5. \A i \in 2..Len(p) : p[i].stage = "waiting"
  <2> TAKE i \in 2..Len(p)
  <2>1. i \in 2..Len(ui.polkit) \/ i = Len(ui.polkit) + 1
    BY <1>1, <1>4
  <2> QED BY <1>1, <1>4, <2>1, PolkitTypes
<1>6. IF Seated(ui, "polkit") THEN p # <<>> /\ ui.polkit # <<>> /\ p[1] = ui.polkit[1]
      ELSE p # <<>> => p[1].stage # "prompting"
  <2>1. CASE ui.polkit = <<>>
    BY <1>4, <2>1, PolkitTypes DEF PolkitPart
  <2>2. CASE ui.polkit # <<>>
    <3>1. 1 \in 1..Len(ui.polkit)
      BY <1>1, <2>2
    <3> QED BY <1>4, <2>2, <3>1, PolkitTypes DEF PolkitPart
  <2> QED BY <2>1, <2>2
<1>7. Sound(u)
  BY <1>4, <1>5, <1>6, QueueSet, InvTypes
<1>8. Joins(ui, u, "polkit", asked')
  <2>1. /\ u.order = ui.order /\ u.showing = ui.showing /\ u.resolved = ui.resolved
        /\ u.batches = ui.batches /\ u.batchUp = ui.batchUp /\ u.installs = ui.installs
        /\ u.installUp = ui.installUp /\ u.subjects = ui.subjects /\ u.asking = ui.asking
        /\ u.erasing = ui.erasing /\ u.answers = ui.answers /\ u.gone = ui.gone
        /\ u.polkit = p
    BY PolkitTypes DEF State
  <2>2. \A n : Times(p, n) = Times(ui.polkit, n) + Is(asked', n)
    BY <1>1, <1>2, QueuesHaveNumbers, TimesAppend DEF Is, p
  <2> HIDE DEF u
  <2>3. \A n : Parted(ui, n) /\ Summed(ui, n)
    BY PolkitTypes, TotalType
  <2>4. \A n \in Positive :
          /\ Times(u.order, n) = Times(ui.order, n) + 0
          /\ Times(u.batches, n) = Times(ui.batches, n) + 0
          /\ Times(u.installs, n) = Times(ui.installs, n) + 0
          /\ Times(u.polkit, n) = Times(ui.polkit, n) + Is(asked', n)
          /\ Count(u.subjects, n) = Count(ui.subjects, n) + 0
          /\ Erasing(u, n) = Erasing(ui, n) + 0
    BY <2>1, <2>2, <2>3 DEF Parted, Summed, Erasing
  <2>5. Times(ui.order, u.showing) # 0 => Times(u.order, u.showing) # 0
    BY <2>1
  <2> QED BY <2>1, <2>4, <2>5 DEF Joins
<1> HIDE DEF u
<1>9. Accounted(u, asked')
  BY <1>0, <1>7, <1>8, AskedAccounted DEF Sound
<1> QED BY <1>1, <1>3, <1>7, <1>9, ScheduleBecomes

(* A handler that ends in a sound state to which the asks were moved.      *)
LEMMA MovesBecomes ==
  ASSUME IInv, NEW v, Sound(v), NotLeft(v), Moves(ui, v), Becomes(v), asked' = asked
  PROVE  IInv'
<1>1. Accounted(v, asked)
  BY InvTypes, MovesAccounted
<1> QED BY <1>1, InvTypes, BecomesInv

(* Polkit's turn comes last.                                               *)
LEMMA MovesSchedules ==
  ASSUME IInv, NEW u, Sound(u), Moves(ui, u), Becomes(PolkitSchedule(u)), asked' = asked
  PROVE  IInv'
<1>1. Accounted(u, asked)
  BY InvTypes, MovesAccounted
<1> QED BY <1>1, InvTypes, ScheduleBecomes

(* A request that is withdrawn from polkit's queue.                        *)
LEMMA Removed ==
  ASSUME NEW V, NEW p \in Seq(V), NEW i \in 1..Len(p)
  PROVE  /\ RemoveAt(p, i) \in Seq(V) /\ Len(RemoveAt(p, i)) = Len(p) - 1
         /\ \A k \in 1..(Len(p) - 1) : RemoveAt(p, i)[k] = IF k < i THEN p[k] ELSE p[k + 1]
<1> DEFINE a == SubSeq(p, 1, i - 1)
           b == SubSeq(p, i + 1, Len(p))
<1>1. /\ a \in Seq(V) /\ Len(a) = i - 1 /\ \A k \in 1..(i - 1) : a[k] = p[k]
      /\ b \in Seq(V) /\ Len(b) = Len(p) - i /\ \A k \in 1..(Len(p) - i) : b[k] = p[i + k]
  <2>1. SubSeq(p, 1, i - 1) \in Seq(V) /\ Len(SubSeq(p, 1, i - 1)) = i - 1
    BY SubSeqProperties
  <2> QED BY SubSeqProperties
<1>2. RemoveAt(p, i) = a \o b
  BY DEF RemoveAt
<1> HIDE DEF a, b
<1> Len(p) \in Nat /\ i \in Nat
  OBVIOUS
<1>3. a \o b \in Seq(V) /\ Len(a \o b) = Len(p) - 1
  <2>1. a \o b \in Seq(V) /\ Len(a \o b) = Len(a) + Len(b)
    BY <1>1, ConcatProperties, Zenon
  <2> QED BY <1>1, <2>1
<1>4. \A k \in 1..(Len(p) - 1) : (a \o b)[k] = IF k < i THEN p[k] ELSE p[k + 1]
  <2> TAKE k \in 1..(Len(p) - 1)
  <2>0. k \in Nat /\ (k < i \/ k >= i)
    OBVIOUS
  <2>1. CASE k < i
    <3>1. k \in 1..(i - 1) /\ k \in 1..(Len(a) + Len(b))
      BY <1>1, <2>1
    <3>2. (a \o b)[k] = a[k]
      BY <1>1, <3>1, ConcatProperties
    <3> QED BY <1>1, <2>1, <3>1, <3>2
  <2>2. CASE k >= i
    <3> DEFINE j == k - (i - 1)
    <3>1. k \in 1..(Len(a) + Len(b)) /\ ~(k <= Len(a)) /\ k - Len(a) = j
      BY <1>1, <2>2
    <3>2. (a \o b)[k] = b[j]
      BY <1>1, <3>1, ConcatProperties
    <3>3. j \in 1..(Len(p) - i) /\ i + j = k + 1
      BY <2>2
    <3> HIDE DEF j
    <3>4. b[j] = p[k + 1]
      BY <1>1, <3>3
    <3> QED BY <2>2, <3>2, <3>4
  <2> QED BY <2>0, <2>1, <2>2
<1> QED BY <1>2, <1>3, <1>4

(* The helper's verdict on the password of the front request.              *)
LEMMA PolkitCheckedStep ==
  ASSUME IInv, PolkitChecked
  PROVE  IInv'
<1> DEFINE p == ui.polkit
<1>0. asked' = asked
  BY DEF PolkitChecked
<1>1. /\ p # <<>> /\ p[1].stage = "checking" /\ p[1] \in Requests /\ 1 \in 1..Len(p)
      /\ ~Seated(ui, "polkit") /\ ui \in State /\ p \in Seq(Requests) /\ Head(p).n \in Nat
  <2>1. p # <<>> /\ p[1].stage = "checking"
    BY PolkitTypes DEF PolkitChecked
  <2>2. p[1] \in Requests /\ 1 \in 1..Len(p) /\ Head(p) \in Requests
    BY <2>1, PolkitTypes
  <2> QED BY <2>1, <2>2, PolkitTypes DEF PolkitPart, Requests
<1>2. CASE Becomes(PolkitFinish(ui))
  <2> DEFINE w == [ui EXCEPT !.polkit = Tail(p)]
             n == Head(p).n
  <2>1. /\ Tail(p) \in Seq(Requests) /\ Len(Tail(p)) = Len(p) - 1
        /\ \A i \in 1..Len(Tail(p)) : Tail(p)[i].stage = "waiting"
    BY <1>1, PolkitTypes
  <2>2. Tail(p) # <<>> => Tail(p)[1].stage # "prompting"
    <3>1. Tail(p) # <<>> => 1 \in 1..Len(Tail(p))
      BY <2>1
    <3> QED BY <2>1, <3>1
  <2>3. \A i \in 2..Len(Tail(p)) : Tail(p)[i].stage = "waiting"
    BY <2>1
  <2>4. Sound(w)
    BY <1>1, <2>1, <2>2, <2>3, QueueSet, InvTypes
  <2>5. PolkitFinish(ui) = PolkitSchedule(Answered(w, n))
    BY <1>1 DEF PolkitFinish, State
  <2> HIDE DEF w
  <2>6. Sound(Answered(w, n))
    BY <1>1, <2>4, AnsweredSound
  <2> DEFINE x == Answered(w, n)
             v == PolkitSchedule(x)
  <2> HIDE DEF x
  <2>7. Keeps(x, v) /\ NotLeft(v) /\ Sound(x)
    BY <2>6, PolkitScheduleKeeps DEF Sound, x
  <2>8. Sound(v)
    BY <2>7, KeepsSound
  <2>9. Moves(ui, v) /\ Becomes(v)
    BY <1>1, <1>2, <2>5, PolkitFinishMoves DEF x
  <2> QED BY <1>0, <2>7, <2>8, <2>9, MovesBecomes
<1>3. CASE Becomes(PolkitSchedule([ui EXCEPT !.polkit[1] =
                [Head(p) EXCEPT !.stage = "waiting", !.tries = Head(p).tries + 1]]))
  <2> DEFINE m == p[1].tries + 1
             h == [p[1] EXCEPT !.stage = "waiting", !.tries = m]
             r == [p EXCEPT ![1] = h]
             u == [ui EXCEPT !.polkit = r]
  <2>1. h \in Requests /\ h.stage = "waiting"
    <3>1. m \in Nat
      BY <1>1 DEF Requests
    <3> HIDE DEF m
    <3> QED BY <1>1, <3>1 DEF Requests
  <2>2. [ui EXCEPT !.polkit[1] = [Head(p) EXCEPT !.stage = "waiting", !.tries = Head(p).tries + 1]]
          = u
    <3>1. Head(p) = p[1]
      BY <1>1
    <3> QED BY <1>1, <3>1 DEF State
  <2> HIDE DEF h
  <2>3. r \in Seq(Requests) /\ Len(r) = Len(p) /\ r[1] = h /\ \A i \in 2..Len(r) : r[i] = p[i]
    BY <1>1, <2>1
  <2> HIDE DEF r
  <2>4. Sound(u)
    BY <1>1, <2>1, <2>3, PolkitTypes, QueueSet, InvTypes
  <2>5. \A n \in Positive : Times(r, n) = Times(p, n)
    <3> TAKE n \in Positive
    <3>1. h.n = p[1].n
      BY <1>1 DEF Requests, h
    <3>2. DOMAIN r = DOMAIN p /\ \A k \in DOMAIN r : r[k].n = p[k].n
      BY <1>1, <2>3, <3>1
    <3> HIDE DEF p
    <3> QED BY <3>2, TimesSame
  <2>6. Silent(ui, u)
    BY <1>1, <2>5 DEF State, Silent
  <2> HIDE DEF u
  <2> QED BY <1>0, <1>3, <2>2, <2>4, <2>6, SilentMoves, MovesSchedules
<1> QED BY <1>2, <1>3 DEF PolkitChecked

(* A request that its asker withdraws.                                     *)
RequestGone(u, v, i) ==
  /\ v.order = u.order /\ v.showing = u.showing /\ v.resolved = u.resolved
  /\ v.batches = u.batches /\ v.batchUp = u.batchUp /\ v.installs = u.installs
  /\ v.installUp = u.installUp /\ v.subjects = u.subjects /\ v.asking = u.asking
  /\ v.erasing = u.erasing /\ v.answers = u.answers
  /\ v.gone = u.gone \cup {u.polkit[i].n} /\ v.polkit = RemoveAt(u.polkit, i)

(* It leaves the queue and is counted among the withdrawn.                 *)
LEMMA RequestGoneMoves ==
  ASSUME NEW u \in State, NEW v \in State, NEW i \in 1..Len(u.polkit), RequestGone(u, v, i)
  PROVE  Moves(u, v)
<1> DEFINE m == u.polkit[i].n
           S == {m}
           p == u.polkit
<1>1. p \in Seq(Requests) /\ i \in 1..Len(p)
  BY DEF State
<1>2. \A n : Times(p, n) = Times(v.polkit, n) + Is(m, n)
  <2>1. \A n : Times(p, n) = Times(RemoveAt(p, i), n) + IF p[i].n = n THEN 1 ELSE 0
    <3> HIDE DEF p
    <3> QED BY <1>1, QueuesHaveNumbers, TimesRemoved
  <2>2. v.polkit = RemoveAt(p, i)
    BY DEF RequestGone
  <2> QED BY <2>1, <2>2 DEF Is
<1>3. \A n : Is(m, n) = In(n, S)
  BY DEF Is, In
<1>4. v.answers = u.answers /\ v.gone = u.gone \cup S /\ v.showing = u.showing /\ v.order = u.order
  BY DEF RequestGone
<1> HIDE DEF m, S, p
<1>5. ASSUME Whole(u), NEW n \in Positive PROVE Total(v, n) = Total(u, n)
  <2>1. /\ Summed(u, n) /\ Summed(v, n) /\ In(n, S) \in Nat
    BY TotalType DEF In
  <2>2. Requested(u, n) = Requested(v, n) + In(n, S)
    BY <1>2, <1>3 DEF Requested, p
  <2>3. Requested(u, n) # 0 => n \notin u.gone
    BY <1>5, AtMostOnce DEF Whole
  <2>4. n \in S => n \notin u.gone
    BY SMTT(30), <2>1, <2>2, <2>3 DEF In, Summed
  <2>5. Over(v, n) = Over(u, n) + In(n, S)
    BY <1>4, <2>4, OverGone
  <2>6. /\ Consented(v, n) = Consented(u, n) /\ Batched(v, n) = Batched(u, n)
        /\ Installing(v, n) = Installing(u, n) /\ Commanded(v, n) = Commanded(u, n)
        /\ Erasing(v, n) = Erasing(u, n)
    BY DEF RequestGone, Consented, Batched, Installing, Commanded, Erasing
  <2>7. Leaves(u, v, n, "polkit", In(n, S))
    BY SMTT(30), <2>1, <2>2, <2>5, <2>6 DEF Leaves, Summed
  <2> QED BY <2>1, <2>7, LeavesTotal
<1>6. Shows(u) => Shows(v)
  BY <1>4 DEF Shows
<1> QED BY <1>5, <1>6 DEF Moves, Whole

(* polkit.rs abandon: any request of the queue, up or not.                 *)
LEMMA PolkitAbandonedStep ==
  ASSUME IInv, PolkitAbandoned
  PROVE  IInv'
<1> DEFINE p == ui.polkit
           others(v) == BrokerSchedule(InstallSchedule(BatchSchedule(
                          ConsentSchedule([v EXCEPT !.pump = TRUE]))))
<1>1. PICK i \in DOMAIN p :
        LET u == Gone([ui EXCEPT !.polkit = RemoveAt(@, i)], {p[i].n})
        IN  Becomes(PolkitSchedule(IF p[i].stage = "prompting"
                                   THEN others(Cancel(u, "polkit", p[i].token)) ELSE u))
  BY DEF PolkitAbandoned
<1> DEFINE q == RemoveAt(p, i)
           w == [ui EXCEPT !.polkit = q]
           u == Gone(w, {p[i].n})
           t == p[i].token
<1> HIDE DEF others, q, w, u, t
<1>2. /\ p \in Seq(Requests) /\ i \in 1..Len(p) /\ p[i] \in Requests /\ p[i].n \in Nat
      /\ \A k \in 2..Len(p) : p[k].stage = "waiting"
      /\ ui \in State /\ Parts(ui) /\ PanelPart(ui)
  <2>1. p \in Seq(Requests) /\ \A k \in 2..Len(p) : p[k].stage = "waiting"
    BY PolkitTypes
  <2>2. i \in 1..Len(p)
    BY <2>1
  <2>3. p[i] \in Requests
    <3> HIDE DEF p
    <3> QED BY <2>1, <2>2
  <2>4. p[i].n \in Nat
    BY <2>3 DEF Requests
  <2> QED BY <2>1, <2>2, <2>3, <2>4, InvTypes
<1> USE DEF others, q, w, u, t
<1>3. /\ q \in Seq(Requests) /\ Len(q) = Len(p) - 1
      /\ \A k \in 1..(Len(p) - 1) : q[k] = IF k < i THEN p[k] ELSE p[k + 1]
  BY <1>2, Removed
<1>4. u = [ui EXCEPT !.polkit = q, !.gone = ui.gone \cup {p[i].n}]
  BY <1>2 DEF Gone, State
<1>5. Becomes(PolkitSchedule(IF p[i].stage = "prompting"
                             THEN others(Cancel(u, "polkit", t)) ELSE u))
  BY <1>1 DEF State
<1> HIDE DEF q, u
<1>6. /\ u \in State /\ u.polkit = q /\ u.seat = ui.seat /\ u.asking = ui.asking
      /\ u.page = ui.page /\ u.showing = ui.showing /\ u.batchUp = ui.batchUp
      /\ u.brokerUp = ui.brokerUp /\ u.installUp = ui.installUp /\ u.erasing = ui.erasing
  BY <1>2, <1>3, <1>4 DEF State
<1>10. asked' = asked
  BY DEF PolkitAbandoned
<1>11. Moves(ui, u)
  <2>1. RequestGone(ui, u, i)
    BY <1>2, <1>4 DEF State, RequestGone, q
  <2> QED BY <1>2, <1>6, <2>1, RequestGoneMoves
<1>7. \A k \in 2..Len(q) : q[k].stage = "waiting"
  <2> TAKE k \in 2..Len(q)
  <2>1. k \in 1..(Len(p) - 1) /\ k \in 2..Len(p) /\ k + 1 \in 2..Len(p)
    BY <1>2, <1>3
  <2> QED BY <1>2, <1>3, <2>1
<1>8. CASE p[i].stage = "prompting"
  <2> DEFINE c == Cancel(u, "polkit", t)
             d == [u EXCEPT !.seat = None]
  <2>1. i = 1
    BY <1>2, <1>8
  <2>2. Seated(ui, "polkit") /\ ui.seat.n = t
    BY <1>2, <1>8, <2>1 DEF Parts, PolkitPart
  <2>3. IsUp(u, "polkit", t)
    BY <1>6, <2>2 DEF IsUp, Seated, Free
  <2>4. q # <<>> => q[1].stage = "waiting"
    <3> SUFFICES ASSUME q # <<>> PROVE q[1].stage = "waiting"
      OBVIOUS
    <3>1. 1 \in 1..(Len(p) - 1) /\ 2 \in 2..Len(p)
      BY <1>2, <1>3
    <3>2. q[1] = p[2]
      BY <1>3, <2>1, <3>1
    <3> QED BY <1>2, <3>1, <3>2
  <2>5. /\ d.polkit = q /\ d.seat = None /\ d.asking = ui.asking
        /\ d.page = ui.page /\ d.showing = ui.showing /\ d.batchUp = ui.batchUp
        /\ d.brokerUp = ui.brokerUp /\ d.installUp = ui.installUp /\ d.erasing = ui.erasing
    BY <1>6 DEF State
  <2> HIDE DEF d, t
  <2>6. Parts(d)
    BY <1>2, <1>7, <2>2, <2>4, <2>5 DEF Parts, ConsentPart, BatchPart, InstallPart, BrokerPart,
       PolkitPart, ApprovalPart, ErasePart, Seated, Free
  <2>7. Keeps(u, c)
    BY <1>6, <2>3, <2>6, CancelKeeps DEF d
  <2>8. PanelPart(u)
    BY <1>2, <1>6 DEF PanelPart, Seated, Free
  <2>9. Sound(c)
    BY <2>7, <2>8 DEF Keeps, Like, PanelSame, Sound, PanelPart
  <2>13. Moves(u, c)
    BY <1>6, CancelMoves
  <2> HIDE DEF c
  <2>10. Keeps(c, others(c)) /\ Moves(c, others(c))
    BY <2>9, OthersKeep, OthersMove DEF Sound
  <2> HIDE DEF others
  <2>11. Sound(others(c))
    BY <2>9, <2>10, KeepsSound
  <2>12. Becomes(PolkitSchedule(others(c)))
    BY <1>5, <1>8 DEF c
  <2>14. Moves(ui, others(c))
    BY <1>11, <2>10, <2>13, MovesTrans
  <2> QED BY <1>10, <2>11, <2>12, <2>14, MovesSchedules
<1>9. CASE p[i].stage # "prompting"
  <2>1. IF Seated(ui, "polkit") THEN q # <<>> /\ p # <<>> /\ q[1] = p[1]
        ELSE q # <<>> => q[1].stage # "prompting"
    <3>1. Seated(ui, "polkit") => i # 1 /\ p # <<>>
      BY <1>2, <1>9 DEF Parts, PolkitPart
    <3>2. ~Seated(ui, "polkit") => p[1].stage # "prompting"
      BY <1>2 DEF Parts, PolkitPart
    <3>3. i # 1 => 1 \in 1..(Len(p) - 1) /\ q # <<>> /\ q[1] = p[1]
      BY <1>2, <1>3
    <3>4. i = 1 /\ q # <<>> => q[1].stage = "waiting"
      <4> SUFFICES ASSUME i = 1, q # <<>> PROVE q[1].stage = "waiting"
        OBVIOUS
      <4>1. 1 \in 1..(Len(p) - 1) /\ 2 \in 2..Len(p)
        BY <1>2, <1>3
      <4> QED BY <1>2, <1>3, <4>1
    <3> QED BY <3>1, <3>2, <3>3, <3>4
  <2>2. Sound(w)
    <3> HIDE DEF p
    <3> QED BY <1>3, <1>7, <2>1, InvTypes, QueueSet DEF p
  <2>3. w \in State /\ Parts(w) /\ PanelPart(w)
    BY <2>2 DEF Sound
  <2>4. SameUp(w, u)
    BY <1>2, <1>3, <1>6 DEF SameUp, State
  <2> HIDE DEF w
  <2>5. Sound(u)
    BY <1>6, <2>2, <2>3, <2>4, SameUpKeeps, KeepsSound
  <2> QED BY <1>5, <1>9, <1>10, <1>11, <2>5, MovesSchedules
<1> QED BY <1>8, <1>9

(* broker.rs start, prompt and reply, and the session lock.                *)
LEMMA BrokerSteps ==
  ASSUME IInv, BrokerPrompted \/ BrokerReplies \/ LockChanges
  PROVE  IInv'
<1> DEFINE b(s) == [ui EXCEPT !.broker = s]
           l == [ui EXCEPT !.brokerQueued = @ /\ locked,
                           !.broker = IF @ = "off" THEN @ ELSE "asking"]
<1>0. asked' = asked
  BY DEF BrokerPrompted, BrokerReplies, LockChanges
<1>1. ui \in State /\ Parts(ui)
  BY InvTypes
<1>2. \A s \in {"asking", "prompt", "idle"} : Keeps(ui, b(s)) /\ Moves(ui, b(s))
  <2> TAKE s \in {"asking", "prompt", "idle"}
  <2>1. b(s) \in State /\ SameUp(ui, b(s)) /\ Silent(ui, b(s))
    BY <1>1 DEF State, SameUp, Silent
  <2> HIDE DEF b
  <2> QED BY <1>1, <2>1, SameUpKeeps, SilentMoves
<1>3. \A s \in {"prompt", "idle"} : Keeps(ui, BrokerShow(b(s))) /\ Moves(ui, BrokerShow(b(s)))
  <2> TAKE s \in {"prompt", "idle"}
  <2> HIDE DEF b
  <2>1. Keeps(b(s), BrokerShow(b(s))) /\ Moves(b(s), BrokerShow(b(s)))
    BY <1>2, BrokerShowKeeps, BrokerShowMoves DEF Keeps
  <2> QED BY <1>2, <2>1, KeepsTrans, MovesTrans
<1>4. CASE BrokerPrompted
  <2>1. Becomes(b("asking"))
    BY <1>4 DEF BrokerPrompted
  <2> HIDE DEF b
  <2> QED BY <1>0, <1>2, <2>1, KeepsBecomes
<1>5. CASE BrokerReplies
  <2>1. Becomes(b("idle")) \/ \E s \in {"prompt", "idle"} : Becomes(BrokerShow(b(s)))
    BY <1>5 DEF BrokerReplies
  <2> HIDE DEF b
  <2> QED BY <1>0, <1>2, <1>3, <2>1, KeepsBecomes
<1>6. CASE LockChanges
  <2>1. Becomes(l)
    BY <1>6 DEF LockChanges
  <2> DEFINE x == ui.brokerQueued /\ locked
             y == IF ui.broker = "off" THEN ui.broker ELSE "asking"
             k == [ui EXCEPT !.brokerQueued = x, !.broker = y]
  <2>2. x \in BOOLEAN /\ y \in {"off", "asking"} /\ l = k
    <3>1. x \in BOOLEAN
      OBVIOUS
    <3>2. l = k
      BY <1>1 DEF State
    <3> QED BY <3>1, <3>2
  <2> HIDE DEF x, y, l
  <2>3. k \in State /\ SameUp(ui, k) /\ Silent(ui, k)
    BY <1>1, <2>2 DEF State, SameUp, Silent
  <2> HIDE DEF k
  <2>4. l \in State /\ SameUp(ui, l) /\ Silent(ui, l)
    BY <2>2, <2>3
  <2>5. Keeps(ui, l) /\ Moves(ui, l)
    BY <1>1, <2>4, SameUpKeeps, SilentMoves
  <2> QED BY <1>0, <2>1, <2>5, KeepsBecomes
<1> QED BY <1>4, <1>5, <1>6

(* withhold.rs settle: a command is withheld, or no more.                  *)
LEMMA WithheldSteps ==
  ASSUME IInv, ApprovalAsked \/ ApprovalWithdrawn
  PROVE  IInv'
<1>1. ui \in State /\ Parts(ui)
  BY InvTypes
<1>2. CASE ApprovalAsked
  <2> DEFINE w == ui.withheld \cup {asked'}
             s == Append(ui.subjects, asked')
             u == [ui EXCEPT !.withheld = w, !.subjects = s, !.pump = TRUE]
  <2>0. Asks("approval") /\ ui.subjects \in Seq(Positive)
    BY <1>1, <1>2 DEF ApprovalAsked, State
  <2>1. asked' \in Positive /\ asked' \in 0..MaxAsks
    BY <2>0, AskedType
  <2>2. w \in SUBSET Nat /\ s \in Seq(Positive)
    BY <1>1, <2>1 DEF State, Positive
  <2>3. Becomes(u)
    BY <1>1, <1>2 DEF ApprovalAsked, State
  <2>4. \A n : Count(s, n) = Count(ui.subjects, n) + Is(asked', n)
    BY <2>0, <2>1, CountAppend DEF Is
  <2> HIDE DEF w, s
  <2>5. u \in State /\ SameUp(ui, u)
    BY <1>1, <2>2 DEF State, SameUp
  <2>6. Joins(ui, u, "approval", asked')
    <3>1. /\ u.order = ui.order /\ u.showing = ui.showing /\ u.resolved = ui.resolved
          /\ u.batches = ui.batches /\ u.batchUp = ui.batchUp /\ u.installs = ui.installs
          /\ u.installUp = ui.installUp /\ u.subjects = s /\ u.asking = ui.asking
          /\ u.erasing = ui.erasing /\ u.answers = ui.answers /\ u.gone = ui.gone
          /\ u.polkit = ui.polkit
      BY <1>1 DEF State
    <3> HIDE DEF u
    <3>2. \A n : Parted(ui, n) /\ Summed(ui, n)
      BY <1>1, TotalType
    <3>3. \A n \in Positive :
            /\ Times(u.order, n) = Times(ui.order, n) + 0
            /\ Times(u.batches, n) = Times(ui.batches, n) + 0
            /\ Times(u.installs, n) = Times(ui.installs, n) + 0
            /\ Times(u.polkit, n) = Times(ui.polkit, n) + 0
            /\ Count(u.subjects, n) = Count(ui.subjects, n) + Is(asked', n)
            /\ Erasing(u, n) = Erasing(ui, n) + 0
      BY <2>4, <3>1, <3>2 DEF Parted, Summed, Erasing
    <3> QED BY <3>1, <3>3 DEF Joins
  <2> HIDE DEF u
  <2>7. Accounted(u, asked')
    BY <2>0, <2>5, <2>6, AskedAccounted
  <2>8. Keeps(u, u) /\ Moves(u, u)
    BY <1>1, <2>5, SameUpKeeps, KeepsSelf, MovesSelf DEF Keeps
  <2> QED BY <2>1, <2>3, <2>5, <2>7, <2>8, QueuedBecomes
<1>3. CASE ApprovalWithdrawn
  <2>1. PICK n \in ui.withheld :
          Becomes(Gone(Unwithhold(ui, n), IF Contains(ui.subjects, n) THEN {n} ELSE {}))
    BY <1>3 DEF ApprovalWithdrawn
  <2> DEFINE s == Without(ui.subjects, {n})
             g == IF Contains(ui.subjects, n) THEN {n} ELSE {}
             x == Unwithhold(ui, n)
             u == Gone(x, g)
  <2>2. s \in Seq(Positive) /\ n \in Nat /\ g \in SUBSET Nat
    BY <1>1, WithoutType DEF State
  <2>3. x = [ui EXCEPT !.withheld = ui.withheld \ {n}, !.subjects = s, !.pump = TRUE]
    BY <1>1 DEF Unwithhold, State
  <2> HIDE DEF s, g, x
  <2>4. x \in State /\ SameUp(ui, x)
    BY <1>1, <2>2, <2>3 DEF State, SameUp
  <2>5. u = [x EXCEPT !.gone = x.gone \cup g]
    BY <2>4 DEF Gone, State
  <2>6. Becomes(u)
    BY <2>1 DEF x, g
  <2>7. Moves(ui, u)
    BY <1>1, <2>2, CommandGoneMoves DEF x, g
  <2> HIDE DEF u
  <2>8. u \in State /\ SameUp(ui, u)
    BY <2>2, <2>4, <2>5 DEF State, SameUp
  <2>9. Keeps(ui, u) /\ asked' = asked
    BY <1>1, <1>3, <2>8, SameUpKeeps DEF ApprovalWithdrawn
  <2> QED BY <2>6, <2>7, <2>9, KeepsBecomes
<1> QED BY <1>2, <1>3

(* approval.rs pump, and the end of the quiet after a refusal.             *)
LEMMA PumpSteps ==
  ASSUME IInv, PumpRuns \/ QuietEnds
  PROVE  IInv'
<1>1. ui \in State /\ Parts(ui)
  BY InvTypes
<1>2. CASE PumpRuns
  BY <1>1, <1>2, PumpKeeps, PumpMoves, KeepsBecomes DEF PumpRuns
<1>3. CASE QuietEnds
  <2> DEFINE u == [ui EXCEPT !.quiet = FALSE]
  <2>1. u \in State /\ SameUp(ui, u) /\ Silent(ui, u)
    BY <1>1 DEF State, SameUp, Silent
  <2>2. Becomes(Pump(u)) /\ asked' = asked
    BY <1>3 DEF QuietEnds
  <2> HIDE DEF u
  <2>3. Keeps(ui, u) /\ Keeps(u, Pump(u))
    BY <1>1, <2>1, SameUpKeeps, PumpKeeps DEF Keeps
  <2>4. Moves(ui, u) /\ Moves(u, Pump(u))
    BY <2>1, <2>3, SilentMoves, PumpMoves DEF Keeps
  <2>5. Keeps(ui, Pump(u)) /\ Moves(ui, Pump(u))
    BY <2>3, <2>4, KeepsTrans, MovesTrans
  <2> QED BY <2>2, <2>5, KeepsBecomes
<1> QED BY <1>2, <1>3

(* erase.rs ask: the prompt takes a free seat.                             *)
LEMMA EraseAskedStep ==
  ASSUME IInv, EraseAsked
  PROVE  IInv'
<1> DEFINE n == asked'
           o == Open(ui, "erase", n)
           v == [o EXCEPT !.erasing = n]
<1>0. Asks("erase")
  BY DEF EraseAsked
<1>1. /\ ui \in State /\ Parts(ui) /\ PanelPart(ui) /\ n \in Nat /\ n # 0 /\ Free(ui)
      /\ n \in 0..MaxAsks
  BY <1>0, InvTypes, AskedType DEF EraseAsked, Positive
<1>2. Becomes(v)
  BY DEF EraseAsked
<1>7. Silent(ui, o)
  BY <1>1, OpenMoves DEF AllKinds
<1>8. ui.erasing = 0
  BY <1>1 DEF Parts, ErasePart, Seated
<1>9. n = asked'
  OBVIOUS
<1> HIDE DEF n
<1>3. /\ o \in State /\ ~Free(o)
      /\ o = [ui EXCEPT !.seat = [by |-> "erase", n |-> n],
                        !.timers = Append(ui.timers, [by |-> "erase", n |-> n])]
  BY <1>1, OpenIs DEF AllKinds
<1> HIDE DEF o, v
<1>4. /\ v \in State /\ v.seat.by = "erase" /\ v.seat.n = n /\ v.erasing = n
      /\ v.seat = o.seat /\ v.polkit = ui.polkit /\ v.page = ui.page
      /\ v.showing = ui.showing /\ v.installUp = ui.installUp
      /\ v.brokerUp = ui.brokerUp /\ v.batchUp = ui.batchUp /\ v.asking = ui.asking
  BY ZenonT(30), <1>1, <1>3 DEF State, v
<1>5. ~Free(v)
  BY <1>3, <1>4 DEF Free
<1>6. Sound(v) /\ NotLeft(v)
  BY <1>1, <1>4, <1>5 DEF Sound, NotLeft, Parts, ConsentPart, BatchPart, InstallPart,
     BrokerPart, PolkitPart, ApprovalPart, ErasePart, PanelPart, Seated
<1>10. Joins(ui, v, "erase", n)
  <2>1. /\ v.order = o.order /\ v.showing = o.showing /\ v.resolved = o.resolved
        /\ v.batches = o.batches /\ v.batchUp = o.batchUp /\ v.installs = o.installs
        /\ v.installUp = o.installUp /\ v.subjects = o.subjects /\ v.asking = o.asking
        /\ v.answers = o.answers /\ v.gone = o.gone /\ v.polkit = o.polkit
    BY <1>3 DEF State, v
  <2>2. \A k : Parted(ui, k) /\ Summed(ui, k)
    BY <1>1, TotalType
  <2>3. \A k \in Positive : Erasing(ui, k) = 0 /\ Erasing(v, k) = Is(n, k) /\ Is(n, k) \in Nat
    BY <1>4, <1>8 DEF Erasing, Is, Positive
  <2>4. \A k \in Positive :
          /\ Times(v.order, k) = Times(ui.order, k) + 0
          /\ Times(v.batches, k) = Times(ui.batches, k) + 0
          /\ Times(v.installs, k) = Times(ui.installs, k) + 0
          /\ Times(v.polkit, k) = Times(ui.polkit, k) + 0
          /\ Count(v.subjects, k) = Count(ui.subjects, k) + 0
          /\ Erasing(v, k) = Erasing(ui, k) + Is(n, k)
    BY <1>7, <2>1, <2>2, <2>3 DEF Parted, Silent
  <2> QED BY <1>7, <2>1, <2>4 DEF Joins, Silent
<1>11. Accounted(v, asked')
  BY <1>0, <1>4, <1>9, <1>10, AskedAccounted
<1> QED BY <1>1, <1>2, <1>6, <1>9, <1>11, BecomesInv

(* erase.rs abandon: the prompt comes down, and polkit has its turn.       *)
LEMMA EraseAbandonedStep ==
  ASSUME IInv, EraseAbandoned
  PROVE  IInv'
<1> DEFINE n == ui.erasing
           x == Answered([ui EXCEPT !.erasing = 0], n)
           c == Cancel(x, "erase", n)
           d == [x EXCEPT !.seat = None]
<1>1. ui \in State /\ Parts(ui) /\ n \in Nat /\ Seated(ui, "erase") /\ ui.seat.n = n
  BY InvTypes DEF Parts, ErasePart, EraseAbandoned, State
<1>2. Becomes([c EXCEPT !.pump = TRUE])
  BY DEF EraseAbandoned
<1>3. x = [ui EXCEPT !.erasing = 0, !.answers = Append(ui.answers, n)]
  BY <1>1 DEF Answered, State
<1>11. UpIsTold(ui, x, "erase", n)
  BY <1>1, <1>3 DEF State, UpIsTold
<1> HIDE DEF n, x
<1>4. /\ x \in State /\ x.erasing = 0 /\ x.seat = ui.seat /\ x.polkit = ui.polkit
      /\ x.page = ui.page /\ x.showing = ui.showing /\ x.installUp = ui.installUp
      /\ x.brokerUp = ui.brokerUp /\ x.batchUp = ui.batchUp /\ x.asking = ui.asking
  <2>1. Append(ui.answers, n) \in Seq(Nat)
    BY <1>1 DEF State
  <2> QED BY <1>1, <1>3, <2>1 DEF State
<1>5. /\ d.erasing = 0 /\ d.seat = None /\ d.polkit = ui.polkit
      /\ d.page = ui.page /\ d.showing = ui.showing /\ d.installUp = ui.installUp
      /\ d.brokerUp = ui.brokerUp /\ d.batchUp = ui.batchUp /\ d.asking = ui.asking
  BY <1>4 DEF State
<1>6. IsUp(x, "erase", n)
  BY <1>1, <1>4 DEF IsUp, Seated, Free
<1> HIDE DEF d
<1>7. Parts(d)
  BY <1>1, <1>5 DEF Parts, ConsentPart, BatchPart, InstallPart, BrokerPart,
     PolkitPart, ApprovalPart, ErasePart, Seated, Free
<1>12. Moves(ui, x)
  BY <1>1, <1>4, <1>11, UpIsToldMoves
<1>13. Moves(x, c)
  BY <1>4, CancelMoves
<1>8. Keeps(x, c)
  BY <1>4, <1>6, <1>7, CancelKeeps DEF d
<1>9. Like(ui, x)
  BY <1>4 DEF Like, PanelSame, NotLeft, Seated, Free
<1> HIDE DEF c
<1>10. Keeps(ui, c) /\ Keeps(c, [c EXCEPT !.pump = TRUE])
  BY <1>8, <1>9, LikeKeeps, PumpSetKeeps DEF Keeps
<1>14. Moves(c, [c EXCEPT !.pump = TRUE])
  <2> DEFINE d1 == [c EXCEPT !.pump = TRUE]
  <2>1. Silent(c, d1)
    BY <1>10 DEF State, Silent, Keeps
  <2> HIDE DEF d1
  <2>2. Moves(c, d1)
    BY <2>1, SilentMoves
  <2> QED BY <2>2 DEF d1
<1> DEFINE v == [c EXCEPT !.pump = TRUE]
<1> HIDE DEF v
<1>15. Keeps(ui, v) /\ Moves(ui, v)
  BY <1>10, <1>12, <1>13, <1>14, KeepsTrans, MovesTrans DEF v
<1>16. Becomes(v) /\ asked' = asked
  BY <1>2 DEF v, EraseAbandoned
<1> QED BY <1>15, <1>16, KeepsBecomes

(* panel.rs open, over a free seat, or not at all.                         *)
LEMMA PanelOpenedStep ==
  ASSUME IInv, PanelOpened
  PROVE  IInv'
<1> DEFINE v == PanelShow(ui, Overview)
<1>1. Sound(ui) /\ ui \in State /\ Parts(ui) /\ PanelPart(ui)
  BY InvTypes
<1>2. ~Seated(ui, "panel")
  BY <1>1 DEF PanelOpened, PanelPart, Seated
<1>3. Sound(v)
  BY <1>1, <1>2, PanelShowSound DEF Overview
<1>4. NotLeft(v)
  <2>1. CASE Free(ui)
    <3> DEFINE o == Open(ui, "panel", Overview)
    <3>1. o \in State /\ ~Free(o)
      BY <1>1, OpenIs DEF AllKinds, Overview
    <3>2. v = [o EXCEPT !.page = Overview]
      BY <2>1 DEF PanelShow
    <3> HIDE DEF o, v
    <3>3. v.seat = o.seat
      BY <3>1, <3>2 DEF State
    <3> QED BY <3>1, <3>3 DEF NotLeft, Free
  <2>2. CASE ~Free(ui)
    <3>1. v = [ui EXCEPT !.page = 0]
      BY <2>2 DEF PanelShow
    <3> HIDE DEF v
    <3>2. v.seat = ui.seat
      BY <1>1, <3>1 DEF State
    <3> QED BY <2>2, <3>2 DEF NotLeft, Free
  <2> QED BY <2>1, <2>2
<1>5. Moves(ui, v)
  BY <1>1, PanelShowMoves, SilentMoves DEF Overview
<1>6. Becomes(v) /\ asked' = asked
  BY DEF PanelOpened
<1> HIDE DEF v
<1> QED BY <1>3, <1>4, <1>5, <1>6, MovesBecomes

(* An agent that goes, and the attention chord.                            *)
LEMMA QueueSteps ==
  ASSUME IInv, AgentGone \/ Attention
  PROVE  IInv'
<1>1. ui \in State /\ Parts(ui)
  BY InvTypes
<1>2. CASE AgentGone
  BY <1>1, <1>2, WithdrawKeeps, WithdrawMoves, KeepsBecomes DEF AgentGone
<1>3. CASE Attention
  <2> DEFINE u == ConsentSchedule(ui)
  <2>1. Keeps(ui, u) /\ Moves(ui, u)
    BY <1>1, ConsentScheduleKeeps, ConsentScheduleMoves
  <2>2. Becomes(BatchSchedule(u)) /\ asked' = asked
    BY <1>3 DEF Attention
  <2> HIDE DEF u
  <2>3. Keeps(u, BatchSchedule(u)) /\ Moves(u, BatchSchedule(u))
    BY <2>1, BatchScheduleKeeps, BatchScheduleMoves DEF Keeps
  <2>4. Keeps(ui, BatchSchedule(u)) /\ Moves(ui, BatchSchedule(u))
    BY <2>1, <2>3, KeepsTrans, MovesTrans
  <2> QED BY <2>2, <2>4, KeepsBecomes
<1> QED BY <1>2, <1>3

(* mod.rs choose, by the human or by the timer of the prompt that is up.   *)
LEMMA AnswerSteps ==
  ASSUME IInv, HumanAnswers \/ TimerFires
  PROVE  IInv'
<1>1. Sound(ui) /\ ui \in State /\ Parts(ui)
  BY InvTypes
<1>2. CASE HumanAnswers
  <2>1. PICK v \in Choose(ui, FALSE) : Becomes(v)
    BY <1>2 DEF HumanAnswers
  <2>2. Sound(v) /\ NotLeft(v) /\ Moves(ui, v)
    BY <1>1, <1>2, <2>1, ChooseSound, ChooseMoves DEF HumanAnswers
  <2> QED BY <1>2, <2>1, <2>2, MovesBecomes DEF HumanAnswers
<1>3. CASE TimerFires
  <2> DEFINE t == Head(ui.timers)
             s == Tail(ui.timers)
             u == [ui EXCEPT !.timers = s]
  <2>1. s \in Seq(Token)
    BY <1>1, <1>3 DEF State, TimerFires
  <2>2. IF IsUp(ui, t.by, t.n) THEN \E v \in Choose(u, TRUE) : Becomes(v) ELSE Becomes(u)
    BY <1>1, <1>3 DEF TimerFires, State
  <2> HIDE DEF s, t
  <2>3. u \in State /\ SameUp(ui, u) /\ Silent(ui, u)
    BY <1>1, <2>1 DEF State, SameUp, Silent
  <2> HIDE DEF u
  <2>4. Keeps(ui, u) /\ Sound(u) /\ Moves(ui, u) /\ asked' = asked
    BY <1>1, <1>3, <2>3, SameUpKeeps, KeepsSound, SilentMoves DEF TimerFires
  <2>5. CASE IsUp(ui, t.by, t.n)
    <3>1. PICK v \in Choose(u, TRUE) : Becomes(v)
      BY <2>2, <2>5
    <3>2. ~Free(u)
      BY <2>3, <2>5 DEF IsUp, SameUp, Free
    <3>3. Sound(v) /\ NotLeft(v) /\ Moves(u, v)
      BY <2>4, <3>1, <3>2, ChooseSound, ChooseMoves
    <3> QED BY <2>4, <3>1, <3>3, MovesTrans, MovesBecomes
  <2>6. CASE ~IsUp(ui, t.by, t.n)
    BY <2>2, <2>4, <2>6, KeepsBecomes
  <2> QED BY <2>5, <2>6
<1> QED BY <1>2, <1>3

-----------------------------------------------------------------------------
(* The theorems.                                                           *)

(* Nothing is up and nobody waits.                                         *)
LEMMA InitInv == Init => IInv
<1> SUFFICES ASSUME Init PROVE IInv
  OBVIOUS
<1>1. /\ ui.seat = None /\ ui.showing = 0 /\ ui.batchUp = None /\ ui.installUp = 0
      /\ ui.brokerUp = FALSE /\ ui.polkit = <<>> /\ ui.asking = 0 /\ ui.erasing = 0
      /\ ui.page = 0
  BY DEF Init
<1>2. ui \in State
  BY DEF Init, State
<1>3. Parts(ui) /\ PanelPart(ui) /\ NotLeft(ui)
  BY <1>1 DEF Parts, ConsentPart, BatchPart, InstallPart, BrokerPart, PolkitPart,
     ApprovalPart, ErasePart, PanelPart, NotLeft, Seated, Free
<1>4. AskedPart
  BY PromptsAssumption DEF AskedPart, Init
<1>5. ASSUME NEW n \in Positive PROVE Total(ui, n) = 0 /\ Spoken(n) = 0
  <2>1. Count(<<>>, n) = 0 /\ Times(<<>>, n) = 0
    BY CountOne, TimesSingle
  <2>2. Is(0, n) = 0 /\ BatchIs(None, n) = 0 /\ In(n, {}) = 0
    BY <1>5 DEF Is, BatchIs, In, Positive
  <2>3. /\ ui.order = <<>> /\ ui.resolved = <<>> /\ ui.batches = <<>> /\ ui.installs = <<>>
        /\ ui.subjects = <<>> /\ ui.answers = <<>> /\ ui.gone = {}
    BY DEF Init
  <2>4. Total(ui, n) = 0
    BY <1>1, <2>1, <2>2, <2>3 DEF Total, Consented, Batched, Installing, Requested,
       Commanded, Erasing, Over
  <2> QED BY <2>4 DEF Spoken, Init
<1>6. Accounted(ui, asked)
  <2>1. Shows(ui)
    BY <1>1 DEF Shows
  <2>2. asked = 0 /\ \A n \in Positive : ~(n <= 0)
    BY DEF Init, Positive
  <2> QED BY <1>5, <2>1, <2>2 DEF Accounted
<1> QED BY <1>2, <1>3, <1>4, <1>6 DEF IInv, PromptsInv, Sound

(* Every handler keeps the invariant.                                      *)
LEMMA NextInv == IInv /\ [Next]_vars => IInv'
<1> SUFFICES ASSUME IInv, [Next]_vars
             PROVE  IInv'
  OBVIOUS
<1>1. CASE \E a \in Agents, b \in BOOLEAN : ConsentAsked(a, b) \/ BatchAsked(a, b)
  BY <1>1, ConsentAskedStep, BatchAskedStep
<1>2. CASE \E b \in BOOLEAN : InstallAsked(b)
  BY <1>2, InstallAskedStep
<1>3. CASE PolkitAsked
  BY <1>3, PolkitAskedStep
<1>4. CASE PolkitAbandoned
  BY <1>4, PolkitAbandonedStep
<1>5. CASE PolkitChecked
  BY <1>5, PolkitCheckedStep
<1>6. CASE BrokerPrompted \/ BrokerReplies \/ LockChanges
  BY <1>6, BrokerSteps
<1>7. CASE ApprovalAsked \/ ApprovalWithdrawn
  BY <1>7, WithheldSteps
<1>8. CASE PumpRuns \/ QuietEnds
  BY <1>8, PumpSteps
<1>9. CASE EraseAsked
  BY <1>9, EraseAskedStep
<1>10. CASE EraseAbandoned
  BY <1>10, EraseAbandonedStep
<1>11. CASE PanelOpened
  BY <1>11, PanelOpenedStep
<1>12. CASE AgentGone \/ Attention
  BY <1>12, QueueSteps
<1>13. CASE HumanAnswers \/ TimerFires
  BY <1>13, AnswerSteps
<1>14. CASE UNCHANGED vars
  <2>1. ui' = ui /\ asked' = asked /\ told' = told
    BY <1>14 DEF vars
  <2>2. PromptsInv' /\ AskedPart'
    BY <2>1 DEF IInv, PromptsInv, AskedPart
  <2>3. Accounted(ui, asked)'
    <3>1. Shows(ui)' /\ \A n \in Positive : Total(ui, n)' = Total(ui, n) /\ Spoken(n)' = Spoken(n)
      BY <2>1 DEF IInv, Accounted, Shows, Total, Consented, Batched, Installing, Requested,
         Commanded, Erasing, Over, Spoken
    <3> QED BY <2>1, <3>1 DEF IInv, Accounted
  <2> QED BY <2>2, <2>3 DEF IInv
<1> QED BY <1>1, <1>2, <1>3, <1>4, <1>5, <1>6, <1>7, <1>8, <1>9, <1>10, <1>11, <1>12, <1>13,
           <1>14 DEF Next

(* Over every behaviour, whatever the constants.                           *)
LEMMA InvHolds == Spec => []IInv
BY InitInv, NextInv, PTL DEF Spec

(* mod.rs resolve finds the owner of every answer: what the owners of the  *)
(* prompts take to be up is what mod.rs open put up, and nothing beside    *)
(* it, after any sequence of asks, answers, timeouts, withdrawals and      *)
(* locks.                                                                  *)
THEOREM SeatAgrees == Spec => []SeatAndOwnersAgree
<1>1. IInv => SeatAndOwnersAgree
  BY SoundAgrees DEF IInv, PromptsInv, SeatAndOwnersAgree
<1> QED BY <1>1, InvHolds, PTL

(* mod.rs cancel, choose and every handler of polkit.rs end with its turn: *)
(* the front request of polkit's queue never waits beside a free seat.     *)
THEOREM PolkitServed == Spec => []PolkitIsNeverLeft
<1>1. IInv => PolkitIsNeverLeft
  BY PolkitTypes DEF IInv, PromptsInv, NotLeft, PolkitIsNeverLeft
<1> QED BY <1>1, InvHolds, PTL

(* consent.rs answer, batch.rs withdraw, install.rs schedule, polkit.rs    *)
(* finish and approval.rs pump each take an ask out of one place as they   *)
(* put it in the next: over every behaviour an ask that came is waiting,   *)
(* up, in the outbox, answered once or withdrawn, exactly one of these.    *)
THEOREM EveryAskIsKept == Spec => []EveryAskIsSomewhere
<1>1. ASSUME IInv PROVE EveryAskIsSomewhere
  <2>1. ui \in State /\ AskedPart /\ Accounted(ui, asked)
    BY <1>1, InvTypes DEF IInv
  <2> SUFFICES ASSUME NEW n \in Ask
               PROVE  Count(Held(ui), n) + told[n] + (IF n \in ui.gone THEN 1 ELSE 0)
                        = (IF n <= asked THEN 1 ELSE 0)
    BY DEF EveryAskIsSomewhere
  <2>2. n \in Positive /\ Spoken(n) = told[n] /\ told[n] \in Nat
    BY <2>1 DEF Ask, Positive, Spoken, AskedPart
  <2>3. Total(ui, n) + told[n] = IF n <= asked THEN 1 ELSE 0
    BY <2>1, <2>2 DEF Accounted
  <2>4. Total(ui, n) = Count(Held(ui), n) + 0 + In(n, ui.gone)
    <3>1. Count(ui.answers, n) = 0
      BY <2>1, CountOne DEF AskedPart
    <3> QED BY <2>1, <2>2, <3>1, HeldIsCounted
  <2>5. Count(Held(ui), n) \in Nat
    BY <2>1, <2>2, HeldIsCounted
  <2> QED BY <2>2, <2>3, <2>4, <2>5 DEF In
<1>2. IInv => EveryAskIsSomewhere
  BY <1>1
<1> QED BY <1>2, InvHolds, PTL
=============================================================================
