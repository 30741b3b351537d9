-------------------------- MODULE Enforcement_proofs --------------------------
(***************************************************************************)
(* Proofs about Enforcement, for any windows, tasks, grants and tables and *)
(* any number of agents, requests and moves.                               *)
(***************************************************************************)
EXTENDS Enforcement, TLAPS, SequenceTheorems

ReqTypes ==
  /\ class \in [Windows -> Classes] /\ gen \in [Windows -> Nat]
  /\ slots \subseteq Agents /\ ended \subseteq Agents /\ last \in 0..MaxAgents
  /\ focus \in [Agents -> Windows \cup {None}]
  /\ reqs \in Seq(Req)
  /\ minted \in Nat /\ \A k \in tokens : k.n \in Nat

(* What a request record looks like in a handler's hands, before it is put *)
(* down: it was just made, or it waited.                                   *)
Open(r) ==
  /\ r \in [agent : Agents, aim : Windows \cup {SeatFocus, None}, gen : Nat,
            st : {"new", "parked", "deferred"}, on : Windows \cup {None}, class : Classes,
            by : Nat, ran : Nat, answers : Nat]
  /\ r.answers = 0 /\ r.ran = 0 /\ r.agent \in slots

(* What there is to say of a request that was put down, with the agent     *)
(* objects S and those being ended, E.                                     *)
Owed(r, S, E) ==
  /\ r.st \in {"parked", "deferred", "dropped"} => r.answers = 0
  /\ r.st = "done" => r.answers = 1
  /\ r.ran <= r.answers
  /\ r.st = "parked" => r.agent \in S
  /\ r.st = "deferred" => r.agent \in S \cup E

AllOwed(rs, S, E) == rs \in Seq(Req) /\ \A i \in 1..Len(rs) : Owed(rs[i], S, E)

-----------------------------------------------------------------------------
(* Putting a request down.                                                 *)
LEMMA PutOwes ==
  ASSUME AllOwed(reqs, slots, ended), NEW i \in Nat, i \in DOMAIN reqs \/ i = Len(reqs) + 1,
         NEW r \in Req, Owed(r, slots, ended), Put(i, r)
  PROVE  AllOwed(reqs', slots, ended)
<1>1. CASE i \in DOMAIN reqs
  <2>1. reqs \in Seq(Req) /\ DOMAIN reqs = 1..Len(reqs)  BY DEF AllOwed
  <2>2. reqs' = [reqs EXCEPT ![i] = r]  BY <1>1 DEF Put
  <2>3. reqs' \in Seq(Req) /\ Len(reqs') = Len(reqs)  BY <1>1, <2>1, <2>2
  <2>4. \A j \in 1..Len(reqs) : reqs'[j] = IF j = i THEN r ELSE reqs[j]  BY <2>1, <2>2
  <2> QED  BY <2>3, <2>4 DEF AllOwed
<1>2. CASE i \notin DOMAIN reqs
  <2>1. reqs' = Append(reqs, r) /\ reqs \in Seq(Req)  BY <1>2 DEF Put, AllOwed
  <2>2. reqs' \in Seq(Req) /\ Len(reqs') = Len(reqs) + 1  BY <2>1
  <2>3. \A j \in 1..Len(reqs') : reqs'[j] = IF j = Len(reqs) + 1 THEN r ELSE reqs[j]  BY <2>1
  <2>4. \A j \in 1..Len(reqs') : j = Len(reqs) + 1 \/ j \in 1..Len(reqs)  BY <2>1, <2>2
  <2> QED  BY <2>2, <2>3, <2>4 DEF AllOwed
<1> QED  BY <1>1, <1>2

(* What an open request is answered as.                                    *)
LEMMA DoneIs ==
  ASSUME NEW r, Open(r)
  PROVE  Done(r) \in Req /\ Done(r).agent = r.agent /\ Done(r).st = "done"
         /\ Done(r).ran = 0 /\ Done(r).answers = 1
<1>1. r.answers + 1 = 1 /\ 1 \in Nat /\ 0 \in Classes  BY DEF Open, Classes
<1>2. Done(r) = [r EXCEPT !.st = "done", !.answers = 1, !.class = 0]  BY <1>1 DEF Done
<1> QED  BY <1>1, <1>2 DEF Open, Req

(* The ways a handler puts an open request down.                           *)
LEMMA OpenEnds ==
  ASSUME ReqTypes, AllOwed(reqs, slots, ended),
         NEW i \in Nat, i \in DOMAIN reqs \/ i = Len(reqs) + 1, NEW r, Open(r),
         \/ Answer(i, r)
         \/ MayAct(r) /\ \E by \in Nat : Execute(i, r, by)
         \/ MayAct(r) /\ Park(i, r)
         \/ Defer(i, r)
  PROVE  AllOwed(reqs', slots, ended)
<1>1. ASSUME Answer(i, r) PROVE AllOwed(reqs', slots, ended)
  <2> DEFINE q == [Done(r) EXCEPT !.aim = None, !.gen = 0, !.on = None]
  <2>1. q \in Req  BY DoneIs DEF Req
  <2>2. q.agent = r.agent /\ q.st = "done" /\ q.ran = 0 /\ q.answers = 1  BY DoneIs DEF Req
  <2>3. Owed(q, slots, ended)  BY <2>2 DEF Owed
  <2>4. Put(i, q)  BY <1>1 DEF Answer
  <2> HIDE DEF q
  <2> QED  BY <2>1, <2>3, <2>4, PutOwes
<1>2. ASSUME MayAct(r), NEW by \in Nat, Execute(i, r, by) PROVE AllOwed(reqs', slots, ended)
  <2> DEFINE q == [Done(r) EXCEPT !.ran = @ + 1, !.on = Target(r), !.by = by]
  <2>1. Target(r) \in Windows  BY <1>2 DEF MayAct, View
  <2>2. Done(r).ran + 1 = 1 /\ 1 \in Nat  BY DoneIs
  <2>3. q = [Done(r) EXCEPT !.ran = 1, !.on = Target(r), !.by = by]  BY <2>2
  <2>4. q \in Req  BY <2>1, <2>2, <2>3, DoneIs DEF Req
  <2>5. q.st = "done" /\ q.ran = 1 /\ q.answers = 1  BY <2>3, DoneIs DEF Req
  <2>6. Owed(q, slots, ended)  BY <2>5 DEF Owed
  <2>7. Put(i, q)  BY <1>2 DEF Execute
  <2> HIDE DEF q
  <2> QED  BY <2>4, <2>6, <2>7, PutOwes
<1>3. ASSUME MayAct(r), Park(i, r) PROVE AllOwed(reqs', slots, ended)
  <2> DEFINE q == [r EXCEPT !.st = "parked", !.on = Target(r), !.class = class[Target(r)]]
  <2>1. Target(r) \in Windows  BY <1>3 DEF MayAct, View
  <2>2. class[Target(r)] \in Classes  BY <2>1 DEF ReqTypes
  <2>3. q \in Req  BY <2>1, <2>2 DEF Req, Open
  <2>4. q.agent = r.agent /\ q.st = "parked" /\ q.ran = 0 /\ q.answers = 0  BY DEF Open
  <2>5. Owed(q, slots, ended)  BY <2>4 DEF Owed, Open
  <2>6. CASE Answer(i, r)  BY <2>6, <1>1
  <2>7. CASE Put(i, q)
    <3> HIDE DEF q
    <3> QED  BY <2>3, <2>5, <2>7, PutOwes
  <2> QED  BY <1>3, <2>6, <2>7 DEF Park
<1>4. ASSUME Defer(i, r) PROVE AllOwed(reqs', slots, ended)
  <2> DEFINE q == [r EXCEPT !.st = "deferred"]
  <2>1. q \in Req  BY DEF Req, Open
  <2>2. q.agent = r.agent /\ q.st = "deferred" /\ q.ran = 0 /\ q.answers = 0  BY DEF Open
  <2>3. Owed(q, slots, ended)  BY <2>2 DEF Owed, Open
  <2>4. Put(i, q)  BY <1>4 DEF Defer
  <2> HIDE DEF q
  <2> QED  BY <2>1, <2>3, <2>4, PutOwes
<1> QED  BY <1>1, <1>2, <1>3, <1>4

-----------------------------------------------------------------------------
(* Nothing waits for an agent that is gone.                                *)

BatchOwed(as, ks, S, E) ==
  /\ \A k \in as : k.agent \in S
  /\ \A k \in ks : k.agent \in S \cup E /\ k.n \in Nat

WaitInv == ReqTypes /\ AllOwed(reqs, slots, ended) /\ BatchOwed(asks, tokens, slots, ended)

(* A handler that puts an open request down, and at most spends a token.   *)
LEMMA HandlerKeeps ==
  ASSUME WaitInv, NEW i \in Nat, i \in DOMAIN reqs \/ i = Len(reqs) + 1, NEW r, Open(r),
         \/ Answer(i, r)
         \/ MayAct(r) /\ \E by \in Nat : Execute(i, r, by)
         \/ MayAct(r) /\ Park(i, r)
         \/ Defer(i, r),
         UNCHANGED <<class, gen, slots, ended, last, asks, minted>>,
         \A k \in tokens' : \E o \in tokens : k.n = o.n /\ k.agent = o.agent
  PROVE  WaitInv'
<1>1. AllOwed(reqs', slots, ended)  BY OpenEnds DEF WaitInv
<1>2. focus' \in [Agents -> Windows \cup {None}]
  <2>1. CASE focus' = focus  BY <2>1 DEF WaitInv, ReqTypes
  <2>2. CASE MayAct(r) /\ \E by \in Nat : Execute(i, r, by)
    <3>1. Target(r) \in Windows  BY <2>2 DEF MayAct, View
    <3>2. focus' = [focus EXCEPT ![r.agent] = Target(r)]  BY <2>2 DEF Execute
    <3> QED  BY <3>1, <3>2 DEF WaitInv, ReqTypes
  <2> QED  BY <2>1, <2>2 DEF Answer, Park, Defer
<1>3. AllOwed(reqs', slots', ended')  BY <1>1
<1>4. BatchOwed(asks', tokens', slots', ended')  BY DEF WaitInv, BatchOwed
<1>5. reqs' \in Seq(Req)  BY <1>1 DEF AllOwed
<1>6. ReqTypes'  BY <1>2, <1>4, <1>5 DEF WaitInv, ReqTypes, BatchOwed
<1> QED  BY <1>3, <1>4, <1>6 DEF WaitInv

(* A request that waits is open, for as long as its agent is there.        *)
LEMMA WaitingIsOpen ==
  ASSUME WaitInv, NEW i \in DOMAIN reqs
  PROVE  /\ i \in Nat /\ reqs[i] \in Req /\ Owed(reqs[i], slots, ended)
         /\ reqs[i].st = "parked" => Open(reqs[i])
         /\ reqs[i].st = "deferred" /\ reqs[i].agent \in slots => Open(reqs[i])
<1>1. reqs \in Seq(Req) /\ DOMAIN reqs = 1..Len(reqs)  BY DEF WaitInv, AllOwed
<1>2. i \in Nat /\ reqs[i] \in Req /\ Owed(reqs[i], slots, ended)  BY <1>1 DEF WaitInv, AllOwed
<1>3. ASSUME reqs[i].st \in {"parked", "deferred"} PROVE reqs[i].answers = 0 /\ reqs[i].ran = 0
  <2>1. reqs[i].answers = 0 /\ reqs[i].ran <= 0 /\ reqs[i].ran \in Nat  BY <1>2, <1>3 DEF Owed, Req
  <2> QED  BY <2>1
<1>4. ASSUME reqs[i].st \in {"parked", "deferred"}, reqs[i].agent \in slots PROVE Open(reqs[i])
  BY <1>2, <1>3, <1>4 DEF Open, Req
<1> QED  BY <1>2, <1>4 DEF Owed

LEMMA TokensSpent ==
  ASSUME WaitInv, NEW k \in tokens, NEW w, Consume(k, w)
  PROVE  \A q \in tokens' : \E o \in tokens : q.n = o.n /\ q.agent = o.agent
<1> DEFINE rest == [k EXCEPT !.targets = @ \ {w}]
<1>1. tokens' \subseteq tokens \cup {rest}  BY DEF Consume
<1>2. rest.n = k.n /\ rest.agent = k.agent  OBVIOUS
<1> QED  BY <1>1, <1>2

LEMMA RequestKeeps == ASSUME WaitInv, Request PROVE WaitInv'
<1>1. PICK a \in Agents, aim \in Windows \cup {SeatFocus}, token \in BOOLEAN :
        \E g \in {0} \cup {gen[w] : w \in Windows} : Submit(a, aim, g, token)
  BY DEF Request
<1>2. PICK g \in {0} \cup {gen[w] : w \in Windows} : Submit(a, aim, g, token)  BY <1>1
<1> DEFINE i == Len(reqs) + 1
           r == [agent |-> a, aim |-> aim, gen |-> g, st |-> "new", on |-> None, class |-> 0,
                 by |-> 0, ran |-> 0, answers |-> 0]
<1>3. Len(reqs) \in Nat /\ i \in Nat  BY DEF WaitInv, AllOwed
<1>4. a \in slots  BY <1>2 DEF Submit
<1>5. Open(r)
  <2>1. g \in Nat  BY DEF WaitInv, ReqTypes
  <2>2. 0 \in Classes /\ 0 \in Nat  BY DEF Classes
  <2> QED  BY <1>4, <2>1, <2>2 DEF Open
<1>6. UNCHANGED <<class, gen, slots, ended, last, asks, minted>>
  BY <1>2 DEF Submit, worldVars, lifeVars
<1>7. \/ Answer(i, r)
      \/ MayAct(r) /\ Execute(i, r, 0) /\ UNCHANGED tokens
      \/ MayAct(r) /\ UseToken(i, r)
      \/ MayAct(r) /\ Park(i, r)
      \/ Defer(i, r)
  BY <1>2 DEF Submit
<1> HIDE DEF i, r
<1> DEFINE Spent == \A k \in tokens' : \E o \in tokens : k.n = o.n /\ k.agent = o.agent
<1>8. Answer(i, r) \/ Park(i, r) \/ Defer(i, r) => Spent  BY DEF Answer, Park, Defer
<1>9. i = Len(reqs) + 1  BY DEF i
<1>10. CASE Answer(i, r) \/ (MayAct(r) /\ Park(i, r)) \/ Defer(i, r)
  BY <1>3, <1>5, <1>6, <1>8, <1>9, <1>10, HandlerKeeps
<1>11. CASE MayAct(r) /\ Execute(i, r, 0) /\ UNCHANGED tokens
  <2>1. Spent /\ 0 \in Nat  BY <1>11
  <2> QED  BY <1>3, <1>5, <1>6, <1>9, <1>11, <2>1, HandlerKeeps
<1>12. CASE MayAct(r) /\ UseToken(i, r)
  <2>1. CASE Answer(i, r)  BY <1>10, <2>1
  <2>2. CASE \E k \in tokens : Covers(k, r) /\ Consume(k, Target(r)) /\ Execute(i, r, k.n)
    <3>1. PICK k \in tokens : Consume(k, Target(r)) /\ Execute(i, r, k.n)  BY <2>2
    <3>2. k.n \in Nat  BY DEF WaitInv, ReqTypes
    <3>3. Spent  BY <3>1, TokensSpent
    <3> QED  BY <1>3, <1>5, <1>6, <1>9, <1>12, <3>1, <3>2, <3>3, HandlerKeeps
  <2> QED  BY <1>12, <2>1, <2>2 DEF UseToken
<1> QED  BY <1>7, <1>10, <1>11, <1>12

LEMMA PromptKeeps == ASSUME WaitInv, PromptAnswered PROVE WaitInv'
<1>1. PICK i \in DOMAIN reqs :
        \/ \E mint \in BOOLEAN : Approve(i, mint)
        \/ \E andPause \in BOOLEAN : Deny(i, andPause)
  BY DEF PromptAnswered
<1>2. i \in Nat /\ (reqs[i].st = "parked" => Open(reqs[i]))  BY WaitingIsOpen
<1>3. Open(reqs[i])  BY <1>1, <1>2 DEF Approve, Deny
<1>4. UNCHANGED <<class, gen, slots, ended, last, asks, minted>>
  BY <1>1 DEF Approve, Deny, worldVars, lifeVars
<1>5. Answer(i, reqs[i]) \/ (MayAct(reqs[i]) /\ Execute(i, reqs[i], 0) /\ UNCHANGED tokens)
  BY <1>1 DEF Approve, Deny, MayStill
<1>6. UNCHANGED tokens  BY <1>5 DEF Answer
<1>7. \A k \in tokens' : \E o \in tokens : k.n = o.n /\ k.agent = o.agent  BY <1>6
<1>8. Answer(i, reqs[i]) \/ (MayAct(reqs[i]) /\ \E by \in Nat : Execute(i, reqs[i], by))  BY <1>5
<1> QED  BY <1>2, <1>3, <1>4, <1>7, <1>8, HandlerKeeps

LEMMA DeferKeeps ==
  ASSUME WaitInv, NEW i \in DOMAIN reqs, NEW answer, reqs[i].st = "deferred", ResolveDefer(i, answer),
         UNCHANGED <<class, gen, slots, ended, last, asks, minted>>
  PROVE  WaitInv'
<1>1. i \in Nat /\ reqs[i] \in Req /\ Owed(reqs[i], slots, ended)
      /\ (reqs[i].agent \in slots => Open(reqs[i]))
  BY WaitingIsOpen
<1>2. CASE reqs[i].agent \in slots
  <2>1. Answer(i, reqs[i]) \/ (MayAct(reqs[i]) /\ Park(i, reqs[i]))  BY <1>2 DEF ResolveDefer
  <2>2. UNCHANGED tokens  BY <2>1 DEF Answer, Park
  <2>3. \A k \in tokens' : \E o \in tokens : k.n = o.n /\ k.agent = o.agent  BY <2>2
  <2> QED  BY <1>1, <1>2, <2>1, <2>3, HandlerKeeps
<1>3. CASE reqs[i].agent \notin slots
  <2> DEFINE q == [reqs[i] EXCEPT !.st = "dropped"]
  <2>1. Put(i, q) /\ UNCHANGED <<focus, tokens>>  BY <1>3 DEF ResolveDefer
  <2>2. q \in Req  BY <1>1 DEF Req
  <2>3. q.st = "dropped" /\ q.answers = reqs[i].answers /\ q.ran = reqs[i].ran  BY <1>1 DEF Req
  <2>4. Owed(q, slots, ended)  BY <1>1, <2>3 DEF Owed
  <2> HIDE DEF q
  <2>5. AllOwed(reqs', slots, ended)  BY <1>1, <2>1, <2>2, <2>4, PutOwes DEF WaitInv
  <2>6. AllOwed(reqs', slots', ended') /\ reqs' \in Seq(Req)  BY <2>5 DEF AllOwed
  <2>7. ReqTypes' /\ BatchOwed(asks', tokens', slots', ended')
    BY <2>1, <2>6 DEF WaitInv, ReqTypes, BatchOwed
  <2> QED  BY <2>6, <2>7 DEF WaitInv
<1> QED  BY <1>2, <1>3

(* Requests dropped because their agents go: those that wait for what is   *)
(* no longer there.                                                        *)
LEMMA DropOwes ==
  ASSUME NEW rs, NEW S, NEW E, AllOwed(rs, S, E), NEW S2, NEW E2, NEW D,
         D \subseteq 1..Len(rs), \A i \in D : rs[i].st \in {"parked", "deferred"},
         \A i \in (1..Len(rs)) \ D :
           /\ rs[i].st = "parked" => rs[i].agent \in S2
           /\ rs[i].st = "deferred" => rs[i].agent \in S2 \cup E2,
         NEW rs2, rs2 = [i \in DOMAIN rs |-> IF i \in D THEN [rs[i] EXCEPT !.st = "dropped"] ELSE rs[i]]
  PROVE  AllOwed(rs2, S2, E2)
<1>1. rs \in Seq(Req) /\ DOMAIN rs = 1..Len(rs)  BY DEF AllOwed
<1>2. \A i \in 1..Len(rs) : rs[i] \in Req /\ Owed(rs[i], S, E)  BY <1>1 DEF AllOwed
<1>3. ASSUME NEW i \in 1..Len(rs) PROVE rs2[i] \in Req /\ Owed(rs2[i], S2, E2)
  <2>1. CASE i \in D
    <3> DEFINE q == [rs[i] EXCEPT !.st = "dropped"]
    <3>0. rs[i] \in Req  BY <1>2
    <3>1. rs2[i] = q  BY <1>1, <2>1
    <3>2. q \in Req  BY <3>0 DEF Req
    <3>3. q.st = "dropped" /\ q.answers = rs[i].answers /\ q.ran = rs[i].ran
      BY <3>0 DEF Req
    <3>4. rs[i].answers = 0 /\ rs[i].ran <= rs[i].answers  BY <1>2, <2>1 DEF Owed
    <3>5. Owed(q, S2, E2)  BY <3>3, <3>4 DEF Owed
    <3> HIDE DEF q
    <3> QED  BY <3>1, <3>2, <3>5
  <2>2. CASE i \notin D  BY <1>1, <1>2, <2>2 DEF Owed
  <2> QED  BY <2>1, <2>2
<1>4. rs2 \in Seq(Req) /\ Len(rs2) = Len(rs)  BY <1>1, <1>3
<1> QED  BY <1>3, <1>4 DEF AllOwed

LEMMA DestroyedKeeps == ASSUME WaitInv, NEW a, Destroyed(a) PROVE WaitInv'
<1> DEFINE D == {i \in 1..Len(reqs) : reqs[i].agent = a /\ reqs[i].st \in {"parked", "deferred"}}
<1>1. reqs \in Seq(Req) /\ DOMAIN reqs = 1..Len(reqs)  BY DEF WaitInv, AllOwed
<1>2. reqs' = [i \in DOMAIN reqs |-> IF i \in D THEN [reqs[i] EXCEPT !.st = "dropped"] ELSE reqs[i]]
  BY <1>1 DEF Destroyed, Dropped
<1>3. slots' = slots \ {a} /\ ended' = ended \ {a}  BY DEF Destroyed
<1>4. \A i \in (1..Len(reqs)) \ D :
        /\ reqs[i].st = "parked" => reqs[i].agent \in slots'
        /\ reqs[i].st = "deferred" => reqs[i].agent \in slots' \cup ended'
  BY <1>3 DEF WaitInv, AllOwed, Owed
<1>5. AllOwed(reqs', slots', ended')
  <2> HIDE DEF D
  <2>1. D \subseteq 1..Len(reqs) /\ \A i \in D : reqs[i].st \in {"parked", "deferred"}  BY DEF D
  <2> QED  BY <1>2, <1>4, <2>1, DropOwes DEF WaitInv
<1>6. BatchOwed(asks', tokens', slots', ended')  BY <1>3 DEF Destroyed, WaitInv, BatchOwed
<1>7. focus' \in [Agents -> Windows \cup {None}]  BY DEF Destroyed, WaitInv, ReqTypes
<1>8. ReqTypes'
  <2>1. UNCHANGED <<class, gen, last, minted>>  BY DEF Destroyed, worldVars
  <2>2. reqs' \in Seq(Req)  BY <1>5 DEF AllOwed
  <2> QED  BY <1>3, <1>6, <1>7, <2>1, <2>2 DEF WaitInv, ReqTypes, BatchOwed
<1> QED  BY <1>5, <1>6, <1>8 DEF WaitInv

LEMMA TerminateKeeps == ASSUME WaitInv, NEW as, Terminate(as) PROVE WaitInv'
<1> DEFINE D == {i \in 1..Len(reqs) : reqs[i].agent \in as /\ reqs[i].st = "parked"}
<1>1. reqs \in Seq(Req) /\ DOMAIN reqs = 1..Len(reqs)  BY DEF WaitInv, AllOwed
<1>2. reqs' = [i \in DOMAIN reqs |-> IF i \in D THEN [reqs[i] EXCEPT !.st = "dropped"] ELSE reqs[i]]
  BY <1>1 DEF Terminate
<1>3. as \subseteq slots /\ slots' = slots \ as /\ ended' = ended \cup as  BY DEF Terminate
<1>4. \A i \in (1..Len(reqs)) \ D :
        /\ reqs[i].st = "parked" => reqs[i].agent \in slots'
        /\ reqs[i].st = "deferred" => reqs[i].agent \in slots' \cup ended'
  BY <1>3 DEF WaitInv, AllOwed, Owed
<1>5. AllOwed(reqs', slots', ended')
  <2> HIDE DEF D
  <2>1. D \subseteq 1..Len(reqs) /\ \A i \in D : reqs[i].st \in {"parked", "deferred"}  BY DEF D
  <2> QED  BY <1>2, <1>4, <2>1, DropOwes DEF WaitInv
<1>6. BatchOwed(asks', tokens', slots', ended')  BY <1>3 DEF Terminate, WaitInv, BatchOwed
<1>7. ReqTypes'
  <2>1. UNCHANGED <<class, gen, last, minted, focus>>  BY DEF Terminate, worldVars
  <2>2. reqs' \in Seq(Req)  BY <1>5 DEF AllOwed
  <2> QED  BY <1>3, <1>6, <2>1, <2>2 DEF WaitInv, ReqTypes, BatchOwed
<1> QED  BY <1>5, <1>6, <1>7 DEF WaitInv

(* What touches neither the requests nor the agents.                       *)
LEMMA ElsewhereKeeps ==
  ASSUME WaitInv, UNCHANGED <<slots, ended, last, focus, reqs, asks, tokens, minted>>,
         class' \in [Windows -> Classes], gen' \in [Windows -> Nat]
  PROVE  WaitInv'
BY DEF WaitInv, ReqTypes, AllOwed, BatchOwed

LEMMA WaitInvStep == ASSUME WaitInv, [Next]_vars PROVE WaitInv'
<1> DEFINE Still == UNCHANGED <<slots, ended, last, focus, reqs, asks, tokens, minted>>
           Typed == class' \in [Windows -> Classes] /\ gen' \in [Windows -> Nat]
<1>0. class \in [Windows -> Classes] /\ gen \in [Windows -> Nat]  BY DEF WaitInv, ReqTypes
<1>1. CASE Request  BY <1>1, RequestKeeps
<1>2. CASE PromptAnswered  BY <1>2, PromptKeeps
<1>3. CASE DeferTimesOut
  BY <1>3, DeferKeeps DEF DeferTimesOut, worldVars, lifeVars
<1>4. ASSUME NEW a \in Agents, NEW ws \in SUBSET Windows, Preflight(a, ws) PROVE WaitInv'
  <2>1. UNCHANGED <<class, gen, slots, ended, last, focus, reqs, tokens, minted>>
    BY <1>4 DEF Preflight, worldVars, lifeVars
  <2>2. \A k \in asks' : k.agent \in slots  BY <1>4 DEF Preflight, WaitInv, BatchOwed
  <2> QED  BY <2>1, <2>2 DEF WaitInv, ReqTypes, AllOwed, BatchOwed
<1>5. CASE BatchApproved
  <2>1. UNCHANGED <<class, gen, slots, ended, last, focus, reqs>>
    BY <1>5 DEF BatchApproved, worldVars, lifeVars
  <2>2. minted' \in Nat /\ asks' \subseteq asks  BY <1>5 DEF BatchApproved, WaitInv, ReqTypes
  <2>3. \A k \in tokens' : k \in tokens \/ (k.agent \in slots /\ k.n \in Nat)
    BY <1>5, <2>2 DEF BatchApproved, WaitInv, BatchOwed
  <2> QED  BY <2>1, <2>2, <2>3 DEF WaitInv, ReqTypes, AllOwed, BatchOwed
<1>6. CASE BatchRefused
  <2>1. UNCHANGED <<class, gen, slots, ended, last, focus, reqs, tokens, minted>> /\ asks' \subseteq asks
    BY <1>6 DEF BatchRefused, worldVars, lifeVars
  <2> QED  BY <2>1 DEF WaitInv, ReqTypes, AllOwed, BatchOwed
<1>7. ASSUME NEW g \in Grants, CreateAgent(g) PROVE WaitInv'
  <2>1. UNCHANGED <<class, gen, ended, focus, reqs, asks, tokens, minted>> /\ slots' = slots \cup {last'}
    BY <1>7 DEF CreateAgent, worldVars, batchVars
  <2>2. last' \in 0..MaxAgents /\ last' \in Agents
    BY <1>7, EnforcementAssumption DEF CreateAgent, WaitInv, ReqTypes, Agents
  <2> QED  BY <2>1, <2>2 DEF WaitInv, ReqTypes, AllOwed, Owed, BatchOwed
<1>8. ASSUME NEW a \in Agents, (\E g \in Grants : AddGrant(a, g)) \/ Look(a) \/ PanelRevoke(a) PROVE WaitInv'
  <2>1. Still /\ UNCHANGED <<class, gen>>
    BY <1>8 DEF AddGrant, Look, PanelRevoke, worldVars, lifeVars, batchVars
  <2> QED  BY <1>0, <2>1, ElsewhereKeeps
<1>9. CASE TerminateOne \/ TerminateAll  BY <1>9, TerminateKeeps DEF TerminateOne, TerminateAll
<1>10. CASE Leave \/ ClientDestroyed  BY <1>10, DestroyedKeeps DEF Leave, ClientDestroyed
<1>11. CASE Read
  <2> DEFINE m == Head(toAbyss)
  <2>1. UNCHANGED <<class, gen, slots, ended, last, asks, minted>>  BY <1>11 DEF Read, worldVars, lifeVars
  <2>2. CASE UNCHANGED <<focus, reqs, tokens>>  BY <1>0, <2>1, <2>2, ElsewhereKeeps
  <2>3. CASE m.req \in DOMAIN reqs /\ reqs[m.req].st = "deferred" /\ ResolveDefer(m.req, m.answer)
    BY <2>1, <2>3, DeferKeeps
  <2> QED  BY <1>11, <2>2, <2>3 DEF Read, ReadRevoked, ReadMinted
<1>12. CASE PauseOrResume \/ OpenTask \/ CloseTask \/ HandlePolicyd \/ PushTable \/ Expire \/ LinkDown \/ LinkUp
  <2>1. Still /\ UNCHANGED <<class, gen>>
    BY <1>12 DEF PauseOrResume, OpenTask, CloseTask, HandlePolicyd, PushTable, Expire, LinkDown, LinkUp,
                 worldVars, lifeVars, batchVars
  <2> QED  BY <1>0, <2>1, ElsewhereKeeps
<1>13. CASE ClassChanges
  <2>1. Still /\ Typed  BY <1>0, <1>13 DEF ClassChanges, lifeVars, batchVars
  <2> QED  BY <2>1, ElsewhereKeeps
<1>14. CASE GenMoves
  <2>1. Still /\ Typed  BY <1>0, <1>14 DEF GenMoves, lifeVars, batchVars
  <2> QED  BY <2>1, ElsewhereKeeps
<1>15. CASE UNCHANGED vars
  <2>1. Still /\ UNCHANGED <<class, gen>>  BY <1>15 DEF vars, worldVars, lifeVars, batchVars
  <2> QED  BY <1>0, <2>1, ElsewhereKeeps
<1> QED
  BY <1>1, <1>2, <1>3, <1>4, <1>5, <1>6, <1>7, <1>8, <1>9, <1>10, <1>11, <1>12, <1>13, <1>14, <1>15 DEF Next

LEMMA WaitInvInit == ASSUME Init PROVE WaitInv
<1>1. reqs = <<>> /\ reqs \in Seq(Req) /\ Len(reqs) = 0  BY DEF Init
<1>2. AllOwed(reqs, slots, ended)  BY <1>1 DEF AllOwed
<1>3. 0 \in Classes /\ 1 \in Nat /\ 0 \in 0..MaxAgents  BY EnforcementAssumption DEF Classes
<1>4. ReqTypes  BY <1>1, <1>3 DEF Init, ReqTypes
<1>5. BatchOwed(asks, tokens, slots, ended)  BY DEF Init, BatchOwed
<1> QED  BY <1>2, <1>4, <1>5 DEF WaitInv

(* No request is answered twice or after its agent is gone, and no prompt, *)
(* deferral, ask or token outlives the agent it was for, with any number   *)
(* of agents (enforce.rs forget, batch.rs forget, destroyed).              *)
THEOREM NobodyIsWaitedFor == Spec => []NothingWaitsForNobody
<1>1. WaitInv => NothingWaitsForNobody
  BY DEF WaitInv, AllOwed, Owed, BatchOwed, NothingWaitsForNobody
<1> QED  BY WaitInvInit, WaitInvStep, <1>1, PTL DEF Spec

-----------------------------------------------------------------------------
(* Nobody holds a grant on a task that is remembered as revoked.           *)

Clear(hs) == \A h \in hs : h.grant.task \notin revoked

HeldInv == held = [a \in Agents |-> held[a]] /\ \A a \in Agents : Clear(held[a])

(* Where grants only go, or one comes that may be held.                    *)
LEMMA LessIsClear ==
  ASSUME HeldInv, UNCHANGED revoked, NEW a \in Agents, NEW hs, held' = [held EXCEPT ![a] = hs],
         \A h \in hs : h \in held[a] \/ h.grant.task \notin revoked
  PROVE  HeldInv'
<1>1. held' = [o \in Agents |-> IF o = a THEN hs ELSE held[o]]  BY DEF HeldInv
<1>2. \A o \in Agents : held'[o] = IF o = a THEN hs ELSE held[o]  BY <1>1
<1> QED  BY <1>1, <1>2 DEF HeldInv, Clear

LEMMA PruneIsClear ==
  ASSUME HeldInv, WaitInv, UNCHANGED revoked, NEW a, Prune(a) PROVE HeldInv'
<1>1. CASE held' = held  BY <1>1 DEF HeldInv, Clear
<1>2. CASE a \in slots /\ held' = [held EXCEPT ![a] = Pruned(a)]
  <2>1. a \in Agents /\ Pruned(a) \subseteq held[a]  BY <1>2 DEF WaitInv, ReqTypes, Pruned
  <2> HIDE DEF HeldInv
  <2> QED  BY <1>2, <2>1, LessIsClear
<1> QED  BY <1>1, <1>2 DEF Prune

LEMMA PushIsClear ==
  ASSUME HeldInv, UNCHANGED revoked, NEW a \in Agents, NEW g, Admissible(g), NEW hs, Clear(hs),
         held' = [held EXCEPT ![a] = Pushed(hs, g)]
  PROVE  HeldInv'
<1> DEFINE ps == Pushed(hs, g)
<1>1. \A h \in ps : h \in hs \/ h.grant = g  BY DEF Pushed
<1>2. \A h \in ps : h.grant.task \notin revoked  BY <1>1 DEF Clear, Admissible
<1> HIDE DEF ps, HeldInv
<1>3. held' = [held EXCEPT ![a] = ps]  BY DEF ps
<1> QED  BY <1>2, <1>3, LessIsClear

LEMMA HeldInvStep == ASSUME WaitInv, HeldInv, [Next]_vars PROVE HeldInv'
<1>1. CASE Request
  <2>1. PICK a \in Agents : Prune(a) \/ UNCHANGED held  BY <1>1 DEF Request, Submit
  <2>2. UNCHANGED revoked  BY <1>1 DEF Request, Submit
  <2> QED  BY <2>1, <2>2, PruneIsClear DEF HeldInv, Clear
<1>2. CASE PromptAnswered
  <2>1. (\E a : Prune(a)) \/ UNCHANGED held  BY <1>2 DEF PromptAnswered, Approve, Deny, grantVars
  <2>2. UNCHANGED revoked  BY <1>2 DEF PromptAnswered, Approve, Deny, grantVars
  <2> QED  BY <2>1, <2>2, PruneIsClear DEF HeldInv, Clear
<1>3. CASE DeferTimesOut
  <2>1. (\E a : Prune(a)) \/ UNCHANGED held  BY <1>3 DEF DeferTimesOut, ResolveDefer
  <2>2. UNCHANGED revoked  BY <1>3 DEF DeferTimesOut
  <2> QED  BY <2>1, <2>2, PruneIsClear DEF HeldInv, Clear
<1>4. ASSUME NEW a \in Agents, NEW ws \in SUBSET Windows, Preflight(a, ws) PROVE HeldInv'
  BY <1>4, PruneIsClear DEF Preflight
<1>5. ASSUME NEW g \in Grants, CreateAgent(g) PROVE HeldInv'
  <2>1. last' \in Agents /\ Admissible(g) /\ UNCHANGED revoked /\ Clear({})
    BY <1>5, EnforcementAssumption DEF CreateAgent, WaitInv, ReqTypes, Agents, Clear
  <2>2. held' = [held EXCEPT ![last'] = Pushed({}, g)]  BY <1>5 DEF CreateAgent
  <2> DEFINE a == last'
  <2>3. a \in Agents /\ held' = [held EXCEPT ![a] = Pushed({}, g)]  BY <2>1, <2>2
  <2> HIDE DEF a
  <2> QED  BY <2>1, <2>3, PushIsClear
<1>6. ASSUME NEW a \in Agents, NEW g \in Grants, AddGrant(a, g) PROVE HeldInv'
  <2>1. Admissible(g) /\ UNCHANGED revoked /\ Clear(held[a])  BY <1>6 DEF AddGrant, HeldInv
  <2>2. held' = [held EXCEPT ![a] = Pushed(held[a], g)]  BY <1>6 DEF AddGrant
  <2> QED  BY <2>1, <2>2, PushIsClear
<1>7. ASSUME NEW a \in Agents, Look(a) \/ PanelRevoke(a) PROVE HeldInv'
  <2>1. Pruned(a) \subseteq held[a] /\ {} \subseteq held[a]  BY DEF Pruned
  <2>2. \E hs : hs \subseteq held[a] /\ held' = [held EXCEPT ![a] = hs]
    BY <1>7, <2>1 DEF Look, PanelRevoke
  <2>3. UNCHANGED revoked  BY <1>7 DEF Look, PanelRevoke
  <2> QED  BY <2>2, <2>3, LessIsClear
<1>8. CASE TerminateOne \/ TerminateAll
  <2>1. PICK as : Terminate(as)  BY <1>8 DEF TerminateOne, TerminateAll
  <2>2. held' = [a \in Agents |-> IF a \in as THEN {} ELSE held[a]] /\ UNCHANGED revoked
    BY <2>1 DEF Terminate
  <2> QED  BY <2>2 DEF HeldInv, Clear
<1>9. CASE Leave \/ ClientDestroyed
  <2>1. PICK a \in slots \cup ended : Destroyed(a)  BY <1>9 DEF Leave, ClientDestroyed
  <2>2. a \in Agents /\ held' = [held EXCEPT ![a] = {}] /\ UNCHANGED revoked
    BY <2>1 DEF Destroyed, WaitInv, ReqTypes
  <2>3. \E hs : hs \subseteq held[a] /\ held' = [held EXCEPT ![a] = hs]
    <3>1. {} \subseteq held[a]  OBVIOUS
    <3> QED  BY <2>2, <3>1
  <2> QED  BY <2>2, <2>3, LessIsClear
<1>10. CASE Read
  <2> DEFINE m == Head(toAbyss)
  <2>1. CASE ReadRevoked(m.task)
    <3>1. held' = [a \in Agents |-> {}]  BY <2>1 DEF ReadRevoked
    <3> QED  BY <3>1 DEF HeldInv, Clear
  <2>2. CASE ReadMinted(m.req, m.grant)
    <3> DEFINE a == reqs[m.req].agent
               g == m.grant
    <3>1. UNCHANGED revoked  BY <2>2 DEF ReadMinted
    <3>2. CASE UNCHANGED held  BY <3>1, <3>2 DEF HeldInv, Clear
    <3>3. CASE a \in slots /\ Admissible(g) /\ held' = [held EXCEPT ![a] = Pushed(held[a], g)]
      <4>1. a \in Agents /\ Clear(held[a])  BY <3>3 DEF WaitInv, ReqTypes, HeldInv
      <4> HIDE DEF a, g
      <4> QED  BY <3>1, <3>3, <4>1, PushIsClear
    <3> QED  BY <2>2, <3>2, <3>3 DEF ReadMinted
  <2>3. CASE UNCHANGED revoked /\ ((\E a : Prune(a)) \/ UNCHANGED held)
    BY <2>3, PruneIsClear DEF HeldInv, Clear
  <2> QED  BY <1>10, <2>1, <2>2, <2>3 DEF Read, ResolveDefer
<1>11. CASE UNCHANGED <<held, revoked>>  BY <1>11 DEF HeldInv, Clear
<1> QED
  BY <1>1, <1>2, <1>3, <1>4, <1>5, <1>6, <1>7, <1>8, <1>9, <1>10, <1>11
  DEF Next, BatchApproved, BatchRefused, PauseOrResume, OpenTask, CloseTask, HandlePolicyd, PushTable,
      ClassChanges, GenMoves, Expire, LinkDown, LinkUp, vars, grantVars

LEMMA HeldInvInit == ASSUME Init PROVE HeldInv
BY DEF Init, HeldInv, Clear

(* Whatever is added, minted or approved after a revocation, no agent      *)
(* object holds a grant on a task that is remembered as revoked            *)
(* (lifecycle.rs Revoked, table.rs live, enforce.rs minted).               *)
THEOREM RevokedStayGone == Spec => []RevokedHoldNothing
<1>1. WaitInv /\ HeldInv => RevokedHoldNothing
  BY DEF WaitInv, ReqTypes, HeldInv, Clear, RevokedHoldNothing
<1> QED  BY WaitInvInit, WaitInvStep, HeldInvInit, HeldInvStep, <1>1, PTL DEF Spec

-----------------------------------------------------------------------------
(* What runs was put down by a handler that looked at the agent.           *)

LEMMA PutRuns ==
  ASSUME WaitInv, NEW i \in Nat, i \in DOMAIN reqs \/ i = Len(reqs) + 1, NEW q, Put(i, q),
         NEW j, Runs(j)
  PROVE  j = i /\ reqs'[i] = q /\ (i \in DOMAIN reqs => q.ran > reqs[i].ran)
         /\ (i \notin DOMAIN reqs => q.ran > 0)
<1>1. reqs \in Seq(Req) /\ DOMAIN reqs = 1..Len(reqs) /\ Len(reqs) \in Nat  BY DEF WaitInv, AllOwed
<1>2. \A k \in DOMAIN reqs : reqs[k].ran \in Nat
  <2>1. \A k \in DOMAIN reqs : reqs[k] \in Req  BY WaitingIsOpen
  <2> QED  BY <2>1 DEF Req
<1>3. CASE i \in DOMAIN reqs
  <2>1. reqs' = [reqs EXCEPT ![i] = q] /\ DOMAIN reqs' = DOMAIN reqs  BY <1>3 DEF Put
  <2>2. j \in DOMAIN reqs /\ reqs'[j].ran > reqs[j].ran  BY <2>1 DEF Runs
  <2>3. CASE j = i  BY <1>3, <2>1, <2>2, <2>3
  <2>4. CASE j # i
    <3>1. reqs'[j] = reqs[j]  BY <2>1, <2>2, <2>4
    <3> QED  BY <1>2, <2>2, <3>1
  <2> QED  BY <2>3, <2>4
<1>4. CASE i \notin DOMAIN reqs
  <2>1. reqs' = Append(reqs, q) /\ i = Len(reqs) + 1  BY <1>4 DEF Put
  <2>2. DOMAIN reqs' = 1..(Len(reqs) + 1) /\ reqs'[Len(reqs) + 1] = q  BY <1>1, <2>1
  <2>3. CASE j \in DOMAIN reqs
    <3>1. reqs'[j] = reqs[j] /\ reqs'[j].ran > reqs[j].ran  BY <1>1, <2>1, <2>3 DEF Runs
    <3> QED  BY <1>2, <2>3, <3>1
  <2>4. CASE j \notin DOMAIN reqs
    <3>1. j = i  BY <1>1, <2>1, <2>2, <2>4 DEF Runs
    <3>2. reqs'[j].ran > 0  BY <2>4 DEF Runs
    <3> QED  BY <1>4, <2>1, <2>2, <3>1, <3>2
  <2> QED  BY <2>3, <2>4
<1> QED  BY <1>3, <1>4

(* What a handler runs is what it was handed, on the target it found.      *)
RunsAs(j, r) ==
  /\ MayAct(r) /\ reqs'[j].agent = r.agent /\ reqs'[j].gen = r.gen /\ reqs'[j].on = Target(r)

LEMMA NothingRuns ==
  ASSUME WaitInv, NEW i \in Nat, i \in DOMAIN reqs \/ i = Len(reqs) + 1, NEW r, Open(r),
         Answer(i, r) \/ Park(i, r) \/ Defer(i, r), NEW j, Runs(j)
  PROVE  FALSE
<1>0. ASSUME NEW q, Put(i, q), q.ran = 0 PROVE FALSE
  <2>1. (i \in DOMAIN reqs => 0 > reqs[i].ran) /\ (i \notin DOMAIN reqs => 0 > 0)  BY <1>0, PutRuns
  <2>2. i \in DOMAIN reqs => reqs[i].ran \in Nat  BY WaitingIsOpen DEF Req
  <2> QED  BY <2>1, <2>2
<1>1. ASSUME Answer(i, r) PROVE FALSE
  <2> DEFINE q == [Done(r) EXCEPT !.aim = None, !.gen = 0, !.on = None]
  <2>1. Put(i, q) /\ q.ran = 0  BY <1>1, DoneIs DEF Answer, Req
  <2> HIDE DEF q
  <2> QED  BY <1>0, <2>1
<1>2. ASSUME Park(i, r) PROVE FALSE
  <2> DEFINE q == [r EXCEPT !.st = "parked", !.on = Target(r), !.class = class[Target(r)]]
  <2>1. q.ran = 0  BY DEF Open
  <2>2. CASE Put(i, q)
    <3> HIDE DEF q
    <3> QED  BY <1>0, <2>1, <2>2
  <2> QED  BY <1>1, <1>2, <2>2 DEF Park
<1>3. ASSUME Defer(i, r) PROVE FALSE
  <2> DEFINE q == [r EXCEPT !.st = "deferred"]
  <2>1. Put(i, q) /\ q.ran = 0  BY <1>3 DEF Defer, Open
  <2> HIDE DEF q
  <2> QED  BY <1>0, <2>1
<1> QED  BY <1>1, <1>2, <1>3

LEMMA ExecuteRuns ==
  ASSUME WaitInv, NEW i \in Nat, i \in DOMAIN reqs \/ i = Len(reqs) + 1, NEW r, Open(r),
         NEW by, MayAct(r), Execute(i, r, by), NEW j, Runs(j)
  PROVE  j = i /\ RunsAs(j, r) /\ reqs'[j].aim = r.aim /\ reqs'[j].by = by
<1> DEFINE q == [Done(r) EXCEPT !.ran = @ + 1, !.on = Target(r), !.by = by]
<1>1. Done(r).agent = r.agent /\ Done(r).gen = r.gen /\ Done(r).aim = r.aim  BY DEF Done, Open
<1>2. q.agent = Done(r).agent /\ q.gen = Done(r).gen /\ q.on = Target(r) /\ q.by = by /\ q.aim = Done(r).aim
  BY DoneIs DEF Req
<1>3. Put(i, q)  BY DEF Execute
<1> HIDE DEF q
<1>4. j = i /\ reqs'[i] = q  BY <1>3, PutRuns
<1> QED  BY <1>1, <1>2, <1>4 DEF RunsAs

(* What is deferred does not run when its answer comes, or the timer.      *)
LEMMA DeferRunsNothing ==
  ASSUME WaitInv, NEW i \in DOMAIN reqs, NEW answer, reqs[i].st = "deferred", ResolveDefer(i, answer),
         NEW j, Runs(j)
  PROVE  FALSE
<1>1. i \in Nat /\ reqs[i] \in Req /\ (reqs[i].agent \in slots => Open(reqs[i]))  BY WaitingIsOpen
<1>2. CASE reqs[i].agent \in slots
  <2>1. Answer(i, reqs[i]) \/ Park(i, reqs[i])  BY <1>2 DEF ResolveDefer
  <2> QED  BY <1>1, <1>2, <2>1, NothingRuns
<1>3. CASE reqs[i].agent \notin slots
  <2> DEFINE q == [reqs[i] EXCEPT !.st = "dropped"]
  <2>1. Put(i, q) /\ q.ran = reqs[i].ran  BY <1>1, <1>3 DEF ResolveDefer, Req
  <2> HIDE DEF q
  <2>2. q.ran > reqs[i].ran /\ reqs[i].ran \in Nat  BY <1>1, <2>1, PutRuns DEF Req
  <2> QED  BY <2>1, <2>2
<1> QED  BY <1>2, <1>3

(* The ways a request just made may run, or one that was approved.         *)
RunsNow(j) ==
  \E r : /\ RunsAs(j, r) /\ reqs'[j].aim = r.aim
         /\ \/ j \notin DOMAIN reqs /\ table[Kind(r)] = "allow"
            \/ \E k \in tokens : Covers(k, r) /\ Consume(k, Target(r)) /\ reqs'[j].by = k.n
            \/ j \in DOMAIN reqs /\ r = reqs[j] /\ r.st = "parked" /\ MayStill(r)

LEMMA RequestRuns == ASSUME WaitInv, Request, NEW j, Runs(j) PROVE RunsNow(j)
<1>1. PICK a \in Agents, aim \in Windows \cup {SeatFocus}, token \in BOOLEAN :
        \E g \in {0} \cup {gen[w] : w \in Windows} : Submit(a, aim, g, token)
  BY DEF Request
<1>2. PICK g \in {0} \cup {gen[w] : w \in Windows} : Submit(a, aim, g, token)  BY <1>1
<1> DEFINE i == Len(reqs) + 1
           r == [agent |-> a, aim |-> aim, gen |-> g, st |-> "new", on |-> None, class |-> 0,
                 by |-> 0, ran |-> 0, answers |-> 0]
<1>3. i \in Nat /\ i \notin DOMAIN reqs  BY DEF WaitInv, AllOwed
<1>5. Open(r)
  <2>1. g \in Nat /\ a \in slots  BY <1>2 DEF WaitInv, ReqTypes, Submit
  <2>2. 0 \in Classes /\ 0 \in Nat  BY DEF Classes
  <2> QED  BY <2>1, <2>2 DEF Open
<1>7. \/ Answer(i, r) \/ Park(i, r) \/ Defer(i, r)
      \/ MayAct(r) /\ table[Kind(r)] = "allow" /\ Execute(i, r, 0)
      \/ MayAct(r) /\ UseToken(i, r)
  BY <1>2 DEF Submit
<1>9. i = Len(reqs) + 1  OBVIOUS
<1> HIDE DEF i, r
<1>10. CASE Answer(i, r) \/ Park(i, r) \/ Defer(i, r)  BY <1>3, <1>5, <1>9, <1>10, NothingRuns
<1>11. CASE MayAct(r) /\ table[Kind(r)] = "allow" /\ Execute(i, r, 0)
  <2>1. j = i /\ RunsAs(j, r) /\ reqs'[j].aim = r.aim  BY <1>3, <1>5, <1>9, <1>11, ExecuteRuns
  <2> QED  BY <1>3, <1>11, <2>1 DEF RunsNow
<1>12. CASE MayAct(r) /\ \E k \in tokens : Covers(k, r) /\ Consume(k, Target(r)) /\ Execute(i, r, k.n)
  <2>1. PICK k \in tokens : Covers(k, r) /\ Consume(k, Target(r)) /\ Execute(i, r, k.n)  BY <1>12
  <2>2. RunsAs(j, r) /\ reqs'[j].aim = r.aim /\ reqs'[j].by = k.n
    BY <1>3, <1>5, <1>9, <1>12, <2>1, ExecuteRuns
  <2> QED  BY <2>1, <2>2 DEF RunsNow
<1> QED  BY <1>7, <1>10, <1>11, <1>12 DEF UseToken

LEMMA PromptRuns == ASSUME WaitInv, PromptAnswered, NEW j, Runs(j) PROVE RunsNow(j)
<1>1. PICK i \in DOMAIN reqs :
        \/ \E mint \in BOOLEAN : Approve(i, mint)
        \/ \E andPause \in BOOLEAN : Deny(i, andPause)
  BY DEF PromptAnswered
<1>2. i \in Nat /\ reqs[i].st = "parked" /\ Open(reqs[i])  BY <1>1, WaitingIsOpen DEF Approve, Deny
<1>3. Answer(i, reqs[i]) \/ (MayStill(reqs[i]) /\ Execute(i, reqs[i], 0))  BY <1>1 DEF Approve, Deny
<1>4. MayStill(reqs[i]) /\ MayAct(reqs[i]) /\ Execute(i, reqs[i], 0)  BY <1>2, <1>3, NothingRuns DEF MayStill
<1>5. j = i /\ RunsAs(j, reqs[i]) /\ reqs'[j].aim = reqs[i].aim  BY <1>2, <1>4, ExecuteRuns
<1> QED  BY <1>2, <1>4, <1>5 DEF RunsNow

LEMMA RunsInHandler == ASSUME WaitInv, [Next]_vars, NEW j, Runs(j) PROVE RunsNow(j)
<1>1. reqs \in Seq(Req) /\ DOMAIN reqs = 1..Len(reqs)  BY DEF WaitInv, AllOwed
<1>2. \A k \in DOMAIN reqs : reqs[k].ran \in Nat
  <2>1. \A k \in DOMAIN reqs : reqs[k] \in Req  BY WaitingIsOpen
  <2> QED  BY <2>1 DEF Req
<1>3. ASSUME DOMAIN reqs' = DOMAIN reqs, \A k \in DOMAIN reqs : reqs'[k].ran = reqs[k].ran PROVE FALSE
  <2>1. j \in DOMAIN reqs /\ reqs[j].ran > reqs[j].ran  BY <1>3 DEF Runs
  <2> QED  BY <1>2, <2>1
<1>4. CASE Request \/ PromptAnswered  BY <1>4, RequestRuns, PromptRuns
<1>5. CASE DeferTimesOut  BY <1>5, DeferRunsNothing DEF DeferTimesOut
<1>6. CASE Leave \/ ClientDestroyed
  <2>1. PICK a : Destroyed(a)  BY <1>6 DEF Leave, ClientDestroyed
  <2>2. reqs' = Dropped(reqs, a)  BY <2>1 DEF Destroyed
  <2>3. DOMAIN reqs' = DOMAIN reqs /\ \A k \in DOMAIN reqs : reqs'[k].ran = reqs[k].ran
    BY <1>1, <2>2 DEF Dropped, Req
  <2> QED  BY <1>3, <2>3
<1>7. CASE TerminateOne \/ TerminateAll
  <2>1. PICK as : Terminate(as)  BY <1>7 DEF TerminateOne, TerminateAll
  <2>2. DOMAIN reqs' = DOMAIN reqs /\ \A k \in DOMAIN reqs : reqs'[k].ran = reqs[k].ran
    BY <1>1, <2>1 DEF Terminate, Req
  <2> QED  BY <1>3, <2>2
<1>8. CASE UNCHANGED reqs  BY <1>3, <1>8
<1>9. CASE Read
  <2> DEFINE m == Head(toAbyss)
  <2>1. UNCHANGED reqs \/ (m.req \in DOMAIN reqs /\ reqs[m.req].st = "deferred" /\ ResolveDefer(m.req, m.answer))
    BY <1>9 DEF Read, ReadRevoked, ReadMinted
  <2> QED  BY <1>8, <2>1, DeferRunsNothing
<1> QED
  BY <1>4, <1>5, <1>6, <1>7, <1>8, <1>9
  DEF Next, Preflight, BatchApproved, BatchRefused, CreateAgent, AddGrant, Look, PanelRevoke, PauseOrResume,
      OpenTask, CloseTask, HandlePolicyd, PushTable, ClassChanges, GenMoves, Expire, LinkDown, LinkUp, vars

(* Whatever waited in between, an act runs only if the agent may act on    *)
(* its window at that moment (enforce.rs submit, resolve_defer, drain).    *)
THEOREM RunsAreCovered == Spec => ActsAreCovered
<1>1. ASSUME WaitInv, [Next]_vars, NEW i, Runs(i) PROVE Covered(i)
  <2>1. PICK r : RunsAs(i, r)  BY <1>1, RunsInHandler DEF RunsNow
  <2>2. MayAct(r)  BY <2>1 DEF RunsAs
  <2>3. Target(r) \in View(r.agent) /\ r.gen \in {0, gen[Target(r)]} /\ r.agent \in slots /\ ~Paused(r.agent)
    BY <2>2 DEF MayAct
  <2>4. class[Target(r)] # Secret /\ \E h \in Pruned(r.agent) : Target(r) \in h.grant.windows
    BY <2>3 DEF View
  <2> QED  BY <2>1, <2>3, <2>4 DEF RunsAs, Covered, Paused, Pruned
<1>2. WaitInv /\ [Next]_vars => [\A i \in 1..MaxRequests : Runs(i) => Covered(i)]_vars  BY <1>1
<1> QED  BY WaitInvInit, WaitInvStep, <1>2, PTL DEF Spec, ActsAreCovered

-----------------------------------------------------------------------------
(* What runs was allowed.                                                  *)

(* What a token is made of: spending one of its targets changes it.        *)
TokenInv ==
  \A k \in tokens : k = [n |-> k.n, agent |-> k.agent, targets |-> k.targets, task |-> k.task]

LEMMA TokenInvStep == ASSUME TokenInv, [Next]_vars PROVE TokenInv'
<1>1. CASE tokens' \subseteq tokens  BY <1>1 DEF TokenInv
<1>2. ASSUME NEW k \in tokens, NEW w, Consume(k, w) PROVE TokenInv'
  <2> DEFINE rest == [k EXCEPT !.targets = @ \ {w}]
  <2>1. tokens' \subseteq tokens \cup {rest}  BY <1>2 DEF Consume
  <2>2. k = [n |-> k.n, agent |-> k.agent, targets |-> k.targets, task |-> k.task]  BY DEF TokenInv
  <2>3. rest = [n |-> rest.n, agent |-> rest.agent, targets |-> rest.targets, task |-> rest.task]  BY <2>2
  <2> HIDE DEF rest
  <2> QED  BY <2>1, <2>3 DEF TokenInv
<1>3. CASE BatchApproved
  <2>1. PICK k \in asks :
          tokens' = tokens \cup {[n |-> minted', agent |-> k.agent, targets |-> k.targets,
                                  task |-> TaskOf(held[k.agent])]}
    BY <1>3 DEF BatchApproved
  <2> QED  BY <2>1 DEF TokenInv
<1>4. CASE Request
  BY <1>1, <1>2, <1>4 DEF Request, Submit, Answer, Park, Defer, UseToken
<1>5. CASE DeferTimesOut \/ Read
  BY <1>1, <1>5 DEF DeferTimesOut, Read, ReadRevoked, ReadMinted, ResolveDefer, Answer, Park
<1>6. CASE PromptAnswered
  BY <1>1, <1>6 DEF PromptAnswered, Approve, Deny, Answer
<1>7. CASE Leave \/ ClientDestroyed
  BY <1>1, <1>7 DEF Leave, ClientDestroyed, Destroyed
<1>8. CASE UNCHANGED tokens  BY <1>8 DEF TokenInv
<1> QED
  BY <1>3, <1>4, <1>5, <1>6, <1>7, <1>8
  DEF Next, Preflight, BatchRefused, CreateAgent, AddGrant, Look, PanelRevoke, TerminateOne, TerminateAll,
      Terminate, PauseOrResume, OpenTask, CloseTask, HandlePolicyd, PushTable, ClassChanges, GenMoves, Expire,
      LinkDown, LinkUp, vars, batchVars

LEMMA SpentIsGone ==
  ASSUME TokenInv, NEW k \in tokens, NEW w \in k.targets, Consume(k, w)
  PROVE  k \notin tokens'
<1> DEFINE rest == [k EXCEPT !.targets = @ \ {w}]
<1>1. tokens' \subseteq (tokens \ {k}) \cup {rest}  BY DEF Consume
<1>2. k = [n |-> k.n, agent |-> k.agent, targets |-> k.targets, task |-> k.task]  BY DEF TokenInv
<1>3. rest.targets = k.targets \ {w}  BY <1>2
<1>4. rest # k  BY <1>3
<1> HIDE DEF rest
<1> QED  BY <1>1, <1>4

(* An act runs because the table allows it at that moment, because a token *)
(* is spent on its window, or because its prompt was answered and its      *)
(* window is not of a higher class than the prompt showed (enforce.rs      *)
(* submit, drain, batch.rs consume).                                       *)
THEOREM RunsAreAllowed == Spec => ActsAreAllowed
<1>1. ASSUME WaitInv, TokenInv, [Next]_vars, NEW i, Runs(i) PROVE Allowed(i)
  <2>1. PICK r :
          /\ RunsAs(i, r) /\ reqs'[i].aim = r.aim
          /\ \/ i \notin DOMAIN reqs /\ table[Kind(r)] = "allow"
             \/ \E k \in tokens : Covers(k, r) /\ Consume(k, Target(r)) /\ reqs'[i].by = k.n
             \/ i \in DOMAIN reqs /\ r = reqs[i] /\ r.st = "parked" /\ MayStill(r)
    BY <1>1, RunsInHandler DEF RunsNow
  <2>2. reqs'[i].agent = r.agent /\ reqs'[i].on = Target(r) /\ Kind(reqs'[i]) = Kind(r)
    BY <2>1 DEF RunsAs, Kind
  <2>3. CASE i \notin DOMAIN reqs /\ table[Kind(r)] = "allow"  BY <2>2, <2>3 DEF Allowed
  <2>4. CASE \E k \in tokens : Covers(k, r) /\ Consume(k, Target(r)) /\ reqs'[i].by = k.n
    <3>1. PICK k \in tokens : Covers(k, r) /\ Consume(k, Target(r)) /\ reqs'[i].by = k.n  BY <2>4
    <3>2. k.agent = r.agent /\ Target(r) \in k.targets  BY <3>1 DEF Covers
    <3>3. k \notin tokens'  BY <1>1, <3>1, <3>2, SpentIsGone
    <3> QED  BY <2>2, <3>1, <3>2, <3>3 DEF Allowed
  <2>5. CASE i \in DOMAIN reqs /\ r = reqs[i] /\ r.st = "parked" /\ MayStill(r)
    BY <2>2, <2>5 DEF Allowed, MayStill
  <2> QED  BY <2>1, <2>3, <2>4, <2>5
<1>2. WaitInv /\ TokenInv /\ [Next]_vars => [\A i \in 1..MaxRequests : Runs(i) => Allowed(i)]_vars  BY <1>1
<1>3. Init => TokenInv  BY DEF Init, TokenInv
<1> QED  BY WaitInvInit, WaitInvStep, <1>3, TokenInvStep, <1>2, PTL DEF Spec, ActsAreAllowed

-----------------------------------------------------------------------------
(* A target is acted on once.  A token's number is its approval's, and the *)
(* targets it still has are those no request under that number acted on.   *)

OnceInv ==
  /\ \A k \in tokens : k.n \in 1..minted
  /\ \A k, o \in tokens : k.n = o.n => k = o
  /\ \A i \in DOMAIN reqs : reqs[i].by <= minted /\ (reqs[i].st # "done" => reqs[i].by = 0)
  /\ \A k \in tokens : \A i \in DOMAIN reqs : reqs[i].by = k.n => reqs[i].on \notin k.targets
  /\ TargetsAreActedOnOnce

(* Requests among which no act is under an approval that was not there.    *)
NoneSpent(rs) ==
  \A i \in DOMAIN rs :
    \/ rs[i].by = 0
    \/ i \in DOMAIN reqs /\ rs[i].st = "done" /\ rs[i].by = reqs[i].by /\ rs[i].on = reqs[i].on

LEMMA ReqsAre ==
  ASSUME WaitInv
  PROVE  /\ reqs \in Seq(Req) /\ DOMAIN reqs = 1..Len(reqs) /\ Len(reqs) \in Nat /\ minted \in Nat
         /\ \A i \in DOMAIN reqs : reqs[i] \in Req
<1>1. reqs \in Seq(Req) /\ DOMAIN reqs = 1..Len(reqs) /\ Len(reqs) \in Nat  BY DEF WaitInv, AllOwed
<1> QED  BY <1>1 DEF WaitInv, ReqTypes

(* What a request put down leaves of the others.                           *)
LEMMA PutLeaves ==
  ASSUME WaitInv, NEW i \in Nat, i \in DOMAIN reqs \/ i = Len(reqs) + 1, NEW q, Put(i, q)
  PROVE  /\ DOMAIN reqs' = DOMAIN reqs \cup {i} /\ reqs'[i] = q
         /\ \A j \in DOMAIN reqs \ {i} : reqs'[j] = reqs[j]
<1>1. reqs \in Seq(Req) /\ DOMAIN reqs = 1..Len(reqs) /\ Len(reqs) \in Nat  BY ReqsAre
<1>2. CASE i \in DOMAIN reqs
  BY <1>1, <1>2 DEF Put
<1>3. CASE i \notin DOMAIN reqs
  <2>1. reqs' = Append(reqs, q) /\ i = Len(reqs) + 1  BY <1>3 DEF Put
  <2>2. DOMAIN reqs' = 1..(Len(reqs) + 1)  BY <1>1, <2>1
  <2>3. reqs'[i] = q /\ \A j \in 1..Len(reqs) : reqs'[j] = reqs[j]  BY <1>1, <2>1
  <2> QED  BY <1>1, <2>1, <2>2, <2>3
<1> QED  BY <1>2, <1>3

LEMMA PutSpendsNothing ==
  ASSUME WaitInv, OnceInv, NEW i \in Nat, i \in DOMAIN reqs \/ i = Len(reqs) + 1, NEW q, Put(i, q),
         q.by = 0
  PROVE  NoneSpent(reqs')
<1>1. /\ DOMAIN reqs' = DOMAIN reqs \cup {i} /\ reqs'[i] = q
      /\ \A j \in DOMAIN reqs \ {i} : reqs'[j] = reqs[j]
  BY PutLeaves
<1>2. \A j \in DOMAIN reqs : reqs[j].st = "done" \/ reqs[j].by = 0  BY DEF OnceInv
<1> QED  BY <1>1, <1>2 DEF NoneSpent

LEMMA NoneSpentKeeps ==
  ASSUME WaitInv, OnceInv, NoneSpent(reqs'), tokens' \subseteq tokens, UNCHANGED minted
  PROVE  OnceInv'
<1>1. minted \in Nat /\ \A k \in tokens : k.n # 0
  BY ReqsAre DEF OnceInv
<1>2. \A i \in DOMAIN reqs' : reqs'[i].by <= minted /\ (reqs'[i].st # "done" => reqs'[i].by = 0)
  BY <1>1 DEF OnceInv, NoneSpent
<1>3. \A k \in tokens : \A i \in DOMAIN reqs' : reqs'[i].by = k.n => reqs'[i].on \notin k.targets
  BY <1>1 DEF OnceInv, NoneSpent
<1>4. TargetsAreActedOnOnce'
  BY DEF OnceInv, NoneSpent, TargetsAreActedOnOnce
<1> QED  BY <1>2, <1>3, <1>4 DEF OnceInv

(* What the handlers put down besides an act.                              *)
LEMMA EndsSpendNothing ==
  ASSUME WaitInv, OnceInv, NEW i \in Nat, i \in DOMAIN reqs \/ i = Len(reqs) + 1, NEW r, Open(r), r.by = 0,
         \/ Answer(i, r)
         \/ MayAct(r) /\ Execute(i, r, 0)
         \/ Park(i, r)
         \/ Defer(i, r)
  PROVE  NoneSpent(reqs')
<1>0. Done(r) \in Req /\ Done(r).by = 0  BY DoneIs DEF Done, Open
<1>1. ASSUME Answer(i, r) PROVE NoneSpent(reqs')
  <2> DEFINE q == [Done(r) EXCEPT !.aim = None, !.gen = 0, !.on = None]
  <2>1. Put(i, q) /\ q.by = 0  BY <1>0, <1>1 DEF Answer, Req
  <2> HIDE DEF q
  <2> QED  BY <2>1, PutSpendsNothing
<1>2. ASSUME Execute(i, r, 0) PROVE NoneSpent(reqs')
  <2> DEFINE q == [Done(r) EXCEPT !.ran = @ + 1, !.on = Target(r), !.by = 0]
  <2>1. Put(i, q) /\ q.by = 0  BY <1>0, <1>2 DEF Execute, Req
  <2> HIDE DEF q
  <2> QED  BY <2>1, PutSpendsNothing
<1>3. ASSUME Park(i, r) PROVE NoneSpent(reqs')
  <2> DEFINE q == [r EXCEPT !.st = "parked", !.on = Target(r), !.class = class[Target(r)]]
  <2>1. q.by = 0  BY DEF Open
  <2>2. CASE Put(i, q)
    <3> HIDE DEF q
    <3> QED  BY <2>1, <2>2, PutSpendsNothing
  <2> QED  BY <1>1, <1>3, <2>2 DEF Park
<1>4. ASSUME Defer(i, r) PROVE NoneSpent(reqs')
  <2> DEFINE q == [r EXCEPT !.st = "deferred"]
  <2>1. Put(i, q) /\ q.by = 0  BY <1>4 DEF Defer, Open
  <2> HIDE DEF q
  <2> QED  BY <2>1, PutSpendsNothing
<1> QED  BY <1>1, <1>2, <1>3, <1>4

(* An act under an approval: its target is spent with it.                  *)
LEMMA SpendingKeeps ==
  ASSUME WaitInv, TokenInv, OnceInv, NEW i \in Nat, i = Len(reqs) + 1, NEW r, Open(r), MayAct(r),
         NEW k \in tokens, Covers(k, r), Consume(k, Target(r)), Execute(i, r, k.n), UNCHANGED minted
  PROVE  OnceInv'
<1> DEFINE w == Target(r)
           q == [Done(r) EXCEPT !.ran = @ + 1, !.on = w, !.by = k.n]
           rest == [k EXCEPT !.targets = @ \ {w}]
<1>1. k = [n |-> k.n, agent |-> k.agent, targets |-> k.targets, task |-> k.task]  BY DEF TokenInv
<1>2. w \in k.targets /\ rest.n = k.n /\ rest.targets = k.targets \ {w}  BY <1>1 DEF Covers
<1>3. tokens' \subseteq (tokens \ {k}) \cup {rest}  BY DEF Consume
<1>4. q.on = w /\ q.by = k.n /\ q.st = "done"  BY DoneIs DEF Req
<1>5. Put(i, q)  BY DEF Execute
<1> HIDE DEF q, rest, w
<1>6. /\ DOMAIN reqs' = DOMAIN reqs \cup {i} /\ reqs'[i] = q
      /\ \A j \in DOMAIN reqs \ {i} : reqs'[j] = reqs[j]
  BY <1>5, PutLeaves
<1>7. i \notin DOMAIN reqs  BY ReqsAre
<1>8. \A o \in tokens' : o = rest \/ (o \in tokens /\ o # k)  BY <1>3
<1>9. \A o \in tokens' : (o.n = k.n => o = rest) /\ o.n \in 1..minted
  BY <1>2, <1>8 DEF OnceInv
<1>10. \A o, p \in tokens' : o.n = p.n => o = p
  BY <1>2, <1>8, <1>9 DEF OnceInv
<1>11. \A j \in DOMAIN reqs' : reqs'[j].by <= minted /\ (reqs'[j].st # "done" => reqs'[j].by = 0)
  <2>1. k.n <= minted  BY ReqsAre DEF OnceInv
  <2> QED  BY <1>4, <1>6, <2>1 DEF OnceInv
<1>12. \A o \in tokens' : \A j \in DOMAIN reqs' : reqs'[j].by = o.n => reqs'[j].on \notin o.targets
  <2> SUFFICES ASSUME NEW o \in tokens', NEW j \in DOMAIN reqs', reqs'[j].by = o.n
               PROVE  reqs'[j].on \notin o.targets
    OBVIOUS
  <2>1. CASE j = i
    <3>1. o = rest  BY <1>4, <1>6, <1>9, <2>1
    <3> QED  BY <1>2, <1>4, <1>6, <2>1, <3>1
  <2>2. CASE j # i
    <3>1. j \in DOMAIN reqs /\ reqs[j].by = o.n /\ reqs'[j] = reqs[j]  BY <1>6, <2>2
    <3>2. CASE o = rest
      <4>1. reqs[j].on \notin k.targets  BY <1>2, <3>1, <3>2 DEF OnceInv
      <4> QED  BY <1>2, <3>1, <3>2, <4>1
    <3>3. CASE o \in tokens  BY <3>1, <3>3 DEF OnceInv
    <3> QED  BY <1>8, <3>2, <3>3
  <2> QED  BY <2>1, <2>2
<1>13. TargetsAreActedOnOnce'
  <2>1. \A j \in DOMAIN reqs : reqs[j].by = k.n => reqs[j].on # w  BY <1>2 DEF OnceInv
  <2>2. \A j \in DOMAIN reqs' : j = i \/ (j \in DOMAIN reqs /\ reqs'[j] = reqs[j])  BY <1>6
  <2> QED  BY <1>4, <1>6, <2>1, <2>2 DEF OnceInv, TargetsAreActedOnOnce
<1>14. UNCHANGED minted  OBVIOUS
<1> QED  BY <1>9, <1>10, <1>11, <1>12, <1>13, <1>14 DEF OnceInv

LEMMA RequestOnce == ASSUME WaitInv, TokenInv, OnceInv, Request PROVE OnceInv'
<1>1. PICK a \in Agents, aim \in Windows \cup {SeatFocus}, token \in BOOLEAN :
        \E g \in {0} \cup {gen[w] : w \in Windows} : Submit(a, aim, g, token)
  BY DEF Request
<1>2. PICK g \in {0} \cup {gen[w] : w \in Windows} : Submit(a, aim, g, token)  BY <1>1
<1> DEFINE i == Len(reqs) + 1
           r == [agent |-> a, aim |-> aim, gen |-> g, st |-> "new", on |-> None, class |-> 0,
                 by |-> 0, ran |-> 0, answers |-> 0]
<1>3. i \in Nat /\ i = Len(reqs) + 1  BY ReqsAre
<1>4. Open(r) /\ r.by = 0
  <2>1. g \in Nat /\ a \in slots  BY <1>2 DEF WaitInv, ReqTypes, Submit
  <2>2. 0 \in Classes /\ 0 \in Nat  BY DEF Classes
  <2> QED  BY <2>1, <2>2 DEF Open
<1>5. UNCHANGED minted  BY <1>2 DEF Submit
<1>6. \/ Answer(i, r)
      \/ MayAct(r) /\ Execute(i, r, 0) /\ UNCHANGED tokens
      \/ MayAct(r) /\ UseToken(i, r)
      \/ Park(i, r)
      \/ Defer(i, r)
  BY <1>2 DEF Submit
<1> HIDE DEF i, r
<1>7. CASE Answer(i, r) \/ (MayAct(r) /\ Execute(i, r, 0) /\ UNCHANGED tokens) \/ Park(i, r) \/ Defer(i, r)
  <2>1. UNCHANGED tokens  BY <1>7 DEF Answer, Park, Defer
  <2>2. NoneSpent(reqs')  BY <1>3, <1>4, <1>7, EndsSpendNothing
  <2> QED  BY <1>5, <2>1, <2>2, NoneSpentKeeps
<1>8. CASE MayAct(r) /\ \E k \in tokens : Covers(k, r) /\ Consume(k, Target(r)) /\ Execute(i, r, k.n)
  BY <1>3, <1>4, <1>5, <1>8, SpendingKeeps
<1> QED  BY <1>6, <1>7, <1>8 DEF UseToken

LEMMA PromptOnce == ASSUME WaitInv, OnceInv, PromptAnswered PROVE OnceInv'
<1>1. PICK i \in DOMAIN reqs :
        \/ \E mint \in BOOLEAN : Approve(i, mint)
        \/ \E andPause \in BOOLEAN : Deny(i, andPause)
  BY DEF PromptAnswered
<1>2. i \in Nat /\ reqs[i].st = "parked" /\ Open(reqs[i])  BY <1>1, WaitingIsOpen DEF Approve, Deny
<1>3. reqs[i].by = 0  BY <1>2 DEF OnceInv
<1>4. Answer(i, reqs[i]) \/ (MayAct(reqs[i]) /\ Execute(i, reqs[i], 0) /\ UNCHANGED tokens)
  BY <1>1 DEF Approve, Deny, MayStill
<1>5. UNCHANGED <<tokens, minted>>  BY <1>1, <1>4 DEF Answer, Approve, Deny
<1>6. NoneSpent(reqs')  BY <1>2, <1>3, <1>4, EndsSpendNothing
<1> QED  BY <1>5, <1>6, NoneSpentKeeps

LEMMA DeferOnce ==
  ASSUME WaitInv, OnceInv, NEW i \in DOMAIN reqs, NEW answer, reqs[i].st = "deferred",
         ResolveDefer(i, answer), UNCHANGED minted
  PROVE  OnceInv'
<1>1. i \in Nat /\ reqs[i] \in Req /\ (reqs[i].agent \in slots => Open(reqs[i]))  BY WaitingIsOpen
<1>2. reqs[i].by = 0  BY DEF OnceInv
<1>3. UNCHANGED tokens  BY DEF ResolveDefer, Answer, Park
<1>4. CASE reqs[i].agent \in slots
  <2>1. Answer(i, reqs[i]) \/ Park(i, reqs[i])  BY <1>4 DEF ResolveDefer
  <2>2. NoneSpent(reqs')  BY <1>1, <1>2, <1>4, <2>1, EndsSpendNothing
  <2> QED  BY <1>3, <2>2, NoneSpentKeeps
<1>5. CASE reqs[i].agent \notin slots
  <2> DEFINE q == [reqs[i] EXCEPT !.st = "dropped"]
  <2>1. Put(i, q) /\ q.by = 0  BY <1>1, <1>2, <1>5 DEF ResolveDefer, Req
  <2> HIDE DEF q
  <2>2. NoneSpent(reqs')  BY <1>1, <2>1, PutSpendsNothing
  <2> QED  BY <1>3, <2>2, NoneSpentKeeps
<1> QED  BY <1>4, <1>5

(* Dropping changes neither what was acted on nor under what.              *)
LEMMA DropOnce ==
  ASSUME WaitInv, OnceInv, NEW D,
         reqs' = [i \in DOMAIN reqs |-> IF i \in D THEN [reqs[i] EXCEPT !.st = "dropped"] ELSE reqs[i]],
         \A i \in DOMAIN reqs \cap D : reqs[i].st # "done", tokens' \subseteq tokens, UNCHANGED minted
  PROVE  OnceInv'
<1>1. ASSUME NEW i \in DOMAIN reqs'
      PROVE  \/ reqs'[i].by = 0
             \/ i \in DOMAIN reqs /\ reqs'[i].st = "done" /\ reqs'[i].by = reqs[i].by /\ reqs'[i].on = reqs[i].on
  <2>1. i \in DOMAIN reqs /\ reqs[i] \in Req  BY ReqsAre
  <2>2. reqs[i].st = "done" \/ reqs[i].by = 0  BY <2>1 DEF OnceInv
  <2>3. CASE i \in D
    <3>1. reqs'[i] = [reqs[i] EXCEPT !.st = "dropped"]  BY <2>1, <2>3
    <3> QED  BY <2>1, <2>2, <2>3, <3>1 DEF Req
  <2>4. CASE i \notin D  BY <2>1, <2>2, <2>4
  <2> QED  BY <2>3, <2>4
<1>2. NoneSpent(reqs')  BY <1>1 DEF NoneSpent
<1> QED  BY <1>2, NoneSpentKeeps

LEMMA OnceInvStep == ASSUME WaitInv, TokenInv, OnceInv, [Next]_vars PROVE OnceInv'
<1>1. CASE Request  BY <1>1, RequestOnce
<1>2. CASE PromptAnswered  BY <1>2, PromptOnce
<1>3. CASE DeferTimesOut
  <2>1. UNCHANGED minted  BY <1>3 DEF DeferTimesOut
  <2> QED  BY <1>3, <2>1, DeferOnce DEF DeferTimesOut
<1>4. CASE UNCHANGED <<reqs, tokens, minted>>
  <2>1. NoneSpent(reqs')  BY <1>4 DEF OnceInv, NoneSpent
  <2> QED  BY <1>4, <2>1, NoneSpentKeeps
<1>5. CASE BatchApproved
  <2>1. PICK k \in asks :
          tokens' = tokens \cup {[n |-> minted', agent |-> k.agent, targets |-> k.targets,
                                  task |-> TaskOf(held[k.agent])]}
    BY <1>5 DEF BatchApproved
  <2> DEFINE new == [n |-> minted', agent |-> k.agent, targets |-> k.targets, task |-> TaskOf(held[k.agent])]
  <2>2. UNCHANGED reqs /\ minted' = minted + 1 /\ minted \in Nat  BY <1>5, ReqsAre DEF BatchApproved
  <2>3. new.n = minted + 1 /\ tokens' = tokens \cup {new}  BY <2>1, <2>2
  <2> HIDE DEF new
  <2>4. \A o \in tokens : o.n \in 1..minted /\ o.n # new.n  BY <2>2, <2>3 DEF OnceInv
  <2>5. \A i \in DOMAIN reqs : reqs[i].by <= minted /\ reqs[i].by \in Nat  BY ReqsAre DEF OnceInv, Req
  <2>6. \A i \in DOMAIN reqs : reqs[i].by # new.n /\ reqs[i].by <= minted'  BY <2>2, <2>3, <2>5
  <2>7. \A o \in tokens' : o.n \in 1..minted'
    <3>1. \A n \in 1..minted : n \in 1..minted'  BY <2>2
    <3> QED  BY <2>2, <2>3, <2>4, <3>1
  <2>8. \A o, p \in tokens' : o.n = p.n => o = p  BY <2>3, <2>4 DEF OnceInv
  <2>9. \A o \in tokens' : \A i \in DOMAIN reqs : reqs[i].by = o.n => reqs[i].on \notin o.targets
    BY <2>3, <2>6 DEF OnceInv
  <2>10. TargetsAreActedOnOnce'  BY <2>2 DEF OnceInv, TargetsAreActedOnOnce
  <2> QED  BY <2>2, <2>6, <2>7, <2>8, <2>9, <2>10 DEF OnceInv
<1>6. CASE Leave \/ ClientDestroyed
  <2>1. PICK a : Destroyed(a)  BY <1>6 DEF Leave, ClientDestroyed
  <2> DEFINE D == {i \in DOMAIN reqs : reqs[i].agent = a /\ reqs[i].st \in {"parked", "deferred"}}
  <2>2. reqs' = [i \in DOMAIN reqs |-> IF i \in D THEN [reqs[i] EXCEPT !.st = "dropped"] ELSE reqs[i]]
    BY <2>1 DEF Destroyed, Dropped
  <2>3. \A i \in DOMAIN reqs \cap D : reqs[i].st # "done"  OBVIOUS
  <2>4. tokens' \subseteq tokens /\ UNCHANGED minted  BY <2>1 DEF Destroyed
  <2> HIDE DEF D
  <2> QED  BY <2>2, <2>3, <2>4, DropOnce
<1>7. CASE TerminateOne \/ TerminateAll
  <2>1. PICK as : Terminate(as)  BY <1>7 DEF TerminateOne, TerminateAll
  <2> DEFINE D == {i \in DOMAIN reqs : reqs[i].agent \in as /\ reqs[i].st = "parked"}
  <2>2. reqs' = [i \in DOMAIN reqs |-> IF i \in D THEN [reqs[i] EXCEPT !.st = "dropped"] ELSE reqs[i]]
    BY <2>1 DEF Terminate
  <2>3. \A i \in DOMAIN reqs \cap D : reqs[i].st # "done"  OBVIOUS
  <2>4. tokens' \subseteq tokens /\ UNCHANGED minted  BY <2>1 DEF Terminate
  <2> HIDE DEF D
  <2> QED  BY <2>2, <2>3, <2>4, DropOnce
<1>8. CASE Read
  <2> DEFINE m == Head(toAbyss)
  <2>1. UNCHANGED minted  BY <1>8 DEF Read
  <2>2. CASE UNCHANGED <<reqs, tokens>>  BY <1>4, <2>1, <2>2
  <2>3. CASE m.req \in DOMAIN reqs /\ reqs[m.req].st = "deferred" /\ ResolveDefer(m.req, m.answer)
    BY <2>1, <2>3, DeferOnce
  <2> QED  BY <1>8, <2>2, <2>3 DEF Read, ReadRevoked, ReadMinted
<1> QED
  BY <1>1, <1>2, <1>3, <1>4, <1>5, <1>6, <1>7, <1>8
  DEF Next, Preflight, BatchRefused, CreateAgent, AddGrant, Look, PanelRevoke, PauseOrResume,
      OpenTask, CloseTask, HandlePolicyd, PushTable, ClassChanges, GenMoves, Expire, LinkDown, LinkUp,
      vars, batchVars

LEMMA OnceInvInit == ASSUME Init PROVE OnceInv
<1>1. reqs = <<>> /\ DOMAIN reqs = {}  BY DEF Init
<1> QED  BY <1>1 DEF Init, OnceInv, TargetsAreActedOnOnce

(* "Approving lets the agent do this to exactly the targets listed, each   *)
(* once" (trusted_ui/batch.rs): however the requests of any number of      *)
(* agents interleave with approvals, terminations and prompts, no two acts *)
(* under one approval are on one window (batch.rs find, consume).          *)
THEOREM EachTargetOnce == Spec => []TargetsAreActedOnOnce
<1>1. OnceInv => TargetsAreActedOnOnce  BY DEF OnceInv
<1>2. Init => TokenInv  BY DEF Init, TokenInv
<1> QED
  BY WaitInvInit, WaitInvStep, <1>2, TokenInvStep, OnceInvInit, OnceInvStep, <1>1, PTL DEF Spec
==============================================================================
