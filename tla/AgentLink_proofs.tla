--------------------------- MODULE AgentLink_proofs ---------------------------
(***************************************************************************)
(* Proofs about AgentLink, for any tasks and any bounds on requests,       *)
(* breaks and restarts.                                                    *)
(***************************************************************************)
EXTENDS AgentLink, TLAPS, SequenceTheorems, FiniteSetTheorems

-----------------------------------------------------------------------------
(* What is said of a task on the way to agentd.                            *)
Starts(m, t) == m.kind = "provision" /\ m.task = t
News(m, t)   == m.kind = "state" /\ m.task = t
About(m, t)  == Starts(m, t) \/ News(m, t)

(* Agentd knows of no task that policyd does not have, and hears of no     *)
(* close before there is one, with x policyd's state of the task, v        *)
(* agentd's, and ms on the way.                                            *)
Known(ms, x, v, t) ==
  /\ x = "none" => v = "none" /\ \A i \in DOMAIN ms : ~About(ms[i], t)
  /\ \A i \in DOMAIN ms : News(ms[i], t) /\ ms[i].state = "closed" => Closed(x)

(* Agentd follows: the last it will hear of a task it stored is the task's *)
(* state, and a task it will not hear of it has right.                     *)
LastNews(ms, i, t) == News(ms[i], t) /\ \A j \in DOMAIN ms : j > i => ~News(ms[j], t)

Follows(ms, x, v, t) ==
  /\ \A i, j \in DOMAIN ms : Starts(ms[i], t) /\ About(ms[j], t) => i <= j
  /\ \A i \in DOMAIN ms : Starts(ms[i], t) => v = "none"
  /\ \A i \in DOMAIN ms : LastNews(ms, i, t) => ms[i].state = Told(x)
  /\ (\A i \in DOMAIN ms : ~News(ms[i], t)) =>
        /\ v # "none" => v = Told(x)
        /\ \A i \in DOMAIN ms : Starts(ms[i], t) => x = "active"
  /\ v = "closed" => Closed(x)

(* A connection comes up once.                                             *)
OneUp ==
  /\ \A i, j \in DOMAIN toAgentd : toAgentd[i].kind = "up" /\ toAgentd[j].kind = "up" => i = j
  /\ conn = 0 => \A i \in DOMAIN toAgentd : toAgentd[i].kind # "up"

Stored == {t \in TaskIds : view[t] # "none"}

Heard(ms, tk, vw)  == \A t \in TaskIds : Known(ms, tk[t], vw[t], t)
Agrees(ms, tk, vw) == \A t \in TaskIds : Follows(ms, tk[t], vw[t], t)

SaidInv ==
  /\ Heard(toAgentd, task, view)
  /\ NothingEnded =>
       /\ conn = 0 => \A t \in TaskIds : task[t] = "none"
       /\ Agrees(toAgentd, task, view)
StoredInv == IsFiniteSet(Stored) /\ leftover \subseteq Stored
UpInv     == ended.breaks = 0 /\ ended.policyd = 0 => OneUp

LinkInv == TypeOK /\ StoredInv /\ UpInv /\ SaidInv /\ ReportsOwed

-----------------------------------------------------------------------------
(* What one message more, or one less, does to a task's part.              *)

(* A message that is not about the task.                                   *)
LEMMA OtherSent ==
  ASSUME NEW S, NEW ms \in Seq(S), NEW m \in S, NEW x, NEW v, NEW t, ~About(m, t)
  PROVE  /\ Known(ms, x, v, t) => Known(Append(ms, m), x, v, t)
         /\ Follows(ms, x, v, t) => Follows(Append(ms, m), x, v, t)
<1> DEFINE ns == Append(ms, m)
<1>1. /\ Len(ms) \in Nat /\ DOMAIN ms = 1..Len(ms) /\ DOMAIN ns = 1..(Len(ms) + 1)
      /\ \A i \in DOMAIN ns : (i \in DOMAIN ms /\ ns[i] = ms[i]) \/ (i = Len(ms) + 1 /\ ns[i] = m)
      /\ \A i \in DOMAIN ms : i \in DOMAIN ns /\ ns[i] = ms[i]
  OBVIOUS
<1> HIDE DEF ns
<1>2. ~Starts(m, t) /\ ~News(m, t)  BY DEF About
<1>3. \A i \in DOMAIN ns : About(ns[i], t) => i \in DOMAIN ms /\ ns[i] = ms[i]  BY <1>1
<1>4. \A i \in DOMAIN ns : Starts(ns[i], t) \/ News(ns[i], t) => i \in DOMAIN ms /\ ns[i] = ms[i]
  BY <1>1, <1>2
<1>5. Known(ms, x, v, t) => Known(ns, x, v, t)  BY <1>3, <1>4 DEF Known
<1>6. \A i \in DOMAIN ns : LastNews(ns, i, t) => LastNews(ms, i, t) /\ i \in DOMAIN ms /\ ns[i] = ms[i]
  BY <1>1, <1>4 DEF LastNews
<1>7. (\A i \in DOMAIN ns : ~News(ns[i], t)) => \A i \in DOMAIN ms : ~News(ms[i], t)  BY <1>1
<1>8. Follows(ms, x, v, t) => Follows(ns, x, v, t)  BY <1>3, <1>4, <1>6, <1>7 DEF Follows
<1> QED  BY <1>5, <1>8 DEF ns

(* News of a live task's new state.                                        *)
LEMMA NewsSent ==
  ASSUME NEW S, NEW ms \in Seq(S), NEW m \in S, NEW x, NEW y, NEW v, NEW t,
         IsLive(x), y \in TaskStates, News(m, t), m.state = Told(y)
  PROVE  /\ Known(ms, x, v, t) => Known(Append(ms, m), y, v, t)
         /\ Known(ms, x, v, t) /\ Follows(ms, x, v, t) => Follows(Append(ms, m), y, v, t)
<1> DEFINE ns == Append(ms, m)
           n  == Len(ms) + 1
<1>1. /\ Len(ms) \in Nat /\ DOMAIN ms = 1..Len(ms) /\ DOMAIN ns = 1..n /\ n \in DOMAIN ns /\ ns[n] = m
      /\ \A i \in DOMAIN ns : (i \in DOMAIN ms /\ ns[i] = ms[i]) \/ i = n
      /\ \A i \in DOMAIN ms : i \in DOMAIN ns /\ ns[i] = ms[i] /\ i < n
  OBVIOUS
<1>2. /\ x \notin CloseReasons /\ x # "none" /\ y # "none" /\ ~Starts(m, t)
      /\ (m.state = "closed" => Closed(y)) /\ ~Closed(x)
  BY DEF IsLive, LiveStates, CloseReasons, TaskStates, Told, Closed, Starts, News
<1> HIDE DEF ns, n
<1>3. Known(ms, x, v, t) => Known(ns, y, v, t)
  BY <1>1, <1>2 DEF Known
<1>4. ASSUME Known(ms, x, v, t), Follows(ms, x, v, t) PROVE Follows(ns, y, v, t)
  <2>1. \A i, j \in DOMAIN ns : Starts(ns[i], t) /\ About(ns[j], t) => i <= j
    BY <1>1, <1>2, <1>4 DEF Follows
  <2>2. \A i \in DOMAIN ns : Starts(ns[i], t) => v = "none"
    BY <1>1, <1>2, <1>4 DEF Follows
  <2>3. n \in DOMAIN ns /\ News(ns[n], t)  BY <1>1
  <2>4. \A i \in DOMAIN ns : LastNews(ns, i, t) => i = n
    BY <1>1, <2>3 DEF LastNews
  <2>5. v # "closed"  BY <1>2, <1>4 DEF Follows
  <2> QED  BY <1>1, <2>1, <2>2, <2>3, <2>4, <2>5 DEF Follows
<1> QED  BY <1>3, <1>4 DEF ns

(* The provisioning of a task that is just there.                          *)
LEMMA StartSent ==
  ASSUME NEW S, NEW ms \in Seq(S), NEW m \in S, NEW v, NEW t, Starts(m, t)
  PROVE  Known(ms, "none", v, t) =>
           Known(Append(ms, m), "active", v, t) /\ Follows(Append(ms, m), "active", v, t)
<1> DEFINE ns == Append(ms, m)
           n  == Len(ms) + 1
<1> SUFFICES ASSUME Known(ms, "none", v, t)
             PROVE  Known(ns, "active", v, t) /\ Follows(ns, "active", v, t)
  OBVIOUS
<1>1. /\ Len(ms) \in Nat /\ DOMAIN ms = 1..Len(ms) /\ DOMAIN ns = 1..n /\ n \in DOMAIN ns /\ ns[n] = m
      /\ \A i \in DOMAIN ns : (i \in DOMAIN ms /\ ns[i] = ms[i]) \/ i = n
  OBVIOUS
<1> HIDE DEF ns, n
<1>2. v = "none" /\ ~News(m, t) /\ \A i \in DOMAIN ns : About(ns[i], t) => i = n
  BY <1>1 DEF Known, News, Starts
<1>3. \A i \in DOMAIN ns : ~News(ns[i], t)  BY <1>1, <1>2 DEF About
<1>4. Known(ns, "active", v, t)  BY <1>3 DEF Known
<1>5. \A i \in DOMAIN ns : Starts(ns[i], t) => i = n  BY <1>2 DEF About
<1> QED  BY <1>1, <1>2, <1>3, <1>4, <1>5 DEF Follows, LastNews

LEMMA TailIs ==
  ASSUME NEW S, NEW ms \in Seq(S), ms # <<>>
  PROVE  /\ Tail(ms) \in Seq(S) /\ Head(ms) = ms[1] /\ 1 \in DOMAIN ms /\ DOMAIN ms \subseteq Nat
         /\ \A i \in DOMAIN Tail(ms) : i + 1 \in DOMAIN ms /\ Tail(ms)[i] = ms[i + 1]
         /\ \A i \in DOMAIN ms : i = 1 \/ (i - 1 \in DOMAIN Tail(ms) /\ Tail(ms)[i - 1] = ms[i])
         /\ \A i \in DOMAIN Tail(ms) : i \in Nat /\ i >= 1
OBVIOUS

LEMMA LastInTail ==
  ASSUME NEW S, NEW ms \in Seq(S), ms # <<>>, NEW t, NEW i \in DOMAIN Tail(ms), LastNews(Tail(ms), i, t)
  PROVE  LastNews(ms, i + 1, t)
<1>1. News(ms[i + 1], t)  BY TailIs DEF LastNews
<1>2. ASSUME NEW j \in DOMAIN ms, j > i + 1 PROVE ~News(ms[j], t)
  <2>1. i \in Nat /\ j \in Nat /\ j # 1 /\ j - 1 > i  BY <1>2, TailIs
  <2>2. j - 1 \in DOMAIN Tail(ms) /\ Tail(ms)[j - 1] = ms[j]  BY <2>1, TailIs
  <2> QED  BY <2>1, <2>2 DEF LastNews
<1> QED  BY <1>1, <1>2 DEF LastNews

(* Agentd took a message: of another task, its provisioning, or its news.  *)
LEMMA Taken ==
  ASSUME NEW S, NEW ms \in Seq(S), ms # <<>>, NEW x, NEW v, NEW u, NEW t,
         Known(ms, x, v, t),
         \/ ~About(Head(ms), t) /\ u = v
         \/ Starts(Head(ms), t) /\ v # "none" /\ u = v
         \/ Starts(Head(ms), t) /\ v = "none" /\ u \in {"none", "active"}
         \/ News(Head(ms), t) /\ u = IF v \notin {"none", "closed"} THEN Head(ms).state ELSE v
  PROVE  /\ Known(Tail(ms), x, u, t)
         /\ Follows(ms, x, v, t) => Follows(Tail(ms), x, u, t)
<1> DEFINE ns == Tail(ms)
<1>1. /\ Head(ms) = ms[1] /\ 1 \in DOMAIN ms /\ DOMAIN ms \subseteq Nat
      /\ \A i \in DOMAIN ns : i + 1 \in DOMAIN ms /\ ns[i] = ms[i + 1]
      /\ \A i \in DOMAIN ms : i = 1 \/ (i - 1 \in DOMAIN ns /\ ns[i - 1] = ms[i])
      /\ \A i \in DOMAIN ns : i \in Nat /\ i >= 1
  BY TailIs
<1>2. \A i \in DOMAIN ns : LastNews(ns, i, t) => LastNews(ms, i + 1, t)  BY LastInTail
<1> HIDE DEF ns
<1>3. Known(ns, x, u, t)
  <2>1. x = "none" => u = "none" /\ \A i \in DOMAIN ns : ~About(ns[i], t)
    BY <1>1 DEF Known, About
  <2> QED  BY <1>1, <2>1 DEF Known
<1>4. ASSUME Follows(ms, x, v, t) PROVE Follows(ns, x, u, t)
  <2>1. \A i, j \in DOMAIN ns : Starts(ns[i], t) /\ About(ns[j], t) => i <= j
    <3> SUFFICES ASSUME NEW i \in DOMAIN ns, NEW j \in DOMAIN ns, Starts(ns[i], t), About(ns[j], t)
                 PROVE  i <= j
      OBVIOUS
    <3>1. i + 1 <= j + 1  BY <1>1, <1>4 DEF Follows
    <3> QED  BY <1>1, <3>1
  <2>2. About(Head(ms), t) => \A i \in DOMAIN ns : ~Starts(ns[i], t)
    <3> SUFFICES ASSUME About(Head(ms), t), NEW i \in DOMAIN ns, Starts(ns[i], t) PROVE FALSE
      OBVIOUS
    <3>1. i + 1 <= 1  BY <1>1, <1>4 DEF Follows
    <3> QED  BY <1>1, <3>1
  <2>3. \A i \in DOMAIN ns : Starts(ns[i], t) => u = "none"
    BY <1>1, <1>4, <2>2 DEF Follows, About
  <2>4. \A i \in DOMAIN ns : LastNews(ns, i, t) => ns[i].state = Told(x)
    BY <1>1, <1>2, <1>4 DEF Follows
  <2>5. ASSUME \A i \in DOMAIN ns : ~News(ns[i], t)
        PROVE  (u # "none" => u = Told(x)) /\ \A i \in DOMAIN ns : Starts(ns[i], t) => x = "active"
    <3>1. CASE News(Head(ms), t)
      <4>1. \A j \in DOMAIN ms : j > 1 => ~News(ms[j], t)  BY <1>1, <2>5
      <4>2. Head(ms).state = Told(x)  BY <1>1, <1>4, <3>1, <4>1 DEF Follows, LastNews
      <4>3. v = "closed" => Told(x) = "closed"  BY <1>4 DEF Follows, Told
      <4>4. ~Starts(Head(ms), t) /\ About(Head(ms), t)  BY <3>1 DEF Starts, News, About
      <4> QED  BY <2>2, <3>1, <4>2, <4>3, <4>4
    <3>2. CASE ~News(Head(ms), t)
      <4>1. \A j \in DOMAIN ms : ~News(ms[j], t)  BY <1>1, <2>5, <3>2
      <4>2. v # "none" => v = Told(x)  BY <1>4, <4>1 DEF Follows
      <4>3. \A i \in DOMAIN ms : Starts(ms[i], t) => x = "active"  BY <1>4, <4>1 DEF Follows
      <4>4. x = "active" => Told(x) = "active"  BY DEF Told, Closed, CloseReasons
      <4>5. u = v \/ (Starts(Head(ms), t) /\ u \in {"none", "active"})  BY <3>2
      <4> QED  BY <1>1, <4>2, <4>3, <4>4, <4>5
    <3> QED  BY <3>1, <3>2
  <2>6. u = "closed" => Closed(x)
    BY <1>1, <1>4 DEF Follows, Known
  <2> QED  BY <2>1, <2>3, <2>4, <2>5, <2>6 DEF Follows
<1> QED  BY <1>3, <1>4 DEF ns

(* What a connection that ended leaves on the way.                         *)
LEMMA Lost ==
  ASSUME NEW ms, NEW ns, NEW x, NEW v, NEW t, Known(ms, x, v, t),
         \A i \in DOMAIN ns : ~About(ns[i], t) \/ \E j \in DOMAIN ms : ns[i] = ms[j]
  PROVE  Known(ns, x, v, t)
BY DEF Known, About

-----------------------------------------------------------------------------
(* What policyd says, and what it leaves of what it said before.           *)
ToAgentd  == Answers \cup Changes \cup Marks
ToPolicyd == Requests \cup Exits
Views     == LiveStates \cup {"closed", "none"}

LEMMA OneMore ==
  ASSUME NEW S, NEW ms \in Seq(S), NEW m \in S
  PROVE  ms \o <<m>> = Append(ms, m) /\ Append(ms, m) \in Seq(S)
OBVIOUS

LEMMA ToldIs ==
  ASSUME NEW y \in TaskStates, NEW t \in TaskIds
  PROVE  /\ Changed(t, y) = <<[kind |-> "state", task |-> t, state |-> Told(y)]>>
         /\ [kind |-> "state", task |-> t, state |-> Told(y)] \in Changes
         /\ News([kind |-> "state", task |-> t, state |-> Told(y)], t)
         /\ \A o \in TaskIds \ {t} : ~About([kind |-> "state", task |-> t, state |-> Told(y)], o)
<1>1. Told(y) \in LiveStates \cup {"closed"}
  BY DEF Told, Closed, TaskStates
<1> QED  BY <1>1 DEF Changed, Changes, News, About, Starts

(* The answer to a request is about no task.                               *)
LEMMA AnswerSaid ==
  ASSUME NEW ms \in Seq(ToAgentd), NEW tk, NEW vw, NEW kind \in {"done", "refused"}, NEW r \in 1..MaxReqs
  PROVE  /\ ms \o Answer(kind, r) \in Seq(ToAgentd)
         /\ Heard(ms, tk, vw) => Heard(ms \o Answer(kind, r), tk, vw)
         /\ Agrees(ms, tk, vw) => Agrees(ms \o Answer(kind, r), tk, vw)
<1> DEFINE m == [kind |-> kind, req |-> r]
<1>1. m \in ToAgentd /\ \A t \in TaskIds : ~About(m, t)
  BY DEF ToAgentd, Answers, About, Starts, News
<1>2. Answer(kind, r) = <<m>>  BY DEF Answer
<1> HIDE DEF m
<1>3. ms \o Answer(kind, r) = Append(ms, m) /\ Append(ms, m) \in Seq(ToAgentd)  BY <1>1, <1>2, OneMore
<1>4. \A t \in TaskIds :
        /\ Known(ms, tk[t], vw[t], t) => Known(Append(ms, m), tk[t], vw[t], t)
        /\ Follows(ms, tk[t], vw[t], t) => Follows(Append(ms, m), tk[t], vw[t], t)
  BY <1>1, OtherSent
<1> QED  BY <1>3, <1>4 DEF Heard, Agrees

(* A live task's change of state, and that of it.                          *)
LEMMA ChangeSaid ==
  ASSUME NEW ms \in Seq(ToAgentd), NEW tk \in [TaskIds -> TaskStates \cup {"none"}], NEW vw,
         NEW t \in TaskIds, IsLive(tk[t]), NEW y \in TaskStates, Heard(ms, tk, vw)
  PROVE  LET ns == ms \o Changed(t, y)
             tz == [tk EXCEPT ![t] = y]
         IN  /\ ns \in Seq(ToAgentd) /\ tz \in [TaskIds -> TaskStates \cup {"none"}]
             /\ Heard(ns, tz, vw)
             /\ Agrees(ms, tk, vw) => Agrees(ns, tz, vw)
<1> DEFINE m  == [kind |-> "state", task |-> t, state |-> Told(y)]
           tz == [tk EXCEPT ![t] = y]
<1>1. m \in ToAgentd /\ News(m, t) /\ \A o \in TaskIds \ {t} : ~About(m, o)
  BY ToldIs DEF ToAgentd
<1>2. Changed(t, y) = <<m>> /\ m.state = Told(y)  BY ToldIs
<1>3. tz \in [TaskIds -> TaskStates \cup {"none"}] /\ tz[t] = y /\ \A o \in TaskIds \ {t} : tz[o] = tk[o]
  OBVIOUS
<1> HIDE DEF m, tz
<1>4. ms \o Changed(t, y) = Append(ms, m) /\ Append(ms, m) \in Seq(ToAgentd)  BY <1>1, <1>2, OneMore
<1>5. \A o \in TaskIds \ {t} :
        /\ Known(ms, tk[o], vw[o], o) => Known(Append(ms, m), tk[o], vw[o], o)
        /\ Follows(ms, tk[o], vw[o], o) => Follows(Append(ms, m), tk[o], vw[o], o)
  BY <1>1, OtherSent
<1>6. /\ Known(ms, tk[t], vw[t], t) => Known(Append(ms, m), y, vw[t], t)
      /\ Known(ms, tk[t], vw[t], t) /\ Follows(ms, tk[t], vw[t], t) => Follows(Append(ms, m), y, vw[t], t)
  BY <1>1, <1>2, NewsSent
<1>7. Heard(Append(ms, m), tz, vw)  BY <1>3, <1>5, <1>6 DEF Heard
<1>8. Agrees(ms, tk, vw) => Agrees(Append(ms, m), tz, vw)  BY <1>3, <1>5, <1>6 DEF Heard, Agrees
<1> QED  BY <1>3, <1>4, <1>7, <1>8 DEF tz

(* The same, when nobody is there to be told.                              *)
LEMMA ChangeUnsaid ==
  ASSUME NEW ms, NEW tk \in [TaskIds -> TaskStates \cup {"none"}], NEW vw,
         NEW t \in TaskIds, IsLive(tk[t]), NEW y \in TaskStates, Heard(ms, tk, vw)
  PROVE  Heard(ms, [tk EXCEPT ![t] = y], vw)
<1>1. tk[t] # "none" /\ ~Closed(tk[t]) /\ y # "none"
  BY DEF IsLive, LiveStates, Closed, CloseReasons, TaskStates
<1> QED  BY <1>1 DEF Heard, Known

-----------------------------------------------------------------------------
(* policyd's handlers.                                                     *)
Words == Answers \cup Changes

LEMMA UpsStay ==
  ASSUME UpInv, toAgentd \in Seq(ToAgentd), NEW s \in Seq(Words), toAgentd' = toAgentd \o s,
         UNCHANGED <<conn, ended>>
  PROVE  UpInv' /\ toAgentd' \in Seq(ToAgentd)
<1>1. Words \subseteq ToAgentd /\ \A m \in Words : m.kind # "up"
  BY DEF Words, ToAgentd, Answers, Changes
<1>2. s \in Seq(ToAgentd)  BY <1>1, SeqMonotonic
<1>3. toAgentd' \in Seq(ToAgentd)  BY <1>2, ConcatProperties
<1>4. \A i \in DOMAIN toAgentd' : \/ i \in DOMAIN toAgentd /\ toAgentd'[i] = toAgentd[i]
                                  \/ toAgentd'[i] \in Words
  OBVIOUS
<1>5. \A i \in DOMAIN toAgentd' : toAgentd'[i].kind = "up" =>
        i \in DOMAIN toAgentd /\ toAgentd'[i] = toAgentd[i]
  BY <1>1, <1>4
<1> QED  BY <1>3, <1>5 DEF UpInv, OneUp

(* What is sent in two parts arrives as one.                               *)
LEMMA SentInParts ==
  ASSUME NEW q \in Seq(ToAgentd), NEW r \in Seq(ToAgentd), NEW s \in Seq(ToAgentd)
  PROVE  (q \o r) \o s = q \o (r \o s)
BY ConcatAssociative

(* The words for a changed task are words.                                 *)
LEMMA ChangeIsWords ==
  ASSUME NEW t \in TaskIds, NEW y \in TaskStates
  PROVE  Changed(t, y) \in Seq(Words) /\ Changed(t, y) \in Seq(ToAgentd)
<1> DEFINE m == [kind |-> "state", task |-> t, state |-> Told(y)]
<1>1. m \in Words /\ m \in ToAgentd /\ Changed(t, y) = <<m>>  BY ToldIs DEF Words, ToAgentd
<1> HIDE DEF m
<1> QED  BY <1>1

LEMMA AnswerIsWords ==
  ASSUME NEW kind \in {"done", "refused"}, NEW r \in 1..MaxReqs
  PROVE  Answer(kind, r) \in Seq(Words)
<1> DEFINE m == [kind |-> kind, req |-> r]
<1>1. m \in Words /\ Answer(kind, r) = <<m>>  BY DEF Words, Answers, Answer
<1> HIDE DEF m
<1> QED  BY <1>1

(* A live task's state changes, at a request of agentd or without one.     *)
LEMMA TaskChanges ==
  ASSUME LinkInv, NEW t \in TaskIds, IsLive(task[t]), NEW y \in TaskStates, task' = [task EXCEPT ![t] = y],
         UNCHANGED <<view, conn, ended>>,
         NEW ans, NEW asker, NEW chg, Send(ans, asker, chg),
         ans = <<>> \/ \E kind \in {"done", "refused"}, r \in 1..MaxReqs : ans = Answer(kind, r),
         chg = Changed(t, y) \/ chg = Changed(t, "draining") \o Changed(t, y)
  PROVE  toAgentd' \in Seq(ToAgentd) /\ SaidInv' /\ UpInv'
<1>0. /\ toAgentd \in Seq(ToAgentd) /\ task \in [TaskIds -> TaskStates \cup {"none"}]
      /\ Heard(toAgentd, task, view) /\ UpInv
      /\ "draining" \in TaskStates /\ IsLive("draining")
  BY DEF LinkInv, TypeOK, ToAgentd, SaidInv, TaskStates, IsLive, LiveStates
<1> DEFINE a == IF conn # 0 /\ asker = conn THEN ans ELSE <<>>
           c == IF conn # 0 THEN chg ELSE <<>>
           ms == toAgentd \o a
<1>1. toAgentd' = (toAgentd \o a) \o c  BY DEF Send
<1>2. a \in Seq(Words) /\ ms \in Seq(ToAgentd) /\ Heard(ms, task, view)
      /\ (Agrees(toAgentd, task, view) => Agrees(ms, task, view))
  <2>1. CASE a = <<>>
    <3>1. ms = toAgentd  BY <1>0, <2>1, ConcatEmptySeq
    <3>2. <<>> \in Seq(Words)  OBVIOUS
    <3> HIDE DEF a, ms
    <3> QED  BY <1>0, <2>1, <3>1, <3>2
  <2>2. CASE a # <<>>
    <3>1. PICK kind \in {"done", "refused"}, r \in 1..MaxReqs : a = Answer(kind, r)  BY <2>2
    <3> QED  BY <1>0, <3>1, AnswerSaid, AnswerIsWords
  <2> QED  BY <2>1, <2>2
<1>3. c \in Seq(Words)
  <2>1. Changed(t, y) \in Seq(Words) /\ Changed(t, "draining") \in Seq(Words) /\ <<>> \in Seq(Words)
    BY <1>0, ChangeIsWords
  <2>2. Changed(t, "draining") \o Changed(t, y) \in Seq(Words)  BY <2>1, ConcatProperties
  <2> QED  BY <2>1, <2>2
<1> HIDE DEF a, c, ms
<1>4. UpInv' /\ toAgentd' \in Seq(ToAgentd)
  <2>1. a \o c \in Seq(Words)  BY <1>2, <1>3, ConcatProperties
  <2>2. a \in Seq(ToAgentd) /\ c \in Seq(ToAgentd)
    <3>1. Words \subseteq ToAgentd  BY DEF Words, ToAgentd
    <3> QED  BY <1>2, <1>3, <3>1, SeqMonotonic
  <2>3. toAgentd' = toAgentd \o (a \o c)  BY <1>0, <1>1, <2>2, ConcatAssociative
  <2> QED  BY <1>0, <2>1, <2>3, UpsStay
<1>5. CASE conn = 0
  <2>1. a = <<>> /\ c = <<>>  BY <1>5 DEF a, c
  <2>2. toAgentd' = toAgentd  BY <1>0, <1>1, <2>1, ConcatEmptySeq
  <2>3. Heard(toAgentd, task', view)  BY <1>0, ChangeUnsaid
  <2>4. ~NothingEnded'
    <3>1. task[t] # "none"  BY DEF IsLive, LiveStates
    <3> QED  BY <1>5, <3>1 DEF LinkInv, SaidInv, NothingEnded
  <2> QED  BY <1>4, <2>2, <2>3, <2>4 DEF SaidInv
<1>6. CASE conn # 0
  <2>1. toAgentd' = ms \o chg  BY <1>1, <1>6 DEF c, ms
  <2>2. Heard(toAgentd', task', view) /\ (Agrees(ms, task, view) => Agrees(toAgentd', task', view))
    <3>1. CASE chg = Changed(t, y)
      BY <1>0, <1>2, <2>1, <3>1, ChangeSaid
    <3>2. CASE chg = Changed(t, "draining") \o Changed(t, y)
      <4> DEFINE ns == ms \o Changed(t, "draining")
                 tz == [task EXCEPT ![t] = "draining"]
      <4>1. /\ ns \in Seq(ToAgentd) /\ tz \in [TaskIds -> TaskStates \cup {"none"}]
            /\ Heard(ns, tz, view) /\ (Agrees(ms, task, view) => Agrees(ns, tz, view))
        BY <1>0, <1>2, ChangeSaid
      <4>2. IsLive(tz[t]) /\ [tz EXCEPT ![t] = y] = task'  BY <1>0
      <4>3. toAgentd' = ns \o Changed(t, y)
        <5>1. Changed(t, y) \in Seq(ToAgentd) /\ Changed(t, "draining") \in Seq(ToAgentd)
          BY <1>0, ChangeIsWords
        <5>2. toAgentd' = ms \o (Changed(t, "draining") \o Changed(t, y))  BY <2>1, <3>2
        <5>3. (ms \o Changed(t, "draining")) \o Changed(t, y) = ms \o (Changed(t, "draining") \o Changed(t, y))
          BY <1>2, <5>1, SentInParts
        <5> QED  BY <5>2, <5>3
      <4> HIDE DEF ns, tz
      <4>4. Heard(ns \o Changed(t, y), [tz EXCEPT ![t] = y], view)
            /\ (Agrees(ns, tz, view) => Agrees(ns \o Changed(t, y), [tz EXCEPT ![t] = y], view))
        BY <4>1, <4>2, ChangeSaid
      <4> QED  BY <4>1, <4>2, <4>3, <4>4
    <3> QED  BY <3>1, <3>2
  <2> QED  BY <1>2, <1>4, <1>6, <2>2 DEF LinkInv, SaidInv, NothingEnded
<1> QED  BY <1>5, <1>6

(* What policyd's steps leave alone.                                       *)
LEMMA PolicydActs ==
  ASSUME LinkInv, UNCHANGED <<agentdVars, conn, ended>>,
         byHuman' \subseteq TaskIds, task' \in [TaskIds -> TaskStates \cup {"none"}],
         toPolicyd' \in Seq(ToPolicyd), toAgentd' \in Seq(ToAgentd), SaidInv', UpInv',
         \A t \in TaskIds : IsLive(task'[t]) =>
           /\ IsLive(task[t]) \/ task[t] = "none"
           /\ \A i \in DOMAIN toPolicyd : toPolicyd[i].task = t /\ toPolicyd[i].req = 0 =>
                \E j \in DOMAIN toPolicyd' : toPolicyd'[j] = toPolicyd[i]
  PROVE  LinkInv'
<1>1. UNCHANGED <<view, running, leftover, pending, asked, reqs, link>>  BY DEF agentdVars
<1>2. TypeOK'  BY <1>1 DEF LinkInv, TypeOK, ToPolicyd, ToAgentd
<1>3. StoredInv'  BY <1>1 DEF LinkInv, StoredInv, Stored
<1>4. ReportsOwed'
  <2> SUFFICES ASSUME ended = [breaks |-> 0, policyd |-> 0, agentd |-> 1], NEW t \in TaskIds,
                      view[t] = "closed", IsLive(task'[t]), t \notin leftover
               PROVE  \E i \in DOMAIN toPolicyd' : toPolicyd'[i].task = t /\ toPolicyd'[i].req = 0
    BY <1>1 DEF ReportsOwed
  <2>1. task[t] # "none"  BY DEF LinkInv, SaidInv, Heard, Known
  <2>2. \E i \in DOMAIN toPolicyd : toPolicyd[i].task = t /\ toPolicyd[i].req = 0
    BY <2>1 DEF LinkInv, ReportsOwed
  <2> QED  BY <2>2
<1> QED  BY <1>2, <1>3, <1>4 DEF LinkInv

LEMMA CreateLinks == ASSUME LinkInv, NEW t \in TaskIds, Create(t) PROVE LinkInv'
<1> DEFINE m == [kind |-> "provision", task |-> t]
<1>0. /\ toAgentd \in Seq(ToAgentd) /\ task \in [TaskIds -> TaskStates \cup {"none"}]
      /\ toPolicyd \in Seq(ToPolicyd) /\ byHuman \subseteq TaskIds
  BY DEF LinkInv, TypeOK, ToAgentd, ToPolicyd
<1>1. m \in ToAgentd /\ m \in Words /\ Starts(m, t) /\ \A o \in TaskIds \ {t} : ~About(m, o)
  BY DEF ToAgentd, Words, Changes, Starts, About, News
<1>2. conn # 0 /\ task[t] = "none" /\ task' = [task EXCEPT ![t] = "active"]
      /\ toAgentd' = (toAgentd \o <<>>) \o <<m>>
      /\ UNCHANGED <<byHuman, agentdVars, conn, toPolicyd, ended>>
  BY DEF Create, Send
<1> HIDE DEF m
<1>3. toAgentd' = toAgentd \o <<m>> /\ toAgentd' = Append(toAgentd, m)
  BY <1>0, <1>1, <1>2, ConcatEmptySeq, OneMore
<1>4. UpInv' /\ toAgentd' \in Seq(ToAgentd)
  <2>1. <<m>> \in Seq(Words)  BY <1>1
  <2> QED  BY <1>0, <1>2, <1>3, <2>1, UpsStay DEF LinkInv
<1>5. task' \in [TaskIds -> TaskStates \cup {"none"}] /\ task'[t] = "active"
      /\ \A o \in TaskIds \ {t} : task'[o] = task[o]
  BY <1>0, <1>2 DEF TaskStates, LiveStates
<1>6. UNCHANGED view  BY <1>2 DEF agentdVars
<1>7. SaidInv'
  <2>1. Known(toAgentd, "none", view[t], t)  BY <1>2 DEF LinkInv, SaidInv, Heard
  <2>2. Known(toAgentd', "active", view[t], t) /\ Follows(toAgentd', "active", view[t], t)
    BY <1>0, <1>1, <1>3, <2>1, StartSent
  <2>3. \A o \in TaskIds \ {t} :
          /\ Known(toAgentd, task[o], view[o], o) => Known(toAgentd', task[o], view[o], o)
          /\ Follows(toAgentd, task[o], view[o], o) => Follows(toAgentd', task[o], view[o], o)
    BY <1>0, <1>1, <1>3, OtherSent
  <2>4. Heard(toAgentd', task', view')  BY <1>5, <1>6, <2>2, <2>3 DEF LinkInv, SaidInv, Heard
  <2>5. Agrees(toAgentd, task, view) => Agrees(toAgentd', task', view')
    BY <1>5, <1>6, <2>2, <2>3 DEF Agrees
  <2> QED  BY <1>2, <2>4, <2>5 DEF LinkInv, SaidInv, NothingEnded
<1>8. \A o \in TaskIds : IsLive(task'[o]) => IsLive(task[o]) \/ task[o] = "none"  BY <1>2, <1>5
<1> QED  BY <1>0, <1>2, <1>4, <1>5, <1>7, <1>8, PolicydActs

LEMMA PanelLinks == ASSUME LinkInv, NEW t \in TaskIds, Unpause(t) \/ Terminate(t) PROVE LinkInv'
<1>1. PICK y \in {"active", "cancelled"} :
        /\ task' = [task EXCEPT ![t] = y] /\ Send(<<>>, 0, Changed(t, y))
        /\ UNCHANGED <<agentdVars, conn, toPolicyd, ended>> /\ byHuman' \subseteq byHuman
  BY DEF Unpause, Terminate
<1>2. IsLive(task[t])  BY DEF Unpause, Unpausable, Terminate, IsLive, LiveStates
<1>3. y \in TaskStates  BY DEF TaskStates, LiveStates, CloseReasons
<1>4. /\ toPolicyd \in Seq(ToPolicyd) /\ byHuman \subseteq TaskIds
      /\ task \in [TaskIds -> TaskStates \cup {"none"}]
  BY DEF LinkInv, TypeOK, ToPolicyd
<1>5. toAgentd' \in Seq(ToAgentd) /\ SaidInv' /\ UpInv'
  BY <1>1, <1>2, <1>3, TaskChanges DEF agentdVars
<1>6. task' \in [TaskIds -> TaskStates \cup {"none"}]
      /\ \A o \in TaskIds : IsLive(task'[o]) => IsLive(task[o])
  BY <1>1, <1>2, <1>3, <1>4
<1> QED  BY <1>1, <1>4, <1>5, <1>6, PolicydActs

(* What policyd has read.                                                  *)
LEMMA ReadOne ==
  ASSUME toPolicyd \in Seq(ToPolicyd), toPolicyd # <<>>, toPolicyd' = Tail(toPolicyd)
  PROVE  /\ Head(toPolicyd) \in ToPolicyd /\ toPolicyd' \in Seq(ToPolicyd)
         /\ \A i \in DOMAIN toPolicyd : toPolicyd[i] # Head(toPolicyd) =>
              \E j \in DOMAIN toPolicyd' : toPolicyd'[j] = toPolicyd[i]
<1>1. Head(toPolicyd) \in ToPolicyd /\ toPolicyd' \in Seq(ToPolicyd)  BY HeadTailProperties
<1>2. \A i \in DOMAIN toPolicyd : i = 1 \/ (i - 1 \in DOMAIN toPolicyd' /\ toPolicyd'[i - 1] = toPolicyd[i])
  BY TailIs
<1>3. Head(toPolicyd) = toPolicyd[1]  OBVIOUS
<1> QED  BY <1>1, <1>2, <1>3

LEMMA RequestLinks == ASSUME LinkInv, HandleRequest PROVE LinkInv'
<1> DEFINE m == Head(toPolicyd)
<1>0. /\ toAgentd \in Seq(ToAgentd) /\ task \in [TaskIds -> TaskStates \cup {"none"}]
      /\ toPolicyd \in Seq(ToPolicyd) /\ byHuman \subseteq TaskIds
  BY DEF LinkInv, TypeOK, ToAgentd, ToPolicyd
<1>1. toPolicyd # <<>> /\ m.kind \in Modes /\ toPolicyd' = Tail(toPolicyd)
      /\ UNCHANGED <<agentdVars, conn, ended>>
  BY DEF HandleRequest
<1>2. m \in Requests
  <2>1. m \in ToPolicyd  BY <1>0, <1>1, ReadOne
  <2>2. \A e \in Exits : e.kind \notin Modes  BY DEF Exits, Modes
  <2> QED  BY <1>1, <2>1, <2>2 DEF ToPolicyd
<1>3. m.task \in TaskIds /\ m.req \in 1..MaxReqs /\ m.req # 0  BY <1>2, LinkAssumption DEF Requests
<1>4. toPolicyd' \in Seq(ToPolicyd)
      /\ \A i \in DOMAIN toPolicyd : toPolicyd[i].req = 0 =>
           \E j \in DOMAIN toPolicyd' : toPolicyd'[j] = toPolicyd[i]
  <2>1. toPolicyd' \in Seq(ToPolicyd)
        /\ \A i \in DOMAIN toPolicyd : toPolicyd[i] # m => \E j \in DOMAIN toPolicyd' : toPolicyd'[j] = toPolicyd[i]
    BY <1>0, <1>1, ReadOne
  <2> QED  BY <1>3, <2>1
<1>5. CASE Accepted(m)
  <2>1. PICK s \in Successors(task[m.task], EventOf(m)) :
          /\ task' = [task EXCEPT ![m.task] = s]
          /\ byHuman' \subseteq byHuman \cup {m.task}
          /\ Send(Answer("done", m.req), m.conn, Changed(m.task, s))
    BY <1>5 DEF HandleRequest
  <2>2. s \in TaskStates /\ IsLive(task[m.task])
    BY <2>1 DEF Successors, IsLive, LiveStates
  <2> HIDE DEF m
  <2>3. toAgentd' \in Seq(ToAgentd) /\ SaidInv' /\ UpInv'
    <3>1. UNCHANGED <<view, conn, ended>>  BY <1>1 DEF agentdVars
    <3>2. \E kind \in {"done", "refused"}, r \in 1..MaxReqs : Answer("done", m.req) = Answer(kind, r)
      BY <1>3
    <3> QED  BY <1>3, <2>1, <2>2, <3>1, <3>2, TaskChanges
  <2>4. task' \in [TaskIds -> TaskStates \cup {"none"}]
        /\ \A o \in TaskIds : IsLive(task'[o]) => IsLive(task[o])
    BY <1>0, <1>3, <2>1, <2>2
  <2>5. byHuman' \subseteq TaskIds  BY <1>0, <1>3, <2>1
  <2> QED  BY <1>1, <1>4, <2>3, <2>4, <2>5, PolicydActs
<1>6. CASE ~Accepted(m)
  <2>1. UNCHANGED policydVars /\ Send(Answer("refused", m.req), m.conn, <<>>)
    BY <1>6 DEF HandleRequest
  <2> HIDE DEF m
  <2> DEFINE a == IF conn # 0 /\ m.conn = conn THEN Answer("refused", m.req) ELSE <<>>
  <2>2. toAgentd' = (toAgentd \o a) \o <<>>  BY <2>1 DEF Send
  <2>3. a = <<>> \/ a = Answer("refused", m.req)  OBVIOUS
  <2> HIDE DEF a
  <2>4. /\ a \in Seq(Words) /\ toAgentd \o a \in Seq(ToAgentd)
        /\ Heard(toAgentd \o a, task, view)
        /\ (Agrees(toAgentd, task, view) => Agrees(toAgentd \o a, task, view))
    <3>1. Heard(toAgentd, task, view)  BY DEF LinkInv, SaidInv
    <3>2. CASE a = <<>>
      <4>1. toAgentd \o a = toAgentd  BY <1>0, <3>2, ConcatEmptySeq
      <4> QED  BY <1>0, <3>1, <3>2, <4>1
    <3>3. CASE a = Answer("refused", m.req)
      <4>1. a \in Seq(Words)  BY <1>3, <3>3 DEF Answer, Words, Answers
      <4> QED  BY <1>0, <1>3, <3>1, <3>3, <4>1, AnswerSaid
    <3> QED  BY <2>3, <3>2, <3>3
  <2>5. toAgentd' = toAgentd \o a  BY <2>2, <2>4, ConcatEmptySeq
  <2>6. UpInv' /\ toAgentd' \in Seq(ToAgentd)  BY <1>0, <1>1, <2>4, <2>5, UpsStay DEF LinkInv
  <2>7. UNCHANGED <<task, byHuman, view, conn, ended>>  BY <1>1, <2>1 DEF policydVars, agentdVars
  <2>8. SaidInv'  BY <2>4, <2>5, <2>7 DEF LinkInv, SaidInv, NothingEnded
  <2> QED  BY <1>0, <1>1, <1>4, <2>6, <2>7, <2>8, PolicydActs
<1> QED  BY <1>5, <1>6

LEMMA ExitedLinks == ASSUME LinkInv, HandleExited PROVE LinkInv'
<1> DEFINE m == Head(toPolicyd)
           t == m.task
<1>0. /\ toAgentd \in Seq(ToAgentd) /\ task \in [TaskIds -> TaskStates \cup {"none"}]
      /\ toPolicyd \in Seq(ToPolicyd) /\ byHuman \subseteq TaskIds
  BY DEF LinkInv, TypeOK, ToAgentd, ToPolicyd
<1>1. toPolicyd # <<>> /\ m.kind \in {"completed", "failed"} /\ toPolicyd' = Tail(toPolicyd)
      /\ UNCHANGED <<agentdVars, conn, ended>>
  BY DEF HandleExited
<1>2. m \in Exits
  <2>1. m \in ToPolicyd  BY <1>0, <1>1, ReadOne
  <2>2. \A e \in Requests : e.kind \notin {"completed", "failed"}  BY DEF Requests, Modes
  <2> QED  BY <1>1, <2>1, <2>2 DEF ToPolicyd
<1>3. t \in TaskIds  BY <1>2 DEF Exits
<1>4. toPolicyd' \in Seq(ToPolicyd)
      /\ \A i \in DOMAIN toPolicyd : toPolicyd[i].task # t =>
           \E j \in DOMAIN toPolicyd' : toPolicyd'[j] = toPolicyd[i]
  <2>1. toPolicyd' \in Seq(ToPolicyd)
        /\ \A i \in DOMAIN toPolicyd : toPolicyd[i] # m => \E j \in DOMAIN toPolicyd' : toPolicyd'[j] = toPolicyd[i]
    BY <1>0, <1>1, ReadOne
  <2> QED  BY <2>1
<1>5. UNCHANGED <<view, conn, ended>>  BY <1>1 DEF agentdVars
<1>6. CASE IsLive(task[t])
  <2> DEFINE y == m.kind
             chg == (IF m.kind = "completed" /\ task[t] # "draining" THEN Changed(t, "draining") ELSE <<>>)
                      \o Changed(t, y)
  <2>1. task' = [task EXCEPT ![t] = y] /\ byHuman' \subseteq byHuman /\ Send(<<>>, 0, chg)
    BY <1>6 DEF HandleExited
  <2>2. y \in TaskStates /\ ~IsLive(y)  BY <1>1 DEF TaskStates, CloseReasons, IsLive, LiveStates
  <2>3. chg = Changed(t, y) \/ chg = Changed(t, "draining") \o Changed(t, y)
    <3>1. Changed(t, y) \in Seq(Words)
      BY <1>3, <2>2, ChangeIsWords
    <3> QED  BY <3>1, ConcatEmptySeq
  <2> HIDE DEF m, t, y, chg
  <2>4. toAgentd' \in Seq(ToAgentd) /\ SaidInv' /\ UpInv'
    BY <1>3, <1>5, <1>6, <2>1, <2>2, <2>3, TaskChanges
  <2>5. task' \in [TaskIds -> TaskStates \cup {"none"}]
        /\ \A o \in TaskIds : IsLive(task'[o]) => IsLive(task[o]) /\ o # t
    BY <1>0, <1>3, <2>1, <2>2
  <2> QED  BY <1>0, <1>1, <1>4, <2>1, <2>4, <2>5, PolicydActs
<1>7. CASE ~IsLive(task[t])
  <2>1. UNCHANGED <<policydVars, toAgentd>>  BY <1>7 DEF HandleExited
  <2> HIDE DEF m, t
  <2>2. SaidInv' /\ UpInv'
    BY <1>5, <2>1 DEF policydVars, LinkInv, SaidInv, UpInv, OneUp, NothingEnded
  <2>3. UNCHANGED <<task, byHuman, toAgentd>>  BY <2>1 DEF policydVars
  <2>4. \A o \in TaskIds : IsLive(task'[o]) => IsLive(task[o]) /\ o # t  BY <1>7, <2>3
  <2> QED  BY <1>0, <1>1, <1>4, <2>2, <2>3, <2>4, PolicydActs
<1> QED  BY <1>6, <1>7

-----------------------------------------------------------------------------
(* agentd's core.                                                          *)

LEMMA LinkTyped ==
  ASSUME LinkInv
  PROVE  /\ toAgentd \in Seq(ToAgentd) /\ toPolicyd \in Seq(ToPolicyd)
         /\ task \in [TaskIds -> TaskStates \cup {"none"}] /\ view \in [TaskIds -> Views]
         /\ running \subseteq TaskIds /\ leftover \subseteq TaskIds
         /\ pending \subseteq [req : 1..MaxReqs, task : TaskIds] /\ asked \subseteq 1..MaxReqs
         /\ reqs \in 0..MaxReqs /\ link \in BOOLEAN /\ conn \in Nat
         /\ ended \in [breaks : 0..MaxBreaks, policyd : 0..MaxPolicydDeaths, agentd : 0..MaxAgentdDeaths]
BY DEF LinkInv, TypeOK, ToAgentd, ToPolicyd, Views

(* Whether it arrives or not, what was sent before is not touched.         *)
LEMMA SendKeeps ==
  ASSUME LinkInv, NEW m \in ToPolicyd, NEW ok \in BOOLEAN, Sends(m, ok)
  PROVE  /\ toPolicyd' \in Seq(ToPolicyd) /\ link' \in BOOLEAN
         /\ \A i \in DOMAIN toPolicyd : i \in DOMAIN toPolicyd' /\ toPolicyd'[i] = toPolicyd[i]
<1>1. toPolicyd' = toPolicyd \/ toPolicyd' = Append(toPolicyd, m)  BY DEF Sends
<1>2. toPolicyd \in Seq(ToPolicyd)  BY LinkTyped
<1>3. link' \in BOOLEAN  BY LinkTyped DEF Sends
<1> QED  BY <1>1, <1>2, <1>3

LEMMA ExitIsSent ==
  ASSUME LinkInv, NEW t \in TaskIds, NEW how \in {"completed", "failed"}
  PROVE  Exited(t, how) \in ToPolicyd /\ Exited(t, how).task = t /\ Exited(t, how).req = 0
BY LinkTyped DEF Exited, ToPolicyd, Exits

LEMMA AgentdActs ==
  ASSUME LinkInv, UNCHANGED <<policydVars, conn, ended, leftover>>,
         view' \in [TaskIds -> Views], running' \subseteq TaskIds,
         pending' \subseteq [req : 1..MaxReqs, task : TaskIds], asked' \subseteq 1..MaxReqs,
         reqs' \in 0..MaxReqs, link' \in BOOLEAN,
         toPolicyd' \in Seq(ToPolicyd),
         \A i \in DOMAIN toPolicyd : i \in DOMAIN toPolicyd' /\ toPolicyd'[i] = toPolicyd[i],
         toAgentd' \in Seq(ToAgentd), SaidInv', UpInv',
         IsFiniteSet(Stored'), Stored \subseteq Stored',
         \A t \in TaskIds : view'[t] = "closed" => view[t] = "closed" \/ Closed(task[t])
  PROVE  LinkInv'
<1>1. UNCHANGED <<task, byHuman>>  BY DEF policydVars
<1>2. TypeOK'  BY <1>1 DEF LinkInv, TypeOK, ToPolicyd, ToAgentd, Views
<1>3. StoredInv'  BY DEF LinkInv, StoredInv
<1>4. ReportsOwed'
  <2> SUFFICES ASSUME ended = [breaks |-> 0, policyd |-> 0, agentd |-> 1], NEW t \in TaskIds,
                      view'[t] = "closed", IsLive(task[t]), t \notin leftover
               PROVE  \E i \in DOMAIN toPolicyd' : toPolicyd'[i].task = t /\ toPolicyd'[i].req = 0
    BY <1>1 DEF ReportsOwed
  <2>1. view[t] = "closed"  BY DEF Closed, CloseReasons, IsLive, LiveStates
  <2>2. \E i \in DOMAIN toPolicyd : toPolicyd[i].task = t /\ toPolicyd[i].req = 0
    BY <2>1 DEF LinkInv, ReportsOwed
  <2> QED  BY <2>2
<1> QED  BY <1>2, <1>3, <1>4 DEF LinkInv

(* What takes nothing and changes no view.                                 *)
LEMMA AskLinks == ASSUME LinkInv, NEW t \in TaskIds, NEW mode \in Modes, Ask(t, mode) PROVE LinkInv'
<1> DEFINE m == [kind |-> mode, task |-> t, req |-> reqs', conn |-> conn]
<1>1. reqs' = reqs + 1 /\ reqs < MaxReqs /\ UNCHANGED <<policydVars, view, running, leftover, conn, toAgentd, ended>>
  BY DEF Ask
<1>2. reqs' \in 1..MaxReqs /\ reqs' \in 0..MaxReqs  BY <1>1, LinkTyped, LinkAssumption
<1>3. PICK ok \in BOOLEAN :
        /\ Sends(m, ok)
        /\ pending' \subseteq pending \cup {[req |-> reqs', task |-> t]} /\ asked' \subseteq asked \cup {reqs'}
  BY DEF Ask
<1>4. m \in ToPolicyd  BY <1>2, LinkTyped DEF ToPolicyd, Requests
<1> HIDE DEF m
<1>5. /\ toPolicyd' \in Seq(ToPolicyd) /\ link' \in BOOLEAN
      /\ \A i \in DOMAIN toPolicyd : i \in DOMAIN toPolicyd' /\ toPolicyd'[i] = toPolicyd[i]
  BY <1>3, <1>4, SendKeeps
<1>6. SaidInv' /\ UpInv' /\ Stored' = Stored
  BY <1>1 DEF policydVars, LinkInv, SaidInv, UpInv, OneUp, NothingEnded, Stored
<1>7. pending' \subseteq [req : 1..MaxReqs, task : TaskIds] /\ asked' \subseteq 1..MaxReqs
  BY <1>2, <1>3, LinkTyped
<1> QED  BY <1>1, <1>2, <1>5, <1>6, <1>7, LinkTyped, AgentdActs DEF LinkInv, StoredInv

LEMMA WaitLinks ==
  ASSUME LinkInv, (\E p \in pending : Timeout(p)) \/ (\E r \in asked : HangUp(r)) PROVE LinkInv'
<1>1. /\ pending' \subseteq pending /\ asked' \subseteq asked
      /\ UNCHANGED <<policydVars, view, running, leftover, reqs, link, wires>>
  BY DEF Timeout, Reply, HangUp
<1>2. SaidInv' /\ UpInv' /\ Stored' = Stored
  BY <1>1 DEF policydVars, wires, LinkInv, SaidInv, UpInv, OneUp, NothingEnded, Stored
<1>3. UNCHANGED <<conn, toPolicyd, toAgentd, ended>>  BY <1>1 DEF wires
<1> QED  BY <1>1, <1>2, <1>3, LinkTyped, AgentdActs DEF LinkInv, StoredInv

LEMMA ExitLinks ==
  ASSUME LinkInv, NEW t \in running, NEW how \in {"completed", "failed"}, ProcExit(t, how) PROVE LinkInv'
<1>1. running' \subseteq running
      /\ UNCHANGED <<policydVars, view, leftover, pending, asked, reqs, conn, toAgentd, ended>>
  BY DEF ProcExit
<1>2. PICK ok \in BOOLEAN : Sends(Exited(t, how), ok)  BY DEF ProcExit
<1>3. t \in TaskIds  BY LinkTyped
<1>4. /\ toPolicyd' \in Seq(ToPolicyd) /\ link' \in BOOLEAN
      /\ \A i \in DOMAIN toPolicyd : i \in DOMAIN toPolicyd' /\ toPolicyd'[i] = toPolicyd[i]
  BY <1>2, <1>3, ExitIsSent, SendKeeps
<1>5. SaidInv' /\ UpInv' /\ Stored' = Stored
  BY <1>1 DEF policydVars, LinkInv, SaidInv, UpInv, OneUp, NothingEnded, Stored
<1> QED  BY <1>1, <1>4, <1>5, LinkTyped, AgentdActs DEF LinkInv, StoredInv

(* A message taken: what each task's view becomes must be what it says.    *)
LEMMA TakeSaid ==
  ASSUME LinkInv, NEW kinds, Take(kinds),
         \A t \in TaskIds :
           \/ ~About(Head(toAgentd), t) /\ view'[t] = view[t]
           \/ Starts(Head(toAgentd), t) /\ view[t] # "none" /\ view'[t] = view[t]
           \/ Starts(Head(toAgentd), t) /\ view[t] = "none" /\ view'[t] \in {"none", "active"}
           \/ /\ News(Head(toAgentd), t)
              /\ view'[t] = IF view[t] \notin {"none", "closed"} THEN Head(toAgentd).state ELSE view[t]
  PROVE  toAgentd' \in Seq(ToAgentd) /\ SaidInv' /\ UpInv'
<1>1. toAgentd # <<>> /\ toAgentd' = Tail(toAgentd) /\ UNCHANGED <<task, conn, ended>>
  BY DEF Take, policydVars
<1>2. toAgentd \in Seq(ToAgentd) /\ toAgentd' \in Seq(ToAgentd)  BY <1>1, LinkTyped, HeadTailProperties
<1>3. ASSUME NEW t \in TaskIds
      PROVE  /\ Known(toAgentd', task[t], view'[t], t)
             /\ Follows(toAgentd, task[t], view[t], t) => Follows(toAgentd', task[t], view'[t], t)
  <2>1. Known(toAgentd, task[t], view[t], t)  BY DEF LinkInv, SaidInv, Heard
  <2>2. \/ ~About(Head(toAgentd), t) /\ view'[t] = view[t]
        \/ Starts(Head(toAgentd), t) /\ view[t] # "none" /\ view'[t] = view[t]
        \/ Starts(Head(toAgentd), t) /\ view[t] = "none" /\ view'[t] \in {"none", "active"}
        \/ /\ News(Head(toAgentd), t)
           /\ view'[t] = IF view[t] \notin {"none", "closed"} THEN Head(toAgentd).state ELSE view[t]
    OBVIOUS
  <2> QED  BY <1>1, <1>2, <2>1, <2>2, Taken
<1>4. SaidInv'
  <2>1. Heard(toAgentd', task', view')  BY <1>1, <1>3 DEF Heard
  <2>2. Agrees(toAgentd, task, view) => Agrees(toAgentd', task', view')  BY <1>1, <1>3 DEF Agrees
  <2> QED  BY <1>1, <2>1, <2>2 DEF LinkInv, SaidInv, NothingEnded
<1>5. UpInv'
  <2>1. /\ \A i \in DOMAIN toAgentd' : i + 1 \in DOMAIN toAgentd /\ toAgentd'[i] = toAgentd[i + 1]
        /\ \A i \in DOMAIN toAgentd' : i \in Nat
    BY <1>1, <1>2, TailIs
  <2>2. OneUp => OneUp'
    <3>1. ASSUME OneUp, NEW i \in DOMAIN toAgentd', NEW j \in DOMAIN toAgentd',
                 toAgentd'[i].kind = "up", toAgentd'[j].kind = "up"
          PROVE  i = j
      <4>1. i + 1 = j + 1  BY <2>1, <3>1 DEF OneUp
      <4> QED  BY <2>1, <4>1
    <3> QED  BY <1>1, <2>1, <3>1 DEF OneUp
  <2> QED  BY <1>1, <2>2 DEF LinkInv, UpInv
<1> QED  BY <1>2, <1>4, <1>5

LEMMA HeadSaid ==
  ASSUME LinkInv, NEW kinds, Take(kinds)
  PROVE  Head(toAgentd) \in ToAgentd /\ Head(toAgentd).kind \in kinds
         /\ UNCHANGED <<policydVars, reqs, conn, ended>>
<1>1. toAgentd \in Seq(ToAgentd) /\ toAgentd # <<>>  BY LinkTyped DEF Take
<1>2. Head(toAgentd) \in ToAgentd  BY <1>1, HeadTailProperties
<1> QED  BY <1>2 DEF Take

LEMMA ProvisionLinks == ASSUME LinkInv, OnProvision PROVE LinkInv'
<1> DEFINE m == Head(toAgentd)
           t == m.task
<1>1. Take({"provision"}) /\ UNCHANGED <<leftover, pending, asked>>  BY DEF OnProvision
<1>2. m \in ToAgentd /\ m.kind = "provision" /\ UNCHANGED <<policydVars, reqs, conn, ended>>
  BY <1>1, HeadSaid
<1>3. t \in TaskIds /\ Starts(m, t) /\ \A o \in TaskIds \ {t} : ~About(m, o)
  BY <1>2 DEF ToAgentd, Answers, Changes, Marks, Starts, News, About
<1>4. \/ UNCHANGED <<view, running, link, toPolicyd>> /\ view[t] # "none"
      \/ /\ view[t] = "none" /\ \E v \in {"none", "active"} : view' = [view EXCEPT ![t] = v]
         /\ running' \subseteq running \cup {t}
         /\ \/ UNCHANGED <<link, toPolicyd>>
            \/ \E ok \in BOOLEAN : Sends(Exited(t, "failed"), ok)
  BY DEF OnProvision
<1> HIDE DEF m, t
<1>5. /\ \A o \in TaskIds \ {t} : view'[o] = view[o]
      /\ view' \in [TaskIds -> Views] /\ running' \subseteq TaskIds
      /\ \/ view[t] # "none" /\ view'[t] = view[t]
         \/ view[t] = "none" /\ view'[t] \in {"none", "active"}
  BY <1>3, <1>4, LinkTyped DEF Views, LiveStates
<1>6. /\ toPolicyd' \in Seq(ToPolicyd) /\ link' \in BOOLEAN
      /\ \A i \in DOMAIN toPolicyd : i \in DOMAIN toPolicyd' /\ toPolicyd'[i] = toPolicyd[i]
  <2>1. CASE UNCHANGED <<link, toPolicyd>>  BY <2>1, LinkTyped
  <2>2. CASE \E ok \in BOOLEAN : Sends(Exited(t, "failed"), ok)  BY <1>3, <2>2, ExitIsSent, SendKeeps
  <2> QED  BY <1>4, <2>1, <2>2
<1>7. toAgentd' \in Seq(ToAgentd) /\ SaidInv' /\ UpInv'
  <2>1. \A o \in TaskIds :
           \/ ~About(m, o) /\ view'[o] = view[o]
           \/ Starts(m, o) /\ view[o] # "none" /\ view'[o] = view[o]
           \/ Starts(m, o) /\ view[o] = "none" /\ view'[o] \in {"none", "active"}
           \/ /\ News(m, o)
              /\ view'[o] = IF view[o] \notin {"none", "closed"} THEN m.state ELSE view[o]
    BY <1>3, <1>5
  <2> QED  BY <1>1, <2>1, TakeSaid DEF m
<1>8. IsFiniteSet(Stored') /\ Stored \subseteq Stored'
  <2>1. Stored' \subseteq Stored \cup {t} /\ Stored \subseteq Stored'  BY <1>3, <1>5 DEF Stored
  <2>2. IsFiniteSet(Stored \cup {t})  BY FS_AddElement DEF LinkInv, StoredInv
  <2> QED  BY <2>1, <2>2, FS_Subset
<1>9. \A o \in TaskIds : view'[o] = "closed" => view[o] = "closed"  BY <1>5
<1> QED  BY <1>1, <1>2, <1>5, <1>6, <1>7, <1>8, <1>9, LinkTyped, AgentdActs

LEMMA StateLinks == ASSUME LinkInv, OnTaskState PROVE LinkInv'
<1> DEFINE m == Head(toAgentd)
           t == m.task
<1>1. /\ Take({"state"}) /\ UNCHANGED <<leftover, asked, link, toPolicyd>>
      /\ view' = (IF Open(t) THEN [view EXCEPT ![t] = m.state] ELSE view)
      /\ running' \subseteq running /\ pending' \subseteq pending
  BY DEF OnTaskState
<1>2. m \in ToAgentd /\ m.kind = "state" /\ UNCHANGED <<policydVars, reqs, conn, ended>>
  BY <1>1, HeadSaid
<1>3. t \in TaskIds /\ News(m, t) /\ m.state \in LiveStates \cup {"closed"}
      /\ \A o \in TaskIds \ {t} : ~About(m, o)
  BY <1>2 DEF ToAgentd, Answers, Changes, Marks, Starts, News, About
<1>4. m.state = "closed" => Closed(task[t])
  <2>1. toAgentd # <<>> /\ toAgentd \in Seq(ToAgentd)  BY <1>1, LinkTyped DEF Take
  <2>2. 1 \in DOMAIN toAgentd /\ m = toAgentd[1]  BY <2>1
  <2> HIDE DEF m, t
  <2> QED  BY <1>3, <2>2 DEF LinkInv, SaidInv, Heard, Known
<1> HIDE DEF m, t
<1>5. /\ \A o \in TaskIds \ {t} : view'[o] = view[o]
      /\ view'[t] = IF view[t] \notin {"none", "closed"} THEN m.state ELSE view[t]
      /\ view' \in [TaskIds -> Views]
  BY <1>1, <1>3, LinkTyped DEF Views, Open
<1>6. toAgentd' \in Seq(ToAgentd) /\ SaidInv' /\ UpInv'
  <2>1. \A o \in TaskIds :
           \/ ~About(m, o) /\ view'[o] = view[o]
           \/ Starts(m, o) /\ view[o] # "none" /\ view'[o] = view[o]
           \/ Starts(m, o) /\ view[o] = "none" /\ view'[o] \in {"none", "active"}
           \/ /\ News(m, o)
              /\ view'[o] = IF view[o] \notin {"none", "closed"} THEN m.state ELSE view[o]
    BY <1>3, <1>5
  <2> QED  BY <1>1, <2>1, TakeSaid DEF m
<1>7. Stored' = Stored  BY <1>3, <1>5 DEF Stored, LiveStates
<1>8. \A o \in TaskIds : view'[o] = "closed" => view[o] = "closed" \/ Closed(task[o])
  BY <1>3, <1>4, <1>5
<1> QED  BY <1>1, <1>2, <1>5, <1>6, <1>7, <1>8, LinkTyped, AgentdActs DEF LinkInv, StoredInv

LEMMA AnswerLinks == ASSUME LinkInv, OnAnswer \/ OnLinkDown PROVE LinkInv'
<1>1. PICK kinds \in {{"done", "refused"}, {"down"}} :
        Take(kinds) /\ UNCHANGED <<view, running, leftover, toPolicyd>>
        /\ pending' \subseteq pending /\ asked' \subseteq asked /\ link' \in {link, FALSE}
  BY DEF OnAnswer, OnLinkDown, Reply
<1>2. Head(toAgentd).kind \in kinds /\ UNCHANGED <<policydVars, reqs, conn, ended>>  BY <1>1, HeadSaid
<1>3. \A o \in TaskIds : ~About(Head(toAgentd), o)  BY <1>2 DEF About, Starts, News
<1>4. toAgentd' \in Seq(ToAgentd) /\ SaidInv' /\ UpInv'  BY <1>1, <1>3, TakeSaid
<1>5. Stored' = Stored  BY <1>1 DEF Stored
<1> QED  BY <1>1, <1>2, <1>4, <1>5, LinkTyped, AgentdActs DEF LinkInv, StoredInv

-----------------------------------------------------------------------------
(* A connection comes up, or an end of it goes down.                       *)

LEMMA SetToSeqIs ==
  ASSUME NEW S, IsFiniteSet(S)
  PROVE  SetToSeq(S) \in Seq(S) /\ \A e \in S : \E i \in DOMAIN SetToSeq(S) : SetToSeq(S)[i] = e
<1> DEFINE n == Cardinality(S)
<1>1. n \in Nat /\ ExistsBijection(1..n, S)  BY FS_CardinalityType
<1>2. IsFiniteSet(1..n) /\ Cardinality(1..n) = n  BY <1>1, FS_Interval
<1>3. \E f \in [1..n -> S] : IsInjective(f)
  <2>1. PICK f : f \in Bijection(1..n, S)  BY <1>1 DEF ExistsBijection
  <2> QED  BY <2>1 DEF Bijection, Injection, Surjection, IsInjective
<1>4. SetToSeq(S) \in [1..n -> S] /\ IsInjective(SetToSeq(S))  BY <1>3 DEF SetToSeq
<1> HIDE DEF n
<1> DEFINE f == SetToSeq(S)
<1>5. n = Cardinality(S)  BY DEF n
<1> HIDE DEF f
<1>6. f \in [1..n -> S] /\ IsInjective(f)  BY <1>4 DEF f
<1>7. f \in Injection(1..n, S)  BY <1>6 DEF Injection, IsInjective
<1>8. f \in Surjection(1..n, S)  BY <1>2, <1>5, <1>7, FS_Injection
<1>9. f \in Seq(S)  BY <1>1, <1>6
<1>10. \A e \in S : \E i \in DOMAIN f : f[i] = e  BY <1>6, <1>8 DEF Surjection
<1> QED  BY <1>9, <1>10 DEF f

LEMMA UpLinks == ASSUME LinkInv, OnLinkUp PROVE LinkInv'
<1> DEFINE left == SetToSeq(leftover)
           reports == [i \in DOMAIN left |-> Exited(left[i], "failed")]
<1>1. Take({"up"}) /\ UNCHANGED <<view, running, pending, asked>>  BY DEF OnLinkUp
<1>2. Head(toAgentd).kind = "up" /\ UNCHANGED <<policydVars, reqs, conn, ended>>  BY <1>1, HeadSaid
<1>3. \A o \in TaskIds : ~About(Head(toAgentd), o)  BY <1>2 DEF About, Starts, News
<1>4. toAgentd' \in Seq(ToAgentd) /\ SaidInv' /\ UpInv'  BY <1>1, <1>3, TakeSaid
<1>5. IsFiniteSet(leftover)  BY FS_Subset DEF LinkInv, StoredInv
<1>6. left \in Seq(leftover) /\ \A t \in leftover : \E i \in DOMAIN left : left[i] = t
  BY <1>5, SetToSeqIs
<1> HIDE DEF left
<1>7. reports \in Seq(ToPolicyd)
  <2>1. DOMAIN left = 1..Len(left) /\ Len(left) \in Nat  BY <1>6
  <2>2. \A i \in DOMAIN left : left[i] \in TaskIds  BY <1>6, <2>1, LinkTyped
  <2>3. \A i \in DOMAIN left : reports[i] \in ToPolicyd
    BY <2>2, ExitIsSent
  <2>4. reports \in [1..Len(left) -> ToPolicyd]  BY <2>1, <2>3
  <2> HIDE DEF reports
  <2> QED  BY <2>1, <2>4
<1>8. \A t \in leftover : \E i \in DOMAIN reports : reports[i].task = t /\ reports[i].req = 0
  <2>1. ASSUME NEW t \in leftover PROVE \E i \in DOMAIN reports : reports[i].task = t /\ reports[i].req = 0
    <3>1. PICK i \in DOMAIN left : left[i] = t  BY <1>6
    <3>2. t \in TaskIds  BY LinkTyped
    <3>3. reports[i] = Exited(t, "failed") /\ i \in DOMAIN reports  BY <3>1
    <3> QED  BY <3>2, <3>3, ExitIsSent
  <2> QED  BY <2>1
<1>9. \/ /\ leftover' = {} /\ link' = TRUE /\ toPolicyd' = toPolicyd \o reports
      \/ /\ ~(conn # 0 /\ \A i \in DOMAIN toAgentd' : toAgentd'[i].kind # "up")
         /\ leftover' \subseteq leftover /\ link' \in BOOLEAN /\ UNCHANGED toPolicyd
  BY DEF OnLinkUp, left
<1> HIDE DEF reports
<1>10. /\ toPolicyd' \in Seq(ToPolicyd) /\ link' \in BOOLEAN /\ leftover' \subseteq leftover
  <2>1. toPolicyd \in Seq(ToPolicyd)  BY LinkTyped
  <2>2. toPolicyd \o reports \in Seq(ToPolicyd)  BY <1>7, <2>1, ConcatProperties
  <2> QED  BY <1>9, <2>1, <2>2
<1>11. TypeOK'
  BY <1>1, <1>2, <1>4, <1>10 DEF LinkInv, TypeOK, ToPolicyd, ToAgentd, policydVars
<1>12. StoredInv'  BY <1>1, <1>10 DEF LinkInv, StoredInv, Stored
<1>13. ReportsOwed'
  <2> SUFFICES ASSUME ended = [breaks |-> 0, policyd |-> 0, agentd |-> 1], NEW t \in TaskIds,
                      view[t] = "closed", IsLive(task[t])
               PROVE  t \in leftover' \/ \E i \in DOMAIN toPolicyd' : toPolicyd'[i].task = t /\ toPolicyd'[i].req = 0
    BY <1>1, <1>2 DEF ReportsOwed, policydVars
  <2>1. OneUp  BY DEF LinkInv, UpInv
  <2>2. /\ toAgentd \in Seq(ToAgentd) /\ toAgentd # <<>> /\ toAgentd' = Tail(toAgentd)
    BY <1>1, LinkTyped DEF Take
  <2>3. /\ Head(toAgentd) = toAgentd[1] /\ 1 \in DOMAIN toAgentd
        /\ \A i \in DOMAIN toAgentd' : i + 1 \in DOMAIN toAgentd /\ toAgentd'[i] = toAgentd[i + 1]
        /\ \A i \in DOMAIN toAgentd' : i \in Nat /\ i >= 1
    BY <2>2, TailIs
  <2>4. conn # 0  BY <1>2, <2>1, <2>3 DEF OneUp
  <2>5. \A i \in DOMAIN toAgentd' : toAgentd'[i].kind # "up"
    <3> SUFFICES ASSUME NEW i \in DOMAIN toAgentd', toAgentd'[i].kind = "up" PROVE FALSE
      OBVIOUS
    <3>1. i + 1 = 1  BY <1>2, <2>1, <2>3 DEF OneUp
    <3> QED  BY <2>3, <3>1
  <2>6. toPolicyd' = toPolicyd \o reports  BY <1>9, <2>4, <2>5
  <2>7. /\ \A i \in DOMAIN toPolicyd : i \in DOMAIN toPolicyd' /\ toPolicyd'[i] = toPolicyd[i]
        /\ \A i \in DOMAIN reports : \E j \in DOMAIN toPolicyd' : toPolicyd'[j] = reports[i]
    <3>1. toPolicyd \in Seq(ToPolicyd)  BY LinkTyped
    <3>2. \A i \in DOMAIN toPolicyd : i \in DOMAIN toPolicyd' /\ toPolicyd'[i] = toPolicyd[i]
      BY <1>7, <2>6, <3>1
    <3>3. ASSUME NEW i \in DOMAIN reports PROVE \E j \in DOMAIN toPolicyd' : toPolicyd'[j] = reports[i]
      <4>1. Len(toPolicyd) + i \in DOMAIN toPolicyd' /\ toPolicyd'[Len(toPolicyd) + i] = reports[i]
        BY <1>7, <2>6, <3>1
      <4> QED  BY <4>1
    <3> QED  BY <3>2, <3>3
  <2>8. t \in leftover \/ \E i \in DOMAIN toPolicyd : toPolicyd[i].task = t /\ toPolicyd[i].req = 0
    BY DEF LinkInv, ReportsOwed
  <2> QED  BY <1>8, <2>7, <2>8
<1> QED  BY <1>4, <1>11, <1>12, <1>13 DEF LinkInv

LEMMA ConnectLinks == ASSUME LinkInv, Connect PROVE LinkInv'
<1> DEFINE m == [kind |-> "up"]
<1>1. /\ conn = 0 /\ conn' = 1 + ended.breaks + ended.policyd + ended.agentd
      /\ toAgentd' = Append(toAgentd, m) /\ UNCHANGED <<policydVars, agentdVars, toPolicyd, ended>>
  BY DEF Connect
<1>2. conn' \in Nat /\ conn' # 0
  <2>1. ended.breaks \in Nat /\ ended.policyd \in Nat /\ ended.agentd \in Nat
    BY LinkTyped, LinkAssumption
  <2> QED  BY <1>1, <2>1
<1>3. m \in ToAgentd /\ m.kind = "up" /\ \A t \in TaskIds : ~About(m, t)
  BY DEF ToAgentd, Marks, About, Starts, News
<1> HIDE DEF m
<1>4. toAgentd \in Seq(ToAgentd) /\ toAgentd' \in Seq(ToAgentd)  BY <1>1, <1>3, LinkTyped, OneMore
<1>5. UNCHANGED <<task, view, leftover>>  BY <1>1 DEF policydVars, agentdVars
<1>6. SaidInv'
  <2>1. \A t \in TaskIds :
          /\ Known(toAgentd, task[t], view[t], t) => Known(toAgentd', task[t], view[t], t)
          /\ Follows(toAgentd, task[t], view[t], t) => Follows(toAgentd', task[t], view[t], t)
    BY <1>1, <1>3, <1>4, OtherSent
  <2>2. Heard(toAgentd', task', view')  BY <1>5, <2>1 DEF LinkInv, SaidInv, Heard
  <2>3. Agrees(toAgentd, task, view) => Agrees(toAgentd', task', view')  BY <1>5, <2>1 DEF Agrees
  <2> QED  BY <1>1, <1>2, <2>2, <2>3 DEF LinkInv, SaidInv, NothingEnded
<1>7. UpInv'
  <2> SUFFICES ASSUME OneUp PROVE OneUp'
    BY <1>1 DEF LinkInv, UpInv
  <2>1. \A i \in DOMAIN toAgentd' : toAgentd'[i].kind = "up" => i = Len(toAgentd) + 1
    BY <1>1, <1>4 DEF OneUp
  <2> QED  BY <1>2, <2>1 DEF OneUp
<1>8. TypeOK'
  BY <1>1, <1>2, <1>4 DEF LinkInv, TypeOK, ToAgentd, policydVars, agentdVars
<1>9. StoredInv' /\ ReportsOwed'  BY <1>1, <1>5 DEF LinkInv, StoredInv, Stored, ReportsOwed
<1> QED  BY <1>6, <1>7, <1>8, <1>9 DEF LinkInv

(* A prefix is all that is left of what nobody read.                       *)
LEMMA PrefixIs ==
  ASSUME NEW S, NEW s \in Seq(S), NEW n \in 0..Len(s)
  PROVE  /\ SubSeq(s, 1, n) \in Seq(S)
         /\ \A i \in DOMAIN SubSeq(s, 1, n) : i \in DOMAIN s /\ SubSeq(s, 1, n)[i] = s[i]
OBVIOUS

LEMMA ConnEnds ==
  ASSUME LinkInv, EndOfConn, UNCHANGED <<task, view>>
  PROVE  conn' = 0 /\ toAgentd' \in Seq(ToAgentd) /\ Heard(toAgentd', task', view')
<1> DEFINE m == [kind |-> "down"]
<1>1. m \in ToAgentd /\ \A t \in TaskIds : ~About(m, t)
  BY DEF ToAgentd, Marks, About, Starts, News
<1>2. toAgentd \in Seq(ToAgentd)  BY LinkTyped
<1>3. /\ toAgentd' \in Seq(ToAgentd)
      /\ \A i \in DOMAIN toAgentd' : toAgentd'[i] = m \/ \E j \in DOMAIN toAgentd : toAgentd'[i] = toAgentd[j]
  <2>1. CASE UNCHANGED toAgentd  BY <1>2, <2>1
  <2>2. CASE conn # 0
    <3>1. PICK n \in 0..Len(toAgentd) : toAgentd' = Append(SubSeq(toAgentd, 1, n), m)
      BY <2>2 DEF EndOfConn
    <3> DEFINE kept == SubSeq(toAgentd, 1, n)
    <3>2. kept \in Seq(ToAgentd) /\ \A i \in DOMAIN kept : i \in DOMAIN toAgentd /\ kept[i] = toAgentd[i]
      BY <1>2, PrefixIs
    <3> HIDE DEF kept, m
    <3>3. toAgentd' = Append(kept, m)  BY <3>1 DEF kept
    <3> QED  BY <1>1, <3>2, <3>3
  <2> QED  BY <2>1, <2>2 DEF EndOfConn
<1> HIDE DEF m
<1>4. \A t \in TaskIds : Known(toAgentd', task[t], view[t], t)
  <2> SUFFICES ASSUME NEW t \in TaskIds PROVE Known(toAgentd', task[t], view[t], t)
    OBVIOUS
  <2>1. Known(toAgentd, task[t], view[t], t)  BY DEF LinkInv, SaidInv, Heard
  <2>2. \A i \in DOMAIN toAgentd' : ~About(toAgentd'[i], t) \/ \E j \in DOMAIN toAgentd : toAgentd'[i] = toAgentd[j]
    BY <1>1, <1>3
  <2> QED  BY <2>1, <2>2, Lost
<1> QED  BY <1>3, <1>4 DEF EndOfConn, Heard

LEMMA BreakLinks == ASSUME LinkInv, LinkBreaks \/ PolicydRestarts PROVE LinkInv'
<1>1. EndOfConn /\ UNCHANGED <<task, agentdVars>> /\ byHuman' \subseteq byHuman
  BY DEF LinkBreaks, PolicydRestarts, policydVars
<1>2. UNCHANGED <<view, running, leftover, pending, asked, reqs, link>>  BY <1>1 DEF agentdVars
<1>3. conn' = 0 /\ toAgentd' \in Seq(ToAgentd) /\ Heard(toAgentd', task', view')
  BY <1>1, <1>2, ConnEnds
<1>4. toPolicyd' \in Seq(ToPolicyd)
  <2>1. toPolicyd' = <<>> \/ \E n \in 0..Len(toPolicyd) : toPolicyd' = SubSeq(toPolicyd, 1, n)
    BY DEF LinkBreaks, PolicydRestarts, LosesSuffix
  <2>2. toPolicyd \in Seq(ToPolicyd) /\ <<>> \in Seq(ToPolicyd)  BY LinkTyped
  <2> QED  BY <2>1, <2>2, PrefixIs
<1>5. /\ ended' \in [breaks : 0..MaxBreaks, policyd : 0..MaxPolicydDeaths, agentd : 0..MaxAgentdDeaths]
      /\ ended'.breaks # 0 \/ ended'.policyd # 0
  <2>0. /\ ended.breaks \in 0..MaxBreaks /\ ended.policyd \in 0..MaxPolicydDeaths
        /\ ended.agentd \in 0..MaxAgentdDeaths
        /\ ended = [breaks |-> ended.breaks, policyd |-> ended.policyd, agentd |-> ended.agentd]
        /\ MaxBreaks \in Nat /\ MaxPolicydDeaths \in Nat
    BY LinkTyped, LinkAssumption
  <2>1. CASE LinkBreaks
    <3>1. ended' = [breaks |-> ended.breaks + 1, policyd |-> ended.policyd, agentd |-> ended.agentd]
          /\ ended.breaks < MaxBreaks
      BY <2>0, <2>1 DEF LinkBreaks
    <3>2. ended.breaks + 1 \in 0..MaxBreaks /\ ended.breaks + 1 # 0  BY <2>0, <3>1
    <3> QED  BY <2>0, <3>1, <3>2
  <2>2. CASE PolicydRestarts
    <3>1. ended' = [breaks |-> ended.breaks, policyd |-> ended.policyd + 1, agentd |-> ended.agentd]
          /\ ended.policyd < MaxPolicydDeaths
      BY <2>0, <2>2 DEF PolicydRestarts
    <3>2. ended.policyd + 1 \in 0..MaxPolicydDeaths /\ ended.policyd + 1 # 0  BY <2>0, <3>1
    <3> QED  BY <2>0, <3>1, <3>2
  <2> QED  BY <2>1, <2>2
<1>6. ~NothingEnded' /\ UpInv' /\ ReportsOwed'
  BY <1>5 DEF NothingEnded, UpInv, ReportsOwed
<1>7. TypeOK'
  BY <1>1, <1>2, <1>3, <1>4, <1>5 DEF LinkInv, TypeOK, ToAgentd, ToPolicyd
<1>8. StoredInv'  BY <1>2 DEF LinkInv, StoredInv, Stored
<1> QED  BY <1>3, <1>6, <1>7, <1>8 DEF LinkInv, SaidInv

LEMMA RestartLinks == ASSUME LinkInv, AgentdRestarts PROVE LinkInv'
<1>1. /\ ended' = [ended EXCEPT !.agentd = ended.agentd + 1] /\ ended.agentd < MaxAgentdDeaths
      /\ conn' = 0 /\ toAgentd' = <<>> /\ LosesSuffix(toPolicyd, toPolicyd')
      /\ leftover' = {t \in TaskIds : Open(t)}
      /\ view' = [t \in TaskIds |-> IF Open(t) THEN "closed" ELSE view[t]]
      /\ running' = {} /\ link' = FALSE /\ pending' = {} /\ asked' = {}
      /\ UNCHANGED <<task, byHuman, reqs>>
  BY DEF AgentdRestarts, policydVars
<1>2. /\ ended' \in [breaks : 0..MaxBreaks, policyd : 0..MaxPolicydDeaths, agentd : 0..MaxAgentdDeaths]
      /\ ended'.agentd = ended.agentd + 1 /\ ended'.breaks = ended.breaks /\ ended'.policyd = ended.policyd
      /\ ended.agentd \in Nat
  BY SMTT(30), <1>1, LinkTyped, LinkAssumption
<1>3. ~NothingEnded'  BY <1>2 DEF NothingEnded
<1>4. toPolicyd' \in Seq(ToPolicyd) /\ toAgentd' \in Seq(ToAgentd)
  BY <1>1, LinkTyped, PrefixIs DEF LosesSuffix
<1>5. view' \in [TaskIds -> Views] /\ \A t \in TaskIds : view'[t] = "none" <=> view[t] = "none"
  BY <1>1, LinkTyped DEF Views, Open
<1>6. TypeOK'
  BY <1>1, <1>2, <1>4, <1>5 DEF LinkInv, TypeOK, ToAgentd, ToPolicyd, Views
<1>7. Stored' = Stored  BY <1>5 DEF Stored
<1>8. StoredInv'
  <2>1. leftover' \subseteq Stored  BY <1>1 DEF Stored, Open
  <2> QED  BY <1>7, <2>1 DEF LinkInv, StoredInv
<1>9. UpInv'  BY <1>1 DEF UpInv, OneUp
<1>10. Heard(toAgentd', task', view')  BY <1>1, <1>5 DEF LinkInv, SaidInv, Heard, Known
<1>11. ReportsOwed'
  <2> SUFFICES ASSUME ended' = [breaks |-> 0, policyd |-> 0, agentd |-> 1], NEW t \in TaskIds,
                      view'[t] = "closed", IsLive(task[t])
               PROVE  t \in leftover'
    BY <1>1 DEF ReportsOwed
  <2>1. ended = [breaks |-> 0, policyd |-> 0, agentd |-> 0]
    <3>1. ended.agentd = 0 /\ ended.breaks = 0 /\ ended.policyd = 0  BY <1>2
    <3> QED  BY <3>1, LinkTyped
  <2>2. view[t] # "closed"
    <3>1. Follows(toAgentd, task[t], view[t], t)
      BY <2>1 DEF LinkInv, SaidInv, NothingEnded, Agrees
    <3> QED  BY <3>1 DEF Follows, Closed, CloseReasons, IsLive, LiveStates
  <2> QED  BY <1>1, <2>2
<1> QED  BY <1>3, <1>6, <1>8, <1>9, <1>10, <1>11 DEF LinkInv, SaidInv

-----------------------------------------------------------------------------
LEMMA LinkInit == ASSUME Init PROVE LinkInv
<1>1. toAgentd = <<>> /\ DOMAIN toAgentd = {} /\ Stored = {}  BY DEF Init, Stored
<1>2. TypeOK
  <2>1. /\ 0 \in 0..MaxReqs /\ 0 \in 0..MaxBreaks /\ 0 \in 0..MaxPolicydDeaths /\ 0 \in 0..MaxAgentdDeaths
        /\ 0 \in Nat
    BY LinkAssumption
  <2>2. toPolicyd \in Seq(Requests \cup Exits) /\ toAgentd \in Seq(Answers \cup Changes \cup Marks)
    BY DEF Init
  <2>3. ended \in [breaks : 0..MaxBreaks, policyd : 0..MaxPolicydDeaths, agentd : 0..MaxAgentdDeaths]
    BY <2>1 DEF Init
  <2> HIDE DEF Requests, Exits, Answers, Changes, Marks
  <2> QED  BY <2>1, <2>2, <2>3 DEF Init, TypeOK
<1>3. StoredInv  BY <1>1, FS_EmptySet DEF Init, StoredInv
<1>4. UpInv  BY <1>1 DEF UpInv, OneUp
<1>5. SaidInv
  <2>1. Heard(toAgentd, task, view)  BY <1>1 DEF Init, Heard, Known
  <2>2. Agrees(toAgentd, task, view)  BY <1>1 DEF Init, Agrees, Follows
  <2> QED  BY <2>1, <2>2 DEF Init, SaidInv
<1>6. ReportsOwed  BY DEF Init, ReportsOwed
<1> QED  BY <1>2, <1>3, <1>4, <1>5, <1>6 DEF LinkInv

LEMMA LinkStep == ASSUME LinkInv, [Next]_vars PROVE LinkInv'
<1>1. CASE HandleRequest  BY <1>1, RequestLinks
<1>2. CASE HandleExited  BY <1>2, ExitedLinks
<1>3. CASE OnProvision  BY <1>3, ProvisionLinks
<1>4. CASE OnTaskState  BY <1>4, StateLinks
<1>5. CASE OnAnswer \/ OnLinkDown  BY <1>5, AnswerLinks
<1>6. CASE OnLinkUp  BY <1>6, UpLinks
<1>7. CASE \E t \in TaskIds : Create(t)  BY <1>7, CreateLinks
<1>8. CASE \E t \in TaskIds : Unpause(t) \/ Terminate(t)  BY <1>8, PanelLinks
<1>9. CASE \E t \in TaskIds, mode \in Modes : Ask(t, mode)  BY <1>9, AskLinks
<1>10. CASE \E t \in running, how \in {"completed", "failed"} : ProcExit(t, how)  BY <1>10, ExitLinks
<1>11. CASE (\E p \in pending : Timeout(p)) \/ (\E r \in asked : HangUp(r))  BY <1>11, WaitLinks
<1>12. CASE Connect  BY <1>12, ConnectLinks
<1>13. CASE LinkBreaks \/ PolicydRestarts  BY <1>13, BreakLinks
<1>14. CASE AgentdRestarts  BY <1>14, RestartLinks
<1>15. CASE UNCHANGED vars
  BY <1>15 DEF vars, policydVars, agentdVars, wires, LinkInv, TypeOK, StoredInv, Stored, UpInv, OneUp, SaidInv,
               NothingEnded, ReportsOwed
<1> QED
  BY <1>1, <1>2, <1>3, <1>4, <1>5, <1>6, <1>7, <1>8, <1>9, <1>10, <1>11, <1>12, <1>13, <1>14, <1>15
  DEF Next, PolicydHandles, AgentdTakes

LEMMA LinkInvHolds == Spec => []LinkInv
BY LinkInit, LinkStep, PTL DEF Spec

(* As long as nothing ended, agentd has read everything exactly when it    *)
(* agrees with policyd on every task it stored, whatever pauses, drains,   *)
(* cancels, terminations and exits crossed on the way (core.rs task_state, *)
(* dispatch.rs route).                                                     *)
THEOREM AgentdAgrees == Spec => []ViewsAgree
<1>1. LinkInv => ViewsAgree
  <2> SUFFICES ASSUME LinkInv, NothingEnded, toAgentd = <<>>, NEW t \in TaskIds, view[t] # "none"
               PROVE  view[t] = Told(task[t])
    BY DEF ViewsAgree
  <2>1. Follows(toAgentd, task[t], view[t], t)  BY DEF LinkInv, SaidInv, Agrees
  <2> QED  BY <2>1 DEF Follows
<1> QED  BY LinkInvHolds, <1>1, PTL

(* After a restart of agentd, each task it closed itself is still to be    *)
(* reported or its report is on its way: no live task is forgotten when    *)
(* the restart falls between any two messages (core.rs new, LinkUp).       *)
THEOREM LeftoversAreReported == Spec => []ReportsOwed
<1>1. LinkInv => ReportsOwed  BY DEF LinkInv
<1> QED  BY LinkInvHolds, <1>1, PTL
====
