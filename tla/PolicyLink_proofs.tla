-------------------------- MODULE PolicyLink_proofs --------------------------
(***************************************************************************)
(* Proofs about PolicyLink, for any keys and any bounds.                   *)
(***************************************************************************)
EXTENDS PolicyLink, TLAPS, SequenceTheorems

TableMessages == [kind : {"table"}, key : Keys, version : 1..MaxTime]

(* The connection is one stream: the offer comes first and is read before  *)
(* there is a key, everything behind it is a table.                        *)
StreamInv ==
  /\ conn \in {"none", "waiting"} => key = NoKey /\ toAbyss = <<>>
  /\ conn \in {"waiting", "held"} => up
  /\ \A i \in 1..Len(toAbyss) :
       IF key = NoKey /\ i = 1 THEN \E k \in Keys : toAbyss[i] = Offer(k)
                               ELSE toAbyss[i] \in TableMessages

(* What policyd pushed last ends the stream, or is enforced.               *)
Awaited  == toAbyss # <<>> /\ toAbyss[Len(toAbyss)] = Push(pushed, issuer)
Enforced == table.version >= pushed /\ (~back => table.version = pushed)

HeldInv ==
  conn = "held" =>
    /\ key = NoKey => toAbyss # <<>> /\ toAbyss[1] = Offer(issuer)
    /\ key # NoKey => key = issuer
    /\ pushed > 0 => Awaited \/ (key # NoKey /\ toAbyss = <<>> /\ Enforced)

(* With a clock that goes forward no version is of the future, and none    *)
(* is later than the last one pushed.                                      *)
Past(v, n, p) == v <= n /\ (p > 0 => v <= p)
ClockInv ==
  ~back =>
    /\ pushed <= now /\ Past(table.version, now, pushed)
    /\ \A i \in 1..Len(toAbyss) : toAbyss[i] \in TableMessages => Past(toAbyss[i].version, now, pushed)

LinkInv == TypeOK /\ StreamInv /\ OneKeyPerSession /\ HeldInv /\ ClockInv

-----------------------------------------------------------------------------
(* What the messages are.                                                  *)
LEMMA MessageTypes ==
  /\ \A k \in Keys : Offer(k) \in Messages /\ Offer(k) \notin TableMessages /\ Offer(k).key = k
  /\ \A k \in Keys, v \in 1..MaxTime :
       /\ Push(v, k) \in Messages /\ Push(v, k) \in TableMessages
       /\ Push(v, k).version = v /\ Push(v, k).key = k
  /\ TableMessages \subseteq Messages
BY DEF Offer, Push, Messages, TableMessages

(* A version is at least 1 and beyond the one before it.                   *)
LEMMA VersionGrows ==
  ASSUME NEW n \in 1..MaxTime, NEW v \in Nat
  PROVE  NextVersion(n, v) \in Nat /\ NextVersion(n, v) > v /\ NextVersion(n, v) >= n
BY PolicyLinkAssumption DEF NextVersion

LEMMA InitHolds == Init => LinkInv
<1> SUFFICES ASSUME Init PROVE LinkInv
  OBVIOUS
<1>1. toAbyss \in Seq(Messages) /\ Len(toAbyss) = 0
  BY DEF Init
<1>2. table = NoTable /\ table.version = 0
  BY DEF Init, NoTable
<1>3. {hook, busy, refused, retry, up, back} \subseteq BOOLEAN
  BY DEF Init
<1>4. {pushed, now, deaths, drops, newKeys} \subseteq {0} /\ 0 \in 0..MaxTime
  BY PolicyLinkAssumption DEF Init
<1>5. TypeOK
  BY <1>1, <1>3, <1>4 DEF Init, TypeOK
<1> QED
  BY <1>1, <1>2, <1>5, PolicyLinkAssumption
  DEF Init, LinkInv, StreamInv, OneKeyPerSession, HeldInv, ClockInv, Past

LEMMA UnchangedKeeps == LinkInv /\ UNCHANGED vars => LinkInv'
BY DEF LinkInv, TypeOK, StreamInv, OneKeyPerSession, HeldInv, ClockInv, Past, Enforced, Awaited, vars, abyssVars, policydVars

(* A redial changes only that a connection waits.                         *)
LEMMA DialKeeps ==
  ASSUME LinkInv, conn = "none", Dial, UNCHANGED <<policydVars, drops>>, hook' \in BOOLEAN
  PROVE  LinkInv'
BY DEF LinkInv, TypeOK, StreamInv, OneKeyPerSession, HeldInv, ClockInv, Past, Dial, policydVars

(* Only busy, refused, retry and the add-on's switch change.               *)
LEMMA TimerKeeps ==
  ASSUME LinkInv, UNCHANGED <<pinned, conn, key, table, toAbyss, policydVars>>,
         {hook', busy', refused', retry'} \subseteq BOOLEAN, drops' \in Nat
  PROVE  LinkInv'
BY DEF LinkInv, TypeOK, StreamInv, OneKeyPerSession, HeldInv, ClockInv, Past, Enforced, Awaited, policydVars

LEMMA HookOffKeeps == LinkInv /\ HookOff => LinkInv'
BY TimerKeeps DEF HookOff, LinkInv, TypeOK

(* The connection going down leaves the pin and the table.                 *)
LEMMA DownKeeps ==
  ASSUME LinkInv, NEW b \in BOOLEAN, Down(b),
         UNCHANGED <<hook, pinned, table, policydVars>>, drops' \in Nat
  PROVE  LinkInv'
<1>1. {busy', retry', refused'} \subseteq BOOLEAN
  BY DEF Down, ArmRetry
<1>2. toAbyss' \in Seq(Messages)
  BY DEF Down
<1>3. TypeOK'
  BY <1>1, <1>2 DEF LinkInv, TypeOK, Down, policydVars
<1> QED
  BY <1>3 DEF LinkInv, TypeOK, StreamInv, OneKeyPerSession, HeldInv, ClockInv, Past, Down, policydVars

LEMMA HookOnKeeps == LinkInv /\ BusyIsOwed /\ HookOn => LinkInv'
<1> SUFFICES ASSUME LinkInv, BusyIsOwed, HookOn PROVE LinkInv'
  OBVIOUS
<1>1. hook' \in BOOLEAN /\ UNCHANGED <<policydVars, drops>>
  BY DEF HookOn
<1>2. CASE busy \/ refused
  BY <1>1, <1>2, TimerKeeps DEF HookOn, LinkInv, TypeOK
<1>3. CASE ~(busy \/ refused) /\ Dial
  BY <1>1, <1>3, DialKeeps DEF BusyIsOwed
<1>4. CASE ~(busy \/ refused) /\ ~Dial
  BY <1>1, <1>4, TimerKeeps DEF HookOn, ArmRetry, LinkInv, TypeOK
<1> QED BY <1>2, <1>3, <1>4

LEMMA RetryFiresKeeps == LinkInv /\ BusyIsOwed /\ RetryFires => LinkInv'
<1> SUFFICES ASSUME LinkInv, BusyIsOwed, RetryFires PROVE LinkInv'
  OBVIOUS
<1>1. hook' \in BOOLEAN /\ UNCHANGED <<policydVars, drops>>
  BY DEF RetryFires, LinkInv, TypeOK
<1>2. CASE refused \/ ~hook
  BY <1>1, <1>2, TimerKeeps DEF RetryFires, LinkInv, TypeOK
<1>3. CASE ~(refused \/ ~hook)
  BY <1>1, <1>3, DialKeeps DEF RetryFires, BusyIsOwed
<1> QED BY <1>2, <1>3

LEMMA ClosedKeeps == LinkInv /\ Closed => LinkInv'
BY DownKeeps DEF Closed, LinkInv, TypeOK

(* What is left of the stream after its head is read.                      *)
LEMMA TailFacts ==
  ASSUME NEW s \in Seq(Messages), s # <<>>
  PROVE  /\ Head(s) = s[1] /\ Head(s) \in Messages
         /\ Tail(s) \in Seq(Messages) /\ Len(Tail(s)) = Len(s) - 1 /\ Len(s) > 0
         /\ \A i \in 1..Len(Tail(s)) : Tail(s)[i] = s[i + 1] /\ i + 1 \in 2..Len(s)
         /\ Len(s) = 1 => Tail(s) = <<>>
         /\ Len(s) # 1 => Tail(s) # <<>> /\ Tail(s)[Len(Tail(s))] = s[Len(s)]
<1>1. /\ Head(s) = s[1] /\ Head(s) \in Messages
      /\ Tail(s) \in Seq(Messages) /\ Len(Tail(s)) = Len(s) - 1 /\ Len(s) > 0 /\ Len(s) \in Nat
      /\ \A i \in 1..Len(Tail(s)) : Tail(s)[i] = s[i + 1] /\ i + 1 \in 2..Len(s)
  OBVIOUS
<1>2. Len(s) = 1 => Tail(s) = <<>>
  BY <1>1, EmptySeq
<1>3. ASSUME Len(s) # 1 PROVE Tail(s) # <<>> /\ Tail(s)[Len(Tail(s))] = s[Len(s)]
  <2>1. Len(Tail(s)) \in 1..Len(Tail(s)) /\ Len(Tail(s)) + 1 = Len(s)
    BY <1>1, <1>3
  <2> QED BY <1>1, <2>1
<1> QED BY <1>1, <1>2, <1>3

(* Reading the offer: the rest of the stream is tables.                    *)
LEMMA ReadOfferKeeps == LinkInv /\ ReadOffer => LinkInv'
<1> SUFFICES ASSUME LinkInv, ReadOffer PROVE LinkInv'
  OBVIOUS
<1>1. toAbyss \in Seq(Messages) /\ toAbyss # <<>> /\ key = NoKey
  BY DEF LinkInv, TypeOK, ReadOffer
<1>2. PICK k \in Keys : Head(toAbyss) = Offer(k)
  BY <1>1, TailFacts DEF LinkInv, StreamInv
<1>3. Head(toAbyss).key = k
  BY <1>2, MessageTypes
<1>4. CASE ~Pinnable(k)
  BY <1>3, <1>4, DownKeeps DEF ReadOffer, LinkInv, TypeOK
<1>5. CASE Pinnable(k)
  <2>1. /\ pinned' = k /\ key' = k /\ toAbyss' = Tail(toAbyss)
        /\ UNCHANGED <<hook, busy, refused, retry, conn, table, policydVars, drops>>
    BY <1>3, <1>5 DEF ReadOffer
  <2>2. TypeOK'
    BY <2>1, <1>1, TailFacts DEF LinkInv, TypeOK, policydVars
  <2>3. StreamInv'
    <3>1. \A i \in 1..Len(toAbyss') : toAbyss'[i] \in TableMessages
      BY <2>1, <1>1, TailFacts DEF LinkInv, StreamInv
    <3> QED BY <3>1, <2>1, PolicyLinkAssumption DEF LinkInv, StreamInv, policydVars, ReadOffer
  <2>4. OneKeyPerSession'
    BY <2>1, <1>5, <1>1, PolicyLinkAssumption DEF LinkInv, TypeOK, OneKeyPerSession, Pinnable, Table, StreamInv
  <2>5. HeldInv'
    <3> SUFFICES ASSUME conn = "held" PROVE HeldInv'
      BY <2>1 DEF HeldInv
    <3>1. k = issuer
      BY <1>1, <1>2, TailFacts, MessageTypes DEF LinkInv, HeldInv, TypeOK
    <3>2. pushed > 0 => Awaited'
      <4> SUFFICES ASSUME pushed > 0 PROVE Awaited'
        OBVIOUS
      <4>1. toAbyss[Len(toAbyss)] = Push(pushed, issuer)
        BY <1>1 DEF LinkInv, HeldInv, Awaited
      <4>2. Push(pushed, issuer) \in TableMessages
        BY MessageTypes DEF LinkInv, TypeOK
      <4>3. Len(toAbyss) # 1
        BY <4>1, <4>2, <1>2, <1>1, TailFacts, MessageTypes
      <4> QED BY <4>1, <4>3, <2>1, <1>1, TailFacts DEF Awaited, policydVars
    <3> QED BY <3>1, <3>2, <2>1, PolicyLinkAssumption DEF HeldInv, policydVars
  <2>6. ClockInv'
    BY <2>1, <1>1, TailFacts DEF LinkInv, ClockInv, Past, policydVars
  <2> QED BY <2>2, <2>3, <2>4, <2>5, <2>6 DEF LinkInv
<1> QED BY <1>4, <1>5

(* Reading a table: the last one read is enforced, or was already beaten   *)
(* by a later one, which only a clock set back can bring about.            *)
LEMMA ReadTableKeeps == LinkInv /\ ReadTable => LinkInv'
<1> SUFFICES ASSUME LinkInv, ReadTable PROVE LinkInv'
  OBVIOUS
<1> DEFINE m == Head(toAbyss)
<1>1. toAbyss \in Seq(Messages) /\ toAbyss # <<>> /\ key # NoKey
  BY DEF LinkInv, TypeOK, ReadTable
<1>2. m = toAbyss[1] /\ m \in TableMessages
  BY <1>1, TailFacts DEF LinkInv, StreamInv
<1>3. m.version \in 1..MaxTime /\ m.key \in Keys
  BY <1>2 DEF TableMessages
<1>4. /\ toAbyss' = Tail(toAbyss)
      /\ table' = IF Acceptable(m) THEN [version |-> m.version, key |-> m.key] ELSE table
      /\ UNCHANGED <<hook, busy, refused, pinned, retry, conn, key, policydVars, drops>>
  BY DEF ReadTable
<1> HIDE DEF m
<1>5. table' \in Table \cup {NoTable} /\ table.version \in Nat
  BY <1>3, <1>4 DEF LinkInv, TypeOK, Table, NoTable
<1>6. TypeOK'
  BY <1>4, <1>5, <1>1, TailFacts DEF LinkInv, TypeOK, policydVars
<1>7. StreamInv'
  <2>1. \A i \in 1..Len(toAbyss') : toAbyss'[i] \in TableMessages
    BY <1>4, <1>1, TailFacts DEF LinkInv, StreamInv
  <2> QED BY <2>1, <1>4, <1>1 DEF LinkInv, StreamInv, policydVars, ReadTable
<1>8. OneKeyPerSession'
  <2>1. CASE Acceptable(m)
    <3>1. table'.key = key
      BY <2>1, <1>4 DEF Acceptable
    <3> QED BY <3>1, <1>1, <1>4 DEF LinkInv, OneKeyPerSession
  <2>2. CASE ~Acceptable(m)
    BY <2>2, <1>4 DEF LinkInv, OneKeyPerSession
  <2> QED BY <2>1, <2>2
<1>9. ClockInv'
  BY <1>1, <1>2, <1>3, <1>4, <1>5, TailFacts DEF LinkInv, ClockInv, Past, policydVars
<1>10. HeldInv'
  <2> SUFFICES ASSUME conn = "held", pushed > 0 PROVE Awaited' \/ (toAbyss' = <<>> /\ Enforced')
    BY <1>1, <1>4 DEF LinkInv, HeldInv, policydVars
  <2>1. toAbyss[Len(toAbyss)] = Push(pushed, issuer) /\ key = issuer
    BY <1>1 DEF LinkInv, HeldInv, Awaited
  <2>2. CASE Len(toAbyss) > 1
    BY <2>1, <2>2, <1>4, <1>1, TailFacts DEF Awaited, policydVars
  <2>3. CASE Len(toAbyss) = 1
    <3>1. m.version = pushed /\ m.key = key
      BY <2>1, <2>3, <1>2, MessageTypes DEF LinkInv, TypeOK
    <3>2. toAbyss' = <<>>
      BY <2>3, <1>1, <1>4, TailFacts
    <3>3. Enforced'
      BY <3>1, <1>4, <1>5 DEF Enforced, Acceptable, LinkInv, ClockInv, Past, TypeOK, policydVars
    <3> QED BY <3>2, <3>3
  <2> QED BY <2>2, <2>3, <1>1, TailFacts
<1> QED BY <1>6, <1>7, <1>8, <1>9, <1>10 DEF LinkInv


LEMMA HoldKeeps == LinkInv /\ Hold => LinkInv'
<1> SUFFICES ASSUME LinkInv, Hold PROVE LinkInv'
  OBVIOUS
<1> DEFINE tables == IF pushed = 0 THEN <<>> ELSE <<Push(pushed, issuer)>>
<1>1. /\ conn = "waiting" /\ conn' = "held" /\ toAbyss' = <<Offer(issuer)>> \o tables
      /\ UNCHANGED <<hook, busy, refused, pinned, retry, key, table, policydVars, drops>>
  BY DEF Hold
<1>2. key = NoKey /\ up /\ issuer \in Keys /\ pushed \in 0..MaxTime
  BY <1>1 DEF LinkInv, StreamInv, TypeOK
<1>3. Offer(issuer) \in Messages /\ tables \in Seq(TableMessages)
  BY <1>2, MessageTypes
<1>4. /\ toAbyss' \in Seq(Messages) /\ toAbyss' # <<>> /\ toAbyss'[1] = Offer(issuer)
      /\ Len(toAbyss') = 1 + Len(tables)
      /\ \A i \in 2..Len(toAbyss') : toAbyss'[i] = Push(pushed, issuer) /\ pushed > 0
      /\ pushed > 0 => Len(toAbyss') = 2 /\ toAbyss'[2] = Push(pushed, issuer)
  BY <1>1, <1>2, <1>3, MessageTypes
<1> HIDE DEF tables
<1>5. TypeOK'
  BY <1>1, <1>4 DEF LinkInv, TypeOK, policydVars
<1>6. StreamInv'
  BY <1>1, <1>2, <1>4, MessageTypes DEF LinkInv, StreamInv, policydVars
<1>7. OneKeyPerSession'
  BY <1>1, <1>2 DEF LinkInv, OneKeyPerSession
<1>8. HeldInv'
  BY <1>1, <1>2, <1>4 DEF HeldInv, Awaited, policydVars
<1>9. ClockInv'
  <2> SUFFICES ASSUME ~back PROVE \A i \in 1..Len(toAbyss') : toAbyss'[i] \in TableMessages => Past(toAbyss'[i].version, now, pushed)
    BY <1>1 DEF LinkInv, ClockInv, Past, policydVars
  <2>1. \A i \in 2..Len(toAbyss') : toAbyss'[i].version = pushed
    BY <1>2, <1>4, MessageTypes
  <2>2. toAbyss'[1] \notin TableMessages
    BY <1>2, <1>4, MessageTypes
  <2> QED BY <2>1, <2>2, <1>2, <1>4 DEF LinkInv, ClockInv, Past, TypeOK
<1> QED BY <1>5, <1>6, <1>7, <1>8, <1>9 DEF LinkInv

LEMMA RecompileKeeps == LinkInv /\ Recompile => LinkInv'
<1> SUFFICES ASSUME LinkInv, Recompile PROVE LinkInv'
  OBVIOUS
<1>1. /\ UNCHANGED <<hook, busy, refused, pinned, retry, conn, key, table, up, issuer, deaths, newKeys, drops>>
      /\ now' \in 1..MaxTime /\ back' = (back \/ now' <= now)
      /\ pushed' = NextVersion(now', pushed) /\ pushed' <= MaxTime
      /\ toAbyss' = IF conn = "held" THEN Append(toAbyss, Push(pushed', issuer)) ELSE toAbyss
  BY DEF Recompile, ReadClock, abyssVars
<1>2. /\ toAbyss \in Seq(Messages) /\ pushed \in 0..MaxTime /\ issuer \in Keys
      /\ now \in 0..MaxTime /\ MaxTime \in Nat /\ back \in BOOLEAN /\ table.version \in Nat
  BY PolicyLinkAssumption DEF LinkInv, TypeOK, Table, NoTable
<1>c. ASSUME ~back' PROVE ~back /\ now' > now /\ pushed <= now /\ pushed' = now'
  <2>1. ~back /\ ~(now' <= now)
    BY <1>1, <1>2, <1>c, Zenon
  <2>2. pushed <= now
    BY <2>1 DEF LinkInv, ClockInv
  <2>3. now' > now /\ pushed' = now'
    BY <2>1, <2>2, <1>1, <1>2 DEF NextVersion
  <2> QED BY <2>1, <2>2, <2>3
<1>d. ASSUME ~back'
      PROVE  /\ Past(table.version, now, pushed)
             /\ \A i \in 1..Len(toAbyss) : toAbyss[i] \in TableMessages => Past(toAbyss[i].version, now, pushed)
  BY <1>c, <1>d DEF LinkInv, ClockInv
<1>e. ASSUME ~back', NEW v \in Nat, Past(v, now, pushed) PROVE Past(v, now', pushed')
  BY <1>c, <1>e, <1>2, <1>1 DEF Past
<1>3. pushed' \in 1..MaxTime /\ pushed' > pushed /\ pushed' >= now'
  BY <1>1, <1>2, VersionGrows
<1>4. Push(pushed', issuer) \in Messages /\ Push(pushed', issuer) \in TableMessages
      /\ Push(pushed', issuer).version = pushed'
  BY <1>2, <1>3, MessageTypes
<1>5. CASE conn = "held"
  <2>1. /\ toAbyss' \in Seq(Messages) /\ Len(toAbyss') = Len(toAbyss) + 1 /\ Len(toAbyss) \in Nat
        /\ toAbyss' # <<>> /\ toAbyss'[Len(toAbyss')] = Push(pushed', issuer)
        /\ \A i \in 1..Len(toAbyss') :
             IF i = Len(toAbyss') THEN toAbyss'[i] = Push(pushed', issuer)
                                  ELSE toAbyss'[i] = toAbyss[i] /\ i \in 1..Len(toAbyss)
    BY <1>1, <1>2, <1>4, <1>5
  <2>2. TypeOK'
    BY <2>1, <1>1, <1>2, <1>3 DEF LinkInv, TypeOK
  <2>3. key = NoKey => Len(toAbyss) > 0 /\ toAbyss[1] = Offer(issuer)
    BY <1>2, <1>5 DEF LinkInv, HeldInv
  <2>4. StreamInv'
    BY <2>1, <2>3, <1>1, <1>4, <1>5 DEF LinkInv, StreamInv
  <2>5. HeldInv'
    BY <2>1, <2>3, <1>1, <1>5 DEF LinkInv, HeldInv, Awaited
  <2>6. ClockInv'
    <3> SUFFICES ASSUME ~back' PROVE ClockInv'
      BY DEF ClockInv
    <3>1. ~back /\ now' > now /\ pushed <= now /\ pushed' = now'
      BY <1>c
    <3>2. Past(table'.version, now', pushed') /\ pushed' <= now'
      <4>1. Past(table.version, now', pushed')
        BY <1>2, <1>d, <1>e
      <4>2. UNCHANGED table
        BY <1>1
      <4>3. now' \in Nat
        BY <1>1, <1>2
      <4> QED BY <4>1, <4>2, <4>3, <3>1
    <3>3. ASSUME NEW i \in 1..Len(toAbyss'), toAbyss'[i] \in TableMessages
          PROVE  Past(toAbyss'[i].version, now', pushed')
      <4>1. toAbyss'[i].version \in Nat
        BY <3>3, <1>2 DEF TableMessages
      <4>2. CASE i = Len(toAbyss')
        BY <4>2, <2>1, <3>1, <1>2, <1>3, <1>4 DEF Past
      <4>3. CASE i # Len(toAbyss')
        BY <4>3, <4>1, <3>3, <2>1, <1>d, <1>e
      <4> QED BY <4>2, <4>3
    <3> QED BY <3>2, <3>3 DEF ClockInv
  <2>7. OneKeyPerSession'
    BY <1>1 DEF LinkInv, OneKeyPerSession
  <2> QED BY <2>2, <2>4, <2>5, <2>6, <2>7 DEF LinkInv
<1>6. CASE conn # "held"
  <2>1. UNCHANGED toAbyss
    BY <1>1, <1>6
  <2>2. TypeOK'
    BY <2>1, <1>1, <1>2, <1>3 DEF LinkInv, TypeOK
  <2>3. ClockInv'
    <3> SUFFICES ASSUME ~back' PROVE ClockInv'
      BY DEF ClockInv
    <3>1. ~back /\ now' > now /\ pushed <= now /\ pushed' = now'
      BY <1>c
    <3>2. \A i \in 1..Len(toAbyss) : toAbyss[i] \in TableMessages => toAbyss[i].version \in Nat
      BY <1>2 DEF TableMessages
    <3>3. Past(table'.version, now', pushed') /\ pushed' <= now'
      <4>1. Past(table.version, now', pushed')
        BY <1>2, <1>d, <1>e
      <4>2. UNCHANGED table
        BY <1>1
      <4>3. now' \in Nat
        BY <1>1, <1>2
      <4> QED BY <4>1, <4>2, <4>3, <3>1
    <3>4. \A i \in 1..Len(toAbyss) : toAbyss[i] \in TableMessages => Past(toAbyss[i].version, now', pushed')
      BY <3>2, <1>d, <1>e
    <3> QED BY <3>3, <3>4, <2>1 DEF ClockInv
  <2> QED BY <2>1, <2>2, <2>3, <1>1, <1>6 DEF LinkInv, StreamInv, OneKeyPerSession, HeldInv
<1> QED BY <1>5, <1>6

(* A connection of a policyd that died is not held any more.               *)
LEMMA DieKeeps == LinkInv /\ Die => LinkInv'
<1> SUFFICES ASSUME LinkInv, Die PROVE LinkInv'
  OBVIOUS
<1>1. /\ up' = FALSE /\ pushed' = 0 /\ deaths' = deaths + 1
      /\ conn' = IF conn = "none" THEN "none" ELSE "gone"
      /\ UNCHANGED <<hook, busy, refused, pinned, retry, key, table, toAbyss, issuer, now, back, newKeys, drops>>
  BY DEF Die
<1>2. TypeOK'
  <2>1. 0 \in 0..MaxTime /\ up' \in BOOLEAN /\ deaths' \in Nat
    <3>1. MaxTime \in Nat /\ deaths \in Nat
      BY PolicyLinkAssumption DEF LinkInv, TypeOK
    <3>2. up' \in BOOLEAN
      BY <1>1, Zenon
    <3>3. 0 \in 0..MaxTime /\ deaths' \in Nat
      BY <3>1, <1>1
    <3> QED BY <3>2, <3>3
  <2>2. conn' \in {"none", "waiting", "held", "gone"}
    BY <1>1
  <2> QED BY <2>1, <2>2, <1>1 DEF LinkInv, TypeOK
<1>3. conn' # "held" /\ conn' # "waiting" /\ now \in Nat
  BY <1>1 DEF LinkInv, TypeOK
<1>4. StreamInv' /\ HeldInv'
  BY <1>1, <1>3 DEF LinkInv, StreamInv, HeldInv
<1>5. OneKeyPerSession'
  BY <1>1 DEF LinkInv, OneKeyPerSession, StreamInv
<1>6. ClockInv'
  BY <1>1, <1>3 DEF LinkInv, ClockInv, Past
<1> QED BY <1>2, <1>4, <1>5, <1>6 DEF LinkInv

(* A restart compiles with a clock past every version of before.           *)
LEMMA StartUpKeeps == LinkInv /\ StartUp => LinkInv'
<1> SUFFICES ASSUME LinkInv, StartUp PROVE LinkInv'
  OBVIOUS
<1>1. /\ ~up /\ up' = TRUE /\ issuer' \in Keys /\ newKeys' \in Nat
      /\ now' \in 1..MaxTime /\ back' = (back \/ now' <= now)
      /\ pushed' \in {0, now'}
      /\ UNCHANGED <<hook, busy, refused, pinned, retry, conn, key, table, toAbyss, deaths, drops>>
  BY DEF StartUp, ReadClock, abyssVars, NextVersion, LinkInv, TypeOK
<1>2. conn # "held" /\ conn # "waiting" /\ now \in 0..MaxTime /\ MaxTime \in Nat
  BY <1>1, PolicyLinkAssumption DEF LinkInv, StreamInv, TypeOK
<1>3. TypeOK'
  BY <1>1, <1>2 DEF LinkInv, TypeOK
<1>4. StreamInv' /\ HeldInv' /\ OneKeyPerSession'
  BY <1>1, <1>2 DEF LinkInv, StreamInv, HeldInv, OneKeyPerSession
<1>5. ClockInv'
  <2> SUFFICES ASSUME ~back' PROVE ClockInv'
    BY DEF ClockInv
  <2>1. back \in BOOLEAN /\ table.version \in Nat
    BY DEF LinkInv, TypeOK, Table, NoTable
  <2>2. ~back /\ ~(now' <= now)
    BY <1>1, <2>1, Zenon
  <2>3. \A i \in 1..Len(toAbyss) : toAbyss[i] \in TableMessages => toAbyss[i].version \in Nat
    BY <1>2 DEF TableMessages
  <2> QED BY <2>1, <2>2, <2>3, <1>1, <1>2 DEF LinkInv, ClockInv, Past
<1> QED BY <1>3, <1>4, <1>5 DEF LinkInv

-----------------------------------------------------------------------------
(* Link::busy on its own.                                                  *)
LEMMA BusyKeeps == BusyIsOwed /\ [Next]_vars => BusyIsOwed'
<1> USE DEF BusyIsOwed
<1> SUFFICES ASSUME BusyIsOwed, [Next]_vars PROVE BusyIsOwed'
  OBVIOUS
<1>1. CASE HookOn
  BY <1>1 DEF HookOn, Dial, ArmRetry
<1>2. CASE HookOff
  BY <1>2 DEF HookOff
<1>3. CASE RetryFires
  BY <1>3 DEF RetryFires, Dial
<1>4. CASE ReadOffer
  BY <1>4 DEF ReadOffer, Down, ArmRetry
<1>5. CASE ReadTable
  BY <1>5 DEF ReadTable
<1>6. CASE Closed
  BY <1>6 DEF Closed, Down, ArmRetry
<1>7. CASE Hold
  BY <1>7 DEF Hold
<1>8. CASE Recompile
  BY <1>8 DEF Recompile, abyssVars
<1>9. CASE Die
  BY <1>9 DEF Die
<1>10. CASE StartUp
  BY <1>10 DEF StartUp, abyssVars
<1>11. CASE UNCHANGED vars
  BY <1>11 DEF vars, abyssVars
<1> QED BY <1>1, <1>2, <1>3, <1>4, <1>5, <1>6, <1>7, <1>8, <1>9, <1>10, <1>11 DEF Next

(* Whatever the order of switches, retries and deaths, the link is dialled *)
(* by nobody twice and never forgotten (link.rs start, arm_retry, down).   *)
THEOREM BusyHolds == Spec => []BusyIsOwed
<1>1. Init => BusyIsOwed
  BY DEF Init, BusyIsOwed
<1> QED BY <1>1, BusyKeeps, PTL DEF Spec

LEMMA LinkInvHolds == Spec => []LinkInv
<1>1. LinkInv /\ BusyIsOwed /\ [Next]_vars => LinkInv'
  BY HookOnKeeps, HookOffKeeps, RetryFiresKeeps, ReadOfferKeeps, ReadTableKeeps, ClosedKeeps,
     HoldKeeps, RecompileKeeps, DieKeeps, StartUpKeeps, UnchangedKeeps DEF Next
<1> QED BY InitHolds, <1>1, BusyHolds, PTL DEF Spec

(* One key a session, for any keys and any number of restarts: the key in  *)
(* use and the live table's are the pinned one (link.rs pin, F-05).        *)
THEOREM KeyIsPinned == Spec => []OneKeyPerSession
<1>1. LinkInv => OneKeyPerSession
  BY DEF LinkInv
<1> QED BY <1>1, LinkInvHolds, PTL

(* What policyd pushed last is what is enforced once the stream is read,   *)
(* or something newer if the clock went back (main.rs recompile, hold).    *)
THEOREM PushedHolds == Spec => []PushedIsEnforced
<1>1. LinkInv => PushedIsEnforced
  <2> SUFFICES ASSUME LinkInv, key # NoKey, conn = "held", pushed > 0,
                      \A i \in 1..Len(toAbyss) : toAbyss[i].kind # "table"
               PROVE  Enforced
    BY DEF PushedIsEnforced, Enforced
  <2>1. toAbyss \in Seq(Messages)
    BY DEF LinkInv, TypeOK
  <2>2. Push(pushed, issuer).kind = "table"
    BY DEF Push
  <2>3. ~Awaited
    BY <2>1, <2>2 DEF Awaited
  <2> QED BY <2>3 DEF LinkInv, HeldInv
<1> QED BY <1>1, LinkInvHolds, PTL

(* The live table only goes forward, for any versions (table.rs accept).   *)
THEOREM TableForward == Spec => TableGoesForward
<1>1. LinkInv /\ [Next]_vars => [table' # table => table'.version > table.version]_table
  BY DEF Next, HookOn, HookOff, RetryFires, ReadOffer, ReadTable, Closed, Hold, Recompile, Die, StartUp,
         Down, Dial, Acceptable, vars, abyssVars
<1> QED BY <1>1, LinkInvHolds, PTL DEF Spec, TableGoesForward
=============================================================================
